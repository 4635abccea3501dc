\* Every engine has requests that compete with the others', and Docling with itself.
CONSTANTS
    DoclingReqs = {d1, d2}
    OcrReqs = {o1}
    ColPaliReqs = {c1}
    OcrPreloaded = TRUE
SPECIFICATION FairSpec
INVARIANTS TypeOK OneJob OneTenant JobHasModel HolderNamed ChandraIsNamed FallbackSticks
PROPERTIES EveryoneAnswered
