\* One Docling and one ColPali request are enough for the overlap.
CONSTANTS
    DoclingReqs = {d1}
    OcrReqs = {}
    ColPaliReqs = {c1}
    OcrPreloaded = FALSE
SPECIFICATION Spec
INVARIANTS ExclusiveGpu2
