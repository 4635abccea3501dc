------------------------------ MODULE Routers ------------------------------
(***************************************************************************)
(* What becomes of a request's error: FastAPI's validation, the routers    *)
(* (api/presentation/routers), the services and engines behind them, the   *)
(* routers' chains of except clauses, and the handlers of                  *)
(* api/presentation/middleware/error_handler.py.  Requests do not meet     *)
(* here, so there is one.                                                  *)
(***************************************************************************)
EXTENDS Naturals

Routes == {"chat", "batch", "completions", "documents", "ocr", "models"}

\* What is wrong with a body, if anything, on each route.
Flaws(r) == {"none"} \cup
            CASE r \in {"chat", "batch"} -> {"malformed", "unknownModel"}
              [] r = "completions"       -> {"malformed"}
              [] r = "documents"         -> {"malformed", "tooLarge", "empty"}
              [] r = "ocr"               -> {"malformed", "tooLarge", "empty", "missing", "urlOnly"}
              [] r = "models"            -> {}

VARIABLES route, flaw,
          place,       \* where the request is
          raised,      \* the exception on its way up, or "none"
          status       \* the answer's, 0 before

vars == <<route, flaw, place, raised, status>>

Init == /\ route \in Routes
        /\ flaw \in Flaws(route)
        /\ place = "validation"
        /\ raised = "none"
        /\ status = 0

Raise(e, p) == raised' = e /\ place' = p /\ UNCHANGED <<route, flaw, status>>
Go(p)       == Raise("none", p)
-----------------------------------------------------------------------------
(* Bodies of the wrong form do not come to the router.                     *)
Validate == /\ place = "validation"
            /\ IF flaw = "malformed" THEN Raise("Validation", "handlers") ELSE Go("router")

At(p, r) == place = p /\ route = r
-----------------------------------------------------------------------------
(* The routers' own code, inside their try. *)

list_models == At("router", "models") /\ Go("answer")

create_chat_completion == /\ place = "router" /\ route \in {"chat", "batch"}
                          /\ Go("service")

create_completion == At("router", "completions") /\ Raise("HTTP 501", "except")

process_document == /\ At("router", "documents")
                    /\ IF flaw = "tooLarge" THEN Raise("HTTP 413", "except") ELSE Go("service")

process_ocr == /\ At("router", "ocr")
               /\ CASE flaw = "missing"  -> Raise("ValueError", "except")
                    [] flaw = "tooLarge" -> Raise("HTTP 413", "except")
                    [] flaw = "urlOnly"  -> Raise("NotImplementedError", "except")
                    [] OTHER             -> Go("service")

Router == \/ list_models \/ create_chat_completion \/ create_completion
          \/ process_document \/ process_ocr
-----------------------------------------------------------------------------
(* The services and engines. *)

\* The items of a batch fail one by one, and become entries of its answer.
ChatService == /\ place = "service" /\ route \in {"chat", "batch"}
               /\ CASE flaw = "unknownModel" /\ route = "chat" -> Raise("UnknownModelError", "except")
                    [] flaw = "unknownModel" /\ route = "batch" -> Go("answer")
                    [] OTHER -> Go("engine")

\* Base64 of no bytes is the empty string, which counts as no file.
DocumentService == /\ At("service", "documents")
                   /\ IF flaw = "empty" THEN Raise("ValueError", "except") ELSE Go("engine")

OCRService == /\ At("service", "ocr")
              /\ IF flaw = "empty" THEN Raise("ValueError", "except") ELSE Go("engine")

\* Also an answer without text: the type it is put in refuses it.
ChatEngine == /\ place = "engine" /\ route \in {"chat", "batch"}
              /\ \/ Go("answer")
                 \/ route = "chat" /\ \E e \in {"RuntimeError", "ValueError", "CUDA"} : Raise(e, "except")

\* Everything, a busy GPU too, is made a ValueError.
DoclingEngine == /\ At("engine", "documents")
                 /\ Go("answer") \/ Raise("ValueError", "except")

OCREngine == /\ At("engine", "ocr")
             /\ \/ Go("answer")
                \/ \E e \in {"RuntimeError", "ValueError", "GPU2LockTimeout"} : Raise(e, "except")
-----------------------------------------------------------------------------
(* The routers' except clauses name the status; the last of each is for    *)
(* Exception, which an HTTPException is one of.  The RunPod errors some of *)
(* them name are raised by nobody.                                         *)
ChatCaught == CASE raised = "UnknownModelError" /\ route = "chat" -> "HTTP 400"
                [] raised = "ValueError" /\ route = "batch"       -> "HTTP 400"
                [] OTHER                                          -> "HTTP 500"

CompletionsCaught == "HTTP 500"

DocumentsCaught == IF raised = "ValueError" THEN "HTTP 400" ELSE "HTTP 500"

OcrCaught == CASE raised = "ValueError"          -> "HTTP 400"
               [] raised = "NotImplementedError" -> "HTTP 501"
               [] OTHER                          -> "HTTP 500"

Except == /\ place = "except"
          /\ Raise(CASE route \in {"chat", "batch"} -> ChatCaught
                     [] route = "completions"       -> CompletionsCaught
                     [] route = "documents"         -> DocumentsCaught
                     [] route = "ocr"               -> OcrCaught, "handlers")

\* general_exception_handler, which would say 503 for a busy GPU, is for what
\* no router has caught.
GeneralStatus == IF raised \in {"GPU2LockTimeout", "CUDA"} THEN 503 ELSE 500

\* The handler registered for the exception that left the router.
Handled == CASE raised = "Validation" -> 422
             [] raised = "HTTP 400"   -> 400
             [] raised = "HTTP 413"   -> 413
             [] raised = "HTTP 500"   -> 500
             [] raised = "HTTP 501"   -> 501
             [] OTHER                 -> GeneralStatus

Send == /\ place \in {"answer", "handlers"}
        /\ status' = IF place = "answer" THEN 200 ELSE Handled
        /\ place'  = "sent"
        /\ UNCHANGED <<route, flaw, raised>>

\* The next request.
Again == /\ place = "sent"
         /\ route'  \in Routes
         /\ flaw'   \in Flaws(route')
         /\ place'  = "validation"
         /\ raised' = "none"
         /\ status' = 0

Next == \/ Validate \/ Router \/ Except \/ Send \/ Again
        \/ ChatService \/ DocumentService \/ OCRService
        \/ ChatEngine \/ DoclingEngine \/ OCREngine

Spec == Init /\ [][Next]_vars
-----------------------------------------------------------------------------
(* A document or image above 500 MB is answered 413, as the end-to-end     *)
(* tests say of both routes (tests/integration/test_e2e.py:235 and 245).   *)
TooLargeIs413 == place = "sent" /\ flaw = "tooLarge" => status = 413
=============================================================================
