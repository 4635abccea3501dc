----------------------------- MODULE MCGateway -----------------------------
(***************************************************************************)
(* Gateway on the two paths of MCRateLimiter, each with one engine.        *)
(***************************************************************************)
EXTENDS Gateway, MCRateLimiter

MCServes == [p \in Paths |-> IF p = "ocr" THEN {"ocr"} ELSE {"vllm"}]
=============================================================================
