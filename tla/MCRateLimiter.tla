--------------------------- MODULE MCRateLimiter ---------------------------
(***************************************************************************)
(* RateLimiter with two paths, one narrower than the other, as chat (30 a  *)
(* minute) and OCR (10 a minute) are.                                      *)
(***************************************************************************)
EXTENDS RateLimiter

MCLimit == [p \in Paths |-> IF p = "ocr" THEN 1 ELSE 2]
=============================================================================
