--------------------------- MODULE MCChatService ---------------------------
(***************************************************************************)
(* ChatService with interchangeable requests and interchangeable cached    *)
(* keys: nothing compares them but for equality, and only safety is        *)
(* checked.                                                                *)
(***************************************************************************)
EXTENDS ChatService, TLC

Interchangeable == Permutations(Requests) \cup Permutations(Keys \ Streaming)
=============================================================================
