---------------------------- MODULE MCVllmEngine ----------------------------
(***************************************************************************)
(* VLLMEngine serving calls for a while and a batch for a while.  They     *)
(* share the loaded engine and nothing else, so that what calls and        *)
(* batches do side by side adds states and no behaviour of either.         *)
(***************************************************************************)
EXTENDS VllmEngine

Fresh(c) == \A j \in Jobs : j[1] = c => job[j] = "none"

OneKind == \/ \A r \in Calls : pc[r] = "idle" /\ Fresh(r)
           \/ \A b \in Batches : bpc[b] = "idle" /\ Fresh(b)

MCNext == Next /\ OneKind'

MCSpec == Init /\ [][MCNext]_vars /\ Fairness
=============================================================================
