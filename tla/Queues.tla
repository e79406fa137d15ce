-------------------------------- MODULE Queues --------------------------------
(***************************************************************************)
(* What both the queue of a session (agent/session.ts) and its journal     *)
(* (session/store.ts) do with a list of inputs: filter it.                 *)
(***************************************************************************)
EXTENDS Integers, SequencesExt

\* The elements of q that are in ids, in the order of q.
Chosen(q, ids) == FoldLeft(LAMBDA kept, i : IF i \in ids THEN Append(kept, i) ELSE kept, <<>>, q)
=============================================================================
