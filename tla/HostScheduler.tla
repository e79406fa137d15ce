----------------------------- MODULE HostScheduler -----------------------------
(***************************************************************************)
(* HostOperationScheduler (apps/desktop/src/main/host-operation-scheduler.ts) *)
(* for one key: the operations that write to one project, in the order in  *)
(* which they were asked for.  The promise chain of the code is a queue     *)
(* whose head runs once it has started.  A caller that is aborted before    *)
(* its operation has started is told so at once; its place stays in the     *)
(* queue until its turn comes.                                              *)
(***************************************************************************)
EXTENDS Integers, Sequences

VARIABLES
  queue,   \* the operations: [op, aborted, ...]
  started  \* the head of the queue runs

(* enqueue().                                                               *)
Enqueued(op) == queue' = Append(queue, op)

(* onAbort: only an operation that has not started is given up.             *)
Waits(i) == i > 1 \/ ~started
Aborted(i) == [queue EXCEPT ![i].aborted = TRUE]

(* The predecessor has settled.                                             *)
\* Variant: an operation whose caller was told runs when its turn comes.
BadMayRun(op) == TRUE
MayRun(op) == ~op.aborted

Starts ==
  /\ queue # <<>> /\ ~started
  /\ IF MayRun(Head(queue)) THEN started' = TRUE /\ UNCHANGED queue
     ELSE queue' = Tail(queue) /\ UNCHANGED started

(* The operation settles.                                                   *)
\* Variant: the next one is taken for started.
BadFinishes == queue' = Tail(queue) /\ UNCHANGED started
Finishes == queue' = Tail(queue) /\ started' = FALSE
=============================================================================
