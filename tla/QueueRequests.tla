---------------------------- MODULE QueueRequests ----------------------------
(***************************************************************************)
(* TransactionQueue with the parity of the answers next_ready() has given. *)
(* An answer may leave the queue and its answer as they were (None, and    *)
(* None again); a promise about every answer has to see it as a step.      *)
(***************************************************************************)
EXTENDS TransactionQueue

VARIABLE requests   \* history: the answers given so far, modulo 2

requestsVars == <<queueVars, requests>>

RequestsInit == QueueInit /\ requests = 0

Request == NextReady /\ UNCHANGED <<txnVars, now>> /\ requests' = 1 - requests

RequestsNext == \/ Request
                \/ BetweenRequests /\ UNCHANGED requests

RequestsSpec == RequestsInit /\ [][RequestsNext]_requestsVars

\* The heaps with their stale entries implement UrgentFirst.
Line == INSTANCE UrgentFirst WITH
    waiting <- {[txn |-> known[id], rank |-> queued[id], due |-> scheduledAt[known[id]]] :
                  id \in {i \in Ids : queued[i] # 0 /\ status[known[i]] = "pending"}},
    result <- handed

\* Every answer of next_ready() is the most urgent waiting transaction that is due, the
\* first queued among equals, or None with none due, the answers that repeat the one
\* before included; an answer is withdrawn only by the one who got a transaction, and
\* cancelling, which searches no heap, takes one out of the line at once.
ImplementsUrgentFirst == Line!Spec
=============================================================================
