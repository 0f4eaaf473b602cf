----------------------------- MODULE ProcessQueue -----------------------------
(***************************************************************************)
(* TransactionProcessor.process_queue(): the processor and the queue that  *)
(* feeds it, sharing the bank's clock.  A run takes every transaction that *)
(* is due, attempts each, sorts it by the status it is left in, and puts   *)
(* the pending ones back when the loop ends, by an error included.         *)
(***************************************************************************)
EXTENDS TransactionProcessor, TransactionQueue

CONSTANT ProcessedOutside   \* objects process() is called on past the queue

ASSUME DirectAssumption == ProcessedOutside \subseteq Txns

VARIABLES mode,     \* "none", or in process_queue(): the "loop", its "finally"
          report    \* ProcessingReport of the run, a sequence for each status

runVars == <<mode, report>>
vars == <<procVars, heapVars, handed, runVars>>

Buckets == {"completed", "failed", "pending"}
EmptyReport == [b \in Buckets |-> <<>>]

Idle == mode = "none" /\ pc = "idle"

RunInit == /\ ProcInit
           /\ ready = {} /\ delayed = {}
           /\ queued = [id \in Ids |-> 0]
           /\ known = [id \in Ids |-> NoTxn]
           /\ sequence = 0
           /\ handed = NoTxn
           /\ mode = "none"
           /\ report = EmptyReport

\* a client submits a transaction, or cancels one that waits
Submit(t) == /\ Idle
             /\ Add(t)
             /\ UNCHANGED <<bankVars, historyVars, errors, collectedFees, attemptVars, runVars>>

CancelWaiting(id) ==
    /\ Idle
    /\ CancelQueued(id)
    /\ UNCHANGED <<bankVars, historyVars, errors, collectedFees, attemptVars, runVars>>

StartRun == /\ Idle
            /\ mode' = "loop"
            /\ report' = EmptyReport
            /\ UNCHANGED <<procVars, heapVars, handed>>

\* while (transaction := queue.next_ready()) is not None: process(transaction)
TakeNext == /\ mode = "loop" /\ pc = "idle"
            /\ NextReady
            /\ \E t \in Txns : handed' = t /\ Process(t)
            /\ UNCHANGED runVars

NoneLeft == /\ mode = "loop" /\ pc = "idle"
            /\ NextReady
            /\ handed' = NoTxn
            /\ mode' = "finally"
            /\ UNCHANGED <<procVars, report>>

\* faulty variant of Sort: an error of process() leaves without the outer finally
SortAndLeave == /\ mode = "loop"
                /\ Return
                /\ report' = [report EXCEPT ![status[cur]] = Append(@, cur)]
                /\ mode' = IF raised THEN "none" ELSE "loop"
                /\ handed' = NoTxn
                /\ UNCHANGED heapVars

\* the inner finally sorts the transaction; an error of process() ends the loop
Sort == /\ mode = "loop"
        /\ Return
        /\ report' = [report EXCEPT ![status[cur]] = Append(@, cur)]
        /\ mode' = IF raised THEN "finally" ELSE "loop"
        /\ handed' = NoTxn
        /\ UNCHANGED heapVars

\* the outer finally: requeue() what is to be retried, then leave the run
PutBack == /\ mode = "finally"
           /\ Requeue(report["pending"])
           /\ mode' = "none"
           /\ UNCHANGED <<bankVars, historyVars, errors, collectedFees, attemptVars, report>>

\* process() called on a transaction directly, past the queue
ProcessDirectly(t) == /\ Idle
                      /\ t \in ProcessedOutside
                      /\ Process(t)
                      /\ UNCHANGED <<heapVars, handed, runVars>>

ReturnDirectly == /\ mode = "none"
                  /\ Return
                  /\ UNCHANGED <<heapVars, handed, runVars>>

AttemptStep == Attempt /\ UNCHANGED <<heapVars, handed, runVars>>

BetweenRuns == mode = "none" /\ Environment /\ UNCHANGED <<heapVars, handed, runVars>>

Passing == ClockTick /\ UNCHANGED <<heapVars, handed, runVars>>

\* bound: past MaxTime the clock only moves on while nothing is due or being
\* attempted, to the moment the next transaction falls due
Waiting == {t \in Txns : status[t] = "pending" /\ queued[IdOf[t]] # 0 /\ known[IdOf[t]] = t}
WaitForDue == /\ pc = "idle" /\ now >= MaxTime
              /\ \A t \in Waiting : ~IsDue(t, now)
              /\ \E t \in Waiting : /\ \A u \in Waiting : scheduledAt[t] <= scheduledAt[u]
                                    /\ now' = scheduledAt[t]
              /\ UNCHANGED <<txnVars, bankVars, historyVars, errors, collectedFees,
                             attemptVars, heapVars, handed, runVars>>

RunNext == \/ \E t \in Txns : Submit(t) \/ ProcessDirectly(t)
           \/ \E id \in Ids : CancelWaiting(id)
           \/ StartRun \/ TakeNext \/ NoneLeft \/ Sort \/ PutBack
           \/ AttemptStep \/ ReturnDirectly \/ BetweenRuns
           \/ Passing \/ WaitForDue

RunSpec == RunInit /\ [][RunNext]_vars

\* Python code that was entered runs on; the application calls process_queue()
\* again and again; time passes.
Fairness == /\ WF_vars(StartRun)
            /\ WF_vars(TakeNext) /\ WF_vars(NoneLeft) /\ WF_vars(Sort) /\ WF_vars(PutBack)
            /\ WF_vars(AttemptStep) /\ WF_vars(ReturnDirectly)
            /\ WF_vars(Passing) /\ WF_vars(WaitForDue)

FairRunSpec == RunSpec /\ Fairness
-----------------------------------------------------------------------------
(***************************************************************************)
(* Properties.                                                             *)
(***************************************************************************)
\* Type invariant of the run.
RunTypeOK == /\ mode \in {"none", "loop", "finally"}
             /\ report \in [Buckets -> Seq(Txns)]
             /\ TypeOK /\ QueueTypeOK

\* No failing audit write, error or rejected batch loses a retry: the batch a run
\* collected can always be put back, for requeue() takes it whole or not at all, and
\* outside the runs a pending transaction the queue ever took in waits in it.
NoRetryLost ==
    /\ mode = "finally" =>
         LET batch == report["pending"] IN
         /\ \A i \in DOMAIN batch : Queueable(batch[i])
         /\ \A i, j \in DOMAIN batch : IdOf[batch[i]] = IdOf[batch[j]] => i = j
    /\ mode = "none" =>
         \A t \in Txns : known[IdOf[t]] = t /\ status[t] = "pending" /\ cur # t
             => queued[IdOf[t]] # 0

\* One run makes one attempt per transaction: nothing a run has sorted is
\* handed out again before the run ends.
OneAttemptPerRun ==
    [][mode = "loop" /\ handed' # handed /\ handed' # NoTxn =>
         \A b \in Buckets : \A i \in DOMAIN report[b] : report[b][i] # handed']_vars

\* A run attempts a transaction only when it is due.
RunsWhenDue ==
    [][mode = "loop" /\ handed' # handed /\ handed' # NoTxn => IsDue(handed', now)]_vars

\* Every transaction the queue took in reaches a final status.
EveryTransactionEnds ==
    \A t \in Txns : (known[IdOf[t]] = t) ~> (status[t] \in {"completed", "failed", "cancelled"})
=============================================================================
