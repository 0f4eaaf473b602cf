----------------------------- MODULE Transaction -----------------------------
(***************************************************************************)
(* models/transaction.py: the life of a transaction object, from PENDING   *)
(* to a final status, with its attempts and the moment it is due.  Txns    *)
(* are objects: two of them may carry the same transaction_id.             *)
(***************************************************************************)
EXTENDS Integers

CONSTANTS Txns,         \* transaction objects
          NoTxn,        \* "no transaction" (None)
          Ids,          \* transaction ids
          IdOf,         \* transaction_id of each object
          Type,         \* transaction_type of each object
          FirstDue      \* scheduled_at given at creation; 0 when there is none

Types == {"deposit", "withdrawal", "transfer", "external"}

ASSUME TransactionAssumption == /\ NoTxn \notin Txns
                                /\ IdOf \in [Txns -> Ids]
                                /\ Type \in [Txns -> Types]
                                /\ FirstDue \in [Txns -> Nat]

VARIABLES status,       \* TransactionStatus of each object
          attempts,     \* attempts started so far
          scheduledAt,  \* the moment the next attempt is due
          reason        \* kind of error the last failed attempt ended with

txnVars == <<status, attempts, scheduledAt, reason>>

Statuses == {"pending", "processing", "completed", "failed", "cancelled"}

TRANSITIONS == [pending    |-> {"processing", "cancelled"},
                processing |-> {"completed", "failed", "pending"},
                completed  |-> {},
                failed     |-> {},
                cancelled  |-> {}]

\* PARTIES, and internal_recipient_id: who is in this bank to debit and to credit
HasSender(t) == Type[t] # "deposit"
HasRecipient(t) == Type[t] \in {"deposit", "transfer"}

IsDue(t, m) == scheduledAt[t] <= m

TxnInit == /\ status = [t \in Txns |-> "pending"]
           /\ attempts = [t \in Txns |-> 0]
           /\ scheduledAt = FirstDue
           /\ reason = [t \in Txns |-> "none"]

CanMove(t, target) == target \in TRANSITIONS[status[t]]

MoveTo(t, target) == /\ CanMove(t, target)
                     /\ status' = [status EXCEPT ![t] = target]

\* faulty variant of Start: the attempt is not counted
StartUncounted(t) == /\ MoveTo(t, "processing")
                     /\ UNCHANGED <<attempts, scheduledAt, reason>>

Start(t) == /\ MoveTo(t, "processing")
            /\ attempts' = [attempts EXCEPT ![t] = @ + 1]
            /\ UNCHANGED <<scheduledAt, reason>>

Complete(t) == /\ MoveTo(t, "completed")
               /\ reason' = [reason EXCEPT ![t] = "none"]
               /\ UNCHANGED <<attempts, scheduledAt>>

Fail(t, why) == /\ MoveTo(t, "failed")
                /\ reason' = [reason EXCEPT ![t] = why]
                /\ UNCHANGED <<attempts, scheduledAt>>

Retry(t, why, next) == /\ MoveTo(t, "pending")
                       /\ reason' = [reason EXCEPT ![t] = why]
                       /\ scheduledAt' = [scheduledAt EXCEPT ![t] = next]
                       /\ UNCHANGED attempts

Cancel(t) == /\ MoveTo(t, "cancelled")
             /\ UNCHANGED <<attempts, scheduledAt, reason>>
=============================================================================
