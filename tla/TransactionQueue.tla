--------------------------- MODULE TransactionQueue ---------------------------
(***************************************************************************)
(* services/transaction_queue.py: two heaps and lazy cancellation.  A heap *)
(* is the set of its entries, popped in the order of their keys; an entry  *)
(* keeps the key it was pushed with.  Sequence numbers start at 1, so that *)
(* 0 says "not queued".                                                    *)
(***************************************************************************)
EXTENDS Transaction, BankClock, FiniteSets, Sequences

CONSTANTS Priority,           \* TransactionPriority of each object, as a number
          Delays,             \* environment: how long a retry is put off
          CancelledOutside,   \* environment: objects cancelled past the queue
          MaxSequence         \* bound: entries ever pushed

ASSUME QueueAssumption == /\ Priority \in [Txns -> Nat]
                          /\ Delays \subseteq Nat \ {0}
                          /\ CancelledOutside \subseteq Txns
                          /\ MaxSequence \in Nat

VARIABLES ready,      \* entries [prio, seq, id] that may run now
          delayed,    \* entries [at, seq, id] of a later moment
          queued,     \* id -> sequence number of its live entry, 0 for none
          known,      \* id -> the object ever added under it, or NoTxn
          sequence,   \* entries pushed so far
          handed      \* what the last next_ready() returned

heapVars == <<ready, delayed, queued, known, sequence>>
queueVars == <<txnVars, now, heapVars, handed>>

QueueInit == /\ TxnInit
             /\ now \in 0 .. MaxTime
             /\ ready = {} /\ delayed = {}
             /\ queued = [id \in Ids |-> 0]
             /\ known = [id \in Ids |-> NoTxn]
             /\ sequence = 0
             /\ handed = NoTxn

IsLive(e) == queued[e.id] = e.seq

\* the order of the ready heap
MoreUrgent(e, f) == e.prio > f.prio \/ (e.prio = f.prio /\ e.seq < f.seq)

\* faulty variant of Queueable: any object may come under a known id
QueueableAnew(t) == status[t] = "pending" /\ queued[IdOf[t]] = 0

\* _check_queueable()
Queueable(t) == /\ status[t] = "pending"
                /\ queued[IdOf[t]] = 0
                /\ known[IdOf[t]] \in {NoTxn, t}

\* _enqueue() for each transaction of a batch, in order
Enqueue(batch) ==
    LET ids == {IdOf[batch[i]] : i \in DOMAIN batch}
        place(id) == CHOOSE i \in DOMAIN batch : IdOf[batch[i]] = id
        due == {i \in DOMAIN batch : IsDue(batch[i], now)} IN
    /\ sequence + Len(batch) <= MaxSequence
    /\ sequence' = sequence + Len(batch)
    /\ queued' = [id \in Ids |-> IF id \in ids THEN sequence + place(id) ELSE queued[id]]
    /\ known' = [id \in Ids |-> IF id \in ids THEN batch[place(id)] ELSE known[id]]
    /\ ready' = ready \cup {[prio |-> Priority[batch[i]], seq |-> sequence + i,
                             id |-> IdOf[batch[i]]] : i \in due}
    /\ delayed' = delayed \cup {[at |-> scheduledAt[batch[i]], seq |-> sequence + i,
                                 id |-> IdOf[batch[i]]] : i \in DOMAIN batch \ due}

\* add(): the audit event is written first; when that fails nothing happens
Add(t) == /\ Queueable(t)
          /\ Enqueue(<<t>>)
          /\ UNCHANGED <<txnVars, now, handed>>

\* requeue(): the whole batch is queued before any audit event is written, so a
\* failing write raises to the caller but changes nothing here
Requeue(batch) ==
    /\ \A i \in DOMAIN batch : Queueable(batch[i])
    /\ \A i, j \in DOMAIN batch : IdOf[batch[i]] = IdOf[batch[j]] => i = j
    /\ Enqueue(batch)
    /\ UNCHANGED <<txnVars, now, handed>>

DueEntries == {e \in delayed : e.at <= now}

PromotedNone == ready  \* faulty variant of Promoted: due entries are dropped

\* _promote_due(): the ready heap after the live entries that became due joined it
Promoted == ready \cup {[prio |-> Priority[known[e.id]], seq |-> e.seq, id |-> e.id] :
                          e \in {d \in DueEntries : IsLive(d)}}

\* next_ready(): pop until an entry is live and its transaction still pending
Candidates == {e \in Promoted : IsLive(e) /\ status[known[e.id]] = "pending"}
Surfacing(e) == e \in Candidates /\ \A f \in Candidates \ {e} : MoreUrgent(e, f)

\* faulty variants of Pop: the id stays queued, or the entry stays in its heap
PopStillQueued(popped, result) ==
    /\ delayed' = delayed \ DueEntries
    /\ ready' = Promoted \ popped
    /\ handed' = result
    /\ UNCHANGED <<known, sequence, queued>>

PopPeeks(popped, result) ==
    /\ delayed' = delayed \ DueEntries
    /\ ready' = Promoted
    /\ handed' = result
    /\ UNCHANGED <<known, sequence, queued>>

Pop(popped, result) ==
    /\ delayed' = delayed \ DueEntries
    /\ ready' = Promoted \ popped
    /\ queued' = [id \in Ids |-> IF \E e \in popped : e.id = id /\ IsLive(e)
                                   THEN 0 ELSE queued[id]]
    /\ handed' = result
    /\ UNCHANGED <<known, sequence>>

\* faulty variant of NextReady: it gives up at the first stale entry
NextReadyGivesUp ==
    \E e \in Promoted :
        /\ \A f \in Promoted \ {e} : MoreUrgent(e, f)
        /\ Pop({e}, IF e \in Candidates THEN known[e.id] ELSE NoTxn)

NextReady ==
    \/ \E e \in Candidates :
          /\ Surfacing(e)
          /\ Pop({f \in Promoted : f = e \/ MoreUrgent(f, e)}, known[e.id])
    \/ Candidates = {} /\ Pop(Promoted, NoTxn)

\* cancel(): the entry is forgotten first, whatever the transaction says to it
CancelQueued(id) ==
    /\ queued[id] # 0
    /\ queued' = [queued EXCEPT ![id] = 0]
    /\ IF CanMove(known[id], "cancelled") THEN Cancel(known[id]) ELSE UNCHANGED txnVars
    /\ UNCHANGED <<now, ready, delayed, known, sequence, handed>>

\* faulty variant of ListedBefore: by their moment, due or not
ListedByMoment(i, j) ==
    \/ scheduledAt[known[i]] < scheduledAt[known[j]]
    \/ scheduledAt[known[i]] = scheduledAt[known[j]] /\ queued[i] < queued[j]

\* the order of pending(): due ones by priority, then the others by their moment,
\* as they were queued among equals
ListedBefore(i, j) ==
    LET t == known[i]
        u == known[j]
        first == queued[i] < queued[j]
    IN  \/ IsDue(t, now) /\ ~IsDue(u, now)
        \/ /\ IsDue(t, now) /\ IsDue(u, now)
           /\ Priority[t] > Priority[u] \/ (Priority[t] = Priority[u] /\ first)
        \/ /\ ~IsDue(t, now) /\ ~IsDue(u, now)
           /\ scheduledAt[t] < scheduledAt[u] \/ (scheduledAt[t] = scheduledAt[u] /\ first)

\* pending(), as the ids of what it lists; one whose transaction was cancelled past
\* the queue is among them
Listed ==
    LET ids == {id \in Ids : queued[id] # 0}
    IN  CHOOSE list \in [1 .. Cardinality(ids) -> ids] :
            \A i, j \in DOMAIN list : i < j => ListedBefore(list[i], list[j])
-----------------------------------------------------------------------------
(***************************************************************************)
(* What happens to the transactions outside the queue.                     *)
(***************************************************************************)
\* the processor starts what it was handed
StartHanded == /\ handed # NoTxn
               /\ Start(handed)
               /\ handed' = NoTxn

Finish(t) == Complete(t) \/ Fail(t, "refused")

Reschedule(t) == \E d \in Delays : Retry(t, "funds", now + d)

Elsewhere ==
    /\ \/ StartHanded
       \/ /\ UNCHANGED handed
          /\ \E t \in Txns : \/ Finish(t)
                             \/ Reschedule(t)
                             \/ t \in CancelledOutside /\ Cancel(t)
    /\ UNCHANGED <<now, heapVars>>

\* whoever was handed a transaction starts it before it is queued again
BetweenRequests == \/ \E t \in Txns \ {handed} : Add(t)
                   \/ \E t, u \in Txns \ {handed} : t # u /\ Requeue(<<t, u>>)
                   \/ \E id \in Ids : CancelQueued(id)
                   \/ Elsewhere
                   \/ Tick /\ UNCHANGED <<txnVars, heapVars, handed>>

QueueNext == \/ NextReady /\ UNCHANGED <<txnVars, now>>
             \/ BetweenRequests

QueueSpec == QueueInit /\ [][QueueNext]_queueVars
-----------------------------------------------------------------------------
(***************************************************************************)
(* Properties.                                                             *)
(***************************************************************************)
ReadyEntries == [prio : Nat, seq : Nat, id : Ids]
DelayedEntries == [at : Nat, seq : Nat, id : Ids]
Entries == ready \cup delayed

\* Type invariant of the queue and of the transactions in it.
QueueTypeOK ==
    /\ status \in [Txns -> Statuses] /\ attempts \in [Txns -> Nat]
    /\ scheduledAt \in [Txns -> Nat] /\ now \in Nat
    /\ ready \subseteq ReadyEntries /\ delayed \subseteq DelayedEntries
    /\ queued \in [Ids -> Nat] /\ known \in [Ids -> Txns \cup {NoTxn}]
    /\ sequence \in Nat
    /\ handed \in Txns \cup {NoTxn}

\* Every id that counts as queued has one live entry, in one of the two heaps,
\* whatever stale entries cancellations left behind: none is stranded (it would
\* never surface) and none is there twice (it would run twice).
OneLiveEntry ==
    \A id \in Ids : queued[id] # 0 =>
        /\ known[id] # NoTxn /\ IdOf[known[id]] = id
        /\ \E e \in Entries : e.id = id /\ e.seq = queued[id]
        /\ \A e, f \in Entries : e.seq = queued[id] /\ f.seq = queued[id] => e = f

\* An id handed out, cancelled or finished is never taken over by another
\* object: what the queue knows under an id stays the same object for good.
IdStaysWithObject ==
    [][\A id \in Ids : known[id] # NoTxn => known'[id] = known[id]]_queueVars

\* the places in pending() of what still waits
StillWaiting == {i \in DOMAIN Listed : status[known[Listed[i]]] = "pending"}

\* What pending() shows is what happens: whoever asks next gets the first entry of it
\* whose transaction is still pending, if that is due, and what is left is shown in the
\* order it had.  The list is sorted from the objects, the answer comes off the heaps
\* with the keys they were pushed with.
ListForetells ==
    [][NextReady /\ UNCHANGED <<txnVars, now>> =>
         LET first == {i \in StillWaiting : /\ IsDue(known[Listed[i]], now)
                                            /\ \A j \in StillWaiting : i <= j}
         IN  /\ first = {} => handed' = NoTxn
             /\ \A i \in first : handed' = known[Listed[i]]
             /\ {Listed'[i] : i \in StillWaiting'} = {Listed[i] : i \in StillWaiting \ first}
             /\ \A i, j \in StillWaiting' : i < j =>
                  \E k, l \in StillWaiting : k < l /\ Listed[k] = Listed'[i] /\ Listed[l] = Listed'[j]
      ]_queueVars
=============================================================================
