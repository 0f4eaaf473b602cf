-------------------------- MODULE ProcessQueue_proofs --------------------------
(***************************************************************************)
(* Proofs about TransactionQueue and ProcessQueue, whatever the            *)
(* transactions, their priorities, the errors and the audit writes that    *)
(* fail: what the queue keeps to by itself, that a run loses no retry and  *)
(* makes none twice, and that the processor keeps its promises when the    *)
(* queue feeds it.                                                         *)
(***************************************************************************)
EXTENDS ProcessQueue, QueueRequests, TransactionProcessor_promises

(***************************************************************************)
(* TransactionQueue: the types, the one live entry of a queued id, the     *)
(* object behind an id, and that the two heaps with their stale entries    *)
(* implement UrgentFirst.                                                  *)
(***************************************************************************)
\* A sequence number is used once, in one of the two heaps.
NumbersUnique ==
    /\ \A e \in Entries : e.seq \in 1 .. sequence
    /\ \A e, f \in ready : e.seq = f.seq => e = f
    /\ \A e, f \in delayed : e.seq = f.seq => e = f
    /\ \A e \in ready, f \in delayed : e.seq # f.seq

\* What is in the heaps, stale or not, belongs to an object known under its id, and
\* a ready entry has the priority of that object.
EntriesKnown ==
    /\ \A id \in Ids : known[id] # NoTxn => IdOf[known[id]] = id
    /\ \A e \in Entries : known[e.id] # NoTxn
    /\ \A e \in ready : e.prio = Priority[known[e.id]]

\* A queued id has an object and a live entry.
QueuedLive ==
    \A id \in Ids : queued[id] # 0 =>
        /\ known[id] # NoTxn
        /\ \E e \in Entries : e.id = id /\ e.seq = queued[id]

\* What is true of the heaps, whatever happens to the transactions elsewhere.
HeapsInv == QueueTypeOK /\ NumbersUnique /\ EntriesKnown /\ QueuedLive

\* The object of a queued id is waiting: not running, not finished and not the one
\* just handed out.
QueuedWaits ==
    \A id \in Ids : queued[id] # 0 =>
        /\ status[known[id]] \in {"pending", "cancelled"}
        /\ known[id] # handed

\* A live entry is in the heap its object's moment puts it in: the moment does not
\* change while the entry is live.
LiveInPlace ==
    /\ \A e \in ready : IsLive(e) => scheduledAt[known[e.id]] <= now
    /\ \A e \in delayed : IsLive(e) => e.at = scheduledAt[known[e.id]]

\* The inductive invariant of the queue.
QueueInv == HeapsInv /\ QueuedWaits /\ LiveInPlace

\* The types of what the queue reads of the transactions, the clock and its caller.
OutsideTypeOK ==
    /\ status \in [Txns -> Statuses] /\ attempts \in [Txns -> Nat]
    /\ scheduledAt \in [Txns -> Nat] /\ now \in Nat
    /\ handed \in Txns \cup {NoTxn}
-----------------------------------------------------------------------------
\* The transactions of a batch carry different ids.
DistinctIds(batch) ==
    \A i, j \in DOMAIN batch : IdOf[batch[i]] = IdOf[batch[j]] => i = j

\* The entries Enqueue pushes for the i-th transaction of a batch.
ReadyEntry(batch, i) == [prio |-> Priority[batch[i]], seq |-> sequence + i, id |-> IdOf[batch[i]]]
DelayedEntry(batch, i) ==
    [at |-> scheduledAt[batch[i]], seq |-> sequence + i, id |-> IdOf[batch[i]]]

\* What Enqueue does to each id, and which entries are in the heaps after it.
LEMMA Enqueued ==
  ASSUME QueueTypeOK, NEW batch \in Seq(Txns), DistinctIds(batch), Enqueue(batch)
  PROVE  /\ \A i \in DOMAIN batch : /\ queued'[IdOf[batch[i]]] = sequence + i
                                    /\ known'[IdOf[batch[i]]] = batch[i]
                                    /\ i \in Nat \ {0} /\ i <= Len(batch)
                                    /\ batch[i] \in Txns /\ IdOf[batch[i]] \in Ids
         /\ \A id \in Ids : (\A i \in DOMAIN batch : IdOf[batch[i]] # id) =>
                                queued'[id] = queued[id] /\ known'[id] = known[id]
         /\ queued' \in [Ids -> Nat] /\ known' \in [Ids -> Txns \cup {NoTxn}]
         /\ sequence' = sequence + Len(batch) /\ Len(batch) \in Nat
         /\ ready \subseteq ready' /\ delayed \subseteq delayed'
         /\ \A e \in ready' \ ready :
               \E i \in DOMAIN batch : IsDue(batch[i], now) /\ e = ReadyEntry(batch, i)
         /\ \A e \in delayed' \ delayed :
               \E i \in DOMAIN batch : ~IsDue(batch[i], now) /\ e = DelayedEntry(batch, i)
         /\ \A i \in DOMAIN batch : IF IsDue(batch[i], now) THEN ReadyEntry(batch, i) \in ready'
                                                            ELSE DelayedEntry(batch, i) \in delayed'
<1> DEFINE ids == {IdOf[batch[i]] : i \in DOMAIN batch}
           place(id) == CHOOSE i \in DOMAIN batch : IdOf[batch[i]] = id
<1>1. \A i \in DOMAIN batch : /\ i \in Nat \ {0} /\ i <= Len(batch)
                              /\ batch[i] \in Txns /\ IdOf[batch[i]] \in Ids
  BY TransactionAssumption
<1>2. \A i \in DOMAIN batch : place(IdOf[batch[i]]) = i
  BY DEF DistinctIds
<1>3. \A id \in ids : place(id) \in DOMAIN batch
  OBVIOUS
<1>4. /\ queued' = [id \in Ids |-> IF id \in ids THEN sequence + place(id) ELSE queued[id]]
      /\ known' = [id \in Ids |-> IF id \in ids THEN batch[place(id)] ELSE known[id]]
  BY DEF Enqueue
<1>5. sequence \in Nat /\ queued \in [Ids -> Nat] /\ known \in [Ids -> Txns \cup {NoTxn}]
  BY DEF QueueTypeOK
<1>6. sequence' = sequence + Len(batch) /\ Len(batch) \in Nat
  BY DEF Enqueue
<1>7. \A i \in DOMAIN batch : /\ queued'[IdOf[batch[i]]] = sequence + i
                              /\ known'[IdOf[batch[i]]] = batch[i]
  <2> HIDE DEF place
  <2> QED BY <1>1, <1>2, <1>4
<1>8. \A id \in Ids : (\A i \in DOMAIN batch : IdOf[batch[i]] # id) =>
                          queued'[id] = queued[id] /\ known'[id] = known[id]
  <2> HIDE DEF place
  <2> QED BY <1>4
<1>9. queued' \in [Ids -> Nat] /\ known' \in [Ids -> Txns \cup {NoTxn}]
  <2> HIDE DEF place
  <2>1. \A id \in ids : sequence + place(id) \in Nat /\ batch[place(id)] \in Txns
    BY <1>1, <1>3, <1>5
  <2> QED BY <1>4, <1>5, <2>1
<1>10. /\ ready' = ready \cup {ReadyEntry(batch, i) : i \in {j \in DOMAIN batch : IsDue(batch[j], now)}}
       /\ delayed' = delayed \cup {DelayedEntry(batch, i) :
                                     i \in DOMAIN batch \ {j \in DOMAIN batch : IsDue(batch[j], now)}}
  BY DEF Enqueue, ReadyEntry, DelayedEntry
<1>11. /\ \A e \in ready' \ ready :
             \E i \in DOMAIN batch : IsDue(batch[i], now) /\ e = ReadyEntry(batch, i)
       /\ \A e \in delayed' \ delayed :
             \E i \in DOMAIN batch : ~IsDue(batch[i], now) /\ e = DelayedEntry(batch, i)
       /\ \A i \in DOMAIN batch : IF IsDue(batch[i], now) THEN ReadyEntry(batch, i) \in ready'
                                                          ELSE DelayedEntry(batch, i) \in delayed'
  BY <1>10
<1> QED BY <1>1, <1>6, <1>7, <1>8, <1>9, <1>10, <1>11

\* Queueing a batch gives every transaction of it one live entry.
LEMMA EnqueueKeepsHeaps ==
  ASSUME HeapsInv, NEW batch \in Seq(Txns), DistinctIds(batch), Enqueue(batch),
         \A i \in DOMAIN batch : Queueable(batch[i]), OutsideTypeOK'
  PROVE  HeapsInv' /\ \A id \in Ids : known[id] # NoTxn => known'[id] = known[id]
<1>1. QueueTypeOK
  BY DEF HeapsInv
<1>2. /\ status \in [Txns -> Statuses] /\ attempts \in [Txns -> Nat]
      /\ scheduledAt \in [Txns -> Nat] /\ now \in Nat /\ sequence \in Nat
      /\ ready \subseteq ReadyEntries /\ delayed \subseteq DelayedEntries
      /\ queued \in [Ids -> Nat]
  BY DEF HeapsInv, QueueTypeOK
<1>3. QueueTypeOK'
  <2>1. \A i \in DOMAIN batch : ReadyEntry(batch, i) \in ReadyEntries
    BY <1>1, <1>2, Enqueued, QueueAssumption DEF ReadyEntry, ReadyEntries
  <2>2. \A i \in DOMAIN batch : DelayedEntry(batch, i) \in DelayedEntries
    BY <1>1, <1>2, Enqueued DEF DelayedEntry, DelayedEntries
  <2>3. ready' \subseteq ReadyEntries /\ delayed' \subseteq DelayedEntries
    BY <1>1, <1>2, <2>1, <2>2, Enqueued
  <2>4. /\ queued' \in [Ids -> Nat] /\ known' \in [Ids -> Txns \cup {NoTxn}]
        /\ sequence' \in Nat
    BY <1>1, <1>2, Enqueued
  <2> QED BY <2>3, <2>4 DEF QueueTypeOK, OutsideTypeOK
<1>4. \A e \in ready' \ ready : \E i \in DOMAIN batch :
          /\ i \in Nat \ {0} /\ i <= Len(batch) /\ IsDue(batch[i], now)
          /\ e = ReadyEntry(batch, i)
          /\ e.seq = sequence + i /\ e.id = IdOf[batch[i]] /\ e.prio = Priority[batch[i]]
  <2> SUFFICES ASSUME NEW e \in ready' \ ready
               PROVE  \E i \in DOMAIN batch :
                        /\ i \in Nat \ {0} /\ i <= Len(batch) /\ IsDue(batch[i], now)
                        /\ e = ReadyEntry(batch, i)
                        /\ e.seq = sequence + i /\ e.id = IdOf[batch[i]] /\ e.prio = Priority[batch[i]]
    OBVIOUS
  <2>1. PICK i \in DOMAIN batch : IsDue(batch[i], now) /\ e = ReadyEntry(batch, i)
    BY <1>1, Enqueued
  <2>2. i \in Nat \ {0} /\ i <= Len(batch)
    BY <1>1, Enqueued
  <2>3. e.seq = sequence + i /\ e.id = IdOf[batch[i]] /\ e.prio = Priority[batch[i]]
    BY <2>1 DEF ReadyEntry
  <2> QED BY <2>1, <2>2, <2>3
<1>5. \A e \in delayed' \ delayed : \E i \in DOMAIN batch :
          /\ i \in Nat \ {0} /\ i <= Len(batch) /\ ~IsDue(batch[i], now)
          /\ e = DelayedEntry(batch, i)
          /\ e.seq = sequence + i /\ e.id = IdOf[batch[i]] /\ e.at = scheduledAt[batch[i]]
  <2> SUFFICES ASSUME NEW e \in delayed' \ delayed
               PROVE  \E i \in DOMAIN batch :
                        /\ i \in Nat \ {0} /\ i <= Len(batch) /\ ~IsDue(batch[i], now)
                        /\ e = DelayedEntry(batch, i)
                        /\ e.seq = sequence + i /\ e.id = IdOf[batch[i]] /\ e.at = scheduledAt[batch[i]]
    OBVIOUS
  <2>1. PICK i \in DOMAIN batch : ~IsDue(batch[i], now) /\ e = DelayedEntry(batch, i)
    BY <1>1, Enqueued
  <2>2. i \in Nat \ {0} /\ i <= Len(batch)
    BY <1>1, Enqueued
  <2>3. e.seq = sequence + i /\ e.id = IdOf[batch[i]] /\ e.at = scheduledAt[batch[i]]
    BY <2>1 DEF DelayedEntry
  <2> QED BY <2>1, <2>2, <2>3
<1>6. sequence' = sequence + Len(batch) /\ Len(batch) \in Nat
  BY <1>1, Enqueued
<1>7. \A e \in Entries : e.seq \in 1 .. sequence /\ e.id \in Ids
  BY <1>2 DEF HeapsInv, NumbersUnique, Entries, ReadyEntries, DelayedEntries
<1>8. NumbersUnique'
  <2>1. \A e \in Entries' : e.seq \in 1 .. sequence'
    BY <1>2, <1>4, <1>5, <1>6, <1>7 DEF Entries
  <2>2. ASSUME NEW e \in ready', NEW f \in ready', e.seq = f.seq PROVE e = f
    BY <1>2, <1>4, <1>7, <2>2, SMTT(30) DEF HeapsInv, NumbersUnique, Entries
  <2>3. ASSUME NEW e \in delayed', NEW f \in delayed', e.seq = f.seq PROVE e = f
    BY <1>2, <1>5, <1>7, <2>3, SMTT(30) DEF HeapsInv, NumbersUnique, Entries
  <2>4. ASSUME NEW e \in ready', NEW f \in delayed' PROVE e.seq # f.seq
    <3>1. CASE e \in ready /\ f \in delayed
      BY <3>1 DEF HeapsInv, NumbersUnique
    <3>2. CASE e \notin ready /\ f \in delayed
      BY <1>2, <1>4, <1>7, <3>2 DEF Entries
    <3>3. CASE e \in ready /\ f \notin delayed
      BY <1>2, <1>5, <1>7, <3>3 DEF Entries
    <3>4. CASE e \notin ready /\ f \notin delayed
      <4>1. PICK i \in DOMAIN batch :
              i \in Nat \ {0} /\ IsDue(batch[i], now) /\ e.seq = sequence + i
        BY <1>4, <3>4
      <4>2. PICK j \in DOMAIN batch :
              j \in Nat \ {0} /\ ~IsDue(batch[j], now) /\ f.seq = sequence + j
        BY <1>5, <3>4
      <4>3. i # j
        BY <4>1, <4>2
      <4> QED BY <1>2, <4>1, <4>2, <4>3
    <3> QED BY <3>1, <3>2, <3>3, <3>4
  <2> QED BY <2>1, <2>2, <2>3, <2>4 DEF NumbersUnique
<1>9. \A id \in Ids : known[id] # NoTxn => known'[id] = known[id]
  <2> SUFFICES ASSUME NEW id \in Ids, known[id] # NoTxn PROVE known'[id] = known[id]
    OBVIOUS
  <2>1. \A i \in DOMAIN batch : IdOf[batch[i]] = id => known[id] = batch[i]
    BY DEF Queueable
  <2> QED BY <1>1, <2>1, Enqueued
<1>10. \A i \in DOMAIN batch : known'[IdOf[batch[i]]] = batch[i] /\ batch[i] # NoTxn
  BY <1>1, Enqueued, TransactionAssumption
<1>11. EntriesKnown'
  <2>1. \A id \in Ids : known'[id] # NoTxn => IdOf[known'[id]] = id
    <3> SUFFICES ASSUME NEW id \in Ids, known'[id] # NoTxn PROVE IdOf[known'[id]] = id
      OBVIOUS
    <3>1. CASE \E i \in DOMAIN batch : IdOf[batch[i]] = id
      BY <1>10, <3>1
    <3>2. CASE \A i \in DOMAIN batch : IdOf[batch[i]] # id
      BY <1>1, <3>2, Enqueued DEF HeapsInv, EntriesKnown
    <3> QED BY <3>1, <3>2
  <2>2. \A e \in Entries' : known'[e.id] # NoTxn
    <3>1. \A e \in Entries : known'[e.id] # NoTxn
      BY <1>7, <1>9 DEF HeapsInv, EntriesKnown
    <3>2. \A e \in ready' \ ready : known'[e.id] # NoTxn
      BY <1>4, <1>10
    <3>3. \A e \in delayed' \ delayed : known'[e.id] # NoTxn
      BY <1>5, <1>10
    <3> QED BY <3>1, <3>2, <3>3 DEF Entries
  <2>3. \A e \in ready' : e.prio = Priority[known'[e.id]]
    <3>1. \A e \in ready : e.prio = Priority[known'[e.id]]
      BY <1>7, <1>9 DEF HeapsInv, EntriesKnown, Entries
    <3> QED BY <1>4, <1>10, <3>1
  <2> QED BY <2>1, <2>2, <2>3 DEF EntriesKnown
<1>12. QueuedLive'
  <2> SUFFICES ASSUME NEW id \in Ids, queued'[id] # 0
               PROVE  /\ known'[id] # NoTxn
                      /\ \E e \in Entries' : e.id = id /\ e.seq = queued'[id]
    BY DEF QueuedLive
  <2>1. CASE \A i \in DOMAIN batch : IdOf[batch[i]] # id
    BY <1>1, <2>1, Enqueued DEF HeapsInv, QueuedLive, Entries
  <2>2. ASSUME NEW i \in DOMAIN batch, IdOf[batch[i]] = id
        PROVE  /\ known'[id] # NoTxn
               /\ \E e \in Entries' : e.id = id /\ e.seq = queued'[id]
    <3>1. queued'[id] = sequence + i /\ known'[id] = batch[i]
      BY <1>1, <2>2, Enqueued
    <3>2. CASE IsDue(batch[i], now)
      <4>1. ReadyEntry(batch, i) \in ready'
        BY <1>1, <3>2, Enqueued
      <4> QED BY <1>10, <2>2, <3>1, <4>1 DEF ReadyEntry, Entries
    <3>3. CASE ~IsDue(batch[i], now)
      <4>1. DelayedEntry(batch, i) \in delayed'
        BY <1>1, <3>3, Enqueued
      <4> QED BY <1>10, <2>2, <3>1, <4>1 DEF DelayedEntry, Entries
    <3> QED BY <3>2, <3>3
  <2> QED BY <2>1, <2>2
<1> QED BY <1>3, <1>8, <1>9, <1>11, <1>12 DEF HeapsInv

\* Queueing a batch keeps the invariant.
LEMMA EnqueueKeepsInv ==
  ASSUME QueueInv, NEW batch \in Seq(Txns), DistinctIds(batch), Enqueue(batch),
         \A i \in DOMAIN batch : Queueable(batch[i]) /\ batch[i] # handed,
         UNCHANGED <<txnVars, now, handed>>
  PROVE  QueueInv'
<1>1. /\ HeapsInv /\ QueueTypeOK /\ OutsideTypeOK' /\ sequence \in Nat
      /\ UNCHANGED <<status, scheduledAt, now, handed>>
  BY DEF QueueInv, HeapsInv, QueueTypeOK, OutsideTypeOK, txnVars
<1>2. HeapsInv'
  BY <1>1, EnqueueKeepsHeaps
<1>3. ASSUME NEW i \in DOMAIN batch
      PROVE  /\ queued'[IdOf[batch[i]]] = sequence + i /\ i \in Nat \ {0}
             /\ known'[IdOf[batch[i]]] = batch[i]
             /\ status[batch[i]] = "pending" /\ batch[i] # handed
  BY <1>1, Enqueued DEF Queueable
<1>4. \A id \in Ids : (\A i \in DOMAIN batch : IdOf[batch[i]] # id) =>
                          queued'[id] = queued[id] /\ known'[id] = known[id]
  BY <1>1, Enqueued
<1>5. QueuedWaits'
  BY <1>1, <1>3, <1>4 DEF QueueInv, QueuedWaits
<1>6. LiveInPlace'
  <2>1. ASSUME NEW e \in Entries, IsLive(e)' PROVE IsLive(e) /\ known'[e.id] = known[e.id]
    <3>1. e.id \in Ids /\ e.seq \in 1 .. sequence
      BY <1>1 DEF HeapsInv, NumbersUnique, QueueTypeOK, Entries, ReadyEntries, DelayedEntries
    <3>2. \A i \in DOMAIN batch : IdOf[batch[i]] # e.id
      <4> SUFFICES ASSUME NEW i \in DOMAIN batch, IdOf[batch[i]] = e.id PROVE FALSE
        OBVIOUS
      <4> QED BY <1>1, <1>3, <2>1, <3>1 DEF IsLive
    <3> QED BY <1>4, <2>1, <3>1, <3>2 DEF IsLive
  <2>2. ASSUME NEW e \in ready', IsLive(e)' PROVE scheduledAt[known'[e.id]] <= now
    <3>1. CASE e \in ready
      BY <2>1, <2>2, <3>1 DEF QueueInv, LiveInPlace, Entries
    <3>2. CASE e \notin ready
      <4>1. PICK i \in DOMAIN batch : IsDue(batch[i], now) /\ e = ReadyEntry(batch, i)
        BY <1>1, <3>2, Enqueued
      <4>2. e.id = IdOf[batch[i]]
        BY <4>1 DEF ReadyEntry
      <4> QED BY <1>3, <4>1, <4>2 DEF IsDue
    <3> QED BY <3>1, <3>2
  <2>3. ASSUME NEW e \in delayed', IsLive(e)' PROVE e.at = scheduledAt[known'[e.id]]
    <3>1. CASE e \in delayed
      BY <2>1, <2>3, <3>1 DEF QueueInv, LiveInPlace, Entries
    <3>2. CASE e \notin delayed
      <4>1. PICK i \in DOMAIN batch : e = DelayedEntry(batch, i)
        BY <1>1, <3>2, Enqueued
      <4>2. e.id = IdOf[batch[i]] /\ e.at = scheduledAt[batch[i]]
        BY <4>1 DEF DelayedEntry
      <4> QED BY <1>3, <4>2
    <3> QED BY <3>1, <3>2
  <2> QED BY <1>1, <2>2, <2>3 DEF LiveInPlace
<1> QED BY <1>2, <1>5, <1>6 DEF QueueInv

\* The ready heap after _promote_due(): every queued id still has its one live entry.
LEMMA Promotion ==
  ASSUME HeapsInv
  PROVE  /\ \A p \in Promoted : /\ p \in ReadyEntries
                                /\ p.prio = Priority[known[p.id]] /\ known[p.id] # NoTxn
                                /\ p.seq \in 1 .. sequence
         /\ \A p, q \in Promoted : p.seq = q.seq => p = q
         /\ \A p \in Promoted, d \in delayed \ DueEntries : p.seq # d.seq
         /\ \A id \in Ids : queued[id] # 0 =>
               \/ \E e \in Promoted : e.id = id /\ e.seq = queued[id]
               \/ \E e \in delayed \ DueEntries : e.id = id /\ e.seq = queued[id]
<1> DEFINE Surfaced(d) == [prio |-> Priority[known[d.id]], seq |-> d.seq, id |-> d.id]
<1>1. /\ ready \subseteq ReadyEntries /\ delayed \subseteq DelayedEntries
      /\ known \in [Ids -> Txns \cup {NoTxn}]
      /\ \A e \in Entries : e.seq \in 1 .. sequence /\ e.id \in Ids /\ e.seq \in Nat
  BY DEF HeapsInv, QueueTypeOK, NumbersUnique, Entries, ReadyEntries, DelayedEntries
<1>2. \A d \in DueEntries : d \in delayed /\ d \in Entries /\ d.at <= now
  BY DEF DueEntries, Entries
<1>3. Promoted = ready \cup {Surfaced(d) : d \in {e \in DueEntries : IsLive(e)}}
  BY DEF Promoted
<1>4. \A p \in Promoted : p \notin ready =>
         \E d \in DueEntries : IsLive(d) /\ p = Surfaced(d) /\ p.seq = d.seq /\ p.id = d.id
  BY <1>3
<1>5. ASSUME NEW p \in Promoted
      PROVE  /\ p \in ReadyEntries
             /\ p.prio = Priority[known[p.id]] /\ known[p.id] # NoTxn
             /\ p.seq \in 1 .. sequence
  <2>1. CASE p \in ready
    BY <1>1, <2>1 DEF HeapsInv, EntriesKnown, Entries
  <2>2. CASE p \notin ready
    <3>1. PICK d \in DueEntries : IsLive(d) /\ p = Surfaced(d)
      BY <1>4, <2>2
    <3>2. /\ d \in delayed /\ d \in Entries /\ d.at <= now /\ d.id \in Ids
          /\ d.seq \in 1 .. sequence /\ d.seq \in Nat
      BY <1>1, <1>2
    <3>3. known[d.id] # NoTxn /\ known[d.id] \in Txns
      BY <1>1, <3>2 DEF HeapsInv, EntriesKnown
    <3>4. Priority[known[d.id]] \in Nat
      BY <3>3, QueueAssumption
    <3> QED BY <3>1, <3>2, <3>3, <3>4 DEF ReadyEntries
  <2> QED BY <2>1, <2>2
<1>6. \A d, e \in DueEntries : d.seq = e.seq => Surfaced(d) = Surfaced(e)
  BY <1>2 DEF HeapsInv, NumbersUnique
<1>7. ASSUME NEW p \in Promoted, NEW q \in Promoted, p.seq = q.seq PROVE p = q
  <2>1. CASE p \in ready /\ q \in ready
    BY <1>7, <2>1 DEF HeapsInv, NumbersUnique
  <2>2. CASE p \in ready /\ q \notin ready
    <3>1. PICK d \in DueEntries : q.seq = d.seq
      BY <1>4, <2>2
    <3> QED BY <1>2, <1>7, <2>2, <3>1 DEF HeapsInv, NumbersUnique
  <2>3. CASE p \notin ready /\ q \in ready
    <3>1. PICK d \in DueEntries : p.seq = d.seq
      BY <1>4, <2>3
    <3> QED BY <1>2, <1>7, <2>3, <3>1 DEF HeapsInv, NumbersUnique
  <2>4. CASE p \notin ready /\ q \notin ready
    <3>1. PICK d \in DueEntries : p = Surfaced(d) /\ p.seq = d.seq
      BY <1>4, <2>4
    <3>2. PICK e \in DueEntries : q = Surfaced(e) /\ q.seq = e.seq
      BY <1>4, <2>4
    <3>3. d.seq = e.seq
      BY <1>7, <3>1, <3>2
    <3> QED BY <1>6, <3>1, <3>2, <3>3
  <2> QED BY <2>1, <2>2, <2>3, <2>4
<1>8. ASSUME NEW p \in Promoted, NEW d \in delayed \ DueEntries PROVE p.seq # d.seq
  <2>1. CASE p \in ready
    BY <2>1 DEF HeapsInv, NumbersUnique
  <2>2. CASE p \notin ready
    <3>1. PICK e \in DueEntries : p.seq = e.seq
      BY <1>4, <2>2
    <3> QED BY <1>2, <3>1 DEF HeapsInv, NumbersUnique
  <2> QED BY <2>1, <2>2
<1>9. ASSUME NEW id \in Ids, queued[id] # 0
      PROVE  \/ \E e \in Promoted : e.id = id /\ e.seq = queued[id]
             \/ \E e \in delayed \ DueEntries : e.id = id /\ e.seq = queued[id]
  <2>1. PICK e \in Entries : e.id = id /\ e.seq = queued[id]
    BY <1>9 DEF HeapsInv, QueuedLive
  <2>2. CASE e \in ready \/ e \in delayed \ DueEntries
    BY <1>3, <2>1, <2>2
  <2>3. CASE e \in DueEntries
    <3>1. Surfaced(e) \in Promoted
      BY <1>3, <2>1, <2>3 DEF IsLive
    <3>2. Surfaced(e).id = id /\ Surfaced(e).seq = queued[id]
      BY <2>1
    <3> QED BY <3>1, <3>2
  <2> QED BY <2>2, <2>3 DEF Entries
<1> QED BY <1>5, <1>7, <1>8, <1>9

\* What is live in it is due.
LEMMA PromotedDue ==
  ASSUME QueueInv, NEW p \in Promoted, IsLive(p)
  PROVE  scheduledAt[known[p.id]] <= now
<1>1. CASE p \in ready
  BY <1>1 DEF QueueInv, LiveInPlace
<1>2. CASE p \notin ready
  <2>1. PICK d \in delayed : d.at <= now /\ IsLive(d) /\ p.id = d.id
    BY <1>2 DEF Promoted, DueEntries
  <2> QED BY <2>1 DEF QueueInv, LiveInPlace
<1> QED BY <1>1, <1>2

\* What popping leaves queued: an id whose live entry was not popped.
LEMMA Popped ==
  ASSUME HeapsInv, NEW popped \in SUBSET Promoted, NEW result, Pop(popped, result)
  PROVE  /\ queued' \in [Ids -> Nat]
         /\ \A id \in Ids : queued'[id] \in {0, queued[id]}
         /\ \A e \in popped : IsLive(e) => queued'[e.id] = 0
         /\ \A id \in Ids : queued'[id] # queued[id] => \E e \in popped : e.id = id /\ IsLive(e)
<1>1. queued' = [id \in Ids |-> IF \E e \in popped : e.id = id /\ IsLive(e)
                                  THEN 0 ELSE queued[id]]
  BY DEF Pop
<1>2. \A e \in popped : e.id \in Ids
  BY Promotion DEF ReadyEntries
<1>3. queued \in [Ids -> Nat]
  BY DEF HeapsInv, QueueTypeOK
<1> QED BY <1>1, <1>2, <1>3

\* Popping leaves every queued id its live entry.
LEMMA PopKeepsHeaps ==
  ASSUME HeapsInv, NEW popped \in SUBSET Promoted, NEW result,
         Pop(popped, result), OutsideTypeOK'
  PROVE  HeapsInv'
<1>1. /\ delayed' = delayed \ DueEntries /\ ready' = Promoted \ popped
      /\ UNCHANGED <<known, sequence>>
  BY DEF Pop
<1>2. QueueTypeOK'
  BY <1>1, Promotion, Popped DEF HeapsInv, QueueTypeOK, OutsideTypeOK
<1>3. NumbersUnique'
  BY <1>1, Promotion DEF HeapsInv, NumbersUnique, Entries
<1>4. EntriesKnown'
  BY <1>1, Promotion DEF HeapsInv, EntriesKnown, Entries
<1>5. QueuedLive'
  <2> SUFFICES ASSUME NEW id \in Ids, queued'[id] # 0
               PROVE  /\ known[id] # NoTxn
                      /\ \E e \in Entries' : e.id = id /\ e.seq = queued'[id]
    BY <1>1 DEF QueuedLive
  <2>1. queued'[id] = queued[id] /\ queued[id] # 0
    BY Popped
  <2>2. CASE \E e \in Promoted : e.id = id /\ e.seq = queued[id]
    <3>1. PICK e \in Promoted : e.id = id /\ e.seq = queued[id]
      BY <2>2
    <3>2. e \notin popped
      BY <2>1, <3>1, Popped DEF IsLive
    <3> QED BY <1>1, <2>1, <3>1, <3>2 DEF Entries, HeapsInv, QueuedLive
  <2>3. CASE \E e \in delayed \ DueEntries : e.id = id /\ e.seq = queued[id]
    BY <1>1, <2>1, <2>3 DEF Entries, HeapsInv, QueuedLive
  <2> QED BY <2>1, <2>2, <2>3, Promotion
<1> QED BY <1>2, <1>3, <1>4, <1>5 DEF HeapsInv

\* Popping keeps the invariant, when what is handed out is no longer queued.
LEMMA PopKeepsInv ==
  ASSUME QueueInv, NEW popped \in SUBSET Promoted, NEW result \in Txns \cup {NoTxn},
         Pop(popped, result), UNCHANGED <<txnVars, now>>,
         result # NoTxn => queued'[IdOf[result]] = 0
  PROVE  QueueInv'
<1>1. /\ delayed' = delayed \ DueEntries /\ ready' = Promoted \ popped /\ handed' = result
      /\ UNCHANGED <<known, sequence, status, attempts, scheduledAt, now>>
  BY DEF Pop, txnVars
<1>2. HeapsInv
  BY DEF QueueInv
<1>3. HeapsInv'
  <2>1. OutsideTypeOK'
    BY <1>1, <1>2 DEF HeapsInv, QueueTypeOK, OutsideTypeOK
  <2> QED BY <1>2, <2>1, PopKeepsHeaps
<1>4. QueuedWaits'
  <2> SUFFICES ASSUME NEW id \in Ids, queued'[id] # 0
               PROVE  status[known[id]] \in {"pending", "cancelled"} /\ known[id] # result
    BY <1>1 DEF QueuedWaits
  <2>1. queued[id] # 0
    BY <1>2, Popped
  <2>2. known[id] # NoTxn /\ IdOf[known[id]] = id
    BY <1>2, <2>1 DEF HeapsInv, QueuedLive, EntriesKnown
  <2> QED BY <2>1, <2>2 DEF QueueInv, QueuedWaits
<1>5. LiveInPlace'
  <2>1. ASSUME NEW e, e.id \in Ids, e.seq # 0, IsLive(e)' PROVE IsLive(e)
    BY <1>2, <2>1, Popped DEF IsLive
  <2>2. \A e \in ready' : e \in Promoted /\ e.id \in Ids /\ e.seq # 0
    BY <1>1, <1>2, Promotion DEF ReadyEntries
  <2>3. \A e \in delayed' : e \in delayed /\ e.id \in Ids /\ e.seq # 0
    BY <1>1, <1>2 DEF HeapsInv, QueueTypeOK, NumbersUnique, Entries, DelayedEntries
  <2>4. \A e \in ready' : IsLive(e)' => scheduledAt[known[e.id]] <= now
    BY <2>1, <2>2, PromotedDue
  <2>5. \A e \in delayed' : IsLive(e)' => e.at = scheduledAt[known[e.id]]
    BY <2>1, <2>3 DEF QueueInv, LiveInPlace
  <2> QED BY <1>1, <2>4, <2>5 DEF LiveInPlace
<1> QED BY <1>3, <1>4, <1>5 DEF QueueInv

\* next_ready() keeps the invariant.
LEMMA NextReadyKeepsInv ==
  ASSUME QueueInv, NextReady, UNCHANGED <<txnVars, now>>
  PROVE  QueueInv'
<1>1. CASE Candidates = {} /\ Pop(Promoted, NoTxn)
  BY <1>1, PopKeepsInv
<1>2. ASSUME NEW e \in Candidates,
             Pop({f \in Promoted : f = e \/ MoreUrgent(f, e)}, known[e.id])
      PROVE  QueueInv'
  <2> DEFINE popped == {f \in Promoted : f = e \/ MoreUrgent(f, e)}
  <2>1. e \in Promoted /\ IsLive(e) /\ e.id \in Ids
    BY Promotion DEF QueueInv, Candidates, ReadyEntries
  <2>2. known[e.id] \in Txns /\ known[e.id] # NoTxn /\ IdOf[known[e.id]] = e.id
    BY <2>1, Promotion DEF QueueInv, HeapsInv, QueueTypeOK, EntriesKnown
  <2>3. queued'[e.id] = 0
    BY <1>2, <2>1, Popped DEF QueueInv
  <2> HIDE DEF popped
  <2>4. popped \in SUBSET Promoted
    BY DEF popped
  <2> QED BY <1>2, <2>2, <2>3, <2>4, PopKeepsInv DEF popped
<1> QED BY <1>1, <1>2 DEF NextReady

\* Only the transaction behind the id changes, when it still can be cancelled.
LEMMA CancelFacts ==
  ASSUME HeapsInv, NEW id \in Ids, CancelQueued(id)
  PROVE  /\ UNCHANGED <<attempts, scheduledAt, now, ready, delayed, known, sequence, handed>>
         /\ queued' = [queued EXCEPT ![id] = 0]
         /\ status' \in [Txns -> Statuses]
         /\ \A i \in Ids \ {id} : known[i] # NoTxn => status'[known[i]] = status[known[i]]
         /\ \A i \in Ids : queued'[i] # 0 => i # id /\ queued'[i] = queued[i]
         /\ known[id] \in Txns /\ IdOf[known[id]] = id
         /\ \/ status' = [status EXCEPT ![known[id]] = "cancelled"]
            \/ status' = status
<1>1. /\ UNCHANGED <<now, ready, delayed, known, sequence, handed>>
      /\ queued' = [queued EXCEPT ![id] = 0] /\ queued[id] # 0
      /\ \/ Cancel(known[id])
         \/ UNCHANGED txnVars
  BY DEF CancelQueued
<1>2. /\ known[id] \in Txns /\ IdOf[known[id]] = id /\ status \in [Txns -> Statuses]
      /\ queued \in [Ids -> Nat]
  BY <1>1 DEF HeapsInv, QueueTypeOK, QueuedLive, EntriesKnown
<1>3. \A i \in Ids \ {id} : known[i] # NoTxn => known[i] \in Txns /\ known[i] # known[id]
  BY <1>2 DEF HeapsInv, QueueTypeOK, EntriesKnown
<1>4. "cancelled" \in Statuses
  BY DEF Statuses
<1>5. \A i \in Ids : queued'[i] # 0 => i # id /\ queued'[i] = queued[i]
  BY <1>1, <1>2
<1> QED BY <1>1, <1>2, <1>3, <1>4, <1>5 DEF Cancel, MoveTo, txnVars

\* The entry that cancel() leaves behind is stale.
LEMMA CancelKeepsHeaps ==
  ASSUME HeapsInv, NEW id \in Ids, CancelQueued(id)
  PROVE  HeapsInv'
<1>1. QueueTypeOK'
  BY CancelFacts DEF HeapsInv, QueueTypeOK
<1>2. NumbersUnique' /\ EntriesKnown'
  BY CancelFacts DEF HeapsInv, NumbersUnique, EntriesKnown, Entries
<1>3. QueuedLive'
  BY CancelFacts DEF HeapsInv, QueuedLive, Entries
<1> QED BY <1>1, <1>2, <1>3 DEF HeapsInv

\* cancel() keeps the invariant.
LEMMA CancelKeepsInv ==
  ASSUME QueueInv, NEW id \in Ids, CancelQueued(id)
  PROVE  QueueInv'
<1>1. HeapsInv /\ HeapsInv'
  BY CancelKeepsHeaps DEF QueueInv
<1>2. QueuedWaits'
  BY <1>1, CancelFacts DEF QueueInv, HeapsInv, QueuedWaits, QueuedLive
<1>3. LiveInPlace'
  <2>1. \A e \in Entries : e.seq # 0 /\ e.id \in Ids
    BY <1>1 DEF HeapsInv, QueueTypeOK, NumbersUnique, Entries, ReadyEntries, DelayedEntries
  <2>2. \A e \in Entries : IsLive(e)' => IsLive(e)
    BY <1>1, <2>1, CancelFacts DEF IsLive
  <2> QED BY <1>1, <2>2, CancelFacts DEF QueueInv, LiveInPlace, Entries
<1> QED BY <1>1, <1>2, <1>3 DEF QueueInv

\* What leaves the heaps alone leaves every queued id its live entry.
LEMMA HeapsStay ==
  ASSUME HeapsInv, UNCHANGED heapVars, OutsideTypeOK'
  PROVE  HeapsInv'
<1>1. UNCHANGED <<ready, delayed, queued, known, sequence>>
  BY DEF heapVars
<1>2. QueueTypeOK'
  BY <1>1 DEF HeapsInv, QueueTypeOK, OutsideTypeOK
<1> QED BY <1>1, <1>2 DEF HeapsInv, NumbersUnique, EntriesKnown, QueuedLive, Entries

\* What happens to the transactions outside the queue: none that waits starts,
\* finishes or gets another moment.
LEMMA ElsewhereFacts ==
  ASSUME QueueInv, Elsewhere
  PROVE  /\ UNCHANGED <<now, heapVars>>
         /\ status' \in [Txns -> Statuses] /\ attempts' \in [Txns -> Nat]
         /\ scheduledAt' \in [Txns -> Nat]
         /\ \A t \in Txns : status[t] # "processing" => scheduledAt'[t] = scheduledAt[t]
         /\ \/ /\ handed' = handed
               /\ \A t \in Txns : status[t] # "processing" => status'[t] = status[t]
            \/ /\ handed # NoTxn /\ handed' = NoTxn
               /\ \A t \in Txns \ {handed} : status'[t] = status[t]
            \/ /\ handed' = handed
               /\ \E t \in Txns : /\ status[t] = "pending"
                                  /\ status' = [status EXCEPT ![t] = "cancelled"]
<1>1. /\ status \in [Txns -> Statuses] /\ attempts \in [Txns -> Nat]
      /\ scheduledAt \in [Txns -> Nat] /\ now \in Nat /\ handed \in Txns \cup {NoTxn}
  BY DEF QueueInv, HeapsInv, QueueTypeOK
<1>2. Delays \subseteq Nat
  BY QueueAssumption
<1>3. CASE StartHanded
  <2>1. handed # NoTxn /\ handed' = NoTxn /\ Start(handed) /\ handed \in Txns
    BY <1>1, <1>3 DEF StartHanded
  <2>2. /\ status' = [status EXCEPT ![handed] = "processing"]
        /\ attempts' = [attempts EXCEPT ![handed] = @ + 1]
        /\ scheduledAt' = scheduledAt
    BY <2>1 DEF Start, MoveTo
  <2> QED BY <1>1, <2>1, <2>2 DEF Elsewhere, Statuses
<1>4. ASSUME NEW t \in Txns, Finish(t) \/ Reschedule(t), handed' = handed
      PROVE  /\ status' \in [Txns -> Statuses] /\ attempts' \in [Txns -> Nat]
             /\ scheduledAt' \in [Txns -> Nat]
             /\ status[t] = "processing"
             /\ \A u \in Txns \ {t} : scheduledAt'[u] = scheduledAt[u] /\ status'[u] = status[u]
  <2>1. \/ MoveTo(t, "completed") /\ UNCHANGED <<attempts, scheduledAt>>
        \/ MoveTo(t, "failed") /\ UNCHANGED <<attempts, scheduledAt>>
        \/ /\ MoveTo(t, "pending") /\ attempts' = attempts
           /\ \E d \in Delays : scheduledAt' = [scheduledAt EXCEPT ![t] = now + d]
    BY <1>4 DEF Finish, Complete, Fail, Reschedule, Retry
  <2>2. status[t] = "processing"
    BY <1>1, <2>1 DEF MoveTo, CanMove, TRANSITIONS, Statuses
  <2> QED BY <1>1, <1>2, <2>1, <2>2 DEF MoveTo, Statuses
<1>5. ASSUME NEW t \in Txns, Cancel(t)
      PROVE  /\ status[t] = "pending" /\ status' = [status EXCEPT ![t] = "cancelled"]
             /\ UNCHANGED <<attempts, scheduledAt>>
  BY <1>1, <1>5 DEF Cancel, MoveTo, CanMove, TRANSITIONS, Statuses
<1>6. UNCHANGED <<now, heapVars>>
  BY DEF Elsewhere
<1>7. ASSUME NEW t \in Txns, Finish(t) \/ Reschedule(t), handed' = handed
      PROVE  /\ status' \in [Txns -> Statuses] /\ attempts' \in [Txns -> Nat]
             /\ scheduledAt' \in [Txns -> Nat]
             /\ \A u \in Txns : status[u] # "processing" => scheduledAt'[u] = scheduledAt[u]
             /\ \A u \in Txns : status[u] # "processing" => status'[u] = status[u]
  BY <1>4, <1>7
<1>8. ASSUME NEW t \in Txns, Cancel(t)
      PROVE  /\ status' \in [Txns -> Statuses] /\ attempts' \in [Txns -> Nat]
             /\ scheduledAt' \in [Txns -> Nat] /\ scheduledAt' = scheduledAt
             /\ status[t] = "pending" /\ status' = [status EXCEPT ![t] = "cancelled"]
  BY <1>1, <1>5, <1>8 DEF Statuses
<1> QED BY <1>3, <1>6, <1>7, <1>8 DEF Elsewhere

\* What the transactions go through elsewhere keeps the invariant.
LEMMA ElsewhereKeepsInv ==
  ASSUME QueueInv, Elsewhere
  PROVE  QueueInv'
<1>1. /\ UNCHANGED <<now, ready, delayed, queued, known, sequence>>
      /\ handed' \in {handed, NoTxn}
  BY ElsewhereFacts DEF heapVars
<1>2. OutsideTypeOK'
  BY <1>1, ElsewhereFacts DEF QueueInv, HeapsInv, QueueTypeOK, OutsideTypeOK
<1>3. HeapsInv'
  BY <1>2, ElsewhereFacts, HeapsStay DEF QueueInv
<1>4. ASSUME NEW id \in Ids, queued[id] # 0
      PROVE  /\ status'[known[id]] \in {"pending", "cancelled"}
             /\ scheduledAt'[known[id]] = scheduledAt[known[id]]
             /\ known[id] # handed'
  <2>1. /\ known[id] \in Txns /\ known[id] # NoTxn /\ known[id] # handed
        /\ status[known[id]] \in {"pending", "cancelled"}
        /\ status \in [Txns -> Statuses]
    BY <1>4 DEF QueueInv, HeapsInv, QueueTypeOK, QueuedWaits, QueuedLive
  <2>2. scheduledAt'[known[id]] = scheduledAt[known[id]]
    BY <2>1, ElsewhereFacts
  <2>3. status'[known[id]] \in {"pending", "cancelled"}
    BY <2>1, ElsewhereFacts
  <2> QED BY <1>1, <2>1, <2>2, <2>3
<1>5. QueuedWaits'
  BY <1>1, <1>4 DEF QueueInv, HeapsInv, QueuedWaits, QueuedLive, Entries
<1>6. LiveInPlace'
  <2>1. \A e \in Entries : e.id \in Ids /\ e.seq # 0
    BY DEF QueueInv, HeapsInv, QueueTypeOK, NumbersUnique, Entries, ReadyEntries, DelayedEntries
  <2>2. \A e \in Entries : IsLive(e) => queued[e.id] # 0
    BY <2>1 DEF IsLive
  <2> QED BY <1>1, <1>4, <2>1, <2>2 DEF QueueInv, HeapsInv, LiveInPlace, IsLive, Entries
<1> QED BY <1>3, <1>5, <1>6 DEF QueueInv

\* Passing time keeps the invariant: what was due stays due.
LEMMA TickKeepsInv ==
  ASSUME QueueInv, Tick, UNCHANGED <<txnVars, heapVars, handed>>
  PROVE  QueueInv'
<1>1. /\ UNCHANGED <<status, attempts, scheduledAt, ready, delayed, queued, known, sequence, handed>>
      /\ now' = now + 1 /\ now \in Nat /\ scheduledAt \in [Txns -> Nat]
  BY DEF Tick, txnVars, heapVars, QueueInv, HeapsInv, QueueTypeOK
<1>2. HeapsInv' /\ QueuedWaits'
  <2>1. OutsideTypeOK'
    BY <1>1 DEF QueueInv, HeapsInv, QueueTypeOK, OutsideTypeOK
  <2> QED BY <1>1, <2>1, HeapsStay DEF QueueInv, QueuedWaits
<1>3. \A e \in ready : known[e.id] \in Txns
  BY DEF QueueInv, HeapsInv, QueueTypeOK, EntriesKnown, Entries, ReadyEntries
<1>4. LiveInPlace'
  BY <1>1, <1>3 DEF QueueInv, HeapsInv, LiveInPlace, IsLive
<1> QED BY <1>2, <1>4 DEF QueueInv

\* An empty queue satisfies the invariant.
LEMMA QueueInvInit == QueueInit => QueueInv
<1> SUFFICES ASSUME QueueInit PROVE QueueInv
  OBVIOUS
<1>1. QueueTypeOK
  BY TransactionAssumption, ClockAssumption DEF QueueInit, TxnInit, QueueTypeOK, Statuses
<1>2. NumbersUnique /\ EntriesKnown /\ QueuedLive /\ QueuedWaits /\ LiveInPlace
  BY DEF QueueInit, NumbersUnique, EntriesKnown, QueuedLive, QueuedWaits, LiveInPlace, Entries
<1> QED BY <1>1, <1>2 DEF QueueInv, HeapsInv

\* A transaction that is added alone, and the two of a batch that goes back.
LEMMA AddIsEnqueue ==
  ASSUME NEW t \in Txns, t # handed, Add(t)
  PROVE  /\ Enqueue(<<t>>) /\ <<t>> \in Seq(Txns) /\ DistinctIds(<<t>>)
         /\ \A i \in DOMAIN <<t>> : Queueable(<<t>>[i]) /\ <<t>>[i] # handed
         /\ UNCHANGED <<txnVars, now, handed>>
  BY DEF Add, DistinctIds

LEMMA RequeueIsEnqueue ==
  ASSUME NEW t \in Txns, NEW u \in Txns, t # handed, u # handed, Requeue(<<t, u>>)
  PROVE  /\ Enqueue(<<t, u>>) /\ <<t, u>> \in Seq(Txns) /\ DistinctIds(<<t, u>>)
         /\ \A i \in DOMAIN <<t, u>> : Queueable(<<t, u>>[i]) /\ <<t, u>>[i] # handed
         /\ UNCHANGED <<txnVars, now, handed>>
<1>1. \A i \in DOMAIN <<t, u>> : <<t, u>>[i] # handed
  OBVIOUS
<1> QED BY <1>1 DEF Requeue, DistinctIds

\* The invariant is inductive: one step per operation.
LEMMA QueueInvStep == QueueInv /\ [QueueNext]_queueVars => QueueInv'
<1> SUFFICES ASSUME QueueInv, [QueueNext]_queueVars PROVE QueueInv'
  OBVIOUS
<1>1. ASSUME NEW t \in Txns \ {handed}, Add(t) PROVE QueueInv'
  BY <1>1, AddIsEnqueue, EnqueueKeepsInv
<1>2. ASSUME NEW t \in Txns \ {handed}, NEW u \in Txns \ {handed}, Requeue(<<t, u>>)
      PROVE  QueueInv'
  BY <1>2, RequeueIsEnqueue, EnqueueKeepsInv
<1>3. CASE NextReady /\ UNCHANGED <<txnVars, now>>
  BY <1>3, NextReadyKeepsInv
<1>4. ASSUME NEW id \in Ids, CancelQueued(id) PROVE QueueInv'
  BY <1>4, CancelKeepsInv
<1>5. CASE Elsewhere
  BY <1>5, ElsewhereKeepsInv
<1>6. CASE Tick /\ UNCHANGED <<txnVars, heapVars, handed>>
  BY <1>6, TickKeepsInv
<1>7. CASE UNCHANGED queueVars
  BY <1>7 DEF queueVars, txnVars, heapVars, QueueInv, HeapsInv, QueueTypeOK, NumbersUnique, EntriesKnown,
             QueuedWaits, QueuedLive, LiveInPlace, Entries, IsLive
<1> QED BY <1>1, <1>2, <1>3, <1>4, <1>5, <1>6, <1>7 DEF QueueNext, BetweenRequests

\* The inductive invariant holds in every reachable state.
THEOREM QueueInvHolds == QueueSpec => []QueueInv
<1> QED BY QueueInvInit, QueueInvStep, PTL DEF QueueSpec

\* The sequence number of a queued id finds one entry in the heaps.
LEMMA HeapsLiveOnce == HeapsInv => OneLiveEntry
<1> SUFFICES ASSUME HeapsInv, NEW id \in Ids, queued[id] # 0
             PROVE  /\ known[id] # NoTxn /\ IdOf[known[id]] = id
                    /\ \E e \in Entries : e.id = id /\ e.seq = queued[id]
                    /\ \A e, f \in Entries : e.seq = queued[id] /\ f.seq = queued[id] => e = f
  BY DEF OneLiveEntry
<1> QED BY DEF HeapsInv, QueuedLive, EntriesKnown, NumbersUnique, Entries

\* A queued id has one live entry, whatever cancellations left behind in the heaps.
THEOREM QueuedOnce == QueueSpec => []OneLiveEntry
<1>1. QueueInv => OneLiveEntry
  BY HeapsLiveOnce DEF QueueInv
<1> QED BY <1>1, QueueInvHolds, PTL
-----------------------------------------------------------------------------
\* No step puts another object under a known id.
LEMMA KnownStays ==
  ASSUME QueueInv, [QueueNext]_queueVars, NEW id \in Ids, known[id] # NoTxn
  PROVE  known'[id] = known[id]
<1>1. ASSUME NEW batch \in Seq(Txns), DistinctIds(batch), Enqueue(batch),
             \A i \in DOMAIN batch : Queueable(batch[i]) /\ batch[i] # handed
      PROVE  known'[id] = known[id]
  <2>1. \A i \in DOMAIN batch : IdOf[batch[i]] = id => known[id] = batch[i]
    BY <1>1 DEF Queueable
  <2> QED BY <1>1, <2>1, Enqueued DEF QueueInv, HeapsInv
<1>2. ASSUME NEW t \in Txns \ {handed}, Add(t) PROVE known'[id] = known[id]
  BY <1>1, <1>2, AddIsEnqueue
<1>3. ASSUME NEW t \in Txns \ {handed}, NEW u \in Txns \ {handed}, Requeue(<<t, u>>)
      PROVE  known'[id] = known[id]
  BY <1>1, <1>3, RequeueIsEnqueue
<1>4. CASE NextReady \/ (\E i \in Ids : CancelQueued(i)) \/ Elsewhere
           \/ UNCHANGED heapVars \/ UNCHANGED queueVars
  BY <1>4 DEF NextReady, Pop, CancelQueued, Elsewhere, queueVars, heapVars
<1> QED BY <1>2, <1>3, <1>4 DEF QueueNext, BetweenRequests

\* An id is never taken over by another object: what the queue knows under it stays.
THEOREM IdsStay == QueueSpec => IdStaysWithObject
<1>1. QueueInv /\ [QueueNext]_queueVars
        => [\A id \in Ids : known[id] # NoTxn => known'[id] = known[id]]_queueVars
  BY KnownStays
<1> QED BY <1>1, QueueInvHolds, PTL DEF QueueSpec, IdStaysWithObject
-----------------------------------------------------------------------------
(***************************************************************************)
(* The refinement of UrgentFirst: who waits, without the heaps.            *)
(***************************************************************************)
WaitingIds == {id \in Ids : queued[id] # 0 /\ status[known[id]] = "pending"}

Place(id) == [txn |-> known[id], rank |-> queued[id], due |-> scheduledAt[known[id]]]

InLine == {Place(id) : id \in WaitingIds}

\* Those who wait under different ids are different objects of different rank.
LEMMA PlaceFacts ==
  ASSUME QueueInv, NEW id \in WaitingIds
  PROVE  /\ id \in Ids /\ known[id] \in Txns /\ IdOf[known[id]] = id
         /\ queued[id] \in 1 .. sequence
         /\ Place(id).txn = known[id] /\ Place(id).rank = queued[id]
         /\ Place(id).due = scheduledAt[known[id]]
         /\ \A j \in WaitingIds \ {id} : Place(j) # Place(id)
<1>1. /\ id \in Ids /\ queued[id] # 0 /\ known[id] \in Txns /\ IdOf[known[id]] = id
      /\ \E e \in Entries : e.id = id /\ e.seq = queued[id]
  BY DEF WaitingIds, QueueInv, HeapsInv, QueueTypeOK, QueuedWaits, QueuedLive, EntriesKnown
<1>2. queued[id] \in 1 .. sequence
  BY <1>1 DEF QueueInv, HeapsInv, NumbersUnique
<1>3. /\ Place(id).txn = known[id] /\ Place(id).rank = queued[id]
      /\ Place(id).due = scheduledAt[known[id]]
  BY DEF Place
<1>4. ASSUME NEW j \in WaitingIds \ {id} PROVE Place(j) # Place(id)
  <2>1. j \in Ids /\ queued[j] # 0 /\ IdOf[known[j]] = j /\ Place(j).txn = known[j]
    BY DEF WaitingIds, QueueInv, HeapsInv, QueuedWaits, QueuedLive, EntriesKnown, Place
  <2> QED BY <1>1, <1>3, <2>1
<1> QED BY <1>1, <1>2, <1>3, <1>4

\* One who leaves the line: the others stay where they were.
LEMMA OneLeaves ==
  ASSUME QueueInv, NEW id \in WaitingIds, WaitingIds' = WaitingIds \ {id},
         \A j \in WaitingIds' : Place(j)' = Place(j)
  PROVE  InLine' = InLine \ {Place(id)} /\ Place(id) \in InLine
<1>1. \A j \in WaitingIds \ {id} : Place(j) # Place(id)
  BY PlaceFacts
<1> QED BY <1>1 DEF InLine

\* A batch joins the line behind those who wait.
LEMMA BatchArrives ==
  ASSUME QueueInv, QueueInv', NEW batch \in Seq(Txns), DistinctIds(batch), Enqueue(batch),
         \A i \in DOMAIN batch : Queueable(batch[i]),
         UNCHANGED <<txnVars, now, handed, requests>>
  PROVE  Line!Arrive
<1>1. /\ QueueTypeOK /\ sequence \in Nat
      /\ UNCHANGED <<status, scheduledAt, now, handed, requests>>
  BY DEF QueueInv, HeapsInv, QueueTypeOK, txnVars
<1> DEFINE joins == {IdOf[batch[i]] : i \in DOMAIN batch}
<1>2. ASSUME NEW i \in DOMAIN batch
      PROVE  /\ IdOf[batch[i]] \in WaitingIds' /\ IdOf[batch[i]] \notin WaitingIds
             /\ Place(IdOf[batch[i]])'.txn = batch[i]
             /\ Place(IdOf[batch[i]])'.rank = sequence + i
             /\ i \in Nat \ {0}
  <2>1. /\ queued'[IdOf[batch[i]]] = sequence + i /\ known'[IdOf[batch[i]]] = batch[i]
        /\ i \in Nat \ {0} /\ IdOf[batch[i]] \in Ids
    BY <1>1, Enqueued
  <2>2. status[batch[i]] = "pending" /\ queued[IdOf[batch[i]]] = 0
    BY DEF Queueable
  <2> QED BY <1>1, <2>1, <2>2 DEF WaitingIds, Place
<1>3. ASSUME NEW id \in Ids \ joins
      PROVE  (id \in WaitingIds' <=> id \in WaitingIds) /\ Place(id)' = Place(id)
  <2>1. queued'[id] = queued[id] /\ known'[id] = known[id]
    BY <1>1, Enqueued
  <2> QED BY <1>1, <2>1 DEF WaitingIds, Place
<1>4. WaitingIds \subseteq Ids \ joins
  BY <1>2 DEF WaitingIds
<1>5. WaitingIds' \subseteq WaitingIds \cup joins
  BY <1>3 DEF WaitingIds
<1>6. InLine \subseteq InLine'
  BY <1>3, <1>4 DEF InLine
<1>7. ASSUME NEW v \in InLine' \ InLine
      PROVE  \E i \in DOMAIN batch : v = Place(IdOf[batch[i]])'
  BY <1>3, <1>5, <1>7 DEF InLine, WaitingIds
<1>8. ASSUME NEW i \in DOMAIN batch, NEW w \in InLine
      PROVE  w.rank < sequence + i /\ w.txn # batch[i]
  <2>1. PICK j \in WaitingIds : w = Place(j)
    BY DEF InLine
  <2>2. w.rank \in 1 .. sequence /\ w.txn = known[j] /\ IdOf[known[j]] = j
    BY <2>1, PlaceFacts
  <2>3. j # IdOf[batch[i]]
    BY <1>2
  <2> QED BY <1>1, <1>2, <2>2, <2>3
<1>9. ASSUME NEW v \in InLine' \ InLine
      PROVE  /\ \A w \in InLine : w.rank < v.rank /\ w.txn # v.txn
             /\ \A w \in InLine' \ {v} : w.rank # v.rank /\ w.txn # v.txn
  <2>1. PICK i \in DOMAIN batch : v = Place(IdOf[batch[i]])'
    BY <1>7
  <2>2. v.rank = sequence + i /\ v.txn = batch[i] /\ i \in Nat
    BY <1>2, <2>1
  <2>3. \A w \in InLine : w.rank < v.rank /\ w.rank \in Nat /\ w.txn # v.txn
    <3>1. \A w \in InLine : w.rank \in Nat
      BY <1>1, PlaceFacts DEF InLine
    <3> QED BY <1>8, <2>2, <3>1
  <2>4. ASSUME NEW w \in InLine' \ {v}, w \notin InLine PROVE w.rank # v.rank /\ w.txn # v.txn
    <3>1. PICK k \in DOMAIN batch : w = Place(IdOf[batch[k]])'
      BY <1>7, <2>4
    <3>2. w.rank = sequence + k /\ w.txn = batch[k] /\ k \in Nat
      BY <1>2, <3>1
    <3>3. k # i
      BY <2>1, <3>1
    <3> QED BY <1>1, <2>2, <3>2, <3>3 DEF DistinctIds
  <2> QED BY <1>1, <2>2, <2>3, <2>4
<1> QED BY <1>1, <1>6, <1>9 DEF Line!Arrive, InLine, Place, WaitingIds

\* The live entry of one who waits and is due surfaces with its priority and rank.
LEMMA DueSurfaces ==
  ASSUME QueueInv, NEW id \in WaitingIds, scheduledAt[known[id]] <= now
  PROVE  \E e \in Candidates : /\ e.id = id /\ e.seq = queued[id]
                               /\ e.prio = Priority[known[id]]
<1>1. /\ id \in Ids /\ queued[id] # 0 /\ status[known[id]] = "pending"
  BY DEF WaitingIds
<1>2. CASE \E e \in Promoted : e.id = id /\ e.seq = queued[id]
  <2>1. PICK e \in Promoted : e.id = id /\ e.seq = queued[id]
    BY <1>2
  <2>2. e \in Candidates /\ e.prio = Priority[known[id]]
    BY <1>1, <2>1, Promotion DEF QueueInv, Candidates, IsLive
  <2> QED BY <2>1, <2>2
<1>3. CASE \E e \in delayed \ DueEntries : e.id = id /\ e.seq = queued[id]
  <2>1. PICK e \in delayed \ DueEntries : e.id = id /\ e.seq = queued[id]
    BY <1>3
  <2>2. e.at = scheduledAt[known[id]]
    BY <2>1 DEF QueueInv, HeapsInv, LiveInPlace, IsLive
  <2> QED BY <2>1, <2>2 DEF DueEntries
<1> QED BY <1>1, <1>2, <1>3, Promotion DEF QueueInv

\* A candidate is the place of one who waits and is due.
LEMMA CandidateWaits ==
  ASSUME QueueInv, NEW e \in Candidates
  PROVE  /\ e \in Promoted /\ IsLive(e) /\ e.id \in WaitingIds /\ queued[e.id] = e.seq
         /\ scheduledAt[known[e.id]] <= now /\ e.prio = Priority[known[e.id]]
         /\ e.prio \in Nat /\ e.seq \in Nat
<1>1. e \in Promoted /\ IsLive(e) /\ status[known[e.id]] = "pending"
  BY DEF Candidates
<1>2. /\ e \in ReadyEntries /\ e.prio = Priority[known[e.id]] /\ e.seq \in 1 .. sequence
      /\ scheduledAt[known[e.id]] <= now
  BY <1>1, Promotion, PromotedDue DEF QueueInv
<1>3. e.prio \in Nat /\ e.seq \in Nat /\ e.id \in Ids
  BY <1>2 DEF ReadyEntries
<1>4. queued[e.id] = e.seq /\ queued[e.id] # 0
  BY <1>1, <1>2 DEF IsLive
<1> QED BY <1>1, <1>2, <1>3, <1>4 DEF WaitingIds

\* Of those that were popped with it, only the candidate that is handed out waited.
LEMMA PopTakes ==
  ASSUME QueueInv, NEW popped \in SUBSET Promoted, NEW result, Pop(popped, result),
         UNCHANGED <<txnVars, now>>
  PROVE  /\ WaitingIds' = WaitingIds \ {e.id : e \in popped \cap Candidates}
         /\ \A j \in WaitingIds' : Place(j)' = Place(j)
<1>1. UNCHANGED <<known, status, scheduledAt>>
  BY DEF Pop, txnVars
<1>2. \A id \in WaitingIds' : id \in WaitingIds /\ queued'[id] = queued[id]
  BY <1>1, Popped DEF QueueInv, WaitingIds
<1>3. ASSUME NEW e \in popped \cap Candidates PROVE e.id \notin WaitingIds'
  BY CandidateWaits, Popped DEF QueueInv, WaitingIds
<1>4. ASSUME NEW id \in WaitingIds, id \notin WaitingIds'
      PROVE  \E e \in popped \cap Candidates : e.id = id
  <2>1. queued'[id] # queued[id] /\ id \in Ids /\ status[known[id]] = "pending"
    BY <1>1, <1>4 DEF WaitingIds
  <2>2. PICK e \in popped : e.id = id /\ IsLive(e)
    BY <2>1, Popped DEF QueueInv
  <2>3. e \in Candidates
    BY <2>1, <2>2 DEF Candidates
  <2> QED BY <2>2, <2>3
<1>5. \A j \in WaitingIds' : Place(j)' = Place(j)
  BY <1>1, <1>2 DEF Place
<1> QED BY <1>2, <1>3, <1>4, <1>5

\* next_ready() hands out the most urgent of those who wait and are due, and nothing if
\* nobody is; the others wait on as they did.
LEMMA HandsOut ==
  ASSUME QueueInv, NextReady, UNCHANGED <<txnVars, now>>
  PROVE  /\ known' = known /\ \A j \in WaitingIds' : Place(j)' = Place(j)
         /\ \/ /\ handed' = NoTxn /\ WaitingIds' = WaitingIds
               /\ \A id \in WaitingIds : ~(scheduledAt[known[id]] <= now)
            \/ \E id \in WaitingIds :
                 /\ scheduledAt[known[id]] <= now
                 /\ handed' = known[id] /\ WaitingIds' = WaitingIds \ {id}
                 /\ \A j \in WaitingIds \ {id} : scheduledAt[known[j]] <= now =>
                       \/ Priority[known[id]] > Priority[known[j]]
                       \/ Priority[known[id]] = Priority[known[j]] /\ queued[id] < queued[j]
<1>1. CASE Candidates = {} /\ Pop(Promoted, NoTxn)
  <2>1. \A id \in WaitingIds : ~(scheduledAt[known[id]] <= now)
    BY <1>1, DueSurfaces
  <2>2. WaitingIds' = WaitingIds /\ (\A j \in WaitingIds' : Place(j)' = Place(j))
    BY <1>1, PopTakes
  <2>3. handed' = NoTxn /\ known' = known
    BY <1>1 DEF Pop
  <2> QED BY <2>1, <2>2, <2>3
<1>2. ASSUME NEW e \in Candidates, Surfacing(e),
             Pop({f \in Promoted : f = e \/ MoreUrgent(f, e)}, known[e.id])
      PROVE  /\ known' = known /\ \A j \in WaitingIds' : Place(j)' = Place(j)
             /\ \E id \in WaitingIds :
                  /\ scheduledAt[known[id]] <= now
                  /\ handed' = known[id] /\ WaitingIds' = WaitingIds \ {id}
                  /\ \A j \in WaitingIds \ {id} : scheduledAt[known[j]] <= now =>
                        \/ Priority[known[id]] > Priority[known[j]]
                        \/ Priority[known[id]] = Priority[known[j]] /\ queued[id] < queued[j]
  <2> DEFINE popped == {f \in Promoted : f = e \/ MoreUrgent(f, e)}
  <2>1. /\ e \in Promoted /\ e.id \in WaitingIds /\ queued[e.id] = e.seq
        /\ scheduledAt[known[e.id]] <= now /\ e.prio = Priority[known[e.id]]
        /\ e.prio \in Nat /\ e.seq \in Nat
    BY CandidateWaits
  <2>2. \A f \in Candidates \ {e} : MoreUrgent(e, f) /\ ~MoreUrgent(f, e)
    <3>1. \A f \in Candidates : f.prio \in Nat /\ f.seq \in Nat
      BY CandidateWaits
    <3> QED BY <1>2, <2>1, <3>1 DEF Surfacing, MoreUrgent
  <2>3. popped \cap Candidates = {e}
    BY <2>1, <2>2
  <2>4. popped \in SUBSET Promoted
    OBVIOUS
  <2> HIDE DEF popped
  <2>5. Pop(popped, known[e.id])
    BY <1>2 DEF popped
  <2>6. WaitingIds' = WaitingIds \ {e.id} /\ (\A j \in WaitingIds' : Place(j)' = Place(j))
    BY <2>3, <2>4, <2>5, PopTakes
  <2>7. handed' = known[e.id] /\ known' = known
    BY <2>5 DEF Pop
  <2>8. ASSUME NEW j \in WaitingIds \ {e.id}, scheduledAt[known[j]] <= now
        PROVE  \/ Priority[known[e.id]] > Priority[known[j]]
               \/ Priority[known[e.id]] = Priority[known[j]] /\ queued[e.id] < queued[j]
    <3>1. PICK f \in Candidates : f.id = j /\ f.seq = queued[j] /\ f.prio = Priority[known[j]]
      BY <2>8, DueSurfaces
    <3>2. MoreUrgent(e, f)
      BY <2>2, <3>1
    <3> QED BY <2>1, <3>1, <3>2 DEF MoreUrgent
  <2>9. PICK id : id = e.id
    OBVIOUS
  <2> QED BY <2>1, <2>6, <2>7, <2>8, <2>9
<1>3. \/ Candidates = {} /\ Pop(Promoted, NoTxn)
      \/ \E e \in Candidates :
            Surfacing(e) /\ Pop({f \in Promoted : f = e \/ MoreUrgent(f, e)}, known[e.id])
  BY DEF NextReady
<1> QED BY <1>1, <1>2, <1>3

\* An answer of next_ready() is one of the line.
LEMMA NextReadyTakes ==
  ASSUME QueueInv, Request
  PROVE  Line!Take \/ Line!TakeNothing
<1>1. /\ QueueInv /\ NextReady /\ UNCHANGED <<txnVars, now>>
      /\ requests' = 1 - requests /\ now' = now
  BY DEF Request
<1>2. \A j \in WaitingIds' : Place(j)' = Place(j)
  BY <1>1, HandsOut
<1>3. ASSUME handed' = NoTxn, WaitingIds' = WaitingIds,
             \A id \in WaitingIds : ~(scheduledAt[known[id]] <= now)
      PROVE  Line!TakeNothing
  <2>1. \A w \in InLine : ~(w.due <= now)
    BY <1>3, PlaceFacts DEF InLine
  <2>2. InLine' = InLine
    BY <1>2, <1>3 DEF InLine
  <2> QED BY <1>1, <1>3, <2>1, <2>2 DEF Line!TakeNothing, Line!Due, InLine, Place, WaitingIds
<1>4. ASSUME NEW id \in WaitingIds, scheduledAt[known[id]] <= now, handed' = known[id],
             WaitingIds' = WaitingIds \ {id},
             \A j \in WaitingIds \ {id} : scheduledAt[known[j]] <= now =>
                 \/ Priority[known[id]] > Priority[known[j]]
                 \/ Priority[known[id]] = Priority[known[j]] /\ queued[id] < queued[j]
      PROVE  Line!Take
  <2>1. InLine' = InLine \ {Place(id)} /\ Place(id) \in InLine
    BY <1>1, <1>2, <1>4, OneLeaves
  <2>2. Place(id).due <= now /\ Place(id).txn = known[id] /\ Place(id).rank = queued[id]
    BY <1>4, PlaceFacts
  <2>3. ASSUME NEW v \in InLine \ {Place(id)}, v.due <= now
        PROVE  \/ Priority[known[id]] > Priority[v.txn]
               \/ Priority[known[id]] = Priority[v.txn] /\ queued[id] < v.rank
    <3>1. PICK j \in WaitingIds : v = Place(j)
      BY DEF InLine
    <3>2. j # id /\ v.txn = known[j] /\ v.rank = queued[j] /\ scheduledAt[known[j]] <= now
      BY <2>3, <3>1, PlaceFacts
    <3> QED BY <1>4, <3>2
  <2>4. \E w \in InLine :
           /\ w.due <= now
           /\ \A v \in {u \in InLine : u.due <= now} \ {w} :
                 \/ Priority[w.txn] > Priority[v.txn]
                 \/ Priority[w.txn] = Priority[v.txn] /\ w.rank < v.rank
           /\ InLine' = InLine \ {w}
           /\ handed' = w.txn
           /\ now' = now /\ requests' = 1 - requests
    BY <1>1, <1>4, <2>1, <2>2, <2>3
  <2> QED BY <2>4 DEF Line!Take, Line!Due, Line!Precedes, InLine, Place, WaitingIds
<1> QED BY <1>1, <1>3, <1>4, HandsOut

\* One who is cancelled leaves the line; if it was cancelled past the queue before, it
\* has left already.
LEMMA CancelLeaves ==
  ASSUME QueueInv, NEW id \in Ids, CancelQueued(id), UNCHANGED requests
  PROVE  Line!Leave \/ UNCHANGED Line!vars
<1>1. /\ UNCHANGED <<now, scheduledAt, known, handed>>
      /\ queued' = [queued EXCEPT ![id] = 0] /\ queued \in [Ids -> Nat]
      /\ status \in [Txns -> Statuses]
      /\ known[id] \in Txns /\ IdOf[known[id]] = id
      /\ \/ status' = [status EXCEPT ![known[id]] = "cancelled"]
         \/ status' = status
  <2>1. queued[id] # 0
    BY DEF CancelQueued
  <2> QED BY <2>1 DEF CancelQueued, Cancel, MoveTo, txnVars, QueueInv, HeapsInv, QueueTypeOK, QueuedWaits, QueuedLive,
                      EntriesKnown
<1>2. \A j \in Ids \ {id} : queued[j] # 0 => known[j] \in Txns /\ known[j] # known[id]
  BY <1>1 DEF QueueInv, HeapsInv, QueueTypeOK, QueuedWaits, QueuedLive, EntriesKnown
<1>3. ASSUME NEW j \in Ids \ {id}
      PROVE  (j \in WaitingIds' <=> j \in WaitingIds) /\ Place(j)' = Place(j)
  <2>1. queued'[j] = queued[j]
    BY <1>1
  <2>2. queued[j] # 0 => status'[known[j]] = status[known[j]]
    BY <1>1, <1>2
  <2> QED BY <1>1, <2>1, <2>2 DEF WaitingIds, Place
<1>4. WaitingIds' = WaitingIds \ {id}
  <2>1. id \notin WaitingIds'
    BY <1>1 DEF WaitingIds
  <2> QED BY <1>3, <2>1 DEF WaitingIds
<1>5. \A j \in WaitingIds' : Place(j)' = Place(j)
  BY <1>3, <1>4 DEF WaitingIds
<1>6. CASE id \in WaitingIds
  BY <1>1, <1>4, <1>5, <1>6, OneLeaves DEF Line!Leave, InLine, Place, WaitingIds
<1>7. CASE id \notin WaitingIds
  <2>1. InLine' = InLine
    BY <1>4, <1>5, <1>7 DEF InLine
  <2> QED BY <1>1, <2>1 DEF Line!vars, InLine, Place, WaitingIds
<1> QED BY <1>6, <1>7

\* What happens elsewhere: the one handed out is started, one who waits is cancelled,
\* or none of those who wait is concerned.
LEMMA ElsewhereMaps ==
  ASSUME QueueInv, Elsewhere, UNCHANGED requests
  PROVE  Line!Leave \/ Line!Accept \/ UNCHANGED Line!vars
<1>1. UNCHANGED <<now, queued, known>>
  BY ElsewhereFacts DEF heapVars
<1>2. \A id \in Ids : queued[id] # 0 =>
          /\ known[id] \in Txns /\ IdOf[known[id]] = id /\ known[id] # handed
          /\ status[known[id]] \in {"pending", "cancelled"}
          /\ scheduledAt'[known[id]] = scheduledAt[known[id]]
  BY ElsewhereFacts DEF QueueInv, HeapsInv, QueueTypeOK, QueuedWaits, QueuedLive, EntriesKnown
<1>3. \A id \in WaitingIds : Place(id)' = Place(id)
  BY <1>1, <1>2 DEF WaitingIds, Place
<1>4. CASE \A id \in Ids : queued[id] # 0 => status'[known[id]] = status[known[id]]
  <2>1. WaitingIds' = WaitingIds
    BY <1>1, <1>4 DEF WaitingIds
  <2>2. InLine' = InLine
    BY <1>3, <2>1 DEF InLine
  <2>3. handed' \in {handed, NoTxn}
    BY ElsewhereFacts
  <2> QED BY <1>1, <2>2, <2>3 DEF Line!Accept, Line!vars, InLine, Place, WaitingIds
<1>5. ASSUME NEW t \in Txns, status[t] = "pending",
             status' = [status EXCEPT ![t] = "cancelled"], handed' = handed,
             NEW id \in Ids, queued[id] # 0, known[id] = t
      PROVE  Line!Leave
  <2>1. status \in [Txns -> Statuses]
    BY DEF QueueInv, HeapsInv, QueueTypeOK
  <2>2. \A j \in Ids \ {id} : queued[j] # 0 => status'[known[j]] = status[known[j]]
    BY <1>2, <1>5, <2>1
  <2>3. id \in WaitingIds /\ id \notin WaitingIds'
    BY <1>1, <1>5, <2>1 DEF WaitingIds
  <2>4. WaitingIds' = WaitingIds \ {id}
    BY <1>1, <2>2, <2>3 DEF WaitingIds
  <2>5. InLine' = InLine \ {Place(id)} /\ Place(id) \in InLine
    BY <1>3, <2>3, <2>4, OneLeaves
  <2> QED BY <1>1, <1>5, <2>5 DEF Line!Leave, InLine, Place, WaitingIds
<1>6. ASSUME NEW t \in Txns, status' = [status EXCEPT ![t] = "cancelled"],
             \A id \in Ids : queued[id] # 0 => known[id] # t
      PROVE  \A id \in Ids : queued[id] # 0 => status'[known[id]] = status[known[id]]
  <2>1. status \in [Txns -> Statuses]
    BY DEF QueueInv, HeapsInv, QueueTypeOK
  <2> QED BY <1>2, <1>6, <2>1
<1>7. \/ \A id \in Ids : queued[id] # 0 => status'[known[id]] = status[known[id]]
      \/ \E t \in Txns : /\ status[t] = "pending" /\ handed' = handed
                         /\ status' = [status EXCEPT ![t] = "cancelled"]
  BY <1>2, ElsewhereFacts
<1> QED BY <1>4, <1>5, <1>6, <1>7

\* Every step of the queue is a step of UrgentFirst or none.
LEMMA LineStep ==
  QueueInv /\ QueueInv' /\ [RequestsNext]_requestsVars => [Line!Next]_(Line!vars)
<1> SUFFICES ASSUME QueueInv, QueueInv', [RequestsNext]_requestsVars
             PROVE  [Line!Next]_(Line!vars)
  OBVIOUS
<1>1. ASSUME NEW t \in Txns \ {handed}, Add(t), UNCHANGED requests PROVE Line!Next
  BY <1>1, AddIsEnqueue, BatchArrives DEF Line!Next
<1>2. ASSUME NEW t \in Txns \ {handed}, NEW u \in Txns \ {handed}, Requeue(<<t, u>>),
             UNCHANGED requests
      PROVE  Line!Next
  BY <1>2, RequeueIsEnqueue, BatchArrives DEF Line!Next
<1>3. CASE Request
  BY <1>3, NextReadyTakes DEF Line!Next
<1>4. ASSUME NEW id \in Ids, CancelQueued(id), UNCHANGED requests
      PROVE  Line!Next \/ UNCHANGED Line!vars
  BY <1>4, CancelLeaves DEF Line!Next
<1>5. CASE Elsewhere /\ UNCHANGED requests
  BY <1>5, ElsewhereMaps DEF Line!Next
<1>6. CASE Tick /\ UNCHANGED <<txnVars, heapVars, handed>> /\ UNCHANGED requests
  <2>1. now' > now /\ UNCHANGED <<status, scheduledAt, queued, known, handed, requests>>
    BY <1>6 DEF Tick, txnVars, heapVars, QueueInv, HeapsInv, QueueTypeOK
  <2>2. InLine' = InLine
    BY <2>1 DEF InLine, Place, WaitingIds
  <2>3. Line!Pass
    BY <2>1, <2>2 DEF Line!Pass, InLine, Place, WaitingIds
  <2> QED BY <2>3 DEF Line!Next
<1>7. CASE UNCHANGED requestsVars
  BY <1>7 DEF requestsVars, queueVars, txnVars, heapVars, Line!vars
<1> QED BY <1>1, <1>2, <1>3, <1>4, <1>5, <1>6, <1>7 DEF RequestsNext, BetweenRequests

\* Nobody waits in an empty queue.
LEMMA LineInit == RequestsInit => Line!Init
<1> SUFFICES ASSUME RequestsInit PROVE Line!Init
  OBVIOUS
<1>1. now \in Nat /\ handed = NoTxn /\ requests = 0 /\ WaitingIds = {}
  BY ClockAssumption DEF RequestsInit, QueueInit, WaitingIds
<1>2. InLine = {}
  BY <1>1 DEF InLine
<1> QED BY <1>1, <1>2 DEF Line!Init, InLine, Place, WaitingIds

\* Counting the answers leaves the queue as it is.
LEMMA RequestsAreQueue == RequestsSpec => QueueSpec
<1>1. RequestsInit => QueueInit
  BY DEF RequestsInit
<1>2. [RequestsNext]_requestsVars => [QueueNext]_queueVars
  BY DEF RequestsNext, Request, requestsVars, QueueNext
<1> QED BY <1>1, <1>2, PTL DEF RequestsSpec, QueueSpec

\* The queue of two heaps with lazy cancellation implements UrgentFirst: every answer
\* is the most urgent waiting transaction that is due, first come first among equals,
\* or nothing with none due, the answers that change nothing included.
THEOREM QueueIsUrgentFirst == RequestsSpec => ImplementsUrgentFirst
<1>1. RequestsSpec => []QueueInv
  BY RequestsAreQueue, QueueInvHolds, PTL
<1> QED BY <1>1, LineInit, LineStep, PTL
        DEF RequestsSpec, ImplementsUrgentFirst, Line!Spec
-----------------------------------------------------------------------------
(***************************************************************************)
(* What pending() shows: the sorted list of the queued ids.                *)
(***************************************************************************)
QueuedIds == {id \in Ids : queued[id] # 0}

LEMMA QueuedFacts ==
  ASSUME QueueInv
  PROVE  /\ IsFiniteSet(QueuedIds) /\ WaitingIds \subseteq QueuedIds
         /\ \A i \in QueuedIds : /\ queued[i] \in Nat /\ known[i] \in Txns
                                 /\ scheduledAt[known[i]] \in Nat /\ Priority[known[i]] \in Nat
         /\ \A i, j \in QueuedIds : queued[i] = queued[j] => i = j
         /\ now \in Nat
<1>1. ASSUME NEW i \in QueuedIds
      PROVE  /\ queued[i] \in 1 .. sequence /\ known[i] \in Txns
             /\ \E e \in Entries : e.id = i /\ e.seq = queued[i]
  <2>1. i \in Ids /\ queued[i] # 0
    BY DEF QueuedIds
  <2>2. /\ known[i] \in Txns
        /\ \E e \in Entries : e.id = i /\ e.seq = queued[i]
    BY <2>1 DEF QueueInv, HeapsInv, QueueTypeOK, QueuedLive
  <2> QED BY <2>2 DEF QueueInv, HeapsInv, NumbersUnique
<1>2. ASSUME NEW i \in QueuedIds, NEW j \in QueuedIds, queued[i] = queued[j] PROVE i = j
  <2>1. PICK e \in Entries : e.id = i /\ e.seq = queued[i]
    BY <1>1
  <2>2. PICK f \in Entries : f.id = j /\ f.seq = queued[j]
    BY <1>1
  <2>3. e = f
    BY <1>2, <2>1, <2>2 DEF QueueInv, HeapsInv, NumbersUnique, Entries
  <2> QED BY <2>1, <2>2, <2>3
<1>3. IsFiniteSet(QueuedIds)
  <2>1. PICK n \in Nat : n = sequence
    BY DEF QueueInv, HeapsInv, QueueTypeOK
  <2>2. PICK f : f = [i \in QueuedIds |-> queued[i]]
    OBVIOUS
  <2>3. f \in Injection(QueuedIds, 1 .. n)
    BY <1>1, <1>2, <2>1, <2>2 DEF Injection, IsInjective
  <2> QED BY <2>3, FS_Interval, FS_Injection
<1>4. \A t \in Txns : scheduledAt[t] \in Nat /\ Priority[t] \in Nat
  BY QueueAssumption DEF QueueInv, HeapsInv, QueueTypeOK
<1>5. sequence \in Nat /\ now \in Nat
  BY DEF QueueInv, HeapsInv, QueueTypeOK
<1> QED BY <1>1, <1>2, <1>3, <1>4, <1>5 DEF QueuedIds, WaitingIds

\* The order of the list is a strict order of all that is queued.
LEMMA ListedOrder ==
  ASSUME QueueInv
  PROVE  /\ \A i, j \in QueuedIds : i # j => ListedBefore(i, j) \/ ListedBefore(j, i)
         /\ \A i, j \in QueuedIds : ~(ListedBefore(i, j) /\ ListedBefore(j, i))
         /\ \A i, j, k \in QueuedIds :
               ListedBefore(i, j) /\ ListedBefore(j, k) => ListedBefore(i, k)
<1>1. PICK due, prio, at, rank :
        /\ due = [i \in QueuedIds |-> IsDue(known[i], now)]
        /\ prio = [i \in QueuedIds |-> Priority[known[i]]]
        /\ at = [i \in QueuedIds |-> scheduledAt[known[i]]]
        /\ rank = [i \in QueuedIds |-> queued[i]]
  OBVIOUS
<1>2. \A i, j \in QueuedIds : ListedBefore(i, j) <=>
         \/ due[i] /\ ~due[j]
         \/ due[i] /\ due[j] /\ (prio[i] > prio[j] \/ (prio[i] = prio[j] /\ rank[i] < rank[j]))
         \/ ~due[i] /\ ~due[j] /\ (at[i] < at[j] \/ (at[i] = at[j] /\ rank[i] < rank[j]))
  BY <1>1 DEF ListedBefore
<1>3. /\ \A i \in QueuedIds : prio[i] \in Nat /\ at[i] \in Nat /\ rank[i] \in Nat
      /\ \A i, j \in QueuedIds : rank[i] = rank[j] => i = j
  BY <1>1, QueuedFacts
<1>4. \A i, j \in QueuedIds : i # j => ListedBefore(i, j) \/ ListedBefore(j, i)
  BY <1>2, <1>3
<1>5. \A i, j \in QueuedIds : ~(ListedBefore(i, j) /\ ListedBefore(j, i))
  BY <1>2, <1>3
<1>6. \A i, j, k \in QueuedIds : ListedBefore(i, j) /\ ListedBefore(j, k) => ListedBefore(i, k)
  BY <1>2, <1>3
<1> QED BY <1>4, <1>5, <1>6

\* The list has every queued id once, in that order; the places of those that still wait
\* are those of the waiting ids.
ListGood ==
    /\ DOMAIN Listed \subseteq Nat
    /\ \A i \in DOMAIN Listed : Listed[i] \in QueuedIds
    /\ \A id \in QueuedIds : \E i \in DOMAIN Listed : Listed[i] = id
    /\ \A i, j \in DOMAIN Listed : i < j <=> ListedBefore(Listed[i], Listed[j])
    /\ \A i, j \in DOMAIN Listed : Listed[i] = Listed[j] => i = j
    /\ \A i \in DOMAIN Listed : i \in StillWaiting <=> Listed[i] \in WaitingIds

LEMMA ListIsGood == QueueInv => ListGood
<1> SUFFICES ASSUME QueueInv PROVE ListGood
  OBVIOUS
<1>1. PICK ids : ids = QueuedIds /\ IsFiniteSet(ids)
  BY QueuedFacts
<1>2. PICK n \in Nat : n = Cardinality(ids)
  BY <1>1, FS_CardinalityType
<1>3. PICK R : R = {p \in ids \X ids : ListedBefore(p[1], p[2])}
  OBVIOUS
<1>4. \A i, j \in ids : <<i, j>> \in R <=> ListedBefore(i, j)
  BY <1>3
<1>5. \E list \in [1 .. Cardinality(ids) -> ids] :
         \A i, j \in DOMAIN list : i < j => ListedBefore(list[i], list[j])
  <2>1. /\ \A x, y, z \in ids : <<x, y>> \in R /\ <<y, z>> \in R => <<x, z>> \in R
        /\ \A x, y \in ids : x # y => <<x, y>> \in R \/ <<y, x>> \in R
    BY <1>1, <1>4, ListedOrder
  <2>2. PICK list \in [1 .. Cardinality(ids) -> ids] :
          \A i, j \in DOMAIN list : i < j => <<list[i], list[j]>> \in R
    BY <1>1, <2>1, SortedExists
  <2>3. \A i, j \in DOMAIN list : i < j => ListedBefore(list[i], list[j])
    BY <1>4, <2>2
  <2> QED BY <2>3
<1>6. Listed = CHOOSE list \in [1 .. Cardinality(ids) -> ids] :
                  \A i, j \in DOMAIN list : i < j => ListedBefore(list[i], list[j])
  BY <1>1 DEF Listed, QueuedIds
<1>7. PICK list : /\ list = Listed /\ list \in [1 .. n -> ids]
                  /\ \A i, j \in 1 .. n : i < j => ListedBefore(list[i], list[j])
  <2>1. /\ Listed \in [1 .. Cardinality(ids) -> ids]
        /\ \A i, j \in DOMAIN Listed : i < j => ListedBefore(Listed[i], Listed[j])
    BY <1>5, <1>6
  <2> QED BY <1>2, <2>1
<1>8. \A i, j \in ids : ~(ListedBefore(i, j) /\ ListedBefore(j, i))
  BY <1>1, ListedOrder
<1>9. ASSUME NEW i \in 1 .. n, NEW j \in 1 .. n
      PROVE  (i < j <=> ListedBefore(list[i], list[j])) /\ (list[i] = list[j] => i = j)
  <2>1. list[i] \in ids /\ list[j] \in ids
    BY <1>7
  <2>2. i < j \/ j < i \/ i = j
    OBVIOUS
  <2> QED BY <1>7, <1>8, <2>1, <2>2
<1>10. \A x \in ids : \E i \in 1 .. n : list[i] = x
  <2>1. \A i, j \in 1 .. n : i < j => list[i] # list[j]
    BY <1>9
  <2> QED BY <1>1, <1>2, <1>7, <2>1, SortedHasAll
<1>11. \A i \in 1 .. n : i \in StillWaiting <=> list[i] \in WaitingIds
  <2>1. \A i \in 1 .. n : list[i] \in QueuedIds
    BY <1>1, <1>7
  <2> QED BY <1>7, <2>1 DEF StillWaiting, WaitingIds, QueuedIds
<1> QED BY <1>1, <1>7, <1>9, <1>10, <1>11 DEF ListGood

LEMMA ListIsGoodNext == QueueInv' => ListGood'
BY ListIsGood, PTL

\* The answer is the first entry of the list that still waits, if it is due, and what is
\* left keeps its order.
LEMMA ListForetold ==
  ASSUME QueueInv, QueueInv', NextReady, UNCHANGED <<txnVars, now>>
  PROVE  LET first == {i \in StillWaiting : /\ IsDue(known[Listed[i]], now)
                                            /\ \A j \in StillWaiting : i <= j}
         IN  /\ first = {} => handed' = NoTxn
             /\ \A i \in first : handed' = known[Listed[i]]
             /\ {Listed'[i] : i \in StillWaiting'} = {Listed[i] : i \in StillWaiting \ first}
             /\ \A i, j \in StillWaiting' : i < j =>
                  \E k, l \in StillWaiting : k < l /\ Listed[k] = Listed'[i] /\ Listed[l] = Listed'[j]
<1>1. PICK list, places, next, placesNext :
         /\ list = Listed /\ places = StillWaiting /\ next = Listed' /\ placesNext = StillWaiting'
         /\ places \subseteq DOMAIN list /\ placesNext \subseteq DOMAIN next
  <2>1. StillWaiting \subseteq DOMAIN Listed /\ StillWaiting' \subseteq DOMAIN Listed'
    BY DEF StillWaiting
  <2>2. PICK list, places, next, placesNext :
         list = Listed /\ places = StillWaiting /\ next = Listed' /\ placesNext = StillWaiting'
    OBVIOUS
  <2> QED BY <2>1, <2>2
<1>2. /\ DOMAIN list \subseteq Nat
      /\ \A i, j \in DOMAIN list : i < j <=> ListedBefore(list[i], list[j])
      /\ \A i, j \in DOMAIN list : list[i] = list[j] => i = j
      /\ \A i \in places : list[i] \in WaitingIds
      /\ \A id \in WaitingIds : \E i \in places : list[i] = id
  <2>1. WaitingIds \subseteq QueuedIds
    BY QueuedFacts
  <2> QED BY <1>1, <2>1, ListIsGood DEF ListGood
<1>3. /\ DOMAIN next \subseteq Nat
      /\ \A i, j \in DOMAIN next : i < j <=> ListedBefore(next[i], next[j])'
      /\ \A i \in placesNext : next[i] \in WaitingIds'
      /\ \A id \in WaitingIds' : \E i \in placesNext : next[i] = id
  <2>1. WaitingIds' \subseteq QueuedIds'
    BY DEF WaitingIds, QueuedIds
  <2>2. ListGood'
    BY ListIsGoodNext
  <2> QED BY <1>1, <2>1, <2>2 DEF ListGood
<1>4. UNCHANGED <<known, now, scheduledAt>> /\ \A id \in WaitingIds' : queued'[id] = queued[id]
  <2>1. known' = known /\ \A id \in WaitingIds' : Place(id)' = Place(id)
    BY HandsOut
  <2>2. \A id : Place(id).rank = queued[id] /\ Place(id)'.rank = queued'[id]
    BY DEF Place
  <2> QED BY <2>1, <2>2 DEF txnVars
<1>5. \A i, j \in WaitingIds' : ListedBefore(i, j)' <=> ListedBefore(i, j)
  BY <1>4 DEF ListedBefore, IsDue
<1>6. WaitingIds' \subseteq WaitingIds
  BY HandsOut
<1>7. ASSUME NEW i \in placesNext, NEW j \in placesNext, i < j
      PROVE  \E k, l \in places : k < l /\ list[k] = next[i] /\ list[l] = next[j]
  <2>1. next[i] \in WaitingIds' /\ next[j] \in WaitingIds' /\ ListedBefore(next[i], next[j])'
    BY <1>1, <1>3, <1>7
  <2>2. ListedBefore(next[i], next[j])
    BY <1>5, <2>1
  <2>3. PICK k \in places, l \in places : list[k] = next[i] /\ list[l] = next[j]
    BY <1>2, <1>6, <2>1
  <2> QED BY <1>1, <1>2, <2>2, <2>3
<1> DEFINE first == {i \in places : /\ IsDue(known[list[i]], now) /\ \A j \in places : i <= j}
<1>8. ASSUME handed' = NoTxn, WaitingIds' = WaitingIds,
             \A id \in WaitingIds : ~(scheduledAt[known[id]] <= now)
      PROVE  /\ first = {} => handed' = NoTxn
             /\ \A i \in first : handed' = known[list[i]]
             /\ {next[i] : i \in placesNext} = {list[i] : i \in places \ first}
  <2>1. first = {}
    BY <1>2, <1>8 DEF IsDue
  <2>2. {next[i] : i \in placesNext} = WaitingIds'
    BY <1>3
  <2>3. {list[i] : i \in places} = WaitingIds
    BY <1>2
  <2> QED BY <1>8, <2>1, <2>2, <2>3
<1>9. ASSUME NEW id \in WaitingIds, scheduledAt[known[id]] <= now, handed' = known[id],
             WaitingIds' = WaitingIds \ {id},
             \A j \in WaitingIds \ {id} : scheduledAt[known[j]] <= now =>
                 \/ Priority[known[id]] > Priority[known[j]]
                 \/ Priority[known[id]] = Priority[known[j]] /\ queued[id] < queued[j]
      PROVE  /\ first = {} => handed' = NoTxn
             /\ \A i \in first : handed' = known[list[i]]
             /\ {next[i] : i \in placesNext} = {list[i] : i \in places \ first}
  <2>1. \A j \in WaitingIds \ {id} : ListedBefore(id, j)
    BY <1>9 DEF ListedBefore, IsDue
  <2>2. PICK k \in places : list[k] = id
    BY <1>2
  <2>3. ASSUME NEW j \in places, j # k PROVE k < j
    <3>1. list[j] \in WaitingIds \ {id}
      BY <1>1, <1>2, <2>2, <2>3
    <3> QED BY <1>1, <1>2, <2>1, <2>2, <3>1
  <2>4. k \in Nat /\ \A j \in places : j \in Nat
    BY <1>1, <1>2
  <2>5. first = {k}
    <3>1. k \in first
      BY <1>9, <2>2, <2>3, <2>4 DEF IsDue
    <3>2. ASSUME NEW i \in first PROVE i = k
      BY <2>3, <2>4
    <3> QED BY <3>1, <3>2
  <2>6. {next[i] : i \in placesNext} = WaitingIds'
    BY <1>3
  <2>7. {list[i] : i \in places \ {k}} = WaitingIds \ {id}
    BY <1>1, <1>2, <2>2
  <2> QED BY <1>9, <2>2, <2>5, <2>6, <2>7
<1>10. /\ first = {} => handed' = NoTxn
       /\ \A i \in first : handed' = known[list[i]]
       /\ {next[i] : i \in placesNext} = {list[i] : i \in places \ first}
  BY <1>8, <1>9, HandsOut
<1> HIDE DEF first
<1>11. first = {i \in StillWaiting : /\ IsDue(known[Listed[i]], now)
                                     /\ \A j \in StillWaiting : i <= j}
  BY <1>1 DEF first
<1>12. /\ first = {} => handed' = NoTxn
       /\ \A i \in first : handed' = known[Listed[i]]
       /\ {Listed'[i] : i \in StillWaiting'} = {Listed[i] : i \in StillWaiting \ first}
       /\ \A i, j \in StillWaiting' : i < j =>
            \E k, l \in StillWaiting : k < l /\ Listed[k] = Listed'[i] /\ Listed[l] = Listed'[j]
  BY <1>1, <1>7, <1>10
<1> QED BY <1>11, <1>12

\* What pending() shows is what happens: whoever asks next gets its first entry that still
\* waits, if that is due, and nothing otherwise; the rest is shown in the order it had.
THEOREM PendingForetells == QueueSpec => ListForetells
<1>1. QueueInv /\ QueueInv' /\ [QueueNext]_queueVars =>
        [NextReady /\ UNCHANGED <<txnVars, now>> =>
         LET first == {i \in StillWaiting : /\ IsDue(known[Listed[i]], now)
                                            /\ \A j \in StillWaiting : i <= j}
         IN  /\ first = {} => handed' = NoTxn
             /\ \A i \in first : handed' = known[Listed[i]]
             /\ {Listed'[i] : i \in StillWaiting'} = {Listed[i] : i \in StillWaiting \ first}
             /\ \A i, j \in StillWaiting' : i < j =>
                  \E k, l \in StillWaiting : k < l /\ Listed[k] = Listed'[i] /\ Listed[l] = Listed'[j]
        ]_queueVars
  BY ListForetold
<1> QED BY <1>1, QueueInvHolds, PTL DEF QueueSpec, ListForetells
-----------------------------------------------------------------------------
(***************************************************************************)
(* ProcessQueue: a run of the queue through the processor.                 *)
(***************************************************************************)
RunTypes == mode \in {"none", "loop", "finally"} /\ report \in [Buckets -> Seq(Txns)]

\* What a run has sorted keeps the status it was sorted by, and is not running.
Sorted ==
    mode # "none" =>
        \A b \in Buckets : \A i \in DOMAIN report[b] :
            status[report[b][i]] = b /\ report[b][i] # cur

\* What a run collected for its end is known to the queue, not queued, and there once.
Collected ==
    mode # "none" =>
        LET batch == report["pending"] IN
        /\ \A i \in DOMAIN batch : known[IdOf[batch[i]]] = batch[i] /\ queued[IdOf[batch[i]]] = 0
        /\ \A i, j \in DOMAIN batch : batch[i] = batch[j] => i = j

\* The attempt a run makes is that of a transaction it took off the queue; nothing
\* runs when the run puts back what it collected.
TakenOff ==
    /\ mode = "finally" => cur = NoTxn
    /\ mode = "loop" /\ cur # NoTxn => known[IdOf[cur]] = cur /\ queued[IdOf[cur]] = 0

\* A pending transaction the queue took in is queued, collected or running; outside
\* the runs it is queued, and so is one that is being processed directly.
StillQueued ==
    \A t \in Txns : known[IdOf[t]] = t =>
        /\ mode = "none" /\ status[t] \in {"pending", "processing"} => queued[IdOf[t]] # 0
        /\ mode # "none" /\ status[t] = "pending" /\ t # cur =>
              \/ queued[IdOf[t]] # 0
              \/ \E i \in DOMAIN report["pending"] : report["pending"][i] = t

\* The inductive invariant of the processor and its queue.
RunInv == ProcInv /\ HeapsInv /\ RunTypes /\ Sorted /\ Collected /\ TakenOff /\ StillQueued
-----------------------------------------------------------------------------
\* The types RunInv gives.
LEMMA RunTypesOf ==
  ASSUME RunInv
  PROVE  /\ TypeOK /\ QueueTypeOK /\ RunTypes
         /\ status \in [Txns -> Statuses] /\ scheduledAt \in [Txns -> Nat]
         /\ queued \in [Ids -> Nat] /\ known \in [Ids -> Txns \cup {NoTxn}]
         /\ cur \in Txns \cup {NoTxn} /\ handed \in Txns \cup {NoTxn}
         /\ NoTxn \notin Txns /\ (pc = "idle" <=> cur = NoTxn)
         /\ \A t \in Txns : IdOf[t] \in Ids
         /\ report["pending"] \in Seq(Txns)
  BY TransactionAssumption
     DEF RunInv, ProcInv, HeapsInv, TypeOK, QueueTypeOK, AttemptTypeOK, RunTypes, Buckets

\* Cancelling a transaction that waits leaves it at rest: none of its money moved.
LEMMA CancelKeepsProc ==
  ASSUME ProcInv, HeapsInv, NEW id \in Ids, CancelWaiting(id)
  PROVE  ProcInv'
<1>1. /\ pc = "idle" /\ cur = NoTxn
      /\ UNCHANGED <<bankVars, historyVars, errors, collectedFees, attemptVars, now>>
  BY DEF CancelWaiting, CancelQueued, Idle, ProcInv, TypeOK, AttemptTypeOK
<1>2. known[id] \in Txns /\ (Cancel(known[id]) \/ UNCHANGED txnVars)
  BY CancelFacts DEF CancelWaiting, CancelQueued
<1>3. CASE UNCHANGED txnVars
  <2>1. UNCHANGED procVars
    BY <1>1, <1>3 DEF procVars
  <2> QED BY <2>1, InvStep
<1>4. ASSUME NEW t \in Txns, Cancel(t) PROVE ProcInv'
  <2>1. /\ status \in [Txns -> Statuses] /\ status[t] = "pending"
        /\ status' = [status EXCEPT ![t] = "cancelled"]
        /\ UNCHANGED <<attempts, scheduledAt, reason>>
    BY <1>4 DEF Cancel, MoveTo, CanMove, TRANSITIONS, Statuses, ProcInv, TypeOK, TxnTypeOK
  <2>2. TypeOK'
    <3>1. TxnTypeOK'
      BY <2>1 DEF ProcInv, TypeOK, TxnTypeOK, Statuses
    <3> QED BY <1>1, <2>1, <3>1, Frame DEF ProcInv, TypeOK, attemptVars
  <2>3. IdsHeld' /\ UnclaimedUnused'
    BY <1>1 DEF ProcInv, IdsHeld, UnclaimedUnused, historyVars
  <2>4. \A u \in Txns : SameMovements(u) /\ (Holds(u)' <=> Holds(u)) /\ AtRest(u)
    BY <1>1, TransactionAssumption DEF SameMovements, historyVars, Holds, ProcInv, OthersAtRest
  <2>5. ASSUME NEW u \in Txns \ {t} PROVE AtRest(u)'
    BY <2>1, <2>4, RestFrame
  <2>6. AtRest(t)'
    <3>1. NothingMoved(t)' <=> NothingMoved(t)
      BY <2>1, <2>4, MoneyFrame DEF SameMovements
    <3> QED BY <2>1, <2>4, <3>1 DEF AtRest
  <2>7. OthersAtRest' /\ RunningAttempt'
    BY <1>1, <2>5, <2>6, TransactionAssumption DEF OthersAtRest, RunningAttempt, attemptVars
  <2> QED BY <2>2, <2>3, <2>7 DEF ProcInv
<1> QED BY <1>2, <1>3, <1>4
\* The clock that moves on to the moment the next transaction is due disturbs nothing.
LEMMA WaitingKeepsProc ==
  ASSUME RunInv, WaitForDue
  PROVE  ProcInv'
<1>1. /\ UNCHANGED <<txnVars, bankVars, historyVars, errors, collectedFees, attemptVars>>
      /\ now' \in Nat
  BY RunTypesOf DEF WaitForDue, Waiting
<1>2. TypeOK'
  BY <1>1, Frame DEF RunInv, ProcInv, TypeOK, attemptVars, txnVars
<1> QED BY <1>1, <1>2, OutsideKeepsInv DEF RunInv, ProcInv, bankVars

\* Every step of the processor with its queue is one of the processor, a
\* cancellation or a jump of the clock; all keep the processor's invariant.
LEMMA RunKeepsProc ==
  ASSUME RunInv, [RunNext]_vars
  PROVE  ProcInv'
<1>1. ProcInv
  BY DEF RunInv
<1>2. ASSUME NEW t \in Txns, Submit(t) PROVE ProcInv'
  <2>1. UNCHANGED procVars
    BY <1>2 DEF Submit, Add, procVars
  <2> QED BY <1>1, <2>1, InvStep
<1>3. ASSUME NEW t \in Txns, Process(t) PROVE ProcInv'
  BY <1>1, <1>3, InvStep DEF ProcNext
<1>4. ASSUME NEW id \in Ids, CancelWaiting(id) PROVE ProcInv'
  BY <1>4, CancelKeepsProc DEF RunInv
<1>5. CASE StartRun \/ NoneLeft \/ PutBack \/ UNCHANGED vars
  <2>1. UNCHANGED procVars
    BY <1>5 DEF StartRun, NoneLeft, PutBack, Requeue, procVars, vars
  <2> QED BY <1>1, <2>1, InvStep
<1>6. CASE Attempt \/ Return \/ Environment \/ ClockTick
  BY <1>1, <1>6, InvStep DEF ProcNext
<1>7. CASE WaitForDue
  BY <1>7, WaitingKeepsProc
<1> QED BY <1>2, <1>3, <1>4, <1>5, <1>6, <1>7
        DEF RunNext, ProcessDirectly, TakeNext, Sort, AttemptStep, ReturnDirectly, BetweenRuns,
            Passing
-----------------------------------------------------------------------------
\* What next_ready() does to those who wait: the one it hands out was pending and is
\* no longer queued; whoever else it drops was not pending.
LEMMA NextReadyTakesOne ==
  ASSUME HeapsInv, NextReady
  PROVE  /\ known' = known /\ queued' \in [Ids -> Nat]
         /\ \A id \in Ids : queued'[id] # queued[id] =>
               /\ queued'[id] = 0 /\ known[id] \in Txns
               /\ known[id] = handed' \/ status[known[id]] # "pending"
         /\ handed' # NoTxn => /\ handed' \in Txns /\ known[IdOf[handed']] = handed'
                               /\ status[handed'] = "pending"
                               /\ queued[IdOf[handed']] # 0 /\ queued'[IdOf[handed']] = 0
         /\ OutsideTypeOK' => HeapsInv'
<1>1. /\ \A p \in Promoted : /\ p \in ReadyEntries /\ p.id \in Ids /\ known[p.id] \in Txns
                             /\ IdOf[known[p.id]] = p.id
                             /\ p.prio \in Nat /\ p.seq \in Nat \ {0}
  BY Promotion DEF HeapsInv, QueueTypeOK, EntriesKnown, ReadyEntries
<1>2. ASSUME NEW popped \in SUBSET Promoted, NEW result, Pop(popped, result)
      PROVE  /\ known' = known /\ queued' \in [Ids -> Nat] /\ handed' = result
             /\ \A e \in popped : IsLive(e) => queued'[e.id] = 0
             /\ \A id \in Ids : queued'[id] # queued[id] =>
                   /\ queued'[id] = 0 /\ known[id] \in Txns
                   /\ \/ \E e \in popped \cap Candidates : known[id] = known[e.id]
                      \/ status[known[id]] # "pending"
             /\ OutsideTypeOK' => HeapsInv'
  <2>1. \A id \in Ids : queued'[id] # queued[id] =>
             queued'[id] = 0 /\ \E e \in popped : e.id = id /\ IsLive(e)
    BY <1>2, Popped
  <2> QED BY <1>1, <1>2, <2>1, Popped, PopKeepsHeaps DEF Candidates, Pop
<1>3. CASE Candidates = {} /\ Pop(Promoted, NoTxn)
  BY <1>2, <1>3
<1>4. ASSUME NEW e \in Candidates, Surfacing(e),
             Pop({f \in Promoted : f = e \/ MoreUrgent(f, e)}, known[e.id])
      PROVE  /\ \A id \in Ids : queued'[id] # queued[id] =>
                   /\ queued'[id] = 0 /\ known[id] \in Txns
                   /\ known[id] = handed' \/ status[known[id]] # "pending"
             /\ handed' \in Txns /\ known[IdOf[handed']] = handed'
             /\ status[handed'] = "pending"
             /\ queued[IdOf[handed']] # 0 /\ queued'[IdOf[handed']] = 0
             /\ known' = known /\ queued' \in [Ids -> Nat]
             /\ OutsideTypeOK' => HeapsInv'
  <2> DEFINE popped == {f \in Promoted : f = e \/ MoreUrgent(f, e)}
  <2>1. e \in Promoted /\ IsLive(e) /\ status[known[e.id]] = "pending"
    BY DEF Candidates
  <2>2. popped \cap Candidates = {e} /\ e \in popped /\ popped \in SUBSET Promoted
    <3>1. \A f \in Candidates \ {e} : ~MoreUrgent(f, e)
      BY <1>1, <1>4, <2>1 DEF Surfacing, MoreUrgent, Candidates
    <3> QED BY <2>1, <3>1
  <2> HIDE DEF popped
  <2>3. Pop(popped, known[e.id])
    BY <1>4 DEF popped
  <2> QED BY <1>1, <1>2, <2>1, <2>2, <2>3 DEF IsLive
<1> QED BY <1>3, <1>4, <1>2 DEF NextReady

\* Every step keeps one live entry for each queued id.
LEMMA RunKeepsHeaps ==
  ASSUME RunInv, ProcInv', [RunNext]_vars
  PROVE  HeapsInv'
<1>1. HeapsInv /\ (handed' \in Txns \cup {NoTxn} => OutsideTypeOK')
  BY DEF RunInv, ProcInv, TypeOK, TxnTypeOK, OutsideTypeOK
<1>2. handed \in Txns \cup {NoTxn} /\ RunTypes /\ report["pending"] \in Seq(Txns)
  BY RunTypesOf
<1>3. ASSUME NEW t \in Txns, Submit(t) PROVE HeapsInv'
  <2>1. Enqueue(<<t>>) /\ Queueable(t) /\ handed' = handed
    BY <1>3 DEF Submit, Add
  <2>2. /\ <<t>> \in Seq(Txns) /\ DistinctIds(<<t>>)
        /\ \A i \in DOMAIN <<t>> : Queueable(<<t>>[i])
    BY <2>1 DEF DistinctIds
  <2> QED BY <1>1, <1>2, <2>1, <2>2, EnqueueKeepsHeaps
<1>4. ASSUME NEW id \in Ids, CancelWaiting(id) PROVE HeapsInv'
  BY <1>1, <1>4, CancelKeepsHeaps DEF CancelWaiting
<1>5. CASE TakeNext \/ NoneLeft
  BY <1>1, <1>5, NextReadyTakesOne DEF TakeNext, NoneLeft
<1>6. CASE PutBack
  BY <1>1, <1>2, <1>6, EnqueueKeepsHeaps DEF PutBack, Requeue, DistinctIds
<1>7. CASE UNCHANGED heapVars /\ handed' \in {handed, NoTxn}
  BY <1>1, <1>2, <1>7, HeapsStay
<1> QED BY <1>3, <1>4, <1>5, <1>6, <1>7
        DEF RunNext, ProcessDirectly, StartRun, Sort, AttemptStep, ReturnDirectly, BetweenRuns,
            Passing, WaitForDue, vars
-----------------------------------------------------------------------------
\* A step of an attempt concerns the status of its own transaction only, which was
\* being processed.
LEMMA AttemptIsOwn ==
  ASSUME ProcInv, Attempt
  PROVE  /\ cur \in Txns /\ cur' = cur /\ status[cur] = "processing"
         /\ \A t \in Txns \ {cur} : status'[t] = status[t]
<1>1. cur \in Txns /\ pc \in Steps \ {"idle", "returned"}
  BY DEF ProcInv, TypeOK, AttemptTypeOK, Attempt, CheckSender, CheckRecipient, ConvertBoth, Screen,
         DebitSender, CreditRecipient, RollBack, CompleteAttempt, HandleFailure, Steps
<1>2. status[cur] = "processing" /\ status \in [Txns -> Statuses]
  BY <1>1 DEF ProcInv, TypeOK, TxnTypeOK, RunningAttempt, InAttempt
<1>3. cur' = cur
  BY DEF Attempt, CheckSender, CheckRecipient, ConvertBoth, Screen, DebitSender, CreditRecipient,
         RollBack, CompleteAttempt, HandleFailure, Check, Raise, Proceed, Review
<1>4. \A t \in Txns \ {cur} : status'[t] = status[t]
  BY <1>2 DEF Attempt, CheckSender, CheckRecipient, ConvertBoth, Screen, DebitSender, CreditRecipient,
              RollBack, CompleteAttempt, HandleFailure, Complete, Fail, Retry, MoveTo, txnVars
<1> QED BY <1>1, <1>2, <1>3, <1>4

\* Whoever the queue knows after a batch came in is queued, or was known before.
LEMMA BatchIsQueued ==
  ASSUME HeapsInv, NEW batch \in Seq(Txns), DistinctIds(batch), Enqueue(batch),
         NEW t \in Txns, known'[IdOf[t]] = t
  PROVE  \/ queued'[IdOf[t]] # 0
         \/ /\ known[IdOf[t]] = t /\ queued'[IdOf[t]] = queued[IdOf[t]]
            /\ \A i \in DOMAIN batch : batch[i] # t
<1>1. QueueTypeOK /\ sequence \in Nat /\ IdOf[t] \in Ids
  BY TransactionAssumption DEF HeapsInv, QueueTypeOK
<1>2. ASSUME NEW i \in DOMAIN batch, IdOf[batch[i]] = IdOf[t] PROVE queued'[IdOf[t]] # 0
  BY <1>1, <1>2, Enqueued
<1>3. CASE \A i \in DOMAIN batch : IdOf[batch[i]] # IdOf[t]
  BY <1>1, <1>3, Enqueued
<1> QED BY <1>2, <1>3

\* Each operation keeps the five parts of RunInv that are about the run.
LEMMA SubmitKeepsRun ==
  ASSUME RunInv, NEW t \in Txns, Submit(t)
  PROVE  RunTypes' /\ Sorted' /\ Collected' /\ TakenOff' /\ StillQueued'
<1>1. /\ mode = "none" /\ UNCHANGED <<status, cur, mode, report>>
      /\ Enqueue(<<t>>) /\ <<t>> \in Seq(Txns) /\ DistinctIds(<<t>>)
  BY DEF Submit, Idle, Add, txnVars, attemptVars, runVars, DistinctIds
<1>2. ASSUME NEW u \in Txns, known'[IdOf[u]] = u, status[u] \in {"pending", "processing"}
      PROVE  queued'[IdOf[u]] # 0
  <2>1. HeapsInv
    BY DEF RunInv
  <2> QED BY <1>1, <1>2, <2>1, BatchIsQueued DEF RunInv, StillQueued
<1> QED BY <1>1, <1>2 DEF RunInv, RunTypes, Sorted, Collected, TakenOff, StillQueued

LEMMA CancelKeepsRun ==
  ASSUME RunInv, NEW id \in Ids, CancelWaiting(id)
  PROVE  RunTypes' /\ Sorted' /\ Collected' /\ TakenOff' /\ StillQueued'
<1>1. mode = "none" /\ pc = "idle" /\ UNCHANGED <<cur, mode, report, known>>
  BY DEF CancelWaiting, CancelQueued, Idle, attemptVars, runVars
<1>2. /\ status \in [Txns -> Statuses] /\ known[id] \in Txns /\ IdOf[known[id]] = id
      /\ queued' = [queued EXCEPT ![id] = 0] /\ queued \in [Ids -> Nat]
      /\ IF CanMove(known[id], "cancelled")
           THEN status' = [status EXCEPT ![known[id]] = "cancelled"] ELSE status' = status
  BY RunTypesOf, CancelFacts DEF RunInv, CancelWaiting, CancelQueued, Cancel, MoveTo, txnVars
<1>3. status'[known[id]] \notin {"pending", "processing"}
  <2>1. status[known[id]] # "processing"
    BY <1>1, <1>2, RunTypesOf DEF RunInv, ProcInv, OthersAtRest, AtRest
  <2> QED BY <1>2, <2>1 DEF CanMove, TRANSITIONS
<1>4. ASSUME NEW u \in Txns, known[IdOf[u]] = u, status'[u] \in {"pending", "processing"}
      PROVE  queued'[IdOf[u]] # 0
  <2>1. u # known[id] /\ IdOf[u] # id
    BY <1>3, <1>4
  <2> QED BY <1>1, <1>2, <1>4, <2>1, RunTypesOf DEF RunInv, StillQueued
<1> QED BY <1>1, <1>4 DEF RunInv, RunTypes, Sorted, Collected, TakenOff, StillQueued

LEMMA StartKeepsRun ==
  ASSUME RunInv, StartRun
  PROVE  RunTypes' /\ Sorted' /\ Collected' /\ TakenOff' /\ StillQueued'
<1>1. /\ mode = "none" /\ cur = NoTxn /\ UNCHANGED <<status, cur, queued, known>>
      /\ mode' = "loop" /\ report' = [b \in Buckets |-> <<>>]
  BY RunTypesOf DEF StartRun, Idle, procVars, txnVars, attemptVars, heapVars, EmptyReport
<1> QED BY <1>1 DEF RunInv, RunTypes, Sorted, Collected, TakenOff, StillQueued, Buckets

LEMMA TakeKeepsRun ==
  ASSUME RunInv, TakeNext
  PROVE  RunTypes' /\ Sorted' /\ Collected' /\ TakenOff' /\ StillQueued'
<1>1. PICK t \in Txns : handed' = t /\ Process(t)
  BY DEF TakeNext
<1>2. /\ mode = "loop" /\ cur = NoTxn /\ NextReady /\ cur' = t /\ UNCHANGED <<mode, report>>
      /\ status \in [Txns -> Statuses] /\ status' = [status EXCEPT ![t] = "processing"]
      /\ t # NoTxn /\ NoTxn \notin Txns
  BY <1>1, RunTypesOf DEF TakeNext, Process, Start, MoveTo, runVars
<1>3. /\ known' = known /\ known[IdOf[t]] = t /\ status[t] = "pending"
      /\ queued[IdOf[t]] # 0 /\ queued'[IdOf[t]] = 0
      /\ \A id \in Ids : queued'[id] # queued[id] =>
            /\ queued'[id] = 0 /\ known[id] \in Txns
            /\ known[id] = t \/ status[known[id]] # "pending"
  BY <1>1, <1>2, NextReadyTakesOne DEF RunInv
<1>4. ASSUME NEW b \in Buckets, NEW i \in DOMAIN report[b]
      PROVE  /\ report[b][i] \in Txns /\ status[report[b][i]] = b
             /\ report[b][i] # t
             /\ b = "pending" => /\ known[IdOf[report[b][i]]] = report[b][i]
                                 /\ queued'[IdOf[report[b][i]]] = 0
  <2>1. report[b][i] \in Txns /\ status[report[b][i]] = b
    BY <1>2 DEF RunInv, RunTypes, Sorted
  <2>2. b = "pending" => /\ known[IdOf[report[b][i]]] = report[b][i]
                         /\ queued[IdOf[report[b][i]]] = 0
    BY <1>2 DEF RunInv, Collected
  <2>3. IdOf[report[b][i]] \in Ids
    BY <2>1, TransactionAssumption
  <2> QED BY <1>3, <2>1, <2>2, <2>3
<1>5. Sorted' /\ Collected'
  BY <1>2, <1>3, <1>4 DEF RunInv, Sorted, Collected, Buckets
<1>6. TakenOff' /\ RunTypes'
  BY <1>2, <1>3 DEF RunInv, TakenOff, RunTypes
<1>7. StillQueued'
  <2> SUFFICES ASSUME NEW u \in Txns, known[IdOf[u]] = u, status'[u] = "pending", u # t
               PROVE  \/ queued'[IdOf[u]] # 0
                      \/ \E i \in DOMAIN report["pending"] : report["pending"][i] = u
    BY <1>2, <1>3 DEF StillQueued
  <2>1. status[u] = "pending" /\ IdOf[u] \in Ids
    BY <1>2, TransactionAssumption
  <2> QED BY <1>2, <1>3, <2>1 DEF RunInv, StillQueued
<1> QED BY <1>5, <1>6, <1>7

LEMMA NoneLeftKeepsRun ==
  ASSUME RunInv, NoneLeft
  PROVE  RunTypes' /\ Sorted' /\ Collected' /\ TakenOff' /\ StillQueued'
<1>1. /\ mode = "loop" /\ mode' = "finally" /\ cur = NoTxn /\ NextReady /\ handed' = NoTxn
      /\ UNCHANGED <<status, cur, report>> /\ NoTxn \notin Txns
  BY RunTypesOf DEF NoneLeft, procVars, txnVars, attemptVars
<1>2. /\ known' = known
      /\ \A id \in Ids : queued'[id] # queued[id] =>
            queued'[id] = 0 /\ status[known[id]] # "pending"
  BY <1>1, NextReadyTakesOne DEF RunInv
<1>3. \A i \in DOMAIN report["pending"] : IdOf[report["pending"][i]] \in Ids
  BY RunTypesOf
<1>4. Collected'
  BY <1>1, <1>2, <1>3 DEF RunInv, Collected
<1>5. Sorted' /\ TakenOff' /\ RunTypes'
  BY <1>1 DEF RunInv, Sorted, TakenOff, RunTypes
<1>6. StillQueued'
  <2> SUFFICES ASSUME NEW u \in Txns, known[IdOf[u]] = u, status[u] = "pending"
               PROVE  \/ queued'[IdOf[u]] # 0
                      \/ \E i \in DOMAIN report["pending"] : report["pending"][i] = u
    BY <1>1, <1>2 DEF StillQueued
  <2>1. IdOf[u] \in Ids
    BY TransactionAssumption
  <2> QED BY <1>1, <1>2, <2>1 DEF RunInv, StillQueued
<1> QED BY <1>4, <1>5, <1>6

LEMMA SortKeepsRun ==
  ASSUME RunInv, Sort
  PROVE  RunTypes' /\ Sorted' /\ Collected' /\ TakenOff' /\ StillQueued'
<1>1. /\ mode = "loop" /\ mode' \in {"loop", "finally"} /\ cur' = NoTxn /\ pc = "returned"
      /\ UNCHANGED <<status, known, queued>> /\ NoTxn \notin Txns
      /\ report' = [report EXCEPT ![status[cur]] = Append(@, cur)]
  BY RunTypesOf DEF Sort, Return, txnVars, heapVars
<1>2. PICK t \in Txns : t = cur
  BY <1>1, RunTypesOf
<1>3. known[IdOf[t]] = t /\ queued[IdOf[t]] = 0 /\ AtRest(t)
  BY <1>1, <1>2 DEF RunInv, TakenOff, ProcInv, OthersAtRest
<1>4. report \in [Buckets -> Seq(Txns)] /\ report' \in [Buckets -> Seq(Txns)]
  <2>1. \A b \in Buckets : report[b] \in Seq(Txns) /\ Append(report[b], t) \in Seq(Txns)
    BY DEF RunInv, RunTypes
  <2> QED BY <1>1, <1>2, <2>1 DEF RunInv, RunTypes
<1>5. ASSUME NEW b \in Buckets
      PROVE  /\ report[b] \in Seq(Txns)
             /\ IF b = status[t] THEN report'[b] = Append(report[b], t) ELSE report'[b] = report[b]
  BY <1>1, <1>2, <1>4
<1>6. ASSUME NEW b \in Buckets, NEW i \in DOMAIN report'[b]
      PROVE  \/ i \in DOMAIN report[b] /\ report'[b][i] = report[b][i]
             \/ b = status[t] /\ report'[b][i] = t /\ i = Len(report[b]) + 1
  <2>1. CASE b = status[t]
    BY <1>5, <1>6, <2>1
  <2>2. CASE b # status[t]
    BY <1>5, <1>6, <2>2
  <2> QED BY <2>1, <2>2
<1>7. \A b \in Buckets : \A i \in DOMAIN report[b] : status[report[b][i]] = b /\ report[b][i] # t
  BY <1>1, <1>2 DEF RunInv, Sorted
<1>8. Sorted'
  <2> SUFFICES ASSUME NEW b \in Buckets, NEW i \in DOMAIN report'[b]
               PROVE  status[report'[b][i]] = b /\ report'[b][i] # NoTxn
    BY <1>1 DEF Sorted
  <2>1. report'[b][i] \in Txns
    BY <1>4
  <2> QED BY <1>1, <1>6, <1>7, <2>1
<1>9. Collected'
  <2> DEFINE batch == report["pending"]
  <2>1. "pending" \in Buckets /\ batch \in Seq(Txns)
    BY <1>4 DEF Buckets
  <2>2. /\ \A i \in DOMAIN batch : known[IdOf[batch[i]]] = batch[i] /\ queued[IdOf[batch[i]]] = 0
        /\ \A i, j \in DOMAIN batch : batch[i] = batch[j] => i = j
    BY <1>1 DEF RunInv, Collected
  <2>3. \A i \in DOMAIN report'["pending"] :
           \/ i \in DOMAIN batch /\ report'["pending"][i] = batch[i] /\ batch[i] # t
           \/ report'["pending"][i] = t /\ i = Len(batch) + 1
    BY <1>6, <1>7, <2>1
  <2> HIDE DEF batch
  <2>4. ASSUME NEW i \in DOMAIN report'["pending"]
        PROVE  /\ known[IdOf[report'["pending"][i]]] = report'["pending"][i]
               /\ queued[IdOf[report'["pending"][i]]] = 0
    BY <1>3, <2>2, <2>3
  <2>5. ASSUME NEW i \in DOMAIN report'["pending"], NEW j \in DOMAIN report'["pending"],
               report'["pending"][i] = report'["pending"][j]
        PROVE  i = j
    BY <2>2, <2>3, <2>5
  <2> QED BY <1>1, <2>4, <2>5 DEF Collected
<1>10. StillQueued'
  <2> SUFFICES ASSUME NEW u \in Txns, known[IdOf[u]] = u, status[u] = "pending"
               PROVE  \/ queued[IdOf[u]] # 0
                      \/ \E i \in DOMAIN report'["pending"] : report'["pending"][i] = u
    BY <1>1 DEF StillQueued
  <2>1. "pending" \in Buckets
    BY DEF Buckets
  <2>2. CASE u = t
    BY <1>5, <2>1, <2>2
  <2>3. ASSUME NEW i \in DOMAIN report["pending"], report["pending"][i] = u
        PROVE  \E j \in DOMAIN report'["pending"] : report'["pending"][j] = u
    <3>1. i \in DOMAIN report'["pending"] /\ report'["pending"][i] = u
      BY <1>5, <2>1, <2>3
    <3> QED BY <3>1
  <2> QED BY <1>1, <1>2, <2>2, <2>3 DEF RunInv, StillQueued
<1>11. TakenOff' /\ RunTypes'
  BY <1>1, <1>4 DEF TakenOff, RunTypes
<1> QED BY <1>8, <1>9, <1>10, <1>11

LEMMA PutBackKeepsRun ==
  ASSUME RunInv, PutBack
  PROVE  RunTypes' /\ Sorted' /\ Collected' /\ TakenOff' /\ StillQueued'
<1> DEFINE batch == report["pending"]
<1>1. /\ mode = "finally" /\ mode' = "none" /\ cur = NoTxn /\ NoTxn \notin Txns
      /\ UNCHANGED <<status, cur, report>> /\ pc = "idle"
      /\ Enqueue(batch) /\ batch \in Seq(Txns) /\ DistinctIds(batch)
  BY RunTypesOf DEF PutBack, Requeue, txnVars, attemptVars, DistinctIds, RunInv, TakenOff
<1>2. ASSUME NEW u \in Txns, known'[IdOf[u]] = u, status[u] \in {"pending", "processing"}
      PROVE  queued'[IdOf[u]] # 0
  <2>1. status[u] = "pending"
    BY <1>1, <1>2 DEF RunInv, ProcInv, OthersAtRest, AtRest
  <2>2. HeapsInv
    BY DEF RunInv
  <2> HIDE DEF batch
  <2>3. \/ queued'[IdOf[u]] # 0
        \/ /\ known[IdOf[u]] = u /\ queued'[IdOf[u]] = queued[IdOf[u]]
           /\ \A i \in DOMAIN batch : batch[i] # u
    BY <1>1, <1>2, <2>2, BatchIsQueued
  <2> QED BY <1>1, <2>1, <2>3 DEF RunInv, StillQueued, batch
<1> QED BY <1>1, <1>2 DEF RunInv, RunTypes, Sorted, Collected, TakenOff, StillQueued

\* What happens besides the run: an attempt goes on, the caller gets control back,
\* a transaction is processed directly, staff and clients act, time passes.
LEMMA RestKeepsRun ==
  ASSUME RunInv, UNCHANGED <<heapVars, runVars>>,
         \/ Attempt
         \/ mode = "none" /\ Return
         \/ Idle /\ \E t \in Txns : Process(t)
         \/ UNCHANGED <<status, cur>>
  PROVE  RunTypes' /\ Sorted' /\ Collected' /\ TakenOff' /\ StillQueued'
<1>1. UNCHANGED <<queued, known, mode, report>> /\ RunTypes'
  BY DEF heapVars, runVars, RunInv, RunTypes
<1>2. CASE Attempt
  <2>1. /\ cur \in Txns /\ cur' = cur /\ status[cur] = "processing"
        /\ \A t \in Txns \ {cur} : status'[t] = status[t]
    BY <1>2, AttemptIsOwn DEF RunInv
  <2>2. \A b \in Buckets : \A i \in DOMAIN report[b] : report[b][i] \in Txns
    BY DEF RunInv, RunTypes
  <2>3. Sorted'
    BY <1>1, <2>1, <2>2 DEF RunInv, Sorted
  <2> QED BY <1>1, <2>1, <2>3 DEF RunInv, Collected, TakenOff, StillQueued
<1>3. CASE mode = "none" /\ Return
  BY <1>1, <1>3 DEF RunInv, Sorted, Collected, TakenOff, StillQueued, Return, txnVars
<1>4. ASSUME Idle, NEW t \in Txns, Process(t)
      PROVE  Sorted' /\ Collected' /\ TakenOff' /\ StillQueued'
  <2>1. /\ mode = "none" /\ status[t] = "pending"
        /\ \A u \in Txns \ {t} : status'[u] = status[u]
    BY <1>4, RunTypesOf DEF Idle, Process, Start, MoveTo, CanMove, TRANSITIONS, Statuses
  <2> QED BY <1>1, <2>1 DEF RunInv, Sorted, Collected, TakenOff, StillQueued
<1>5. CASE UNCHANGED <<status, cur>>
  BY <1>1, <1>5 DEF RunInv, Sorted, Collected, TakenOff, StillQueued
<1> QED BY <1>1, <1>2, <1>3, <1>4, <1>5
-----------------------------------------------------------------------------
\* Before anything is submitted.
LEMMA RunInvInit == RunInit => RunInv
<1> SUFFICES ASSUME RunInit PROVE RunInv
  OBVIOUS
<1>1. ProcInv /\ TypeOK
  BY InvInit DEF RunInit, ProcInv
<1>2. HeapsInv
  BY <1>1 DEF RunInit, HeapsInv, QueueTypeOK, NumbersUnique, EntriesKnown, QueuedLive, Entries,
              TypeOK, TxnTypeOK
<1>3. RunTypes /\ mode = "none" /\ report["pending"] = <<>>
  BY DEF RunInit, RunTypes, EmptyReport, Buckets
<1>4. Sorted /\ Collected /\ TakenOff
  BY <1>3 DEF Sorted, Collected, TakenOff
<1>5. StillQueued
  BY TransactionAssumption DEF RunInit, StillQueued
<1> QED BY <1>1, <1>2, <1>3, <1>4, <1>5 DEF RunInv

\* The invariant is inductive: one step of the proof per action of the run.
LEMMA RunInvStep == RunInv /\ [RunNext]_vars => RunInv'
<1> SUFFICES ASSUME RunInv, [RunNext]_vars PROVE RunInv'
  OBVIOUS
<1>1. ProcInv' /\ HeapsInv'
  BY RunKeepsProc, RunKeepsHeaps
<1>2. ASSUME NEW t \in Txns, Submit(t) PROVE RunInv'
  BY <1>1, <1>2, SubmitKeepsRun DEF RunInv
<1>3. ASSUME NEW id \in Ids, CancelWaiting(id) PROVE RunInv'
  BY <1>1, <1>3, CancelKeepsRun DEF RunInv
<1>4. CASE StartRun
  BY <1>1, <1>4, StartKeepsRun DEF RunInv
<1>5. CASE TakeNext
  BY <1>1, <1>5, TakeKeepsRun DEF RunInv
<1>6. CASE NoneLeft
  BY <1>1, <1>6, NoneLeftKeepsRun DEF RunInv
<1>7. CASE Sort
  BY <1>1, <1>7, SortKeepsRun DEF RunInv
<1>8. CASE PutBack
  BY <1>1, <1>8, PutBackKeepsRun DEF RunInv
<1>9. CASE AttemptStep \/ ReturnDirectly \/ \E t \in Txns : ProcessDirectly(t)
  BY <1>1, <1>9, RestKeepsRun
     DEF RunInv, AttemptStep, ReturnDirectly, ProcessDirectly
<1>10. CASE BetweenRuns \/ Passing \/ WaitForDue \/ UNCHANGED vars
  <2>1. UNCHANGED <<heapVars, runVars, status, cur>>
    BY <1>10 DEF BetweenRuns, Environment, Passing, ClockTick, WaitForDue, vars, procVars,
                 txnVars, attemptVars
  <2> QED BY <1>1, <2>1, RestKeepsRun DEF RunInv
<1> QED BY <1>2, <1>3, <1>4, <1>5, <1>6, <1>7, <1>8, <1>9, <1>10 DEF RunNext

\* The invariant holds whenever the processor and its queue have stopped between two
\* steps, in a run or outside.
THEOREM RunInvHolds == RunSpec => []RunInv
<1> QED BY RunInvInit, RunInvStep, PTL DEF RunSpec

\* The state of the processor, the queue, the clock and the report is well typed.
THEOREM RunTypesHold == RunSpec => []RunTypeOK
<1>1. RunInv => RunTypeOK
  BY RunTypesOf DEF RunTypes, RunTypeOK
<1> QED BY <1>1, RunInvHolds, PTL

\* What a run put aside for a retry always goes back: requeue() never refuses the
\* batch, and outside the runs no pending transaction is missing from the queue.
THEOREM RetriesAreKept == RunSpec => []NoRetryLost
<1>1. RunInv => NoRetryLost
  <2> SUFFICES ASSUME RunInv PROVE NoRetryLost
    OBVIOUS
  <2>1. ASSUME mode = "finally", NEW i \in DOMAIN report["pending"]
        PROVE  /\ Queueable(report["pending"][i])
               /\ known[IdOf[report["pending"][i]]] = report["pending"][i]
    <3>1. status[report["pending"][i]] = "pending"
      BY <2>1 DEF RunInv, Sorted, Buckets
    <3> QED BY <2>1, <3>1 DEF RunInv, Collected, Queueable
  <2>2. ASSUME mode = "finally",
               NEW i \in DOMAIN report["pending"], NEW j \in DOMAIN report["pending"],
               IdOf[report["pending"][i]] = IdOf[report["pending"][j]]
        PROVE  i = j
    <3>1. report["pending"][i] = report["pending"][j]
      BY <2>1, <2>2
    <3> QED BY <2>2, <3>1 DEF RunInv, Collected
  <2>3. ASSUME mode = "none", NEW t \in Txns, known[IdOf[t]] = t, status[t] = "pending"
        PROVE  queued[IdOf[t]] # 0
    BY <2>3 DEF RunInv, StillQueued
  <2> QED BY <2>1, <2>2, <2>3 DEF NoRetryLost
<1> QED BY <1>1, RunInvHolds, PTL

\* A run attempts no transaction twice: what it sorted is final, or collected and off
\* the queue until the run ends.
THEOREM RunsAttemptOnce == RunSpec => OneAttemptPerRun
<1>1. RunInv /\ [RunNext]_vars =>
        [mode = "loop" /\ handed' # handed /\ handed' # NoTxn =>
            \A b \in Buckets : \A i \in DOMAIN report[b] : report[b][i] # handed']_vars
  <2> SUFFICES ASSUME RunInv, [RunNext]_vars, mode = "loop", handed' # handed, handed' # NoTxn,
                      NEW b \in Buckets, NEW i \in DOMAIN report[b]
               PROVE  report[b][i] # handed'
    OBVIOUS
  <2>1. TakeNext
    BY DEF RunNext, Submit, ProcessDirectly, CancelWaiting, Idle, StartRun, NoneLeft, Sort, PutBack,
           AttemptStep, ReturnDirectly, BetweenRuns, Passing, WaitForDue, vars
  <2>2. status[handed'] = "pending" /\ queued[IdOf[handed']] # 0
    BY <2>1, NextReadyTakesOne DEF RunInv, TakeNext
  <2>3. status[report[b][i]] = b
    BY DEF RunInv, Sorted
  <2>4. b = "pending" => queued[IdOf[report[b][i]]] = 0
    BY DEF RunInv, Collected
  <2> QED BY <2>2, <2>3, <2>4
<1> QED BY <1>1, RunInvHolds, PTL DEF RunSpec, OneAttemptPerRun

\* The queue does not spoil what the processor promises, nor the processor the queue:
\* transfers stay atomic when they wait, are retried or cancelled in between, and a
\* queued id keeps its one live entry while its transaction is processed directly.
THEOREM RunsKeepPromises ==
  RunSpec => [](TransferAtomic /\ StatusTellsMoney /\ RollbackNeverRefused /\ OneLiveEntry)
<1>1. RunInv => TransferAtomic /\ StatusTellsMoney /\ RollbackNeverRefused /\ OneLiveEntry
  BY InvAtomic, InvStatus, InvRollback, HeapsLiveOnce DEF RunInv
<1> QED BY <1>1, RunInvHolds, PTL

-----------------------------------------------------------------------------
(***************************************************************************)
(* The promises of TransactionProcessor_promises, kept when the queue      *)
(* feeds the processor.                                                    *)
(***************************************************************************)
\* A step of the queue that is none of the processor's: the clock may jump, and of the
\* transactions only one that waits changes, when it is cancelled.
BesideAttempts ==
    /\ pc = "idle" /\ cur = NoTxn
    /\ UNCHANGED <<bankVars, historyVars, errors, collectedFees, attemptVars, attempts>>
    /\ \A t \in Txns : \/ status'[t] = status[t]
                       \/ /\ status[t] = "pending"
                          /\ status'[t] = "cancelled"

LEMMA CancelIsBeside ==
  ASSUME RunInv, NEW id \in Ids, CancelWaiting(id)
  PROVE  BesideAttempts
<1>1. /\ pc = "idle" /\ cur = NoTxn
      /\ UNCHANGED <<bankVars, historyVars, errors, collectedFees, attemptVars>>
  BY RunTypesOf DEF CancelWaiting, Idle
<1>2. known[id] \in Txns /\ (Cancel(known[id]) \/ UNCHANGED txnVars)
  BY CancelFacts DEF CancelWaiting, CancelQueued, RunInv
<1>3. ASSUME NEW t \in Txns, Cancel(t) PROVE BesideAttempts
  <2>1. status \in [Txns -> Statuses]
    BY RunTypesOf
  <2>2. /\ status[t] = "pending" /\ attempts' = attempts
        /\ status' = [status EXCEPT ![t] = "cancelled"]
    BY <1>3, <2>1 DEF Cancel, MoveTo, CanMove, TRANSITIONS, Statuses
  <2> QED BY <1>1, <2>1, <2>2 DEF BesideAttempts
<1>4. CASE UNCHANGED txnVars
  BY <1>1, <1>4 DEF BesideAttempts, txnVars
<1> QED BY <1>2, <1>3, <1>4

\* Every step with the queue is a step of the processor or one beside its attempts.
LEMMA RunSteps ==
  ASSUME RunInv, [RunNext]_vars
  PROVE  [ProcNext]_procVars \/ BesideAttempts
<1>1. ASSUME NEW t \in Txns, Submit(t) PROVE UNCHANGED procVars
  BY <1>1 DEF Submit, Add, procVars
<1>2. CASE StartRun \/ NoneLeft \/ PutBack \/ UNCHANGED vars
  BY <1>2 DEF StartRun, NoneLeft, PutBack, Requeue, procVars, vars
<1>3. ASSUME NEW t \in Txns, Process(t) PROVE ProcNext
  BY <1>3 DEF ProcNext
<1>4. CASE Attempt \/ Return \/ Environment \/ ClockTick
  BY <1>4 DEF ProcNext
<1>5. CASE WaitForDue
  BY <1>5, RunTypesOf DEF WaitForDue, BesideAttempts, txnVars
<1> QED BY <1>1, <1>2, <1>3, <1>4, <1>5, CancelIsBeside
        DEF RunNext, ProcessDirectly, TakeNext, Sort, AttemptStep, ReturnDirectly, BetweenRuns,
            Passing

\* Seen as transfers, a step beside the attempts is nothing.
LEMMA BesideMaps == ASSUME BesideAttempts PROVE UNCHANGED Atomic!vars
<1>1. UNCHANGED <<balance, claimed, withdrawals, refunds, deposits, cur, pc, before>>
  BY DEF BesideAttempts, bankVars, historyVars, attemptVars
<1>2. cur' = cur /\ Money' = Money
  BY <1>1 DEF Money, InFlight, Credits, Taken
<1>3. {t \in Txns : Moved(t)}' = {t \in Txns : Moved(t)}
  BY <1>1 DEF Moved, Holds, Credits, Debits
<1> QED BY <1>2, <1>3 DEF Atomic!vars

\* It leaves what is recorded of the transactions true.
LEMMA BesideKeepsRecords ==
  ASSUME BesideAttempts, OnlyHolderMoves, FloorKept, RecordedWhenFinal, ErrorsLogged
  PROVE  OnlyHolderMoves' /\ FloorKept' /\ RecordedWhenFinal' /\ ErrorsLogged'
<1>1. /\ UNCHANGED <<balance, accStatus, finished, claimed, withdrawals, refunds, deposits>>
      /\ UNCHANGED <<errors, attempts>>
  BY DEF BesideAttempts, bankVars, historyVars
<1>2. OnlyHolderMoves' /\ FloorKept'
  BY <1>1 DEF OnlyHolderMoves, FloorKept
<1>3. RecordedWhenFinal'
  <2>1. \A t \in Txns : Final(t)' <=> Final(t)
    BY DEF BesideAttempts, Final
  <2> QED BY <1>1, <2>1 DEF RecordedWhenFinal
<1>4. ASSUME NEW t \in Txns PROVE LoggedSoFar(t)' /\ Counted(t)'
  <2>1. LoggedSoFar(t) /\ Counted(t)
    BY DEF ErrorsLogged
  <2>2. CASE status'[t] = status[t]
    BY <1>1, <2>1, <2>2 DEF LoggedSoFar, Counted, Failures
  <2>3. CASE status[t] = "pending" /\ status'[t] = "cancelled"
    <3>1. Failures(t)' = Failures(t)
      BY <1>1, <2>3 DEF Failures
    <3>2. LoggedSoFar(t)'
      BY <1>1, <2>1, <2>3, <3>1 DEF LoggedSoFar
    <3>3. Counted(t)'
      BY <1>1, <2>1, <2>3 DEF Counted
    <3> QED BY <3>2, <3>3
  <2> QED BY <2>2, <2>3 DEF BesideAttempts
<1> QED BY <1>2, <1>3, <1>4 DEF ErrorsLogged

\* The processor implements AtomicTransfer also when the queue feeds it, whatever waits,
\* is cancelled or processed past it between two attempts of a transaction.
THEOREM RunsAreAtomicTransfers == RunSpec => ImplementsAtomicTransfer
<1>1. RunInit => ProcInit
  BY DEF RunInit
<1>2. RunInv => Seen
  BY InvMovedSeen, InvMoneySeen DEF Seen, RunInv
<1>3. RunInv /\ Seen /\ Seen' /\ [RunNext]_vars => [Atomic!Next]_(Atomic!vars)
  <2> SUFFICES ASSUME RunInv, Seen, Seen', [RunNext]_vars PROVE [Atomic!Next]_(Atomic!vars)
    OBVIOUS
  <2>1. CASE [ProcNext]_procVars
    BY <2>1, StepMaps
  <2>2. CASE BesideAttempts
    BY <2>2, BesideMaps
  <2> QED BY <2>1, <2>2, RunSteps
<1> QED BY <1>1, <1>2, <1>3, RunInvHolds, InitMaps, PTL
        DEF RunSpec, ImplementsAtomicTransfer, Atomic!Spec

\* Under runs too, movements stay with the holder of their id, open accounts above their
\* floor, and the history and the error log tell every outcome and every failure once,
\* those of transactions cancelled between two attempts included.
THEOREM RunsKeepRecords ==
  RunSpec => [](OnlyHolderMoves /\ FloorKept /\ HistoryComplete /\ ErrorLogComplete)
<1> DEFINE Records == OnlyHolderMoves /\ FloorKept /\ RecordedWhenFinal /\ ErrorsLogged
<1>1. RunInit => Records
  <2> SUFFICES ASSUME ProcInit PROVE Records
    BY DEF RunInit
  <2>1. /\ withdrawals = NoMovements /\ refunds = NoMovements /\ deposits = NoMovements
        /\ finished = <<>> /\ \A t \in Txns : status[t] = "pending"
    BY DEF ProcInit, TxnInit
  <2>2. OnlyHolderMoves
    BY <2>1 DEF OnlyHolderMoves, NoMovements
  <2>3. FloorKept
    BY ProcessorAssumption DEF ProcInit, FloorKept
  <2>4. RecordedWhenFinal
    BY <2>1 DEF RecordedWhenFinal, Final
  <2> QED BY <2>2, <2>3, <2>4, LogInit
<1>2. RunInv /\ Records /\ [RunNext]_vars => Records'
  <2> SUFFICES ASSUME RunInv, Records, [RunNext]_vars PROVE Records'
    OBVIOUS
  <2>1. CASE [ProcNext]_procVars
    BY <2>1, HolderStep, FloorStep, RecordStep, LogStep DEF RunInv
  <2>2. CASE BesideAttempts
    BY <2>2, BesideKeepsRecords
  <2> QED BY <2>1, <2>2, RunSteps
<1>3. RunInv /\ Records => OnlyHolderMoves /\ FloorKept /\ HistoryComplete /\ ErrorLogComplete
  BY RecordsAreComplete, ErrorsAreComplete DEF RunInv
<1> QED BY <1>1, <1>2, <1>3, RunInvHolds, PTL DEF RunSpec

\* A retry of a run lies in the future, out of the night that refused the attempt.
THEOREM RunsScheduleRetries == RunSpec => RetryScheduled
<1>1. RunInv /\ [RunNext]_vars
        => [\A t \in Txns : status[t] = "processing" /\ status'[t] = "pending" =>
              /\ scheduledAt'[t] > now
              /\ err = "night" /\ IsNight(now) =>
                    /\ \A m \in now .. scheduledAt'[t] - 1 : IsNight(m)
                    /\ ~IsNight(scheduledAt'[t])]_procVars
  <2> SUFFICES ASSUME RunInv, [RunNext]_vars, NEW t \in Txns,
                      status[t] = "processing", status'[t] = "pending"
               PROVE  /\ scheduledAt'[t] > now
                      /\ err = "night" /\ IsNight(now) =>
                            /\ \A m \in now .. scheduledAt'[t] - 1 : IsNight(m)
                            /\ ~IsNight(scheduledAt'[t])
    OBVIOUS
  <2>1. ~BesideAttempts
    BY DEF BesideAttempts
  <2> QED BY <2>1, RunSteps, RetryStep DEF RunInv
<1> QED BY <1>1, RunInvHolds, PTL DEF RunSpec, RetryScheduled
=============================================================================
