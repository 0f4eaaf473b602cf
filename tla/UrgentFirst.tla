----------------------------- MODULE UrgentFirst -----------------------------
(***************************************************************************)
(* What the transaction queue promises: every transaction waits at most    *)
(* once; whoever asks gets the most urgent one that is due (the one that   *)
(* arrived first among equals), and gets nothing only when none is due.    *)
(* There are no heaps here and nothing stale.  Every answer is a step of   *)
(* its own, an answer equal to the last one too: the parity of the         *)
(* requests tells it from a stutter.                                       *)
(***************************************************************************)
EXTENDS Integers, FiniteSets

CONSTANTS Txns, NoTxn, Priority

VARIABLES now,
          waiting,   \* records: a transaction, its rank of arrival, its due moment
          result,    \* what the last request was answered with, until it is taken up
          requests   \* the requests answered so far, modulo 2

vars == <<now, waiting, result, requests>>

Due(m) == {w \in waiting : w.due <= m}

Precedes(v, w) == \/ Priority[v.txn] > Priority[w.txn]
                  \/ Priority[v.txn] = Priority[w.txn] /\ v.rank < w.rank

Init == now \in Nat /\ waiting = {} /\ result = NoTxn /\ requests = 0

Arrive == /\ waiting \subseteq waiting'
          /\ \A v \in waiting' \ waiting :
                /\ \A w \in waiting : w.rank < v.rank /\ w.txn # v.txn
                /\ \A w \in waiting' \ {v} : w.rank # v.rank /\ w.txn # v.txn
          /\ UNCHANGED <<now, result, requests>>

Leave == /\ \E w \in waiting : waiting' = waiting \ {w}
         /\ UNCHANGED <<now, result, requests>>

Take == \E w \in Due(now) :
           /\ \A v \in Due(now) \ {w} : Precedes(w, v)
           /\ waiting' = waiting \ {w}
           /\ result' = w.txn
           /\ requests' = 1 - requests
           /\ UNCHANGED now

TakeNothing == /\ Due(now) = {}
               /\ result' = NoTxn
               /\ requests' = 1 - requests
               /\ UNCHANGED <<now, waiting>>

\* whoever got a transaction takes it up
Accept == /\ result # NoTxn
          /\ result' = NoTxn
          /\ UNCHANGED <<now, waiting, requests>>

Pass == /\ now' > now
        /\ UNCHANGED <<waiting, result, requests>>

Next == Arrive \/ Leave \/ Take \/ TakeNothing \/ Accept \/ Pass

Spec == Init /\ [][Next]_vars
=============================================================================
