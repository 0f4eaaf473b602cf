----------------------------- MODULE ReportFiles -----------------------------
(***************************************************************************)
(* The files of the reports: _write() and _write_all() of                  *)
(* reporting/builder.py, run at once by several processes that export a    *)
(* report of one kind in one format within one second: one stem, so the    *)
(* same names.  The directory outlives a process, whatever ended it.       *)
(*                                                                         *)
(* A file is <<n, part>>; its name is the stem for n = 1, "stem-n" for a   *)
(* later attempt n.                                                        *)
(***************************************************************************)
EXTENDS Integers, SequencesExt, FiniteSets

CONSTANTS Calls,
          Parts,        \* call -> the parts of its report
          Order,        \* the parts a report of the kind can have, in its order
          MaxName       \* bound: the last attempt

ASSUME FilesAssumption ==
    /\ IsFiniteSet(Calls)
    /\ Parts \in [Calls -> Seq(ToSet(Order)) \ {<<>>}]
    /\ \A c \in Calls : \E kept \in SUBSET ToSet(Order) \ {{}} :
                          Parts[c] = SelectSeq(Order, LAMBDA p : p \in kept)
    /\ MaxName \in Nat /\ MaxName > Cardinality(Calls)

VARIABLES disk,         \* file -> the call that created it, and whether it is whole
          attempt,      \* attempt, which gives the name
          state,        \* where a call is in its loop
          checked,      \* how many names it has checked,
          written,      \*   opened,
          unlinked      \*   and unlinked again in this attempt

filesVars == <<disk, attempt, state, checked, written, unlinked>>

File(c, k) == <<attempt[c], Parts[c][k]>>
FilesOf(c) == {File(c, k) : k \in DOMAIN Parts[c]}

\* the disk with a file as call c leaves it, and without a file
With(file, c, whole) == [f \in DOMAIN disk \cup {file} |->
                           IF f = file THEN [by |-> c, whole |-> whole] ELSE disk[f]]
Without(file) == [f \in DOMAIN disk \ {file} |-> disk[f]]

FilesInit == /\ disk = [f \in {} |-> {}]
             /\ attempt = [c \in Calls |-> 1]
             /\ state = [c \in Calls |-> "checking"]
             /\ checked = [c \in Calls |-> 0]
             /\ written = [c \in Calls |-> 0]
             /\ unlinked = [c \in Calls |-> 0]

Moves(c, from, to) == state[c] = from /\ state' = [state EXCEPT ![c] = to]

\* faulty variant of NextAttempt: the name stays
SameAttempt(c) == attempt

NextAttempt(c) == [attempt EXCEPT ![c] = @ + 1]

\* the name is taken: the next one is tried, from the beginning
NextName(c) == /\ attempt[c] < MaxName
               /\ attempt' = NextAttempt(c)
               /\ checked' = [checked EXCEPT ![c] = 0]
               /\ written' = [written EXCEPT ![c] = 0]
               /\ unlinked' = [unlinked EXCEPT ![c] = 0]

\* path.exists(), part after part, up to one that does
Look(c) ==
    LET file == File(c, checked[c] + 1)
    IN  /\ state[c] = "checking"
        /\ UNCHANGED disk
        /\ \/ file \in DOMAIN disk /\ Moves(c, "checking", "checking") /\ NextName(c)
           \/ /\ file \notin DOMAIN disk
              /\ Moves(c, "checking", IF checked[c] + 1 < Len(Parts[c]) THEN "checking" ELSE "opening")
              /\ checked' = [checked EXCEPT ![c] = @ + 1]
              /\ UNCHANGED <<attempt, written, unlinked>>

\* open("xb"): creates the file, empty, unless it is there
Open(c) ==
    LET file == File(c, written[c] + 1)
    IN  /\ state[c] = "opening"
        /\ \/ /\ file \notin DOMAIN disk
              /\ Moves(c, "opening", "filling")
              /\ disk' = With(file, c, FALSE)
              /\ written' = [written EXCEPT ![c] = @ + 1]
           \/ /\ file \in DOMAIN disk
              /\ Moves(c, "opening", "removing")
              /\ UNCHANGED <<disk, written>>
        /\ UNCHANGED <<attempt, checked, unlinked>>

\* write() and close(); after the last part the call returns the paths
Fill(c) ==
    /\ Moves(c, "filling", IF written[c] < Len(Parts[c]) THEN "opening" ELSE "returned")
    /\ disk' = With(File(c, written[c]), c, TRUE)
    /\ UNCHANGED <<attempt, checked, written, unlinked>>

\* faulty variant of ToUnlink: a path is noted before it is opened
ToUnlinkNotedFirst(c) == written[c] + 1

\* how many paths of the attempt are noted in `written`
ToUnlink(c) == written[c]

Unlink(c) ==
    \/ /\ unlinked[c] < ToUnlink(c)
       /\ Moves(c, "removing", "removing")
       /\ disk' = Without(File(c, unlinked[c] + 1))
       /\ unlinked' = [unlinked EXCEPT ![c] = @ + 1]
       /\ UNCHANGED <<attempt, checked, written>>
    \/ /\ unlinked[c] = ToUnlink(c)
       /\ Moves(c, "removing", "checking")
       /\ NextName(c)
       /\ UNCHANGED disk

\* an OSError (a full disk) or the end of the process: what is there stays there
Break(c) ==
    /\ \E from \in {"checking", "opening", "filling", "removing"} : Moves(c, from, "broken")
    /\ UNCHANGED <<disk, attempt, checked, written, unlinked>>

\* the loop of _write()
Write(c) == Look(c) \/ Open(c) \/ Fill(c) \/ Unlink(c)

FilesNext == \E c \in Calls : Write(c) \/ Break(c)

\* a process that lives gets on with its call
FilesSpec == FilesInit /\ [][FilesNext]_filesVars /\ \A c \in Calls : WF_filesVars(Write(c))
-----------------------------------------------------------------------------
(***************************************************************************)
(* Properties.                                                             *)
(***************************************************************************)
\* What the directory holds of the calls that have ended.
Ended == {"returned", "broken"}

Directory == INSTANCE ReportDirectory WITH
               Names <- 1 .. MaxName,
               PartsOf <- [c \in Calls |-> ToSet(Parts[c])],
               files <- [f \in {g \in DOMAIN disk : state[disk[g].by] \in Ended} |-> disk[f]],
               outcome <- [c \in Calls |-> IF state[c] \in Ended THEN state[c] ELSE "open"]

\* A call that returns has put all its files there, whole, its own and under one
\* name, and they stay, though others write, give up and break off under the same
\* names all the while; and not even a call that breaks off leaves files under more
\* than one name, or on those of another.
ImplementsDirectory == Directory!Spec

\* Every call ends: calls that keep taking each other's names cannot do so for
\* ever, as all take the parts in one order, and none has to try more names than
\* there are calls.
EveryCallEnds ==
    \A c \in Calls : <>(state[c] \in {"returned", "broken"} /\ attempt[c] <= Cardinality(Calls))
=============================================================================
