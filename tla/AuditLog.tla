------------------------------- MODULE AuditLog -------------------------------
(***************************************************************************)
(* services/audit_log.py: the journal in memory and in its JSON Lines      *)
(* file.  A write may fail, and the process may stop in the middle of one, *)
(* with none, some or all of the line in the file.  Events are numbered in *)
(* the order record() was called; what matters of the text of a line is    *)
(* which events it holds, and how much of each.                            *)
(***************************************************************************)
EXTENDS Naturals, Sequences, SequencesExt

CONSTANTS MaxEvents,     \* bound: calls of record()
          MaxRestarts    \* bound: times the program starts again

ASSUME AuditAssumption == MaxEvents \in Nat /\ MaxRestarts \in Nat

VARIABLES lines,         \* the file's ended lines, each a sequence of pieces
          tail,          \* pieces after the last newline
          memory,        \* events of this run
          kept,          \* events record() returned, in all runs
          calls,         \* calls of record() so far
          restarts

auditVars == <<lines, tail, memory, kept, calls, restarts>>

Piece(e, whole) == [event |-> e, whole |-> whole]

AuditInit == /\ lines = <<>> /\ tail = <<>>
             /\ memory = <<>> /\ kept = <<>>
             /\ calls = 0 /\ restarts = 0

WriteLine(e) == /\ lines' = Append(lines, Append(tail, Piece(e, TRUE)))
                /\ tail' = <<>>

\* what a write that does not end well leaves: nothing, a piece of the event,
\* all of it but the newline, or the whole line
WriteCut(e) == \/ UNCHANGED <<lines, tail>>
               \/ \E whole \in BOOLEAN : /\ tail' = Append(tail, Piece(e, whole))
                                         /\ UNCHANGED lines
               \/ WriteLine(e)

\* record(): the file first, then the memory
Record == /\ calls < MaxEvents
          /\ calls' = calls + 1
          /\ WriteLine(calls')
          /\ memory' = Append(memory, calls')
          /\ kept' = Append(kept, calls')
          /\ UNCHANGED restarts

\* faulty variant of RecordFailing: the memory first
RecordFailingLate == /\ calls < MaxEvents
                     /\ calls' = calls + 1
                     /\ WriteCut(calls')
                     /\ memory' = Append(memory, calls')
                     /\ UNCHANGED <<kept, restarts>>

\* record(), the write raising an OSError
RecordFailing == /\ calls < MaxEvents
                 /\ calls' = calls + 1
                 /\ WriteCut(calls')
                 /\ UNCHANGED <<memory, kept, restarts>>

\* faulty variant of Restart: the file is opened anew for the run
RestartRewriting == /\ restarts < MaxRestarts
                    /\ restarts' = restarts + 1
                    /\ memory' = <<>>
                    /\ lines' = <<>> /\ tail' = <<>>
                    /\ UNCHANGED <<kept, calls>>

\* the process stops, perhaps within record(), and is started again
Restart == /\ restarts < MaxRestarts
           /\ restarts' = restarts + 1
           /\ memory' = <<>>
           /\ UNCHANGED kept
           /\ \/ UNCHANGED <<lines, tail, calls>>
              \/ /\ calls < MaxEvents
                 /\ calls' = calls + 1
                 /\ WriteCut(calls')

AuditNext == Record \/ RecordFailing \/ Restart

AuditSpec == AuditInit /\ [][AuditNext]_auditVars
-----------------------------------------------------------------------------
\* load_events(): every line that is not blank has to be one whole event
Valid(line) == Len(line) = 1 /\ line[1].whole
FileLines == IF tail = <<>> THEN lines ELSE Append(lines, tail)

\* faulty variant of Readable: lines that cannot be parsed are skipped
ReadableAlways == TRUE

Readable == \A i \in DOMAIN FileLines : Valid(FileLines[i])
\* the events it returns, by the line they stand in
Loaded == [i \in {j \in DOMAIN FileLines : Valid(FileLines[j])} |-> FileLines[i][1].event]

Holds(line, e) == \E j \in DOMAIN line : line[j] = Piece(e, TRUE)

\* Type invariant of the journal; memory holds what record() returned in this run.
AuditTypeOK == /\ lines \in Seq(Seq([event : 1 .. calls, whole : BOOLEAN]))
               /\ tail \in Seq([event : 1 .. calls, whole : BOOLEAN])
               /\ kept \in Seq(1 .. calls)
               /\ IsSuffix(memory, kept)

\* What record() returned is in the file, in the order it was kept in, whatever
\* writes failed around it and however often the process stopped: memory never
\* has an event the file lacks, and the file is never rewritten.
MemoryInFile ==
    \A i \in DOMAIN kept :
        \E k \in DOMAIN lines :
            /\ Last(lines[k]) = Piece(kept[i], TRUE)
            /\ \A j \in 1 .. i - 1 : \E m \in 1 .. k - 1 : Holds(lines[m], kept[j])

\* A damaged file is reported, not half-read: when load_events() returns, it
\* returns every event that record() did, in order, besides only events whose
\* write was cut off, and none twice.
NeverHalfRead ==
    Readable => /\ \A i \in DOMAIN kept :
                      \E k \in DOMAIN Loaded :
                          /\ Loaded[k] = kept[i]
                          /\ \A j \in 1 .. i - 1 : \E m \in DOMAIN Loaded : m < k /\ Loaded[m] = kept[j]
                /\ IsInjective(Loaded)

\* Nothing that was recorded is lost: it has a line of the file to itself.
NothingLost == \A i \in DOMAIN kept : <<Piece(kept[i], TRUE)>> \in ToSet(lines)
=============================================================================
