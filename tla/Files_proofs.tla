------------------------------ MODULE Files_proofs ------------------------------
(***************************************************************************)
(* Proofs about what the bank leaves on the disk: AuditLog, for any number *)
(* of events and restarts, however writes are cut off; and ReportFiles,    *)
(* for any calls and parts.                                                *)
(***************************************************************************)
EXTENDS AuditLog, ReportFiles, SequenceTheorems, FiniteSetTheorems, TLAPS

(***************************************************************************)
(* AuditLog: the types, that the file has everything record() returned,    *)
(* and that reading it back gives all of that or nothing.                  *)
(***************************************************************************)
Pieces == [event : Nat \ {0}, whole : BOOLEAN]

\* What is a suffix, element by element from the end.
LEMMA SuffixFacts ==
  ASSUME NEW S, NEW s \in Seq(S), NEW t \in Seq(S)
  PROVE  IsSuffix(s, t) <=> /\ Len(s) <= Len(t)
                            /\ \A i \in 1 .. Len(s) : s[i] = t[Len(t) - Len(s) + i]
<1> DEFINE n == Len(s)  m == Len(t)  r == Reverse(s)  q == Reverse(t)
<1>1. n \in Nat /\ m \in Nat
  OBVIOUS
<1>2. r = [i \in 1 .. n |-> s[n - i + 1]] /\ q = [i \in 1 .. m |-> t[m - i + 1]]
  BY DEF Reverse
<1>3. /\ r \in Seq(S) /\ Len(r) = n /\ q \in Seq(S) /\ Len(q) = m
  BY <1>1, <1>2
<1>4. IsSuffix(s, t) <=> n <= m /\ SubSeq(r, 1, n) = SubSeq(q, 1, n)
  BY <1>3 DEF IsSuffix, IsPrefix
<1>5. CASE n <= m
  <2>1. /\ SubSeq(r, 1, n) = [i \in 1 .. n |-> r[i]]
        /\ SubSeq(q, 1, n) = [i \in 1 .. n |-> q[i]]
    BY <1>1, <1>3, <1>5
  <2>2. SubSeq(r, 1, n) = SubSeq(q, 1, n) <=> \A i \in 1 .. n : r[i] = q[i]
    BY <2>1
  <2>3. \A i \in 1 .. n : r[i] = s[n - i + 1] /\ q[i] = t[m - i + 1]
    BY <1>1, <1>2, <1>5
  <2>4. \A i \in 1 .. n : /\ n - i + 1 \in 1 .. n /\ n - (n - i + 1) + 1 = i
                          /\ m - n + (n - i + 1) = m - i + 1 /\ m - (n - i + 1) + 1 = m - n + i
    BY <1>1, <1>5
  <2>5. (\A i \in 1 .. n : s[n - i + 1] = t[m - i + 1])
          <=> \A i \in 1 .. n : s[i] = t[m - n + i]
    BY <2>4
  <2> QED BY <1>4, <1>5, <2>2, <2>3, <2>5
<1> QED BY <1>4, <1>5

\* What both get at their ends keeps one a suffix of the other.
LEMMA SuffixGrows ==
  ASSUME NEW S, NEW s \in Seq(S), NEW t \in Seq(S), NEW e \in S, IsSuffix(s, t)
  PROVE  IsSuffix(Append(s, e), Append(t, e))
<1>1. /\ Append(s, e) \in Seq(S) /\ Len(Append(s, e)) = Len(s) + 1
      /\ Append(t, e) \in Seq(S) /\ Len(Append(t, e)) = Len(t) + 1
      /\ Len(s) \in Nat /\ Len(t) \in Nat
  OBVIOUS
<1>2. Len(s) <= Len(t) /\ \A i \in 1 .. Len(s) : s[i] = t[Len(t) - Len(s) + i]
  BY SuffixFacts
<1>3. ASSUME NEW i \in 1 .. Len(s) + 1
      PROVE  Append(s, e)[i] = Append(t, e)[(Len(t) + 1) - (Len(s) + 1) + i]
  <2>1. CASE i = Len(s) + 1
    BY <1>1, <2>1
  <2>2. CASE i \in 1 .. Len(s)
    <3>1. Len(t) - Len(s) + i \in 1 .. Len(t) /\ (Len(t) + 1) - (Len(s) + 1) + i = Len(t) - Len(s) + i
      BY <1>1, <1>2, <2>2
    <3> QED BY <1>1, <1>2, <2>2, <3>1
  <2>3. i = Len(s) + 1 \/ i \in 1 .. Len(s)
    BY <1>1
  <2> QED BY <2>1, <2>2, <2>3
<1>4. Len(s) + 1 <= Len(t) + 1
  BY <1>1, <1>2
<1> QED BY <1>1, <1>3, <1>4, SuffixFacts

LEMMA NothingIsSuffix == ASSUME NEW S, NEW t \in Seq(S) PROVE IsSuffix(<<>>, t)
<1>1. <<>> \in Seq(S) /\ Len(<<>>) = 0 /\ Len(t) \in Nat
  OBVIOUS
<1>2. PICK s \in Seq(S) : s = <<>>
  BY <1>1
<1>3. Len(s) <= Len(t) /\ \A i \in 1 .. Len(s) : FALSE
  BY <1>1, <1>2
<1>4. IsSuffix(s, t)
  BY <1>3, SuffixFacts
<1> QED BY <1>2, <1>4
-----------------------------------------------------------------------------
(***************************************************************************)
(* The inductive invariant.                                                *)
(***************************************************************************)
\* The types, of events by their numbers.
AuditTypes ==
    /\ calls \in Nat
    /\ lines \in Seq(Seq([event : 1 .. calls, whole : BOOLEAN]))
    /\ tail \in Seq([event : 1 .. calls, whole : BOOLEAN])
    /\ kept \in Seq(1 .. calls) /\ memory \in Seq(Nat)
    /\ IsSuffix(memory, kept)

\* No line is empty, and no event of a line was recorded before one of a line above.
FileOrdered ==
    /\ \A k \in DOMAIN lines : lines[k] # <<>>
    /\ \A k, m \in DOMAIN lines : k < m =>
          \A i \in DOMAIN lines[k], j \in DOMAIN lines[m] : lines[k][i].event < lines[m][j].event
    /\ \A k \in DOMAIN lines : \A i \in DOMAIN lines[k], j \in DOMAIN tail :
          lines[k][i].event < tail[j].event

AuditInv == AuditTypes /\ FileOrdered /\ MemoryInFile

\* More calls of record() leave what has a type with it.
LEMMA TypesGrow ==
  ASSUME NEW n \in Nat
  PROVE  /\ \A p \in [event : 1 .. n, whole : BOOLEAN] : p \in [event : 1 .. n + 1, whole : BOOLEAN]
         /\ \A s \in Seq([event : 1 .. n, whole : BOOLEAN]) : s \in Seq([event : 1 .. n + 1, whole : BOOLEAN])
         /\ \A s \in Seq(Seq([event : 1 .. n, whole : BOOLEAN])) :
               s \in Seq(Seq([event : 1 .. n + 1, whole : BOOLEAN]))
         /\ \A s \in Seq(1 .. n) : s \in Seq(1 .. n + 1) /\ s \in Seq(Nat)
         /\ \A w \in BOOLEAN : Piece(n + 1, w) \in [event : 1 .. n + 1, whole : BOOLEAN]
<1>1. 1 .. n \subseteq 1 .. n + 1 /\ 1 .. n \subseteq Nat /\ n + 1 \in 1 .. n + 1
  OBVIOUS
<1>2. \A p \in [event : 1 .. n, whole : BOOLEAN] : p \in [event : 1 .. n + 1, whole : BOOLEAN]
  BY <1>1
<1>3. \A s \in Seq([event : 1 .. n, whole : BOOLEAN]) : s \in Seq([event : 1 .. n + 1, whole : BOOLEAN])
  BY <1>2, SeqMonotonic
<1>4. \A s \in Seq(Seq([event : 1 .. n, whole : BOOLEAN])) :
         s \in Seq(Seq([event : 1 .. n + 1, whole : BOOLEAN]))
  BY <1>3, SeqMonotonic
<1>5. \A s \in Seq(1 .. n) : s \in Seq(1 .. n + 1) /\ s \in Seq(Nat)
  BY <1>1
<1> QED BY <1>1, <1>2, <1>3, <1>4, <1>5 DEF Piece

\* The file's types and order.
FileOK(n) == /\ lines \in Seq(Seq([event : 1 .. n, whole : BOOLEAN]))
             /\ tail \in Seq([event : 1 .. n, whole : BOOLEAN])
             /\ FileOrdered

\* No line that ended is changed.
LinesStay == \A k \in DOMAIN lines : k \in DOMAIN lines' /\ lines'[k] = lines[k]

\* The events of the file are those of the calls so far.
LEMMA EventsOfFile ==
  ASSUME NEW n \in Nat, FileOK(n)
  PROVE  /\ \A k \in DOMAIN lines : \A i \in DOMAIN lines[k] : lines[k][i].event \in 1 .. n
         /\ \A j \in DOMAIN tail : tail[j].event \in 1 .. n
<1> DEFINE P == [event : 1 .. n, whole : BOOLEAN]
<1>1. lines \in Seq(Seq(P)) /\ tail \in Seq(P)
  BY DEF FileOK
<1>2. \A p \in P : p.event \in 1 .. n
  OBVIOUS
<1> HIDE DEF P
<1>3. \A k \in DOMAIN lines : lines[k] \in Seq(P)
  BY <1>1
<1>4. \A s \in Seq(P) : \A i \in DOMAIN s : s[i] \in P
  OBVIOUS
<1> QED BY <1>1, <1>2, <1>3, <1>4

\* A line that is written to its end.
LEMMA LineWritten ==
  ASSUME NEW n \in Nat, FileOK(n), WriteLine(n + 1)
  PROVE  /\ FileOK(n + 1)' /\ LinesStay
         /\ Len(lines) + 1 \in DOMAIN lines'
         /\ Last(lines'[Len(lines) + 1]) = Piece(n + 1, TRUE)
<1> DEFINE P == [event : 1 .. n + 1, whole : BOOLEAN]
<1> DEFINE q == Piece(n + 1, TRUE)
<1> DEFINE last == Append(tail, q)
<1>1. lines \in Seq(Seq(P)) /\ tail \in Seq(P) /\ q \in P /\ q.event = n + 1
  BY TypesGrow DEF FileOK, Piece
<1>2. /\ last \in Seq(P) /\ Len(last) = Len(tail) + 1 /\ last # <<>>
      /\ last[Len(last)] = q /\ \A i \in DOMAIN tail : last[i] = tail[i]
      /\ DOMAIN last = DOMAIN tail \cup {Len(tail) + 1} /\ Len(tail) \in Nat
  <2> HIDE DEF P, q
  <2> QED BY <1>1
<1>3. lines' = Append(lines, last) /\ tail' = <<>>
  BY DEF WriteLine
<1> HIDE DEF P, last
<1>4. lines' \in Seq(Seq(P)) /\ tail' \in Seq(P)
  BY <1>1, <1>2, <1>3
<1>5. /\ DOMAIN lines' = 1 .. Len(lines) + 1 /\ DOMAIN lines = 1 .. Len(lines) /\ Len(lines) \in Nat
      /\ lines'[Len(lines) + 1] = last /\ \A k \in DOMAIN lines : lines'[k] = lines[k]
  BY <1>1, <1>2, <1>3
<1>6. /\ \A k \in DOMAIN lines : \A i \in DOMAIN lines[k] : lines[k][i].event \in 1 .. n
      /\ \A j \in DOMAIN tail : tail[j].event \in 1 .. n
  BY EventsOfFile
<1>7. \A k \in DOMAIN lines : \A i \in DOMAIN lines[k], j \in DOMAIN last :
         lines[k][i].event < last[j].event
  <2> SUFFICES ASSUME NEW k \in DOMAIN lines, NEW i \in DOMAIN lines[k], NEW j \in DOMAIN last
               PROVE  lines[k][i].event < last[j].event
    OBVIOUS
  <2>1. CASE j \in DOMAIN tail
    <3>1. lines[k][i].event < tail[j].event
      BY <2>1 DEF FileOK, FileOrdered
    <3> QED BY <1>2, <2>1, <3>1
  <2>2. CASE j = Len(last)
    <3>1. last[j].event = n + 1 /\ lines[k][i].event \in 1 .. n
      BY <1>1, <1>2, <1>6, <2>2
    <3> QED BY <3>1
  <2> QED BY <1>2, <2>1, <2>2
<1>8. FileOrdered'
  <2>1. \A k \in DOMAIN lines' : lines'[k] # <<>>
    <3>1. \A k \in DOMAIN lines : lines[k] # <<>>
      BY DEF FileOK, FileOrdered
    <3>2. \A k \in DOMAIN lines' : k \in DOMAIN lines \/ k = Len(lines) + 1
      BY <1>5
    <3> QED BY <1>2, <1>5, <3>1, <3>2
  <2>2. ASSUME NEW k \in DOMAIN lines', NEW m \in DOMAIN lines', k < m,
               NEW i \in DOMAIN lines'[k], NEW j \in DOMAIN lines'[m]
        PROVE  lines'[k][i].event < lines'[m][j].event
    <3>1. k \in DOMAIN lines /\ lines'[k] = lines[k]
      BY <1>5, <2>2
    <3>2. CASE m \in DOMAIN lines
      BY <1>5, <2>2, <3>1, <3>2 DEF FileOK, FileOrdered
    <3>3. CASE m = Len(lines) + 1
      BY <1>5, <1>7, <2>2, <3>1, <3>3
    <3> QED BY <1>5, <3>2, <3>3
  <2>3. DOMAIN tail' = {}
    BY <1>3
  <2> QED BY <2>1, <2>2, <2>3 DEF FileOrdered
<1>9. Last(last) = q
  BY <1>2 DEF Last
<1> QED BY <1>4, <1>5, <1>8, <1>9 DEF FileOK, LinesStay, P

\* A line that may be cut off.
LEMMA LineCut ==
  ASSUME NEW n \in Nat, FileOK(n), WriteCut(n + 1)
  PROVE  FileOK(n + 1)' /\ LinesStay
<1> DEFINE P == [event : 1 .. n + 1, whole : BOOLEAN]
<1>1. lines \in Seq(Seq(P)) /\ tail \in Seq(P)
  BY TypesGrow DEF FileOK
<1>2. CASE UNCHANGED <<lines, tail>>
  BY <1>1, <1>2 DEF FileOK, FileOrdered, LinesStay
<1>3. ASSUME NEW whole \in BOOLEAN, tail' = Append(tail, Piece(n + 1, whole)), lines' = lines
      PROVE  FileOK(n + 1)' /\ LinesStay
  <2>1. Piece(n + 1, whole) \in P /\ Piece(n + 1, whole).event = n + 1
    BY TypesGrow DEF Piece
  <2> HIDE DEF P
  <2>2. /\ tail' \in Seq(P) /\ DOMAIN tail' = DOMAIN tail \cup {Len(tail) + 1}
        /\ tail'[Len(tail) + 1] = Piece(n + 1, whole)
        /\ \A i \in DOMAIN tail : tail'[i] = tail[i]
    BY <1>1, <1>3, <2>1
  <2>3. \A k \in DOMAIN lines : \A i \in DOMAIN lines[k], j \in DOMAIN tail' :
           lines[k][i].event < tail'[j].event
    <3> SUFFICES ASSUME NEW k \in DOMAIN lines, NEW i \in DOMAIN lines[k], NEW j \in DOMAIN tail'
                 PROVE  lines[k][i].event < tail'[j].event
      OBVIOUS
    <3>1. CASE j \in DOMAIN tail
      BY <2>2, <3>1 DEF FileOK, FileOrdered
    <3>2. CASE j = Len(tail) + 1
      <4>1. lines[k][i].event \in 1 .. n /\ tail'[j].event = n + 1
        BY <2>1, <2>2, <3>2, EventsOfFile
      <4> QED BY <4>1
    <3> QED BY <2>2, <3>1, <3>2
  <2>4. FileOrdered'
    <3>1. /\ \A k \in DOMAIN lines : lines[k] # <<>>
          /\ \A k, m \in DOMAIN lines : k < m =>
                \A i \in DOMAIN lines[k], j \in DOMAIN lines[m] : lines[k][i].event < lines[m][j].event
      BY DEF FileOK, FileOrdered
    <3> QED BY <1>3, <2>3, <3>1 DEF FileOrdered
  <2>5. lines' \in Seq(Seq(P)) /\ tail' \in Seq(P) /\ LinesStay
    BY <1>1, <1>3, <2>2 DEF LinesStay
  <2> QED BY <2>4, <2>5 DEF FileOK, P
<1>4. CASE WriteLine(n + 1)
  BY <1>4, LineWritten
<1> QED BY <1>2, <1>3, <1>4 DEF WriteCut

\* What was in the file stays there.
LEMMA MemoryStays ==
  ASSUME AuditInv, LinesStay, kept' = kept
  PROVE  MemoryInFile'
<1>1. \A k \in DOMAIN lines : DOMAIN lines = 1 .. Len(lines) /\ Len(lines) \in Nat
  BY DEF AuditInv, AuditTypes
<1> SUFFICES ASSUME NEW i \in DOMAIN kept
             PROVE  \E k \in DOMAIN lines' :
                      /\ Last(lines'[k]) = Piece(kept[i], TRUE)
                      /\ \A j \in 1 .. i - 1 : \E m \in 1 .. k - 1 : Holds(lines'[m], kept[j])
  BY DEF MemoryInFile
<1>2. PICK k \in DOMAIN lines :
         /\ Last(lines[k]) = Piece(kept[i], TRUE)
         /\ \A j \in 1 .. i - 1 : \E m \in 1 .. k - 1 : Holds(lines[m], kept[j])
  BY DEF AuditInv, MemoryInFile
<1>3. \A m \in 1 .. k - 1 : m \in DOMAIN lines
  BY <1>1
<1> QED BY <1>2, <1>3 DEF LinesStay

LEMMA AuditInitInv == AuditInit => AuditInv
<1> SUFFICES ASSUME AuditInit PROVE AuditInv
  OBVIOUS
<1>1. /\ calls = 0 /\ lines = <<>> /\ tail = <<>> /\ memory = <<>> /\ kept = <<>>
      /\ DOMAIN <<>> = {}
  BY DEF AuditInit
<1>2. \A S : <<>> \in Seq(S)
  BY EmptySeq
<1>3. IsSuffix(memory, kept)
  BY <1>1, <1>2, NothingIsSuffix
<1>4. AuditTypes
  BY <1>1, <1>2, <1>3 DEF AuditTypes
<1> QED BY <1>1, <1>4 DEF AuditInv, FileOrdered, MemoryInFile

LEMMA AuditStep == AuditInv /\ [AuditNext]_auditVars => AuditInv'
<1> SUFFICES ASSUME AuditInv, [AuditNext]_auditVars PROVE AuditInv'
  OBVIOUS
<1>1. PICK c \in Nat : c = calls
  BY DEF AuditInv, AuditTypes
<1>2. /\ FileOK(c) /\ kept \in Seq(1 .. c) /\ kept \in Seq(Nat)
      /\ memory \in Seq(Nat) /\ IsSuffix(memory, kept)
  <2>1. /\ FileOK(c) /\ kept \in Seq(1 .. c)
        /\ memory \in Seq(Nat) /\ IsSuffix(memory, kept)
    BY <1>1 DEF AuditInv, AuditTypes, FileOK
  <2> QED BY <2>1, TypesGrow
<1>3. ASSUME NEW n \in {c, c + 1}, calls' = n, FileOK(n)', LinesStay, kept' = kept,
             memory' \in Seq(Nat), IsSuffix(memory', kept)
      PROVE  AuditInv'
  <2>1. kept' \in Seq(1 .. n) /\ n \in Nat
    BY <1>2, <1>3, TypesGrow
  <2>2. MemoryInFile'
    BY <1>3, MemoryStays
  <2> QED BY <1>3, <2>1, <2>2 DEF AuditInv, AuditTypes, FileOK
<1>4. CASE Record
  <2>1. calls' = c + 1 /\ WriteLine(c + 1)
    BY <1>1, <1>4 DEF Record
  <2>2. PICK n \in Nat : n = Len(lines) + 1 /\ DOMAIN lines = 1 .. n - 1
    <3>1. Len(lines) \in Nat /\ DOMAIN lines = 1 .. Len(lines)
      BY <1>2, LenProperties DEF FileOK
    <3>2. Len(lines) + 1 \in Nat /\ (Len(lines) + 1) - 1 = Len(lines)
      BY <3>1
    <3> QED BY <3>1, <3>2
  <2>3. /\ FileOK(c + 1)' /\ LinesStay /\ n \in DOMAIN lines'
        /\ Last(lines'[n]) = Piece(c + 1, TRUE)
    BY <1>2, <2>1, <2>2, LineWritten
  <2>4. kept' = Append(kept, c + 1) /\ memory' = Append(memory, c + 1)
    BY <1>1, <1>4 DEF Record
  <2>5. kept' \in Seq(1 .. c + 1) /\ memory' \in Seq(Nat) /\ IsSuffix(memory', kept')
    <3>1. kept \in Seq(1 .. c + 1) /\ c + 1 \in 1 .. c + 1 /\ c + 1 \in Nat
      BY <1>2, TypesGrow
    <3> QED BY <1>2, <2>4, <3>1, SuffixGrows
  <2>6. \A i \in DOMAIN kept :
          \E k \in DOMAIN lines :
            /\ Last(lines'[k]) = Piece(kept[i], TRUE) /\ lines'[k] = lines[k] /\ lines[k] # <<>>
            /\ k \in 1 .. n - 1 /\ Holds(lines'[k], kept[i])
            /\ \A j \in 1 .. i - 1 : \E m \in 1 .. k - 1 : Holds(lines'[m], kept[j])
    <3> SUFFICES ASSUME NEW i \in DOMAIN kept
                 PROVE  \E k \in DOMAIN lines :
                          /\ Last(lines'[k]) = Piece(kept[i], TRUE) /\ lines'[k] = lines[k] /\ lines[k] # <<>>
                          /\ k \in 1 .. n - 1 /\ Holds(lines'[k], kept[i])
                          /\ \A j \in 1 .. i - 1 : \E m \in 1 .. k - 1 : Holds(lines'[m], kept[j])
      OBVIOUS
    <3>1. PICK k \in DOMAIN lines :
            /\ Last(lines[k]) = Piece(kept[i], TRUE)
            /\ \A j \in 1 .. i - 1 : \E m \in 1 .. k - 1 : Holds(lines[m], kept[j])
      BY DEF AuditInv, MemoryInFile
    <3>2. \A m \in 1 .. k - 1 : m \in DOMAIN lines
      BY <2>2
    <3>3. lines[k] # <<>> /\ lines'[k] = lines[k] /\ k \in 1 .. n - 1
      BY <2>2, <2>3 DEF LinesStay, AuditInv, FileOrdered
    <3>4. Len(lines[k]) \in DOMAIN lines[k]
      <4>1. \A S : \A s \in Seq(S) : s # <<>> => Len(s) \in DOMAIN s
        OBVIOUS
      <4> QED BY <1>2, <3>3, <4>1 DEF FileOK
    <3>5. Holds(lines'[k], kept[i])
      BY <3>1, <3>3, <3>4 DEF Holds, Last
    <3> QED BY <2>3, <3>1, <3>2, <3>3, <3>5 DEF LinesStay
  <2>7. ASSUME NEW i \in DOMAIN kept'
        PROVE  \E k \in DOMAIN lines' :
                 /\ Last(lines'[k]) = Piece(kept'[i], TRUE)
                 /\ \A j \in 1 .. i - 1 : \E m \in 1 .. k - 1 : Holds(lines'[m], kept'[j])
    <3>1. /\ DOMAIN kept = 1 .. Len(kept) /\ DOMAIN kept' = 1 .. Len(kept) + 1 /\ Len(kept) \in Nat
          /\ kept'[Len(kept) + 1] = c + 1 /\ \A j \in 1 .. Len(kept) : kept'[j] = kept[j]
      BY <1>2, <2>4
    <3>2. CASE i \in DOMAIN kept
      <4>1. kept'[i] = kept[i] /\ \A j \in 1 .. i - 1 : kept'[j] = kept[j]
        BY <3>1, <3>2
      <4>2. PICK k \in DOMAIN lines :
              /\ Last(lines'[k]) = Piece(kept[i], TRUE)
              /\ \A j \in 1 .. i - 1 : \E m \in 1 .. k - 1 : Holds(lines'[m], kept[j])
        BY <2>6, <3>2
      <4>3. k \in DOMAIN lines' /\ Last(lines'[k]) = Piece(kept'[i], TRUE)
        BY <2>3, <4>1, <4>2 DEF LinesStay
      <4>4. \A j \in 1 .. i - 1 : \E m \in 1 .. k - 1 : Holds(lines'[m], kept'[j])
        BY <4>1, <4>2
      <4> QED BY <4>3, <4>4
    <3>3. CASE i = Len(kept) + 1
      <4>1. \A j \in 1 .. i - 1 : j \in DOMAIN kept /\ kept'[j] = kept[j]
        BY <3>1, <3>3
      <4>2. ASSUME NEW j \in 1 .. i - 1
            PROVE  \E m \in 1 .. n - 1 : Holds(lines'[m], kept'[j])
        <5>1. j \in DOMAIN kept /\ kept'[j] = kept[j]
          BY <4>1
        <5>2. PICK m \in DOMAIN lines : m \in 1 .. n - 1 /\ Holds(lines'[m], kept[j])
          BY <2>6, <5>1
        <5> QED BY <5>1, <5>2
      <4>3. n \in DOMAIN lines' /\ Last(lines'[n]) = Piece(kept'[i], TRUE)
        BY <2>3, <3>1, <3>3
      <4> QED BY <4>2, <4>3
    <3>4. i \in DOMAIN kept \/ i = Len(kept) + 1
      BY <3>1
    <3> QED BY <3>2, <3>3, <3>4
  <2>8. MemoryInFile'
    BY <2>7 DEF MemoryInFile
  <2> QED BY <2>1, <2>3, <2>5, <2>8 DEF AuditInv, AuditTypes, FileOK
<1>5. CASE RecordFailing
  <2>1. calls' = c + 1 /\ WriteCut(c + 1) /\ UNCHANGED <<memory, kept>>
    BY <1>1, <1>5 DEF RecordFailing
  <2> QED BY <1>2, <1>3, <2>1, LineCut
<1>6. CASE Restart
  <2>1. memory' = <<>> /\ kept' = kept
    BY <1>6 DEF Restart
  <2>2. memory' \in Seq(Nat) /\ IsSuffix(memory', kept)
    BY <1>2, <2>1, NothingIsSuffix
  <2>3. CASE UNCHANGED <<lines, tail, calls>>
    <3>1. FileOK(c)' /\ LinesStay
      BY <1>2, <2>3 DEF FileOK, FileOrdered, LinesStay
    <3> QED BY <1>1, <1>3, <2>1, <2>2, <2>3, <3>1
  <2>4. CASE calls' = c + 1 /\ WriteCut(c + 1)
    BY <1>2, <1>3, <2>1, <2>2, <2>4, LineCut
  <2> QED BY <1>1, <1>6, <2>3, <2>4 DEF Restart
<1>7. CASE UNCHANGED auditVars
  <2>1. FileOK(c)' /\ LinesStay
    BY <1>2, <1>7 DEF auditVars, FileOK, FileOrdered, LinesStay
  <2> QED BY <1>1, <1>2, <1>3, <1>7, <2>1 DEF auditVars
<1> QED BY <1>4, <1>5, <1>6, <1>7 DEF AuditNext
-----------------------------------------------------------------------------
THEOREM AuditInvHolds == AuditSpec => []AuditInv
<1> QED BY AuditInitInv, AuditStep, PTL DEF AuditSpec

\* The types hold, and the events in memory are the last that record() returned.
THEOREM AuditTypesHold == AuditSpec => []AuditTypeOK
<1>1. AuditInv => AuditTypeOK
  BY DEF AuditInv, AuditTypes, AuditTypeOK
<1> QED BY <1>1, AuditInvHolds, PTL

\* The file has every event that record() returned, in order, however writes failed
\* and wherever the process stopped.
THEOREM FileHasWhatWasKept == AuditSpec => []MemoryInFile
<1>1. AuditInv => MemoryInFile
  BY DEF AuditInv
<1> QED BY <1>1, AuditInvHolds, PTL

\* load_events() gives all that was kept, in order and each event once, or nothing.
THEOREM FileIsNeverHalfRead == AuditSpec => []NeverHalfRead
<1>1. ASSUME AuditInv, Readable PROVE NeverHalfRead
  <2> DEFINE P == [event : 1 .. calls, whole : BOOLEAN]
  <2>1. lines \in Seq(Seq(P)) /\ tail \in Seq(P) /\ calls \in Nat /\ FileOK(calls)
    BY <1>1 DEF AuditInv, AuditTypes, FileOK
  <2> HIDE DEF P
  <2>2. /\ DOMAIN lines = 1 .. Len(lines) /\ Len(lines) \in Nat
        /\ \A k \in DOMAIN lines : lines[k] \in Seq(P)
    BY <2>1
  <2>3. /\ \A k \in DOMAIN lines : k \in DOMAIN FileLines /\ FileLines[k] = lines[k]
        /\ \A k \in DOMAIN FileLines : k \in DOMAIN lines \/ (k = Len(lines) + 1 /\ FileLines[k] = tail)
    <3>1. CASE tail = <<>>
      BY <3>1 DEF FileLines
    <3>2. CASE tail # <<>>
      <4>1. FileLines = Append(lines, tail)
        BY <3>2 DEF FileLines
      <4> QED BY <2>1, <2>2, <4>1
    <3> QED BY <3>1, <3>2
  <2>4. /\ DOMAIN Loaded = DOMAIN FileLines
        /\ \A k \in DOMAIN FileLines : Len(FileLines[k]) = 1 /\ Loaded[k] = FileLines[k][1].event
    BY <1>1 DEF Readable, Valid, Loaded
  <2>5. /\ \A k \in DOMAIN lines : /\ k \in DOMAIN Loaded /\ Len(lines[k]) = 1 /\ DOMAIN lines[k] = {1}
                                    /\ Loaded[k] = lines[k][1].event
    <3>1. \A s \in Seq(P) : Len(s) = 1 => DOMAIN s = {1}
      OBVIOUS
    <3> QED BY <2>2, <2>3, <2>4, <3>1
  <2>6. \A k \in DOMAIN lines : \A e : Last(lines[k]) = Piece(e, TRUE) \/ Holds(lines[k], e)
                                     => k \in DOMAIN Loaded /\ Loaded[k] = e
    BY <2>5 DEF Last, Holds, Piece
  <2>7. ASSUME NEW i \in DOMAIN kept
        PROVE  \E k \in DOMAIN Loaded :
                  /\ Loaded[k] = kept[i]
                  /\ \A j \in 1 .. i - 1 : \E m \in DOMAIN Loaded : m < k /\ Loaded[m] = kept[j]
    <3>1. PICK k \in DOMAIN lines :
            /\ Last(lines[k]) = Piece(kept[i], TRUE)
            /\ \A j \in 1 .. i - 1 : \E m \in 1 .. k - 1 : Holds(lines[m], kept[j])
      BY <1>1 DEF AuditInv, MemoryInFile
    <3>2. k \in DOMAIN Loaded /\ Loaded[k] = kept[i]
      BY <2>6, <3>1
    <3>3. ASSUME NEW j \in 1 .. i - 1
          PROVE  \E m \in DOMAIN Loaded : m < k /\ Loaded[m] = kept[j]
      <4>1. PICK m \in 1 .. k - 1 : Holds(lines[m], kept[j])
        BY <3>1
      <4>2. m \in DOMAIN lines /\ m < k
        BY <2>2
      <4> QED BY <2>6, <4>1, <4>2
    <3> QED BY <3>2, <3>3
  <2>8. ASSUME NEW k \in DOMAIN Loaded, NEW m \in DOMAIN Loaded, k < m
        PROVE  Loaded[k] < Loaded[m]
    <3>1. k \in DOMAIN lines
      BY <2>2, <2>3, <2>4, <2>8
    <3>2. 1 \in DOMAIN lines[k] /\ Loaded[k] = lines[k][1].event
      BY <2>5, <3>1
    <3>3. CASE m \in DOMAIN lines
      <4>1. 1 \in DOMAIN lines[m] /\ Loaded[m] = lines[m][1].event
        BY <2>5, <3>3
      <4> QED BY <2>1, <2>8, <3>1, <3>2, <3>3, <4>1 DEF FileOK, FileOrdered
    <3>4. CASE m = Len(lines) + 1 /\ FileLines[m] = tail
      <4>1. Len(tail) = 1 /\ Loaded[m] = tail[1].event
        BY <2>4, <3>4
      <4>2. 1 \in DOMAIN tail
        BY <2>1, <4>1
      <4> QED BY <2>1, <3>1, <3>2, <4>1, <4>2 DEF FileOK, FileOrdered
    <3> QED BY <2>3, <2>4, <3>3, <3>4
  <2>9. \A k, m \in DOMAIN Loaded : k < m \/ k = m \/ m < k
    BY <2>2, <2>3, <2>4
  <2>10. \A k \in DOMAIN Loaded : Loaded[k] \in Int
    <3> SUFFICES ASSUME NEW k \in DOMAIN Loaded PROVE Loaded[k] \in Int
      OBVIOUS
    <3>1. CASE k \in DOMAIN lines
      BY <2>1, <2>5, <3>1, EventsOfFile
    <3>2. CASE FileLines[k] = tail
      <4>1. Len(tail) = 1 /\ Loaded[k] = tail[1].event
        BY <2>4, <3>2
      <4>2. 1 \in DOMAIN tail
        BY <2>1, <4>1
      <4> QED BY <2>1, <4>1, <4>2, EventsOfFile
    <3> QED BY <2>3, <2>4, <3>1, <3>2
  <2>11. IsInjective(Loaded)
    <3>1. \A x, y \in Int : x < y => x # y
      OBVIOUS
    <3> QED BY <2>8, <2>9, <2>10, <3>1 DEF IsInjective
  <2> QED BY <2>7, <2>11 DEF NeverHalfRead
<1>2. AuditInv => NeverHalfRead
  BY <1>1 DEF NeverHalfRead
<1> QED BY <1>2, AuditInvHolds, PTL
-----------------------------------------------------------------------------
(***************************************************************************)
(* ReportFiles: the exports that write into one directory at once          *)
(* implement ReportDirectory.                                              *)
(***************************************************************************)
Going == {"checking", "opening", "filling", "removing"}

\* The paths of the attempt that are there: opened and not unlinked.
Held(c) == unlinked[c] + 1 .. written[c]

FilesTypeOK ==
    /\ attempt \in [Calls -> 1 .. MaxName]
    /\ state \in [Calls -> Going \cup Ended]
    /\ written \in [Calls -> Nat] /\ unlinked \in [Calls -> Nat]
    /\ disk = [f \in DOMAIN disk |-> disk[f]]
    /\ \A f \in DOMAIN disk : disk[f] \in [by : Calls, whole : BOOLEAN]

\* Where a call is in its loop tells what it holds.
Progress(c) ==
    /\ unlinked[c] <= written[c] /\ written[c] <= Len(Parts[c])
    /\ state[c] = "checking" => written[c] = 0
    /\ state[c] = "opening" => written[c] < Len(Parts[c])
    /\ state[c] = "filling" => written[c] > 0
    /\ state[c] = "returned" => written[c] = Len(Parts[c])
    /\ state[c] \notin {"removing", "broken"} => unlinked[c] = 0

\* Its files are those it holds, no two of them one, whole but for the one it writes.
Holding(c) ==
    /\ \A f \in DOMAIN disk : disk[f].by = c => \E k \in Held(c) : f = File(c, k)
    /\ \A k \in Held(c) : File(c, k) \in DOMAIN disk /\ disk[File(c, k)].by = c
    /\ \A k \in Held(c) : \/ state[c] = "broken" \/ (state[c] = "filling" /\ k = written[c])
                          \/ disk[File(c, k)].whole
    /\ \A k, l \in Held(c) : Parts[c][k] = Parts[c][l] => k = l

FilesInv == FilesTypeOK /\ \A c \in Calls : Progress(c) /\ Holding(c)
-----------------------------------------------------------------------------
\* A step of one call leaves the others, and their files, alone.
Apart(c) ==
    /\ \A d \in Calls \ {c} : /\ state'[d] = state[d] /\ attempt'[d] = attempt[d]
                              /\ written'[d] = written[d] /\ unlinked'[d] = unlinked[d]
    /\ \A f \in DOMAIN disk : disk[f].by # c => f \in DOMAIN disk' /\ disk'[f] = disk[f]
    /\ \A f \in DOMAIN disk' : disk'[f].by # c => f \in DOMAIN disk /\ disk'[f] = disk[f]

LEMMA OthersKeep ==
  ASSUME FilesInv, FilesTypeOK', NEW c \in Calls, Apart(c), Progress(c)', Holding(c)'
  PROVE  FilesInv'
<1> SUFFICES ASSUME NEW d \in Calls, d # c PROVE Progress(d)' /\ Holding(d)'
  BY DEF FilesInv
<1>1. /\ state'[d] = state[d] /\ attempt'[d] = attempt[d]
      /\ written'[d] = written[d] /\ unlinked'[d] = unlinked[d]
  BY DEF Apart
<1>2. Progress(d) /\ Holding(d)
  BY DEF FilesInv
<1>3. Progress(d)'
  BY <1>1, <1>2 DEF Progress
<1>4. Held(d)' = Held(d) /\ \A k \in Held(d) : File(d, k)' = File(d, k)
  BY <1>1 DEF Held, File
<1>5. \A k \in Held(d) : File(d, k) \in DOMAIN disk' /\ disk'[File(d, k)] = disk[File(d, k)]
  BY <1>2 DEF Holding, Apart
<1>6. \A f \in DOMAIN disk' : disk'[f].by = d => f \in DOMAIN disk /\ disk[f].by = d
  BY DEF Apart
<1>7. Holding(d)'
  BY <1>1, <1>2, <1>4, <1>5, <1>6 DEF Holding
<1> QED BY <1>3, <1>7

\* The parts of a report, and the paths of an attempt, each by its place.
LEMMA PartsOfCall ==
  ASSUME NEW c \in Calls
  PROVE  /\ Len(Parts[c]) \in Nat \ {0} /\ DOMAIN Parts[c] = 1 .. Len(Parts[c])
         /\ ToSet(Parts[c]) = {Parts[c][k] : k \in 1 .. Len(Parts[c])}
         /\ \A k, l \in Nat : File(c, k) = File(c, l) => Parts[c][k] = Parts[c][l]
<1> DEFINE P == ToSet(Order)
<1>1. Parts[c] \in Seq(P) /\ Parts[c] # <<>>
  BY FilesAssumption
<1> HIDE DEF P
<1>2. Len(Parts[c]) \in Nat \ {0} /\ DOMAIN Parts[c] = 1 .. Len(Parts[c])
  BY <1>1
<1> QED BY <1>2 DEF ToSet, File

\* A call that holds nothing, wherever it is in its loop.
LEMMA HoldsNone ==
  ASSUME FilesInv, NEW c \in Calls, disk' = disk, Held(c) = {}, Held(c)' = {}
  PROVE  Holding(c)'
<1>1. \A f \in DOMAIN disk : disk[f].by # c
  BY DEF FilesInv, Holding
<1> QED BY <1>1 DEF Holding

LEMMA LookKeepsFiles ==
  ASSUME FilesInv, NEW c \in Calls, Look(c)
  PROVE  FilesInv' /\ disk' = disk /\ Apart(c)
<1>1. /\ disk' = disk /\ state[c] = "checking" /\ written[c] = 0 /\ unlinked[c] = 0
      /\ \E s \in {"checking", "opening"} : state' = [state EXCEPT ![c] = s]
  BY DEF FilesInv, Progress, Look, Moves
<1>2. \/ NextName(c) /\ state' = [state EXCEPT ![c] = "checking"]
      \/ UNCHANGED <<attempt, written, unlinked>>
  BY DEF Look, Moves
<1>3. /\ attempt' \in [Calls -> 1 .. MaxName] /\ written' \in [Calls -> Nat] /\ unlinked' \in [Calls -> Nat]
      /\ written'[c] = 0 /\ unlinked'[c] = 0
      /\ \A d \in Calls \ {c} : attempt'[d] = attempt[d] /\ written'[d] = written[d] /\ unlinked'[d] = unlinked[d]
  <2>1. /\ attempt \in [Calls -> 1 .. MaxName] /\ MaxName \in Nat
        /\ written \in [Calls -> Nat] /\ unlinked \in [Calls -> Nat]
    BY FilesAssumption DEF FilesInv, FilesTypeOK
  <2>2. CASE NextName(c)
    <3>1. /\ attempt[c] + 1 \in 1 .. MaxName /\ attempt' = [attempt EXCEPT ![c] = attempt[c] + 1]
          /\ written' = [written EXCEPT ![c] = 0] /\ unlinked' = [unlinked EXCEPT ![c] = 0]
      BY <2>1, <2>2 DEF NextName, NextAttempt
    <3> QED BY <2>1, <3>1
  <2>3. CASE UNCHANGED <<attempt, written, unlinked>>
    BY <1>1, <2>1, <2>3
  <2> QED BY <1>2, <2>2, <2>3
<1>4. FilesTypeOK'
  <2>1. state' \in [Calls -> Going \cup Ended]
    BY <1>1 DEF FilesInv, FilesTypeOK, Going, Ended
  <2> QED BY <1>1, <1>3, <2>1 DEF FilesInv, FilesTypeOK
<1>5. state'[c] \in {"checking", "opening"} /\ \A d \in Calls \ {c} : state'[d] = state[d]
  BY <1>1 DEF FilesInv, FilesTypeOK
<1>6. Progress(c)'
  BY <1>3, <1>5, PartsOfCall DEF Progress
<1>7. Held(c) = {} /\ Held(c)' = {}
  BY <1>1, <1>3 DEF Held
<1>8. Apart(c)
  BY <1>1, <1>3, <1>5 DEF Apart
<1> QED BY <1>1, <1>4, <1>6, <1>7, <1>8, HoldsNone, OthersKeep

\* What a step does to the file at place k of its call, and only to that one.
LEMMA OneFile ==
  ASSUME FilesInv, NEW c \in Calls, NEW file, NEW whole \in BOOLEAN,
         file \in DOMAIN disk => disk[file].by = c,
         disk' = With(file, c, whole)
  PROVE  /\ DOMAIN disk' = DOMAIN disk \cup {file} /\ disk' = [f \in DOMAIN disk' |-> disk'[f]]
         /\ disk'[file] = [by |-> c, whole |-> whole]
         /\ \A f \in DOMAIN disk \ {file} : disk'[f] = disk[f]
         /\ \A f \in DOMAIN disk' : disk'[f] \in [by : Calls, whole : BOOLEAN]
BY DEF With, FilesInv, FilesTypeOK

LEMMA OpenKeepsFiles ==
  ASSUME FilesInv, NEW c \in Calls, Open(c)
  PROVE  /\ FilesInv' /\ Apart(c)
         /\ {f \in DOMAIN disk' : disk'[f].by # c} = {f \in DOMAIN disk : disk[f].by # c}
<1> DEFINE w == written[c]
<1>1. /\ state[c] = "opening" /\ unlinked[c] = 0 /\ w \in Nat /\ w < Len(Parts[c])
      /\ UNCHANGED <<attempt, unlinked>>
  BY DEF FilesInv, FilesTypeOK, Progress, Open
<1>2. Len(Parts[c]) \in Nat /\ \A k, l \in Nat : File(c, k) = File(c, l) <=> Parts[c][k] = Parts[c][l]
  BY PartsOfCall DEF File
<1>3. \A k : File(c, k)' = File(c, k)
  BY <1>1 DEF File
<1>4. CASE File(c, w + 1) \notin DOMAIN disk
  <2>1. /\ state' = [state EXCEPT ![c] = "filling"] /\ written' = [written EXCEPT ![c] = w + 1]
        /\ disk' = With(File(c, w + 1), c, FALSE)
    BY <1>4 DEF Open, Moves
  <2> DEFINE file == File(c, w + 1)
  <2>2. /\ DOMAIN disk' = DOMAIN disk \cup {file} /\ disk' = [f \in DOMAIN disk' |-> disk'[f]]
        /\ disk'[file] = [by |-> c, whole |-> FALSE]
        /\ \A f \in DOMAIN disk \ {file} : disk'[f] = disk[f]
        /\ \A f \in DOMAIN disk' : disk'[f] \in [by : Calls, whole : BOOLEAN]
    BY <1>4, <2>1, OneFile
  <2>3. /\ written'[c] = w + 1 /\ state'[c] = "filling" /\ unlinked'[c] = 0
        /\ \A d \in Calls \ {c} : state'[d] = state[d] /\ written'[d] = written[d]
    BY <1>1, <2>1 DEF FilesInv, FilesTypeOK
  <2>4. FilesTypeOK'
    <3>1. written' \in [Calls -> Nat] /\ state' \in [Calls -> Going \cup Ended]
      BY <1>1, <2>1 DEF FilesInv, FilesTypeOK, Going, Ended
    <3> HIDE DEF file
    <3> QED BY <1>1, <2>2, <3>1 DEF FilesInv, FilesTypeOK
  <2>5. Progress(c)'
    BY <1>1, <1>2, <2>3 DEF Progress
  <2>6. Held(c)' = 1 .. w + 1 /\ Held(c) = 1 .. w
    BY <1>1, <2>3 DEF Held
  <2>7. /\ \A f \in DOMAIN disk : disk[f].by = c => \E k \in 1 .. w : f = File(c, k)
        /\ \A k \in 1 .. w : File(c, k) \in DOMAIN disk /\ disk[File(c, k)].by = c /\ disk[File(c, k)].whole
        /\ \A k, l \in 1 .. w : Parts[c][k] = Parts[c][l] => k = l
    BY <1>1, <2>6 DEF FilesInv, Holding
  <2>8. \A k \in 1 .. w + 1 : k \in 1 .. w \/ k = w + 1
    BY <1>1
  <2>9. \A k \in 1 .. w : File(c, k) # file /\ disk'[File(c, k)] = disk[File(c, k)]
    BY <1>4, <2>2, <2>7
  <2>10. \A f \in DOMAIN disk' : disk'[f].by = c => \E k \in 1 .. w + 1 : f = File(c, k)
    <3> SUFFICES ASSUME NEW f \in DOMAIN disk', disk'[f].by = c PROVE \E k \in 1 .. w + 1 : f = File(c, k)
      OBVIOUS
    <3>1. CASE f = file
      <4>1. w + 1 \in 1 .. w + 1
        BY <1>1
      <4> QED BY <3>1, <4>1
    <3>2. CASE f # file
      <4>1. PICK k \in 1 .. w : f = File(c, k)
        BY <2>2, <2>7, <3>2
      <4>2. k \in 1 .. w + 1
        BY <1>1
      <4> QED BY <4>1, <4>2
    <3> QED BY <3>1, <3>2
  <2>11. \A k \in 1 .. w + 1 : File(c, k) \in DOMAIN disk' /\ disk'[File(c, k)].by = c
    BY <2>2, <2>7, <2>8, <2>9
  <2>12. \A k \in 1 .. w + 1 : k = w + 1 \/ disk'[File(c, k)].whole
    BY <2>7, <2>8, <2>9
  <2>13. \A k, l \in 1 .. w + 1 : Parts[c][k] = Parts[c][l] => k = l
    <3>1. \A k \in 1 .. w : Parts[c][k] # Parts[c][w + 1]
      BY <1>1, <1>2, <2>9
    <3> QED BY <2>7, <2>8, <3>1
  <2>14. Holding(c)'
    BY <1>3, <2>3, <2>6, <2>10, <2>11, <2>12, <2>13 DEF Holding
  <2>15. Apart(c)
    BY <1>1, <1>4, <2>2, <2>3 DEF Apart
  <2> QED BY <1>4, <2>2, <2>4, <2>5, <2>14, <2>15, OthersKeep
<1>5. CASE File(c, w + 1) \in DOMAIN disk
  <2>1. state' = [state EXCEPT ![c] = "removing"] /\ UNCHANGED <<disk, written>>
    BY <1>5 DEF Open, Moves
  <2>2. state'[c] = "removing" /\ \A d \in Calls \ {c} : state'[d] = state[d]
    BY <2>1 DEF FilesInv, FilesTypeOK
  <2>3. FilesTypeOK'
    BY <1>1, <2>1 DEF FilesInv, FilesTypeOK, Going, Ended
  <2>4. Progress(c)'
    BY <1>1, <1>2, <2>1, <2>2 DEF Progress
  <2>5. Held(c)' = Held(c)
    BY <1>1, <2>1 DEF Held
  <2>6. Holding(c)'
    BY <1>1, <1>3, <2>1, <2>2, <2>5 DEF FilesInv, Holding
  <2>7. Apart(c)
    BY <1>1, <2>1, <2>2 DEF Apart
  <2> QED BY <2>1, <2>3, <2>4, <2>6, <2>7, OthersKeep
<1> QED BY <1>4, <1>5

LEMMA FillKeepsFiles ==
  ASSUME FilesInv, NEW c \in Calls, Fill(c)
  PROVE  FilesInv' /\ Apart(c)
<1> DEFINE w == written[c]
<1> DEFINE file == File(c, w)
<1>1. /\ state[c] = "filling" /\ unlinked[c] = 0 /\ w \in Nat \ {0} /\ w <= Len(Parts[c])
      /\ UNCHANGED <<attempt, written, unlinked>> /\ disk' = With(file, c, TRUE)
  <2>1. state[c] = "filling" /\ UNCHANGED <<attempt, written, unlinked>> /\ disk' = With(file, c, TRUE)
    BY DEF Fill, Moves
  <2>2. Progress(c) /\ w \in Nat
    BY DEF FilesInv, FilesTypeOK
  <2> QED BY <2>1, <2>2 DEF Progress
<1>2. PICK to \in {"opening", "returned"} :
          /\ to = "opening" => w < Len(Parts[c])
          /\ to = "returned" => w = Len(Parts[c])
          /\ state' = [state EXCEPT ![c] = to]
  <2>1. state' = [state EXCEPT ![c] = IF w < Len(Parts[c]) THEN "opening" ELSE "returned"]
    BY DEF Fill, Moves
  <2>2. ~(w < Len(Parts[c])) => w = Len(Parts[c])
    BY <1>1, PartsOfCall
  <2>3. CASE w < Len(Parts[c])
    BY <2>1, <2>3
  <2>4. CASE ~(w < Len(Parts[c]))
    BY <2>1, <2>2, <2>4
  <2> QED BY <2>3, <2>4
<1>3. state'[c] = to /\ \A d \in Calls \ {c} : state'[d] = state[d]
  BY <1>2 DEF FilesInv, FilesTypeOK
<1>4. Held(c) = 1 .. w /\ Held(c)' = 1 .. w /\ \A k : File(c, k)' = File(c, k)
  BY <1>1 DEF Held, File
<1>5. /\ \A f \in DOMAIN disk : disk[f].by = c => \E k \in 1 .. w : f = File(c, k)
      /\ \A k \in 1 .. w : File(c, k) \in DOMAIN disk /\ disk[File(c, k)].by = c
      /\ \A k \in 1 .. w : k = w \/ disk[File(c, k)].whole
      /\ \A k, l \in 1 .. w : Parts[c][k] = Parts[c][l] => k = l
  BY <1>1, <1>4 DEF FilesInv, Holding
<1>6. file \in DOMAIN disk /\ disk[file].by = c
  BY <1>1, <1>5
<1> HIDE DEF file
<1>7. /\ DOMAIN disk' = DOMAIN disk \cup {file} /\ disk' = [f \in DOMAIN disk' |-> disk'[f]]
      /\ disk'[file] = [by |-> c, whole |-> TRUE]
      /\ \A f \in DOMAIN disk \ {file} : disk'[f] = disk[f]
      /\ \A f \in DOMAIN disk' : disk'[f] \in [by : Calls, whole : BOOLEAN]
  BY <1>1, <1>6, OneFile
<1>8. FilesTypeOK'
  <2>1. state' \in [Calls -> Going \cup Ended]
    BY <1>2 DEF FilesInv, FilesTypeOK, Going, Ended
  <2> QED BY <1>1, <1>7, <2>1 DEF FilesInv, FilesTypeOK
<1>9. Progress(c)'
  BY <1>1, <1>2, <1>3, PartsOfCall DEF Progress
<1>10. DOMAIN disk' = DOMAIN disk /\ \A f \in DOMAIN disk : disk'[f].by = disk[f].by
  BY <1>6, <1>7
<1>11. \A k \in 1 .. w : disk'[File(c, k)].whole
  BY <1>5, <1>7 DEF file
<1>12. Holding(c)'
  <2>1. \A f \in DOMAIN disk' : disk'[f].by = c => \E k \in 1 .. w : f = File(c, k)
    BY <1>5, <1>10
  <2>2. \A k \in 1 .. w : File(c, k) \in DOMAIN disk' /\ disk'[File(c, k)].by = c
    BY <1>5, <1>10
  <2> QED BY <1>4, <1>5, <1>11, <2>1, <2>2 DEF Holding
<1>13. Apart(c)
  <2>1. disk'[file].by = c
    BY <1>7
  <2>2. \A f \in DOMAIN disk : disk[f].by # c => f \in DOMAIN disk' /\ disk'[f] = disk[f]
    BY <1>6, <1>7
  <2>3. \A f \in DOMAIN disk' : disk'[f].by # c => f \in DOMAIN disk /\ disk'[f] = disk[f]
    BY <1>7, <2>1
  <2> QED BY <1>1, <1>3, <2>2, <2>3 DEF Apart
<1> QED BY <1>8, <1>9, <1>12, <1>13, OthersKeep

LEMMA UnlinkKeepsFiles ==
  ASSUME FilesInv, NEW c \in Calls, Unlink(c)
  PROVE  FilesInv' /\ Apart(c)
<1> DEFINE u == unlinked[c]
<1>1. /\ state[c] = "removing" /\ u \in Nat /\ written[c] \in Nat /\ u <= written[c]
      /\ written[c] <= Len(Parts[c]) /\ Len(Parts[c]) \in Nat
  BY PartsOfCall DEF FilesInv, FilesTypeOK, Progress, Unlink, Moves
<1>2. CASE u < written[c] /\ disk' = Without(File(c, u + 1)) /\ Moves(c, "removing", "removing")
           /\ unlinked' = [unlinked EXCEPT ![c] = @ + 1] /\ UNCHANGED <<attempt, checked, written>>
  <2> DEFINE file == File(c, u + 1)
  <2>1. /\ state'[c] = "removing" /\ unlinked'[c] = u + 1
        /\ \A d \in Calls \ {c} : state'[d] = state[d] /\ unlinked'[d] = unlinked[d]
    BY <1>2 DEF FilesInv, FilesTypeOK, Moves
  <2>2. Held(c) = u + 1 .. written[c] /\ Held(c)' = (u + 1) + 1 .. written[c] /\ \A k : File(c, k)' = File(c, k)
    BY <1>1, <1>2, <2>1 DEF Held, File
  <2>3. u + 1 \in Held(c) /\ Held(c)' \subseteq Held(c) /\ \A k \in Held(c) : k = u + 1 \/ k \in Held(c)'
    BY <1>1, <1>2, <2>2
  <2>4. file \in DOMAIN disk /\ disk[file].by = c
    BY <2>3 DEF FilesInv, Holding
  <2>5. \A k \in Held(c)' : File(c, k) # file
    <3>1. \A k \in Held(c)' : Parts[c][k] # Parts[c][u + 1]
      BY <1>1, <2>2, <2>3 DEF FilesInv, Holding
    <3> QED BY <3>1 DEF File
  <2> HIDE DEF file
  <2>6. /\ DOMAIN disk' = DOMAIN disk \ {file} /\ disk' = [f \in DOMAIN disk' |-> disk'[f]]
        /\ \A f \in DOMAIN disk' : disk'[f] = disk[f]
    BY <1>2 DEF Without, file
  <2>7. FilesTypeOK'
    <3>1. state' \in [Calls -> Going \cup Ended] /\ unlinked' \in [Calls -> Nat]
      BY <1>1, <1>2 DEF FilesInv, FilesTypeOK, Moves, Going, Ended
    <3> QED BY <1>2, <2>6, <3>1 DEF FilesInv, FilesTypeOK
  <2>8. Progress(c)'
    BY <1>1, <1>2, <2>1 DEF Progress
  <2>9. Holding(c)'
    <3>1. \A f \in DOMAIN disk' : disk'[f].by = c => \E k \in Held(c)' : f = File(c, k)
      <4> SUFFICES ASSUME NEW f \in DOMAIN disk', disk'[f].by = c PROVE \E k \in Held(c)' : f = File(c, k)
        OBVIOUS
      <4>1. PICK k \in Held(c) : f = File(c, k)
        BY <2>6 DEF FilesInv, Holding
      <4>2. k # u + 1
        BY <2>6, <4>1 DEF file
      <4> QED BY <2>3, <4>1, <4>2
    <3>2. \A k \in Held(c)' : /\ File(c, k) \in DOMAIN disk' /\ disk'[File(c, k)].by = c
                              /\ disk'[File(c, k)].whole
      <4> SUFFICES ASSUME NEW k \in Held(c)'
                   PROVE  /\ File(c, k) \in DOMAIN disk' /\ disk'[File(c, k)].by = c
                          /\ disk'[File(c, k)].whole
        OBVIOUS
      <4>1. File(c, k) \in DOMAIN disk /\ disk[File(c, k)].by = c /\ disk[File(c, k)].whole
        BY <1>1, <2>3 DEF FilesInv, Holding
      <4> QED BY <2>5, <2>6, <4>1
    <3>3. \A k, l \in Held(c)' : Parts[c][k] = Parts[c][l] => k = l
      BY <2>3 DEF FilesInv, Holding
    <3> QED BY <2>2, <3>1, <3>2, <3>3 DEF Holding
  <2>10. Apart(c)
    BY <1>2, <2>1, <2>4, <2>6 DEF Apart
  <2> QED BY <2>7, <2>8, <2>9, <2>10, OthersKeep
<1>3. CASE u = written[c] /\ Moves(c, "removing", "checking") /\ NextName(c) /\ UNCHANGED disk
  <2>1. /\ attempt[c] + 1 \in 1 .. MaxName /\ attempt' = [attempt EXCEPT ![c] = attempt[c] + 1]
        /\ written' = [written EXCEPT ![c] = 0] /\ unlinked' = [unlinked EXCEPT ![c] = 0]
        /\ state' = [state EXCEPT ![c] = "checking"]
    BY <1>3, FilesAssumption DEF FilesInv, FilesTypeOK, NextName, NextAttempt, Moves
  <2>2. /\ state'[c] = "checking" /\ written'[c] = 0 /\ unlinked'[c] = 0
        /\ \A d \in Calls \ {c} : /\ state'[d] = state[d] /\ attempt'[d] = attempt[d]
                                  /\ written'[d] = written[d] /\ unlinked'[d] = unlinked[d]
    BY <2>1 DEF FilesInv, FilesTypeOK
  <2>3. FilesTypeOK'
    BY <1>3, <2>1 DEF FilesInv, FilesTypeOK, Going, Ended
  <2>4. Progress(c)'
    BY <1>1, <2>2 DEF Progress
  <2>5. Held(c) = {} /\ Held(c)' = {}
    BY <1>1, <1>3, <2>2 DEF Held
  <2>6. Apart(c)
    BY <1>3, <2>2 DEF Apart
  <2> QED BY <1>3, <2>3, <2>4, <2>5, <2>6, HoldsNone, OthersKeep
<1> QED BY <1>2, <1>3 DEF Unlink, ToUnlink

LEMMA BreakKeepsFiles ==
  ASSUME FilesInv, NEW c \in Calls, Break(c)
  PROVE  FilesInv' /\ Apart(c)
<1>1. state' = [state EXCEPT ![c] = "broken"] /\ UNCHANGED <<disk, attempt, checked, written, unlinked>>
  BY DEF Break, Moves
<1>2. state'[c] = "broken" /\ \A d \in Calls \ {c} : state'[d] = state[d]
  BY <1>1 DEF FilesInv, FilesTypeOK
<1>3. FilesTypeOK'
  BY <1>1 DEF FilesInv, FilesTypeOK, Going, Ended
<1>4. Progress(c)'
  BY <1>1, <1>2 DEF FilesInv, Progress
<1>5. Held(c)' = Held(c) /\ \A k : File(c, k)' = File(c, k)
  BY <1>1 DEF Held, File
<1>6. Holding(c)'
  BY <1>1, <1>2, <1>5 DEF FilesInv, Holding
<1>7. Apart(c)
  BY <1>1, <1>2 DEF Apart
<1> QED BY <1>3, <1>4, <1>6, <1>7, OthersKeep
-----------------------------------------------------------------------------
LEMMA FilesInitInv == FilesInit => FilesInv
<1> SUFFICES ASSUME FilesInit PROVE FilesInv
  OBVIOUS
<1>1. FilesTypeOK
  <2>1. MaxName \in Nat \ {0}
    BY FilesAssumption, FS_CardinalityType
  <2>2. 1 \in 1 .. MaxName
    BY <2>1
  <2>3. /\ attempt \in [Calls -> 1 .. MaxName] /\ state \in [Calls -> Going \cup Ended]
        /\ written \in [Calls -> Nat] /\ unlinked \in [Calls -> Nat]
    BY <2>2 DEF FilesInit, Going
  <2>4. disk = [f \in DOMAIN disk |-> disk[f]] /\ DOMAIN disk = {}
    BY DEF FilesInit
  <2> QED BY <2>3, <2>4 DEF FilesTypeOK
<1>2. ASSUME NEW c \in Calls PROVE Progress(c) /\ Holding(c)
  <2>1. Held(c) = {} /\ DOMAIN disk = {}
    BY <1>2 DEF FilesInit, Held
  <2> QED BY <1>2, <2>1, PartsOfCall DEF FilesInit, Progress, Holding
<1> QED BY <1>1, <1>2 DEF FilesInv

LEMMA FilesStep == FilesInv /\ [FilesNext]_filesVars => FilesInv'
<1> SUFFICES ASSUME FilesInv, [FilesNext]_filesVars PROVE FilesInv'
  OBVIOUS
<1>1. CASE UNCHANGED filesVars
  BY <1>1 DEF filesVars, FilesInv, FilesTypeOK, Progress, Holding, Held, File
<1>2. ASSUME NEW c \in Calls, Write(c) \/ Break(c) PROVE FilesInv'
  BY <1>2, LookKeepsFiles, OpenKeepsFiles, FillKeepsFiles, UnlinkKeepsFiles, BreakKeepsFiles DEF Write
<1> QED BY <1>1, <1>2 DEF FilesNext
-----------------------------------------------------------------------------
\* What the directory shows of the calls that have ended, as Directory sees it.
Left == [f \in {g \in DOMAIN disk : state[disk[g].by] \in Ended} |-> disk[f]]
Outcome == [c \in Calls |-> IF state[c] \in Ended THEN state[c] ELSE "open"]

\* The files of a call.
Of(c) == {f \in DOMAIN disk : disk[f].by = c}

LEMMA Apart2 ==
  ASSUME FilesInv, FilesInv', NEW c \in Calls, Apart(c)
  PROVE  \A f : f \in DOMAIN disk' /\ disk'[f].by # c
                  <=> f \in DOMAIN disk /\ disk[f].by # c
BY DEF Apart

\* A call that goes on shows nothing.
LEMMA GoingOn ==
  ASSUME FilesInv, FilesInv', NEW c \in Calls, Apart(c), state[c] \in Going, state'[c] \in Going
  PROVE  Left' = Left /\ Outcome' = Outcome
<1>1. state[c] \notin Ended /\ state'[c] \notin Ended
  BY DEF Going, Ended
<1>2. Outcome' = Outcome
  BY <1>1 DEF Outcome, Apart
<1>3. \A f \in DOMAIN disk : disk[f].by \in Calls
  BY DEF FilesInv, FilesTypeOK
<1>4. \A f \in DOMAIN disk' : disk'[f].by \in Calls
  BY DEF FilesInv, FilesTypeOK
<1>5. \A f : f \in DOMAIN disk' /\ state'[disk'[f].by] \in Ended
               <=> f \in DOMAIN disk /\ state[disk[f].by] \in Ended
  BY <1>1, <1>3, <1>4 DEF Apart
<1>6. \A f \in DOMAIN disk : state[disk[f].by] \in Ended => disk'[f] = disk[f]
  BY <1>1, <1>3 DEF Apart
<1>7. DOMAIN Left' = DOMAIN Left
  BY <1>5 DEF Left
<1> QED BY <1>2, <1>5, <1>6, <1>7 DEF Left

\* A call that ends shows its files, and those of the others stay.
LEMMA Ending ==
  ASSUME FilesInv, FilesInv', NEW c \in Calls, Apart(c), state[c] \in Going, state'[c] \in Ended
  PROVE  /\ Outcome[c] = "open" /\ Outcome' = [Outcome EXCEPT ![c] = state'[c]]
         /\ Of(c)' \cap DOMAIN Left = {}
         /\ Left' = [f \in DOMAIN Left \cup Of(c)' |-> IF f \in Of(c)' THEN disk'[f] ELSE Left[f]]
<1>1. state[c] \notin Ended
  BY DEF Going, Ended
<1>2. Outcome[c] = "open" /\ Outcome' = [Outcome EXCEPT ![c] = state'[c]]
  BY <1>1 DEF Outcome, Apart
<1>3. \A f \in DOMAIN disk : disk[f].by \in Calls
  BY DEF FilesInv, FilesTypeOK
<1>4. \A f \in DOMAIN disk' : disk'[f].by \in Calls
  BY DEF FilesInv, FilesTypeOK
<1>5. \A f : f \in DOMAIN Left <=> f \in DOMAIN disk /\ state[disk[f].by] \in Ended
  BY DEF Left
<1>6. \A f \in DOMAIN Left : disk[f].by # c /\ f \in DOMAIN disk' /\ disk'[f] = disk[f] /\ Left[f] = disk[f]
  BY <1>1, <1>3, <1>5 DEF Apart, Left
<1>7. Of(c)' \cap DOMAIN Left = {}
  BY <1>6 DEF Of
<1>8. \A f : f \in DOMAIN disk' /\ state'[disk'[f].by] \in Ended <=> f \in DOMAIN Left \cup Of(c)'
  <2> SUFFICES ASSUME NEW f
               PROVE  f \in DOMAIN disk' /\ state'[disk'[f].by] \in Ended <=> f \in DOMAIN Left \cup Of(c)'
    OBVIOUS
  <2>1. CASE f \in DOMAIN disk' /\ disk'[f].by = c
    BY <2>1 DEF Of
  <2>2. CASE f \in DOMAIN disk' /\ disk'[f].by # c
    <3>1. f \in DOMAIN disk /\ disk'[f] = disk[f] /\ state'[disk[f].by] = state[disk[f].by]
      BY <1>3, <2>2 DEF Apart
    <3> QED BY <1>5, <2>2, <3>1 DEF Of
  <2>3. CASE f \notin DOMAIN disk'
    BY <1>6, <2>3 DEF Of
  <2> QED BY <2>1, <2>2, <2>3
<1>9. Left' = [f \in DOMAIN Left \cup Of(c)' |-> disk'[f]]
  <2>1. Left' = [f \in {g \in DOMAIN disk' : state'[disk'[g].by] \in Ended} |-> disk'[f]]
    BY DEF Left
  <2>2. {g \in DOMAIN disk' : state'[disk'[g].by] \in Ended} = DOMAIN Left \cup Of(c)'
    BY <1>8
  <2> QED BY <2>1, <2>2
<1> QED BY <1>2, <1>6, <1>7, <1>9

\* The files of a call are those of the paths it holds.
LEMMA FilesHeld ==
  ASSUME FilesInv, NEW c \in Calls
  PROVE  Of(c) = {attempt[c]} \X {Parts[c][k] : k \in Held(c)}
BY DEF Of, FilesInv, Holding, File

LEMMA FillMaps ==
  ASSUME FilesInv, FilesInv', NEW c \in Calls, Fill(c), Apart(c)
  PROVE  Directory!Next \/ (Left' = Left /\ Outcome' = Outcome)
<1>1. state[c] = "filling" /\ state'[c] \in {"opening", "returned"} /\ attempt' = attempt
  BY DEF Fill, Moves, FilesInv, FilesTypeOK
<1>2. CASE state'[c] = "opening"
  BY <1>1, <1>2, GoingOn DEF Going
<1>3. CASE state'[c] = "returned"
  <2> DEFINE all == {attempt[c]} \X ToSet(Parts[c])
  <2>1. Held(c)' = 1 .. Len(Parts[c])
    BY <1>3 DEF FilesInv, Progress, Held
  <2>2. Of(c)' = {attempt'[c]} \X {Parts[c][k] : k \in Held(c)'}
    BY DEF Of, FilesInv, Holding, File
  <2>3. Of(c)' = all
    BY <1>1, <2>1, <2>2, PartsOfCall
  <2>4. \A f \in all : disk'[f] = [by |-> c, whole |-> f \in all]
    <3> SUFFICES ASSUME NEW f \in all PROVE disk'[f].whole = TRUE /\ disk'[f].by = c /\ disk'[f] \in [by : Calls, whole : BOOLEAN]
      OBVIOUS
    <3>1. f \in DOMAIN disk' /\ disk'[f].by = c
      BY <2>3 DEF Of
    <3>2. disk'[f] \in [by : Calls, whole : BOOLEAN]
      BY <3>1 DEF FilesInv, FilesTypeOK
    <3>3. PICK k \in Held(c)' : f = File(c, k)'
      BY <3>1 DEF FilesInv, Holding
    <3>4. disk'[f].whole
      BY <1>3, <3>3 DEF FilesInv, Holding
    <3> QED BY <3>1, <3>2, <3>4
  <2>5. /\ Outcome[c] = "open" /\ Outcome' = [Outcome EXCEPT ![c] = "returned"]
        /\ all \cap DOMAIN Left = {}
        /\ Left' = [f \in DOMAIN Left \cup all |-> IF f \in all THEN [by |-> c, whole |-> f \in all] ELSE Left[f]]
    BY <1>1, <1>3, <2>3, <2>4, Ending DEF Going, Ended
  <2>6. attempt[c] \in 1 .. MaxName
    BY DEF FilesInv, FilesTypeOK
  <2>7. Directory!Ends(c, "returned")
    BY <2>5 DEF Directory!Ends, Outcome
  <2>8. PICK name \in 1 .. MaxName : name = attempt[c]
    BY <2>6
  <2> DEFINE published == {name} \X [d \in Calls |-> ToSet(Parts[d])][c]
  <2>9. published = all
    BY <2>8
  <2> HIDE DEF all, published
  <2>10. Directory!Leave(c, published, published)
    BY <2>5, <2>9 DEF Directory!Leave, Left
  <2>11. Directory!Publish(c)
    BY <2>7, <2>10, Zenon DEF Directory!Publish, published
  <2> QED BY <2>11 DEF Directory!Next
<1> QED BY <1>1, <1>2, <1>3

LEMMA BreakMaps ==
  ASSUME FilesInv, FilesInv', NEW c \in Calls, Break(c), Apart(c)
  PROVE  Directory!Next
<1> DEFINE held == {Parts[c][k] : k \in Held(c)}
<1> DEFINE full == {p \in held : disk[<<attempt[c], p>>].whole}
<1>1. /\ state[c] \in Going /\ state'[c] = "broken"
      /\ UNCHANGED <<disk, attempt, written, unlinked>>
  BY DEF Break, Moves, Going, FilesInv, FilesTypeOK
<1>2. Of(c)' = Of(c) /\ Of(c) = {attempt[c]} \X held
  BY <1>1, FilesHeld DEF Of
<1>3. held \subseteq ToSet(Parts[c])
  <2>1. Held(c) \subseteq 1 .. Len(Parts[c])
    BY PartsOfCall DEF FilesInv, FilesTypeOK, Progress, Held
  <2> QED BY <2>1, PartsOfCall
<1>4. attempt[c] \in 1 .. MaxName
  BY DEF FilesInv, FilesTypeOK
<1>5. PICK name \in 1 .. MaxName : name = attempt[c]
  BY <1>4
<1>6. \A f \in Of(c) : disk'[f] = [by |-> c, whole |-> f \in {name} \X full]
  <2> SUFFICES ASSUME NEW f \in Of(c) PROVE disk'[f] = [by |-> c, whole |-> f \in {name} \X full]
    OBVIOUS
  <2>1. disk'[f] = disk[f] /\ disk[f] \in [by : Calls, whole : BOOLEAN] /\ disk[f].by = c
    BY <1>1 DEF Of, FilesInv, FilesTypeOK
  <2>2. PICK p \in held : f = <<attempt[c], p>>
    BY <1>2
  <2>3. disk[f].whole <=> f \in {name} \X full
    BY <1>5, <2>2
  <2> QED BY <2>1, <2>3
<1> DEFINE PartsOfIt == [d \in Calls |-> ToSet(Parts[d])][c]
<1>7. PartsOfIt = ToSet(Parts[c]) /\ held \in SUBSET PartsOfIt /\ full \in SUBSET PartsOfIt
  BY <1>3
<1>8. /\ Outcome[c] = "open" /\ Outcome' = [Outcome EXCEPT ![c] = "broken"]
      /\ Of(c) \cap DOMAIN Left = {}
      /\ Left' = [f \in DOMAIN Left \cup Of(c) |-> IF f \in Of(c) THEN disk'[f] ELSE Left[f]]
  BY <1>1, <1>2, Ending DEF Ended
<1>9. Directory!Ends(c, "broken")
  BY <1>8 DEF Directory!Ends, Outcome
<1>10. PICK parts \in SUBSET PartsOfIt, good \in SUBSET PartsOfIt : parts = held /\ good = full
  BY <1>7
<1> DEFINE left == {name} \X parts
<1> DEFINE whole == {name} \X good
<1>11. left = Of(c)
  BY <1>2, <1>5, <1>10
<1>12. \A f \in left : disk'[f] = [by |-> c, whole |-> f \in whole]
  BY <1>6, <1>11, <1>10
<1> HIDE DEF left, whole
<1>13. Directory!Leave(c, left, whole)
  BY <1>8, <1>11, <1>12 DEF Directory!Leave, Left
<1>14. Directory!BreakOff(c)
  <2> HIDE DEF held, full
  <2> QED BY <1>9, <1>13, Zenon DEF Directory!BreakOff, left, whole
<1> QED BY <1>14 DEF Directory!Next

LEMMA FilesInitMaps == FilesInit => Directory!Init
<1> SUFFICES ASSUME FilesInit PROVE Directory!Init
  OBVIOUS
<1>1. {g \in DOMAIN disk : state[disk[g].by] \in Ended} = {}
  BY DEF FilesInit
<1>2. Outcome = [c \in Calls |-> "open"]
  BY DEF FilesInit, Outcome, Ended
<1> QED BY <1>1, <1>2 DEF Directory!Init, Outcome

LEMMA FilesStepMaps ==
  FilesInv /\ FilesInv' /\ [FilesNext]_filesVars => [Directory!Next]_Directory!vars
<1> SUFFICES ASSUME FilesInv, FilesInv', [FilesNext]_filesVars
             PROVE  Directory!Next \/ (Left' = Left /\ Outcome' = Outcome)
  BY DEF Directory!vars, Left, Outcome
<1>1. CASE UNCHANGED filesVars
  BY <1>1 DEF filesVars, Left, Outcome
<1>2. ASSUME NEW c \in Calls, Look(c) PROVE Left' = Left /\ Outcome' = Outcome
  <2>1. state[c] \in Going /\ state'[c] \in Going
    BY <1>2 DEF Look, Moves, Going, FilesInv, FilesTypeOK
  <2> QED BY <1>2, <2>1, LookKeepsFiles, GoingOn
<1>3. ASSUME NEW c \in Calls, Open(c) PROVE Left' = Left /\ Outcome' = Outcome
  <2>1. state[c] \in Going /\ state'[c] \in Going
    BY <1>3 DEF Open, Moves, Going, FilesInv, FilesTypeOK
  <2> QED BY <1>3, <2>1, OpenKeepsFiles, GoingOn
<1>4. ASSUME NEW c \in Calls, Fill(c) PROVE Directory!Next \/ (Left' = Left /\ Outcome' = Outcome)
  BY <1>4, FillKeepsFiles, FillMaps
<1>5. ASSUME NEW c \in Calls, Unlink(c) PROVE Left' = Left /\ Outcome' = Outcome
  <2>1. state[c] \in Going /\ state'[c] \in Going
    BY <1>5 DEF Unlink, Moves, Going, FilesInv, FilesTypeOK
  <2> QED BY <1>5, <2>1, UnlinkKeepsFiles, GoingOn
<1>6. ASSUME NEW c \in Calls, Break(c) PROVE Directory!Next
  BY <1>6, BreakKeepsFiles, BreakMaps
<1> QED BY <1>1, <1>2, <1>3, <1>4, <1>5, <1>6 DEF FilesNext, Write

THEOREM FilesInvHolds == FilesSpec => []FilesInv
<1> QED BY FilesInitInv, FilesStep, PTL DEF FilesSpec

\* Exports that write into one directory at once put there what one after the other
\* would have: each report whole, under a name of its own, or a part of it under one
\* name where its process broke off; and nothing that is there changes.
THEOREM FilesAreADirectory == FilesSpec => ImplementsDirectory
<1> QED BY FilesInvHolds, FilesInitMaps, FilesStepMaps, PTL
        DEF FilesSpec, ImplementsDirectory, Directory!Spec
=============================================================================
