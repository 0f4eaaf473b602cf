-------------------------- MODULE RiskAnalyzer_proofs --------------------------
(***************************************************************************)
(* Proofs about RiskAnalyzer, for any transactions, clients, terms of the  *)
(* rules and scores: the types, that a verdict tells the truth about what  *)
(* was assessed and completed so far, that a retry looks no worse, that a  *)
(* refusal in an attempt is final, and that the reports agree; and about   *)
(* Money, for any rates and limits, that nothing is rounded wrong.         *)
(***************************************************************************)
EXTENDS RiskReports, SumFacts

Assessment == [txn : Txns, rules : SUBSET Rules, score : Nat, logged : BOOLEAN, attempt : BOOLEAN]

\* What the analyzer remembers is what happened: every transaction assessed with its
\* own client and moment, every pair a completed transfer had.
Completes == {t \in Txns : stage[t] = "completed"}

Remembers ==
    /\ requested = [t \in Assessed |-> [client |-> ClientOf[t], at |-> RequestedAt[t]]]
    /\ knownPairs = {Pair[t] : t \in Completes} \ {NoPair}

\* A rule other than the frequency, which would fire on t now.
WouldFire(t, r) ==
    \/ r = "large_amount" /\ InBase(t) >= Threshold
    \/ r = "new_recipient" /\ Pair[t] # NoPair /\ (RecentAccount(t) \/ FirstTransfer(t))
    \/ r = "night_operation" /\ LateRequest(t)

\* What would fire on a transaction now has fired on all its attempts.
FiredBefore ==
    \A i \in DOMAIN assessments : \A r \in Rules :
        WouldFire(assessments[i].txn, r) => r \in assessments[i].rules

RiskInv ==
    /\ now \in Nat
    /\ assessments \in Seq(Assessment)
    /\ stage \in [Txns -> Stages]
    /\ Remembers
    /\ FiredBefore /\ RetryLooksNoWorse
-----------------------------------------------------------------------------
LEMMA RulesFire ==
  ASSUME NEW t, NEW known
  PROVE  /\ Fires(t, known) \subseteq Rules
         /\ \A r \in Rules \ {"high_frequency"} : r \in Fires(t, known) <=> WouldFire(t, r)
         /\ "high_frequency" \in Fires(t, known) <=> CountRecent(t, known) >= Frequency
         /\ "new_recipient" \in Fires(t, known) <=>
               Pair[t] # NoPair /\ (RecentAccount(t) \/ FirstTransfer(t))
BY DEF Fires, Rules, WouldFire

\* The score of a verdict is a number: a sum over at most four rules.
LEMMA ScoresAreNumbers ==
  ASSUME NEW t, NEW rules \in SUBSET Rules
  PROVE  Total(t, rules) \in Nat
<1> DEFINE f == [r \in rules |-> ScoreOf(t, r)]
<1>1. \A r \in rules : f[r] \in Nat
  BY RiskAssumption DEF ScoreOf, LargeAmountTerms
<1>2. IsFiniteSet(Rules)
  <2>1. Rules = (({"large_amount"} \cup {"high_frequency"}) \cup {"new_recipient"}) \cup {"night_operation"}
    BY DEF Rules
  <2> QED BY <2>1, FS_Singleton, FS_Union
<1>3. IsFiniteSet(rules) /\ DOMAIN f = rules
  BY <1>2, FS_Subset
<1> HIDE DEF f
<1>4. SumFunctionOnSet(f, rules) \in Nat
  BY <1>1, <1>3, SumType
<1> QED BY <1>3, <1>4 DEF Total, SumFunction, f

\* Every verdict is about a transaction.
LEMMA AssessedAreTxns ==
  ASSUME RiskInv
  PROVE  /\ \A i \in DOMAIN assessments : assessments[i].txn \in Txns
         /\ Assessed \subseteq Txns
<1> DEFINE P == Assessment
<1>1. assessments \in Seq(P)
  BY DEF RiskInv
<1>2. \A v \in P : v.txn \in Txns
  BY DEF Assessment
<1> HIDE DEF P
<1>3. \A i \in DOMAIN assessments : assessments[i] \in P
  BY <1>1
<1> QED BY <1>2, <1>3 DEF Assessed

\* Adding a verdict at the end.
LEMMA OneVerdict ==
  ASSUME assessments \in Seq(Assessment), NEW v \in Assessment,
         assessments' = Append(assessments, v)
  PROVE  \E n \in Nat :
           /\ DOMAIN assessments = 1 .. n /\ DOMAIN assessments' = 1 .. n + 1
           /\ assessments' \in Seq(Assessment)
           /\ assessments'[n + 1] = v
           /\ \A i \in 1 .. n : assessments'[i] = assessments[i]
           /\ Assessed' = Assessed \cup {v.txn}
<1> DEFINE P == Assessment
<1> HIDE DEF P
<1>1. PICK n \in Nat : n = Len(assessments)
  BY DEF P
<1>2. /\ DOMAIN assessments = 1 .. n /\ DOMAIN assessments' = 1 .. n + 1
      /\ assessments' \in Seq(P) /\ assessments'[n + 1] = v
      /\ \A i \in 1 .. n : assessments'[i] = assessments[i]
  <2>1. assessments \in Seq(P) /\ v \in P
    BY DEF P
  <2> QED BY <1>1, <2>1
<1>3. Assessed' = {assessments'[i].txn : i \in 1 .. n + 1} /\ Assessed = {assessments[i].txn : i \in 1 .. n}
  BY <1>2 DEF Assessed
<1>4. 1 .. n + 1 = 1 .. n \cup {n + 1}
  BY <1>1
<1>5. Assessed' = Assessed \cup {v.txn}
  BY <1>2, <1>3, <1>4
<1> QED BY <1>1, <1>2, <1>5 DEF P

\* A verdict v on t is the last one now, after n others.
NewVerdict(t, n, v) ==
    /\ DOMAIN assessments = 1 .. n /\ DOMAIN assessments' = 1 .. n + 1
    /\ assessments' \in Seq(Assessment)
    /\ assessments'[n + 1] = v
    /\ \A i \in 1 .. n : assessments'[i] = assessments[i]
    /\ v.txn = t /\ v.rules = Fires(t, requested')
    /\ Assessed' = Assessed \cup {t}
    /\ requested' = [u \in Assessed \cup {t} |-> [client |-> ClientOf[u], at |-> RequestedAt[u]]]
    /\ now' = now /\ knownPairs' = knownPairs

\* What screen() does, in an attempt or apart.
LEMMA ScreenFacts ==
  ASSUME RiskInv, NEW t \in Txns, NEW attempt \in BOOLEAN, NEW written \in BOOLEAN,
         Screen(Verdict(t, attempt, written))
  PROVE  /\ Verdict(t, attempt, written) \in Assessment
         /\ Verdict(t, attempt, written).attempt = attempt
         /\ Verdict(t, attempt, written).logged = written
         /\ \E n \in Nat : NewVerdict(t, n, Verdict(t, attempt, written))
<1> DEFINE v == Verdict(t, attempt, written)
<1>1. v.txn = t /\ v.attempt = attempt /\ v.logged = written
  BY DEF Verdict
<1>2. /\ requested' = Remembered(t) /\ assessments' = Append(assessments, v)
      /\ now' = now /\ knownPairs' = knownPairs
  BY <1>1 DEF Screen
<1>3. requested' = [u \in Assessed \cup {t} |-> [client |-> ClientOf[u], at |-> RequestedAt[u]]]
  BY <1>2 DEF Remembered, RiskInv, Remembers
<1>4. v.rules = Fires(t, requested')
  BY <1>2 DEF Verdict
<1>5. v \in Assessment
  <2>1. PICK rules : rules = Fires(t, Remembered(t))
    OBVIOUS
  <2>2. rules \in SUBSET Rules
    BY <2>1, RulesFire
  <2>3. Total(t, rules) \in Nat
    BY <2>2, ScoresAreNumbers
  <2>4. v = [txn |-> t, rules |-> rules, score |-> Total(t, rules), logged |-> written,
             attempt |-> attempt]
    BY <2>1 DEF Verdict
  <2> QED BY <2>2, <2>3, <2>4 DEF Assessment
<1> HIDE DEF v
<1>6. PICK n \in Nat :
           /\ DOMAIN assessments = 1 .. n /\ DOMAIN assessments' = 1 .. n + 1
           /\ assessments' \in Seq(Assessment)
           /\ assessments'[n + 1] = v
           /\ \A i \in 1 .. n : assessments'[i] = assessments[i]
           /\ Assessed' = Assessed \cup {v.txn}
  BY <1>2, <1>5, OneVerdict DEF RiskInv
<1>7. NewVerdict(t, n, v)
  BY <1>1, <1>2, <1>3, <1>4, <1>6 DEF NewVerdict
<1> QED BY <1>1, <1>5, <1>7 DEF v

\* What an attempt does that comes to screen().
LEMMA AssessFacts ==
  ASSUME RiskInv, NEW t \in Txns, Assess(t)
  PROVE  \E n \in Nat, v \in Assessment :
           /\ NewVerdict(t, n, v) /\ v.attempt
           /\ stage[t] = "waiting"
           /\ stage' = [stage EXCEPT ![t] = IF ~Blocked(v) /\ v.logged THEN "moving" ELSE "failed"]
<1>1. stage[t] = "waiting" /\ \E w \in BOOLEAN :
        /\ Screen(Verdict(t, TRUE, w))
        /\ stage' = [stage EXCEPT ![t] = IF ~Blocked(Verdict(t, TRUE, w)) /\ w
                                           THEN "moving" ELSE "failed"]
  BY DEF Assess
<1>2. PICK w \in BOOLEAN :
        /\ Screen(Verdict(t, TRUE, w))
        /\ stage' = [stage EXCEPT ![t] = IF ~Blocked(Verdict(t, TRUE, w)) /\ w
                                           THEN "moving" ELSE "failed"]
  BY <1>1
<1>3. PICK v : v = Verdict(t, TRUE, w)
  OBVIOUS
<1>4. v \in Assessment /\ v.attempt /\ v.logged = w /\ \E n \in Nat : NewVerdict(t, n, v)
  BY <1>2, <1>3, ScreenFacts, Zenon
<1> QED BY <1>1, <1>2, <1>3, <1>4

\* What screen() does without the processor.
LEMMA ApartFacts ==
  ASSUME RiskInv, NEW t \in Txns, ScreenApart(t)
  PROVE  \E n \in Nat, v \in Assessment : NewVerdict(t, n, v) /\ ~v.attempt /\ stage' = stage
<1>1. stage' = stage /\ \E w \in BOOLEAN : Screen(Verdict(t, FALSE, w))
  BY DEF ScreenApart
<1>2. PICK w \in BOOLEAN : Screen(Verdict(t, FALSE, w))
  BY <1>1
<1>3. PICK v : v = Verdict(t, FALSE, w)
  OBVIOUS
<1>4. v \in Assessment /\ ~v.attempt /\ \E n \in Nat : NewVerdict(t, n, v)
  BY <1>2, <1>3, ScreenFacts, Zenon
<1> QED BY <1>1, <1>4
-----------------------------------------------------------------------------
LEMMA RiskInitInv == RiskInit => RiskInv
<1> SUFFICES ASSUME RiskInit PROVE RiskInv
  OBVIOUS
<1>1. now \in Nat
  BY ClockAssumption DEF RiskInit
<1>2. assessments = <<>> /\ DOMAIN assessments = {} /\ assessments \in Seq(Assessment)
  BY DEF RiskInit
<1>3. Assessed = {}
  BY <1>2 DEF Assessed
<1>4. stage \in [Txns -> Stages] /\ Completes = {}
  BY DEF RiskInit, Completes, Stages
<1>5. requested = [t \in {} |-> [client |-> ClientOf[t], at |-> RequestedAt[t]]]
  BY DEF RiskInit
<1> QED BY <1>1, <1>2, <1>3, <1>4, <1>5 DEF RiskInit, RiskInv, Remembers, FiredBefore, RetryLooksNoWorse

\* What would fire now would have fired before: time passes, accounts grow older and
\* pairs become known.
LEMMA LessFires ==
  ASSUME now \in Nat, now' \in Nat, now <= now', knownPairs \subseteq knownPairs',
         NEW t \in Txns, NEW r
  PROVE  WouldFire(t, r)' => WouldFire(t, r)
<1>1. RecentAccount(t)' => RecentAccount(t)
  BY RiskAssumption DEF RecentAccount, NewRecipientTerms
<1>2. FirstTransfer(t)' => FirstTransfer(t)
  BY DEF FirstTransfer
<1> QED BY <1>1, <1>2 DEF WouldFire, LateRequest, InBase

\* One verdict more, whoever asked for it.
LEMMA VerdictKeepsRisk ==
  ASSUME RiskInv, NEW t \in Txns, NEW n \in Nat, NEW v \in Assessment, NewVerdict(t, n, v),
         stage' \in [Txns -> Stages], Completes' = Completes
  PROVE  RiskInv'
<1>1. /\ DOMAIN assessments = 1 .. n /\ DOMAIN assessments' = 1 .. n + 1
      /\ assessments' \in Seq(Assessment)
      /\ assessments'[n + 1] = v
      /\ \A i \in 1 .. n : assessments'[i] = assessments[i]
      /\ v.txn = t /\ v.rules = Fires(t, requested')
      /\ Assessed' = Assessed \cup {t}
      /\ requested' = [u \in Assessed \cup {t} |-> [client |-> ClientOf[u], at |-> RequestedAt[u]]]
  BY DEF NewVerdict
<1>2. now' = now /\ knownPairs' = knownPairs /\ now \in Nat /\ now <= now'
  BY DEF NewVerdict, RiskInv
<1>3. stage' \in [Txns -> Stages] /\ Completes' = Completes
  OBVIOUS
<1>4. Remembers'
  BY <1>1, <1>2, <1>3 DEF RiskInv, Remembers
<1>5. \A u \in Txns, r \in Rules : WouldFire(u, r)' => WouldFire(u, r)
  BY <1>2, LessFires
<1>6. \A i \in DOMAIN assessments' : i = n + 1 \/ i \in 1 .. n
  BY <1>1
<1>7. \A i \in 1 .. n : assessments[i].txn \in Txns
  BY <1>1, AssessedAreTxns
<1>8. ASSUME NEW r \in Rules, WouldFire(t, r) PROVE r \in v.rules
  <2>1. r # "high_frequency"
    BY <1>8 DEF WouldFire
  <2> QED BY <1>1, <1>8, <2>1, RulesFire
<1>9. ASSUME NEW i \in DOMAIN assessments', NEW r \in Rules, NEW u \in Txns,
             u = assessments'[i].txn, WouldFire(u, r)
      PROVE  r \in assessments'[i].rules
  <2>1. CASE i = n + 1
    BY <1>1, <1>8, <1>9, <2>1
  <2>2. CASE i \in 1 .. n
    BY <1>1, <1>9, <2>2 DEF RiskInv, FiredBefore
  <2> QED BY <1>6, <2>1, <2>2
<1>10. \A i \in DOMAIN assessments' : assessments'[i].txn \in Txns
  BY <1>1, <1>6, <1>7
<1>11. FiredBefore'
  <2>1. \A i \in DOMAIN assessments', r \in Rules : \A u \in Txns :
           u = assessments'[i].txn /\ WouldFire(u, r)' => r \in assessments'[i].rules
    BY <1>5, <1>9
  <2> QED BY <1>10, <2>1, Zenon DEF FiredBefore
<1>12. RetryLooksNoWorse'
  <2> SUFFICES ASSUME NEW i \in DOMAIN assessments', NEW j \in DOMAIN assessments', i < j,
                      assessments'[i].txn = assessments'[j].txn,
                      NEW r \in assessments'[j].rules, r # "high_frequency"
               PROVE  r \in assessments'[i].rules
    BY DEF RetryLooksNoWorse
  <2>1. i \in 1 .. n /\ assessments'[i] = assessments[i]
    BY <1>1
  <2>2. CASE j \in 1 .. n
    BY <1>1, <2>1, <2>2 DEF RiskInv, RetryLooksNoWorse
  <2>3. CASE j = n + 1
    <3>1. r \in Rules /\ WouldFire(t, r)
      BY <1>1, <2>3, RulesFire
    <3>2. assessments[i].txn = t
      BY <1>1, <2>1, <2>3
    <3> QED BY <1>1, <2>1, <3>1, <3>2 DEF RiskInv, FiredBefore
  <2> QED BY <1>6, <2>2, <2>3
<1> QED BY <1>1, <1>2, <1>3, <1>4, <1>12, <1>11 DEF RiskInv

\* The steps that assess nothing.
LEMMA NoVerdictKeepsRisk ==
  ASSUME RiskInv, UNCHANGED <<requested, assessments>>,
         now' \in Nat, now <= now', knownPairs \subseteq knownPairs',
         stage' \in [Txns -> Stages], knownPairs' = {Pair[t] : t \in Completes'} \ {NoPair}
  PROVE  RiskInv'
<1>1. Assessed' = Assessed
  BY DEF Assessed
<1>2. Remembers'
  BY <1>1 DEF RiskInv, Remembers
<1>3. \A i \in DOMAIN assessments : assessments[i].txn \in Txns
  BY AssessedAreTxns
<1>4. \A i \in DOMAIN assessments : \A r \in Rules :
         WouldFire(assessments[i].txn, r)' => WouldFire(assessments[i].txn, r)
  <2> SUFFICES ASSUME NEW i \in DOMAIN assessments, NEW r \in Rules,
                      WouldFire(assessments[i].txn, r)'
               PROVE  WouldFire(assessments[i].txn, r)
    OBVIOUS
  <2>1. PICK t \in Txns : t = assessments[i].txn
    BY <1>3
  <2>2. WouldFire(t, r)' => WouldFire(t, r)
    BY LessFires DEF RiskInv
  <2>3. assessments'[i].txn = t
    BY <2>1
  <2> QED BY <2>1, <2>2, <2>3
<1>5. FiredBefore'
  BY <1>4 DEF RiskInv, FiredBefore
<1> QED BY <1>2, <1>5 DEF RiskInv, RetryLooksNoWorse

LEMMA RiskStep == RiskInv /\ [RiskNext]_riskVars => RiskInv'
<1> SUFFICES ASSUME RiskInv, [RiskNext]_riskVars PROVE RiskInv'
  OBVIOUS
<1>1. /\ now \in Nat /\ now <= now /\ stage \in [Txns -> Stages]
      /\ knownPairs = {Pair[t] : t \in Completes} \ {NoPair}
  BY DEF RiskInv, Remembers
<1>2. ASSUME NEW t \in Txns, Assess(t) PROVE RiskInv'
  <2>1. PICK n \in Nat, v \in Assessment :
          /\ NewVerdict(t, n, v) /\ stage[t] = "waiting"
          /\ stage' = [stage EXCEPT ![t] = IF ~Blocked(v) /\ v.logged THEN "moving" ELSE "failed"]
    BY <1>2, AssessFacts
  <2>2. stage' \in [Txns -> Stages] /\ Completes' = Completes
    BY <1>1, <2>1 DEF Stages, Completes
  <2> QED BY <2>1, <2>2, VerdictKeepsRisk
<1>3. ASSUME NEW t \in Txns, ScreenApart(t) PROVE RiskInv'
  <2>1. PICK n \in Nat, v \in Assessment : NewVerdict(t, n, v) /\ stage' = stage
    BY <1>3, ApartFacts
  <2>2. stage' \in [Txns -> Stages] /\ Completes' = Completes
    BY <1>1, <2>1 DEF Completes
  <2> QED BY <2>1, <2>2, VerdictKeepsRisk
<1>4. ASSUME NEW t \in Txns, Completed(t) PROVE RiskInv'
  <2>1. stage' \in [Txns -> Stages] /\ Completes' = Completes \cup {t}
    BY <1>1, <1>4 DEF Completed, Completes, Stages
  <2>2. knownPairs' = {Pair[u] : u \in Completes'} \ {NoPair}
    BY <1>1, <1>4, <2>1 DEF Completed
  <2>3. /\ UNCHANGED <<requested, assessments, now>> /\ knownPairs \subseteq knownPairs'
    BY <1>4 DEF Completed
  <2> QED BY <1>1, <2>1, <2>2, <2>3, NoVerdictKeepsRisk
<1>5. ASSUME NEW t \in Txns, AttemptFailed(t) PROVE RiskInv'
  <2>1. stage' \in [Txns -> Stages] /\ Completes' = Completes
    BY <1>1, <1>5 DEF AttemptFailed, Completes, Stages
  <2>2. UNCHANGED <<requested, assessments, now, knownPairs>>
    BY <1>5 DEF AttemptFailed
  <2> QED BY <1>1, <2>1, <2>2, NoVerdictKeepsRisk
<1>6. CASE TimePasses
  <2>1. now' \in Nat /\ now <= now' /\ UNCHANGED <<requested, knownPairs, assessments, stage>>
    BY <1>1, <1>6 DEF TimePasses, Tick
  <2>2. Completes' = Completes
    BY <2>1 DEF Completes
  <2> QED BY <1>1, <2>1, <2>2, NoVerdictKeepsRisk
<1>7. CASE UNCHANGED riskVars
  <2>1. UNCHANGED <<now, requested, knownPairs, assessments, stage>> /\ Completes' = Completes
    BY <1>7 DEF riskVars, Completes
  <2> QED BY <1>1, <2>1, NoVerdictKeepsRisk
<1> QED BY <1>2, <1>4, <1>5, <1>6, <1>7, <1>3 DEF RiskNext
-----------------------------------------------------------------------------
THEOREM RiskInvHolds == RiskSpec => []RiskInv
<1> QED BY RiskInitInv, RiskStep, PTL DEF RiskSpec

\* The types of what the analyzer remembers and of its verdicts.
THEOREM RiskTypesHold == RiskSpec => []RiskTypeOK
<1>1. ASSUME RiskInv PROVE RiskTypeOK
  <2>1. Assessed \subseteq Txns
    BY <1>1, AssessedAreTxns
  <2>2. DOMAIN requested = Assessed
    BY <1>1 DEF RiskInv, Remembers
  <2>3. \A t \in Assessed : requested[t] \in [client : {ClientOf[u] : u \in Txns}, at : Nat]
    BY <1>1, <2>1, RiskAssumption DEF RiskInv, Remembers
  <2>4. knownPairs \subseteq {Pair[t] : t \in Txns} \ {NoPair}
    BY <1>1 DEF RiskInv, Remembers, Completes
  <2> QED BY <1>1, <2>2, <2>3, <2>4 DEF RiskInv, RiskTypeOK, Assessment
<1> QED BY <1>1, RiskInvHolds, PTL

\* A retry looks no worse than the attempts before it, but for the frequency.
THEOREM RetriesLookNoWorse == RiskSpec => []RetryLooksNoWorse
<1>1. RiskInv => RetryLooksNoWorse
  BY DEF RiskInv
<1> QED BY <1>1, RiskInvHolds, PTL

\* The frequency rule counts the transactions of the client's window, each once.
LEMMA CountIsWindow ==
  ASSUME RiskInv, NEW t \in Txns, NEW known,
         known = [u \in Assessed \cup {t} |-> [client |-> ClientOf[u], at |-> RequestedAt[u]]]
  PROVE  CountRecent(t, known)
           = Cardinality({u \in Assessed \cup {t} :
                            /\ ClientOf[u] = ClientOf[t]
                            /\ RequestedAt[u] \in (RequestedAt[t] - Window + 1) .. RequestedAt[t]})
<1> DEFINE W == {u \in Assessed \cup {t} :
                   /\ ClientOf[u] = ClientOf[t]
                   /\ RequestedAt[u] \in (RequestedAt[t] - Window + 1) .. RequestedAt[t]}
<1> DEFINE others == {u \in DOMAIN known \ {t} : /\ known[u].client = ClientOf[t]
                                                 /\ RequestedAt[t] - Window < known[u].at
                                                 /\ known[u].at <= RequestedAt[t]}
<1>1. Assessed \subseteq Txns /\ \A u \in Txns : RequestedAt[u] \in Nat
  BY RiskAssumption, AssessedAreTxns
<1>2. Window \in Nat \ {0}
  BY RiskAssumption DEF HighFrequencyTerms
<1>3. t \in W
  BY <1>1, <1>2
<1>4. others = W \ {t}
  BY <1>1, <1>2
<1>5. IsFiniteSet(W)
  <2>1. PICK n \in Nat : DOMAIN assessments = 1 .. n
    BY DEF RiskInv
  <2> DEFINE f == [i \in 1 .. n |-> assessments[i].txn]
  <2>2. f \in Surjection(1 .. n, Assessed)
    BY <2>1 DEF Assessed, Surjection
  <2>3. IsFiniteSet(1 .. n)
    BY FS_Interval
  <2>4. IsFiniteSet(Assessed)
    BY <2>2, <2>3, FS_Surjection
  <2>5. IsFiniteSet(Assessed \cup {t})
    BY <2>4, FS_AddElement
  <2> QED BY <2>5, FS_Subset
<1>6. Cardinality(W \ {t}) = Cardinality(W) - 1 /\ Cardinality(W) \in Nat
  BY <1>3, <1>5, FS_RemoveElement, FS_CardinalityType
<1>7. CountRecent(t, known) = 1 + Cardinality(others)
  BY DEF CountRecent
<1> HIDE DEF W, others
<1>8. CountRecent(t, known) = Cardinality(W)
  BY <1>4, <1>6, <1>7
<1> QED BY <1>8 DEF W

\* A verdict tells the truth: the frequency over every transaction assessed so far,
\* at the moments their clients asked for them, the recipient over every completed
\* transfer, whatever was retried, failed or came in another order.
THEOREM VerdictsAreTrue == RiskSpec => FactorsTrue
<1> DEFINE True(i) ==
      LET t     == assessments'[i].txn
          rules == assessments'[i].rules
          sameWindow == {u \in Assessed \cup {t} :
                           /\ ClientOf[u] = ClientOf[t]
                           /\ RequestedAt[u] \in (RequestedAt[t] - Window + 1) .. RequestedAt[t]}
          paid == {Pair[u] : u \in {v \in Txns : stage[v] = "completed"}}
      IN  /\ "high_frequency" \in rules <=> Cardinality(sameWindow) >= Frequency
          /\ "new_recipient" \in rules <=>
               Pair[t] # NoPair /\ (RecentAccount(t) \/ Pair[t] \notin paid)
<1>1. ASSUME RiskInv, [RiskNext]_riskVars, NEW i \in DOMAIN assessments' \ DOMAIN assessments
      PROVE  True(i)
  <2>1. PICK t \in Txns : Assess(t) \/ ScreenApart(t)
    <3>1. assessments' # assessments
      BY <1>1
    <3> QED BY <1>1, <3>1 DEF RiskNext, Completed, AttemptFailed, TimePasses, riskVars
  <2>2. PICK n \in Nat, v \in Assessment :
           /\ DOMAIN assessments = 1 .. n /\ DOMAIN assessments' = 1 .. n + 1
           /\ assessments'[n + 1] = v
           /\ v.txn = t /\ v.rules = Fires(t, requested')
           /\ requested' = [u \in Assessed \cup {t} |-> [client |-> ClientOf[u], at |-> RequestedAt[u]]]
    <3>1. PICK n \in Nat, v \in Assessment : NewVerdict(t, n, v)
      BY <1>1, <2>1, AssessFacts, ApartFacts
    <3> QED BY <3>1 DEF NewVerdict
  <2>3. i = n + 1
    BY <1>1, <2>2
  <2>4. assessments'[i].txn = t /\ assessments'[i].rules = Fires(t, requested')
    BY <2>2, <2>3
  <2>5. "high_frequency" \in Fires(t, requested') <=>
          Cardinality({u \in Assessed \cup {t} :
                         /\ ClientOf[u] = ClientOf[t]
                         /\ RequestedAt[u] \in (RequestedAt[t] - Window + 1) .. RequestedAt[t]}) >= Frequency
    <3>1. PICK known : known = requested'
      OBVIOUS
    <3>2. known = [u \in Assessed \cup {t} |-> [client |-> ClientOf[u], at |-> RequestedAt[u]]]
      BY <2>2, <3>1
    <3>3. CountRecent(t, known)
            = Cardinality({u \in Assessed \cup {t} :
                             /\ ClientOf[u] = ClientOf[t]
                             /\ RequestedAt[u] \in (RequestedAt[t] - Window + 1) .. RequestedAt[t]})
      BY <1>1, <3>2, CountIsWindow
    <3>4. "high_frequency" \in Fires(t, known) <=> CountRecent(t, known) >= Frequency
      BY RulesFire
    <3> QED BY <3>1, <3>3, <3>4
  <2>6. "new_recipient" \in Fires(t, requested') <=>
          Pair[t] # NoPair
            /\ (RecentAccount(t) \/ Pair[t] \notin {Pair[u] : u \in {w \in Txns : stage[w] = "completed"}})
    <3>1. PICK known : known = requested'
      OBVIOUS
    <3>2. FirstTransfer(t) <=> Pair[t] \notin {Pair[u] : u \in Completes} \ {NoPair}
      BY <1>1 DEF FirstTransfer, RiskInv, Remembers
    <3> QED BY <3>1, <3>2, RulesFire DEF Completes
  <2> QED BY <2>4, <2>5, <2>6
<1>2. RiskInv /\ [RiskNext]_riskVars
        => [\A i \in DOMAIN assessments' \ DOMAIN assessments : True(i)]_riskVars
  <2> HIDE DEF True
  <2> QED BY <1>1
<1> QED BY <1>2, RiskInvHolds, PTL DEF RiskSpec, FactorsTrue
-----------------------------------------------------------------------------
(***************************************************************************)
(* Rounding, conversions and the commission, for any amounts and rates.    *)
(***************************************************************************)
\* A rounded amount is within half a cent of what it stands for.
LEMMA RoundedIsNearest ==
  ASSUME NEW n \in Nat, NEW d \in Nat \ {0}
  PROVE  Nearest(ToMoney(n, d), n, d)
<1>1. PICK x \in Nat : /\ x = ToMoney(n, d) /\ 2 * d * x <= 2 * n + d
                       /\ 2 * n + d < 2 * d * x + 2 * d
  BY RoundedIs
<1>2. PICK p \in Nat : p = 2 * d * x /\ p = 2 * x * d
  OBVIOUS
<1>3. p \in (2 * n - d) .. (2 * n + d)
  BY <1>1, <1>2
<1> QED BY <1>1, <1>2, <1>3 DEF Nearest

\* A larger fraction is not rounded to less, so that equal ones are rounded alike.
LEMMA RoundingGrows ==
  ASSUME NEW m \in Nat, NEW c \in Nat \ {0}, NEW n \in Nat, NEW d \in Nat \ {0},
         m * d <= n * c
  PROVE  ToMoney(m, c) <= ToMoney(n, d)
<1>1. PICK x \in Nat : /\ x = ToMoney(m, c) /\ 2 * c * x <= 2 * m + c
                       /\ 2 * m + c < 2 * c * x + 2 * c
  BY RoundedIs
<1>2. PICK y \in Nat : /\ y = ToMoney(n, d) /\ 2 * d * y <= 2 * n + d
                       /\ 2 * n + d < 2 * d * y + 2 * d
  BY RoundedIs
<1>3. SUFFICES ASSUME y + 1 <= x PROVE FALSE
  BY <1>1, <1>2
<1>4. 2 * d * (y + 1) <= 2 * d * x
  BY <1>3, Cancelled
<1>5. 2 * n + d < 2 * d * x
  BY <1>2, <1>4
<1>6. d * (2 * c * x) <= d * (2 * m + c)
  BY <1>1, Cancelled
<1>7. c * (2 * n + d + 1) <= c * (2 * d * x)
  <2>1. 2 * n + d + 1 <= 2 * d * x
    BY <1>5
  <2> QED BY <2>1, Cancelled
<1>8. /\ d * (2 * c * x) = 2 * (c * d * x) /\ c * (2 * d * x) = 2 * (c * d * x)
      /\ d * (2 * m + c) = 2 * (m * d) + c * d /\ c * (2 * n + d + 1) = 2 * (n * c) + c * d + c
      /\ c * d * x \in Nat /\ m * d \in Nat /\ n * c \in Nat /\ c * d \in Nat
  OBVIOUS
<1> QED BY <1>6, <1>7, <1>8

LEMMA RoundingReduces ==
  ASSUME NEW n \in Nat, NEW d \in Nat \ {0}, NEW k \in Nat \ {0}, NEW m, NEW c, m = k * n, c = k * d
  PROVE  ToMoney(m, c) = ToMoney(n, d)
<1>1. m \in Nat /\ c \in Nat \ {0} /\ m * d = n * c
  OBVIOUS
<1>2. ToMoney(m, c) <= ToMoney(n, d) /\ ToMoney(n, d) <= ToMoney(m, c)
  BY <1>1, RoundingGrows
<1>3. ToMoney(m, c) \in Nat /\ ToMoney(n, d) \in Nat
  BY <1>1, RoundedIs
<1> QED BY <1>2, <1>3

\* What is not within the limits is charged at the limit.
LEMMA LimitedFee ==
  ASSUME NEW share \in Int, NEW low \in Int, NEW high \in Int, low <= high
  PROVE  LET fee == Min({Max({share, low}), high})
         IN  /\ share <= low => fee = low
             /\ high <= share => fee = high
             /\ low <= share /\ share <= high => fee = share
<1>1. ASSUME NEW m \in Int, NEW n \in Int
      PROVE  Max({m, n}) = (IF m <= n THEN n ELSE m) /\ Min({m, n}) = (IF m <= n THEN m ELSE n)
  BY DEF Max, Min
<1>2. PICK top \in Int : top = Max({share, low}) /\ top = IF share <= low THEN low ELSE share
  BY <1>1
<1>3. Min({top, high}) = IF top <= high THEN top ELSE high
  BY <1>1
<1> QED BY <1>2, <1>3

\* The rates of a currency.
LEMMA RatesAre ==
  ASSUME NEW c \in Currencies
  PROVE  Rate[c].num \in Nat \ {0} /\ Rate[c].den \in Nat \ {0}
BY ConverterAssumption DEF RateTable, Fractions

\* The commission is one of three amounts, each rounded once.
LowFee(c) == ToMoney(MinimumFee * Rate[c].den, Rate[c].num)
HighFee(c) == ToMoney(MaximumFee * Rate[c].den, Rate[c].num)
ShareOf(amount) == ToMoney(amount * FeeRate.num, FeeRate.den)

LEMMA FeeIs ==
  ASSUME NEW amount \in Nat, NEW c \in Currencies
  PROVE  /\ LowFee(c) \in Nat /\ HighFee(c) \in Nat /\ ShareOf(amount) \in Nat
         /\ LowFee(c) <= HighFee(c)
         /\ ExternalFee(amount, c) = Min({Max({ShareOf(amount), LowFee(c)}), HighFee(c)})
<1>1. PICK num \in Nat \ {0}, den \in Nat \ {0} : num = Rate[c].num /\ den = Rate[c].den
  BY RatesAre
<1>2. PICK one \in Nat \ {0} : one = Rate[Base].num /\ one = Rate[Base].den
  BY ConverterAssumption DEF RateTable, Fractions
<1>3. /\ MinimumFee \in Nat /\ MaximumFee \in Nat /\ MinimumFee <= MaximumFee
      /\ FeeRate.num \in Nat /\ FeeRate.den \in Nat \ {0}
  BY FeeAssumption DEF FeeTerms
<1>4. ASSUME NEW limit \in Nat
      PROVE  /\ limit * den \in Nat /\ Convert(limit, Base, c) = ToMoney(limit * den, num)
             /\ ToMoney(limit * den, num) \in Nat
  <2>1. limit * one * den = one * (limit * den) /\ limit * den \in Nat
    OBVIOUS
  <2>2. ToMoney(limit * one * den, one * num) = ToMoney(limit * den, num)
    BY <2>1, RoundingReduces
  <2> QED BY <1>1, <1>2, <2>1, <2>2, RoundedIs DEF Convert
<1>5. ToMoney(MinimumFee * den, num) <= ToMoney(MaximumFee * den, num)
  <2>1. PICK m \in Nat, n \in Nat : m = MinimumFee /\ n = MaximumFee /\ m <= n
    BY <1>3
  <2>2. PICK k \in Nat \ {0} : k = den * num
    OBVIOUS
  <2>3. k * m <= k * n
    BY <2>1, Cancelled
  <2>4. (m * den) * num = k * m /\ (n * den) * num = k * n /\ m * den \in Nat /\ n * den \in Nat
    BY <2>2
  <2> QED BY <2>1, <2>3, <2>4, RoundingGrows
<1>6. amount * FeeRate.num \in Nat
  BY <1>3
<1>7. ToMoney(amount * FeeRate.num, FeeRate.den) \in Nat
  BY <1>3, <1>6, RoundedIs
<1> QED BY <1>1, <1>3, <1>4, <1>5, <1>7 DEF ExternalFee, LowFee, HighFee, ShareOf

LEMMA ConversionsAreExact ==
  ASSUME NEW amount \in Nat, NEW c \in Currencies
  PROVE  ConversionExact(amount, c)
<1> SUFFICES ASSUME NEW d \in Currencies
             PROVE  Nearest(Convert(amount, c, d), amount * Rate[c].num * Rate[d].den,
                                                   Rate[c].den * Rate[d].num)
  BY DEF ConversionExact
<1>1. /\ amount * Rate[c].num * Rate[d].den \in Nat
      /\ Rate[c].den * Rate[d].num \in Nat \ {0}
  <2>1. PICK m \in Nat \ {0}, n \in Nat \ {0}, k \in Nat \ {0}, l \in Nat \ {0} :
          m = Rate[c].num /\ n = Rate[c].den /\ k = Rate[d].num /\ l = Rate[d].den
    BY RatesAre
  <2>2. amount * m * l \in Nat /\ n * k \in Nat \ {0}
    OBVIOUS
  <2> QED BY <2>1, <2>2
<1> QED BY <1>1, RoundedIsNearest DEF Convert

LEMMA FeesAreExact ==
  ASSUME NEW amount \in Nat, NEW c \in Currencies
  PROVE  FeeExact(amount, c)
<1>1. PICK num \in Nat \ {0}, den \in Nat \ {0} : num = Rate[c].num /\ den = Rate[c].den
  BY RatesAre
<1>2. PICK least \in Nat, most \in Nat, part \in Nat, whole \in Nat \ {0} :
        least = MinimumFee /\ most = MaximumFee /\ part = FeeRate.num /\ whole = FeeRate.den
  BY FeeAssumption DEF FeeTerms
<1>3. PICK low \in Nat, high \in Nat, share \in Nat :
           /\ low = LowFee(c) /\ high = HighFee(c) /\ share = ShareOf(amount)
           /\ low <= high /\ ExternalFee(amount, c) = Min({Max({share, low}), high})
  <2>1. /\ LowFee(c) \in Nat /\ HighFee(c) \in Nat /\ ShareOf(amount) \in Nat
        /\ LowFee(c) <= HighFee(c)
        /\ ExternalFee(amount, c) = Min({Max({ShareOf(amount), LowFee(c)}), HighFee(c)})
    BY FeeIs
  <2> QED BY <2>1, Zenon
<1>4. /\ low = ToMoney(least * den, num) /\ high = ToMoney(most * den, num)
       /\ share = ToMoney(amount * part, whole)
  BY <1>1, <1>2, <1>3 DEF LowFee, HighFee, ShareOf
<1> DEFINE fee == ExternalFee(amount, c)
<1>5. /\ share <= low => fee = low
      /\ high <= share => fee = high
      /\ low <= share /\ share <= high => fee = share
  BY <1>3, LimitedFee
<1> HIDE DEF fee
<1>6. /\ amount * part \in Nat /\ least * den \in Nat /\ most * den \in Nat
      /\ amount * part * num \in Int /\ least * (whole * den) \in Int /\ most * (whole * den) \in Int
      /\ (least * den) * whole = least * (whole * den) /\ (most * den) * whole = most * (whole * den)
  OBVIOUS
<1>7. least * (whole * den) <= most * (whole * den)
  <2>1. least <= most
    BY <1>2, FeeAssumption DEF FeeTerms
  <2>2. PICK k \in Nat \ {0} : k = whole * den
    OBVIOUS
  <2>3. k * least <= k * most
    BY <2>1, Cancelled
  <2>4. k * least = least * k /\ k * most = most * k
    OBVIOUS
  <2> QED BY <2>2, <2>3, <2>4
<1>8. FeeExact(amount, c) =
        CASE amount * part * num < least * (whole * den) -> Nearest(fee, least * den, num)
          [] amount * part * num > most * (whole * den) -> Nearest(fee, most * den, num)
          [] OTHER -> Nearest(fee, amount * part, whole)
  BY <1>1, <1>2, Zenon DEF FeeExact, fee
<1>9. CASE amount * part * num < least * (whole * den)
  <2>1. (amount * part) * num <= (least * den) * whole
    BY <1>6, <1>9
  <2>2. share <= low
    BY <1>6, <1>4, <2>1, RoundingGrows
  <2>3. Nearest(fee, least * den, num)
    BY <1>5, <1>6, <1>4, <2>2, RoundedIsNearest
  <2> QED BY <1>6, <1>9, <1>8, <1>7, <2>3
<1>10. CASE amount * part * num > most * (whole * den)
  <2>1. (most * den) * whole <= (amount * part) * num
    BY <1>6, <1>10
  <2>2. high <= share
    BY <1>6, <1>4, <2>1, RoundingGrows
  <2>3. Nearest(fee, most * den, num)
    BY <1>5, <1>6, <1>4, <2>2, RoundedIsNearest
  <2> QED BY <1>6, <1>10, <1>8, <1>7, <2>3
<1>11. CASE ~(amount * part * num < least * (whole * den)) /\ ~(amount * part * num > most * (whole * den))
  <2>1. (least * den) * whole <= (amount * part) * num /\ (amount * part) * num <= (most * den) * whole
    BY <1>6, <1>11
  <2>2. low <= share /\ share <= high
    BY <1>6, <1>4, <2>1, RoundingGrows
  <2>3. Nearest(fee, amount * part, whole)
    BY <1>5, <1>6, <1>4, <2>2, RoundedIsNearest
  <2> QED BY <1>11, <1>8, <2>3
<1> QED BY <1>9, <1>10, <1>11

LEMMA FeesGrow ==
  ASSUME NEW amount \in Nat, NEW c \in Currencies
  PROVE  ExternalFee(amount, c) <= ExternalFee(amount + 1, c)
<1>1. PICK low \in Nat, high \in Nat, share \in Nat :
           /\ low = LowFee(c) /\ high = HighFee(c) /\ share = ShareOf(amount)
           /\ low <= high /\ ExternalFee(amount, c) = Min({Max({share, low}), high})
  <2>1. /\ LowFee(c) \in Nat /\ HighFee(c) \in Nat /\ ShareOf(amount) \in Nat
        /\ LowFee(c) <= HighFee(c)
        /\ ExternalFee(amount, c) = Min({Max({ShareOf(amount), LowFee(c)}), HighFee(c)})
    BY FeeIs
  <2> QED BY <2>1, Zenon
<1>2. PICK more \in Nat :
           /\ more = ShareOf(amount + 1)
           /\ ExternalFee(amount + 1, c) = Min({Max({more, low}), high})
  <2>1. PICK next \in Nat : next = amount + 1
    OBVIOUS
  <2> QED BY <1>1, <2>1, FeeIs
<1>3. share <= more
  <2>1. PICK part \in Nat, whole \in Nat \ {0} : part = FeeRate.num /\ whole = FeeRate.den
    BY FeeAssumption DEF FeeTerms
  <2>2. (amount * part) * whole <= ((amount + 1) * part) * whole
    <3>1. ((amount + 1) * part) * whole = (amount * part) * whole + part * whole
      OBVIOUS
    <3>2. (amount * part) * whole \in Nat /\ part * whole \in Nat
      OBVIOUS
    <3> QED BY <3>1, <3>2
  <2>3. amount * part \in Nat /\ (amount + 1) * part \in Nat
    OBVIOUS
  <2> QED BY <1>1, <1>2, <2>1, <2>2, <2>3, RoundingGrows DEF ShareOf
<1>4. ASSUME NEW part \in Nat
      PROVE  /\ part <= low => Min({Max({part, low}), high}) = low
             /\ high <= part => Min({Max({part, low}), high}) = high
             /\ low <= part /\ part <= high => Min({Max({part, low}), high}) = part
  BY <1>1, LimitedFee
<1>5. ASSUME NEW fee, NEW next, fee = ExternalFee(amount, c), next = ExternalFee(amount + 1, c)
      PROVE  fee <= next
  <2>1. /\ share <= low => fee = low
        /\ high <= share => fee = high
        /\ low <= share /\ share <= high => fee = share
    BY <1>1, <1>4, <1>5
  <2>2. /\ more <= low => next = low
        /\ high <= more => next = high
        /\ low <= more /\ more <= high => next = more
    BY <1>2, <1>4, <1>5
  <2> QED BY <1>1, <1>3, <2>1, <2>2
<1> QED BY <1>5

\* No transaction is converted or charged wrong, whatever the currencies, rates, limits
\* and amounts: conversions and commissions are exact to half a cent, and a larger
\* amount is never charged less.
THEOREM MoneyIsExact == RiskSpec => MoneyExact
<1>1. ASSUME RiskInv', NEW t \in Assessed',
             NEW amount \in 0 .. Amount[t], NEW c \in Currencies
      PROVE  /\ ConversionExact(amount, c)
             /\ FeeExact(amount, c)
             /\ ExternalFee(amount, c) <= ExternalFee(amount + 1, c)
  <2>1. t \in Txns
    <3>1. PICK i \in DOMAIN assessments' : t = assessments'[i].txn
      BY <1>1 DEF Assessed
    <3> DEFINE P == Assessment
    <3>2. assessments' \in Seq(P) /\ \A v \in P : v.txn \in Txns
      BY <1>1 DEF RiskInv, Assessment
    <3> HIDE DEF P
    <3> QED BY <3>1, <3>2
  <2>2. amount \in Nat
    BY <2>1, RiskAssumption
  <2> QED BY <2>2, ConversionsAreExact, FeesAreExact, FeesGrow
<1>2. RiskInv' => [\A t \in Assessed' \ Assessed :
         \A amount \in 0 .. Amount[t], c \in Currencies :
             /\ ConversionExact(amount, c)
             /\ FeeExact(amount, c)
             /\ ExternalFee(amount, c) <= ExternalFee(amount + 1, c)]_riskVars
  BY <1>1
<1> QED BY <1>2, RiskInvHolds, PTL DEF MoneyExact
-----------------------------------------------------------------------------
(***************************************************************************)
(* The reports on the assessments, for any number of transactions.         *)
(***************************************************************************)
BlockedOnes == {i \in DOMAIN assessments : Blocked(assessments[i])}

\* A verdict that ended an attempt: a refusal, or one the audit log could not take.
EndsAttempt(v) == v.attempt /\ (Blocked(v) \/ ~v.logged)

\* An attempt that its verdict ended is the last one of its transaction, which stays
\* failed, whatever anyone else has screened before or since.
BlockedForGood ==
    \A i \in DOMAIN assessments : EndsAttempt(assessments[i]) =>
        /\ stage[assessments[i].txn] = "failed"
        /\ \A j \in DOMAIN assessments :
              assessments[j].txn = assessments[i].txn /\ assessments[j].attempt => j <= i

\* One verdict more: if it is of an attempt, no attempt of its transaction was ended before.
LEMMA VerdictBlocks ==
  ASSUME RiskInv, BlockedForGood, NEW t \in Txns, NEW n \in Nat, NEW v \in Assessment,
         NewVerdict(t, n, v),
         \A u \in Txns : stage[u] = "failed" => stage'[u] = "failed",
         v.attempt => stage[t] # "failed",
         EndsAttempt(v) => stage'[t] = "failed"
  PROVE  BlockedForGood'
<1>1. /\ DOMAIN assessments = 1 .. n /\ DOMAIN assessments' = 1 .. n + 1
      /\ assessments'[n + 1] = v /\ v.txn = t
      /\ \A i \in 1 .. n : assessments'[i] = assessments[i] /\ assessments[i].txn \in Txns
  BY AssessedAreTxns DEF NewVerdict
<1>2. ASSUME NEW i \in 1 .. n, EndsAttempt(assessments[i])
      PROVE  /\ stage'[assessments[i].txn] = "failed"
             /\ \A j \in 1 .. n + 1 :
                  assessments'[j].txn = assessments[i].txn /\ assessments'[j].attempt => j <= i
  <2>1. PICK u \in Txns : u = assessments[i].txn
    BY <1>1
  <2>2. stage[u] = "failed" /\ \A j \in 1 .. n : assessments[j].txn = u /\ assessments[j].attempt => j <= i
    BY <1>1, <1>2, <2>1 DEF BlockedForGood
  <2>3. v.attempt => u # t
    BY <2>2
  <2>4. stage'[u] = "failed"
    BY <2>2
  <2>5. \A j \in 1 .. n + 1 : j \in 1 .. n \/ j = n + 1
    OBVIOUS
  <2> QED BY <1>1, <2>1, <2>2, <2>3, <2>4, <2>5
<1>3. ASSUME NEW i \in 1 .. n + 1, EndsAttempt(assessments'[i])
      PROVE  /\ stage'[assessments'[i].txn] = "failed"
             /\ \A j \in 1 .. n + 1 :
                  assessments'[j].txn = assessments'[i].txn /\ assessments'[j].attempt => j <= i
  <2>1. CASE i = n + 1
    BY <1>1, <1>3, <2>1
  <2>2. CASE i \in 1 .. n
    <3>1. assessments'[i] = assessments[i]
      BY <1>1, <2>2
    <3> QED BY <1>2, <1>3, <2>2, <3>1
  <2> QED BY <2>1, <2>2
<1> QED BY <1>1, <1>3 DEF BlockedForGood, EndsAttempt, Blocked

LEMMA BlockingStep ==
  RiskInv /\ BlockedForGood /\ [RiskNext]_riskVars => BlockedForGood'
<1> SUFFICES ASSUME RiskInv, BlockedForGood, [RiskNext]_riskVars PROVE BlockedForGood'
  OBVIOUS
<1>1. ASSUME UNCHANGED assessments, \A t \in Txns : stage[t] = "failed" => stage'[t] = "failed"
      PROVE  BlockedForGood'
  <2>1. \A i \in DOMAIN assessments : assessments[i].txn \in Txns
    BY AssessedAreTxns
  <2> QED BY <1>1, <2>1 DEF BlockedForGood, EndsAttempt, Blocked
<1>2. stage \in [Txns -> Stages]
  BY DEF RiskInv
<1>3. ASSUME NEW t \in Txns, Assess(t) PROVE BlockedForGood'
  <2>1. PICK n \in Nat, v \in Assessment :
          /\ NewVerdict(t, n, v) /\ stage[t] = "waiting"
          /\ stage' = [stage EXCEPT ![t] = IF ~Blocked(v) /\ v.logged THEN "moving" ELSE "failed"]
    BY <1>3, AssessFacts
  <2>2. /\ \A u \in Txns : stage[u] = "failed" => stage'[u] = "failed"
        /\ EndsAttempt(v) => stage'[t] = "failed"
        /\ stage[t] # "failed"
    BY <1>2, <2>1 DEF EndsAttempt
  <2> QED BY <2>1, <2>2, VerdictBlocks
<1>4. ASSUME NEW t \in Txns, ScreenApart(t) PROVE BlockedForGood'
  <2>1. PICK n \in Nat, v \in Assessment : NewVerdict(t, n, v) /\ ~v.attempt /\ stage' = stage
    BY <1>4, ApartFacts
  <2>2. ~EndsAttempt(v)
    BY <2>1 DEF EndsAttempt
  <2> QED BY <2>1, <2>2, VerdictBlocks
<1>5. ASSUME NEW t \in Txns, Completed(t) \/ AttemptFailed(t) PROVE BlockedForGood'
  <2>1. /\ UNCHANGED assessments /\ stage[t] # "failed"
        /\ \E s \in Stages : stage' = [stage EXCEPT ![t] = s]
    BY <1>5 DEF Completed, AttemptFailed, Stages
  <2>2. \A u \in Txns : stage[u] = "failed" => stage'[u] = "failed"
    BY <1>2, <2>1
  <2> QED BY <1>1, <2>1, <2>2
<1>6. CASE TimePasses \/ UNCHANGED riskVars
  BY <1>1, <1>6 DEF TimePasses, riskVars
<1> QED BY <1>3, <1>4, <1>5, <1>6 DEF RiskNext

\* An attempt that was refused, or whose verdict could not be logged, is the last one of
\* its transaction, which stays failed for good, although anyone may have it screened
\* again without the processor.
THEOREM BlockingIsFinal == RiskSpec => [](RiskInv /\ BlockedForGood)
<1>1. RiskInit => BlockedForGood
  BY DEF RiskInit, BlockedForGood
<1> QED BY <1>1, RiskInitInv, RiskStep, BlockingStep, PTL DEF RiskSpec

\* A higher score is no lower a level.
LEMMA LevelsAre ==
  ASSUME NEW x \in Nat
  PROVE  /\ Level(x) \in Levels /\ Level(0) = 1
         /\ \A y \in Nat : x <= y => Level(x) <= Level(y)
<1>1. PICK medium \in Nat \ {0}, high \in Nat \ {0} :
        medium = MediumThreshold /\ high = HighThreshold /\ medium < high
  BY RiskAssumption DEF AnalyzerTerms
<1>2. ASSUME NEW y \in Nat
      PROVE  /\ y >= high => Level(y) = 3
             /\ y >= medium /\ ~(y >= high) => Level(y) = 2
             /\ ~(y >= medium) => Level(y) = 1
  <2>1. ~(y >= medium) => ~(y >= high)
    BY <1>1
  <2>2. Level(y) = CASE y >= high -> 3 [] medium <= y /\ y < high -> 2 [] OTHER -> 1
    BY <1>1 DEF Level
  <2> QED BY <2>1, <2>2
<1> QED BY <1>1, <1>2 DEF Levels

\* The fields of verdicts.
LEMMA VerdictFacts ==
  ASSUME RiskInv
  PROVE  /\ IsFiniteSet(DOMAIN assessments) /\ DOMAIN assessments \subseteq Nat
         /\ \A i \in DOMAIN assessments : /\ assessments[i].txn \in Txns
                                          /\ assessments[i].score \in Nat
                                          /\ assessments[i].logged \in BOOLEAN
                                          /\ assessments[i].attempt \in BOOLEAN
         /\ \E n \in Nat : DOMAIN assessments = 1 .. n
<1> DEFINE P == Assessment
<1>1. assessments \in Seq(P)
  BY DEF RiskInv
<1>2. \A v \in P : v.txn \in Txns /\ v.score \in Nat /\ v.logged \in BOOLEAN /\ v.attempt \in BOOLEAN
  BY DEF Assessment
<1> HIDE DEF P
<1>3. PICK n \in Nat : n = Len(assessments)
  BY <1>1
<1>4. DOMAIN assessments = 1 .. n /\ IsFiniteSet(1 .. n)
  BY <1>1, <1>3, FS_Interval
<1> QED BY <1>1, <1>2, <1>4

\* The latest verdicts are one for each transaction assessed.
LEMMA LatestAre ==
  ASSUME RiskInv
  PROVE  LET all == Latest(ClientsAssessed)
         IN  /\ all \subseteq DOMAIN assessments /\ IsFiniteSet(all)
             /\ \A c \in ClientsAssessed : Latest({c}) = {i \in all : ClientOf[assessments[i].txn] = c}
             /\ \A i \in all : ClientOf[assessments[i].txn] \in ClientsAssessed
             /\ \A i, j \in all : assessments[i].txn = assessments[j].txn => i = j
             /\ {assessments[i].txn : i \in all} = Assessed
<1>1. PICK n \in Nat : DOMAIN assessments = 1 .. n /\ IsFiniteSet(1 .. n)
  BY VerdictFacts
<1>2. \A i \in 1 .. n : assessments[i].txn \in Txns /\ ClientOf[assessments[i].txn] \in ClientsAssessed
  BY <1>1, VerdictFacts DEF ClientsAssessed
<1>3. PICK all \in SUBSET (1 .. n) :
        /\ all = Latest(ClientsAssessed)
        /\ all = {i \in 1 .. n : \A j \in 1 .. n : assessments[j].txn = assessments[i].txn => j <= i}
  BY <1>1, <1>2 DEF Latest
<1>4. IsFiniteSet(all)
  BY <1>1, FS_Subset
<1>5. \A c \in ClientsAssessed : Latest({c}) = {i \in all : ClientOf[assessments[i].txn] = c}
  BY <1>1, <1>3 DEF Latest
<1>6. \A i, j \in all : assessments[i].txn = assessments[j].txn => i = j
  BY <1>3
<1>7. ASSUME NEW k \in 1 .. n PROVE \E i \in all : assessments[i].txn = assessments[k].txn
  <2> DEFINE same == {i \in 1 .. n : assessments[i].txn = assessments[k].txn}
  <2>1. /\ same \subseteq 0 .. n /\ k \in same
        /\ \A i \in 1 .. n : i \in same <=> assessments[i].txn = assessments[k].txn
    OBVIOUS
  <2> HIDE DEF same
  <2>2. PICK i \in same : \A j \in same : j <= i
    BY <2>1, GreatestUpTo
  <2>3. i \in 1 .. n /\ assessments[i].txn = assessments[k].txn
    BY <2>1, <2>2
  <2> QED BY <1>3, <2>1, <2>2, <2>3
<1>8. {assessments[i].txn : i \in all} = Assessed
  BY <1>1, <1>3, <1>7 DEF Assessed
<1> QED BY <1>1, <1>2, <1>3, <1>4, <1>5, <1>6, <1>8, Zenon

\* As many verdicts as transactions, where no two are on the same one.
LEMMA CountedByTxn ==
  ASSUME RiskInv, NEW part, part \subseteq Latest(ClientsAssessed)
  PROVE  /\ IsFiniteSet(part) /\ Cardinality(part) \in Nat
         /\ Cardinality({assessments[i].txn : i \in part}) = Cardinality(part)
<1>1. PICK all : /\ all = Latest(ClientsAssessed) /\ IsFiniteSet(all)
                 /\ \A i, j \in all : assessments[i].txn = assessments[j].txn => i = j
  BY LatestAre
<1>2. IsFiniteSet(part) /\ Cardinality(part) \in Nat
  BY <1>1, FS_Subset, FS_CardinalityType
<1>3. PICK b : b = [i \in part |-> assessments[i].txn]
  OBVIOUS
<1>4. \A i, j \in part : b[i] = b[j] => i = j
  BY <1>1, <1>3
<1>5. Cardinality({b[i] : i \in part}) = Cardinality(part)
  BY <1>2, <1>4, CountRenamed
<1>6. {b[i] : i \in part} = {assessments[i].txn : i \in part}
  BY <1>3
<1> QED BY <1>2, <1>5, <1>6

\* Verdicts counted client by client.
LEMMA CountedByClient ==
  ASSUME RiskInv, NEW part, part \subseteq Latest(ClientsAssessed),
         NEW t, \A c \in ClientsAssessed :
                   t[c] = Cardinality({i \in part : ClientOf[assessments[i].txn] = c})
  PROVE  SumFunctionOnSet(t, ClientsAssessed) = Cardinality(part)
<1>1. IsFiniteSet(part) /\ \A i \in part : ClientOf[assessments[i].txn] \in ClientsAssessed
  BY CountedByTxn, LatestAre
<1>2. PICK clients : clients = ClientsAssessed /\ IsFiniteSet(clients)
  <2>1. IsFiniteSet({ClientOf[u] : u \in Txns})
    BY ScreeningAssumption, ImageIsFinite
  <2> QED BY <2>1 DEF ClientsAssessed
<1>3. PICK b : b = [i \in part |-> ClientOf[assessments[i].txn]]
  OBVIOUS
<1>4. PICK p : p = [c \in clients |-> {i \in part : ClientOf[assessments[i].txn] = c}]
  OBVIOUS
<1>5. /\ \A i \in part : b[i] \in clients
      /\ \A c \in clients : p[c] \subseteq part /\ t[c] = Cardinality(p[c])
      /\ \A c \in clients, i \in part : i \in p[c] <=> b[i] = c
  BY <1>1, <1>2, <1>3, <1>4
<1>6. SumFunctionOnSet(t, clients) = Cardinality(part)
  BY <1>1, <1>2, <1>5, CountOfParts
<1> QED BY <1>2, <1>6

\* What is left when some of a finite set is set apart.
LEMMA CountedApart ==
  ASSUME NEW S, IsFiniteSet(S), NEW T, T \subseteq S
  PROVE  Cardinality(S \ T) = Cardinality(S) - Cardinality(T)
<1>1. S \cap T = T
  OBVIOUS
<1>2. Cardinality(S \ T) = Cardinality(S) - Cardinality(S \cap T)
  BY FS_Difference
<1> QED BY <1>1, <1>2

\* The profile of a client counts its latest verdicts, of each level,
LEMMA ProfileOfLevel ==
  ASSUME RiskInv, NEW c \in ClientsAssessed, NEW l \in Levels, NEW part,
         part = {i \in Latest(ClientsAssessed) : Level(assessments[i].score) = l}
  PROVE  Profile(c).byLevel[l] = Cardinality({i \in part : ClientOf[assessments[i].txn] = c})
<1>1. Latest({c}) = {i \in Latest(ClientsAssessed) : ClientOf[assessments[i].txn] = c}
  BY LatestAre
<1>2. {i \in Latest({c}) : Level(assessments[i].score) = l}
        = {i \in part : ClientOf[assessments[i].txn] = c}
  BY <1>1
<1>3. Profile(c).byLevel[l] = Cardinality({i \in Latest({c}) : Level(assessments[i].score) = l})
  BY DEF Profile
<1> QED BY <1>2, <1>3

\* The latest verdicts that block.
ShownBlocked == {i \in Latest(ClientsAssessed) : Blocked(assessments[i])}

\* all of them and the blocked ones, and its level is that of its greatest score.
LEMMA ProfileIs ==
  ASSUME RiskInv, NEW c \in ClientsAssessed,
         NEW all, all = Latest(ClientsAssessed)
  PROVE  /\ Profile(c).transactions = Cardinality({i \in all : ClientOf[assessments[i].txn] = c})
         /\ Profile(c).blocked =
              Cardinality({i \in ShownBlocked : ClientOf[assessments[i].txn] = c})
         /\ Profile(c).blocked = Profile(c).byLevel[3]
         /\ Profile(c).maxScore \in Nat /\ Profile(c).level = Level(Profile(c).maxScore)
<1>1. PICK mine : mine = Latest({c}) /\ mine = {i \in all : ClientOf[assessments[i].txn] = c}
  BY LatestAre
<1>2. /\ ShownBlocked = {i \in all : Blocked(assessments[i])} /\ all \subseteq DOMAIN assessments
      /\ IsFiniteSet(all)
  BY LatestAre DEF ShownBlocked
<1>3. PICK scores : scores = {assessments[i].score : i \in mine}
  OBVIOUS
<1>4. Profile(c) = [transactions |-> Cardinality(mine),
         byLevel |-> [l \in Levels |-> Cardinality({i \in mine : Level(assessments[i].score) = l})],
         blocked |-> Cardinality({i \in mine : Blocked(assessments[i])}),
         maxScore |-> Max(scores \cup {0}),
         level |-> Max({Level(x) : x \in scores} \cup {1})]
  BY <1>1, <1>3 DEF Profile
<1>5. Profile(c).transactions = Cardinality({i \in all : ClientOf[assessments[i].txn] = c})
  BY <1>1, <1>4
<1>6. Profile(c).blocked = Cardinality({i \in ShownBlocked : ClientOf[assessments[i].txn] = c})
  <2>1. {i \in mine : Blocked(assessments[i])}
          = {i \in ShownBlocked : ClientOf[assessments[i].txn] = c}
    BY <1>1, <1>2
  <2>2. Profile(c).blocked = Cardinality({i \in mine : Blocked(assessments[i])})
    BY <1>4
  <2> QED BY <2>1, <2>2
<1>7. Profile(c).blocked = Profile(c).byLevel[3]
  <2>1. {i \in mine : Blocked(assessments[i])} = {i \in mine : Level(assessments[i].score) = 3}
    BY DEF Blocked
  <2>2. 3 \in Levels
    BY DEF Levels
  <2> QED BY <1>4, <2>1, <2>2
<1>8. Max(scores \cup {0}) \in Nat /\ Max({Level(x) : x \in scores} \cup {1}) = Level(Max(scores \cup {0}))
  <2>1. IsFiniteSet(scores) /\ scores \subseteq Nat
    <3>1. mine \subseteq all /\ mine \subseteq DOMAIN assessments
      BY <1>1, <1>2
    <3>2. IsFiniteSet(mine)
      BY <1>2, <3>1, FS_Subset
    <3>3. PICK f : f = [i \in mine |-> assessments[i].score]
      OBVIOUS
    <3>4. IsFiniteSet({f[i] : i \in mine}) /\ {f[i] : i \in mine} = scores
      BY <1>3, <3>2, <3>3, ImageIsFinite
    <3>5. \A i \in mine : assessments[i].score \in Nat
      BY <3>1, VerdictFacts
    <3> QED BY <1>3, <3>4, <3>5
  <2> DEFINE S == scores \cup {0}
  <2>2. S # {} /\ S \subseteq Nat /\ 0 \in S /\ IsFiniteSet(S)
    <3>1. IsFiniteSet(S)
      BY <2>1, FS_Singleton, FS_Union
    <3> QED BY <2>1, <3>1
  <2>3. PICK m \in S : m = Max(S) /\ \A y \in S : y <= m
    <3>1. S \subseteq Int
      BY <2>2
    <3> QED BY <2>2, <3>1, MaxIs
  <2>4. m \in Nat
    BY <2>2
  <2>5. PICK T : T = {Level(x) : x \in scores} \cup {1}
    OBVIOUS
  <2>6. Level(0) = 1
    BY <2>4, LevelsAre
  <2>7. T = {Level(x) : x \in S}
    BY <2>2, <2>5, <2>6
  <2>8. \A x \in S : Level(x) <= Level(m) /\ Level(x) \in Int
    <3>1. ASSUME NEW x \in S PROVE Level(x) <= Level(m) /\ Level(x) \in Int
      <4>1. x \in Nat /\ x <= m
        BY <2>2, <2>3
      <4> QED BY <2>4, <4>1, LevelsAre DEF Levels
    <3> QED BY <3>1
  <2>9. PICK top \in T : top = Level(m) /\ \A y \in T : y <= top /\ y \in Int
    BY <2>7, <2>8
  <2>10. Max(T) = top
    <3>1. Max(T) \in T /\ \A y \in T : Max(T) >= y
      <4>1. \E x \in T : \A y \in T : x >= y
        BY <2>9
      <4> QED BY <4>1 DEF Max
    <3>2. PICK x \in T : x = Max(T)
      BY <3>1
    <3> QED BY <2>9, <3>1, <3>2
  <2> QED BY <2>2, <2>3, <2>4, <2>5, <2>9, <2>10
<1> QED BY <1>4, <1>5, <1>6, <1>7, <1>8

\* The transactions refused in an attempt.
RefusedTxns == {assessments[i].txn : i \in BlockedOnes \ Apart}
ApartTxns == {assessments[i].txn : i \in Apart}

\* A transaction is refused in one attempt at most, and is one of the failed ones.
LEMMA RefusedOnce ==
  ASSUME RiskInv, BlockedForGood
  PROVE  /\ IsFiniteSet(BlockedOnes)
         /\ Cardinality(RefusedTxns) = Cardinality(BlockedOnes \ Apart)
         /\ RefusedTxns \subseteq BlockedIds
<1>1. PICK ones : ones = BlockedOnes \ Apart /\ IsFiniteSet(BlockedOnes) /\ IsFiniteSet(ones)
                  /\ ones \subseteq DOMAIN assessments /\ DOMAIN assessments \subseteq Nat
  <2>1. IsFiniteSet(DOMAIN assessments) /\ DOMAIN assessments \subseteq Nat
    BY VerdictFacts
  <2>2. BlockedOnes \subseteq DOMAIN assessments /\ BlockedOnes \ Apart \subseteq BlockedOnes
    BY DEF BlockedOnes
  <2> QED BY <2>1, <2>2, FS_Subset
<1>2. \A i \in ones : EndsAttempt(assessments[i]) /\ assessments[i].attempt
  BY <1>1 DEF EndsAttempt, BlockedOnes, Apart
<1>3. PICK b : b = [i \in ones |-> assessments[i].txn]
  OBVIOUS
<1>4. ASSUME NEW i \in ones, NEW j \in ones, b[i] = b[j] PROVE i = j
  <2>1. assessments[i].txn = assessments[j].txn /\ i \in Nat /\ j \in Nat
    BY <1>1, <1>3, <1>4
  <2>2. i <= j /\ j <= i
    BY <1>1, <1>2, <2>1 DEF BlockedForGood
  <2> QED BY <2>1, <2>2
<1>5. Cardinality({b[i] : i \in ones}) = Cardinality(ones)
  BY <1>1, <1>4, CountRenamed
<1>6. {b[i] : i \in ones} = RefusedTxns
  BY <1>1, <1>3 DEF RefusedTxns
<1>7. ASSUME NEW i \in ones PROVE assessments[i].txn \in BlockedIds
  <2>1. assessments[i].txn \in Txns /\ stage[assessments[i].txn] = "failed"
    BY <1>1, <1>2, VerdictFacts DEF BlockedForGood
  <2>2. i \in DOMAIN assessments /\ Blocked(assessments[i])
    BY <1>1 DEF BlockedOnes
  <2> QED BY <2>1, <2>2 DEF BlockedIds
<1> QED BY <1>1, <1>5, <1>6, <1>7 DEF RefusedTxns

\* Where nobody screened it apart, what counts as blocked by id was refused in an attempt,
LEMMA IdsRefused ==
  ASSUME RiskInv, BlockedForGood
  PROVE  BlockedIds \ ApartTxns = RefusedTxns \ ApartTxns
<1>1. ASSUME NEW t \in BlockedIds, t \notin ApartTxns PROVE t \in RefusedTxns
  <2>1. PICK i \in DOMAIN assessments : Blocked(assessments[i]) /\ assessments[i].txn = t
    BY DEF BlockedIds
  <2>2. i \notin Apart
    BY <1>1, <2>1 DEF ApartTxns
  <2> QED BY <2>1, <2>2 DEF RefusedTxns, BlockedOnes
<1> QED BY <1>1, RefusedOnce

\* and is blocked by its latest verdict.
LEMMA LatestRefused ==
  ASSUME RiskInv, BlockedForGood
  PROVE  {assessments[i].txn : i \in ShownBlocked} \ ApartTxns = RefusedTxns \ ApartTxns
<1> DEFINE shown == {assessments[i].txn : i \in ShownBlocked}
<1>1. ASSUME NEW t \in shown, t \notin ApartTxns PROVE t \in RefusedTxns
  <2>1. PICK i \in ShownBlocked : assessments[i].txn = t
    OBVIOUS
  <2>2. i \in DOMAIN assessments /\ Blocked(assessments[i])
    BY LatestAre DEF ShownBlocked
  <2>3. i \notin Apart
    BY <1>1, <2>1 DEF ApartTxns
  <2> QED BY <2>1, <2>2, <2>3 DEF RefusedTxns, BlockedOnes
<1>2. ASSUME NEW t \in RefusedTxns, t \notin ApartTxns PROVE t \in shown
  <2>1. PICK i \in BlockedOnes \ Apart : assessments[i].txn = t
    BY DEF RefusedTxns
  <2>2. /\ i \in DOMAIN assessments /\ Blocked(assessments[i]) /\ EndsAttempt(assessments[i])
        /\ ClientOf[t] \in ClientsAssessed
    BY <2>1, VerdictFacts DEF BlockedOnes, Apart, EndsAttempt, ClientsAssessed
  <2>3. \A j \in DOMAIN assessments : assessments[j].txn = t => assessments[j].attempt
    BY <1>2 DEF ApartTxns, Apart
  <2>4. \A j \in DOMAIN assessments : assessments[j].txn = assessments[i].txn => j <= i
    BY <2>1, <2>2, <2>3 DEF BlockedForGood
  <2>5. i \in Latest(ClientsAssessed)
    BY <2>1, <2>2, <2>4 DEF Latest
  <2> QED BY <2>1, <2>2, <2>5 DEF ShownBlocked
<1> QED BY <1>1, <1>2

\* The log counts every refused transaction once and every refusal apart, but for the lost
\* writes.
LEMMA LogCounts ==
  ASSUME RiskInv, BlockedForGood
  PROVE  BlockedEvents + Cardinality(BlockedOnes \cap Lost)
           = Cardinality(RefusedTxns) + Cardinality(BlockedOnes \cap Apart)
<1>1. PICK ones, lost, apart : ones = BlockedOnes /\ IsFiniteSet(ones) /\ lost = Lost /\ apart = Apart
  BY RefusedOnce
<1>2. Cardinality(ones \ lost) = Cardinality(ones) - Cardinality(ones \cap lost)
  BY <1>1, FS_Difference
<1>3. Cardinality(ones \ apart) = Cardinality(ones) - Cardinality(ones \cap apart)
  BY <1>1, FS_Difference
<1>4. /\ Cardinality(ones) \in Nat /\ Cardinality(ones \cap lost) \in Nat
      /\ Cardinality(ones \cap apart) \in Nat
  <2>1. IsFiniteSet(ones \cap lost) /\ IsFiniteSet(ones \cap apart)
    BY <1>1, FS_Subset
  <2> QED BY <1>1, <2>1, FS_CardinalityType
<1>5. ones \ lost = {i \in DOMAIN assessments : Blocked(assessments[i]) /\ assessments[i].logged}
  BY <1>1 DEF BlockedOnes, Lost
<1>6. BlockedEvents = Cardinality(ones \ lost)
  BY <1>5 DEF BlockedEvents
<1>7. Cardinality(RefusedTxns) = Cardinality(ones \ apart)
  BY <1>1, RefusedOnce
<1> QED BY <1>1, <1>2, <1>3, <1>4, <1>6, <1>7

\* The list of suspicious operations has one for each verdict of its level, marked as blocked
\* where that is the level.
LEMMA OperationsCounted ==
  ASSUME RiskInv, NEW listed,
         listed = {i \in Latest(ClientsAssessed) : Level(assessments[i].score) >= 2},
         NEW operations,
         operations = {[txn |-> assessments[i].txn, score |-> assessments[i].score,
                        blocked |-> Blocked(assessments[i])] : i \in listed}
  PROVE  /\ Cardinality(operations) = Cardinality(listed)
         /\ {o.txn : o \in {p \in operations : p.blocked}} = {assessments[i].txn : i \in ShownBlocked}
<1>1. PICK all : /\ all = Latest(ClientsAssessed) /\ IsFiniteSet(all)
                 /\ \A i, j \in all : assessments[i].txn = assessments[j].txn => i = j
  BY LatestAre
<1>2. listed \subseteq all /\ IsFiniteSet(listed)
  <2>1. listed \subseteq all
    BY <1>1
  <2> QED BY <1>1, <2>1, FS_Subset
<1>3. PICK b : b = [i \in listed |-> [txn |-> assessments[i].txn, score |-> assessments[i].score,
                                      blocked |-> Blocked(assessments[i])]]
  OBVIOUS
<1>4. \A i \in listed : b[i].txn = assessments[i].txn /\ b[i].blocked = Blocked(assessments[i])
  BY <1>3
<1>5. \A i, j \in listed : b[i] = b[j] => i = j
  BY <1>1, <1>2, <1>4
<1>6. operations = {b[i] : i \in listed}
  BY <1>3
<1>7. Cardinality(operations) = Cardinality(listed)
  BY <1>2, <1>5, <1>6, CountRenamed
<1>8. ShownBlocked = {i \in listed : Blocked(assessments[i])}
  <2>1. \A i : Blocked(assessments[i]) => Level(assessments[i].score) >= 2
    BY DEF Blocked
  <2> QED BY <1>1, <2>1 DEF ShownBlocked
<1>9. {p \in operations : p.blocked} = {b[i] : i \in ShownBlocked}
  BY <1>4, <1>6, <1>8
<1>10. {o.txn : o \in {b[i] : i \in ShownBlocked}} = {assessments[i].txn : i \in ShownBlocked}
  <2>1. \A i \in ShownBlocked : b[i].txn = assessments[i].txn
    BY <1>4, <1>8
  <2> QED BY <2>1
<1> QED BY <1>7, <1>9, <1>10

\* Nobody comes below a client of a lower score.
LEMMA ClientsRanked ==
  ASSUME RiskInv, NEW order, order = RiskReport(2).clients,
         NEW i \in DOMAIN order, NEW j \in DOMAIN order, i < j
  PROVE  /\ order[i] \in ClientsAssessed /\ order[j] \in ClientsAssessed
         /\ Profile(order[i]).maxScore >= Profile(order[j]).maxScore
<1>1. PICK clients : clients = ClientsAssessed /\ IsFiniteSet(clients)
  <2>1. IsFiniteSet({ClientOf[u] : u \in Txns})
    BY ScreeningAssumption, ImageIsFinite
  <2> QED BY <2>1 DEF ClientsAssessed
<1>2. PICK profile, score, level :
          /\ profile = [c \in clients |-> Profile(c)]
          /\ score = [c \in clients |-> Profile(c).maxScore]
          /\ level = [c \in clients |-> Profile(c).level]
  OBVIOUS
<1>3. ASSUME NEW c \in clients
      PROVE  /\ score[c] = Profile(c).maxScore /\ level[c] = Profile(c).level
             /\ profile[c].maxScore = score[c] /\ profile[c].level = level[c]
             /\ score[c] \in Nat /\ level[c] \in Int /\ level[c] = Level(score[c])
  <2>1. Profile(c).maxScore \in Nat /\ Profile(c).level = Level(Profile(c).maxScore)
    BY <1>1, ProfileIs
  <2>2. Level(Profile(c).maxScore) \in Levels
    BY <2>1, LevelsAre
  <2> QED BY <1>2, <2>1, <2>2 DEF Levels
<1>4. ASSUME NEW c \in clients, NEW d \in clients, score[c] <= score[d] PROVE level[c] <= level[d]
  BY <1>3, <1>4, LevelsAre
<1>5. \A c, d \in clients :
         Above(profile[c], profile[d]) <=> (level[c] > level[d] \/ (level[c] = level[d] /\ score[c] > score[d]))
  BY <1>3 DEF Above
<1>6. \E o \in [1 .. Cardinality(clients) -> clients] :
                 \A k, l \in DOMAIN o : k < l => o[k] # o[l] /\ ~Above(profile[o[l]], profile[o[k]])
  <2>1. \A c \in clients : score[c] \in Int
    BY <1>3
  <2>2. PICK o \in [1 .. Cardinality(clients) -> clients] :
          \A k, l \in DOMAIN o : k < l => o[k] # o[l] /\ score[o[l]] <= score[o[k]]
    BY <1>1, <2>1, ListExists
  <2>3. ASSUME NEW c \in clients, NEW d \in clients, score[c] <= score[d]
        PROVE  ~Above(profile[c], profile[d])
    BY <1>3, <1>4, <1>5, <2>3
  <2> QED BY <2>2, <2>3
<1>7. /\ order \in [1 .. Cardinality(clients) -> clients]
      /\ order[i] # order[j] /\ ~Above(profile[order[j]], profile[order[i]])
  <2>1. order = ClientsByRisk
    BY DEF RiskReport
  <2>2. profile = [c \in ClientsAssessed |-> Profile(c)] /\ clients = ClientsAssessed
    BY <1>1, <1>2
  <2>3. ClientsByRisk = CHOOSE o \in [1 .. Cardinality(clients) -> clients] :
                           \A k, l \in DOMAIN o :
                              k < l => o[k] # o[l] /\ ~Above(profile[o[l]], profile[o[k]])
    BY <2>2, Zenon DEF ClientsByRisk
  <2>4. /\ ClientsByRisk \in [1 .. Cardinality(clients) -> clients]
        /\ \A k, l \in DOMAIN ClientsByRisk :
              k < l => ~Above(profile[ClientsByRisk[l]], profile[ClientsByRisk[k]])
                       /\ ClientsByRisk[k] # ClientsByRisk[l]
    BY <1>6, <2>3
  <2> QED BY <2>1, <2>4
<1>8. PICK c \in clients, d \in clients : c = order[i] /\ d = order[j]
  BY <1>7
<1>9. score[c] >= score[d]
  <2>1. ~(level[d] > level[c]) /\ ~(level[d] = level[c] /\ score[d] > score[c])
    BY <1>5, <1>7, <1>8
  <2> QED BY <1>3, <1>4, <2>1
<1> QED BY <1>1, <1>3, <1>8, <1>9

LEMMA ReportsFollow ==
  ASSUME RiskInv, BlockedForGood
  PROVE  ReportsAgree
<1> DEFINE report == RiskReport(2)
           profile == [c \in ClientsAssessed |-> Profile(c)]
           shown == {o.txn : o \in {p \in report.operations : p.blocked}}
<1>1. PICK all : all = Latest(ClientsAssessed) /\ all \subseteq DOMAIN assessments
                 /\ IsFiniteSet(all) /\ Cardinality(all) \in Nat
                 /\ {assessments[i].txn : i \in all} = Assessed
  BY LatestAre, CountedByTxn
<1>2. PICK of : of = [l \in Levels |-> {i \in all : Level(assessments[i].score) = l}]
  OBVIOUS
<1>3. ASSUME NEW i \in all PROVE Level(assessments[i].score) \in Levels
  BY <1>1, <1>3, VerdictFacts, LevelsAre
<1>4. Suspicious(1) = all
  BY <1>1, <1>3 DEF Suspicious, Levels
<1>5. /\ report.assessed = Cardinality(all) /\ report.blockedByRisk = BlockedEvents
      /\ \A l \in Levels : report.byLevel[l] = Cardinality(of[l])
      /\ report.operations = {[txn |-> assessments[i].txn, score |-> assessments[i].score,
                               blocked |-> Blocked(assessments[i])] :
                                 i \in {k \in all : Level(assessments[k].score) >= 2}}
  BY <1>2, <1>4 DEF RiskReport
<1>6. PICK listed, operations :
           /\ listed = {k \in all : Level(assessments[k].score) >= 2}
           /\ operations = report.operations
           /\ operations = {[txn |-> assessments[i].txn, score |-> assessments[i].score,
                             blocked |-> Blocked(assessments[i])] : i \in listed}
  BY <1>5
<1>7. /\ Cardinality(operations) = Cardinality(listed)
      /\ {o.txn : o \in {p \in operations : p.blocked}} = {assessments[i].txn : i \in ShownBlocked}
  BY <1>1, <1>6, OperationsCounted
<1>8. SumFunction([c \in ClientsAssessed |-> profile[c].blocked]) = Cardinality(shown)
  <2>1. PICK t, ones : /\ t = [c \in ClientsAssessed |-> profile[c].blocked]
                       /\ ones = ShownBlocked /\ ones \subseteq Latest(ClientsAssessed)
    BY DEF ShownBlocked
  <2>2. \A c \in ClientsAssessed : t[c] = Cardinality({i \in ones : ClientOf[assessments[i].txn] = c})
    <3>1. ASSUME NEW c \in ClientsAssessed
          PROVE  t[c] = Cardinality({i \in ones : ClientOf[assessments[i].txn] = c})
      <4>1. t[c] = Profile(c).blocked
        BY <2>1
      <4>2. Profile(c).blocked = Cardinality({i \in ShownBlocked : ClientOf[assessments[i].txn] = c})
        BY <1>1, ProfileIs
      <4> QED BY <2>1, <4>1, <4>2
    <3> QED BY <3>1
  <2>3. SumFunctionOnSet(t, ClientsAssessed) = Cardinality(ones)
    BY <2>1, <2>2, CountedByClient
  <2>4. DOMAIN t = ClientsAssessed
    BY <2>1
  <2>5. Cardinality({assessments[i].txn : i \in ones}) = Cardinality(ones)
    BY <2>1, CountedByTxn
  <2>6. shown = {assessments[i].txn : i \in ones}
    BY <1>6, <1>7, <2>1
  <2> HIDE DEF shown
  <2> QED BY <2>1, <2>3, <2>4, <2>5, <2>6 DEF SumFunction
<1>9. report.blockedByRisk + Cardinality(BlockedOnes \cap Lost)
        = Cardinality(RefusedTxns) + Cardinality(BlockedOnes \cap Apart)
  BY <1>5, LogCounts
<1>10. /\ RefusedTxns \subseteq BlockedIds
       /\ BlockedIds \ ApartTxns = RefusedTxns \ ApartTxns
       /\ shown \ ApartTxns = RefusedTxns \ ApartTxns
  <2>1. shown = {assessments[i].txn : i \in ShownBlocked}
    BY <1>6, <1>7
  <2> HIDE DEF shown
  <2> QED BY <2>1, RefusedOnce, IdsRefused, LatestRefused
<1>11. Cardinality(report.operations) = report.assessed - report.byLevel[1]
  <2>1. PICK low \in SUBSET all : low = of[1] /\ low = {i \in all : Level(assessments[i].score) = 1}
    BY <1>2 DEF Levels
  <2>2. all \ low = listed
    BY <1>3, <1>6, <2>1 DEF Levels
  <2>3. Cardinality(all \ low) = Cardinality(all) - Cardinality(low)
    BY <1>1, CountedApart
  <2>4. report.assessed = Cardinality(all) /\ report.byLevel[1] = Cardinality(low)
    <3>1. 1 \in Levels
      BY DEF Levels
    <3>2. report.byLevel[1] = Cardinality(of[1])
      BY <1>5, <3>1
    <3> QED BY <1>5, <2>1, <3>2
  <2>5. Cardinality(report.operations) = Cardinality(listed)
    BY <1>6, <1>7
  <2> QED BY <2>2, <2>3, <2>4, <2>5
<1>12. ASSUME NEW l \in Levels
       PROVE  report.byLevel[l] = SumFunction([c \in ClientsAssessed |-> profile[c].byLevel[l]])
  <2>1. PICK t, part : /\ t = [c \in ClientsAssessed |-> profile[c].byLevel[l]]
                       /\ part = {i \in all : Level(assessments[i].score) = l}
                       /\ part \subseteq all
    OBVIOUS
  <2>2. \A c \in ClientsAssessed : t[c] = Cardinality({i \in part : ClientOf[assessments[i].txn] = c})
    <3>1. ASSUME NEW c \in ClientsAssessed
          PROVE  t[c] = Cardinality({i \in part : ClientOf[assessments[i].txn] = c})
      <4>1. t[c] = Profile(c).byLevel[l]
        BY <2>1
      <4>2. Profile(c).byLevel[l] = Cardinality({i \in part : ClientOf[assessments[i].txn] = c})
        BY <1>1, <2>1, ProfileOfLevel
      <4> QED BY <4>1, <4>2
    <3> QED BY <3>1
  <2>3. SumFunctionOnSet(t, ClientsAssessed) = Cardinality(part)
    BY <1>1, <2>1, <2>2, CountedByClient
  <2>4. DOMAIN t = ClientsAssessed
    BY <2>1
  <2>5. report.byLevel[l] = Cardinality(part)
    BY <1>2, <1>5, <2>1
  <2> QED BY <2>1, <2>3, <2>4, <2>5 DEF SumFunction
<1>13. report.assessed = SumFunction([c \in ClientsAssessed |-> profile[c].transactions])
  <2>1. PICK t : t = [c \in ClientsAssessed |-> profile[c].transactions]
    OBVIOUS
  <2>2. \A c \in ClientsAssessed : t[c] = Cardinality({i \in all : ClientOf[assessments[i].txn] = c})
    <3>1. ASSUME NEW c \in ClientsAssessed
          PROVE  t[c] = Cardinality({i \in all : ClientOf[assessments[i].txn] = c})
      <4>1. t[c] = Profile(c).transactions
        BY <2>1
      <4>2. Profile(c).transactions = Cardinality({i \in all : ClientOf[assessments[i].txn] = c})
        BY <1>1, ProfileIs
      <4> QED BY <4>1, <4>2
    <3> QED BY <3>1
  <2>3. SumFunctionOnSet(t, ClientsAssessed) = Cardinality(all)
    BY <1>1, <2>1, <2>2, CountedByClient
  <2>4. DOMAIN t = ClientsAssessed
    BY <2>1
  <2> QED BY <1>5, <2>1, <2>3, <2>4 DEF SumFunction
<1>14. report.assessed = Cardinality(Assessed)
  BY <1>1, <1>5, CountedByTxn
<1>15. \A i, j \in DOMAIN report.clients :
         i < j => profile[report.clients[i]].maxScore >= profile[report.clients[j]].maxScore
  <2>1. PICK order : order = RiskReport(2).clients
    OBVIOUS
  <2>2. ASSUME NEW i \in DOMAIN order, NEW j \in DOMAIN order, i < j
        PROVE  profile[order[i]].maxScore >= profile[order[j]].maxScore
    <3>1. PICK c, d : c = order[i] /\ d = order[j] /\ c \in ClientsAssessed /\ d \in ClientsAssessed
                      /\ Profile(c).maxScore >= Profile(d).maxScore
      BY <2>1, <2>2, ClientsRanked
    <3>2. profile[c] = Profile(c) /\ profile[d] = Profile(d)
      BY <3>1
    <3> QED BY <3>1, <3>2
  <2> QED BY <2>1, <2>2
<1>16. \A c \in ClientsAssessed : /\ profile[c].blocked = profile[c].byLevel[3]
                                  /\ profile[c].level = Level(profile[c].maxScore)
  <2> SUFFICES ASSUME NEW c \in ClientsAssessed
               PROVE  /\ profile[c].blocked = profile[c].byLevel[3]
                      /\ profile[c].level = Level(profile[c].maxScore)
    OBVIOUS
  <2>1. profile[c] = Profile(c)
    OBVIOUS
  <2>2. Profile(c).blocked = Profile(c).byLevel[3] /\ Profile(c).level = Level(Profile(c).maxScore)
    BY <1>1, ProfileIs
  <2> QED BY <2>1, <2>2
<1> QED
  BY <1>8, <1>9, <1>10, <1>11, <1>12, <1>13, <1>14, <1>15, <1>16, Zenon
  DEF ReportsAgree, BlockedOnes, RefusedTxns, ApartTxns

\* The log, the bank report, the profiles and the risk report agree on the transactions
\* refused in an attempt, each once; the log has the refusals apart as well, and only what
\* was screened apart may stand otherwise in the others; the totals of the risk report are
\* those of the profiles; for any number of transactions, clients, attempts and screenings.
THEOREM RiskReportsAgree == RiskSpec => []ReportsAgree
<1>1. RiskInv /\ BlockedForGood => ReportsAgree
  BY ReportsFollow
<1> QED BY <1>1, BlockingIsFinal, PTL
=============================================================================
