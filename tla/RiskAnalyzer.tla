----------------------------- MODULE RiskAnalyzer -----------------------------
(***************************************************************************)
(* services/risk.py: the four rules, what the analyzer remembers between   *)
(* assessments, and Bank.screen(), which asks it for one: in an attempt of *)
(* the processor, or called by itself, as anyone who has the bank may.     *)
(* The attempts run one at a time; the clock may move within one.  Which   *)
(* attempt is made next, and how one that was let through ends (its audit  *)
(* writes may fail as well), is the processor's affair: both are open here.*)
(***************************************************************************)
EXTENDS BankClock, Money, FiniteSets, Sequences

CONSTANTS Txns,
          ClientOf,            \* whose transaction it is
          Pair,                \* <<sender_id, recipient_id>>, or NoPair: no transfer
          NoPair,
          RequestedAt,         \* requested_at, which never changes
          OpenedAt,            \* when the recipient's account was opened, or NotHere
          NotHere,             \* "the recipient is in another bank"
          Amount, CurrencyOf,
          Score,               \* rule -> score
          CriticalScore,
          Threshold, CriticalThreshold,    \* LargeAmountRule
          Frequency, Window,               \* HighFrequencyRule
          MinAccountAge,                   \* NewRecipientRule
          LateStart, LateEnd,              \* NightOperationRule, slots of a day
          MediumThreshold, HighThreshold,  \* RiskAnalyzer
          MaxAttempts,
          ScreenedApart,       \* environment: screened without the processor too
          MaxVerdicts,         \* bound: assessments ever made
          MaxLost              \* bound: those of them that are not logged

Rules == {"large_amount", "high_frequency", "new_recipient", "night_operation"}

\* what the constructors of the rules accept, and the analyzer's
LargeAmountTerms == /\ Threshold \in Nat \ {0} /\ CriticalThreshold \in Nat
                    /\ CriticalThreshold > Threshold
                    /\ CriticalScore \in Nat /\ CriticalScore > Score["large_amount"]
HighFrequencyTerms == Frequency \in Nat \ {0, 1} /\ Window \in Nat \ {0}
NewRecipientTerms == MinAccountAge \in Nat \ {0}
NightOperationTerms == {LateStart, LateEnd} \subseteq 0 .. DayLength - 1 /\ LateStart # LateEnd
AnalyzerTerms == {MediumThreshold, HighThreshold} \subseteq Nat \ {0} /\ MediumThreshold < HighThreshold

ASSUME RiskAssumption ==
    /\ RequestedAt \in [Txns -> Nat]
    /\ \A t \in Txns : OpenedAt[t] \in Nat \cup {NotHere}
    /\ Amount \in [Txns -> Nat \ {0}] /\ CurrencyOf \in [Txns -> Currencies]
    /\ Score \in [Rules -> Nat \ {0}]
    /\ LargeAmountTerms /\ HighFrequencyTerms /\ NewRecipientTerms /\ NightOperationTerms
    /\ AnalyzerTerms
    /\ MaxAttempts \in Nat \ {0}
    /\ ScreenedApart \subseteq Txns /\ MaxVerdicts \in Nat /\ MaxLost \in Nat

VARIABLES requested,     \* RiskHistory._requested: transaction -> client and moment
          knownPairs,    \* RiskHistory._known_pairs
          assessments,   \* every assessment, in order
          stage          \* of each transaction in the processor

riskVars == <<now, requested, knownPairs, assessments, stage>>

Stages == {"waiting", "moving", "completed", "failed"}

RiskInit == /\ now \in 0 .. MaxTime
            /\ requested = <<>>
            /\ knownPairs = {}
            /\ assessments = <<>>
            /\ stage = [t \in Txns |-> "waiting"]

\* history: the assessments made in attempts of t, those made apart, those not logged
Attempts(t) == {i \in DOMAIN assessments : assessments[i].txn = t /\ assessments[i].attempt}
Apart == {i \in DOMAIN assessments : ~assessments[i].attempt}
Lost == {i \in DOMAIN assessments : ~assessments[i].logged}
-----------------------------------------------------------------------------
\* faulty variant of Remembered: a retry is remembered as a request of its own moment
RememberedLast(t) ==
    [u \in DOMAIN requested \cup {t} |-> IF u = t THEN [client |-> ClientOf[t], at |-> now]
                                          ELSE requested[u]]

\* RiskHistory.remember(): the first time counts
Remembered(t) ==
    [u \in DOMAIN requested \cup {t} |->
       IF u \in DOMAIN requested THEN requested[u]
       ELSE [client |-> ClientOf[u], at |-> RequestedAt[u]]]

\* count_recent() over what is remembered, t itself included
CountRecent(t, known) ==
    1 + Cardinality({u \in DOMAIN known \ {t} :
                       /\ known[u].client = ClientOf[t]
                       /\ RequestedAt[t] - Window < known[u].at
                       /\ known[u].at <= RequestedAt[t]})

InBase(t) == ToBase(Amount[t], CurrencyOf[t])

\* NightOperationRule._is_night(), a window that may cross midnight
IsLate(m) == IF LateStart < LateEnd THEN LateStart <= m % DayLength /\ m % DayLength < LateEnd
             ELSE m % DayLength >= LateStart \/ m % DayLength < LateEnd

\* faulty variant of LateRequest: the moment of the attempt
LateAttempt(t) == IsLate(now)

LateRequest(t) == IsLate(RequestedAt[t])

RecentAccount(t) == OpenedAt[t] # NotHere /\ now - OpenedAt[t] < MinAccountAge

\* has_sent(), the other way round
FirstTransfer(t) == Pair[t] \notin knownPairs

\* the rules that fire on t, once it is remembered
Fires(t, known) ==
    {r \in Rules :
       CASE r = "large_amount"    -> InBase(t) >= Threshold
         [] r = "high_frequency"  -> CountRecent(t, known) >= Frequency
         [] r = "new_recipient"   -> Pair[t] # NoPair /\ (RecentAccount(t) \/ FirstTransfer(t))
         [] r = "night_operation" -> LateRequest(t)}

ScoreOf(t, r) == IF r = "large_amount" /\ InBase(t) >= CriticalThreshold THEN CriticalScore ELSE Score[r]

Total(t, rules) == SumFunction([r \in rules |-> ScoreOf(t, r)])

\* level_for(), and RiskAssessment.blocked
Level(score) == CASE score >= HighThreshold -> 3
                  [] MediumThreshold <= score /\ score < HighThreshold -> 2
                  [] OTHER -> 1
Levels == 1 .. 3
Blocked(assessment) == Level(assessment.score) = 3

Verdict(t, attempt, written) ==
    LET rules == Fires(t, Remembered(t))
    IN  [txn |-> t, rules |-> rules, score |-> Total(t, rules), logged |-> written, attempt |-> attempt]

\* screen(), in an attempt or apart: refused at night, it gives and keeps its verdict before
\* that is logged
Screen(verdict) ==
    LET t == verdict.txn IN
    /\ \A u \in Txns : stage[u] # "moving"
    /\ OpenedAt[t] # NotHere => OpenedAt[t] <= now
    /\ ~IsNight(now)
    /\ Len(assessments) < MaxVerdicts
    /\ verdict.logged \/ Cardinality(Lost) < MaxLost
    /\ requested' = Remembered(t)
    /\ assessments' = Append(assessments, verdict)
    /\ UNCHANGED <<now, knownPairs>>

\* an attempt goes on when its verdict lets it through and was logged; neither the refusal
\* nor the error of the audit log is retried
Assess(t) ==
    /\ stage[t] = "waiting"
    /\ \E written \in BOOLEAN :
         LET verdict == Verdict(t, TRUE, written)
             through == ~Blocked(verdict) /\ written
         IN  /\ Screen(verdict)
             /\ stage' = [stage EXCEPT ![t] = IF through THEN "moving" ELSE "failed"]

\* screen() called by itself refuses its caller and leaves the transaction as it is
ScreenApart(t) ==
    /\ t \in ScreenedApart
    /\ \E written \in BOOLEAN : Screen(Verdict(t, FALSE, written))
    /\ UNCHANGED stage

\* faulty variant of Completed: a deposit is remembered as a transfer too
CompletedAny(t) ==
    /\ stage[t] = "moving"
    /\ stage' = [stage EXCEPT ![t] = "completed"]
    /\ knownPairs' = knownPairs \cup {Pair[t]}
    /\ UNCHANGED <<now, requested, assessments>>

\* the money moved: record_completed()
Completed(t) ==
    /\ stage[t] = "moving"
    /\ stage' = [stage EXCEPT ![t] = "completed"]
    /\ knownPairs' = knownPairs \cup ({Pair[t]} \ {NoPair})
    /\ UNCHANGED <<now, requested, assessments>>

\* the attempt failed before it was screened or after it was let through, to be retried
\* or not
AttemptFailed(t) ==
    /\ stage[t] \in {"waiting", "moving"} /\ \A u \in Txns \ {t} : stage[u] # "moving"
    /\ \/ Cardinality(Attempts(t)) < MaxAttempts /\ stage' = [stage EXCEPT ![t] = "waiting"]
       \/ stage' = [stage EXCEPT ![t] = "failed"]
    /\ UNCHANGED <<now, requested, knownPairs, assessments>>

TimePasses == Tick /\ UNCHANGED <<requested, knownPairs, assessments, stage>>

RiskNext == \/ \E t \in Txns : Assess(t) \/ ScreenApart(t) \/ Completed(t) \/ AttemptFailed(t)
            \/ TimePasses

RiskSpec == RiskInit /\ [][RiskNext]_riskVars
-----------------------------------------------------------------------------
(***************************************************************************)
(* Properties.                                                             *)
(***************************************************************************)
Assessed == {assessments[i].txn : i \in DOMAIN assessments}

\* Type invariant.
RiskTypeOK ==
    /\ now \in Nat
    /\ DOMAIN requested = Assessed
    /\ \A t \in Assessed : requested[t] \in [client : {ClientOf[u] : u \in Txns}, at : Nat]
    /\ knownPairs \subseteq {Pair[t] : t \in Txns} \ {NoPair}
    /\ assessments \in Seq([txn : Txns, rules : SUBSET Rules, score : Nat, logged : BOOLEAN,
                            attempt : BOOLEAN])
    /\ stage \in [Txns -> Stages]

\* An assessment tells the truth about what happened, in whatever order the
\* transactions came to it and however often they were retried: the frequency
\* rule counts every transaction assessed so far once, in the window of the moment
\* its client asked for it, and a recipient is new until a transfer of the same
\* pair was completed.
FactorsTrue ==
    [][\A i \in DOMAIN assessments' \ DOMAIN assessments :
         LET t     == assessments'[i].txn
             rules == assessments'[i].rules
             sameWindow == {u \in Assessed \cup {t} :
                              /\ ClientOf[u] = ClientOf[t]
                              /\ RequestedAt[u] \in (RequestedAt[t] - Window + 1) .. RequestedAt[t]}
             paid == {Pair[u] : u \in {v \in Txns : stage[v] = "completed"}}
         IN  /\ "high_frequency" \in rules <=> Cardinality(sameWindow) >= Frequency
             /\ "new_recipient" \in rules <=>
                  Pair[t] # NoPair /\ (RecentAccount(t) \/ Pair[t] \notin paid)]_riskVars

\* A retry the bank scheduled does not make the client look worse: apart from the
\* frequency, which sees what was assessed meanwhile, no rule fires on a retry that
\* did not fire on the attempts before it.
RetryLooksNoWorse ==
    \A i, j \in DOMAIN assessments :
        i < j /\ assessments[i].txn = assessments[j].txn
          => assessments[j].rules \ {"high_frequency"} \subseteq assessments[i].rules

\* No transaction that comes to the analyzer is converted or charged wrong, in whatever
\* currency, and nor is a smaller one: a conversion, a cross rate too, is exact to half a cent, and the
\* commission is the policy's share or, where that lies beyond a limit, the limit,
\* to half a cent of the currency it is charged in, and never less for more.
MoneyExact ==
    [][\A t \in Assessed' \ Assessed :
         \A amount \in 0 .. Amount[t], c \in Currencies :
             /\ ConversionExact(amount, c)
             /\ FeeExact(amount, c)
             /\ ExternalFee(amount, c) <= ExternalFee(amount + 1, c)]_riskVars
=============================================================================
