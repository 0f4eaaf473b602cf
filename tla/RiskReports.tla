----------------------------- MODULE RiskReports -----------------------------
(***************************************************************************)
(* The reports on the assessments: services/audit_report.py, the risk      *)
(* report built from it (reporting/builder.py) and the risk part of        *)
(* services/bank_report.py.  They count a transaction once, by its latest  *)
(* assessment, but for the statistics of the audit log, which count what   *)
(* was written.                                                            *)
(***************************************************************************)
EXTENDS RiskAnalyzer

ASSUME ScreeningAssumption == IsFiniteSet(Txns)

ClientsAssessed == {ClientOf[t] : t \in Txns}

\* faulty variant of Latest: the first assessment of each transaction
Earliest(clients) ==
    {i \in DOMAIN assessments :
       /\ ClientOf[assessments[i].txn] \in clients
       /\ \A j \in DOMAIN assessments : assessments[j].txn = assessments[i].txn => i <= j}

\* _latest_assessments() of some clients
Latest(clients) ==
    {i \in DOMAIN assessments :
       /\ ClientOf[assessments[i].txn] \in clients
       /\ \A j \in DOMAIN assessments : assessments[j].txn = assessments[i].txn => j <= i}

\* suspicious_operations()
Suspicious(lowest) == {i \in Latest(ClientsAssessed) : Level(assessments[i].score) >= lowest}

\* client_risk_profile(): transactions, by_level, blocked, max_score, level
Profile(c) ==
    LET mine   == Latest({c})
        scores == {assessments[i].score : i \in mine}
    IN  [transactions |-> Cardinality(mine),
         byLevel |-> [l \in Levels |-> Cardinality({i \in mine : Level(assessments[i].score) = l})],
         blocked |-> Cardinality({i \in mine : Blocked(assessments[i])}),
         maxScore |-> Max(scores \cup {0}),
         level |-> Max({Level(x) : x \in scores} \cup {1})]

\* error_statistics(): blocked_by_risk, the operation_blocked events of the log
BlockedEvents == Cardinality({i \in DOMAIN assessments :
                                Blocked(assessments[i]) /\ assessments[i].logged})

\* the clients in risk_report(), a higher level or a higher score first
Above(mine, other) == \/ mine.level > other.level
                      \/ mine.level = other.level /\ mine.maxScore > other.maxScore

ClientsByRisk ==
    LET profile == [c \in ClientsAssessed |-> Profile(c)]
    IN  CHOOSE order \in [1 .. Cardinality(ClientsAssessed) -> ClientsAssessed] :
            \A i, j \in DOMAIN order :
                i < j => order[i] # order[j] /\ ~Above(profile[order[j]], profile[order[i]])

\* risk_report(): the summary, the tables of levels, factors and suspicious operations,
\* and the clients by risk
RiskReport(lowest) ==
    LET assessed == Suspicious(1)
        listed   == {i \in assessed : Level(assessments[i].score) >= lowest}
    IN  [assessed      |-> Cardinality(assessed),
         blockedByRisk |-> BlockedEvents,
         byLevel       |-> [l \in Levels |-> Cardinality({i \in assessed : Level(assessments[i].score) = l})],
         factors       |-> [r \in Rules |-> Cardinality({i \in assessed : r \in assessments[i].rules})],
         operations    |-> {[txn |-> assessments[i].txn, score |-> assessments[i].score,
                             blocked |-> Blocked(assessments[i])] : i \in listed},
         clients       |-> ClientsByRisk]

\* transaction_statistics(): the ids that failed and were blocked, now or earlier
BlockedIds ==
    LET failed  == {t \in Txns : stage[t] = "failed"}
        blocked == {assessments[i].txn : i \in {j \in DOMAIN assessments : Blocked(assessments[j])}}
    IN  failed \cap blocked

BlockedByRisk == Cardinality(BlockedIds)
-----------------------------------------------------------------------------
(***************************************************************************)
(* Properties.                                                             *)
(***************************************************************************)
\* The reports tell one story, although one reads the audit log, one the latest
\* assessments and one the failed transactions.  A transaction refused in an attempt is
\* not tried again, so the log counts it once, whoever else had it screened, and counts
\* every refusal of a screen() without the processor, but for the lost writes; the bank
\* report has all of the refused ones and, of the others, only those screened apart,
\* which the profiles and the suspicious operations may show otherwise, by their latest
\* verdict; these two, and the levels, factors and scores, agree, and nobody is listed
\* below a client of a lower score.
ReportsAgree ==
    LET report  == RiskReport(2)
        profile == [c \in ClientsAssessed |-> Profile(c)]
        blocked == {i \in DOMAIN assessments : Blocked(assessments[i])}
        refused == {assessments[i].txn : i \in blocked \ Apart}
        apart   == {assessments[i].txn : i \in Apart}
        byId    == BlockedIds
        shown   == {o.txn : o \in {p \in report.operations : p.blocked}}
    IN  /\ report.blockedByRisk + Cardinality(blocked \cap Lost)
             = Cardinality(refused) + Cardinality(blocked \cap Apart)
        /\ refused \subseteq byId
        /\ byId \ apart = refused \ apart
        /\ shown \ apart = refused \ apart
        /\ SumFunction([c \in ClientsAssessed |-> profile[c].blocked]) = Cardinality(shown)
        /\ Cardinality(report.operations) = report.assessed - report.byLevel[1]
        /\ \A l \in Levels : report.byLevel[l]
                              = SumFunction([c \in ClientsAssessed |-> profile[c].byLevel[l]])
        /\ report.assessed = SumFunction([c \in ClientsAssessed |-> profile[c].transactions])
        /\ report.assessed = Cardinality(Assessed)
        /\ \A i, j \in DOMAIN report.clients :
             i < j => profile[report.clients[i]].maxScore >= profile[report.clients[j]].maxScore
        /\ \A c \in ClientsAssessed : /\ profile[c].blocked = profile[c].byLevel[3]
                                      /\ profile[c].level = Level(profile[c].maxScore)
=============================================================================
