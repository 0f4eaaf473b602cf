---------------------------- MODULE BalanceReports ----------------------------
(***************************************************************************)
(* What is told about the accounts: get_total_balance() and                *)
(* get_clients_ranking() of the bank, BankReport.total_balance(), and the  *)
(* client and bank reports of the report builder, whose statements and     *)
(* balance lines are drawn from the history alone.  A sum over accounts is *)
(* in the base currency; most of them convert account by account.          *)
(***************************************************************************)
EXTENDS Ledger, FiniteSetsExt, Functions

CONSTANTS MaxSeries,     \* LineChart.MAX_SERIES
          Unlimited      \* a period that is open on this side

ASSUME ReportAssumption == /\ MaxSeries \in Nat \ {0} /\ Unlimited \notin Nat
                           /\ IsFiniteSet(Accounts) /\ IsFiniteSet(Clients)

Opened == {a \in Accounts : accStatus[a] # "unopened"}

\* _value_in_base(), and a sum of it
InBase(a) == ToBase(Value(a), terms[a].currency)
TotalOf(accounts) == SumFunction([a \in accounts |-> InBase(a)])

\* get_total_balance(): closed accounts too
BankTotal == TotalOf(Opened)

\* get_clients_ranking(), the totals it sorts
ClientTotal(c) == TotalOf(AccountIds(c))

\* the accounts table of a client report
ClientAccounts(c) ==
    [a \in AccountIds(c) |-> [status |-> accStatus[a], openedOn |-> openedOn[a], balance |-> cash[a],
                              totalValue |-> Value(a), inBase |-> InBase(a)]]

\* BankReport.total_balance(): the accounts that are not closed, summed in each
\* currency and converted then
StillOpen == {a \in Opened : accStatus[a] # "closed"}

ByCurrency == [c \in {terms[a].currency : a \in StillOpen} |->
                 SumFunction([a \in {b \in StillOpen : terms[b].currency = c} |-> Value(a)])]

ReportedTotal == SumFunction([c \in DOMAIN ByCurrency |-> ToBase(ByCurrency[c], c)])

\* the accounts_by_type table of the bank report, closed accounts too
ByType == [type \in {terms[a].type : a \in Opened} |->
             LET alike == {a \in Opened : terms[a].type = type}
             IN  [statuses |-> [status \in {"active", "frozen", "closed"} |->
                                  Cardinality({a \in alike : accStatus[a] = status})],
                  inBase   |-> TotalOf(alike)]]
-----------------------------------------------------------------------------
\* _check_period()
IsPeriod(since, until) == since # Unlimited /\ until # Unlimited => since < until

\* faulty variant of Within: the end of a period belongs to it
WithinClosed(moment, since, until) == /\ since # Unlimited => moment >= since
                                      /\ until # Unlimited => moment <= until

\* _within(): since inclusive, until exclusive
Within(moment, since, until) == /\ since # Unlimited => moment >= since
                                /\ until # Unlimited => moment < until

\* the statement of a client report: the movements of a period on some accounts
Statement(accounts, since, until) ==
    {i \in DOMAIN movements : /\ movements[i].account \in accounts
                              /\ Within(movements[i].moment, since, until)}

\* the value of some accounts after movement k: what each had after its latest
ValueAt(accounts, k) ==
    SumFunction([a \in {b \in accounts : \E i \in MovementsOf(b) : i <= k} |->
                   ToBase(movements[Last({i \in MovementsOf(a) : i <= k})].valueAfter, terms[a].currency)])

\* faulty variant of BalanceSteps: what came before the period is left out
StepsWithin(accounts, since, until) ==
    LET drawn   == Statement(accounts, since, until)
        points  == {movements[i].moment : i \in drawn}
        end     == IF until = Unlimited THEN now ELSE Min({until, now})
    IN  [m \in points \cup (IF points = {} THEN {} ELSE {Max(points \cup {end})}) |->
           ValueAt(accounts, Last({i \in drawn : movements[i].moment <= m}))]

\* _balance_steps(): moment -> total value of the accounts, one point per moment of
\* the period, what came before it drawn at its start, the last one drawn out to
\* its end
BalanceSteps(accounts, since, until) ==
    LET drawn   == {i \in DOMAIN movements : /\ movements[i].account \in accounts
                                             /\ until # Unlimited => movements[i].moment < until}
        At(i)   == IF since = Unlimited THEN movements[i].moment
                   ELSE Max({since, movements[i].moment})
        points  == {At(i) : i \in drawn}
        end     == IF until = Unlimited THEN now ELSE Min({until, now})
    IN  [m \in points \cup (IF points = {} THEN {} ELSE {Max(points \cup {end})}) |->
           ValueAt(accounts, Last({i \in drawn : At(i) <= m}))]

\* the accounts _balance_lines() draws a line of their own for
Kept(accounts) ==
    IF Cardinality(accounts) <= MaxSeries THEN accounts
    ELSE CHOOSE most \in kSubset(MaxSeries - 1, accounts) :
           \A a \in most, b \in accounts \ most : InBase(a) >= InBase(b)

\* _balance_lines(): a line of each of these, and one of all the others
LineGroups(accounts) == {{a} : a \in Kept(accounts)} \cup ({accounts \ Kept(accounts)} \ {{}})

EndOf(line) == IF DOMAIN line = {} THEN 0 ELSE line[Max(DOMAIN line)]

\* what the lines of a client report end with, together
LinesEnd(groups, since, until) ==
    SumFunction([g \in groups |-> EndOf(BalanceSteps(g, since, until))])

\* balance_history of the bank report
BankHistory(since, until) == BalanceSteps(Accounts, since, until)
-----------------------------------------------------------------------------
(***************************************************************************)
(* Properties.                                                             *)
(***************************************************************************)
Moments == {movements[i].moment : i \in DOMAIN movements} \cup {now}

\* the movements of an account before a moment, which may be Unlimited
Before(a, moment) == {i \in MovementsOf(a) : Within(movements[i].moment, Unlimited, moment)}

\* what an account had before a moment, and what it was worth in the base currency
CashBefore(a, moment) ==
    LET past == Before(a, moment) IN IF past = {} THEN 0 ELSE movements[Last(past)].balanceAfter

WorthBefore(a, moment) ==
    LET past == Before(a, moment)
    IN  IF past = {} THEN 0 ELSE ToBase(movements[Last(past)].valueAfter, terms[a].currency)

\* The reports reach what is there: whether a chart starts before the money came
\* or after it, the lines of a client, however many accounts share one, and the
\* history of the whole bank, all drawn from the movements alone, end with what is
\* there now, portfolios included (the docs leave these out, see LinesShowCash); the
\* accounts table and the last rows of the statement say the same of
\* an account; the clients' totals and those by type leave out nothing, and
\* the total the bank report shows, rounded by currency and not by account, is within
\* half a cent of it for each account and each currency.
ReportsReachNow ==
    /\ \A c \in Clients :
          LET groups == LineGroups(AccountIds(c))
              total  == ClientTotal(c)
              rows   == ClientAccounts(c)
          IN  /\ \A since \in {Unlimited, now} : LinesEnd(groups, since, Unlimited) = total
              /\ \A a \in DOMAIN rows : /\ rows[a].balance = CashBefore(a, Unlimited)
                                        /\ rows[a].inBase = WorthBefore(a, Unlimited)
    /\ EndOf(BankHistory(Unlimited, Unlimited)) = BankTotal
    /\ SumFunction([c \in Clients |-> ClientTotal(c)]) = BankTotal
    /\ SumFunction([type \in DOMAIN ByType |-> ByType[type].inBase]) = BankTotal
    /\ Cardinality(StillOpen) = SumFunction([type \in DOMAIN ByType |->
                                   ByType[type].statuses["active"] + ByType[type].statuses["frozen"]])
    /\ 2 * (ReportedTotal - BankTotal) \in
         LET halves == Cardinality(StillOpen) + Cardinality(DOMAIN ByCurrency) IN -halves .. halves

\* A statement explains what happened in its period: what an account had before it and
\* the amounts of the statement give what it had at its end, so that the statements of
\* periods that meet repeat nothing and miss nothing; and the lines beside it, for a
\* period in the past as well, end with what the accounts were worth then, portfolios
\* included.
StatementsAddUp ==
    \A c \in Clients :
      LET groups == LineGroups(AccountIds(c)) IN
      \A until \in Moments, since \in Moments \cup {Unlimited} :
        IsPeriod(since, until) =>
            LET rows == Statement(AccountIds(c), since, until) IN
            /\ \A a \in AccountIds(c) :
                  LET had == IF since = Unlimited THEN 0 ELSE CashBefore(a, since)
                  IN  had + SumFunction([i \in rows \cap MovementsOf(a) |-> movements[i].amount])
                        = CashBefore(a, until)
            /\ LinesEnd(groups, since, until) = SumFunction([a \in AccountIds(c) |-> WorthBefore(a, until)])

\* What the docs say of a balance line (features.md, on charts): it shows the cash on
\* the accounts, an investment portfolio is not a balance movement.  _balance_steps()
\* draws the total value, and its docstring says so: the two disagree.
LinesShowCash ==
    \A c \in Clients :
      LinesEnd(LineGroups(AccountIds(c)), Unlimited, Unlimited)
        = SumFunction([a \in AccountIds(c) |-> ToBase(cash[a], terms[a].currency)])
=============================================================================
