-------------------------------- MODULE Ledger --------------------------------
(***************************************************************************)
(* The accounts of the bank and the movements of its history: services/    *)
(* bank.py with models/*account*.py, models/portfolio.py and               *)
(* record_movement() of services/transaction_history.py.  Every operation  *)
(* of the bank on an account is here but refund() and screen(), which      *)
(* belong to a transaction (TransactionProcessor).  s is the session an    *)
(* operation came through, NoSession for the bank's own.                   *)
(*                                                                         *)
(* An operation is a step when it changes anything: all its checks come    *)
(* before its first change, and its writes of the audit log after the      *)
(* last, so a failing write raises but undoes nothing.                     *)
(***************************************************************************)
EXTENDS Sessions, InterestCalendar, Converter

CONSTANTS Accounts,        \* account ids that open_account() can generate
          Owner,           \* the client each of them is opened for
          Offers,          \* kinds of accounts: type, currency, terms and limits
          NoOffer,         \* "not opened yet"
          NoSession,
          Assets,          \* environment: asset types the clients invest in
          Amounts,         \* environment: amounts clients and staff name
          MaxBalance,      \* bound: on cash, from above
          MaxMovements     \* bound: on the movements recorded

AccountTypes == {"basic", "savings", "premium", "investment"}
AssetTypes == {"stocks", "bonds", "etf"}

\* What the constructors of the account types accept.  floor: min_balance of a
\* savings account, -overdraft_limit of a premium one; fee: withdrawal_fee;
\* rate: monthly_rate
PlainTerms(o) == o.floor = 0 /\ o.fee = 0 /\ o.rate.num = 0
SavingsTerms(o) == o.floor >= 0 /\ o.fee = 0 /\ o.rate.num <= o.rate.den
PremiumTerms(o) == o.floor <= 0 /\ o.rate.num = 0

OfferSet == {o \in [type : AccountTypes, currency : Currencies, floor : Int, fee : Nat,
                    rate : [num : Nat, den : Nat \ {0}], limit : Nat \ {0}] :
               CASE o.type = "savings" -> SavingsTerms(o)
                 [] o.type = "premium" -> PremiumTerms(o)
                 [] OTHER -> PlainTerms(o)}

ASSUME LedgerAssumption ==
    /\ Owner \in [Accounts -> Clients]
    /\ Offers \subseteq OfferSet
    /\ NoOffer \notin OfferSet
    /\ Assets \subseteq AssetTypes
    /\ Amounts \subseteq Nat \ {0}
    /\ NoSession \notin SessionIds

\* bound: the months of the calendar, which outlast the clock
ASSUME CalendarLasts == MaxTime \div DayLength < MonthStart[Len(MonthLength)]

VARIABLES accStatus,       \* "unopened" or AccountStatus
          terms,           \* the offer an account was opened on
          cash,            \* balance
          holdings,        \* the portfolio
          openedOn,        \* _opened_at, the date
          paidOn,          \* _interest_paid_at, the date; NoDate: never
          movements        \* TransactionHistory._movements

accountVars == <<accStatus, terms, cash, holdings>>
datesVars == <<openedOn, paidOn>>
guardVars == <<registered, blocked, failedLogins, issued, store, held>>
ledgerVars == <<sessionVars, accountVars, datesVars, movements>>

NoDate == -1
Kinds == {"opening", "deposit", "withdrawal", "payout", "interest", "investment", "divestment"}
Movement == [account : Accounts, kind : Kinds, amount : Int, balanceAfter : Int,
             valueAfter : Int, moment : Nat, session : SessionIds \cup {NoSession}]

LedgerInit == /\ SessionInit
              /\ accStatus = [a \in Accounts |-> "unopened"]
              /\ terms = [a \in Accounts |-> NoOffer]
              /\ cash = [a \in Accounts |-> 0]
              /\ holdings = [a \in Accounts |-> [x \in AssetTypes |-> 0]]
              /\ openedOn = [a \in Accounts |-> NoDate]
              /\ paidOn = [a \in Accounts |-> NoDate]
              /\ movements = <<>>

-----------------------------------------------------------------------------
Today == now \div DayLength

Invested(portfolio) == portfolio["stocks"] + portfolio["bonds"] + portfolio["etf"]

\* total_value
Value(a) == cash[a] + Invested(holdings[a])

AccountIds(c) == {a \in Accounts : Owner[a] = c /\ accStatus[a] # "unopened"}

\* _guard(): the night, and for what is no incoming credit a blocked client
Guarded(a, incoming) == ~IsNight(now) /\ (Owner[a] \in blocked => incoming)

\* _check_actor(): a session acts for its own client only
ActorFits(s, a) == s # NoSession => issued[s].client = Owner[a]

Active(a) == accStatus[a] = "active"

\* faulty variant of RecordMovement: the amount asked for, without the fee
RecordAsked(kind, a, before, s) ==
    LET change == cash'[a] - before
        asked  == IF kind = "withdrawal" THEN change + terms'[a].fee ELSE change
    IN  movements' =
          IF change = 0 THEN movements
          ELSE Append(movements, [account |-> a, kind |-> kind, amount |-> asked,
                                  balanceAfter |-> cash'[a], valueAfter |-> Value(a)',
                                  moment |-> now, session |-> s])

\* _record_movement(): the actual change since `before`; no change, no movement
RecordMovement(kind, a, before, s) ==
    LET change == cash'[a] - before
    IN  movements' =
          IF change = 0 THEN movements
          ELSE Append(movements, [account |-> a, kind |-> kind, amount |-> change,
                                  balanceAfter |-> cash'[a], valueAfter |-> Value(a)',
                                  moment |-> now, session |-> s])

OpenAccount(a, offer, initial, s) ==
    /\ accStatus[a] = "unopened"
    /\ Owner[a] \in registered
    /\ ActorFits(s, a)
    /\ Guarded(a, FALSE)
    /\ offer.type = "savings" => initial >= offer.floor
    /\ accStatus' = [accStatus EXCEPT ![a] = "active"]
    /\ terms' = [terms EXCEPT ![a] = offer]
    /\ cash' = [cash EXCEPT ![a] = initial]
    /\ openedOn' = [openedOn EXCEPT ![a] = Today]
    /\ UNCHANGED <<holdings, paidOn>>
    /\ RecordMovement("opening", a, 0, s)

\* AbstractAccount.close(): settled, neither owing nor holding anything but cash
Closable(a) == /\ accStatus[a] \in {"active", "frozen"}
               /\ accStatus[a] = "frozen" => Value(a) = 0
               /\ cash[a] >= 0
               /\ Value(a) = cash[a]

CloseAccount(a, s) ==
    /\ ActorFits(s, a)
    /\ Guarded(a, FALSE)
    /\ Closable(a)
    /\ accStatus' = [accStatus EXCEPT ![a] = "closed"]
    /\ cash' = [cash EXCEPT ![a] = 0]
    /\ UNCHANGED <<terms, holdings, datesVars>>
    /\ RecordMovement("payout", a, cash[a], s)

FreezeAccount(a, s) ==
    /\ ActorFits(s, a)
    /\ Active(a)
    /\ accStatus' = [accStatus EXCEPT ![a] = "frozen"]
    /\ UNCHANGED <<terms, cash, holdings, datesVars, movements>>

UnfreezeAccount(a) ==
    /\ accStatus[a] = "frozen"
    /\ ~IsNight(now)
    /\ accStatus' = [accStatus EXCEPT ![a] = "active"]
    /\ UNCHANGED <<terms, cash, holdings, datesVars, movements>>

\* deposit() of every account type
Depositable(a, amount) == Active(a) /\ amount <= terms[a].limit

Deposit(a, amount, s) ==
    /\ ActorFits(s, a)
    /\ Guarded(a, TRUE)
    /\ Depositable(a, amount)
    /\ cash' = [cash EXCEPT ![a] = @ + amount]
    /\ UNCHANGED <<accStatus, terms, holdings, datesVars>>
    /\ RecordMovement("deposit", a, cash[a], s)

\* faulty variant of Withdrawable: the fee is not held against the floor
WithdrawableFeeless(a, amount) == /\ Active(a)
                                  /\ amount <= terms[a].limit
                                  /\ amount <= cash[a] - terms[a].floor

\* withdraw() of the account types: the amount with the account's own fee stays
\* above the minimum balance, the overdraft or zero; invested money is out of reach
Withdrawable(a, amount) == /\ Active(a)
                           /\ amount <= terms[a].limit
                           /\ amount + terms[a].fee <= cash[a] - terms[a].floor

Withdraw(a, amount, s) ==
    /\ ActorFits(s, a)
    /\ Guarded(a, FALSE)
    /\ Withdrawable(a, amount)
    /\ cash' = [cash EXCEPT ![a] = @ - (amount + terms[a].fee)]
    /\ UNCHANGED <<accStatus, terms, holdings, datesVars>>
    /\ RecordMovement("withdrawal", a, cash[a], s)

\* faulty variant of NextInterestDate: keeps the day of the last payment
DriftingInterestDate(a) ==
    LET last == IF paidOn[a] = NoDate THEN openedOn[a] ELSE paidOn[a]
    IN  NextMonthlyDate(last, DayOf(last))

\* _next_interest_date()
NextInterestDate(a) ==
    NextMonthlyDate(IF paidOn[a] = NoDate THEN openedOn[a] ELSE paidOn[a], DayOf(openedOn[a]))

\* a month's interest on what the account has now, to the cent
InterestOn(a) == ToMoney(cash[a] * terms[a].rate.num, terms[a].rate.den)

\* apply_monthly_interest(): the night and a blocked client do not stop it
ApplyInterest(a) ==
    /\ Active(a)
    /\ terms[a].type = "savings"
    /\ Today >= NextInterestDate(a)
    /\ cash' = [cash EXCEPT ![a] = @ + InterestOn(a)]
    /\ paidOn' = [paidOn EXCEPT ![a] = Today]
    /\ UNCHANGED <<accStatus, terms, holdings, openedOn>>
    /\ RecordMovement("interest", a, cash[a], NoSession)

\* _invest(): free cash only
Investable(a, amount) == Active(a) /\ amount <= cash[a]

\* faulty variant of Divestable: held against the whole portfolio
DivestableAny(a, asset, amount) == Active(a) /\ amount <= Invested(holdings[a])

\* _divest(): from the one asset named
Divestable(a, asset, amount) == Active(a) /\ amount <= holdings[a][asset]

\* Portfolio.add() and remove(), the change with its sign
Allocated(a, asset, change) == [holdings EXCEPT ![a][asset] = @ + change]

\* _rebalance(), whichever way
Rebalance(kind, a, asset, invested, s) ==
    /\ ActorFits(s, a)
    /\ Guarded(a, FALSE)
    /\ terms[a].type = "investment"
    /\ holdings' = Allocated(a, asset, invested)
    /\ cash' = [cash EXCEPT ![a] = @ - invested]
    /\ UNCHANGED <<accStatus, terms, datesVars>>
    /\ RecordMovement(kind, a, cash[a], s)

Invest(a, asset, amount, s) ==
    Investable(a, amount) /\ Rebalance("investment", a, asset, amount, s)

Divest(a, asset, amount, s) ==
    Divestable(a, asset, amount) /\ Rebalance("divestment", a, asset, -amount, s)

\* The bank's own operations, made by staff without a session.
StaffAction(a) ==
    \/ \E o \in Offers, x \in Amounts \cup {0} : OpenAccount(a, o, x, NoSession)
    \/ CloseAccount(a, NoSession)
    \/ FreezeAccount(a, NoSession)
    \/ UnfreezeAccount(a)
    \/ \E x \in Amounts : \/ Deposit(a, x, NoSession)
                          \/ Withdraw(a, x, NoSession)
                          \/ \E y \in Assets : \/ Invest(a, y, x, NoSession)
                                               \/ Divest(a, y, x, NoSession)
    \/ ApplyInterest(a)

\* bounds: the movements recorded and the cash on an account
Bounded == /\ Len(movements') <= MaxMovements
           /\ \A a \in Accounts : cash'[a] <= MaxBalance

Staff == /\ \E a \in Accounts : StaffAction(a)
         /\ Bounded
         /\ UNCHANGED sessionVars

\* a client is blocked or unblocked, or time passes
Around == /\ \/ \E c \in Clients : BlockModel(c) \/ UnblockClient(c)
             \/ Passing
          /\ UNCHANGED <<accountVars, datesVars, movements>>

LedgerNext == Staff \/ Around

LedgerSpec == LedgerInit /\ [][LedgerNext]_ledgerVars
-----------------------------------------------------------------------------
(***************************************************************************)
(* Properties.                                                             *)
(***************************************************************************)
\* Type invariant.
LedgerTypeOK ==
    /\ SessionTypeOK
    /\ accStatus \in [Accounts -> {"unopened", "active", "frozen", "closed"}]
    /\ terms \in [Accounts -> Offers \cup {NoOffer}]
    /\ \A a \in Accounts : accStatus[a] = "unopened" <=> terms[a] = NoOffer
    /\ cash \in [Accounts -> Int]
    /\ holdings \in [Accounts -> [AssetTypes -> Nat]]
    /\ openedOn \in [Accounts -> Nat \cup {NoDate}]
    /\ \A a \in Accounts : accStatus[a] # "unopened" => openedOn[a] # NoDate
    /\ paidOn \in [Accounts -> Nat \cup {NoDate}]
    /\ movements \in Seq(Movement)

\* the movements of an account, and the one before movement i among them
MovementsOf(a) == {i \in DOMAIN movements : movements[i].account = a}
Previous(i) == {j \in MovementsOf(movements[i].account) : j < i}
Last(indices) == CHOOSE j \in indices : \A k \in indices : k <= j

ValueBefore(i) == IF Previous(i) = {} THEN 0 ELSE movements[Last(Previous(i))].valueAfter

\* An account stays within its terms whatever it went through: a minimum balance
\* is kept, an overdraft is not exceeded, fees included, nobody owes an asset, and
\* an account that is closed has nothing left on it.
WithinTerms ==
    \A a \in Accounts :
        /\ accStatus[a] \in {"active", "frozen"} => cash[a] >= terms[a].floor
        /\ \A x \in AssetTypes : holdings[a][x] >= 0
        /\ accStatus[a] \in {"unopened", "closed"} => cash[a] = 0 /\ Value(a) = 0

\* The ledger seen as an account book: the movements are its entries.
Book == INSTANCE AccountBook WITH
          book <- [i \in DOMAIN movements |->
                     [account |-> movements[i].account, kind |-> movements[i].kind,
                      amount |-> movements[i].amount, cash |-> movements[i].balanceAfter,
                      worth |-> movements[i].valueAfter]],
          worth <- [a \in Accounts |-> Value(a)],
          standing <- accStatus, barred <- blocked, night <- IsNight(now)

\* Whatever the terms of an account, no operation, fee, interest, payout or move into
\* a portfolio changes its balance past the history or tells it wrong; what it is
\* worth goes down only by day, while its owner is not blocked and it is active; a
\* freeze holds everything on it and cannot be got round by closing; at night only
\* interest reaches it.
ImplementsAccountBook == Book!Spec

\* the days interest falls due on an account: in every month after its opening,
\* the day it was opened on, or the last day of a shorter month
DueDates(a) == {InMonth(m, DayOf(openedOn[a])) : m \in {n \in Months : n > MonthOf(openedOn[a])}}

\* Interest is paid once for every month: between two payments, and between the
\* opening and the first, lies a day it fell due on, however late it is paid, over
\* short months and freezes; and once another such day has come, it can be paid,
\* also in the same month as a late one.
InterestOncePerMonth ==
    /\ \A i \in DOMAIN movements : movements[i].kind = "interest" =>
          LET a == movements[i].account
              Paid(j) == movements[j].moment \div DayLength
              earlier == {Paid(j) : j \in {k \in Previous(i) : movements[k].kind = "interest"}}
          IN  \A day \in earlier \cup {openedOn[a]} :
                \E due \in DueDates(a) : day < due /\ due <= Paid(i)
    /\ \A a \in Accounts : terms[a] # NoOffer =>
          LET last == IF paidOn[a] = NoDate THEN openedOn[a] ELSE paidOn[a]
          IN  (\E due \in DueDates(a) : last < due /\ due <= Today) => Today >= NextInterestDate(a)
=============================================================================
