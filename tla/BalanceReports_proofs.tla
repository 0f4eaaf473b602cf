------------------------- MODULE BalanceReports_proofs -------------------------
(***************************************************************************)
(* Proofs about what is told of the accounts: that the history of the bank *)
(* is a chain of changes in the order of time, for any accounts and        *)
(* clients, and that the reports drawn from it reach what is there, by the *)
(* hour, by the period, by account, client, type and currency.             *)
(***************************************************************************)
EXTENDS BalanceReports, ClientPortal_proofs

\* A later movement is of a later moment, or the same, and none is of the future.
MomentsRise ==
    \A i, j \in DOMAIN movements :
        i <= j => movements[i].moment <= movements[j].moment /\ movements[j].moment <= now

\* What the last movement of an account tells it has.
CashTold(a) == IF MovementsOf(a) = {} THEN 0 ELSE movements[Last(MovementsOf(a))].balanceAfter

\* The history tells the balance of every account.
CashTells == \A a \in Accounts : cash[a] = CashTold(a)

\* What an account had before movement i.
BalanceBefore(i) == IF Previous(i) = {} THEN 0 ELSE movements[Last(Previous(i))].balanceAfter

\* Every movement starts from where the one before it on the account left off.
Chained == \A i \in DOMAIN movements : movements[i].balanceAfter = BalanceBefore(i) + movements[i].amount

\* Nothing is recorded of an account that was never opened.
OnlyOpened == \A i \in DOMAIN movements : accStatus[movements[i].account] # "unopened"

HistoryInv == HistoryTells /\ MomentsRise /\ CashTells /\ Chained /\ OnlyOpened
-----------------------------------------------------------------------------
(***************************************************************************)
(* The history.                                                            *)
(***************************************************************************)
LEMMA HistoryInit == LedgerInit => HistoryInv
<1> SUFFICES ASSUME LedgerInit PROVE HistoryInv
  OBVIOUS
<1>1. movements = <<>> /\ \A a \in Accounts : cash[a] = 0 /\ Value(a) = 0
  BY DEF LedgerInit, Value, Invested, AssetTypes
<1>2. \A a : MovementsOf(a) = {}
  BY <1>1 DEF MovementsOf
<1> QED BY <1>1, <1>2 DEF HistoryInv, HistoryTells, Told, MomentsRise, CashTells, CashTold, Chained, OnlyOpened

\* The clock does not go back.
LEMMA TimePasses == ASSUME SessionTypeOK, [SessionNext]_sessionVars PROVE now' \in Nat /\ now <= now'
<1>1. now \in Nat
  BY DEF SessionTypeOK
<1>2. now' = now \/ Tick
  BY DEF SessionNext, LogIn, Register, FailLogin, BlockModel, UnblockClient, UseSession, LogOut, Passing,
         sessionVars
<1> QED BY <1>1, <1>2 DEF Tick

\* What is recorded of a movement.
LEMMA MovementFacts ==
  ASSUME LedgerTypeOK
  PROVE  /\ DOMAIN movements = 1 .. Len(movements) /\ Len(movements) \in Nat
         /\ IsFiniteSet(DOMAIN movements)
         /\ \A i \in DOMAIN movements :
               /\ movements[i].account \in Accounts /\ movements[i].moment \in Nat
               /\ movements[i].amount \in Int /\ movements[i].balanceAfter \in Int
               /\ movements[i].valueAfter \in Int
<1> DEFINE P == Movement
<1>1. movements \in Seq(P)
  BY DEF LedgerTypeOK
<1>2. \A m \in P : /\ m.account \in Accounts /\ m.moment \in Nat /\ m.amount \in Int
                   /\ m.balanceAfter \in Int /\ m.valueAfter \in Int
  BY DEF Movement
<1> HIDE DEF P
<1>3. IsFiniteSet(DOMAIN movements)
  <2>1. PICK n \in Nat : n = Len(movements)
    BY <1>1
  <2>2. IsFiniteSet(1 .. n)
    BY FS_Interval
  <2> QED BY <1>1, <2>1, <2>2
<1> QED BY <1>1, <1>2, <1>3

\* Time alone changes nothing in the history.
LEMMA AroundHistory ==
  ASSUME LedgerTypeOK, HistoryInv, [SessionNext]_sessionVars,
         UNCHANGED <<accountVars, datesVars, movements>>
  PROVE  HistoryInv'
<1>1. UNCHANGED <<cash, holdings, movements, accStatus>>
  BY DEF accountVars
<1>2. /\ HistoryTells' /\ CashTells' /\ Chained' /\ OnlyOpened'
  <2>1. \A a : /\ Value(a)' = Value(a) /\ Told(a)' = Told(a) /\ CashTold(a)' = CashTold(a)
    BY <1>1 DEF Told, CashTold, MovementsOf, Value
  <2>2. Chained'
    BY <1>1 DEF HistoryInv, Chained, BalanceBefore, Previous, MovementsOf
  <2> QED BY <1>1, <2>1, <2>2 DEF HistoryInv, HistoryTells, CashTells, OnlyOpened
<1>3. MomentsRise'
  <2>1. now \in Nat /\ now' \in Nat /\ now <= now'
    BY TimePasses DEF LedgerTypeOK, SessionTypeOK
  <2>2. \A i \in DOMAIN movements : movements[i].moment \in Nat
    BY MovementFacts
  <2> QED BY <1>1, <2>1, <2>2 DEF HistoryInv, MomentsRise
<1> QED BY <1>2, <1>3 DEF HistoryInv

LEMMA CashToldNext ==
  ASSUME movements \in Seq(Movement), NEW m \in Movement, movements' = Append(movements, m),
         NEW b \in Accounts
  PROVE  CashTold(b)' = IF b = m.account THEN m.balanceAfter ELSE CashTold(b)
BY LastNext DEF CashTold

\* A movement recorded now, of what an account changed by, carries the history on.
LEMMA RecordedHistory ==
  ASSUME LedgerTypeOK, HistoryInv, UNCHANGED sessionVars, NEW m \in Movement,
         movements' = Append(movements, m), m.moment = now,
         \A b \in Accounts \ {m.account} : Value(b)' = Value(b) /\ cash'[b] = cash[b],
         m.valueAfter = Value(m.account)', m.balanceAfter = cash'[m.account],
         m.amount = cash'[m.account] - cash[m.account], cash'[m.account] \in Int,
         accStatus'[m.account] # "unopened",
         \A b \in Accounts : accStatus[b] # "unopened" => accStatus'[b] # "unopened"
  PROVE  HistoryInv'
<1>1. /\ movements \in Seq(Movement) /\ m.account \in Accounts /\ now' = now /\ now \in Nat
      /\ cash[m.account] \in Int
  BY DEF LedgerTypeOK, SessionTypeOK, sessionVars, Movement
<1>2. PICK n \in Nat : n = Len(movements) + 1
  BY <1>1
<1>3. /\ DOMAIN movements' = DOMAIN movements \cup {n} /\ n \notin DOMAIN movements
      /\ movements'[n] = m /\ \A i \in DOMAIN movements : movements'[i] = movements[i] /\ i < n
      /\ \A b : MovementsOf(b)' = IF b = m.account THEN MovementsOf(b) \cup {n} ELSE MovementsOf(b)
      /\ Previous(n)' = MovementsOf(m.account) /\ DOMAIN movements \subseteq Nat
  BY <1>1, <1>2, OneMore
<1>4. HistoryTells' /\ CashTells'
  <2>1. ASSUME NEW b \in Accounts PROVE Value(b)' = Told(b)' /\ cash'[b] = CashTold(b)'
    <3>1. Told(b)' = IF b = m.account THEN m.valueAfter ELSE Told(b)
      BY <1>1, ToldNext
    <3>2. CashTold(b)' = IF b = m.account THEN m.balanceAfter ELSE CashTold(b)
      BY <1>1, CashToldNext
    <3>3. Value(b) = Told(b) /\ cash[b] = CashTold(b)
      BY DEF HistoryInv, HistoryTells, CashTells
    <3> QED BY <3>1, <3>2, <3>3
  <2> QED BY <2>1 DEF HistoryTells, CashTells
<1>5. MomentsRise'
  <2>1. \A i, j \in DOMAIN movements :
           i <= j => movements[i].moment <= movements[j].moment /\ movements[j].moment <= now
    BY DEF HistoryInv, MomentsRise
  <2>2. \A i \in DOMAIN movements : movements[i].moment <= now /\ ~(n <= i)
    BY <1>2, <1>3, <2>1
  <2>3. movements'[n].moment = now
    BY <1>3
  <2>4. ASSUME NEW i \in DOMAIN movements', NEW j \in DOMAIN movements', i <= j
        PROVE  movements'[i].moment <= movements'[j].moment /\ movements'[j].moment <= now'
    <3>1. CASE j = n
      BY <1>1, <1>3, <2>2, <2>3, <3>1
    <3>2. CASE j # n
      BY <1>1, <1>3, <2>1, <2>2, <2>4, <3>2
    <3> QED BY <3>1, <3>2
  <2> QED BY <2>4 DEF MomentsRise
<1>6. Chained'
  <2>1. ASSUME NEW i \in DOMAIN movements PROVE BalanceBefore(i)' = BalanceBefore(i)
    <3>1. i < n /\ i \in Nat
      BY <1>3
    <3>2. Previous(i) \subseteq DOMAIN movements /\ Previous(i) \subseteq 1 .. i
      BY <1>1, <1>3, <3>1 DEF Previous, MovementsOf
    <3>3. Previous(i)' = Previous(i)
      <4>1. ~(n < i) /\ movements'[i].account = movements[i].account
        BY <1>2, <1>3, <3>1
      <4> QED BY <1>3, <4>1 DEF Previous
    <3>4. Previous(i) # {} => Last(Previous(i)) \in DOMAIN movements
      BY <3>1, <3>2, LastIsOne
    <3> QED BY <1>3, <3>3, <3>4 DEF BalanceBefore
  <2>2. BalanceBefore(n)' = cash[m.account]
    <3>1. MovementsOf(m.account) # {} => Last(MovementsOf(m.account)) \in DOMAIN movements
      <4>1. MovementsOf(m.account) \subseteq 1 .. Len(movements) /\ Len(movements) \in Nat
        BY <1>1 DEF MovementsOf
      <4>2. DOMAIN movements = 1 .. Len(movements)
        BY <1>1
      <4> QED BY <4>1, <4>2, LastIsOne
    <3>2. BalanceBefore(n)' = CashTold(m.account)
      BY <1>3, <3>1 DEF BalanceBefore, CashTold
    <3> QED BY <1>1, <3>2 DEF HistoryInv, CashTells
  <2>3. movements'[n].balanceAfter = BalanceBefore(n)' + movements'[n].amount
    BY <1>1, <1>3, <2>2
  <2>4. \A i \in DOMAIN movements : movements'[i].balanceAfter = BalanceBefore(i)' + movements'[i].amount
    BY <1>3, <2>1 DEF HistoryInv, Chained
  <2> QED BY <1>3, <2>3, <2>4 DEF Chained
<1>7. OnlyOpened'
  <2>1. \A i \in DOMAIN movements : movements[i].account \in Accounts
    BY MovementFacts
  <2> QED BY <1>3, <2>1 DEF HistoryInv, OnlyOpened
<1> QED BY <1>4, <1>5, <1>6, <1>7 DEF HistoryInv

\* An account an operation reaches is open, or was, and stays so.
LEMMA OperatedIsOpened ==
  ASSUME LedgerTypeOK, NEW a \in Accounts, NEW s \in Actors, OperationBy(a, s)
  PROVE  /\ accStatus'[a] # "unopened"
         /\ \A b \in Accounts : accStatus[b] # "unopened" => accStatus'[b] # "unopened"
<1>1. accStatus \in [Accounts -> {"unopened", "active", "frozen", "closed"}]
  BY DEF LedgerTypeOK
<1>2. \/ accStatus' = [accStatus EXCEPT ![a] = "active"]
      \/ accStatus' = [accStatus EXCEPT ![a] = "closed"]
      \/ accStatus' = [accStatus EXCEPT ![a] = "frozen"]
      \/ accStatus' = accStatus /\ accStatus[a] = "active"
  BY DEF OperationBy, OpenAccount, CloseAccount, FreezeAccount, UnfreezeAccount, ApplyInterest, Active,
         Deposit, Depositable, Withdraw, Withdrawable, Invest, Investable, Divest, Divestable, Rebalance
<1> QED BY <1>1, <1>2

LEMMA HistoryStep ==
  ASSUME WellKept, WellKept', HistoryInv, [PortalNext]_ledgerVars
  PROVE  HistoryInv'
<1>1. CASE UNCHANGED <<accountVars, datesVars, movements>>
  BY <1>1, PortalStep, AroundHistory DEF WellKept
<1>2. ASSUME NEW a \in Accounts, NEW s \in Actors, OperationBy(a, s), UNCHANGED sessionVars
      PROVE  HistoryInv'
  <2>1. /\ \A b \in Accounts \ {a} : Value(b)' = Value(b) /\ cash'[b] = cash[b]
        /\ \/ movements' = movements /\ Value(a)' = Value(a) /\ cash'[a] = cash[a]
           \/ \E m \in Movement : /\ movements' = Append(movements, m)
                                  /\ m.account = a /\ m.valueAfter = Value(a)'
                                  /\ m.balanceAfter = cash'[a] /\ m.amount = cash'[a] - cash[a]
                                  /\ m.moment = now
    BY <1>2, WhatIsRecorded DEF WellKept
  <2>2. CASE movements' = movements /\ Value(a)' = Value(a) /\ cash'[a] = cash[a]
    <3>1. \A b \in Accounts : Value(b)' = Value(b) /\ cash'[b] = cash[b]
      BY <2>1, <2>2
    <3>2. \A b \in Accounts : Told(b)' = Told(b) /\ CashTold(b)' = CashTold(b)
      BY <2>2 DEF Told, CashTold, MovementsOf
    <3>3. HistoryTells' /\ CashTells'
      BY <3>1, <3>2 DEF HistoryInv, HistoryTells, CashTells
    <3>4. now' = now
      BY <1>2 DEF sessionVars
    <3>5. MomentsRise' /\ Chained'
      BY <2>2, <3>4 DEF HistoryInv, MomentsRise, Chained, BalanceBefore, Previous, MovementsOf
    <3>6. \A i \in DOMAIN movements : movements[i].account \in Accounts
      BY MovementFacts DEF WellKept
    <3>7. OnlyOpened'
      BY <1>2, <2>2, <3>6, OperatedIsOpened DEF WellKept, HistoryInv, OnlyOpened
    <3> QED BY <3>3, <3>5, <3>7 DEF HistoryInv
  <2>3. ASSUME NEW m \in Movement, movements' = Append(movements, m),
               m.account = a, m.valueAfter = Value(a)', m.balanceAfter = cash'[a],
               m.amount = cash'[a] - cash[a], m.moment = now
        PROVE  HistoryInv'
    <3>1. cash'[a] \in Int /\ LedgerTypeOK
      BY DEF WellKept, LedgerTypeOK
    <3>2. accStatus'[a] # "unopened" /\ \A b \in Accounts : accStatus[b] # "unopened" => accStatus'[b] # "unopened"
      BY <1>2, <3>1, OperatedIsOpened
    <3> QED BY <1>2, <2>1, <2>3, <3>1, <3>2, RecordedHistory
  <2> QED BY <2>1, <2>2, <2>3
<1> QED BY <1>1, <1>2, PortalStep

\* The steps of the bank alone are steps of the bank with its portal.
LEMMA LedgerIsPortal == LedgerSpec => PortalSpec
<1>1. LedgerNext => PortalNext
  BY AroundIsSession DEF LedgerNext, PortalNext, Access
<1> QED BY <1>1, PTL DEF LedgerSpec, PortalSpec

\* The history is a chain: of every account, each movement starts from the balance the one
\* before it left and the last one left the balance and the worth there are, and all are
\* in the order of time, whatever clients and the staff do.
THEOREM HistoryIsAChain == PortalSpec => [](LedgerTypeOK /\ WithinTerms /\ HistoryInv)
<1> DEFINE Inv == WellKept /\ HistoryInv
<1>1. LedgerInit => Inv
  BY HistoryInit, LedgerTypeInit, TermsInit DEF WellKept
<1>2. Inv /\ [PortalNext]_ledgerVars => Inv'
  BY HistoryStep, KeptStep
<1>3. Inv => LedgerTypeOK /\ WithinTerms /\ HistoryInv
  BY DEF WellKept
<1> QED BY <1>1, <1>2, <1>3, PTL DEF PortalSpec
-----------------------------------------------------------------------------
(***************************************************************************)
(* What the movements tell of a moment.                                    *)
(***************************************************************************)
\* What is known in every state.
Sound == LedgerTypeOK /\ WithinTerms /\ HistoryInv

\* A moment a period may begin or end with.
Limits == Nat \cup {Unlimited}

\* Money in any currency is money in the base currency, to the cent.
LEMMA InBaseIsMoney ==
  ASSUME NEW x \in Int, NEW c \in Currencies,
         NEW q, q = Rate[c].den * Rate[Base].num, NEW p, p = Rate[c].num * Rate[Base].den
  PROVE  /\ q \in Nat \ {0} /\ p \in Nat \ {0}
         /\ ToBase(x, c) \in Int /\ 2 * q * ToBase(x, c) - 2 * (x * p) \in -q .. q
         /\ ToBase(0, c) = 0
<1>1. /\ Rate[c].num \in Nat \ {0} /\ Rate[c].den \in Nat \ {0}
      /\ Rate[Base].num \in Nat \ {0} /\ Rate[Base].den \in Nat \ {0}
  BY ConverterAssumption DEF RateTable, Fractions
<1>2. \A m, n \in Nat \ {0} : m * n \in Nat \ {0}
  OBVIOUS
<1>3. q \in Nat \ {0} /\ p \in Nat \ {0}
  BY <1>1, <1>2
<1>4. x * Rate[c].num * Rate[Base].den = x * p
  BY <1>1
<1>5. PICK n \in Int : n = x * p
  BY <1>3
<1>6. ToBase(x, c) = ToMoney(n, q)
  BY <1>4, <1>5 DEF ToBase, Convert
<1>7. ToMoney(n, q) \in Int /\ 2 * q * ToMoney(n, q) - 2 * n \in -q .. q
  BY <1>3, RoundedWithin
<1>8. ToBase(0, c) = 0
  <2>1. 0 * Rate[c].num * Rate[Base].den = 0
    BY <1>1
  <2>2. \A k \in Nat \ {0} : ToMoney(0, k) = 0
    BY DEF ToMoney
  <2> QED BY <1>3, <2>1, <2>2 DEF ToBase, Convert
<1> QED BY <1>3, <1>5, <1>6, <1>7, <1>8

\* The currency of an opened account, and its value in the base currency.
LEMMA OpenedFacts ==
  ASSUME Sound, NEW a \in Accounts, accStatus[a] # "unopened"
  PROVE  terms[a].currency \in Currencies /\ terms[a].type \in AccountTypes /\ InBase(a) \in Int
<1>1. terms[a] \in Offers /\ Value(a) \in Int
  BY Portfolios DEF Sound, LedgerTypeOK
<1>2. terms[a].currency \in Currencies /\ terms[a].type \in AccountTypes
  BY <1>1, LedgerAssumption DEF OfferSet
<1> QED BY <1>1, <1>2, InBaseIsMoney DEF InBase

\* The last movement before a moment, and what the account had and was worth then.
LEMMA BeforeFacts ==
  ASSUME Sound, NEW a \in Accounts, NEW until \in Limits
  PROVE  /\ CashBefore(a, until) \in Int /\ WorthBefore(a, until) \in Int
         /\ Before(a, until) \subseteq MovementsOf(a) /\ MovementsOf(a) \subseteq DOMAIN movements
         /\ Before(a, until) # {} =>
              /\ Last(Before(a, until)) \in Before(a, until)
              /\ \A k \in Before(a, until) : k <= Last(Before(a, until))
<1> DEFINE past == Before(a, until)
<1>1. past \subseteq MovementsOf(a) /\ MovementsOf(a) \subseteq DOMAIN movements
  BY DEF Before, MovementsOf
<1>2. /\ DOMAIN movements = 1 .. Len(movements) /\ Len(movements) \in Nat
      /\ \A i \in DOMAIN movements : movements[i].balanceAfter \in Int /\ movements[i].valueAfter \in Int
  BY MovementFacts DEF Sound
<1>3. past # {} => Last(past) \in past /\ \A k \in past : k <= Last(past)
  BY <1>1, <1>2, LastIsOne
<1>4. past # {} => accStatus[a] # "unopened"
  BY <1>1 DEF Sound, HistoryInv, OnlyOpened, MovementsOf
<1>5. CashBefore(a, until) \in Int
  BY <1>1, <1>2, <1>3 DEF CashBefore
<1>6. WorthBefore(a, until) \in Int
  <2>1. CASE past # {}
    <3>1. terms[a].currency \in Currencies
      BY <1>4, <2>1, OpenedFacts
    <3>2. PICK x \in Int : x = movements[Last(past)].valueAfter
      BY <1>1, <1>2, <1>3, <2>1
    <3>3. WorthBefore(a, until) = ToBase(x, terms[a].currency)
      BY <2>1, <3>2 DEF WorthBefore
    <3> QED BY <3>1, <3>3, InBaseIsMoney
  <2>2. CASE past = {}
    BY <2>2 DEF WorthBefore
  <2> QED BY <2>1, <2>2
<1> QED BY <1>1, <1>3, <1>5, <1>6

\* Before no limit is everything: what an account has now, and is worth.
LEMMA BeforeAll ==
  ASSUME Sound, NEW a \in Accounts
  PROVE  /\ CashBefore(a, Unlimited) = cash[a]
         /\ accStatus[a] # "unopened" => WorthBefore(a, Unlimited) = InBase(a)
         /\ accStatus[a] = "unopened" => WorthBefore(a, Unlimited) = 0
<1>1. Before(a, Unlimited) = MovementsOf(a)
  BY DEF Before, Within
<1>2. cash[a] = CashTold(a) /\ Value(a) = Told(a)
  BY DEF Sound, HistoryInv, CashTells, HistoryTells
<1>3. CashBefore(a, Unlimited) = cash[a]
  BY <1>1, <1>2 DEF CashBefore, CashTold
<1>4. CASE MovementsOf(a) = {}
  <2>1. WorthBefore(a, Unlimited) = 0 /\ Value(a) = 0
    BY <1>1, <1>2, <1>4 DEF WorthBefore, Told
  <2>2. accStatus[a] # "unopened" => ToBase(0, terms[a].currency) = 0
    BY OpenedFacts, InBaseIsMoney
  <2> QED BY <1>3, <2>1, <2>2 DEF InBase
<1>5. CASE MovementsOf(a) # {}
  <2>1. accStatus[a] # "unopened"
    BY <1>5 DEF Sound, HistoryInv, OnlyOpened, MovementsOf
  <2>2. WorthBefore(a, Unlimited) = ToBase(Told(a), terms[a].currency)
    BY <1>1, <1>5 DEF WorthBefore, Told
  <2> QED BY <1>2, <1>3, <2>1, <2>2 DEF InBase
<1> QED BY <1>4, <1>5

\* What comes before a moment is what comes up to the last movement before it.
LEMMA BeforeIsUpTo ==
  ASSUME Sound, NEW until \in Limits, NEW k \in DOMAIN movements,
         Within(movements[k].moment, Unlimited, until),
         NEW a \in Accounts, \A i \in Before(a, until) : i <= k
  PROVE  Before(a, until) = {i \in MovementsOf(a) : i <= k}
<1> SUFFICES ASSUME NEW i \in MovementsOf(a), i <= k PROVE i \in Before(a, until)
  BY BeforeFacts
<1>1. i \in DOMAIN movements
  BY DEF MovementsOf
<1>2. movements[i].moment <= movements[k].moment
  BY <1>1 DEF Sound, HistoryInv, MomentsRise
<1>3. movements[i].moment \in Nat /\ movements[k].moment \in Nat
  BY <1>1, MovementFacts DEF Sound
<1>4. until # Unlimited => until \in Nat
  BY DEF Limits
<1>5. until # Unlimited => movements[k].moment < until
  BY DEF Within
<1>6. until # Unlimited => movements[i].moment < until
  BY <1>2, <1>3, <1>4, <1>5
<1> QED BY <1>6 DEF Before, Within
-----------------------------------------------------------------------------
(***************************************************************************)
(* The statements.                                                         *)
(***************************************************************************)
\* The amounts of all movements.
AmountsOf == [i \in DOMAIN movements |-> movements[i].amount]

\* The movements of an account up to the one numbered k.
UpToMovement(a, k) == {i \in MovementsOf(a) : i <= k}

\* The amounts of an account up to a movement make the balance that movement left.
LEMMA AmountsMakeBalance ==
  ASSUME Sound, NEW a \in Accounts
  PROVE  \A k \in Nat :
           SumFunctionOnSet(AmountsOf, UpToMovement(a, k)) =
             IF UpToMovement(a, k) = {} THEN 0 ELSE movements[Last(UpToMovement(a, k))].balanceAfter
<1> DEFINE Holds(k) == SumFunctionOnSet(AmountsOf, UpToMovement(a, k)) =
                         IF UpToMovement(a, k) = {} THEN 0
                         ELSE movements[Last(UpToMovement(a, k))].balanceAfter
           N == {k \in Nat : Holds(k)}
<1>1. /\ DOMAIN movements = 1 .. Len(movements) /\ Len(movements) \in Nat
      /\ \A i \in DOMAIN movements : movements[i].balanceAfter \in Int /\ movements[i].amount \in Int
  BY MovementFacts DEF Sound
<1>2. MovementsOf(a) \subseteq DOMAIN movements
  BY DEF MovementsOf
<1>3. 0 \in N
  <2>1. UpToMovement(a, 0) = {}
    BY <1>1, <1>2 DEF UpToMovement
  <2> QED BY <2>1, SumOfNone
<1>4. ASSUME NEW k \in Nat, k \in N PROVE k + 1 \in N
  <2>1. CASE k + 1 \notin MovementsOf(a)
    <3>1. UpToMovement(a, k + 1) = UpToMovement(a, k)
      BY <1>1, <1>2, <2>1 DEF UpToMovement
    <3> QED BY <1>4, <3>1
  <2>2. CASE k + 1 \in MovementsOf(a)
    <3>1. PICK n, u, v : n \in Nat /\ n = k + 1 /\ u = UpToMovement(a, k) /\ v = UpToMovement(a, n)
      OBVIOUS
    <3>2. n \in DOMAIN movements /\ movements[n].account = a
      BY <1>2, <2>2, <3>1 DEF MovementsOf
    <3>3. v = u \cup {n} /\ n \notin u /\ u \subseteq DOMAIN movements /\ Previous(n) = u
      <4>1. \A i \in MovementsOf(a) : (i <= n <=> i <= k \/ i = n) /\ (i < n <=> i <= k) /\ ~(n <= k)
        BY <1>1, <1>2, <3>1
      <4> QED BY <1>2, <2>2, <3>1, <3>2, <4>1 DEF UpToMovement, Previous
    <3>4. Last(v) = n
      <4>1. v \subseteq 1 .. Len(movements) /\ v # {}
        BY <1>1, <3>2, <3>3
      <4>2. Last(v) \in v /\ n <= Last(v)
        BY <1>1, <3>3, <4>1, LastIsOne
      <4>3. \A i \in v : i <= n /\ i \in Nat
        BY <1>1, <1>2, <3>1 DEF UpToMovement
      <4> QED BY <3>1, <4>2, <4>3
    <3>5. IsFiniteSet(v) /\ \A i \in v : AmountsOf[i] \in Int
      <4>1. IsFiniteSet(DOMAIN movements) /\ v \in SUBSET DOMAIN movements
        BY <3>2, <3>3, MovementFacts DEF Sound
      <4> QED BY <1>1, <4>1, FS_Subset DEF AmountsOf
    <3>6. SumFunctionOnSet(AmountsOf, v) = AmountsOf[n] + SumFunctionOnSet(AmountsOf, v \ {n})
      BY <3>3, <3>5, SumWithout
    <3>7. v \ {n} = u /\ AmountsOf[n] = movements[n].amount
      BY <3>2, <3>3 DEF AmountsOf
    <3>8. SumFunctionOnSet(AmountsOf, u) = BalanceBefore(n)
      BY <1>4, <3>1, <3>3 DEF BalanceBefore
    <3>9. movements[n].balanceAfter = BalanceBefore(n) + movements[n].amount
      BY <3>2 DEF Sound, HistoryInv, Chained
    <3>10. BalanceBefore(n) \in Int
      <4>1. u # {} => Last(u) \in u
        BY <1>1, <3>3, LastIsOne
      <4> QED BY <1>1, <3>3, <4>1 DEF BalanceBefore
    <3>11. SumFunctionOnSet(AmountsOf, v) = movements[n].balanceAfter
      <4>1. PICK x \in Int, y \in Int : x = BalanceBefore(n) /\ y = movements[n].amount
        BY <1>1, <3>2, <3>10
      <4>2. SumFunctionOnSet(AmountsOf, v) = y + x /\ movements[n].balanceAfter = x + y
        BY <3>6, <3>7, <3>8, <3>9, <4>1
      <4> QED BY <4>1, <4>2
    <3>12. v # {}
      BY <3>3
    <3> QED BY <3>1, <3>4, <3>11, <3>12
  <2> QED BY <2>1, <2>2
<1>5. \A k \in Nat : k \in N
  <2> HIDE DEF N
  <2> QED BY <1>3, <1>4, NaturalsByInduction
<1> QED BY <1>5

\* So do the amounts before a moment.
LEMMA AmountsBefore ==
  ASSUME Sound, NEW a \in Accounts, NEW until \in Limits
  PROVE  SumFunctionOnSet(AmountsOf, Before(a, until)) = CashBefore(a, until)
<1> DEFINE past == Before(a, until)
<1>1. CASE past = {}
  BY <1>1, SumOfNone DEF CashBefore
<1>2. CASE past # {}
  <2>1. PICK k : k = Last(past) /\ k \in past /\ k \in DOMAIN movements /\ \A i \in past : i <= k
    BY <1>2, BeforeFacts
  <2>2. k \in Nat
    BY <2>1, MovementFacts DEF Sound
  <2>3. Within(movements[k].moment, Unlimited, until)
    BY <2>1 DEF Before
  <2>4. past = UpToMovement(a, k)
    BY <2>1, <2>3, BeforeIsUpTo DEF UpToMovement
  <2> QED BY <1>2, <2>1, <2>2, <2>4, AmountsMakeBalance DEF CashBefore
<1> QED BY <1>1, <1>2

\* What an account had before a period and the amounts of its statement make what it had
\* at the period's end.
LEMMA StatementMakesBalance ==
  ASSUME Sound, NEW accounts \in SUBSET Accounts, NEW a \in accounts,
         NEW until \in Limits, NEW since \in Limits, IsPeriod(since, until),
         NEW had, had = IF since = Unlimited THEN 0 ELSE CashBefore(a, since),
         NEW rows, rows = Statement(accounts, since, until)
  PROVE  had + SumFunction([i \in rows \cap MovementsOf(a) |-> movements[i].amount])
           = CashBefore(a, until)
<1> DEFINE past  == IF since = Unlimited THEN {} ELSE Before(a, since)
           drawn == rows \cap MovementsOf(a)
           f     == [i \in drawn |-> movements[i].amount]
<1>1. /\ DOMAIN movements = 1 .. Len(movements) /\ Len(movements) \in Nat
      /\ \A i \in DOMAIN movements : movements[i].amount \in Int /\ movements[i].moment \in Nat
  BY MovementFacts DEF Sound
<1>2. MovementsOf(a) \subseteq DOMAIN movements /\ \A i \in MovementsOf(a) : movements[i].account \in accounts
  BY DEF MovementsOf
<1>3. had = SumFunctionOnSet(AmountsOf, past)
  BY AmountsBefore, SumOfNone
<1>4. past \cup drawn = Before(a, until) /\ past \cap drawn = {}
  <2>1. drawn = {i \in MovementsOf(a) : Within(movements[i].moment, since, until)}
    BY <1>2 DEF Statement
  <2>2. past = {i \in MovementsOf(a) : since # Unlimited /\ movements[i].moment < since}
    BY DEF Before, Within
  <2>3. Before(a, until) = {i \in MovementsOf(a) : until # Unlimited => movements[i].moment < until}
    BY DEF Before, Within
  <2>4. ASSUME NEW i \in MovementsOf(a), NEW m, m = movements[i].moment
        PROVE  /\ (since # Unlimited /\ m < since) \/ Within(m, since, until)
                      <=> (until # Unlimited => m < until)
               /\ ~((since # Unlimited /\ m < since) /\ Within(m, since, until))
    <3>1. m \in Nat /\ (since # Unlimited => since \in Nat) /\ (until # Unlimited => until \in Nat)
      BY <1>1, <1>2, <2>4 DEF Limits
    <3>2. since # Unlimited /\ until # Unlimited => since < until
      BY DEF IsPeriod
    <3> QED BY <3>1, <3>2 DEF Within
  <2> HIDE DEF drawn, past
  <2> QED BY <2>1, <2>2, <2>3, <2>4
<1>5. IsFiniteSet(past) /\ IsFiniteSet(drawn) /\ past \subseteq DOMAIN movements /\ drawn \subseteq DOMAIN movements
  <2>1. IsFiniteSet(DOMAIN movements)
    BY MovementFacts DEF Sound
  <2>2. past \subseteq DOMAIN movements /\ drawn \subseteq DOMAIN movements
    BY <1>2 DEF Before
  <2> QED BY <2>1, <2>2, FS_Subset
<1>6. SumFunctionOnSet(AmountsOf, past \cup drawn)
        = SumFunctionOnSet(AmountsOf, past) + SumFunctionOnSet(AmountsOf, drawn)
  <2>1. \A i \in past \cup drawn : AmountsOf[i] \in Int
    BY <1>1, <1>5 DEF AmountsOf
  <2> HIDE DEF drawn, past
  <2> QED BY <1>4, <1>5, <2>1, SumOfTwo
<1>7. SumFunctionOnSet(AmountsOf, drawn) = SumFunctionOnSet(f, drawn)
  <2>1. \A i \in drawn : AmountsOf[i] = f[i]
    BY <1>5 DEF AmountsOf
  <2> HIDE DEF drawn, f
  <2> QED BY <1>5, <2>1, SumSame
<1>8. SumFunction(f) = SumFunctionOnSet(f, drawn)
  BY DEF SumFunction
<1> QED BY <1>3, <1>4, <1>6, <1>7, <1>8, AmountsBefore
-----------------------------------------------------------------------------
(***************************************************************************)
(* The lines.                                                              *)
(***************************************************************************)
\* What some accounts together were worth before a moment.
WorthThen(accounts, until) == SumFunction([a \in accounts |-> WorthBefore(a, until)])

\* The value of some accounts after a movement: what each was worth before the moment
\* the line ends at.
LEMMA ValueAtIs ==
  ASSUME Sound, NEW accounts \in SUBSET Accounts, NEW until \in Limits,
         NEW k \in DOMAIN movements, Within(movements[k].moment, Unlimited, until),
         \A i \in DOMAIN movements :
            movements[i].account \in accounts /\ Within(movements[i].moment, Unlimited, until) => i <= k
  PROVE  ValueAt(accounts, k) = WorthThen(accounts, until)
<1> DEFINE moved == {b \in accounts : \E i \in MovementsOf(b) : i <= k}
           f == [a \in accounts |-> WorthBefore(a, until)]
           g == [a \in moved |-> ToBase(movements[Last({i \in MovementsOf(a) : i <= k})].valueAfter,
                                        terms[a].currency)]
<1>1. ASSUME NEW a \in accounts
      PROVE  Before(a, until) = {i \in MovementsOf(a) : i <= k} /\ f[a] \in Int
  <2>1. \A i \in Before(a, until) : i <= k
    BY DEF Before, MovementsOf
  <2> QED BY <2>1, BeforeIsUpTo, BeforeFacts
<1>2. \A a \in moved : g[a] = f[a]
  BY <1>1 DEF WorthBefore
<1>3. \A a \in accounts \ moved : f[a] = 0
  BY <1>1 DEF WorthBefore
<1>4. IsFiniteSet(accounts) /\ IsFiniteSet(moved) /\ moved \in SUBSET accounts
  BY ReportAssumption, FS_Subset
<1>5. \A a \in accounts : f[a] \in Int
  BY <1>1
<1>6. DOMAIN f = accounts /\ DOMAIN g = moved
  OBVIOUS
<1>7. ValueAt(accounts, k) = SumFunctionOnSet(g, moved)
  BY DEF ValueAt, SumFunction
<1>8. WorthThen(accounts, until) = SumFunctionOnSet(f, accounts)
  BY DEF WorthThen, SumFunction
<1> HIDE DEF moved, f, g
<1>9. SumFunctionOnSet(g, moved) = SumFunctionOnSet(f, moved)
  BY <1>2, <1>4, SumSame
<1>10. SumFunctionOnSet(f, accounts) = SumFunctionOnSet(f, moved)
  BY <1>3, <1>4, <1>5, SumOfPart
<1> QED BY <1>7, <1>8, <1>9, <1>10

\* Wherever it starts, a line ends with what its accounts were worth at its end.
LEMMA LineEnds ==
  ASSUME Sound, NEW accounts \in SUBSET Accounts, NEW until \in Limits, NEW since \in Limits
  PROVE  EndOf(BalanceSteps(accounts, since, until)) = WorthThen(accounts, until)
<1> DEFINE drawn  == {i \in DOMAIN movements : /\ movements[i].account \in accounts
                                               /\ until # Unlimited => movements[i].moment < until}
           At(i)  == IF since = Unlimited THEN movements[i].moment
                     ELSE Max({since, movements[i].moment})
           points == {At(i) : i \in drawn}
           end    == IF until = Unlimited THEN now ELSE Min({until, now})
           dom    == points \cup (IF points = {} THEN {} ELSE {Max(points \cup {end})})
           line   == [m \in dom |-> ValueAt(accounts, Last({i \in drawn : At(i) <= m}))]
<1>1. BalanceSteps(accounts, since, until) = line
  BY DEF BalanceSteps
<1>2. /\ DOMAIN movements = 1 .. Len(movements) /\ Len(movements) \in Nat /\ IsFiniteSet(DOMAIN movements)
      /\ \A i \in DOMAIN movements : movements[i].moment \in Nat
      /\ now \in Nat
  BY MovementFacts DEF Sound, LedgerTypeOK, SessionTypeOK
<1>3. drawn = {i \in DOMAIN movements : /\ movements[i].account \in accounts
                                        /\ Within(movements[i].moment, Unlimited, until)}
  <2>1. \A m : Within(m, Unlimited, until) <=> (until # Unlimited => m < until)
    BY DEF Within
  <2> QED BY <2>1
<1>4. CASE drawn = {}
  <2>1. DOMAIN line = {}
    BY <1>4
  <2>2. EndOf(BalanceSteps(accounts, since, until)) = 0
    BY <1>1, <2>1 DEF EndOf
  <2>3. \A a \in accounts : WorthBefore(a, until) = 0
    BY <1>3, <1>4 DEF WorthBefore, Before, MovementsOf
  <2> DEFINE f == [a \in accounts |-> WorthBefore(a, until)]
  <2>4. WorthThen(accounts, until) = SumFunctionOnSet(f, accounts)
    BY DEF WorthThen, SumFunction
  <2>5. IsFiniteSet(accounts) /\ \A a \in accounts : f[a] = 0
    BY <2>3, ReportAssumption, FS_Subset
  <2> HIDE DEF f
  <2>6. SumFunctionOnSet(f, accounts) = SumFunctionOnSet(f, {})
    BY <2>5, SumOfPart
  <2> QED BY <2>2, <2>4, <2>6, SumOfNone
<1>5. CASE drawn # {}
  <2>1. ASSUME NEW i \in drawn PROVE At(i) \in Int
    <3>1. movements[i].moment \in Nat
      BY <1>2
    <3>2. CASE since = Unlimited
      BY <3>1, <3>2
    <3>3. CASE since # Unlimited
      <4>1. PICK x \in Nat, y \in Nat : x = since /\ y = movements[i].moment
        BY <3>1, <3>3 DEF Limits
      <4>2. Max({x, y}) \in Int
        <5>1. \E z \in {x, y} : \A w \in {x, y} : z >= w
          OBVIOUS
        <5>2. Max({x, y}) \in {x, y}
          BY <5>1 DEF Max
        <5> QED BY <5>2
      <4> QED BY <3>3, <4>1, <4>2
    <3> QED BY <3>2, <3>3
  <2>2. end \in Int
    <3>1. CASE until # Unlimited
      <4>1. PICK x \in Nat, y \in Nat : x = until /\ y = now
        BY <1>2, <3>1 DEF Limits
      <4>2. \E z \in {x, y} : \A w \in {x, y} : z =< w
        OBVIOUS
      <4>3. Min({x, y}) \in {x, y}
        BY <4>2 DEF Min
      <4> QED BY <3>1, <4>1, <4>3
    <3> QED BY <1>2, <3>1
  <2>3. IsFiniteSet(points) /\ points # {} /\ points \subseteq Int
    <3>1. IsFiniteSet(drawn)
      BY <1>2, FS_Subset
    <3>2. PICK f : f = [i \in drawn |-> At(i)]
      OBVIOUS
    <3>3. points = {f[i] : i \in drawn}
      BY <3>2
    <3> HIDE DEF drawn, points, At
    <3>4. IsFiniteSet(points)
      BY <3>1, <3>3, ImageIsFinite
    <3> QED BY <1>5, <2>1, <3>4 DEF points
  <2>4. IsFiniteSet(dom) /\ dom # {} /\ dom \subseteq Int /\ points \subseteq dom
    <3> HIDE DEF points, end
    <3>1. IsFiniteSet(points \cup {end}) /\ points \cup {end} # {} /\ points \cup {end} \subseteq Int
      BY <2>2, <2>3, FS_AddElement
    <3>2. PICK last : last = Max(points \cup {end})
      OBVIOUS
    <3>3. last \in Int
      BY <3>1, <3>2, MaxIs
    <3>4. dom = points \cup {last}
      BY <2>3, <3>2
    <3> QED BY <2>3, <3>3, <3>4, FS_AddElement
  <2>5. PICK m : m = Max(dom) /\ m \in dom /\ \A y \in dom : y <= m
    <3> HIDE DEF dom
    <3> QED BY <2>4, MaxIs
  <2>6. {i \in drawn : At(i) <= m} = drawn
    BY <2>4, <2>5
  <2>7. EndOf(BalanceSteps(accounts, since, until)) = ValueAt(accounts, Last(drawn))
    <3>1. DOMAIN line = dom /\ line[m] = ValueAt(accounts, Last(drawn))
      BY <2>5, <2>6
    <3> HIDE DEF line, dom
    <3> QED BY <1>1, <2>4, <2>5, <3>1 DEF EndOf
  <2>8. Last(drawn) \in drawn /\ \A i \in drawn : i <= Last(drawn)
    <3>1. drawn \subseteq 1 .. Len(movements)
      BY <1>2
    <3> HIDE DEF drawn
    <3> QED BY <1>2, <1>5, <3>1, LastIsOne
  <2>9. PICK k : k = Last(drawn)
    OBVIOUS
  <2>10. /\ k \in DOMAIN movements /\ Within(movements[k].moment, Unlimited, until)
         /\ \A i \in DOMAIN movements :
               movements[i].account \in accounts /\ Within(movements[i].moment, Unlimited, until) => i <= k
    BY <1>3, <2>8, <2>9
  <2>11. ValueAt(accounts, k) = WorthThen(accounts, until)
    BY <2>10, ValueAtIs
  <2> QED BY <2>7, <2>9, <2>11
<1> QED BY <1>4, <1>5

\* The accounts that get a line of their own are some of them.
LEMMA KeptAreSome ==
  ASSUME NEW accounts, IsFiniteSet(accounts), \A a \in accounts : InBase(a) \in Int
  PROVE  Kept(accounts) \subseteq accounts
<1>1. CASE Cardinality(accounts) <= MaxSeries
  BY <1>1 DEF Kept
<1>2. CASE ~(Cardinality(accounts) <= MaxSeries)
  <2> DEFINE f == [a \in accounts |-> InBase(a)]
  <2>1. PICK n \in Nat : n = MaxSeries - 1
    BY ReportAssumption
  <2>2. Cardinality(accounts) \in Nat /\ MaxSeries \in Nat
    BY FS_CardinalityType, ReportAssumption
  <2>3. n \in 0 .. Cardinality(accounts)
    BY <1>2, <2>1, <2>2
  <2>4. \A a \in accounts : f[a] \in Int
    OBVIOUS
  <2>5. PICK most \in SUBSET accounts : Cardinality(most) = n /\ \A x \in most, y \in accounts \ most : f[x] >= f[y]
    <3> HIDE DEF f
    <3> QED BY <2>3, <2>4, MostOf
  <2>6. \E m \in kSubset(MaxSeries - 1, accounts) : \A a \in m, b \in accounts \ m : InBase(a) >= InBase(b)
    BY <2>1, <2>5 DEF kSubset
  <2>7. Kept(accounts) \in kSubset(MaxSeries - 1, accounts)
    BY <1>2, <2>6 DEF Kept
  <2> QED BY <2>7 DEF kSubset
<1> QED BY <1>1, <1>2

\* Every account is in one of the lines and in no other.
LEMMA LinesShareOut ==
  ASSUME NEW accounts, IsFiniteSet(accounts), \A a \in accounts : InBase(a) \in Int,
         NEW groups, groups = LineGroups(accounts)
  PROVE  /\ IsFiniteSet(groups)
         /\ \A g \in groups : g \subseteq accounts
         /\ \A g, h \in groups : g # h => g \cap h = {}
         /\ UNION groups = accounts
<1>1. PICK kept : kept = Kept(accounts) /\ kept \subseteq accounts
  BY KeptAreSome
<1>2. groups = {{a} : a \in kept} \cup ({accounts \ kept} \ {{}})
  BY <1>1 DEF LineGroups
<1>3. IsFiniteSet(groups)
  <2>1. IsFiniteSet(kept)
    BY <1>1, FS_Subset
  <2>2. PICK f : f = [a \in kept |-> {a}]
    OBVIOUS
  <2>3. {f[a] : a \in kept} = {{a} : a \in kept}
    BY <2>2
  <2>4. PICK alone, rest : alone = {{a} : a \in kept} /\ rest = {accounts \ kept} \ {{}}
    OBVIOUS
  <2>5. IsFiniteSet({f[a] : a \in kept})
    BY <2>1, ImageIsFinite
  <2>6. IsFiniteSet(alone)
    BY <2>3, <2>4, <2>5
  <2>7. IsFiniteSet({accounts \ kept}) /\ rest \in SUBSET {accounts \ kept}
    BY <2>4, FS_Singleton
  <2>8. IsFiniteSet(rest)
    BY <2>7, FS_Subset
  <2>9. groups = alone \cup rest
    BY <1>2, <2>4
  <2> QED BY <2>6, <2>8, <2>9, FS_Union
<1>4. \A g \in groups : g \subseteq accounts
  BY <1>1, <1>2
<1>5. \A g, h \in groups : g # h => g \cap h = {}
  <2>1. \A g \in groups : (\E a \in kept : g = {a}) \/ g = accounts \ kept
    BY <1>2
  <2> QED BY <2>1
<1>6. UNION groups = accounts
  <2>1. ASSUME NEW a \in accounts PROVE \E g \in groups : a \in g
    <3>1. CASE a \in kept
      BY <1>2, <3>1
    <3>2. CASE a \notin kept
      BY <1>2, <3>2
    <3> QED BY <3>1, <3>2
  <2> QED BY <1>4, <2>1
<1> QED BY <1>3, <1>4, <1>5, <1>6

\* Together the lines of some accounts end with what the accounts were worth then.
LEMMA LinesEndTogether ==
  ASSUME Sound, NEW accounts \in SUBSET Opened, NEW until \in Limits, NEW since \in Limits
  PROVE  LinesEnd(LineGroups(accounts), since, until) = WorthThen(accounts, until)
<1> DEFINE f == [a \in accounts |-> WorthBefore(a, until)]
<1>1. /\ accounts \in SUBSET Accounts /\ IsFiniteSet(accounts)
      /\ \A a \in accounts : InBase(a) \in Int
  BY ReportAssumption, FS_Subset, OpenedFacts DEF Opened
<1>2. PICK groups : groups = LineGroups(accounts)
  OBVIOUS
<1>3. /\ IsFiniteSet(groups) /\ \A g \in groups : g \subseteq accounts
      /\ \A g, h \in groups : g # h => g \cap h = {}
      /\ UNION groups = accounts
  BY <1>1, <1>2, LinesShareOut
<1>4. PICK t : t = [g \in groups |-> EndOf(BalanceSteps(g, since, until))]
  OBVIOUS
<1>5. PICK p : p = [g \in groups |-> g]
  OBVIOUS
<1>6. \A a \in accounts : f[a] \in Int
  BY <1>1, BeforeFacts
<1>7. ASSUME NEW g \in groups PROVE t[g] = SumFunctionOnSet(f, p[g])
  <2> DEFINE h == [a \in g |-> WorthBefore(a, until)]
  <2>1. g \in SUBSET Accounts /\ IsFiniteSet(g) /\ g \subseteq accounts
    BY <1>1, <1>3, FS_Subset
  <2>2. t[g] = WorthThen(g, until)
    BY <1>4, <2>1, LineEnds
  <2>3. t[g] = SumFunctionOnSet(h, g)
    BY <2>2 DEF WorthThen, SumFunction
  <2>4. \A a \in g : f[a] = h[a]
    BY <2>1
  <2>5. p[g] = g
    BY <1>5
  <2> HIDE DEF f, h
  <2>6. SumFunctionOnSet(f, g) = SumFunctionOnSet(h, g)
    BY <2>1, <2>4, SumSame
  <2> QED BY <2>3, <2>5, <2>6
<1>8. LinesEnd(groups, since, until) = SumFunctionOnSet(t, groups)
  BY <1>4 DEF LinesEnd, SumFunction
<1>9. WorthThen(accounts, until) = SumFunctionOnSet(f, accounts)
  BY DEF WorthThen, SumFunction
<1> HIDE DEF f
<1>10. /\ \A g \in groups : p[g] \subseteq accounts
       /\ \A g, h \in groups : g # h => p[g] \cap p[h] = {}
       /\ UNION {p[g] : g \in groups} = accounts
  <2>1. {p[g] : g \in groups} = groups
    BY <1>5
  <2> QED BY <1>3, <1>5, <2>1
<1>11. SumFunctionOnSet(t, groups) = SumFunctionOnSet(f, accounts)
  <2>1. SumFunctionOnSet(t, groups) = SumFunctionOnSet(f, UNION {p[g] : g \in groups})
    BY <1>1, <1>3, <1>6, <1>7, <1>10, SumOfParts
  <2> QED BY <1>10, <2>1
<1> QED BY <1>2, <1>8, <1>9, <1>11

\* Every statement explains its period, and the lines beside it end where it does.
LEMMA StatementsHold == Sound => StatementsAddUp
<1> SUFFICES ASSUME Sound, NEW c \in Clients, NEW until \in Moments, NEW since \in Moments \cup {Unlimited},
                    IsPeriod(since, until)
             PROVE  LET groups == LineGroups(AccountIds(c))
                        rows   == Statement(AccountIds(c), since, until)
                    IN  /\ \A a \in AccountIds(c) :
                             LET had == IF since = Unlimited THEN 0 ELSE CashBefore(a, since)
                             IN  had + SumFunction([i \in rows \cap MovementsOf(a) |-> movements[i].amount])
                                   = CashBefore(a, until)
                        /\ LinesEnd(groups, since, until)
                             = SumFunction([a \in AccountIds(c) |-> WorthBefore(a, until)])
  BY DEF StatementsAddUp
<1>1. until \in Limits /\ since \in Limits
  <2>1. Moments \subseteq Nat
    BY MovementFacts DEF Sound, LedgerTypeOK, SessionTypeOK, Moments
  <2> QED BY <2>1 DEF Limits
<1>2. AccountIds(c) \in SUBSET Opened /\ AccountIds(c) \in SUBSET Accounts
  BY DEF AccountIds, Opened
<1>3. LinesEnd(LineGroups(AccountIds(c)), since, until)
        = SumFunction([a \in AccountIds(c) |-> WorthBefore(a, until)])
  <2>1. PICK accounts : accounts = AccountIds(c)
    OBVIOUS
  <2>2. LinesEnd(LineGroups(accounts), since, until) = WorthThen(accounts, until)
    BY <1>1, <1>2, <2>1, LinesEndTogether
  <2> QED BY <2>1, <2>2 DEF WorthThen
<1>4. ASSUME NEW a \in AccountIds(c),
             NEW had, had = IF since = Unlimited THEN 0 ELSE CashBefore(a, since),
             NEW rows, rows = Statement(AccountIds(c), since, until)
      PROVE  had + SumFunction([i \in rows \cap MovementsOf(a) |-> movements[i].amount])
               = CashBefore(a, until)
  <2>1. PICK accounts : accounts = AccountIds(c)
    OBVIOUS
  <2>2. accounts \in SUBSET Accounts /\ a \in accounts /\ rows = Statement(accounts, since, until)
    BY <1>2, <1>4, <2>1
  <2> QED BY <1>1, <1>4, <2>2, StatementMakesBalance
<1> QED BY <1>3, <1>4
-----------------------------------------------------------------------------
(***************************************************************************)
(* The totals.                                                             *)
(***************************************************************************)
\* The value of every opened account in the base currency.
Worths == [a \in Opened |-> InBase(a)]

\* What is known of the opened accounts and their values.
LEMMA WorthsAre ==
  ASSUME Sound
  PROVE  /\ IsFiniteSet(Opened) /\ Opened \subseteq Accounts
         /\ \A a \in Opened : Worths[a] \in Int /\ Worths[a] = InBase(a)
  BY ReportAssumption, FS_Subset, OpenedFacts DEF Opened, Worths

\* A total is a sum of those values.
LEMMA TotalIsSum ==
  ASSUME Sound, NEW accounts \in SUBSET Opened
  PROVE  TotalOf(accounts) = SumFunctionOnSet(Worths, accounts)
<1>1. PICK f : f = [a \in accounts |-> InBase(a)]
  OBVIOUS
<1>2. TotalOf(accounts) = SumFunctionOnSet(f, accounts)
  BY <1>1 DEF TotalOf, SumFunction
<1>3. IsFiniteSet(accounts) /\ \A a \in accounts : f[a] = Worths[a]
  BY <1>1, WorthsAre, FS_Subset
<1>4. SumFunctionOnSet(f, accounts) = SumFunctionOnSet(Worths, accounts)
  BY <1>3, SumSame
<1> QED BY <1>2, <1>4

\* Shares of the opened accounts that have nothing in common and miss none make the total
\* of the bank.
LEMMA SharesMakeTotal ==
  ASSUME Sound, NEW I, IsFiniteSet(I), NEW p, \A i \in I : p[i] \subseteq Opened,
         \A i, j \in I : i # j => p[i] \cap p[j] = {}, \A a \in Opened : \E i \in I : a \in p[i],
         NEW t, \A i \in I : t[i] = TotalOf(p[i])
  PROVE  SumFunctionOnSet(t, I) = BankTotal
<1>1. \A i \in I : t[i] = SumFunctionOnSet(Worths, p[i])
  BY TotalIsSum
<1>2. UNION {p[i] : i \in I} = Opened
  OBVIOUS
<1>3. SumFunctionOnSet(t, I) = SumFunctionOnSet(Worths, UNION {p[i] : i \in I})
  BY <1>1, WorthsAre, SumOfParts
<1>4. BankTotal = SumFunctionOnSet(Worths, Opened)
  BY TotalIsSum DEF BankTotal
<1> QED BY <1>2, <1>3, <1>4

\* The reports of the clients: their lines, their accounts.
LEMMA ClientsReachNow ==
  ASSUME Sound, NEW c \in Clients
  PROVE  /\ \A since \in {Unlimited, now} :
               LinesEnd(LineGroups(AccountIds(c)), since, Unlimited) = ClientTotal(c)
         /\ \A a \in AccountIds(c) : cash[a] = CashBefore(a, Unlimited) /\ InBase(a) = WorthBefore(a, Unlimited)
<1>1. PICK accounts : accounts = AccountIds(c)
  OBVIOUS
<1>2. /\ accounts \in SUBSET Opened /\ accounts \in SUBSET Accounts
      /\ \A a \in accounts : accStatus[a] # "unopened"
  BY <1>1 DEF AccountIds, Opened
<1>3. \A a \in accounts : cash[a] = CashBefore(a, Unlimited) /\ InBase(a) = WorthBefore(a, Unlimited)
  BY <1>2, BeforeAll
<1>4. WorthThen(accounts, Unlimited) = TotalOf(accounts)
  <2>1. [a \in accounts |-> WorthBefore(a, Unlimited)] = [a \in accounts |-> InBase(a)]
    BY <1>3
  <2> QED BY <2>1 DEF WorthThen, TotalOf
<1>5. ASSUME NEW since \in {Unlimited, now}
      PROVE  LinesEnd(LineGroups(accounts), since, Unlimited) = TotalOf(accounts)
  <2>1. since \in Limits /\ Unlimited \in Limits
    BY DEF Limits, Sound, LedgerTypeOK, SessionTypeOK
  <2> QED BY <1>2, <1>4, <2>1, LinesEndTogether
<1> QED BY <1>1, <1>3, <1>5 DEF ClientTotal

\* The history of the whole bank ends with its total.
LEMMA BankReachesNow == Sound => EndOf(BankHistory(Unlimited, Unlimited)) = BankTotal
<1> SUFFICES ASSUME Sound PROVE EndOf(BankHistory(Unlimited, Unlimited)) = BankTotal
  OBVIOUS
<1>1. EndOf(BankHistory(Unlimited, Unlimited)) = WorthThen(Accounts, Unlimited)
  <2>1. Unlimited \in Limits /\ Accounts \in SUBSET Accounts
    BY DEF Limits
  <2> QED BY <2>1, LineEnds DEF BankHistory
<1>2. PICK f : f = [a \in Accounts |-> WorthBefore(a, Unlimited)]
  OBVIOUS
<1>3. WorthThen(Accounts, Unlimited) = SumFunctionOnSet(f, Accounts)
  BY <1>2 DEF WorthThen, SumFunction
<1>4. /\ \A a \in Opened : f[a] = Worths[a]
      /\ \A a \in Accounts \ Opened : f[a] = 0
      /\ \A a \in Accounts : f[a] \in Int
  <2>1. \A a \in Opened : a \in Accounts /\ accStatus[a] # "unopened" /\ Worths[a] = InBase(a) /\ Worths[a] \in Int
    BY WorthsAre DEF Opened
  <2>2. \A a \in Accounts \ Opened : accStatus[a] = "unopened"
    BY DEF Opened
  <2> QED BY <1>2, <2>1, <2>2, BeforeAll
<1>5. IsFiniteSet(Accounts) /\ IsFiniteSet(Opened) /\ Opened \in SUBSET Accounts
  BY ReportAssumption, WorthsAre
<1>6. SumFunctionOnSet(f, Accounts) = SumFunctionOnSet(f, Opened)
  BY <1>4, <1>5, SumOfPart
<1>7. SumFunctionOnSet(f, Opened) = SumFunctionOnSet(Worths, Opened)
  BY <1>4, <1>5, SumSame
<1> QED BY <1>1, <1>3, <1>6, <1>7, TotalIsSum DEF BankTotal

\* The clients' totals make the bank's.
LEMMA ClientsMakeTotal == Sound => SumFunction([c \in Clients |-> ClientTotal(c)]) = BankTotal
<1> SUFFICES ASSUME Sound PROVE SumFunction([c \in Clients |-> ClientTotal(c)]) = BankTotal
  OBVIOUS
<1>1. PICK t, p : t = [c \in Clients |-> ClientTotal(c)] /\ p = [c \in Clients |-> AccountIds(c)]
  OBVIOUS
<1>2. \A c \in Clients : p[c] = AccountIds(c) /\ p[c] \subseteq Opened
  BY <1>1 DEF AccountIds, Opened
<1>3. \A c, d \in Clients : c # d => p[c] \cap p[d] = {}
  BY <1>1 DEF AccountIds
<1>4. \A a \in Opened : \E c \in Clients : a \in p[c]
  BY <1>1, LedgerAssumption DEF AccountIds, Opened
<1>5. \A c \in Clients : t[c] = TotalOf(p[c])
  BY <1>1 DEF ClientTotal
<1>6. SumFunctionOnSet(t, Clients) = BankTotal
  BY <1>2, <1>3, <1>4, <1>5, ReportAssumption, SharesMakeTotal
<1> QED BY <1>1, <1>6 DEF SumFunction

\* So do those of the types, which are finitely many.
LEMMA TypesMakeTotal ==
  ASSUME Sound
  PROVE  /\ SumFunction([type \in DOMAIN ByType |-> ByType[type].inBase]) = BankTotal
         /\ IsFiniteSet(DOMAIN ByType) /\ DOMAIN ByType = {terms[a].type : a \in Opened}
<1>1. PICK T : T = {terms[a].type : a \in Opened}
  OBVIOUS
<1>2. DOMAIN ByType = T /\ \A type \in T : ByType[type].inBase = TotalOf({a \in Opened : terms[a].type = type})
  BY <1>1 DEF ByType
<1>3. IsFiniteSet(T)
  <2>1. PICK f : f = [a \in Opened |-> terms[a].type]
    OBVIOUS
  <2>2. {f[a] : a \in Opened} = T
    BY <1>1, <2>1
  <2> QED BY <2>2, WorthsAre, ImageIsFinite
<1>4. PICK t, p : /\ t = [type \in T |-> ByType[type].inBase]
                  /\ p = [type \in T |-> {a \in Opened : terms[a].type = type}]
  OBVIOUS
<1>5. /\ \A type \in T : p[type] \subseteq Opened
      /\ \A x, y \in T : x # y => p[x] \cap p[y] = {}
      /\ \A a \in Opened : \E type \in T : a \in p[type]
  BY <1>1, <1>4
<1>6. \A type \in T : t[type] = TotalOf(p[type])
  BY <1>2, <1>4
<1>7. SumFunctionOnSet(t, T) = BankTotal
  BY <1>3, <1>5, <1>6, SharesMakeTotal
<1> QED BY <1>1, <1>2, <1>3, <1>4, <1>7 DEF SumFunction

\* The accounts that are not closed are counted once, by type and status.
LEMMA TypesCountAll ==
  ASSUME Sound
  PROVE  Cardinality(StillOpen) = SumFunction([type \in DOMAIN ByType |->
            ByType[type].statuses["active"] + ByType[type].statuses["frozen"]])
<1>1. PICK T : T = DOMAIN ByType /\ T = {terms[a].type : a \in Opened} /\ IsFiniteSet(T)
  BY TypesMakeTotal
<1>2. IsFiniteSet(Opened) /\ IsFiniteSet(StillOpen) /\ StillOpen \subseteq Opened
  BY WorthsAre, FS_Subset DEF StillOpen
<1>3. PICK ones : ones = [a \in StillOpen |-> 1]
  OBVIOUS
<1>4. PICK p, t : /\ p = [type \in T |-> {a \in StillOpen : terms[a].type = type}]
                  /\ t = [type \in T |-> ByType[type].statuses["active"] + ByType[type].statuses["frozen"]]
  OBVIOUS
<1>5. ASSUME NEW type \in T PROVE t[type] = SumFunctionOnSet(ones, p[type])
  <2>1. PICK x, y : /\ x = {a \in Opened : terms[a].type = type /\ accStatus[a] = "active"}
                    /\ y = {a \in Opened : terms[a].type = type /\ accStatus[a] = "frozen"}
    OBVIOUS
  <2>2. x \cup y = p[type] /\ x \cap y = {}
    <3>1. accStatus \in [Accounts -> {"unopened", "active", "frozen", "closed"}]
      BY DEF Sound, LedgerTypeOK
    <3> QED BY <1>4, <2>1, <3>1 DEF Opened, StillOpen
  <2>3. t[type] = Cardinality(x) + Cardinality(y)
    <3>1. /\ {a \in {b \in Opened : terms[b].type = type} : accStatus[a] = "active"} = x
          /\ {a \in {b \in Opened : terms[b].type = type} : accStatus[a] = "frozen"} = y
      BY <2>1
    <3>2. ByType[type].statuses = [status \in {"active", "frozen", "closed"} |->
             Cardinality({a \in {b \in Opened : terms[b].type = type} : accStatus[a] = status})]
      BY <1>1 DEF ByType
    <3>3. ByType[type].statuses["active"] = Cardinality(x) /\ ByType[type].statuses["frozen"] = Cardinality(y)
      BY <3>1, <3>2
    <3> QED BY <1>4, <3>3
  <2>4. IsFiniteSet(x) /\ IsFiniteSet(y) /\ p[type] \subseteq StillOpen
    BY <1>2, <1>4, <2>1, FS_Subset
  <2>5. Cardinality(p[type]) = Cardinality(x) + Cardinality(y)
    <3>1. Cardinality(x) \in Nat /\ Cardinality(y) \in Nat /\ Cardinality({}) = 0
      BY <2>4, FS_CardinalityType, FS_EmptySet
    <3>2. Cardinality(x \cup y) = Cardinality(x) + Cardinality(y) - Cardinality(x \cap y)
      BY <2>4, FS_Union
    <3>3. PICK m, n \in Nat : m = Cardinality(x) /\ n = Cardinality(y)
      BY <3>1
    <3>4. Cardinality(p[type]) = m + n - 0
      BY <2>2, <3>1, <3>2, <3>3
    <3> QED BY <3>3, <3>4
  <2>6. SumFunctionOnSet(ones, p[type]) = Cardinality(p[type])
    <3>1. PICK s : s = p[type]
      OBVIOUS
    <3>2. IsFiniteSet(s) /\ \A a \in s : ones[a] = 1
      BY <1>2, <1>3, <2>4, <3>1, FS_Subset
    <3> QED BY <3>1, <3>2, CountIsSum
  <2> QED BY <2>3, <2>5, <2>6
<1>6. /\ \A type \in T : p[type] \subseteq StillOpen
      /\ \A x, y \in T : x # y => p[x] \cap p[y] = {}
      /\ UNION {p[type] : type \in T} = StillOpen
  <2>1. \A type \in T : p[type] = {a \in StillOpen : terms[a].type = type}
    BY <1>4
  <2>2. \A a \in StillOpen : terms[a].type \in T /\ a \in p[terms[a].type]
    BY <1>1, <1>2, <2>1
  <2> QED BY <2>1, <2>2
<1>7. SumFunctionOnSet(t, T) = SumFunctionOnSet(ones, UNION {p[type] : type \in T})
  <2>1. \A a \in StillOpen : ones[a] \in Int
    BY <1>3
  <2> QED BY <1>1, <1>2, <1>5, <1>6, <2>1, SumOfParts
<1>8. SumFunctionOnSet(ones, StillOpen) = Cardinality(StillOpen)
  BY <1>2, <1>3, CountIsSum
<1> QED BY <1>1, <1>4, <1>6, <1>7, <1>8 DEF SumFunction
\* The values of accounts in one currency, summed first and converted then, or converted
\* one by one: half a cent for each account and for the sum lies between.
LEMMA CurrencyIsClose ==
  ASSUME Sound, NEW c \in Currencies, NEW S \in SUBSET Opened, \A a \in S : terms[a].currency = c,
         NEW values, values = [a \in S |-> Value(a)]
  PROVE  /\ SumFunctionOnSet(values, S) \in Int /\ ToBase(SumFunctionOnSet(values, S), c) \in Int
         /\ TotalOf(S) \in Int /\ Cardinality(S) \in Nat
         /\ 2 * ToBase(SumFunctionOnSet(values, S), c) - 2 * TotalOf(S)
              \in -(Cardinality(S) + 1) .. Cardinality(S) + 1
<1>1. PICK q, p : q = Rate[c].den * Rate[Base].num /\ p = Rate[c].num * Rate[Base].den
  OBVIOUS
<1>2. q \in Nat \ {0} /\ p \in Nat \ {0}
  BY <1>1, InBaseIsMoney
<1>3. /\ IsFiniteSet(S) /\ S \subseteq Accounts
      /\ \A a \in S : values[a] \in Int /\ Worths[a] \in Int /\ Worths[a] = ToBase(values[a], c)
  <2>1. \A a \in S : values[a] = Value(a) /\ Value(a) \in Int
    BY WorthsAre, Portfolios DEF Sound
  <2>2. \A a \in S : Worths[a] \in Int /\ Worths[a] = ToBase(Value(a), c)
    BY WorthsAre DEF InBase
  <2> QED BY <2>1, <2>2, WorthsAre, FS_Subset
<1>4. PICK n \in Nat : n = Cardinality(S)
  BY <1>3, FS_CardinalityType
<1>5. PICK x \in Int : x = SumFunctionOnSet(values, S)
  BY <1>3, SumType
<1>6. PICK b \in Int : b = TotalOf(S) /\ b = SumFunctionOnSet(Worths, S)
  <2>1. SumFunctionOnSet(Worths, S) \in Int
    BY <1>3, SumType
  <2> QED BY <2>1, TotalIsSum
<1>7. PICK total \in Int : total = ToBase(x, c) /\ 2 * q * total - 2 * (x * p) \in -q .. q
  BY <1>1, InBaseIsMoney
<1>8. 2 * q * b - 2 * p * x \in -(q * n) .. q * n
  <2>1. PICK k \in Int, l \in Int : k = 2 * q /\ l = 2 * p
    BY <1>2
  <2>2. PICK f, g, h, ones : /\ f = [a \in S |-> k * Worths[a]] /\ g = [a \in S |-> l * values[a]]
                             /\ h = [a \in S |-> q] /\ ones = [a \in S |-> 1]
    OBVIOUS
  <2>3. ASSUME NEW a \in S
        PROVE  f[a] \in Int /\ g[a] \in Int /\ h[a] \in Nat /\ f[a] - g[a] \in -h[a] .. h[a]
    <3>1. PICK v \in Int, w \in Int : v = values[a] /\ w = Worths[a]
      BY <1>3
    <3>2. w = ToBase(v, c)
      BY <1>3, <3>1
    <3>3. 2 * q * ToBase(v, c) - 2 * (v * p) \in -q .. q
      BY <1>1, InBaseIsMoney
    <3>4. 2 * (v * p) = l * v /\ 2 * q * w = k * w
      BY <1>2, <2>1
    <3>5. f[a] = k * w /\ g[a] = l * v /\ h[a] = q
      BY <2>2, <3>1
    <3>6. k * w \in Int /\ l * v \in Int
      OBVIOUS
    <3> QED BY <1>2, <3>2, <3>3, <3>4, <3>5, <3>6
  <2>4. SumFunctionOnSet(f, S) - SumFunctionOnSet(g, S) \in -SumFunctionOnSet(h, S) .. SumFunctionOnSet(h, S)
    BY <1>3, <2>3, SumWithin
  <2>5. SumFunctionOnSet(f, S) = k * b
    <3>1. \A a \in S : Worths[a] \in Int /\ f[a] = k * Worths[a]
      BY <1>3, <2>2
    <3> QED BY <1>3, <1>6, <3>1, SumScaled
  <2>6. SumFunctionOnSet(g, S) = l * x
    <3>1. \A a \in S : values[a] \in Int /\ g[a] = l * values[a]
      BY <1>3, <2>2
    <3>2. SumFunctionOnSet(g, S) = l * SumFunctionOnSet(values, S)
      BY <1>3, <3>1, SumScaled
    <3> QED BY <1>5, <3>2
  <2>7. SumFunctionOnSet(h, S) = q * n
    <3>1. PICK e \in Int : e = q
      BY <1>2
    <3>2. \A a \in S : ones[a] = 1 /\ ones[a] \in Int /\ h[a] = e * ones[a]
      BY <2>2, <3>1
    <3>3. SumFunctionOnSet(ones, S) = n
      BY <1>3, <1>4, <3>2, CountIsSum
    <3>4. SumFunctionOnSet(h, S) = e * SumFunctionOnSet(ones, S)
      BY <1>3, <3>2, SumScaled
    <3> QED BY <3>1, <3>3, <3>4
  <2> QED BY <2>1, <2>4, <2>5, <2>6, <2>7
<1>9. 2 * total - 2 * b \in -(n + 1) .. n + 1
  <2>1. PICK d \in Int : d = 2 * total - 2 * b
    <3>1. 2 * total - 2 * b \in Int
      OBVIOUS
    <3> QED BY <3>1
  <2>2. PICK t \in Int, u \in Int, v \in Int, w \in Nat :
           t = 2 * q * total /\ u = 2 * q * b /\ v = 2 * p * x /\ w = q * n
    BY <1>2
  <2>3. 2 * (x * p) = v
    BY <1>2, <2>2
  <2>4. t - v \in -q .. q /\ u - v \in -w .. w
    BY <1>7, <1>8, <2>2, <2>3
  <2>5. q \in Int /\ w \in Int /\ t - u <= w + q /\ -(w + q) <= t - u
    BY <1>2, <2>4
  <2>6. q * d = t - u /\ q * (n + 1) = w + q /\ q * (-(n + 1)) = -(w + q)
    BY <1>2, <2>1, <2>2
  <2>7. d <= n + 1
    BY <1>2, <2>1, <2>5, <2>6, Cancelled
  <2>8. -(n + 1) <= d
    BY <1>2, <2>1, <2>5, <2>6, Cancelled
  <2> QED BY <2>1, <2>7, <2>8
<1> QED BY <1>4, <1>5, <1>6, <1>7, <1>9

\* The total of the bank report, converted by currency, is within half a cent of the bank's
\* for each account and each currency.
LEMMA ReportedIsClose ==
  ASSUME Sound
  PROVE  2 * (ReportedTotal - BankTotal) \in
           LET halves == Cardinality(StillOpen) + Cardinality(DOMAIN ByCurrency) IN -halves .. halves
<1>1. PICK C : C = {terms[a].currency : a \in StillOpen}
  OBVIOUS
<1>2. StillOpen \subseteq Opened /\ IsFiniteSet(StillOpen)
  BY WorthsAre, FS_Subset DEF StillOpen
<1>3. IsFiniteSet(C) /\ C \subseteq Currencies
  <2>1. PICK f : f = [a \in StillOpen |-> terms[a].currency]
    OBVIOUS
  <2>2. {f[a] : a \in StillOpen} = C
    BY <1>1, <2>1
  <2>3. \A a \in StillOpen : terms[a].currency \in Currencies
    BY <1>2, OpenedFacts DEF Opened
  <2>4. IsFiniteSet(C)
    BY <1>2, <2>2, ImageIsFinite
  <2> QED BY <1>1, <2>3, <2>4
<1>4. PICK p : p = [c \in C |-> {a \in StillOpen : terms[a].currency = c}]
  OBVIOUS
<1>5. PICK t, b, n : /\ t = [c \in C |-> ToBase(ByCurrency[c], c)]
                     /\ b = [c \in C |-> TotalOf(p[c])]
                     /\ n = [c \in C |-> Cardinality(p[c])]
  OBVIOUS
<1>6. DOMAIN ByCurrency = C
  BY <1>1 DEF ByCurrency
<1>7. ASSUME NEW c \in C
      PROVE  /\ t[c] \in Int /\ b[c] \in Int /\ n[c] \in Nat
             /\ 2 * t[c] - 2 * b[c] \in -(n[c] + 1) .. n[c] + 1
  <2>1. PICK S : S = p[c] /\ S = {a \in StillOpen : terms[a].currency = c}
    BY <1>4
  <2>2. S \in SUBSET Opened /\ (\A a \in S : terms[a].currency = c) /\ c \in Currencies
    BY <1>2, <1>3, <2>1
  <2>3. PICK values : values = [a \in S |-> Value(a)]
    OBVIOUS
  <2>4. ByCurrency[c] = SumFunctionOnSet(values, S)
    BY <1>1, <2>1, <2>3 DEF ByCurrency, SumFunction
  <2>5. /\ ToBase(SumFunctionOnSet(values, S), c) \in Int
        /\ TotalOf(S) \in Int /\ Cardinality(S) \in Nat
        /\ 2 * ToBase(SumFunctionOnSet(values, S), c) - 2 * TotalOf(S)
             \in -(Cardinality(S) + 1) .. Cardinality(S) + 1
    BY <2>2, <2>3, CurrencyIsClose
  <2>6. t[c] = ToBase(SumFunctionOnSet(values, S), c) /\ b[c] = TotalOf(S) /\ n[c] = Cardinality(S)
    BY <1>5, <2>1, <2>4
  <2> QED BY <2>5, <2>6
<1>8. ReportedTotal = SumFunctionOnSet(t, C)
  BY <1>5, <1>6 DEF ReportedTotal, SumFunction
<1>9. /\ \A c \in C : p[c] \subseteq StillOpen
      /\ \A c, d \in C : c # d => p[c] \cap p[d] = {}
      /\ UNION {p[c] : c \in C} = StillOpen
  <2>1. \A c \in C : p[c] = {a \in StillOpen : terms[a].currency = c}
    BY <1>4
  <2>2. \A a \in StillOpen : terms[a].currency \in C /\ a \in p[terms[a].currency]
    BY <1>1, <2>1
  <2> QED BY <2>1, <2>2
<1>10. BankTotal = SumFunctionOnSet(b, C)
  <2>1. \A c \in C : b[c] = SumFunctionOnSet(Worths, p[c])
    BY <1>2, <1>5, <1>9, TotalIsSum
  <2>2. SumFunctionOnSet(b, C) = SumFunctionOnSet(Worths, UNION {p[c] : c \in C})
    <3>1. \A a \in StillOpen : Worths[a] \in Int
      BY <1>2, WorthsAre
    <3> QED BY <1>2, <1>3, <1>9, <2>1, <3>1, SumOfParts
  <2>3. \A a \in Opened \ StillOpen : Worths[a] = 0
    <3>1. ASSUME NEW a \in Opened \ StillOpen PROVE InBase(a) = 0
      <4>1. a \in Accounts /\ accStatus[a] # "unopened" /\ accStatus[a] = "closed"
        BY DEF Opened, StillOpen
      <4>2. Value(a) = 0
        BY <4>1 DEF Sound, WithinTerms
      <4>3. terms[a].currency \in Currencies
        BY <4>1, OpenedFacts
      <4> QED BY <4>2, <4>3, InBaseIsMoney DEF InBase
    <3> QED BY <3>1, WorthsAre
  <2>4. SumFunctionOnSet(Worths, Opened) = SumFunctionOnSet(Worths, StillOpen)
    BY <1>2, <2>3, WorthsAre, SumOfPart
  <2>5. BankTotal = SumFunctionOnSet(Worths, Opened)
    BY TotalIsSum DEF BankTotal
  <2> QED BY <1>9, <2>2, <2>4, <2>5
<1>11. Cardinality(StillOpen) = SumFunctionOnSet(n, C)
  <2>1. PICK ones : ones = [a \in StillOpen |-> 1]
    OBVIOUS
  <2>2. ASSUME NEW c \in C PROVE n[c] = SumFunctionOnSet(ones, p[c])
    <3>1. PICK S : S = p[c] /\ S \subseteq StillOpen
      BY <1>9
    <3>2. IsFiniteSet(S) /\ \A a \in S : ones[a] = 1
      BY <1>2, <2>1, <3>1, FS_Subset
    <3>3. SumFunctionOnSet(ones, S) = Cardinality(S)
      BY <3>2, CountIsSum
    <3> QED BY <1>5, <3>1, <3>3
  <2>3. SumFunctionOnSet(n, C) = SumFunctionOnSet(ones, UNION {p[c] : c \in C})
    <3>1. \A a \in StillOpen : ones[a] \in Int
      BY <2>1
    <3> QED BY <1>2, <1>3, <1>9, <2>2, <3>1, SumOfParts
  <2>4. SumFunctionOnSet(ones, StillOpen) = Cardinality(StillOpen)
    BY <1>2, <2>1, CountIsSum
  <2> QED BY <1>9, <2>3, <2>4
<1>12. PICK ones, f, g, h : /\ ones = [c \in C |-> 1]
                            /\ f = [c \in C |-> 2 * t[c]] /\ g = [c \in C |-> 2 * b[c]]
                            /\ h = [c \in C |-> n[c] + 1]
  OBVIOUS
<1>13. \A c \in C : f[c] \in Int /\ g[c] \in Int /\ h[c] \in Nat /\ f[c] - g[c] \in -h[c] .. h[c]
  BY <1>7, <1>12
<1>14. /\ SumFunctionOnSet(h, C) \in Nat
       /\ SumFunctionOnSet(f, C) - SumFunctionOnSet(g, C) \in -SumFunctionOnSet(h, C) .. SumFunctionOnSet(h, C)
  BY <1>3, <1>13, SumWithin
<1>15. SumFunctionOnSet(f, C) = 2 * ReportedTotal
  <2>1. \A c \in C : t[c] \in Int /\ f[c] = 2 * t[c]
    BY <1>7, <1>12
  <2> QED BY <1>3, <1>8, <2>1, SumScaled
<1>16. SumFunctionOnSet(g, C) = 2 * BankTotal
  <2>1. \A c \in C : b[c] \in Int /\ g[c] = 2 * b[c]
    BY <1>7, <1>12
  <2> QED BY <1>3, <1>10, <2>1, SumScaled
<1>17. SumFunctionOnSet(h, C) = Cardinality(StillOpen) + Cardinality(C)
  <2>1. \A c \in C : n[c] \in Int /\ ones[c] \in Int /\ ones[c] = 1 /\ h[c] = n[c] + ones[c]
    BY <1>7, <1>12
  <2>2. SumFunctionOnSet(ones, C) = Cardinality(C)
    BY <1>3, <2>1, CountIsSum
  <2>3. SumFunctionOnSet(h, C) = SumFunctionOnSet(n, C) + SumFunctionOnSet(ones, C)
    BY <1>3, <2>1, SumAdded
  <2> QED BY <1>11, <2>2, <2>3
<1>18. PICK r \in Int, s \in Int : r = ReportedTotal /\ s = BankTotal
  <2>1. SumFunctionOnSet(t, C) \in Int /\ SumFunctionOnSet(b, C) \in Int
    BY <1>3, <1>7, SumType
  <2> QED BY <1>8, <1>10, <2>1
<1>19. PICK k \in Nat : k = Cardinality(StillOpen) + Cardinality(C) /\ 2 * r - 2 * s \in -k .. k
  BY <1>14, <1>15, <1>16, <1>17, <1>18
<1>20. 2 * (r - s) \in -k .. k
  BY <1>19
<1> QED BY <1>6, <1>18, <1>19, <1>20

\* All of it.
LEMMA ReportsReach == Sound => ReportsReachNow
<1> SUFFICES ASSUME Sound PROVE ReportsReachNow
  OBVIOUS
<1>1. ASSUME NEW c \in Clients
      PROVE  LET groups == LineGroups(AccountIds(c))
                 total  == ClientTotal(c)
                 rows   == ClientAccounts(c)
             IN  /\ \A since \in {Unlimited, now} : LinesEnd(groups, since, Unlimited) = total
                 /\ \A a \in DOMAIN rows : /\ rows[a].balance = CashBefore(a, Unlimited)
                                           /\ rows[a].inBase = WorthBefore(a, Unlimited)
  <2>1. DOMAIN ClientAccounts(c) = AccountIds(c)
    BY DEF ClientAccounts
  <2>2. \A a \in AccountIds(c) : /\ ClientAccounts(c)[a].balance = cash[a]
                                 /\ ClientAccounts(c)[a].inBase = InBase(a)
    BY DEF ClientAccounts
  <2> QED BY <2>1, <2>2, ClientsReachNow
<1>2. EndOf(BankHistory(Unlimited, Unlimited)) = BankTotal
  BY BankReachesNow
<1>3. SumFunction([c \in Clients |-> ClientTotal(c)]) = BankTotal
  BY ClientsMakeTotal
<1>4. SumFunction([type \in DOMAIN ByType |-> ByType[type].inBase]) = BankTotal
  BY TypesMakeTotal
<1> QED BY <1>1, <1>2, <1>3, <1>4, TypesCountAll, ReportedIsClose DEF ReportsReachNow
-----------------------------------------------------------------------------
\* The reports drawn from the movements alone end with what is there, over any accounts,
\* clients, terms, rates and months, and what is summed by client, type or currency misses
\* nothing.
THEOREM ReportsTellThePresent == LedgerSpec => []ReportsReachNow
<1>1. LedgerTypeOK /\ WithinTerms /\ HistoryInv => ReportsReachNow
  BY ReportsReach DEF Sound
<1> QED BY <1>1, LedgerIsPortal, HistoryIsAChain, PTL

\* A statement explains its period whatever lies before and after it, and periods that meet
\* repeat and miss nothing.
THEOREM StatementsExplainPeriods == LedgerSpec => []StatementsAddUp
<1>1. LedgerTypeOK /\ WithinTerms /\ HistoryInv => StatementsAddUp
  BY StatementsHold DEF Sound
<1> QED BY <1>1, LedgerIsPortal, HistoryIsAChain, PTL

\* So they do when clients act on their accounts too.
THEOREM PortalReportsHold == PortalSpec => [](ReportsReachNow /\ StatementsAddUp)
<1>1. LedgerTypeOK /\ WithinTerms /\ HistoryInv => ReportsReachNow /\ StatementsAddUp
  BY ReportsReach, StatementsHold DEF Sound
<1> QED BY <1>1, HistoryIsAChain, PTL
=============================================================================
