-------------------------- MODULE ClientPortal_proofs --------------------------
(***************************************************************************)
(* Proofs about the bank: Sessions, for any clients, sessions and length   *)
(* of a session; Ledger, for any accounts, offers and amounts, whoever     *)
(* acts; and ClientPortal, which is Ledger with the sessions its clients   *)
(* act through.                                                            *)
(***************************************************************************)
EXTENDS ClientPortal, SumFacts

(***************************************************************************)
(* Sessions: the types, that a session that died is never honoured again,  *)
(* and that it does not die without a cause.                               *)
(***************************************************************************)
Issued(s) == issued[s] # NotIssued

\* Every step keeps the types.
LEMMA SessionTypeStep == SessionTypeOK /\ [SessionNext]_sessionVars => SessionTypeOK'
<1> SUFFICES ASSUME SessionTypeOK, [SessionNext]_sessionVars PROVE SessionTypeOK'
    OBVIOUS
<1> USE SessionAssumption
<1>1. ASSUME NEW c \in Clients, NEW s \in SessionIds, LogIn(c, s) PROVE SessionTypeOK'
    <2>1. [client |-> c, expiresAt |-> now + SESSION_TTL] \in [client : Clients, expiresAt : Nat]
        BY DEF SessionTypeOK
    <2>2. issued' \in [SessionIds -> [client : Clients, expiresAt : Nat] \cup {NotIssued}]
        BY <1>1, <2>1 DEF LogIn, NewSession, SessionTypeOK
    <2>3. issued'[s] # NotIssued /\ \A r \in SessionIds \ {s} : issued'[r] = issued[r]
        BY <1>1, <2>1 DEF LogIn, NewSession, SessionTypeOK
    <2>4. store' \subseteq store \cup {s} /\ held' \subseteq held \cup {s}
        BY <1>1 DEF LogIn, NewSession, SessionTypeOK
    <2>5. /\ failedLogins' \in [Clients -> Nat] /\ now' = now
          /\ registered' = registered /\ blocked' = blocked
        BY <1>1 DEF LogIn, NewSession, SessionTypeOK
    <2> QED
        BY <2>2, <2>3, <2>4, <2>5 DEF SessionTypeOK
<1>2. ASSUME NEW c \in Clients, FailLogin(c) PROVE SessionTypeOK'
    <2>1. failedLogins' \in [Clients -> Nat]
        BY <1>2 DEF FailLogin, SessionTypeOK
    <2>2. blocked' \subseteq blocked \cup {c} /\ store' \subseteq store
        BY <1>2 DEF FailLogin
    <2> QED
        BY <1>2, <2>1, <2>2 DEF FailLogin, SessionTypeOK
<1>3. ASSUME NEW c \in Clients, BlockModel(c) PROVE SessionTypeOK'
    BY <1>3 DEF BlockModel, SessionTypeOK
<1>4. ASSUME NEW c \in Clients, Register(c) \/ UnblockClient(c) PROVE SessionTypeOK'
    BY <1>4 DEF Register, UnblockClient, SessionTypeOK
<1>5. ASSUME NEW s \in SessionIds, UseSession(s) \/ LogOut(s) PROVE SessionTypeOK'
    <2>1. store' \subseteq store
        BY <1>5 DEF UseSession, LogOut, Swept
    <2> QED
        BY <1>5, <2>1 DEF UseSession, LogOut, SessionTypeOK
<1>6. CASE Passing
    BY <1>6 DEF Passing, Tick, SessionTypeOK
<1>7. CASE UNCHANGED sessionVars
    BY <1>7 DEF sessionVars, SessionTypeOK
<1> QED
    BY <1>1, <1>2, <1>3, <1>4, <1>5, <1>6, <1>7 DEF SessionNext

\* The stores of clients, sessions and failed logins always have their types,
\* and only issued sessions are in the store or in a caller's hands.
THEOREM SessionTypesHold == SessionSpec => []SessionTypeOK
<1>1. SessionInit => SessionTypeOK
    BY ClockAssumption DEF SessionInit, SessionTypeOK
<1> QED
    BY <1>1, SessionTypeStep, PTL DEF SessionSpec

\* What makes a session dead, as a disjunction.
Dead(s) == \/ s \notin store
           \/ issued[s].client \in blocked
           \/ now >= issued[s].expiresAt

\* Dead is what resolve_session() refuses.
LEMMA DeadIsRefused == \A s : Dead(s) <=> Outcome(s) # "valid"
BY DEF Dead, Outcome

\* No step makes a dead session valid: an issued one never returns to the store,
\* the clock never goes back, and unblocking empties the store for the client.
LEMMA DeadStep ==
    ASSUME SessionTypeOK, [SessionNext]_sessionVars,
           NEW s \in SessionIds, Issued(s), Dead(s)
    PROVE  Dead(s)'
<1> USE SessionAssumption DEF Issued
<1>1. issued[s].client \in Clients /\ issued[s].expiresAt \in Nat /\ now \in Nat
    BY DEF SessionTypeOK
<1>2. ASSUME NEW c \in Clients, NEW r \in SessionIds, LogIn(c, r) PROVE Dead(s)'
    <2>1. r # s /\ issued'[s] = issued[s] /\ now' = now /\ blocked' = blocked
        BY <1>2 DEF LogIn, NewSession, SessionTypeOK
    <2>2. s \in store' => s \in store
        BY <1>2, <2>1 DEF LogIn, NewSession
    <2> QED
        BY <2>1, <2>2 DEF Dead
<1>3. ASSUME NEW c \in Clients, FailLogin(c) PROVE Dead(s)'
    <2>1. blocked \subseteq blocked' /\ store' \subseteq store /\ now' = now /\ issued' = issued
        BY <1>3 DEF FailLogin
    <2> QED
        BY <2>1 DEF Dead
<1>4. ASSUME NEW c \in Clients, BlockModel(c) PROVE Dead(s)'
    BY <1>4 DEF BlockModel, Dead
<1>5. ASSUME NEW c \in Clients, UnblockClient(c) PROVE Dead(s)'
    <2>1. /\ store' = store \ SessionsOf(c) /\ now' = now /\ issued' = issued
          /\ blocked' = blocked \ {c}
        BY <1>5 DEF UnblockClient
    <2>2. CASE issued[s].client = c
        BY <2>1, <2>2 DEF Dead, SessionsOf
    <2>3. CASE issued[s].client # c
        BY <2>1, <2>3 DEF Dead
    <2> QED
        BY <2>2, <2>3
<1>6. ASSUME NEW c \in Clients, Register(c) PROVE Dead(s)'
    BY <1>6 DEF Register, Dead
<1>7. ASSUME NEW r \in SessionIds, UseSession(r) \/ LogOut(r) PROVE Dead(s)'
    <2>1. store' \subseteq store
        BY <1>7 DEF UseSession, LogOut, Swept
    <2>2. now' = now /\ issued' = issued /\ blocked' = blocked
        BY <1>7 DEF UseSession, LogOut
    <2> QED
        BY <2>1, <2>2 DEF Dead
<1>8. CASE Passing
    BY <1>1, <1>8 DEF Passing, Tick, Dead
<1>9. CASE UNCHANGED sessionVars
    BY <1>9 DEF sessionVars, Dead
<1> QED
    BY <1>2, <1>3, <1>4, <1>5, <1>6, <1>7, <1>8, <1>9 DEF SessionNext

\* As the action DeadStaysDead is about.
LEMMA NoneRevives ==
    SessionTypeOK /\ [SessionNext]_sessionVars
      => [\A s \in SessionIds : issued[s] # NotIssued /\ Outcome(s) # "valid"
            => Outcome(s)' # "valid"]_sessionVars
<1> SUFFICES ASSUME SessionTypeOK, [SessionNext]_sessionVars,
                    NEW s \in SessionIds, issued[s] # NotIssued, Outcome(s) # "valid"
             PROVE  Outcome(s)' # "valid"
    OBVIOUS
<1>1. Dead(s)
    BY DeadIsRefused
<1>2. Dead(s)'
    BY <1>1, DeadStep DEF Issued
<1> QED
    BY <1>2 DEF Dead, Outcome

\* A session that would be refused is never honoured again, whoever blocked or
\* unblocked its client and whatever else happens in between.
THEOREM DeadSessionsStayDead == SessionSpec => DeadStaysDead
<1> QED
    BY NoneRevives, SessionTypesHold, PTL DEF SessionSpec, DeadStaysDead

\* What a valid session dies of: its own logout, its expiry or a block of its client.
LEMMA DyingStep ==
    ASSUME SessionTypeOK, [SessionNext]_sessionVars,
           NEW s \in SessionIds, Issued(s), ~Dead(s)
    PROVE  \/ ~Dead(s)'
           \/ now' >= issued[s].expiresAt
           \/ issued[s].client \in blocked'
           \/ LogOut(s)
<1> USE DEF Issued
<1>1. /\ issued[s].client \in Clients /\ issued[s].expiresAt \in Nat /\ now \in Nat
      /\ s \in store /\ issued[s].client \notin blocked /\ now < issued[s].expiresAt
    BY DEF SessionTypeOK, Dead
<1>2. ASSUME s \in store', UNCHANGED <<now, blocked>>, issued'[s] = issued[s] PROVE ~Dead(s)'
    BY <1>1, <1>2 DEF Dead
<1>3. ASSUME NEW c \in Clients, NEW r \in SessionIds, LogIn(c, r) PROVE ~Dead(s)'
    <2>1. r # s /\ issued'[s] = issued[s] /\ s \in store'
        BY <1>1, <1>3 DEF LogIn, SessionTypeOK
    <2> QED
        BY <1>2, <1>3, <2>1 DEF LogIn
<1>4. ASSUME NEW c \in Clients, FailLogin(c)
      PROVE  ~Dead(s)' \/ issued[s].client \in blocked'
    <2>1. UNCHANGED <<now, issued>> /\ blocked' \subseteq blocked \cup {c}
        BY <1>4 DEF FailLogin
    <2>2. CASE issued[s].client # c
        <3>1. s \in store'
            BY <1>1, <1>4, <2>2 DEF FailLogin, SessionsOf
        <3> QED
            BY <1>1, <2>1, <2>2, <3>1 DEF Dead
    <2>3. CASE issued[s].client = c
        <3>1. c \in blocked' \/ UNCHANGED <<blocked, store>>
            BY <1>4 DEF FailLogin
        <3> QED
            BY <1>1, <1>2, <2>1, <2>3, <3>1
    <2> QED
        BY <2>2, <2>3
<1>5. ASSUME NEW c \in Clients, Register(c) PROVE ~Dead(s)'
    BY <1>1, <1>2, <1>5 DEF Register
<1>6. ASSUME NEW c \in Clients, BlockModel(c)
      PROVE  ~Dead(s)' \/ issued[s].client \in blocked'
    BY <1>1, <1>6 DEF BlockModel, Dead
<1>7. ASSUME NEW c \in Clients, UnblockClient(c) PROVE ~Dead(s)'
    <2>1. issued[s].client # c /\ s \in store'
        BY <1>1, <1>7 DEF UnblockClient, SessionsOf
    <2> QED
        BY <1>1, <1>7, <2>1 DEF UnblockClient, Dead
<1>8. ASSUME NEW r \in SessionIds, UseSession(r) PROVE ~Dead(s)'
    <2>1. CASE r = s
        BY <1>1, <1>2, <1>8, <2>1 DEF UseSession, Outcome, Swept
    <2>2. CASE r # s
        <3>1. s \in store'
            BY <1>1, <1>8, <2>2 DEF UseSession, Swept, SessionsOf
        <3> QED
            BY <1>2, <1>8, <3>1 DEF UseSession
    <2> QED
        BY <2>1, <2>2
<1>9. ASSUME NEW r \in SessionIds, LogOut(r) PROVE ~Dead(s)' \/ LogOut(s)
    <2>1. CASE r = s
        BY <1>9, <2>1
    <2>2. CASE r # s
        <3>1. s \in store'
            BY <1>1, <1>9, <2>2 DEF LogOut, Swept, SessionsOf
        <3> QED
            BY <1>2, <1>9, <3>1 DEF LogOut
    <2> QED
        BY <2>1, <2>2
<1>10. CASE Passing
    BY <1>1, <1>10 DEF Passing, Tick, Dead, SessionTypeOK
<1>11. CASE UNCHANGED sessionVars
    BY <1>1, <1>2, <1>11 DEF sessionVars
<1> QED
    BY <1>3, <1>4, <1>5, <1>6, <1>7, <1>8, <1>9, <1>10, <1>11 DEF SessionNext

\* As the action DiesOfACause is about.
LEMMA NoneDiesOfNothing ==
    SessionTypeOK /\ [SessionNext]_sessionVars
      => [\A s \in SessionIds : issued[s] # NotIssued /\ Outcome(s) = "valid"
            => \/ Outcome(s)' = "valid"
               \/ now' >= issued[s].expiresAt
               \/ issued[s].client \in blocked'
               \/ LogOut(s)]_sessionVars
<1> SUFFICES ASSUME SessionTypeOK, [SessionNext]_sessionVars,
                    NEW s \in SessionIds, issued[s] # NotIssued, Outcome(s) = "valid"
             PROVE  \/ Outcome(s)' = "valid"
                    \/ now' >= issued[s].expiresAt
                    \/ issued[s].client \in blocked'
                    \/ LogOut(s)
    OBVIOUS
<1>1. ~Dead(s)
    BY DeadIsRefused
<1>2. ~Dead(s)' => Outcome(s)' = "valid"
    BY DEF Dead, Outcome
<1> QED
    BY <1>1, <1>2, DyingStep DEF Issued

\* No login of the same client, failed attempt, end of another session or unblocking
\* ends a session that is valid: it dies of its logout, its expiry or a block.
THEOREM SessionsDieOfACause == SessionSpec => DiesOfACause
<1> QED
    BY NoneDiesOfNothing, SessionTypesHold, PTL DEF SessionSpec, DiesOfACause
-----------------------------------------------------------------------------
(***************************************************************************)
(* Ledger: the types, that every account stays within its terms, and that  *)
(* the bank keeps its accounts the way AccountBook promises.               *)
(***************************************************************************)
Actors == SessionIds \cup {NoSession}

\* What a client or the staff does to account a: the operations of the bank, with
\* the session they came through.
OperationBy(a, s) ==
    \/ \E o \in Offers, x \in Amounts \cup {0} : OpenAccount(a, o, x, s)
    \/ CloseAccount(a, s) \/ FreezeAccount(a, s)
    \/ UnfreezeAccount(a) \/ ApplyInterest(a)
    \/ \E x \in Amounts : \/ Deposit(a, x, s) \/ Withdraw(a, x, s)
                          \/ \E y \in Assets : Invest(a, y, x, s) \/ Divest(a, y, x, s)
-----------------------------------------------------------------------------
\* Rounding to the cent gives a whole number, and nothing negative of nothing negative.
LEMMA RoundedMoney ==
  ASSUME NEW n \in Int, NEW d \in Nat \ {0}
  PROVE  ToMoney(n, d) \in Int /\ (n >= 0 => ToMoney(n, d) >= 0)
<1>1. \A m \in Int, k \in Nat \ {0} : m \div k \in Int /\ (m >= 0 => m \div k >= 0)
  OBVIOUS
<1>2. 2 * d \in Nat \ {0} /\ 2 * n + d \in Int /\ d - 2 * n \in Int
  OBVIOUS
<1>3. n >= 0 => 2 * n + d >= 0
  OBVIOUS
<1> QED BY <1>1, <1>2, <1>3 DEF ToMoney

\* The day a moment is on.
LEMMA TodayIsDay == ASSUME now \in Nat PROVE Today \in Nat
<1>1. \A m \in Nat, k \in Nat \ {0} : m \div k \in Nat
  OBVIOUS
<1>2. DayLength \in Nat \ {0}
  BY ClockAssumption
<1> QED BY <1>1, <1>2 DEF Today

\* What the constructors of the account types accept of an offer.
LEMMA OfferFacts ==
  ASSUME NEW o \in Offers
  PROVE  /\ o # NoOffer /\ o.type \in AccountTypes
         /\ o.floor \in Int /\ o.fee \in Nat /\ o.limit \in Nat \ {0}
         /\ o.rate.num \in Nat /\ o.rate.den \in Nat \ {0}
         /\ o.type = "savings" => o.floor >= 0
         /\ o.type # "savings" => o.floor <= 0 /\ o.rate.num = 0
         /\ o.type = "investment" => o.floor = 0
  BY LedgerAssumption
     DEF OfferSet, AccountTypes, SavingsTerms, PremiumTerms, PlainTerms

\* The accounts with a portfolio in them have a value.
LEMMA Portfolios ==
  ASSUME LedgerTypeOK, NEW a \in Accounts
  PROVE  /\ \A x \in AssetTypes : holdings[a][x] \in Nat
         /\ Invested(holdings[a]) \in Nat /\ cash[a] \in Int /\ Value(a) \in Int
         /\ Invested(holdings[a]) = 0 => \A x \in AssetTypes : holdings[a][x] = 0
  BY DEF LedgerTypeOK, Invested, AssetTypes, Value
-----------------------------------------------------------------------------
\* The part of the type invariant that is about the accounts.
AccountTypesOK ==
    /\ accStatus \in [Accounts -> {"unopened", "active", "frozen", "closed"}]
    /\ terms \in [Accounts -> Offers \cup {NoOffer}]
    /\ \A a \in Accounts : accStatus[a] = "unopened" <=> terms[a] = NoOffer
    /\ cash \in [Accounts -> Int]
    /\ holdings \in [Accounts -> [AssetTypes -> Nat]]
    /\ openedOn \in [Accounts -> Nat \cup {NoDate}]
    /\ \A a \in Accounts : accStatus[a] # "unopened" => openedOn[a] # NoDate
    /\ paidOn \in [Accounts -> Nat \cup {NoDate}]

\* What an operation on a writes into the history, if it writes at all.
LEMMA RecordedMovement ==
  ASSUME LedgerTypeOK, AccountTypesOK', NEW a \in Accounts, NEW kind \in Kinds, NEW s \in Actors,
         NEW before \in Int, RecordMovement(kind, a, before, s)
  PROVE  movements' \in Seq(Movement)
<1>1. cash'[a] \in Int /\ cash'[a] - before \in Int /\ Value(a)' \in Int
  BY DEF AccountTypesOK, Value, Invested, AssetTypes
<1>2. now \in Nat /\ movements \in Seq(Movement)
  BY DEF LedgerTypeOK, SessionTypeOK
<1>3. [account |-> a, kind |-> kind, amount |-> cash'[a] - before, balanceAfter |-> cash'[a],
       valueAfter |-> Value(a)', moment |-> now, session |-> s] \in Movement
  BY <1>1, <1>2 DEF Movement, Actors
<1> QED BY <1>2, <1>3 DEF RecordMovement

\* Every operation keeps the types.
LEMMA OperationKeepsTypes ==
  ASSUME LedgerTypeOK, NEW a \in Accounts, NEW s \in Actors, OperationBy(a, s),
         SessionTypeOK'
  PROVE  LedgerTypeOK'
<1>1. /\ SessionTypeOK /\ now \in Nat /\ Today \in Nat /\ AccountTypesOK
      /\ movements \in Seq(Movement) /\ cash[a] \in Int
  BY TodayIsDay DEF LedgerTypeOK, SessionTypeOK, AccountTypesOK
<1>2. /\ Amounts \subseteq Nat \ {0} /\ Assets \subseteq AssetTypes /\ NoSession \in Actors
  BY LedgerAssumption DEF Actors
<1>3. \A o \in Offers : o # NoOffer
  BY OfferFacts
<1>4. accStatus[a] # "unopened" =>
         /\ terms[a] \in Offers /\ terms[a].fee \in Nat
         /\ terms[a].rate.num \in Nat /\ terms[a].rate.den \in Nat \ {0}
  BY <1>1, OfferFacts DEF AccountTypesOK
<1>5. ASSUME AccountTypesOK', NEW kind \in Kinds, NEW r \in Actors, NEW before \in Int,
             RecordMovement(kind, a, before, r)
      PROVE  LedgerTypeOK'
  BY <1>5, RecordedMovement DEF LedgerTypeOK, AccountTypesOK
<1>6. \A k \in {"opening", "deposit", "withdrawal", "payout", "interest", "investment",
                "divestment"} : k \in Kinds
  BY DEF Kinds
<1>7. ASSUME NEW o \in Offers, NEW x \in Amounts \cup {0}, OpenAccount(a, o, x, s)
      PROVE  LedgerTypeOK'
  <2>1. AccountTypesOK'
    BY <1>1, <1>2, <1>3, <1>7 DEF OpenAccount, AccountTypesOK, NoDate
  <2> QED BY <1>5, <1>6, <1>7, <2>1 DEF OpenAccount
<1>8. CASE CloseAccount(a, s)
  <2>1. AccountTypesOK'
    BY <1>1, <1>8 DEF CloseAccount, Closable, AccountTypesOK, datesVars
  <2> QED BY <1>1, <1>5, <1>6, <1>8, <2>1 DEF CloseAccount
<1>9. CASE FreezeAccount(a, s) \/ UnfreezeAccount(a)
  <2>1. AccountTypesOK' /\ movements' = movements
    BY <1>1, <1>9 DEF FreezeAccount, UnfreezeAccount, Active, AccountTypesOK, datesVars
  <2> QED BY <1>1, <2>1 DEF LedgerTypeOK, AccountTypesOK
<1>10. CASE ApplyInterest(a)
  <2>1. InterestOn(a) \in Int
    <3>1. terms[a].rate.den \in Nat \ {0} /\ cash[a] * terms[a].rate.num \in Int
      BY <1>1, <1>4, <1>10 DEF ApplyInterest, Active
    <3> QED BY <3>1, RoundedMoney DEF InterestOn
  <2>2. AccountTypesOK'
    BY <1>1, <1>10, <2>1 DEF ApplyInterest, AccountTypesOK
  <2> QED BY <1>1, <1>2, <1>5, <1>6, <1>10, <2>2 DEF ApplyInterest
<1>11. ASSUME NEW x \in Amounts, Deposit(a, x, s) PROVE LedgerTypeOK'
  <2>1. AccountTypesOK'
    BY <1>1, <1>2, <1>11 DEF Deposit, AccountTypesOK, datesVars
  <2> QED BY <1>1, <1>5, <1>6, <1>11, <2>1 DEF Deposit
<1>12. ASSUME NEW x \in Amounts, Withdraw(a, x, s) PROVE LedgerTypeOK'
  <2>1. x + terms[a].fee \in Int
    BY <1>2, <1>4, <1>12 DEF Withdraw, Withdrawable, Active
  <2>2. AccountTypesOK'
    BY <1>1, <1>12, <2>1 DEF Withdraw, AccountTypesOK, datesVars
  <2> QED BY <1>1, <1>5, <1>6, <1>12, <2>2 DEF Withdraw
<1>13. ASSUME NEW y \in Assets, NEW x \in Int, holdings[a][y] + x \in Nat,
              NEW kind \in Kinds, Rebalance(kind, a, y, x, s)
       PROVE  LedgerTypeOK'
  <2>1. holdings' \in [Accounts -> [AssetTypes -> Nat]]
    BY <1>1, <1>2, <1>13 DEF Rebalance, Allocated, AccountTypesOK
  <2>2. cash' \in [Accounts -> Int] /\ UNCHANGED <<accStatus, terms, openedOn, paidOn>>
    BY <1>1, <1>13 DEF Rebalance, AccountTypesOK, datesVars
  <2>3. AccountTypesOK'
    BY <1>1, <2>1, <2>2 DEF AccountTypesOK
  <2> QED BY <1>1, <1>5, <1>13, <2>3 DEF Rebalance
<1>14. ASSUME NEW x \in Amounts, NEW y \in Assets, Invest(a, y, x, s) \/ Divest(a, y, x, s)
       PROVE  LedgerTypeOK'
  <2>1. x \in Nat /\ holdings[a][y] \in Nat /\ -x \in Int
    BY <1>2, Portfolios
  <2>2. CASE Invest(a, y, x, s)
    BY <1>6, <1>13, <2>1, <2>2 DEF Invest
  <2>3. CASE Divest(a, y, x, s)
    <3>1. holdings[a][y] + -x \in Nat
      BY <2>1, <2>3 DEF Divest, Divestable
    <3> QED BY <1>6, <1>13, <2>1, <2>3, <3>1 DEF Divest
  <2> QED BY <1>14, <2>2, <2>3
<1> QED BY <1>7, <1>8, <1>9, <1>10, <1>11, <1>12, <1>14 DEF OperationBy

\* What happens around the accounts: clients and their sessions, and time.
LEMMA AroundKeepsTypes ==
  ASSUME LedgerTypeOK, UNCHANGED <<accountVars, datesVars, movements>>, SessionTypeOK'
  PROVE  LedgerTypeOK'
BY DEF LedgerTypeOK, accountVars, datesVars

\* The staff act as nobody's session, and leave the sessions alone.
LEMMA StaffIsOperation ==
  ASSUME NEW a \in Accounts, StaffAction(a)
  PROVE  OperationBy(a, NoSession)
BY DEF StaffAction, OperationBy

\* The bank's own steps are steps of the sessions.
LEMMA AroundIsSession ==
  ASSUME Around
  PROVE  SessionNext /\ UNCHANGED <<accountVars, datesVars, movements>>
BY DEF Around, SessionNext

LEMMA LedgerTypeInit == LedgerInit => LedgerTypeOK
<1> SUFFICES ASSUME LedgerInit PROVE LedgerTypeOK
  OBVIOUS
<1>1. SessionTypeOK
  BY ClockAssumption DEF LedgerInit, SessionInit, SessionTypeOK
<1> QED BY <1>1 DEF LedgerInit, LedgerTypeOK, NoDate

\* Every step keeps the types.
LEMMA LedgerTypeStep == LedgerTypeOK /\ [LedgerNext]_ledgerVars => LedgerTypeOK'
<1> SUFFICES ASSUME LedgerTypeOK, [LedgerNext]_ledgerVars PROVE LedgerTypeOK'
  OBVIOUS
<1>1. SessionTypeOK
  BY DEF LedgerTypeOK
<1>2. CASE Staff
  <2>1. PICK a \in Accounts : OperationBy(a, NoSession)
    BY <1>2, StaffIsOperation DEF Staff
  <2>2. SessionTypeOK'
    BY <1>1, <1>2, SessionTypeStep DEF Staff
  <2> QED BY <2>1, <2>2, OperationKeepsTypes DEF Actors
<1>3. CASE Around \/ UNCHANGED ledgerVars
  <2>1. SessionTypeOK' /\ UNCHANGED <<accountVars, datesVars, movements>>
    BY <1>1, <1>3, AroundIsSession, SessionTypeStep DEF ledgerVars
  <2> QED BY <2>1, AroundKeepsTypes
<1> QED BY <1>2, <1>3 DEF LedgerNext

\* The accounts, their terms, portfolios and dates and the history of their movements
\* always have their types; exactly an account that was never opened has no terms.
THEOREM LedgerTypesHold == LedgerSpec => []LedgerTypeOK
<1> QED BY LedgerTypeInit, LedgerTypeStep, PTL DEF LedgerSpec
-----------------------------------------------------------------------------
\* A month's interest takes nothing.
LEMMA InterestGains ==
  ASSUME LedgerTypeOK, WithinTerms, NEW a \in Accounts, ApplyInterest(a)
  PROVE  InterestOn(a) \in Nat
<1>1. terms[a] \in Offers /\ terms[a].type = "savings" /\ cash[a] \in Int
  BY DEF LedgerTypeOK, ApplyInterest, Active
<1>2. cash[a] >= terms[a].floor
  BY DEF WithinTerms, ApplyInterest, Active
<1>3. /\ terms[a].floor >= 0 /\ terms[a].floor \in Int
      /\ terms[a].rate.num \in Nat /\ terms[a].rate.den \in Nat \ {0}
  BY <1>1, OfferFacts
<1>4. \A m, n \in Nat : m * n \in Nat
  OBVIOUS
<1>5. cash[a] * terms[a].rate.num \in Nat
  BY <1>1, <1>2, <1>3, <1>4
<1> QED BY <1>3, <1>5, RoundedMoney DEF InterestOn

\* Account a is within its terms.
InTerms(a) ==
    /\ accStatus[a] \in {"active", "frozen"} => cash[a] >= terms[a].floor
    /\ \A x \in AssetTypes : holdings[a][x] >= 0
    /\ accStatus[a] \in {"unopened", "closed"} => cash[a] = 0 /\ Value(a) = 0

\* Every operation keeps every account within its terms.
LEMMA OperationKeepsTerms ==
  ASSUME LedgerTypeOK, LedgerTypeOK', WithinTerms,
         NEW a \in Accounts, NEW s \in Actors, OperationBy(a, s)
  PROVE  WithinTerms'
<1>1. /\ cash \in [Accounts -> Int] /\ holdings \in [Accounts -> [AssetTypes -> Nat]]
      /\ terms \in [Accounts -> Offers \cup {NoOffer}]
      /\ accStatus \in [Accounts -> {"unopened", "active", "frozen", "closed"}]
      /\ holdings' \in [Accounts -> [AssetTypes -> Nat]]
      /\ accStatus[a] # "unopened" => terms[a] \in Offers
  BY DEF LedgerTypeOK
<1>2. /\ Amounts \subseteq Nat \ {0} /\ Assets \subseteq AssetTypes
  BY LedgerAssumption
<1>3. InTerms(a)
  BY DEF WithinTerms, InTerms
<1>4. \A b \in Accounts : \A x \in AssetTypes : holdings'[b][x] >= 0
  BY <1>1
<1>5. ASSUME \A b \in Accounts \ {a} : /\ accStatus'[b] = accStatus[b] /\ terms'[b] = terms[b]
                                       /\ cash'[b] = cash[b] /\ holdings'[b] = holdings[b],
             InTerms(a)'
      PROVE  WithinTerms'
  BY <1>5 DEF WithinTerms, InTerms, Value, Invested
<1>6. ASSUME NEW o \in Offers, NEW x \in Amounts \cup {0}, OpenAccount(a, o, x, s)
      PROVE  WithinTerms'
  <2>1. o.floor \in Int /\ (o.type # "savings" => o.floor <= 0)
    BY OfferFacts
  <2>2. x >= o.floor
    <3>1. x \in Nat /\ (o.type = "savings" => x >= o.floor)
      BY <1>2, <1>6 DEF OpenAccount
    <3> QED BY <2>1, <3>1
  <2> QED BY <1>1, <1>4, <1>5, <1>6, <2>2 DEF OpenAccount, InTerms
<1>7. CASE CloseAccount(a, s)
  <2>1. Invested(holdings[a]) = 0 /\ Invested(holdings[a]) \in Nat
    <3>1. cash[a] + Invested(holdings[a]) = cash[a]
      BY <1>7 DEF CloseAccount, Closable, Value
    <3>2. cash[a] \in Int /\ Invested(holdings[a]) \in Nat
      BY Portfolios
    <3> QED BY <3>1, <3>2
  <2> QED BY <1>1, <1>4, <1>5, <1>7, <2>1 DEF CloseAccount, InTerms, Value
<1>8. CASE FreezeAccount(a, s) \/ UnfreezeAccount(a)
  BY <1>1, <1>3, <1>4, <1>5, <1>8 DEF FreezeAccount, UnfreezeAccount, Active, InTerms
<1>9. CASE ApplyInterest(a)
  <2>1. InterestOn(a) \in Nat /\ terms[a].floor \in Int
    BY <1>1, <1>9, InterestGains, OfferFacts DEF ApplyInterest, Active
  <2> QED BY <1>1, <1>3, <1>4, <1>5, <1>9, <2>1 DEF ApplyInterest, Active, InTerms
<1>10. ASSUME NEW x \in Amounts, Deposit(a, x, s) PROVE WithinTerms'
  <2>1. terms[a].floor \in Int
    BY <1>1, <1>10, OfferFacts DEF Deposit, Depositable, Active
  <2> QED BY <1>1, <1>2, <1>3, <1>4, <1>5, <1>10, <2>1 DEF Deposit, Depositable, Active, InTerms
<1>11. ASSUME NEW x \in Amounts, Withdraw(a, x, s) PROVE WithinTerms'
  <2>1. terms[a].floor \in Int /\ terms[a].fee \in Nat
    BY <1>1, <1>11, OfferFacts DEF Withdraw, Withdrawable, Active
  <2> QED BY <1>1, <1>2, <1>3, <1>4, <1>5, <1>11, <2>1 DEF Withdraw, Withdrawable, Active, InTerms
<1>12. ASSUME NEW x \in Amounts, NEW y \in Assets, Invest(a, y, x, s) \/ Divest(a, y, x, s)
       PROVE  WithinTerms'
  <2>1. terms[a].floor = 0 /\ x \in Nat \ {0} /\ accStatus[a] = "active"
    BY <1>1, <1>2, <1>12, OfferFacts
       DEF Invest, Divest, Investable, Divestable, Rebalance, Active
  <2>2. cash[a] >= 0 /\ cash[a] \in Int
    BY <1>1, <1>3, <2>1 DEF InTerms
  <2>3. \/ x <= cash[a] /\ cash'[a] = cash[a] - x
        \/ cash'[a] = cash[a] - (-x)
    BY <1>1, <1>12 DEF Invest, Investable, Divest, Rebalance
  <2>4. cash'[a] >= 0
    BY <2>1, <2>2, <2>3
  <2> QED BY <1>1, <1>4, <1>5, <1>12, <2>1, <2>4 DEF Invest, Divest, Rebalance, Allocated, InTerms
<1> QED BY <1>6, <1>7, <1>8, <1>9, <1>10, <1>11, <1>12 DEF OperationBy

LEMMA AroundKeepsTerms ==
  ASSUME WithinTerms, UNCHANGED accountVars
  PROVE  WithinTerms'
BY DEF WithinTerms, accountVars, Value

LEMMA TermsInit == LedgerInit => WithinTerms
BY DEF LedgerInit, WithinTerms, Value, Invested, AssetTypes

LEMMA TermsStep == LedgerTypeOK /\ LedgerTypeOK' /\ WithinTerms /\ [LedgerNext]_ledgerVars => WithinTerms'
<1> SUFFICES ASSUME LedgerTypeOK, LedgerTypeOK', WithinTerms, [LedgerNext]_ledgerVars
             PROVE  WithinTerms'
  OBVIOUS
<1>1. CASE Staff
  BY <1>1, StaffIsOperation, OperationKeepsTerms DEF Staff, Actors
<1>2. CASE Around \/ UNCHANGED ledgerVars
  BY <1>2, AroundKeepsTerms DEF Around, ledgerVars
<1> QED BY <1>1, <1>2 DEF LedgerNext

\* No deposit, withdrawal, fee, interest, payout, investment or freeze takes an account
\* below its minimum balance or past its overdraft; nobody owes an asset; and nothing
\* is left on an account that is closed.
THEOREM AccountsStayWithinTerms == LedgerSpec => []WithinTerms
<1> QED BY LedgerTypesHold, TermsInit, TermsStep, PTL DEF LedgerSpec
-----------------------------------------------------------------------------
(***************************************************************************)
(* The ledger keeps the account book.                                      *)
(***************************************************************************)
EntryOf(m) == [account |-> m.account, kind |-> m.kind, amount |-> m.amount,
               cash |-> m.balanceAfter, worth |-> m.valueAfter]
BookOf == [i \in DOMAIN movements |->
             [account |-> movements[i].account, kind |-> movements[i].kind,
              amount |-> movements[i].amount, cash |-> movements[i].balanceAfter,
              worth |-> movements[i].valueAfter]]
Worth == [a \in Accounts |-> Value(a)]

\* A movement recorded at the end of the history is an entry at the end of the book.
LEMMA AppendedEntry ==
  ASSUME movements \in Seq(Movement), NEW m \in Movement, movements' = Append(movements, m)
  PROVE  BookOf' = Append(BookOf, EntryOf(m))
<1>1. /\ DOMAIN movements' = 1..(Len(movements) + 1)
      /\ \A i \in 1..Len(movements) : movements'[i] = movements[i]
      /\ movements'[Len(movements) + 1] = m
      /\ DOMAIN movements = 1..Len(movements) /\ Len(movements) \in Nat
  OBVIOUS
<1>2. BookOf = [i \in 1..Len(movements) |-> EntryOf(movements[i])]
  BY <1>1 DEF BookOf, EntryOf
<1>3. BookOf' = [i \in 1..(Len(movements) + 1) |-> EntryOf(movements'[i])]
  BY <1>1 DEF BookOf, EntryOf
<1>4. Append(BookOf, EntryOf(m)) =
         [i \in 1..(Len(movements) + 1) |->
            IF i = Len(movements) + 1 THEN EntryOf(m) ELSE BookOf[i]]
  BY <1>1, <1>2
<1>5. \A i \in 1..(Len(movements) + 1) :
         EntryOf(movements'[i]) = IF i = Len(movements) + 1 THEN EntryOf(m) ELSE BookOf[i]
  BY <1>1, <1>2
<1> QED BY <1>3, <1>4, <1>5

\* What an operation that records the change of account a enters into the book.
LEMMA Entered ==
  ASSUME LedgerTypeOK, LedgerTypeOK', NEW a \in Accounts, NEW kind \in Kinds, NEW s \in Actors,
         RecordMovement(kind, a, cash[a], s), UNCHANGED sessionVars,
         \A b \in Accounts \ {a} : cash'[b] = cash[b] /\ holdings'[b] = holdings[b]
  PROVE  Book!Enter(a, kind)
<1>1. /\ cash \in [Accounts -> Int] /\ cash' \in [Accounts -> Int]
      /\ movements \in Seq(Movement) /\ now \in Nat
  BY DEF LedgerTypeOK, SessionTypeOK
<1>2. cash' = [cash EXCEPT ![a] = cash'[a]]
  BY <1>1
<1>3. Worth' = [Worth EXCEPT ![a] = Worth'[a]] /\ Worth'[a] = Value(a)'
  BY DEF Worth, Value
<1>4. UNCHANGED <<blocked, IsNight(now)>>
  BY DEF sessionVars, IsNight
<1>5. BookOf' = IF cash'[a] - cash[a] = 0 THEN BookOf
                ELSE Append(BookOf, [account |-> a, kind |-> kind, amount |-> cash'[a] - cash[a],
                                     cash |-> cash'[a], worth |-> Value(a)'])
  <2>1. CASE cash'[a] - cash[a] = 0
    BY <2>1 DEF RecordMovement, BookOf
  <2>2. CASE cash'[a] - cash[a] # 0
    <3> DEFINE m == [account |-> a, kind |-> kind, amount |-> cash'[a] - cash[a],
                     balanceAfter |-> cash'[a], valueAfter |-> Value(a)',
                     moment |-> now, session |-> s]
    <3>1. cash'[a] - cash[a] \in Int /\ Value(a)' \in Int /\ cash'[a] \in Int
      BY <1>1 DEF LedgerTypeOK, Value, Invested, AssetTypes
    <3>2. m \in Movement
      BY <1>1, <3>1 DEF Movement, Actors
    <3>3. movements' = Append(movements, m)
      BY <2>2 DEF RecordMovement
    <3>4. EntryOf(m) = [account |-> a, kind |-> kind, amount |-> cash'[a] - cash[a],
                        cash |-> cash'[a], worth |-> Value(a)']
      BY DEF EntryOf
    <3> HIDE DEF m
    <3> QED BY <1>1, <2>2, <3>2, <3>3, <3>4, AppendedEntry
  <2> QED BY <2>1, <2>2
<1> QED BY <1>2, <1>3, <1>4, <1>5 DEF Book!Enter, Book!Change, BookOf, Worth

\* Money that goes into the portfolio or comes back from it stays on the account.
LEMMA RebalanceKeepsValue ==
  ASSUME LedgerTypeOK, NEW a \in Accounts, NEW y \in Assets, NEW x \in Int, NEW kind, NEW s,
         Rebalance(kind, a, y, x, s)
  PROVE  cash'[a] - cash[a] = -x /\ Value(a)' = Value(a)
<1>1. /\ cash \in [Accounts -> Int] /\ holdings \in [Accounts -> [AssetTypes -> Nat]]
      /\ Assets \subseteq AssetTypes
  BY LedgerAssumption DEF LedgerTypeOK
<1>2. /\ cash'[a] = cash[a] - x
      /\ holdings'[a] = [holdings[a] EXCEPT ![y] = holdings[a][y] + x]
  BY <1>1 DEF Rebalance, Allocated
<1>3. Invested(holdings'[a]) = Invested(holdings[a]) + x /\ Invested(holdings[a]) \in Nat
  BY <1>1, <1>2, Portfolios DEF Invested, AssetTypes
<1> QED BY <1>1, <1>2, <1>3 DEF Value

\* Every operation is one the account book knows.
LEMMA OperationIsInBook ==
  ASSUME LedgerTypeOK, LedgerTypeOK', WithinTerms, UNCHANGED sessionVars,
         NEW a \in Accounts, NEW s \in Actors, OperationBy(a, s)
  PROVE  Book!OnAccount(a)
<1>1. /\ cash \in [Accounts -> Int] /\ holdings \in [Accounts -> [AssetTypes -> Nat]]
      /\ accStatus \in [Accounts -> {"unopened", "active", "frozen", "closed"}]
      /\ accStatus[a] # "unopened" => terms[a] \in Offers
      /\ accStatus = [accStatus EXCEPT ![a] = accStatus[a]]
  BY DEF LedgerTypeOK
<1>2. Amounts \subseteq Nat \ {0} /\ Assets \subseteq AssetTypes /\ NoSession \in Actors
  BY LedgerAssumption DEF Actors
<1>3. cash[a] \in Int /\ Invested(holdings[a]) \in Nat /\ Value(a) = cash[a] + Invested(holdings[a])
  BY Portfolios DEF Value
<1>4. Value(a)' = cash'[a] + Invested(holdings'[a])
  BY DEF Value
<1>5. ASSUME NEW kind \in Kinds, NEW r \in Actors, RecordMovement(kind, a, cash[a], r),
             \A b \in Accounts \ {a} : cash'[b] = cash[b] /\ holdings'[b] = holdings[b]
      PROVE  Book!Enter(a, kind)
  BY <1>5, Entered
<1>6. \A k \in {"opening", "deposit", "withdrawal", "payout", "interest", "investment",
                "divestment"} : k \in Kinds
  BY DEF Kinds
<1>7. Book!Change(a) = cash'[a] - cash[a] /\ Book!Gain(a) = Value(a)' - Value(a)
  BY DEF Book!Change, Book!Gain
<1>8. Guarded(a, FALSE) <=> Book!Free(a)
  BY DEF Guarded, Book!Free
<1>9. \A from, to : Book!At(a, from, to) <=>
                      accStatus[a] = from /\ accStatus' = [accStatus EXCEPT ![a] = to]
  BY DEF Book!At
<1>10. ASSUME NEW o \in Offers, NEW x \in Amounts \cup {0}, OpenAccount(a, o, x, s)
       PROVE  Book!Open(a)
  <2>1. cash[a] = 0
    BY <1>10 DEF OpenAccount, WithinTerms
  <2>2. Book!Enter(a, "opening")
    BY <1>1, <1>5, <1>6, <1>10, <2>1 DEF OpenAccount
  <2>3. cash'[a] = x /\ holdings'[a] = holdings[a] /\ x \in Nat
    BY <1>1, <1>2, <1>10 DEF OpenAccount
  <2>4. cash'[a] - cash[a] >= 0 /\ Value(a)' - Value(a) = cash'[a] - cash[a]
    BY <1>3, <1>4, <2>1, <2>3
  <2> QED BY <1>7, <1>8, <1>9, <1>10, <2>2, <2>4 DEF OpenAccount, Book!Open
<1>11. CASE CloseAccount(a, s)
  <2>1. Book!Enter(a, "payout")
    BY <1>1, <1>5, <1>6, <1>11 DEF CloseAccount
  <2>2. cash'[a] = 0 /\ holdings'[a] = holdings[a] /\ Value(a) = cash[a] /\ cash[a] >= 0
    BY <1>1, <1>11 DEF CloseAccount, Closable
  <2>3. Value(a)' = 0
    BY <1>3, <1>4, <2>2
  <2>4. Book!Close(a)
    BY <1>8, <1>9, <1>11, <2>1, <2>2, <2>3 DEF CloseAccount, Closable, Book!Close
  <2> QED BY <2>4 DEF Book!OnAccount
<1>12. CASE FreezeAccount(a, s) \/ UnfreezeAccount(a)
  <2>1. UNCHANGED <<cash, holdings, movements, blocked, now>>
    BY <1>12 DEF FreezeAccount, UnfreezeAccount, sessionVars
  <2>2. UNCHANGED <<BookOf, Worth, IsNight(now)>>
    BY <2>1 DEF BookOf, Worth, Value, IsNight
  <2>3. Book!FreezeOrUnfreeze(a)
    BY <1>9, <1>12, <2>1, <2>2
       DEF FreezeAccount, UnfreezeAccount, Active, Book!FreezeOrUnfreeze, BookOf, Worth
  <2> QED BY <2>3 DEF Book!OnAccount
<1>13. CASE ApplyInterest(a)
  <2>1. InterestOn(a) \in Nat
    BY <1>13, InterestGains
  <2>2. Book!Enter(a, "interest")
    BY <1>1, <1>2, <1>5, <1>6, <1>13 DEF ApplyInterest
  <2>3. cash'[a] = cash[a] + InterestOn(a) /\ holdings'[a] = holdings[a]
    BY <1>1, <1>13 DEF ApplyInterest
  <2>4. cash'[a] - cash[a] >= 0 /\ Value(a)' - Value(a) = cash'[a] - cash[a]
    BY <1>3, <1>4, <2>1, <2>3
  <2>5. Book!EarnInterest(a)
    BY <1>1, <1>7, <1>9, <1>13, <2>2, <2>4 DEF ApplyInterest, Active, Book!EarnInterest
  <2> QED BY <2>5 DEF Book!OnAccount
<1>14. ASSUME NEW x \in Amounts, Deposit(a, x, s) PROVE Book!PayIn(a)
  <2>1. Book!Enter(a, "deposit")
    BY <1>1, <1>5, <1>6, <1>14 DEF Deposit
  <2>2. cash'[a] = cash[a] + x /\ holdings'[a] = holdings[a] /\ x \in Nat \ {0}
    BY <1>1, <1>2, <1>14 DEF Deposit
  <2>3. cash'[a] - cash[a] > 0 /\ Value(a)' - Value(a) = cash'[a] - cash[a]
    BY <1>3, <1>4, <2>2
  <2> QED
    BY <1>1, <1>7, <1>9, <1>14, <2>1, <2>3
       DEF Deposit, Depositable, Active, Guarded, Book!PayIn
<1>15. ASSUME NEW x \in Amounts, Withdraw(a, x, s) PROVE Book!PayOut(a)
  <2>1. Book!Enter(a, "withdrawal")
    BY <1>1, <1>5, <1>6, <1>15 DEF Withdraw
  <2>2. terms[a].fee \in Nat /\ x \in Nat \ {0}
    BY <1>1, <1>2, <1>15, OfferFacts DEF Withdraw, Withdrawable, Active
  <2>3. cash'[a] = cash[a] - (x + terms[a].fee) /\ holdings'[a] = holdings[a]
    BY <1>1, <1>15 DEF Withdraw
  <2>4. cash'[a] - cash[a] < 0 /\ Value(a)' - Value(a) = cash'[a] - cash[a]
    BY <1>3, <1>4, <2>2, <2>3
  <2> QED
    BY <1>1, <1>7, <1>8, <1>9, <1>15, <2>1, <2>4 DEF Withdraw, Withdrawable, Active, Book!PayOut
<1>16. ASSUME NEW y \in Assets, NEW x \in Int, NEW kind \in Kinds, Rebalance(kind, a, y, x, s),
              Active(a)
       PROVE  /\ Book!Enter(a, kind) /\ cash'[a] - cash[a] = -x
              /\ Value(a)' - Value(a) = 0
              /\ Book!Free(a) /\ Book!At(a, "active", "active")
  <2>1. Book!Enter(a, kind)
    BY <1>1, <1>5, <1>16 DEF Rebalance, Allocated
  <2>2. cash'[a] - cash[a] = -x /\ Value(a)' = Value(a) /\ Value(a) \in Int
    BY <1>16, RebalanceKeepsValue, Portfolios
  <2>3. Value(a)' - Value(a) = 0
    BY <2>2
  <2>4. Book!Free(a) /\ Book!At(a, "active", "active")
    BY <1>1, <1>8, <1>9, <1>16 DEF Rebalance, Active
  <2> QED BY <2>1, <2>2, <2>3, <2>4
<1>17. ASSUME NEW x \in Amounts, NEW y \in Assets, Invest(a, y, x, s) \/ Divest(a, y, x, s)
       PROVE  Book!Shift(a)
  <2>1. x \in Nat \ {0} /\ x \in Int /\ -x \in Int /\ -(-x) = x
    BY <1>2
  <2>2. CASE Invest(a, y, x, s)
    <3>1. Rebalance("investment", a, y, x, s) /\ Active(a)
      BY <2>2 DEF Invest, Investable
    <3>2. Book!Change(a) < 0 /\ Book!Enter(a, "investment")
      BY <1>6, <1>7, <1>16, <2>1, <3>1
    <3> QED BY <1>6, <1>7, <1>16, <2>1, <3>1, <3>2 DEF Book!Shift
  <2>3. CASE Divest(a, y, x, s)
    <3>1. Rebalance("divestment", a, y, -x, s) /\ Active(a)
      BY <2>3 DEF Divest, Divestable
    <3>2. Book!Change(a) > 0 /\ Book!Enter(a, "divestment")
      BY <1>6, <1>7, <1>16, <2>1, <3>1
    <3> QED BY <1>6, <1>7, <1>16, <2>1, <3>1, <3>2 DEF Book!Shift
  <2> QED BY <1>17, <2>2, <2>3
<1> QED
  BY <1>10, <1>11, <1>12, <1>13, <1>14, <1>15, <1>17 DEF OperationBy, Book!OnAccount

\* Clients and sessions come and go and time passes around the book.
LEMMA AroundTheBook ==
  ASSUME SessionTypeOK', UNCHANGED <<accountVars, movements>>
  PROVE  Book!Around
<1>1. blocked' \subseteq Clients /\ IsNight(now)' \in BOOLEAN
  BY DEF SessionTypeOK, IsNight
<1>2. UNCHANGED <<cash, accStatus, BookOf, Worth>>
  BY DEF accountVars, BookOf, Worth, Value
<1> QED BY <1>1, <1>2 DEF Book!Around, BookOf, Worth

LEMMA BookInit == LedgerInit => Book!Init
<1> SUFFICES ASSUME LedgerInit PROVE Book!Init
  OBVIOUS
<1>1. BookOf = <<>> /\ Worth = [a \in Accounts |-> 0]
  BY DEF LedgerInit, BookOf, Worth, Value, Invested, AssetTypes
<1>2. IsNight(now) \in BOOLEAN
  BY DEF IsNight
<1> QED BY <1>1, <1>2 DEF LedgerInit, SessionInit, Book!Init, BookOf, Worth

LEMMA BookStep ==
  LedgerTypeOK /\ LedgerTypeOK' /\ WithinTerms /\ [LedgerNext]_ledgerVars => [Book!Next]_(Book!vars)
<1> SUFFICES ASSUME LedgerTypeOK, LedgerTypeOK', WithinTerms, [LedgerNext]_ledgerVars
             PROVE  Book!Next
  OBVIOUS
<1>1. CASE Staff
  <2>1. PICK a \in Accounts : StaffAction(a)
    BY <1>1 DEF Staff
  <2>2. UNCHANGED sessionVars /\ OperationBy(a, NoSession) /\ NoSession \in Actors
    BY <1>1, <2>1, StaffIsOperation DEF Staff, Actors
  <2>3. Book!OnAccount(a)
    BY <2>2, OperationIsInBook
  <2> QED BY <2>3 DEF Book!Next
<1>2. CASE Around \/ UNCHANGED ledgerVars
  <2>1. UNCHANGED <<accountVars, movements>> /\ SessionTypeOK'
    BY <1>2 DEF Around, ledgerVars, LedgerTypeOK
  <2> QED BY <2>1, AroundTheBook DEF Book!Next
<1> QED BY <1>1, <1>2 DEF LedgerNext

\* Whatever accounts are opened on, the bank keeps them as AccountBook promises: no
\* balance changes past the history, nothing goes out while a client is blocked or at
\* night, a freeze holds everything, and only what is settled is closed.
THEOREM LedgerKeepsAccountBook == LedgerSpec => ImplementsAccountBook
<1> QED
  BY LedgerTypesHold, AccountsStayWithinTerms, BookInit, BookStep, PTL
     DEF LedgerSpec, ImplementsAccountBook, Book!Spec
-----------------------------------------------------------------------------
(***************************************************************************)
(* The portal: what clients do through their sessions.                     *)
(***************************************************************************)
\* A client does to an account, through a session that is valid and of the client it
\* belongs to, what the bank offers; and it is recorded as done through the session.
LEMMA PortalIsOperation ==
  ASSUME NEW s \in SessionIds, NEW a \in Accounts, PortalAction(s, a)
  PROVE  OperationBy(a, s) /\ Resolves(s) /\ issued[s].client = Owner[a]
<1>1. s # NoSession
  BY LedgerAssumption
<1>2. CASE PortalOpen(s, a)
  BY <1>1, <1>2 DEF PortalOpen, OpenAccount, ActorFits, OperationBy
<1>3. CASE PortalClose(s, a)
  BY <1>3 DEF PortalClose, OwnerOf, AccountIds, OperationBy
<1>4. CASE PortalFreeze(s, a)
  BY <1>4 DEF PortalFreeze, OwnerOf, AccountIds, OperationBy
<1>5. ASSUME NEW x \in Amounts, PortalWithdraw(s, a, x)
      PROVE  OperationBy(a, s) /\ Resolves(s) /\ issued[s].client = Owner[a]
  BY <1>5 DEF PortalWithdraw, OwnerOf, AccountIds, OperationBy
<1>6. ASSUME NEW x \in Amounts, NEW y \in Assets, PortalInvest(s, a, y, x) \/ PortalDivest(s, a, y, x)
      PROVE  OperationBy(a, s) /\ Resolves(s) /\ issued[s].client = Owner[a]
  BY <1>6 DEF PortalInvest, PortalDivest, OwnerOf, AccountIds, OperationBy
<1> QED BY <1>2, <1>3, <1>4, <1>5, <1>6 DEF PortalAction

\* The steps of the portal's bank: somebody operates on an account, or something
\* happens around the accounts.
LEMMA PortalStep ==
  ASSUME [PortalNext]_ledgerVars
  PROVE  /\ [SessionNext]_sessionVars
         /\ \/ \E a \in Accounts, s \in Actors : OperationBy(a, s) /\ UNCHANGED sessionVars
            \/ UNCHANGED <<accountVars, datesVars, movements>>
<1>1. CASE Portal
  BY <1>1, PortalIsOperation DEF Portal, Actors
<1>2. CASE Staff
  BY <1>2, StaffIsOperation DEF Staff, Actors
<1>3. CASE Access \/ UNCHANGED ledgerVars
  BY <1>3 DEF Access, ledgerVars
<1> QED BY <1>1, <1>2, <1>3 DEF PortalNext

\* What is known of the accounts in every state.
WellKept == LedgerTypeOK /\ WithinTerms

LEMMA KeptStep == WellKept /\ [PortalNext]_ledgerVars => WellKept'
<1> SUFFICES ASSUME LedgerTypeOK, WithinTerms, [PortalNext]_ledgerVars PROVE WellKept'
  BY DEF WellKept
<1>1. SessionTypeOK'
  BY PortalStep, SessionTypeStep DEF LedgerTypeOK
<1>2. ASSUME NEW a \in Accounts, NEW s \in Actors, OperationBy(a, s) PROVE WellKept'
  <2>1. LedgerTypeOK'
    BY <1>1, <1>2, OperationKeepsTypes
  <2> QED BY <1>2, <2>1, OperationKeepsTerms DEF WellKept
<1>3. CASE UNCHANGED <<accountVars, datesVars, movements>>
  BY <1>1, <1>3, AroundKeepsTypes, AroundKeepsTerms DEF WellKept
<1> QED BY <1>2, <1>3, PortalStep

\* The types hold and every account stays within its terms also when clients act.
THEOREM PortalKeepsTerms == PortalSpec => [](LedgerTypeOK /\ WithinTerms)
<1>1. LedgerInit => WellKept
  BY LedgerTypeInit, TermsInit DEF WellKept
<1>2. PortalSpec => []WellKept
  BY <1>1, KeptStep, PTL DEF PortalSpec
<1> QED BY <1>2, PTL DEF WellKept

\* The bank keeps the account book also when clients act.
THEOREM PortalKeepsAccountBook == PortalSpec => ImplementsAccountBook
<1>1. ASSUME WellKept, WellKept', [PortalNext]_ledgerVars PROVE Book!Next
  <2>1. CASE \E a \in Accounts, s \in Actors : OperationBy(a, s) /\ UNCHANGED sessionVars
    BY <1>1, <2>1, OperationIsInBook DEF WellKept, Book!Next
  <2>2. CASE UNCHANGED <<accountVars, datesVars, movements>>
    <3>1. SessionTypeOK'
      BY <1>1 DEF WellKept, LedgerTypeOK
    <3> QED BY <2>2, <3>1, AroundTheBook DEF Book!Next
  <2> QED BY <1>1, <2>1, <2>2, PortalStep
<1>2. WellKept /\ WellKept' /\ [PortalNext]_ledgerVars => [Book!Next]_(Book!vars)
  BY <1>1
<1>3. PortalSpec => []WellKept
  BY PortalKeepsTerms, PTL DEF WellKept
<1> QED BY <1>2, <1>3, BookInit, PTL DEF PortalSpec, ImplementsAccountBook, Book!Spec

\* A session that was refused stays refused, and one that is valid stays so until its
\* logout, its expiry or a block, whatever its client and the staff do meanwhile.
THEOREM SessionsLiveOnce == PortalSpec => DeadStaysDead /\ DiesOfACause
<1>1. WellKept /\ [PortalNext]_ledgerVars => SessionTypeOK /\ [SessionNext]_sessionVars
  BY PortalStep DEF WellKept, LedgerTypeOK
<1>2. PortalSpec => []WellKept
  BY PortalKeepsTerms, PTL DEF WellKept
<1>3. PortalSpec => DeadStaysDead
  BY <1>1, <1>2, NoneRevives, PTL DEF PortalSpec, DeadStaysDead
<1>4. PortalSpec => DiesOfACause
  BY <1>1, <1>2, NoneDiesOfNothing, PTL DEF PortalSpec, DiesOfACause
<1> QED BY <1>3, <1>4
-----------------------------------------------------------------------------
(***************************************************************************)
(* What the history tells of the accounts.                                 *)
(***************************************************************************)
\* What an operation on account a does to the history and to what the accounts are worth.
LEMMA WhatIsRecorded ==
  ASSUME LedgerTypeOK, LedgerTypeOK', WithinTerms, UNCHANGED sessionVars,
         NEW a \in Accounts, NEW s \in Actors, OperationBy(a, s)
  PROVE  /\ \A b \in Accounts \ {a} : Value(b)' = Value(b) /\ cash'[b] = cash[b]
         /\ \/ movements' = movements /\ Value(a)' = Value(a) /\ cash'[a] = cash[a]
            \/ \E m \in Movement : /\ movements' = Append(movements, m)
                                   /\ m.account = a /\ m.valueAfter = Value(a)'
                                   /\ m.balanceAfter = cash'[a] /\ m.amount = cash'[a] - cash[a]
                                   /\ m.moment = now /\ m.session \in {s, NoSession}
<1>1. /\ cash \in [Accounts -> Int] /\ cash' \in [Accounts -> Int] /\ cash[a] \in Int
      /\ holdings \in [Accounts -> [AssetTypes -> Nat]] /\ now \in Nat
      /\ Value(a) \in Int /\ Value(a)' \in Int
  <2>1. /\ cash \in [Accounts -> Int] /\ cash' \in [Accounts -> Int]
        /\ holdings \in [Accounts -> [AssetTypes -> Nat]] /\ now \in Nat
        /\ holdings' \in [Accounts -> [AssetTypes -> Nat]]
    BY DEF LedgerTypeOK, SessionTypeOK
  <2>2. Value(a) \in Int /\ Value(a)' \in Int
    BY <2>1 DEF Value, Invested, AssetTypes
  <2> QED BY <2>1, <2>2
<1>2. \A b \in Accounts \ {a} : cash'[b] = cash[b] /\ holdings'[b] = holdings[b]
  BY <1>1 DEF OperationBy, OpenAccount, CloseAccount, FreezeAccount, UnfreezeAccount, ApplyInterest,
              Deposit, Withdraw, Invest, Divest, Rebalance, Allocated
<1>3. \E kind \in Kinds, r \in {s, NoSession} : RecordMovement(kind, a, cash[a], r)
  <2>1. \A o \in Offers, x \in Amounts \cup {0} :
           OpenAccount(a, o, x, s) => RecordMovement("opening", a, cash[a], s)
    BY DEF OpenAccount, WithinTerms
  <2>2. FreezeAccount(a, s) \/ UnfreezeAccount(a) => RecordMovement("opening", a, cash[a], s)
    BY <1>1 DEF FreezeAccount, UnfreezeAccount, RecordMovement
  <2> QED
    BY <2>1, <2>2 DEF OperationBy, CloseAccount, ApplyInterest, Deposit, Withdraw, Invest, Divest,
                      Rebalance, Kinds
<1>4. cash'[a] - cash[a] = 0 => Value(a)' = Value(a)
  <2>1. Book!OnAccount(a)
    BY OperationIsInBook
  <2>2. Book!Change(a) = cash'[a] - cash[a] /\ Book!Gain(a) = Value(a)' - Value(a)
    BY DEF Book!Change, Book!Gain
  <2>3. Worth[a] = Value(a) /\ Worth[a]' = Value(a)'
    BY DEF Worth
  <2>4. \/ Book!Gain(a) = Book!Change(a)
        \/ Book!Gain(a) = 0
        \/ Value(a) = cash[a] /\ cash'[a] = 0 /\ Value(a)' = 0
        \/ Value(a)' = Value(a)
    BY <2>1, <2>3
       DEF Book!OnAccount, Book!Open, Book!PayIn, Book!PayOut, Book!EarnInterest, Book!Shift,
           Book!Close, Book!FreezeOrUnfreeze, Worth
  <2>5. \/ Value(a)' - Value(a) = cash'[a] - cash[a]
        \/ Value(a)' - Value(a) = 0
        \/ Value(a) = cash[a] /\ cash'[a] = 0 /\ Value(a)' = 0
        \/ Value(a)' = Value(a)
    BY <2>2, <2>4
  <2>6. \A c, d, v, w \in Int :
           /\ w - v = d - c \/ w - v = 0 \/ (v = c /\ d = 0 /\ w = 0) \/ w = v
           /\ d - c = 0
           => w = v
    OBVIOUS
  <2>7. cash[a] \in Int /\ cash'[a] \in Int /\ Value(a) \in Int /\ Value(a)' \in Int
    BY <1>1
  <2> QED BY <2>5, <2>6, <2>7
<1>5. \A b \in Accounts \ {a} : Value(b)' = Value(b)
  BY <1>2 DEF Value
<1>6. PICK kind \in Kinds, r \in {s, NoSession} : RecordMovement(kind, a, cash[a], r)
  BY <1>3
<1>7. CASE cash'[a] - cash[a] = 0
  <2>1. cash'[a] = cash[a]
    <3>1. cash[a] \in Int /\ cash'[a] \in Int
      BY <1>1
    <3>2. \A c, d \in Int : d - c = 0 => d = c
      OBVIOUS
    <3> QED BY <1>7, <3>1, <3>2
  <2> QED BY <1>2, <1>4, <1>5, <1>6, <1>7, <2>1 DEF RecordMovement
<1>8. CASE cash'[a] - cash[a] # 0
  <2> DEFINE m == [account |-> a, kind |-> kind, amount |-> cash'[a] - cash[a],
                   balanceAfter |-> cash'[a], valueAfter |-> Value(a)',
                   moment |-> now, session |-> r]
  <2>1. cash'[a] \in Int /\ cash'[a] - cash[a] \in Int /\ r \in Actors
    BY <1>1, <1>6 DEF Actors
  <2>2. m \in Movement
    BY <1>1, <2>1 DEF Movement, Actors
  <2>3. movements' = Append(movements, m)
    BY <1>6, <1>8 DEF RecordMovement
  <2>4. /\ m.account = a /\ m.valueAfter = Value(a)' /\ m.moment = now /\ m.session \in {s, NoSession}
        /\ m.balanceAfter = cash'[a] /\ m.amount = cash'[a] - cash[a]
    BY <1>6
  <2> HIDE DEF m
  <2> QED BY <1>2, <1>5, <2>2, <2>3, <2>4
<1> QED BY <1>7, <1>8

\* The last of the movements up to n is one of them.
LEMMA LastIsOne ==
  ASSUME NEW n \in Nat, NEW S, S \subseteq 1 .. n, S # {}
  PROVE  Last(S) \in S /\ \A k \in S : k <= Last(S)
<1>1. S \subseteq 0 .. n
  OBVIOUS
<1>2. \E x \in S : \A y \in S : y <= x
  BY <1>1, GreatestUpTo
<1> QED BY <1>2 DEF Last

\* The movements of an account, before and after one is recorded.
LEMMA OneMore ==
  ASSUME movements \in Seq(Movement), NEW m \in Movement, movements' = Append(movements, m),
         NEW n, n = Len(movements) + 1
  PROVE  /\ DOMAIN movements' = DOMAIN movements \cup {n} /\ n \notin DOMAIN movements
         /\ movements'[n] = m /\ \A i \in DOMAIN movements : movements'[i] = movements[i]
         /\ \A b : MovementsOf(b)' = IF b = m.account THEN MovementsOf(b) \cup {n} ELSE MovementsOf(b)
         /\ Previous(n)' = MovementsOf(m.account) /\ n \in Nat
         /\ \A i \in DOMAIN movements : ValueBefore(i)' = ValueBefore(i) /\ i < n
<1>1. /\ n \in Nat \ {0} /\ DOMAIN movements = 1 .. n - 1 /\ DOMAIN movements' = 1 .. n
      /\ movements'[n] = m /\ \A i \in 1 .. n - 1 : movements'[i] = movements[i]
  OBVIOUS
<1>2. 1 .. n = 1 .. n - 1 \cup {n} /\ n \notin 1 .. n - 1 /\ \A i \in 1 .. n - 1 : i < n
  BY <1>1
<1>3. \A b : MovementsOf(b)' = IF b = m.account THEN MovementsOf(b) \cup {n} ELSE MovementsOf(b)
  BY <1>1, <1>2 DEF MovementsOf
<1>4. Previous(n)' = MovementsOf(m.account)
  <2>1. Previous(n)' = {j \in MovementsOf(m.account) \cup {n} : j < n}
    BY <1>1, <1>3 DEF Previous
  <2>2. MovementsOf(m.account) \subseteq 1 .. n - 1
    BY <1>1 DEF MovementsOf
  <2>3. ~(n < n) /\ \A j \in MovementsOf(m.account) : j < n
    BY <1>1, <1>2, <2>2
  <2> QED BY <2>1, <2>3
<1>5. ASSUME NEW i \in 1 .. n - 1 PROVE ValueBefore(i)' = ValueBefore(i)
  <2>1. Previous(i)' = Previous(i) /\ Previous(i) \subseteq 1 .. n - 1
    BY <1>1, <1>3 DEF Previous, MovementsOf
  <2>2. Previous(i) # {} => Last(Previous(i)) \in 1 .. n - 1
    BY <1>1, <2>1, LastIsOne
  <2> QED BY <1>1, <2>1, <2>2 DEF ValueBefore
<1> QED BY <1>1, <1>2, <1>3, <1>4, <1>5

\* What the last movement of an account tells it is worth.
Told(a) == IF MovementsOf(a) = {} THEN 0 ELSE movements[Last(MovementsOf(a))].valueAfter

\* The history tells what every account is worth.
HistoryTells == \A a \in Accounts : Value(a) = Told(a)

\* The last movement of an account is the one recorded last.
LEMMA LastNext ==
  ASSUME movements \in Seq(Movement), NEW m \in Movement, movements' = Append(movements, m),
         NEW b \in Accounts
  PROVE  /\ b = m.account => MovementsOf(b)' # {} /\ movements'[Last(MovementsOf(b)')] = m
         /\ b # m.account =>
              /\ MovementsOf(b)' = MovementsOf(b)
              /\ MovementsOf(b) # {} => movements'[Last(MovementsOf(b))] = movements[Last(MovementsOf(b))]
<1>1. PICK n \in Nat : n = Len(movements) + 1
  OBVIOUS
<1>2. /\ MovementsOf(b)' = IF b = m.account THEN MovementsOf(b) \cup {n} ELSE MovementsOf(b)
      /\ movements'[n] = m /\ \A i \in DOMAIN movements : movements'[i] = movements[i] /\ i < n
  BY <1>1, OneMore
<1>3. MovementsOf(b) \subseteq DOMAIN movements /\ DOMAIN movements = 1 .. n - 1 /\ n - 1 \in Nat
  BY <1>1 DEF MovementsOf
<1>4. CASE b = m.account
  <2>1. MovementsOf(b)' \subseteq 1 .. n /\ n \in MovementsOf(b)'
    BY <1>2, <1>3, <1>4
  <2>2. Last(MovementsOf(b)') \in MovementsOf(b)' /\ n <= Last(MovementsOf(b)')
    BY <2>1, LastIsOne
  <2>3. Last(MovementsOf(b)') = n
    BY <2>1, <2>2
  <2> QED BY <1>2, <1>4, <2>1, <2>3
<1>5. CASE b # m.account
  <2>1. MovementsOf(b) # {} => Last(MovementsOf(b)) \in DOMAIN movements
    BY <1>3, LastIsOne
  <2> QED BY <1>2, <1>5, <2>1
<1> QED BY <1>4, <1>5

\* Recorded movements keep telling; what is recorded last, that an account is worth.
LEMMA ToldNext ==
  ASSUME movements \in Seq(Movement), NEW m \in Movement, movements' = Append(movements, m),
         NEW b \in Accounts
  PROVE  Told(b)' = IF b = m.account THEN m.valueAfter ELSE Told(b)
BY LastNext DEF Told

LEMMA ToldStep ==
  ASSUME WellKept, WellKept', HistoryTells, [PortalNext]_ledgerVars
  PROVE  HistoryTells'
<1>1. CASE UNCHANGED <<accountVars, datesVars, movements>>
  BY <1>1 DEF accountVars, HistoryTells, Told, Value, MovementsOf
<1>2. ASSUME NEW a \in Accounts, NEW s \in Actors, OperationBy(a, s), UNCHANGED sessionVars
      PROVE  HistoryTells'
  <2>1. /\ \A b \in Accounts \ {a} : Value(b)' = Value(b)
        /\ \/ movements' = movements /\ Value(a)' = Value(a)
           \/ \E m \in Movement : /\ movements' = Append(movements, m)
                                  /\ m.account = a /\ m.valueAfter = Value(a)'
    BY <1>2, WhatIsRecorded DEF WellKept
  <2>2. CASE movements' = movements /\ Value(a)' = Value(a)
    <3>1. \A b \in Accounts : Told(b)' = Told(b)
      BY <2>2 DEF Told, MovementsOf
    <3> QED BY <2>1, <2>2, <3>1 DEF HistoryTells
  <2>3. ASSUME NEW m \in Movement, movements' = Append(movements, m),
               m.account = a, m.valueAfter = Value(a)'
        PROVE  HistoryTells'
    <3>1. movements \in Seq(Movement)
      BY DEF WellKept, LedgerTypeOK
    <3>2. \A b \in Accounts : Told(b)' = IF b = a THEN Value(a)' ELSE Told(b)
      BY <2>3, <3>1, ToldNext
    <3> QED BY <2>1, <3>2 DEF HistoryTells
  <2> QED BY <2>1, <2>2, <2>3
<1> QED BY <1>1, <1>2, PortalStep

\* What every account is worth, in cash and in its portfolio, can be read from the
\* history alone, whatever clients and the staff did to it.
THEOREM HistoryTellsWorth == PortalSpec => []HistoryTells
<1>1. LedgerInit => HistoryTells
  BY DEF LedgerInit, HistoryTells, Told, MovementsOf, Value, Invested, AssetTypes
<1>2. PortalSpec => []WellKept
  BY PortalKeepsTerms, PTL DEF WellKept
<1> QED BY <1>1, <1>2, ToldStep, PTL DEF PortalSpec
-----------------------------------------------------------------------------
\* Nothing a client does through a session raises the value of an account.
LEMMA ClientsAddNothing ==
  ASSUME WellKept, NEW s \in SessionIds, NEW a \in Accounts, PortalAction(s, a)
  PROVE  Value(a)' <= Value(a)
<1>1. /\ cash \in [Accounts -> Int] /\ holdings \in [Accounts -> [AssetTypes -> Nat]]
      /\ accStatus[a] # "unopened" => terms[a] \in Offers
      /\ Value(a) = cash[a] + Invested(holdings[a]) /\ Value(a)' = cash'[a] + Invested(holdings'[a])
  BY DEF WellKept, LedgerTypeOK, Value
<1>2. Amounts \subseteq Nat \ {0} /\ Assets \subseteq AssetTypes
  BY LedgerAssumption
<1>3. cash[a] \in Int /\ Invested(holdings[a]) \in Nat /\ Value(a) \in Int
  BY Portfolios DEF WellKept
<1>4. ASSUME NEW d \in Nat, cash'[a] = cash[a] - d, holdings'[a] = holdings[a]
      PROVE  Value(a)' <= Value(a)
  BY <1>1, <1>3, <1>4
<1>5. ASSUME NEW o \in Offers, OpenAccount(a, o, 0, s) PROVE Value(a)' <= Value(a)
  <2>1. cash[a] = 0
    BY <1>5 DEF OpenAccount, WellKept, WithinTerms
  <2>2. cash'[a] = cash[a] - 0 /\ holdings'[a] = holdings[a]
    BY <1>1, <1>5, <2>1 DEF OpenAccount
  <2> QED BY <1>4, <2>2
<1>6. ASSUME CloseAccount(a, s) PROVE Value(a)' <= Value(a)
  <2>1. cash'[a] = cash[a] - cash[a] /\ holdings'[a] = holdings[a] /\ cash[a] \in Nat
    BY <1>1, <1>3, <1>6 DEF CloseAccount, Closable
  <2> QED BY <1>4, <2>1
<1>7. ASSUME FreezeAccount(a, s) PROVE Value(a)' <= Value(a)
  BY <1>3, <1>7 DEF FreezeAccount, Value
<1>8. ASSUME NEW x \in Amounts, Withdraw(a, x, s) PROVE Value(a)' <= Value(a)
  <2>1. x \in Nat /\ terms[a].fee \in Nat
    BY <1>1, <1>2, <1>8, OfferFacts DEF Withdraw, Withdrawable, Active
  <2>2. /\ x + terms[a].fee \in Nat
        /\ cash'[a] = cash[a] - (x + terms[a].fee) /\ holdings'[a] = holdings[a]
    BY <1>1, <1>8, <2>1 DEF Withdraw
  <2> QED BY <1>4, <2>2
<1>9. ASSUME NEW x \in Amounts, NEW y \in Assets, Invest(a, y, x, s) \/ Divest(a, y, x, s)
      PROVE  Value(a)' <= Value(a)
  <2>1. x \in Int /\ -x \in Int
    BY <1>2
  <2>2. Value(a)' = Value(a)
    BY <1>9, <2>1, RebalanceKeepsValue DEF Invest, Divest, WellKept
  <2> QED BY <1>3, <2>2
<1> QED
  BY <1>5, <1>6, <1>7, <1>8, <1>9
     DEF PortalAction, PortalOpen, PortalClose, PortalFreeze, PortalWithdraw, PortalInvest, PortalDivest

\* What one step adds to the history, if anything.
LEMMA OneMovement ==
  ASSUME WellKept, WellKept', [PortalNext]_ledgerVars, movements' # movements
  PROVE  \E m \in Movement :
           /\ movements' = Append(movements, m) /\ m.account \in Accounts
           /\ m.valueAfter = Value(m.account)' /\ m.moment = now
           /\ m.session # NoSession =>
                /\ m.session \in SessionIds /\ PortalAction(m.session, m.account)
                /\ UNCHANGED sessionVars
<1>1. CASE Portal
  <2>1. PICK s \in SessionIds, a \in Accounts : PortalAction(s, a) /\ UNCHANGED sessionVars
    BY <1>1 DEF Portal
  <2>2. OperationBy(a, s) /\ s \in Actors
    BY <2>1, PortalIsOperation DEF Actors
  <2>3. PICK m \in Movement : /\ movements' = Append(movements, m)
                              /\ m.account = a /\ m.valueAfter = Value(a)'
                              /\ m.moment = now /\ m.session \in {s, NoSession}
    BY <2>1, <2>2, WhatIsRecorded DEF WellKept
  <2> QED BY <2>1, <2>3
<1>2. CASE Staff
  <2>1. PICK a \in Accounts : OperationBy(a, NoSession) /\ UNCHANGED sessionVars
    BY <1>2, StaffIsOperation DEF Staff
  <2>2. PICK m \in Movement : /\ movements' = Append(movements, m)
                              /\ m.account = a /\ m.valueAfter = Value(a)'
                              /\ m.moment = now /\ m.session \in {NoSession}
    BY <2>1, WhatIsRecorded DEF WellKept, Actors
  <2> QED BY <2>2
<1> QED BY <1>1, <1>2 DEF PortalNext, Access, ledgerVars

\* No session ever brought money into the bank: nothing recorded as done through one
\* raised the value of the account it was done to.
THEOREM NoMoneyFromClients == PortalSpec => []ClientsBringNoMoney
<1>1. LedgerInit => ClientsBringNoMoney
  BY DEF LedgerInit, ClientsBringNoMoney
<1>2. ASSUME WellKept, WellKept', HistoryTells, ClientsBringNoMoney, [PortalNext]_ledgerVars
      PROVE  ClientsBringNoMoney'
  <2>1. CASE movements' = movements
    BY <1>2, <2>1 DEF ClientsBringNoMoney, ValueBefore, Previous, MovementsOf
  <2>2. CASE movements' # movements
    <3>1. PICK m \in Movement :
           /\ movements' = Append(movements, m) /\ m.account \in Accounts
           /\ m.valueAfter = Value(m.account)'
           /\ m.session # NoSession =>
                m.session \in SessionIds /\ PortalAction(m.session, m.account)
      BY <1>2, <2>2, OneMovement
    <3>2. movements \in Seq(Movement)
      BY <1>2 DEF WellKept, LedgerTypeOK
    <3>3. PICK n \in Nat : n = Len(movements) + 1
      BY <3>2
    <3>4. /\ DOMAIN movements' = DOMAIN movements \cup {n} /\ movements'[n] = m
          /\ Previous(n)' = MovementsOf(m.account) /\ DOMAIN movements = 1 .. n - 1 /\ n - 1 \in Nat
          /\ \A i \in DOMAIN movements : /\ movements'[i] = movements[i]
                                         /\ ValueBefore(i)' = ValueBefore(i)
      BY <3>1, <3>2, <3>3, OneMore
    <3>5. ValueBefore(n)' = Value(m.account)
      <4>1. MovementsOf(m.account) # {} => Last(MovementsOf(m.account)) \in DOMAIN movements
        BY <3>4, LastIsOne DEF MovementsOf
      <4>2. ValueBefore(n)' = Told(m.account)
        BY <3>4, <4>1 DEF ValueBefore, Told
      <4> QED BY <1>2, <3>1, <4>2 DEF HistoryTells
    <3>6. m.session # NoSession => m.valueAfter <= ValueBefore(n)'
      BY <1>2, <3>1, <3>5, ClientsAddNothing
    <3> QED BY <1>2, <3>4, <3>6 DEF ClientsBringNoMoney
  <2> QED BY <2>1, <2>2
<1>3. PortalSpec => []WellKept
  BY PortalKeepsTerms, PTL DEF WellKept
<1> QED BY <1>1, <1>2, <1>3, HistoryTellsWorth, PTL DEF PortalSpec

\* Nothing is done through a session that was logged out of, has expired or whose
\* client is blocked, nor to an account of somebody else.
THEOREM LiveSessionsAct == PortalSpec => OnlyLiveSessionsAct
<1>1. ASSUME WellKept, WellKept', [PortalNext]_ledgerVars,
             NEW i \in DOMAIN movements' \ DOMAIN movements,
             movements'[i].session # NoSession
      PROVE  /\ movements'[i].session \in store
             /\ now < issued[movements'[i].session].expiresAt
             /\ issued[movements'[i].session].client \notin blocked
             /\ issued[movements'[i].session].client = Owner[movements'[i].account]
  <2>1. movements' # movements /\ movements \in Seq(Movement)
    BY <1>1 DEF WellKept, LedgerTypeOK
  <2>2. PICK m \in Movement :
           /\ movements' = Append(movements, m) /\ m.account \in Accounts
           /\ m.session # NoSession =>
                m.session \in SessionIds /\ PortalAction(m.session, m.account)
    BY <1>1, <2>1, OneMovement
  <2>3. movements'[i] = m
    BY <1>1, <2>1, <2>2
  <2>4. m.session \in SessionIds /\ PortalAction(m.session, m.account)
    BY <1>1, <2>2, <2>3
  <2>5. Resolves(m.session) /\ issued[m.session].client = Owner[m.account]
    BY <2>2, <2>4, PortalIsOperation
  <2>6. m.session \in store /\ issued[m.session].client \notin blocked
          /\ ~(now >= issued[m.session].expiresAt)
    BY <2>5 DEF Resolves, Outcome
  <2>7. issued[m.session].expiresAt \in Nat /\ now \in Nat
    BY <1>1, <2>6 DEF WellKept, LedgerTypeOK, SessionTypeOK
  <2> QED BY <2>3, <2>5, <2>6, <2>7
<1>2. WellKept /\ WellKept' /\ [PortalNext]_ledgerVars =>
        [\A i \in DOMAIN movements' \ DOMAIN movements :
           LET s == movements'[i].session
           IN  s # NoSession =>
                 /\ s \in store /\ now < issued[s].expiresAt
                 /\ issued[s].client \notin blocked
                 /\ issued[s].client = Owner[movements'[i].account]]_ledgerVars
  BY <1>1
<1>3. PortalSpec => []WellKept
  BY PortalKeepsTerms, PTL DEF WellKept
<1> QED BY <1>2, <1>3, PTL DEF PortalSpec, OnlyLiveSessionsAct
-----------------------------------------------------------------------------
(***************************************************************************)
(* The interest of savings accounts: paid once for every month.            *)
(***************************************************************************)
LEMMA MonthsAre ==
  /\ Len(MonthLength) \in Nat \ {0} /\ Months = 1 .. Len(MonthLength)
  /\ \A m \in Months : MonthLength[m] \in Nat \ {0}
<1> DEFINE P == Nat \ {0}
<1>1. MonthLength \in Seq(P) /\ MonthLength # <<>> /\ P \subseteq Nat \ {0}
  BY CalendarAssumption
<1> HIDE DEF P
<1>2. Len(MonthLength) \in Nat \ {0} /\ DOMAIN MonthLength = 1 .. Len(MonthLength)
  BY <1>1
<1>3. \A m \in 1 .. Len(MonthLength) : MonthLength[m] \in P
  BY <1>1
<1> QED BY <1>1, <1>2, <1>3 DEF Months

\* The first days of the months, up to the n-th.
Starts(n, f) == /\ f \in [1 .. n -> Nat] /\ f[1] = 0
                /\ \A m \in 1 .. n - 1 : f[m + 1] = f[m] + MonthLength[m]

\* A month begins where the one before it ends.
LEMMA MonthsFollow == Starts(Len(MonthLength), MonthStart)
<1> DEFINE N == Len(MonthLength)
<1> DEFINE Good == {n \in Nat : n + 1 <= N => \E f : Starts(n + 1, f)}
<1>1. N \in Nat \ {0} /\ Months = 1 .. N /\ \A m \in 1 .. N : MonthLength[m] \in Nat \ {0}
  BY MonthsAre
<1> HIDE DEF N
<1>2. 0 \in Good
  <2>1. Starts(0 + 1, [m \in 1 .. 0 + 1 |-> 0])
    BY DEF Starts
  <2> QED BY <2>1
<1>3. ASSUME NEW n \in Nat, n \in Good PROVE n + 1 \in Good
  <2> SUFFICES ASSUME (n + 1) + 1 <= N PROVE \E f : Starts((n + 1) + 1, f)
    OBVIOUS
  <2>1. PICK f : Starts(n + 1, f)
    BY <1>1, <1>3
  <2> DEFINE g == [m \in 1 .. (n + 1) + 1 |-> IF m = n + 2 THEN f[n + 1] + MonthLength[n + 1] ELSE f[m]]
  <2>2. f[n + 1] \in Nat /\ MonthLength[n + 1] \in Nat
    BY <1>1, <2>1 DEF Starts
  <2>3. g \in [1 .. (n + 1) + 1 -> Nat] /\ g[1] = 0
    BY <2>1, <2>2 DEF Starts
  <2>4. \A m \in 1 .. (n + 1) + 1 - 1 : g[m + 1] = g[m] + MonthLength[m]
    BY <2>1, <2>2 DEF Starts
  <2> HIDE DEF g
  <2>5. Starts((n + 1) + 1, g)
    BY <2>3, <2>4 DEF Starts
  <2> QED BY <2>5
<1>4. \A n \in Nat : n \in Good
  <2> HIDE DEF Good
  <2> QED BY <1>2, <1>3, NaturalsByInduction
<1>5. PICK f : Starts(N, f)
  <2>1. PICK n \in Nat : n + 1 = N
    <3>1. N - 1 \in Nat /\ (N - 1) + 1 = N
      BY <1>1
    <3> QED BY <3>1
  <2>2. n + 1 <= N => \E f : Starts(n + 1, f)
    BY <1>4
  <2> QED BY <1>1, <2>1, <2>2
<1> DEFINE IsStart(g) == g = [m \in Months |-> IF m = 1 THEN 0 ELSE g[m - 1] + MonthLength[m - 1]]
<1>6. IsStart(f)
  <2>1. \A m \in 1 .. N : m # 1 => f[m] = f[m - 1] + MonthLength[m - 1]
    <3> SUFFICES ASSUME NEW m \in 1 .. N, m # 1 PROVE f[m] = f[m - 1] + MonthLength[m - 1]
      OBVIOUS
    <3>1. m - 1 \in 1 .. N - 1 /\ (m - 1) + 1 = m
      BY <1>1
    <3> QED BY <1>5, <3>1 DEF Starts
  <2> QED BY <1>1, <1>5, <2>1 DEF Starts
<1>7. IsStart(MonthStart)
  <2>1. MonthStart = CHOOSE g : IsStart(g)
    BY DEF MonthStart
  <2> QED BY <1>6, <2>1
<1> DEFINE Nats == {n \in Nat : n + 1 <= N => MonthStart[n + 1] \in Nat}
<1>8. 0 \in Nats
  BY <1>1, <1>7
<1>9. ASSUME NEW n \in Nat, n \in Nats PROVE n + 1 \in Nats
  <2> SUFFICES ASSUME (n + 1) + 1 <= N PROVE MonthStart[(n + 1) + 1] \in Nat
    OBVIOUS
  <2>1. n + 2 \in Months /\ n + 2 # 1 /\ (n + 2) - 1 = n + 1 /\ n + 1 \in 1 .. N
    BY <1>1
  <2>2. MonthStart[n + 2] = MonthStart[n + 1] + MonthLength[n + 1]
    BY <1>7, <2>1
  <2> QED BY <1>1, <1>9, <2>1, <2>2
<1>10. \A n \in Nat : n \in Nats
  <2> HIDE DEF Nats
  <2> QED BY <1>8, <1>9, NaturalsByInduction
<1>11. \A m \in 1 .. N : MonthStart[m] \in Nat
  <2> SUFFICES ASSUME NEW m \in 1 .. N PROVE MonthStart[m] \in Nat
    OBVIOUS
  <2>1. m - 1 \in Nats /\ (m - 1) + 1 = m
    BY <1>1, <1>10
  <2> QED BY <1>1, <2>1
<1>12. MonthStart \in [1 .. N -> Nat] /\ MonthStart[1] = 0
  BY <1>1, <1>7, <1>11
<1>13. \A m \in 1 .. N - 1 : MonthStart[m + 1] = MonthStart[m] + MonthLength[m]
  <2> SUFFICES ASSUME NEW m \in 1 .. N - 1 PROVE MonthStart[m + 1] = MonthStart[m] + MonthLength[m]
    OBVIOUS
  <2>1. m + 1 \in Months /\ m + 1 # 1 /\ (m + 1) - 1 = m
    BY <1>1
  <2> QED BY <1>7, <2>1
<1> QED BY <1>12, <1>13 DEF Starts, N

\* Later months begin after the earlier ones have ended.
LEMMA MonthsGrow ==
  ASSUME NEW m \in Months, NEW n \in Months, m < n
  PROVE  /\ MonthStart[m] \in Nat /\ MonthStart[n] \in Nat /\ MonthLength[m] \in Nat \ {0}
         /\ MonthStart[m] + MonthLength[m] <= MonthStart[n]
<1> DEFINE N == Len(MonthLength)
<1>1. /\ N \in Nat \ {0} /\ Months = 1 .. N
      /\ \A k \in 1 .. N : MonthLength[k] \in Nat \ {0} /\ MonthStart[k] \in Nat
      /\ \A k \in 1 .. N - 1 : MonthStart[k + 1] = MonthStart[k] + MonthLength[k]
  BY MonthsAre, MonthsFollow DEF Starts
<1> HIDE DEF N
<1> DEFINE Later == {d \in Nat : m + d + 1 <= N => MonthStart[m] + MonthLength[m] <= MonthStart[m + d + 1]}
<1>2. 0 \in Later
  BY <1>1
<1>3. ASSUME NEW d \in Nat, d \in Later PROVE d + 1 \in Later
  <2> SUFFICES ASSUME m + (d + 1) + 1 <= N
               PROVE  MonthStart[m] + MonthLength[m] <= MonthStart[m + (d + 1) + 1]
    OBVIOUS
  <2>1. m + d + 1 \in 1 .. N - 1 /\ (m + d + 1) + 1 = m + (d + 1) + 1 /\ m + (d + 1) + 1 \in 1 .. N
    BY <1>1
  <2>2. MonthStart[m + (d + 1) + 1] = MonthStart[m + d + 1] + MonthLength[m + d + 1]
    BY <1>1, <2>1
  <2>3. MonthStart[m] + MonthLength[m] <= MonthStart[m + d + 1]
    BY <1>1, <1>3, <2>1
  <2> QED BY <1>1, <2>1, <2>2, <2>3
<1>4. \A d \in Nat : d \in Later
  <2> HIDE DEF Later
  <2> QED BY <1>2, <1>3, NaturalsByInduction
<1>5. PICK d \in Nat : n = m + d + 1
  <2>1. n - m - 1 \in Nat /\ n = m + (n - m - 1) + 1
    BY <1>1
  <2> QED BY <2>1
<1>6. m + d + 1 <= N => MonthStart[m] + MonthLength[m] <= MonthStart[m + d + 1]
  BY <1>4
<1> QED BY <1>1, <1>5, <1>6

\* Every date is in one month, and before the end of the calendar a day of it.
LEMMA MonthOfDate ==
  ASSUME NEW date \in Nat
  PROVE  /\ MonthOf(date) \in Months /\ MonthStart[MonthOf(date)] <= date
         /\ MonthOf(date) + 1 \in Months => date < MonthStart[MonthOf(date) + 1]
         /\ date < MonthStart[Len(MonthLength)] => MonthOf(date) + 1 \in Months
<1> DEFINE N == Len(MonthLength)
<1> DEFINE begun == {m \in Months : MonthStart[m] <= date}
<1>1. /\ N \in Nat \ {0} /\ Months = 1 .. N /\ MonthStart[1] = 0
      /\ \A k \in 1 .. N : MonthStart[k] \in Nat
  BY MonthsAre, MonthsFollow DEF Starts
<1> HIDE DEF N
<1>2. 1 \in begun /\ begun \subseteq 0 .. N
  BY <1>1
<1>3. PICK m \in begun : \A k \in begun : k <= m
  BY <1>1, <1>2, GreatestUpTo
<1>4. m + 1 \in Months => date < MonthStart[m + 1]
  <2> SUFFICES ASSUME m + 1 \in Months, ~(date < MonthStart[m + 1]) PROVE FALSE
    OBVIOUS
  <2>1. m + 1 \in begun
    BY <1>1
  <2> QED BY <1>1, <1>3, <2>1
<1>5. /\ MonthOf(date) \in Months /\ MonthStart[MonthOf(date)] <= date
      /\ MonthOf(date) + 1 \in Months => date < MonthStart[MonthOf(date) + 1]
  BY <1>3, <1>4 DEF MonthOf
<1>6. ASSUME date < MonthStart[N] PROVE MonthOf(date) + 1 \in Months
  <2>1. MonthOf(date) # N
    BY <1>1, <1>5, <1>6
  <2> QED BY <1>1, <1>5, <2>1
<1> QED BY <1>5, <1>6 DEF N

\* A day of a month lies in it, the day of a date being one of its own month.
LEMMA DayInMonth ==
  ASSUME NEW m \in Months, NEW day \in Nat \ {0}
  PROVE  MonthStart[m] <= InMonth(m, day) /\ InMonth(m, day) < MonthStart[m] + MonthLength[m]
         /\ InMonth(m, day) \in Nat
BY MonthsAre, MonthsFollow DEF Starts, InMonth

LEMMA OwnDay ==
  ASSUME NEW date \in Nat, date < MonthStart[Len(MonthLength)]
  PROVE  DayOf(date) \in Nat \ {0} /\ InMonth(MonthOf(date), DayOf(date)) = date
<1>1. PICK m \in Months : m = MonthOf(date)
  BY MonthOfDate
<1>2. m + 1 \in Months /\ MonthStart[m] <= date /\ date < MonthStart[m + 1]
  BY <1>1, MonthOfDate
<1>3. /\ MonthStart[m] \in Nat /\ MonthLength[m] \in Nat \ {0}
      /\ MonthStart[m + 1] = MonthStart[m] + MonthLength[m]
  BY <1>2, MonthsAre, MonthsFollow DEF Starts
<1> QED BY <1>1, <1>2, <1>3 DEF DayOf, InMonth

\* The next date is the first of its day after a date, and in a later month than the
\* one the day is taken from.
LEMMA NextDate ==
  ASSUME NEW first \in Nat, NEW after \in Nat, first <= after,
         after < MonthStart[Len(MonthLength)], NEW next, next = NextMonthlyDate(after, DayOf(first))
  PROVE  /\ next \in Nat /\ after < next
         /\ \E m \in Months : m > MonthOf(first) /\ next = InMonth(m, DayOf(first))
         /\ \A n \in Months : after < InMonth(n, DayOf(first)) => next <= InMonth(n, DayOf(first))
<1>1. PICK m \in Months, f \in Months : m = MonthOf(after) /\ f = MonthOf(first)
  BY MonthOfDate
<1>2. PICK day \in Nat \ {0} : day = DayOf(first) /\ InMonth(f, day) = first
  <2>1. MonthStart[Len(MonthLength)] \in Nat
    BY MonthsAre, MonthsFollow DEF Starts
  <2>2. first < MonthStart[Len(MonthLength)]
    BY <2>1
  <2> QED BY <1>1, <2>2, OwnDay
<1>3. /\ m + 1 \in Months /\ MonthStart[m] <= after /\ after < MonthStart[m + 1]
      /\ MonthStart[f] <= first
  BY <1>1, MonthOfDate
<1>4. /\ \A k \in Months : k \in Nat /\ MonthStart[k] \in Nat /\ MonthLength[k] \in Nat \ {0}
      /\ \A k \in Months : /\ InMonth(k, day) \in Nat /\ MonthStart[k] <= InMonth(k, day)
                           /\ InMonth(k, day) < MonthStart[k] + MonthLength[k]
      /\ \A k, l \in Months : k < l => /\ MonthStart[k] + MonthLength[k] <= MonthStart[l]
                                       /\ InMonth(k, day) <= InMonth(l, day)
  <2>1. \A k \in Months : k \in Nat /\ MonthStart[k] \in Nat /\ MonthLength[k] \in Nat \ {0}
    BY MonthsAre, MonthsFollow DEF Starts
  <2>2. \A k \in Months : /\ InMonth(k, day) \in Nat /\ MonthStart[k] <= InMonth(k, day)
                          /\ InMonth(k, day) < MonthStart[k] + MonthLength[k]
    BY DayInMonth
  <2>3. \A k, l \in Months : k < l => MonthStart[k] + MonthLength[k] <= MonthStart[l]
    BY MonthsGrow
  <2>4. ASSUME NEW k \in Months, NEW l \in Months, k < l PROVE InMonth(k, day) <= InMonth(l, day)
    <3>1. /\ InMonth(k, day) \in Nat /\ InMonth(l, day) \in Nat /\ MonthStart[l] <= InMonth(l, day)
          /\ InMonth(k, day) < MonthStart[k] + MonthLength[k] /\ MonthStart[k] \in Nat
          /\ MonthLength[k] \in Nat /\ MonthStart[l] \in Nat
      BY <2>1, <2>2
    <3>2. MonthStart[k] + MonthLength[k] <= MonthStart[l]
      BY <2>3, <2>4
    <3> QED BY <3>1, <3>2
  <2> QED BY <2>1, <2>2, <2>3, <2>4
<1>5. f <= m
  <2> SUFFICES ASSUME m < f PROVE FALSE
    BY <1>4
  <2>1. m + 1 = f \/ m + 1 < f
    BY <1>4
  <2>2. CASE m + 1 = f
    BY <1>3, <1>4, <2>2
  <2>3. CASE m + 1 < f
    <3>1. MonthStart[m + 1] + MonthLength[m + 1] <= MonthStart[f]
      BY <1>3, <1>4, <2>3
    <3> QED BY <1>3, <1>4, <3>1
  <2> QED BY <2>1, <2>2, <2>3
<1>6. CASE InMonth(m, day) <= after
  <2>1. next = InMonth(m + 1, day)
    BY <1>1, <1>2, <1>6 DEF NextMonthlyDate
  <2>2. m + 1 > f /\ after < next /\ next \in Nat
    BY <1>3, <1>4, <1>5, <2>1
  <2>3. ASSUME NEW n \in Months, after < InMonth(n, day) PROVE next <= InMonth(n, day)
    <3>1. n > m
      <4> SUFFICES ASSUME n < m \/ n = m PROVE FALSE
        BY <1>4
      <4>1. n # m
        BY <1>4, <1>6, <2>3
      <4>2. MonthStart[n] + MonthLength[n] <= MonthStart[m]
        BY <1>4, <4>1
      <4> QED BY <1>3, <1>4, <2>3, <4>2
    <3>2. n = m + 1 \/ m + 1 < n
      BY <1>4, <3>1
    <3>3. m + 1 < n => InMonth(m + 1, day) <= InMonth(n, day)
      BY <1>3, <1>4
    <3> QED BY <1>4, <2>1, <3>2, <3>3
  <2> QED BY <1>1, <1>2, <1>3, <2>1, <2>2, <2>3
<1>7. CASE after < InMonth(m, day)
  <2>1. next = InMonth(m, day)
    <3>1. ~(InMonth(m, day) <= after)
      BY <1>4, <1>7
    <3> QED BY <1>1, <1>2, <3>1 DEF NextMonthlyDate
  <2>2. m > f
    BY <1>2, <1>4, <1>5, <1>7
  <2>3. ASSUME NEW n \in Months, after < InMonth(n, day) PROVE next <= InMonth(n, day)
    <3>1. n = m \/ n > m
      <4> SUFFICES ASSUME n < m PROVE FALSE
        BY <1>4
      <4>1. MonthStart[n] + MonthLength[n] <= MonthStart[m]
        BY <1>4
      <4> QED BY <1>3, <1>4, <2>3, <4>1
    <3>2. n > m => InMonth(m, day) <= InMonth(n, day)
      BY <1>4
    <3> QED BY <1>4, <2>1, <3>1, <3>2
  <2> QED BY <1>1, <1>2, <1>4, <1>7, <2>1, <2>2, <2>3
<1> QED BY <1>4, <1>6, <1>7
-----------------------------------------------------------------------------
\* The last day the clock reaches, which the calendar outlasts.
LastDay == MaxTime \div DayLength

PaidDay(i) == movements[i].moment \div DayLength

\* A due day of account a lies after one day, and not after another.
DueBetween(a, day, until) == \E due \in DueDates(a) : day < due /\ due <= until

\* The day the interest of a is counted from.
LastPaid(a) == IF paidOn[a] = NoDate THEN openedOn[a] ELSE paidOn[a]

\* A payment of interest has a due day before it that no earlier payment has.
PaidWell(i) ==
    LET a == movements[i].account
    IN  /\ accStatus[a] # "unopened" /\ paidOn[a] # NoDate /\ PaidDay(i) <= paidOn[a]
        /\ DueBetween(a, openedOn[a], PaidDay(i))
        /\ \A j \in Previous(i) : movements[j].kind = "interest" => DueBetween(a, PaidDay(j), PaidDay(i))

DatesInOrder(a) ==
    /\ openedOn[a] <= LastDay /\ paidOn[a] <= LastDay
    /\ paidOn[a] # NoDate => accStatus[a] # "unopened" /\ openedOn[a] <= paidOn[a]

InterestInv ==
    /\ now <= MaxTime
    /\ \A a \in Accounts : DatesInOrder(a)
    /\ \A i \in DOMAIN movements : movements[i].kind = "interest" => PaidWell(i)

LEMMA DaysPass ==
  ASSUME NEW moment \in Nat
  PROVE  moment \div DayLength \in Nat /\ (moment <= MaxTime => moment \div DayLength <= LastDay)
<1>1. DayLength \in Nat \ {0} /\ MaxTime \in Nat
  BY ClockAssumption
<1>2. \A m, n \in Nat, d \in Nat \ {0} : m \div d \in Nat /\ (m <= n => m \div d <= n \div d)
  <2>1. ASSUME NEW m \in Nat, NEW n \in Nat, NEW d \in Nat \ {0}, m <= n PROVE m \div d <= n \div d
    <3>1. /\ m \div d \in Int /\ n \div d \in Int /\ m % d \in 0 .. d - 1 /\ n % d \in 0 .. d - 1
          /\ m = d * (m \div d) + (m % d) /\ n = d * (n \div d) + (n % d)
      OBVIOUS
    <3>2. PICK p \in Int, q \in Int : p = m \div d /\ q = n \div d
      BY <3>1
    <3>3. d * p < d * q + d
      BY <2>1, <3>1, <3>2
    <3>4. SUFFICES ASSUME q + 1 <= p PROVE FALSE
      BY <3>2
    <3>5. PICK r \in Nat : p = (q + 1) + r
      BY <3>4
    <3>6. d * p = d * q + d + d * r /\ d * r >= 0
      BY <3>5
    <3> QED BY <3>3, <3>6
  <2> QED BY <2>1
<1> QED BY <1>1, <1>2 DEF LastDay

\* The next interest date of an account that is open: a due day after the last
\* payment, and the first one.
LEMMA InterestDue ==
  ASSUME LedgerTypeOK, InterestInv, NEW a \in Accounts, accStatus[a] # "unopened"
  PROVE  /\ openedOn[a] \in Nat /\ LastPaid(a) \in Nat /\ openedOn[a] <= LastPaid(a)
         /\ NextInterestDate(a) \in DueDates(a) /\ LastPaid(a) < NextInterestDate(a)
         /\ NextInterestDate(a) \in Nat
         /\ \A due \in DueDates(a) : LastPaid(a) < due => NextInterestDate(a) <= due
<1> DEFINE first == openedOn[a]
<1> DEFINE after == LastPaid(a)
<1> DEFINE next == NextInterestDate(a)
<1>1. DatesInOrder(a)
  BY DEF InterestInv
<1>2. first \in Nat /\ first <= LastDay /\ after \in Nat /\ first <= after /\ after <= LastDay
  <2>1. /\ openedOn[a] \in Nat \cup {NoDate} /\ openedOn[a] # NoDate
        /\ paidOn[a] \in Nat \cup {NoDate}
    BY DEF LedgerTypeOK
  <2> QED BY <1>1, <2>1 DEF DatesInOrder, LastPaid
<1>3. LastDay \in Nat /\ LastDay < MonthStart[Len(MonthLength)] /\ MonthStart[Len(MonthLength)] \in Nat
  <2>1. MaxTime \in Nat
    BY ClockAssumption
  <2>2. LastDay \in Nat
    BY <2>1, DaysPass DEF LastDay
  <2> QED BY <2>2, CalendarLasts, MonthsAre, MonthsFollow DEF LastDay, Starts
<1>4. after < MonthStart[Len(MonthLength)]
  BY <1>2, <1>3
<1>5. next = NextMonthlyDate(after, DayOf(first))
  BY DEF NextInterestDate, LastPaid
<1> HIDE DEF next, after
<1>6. /\ next \in Nat /\ after < next
      /\ \E m \in Months : m > MonthOf(first) /\ next = InMonth(m, DayOf(first))
      /\ \A n \in Months : after < InMonth(n, DayOf(first)) => next <= InMonth(n, DayOf(first))
  <2>1. PICK f \in Nat, l \in Nat : f = first /\ l = after
    BY <1>2
  <2> DEFINE x == NextMonthlyDate(l, DayOf(f))
  <2>2. f <= l /\ l < MonthStart[Len(MonthLength)] /\ x = next
    BY <1>2, <1>4, <1>5, <2>1
  <2>3. /\ x \in Nat /\ l < x
        /\ \E m \in Months : m > MonthOf(f) /\ x = InMonth(m, DayOf(f))
        /\ \A n \in Months : l < InMonth(n, DayOf(f)) => x <= InMonth(n, DayOf(f))
    BY <2>2, NextDate
  <2> HIDE DEF x
  <2> QED BY <2>1, <2>2, <2>3
<1>7. next \in DueDates(a) /\ \A due \in DueDates(a) : after < due => next <= due
  BY <1>6 DEF DueDates
<1> QED BY <1>2, <1>6, <1>7 DEF next, after

\* What an operation does to the dates, and what it records as interest.
LEMMA WhatIsDated ==
  ASSUME LedgerTypeOK, LedgerTypeOK', UNCHANGED sessionVars,
         NEW a \in Accounts, NEW s \in Actors, OperationBy(a, s)
  PROVE  /\ \A b \in Accounts : accStatus[b] # "unopened" => accStatus'[b] # "unopened" /\ openedOn'[b] = openedOn[b]
         /\ \/ /\ ApplyInterest(a) /\ paidOn' = [paidOn EXCEPT ![a] = Today]
               /\ openedOn' = openedOn /\ accStatus' = accStatus
            \/ /\ paidOn' = paidOn
               /\ \/ openedOn' = openedOn
                  \/ accStatus[a] = "unopened" /\ openedOn' = [openedOn EXCEPT ![a] = Today]
         /\ \/ movements' = movements
            \/ \E m \in Movement : /\ movements' = Append(movements, m) /\ m.account = a /\ m.moment = now
                                   /\ m.kind = "interest" => ApplyInterest(a)
<1>1. /\ accStatus \in [Accounts -> {"unopened", "active", "frozen", "closed"}]
      /\ openedOn \in [Accounts -> Nat \cup {NoDate}] /\ paidOn \in [Accounts -> Nat \cup {NoDate}]
      /\ cash[a] \in Int /\ cash'[a] \in Int /\ now \in Nat /\ Value(a)' \in Int
  <2>1. Value(a)' \in Int /\ cash'[a] \in Int
    BY DEF LedgerTypeOK, Value, Invested, AssetTypes
  <2> QED BY <2>1 DEF LedgerTypeOK, SessionTypeOK
<1>2. \A b \in Accounts : accStatus[b] # "unopened" => accStatus'[b] # "unopened" /\ openedOn'[b] = openedOn[b]
  BY <1>1 DEF OperationBy, OpenAccount, CloseAccount, FreezeAccount, UnfreezeAccount, ApplyInterest,
              Deposit, Withdraw, Invest, Divest, Rebalance, datesVars
<1>3. \/ /\ ApplyInterest(a) /\ paidOn' = [paidOn EXCEPT ![a] = Today]
         /\ openedOn' = openedOn /\ accStatus' = accStatus
      \/ /\ paidOn' = paidOn
         /\ \/ openedOn' = openedOn
            \/ accStatus[a] = "unopened" /\ openedOn' = [openedOn EXCEPT ![a] = Today]
  BY DEF OperationBy, OpenAccount, CloseAccount, FreezeAccount, UnfreezeAccount, ApplyInterest,
         Deposit, Withdraw, Invest, Divest, Rebalance, datesVars
<1>4. \/ movements' = movements
      \/ \E kind \in Kinds, before \in Int, r \in {s, NoSession} :
            RecordMovement(kind, a, before, r) /\ (kind = "interest" => ApplyInterest(a))
  <2> DEFINE Records(kind, before, r) == RecordMovement(kind, a, before, r)
  <2>1. CASE \E o \in Offers, x \in Amounts \cup {0} : OpenAccount(a, o, x, s)
    <3>1. Records("opening", 0, s)
      BY <2>1 DEF OpenAccount
    <3> QED BY <3>1 DEF Kinds
  <2>2. CASE FreezeAccount(a, s) \/ UnfreezeAccount(a)
    BY <2>2 DEF FreezeAccount, UnfreezeAccount
  <2>3. CASE ApplyInterest(a)
    <3>1. Records("interest", cash[a], NoSession)
      BY <2>3 DEF ApplyInterest
    <3> QED BY <1>1, <2>3, <3>1 DEF Kinds
  <2>4. CASE \E kind \in {"payout", "deposit", "withdrawal", "investment", "divestment"} :
                Records(kind, cash[a], s)
    <3> HIDE DEF Records
    <3>1. PICK kind \in {"payout", "deposit", "withdrawal", "investment", "divestment"} :
              Records(kind, cash[a], s)
      BY <2>4
    <3>2. kind \in Kinds /\ kind # "interest"
      BY DEF Kinds
    <3> QED BY <1>1, <3>1, <3>2 DEF Records
  <2>5. CASE CloseAccount(a, s)
    BY <2>4, <2>5 DEF CloseAccount
  <2>6. ASSUME NEW x \in Amounts, Deposit(a, x, s) \/ Withdraw(a, x, s)
        PROVE  Records("deposit", cash[a], s) \/ Records("withdrawal", cash[a], s)
    BY <2>6 DEF Deposit, Withdraw
  <2>7. ASSUME NEW x \in Amounts, NEW y \in Assets, Invest(a, y, x, s) \/ Divest(a, y, x, s)
        PROVE  Records("investment", cash[a], s) \/ Records("divestment", cash[a], s)
    BY <2>7 DEF Invest, Divest, Rebalance
  <2>8. CASE \E x \in Amounts : \/ Deposit(a, x, s) \/ Withdraw(a, x, s)
                               \/ \E y \in Assets : Invest(a, y, x, s) \/ Divest(a, y, x, s)
    <3> HIDE DEF Records
    <3>1. \E kind \in {"payout", "deposit", "withdrawal", "investment", "divestment"} : Records(kind, cash[a], s)
      BY <2>6, <2>7, <2>8
    <3> QED BY <2>4, <3>1
  <2> QED BY <2>1, <2>2, <2>3, <2>5, <2>8 DEF OperationBy
<1>5. ASSUME NEW kind \in Kinds, NEW before \in Int, NEW r \in {s, NoSession},
             RecordMovement(kind, a, before, r), kind = "interest" => ApplyInterest(a)
      PROVE  \/ movements' = movements
             \/ \E m \in Movement : /\ movements' = Append(movements, m) /\ m.account = a /\ m.moment = now
                                    /\ m.kind = "interest" => ApplyInterest(a)
  <2> DEFINE m == [account |-> a, kind |-> kind, amount |-> cash'[a] - before,
                   balanceAfter |-> cash'[a], valueAfter |-> Value(a)', moment |-> now, session |-> r]
  <2>1. cash'[a] - before \in Int /\ r \in Actors
    BY <1>1 DEF Actors
  <2>2. m \in Movement
    BY <1>1, <2>1 DEF Movement, Actors
  <2>3. movements' = movements \/ movements' = Append(movements, m)
    BY <1>5 DEF RecordMovement
  <2>4. m.account = a /\ m.moment = now /\ (m.kind = "interest" => ApplyInterest(a))
    BY <1>5
  <2> QED BY <2>2, <2>3, <2>4
<1>6. \/ movements' = movements
      \/ \E m \in Movement : /\ movements' = Append(movements, m) /\ m.account = a /\ m.moment = now
                             /\ m.kind = "interest" => ApplyInterest(a)
  BY <1>4, <1>5
<1> QED BY <1>2, <1>3, <1>6

\* A payment stays well paid while its account stays opened on its day and is paid later.
LEMMA PaidWellStays ==
  ASSUME LedgerTypeOK, NEW i \in DOMAIN movements, PaidWell(i),
         movements'[i] = movements[i], Previous(i)' = Previous(i),
         \A j \in Previous(i) : movements'[j] = movements[j],
         LET b == movements[i].account
         IN  accStatus'[b] # "unopened" /\ openedOn'[b] = openedOn[b] /\ paidOn'[b] \in Nat /\ paidOn[b] <= paidOn'[b]
  PROVE  PaidWell(i)'
<1>1. PICK b \in Accounts : b = movements[i].account
  <2> DEFINE P == Movement
  <2>1. movements \in Seq(P) /\ \A m \in P : m.account \in Accounts
    BY DEF LedgerTypeOK, Movement
  <2> HIDE DEF P
  <2> QED BY <2>1
<1>2. /\ movements'[i].account = b /\ DueDates(b)' = DueDates(b)
      /\ PaidDay(i)' = PaidDay(i) /\ \A j \in Previous(i) : PaidDay(j)' = PaidDay(j)
  BY <1>1 DEF DueDates, PaidDay
<1>3. PaidDay(i) <= paidOn[b] /\ PaidDay(i) \in Nat /\ paidOn[b] \in Nat
  <2>1. movements[i].moment \in Nat
    <3> DEFINE P == Movement
    <3>1. movements \in Seq(P) /\ \A m \in P : m.moment \in Nat
      BY DEF LedgerTypeOK, Movement
    <3> HIDE DEF P
    <3> QED BY <3>1
  <2>2. PaidDay(i) \in Nat
    BY <2>1, DaysPass DEF PaidDay
  <2> QED BY <1>1, <2>2 DEF PaidWell, LedgerTypeOK
<1>4. paidOn'[b] # NoDate /\ PaidDay(i)' <= paidOn'[b]
  BY <1>1, <1>2, <1>3 DEF NoDate
<1>5. DueBetween(b, openedOn[b], PaidDay(i))'
  BY <1>1, <1>2 DEF PaidWell, DueBetween
<1>6. \A j \in Previous(i) : movements[j].kind = "interest" => DueBetween(b, PaidDay(j), PaidDay(i))'
  BY <1>1, <1>2 DEF PaidWell, DueBetween
<1> QED BY <1>1, <1>2, <1>4, <1>5, <1>6 DEF PaidWell

\* An operation keeps the dates in order; interest moves the day of the last payment on.
LEMMA OperationDates ==
  ASSUME LedgerTypeOK, LedgerTypeOK', InterestInv, UNCHANGED sessionVars,
         NEW a \in Accounts, NEW s \in Actors, OperationBy(a, s)
  PROVE  /\ now' <= MaxTime /\ \A b \in Accounts : DatesInOrder(b)'
         /\ \A b \in Accounts : paidOn[b] <= paidOn'[b]
         /\ ApplyInterest(a) =>
              /\ accStatus[a] # "unopened" /\ LastPaid(a) < Today /\ NextInterestDate(a) <= Today
              /\ accStatus' = accStatus /\ openedOn' = openedOn /\ paidOn' = [paidOn EXCEPT ![a] = Today]
<1>1. now' = now /\ now \in Nat /\ now <= MaxTime /\ Today \in Nat /\ Today <= LastDay
  BY DaysPass DEF sessionVars, LedgerTypeOK, SessionTypeOK, InterestInv, Today
<1>2. /\ openedOn \in [Accounts -> Nat \cup {NoDate}] /\ paidOn \in [Accounts -> Nat \cup {NoDate}]
      /\ openedOn' \in [Accounts -> Nat \cup {NoDate}] /\ paidOn' \in [Accounts -> Nat \cup {NoDate}]
      /\ \A b \in Accounts : accStatus'[b] # "unopened" => openedOn'[b] # NoDate
  BY DEF LedgerTypeOK
<1>3. /\ \A b \in Accounts : accStatus[b] # "unopened" => accStatus'[b] # "unopened" /\ openedOn'[b] = openedOn[b]
      /\ \/ /\ ApplyInterest(a) /\ paidOn' = [paidOn EXCEPT ![a] = Today]
            /\ openedOn' = openedOn /\ accStatus' = accStatus
         \/ /\ paidOn' = paidOn
            /\ \/ openedOn' = openedOn
               \/ accStatus[a] = "unopened" /\ openedOn' = [openedOn EXCEPT ![a] = Today]
  BY WhatIsDated
<1>4. \A b \in Accounts : DatesInOrder(b)
  BY DEF InterestInv
<1>5. ASSUME ApplyInterest(a)
      PROVE  /\ accStatus[a] # "unopened" /\ LastPaid(a) \in Nat /\ LastPaid(a) < Today
             /\ openedOn[a] <= LastPaid(a) /\ openedOn[a] \in Nat
             /\ NextInterestDate(a) <= Today /\ accStatus' = accStatus /\ openedOn' = openedOn
             /\ paidOn' = [paidOn EXCEPT ![a] = Today]
  <2>1. accStatus[a] # "unopened" /\ NextInterestDate(a) \in Int => NextInterestDate(a) <= Today
    BY <1>1, <1>5 DEF ApplyInterest, Active
  <2>2. accStatus[a] # "unopened"
    BY <1>5 DEF ApplyInterest, Active
  <2>3. /\ LastPaid(a) \in Nat /\ LastPaid(a) < NextInterestDate(a) /\ NextInterestDate(a) \in Nat
        /\ openedOn[a] <= LastPaid(a) /\ openedOn[a] \in Nat
    BY <2>2, InterestDue
  <2>4. accStatus' = accStatus /\ openedOn' = openedOn /\ paidOn' = [paidOn EXCEPT ![a] = Today]
    BY <1>5 DEF ApplyInterest
  <2> QED BY <1>1, <2>1, <2>2, <2>3, <2>4
<1>6. \A b \in Accounts : paidOn[b] <= paidOn'[b]
  <2>1. CASE ApplyInterest(a)
    <3>1. paidOn[a] <= Today
      <4>1. paidOn[a] = NoDate \/ paidOn[a] = LastPaid(a)
        BY DEF LastPaid
      <4> QED BY <1>1, <1>5, <2>1, <4>1 DEF NoDate
    <3> QED BY <1>1, <1>2, <1>5, <2>1, <3>1 DEF NoDate
  <2>2. CASE paidOn' = paidOn
    BY <1>2, <2>2 DEF NoDate
  <2> QED BY <1>3, <2>1, <2>2
<1>7. ASSUME NEW b \in Accounts PROVE DatesInOrder(b)'
  <2>1. /\ openedOn[b] <= LastDay /\ paidOn[b] <= LastDay
        /\ paidOn[b] # NoDate => accStatus[b] # "unopened" /\ openedOn[b] <= paidOn[b]
    BY <1>4 DEF DatesInOrder
  <2>2. LastDay' = LastDay
    BY DEF LastDay
  <2>3. openedOn'[b] <= LastDay
    BY <1>1, <1>2, <1>3, <2>1
  <2>4. CASE ApplyInterest(a)
    <3>1. openedOn'[a] <= Today /\ paidOn'[a] = Today
      BY <1>1, <1>2, <1>5, <2>4
    <3>2. b # a => paidOn'[b] = paidOn[b] /\ accStatus'[b] = accStatus[b] /\ openedOn'[b] = openedOn[b]
      BY <1>2, <1>5, <2>4
    <3>3. paidOn'[b] <= LastDay
      BY <1>1, <2>1, <3>1, <3>2
    <3>4. paidOn'[b] # NoDate => accStatus'[b] # "unopened" /\ openedOn'[b] <= paidOn'[b]
      BY <1>5, <2>1, <2>4, <3>1, <3>2
    <3> QED BY <2>2, <2>3, <3>3, <3>4 DEF DatesInOrder
  <2>5. CASE paidOn' = paidOn
    <3>1. paidOn'[b] # NoDate => accStatus'[b] # "unopened" /\ openedOn'[b] <= paidOn'[b]
      BY <1>3, <2>1, <2>5
    <3> QED BY <2>1, <2>2, <2>3, <2>5, <3>1 DEF DatesInOrder
  <2> QED BY <1>3, <2>4, <2>5
<1> QED BY <1>1, <1>5, <1>6, <1>7

\* What is recorded is on an account, on a day.
LEMMA OnDays ==
  ASSUME LedgerTypeOK
  PROVE  \A i \in DOMAIN movements : movements[i].account \in Accounts /\ PaidDay(i) \in Nat
<1> DEFINE P == Movement
<1>1. movements \in Seq(P) /\ \A m \in P : m.account \in Accounts /\ m.moment \in Nat
  BY DEF LedgerTypeOK, Movement
<1> HIDE DEF P
<1>2. \A i \in DOMAIN movements : movements[i].account \in Accounts /\ movements[i].moment \in Nat
  BY <1>1
<1> QED BY <1>2, DaysPass DEF PaidDay

\* An operation keeps every payment of interest well paid.
LEMMA OperationPays ==
  ASSUME LedgerTypeOK, LedgerTypeOK', InterestInv, UNCHANGED sessionVars,
         NEW a \in Accounts, NEW s \in Actors, OperationBy(a, s)
  PROVE  InterestInv'
<1>1. /\ now' <= MaxTime /\ \A b \in Accounts : DatesInOrder(b)'
      /\ \A b \in Accounts : paidOn[b] <= paidOn'[b]
      /\ ApplyInterest(a) =>
           /\ accStatus[a] # "unopened" /\ LastPaid(a) < Today /\ NextInterestDate(a) <= Today
           /\ accStatus' = accStatus /\ openedOn' = openedOn /\ paidOn' = [paidOn EXCEPT ![a] = Today]
  BY OperationDates
<1>2. /\ \A b \in Accounts : accStatus[b] # "unopened" => accStatus'[b] # "unopened" /\ openedOn'[b] = openedOn[b]
      /\ \/ movements' = movements
         \/ \E m \in Movement : /\ movements' = Append(movements, m) /\ m.account = a /\ m.moment = now
                                /\ m.kind = "interest" => ApplyInterest(a)
  BY WhatIsDated
<1>3. \A i \in DOMAIN movements : movements[i].account \in Accounts /\ PaidDay(i) \in Nat
  BY OnDays
<1>4. paidOn \in [Accounts -> Nat \cup {NoDate}] /\ paidOn' \in [Accounts -> Nat \cup {NoDate}]
  BY DEF LedgerTypeOK
<1>5. ASSUME NEW i \in DOMAIN movements, movements[i].kind = "interest",
             movements'[i] = movements[i], Previous(i)' = Previous(i),
             \A j \in Previous(i) : movements'[j] = movements[j]
      PROVE  PaidWell(i)'
  <2>1. PICK b \in Accounts : b = movements[i].account
    BY <1>3
  <2>2. PaidWell(i)
    BY <1>5 DEF InterestInv
  <2>3. accStatus[b] # "unopened" /\ paidOn[b] # NoDate
    BY <2>1, <2>2 DEF PaidWell
  <2>4. accStatus'[b] # "unopened" /\ openedOn'[b] = openedOn[b] /\ paidOn'[b] \in Nat /\ paidOn[b] <= paidOn'[b]
    <3>1. paidOn[b] \in Nat /\ paidOn'[b] \in Nat \cup {NoDate} /\ paidOn[b] <= paidOn'[b]
      BY <1>1, <1>4, <2>3
    <3> QED BY <1>2, <2>3, <3>1 DEF NoDate
  <2> QED BY <1>5, <2>1, <2>2, <2>4, PaidWellStays
<1>6. CASE movements' = movements
  <2>1. \A i \in DOMAIN movements : Previous(i)' = Previous(i)
    BY <1>6 DEF Previous, MovementsOf
  <2>2. \A i \in DOMAIN movements' : movements'[i].kind = "interest" => PaidWell(i)'
    BY <1>5, <1>6, <2>1
  <2> QED BY <1>1, <2>2 DEF InterestInv
<1>7. ASSUME NEW m \in Movement, movements' = Append(movements, m), m.account = a, m.moment = now,
             m.kind = "interest" => ApplyInterest(a)
      PROVE  InterestInv'
  <2>1. movements \in Seq(Movement)
    BY DEF LedgerTypeOK
  <2>2. PICK n \in Nat : n = Len(movements) + 1
    BY <2>1
  <2>3. /\ DOMAIN movements' = DOMAIN movements \cup {n} /\ n \notin DOMAIN movements
        /\ movements'[n] = m /\ \A i \in DOMAIN movements : movements'[i] = movements[i] /\ i < n
        /\ \A b : MovementsOf(b)' = IF b = m.account THEN MovementsOf(b) \cup {n} ELSE MovementsOf(b)
        /\ Previous(n)' = MovementsOf(a) /\ DOMAIN movements \subseteq Nat
    BY <1>7, <2>1, <2>2, OneMore
  <2>4. ASSUME NEW i \in DOMAIN movements
        PROVE  Previous(i)' = Previous(i) /\ \A j \in Previous(i) : movements'[j] = movements[j]
    <3>1. i < n /\ i \in Nat /\ Previous(i) \subseteq DOMAIN movements
      BY <2>3 DEF Previous, MovementsOf
    <3>2. ~(n < i)
      BY <3>1
    <3>3. movements'[i].account = movements[i].account
      BY <2>3
    <3>4. Previous(i)' = {j \in MovementsOf(movements[i].account)' : j < i}
      BY <3>3 DEF Previous
    <3>5. Previous(i)' = Previous(i)
      BY <2>3, <3>2, <3>4 DEF Previous
    <3> QED BY <2>3, <3>1, <3>5
  <2>5. ASSUME m.kind = "interest" PROVE PaidWell(n)'
    <3>1. /\ ApplyInterest(a) /\ accStatus[a] # "unopened" /\ LastPaid(a) < Today /\ NextInterestDate(a) <= Today
          /\ accStatus' = accStatus /\ openedOn' = openedOn /\ paidOn' = [paidOn EXCEPT ![a] = Today]
      BY <1>1, <1>7, <2>5
    <3>2. /\ openedOn[a] \in Nat /\ LastPaid(a) \in Nat /\ openedOn[a] <= LastPaid(a)
          /\ NextInterestDate(a) \in DueDates(a) /\ LastPaid(a) < NextInterestDate(a)
          /\ NextInterestDate(a) \in Nat
      BY <3>1, InterestDue
    <3>3. Today \in Nat /\ paidOn'[a] = Today
      BY <1>4, <3>1, TodayIsDay DEF LedgerTypeOK, SessionTypeOK
    <3>4. PaidDay(n)' = Today /\ DueDates(a)' = DueDates(a) /\ movements'[n].account = a
      BY <1>7, <2>3, <3>1 DEF PaidDay, Today, DueDates
    <3>5. ASSUME NEW day \in Int, day <= LastPaid(a) PROVE DueBetween(a, day, Today)'
      <4>1. day < NextInterestDate(a) /\ NextInterestDate(a) <= Today
        BY <3>1, <3>2, <3>5
      <4>2. Today' = Today
        BY DEF Today, sessionVars
      <4> QED BY <3>2, <3>4, <4>1, <4>2 DEF DueBetween
    <3>6. Today' = Today /\ openedOn'[a] = openedOn[a]
      BY <3>1 DEF Today, sessionVars
    <3>7. DueBetween(a, openedOn[a], PaidDay(n))'
      <4>1. DueBetween(a, openedOn[a], Today)'
        BY <3>2, <3>5, <3>6 DEF DueBetween
      <4> QED BY <3>4, <3>6, <4>1 DEF DueBetween
    <3>8. ASSUME NEW j \in Previous(n)', movements'[j].kind = "interest"
          PROVE  DueBetween(a, PaidDay(j), PaidDay(n))'
      <4>1. j \in DOMAIN movements /\ movements[j].account = a /\ movements'[j] = movements[j]
        BY <2>3, <3>8 DEF MovementsOf
      <4>2. PaidWell(j) /\ PaidDay(j) \in Nat /\ PaidDay(j)' = PaidDay(j)
        BY <1>3, <3>8, <4>1 DEF InterestInv, PaidDay
      <4>3. PaidDay(j) <= LastPaid(a)
        BY <4>1, <4>2 DEF PaidWell, LastPaid
      <4>4. \E due \in DueDates(a) : PaidDay(j) < due /\ due <= Today
        BY <3>1, <3>2, <4>2, <4>3
      <4> QED BY <3>4, <4>2, <4>4 DEF DueBetween
    <3>9. accStatus'[a] # "unopened" /\ paidOn'[a] # NoDate /\ PaidDay(n)' <= paidOn'[a]
      BY <3>1, <3>3, <3>4 DEF NoDate
    <3> QED BY <3>4, <3>7, <3>8, <3>9 DEF PaidWell
  <2>6. \A i \in DOMAIN movements' : movements'[i].kind = "interest" => PaidWell(i)'
    BY <1>5, <2>3, <2>4, <2>5
  <2> QED BY <1>1, <2>6 DEF InterestInv
<1> QED BY <1>2, <1>6, <1>7

\* Nothing around the accounts touches their dates, and the clock stops at its bound.
LEMMA AroundPays ==
  ASSUME LedgerTypeOK, InterestInv, [SessionNext]_sessionVars,
         UNCHANGED <<accountVars, datesVars, movements>>
  PROVE  InterestInv'
<1>1. now' <= MaxTime
  <2>1. now \in Nat /\ now <= MaxTime /\ MaxTime \in Nat
    BY ClockAssumption DEF LedgerTypeOK, SessionTypeOK, InterestInv
  <2>2. now' = now \/ Tick
    BY DEF SessionNext, LogIn, Register, FailLogin, BlockModel, UnblockClient, UseSession, LogOut, Passing,
           sessionVars
  <2> QED BY <2>1, <2>2 DEF Tick
<1>2. UNCHANGED <<accStatus, openedOn, paidOn, movements>>
  BY DEF accountVars, datesVars
<1>3. \A b \in Accounts : DatesInOrder(b)'
  BY <1>2 DEF InterestInv, DatesInOrder, LastDay
<1>4. ASSUME NEW i \in DOMAIN movements' PROVE PaidWell(i)' = PaidWell(i)
  BY <1>2 DEF PaidWell, PaidDay, DueBetween, DueDates, Previous, MovementsOf
<1>5. \A i \in DOMAIN movements' : movements'[i].kind = "interest" => PaidWell(i)'
  BY <1>2, <1>4 DEF InterestInv
<1> QED BY <1>1, <1>3, <1>5 DEF InterestInv

LEMMA InterestInit == LedgerInit => InterestInv
<1> SUFFICES ASSUME LedgerInit PROVE InterestInv
  OBVIOUS
<1>1. movements = <<>> /\ \A a \in Accounts : openedOn[a] = NoDate /\ paidOn[a] = NoDate
  BY DEF LedgerInit
<1>2. now <= MaxTime
  BY ClockAssumption DEF LedgerInit, SessionInit
<1>3. MaxTime \in Nat /\ LastDay \in Nat
  BY ClockAssumption, DaysPass DEF LastDay
<1> QED BY <1>1, <1>2, <1>3 DEF InterestInv, DatesInOrder, NoDate

\* What the interest of every account is read from says that it is paid once a month.
LEMMA PaidOncePerMonth == LedgerTypeOK /\ InterestInv => InterestOncePerMonth
<1> SUFFICES ASSUME LedgerTypeOK, InterestInv PROVE InterestOncePerMonth
  OBVIOUS
<1>1. ASSUME NEW i \in DOMAIN movements, movements[i].kind = "interest",
             NEW day \in {PaidDay(j) : j \in {k \in Previous(i) : movements[k].kind = "interest"}}
                           \cup {openedOn[movements[i].account]}
      PROVE  \E due \in DueDates(movements[i].account) : day < due /\ due <= PaidDay(i)
  BY <1>1 DEF InterestInv, PaidWell, DueBetween
<1>2. ASSUME NEW a \in Accounts, terms[a] # NoOffer,
             NEW due \in DueDates(a), LastPaid(a) < due, due <= Today
      PROVE  Today >= NextInterestDate(a)
  <2>1. accStatus[a] # "unopened"
    BY <1>2 DEF LedgerTypeOK
  <2>2. NextInterestDate(a) \in Nat /\ NextInterestDate(a) <= due
    BY <1>2, <2>1, InterestDue
  <2>3. Today \in Nat
    BY TodayIsDay DEF LedgerTypeOK, SessionTypeOK
  <2>4. due \in Int
    <3>1. openedOn[a] \in Nat /\ openedOn[a] < MonthStart[Len(MonthLength)] /\ MonthStart[Len(MonthLength)] \in Nat
      <4>1. openedOn[a] \in Nat /\ openedOn[a] <= LastDay
        BY <2>1, InterestDue DEF InterestInv, DatesInOrder
      <4>2. LastDay \in Nat
        BY ClockAssumption, DaysPass DEF LastDay
      <4> QED BY <4>1, <4>2, CalendarLasts, MonthsAre, MonthsFollow DEF LastDay, Starts
    <3>2. PICK first \in Nat : first = openedOn[a]
      BY <3>1
    <3>3. DayOf(first) \in Nat \ {0}
      BY <3>1, <3>2, OwnDay
    <3>4. PICK m \in Months : due = InMonth(m, DayOf(first))
      BY <3>2 DEF DueDates
    <3> QED BY <3>3, <3>4, DayInMonth
  <2> QED BY <1>2, <2>2, <2>3, <2>4
<1>3. \A i \in DOMAIN movements : movements[i].kind = "interest" =>
         \A day \in {PaidDay(j) : j \in {k \in Previous(i) : movements[k].kind = "interest"}}
                      \cup {openedOn[movements[i].account]} :
           \E due \in DueDates(movements[i].account) : day < due /\ due <= PaidDay(i)
  BY <1>1
<1>4. \A a \in Accounts : terms[a] # NoOffer =>
         ((\E due \in DueDates(a) : LastPaid(a) < due /\ due <= Today) => Today >= NextInterestDate(a))
  BY <1>2
<1> QED BY <1>3, <1>4 DEF InterestOncePerMonth, PaidDay, LastPaid

\* Interest is paid once for every month, over months of any lengths, late payments
\* and freezes: between two payments, and before the first, lies a day it fell due on;
\* and once such a day has come, it can be paid.
THEOREM InterestOnceAMonth == LedgerSpec => []InterestOncePerMonth
<1> DEFINE Inv == LedgerTypeOK /\ InterestInv
<1>1. LedgerInit => Inv
  BY LedgerTypeInit, InterestInit
<1>2. ASSUME LedgerTypeOK, InterestInv, [LedgerNext]_ledgerVars PROVE LedgerTypeOK' /\ InterestInv'
  <2>1. LedgerTypeOK'
    BY <1>2, LedgerTypeStep
  <2>2. CASE Staff
    BY <1>2, <2>1, <2>2, StaffIsOperation, OperationPays DEF Staff, Actors
  <2>3. CASE Around
    <3>1. [SessionNext]_sessionVars /\ UNCHANGED <<accountVars, datesVars, movements>>
      BY <2>3, AroundIsSession
    <3> QED BY <1>2, <2>1, <3>1, AroundPays
  <2>4. CASE UNCHANGED ledgerVars
    <3>1. [SessionNext]_sessionVars /\ UNCHANGED <<accountVars, datesVars, movements>>
      BY <2>4 DEF ledgerVars
    <3> QED BY <1>2, <2>1, <3>1, AroundPays
  <2> QED BY <1>2, <2>1, <2>2, <2>3, <2>4 DEF LedgerNext
<1>3. Inv /\ [LedgerNext]_ledgerVars => Inv'
  BY <1>2
<1>4. Inv => InterestOncePerMonth
  BY PaidOncePerMonth
<1> QED BY <1>1, <1>3, <1>4, PTL DEF LedgerSpec

\* And when clients act on their accounts too.
THEOREM PortalPaysOnceAMonth == PortalSpec => []InterestOncePerMonth
<1>1. ASSUME WellKept, WellKept', InterestInv, [PortalNext]_ledgerVars PROVE InterestInv'
  <2>1. CASE \E a \in Accounts, s \in Actors : OperationBy(a, s) /\ UNCHANGED sessionVars
    BY <1>1, <2>1, OperationPays DEF WellKept
  <2>2. CASE UNCHANGED <<accountVars, datesVars, movements>>
    BY <1>1, <2>2, PortalStep, AroundPays DEF WellKept
  <2> QED BY <1>1, <2>1, <2>2, PortalStep
<1>2. PortalSpec => []WellKept
  BY PortalKeepsTerms, PTL DEF WellKept
<1>3. WellKept /\ InterestInv => InterestOncePerMonth
  BY PaidOncePerMonth DEF WellKept
<1> QED BY <1>1, <1>2, <1>3, InterestInit, PTL DEF PortalSpec
=============================================================================
