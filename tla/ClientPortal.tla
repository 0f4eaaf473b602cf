----------------------------- MODULE ClientPortal -----------------------------
(***************************************************************************)
(* services/client_portal.py: what clients do with their own accounts,     *)
(* through a session, while the bank's staff work on the same accounts and *)
(* logins, lockouts and expiry take sessions away.  Every method resolves  *)
(* the session, checks that the account is the client's, and delegates to  *)
(* the bank with the session as the actor.  A session that is refused goes *)
(* through UseSession; submit() is in ProcessQueue.                        *)
(***************************************************************************)
EXTENDS Ledger

\* faulty variant of Resolves: an open session of a client, expired or not
ResolvesOpen(s) == s \in store /\ issued[s].client \notin blocked

\* _client(): resolve_session() names the client; a valid session changes nothing
Resolves(s) == s \in held /\ Outcome(s) = "valid"

\* _owner_of()
OwnerOf(s, a) == Resolves(s) /\ a \in AccountIds(issued[s].client)

\* RESERVED_PARAMS: the terms that are the bank's to set
ClientOffer(o) == o.floor >= 0 /\ o.fee = 0 /\ o.rate.num = 0

\* faulty variant of PortalOpen: the initial balance is not reserved
PortalOpenFunded(s, a) ==
    /\ Resolves(s)
    /\ \E o \in Offers, x \in Amounts : ClientOffer(o) /\ OpenAccount(a, o, x, s)

\* the client named by the session gets an empty account
PortalOpen(s, a) ==
    /\ Resolves(s)
    /\ \E o \in Offers : ClientOffer(o) /\ OpenAccount(a, o, 0, s)

PortalClose(s, a) == OwnerOf(s, a) /\ CloseAccount(a, s)
PortalFreeze(s, a) == OwnerOf(s, a) /\ FreezeAccount(a, s)
PortalWithdraw(s, a, amount) == OwnerOf(s, a) /\ Withdraw(a, amount, s)
PortalInvest(s, a, asset, amount) == OwnerOf(s, a) /\ Invest(a, asset, amount, s)
PortalDivest(s, a, asset, amount) == OwnerOf(s, a) /\ Divest(a, asset, amount, s)

PortalAction(s, a) ==
    \/ PortalOpen(s, a) \/ PortalClose(s, a) \/ PortalFreeze(s, a)
    \/ \E x \in Amounts : \/ PortalWithdraw(s, a, x)
                          \/ \E y \in Assets : PortalInvest(s, a, y, x) \/ PortalDivest(s, a, y, x)

Portal == /\ \E s \in SessionIds, a \in Accounts : PortalAction(s, a)
          /\ Bounded
          /\ UNCHANGED sessionVars

\* logins, logouts, blocks, and time
Access == SessionNext /\ UNCHANGED <<accountVars, datesVars, movements>>

PortalNext == Portal \/ Staff \/ Access

PortalSpec == LedgerInit /\ [][PortalNext]_ledgerVars
-----------------------------------------------------------------------------
(***************************************************************************)
(* Properties.                                                             *)
(***************************************************************************)
\* What is recorded as done through a session was done while the session lived
\* and its client was not blocked, to an account of that client: no lockout,
\* logout, expiry or later session lets it act on.
OnlyLiveSessionsAct ==
    [][\A i \in DOMAIN movements' \ DOMAIN movements :
         LET s == movements'[i].session
         IN  s # NoSession =>
               /\ s \in store /\ now < issued[s].expiresAt
               /\ issued[s].client \notin blocked
               /\ issued[s].client = Owner[movements'[i].account]]_ledgerVars

\* A client's session brings no money into the bank: nothing done through one ever
\* raised the value of an account, not even its opening or a divestment.
ClientsBringNoMoney ==
    \A i \in DOMAIN movements :
        movements[i].session # NoSession => movements[i].valueAfter <= ValueBefore(i)
=============================================================================
