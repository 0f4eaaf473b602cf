------------------------------- MODULE Sessions -------------------------------
(***************************************************************************)
(* services/security.py and services/session.py, with registration, login, *)
(* logout and unblocking by services/bank.py: who is logged in, who is     *)
(* blocked, and which sessions the bank still honours.  Each operation     *)
(* runs to its end, but a write of the audit log in it may fail and cut it *)
(* short.  A session object is immutable; presented with any field changed *)
(* it is refused like one the bank never issued.                           *)
(***************************************************************************)
EXTENDS BankClock, FiniteSets

CONSTANTS Clients,
          Newcomers,             \* those of them who are yet to be registered
          ComesOfAge,            \* the moment they come of age
          SessionIds,            \* ids of the sessions that can be issued
          NotIssued,             \* "this id has not been issued"
          MAX_FAILED_ATTEMPTS,
          SESSION_TTL,           \* in slots
          MaxFailures            \* bound: failed logins in a row

ASSUME SessionAssumption ==
    /\ Newcomers \subseteq Clients /\ ComesOfAge \in Nat
    /\ MAX_FAILED_ATTEMPTS \in Nat \ {0}
    /\ SESSION_TTL \in Nat \ {0}
    /\ NotIssued \notin [client : Clients, expiresAt : Nat]

VARIABLES registered,    \* clients the bank knows, with a password
          blocked,       \* clients whose status is BLOCKED
          failedLogins,  \* failed logins in a row
          issued,        \* session id -> the ClientSession as issued
          store,         \* ids of the sessions in the SessionStore
          held           \* sessions some login returned to its caller

sessionVars == <<now, registered, blocked, failedLogins, issued, store, held>>

SessionInit == /\ now \in 0 .. MaxTime
               /\ registered = Clients \ Newcomers
               /\ blocked = {}
               /\ failedLogins = [c \in Clients |-> 0]
               /\ issued = [s \in SessionIds |-> NotIssued]
               /\ store = {} /\ held = {}

SessionsOf(c) == {s \in store : issued[s].client = c}

\* ClientSession.issue()
NewSession(c) == [client |-> c, expiresAt |-> now + SESSION_TTL]

\* Bank.add_client(): of age by the bank's clock; a failing audit write does not undo it
Register(c) ==
    /\ c \notin registered
    /\ ComesOfAge <= now
    /\ registered' = registered \cup {c}
    /\ UNCHANGED <<now, blocked, failedLogins, issued, store, held>>

\* faulty variant of LogIn: a new login ends the old ones
LogInAlone(c, s) ==
    /\ c \in registered \ blocked
    /\ issued[s] = NotIssued
    /\ failedLogins' = [failedLogins EXCEPT ![c] = 0]
    /\ issued' = [issued EXCEPT ![s] = NewSession(c)]
    /\ store' = (store \ SessionsOf(c)) \cup {s}
    /\ held' = held \cup {s}
    /\ UNCHANGED <<now, registered, blocked>>

\* authenticate(), right password: a session is opened; the caller gets it only
\* when the login could be audited
LogIn(c, s) ==
    /\ c \in registered \ blocked
    /\ issued[s] = NotIssued
    /\ failedLogins' = [failedLogins EXCEPT ![c] = 0]
    /\ issued' = [issued EXCEPT ![s] = NewSession(c)]
    /\ store' = store \cup {s}
    /\ \E written \in BOOLEAN : held' = IF written THEN held \cup {s} ELSE held
    /\ UNCHANGED <<now, registered, blocked>>

\* authenticate(), wrong password: counted, audited, and only then blocked
FailLogin(c) ==
    /\ c \in registered \ blocked
    /\ failedLogins[c] < MaxFailures
    /\ failedLogins' = [failedLogins EXCEPT ![c] = @ + 1]
    /\ \E written \in BOOLEAN :
          IF written /\ failedLogins'[c] >= MAX_FAILED_ATTEMPTS
            THEN blocked' = blocked \cup {c} /\ store' = store \ SessionsOf(c)
            ELSE UNCHANGED <<blocked, store>>
    /\ UNCHANGED <<now, registered, issued, held>>

\* Client.block() called on the model, past the guard
BlockModel(c) ==
    /\ c \notin blocked
    /\ blocked' = blocked \cup {c}
    /\ UNCHANGED <<now, registered, failedLogins, issued, store, held>>

\* faulty variant of UnblockClient: leaves the sessions of the blocked client
UnblockKeepingSessions(c) ==
    /\ c \in registered \cap blocked
    /\ ~IsNight(now)
    /\ blocked' = blocked \ {c}
    /\ failedLogins' = [failedLogins EXCEPT ![c] = 0]
    /\ UNCHANGED <<now, registered, issued, store, held>>

\* Bank.unblock_client()
UnblockClient(c) ==
    /\ c \in registered \cap blocked
    /\ ~IsNight(now)
    /\ store' = store \ SessionsOf(c)
    /\ blocked' = blocked \ {c}
    /\ failedLogins' = [failedLogins EXCEPT ![c] = 0]
    /\ UNCHANGED <<now, registered, issued, held>>

\* what resolve_session() finds out about a session presented as issued
Outcome(s) == IF s \notin store \/ issued[s].client \in blocked THEN "invalid"
              ELSE IF now >= issued[s].expiresAt THEN "expired" ELSE "valid"

\* _open_session_client(): using a session of a blocked client closes them all
Swept(s) == IF s \in store /\ issued[s].client \in blocked
              THEN store \ SessionsOf(issued[s].client) ELSE store

\* resolve_session()
UseSession(s) ==
    /\ s \in held
    /\ store' = IF Outcome(s) = "expired" THEN store \ {s} ELSE Swept(s)
    /\ UNCHANGED <<now, registered, blocked, failedLogins, issued, held>>

\* close_session(): an expired session is closed too
LogOut(s) ==
    /\ s \in held
    /\ store' = IF Outcome(s) = "invalid" THEN Swept(s) ELSE store \ {s}
    /\ UNCHANGED <<now, registered, blocked, failedLogins, issued, held>>

Passing == Tick /\ UNCHANGED <<registered, blocked, failedLogins, issued, store, held>>

SessionNext == \/ \E c \in Clients : \/ \E s \in SessionIds : LogIn(c, s)
                                     \/ Register(c) \/ FailLogin(c)
                                     \/ BlockModel(c) \/ UnblockClient(c)
               \/ \E s \in SessionIds : UseSession(s) \/ LogOut(s)
               \/ Passing

SessionSpec == SessionInit /\ [][SessionNext]_sessionVars
-----------------------------------------------------------------------------
\* Type invariant; a session the store or a caller has was issued.
SessionTypeOK ==
    /\ now \in Nat
    /\ registered \subseteq Clients /\ blocked \subseteq Clients
    /\ failedLogins \in [Clients -> Nat]
    /\ issued \in [SessionIds -> [client : Clients, expiresAt : Nat] \cup {NotIssued}]
    /\ store \subseteq {s \in SessionIds : issued[s] # NotIssued}
    /\ held \subseteq {s \in SessionIds : issued[s] # NotIssued}

\* A session that was refused once, or would have been, is never honoured again:
\* it does not outlive a logout, its expiry, or a block of its client, however
\* the block came about and whether or not the client is unblocked later.
DeadStaysDead ==
    [][\A s \in SessionIds : issued[s] # NotIssued /\ Outcome(s) # "valid"
          => Outcome(s)' # "valid"]_sessionVars

\* A session dies of something: as long as its client stays unblocked, only its
\* own logout or its expiry ends it, not another login, failed attempts or the
\* end of another session of the same client.
DiesOfACause ==
    [][\A s \in SessionIds : issued[s] # NotIssued /\ Outcome(s) = "valid"
          => \/ Outcome(s)' = "valid"
             \/ now' >= issued[s].expiresAt
             \/ issued[s].client \in blocked'
             \/ LogOut(s)]_sessionVars

\* The guard blocks a client after MAX_FAILED_ATTEMPTS failed logins in a row.
LockedOut == \A c \in Clients : failedLogins[c] >= MAX_FAILED_ATTEMPTS => c \in blocked
=============================================================================
