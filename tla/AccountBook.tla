------------------------------ MODULE AccountBook ------------------------------
(***************************************************************************)
(* What the bank promises about the money on its accounts, whatever terms  *)
(* they are opened on.  There is one book; it is written at its end only,  *)
(* and no balance changes past it: each entry tells by how much its        *)
(* account changed and what it then has, in cash and in all.  Whoever is   *)
(* blocked takes nothing out; a frozen account holds everything on it, in  *)
(* and out, and is closed only when it is empty; at night nothing moves    *)
(* but interest.                                                           *)
(***************************************************************************)
EXTENDS Integers, Sequences

CONSTANTS Accounts, Clients,
          Owner          \* the client each account belongs to

VARIABLES book,          \* the entries [account, kind, amount, cash, worth]
          cash,          \* what each account has,
          worth,         \*   with what is invested
          standing,      \* of each account
          barred,        \* clients who are blocked
          night          \* whether it is night

vars == <<book, cash, worth, standing, barred, night>>

Init == /\ book = <<>>
        /\ cash = [a \in Accounts |-> 0]
        /\ worth = [a \in Accounts |-> 0]
        /\ standing = [a \in Accounts |-> "unopened"]
        /\ barred = {}
        /\ night \in BOOLEAN

\* by how much an account changes, in cash and in all
Change(a) == cash'[a] - cash[a]
Gain(a) == worth'[a] - worth[a]

\* nothing changes but account a, and where its cash does, the book tells
Enter(a, kind) ==
    /\ cash' = [cash EXCEPT ![a] = cash'[a]]
    /\ worth' = [worth EXCEPT ![a] = worth'[a]]
    /\ book' = IF Change(a) = 0 THEN book
               ELSE Append(book, [account |-> a, kind |-> kind, amount |-> Change(a),
                                  cash |-> cash'[a], worth |-> worth'[a]])
    /\ UNCHANGED <<barred, night>>

At(a, from, to) == standing[a] = from /\ standing' = [standing EXCEPT ![a] = to]

\* by day, and the owner may take money out
Free(a) == ~night /\ Owner[a] \notin barred

Open(a) == /\ Free(a)
           /\ At(a, "unopened", "active")
           /\ Change(a) >= 0 /\ Gain(a) = Change(a)
           /\ Enter(a, "opening")

PayIn(a) == /\ ~night
            /\ At(a, "active", "active")
            /\ Change(a) > 0 /\ Gain(a) = Change(a)
            /\ Enter(a, "deposit")

PayOut(a) == /\ Free(a)
             /\ At(a, "active", "active")
             /\ Change(a) < 0 /\ Gain(a) = Change(a)
             /\ Enter(a, "withdrawal")

EarnInterest(a) == /\ At(a, "active", "active")
                   /\ Change(a) >= 0 /\ Gain(a) = Change(a)
                   /\ Enter(a, "interest")

\* money goes into the portfolio or comes back from it
Shift(a) == /\ Free(a)
            /\ At(a, "active", "active")
            /\ Gain(a) = 0
            /\ \/ Change(a) < 0 /\ Enter(a, "investment")
               \/ Change(a) > 0 /\ Enter(a, "divestment")

Close(a) == /\ Free(a)
            /\ At(a, "active", "closed") \/ (At(a, "frozen", "closed") /\ worth[a] = 0)
            /\ cash[a] >= 0 /\ worth[a] = cash[a]
            /\ cash'[a] = 0 /\ worth'[a] = 0
            /\ Enter(a, "payout")

\* a freeze comes at any time and ends by day; the money stays where it is
FreezeOrUnfreeze(a) ==
    /\ At(a, "active", "frozen") \/ (~night /\ At(a, "frozen", "active"))
    /\ UNCHANGED <<book, cash, worth, barred, night>>

\* clients are blocked and unblocked, nights come and go
Around == /\ barred' \subseteq Clients
          /\ night' \in BOOLEAN
          /\ UNCHANGED <<book, cash, worth, standing>>

OnAccount(a) == Open(a) \/ PayIn(a) \/ PayOut(a) \/ EarnInterest(a) \/ Shift(a) \/ Close(a)
                  \/ FreezeOrUnfreeze(a)

Next == (\E a \in Accounts : OnAccount(a)) \/ Around

Spec == Init /\ [][Next]_vars
=============================================================================
