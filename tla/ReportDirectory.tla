--------------------------- MODULE ReportDirectory ---------------------------
(***************************************************************************)
(* What the report builder promises of its output directory, without       *)
(* saying how: a call puts all files of its report there at once, whole    *)
(* and under one name nobody uses; or it breaks off and may leave a part   *)
(* of them under one such name.  What is in the directory stays as it is.  *)
(* A file is <<name, part>>.                                               *)
(***************************************************************************)

CONSTANTS Calls, Names,
          PartsOf        \* call -> the set of the parts of its report

VARIABLES files,         \* file -> the call it is of, and whether it is whole
          outcome        \* of each call: "open", "returned" or "broken"

vars == <<files, outcome>>

Init == /\ files = [f \in {} |-> {}]
        /\ outcome = [c \in Calls |-> "open"]

\* the files left of call c: `left` of them, those in `whole` complete
Leave(c, left, whole) ==
    /\ left \cap DOMAIN files = {}
    /\ files' = [f \in DOMAIN files \cup left |->
                   IF f \in left THEN [by |-> c, whole |-> f \in whole] ELSE files[f]]

Ends(c, how) == /\ outcome[c] = "open"
                /\ outcome' = [outcome EXCEPT ![c] = how]

Publish(c) == /\ Ends(c, "returned")
              /\ \E name \in Names : LET all == {name} \X PartsOf[c] IN Leave(c, all, all)

BreakOff(c) == /\ Ends(c, "broken")
               /\ \E name \in Names, parts \in SUBSET PartsOf[c], good \in SUBSET PartsOf[c] :
                     Leave(c, {name} \X parts, {name} \X good)

Next == \E c \in Calls : Publish(c) \/ BreakOff(c)

Spec == Init /\ [][Next]_vars
=============================================================================
