------------------------------ MODULE CloudAPI ------------------------------
(***************************************************************************)
(* What the interface CloudAPI of src/bootstrap/bootstrap.go promises to   *)
(* the bootstrapper and to the members client: "GetInstances returns all   *)
(* the non-terminated instances that will be part of the etcd cluster."    *)
(*                                                                         *)
(* No provider can look at a fleet at one instant, so the promise is about *)
(* an interval: nothing that was there throughout is missing, and nothing  *)
(* is listed that was never there.  AWSLookup, InventoryLookup and         *)
(* SRVLookup implement this specification.                                 *)
(***************************************************************************)
VARIABLES
    present,  \* the instances that are part of the cluster now
    asking,   \* whether a lookup is in progress
    answer,   \* what the process remembers, {} for nothing
    steady,   \* present since the lookup began
    seen      \* present at some time since the lookup began

contractVars == <<present, asking, answer, steady, seen>>

Init ==
    /\ ~asking
    /\ answer = {}
    /\ steady = {}
    /\ seen = {}

Ask ==
    /\ ~asking
    /\ answer = {}
    /\ asking'
    /\ steady' = present
    /\ seen' = present
    /\ UNCHANGED <<present, answer>>

\* The answer is kept for the rest of the process.
Answer ==
    /\ asking
    /\ ~asking'
    /\ steady \subseteq answer'
    /\ answer' \subseteq seen
    /\ UNCHANGED <<present, steady, seen>>

\* An error: nothing is remembered.
GiveUp ==
    /\ asking
    /\ ~asking'
    /\ UNCHANGED <<present, answer, steady, seen>>

\* The process ends.
Forget ==
    /\ ~asking
    /\ ~asking'
    /\ answer' = {}
    /\ steady' = {}
    /\ seen' = {}
    /\ UNCHANGED present

\* Instances come and go at any time.
Change ==
    /\ steady' = steady \ (present \ present')
    /\ seen' = seen \cup (present' \ present)
    /\ UNCHANGED <<asking, answer>>

Next == Ask \/ Answer \/ GiveUp \/ Forget \/ Change

Spec == Init /\ [][Next]_contractVars
=============================================================================
