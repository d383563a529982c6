----------------------------- MODULE Membership -----------------------------
(***************************************************************************)
(* What any number of etcd-bootstrap processes together may do to the      *)
(* member list of a cluster: "remove old instances" and "add the new one"  *)
(* (docs of src/bootstrap/reconcile.go) one member at a time, never twice  *)
(* for one address, and never at the expense of the settled members.       *)
(* Bootstrap implements this specification.                                *)
(***************************************************************************)
CONSTANT Nameless  \* the name of a member that has not started

VARIABLES
    members,  \* the member list, records with a name and a peerURL
    settled   \* the members whose machines have been there all along

membershipVars == <<members, settled>>

\* One entry per address.
Distinct(ms) == \A m1, m2 \in ms : m1.peerURL = m2.peerURL => m1 = m2

Init ==
    /\ Distinct(members)
    /\ settled \subseteq members

\* The first members, all at once.
Form ==
    /\ members = {}
    /\ Distinct(members')
    /\ UNCHANGED settled

\* One member is added, by its URL.
Admit ==
    /\ \E m \in members' \ members :
         /\ m.name = Nameless
         /\ members' = members \cup {m}
         /\ Distinct(members')
    /\ UNCHANGED settled

\* A member starts and tells its name.
Name ==
    /\ \E m \in members \ settled : \E named \in members' :
         /\ named = [m EXCEPT !.name = named.name]
         /\ members' = (members \ {m}) \cup {named}
    /\ UNCHANGED settled

\* One member is removed.
Expel ==
    /\ \E m \in members \ settled : members' = members \ {m}
    /\ UNCHANGED settled

\* A machine goes: its member may be removed from now on.
Release ==
    /\ settled' \subseteq settled
    /\ UNCHANGED members

Next == Form \/ Admit \/ Name \/ Expel \/ Release

Spec == Init /\ [][Next]_membershipVars
=============================================================================
