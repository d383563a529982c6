--------------------------- MODULE MCRegistration ---------------------------
(* Fleets, providers and faults on which TLC checks Registration. *)
EXTENDS Registration

Machine(name, host) == [name |-> name, endpoint |-> host]

a == Machine("a", "h1")
b == Machine("b", "h2")

\* Later instances: c with an address of its own, d with the one of b.
c == Machine("c", "h3")
d == Machine("d", "h2")

MCNames == {"a", "b", "c", "d"}
MCHosts == {"h1", "h2", "h3"}

Two == {a, b}
TwoAndTwo == {a, b, c, d}

AllProviders == {"noop", "route53", "lb"}
AllFaults == {"aws", "restart", "stop", "terminate"}
=============================================================================
