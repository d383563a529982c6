---------------------------- MODULE MCBootstrap ----------------------------
(* Fleets and fault sets on which TLC checks Bootstrap. *)
EXTENDS Bootstrap

Machine(name, host) == [name |-> name, endpoint |-> host]

a == Machine("a", "h1")
b == Machine("b", "h2")
c == Machine("c", "h3")

\* Replacements.  d and f bring addresses of their own, e gets the one of c.
d == Machine("d", "h4")
e == Machine("e", "h3")
f == Machine("f", "h5")

MCNames == {"a", "b", "c", "d", "e", "f"}
MCHosts == {"h1", "h2", "h3", "h4", "h5"}

\* The instances at the start, and with those that come later.
One == {a}
Two == {a, b}
Three == {a, b, c}
OneAndTwo == {a, c, d}
ThreeAndOne == {a, b, c, d}
ThreeAndReuse == {a, b, c, e}
ThreeAndTwo == {a, b, c, d, f}

NoFaults == {}
FormationFaults == {"list", "cloud", "members", "register", "crash", "restart"}
AllFaults == {"list", "cloud", "members", "remove", "add", "late", "register",
              "crash", "restart", "stop", "terminate"}
=============================================================================
