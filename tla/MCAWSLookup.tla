---------------------------- MODULE MCAWSLookup ----------------------------
(* Groups on which TLC checks AWSLookup. *)
EXTENDS AWSLookup

MCMachines == {"m1", "m2", "m3", "m4"}
MCForeign == {"x"}
=============================================================================
