---------------------------- MODULE MCSRVLookup ----------------------------
(* Records on which TLC checks SRVLookup. *)
EXTENDS SRVLookup

MCTargets == {"t1", "t2", "t3"}
MCNames == {"", "a"}
=============================================================================
