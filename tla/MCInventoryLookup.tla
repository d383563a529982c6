------------------------- MODULE MCInventoryLookup -------------------------
(* Machines in two zones on which TLC checks InventoryLookup. *)
EXTENDS InventoryLookup

MCMachines == {"m1", "m2", "m3", "m4"}
MCZones == {"z1", "z2"}
MCZone == [m \in MCMachines |-> IF m \in {"m1", "m2"} THEN "z1" ELSE "z2"]
=============================================================================
