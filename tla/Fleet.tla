------------------------------- MODULE Fleet -------------------------------
(***************************************************************************)
(* The environment of etcd-bootstrap: the instances of the cloud provider  *)
(* and the budget of faults the model may inject.                          *)
(*                                                                         *)
(* The repository keeps no inventory of its own; every provider under      *)
(* src/cloud asks an external service which instances run (AWS, GCP,       *)
(* vSphere, DNS).  This module is that service, as the code uses it: a set *)
(* of live instances that changes while the program runs.                  *)
(***************************************************************************)
EXTENDS Naturals, FiniteSets

CONSTANTS
    Names,      \* instance names
    Hosts,      \* instance endpoints (private DNS names or addresses)
    Instances,  \* every instance that ever runs, records [name, endpoint]
    Initial,    \* the instances that run at the start
    Capacity,   \* the size the scaling group is kept at
    ListsStopped,  \* whether the provider lists stopped machines: AWS does, GCP
                   \* and vSphere do not
    Faults,     \* the kinds of faults that may happen
    MaxFaults   \* bound: how many faults happen in one behaviour

\* Name and Endpoint of an instance (cloud.Instance).
Instance == [name : Names, endpoint : Hosts]

\* A member without a name is one that has not started yet (etcd.Member.Name).
Blank == ""

\* Two instances that could not run side by side: "unique name" (cloud.go) and
\* one address per machine.
Clash(i, j) == i.name = j.name \/ i.endpoint = j.endpoint

ASSUME FleetAssumption ==
    /\ Blank \notin Names
    /\ Instances \subseteq Instance
    /\ Initial \subseteq Instances
    /\ Initial # {}
    /\ \A i, j \in Initial : i # j => ~Clash(i, j)
    /\ Capacity \in Nat
    /\ ListsStopped \in BOOLEAN
    /\ MaxFaults \in Nat

VARIABLES
    live,      \* the instances that run now
    halted,    \* stopped machines, which may return with their disk
    launched,  \* the instances that have ever run
    away,      \* history: instances that have been missing from the inventory
    faults     \* how many faults have happened

fleetVars == <<live, halted, launched, away>>

FleetTypeOK ==
    /\ live \subseteq launched
    /\ halted \subseteq launched \ live
    /\ away \subseteq launched
    /\ launched \subseteq Instances
    /\ faults \in 0 .. MaxFaults

FleetInit ==
    /\ live = Initial
    /\ halted = {}
    /\ launched = Initial
    /\ away = {}
    /\ faults = 0

\* A fault of the given kind happens, within the budget.
Fault(kind) ==
    /\ kind \in Faults
    /\ faults < MaxFaults
    /\ faults' = faults + 1

\* The instances the provider lists ("non-terminated", CloudAPI in bootstrap.go).
Inventory == live \cup (IF ListsStopped THEN halted ELSE {})

\* The first instances, while the inventory has never missed them.
Lasting == (Initial \cap Inventory) \ away

\* The scaling group starts a machine.  A machine that has gone never returns,
\* its name or its address may; a stopped one keeps both.
FleetLaunch(i) ==
    /\ i \notin launched
    /\ Cardinality(live) < Capacity
    /\ \A j \in live \cup halted : ~Clash(i, j)
    /\ live' = live \cup {i}
    /\ launched' = launched \cup {i}
    /\ UNCHANGED <<halted, away>>

\* A machine goes, with its disk.
FleetTerminate(i) ==
    /\ i \in live \cup halted
    /\ live' = live \ {i}
    /\ halted' = halted \ {i}
    /\ UNCHANGED <<launched, away>>

\* A machine is switched off: its disk and its address remain.
FleetStop(i) ==
    /\ i \in live
    /\ live' = live \ {i}
    /\ halted' = halted \cup {i}
    /\ away' = IF ListsStopped THEN away ELSE away \cup {i}
    /\ UNCHANGED launched

\* It is switched on again.
FleetReturn(i) ==
    /\ i \in halted
    /\ live' = live \cup {i}
    /\ halted' = halted \ {i}
    /\ UNCHANGED <<launched, away>>

NamesOf(fleet) == {i.name : i \in fleet}
=============================================================================
