-------------------------- MODULE InventoryLookup --------------------------
(***************************************************************************)
(* The providers of src/cloud/gcp/gcp.go and src/cloud/vmware/vmware.go on *)
(* one machine.  Both read the inventory in their constructor, before      *)
(* anything else, and answer from memory afterwards.  GCP lists zone by    *)
(* zone and asks the metadata server for the local machine; vSphere lists  *)
(* in one request and looks for the local machine in the list, by name.    *)
(***************************************************************************)
EXTENDS Naturals

CONSTANTS
    Machines,   \* machines that may carry the labels or tags of the cluster
    Local,      \* the machine the process runs on
    Zones,      \* the zones of the GCP project
    Zone,       \* the zone of every machine
    MaxErrors   \* bound: how many requests fail

ASSUME InventoryAssumption ==
    /\ Local \in Machines
    /\ Zone \in [Machines -> Zones]
    /\ MaxErrors \in Nat

VARIABLES
    platform,  \* "gcp" or "vsphere"
    within,    \* machines whose name is a substring of --vm-name
    on,        \* machines that run with the labels or tags
    pc,        \* the next request of the constructor
    left,      \* zones the loop of findAllInstances has left
    found,     \* machines found so far
    memo,      \* Members.instances, {} before the constructor has returned
    local,     \* Members.instance
    errors,    \* how many requests have failed
    steady,    \* history: on since the constructor was called
    seen       \* history: on at some time since then

config == <<platform, within>>
memory == <<left, found, memo, local>>

vars == <<platform, within, on, pc, left, found, memo, local, errors, steady, seen>>

Requests == {"zones", "list", "this", "view", "find"}

TypeOK ==
    /\ platform \in {"gcp", "vsphere"}
    /\ within \subseteq Machines
    /\ on \subseteq Machines
    /\ pc \in Requests \cup {"idle", "ready"}
    /\ left \subseteq Zones
    /\ found \subseteq Machines
    /\ memo \subseteq Machines
    /\ local \subseteq Machines
    /\ errors \in 0 .. MaxErrors
    /\ steady \subseteq on
    /\ seen \subseteq Machines

Init ==
    /\ platform \in {"gcp", "vsphere"}
    /\ within \in SUBSET Machines
    /\ on \in {ms \in SUBSET Machines : Local \in ms}
    /\ pc = "idle"
    /\ left = {}
    /\ found = {}
    /\ memo = {}
    /\ local = {}
    /\ errors = 0
    /\ steady = {}
    /\ seen = {}

-----------------------------------------------------------------------------
(* NewGCP and NewVMware *)

\* The command calls the constructor.
New ==
    /\ pc = "idle"
    /\ pc' = IF platform = "gcp" THEN "zones" ELSE "view"
    /\ steady' = on
    /\ seen' = on
    /\ UNCHANGED <<config, on, memory, errors>>

\* Zones.List.
ListZones ==
    /\ pc = "zones"
    /\ pc' = "list"
    /\ left' = Zones
    /\ UNCHANGED <<config, on, found, memo, local, errors, steady, seen>>

\* Mutant: the zones of the machines are listed.
ZonesOf(z) == {Zone[m] : m \in {k \in on : Zone[k] = z}}

\* The machines of one zone that run with the labels.
In(z) == {m \in on : Zone[m] = z}

\* Mutant: the first zone is the only one.
ListOneZone(z) ==
    /\ pc = "list"
    /\ z \in left
    /\ left' = {}
    /\ found' = In(z)
    /\ pc' = "this"
    /\ UNCHANGED <<config, on, memo, local, errors, steady, seen>>

\* Instances.List of one zone: the machines of the cluster that are not
\* TERMINATED, which is what GCP calls a stopped machine.
ListZone(z) ==
    /\ pc = "list"
    /\ z \in left
    /\ left' = left \ {z}
    /\ found' = found \cup In(z)
    /\ pc' = IF left' = {} THEN "this" ELSE "list"
    /\ UNCHANGED <<config, on, memo, local, errors, steady, seen>>

\* vSphere: one request for every machine; those that carry the tags and are
\* powered on are kept.
Retrieve ==
    /\ pc = "view"
    /\ found' = on
    /\ pc' = "find"
    /\ UNCHANGED <<config, on, left, memo, local, errors, steady, seen>>

\* The constructor returns the machines found, and m as the local one.
Return(m) ==
    /\ memo' = found
    /\ local' = {m}
    /\ pc' = "ready"
    /\ UNCHANGED <<config, on, left, found, errors, steady, seen>>

\* findThisInstance of gcp.go: the metadata server knows the machine.
AskMetadata == pc = "this" /\ Return(Local)

\* findThisInstance of vmware.go: the first machine of the list whose name is a
\* substring of --vm-name; the list is in the server's order, so any.
FindInList == pc = "find" /\ \E m \in found \cap within : Return(m)

\* The process forgets what it knows.
End ==
    /\ pc' = "idle"
    /\ left' = {}
    /\ found' = {}
    /\ memo' = {}
    /\ local' = {}

\* A request fails, a machine has no network interface yet, or no name fits: the
\* command exits (log.Fatalf), and is run again.
Fails ==
    /\ pc \in Requests
    /\ \/ pc = "find" /\ found \cap within = {} /\ UNCHANGED errors
       \/ errors < MaxErrors /\ errors' = errors + 1
    /\ End
    /\ UNCHANGED <<config, on, steady, seen>>

\* The process ends, in success or not, and another one starts.
Restart ==
    /\ pc = "ready"
    /\ End
    /\ steady' = {}
    /\ seen' = {}
    /\ UNCHANGED <<config, on, errors>>

-----------------------------------------------------------------------------
(* The inventory *)

SwitchOn(m) ==
    /\ m \notin on
    /\ on' = on \cup {m}
    /\ seen' = seen \cup {m}
    /\ UNCHANGED <<config, pc, memory, errors, steady>>

SwitchOff(m) ==
    /\ m \in on \ {Local}
    /\ on' = on \ {m}
    /\ steady' = steady \ {m}
    /\ UNCHANGED <<config, pc, memory, errors, seen>>

Lookup ==
    \/ New
    \/ ListZones
    \/ \E z \in Zones : ListZone(z)
    \/ AskMetadata
    \/ Retrieve
    \/ FindInList
    \/ Fails
    \/ Restart

Next == Lookup \/ \E m \in Machines : SwitchOn(m) \/ SwitchOff(m)

Spec == Init /\ [][Next]_vars

-----------------------------------------------------------------------------
(* Properties *)

\* The local machine is in the list the process works with, although list and
\* local machine come from different requests on GCP: the flags file can name it
\* (initialClusterFlagValue takes the cluster from the list).
LocalIsListed == local \subseteq memo

\* One request or one per zone, one answer for the rest of the process: both
\* constructors are one lookup of the interface CloudAPI.
Contract == INSTANCE CloudAPI WITH
    present <- on, asking <- pc \in Requests, answer <- memo

ImplementsContract == Contract!Spec

-----------------------------------------------------------------------------
(* What the documentation says *)

\* README.md, --vm-name: "node name in vSphere of this VM", and GetLocalInstance
\* gets "the vmware instance etcd bootstrap is running on": given its own name, the
\* process takes itself for the machine it runs on.
LocalIsThisMachine == Local \in within => local \subseteq {Local}
=============================================================================
