----------------------- MODULE InventoryLookupProofs -----------------------
(***************************************************************************)
(* Theorems about InventoryLookup, for every set of machines and zones,    *)
(* every --vm-name and every bound.                                        *)
(***************************************************************************)
EXTENDS InventoryLookup, TLAPS

\* Which requests belong to which platform, and what is remembered at each.
PhaseInv ==
    /\ pc \in {"zones", "list", "this"} => platform = "gcp"
    /\ pc \in {"view", "find"} => platform = "vsphere"
    /\ pc # "ready" => memo = {} /\ local = {}
    /\ pc \in {"idle", "zones", "view"} => found = {}

\* Every machine that has been on throughout is found, or in a zone still to come,
\* and what is found has been on.
CoverInv ==
    /\ Local \in on
    /\ pc # "idle" => Local \in steady /\ on \subseteq seen /\ found \subseteq seen
    /\ pc = "list" => \A m \in steady : m \in found \/ Zone[m] \in left
    /\ pc \in {"this", "find"} => steady \subseteq found

IInv == TypeOK /\ PhaseInv /\ CoverInv /\ LocalIsListed

LEMMA InvInit == Init => IInv
<1>. SUFFICES ASSUME Init PROVE IInv
  OBVIOUS
<1>1. TypeOK
  BY InventoryAssumption DEF Init, TypeOK
<1>. QED
  BY <1>1 DEF Init, IInv, PhaseInv, CoverInv, LocalIsListed

LEMMA TypeStep == TypeOK /\ [Next]_vars => TypeOK'
<1>. SUFFICES ASSUME TypeOK, [Next]_vars PROVE TypeOK'
  OBVIOUS
<1>. USE InventoryAssumption DEF TypeOK, Requests, config, memory
<1>1. CASE New \/ ListZones \/ Retrieve \/ Restart
  BY <1>1 DEF New, ListZones, Retrieve, Restart, End
<1>2. ASSUME NEW z \in Zones, ListZone(z) PROVE TypeOK'
  BY <1>2 DEF ListZone, In
<1>3. CASE AskMetadata \/ FindInList
  BY <1>3 DEF AskMetadata, FindInList, Return
<1>4. CASE Fails
  <2>1. errors' \in 0 .. MaxErrors
    BY <1>4 DEF Fails
  <2>. QED
    BY <1>4, <2>1 DEF Fails, End
<1>5. ASSUME NEW m \in Machines, SwitchOn(m) \/ SwitchOff(m) PROVE TypeOK'
  BY <1>5 DEF SwitchOn, SwitchOff
<1>6. CASE UNCHANGED vars
  BY <1>6 DEF vars
<1>. QED
  BY <1>1, <1>2, <1>3, <1>4, <1>5, <1>6 DEF Next, Lookup

LEMMA InvStep == IInv /\ [Next]_vars => IInv'
<1>. SUFFICES ASSUME IInv, [Next]_vars PROVE PhaseInv' /\ CoverInv' /\ LocalIsListed'
  BY TypeStep DEF IInv
<1>. USE InventoryAssumption
     DEF IInv, TypeOK, PhaseInv, CoverInv, LocalIsListed, Requests, config, memory
<1>1. CASE New \/ ListZones \/ Retrieve
  BY <1>1 DEF New, ListZones, Retrieve
<1>2. ASSUME NEW z \in Zones, ListZone(z)
      PROVE  PhaseInv' /\ CoverInv' /\ LocalIsListed'
  <2>1. PhaseInv' /\ LocalIsListed'
    BY <1>2 DEF ListZone
  <2>2. \A m \in steady : m \in found' \/ Zone[m] \in left'
    BY <1>2 DEF ListZone, In
  <2>3. found' \subseteq seen'
    BY <1>2 DEF ListZone, In
  <2>. QED
    BY <1>2, <2>1, <2>2, <2>3 DEF ListZone
<1>3. CASE AskMetadata \/ FindInList
  BY <1>3 DEF AskMetadata, FindInList, Return
<1>4. CASE Fails \/ Restart
  BY <1>4 DEF Fails, Restart, End
<1>5. ASSUME NEW m \in Machines, SwitchOn(m) \/ SwitchOff(m)
      PROVE  PhaseInv' /\ CoverInv' /\ LocalIsListed'
  BY <1>5 DEF SwitchOn, SwitchOff
<1>6. CASE UNCHANGED vars
  BY <1>6 DEF vars
<1>. QED
  BY <1>1, <1>2, <1>3, <1>4, <1>5, <1>6 DEF Next, Lookup

LEMMA Invariance == Spec => []IInv
BY InvInit, InvStep, PTL DEF Spec

\* Every state of every behaviour is well typed.
THEOREM TypeCorrect == Spec => []TypeOK
<1>1. IInv => TypeOK
  BY DEF IInv
<1>. QED
  BY <1>1, Invariance, PTL

\* On both platforms the local machine is in the list, however the fleet changes
\* between the requests.
THEOREM LocalListed == Spec => []LocalIsListed
<1>1. IInv => LocalIsListed
  BY DEF IInv
<1>. QED
  BY <1>1, Invariance, PTL

LEMMA ContractStep == IInv /\ [Next]_vars => [Contract!Next]_(Contract!contractVars)
<1>. SUFFICES ASSUME IInv, [Next]_vars
              PROVE  Contract!Next \/ UNCHANGED Contract!contractVars
  OBVIOUS
<1>. USE DEF IInv, TypeOK, PhaseInv, CoverInv, Requests, config, memory,
             Contract!contractVars, Contract!Next
<1>1. CASE New
  BY <1>1 DEF New, Contract!Ask
<1>2. CASE ListZones \/ Retrieve \/ \E z \in Zones : ListZone(z)
  BY <1>2 DEF ListZones, Retrieve, ListZone
<1>3. CASE AskMetadata \/ FindInList
  BY <1>3 DEF AskMetadata, FindInList, Return, Contract!Answer
<1>4. CASE Fails
  BY <1>4 DEF Fails, End, Contract!GiveUp
<1>5. CASE Restart
  BY <1>5 DEF Restart, End, Contract!Forget
<1>6. ASSUME NEW m \in Machines, SwitchOn(m) \/ SwitchOff(m) PROVE Contract!Change
  BY <1>6 DEF SwitchOn, SwitchOff, Contract!Change
<1>7. CASE UNCHANGED vars
  BY <1>7 DEF vars
<1>. QED
  BY <1>1, <1>2, <1>3, <1>4, <1>5, <1>6, <1>7 DEF Next, Lookup

\* Zone by zone or in one request, the constructor implements the interface: its
\* list covers the machines that were on throughout and holds none that never was.
THEOREM LookupImplementsContract == Spec => ImplementsContract
<1>1. Init => Contract!Init
  BY DEF Init, Contract!Init, Requests
<1>. QED
  BY <1>1, Invariance, ContractStep, PTL DEF Spec, ImplementsContract, Contract!Spec
=============================================================================
