--------------------------- MODULE FormationProofs ---------------------------
(***************************************************************************)
(* When no second cluster can form: createEtcdConfigForNewCluster takes    *)
(* whatever instances it is shown for the initial cluster, but two initial *)
(* clusters that both hold the first machines and differ by a machine that *)
(* came later have no majorities apart, as long as the fleet grows by one  *)
(* machine only.                                                           *)
(***************************************************************************)
EXTENDS FlagsProofs

\* While the cluster forms the fleet grows by one machine at most ...
OneComes ==
    /\ IsFiniteSet(Instances)
    /\ Cardinality(Instances) <= Cardinality(Initial) + 1

\* ... and the inventory misses none: no machine is replaced, and one that is
\* switched off is still listed.
NoneMissing ==
    /\ "terminate" \notin Faults
    /\ ListsStopped \/ "stop" \notin Faults

-----------------------------------------------------------------------------
(* The invariant *)

\* The first machines are in every list, so in every new-cluster file, in every
\* initial cluster that a data directory is created for and in the one that has
\* formed, and a majority of that one has its data directories.
FormationInv ==
    /\ Initial \subseteq Inventory
    /\ \A n \in Instances :
         /\ cache[n] # {} => Initial \subseteq cache[n]
         /\ file[n].state = "new" => Initial \subseteq file[n].initial
         /\ seed[n] # {} => Initial \subseteq seed[n]
    /\ founding # {} =>
         /\ Initial \subseteq founding
         /\ 2 * Cardinality(SeededWith(founding)) > Cardinality(founding)

\* Fewer than all the instances are still finitely many.
LEMMA Finite ==
    ASSUME OneComes, NEW fleet \in SUBSET Instances
    PROVE  /\ IsFiniteSet(fleet)
           /\ Cardinality(fleet) \in Nat
           /\ Cardinality(fleet) <= Cardinality(Instances)
BY FS_Subset, FS_CardinalityType DEF OneComes

LEMMA FormationInit == OneComes /\ Init => FormationInv
<1>. SUFFICES ASSUME OneComes, Init PROVE FormationInv
  OBVIOUS
<1>. USE DEF Init
<1>1. Initial \subseteq Inventory
  BY DEF FleetInit, Inventory
<1>2. ASSUME NEW n \in Instances
      PROVE  /\ cache[n] = {}
             /\ file[n].state = "new" => file[n].initial = Initial
             /\ seed[n] # {} => seed[n] = Initial
  BY DEF APIInit, NoFlags, EtcdInit
<1>3. CASE Formed
  <2>1. founding = Initial
    BY <1>3 DEF EtcdInit
  <2>2. SeededWith(founding) = Initial
    BY <1>3, <2>1, FleetAssumption DEF EtcdInit, SeededWith
  <2>3. Cardinality(Initial) \in Nat /\ Cardinality(Initial) # 0
    BY Finite, FS_EmptySet, FleetAssumption
  <2>. QED
    BY <1>1, <1>2, <2>1, <2>2, <2>3 DEF FormationInv
<1>4. CASE ~Formed
  BY <1>1, <1>2, <1>4 DEF EtcdInit, FormationInv
<1>. QED
  BY <1>3, <1>4

-----------------------------------------------------------------------------
(* How a step changes what the invariant is about *)

\* The inventory misses no machine that it has listed.
LEMMA InventoryGrows ==
    ASSUME NoneMissing, TypeOK, [Next]_vars
    PROVE  Inventory \subseteq Inventory'
<1>. USE DEF Inventory
<1>1. ASSUME NEW n \in Instances,
             Step(n) \/ EtcdStep(n) \/ Fails(n) \/ Crash(n) \/ RestartEtcd(n)
      PROVE  UNCHANGED fleetVars
  BY <1>1
     DEF Step, Start, ClusterExists, NodeExists, NewConfig, ListOldMembers,
         FindMember, RemoveMember, ListBeforeAdd, AddMember, ExistingConfig, Register,
         EtcdStep, StartEtcd, FormCluster, Fails, Crash, RestartEtcd
<1>2. ASSUME NEW n \in Instances, FleetLaunch(n) \/ FleetReturn(n)
      PROVE  Inventory \subseteq Inventory'
  BY <1>2 DEF FleetLaunch, FleetReturn
<1>3. ASSUME NEW n \in Instances, PowerOff(n) PROVE Inventory \subseteq Inventory'
  BY <1>3 DEF PowerOff, FleetStop, Fault, NoneMissing
<1>4. \A n \in Instances : ~Terminate(n)
  BY DEF Terminate, Fault, NoneMissing
<1>5. ApplyLate \/ UNCHANGED vars => UNCHANGED fleetVars
  BY DEF ApplyLate, vars, fleetVars
<1>6. UNCHANGED fleetVars => Inventory \subseteq Inventory'
  BY FleetFrame
<1>. QED
  BY <1>1, <1>2, <1>3, <1>4, <1>5, <1>6 DEF Next, Disturb, Launch, PowerOn

\* A data directory is created once, from the file, and stays.
LEMMA SeedStays ==
    ASSUME NoneMissing, TypeOK, [Next]_vars, NEW i \in Instances
    PROVE  \/ seed'[i] = seed[i]
           \/ seed[i] = {} /\ file[i].state = "new" /\ seed'[i] = file[i].initial
<1>. USE DEF etcdVars
<1>t. seed \in [Instances -> SUBSET Instances]
  BY DEF TypeOK, EtcdTypeOK
<1>1. ASSUME NEW n \in Instances, Step(n) PROVE UNCHANGED seed
  BY <1>1
     DEF Step, Start, ClusterExists, NodeExists, NewConfig, ListOldMembers, FindMember,
         RemoveMember, RemoveApplied, RemoveFailed, Remove, ListBeforeAdd, AddMember,
         AddApplied, AddFailed, Add, ExistingConfig, Register
<1>2. ASSUME NEW n \in Instances, EtcdStep(n) PROVE Seed(n, file[n]) \/ UNCHANGED seed
  BY <1>2 DEF EtcdStep, StartEtcd, StartFounder, Join, Serve, FormCluster, Form
<1>3. ASSUME NEW n \in Instances, Seed(n, file[n])
      PROVE  \/ seed'[i] = seed[i]
             \/ seed[i] = {} /\ file[i].state = "new" /\ seed'[i] = file[i].initial
  BY <1>t, <1>3 DEF Seed, Fresh
<1>4. ASSUME NEW n \in Instances, Disturb(n) \/ Launch(n) PROVE UNCHANGED seed
  <2>1. ~Terminate(n)
    BY DEF Terminate, Fault, NoneMissing
  <2>. QED
    BY <1>4, <2>1 DEF Disturb, Launch, Fails, Crash, RestartEtcd, PowerOff, PowerOn
<1>5. ApplyLate \/ UNCHANGED vars => UNCHANGED seed
  BY DEF ApplyLate, LateAdd, Add, LateRemove, Remove, vars
<1>. QED
  BY <1>1, <1>2, <1>3, <1>4, <1>5 DEF Next

\* What a process remembers is a view of the inventory, and what it writes.
LEMMA ViewsFull ==
    ASSUME FormationInv, NEW n \in Instances
    PROVE  Initial \subseteq View(n)
BY DEF FormationInv, View

LEMMA CacheFull ==
    ASSUME TypeOK, FormationInv, [Next]_vars, NEW n \in Instances, cache'[n] # {}
    PROVE  Initial \subseteq cache'[n]
<1>. USE DEF apiVars
<1>1. cache' = cache \/ \E k \in Instances : GetInstances(k) \/ Stop(k)
  <2>1. ASSUME NEW k \in Instances, ListOK(k) \/ ListError(k)
        PROVE  cache' = cache \/ GetInstances(k)
    BY <2>1 DEF ListOK, ListError, CloudError
  <2>2. ASSUME NEW k \in Instances, NEW reply, Members(k, reply)
        PROVE  cache' = cache \/ GetInstances(k)
    BY <2>1, <2>2 DEF Members
  <2>3. ASSUME NEW k \in Instances, Step(k)
        PROVE  cache' = cache \/ GetInstances(k) \/ Stop(k)
    <3>1. CASE Start(k) \/ RemoveMember(k) \/ Register(k) \/ NewConfig(k) \/ AddMember(k)
      BY <3>1 DEF Start, RemoveMember, Register, NewConfig, AddMember
    <3>2. CASE \/ ClusterExists(k) \/ NodeExists(k) \/ ListOldMembers(k)
               \/ ListBeforeAdd(k) \/ ExistingConfig(k)
      BY <2>2, <3>2
         DEF ClusterExists, NodeExists, ListOldMembers, ListBeforeAdd, ExistingConfig
    <3>3. CASE FindMember(k)
      BY <2>1, <3>3 DEF FindMember, FindByName
    <3>. QED
      BY <2>3, <3>1, <3>2, <3>3 DEF Step
  <2>4. ASSUME NEW k \in Instances, EtcdStep(k) \/ Disturb(k) \/ Launch(k)
        PROVE  cache' = cache \/ Stop(k)
    BY <2>4
       DEF EtcdStep, StartEtcd, FormCluster, Disturb, Fails, Crash, RestartEtcd,
           Terminate, PowerOff, PowerOn, Launch
  <2>5. ApplyLate \/ UNCHANGED vars => cache' = cache
    BY DEF ApplyLate, vars
  <2>. QED
    BY <2>3, <2>4, <2>5 DEF Next
<1>2. ASSUME NEW k \in Instances, GetInstances(k) PROVE cache'[n] \in {cache[n], View(n)}
  BY <1>2 DEF GetInstances, TypeOK, APITypeOK
<1>3. ASSUME NEW k \in Instances, Stop(k) PROVE cache'[n] \in {cache[n], {}}
  BY <1>3 DEF Stop, TypeOK, APITypeOK
<1>. QED
  BY <1>1, <1>2, <1>3, ViewsFull DEF FormationInv

LEMMA FileFull ==
    ASSUME TypeOK, FormationInv, [Next]_vars, NEW n \in Instances, file'[n].state = "new"
    PROVE  Initial \subseteq file'[n].initial
<1>t. file \in [Instances -> Flags]
  BY DEF TypeOK
<1>1. ASSUME NEW k \in Instances, NewConfig(k) PROVE Initial \subseteq file'[n].initial
  <2>1. InitialCluster(k, {PeerURL(i.endpoint) : i \in View(k)}) = View(k)
    BY DEF InitialCluster
  <2>2. file' = [file EXCEPT ![k] = [state |-> "new", initial |-> View(k)]]
    BY <1>1, <2>1 DEF NewConfig
  <2>. QED
    BY <1>t, <2>2, ViewsFull DEF FormationInv
<1>2. ASSUME NEW k \in Instances, ExistingConfig(k) \/ Terminate(k)
      PROVE  file'[n] = file[n] \/ file'[n].state # "new"
  BY <1>t, <1>2 DEF ExistingConfig, Terminate, NoFlags
<1>3. ASSUME NEW k \in Instances, Step(k), ~NewConfig(k), ~ExistingConfig(k)
      PROVE  UNCHANGED file
  BY <1>3 DEF Step, Start, ClusterExists, NodeExists, ListOldMembers, FindMember,
              RemoveMember, ListBeforeAdd, AddMember, Register
<1>4. ASSUME NEW k \in Instances, EtcdStep(k) \/ Disturb(k) \/ Launch(k), ~Terminate(k)
      PROVE  UNCHANGED file
  BY <1>4 DEF EtcdStep, StartEtcd, FormCluster, Disturb, Fails, Crash,
              RestartEtcd, PowerOff, PowerOn, Launch
<1>5. ApplyLate \/ UNCHANGED vars => UNCHANGED file
  BY DEF ApplyLate, vars
<1>. QED
  BY <1>1, <1>2, <1>3, <1>4, <1>5 DEF Next, FormationInv

\* Whoever is seeded with c stays so.
LEMMA SeededGrows ==
    ASSUME NoneMissing, TypeOK, [Next]_vars, NEW c, c # {}
    PROVE  /\ SeededWith(c) \subseteq SeededWith(c)'
           /\ SeededWith(c)' \subseteq Instances
BY SeedStays DEF SeededWith

\* The cluster forms with the initial cluster of a data directory, and a majority of
\* it has such directories then.
LEMMA FoundingFull ==
    ASSUME OneComes, NoneMissing, TypeOK, FormationInv, [Next]_vars, founding' # {}
    PROVE  /\ Initial \subseteq founding'
           /\ 2 * Cardinality(SeededWith(founding)') > Cardinality(founding')
<1>. USE DEF etcdVars
<1>1. ASSUME NEW n \in Instances, FormCluster(n)
      PROVE  /\ Initial \subseteq founding'
             /\ 2 * Cardinality(SeededWith(founding)') > Cardinality(founding')
  <2>. DEFINE together == Waiting(seed[n])
  <2>1. Form(seed[n], together)
    BY <1>1 DEF FormCluster
  <2>2. founding' = seed[n] /\ seed[n] \subseteq Instances /\ seed' = seed
    BY <2>1 DEF Form, TypeOK, EtcdTypeOK
  <2>3. together \subseteq Instances /\ together \subseteq SeededWith(founding)'
    BY <2>2 DEF SeededWith, Waiting, TypeOK, FleetTypeOK
  <2>4. SeededWith(founding)' \subseteq Instances
    BY DEF SeededWith
  <2>. HIDE DEF together
  <2>5. /\ Cardinality(together) \in Nat /\ Cardinality(SeededWith(founding)') \in Nat
        /\ Cardinality(founding') \in Nat
        /\ Cardinality(together) <= Cardinality(SeededWith(founding)')
    BY <2>2, <2>3, <2>4, Finite, FS_Subset
  <2>6. 2 * Cardinality(together) > Cardinality(founding')
    BY <2>1, <2>2 DEF Form
  <2>7. Initial \subseteq founding'
    BY <2>2 DEF FormationInv
  <2>. QED
    BY <2>5, <2>6, <2>7
<1>2. CASE founding' = founding
  <2>. DEFINE before == SeededWith(founding)
              after  == SeededWith(founding)'
  <2>1. before \subseteq after /\ after \subseteq Instances /\ founding \subseteq Instances
    BY <1>2, SeededGrows DEF SeededWith, TypeOK, EtcdTypeOK
  <2>2. 2 * Cardinality(before) > Cardinality(founding) /\ Initial \subseteq founding'
    BY <1>2 DEF FormationInv
  <2>. HIDE DEF before, after
  <2>3. /\ Cardinality(before) \in Nat /\ Cardinality(after) \in Nat
        /\ Cardinality(founding) \in Nat
        /\ Cardinality(before) <= Cardinality(after)
    BY <2>1, Finite, FS_Subset
  <2>4. 2 * Cardinality(after) > Cardinality(founding')
    BY <1>2, <2>2, <2>3
  <2>. QED
    BY <2>2, <2>4 DEF after
<1>3. ASSUME NEW n \in Instances, Step(n) PROVE founding' = founding
  BY <1>3
     DEF Step, Start, ClusterExists, NodeExists, NewConfig, ListOldMembers, FindMember,
         RemoveMember, RemoveApplied, RemoveFailed, Remove, ListBeforeAdd, AddMember,
         AddApplied, AddFailed, Add, ExistingConfig, Register
<1>4. ASSUME NEW n \in Instances, StartEtcd(n) \/ Disturb(n) \/ Launch(n)
      PROVE  founding' = founding
  BY <1>4
     DEF StartEtcd, Seed, StartFounder, Join, Serve, Disturb, Launch, Fails, Crash,
         RestartEtcd, Terminate, PowerOff, PowerOn
<1>5. CASE ApplyLate
  BY <1>2, <1>5 DEF ApplyLate, LateAdd, Add, LateRemove, Remove
<1>6. CASE UNCHANGED vars
  BY <1>2, <1>6 DEF vars
<1>. QED
  BY <1>1, <1>2, <1>3, <1>4, <1>5, <1>6 DEF Next, EtcdStep

LEMMA FormationStep ==
    OneComes /\ NoneMissing /\ TypeOK /\ FormationInv /\ [Next]_vars => FormationInv'
<1>. SUFFICES ASSUME OneComes, NoneMissing, TypeOK, FormationInv, [Next]_vars
              PROVE  FormationInv'
  OBVIOUS
<1>1. (Initial \subseteq Inventory)'
  BY InventoryGrows DEF FormationInv
<1>2. ASSUME NEW n \in Instances
      PROVE  /\ (cache[n] # {} => Initial \subseteq cache[n])'
             /\ (file[n].state = "new" => Initial \subseteq file[n].initial)'
             /\ (seed[n] # {} => Initial \subseteq seed[n])'
  BY CacheFull, FileFull, SeedStays DEF FormationInv
<1>. QED
  BY <1>1, <1>2, FoundingFull DEF FormationInv

-----------------------------------------------------------------------------
(* The counting argument *)

\* Two parts of a finite set that are together larger than it meet.
LEMMA PartsMeet ==
    ASSUME NEW all, IsFiniteSet(all), NEW q \in SUBSET all, NEW r \in SUBSET all,
           Cardinality(q) + Cardinality(r) > Cardinality(all)
    PROVE  q \cap r # {}
<1>1. IsFiniteSet(q) /\ IsFiniteSet(r)
  BY FS_Subset
<1>2. /\ Cardinality(q) \in Nat /\ Cardinality(r) \in Nat /\ Cardinality(all) \in Nat
      /\ Cardinality(q \cup r) = Cardinality(q) + Cardinality(r) - Cardinality(q \cap r)
  BY <1>1, FS_Union, FS_CardinalityType
<1>3. Cardinality(q \cup r) <= Cardinality(all)
  BY FS_Subset
<1>4. q \cap r = {} => Cardinality(q \cap r) = 0
  BY FS_EmptySet
<1>. QED
  BY <1>2, <1>3, <1>4

\* Two different fleets that hold the first machines are one machine apart, so that
\* two majorities of theirs meet.
LEMMA MajoritiesMeet ==
    ASSUME OneComes,
           NEW one \in SUBSET Instances, NEW other \in SUBSET Instances, one # other,
           Initial \subseteq one, Initial \subseteq other,
           NEW some \in SUBSET Instances, NEW more \in SUBSET Instances,
           2 * Cardinality(some) > Cardinality(one),
           2 * Cardinality(more) > Cardinality(other)
    PROVE  some \cap more # {}
<1>. DEFINE k == Cardinality(Initial)
            all == Cardinality(Instances)
<1>1. k \in Nat /\ all \in Nat /\ all <= k + 1
  BY Finite, FleetAssumption DEF OneComes
<1>2. ASSUME NEW fleet \in SUBSET Instances, Initial \subseteq fleet
      PROVE  /\ Cardinality(fleet) \in Nat
             /\ k <= Cardinality(fleet)
             /\ k = Cardinality(fleet) => fleet = Initial
  BY <1>2, Finite, FS_Subset
<1>3. Cardinality(one) + Cardinality(other) > 2 * k
  BY <1>1, <1>2
<1>4. Cardinality(some) \in Nat /\ Cardinality(more) \in Nat
  BY Finite
<1>5. Cardinality(some) + Cardinality(more) > all
  <2>. HIDE DEF k, all
  <2>. QED
    BY <1>1, <1>2, <1>3, <1>4
<1>. HIDE DEF all
<1>. QED
  BY <1>5, PartsMeet DEF OneComes, all

\* No majority of another initial cluster creates its data directories beside the
\* cluster that has formed, if the fleet grows by one machine at most and loses none
\* while the cluster forms: whatever each machine has seen of it, however often
\* processes fail, lists are lost and machines are switched off.
THEOREM SecondClusterExcluded ==
    ASSUME OneComes, NoneMissing
    PROVE  Spec => []NoSecondCluster
<1>1. Init => TypeOK /\ FormationInv
  BY TypeInit, FormationInit
<1>2. TypeOK /\ FormationInv /\ [Next]_vars => (TypeOK /\ FormationInv)'
  BY TypeStep, FormationStep
<1>3. TypeOK /\ FormationInv => NoSecondCluster
  <2>. SUFFICES ASSUME TypeOK, FormationInv, founding # {}, NEW n \in Instances,
                       seed[n] \notin {{}, founding}
                PROVE  2 * Cardinality(SeededWith(seed[n])) <= Cardinality(seed[n])
    BY DEF NoSecondCluster
  <2>. DEFINE some == SeededWith(founding)
              more == SeededWith(seed[n])
              other == seed[n]
  <2>1. /\ founding \subseteq Instances /\ other \subseteq Instances
        /\ some \subseteq Instances /\ more \subseteq Instances
    BY DEF TypeOK, EtcdTypeOK, SeededWith
  <2>2. some \cap more = {}
    BY DEF SeededWith
  <2>3. /\ Initial \subseteq founding /\ Initial \subseteq other /\ founding # other
        /\ 2 * Cardinality(some) > Cardinality(founding)
    BY DEF FormationInv
  <2>. HIDE DEF some, more, other
  <2>4. Cardinality(more) \in Nat /\ Cardinality(other) \in Nat
    BY <2>1, Finite
  <2>5. ~(2 * Cardinality(more) > Cardinality(other))
    BY <2>1, <2>2, <2>3, MajoritiesMeet
  <2>. QED
    BY <2>4, <2>5 DEF more, other
<1>. QED
  BY <1>1, <1>2, <1>3, PTL DEF Spec
=============================================================================
