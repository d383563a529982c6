----------------------------- MODULE FlagsProofs -----------------------------
(***************************************************************************)
(* Theorems about what a run of GenerateEtcdFlags knows at each of its     *)
(* calls, for every fleet, every set of faults and every bound:            *)
(*   RerunsHarmless     the rerun of a member adds and removes nothing;    *)
(*   NewConfigsEarned   a new-cluster file is for a member;                *)
(*   OwnEntries         an existing-cluster file is written by a process   *)
(*                      that has an entry of its own;                      *)
(*   LocalIncluded      the file names that instance;                      *)
(*   AddressesOwn       the entry with its URL is no other machine's.      *)
(* All but the first need that names or addresses are not given out twice; *)
(* each says which.                                                        *)
(***************************************************************************)
EXTENDS MembershipProofs

\* No two machines that ever run share a name, or an address.
NoNameReused == \A i, j \in Instances : i.name = j.name => i = j

NoAddressReused == \A i, j \in Instances : i.endpoint = j.endpoint => i = j

-----------------------------------------------------------------------------
(* The invariant *)

\* The calls after clusterExists has found members, and those after
\* nodeExistsInCluster has not found the local instance.
Joining == {"removeOld", "remove", "removeCall", "addLocal", "add", "existingConfig"}

Beside == Joining \cup {"nodeExists"}

\* A member carries no name or the name and the URL of one machine.
NamedByMachines ==
    \A m \in members : m.name # Blank =>
        \E i \in Instances : m.name = i.name /\ m.peerURL = PeerURL(i.endpoint)

Named(n) == n.name \in MemberNames(members)

\* The member list has an entry for n with its URL.
Entered(n) == \E m \in members : m.peerURL = PeerURL(n.endpoint) /\ Owns(n, m)

\* What the process of n knows: it runs on a machine that is listed; a cluster has
\* formed; n is not in it; n is in it; n has an entry; its file names n.
Knows(n) ==
    /\ pc[n] # "idle" => n \in live
    /\ cache[n] # {} => n \in cache[n]
    /\ pc[n] \in Beside => founding # {}
    /\ pc[n] \in Joining /\ ~swallowed[n] => ~Named(n)
    /\ (/\ NoNameReused \/ NoAddressReused
        /\ Formed
        /\ members # {}
        /\ pc[n] = "newConfig"
        /\ ~swallowed[n]
        /\ n \notin lost) => Named(n)
    /\ (/\ NoAddressReused
        /\ NoNameReused \/ ~swallowed[n]
        /\ pc[n] = "existingConfig"
        /\ n \notin lost) => Entered(n)
    /\ (/\ NoAddressReused
        /\ pc[n] \in {"register", "done"}
        /\ file[n].state = "existing"
        /\ ~swallowed[n]
        /\ n \notin lost) => n \in file[n].initial

KnowsInv ==
    /\ NamedByMachines
    /\ \A n \in Instances : Knows(n)

LEMMA KnowsInit == Init => KnowsInv
<1>. SUFFICES ASSUME Init PROVE KnowsInv
  OBVIOUS
<1>. USE DEF Init
<1>1. members \subseteq {Founder(i) : i \in Initial}
  BY DEF EtcdInit
<1>2. NamedByMachines
  BY <1>1, FleetAssumption DEF NamedByMachines, Founder
<1>3. ASSUME NEW n \in Instances PROVE Knows(n)
  <2>1. pc[n] \in {"done", "idle"} /\ (pc[n] = "done" => n \in live)
    BY DEF FleetInit
  <2>2. cache[n] = {} /\ file[n].state # "existing"
    BY DEF APIInit, NoFlags
  <2>. QED
    BY <2>1, <2>2 DEF Knows, Beside, Joining
<1>. QED
  BY <1>2, <1>3 DEF KnowsInv

-----------------------------------------------------------------------------
(* How the member list changes for one instance *)

\* The assumptions of the lemmas below.
ListsInv == TypeOK /\ ListInv /\ (Formed => FoundersInv)

\* A cluster that has formed stays formed.
LEMMA FormedOnce ==
    ASSUME ListsInv, [Next]_vars, founding # {}
    PROVE  /\ founding' = founding
           /\ \/ UNCHANGED members
              \/ \E n \in live : pc[n] = "done" /\ Starts(n)
              \/ \E url : members # {} /\ Add(url)
              \/ \E id : Remove(id)
<1>1. CASE UNCHANGED <<members, founding>>
  BY <1>1
<1>2. CASE Changes
  <2>1. \A k : Starts(k) => founding' = founding
    BY DEF Starts
  <2>2. \A url : Add(url) => founding' = founding
    BY DEF Add
  <2>3. \A id : Expels(id) => Remove(id) /\ founding' = founding
    BY DEF Expels, Remove
  <2>. QED
    BY <1>2, <2>1, <2>2, <2>3 DEF Changes, Forms
<1>. QED
  BY <1>1, <1>2, HowMembersChange DEF ListsInv

\* A name comes into the list only with the machine that has it.
LEMMA StaysUnnamed ==
    ASSUME ListsInv, [Next]_vars, NEW n \in Instances, n \in live,
           founding # {}, pc[n] # "done", ~Named(n)
    PROVE  ~Named(n)'
<1>. USE DEF Named, MemberNames
<1>1. CASE UNCHANGED members \/ \E id : Remove(id)
  BY <1>1 DEF Remove
<1>2. CASE \E url : Add(url)
  <2>1. n.name # Blank
    BY InstanceType, FleetAssumption
  <2>. QED
    BY <1>2, <2>1 DEF Add
<1>3. ASSUME NEW k \in live, pc[k] = "done", Starts(k) PROVE ~Named(n)'
  <2>1. PICK m \in members : members' = (members \ {m}) \cup {[m EXCEPT !.name = k.name]}
    BY <1>3 DEF Starts
  <2>2. k.name # n.name
    BY <1>3 DEF ListsInv, ListInv, Apart, Clash
  <2>3. [m EXCEPT !.name = k.name].name = k.name
    BY DEF ListsInv, TypeOK, EtcdTypeOK, Member
  <2>. QED
    BY <2>1, <2>2, <2>3
<1>. QED
  BY <1>1, <1>2, <1>3, FormedOnce

\* A member that has joined is listed under its name until it is removed.
LEMMA StaysNamed ==
    ASSUME ListsInv, [Next]_vars, NamedByMachines, NEW n \in Instances, n \in live,
           NoNameReused \/ NoAddressReused, founding # {}, Named(n), n \notin lost'
    PROVE  Named(n)'
<1>. USE DEF Named, MemberNames
<1>1. PICK m \in members : m.name = n.name
  OBVIOUS
<1>2. CASE UNCHANGED members \/ \E url : Add(url)
  BY <1>2 DEF Add
<1>3. ASSUME NEW id, Remove(id) PROVE Named(n)'
  <2>1. ID(m) # id
    BY <1>1, <1>3 DEF Remove, Owns
  <2>. QED
    BY <1>1, <1>3, <2>1 DEF Remove
<1>4. ASSUME NEW k \in live, Starts(k) PROVE Named(n)'
  <2>1. PICK x \in members :
           /\ x.peerURL = PeerURL(k.endpoint)
           /\ members' = (members \ {x}) \cup {[x EXCEPT !.name = k.name]}
    BY <1>4 DEF Starts
  <2>2. CASE x # m
    BY <1>1, <2>1, <2>2
  <2>3. CASE x = m
    <3>1. m.name # Blank
      BY <1>1, InstanceType, FleetAssumption
    <3>2. PICK i \in Instances : m.name = i.name /\ m.peerURL = PeerURL(i.endpoint)
      BY <3>1 DEF NamedByMachines
    <3>3. i.endpoint = k.endpoint /\ i.name = n.name
      BY <1>1, <2>1, <2>3, <3>2, URLOfHost
    <3>4. k \in Instances
      BY DEF ListsInv, TypeOK, FleetTypeOK
    <3>5. k.name = n.name
      BY <3>3, <3>4 DEF NoNameReused, NoAddressReused, ListsInv, ListInv, Apart, Clash
    <3>6. [x EXCEPT !.name = k.name].name = k.name
      BY DEF ListsInv, TypeOK, EtcdTypeOK, Member
    <3>. QED
      BY <2>1, <3>5, <3>6
  <2>. QED
    BY <2>2, <2>3
<1>. QED
  BY <1>2, <1>3, <1>4, FormedOnce

\* The entry of a running machine stays its own until it is removed.
LEMMA StaysEntered ==
    ASSUME ListsInv, [Next]_vars, NEW n \in Instances, n \in live,
           founding # {}, Entered(n), n \notin lost'
    PROVE  Entered(n)'
<1>. USE DEF Entered
<1>1. PICK m \in members : m.peerURL = PeerURL(n.endpoint) /\ Owns(n, m)
  OBVIOUS
<1>2. CASE UNCHANGED members \/ \E url : Add(url)
  BY <1>1, <1>2 DEF Add
<1>3. ASSUME NEW id, Remove(id) PROVE Entered(n)'
  <2>1. ID(m) # id
    BY <1>1, <1>3 DEF Remove
  <2>. QED
    BY <1>1, <1>3, <2>1 DEF Remove
<1>4. ASSUME NEW k \in live, Starts(k) PROVE Entered(n)'
  <2>1. PICK x \in members :
           /\ x.peerURL = PeerURL(k.endpoint)
           /\ members' = (members \ {x}) \cup {[x EXCEPT !.name = k.name]}
    BY <1>4 DEF Starts
  <2>2. CASE x # m
    BY <1>1, <2>1, <2>2
  <2>3. CASE x = m
    <3>1. k = n
      BY <1>1, <2>1, <2>3, URLOfHost DEF ListsInv, ListInv, Apart, Clash
    <3>2. /\ [x EXCEPT !.name = k.name].name = n.name
          /\ [x EXCEPT !.name = k.name].peerURL = x.peerURL
      BY <3>1 DEF ListsInv, TypeOK, EtcdTypeOK, Member
    <3>. QED
      BY <2>1, <3>1, <3>2 DEF Owns
  <2>. QED
    BY <2>2, <2>3
<1>. QED
  BY <1>2, <1>3, <1>4, FormedOnce

-----------------------------------------------------------------------------
(* How one process moves *)

\* The history of lost members only grows.
LEMMA LostGrows ==
    ASSUME [Next]_vars
    PROVE  lost \subseteq lost'
<1>. USE DEF etcdVars
<1>1. ASSUME NEW n \in Instances, Step(n) PROVE lost \subseteq lost'
  BY <1>1
     DEF Step, Start, ClusterExists, NodeExists, NewConfig, ListOldMembers, FindMember,
         RemoveMember, RemoveApplied, RemoveFailed, Remove, ListBeforeAdd, AddMember,
         AddApplied, AddFailed, Add, ExistingConfig, Register
<1>2. ASSUME NEW n \in Instances, EtcdStep(n) \/ Disturb(n) \/ Launch(n)
      PROVE  lost \subseteq lost'
  BY <1>2
     DEF EtcdStep, StartEtcd, Seed, StartFounder, Join, Serve, FormCluster, Form,
         Disturb, Fails, Crash, RestartEtcd, Terminate, PowerOff, PowerOn, Launch
<1>3. CASE ApplyLate
  BY <1>3 DEF ApplyLate, LateAdd, Add, LateRemove, Remove
<1>4. CASE UNCHANGED vars
  BY <1>4 DEF vars
<1>. QED
  BY <1>1, <1>2, <1>3, <1>4 DEF Next

\* A step that is not one of the process of n leaves it where it is, or ends it;
\* and only ends it if the machine goes.
LEMMA Elsewhere ==
    ASSUME TypeOK, [Next]_vars, NEW n \in Instances, ~Step(n)
    PROVE  \/ pc'[n] = "idle" /\ cache'[n] = {}
           \/ /\ pc'[n] = pc[n]
              /\ cache'[n] = cache[n]
              /\ swallowed'[n] = swallowed[n]
              /\ file'[n] = file[n]
              /\ n \in live => n \in live'
<1>. DEFINE Rests == /\ pc'[n] = pc[n]
                     /\ cache'[n] = cache[n]
                     /\ swallowed'[n] = swallowed[n]
                     /\ file'[n] = file[n]
                     /\ n \in live => n \in live'
            Ends == pc'[n] = "idle" /\ cache'[n] = {}
<1>. SUFFICES Ends \/ Rests
  OBVIOUS
<1>. USE DEF fleetVars, apiVars
<1>1. ASSUME NEW k \in Instances \ {n}, Step(k) PROVE Rests
  <2>1. pc'[n] = pc[n] /\ cache'[n] = cache[n] /\ swallowed'[n] = swallowed[n]
    <3>1. ASSUME NEW label, Goto(k, label) PROVE pc'[n] = pc[n]
      BY <3>1 DEF Goto, TypeOK
    <3>2. ASSUME GetInstances(k) \/ UNCHANGED cache PROVE cache'[n] = cache[n]
      BY <3>2 DEF GetInstances, TypeOK, APITypeOK
    <3>3. ASSUME ListOK(k) \/ ListError(k) PROVE cache'[n] = cache[n]
      BY <3>2, <3>3 DEF ListOK, ListError, CloudError
    <3>4. ASSUME NEW reply, Members(k, reply)
          PROVE  cache'[n] = cache[n] /\ swallowed'[n] = swallowed[n]
      BY <3>3, <3>4 DEF Members, TypeOK, APITypeOK
    <3>5. Stop(k) => pc'[n] = pc[n] /\ cache'[n] = cache[n] /\ swallowed'[n] = swallowed[n]
      BY <3>1 DEF Stop, TypeOK, APITypeOK
    <3>6. CASE Start(k) \/ RemoveMember(k) \/ Register(k)
      BY <3>1, <3>6 DEF Start, RemoveMember, Register, Loop
    <3>7. CASE ClusterExists(k) \/ NodeExists(k) \/ ListOldMembers(k) \/ ListBeforeAdd(k)
               \/ ExistingConfig(k)
      BY <3>1, <3>4, <3>7
         DEF ClusterExists, NodeExists, ListOldMembers, ListBeforeAdd, ExistingConfig
    <3>8. CASE NewConfig(k)
      BY <3>1, <3>2, <3>8 DEF NewConfig
    <3>9. CASE FindMember(k)
      BY <3>1, <3>3, <3>9 DEF FindMember, FindByName, Loop
    <3>10. CASE AddMember(k)
      BY <3>1, <3>5, <3>10 DEF AddMember
    <3>. QED
      BY <1>1, <3>6, <3>7, <3>8, <3>9, <3>10 DEF Step
  <2>2. file'[n] = file[n] /\ live' = live
    BY <1>1
       DEF Step, Start, ClusterExists, NodeExists, NewConfig, ListOldMembers, FindMember,
           RemoveMember, ListBeforeAdd, AddMember, ExistingConfig, Register, TypeOK
  <2>. QED
    BY <2>1, <2>2
<1>2. ASSUME NEW k \in Instances, Stop(k), UNCHANGED file \/ Terminate(k),
             live' = live \/ live' = live \ {k}
      PROVE  Ends \/ Rests
  BY <1>2 DEF Stop, Goto, Terminate, TypeOK, APITypeOK
<1>3. ASSUME NEW k \in Instances, EtcdStep(k) \/ Disturb(k) \/ Launch(k)
      PROVE  Ends \/ Rests
  <2>1. CASE StartEtcd(k) \/ FormCluster(k) \/ RestartEtcd(k)
    BY <2>1 DEF StartEtcd, FormCluster, RestartEtcd
  <2>2. CASE Fails(k) \/ Crash(k)
    BY <1>2, <2>2 DEF Fails, Crash
  <2>3. CASE Terminate(k) \/ PowerOff(k)
    BY <1>2, <2>3 DEF Terminate, FleetTerminate, PowerOff, FleetStop
  <2>4. CASE PowerOn(k) \/ Launch(k)
    BY <2>4 DEF PowerOn, FleetReturn, Launch, FleetLaunch
  <2>. QED
    BY <1>3, <2>1, <2>2, <2>3, <2>4 DEF EtcdStep, Disturb
<1>4. CASE ApplyLate
  BY <1>4 DEF ApplyLate
<1>5. CASE UNCHANGED vars
  BY <1>5 DEF vars
<1>. QED
  BY <1>1, <1>3, <1>4, <1>5 DEF Next

\* What a step of others leaves of the knowledge of n.
LEMMA KnowsElsewhere ==
    ASSUME ListsInv, KnowsInv, [Next]_vars, NEW n \in Instances, ~Step(n)
    PROVE  Knows(n)'
<1>1. CASE pc'[n] = "idle" /\ cache'[n] = {}
  BY <1>1 DEF Knows, Beside, Joining
<1>2. CASE /\ pc'[n] = pc[n]
           /\ cache'[n] = cache[n]
           /\ swallowed'[n] = swallowed[n]
           /\ file'[n] = file[n]
           /\ n \in live => n \in live'
  <2>. USE <1>2
  <2>0. Knows(n) /\ NamedByMachines /\ lost \subseteq lost'
    BY LostGrows DEF KnowsInv
  <2>1. (pc[n] # "idle" => n \in live)' /\ (cache[n] # {} => n \in cache[n])'
    BY <2>0 DEF Knows
  <2>2. (pc[n] \in Beside => founding # {})'
    BY <2>0, FormedOnce DEF Knows
  <2>3. (pc[n] \in Joining /\ ~swallowed[n] => ~Named(n))'
    <3>. SUFFICES ASSUME pc[n] \in Joining, ~swallowed[n] PROVE ~Named(n)'
      BY DEF Joining
    <3>. QED
      BY <2>0, StaysUnnamed DEF Knows, Beside, Joining
  <2>4. (/\ NoNameReused \/ NoAddressReused
         /\ Formed
         /\ members # {}
         /\ pc[n] = "newConfig"
         /\ ~swallowed[n]
         /\ n \notin lost)' => Named(n)'
    <3>. SUFFICES ASSUME NoNameReused \/ NoAddressReused, Formed, members' # {},
                         pc[n] = "newConfig", ~swallowed[n], n \notin lost'
                  PROVE  Named(n)'
      BY DEF NoNameReused, NoAddressReused
    <3>1. founding # {}
      BY FleetAssumption DEF ListsInv, FoundersInv
    <3>2. members # {}
      BY <3>1, FormedOnce DEF Starts, Remove
    <3>. QED
      BY <2>0, <3>1, <3>2, StaysNamed DEF Knows
  <2>5. (/\ NoAddressReused
         /\ NoNameReused \/ ~swallowed[n]
         /\ pc[n] = "existingConfig"
         /\ n \notin lost)' => Entered(n)'
    <3>. SUFFICES ASSUME NoAddressReused, NoNameReused \/ ~swallowed[n],
                         pc[n] = "existingConfig", n \notin lost'
                  PROVE  Entered(n)'
      BY DEF NoNameReused, NoAddressReused
    <3>. QED
      BY <2>0, StaysEntered DEF Knows, Beside, Joining
  <2>6. (/\ NoAddressReused
         /\ pc[n] \in {"register", "done"}
         /\ file[n].state = "existing"
         /\ ~swallowed[n]
         /\ n \notin lost)' => (n \in file[n].initial)'
    BY <2>0 DEF Knows, NoAddressReused
  <2>. QED
    BY <2>1, <2>2, <2>3, <2>4, <2>5, <2>6 DEF Knows
<1>. QED
  BY <1>1, <1>2, Elsewhere DEF ListsInv

\* A call of the running process of n keeps n in its list.
LEMMA ViewHasLocal ==
    ASSUME NEW n \in Instances, Knows(n), n \in live
    PROVE  n \in View(n)
BY DEF Knows, View, Inventory

LEMMA ListHasLocal ==
    ASSUME ListsInv, NEW n \in Instances, Knows(n), n \in live, ListOK(n) \/ ListError(n)
    PROVE  cache'[n] # {} => n \in cache'[n]
<1>1. cache'[n] \in {cache[n], View(n)}
  BY DEF ListOK, ListError, GetInstances, CloudError, ListsInv, TypeOK, APITypeOK
<1>. QED
  BY <1>1, ViewHasLocal DEF Knows

\* What a process may do with the answer of Members().
LEMMA MembersAnswer ==
    ASSUME ListsInv, NEW n \in Instances, Knows(n), n \in live, NEW reply, Members(n, reply)
    PROVE  /\ cache'[n] # {} => n \in cache'[n]
           /\ ~swallowed'[n] => ~swallowed[n] /\ reply = members
           /\ reply \in {{}, members}
<1>1. cache'[n] # {} => n \in cache'[n]
  BY ListHasLocal DEF Members
<1>2. swallowed \in [Instances -> BOOLEAN]
  BY DEF ListsInv, TypeOK, APITypeOK
<1>. QED
  BY <1>1, <1>2 DEF Members

\* A step of the process of n leaves n running, and the cluster formed.
LEMMA StepFrame ==
    ASSUME ListsInv, KnowsInv, NEW n \in Instances, Step(n)
    PROVE  /\ n \in live
           /\ live' = live
           /\ lost \subseteq lost'
           /\ founding' = founding
<1>1. n \in live
  BY DEF KnowsInv, Knows, Step, Start, ClusterExists, NodeExists, NewConfig,
         ListOldMembers, FindMember, RemoveMember, ListBeforeAdd, AddMember,
         ExistingConfig, Register
<1>2. live' = live
  BY DEF fleetVars, Step, Start, ClusterExists, NodeExists, NewConfig,
         ListOldMembers, FindMember, RemoveMember, ListBeforeAdd, AddMember,
         ExistingConfig, Register
<1>3. founding' = founding
  BY DEF etcdVars, Step, Start, ClusterExists, NodeExists, NewConfig, ListOldMembers,
         FindMember, RemoveMember, RemoveApplied, RemoveFailed, Remove, ListBeforeAdd,
         AddMember, AddApplied, AddFailed, Add, ExistingConfig, Register
<1>. QED
  BY <1>1, <1>2, <1>3, LostGrows DEF Next

\* A listed URL is the local one of n: nobody else has had it.
LEMMA ListedURL ==
    ASSUME NamedByMachines, NoAddressReused, NEW n \in Instances, NEW m \in members,
           m.peerURL = PeerURL(n.endpoint)
    PROVE  Owns(n, m)
BY URLOfHost DEF NamedByMachines, NoAddressReused, Owns

\* So is a listed name.
LEMMA ListedName ==
    ASSUME NamedByMachines, NoNameReused, NEW n \in Instances, Named(n)
    PROVE  Entered(n)
<1>1. PICK m \in members : m.name = n.name
  BY DEF Named, MemberNames
<1>2. m.name # Blank
  BY <1>1, InstanceType, FleetAssumption
<1>3. m.peerURL = PeerURL(n.endpoint)
  BY <1>1, <1>2 DEF NamedByMachines, NoNameReused
<1>. QED
  BY <1>1, <1>3 DEF Entered, Owns

LEMMA KnowsOwnStep ==
    ASSUME ListsInv, KnowsInv, NEW n \in Instances, Step(n)
    PROVE  Knows(n)'
<1>. USE DEF apiVars, etcdVars
<1>0. /\ n \in live /\ n \in live' /\ lost \subseteq lost' /\ founding' = founding
      /\ Knows(n) /\ NamedByMachines
  BY StepFrame DEF KnowsInv
<1>t. /\ pc \in [Instances -> PCs] /\ file \in [Instances -> Flags]
      /\ cache \in [Instances -> SUBSET Instances]
      /\ swallowed \in [Instances -> BOOLEAN]
  BY DEF ListsInv, TypeOK, APITypeOK
<1>f. members # {} => founding # {}
  BY DEF ListsInv, ListInv
<1>1. CASE Start(n)
  BY <1>0, <1>t, <1>1 DEF Start, Goto, Knows, Beside, Joining
<1>2. CASE ClusterExists(n)
  <2>1. PICK reply \in {{}, members} :
           /\ Members(n, reply)
           /\ pc'[n] = IF reply = {} THEN "newConfig" ELSE "nodeExists"
    BY <1>2, <1>t DEF ClusterExists, Goto
  <2>2. members' = members
    BY <1>2 DEF ClusterExists
  <2>. QED
    BY <1>0, <1>f, <2>1, <2>2, MembersAnswer DEF Knows, Beside, Joining
<1>3. CASE NodeExists(n)
  <2>1. PICK reply \in {{}, members} :
           /\ Members(n, reply)
           /\ pc'[n] = IF n.name \in MemberNames(reply) THEN "newConfig" ELSE "removeOld"
    BY <1>3, <1>t DEF NodeExists, Goto
  <2>2. members' = members /\ founding # {}
    BY <1>0, <1>3 DEF NodeExists, Knows, Beside
  <2>. QED
    BY <1>0, <2>1, <2>2, MembersAnswer DEF Knows, Beside, Joining, Named, MemberNames
<1>4. CASE NewConfig(n)
  <2>1. pc'[n] = "register" /\ file'[n].state = "new"
    BY <1>4, <1>t DEF NewConfig, Goto
  <2>2. cache'[n] # {} => n \in cache'[n]
    BY <1>0, <1>4, <1>t, ViewHasLocal DEF NewConfig, GetInstances
  <2>. QED
    BY <1>0, <2>1, <2>2 DEF Knows, Beside, Joining
<1>5. CASE ExistingConfig(n)
  <2>1. PICK reply \in {{}, members} :
           /\ Members(n, reply)
           /\ file'[n] = [state |-> "existing", initial |-> InitialCluster(n, URLs(reply))]
    BY <1>5, <1>t DEF ExistingConfig
  <2>2. pc'[n] = "register" /\ members' = members /\ lost' = lost
    BY <1>5, <1>t DEF ExistingConfig, Goto
  <2>3. ASSUME NoAddressReused, ~swallowed'[n], n \notin lost
        PROVE  n \in file'[n].initial
    <3>1. reply = members /\ Entered(n)
      BY <1>0, <1>5, <2>1, <2>3, MembersAnswer DEF ExistingConfig, Knows
    <3>2. PeerURL(n.endpoint) \in URLs(reply)
      BY <3>1 DEF Entered, URLs
    <3>. QED
      BY <1>0, <2>1, <3>2, ViewHasLocal DEF InitialCluster
  <2>4. cache'[n] # {} => n \in cache'[n]
    BY <1>0, <2>1, MembersAnswer
  <2>. QED
    BY <1>0, <2>2, <2>3, <2>4 DEF Knows, Beside, Joining, NoAddressReused
<1>6. CASE ListOldMembers(n)
  <2>1. PICK reply \in {{}, members} : Members(n, reply)
    BY <1>6 DEF ListOldMembers
  <2>2. /\ pc'[n] \in {"addLocal", "remove"} /\ pc[n] = "removeOld"
        /\ members' = members
    BY <1>6, <1>t DEF ListOldMembers, Goto
  <2>. QED
    BY <1>0, <2>1, <2>2, MembersAnswer DEF Knows, Beside, Joining, Named
<1>7. CASE FindMember(n)
  <2>1. ListOK(n) \/ ListError(n)
    BY <1>7 DEF FindMember, FindByName
  <2>2. /\ pc'[n] \in {"addLocal", "remove", "removeCall"} /\ pc[n] = "remove"
        /\ members' = members /\ swallowed' = swallowed
    BY <1>7, <1>t DEF FindMember, Goto, Loop
  <2>. QED
    BY <1>0, <2>1, <2>2, ListHasLocal DEF Knows, Beside, Joining, Named
<1>8. CASE RemoveMember(n)
  <2>1. /\ pc'[n] \in {"addLocal", "remove"} /\ pc[n] = "removeCall"
        /\ swallowed' = swallowed /\ cache' = cache
    BY <1>8, <1>t DEF RemoveMember, Goto, Loop
  <2>2. members' \subseteq members
    BY <1>8 DEF RemoveMember, RemoveApplied, RemoveFailed, Remove
  <2>. QED
    BY <1>0, <2>1, <2>2 DEF Knows, Beside, Joining, Named, MemberNames
<1>9. CASE ListBeforeAdd(n)
  <2>1. PICK reply \in {{}, members} :
           /\ Members(n, reply)
           /\ pc'[n] = IF \/ n.name \in MemberNames(reply)
                          \/ PeerURL(n.endpoint) \in URLs(reply)
                       THEN "existingConfig" ELSE "add"
    BY <1>9, <1>t DEF ListBeforeAdd, Goto
  <2>2. members' = members /\ pc[n] = "addLocal"
    BY <1>9 DEF ListBeforeAdd
  <2>3. ASSUME NoAddressReused, NoNameReused \/ ~swallowed'[n], pc'[n] = "existingConfig"
        PROVE  Entered(n)
    <3>1. reply = members
      BY <2>1, <2>3 DEF MemberNames, URLs
    <3>2. CASE PeerURL(n.endpoint) \in URLs(reply)
      BY <1>0, <2>3, <3>1, <3>2, ListedURL DEF URLs, Entered
    <3>3. CASE n.name \in MemberNames(reply)
      <4>1. Named(n)
        BY <3>1, <3>3 DEF Named
      <4>2. NoNameReused
        BY <1>0, <2>1, <2>2, <2>3, <4>1, MembersAnswer DEF Knows, Joining
      <4>. QED
        BY <1>0, <4>1, <4>2, ListedName
    <3>. QED
      BY <2>1, <2>3, <3>2, <3>3
  <2>. QED
    BY <1>0, <2>1, <2>2, <2>3, MembersAnswer
       DEF Knows, Beside, Joining, Named, Entered, NoAddressReused, NoNameReused
<1>10. CASE AddMember(n)
  <2>1. CASE Stop(n)
    BY <1>t, <2>1 DEF Stop, Goto, Knows, Beside, Joining
  <2>2. CASE /\ AddApplied(n, PeerURL(n.endpoint))
             /\ Goto(n, "existingConfig")
             /\ UNCHANGED apiVars
    <3>. DEFINE m == [name |-> Blank, peerURL |-> PeerURL(n.endpoint), stamp |-> adds + 1]
    <3>1. members' = members \cup {m} /\ pc'[n] = "existingConfig" /\ pc[n] = "add"
      BY <1>10, <1>t, <2>2 DEF AddApplied, Add, AddMember, Goto
    <3>2. Entered(n)'
      <4>1. m.peerURL = PeerURL(n.endpoint) /\ Owns(n, m)
        BY DEF Owns
      <4>2. Entered(n)' <=> \E x \in members' : x.peerURL = PeerURL(n.endpoint) /\ Owns(n, x)
        BY DEF Entered, Owns
      <4>. QED
        BY <3>1, <4>1, <4>2
    <3>3. ~Named(n) => ~Named(n)'
      BY <3>1, InstanceType, FleetAssumption DEF Named, MemberNames
    <3>. QED
      BY <1>0, <2>2, <3>1, <3>2, <3>3 DEF Knows, Beside, Joining
  <2>. QED
    BY <1>10, <2>1, <2>2 DEF AddMember
<1>11. CASE Register(n)
  <2>1. pc'[n] = "done" /\ pc[n] = "register" /\ UNCHANGED <<cache, swallowed, file, lost>>
    BY <1>11, <1>t DEF Register, Goto
  <2>. QED
    BY <1>0, <2>1 DEF Knows, Beside, Joining, NoAddressReused
<1>. QED
  BY <1>1, <1>2, <1>3, <1>4, <1>5, <1>6, <1>7, <1>8, <1>9, <1>10, <1>11 DEF Step

-----------------------------------------------------------------------------
(* The invariant holds *)

\* Names come into the list with the machine they belong to.
LEMMA NamedStep ==
    ASSUME ListsInv, NamedByMachines, [Next]_vars
    PROVE  NamedByMachines'
<1>. USE DEF NamedByMachines
<1>1. CASE UNCHANGED members \/ \E id : Remove(id)
  BY <1>1 DEF Remove
<1>2. CASE \E url : Add(url)
  BY <1>2 DEF Add
<1>3. ASSUME NEW n \in live, Starts(n) PROVE NamedByMachines'
  <2>1. PICK m \in members :
           /\ m.peerURL = PeerURL(n.endpoint)
           /\ members' = (members \ {m}) \cup {[m EXCEPT !.name = n.name]}
    BY <1>3 DEF Starts
  <2>2. /\ [m EXCEPT !.name = n.name].name = n.name
        /\ [m EXCEPT !.name = n.name].peerURL = m.peerURL
    BY DEF ListsInv, TypeOK, EtcdTypeOK, Member
  <2>3. n \in Instances
    BY DEF ListsInv, TypeOK, FleetTypeOK
  <2>. QED
    BY <2>1, <2>2, <2>3
<1>4. CASE Forms
  <2>1. PICK n \in Instances : members' = {Founder(i) : i \in seed[n]}
    BY <1>4 DEF Forms
  <2>2. seed[n] \subseteq Instances
    BY DEF ListsInv, TypeOK, EtcdTypeOK
  <2>. QED
    BY <2>1, <2>2 DEF Founder
<1>. QED
  BY <1>1, <1>2, <1>3, <1>4, HowMembersChange DEF ListsInv, Changes, Expels

LEMMA KnowsStep == ListsInv /\ KnowsInv /\ [Next]_vars => KnowsInv'
<1>. SUFFICES ASSUME ListsInv, KnowsInv, [Next]_vars PROVE KnowsInv'
  OBVIOUS
<1>1. NamedByMachines'
  BY NamedStep DEF KnowsInv
<1>2. ASSUME NEW n \in Instances PROVE Knows(n)'
  BY KnowsElsewhere, KnowsOwnStep
<1>. QED
  BY <1>1, <1>2 DEF KnowsInv

LEMMA KnowsAlways == Spec => [](ListsInv /\ KnowsInv)
<1>1. Init => ListsInv /\ KnowsInv
  BY TypeInit, FoundersInit, ListInit, KnowsInit DEF ListsInv
<1>2. ListsInv /\ KnowsInv /\ [Next]_vars => (ListsInv /\ KnowsInv)'
  <2>1. ListsInv /\ [Next]_vars => ListsInv'
    BY TypeStep, FoundersStep, ListStep DEF ListsInv, ListInv
  <2>. QED
    BY <2>1, KnowsStep
<1>. QED
  BY <1>1, <1>2, PTL DEF Spec

-----------------------------------------------------------------------------
(* The theorems *)

\* The rerun of a member that has joined is never about to add or remove anyone,
\* unless an error hid the member list from it (nodeExistsInCluster decides it
\* once, from a list that may have changed since).
THEOREM RerunsHarmless == Spec => []MemberRerunHarmless
<1>1. KnowsInv => MemberRerunHarmless
  BY DEF KnowsInv, Knows, Joining, Named, MemberRerunHarmless
<1>. QED
  BY <1>1, KnowsAlways, PTL

\* Beside a formed cluster with members a new-cluster file is written for a member
\* only, if names or addresses are not given out twice.
THEOREM NewConfigsEarned ==
    ASSUME NoNameReused \/ NoAddressReused
    PROVE  Spec => []NewConfigEarned
<1>1. KnowsInv => NewConfigEarned
  BY DEF KnowsInv, Knows, Named, NewConfigEarned
<1>. QED
  BY <1>1, KnowsAlways, PTL

\* The process that writes an existing-cluster file finds the entry of its own
\* instance in the list, if neither names nor addresses are given out twice.
THEOREM OwnEntries ==
    ASSUME NoNameReused, NoAddressReused
    PROVE  Spec => []OwnEntryEstablished
<1>1. KnowsInv => OwnEntryEstablished
  BY DEF KnowsInv, Knows, Entered, OwnEntryEstablished
<1>. QED
  BY <1>1, KnowsAlways, PTL

\* An existing-cluster file names the instance it is for, if addresses are not
\* given out twice.
THEOREM LocalIncluded ==
    ASSUME NoAddressReused
    PROVE  Spec => []ExistingIncludesLocal
<1>1. KnowsInv => ExistingIncludesLocal
  BY DEF KnowsInv, Knows, ExistingIncludesLocal
<1>. QED
  BY <1>1, KnowsAlways, PTL

\* The entry with the URL of an instance that writes an existing-cluster file is
\* no other machine's, if addresses are not given out twice.
THEOREM AddressesOwn ==
    ASSUME NoAddressReused
    PROVE  Spec => []AddressIsOwn
<1>1. KnowsInv => AddressIsOwn
  BY ListedURL DEF KnowsInv, AddressIsOwn
<1>. QED
  BY <1>1, KnowsAlways, PTL
=============================================================================
