-------------------------- MODULE MembershipProofs --------------------------
(***************************************************************************)
(* Bootstrap implements Membership, for every fleet, every set of faults   *)
(* and every bound.  FoundersInv (module BootstrapProofs) covers a cluster *)
(* that exists at the start; ListInv covers its formation, too.            *)
(***************************************************************************)
EXTENDS BootstrapProofs, FiniteSetTheorems

\* Machines that can run side by side.
Apart(fleet) == \A i, j \in fleet : i # j => ~Clash(i, j)

\* What a process remembers, what is in a file and what a data directory was created
\* for was listed at one time, and machines that are listed at one time have
\* addresses of their own.
ListInv ==
    /\ Apart(live \cup halted)
    /\ \A n \in Instances : Apart(cache[n])
    /\ \A n \in Instances : Apart(file[n].initial)
    /\ \A n \in Instances : Apart(seed[n])
    /\ OwnData
    /\ founding = {} => members = {}
    /\ Reconciled!Distinct(members)

\* The members of machines that can run side by side have URLs of their own.
LEMMA FoundersDistinct ==
    ASSUME NEW fleet, Apart(fleet)
    PROVE  Reconciled!Distinct({Founder(i) : i \in fleet})
BY URLOfHost DEF Apart, Clash, Founder, Reconciled!Distinct

LEMMA ListInit == Init => ListInv
<1>. SUFFICES ASSUME Init PROVE ListInv
  OBVIOUS
<1>. USE DEF Init
<1>1. Apart(Initial) /\ Apart({})
  BY FleetAssumption DEF Apart
<1>2. live \cup halted = Initial
  BY DEF FleetInit
<1>3. \A n \in Instances : cache[n] = {}
  BY DEF APIInit
<1>4. \A n \in Instances : file[n].initial \in {Initial, {}}
  BY DEF NoFlags
<1>5. (\A n \in Instances : seed[n] \in {Initial, {}}) /\ OwnData
  BY OwnDataInit DEF EtcdInit
<1>6. CASE Formed
  BY <1>1, <1>2, <1>3, <1>4, <1>5, <1>6, FoundersDistinct, FleetAssumption
     DEF EtcdInit, ListInv
<1>7. CASE ~Formed
  BY <1>1, <1>2, <1>3, <1>4, <1>5, <1>7 DEF EtcdInit, ListInv, Reconciled!Distinct
<1>. QED
  BY <1>6, <1>7

LEMMA ViewApart ==
    ASSUME ListInv, NEW n \in Instances
    PROVE  Apart(View(n))
BY DEF ListInv, Apart, View, Inventory

\* The answer of a call to list() is remembered.
LEMMA ListApart ==
    ASSUME TypeOK, ListInv, NEW n \in Instances, ListOK(n) \/ ListError(n)
    PROVE  \A k \in Instances : Apart(cache'[k])
<1>1. cache' = cache \/ cache' = [cache EXCEPT ![n] = View(n)]
  BY DEF ListOK, ListError, GetInstances, CloudError
<1>. QED
  BY <1>1, ViewApart DEF ListInv, TypeOK, APITypeOK

LEMMA MembersApart ==
    ASSUME TypeOK, ListInv, NEW n \in Instances, NEW reply, Members(n, reply)
    PROVE  \A k \in Instances : Apart(cache'[k])
BY ListApart DEF Members

\* Nobody adds to a cluster that has not formed: it has no quorum.
LEMMA NoQuorumYet ==
    ASSUME members = {}
    PROVE  ~HasQuorum
<1>1. Started(members) = {}
  BY DEF Started
<1>2. Cardinality(members) = 0 /\ Cardinality(Started(members)) = 0
  BY <1>1, FS_EmptySet
<1>. QED
  BY <1>2 DEF HasQuorum

-----------------------------------------------------------------------------
(* How a step may change the member list *)

\* The cluster forms with the initial cluster of some data directory.
Forms ==
    /\ founding = {}
    /\ founding' # {}
    /\ members = {}
    /\ \E n \in Instances : members' = {Founder(i) : i \in seed[n]}

\* The member of a machine serves, under the name of the machine.
Starts(n) ==
    /\ founding' = founding
    /\ \E m \in members :
         /\ m.peerURL = PeerURL(n.endpoint)
         /\ members' = (members \ {m}) \cup {[m EXCEPT !.name = n.name]}

\* A member is removed, and not one of a founder that has never been missing.
Expels(id) ==
    /\ Remove(id)
    /\ Formed => \A i \in Lasting : id # ID(Founder(i))

Changes ==
    /\ UNCHANGED fleetVars
    /\ \/ Forms
       \/ \E n \in live : pc[n] = "done" /\ Starts(n)
       \/ \E url : members # {} /\ Add(url)
       \/ \E id : Expels(id)

LEMMA HowProcessChanges ==
    ASSUME TypeOK, ListInv, Formed => FoundersInv, NEW n \in Instances, Step(n)
    PROVE  UNCHANGED <<members, founding>> \/ Changes
<1>. USE DEF fleetVars, etcdVars
<1>1. CASE RemoveMember(n)
  <2>1. PICK m \in target[n] : RemoveApplied(n, m) \/ RemoveFailed(n, m)
    BY <1>1 DEF RemoveMember
  <2>2. Formed => \A i \in Lasting : ID(m) # ID(Founder(i))
    BY DEF FoundersInv, Sparing
  <2>3. CASE RemoveApplied(n, m)
    BY <1>1, <2>2, <2>3 DEF RemoveMember, RemoveApplied, Changes, Expels
  <2>4. CASE RemoveFailed(n, m)
    BY <2>4 DEF RemoveFailed
  <2>. QED
    BY <2>1, <2>3, <2>4
<1>2. CASE AddMember(n)
  <2>1. CASE AddApplied(n, PeerURL(n.endpoint))
    <3>1. members # {}
      BY <2>1, NoQuorumYet DEF AddApplied, AcceptsAdd
    <3>. QED
      BY <1>2, <2>1, <3>1 DEF AddMember, AddApplied, Changes
  <2>2. CASE AddFailed(n, PeerURL(n.endpoint))
    BY <2>2 DEF AddFailed
  <2>. QED
    BY <1>2, <2>1, <2>2 DEF AddMember
<1>3. CASE ~RemoveMember(n) /\ ~AddMember(n)
  BY <1>3 DEF Step, Start, ClusterExists, NodeExists, NewConfig, ListOldMembers,
              FindMember, ListBeforeAdd, ExistingConfig, Register
<1>. QED
  BY <1>1, <1>2, <1>3

LEMMA HowEtcdChanges ==
    ASSUME TypeOK, ListInv, NEW n \in Instances, EtcdStep(n)
    PROVE  UNCHANGED <<members, founding>> \/ Changes
<1>. USE DEF fleetVars, etcdVars
<1>1. CASE StartEtcd(n)
  <2>1. CASE Seed(n, file[n]) \/ StartFounder(n) \/ Join(n, file[n])
    BY <2>1 DEF Seed, StartFounder, Join
  <2>2. CASE Serve(n)
    <3>1. PICK m \in members :
             /\ ID(m) \in data[n]
             /\ members' = (members \ {m}) \cup {[m EXCEPT !.name = n.name]}
      BY <2>2 DEF Serve
    <3>2. m.peerURL = PeerURL(n.endpoint)
      BY <3>1 DEF ListInv, OwnData, ID
    <3>3. Starts(n)
      BY <2>2, <3>1, <3>2 DEF Serve, Starts
    <3>. QED
      BY <1>1, <3>3 DEF StartEtcd, Changes
  <2>. QED
    BY <1>1, <2>1, <2>2 DEF StartEtcd
<1>2. CASE FormCluster(n)
  <2>1. Form(seed[n], Waiting(seed[n]))
    BY <1>2 DEF FormCluster
  <2>2. founding' # {}
    BY <2>1 DEF Form
  <2>3. Forms
    BY <2>1, <2>2 DEF Form, Forms, ListInv
  <2>. QED
    BY <1>2, <2>3 DEF FormCluster, Changes
<1>. QED
  BY <1>1, <1>2 DEF EtcdStep

LEMMA HowEnvironmentChanges ==
    ASSUME TypeOK, ListInv, Formed => FoundersInv,
           (\E n \in Instances : Disturb(n) \/ Launch(n)) \/ ApplyLate
    PROVE  UNCHANGED <<members, founding>> \/ Changes
<1>. USE DEF fleetVars, etcdVars
<1>1. ASSUME NEW n \in Instances, Disturb(n) \/ Launch(n)
      PROVE  UNCHANGED <<members, founding>>
  BY <1>1 DEF Disturb, Launch, Fails, Crash, RestartEtcd, Terminate, PowerOff, PowerOn
<1>2. CASE ApplyLate
  <2>1. ASSUME NEW url \in lateAdds, LateAdd(url)
        PROVE  UNCHANGED <<members, founding>> \/ Changes
    <3>1. HasQuorum => members # {}
      BY NoQuorumYet
    <3>. QED
      BY <1>2, <2>1, <3>1 DEF ApplyLate, LateAdd, Changes
  <2>2. ASSUME NEW id \in lateRemoves, LateRemove(id)
        PROVE  UNCHANGED <<members, founding>> \/ Changes
    <3>1. Formed => \A i \in Lasting : id # ID(Founder(i))
      BY DEF FoundersInv, Sparing
    <3>. QED
      BY <1>2, <2>2, <3>1 DEF ApplyLate, LateRemove, Changes, Expels
  <2>. QED
    BY <1>2, <2>1, <2>2 DEF ApplyLate
<1>. QED
  BY <1>1, <1>2

\* The first members are founders, one more is admitted, one tells its name or one
\* is removed; otherwise the list stays as it is.
LEMMA HowMembersChange ==
    ASSUME TypeOK, ListInv, Formed => FoundersInv, [Next]_vars
    PROVE  UNCHANGED <<members, founding>> \/ Changes
<1>1. CASE UNCHANGED vars
  BY <1>1 DEF vars
<1>2. CASE Next
  BY <1>2, HowProcessChanges, HowEtcdChanges, HowEnvironmentChanges DEF Next
<1>. QED
  BY <1>1, <1>2

\* No change lists an address twice.
LEMMA ChangesDistinct ==
    ASSUME TypeOK, ListInv, Changes
    PROVE  Reconciled!Distinct(members') /\ (founding' = {} => members' = {})
<1>1. CASE Forms
  BY <1>1, FoundersDistinct DEF Forms, ListInv
<1>2. ASSUME NEW n \in live, Starts(n)
      PROVE  Reconciled!Distinct(members') /\ (founding' = {} => members' = {})
  <2>1. PICK m \in members :
           members' = (members \ {m}) \cup {[m EXCEPT !.name = n.name]}
    BY <1>2 DEF Starts
  <2>2. [m EXCEPT !.name = n.name].peerURL = m.peerURL
    BY DEF TypeOK, EtcdTypeOK, Member
  <2>3. Reconciled!Distinct(members')
    BY <2>1, <2>2 DEF ListInv, Reconciled!Distinct
  <2>. QED
    BY <1>2, <2>3 DEF Starts, ListInv
<1>3. ASSUME NEW url, members # {}, Add(url)
      PROVE  Reconciled!Distinct(members') /\ (founding' = {} => members' = {})
  BY <1>3 DEF Add, URLs, ListInv, Reconciled!Distinct
<1>4. ASSUME NEW id, Expels(id)
      PROVE  Reconciled!Distinct(members') /\ (founding' = {} => members' = {})
  BY <1>4 DEF Expels, Remove, ListInv, Reconciled!Distinct
<1>. QED
  BY <1>1, <1>2, <1>3, <1>4 DEF Changes

-----------------------------------------------------------------------------
(* What is remembered and written stays apart *)

LEMMA StopApart ==
    ASSUME TypeOK, ListInv, NEW n \in Instances, Stop(n)
    PROVE  \A k \in Instances : Apart(cache'[k])
<1>1. Apart({})
  BY DEF Apart
<1>. QED
  BY <1>1 DEF Stop, ListInv, TypeOK, APITypeOK

LEMMA CacheApart ==
    ASSUME TypeOK, ListInv, [Next]_vars
    PROVE  \A k \in Instances : Apart(cache'[k])
<1>. USE DEF apiVars
<1>1. ASSUME NEW n \in Instances, Step(n)
      PROVE  \A k \in Instances : Apart(cache'[k])
  <2>1. CASE Start(n) \/ RemoveMember(n) \/ Register(n)
    BY <2>1 DEF Start, RemoveMember, Register, ListInv
  <2>2. CASE \/ ClusterExists(n) \/ NodeExists(n) \/ ListOldMembers(n)
             \/ ListBeforeAdd(n) \/ ExistingConfig(n)
    BY <2>2, MembersApart
       DEF ClusterExists, NodeExists, ListOldMembers, ListBeforeAdd, ExistingConfig
  <2>3. CASE FindMember(n)
    BY <2>3, ListApart DEF FindMember, FindByName
  <2>4. CASE NewConfig(n)
    BY <2>4, ViewApart DEF NewConfig, GetInstances, ListInv, TypeOK, APITypeOK
  <2>5. CASE AddMember(n)
    BY <2>5, StopApart DEF AddMember, ListInv
  <2>. QED
    BY <1>1, <2>1, <2>2, <2>3, <2>4, <2>5 DEF Step
<1>2. ASSUME NEW n \in Instances, EtcdStep(n) \/ Disturb(n) \/ Launch(n)
      PROVE  \A k \in Instances : Apart(cache'[k])
  <2>1. UNCHANGED cache \/ Stop(n)
    BY <1>2
       DEF EtcdStep, StartEtcd, FormCluster, Disturb, Fails, Crash, RestartEtcd,
           Terminate, PowerOff, PowerOn, Launch
  <2>. QED
    BY <2>1, StopApart DEF ListInv
<1>3. CASE ApplyLate \/ UNCHANGED vars
  BY <1>3 DEF ApplyLate, vars, ListInv
<1>. QED
  BY <1>1, <1>2, <1>3 DEF Next

LEMMA FileApart ==
    ASSUME TypeOK, ListInv, [Next]_vars
    PROVE  \A k \in Instances : Apart(file'[k].initial)
<1>1. ASSUME NEW n \in Instances, NewConfig(n) \/ ExistingConfig(n)
      PROVE  \A k \in Instances : Apart(file'[k].initial)
  <2>1. \A urls : Apart(InitialCluster(n, urls))
    BY ViewApart DEF InitialCluster, Apart
  <2>2. \E urls : \E state :
           file' = [file EXCEPT ![n] = [state |-> state, initial |-> InitialCluster(n, urls)]]
    BY <1>1 DEF NewConfig, ExistingConfig
  <2>. QED
    BY <2>1, <2>2 DEF ListInv, TypeOK
<1>2. ASSUME NEW n \in Instances, Terminate(n)
      PROVE  \A k \in Instances : Apart(file'[k].initial)
  <2>1. Apart({})
    BY DEF Apart
  <2>. QED
    BY <1>2, <2>1 DEF Terminate, NoFlags, ListInv, TypeOK
<1>3. ASSUME NEW n \in Instances, Step(n), ~NewConfig(n), ~ExistingConfig(n)
      PROVE  UNCHANGED file
  BY <1>3 DEF Step, Start, ClusterExists, NodeExists, ListOldMembers, FindMember,
              RemoveMember, ListBeforeAdd, AddMember, Register
<1>4. ASSUME NEW n \in Instances, EtcdStep(n) \/ Disturb(n) \/ Launch(n), ~Terminate(n)
      PROVE  UNCHANGED file
  BY <1>4 DEF EtcdStep, StartEtcd, FormCluster, Disturb, Fails, Crash,
              RestartEtcd, PowerOff, PowerOn, Launch
<1>5. ApplyLate \/ UNCHANGED vars => UNCHANGED file
  BY DEF ApplyLate, vars
<1>6. UNCHANGED file => \A k \in Instances : Apart(file'[k].initial)
  BY DEF ListInv
<1>. QED
  BY <1>1, <1>2, <1>3, <1>4, <1>5, <1>6 DEF Next

LEMMA SeedApart ==
    ASSUME TypeOK, ListInv, [Next]_vars
    PROVE  \A k \in Instances : Apart(seed'[k])
<1>. USE DEF etcdVars
<1>t. seed \in [Instances -> SUBSET Instances]
  BY DEF TypeOK, EtcdTypeOK
<1>1. ASSUME NEW n \in Instances, Seed(n, file[n])
      PROVE  \A k \in Instances : Apart(seed'[k])
  <2>1. Apart(file[n].initial)
    BY DEF ListInv
  <2>. QED
    BY <1>t, <1>1, <2>1 DEF Seed, ListInv
<1>2. ASSUME NEW n \in Instances, Terminate(n)
      PROVE  \A k \in Instances : Apart(seed'[k])
  <2>1. Apart({})
    BY DEF Apart
  <2>. QED
    BY <1>t, <1>2, <2>1 DEF Terminate, ListInv
<1>3. ASSUME NEW n \in Instances, Step(n) PROVE UNCHANGED seed
  BY <1>3
     DEF Step, Start, ClusterExists, NodeExists, NewConfig, ListOldMembers, FindMember,
         RemoveMember, RemoveApplied, RemoveFailed, Remove, ListBeforeAdd, AddMember,
         AddApplied, AddFailed, Add, ExistingConfig, Register
<1>4. ASSUME NEW n \in Instances, EtcdStep(n) PROVE Seed(n, file[n]) \/ UNCHANGED seed
  BY <1>4 DEF EtcdStep, StartEtcd, StartFounder, Join, Serve, FormCluster, Form
<1>5. ASSUME NEW n \in Instances, Disturb(n) \/ Launch(n), ~Terminate(n)
      PROVE  UNCHANGED seed
  BY <1>5 DEF Disturb, Launch, Fails, Crash, RestartEtcd, PowerOff, PowerOn
<1>6. ApplyLate \/ UNCHANGED vars => UNCHANGED seed
  BY DEF ApplyLate, LateAdd, Add, LateRemove, Remove, vars
<1>7. UNCHANGED seed => \A k \in Instances : Apart(seed'[k])
  BY DEF ListInv
<1>. QED
  BY <1>1, <1>2, <1>3, <1>4, <1>5, <1>6, <1>7 DEF Next

\* A machine is launched only where it disturbs nobody.
LEMMA MachinesApart ==
    ASSUME ListInv, [Next]_vars
    PROVE  Apart(live' \cup halted')
<1>. USE DEF ListInv, Apart
<1>1. ASSUME NEW n \in Instances, FleetLaunch(n)
      PROVE  Apart(live' \cup halted')
  BY <1>1 DEF FleetLaunch, Clash
<1>2. ASSUME NEW n \in Instances, FleetTerminate(n) \/ FleetStop(n) \/ FleetReturn(n)
      PROVE  live' \cup halted' \subseteq live \cup halted
  BY <1>2 DEF FleetTerminate, FleetStop, FleetReturn
<1>3. ASSUME NEW n \in Instances,
             Step(n) \/ EtcdStep(n) \/ Fails(n) \/ Crash(n) \/ RestartEtcd(n) \/ ApplyLate
      PROVE  live' = live /\ halted' = halted
  BY <1>3
     DEF fleetVars, Step, Start, ClusterExists, NodeExists, NewConfig, ListOldMembers,
         FindMember, RemoveMember, ListBeforeAdd, AddMember, ExistingConfig, Register,
         EtcdStep, StartEtcd, FormCluster, Fails, Crash, RestartEtcd, ApplyLate
<1>4. CASE UNCHANGED vars
  BY <1>4 DEF vars
<1>5. ApplyLate => live' = live /\ halted' = halted
  BY DEF ApplyLate, fleetVars
<1>. QED
  BY <1>1, <1>2, <1>3, <1>4, <1>5
     DEF Next, Disturb, Launch, Terminate, PowerOff, PowerOn

LEMMA ListStep ==
    TypeOK /\ ListInv /\ (Formed => FoundersInv) /\ [Next]_vars => ListInv'
<1>. SUFFICES ASSUME TypeOK, ListInv, Formed => FoundersInv, [Next]_vars
              PROVE  ListInv'
  OBVIOUS
<1>1. Reconciled!Distinct(members') /\ (founding' = {} => members' = {})
  BY HowMembersChange, ChangesDistinct DEF ListInv
<1>. QED
  BY <1>1, OwnDataStep, CacheApart, FileApart, SeedApart, MachinesApart DEF ListInv

-----------------------------------------------------------------------------
(* The refinement *)

\* A founder that has been missing is never settled again.
LEMMA SettledShrinks ==
    ASSUME Formed => FoundersInv, [Next]_vars
    PROVE  Settled' \subseteq Settled
<1>. SUFFICES ASSUME FoundersInv PROVE Lasting' \subseteq Lasting
  BY DEF Settled
<1>. USE DEF FoundersInv, Lasting, Inventory
<1>1. ASSUME NEW n \in Instances,
             Step(n) \/ EtcdStep(n) \/ Fails(n) \/ Crash(n) \/ RestartEtcd(n)
      PROVE  UNCHANGED fleetVars
  BY <1>1
     DEF Step, Start, ClusterExists, NodeExists, NewConfig, ListOldMembers,
         FindMember, RemoveMember, ListBeforeAdd, AddMember, ExistingConfig, Register,
         EtcdStep, StartEtcd, FormCluster, Fails, Crash, RestartEtcd
<1>2. ASSUME NEW n \in Instances, FleetLaunch(n) PROVE Lasting' \subseteq Lasting
  BY <1>2 DEF FleetLaunch
<1>3. ASSUME NEW n \in Instances, FleetTerminate(n) PROVE Lasting' \subseteq Lasting
  BY <1>3 DEF FleetTerminate
<1>4. ASSUME NEW n \in Instances, FleetStop(n) PROVE Lasting' \subseteq Lasting
  BY <1>4 DEF FleetStop
<1>5. ASSUME NEW n \in Instances, FleetReturn(n) PROVE Lasting' \subseteq Lasting
  BY <1>5 DEF FleetReturn
<1>6. ApplyLate \/ UNCHANGED vars => UNCHANGED fleetVars
  BY DEF ApplyLate, vars, fleetVars
<1>7. UNCHANGED fleetVars => Lasting' \subseteq Lasting
  BY FleetFrame
<1>. QED
  BY <1>1, <1>2, <1>3, <1>4, <1>5, <1>6, <1>7
     DEF Next, Disturb, Launch, Terminate, PowerOff, PowerOn

\* A step of the program is one of the abstract specification, or a stutter.
LEMMA MembershipStep ==
    ASSUME TypeOK, ListInv, Formed => FoundersInv, [Next]_vars
    PROVE  [Reconciled!Next]_(Reconciled!membershipVars)
<1>. USE DEF Reconciled!Next, Reconciled!membershipVars
<1>1. CASE UNCHANGED <<members, founding>>
  BY <1>1, SettledShrinks DEF Reconciled!Release
<1>2. CASE Changes
  <2>1. UNCHANGED Settled
    BY <1>2, FleetFrame DEF Changes, Settled
  <2>2. Reconciled!Distinct(members')
    BY <1>2, ChangesDistinct
  <2>3. CASE Forms
    BY <2>1, <2>2, <2>3 DEF Forms, Reconciled!Form
  <2>4. ASSUME NEW n \in live, Starts(n)
        PROVE  Reconciled!Name \/ UNCHANGED members
    <3>1. PICK m \in members :
             /\ m.peerURL = PeerURL(n.endpoint)
             /\ members' = (members \ {m}) \cup {[m EXCEPT !.name = n.name]}
      BY <2>4 DEF Starts
    <3>. DEFINE named == [m EXCEPT !.name = n.name]
    <3>2. m \in Member
      BY DEF TypeOK, EtcdTypeOK
    <3>3. CASE m \in Settled
      <4>1. PICK i \in Lasting : Formed /\ m = Founder(i)
        BY <3>3 DEF Settled
      <4>2. i.endpoint = n.endpoint
        BY <3>1, <4>1, URLOfHost DEF Founder
      <4>3. i = n
        BY <4>2 DEF ListInv, Apart, Clash, Lasting, Inventory
      <4>4. named = m
        BY <4>1, <4>3 DEF Founder
      <4>. QED
        BY <3>1, <4>4
    <3>4. CASE m \notin Settled
      <4>1. named = [m EXCEPT !.name = named.name]
        BY <3>2 DEF Member
      <4>. QED
        BY <2>1, <3>1, <3>4, <4>1 DEF Reconciled!Name
    <3>. QED
      BY <3>3, <3>4
  <2>5. ASSUME NEW url, Add(url) PROVE Reconciled!Admit
    <3>. DEFINE m == [name |-> Blank, peerURL |-> url, stamp |-> adds + 1]
    <3>1. members' = members \cup {m} /\ m \notin members
      BY <2>5 DEF Add, URLs
    <3>. QED
      BY <2>1, <2>2, <3>1 DEF Reconciled!Admit
  <2>6. ASSUME NEW id, Expels(id) PROVE Reconciled!Expel
    <3>1. PICK m \in members : ID(m) = id
      BY <2>6 DEF Expels, Remove
    <3>2. members' = members \ {m}
      BY <2>6, <3>1 DEF Expels, Remove, ID, ListInv, Reconciled!Distinct
    <3>3. m \notin Settled
      BY <2>6, <3>1 DEF Expels, Settled
    <3>. QED
      BY <2>1, <3>2, <3>3 DEF Reconciled!Expel
  <2>. QED
    BY <1>2, <2>1, <2>3, <2>4, <2>5, <2>6 DEF Changes
<1>. QED
  BY <1>1, <1>2, HowMembersChange

\* Whatever runs of etcd-bootstrap overlap, fail, are retried or take effect late,
\* together they change the member list one member at a time, list no address
\* twice and spare the founders that have never been missing, before, while and
\* after the cluster forms.
THEOREM MembershipImplemented == Spec => ImplementsMembership
<1>1. Init => TypeOK /\ (Formed => FoundersInv) /\ ListInv
  BY TypeInit, FoundersInit, ListInit
<1>2. TypeOK /\ (Formed => FoundersInv) /\ ListInv /\ [Next]_vars
        => (TypeOK /\ (Formed => FoundersInv) /\ ListInv)'
  <2>1. ListInv => OwnData
    BY DEF ListInv
  <2>. QED
    BY <2>1, TypeStep, FoundersStep, ListStep
<1>3. ListInv /\ (Formed => FoundersInv) => Reconciled!Init
  BY DEF Reconciled!Init, ListInv, FoundersInv, Settled
<1>4. TypeOK /\ (Formed => FoundersInv) /\ ListInv /\ [Next]_vars
        => [Reconciled!Next]_(Reconciled!membershipVars)
  BY MembershipStep
<1>. QED
  BY <1>1, <1>2, <1>3, <1>4, PTL DEF Spec, ImplementsMembership, Reconciled!Spec

=============================================================================
