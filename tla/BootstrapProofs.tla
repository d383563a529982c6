-------------------------- MODULE BootstrapProofs --------------------------
(***************************************************************************)
(* Theorems about Bootstrap, for every fleet, every set of faults and      *)
(* every bound:                                                            *)
(*   TypeCorrect        the type invariant;                                *)
(*   FoundersStay       no founder that the inventory has never missed is  *)
(*                      ever removed from the member list.                 *)
(***************************************************************************)
EXTENDS Bootstrap, TLAPS

(* Type correctness *)

\* The budget of faults is never overdrawn (bound MaxFaults).
LEMMA FaultType ==
    ASSUME FleetTypeOK, NEW kind, Fault(kind)
    PROVE  faults' \in 0 .. MaxFaults
BY FleetAssumption DEF FleetTypeOK, Fault

\* Names and URLs of instances are those of members (cloud.Instance).
LEMMA InstanceType ==
    ASSUME NEW n \in Instances
    PROVE  /\ n.name \in Names
           /\ n.endpoint \in Hosts
           /\ PeerURL(n.endpoint) \in PeerURLs
           /\ Founder(n) \in Member
           /\ ID(Founder(n)) \in MemberID
<1>1. n.name \in Names /\ n.endpoint \in Hosts
  BY FleetAssumption DEF Instance
<1>2. PeerURL(n.endpoint) \in PeerURLs
  BY <1>1 DEF PeerURL, PeerURLs
<1>3. 0 \in 0 .. MaxAdds
  BY EtcdAssumption
<1>. QED
  BY <1>1, <1>2, <1>3 DEF Founder, Member, ID, MemberID

\* An ID of a member is an ID.
LEMMA IDType ==
    ASSUME NEW m \in Member
    PROVE  ID(m) \in MemberID
BY DEF Member, ID, MemberID

\* What a process remembers of the fleet consists of instances.
LEMMA ViewType ==
    ASSUME TypeOK, NEW n \in Instances
    PROVE  View(n) \subseteq Instances
BY DEF TypeOK, FleetTypeOK, APITypeOK, View, Inventory

\* A step that calls list() keeps the types of the memo and of the budget.
LEMMA ListType ==
    ASSUME TypeOK, NEW n \in Instances, ListOK(n) \/ ListError(n)
    PROVE  /\ cache' \in [Instances -> SUBSET Instances]
           /\ faults' \in 0 .. MaxFaults
<1>1. GetInstances(n) => cache' \in [Instances -> SUBSET Instances]
  BY ViewType DEF GetInstances, TypeOK, APITypeOK
<1>2. CloudError(n) => cache' \in [Instances -> SUBSET Instances]
  BY DEF CloudError, TypeOK, APITypeOK
<1>3. \A kind : Fault(kind) => faults' \in 0 .. MaxFaults
  BY FaultType DEF TypeOK
<1>4. faults \in 0 .. MaxFaults
  BY DEF TypeOK, FleetTypeOK
<1>. QED
  BY <1>1, <1>2, <1>3, <1>4 DEF ListOK, ListError, CloudError

\* So does a call of Members().
LEMMA MembersType ==
    ASSUME TypeOK, NEW n \in Instances, NEW reply, Members(n, reply)
    PROVE  APITypeOK' /\ faults' \in 0 .. MaxFaults
<1>1. swallowed' \in [Instances -> BOOLEAN]
  BY DEF Members, TypeOK, APITypeOK
<1>. QED
  BY <1>1, ListType DEF Members, APITypeOK

\* A jump to a call leaves pc typed.
LEMMA GotoType ==
    ASSUME TypeOK, NEW n \in Instances, NEW label \in PCs, Goto(n, label)
    PROVE  pc' \in [Instances -> PCs]
BY DEF Goto, TypeOK

\* The end of a process leaves its memory typed.
LEMMA StopType ==
    ASSUME TypeOK, NEW n \in Instances, Stop(n)
    PROVE  /\ APITypeOK'
           /\ pc' \in [Instances -> PCs]
           /\ doomed' \in [Instances -> SUBSET Member]
           /\ target' \in [Instances -> SUBSET Member]
<1>1. pc' \in [Instances -> PCs]
  BY GotoType DEF Stop, PCs
<1>. QED
  BY <1>1 DEF Stop, TypeOK, APITypeOK

\* The addition of a member keeps the types of the cluster.
LEMMA AddType ==
    ASSUME TypeOK, NEW url \in PeerURLs, Add(url), lateAdds' \subseteq PeerURLs
    PROVE  members' \subseteq Member /\ adds' \in 0 .. MaxAdds
<1>1. adds + 1 \in 0 .. MaxAdds
  BY EtcdAssumption DEF TypeOK, EtcdTypeOK, Add
<1>2. [name |-> Blank, peerURL |-> url, stamp |-> adds + 1] \in Member
  BY <1>1 DEF Member
<1>. QED
  BY <1>1, <1>2 DEF Add, TypeOK, EtcdTypeOK

\* So does the removal of one.
LEMMA RemoveType ==
    ASSUME TypeOK, NEW id, Remove(id)
    PROVE  /\ members' \subseteq Member
           /\ up' \subseteq live
           /\ lost' \subseteq Instances
BY DEF Remove, TypeOK, EtcdTypeOK, FleetTypeOK

LEMMA TypeInit == Init => TypeOK
<1>. SUFFICES ASSUME Init PROVE TypeOK
  OBVIOUS
<1>. USE DEF Init
<1>1. FleetTypeOK
  BY FleetAssumption DEF FleetInit, FleetTypeOK
<1>2. EtcdTypeOK
  <2>1. \A i \in Initial : Founder(i) \in Member /\ ID(Founder(i)) \in MemberID
    BY InstanceType, FleetAssumption
  <2>2. adds \in 0 .. MaxAdds
    BY EtcdAssumption DEF EtcdInit
  <2>3. data \in [Instances -> SUBSET MemberID]
    BY <2>1 DEF EtcdInit
  <2>4. seed \in [Instances -> SUBSET Instances]
    BY FleetAssumption DEF EtcdInit
  <2>. QED
    BY <2>1, <2>2, <2>3, <2>4, FleetAssumption DEF EtcdInit, EtcdTypeOK, FleetInit
<1>3. APITypeOK
  BY DEF APIInit, APITypeOK
<1>4. pc \in [Instances -> PCs]
  BY DEF PCs
<1>5. file \in [Instances -> Flags]
  BY FleetAssumption DEF Flags, NoFlags
<1>. QED
  BY <1>1, <1>2, <1>3, <1>4, <1>5 DEF TypeOK
\* The steps of GenerateEtcdFlags and reconcileMembers.
LEMMA TypeStepProcess ==
    ASSUME TypeOK, NEW n \in Instances, Step(n)
    PROVE  TypeOK'
<1>. USE DEF fleetVars, etcdVars, apiVars, localVars
<1>1. CASE Start(n)
  <2>1. pc' \in [Instances -> PCs]
    BY <1>1, GotoType DEF Start, PCs
  <2>. QED
    BY <1>1, <2>1 DEF Start, TypeOK, FleetTypeOK, EtcdTypeOK, APITypeOK
<1>2. CASE ClusterExists(n)
  <2>1. PICK reply \in {{}, members} :
           /\ Members(n, reply)
           /\ Goto(n, IF reply = {} THEN "newConfig" ELSE "nodeExists")
    BY <1>2 DEF ClusterExists
  <2>2. APITypeOK' /\ faults' \in 0 .. MaxFaults
    BY <2>1, MembersType
  <2>3. pc' \in [Instances -> PCs]
    BY <2>1, GotoType DEF PCs
  <2>. QED
    BY <1>2, <2>2, <2>3 DEF ClusterExists, TypeOK, FleetTypeOK, EtcdTypeOK
<1>3. CASE NodeExists(n)
  <2>1. PICK reply \in {{}, members} :
           /\ Members(n, reply)
           /\ Goto(n, IF n.name \in MemberNames(reply) THEN "newConfig"
                                                        ELSE "removeOld")
    BY <1>3 DEF NodeExists
  <2>2. APITypeOK' /\ faults' \in 0 .. MaxFaults
    BY <2>1, MembersType
  <2>3. pc' \in [Instances -> PCs]
    BY <2>1, GotoType DEF PCs
  <2>. QED
    BY <1>3, <2>2, <2>3 DEF NodeExists, TypeOK, FleetTypeOK, EtcdTypeOK
<1>4. CASE NewConfig(n)
  <2>1. cache' \in [Instances -> SUBSET Instances]
    BY <1>4, ViewType DEF NewConfig, GetInstances, TypeOK, APITypeOK
  <2>2. file' \in [Instances -> Flags]
    BY <1>4, ViewType DEF NewConfig, InitialCluster, Flags, TypeOK
  <2>3. pc' \in [Instances -> PCs]
    BY <1>4, GotoType DEF NewConfig, PCs
  <2>. QED
    BY <1>4, <2>1, <2>2, <2>3
       DEF NewConfig, TypeOK, FleetTypeOK, EtcdTypeOK, APITypeOK
<1>5. CASE ExistingConfig(n)
  <2>1. PICK reply \in {{}, members} :
           /\ Members(n, reply)
           /\ file' = [file EXCEPT ![n] = [state |-> "existing",
                            initial |-> InitialCluster(n, URLs(reply))]]
    BY <1>5 DEF ExistingConfig
  <2>2. APITypeOK' /\ faults' \in 0 .. MaxFaults
    BY <2>1, MembersType
  <2>3. file' \in [Instances -> Flags]
    BY <2>1, ViewType DEF InitialCluster, Flags, TypeOK
  <2>4. pc' \in [Instances -> PCs]
    BY <1>5, GotoType DEF ExistingConfig, PCs
  <2>. QED
    BY <1>5, <2>2, <2>3, <2>4
       DEF ExistingConfig, TypeOK, FleetTypeOK, EtcdTypeOK
<1>6. CASE ListOldMembers(n)
  <2>1. PICK reply \in {{}, members} :
           /\ Members(n, reply)
           /\ LET stale == {m \in reply : Stale(View(n), m)}
              IN  /\ doomed' = [doomed EXCEPT ![n] = stale]
                  /\ Goto(n, IF stale = {} THEN "addLocal" ELSE "remove")
    BY <1>6 DEF ListOldMembers
  <2>2. APITypeOK' /\ faults' \in 0 .. MaxFaults
    BY <2>1, MembersType
  <2>3. doomed' \in [Instances -> SUBSET Member]
    BY <2>1 DEF TypeOK, EtcdTypeOK
  <2>4. pc' \in [Instances -> PCs]
    BY <2>1, GotoType DEF PCs
  <2>. QED
    BY <1>6, <2>2, <2>3, <2>4
       DEF ListOldMembers, TypeOK, FleetTypeOK, EtcdTypeOK
<1>7. CASE FindMember(n)
  <2>1. PICK m \in doomed[n] :
           /\ doomed' = [doomed EXCEPT ![n] = @ \ {m}]
           /\ \/ \E found \in {{}} \cup {{x} : x \in members} :
                   /\ FindByName(n, m.name, found)
                   /\ target' = [target EXCEPT ![n] = found]
                   /\ IF found = {} THEN Loop(n, doomed[n] \ {m})
                                    ELSE Goto(n, "removeCall")
              \/ /\ ListError(n)
                 /\ Loop(n, doomed[n] \ {m})
                 /\ UNCHANGED target
    BY <1>7 DEF FindMember
  <2>2. ListOK(n) \/ ListError(n)
    BY <2>1 DEF FindByName
  <2>3. cache' \in [Instances -> SUBSET Instances] /\ faults' \in 0 .. MaxFaults
    BY <2>2, ListType
  <2>4. doomed' \in [Instances -> SUBSET Member]
    BY <2>1 DEF TypeOK
  <2>5. target' \in [Instances -> SUBSET Member]
    BY <2>1 DEF TypeOK, EtcdTypeOK
  <2>6. pc' \in [Instances -> PCs]
    BY <2>1, GotoType DEF Loop, PCs
  <2>. QED
    BY <1>7, <2>3, <2>4, <2>5, <2>6
       DEF FindMember, TypeOK, FleetTypeOK, EtcdTypeOK, APITypeOK
<1>8. CASE RemoveMember(n)
  <2>1. PICK m \in target[n] : RemoveApplied(n, m) \/ RemoveFailed(n, m)
    BY <1>8 DEF RemoveMember
  <2>2. m \in Member /\ ID(m) \in MemberID
    BY <2>1, IDType DEF TypeOK
  <2>3. EtcdTypeOK' /\ faults' \in 0 .. MaxFaults
    <3>1. CASE RemoveApplied(n, m)
      BY <1>8, <3>1, RemoveType
         DEF RemoveMember, RemoveApplied, Remove, TypeOK, EtcdTypeOK, FleetTypeOK
    <3>2. CASE RemoveFailed(n, m)
      BY <1>8, <2>2, <3>2, FaultType
         DEF RemoveMember, RemoveFailed, TypeOK, EtcdTypeOK, FleetTypeOK
    <3>. QED
      BY <2>1, <3>1, <3>2
  <2>4. pc' \in [Instances -> PCs]
    BY <1>8, GotoType DEF RemoveMember, Loop, PCs
  <2>5. target' \in [Instances -> SUBSET Member]
    BY <1>8 DEF RemoveMember, TypeOK
  <2>. QED
    BY <1>8, <2>3, <2>4, <2>5 DEF RemoveMember, TypeOK, FleetTypeOK, APITypeOK
<1>9. CASE ListBeforeAdd(n)
  <2>1. PICK reply \in {{}, members} :
           /\ Members(n, reply)
           /\ Goto(n, IF \/ n.name \in MemberNames(reply)
                         \/ PeerURL(n.endpoint) \in URLs(reply)
                      THEN "existingConfig" ELSE "add")
    BY <1>9 DEF ListBeforeAdd
  <2>2. APITypeOK' /\ faults' \in 0 .. MaxFaults
    BY <2>1, MembersType
  <2>3. pc' \in [Instances -> PCs]
    BY <2>1, GotoType DEF PCs
  <2>. QED
    BY <1>9, <2>2, <2>3 DEF ListBeforeAdd, TypeOK, FleetTypeOK, EtcdTypeOK
<1>10. CASE AddMember(n)
  <2>1. PeerURL(n.endpoint) \in PeerURLs
    BY InstanceType
  <2>2. CASE /\ AddApplied(n, PeerURL(n.endpoint))
             /\ Goto(n, "existingConfig")
             /\ UNCHANGED <<apiVars, localVars>>
    <3>1. lateAdds' \subseteq PeerURLs
      BY <2>2 DEF AddApplied, TypeOK, EtcdTypeOK
    <3>2. members' \subseteq Member /\ adds' \in 0 .. MaxAdds
      BY <2>1, <2>2, <3>1, AddType DEF AddApplied
    <3>3. pc' \in [Instances -> PCs]
      BY <2>2, GotoType DEF PCs
    <3>. QED
      BY <1>10, <2>2, <3>1, <3>2, <3>3
         DEF AddMember, AddApplied, Add, TypeOK, FleetTypeOK, EtcdTypeOK, APITypeOK
  <2>3. CASE AddFailed(n, PeerURL(n.endpoint)) /\ Stop(n)
    <3>1. faults' \in 0 .. MaxFaults
      BY <2>3, FaultType DEF AddFailed, TypeOK, FleetTypeOK
    <3>2. lateAdds' \subseteq PeerURLs
      BY <2>1, <2>3 DEF AddFailed, TypeOK, EtcdTypeOK
    <3>. QED
      BY <1>10, <2>3, <3>1, <3>2, StopType
         DEF AddMember, AddFailed, TypeOK, FleetTypeOK, EtcdTypeOK
  <2>. QED
    BY <1>10, <2>2, <2>3 DEF AddMember
<1>11. CASE Register(n)
  <2>1. pc' \in [Instances -> PCs]
    BY <1>11, GotoType DEF Register, PCs
  <2>. QED
    BY <1>11, <2>1 DEF Register, TypeOK, FleetTypeOK, EtcdTypeOK, APITypeOK
<1>. QED
  BY <1>1, <1>2, <1>3, <1>4, <1>5, <1>6, <1>7, <1>8, <1>9, <1>10, <1>11 DEF Step

\* The steps of etcd.
LEMMA TypeStepEtcd ==
    ASSUME TypeOK, NEW n \in Instances, EtcdStep(n)
    PROVE  TypeOK'
<1>. USE DEF fleetVars, etcdVars, apiVars, localVars
<1>1. CASE StartEtcd(n)
  <2>1. EtcdTypeOK'
    <3>1. CASE Seed(n, file[n])
      <4>1. file[n].initial \subseteq Instances
        BY DEF TypeOK, Flags
      <4>. QED
        BY <1>1, <3>1, <4>1 DEF StartEtcd, Seed, TypeOK, EtcdTypeOK
    <3>2. CASE StartFounder(n)
      BY <1>1, <3>2, InstanceType DEF StartEtcd, StartFounder, TypeOK, EtcdTypeOK
    <3>3. CASE Join(n, file[n])
      <4>1. PICK m \in members : data' = [data EXCEPT ![n] = {ID(m)}]
        BY <3>3 DEF Join
      <4>2. ID(m) \in MemberID
        BY IDType DEF TypeOK, EtcdTypeOK
      <4>. QED
        BY <1>1, <3>3, <4>1, <4>2 DEF StartEtcd, Join, TypeOK, EtcdTypeOK
    <3>4. CASE Serve(n)
      <4>1. PICK m \in members :
               members' = (members \ {m}) \cup {[m EXCEPT !.name = n.name]}
        BY <3>4 DEF Serve
      <4>2. [m EXCEPT !.name = n.name] \in Member
        BY InstanceType DEF TypeOK, EtcdTypeOK, Member
      <4>. QED
        BY <1>1, <3>4, <4>1, <4>2 DEF StartEtcd, Serve, TypeOK, EtcdTypeOK
    <3>. QED
      BY <1>1, <3>1, <3>2, <3>3, <3>4 DEF StartEtcd
  <2>. QED
    BY <1>1, <2>1 DEF StartEtcd, TypeOK, FleetTypeOK, APITypeOK
<1>2. CASE FormCluster(n)
  <2>1. Form(seed[n], Waiting(seed[n])) /\ Waiting(seed[n]) \subseteq live
    BY <1>2 DEF FormCluster, Waiting
  <2>2. seed[n] \subseteq Instances
    BY DEF TypeOK, EtcdTypeOK
  <2>3. \A i \in Instances : Founder(i) \in Member /\ ID(Founder(i)) \in MemberID
    BY InstanceType
  <2>4. data' \in [Instances -> SUBSET MemberID]
    BY <2>1, <2>3 DEF Form, TypeOK, EtcdTypeOK
  <2>5. EtcdTypeOK'
    BY <1>2, <2>1, <2>2, <2>3, <2>4 DEF FormCluster, Form, TypeOK, EtcdTypeOK
  <2>. QED
    BY <1>2, <2>5 DEF FormCluster, TypeOK, FleetTypeOK, APITypeOK
<1>. QED
  BY <1>1, <1>2 DEF EtcdStep

\* The steps of the environment.
LEMMA TypeStepEnvironment ==
    ASSUME TypeOK, (\E n \in Instances : Disturb(n) \/ Launch(n)) \/ ApplyLate
    PROVE  TypeOK'
<1>. USE DEF fleetVars, etcdVars, apiVars, localVars
<1>f. \A kind : Fault(kind) => faults' \in 0 .. MaxFaults
  BY FaultType DEF TypeOK
<1>1. ASSUME NEW n \in Instances, Fails(n) PROVE TypeOK'
  <2>1. faults' \in 0 .. MaxFaults
    BY <1>1, <1>f DEF Fails, MembersError
  <2>. QED
    BY <1>1, <2>1, StopType DEF Fails, TypeOK, FleetTypeOK, EtcdTypeOK
<1>2. ASSUME NEW n \in Instances, Crash(n) PROVE TypeOK'
  BY <1>2, <1>f, StopType DEF Crash, TypeOK, FleetTypeOK, EtcdTypeOK
<1>3. ASSUME NEW n \in Instances, RestartEtcd(n) PROVE TypeOK'
  BY <1>3, <1>f DEF RestartEtcd, TypeOK, FleetTypeOK, EtcdTypeOK, APITypeOK
<1>4. ASSUME NEW n \in Instances, Terminate(n) PROVE TypeOK'
  <2>1. file' \in [Instances -> Flags]
    BY <1>4 DEF Terminate, NoFlags, Flags, TypeOK
  <2>. QED
    BY <1>4, <2>1, <1>f, StopType
       DEF Terminate, FleetTerminate, TypeOK, FleetTypeOK, EtcdTypeOK
<1>5. ASSUME NEW n \in Instances, Launch(n) PROVE TypeOK'
  BY <1>5 DEF Launch, FleetLaunch, TypeOK, FleetTypeOK, EtcdTypeOK, APITypeOK
<1>6. ASSUME NEW n \in Instances, PowerOff(n) PROVE TypeOK'
  BY <1>6, <1>f, StopType DEF PowerOff, FleetStop, TypeOK, FleetTypeOK, EtcdTypeOK
<1>7. ASSUME NEW n \in Instances, PowerOn(n) PROVE TypeOK'
  BY <1>7 DEF PowerOn, FleetReturn, TypeOK, FleetTypeOK, EtcdTypeOK, APITypeOK
<1>8. ASSUME ApplyLate PROVE TypeOK'
  <2>1. ASSUME NEW url \in lateAdds, LateAdd(url) PROVE EtcdTypeOK'
    <3>1. url \in PeerURLs /\ lateAdds' \subseteq PeerURLs
      BY <2>1 DEF LateAdd, TypeOK, EtcdTypeOK
    <3>2. CASE Add(url)
      BY <2>1, <3>1, <3>2, <1>8, AddType
         DEF Add, ApplyLate, TypeOK, EtcdTypeOK, FleetTypeOK
    <3>3. CASE UNCHANGED <<members, adds, founding, seed, data, up, lateRemoves, lost>>
      BY <3>1, <3>3, <1>8 DEF ApplyLate, TypeOK, EtcdTypeOK
    <3>. QED
      BY <2>1, <3>2, <3>3 DEF LateAdd
  <2>2. ASSUME NEW id \in lateRemoves, LateRemove(id) PROVE EtcdTypeOK'
    <3>1. lateRemoves' \subseteq MemberID
      BY <2>2 DEF LateRemove, TypeOK, EtcdTypeOK
    <3>2. CASE Remove(id)
      BY <2>2, <3>1, <3>2, <1>8, RemoveType
         DEF Remove, ApplyLate, TypeOK, EtcdTypeOK, FleetTypeOK
    <3>3. CASE UNCHANGED <<members, adds, founding, seed, data, up, lateAdds, lost>>
      BY <3>1, <3>3, <1>8 DEF ApplyLate, TypeOK, EtcdTypeOK
    <3>. QED
      BY <2>2, <3>2, <3>3 DEF LateRemove
  <2>. QED
    BY <1>8, <2>1, <2>2 DEF ApplyLate, TypeOK, FleetTypeOK, APITypeOK
<1>. QED
  BY <1>1, <1>2, <1>3, <1>4, <1>5, <1>6, <1>7, <1>8 DEF Disturb

LEMMA TypeStep == TypeOK /\ [Next]_vars => TypeOK'
<1>. SUFFICES ASSUME TypeOK, [Next]_vars PROVE TypeOK'
  OBVIOUS
<1>1. CASE UNCHANGED vars
  BY <1>1 DEF vars, TypeOK, FleetTypeOK, EtcdTypeOK, APITypeOK
<1>2. CASE Next
  BY <1>2, TypeStepProcess, TypeStepEtcd, TypeStepEnvironment DEF Next
<1>. QED
  BY <1>1, <1>2

\* Every state of every behaviour is well typed: stored flags name instances,
\* members carry names and URLs of instances, only live instances serve, and the
\* bounds are respected.
THEOREM TypeCorrect == Spec => []TypeOK
<1>. QED
  BY TypeInit, TypeStep, PTL DEF Spec
-----------------------------------------------------------------------------
(* No founder that has never been missing is evicted *)

\* Lasting never grows: a machine that has gone does not return, and one that was
\* stopped and not listed has been missing.

\* What every view, list and request of a running process spares.
Sparing ==
    /\ \A n \in Instances : Lasting \subseteq View(n)
    /\ \A n \in Instances : \A m \in doomed[n] : m.name \notin NamesOf(Lasting)
    /\ \A n \in Instances : \A m \in target[n] :
         \A i \in Lasting : ID(m) # ID(Founder(i))
    /\ \A id \in lateRemoves : \A i \in Lasting : id # ID(Founder(i))

\* The inductive invariant.  Removal goes by name first and by ID then: URLs tell
\* members apart, so the ID of a member of another name is another ID.
FoundersInv ==
    /\ founding = Initial
    /\ Initial \subseteq launched
    /\ ListsStopped \/ halted \subseteq away
    /\ \A i, j \in live \cup halted : i # j => ~Clash(i, j)
    /\ \A m1, m2 \in members : m1.peerURL = m2.peerURL => m1 = m2
    /\ \A i \in Lasting : Founder(i) \in members
    /\ Sparing

\* One peer URL per address (peerURL of bootstrap.go).
LEMMA URLOfHost ==
    ASSUME NEW g, NEW h, PeerURL(g) = PeerURL(h)
    PROVE  g = h
BY DEF PeerURL

\* The data directory of a machine belongs to a member with its URL.
OwnData == \A n \in Instances : \A id \in data[n] : id[1] = PeerURL(n.endpoint)

LEMMA OwnDataInit == Init => OwnData
BY DEF Init, EtcdInit, OwnData, ID, Founder

\* Only a founder and a machine that joins take up a membership, each the one with
\* its URL; everybody else keeps or loses what they have.
LEMMA OwnDataStep == TypeOK /\ OwnData /\ [Next]_vars => OwnData'
<1>. SUFFICES ASSUME TypeOK, OwnData, [Next]_vars PROVE OwnData'
  OBVIOUS
<1>. USE DEF etcdVars
<1>t. data \in [Instances -> SUBSET MemberID]
  BY DEF TypeOK, EtcdTypeOK
<1>1. ASSUME NEW n \in Instances, Step(n) PROVE UNCHANGED data
  BY <1>1
     DEF Step, Start, ClusterExists, NodeExists, NewConfig, ListOldMembers, FindMember,
         RemoveMember, RemoveApplied, RemoveFailed, Remove, ListBeforeAdd, AddMember,
         AddApplied, AddFailed, Add, ExistingConfig, Register
<1>2. ASSUME NEW n \in Instances, StartEtcd(n) PROVE OwnData'
  <2>1. \/ UNCHANGED data
        \/ \E m : m.peerURL = PeerURL(n.endpoint) /\ data' = [data EXCEPT ![n] = {ID(m)}]
    BY <1>2 DEF StartEtcd, Seed, StartFounder, Founder, Join, Serve
  <2>. QED
    BY <1>t, <2>1 DEF OwnData, ID
<1>3. ASSUME NEW n \in Instances, FormCluster(n) PROVE OwnData'
  <2>1. \A i \in Instances : data'[i] \in {data[i], {ID(Founder(i))}}
    BY <1>3 DEF FormCluster, Form
  <2>. QED
    BY <2>1 DEF OwnData, ID, Founder
<1>4. ASSUME NEW n \in Instances, Terminate(n) PROVE OwnData'
  BY <1>t, <1>4 DEF Terminate, OwnData
<1>5. ASSUME NEW n \in Instances, Disturb(n) \/ Launch(n), ~Terminate(n)
      PROVE  UNCHANGED data
  BY <1>5 DEF Disturb, Launch, Fails, Crash, RestartEtcd, PowerOff, PowerOn
<1>6. ApplyLate \/ UNCHANGED vars => UNCHANGED data
  BY DEF ApplyLate, LateAdd, Add, LateRemove, Remove, vars
<1>7. UNCHANGED data => OwnData'
  BY DEF OwnData
<1>. QED
  BY <1>1, <1>2, <1>3, <1>4, <1>5, <1>6, <1>7 DEF Next, EtcdStep

LEMMA FoundersInit == Init /\ Formed => FoundersInv
<1>. SUFFICES ASSUME Init, Formed PROVE FoundersInv
  OBVIOUS
<1>. USE DEF Init
<1>1. founding = Initial /\ members = {Founder(i) : i \in Initial}
  BY DEF EtcdInit
<1>2. live = Initial /\ launched = Initial /\ halted = {}
  BY DEF FleetInit
<1>3. ASSUME NEW i \in Initial, NEW j \in Initial,
             Founder(i).peerURL = Founder(j).peerURL
      PROVE  i = j
  BY <1>3, URLOfHost, FleetAssumption DEF Founder, Clash
<1>4. Sparing
  BY <1>2, FleetAssumption
     DEF APIInit, EtcdInit, Sparing, View, Lasting, Inventory
<1>. QED
  BY <1>1, <1>2, <1>3, <1>4, FleetAssumption DEF FoundersInv, Lasting, Inventory

\* A step that leaves the fleet alone leaves the inventory alone.
LEMMA FleetFrame ==
    ASSUME UNCHANGED fleetVars
    PROVE  Inventory' = Inventory /\ Lasting' = Lasting
BY DEF fleetVars, Inventory, Lasting

\* The remembered answer of a call to list() still covers the running founders.
LEMMA ListSpares ==
    ASSUME TypeOK, FoundersInv, NEW n \in Instances, ListOK(n) \/ ListError(n),
           UNCHANGED fleetVars
    PROVE  \A k \in Instances : Lasting' \subseteq View(k)'
<1>1. Inventory' = Inventory /\ Lasting' = Lasting
  BY FleetFrame
<1>2. \A k \in Instances : Lasting \subseteq View(k)
  BY DEF FoundersInv, Sparing
<1>3. cache' = cache \/ cache' = [cache EXCEPT ![n] = View(n)]
  BY DEF ListOK, ListError, GetInstances, CloudError
<1>. QED
  BY <1>1, <1>2, <1>3 DEF View, TypeOK, APITypeOK

LEMMA MembersSpares ==
    ASSUME TypeOK, FoundersInv, NEW n \in Instances, NEW reply, Members(n, reply),
           UNCHANGED fleetVars
    PROVE  \A k \in Instances : Lasting' \subseteq View(k)'
BY ListSpares DEF Members

\* A process that ends, or a machine that goes, forgets.
LEMMA StopSpares ==
    ASSUME TypeOK, FoundersInv, NEW n \in Instances, Stop(n),
           Lasting' \subseteq Lasting,
           \A id \in lateRemoves' : \A i \in Lasting : id # ID(Founder(i))
    PROVE  Sparing'
<1>1. Lasting' \subseteq Lasting
  OBVIOUS
<1>2. \A k \in Instances : Lasting' \subseteq View(k)'
  BY <1>1 DEF Stop, View, Lasting, Inventory, FoundersInv, Sparing, TypeOK, APITypeOK
<1>3. \A k \in Instances : doomed'[k] \subseteq doomed[k] /\ target'[k] \subseteq target[k]
  BY DEF Stop, TypeOK
<1>. QED
  BY <1>1, <1>2, <1>3 DEF FoundersInv, Sparing, NamesOf

\* The parts of the invariant that a step which leaves fleet and members alone
\* keeps.
LEMMA FoundersFrame ==
    ASSUME FoundersInv, UNCHANGED fleetVars, UNCHANGED <<members, founding>>, Sparing'
    PROVE  FoundersInv'
BY DEF FoundersInv, Lasting, Inventory, fleetVars

\* The removal of a member that is no running founder spares them all.
LEMMA RemoveSpares ==
    ASSUME FoundersInv, NEW id, Remove(id),
           \A i \in Lasting : id # ID(Founder(i))
    PROVE  /\ founding' = founding
           /\ \A m1, m2 \in members' : m1.peerURL = m2.peerURL => m1 = m2
           /\ \A i \in Lasting : Founder(i) \in members'
BY DEF FoundersInv, Remove

\* So does the addition of one.
LEMMA AddSpares ==
    ASSUME FoundersInv, NEW url, Add(url)
    PROVE  /\ founding' = founding
           /\ \A m1, m2 \in members' : m1.peerURL = m2.peerURL => m1 = m2
           /\ \A i \in Lasting : Founder(i) \in members'
BY DEF FoundersInv, Add, URLs

\* A member found by a name that is no running founder's has another ID.
LEMMA OtherNameOtherID ==
    ASSUME FoundersInv, NEW m \in members, m.name \notin NamesOf(Lasting),
           NEW i \in Lasting
    PROVE  ID(m) # ID(Founder(i))
<1>. SUFFICES ASSUME ID(m) = ID(Founder(i)) PROVE FALSE
  OBVIOUS
<1>1. m.peerURL = Founder(i).peerURL
  BY DEF ID
<1>2. m = Founder(i)
  BY <1>1 DEF FoundersInv
<1>3. m.name = i.name
  BY <1>2 DEF Founder
<1>. QED
  BY <1>3 DEF NamesOf
LEMMA FoundersStepProcess ==
    ASSUME TypeOK, FoundersInv, NEW n \in Instances, Step(n)
    PROVE  FoundersInv'
<1>. USE DEF fleetVars, etcdVars, apiVars, localVars
<1>0. Lasting' = Lasting /\ Inventory' = Inventory
  BY DEF Lasting, Inventory, Step, Start, ClusterExists, NodeExists, NewConfig, ExistingConfig,
         ListOldMembers, FindMember, RemoveMember, ListBeforeAdd, AddMember,
         Register
<1>1. CASE Start(n)
  <2>1. Sparing'
    BY <1>0, <1>1 DEF Start, FoundersInv, Sparing, View
  <2>. QED
    BY <1>1, <2>1, FoundersFrame DEF Start
<1>2. CASE ClusterExists(n)
  <2>1. \A k \in Instances : Lasting' \subseteq View(k)'
    BY <1>2, MembersSpares DEF ClusterExists
  <2>2. Sparing'
    BY <1>0, <1>2, <2>1 DEF ClusterExists, FoundersInv, Sparing
  <2>. QED
    BY <1>2, <2>2, FoundersFrame DEF ClusterExists
<1>3. CASE NodeExists(n)
  <2>1. \A k \in Instances : Lasting' \subseteq View(k)'
    BY <1>3, MembersSpares DEF NodeExists
  <2>2. Sparing'
    BY <1>0, <1>3, <2>1 DEF NodeExists, FoundersInv, Sparing
  <2>. QED
    BY <1>3, <2>2, FoundersFrame DEF NodeExists
<1>4. CASE NewConfig(n)
  <2>1. \A k \in Instances : View(k)' = View(k)
    BY <1>0, <1>4 DEF NewConfig, GetInstances, View, TypeOK, APITypeOK
  <2>2. Sparing'
    BY <1>0, <1>4, <2>1 DEF NewConfig, FoundersInv, Sparing
  <2>. QED
    BY <1>4, <2>2, FoundersFrame DEF NewConfig
<1>5. CASE ExistingConfig(n)
  <2>1. \A k \in Instances : Lasting' \subseteq View(k)'
    BY <1>5, MembersSpares DEF ExistingConfig
  <2>2. Sparing'
    BY <1>0, <1>5, <2>1 DEF ExistingConfig, FoundersInv, Sparing
  <2>. QED
    BY <1>5, <2>2, FoundersFrame DEF ExistingConfig
<1>6. CASE ListOldMembers(n)
  <2>1. PICK reply \in {{}, members} :
           /\ Members(n, reply)
           /\ doomed' = [doomed EXCEPT ![n] = {m \in reply : Stale(View(n), m)}]
    BY <1>6 DEF ListOldMembers
  <2>2. \A k \in Instances : Lasting' \subseteq View(k)'
    BY <1>6, <2>1, MembersSpares DEF ListOldMembers
  <2>3. \A k \in Instances : \A m \in doomed'[k] : m.name \notin NamesOf(Lasting)
    BY <2>1 DEF FoundersInv, Sparing, Stale, NamesOf, TypeOK
  <2>4. Sparing'
    BY <1>0, <1>6, <2>2, <2>3 DEF ListOldMembers, FoundersInv, Sparing
  <2>. QED
    BY <1>6, <2>4, FoundersFrame DEF ListOldMembers
<1>7. CASE FindMember(n)
  <2>1. PICK m \in doomed[n] :
           /\ doomed' = [doomed EXCEPT ![n] = @ \ {m}]
           /\ \/ \E found \in {{}} \cup {{x} : x \in members} :
                   /\ FindByName(n, m.name, found)
                   /\ target' = [target EXCEPT ![n] = found]
              \/ ListError(n) /\ UNCHANGED target
    BY <1>7 DEF FindMember
  <2>2. \A k \in Instances : Lasting' \subseteq View(k)'
    <3>1. ListOK(n) \/ ListError(n)
      BY <2>1 DEF FindByName
    <3>. QED
      BY <1>7, <3>1, ListSpares DEF FindMember
  <2>3. m.name \notin NamesOf(Lasting)
    BY DEF FoundersInv, Sparing
  <2>4. \A k \in Instances : \A x \in target'[k] :
          \A i \in Lasting : ID(x) # ID(Founder(i))
    <3>1. CASE UNCHANGED target
      BY <3>1 DEF FoundersInv, Sparing
    <3>2. ASSUME NEW found \in {{}} \cup {{x} : x \in members},
                 FindByName(n, m.name, found),
                 target' = [target EXCEPT ![n] = found]
          PROVE  \A k \in Instances : \A x \in target'[k] :
                   \A i \in Lasting : ID(x) # ID(Founder(i))
      <4>1. \A x \in found : x \in members /\ x.name = m.name
        BY <3>2 DEF FindByName
      <4>2. \A x \in found : \A i \in Lasting : ID(x) # ID(Founder(i))
        BY <4>1, <2>3, OtherNameOtherID
      <4>. QED
        BY <3>2, <4>2 DEF FoundersInv, Sparing, TypeOK
    <3>. QED
      BY <2>1, <3>1, <3>2
  <2>5. \A k \in Instances : doomed'[k] \subseteq doomed[k]
    BY <2>1 DEF TypeOK
  <2>6. Sparing'
    BY <1>0, <1>7, <2>2, <2>4, <2>5 DEF FindMember, FoundersInv, Sparing
  <2>. QED
    BY <1>7, <2>6, FoundersFrame DEF FindMember
<1>8. CASE RemoveMember(n)
  <2>1. PICK m \in target[n] : RemoveApplied(n, m) \/ RemoveFailed(n, m)
    BY <1>8 DEF RemoveMember
  <2>2. \A i \in Lasting : ID(m) # ID(Founder(i))
    BY DEF FoundersInv, Sparing
  <2>3. Sparing'
    <3>1. \A k \in Instances : View(k)' = View(k) /\ target'[k] \subseteq target[k]
      BY <1>0, <1>8 DEF RemoveMember, View, TypeOK
    <3>2. lateRemoves' \subseteq lateRemoves \cup {ID(m)}
      BY <2>1 DEF RemoveApplied, RemoveFailed
    <3>. QED
      BY <1>0, <1>8, <2>2, <3>1, <3>2 DEF RemoveMember, FoundersInv, Sparing
  <2>4. CASE RemoveApplied(n, m)
    <3>1. /\ founding' = founding
          /\ \A m1, m2 \in members' : m1.peerURL = m2.peerURL => m1 = m2
          /\ \A i \in Lasting : Founder(i) \in members'
      BY <2>2, <2>4, RemoveSpares DEF RemoveApplied
    <3>. QED
      BY <1>0, <1>8, <2>3, <3>1 DEF RemoveMember, FoundersInv
  <2>5. CASE RemoveFailed(n, m)
    BY <1>8, <2>3, <2>5, FoundersFrame DEF RemoveMember, RemoveFailed
  <2>. QED
    BY <2>1, <2>4, <2>5
<1>9. CASE ListBeforeAdd(n)
  <2>1. \A k \in Instances : Lasting' \subseteq View(k)'
    BY <1>9, MembersSpares DEF ListBeforeAdd
  <2>2. Sparing'
    BY <1>0, <1>9, <2>1 DEF ListBeforeAdd, FoundersInv, Sparing
  <2>. QED
    BY <1>9, <2>2, FoundersFrame DEF ListBeforeAdd
<1>10. CASE AddMember(n)
  <2>1. CASE AddApplied(n, PeerURL(n.endpoint)) /\ UNCHANGED <<apiVars, localVars>>
    <3>1. /\ founding' = founding
          /\ \A m1, m2 \in members' : m1.peerURL = m2.peerURL => m1 = m2
          /\ \A i \in Lasting : Founder(i) \in members'
      BY <2>1, AddSpares DEF AddApplied
    <3>2. Sparing'
      BY <1>0, <1>10, <2>1
         DEF AddMember, AddApplied, Add, FoundersInv, Sparing, View
    <3>. QED
      BY <1>0, <1>10, <3>1, <3>2 DEF AddMember, FoundersInv
  <2>2. CASE AddFailed(n, PeerURL(n.endpoint)) /\ Stop(n)
    <3>1. Sparing'
      BY <1>0, <1>10, <2>2, StopSpares DEF AddMember, AddFailed, FoundersInv, Sparing
    <3>. QED
      BY <1>10, <2>2, <3>1, FoundersFrame DEF AddMember, AddFailed
  <2>. QED
    BY <1>10, <2>1, <2>2 DEF AddMember
<1>11. CASE Register(n)
  <2>1. Sparing'
    BY <1>0, <1>11 DEF Register, FoundersInv, Sparing, View
  <2>. QED
    BY <1>11, <2>1, FoundersFrame DEF Register
<1>. QED
  BY <1>1, <1>2, <1>3, <1>4, <1>5, <1>6, <1>7, <1>8, <1>9, <1>10, <1>11 DEF Step

\* etcd renames a member only when it serves for it, with the member's URL, and no
\* two live machines share one.
LEMMA FoundersStepEtcd ==
    ASSUME TypeOK, OwnData, FoundersInv, NEW n \in Instances, EtcdStep(n)
    PROVE  FoundersInv'
<1>. USE DEF fleetVars, etcdVars, apiVars, localVars
<1>1. CASE StartEtcd(n)
  <2>0. Inventory' = Inventory /\ Lasting' = Lasting /\ n \in live
    BY <1>1, FleetFrame DEF StartEtcd
  <2>1. Sparing'
    BY <1>1, <2>0
       DEF StartEtcd, Seed, StartFounder, Join, Serve, FoundersInv, Sparing, View
  <2>2. CASE Seed(n, file[n]) \/ StartFounder(n) \/ Join(n, file[n])
    BY <1>1, <2>1, <2>2, FoundersFrame DEF StartEtcd, Seed, StartFounder, Join
  <2>3. CASE Serve(n)
    <3>1. PICK m \in members :
             LET named == [m EXCEPT !.name = n.name]
             IN  /\ ID(m) \in data[n]
                 /\ members' = (members \ {m}) \cup {named}
      BY <2>3 DEF Serve
    <3>. DEFINE named == [m EXCEPT !.name = n.name]
    <3>2. m \in Member /\ named.peerURL = m.peerURL
      BY DEF TypeOK, EtcdTypeOK, Member
    <3>3. \A m1, m2 \in members' : m1.peerURL = m2.peerURL => m1 = m2
      BY <3>1, <3>2 DEF FoundersInv
    <3>4. m.peerURL = PeerURL(n.endpoint)
      BY <3>1 DEF OwnData, ID
    <3>5. ASSUME NEW i \in Lasting PROVE Founder(i) \in members'
      <4>1. Founder(i) \in members
        BY DEF FoundersInv
      <4>2. CASE Founder(i) # m
        BY <3>1, <4>1, <4>2
      <4>3. CASE Founder(i) = m
        <5>1. i.endpoint = n.endpoint
          BY <3>4, <4>3, URLOfHost DEF Founder
        <5>2. i = n
          BY <2>0, <5>1 DEF FoundersInv, Clash, Lasting, Inventory
        <5>3. named = m
          BY <4>3, <5>2 DEF Founder
        <5>. QED
          BY <3>1, <4>3, <5>3
      <4>. QED
        BY <4>2, <4>3
    <3>. QED
      BY <1>1, <2>0, <2>1, <2>3, <3>3, <3>5 DEF StartEtcd, Serve, FoundersInv
  <2>. QED
    BY <1>1, <2>2, <2>3 DEF StartEtcd
<1>2. CASE FormCluster(n)
  \* The cluster has formed already.
  BY <1>2, FleetAssumption DEF FormCluster, Form, FoundersInv
<1>. QED
  BY <1>1, <1>2 DEF EtcdStep

LEMMA FoundersStepEnvironment ==
    ASSUME TypeOK, FoundersInv,
           (\E n \in Instances : Disturb(n) \/ Launch(n)) \/ ApplyLate
    PROVE  FoundersInv'
<1>. USE DEF fleetVars, etcdVars, apiVars, localVars
<1>1. ASSUME NEW n \in Instances, Fails(n) \/ Crash(n) PROVE FoundersInv'
  <2>1. Sparing'
    BY <1>1, FleetFrame, StopSpares DEF Fails, Crash, FoundersInv, Sparing
  <2>. QED
    BY <1>1, <2>1, FoundersFrame DEF Fails, Crash
<1>2. ASSUME NEW n \in Instances, RestartEtcd(n) PROVE FoundersInv'
  <2>1. Sparing'
    BY <1>2 DEF RestartEtcd, FoundersInv, Sparing, View, Lasting, Inventory
  <2>. QED
    BY <1>2, <2>1, FoundersFrame DEF RestartEtcd
<1>3. ASSUME NEW n \in Instances, Terminate(n) PROVE FoundersInv'
  <2>1. Lasting' \subseteq Lasting
    BY <1>3 DEF Terminate, FleetTerminate, Lasting, Inventory
  <2>2. Sparing'
    BY <1>3, <2>1, StopSpares DEF Terminate, FoundersInv, Sparing
  <2>. QED
    BY <1>3, <2>1, <2>2 DEF Terminate, FleetTerminate, FoundersInv
<1>4. ASSUME NEW n \in Instances, Launch(n) PROVE FoundersInv'
  <2>1. Lasting' = Lasting
    BY <1>4 DEF Launch, FleetLaunch, FoundersInv, Lasting, Inventory
  <2>2. \A i, j \in live' \cup halted' : i # j => ~Clash(i, j)
    BY <1>4 DEF Launch, FleetLaunch, FoundersInv, Clash
  <2>3. \A k \in Instances : View(k) \subseteq View(k)'
    BY <1>4 DEF Launch, FleetLaunch, View, Inventory
  <2>4. Sparing'
    BY <1>4, <2>1, <2>3 DEF Launch, FoundersInv, Sparing
  <2>. QED
    BY <1>4, <2>1, <2>2, <2>4 DEF Launch, FleetLaunch, FoundersInv
<1>5. ASSUME NEW n \in Instances, PowerOff(n) PROVE FoundersInv'
  <2>1. Lasting' \subseteq Lasting
    BY <1>5 DEF PowerOff, FleetStop, Lasting, Inventory
  <2>2. Sparing'
    BY <1>5, <2>1, StopSpares DEF PowerOff, FoundersInv, Sparing
  <2>3. live' \cup halted' = live \cup halted /\ (ListsStopped \/ halted' \subseteq away')
    BY <1>5 DEF PowerOff, FleetStop, FoundersInv
  <2>. QED
    BY <1>5, <2>1, <2>2, <2>3 DEF PowerOff, FleetStop, FoundersInv
<1>6. ASSUME NEW n \in Instances, PowerOn(n) PROVE FoundersInv'
  <2>1. Lasting' = Lasting /\ Inventory \subseteq Inventory'
    BY <1>6 DEF PowerOn, FleetReturn, FoundersInv, Lasting, Inventory
  <2>2. \A k \in Instances : View(k) \subseteq View(k)'
    BY <1>6, <2>1 DEF PowerOn, View
  <2>3. Sparing'
    BY <1>6, <2>1, <2>2 DEF PowerOn, FoundersInv, Sparing
  <2>4. live' \cup halted' = live \cup halted /\ (ListsStopped \/ halted' \subseteq away')
    BY <1>6 DEF PowerOn, FleetReturn, FoundersInv
  <2>. QED
    BY <1>6, <2>1, <2>3, <2>4 DEF PowerOn, FleetReturn, FoundersInv
<1>7. ASSUME ApplyLate PROVE FoundersInv'
  <2>0. Inventory' = Inventory /\ Lasting' = Lasting
    BY <1>7, FleetFrame DEF ApplyLate
  <2>1. ASSUME NEW url \in lateAdds, LateAdd(url) PROVE FoundersInv'
    <3>1. Sparing'
      BY <1>7, <2>0, <2>1 DEF ApplyLate, LateAdd, Add, FoundersInv, Sparing, View
    <3>2. CASE Add(url)
      BY <1>7, <2>0, <3>1, <3>2, AddSpares DEF ApplyLate, FoundersInv
    <3>3. CASE UNCHANGED <<members, adds, founding, seed, data, up, lateRemoves, lost>>
      BY <1>7, <3>1, <3>3, FoundersFrame DEF ApplyLate
    <3>. QED
      BY <2>1, <3>2, <3>3 DEF LateAdd
  <2>2. ASSUME NEW id \in lateRemoves, LateRemove(id) PROVE FoundersInv'
    <3>0. \A i \in Lasting : id # ID(Founder(i))
      BY DEF FoundersInv, Sparing
    <3>1. Sparing'
      BY <1>7, <2>0, <2>2 DEF ApplyLate, LateRemove, FoundersInv, Sparing, View
    <3>2. CASE Remove(id)
      BY <1>7, <2>0, <3>0, <3>1, <3>2, RemoveSpares DEF ApplyLate, FoundersInv
    <3>3. CASE UNCHANGED <<members, adds, founding, seed, data, up, lateAdds, lost>>
      BY <1>7, <3>1, <3>3, FoundersFrame DEF ApplyLate
    <3>. QED
      BY <2>2, <3>2, <3>3 DEF LateRemove
  <2>. QED
    BY <1>7, <2>1, <2>2 DEF ApplyLate
<1>. QED
  BY <1>1, <1>2, <1>3, <1>4, <1>5, <1>6, <1>7 DEF Disturb

LEMMA FoundersStep == TypeOK /\ OwnData /\ FoundersInv /\ [Next]_vars => FoundersInv'
<1>. SUFFICES ASSUME TypeOK, OwnData, FoundersInv, [Next]_vars PROVE FoundersInv'
  OBVIOUS
<1>1. CASE UNCHANGED vars
  BY <1>1 DEF vars, FoundersInv, Sparing, Lasting, Inventory, View
<1>2. CASE Next
  BY <1>2, FoundersStepProcess, FoundersStepEtcd, FoundersStepEnvironment DEF Next
<1>. QED
  BY <1>1, <1>2

\* removeOldEtcdMembers never costs the cluster a founder that the inventory has
\* never missed, not even one that is stopped where stopped machines are listed:
\* whatever calls fail, time out, take effect late or are retried, and however
\* many instances reconcile at once from whatever remembered instance lists.
THEOREM FoundersStay == Spec => []FoundersKept
<1>1. Init => TypeOK /\ OwnData /\ (Formed => FoundersInv)
  BY TypeInit, OwnDataInit, FoundersInit
<1>2. TypeOK /\ OwnData /\ (Formed => FoundersInv) /\ [Next]_vars
        => TypeOK' /\ OwnData' /\ (Formed => FoundersInv)'
  BY TypeStep, OwnDataStep, FoundersStep
<1>3. (Formed => FoundersInv) => FoundersKept
  BY DEF FoundersInv, FoundersKept, Lasting, Inventory
<1>. QED
  BY <1>1, <1>2, <1>3, PTL DEF Spec
=============================================================================
