----------------------------- MODULE Bootstrap -----------------------------
(***************************************************************************)
(* GenerateEtcdFlagsFile of src/bootstrap/bootstrap.go with the            *)
(* reconciliation of src/bootstrap/reconcile.go, run by every instance at  *)
(* once, and the supervision around it (scripts/bootstrap.sh and etcd.sh): *)
(* a process that fails is run again, etcd starts after it has succeeded.  *)
(*                                                                         *)
(* pc names the call that comes next.  Each call to the members API is one *)
(* step, so the calls of different instances interleave, and a process or  *)
(* a machine may die between any two of them.                              *)
(***************************************************************************)
EXTENDS ClusterAPI

CONSTANT Formed  \* whether the cluster exists at the start

ASSUME BootstrapAssumption == Formed \in BOOLEAN

VARIABLES
    pc,      \* per instance: the next call of its bootstrap process
    doomed,  \* per instance: members the loop of removeOldEtcdMembers has left
    target,  \* per instance: the member RemoveMemberByName is about to remove
    file     \* per instance: the flags file

localVars == <<doomed, target>>

vars == <<live, halted, launched, away, faults, members, adds, founding, seed, data, up,
          lateAdds, lateRemoves, lost, cache, swallowed, pc, doomed, target, file>>

PCs == {"idle", "clusterExists", "nodeExists", "newConfig", "removeOld", "remove",
        "removeCall", "addLocal", "add", "existingConfig", "register", "done"}

\* The flags that depend on the cluster: ETCD_INITIAL_CLUSTER_STATE and
\* ETCD_INITIAL_CLUSTER, whose name=URL pairs are instances.
Flags == [state : {"none", "new", "existing"}, initial : SUBSET Instances]

NoFlags == [state |-> "none", initial |-> {}]

TypeOK ==
    /\ FleetTypeOK
    /\ EtcdTypeOK
    /\ APITypeOK
    /\ pc \in [Instances -> PCs]
    /\ doomed \in [Instances -> SUBSET Member]
    /\ target \in [Instances -> SUBSET Member]
    /\ file \in [Instances -> Flags]

Init ==
    /\ FleetInit
    /\ EtcdInit(Formed)
    /\ APIInit
    /\ pc = [n \in Instances |-> IF Formed /\ n \in Initial THEN "done" ELSE "idle"]
    /\ doomed = [n \in Instances |-> {}]
    /\ target = [n \in Instances |-> {}]
    /\ file = [n \in Instances |->
                 IF Formed /\ n \in Initial
                 THEN [state |-> "new", initial |-> Initial] ELSE NoFlags]

Goto(n, label) == pc' = [pc EXCEPT ![n] = label]

\* The process of n ends without a file; its memory is gone.
Stop(n) ==
    /\ Goto(n, "idle")
    /\ cache' = [cache EXCEPT ![n] = {}]
    /\ swallowed' = [swallowed EXCEPT ![n] = FALSE]
    /\ doomed' = [doomed EXCEPT ![n] = {}]
    /\ target' = [target EXCEPT ![n] = {}]

-----------------------------------------------------------------------------
(* GenerateEtcdFlags *)

\* The supervisor starts etcd-bootstrap.
Start(n) ==
    /\ pc[n] = "idle"
    /\ n \in live
    /\ Goto(n, "clusterExists")
    /\ UNCHANGED <<fleetVars, faults, etcdVars, apiVars, localVars, file>>

\* clusterExists: whether any member is listed.
ClusterExists(n) ==
    /\ pc[n] = "clusterExists"
    /\ \E reply \in {{}, members} :
         /\ Members(n, reply)
         /\ Goto(n, IF reply = {} THEN "newConfig" ELSE "nodeExists")
    /\ UNCHANGED <<fleetVars, etcdVars, localVars, file>>

\* Mutant: the local instance is looked up by its peer URL.
NodeExistsByURL(n) ==
    /\ pc[n] = "nodeExists"
    /\ \E reply \in {{}, members} :
         /\ Members(n, reply)
         /\ Goto(n, IF PeerURL(n.endpoint) \in URLs(reply) THEN "newConfig"
                                                            ELSE "removeOld")
    /\ UNCHANGED <<fleetVars, etcdVars, localVars, file>>

\* Mutant: the names are compared with the endpoint.
NodeExistsByEndpoint(n) ==
    /\ pc[n] = "nodeExists"
    /\ \E reply \in {{}, members} :
         /\ Members(n, reply)
         /\ Goto(n, IF n.endpoint \in MemberNames(reply) THEN "newConfig" ELSE "removeOld")
    /\ UNCHANGED <<fleetVars, etcdVars, localVars, file>>

\* nodeExistsInCluster: whether the local instance is listed by its name.
NodeExists(n) ==
    /\ pc[n] = "nodeExists"
    /\ \E reply \in {{}, members} :
         /\ Members(n, reply)
         /\ Goto(n, IF n.name \in MemberNames(reply) THEN "newConfig" ELSE "removeOld")
    /\ UNCHANGED <<fleetVars, etcdVars, localVars, file>>

\* Mutant: the URLs are listed without the names.
InitialClusterURLs(n, urls) == {PeerURL(i.endpoint) : i \in View(n)} \cap urls

\* initialClusterFlagValue: the instances whose peer URL is wanted.
InitialCluster(n, urls) == {i \in View(n) : PeerURL(i.endpoint) \in urls}

\* Mutant: the new cluster is the local instance alone.
NewConfigAlone(n) ==
    /\ pc[n] = "newConfig"
    /\ GetInstances(n)
    /\ file' = [file EXCEPT ![n] = [state |-> "new", initial |-> {n}]]
    /\ Goto(n, "register")
    /\ UNCHANGED <<fleetVars, faults, etcdVars, swallowed, localVars>>

\* Mutant: the new cluster is made of the instances in the member list.
NewConfigOfMembers(n) ==
    /\ pc[n] = "newConfig"
    /\ GetInstances(n)
    /\ file' = [file EXCEPT ![n] =
                  [state |-> "new", initial |-> InitialCluster(n, URLs(members))]]
    /\ Goto(n, "register")
    /\ UNCHANGED <<fleetVars, faults, etcdVars, swallowed, localVars>>

\* createEtcdConfigForNewCluster and the write of the file: every instance.
NewConfig(n) ==
    /\ pc[n] = "newConfig"
    /\ GetInstances(n)
    /\ file' = [file EXCEPT ![n] =
                  [state |-> "new",
                   initial |-> InitialCluster(n, {PeerURL(i.endpoint) : i \in View(n)})]]
    /\ Goto(n, "register")
    /\ UNCHANGED <<fleetVars, faults, etcdVars, swallowed, localVars>>

\* Mutant: the instances are matched with the members by name.
ExistingConfigByName(n) ==
    /\ pc[n] = "existingConfig"
    /\ \E reply \in {{}, members} :
         /\ Members(n, reply)
         /\ file' = [file EXCEPT ![n] =
                       [state |-> "existing",
                        initial |-> {i \in View(n) : i.name \in MemberNames(reply)}]]
    /\ Goto(n, "register")
    /\ UNCHANGED <<fleetVars, etcdVars, localVars>>

\* createEtcdConfigForExistingCluster and the write of the file: the instances
\* of the member list.
ExistingConfig(n) ==
    /\ pc[n] = "existingConfig"
    /\ \E reply \in {{}, members} :
         /\ Members(n, reply)
         /\ file' = [file EXCEPT ![n] =
                       [state |-> "existing", initial |-> InitialCluster(n, URLs(reply))]]
    /\ Goto(n, "register")
    /\ UNCHANGED <<fleetVars, etcdVars, localVars>>

-----------------------------------------------------------------------------
(* reconcileMembers *)

\* A member that removeOldEtcdMembers removes: its name is not the name of an
\* instance, unless it has none yet and its URL is the URL of an instance.
Stale(fleet, m) ==
    /\ m.name \notin NamesOf(fleet)
    /\ ~(m.name = Blank /\ m.peerURL \in {PeerURL(i.endpoint) : i \in fleet})

\* The list the loop runs over.
ListOldMembers(n) ==
    /\ pc[n] = "removeOld"
    /\ \E reply \in {{}, members} :
         /\ Members(n, reply)
         /\ LET stale == {m \in reply : Stale(View(n), m)}
            IN  /\ doomed' = [doomed EXCEPT ![n] = stale]
                /\ Goto(n, IF stale = {} THEN "addLocal" ELSE "remove")
    /\ UNCHANGED <<fleetVars, etcdVars, target, file>>

\* Where the loop continues with the members in rest.
Loop(n, rest) == Goto(n, IF rest = {} THEN "addLocal" ELSE "remove")

\* RemoveMemberByName(m.name), first half: look the member up again.  An error
\* is logged and ignored.
FindMember(n) ==
    /\ pc[n] = "remove"
    /\ \E m \in doomed[n] :
         /\ doomed' = [doomed EXCEPT ![n] = @ \ {m}]
         /\ \/ \E found \in {{}} \cup {{x} : x \in members} :
                 /\ FindByName(n, m.name, found)
                 /\ target' = [target EXCEPT ![n] = found]
                 /\ IF found = {} THEN Loop(n, doomed[n] \ {m})
                                  ELSE Goto(n, "removeCall")
            \/ /\ ListError(n)
               /\ Loop(n, doomed[n] \ {m})
               /\ UNCHANGED target
    /\ UNCHANGED <<fleetVars, etcdVars, swallowed, file>>

\* Second half: remove it.  An error is logged and ignored.
RemoveMember(n) ==
    /\ pc[n] = "removeCall"
    /\ \E m \in target[n] : RemoveApplied(n, m) \/ RemoveFailed(n, m)
    /\ target' = [target EXCEPT ![n] = {}]
    /\ Loop(n, doomed[n])
    /\ UNCHANGED <<fleetVars, apiVars, doomed, file>>

\* Mutant: a URL that is listed already is added again.
ListBeforeAddByName(n) ==
    /\ pc[n] = "addLocal"
    /\ \E reply \in {{}, members} :
         /\ Members(n, reply)
         /\ Goto(n, IF n.name \in MemberNames(reply) THEN "existingConfig" ELSE "add")
    /\ UNCHANGED <<fleetVars, etcdVars, localVars, file>>

\* addLocalInstanceToEtcd: the member is added unless its name or its URL is
\* listed.
ListBeforeAdd(n) ==
    /\ pc[n] = "addLocal"
    /\ \E reply \in {{}, members} :
         /\ Members(n, reply)
         /\ Goto(n, IF \/ n.name \in MemberNames(reply)
                       \/ PeerURL(n.endpoint) \in URLs(reply)
                    THEN "existingConfig" ELSE "add")
    /\ UNCHANGED <<fleetVars, etcdVars, localVars, file>>

\* Mutant: an error of the addition is logged and ignored, like one of a removal.
AddMemberIgnoringErrors(n) ==
    /\ pc[n] = "add"
    /\ AddApplied(n, PeerURL(n.endpoint)) \/ AddFailed(n, PeerURL(n.endpoint))
    /\ Goto(n, "existingConfig")
    /\ UNCHANGED <<fleetVars, apiVars, localVars, file>>

\* AddMemberByPeerURL; an error ends the process.
AddMember(n) ==
    /\ pc[n] = "add"
    /\ LET url == PeerURL(n.endpoint)
       IN  \/ /\ AddApplied(n, url)
              /\ Goto(n, "existingConfig")
              /\ UNCHANGED <<apiVars, localVars>>
           \/ AddFailed(n, url) /\ Stop(n)
    /\ UNCHANGED <<fleetVars, file>>

\* registerInstances, after the file is written (aws only; module Registration has
\* its calls).  The script goes on to etcd only when the command has succeeded.
Register(n) ==
    /\ pc[n] = "register"
    /\ Goto(n, "done")
    /\ UNCHANGED <<fleetVars, faults, etcdVars, apiVars, localVars, file>>

\* Setting up the provider or the clients, Members, GetLocalInstance, GetInstances
\* or the registration fails, its flags included; the process ends (log.Fatalf).
Fails(n) ==
    /\ \/ /\ pc[n] \in {"clusterExists", "nodeExists", "removeOld", "addLocal",
                        "existingConfig"}
          /\ MembersError(n)
       \/ /\ pc[n] \in {"clusterExists", "nodeExists", "addLocal", "newConfig",
                        "existingConfig"}
          /\ Fault("cloud")
       \/ pc[n] = "register" /\ Fault("register")
    /\ Stop(n)
    /\ UNCHANGED <<fleetVars, etcdVars, file>>

-----------------------------------------------------------------------------
(* etcd and the machines *)

\* etcd of n is started with the file, again and again until it serves.
StartEtcd(n) ==
    /\ pc[n] = "done"
    /\ n \in live \ up
    /\ Seed(n, file[n]) \/ StartFounder(n) \/ Join(n, file[n]) \/ Serve(n)
    /\ UNCHANGED <<fleetVars, faults, apiVars, pc, localVars, file>>

\* The instances that run etcd with the initial cluster c and wait for their peers.
Waiting(c) == {n \in live \ up : pc[n] = "done" /\ data[n] = {} /\ seed[n] = c}

FormCluster(n) ==
    /\ n \in Waiting(seed[n])
    /\ Form(seed[n], Waiting(seed[n]))
    /\ UNCHANGED <<fleetVars, faults, apiVars, pc, localVars, file>>

\* The machine or the pod of n restarts: etcd-bootstrap runs before etcd again, and
\* only the data directory and the file are left.
Crash(n) ==
    /\ n \in live
    /\ pc[n] # "idle"
    /\ Fault("crash")
    /\ up' = up \ {n}
    /\ Stop(n)
    /\ UNCHANGED <<fleetVars, members, adds, founding, seed, data, lateAdds,
                   lateRemoves, lost, file>>

\* Only the etcd container of n restarts, with the file it has.
RestartEtcd(n) ==
    /\ n \in up
    /\ Fault("restart")
    /\ up' = up \ {n}
    /\ UNCHANGED <<fleetVars, members, adds, founding, seed, data, lateAdds,
                   lateRemoves, lost, apiVars, pc, localVars, file>>

Terminate(n) ==
    /\ Fault("terminate")
    /\ FleetTerminate(n)
    /\ up' = up \ {n}
    /\ seed' = [seed EXCEPT ![n] = {}]
    /\ data' = [data EXCEPT ![n] = {}]
    /\ file' = [file EXCEPT ![n] = NoFlags]
    /\ Stop(n)
    /\ UNCHANGED <<members, adds, founding, lateAdds, lateRemoves, lost>>

Launch(n) ==
    /\ FleetLaunch(n)
    /\ UNCHANGED <<faults, etcdVars, apiVars, pc, localVars, file>>

PowerOff(n) ==
    /\ Fault("stop")
    /\ FleetStop(n)
    /\ up' = up \ {n}
    /\ Stop(n)
    /\ UNCHANGED <<members, adds, founding, seed, data, lateAdds, lateRemoves, lost, file>>

PowerOn(n) ==
    /\ FleetReturn(n)
    /\ UNCHANGED <<faults, etcdVars, apiVars, pc, localVars, file>>

ApplyLate ==
    /\ \/ \E url \in lateAdds : LateAdd(url)
       \/ \E id \in lateRemoves : LateRemove(id)
    /\ UNCHANGED <<fleetVars, faults, apiVars, pc, localVars, file>>

-----------------------------------------------------------------------------
(* The program's own steps, and the specification *)

\* A step of the bootstrap process of n.
Step(n) ==
    \/ Start(n)
    \/ ClusterExists(n)
    \/ NodeExists(n)
    \/ NewConfig(n)
    \/ ListOldMembers(n)
    \/ FindMember(n)
    \/ RemoveMember(n)
    \/ ListBeforeAdd(n)
    \/ AddMember(n)
    \/ ExistingConfig(n)
    \/ Register(n)

\* A step of the etcd process of n.
EtcdStep(n) == StartEtcd(n) \/ FormCluster(n)

\* A step of the environment at n.
Disturb(n) ==
    Fails(n) \/ Crash(n) \/ RestartEtcd(n) \/ Terminate(n) \/ PowerOff(n) \/ PowerOn(n)

Next ==
    \/ \E n \in Instances : Step(n) \/ EtcdStep(n) \/ Disturb(n) \/ Launch(n)
    \/ ApplyLate

Spec == Init /\ [][Next]_vars

\* The supervisor runs a failed etcd-bootstrap again and starts etcd again with the
\* file it has; machines are replaced.  Nothing obliges a fault to happen, so
\* nothing runs etcd-bootstrap again after it has succeeded.
Fairness ==
    \A n \in Instances :
        WF_vars(Step(n)) /\ WF_vars(EtcdStep(n)) /\ WF_vars(Launch(n))

FairSpec == Spec /\ Fairness
-----------------------------------------------------------------------------
(* Properties *)

\* Reconciliation never evicts an instance that has been in the inventory all
\* along: whatever calls fail, time out or cross each other, it stays in the
\* member list, even while it is stopped if the provider lists stopped machines
\* (removeOldEtcdMembers).
FoundersKept == Formed => \A i \in Lasting : Founder(i) \in members

\* The members of the founders that the inventory has never missed.
Settled == IF Formed THEN {Founder(i) : i \in Lasting} ELSE {}

Reconciled == INSTANCE Membership WITH Nameless <- Blank, settled <- Settled

\* All the instances together change the member list one member at a time, list no
\* address twice and spare the founders that have never been missing, whatever
\* requests they retry, cross or lose (reconcileMembers, AddMemberByPeerURL and
\* RemoveMemberByName).
ImplementsMembership == Reconciled!Spec

\* A process about to write an "existing" file has an entry of its own in the
\* member list, whichever run or late request added it, unless it was taken out
\* again (addLocalInstanceToEtcd establishes what
\* createEtcdConfigForExistingCluster needs).  It holds for fleets that give out
\* neither a name nor an address twice; AddressIsOwn shows what happens otherwise.
OwnEntryEstablished ==
    \A n \in Instances :
        pc[n] = "existingConfig" /\ n \notin lost
            => \E m \in members : m.peerURL = PeerURL(n.endpoint) /\ Owns(n, m)

\* Beside a formed cluster a process writes a "new" file only for a member that
\* has joined, unless an error hid the member list from it or the cluster has lost
\* its last member (nodeExistsInCluster: a listed URL is not enough).
NewConfigEarned ==
    Formed /\ members # {} => \A n \in Instances :
        pc[n] = "newConfig" /\ ~swallowed[n] /\ n \notin lost
            => n.name \in MemberNames(members)

\* The rerun of a member that has joined changes nothing in the cluster: it
\* never reaches the loop of removals or the addition.
MemberRerunHarmless ==
    \A n \in Instances :
        pc[n] \in {"remove", "removeCall", "add"} /\ ~swallowed[n]
            => n.name \notin MemberNames(members)

\* An "existing" file names the instance it is for ("The local node must also be
\* included in the initial cluster list", createEtcdConfigForExistingCluster),
\* although the member has no name yet and the list is read anew, unless an error
\* hid the list or the instance was taken out again.
ExistingIncludesLocal ==
    \A n \in Instances :
        (/\ pc[n] \in {"register", "done"}
         /\ file[n].state = "existing"
         /\ ~swallowed[n]
         /\ n \notin lost)
            => n \in file[n].initial

\* The instances whose data directory was created for the initial cluster c.
SeededWith(c) == {n \in Instances : seed[n] = c}

\* Beside the cluster that has formed no majority of another initial cluster has
\* created its data directories: they would form a second cluster as soon as they
\* all run, whatever file a later run of etcd-bootstrap writes
\* (createEtcdConfigForNewCluster).
NoSecondCluster ==
    founding # {} => \A n \in Instances :
        seed[n] \notin {{}, founding}
            => 2 * Cardinality(SeededWith(seed[n])) <= Cardinality(seed[n])

\* Some cluster forms, whichever instances each machine sees of a fleet that still
\* grows, and although requests fail and processes are restarted.
ClusterForms == <>(founding # {})

\* Nobody's data directory is of another initial cluster than the one that has
\* formed: so it is when all saw the same fleet, or came after the formation.
NobodyAstray ==
    founding # {} => \A n \in Instances : seed[n] \in {{}, founding}

\* No process ever takes an error for an empty member list.
NothingSwallowed == \A n \in Instances : ~swallowed[n]

\* Then every machine ends up in the cluster, those that had a part in the
\* formation and those that join it later, without etcd-bootstrap ever being run
\* again where it has succeeded.
FormationConverges == []NobodyAstray /\ []NothingSwallowed => <>[](up = live)

\* No machine stays switched off for ever: it returns, or it goes.
NoneStaysOff == <>[](halted = {})

\* No process works with a remembered instance list that misses a running machine
\* with a member, as one does that was launched together with another.
ViewsCurrent ==
    \A n \in Instances : pc[n] \notin {"idle", "register", "done"} /\ cache[n] # {} =>
        \A i \in live : (\E m \in members : Owns(i, m)) => i \in cache[n]

\* A replaced instance ends up in the cluster, and so does one that was stopped and
\* returns: if no error is ever taken for an empty list, no instance list is out of
\* date, no machine stays switched off and the cluster keeps its quorum in the end,
\* every live instance comes to serve, with the file its first successful run has
\* written.
ReplacementJoins ==
    []NothingSwallowed /\ []ViewsCurrent /\ NoneStaysOff /\ <>[]HasQuorum
        => <>[](up = live)

-----------------------------------------------------------------------------
(* What comments of the source say *)

\* createEtcdConfigForNewCluster: "This should only be used if either the
\* cluster hasn't formed yet, or the local instance is already part of the
\* cluster."
NewConfigOnlyForMembers ==
    Formed => \A n \in Instances :
        pc[n] = "newConfig" => n.name \in MemberNames(members)

\* removeOldEtcdMembers: "We assume if it's not part of the cloud instances then
\* the actual node VM has been removed."
RemovedAreGone ==
    \A n \in Instances : \A m \in target[n] : m.name \notin NamesOf(live)

\* addLocalInstanceToEtcd leaves the list alone "if the local instance's peerURL
\* has already been added.  This could happen if the node crashed or restarted
\* before it registered": a process about to write an "existing" file never finds
\* its URL under the name of another instance.
AddressIsOwn ==
    \A n \in Instances :
        pc[n] = "existingConfig" =>
            \A m \in members : m.peerURL = PeerURL(n.endpoint) => Owns(n, m)

=============================================================================
