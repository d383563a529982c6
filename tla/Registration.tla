---------------------------- MODULE Registration ----------------------------
(***************************************************************************)
(* registerInstances of src/cmd/aws.go: after its flags file is written,   *)
(* every instance publishes the instance list in a load balancer's target  *)
(* group (src/cloud/aws/lb_target_group.go) or in a DNS record             *)
(* (src/cloud/aws/r53.go).  Nobody coordinates the instances: their calls  *)
(* to AWS interleave, and the list is the one the process remembers from   *)
(* the start of its run, however long ago that was.                        *)
(***************************************************************************)
EXTENDS Fleet

CONSTANT Providers  \* the values of --registration-provider that are tried

ASSUME RegistrationAssumption == Providers \subseteq STRING

VARIABLES
    provider,   \* --registration-provider, the same for all
    step,       \* per instance: the next call of its process
    view,       \* per instance: the instances its process remembers
    excess,     \* per instance: the targets Update is about to deregister
    published,  \* the targets of the group, or the addresses of the record
    alone       \* history, per instance: its run overlapped no other run and
                \* no change of the fleet

localVars == <<provider, view, excess>>

vars == <<live, halted, launched, away, faults, provider, step, view, excess, published, alone>>

Calls == {"initialise", "describeGroups", "register", "describeHealth",
          "deregister", "getZone", "upsert"}

Endpoints(fleet) == {i.endpoint : i \in fleet}

TypeOK ==
    /\ FleetTypeOK
    /\ provider \in Providers
    /\ step \in [Instances -> Calls \cup {"off", "failed", "done"}]
    /\ view \in [Instances -> SUBSET Instances]
    /\ excess \in [Instances -> SUBSET Hosts]
    /\ published \subseteq Hosts
    /\ alone \in [Instances -> BOOLEAN]

\* An earlier fleet may have left anything behind.
Init ==
    /\ FleetInit
    /\ provider \in Providers
    /\ step = [n \in Instances |-> "off"]
    /\ view = [n \in Instances |-> {}]
    /\ excess = [n \in Instances |-> {}]
    /\ published \in SUBSET Hosts
    /\ alone = [n \in Instances |-> FALSE]

Goto(n, label) == step' = [step EXCEPT ![n] = label]

Running(n) == step[n] \in Calls

\* What the call that comes next does to the group or the record.
Effect(n) ==
    CASE step[n] = "register" -> published \cup Endpoints(view[n])
      [] step[n] = "deregister" -> published \ excess[n]
      [] step[n] = "upsert" -> Endpoints(view[n])
      [] OTHER -> published

\* A run of etcd-bootstrap on n begins and asks for the instances.  It then
\* configures etcd (module Bootstrap) and comes to the registration.
Run(n) ==
    /\ n \in live
    /\ step[n] \in {"off", "failed"}
    /\ Goto(n, "initialise")
    /\ view' = [view EXCEPT ![n] = Inventory]
    /\ alone' = [k \in Instances |-> k = n /\ \A j \in Instances \ {n} : ~Running(j)]
    /\ UNCHANGED <<fleetVars, faults, provider, excess, published>>

\* initialiseAWSRegistrationProvider: the provider is looked at only now.
Initialise(n) ==
    /\ step[n] = "initialise"
    /\ Goto(n, CASE provider = "noop" -> "done"
                 [] provider = "route53" -> "getZone"
                 [] provider = "lb" -> "describeGroups"
                 [] OTHER -> "failed")
    /\ UNCHANGED <<fleetVars, faults, localVars, published, alone>>

-----------------------------------------------------------------------------
(* LBTargetGroupRegistrationProvider.Update *)

\* getTargetGroupARN: exactly one group has the name.
DescribeGroups(n) ==
    /\ step[n] = "describeGroups"
    /\ Goto(n, "register")
    /\ UNCHANGED <<fleetVars, faults, localVars, published, alone>>

RegisterTargets(n) ==
    /\ step[n] = "register"
    /\ published' = Effect(n)
    /\ Goto(n, "describeHealth")
    /\ UNCHANGED <<fleetVars, faults, localVars, alone>>

\* Mutant: the targets that were registered are taken for the excess.
DescribeHealthInverted(n) ==
    /\ step[n] = "describeHealth"
    /\ excess' = [excess EXCEPT ![n] = published \cap Endpoints(view[n])]
    /\ Goto(n, IF excess'[n] = {} THEN "done" ELSE "deregister")
    /\ UNCHANGED <<fleetVars, faults, provider, view, published, alone>>

\* getExistingLBTargets: the registered targets that are none of the instances.
DescribeHealth(n) ==
    /\ step[n] = "describeHealth"
    /\ excess' = [excess EXCEPT ![n] = published \ Endpoints(view[n])]
    /\ Goto(n, IF excess'[n] = {} THEN "done" ELSE "deregister")
    /\ UNCHANGED <<fleetVars, faults, provider, view, published, alone>>

\* Mutant: the excess is looked up and not removed.
DeregisterNothing(n) ==
    /\ step[n] = "deregister"
    /\ Goto(n, "done")
    /\ UNCHANGED <<fleetVars, faults, localVars, published, alone>>

DeregisterTargets(n) ==
    /\ step[n] = "deregister"
    /\ published' = Effect(n)
    /\ Goto(n, "done")
    /\ UNCHANGED <<fleetVars, faults, localVars, alone>>

-----------------------------------------------------------------------------
(* Route53RegistrationProvider.Update *)

GetHostedZone(n) ==
    /\ step[n] = "getZone"
    /\ Goto(n, "upsert")
    /\ UNCHANGED <<fleetVars, faults, localVars, published, alone>>

\* Mutant: the record is given the names of the instances instead of their addresses.
UpsertNames(n) ==
    /\ step[n] = "upsert"
    /\ published' = NamesOf(view[n])
    /\ Goto(n, "done")
    /\ UNCHANGED <<fleetVars, faults, localVars, alone>>

\* UPSERT of the A record: the last writer wins.
Upsert(n) ==
    /\ step[n] = "upsert"
    /\ published' = Effect(n)
    /\ Goto(n, "done")
    /\ UNCHANGED <<fleetVars, faults, localVars, alone>>

-----------------------------------------------------------------------------
(* Failures and the fleet *)

\* A call returns an error, having taken effect or not; log.Fatalf ends the
\* process.
CallFails(n) ==
    /\ Running(n)
    /\ Fault("aws")
    /\ published' \in {published, Effect(n)}
    /\ Goto(n, "failed")
    /\ UNCHANGED <<fleetVars, localVars, alone>>

\* The machine restarts: its process, or the one to come, runs again.
Restart(n) ==
    /\ step[n] # "off"
    /\ n \in live
    /\ Fault("restart")
    /\ Goto(n, "off")
    /\ UNCHANGED <<fleetVars, localVars, published, alone>>

\* A change of the fleet overlaps every run in progress.
Disturbed == alone' = [n \in Instances |-> FALSE]

Launch(n) ==
    /\ FleetLaunch(n)
    /\ Disturbed
    /\ UNCHANGED <<faults, localVars, step, published>>

Terminate(n) ==
    /\ Fault("terminate")
    /\ FleetTerminate(n)
    /\ Goto(n, "off")
    /\ Disturbed
    /\ UNCHANGED <<localVars, published>>

\* A machine is switched off, and is listed all the same if ListsStopped.
PowerOff(n) ==
    /\ Fault("stop")
    /\ FleetStop(n)
    /\ Goto(n, "off")
    /\ Disturbed
    /\ UNCHANGED <<localVars, published>>

PowerOn(n) ==
    /\ FleetReturn(n)
    /\ Disturbed
    /\ UNCHANGED <<faults, localVars, step, published>>

\* A call of the process of n.
Call(n) ==
    \/ Initialise(n)
    \/ DescribeGroups(n)
    \/ RegisterTargets(n)
    \/ DescribeHealth(n)
    \/ DeregisterTargets(n)
    \/ GetHostedZone(n)
    \/ Upsert(n)

Next == \E n \in Instances :
    \/ Run(n) \/ Call(n) \/ CallFails(n) \/ Restart(n)
    \/ Launch(n) \/ Terminate(n) \/ PowerOff(n) \/ PowerOn(n)

Spec == Init /\ [][Next]_vars

-----------------------------------------------------------------------------
(* Properties *)

\* A run that overlaps no other run and no change of the fleet leaves exactly
\* the fleet behind, whatever failed or overlapping runs left before it.
LoneRunPublishesFleet ==
    provider # "noop" => \A n \in Instances :
        step[n] = "done" /\ alone[n] => published = Endpoints(Inventory)

\* No run takes out the address of an instance that the inventory has never
\* missed, however old the list it works from: once published, such an instance
\* stays.
EstablishedStayPublished ==
    [][\A i \in Lasting \cap Lasting' :
         i.endpoint \in published => i.endpoint \in published']_vars
=============================================================================
