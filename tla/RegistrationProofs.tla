------------------------- MODULE RegistrationProofs -------------------------
(***************************************************************************)
(* Theorems about Registration, for every fleet, provider and bound:       *)
(*   TypeCorrect         the type invariant;                               *)
(*   EstablishedStay     no update takes out an instance that has been     *)
(*                       there all along;                                  *)
(*   LoneRunPublishes    an update that overlaps nothing publishes exactly *)
(*                       the inventory.                                    *)
(***************************************************************************)
EXTENDS Registration, TLAPS

\* The budget of faults is never overdrawn (bound MaxFaults).
LEMMA FaultBound ==
    ASSUME TypeOK, NEW kind, Fault(kind)
    PROVE  faults' \in 0 .. MaxFaults
BY FleetAssumption DEF TypeOK, FleetTypeOK, Fault

\* Lists of instances give lists of hosts (instance.Endpoint).
LEMMA EndpointsType ==
    ASSUME NEW fleet \in SUBSET Instances
    PROVE  Endpoints(fleet) \subseteq Hosts
BY FleetAssumption DEF Endpoints, Instance

LEMMA EffectType ==
    ASSUME TypeOK, NEW n \in Instances
    PROVE  Effect(n) \subseteq Hosts
BY EndpointsType DEF TypeOK, Effect

LEMMA TypeInit == Init => TypeOK
BY FleetAssumption DEF Init, FleetInit, TypeOK, FleetTypeOK, Calls

\* A jump to a call leaves step typed.
LEMMA GotoType ==
    ASSUME TypeOK, NEW n \in Instances,
           NEW label \in Calls \cup {"off", "failed", "done"}, Goto(n, label)
    PROVE  step' \in [Instances -> Calls \cup {"off", "failed", "done"}]
BY DEF Goto, TypeOK

LEMMA TypeStep == TypeOK /\ [Next]_vars => TypeOK'
<1>. SUFFICES ASSUME TypeOK, [Next]_vars PROVE TypeOK'
  OBVIOUS
<1>. USE DEF fleetVars, localVars
<1>1. ASSUME NEW n \in Instances, Run(n) PROVE TypeOK'
  <2>1. step' \in [Instances -> Calls \cup {"off", "failed", "done"}]
    BY <1>1, GotoType DEF Run, Calls
  <2>2. view' \in [Instances -> SUBSET Instances]
    BY <1>1 DEF Run, Inventory, TypeOK, FleetTypeOK
  <2>3. alone' \in [Instances -> BOOLEAN]
    BY <1>1 DEF Run
  <2>. QED
    BY <1>1, <2>1, <2>2, <2>3 DEF Run, TypeOK, FleetTypeOK
<1>2. ASSUME NEW n \in Instances, Call(n) PROVE TypeOK'
  <2>1. step' \in [Instances -> Calls \cup {"off", "failed", "done"}]
    BY <1>2, GotoType
       DEF Call, Initialise, DescribeGroups, RegisterTargets, DescribeHealth,
           DeregisterTargets, GetHostedZone, Upsert, Calls
  <2>2. published' \subseteq Hosts
    BY <1>2, EffectType
       DEF Call, Initialise, DescribeGroups, RegisterTargets, DescribeHealth,
           DeregisterTargets, GetHostedZone, Upsert, TypeOK
  <2>3. excess' \in [Instances -> SUBSET Hosts]
    BY <1>2
       DEF Call, Initialise, DescribeGroups, RegisterTargets, DescribeHealth,
           DeregisterTargets, GetHostedZone, Upsert, TypeOK
  <2>4. UNCHANGED <<live, halted, launched, away, faults, provider, view, alone>>
    BY <1>2
       DEF Call, Initialise, DescribeGroups, RegisterTargets, DescribeHealth,
           DeregisterTargets, GetHostedZone, Upsert
  <2>. QED
    BY <2>1, <2>2, <2>3, <2>4 DEF TypeOK, FleetTypeOK
<1>3. ASSUME NEW n \in Instances, CallFails(n) PROVE TypeOK'
  <2>1. step' \in [Instances -> Calls \cup {"off", "failed", "done"}]
    BY <1>3, GotoType DEF CallFails
  <2>2. faults' \in 0 .. MaxFaults
    BY <1>3, FaultBound DEF CallFails
  <2>. QED
    BY <1>3, <2>1, <2>2, EffectType DEF CallFails, TypeOK, FleetTypeOK
<1>4. ASSUME NEW n \in Instances, Restart(n) PROVE TypeOK'
  <2>1. step' \in [Instances -> Calls \cup {"off", "failed", "done"}]
    BY <1>4, GotoType DEF Restart
  <2>2. faults' \in 0 .. MaxFaults
    BY <1>4, FaultBound DEF Restart
  <2>. QED
    BY <1>4, <2>1, <2>2 DEF Restart, TypeOK, FleetTypeOK
<1>5. ASSUME NEW n \in Instances, Launch(n) PROVE TypeOK'
  BY <1>5 DEF Launch, FleetLaunch, Disturbed, TypeOK, FleetTypeOK
<1>6. ASSUME NEW n \in Instances, Terminate(n) PROVE TypeOK'
  <2>1. step' \in [Instances -> Calls \cup {"off", "failed", "done"}]
    BY <1>6, GotoType DEF Terminate
  <2>2. faults' \in 0 .. MaxFaults
    BY <1>6, FaultBound DEF Terminate
  <2>. QED
    BY <1>6, <2>1, <2>2 DEF Terminate, FleetTerminate, Disturbed, TypeOK, FleetTypeOK
<1>7. ASSUME NEW n \in Instances, PowerOff(n) PROVE TypeOK'
  <2>1. step' \in [Instances -> Calls \cup {"off", "failed", "done"}]
    BY <1>7, GotoType DEF PowerOff
  <2>2. faults' \in 0 .. MaxFaults
    BY <1>7, FaultBound DEF PowerOff
  <2>. QED
    BY <1>7, <2>1, <2>2 DEF PowerOff, FleetStop, Disturbed, TypeOK, FleetTypeOK
<1>8. ASSUME NEW n \in Instances, PowerOn(n) PROVE TypeOK'
  BY <1>8 DEF PowerOn, FleetReturn, Disturbed, TypeOK, FleetTypeOK
<1>9. CASE UNCHANGED vars
  BY <1>9 DEF vars, TypeOK, FleetTypeOK
<1>. QED
  BY <1>1, <1>2, <1>3, <1>4, <1>5, <1>6, <1>7, <1>8, <1>9 DEF Next

\* Every state of every behaviour is well typed: only addresses are published.
THEOREM TypeCorrect == Spec => []TypeOK
BY TypeInit, TypeStep, PTL DEF Spec

-----------------------------------------------------------------------------
(* The instances the inventory has never missed *)

Established == Lasting

\* A running process remembers them, so what it is about to deregister spares
\* them.
SparingInv ==
    /\ Initial \subseteq launched
    /\ ListsStopped \/ halted \subseteq away
    /\ \A n \in Instances : Running(n) => Established \subseteq view[n]
    /\ \A n \in Instances :
         step[n] = "deregister" => excess[n] \cap Endpoints(Established) = {}

LEMMA SparingInit == Init => SparingInv
BY DEF Init, FleetInit, SparingInv, Running, Calls

\* A call keeps or publishes the addresses of the established instances.
LEMMA EffectSpares ==
    ASSUME SparingInv, NEW n \in Instances
    PROVE  published \cap Endpoints(Established) \subseteq Effect(n)
<1>1. step[n] \in {"register", "deregister", "upsert"} => Running(n)
  BY DEF Running, Calls
<1>. QED
  BY <1>1 DEF SparingInv, Effect, Endpoints

\* Only new machines and those that were missing join the inventory, and none of
\* them is established.
LEMMA EstablishedShrinks ==
    ASSUME SparingInv, [Next]_vars
    PROVE  /\ Established' \subseteq Established
           /\ (Initial \subseteq launched)'
           /\ (ListsStopped \/ halted \subseteq away)'
<1>. USE DEF Established, Lasting, Inventory, SparingInv
<1>1. ASSUME NEW n \in Instances, Run(n) \/ Call(n) \/ CallFails(n) \/ Restart(n)
      PROVE  UNCHANGED fleetVars
  BY <1>1 DEF Run, Call, Initialise, DescribeGroups, RegisterTargets, DescribeHealth,
              DeregisterTargets, GetHostedZone, Upsert, CallFails, Restart
<1>2. CASE UNCHANGED fleetVars
  BY <1>2 DEF fleetVars
<1>3. ASSUME NEW n \in Instances, FleetLaunch(n)
      PROVE  /\ Established' \subseteq Established
             /\ (Initial \subseteq launched)'
             /\ (ListsStopped \/ halted \subseteq away)'
  BY <1>3 DEF FleetLaunch
<1>4. ASSUME NEW n \in Instances, FleetTerminate(n)
      PROVE  /\ Established' \subseteq Established
             /\ (Initial \subseteq launched)'
             /\ (ListsStopped \/ halted \subseteq away)'
  BY <1>4 DEF FleetTerminate
<1>5. ASSUME NEW n \in Instances, FleetStop(n)
      PROVE  /\ Established' \subseteq Established
             /\ (Initial \subseteq launched)'
             /\ (ListsStopped \/ halted \subseteq away)'
  BY <1>5 DEF FleetStop
<1>6. ASSUME NEW n \in Instances, FleetReturn(n)
      PROVE  /\ Established' \subseteq Established
             /\ (Initial \subseteq launched)'
             /\ (ListsStopped \/ halted \subseteq away)'
  BY <1>6 DEF FleetReturn
<1>7. UNCHANGED vars => UNCHANGED fleetVars
  BY DEF vars, fleetVars
<1>. QED
  BY <1>1, <1>2, <1>3, <1>4, <1>5, <1>6, <1>7 DEF Next, Launch, Terminate, PowerOff, PowerOn

LEMMA SparingStep == TypeOK /\ SparingInv /\ [Next]_vars => SparingInv'
<1>. SUFFICES ASSUME TypeOK, SparingInv, [Next]_vars PROVE SparingInv'
  OBVIOUS
<1>. USE DEF fleetVars, localVars
<1>0. /\ Established' \subseteq Established
      /\ (Initial \subseteq launched)'
      /\ (ListsStopped \/ halted \subseteq away)'
  BY EstablishedShrinks
<1>e. Endpoints(Established') \subseteq Endpoints(Established)
  BY <1>0 DEF Endpoints
<1>1. ASSUME NEW n \in Instances, Run(n) PROVE SparingInv'
  BY <1>0, <1>e, <1>1
     DEF Run, Goto, SparingInv, Running, Established, Lasting, TypeOK
<1>2. ASSUME NEW n \in Instances, Call(n) PROVE SparingInv'
  <2>1. CASE DescribeHealth(n)
    <3>1. Running(n)
      BY <2>1 DEF DescribeHealth, Running, Calls
    <3>2. excess'[n] \cap Endpoints(Established) = {}
      BY <2>1, <3>1 DEF DescribeHealth, SparingInv, Endpoints, TypeOK
    <3>3. \A k \in Instances \ {n} : step'[k] = step[k] /\ excess'[k] = excess[k]
      BY <2>1 DEF DescribeHealth, Goto, TypeOK
    <3>. QED
      BY <1>0, <1>e, <2>1, <3>1, <3>2, <3>3 DEF DescribeHealth, SparingInv, Running
  <2>2. CASE ~DescribeHealth(n)
    <3>1. /\ Running(n)
          /\ step' = [step EXCEPT ![n] = step'[n]]
          /\ step'[n] # "deregister"
          /\ UNCHANGED <<view, excess>>
      BY <1>2, <2>2
         DEF Call, Initialise, DescribeGroups, RegisterTargets, DeregisterTargets,
             GetHostedZone, Upsert, Goto, Running, Calls, TypeOK
    <3>. QED
      BY <1>0, <1>e, <3>1 DEF SparingInv, Running, TypeOK
  <2>. QED
    BY <2>1, <2>2
<1>3. ASSUME NEW n \in Instances, CallFails(n) \/ Restart(n) \/ Terminate(n) \/ PowerOff(n)
      PROVE  SparingInv'
  <2>1. \A k \in Instances : step'[k] = step[k] \/ step'[k] \in {"off", "failed"}
    BY <1>3 DEF CallFails, Restart, Terminate, PowerOff, Goto, TypeOK
  <2>2. UNCHANGED <<view, excess>>
    BY <1>3 DEF CallFails, Restart, Terminate, PowerOff
  <2>. QED
    BY <1>0, <1>e, <2>1, <2>2 DEF SparingInv, Running, Calls
<1>4. ASSUME NEW n \in Instances, Launch(n) \/ PowerOn(n) PROVE SparingInv'
  BY <1>0, <1>e, <1>4 DEF Launch, PowerOn, SparingInv, Running
<1>5. CASE UNCHANGED vars
  BY <1>0, <1>5 DEF vars, SparingInv, Running, Established, Lasting, Inventory
<1>. QED
  BY <1>1, <1>2, <1>3, <1>4, <1>5 DEF Next

\* Update never takes out the address of an instance that has been listed from the
\* start: neither a load balancer's deregistration nor a rewritten record loses
\* it, whatever list the updating process remembers and whatever runs beside it.
THEOREM EstablishedStay == Spec => EstablishedStayPublished
<1>1. SparingInv /\ TypeOK /\ [Next]_vars
        => [\A i \in Lasting \cap Lasting' :
              i.endpoint \in published => i.endpoint \in published']_vars
  <2>. SUFFICES ASSUME SparingInv, TypeOK, Next,
                       NEW i \in Lasting \cap Lasting',
                       i.endpoint \in published
                PROVE  i.endpoint \in published'
    BY DEF vars
  <2>1. i.endpoint \in Endpoints(Established)
    BY DEF Endpoints, Established
  <2>2. PICK n \in Instances : published' = published \/ published' = Effect(n)
    BY DEF Next, Run, Call, Initialise, DescribeGroups, RegisterTargets, DescribeHealth,
           DeregisterTargets, GetHostedZone, Upsert, CallFails, Restart, Launch, Terminate,
           PowerOff, PowerOn
  <2>. QED
    BY <2>1, <2>2, EffectSpares
<1>. QED
  BY <1>1, TypeInit, TypeStep, SparingInit, SparingStep, PTL
     DEF Spec, EstablishedStayPublished

-----------------------------------------------------------------------------
(* A run that overlaps nothing *)

\* What such a run finds at each of its calls: nobody else is at work, its list is
\* the inventory of now, and the group holds its targets from the registration on.
LoneRun(n) ==
    /\ \A k \in Instances \ {n} : ~Running(k)
    /\ view[n] = Inventory
    /\ step[n] \in {"describeHealth", "deregister"} => Endpoints(view[n]) \subseteq published
    /\ step[n] = "deregister" => excess[n] = published \ Endpoints(view[n])
    /\ step[n] = "done" /\ provider # "noop" => published = Endpoints(view[n])

LoneInv == \A n \in Instances : alone[n] => LoneRun(n)

LEMMA LoneInit == Init => LoneInv
BY DEF Init, LoneInv

\* The calls of a lone run.
LEMMA LoneCalls ==
    ASSUME TypeOK, NEW n \in Instances, LoneRun(n), Call(n)
    PROVE  LoneRun(n)'
<1>. USE DEF fleetVars, localVars
<1>1. \A k \in Instances \ {n} : step'[k] = step[k]
  BY DEF Call, Initialise, DescribeGroups, RegisterTargets, DescribeHealth,
         DeregisterTargets, GetHostedZone, Upsert, Goto, TypeOK
<1>2. \A k \in Instances \ {n} : ~Running(k)'
  BY <1>1 DEF LoneRun, Running
<1>3. view' = view /\ provider' = provider /\ Inventory' = Inventory
  BY DEF Call, Initialise, DescribeGroups, RegisterTargets, DescribeHealth,
         DeregisterTargets, GetHostedZone, Upsert, Inventory
<1>4. view'[n] = Inventory' /\ Endpoints(view'[n]) = Endpoints(view[n])
  BY <1>3 DEF LoneRun
<1>5. CASE Initialise(n) \/ DescribeGroups(n) \/ GetHostedZone(n)
  <2>1. /\ step'[n] \notin {"describeHealth", "deregister"}
        /\ step'[n] = "done" => provider = "noop"
    BY <1>5 DEF Initialise, DescribeGroups, GetHostedZone, Goto, TypeOK
  <2>. QED
    BY <1>2, <1>3, <1>4, <2>1 DEF LoneRun
<1>6. CASE RegisterTargets(n)
  <2>1. step'[n] = "describeHealth" /\ published' = published \cup Endpoints(view[n])
    BY <1>6 DEF RegisterTargets, Effect, Goto, TypeOK
  <2>. QED
    BY <1>2, <1>3, <1>4, <2>1 DEF LoneRun
<1>7. CASE DescribeHealth(n)
  <2>1. /\ published' = published
        /\ excess'[n] = published \ Endpoints(view[n])
        /\ step'[n] = IF excess'[n] = {} THEN "done" ELSE "deregister"
        /\ Endpoints(view[n]) \subseteq published
    BY <1>7 DEF DescribeHealth, Goto, LoneRun, TypeOK
  <2>. QED
    BY <1>2, <1>3, <1>4, <2>1 DEF LoneRun
<1>8. CASE DeregisterTargets(n)
  <2>1. step'[n] = "done" /\ published' = Endpoints(view[n])
    BY <1>8 DEF DeregisterTargets, Effect, Goto, LoneRun, TypeOK
  <2>. QED
    BY <1>2, <1>3, <1>4, <2>1 DEF LoneRun
<1>9. CASE Upsert(n)
  <2>1. step'[n] = "done" /\ published' = Endpoints(view[n])
    BY <1>9 DEF Upsert, Effect, Goto, TypeOK
  <2>. QED
    BY <1>2, <1>3, <1>4, <2>1 DEF LoneRun
<1>. QED
  BY <1>5, <1>6, <1>7, <1>8, <1>9 DEF Call

LEMMA LoneStep == TypeOK /\ LoneInv /\ [Next]_vars => LoneInv'
<1>. SUFFICES ASSUME TypeOK, LoneInv, [Next]_vars, NEW n \in Instances, alone'[n]
              PROVE  LoneRun(n)'
  BY DEF LoneInv
<1>. USE DEF fleetVars, localVars
<1>1. ASSUME NEW k \in Instances, Run(k) PROVE LoneRun(n)'
  <2>1. k = n /\ \A j \in Instances \ {n} : ~Running(j)
    BY <1>1 DEF Run
  <2>2. \A j \in Instances \ {n} : ~Running(j)'
    BY <1>1, <2>1 DEF Run, Goto, Running, TypeOK
  <2>3. step'[n] = "initialise" /\ view'[n] = Inventory /\ Inventory' = Inventory
    BY <1>1, <2>1 DEF Run, Goto, TypeOK, Inventory
  <2>. QED
    BY <2>2, <2>3 DEF LoneRun
<1>2. ASSUME NEW k \in Instances, Call(k) PROVE LoneRun(n)'
  <2>1. Running(k) /\ alone' = alone
    BY <1>2 DEF Call, Initialise, DescribeGroups, RegisterTargets, DescribeHealth,
                DeregisterTargets, GetHostedZone, Upsert, Running, Calls
  <2>2. k = n
    BY <2>1 DEF LoneInv, LoneRun
  <2>. QED
    BY <1>2, <2>1, <2>2, LoneCalls DEF LoneInv
<1>3. ASSUME NEW k \in Instances, CallFails(k) PROVE LoneRun(n)'
  <2>1. k = n
    BY <1>3 DEF CallFails, LoneInv, LoneRun
  <2>2. step'[n] = "failed" /\ \A j \in Instances \ {n} : step'[j] = step[j]
    BY <1>3, <2>1 DEF CallFails, Goto, TypeOK
  <2>. QED
    BY <1>3, <2>2 DEF CallFails, LoneInv, LoneRun, Running, Inventory
<1>4. ASSUME NEW k \in Instances, Restart(k) PROVE LoneRun(n)'
  <2>1. \A j \in Instances : step'[j] \in {step[j], "off"}
    BY <1>4 DEF Restart, Goto, TypeOK
  <2>. QED
    BY <1>4, <2>1 DEF Restart, LoneInv, LoneRun, Running, Calls, Inventory
<1>5. ASSUME NEW k \in Instances, Launch(k) \/ Terminate(k) \/ PowerOff(k) \/ PowerOn(k)
      PROVE  FALSE
  BY <1>5 DEF Launch, Terminate, PowerOff, PowerOn, Disturbed
<1>6. CASE UNCHANGED vars
  BY <1>6 DEF vars, LoneInv, LoneRun, Running, Inventory
<1>. QED
  BY <1>1, <1>2, <1>3, <1>4, <1>5, <1>6 DEF Next

\* An update that overlaps no other and no change of the fleet leaves exactly the
\* inventory in the target group or in the record, whatever runs that failed
\* between two requests or took effect without an answer have left there.
THEOREM LoneRunPublishes == Spec => []LoneRunPublishesFleet
<1>1. LoneInv => LoneRunPublishesFleet
  BY DEF LoneInv, LoneRun, LoneRunPublishesFleet
<1>. QED
  BY <1>1, TypeInit, TypeStep, LoneInit, LoneStep, PTL DEF Spec
=============================================================================
