----------------------------- MODULE AWSLookup -----------------------------
(***************************************************************************)
(* GetInstances of src/cloud/aws/aws.go on one machine: which instances    *)
(* etcd-bootstrap takes for the fleet.  The answer is put together from    *)
(* four requests while the auto scaling group changes, and is kept for the *)
(* rest of the process.                                                    *)
(*                                                                         *)
(* Module Bootstrap uses the answer as one look at the live instances.     *)
(* The properties here say how far that is so.                             *)
(***************************************************************************)
EXTENDS Naturals, FiniteSets

CONSTANTS
    Machines,    \* machines that may be in the auto scaling group
    Foreign,     \* machines of the account outside the group
    Local,       \* the machine the process runs on
    Detachable,  \* machines that may leave the group and keep running
    MaxErrors    \* bound: how many requests fail

ASSUME LookupAssumption ==
    /\ Local \in Machines
    /\ Foreign \cap Machines = {}
    /\ Detachable \subseteq Machines
    /\ MaxErrors \in Nat

VARIABLES
    state,   \* EC2 state of every machine; "leaving" stands for shutting-down,
             \* stopping and stopped
    group,   \* the machines of the auto scaling group
    pc,      \* the next request of GetInstances
    known,   \* whether the identity document is remembered
    ids,     \* the instance IDs of the group, once listed
    memo,    \* AWS.instances, {} for nil
    errors,  \* how many requests have failed
    steady,  \* history: in the group and not terminated since the lookup began
    seen     \* history: in the group at some time since the lookup began

envVars == <<state, group>>
memory == <<known, ids, memo>>
history == <<steady, seen>>

vars == <<state, group, pc, known, ids, memo, errors, steady, seen>>

States == {"absent", "running", "leaving", "terminated"}

Requests == {"identity", "asgName", "asgIDs", "describe"}

TypeOK ==
    /\ state \in [Machines \cup Foreign -> States]
    /\ group \subseteq Machines
    /\ pc \in Requests \cup {"idle"}
    /\ known \in BOOLEAN
    /\ ids \subseteq Machines
    /\ memo \subseteq Machines \cup Foreign
    /\ errors \in 0 .. MaxErrors
    /\ steady \subseteq group
    /\ seen \subseteq Machines

\* The local machine runs in its group; others are there or still to come.
Init ==
    /\ group \in {g \in SUBSET Machines : Local \in g}
    /\ state = [m \in Machines \cup Foreign |->
                  IF m \in group \cup Foreign THEN "running" ELSE "absent"]
    /\ pc = "idle"
    /\ known = FALSE
    /\ ids = {}
    /\ memo = {}
    /\ errors = 0
    /\ steady = {}
    /\ seen = {}

-----------------------------------------------------------------------------
(* queryInstances *)

\* Mutant: what is remembered is not looked at.
CallAgain ==
    /\ pc = "idle"
    /\ pc' = IF known THEN "asgName" ELSE "identity"
    /\ steady' = {m \in group : state[m] # "terminated"}
    /\ seen' = group
    /\ UNCHANGED <<envVars, memory, errors>>

\* GetInstances is called with nothing remembered.
Call ==
    /\ pc = "idle"
    /\ memo = {}
    /\ pc' = IF known THEN "asgName" ELSE "identity"
    /\ steady' = {m \in group : state[m] # "terminated"}
    /\ seen' = group
    /\ UNCHANGED <<envVars, memory, errors>>

\* getIdentityDoc: the metadata service says which machine this is.
GetIdentity ==
    /\ pc = "identity"
    /\ known' = TRUE
    /\ pc' = "asgName"
    /\ UNCHANGED <<envVars, ids, memo, errors, history>>

\* getASGName: an error unless the machine is in exactly one group.
GetASGName ==
    /\ pc = "asgName"
    /\ pc' = IF Local \in group THEN "asgIDs" ELSE "idle"
    /\ UNCHANGED <<envVars, memory, errors, history>>

\* Mutant: the instances of every group are listed.
GetAllInstanceIDs ==
    /\ pc = "asgIDs"
    /\ ids' = group \cup Foreign
    /\ pc' = "describe"
    /\ UNCHANGED <<envVars, known, memo, errors, history>>

\* getASGInstanceIDs.
GetASGInstanceIDs ==
    /\ pc = "asgIDs"
    /\ ids' = group
    /\ pc' = "describe"
    /\ UNCHANGED <<envVars, known, memo, errors, history>>

NonTerminated == {m \in Machines \cup Foreign : state[m] \in {"running", "leaving"}}

\* Mutant: only running machines are asked for.
DescribeRunning ==
    /\ pc = "describe"
    /\ memo' = {m \in ids : state[m] = "running"}
    /\ pc' = "idle"
    /\ UNCHANGED <<envVars, known, ids, errors, history>>

\* Mutant: the list of IDs is not passed on.
DescribeAll ==
    /\ pc = "describe"
    /\ memo' = NonTerminated
    /\ pc' = "idle"
    /\ UNCHANGED <<envVars, known, ids, errors, history>>

\* DescribeInstances: the machines of the list that are not terminated.  EC2
\* reads an empty list of IDs as no restriction.
DescribeInstances ==
    /\ pc = "describe"
    /\ memo' = IF ids = {} THEN NonTerminated ELSE ids \cap NonTerminated
    /\ pc' = "idle"
    /\ UNCHANGED <<envVars, known, ids, errors, history>>

\* A request fails: GetInstances returns the error and remembers no instances,
\* and the caller may call again.
RequestFails ==
    /\ pc \in Requests
    /\ errors < MaxErrors
    /\ errors' = errors + 1
    /\ pc' = "idle"
    /\ UNCHANGED <<envVars, memory, history>>

\* A machine that is going away has lost its address: the nil pointer ends the
\* process, and the next one remembers nothing.
DescribePanics ==
    /\ pc = "describe"
    /\ \E m \in ids : state[m] = "leaving"
    /\ errors < MaxErrors
    /\ errors' = errors + 1
    /\ pc' = "idle"
    /\ known' = FALSE
    /\ ids' = {}
    /\ UNCHANGED <<envVars, memo, history>>

\* The process ends and another one starts.
Restart ==
    /\ pc = "idle"
    /\ memo # {}
    /\ memo' = {}
    /\ known' = FALSE
    /\ ids' = {}
    /\ steady' = {}
    /\ seen' = {}
    /\ UNCHANGED <<envVars, pc, errors>>

-----------------------------------------------------------------------------
(* The auto scaling group *)

Launch(m) ==
    /\ state[m] = "absent"
    /\ state' = [state EXCEPT ![m] = "running"]
    /\ group' = group \cup {m}
    /\ seen' = seen \cup {m}
    /\ UNCHANGED <<pc, memory, errors, steady>>

\* A machine that is going away is in the group until it is gone.
Leave(m) ==
    /\ m # Local
    /\ state[m] = "running"
    /\ state' = [state EXCEPT ![m] = "leaving"]
    /\ UNCHANGED <<group, pc, memory, errors, history>>

Die(m) ==
    /\ state[m] = "leaving"
    /\ state' = [state EXCEPT ![m] = "terminated"]
    /\ group' = group \ {m}
    /\ steady' = steady \ {m}
    /\ UNCHANGED <<pc, memory, errors, seen>>

Detach(m) ==
    /\ m \in group \cap Detachable
    /\ group' = group \ {m}
    /\ steady' = steady \ {m}
    /\ UNCHANGED <<state, pc, memory, errors, seen>>

Lookup ==
    \/ Call
    \/ GetIdentity
    \/ GetASGName
    \/ GetASGInstanceIDs
    \/ DescribeInstances
    \/ RequestFails
    \/ DescribePanics
    \/ Restart

Next ==
    \/ Lookup
    \/ \E m \in Machines : Launch(m) \/ Leave(m) \/ Die(m) \/ Detach(m)

Spec == Init /\ [][Next]_vars

-----------------------------------------------------------------------------
(* Properties *)

\* The answer misses no machine that was in the group and not terminated from
\* the beginning of the lookup on, stopped machines included: such a machine is
\* never taken for one that has been removed (removeOldEtcdMembers).
AnswerCoversSteady == memo # {} => steady \subseteq memo

\* The answer holds only machines that were in the group during the lookup
\* ("GetInstances will return the aws etcd instances"), unless the group had become
\* empty when its instances were listed: the last machine was detached while it
\* asked, and the answer is every machine of the account.
AnswerFromGroup == ids # {} => memo \subseteq seen

\* Four requests, their failures, panics and restarts, against a group that
\* changes all the while, are one lookup of the interface CloudAPI, but for the one
\* that describes the machines of an empty group.
Contract == INSTANCE CloudAPI WITH
    present <- group, asking <- pc \in Requests, answer <- memo

EmptyGroup == pc = "describe" /\ ids = {}

ImplementsContract ==
    Contract!Init /\ [][EmptyGroup \/ Contract!Next]_(Contract!contractVars)
=============================================================================
