----------------------------- MODULE SRVLookup -----------------------------
(***************************************************************************)
(* The provider of src/cloud/srv/srv.go on one machine: the instances are  *)
(* the targets of an SRV record, each named by a TXT record of its own,    *)
(* and the local one is the one whose target resolves to the local         *)
(* address.  Every record is a request of its own, and an administrator    *)
(* changes them one at a time.                                             *)
(***************************************************************************)
EXTENDS Naturals

CONSTANTS
    Targets,    \* host names that may be in the SRV record
    Names,      \* instance names that may be in TXT records, the empty one of
                \* a record "name=" included
    Unnamed,    \* stands for a target without such a record
    MaxErrors,  \* bound: how many requests fail
    MaxChanges  \* bound: how many changes are made to the records

ASSUME SRVAssumption ==
    /\ Unnamed \notin Names
    /\ MaxErrors \in Nat
    /\ MaxChanges \in Nat

VARIABLES
    srv,      \* the targets of the SRV record
    txt,      \* the name in the TXT record of each target
    here,     \* the targets that resolve to the local address
    changes,  \* how many changes have been made
    pc,       \* what the next request is for
    left,     \* targets the loop has left
    listed,   \* instances the loop of GetInstances has put together
    memo,     \* SRV.instances, {} for nil
    matches,  \* instances that resolved to the local address
    local,    \* SRV.localInstance, {} for nil
    errors,   \* how many requests have failed
    steady,   \* history: listed by the records since GetInstances was called
    seen,     \* history: listed by the records at some time since then
    claims    \* history: targets that have resolved to the local address since
              \* the search for the local instance began

records == <<srv, txt, here, changes>>
memory == <<listed, memo, matches, local>>
history == <<steady, seen, claims>>

vars == <<srv, txt, here, changes, pc, left, listed, memo, matches, local, errors,
          steady, seen, claims>>

Instance == [name : Names, endpoint : Targets]

\* Mutant: an instance is named by its target.
NamedByTarget(t) == [name |-> t, endpoint |-> t]

\* The instance of a target and its TXT record.
Named(t) == [name |-> txt[t], endpoint |-> t]

\* The instances the records stand for.
Published == {Named(t) : t \in {s \in srv : txt[s] # Unnamed}}

TypeOK ==
    /\ srv \subseteq Targets
    /\ txt \in [Targets -> Names \cup {Unnamed}]
    /\ here \subseteq Targets
    /\ changes \in 0 .. MaxChanges
    /\ pc \in {"idle", "txt", "host", "choose"}
    /\ left \subseteq Targets
    /\ listed \subseteq Instance
    /\ memo \subseteq Instance
    /\ matches \subseteq memo
    /\ local \subseteq memo
    /\ errors \in 0 .. MaxErrors
    /\ steady \subseteq Published
    /\ seen \subseteq Instance
    /\ claims \subseteq Targets

\* Any records; a TXT record may have outlived its target in the SRV record.
Init ==
    /\ srv \in SUBSET Targets
    /\ txt \in [Targets -> Names \cup {Unnamed}]
    /\ here \in SUBSET Targets
    /\ changes = 0
    /\ pc = "idle"
    /\ left = {}
    /\ listed = {}
    /\ memo = {}
    /\ matches = {}
    /\ local = {}
    /\ errors = 0
    /\ steady = {}
    /\ seen = {}
    /\ claims = {}

-----------------------------------------------------------------------------
(* GetInstances *)

\* GetInstances with nothing remembered: the SRV record.  An error here leaves
\* everything as it is, and so does a record without targets.
LookupSRV ==
    /\ pc = "idle"
    /\ memo = {}
    /\ srv # {}
    /\ left' = srv
    /\ listed' = {}
    /\ pc' = "txt"
    /\ steady' = Published
    /\ seen' = Published
    /\ UNCHANGED <<records, memo, matches, local, errors, claims>>

\* Mutant: what is found is remembered at once.
LookupTXTEagerly(t) ==
    /\ pc = "txt"
    /\ t \in left
    /\ txt[t] # Unnamed
    /\ left' = left \ {t}
    /\ listed' = listed \cup {Named(t)}
    /\ memo' = listed'
    /\ pc' = IF left' = {} THEN "idle" ELSE "txt"
    /\ UNCHANGED <<records, matches, local, errors, history>>

\* The TXT record of one target, whose name may be empty; after the last one the
\* instances are remembered.
LookupTXT(t) ==
    /\ pc = "txt"
    /\ t \in left
    /\ txt[t] # Unnamed
    /\ left' = left \ {t}
    /\ listed' = listed \cup {Named(t)}
    /\ IF left' = {} THEN pc' = "idle" /\ memo' = listed'
                     ELSE UNCHANGED <<pc, memo>>
    /\ UNCHANGED <<records, matches, local, errors, history>>

-----------------------------------------------------------------------------
(* GetLocalInstance *)

\* findLocalInstance: the local address is known, and so are the instances.
FindLocal ==
    /\ pc = "idle"
    /\ memo # {}
    /\ local = {}
    /\ left' = {i.endpoint : i \in memo}
    /\ matches' = {}
    /\ pc' = "host"
    /\ claims' = here
    /\ UNCHANGED <<records, listed, memo, local, errors, steady, seen>>

\* lookupInstanceAddresses: the addresses of one target.
LookupHost(t) ==
    /\ pc = "host"
    /\ t \in left
    /\ left' = left \ {t}
    /\ matches' = matches \cup {i \in memo : i.endpoint = t /\ t \in here}
    /\ pc' = IF left' = {} THEN "choose" ELSE "host"
    /\ UNCHANGED <<records, listed, memo, local, errors, history>>

\* Mutant: the addresses are not compared.
ChooseAnyLocal ==
    /\ pc = "choose"
    /\ \E i \in memo : local' = {i}
    /\ matches' = {}
    /\ pc' = "idle"
    /\ UNCHANGED <<records, left, listed, memo, errors, history>>

\* The first match in the order of a Go map, so any.
ChooseLocal ==
    /\ pc = "choose"
    /\ \E i \in matches : local' = {i}
    /\ matches' = {}
    /\ pc' = "idle"
    /\ UNCHANGED <<records, left, listed, memo, errors, history>>

-----------------------------------------------------------------------------
(* Errors, restarts, and the records *)

\* One request fails, one target has no name, or no target resolves to the local
\* address: the error is returned, nothing of this call is remembered, and the
\* caller may call again.
Fails ==
    /\ \/ pc = "txt" /\ (\E t \in left : txt[t] = Unnamed) /\ UNCHANGED errors
       \/ pc = "choose" /\ matches = {} /\ UNCHANGED errors
       \/ pc \in {"txt", "host"} /\ errors < MaxErrors /\ errors' = errors + 1
    /\ pc' = "idle"
    /\ left' = {}
    /\ listed' = {}
    /\ matches' = {}
    /\ UNCHANGED <<records, memo, local, history>>

\* The process ends and another one starts.
Restart ==
    /\ pc = "idle"
    /\ memo # {}
    /\ listed' = {}
    /\ memo' = {}
    /\ local' = {}
    /\ steady' = {}
    /\ seen' = {}
    /\ claims' = {}
    /\ UNCHANGED <<records, pc, left, matches, errors>>

\* Somebody changes a record.  A target is given a name only while the SRV record
\* has it ("create an SRV record and then a TXT record for each instance"), and may
\* keep it for longer.
Change ==
    /\ changes < MaxChanges
    /\ changes' = changes + 1
    /\ \E t \in Targets :
         \/ srv' = srv \cup {t} /\ UNCHANGED <<txt, here>>
         \/ srv' = srv \ {t} /\ UNCHANGED <<txt, here>>
         \/ \E n \in Names : t \in srv /\ txt' = [txt EXCEPT ![t] = n] /\ UNCHANGED <<srv, here>>
         \/ txt' = [txt EXCEPT ![t] = Unnamed] /\ UNCHANGED <<srv, here>>
         \/ here' = here \cup {t} /\ UNCHANGED <<srv, txt>>
         \/ here' = here \ {t} /\ UNCHANGED <<srv, txt>>
    /\ steady' = steady \cap Published'
    /\ seen' = seen \cup (Published' \ Published)
    /\ claims' = claims \cup (here' \ here)
    /\ UNCHANGED <<pc, left, memory, errors>>

Lookup ==
    \/ LookupSRV
    \/ \E t \in Targets : LookupTXT(t) \/ LookupHost(t)
    \/ FindLocal
    \/ ChooseLocal
    \/ Fails
    \/ Restart

Next == Lookup \/ Change

Spec == Init /\ [][Next]_vars

-----------------------------------------------------------------------------
(* Properties *)

\* The local instance is one the process lists, at a target that resolved to the
\* local address while it was looked for; so if only one target did, every run
\* takes the same instance for the local one (findLocalInstance goes through a
\* map, in random order).
LocalResolvesHere == \A i \in local : i \in memo /\ i.endpoint \in claims

\* One request per record, between which the records change, and an error of any
\* of them: one lookup of the interface CloudAPI, all or nothing.
Contract == INSTANCE CloudAPI WITH
    present <- Published, asking <- pc = "txt", answer <- memo

ImplementsContract == Contract!Spec
=============================================================================
