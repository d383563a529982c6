-------------------------- MODULE SRVLookupProofs --------------------------
(***************************************************************************)
(* Theorems about SRVLookup, for every set of targets and names and every  *)
(* bound.                                                                  *)
(***************************************************************************)
EXTENDS SRVLookup, TLAPS

\* GetInstances is at work only while nothing is remembered, and matches are kept
\* only while the local instance is looked for.
Typed ==
    /\ TypeOK
    /\ pc = "txt" => memo = {}
    /\ pc = "idle" => matches = {}

\* What the loop of GetInstances has put together and what it has left.
ListInv ==
    /\ pc = "txt" =>
         /\ Published \subseteq seen
         /\ listed \subseteq seen
         /\ \A i \in steady : i \in listed \/ i.endpoint \in left
         /\ \A t \in left : txt[t] # Unnamed => Named(t) \in seen

\* Whoever is taken for the local instance has resolved to the local address.
ClaimInv ==
    /\ pc = "host" => here \subseteq claims
    /\ pc \in {"host", "choose"} => local = {}
    /\ \A i \in matches : i.endpoint \in claims
    /\ LocalResolvesHere

IInv == Typed /\ ListInv /\ ClaimInv

LEMMA PublishedTyped ==
    srv \subseteq Targets /\ txt \in [Targets -> Names \cup {Unnamed}]
        => Published \subseteq Instance
BY DEF Published, Named, Instance

LEMMA InvInit == Init => IInv
<1>. SUFFICES ASSUME Init PROVE IInv
  OBVIOUS
<1>1. Typed
  BY SRVAssumption DEF Init, Typed, TypeOK
<1>. QED
  BY <1>1 DEF Init, IInv, ListInv, ClaimInv, LocalResolvesHere

LEMMA ChangeTyped == TypeOK /\ Change => TypeOK'
<1>. SUFFICES ASSUME TypeOK, Change PROVE TypeOK'
  OBVIOUS
<1>. USE DEF TypeOK, Change, memory
<1>1. srv' \subseteq Targets /\ txt' \in [Targets -> Names \cup {Unnamed}] /\ here' \subseteq Targets
  OBVIOUS
<1>2. Published' \subseteq Instance
  BY <1>1 DEF Published, Named, Instance
<1>3. changes' \in 0 .. MaxChanges
  BY SRVAssumption
<1>. QED
  BY <1>1, <1>2, <1>3

LEMMA TypeStep == Typed /\ [Next]_vars => Typed'
<1>. SUFFICES ASSUME Typed, [Next]_vars PROVE Typed'
  OBVIOUS
<1>. USE SRVAssumption DEF Typed, TypeOK, records, memory, history
<1>1. Published \subseteq Instance
  BY PublishedTyped
<1>2. CASE Lookup
  <2>0. Published' = Published
    BY <1>2 DEF Lookup, LookupSRV, LookupTXT, LookupHost, FindLocal, ChooseLocal, Fails,
                Restart, Published, Named
  <2>1. CASE LookupSRV \/ Restart
    BY <1>1, <2>0, <2>1 DEF LookupSRV, Restart
  <2>2. ASSUME NEW t \in Targets, LookupTXT(t) PROVE Typed'
    <3>1. Named(t) \in Instance
      BY <2>2 DEF LookupTXT, Named, Instance
    <3>2. pc' \in {"idle", "txt", "host", "choose"} /\ memo' \in {memo, listed'}
      BY <2>2 DEF LookupTXT
    <3>3. matches' = {} /\ local' = {}
      BY <2>2 DEF LookupTXT
    <3>. QED
      BY <2>0, <2>2, <3>1, <3>2, <3>3 DEF LookupTXT
  <2>3. ASSUME NEW t \in Targets, LookupHost(t) PROVE Typed'
    BY <2>0, <2>3 DEF LookupHost
  <2>4. CASE FindLocal
    <3>1. {i.endpoint : i \in memo} \subseteq Targets
      BY DEF Instance
    <3>. QED
      BY <2>0, <2>4, <3>1 DEF FindLocal
  <2>5. CASE ChooseLocal
    BY <2>0, <2>5 DEF ChooseLocal
  <2>6. CASE Fails
    <3>1. errors' \in 0 .. MaxErrors
      BY <2>6 DEF Fails
    <3>. QED
      BY <2>0, <2>6, <3>1 DEF Fails
  <2>. QED
    BY <1>2, <2>1, <2>2, <2>3, <2>4, <2>5, <2>6 DEF Lookup
<1>3. CASE Change
  BY <1>3, ChangeTyped DEF Change, memory
<1>4. CASE UNCHANGED vars
  BY <1>4 DEF vars, Published, Named
<1>. QED
  BY <1>2, <1>3, <1>4 DEF Next
LEMMA ListStep == Typed /\ ListInv /\ [Next]_vars => ListInv'
<1>. SUFFICES ASSUME Typed, ListInv, [Next]_vars, pc' = "txt" PROVE ListInv'
  BY DEF ListInv
<1>. USE DEF Typed, TypeOK, ListInv, records, memory, history
<1>1. CASE LookupSRV
  <2>1. Published' = Published
    BY <1>1 DEF LookupSRV, Published, Named
  <2>2. \A i \in Published : i.endpoint \in srv
    BY DEF Published, Named
  <2>3. \A t \in srv : txt[t] # Unnamed => Named(t) \in Published
    BY DEF Published
  <2>. QED
    BY <1>1, <2>1, <2>2, <2>3 DEF LookupSRV, Named
<1>2. ASSUME NEW t \in Targets, LookupTXT(t) PROVE ListInv'
  <2>1. Published' = Published /\ \A s \in Targets : Named(s)' = Named(s)
    BY <1>2 DEF LookupTXT, Published, Named
  <2>2. \A i \in steady : i.endpoint = t => i = Named(t)
    BY DEF Published, Named
  <2>. QED
    BY <1>2, <2>1, <2>2 DEF LookupTXT
<1>3. CASE Change
  <2>1. pc = "txt" /\ left' = left /\ listed' = listed
    BY <1>3 DEF Change
  <2>2. seen' = seen \cup (Published' \ Published) /\ steady' \subseteq steady
    BY <1>3 DEF Change
  <2>3. Published' \subseteq seen'
    BY <2>1, <2>2
  <2>4. ASSUME NEW t \in left, txt'[t] # Unnamed PROVE Named(t)' \in seen'
    <3>1. CASE txt'[t] = txt[t]
      <4>1. Named(t)' = Named(t)
        BY <3>1 DEF Named
      <4>. QED
        BY <2>1, <2>2, <2>4, <3>1, <4>1
    <3>2. CASE txt'[t] # txt[t]
      <4>1. t \in srv'
        BY <1>3, <2>4, <3>2 DEF Change
      <4>2. Named(t)' \in Published'
        BY <2>4, <4>1 DEF Published
      <4>. QED
        BY <2>3, <4>2
    <3>. QED
      BY <3>1, <3>2
  <2>. QED
    BY <2>1, <2>2, <2>3, <2>4
<1>4. CASE FindLocal \/ ChooseLocal \/ Fails \/ Restart \/ \E t \in Targets : LookupHost(t)
  BY <1>4 DEF FindLocal, ChooseLocal, Fails, Restart, LookupHost
<1>5. CASE UNCHANGED vars
  BY <1>5 DEF vars, Published, Named
<1>. QED
  BY <1>1, <1>2, <1>3, <1>4, <1>5 DEF Next, Lookup

LEMMA ClaimStep == Typed /\ ClaimInv /\ [Next]_vars => ClaimInv'
<1>. SUFFICES ASSUME Typed, ClaimInv, [Next]_vars PROVE ClaimInv'
  OBVIOUS
<1>. USE DEF Typed, TypeOK, ClaimInv, LocalResolvesHere, records, memory, history
<1>1. CASE LookupSRV \/ \E t \in Targets : LookupTXT(t)
  BY <1>1 DEF LookupSRV, LookupTXT
<1>2. CASE FindLocal \/ ChooseLocal
  BY <1>2 DEF FindLocal, ChooseLocal
<1>3. ASSUME NEW t \in Targets, LookupHost(t) PROVE ClaimInv'
  BY <1>3 DEF LookupHost
<1>4. CASE Fails \/ Restart
  BY <1>4 DEF Fails, Restart
<1>5. CASE Change
  BY <1>5 DEF Change
<1>6. CASE UNCHANGED vars
  BY <1>6 DEF vars
<1>. QED
  BY <1>1, <1>2, <1>3, <1>4, <1>5, <1>6 DEF Next, Lookup

LEMMA Invariance == Spec => []IInv
<1>1. IInv /\ [Next]_vars => IInv'
  BY TypeStep, ListStep, ClaimStep DEF IInv
<1>. QED
  BY <1>1, InvInit, PTL DEF Spec

\* Every state of every behaviour is well typed.
THEOREM TypeCorrect == Spec => []TypeOK
<1>1. IInv => TypeOK
  BY DEF IInv, Typed
<1>. QED
  BY <1>1, Invariance, PTL

\* The local instance is always one whose target resolved to the local address
\* while it was looked for.
THEOREM LocalResolved == Spec => []LocalResolvesHere
<1>1. IInv => LocalResolvesHere
  BY DEF IInv, ClaimInv
<1>. QED
  BY <1>1, Invariance, PTL

LEMMA ContractStep == IInv /\ [Next]_vars => [Contract!Next]_(Contract!contractVars)
<1>. SUFFICES ASSUME IInv, [Next]_vars
              PROVE  Contract!Next \/ UNCHANGED Contract!contractVars
  OBVIOUS
<1>. USE DEF IInv, Typed, TypeOK, ListInv, records, memory, history,
             Contract!contractVars, Contract!Next
<1>1. CASE Lookup
  <2>0. Published' = Published
    BY <1>1 DEF Lookup, LookupSRV, LookupTXT, LookupHost, FindLocal, ChooseLocal, Fails,
                Restart, Published, Named
  <2>1. CASE LookupSRV
    BY <2>0, <2>1 DEF LookupSRV, Contract!Ask
  <2>2. ASSUME NEW t \in Targets, LookupTXT(t)
        PROVE  Contract!Next \/ UNCHANGED Contract!contractVars
    <3>1. CASE left' = {}
      <4>1. \A i \in steady : i.endpoint = t => i = Named(t)
        BY DEF Published, Named
      <4>2. steady \subseteq memo' /\ memo' \subseteq seen
        BY <2>2, <3>1, <4>1 DEF LookupTXT
      <4>3. Contract!Answer
        BY <2>0, <2>2, <3>1, <4>2 DEF LookupTXT, Contract!Answer
      <4>. QED
        BY <4>3
    <3>2. CASE left' # {}
      BY <2>0, <2>2, <3>2 DEF LookupTXT
    <3>. QED
      BY <3>1, <3>2
  <2>3. CASE FindLocal \/ ChooseLocal \/ \E t \in Targets : LookupHost(t)
    BY <2>0, <2>3 DEF FindLocal, ChooseLocal, LookupHost
  <2>4. CASE Fails
    BY <2>0, <2>4 DEF Fails, Contract!GiveUp
  <2>5. CASE Restart
    BY <2>0, <2>5 DEF Restart, Contract!Forget
  <2>. QED
    BY <1>1, <2>1, <2>2, <2>3, <2>4, <2>5 DEF Lookup
<1>2. CASE Change
  <2>1. steady' = steady \ (Published \ Published')
    BY <1>2 DEF Change
  <2>2. Contract!Change
    BY <1>2, <2>1 DEF Change, Contract!Change
  <2>. QED
    BY <2>2
<1>3. CASE UNCHANGED vars
  BY <1>3 DEF vars, Published, Named
<1>. QED
  BY <1>1, <1>2, <1>3 DEF Next

\* Record by record, while an administrator changes them, GetInstances implements
\* the interface: all or nothing, every instance the records listed throughout, and
\* none they never listed.
THEOREM LookupImplementsContract == Spec => ImplementsContract
<1>1. Init => Contract!Init
  BY DEF Init, Contract!Init
<1>. QED
  BY <1>1, Invariance, ContractStep, PTL DEF Spec, ImplementsContract, Contract!Spec
=============================================================================
