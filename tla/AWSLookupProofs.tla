-------------------------- MODULE AWSLookupProofs --------------------------
(***************************************************************************)
(* Theorems about AWSLookup, for every set of machines and every bound:    *)
(* what module Bootstrap relies on when it takes the answer of             *)
(* GetInstances for the fleet.                                             *)
(***************************************************************************)
EXTENDS AWSLookup, TLAPS

\* Machines of the group exist, and a list that is about to be described holds
\* every machine that has been in the group since the lookup began.
CoverInv ==
    /\ \A m \in group : state[m] \in {"running", "leaving"}
    /\ pc = "describe" => steady \subseteq ids
    /\ AnswerCoversSteady

\* The list of IDs was read from the group during the lookup.
GroupInv ==
    /\ group \subseteq seen \/ pc = "idle"
    /\ pc = "describe" => ids \subseteq seen
    /\ AnswerFromGroup
    /\ pc # "idle" => memo = {}

LEMMA TypeInit == Init => TypeOK
<1>. SUFFICES ASSUME Init PROVE TypeOK
  OBVIOUS
<1>1. state \in [Machines \cup Foreign -> States]
  BY DEF Init, States
<1>2. errors \in 0 .. MaxErrors
  BY LookupAssumption DEF Init
<1>. QED
  BY <1>1, <1>2 DEF Init, TypeOK

LEMMA TypeStep == TypeOK /\ [Next]_vars => TypeOK'
<1>. SUFFICES ASSUME TypeOK, [Next]_vars PROVE TypeOK'
  OBVIOUS
<1>. USE DEF TypeOK, States, Requests, envVars, memory, history
<1>1. CASE Lookup
  <2>1. CASE Call \/ GetIdentity \/ GetASGName \/ GetASGInstanceIDs \/ Restart
    BY <1>1, <2>1 DEF Call, GetIdentity, GetASGName, GetASGInstanceIDs, Restart
  <2>2. CASE DescribeInstances
    BY <2>2 DEF DescribeInstances, NonTerminated
  <2>3. CASE RequestFails \/ DescribePanics
    <3>1. errors' \in 0 .. MaxErrors
      BY <2>3, LookupAssumption DEF RequestFails, DescribePanics
    <3>. QED
      BY <2>3, <3>1 DEF RequestFails, DescribePanics
  <2>. QED
    BY <1>1, <2>1, <2>2, <2>3 DEF Lookup
<1>2. ASSUME NEW m \in Machines, Launch(m) \/ Leave(m) \/ Die(m) \/ Detach(m)
      PROVE  TypeOK'
  BY <1>2 DEF Launch, Leave, Die, Detach
<1>3. CASE UNCHANGED vars
  BY <1>3 DEF vars
<1>. QED
  BY <1>1, <1>2, <1>3 DEF Next

\* Every state of every behaviour is well typed.
THEOREM TypeCorrect == Spec => []TypeOK
BY TypeInit, TypeStep, PTL DEF Spec

LEMMA CoverStep == TypeOK /\ CoverInv /\ [Next]_vars => CoverInv'
<1>. SUFFICES ASSUME TypeOK, CoverInv, [Next]_vars PROVE CoverInv'
  OBVIOUS
<1>. USE DEF TypeOK, CoverInv, AnswerCoversSteady, envVars, memory, history
<1>1. CASE Call \/ GetIdentity \/ GetASGName
  BY <1>1 DEF Call, GetIdentity, GetASGName
<1>2. CASE GetASGInstanceIDs
  BY <1>2 DEF GetASGInstanceIDs
<1>3. CASE DescribeInstances
  <2>1. steady \subseteq NonTerminated
    BY DEF NonTerminated
  <2>. QED
    BY <1>3, <2>1 DEF DescribeInstances
<1>4. CASE RequestFails \/ DescribePanics \/ Restart
  BY <1>4 DEF RequestFails, DescribePanics, Restart
<1>5. ASSUME NEW m \in Machines, Launch(m) \/ Leave(m) \/ Die(m) \/ Detach(m)
      PROVE  CoverInv'
  BY <1>5 DEF Launch, Leave, Die, Detach
<1>6. CASE UNCHANGED vars
  BY <1>6 DEF vars
<1>. QED
  BY <1>1, <1>2, <1>3, <1>4, <1>5, <1>6 DEF Next, Lookup

\* GetInstances never misses a machine that was in the group, and not terminated,
\* from the beginning of the lookup on: however the group changes between its
\* requests, and however many of them fail first.
THEOREM AnswersCover == Spec => []AnswerCoversSteady
<1>1. Init => CoverInv
  BY LookupAssumption DEF Init, CoverInv, AnswerCoversSteady
<1>2. CoverInv => AnswerCoversSteady
  BY DEF CoverInv
<1>. QED
  BY <1>1, <1>2, TypeInit, TypeStep, CoverStep, PTL DEF Spec

LEMMA GroupStep == TypeOK /\ GroupInv /\ [Next]_vars => GroupInv'
<1>. SUFFICES ASSUME TypeOK, GroupInv, [Next]_vars PROVE GroupInv'
  OBVIOUS
<1>. USE DEF TypeOK, GroupInv, AnswerFromGroup, envVars, memory, history
<1>1. CASE Call \/ GetIdentity \/ GetASGName
  BY <1>1 DEF Call, GetIdentity, GetASGName
<1>2. CASE GetASGInstanceIDs
  BY <1>2 DEF GetASGInstanceIDs
<1>3. CASE DescribeInstances
  BY <1>3 DEF DescribeInstances
<1>4. CASE RequestFails \/ DescribePanics \/ Restart
  BY <1>4 DEF RequestFails, DescribePanics, Restart
<1>5. ASSUME NEW m \in Machines, Launch(m) \/ Leave(m) \/ Die(m) \/ Detach(m)
      PROVE  GroupInv'
  BY <1>5 DEF Launch, Leave, Die, Detach
<1>6. CASE UNCHANGED vars
  BY <1>6 DEF vars
<1>. QED
  BY <1>1, <1>2, <1>3, <1>4, <1>5, <1>6 DEF Next, Lookup

\* Whichever machines are detached while it asks, the local one included, the
\* answer holds only machines that were in the group during the lookup, unless the
\* group had no machine left: an empty list of IDs asks for every machine of the
\* account.
THEOREM AnswersFromGroup == Spec => []AnswerFromGroup
<1>1. Init => GroupInv
  BY DEF Init, GroupInv, AnswerFromGroup
<1>2. TypeOK /\ GroupInv /\ [Next]_vars => GroupInv'
  BY GroupStep
<1>3. GroupInv => AnswerFromGroup
  BY DEF GroupInv
<1>. QED
  BY <1>1, <1>2, <1>3, TypeInit, TypeStep, PTL DEF Spec

\* Every step but the description of an empty group is one of the interface's, or
\* leaves what it shows alone.
LEMMA ContractStep ==
    TypeOK /\ CoverInv /\ GroupInv /\ GroupInv' /\ [Next]_vars
        => [EmptyGroup \/ Contract!Next]_(Contract!contractVars)
<1>. SUFFICES ASSUME TypeOK, CoverInv, GroupInv, GroupInv', [Next]_vars
              PROVE  EmptyGroup \/ Contract!Next \/ UNCHANGED Contract!contractVars
  OBVIOUS
<1>. USE DEF TypeOK, CoverInv, GroupInv, AnswerCoversSteady, AnswerFromGroup,
             Requests, envVars, memory, history, Contract!contractVars, Contract!Next
<1>1. CASE Call
  <2>1. {m \in group : state[m] # "terminated"} = group
    OBVIOUS
  <2>2. Contract!Ask
    BY <1>1, <2>1 DEF Call, Contract!Ask
  <2>. QED
    BY <2>2
<1>2. CASE GetIdentity \/ GetASGName \/ GetASGInstanceIDs
  <2>1. CASE pc' = "idle"
    <3>1. Contract!GiveUp
      BY <1>2, <2>1 DEF GetIdentity, GetASGName, GetASGInstanceIDs, Contract!GiveUp
    <3>. QED
      BY <3>1
  <2>2. CASE pc' # "idle"
    BY <1>2, <2>2 DEF GetIdentity, GetASGName, GetASGInstanceIDs
  <2>. QED
    BY <2>1, <2>2
<1>3. CASE DescribeInstances /\ ~EmptyGroup
  <2>1. steady \subseteq memo' /\ memo' \subseteq seen
    <3>1. steady \subseteq NonTerminated
      BY DEF NonTerminated
    <3>. QED
      BY <1>3, <3>1 DEF DescribeInstances, EmptyGroup
  <2>2. Contract!Answer
    BY <1>3, <2>1 DEF DescribeInstances, Contract!Answer
  <2>. QED
    BY <2>2
<1>4. CASE RequestFails \/ DescribePanics
  <2>1. Contract!GiveUp
    BY <1>4 DEF RequestFails, DescribePanics, Contract!GiveUp
  <2>. QED
    BY <2>1
<1>5. CASE Restart
  <2>1. Contract!Forget
    BY <1>5 DEF Restart, Contract!Forget
  <2>. QED
    BY <2>1
<1>6. ASSUME NEW m \in Machines, Launch(m) \/ Leave(m) \/ Die(m) \/ Detach(m)
      PROVE  Contract!Change
  BY <1>6 DEF Launch, Leave, Die, Detach, Contract!Change
<1>7. CASE UNCHANGED vars
  BY <1>7 DEF vars
<1>. QED
  BY <1>1, <1>2, <1>3, <1>4, <1>5, <1>6, <1>7 DEF Next, Lookup

\* The lookup in four requests implements the interface: whatever happens to the
\* group and to the requests, the process sees one answer that covers the machines
\* that were in the group throughout and, unless the group was empty when it was
\* listed, holds none that never was.
THEOREM LookupImplementsContract == Spec => ImplementsContract
<1>1. Init => Contract!Init
  BY DEF Init, Contract!Init, Requests
<1>2. Init => CoverInv /\ GroupInv
  BY LookupAssumption
  DEF Init, CoverInv, GroupInv, AnswerCoversSteady, AnswerFromGroup
<1>3. TypeOK /\ GroupInv /\ [Next]_vars => GroupInv'
  BY GroupStep
<1>. QED
  BY <1>1, <1>2, <1>3, TypeInit, TypeStep, CoverStep, ContractStep, PTL
  DEF Spec, ImplementsContract
=============================================================================
