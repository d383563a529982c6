---------------------------- MODULE EtcdCluster ----------------------------
(***************************************************************************)
(* The etcd cluster that etcd-bootstrap configures, modelled from how the  *)
(* code in src/ uses it: the member list the members API serves, which     *)
(* etcd processes run, and what a process does with the flags it is given  *)
(* (documented in src/bootstrap/bootstrap.go and reconcile.go).            *)
(*                                                                         *)
(* Simplifications: one cluster lives from its formation on (a second one  *)
(* whose majority has started beside it is a bad state, NoSecondCluster in *)
(* Bootstrap, but is not run); the member list every process serves is the *)
(* current one; consensus is a quorum of started members.  A process that  *)
(* cannot run with its file and its data directory is started again with   *)
(* both as they are, so its exit is no step.                               *)
(***************************************************************************)
EXTENDS Fleet

CONSTANTS
    Protocol,        \* "http" or "https", one for the whole deployment
    StrictReconfig,  \* etcd's --strict-reconfig-check
    MaxAdds          \* bound: member additions accepted in one behaviour

ASSUME EtcdAssumption == MaxAdds \in Nat /\ StrictReconfig \in BOOLEAN

PeerURLs == [scheme : {Protocol}, host : Hosts, port : {2380}]

PeerURL(host) == [scheme |-> Protocol, host |-> host, port |-> 2380]

\* etcd derives a member's ID from its URL and the time it was added; members
\* of the initial cluster have stamp 0.
Member == [name : Names \cup {Blank}, peerURL : PeerURLs, stamp : 0 .. MaxAdds]

MemberID == PeerURLs \X (0 .. MaxAdds)

ID(m) == <<m.peerURL, m.stamp>>

VARIABLES
    members,      \* the member list
    adds,         \* additions accepted so far, the source of stamps
    founding,     \* the initial cluster it formed with, {} before that
    seed,         \* per instance: the initial cluster of a data directory that was
                  \* created with the state "new", {} for any other
    data,         \* per instance: the member of the cluster its data directory
                  \* belongs to, {} while it belongs to none
    up,           \* the instances whose etcd process serves
    lateAdds,     \* URLs whose addition timed out but is still in flight
    lateRemoves,  \* IDs whose removal timed out but is still in flight
    lost          \* history: live or stopped instances whose member was removed

etcdVars == <<members, adds, founding, seed, data, up, lateAdds, lateRemoves, lost>>

EtcdTypeOK ==
    /\ members \subseteq Member
    /\ adds \in 0 .. MaxAdds
    /\ founding \subseteq Instances
    /\ seed \in [Instances -> SUBSET Instances]
    /\ data \in [Instances -> SUBSET MemberID]
    /\ up \subseteq live
    /\ lateAdds \subseteq PeerURLs
    /\ lateRemoves \subseteq MemberID
    /\ lost \subseteq Instances

URLs(ms) == {m.peerURL : m \in ms}

MemberNames(ms) == {m.name : m \in ms}

\* The member entry of an instance of the initial cluster.
Founder(i) == [name |-> i.name, peerURL |-> PeerURL(i.endpoint), stamp |-> 0]

\* The entry m stands for instance i: it carries its name, or its URL while the
\* member has not started.
Owns(i, m) ==
    \/ m.name = i.name
    \/ m.name = Blank /\ m.peerURL = PeerURL(i.endpoint)

Started(ms) == {m \in ms : \E n \in up : ID(m) \in data[n]}

HasQuorum == 2 * Cardinality(Started(members)) > Cardinality(members)

\* A cluster of every initial instance, up, or nothing formed yet.
EtcdInit(formed) ==
    /\ members = IF formed THEN {Founder(i) : i \in Initial} ELSE {}
    /\ founding = IF formed THEN Initial ELSE {}
    /\ seed = [i \in Instances |-> IF formed /\ i \in Initial THEN Initial ELSE {}]
    /\ data = [i \in Instances |->
                 IF formed /\ i \in Initial THEN {ID(Founder(i))} ELSE {}]
    /\ up = IF formed THEN Initial ELSE {}
    /\ adds = 0
    /\ lateAdds = {}
    /\ lateRemoves = {}
    /\ lost = {}

-----------------------------------------------------------------------------
(* Requests of the members API *)

\* The strict check admits a new member only while every member is started.
AcceptsAdd ==
    /\ HasQuorum
    /\ adds < MaxAdds
    /\ StrictReconfig => Started(members) = members

Add(url) ==
    /\ adds < MaxAdds
    /\ url \notin URLs(members)
    /\ adds' = adds + 1
    /\ members' = members \cup {[name |-> Blank, peerURL |-> url, stamp |-> adds + 1]}
    /\ UNCHANGED <<founding, seed, data, up, lateRemoves, lost>>

\* A removed member's process stops.
Remove(id) ==
    /\ \E m \in members : ID(m) = id
    /\ members' = {m \in members : ID(m) # id}
    /\ up' = {n \in up : id \notin data[n]}
    /\ lost' = lost \cup {i \in live \cup halted : \E m \in members : ID(m) = id /\ Owns(i, m)}
    /\ UNCHANGED <<adds, founding, seed, data, lateAdds>>

\* A request whose answer the client gave up on takes effect, or never does.
LateAdd(url) ==
    /\ url \in lateAdds
    /\ lateAdds' = lateAdds \ {url}
    /\ \/ HasQuorum /\ Add(url)
       \/ UNCHANGED <<members, adds, founding, seed, data, up, lateRemoves, lost>>

LateRemove(id) ==
    /\ id \in lateRemoves
    /\ lateRemoves' = lateRemoves \ {id}
    /\ \/ HasQuorum /\ Remove(id)
       \/ UNCHANGED <<members, adds, founding, seed, data, up, lateAdds, lost>>

-----------------------------------------------------------------------------
(* The etcd process of instance n, started with the flags file f.  f.state is
   ETCD_INITIAL_CLUSTER_STATE and f.initial ETCD_INITIAL_CLUSTER.  Flags are
   for a process without a data directory: once it has one, it ignores them. *)

Fresh(n) == seed[n] = {} /\ data[n] = {}

\* State "new": the process creates its data directory from the flags before it
\* has heard from any peer.
Seed(n, f) ==
    /\ Fresh(n)
    /\ f.state = "new"
    /\ n \in f.initial
    /\ seed' = [seed EXCEPT ![n] = f.initial]
    /\ UNCHANGED <<members, adds, founding, data, up, lateAdds, lateRemoves, lost>>

\* The new cluster c forms when a majority of its members run: together says who
\* does.
Form(c, together) ==
    /\ founding = {}
    /\ together # {}
    /\ together \subseteq c
    /\ 2 * Cardinality(together) > Cardinality(c)
    /\ founding' = c
    /\ members' = {Founder(i) : i \in c}
    /\ data' = [i \in Instances |->
                  IF i \in together THEN {ID(Founder(i))} ELSE data[i]]
    /\ up' = up \cup together
    /\ UNCHANGED <<adds, seed, lateAdds, lateRemoves, lost>>

\* The rest of the initial cluster finds it formed.
StartFounder(n) ==
    /\ data[n] = {}
    /\ seed[n] # {}
    /\ seed[n] = founding
    /\ Founder(n) \in members
    /\ data' = [data EXCEPT ![n] = {ID(Founder(n))}]
    /\ up' = up \cup {n}
    /\ UNCHANGED <<members, adds, founding, seed, lateAdds, lateRemoves, lost>>

\* State "existing": etcd compares the URLs of its flags with the member list it
\* fetches from a peer of the same flags, and needs its own entry among them.
CanJoin(n, f) ==
    /\ n \in f.initial
    /\ up \cap f.initial # {}
    /\ {PeerURL(i.endpoint) : i \in f.initial} = URLs(members)

\* Then it creates its data directory, as the member with its URL.
Join(n, f) ==
    /\ Fresh(n)
    /\ f.state = "existing"
    /\ CanJoin(n, f)
    /\ \E m \in members :
         /\ m.peerURL = PeerURL(n.endpoint)
         /\ data' = [data EXCEPT ![n] = {ID(m)}]
    /\ UNCHANGED <<members, adds, founding, seed, up, lateAdds, lateRemoves, lost>>

\* A process with the data directory of a member serves.  One that has never
\* told its name publishes it first, for which it needs a quorum.
Serve(n) ==
    /\ \E m \in members :
         LET named == [m EXCEPT !.name = n.name]
         IN  /\ ID(m) \in data[n]
             /\ named # m => 2 * (Cardinality(Started(members)) + 1) > Cardinality(members)
             /\ members' = (members \ {m}) \cup {named}
    /\ up' = up \cup {n}
    /\ UNCHANGED <<adds, founding, seed, data, lateAdds, lateRemoves, lost>>
=============================================================================
