---------------------------- MODULE ClusterAPI ----------------------------
(***************************************************************************)
(* The members API wrapper of src/etcd/etcd.go, as one bootstrap process   *)
(* uses it, on top of a cloud provider that answers GetInstances once and  *)
(* remembers the answer (src/cloud/aws/aws.go, src/cloud/srv/srv.go).      *)
(*                                                                         *)
(* The client's endpoints are the instances of that remembered answer, so  *)
(* one variable, cache, stands for the provider's memo and for the cached  *)
(* membersAPIClient.  {} is Go's nil: nothing is remembered yet.           *)
(***************************************************************************)
EXTENDS EtcdCluster

VARIABLES
    cache,     \* per instance: what its process remembers of GetInstances
    swallowed  \* history, per instance: an error was taken for an empty list

apiVars == <<cache, swallowed>>

APITypeOK ==
    /\ cache \in [Instances -> SUBSET Instances]
    /\ swallowed \in [Instances -> BOOLEAN]

APIInit ==
    /\ cache = [n \in Instances |-> {}]
    /\ swallowed = [n \in Instances |-> FALSE]

\* The instances the process of n works with.
View(n) == IF cache[n] # {} THEN cache[n] ELSE Inventory

\* GetInstances succeeds: the first answer is kept for the rest of the process.
GetInstances(n) == cache' = [cache EXCEPT ![n] = View(n)]

\* GetInstances fails: only a process that has no answer yet asks the provider.
CloudError(n) ==
    /\ cache[n] = {}
    /\ Fault("cloud")
    /\ UNCHANGED cache

\* Some endpoint of the client serves the members API.
Answered(n) == \E s \in up : s.endpoint \in {i.endpoint : i \in View(n)}

\* list() reaches the cluster.
ListOK(n) ==
    /\ Answered(n)
    /\ GetInstances(n)
    /\ UNCHANGED faults

\* list() fails: no instance list, nobody serves at its endpoints, or every
\* request is lost or times out.
ListError(n) ==
    \/ CloudError(n)
    \/ GetInstances(n) /\ ~Answered(n) /\ UNCHANGED faults
    \/ GetInstances(n) /\ Answered(n) /\ Fault("list")

\* Members() without an error.  An error of list() that is not a TLS error is
\* logged and the empty list returned.
Members(n, reply) ==
    \/ /\ ListOK(n)
       /\ reply = members
       /\ UNCHANGED swallowed
    \/ /\ ListError(n)
       /\ reply = {}
       /\ swallowed' = [swallowed EXCEPT ![n] = @ \/ members # {}]

\* Members() with an error: a TLS failure, or a member with several peer URLs.
MembersError(n) ==
    /\ Answered(n)
    /\ Fault("members")

\* Mutant: the names are not compared.
FindFirst(n, name, found) ==
    /\ ListOK(n)
    /\ \E m \in members : found = {m}

\* RemoveMemberByName finds the member to remove: the first of that name in the
\* order of the server, whose IDs are hashes, so any.  found is {} when none has
\* the name any more.
FindByName(n, name, found) ==
    /\ ListOK(n)
    /\ IF name \in MemberNames(members)
       THEN \E m \in members : m.name = name /\ found = {m}
       ELSE found = {}

\* The removal request of RemoveMemberByName for the member found.
RemoveApplied(n, m) ==
    /\ Answered(n)
    /\ HasQuorum
    /\ Remove(ID(m))
    /\ UNCHANGED <<lateRemoves, faults>>

\* It fails: nobody serves at the client's endpoints, the member is gone, there is
\* no quorum, or the request is lost; one that only timed out may take effect later.
RemoveFailed(n, m) ==
    /\ UNCHANGED <<members, adds, founding, seed, data, up, lateAdds, lost>>
    /\ \/ /\ ~Answered(n) \/ ~HasQuorum \/ ID(m) \notin {ID(x) : x \in members}
          /\ UNCHANGED <<lateRemoves, faults>>
       \/ Fault("remove") /\ UNCHANGED lateRemoves
       \/ /\ Answered(n) /\ Fault("late")
          /\ lateRemoves' = lateRemoves \cup {ID(m)}

\* AddMemberByPeerURL.
AddApplied(n, url) ==
    /\ Answered(n)
    /\ AcceptsAdd
    /\ Add(url)
    /\ UNCHANGED <<lateAdds, faults>>

\* It fails: nobody serves at the client's endpoints, the URL is taken, the cluster
\* does not accept, or the request is lost; one that only timed out may take effect
\* later.
AddFailed(n, url) ==
    /\ UNCHANGED <<members, adds, founding, seed, data, up, lateRemoves, lost>>
    /\ \/ /\ ~Answered(n) \/ url \in URLs(members) \/ ~AcceptsAdd
          /\ UNCHANGED <<lateAdds, faults>>
       \/ Fault("add") /\ UNCHANGED lateAdds
       \/ /\ Answered(n) /\ AcceptsAdd /\ Fault("late")
          /\ lateAdds' = lateAdds \cup {url}
=============================================================================
