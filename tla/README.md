# A TLA+ model of etcd-bootstrap

`etcd-bootstrap` runs on every machine of an etcd fleet before etcd itself. It
asks a cloud provider which machines there are, asks the running etcd cluster (if
there is one) for its members, removes the members whose machines have gone, adds
the local machine, and writes a file of etcd flags. On AWS it then publishes the
machines in a load balancer or a DNS record. Nothing coordinates the machines: all
of them may do this at once, and any of them may fail at any call and start over.

This project models that: TLA+ modules translated from the Go source, model
checked with TLC on small fleets, and theorems checked with TLAPS for every fleet.

## 1. Inventory

| Part | Source | State it keeps | Operations | Modelled by |
|---|---|---|---|---|
| flag generation | `bootstrap/bootstrap.go` | the flags file | `GenerateEtcdFlags`, `clusterExists`, `nodeExistsInCluster`, the two configurations | `Bootstrap` |
| reconciliation | `bootstrap/reconcile.go` | the loop over old members | `removeOldEtcdMembers`, `addLocalInstanceToEtcd` | `Bootstrap`, abstractly `Membership` |
| members API wrapper | `etcd/etcd.go` | the cached client | `Members`, `AddMemberByPeerURL`, `RemoveMemberByName` | `ClusterAPI` |
| etcd (external) | as used by the above | member list, data directories, processes | add, remove, seed, form, join, serve | `EtcdCluster` |
| cloud inventory (external) | `cloud/cloud.go` | the machines that run or are stopped | launch, stop, start, terminate | `Fleet` |
| what a lookup promises | `CloudAPI` in `bootstrap/bootstrap.go` | the remembered answer | ask, answer, give up, forget | `CloudAPI` |
| AWS lookup | `cloud/aws/aws.go` | identity document, instance list | `GetInstances` and its four requests | `AWSLookup` |
| LB registration | `cloud/aws/lb_target_group.go` | the target group | `Update` | `Registration` |
| Route 53 registration | `cloud/aws/r53.go` | the A record | `Update` | `Registration` |
| noop registration | `cloud/noop/noop.go` | none | `Update` | `Registration` |
| aws command | `cmd/aws.go` | the flags | flag generation, then `registerInstances`; choice of lookup and provider | `Bootstrap`, `Registration`, `SRVLookup` (partly) |
| start scripts | `scripts/bootstrap.sh`, `etcd.sh` | none | run etcd-bootstrap, then etcd | `Bootstrap` |
| SRV lookup | `cloud/srv/srv.go` | instance list, local instance | `GetInstances`, `GetLocalInstance` | `SRVLookup` |
| GCP lookup | `cloud/gcp/gcp.go` | instance list, local instance | the constructor, zone by zone; getters | `InventoryLookup` |
| vSphere lookup | `cloud/vmware/vmware.go` | instance list, local instance | the constructor, local machine by its name; getters | `InventoryLookup` |
| gcp, vmware commands | `cmd/gcp.go`, `cmd/vmware.go` | none | constructor, then flag generation | `InventoryLookup`, `Bootstrap` (partly) |
| root command | `cmd/root.go`, `main.go` | none | flag parsing | no: no state |
| mocks | `mock/mock.go` | none | test doubles | no |

**How the parts interact.** `cmd` builds a provider and a members client and hands
both to `bootstrap`. `bootstrap` calls the provider for instances and the client for
members; the client asks the provider for its endpoints. Machines meet only in the
member list, and later in the target group or record. The flags file is the only
thing handed on to etcd.

**What is hard.**

* *Two kinds of knowledge.* The instance list is asked for once per run and kept;
  the member list is read again before every decision. The two drift apart.
* *Check, then act.* Each decision (`clusterExists`, `nodeExistsInCluster`, the loop
  of removals, `addLocalInstanceToEtcd`) is a list followed by another request,
  with all other machines in between.
* *Swallowed errors.* `Members` turns every error of the list except TLS errors into
  the empty list; a failed removal is a warning. A failed addition ends the run.
* *Late effects.* Requests time out after five seconds and may take effect later.
* *Identity.* A member is judged by its name and URL, removed by its name, added by
  its URL and has no name until it has started; names and addresses are reused.
* *Stopped machines.* AWS lists a machine that is switched off, GCP and vSphere do
  not; its disk, name and address remain, its member may not.
* *Restarts.* A failed etcd-bootstrap is run again (it is an init container,
  `README.md:100-130` of the repository) and starts over with no memory. Once it has
  succeeded nothing runs it again: `etcd.sh:6-9` reads the file that is there, and an
  etcd that exits restarts with the same file. Only a restart of the machine or of the
  pod, which is a fault, runs both, over the data directory that etcd has left.
* *Last writer wins.* Registrations replace what others have published.

**What makes each part correct.**

* Reconciliation never evicts a machine that has been listed all along; all processes
  together change the member list one member at a time; it leaves the local machine an
  entry before an existing-cluster file is written; a rerun on a member changes
  nothing; a replacement comes to serve with the first file that is written for it.
* Flag generation writes a new-cluster file only before formation or for a member;
  machines that start together form one cluster, and only one.
* Every lookup lists what was there throughout and nothing that was never there,
  although machines come and go between its requests; it finds the right local machine (on vSphere it may not, section 4).
* Registration publishes the fleet if undisturbed and never takes out an established
  machine.

## 2. Modules

```
Fleet <- EtcdCluster <- ClusterAPI <- Bootstrap <- MCBootstrap
Bootstrap <- BootstrapProofs <- MembershipProofs <- FlagsProofs <- FormationProofs
Fleet <- Registration     <- MCRegistration,     RegistrationProofs
         AWSLookup        <- MCAWSLookup,        AWSLookupProofs
         InventoryLookup  <- MCInventoryLookup,  InventoryLookupProofs
         SRVLookup        <- MCSRVLookup,        SRVLookupProofs

Bootstrap                              implements  Membership
AWSLookup, InventoryLookup, SRVLookup  implement   CloudAPI
```

(`X <- Y`: Y extends X; "implements" is an `INSTANCE ... WITH` whose `Spec` is a
property of a run and a theorem.)

**Fleet** is the cloud. `live` machines run; `halted` ones are switched off and may
return with disk, name and address; `launched` ones have run at some time (a machine
that has gone does not return, another one may get its name or address). `Inventory`
is what a provider lists: the live machines, with `ListsStopped` (AWS) the halted ones,
too. `away` remembers which machines the inventory has ever missed, and `Lasting` are
the initial machines that it never has. `Clash` says which machines cannot exist side
by side. `faults` is the budget of faults.

**EtcdCluster** is etcd as the code relies on it. `members` is the member list, an ID
is a URL and a stamp (a removed and re-added URL gets a new ID). The data directory
of machine `n` is two variables: `seed[n]` is the initial cluster it was created for,
if it was created with the state `new`, and `data[n]` the member of the running cluster
it belongs to. `up` are the processes that serve. A process without a data directory
obeys its file: with the state `new` it creates the directory before it has heard from
any peer (`Seed`), with `existing` it does so as the member with its URL if its flags
match the member list of a peer (`Join`). From then on it ignores the file, whatever a
later run of etcd-bootstrap writes: a majority of one initial cluster forms it
(`Form`), the rest of that cluster find it formed (`StartFounder`), and a member
serves and publishes its name (`Serve`). A process that can do none of this exits and is
started again with the file and the directory it has, so its exit is no step. `lost`
remembers the machines whose member was removed, for ever: the properties that mention
it say nothing of a machine that was taken out once. `StrictReconfig` is etcd's
`--strict-reconfig-check`. Everything here is marked external in the map.

**ClusterAPI** is `etcd.go`. `cache[n]` is what the process of `n` remembers: the
provider's instance list and the client's endpoints, which are made of it; `{}` is `nil`.
`Members` succeeds, or answers the empty list for an error. `FindByName` and
`RemoveApplied`/`RemoveFailed` are the two requests of `RemoveMemberByName`;
`AddApplied`/`AddFailed` are `AddMemberByPeerURL`. A request needs somebody who serves at
the client's endpoints (`Answered`). A failed one found nobody, was lost, was refused, or
is *late*: it stays in `lateAdds` or `lateRemoves` and takes effect at any later time, or
never (`ApplyLate`).

**Bootstrap** is one process per machine. `pc[n]` names its next call:

| `pc` | code | next |
|---|---|---|
| `clusterExists` | `clusterExists()` | `newConfig` or `nodeExists` |
| `nodeExists` | `nodeExistsInCluster()` | `newConfig` or `removeOld` |
| `removeOld` | list of `removeOldEtcdMembers()` | `remove`, or `addLocal` if nothing is stale |
| `remove`, `removeCall` | the two requests of one removal; `doomed` is the rest of the loop, `target` the member found | loop, then `addLocal` |
| `addLocal` | list of `addLocalInstanceToEtcd()` | `add` or `existingConfig` |
| `add` | `AddMemberByPeerURL` | `existingConfig`, or the run ends |
| `newConfig`, `existingConfig` | the configuration and `WriteFile` | `register` |
| `register` | `registerInstances` (aws; nothing elsewhere) | `done`, or the run ends |
| `done` | the script starts etcd with `file[n]`, again and again until it serves | |

One request is one step, so requests of different machines interleave freely. The file
keeps the two flags that depend on the cluster, `ETCD_INITIAL_CLUSTER_STATE` and
`ETCD_INITIAL_CLUSTER` (as a set of instances). `Fails` is an error that is returned
up to `log.Fatalf`; `Stop` forgets what the process knew. `StartEtcd` is the steps of
etcd with the file of its machine, `FormCluster` the meeting of all who wait for one
initial cluster. `Crash` restarts the machine or the pod (both programs run again),
`RestartEtcd` only etcd, with the file it has, `PowerOff` and `PowerOn` stop and start a
machine, `Terminate` takes machine and disk, `Launch` starts a machine while
fewer than `Capacity` run.

**Membership** is what all these processes together may do to the member list: form it
at once, `Admit` one member by its URL, `Name` one, `Expel` one that is not settled,
`Release` a settled member whose machine has gone; one entry per address at all times.
`Bootstrap` implements it with `settled <- Settled`, the members of `Lasting`. That one
request changes one member is etcd's doing; that no crossing of requests, repeated
addition or removal by name ever hits a settled member is etcd-bootstrap's.

**Registration** is `registerInstances` call by call (`Register` in `Bootstrap` is only
its success or failure). `view[n]` is the remembered instance list, `published` the
target group or the record. A call that fails may have had its effect. `Init` lets an
earlier fleet leave anything behind.

**CloudAPI** is the promise of the Go interface of that name (`GetInstances returns all
the non-terminated instances that will be part of the etcd cluster`). No provider can
look at a fleet at one instant, so the promise is about an interval: the answer contains
what was present throughout the lookup (`steady`) and nothing that never was (`seen`);
it is kept for the rest of the process, and a lookup that fails keeps nothing.

**AWSLookup** is one process's `GetInstances` against a group that changes between the
requests for the identity, the group's name, its IDs and their descriptions. Any
machine may be detached meanwhile, the one that asks included. An empty list of IDs is
passed on unchecked, and EC2 then describes the whole account (`EmptyGroup`).

**InventoryLookup** is the constructors of the GCP and the vSphere provider (`platform`).
GCP lists zone by zone and asks the metadata server for the local machine; vSphere lists
in one request and takes the first machine, in the server's order, whose name is a
substring of `--vm-name` (`within` is the set of those, and any of them may be first).
The machine the process runs on stays switched on.

**SRVLookup** is the SRV provider: one request for the SRV record, one for the TXT
record of each target, one for the addresses of each target, while an administrator
changes the records one at a time. A TXT record may outlive its target in the SRV
record; `name=` names its target by the empty string, no such record (`Unnamed`) fails
the lookup. `Published` is what the records stand for; `claims`
are the targets that have resolved to the local address since the search for the local
instance began.

Variables that only properties read are `swallowed` (an error was taken for an empty list
in this run), `lost` (a live machine whose member was removed), `away`, `alone` (a
registration that overlapped nothing), `steady`, `seen` and `claims`.

## 3. Runs

| Run | Expect | Instance | Shows |
|---|---|---|---|
| `safety` | pass | three founders, two later machines, capacity 5, stopped machines not listed, not strict, 3 additions, 1 fault of any kind | `TypeOK`, `FoundersKept`, `ImplementsMembership`, `OwnEntryEstablished`, `NewConfigEarned`, `ExistingIncludesLocal`, `MemberRerunHarmless` |
| `formation` | pass | two machines, a third launched at any time, nothing formed, 2 faults (lost lists, failed lookups and registrations, TLS errors, crashes, restarts) | `NoSecondCluster`, `ClusterForms`, `FormationConverges` |
| `replacement` | pass | three founders, two later machines, capacity 3, stopped machines listed, strict, 3 additions, 2 faults of any kind | `FoundersKept`, `OwnEntryEstablished`, `ReplacementJoins` |
| `registration` | pass | two founders, two later machines (one reuses an address), noop, Route 53 and LB, 2 faults, any leftover | `TypeOK`, `LoneRunPublishesFleet`, `EstablishedStayPublished` |
| `awslookup` | pass | four machines, a foreign one, every group at the start, any of them may be detached, 2 errors | `TypeOK`, `AnswerCoversSteady`, `AnswerFromGroup`, `ImplementsContract` |
| `inventory` | pass | four machines in two zones, GCP and vSphere, any set of fitting names, 2 errors | `TypeOK`, `LocalIsListed`, `ImplementsContract` |
| `srv` | pass | three targets, two names (one of them empty), any records at the start, 2 changes, 1 error | `TypeOK`, `LocalResolvesHere`, `ImplementsContract` |
| `newconfig` | violation | a lost list beside a running cluster | `NewConfigOnlyForMembers` (`bootstrap.go:175`) |
| `secondcluster` | violation | a fleet that grows from one machine to three while it forms, no fault | `NoSecondCluster` (`bootstrap.go:33`) |
| `staleview` | violation | one founder, two newcomers, no fault | `RemovedAreGone` (`reconcile.go:19`) |
| `address` | violation | a replacement with its predecessor's address | `AddressIsOwn` (`reconcile.go:80`) |
| `vmname` | violation | a fitting name beside the machine's own | `LocalIsThisMachine` (`README.md:258`, `vmware.go:52`) |

The passing runs of `Bootstrap` have 184,507, 36,893 and 60,513 distinct states, in the
order of the table.

`CHECK_DEADLOCK FALSE` everywhere but in `inventory` and `vmname`: once all machines
serve, or the record says what it should, and the budget of faults is spent, the system
rests, and so it should. An inventory changes for ever.

**Why the bounds are enough.** `FoundersKept` and the others need a stale view (a
machine launched after another has asked), two processes reconciling at once (two later
machines), and a member list with a stale, a nameless and a live entry (three founders,
two additions). With capacity 5 both newcomers come without a fault, before or after the
other has asked, so the one fault of `safety` is left for a termination, a stop, a crash,
or a failed, late or lost request in the midst of their work; the third addition is for
one that was taken out again. With capacity 3 a newcomer costs a termination or a stop:
`replacement` has two faults, hence one more to go wrong while a machine is replaced, or
two machines that are replaced at once. The two runs differ in what the provider lists
and in the strict check of etcd as well, so that each setting of both is met by
`FoundersKept` and `OwnEntryEstablished`; the theorems of section 5 have no bounds.
`formation` lets the fleet grow while it forms, from two to three: the third machine may
come before, while and after the first two form a cluster, and then has to join (one
addition). The lookups need a change before and after each of their requests, and lists
in which one machine stays while others come and go.

**Fairness.** Weak fairness per machine on its bootstrap process (`Step`), its etcd
process (`EtcdStep`) and its launch. A failed etcd-bootstrap is run again, as an init
container is; each request ends by its five-second timeout. An etcd that exits or waits
is started again, or goes on trying, with the file and the data directory it has. The
launch is the scaling group's, which keeps its size. Nothing runs etcd-bootstrap again
where it has succeeded: `Crash` is a fault, and faults, late effects, terminations and
the return of a stopped machine are never obliged.

So both convergence properties say that the *first file that is written* is good enough,
under premises about what happens in the behaviour. Each premise leaves out a state
which no step of etcd-bootstrap repairs, and without any one of them TLC finds a machine
that never serves:

| Property | Premise | Without it |
|---|---|---|
| both | `[]NothingSwallowed`: no error is taken for an empty list | a newcomer waits for ever with a new-cluster file, or with an existing-cluster file that names nobody |
| `FormationConverges` | `[]NobodyAstray`: no data directory was created for another initial cluster than the one that forms | who listed a larger or smaller fleet before the formation keeps that data directory |
| `ReplacementJoins` | `[]ViewsCurrent`: no remembered instance list misses a running machine with a member | an existing-cluster file that leaves out another newcomer is refused by etcd |
| `ReplacementJoins` | `NoneStaysOff`: a machine that is switched off returns or goes | a strict cluster with a stopped member admits no other |
| `ReplacementJoins` | `<>[]HasQuorum` | a cluster without a quorum accepts no change |

`ReplacementJoins` is checked where stopped machines stay listed and the check is strict.
Where they are not, a machine that stops and returns may have lost its member, and
section 4 says what comes of it.

## 4. Findings

1. **`newconfig`**. `Members` (`etcd.go:212`) answers the empty list for any error but
   TLS, and `clusterExists` reads that as "no cluster": a replacement writes a
   new-cluster file beside a running cluster and waits for peers that never come.
2. **`secondcluster`**. `GetInstances` is said to return all the instances that will be
   part of the cluster (`bootstrap.go:33`); it returns those that run when it is asked.
   With no fault at all, a fleet that grows from one to three while it forms may form two
   clusters: the first machine alone, and the two others, who list all three.
3. **`staleview`**. A process that asked for the instances before another machine was
   launched removes that machine's member, without any fault.
4. **`address`**. A URL that is already listed may be a predecessor's: the replacement
   starts on an entry that has a name and a history.
5. **`vmname`**. `strings.Contains` in `vmware.go:146`: a machine that is given its own
   name with `--vm-name` may take itself for another one whose name is a part of it
   (`etcd-1` of `etcd-10`).

Noted without a run:

* A removal decides by name and URL and acts by name (`reconcile.go:41-46`,
  `etcd.go:253`). A stale member without a name is looked up by the empty name, and with
  two nameless members the one that is still initialising, which `reconcile.go:41` means
  to spare, may go instead.
* When the last machine of a group is detached between two requests of its own lookup,
  `DescribeInstances` gets an empty list of IDs, which `aws.go:110-118` does not check,
  and describes every machine of the account. `AnswerFromGroup` and `ImplementsContract`
  leave out that one step.
* *Files that etcd refuses for ever.* An existing-cluster file has to name the members
  that are there when etcd reads it. It does not, and until the pod restarts nothing
  writes another, when: the check is not strict and a failed removal (`reconcile.go:47`)
  has left a dead member; a machine that stops, unlisted, returns while its replacement
  joins and its removal fails or is late; or two newcomers reconcile at once, one with a
  list that misses the other (the hazard at `bootstrap.go:266`).
* A machine that was stopped, unlisted, removed and started again has the disk of a
  removed member: no run of etcd-bootstrap repairs it.
* Two overlapping updates of the DNS record, without any fault, may leave the older list
  written last (`README.md:83` of the repository: the record is to contain all
  instances), and an old list deregisters a newcomer from a load balancer; the next run
  repairs it. `LoneRunPublishesFleet` is about undisturbed runs, and
  `EstablishedStayPublished` about machines that are in every list.
* Several targets of the SRV record may resolve to the local address. Then two runs of one
  machine may take different instances for the local one, for the search goes through a
  map; `LocalResolvesHere` bounds the choice to those.
* Second clusters are found for a fleet that grows from three to five, too (a majority of
  the first three, and the other three of all five), and where two newcomers take the
  places of machines that are terminated while the cluster forms. `NoSecondCluster` holds
  for every fleet that grows by one machine at most and loses none meanwhile
  (`SecondClusterExcluded`, section 5); with one newcomer and one termination, from two
  or three machines, TLC finds none either.
* `NewConfigEarned` needs its clause that the cluster has members: two processes, each
  with a view of the fleet that lacks a machine which was switched off and unlisted while
  they asked, may between them remove all members, one of the removals taking effect
  late. Whoever asks next is told, truly, that there are none, and writes a new-cluster
  file. The proof of `NewConfigsEarned` came upon it; TLC shows it with one founder, two
  later machines, stopped machines not listed, two stops and a late removal
  (`Instances <- OneAndTwo`, `Initial <- One`, `MaxFaults = 3`), more than `safety` has.
* `bootstrap_test.go:283-286` expects an existing-cluster file without the local instance:
  its mock answers every list with the same members, before and after the addition.
  `ExistingIncludesLocal` is about an etcd that lists what has been added, as
  `bootstrap.go:190-201` counts on.
* `README.md:34` and `:83` of the repository name the provider `dns`, `cmd/aws.go` knows
  `route53`; the IAM policy shown for load balancers lacks the two actions
  (`DescribeTargetHealth`, `DeregisterTargets`) that `Update` calls.

## 5. Proofs

For every fleet, fault set, budget and bound that satisfies the named assumptions
(`FleetAssumption`: names are not blank, the initial machines do not clash;
`EtcdAssumption`, `BootstrapAssumption`, `RegistrationAssumption`: types of the
constants; `LookupAssumption`: `Local` is in the set of machines and is not one of the
foreign; `InventoryAssumption`: `Local` is a machine and every machine has a zone;
`SRVAssumption`: a target without a name is not a name):

* `TypeCorrect`, in `BootstrapProofs` and in the proof module of `Registration` and of
  each lookup: `Spec => []TypeOK`.
* `FoundersStay`: `Spec => []FoundersKept`. The property alone is not inductive: an old
  decision may be carried out later. `FoundersInv` adds what a decision consists of, and
  `OwnData` that the data directory of a machine, as far as it belongs to a member at all,
  belongs to one with the machine's own URL (so no machine publishes its name in a
  founder's entry). The cluster was formed by `Initial`; no two live or stopped machines
  clash; a stopped machine is listed or counts as `away`; no two members share a URL;
  every founder in `Lasting` is a member; and (`Sparing`) the remembered instance lists
  hold every such founder, the members a loop has left, the members found for removal and
  the late removals are none of theirs. The step that needs it all is `FindMember`: the
  loop judged a member by name and URL, the look-up goes by name, and only because names
  of founders are in the list does it never find a founder. The removal that follows goes
  by ID, and IDs differ because URLs do.
* `MembershipImplemented`: `Spec => ImplementsMembership`, before, while and after the
  cluster forms. `ListInv` says that what a process remembers, what is in a file and what
  a data directory was created for are machines that were listed at one time, hence with
  addresses of their own, and that there is no member before a formation; from it the
  first member list has one entry per address. The lemma `HowMembersChange` reduces every
  step of `Bootstrap` to: no change of the list, a formation, one start, one addition, or
  one removal that spares the founders (by `FoundersInv`). `MembershipStep` maps each of
  these to a step of `Membership`.
* The theorems of `FlagsProofs` rest on one invariant, `KnowsInv`: what a process knows at
  each of its calls, and goes on to know although everybody else moves. `Knows(n)` says:
  whoever runs is live and in its own list; from `nodeExists` on the cluster has formed;
  from `removeOld` to `existingConfig` the instance is not listed by its name (unless an
  error hid the list); before a new-cluster file it is; before an existing-cluster file it
  has an entry of its own; and after that the file names it. `NamedByMachines` adds that
  every name in the list came with a machine of that name and that URL. Each part is
  stable because of one lemma on how the list changes for one instance: `StaysUnnamed`
  (a name comes only with its machine), `StaysNamed` and `StaysEntered` (only a removal
  takes it out, and a removal is remembered in `lost`). `KnowsElsewhere` is the step of
  anybody else, `KnowsOwnStep` the process's own.
  * `RerunsHarmless`: `Spec => []MemberRerunHarmless`, without any condition.
  * `NewConfigsEarned`: `Spec => []NewConfigEarned`, if no two machines ever have the same
    name, or no two the same address. With both reused, a process may find its name in a
    predecessor's entry, which a third machine with the predecessor's address then takes
    over.
  * `OwnEntries`: `Spec => []OwnEntryEstablished`, if names and addresses are not reused.
  * `LocalIncluded` and `AddressesOwn`: `Spec => []ExistingIncludesLocal` and
    `Spec => []AddressIsOwn`, if addresses are not reused. The run `address` shows that
    this hypothesis is needed; it also shows, read together with the theorem, that reuse
    is the only way to another machine's entry.
* `SecondClusterExcluded`: `Spec => []NoSecondCluster`, if the fleet grows by one machine
  at most (`OneComes`), none is terminated, and those that are switched off stay listed
  (`NoneMissing`); any lists may be lost, any process may fail or restart. By
  `FormationInv` the first machines are in every list, hence in every new-cluster file, in
  every initial cluster a data directory was created for, and in `founding`; and a
  majority of `founding` has data directories for it. Two different fleets between
  `Initial` and `Instances` differ by the one machine that came, so a majority of one and
  a majority of the other have a machine in common (`PartsMeet`, `MajoritiesMeet`); but a
  data directory is created once (`SeedStays`).
* `LoneRunPublishes`: `Spec => []LoneRunPublishesFleet`. `LoneInv` says how far the target
  group is after each request of a run that overlaps nothing, from any leftover: it holds
  the listed machines once they are registered, and what exceeds them is exactly the
  excess to be deregistered.
* `EstablishedStay`: `Spec => EstablishedStayPublished`, from `SparingInv`: a remembered
  list holds every founder of `Lasting`, so the excess spares their addresses (no two
  machines share one).
* `AnswersCover`: `Spec => []AnswerCoversSteady`, from `CoverInv`: between the request
  for the IDs and the one for their descriptions, the IDs hold every steady machine.
* `AnswersFromGroup`: `Spec => []AnswerFromGroup`, from `GroupInv`: the IDs that are asked
  for came from the group, or there are none. Property and theorem say so of every group
  that had a machine when its IDs were asked for, whichever machines are detached.
* `LookupImplementsContract`, three times: the AWS provider (but for the descriptions of
  an empty group), the GCP and vSphere providers and the SRV provider implement
  `CloudAPI`. Each rests on an invariant that relates what has been found so far, and what
  is left to be asked, to `steady` and `seen`.
* `LocalListed` (GCP, vSphere): the local machine is in the list. `LocalResolved` (SRV):
  the local instance is a listed one whose target resolved to the local address while it
  was looked for.

TLC has checked all of `FoundersInv`, `OwnData`, `ListInv`, `KnowsInv`, `FormationInv`,
`LoneInv` and the invariants of the lookups, too.

**The hypotheses.** They are about the fleet only, and the runs satisfy them: `safety` has
no name and no address twice, `formation` grows by one and terminates nobody. Whether
names are reused is up to the provider (AWS names are instance IDs, which are not;
vSphere and SRV names are the administrator's), and so is the reuse of addresses, which
any provider with a small subnet may show. `Fleet` assumes that no name of an instance is
empty, although the SRV provider returns one for the record `name=`.

**Model-checked only.** `ClusterForms`, `FormationConverges` and `ReplacementJoins`:
liveness under fairness is out of TLAPS's reach. Every invariant and every action
property of the passing runs is the subject of a theorem.

## 6. Simplifications

* One cluster lives. A second one whose majority has created its data directories is a
  bad state (`NoSecondCluster`), but is not run: the machines of one that would form
  wait for ever.
* A data directory with the state `new` is created at the first start of etcd, in one
  step (`Seed`). etcd may exit before, or refuse what it finds later: a process that
  cannot go on is started again with the same file and directory, so that neither is a
  step. Data directories of members are never damaged.
* A cluster forms when all who wait for it make a majority, at once, and who finds it
  formed starts as the founder it was meant to be.
* The member list that any process serves is the current one, and a process that is
  `up` answers lists even without a quorum. A member publishes its name when it serves
  for the first time, for which a quorum, itself included, has to be up. Elections and
  the log are left out.
* A member that is removed stops at once, if it runs.
* One protocol for the whole deployment, one peer URL per member. TLS failures and
  members with several URLs are the error that `Members` returns.
* The configuration and `WriteFile` are one step: the file is used only after the
  process has succeeded, and a failed write ends the run like `Fails`.
* `GetInstances` is one look at the inventory in `Bootstrap` and `Registration`;
  `CloudAPI` says how far that is so for each provider. `Register` is one step there;
  `Registration` has its calls.
* Whether strict reconfiguration admits an addition is decided when it is requested;
  a late one then needs a quorum only.
* A stopped machine keeps its name, address and disk. On vSphere, a machine that has
  been switched on and whose guest tools are silent has an empty address: not modelled.
* In `InventoryLookup` the machine the process runs on stays switched on and labelled:
  it is the one that asks.
* In `SRVLookup` a target is given a name only while it is in the SRV record (the order
  of `README.md:55-56` of the repository: first the SRV record, then a TXT record for
  each instance); the name may stay when the target has left. `GetLocalIP` there is the
  AWS provider's. An instance with the empty name is in the answer of `SRVLookup`, but
  not among the machines of `Bootstrap` (`FleetAssumption`).
* Addresses of clients, TLS paths and the flags that do not depend on the cluster are
  left out.

## 7. Plan

Done: all modules of section 2, their runs, and the theorems of section 5.

Next, the proofs: which weaker hypotheses are enough for a single cluster (a fleet of an
even size may grow by two, as long as the views of it are nested; with one newcomer,
machines may perhaps be terminated), and when a member that joined later, whose machine
is in the views of all that reconcile, is kept as a founder is.

**Not modelled, and why.** The mocks are test doubles. The root command and the
declarations of flags keep no state and are over before anything is asked of the cloud
or the cluster. The transport (TLS, clients, endpoints' URLs) is one kind of error. The
flags that do not depend on the cluster are text. A machine that is reimaged under its
old name (name and address kept, disk lost) is left out: a machine of the model that
loses its disk is gone, and its successor differs from it in its name or its address.
etcd's log, elections and learners are outside the repository.
