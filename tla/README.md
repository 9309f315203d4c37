# A verification project for gardener-extension-shoot-networking-filter

The extension keeps the nodes of Gardener shoots from talking to addresses on a filter list. It
runs on every seed, fetches the list, adapts it for each shoot, and deploys it with a DaemonSet that
applies it. This directory has TLA+ modules of its logic, TLC configurations that model-check them,
and TLAPS proofs. `PROJECT.json` says for each definition which lines of `src/` it models.

## 1. Inventory

All paths are under `src/`; `lifecycle/` is `pkg/controller/lifecycle/`.

| Component | State | Operations | Hard because of |
|---|---|---|---|
| CIDR arithmetic (`lifecycle/filter.go` 213-354) | none | overlap, removal of a network or an address from a list, splitting | off-by-one in bits and masks, order of removals, overlaps |
| Block list (`lifecycle/filter.go` 82-210, `actuator.go` 319-359) | none | two passes over the combined list, removal of the seed's load balancers | order of entries, exceptions against blocks, reserved ranges |
| Shared lists (`actuator.go` 150 and 379, `filterlistprovider.go` 165-172) | the slices of the provider and of the service configuration | get, filter, append, read twice; assignment by the refresh | five concurrent reconciles and a goroutine share arrays without a lock |
| Download (`lifecycle/filterlistprovider.go`) | the list in memory, the ticker, the OAuth2 secret as read at the start | Setup, refresh, parse, check | failing downloads, restarts, two formats, credentials that change |
| Static list (`lifecycle/filterlistprovider.go` 59-89) | the configured list | hand out | none of its own |
| Filter sources (`actuator.go` 269-317, 374-542) | secrets in the seed and in the shoot | read, decompress, parse, override by tags, merge | secrets that come and go meanwhile, errors against absence |
| Extension lifecycle (`actuator.go` 97-267) | ManagedResource and its secret; the DaemonSet and secret in the shoot | Reconcile, Delete, ForceDelete, Migrate, Restore | crashes, timeouts and retries between steps, two seeds during a migration |
| Seed and garden Extensions (`actuator.go` 198-212, 232-244, `add.go`) | ManagedResource on the seed or garden | the same operations | the seed may become the garden cluster; load balancers whose lookup fails; objects of the same names |
| DaemonSets and worker groups (`actuator.go` 153-165, 582-784) | DaemonSets in the shoot | one for all nodes, or one for each worker group | switching between the two with required anti-affinity |
| Validation (`pkg/apis/config/validation`, `lifecycle/validate.go`) | none | provider configuration | applied twice, by admission and by Reconcile |
| Admission (`pkg/admission/validator`) | none | validate a shoot | skips workerless shoots and those that are older |
| Runtime filter (`cmd/gardener-runtime-networking-filter`) | a ManagedResource of the garden's runtime cluster | a loop: read secret, update | reads what nothing writes any more; ends at any error |
| Options (`pkg/cmd/options.go`) | configuration and OAuth2 secret | read once at the start | files that may be missing |
| Health check, heartbeat, metrics, API types | - | set-up, generated code | - |

How they interact: one process holds the provider, whose `Setup` downloads before the controllers
start. The controller calls the actuator for up to five Extensions at a time, but never twice at a
time for the same one. A reconcile reads the Extension, the cluster, a secret of the shoot or of the
project, or else the provider's list; it computes the block list and writes it as a ManagedResource
with a secret. The resource manager of the shoot's control plane brings that into the shoot. The
gardenlet asks for the operations by annotating or deleting the Extension. An Extension of class seed or
garden has its ManagedResource in the cluster that the process runs in, with the same objects in
kube-system there; the extension is deployed once for shoots and seeds and once more for the garden, and the
runtime filter is a third program that may bring the same objects into the same cluster.

What makes them correct:

* the block list is the set of addresses that the BLOCK_ACCESS entries contain, without those of the
  ALLOW_ACCESS entries and of the load balancers, and never reaches into a reserved range;
* what is deployed for an Extension is one source, with the policies the tag filters give it, and the
  Extension's own static filters, whoever else is reconciled at the time;
* a source is passed over only because its secret does not exist;
* the filter in a shoot survives failures and migrations, and is gone after a deletion; no control plane is left with
  anything of it; only the seed that has the control plane replaces it, and never goes behind what it has deployed itself;
* a seed or garden keeps its filter until an Extension is deleted or the filter is left to the other class, and
  has it again afterwards for as long as an Extension asks for it;
* when changes stop, what is deployed becomes what is configured.

The hazards, each at its line with the properties that would catch it, are in `PROJECT.json`.

## 2. Modules

| Module | Models | Checked by | Proved in |
|---|---|---|---|
| `Cidr` | networks as bits and a mask, and the functions on them | through the next two | `Cidr_proofs` |
| `SplitCidr` | the loop of `splitCIDRAroundSubnet` | run `split` | `SplitCidr_proofs` |
| `EgressFilterValues` | `generateEgressFilterValues`, then `filterSecretDataForIPs` | run `values` | `EgressFilterValues_proofs` |
| `BlockedAddresses` | abstract: the blocked addresses grow, then shrink to the wanted ones | refined by `EgressFilterValues` | |
| `SharedFilterList` | slices shared by concurrent reconciles and the refresh | runs `shared_separate`, `static_lost`, `tags_lost`, `torn` | `SharedFilterList_proofs` |
| `FilterSource` | download, secrets, tag filters, fallback | runs `source`, `short_list` | `FilterSource_proofs` |
| `ExtensionLifecycle` | the actuator's operations on every seed | run `lifecycle` | `ExtensionLifecycle_proofs` |
| `FilterDeployment` | abstract: each seed deploys newer and newer lists while it has the control plane; the filter goes once | refined by `ExtensionLifecycle` | |
| `WorkerDaemonSets` | validation, admission, one DaemonSet or one for each worker group, and their pods | run `workers` | `WorkerDaemonSets_proofs` |
| `SeedCluster` | seed and garden Extensions and the runtime filter in one cluster, with their processes, providers and credentials | runs `seed_cluster`, `runtime_list` | `SeedCluster_proofs` |

`MC...` modules hold the constants for TLC. A definition whose comment begins with "Mutant" is a
variant of the next definition with a plausible bug; no specification uses it, and it shows which
property would notice the bug.

**Cidr, SplitCidr.** An address is a function from bit positions to bits, so the width is a parameter
`W`. A list of networks is a set: an address is blocked when some member contains it. `Contains` looks
at the bits before the mask only, as `(*net.IPNet).Contains` does. `SplitCidr` has one action for each
branch of the loop; `Cidr!splitCIDRAroundSubnet` is the closed form, and that the loop computes it is
checked and proved. The private ranges are tested with the unmasked address of `ParseCIDR` in the code
and with the masked one in the model; together with the second half of the test, the outcome is the
same: whether the two networks overlap.

**EgressFilterValues.** One state for each entry of each pass. The two address families never meet, so
one of them is modelled, and `NotHere` stands for a network of the other one or for text that is no
CIDR. Rendering the list as YAML and reading it back is left out: it gives the same networks. The load
balancer addresses come from the initial state.

**SharedFilterList.** A slice is the array, a length and a capacity, or cells of its own. `append` writes
in place when the capacity allows. `TornReads` says whether the three words of a slice header may be read
in the middle of their assignment: a data race, whose outcomes are all combinations of old and new
words. An array that a decoder has filled by appending usually has spare capacity, so both cases exist. A process begins
with some configuration of the service, which may have tag filters or none, and `Restart` ends it anywhere: the next one
has fresh arrays, a new download, and maybe another configuration.

**FilterSource.** `parseFilterList`, `parseSecretFilterList` and `download` act on documents: an encoding,
whether it is JSON, and elements in one of the two formats. Two things of the code are easy to miss and
are modelled: the first element decides about the format of all, and data shorter than the gzip header
makes `gzip.NewReader` fail in a way that is not taken for plain text. No property speaks about the first: nothing in the
repository says what a list of mixed formats should give. `absent` is a history variable: the
secrets that were missing at some moment since the current reconcile began.

**ExtensionLifecycle.** The actuator runs step by step on each seed; `Fail` ends an operation anywhere, as
an error or the two minute timeout does, and `Restart` ends the process, operation or not. `Reconcile` is three steps:
reading (which `FilterSource` and `EgressFilterValues` have in detail), writing the secret, writing the ManagedResource;
`Delete` is three as well. What is deployed is the list of the provider, by its version (secrets with lists are in
`FilterSource`, the providerConfig in `WorkerDaemonSets`), and each seed's process has that in its own memory: `Publish`
gives the server a new one, `Refresh` and `Restart` bring it to one seed. So a seed may restore a shoot with an older list than
the seed had that it comes from. What each seed has brought into the shoot last is remembered in the history variable
`shown`, which `FilterDeployment` has, too: a seed does not go back behind it, even if the control plane was elsewhere meanwhile. The gardenlet is the environment: it migrates and deletes only when nothing else is being asked
for, restores before it deletes, and takes a migrated Extension away. The resource manager applies the
secret's contents as long as the ManagedResource exists, and deletes the objects with it unless it was told
to keep them.

**WorkerDaemonSets.** The Shoot that the webhook admits becomes the Cluster and, later, the Extension;
`Reconcile` has its providerConfig from one and the worker groups from the other, at different times. A
DaemonSet is its name, its node selector and its mode; the rest of the template is left out, also the
checksum that restarts the pods when the list changes. The resource manager replaces an object by name and
deletes those that are no longer wanted; nothing in the repository says which comes first, so that a switch of layouts, where
all names change, may leave a node without a DaemonSet until the new one is there. `asked` is a history variable: all that the
Shoot has been, which a reconcile with an old Extension or Cluster may still meet. Pods have the labels of all DaemonSets in common, so required
anti-affinity admits one for each node. What the scheduler, the DaemonSet controller and the resource manager
do is modelled from how the code uses them.

**SeedCluster.** Three owners of the same objects: the processes of the two deployments of the extension (`seed`,
`garden`) and the runtime filter. A process is down, idle, or in the middle of an operation; what it has in memory (the
provider's list) and what it has rendered are lost when it stops. `Start` is `Complete`, the choice of the provider and
`Setup`: with provider `download` it needs a token, and `HasToken` is what `getAccessToken` asks of the files, in
particular that a certificate has its key even where a client secret would do. The secret is read at the start only, so
`held` says whose copy the server still takes; `Rollout` stands for the checksums in the Deployment's template.
`Render` is one step for the reading part of `Reconcile`: the list, the lookup of the load balancers (`open`: their addresses are
off the list) and the question whether the seed is the garden. `CreateForSeed` is one step here; its two writes are in
`ExtensionLifecycle`. A round of the runtime filter is one step, too, since it has nothing to lose in between. The
resource manager brings resources into kube-system whoever they are of, and when a ManagedResource goes or
no longer lists its objects, it deletes them by name, even if another one wants them; that one brings them back later.
No code deletes the runtime filter's ManagedResource. Refreshes are those of a `refreshPeriod` that is set
(`FilterSource` has the other cases), and the lists themselves are versions.

## 3. Runs

| Run | Instance | Shows |
|---|---|---|
| `split` | `W = 4`, all pairs of overlapping networks | all mask differences from 0 to 4 and both branches in every round |
| `values` | `W = 2`, all lists of up to 3 entries, up to 2 load balancers, one reserved range | exactness, reserved ranges, and the refinement of `BlockedAddresses` |
| `shared_separate` | 3 Extensions, 2 workers, 3 downloads of 1 to 3 entries with spare capacity for two more, 3 configurations of the service (no tag filters; one, with or without room for another); static filters appended in place or to a copy, tag filters of one Extension in place, of another copied; restarts | every deployment is one whole download with the Extension's own filters, under the service's tag filters and its own |
| `lifecycle` | 2 seeds, 2 migrations (there and back), 3 versions of the list, 3 failures or restarts | one manager, nothing left behind, refinement of `FilterDeployment`, and the three liveness properties |
| `source` | 8 documents (both formats, mixed, gzip, cut, short, garbage), 4 configurations, any 2 changes or crashes | one source only, fallback only when missing, arrival of what is configured |
| `workers` | 2 worker groups, one of which comes and goes and has a node, a name of no group, 5 configurations (2 refused), 2 changes | within one layout no group that stays loses its DaemonSet, no pod works in a mode never asked for, refused configurations have no effect, every node ends up in the mode wanted |
| `seed_cluster` | 3 owners, both providers, with or without a garden, 2 versions of the list; 2 changes, crashes or failed operations | nothing left behind, the filter is kept, comes back, gets the latest list, deletions complete |
| `static_lost`, `tags_lost` | 2 Extensions that both append in place | finding: filters of one Extension in another |
| `torn` | 1 worker, a refresh during a read | finding: a list of no version |
| `short_list` | 1 change | finding: a secret with `[]` fails the reconcile |
| `runtime_list` | as `seed_cluster` | finding: the runtime filter ignores its configuration |

Bounds. In `values` three entries make the interesting triples (block, block, allow and every order of
them, overlapping or nested); the proofs are for any length. In `shared_separate` two reconciles at a time are enough for
every conflict over a cell, the three Extensions are one for each way to append, and three downloads allow a refresh or restart in
each phase of one reconcile; each restart takes one of them. In `lifecycle` two
migrations bring the control plane back to where it came from, and three failures can hit one operation more
than once. In `source` two changes can repair, replace or remove a secret in the middle of a reconcile and break
the server too, or crash the process. In `workers` two changes go to another layout and back while the first is still
being rolled out; one node is enough, because nodes have nothing to do with each other. In `seed_cluster` two of users' changes, changed surroundings, crashes and failures
can hit one operation, or the processes of both classes; Extensions may be there from the start, and new credentials
and rollouts are not counted. Deadlock is checked where the system never ends (`SharedFilterList`,
`FilterSource`, `WorkerDaemonSets`, `SeedCluster`); the computations end, and the life of an Extension ends with its deletion.

Fairness. `ExtensionLifecycle` assumes that the actuator and the resource manager go on, which the work queue's
retries give, that the controller is asked to reconcile again (the resync of 60 minutes, `add.go` 60), and that the
gardenlet completes a migration it began. Nothing is assumed of users or failures, which are bounded, nor of refreshes: with
no `refreshPeriod` there are none, and `LatestFilterArrives` asks for the list that the process has.
`FilterSource` assumes the restarts of the kubelet, the ticker of `Setup` and the same resync; `DocumentedArrives`
is stated for a refresh period that is set, since without one the code downloads only once.

`WorkerDaemonSets` assumes the gardenlet, the resync, and the controllers of Kubernetes, and nothing of users and
machines. `SeedCluster` assumes that processes are started and rolled out, the ticker, the resync and the loop, and
the resource manager; that credentials become valid again is a premise of its liveness properties, not a fairness condition.

## 4. Findings

1. `actuator.go:379` appends the static filters of an Extension to the array all reconciles share
   (`static_lost`): with spare capacity one Extension deploys the static filters of another.
2. `actuator.go:150` does the same to the tag filters of the service (`tags_lost`).
3. `filterlistprovider.go:165` assigns the list while `GetFilterList` reads it, without a lock (`torn`).
4. `actuator.go:467` fails on a plain list shorter than ten bytes, such as `[]` (`short_list`).
5. `main.go:138` of the runtime filter deploys what is in a secret that no code of the repository writes; the provider it
   has set up, static or download, is never asked for its list (`runtime_list`). Without the secret it ends with a panic.

1 and 2 need two Extensions that both append to the same array. With one reconcile at a time, or with no array that has
room for the filters of two Extensions in any configuration of the service (the copy that `filterByTags` makes as soon as any tag
filter is configured counts as no room), they do not happen: that is `Separate`, proved to be enough, and `shared_separate` is
such a case.

Read off while modelling, with no run of their own:

* `docs/usage` line 555 lets a BLOCK_ACCESS entry inside an allowed network be blocked; the code carves every
  ALLOW_ACCESS entry out last (`ListIsExact`). Line 562, the key principle, agrees with the code.
* `docs/usage` lines 550 and 560 block private ranges; the code drops such entries (`ReservedNeverBlocked`).
* The comment at `actuator.go:208` says that the resources are already deployed when the seed is the garden's cluster. That
  holds only if the Garden has an Extension of its own; otherwise the seed has no filter (`Wanted` leaves that case out).
* `Restore` deploys the list that the new seed's process has in memory. If that process has not refreshed yet, an older list
  replaces the newer one of the old seed until it has, and the next resync; without a `refreshPeriod`, until a restart.
* A switch between one DaemonSet and one for each worker group changes all names, and nothing keeps the new ones and the old ones
  in order: nodes may be without a filter until the new pods run (`GroupsStayFiltered` is about one layout).
* The ManagedResource `networking-filter` of the runtime filter is deleted by no code, and overwrites the newer list of the
  Extensions every hour; `ListArrives` therefore asks that it is absent.

## 5. Proofs

The theorems are for every value of the constants. Assumptions: the address width is a natural number; filter lists and
documents are sequences of entries of any length, and configurations have the fields that `types.go` gives them; bounds
are natural numbers. The hypotheses of single theorems (`~TornReads`, `Separate`, finitely many load balancers) stand
in them.

Each component has the theorems for its types and for the safety and action properties that its runs check.

* `Cidr_proofs`: on addresses, `removeNetFromCIDR` is set difference (`RemoveNetIsDifference`). Two networks
  that overlap are nested (`OverlapNests`); an address of the larger that is outside the smaller leaves it at a first
  bit (`FirstPosition`), and belongs to the half kept in that round, and to no other.
* `SplitCidr_proofs`: the loop. `IndInv` (`LoopInv` with types) says that `currentNet` is the `prefixLen`-bit network
  around the subnet and the result has one `KeptHalf` for each round. It is needed because "no address is lost" alone
  does not say where the current network is. `Partition` then gives the properties of run `split`.
* `EgressFilterValues_proofs`: `Progress` says in addresses how far each pass has come; with it the list is exact
  (`ValuesAreExact`), reserved ranges stay open (`ReservedStaysOpen`), and every step is a step of `BlockedAddresses`
  (`ValuesImplementBlocked`).
* `ExtensionLifecycle_proofs`: `IInv` has four parts: only the home seed has anything of the Extension (`Alone`), the
  running step fits what is asked for (`InStep`), how far the ManagedResource is taken down (`Marks`), and how versions lie
  between what a seed has deployed and the list it has (`Versions`): at home, `shown`, secret, rendered resources and list
  are in this order, also after the control plane has been elsewhere. Without `Versions` a secret written by an operation
  that failed could bring back an older list. From it follow `OneManager`, `NothingLeftBehind` and the refinement of
  `FilterDeployment`.
* `SeedCluster_proofs`: a running process has a list (`Loaded`), only the seed's ManagedResource is ever empty (`Filled`), a
  ManagedResource is there for an Extension and is deleted only for one that is (`Fits`), and objects are in the status of a
  ManagedResource that exists (`Tracked`). Without `Loaded` and `Filled` an empty list of resources could take the filter away.
* `SharedFilterList_proofs`: types hold for every capacity, torn reads included. Two invariants follow. `LInv` needs only
  that no read is torn: the cells of an array up to the length of a list keep what the download put there (`Intact`),
  every slice in use lies within its array (`Within`), and each reconcile works on one download, no older than that of the
  one before, even one of a process that ended (`Advances`). It gives `ListsStayIntact`, `DownloadsStayWhole` and `NeverGoesBack` for any number of workers
  and any capacity: appending never harms a list itself. `IInv` needs `Separate` as well, which is about every configuration of the service, since a restart may bring another: with one worker only one
  reconcile is busy (`Alone`), and `Merges` says what each has put together so far, and that only one for which the array has
  room has written behind a list; it gives
  `SeparateDeploysMerged`, `SeparateAppliesTags` and `SeparateMergesAll`. The runs `static_lost`, `tags_lost` and `torn`
  show that neither hypothesis can be dropped.
* `FilterSource_proofs`: `Passed` says which secrets must have been missing by the time a reconcile has come to a source; `absent`
  forgets them only between reconciles. `Made` says that the list of the provider is one parsed document and the list of a
  reconcile one source; it gives `SourceIsNeverMixed`. What the code does with a list is compared with the documentation
  for any length: `FlattenSeqCollects` (the elements of a document become one list), `LastTagFilterDecides` (looking for the
  last tag filter that matches is the same as applying all in turn) and `SourceIsDocumented`. Their inductions are over
  sets of lengths, by a smallest counterexample (`SetInduction`), since the induction theorems of the library cannot be used.
* `WorkerDaemonSets_proofs`: `Named` (a DaemonSet is named for its group, so that it is replaced only by one for the same
  group) and `OfShoots` (the DaemonSets of the ManagedResource are built from an accepted providerConfig the Shoot has had and
  the worker groups it has had, maybe at another time, and every DaemonSet and every pod is one of such) are inductive with the
  types. With `ResourcesByLayout` (which groups have a DaemonSet in a layout) they give `FilterIsKept`: whatever is deleted is of
  a group that has gone at some time, or of another layout. With `ResourcesAreWanted` (the DaemonSets of a providerConfig cover
  each worker group in the mode asked for) they give `PodsAreAskedFor`, and with `Single` (a node has one pod or none)
  `SettledIsWanted`. `NothingBuilt` (a refused providerConfig got no further than `Reconcile`) gives `RefusedStaysOut`.

The end and the rest. TLAPS cannot prove liveness, but it can prove two things that liveness rests on.

* The computations end: `StepsLeft` is a natural number, goes down by one in every step, and is 0 only at the end
  (`SplitTerminates`, `ValuesTerminate`). `SplitReturnsFew` adds how many networks an exception costs.
* What the liveness properties reach is not left again. For each a state of rest is defined that has the wished for result and
  nothing older on its way to undo it, and no step leaves that state while users change nothing:

| Liveness property | State of rest | Left only when | Theorem |
|---|---|---|---|
| `LatestFilterArrives` | `Latest` | the list of the process on the home seed changes, the control plane moves, or the shoot is being deleted | `LatestStays` |
| `DeletionCompletes` (`lifecycle`) | `Gone` | never | `GoneStays` |
| `DocumentedArrives` | `UpToDate` | the server, a secret or the configuration changes; crashes do not matter | `UpToDateStays` |
| `ModesSettle` | `Settled` | the Shoot changes | `SettledStays`, `SettledIsWanted` |
| `ListArrives` | `Arrived` | the list, the garden or the Extensions wanted change, a lookup fails, or the runtime filter deploys; lost credentials and crashes do not matter | `ArrivedStays` |

That the results are reached is what the runs check. Only model-checked are all liveness (fairness and ENABLED are outside the
prover's reach) and the findings.

## 6. Not modelled

* Generated conversions, metrics, the registration of health check and heartbeat, flags and the set-up of the manager: no logic of
  their own.
* The texts of YAML and JSON, HTTP and the OAuth2 protocol: they show as documents that can or cannot be read, and as tokens that
  are or are not given.
* Networks of mixed width (IPv4-mapped IPv6, `filter.go` 329): a network has one width in `Cidr`; the code keeps a 16 byte mask with
  an address that `Contains` compares as 4 bytes.
* A `downloaderConfig` that is missing, and an unknown provider type: the process then never starts, whatever else happens.
* Workerless Shoots, which the webhook lets through and which have no nodes to filter.
