--------------------------- MODULE WorkerDaemonSets ---------------------------
(***************************************************************************)
(* The filter in block mode "blackholing" or "firewall" for each worker    *)
(* group: from the Shoot of the user, admitted by the webhook (shoot.go),  *)
(* over the Cluster and Extension that the gardenlet makes of it and the   *)
(* Reconcile that reads one after the other (actuator.go), to the          *)
(* DaemonSets in the shoot and the pods on its nodes.                      *)
(*                                                                         *)
(* The contents of the filter and the failures of the calls are in other   *)
(* modules (FilterSource, ExtensionLifecycle).                             *)
(***************************************************************************)
EXTENDS Naturals, FiniteSets

CONSTANTS
    Name,                 \* names, as the user may write them
    Group,                \* those of worker groups
    Node,
    GroupOf,              \* the worker group of each node
    ApplicationName,      \* the DaemonSet for all nodes, and its lack of a group
    NoWorkers,            \* the providerConfig has no field "workers"
    GroupSets,            \* the sets of worker groups considered,
    ProviderConfigs,      \* and the providerConfigs
    ServiceBlackholing,   \* the mode of the service's configuration
    MaxChanges            \* bound on the changes of the Shoot

Workers == [blackholingEnabled : BOOLEAN, names : SUBSET Name]

\* Without an egressFilter its fields do not count.  "unsupported" is anything
\* else that makes it refused: text that cannot be decoded, a field that must
\* not be there, or not with its value, such as a name that is no label.
ProviderConfig == [egressFilter : BOOLEAN, blackholingEnabled : BOOLEAN,
                   workers : Workers \cup {NoWorkers}, unsupported : BOOLEAN]

\* Shoots with workers.
Shoot == [groups : GroupSets, config : ProviderConfigs]

DaemonSet == [name : Group \cup {ApplicationName}, group : Group \cup {ApplicationName},
              blackholing : BOOLEAN]

ASSUME WorkersAssumption ==
    /\ GroupOf \in [Node -> Group] /\ Group \subseteq Name
    /\ ApplicationName \notin Name /\ NoWorkers \notin Workers
    /\ GroupSets \subseteq (SUBSET Group) \ {{}}
    /\ ProviderConfigs \subseteq ProviderConfig
    /\ ServiceBlackholing \in BOOLEAN
    /\ MaxChanges \in Nat

VARIABLES
    shoot,        \* the Shoot in the garden cluster
    asked,        \* history: all that the Shoot has been
    cluster,      \* its copy in the Cluster resource
    extension,    \* the providerConfig of the Extension, and whether a
                  \* reconcile of it is due
    pc,           \* where Reconcile is
    ex,           \* the providerConfig it was called with
    groups,       \* the worker groups it has read from the Cluster
    resources,    \* the DaemonSets in the ManagedResource
    daemonSets,   \* those in the shoot
    nodes,        \* the nodes of the shoot
    pods,         \* the filter pods on each node, as the DaemonSets they are of
    changes

vars == <<shoot, asked, cluster, extension, pc, ex, groups, resources, daemonSets, nodes,
          pods, changes>>
garden == <<shoot, asked, cluster, changes>>
actuator == <<pc, ex, groups, resources>>
inShoot == <<daemonSets, nodes, pods>>

-----------------------------------------------------------------------------
(* validation.ValidateProviderConfig *)

validateWorkersConfig(w) == w # NoWorkers => w.names # {}

ValidateProviderConfig(c) ==
    ~c.unsupported /\ (c.egressFilter => validateWorkersConfig(c.workers))

(* getShootResources *)

PerGroup(c) == c.egressFilter /\ c.workers # NoWorkers

blackholingEnabled(c) ==
    IF c.egressFilter THEN c.blackholingEnabled ELSE ServiceBlackholing

\* Mutant: only the groups that are named get a DaemonSet.
NamedByWorker(c, gs) ==
    [g \in gs \cap c.workers.names |-> c.workers.blackholingEnabled]

\* Mutant: every name gets a DaemonSet.
EveryNameByWorker(c, gs) ==
    [g \in gs \cup c.workers.names |->
        IF g \in c.workers.names THEN c.workers.blackholingEnabled
        ELSE blackholingEnabled(c)]

\* Mutant: the other groups are in the mode of the service.
OthersByService(c, gs) ==
    [g \in gs |-> IF g \in c.workers.names THEN c.workers.blackholingEnabled
                  ELSE ServiceBlackholing]

\* Names that are no worker group of the Shoot are ignored.
blackholingEnabledByWorker(c, gs) ==
    [g \in gs |-> IF g \in c.workers.names THEN c.workers.blackholingEnabled
                  ELSE blackholingEnabled(c)]

\* Mutant: the DaemonSets of all groups have the same name.
buildOneName(blackholing, group) ==
    [name |-> ApplicationName, group |-> group, blackholing |-> blackholing]

buildDaemonset(blackholing, group) ==
    [name |-> group, group |-> group, blackholing |-> blackholing]

getShootResources(c, gs) ==
    IF ~PerGroup(c) THEN {buildDaemonset(blackholingEnabled(c), ApplicationName)}
    ELSE LET byWorker == blackholingEnabledByWorker(c, gs)
         IN  { buildDaemonset(byWorker[g], g) : g \in DOMAIN byWorker }

\* The node selector of the DaemonSet.
Selects(d, n) == d.group \in {ApplicationName, GroupOf[n]}

\* Required anti-affinity by host name to pods with the labels that the pods
\* of all these DaemonSets have.
PodAntiAffinity(n) == pods[n] = {}

-----------------------------------------------------------------------------
\* A Shoot that was there before the webhook may have any providerConfig.
Init ==
    /\ shoot \in Shoot
    /\ asked = {shoot}
    /\ cluster = shoot
    /\ extension = [config |-> shoot.config, due |-> TRUE]
    /\ pc = "idle"
    /\ ex = shoot.config
    /\ groups = {}
    /\ resources = {}
    /\ daemonSets = {}
    /\ nodes = {}
    /\ pods = [n \in Node |-> {}]
    /\ changes = 0

\* shootValidator.Validate, for Shoots that have workers
ChangeShoot ==
    /\ changes < MaxChanges
    /\ \E s \in Shoot \ {shoot} :
          /\ ValidateProviderConfig(s.config)
          /\ shoot' = s
          /\ asked' = asked \cup {s}
    /\ changes' = changes + 1
    /\ UNCHANGED <<cluster, extension, actuator, inShoot>>

\* The gardenlet first writes the Cluster ...
SyncCluster ==
    /\ cluster # shoot
    /\ cluster' = shoot
    /\ UNCHANGED <<shoot, asked, changes, extension, actuator, inShoot>>

\* ... then the Extension, with the annotation that asks for a reconcile;
\* and the controller resyncs.
DeployExtension ==
    /\ extension' = [config |-> cluster.config, due |-> TRUE]
    /\ extension' # extension
    /\ UNCHANGED <<garden, actuator, inShoot>>

-----------------------------------------------------------------------------
(* Reconcile of actuator.go.  One at a time runs for an Extension.         *)

Begin ==
    /\ pc = "idle" /\ extension.due
    /\ pc' = "getCluster"
    /\ ex' = extension.config
    /\ extension' = [extension EXCEPT !.due = FALSE]
    /\ UNCHANGED <<groups, resources, garden, inShoot>>

GetCluster ==
    /\ pc = "getCluster"
    /\ pc' = "validate"
    /\ groups' = cluster.groups
    /\ UNCHANGED <<extension, ex, resources, garden, inShoot>>

\* The error brings the Extension back to the work queue.
RefuseConfig ==
    /\ pc = "validate" /\ ~ValidateProviderConfig(ex)
    /\ pc' = "idle"
    /\ extension' = [extension EXCEPT !.due = TRUE]
    /\ UNCHANGED <<ex, groups, resources, garden, inShoot>>

\* Mutant: the providerConfig is taken unchecked.
CreateUnchecked ==
    /\ pc = "validate"
    /\ pc' = "idle"
    /\ resources' = getShootResources(ex, groups)
    /\ UNCHANGED <<extension, ex, groups, garden, inShoot>>

CreateForShoot ==
    /\ pc = "validate" /\ ValidateProviderConfig(ex)
    /\ pc' = "idle"
    /\ resources' = getShootResources(ex, groups)
    /\ UNCHANGED <<extension, ex, groups, garden, inShoot>>

-----------------------------------------------------------------------------
(* The resource manager: an object replaces the one of its name, and one   *)
(* whose name is no longer in the ManagedResource is deleted.  Nothing is  *)
(* known of the order: it may delete the old ones first.                   *)

Apply(d) ==
    /\ d \in resources \ daemonSets
    /\ daemonSets' = { o \in daemonSets : o.name # d.name } \cup {d}
    /\ UNCHANGED <<extension, nodes, pods, garden, actuator>>

Prune(d) ==
    /\ d \in daemonSets
    /\ \A r \in resources : r.name # d.name
    /\ daemonSets' = daemonSets \ {d}
    /\ UNCHANGED <<extension, nodes, pods, garden, actuator>>

(* The shoot: machines, the DaemonSet controller and the scheduler.        *)

Join(n) ==
    /\ n \notin nodes /\ GroupOf[n] \in cluster.groups
    /\ nodes' = nodes \cup {n}
    /\ UNCHANGED <<extension, daemonSets, pods, garden, actuator>>

Leave(n) ==
    /\ n \in nodes /\ GroupOf[n] \notin cluster.groups
    /\ nodes' = nodes \ {n}
    /\ pods' = [pods EXCEPT ![n] = {}]
    /\ UNCHANGED <<extension, daemonSets, garden, actuator>>

\* A DaemonSet has at most one pod on a node.
StartPod(n, d) ==
    /\ n \in nodes /\ d \in daemonSets
    /\ Selects(d, n) /\ PodAntiAffinity(n)
    /\ \A p \in pods[n] : p.name # d.name
    /\ pods' = [pods EXCEPT ![n] = @ \cup {d}]
    /\ UNCHANGED <<extension, daemonSets, nodes, garden, actuator>>

\* Its DaemonSet is gone or has another pod template (RollingUpdate with
\* maxUnavailable 100%).
StopPod(n, p) ==
    /\ p \in pods[n] \ daemonSets
    /\ pods' = [pods EXCEPT ![n] = @ \ {p}]
    /\ UNCHANGED <<extension, daemonSets, nodes, garden, actuator>>

Reconcile == Begin \/ GetCluster \/ RefuseConfig \/ CreateForShoot

ResourceManager == \E d \in DaemonSet : Apply(d) \/ Prune(d)

Starts(n) == \E d \in DaemonSet : StartPod(n, d)
Stops(n) == \E p \in DaemonSet : StopPod(n, p)

Next ==
    \/ ChangeShoot \/ SyncCluster \/ DeployExtension \/ Reconcile \/ ResourceManager
    \/ \E n \in Node : Join(n) \/ Leave(n) \/ Starts(n) \/ Stops(n)

\* Nothing is assumed of the user and of the machines.
Fairness ==
    /\ WF_vars(SyncCluster) /\ WF_vars(DeployExtension)
    /\ WF_vars(Reconcile) /\ WF_vars(ResourceManager)
    /\ \A n \in Node : WF_vars(Starts(n)) /\ WF_vars(Stops(n))

Spec == Init /\ [][Next]_vars

FairSpec == Spec /\ Fairness

-----------------------------------------------------------------------------
TypeOK ==
    /\ shoot \in Shoot /\ cluster \in Shoot /\ asked \subseteq Shoot
    /\ extension \in [config : ProviderConfigs, due : BOOLEAN]
    /\ pc \in {"idle", "getCluster", "validate"}
    /\ ex \in ProviderConfigs
    /\ groups \subseteq Group
    /\ resources \subseteq DaemonSet /\ daemonSets \subseteq DaemonSet
    /\ nodes \subseteq Node
    /\ pods \in [Node -> SUBSET DaemonSet]
    /\ changes \in 0 .. MaxChanges

Filtered(g, ds) == \E d \in ds : d.group \in {ApplicationName, g}

AskedFor == { s \in asked : ValidateProviderConfig(s.config) }

OneLayout == \A s, t \in AskedFor : PerGroup(s.config) <=> PerGroup(t.config)

AlwaysThere == { g \in Group : \A s \in asked : g \in s.groups }

\* As long as the user keeps to one layout, a worker group that the Shoot has
\* always had never loses its DaemonSet, while modes, names and other groups
\* change and while a reconcile takes them from an Extension and a Cluster of
\* different ages.  (A change of the layout replaces DaemonSets by those of
\* other names, and which goes first is up to the resource manager.)
GroupsStayFiltered ==
    [][OneLayout =>
         \A g \in AlwaysThere : Filtered(g, daemonSets) => Filtered(g, daemonSets')]_vars

\* What the user asked for a worker group, in the words of the usage page.
Wanted(g, c) ==
    IF ~c.egressFilter THEN ServiceBlackholing
    ELSE IF c.workers # NoWorkers /\ g \in c.workers.names
         THEN c.workers.blackholingEnabled
    ELSE c.blackholingEnabled

\* Whatever mix of old and new Extension, Cluster, DaemonSets and pods there is
\* on the way, no pod works in a mode that the user has not asked for its
\* worker group at some time, in a providerConfig that is accepted.
ModesWereAskedFor ==
    \A n \in Node : \A p \in pods[n] :
        \E s \in AskedFor : p.blackholing = Wanted(GroupOf[n], s.config)

\* A providerConfig that validation refuses never reaches the shoot, not
\* even when the Shoot got it before there was a webhook: until a valid one
\* has arrived there is no pod.
RefusedHasNoEffect ==
    (changes = 0 /\ ~ValidateProviderConfig(shoot.config)) =>
        \A n \in Node : pods[n] = {}

\* Once the Shoot no longer changes, each of its nodes ends up with one
\* filter, in the mode that its worker group is to have: no old DaemonSet
\* keeps the pod of the new one away for ever, and blocking is never
\* switched off altogether.
ModesSettle ==
    <>[](ValidateProviderConfig(shoot.config) =>
           \A n \in nodes : GroupOf[n] \in shoot.groups =>
             \E d \in DaemonSet : pods[n] = {d}
                                  /\ d.blackholing = Wanted(GroupOf[n], shoot.config))
=============================================================================
