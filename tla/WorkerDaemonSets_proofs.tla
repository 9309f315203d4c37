----------------------- MODULE WorkerDaemonSets_proofs -----------------------
(***************************************************************************)
(* Proofs about the DaemonSets of the worker groups, for any worker        *)
(* groups, nodes, provider configurations and number of changes.           *)
(***************************************************************************)
EXTENDS WorkerDaemonSets, TLAPS

\* What is built for a providerConfig are DaemonSets, named for their group.
LEMMA ResourcesAreDaemonSets ==
  ASSUME NEW c \in ProviderConfigs, NEW gs \in SUBSET Group
  PROVE  /\ getShootResources(c, gs) \subseteq DaemonSet
         /\ \A d \in getShootResources(c, gs) : d.name = d.group
  <1>1. c \in ProviderConfig
    BY WorkersAssumption
  <1>2. blackholingEnabled(c) \in BOOLEAN
    BY <1>1, WorkersAssumption DEF ProviderConfig, blackholingEnabled
  <1>3. CASE ~PerGroup(c)
    BY <1>2, <1>3 DEF getShootResources, buildDaemonset, DaemonSet
  <1>4. CASE PerGroup(c)
    <2>1. c.workers \in Workers
      BY <1>1, <1>4 DEF PerGroup, ProviderConfig
    <2>2. \A g \in gs : blackholingEnabledByWorker(c, gs)[g] \in BOOLEAN
      BY <1>2, <2>1 DEF blackholingEnabledByWorker, Workers
    <2>3. DOMAIN blackholingEnabledByWorker(c, gs) = gs
      BY DEF blackholingEnabledByWorker
    <2> QED
      BY <1>4, <2>2, <2>3 DEF getShootResources, buildDaemonset, DaemonSet
  <1> QED
    BY <1>3, <1>4

\* Every variable keeps its type; a name that is no worker group never
\* becomes a DaemonSet.
THEOREM WorkersTyped == Spec => []TypeOK
  <1>1. Init => TypeOK
    BY WorkersAssumption DEF Init, TypeOK, Shoot
  <1>2. TypeOK /\ [Next]_vars => TypeOK'
    <2> SUFFICES ASSUME TypeOK, [Next]_vars PROVE TypeOK'
      OBVIOUS
    <2> USE WorkersAssumption DEF TypeOK, garden, actuator, inShoot
    <2>1. CASE ChangeShoot
      BY <2>1 DEF ChangeShoot
    <2>2. CASE SyncCluster
      BY <2>2 DEF SyncCluster
    <2>3. CASE DeployExtension
      BY <2>3 DEF DeployExtension, Shoot
    <2>4. CASE Begin
      BY <2>4 DEF Begin
    <2>5. CASE GetCluster
      BY <2>5 DEF GetCluster, Shoot
    <2>6. CASE RefuseConfig
      BY <2>6 DEF RefuseConfig
    <2>7. CASE CreateForShoot
      BY <2>7, ResourcesAreDaemonSets DEF CreateForShoot
    <2>8. ASSUME NEW d \in DaemonSet, Apply(d) \/ Prune(d) PROVE TypeOK'
      BY <2>8 DEF Apply, Prune
    <2>9. ASSUME NEW n \in Node, Join(n) \/ Leave(n) PROVE TypeOK'
      BY <2>9 DEF Join, Leave
    <2>10. ASSUME NEW n \in Node, NEW d \in DaemonSet, StartPod(n, d) \/ StopPod(n, d)
           PROVE  TypeOK'
      BY <2>10 DEF StartPod, StopPod
    <2>11. CASE UNCHANGED vars
      BY <2>11 DEF vars
    <2> QED
      BY <2>1, <2>2, <2>3, <2>4, <2>5, <2>6, <2>7, <2>8, <2>9, <2>10, <2>11
         DEF Next, Reconcile, ResourceManager, Starts, Stops
  <1> QED
    BY <1>1, <1>2, PTL DEF Spec

\* On a node there is one pod, or none.
Single == \A n \in Node : pods[n] = {} \/ \E d \in DaemonSet : pods[n] = {d}

LEMMA SingleHolds == Spec => []Single
  <1>1. Init => Single
    BY DEF Init, Single
  <1>2. TypeOK /\ Single /\ [Next]_vars => Single'
    <2> SUFFICES ASSUME TypeOK, Single, [Next]_vars PROVE Single'
      OBVIOUS
    <2> USE DEF TypeOK, Single, garden, actuator, inShoot
    <2>1. CASE UNCHANGED pods
      BY <2>1
    <2>2. ASSUME NEW n \in Node, Leave(n) PROVE Single'
      BY <2>2 DEF Leave
    <2>3. ASSUME NEW n \in Node, NEW d \in DaemonSet, StartPod(n, d) PROVE Single'
      BY <2>3 DEF StartPod, PodAntiAffinity
    <2>4. ASSUME NEW n \in Node, NEW d \in DaemonSet, StopPod(n, d) PROVE Single'
      BY <2>4 DEF StopPod
    <2>5. \/ UNCHANGED pods
          \/ \E n \in Node : Leave(n)
          \/ \E n \in Node, d \in DaemonSet : StartPod(n, d) \/ StopPod(n, d)
      BY DEF Next, Reconcile, ResourceManager, Starts, Stops, vars, ChangeShoot,
             SyncCluster, DeployExtension, Begin, GetCluster, RefuseConfig,
             CreateForShoot, Apply, Prune, Join
    <2> QED
      BY <2>1, <2>2, <2>3, <2>4, <2>5
  <1> QED
    BY <1>1, <1>2, WorkersTyped, PTL DEF Spec

\* A DaemonSet replaces another one only for the same group.
Named == \A d \in resources \cup daemonSets : d.name = d.group

LEMMA NamedHolds == Spec => []Named
  <1>1. Init => Named
    BY DEF Init, Named
  <1>2. TypeOK /\ Named /\ [Next]_vars => Named'
    <2> SUFFICES ASSUME TypeOK, Named, [Next]_vars PROVE Named'
      OBVIOUS
    <2> USE DEF Named, garden, actuator, inShoot
    <2>1. CASE UNCHANGED <<resources, daemonSets>>
      BY <2>1
    <2>2. CASE CreateForShoot
      <3>1. \A d \in getShootResources(ex, groups) : d.name = d.group
        BY ResourcesAreDaemonSets DEF TypeOK
      <3> QED
        BY <2>2, <3>1 DEF CreateForShoot
    <2>3. ASSUME NEW d \in DaemonSet, Apply(d) \/ Prune(d) PROVE Named'
      BY <2>3 DEF Apply, Prune
    <2>4. \/ UNCHANGED <<resources, daemonSets>>
          \/ CreateForShoot
          \/ \E d \in DaemonSet : Apply(d) \/ Prune(d)
      BY DEF Next, Reconcile, ResourceManager, Starts, Stops, vars, ChangeShoot,
             SyncCluster, DeployExtension, Begin, GetCluster, RefuseConfig,
             Join, Leave, StartPod, StopPod
    <2> QED
      BY <2>1, <2>2, <2>3, <2>4
  <1> QED
    BY <1>1, <1>2, WorkersTyped, PTL DEF Spec

-----------------------------------------------------------------------------
(* What is built, and of which Shoots.                                     *)

\* One DaemonSet for all, or one for each group, as the layout has it.
LEMMA ResourcesByLayout ==
  ASSUME NEW c \in ProviderConfigs, NEW gs \in SUBSET Group
  PROVE  /\ gs # {} => getShootResources(c, gs) # {}
         /\ ~PerGroup(c) => \A d \in getShootResources(c, gs) : d.group = ApplicationName
         /\ PerGroup(c) => /\ \A d \in getShootResources(c, gs) : d.group \in gs
                           /\ \A g \in gs : \E d \in getShootResources(c, gs) : d.group = g
  <1>1. CASE ~PerGroup(c)
    <2>1. getShootResources(c, gs) = {buildDaemonset(blackholingEnabled(c), ApplicationName)}
      BY <1>1 DEF getShootResources
    <2>2. \A b : buildDaemonset(b, ApplicationName).group = ApplicationName
      BY DEF buildDaemonset
    <2> QED
      BY <1>1, <2>1, <2>2
  <1>2. CASE PerGroup(c)
    <2> DEFINE byWorker == blackholingEnabledByWorker(c, gs)
    <2>1. getShootResources(c, gs) = { buildDaemonset(byWorker[g], g) : g \in gs }
      BY <1>2 DEF getShootResources, blackholingEnabledByWorker
    <2>2. \A g : buildDaemonset(byWorker[g], g).group = g
      BY DEF buildDaemonset
    <2>3. /\ \A d \in getShootResources(c, gs) : d.group \in gs
          /\ \A g \in gs : \E d \in getShootResources(c, gs) : d.group = g
      <3> HIDE DEF byWorker
      <3> QED
        BY <2>1, <2>2
    <2> QED
      BY <1>2, <2>3
  <1> QED
    BY <1>1, <1>2

\* Every worker group gets DaemonSets for its nodes, and all that are for them
\* are in the mode that the user asked for; also with one DaemonSet for all
\* nodes, and for groups that are not named.
LEMMA ResourcesAreWanted ==
  ASSUME NEW c \in ProviderConfigs, NEW gs \in SUBSET Group, NEW g \in Group
  PROVE  /\ g \in gs => Filtered(g, getShootResources(c, gs))
         /\ \A d \in getShootResources(c, gs) :
               d.group \in {ApplicationName, g} => d.blackholing = Wanted(g, c)
  <1>1. g # ApplicationName /\ ApplicationName \notin gs
    BY WorkersAssumption
  <1>2. CASE ~PerGroup(c)
    <2>1. blackholingEnabled(c) = Wanted(g, c)
      BY <1>2 DEF PerGroup, blackholingEnabled, Wanted
    <2>2. getShootResources(c, gs) = {buildDaemonset(blackholingEnabled(c), ApplicationName)}
      BY <1>2 DEF getShootResources
    <2>3. /\ buildDaemonset(blackholingEnabled(c), ApplicationName).group = ApplicationName
          /\ buildDaemonset(blackholingEnabled(c), ApplicationName).blackholing
               = blackholingEnabled(c)
      BY DEF buildDaemonset
    <2> QED
      BY <2>1, <2>2, <2>3 DEF Filtered
  <1>3. CASE PerGroup(c)
    <2> DEFINE byWorker == blackholingEnabledByWorker(c, gs)
    <2>1. DOMAIN byWorker = gs /\ (g \in gs => byWorker[g] = Wanted(g, c))
      BY <1>3 DEF PerGroup, blackholingEnabledByWorker, blackholingEnabled, Wanted
    <2>2. getShootResources(c, gs) = { buildDaemonset(byWorker[h], h) : h \in gs }
      BY <1>3, <2>1 DEF getShootResources
    <2>3. g \in gs => buildDaemonset(byWorker[g], g) \in getShootResources(c, gs)
      BY <2>2
    <2>4. \A d \in getShootResources(c, gs) :
             d.group \in {ApplicationName, g} => g \in gs /\ d.blackholing = byWorker[g]
      BY <1>1, <2>2 DEF buildDaemonset
    <2> QED
      BY <2>1, <2>3, <2>4 DEF Filtered, buildDaemonset
  <1> QED
    BY <1>2, <1>3

\* An Extension and a Cluster of different ages may be of two Shoots.
BuiltOf(ds) == \E s \in AskedFor, t \in asked : ds = getShootResources(s.config, t.groups)
Built(d) == \E s \in AskedFor, t \in asked : d \in getShootResources(s.config, t.groups)

\* What Reconcile has read, and what was made of it, is of Shoots that there
\* were; DaemonSets come only from a ManagedResource, which is never empty
\* again.
OfShoots ==
    /\ shoot \in asked /\ cluster \in asked
    /\ \E s \in asked : extension.config = s.config
    /\ \E s \in asked : ex = s.config
    /\ pc = "validate" => \E s \in asked : groups = s.groups
    /\ resources = {} => daemonSets = {}
    /\ resources # {} => BuiltOf(resources)
    /\ \A d \in resources \cup daemonSets : Built(d)
    /\ \A n \in Node : \A p \in pods[n] : Built(p)

LEMMA OfShootsHolds == Spec => []OfShoots
  <1>1. Init => OfShoots
    BY DEF Init, OfShoots
  <1>2. TypeOK /\ OfShoots /\ [Next]_vars => OfShoots'
    <2> SUFFICES ASSUME TypeOK, OfShoots, [Next]_vars PROVE OfShoots'
      OBVIOUS
    <2> USE DEF garden, actuator, inShoot
    <2>1. CASE ChangeShoot
      <3>1. asked \subseteq asked' /\ shoot' \in asked'
        BY <2>1 DEF ChangeShoot
      <3>2. AskedFor \subseteq AskedFor'
        BY <3>1 DEF AskedFor
      <3>3. \A d : Built(d) => Built(d)'
        BY <3>1, <3>2 DEF Built
      <3>4. BuiltOf(resources) => BuiltOf(resources)'
        BY <2>1, <3>1, <3>2 DEF BuiltOf, ChangeShoot
      <3> QED
        BY <2>1, <3>1, <3>3, <3>4 DEF ChangeShoot, OfShoots
    <2>2. CASE ~ChangeShoot
      <3>1. UNCHANGED <<shoot, asked>>
        BY <2>2 DEF Next, Reconcile, ResourceManager, Starts, Stops, vars,
             SyncCluster, DeployExtension, Begin, GetCluster,
             RefuseConfig, CreateForShoot, Apply, Prune, Join, Leave, StartPod, StopPod
      <3>2. AskedFor' = AskedFor
        BY <3>1 DEF AskedFor
      <3>3. \A d : Built(d)' = Built(d)
        BY <3>1, <3>2 DEF Built
      <3>4. resources' = resources => BuiltOf(resources)' = BuiltOf(resources)
        BY <3>1, <3>2 DEF BuiltOf
      <3> USE <3>1, <3>3, <3>4 DEF OfShoots
      <3>5. CASE SyncCluster \/ DeployExtension
        BY <3>5 DEF SyncCluster, DeployExtension
      <3>6. CASE Begin \/ RefuseConfig
        BY <3>6 DEF Begin, RefuseConfig, TypeOK
      <3>12. CASE GetCluster
        BY <3>12 DEF GetCluster
      <3>7. CASE CreateForShoot
        <4>1. PICK s \in asked, t \in asked : ex = s.config /\ groups = t.groups
          BY <3>7 DEF CreateForShoot
        <4>2. s \in AskedFor
          BY <3>7, <4>1 DEF CreateForShoot, AskedFor
        <4>3. resources' = getShootResources(s.config, t.groups)
          BY <3>7, <4>1 DEF CreateForShoot
        <4>4. /\ s.config \in ProviderConfigs
              /\ t.groups \in SUBSET Group /\ t.groups # {}
          BY WorkersAssumption DEF TypeOK, Shoot
        <4>5. resources' # {}
          <5>1. getShootResources(s.config, t.groups) # {}
            BY <4>4, ResourcesByLayout
          <5> QED
            BY <4>3, <5>1
        <4>6. BuiltOf(resources)' /\ \A d \in resources' : Built(d)'
          BY <3>2, <4>2, <4>3 DEF BuiltOf, Built
        <4> QED
          BY <3>7, <4>5, <4>6 DEF CreateForShoot
      <3>8. ASSUME NEW d \in DaemonSet, Apply(d) \/ Prune(d) PROVE OfShoots'
        BY <3>8 DEF Apply, Prune
      <3>9. ASSUME NEW n \in Node, Join(n) \/ Leave(n) PROVE OfShoots'
        BY <3>9 DEF Join, Leave, TypeOK
      <3>10. ASSUME NEW n \in Node, NEW d \in DaemonSet, StartPod(n, d) \/ StopPod(n, d)
             PROVE  OfShoots'
        BY <3>10 DEF StartPod, StopPod, TypeOK
      <3>11. CASE UNCHANGED vars
        BY <3>11 DEF vars
      <3> QED
        BY <2>2, <3>5, <3>6, <3>7, <3>8, <3>9, <3>10, <3>11, <3>12
           DEF Next, Reconcile, ResourceManager, Starts, Stops
    <2> QED
      BY <2>1, <2>2
  <1> QED
    BY <1>1, <1>2, WorkersTyped, PTL DEF Spec

\* Whoever deletes first: as long as the user keeps to one layout, a worker
\* group that was always there never loses its DaemonSet.  What Reconcile
\* builds, of whichever Extension and Cluster, has one of that name for it.
THEOREM FilterIsKept == Spec => GroupsStayFiltered
  <1>1. TypeOK /\ Named /\ OfShoots /\ [Next]_vars =>
          [OneLayout =>
             \A g \in AlwaysThere : Filtered(g, daemonSets) => Filtered(g, daemonSets')]_vars
    <2> SUFFICES ASSUME TypeOK, Named, OfShoots, [Next]_vars, OneLayout,
                        NEW g \in AlwaysThere, Filtered(g, daemonSets)
                 PROVE  Filtered(g, daemonSets')
      OBVIOUS
    <2>1. PICK e \in daemonSets : e.group \in {ApplicationName, g}
      BY DEF Filtered
    <2>2. ASSUME NEW d \in DaemonSet, Apply(d) PROVE Filtered(g, daemonSets')
      <3>1. CASE e.name # d.name
        BY <2>1, <2>2, <3>1 DEF Apply, Filtered
      <3>2. CASE e.name = d.name
        <4>1. d \in resources /\ d \in daemonSets'
          BY <2>2 DEF Apply
        <4>2. d.group = e.group
          BY <3>2, <4>1 DEF Named
        <4> QED
          BY <2>1, <4>1, <4>2 DEF Filtered
      <3> QED
        BY <3>1, <3>2
    <2>3. ASSUME NEW d \in DaemonSet, Prune(d) PROVE Filtered(g, daemonSets')
      <3>1. \E r \in resources : r.name = e.name
        <4>1. Built(e) /\ BuiltOf(resources)
          BY DEF OfShoots
        <4>2. PICK s \in AskedFor, t \in asked : e \in getShootResources(s.config, t.groups)
          BY <4>1 DEF Built
        <4>3. PICK u \in AskedFor, v \in asked :
                     resources = getShootResources(u.config, v.groups)
          BY <4>1 DEF BuiltOf
        <4>4. /\ s.config \in ProviderConfigs /\ u.config \in ProviderConfigs
              /\ t.groups \in SUBSET Group /\ v.groups \in SUBSET Group
              /\ v.groups # {}
          BY WorkersAssumption DEF TypeOK, AskedFor, Shoot
        <4>5. PerGroup(s.config) <=> PerGroup(u.config)
          BY DEF OneLayout
        <4>6. \E r \in resources : r.group = e.group
          <5>1. CASE PerGroup(s.config)
            <6>1. e.group \in Group
              BY <4>2, <4>4, <5>1, ResourcesByLayout
            <6>2. e.group = g /\ g \in v.groups
              BY <2>1, <6>1, WorkersAssumption DEF AlwaysThere
            <6> QED
              BY <4>3, <4>4, <4>5, <5>1, <6>2, ResourcesByLayout
          <5>2. CASE ~PerGroup(s.config)
            <6>1. e.group = ApplicationName
              BY <4>2, <4>4, <5>2, ResourcesByLayout
            <6>2. resources # {} /\ \A r \in resources : r.group = ApplicationName
              BY <4>3, <4>4, <4>5, <5>2, ResourcesByLayout
            <6> QED
              BY <6>1, <6>2
          <5> QED
            BY <5>1, <5>2
        <4> QED
          BY <4>6 DEF Named
      <3>2. e # d
        BY <2>3, <3>1 DEF Prune
      <3> QED
        BY <2>1, <2>3, <3>2 DEF Prune, Filtered
    <2>4. daemonSets' = daemonSets \/ \E d \in DaemonSet : Apply(d) \/ Prune(d)
      BY DEF Next, Reconcile, ResourceManager, Starts, Stops, vars, garden, actuator,
             inShoot, ChangeShoot, SyncCluster, DeployExtension, Begin, GetCluster,
             RefuseConfig, CreateForShoot, Join, Leave, StartPod, StopPod
    <2> QED
      BY <2>2, <2>3, <2>4
  <1> QED
    BY <1>1, WorkersTyped, NamedHolds, OfShootsHolds, PTL DEF Spec, GroupsStayFiltered

\* A pod is on a node that its DaemonSet selects.
Placed == \A n \in Node : \A p \in pods[n] : Selects(p, n)

LEMMA PlacedHolds == Spec => []Placed
  <1>1. Init => Placed
    BY DEF Init, Placed
  <1>2. TypeOK /\ Placed /\ [Next]_vars => Placed'
    <2> SUFFICES ASSUME TypeOK, Placed, [Next]_vars PROVE Placed'
      OBVIOUS
    <2> USE DEF TypeOK, Placed, Selects, garden, actuator, inShoot
    <2>1. CASE UNCHANGED pods
      BY <2>1
    <2>2. ASSUME NEW n \in Node, Leave(n) PROVE Placed'
      BY <2>2 DEF Leave
    <2>3. ASSUME NEW n \in Node, NEW d \in DaemonSet, StartPod(n, d) PROVE Placed'
      BY <2>3 DEF StartPod
    <2>4. ASSUME NEW n \in Node, NEW d \in DaemonSet, StopPod(n, d) PROVE Placed'
      BY <2>4 DEF StopPod
    <2>5. \/ UNCHANGED pods
          \/ \E n \in Node : Leave(n)
          \/ \E n \in Node, d \in DaemonSet : StartPod(n, d) \/ StopPod(n, d)
      BY DEF Next, Reconcile, ResourceManager, Starts, Stops, vars, ChangeShoot,
             SyncCluster, DeployExtension, Begin, GetCluster, RefuseConfig,
             CreateForShoot, Apply, Prune, Join
    <2> QED
      BY <2>1, <2>2, <2>3, <2>4, <2>5
  <1> QED
    BY <1>1, <1>2, WorkersTyped, PTL DEF Spec

\* No pod ever works in a mode that nobody asked its worker group to have: not
\* while the providerConfig is of one Shoot and the worker groups of another,
\* and not while old DaemonSets and pods are still there.
THEOREM PodsAreAskedFor == Spec => []ModesWereAskedFor
  <1>1. TypeOK /\ OfShoots /\ Placed => ModesWereAskedFor
    <2> SUFFICES ASSUME TypeOK, OfShoots, Placed, NEW n \in Node, NEW p \in pods[n]
                 PROVE  \E s \in AskedFor : p.blackholing = Wanted(GroupOf[n], s.config)
      BY DEF ModesWereAskedFor
    <2>1. PICK s \in AskedFor, t \in asked : p \in getShootResources(s.config, t.groups)
      BY DEF OfShoots, Built
    <2>2. s.config \in ProviderConfigs /\ t.groups \in SUBSET Group
      BY WorkersAssumption DEF TypeOK, AskedFor, Shoot
    <2>3. GroupOf[n] \in Group /\ p.group \in {ApplicationName, GroupOf[n]}
      BY WorkersAssumption DEF Placed, Selects
    <2>4. p.blackholing = Wanted(GroupOf[n], s.config)
      BY <2>1, <2>2, <2>3, ResourcesAreWanted
    <2> QED
      BY <2>4
  <1> QED
    BY <1>1, WorkersTyped, OfShootsHolds, PlacedHolds, PTL

\* A providerConfig that is refused goes as far as the work queue.
Refused == changes = 0 /\ ~ValidateProviderConfig(shoot.config)

NothingBuilt ==
    Refused => /\ cluster.config = shoot.config /\ extension.config = shoot.config
               /\ ex = shoot.config
               /\ resources = {} /\ daemonSets = {}
               /\ \A n \in Node : pods[n] = {}

\* A refused providerConfig never brings a pod to a node.
THEOREM RefusedStaysOut == Spec => []RefusedHasNoEffect
  <1>1. Init => NothingBuilt
    BY DEF Init, NothingBuilt
  <1>2. TypeOK /\ NothingBuilt /\ [Next]_vars => NothingBuilt'
    <2> SUFFICES ASSUME TypeOK, NothingBuilt, [Next]_vars, Refused'
                 PROVE  NothingBuilt'
      BY DEF NothingBuilt
    <2> USE DEF garden, actuator, inShoot
    <2>1. CASE ChangeShoot
      BY <2>1, WorkersAssumption DEF ChangeShoot, Refused, TypeOK
    <2>2. CASE ~ChangeShoot
      <3>1. UNCHANGED <<shoot, changes>>
        BY <2>2 DEF Next, Reconcile, ResourceManager, Starts, Stops, vars,
             SyncCluster, DeployExtension, Begin, GetCluster,
             RefuseConfig, CreateForShoot, Apply, Prune, Join, Leave, StartPod, StopPod
      <3>2. Refused
        BY <3>1 DEF Refused
      <3> USE <3>1, <3>2 DEF NothingBuilt
      <3>3. CASE SyncCluster \/ DeployExtension
        BY <3>3 DEF SyncCluster, DeployExtension
      <3>4. CASE Begin \/ GetCluster \/ RefuseConfig
        BY <3>4 DEF Begin, GetCluster, RefuseConfig, TypeOK
      <3>5. CASE CreateForShoot
        BY <3>5 DEF CreateForShoot, Refused
      <3>6. ASSUME NEW d \in DaemonSet, Apply(d) \/ Prune(d) PROVE NothingBuilt'
        BY <3>6 DEF Apply, Prune
      <3>7. ASSUME NEW n \in Node, Join(n) \/ Leave(n) PROVE NothingBuilt'
        BY <3>7 DEF Join, Leave, TypeOK
      <3>8. ASSUME NEW n \in Node, NEW d \in DaemonSet, StartPod(n, d) \/ StopPod(n, d)
            PROVE  NothingBuilt'
        BY <3>8 DEF StartPod, StopPod
      <3>9. CASE UNCHANGED vars
        BY <3>9 DEF vars
      <3> QED
        BY <2>2, <3>3, <3>4, <3>5, <3>6, <3>7, <3>8, <3>9
           DEF Next, Reconcile, ResourceManager, Starts, Stops
    <2> QED
      BY <2>1, <2>2
  <1>3. NothingBuilt => RefusedHasNoEffect
    BY DEF NothingBuilt, Refused, RefusedHasNoEffect
  <1> QED
    BY <1>1, <1>2, <1>3, WorkersTyped, PTL DEF Spec
-----------------------------------------------------------------------------
(* What ModesSettle comes to rest in.                                      *)

\* The Shoot has gone all the way to the DaemonSets, no reconcile works on
\* anything older, and no pod of an earlier DaemonSet is left.
Settled ==
    /\ ValidateProviderConfig(shoot.config)
    /\ cluster = shoot /\ extension.config = shoot.config
    /\ pc # "idle" => ex = shoot.config
    /\ pc = "validate" => groups = shoot.groups
    /\ resources = getShootResources(shoot.config, shoot.groups)
    /\ daemonSets = resources
    /\ \A n \in Node : pods[n] \subseteq daemonSets

SettledUntilChange == [][Settled /\ shoot' = shoot => Settled']_vars

\* Only the user disturbs what has settled: not another reconcile, a resync,
\* the resource manager, or nodes that come and go.
THEOREM SettledStays == Spec => SettledUntilChange
  <1>1. TypeOK /\ [Next]_vars => [Settled /\ shoot' = shoot => Settled']_vars
    <2> SUFFICES ASSUME TypeOK, [Next]_vars, Settled, shoot' = shoot PROVE Settled'
      OBVIOUS
    <2> USE DEF Settled, garden, actuator, inShoot
    <2>1. CASE ChangeShoot
      BY <2>1 DEF ChangeShoot
    <2>2. CASE SyncCluster
      BY <2>2 DEF SyncCluster
    <2>3. CASE DeployExtension
      BY <2>3 DEF DeployExtension
    <2>4. CASE Begin
      BY <2>4 DEF Begin, TypeOK
    <2>5. CASE GetCluster
      BY <2>5 DEF GetCluster
    <2>6. CASE RefuseConfig
      BY <2>6 DEF RefuseConfig
    <2>7. CASE CreateForShoot
      BY <2>7 DEF CreateForShoot
    <2>8. ASSUME NEW d \in DaemonSet, Apply(d) \/ Prune(d) PROVE Settled'
      BY <2>8 DEF Apply, Prune
    <2>9. ASSUME NEW n \in Node, Join(n) PROVE Settled'
      BY <2>9 DEF Join
    <2>10. ASSUME NEW n \in Node, Leave(n) PROVE Settled'
      BY <2>10 DEF Leave, TypeOK
    <2>11. ASSUME NEW n \in Node, NEW d \in DaemonSet, StartPod(n, d) \/ StopPod(n, d)
           PROVE  Settled'
      BY <2>11 DEF StartPod, StopPod, TypeOK
    <2>12. CASE UNCHANGED vars
      BY <2>12 DEF vars
    <2> QED
      BY <2>1, <2>2, <2>3, <2>4, <2>5, <2>6, <2>7, <2>8, <2>9, <2>10, <2>11, <2>12
         DEF Next, Reconcile, ResourceManager, Starts, Stops
  <1> QED
    BY <1>1, WorkersTyped, PTL DEF Spec, SettledUntilChange

\* A node of a worker group of the Shoot has its pod, or nothing keeps the
\* scheduler from starting it; and it is in the mode wanted.
FilteredAsWanted ==
    \A n \in nodes : GroupOf[n] \in shoot.groups =>
      \E d \in DaemonSet :
         /\ d.blackholing = Wanted(GroupOf[n], shoot.config)
         /\ \/ pods[n] = {d}
            \/ /\ pods[n] = {} /\ d \in daemonSets
               /\ Selects(d, n) /\ PodAntiAffinity(n)

\* Where things have settled, every node has the filter that the user asked
\* for, or is about to get it: no other pod is in the way.
THEOREM SettledIsWanted == Spec => [](Settled => FilteredAsWanted)
  <1>1. TypeOK /\ Single /\ Placed => (Settled => FilteredAsWanted)
    <2> SUFFICES ASSUME TypeOK, Single, Placed, Settled,
                        NEW n \in nodes, GroupOf[n] \in shoot.groups
                 PROVE  \E d \in DaemonSet :
                          /\ d.blackholing = Wanted(GroupOf[n], shoot.config)
                          /\ \/ pods[n] = {d}
                             \/ /\ pods[n] = {} /\ d \in daemonSets
                                /\ Selects(d, n) /\ PodAntiAffinity(n)
      BY DEF FilteredAsWanted
    <2> DEFINE g == GroupOf[n]
    <2>1. /\ n \in Node /\ daemonSets \subseteq DaemonSet
          /\ shoot.config \in ProviderConfigs /\ shoot.groups \in SUBSET Group
      BY WorkersAssumption DEF TypeOK, Shoot
    <2>2. daemonSets = getShootResources(shoot.config, shoot.groups)
      BY DEF Settled
    <2>3. /\ Filtered(g, daemonSets)
          /\ \A d \in daemonSets :
                d.group \in {ApplicationName, g} => d.blackholing = Wanted(g, shoot.config)
      BY <2>1, <2>2, ResourcesAreWanted
    <2>4. CASE pods[n] = {}
      BY <2>1, <2>3, <2>4 DEF Filtered, Selects, PodAntiAffinity
    <2>5. CASE pods[n] # {}
      <3>1. PICK d \in DaemonSet : pods[n] = {d}
        BY <2>1, <2>5 DEF Single
      <3>2. d \in daemonSets /\ Selects(d, n)
        BY <2>1, <3>1 DEF Settled, Placed
      <3> QED
        BY <2>3, <3>1, <3>2 DEF Selects
    <2> QED
      BY <2>4, <2>5
  <1> QED
    BY <1>1, WorkersTyped, SingleHolds, PlacedHolds, PTL
=============================================================================
