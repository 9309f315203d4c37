-------------------------- MODULE SeedCluster_proofs --------------------------
(***************************************************************************)
(* Proofs about the filter of a seed or garden cluster, for any number of  *)
(* versions, changes, crashes and failing operations.                      *)
(***************************************************************************)
EXTENDS SeedCluster, TLAPS

\* A process that runs has a list, and gives up its resources only for a seed.
Loaded ==
    /\ \A p \in Owner : pc[p] # "down" => memory[p] # 0
    /\ pc["garden"] = "write" => carried["garden"] # Nothing

\* Only the ManagedResource of the seed is ever empty.
Filled == \A o \in {"garden", "runtime"} : mr[o] # "absent" => content[o] # Nothing

\* The ManagedResource is there for an Extension, and is deleted for one that is.
Fits ==
    /\ \A c \in Class : ext[c] = "absent" => mr[c] = "absent" /\ pc[c] \in {"down", "idle"}
    /\ \A c \in Class : mr[c] = "deleting" => ext[c] = "deleting"
    /\ mr["runtime"] # "deleting"

\* The objects in the cluster are in the status of a ManagedResource.
Tracked ==
    /\ \A o \in applied : mr[o] # "absent"
    /\ filter # Nothing => applied # {}

IInv == TypeOK /\ Loaded /\ Filled /\ Fits /\ Tracked

\* The two deployments of the extension never write the same ManagedResource.
LEMMA NamesDiffer == \A c \in Class : getRuntimeOrSeedManagedResourceName(c) = c
  BY DEF Class, getRuntimeOrSeedManagedResourceName, ExtensionClasses

\* What Stop does to the types and to the processes.
LEMMA StopKeeps ==
  ASSUME IInv, NEW p \in Owner, Stop(p)
  PROVE  /\ pc' \in [Owner -> {"down", "idle", "write", "wait"}]
         /\ pc'["runtime"] \in {"down", "idle"}
         /\ memory' \in [Owner -> 0..MaxVersion]
         /\ held' \subseteq Owner
         /\ carried' \in [Class -> Resources]
         /\ \A c \in Class : carried'[c] # Nothing => pc'[c] = "write"
         /\ Loaded'
         /\ \A c \in Class : pc'[c] = pc[c] \/ pc'[c] = "down"
  <1> USE SeedClusterAssumption DEF IInv, TypeOK, Stop, Owner, Class
  <1>1. Nothing \in Resources
    BY DEF Nothing, Resources
  <1>2. carried' \in [Class -> Resources]
    BY <1>1
  <1>3. /\ pc' \in [Owner -> {"down", "idle", "write", "wait"}]
        /\ pc'["runtime"] \in {"down", "idle"}
        /\ memory' \in [Owner -> 0..MaxVersion]
        /\ held' \subseteq Owner
    OBVIOUS
  <1>4. \A c \in Class : carried'[c] # Nothing => pc'[c] = "write"
    OBVIOUS
  <1>5. Loaded'
    BY DEF Loaded
  <1> QED
    BY <1>2, <1>3, <1>4, <1>5

\* Steps that leave the cluster alone keep
\* what only those variables say.
LEMMA ClusterStays ==
  ASSUME IInv, UNCHANGED cluster
  PROVE  Filled' /\ Tracked'
  BY DEF IInv, cluster, Filled, Tracked

LEMMA InitIInv == Init => IInv
  <1> SUFFICES ASSUME Init PROVE IInv
    OBVIOUS
  <1> USE SeedClusterAssumption DEF Init, Owner, Class
  <1>1. Nothing \in Resources
    BY DEF Nothing, Resources
  <1>2. TypeOK
    <2>1. carried \in [Class -> Resources] /\ content \in [Owner -> Resources]
      BY <1>1
    <2>2. mounted \subseteq Key
      BY DEF Key
    <2> QED
      BY <1>1, <2>1, <2>2 DEF TypeOK
  <1>3. Loaded /\ Filled /\ Fits /\ Tracked
    BY DEF Loaded, Filled, Fits, Tracked
  <1> QED
    BY <1>2, <1>3 DEF IInv

\* Steps of the users and of the surroundings.
LEMMA EnvironmentKeeps ==
  ASSUME IInv, Environment
  PROVE  IInv'
  <1> USE SeedClusterAssumption DEF IInv, inputs, settings, process
  <1>1. ASSUME NEW c \in Class, Enable(c) \/ Disable(c) PROVE IInv'
    <2>1. TypeOK'
      BY <1>1 DEF Enable, Disable, Change, TypeOK, cluster
    <2>2. Fits'
      BY <1>1 DEF Enable, Disable, Change, Fits, TypeOK, cluster, Class
    <2>3. Loaded' /\ UNCHANGED cluster
      BY <1>1 DEF Enable, Disable, Change, Loaded
    <2> QED
      BY <2>1, <2>2, <2>3, ClusterStays
  <1>2. CASE ChangeGarden \/ PublishList \/ ChangeLookup \/ LoseSecret
    <2> USE <1>2 DEF ChangeGarden, PublishList, ChangeLookup, LoseSecret, Change
    <2>1. TypeOK'
      <3>1. garden' \in BOOLEAN /\ resolves' \in BOOLEAN
        BY Zenon DEF TypeOK
      <3>2. latest' \in 1..MaxVersion /\ secret' \in 0..MaxVersion /\ changes' \in Nat
        BY DEF TypeOK
      <3> QED
        BY <3>1, <3>2 DEF TypeOK, cluster
    <2>2. Fits' /\ Loaded' /\ UNCHANGED cluster
      BY DEF Fits, Loaded, cluster
    <2> QED
      BY <2>1, <2>2, ClusterStays
  <1>3. CASE RotateCredentials \/ MountCredentials
    <2> USE <1>3 DEF RotateCredentials, MountCredentials
    <2>1. TypeOK'
      BY DEF TypeOK, cluster, Secrets, Key
    <2>2. Fits' /\ Loaded' /\ UNCHANGED cluster
      BY DEF Fits, Loaded, cluster
    <2> QED
      BY <2>1, <2>2, ClusterStays
  <1>4. ASSUME NEW p \in Owner, Crash(p) PROVE IInv'
    <2>1. Stop(p) /\ UNCHANGED <<settings, ext, cluster>> /\ changes' = changes + 1
      BY <1>4 DEF Crash
    <2>2. TypeOK'
      BY <2>1, StopKeeps DEF TypeOK, cluster
    <2>3. Fits'
      BY <2>1, StopKeeps DEF Fits, cluster
    <2> QED
      BY <2>1, <2>2, <2>3, StopKeeps, ClusterStays
  <1>5. ASSUME NEW c \in Class, Fail(c) PROVE IInv'
    <2>1. Nothing \in Resources
      BY DEF Nothing, Resources
    <2>2. carried' \in [Class -> Resources]
      BY <1>5, <2>1 DEF Fail, TypeOK
    <2>3. TypeOK'
      BY <1>5, <2>2 DEF Fail, TypeOK, cluster, Class, Owner
    <2>4. Fits' /\ Loaded'
      BY <1>5 DEF Fail, Fits, Loaded, TypeOK, cluster, Class, Owner
    <2>5. UNCHANGED cluster
      BY <1>5 DEF Fail
    <2> QED
      BY <2>3, <2>4, <2>5, ClusterStays
  <1> QED
    BY <1>1, <1>2, <1>3, <1>4, <1>5 DEF Environment

\* Steps of the processes: starting, downloading, and being rolled out.
LEMMA ProcessKeeps ==
  ASSUME IInv, NEW p \in Owner, Start(p) \/ Rollout(p) \/ Refresh(p)
  PROVE  IInv'
  <1> USE SeedClusterAssumption DEF IInv, inputs, settings
  <1>1. CASE Start(p)
    <2>1. TypeOK'
      BY <1>1 DEF Start, Setup, Goto, TypeOK, cluster, Owner, Class
    <2>2. Fits' /\ Loaded'
      BY <1>1 DEF Start, Setup, Goto, TypeOK, Fits, Loaded, cluster, Owner, Class
    <2>3. UNCHANGED cluster
      BY <1>1 DEF Start
    <2> QED
      BY <2>1, <2>2, <2>3, ClusterStays
  <1>2. CASE Refresh(p)
    <2>1. TypeOK'
      BY <1>2 DEF Refresh, TypeOK, cluster
    <2>2. Fits' /\ Loaded' /\ UNCHANGED cluster
      BY <1>2 DEF Refresh, TypeOK, Fits, Loaded, cluster
    <2> QED
      BY <2>1, <2>2, ClusterStays
  <1>3. CASE Rollout(p)
    <2>1. Stop(p) /\ UNCHANGED <<inputs, ext, cluster>>
      BY <1>3 DEF Rollout
    <2>2. TypeOK'
      BY <2>1, StopKeeps DEF TypeOK, cluster
    <2>3. Fits'
      BY <2>1, StopKeeps DEF Fits, cluster
    <2> QED
      BY <2>1, <2>2, <2>3, StopKeeps, ClusterStays
  <1> QED
    BY <1>1, <1>2, <1>3

\* Steps of the actuator.
LEMMA ActuatorKeeps ==
  ASSUME IInv, NEW c \in Class, Operate(c)
  PROVE  IInv'
  <1> USE SeedClusterAssumption DEF IInv, inputs, settings
  <1>1. Nothing \in Resources /\ getRuntimeOrSeedManagedResourceName(c) = c
    BY NamesDiffer DEF Nothing, Resources
  <1>2. CASE Render(c)
    <2>1. /\ Rendered(c, resolves) \in Resources
          /\ c = "garden" /\ memory[c] # 0 => Rendered(c, resolves) # Nothing
      <3>1. [version |-> memory[c], open |-> resolves] \in Resources
        BY DEF Resources, TypeOK, Owner
      <3> QED
        BY <1>1, <3>1 DEF Rendered, Nothing
    <2>2. carried' \in [Class -> Resources]
      BY <1>2, <2>1 DEF Render, TypeOK
    <2>3. TypeOK'
      BY <1>2, <2>2 DEF Render, Goto, TypeOK, cluster, Owner, Class
    <2>4. Fits' /\ Loaded'
      BY <1>2, <2>1 DEF Render, Goto, TypeOK, Fits, Loaded, cluster, Owner, Class
    <2>5. UNCHANGED cluster
      BY <1>2 DEF Render
    <2> QED
      BY <2>3, <2>4, <2>5, ClusterStays
  <1>3. CASE CreateForSeed(c)
    <2> USE <1>1, <1>3 DEF CreateForSeed, CreateOrUpdate, Goto, Owner, Class
    <2>1. carried' \in [Class -> Resources] /\ content' \in [Owner -> Resources]
      BY DEF TypeOK
    <2>2. mr' \in [Owner -> {"absent", "live", "deleting"}]
      BY DEF TypeOK
    <2>3. TypeOK'
      BY <2>1, <2>2 DEF TypeOK
    <2>4. Loaded'
      BY DEF TypeOK, Loaded
    <2>5. Filled'
      BY DEF TypeOK, Loaded, Filled
    <2>6. Fits'
      BY DEF TypeOK, Fits
    <2>7. Tracked'
      BY DEF TypeOK, Tracked
    <2> QED
      BY <2>3, <2>4, <2>5, <2>6, <2>7
  <1>4. CASE DeleteForSeed(c)
    <2> USE <1>1, <1>4 DEF DeleteForSeed, Goto, Owner, Class
    <2>1. TypeOK'
      BY DEF TypeOK
    <2>2. Loaded' /\ Filled'
      BY DEF TypeOK, Loaded, Filled
    <2>3. Fits'
      BY DEF TypeOK, Fits
    <2>4. Tracked'
      BY DEF TypeOK, Tracked
    <2> QED
      BY <2>1, <2>2, <2>3, <2>4
  <1>5. CASE WaitUntilDeleted(c)
    <2> USE <1>1, <1>5 DEF WaitUntilDeleted, Goto, Owner, Class
    <2>1. TypeOK'
      BY DEF TypeOK, cluster
    <2>2. Loaded' /\ Fits' /\ UNCHANGED cluster
      BY DEF TypeOK, Loaded, Fits, cluster
    <2> QED
      BY <2>1, <2>2, ClusterStays
  <1> QED
    BY <1>2, <1>3, <1>4, <1>5 DEF Operate

\* Steps of the runtime filter.
LEMMA RunLoopKeeps ==
  ASSUME IInv, RunLoop
  PROVE  IInv'
  <1> USE SeedClusterAssumption DEF IInv, inputs, settings
  <1>1. CASE UpdateManagedResource
    <2> USE <1>1 DEF UpdateManagedResource, CreateOrUpdate, process, Owner, Class
    <2>1. /\ [version |-> secret, open |-> FALSE] \in Resources
          /\ [version |-> secret, open |-> FALSE] # Nothing
      BY DEF TypeOK, Resources, Nothing
    <2>2. content' \in [Owner -> Resources]
      BY <2>1 DEF TypeOK
    <2>3. TypeOK'
      BY <2>2 DEF TypeOK
    <2>4. Filled'
      BY <2>1 DEF TypeOK, Filled
    <2>5. Loaded' /\ Fits' /\ Tracked'
      BY DEF TypeOK, Loaded, Fits, Tracked
    <2> QED
      BY <2>3, <2>4, <2>5
  <1>2. CASE Panic
    <2>1. "runtime" \in Owner /\ Stop("runtime") /\ UNCHANGED <<inputs, ext, cluster>>
      BY <1>2 DEF Panic, Owner
    <2>2. TypeOK'
      BY <2>1, StopKeeps DEF TypeOK, cluster
    <2>3. Fits'
      BY <2>1, StopKeeps DEF Fits, cluster
    <2> QED
      BY <2>1, <2>2, <2>3, StopKeeps, ClusterStays
  <1> QED
    BY <1>1, <1>2 DEF RunLoop

\* Steps of the resource manager.
LEMMA ResourceManagerKeeps ==
  ASSUME IInv, NEW o \in Owner, Synchronize(o)
  PROVE  IInv'
  <1> USE SeedClusterAssumption DEF IInv, inputs, settings, process
  <1>1. Nothing \in Resources
    BY DEF Nothing, Resources
  <1>2. CASE Apply(o)
    <2> USE <1>2 DEF Apply
    <2>1. TypeOK'
      BY DEF TypeOK
    <2>2. Loaded' /\ Filled' /\ Fits' /\ Tracked'
      BY DEF Loaded, Filled, Fits, Tracked
    <2> QED
      BY <2>1, <2>2
  <1>3. CASE DeleteObsolete(o)
    <2> USE <1>3 DEF DeleteObsolete
    <2>1. TypeOK'
      BY <1>1 DEF TypeOK
    <2>2. Loaded' /\ Filled' /\ Fits' /\ Tracked'
      BY DEF Loaded, Filled, Fits, Tracked
    <2> QED
      BY <2>1, <2>2
  <1>4. CASE Remove(o)
    <2> USE <1>4 DEF Remove, Owner, Class
    <2>1. TypeOK'
      <3>1. content' \in [Owner -> Resources]
        BY <1>1 DEF TypeOK
      <3> QED
        BY <1>1, <3>1 DEF TypeOK
    <2>2. Loaded' /\ Filled'
      BY DEF TypeOK, Loaded, Filled
    <2>3. Fits'
      BY DEF TypeOK, Fits
    <2>4. Tracked'
      BY DEF TypeOK, Tracked
    <2> QED
      BY <2>1, <2>2, <2>3, <2>4
  <1> QED
    BY <1>2, <1>3, <1>4 DEF Synchronize

LEMMA NextKeeps == IInv /\ [Next]_vars => IInv'
  <1> SUFFICES ASSUME IInv, [Next]_vars PROVE IInv'
    OBVIOUS
  <1>1. CASE Environment
    BY <1>1, EnvironmentKeeps
  <1>2. CASE \E p \in Owner : Start(p) \/ Rollout(p)
    BY <1>2, ProcessKeeps
  <1>3. CASE \E c \in Class : Refresh(c)
    BY <1>3, ProcessKeeps DEF Owner
  <1>4. CASE \E c \in Class : Operate(c)
    BY <1>4, ActuatorKeeps
  <1>5. CASE RunLoop
    BY <1>5, RunLoopKeeps
  <1>6. CASE \E o \in Owner : Synchronize(o)
    BY <1>6, ResourceManagerKeeps
  <1>7. CASE UNCHANGED vars
    BY <1>7 DEF vars, inputs, settings, process, cluster, IInv, TypeOK, Loaded, Filled,
                Fits, Tracked
  <1> QED
    BY <1>1, <1>2, <1>3, <1>4, <1>5, <1>6, <1>7 DEF Next

LEMMA Invariance == Spec => []IInv
  <1> QED
    BY InitIInv, NextKeeps, PTL DEF Spec

\* Every variable keeps its type, and rendered resources never outlive the
\* operation that is to write them (actuator.go 196-212).
THEOREM SeedClusterTyped == Spec => []TypeOK
  <1>1. IInv => TypeOK
    BY DEF IInv
  <1> QED
    BY <1>1, Invariance, PTL

\* An Extension that is gone has no ManagedResource, and objects in kube-system
\* are in the status of a ManagedResource (Delete, actuator.go 233-244).
THEOREM SeedLeavesNothing == Spec => []NothingLeftBehind
  <1>1. IInv => NothingLeftBehind
    BY DEF IInv, Fits, Tracked, NothingLeftBehind
  <1> QED
    BY <1>1, Invariance, PTL

\* Only a deletion or the seed's yielding to the garden ever takes the filter
\* away, whatever crashes, fails or is rolled out (actuator.go 202-211).
THEOREM SeedKeepsFilter == Spec => FilterIsKept
  <1> DEFINE Kept == filter # Nothing /\ filter' = Nothing =>
                \/ mr["seed"] = "live" /\ content["seed"] = Nothing /\ "seed" \in applied
                \/ \E c \in Class : ext[c] = "deleting"
  <1>1. IInv /\ [Next]_vars => [Kept]_vars
    <2> SUFFICES ASSUME IInv, Next, filter # Nothing, filter' = Nothing PROVE Kept
      OBVIOUS
    <2>1. PICK o \in Owner : Synchronize(o)
      <3>1. CASE Environment
        BY <3>1 DEF Environment, Enable, Disable, ChangeGarden, PublishList, ChangeLookup,
                    LoseSecret, RotateCredentials, MountCredentials, Crash, Fail, Change, cluster
      <3>2. CASE \E p \in Owner : Start(p) \/ Rollout(p)
        BY <3>2 DEF Start, Rollout, cluster
      <3>3. CASE \E c \in Class : Refresh(c)
        BY <3>3 DEF Refresh, cluster
      <3>4. CASE \E c \in Class : Operate(c)
        BY <3>4 DEF Operate, Render, CreateForSeed, CreateOrUpdate, DeleteForSeed,
                    WaitUntilDeleted, cluster
      <3>5. CASE RunLoop
        BY <3>5 DEF RunLoop, UpdateManagedResource, Panic, CreateOrUpdate, cluster
      <3> QED
        BY <3>1, <3>2, <3>3, <3>4, <3>5 DEF Next
    <2>2. CASE Apply(o)
      BY <2>2 DEF Apply
    <2>3. CASE DeleteObsolete(o)
      BY <2>3 DEF DeleteObsolete, IInv, Filled, Owner, Class
    <2>4. CASE Remove(o)
      BY <2>4 DEF Remove, IInv, Fits, Owner, Class
    <2> QED
      BY <2>1, <2>2, <2>3, <2>4 DEF Synchronize
  <1>2. [][Kept]_vars <=> FilterIsKept
    BY DEF FilterIsKept
  <1> QED
    BY <1>1, <1>2, Invariance, PTL DEF Spec
-----------------------------------------------------------------------------
(* What ListArrives comes to rest in.                                      *)

List == [version |-> latest, open |-> TRUE]

\* An Extension of class garden is only there in a garden's cluster.
Gardens == ext["garden"] # "absent" => garden

LEMMA GardensHold == Spec => []Gardens
  <1>1. Init => Gardens
    BY DEF Init, Gardens, Class
  <1>2. IInv /\ Gardens /\ [Next]_vars => Gardens'
    <2> SUFFICES ASSUME IInv, Gardens, [Next]_vars PROVE Gardens'
      OBVIOUS
    <2> USE DEF Gardens, inputs, settings, Class
    <2>1. CASE UNCHANGED <<garden, ext>>
      BY <2>1
    <2>2. CASE ChangeGarden
      BY <2>2 DEF ChangeGarden
    <2>3. ASSUME NEW c \in Class, Enable(c) \/ Disable(c) PROVE Gardens'
      BY <2>3 DEF Enable, Disable, IInv, TypeOK
    <2>4. ASSUME NEW c \in Class, WaitUntilDeleted(c) PROVE Gardens'
      BY <2>4 DEF WaitUntilDeleted, IInv, TypeOK
    <2>5. CASE Environment
      BY <2>1, <2>2, <2>3, <2>5 DEF Environment, PublishList, ChangeLookup, LoseSecret,
         RotateCredentials, MountCredentials, Crash, Fail
    <2>6. CASE \E c \in Class : Operate(c)
      BY <2>1, <2>4, <2>6 DEF Operate, Render, CreateForSeed, DeleteForSeed
    <2>7. CASE \E p \in Owner : Start(p) \/ Rollout(p) \/ Refresh(p)
      BY <2>1, <2>7 DEF Start, Rollout, Refresh
    <2>8. CASE RunLoop \/ \E o \in Owner : Synchronize(o)
      BY <2>1, <2>8 DEF RunLoop, UpdateManagedResource, Panic, Synchronize, Apply,
         DeleteObsolete, Remove
    <2>9. CASE UNCHANGED vars
      BY <2>1, <2>9 DEF vars
    <2> QED
      BY <2>5, <2>6, <2>7, <2>8, <2>9 DEF Next, Owner
  <1> QED
    BY <1>1, <1>2, Invariance, PTL DEF Spec

\* An Extension is to have the filter here, the load balancers are found, and
\* the runtime filter keeps out.
Asked == resolves /\ mr["runtime"] = "absent" /\ \E c \in Class : Wanted(c)

\* One class has brought the latest list into the cluster and has nothing older
\* on its way; the other has nothing there.
Standing(c) ==
    IF Wanted(c)
    THEN /\ Running(c) => memory[c] = latest
         /\ pc[c] = "write" => carried[c] = List
         /\ mr[c] # "absent" => content[c] = List
    ELSE /\ pc[c] = "write" => carried[c] = Nothing
         /\ mr[c] # "absent" => content[c] = Nothing /\ c \notin applied

Arrived == Asked /\ filter = List /\ \A c \in Class : Standing(c)

Undisturbed == UNCHANGED <<garden, latest>> /\ Asked'

ArrivedUntilChange == [][Arrived /\ Undisturbed => Arrived']_vars

\* In that state one class is wanted, and the same one before and after a step.
LEMMA OneIsWanted ==
  ASSUME IInv, Gardens, Gardens', Asked, Undisturbed
  PROVE  \A c \in Class : /\ Wanted(c)' <=> Wanted(c)
                          /\ Wanted(c) <=> c = (IF garden THEN "garden" ELSE "seed")
  BY DEF Gardens, Asked, Undisturbed, Wanted, Class, IInv, TypeOK

\* As long as the same class is to have the filter and the same list is latest,
\* what has arrived stays: through crashes, failing operations, rollouts,
\* credentials that are lost, and an Extension of the other class that comes or
\* goes at the same time (Reconcile and Delete, actuator.go 198-244).
THEOREM ArrivedStays == Spec => ArrivedUntilChange
  <1>1. IInv /\ Gardens /\ Gardens' /\ [Next]_vars => [Arrived /\ Undisturbed => Arrived']_vars
    <2> SUFFICES ASSUME IInv, Gardens, Gardens', [Next]_vars, Arrived, Undisturbed
                 PROVE  Arrived'
      OBVIOUS
    <2> USE DEF IInv, TypeOK, inputs, settings, process, cluster
    <2>1. /\ \A c \in Class : Wanted(c)' <=> Wanted(c)
          /\ \A c \in Class : Wanted(c) <=> c = (IF garden THEN "garden" ELSE "seed")
      BY OneIsWanted DEF Arrived
    <2>2. /\ List' = List /\ Asked' /\ UNCHANGED <<garden, latest>>
          /\ mr["runtime"] = "absent" /\ mr'["runtime"] = "absent" /\ resolves
          /\ filter = List /\ \A c \in Class : Standing(c)
      BY DEF Undisturbed, List, Asked, Arrived, Standing
    <2>3. List # Nothing /\ Nothing \in Resources
      BY SeedClusterAssumption DEF List, Nothing, Resources
    <2>4. SUFFICES filter' = List /\ \A c \in Class : Standing(c)'
      BY <2>2 DEF Arrived, Standing
    <2>5. ASSUME UNCHANGED <<pc, memory, carried, cluster>>
          PROVE  filter' = List /\ \A c \in Class : Standing(c)'
      BY <2>1, <2>2, <2>5 DEF Standing, Running
    <2>6. ASSUME NEW p \in Owner, Stop(p), UNCHANGED cluster
          PROVE  filter' = List /\ \A c \in Class : Standing(c)'
      <3> SUFFICES ASSUME NEW c \in Class PROVE Standing(c)'
        BY <2>2, <2>6
      <3> QED
        BY <2>1, <2>2, <2>6 DEF Standing, Running, Stop, Owner, Class
    <2>7. CASE Environment
      <3>1. ASSUME NEW c \in Class, Fail(c) PROVE filter' = List /\ \A d \in Class : Standing(d)'
        <4> SUFFICES ASSUME NEW d \in Class PROVE Standing(d)'
          BY <2>2, <3>1 DEF Fail
        <4> QED
          BY <2>1, <2>2, <3>1 DEF Standing, Running, Fail, Owner, Class
      <3>2. CASE \/ \E c \in Class : Enable(c) \/ Disable(c)
                 \/ ChangeGarden \/ PublishList \/ ChangeLookup \/ LoseSecret
                 \/ RotateCredentials \/ MountCredentials
        BY <2>5, <3>2 DEF Enable, Disable, ChangeGarden, PublishList, ChangeLookup, LoseSecret,
           RotateCredentials, MountCredentials, Change
      <3> QED
        BY <2>6, <2>7, <3>1, <3>2 DEF Environment, Crash
    <2>8. ASSUME NEW p \in Owner, Start(p) \/ Rollout(p) \/ Refresh(p)
          PROVE  filter' = List /\ \A c \in Class : Standing(c)'
      <3>1. CASE Rollout(p)
        BY <2>6, <3>1 DEF Rollout
      <3>2. CASE Start(p) \/ Refresh(p)
        <4> SUFFICES ASSUME NEW c \in Class PROVE Standing(c)'
          BY <2>2, <3>2 DEF Start, Refresh
        <4>1. /\ UNCHANGED <<carried, mr, content, applied>> /\ memory'[p] = latest
              /\ pc'[p] = "write" => pc[p] = "write"
              /\ \A o \in Owner \ {p} : pc'[o] = pc[o] /\ memory'[o] = memory[o]
          BY <3>2 DEF Start, Setup, Goto, Refresh
        <4> QED
          BY <2>1, <2>2, <4>1 DEF Standing, Running, Owner, Class
      <3> QED
        BY <2>8, <3>1, <3>2
    <2>9. ASSUME NEW c \in Class, Operate(c)
          PROVE  filter' = List /\ \A d \in Class : Standing(d)'
      <3>1. filter' = List
        BY <2>2, <2>9 DEF Operate, Render, CreateForSeed, CreateOrUpdate, DeleteForSeed,
           WaitUntilDeleted
      <3> SUFFICES ASSUME NEW d \in Class PROVE Standing(d)'
        BY <3>1
      <3>2. getRuntimeOrSeedManagedResourceName(c) = c
        BY NamesDiffer
      <3>3. CASE Render(c)
        <4>1. Wanted(c) => Rendered(c, resolves) = List
          BY <2>1, <2>2, <3>2, <3>3 DEF Rendered, Standing, Running, Render, Goto, List
        <4>2. ~Wanted(c) => Rendered(c, resolves) = Nothing
          BY <3>2, <3>3 DEF Rendered, Wanted, Render, Class
        <4> QED
          BY <2>1, <2>2, <3>3, <4>1, <4>2 DEF Standing, Running, Render, Goto, Owner, Class
      <3>4. CASE CreateForSeed(c)
        BY <2>1, <2>2, <3>2, <3>4
           DEF Standing, Running, CreateForSeed, CreateOrUpdate, Goto, Owner, Class, Tracked
      <3>5. CASE DeleteForSeed(c)
        BY <2>1, <2>2, <3>2, <3>5 DEF Standing, Running, DeleteForSeed, Goto, Owner, Class
      <3>6. CASE WaitUntilDeleted(c)
        BY <2>1, <2>2, <3>2, <3>6 DEF Standing, Running, WaitUntilDeleted, Goto, Owner, Class
      <3> QED
        BY <2>9, <3>3, <3>4, <3>5, <3>6 DEF Operate
    <2>10. CASE UpdateManagedResource
      BY <2>2, <2>10 DEF UpdateManagedResource, CreateOrUpdate, Owner
    <2>11. CASE Panic
      BY <2>6, <2>11 DEF Panic, Owner
    <2>12. ASSUME NEW o \in Owner, Synchronize(o)
           PROVE  filter' = List /\ \A c \in Class : Standing(c)'
      <3>1. mr[o] # "absent" /\ o \in Class
        BY <2>2, <2>12 DEF Synchronize, Apply, DeleteObsolete, Remove, Owner
      <3>2. CASE Wanted(o)
        <4>1. mr[o] # "deleting" /\ content[o] = List
          BY <2>2, <3>1, <3>2 DEF Fits, Wanted, Standing
        <4>2. Apply(o)
          BY <2>3, <2>12, <4>1 DEF Synchronize, DeleteObsolete, Remove
        <4>3. /\ UNCHANGED <<pc, memory, carried, mr, content>>
              /\ filter' = content[o] /\ applied' = applied \cup {o}
          BY <4>2 DEF Apply
        <4> SUFFICES ASSUME NEW c \in Class PROVE Standing(c)'
          BY <2>2, <4>1, <4>3
        <4> QED
          BY <2>1, <2>2, <3>2, <4>3 DEF Standing, Running
      <3>3. CASE ~Wanted(o)
        <4>1. content[o] = Nothing /\ o \notin applied
          BY <2>2, <3>1, <3>3 DEF Standing
        <4>2. Remove(o)
          BY <2>12, <4>1 DEF Synchronize, Apply, DeleteObsolete
        <4> SUFFICES ASSUME NEW c \in Class PROVE Standing(c)'
          BY <2>2, <4>1, <4>2 DEF Remove
        <4> QED
          BY <2>1, <2>2, <4>1, <4>2 DEF Remove, Standing, Running, Owner, Class
      <3> QED
        BY <3>2, <3>3
    <2>13. CASE UNCHANGED vars
      BY <2>5, <2>13 DEF vars
    <2> QED
      BY <2>7, <2>8, <2>9, <2>10, <2>11, <2>12, <2>13 DEF Next, RunLoop, Owner
  <1> QED
    BY <1>1, GardensHold, Invariance, PTL DEF Spec, ArrivedUntilChange
=============================================================================
