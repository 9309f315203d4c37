-------------------------- MODULE ExtensionLifecycle --------------------------
(***************************************************************************)
(* The life of the Extension of one shoot: the actuator's Reconcile,       *)
(* Delete, Migrate and Restore (actuator.go), step by step, on every seed  *)
(* the control plane of the shoot moves to, together with what they talk   *)
(* to: the gardenlet that asks for operations, the ManagedResource and its *)
(* secret in the control plane's namespace, and the resource manager that  *)
(* brings the objects into the shoot.  Any step of the actuator may be its *)
(* last, because of an error, a timeout or a crash; it is then retried.    *)
(*                                                                         *)
(* The filters come from a download.  The process on each seed keeps the   *)
(* list in its memory (filterlistprovider.go), so that the seeds may have  *)
(* different versions of it.                                               *)
(***************************************************************************)
EXTENDS Naturals

CONSTANTS
    Seed,
    FirstSeed,       \* where the shoot is created
    MaxVersion,      \* bound on the versions of the filter list
    MaxMigrations,   \* bound on the moves of the control plane
    MaxFailures      \* bound on the operations that fail

ASSUME LifecycleAssumption ==
    /\ FirstSeed \in Seed
    /\ MaxVersion \in Nat \ {0} /\ MaxMigrations \in Nat /\ MaxFailures \in Nat

VARIABLES
    published,   \* the version of the filter list that the server has
    list,        \* the version that the process on each seed has in memory
    home,        \* the seed of the control plane
    deleting,    \* the deletion of the shoot has been asked for
    extension,   \* what is asked of the Extension object on each seed
    pc,          \* where the actuator is
    op,          \* the operation it carries out
    data,        \* the resources it has rendered, by the version of the list
    mr,          \* the ManagedResource on each seed
    secret,      \* its secret: the version of the resources, 0 if absent
    filter,      \* the DaemonSet and the secret in the shoot: their version
    shown,       \* history: the last version that each seed has brought there
    migrations, failures

vars == <<published, list, home, deleting, extension, pc, op, data, mr, secret,
          filter, shown, migrations, failures>>
provider == <<published, list>>
gardenlet == <<home, deleting, migrations>>
cluster == <<mr, secret, filter, shown>>

Absent == [there |-> FALSE, keep |-> FALSE, deleted |-> FALSE]

Init ==
    /\ published = 1
    /\ list = [s \in Seed |-> 1]
    /\ home = FirstSeed
    /\ deleting = FALSE
    /\ extension = [s \in Seed |-> IF s = home THEN "reconcile" ELSE "absent"]
    /\ pc = [s \in Seed |-> "idle"]
    /\ op = [s \in Seed |-> "none"]
    /\ data = [s \in Seed |-> 0]
    /\ mr = [s \in Seed |-> Absent]
    /\ secret = [s \in Seed |-> 0]
    /\ filter = 0
    /\ shown = [s \in Seed |-> 0]
    /\ migrations = 0
    /\ failures = 0

-----------------------------------------------------------------------------
(* The filter list.                                                        *)

Publish ==
    /\ published < MaxVersion
    /\ published' = published + 1
    /\ UNCHANGED <<list, extension, pc, op, data, failures, gardenlet, cluster>>

\* The ticker of Setup, if there is a refreshPeriod.  A download that fails
\* leaves the list as it is.
Refresh(s) ==
    /\ list[s] # published
    /\ list' = [list EXCEPT ![s] = published]
    /\ UNCHANGED <<published, extension, pc, op, data, failures, gardenlet, cluster>>

-----------------------------------------------------------------------------
(* The gardenlet and the users.                                            *)

\* Reconciliations of the shoot, and the resync of the controller.
AskForReconcile ==
    /\ extension[home] = "ready"
    /\ extension' = [extension EXCEPT ![home] = "reconcile"]
    /\ UNCHANGED <<pc, op, data, failures, gardenlet, provider, cluster>>

AskForMigration ==
    /\ extension[home] \in {"ready", "reconcile"} /\ ~deleting
    /\ migrations < MaxMigrations
    /\ migrations' = migrations + 1
    /\ extension' = [extension EXCEPT ![home] = "migrate"]
    /\ UNCHANGED <<home, deleting, pc, op, data, failures, provider, cluster>>

\* After the migration the Extension is deleted without its controller's
\* help, and restored in the new control plane.
MoveControlPlane ==
    /\ extension[home] = "migrated"
    /\ \E s \in Seed \ {home} :
          /\ home' = s
          /\ extension' = [extension EXCEPT ![home] = "absent", ![s] = "restore"]
    /\ UNCHANGED <<deleting, migrations, pc, op, data, failures, provider, cluster>>

\* A control plane that has moved is restored before it is deleted.
AskForDeletion ==
    /\ extension[home] \in {"ready", "reconcile"} /\ ~deleting
    /\ deleting' = TRUE
    /\ extension' = [extension EXCEPT ![home] = "delete"]
    /\ UNCHANGED <<home, migrations, pc, op, data, failures, provider, cluster>>

-----------------------------------------------------------------------------
(* The actuator.  One operation at a time runs for an Extension.           *)

Goto(s, from, to) == pc[s] = from /\ pc' = [pc EXCEPT ![s] = to]

\* Mutant: Restore is not handed on to Reconcile.
BeginAsAsked(s) ==
    /\ extension[s] \in {"reconcile", "restore", "migrate", "delete"}
    /\ Goto(s, "idle", IF extension[s] = "migrate" THEN "keep"
                       ELSE IF extension[s] = "delete" THEN "deleteMR"
                       ELSE IF extension[s] = "reconcile" THEN "read"
                       ELSE extension[s])
    /\ op' = [op EXCEPT ![s] = extension[s]]
    /\ UNCHANGED <<extension, data, failures, gardenlet, provider, cluster>>

\* Restore is Reconcile, ForceDelete is Delete, Migrate is Delete after the
\* ManagedResource has been told to keep its objects.
Begin(s) ==
    /\ extension[s] \in {"reconcile", "restore", "migrate", "delete"}
    /\ Goto(s, "idle", IF extension[s] = "migrate" THEN "keep"
                       ELSE IF extension[s] = "delete" THEN "deleteMR"
                       ELSE "read")
    /\ op' = [op EXCEPT ![s] = extension[s]]
    /\ UNCHANGED <<extension, data, failures, gardenlet, provider, cluster>>

\* Mutant: what has been rendered once is used again.
ReadCachedInput(s) ==
    /\ Goto(s, "read", "writeSecret")
    /\ data' = [data EXCEPT ![s] = IF secret[s] = 0 THEN list[s] ELSE secret[s]]
    /\ UNCHANGED <<extension, op, failures, gardenlet, provider, cluster>>

\* readAndRestrictFilterListSecretData and getShootResources, with the list
\* that GetFilterList of this seed's process returns.
ReadInput(s) ==
    /\ Goto(s, "read", "writeSecret")
    /\ data' = [data EXCEPT ![s] = list[s]]
    /\ UNCHANGED <<extension, op, failures, gardenlet, provider, cluster>>

\* managedresources.CreateForShoot: first the secret ...
WriteSecret(s) ==
    /\ Goto(s, "writeSecret", "writeMR")
    /\ secret' = [secret EXCEPT ![s] = data[s]]
    /\ UNCHANGED <<extension, op, data, failures, gardenlet, provider, mr, filter, shown>>

\* The operation has succeeded, unless something else is asked for by now.
Succeed(s, result) ==
    /\ extension' = [extension EXCEPT ![s] = IF @ = op[s] THEN result ELSE @]
    /\ op' = [op EXCEPT ![s] = "none"]
    /\ data' = [data EXCEPT ![s] = 0]

\* ... then the ManagedResource, with keepObjects = false.
WriteManagedResource(s) ==
    /\ Goto(s, "writeMR", "idle")
    /\ mr' = [mr EXCEPT ![s].there = TRUE, ![s].keep = FALSE]
    /\ Succeed(s, "ready")
    /\ UNCHANGED <<failures, gardenlet, provider, secret, filter,
                   shown>>

\* Mutant: Migrate is only Delete.
SkipKeepObjects(s) ==
    /\ Goto(s, "keep", "deleteMR")
    /\ UNCHANGED <<extension, op, data, failures, gardenlet, provider, cluster>>

\* Mutant: a ManagedResource that is already gone is an error.
KeepObjectsOrFail(s) ==
    /\ mr[s].there
    /\ Goto(s, "keep", "deleteMR")
    /\ mr' = [mr EXCEPT ![s].keep = TRUE]
    /\ UNCHANGED <<extension, op, data, failures, gardenlet, provider, secret, filter,
                   shown>>

\* managedresources.SetKeepObjects; a missing ManagedResource is no error.
SetKeepObjects(s) ==
    /\ Goto(s, "keep", "deleteMR")
    /\ mr' = [mr EXCEPT ![s].keep = mr[s].there]
    /\ UNCHANGED <<extension, op, data, failures, gardenlet, provider, secret, filter,
                   shown>>

\* managedresources.DeleteForShoot: the ManagedResource gets its deletion
\* timestamp and waits for the resource manager ...
DeleteManagedResource(s) ==
    /\ Goto(s, "deleteMR", "deleteSecret")
    /\ mr' = [mr EXCEPT ![s].deleted = mr[s].there]
    /\ UNCHANGED <<extension, op, data, failures, gardenlet, provider, secret, filter,
                   shown>>

\* Mutant: the secret is left to the resource manager.
LeaveSecret(s) ==
    /\ Goto(s, "deleteSecret", "wait")
    /\ UNCHANGED <<extension, op, data, failures, gardenlet, provider, cluster>>

\* ... and the secret is gone at once.
DeleteSecret(s) ==
    /\ Goto(s, "deleteSecret", "wait")
    /\ secret' = [secret EXCEPT ![s] = 0]
    /\ UNCHANGED <<extension, op, data, failures, gardenlet, provider, mr, filter, shown>>

\* Mutant: the deletion is not waited for.
DoNotWait(s) ==
    /\ Goto(s, "wait", "idle")
    /\ Succeed(s, IF op[s] = "migrate" THEN "migrated" ELSE "absent")
    /\ UNCHANGED <<failures, gardenlet, provider, cluster>>

\* managedresources.WaitUntilDeleted, and then the finalizer is removed.
WaitUntilDeleted(s) ==
    /\ ~mr[s].there
    /\ Goto(s, "wait", "idle")
    /\ Succeed(s, IF op[s] = "migrate" THEN "migrated" ELSE "absent")
    /\ UNCHANGED <<failures, gardenlet, provider, cluster>>

Stop(s) ==
    /\ failures < MaxFailures
    /\ failures' = failures + 1
    /\ pc' = [pc EXCEPT ![s] = "idle"]
    /\ op' = [op EXCEPT ![s] = "none"]
    /\ data' = [data EXCEPT ![s] = 0]

\* Mutant: an operation that has failed is not asked for again.
FailAndForget(s) ==
    /\ pc[s] # "idle" /\ Stop(s)
    /\ extension' = [extension EXCEPT ![s] = "ready"]
    /\ UNCHANGED <<gardenlet, provider, cluster>>

\* An error of any call, or the two minutes of WaitUntilDeleted: the
\* operation ends where it is, and is still asked for.
Fail(s) ==
    /\ pc[s] # "idle" /\ Stop(s)
    /\ UNCHANGED <<extension, gardenlet, provider, cluster>>

\* A crash or a rollout; Setup downloads before the controllers start again.
Restart(s) ==
    /\ Stop(s)
    /\ list' = [list EXCEPT ![s] = published]
    /\ UNCHANGED <<published, extension, gardenlet, cluster>>

-----------------------------------------------------------------------------
(* The resource manager of the control plane.                              *)

ApplyObjects(s) ==
    /\ mr[s].there /\ ~mr[s].deleted /\ secret[s] # 0
    /\ filter' = secret[s]
    /\ shown' = [shown EXCEPT ![s] = secret[s]]
    /\ UNCHANGED <<extension, pc, op, data, failures, gardenlet, provider, mr, secret>>

FinalizeManagedResource(s) ==
    /\ mr[s].deleted
    /\ mr' = [mr EXCEPT ![s] = Absent]
    /\ filter' = IF mr[s].keep THEN filter ELSE 0
    /\ UNCHANGED <<extension, pc, op, data, failures, gardenlet, provider, secret, shown>>

Actuator(s) ==
    \/ Begin(s) \/ ReadInput(s) \/ WriteSecret(s) \/ WriteManagedResource(s)
    \/ SetKeepObjects(s) \/ DeleteManagedResource(s) \/ DeleteSecret(s)
    \/ WaitUntilDeleted(s)

ResourceManager(s) == ApplyObjects(s) \/ FinalizeManagedResource(s)

Next ==
    \/ Publish \/ AskForReconcile \/ AskForMigration \/ MoveControlPlane
    \/ AskForDeletion
    \/ \E s \in Seed :
          Refresh(s) \/ Actuator(s) \/ Fail(s) \/ Restart(s) \/ ResourceManager(s)

\* The work queue retries, the controller resyncs every hour, the resource
\* manager and the gardenlet go on with what they have begun.  No seed need
\* ever refresh its list.
Fairness ==
    /\ WF_vars(AskForReconcile) /\ WF_vars(MoveControlPlane)
    /\ \A s \in Seed : WF_vars(Actuator(s)) /\ WF_vars(ApplyObjects(s))
                       /\ WF_vars(FinalizeManagedResource(s))

Spec == Init /\ [][Next]_vars

FairSpec == Spec /\ Fairness

-----------------------------------------------------------------------------
TypeOK ==
    /\ published \in 1 .. MaxVersion
    /\ list \in [Seed -> 1 .. MaxVersion]
    /\ home \in Seed
    /\ deleting \in BOOLEAN
    /\ extension \in [Seed -> {"absent", "ready", "reconcile", "restore", "migrate",
                               "migrated", "delete"}]
    /\ pc \in [Seed -> {"idle", "read", "writeSecret", "writeMR", "keep", "deleteMR",
                        "deleteSecret", "wait"}]
    /\ op \in [Seed -> {"none", "reconcile", "restore", "migrate", "delete"}]
    /\ data \in [Seed -> 0 .. MaxVersion]
    /\ mr \in [Seed -> [there : BOOLEAN, keep : BOOLEAN, deleted : BOOLEAN]]
    /\ secret \in [Seed -> 0 .. MaxVersion]
    /\ filter \in 0 .. MaxVersion
    /\ shown \in [Seed -> 0 .. MaxVersion]
    /\ migrations \in 0 .. MaxMigrations
    /\ failures \in 0 .. MaxFailures

\* Migrate waits until the ManagedResource is gone before it succeeds, so
\* the resource managers of two control planes never both look after the
\* objects in the shoot.
OneManager == \A s, t \in Seed : mr[s].there /\ mr[t].there => s = t

\* Delete and Migrate succeed only when they have cleaned up, however often
\* they were interrupted: a seed without the Extension has no ManagedResource
\* and no secret of it, and a deleted shoot has no filter.
NothingLeftBehind ==
    /\ \A s \in Seed : extension[s] = "absent" => ~mr[s].there /\ secret[s] = 0
    /\ (\A s \in Seed : extension[s] = "absent") => filter = 0

\* The filter in the shoot survives errors, crashes and migrations, and is
\* taken away only when the shoot is being deleted.  It is replaced only by the
\* seed that has the control plane, which never goes back behind what it has
\* itself deployed before, be it before another migration: rendering, secret and
\* ManagedResource are steps of their own, between which the list changes and
\* operations fail.  An older list can only come with a move, from a seed whose
\* process has not got the newer one.
Deployment == INSTANCE FilterDeployment

ImplementsDeployment == Deployment!Spec

\* The control plane's seed has itself deployed the list that its process has.
Latest == filter = list[home] /\ shown[home] = list[home]

\* Retries and resyncs bring the filter in the shoot up to the list that the
\* process on the control plane's seed has, once that no longer changes, unless
\* the shoot is deleted.
LatestFilterArrives == <>[](deleting \/ Latest)

\* A migration ends with the Extension gone from the old seed, and is not
\* stuck halfway by what failed in it.
MigrationCompletes ==
    \A s \in Seed : extension[s] = "migrate" ~> extension[s] = "absent"

\* A deletion ends with the Extension and the filter gone.
DeletionCompletes ==
    deleting ~> filter = 0 /\ \A s \in Seed : extension[s] = "absent"
=============================================================================
