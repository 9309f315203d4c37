---------------------- MODULE ExtensionLifecycle_proofs ----------------------
(***************************************************************************)
(* Proofs about the life of an Extension, for any number of seeds,         *)
(* versions, migrations and failures.                                      *)
(***************************************************************************)
EXTENDS ExtensionLifecycle, TLAPS

Deletes == {"deleteMR", "deleteSecret", "wait"}
Writes == {"read", "writeSecret", "writeMR"}

\* Nothing of the Extension is on this seed.
Quiet(s) ==
    /\ extension[s] = "absent"
    /\ pc[s] = "idle" /\ op[s] = "none"
    /\ mr[s] = Absent
    /\ secret[s] = 0

\* Only the control plane's seed has anything of the Extension, and not even
\* that one when the Extension has been migrated or deleted.
Alone ==
    /\ \A s \in Seed : s # home => Quiet(s)
    /\ extension[home] \in {"migrated", "absent"}
         => pc[home] = "idle" /\ mr[home] = Absent /\ secret[home] = 0

\* What is going on fits what is asked for.
InStep ==
    /\ pc[home] = "idle" <=> op[home] = "none"
    /\ pc[home] \in Writes => op[home] \in {"reconcile", "restore"}
    /\ pc[home] = "keep" => op[home] = "migrate"
    /\ pc[home] \in Deletes => op[home] \in {"migrate", "delete"}
    /\ op[home] \in {"restore", "migrate", "delete"} => extension[home] = op[home]
    /\ extension[home] \in {"delete", "absent"} => deleting
    /\ extension[home] \in {"migrate", "migrated", "restore"} => ~deleting

\* How far the ManagedResource has been taken down.
Marks ==
    /\ ~mr[home].there => mr[home] = Absent
    /\ mr[home].deleted => extension[home] \in {"migrate", "delete"}
    /\ mr[home].keep => extension[home] = "migrate"
    /\ mr[home].deleted /\ extension[home] = "migrate" => mr[home].keep
    /\ op[home] \in {"reconcile", "restore"} => ~mr[home].deleted /\ ~mr[home].keep
    /\ pc[home] \in Deletes /\ op[home] = "migrate" /\ mr[home].there => mr[home].keep
    /\ pc[home] \in {"deleteSecret", "wait"} /\ mr[home].there => mr[home].deleted
    /\ pc[home] = "wait" => secret[home] = 0
    /\ filter # 0 /\ ~mr[home].there => extension[home] \in {"restore", "migrate", "migrated"}

\* Versions go from the server to the list of a process, and at home on to the
\* rendered resources, the secret and the shoot, and are never older further up.
Versions ==
    /\ \A s \in Seed : shown[s] <= list[s] /\ list[s] <= published
    /\ secret[home] # 0 => shown[home] <= secret[home] /\ secret[home] <= list[home]
    /\ pc[home] = "writeSecret"
         => /\ shown[home] <= data[home] /\ data[home] <= list[home]
            /\ secret[home] <= data[home] /\ data[home] # 0

IInv == Alone /\ InStep /\ Marks /\ Versions

\* Every variable keeps its type, whatever the actuator, the gardenlet and
\* the resource manager do.
THEOREM LifecycleTyped == Spec => []TypeOK
  <1>1. Init => TypeOK
    <2> SUFFICES ASSUME Init PROVE TypeOK
      OBVIOUS
    <2> USE LifecycleAssumption DEF Init
    <2>1. extension \in [Seed -> {"absent", "ready", "reconcile", "restore", "migrate",
                                 "migrated", "delete"}]
      <3>1. \A s \in Seed : (IF s = home THEN "reconcile" ELSE "absent")
                            \in {"absent", "ready", "reconcile", "restore", "migrate",
                                 "migrated", "delete"}
        OBVIOUS
      <3> QED
        BY <3>1
    <2>2. mr \in [Seed -> [there : BOOLEAN, keep : BOOLEAN, deleted : BOOLEAN]]
      BY DEF Absent
    <2>3. /\ published \in 1 .. MaxVersion /\ filter \in 0 .. MaxVersion
          /\ list \in [Seed -> 1 .. MaxVersion] /\ shown \in [Seed -> 0 .. MaxVersion]
          /\ migrations \in 0 .. MaxMigrations /\ failures \in 0 .. MaxFailures
      OBVIOUS
    <2>4. data \in [Seed -> 0 .. MaxVersion] /\ secret \in [Seed -> 0 .. MaxVersion]
      OBVIOUS
    <2>5. /\ home \in Seed /\ deleting \in BOOLEAN
          /\ pc \in [Seed -> {"idle", "read", "writeSecret", "writeMR", "keep", "deleteMR",
                              "deleteSecret", "wait"}]
          /\ op \in [Seed -> {"none", "reconcile", "restore", "migrate", "delete"}]
      OBVIOUS
    <2> QED
      BY <2>1, <2>2, <2>3, <2>4, <2>5 DEF TypeOK
  <1>2. TypeOK /\ [Next]_vars => TypeOK'
    <2> SUFFICES ASSUME TypeOK, [Next]_vars PROVE TypeOK'
      OBVIOUS
    <2> USE LifecycleAssumption DEF TypeOK, gardenlet, provider, cluster
    <2>1. CASE Publish
      BY <2>1 DEF Publish
    <2>2. CASE AskForReconcile
      BY <2>2 DEF AskForReconcile
    <2>3. CASE AskForMigration
      BY <2>3 DEF AskForMigration
    <2>4. CASE MoveControlPlane
      BY <2>4 DEF MoveControlPlane
    <2>5. CASE AskForDeletion
      BY <2>5 DEF AskForDeletion
    <2>6. ASSUME NEW s \in Seed, Begin(s) PROVE TypeOK'
      BY <2>6 DEF Begin, Goto
    <2>7. ASSUME NEW s \in Seed, ReadInput(s) PROVE TypeOK'
      BY <2>7 DEF ReadInput, Goto
    <2>8. ASSUME NEW s \in Seed, WriteSecret(s) PROVE TypeOK'
      BY <2>8 DEF WriteSecret, Goto
    <2>9. ASSUME NEW s \in Seed, WriteManagedResource(s) PROVE TypeOK'
      <3>1. mr' \in [Seed -> [there : BOOLEAN, keep : BOOLEAN, deleted : BOOLEAN]]
        BY <2>9 DEF WriteManagedResource
      <3>2. extension' \in [Seed -> {"absent", "ready", "reconcile", "restore", "migrate",
                                     "migrated", "delete"}]
        BY <2>9 DEF WriteManagedResource, Succeed
      <3> QED
        BY <2>9, <3>1, <3>2 DEF WriteManagedResource, Goto, Succeed
    <2>10. ASSUME NEW s \in Seed, SetKeepObjects(s) PROVE TypeOK'
      BY <2>10 DEF SetKeepObjects, Goto
    <2>11. ASSUME NEW s \in Seed, DeleteManagedResource(s) PROVE TypeOK'
      BY <2>11 DEF DeleteManagedResource, Goto
    <2>12. ASSUME NEW s \in Seed, DeleteSecret(s) PROVE TypeOK'
      BY <2>12 DEF DeleteSecret, Goto
    <2>13. ASSUME NEW s \in Seed, WaitUntilDeleted(s) PROVE TypeOK'
      BY <2>13 DEF WaitUntilDeleted, Goto, Succeed
    <2>14. ASSUME NEW s \in Seed, Fail(s) \/ Restart(s) PROVE TypeOK'
      <3>1. failures' \in 0 .. MaxFailures
        BY <2>14 DEF Fail, Restart, Stop
      <3>2. data' \in [Seed -> 0 .. MaxVersion]
        BY <2>14 DEF Fail, Restart, Stop
      <3>3. list' \in [Seed -> 1 .. MaxVersion] /\ published' = published
        BY <2>14 DEF Fail, Restart
      <3> QED
        BY <2>14, <3>1, <3>2, <3>3 DEF Fail, Restart, Stop
    <2>15. ASSUME NEW s \in Seed, ResourceManager(s) PROVE TypeOK'
      <3>1. CASE ApplyObjects(s)
        BY <3>1 DEF ApplyObjects
      <3>2. CASE FinalizeManagedResource(s)
        <4>1. mr' \in [Seed -> [there : BOOLEAN, keep : BOOLEAN, deleted : BOOLEAN]]
          BY <3>2 DEF FinalizeManagedResource, Absent
        <4> QED
          BY <3>2, <4>1 DEF FinalizeManagedResource
      <3> QED
        BY <2>15, <3>1, <3>2 DEF ResourceManager
    <2>16. ASSUME NEW s \in Seed, Refresh(s) PROVE TypeOK'
      BY <2>16 DEF Refresh
    <2>17. CASE UNCHANGED vars
      BY <2>17 DEF vars
    <2> QED
      BY <2>1, <2>2, <2>3, <2>4, <2>5, <2>6, <2>7, <2>8, <2>9, <2>10, <2>11, <2>12,
         <2>13, <2>14, <2>15, <2>16, <2>17 DEF Next, Actuator
  <1> QED
    BY <1>1, <1>2, PTL DEF Spec

\* The actuator and the resource manager only ever find work on the home
\* seed; elsewhere a process may only be restarted or get a newer list.
LEMMA WorkIsAtHome ==
  ASSUME TypeOK, IInv, NEW s \in Seed, Actuator(s) \/ Fail(s) \/ ResourceManager(s)
  PROVE  s = home
  <1>1. ASSUME s # home PROVE FALSE
    <2>1. Quiet(s)
      BY <1>1 DEF IInv, Alone
    <2>2. ~Actuator(s)
      BY <2>1 DEF Quiet, Actuator, Begin, ReadInput, WriteSecret, WriteManagedResource,
                  SetKeepObjects, DeleteManagedResource, DeleteSecret, WaitUntilDeleted, Goto
    <2>3. ~Fail(s) /\ ~ResourceManager(s)
      BY <2>1 DEF Quiet, Fail, ResourceManager, ApplyObjects, FinalizeManagedResource, Absent
    <2> QED
      BY <2>2, <2>3
  <1> QED
    BY <1>1

\* Init establishes the invariant.
LEMMA IInvInit == Init => IInv
  <1> SUFFICES ASSUME Init PROVE IInv
    OBVIOUS
  <1>1. home \in Seed /\ \A s \in Seed : pc[s] = "idle" /\ op[s] = "none" /\ mr[s] = Absent
                                       /\ secret[s] = 0 /\ data[s] = 0
    BY LifecycleAssumption DEF Init
  <1>2. extension[home] = "reconcile" /\ \A s \in Seed : s # home => extension[s] = "absent"
    BY LifecycleAssumption DEF Init
  <1>3. filter = 0 /\ published = 1 /\ \A s \in Seed : list[s] = 1 /\ shown[s] = 0
    BY DEF Init
  <1> QED
    BY <1>1, <1>2, <1>3 DEF IInv, Alone, Quiet, InStep, Marks, Versions, Absent, Writes, Deletes

\* A newer list on the server or on a seed.
LEMMA NewListKeepsIInv ==
  ASSUME TypeOK, IInv, Publish \/ \E s \in Seed : Refresh(s)
  PROVE  IInv'
  <1>1. /\ UNCHANGED <<extension, pc, op, data, failures, home, deleting, migrations,
                       mr, secret, filter, shown>>
        /\ \A s \in Seed : list[s] <= list'[s] /\ list'[s] <= published'
    BY DEF Publish, Refresh, gardenlet, cluster, IInv, Versions, TypeOK
  <1>2. Versions'
    <2>1. /\ \A s \in Seed : list[s] \in Nat /\ list'[s] \in Nat /\ shown[s] \in Nat
                             /\ data[s] \in Nat /\ secret[s] \in Nat
          /\ home \in Seed
      BY <1>1 DEF TypeOK, Publish, Refresh
    <2> QED
      BY <1>1, <2>1 DEF IInv, Versions
  <1> QED
    BY <1>1, <1>2 DEF IInv, Alone, Quiet, InStep, Marks

\* A restart loses what its process was doing, on whatever seed it is.
LEMMA RestartKeepsIInv ==
  ASSUME TypeOK, IInv, NEW s \in Seed, Restart(s)
  PROVE  IInv'
  <1>1. /\ UNCHANGED <<extension, home, deleting, mr, secret, filter, shown, published>>
        /\ \A t \in Seed : list[t] <= list'[t] /\ list'[t] <= published
        /\ pc'[s] = "idle" /\ op'[s] = "none"
        /\ \A t \in Seed \ {s} : pc'[t] = pc[t] /\ op'[t] = op[t] /\ data'[t] = data[t]
    BY DEF Restart, Stop, gardenlet, cluster, IInv, Versions, TypeOK
  <1>2. Versions'
    <2>1. /\ \A t \in Seed : list[t] \in Nat /\ list'[t] \in Nat /\ shown[t] \in Nat
                             /\ data[t] \in Nat /\ secret[t] \in Nat
          /\ home \in Seed
      BY DEF TypeOK, Restart
    <2> QED
      BY <1>1, <2>1 DEF IInv, Versions
  <1>3. Alone' /\ Marks' /\ InStep'
    <2>1. home \in Seed
      BY DEF TypeOK
    <2> QED
      BY <1>1, <2>1 DEF IInv, Alone, Quiet, InStep, Marks, Writes, Deletes
  <1> QED
    BY <1>2, <1>3 DEF IInv

\* The steps of the gardenlet and of the users.
LEMMA GardenletKeepsIInv ==
  ASSUME TypeOK, IInv,
         \/ AskForReconcile \/ AskForMigration
         \/ MoveControlPlane \/ AskForDeletion
  PROVE  IInv'
  <1> USE DEF IInv, gardenlet, provider, cluster
  <1>2. CASE AskForReconcile
    <2>1. extension'[home] = "reconcile" /\ \A s \in Seed : s # home => extension'[s] = extension[s]
      BY <1>2 DEF AskForReconcile, TypeOK
    <2> QED
      BY <1>2, <2>1 DEF AskForReconcile, Alone, Quiet, InStep, Marks, Versions, TypeOK
  <1>3. CASE AskForMigration
    <2>1. extension'[home] = "migrate" /\ \A s \in Seed : s # home => extension'[s] = extension[s]
      BY <1>3 DEF AskForMigration, TypeOK
    <2> QED
      BY <1>3, <2>1 DEF AskForMigration, Alone, Quiet, InStep, Marks, Versions, TypeOK
  <1>4. CASE AskForDeletion
    <2>1. extension'[home] = "delete" /\ \A s \in Seed : s # home => extension'[s] = extension[s]
      BY <1>4 DEF AskForDeletion, TypeOK
    <2> QED
      BY <1>4, <2>1 DEF AskForDeletion, Alone, Quiet, InStep, Marks, Versions, TypeOK
  <1>5. CASE MoveControlPlane
    <2>1. PICK s \in Seed \ {home} :
             home' = s /\ extension' = [extension EXCEPT ![home] = "absent", ![s] = "restore"]
      BY <1>5 DEF MoveControlPlane
    <2>2. /\ extension[home] = "migrated" /\ op[home] = "none"
          /\ UNCHANGED <<published, list, deleting, pc, op, data, mr, secret, filter, shown>>
      BY <1>5 DEF MoveControlPlane, Alone, InStep
    <2>3. Quiet(s)
      BY DEF Alone
    <2>4. \A t \in Seed : t # s => Quiet(t)'
      BY <2>1, <2>2 DEF Alone, Quiet, TypeOK
    <2>5. extension'[s] = "restore"
      BY <2>1 DEF TypeOK
    <2> QED
      BY <2>1, <2>2, <2>3, <2>4, <2>5 DEF Quiet, Alone, InStep, Marks, Versions, Absent, TypeOK, Writes, Deletes
  <1> QED
    BY <1>2, <1>3, <1>4, <1>5

\* A step at home leaves the other seeds quiet.
LEMMA OthersStayQuiet ==
  ASSUME TypeOK, IInv, Actuator(home) \/ Fail(home) \/ ResourceManager(home)
  PROVE  home' = home /\ \A s \in Seed : s # home => Quiet(s)'
  <1> USE DEF IInv, Alone, Quiet, TypeOK, gardenlet, provider, cluster, Goto, Succeed
  <1>1. CASE Begin(home) \/ ReadInput(home) \/ WriteSecret(home) \/ Fail(home)
    BY <1>1 DEF Begin, ReadInput, WriteSecret, Fail, Stop
  <1>2. CASE WriteManagedResource(home) \/ SetKeepObjects(home)
    BY <1>2 DEF WriteManagedResource, SetKeepObjects
  <1>3. CASE DeleteManagedResource(home) \/ DeleteSecret(home) \/ WaitUntilDeleted(home)
    BY <1>3 DEF DeleteManagedResource, DeleteSecret, WaitUntilDeleted
  <1>4. CASE ResourceManager(home)
    BY <1>4 DEF ResourceManager, ApplyObjects, FinalizeManagedResource
  <1> QED
    BY <1>1, <1>2, <1>3, <1>4 DEF Actuator

\* The steps of Reconcile and Restore, and those that begin or fail.
LEMMA ReconcileKeepsIInv ==
  ASSUME TypeOK, IInv,
         \/ Begin(home) \/ Fail(home) \/ ReadInput(home)
         \/ WriteSecret(home) \/ WriteManagedResource(home)
  PROVE  IInv'
  <1>0. home' = home /\ home \in Seed /\ \A s \in Seed : s # home => Quiet(s)'
    BY OthersStayQuiet DEF Actuator, TypeOK
  <1> USE <1>0 DEF IInv, gardenlet, provider, cluster, Goto
  <1>1. CASE Begin(home)
    <2>1. /\ pc[home] = "idle" /\ extension[home] \in {"reconcile", "restore", "migrate", "delete"}
          /\ pc'[home] = IF extension[home] = "migrate" THEN "keep"
                         ELSE IF extension[home] = "delete" THEN "deleteMR" ELSE "read"
          /\ op'[home] = extension[home]
          /\ UNCHANGED <<published, list, shown, deleting, extension, mr, secret, filter>>
      BY <1>1 DEF Begin, TypeOK
    <2> QED
      BY <2>1 DEF Alone, InStep, Marks, Versions, Writes, Deletes
  <1>2. CASE Fail(home)
    <2>1. /\ pc[home] # "idle" /\ pc'[home] = "idle" /\ op'[home] = "none"
          /\ UNCHANGED <<published, list, shown, deleting, extension, mr, secret, filter>>
      BY <1>2 DEF Fail, Stop, TypeOK
    <2> QED
      BY <2>1 DEF Alone, InStep, Marks, Versions, Writes, Deletes
  <1>3. CASE ReadInput(home)
    <2>1. /\ pc[home] = "read" /\ pc'[home] = "writeSecret" /\ data'[home] = list[home]
          /\ UNCHANGED <<published, list, shown, deleting, extension, op, mr, secret, filter>>
      BY <1>3 DEF ReadInput, TypeOK
    <2>2. list[home] \in Nat /\ list[home] # 0
      BY DEF TypeOK
    <2> QED
      BY <2>1, <2>2 DEF Alone, InStep, Marks, Versions, Writes, Deletes, TypeOK
  <1>4. CASE WriteSecret(home)
    <2>1. /\ pc[home] = "writeSecret" /\ pc'[home] = "writeMR" /\ secret'[home] = data[home]
          /\ UNCHANGED <<published, list, shown, deleting, extension, op, data, mr, filter>>
      BY <1>4 DEF WriteSecret, TypeOK
    <2> QED
      BY <2>1 DEF Alone, InStep, Marks, Versions, Writes, Deletes
  <1>5. CASE WriteManagedResource(home)
    <2>1. /\ pc[home] = "writeMR" /\ pc'[home] = "idle" /\ op'[home] = "none"
          /\ extension'[home] = IF extension[home] = op[home] THEN "ready" ELSE extension[home]
          /\ mr'[home].there /\ ~mr'[home].keep /\ mr'[home].deleted = mr[home].deleted
          /\ UNCHANGED <<published, list, shown, deleting, secret, filter>>
      BY <1>5 DEF WriteManagedResource, Succeed, TypeOK
    <2>2. op[home] \in {"reconcile", "restore"}
      BY <2>1 DEF InStep, Writes
    <2> QED
      BY <2>1, <2>2 DEF Alone, InStep, Marks, Versions, Writes, Deletes
  <1> QED
    BY <1>1, <1>2, <1>3, <1>4, <1>5

\* The steps of Migrate and Delete, and those of the resource manager.
LEMMA DeleteKeepsIInv ==
  ASSUME TypeOK, IInv,
         \/ SetKeepObjects(home) \/ DeleteManagedResource(home) \/ DeleteSecret(home)
         \/ WaitUntilDeleted(home) \/ ResourceManager(home)
  PROVE  IInv'
  <1>0. home' = home /\ home \in Seed /\ \A s \in Seed : s # home => Quiet(s)'
    BY OthersStayQuiet DEF Actuator, TypeOK
  <1>m. mr[home] \in [there : BOOLEAN, keep : BOOLEAN, deleted : BOOLEAN]
    BY DEF TypeOK
  <1> USE <1>0 DEF IInv, gardenlet, provider, cluster, Goto
  <1>1. CASE SetKeepObjects(home)
    <2>1. /\ pc[home] = "keep" /\ pc'[home] = "deleteMR"
          /\ mr'[home] = [mr[home] EXCEPT !.keep = mr[home].there]
          /\ UNCHANGED <<published, list, shown, deleting, extension, op, data, secret, filter>>
      BY <1>1 DEF SetKeepObjects, TypeOK
    <2>2. op[home] = "migrate" /\ extension[home] = "migrate"
      BY <2>1 DEF InStep
    <2>3. /\ mr'[home].there = mr[home].there /\ mr'[home].keep = mr[home].there
          /\ mr'[home].deleted = mr[home].deleted
          /\ ~mr[home].there => mr'[home] = Absent
      BY <1>m, <2>1 DEF Marks, Absent
    <2> QED
      BY <2>1, <2>2, <2>3 DEF Alone, InStep, Marks, Versions, Writes, Deletes
  <1>2. CASE DeleteManagedResource(home)
    <2>1. /\ pc[home] = "deleteMR" /\ pc'[home] = "deleteSecret"
          /\ mr'[home] = [mr[home] EXCEPT !.deleted = mr[home].there]
          /\ UNCHANGED <<published, list, shown, deleting, extension, op, data, secret, filter>>
      BY <1>2 DEF DeleteManagedResource, TypeOK
    <2>2. op[home] \in {"migrate", "delete"} /\ extension[home] = op[home]
      BY <2>1 DEF InStep, Deletes
    <2>3. /\ mr'[home].there = mr[home].there /\ mr'[home].keep = mr[home].keep
          /\ mr'[home].deleted = mr[home].there
          /\ ~mr[home].there => mr'[home] = Absent
      BY <1>m, <2>1 DEF Marks, Absent
    <2> QED
      BY <2>1, <2>2, <2>3 DEF Alone, InStep, Marks, Versions, Writes, Deletes
  <1>3. CASE DeleteSecret(home)
    <2>1. /\ pc[home] = "deleteSecret" /\ pc'[home] = "wait" /\ secret'[home] = 0
          /\ UNCHANGED <<published, list, shown, deleting, extension, op, data, mr, filter>>
      BY <1>3 DEF DeleteSecret, TypeOK
    <2>2. op[home] \in {"migrate", "delete"}
      BY <2>1 DEF InStep, Deletes, TypeOK
    <2> QED
      BY <2>1, <2>2 DEF Alone, InStep, Marks, Versions, Writes, Deletes
  <1>4. CASE WaitUntilDeleted(home)
    <2>1. /\ pc[home] = "wait" /\ pc'[home] = "idle" /\ op'[home] = "none" /\ ~mr[home].there
          /\ extension'[home] = IF extension[home] # op[home] THEN extension[home]
                                ELSE IF op[home] = "migrate" THEN "migrated" ELSE "absent"
          /\ UNCHANGED <<published, list, shown, deleting, mr, secret, filter>>
      BY <1>4 DEF WaitUntilDeleted, Succeed, TypeOK
    <2>2. op[home] \in {"migrate", "delete"} /\ extension[home] = op[home]
      BY <2>1 DEF InStep, Deletes
    <2> QED
      BY <2>1, <2>2 DEF Alone, InStep, Marks, Versions, Writes, Deletes, Absent
  <1>5. CASE ApplyObjects(home)
    <2>1. /\ mr[home].there /\ secret[home] # 0 /\ filter' = secret[home]
          /\ shown' = [shown EXCEPT ![home] = secret[home]]
          /\ UNCHANGED <<published, list, deleting, extension, pc, op, data, mr, secret>>
      BY <1>5 DEF ApplyObjects
    <2>2. secret[home] \in Nat /\ \A s \in Seed : shown'[s] = IF s = home THEN secret[s] ELSE shown[s]
      BY <2>1 DEF TypeOK
    <2> QED
      BY <2>1, <2>2 DEF Alone, InStep, Marks, Versions, Writes, Deletes
  <1>6. CASE FinalizeManagedResource(home)
    <2>1. /\ mr[home].deleted /\ mr'[home] = Absent
          /\ filter' = IF mr[home].keep THEN filter ELSE 0
          /\ UNCHANGED <<published, list, shown, deleting, extension, pc, op, data, secret>>
      BY <1>6 DEF FinalizeManagedResource, TypeOK
    <2> QED
      BY <2>1 DEF Alone, InStep, Marks, Versions, Writes, Deletes, Absent
  <1> QED
    BY <1>1, <1>2, <1>3, <1>4, <1>5, <1>6 DEF ResourceManager

\* The invariant holds: what fails, is retried or migrated keeps to it.
LEMMA IInvHolds == Spec => []IInv
  <1>1. TypeOK /\ IInv /\ [Next]_vars => IInv'
    <2> SUFFICES ASSUME TypeOK, IInv, [Next]_vars PROVE IInv'
      OBVIOUS
    <2>1. ASSUME NEW s \in Seed, Actuator(s) \/ Fail(s) \/ ResourceManager(s) PROVE IInv'
      <3>1. s = home
        BY <2>1, WorkIsAtHome
      <3> QED
        BY <2>1, <3>1, ReconcileKeepsIInv, DeleteKeepsIInv DEF Actuator
    <2>2. CASE UNCHANGED vars
      BY <2>2 DEF vars, IInv, Alone, Quiet, InStep, Marks, Versions
    <2> QED
      BY <2>1, <2>2, GardenletKeepsIInv, NewListKeepsIInv, RestartKeepsIInv DEF Next
  <1> QED
    BY <1>1, IInvInit, LifecycleTyped, PTL DEF Spec

\* Never do the resource managers of two control planes look after the
\* objects in the shoot: Migrate waits until the ManagedResource is gone.
THEOREM OnlyOneManager == Spec => []OneManager
  <1>1. TypeOK /\ IInv => OneManager
    BY DEF IInv, Alone, Quiet, OneManager, Absent
  <1> QED
    BY <1>1, IInvHolds, LifecycleTyped, PTL

\* Delete and Migrate leave nothing on the seed, and a deleted shoot has no
\* filter, however often they were interrupted.
THEOREM NothingStaysBehind == Spec => []NothingLeftBehind
  <1>1. TypeOK /\ IInv => NothingLeftBehind
    BY DEF IInv, Alone, Quiet, Marks, NothingLeftBehind, Absent, TypeOK
  <1> QED
    BY <1>1, IInvHolds, LifecycleTyped, PTL

\* Every step is one that the owner of the shoot may see: the control plane's seed
\* deploys a list no older than what it has deployed before, or the control plane
\* moves, or the filter goes because the shoot is being deleted.
THEOREM LifecycleImplementsDeployment == Spec => ImplementsDeployment
  <1>1. Init => Deployment!Init
    BY DEF Init, Deployment!Init
  <1>2. TypeOK /\ IInv /\ [Next]_vars => [Deployment!Next]_(Deployment!vars)
    <2> SUFFICES ASSUME TypeOK, IInv, [Next]_vars PROVE [Deployment!Next]_(Deployment!vars)
      OBVIOUS
    <2> USE DEF Deployment!Next, Deployment!vars, gardenlet, provider, cluster
    <2>1. CASE Publish \/ AskForReconcile \/ AskForMigration
      BY <2>1 DEF Publish, AskForReconcile, AskForMigration
    <2>2. CASE MoveControlPlane
      <3>1. ~deleting /\ home' \in Seed /\ UNCHANGED <<list, shown, filter, deleting>>
        BY <2>2 DEF MoveControlPlane, IInv, InStep
      <3> QED
        BY <3>1 DEF Deployment!Move
    <2>3. CASE AskForDeletion
      BY <2>3 DEF AskForDeletion, Deployment!AskForDeletion
    <2>4. ASSUME NEW s \in Seed, Actuator(s) \/ Fail(s) PROVE UNCHANGED Deployment!vars
      BY <2>4 DEF Actuator, Begin, ReadInput, WriteSecret, WriteManagedResource, Fail,
                  SetKeepObjects, DeleteManagedResource, DeleteSecret, WaitUntilDeleted
    <2>5. ASSUME NEW s \in Seed, Refresh(s) \/ Restart(s)
          PROVE  [Deployment!Next]_(Deployment!vars)
      <3>1. /\ list' = [list EXCEPT ![s] = published]
            /\ UNCHANGED <<home, shown, filter, deleting>>
        BY <2>5 DEF Refresh, Restart
      <3>2. CASE list[s] = published
        BY <3>1, <3>2 DEF TypeOK
      <3>3. CASE list[s] # published
        <4>1. list[s] \in Nat /\ published \in Nat /\ published <= MaxVersion
          BY LifecycleAssumption DEF TypeOK
        <4>2. list[s] <= published
          BY DEF IInv, Versions
        <4>3. published \in list[s] + 1 .. MaxVersion
          BY <3>3, <4>1, <4>2, LifecycleAssumption
        <4> QED
          BY <3>1, <4>3 DEF Deployment!GetNewerList
      <3> QED
        BY <3>2, <3>3
    <2>6. ASSUME NEW s \in Seed, ResourceManager(s) PROVE [Deployment!Next]_(Deployment!vars)
      <3>1. s = home /\ UNCHANGED <<list, home, deleting>>
        BY <2>6, WorkIsAtHome DEF ResourceManager, ApplyObjects, FinalizeManagedResource
      <3>2. CASE ApplyObjects(s)
        <4>1. filter' \in (shown[home] .. list[home]) \ {0}
          BY <3>1, <3>2 DEF ApplyObjects, IInv, Versions, TypeOK
        <4>2. shown' = [shown EXCEPT ![home] = filter']
          BY <3>1, <3>2 DEF ApplyObjects
        <4> QED
          BY <3>1, <4>1, <4>2 DEF Deployment!Deploy
      <3>3. CASE FinalizeManagedResource(s)
        <4>1. (mr[home].keep \/ deleting) /\ UNCHANGED shown
          BY <3>1, <3>3 DEF FinalizeManagedResource, IInv, Marks, InStep
        <4> QED
          BY <3>1, <3>3, <4>1 DEF FinalizeManagedResource, Deployment!Remove
      <3> QED
        BY <2>6, <3>2, <3>3 DEF ResourceManager
    <2>7. CASE UNCHANGED vars
      BY <2>7 DEF vars
    <2> QED
      BY <2>1, <2>2, <2>3, <2>4, <2>5, <2>6, <2>7 DEF Next
  <1> QED
    BY <1>1, <1>2, IInvHolds, LifecycleTyped, PTL DEF Spec, ImplementsDeployment, Deployment!Spec
-----------------------------------------------------------------------------
(* What the liveness properties come to rest in.                           *)

\* What LatestFilterArrives wants, while neither the list of the control plane's
\* seed changes nor the control plane moves.
LatestUntilChange ==
    [][(deleting \/ Latest) /\ home' = home /\ list'[home] = list[home]
         => (deleting \/ Latest)']_vars

\* Once a seed has brought its own list into the shoot, no resync, no failure, no
\* restart, no migration that has begun and no resource manager undoes that,
\* until this seed gets another list or the control plane has left it.
THEOREM LatestStays == Spec => LatestUntilChange
  <1>1. TypeOK /\ [Deployment!Next]_(Deployment!vars)
          => [(deleting \/ Latest) /\ home' = home /\ list'[home] = list[home]
                => (deleting \/ Latest)']_vars
    <2> SUFFICES ASSUME TypeOK, [Deployment!Next]_(Deployment!vars),
                        deleting \/ Latest, home' = home, list'[home] = list[home]
                 PROVE  (deleting \/ Latest)'
      OBVIOUS
    <2> USE DEF Latest
    <2>1. CASE Deployment!Deploy
      BY <2>1 DEF Deployment!Deploy, TypeOK
    <2>2. CASE \E s \in Seed : Deployment!GetNewerList(s)
      BY <2>2 DEF Deployment!GetNewerList
    <2>3. CASE Deployment!Move \/ Deployment!AskForDeletion \/ Deployment!Remove
      BY <2>3 DEF Deployment!Move, Deployment!AskForDeletion, Deployment!Remove, TypeOK
    <2>4. CASE UNCHANGED Deployment!vars
      BY <2>4 DEF Deployment!vars
    <2> QED
      BY <2>1, <2>2, <2>3, <2>4 DEF Deployment!Next
  <1> QED
    BY <1>1, LifecycleImplementsDeployment, LifecycleTyped, PTL
       DEF ImplementsDeployment, Deployment!Spec, LatestUntilChange

\* What DeletionCompletes wants.
Gone == filter = 0 /\ \A s \in Seed : extension[s] = "absent"

GoneForGood == [][Gone => Gone']_vars

\* A deleted Extension does not come back: no operation that was interrupted, no
\* other control plane and no resource manager brings anything into the shoot.
THEOREM GoneStays == Spec => GoneForGood
  <1>1. TypeOK /\ IInv /\ [Next]_vars => [Gone => Gone']_vars
    <2> SUFFICES ASSUME TypeOK, IInv, [Next]_vars, Gone PROVE Gone'
      OBVIOUS
    <2>1. /\ \A s \in Seed : extension[s] = "absent" /\ pc[s] = "idle" /\ mr[s] = Absent
          /\ home \in Seed
      BY DEF Gone, IInv, Alone, Quiet, TypeOK
    <2>2. CASE Publish \/ (\E s \in Seed : Refresh(s) \/ Restart(s)) \/ UNCHANGED vars
      BY <2>2 DEF Publish, Refresh, Restart, vars, cluster, Gone
    <2>3. CASE AskForReconcile \/ AskForMigration \/ MoveControlPlane \/ AskForDeletion
      BY <2>1, <2>3 DEF AskForReconcile, AskForMigration, MoveControlPlane, AskForDeletion
    <2>4. ASSUME NEW s \in Seed, Actuator(s) \/ Fail(s) PROVE FALSE
      BY <2>1, <2>4 DEF Actuator, Begin, ReadInput, WriteSecret, WriteManagedResource, Fail, Goto,
         SetKeepObjects, DeleteManagedResource, DeleteSecret, WaitUntilDeleted
    <2>5. ASSUME NEW s \in Seed, ResourceManager(s) PROVE FALSE
      BY <2>1, <2>5 DEF ResourceManager, ApplyObjects, FinalizeManagedResource, Absent
    <2> QED
      BY <2>2, <2>3, <2>4, <2>5 DEF Next
  <1> QED
    BY <1>1, IInvHolds, LifecycleTyped, PTL DEF Spec, GoneForGood
=============================================================================
