------------------------------ MODULE SeedCluster ------------------------------
(***************************************************************************)
(* The filter of a cluster that is a seed, the garden's runtime cluster,   *)
(* or both.  Up to three programs deploy it there, each with a             *)
(* ManagedResource of its own, all under the same names in kube-system:    *)
(* the extension for an Extension of class seed, the extension for one of  *)
(* class garden (actuator.go), and the runtime networking filter           *)
(* (cmd/gardener-runtime-networking-filter).  Processes start, crash and   *)
(* are rolled out again; their filter list comes from a provider.          *)
(***************************************************************************)
EXTENDS Naturals

CONSTANTS
    MaxVersion,      \* bound on the versions of the filter list
    MaxChanges       \* bound on what users and surroundings change, and on the
                     \* crashes and the operations that fail

ASSUME SeedClusterAssumption ==
    MaxVersion \in Nat \ {0} /\ MaxChanges \in Nat

VARIABLES
    garden,      \* the cluster runs a garden
    ext,         \* the Extension of each class
    provider,    \* how the programs are configured to get the filter list
    latest,      \* the version of the list that is configured or served
    resolves,    \* the hostnames of the load balancers can be looked up
    mounted,     \* the keys of the OAuth2 secret that is mounted, {} if outdated
    secret,      \* the version in the secret the runtime filter reads, 0 if absent
    pc,          \* where each process is
    memory,      \* the version of the list in the memory of its provider
    held,        \* the processes that have read credentials that are valid
    carried,     \* the resources a process has rendered
    mr,          \* the ManagedResources
    content,     \* the resources in them
    applied,     \* the ManagedResources whose status lists the objects
    filter,      \* the secret and the DaemonSet in kube-system
    changes

process == <<pc, memory, held, carried>>
cluster == <<mr, content, applied, filter>>
settings == <<garden, provider, latest, resolves, mounted, secret>>
inputs == <<settings, changes>>
vars == <<inputs, ext, process, cluster>>

Class == {"seed", "garden"}
Owner == Class \cup {"runtime"}

\* Resources made of a version of the list, with the addresses of the load
\* balancers taken out or not; Nothing is the empty list of resources.
Resources == [version : 0..MaxVersion, open : BOOLEAN]
Nothing == [version |-> 0, open |-> TRUE]

\* What getAccessToken asks of the files that Complete has read: the client's
\* id, and its secret or a certificate, which comes with its key.
Key == {"clientID", "clientSecret", "client.crt.pem", "client.key.pem"}
HasToken(keys) ==
    /\ "clientID" \in keys
    /\ {"clientSecret", "client.crt.pem"} \cap keys # {}
    /\ "client.crt.pem" \in keys => "client.key.pem" \in keys
Secrets == {Key \ {"clientSecret"}, Key \ {"client.key.pem"}}

Init ==
    /\ garden \in BOOLEAN
    /\ ext \in [Class -> {"absent", "present"}]
    /\ ext["garden"] = "present" => garden
    /\ provider \in {"static", "download"}
    /\ latest = 1
    /\ resolves = TRUE
    /\ mounted = {"clientID", "clientSecret"}
    /\ secret \in {0, 1}
    /\ pc = [p \in Owner |-> "down"]
    /\ memory = [p \in Owner |-> 0]
    /\ held = {}
    /\ carried = [c \in Class |-> Nothing]
    /\ mr = [o \in Owner |-> "absent"]
    /\ content = [o \in Owner |-> Nothing]
    /\ applied = {}
    /\ filter = Nothing
    /\ changes = 0

-----------------------------------------------------------------------------
(* Users, gardenlet and gardener-operator, and the surroundings.           *)

Change ==
    /\ changes < MaxChanges
    /\ changes' = changes + 1
    /\ UNCHANGED <<provider, process, cluster>>

\* gardener-operator makes an Extension of class garden in a garden's cluster.
Enable(c) ==
    /\ ext[c] = "absent" /\ (c = "garden" => garden)
    /\ ext' = [ext EXCEPT ![c] = "present"]
    /\ Change /\ UNCHANGED <<garden, latest, resolves, mounted, secret>>

Disable(c) ==
    /\ ext[c] = "present"
    /\ ext' = [ext EXCEPT ![c] = "deleting"]
    /\ Change /\ UNCHANGED <<garden, latest, resolves, mounted, secret>>

\* The cluster becomes the garden's, or ceases to be.
ChangeGarden ==
    /\ ext["garden"] = "absent"
    /\ garden' = ~garden
    /\ Change /\ UNCHANGED <<ext, latest, resolves, mounted, secret>>

\* A new list is served, or written into the configuration.
PublishList ==
    /\ latest < MaxVersion
    /\ latest' = latest + 1
    /\ Change /\ UNCHANGED <<garden, ext, resolves, mounted, secret>>

ChangeLookup ==
    /\ resolves' = ~resolves
    /\ Change /\ UNCHANGED <<garden, ext, latest, mounted, secret>>

LoseSecret ==
    /\ secret # 0
    /\ secret' = 0
    /\ Change /\ UNCHANGED <<garden, ext, latest, resolves, mounted>>

\* The server no longer takes the credentials ...
RotateCredentials ==
    /\ provider # "static" /\ mounted # {}
    /\ mounted' = {}
    /\ held' = {}
    /\ changes < MaxChanges /\ changes' = changes + 1
    /\ UNCHANGED <<garden, ext, provider, latest, resolves, secret, pc, memory,
                   carried, cluster>>

\* ... until others are mounted, which may be incomplete at first.
MountCredentials ==
    /\ ~HasToken(mounted)
    /\ mounted' \in Secrets
    /\ UNCHANGED <<garden, ext, provider, latest, resolves, secret, changes, process, cluster>>

-----------------------------------------------------------------------------
(* The processes: the two deployments of the extension, and the runtime    *)
(* filter.                                                                 *)

Running(p) == pc[p] # "down"

Goto(p, from, to) == pc[p] = from /\ pc' = [pc EXCEPT ![p] = to]

Stop(p) ==
    /\ pc' = [pc EXCEPT ![p] = "down"]
    /\ memory' = [memory EXCEPT ![p] = 0]
    /\ held' = held \ {p}
    /\ carried' = [c \in Class |-> IF c = p THEN Nothing ELSE carried[c]]

\* Mutant: a process whose first download fails starts all the same.
StartAnyway(p) ==
    /\ Goto(p, "down", "idle")
    /\ memory' = [memory EXCEPT ![p] = IF provider = "static" \/ HasToken(mounted) THEN latest ELSE 0]
    /\ held' = IF HasToken(mounted) THEN held \cup {p} ELSE held
    /\ UNCHANGED <<inputs, ext, carried, cluster>>

\* The provider takes the configured list, or downloads one with a token.
Setup(p) ==
    /\ provider = "static" \/ HasToken(mounted)
    /\ memory' = [memory EXCEPT ![p] = latest]

\* Complete reads the configuration and the OAuth2 secret, once.  A Setup that
\* fails ends the process, which is then still down.
Start(p) ==
    /\ Goto(p, "down", "idle")
    /\ Setup(p)
    /\ held' = IF HasToken(mounted) THEN held \cup {p} ELSE held
    /\ UNCHANGED <<inputs, ext, carried, cluster>>

\* The ticker of the download provider; a download that fails changes nothing.
Refresh(p) ==
    /\ Running(p) /\ provider = "download"
    /\ p \in held
    /\ memory' = [memory EXCEPT ![p] = latest]
    /\ UNCHANGED <<inputs, ext, pc, held, carried, cluster>>

\* The pod is replaced when its configuration or its OAuth2 secret changes.
Rollout(p) ==
    /\ Running(p)
    /\ IF provider = "static" THEN memory[p] # latest ELSE HasToken(mounted) /\ p \notin held
    /\ Stop(p)
    /\ UNCHANGED <<inputs, ext, cluster>>

Crash(p) ==
    /\ Running(p)
    /\ changes < MaxChanges /\ changes' = changes + 1
    /\ Stop(p)
    /\ UNCHANGED <<settings, ext, cluster>>

-----------------------------------------------------------------------------
(* The actuator, for an Extension that is not a shoot's.                   *)

\* AddToManager: a deployment is for shoots and seeds, or for the garden.
ExtensionClasses(c) == IF c = "garden" THEN {"garden"} ELSE {"shoot", "seed"}

\* Mutant: every deployment takes the name of the seed's ManagedResource.
OneName(c) == "seed"

getRuntimeOrSeedManagedResourceName(c) ==
    IF "seed" \in ExtensionClasses(c) THEN "seed" ELSE "garden"

Rendered(c, open) ==
    IF getRuntimeOrSeedManagedResourceName(c) = "seed" /\ garden
    THEN Nothing
    ELSE [version |-> memory[c], open |-> open]

\* Mutant: the load balancers found at the first reconcile are used again.
RenderCached(c) ==
    /\ ext[c] = "present"
    /\ Goto(c, "idle", "write")
    /\ carried' = [carried EXCEPT ![c] =
          Rendered(c, IF content[c] = Nothing THEN resolves ELSE content[c].open)]
    /\ UNCHANGED <<inputs, ext, memory, held, cluster>>

\* Reconcile reads the provider's list, looks the load balancers up, an address
\* that is not found staying on the list, and asks if this is the garden's
\* cluster: a seed that is gets no resources of its own.
Render(c) ==
    /\ ext[c] = "present"
    /\ Goto(c, "idle", "write")
    /\ carried' = [carried EXCEPT ![c] = Rendered(c, resolves)]
    /\ UNCHANGED <<inputs, ext, memory, held, cluster>>

CreateOrUpdate(o, resources) ==
    /\ mr' = [mr EXCEPT ![o] = IF @ = "absent" THEN "live" ELSE @]
    /\ content' = [content EXCEPT ![o] = resources]
    /\ UNCHANGED <<applied, filter>>

CreateForSeed(c) ==
    /\ Goto(c, "write", "idle")
    /\ CreateOrUpdate(getRuntimeOrSeedManagedResourceName(c), carried[c])
    /\ carried' = [carried EXCEPT ![c] = Nothing]
    /\ UNCHANGED <<inputs, ext, memory, held>>

\* Mutant: a ManagedResource that does not exist is an error.
DeleteExisting(c) ==
    LET name == getRuntimeOrSeedManagedResourceName(c) IN
    /\ ext[c] = "deleting" /\ mr[name] # "absent"
    /\ Goto(c, "idle", "wait")
    /\ mr' = [mr EXCEPT ![name] = "deleting"]
    /\ UNCHANGED <<inputs, ext, memory, held, carried, content, applied, filter>>

DeleteForSeed(c) ==
    LET name == getRuntimeOrSeedManagedResourceName(c) IN
    /\ ext[c] = "deleting"
    /\ Goto(c, "idle", "wait")
    /\ mr' = [mr EXCEPT ![name] = IF @ = "absent" THEN @ ELSE "deleting"]
    /\ UNCHANGED <<inputs, ext, memory, held, carried, content, applied, filter>>

\* Mutant: the deletion is over once the ManagedResource has been deleted.
DoNotWait(c) ==
    /\ Goto(c, "wait", "idle")
    /\ ext' = [ext EXCEPT ![c] = "absent"]
    /\ UNCHANGED <<inputs, memory, held, carried, cluster>>

\* Delete returns; the controller takes its finalizer away.
WaitUntilDeleted(c) ==
    /\ mr[getRuntimeOrSeedManagedResourceName(c)] = "absent"
    /\ Goto(c, "wait", "idle")
    /\ ext' = [ext EXCEPT ![c] = "absent"]
    /\ UNCHANGED <<inputs, memory, held, carried, cluster>>

\* Mutant: what has been rendered survives the error.
FailAndKeep(c) ==
    /\ pc[c] \in {"write", "wait"}
    /\ pc' = [pc EXCEPT ![c] = "idle"]
    /\ changes < MaxChanges /\ changes' = changes + 1
    /\ UNCHANGED <<settings, ext, memory, held, carried, cluster>>

\* An error of the API server, or the two minutes of Delete.
Fail(c) ==
    /\ pc[c] \in {"write", "wait"}
    /\ pc' = [pc EXCEPT ![c] = "idle"]
    /\ carried' = [carried EXCEPT ![c] = Nothing]
    /\ changes < MaxChanges /\ changes' = changes + 1
    /\ UNCHANGED <<settings, ext, memory, held, cluster>>

-----------------------------------------------------------------------------
(* The runtime filter.  Any error ends it.                                 *)

\* One round of the loop: ReadSecretData, GetShootResources, Create, Sleep.
UpdateManagedResource ==
    /\ pc["runtime"] = "idle" /\ secret # 0
    /\ CreateOrUpdate("runtime", [version |-> secret, open |-> FALSE])
    /\ UNCHANGED <<inputs, ext, process>>

\* Without the secret, the process ends, and runs into the same again.
Panic ==
    /\ pc["runtime"] = "idle" /\ secret = 0
    /\ Stop("runtime")
    /\ UNCHANGED <<inputs, ext, cluster>>

-----------------------------------------------------------------------------
(* The resource manager of the seed.  No ManagedResource keeps objects.    *)

Apply(o) ==
    /\ mr[o] = "live" /\ content[o] # Nothing
    /\ filter' = content[o]
    /\ applied' = applied \cup {o}
    /\ UNCHANGED <<inputs, ext, process, mr, content>>

\* Objects that are no longer in the ManagedResource are deleted.
DeleteObsolete(o) ==
    /\ mr[o] = "live" /\ content[o] = Nothing /\ o \in applied
    /\ filter' = Nothing
    /\ applied' = applied \ {o}
    /\ UNCHANGED <<inputs, ext, process, mr, content>>

Remove(o) ==
    /\ mr[o] = "deleting"
    /\ filter' = IF o \in applied THEN Nothing ELSE filter
    /\ applied' = applied \ {o}
    /\ mr' = [mr EXCEPT ![o] = "absent"]
    /\ content' = [content EXCEPT ![o] = Nothing]
    /\ UNCHANGED <<inputs, ext, process>>

-----------------------------------------------------------------------------
Environment ==
    \/ \E c \in Class : Enable(c) \/ Disable(c)
    \/ ChangeGarden \/ PublishList \/ ChangeLookup \/ LoseSecret
    \/ RotateCredentials \/ MountCredentials
    \/ \E p \in Owner : Crash(p)
    \/ \E c \in Class : Fail(c)

Operate(c) ==
    Render(c) \/ CreateForSeed(c) \/ DeleteForSeed(c) \/ WaitUntilDeleted(c)

RunLoop == UpdateManagedResource \/ Panic

Synchronize(o) == Apply(o) \/ DeleteObsolete(o) \/ Remove(o)

Next ==
    \/ Environment
    \/ \E p \in Owner : Start(p) \/ Rollout(p)
    \/ \E c \in Class : Refresh(c)
    \/ \E c \in Class : Operate(c)
    \/ RunLoop
    \/ \E o \in Owner : Synchronize(o)

Spec == Init /\ [][Next]_vars

\* The kubelet restarts processes and rollouts take place; the ticker, the
\* resync of 60 minutes (add.go) and the resource manager go on.  Nothing is
\* assumed of users, of the surroundings, and of failures.
Fairness ==
    /\ \A p \in Owner : WF_vars(Start(p) \/ Rollout(p))
    /\ \A c \in Class : WF_vars(Operate(c)) /\ WF_vars(Refresh(c))
    /\ WF_vars(RunLoop)
    /\ \A o \in Owner : WF_vars(Synchronize(o))

FairSpec == Spec /\ Fairness

-----------------------------------------------------------------------------
TypeOK ==
    /\ garden \in BOOLEAN /\ resolves \in BOOLEAN /\ mounted \subseteq Key
    /\ ext \in [Class -> {"absent", "present", "deleting"}]
    /\ provider \in {"static", "download"}
    /\ latest \in 1..MaxVersion /\ secret \in 0..MaxVersion
    /\ pc \in [Owner -> {"down", "idle", "write", "wait"}]
    /\ pc["runtime"] \in {"down", "idle"}
    /\ memory \in [Owner -> 0..MaxVersion]
    /\ held \subseteq Owner /\ applied \subseteq Owner
    /\ carried \in [Class -> Resources]
    /\ \A c \in Class : carried[c] # Nothing => pc[c] = "write"
    /\ content \in [Owner -> Resources]
    /\ mr \in [Owner -> {"absent", "live", "deleting"}]
    /\ filter \in Resources
    /\ changes \in Nat

\* An Extension that is gone has left no ManagedResource behind, and objects in
\* kube-system belong to some ManagedResource that will take them away: through
\* crashes, timeouts, and three programs that overwrite each other's objects.
NothingLeftBehind ==
    /\ \A c \in Class : ext[c] = "absent" => mr[c] = "absent"
    /\ filter # Nothing => \E o \in applied : mr[o] # "absent"

\* The cluster loses its filter only when an Extension is deleted or when the
\* seed has left the filter to the garden: never by a restart, a download that
\* fails or the loss of the runtime filter's secret.
FilterIsKept ==
    [][filter # Nothing /\ filter' = Nothing =>
          \/ mr["seed"] = "live" /\ content["seed"] = Nothing /\ "seed" \in applied
          \/ \E c \in Class : ext[c] = "deleting"]_vars

\* The Extension whose filter the cluster is to have.
Wanted(c) == ext[c] = "present" /\ (c = "seed" => ~garden)

\* While an Extension is there, the filter comes back for good, whatever was
\* deleted, left to the other class, or overwritten by the runtime filter.
FilterReturns ==
    <>[](HasToken(mounted) /\ \E c \in Class : Wanted(c)) => <>[](filter # Nothing)

\* Without the runtime filter, the latest list arrives, with the load balancers
\* taken out if their hostnames can be looked up from some time on.
ListArrives ==
    <>[](/\ HasToken(mounted) /\ resolves /\ \E c \in Class : Wanted(c)
         /\ mr["runtime"] = "absent")
       => <>[](filter = [version |-> latest, open |-> TRUE])

\* A deletion completes.  The process does not start without the download, so
\* the credentials have to become valid even for that.
DeletionCompletes ==
    <>[]HasToken(mounted) => \A c \in Class : ext[c] = "deleting" ~> ext[c] = "absent"

\* StaticFilterList is what provider type static uses (types.go): what the
\* runtime filter deploys is the list of its provider.
RuntimeListIsProviders ==
    [][provider = "static" /\ content'["runtime"] # content["runtime"]
          => content'["runtime"].version = memory["runtime"]]_vars
=============================================================================
