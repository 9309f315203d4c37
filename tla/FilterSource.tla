------------------------------ MODULE FilterSource ------------------------------
(***************************************************************************)
(* Where the filters of a shoot come from: the downloader's Setup and its  *)
(* refreshes (filterlistprovider.go), the secrets that replace the         *)
(* download, the tag filters and the static filters, as Reconcile and      *)
(* readAndRestrictFilterListSecretData (actuator.go) bring them together,  *)
(* while users, the download server and crashes change everything.         *)
(*                                                                         *)
(* The slices that several reconciles share are module SharedFilterList.   *)
(***************************************************************************)
EXTENDS Naturals, Sequences, SequencesExt

CONSTANTS
    Networks,             \* the networks that net.ParseCIDR accepts
    NoNetwork,            \* text that it does not accept
    Documents,            \* what a secret's data key or the server may hold
    Configs,              \* the provider configurations of the Extension
    ServiceTagFilters,    \* egressFilter.tagFilters of the service
    RefreshPeriods,       \* subset of {"none", "short", "ok"}
    FilterListMaxEntries,
    MaxChanges            \* bound on what users, server and crashes do

Block == "BLOCK_ACCESS"
Allow == "ALLOW_ACCESS"

\* The entries of a list, and the tags each of them has.  Networks and policies
\* come unchecked from downloads and secrets.
Filter == [network : Networks \cup {NoNetwork}, policy : {Block, Allow, "other", ""},
           tags : SUBSET (STRING \X STRING)]

TagFilter == [name : STRING, values : SUBSET STRING, policy : {Block, Allow, "other", "", "none"}]

\* A document has an encoding and, when it is JSON at all, a sequence of
\* elements in one of the two formats; each has the entries in it.
Document == [state : {"document"}, encoding : {"plain", "gzip", "short", "truncated"},
             json : BOOLEAN,
             elements : Seq([format : {"v1", "v2"}, entries : Seq(Filter)])]

Config == [project : BOOLEAN, shoot : BOOLEAN, static : Seq(Filter),
           tagFilters : Seq(TagFilter)]

ASSUME SourceAssumption ==
    /\ NoNetwork \notin Networks
    /\ Documents \subseteq Document /\ Configs \subseteq Config
    /\ ServiceTagFilters \in Seq(TagFilter)
    /\ MaxChanges \in Nat

\* Secrets that do not exist, and that exist but cannot be used: no
\* permission, or without the data key.
Missing == [state |-> "missing"]
Unreadable == [state |-> "unreadable"]

VARIABLES
    served,                       \* what the download server serves
    projectSecret, shootSecret,   \* the secrets the configuration refers to
    cfg,                          \* the providerConfig of the Extension
    refreshPeriod,                \* downloaderConfig.refreshPeriod
    provider,                     \* "setup", "running" or "down"
    filterList,                   \* the list the downloader keeps
    pc,                           \* where Reconcile is
    taken,                        \* the providerConfig it has decoded
    source, data, list,           \* the source it uses, its text, the result
    deployed,                     \* the list in the secret and its config
    absent,                       \* ghost: secrets seen missing meanwhile
    changes

vars == <<served, projectSecret, shootSecret, cfg, refreshPeriod, provider, filterList,
          pc, taken, source, data, list, deployed, absent, changes>>
world == <<served, projectSecret, shootSecret, cfg, refreshPeriod, changes>>
process == <<provider, filterList>>

NoDocument == [state |-> "none"]
NoConfig == [state |-> "none"]
NotYet == [list |-> <<>>, cfg |-> NoConfig]

-----------------------------------------------------------------------------
(* Reading a list: parseFilterList, convertV2ToV1, parseSecretFilterList.  *)

EmptyFilter == [network |-> NoNetwork, policy |-> "", tags |-> {}]

\* An element of the other format is read as an empty one.
parseElement(e, format) ==
    IF e.format = format THEN e.entries
    ELSE IF format = "v1" THEN <<EmptyFilter>> ELSE <<>>

Failed == [ok |-> FALSE, list |-> <<>>]

\* The first element decides about the format.
parseFilterList(d) ==
    LET format  == IF d.elements = <<>> THEN "v1" ELSE d.elements[1].format
        filters == FlattenSeq([i \in DOMAIN d.elements |-> parseElement(d.elements[i], format)])
        unknown == \E i \in DOMAIN filters : filters[i].policy \notin {Block, Allow}
    IN  IF d.json /\ ~(format = "v2" /\ unknown)
        THEN [ok |-> TRUE, list |-> filters]
        ELSE Failed

\* gzip.NewReader tells text from compressed data only by the first ten
\* bytes: text that is shorter makes it fail.
parseSecretFilterList(d) ==
    IF d.encoding \in {"plain", "gzip"} THEN parseFilterList(d) ELSE Failed

\* At most FilterListMaxEntries entries, and every network is a CIDR.
Acceptable(filters) ==
    /\ Len(filters) <= FilterListMaxEntries
    /\ \A i \in DOMAIN filters : filters[i].network \in Networks

\* Mutant: a download is stored as it was parsed.
UncheckedDownload(d) ==
    IF d = Unreadable \/ d.encoding \in {"gzip", "truncated"} THEN Failed ELSE parseFilterList(d)

\* download: nothing is decompressed, but the networks are checked.
download(d) ==
    IF \/ d = Unreadable
       \/ d.encoding \in {"gzip", "truncated"}
       \/ ~Acceptable(parseFilterList(d).list)
    THEN Failed
    ELSE parseFilterList(d)

-----------------------------------------------------------------------------
(* Tag filters.                                                            *)

tagFilterMatches(filter, tagFilter) ==
    \E tag \in filter.tags : tag[1] = tagFilter.name /\ tag[2] \in tagFilter.values

\* The index of the last one that matches, or 0.
getMatchingTagFilterWithPolicy(filter, tagFilters) ==
    SelectLastInSeq(tagFilters, LAMBDA tagFilter : tagFilterMatches(filter, tagFilter))

overridden(filter, tagFilters) ==
    LET i == getMatchingTagFilterWithPolicy(filter, tagFilters) IN
    IF i # 0 /\ tagFilters[i].policy # "none"
    THEN [filter EXCEPT !.policy = tagFilters[i].policy]
    ELSE filter

filterByTags(filters, tagFilters) ==
    [i \in DOMAIN filters |-> overridden(filters[i], tagFilters)]

-----------------------------------------------------------------------------
\* ValidateProviderConfig, for what a shoot may configure here.
Valid(c) ==
    /\ ~(c.project /\ c.shoot)
    /\ Len(c.static) <= FilterListMaxEntries
    /\ \A i \in DOMAIN c.static :
          c.static[i].network \in Networks /\ c.static[i].policy \in {Block, Allow}

TagFilters(c) == ServiceTagFilters \o c.tagFilters

-----------------------------------------------------------------------------
Init ==
    /\ served \in Documents
    /\ projectSecret = Missing /\ shootSecret = Missing
    /\ cfg \in Configs
    /\ refreshPeriod \in RefreshPeriods
    /\ provider = "setup" /\ filterList = <<>>
    /\ pc = "idle" /\ taken = NoConfig
    /\ source = "none" /\ data = NoDocument /\ list = <<>>
    /\ deployed = NotYet
    /\ absent = {}
    /\ changes = 0

\* Users and the operator of the server change what the code reads, at any
\* time; the server may also be out of reach.
Change(var, values) ==
    /\ changes < MaxChanges
    /\ changes' = changes + 1
    /\ var' \in values \ {var}
    /\ UNCHANGED <<process, refreshPeriod, pc, taken, source, data, list, deployed>>

ChangeServed ==
    /\ Change(served, Documents \cup {Unreadable})
    /\ UNCHANGED <<projectSecret, shootSecret, cfg>>

ChangeProjectSecret ==
    /\ Change(projectSecret, Documents \cup {Missing, Unreadable})
    /\ UNCHANGED <<served, shootSecret, cfg>>

ChangeShootSecret ==
    /\ Change(shootSecret, Documents \cup {Missing, Unreadable})
    /\ UNCHANGED <<served, projectSecret, cfg>>

ChangeConfig ==
    /\ Change(cfg, Configs)
    /\ UNCHANGED <<served, projectSecret, shootSecret>>

-----------------------------------------------------------------------------
(* The downloader.                                                         *)

\* NewActuator calls Setup before the manager starts its controllers.
SetupSucceeds ==
    /\ provider = "setup" /\ download(served).ok /\ refreshPeriod # "short"
    /\ provider' = "running"
    /\ filterList' = download(served).list
    /\ UNCHANGED <<world, pc, taken, source, data, list, deployed>>

\* No first download, or a period below minRefreshPeriod: the process ends.
SetupFails ==
    /\ provider = "setup" /\ (~download(served).ok \/ refreshPeriod = "short")
    /\ provider' = "down"
    /\ UNCHANGED <<world, filterList, pc, taken, source, data, list, deployed>>

Restart ==
    /\ provider = "down"
    /\ provider' = "setup"
    /\ UNCHANGED <<world, filterList, pc, taken, source, data, list, deployed>>

\* Mutant: the list that a refresh has fetched is not stored.
RefreshForgets ==
    /\ provider = "running" /\ refreshPeriod = "ok" /\ download(served).ok
    /\ UNCHANGED <<world, process, pc, taken, source, data, list, deployed>>

\* The ticker's downloadAndStore; one that fails changes nothing.
Refresh ==
    /\ provider = "running" /\ refreshPeriod = "ok" /\ download(served).ok
    /\ filterList' = download(served).list
    /\ UNCHANGED <<world, provider, pc, taken, source, data, list, deployed>>

-----------------------------------------------------------------------------
(* Reconcile.                                                              *)

Forget ==
    /\ pc' = "idle" /\ taken' = NoConfig
    /\ source' = "none" /\ data' = NoDocument /\ list' = <<>>

\* Mutant: the controllers do not wait for Setup.
BeginEarly ==
    /\ pc = "idle"
    /\ taken' = cfg
    /\ pc' = "download"
    /\ UNCHANGED <<world, process, source, data, list, deployed>>

\* The configuration is validated, whatever admission has let through.
Begin ==
    /\ provider = "running" /\ pc = "idle"
    /\ taken' = cfg
    /\ pc' = IF ~Valid(cfg) THEN "error"
             ELSE IF cfg.shoot THEN "shoot"
             ELSE IF cfg.project THEN "project"
             ELSE "download"
    /\ UNCHANGED <<world, process, source, data, list, deployed>>

\* Mutant: every error of the client falls through.
FallThroughOnError(from, secret, next) ==
    /\ pc = from /\ secret \in {Missing, Unreadable}
    /\ pc' = next
    /\ UNCHANGED <<world, process, taken, source, data, list, deployed>>

\* readShootFilterList, readProjectFilterList: NotFound falls through ...
FallThrough(from, secret, next) ==
    /\ pc = from /\ secret = Missing
    /\ pc' = next
    /\ UNCHANGED <<world, process, taken, source, data, list, deployed>>

\* ... every other error ends the reconcile, that of the parser too ...
SecretFails(from, secret) ==
    /\ pc = from /\ secret # Missing
    /\ secret # Unreadable => ~parseSecretFilterList(secret).ok
    /\ pc' = "error"
    /\ data' = secret
    /\ UNCHANGED <<world, process, taken, source, list, deployed>>

\* Mutant: the secret adds to the downloaded list.
AppendSecret(from, secret) ==
    /\ pc = from /\ secret \notin {Missing, Unreadable}
    /\ parseSecretFilterList(secret).ok
    /\ pc' = "deploy"
    /\ source' = from
    /\ data' = secret
    /\ list' = filterList \o taken.static
                 \o filterByTags(parseSecretFilterList(secret).list, TagFilters(taken))
    /\ UNCHANGED <<world, process, taken, deployed>>

\* ... and a list is used instead of the downloaded one.
UseSecret(from, secret) ==
    /\ pc = from /\ secret \notin {Missing, Unreadable}
    /\ parseSecretFilterList(secret).ok
    /\ pc' = "deploy"
    /\ source' = from
    /\ data' = secret
    /\ list' = taken.static
                 \o filterByTags(parseSecretFilterList(secret).list, TagFilters(taken))
    /\ UNCHANGED <<world, process, taken, deployed>>

ReadShootSecret ==
    \/ FallThrough("shoot", shootSecret, IF taken.project THEN "project" ELSE "download")
    \/ SecretFails("shoot", shootSecret)
    \/ UseSecret("shoot", shootSecret)

ReadProjectSecret ==
    \/ FallThrough("project", projectSecret, "download")
    \/ SecretFails("project", projectSecret)
    \/ UseSecret("project", projectSecret)

\* combineDownloadedAndStaticFilters
UseDownload ==
    /\ pc = "download"
    /\ pc' = "deploy"
    /\ source' = "download"
    /\ list' = filterByTags(filterList, TagFilters(taken)) \o taken.static
    /\ UNCHANGED <<world, process, taken, data, deployed>>

Deploy ==
    /\ pc = "deploy"
    /\ deployed' = [list |-> list, cfg |-> taken]
    /\ Forget
    /\ UNCHANGED <<world, process>>

\* The request goes back to the work queue.
GiveUp ==
    /\ pc = "error"
    /\ Forget
    /\ UNCHANGED <<world, process, deployed>>

\* The process dies: the downloaded list and the reconcile are lost.
Crash ==
    /\ changes < MaxChanges /\ provider = "running"
    /\ changes' = changes + 1
    /\ provider' = "down" /\ filterList' = <<>>
    /\ Forget
    /\ UNCHANGED <<served, projectSecret, shootSecret, cfg, refreshPeriod, deployed>>

Reconcile == Begin \/ ReadShootSecret \/ ReadProjectSecret \/ UseDownload \/ Deploy \/ GiveUp

Provide == SetupSucceeds \/ SetupFails \/ Restart

Step ==
    \/ ChangeServed \/ ChangeProjectSecret \/ ChangeShootSecret \/ ChangeConfig \/ Crash
    \/ Provide \/ Refresh
    \/ Reconcile

\* The secrets that were missing at some moment of the current reconcile.
Observe ==
    absent' = IF pc' = "idle" THEN {}
              ELSE absent \cup (IF shootSecret' = Missing THEN {"shoot"} ELSE {})
                          \cup (IF projectSecret' = Missing THEN {"project"} ELSE {})

Next == Step /\ Observe

Spec == Init /\ [][Next]_vars

\* The kubelet restarts the process, the ticker ticks, the controller
\* resyncs every hour and retries what failed.
FairSpec ==
    /\ Spec
    /\ WF_vars(Provide /\ Observe) /\ WF_vars(Refresh /\ Observe)
    /\ WF_vars(Reconcile /\ Observe)

-----------------------------------------------------------------------------
Sources == {"shoot", "project", "download"}

TypeOK ==
    /\ served \in Documents \cup {Unreadable}
    /\ {projectSecret, shootSecret} \subseteq Documents \cup {Missing, Unreadable}
    /\ cfg \in Configs /\ taken \in Configs \cup {NoConfig}
    /\ refreshPeriod \in RefreshPeriods
    /\ provider \in {"setup", "running", "down"}
    /\ pc \in Sources \cup {"idle", "deploy", "error"}
    /\ pc # "idle" => provider = "running" /\ taken \in Configs
    /\ source \in Sources \cup {"none"} /\ (source = "none" <=> pc # "deploy")
    /\ data \in Documents \cup {NoDocument, Unreadable}
    /\ absent \subseteq {"shoot", "project"}
    /\ changes \in 0 .. MaxChanges

\* A secret that exists throughout a reconcile is never passed over for a
\* source of lower priority: not because it cannot be read, and not because
\* it is corrupt (readAndRestrictFilterListSecretData).
FallbackOnlyWhenMissing ==
    pc = "deploy" =>
        /\ taken.shoot /\ source # "shoot" => "shoot" \in absent
        /\ taken.project /\ source = "download" => "project" \in absent

\* What the downloader keeps in memory stays a list that download accepts,
\* through refreshes that fail, restarts and crashes.
DownloadStaysAcceptable == provider = "running" => Acceptable(filterList)

\* The tag filters, the way the documentation tells them: each one that
\* matches decides anew, and one without a policy for the original.
PolicyAfter(e, tagFilters) ==
    FoldLeft(LAMBDA policy, f : IF ~tagFilterMatches(e, f) THEN policy
                                ELSE IF f.policy = "none" THEN e.policy ELSE f.policy,
             e.policy, tagFilters)

WellFormed(d) ==
    /\ d.json /\ d.encoding # "truncated"
    /\ \A i \in DOMAIN d.elements : \A k \in DOMAIN d.elements[i].entries :
          d.elements[i].entries[k].policy \in {Block, Allow}

\* The entries of a document in the format of its first element.
Written(d) ==
    UNION { ToSet(d.elements[i].entries) :
              i \in { j \in DOMAIN d.elements : d.elements[j].format = d.elements[1].format } }

Meaningful(filters) == { f \in filters : f.network \in Networks /\ f.policy \in {Block, Allow} }

\* docs/usage/shoot-networking-filter.md, Merge Behavior, for a source d.
Documented(c, d) ==
    Meaningful(ToSet(c.static)
                 \cup { [e EXCEPT !.policy = PolicyAfter(e, TagFilters(c))] : e \in Written(d) })

\* What Reconcile deploys is made of one source only, with the policies the
\* tag filters give its entries, and of the static filters of the same
\* configuration as they stand; no two sources are mixed.
DeployedIsOneSource ==
    deployed # NotYet =>
        \E d \in Documents :
            d.json /\ Meaningful(ToSet(deployed.list)) = Documented(deployed.cfg, d)

SecretInUse ==
    IF cfg.shoot /\ shootSecret # Missing THEN shootSecret
    ELSE IF cfg.project THEN projectSecret
    ELSE Missing

CurrentSource == IF SecretInUse = Missing THEN served ELSE SecretInUse

\* When nothing changes any more, refreshes, retries and resyncs bring the
\* filters that the configuration asks for into the shoot: a secret that is
\* created late replaces the download, and one that is deleted gives it back.
\* The configuration has to be valid and its lists readable.
DocumentedArrives ==
    <>[](/\ refreshPeriod = "ok" /\ download(served).ok
         /\ Valid(cfg)
         /\ SecretInUse \in Documents \cup {Missing}
         /\ SecretInUse # Missing => WellFormed(SecretInUse) /\ SecretInUse.encoding # "short"
         => /\ deployed # NotYet
            /\ Meaningful(ToSet(deployed.list)) = Documented(cfg, CurrentSource))

\* actuator.go, parseSecretFilterList: what is not gzip data "is fine" as
\* plain text, so that a reconcile does not fail on a plain list.
PlainListsAreRead ==
    pc = "error" /\ data \in Documents => ~(WellFormed(data) /\ data.encoding # "gzip")
=============================================================================
