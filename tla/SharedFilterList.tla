--------------------------- MODULE SharedFilterList ---------------------------
(***************************************************************************)
(* The filter list that a downloader keeps in memory and the reconciles    *)
(* that read it at the same time: DownloaderFilterListProvider             *)
(* (filterlistprovider.go) and the actuator's Reconcile down to            *)
(* generateEgressFilterValues (actuator.go, filter.go), for Extensions     *)
(* whose filters come from the download.  The process may be restarted,    *)
(* with another configuration of the service.                              *)
(*                                                                         *)
(* The lists are Go slices: a header of three words, pointing into an      *)
(* array that other slices may share.  append writes behind the length of  *)
(* the slice when the array has room there, and copies when it has not.    *)
(***************************************************************************)
EXTENDS Naturals, Sequences, FiniteSets

CONSTANTS
    Shoot,          \* the Extension objects
    Workers,        \* MaxConcurrentReconciles
    Download,       \* Download[v]: length and capacity of the v-th download
    ServiceTags,    \* ServiceTags[p]: those of the tag filters in the p-th
                    \* configuration of the service
    StaticLen,      \* StaticLen[s]: how many static filters Extension s has
    ShootTagLen,    \* ShootTagLen[s]: how many tag filters Extension s has
    TornReads       \* may GetFilterList run while the header is assigned?

Version == DOMAIN Download

Size == { z \in [len : Nat, cap : Nat] : z.len <= z.cap }

ASSUME SharedAssumption ==
    /\ Workers \in Nat \ {0}
    /\ Download \in Seq(Size) /\ Download # <<>>
    /\ ServiceTags \in Seq(Size) /\ ServiceTags # <<>>
    /\ StaticLen \in [Shoot -> Nat] /\ ShootTagLen \in [Shoot -> Nat]
    /\ TornReads \in BOOLEAN

\* Array v holds the v-th download; behind them come the tag filters of the
\* configurations.
TagArrays == { Len(Download) + p : p \in DOMAIN ServiceTags }
Arrays == Version \cup TagArrays

SizeOf(arr) == IF arr \in Version THEN Download[arr] ELSE ServiceTags[arr - Len(Download)]

\* An entry is known by the list it comes from and its place there.
Entries(origin, n) == [k \in 1 .. n |-> <<origin, k>>]

ShootTags(s) == Entries(<<"tag", s>>, ShootTagLen[s])
StaticFilters(s) == Entries(<<"static", s>>, StaticLen[s])
Contents(arr) == Entries(<<"shared", arr>>, SizeOf(arr).len)

Unused == <<"unused">>
OutOfBounds == <<"out of bounds">>

VARIABLES
    array,       \* the contents of the shared arrays
    service,     \* the one with the tag filters of the service
    filterList,  \* the version that p.filterList points to
    storing,     \* the version being assigned to p.filterList, or 0
    pc,          \* where the reconcile of each Extension is
    tags, list,  \* its slices tagFilters and combinedFilterList
    used,        \* the tag filters it has applied
    blocks,      \* the list as the first pass over it has read it
    deployed     \* what the last reconcile has put into the secret

vars == <<array, service, filterList, storing, pc, tags, list, used, blocks, deployed>>

\* A slice of a shared array, or of an array that no one else has.
Slice(arr, len, cap) == [shared |-> TRUE, arr |-> arr, len |-> len, cap |-> cap, own |-> <<>>]
Own(cells) == [shared |-> FALSE, arr |-> 1, len |-> Len(cells), cap |-> Len(cells),
               own |-> cells]

Nothing == [blocks |-> <<>>, allows |-> <<>>, tags |-> <<>>]

Fresh == [arr \in Arrays |->
            [k \in 1 .. SizeOf(arr).cap |->
               IF k <= SizeOf(arr).len THEN Contents(arr)[k] ELSE Unused]]

Init ==
    /\ array = Fresh
    /\ service \in TagArrays
    /\ filterList = 1              \* Setup downloads before the manager starts
    /\ storing = 0
    /\ pc = [s \in Shoot |-> "idle"]
    /\ tags = [s \in Shoot |-> Own(<<>>)]
    /\ list = [s \in Shoot |-> Own(<<>>)]
    /\ used = [s \in Shoot |-> <<>>]
    /\ blocks = [s \in Shoot |-> <<>>]
    /\ deployed = [s \in Shoot |-> Nothing]

-----------------------------------------------------------------------------
\* What the elements of a slice are now; behind its array anything is.
Read(slice) ==
    IF ~slice.shared THEN slice.own
    ELSE [k \in 1 .. slice.len |->
            IF k \in DOMAIN array[slice.arr] THEN array[slice.arr][k] ELSE OutOfBounds]

InPlace(slice, more) ==
    slice.shared /\ more # <<>> /\ slice.len + Len(more) <= slice.cap

\* append(slice, more...): the slice it returns ...
Appended(slice, more) ==
    IF more = <<>> THEN slice
    ELSE IF InPlace(slice, more) THEN [slice EXCEPT !.len = @ + Len(more)]
    ELSE Own(Read(slice) \o more)

\* ... and what it writes.
WritesOfAppend(slice, more) ==
    array' = IF ~InPlace(slice, more) THEN array
             ELSE [array EXCEPT ![slice.arr] =
                     [k \in DOMAIN @ |-> IF k > slice.len /\ k <= slice.len + Len(more)
                                         THEN more[k - slice.len] ELSE @[k]]]

-----------------------------------------------------------------------------
Busy == { s \in Shoot : pc[s] # "idle" }

Goto(s, from, to) == pc[s] = from /\ pc' = [pc EXCEPT ![s] = to]

TagFilters == Slice(service, SizeOf(service).len, SizeOf(service).cap)

\* Mutant: what append returns becomes the tag filters of the service.
StartAndKeepTags(s) ==
    /\ Cardinality(Busy) < Workers
    /\ Goto(s, "idle", "get")
    /\ LET kept == [TagFilters EXCEPT
                      !.len = Cardinality({ k \in DOMAIN array[service] :
                                              array[service][k] # Unused })] IN
       /\ tags' = [tags EXCEPT ![s] = Appended(kept, ShootTags(s))]
       /\ WritesOfAppend(kept, ShootTags(s))
    /\ UNCHANGED <<service, filterList, storing, list, used, blocks, deployed>>

\* tagFilters = append(tagFilters, internalShootConfig.EgressFilter.TagFilters...)
StartReconcile(s) ==
    /\ Cardinality(Busy) < Workers
    /\ Goto(s, "idle", "get")
    /\ tags' = [tags EXCEPT ![s] = Appended(TagFilters, ShootTags(s))]
    /\ WritesOfAppend(TagFilters, ShootTags(s))
    /\ UNCHANGED <<service, filterList, storing, list, used, blocks, deployed>>

\* Mutant: the list comes from a cache that may be out of date.
StaleHeaders == { Slice(v, Download[v].len, Download[v].cap) : v \in 1 .. filterList }

\* The three words of the header are those of the current list; while
\* another one is being assigned, each may be the old or the new word.
Headers ==
    LET readable == {filterList} \cup (IF storing = 0 THEN {} ELSE {storing}) IN
    { Slice(a, Download[l].len, Download[c].cap) : a, l, c \in readable }

\* downloadedFilterList := a.provider.GetFilterList()
GetFilterList(s) ==
    /\ storing = 0 \/ TornReads
    /\ Goto(s, "get", IF tags[s].len > 0 THEN "filter" ELSE "append")
    /\ \E header \in Headers : list' = [list EXCEPT ![s] = header]
    /\ UNCHANGED <<array, service, filterList, storing, tags, used, blocks, deployed>>

\* Mutant: the filters are overridden in the list itself.
FilterInPlace(s) ==
    /\ Goto(s, "filter", "append")
    /\ array' = [array EXCEPT ![list[s].arr] = [@ EXCEPT ![1] = Read(tags[s])[1]]]
    /\ used' = [used EXCEPT ![s] = Read(tags[s])]
    /\ UNCHANGED <<service, filterList, storing, tags, list, blocks, deployed>>

\* filterByTags makes a copy of exactly the length of the list.
FilterByTags(s) ==
    /\ Goto(s, "filter", "append")
    /\ list' = [list EXCEPT ![s] = Own(Read(list[s]))]
    /\ used' = [used EXCEPT ![s] = Read(tags[s])]
    /\ UNCHANGED <<array, service, filterList, storing, tags, blocks, deployed>>

\* append(downloadedFilterList, staticFilterList...)
AppendStatic(s) ==
    /\ Goto(s, "append", "collect")
    /\ list' = [list EXCEPT ![s] = Appended(list[s], StaticFilters(s))]
    /\ WritesOfAppend(list[s], StaticFilters(s))
    /\ UNCHANGED <<service, filterList, storing, tags, used, blocks, deployed>>

\* The first pass of generateEgressFilterValues reads the list ...
CollectBlocks(s) ==
    /\ Goto(s, "collect", "carve")
    /\ blocks' = [blocks EXCEPT ![s] = Read(list[s])]
    /\ UNCHANGED <<array, service, filterList, storing, tags, list, used, deployed>>

\* Mutant: the second pass asks the provider again.
CarveFromProvider(s) ==
    /\ Goto(s, "carve", "idle")
    /\ deployed' = [deployed EXCEPT ![s] =
                      [blocks |-> blocks[s], tags |-> used[s],
                       allows |-> Contents(filterList) \o StaticFilters(s)]]
    /\ tags' = [tags EXCEPT ![s] = Own(<<>>)]
    /\ list' = [list EXCEPT ![s] = Own(<<>>)]
    /\ used' = [used EXCEPT ![s] = <<>>]
    /\ blocks' = [blocks EXCEPT ![s] = <<>>]
    /\ UNCHANGED <<array, service, filterList, storing>>

\* ... and the second pass reads it again; the result is then deployed, and
\* the local variables are gone.
CarveAllowsAndDeploy(s) ==
    /\ Goto(s, "carve", "idle")
    /\ deployed' = [deployed EXCEPT ![s] =
                      [blocks |-> blocks[s], allows |-> Read(list[s]), tags |-> used[s]]]
    /\ tags' = [tags EXCEPT ![s] = Own(<<>>)]
    /\ list' = [list EXCEPT ![s] = Own(<<>>)]
    /\ used' = [used EXCEPT ![s] = <<>>]
    /\ blocks' = [blocks EXCEPT ![s] = <<>>]
    /\ UNCHANGED <<array, service, filterList, storing>>

\* Mutant: what a failed download returns is stored.
StoreFailedDownload ==
    /\ storing = 0
    /\ \/ filterList + 1 \in Version /\ storing' = filterList + 1 /\ UNCHANGED filterList
       \/ filterList' = 0 /\ UNCHANGED storing
    /\ UNCHANGED <<array, service, pc, tags, list, used, blocks, deployed>>

\* The goroutine of Setup: downloadAndStore assigns a slice of a new array,
\* one word after the other.  A failed download changes nothing.
BeginStore ==
    /\ storing = 0 /\ filterList + 1 \in Version
    /\ storing' = filterList + 1
    /\ UNCHANGED <<array, service, filterList, pc, tags, list, used, blocks, deployed>>

EndStore ==
    /\ storing # 0
    /\ filterList' = storing
    /\ storing' = 0
    /\ UNCHANGED <<array, service, pc, tags, list, used, blocks, deployed>>

\* The process ends at any time; a new one downloads the list that there is
\* then, and has its own memory.
Restart ==
    /\ array' = Fresh
    /\ service' \in TagArrays
    /\ filterList' \in { v \in Version : v > filterList /\ v > storing }
    /\ storing' = 0
    /\ pc' = [s \in Shoot |-> "idle"]
    /\ tags' = [s \in Shoot |-> Own(<<>>)]
    /\ list' = [s \in Shoot |-> Own(<<>>)]
    /\ used' = [s \in Shoot |-> <<>>]
    /\ blocks' = [s \in Shoot |-> <<>>]
    /\ UNCHANGED deployed

Next ==
    \/ \E s \in Shoot :
          \/ StartReconcile(s) \/ GetFilterList(s) \/ FilterByTags(s)
          \/ AppendStatic(s) \/ CollectBlocks(s) \/ CarveAllowsAndDeploy(s)
    \/ BeginStore
    \/ EndStore
    \/ Restart

Spec == Init /\ [][Next]_vars

-----------------------------------------------------------------------------
Cells(entries) == { entries[k] : k \in DOMAIN entries }

Cell ==
    UNION ({ Cells(Contents(arr)) : arr \in Arrays }
           \cup { Cells(ShootTags(s)) : s \in Shoot }
           \cup { Cells(StaticFilters(s)) : s \in Shoot }
           \cup {{Unused, OutOfBounds}})

SliceType == [shared : BOOLEAN, arr : Arrays, len : Nat, cap : Nat, own : Seq(Cell)]

TypeOK ==
    /\ array \in [Arrays -> Seq(Cell)]
    /\ service \in TagArrays
    /\ filterList \in Version
    /\ storing \in {0} \cup Version
    /\ pc \in [Shoot -> {"idle", "get", "filter", "append", "collect", "carve"}]
    /\ tags \in [Shoot -> SliceType]
    /\ list \in [Shoot -> SliceType]
    /\ used \in [Shoot -> Seq(Cell)]
    /\ blocks \in [Shoot -> Seq(Cell)]
    /\ deployed \in [Shoot -> [blocks : Seq(Cell), allows : Seq(Cell), tags : Seq(Cell)]]

Deployed == { s \in Shoot : deployed[s] # Nothing }

\* combineDownloadedAndStaticFilters and generateEgressFilterValues: what a
\* reconcile deploys for an Extension is one whole download followed by the
\* Extension's own static filters, the same in both passes, and none of the
\* entries of an Extension reconciled at the same time.
DeployedIsMerged ==
    \A s \in Deployed : \E v \in Version :
        /\ deployed[s].blocks = Contents(v) \o StaticFilters(s)
        /\ deployed[s].allows = deployed[s].blocks

\* Reconcile applies the tag filters of the service and then those of the
\* Extension, also where it appends these in place behind the service's that
\* other reconciles are reading: never those of another Extension, nor of one
\* reconciled before.
TagsAreMerged ==
    \A s \in Deployed :
        \E arr \in TagArrays : deployed[s].tags = Contents(arr) \o ShootTags(s)

\* Reconciles never write into the part of the array that holds a download
\* or the tag filters of the service: everyone shares it, and a download is
\* only replaced by the next one.
SharedListsIntact ==
    \A arr \in Arrays : SubSeq(array[arr], 1, SizeOf(arr).len) = Contents(arr)

\* A secret shows the download it was made of by its first entry.
MadeOf(d, v) ==
    d.blocks # <<>> /\ Download[v].len > 0 /\ d.blocks[1] = Contents(v)[1]

\* Successive reconciles of an Extension never go back to an older download,
\* not even over a restart in the middle of a refresh.
VersionsOnlyAdvance ==
    [][\A s \in Shoot : \A v, w \in Version :
         MadeOf(deployed[s], v) /\ MadeOf(deployed'[s], w) => v <= w]_vars

\* docs/usage/shoot-networking-filter.md, Key Points: "Static filters are
\* always merged regardless of the source."
StaticAlwaysMerged ==
    \A s \in Deployed : \A k \in 1 .. StaticLen[s] :
        \E i \in DOMAIN deployed[s].blocks : deployed[s].blocks[i] = StaticFilters(s)[k]

\* docs/usage/shoot-networking-filter.md: "Shoot-level tag filters are merged
\* with service-level filters."
ShootTagsMerged ==
    \A s \in Deployed : \A k \in 1 .. ShootTagLen[s] :
        \E i \in DOMAIN deployed[s].tags : deployed[s].tags[i] = ShootTags(s)[k]

\* docs/usage/shoot-networking-filter.md, Merge Behavior: without a secret the
\* downloaded filter list is what the static filters are merged with.
DownloadAlwaysMerged ==
    \A s \in Deployed : \E v \in Version : \A k \in 1 .. Download[v].len :
        \E i \in DOMAIN deployed[s].blocks : deployed[s].blocks[i] = Contents(v)[k]
=============================================================================
