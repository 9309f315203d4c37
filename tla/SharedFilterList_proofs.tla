----------------------- MODULE SharedFilterList_proofs -----------------------
(***************************************************************************)
(* Proofs about the filter lists that reconciles share, for any number of  *)
(* Extensions, workers and downloads, and lists of any length and          *)
(* capacity: the types in general; that the shared lists stay as they are  *)
(* and that no Extension goes back, when a reconcile reads the header of a *)
(* list as a whole; and that every reconcile deploys its own merge, when   *)
(* moreover no two of them find room behind the same list.                 *)
(***************************************************************************)
EXTENDS SharedFilterList, SequenceTheorems, FiniteSetTheorems, TLAPS

-----------------------------------------------------------------------------
(* Lists of entries.                                                       *)

\* A function on an initial segment is a sequence.
LEMMA SegmentIsSeq ==
  ASSUME NEW S, NEW n \in Nat, NEW f \in [1 .. n -> S]
  PROVE  f \in Seq(S) /\ Len(f) = n /\ DOMAIN f = 1 .. n
  OBVIOUS

\* The sizes of the arrays are sizes; downloads and tag filters have arrays of
\* their own.
LEMMA SizesAreSizes ==
  /\ Version \subseteq Nat \ {0} /\ 1 \in Version
  /\ \A arr \in TagArrays : arr \in Arrays /\ arr \notin Version
  /\ \A arr \in Arrays : /\ SizeOf(arr) \in [len : Nat, cap : Nat]
                         /\ SizeOf(arr).len <= SizeOf(arr).cap
  <1>1. Version = 1 .. Len(Download) /\ Len(Download) \in Nat
    BY SharedAssumption DEF Version
  <1>2. \A v \in Version : Download[v] \in Size
    BY <1>1, SharedAssumption, ElementOfSeq
  <1>3. 1 \in Version
    BY <1>1, SharedAssumption, EmptySeq
  <1>4. ASSUME NEW arr \in TagArrays
        PROVE  /\ arr \notin Version
               /\ SizeOf(arr) \in Size
    <2>1. PICK q \in DOMAIN ServiceTags : arr = Len(Download) + q
      BY DEF TagArrays
    <2>2. q \in 1 .. Len(ServiceTags) /\ Len(ServiceTags) \in Nat
      BY SharedAssumption
    <2>3. arr \notin Version /\ arr - Len(Download) = q
      BY <1>1, <2>1, <2>2
    <2>4. ServiceTags[q] \in Size
      BY <2>2, SharedAssumption, ElementOfSeq
    <2> QED
      BY <2>3, <2>4 DEF SizeOf
  <1>5. \A arr \in Arrays : SizeOf(arr) \in Size
    BY <1>2, <1>4 DEF Arrays, SizeOf
  <1> QED
    BY <1>1, <1>3, <1>4, <1>5 DEF Arrays, Size

\* Entries makes a sequence of the length it is given.
LEMMA EntriesAreSeq ==
  ASSUME NEW n \in Nat, NEW origin, Cells(Entries(origin, n)) \subseteq Cell
  PROVE  Entries(origin, n) \in Seq(Cell) /\ Len(Entries(origin, n)) = n
  <1>1. DOMAIN Entries(origin, n) = 1 .. n
    BY DEF Entries
  <1>2. \A k \in 1 .. n : Entries(origin, n)[k] \in Cell
    BY <1>1 DEF Cells
  <1>3. Entries(origin, n) \in [1 .. n -> Cell]
    BY <1>2 DEF Entries
  <1> QED
    BY <1>3, SegmentIsSeq

\* The lists that the reconciles merge are sequences of cells.
LEMMA ListsAreSeqs ==
  /\ \A arr \in Arrays : Contents(arr) \in Seq(Cell) /\ Len(Contents(arr)) = SizeOf(arr).len
  /\ \A s \in Shoot : /\ ShootTags(s) \in Seq(Cell) /\ Len(ShootTags(s)) = ShootTagLen[s]
                      /\ StaticFilters(s) \in Seq(Cell) /\ Len(StaticFilters(s)) = StaticLen[s]
  /\ Unused \in Cell /\ OutOfBounds \in Cell
  <1>1. /\ \A arr \in Arrays : Cells(Contents(arr)) \subseteq Cell
        /\ \A s \in Shoot : Cells(ShootTags(s)) \subseteq Cell
        /\ \A s \in Shoot : Cells(StaticFilters(s)) \subseteq Cell
        /\ Unused \in Cell /\ OutOfBounds \in Cell
    BY ZenonT(20) DEF Cell
  <1>2. ASSUME NEW arr \in Arrays
        PROVE  Contents(arr) \in Seq(Cell) /\ Len(Contents(arr)) = SizeOf(arr).len
    BY <1>1, SizesAreSizes, EntriesAreSeq DEF Contents
  <1>3. ASSUME NEW s \in Shoot
        PROVE  ShootTags(s) \in Seq(Cell) /\ Len(ShootTags(s)) = ShootTagLen[s]
    BY <1>1, SharedAssumption, EntriesAreSeq DEF ShootTags
  <1>4. ASSUME NEW s \in Shoot
        PROVE  StaticFilters(s) \in Seq(Cell) /\ Len(StaticFilters(s)) = StaticLen[s]
    BY <1>1, SharedAssumption, EntriesAreSeq DEF StaticFilters
  <1> QED
    BY <1>1, <1>2, <1>3, <1>4

-----------------------------------------------------------------------------
(* Slices.                                                                 *)

\* A slice of cells of its own is a slice.
LEMMA OwnIsSlice ==
  ASSUME NEW cells \in Seq(Cell)
  PROVE  Own(cells) \in SliceType
  BY SizesAreSizes DEF Own, SliceType, Arrays

\* A slice of a shared array is one.
LEMMA SharedIsSlice ==
  ASSUME NEW arr \in Arrays, NEW len \in Nat, NEW cap \in Nat
  PROVE  Slice(arr, len, cap) \in SliceType
  BY DEF Slice, SliceType

\* What is read from a slice are cells, be it within its array or not.
LEMMA ReadIsSeq ==
  ASSUME array \in [Arrays -> Seq(Cell)], NEW slice \in SliceType
  PROVE  Read(slice) \in Seq(Cell)
  <1>1. CASE ~slice.shared
    BY <1>1 DEF Read, SliceType
  <1>2. CASE slice.shared
    <2>1. /\ array[slice.arr] \in Seq(Cell)
          /\ slice.len \in Nat
      BY DEF SliceType
    <2>2. \A k \in DOMAIN array[slice.arr] : array[slice.arr][k] \in Cell
      BY <2>1
    <2>3. Read(slice) \in [1 .. slice.len -> Cell]
      BY <1>2, <2>2, ListsAreSeqs DEF Read
    <2> QED
      BY <2>1, <2>3, SegmentIsSeq
  <1> QED
    BY <1>1, <1>2 DEF SliceType

\* append returns a slice and leaves arrays of cells.
LEMMA AppendTyped ==
  ASSUME array \in [Arrays -> Seq(Cell)], NEW slice \in SliceType, NEW more \in Seq(Cell)
  PROVE  /\ Appended(slice, more) \in SliceType
         /\ WritesOfAppend(slice, more) => array' \in [Arrays -> Seq(Cell)]
  <1>1. Appended(slice, more) \in SliceType
    <2>1. CASE more = <<>>
      BY <2>1 DEF Appended
    <2>2. CASE more # <<>> /\ InPlace(slice, more)
      <3>1. Appended(slice, more) = [slice EXCEPT !.len = slice.len + Len(more)]
        BY <2>2 DEF Appended
      <3>2. slice.len + Len(more) \in Nat
        BY DEF SliceType
      <3> QED
        BY <3>1, <3>2 DEF SliceType
    <2>3. CASE more # <<>> /\ ~InPlace(slice, more)
      <3>1. Read(slice) \o more \in Seq(Cell)
        BY ReadIsSeq
      <3> QED
        BY <2>3, <3>1, OwnIsSlice DEF Appended
    <2> QED
      BY <2>1, <2>2, <2>3
  <1>2. ASSUME WritesOfAppend(slice, more)
        PROVE  array' \in [Arrays -> Seq(Cell)]
    <2>1. CASE ~InPlace(slice, more)
      BY <1>2, <2>1 DEF WritesOfAppend
    <2>2. CASE InPlace(slice, more)
      <3> DEFINE old == array[slice.arr]
                 new == [k \in DOMAIN old |->
                           IF k > slice.len /\ k <= slice.len + Len(more)
                           THEN more[k - slice.len] ELSE old[k]]
      <3>1. slice.arr \in Arrays /\ slice.len \in Nat /\ Len(more) \in Nat
        BY DEF SliceType
      <3>2. old \in Seq(Cell) /\ Len(old) \in Nat /\ DOMAIN old = 1 .. Len(old)
        BY <3>1
      <3>3. ASSUME NEW k \in DOMAIN old PROVE new[k] \in Cell
        <4>1. old[k] \in Cell
          BY <3>2
        <4>2. CASE k > slice.len /\ k <= slice.len + Len(more)
          <5>1. k - slice.len \in 1 .. Len(more)
            BY <3>1, <3>2, <4>2
          <5> QED
            BY <4>2, <5>1
        <4> QED
          BY <4>1, <4>2
      <3>4. new \in [1 .. Len(old) -> Cell]
        BY <3>2, <3>3
      <3>5. new \in Seq(Cell)
        BY <3>2, <3>4, SegmentIsSeq
      <3>6. array' = [array EXCEPT ![slice.arr] = new]
        BY <1>2, <2>2 DEF WritesOfAppend
      <3> HIDE DEF new
      <3> QED
        BY <3>5, <3>6
    <2> QED
      BY <2>1, <2>2
  <1> QED
    BY <1>1, <1>2

-----------------------------------------------------------------------------
(* Types.                                                                  *)

\* The headers that a reconcile may read are slices.
LEMMA HeadersAreSlices == TypeOK => Headers \subseteq SliceType
  <1> SUFFICES ASSUME TypeOK, NEW header \in Headers PROVE header \in SliceType
    OBVIOUS
  <1>1. PICK a \in Version, l \in Version, c \in Version :
            header = Slice(a, Download[l].len, Download[c].cap)
    BY DEF Headers, TypeOK
  <1>2. a \in Arrays /\ l \in Arrays /\ c \in Arrays
    BY DEF Arrays
  <1>3. Download[l].len \in Nat /\ Download[c].cap \in Nat
    BY <1>2, SizesAreSizes DEF SizeOf
  <1> QED
    BY <1>1, <1>2, <1>3, SharedIsSlice

\* The variables of a reconcile that has ended are empty.
LEMMA EmptyIsTyped ==
  /\ Own(<<>>) \in SliceType
  /\ <<>> \in Seq(Cell)
  /\ Nothing \in [blocks : Seq(Cell), allows : Seq(Cell), tags : Seq(Cell)]
  BY OwnIsSlice, EmptySeq DEF Nothing

\* Arrays that nothing has been appended to hold cells.
LEMMA FreshIsTyped == Fresh \in [Arrays -> Seq(Cell)]
  <1>1. ASSUME NEW arr \in Arrays PROVE Fresh[arr] \in Seq(Cell)
    <2>1. /\ SizeOf(arr).len \in Nat /\ SizeOf(arr).cap \in Nat
      BY SizesAreSizes
    <2>2. \A k \in 1 .. SizeOf(arr).len : Contents(arr)[k] \in Cell
      BY <2>1, ListsAreSeqs
    <2>3. Fresh[arr] \in [1 .. SizeOf(arr).cap -> Cell]
      BY <2>1, <2>2, ListsAreSeqs DEF Fresh
    <2> QED
      BY <2>1, <2>3, SegmentIsSeq
  <1> QED
    BY <1>1 DEF Fresh

\* The initial lists and slices hold cells.
LEMMA InitTyped == Init => TypeOK
  BY FreshIsTyped, EmptyIsTyped, SizesAreSizes DEF Init, TypeOK

\* Every step keeps the types, also when a read is torn or reconciles overwrite
\* each other's entries.
LEMMA StepTyped == TypeOK /\ [Next]_vars => TypeOK'
  <1> SUFFICES ASSUME TypeOK, [Next]_vars PROVE TypeOK'
    OBVIOUS
  <1> USE DEF TypeOK
  <1>1. ASSUME NEW s \in Shoot, StartReconcile(s) PROVE TypeOK'
    <2>1. TagFilters \in SliceType
      BY SizesAreSizes, SharedIsSlice DEF TagFilters
    <2>2. ShootTags(s) \in Seq(Cell)
      BY ListsAreSeqs
    <2>3. Appended(TagFilters, ShootTags(s)) \in SliceType
      BY <2>1, <2>2, AppendTyped
    <2>4. array' \in [Arrays -> Seq(Cell)]
      BY <1>1, <2>1, <2>2, AppendTyped DEF StartReconcile
    <2> QED
      BY <1>1, <2>3, <2>4 DEF StartReconcile, Goto
  <1>2. ASSUME NEW s \in Shoot, GetFilterList(s) PROVE TypeOK'
    BY <1>2, HeadersAreSlices DEF GetFilterList, Goto
  <1>3. ASSUME NEW s \in Shoot, FilterByTags(s) PROVE TypeOK'
    <2>1. Read(list[s]) \in Seq(Cell) /\ Read(tags[s]) \in Seq(Cell)
      BY ReadIsSeq
    <2>2. Own(Read(list[s])) \in SliceType
      BY <2>1, OwnIsSlice
    <2> QED
      BY <1>3, <2>1, <2>2 DEF FilterByTags, Goto
  <1>4. ASSUME NEW s \in Shoot, AppendStatic(s) PROVE TypeOK'
    <2>1. StaticFilters(s) \in Seq(Cell)
      BY ListsAreSeqs
    <2>2. Appended(list[s], StaticFilters(s)) \in SliceType
      BY <2>1, AppendTyped
    <2>3. array' \in [Arrays -> Seq(Cell)]
      BY <1>4, <2>1, AppendTyped DEF AppendStatic
    <2> QED
      BY <1>4, <2>2, <2>3 DEF AppendStatic, Goto
  <1>5. ASSUME NEW s \in Shoot, CollectBlocks(s) PROVE TypeOK'
    BY <1>5, ReadIsSeq DEF CollectBlocks, Goto
  <1>6. ASSUME NEW s \in Shoot, CarveAllowsAndDeploy(s) PROVE TypeOK'
    BY <1>6, ReadIsSeq, EmptyIsTyped DEF CarveAllowsAndDeploy, Goto
  <1>7. CASE BeginStore
    BY <1>7 DEF BeginStore
  <1>8. CASE EndStore
    BY <1>8 DEF EndStore
  <1>9. CASE Restart
    BY <1>9, FreshIsTyped, EmptyIsTyped DEF Restart
  <1>10. CASE UNCHANGED vars
    BY <1>10 DEF vars
  <1> QED
    BY <1>1, <1>2, <1>3, <1>4, <1>5, <1>6, <1>7, <1>8, <1>9, <1>10 DEF Next

\* Every slice and every list of a reconcile holds cells, whatever the sizes of
\* the arrays, and also when a read is torn.
THEOREM SharedTyped == Spec => []TypeOK
  BY InitTyped, StepTyped, PTL DEF Spec

-----------------------------------------------------------------------------
(* Arrays that are shared.                                                 *)

\* The first entry of a download, and what shows that it is there.
Shown(u) == <<<<"shared", u>>, 1>>
Shows(cells, u) == cells # <<>> /\ Download[u].len > 0 /\ cells[1] = Shown(u)

\* Cells begin with the whole of a download, and show no other one.
Of(cells, v) ==
    /\ Download[v].len <= Len(cells)
    /\ \A k \in 1 .. Download[v].len : cells[k] = Contents(v)[k]
    /\ \A u \in Version : Shows(cells, u) => u = v

Comes(slice, v) == IF slice.shared THEN slice.arr = v ELSE Of(slice.own, v)

\* A slice holds at least the list in its array, and ends in the array.
Within(slice) ==
    IF slice.shared
    THEN /\ SizeOf(slice.arr).len <= slice.len /\ slice.len <= slice.cap
         /\ slice.cap = SizeOf(slice.arr).cap
    ELSE slice.len = Len(slice.own)

\* The list in an array is as it was, and behind it no download shows.
Intact(arrays, arr) ==
    /\ Len(arrays[arr]) = SizeOf(arr).cap
    /\ \A k \in 1 .. SizeOf(arr).len : arrays[arr][k] = Contents(arr)[k]
    /\ \A k \in SizeOf(arr).len + 1 .. SizeOf(arr).cap :
          \A u \in Version : arrays[arr][k] # Shown(u)

\* A reconcile works on one download, no older than what it has deployed.
Advances(s) ==
    /\ Within(tags[s]) /\ Within(list[s])
    /\ \A u \in Version : MadeOf(deployed[s], u) => u <= filterList
    /\ pc[s] \in {"filter", "append", "collect", "carve"} =>
         \E v \in 1 .. filterList :
            /\ Comes(list[s], v)
            /\ pc[s] = "carve" => Of(blocks[s], v)
            /\ \A u \in Version : MadeOf(deployed[s], u) => u <= v
    /\ s \in Deployed => \E v \in Version : Of(deployed[s].blocks, v)

LInv ==
    /\ TypeOK
    /\ storing \in {0, filterList + 1}
    /\ \A arr \in Arrays : Intact(array, arr)
    /\ \A s \in Shoot : Advances(s)

\* What Read reads, of any arrays.
ReadOf(arrays, slice) ==
    IF ~slice.shared THEN slice.own
    ELSE [k \in 1 .. slice.len |->
            IF k \in DOMAIN arrays[slice.arr] THEN arrays[slice.arr][k] ELSE OutOfBounds]

\* A list that a reconcile appends has entries of its own.
Private(more) ==
    more \in Seq(Cell) /\ \A k \in 1 .. Len(more) : \A u \in Version : more[k] # Shown(u)

\* The array of a download holds its entries.
LEMMA DownloadsAreArrays ==
  ASSUME NEW v \in Version
  PROVE  /\ v \in Arrays /\ v \notin TagArrays /\ v \in Nat /\ SizeOf(v) = Download[v]
         /\ Download[v].len \in Nat /\ Download[v].cap \in Nat
         /\ Download[v].len <= Download[v].cap
         /\ Contents(v) \in Seq(Cell) /\ Len(Contents(v)) = Download[v].len
         /\ \A k \in 1 .. Download[v].len : Contents(v)[k] = <<<<"shared", v>>, k>>
  <1>1. v \in Arrays /\ v \notin TagArrays /\ v \in Nat /\ SizeOf(v) = Download[v]
    BY SizesAreSizes DEF Arrays, SizeOf
  <1>2. Contents(v) \in Seq(Cell) /\ Len(Contents(v)) = Download[v].len
    BY <1>1, ListsAreSeqs
  <1>3. /\ Download[v].len \in Nat /\ Download[v].cap \in Nat
        /\ Download[v].len <= Download[v].cap
    BY <1>1, SizesAreSizes
  <1>4. \A k \in 1 .. Download[v].len : Contents(v)[k] = <<<<"shared", v>>, k>>
    BY <1>1 DEF Contents, Entries
  <1> QED
    BY <1>1, <1>2, <1>3, <1>4

\* Tag filters and static filters of an Extension are its own.
LEMMA ListsArePrivate ==
  ASSUME NEW s \in Shoot
  PROVE  Private(ShootTags(s)) /\ Private(StaticFilters(s))
  <1>1. /\ ShootTags(s) \in Seq(Cell) /\ Len(ShootTags(s)) = ShootTagLen[s]
        /\ StaticFilters(s) \in Seq(Cell) /\ Len(StaticFilters(s)) = StaticLen[s]
    BY ListsAreSeqs
  <1>2. \A k \in 1 .. ShootTagLen[s] : ShootTags(s)[k] = <<<<"tag", s>>, k>>
    BY DEF ShootTags, Entries
  <1>3. \A k \in 1 .. StaticLen[s] : StaticFilters(s)[k] = <<<<"static", s>>, k>>
    BY DEF StaticFilters, Entries
  <1>4. \A k, u : /\ <<<<"tag", s>>, k>> # Shown(u)
                  /\ <<<<"static", s>>, k>> # Shown(u)
    BY DEF Shown
  <1> QED
    BY <1>1, <1>2, <1>3, <1>4 DEF Private

\* A deployed list is made of the download that it shows.
LEMMA MadeOfShows ==
  ASSUME NEW d, NEW u \in Version
  PROVE  MadeOf(d, u) <=> Shows(d.blocks, u)
  BY DownloadsAreArrays DEF MadeOf, Shows, Shown

\* A slice of an intact array reads as cells, as many as it is long.
LEMMA ReadLength ==
  ASSUME NEW arrays \in [Arrays -> Seq(Cell)], NEW slice \in SliceType, Within(slice)
  PROVE  ReadOf(arrays, slice) \in Seq(Cell) /\ Len(ReadOf(arrays, slice)) = slice.len
  <1>1. CASE ~slice.shared
    BY <1>1 DEF ReadOf, SliceType, Within
  <1>2. CASE slice.shared
    <2>1. arrays[slice.arr] \in Seq(Cell) /\ slice.len \in Nat
      BY DEF SliceType
    <2>2. \A k \in DOMAIN arrays[slice.arr] : arrays[slice.arr][k] \in Cell
      BY <2>1
    <2>3. ReadOf(arrays, slice) \in [1 .. slice.len -> Cell]
      BY <1>2, <2>2, ListsAreSeqs DEF ReadOf
    <2> QED
      BY <2>1, <2>3, SegmentIsSeq
  <1> QED
    BY <1>1, <1>2 DEF SliceType

\* Read reads the arrays as they are now.
LEMMA ReadIsReadOf == \A slice : Read(slice) = ReadOf(array, slice)
  BY DEF Read, ReadOf

\* What is read of a slice that comes from a download begins with all of it.
LEMMA ReadIsOf ==
  ASSUME LInv, NEW slice \in SliceType, Within(slice), NEW v \in Version, Comes(slice, v)
  PROVE  Of(Read(slice), v)
  <1>1. CASE ~slice.shared
    BY <1>1 DEF Read, Comes
  <1>2. CASE slice.shared
    <2> DEFINE cells == Read(slice)
    <2>1. /\ slice.arr = v /\ slice.len \in Nat
          /\ Download[v].len <= slice.len /\ slice.len <= Download[v].cap
      BY <1>2, DownloadsAreArrays DEF Comes, Within, SliceType
    <2>2. /\ array[v] \in Seq(Cell) /\ Len(array[v]) = Download[v].cap
          /\ \A k \in 1 .. Download[v].len : array[v][k] = Contents(v)[k]
          /\ \A k \in Download[v].len + 1 .. Download[v].cap :
                \A u \in Version : array[v][k] # Shown(u)
      BY DownloadsAreArrays DEF LInv, TypeOK, Intact
    <2>3. cells \in Seq(Cell) /\ Len(cells) = slice.len
      BY ReadLength, ReadIsReadOf DEF LInv, TypeOK
    <2>4. \A k \in 1 .. slice.len : cells[k] = array[v][k]
      <3>1. \A k \in 1 .. slice.len : k \in DOMAIN array[v]
        BY <2>1, <2>2, DownloadsAreArrays
      <3> QED
        BY <1>2, <2>1, <3>1 DEF Read
    <2> HIDE DEF cells
    <2>5. \A k \in 1 .. Download[v].len : cells[k] = Contents(v)[k]
      BY <2>1, <2>2, <2>4, DownloadsAreArrays
    <2>6. ASSUME NEW u \in Version, Shows(cells, u) PROVE u = v
      <3>1. slice.len >= 1 /\ cells[1] = array[v][1] /\ cells[1] = Shown(u)
        BY <2>1, <2>3, <2>4, <2>6, EmptySeq DEF Shows
      <3>2. Download[v].len >= 1
        <4> SUFFICES ASSUME Download[v].len = 0 PROVE FALSE
          BY DownloadsAreArrays
        <4>1. 1 \in Download[v].len + 1 .. Download[v].cap
          BY <2>1, <3>1, DownloadsAreArrays
        <4>2. array[v][1] # Shown(u)
          BY <2>2, <4>1
        <4> QED
          BY <3>1, <4>2
      <3>3. cells[1] = <<<<"shared", v>>, 1>>
        BY <2>5, <3>2, DownloadsAreArrays
      <3> QED
        BY <3>1, <3>3 DEF Shown
    <2>7. Of(cells, v)
      BY <2>1, <2>3, <2>5, <2>6 DEF Of
    <2> QED
      BY <2>7 DEF cells
  <1> QED
    BY <1>1, <1>2 DEF SliceType

\* Entries of an Extension that are put behind hide nothing and show nothing.
LEMMA ConcatIsOf ==
  ASSUME NEW v \in Version, NEW cells \in Seq(Cell), Of(cells, v), NEW more, Private(more)
  PROVE  Of(cells \o more, v)
  <1>1. /\ more \in Seq(Cell) /\ Len(cells) \in Nat /\ Len(more) \in Nat
        /\ cells \o more \in Seq(Cell) /\ Len(cells \o more) = Len(cells) + Len(more)
        /\ Download[v].len \in Nat /\ Download[v].len <= Len(cells)
    BY DownloadsAreArrays DEF Private, Of
  <1>2. \A k \in 1 .. Len(cells) : (cells \o more)[k] = cells[k]
    BY <1>1
  <1>3. ASSUME NEW u \in Version, Shows(cells \o more, u) PROVE u = v
    <2>1. CASE cells = <<>>
      <3>1. cells \o more = more
        BY <1>1, <2>1, ConcatEmptySeq
      <3>2. Len(more) >= 1 /\ more[1] = Shown(u)
        BY <1>1, <1>3, <3>1, EmptySeq DEF Shows
      <3> QED
        BY <1>1, <3>2 DEF Private
    <2>2. CASE cells # <<>>
      <3>1. Len(cells) >= 1
        BY <1>1, <2>2, EmptySeq
      <3>2. (cells \o more)[1] = cells[1]
        BY <1>1, <1>2, <3>1
      <3>3. Shows(cells, u)
        BY <1>3, <2>2, <3>2 DEF Shows
      <3> QED
        BY <3>3 DEF Of
    <2> QED
      BY <2>1, <2>2
  <1>4. \A k \in 1 .. Download[v].len : (cells \o more)[k] = Contents(v)[k]
    BY <1>1, <1>2 DEF Of
  <1> QED
    BY <1>1, <1>3, <1>4 DEF Of

\* A slice of its own reads the same in all arrays.
LEMMA OwnReads ==
  ASSUME NEW arrays, NEW cells
  PROVE  ReadOf(arrays, Own(cells)) = cells
  <1>1. Own(cells).shared = FALSE /\ Own(cells).own = cells
    BY DEF Own
  <1> QED
    BY <1>1 DEF ReadOf

\* Sequences with the same elements are the same.
LEMMA SameSeq ==
  ASSUME NEW T, NEW p \in Seq(T), NEW q \in Seq(T), Len(p) = Len(q),
         \A k \in 1 .. Len(p) : p[k] = q[k]
  PROVE  p = q
  OBVIOUS

\* append writes behind the slice: what is shared stays, and what it returns
\* are the elements of the slice and the new ones.
LEMMA AppendWrites ==
  ASSUME LInv, NEW slice \in SliceType, Within(slice), NEW more, Private(more),
         WritesOfAppend(slice, more)
  PROVE  /\ array' \in [Arrays -> Seq(Cell)]
         /\ \A arr \in Arrays : Intact(array', arr)
         /\ \A arr \in Arrays : array'[arr] = array[arr] \/ (InPlace(slice, more) /\ arr = slice.arr)
         /\ Appended(slice, more) \in SliceType /\ Within(Appended(slice, more))
         /\ ReadOf(array', Appended(slice, more)) = ReadOf(array, slice) \o more
  <1>0. /\ more \in Seq(Cell) /\ Len(more) \in Nat /\ array \in [Arrays -> Seq(Cell)]
        /\ slice.len \in Nat /\ slice.arr \in Arrays
        /\ SizeOf(slice.arr).len \in Nat /\ SizeOf(slice.arr).cap \in Nat
    BY SizesAreSizes DEF Private, LInv, TypeOK, SliceType
  <1>1. array' \in [Arrays -> Seq(Cell)] /\ Appended(slice, more) \in SliceType
    BY <1>0, AppendTyped
  <1>2. ReadOf(array, slice) \in Seq(Cell) /\ Len(ReadOf(array, slice)) = slice.len
    BY <1>0, ReadLength
  <1>3. CASE ~InPlace(slice, more)
    <2>1. array' = array
      BY <1>3 DEF WritesOfAppend
    <2>2. CASE more = <<>>
      <3>1. Appended(slice, more) = slice
        BY <2>2 DEF Appended
      <3>2. ReadOf(array, slice) \o more = ReadOf(array, slice)
        BY <1>2, <2>2, ConcatEmptySeq
      <3> QED
        BY <1>1, <2>1, <3>1, <3>2 DEF LInv
    <2>3. CASE more # <<>>
      <3>1. Appended(slice, more) = Own(ReadOf(array, slice) \o more)
        BY <1>3, <2>3, ReadIsReadOf DEF Appended
      <3>2. Within(Appended(slice, more))
        BY <3>1 DEF Own, Within
      <3>3. ReadOf(array', Appended(slice, more)) = ReadOf(array, slice) \o more
        BY <3>1, OwnReads
      <3> QED
        BY <1>1, <2>1, <3>2, <3>3 DEF LInv
    <2> QED
      BY <2>2, <2>3
  <1>4. CASE InPlace(slice, more)
    <2> DEFINE a == slice.arr
               old == array[a]
               n == Len(more)
               new == [k \in DOMAIN old |->
                         IF k > slice.len /\ k <= slice.len + n THEN more[k - slice.len] ELSE old[k]]
               longer == [slice EXCEPT !.len = slice.len + n]
    <2>1. /\ slice.shared /\ more # <<>> /\ slice.len + n <= slice.cap
          /\ SizeOf(a).len <= slice.len /\ slice.cap = SizeOf(a).cap
      BY <1>4 DEF InPlace, Within
    <2>2. /\ old \in Seq(Cell) /\ Len(old) = SizeOf(a).cap /\ DOMAIN old = 1 .. SizeOf(a).cap
          /\ \A k \in 1 .. SizeOf(a).len : old[k] = Contents(a)[k]
          /\ \A k \in SizeOf(a).len + 1 .. SizeOf(a).cap : \A u \in Version : old[k] # Shown(u)
      BY <1>0 DEF LInv, Intact
    <2>3. array' = [array EXCEPT ![a] = new]
      BY <1>4 DEF WritesOfAppend
    <2>4. array'[a] = new /\ \A arr \in Arrays : arr # a => array'[arr] = array[arr]
      <3> HIDE DEF new
      <3> QED
        BY <1>0, <2>3
    <2>5. Appended(slice, more) = longer
      BY <1>4, <2>1 DEF Appended
    <2>6. /\ \A k \in 1 .. slice.len : new[k] = old[k]
          /\ \A k \in slice.len + 1 .. slice.len + n : new[k] = more[k - slice.len]
          /\ \A k \in slice.len + n + 1 .. SizeOf(a).cap : new[k] = old[k]
      BY <1>0, <2>1, <2>2
    <2>7. DOMAIN new = 1 .. SizeOf(a).cap
      BY <2>2
    <2> HIDE DEF new
    <2>8. Len(new) = SizeOf(a).cap
      BY <1>0, <1>1, <2>4, <2>7
    <2>9. \A k \in 1 .. SizeOf(a).len : new[k] = Contents(a)[k]
      BY <1>0, <2>1, <2>2, <2>6
    <2>10. ASSUME NEW k \in SizeOf(a).len + 1 .. SizeOf(a).cap, NEW u \in Version
           PROVE  new[k] # Shown(u)
      <3>1. CASE k \in slice.len + 1 .. slice.len + n
        <4>1. k - slice.len \in 1 .. n /\ new[k] = more[k - slice.len]
          BY <1>0, <2>6, <3>1
        <4> QED
          BY <4>1 DEF Private
      <3>2. CASE k \notin slice.len + 1 .. slice.len + n
        <4>1. new[k] = old[k]
          BY <1>0, <2>1, <2>6, <3>2
        <4> QED
          BY <2>2, <4>1
      <3> QED
        BY <3>1, <3>2
    <2>11. \A arr \in Arrays : Intact(array', arr)
      <3>1. Intact(array', a)
        BY <2>4, <2>8, <2>9, <2>10 DEF Intact
      <3>2. \A arr \in Arrays : arr # a => Intact(array', arr)
        BY <2>4 DEF LInv, Intact
      <3> QED
        BY <3>1, <3>2
    <2>12. /\ longer.shared /\ longer.arr = a /\ longer.len = slice.len + n
           /\ longer.cap = slice.cap
      BY <2>1 DEF SliceType
    <2> HIDE DEF longer
    <2>13. Within(longer)
      BY <1>0, <2>1, <2>12 DEF Within
    <2>14. ReadOf(array', longer) = ReadOf(array, slice) \o more
      <3> DEFINE p == ReadOf(array', longer)
                 q == ReadOf(array, slice) \o more
      <3>1. p \in Seq(Cell) /\ Len(p) = slice.len + n
        BY <1>1, <2>5, <2>12, <2>13, ReadLength
      <3>2. q \in Seq(Cell) /\ Len(q) = slice.len + n
        BY <1>0, <1>2, ConcatProperties
      <3>3. \A k \in 1 .. slice.len + n : p[k] = new[k]
        <4>1. \A k \in 1 .. slice.len + n : k \in DOMAIN new
          BY <1>0, <2>1, <2>7
        <4> QED
          BY <2>4, <2>12, <4>1 DEF ReadOf
      <3>4. \A k \in 1 .. slice.len : ReadOf(array, slice)[k] = old[k]
        <4>1. \A k \in 1 .. slice.len : k \in DOMAIN old
          BY <1>0, <2>1, <2>2
        <4> QED
          BY <2>1, <4>1 DEF ReadOf
      <3>5. \A k \in 1 .. slice.len + n :
               q[k] = IF k <= slice.len THEN ReadOf(array, slice)[k] ELSE more[k - slice.len]
        BY <1>0, <1>2, ConcatProperties
      <3>6. \A k \in 1 .. slice.len + n : q[k] = new[k]
        <4> HIDE DEF q
        <4> QED
          BY <1>0, <2>6, <3>4, <3>5
      <3> HIDE DEF p, q
      <3>7. p = q
        BY <3>1, <3>2, <3>3, <3>6, SameSeq
      <3> QED
        BY <3>7 DEF p, q
    <2> QED
      BY <1>1, <1>4, <2>4, <2>5, <2>11, <2>13, <2>14
  <1> QED
    BY <1>3, <1>4

\* What append returns comes from the same download.
LEMMA AppendComes ==
  ASSUME LInv, NEW slice \in SliceType, Within(slice), NEW more, Private(more),
         NEW v \in Version, Comes(slice, v)
  PROVE  Comes(Appended(slice, more), v)
  <1>1. CASE more = <<>>
    BY <1>1 DEF Appended
  <1>2. CASE more # <<>> /\ InPlace(slice, more)
    <2>1. Appended(slice, more) = [slice EXCEPT !.len = slice.len + Len(more)]
      BY <1>2 DEF Appended
    <2>2. Appended(slice, more).shared = slice.shared /\ Appended(slice, more).arr = slice.arr
      BY <2>1 DEF SliceType
    <2> QED
      BY <1>2, <2>2 DEF InPlace, Comes
  <1>3. CASE more # <<>> /\ ~InPlace(slice, more)
    <2>1. Appended(slice, more) = Own(Read(slice) \o more)
      BY <1>3 DEF Appended
    <2>2. Read(slice) \in Seq(Cell) /\ Of(Read(slice), v)
      BY ReadIsOf, ReadLength, ReadIsReadOf DEF LInv, TypeOK
    <2> QED
      BY <2>1, <2>2, ConcatIsOf DEF Own, Comes
  <1> QED
    BY <1>1, <1>2, <1>3

-----------------------------------------------------------------------------
(* Lists are left alone, whatever room there is behind them.               *)

\* What a reconcile that does not move has got stays right.
LEMMA AdvancesKept ==
  ASSUME LInv, NEW s \in Shoot, filterList' \in Nat, filterList' >= filterList,
         tags'[s] = tags[s], list'[s] = list[s], pc'[s] = pc[s],
         blocks'[s] = blocks[s], deployed'[s] = deployed[s]
  PROVE  Advances(s)'
  <1>1. Advances(s) /\ filterList \in Nat /\ Version \subseteq Nat
    BY SizesAreSizes DEF LInv, TypeOK
  <1>2. 1 .. filterList \subseteq 1 .. filterList'
    BY <1>1
  <1>3. \A u \in Version : MadeOf(deployed'[s], u) => u <= filterList'
    <2>1. \A u \in Version : MadeOf(deployed[s], u) => u <= filterList
      BY <1>1 DEF Advances
    <2> QED
      BY <1>1, <2>1
  <1> QED
    BY <1>1, <1>2, <1>3 DEF Advances, Deployed

\* A reconcile that has ended has empty slices.
LEMMA EmptyIsWithin == Within(Own(<<>>)) /\ Own(<<>>) \in SliceType
  BY OwnIsSlice, EmptySeq DEF Within, Own

\* The slice of the service's tag filters is one.
LEMMA ServiceIsSlice ==
  ASSUME service \in TagArrays
  PROVE  /\ TagFilters \in SliceType /\ Within(TagFilters)
         /\ TagFilters.shared /\ TagFilters.arr = service
         /\ TagFilters.len = SizeOf(service).len /\ TagFilters.cap = SizeOf(service).cap
  <1>1. /\ service \in Arrays
        /\ SizeOf(service).len \in Nat /\ SizeOf(service).cap \in Nat
        /\ SizeOf(service).len <= SizeOf(service).cap
    BY SizesAreSizes
  <1> QED
    BY <1>1, SharedIsSlice DEF TagFilters, Slice, Within

\* What came before the current list is a download.
LEMMA EarlierIsVersion ==
  ASSUME LInv, NEW v \in 1 .. filterList
  PROVE  v \in Version /\ v <= filterList
  BY SharedAssumption DEF LInv, TypeOK, Version

\* What nothing has been appended to is intact.
LEMMA FreshIsIntact == \A arr \in Arrays : Intact(Fresh, arr)
  <1> SUFFICES ASSUME NEW arr \in Arrays PROVE Intact(Fresh, arr)
    OBVIOUS
  <1>1. SizeOf(arr).len \in Nat /\ SizeOf(arr).cap \in Nat /\ SizeOf(arr).len <= SizeOf(arr).cap
    BY SizesAreSizes
  <1>2. Fresh[arr] = [k \in 1 .. SizeOf(arr).cap |->
                        IF k <= SizeOf(arr).len THEN Contents(arr)[k] ELSE Unused]
    BY DEF Fresh
  <1>3. Fresh[arr] \in Seq(Cell) /\ DOMAIN Fresh[arr] = 1 .. SizeOf(arr).cap
    BY <1>2, FreshIsTyped
  <1>4. Len(Fresh[arr]) = SizeOf(arr).cap
    BY <1>1, <1>3
  <1>5. \A u : Unused # Shown(u)
    BY DEF Unused, Shown
  <1> QED
    BY <1>1, <1>2, <1>4, <1>5 DEF Intact

\* Setup has downloaded; nothing has been appended.
LEMMA InitLInv == Init => LInv
  <1> SUFFICES ASSUME Init PROVE LInv
    OBVIOUS
  <1>1. TypeOK
    BY InitTyped
  <1>2. ASSUME NEW s \in Shoot PROVE Advances(s)
    BY EmptyIsWithin DEF Init, Advances, Deployed, MadeOf, Nothing
  <1> QED
    BY <1>1, <1>2, FreshIsIntact DEF LInv, Init

\* Arrays that no step writes to stay intact.
LEMMA ArraysStay == LInv /\ array' = array => \A arr \in Arrays : Intact(array', arr)
  BY DEF LInv

\* It is enough to look at the reconcile that moves.
LEMMA OthersAdvance ==
  ASSUME LInv, TypeOK', NEW s \in Shoot, filterList' = filterList, storing' = storing,
         \A arr \in Arrays : Intact(array', arr), Advances(s)',
         \A t \in Shoot \ {s} : /\ tags'[t] = tags[t] /\ list'[t] = list[t] /\ pc'[t] = pc[t]
                                /\ blocks'[t] = blocks[t] /\ deployed'[t] = deployed[t]
  PROVE  LInv'
  <1>1. filterList' \in Nat /\ filterList' >= filterList
    BY SizesAreSizes DEF LInv, TypeOK
  <1>2. \A t \in Shoot \ {s} : Advances(t)'
    BY <1>1, AdvancesKept
  <1> QED
    BY <1>2 DEF LInv

\* The tag filters are appended to those of the service.
LEMMA StartAdvances ==
  ASSUME LInv, TypeOK', NEW s \in Shoot, StartReconcile(s)
  PROVE  LInv'
  <1>1. TagFilters \in SliceType /\ Within(TagFilters)
    BY ServiceIsSlice DEF LInv, TypeOK
  <1>2. /\ WritesOfAppend(TagFilters, ShootTags(s))
        /\ tags' = [tags EXCEPT ![s] = Appended(TagFilters, ShootTags(s))]
    BY DEF StartReconcile
  <1>3. Within(Appended(TagFilters, ShootTags(s))) /\ \A arr \in Arrays : Intact(array', arr)
    BY <1>1, <1>2, ListsArePrivate, AppendWrites
  <1>4. Within(tags'[s])
    BY <1>2, <1>3 DEF LInv, TypeOK
  <1>5. Advances(s)'
    BY <1>4 DEF StartReconcile, Goto, Advances, Deployed, LInv, TypeOK
  <1> QED
    BY <1>3, <1>5, OthersAdvance DEF StartReconcile, Goto, LInv, TypeOK

\* The header that is read as a whole is that of the current list.
LEMMA HeaderIsWhole ==
  ASSUME LInv, ~TornReads, NEW s \in Shoot, GetFilterList(s)
  PROVE  /\ filterList \in Version /\ filterList \in 1 .. filterList
         /\ list'[s] = Slice(filterList, SizeOf(filterList).len, SizeOf(filterList).cap)
  <1>1. filterList \in Version /\ filterList \in Nat \ {0} /\ SizeOf(filterList) = Download[filterList]
    BY SizesAreSizes, DownloadsAreArrays DEF LInv, TypeOK
  <1>2. storing = 0
    BY DEF GetFilterList
  <1>3. Headers = {Slice(filterList, Download[filterList].len, Download[filterList].cap)}
    BY <1>2 DEF Headers
  <1> QED
    BY <1>1, <1>3 DEF GetFilterList, LInv, TypeOK

\* A reconcile gets the current list, which is the newest.
LEMMA GetAdvances ==
  ASSUME LInv, ~TornReads, TypeOK', NEW s \in Shoot, GetFilterList(s)
  PROVE  LInv'
  <1>1. /\ filterList \in Version /\ filterList \in 1 .. filterList
        /\ list'[s] = Slice(filterList, SizeOf(filterList).len, SizeOf(filterList).cap)
    BY HeaderIsWhole
  <1>2. SizeOf(filterList).len <= SizeOf(filterList).cap
    BY <1>1, DownloadsAreArrays
  <1>3. Within(list'[s]) /\ Comes(list'[s], filterList)
    <2> DEFINE l == SizeOf(filterList).len
               c == SizeOf(filterList).cap
    <2>1. /\ list'[s].shared /\ list'[s].arr = filterList
          /\ list'[s].len = l /\ list'[s].cap = c
      BY <1>1 DEF Slice
    <2>2. l \in Nat
      BY <1>1, DownloadsAreArrays
    <2> QED
      BY <1>2, <2>1, <2>2 DEF Within, Comes
  <1>4. /\ pc[s] = "get" /\ pc'[s] \in {"filter", "append"}
        /\ UNCHANGED <<array, filterList, storing, tags, used, blocks, deployed>>
    BY DEF GetFilterList, Goto, LInv, TypeOK
  <1>5. Advances(s)'
    BY <1>1, <1>3, <1>4 DEF Advances, Deployed, LInv
  <1> QED
    BY <1>4, <1>5, ArraysStay, OthersAdvance DEF GetFilterList, Goto, LInv, TypeOK

\* The copy of filterByTags has the entries of the list.
LEMMA FilterAdvances ==
  ASSUME LInv, TypeOK', NEW s \in Shoot, FilterByTags(s)
  PROVE  LInv'
  <1>1. /\ pc[s] = "filter" /\ pc'[s] = "append"
        /\ list[s] \in SliceType /\ Within(list[s]) /\ Advances(s)
        /\ list'[s] = Own(Read(list[s]))
        /\ UNCHANGED <<array, filterList, storing, tags, blocks, deployed>>
    BY DEF FilterByTags, Goto, LInv, TypeOK, Advances
  <1>2. PICK v \in 1 .. filterList : /\ Comes(list[s], v)
                                     /\ \A u \in Version : MadeOf(deployed[s], u) => u <= v
    BY <1>1 DEF Advances
  <1>3. v \in Version
    BY <1>2, EarlierIsVersion
  <1>4. Within(list'[s]) /\ Comes(list'[s], v)
    BY <1>1, <1>2, <1>3, ReadIsOf DEF Own, Within, Comes
  <1>5. Advances(s)'
    BY <1>1, <1>2, <1>4 DEF Advances, Deployed
  <1> QED
    BY <1>1, <1>5, ArraysStay, OthersAdvance DEF FilterByTags, Goto, LInv, TypeOK

\* The static filters are appended to the list.
LEMMA AppendAdvances ==
  ASSUME LInv, TypeOK', NEW s \in Shoot, AppendStatic(s)
  PROVE  LInv'
  <1>1. /\ pc[s] = "append" /\ pc'[s] = "collect"
        /\ list[s] \in SliceType /\ Within(list[s]) /\ Advances(s)
        /\ list'[s] = Appended(list[s], StaticFilters(s))
        /\ WritesOfAppend(list[s], StaticFilters(s))
        /\ UNCHANGED <<filterList, storing, tags, used, blocks, deployed>>
    BY DEF AppendStatic, Goto, LInv, TypeOK, Advances
  <1>2. PICK v \in 1 .. filterList : /\ Comes(list[s], v)
                                     /\ \A u \in Version : MadeOf(deployed[s], u) => u <= v
    BY <1>1 DEF Advances
  <1>3. v \in Version
    BY <1>2, EarlierIsVersion
  <1>4. /\ Within(list'[s]) /\ Comes(list'[s], v)
        /\ \A arr \in Arrays : Intact(array', arr)
    BY <1>1, <1>2, <1>3, ListsArePrivate, AppendWrites, AppendComes
  <1>5. Advances(s)'
    BY <1>1, <1>2, <1>4 DEF Advances, Deployed
  <1> QED
    BY <1>1, <1>4, <1>5, OthersAdvance DEF AppendStatic, Goto, LInv, TypeOK

\* The first pass reads the list ...
LEMMA CollectAdvances ==
  ASSUME LInv, TypeOK', NEW s \in Shoot, CollectBlocks(s)
  PROVE  LInv'
  <1>1. /\ pc[s] = "collect" /\ pc'[s] = "carve"
        /\ list[s] \in SliceType /\ Within(list[s]) /\ Advances(s)
        /\ blocks'[s] = Read(list[s])
        /\ UNCHANGED <<array, filterList, storing, tags, list, used, deployed>>
    BY DEF CollectBlocks, Goto, LInv, TypeOK, Advances
  <1>2. PICK v \in 1 .. filterList : /\ Comes(list[s], v)
                                     /\ \A u \in Version : MadeOf(deployed[s], u) => u <= v
    BY <1>1 DEF Advances
  <1>3. v \in Version
    BY <1>2, EarlierIsVersion
  <1>4. Of(blocks'[s], v)
    BY <1>1, <1>2, <1>3, ReadIsOf
  <1>5. Advances(s)'
    BY <1>1, <1>2, <1>4 DEF Advances, Deployed
  <1> QED
    BY <1>1, <1>5, ArraysStay, OthersAdvance DEF CollectBlocks, Goto, LInv, TypeOK

\* ... and what it has read is deployed.
LEMMA CarveAdvances ==
  ASSUME LInv, TypeOK', NEW s \in Shoot, CarveAllowsAndDeploy(s)
  PROVE  LInv'
  <1>1. /\ pc[s] = "carve" /\ pc'[s] = "idle" /\ Advances(s)
        /\ tags'[s] = Own(<<>>) /\ list'[s] = Own(<<>>)
        /\ deployed'[s] = [blocks |-> blocks[s], allows |-> Read(list[s]), tags |-> used[s]]
        /\ UNCHANGED <<array, filterList, storing>>
    BY DEF CarveAllowsAndDeploy, Goto, LInv, TypeOK
  <1>2. PICK v \in 1 .. filterList : Of(blocks[s], v)
    BY <1>1 DEF Advances
  <1>3. v \in Version /\ v <= filterList
    BY <1>2, EarlierIsVersion
  <1>4. deployed'[s].blocks = blocks[s]
    BY <1>1
  <1>5. \A u \in Version : MadeOf(deployed'[s], u) => u = v
    BY <1>2, <1>4, MadeOfShows DEF Of
  <1>6. Advances(s)'
    BY <1>1, <1>2, <1>3, <1>4, <1>5, EmptyIsWithin DEF Advances
  <1> QED
    BY <1>1, <1>6, ArraysStay, OthersAdvance DEF CarveAllowsAndDeploy, Goto, LInv, TypeOK

\* The refresh replaces the list by a newer one and touches no array.
LEMMA StoreAdvances ==
  ASSUME LInv, TypeOK', BeginStore \/ EndStore \/ UNCHANGED vars
  PROVE  LInv'
  <1>1. filterList \in Nat /\ storing \in {0, filterList + 1}
    BY SizesAreSizes DEF LInv, TypeOK
  <1>2. filterList' \in Nat /\ filterList' >= filterList /\ storing' \in {0, filterList' + 1}
    <2>1. CASE BeginStore
      BY <1>1, <2>1 DEF BeginStore
    <2>2. CASE EndStore
      BY <1>1, <2>2 DEF EndStore
    <2>3. CASE UNCHANGED vars
      BY <1>1, <2>3 DEF vars
    <2> QED
      BY <2>1, <2>2, <2>3
  <1>3. UNCHANGED <<array, pc, tags, list, used, blocks, deployed>>
    BY DEF BeginStore, EndStore, vars
  <1>4. \A s \in Shoot : Advances(s)'
    BY <1>2, <1>3, AdvancesKept
  <1> QED
    BY <1>2, <1>3, <1>4 DEF LInv

\* A new process has a newer list, and no reconcile.
LEMMA RestartAdvances ==
  ASSUME LInv, TypeOK', Restart
  PROVE  LInv'
  <1>1. /\ array' = Fresh /\ storing' = 0 /\ filterList' \in Version
        /\ filterList' > filterList /\ UNCHANGED deployed
        /\ \A s \in Shoot : /\ pc'[s] = "idle"
                             /\ tags'[s] = Own(<<>>) /\ list'[s] = Own(<<>>)
    BY DEF Restart
  <1>2. filterList \in Nat /\ filterList' \in Nat /\ Version \subseteq Nat
    BY <1>1, SizesAreSizes DEF LInv, TypeOK
  <1>3. ASSUME NEW s \in Shoot PROVE Advances(s)'
    <2>1. Advances(s)
      BY DEF LInv
    <2>2. \A u \in Version : MadeOf(deployed'[s], u) => u <= filterList'
      BY <1>1, <1>2, <2>1 DEF Advances
    <2>3. s \in Deployed' => \E v \in Version : Of(deployed'[s].blocks, v)
      BY <1>1, <2>1 DEF Advances, Deployed
    <2> QED
      BY <1>1, <2>2, <2>3, EmptyIsWithin DEF Advances
  <1> QED
    BY <1>1, <1>3, FreshIsIntact DEF LInv

\* When no read is torn, every step keeps the invariant, whatever the capacities.
LEMMA NextAdvances == ~TornReads /\ LInv /\ [Next]_vars => LInv'
  <1> SUFFICES ASSUME ~TornReads, LInv, [Next]_vars PROVE LInv'
    OBVIOUS
  <1>1. TypeOK'
    BY StepTyped DEF LInv
  <1> QED
    BY <1>1, StartAdvances, GetAdvances, FilterAdvances, AppendAdvances, CollectAdvances,
       CarveAdvances, StoreAdvances, RestartAdvances DEF Next

\* The invariant that needs no assumption on the arrays.
LEMMA LInvariance == ASSUME ~TornReads PROVE Spec => []LInv
  <1>1. Init => LInv
    BY InitLInv
  <1>2. LInv /\ [Next]_vars => LInv'
    BY NextAdvances
  <1> QED
    BY <1>1, <1>2, PTL DEF Spec

\* No reconcile writes into a list that all of them share, even when they append
\* to it in place (actuator.go 150 and 379).
THEOREM ListsStayIntact == ASSUME ~TornReads PROVE Spec => []SharedListsIntact
  <1>1. LInv => SharedListsIntact
    <2> SUFFICES ASSUME LInv, NEW arr \in Arrays
                 PROVE  SubSeq(array[arr], 1, SizeOf(arr).len) = Contents(arr)
      BY DEF SharedListsIntact
    <2>1. /\ array[arr] \in Seq(Cell) /\ Len(array[arr]) = SizeOf(arr).cap
          /\ \A k \in 1 .. SizeOf(arr).len : array[arr][k] = Contents(arr)[k]
          /\ SizeOf(arr).len \in Nat /\ SizeOf(arr).len <= SizeOf(arr).cap
      BY SizesAreSizes DEF LInv, TypeOK, Intact
    <2>2. Contents(arr) = [k \in 1 .. SizeOf(arr).len |-> Contents(arr)[k]]
      BY DEF Contents, Entries
    <2>3. SubSeq(array[arr], 1, SizeOf(arr).len) = [k \in 1 .. SizeOf(arr).len |-> array[arr][k]]
      BY <2>1
    <2> QED
      BY <2>1, <2>2, <2>3
  <1> QED
    BY <1>1, LInvariance, PTL

\* What is deployed always begins with one whole download; only a torn read can
\* cut it short (filterlistprovider.go 165).
THEOREM DownloadsStayWhole == ASSUME ~TornReads PROVE Spec => []DownloadAlwaysMerged
  <1>1. LInv => DownloadAlwaysMerged
    <2> SUFFICES ASSUME LInv, NEW s \in Deployed
                 PROVE  \E v \in Version : \A k \in 1 .. Download[v].len :
                          \E i \in DOMAIN deployed[s].blocks : deployed[s].blocks[i] = Contents(v)[k]
      BY DEF DownloadAlwaysMerged
    <2>1. s \in Shoot
      BY DEF Deployed
    <2>2. PICK v \in Version : Of(deployed[s].blocks, v)
      BY <2>1 DEF LInv, Advances
    <2>3. deployed[s].blocks \in Seq(Cell)
      BY <2>1 DEF LInv, TypeOK
    <2>4. \A k \in 1 .. Download[v].len : k \in DOMAIN deployed[s].blocks
      BY <2>2, <2>3, DownloadsAreArrays DEF Of
    <2> QED
      BY <2>2, <2>4 DEF Of
  <1> QED
    BY <1>1, LInvariance, PTL

\* An Extension never goes back to an older download.
THEOREM NeverGoesBack == ASSUME ~TornReads PROVE Spec => VersionsOnlyAdvance
  <1>1. ASSUME LInv, [Next]_vars, NEW s \in Shoot, NEW v \in Version, NEW w \in Version,
               MadeOf(deployed[s], v), MadeOf(deployed'[s], w)
        PROVE  v <= w
    <2>1. v \in Nat /\ w \in Nat
      BY SizesAreSizes
    <2>2. CASE deployed'[s] = deployed[s]
      <3>1. Shown(v) = Shown(w)
        BY <1>1, <2>2, MadeOfShows DEF Shows
      <3> QED
        BY <2>1, <3>1 DEF Shown
    <2>3. CASE deployed'[s] # deployed[s]
      <3>1. CarveAllowsAndDeploy(s)
        BY <1>1, <2>3 DEF Next, vars, StartReconcile, GetFilterList, FilterByTags, AppendStatic,
           CollectBlocks, CarveAllowsAndDeploy, BeginStore, EndStore, Restart, LInv, TypeOK
      <3>2. /\ pc[s] = "carve" /\ Advances(s)
            /\ deployed'[s] = [blocks |-> blocks[s], allows |-> Read(list[s]), tags |-> used[s]]
        BY <1>1, <3>1 DEF CarveAllowsAndDeploy, Goto, LInv, TypeOK
      <3>3. PICK x \in 1 .. filterList : /\ Of(blocks[s], x)
                                         /\ \A u \in Version : MadeOf(deployed[s], u) => u <= x
        BY <3>2 DEF Advances
      <3>4. Shows(blocks[s], w)
        BY <1>1, <3>2, MadeOfShows
      <3> QED
        BY <1>1, <3>3, <3>4 DEF Of
    <2> QED
      BY <2>2, <2>3
  <1>2. LInv /\ [Next]_vars =>
          [\A s \in Shoot : \A v, w \in Version :
             MadeOf(deployed[s], v) /\ MadeOf(deployed'[s], w) => v <= w]_vars
    BY <1>1
  <1> QED
    BY <1>2, LInvariance, PTL DEF Spec, VersionsOnlyAdvance

-----------------------------------------------------------------------------
(* Reconciles that do not meet behind a list.                              *)

MergedTags(s) == Contents(service) \o ShootTags(s)
Merged(v, s) == Contents(v) \o StaticFilters(s)

\* What Extension s appends finds room behind the list in an array, in a process
\* with tag filters p; with any tag filter at all, filterByTags copies the
\* download first.
Room(p, s, arr) ==
    IF arr \in TagArrays
    THEN ShootTagLen[s] > 0 /\ SizeOf(arr).len + ShootTagLen[s] <= SizeOf(arr).cap
    ELSE /\ SizeOf(p).len + ShootTagLen[s] = 0
         /\ StaticLen[s] > 0 /\ Download[arr].len + StaticLen[s] <= Download[arr].cap

\* Reads are not torn, and there is one worker, or no array has room for two,
\* whatever the configuration of the service.
Separate ==
    /\ ~TornReads
    /\ \/ Workers = 1
       \/ \A p \in TagArrays : \A arr \in Arrays : \A s, t \in Shoot :
             Room(p, s, arr) /\ Room(p, t, arr) => s = t

\* What is longer than the list in its array has found room there.
InRoom(s, slice) ==
    slice.shared /\ slice.len > SizeOf(slice.arr).len => Room(service, s, slice.arr)

\* How far a reconcile has merged its lists.
Merges(s) ==
    /\ pc[s] = "idle" => ~tags[s].shared /\ ~list[s].shared
    /\ InRoom(s, tags[s]) /\ InRoom(s, list[s])
    /\ pc[s] \in {"get", "filter"} => ReadOf(array, tags[s]) = MergedTags(s)
    /\ used[s] = IF pc[s] \in {"append", "collect", "carve"} THEN MergedTags(s) ELSE <<>>
    /\ pc[s] = "append" /\ list[s].shared => MergedTags(s) = <<>>
    /\ pc[s] = "get" => ~list[s].shared
    /\ pc[s] \in {"filter", "append"} =>
         \E v \in Version : Comes(list[s], v) /\ ReadOf(array, list[s]) = Contents(v)
    /\ pc[s] \in {"collect", "carve"} =>
         \E v \in Version : ReadOf(array, list[s]) = Merged(v, s)
    /\ pc[s] = "carve" => blocks[s] = ReadOf(array, list[s])

Alone == Workers = 1 => \A s, t \in Busy : s = t

IInv ==
    /\ LInv
    /\ IsFiniteSet(Busy) /\ Alone
    /\ \A s \in Shoot : Merges(s)
    /\ DeployedIsMerged /\ TagsAreMerged

\* A slice reads the same when its array does not change, or changes only behind
\* the list and the slice ends there.
LEMMA ReadKept ==
  ASSUME NEW a \in [Arrays -> Seq(Cell)], NEW b \in [Arrays -> Seq(Cell)],
         NEW slice \in SliceType, Within(slice),
         slice.shared => \/ b[slice.arr] = a[slice.arr]
                         \/ /\ slice.len <= SizeOf(slice.arr).len
                            /\ Intact(a, slice.arr) /\ Intact(b, slice.arr)
  PROVE  ReadOf(b, slice) = ReadOf(a, slice)
  <1>1. CASE ~slice.shared
    BY <1>1 DEF ReadOf
  <1>2. CASE slice.shared /\ b[slice.arr] = a[slice.arr]
    BY <1>2 DEF ReadOf
  <1>3. CASE /\ slice.shared /\ slice.len <= SizeOf(slice.arr).len
             /\ Intact(a, slice.arr) /\ Intact(b, slice.arr)
    <2> DEFINE p == ReadOf(a, slice)
               q == ReadOf(b, slice)
               arr == slice.arr
    <2>1. /\ arr \in Arrays /\ slice.len \in Nat
          /\ SizeOf(arr).len \in Nat /\ SizeOf(arr).cap \in Nat /\ SizeOf(arr).len <= SizeOf(arr).cap
      BY SizesAreSizes DEF SliceType
    <2>2. /\ a[arr] \in Seq(Cell) /\ Len(a[arr]) = SizeOf(arr).cap
          /\ b[arr] \in Seq(Cell) /\ Len(b[arr]) = SizeOf(arr).cap
          /\ \A k \in 1 .. SizeOf(arr).len : a[arr][k] = b[arr][k]
      BY <1>3, <2>1 DEF Intact
    <2>3. \A k \in 1 .. slice.len : k \in DOMAIN a[arr] /\ k \in DOMAIN b[arr] /\ a[arr][k] = b[arr][k]
      BY <1>3, <2>1, <2>2
    <2>4. \A k \in 1 .. slice.len : p[k] = q[k]
      BY <1>3, <2>3 DEF ReadOf
    <2>5. p \in Seq(Cell) /\ Len(p) = slice.len /\ q \in Seq(Cell) /\ Len(q) = slice.len
      BY ReadLength
    <2> HIDE DEF p, q
    <2>6. p = q
      BY <2>4, <2>5, SameSeq
    <2> QED
      BY <2>6 DEF p, q
  <1> QED
    BY <1>1, <1>2, <1>3

\* A reconcile whose slices read as before has merged what it had.
LEMMA MergesKept ==
  ASSUME NEW s \in Shoot, Merges(s), service' = service,
         tags'[s] = tags[s], list'[s] = list[s], pc'[s] = pc[s], used'[s] = used[s],
         blocks'[s] = blocks[s],
         ReadOf(array', tags[s]) = ReadOf(array, tags[s]),
         ReadOf(array', list[s]) = ReadOf(array, list[s])
  PROVE  Merges(s)'
  BY DEF Merges, MergedTags, InRoom

\* What append returns is in the room that it has found.
LEMMA AppendedInRoom ==
  ASSUME NEW s \in Shoot, NEW slice \in SliceType, NEW more, InRoom(s, slice),
         InPlace(slice, more) => Room(service, s, slice.arr)
  PROVE  InRoom(s, Appended(slice, more))
  <1>1. CASE more = <<>>
    BY <1>1 DEF Appended
  <1>2. CASE more # <<>> /\ InPlace(slice, more)
    <2>1. Appended(slice, more) = [slice EXCEPT !.len = slice.len + Len(more)]
      BY <1>2 DEF Appended
    <2>2. Appended(slice, more).arr = slice.arr
      BY <2>1 DEF SliceType
    <2> QED
      BY <1>2, <2>2 DEF InRoom
  <1>3. CASE more # <<>> /\ ~InPlace(slice, more)
    <2>1. Appended(slice, more) = Own(Read(slice) \o more)
      BY <1>3 DEF Appended
    <2> QED
      BY <2>1 DEF Own, InRoom
  <1> QED
    BY <1>1, <1>2, <1>3

\* A step that writes to no array disturbs no other reconcile.
LEMMA QuietMerges ==
  ASSUME NEW s \in Shoot, Merges(s), array' = array, service' = service,
         tags'[s] = tags[s], list'[s] = list[s], pc'[s] = pc[s], used'[s] = used[s],
         blocks'[s] = blocks[s]
  PROVE  Merges(s)'
  BY MergesKept

\* Where one reconcile finds room, no other has anything.
LEMMA OthersMerge ==
  ASSUME Separate, IInv, LInv', NEW s \in Shoot, NEW t \in Shoot \ {s},
         NEW slice \in SliceType, Within(slice), NEW more, Private(more),
         WritesOfAppend(slice, more), InPlace(slice, more) => Room(service, s, slice.arr),
         Workers = 1 => pc[t] = "idle", service' = service,
         tags'[t] = tags[t], list'[t] = list[t], pc'[t] = pc[t], used'[t] = used[t],
         blocks'[t] = blocks[t]
  PROVE  Merges(t)'
  <1>1. /\ array \in [Arrays -> Seq(Cell)] /\ array' \in [Arrays -> Seq(Cell)]
        /\ \A arr \in Arrays : Intact(array, arr) /\ Intact(array', arr)
        /\ \A arr \in Arrays : array'[arr] = array[arr] \/ (InPlace(slice, more) /\ arr = slice.arr)
    BY AppendWrites DEF IInv, LInv, TypeOK
  <1>2. /\ tags[t] \in SliceType /\ Within(tags[t]) /\ list[t] \in SliceType /\ Within(list[t])
        /\ Merges(t)
    BY DEF IInv, LInv, TypeOK, Advances
  <1>3. ASSUME NEW other \in SliceType, other.shared, InRoom(t, other), pc[t] # "idle",
               array'[other.arr] # array[other.arr]
        PROVE  other.len <= SizeOf(other.arr).len
    <2>1. other.arr \in Arrays /\ other.len \in Nat /\ SizeOf(other.arr).len \in Nat
      BY SizesAreSizes DEF SliceType
    <2>2. Room(service, s, other.arr) /\ Workers # 1
      BY <1>1, <1>3, <2>1
    <2>3. ~Room(service, t, other.arr)
      BY <2>1, <2>2 DEF Separate, IInv, LInv, TypeOK
    <2> QED
      BY <1>3, <2>1, <2>3 DEF InRoom
  <1>4. ASSUME NEW other \in SliceType, Within(other), InRoom(t, other),
               pc[t] = "idle" => ~other.shared
        PROVE  ReadOf(array', other) = ReadOf(array, other)
    <2>1. other.shared => other.arr \in Arrays
      BY DEF SliceType
    <2> QED
      BY <1>1, <1>3, <1>4, <2>1, ReadKept
  <1>5. /\ ReadOf(array', tags[t]) = ReadOf(array, tags[t])
        /\ ReadOf(array', list[t]) = ReadOf(array, list[t])
    BY <1>2, <1>4 DEF Merges
  <1> QED
    BY <1>2, <1>5, MergesKept

\* One worker has one reconcile.
LEMMA BusyKept ==
  ASSUME TypeOK, IsFiniteSet(Busy), Alone, [Next]_vars
  PROVE  IsFiniteSet(Busy') /\ Alone'
  <1>1. ASSUME NEW s \in Shoot, StartReconcile(s) PROVE IsFiniteSet(Busy') /\ Alone'
    <2>1. Busy' = Busy \cup {s} /\ Cardinality(Busy) < Workers
      BY <1>1 DEF StartReconcile, Goto, Busy, TypeOK
    <2>2. IsFiniteSet(Busy')
      BY <2>1, FS_AddElement
    <2>3. ASSUME Workers = 1 PROVE Busy = {}
      <3>1. Cardinality(Busy) \in Nat
        BY FS_CardinalityType
      <3>2. Cardinality(Busy) = 0
        BY <2>1, <2>3, <3>1
      <3> QED
        BY <3>2, FS_EmptySet
    <2> QED
      BY <2>1, <2>2, <2>3 DEF Alone
  <1>2. ASSUME Busy' \subseteq Busy PROVE IsFiniteSet(Busy') /\ Alone'
    <2>1. IsFiniteSet(Busy')
      BY <1>2, FS_Subset
    <2> QED
      BY <1>2, <2>1 DEF Alone
  <1>3. ASSUME NEW s \in Shoot, pc[s] # "idle", NEW to, pc' = [pc EXCEPT ![s] = to]
        PROVE  Busy' \subseteq Busy
    BY <1>3 DEF Busy, TypeOK
  <1>4. ASSUME NEW s \in Shoot, \/ GetFilterList(s) \/ FilterByTags(s) \/ AppendStatic(s)
                                \/ CollectBlocks(s) \/ CarveAllowsAndDeploy(s)
        PROVE  Busy' \subseteq Busy
    BY <1>3, <1>4 DEF GetFilterList, FilterByTags, AppendStatic, CollectBlocks,
       CarveAllowsAndDeploy, Goto
  <1>5. CASE BeginStore \/ EndStore \/ UNCHANGED vars
    <2>1. pc' = pc
      BY <1>5 DEF BeginStore, EndStore, vars
    <2> QED
      BY <1>2, <2>1 DEF Busy
  <1>6. CASE Restart
    <2>1. Busy' = {}
      BY <1>6 DEF Restart, Busy
    <2> QED
      BY <1>2, <2>1
  <1> QED
    BY <1>1, <1>2, <1>4, <1>5, <1>6 DEF Next

\* With one worker, no other reconcile runs beside one that runs.
LEMMA OthersIdle ==
  ASSUME IInv, NEW s \in Shoot, NEW t \in Shoot \ {s}, Workers = 1,
         s \in Busy \/ Cardinality(Busy) < Workers
  PROVE  pc[t] = "idle"
  <1>1. CASE s \in Busy
    BY <1>1 DEF IInv, Alone, Busy
  <1>2. CASE Cardinality(Busy) < Workers
    <2>1. Cardinality(Busy) = 0
      BY <1>2, FS_CardinalityType DEF IInv
    <2>2. Busy = {}
      BY <2>1, FS_EmptySet DEF IInv
    <2> QED
      BY <2>2 DEF Busy
  <1> QED
    BY <1>1, <1>2

\* The rest of the invariant, when the reconcile that moves is right.
LEMMA OthersKeep ==
  ASSUME IInv, LInv', [Next]_vars, \A t \in Shoot : Merges(t)',
         deployed' = deployed
  PROVE  IInv'
  BY BusyKept DEF IInv, LInv, DeployedIsMerged, TagsAreMerged, Deployed

\* The tag filters that are merged are those of the service and the Extension.
LEMMA StartKeeps ==
  ASSUME Separate, IInv, LInv', NEW s \in Shoot, StartReconcile(s)
  PROVE  IInv'
  <1> DEFINE more == ShootTags(s)
  <1>1. /\ pc[s] = "idle" /\ pc'[s] = "get" /\ Cardinality(Busy) < Workers
        /\ tags' = [tags EXCEPT ![s] = Appended(TagFilters, more)]
        /\ WritesOfAppend(TagFilters, more)
        /\ UNCHANGED <<service, filterList, storing, list, used, blocks, deployed>>
        /\ Merges(s) /\ list[s] \in SliceType
        /\ \A t \in Shoot \ {s} : tags'[t] = tags[t] /\ pc'[t] = pc[t]
    BY DEF StartReconcile, Goto, IInv, LInv, TypeOK
  <1>2. /\ TagFilters \in SliceType /\ Within(TagFilters)
        /\ TagFilters.shared /\ TagFilters.arr = service
        /\ TagFilters.len = SizeOf(service).len /\ TagFilters.cap = SizeOf(service).cap
    BY ServiceIsSlice DEF IInv, LInv, TypeOK
  <1>3. Private(more) /\ Len(more) = ShootTagLen[s] /\ ShootTagLen[s] \in Nat
    BY ListsArePrivate, ListsAreSeqs, SharedAssumption
  <1>4. service \in TagArrays /\ service \in Arrays /\ SizeOf(service).len \in Nat
    BY SizesAreSizes DEF IInv, LInv, TypeOK
  <1>5. InPlace(TagFilters, more) => Room(service, s, TagFilters.arr)
    <2> SUFFICES ASSUME InPlace(TagFilters, more) PROVE Room(service, s, service)
      BY <1>2
    <2>1. more # <<>> /\ SizeOf(service).len + Len(more) <= SizeOf(service).cap
      BY <1>2 DEF InPlace
    <2>2. Len(more) # 0
      BY <1>3, <2>1, EmptySeq DEF Private
    <2> HIDE DEF more
    <2> QED
      BY <1>3, <1>4, <2>1, <2>2 DEF Room
  <1> HIDE DEF more
  <1>6. ReadOf(array, TagFilters) = Contents(service)
    <2>1. /\ array[service] \in Seq(Cell) /\ Len(array[service]) = SizeOf(service).cap
          /\ \A k \in 1 .. SizeOf(service).len : array[service][k] = Contents(service)[k]
          /\ SizeOf(service).len <= SizeOf(service).cap /\ SizeOf(service).cap \in Nat
      BY <1>4, SizesAreSizes DEF IInv, LInv, TypeOK, Intact
    <2>2. \A k \in 1 .. SizeOf(service).len : k \in DOMAIN array[service]
      BY <1>4, <2>1
    <2>3. \A k \in 1 .. SizeOf(service).len : ReadOf(array, TagFilters)[k] = Contents(service)[k]
      BY <1>2, <2>1, <2>2 DEF ReadOf
    <2>4. ReadOf(array, TagFilters) \in Seq(Cell) /\ Len(ReadOf(array, TagFilters)) = SizeOf(service).len
      BY <1>2, ReadLength DEF IInv, LInv, TypeOK
    <2>5. Contents(service) \in Seq(Cell) /\ Len(Contents(service)) = SizeOf(service).len
      BY <1>4, ListsAreSeqs
    <2> QED
      BY <2>3, <2>4, <2>5, SameSeq
  <1>7. ReadOf(array', Appended(TagFilters, more)) = MergedTags(s)
    BY <1>1, <1>2, <1>3, <1>6, AppendWrites DEF IInv, MergedTags, more
  <1>8. InRoom(s, Appended(TagFilters, more))
    BY <1>2, <1>4, <1>5, AppendedInRoom DEF InRoom
  <1>9. tags'[s] = Appended(TagFilters, more) /\ list'[s] = list[s] /\ used'[s] = used[s]
    BY <1>1 DEF IInv, LInv, TypeOK
  <1>10. Merges(s)'
    BY <1>1, <1>7, <1>8, <1>9 DEF Merges, MergedTags, InRoom
  <1>11. \A t \in Shoot \ {s} : Merges(t)'
    BY <1>1, <1>2, <1>3, <1>5, OthersMerge, OthersIdle
  <1> QED
    BY <1>1, <1>10, <1>11, OthersKeep DEF Next

\* A reconcile gets the whole of the current list.
LEMMA GetKeeps ==
  ASSUME Separate, IInv, LInv', NEW s \in Shoot, GetFilterList(s)
  PROVE  IInv'
  <1>1. /\ filterList \in Version
        /\ list'[s] = Slice(filterList, SizeOf(filterList).len, SizeOf(filterList).cap)
    BY HeaderIsWhole DEF Separate, IInv
  <1>2. /\ pc[s] = "get" /\ pc'[s] = IF tags[s].len > 0 THEN "filter" ELSE "append"
        /\ UNCHANGED <<array, service, filterList, storing, tags, used, blocks, deployed>>
        /\ Merges(s) /\ tags[s] \in SliceType /\ Within(tags[s])
        /\ \A t \in Shoot \ {s} : list'[t] = list[t] /\ pc'[t] = pc[t]
    BY DEF GetFilterList, Goto, IInv, LInv, TypeOK, Advances
  <1>3. /\ list'[s].shared /\ list'[s].arr = filterList /\ list'[s].len = Download[filterList].len
        /\ list'[s] \in SliceType /\ Within(list'[s])
    <2>1. /\ Slice(filterList, SizeOf(filterList).len, SizeOf(filterList).cap).shared
          /\ Slice(filterList, SizeOf(filterList).len, SizeOf(filterList).cap).arr = filterList
          /\ Slice(filterList, SizeOf(filterList).len, SizeOf(filterList).cap).len
               = SizeOf(filterList).len
      BY DEF Slice
    <2>2. LInv' => list'[s] \in SliceType /\ Within(list'[s])
      BY DEF LInv, TypeOK, Advances
    <2> QED
      BY <1>1, <2>1, <2>2, DownloadsAreArrays
  <1>4. ReadOf(array', list'[s]) = Contents(filterList)
    <2> DEFINE n == Download[filterList].len
               p == ReadOf(array', list'[s])
    <2>1. /\ array[filterList] \in Seq(Cell) /\ Len(array[filterList]) = Download[filterList].cap
          /\ \A k \in 1 .. n : array[filterList][k] = Contents(filterList)[k]
          /\ n <= Download[filterList].cap /\ Download[filterList].cap \in Nat /\ n \in Nat
      <3>1. /\ filterList \in Arrays /\ SizeOf(filterList) = Download[filterList]
            /\ n <= Download[filterList].cap /\ Download[filterList].cap \in Nat /\ n \in Nat
        BY <1>1, DownloadsAreArrays
      <3>2. array[filterList] \in Seq(Cell) /\ Intact(array, filterList)
        BY <3>1 DEF IInv, LInv, TypeOK
      <3> QED
        BY <3>1, <3>2 DEF Intact
    <2>2. \A k \in 1 .. n : k \in DOMAIN array[filterList]
      BY <2>1
    <2>3. \A k \in 1 .. n : p[k] = Contents(filterList)[k]
      BY <1>2, <1>3, <2>1, <2>2 DEF ReadOf
    <2>4. p \in Seq(Cell) /\ Len(p) = n
      BY <1>2, <1>3, ReadLength DEF IInv, LInv, TypeOK
    <2>5. Contents(filterList) \in Seq(Cell) /\ Len(Contents(filterList)) = n
      BY <1>1, DownloadsAreArrays
    <2> HIDE DEF p
    <2>6. p = Contents(filterList)
      BY <2>3, <2>4, <2>5, SameSeq
    <2> QED
      BY <2>6 DEF p
  <1>5. /\ ReadOf(array, tags[s]) = MergedTags(s) /\ InRoom(s, tags[s]) /\ used[s] = <<>>
        /\ MergedTags(s) \in Seq(Cell) /\ Len(MergedTags(s)) = tags[s].len /\ tags[s].len \in Nat
    <2>1. ReadOf(array, tags[s]) \in Seq(Cell) /\ Len(ReadOf(array, tags[s])) = tags[s].len
      BY <1>2, ReadLength DEF IInv, LInv, TypeOK
    <2> QED
      BY <1>2, <2>1 DEF Merges, SliceType
  <1>6. pc'[s] = "append" => MergedTags(s) = <<>>
    BY <1>2, <1>5, EmptySeq
  <1>7. InRoom(s, list'[s])
    BY <1>1, <1>3, DownloadsAreArrays DEF InRoom
  <1>8. Comes(list'[s], filterList)
    BY <1>3 DEF Comes
  <1>9. tags'[s] = tags[s] /\ used'[s] = used[s] /\ pc'[s] \in {"filter", "append"}
        /\ ReadOf(array', tags'[s]) = MergedTags(s)
    BY <1>2, <1>5
  <1>10. MergedTags(s)' = MergedTags(s) /\ InRoom(s, tags[s])' /\ InRoom(s, list[s])'
    BY <1>2, <1>5, <1>7, <1>9 DEF MergedTags, InRoom
  <1>11. Merges(s)'
    BY <1>1, <1>4, <1>5, <1>6, <1>8, <1>9, <1>10 DEF Merges
  <1>12. \A t \in Shoot : t # s => Merges(t)'
    BY <1>2, QuietMerges DEF IInv
  <1> QED
    BY <1>2, <1>11, <1>12, OthersKeep DEF Next

\* The copy of filterByTags has the entries of the list.
LEMMA FilterKeeps ==
  ASSUME Separate, IInv, LInv', NEW s \in Shoot, FilterByTags(s)
  PROVE  IInv'
  <1>1. /\ pc[s] = "filter" /\ pc'[s] = "append"
        /\ list'[s] = Own(Read(list[s])) /\ used'[s] = Read(tags[s])
        /\ UNCHANGED <<array, service, filterList, storing, tags, blocks, deployed>>
        /\ Merges(s) /\ list[s] \in SliceType /\ Within(list[s])
        /\ \A t \in Shoot \ {s} : list'[t] = list[t] /\ pc'[t] = pc[t] /\ used'[t] = used[t]
    BY DEF FilterByTags, Goto, IInv, LInv, TypeOK, Advances
  <1>2. PICK v \in Version : Comes(list[s], v) /\ ReadOf(array, list[s]) = Contents(v)
    BY <1>1 DEF Merges
  <1>3. ~list'[s].shared /\ list'[s].own = Read(list[s])
    BY <1>1 DEF Own
  <1>4. Comes(list'[s], v) /\ InRoom(s, list'[s])
    BY <1>1, <1>2, <1>3, ReadIsOf DEF IInv, Comes, InRoom
  <1>5. ReadOf(array', list'[s]) = Contents(v)
    BY <1>2, <1>3, ReadIsReadOf DEF ReadOf
  <1>6. used'[s] = MergedTags(s)
    BY <1>1, ReadIsReadOf DEF Merges
  <1>7. tags'[s] = tags[s]
    BY <1>1
  <1>8. Merges(s)'
    BY <1>1, <1>3, <1>4, <1>5, <1>6, <1>7 DEF Merges, MergedTags, InRoom
  <1>9. \A t \in Shoot : t # s => Merges(t)'
    BY <1>1, QuietMerges DEF IInv
  <1> QED
    BY <1>1, <1>8, <1>9, OthersKeep DEF Next

\* The static filters that are merged are the Extension's own.
LEMMA AppendKeeps ==
  ASSUME Separate, IInv, LInv', NEW s \in Shoot, AppendStatic(s)
  PROVE  IInv'
  <1> DEFINE more == StaticFilters(s)
  <1>1. /\ pc[s] = "append" /\ pc'[s] = "collect"
        /\ list'[s] = Appended(list[s], more) /\ WritesOfAppend(list[s], more)
        /\ UNCHANGED <<service, filterList, storing, tags, used, blocks, deployed>>
        /\ Merges(s) /\ list[s] \in SliceType /\ Within(list[s])
        /\ \A t \in Shoot \ {s} : list'[t] = list[t] /\ pc'[t] = pc[t]
    BY DEF AppendStatic, Goto, IInv, LInv, TypeOK, Advances
  <1>2. PICK v \in Version : Comes(list[s], v) /\ ReadOf(array, list[s]) = Contents(v)
    BY <1>1 DEF Merges
  <1>3. Private(more) /\ Len(more) = StaticLen[s] /\ StaticLen[s] \in Nat
    BY ListsArePrivate, ListsAreSeqs, SharedAssumption
  <1> HIDE DEF more
  <1>4. InPlace(list[s], more) => Room(service, s, list[s].arr)
    <2> SUFFICES ASSUME InPlace(list[s], more) PROVE Room(service, s, list[s].arr)
      OBVIOUS
    <2>1. /\ list[s].shared /\ more # <<>> /\ list[s].len + Len(more) <= list[s].cap
          /\ list[s].arr = v
      BY <1>2 DEF InPlace, Comes
    <2>2. /\ v \notin TagArrays /\ list[s].cap = Download[v].cap
          /\ Contents(v) \in Seq(Cell) /\ Len(Contents(v)) = Download[v].len
      BY <1>1, <2>1, DownloadsAreArrays DEF Within
    <2>3. Len(ReadOf(array, list[s])) = list[s].len
      BY <1>1, ReadLength DEF IInv, LInv, TypeOK
    <2>4. list[s].len = Download[v].len
      BY <1>2, <2>2, <2>3
    <2>5. Len(more) # 0
      BY <1>3, <2>1, EmptySeq DEF Private
    <2>6. SizeOf(service).len + ShootTagLen[s] = 0
      <3>1. MergedTags(s) = <<>>
        BY <1>1, <2>1 DEF Merges
      <3>2. /\ Contents(service) \in Seq(Cell) /\ Len(Contents(service)) = SizeOf(service).len
            /\ ShootTags(s) \in Seq(Cell) /\ Len(ShootTags(s)) = ShootTagLen[s]
        BY ListsAreSeqs, SizesAreSizes DEF IInv, LInv, TypeOK
      <3>3. Len(MergedTags(s)) = Len(Contents(service)) + Len(ShootTags(s))
        BY <3>2, Zenon, ConcatProperties DEF MergedTags
      <3> QED
        BY <3>1, <3>2, <3>3, EmptySeq
    <2> QED
      BY <1>3, <2>1, <2>2, <2>4, <2>5, <2>6 DEF Room
  <1>5. ReadOf(array', list'[s]) = Merged(v, s)
    BY <1>1, <1>2, <1>3, AppendWrites DEF IInv, Merged, more
  <1>6. InRoom(s, list'[s])
    BY <1>1, <1>4, AppendedInRoom DEF Merges
  <1>7. tags'[s] = tags[s] /\ used'[s] = used[s]
    BY <1>1
  <1>8. Merges(s)'
    BY <1>1, <1>5, <1>6, <1>7 DEF Merges, MergedTags, InRoom
  <1>9. \A t \in Shoot \ {s} : Merges(t)'
    <2>1. s \in Busy
      BY <1>1 DEF Busy
    <2> QED
      BY <1>1, <1>3, <1>4, <2>1, OthersMerge, OthersIdle
  <1> QED
    BY <1>1, <1>8, <1>9, OthersKeep DEF Next

\* The first pass reads the merged list.
LEMMA CollectKeeps ==
  ASSUME Separate, IInv, LInv', NEW s \in Shoot, CollectBlocks(s)
  PROVE  IInv'
  <1>1. /\ pc[s] = "collect" /\ pc'[s] = "carve" /\ blocks'[s] = Read(list[s])
        /\ UNCHANGED <<array, service, filterList, storing, tags, list, used, deployed>>
        /\ Merges(s)
        /\ \A t \in Shoot \ {s} : blocks'[t] = blocks[t] /\ pc'[t] = pc[t]
    BY DEF CollectBlocks, Goto, IInv, LInv, TypeOK
  <1>2. blocks'[s] = ReadOf(array', list'[s])
    BY <1>1, ReadIsReadOf
  <1>3. Merges(s)'
    BY <1>1, <1>2 DEF Merges, MergedTags, InRoom
  <1>4. \A t \in Shoot : t # s => Merges(t)'
    BY <1>1, QuietMerges DEF IInv
  <1> QED
    BY <1>1, <1>3, <1>4, OthersKeep DEF Next

\* The second pass reads the same list; it is deployed.
LEMMA CarveKeeps ==
  ASSUME Separate, IInv, LInv', NEW s \in Shoot, CarveAllowsAndDeploy(s)
  PROVE  IInv'
  <1>1. /\ pc[s] = "carve" /\ pc'[s] = "idle"
        /\ tags'[s] = Own(<<>>) /\ list'[s] = Own(<<>>) /\ used'[s] = <<>>
        /\ deployed'[s] = [blocks |-> blocks[s], allows |-> Read(list[s]), tags |-> used[s]]
        /\ UNCHANGED <<array, service, filterList, storing>>
        /\ Merges(s)
        /\ \A t \in Shoot \ {s} : /\ tags'[t] = tags[t] /\ list'[t] = list[t] /\ pc'[t] = pc[t]
                                   /\ used'[t] = used[t] /\ blocks'[t] = blocks[t]
                                   /\ deployed'[t] = deployed[t]
    BY DEF CarveAllowsAndDeploy, Goto, IInv, LInv, TypeOK
  <1>2. PICK v \in Version : ReadOf(array, list[s]) = Merged(v, s)
    BY <1>1 DEF Merges
  <1>3. /\ deployed'[s].blocks = Merged(v, s) /\ deployed'[s].allows = Merged(v, s)
        /\ deployed'[s].tags = MergedTags(s)
    BY <1>1, <1>2, ReadIsReadOf DEF Merges
  <1>4. Merges(s)'
    <2>1. ~Own(<<>>).shared
      BY DEF Own
    <2> QED
      BY <1>1, <2>1 DEF Merges, InRoom
  <1>5. \A t \in Shoot : t # s => Merges(t)'
    BY <1>1, QuietMerges DEF IInv
  <1>6. DeployedIsMerged'
    <2> SUFFICES ASSUME NEW t \in Shoot, deployed'[t] # Nothing
                 PROVE  \E w \in Version : /\ deployed'[t].blocks = Merged(w, t)
                                           /\ deployed'[t].allows = deployed'[t].blocks
      BY DEF DeployedIsMerged, Deployed, Merged
    <2>1. CASE t = s
      BY <1>3, <2>1
    <2>2. CASE t # s
      BY <1>1, <2>2 DEF IInv, DeployedIsMerged, Deployed, Merged
    <2> QED
      BY <2>1, <2>2
  <1>7. TagsAreMerged'
    <2> SUFFICES ASSUME NEW t \in Shoot, deployed'[t] # Nothing
                 PROVE  \E arr \in TagArrays : deployed'[t].tags = Contents(arr) \o ShootTags(t)
      BY DEF TagsAreMerged, Deployed
    <2>1. CASE t = s
      <3>1. service \in TagArrays
        BY DEF IInv, LInv, TypeOK
      <3> QED
        BY <1>3, <2>1, <3>1 DEF MergedTags
    <2>2. CASE t # s
      BY <1>1, <2>2 DEF IInv, TagsAreMerged, Deployed
    <2> QED
      BY <2>1, <2>2
  <1>8. IsFiniteSet(Busy') /\ Alone'
    BY BusyKept DEF IInv, LInv, Next
  <1> QED
    BY <1>4, <1>5, <1>6, <1>7, <1>8 DEF IInv

\* Nothing is merged yet when no reconcile has begun.
LEMMA InitIInv == Init => IInv
  <1> SUFFICES ASSUME Init PROVE IInv
    OBVIOUS
  <1>1. LInv
    BY InitLInv
  <1>2. Busy = {}
    BY DEF Init, Busy
  <1>3. \A s \in Shoot : Merges(s)
    <2>1. ~Own(<<>>).shared
      BY DEF Own
    <2> QED
      BY <2>1 DEF Init, Merges, InRoom
  <1>4. DeployedIsMerged /\ TagsAreMerged
    BY DEF Init, DeployedIsMerged, TagsAreMerged, Deployed
  <1> QED
    BY <1>1, <1>2, <1>3, <1>4, FS_EmptySet DEF IInv, Alone

\* A new process has merged nothing.
LEMMA RestartKeeps ==
  ASSUME IInv, LInv', Restart
  PROVE  IInv'
  <1>1. \A s \in Shoot : Merges(s)'
    <2>1. ~Own(<<>>).shared
      BY DEF Own
    <2> QED
      BY <2>1 DEF Restart, Merges, InRoom
  <1> QED
    BY <1>1, OthersKeep DEF Restart, Next

\* When reconciles do not meet, every step keeps the invariant.
LEMMA NextKeeps == Separate /\ IInv /\ [Next]_vars => IInv'
  <1> SUFFICES ASSUME Separate, IInv, [Next]_vars PROVE IInv'
    OBVIOUS
  <1>1. LInv'
    BY NextAdvances DEF Separate, IInv
  <1>2. CASE BeginStore \/ EndStore \/ UNCHANGED vars
    <2>1. UNCHANGED <<array, service, pc, tags, list, used, blocks, deployed>>
      BY <1>2 DEF BeginStore, EndStore, vars
    <2>2. \A s \in Shoot : Merges(s)'
      BY <2>1, QuietMerges DEF IInv
    <2> QED
      BY <1>1, <2>1, <2>2, OthersKeep
  <1>3. CASE Restart
    BY <1>1, <1>3, RestartKeeps
  <1> QED
    BY <1>1, <1>2, <1>3, StartKeeps, GetKeeps, FilterKeeps, AppendKeeps, CollectKeeps, CarveKeeps
    DEF Next

\* The invariant of reconciles that do not meet.
LEMMA Invariance == ASSUME Separate PROVE Spec => []IInv
  <1>1. Init => IInv
    BY InitIInv
  <1>2. IInv /\ [Next]_vars => IInv'
    BY NextKeeps
  <1> QED
    BY <1>1, <1>2, PTL DEF Spec

\* With one worker, or when no array has room for two, what a reconcile deploys
\* is one whole download and the Extension's own static filters, also when it
\* appends them in place (combineDownloadedAndStaticFilters).
THEOREM SeparateDeploysMerged == ASSUME Separate PROVE Spec => []DeployedIsMerged
  <1>1. IInv => DeployedIsMerged
    BY DEF IInv
  <1> QED
    BY <1>1, Invariance, PTL

\* ... and the tag filters it applies are the service's and the Extension's own.
THEOREM SeparateAppliesTags == ASSUME Separate PROVE Spec => []TagsAreMerged
  <1>1. IInv => TagsAreMerged
    BY DEF IInv
  <1> QED
    BY <1>1, Invariance, PTL

\* The elements of a list that is put behind another are there.
ConcatHas(p, q, k) == \E i \in DOMAIN (p \o q) : (p \o q)[i] = q[k]

\* Every element of the second list is in the concatenation.
LEMMA ConcatHasSecond ==
  ASSUME NEW p \in Seq(Cell), NEW q \in Seq(Cell), NEW k \in 1 .. Len(q)
  PROVE  ConcatHas(p, q, k)
  <1>1. /\ Len(p) \in Nat /\ Len(q) \in Nat /\ p \o q \in Seq(Cell)
        /\ Len(p \o q) = Len(p) + Len(q)
        /\ \A i \in 1 .. Len(p) + Len(q) : (p \o q)[i] = IF i <= Len(p) THEN p[i] ELSE q[i - Len(p)]
    BY ConcatProperties
  <1>2. /\ Len(p) + k \in 1 .. Len(p) + Len(q) /\ ~(Len(p) + k <= Len(p))
        /\ (Len(p) + k) - Len(p) = k
    BY <1>1
  <1>3. Len(p) + k \in DOMAIN (p \o q) /\ (p \o q)[Len(p) + k] = q[k]
    BY <1>1, <1>2
  <1> QED
    BY <1>3 DEF ConcatHas

\* Then the documentation is right that static filters are always merged and the
\* tag filters of the Extension with those of the service.
THEOREM SeparateMergesAll == ASSUME Separate PROVE Spec => [](StaticAlwaysMerged /\ ShootTagsMerged)
  <1>1. ASSUME TypeOK, DeployedIsMerged, NEW s \in Deployed, NEW k \in 1 .. StaticLen[s]
        PROVE  \E i \in DOMAIN deployed[s].blocks : deployed[s].blocks[i] = StaticFilters(s)[k]
    <2>1. s \in Shoot /\ StaticLen[s] \in Nat
      BY SharedAssumption DEF Deployed
    <2>2. PICK v \in Version : deployed[s].blocks = Merged(v, s)
      BY <1>1 DEF DeployedIsMerged, Merged
    <2>3. Contents(v) \in Seq(Cell) /\ Len(Contents(v)) \in Nat
      BY DownloadsAreArrays
    <2>4. StaticFilters(s) \in Seq(Cell) /\ Len(StaticFilters(s)) = StaticLen[s]
      BY <2>1, ListsAreSeqs
    <2>5. ConcatHas(Contents(v), StaticFilters(s), k)
      BY <2>3, <2>4, ConcatHasSecond
    <2> QED
      BY <2>2, <2>5 DEF ConcatHas, Merged
  <1>2. ASSUME TypeOK, TagsAreMerged, NEW s \in Deployed, NEW k \in 1 .. ShootTagLen[s]
        PROVE  \E i \in DOMAIN deployed[s].tags : deployed[s].tags[i] = ShootTags(s)[k]
    <2>1. s \in Shoot /\ ShootTagLen[s] \in Nat
      BY SharedAssumption DEF Deployed
    <2>2. PICK arr \in TagArrays : deployed[s].tags = Contents(arr) \o ShootTags(s)
      BY <1>2 DEF TagsAreMerged
    <2>3. Contents(arr) \in Seq(Cell)
      BY ListsAreSeqs, SizesAreSizes
    <2>4. ShootTags(s) \in Seq(Cell) /\ Len(ShootTags(s)) = ShootTagLen[s]
      BY <2>1, ListsAreSeqs
    <2>5. ConcatHas(Contents(arr), ShootTags(s), k)
      BY <2>3, <2>4, ConcatHasSecond
    <2> QED
      BY <2>2, <2>5 DEF ConcatHas
  <1>3. IInv => StaticAlwaysMerged /\ ShootTagsMerged
    BY <1>1, <1>2 DEF IInv, LInv, StaticAlwaysMerged, ShootTagsMerged
  <1> QED
    BY <1>3, Invariance, PTL
=============================================================================
