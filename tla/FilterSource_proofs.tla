------------------------- MODULE FilterSource_proofs -------------------------
(***************************************************************************)
(* Proofs about the source of the filters, for any documents, secrets,     *)
(* configurations and number of changes and crashes.                       *)
(***************************************************************************)
EXTENDS FilterSource, WellFoundedInduction, TLAPS

\* What a reconcile has found missing before it came to where it is.
Passed ==
    /\ pc \in {"project", "download"} => (taken.shoot => "shoot" \in absent)
    /\ pc = "download" => (taken.project => "project" \in absent)

IInv == TypeOK /\ DownloadStaysAcceptable /\ Passed /\ FallbackOnlyWhenMissing

\* What download accepts is acceptable.
LEMMA DownloadIsAcceptable ==
  ASSUME NEW d, download(d).ok
  PROVE  Acceptable(download(d).list)
  <1> DEFINE bad == d = Unreadable \/ d.encoding \in {"gzip", "truncated"}
                      \/ ~Acceptable(parseFilterList(d).list)
  <1>1. CASE bad
    <2>1. download(d) = Failed
      BY <1>1 DEF download
    <2> QED
      BY <2>1 DEF Failed
  <1>2. CASE ~bad
    <2>1. download(d) = parseFilterList(d)
      BY <1>2 DEF download
    <2> QED
      BY <1>2, <2>1
  <1> QED
    BY <1>1, <1>2

\* Nothing has been read and nothing is kept at the beginning.
LEMMA InitIInv == Init => IInv
  <1> SUFFICES ASSUME Init PROVE IInv
    OBVIOUS
  <1>1. TypeOK
    BY SourceAssumption DEF Init, TypeOK, Sources
  <1> QED
    BY <1>1 DEF Init, IInv, DownloadStaysAcceptable, Passed, FallbackOnlyWhenMissing

\* What Observe remembers: nothing between reconciles, and in one of them what
\* it knew before and what is missing now.
LEMMA ObserveKeeps ==
  ASSUME IInv, Observe
  PROVE  /\ absent' \subseteq {"shoot", "project"}
         /\ pc' # "idle" => /\ absent \subseteq absent'
                            /\ shootSecret' = Missing => "shoot" \in absent'
                            /\ projectSecret' = Missing => "project" \in absent'
  BY DEF Observe, IInv, TypeOK

\* Users and the server change what is read later.
LEMMA ChangesKeep ==
  ASSUME IInv, Observe,
         ChangeServed \/ ChangeProjectSecret \/ ChangeShootSecret \/ ChangeConfig
  PROVE  IInv'
  <1>1. UNCHANGED <<process, refreshPeriod, pc, taken, source, data, list, deployed>>
    BY DEF ChangeServed, ChangeProjectSecret, ChangeShootSecret, ChangeConfig, Change
  <1>2. changes' \in 0 .. MaxChanges
    BY SourceAssumption DEF ChangeServed, ChangeProjectSecret, ChangeShootSecret, ChangeConfig,
       Change, IInv, TypeOK
  <1>3. /\ served' \in Documents \cup {Unreadable}
        /\ {projectSecret', shootSecret'} \subseteq Documents \cup {Missing, Unreadable}
        /\ cfg' \in Configs
    BY DEF ChangeServed, ChangeProjectSecret, ChangeShootSecret, ChangeConfig, Change, IInv, TypeOK
  <1>4. TypeOK'
    BY <1>1, <1>2, <1>3, ObserveKeeps DEF IInv, TypeOK, process
  <1> QED
    BY <1>1, <1>4, ObserveKeeps
    DEF IInv, TypeOK, process, DownloadStaysAcceptable, Passed, FallbackOnlyWhenMissing

\* The provider stores only what download accepts.
LEMMA ProviderKeeps ==
  ASSUME IInv, Observe, Provide \/ Refresh
  PROVE  IInv'
  <1>1. UNCHANGED <<world, pc, taken, source, data, list, deployed>>
    BY DEF Provide, SetupSucceeds, SetupFails, Restart, Refresh
  <1>2. TypeOK'
    BY <1>1, ObserveKeeps DEF Provide, SetupSucceeds, SetupFails, Restart, Refresh, world, IInv, TypeOK
  <1>3. DownloadStaysAcceptable'
    BY DownloadIsAcceptable
    DEF Provide, SetupSucceeds, SetupFails, Restart, Refresh, IInv, DownloadStaysAcceptable
  <1> QED
    BY <1>1, <1>2, <1>3, ObserveKeeps DEF IInv, TypeOK, Passed, FallbackOnlyWhenMissing

\* A reconcile begins with the source that the configuration asks for first.
LEMMA BeginKeeps ==
  ASSUME IInv, Observe, Begin
  PROVE  IInv'
  <1>1. TypeOK'
    BY ObserveKeeps DEF Begin, world, process, IInv, TypeOK, Sources
  <1>2. /\ pc' = "project" => ~taken'.shoot
        /\ pc' = "download" => ~taken'.shoot /\ ~taken'.project
        /\ pc' # "deploy"
    BY DEF Begin
  <1> QED
    BY <1>1, <1>2
    DEF Begin, process, IInv, DownloadStaysAcceptable, Passed, FallbackOnlyWhenMissing

\* It goes on to the next source only when the secret is missing, which is
\* remembered.
LEMMA ReadKeeps ==
  ASSUME IInv, Observe, ReadShootSecret \/ ReadProjectSecret
  PROVE  IInv'
  <1>1. /\ UNCHANGED <<world, process, taken, deployed>>
        /\ pc \in {"shoot", "project"}
        /\ pc' # "idle"
    BY DEF ReadShootSecret, ReadProjectSecret, FallThrough, SecretFails, UseSecret
  <1>2. TypeOK'
    <2>1. /\ pc' \in Sources \cup {"deploy", "error"}
          /\ source' \in Sources \cup {"none"} /\ (source' = "none" <=> pc' # "deploy")
          /\ data' \in Documents \cup {NoDocument, Unreadable}
      BY DEF ReadShootSecret, ReadProjectSecret, FallThrough, SecretFails, UseSecret,
         IInv, TypeOK, Sources
    <2> QED
      BY <1>1, <2>1, ObserveKeeps DEF world, process, IInv, TypeOK
  <1>3. Passed' /\ FallbackOnlyWhenMissing'
    <2>1. /\ absent \subseteq absent'
          /\ shootSecret = Missing => "shoot" \in absent'
          /\ projectSecret = Missing => "project" \in absent'
      BY <1>1, ObserveKeeps DEF world
    <2>2. CASE pc = "shoot"
      <3>1. ReadShootSecret
        BY <2>2 DEF ReadProjectSecret, FallThrough, SecretFails, UseSecret
      <3> QED
        BY <1>1, <2>1, <2>2, <3>1
        DEF ReadShootSecret, FallThrough, SecretFails, UseSecret, Passed, FallbackOnlyWhenMissing
    <2>3. CASE pc = "project"
      <3>1. ReadProjectSecret
        BY <2>3 DEF ReadShootSecret, FallThrough, SecretFails, UseSecret
      <3> QED
        BY <1>1, <2>1, <2>3, <3>1
        DEF ReadProjectSecret, FallThrough, SecretFails, UseSecret, IInv, Passed,
            FallbackOnlyWhenMissing
    <2> QED
      BY <1>1, <2>2, <2>3
  <1> QED
    BY <1>1, <1>2, <1>3 DEF process, IInv, DownloadStaysAcceptable

\* The rest of a reconcile, and its end.
LEMMA EndKeeps ==
  ASSUME IInv, Observe, UseDownload \/ Deploy \/ GiveUp \/ Crash
  PROVE  IInv'
  <1>1. CASE UseDownload
    <2>1. TypeOK'
      BY <1>1, ObserveKeeps DEF UseDownload, world, process, IInv, TypeOK, Sources
    <2>2. Passed' /\ FallbackOnlyWhenMissing'
      BY <1>1, ObserveKeeps DEF UseDownload, IInv, Passed, FallbackOnlyWhenMissing
    <2> QED
      BY <1>1, <2>1, <2>2 DEF UseDownload, process, IInv, DownloadStaysAcceptable
  <1>2. CASE Deploy \/ GiveUp
    <2>1. TypeOK'
      BY <1>2, ObserveKeeps DEF Deploy, GiveUp, Forget, world, process, IInv, TypeOK, Sources
    <2> QED
      BY <1>2, <2>1 DEF Deploy, GiveUp, Forget, process, IInv, DownloadStaysAcceptable, Passed,
         FallbackOnlyWhenMissing
  <1>3. CASE Crash
    <2>1. TypeOK'
      BY <1>3, SourceAssumption, ObserveKeeps DEF Crash, Forget, IInv, TypeOK, Sources
    <2> QED
      BY <1>3, <2>1 DEF Crash, Forget, IInv, DownloadStaysAcceptable, Passed, FallbackOnlyWhenMissing
  <1> QED
    BY <1>1, <1>2, <1>3

\* Every step keeps the invariant.
LEMMA NextKeeps == IInv /\ [Next]_vars => IInv'
  <1> SUFFICES ASSUME IInv, [Next]_vars PROVE IInv'
    OBVIOUS
  <1>1. CASE Next
    BY <1>1, ChangesKeep, ProviderKeeps, BeginKeeps, ReadKeeps, EndKeeps DEF Next, Step, Reconcile
  <1>2. CASE UNCHANGED vars
    BY <1>2 DEF vars, IInv, TypeOK, DownloadStaysAcceptable, Passed, FallbackOnlyWhenMissing
  <1> QED
    BY <1>1, <1>2

\* The invariant holds throughout.
LEMMA Invariance == Spec => []IInv
  BY InitIInv, NextKeeps, PTL DEF Spec

\* Every variable keeps its type; a reconcile runs only in a process whose
\* provider has been set up (NewActuator), with a configuration it has decoded.
THEOREM SourceTyped == Spec => []TypeOK
  BY Invariance, PTL DEF IInv

\* A source is passed over only because its secret was missing in the course of
\* the reconcile, whatever is created, repaired or deleted meanwhile.
THEOREM SourceFallsBackWhenMissing == Spec => []FallbackOnlyWhenMissing
  BY Invariance, PTL DEF IInv

\* What the downloader keeps is what download has accepted, through refreshes
\* that fail, restarts and crashes.
THEOREM SourceKeepsAcceptable == Spec => []DownloadStaysAcceptable
  BY Invariance, PTL DEF IInv

-----------------------------------------------------------------------------
(* What the lists are made of.                                             *)

\* Induction over the natural numbers, on a set.  A minimal element outside of
\* it would contradict the hypotheses.
LEMMA SetInduction ==
  ASSUME NEW S \in SUBSET Nat, 0 \in S, \A n \in S : n + 1 \in S
  PROVE  S = Nat
  <1> SUFFICES ASSUME Nat \ S # {} PROVE FALSE
    OBVIOUS
  <1> DEFINE T == Nat \ S
  <1>1. PICK m \in T : \A n \in T : <<n, m>> \notin OpToRel(<, Nat)
    <2>1. T \subseteq Nat /\ T # {}
      OBVIOUS
    <2> QED
      BY <2>1, WFMin, NatLessThanWellFounded, Zenon
  <1>2. m # 0 /\ m \in Nat
    OBVIOUS
  <1>3. m - 1 \in Nat /\ m - 1 < m
    BY <1>2
  <1>4. <<m - 1, m>> \in OpToRel(<, Nat)
    BY <1>2, <1>3 DEF OpToRel
  <1>5. m - 1 \in S
    BY <1>1, <1>3, <1>4
  <1> QED
    BY <1>2, <1>5

\* The maximum of a non-empty set of positions is its last position.
LEMMA MaxIsLast ==
  ASSUME NEW n \in Nat, NEW S \in SUBSET (1 .. n), S # {}
  PROVE  Max(S) \in S /\ \A i \in S : i <= Max(S)
  <1> DEFINE HasTop(R) == \E j \in R : \A i \in R : j >= i
             Good == { k \in Nat : \A R \in SUBSET (1 .. k) : R # {} => HasTop(R) }
  <1>1. 0 \in Good
    <2>1. \A R \in SUBSET (1 .. 0) : R = {}
      OBVIOUS
    <2> HIDE DEF HasTop
    <2> QED
      BY <2>1
  <1>2. ASSUME NEW k \in Good PROVE k + 1 \in Good
    <2>0. k \in Nat /\ \A R \in SUBSET (1 .. k) : R # {} => HasTop(R)
      OBVIOUS
    <2>1. ASSUME NEW R \in SUBSET (1 .. k + 1), R # {} PROVE HasTop(R)
      <3>1. CASE k + 1 \in R
        BY <2>0, <3>1
      <3>2. CASE k + 1 \notin R
        <4>1. R \in SUBSET (1 .. k)
          BY <2>0, <3>2
        <4> HIDE DEF HasTop
        <4> QED
          BY <2>0, <2>1, <4>1
      <3> QED
        BY <3>1, <3>2
    <2> HIDE DEF HasTop
    <2> QED
      BY <2>0, <2>1
  <1>3. Good = Nat
    <2>1. Good \in SUBSET Nat
      OBVIOUS
    <2> HIDE DEF Good
    <2> QED
      BY <1>1, <1>2, <2>1, SetInduction
  <1>4. HasTop(S)
    <2> HIDE DEF HasTop
    <2> QED
      BY <1>3
  <1> QED
    BY <1>4 DEF Max

\* A list put behind another has the entries of both.
LEMMA ToSetConcat ==
  ASSUME NEW T, NEW s \in Seq(T), NEW t \in Seq(T)
  PROVE  s \o t \in Seq(T) /\ ToSet(s \o t) = ToSet(s) \cup ToSet(t)
  <1>1. /\ s \o t \in Seq(T) /\ Len(s) \in Nat /\ Len(t) \in Nat
        /\ DOMAIN s = 1 .. Len(s) /\ DOMAIN t = 1 .. Len(t)
        /\ DOMAIN (s \o t) = 1 .. Len(s) + Len(t)
    OBVIOUS
  <1>2. \A i \in 1 .. Len(s) : (s \o t)[i] = s[i] /\ i \in DOMAIN (s \o t)
    BY <1>1
  <1>3. \A i \in 1 .. Len(t) : (s \o t)[Len(s) + i] = t[i] /\ Len(s) + i \in DOMAIN (s \o t)
    BY <1>1
  <1>4. \A i \in 1 .. Len(s) + Len(t) :
           i \in 1 .. Len(s) \/ \E j \in 1 .. Len(t) : i = Len(s) + j
    <2> SUFFICES ASSUME NEW i \in 1 .. Len(s) + Len(t), i \notin 1 .. Len(s)
                 PROVE  \E j \in 1 .. Len(t) : i = Len(s) + j
      OBVIOUS
    <2>1. i - Len(s) \in 1 .. Len(t) /\ i = Len(s) + (i - Len(s))
      BY <1>1
    <2> QED
      BY <2>1
  <1>5. ASSUME NEW x PROVE x \in ToSet(s \o t) <=> x \in ToSet(s) \cup ToSet(t)
    <2>1. CASE x \in ToSet(s \o t)
      <3>1. PICK i \in 1 .. Len(s) + Len(t) : x = (s \o t)[i]
        BY <1>1, <2>1 DEF ToSet
      <3>2. x \in ToSet(s) \cup ToSet(t)
        BY <1>1, <1>2, <1>3, <1>4, <3>1 DEF ToSet
      <3> QED
        BY <2>1, <3>2
    <2>2. CASE x \in ToSet(s)
      BY <1>1, <1>2, <2>2 DEF ToSet
    <2>3. CASE x \in ToSet(t)
      BY <1>1, <1>3, <2>3 DEF ToSet
    <2> QED
      BY <2>1, <2>2, <2>3
  <1> QED
    BY <1>1, <1>5

\* The recursive function of FlattenSeq: what it is over the first k sequences.
Flattens(f, ss, k) == f = [i \in 1 .. k |-> IF i = 1 THEN ss[i] ELSE f[i - 1] \o ss[i]]

Collected(ss, k) == UNION { ToSet(ss[i]) : i \in 1 .. k }

\* The recursive function is there for every length.
LEMMA FlattensExists ==
  ASSUME NEW ss, NEW n \in Nat
  PROVE  \E f : Flattens(f, ss, n)
  <1> DEFINE Reached == { k \in Nat : \E f : Flattens(f, ss, k) }
  <1>1. 0 \in Reached
    <2> DEFINE f == [i \in 1 .. 0 |-> 0]
    <2>1. f = [i \in 1 .. 0 |-> IF i = 1 THEN ss[i] ELSE f[i - 1] \o ss[i]]
      OBVIOUS
    <2> QED
      BY <2>1 DEF Flattens
  <1>2. ASSUME NEW k \in Reached PROVE k + 1 \in Reached
    <2>1. k \in Nat /\ \E f : Flattens(f, ss, k)
      OBVIOUS
    <2>2. PICK f : Flattens(f, ss, k)
      BY <2>1
    <2> DEFINE g == [i \in 1 .. k + 1 |->
                        IF i <= k THEN f[i] ELSE IF i = 1 THEN ss[i] ELSE f[i - 1] \o ss[i]]
    <2>3. \A i \in 1 .. k : f[i] = IF i = 1 THEN ss[i] ELSE f[i - 1] \o ss[i]
      BY <2>2 DEF Flattens
    <2>4. \A i \in 1 .. k + 1 : i # 1 => i - 1 \in 1 .. k
      BY <2>1
    <2>5. \A i \in 1 .. k : g[i] = f[i]
      BY <2>1
    <2>6. \A i \in 1 .. k + 1 : g[i] = IF i = 1 THEN ss[i] ELSE f[i - 1] \o ss[i]
      BY <2>1, <2>3
    <2>7. \A i \in 1 .. k + 1 : g[i] = IF i = 1 THEN ss[i] ELSE g[i - 1] \o ss[i]
      <3> HIDE DEF g
      <3> QED
        BY <2>4, <2>5, <2>6
    <2>8. g = [i \in 1 .. k + 1 |-> g[i]]
      OBVIOUS
    <2>9. Flattens(g, ss, k + 1)
      <3> HIDE DEF g
      <3> QED
        BY <2>7, <2>8 DEF Flattens
    <2> QED
      BY <2>1, <2>9
  <1>3. Reached = Nat
    <2>1. Reached \in SUBSET Nat
      OBVIOUS
    <2> HIDE DEF Reached
    <2> QED
      BY <1>1, <1>2, <2>1, SetInduction
  <1> QED
    BY <1>3

\* Its value at k has the entries of the first k sequences, and no others.
LEMMA FlattensCollects ==
  ASSUME NEW T, NEW n \in Nat, NEW ss \in [1 .. n -> Seq(T)], NEW f, Flattens(f, ss, n)
  PROVE  \A k \in 1 .. n : f[k] \in Seq(T) /\ ToSet(f[k]) = Collected(ss, k)
  <1> DEFINE Right(k) == k \in 1 .. n => f[k] \in Seq(T) /\ ToSet(f[k]) = Collected(ss, k)
             Good == { k \in Nat : Right(k) }
  <1>0. \A k \in 1 .. n : f[k] = IF k = 1 THEN ss[k] ELSE f[k - 1] \o ss[k]
    BY DEF Flattens
  <1>1. 0 \in Good
    OBVIOUS
  <1>2. ASSUME NEW k \in Good PROVE k + 1 \in Good
    <2>1. k \in Nat /\ Right(k)
      OBVIOUS
    <2>2. ASSUME k + 1 \in 1 .. n PROVE f[k + 1] \in Seq(T) /\ ToSet(f[k + 1]) = Collected(ss, k + 1)
      <3>1. ss[k + 1] \in Seq(T)
        BY <2>2
      <3>2. Collected(ss, k + 1) = Collected(ss, k) \cup ToSet(ss[k + 1])
        <4>1. 1 .. k + 1 = (1 .. k) \cup {k + 1}
          BY <2>1
        <4> QED
          BY <4>1 DEF Collected
      <3>3. CASE k = 0
        <4>1. Collected(ss, k) = {}
          BY <3>3 DEF Collected
        <4>2. f[k + 1] = ss[k + 1]
          BY <1>0, <2>2, <3>3
        <4> QED
          BY <3>1, <3>2, <4>1, <4>2
      <3>4. CASE k # 0
        <4>1. k \in 1 .. n /\ k + 1 # 1 /\ (k + 1) - 1 = k
          BY <2>1, <2>2, <3>4
        <4>2. f[k + 1] = f[k] \o ss[k + 1]
          BY <1>0, <2>2, <4>1
        <4>3. f[k] \in Seq(T) /\ ToSet(f[k]) = Collected(ss, k)
          BY <2>1, <4>1
        <4>4. /\ f[k] \o ss[k + 1] \in Seq(T)
              /\ ToSet(f[k] \o ss[k + 1]) = ToSet(f[k]) \cup ToSet(ss[k + 1])
          BY <3>1, <4>3, ToSetConcat
        <4> QED
          BY <3>2, <4>2, <4>3, <4>4
      <3> QED
        BY <3>3, <3>4
    <2> QED
      BY <2>1, <2>2
  <1>3. Good = Nat
    <2>1. Good \in SUBSET Nat
      OBVIOUS
    <2> HIDE DEF Good
    <2> QED
      BY <1>1, <1>2, <2>1, SetInduction
  <1> QED
    <2>1. \A k \in Nat : Right(k)
      BY <1>3
    <2>2. \A k \in 1 .. n : Right(k)
      BY <2>1
    <2> QED
      BY <2>2

\* A list that is flattened has the entries of its elements, and no others,
\* whatever its length (parseFilterList appends the elements of a document).
LEMMA FlattenSeqCollects ==
  ASSUME NEW T, NEW ss \in Seq(Seq(T))
  PROVE  /\ FlattenSeq(ss) \in Seq(T)
         /\ ToSet(FlattenSeq(ss)) = UNION { ToSet(ss[i]) : i \in DOMAIN ss }
  <1> DEFINE n == Len(ss)
             flatten == CHOOSE f : Flattens(f, ss, n)
  <1>1. n \in Nat /\ DOMAIN ss = 1 .. n /\ ss \in [1 .. n -> Seq(T)]
    OBVIOUS
  <1>2. CASE n = 0
    <2>1. FlattenSeq(ss) = <<>> /\ ss = <<>>
      BY <1>2 DEF FlattenSeq
    <2> QED
      BY <2>1 DEF ToSet
  <1>3. CASE n # 0
    <2>1. FlattenSeq(ss) = flatten[n]
      BY <1>3 DEF FlattenSeq, Flattens
    <2>2. Flattens(flatten, ss, n)
      BY <1>1, FlattensExists
    <2>3. n \in 1 .. n
      BY <1>1, <1>3
    <2> HIDE DEF flatten, n
    <2>4. flatten[n] \in Seq(T) /\ ToSet(flatten[n]) = Collected(ss, n)
      BY <1>1, <2>2, <2>3, FlattensCollects
    <2> QED
      BY <1>1, <2>1, <2>4 DEF Collected
  <1> QED
    BY <1>2, <1>3

\* The policy of an entry after all tag filters, one after the other, is that of
\* the last one that matches, and its own if that one has none or none matches:
\* getMatchingTagFilterWithPolicy needs only one of them.
LEMMA LastTagFilterDecides ==
  ASSUME NEW e, NEW tf \in Seq(TagFilter)
  PROVE  PolicyAfter(e, tf) =
           LET i == getMatchingTagFilterWithPolicy(e, tf) IN
           IF i # 0 /\ tf[i].policy # "none" THEN tf[i].policy ELSE e.policy
  <1> DEFINE n == Len(tf)
             M(s) == { i \in s : tagFilterMatches(e, tf[i]) }
             Own(i) == IF tf[i].policy = "none" THEN e.policy ELSE tf[i].policy
             Closed(s) == IF M(s) = {} THEN e.policy ELSE Own(Max(M(s)))
             After(g, s) == IF s = {} THEN e.policy
                            ELSE IF ~tagFilterMatches(e, tf[Max(s)]) THEN g[s \ {Max(s)}]
                            ELSE Own(Max(s))
             Folds(g) == g = [s \in SUBSET DOMAIN tf |-> After(g, s)]
             iter == CHOOSE g : Folds(g)
  <1>0. n \in Nat /\ DOMAIN tf = 1 .. n
    OBVIOUS
  <1>1. PolicyAfter(e, tf) = iter[DOMAIN tf]
    BY DEF PolicyAfter, FoldLeft, MapThenFoldSet
  <1>2. getMatchingTagFilterWithPolicy(e, tf) = IF M(1 .. n) = {} THEN 0 ELSE Max(M(1 .. n))
    BY DEF getMatchingTagFilterWithPolicy, SelectLastInSeq
  <1>3. Folds(iter)
    <2> DEFINE g == [s \in SUBSET DOMAIN tf |-> Closed(s)]
    <2>1. ASSUME NEW s \in SUBSET (1 .. n), s # {}
          PROVE  Closed(s) = IF ~tagFilterMatches(e, tf[Max(s)]) THEN Closed(s \ {Max(s)})
                             ELSE Own(Max(s))
      <3>1. Max(s) \in s /\ \A i \in s : i <= Max(s)
        BY <1>0, <2>1, MaxIsLast
      <3>2. CASE ~tagFilterMatches(e, tf[Max(s)])
        <4>1. M(s \ {Max(s)}) = M(s)
          BY <3>1, <3>2
        <4> HIDE DEF M, Own
        <4> QED
          BY <3>2, <4>1
      <3>3. CASE tagFilterMatches(e, tf[Max(s)])
        <4>1. Max(s) \in M(s) /\ M(s) \in SUBSET (1 .. n)
          BY <3>1, <3>3
        <4>2. \A i \in M(s) : i <= Max(s)
          BY <3>1
        <4> HIDE DEF M, Own
        <4>3. Max(M(s)) \in M(s) /\ \A i \in M(s) : i <= Max(M(s))
          BY <1>0, <4>1, MaxIsLast
        <4>4. Max(M(s)) = Max(s)
          BY <1>0, <4>1, <4>2, <4>3
        <4> QED
          BY <3>3, <4>1, <4>4
      <3> QED
        BY <3>2, <3>3
    <2>2. ASSUME NEW s \in SUBSET (1 .. n) PROVE Closed(s) = After(g, s)
      <3>1. CASE s = {}
        BY <3>1
      <3>2. CASE s # {}
        <4>1. s \ {Max(s)} \in SUBSET DOMAIN tf
          BY <1>0
        <4>2. g[s \ {Max(s)}] = Closed(s \ {Max(s)})
          BY <4>1
        <4> HIDE DEF g, Closed, Own
        <4> QED
          BY <2>1, <3>2, <4>2
      <3> QED
        BY <3>1, <3>2
    <2>3. g = [s \in SUBSET DOMAIN tf |-> After(g, s)]
      <3> HIDE DEF After, Closed
      <3> QED
        BY <1>0, <2>2
    <2>4. Folds(g)
      BY <2>3
    <2> HIDE DEF Folds
    <2> QED
      BY <2>4
  <1> HIDE DEF iter
  <1>4. \A s \in SUBSET (1 .. n) : iter[s] = After(iter, s)
    <2> HIDE DEF After
    <2> QED
      BY <1>0, <1>3
  <1> DEFINE Good == { k \in Nat : k <= n => iter[1 .. k] = Closed(1 .. k) }
  <1>5. 0 \in Good
    <2>1. 1 .. 0 = {} /\ M(1 .. 0) = {}
      OBVIOUS
    <2>2. iter[1 .. 0] = e.policy
      BY <1>0, <1>4, <2>1
    <2> QED
      BY <2>1, <2>2
  <1>6. ASSUME NEW k \in Good PROVE k + 1 \in Good
    <2>1. k \in Nat /\ (k <= n => iter[1 .. k] = Closed(1 .. k))
      OBVIOUS
    <2>2. ASSUME k + 1 <= n PROVE iter[1 .. k + 1] = Closed(1 .. k + 1)
      <3> DEFINE s == 1 .. k + 1
      <3>1. /\ s \in SUBSET (1 .. n) /\ s # {} /\ k + 1 \in s
            /\ s \in SUBSET (1 .. k + 1) /\ k + 1 \in Nat
            /\ s \ {k + 1} = 1 .. k
        BY <1>0, <2>1, <2>2
      <3>2. Max(s) = k + 1
        <4>1. Max(s) \in s /\ \A i \in s : i <= Max(s)
          <5> HIDE DEF s
          <5> QED
            BY <3>1, MaxIsLast
        <4> QED
          BY <2>1, <3>1, <4>1
      <3>3. iter[s] = IF ~tagFilterMatches(e, tf[k + 1]) THEN iter[1 .. k] ELSE Own(k + 1)
        <4> HIDE DEF s, Own
        <4> QED
          BY <1>4, <3>1, <3>2
      <3>4. iter[1 .. k] = Closed(1 .. k)
        BY <1>0, <2>1, <2>2
      <3>5. CASE ~tagFilterMatches(e, tf[k + 1])
        <4>1. M(s) = M(1 .. k)
          BY <3>1, <3>5
        <4> HIDE DEF M, s, Own
        <4>2. Closed(s) = Closed(1 .. k)
          BY <4>1
        <4>3. iter[s] = Closed(s)
          BY <3>3, <3>4, <3>5, <4>2
        <4> QED
          BY <4>3 DEF s
      <3>6. CASE tagFilterMatches(e, tf[k + 1])
        <4>1. /\ k + 1 \in M(s) /\ M(s) \in SUBSET (1 .. k + 1)
              /\ \A i \in M(s) : i <= k + 1
          BY <2>1, <3>1, <3>6
        <4> HIDE DEF M, s, Own
        <4>2. Max(M(s)) \in M(s) /\ \A i \in M(s) : i <= Max(M(s))
          BY <3>1, <4>1, MaxIsLast
        <4>3. Max(M(s)) = k + 1
          BY <2>1, <4>1, <4>2
        <4>4. iter[s] = Closed(s)
          BY <3>3, <3>6, <4>1, <4>3
        <4> QED
          BY <4>4 DEF s
      <3> QED
        BY <3>5, <3>6
    <2> HIDE DEF Closed
    <2> QED
      BY <2>1, <2>2
  <1>7. Good = Nat
    <2>1. Good \in SUBSET Nat
      OBVIOUS
    <2> HIDE DEF Good
    <2> QED
      BY <1>5, <1>6, <2>1, SetInduction
  <1>8. iter[1 .. n] = Closed(1 .. n)
    <2> HIDE DEF Closed
    <2> QED
      BY <1>0, <1>7
  <1>9. M(1 .. n) # {} => Max(M(1 .. n)) # 0
    <2>1. M(1 .. n) \in SUBSET (1 .. n)
      OBVIOUS
    <2> HIDE DEF M
    <2>2. M(1 .. n) # {} => Max(M(1 .. n)) \in 1 .. n
      BY <1>0, <2>1, MaxIsLast
    <2>3. 0 \notin 1 .. n
      OBVIOUS
    <2> QED
      BY <2>2, <2>3
  <1> HIDE DEF M
  <1> QED
    BY <1>0, <1>1, <1>2, <1>8, <1>9

\* filterByTags gives an entry the policy that the tag filters give it in turn.
LEMMA OverriddenIsPolicyAfter ==
  ASSUME NEW e \in Filter, NEW tf \in Seq(TagFilter)
  PROVE  overridden(e, tf) = [e EXCEPT !.policy = PolicyAfter(e, tf)]
  <1>1. [e EXCEPT !.policy = e.policy] = e
    BY DEF Filter
  <1> QED
    BY <1>1, LastTagFilterDecides DEF overridden

\* What is unmarshalled from an element of the other format is an entry.
LEMMA EmptyIsFilter == EmptyFilter \in Filter
  <1>1. {} \in SUBSET (STRING \X STRING)
    OBVIOUS
  <1> QED
    BY <1>1 DEF EmptyFilter, Filter

FormatOf(d) == IF d.elements = <<>> THEN "v1" ELSE d.elements[1].format

Parsed(d) == [i \in DOMAIN d.elements |-> parseElement(d.elements[i], FormatOf(d))]

\* What becomes of each element of a document, and of all together.
LEMMA ElementsParsed ==
  ASSUME NEW d \in Documents
  PROVE  /\ \A i \in DOMAIN d.elements : d.elements[i].entries \in Seq(Filter)
         /\ FlattenSeq(Parsed(d)) \in Seq(Filter)
         /\ ToSet(FlattenSeq(Parsed(d))) = UNION { ToSet(Parsed(d)[i]) : i \in DOMAIN d.elements }
         /\ \A i \in DOMAIN d.elements :
               ToSet(Parsed(d)[i]) =
                  IF d.elements[i].format = FormatOf(d) THEN ToSet(d.elements[i].entries)
                  ELSE IF FormatOf(d) = "v1" THEN {EmptyFilter} ELSE {}
  <1> DEFINE E == [format : {"v1", "v2"}, entries : Seq(Filter)]
  <1>1. /\ d.elements \in Seq(E)
        /\ DOMAIN d.elements = 1 .. Len(d.elements) /\ Len(d.elements) \in Nat
    <2>1. d \in Document
      BY SourceAssumption
    <2>2. d.elements \in Seq(E)
      BY <2>1 DEF Document
    <2> QED
      BY <2>2
  <1>2. \A i \in DOMAIN d.elements : d.elements[i].entries \in Seq(Filter)
    <2>1. \A i \in DOMAIN d.elements : d.elements[i] \in E
      <3> HIDE DEF E
      <3> QED
        BY <1>1
    <2> QED
      BY <2>1
  <1>3. \A i \in DOMAIN d.elements : parseElement(d.elements[i], FormatOf(d)) \in Seq(Filter)
    BY <1>2, EmptyIsFilter DEF parseElement
  <1>4. Parsed(d) \in Seq(Seq(Filter)) /\ DOMAIN Parsed(d) = DOMAIN d.elements
    BY <1>1, <1>3 DEF Parsed
  <1>5. /\ FlattenSeq(Parsed(d)) \in Seq(Filter)
        /\ ToSet(FlattenSeq(Parsed(d))) = UNION { ToSet(Parsed(d)[i]) : i \in DOMAIN d.elements }
    BY <1>4, FlattenSeqCollects
  <1>6. ASSUME NEW i \in DOMAIN d.elements
        PROVE  ToSet(Parsed(d)[i]) =
                  IF d.elements[i].format = FormatOf(d) THEN ToSet(d.elements[i].entries)
                  ELSE IF FormatOf(d) = "v1" THEN {EmptyFilter} ELSE {}
    <2>1. Parsed(d)[i] = parseElement(d.elements[i], FormatOf(d))
      BY DEF Parsed
    <2>2. ToSet(<<EmptyFilter>>) = {EmptyFilter} /\ ToSet(<<>>) = {}
      BY DEF ToSet
    <2> QED
      BY <2>1, <2>2 DEF parseElement
  <1> QED
    BY <1>2, <1>5, <1>6

\* Parsing a document gives the entries written in it, and perhaps entries
\* without a network.
LEMMA ParsedIsWritten ==
  ASSUME NEW d \in Documents, parseFilterList(d).ok
  PROVE  /\ d.json
         /\ parseFilterList(d).list \in Seq(Filter)
         /\ ToSet(parseFilterList(d).list) \subseteq Written(d) \cup {EmptyFilter}
         /\ Written(d) \subseteq ToSet(parseFilterList(d).list)
         /\ Written(d) \subseteq Filter
  <1>1. parseFilterList(d) = [ok |-> TRUE, list |-> FlattenSeq(Parsed(d))] /\ d.json
    BY DEF parseFilterList, Failed, Parsed, FormatOf
  <1>2. Written(d) = UNION { ToSet(d.elements[i].entries) :
                       i \in { j \in DOMAIN d.elements : d.elements[j].format = FormatOf(d) } }
    <2>1. CASE d.elements = <<>>
      BY <2>1 DEF Written
    <2>2. CASE d.elements # <<>>
      BY <2>2 DEF Written, FormatOf
    <2> QED
      BY <2>1, <2>2
  <1>3. /\ Written(d) \subseteq UNION { ToSet(Parsed(d)[i]) : i \in DOMAIN d.elements }
        /\ UNION { ToSet(Parsed(d)[i]) : i \in DOMAIN d.elements }
             \subseteq Written(d) \cup {EmptyFilter}
    BY <1>2, ElementsParsed
  <1>4. Written(d) \subseteq Filter
    <2>1. \A i \in DOMAIN d.elements : ToSet(d.elements[i].entries) \subseteq Filter
      BY ElementsParsed DEF ToSet
    <2> QED
      BY <1>2, <2>1
  <1> QED
    BY <1>1, <1>3, <1>4, ElementsParsed

\* A document with nothing wrong in it is read.
LEMMA WellFormedIsRead ==
  ASSUME NEW d \in Documents, WellFormed(d)
  PROVE  parseFilterList(d).ok
  <1> DEFINE filters == FlattenSeq(Parsed(d))
             unknown == \E i \in DOMAIN filters : filters[i].policy \notin {Block, Allow}
  <1>1. parseFilterList(d) = IF d.json /\ ~(FormatOf(d) = "v2" /\ unknown)
                             THEN [ok |-> TRUE, list |-> filters] ELSE Failed
    BY DEF parseFilterList, Parsed, FormatOf
  <1>2. FormatOf(d) = "v2" => ~unknown
    <2> SUFFICES ASSUME FormatOf(d) = "v2", NEW i \in DOMAIN filters
                 PROVE  filters[i].policy \in {Block, Allow}
      OBVIOUS
    <2>1. filters[i] \in ToSet(filters)
      BY DEF ToSet
    <2>2. PICK k \in DOMAIN d.elements : filters[i] \in ToSet(Parsed(d)[k])
      BY <2>1, ElementsParsed
    <2>3. ToSet(Parsed(d)[k]) \subseteq ToSet(d.elements[k].entries)
      BY ElementsParsed
    <2>4. PICK l \in DOMAIN d.elements[k].entries : filters[i] = d.elements[k].entries[l]
      BY <2>2, <2>3 DEF ToSet
    <2> QED
      BY <2>4 DEF WellFormed
  <1> HIDE DEF filters, unknown
  <1> QED
    BY <1>1, <1>2 DEF WellFormed

\* The tag filters and the static filters of a configuration make of a document
\* what is documented, in either order of the two lists.
LEMMA SourceIsDocumented ==
  ASSUME NEW d \in Documents, parseFilterList(d).ok, NEW c \in Configs
  PROVE  LET fs == filterByTags(parseFilterList(d).list, TagFilters(c))
         IN  /\ d.json
             /\ Meaningful(ToSet(fs \o c.static)) = Documented(c, d)
             /\ Meaningful(ToSet(c.static \o fs)) = Documented(c, d)
  <1> DEFINE tf == TagFilters(c)
             l == parseFilterList(d).list
             fs == filterByTags(l, tf)
             New(e) == [e EXCEPT !.policy = PolicyAfter(e, tf)]
  <1>1. tf \in Seq(TagFilter) /\ c.static \in Seq(Filter)
    BY SourceAssumption DEF TagFilters, Config
  <1>2. /\ d.json /\ l \in Seq(Filter) /\ Written(d) \subseteq Filter
        /\ ToSet(l) \subseteq Written(d) \cup {EmptyFilter} /\ Written(d) \subseteq ToSet(l)
    BY ParsedIsWritten
  <1>3. EmptyFilter \in Filter
    BY EmptyIsFilter
  <1>4. \A e \in Filter : overridden(e, tf) = New(e)
    <2> HIDE DEF tf
    <2> QED
      BY <1>1, OverriddenIsPolicyAfter
  <1> HIDE DEF tf, l
  <1>5. /\ fs = [i \in 1 .. Len(l) |-> overridden(l[i], tf)]
        /\ Len(l) \in Nat /\ \A i \in 1 .. Len(l) : l[i] \in Filter
    BY <1>2 DEF filterByTags
  <1> DEFINE Entries == Filter \cup { New(e) : e \in Filter }
  <1>7. \A e \in Filter : New(e) \in Entries
    OBVIOUS
  <1>8. fs \in Seq(Entries) /\ c.static \in Seq(Entries)
    <2>1. Filter \subseteq Entries
      OBVIOUS
    <2> HIDE DEF Entries, New
    <2>2. \A i \in 1 .. Len(l) : overridden(l[i], tf) \in Entries
      BY <1>4, <1>5, <1>7
    <2> HIDE DEF fs
    <2> QED
      BY <1>1, <1>5, <2>1, <2>2
  <1>9. ToSet(fs) = { New(e) : e \in ToSet(l) }
    <2> HIDE DEF New, fs
    <2> QED
      BY <1>4, <1>5, <1>2 DEF ToSet
  <1>10. New(EmptyFilter).network = NoNetwork
    BY DEF EmptyFilter
  <1> DEFINE P == { New(e) : e \in Written(d) }
  <1>11. Documented(c, d) = Meaningful(ToSet(c.static) \cup P)
    BY DEF Documented, tf
  <1>12. P \subseteq ToSet(fs) /\ ToSet(fs) \subseteq P \cup {New(EmptyFilter)}
    <2> HIDE DEF New, fs
    <2> QED
      BY <1>2, <1>9
  <1>13. Meaningful(ToSet(fs) \cup ToSet(c.static)) = Documented(c, d)
    <2> HIDE DEF New, fs, P
    <2> QED
      BY <1>10, <1>11, <1>12, SourceAssumption DEF Meaningful
  <1>14. /\ ToSet(fs \o c.static) = ToSet(fs) \cup ToSet(c.static)
         /\ ToSet(c.static \o fs) = ToSet(fs) \cup ToSet(c.static)
    <2> HIDE DEF Entries, fs
    <2> QED
      BY <1>8, ToSetConcat
  <1> HIDE DEF fs
  <1>15. /\ d.json
         /\ Meaningful(ToSet(fs \o c.static)) = Documented(c, d)
         /\ Meaningful(ToSet(c.static \o fs)) = Documented(c, d)
    BY <1>2, <1>13, <1>14
  <1> QED
    BY <1>15 DEF fs, l, tf

-----------------------------------------------------------------------------
\* The filters that matter are those of one document and one configuration.
OneSource(filters, c) ==
    \E d \in Documents : d.json /\ Meaningful(ToSet(filters)) = Documented(c, d)

\* What the downloader keeps is one document, and what a reconcile is about to
\* deploy is made of one.
Made ==
    /\ provider = "running" =>
          \E d \in Documents : parseFilterList(d).ok /\ filterList = parseFilterList(d).list
    /\ pc = "deploy" => OneSource(list, taken)
    /\ DeployedIsOneSource

\* A download comes from what is served.
LEMMA DownloadIsParsed ==
  ASSUME TypeOK, download(served).ok
  PROVE  /\ served \in Documents
         /\ parseFilterList(served).ok
         /\ download(served).list = parseFilterList(served).list
  <1> DEFINE bad == served = Unreadable \/ served.encoding \in {"gzip", "truncated"}
                      \/ ~Acceptable(parseFilterList(served).list)
  <1>1. download(served) = IF bad THEN Failed ELSE parseFilterList(served)
    BY DEF download
  <1>2. ~bad
    BY <1>1 DEF Failed
  <1> QED
    BY <1>1, <1>2 DEF TypeOK

\* The provider stores one document, or loses it with the process.
LEMMA ProviderMakes ==
  ASSUME TypeOK, Made, Provide \/ Refresh
  PROVE  Made'
  <1>1. UNCHANGED <<pc, taken, list, deployed>>
    BY DEF Provide, SetupSucceeds, SetupFails, Restart, Refresh
  <1>2. provider' = "running" =>
          \E d \in Documents : parseFilterList(d).ok /\ filterList' = parseFilterList(d).list
    <2>1. CASE SetupFails \/ Restart
      BY <2>1 DEF SetupFails, Restart
    <2>2. CASE SetupSucceeds \/ Refresh
      BY <2>2, DownloadIsParsed DEF SetupSucceeds, Refresh
    <2> QED
      BY <2>1, <2>2 DEF Provide
  <1> QED
    BY <1>1, <1>2 DEF Made, OneSource, DeployedIsOneSource

\* A reconcile puts together one source and the static filters of the
\* configuration it has decoded.
LEMMA SourceMakes ==
  ASSUME TypeOK, Made, ReadShootSecret \/ ReadProjectSecret \/ UseDownload
  PROVE  Made'
  <1>1. UNCHANGED <<provider, filterList, taken, deployed>>
    BY DEF ReadShootSecret, ReadProjectSecret, UseDownload, FallThrough, SecretFails, UseSecret,
       process
  <1>2. pc' = "deploy" => OneSource(list', taken)
    <2>1. CASE UseDownload
      <3>1. taken \in Configs /\ provider = "running"
        BY <2>1 DEF UseDownload, TypeOK
      <3>2. PICK d \in Documents : parseFilterList(d).ok /\ filterList = parseFilterList(d).list
        BY <3>1 DEF Made
      <3>3. list' = filterByTags(parseFilterList(d).list, TagFilters(taken)) \o taken.static
        BY <2>1, <3>2 DEF UseDownload
      <3> QED
        BY <3>1, <3>2, <3>3, SourceIsDocumented DEF OneSource
    <2>2. ASSUME NEW from, NEW secret \in Documents \cup {Missing, Unreadable},
                 UseSecret(from, secret), pc # "idle"
          PROVE  OneSource(list', taken)
      <3>1. taken \in Configs /\ secret \in Documents
        BY <2>2 DEF UseSecret, TypeOK
      <3>2. parseFilterList(secret).ok /\ parseSecretFilterList(secret) = parseFilterList(secret)
        BY <2>2 DEF UseSecret, parseSecretFilterList, Failed
      <3>3. list' = taken.static
                      \o filterByTags(parseFilterList(secret).list, TagFilters(taken))
        BY <2>2, <3>2 DEF UseSecret
      <3> QED
        BY <3>1, <3>2, <3>3, SourceIsDocumented DEF OneSource
    <2>3. CASE ReadShootSecret
      <3>1. CASE UseSecret("shoot", shootSecret)
        BY <2>2, <3>1 DEF UseSecret, TypeOK
      <3> QED
        BY <2>3, <3>1 DEF ReadShootSecret, FallThrough, SecretFails
    <2>4. CASE ReadProjectSecret
      <3>1. CASE UseSecret("project", projectSecret)
        BY <2>2, <3>1 DEF UseSecret, TypeOK
      <3> QED
        BY <2>4, <3>1 DEF ReadProjectSecret, FallThrough, SecretFails
    <2> QED
      BY <2>1, <2>3, <2>4
  <1> QED
    BY <1>1, <1>2 DEF Made, DeployedIsOneSource, OneSource

\* Everything else only moves on what has been made, or forgets it.
LEMMA NextMakes == TypeOK /\ Made /\ [Next]_vars => Made'
  <1> SUFFICES ASSUME TypeOK, Made, [Next]_vars PROVE Made'
    OBVIOUS
  <1>1. CASE ChangeServed \/ ChangeProjectSecret \/ ChangeShootSecret \/ ChangeConfig
             \/ UNCHANGED vars
    <2>1. UNCHANGED <<provider, filterList, pc, taken, list, deployed>>
      BY <1>1 DEF ChangeServed, ChangeProjectSecret, ChangeShootSecret, ChangeConfig, Change,
         process, vars
    <2> QED
      BY <2>1 DEF Made, OneSource, DeployedIsOneSource
  <1>2. CASE Begin \/ GiveUp \/ Crash
    <2>1. /\ UNCHANGED deployed /\ pc' # "deploy"
          /\ provider' = "running" => provider = "running" /\ filterList' = filterList
      BY <1>2 DEF Begin, GiveUp, Crash, Forget, process
    <2> QED
      BY <2>1 DEF Made, DeployedIsOneSource
  <1>3. CASE Deploy
    <2>1. /\ UNCHANGED <<provider, filterList>> /\ pc' # "deploy"
          /\ OneSource(list, taken)
          /\ deployed' = [list |-> list, cfg |-> taken]
      BY <1>3 DEF Deploy, Forget, process, Made
    <2>2. deployed'.list = list /\ deployed'.cfg = taken
      BY <2>1
    <2> QED
      BY <2>1, <2>2 DEF Made, OneSource, DeployedIsOneSource
  <1> QED
    BY <1>1, <1>2, <1>3, ProviderMakes, SourceMakes DEF Next, Step, Reconcile

\* What Reconcile deploys is one source with the policies of the tag filters,
\* and the static filters of the same configuration, whatever the documents
\* hold (readAndRestrictFilterListSecretData, filterByTags,
\* combineDownloadedAndStaticFilters).
THEOREM SourceIsNeverMixed == Spec => []DeployedIsOneSource
  <1>1. Init => Made
    BY DEF Init, Made, DeployedIsOneSource
  <1>2. Made => DeployedIsOneSource
    BY DEF Made
  <1> QED
    BY <1>1, <1>2, NextMakes, SourceTyped, PTL DEF Spec
-----------------------------------------------------------------------------
(* What DocumentedArrives comes to rest in.                                *)

\* The premise of DocumentedArrives.
Readable ==
    /\ refreshPeriod = "ok" /\ download(served).ok
    /\ Valid(cfg)
    /\ SecretInUse \in Documents \cup {Missing}
    /\ SecretInUse # Missing => WellFormed(SecretInUse) /\ SecretInUse.encoding # "short"

AsDocumented(filters) == Meaningful(ToSet(filters)) = Documented(cfg, CurrentSource)

\* The configuration and the source it asks for have arrived, and no reconcile
\* is on its way with anything else.
UpToDate ==
    /\ Readable
    /\ provider = "running" => filterList = download(served).list
    /\ pc # "idle" => taken = cfg /\ pc # "error"
    /\ pc = "shoot" => cfg.shoot
    /\ pc = "project" => cfg.project
    /\ pc = "download" => SecretInUse = Missing
    /\ pc = "deploy" => AsDocumented(list)
    /\ deployed # NotYet /\ AsDocumented(deployed.list)

Unchanged == <<served, projectSecret, shootSecret, cfg, refreshPeriod>>

UpToDateUntilChange == [][UpToDate /\ UNCHANGED Unchanged => UpToDate']_vars

\* What stands for no document and no configuration is none.
LEMMA UnreadableIsNone == Unreadable \notin Documents /\ Unreadable # Missing
  <1>1. \A d \in Document : d.state = "document"
    BY DEF Document
  <1>2. Unreadable.state = "unreadable" /\ Missing.state = "missing"
    BY DEF Unreadable, Missing
  <1> QED
    BY <1>1, <1>2, SourceAssumption

LEMMA NoConfigIsNone == NoConfig \notin Configs
  <1>1. \A c \in Config : DOMAIN c = {"project", "shoot", "static", "tagFilters"}
    BY DEF Config
  <1>2. DOMAIN NoConfig = {"state"}
    BY DEF NoConfig
  <1>3. {"project", "shoot", "static", "tagFilters"} # {"state"}
    OBVIOUS
  <1> QED
    BY <1>1, <1>2, <1>3, SourceAssumption

\* A secret that is in use and readable gives what is documented for it.
LEMMA SecretIsDocumented ==
  ASSUME TypeOK, Readable, SecretInUse # Missing
  PROVE  LET parsed == parseSecretFilterList(SecretInUse)
         IN  parsed.ok /\ AsDocumented(cfg.static \o filterByTags(parsed.list, TagFilters(cfg)))
  <1>1. /\ SecretInUse \in Documents /\ WellFormed(SecretInUse)
        /\ SecretInUse.encoding \in {"plain", "gzip"}
        /\ cfg \in Configs
    <2>1. SecretInUse \in Document
      BY SourceAssumption DEF Readable
    <2>2. SecretInUse.encoding \in {"plain", "gzip", "short", "truncated"}
      BY <2>1 DEF Document
    <2> QED
      BY <2>2 DEF Readable, WellFormed, TypeOK
  <1>2. parseSecretFilterList(SecretInUse) = parseFilterList(SecretInUse)
    BY <1>1 DEF parseSecretFilterList
  <1>3. parseFilterList(SecretInUse).ok
    BY <1>1, WellFormedIsRead
  <1>4. CurrentSource = SecretInUse
    BY DEF CurrentSource
  <1> QED
    BY <1>1, <1>2, <1>3, <1>4, SourceIsDocumented DEF AsDocumented

\* So does the download, where no secret is in use.
LEMMA DownloadIsDocumented ==
  ASSUME TypeOK, Readable, SecretInUse = Missing
  PROVE  AsDocumented(filterByTags(download(served).list, TagFilters(cfg)) \o cfg.static)
  <1>1. /\ served \in Documents /\ parseFilterList(served).ok
        /\ download(served).list = parseFilterList(served).list
    BY DownloadIsParsed DEF Readable
  <1>2. CurrentSource = served /\ cfg \in Configs
    BY DEF CurrentSource, TypeOK
  <1> QED
    BY <1>1, <1>2, SourceIsDocumented DEF AsDocumented

\* As long as nobody changes anything, resyncs, refreshes and crashes leave what
\* has arrived as it is: a reconcile that runs again reads the same source, and
\* a process that has lost its list does not reconcile before it has one.
THEOREM UpToDateStays == Spec => UpToDateUntilChange
  <1>1. TypeOK /\ [Next]_vars => [UpToDate /\ UNCHANGED Unchanged => UpToDate']_vars
    <2> SUFFICES ASSUME TypeOK, [Next]_vars, UpToDate, UNCHANGED Unchanged PROVE UpToDate'
      OBVIOUS
    <2>1. /\ Readable /\ Readable'
          /\ SecretInUse' = SecretInUse /\ CurrentSource' = CurrentSource
          /\ UNCHANGED <<served, cfg, shootSecret, projectSecret>>
      BY DEF UpToDate, Unchanged, Readable, SecretInUse, CurrentSource
    <2>2. /\ AsDocumented(list)' <=> AsDocumented(list')
          /\ AsDocumented(deployed.list)' <=> AsDocumented(deployed'.list)
      BY <2>1 DEF AsDocumented
    <2>3. CASE UNCHANGED vars
      BY <2>3, <2>1, <2>2 DEF vars, UpToDate
    <2>4. CASE ChangeServed \/ ChangeProjectSecret \/ ChangeShootSecret \/ ChangeConfig
      BY <2>4, <2>1 DEF ChangeServed, ChangeProjectSecret, ChangeShootSecret, ChangeConfig, Change
    <2>5. CASE Provide \/ Refresh \/ Crash
      <3>1. CASE Provide \/ Refresh
        BY <3>1, <2>1, <2>2 DEF UpToDate, Provide, SetupSucceeds, SetupFails, Restart, Refresh
      <3>2. CASE Crash
        BY <3>2, <2>1, <2>2 DEF UpToDate, Crash, Forget
      <3> QED
        BY <2>5, <3>1, <3>2
    <2>6. CASE Begin
      BY <2>6, <2>1, <2>2 DEF UpToDate, Begin, Readable, Valid, SecretInUse, process
    <2>7. CASE ReadShootSecret
      <3>1. pc = "shoot" /\ taken = cfg /\ cfg.shoot
        BY <2>7 DEF ReadShootSecret, FallThrough, SecretFails, UseSecret, UpToDate
      <3>2. ~cfg.project
        BY <3>1, <2>1 DEF Readable, Valid
      <3>3. CASE shootSecret = Missing
        <4>1. SecretInUse = Missing
          BY <3>2, <3>3 DEF SecretInUse
        <4>2. FallThrough("shoot", shootSecret, "download")
          BY <2>7, <3>1, <3>2, <3>3 DEF ReadShootSecret, SecretFails, UseSecret
        <4> QED
          BY <4>1, <4>2, <2>1, <2>2 DEF UpToDate, FallThrough, process
      <3>4. CASE shootSecret # Missing
        <4>1. SecretInUse = shootSecret
          BY <3>1, <3>4 DEF SecretInUse
        <4>2. /\ parseSecretFilterList(shootSecret).ok /\ shootSecret # Unreadable
              /\ AsDocumented(cfg.static \o filterByTags(parseSecretFilterList(shootSecret).list,
                                                         TagFilters(cfg)))
          <5>1. shootSecret # Unreadable
            BY <4>1, <3>4, <2>1, UnreadableIsNone DEF Readable
          <5> QED
            BY <5>1, <4>1, <3>4, <2>1, SecretIsDocumented
        <4>3. UseSecret("shoot", shootSecret)
          BY <2>7, <4>2, <3>4 DEF ReadShootSecret, FallThrough, SecretFails
        <4> QED
          BY <4>2, <4>3, <3>1, <2>1, <2>2 DEF UpToDate, UseSecret, process
      <3> QED
        BY <3>3, <3>4
    <2>8. CASE ReadProjectSecret
      <3>1. pc = "project" /\ taken = cfg /\ cfg.project
        BY <2>8 DEF ReadProjectSecret, FallThrough, SecretFails, UseSecret, UpToDate
      <3>2. ~cfg.shoot /\ SecretInUse = projectSecret
        BY <3>1, <2>1 DEF Readable, Valid, SecretInUse
      <3>3. CASE projectSecret = Missing
        <4>1. FallThrough("project", projectSecret, "download")
          BY <2>8, <3>3 DEF ReadProjectSecret, SecretFails, UseSecret
        <4> QED
          BY <3>2, <3>3, <4>1, <2>1, <2>2 DEF UpToDate, FallThrough, process
      <3>4. CASE projectSecret # Missing
        <4>1. /\ parseSecretFilterList(projectSecret).ok /\ projectSecret # Unreadable
              /\ AsDocumented(cfg.static \o filterByTags(parseSecretFilterList(projectSecret).list,
                                                         TagFilters(cfg)))
          <5>1. projectSecret # Unreadable
            BY <3>2, <3>4, <2>1, UnreadableIsNone DEF Readable
          <5> QED
            BY <5>1, <3>2, <3>4, <2>1, SecretIsDocumented
        <4>2. UseSecret("project", projectSecret)
          BY <2>8, <4>1, <3>4 DEF ReadProjectSecret, FallThrough, SecretFails
        <4> QED
          BY <4>1, <4>2, <3>1, <2>1, <2>2 DEF UpToDate, UseSecret, process
      <3> QED
        BY <3>3, <3>4
    <2>9. CASE UseDownload
      <3>1. /\ provider = "running" /\ filterList = download(served).list
            /\ taken = cfg /\ SecretInUse = Missing
        BY <2>9 DEF UseDownload, TypeOK, UpToDate
      <3>2. AsDocumented(filterByTags(filterList, TagFilters(taken)) \o taken.static)
        BY <3>1, <2>1, DownloadIsDocumented
      <3> QED
        BY <2>9, <3>1, <3>2, <2>1, <2>2 DEF UpToDate, UseDownload, process
    <2>10. CASE Deploy
      <3>1. /\ deployed' = [list |-> list, cfg |-> taken] /\ taken \in Configs
            /\ pc' = "idle" /\ UNCHANGED <<provider, filterList>>
            /\ AsDocumented(list)
        BY <2>10 DEF Deploy, Forget, process, TypeOK, UpToDate
      <3>2. deployed' # NotYet /\ deployed'.list = list
        <4>1. deployed'.cfg = taken /\ deployed'.list = list
          BY <3>1
        <4> QED
          BY <3>1, <4>1, NoConfigIsNone DEF NotYet
      <3> QED
        BY <3>1, <3>2, <2>1, <2>2 DEF UpToDate
    <2>11. CASE GiveUp
      BY <2>11 DEF GiveUp, UpToDate
    <2> QED
      BY <2>3, <2>4, <2>5, <2>6, <2>7, <2>8, <2>9, <2>10, <2>11 DEF Next, Step, Reconcile
  <1> QED
    BY <1>1, SourceTyped, PTL DEF Spec, UpToDateUntilChange
=============================================================================
