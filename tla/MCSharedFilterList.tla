-------------------------- MODULE MCSharedFilterList --------------------------
(* Two or three Extensions; downloads of one to three entries. *)
EXTENDS SharedFilterList

CONSTANTS s1, s2, s3

Shoots2 == {s1, s2}
Shoots3 == {s1, s2, s3}

\* Arrays without room behind the length, and with room for two entries.
Tight == <<[len |-> 2, cap |-> 2], [len |-> 3, cap |-> 3], [len |-> 1, cap |-> 1]>>
Roomy == <<[len |-> 2, cap |-> 4], [len |-> 3, cap |-> 5], [len |-> 1, cap |-> 3]>>
RoomyTags == <<[len |-> 1, cap |-> 2]>>
NoTags == <<[len |-> 0, cap |-> 0]>>
AllTags == <<[len |-> 0, cap |-> 0], [len |-> 1, cap |-> 2], [len |-> 1, cap |-> 1]>>

OneEach == [s \in Shoot |-> 1]
NoneEach == [s \in Shoot |-> 0]

\* The first finds room behind the downloads, the second behind the tag filters
\* of one configuration, the third nowhere.
OneTwoOne == [s \in Shoot |-> IF s = s2 THEN 2 ELSE 1]
NoneOneTwo == [s \in Shoot |-> IF s = s1 THEN 0 ELSE IF s = s2 THEN 1 ELSE 2]
=============================================================================
