---------------------------- MODULE SegmentCache ----------------------------
(***************************************************************************)
(* Session::segment_cache_: a function from segment indices to bodies,     *)
(* where Absent stands for "no entry".                                     *)
(***************************************************************************)
EXTENDS Naturals, FiniteSets

CONSTANTS Segment,            \* the segment indices a player may ask for
          MaxCachedSegments,  \* kMaxCachedSegments
          Body,               \* what a segment's bytes can be
          Absent

ASSUME CacheAssumption ==
  /\ Segment \subseteq Nat
  /\ IsFiniteSet(Segment)
  /\ MaxCachedSegments \in Nat \ {0}
  /\ Absent \notin Body

Cache == [Segment -> Body \cup {Absent}]

Empty == [i \in Segment |-> Absent]

Cached(c) == {i \in Segment : c[i] # Absent}

\* Mutant of Kept: the loop does not stop at the segment just built.
Kept_MayDropNew(S, i) ==
  {j \in S : Cardinality({k \in S : k >= j}) <= MaxCachedSegments}

\* Mutant of Kept: the highest index goes first.
Kept_DropsHighest(S, i) ==
  {j \in S : j <= i \/ Cardinality({k \in S : k <= j}) <= MaxCachedSegments}

(***************************************************************************)
(* The eviction loop after the insertion of segment i: while there are too *)
(* many entries the lowest goes, and the loop gives up once the lowest is  *)
(* i itself. S holds the indices, i included. An entry below i is reached  *)
(* when all those below it are gone, so it stays iff what is left then     *)
(* fits.                                                                   *)
(***************************************************************************)
Kept(S, i) ==
  {j \in S : j >= i \/ Cardinality({k \in S : k >= j}) <= MaxCachedSegments}

Insert(c, i, body) ==
  LET kept == Kept(Cached(c) \cup {i}, i)
  IN  [j \in Segment |-> IF j \notin kept THEN Absent
                         ELSE IF j = i THEN body ELSE c[j]]
=============================================================================
