-------------------------- MODULE Fmp4Layout_proofs --------------------------
(***************************************************************************)
(* What Fmp4Layout and InitSegment promise, for every segment, every       *)
(* configuration of the tracks and every width of a field of eight bits or *)
(* more: sums of sizes and durations by induction on their length, the     *)
(* samples made of the packets, the buffer of a segment phase by phase,    *)
(* and the boxes of the init segment writer by writer.                     *)
(***************************************************************************)
EXTENDS Fmp4Layout, SequenceTheorems, WellFoundedInduction, TLAPS

-----------------------------------------------------------------------------
(* Numbers and sums.                                                       *)

\* Induction on the naturals, for a property given as the set that has it.
LEMMA NatSetInduction ==
  ASSUME NEW T, 0 \in T, \A n \in Nat : n \in T => n + 1 \in T
  PROVE  \A n \in Nat : n \in T
<1> DEFINE Missing == {n \in Nat : n \notin T}
<1>1. SUFFICES ASSUME Missing # {} PROVE FALSE
  OBVIOUS
<1>2. PICK m \in Missing : \A n \in Missing : ~(<<n, m>> \in OpToRel(<, Nat))
  <2>1. Missing \subseteq Nat
    OBVIOUS
  <2>. HIDE DEF Missing
  <2>. QED  BY <1>1, <2>1, NatLessThanWellFounded, WFMin
<1>3. \A x, y \in Nat : <<x, y>> \in OpToRel(<, Nat) <=> x < y
  BY DEF OpToRel
<1>4. m \in Nat /\ m \notin T /\ m # 0
  OBVIOUS
<1>5. m - 1 \in Nat /\ m - 1 < m /\ (m - 1) + 1 = m
  BY <1>4
<1>6. m - 1 \notin T
  BY <1>4, <1>5
<1>7. m - 1 \in Missing
  BY <1>5, <1>6
<1>8. ~(m - 1 < m)
  <2>. HIDE DEF Missing
  <2>. QED  BY <1>2, <1>3, <1>4, <1>5, <1>7, Zenon
<1>9. QED
  BY <1>5, <1>8

\* The partial sums of a sequence of numbers.
IsSum(g, s) ==
  g = [n \in 0 .. Len(s) |-> IF n = 0 THEN 0 ELSE g[n - 1] + s[n]]

\* They exist.
LEMMA SumExists ==
  ASSUME NEW s \in Seq(Int)
  PROVE  \E g : IsSum(g, s)
<1> DEFINE Upto(g, m) ==
      g = [n \in 0 .. m |-> IF n = 0 THEN 0 ELSE g[n - 1] + s[n]]
    T == {m \in Nat : m <= Len(s) => \E g : Upto(g, m)}
<1>1. 0 \in T
  <2>1. Upto([n \in 0 .. 0 |-> 0], 0)
    OBVIOUS
  <2>. QED  BY <2>1
<1>2. ASSUME NEW m \in Nat, m \in T
      PROVE  m + 1 \in T
  <2>1. SUFFICES ASSUME m + 1 <= Len(s) PROVE \E g : Upto(g, m + 1)
    OBVIOUS
  <2>2. PICK g : Upto(g, m)
    BY <1>2, <2>1
  <2>3. DEFINE h == [n \in 0 .. (m + 1) |-> IF n = m + 1 THEN g[m] + s[n] ELSE g[n]]
  <2>4. \A n \in 0 .. m : h[n] = g[n]
    OBVIOUS
  <2>5. \A n \in 0 .. m : g[n] = IF n = 0 THEN 0 ELSE g[n - 1] + s[n]
    BY <2>2
  <2>6. \A n \in 0 .. (m + 1) : h[n] = IF n = 0 THEN 0 ELSE h[n - 1] + s[n]
    <3>1. \A n \in 1 .. (m + 1) : h[n - 1] = g[n - 1]
      OBVIOUS
    <3>. QED  BY <2>4, <2>5, <3>1
  <2>7. Upto(h, m + 1)
    <3>1. h = [n \in 0 .. (m + 1) |-> h[n]]
      OBVIOUS
    <3>. HIDE DEF h
    <3>. QED  BY <2>6, <3>1
  <2>8. QED
    BY <2>7
<1>3. \A m \in Nat : m \in T
  <2>. HIDE DEF T
  <2>. QED  BY <1>1, <1>2, NatSetInduction
<1>4. QED
  BY <1>3 DEF IsSum

\* Total is the last of them.
LEMMA TotalIsSum ==
  ASSUME NEW s \in Seq(Int)
  PROVE  \E g : /\ g \in [0 .. Len(s) -> Int]
                /\ g[0] = 0
                /\ \A n \in 1 .. Len(s) : g[n] = g[n - 1] + s[n]
                /\ Total(s) = g[Len(s)]
<1> DEFINE g == CHOOSE h : IsSum(h, s)
<1>1. IsSum(g, s)
  BY SumExists
<1>2. Total(s) = g[Len(s)]
  BY DEF Total, IsSum
<1> HIDE DEF g
<1>3. Len(s) \in Nat
  OBVIOUS
<1>4. \A n \in 0 .. Len(s) : g[n] = IF n = 0 THEN 0 ELSE g[n - 1] + s[n]
  BY <1>1 DEF IsSum
<1>5. g[0] = 0 /\ \A n \in 1 .. Len(s) : g[n] = g[n - 1] + s[n]
  BY <1>3, <1>4
<1>6. \A n \in 0 .. Len(s) : g[n] \in Int
  <2> DEFINE T == {n \in Nat : n <= Len(s) => g[n] \in Int}
  <2>1. 0 \in T
    BY <1>5
  <2>2. ASSUME NEW n \in Nat, n \in T PROVE n + 1 \in T
    <3>1. SUFFICES ASSUME n + 1 <= Len(s) PROVE g[n + 1] \in Int
      OBVIOUS
    <3>2. g[n] \in Int /\ s[n + 1] \in Int
      BY <1>3, <2>2, <3>1, ElementOfSeq
    <3>3. n + 1 \in 1 .. Len(s) /\ (n + 1) - 1 = n
      BY <1>3, <3>1
    <3>4. g[n + 1] = g[n] + s[n + 1]
      BY <1>5, <3>3
    <3>5. QED
      BY <3>2, <3>4
  <2>3. \A n \in Nat : n \in T
    <3>. HIDE DEF T
    <3>. QED  BY <2>1, <2>2, NatSetInduction
  <2>4. QED
    BY <2>3
<1>7. g \in [0 .. Len(s) -> Int]
  <2>1. g = [n \in 0 .. Len(s) |-> g[n]]
    BY <1>1 DEF IsSum
  <2>. QED  BY <1>6, <2>1
<1>8. QED
  BY <1>2, <1>5, <1>7

\* SubSeq(s, 1, m) is what it should be.
LEMMA PrefixOf ==
  ASSUME NEW S, NEW s \in Seq(S), NEW m \in 0 .. Len(s)
  PROVE  /\ SubSeq(s, 1, m) \in Seq(S) /\ Len(SubSeq(s, 1, m)) = m
         /\ \A n \in 1 .. m : SubSeq(s, 1, m)[n] = s[n]
<1>1. Len(s) \in Nat /\ s \in [1 .. Len(s) -> S]
  OBVIOUS
<1>2. SubSeq(s, 1, m) = [n \in 1 .. m |-> s[n]]
  BY <1>1
<1>3. \A n \in 1 .. m : s[n] \in S
  BY <1>1
<1>4. SubSeq(s, 1, m) \in [1 .. m -> S]
  BY <1>2, <1>3
<1>5. QED
  BY <1>1, <1>2, <1>4

\* The sum of a prefix is a partial sum.
LEMMA PrefixSum ==
  ASSUME NEW s \in Seq(Int), NEW m \in 0 .. Len(s),
         NEW g, g[0] = 0, \A n \in 1 .. Len(s) : g[n] = g[n - 1] + s[n]
  PROVE  Total(SubSeq(s, 1, m)) = g[m]
<1>1. Len(s) \in Nat /\ m \in Nat
  OBVIOUS
<1>2. SUFFICES ASSUME NEW w \in Seq(Int), Len(w) = m, w = SubSeq(s, 1, m),
                      \A n \in 1 .. m : w[n] = s[n]
               PROVE  Total(w) = g[m]
  BY PrefixOf
<1>3. PICK h : /\ h[0] = 0
               /\ \A n \in 1 .. Len(w) : h[n] = h[n - 1] + w[n]
               /\ Total(w) = h[Len(w)]
  BY TotalIsSum
<1> DEFINE T == {n \in Nat : n <= m => h[n] = g[n]}
<1>4. 0 \in T
  BY <1>3
<1>5. ASSUME NEW n \in Nat, n \in T PROVE n + 1 \in T
  <2>1. SUFFICES ASSUME n + 1 <= m PROVE h[n + 1] = g[n + 1]
    OBVIOUS
  <2>2. n + 1 \in 1 .. m /\ n + 1 \in 1 .. Len(s) /\ (n + 1) - 1 = n /\ n <= m
    BY <1>1, <2>1
  <2>3. h[n] = g[n] /\ w[n + 1] = s[n + 1]
    BY <1>2, <1>5, <2>2
  <2>4. h[n + 1] = h[n] + w[n + 1] /\ g[n + 1] = g[n] + s[n + 1]
    BY <1>2, <1>3, <2>2
  <2>5. QED
    BY <2>3, <2>4
<1>6. m \in T
  <2>. HIDE DEF T
  <2>. QED  BY <1>1, <1>4, <1>5, NatSetInduction
<1>7. QED
  BY <1>1, <1>2, <1>3, <1>6

\* What the proofs use of Total: a prefix more adds an element, and the whole
\* is the longest prefix.
LEMMA TotalStep ==
  ASSUME NEW s \in Seq(Int)
  PROVE  /\ Total(SubSeq(s, 1, 0)) = 0
         /\ \A n \in 1 .. Len(s) :
              Total(SubSeq(s, 1, n)) = Total(SubSeq(s, 1, n - 1)) + s[n]
         /\ \A n \in 0 .. Len(s) : Total(SubSeq(s, 1, n)) \in Int
         /\ Total(s) = Total(SubSeq(s, 1, Len(s)))
         /\ Total(s) \in Int
<1>1. PICK g : /\ g \in [0 .. Len(s) -> Int]
               /\ g[0] = 0
               /\ \A n \in 1 .. Len(s) : g[n] = g[n - 1] + s[n]
               /\ Total(s) = g[Len(s)]
  BY TotalIsSum
<1>2. Len(s) \in Nat
  OBVIOUS
<1>3. \A m \in 0 .. Len(s) : Total(SubSeq(s, 1, m)) = g[m]
  BY <1>1, PrefixSum
<1>4. ASSUME NEW n \in 1 .. Len(s)
      PROVE  Total(SubSeq(s, 1, n)) = Total(SubSeq(s, 1, n - 1)) + s[n]
  <2>1. n \in 0 .. Len(s) /\ n - 1 \in 0 .. Len(s)
    BY <1>2
  <2>2. Total(SubSeq(s, 1, n)) = g[n] /\ Total(SubSeq(s, 1, n - 1)) = g[n - 1]
    BY <1>3, <2>1
  <2>3. QED
    BY <1>1, <2>2
<1>5. 0 \in 0 .. Len(s) /\ Len(s) \in 0 .. Len(s)
  BY <1>2
<1>6. Total(SubSeq(s, 1, 0)) = 0 /\ Total(s) = Total(SubSeq(s, 1, Len(s)))
  BY <1>1, <1>3, <1>5
<1>7. \A n \in 0 .. Len(s) : Total(SubSeq(s, 1, n)) \in Int
  BY <1>1, <1>3
<1>8. QED
  BY <1>1, <1>4, <1>5, <1>6, <1>7

\* Sizes and durations add up to a natural number.
LEMMA TotalNat ==
  ASSUME NEW s \in Seq(Nat)
  PROVE  /\ s \in Seq(Int) /\ Total(s) \in Nat
         /\ \A n \in 0 .. Len(s) : Total(SubSeq(s, 1, n)) \in Nat
<1>1. Len(s) \in Nat /\ s \in Seq(Int) /\ \A n \in 1 .. Len(s) : s[n] \in Nat
  OBVIOUS
<1> DEFINE T == {n \in Nat : n <= Len(s) => Total(SubSeq(s, 1, n)) \in Nat}
<1>2. 0 \in T
  BY <1>1, TotalStep
<1>3. ASSUME NEW n \in Nat, n \in T PROVE n + 1 \in T
  <2>1. SUFFICES ASSUME n + 1 <= Len(s) PROVE Total(SubSeq(s, 1, n + 1)) \in Nat
    OBVIOUS
  <2>2. n + 1 \in 1 .. Len(s) /\ (n + 1) - 1 = n
    BY <1>1, <2>1
  <2>3. Total(SubSeq(s, 1, n + 1)) = Total(SubSeq(s, 1, n)) + s[n + 1]
    BY <1>1, <2>2, TotalStep
  <2>4. QED
    BY <1>1, <1>3, <2>2, <2>3
<1>4. \A n \in Nat : n \in T
  <2>. HIDE DEF T
  <2>. QED  BY <1>2, <1>3, NatSetInduction
<1>5. QED
  BY <1>1, <1>4, TotalStep

-----------------------------------------------------------------------------
(* The samples.                                                            *)

\* The constants.
LEMMA LayoutConstants ==
  /\ Word \in Nat /\ Word >= 256 /\ NoTime \notin Int
  /\ Segments \subseteq SegmentType
  /\ \A s \in Segments : Len(s.audio) <= 1
BY LayoutAssumption

\* WithTime[n] as a function of the number of packets that were looked at.
IsKept(g, packets) ==
  g = [n \in 0 .. Len(packets) |->
         IF n = 0 THEN <<>>
         ELSE IF HasTime(packets[n]) THEN Append(g[n - 1], packets[n])
         ELSE g[n - 1]]

\* It exists.
LEMMA KeptExists ==
  ASSUME NEW packets \in Seq(Packet)
  PROVE  \E g : IsKept(g, packets)
<1> DEFINE
    Step(g, n) == IF n = 0 THEN <<>>
                  ELSE IF HasTime(packets[n]) THEN Append(g[n - 1], packets[n])
                  ELSE g[n - 1]
    Upto(g, m) == g = [n \in 0 .. m |-> Step(g, n)]
    T == {m \in Nat : m <= Len(packets) => \E g : Upto(g, m)}
<1>1. 0 \in T
  <2>1. Upto([n \in 0 .. 0 |-> <<>>], 0)
    OBVIOUS
  <2>. QED  BY <2>1
<1>2. ASSUME NEW m \in Nat, m \in T
      PROVE  m + 1 \in T
  <2>1. SUFFICES ASSUME m + 1 <= Len(packets) PROVE \E g : Upto(g, m + 1)
    OBVIOUS
  <2>2. PICK g : Upto(g, m)
    <3>1. m <= Len(packets)
      BY <2>1, LenProperties
    <3>. HIDE DEF Upto
    <3>. QED  BY <1>2, <3>1
  <2>3. DEFINE h == [n \in 0 .. (m + 1) |-> IF n = m + 1 THEN Step(g, n) ELSE g[n]]
  <2>4. \A n \in 0 .. m : h[n] = g[n]
    OBVIOUS
  <2>5. \A n \in 0 .. m : g[n] = Step(g, n)
    BY <2>2
  <2>6. \A n \in 1 .. (m + 1) : h[n - 1] = g[n - 1]
    OBVIOUS
  <2>7. \A n \in 0 .. (m + 1) : h[n] = Step(h, n)
    <3>1. \A n \in 0 .. (m + 1) : Step(h, n) = Step(g, n)
      BY <2>6
    <3>2. \A n \in 0 .. (m + 1) : h[n] = Step(g, n)
      BY <2>4, <2>5
    <3>. QED  BY <3>1, <3>2
  <2>8. Upto(h, m + 1)
    <3>1. h = [n \in 0 .. (m + 1) |-> h[n]]
      OBVIOUS
    <3>. HIDE DEF h, Step
    <3>. QED  BY <2>7, <3>1
  <2>9. QED
    BY <2>8
<1>3. \A m \in Nat : m \in T
  <2>. HIDE DEF T
  <2>. QED  BY <1>1, <1>2, NatSetInduction
<1>4. QED
  BY <1>3 DEF IsKept

\* What is kept are packets, each with a time.
LEMMA WithTimeType ==
  ASSUME NEW packets \in Seq(Packet)
  PROVE  WithTime(packets) \in Seq({p \in Packet : HasTime(p)})
<1> DEFINE g == CHOOSE h : IsKept(h, packets)
           Timed == {p \in Packet : HasTime(p)}
<1>1. IsKept(g, packets)
  BY KeptExists
<1>2. WithTime(packets) = g[Len(packets)]
  BY DEF WithTime, IsKept
<1> HIDE DEF g
<1>3. Len(packets) \in Nat
  OBVIOUS
<1>4. \A n \in 0 .. Len(packets) :
        g[n] = IF n = 0 THEN <<>>
               ELSE IF HasTime(packets[n]) THEN Append(g[n - 1], packets[n])
               ELSE g[n - 1]
  BY <1>1 DEF IsKept
<1> DEFINE T == {n \in Nat : n <= Len(packets) => g[n] \in Seq(Timed)}
<1>5. 0 \in T
  <2>1. g[0] = <<>>
    BY <1>3, <1>4
  <2>2. <<>> \in Seq(Timed)
    OBVIOUS
  <2>. HIDE DEF Timed
  <2>. QED  BY <2>1, <2>2
<1>6. ASSUME NEW n \in Nat, n \in T PROVE n + 1 \in T
  <2>1. SUFFICES ASSUME n + 1 <= Len(packets) PROVE g[n + 1] \in Seq(Timed)
    OBVIOUS
  <2>2. n + 1 \in 0 .. Len(packets) /\ n + 1 \in 1 .. Len(packets)
        /\ (n + 1) - 1 = n /\ n + 1 # 0
    BY <1>3, <2>1
  <2>3. g[n] \in Seq(Timed) /\ packets[n + 1] \in Packet
    BY <1>3, <1>6, <2>1, <2>2, ElementOfSeq
  <2>4. g[n + 1] = IF HasTime(packets[n + 1]) THEN Append(g[n], packets[n + 1])
                   ELSE g[n]
    BY <1>4, <2>2
  <2>5. HasTime(packets[n + 1]) => packets[n + 1] \in Timed
    BY <2>3
  <2>. HIDE DEF Timed
  <2>6. QED
    BY <2>3, <2>4, <2>5
<1>7. Len(packets) \in T
  <2>. HIDE DEF T
  <2>. QED  BY <1>3, <1>5, <1>6, NatSetInduction
<1>8. QED
  BY <1>2, <1>3, <1>7

\* What a segment is made of.
LEMMA SegmentParts ==
  ASSUME source \in Segments
  PROVE  /\ source.start \in Nat
         /\ Kept \in Seq(Packet) /\ \A n \in 1 .. Len(Kept) : HasTime(Kept[n])
         /\ source.audio \in Seq(Seq(AudioSample)) /\ Len(source.audio) \in 0 .. 1
<1>1. /\ source.start \in Nat /\ source.packets \in Seq(Packet)
      /\ source.audio \in Seq(Seq(AudioSample)) /\ Len(source.audio) <= 1
  BY LayoutConstants DEF SegmentType
<1>2. Len(source.audio) \in 0 .. 1
  <2>1. \A S : \A s \in Seq(S) : Len(s) \in Nat
    OBVIOUS
  <2>2. Len(source.audio) \in Nat
    BY <1>1, <2>1, Zenon
  <2>3. \A n \in Nat : n <= 1 => n \in 0 .. 1
    OBVIOUS
  <2>. QED  BY <1>1, <2>2, <2>3, Zenon
<1>3. Kept \in Seq({p \in Packet : HasTime(p)})
  BY <1>1, WithTimeType DEF Kept
<1>4. Kept \in Seq(Packet) /\ \A n \in 1 .. Len(Kept) : HasTime(Kept[n])
  <2>1. \A n \in 1 .. Len(Kept) : Kept[n] \in {p \in Packet : HasTime(p)}
    BY <1>3, ElementOfSeq
  <2>. QED  BY <1>3, <2>1
<1>5. QED
  BY <1>1, <1>2, <1>4

\* A packet with a time has both, and the picture is not presented before it is
\* decoded.
LEMMA SampleTimes ==
  ASSUME source \in Segments, NEW p \in Packet, HasTime(p)
  PROVE  /\ Dts(p) \in Int /\ Pts(p) \in Int
         /\ VideoSample(p) \in Sample
<1>1. source.start \in Nat /\ NoTime \notin Int
  BY SegmentParts, LayoutConstants
<1>2. /\ p.dts \in Int \cup {NoTime} /\ p.pts \in Int \cup {NoTime}
      /\ p.size \in Nat /\ p.duration \in Nat /\ p.key \in BOOLEAN
  BY DEF Packet
<1>3. Dts(p) \in Int
  BY <1>1, <1>2 DEF Dts, HasTime, Shifted
<1>4. Pts(p) \in Int
  BY <1>1, <1>2, <1>3 DEF Pts, Shifted
<1>5. (IF Pts(p) < Dts(p) THEN 0 ELSE Pts(p) - Dts(p)) \in Nat
  BY <1>3, <1>4
<1>6. VideoSample(p) \in Sample
  BY <1>2, <1>3, <1>5 DEF VideoSample, Sample
<1>7. QED
  BY <1>3, <1>4, <1>6

-----------------------------------------------------------------------------
(* The inductive invariant.                                                *)

\* Before the writer has the durations.
Early == {"init", "packets", "thrown", "durations"}

\* What the samples have from the packets they are made of: the times, and from
\* fix_video_durations on the durations that lead from one to the next.
TracksInv ==
  /\ source \in Segments
  /\ phase \in {"init", "packets"} => tracks = <<>>
  /\ phase \notin {"init", "packets"} =>
       /\ Len(tracks) \in 1 .. 2
       /\ Len(tracks) = 2 => tracks[2] \in Seq(AudioSample) /\ source.audio # <<>>
       /\ Len(tracks[1]) = Len(Kept)
       /\ \A n \in 1 .. Len(Kept) : /\ tracks[1][n].dts = Dts(Kept[n])
                                    /\ tracks[1][n].cts = VideoSample(Kept[n]).cts
  /\ phase \notin {"init", "packets", "thrown"} => Len(Kept) >= 1
  /\ phase \notin Early =>
       \A n \in 1 .. (Len(Kept) - 1) :
         tracks[1][n].dts < tracks[1][n + 1].dts =>
           tracks[1][n].duration = tracks[1][n + 1].dts - tracks[1][n].dts

\* A box of a media segment.
BoxNames == {"styp", "sidx", "moof", "mdat"}
BoxRecord == [type : BoxNames, at : Nat, size : Nat]

\* The types of what the writer keeps.
BufferTypes ==
  /\ boxes \in Seq(BoxRecord)
  /\ sidx \in Seq([end : Nat, first : {0}, ept : Int, duration : Nat, size : Nat])
  /\ dataOffset \in Seq(Nat) /\ payloadAt \in Seq(Nat) /\ sampleAt \in Seq(Seq(Nat))

\* Boxes that follow each other from the start to `end`.
Contiguous(list, end) ==
  /\ list[1].at = 0
  /\ \A n \in 1 .. (Len(list) - 1) : list[n + 1].at = list[n].at + list[n].size
  /\ list[Len(list)].at + list[Len(list)].size = end

\* So do those of the buffer, unless a size was cut off.
Tiled(end) == Fits => Contiguous(boxes, end)

\* How far the writer is, phase by phase.
BufferInv ==
  /\ phase \in Early \cup {"styp"} =>
       /\ pos = 0 /\ track = 1 /\ boxes = <<>> /\ moofAt = 0
       /\ sidx = <<>> /\ dataOffset = <<>> /\ payloadAt = <<>> /\ sampleAt = <<>>
  /\ phase = "sidx" =>
       /\ Len(boxes) = track /\ Len(sidx) = track - 1 /\ AfterSidx = pos
       /\ moofAt = 0 /\ dataOffset = <<>> /\ payloadAt = <<>> /\ sampleAt = <<>>
       /\ Tiled(pos)
  /\ phase = "moof" =>
       /\ Len(boxes) = Len(tracks) + 1 /\ Len(sidx) = Len(tracks)
       /\ sidx[Len(sidx)].end = moofAt
       /\ Len(dataOffset) = track - 1 /\ payloadAt = <<>> /\ sampleAt = <<>>
       /\ Tiled(moofAt)
  /\ phase = "mdat" =>
       /\ Len(boxes) = Len(tracks) + 2 /\ Len(sidx) = Len(tracks)
       /\ sidx[Len(sidx)].end = moofAt
       /\ Len(dataOffset) = Len(tracks)
       /\ Len(payloadAt) = track - 1 /\ Len(sampleAt) = track - 1
       /\ boxes[Len(boxes)].at = moofAt /\ MdatAt <= pos
       /\ Tiled(MdatAt)
  /\ phase = "done" =>
       /\ Len(boxes) = Len(tracks) + 3 /\ Len(sidx) = Len(tracks)
       /\ sidx[Len(sidx)].end = moofAt
       /\ Len(dataOffset) = Len(tracks)
       /\ Len(payloadAt) = Len(tracks) /\ Len(sampleAt) = Len(tracks)
       /\ boxes[Len(boxes) - 1].at = moofAt
       /\ Tiled(pos)
       /\ Fits => \A k \in Tracks : sidx[k].size = pos - moofAt
       /\ Fits => \A k \in Tracks : tracks[k] # <<>> => dataOffset[k] = payloadAt[k]

\* Each sample lies behind those of its track before it.
SamplesInv ==
  \A k \in 1 .. Len(sampleAt) :
    /\ k <= Len(payloadAt) /\ k <= Len(tracks)
    /\ moofAt + payloadAt[k] <= pos
    /\ \A n \in 1 .. Len(tracks[k]) :
         sampleAt[k][n] =
           moofAt + payloadAt[k] + Total(SubSeq(Sizes(tracks[k]), 1, n - 1))

\* The init segment of the session, with a track for each of the segment's.
InitInv ==
  phase # "init" =>
    \E config \in TrackConfigs :
      /\ source.audio # <<>> => Len(config) = 2
      /\ init = BuildInit(config)

IInv == TypeOK /\ TracksInv /\ BufferTypes /\ BufferInv /\ SamplesInv /\ InitInv

-----------------------------------------------------------------------------
(* The samples, step by step.                                              *)

\* append_video_packet makes a sample of every packet with a time.
LEMMA VideoSamplesType ==
  ASSUME source \in Segments
  PROVE  /\ VideoSamples \in Seq(Sample)
         /\ Len(VideoSamples) = Len(Kept)
         /\ \A n \in 1 .. Len(Kept) :
              /\ VideoSamples[n] = VideoSample(Kept[n])
              /\ VideoSamples[n].dts = Dts(Kept[n])
<1>1. /\ Kept \in Seq(Packet) /\ Len(Kept) \in Nat /\ DOMAIN Kept = 1 .. Len(Kept)
      /\ \A n \in 1 .. Len(Kept) : HasTime(Kept[n])
  BY SegmentParts
<1>2. \A n \in 1 .. Len(Kept) : VideoSample(Kept[n]) \in Sample
  <2>1. \A n \in 1 .. Len(Kept) : Kept[n] \in Packet
    BY <1>1
  <2>. QED  BY <1>1, <2>1, SampleTimes
<1>3. VideoSamples = [n \in 1 .. Len(Kept) |-> VideoSample(Kept[n])]
  BY <1>1 DEF VideoSamples
<1>4. VideoSamples \in [1 .. Len(Kept) -> Sample]
  BY <1>2, <1>3
<1>5. VideoSamples \in Seq(Sample) /\ Len(VideoSamples) = Len(Kept)
  BY <1>1, <1>4
<1>6. \A n \in 1 .. Len(Kept) : VideoSample(Kept[n]).dts = Dts(Kept[n])
  BY DEF VideoSample
<1>7. QED
  BY <1>3, <1>5, <1>6

\* The duration of a sample is a uint32_t, and it leads to the next sample if
\* that is later.
LEMMA FixedDurationType ==
  ASSUME NEW samples \in Seq(Sample), NEW n \in 1 .. Len(samples)
  PROVE  /\ FixedDuration(samples, n) \in Nat
         /\ n < Len(samples) /\ samples[n].dts < samples[n + 1].dts =>
              FixedDuration(samples, n) = samples[n + 1].dts - samples[n].dts
<1>1. Len(samples) \in Nat /\ n \in Nat /\ n >= 1 /\ n <= Len(samples)
  BY LenProperties
<1>2. \A m \in 1 .. Len(samples) : samples[m].dts \in Int /\ samples[m].duration \in Nat
  <2>1. \A m \in 1 .. Len(samples) : samples[m] \in Sample
    BY ElementOfSeq
  <2>. QED  BY <2>1 DEF Sample
<1>3. ASSUME NEW m \in Nat, 1 <= m, m < Len(samples)
      PROVE  /\ Gap(samples, m) \in Nat
             /\ samples[m].dts < samples[m + 1].dts =>
                  Gap(samples, m) = samples[m + 1].dts - samples[m].dts
  <2>1. m \in 1 .. Len(samples) /\ m + 1 \in 1 .. Len(samples)
    BY <1>1, <1>3
  <2>2. /\ samples[m].dts \in Int /\ samples[m].duration \in Nat
        /\ samples[m + 1].dts \in Int
    BY <1>2, <2>1
  <2>3. QED
    BY <2>2 DEF Gap
<1>4. CASE n < Len(samples)
  <2>1. FixedDuration(samples, n) = Gap(samples, n)
    BY <1>1, <1>4 DEF FixedDuration
  <2>. QED  BY <1>1, <1>3, <1>4, <2>1
<1>5. CASE n = Len(samples) /\ n > 1
  <2>1. FixedDuration(samples, n) = Gap(samples, n - 1)
    BY <1>1, <1>5 DEF FixedDuration
  <2>2. n - 1 \in Nat /\ 1 <= n - 1 /\ n - 1 < Len(samples)
    BY <1>1, <1>5
  <2>. QED  BY <1>1, <1>3, <1>5, <2>1, <2>2
<1>6. CASE n = Len(samples) /\ n = 1
  <2>1. FixedDuration(samples, n) \in {LoneDuration, samples[n].duration}
    BY <1>6 DEF FixedDuration
  <2>2. samples[n].duration \in Nat /\ LoneDuration \in Nat
    BY <1>2 DEF LoneDuration
  <2>. QED  BY <1>1, <1>6, <2>1, <2>2
<1>7. QED
  BY <1>1, <1>4, <1>5, <1>6

\* fix_video_durations changes the durations and nothing else.
LEMMA FixVideoDurationsType ==
  ASSUME NEW samples \in Seq(Sample)
  PROVE  /\ FixVideoDurations(samples) \in Seq(Sample)
         /\ Len(FixVideoDurations(samples)) = Len(samples)
         /\ \A n \in 1 .. Len(samples) :
              /\ FixVideoDurations(samples)[n].dts = samples[n].dts
              /\ FixVideoDurations(samples)[n].cts = samples[n].cts
              /\ FixVideoDurations(samples)[n].duration = FixedDuration(samples, n)
<1>1. Len(samples) \in Nat /\ DOMAIN samples = 1 .. Len(samples)
  BY LenProperties
<1> DEFINE fixed(n) == [samples[n] EXCEPT !.duration = FixedDuration(samples, n)]
<1>2. ASSUME NEW n \in 1 .. Len(samples)
      PROVE  /\ fixed(n) \in Sample
             /\ fixed(n).dts = samples[n].dts /\ fixed(n).cts = samples[n].cts
             /\ fixed(n).duration = FixedDuration(samples, n)
  <2>1. samples[n] \in Sample
    BY ElementOfSeq
  <2>2. FixedDuration(samples, n) \in Nat
    BY FixedDurationType
  <2>. QED  BY <2>1, <2>2 DEF Sample
<1>3. FixVideoDurations(samples) = [n \in 1 .. Len(samples) |-> fixed(n)]
  BY <1>1 DEF FixVideoDurations
<1> HIDE DEF fixed
<1>4. FixVideoDurations(samples) \in [1 .. Len(samples) -> Sample]
  BY <1>2, <1>3
<1>5. /\ FixVideoDurations(samples) \in Seq(Sample)
      /\ Len(FixVideoDurations(samples)) = Len(samples)
  BY <1>1, <1>4
<1>6. \A n \in 1 .. Len(samples) : FixVideoDurations(samples)[n] = fixed(n)
  BY <1>3
<1>7. QED
  BY <1>2, <1>5, <1>6

\* A frame of audio is a sample.
LEMMA AudioSamples == \A s \in Seq(AudioSample) : s \in Seq(Sample)
<1>1. AudioSample \subseteq Sample
  BY DEF AudioSample, Sample
<1>2. QED
  BY <1>1, SeqMonotonic

\* Something, and something more or not.
LEMMA OneOrTwo ==
  ASSUME NEW S, NEW T, T \subseteq S, NEW v \in S, NEW a \in Seq(T), Len(a) \in 0 .. 1
  PROVE  /\ <<v>> \o a \in Seq(S)
         /\ Len(<<v>> \o a) \in 1 .. 2
         /\ (<<v>> \o a)[1] = v
         /\ Len(<<v>> \o a) = 2 => (<<v>> \o a)[2] \in T /\ a # <<>>
<1>1. a \in Seq(S) /\ <<v>> \in Seq(S) /\ Len(<<v>>) = 1 /\ <<v>>[1] = v
  <2>1. a \in Seq(S)
    BY SeqMonotonic
  <2>. QED  BY <2>1
<1>2. <<v>> \o a \in Seq(S) /\ Len(<<v>> \o a) = 1 + Len(a)
  BY <1>1, ConcatProperties
<1>3. (<<v>> \o a)[1] = v
  BY <1>1
<1>4. Len(a) = 1 => (<<v>> \o a)[2] = a[1] /\ a[1] \in T /\ a # <<>>
  BY <1>1
<1>5. QED
  BY <1>2, <1>3, <1>4

\* The tracks of a segment: the video, then the audio if there is any.
LEMMA VideoThenAudio ==
  ASSUME NEW video \in Seq(Sample), NEW audio \in Seq(Seq(AudioSample)),
         Len(audio) \in 0 .. 1
  PROVE  /\ <<video>> \o audio \in Seq(Seq(Sample))
         /\ Len(<<video>> \o audio) \in 1 .. 2
         /\ (<<video>> \o audio)[1] = video
         /\ Len(<<video>> \o audio) = 2 =>
              (<<video>> \o audio)[2] \in Seq(AudioSample) /\ audio # <<>>
<1>1. Seq(AudioSample) \subseteq Seq(Sample)
  BY AudioSamples
<1>2. QED
  BY <1>1, OneOrTwo

\* No action changes what the segment is made of.
LEMMA SourceStays ==
  ASSUME [Next]_vars
  PROVE  source' = source
BY DEF Next, vars, writerVars, MakeInit, AppendVideoPackets, FixDurations, WriteStyp,
  WriteSidx, BeginMoof, WriteTraf, BeginMdat, WriteSamples, Patch

\* So the packets and their times stay.
LEMMA KeptStays ==
  ASSUME source' = source
  PROVE  /\ Kept' = Kept
         /\ \A n : Dts(Kept[n])' = Dts(Kept[n])
         /\ \A n : VideoSample(Kept[n]).cts' = VideoSample(Kept[n]).cts
<1>1. Kept' = Kept
  BY DEF Kept
<1>2. ASSUME NEW n PROVE Dts(Kept[n])' = Dts(Kept[n])
  BY <1>1 DEF Dts, Shifted
<1>3. ASSUME NEW n PROVE VideoSample(Kept[n]).cts' = VideoSample(Kept[n]).cts
  BY <1>1 DEF VideoSample, Pts, Dts, Shifted
<1>4. QED
  BY <1>1, <1>2, <1>3

\* The actions that leave the tracks alone only go on in the order of phases.
LEMMA TracksStay ==
  ASSUME [Next]_vars
  PROVE  \/ phase = "packets" /\ AppendVideoPackets
         \/ phase = "durations" /\ FixDurations
         \/ /\ tracks' = tracks
            /\ \/ phase' = phase
               \/ phase = "init" /\ phase' = "packets"
               \/ phase \notin Early /\ phase' \notin Early
BY DEF Next, vars, writerVars, MakeInit, AppendVideoPackets, FixDurations, WriteStyp,
  WriteSidx, BeginMoof, WriteTraf, BeginMdat, WriteSamples, Patch, Early

\* The samples are made of the packets and get durations that lead from one to
\* the next.
LEMMA TracksStep ==
  ASSUME TracksInv, tracks \in Seq(Seq(Sample)), [Next]_vars
  PROVE  TracksInv' /\ tracks' \in Seq(Seq(Sample))
<1>1. source' = source
  BY SourceStays
<1>2. /\ Kept' = Kept
      /\ \A n : Dts(Kept[n])' = Dts(Kept[n])
      /\ \A n : VideoSample(Kept[n]).cts' = VideoSample(Kept[n]).cts
  BY <1>1, KeptStays
<1>3. source \in Segments /\ Len(Kept) \in Nat
  <2>1. source \in Segments
    BY DEF TracksInv
  <2>. QED  BY <2>1, SegmentParts, LenProperties
<1>4. CASE phase = "packets" /\ AppendVideoPackets
  <2>1. /\ tracks' = <<VideoSamples>> \o source.audio
        /\ phase' = IF Kept = <<>> THEN "thrown" ELSE "durations"
    BY <1>4 DEF AppendVideoPackets
  <2>2. /\ tracks' \in Seq(Seq(Sample)) /\ Len(tracks') \in 1 .. 2
        /\ tracks'[1] = VideoSamples
        /\ Len(tracks') = 2 => tracks'[2] \in Seq(AudioSample) /\ source.audio # <<>>
    BY <1>3, <2>1, VideoSamplesType, SegmentParts, VideoThenAudio
  <2>3. Len(tracks'[1]) = Len(Kept)
    BY <1>3, <2>2, VideoSamplesType
  <2>4. \A n \in 1 .. Len(Kept) : /\ tracks'[1][n].dts = Dts(Kept[n])
                                  /\ tracks'[1][n].cts = VideoSample(Kept[n]).cts
    BY <1>3, <2>2, VideoSamplesType
  <2>5. phase' # "thrown" => Len(Kept) >= 1
    <3>1. Kept \in Seq(Packet)
      BY <1>3, SegmentParts
    <3>2. Kept # <<>> => Len(Kept) # 0
      BY <3>1, EmptySeq
    <3>. QED  BY <1>3, <2>1, <3>2
  <2>6. phase' \notin {"init", "packets"} /\ phase' \in Early
    BY <2>1 DEF Early
  <2>7. QED
    BY <1>1, <1>2, <1>3, <2>2, <2>3, <2>4, <2>5, <2>6 DEF TracksInv
<1>5. CASE phase = "durations" /\ FixDurations
  <2>1. /\ Len(tracks) \in 1 .. 2
        /\ Len(tracks) = 2 => tracks[2] \in Seq(AudioSample) /\ source.audio # <<>>
        /\ Len(tracks[1]) = Len(Kept) /\ Len(Kept) >= 1
        /\ \A n \in 1 .. Len(Kept) : /\ tracks[1][n].dts = Dts(Kept[n])
                                     /\ tracks[1][n].cts = VideoSample(Kept[n]).cts
    BY <1>5 DEF TracksInv
  <2>2. phase' = "styp" /\ tracks' = [tracks EXCEPT ![1] = FixVideoDurations(tracks[1])]
    BY <1>5 DEF FixDurations
  <2>3. tracks[1] \in Seq(Sample)
    BY <2>1, ElementOfSeq
  <2>4. FixVideoDurations(tracks[1]) \in Seq(Sample)
    BY <2>3, FixVideoDurationsType
  <2>5. /\ tracks' \in Seq(Seq(Sample)) /\ Len(tracks') = Len(tracks)
        /\ tracks'[1] = FixVideoDurations(tracks[1])
        /\ Len(tracks) = 2 => tracks'[2] = tracks[2]
    BY <2>1, <2>2, <2>4, ExceptSeq
  <2>6. /\ Len(tracks'[1]) = Len(Kept)
        /\ \A n \in 1 .. Len(Kept) :
             /\ tracks'[1][n].dts = tracks[1][n].dts
             /\ tracks'[1][n].cts = tracks[1][n].cts
             /\ tracks'[1][n].duration = FixedDuration(tracks[1], n)
    BY <2>1, <2>3, <2>5, FixVideoDurationsType
  <2>7. ASSUME NEW n \in 1 .. (Len(Kept) - 1), tracks'[1][n].dts < tracks'[1][n + 1].dts
        PROVE  tracks'[1][n].duration = tracks'[1][n + 1].dts - tracks'[1][n].dts
    <3>1. n \in 1 .. Len(Kept) /\ n + 1 \in 1 .. Len(Kept) /\ n < Len(Kept)
      BY <1>3
    <3>2. tracks[1][n].dts < tracks[1][n + 1].dts
      BY <2>6, <2>7, <3>1
    <3>3. FixedDuration(tracks[1], n) = tracks[1][n + 1].dts - tracks[1][n].dts
      BY <2>1, <2>3, <3>1, <3>2, FixedDurationType
    <3>4. QED
      BY <2>6, <3>1, <3>3
  <2>8. QED
    <3>1. phase' \notin Early /\ phase' \notin {"init", "packets", "thrown"}
      BY <2>2 DEF Early
    <3>2. /\ Len(tracks') \in 1 .. 2
          /\ Len(tracks') = 2 => tracks'[2] \in Seq(AudioSample) /\ source'.audio # <<>>
      BY <1>1, <2>1, <2>5
    <3>3. \A n \in 1 .. Len(Kept) : /\ tracks'[1][n].dts = Dts(Kept[n])
                                    /\ tracks'[1][n].cts = VideoSample(Kept[n]).cts
      BY <2>1, <2>6
    <3>4. QED
      BY <1>1, <1>2, <1>3, <2>1, <2>5, <2>6, <2>7, <3>1, <3>2, <3>3 DEF TracksInv
<1>6. CASE /\ tracks' = tracks
           /\ \/ phase' = phase
              \/ phase = "init" /\ phase' = "packets"
              \/ phase \notin Early /\ phase' \notin Early
  <2>1. \/ phase' = phase
        \/ phase = "init" /\ phase' = "packets"
        \/ phase \notin Early /\ phase' \notin Early
    BY <1>6
  <2>2. tracks' = tracks
    BY <1>6
  <2>3. QED
    BY <1>1, <1>2, <1>3, <2>1, <2>2 DEF TracksInv, Early
<1>7. QED
  BY <1>4, <1>5, <1>6, TracksStay

-----------------------------------------------------------------------------
(* The buffer, action by action.                                           *)

\* A cast to a field keeps what is small enough.
LEMMA TruncatedSmall ==
  ASSUME NEW n \in Nat
  PROVE  /\ Truncated(n) \in Nat /\ Truncated(n) <= n
         /\ n < Word => Truncated(n) = n
<1>1. ASSUME NEW w \in Nat, w >= 256
      PROVE  n % w \in Nat /\ n % w <= n /\ (n < w => n % w = n)
  BY <1>1, SMTT(30)
<1>2. QED
  BY <1>1, LayoutConstants DEF Truncated

\* What fits in 31 bits fits in the field.
LEMMA HalfWord ==
  /\ Word \div 2 \in Nat
  /\ \A n \in Nat : n < Word \div 2 => n < Word /\ n % (Word \div 2) = n
  /\ \A n \in Nat : n % (Word \div 2) \in Nat
<1>1. Word \div 2 \in Nat /\ Word \div 2 > 0 /\ Word \div 2 <= Word
  BY LayoutConstants
<1>2. ASSUME NEW h \in Nat, h > 0, NEW n \in Nat
      PROVE  n % h \in Nat /\ (n < h => n % h = n)
  BY <1>2, SMTT(30)
<1>3. \A n \in Nat : n < Word \div 2 => n < Word
  BY <1>1, LayoutConstants
<1>4. QED
  BY <1>1, <1>2, <1>3

\* A segment that fits has fitted before.
LEMMA FitsBefore ==
  ASSUME pos \in Nat, pos' \in Nat, pos <= pos', Fits'
  PROVE  Fits /\ pos' < Word
<1>1. pos' < Word \div 2
  BY DEF Fits
<1>2. PICK h \in Nat : h = Word \div 2
  BY HalfWord
<1>3. pos < h
  BY <1>1, <1>2
<1>4. QED
  BY <1>1, <1>2, <1>3, HalfWord DEF Fits

\* A box is one.
LEMMA BoxType ==
  ASSUME NEW type \in BoxNames, NEW at \in Nat, NEW size \in Nat
  PROVE  /\ Box(type, at, size) \in BoxRecord
         /\ Box(type, at, size).at = at
         /\ Box(type, at, size).size <= size
         /\ size < Word => Box(type, at, size).size = size
<1>1. PICK s \in Nat : s = Truncated(size) /\ s <= size /\ (size < Word => s = size)
  BY TruncatedSmall
<1>2. Box(type, at, size) = [type |-> type, at |-> at, size |-> s]
  BY <1>1 DEF Box
<1>3. QED
  BY <1>1, <1>2 DEF BoxRecord

\* The sizes of boxes are numbers.
LEMMA BoxSizes ==
  /\ StypSize = 24 /\ SidxSize = 52 /\ MfhdSize = 16 /\ BoxHeader = 8
  /\ \A s \in Seq(Sample) : TrafSize(s) \in Nat
<1>1. \A s \in Seq(Sample) : Len(s) \in Nat
  OBVIOUS
<1>2. StypSize = 24 /\ SidxSize = 52 /\ MfhdSize = 16 /\ BoxHeader = 8
  BY DEF StypSize, SidxSize, MfhdSize, BoxHeader, FullBoxHeader
<1>3. ASSUME NEW s \in Seq(Sample) PROVE TrafSize(s) \in Nat
  <2>1. TrunSize(s) \in Nat
    BY <1>1 DEF TrunSize, BoxHeader, FullBoxHeader
  <2>. QED
    BY <2>1 DEF TrafSize, TfhdSize, TfdtSize, BoxHeader, FullBoxHeader
<1>4. QED
  BY <1>2, <1>3

\* Sizes and durations of samples are sequences of numbers, and so are the
\* times a player starts from.
LEMMA SampleNumbers ==
  ASSUME NEW s \in Seq(Sample)
  PROVE  /\ Sizes(s) \in Seq(Nat) /\ Len(Sizes(s)) = Len(s)
         /\ Durations(s) \in Seq(Nat) /\ Len(Durations(s)) = Len(s)
         /\ \A n \in 1 .. Len(s) : Durations(s)[n] = s[n].duration
         /\ Total(Sizes(s)) \in Nat /\ Total(Durations(s)) \in Nat
         /\ Ept(s) \in Int
<1>1. Len(s) \in Nat /\ DOMAIN s = 1 .. Len(s)
  BY LenProperties
<1>2. \A n \in 1 .. Len(s) : /\ s[n].size \in Nat /\ s[n].duration \in Nat
                             /\ s[n].dts \in Int /\ s[n].cts \in Nat
  <2>1. \A n \in 1 .. Len(s) : s[n] \in Sample
    BY ElementOfSeq
  <2>. QED  BY <2>1 DEF Sample
<1>3. Sizes(s) \in Seq(Nat) /\ Len(Sizes(s)) = Len(s)
  <2>1. Sizes(s) = [n \in 1 .. Len(s) |-> s[n].size]
    BY <1>1 DEF Sizes
  <2>2. Sizes(s) \in [1 .. Len(s) -> Nat]
    BY <1>2, <2>1
  <2>. QED  BY <1>1, <2>2
<1>4. /\ Durations(s) \in Seq(Nat) /\ Len(Durations(s)) = Len(s)
      /\ \A n \in 1 .. Len(s) : Durations(s)[n] = s[n].duration
  <2>1. Durations(s) = [n \in 1 .. Len(s) |-> s[n].duration]
    BY <1>1 DEF Durations
  <2>2. Durations(s) \in [1 .. Len(s) -> Nat]
    BY <1>2, <2>1
  <2>. QED  BY <1>1, <2>1, <2>2
<1>5. Total(Sizes(s)) \in Nat /\ Total(Durations(s)) \in Nat
  BY <1>3, <1>4, TotalNat
<1>6. Ept(s) \in Int
  <2>1. CASE s = <<>>
    BY <2>1 DEF Ept, Tfdt
  <2>2. CASE s # <<>>
    <3>1. 1 \in 1 .. Len(s)
      BY <1>1, <2>2, EmptySeq
    <3>. QED  BY <1>2, <2>2, <3>1 DEF Ept
  <2>. QED  BY <2>1, <2>2
<1>7. QED
  BY <1>3, <1>4, <1>5, <1>6

\* A box behind the last one keeps the boxes together.
LEMMA ContiguousAppend ==
  ASSUME NEW v \in Seq(BoxRecord), Len(v) >= 1, NEW end \in Nat, Contiguous(v, end),
         NEW b \in BoxRecord, b.at = end
  PROVE  Contiguous(Append(v, b), end + b.size)
<1>0. SUFFICES ASSUME NEW w, w = Append(v, b)
               PROVE  Contiguous(w, end + b.size)
  OBVIOUS
<1>1. /\ v[1].at = 0
      /\ \A n \in 1 .. (Len(v) - 1) : v[n + 1].at = v[n].at + v[n].size
      /\ v[Len(v)].at + v[Len(v)].size = end
  BY DEF Contiguous
<1>2. /\ Len(v) \in Nat /\ Len(w) = Len(v) + 1 /\ w[Len(w)] = b
      /\ \A n \in 1 .. Len(v) : w[n] = v[n]
  BY <1>0, AppendProperties
<1>3. w[1].at = 0
  BY <1>1, <1>2
<1>4. ASSUME NEW n \in 1 .. (Len(w) - 1)
      PROVE  w[n + 1].at = w[n].at + w[n].size
  <2>1. CASE n < Len(v)
    <3>1. n \in 1 .. (Len(v) - 1) /\ n \in 1 .. Len(v) /\ n + 1 \in 1 .. Len(v)
      BY <1>2, <2>1
    <3>. QED  BY <1>1, <1>2, <3>1
  <2>2. CASE n = Len(v)
    <3>1. n \in 1 .. Len(v) /\ n + 1 = Len(w)
      BY <1>2, <2>2
    <3>. QED  BY <1>1, <1>2, <2>2, <3>1
  <2>3. QED
    BY <1>2, <2>1, <2>2
<1>5. QED
  BY <1>0, <1>2, <1>3, <1>4 DEF Contiguous

\* What the steps of the writer keep.
WriterInv == TypeOK /\ BufferTypes /\ BufferInv /\ SamplesInv

\* Nothing is written before the durations are there.
LEMMA EarlyWriter ==
  ASSUME WriterInv, tracks' \in Seq(Seq(Sample)), UNCHANGED writerVars,
         phase \in Early, phase' \in Early \cup {"styp"}
  PROVE  WriterInv'
<1>1. /\ pos = 0 /\ track = 1 /\ boxes = <<>> /\ moofAt = 0
      /\ sidx = <<>> /\ dataOffset = <<>> /\ payloadAt = <<>> /\ sampleAt = <<>>
  BY DEF WriterInv, BufferInv
<1>2. /\ pos' = 0 /\ track' = 1 /\ boxes' = <<>> /\ moofAt' = 0
      /\ sidx' = <<>> /\ dataOffset' = <<>> /\ payloadAt' = <<>> /\ sampleAt' = <<>>
  BY <1>1 DEF writerVars
<1>3. Len(tracks') \in Nat
  BY LenProperties
<1>4. phase' \in {"init", "packets", "thrown", "durations", "styp"}
  BY DEF Early
<1>5. TypeOK'
  BY <1>2, <1>3, <1>4 DEF TypeOK
<1>6. BufferTypes'
  BY <1>2 DEF BufferTypes
<1>7. BufferInv'
  BY <1>2, <1>4 DEF BufferInv
<1>8. SamplesInv'
  BY <1>2 DEF SamplesInv
<1>9. QED
  BY <1>5, <1>6, <1>7, <1>8 DEF WriterInv

\* WriteStyp puts the first box at the start of the buffer.
LEMMA StypStep ==
  ASSUME WriterInv, WriteStyp
  PROVE  WriterInv'
<1>1. /\ pos = 0 /\ track = 1 /\ boxes = <<>> /\ moofAt = 0
      /\ sidx = <<>> /\ dataOffset = <<>> /\ payloadAt = <<>> /\ sampleAt = <<>>
      /\ tracks \in Seq(Seq(Sample))
  BY DEF WriterInv, BufferInv, WriteStyp, TypeOK
<1> DEFINE b == Box("styp", 0, StypSize)
<1>2. /\ pos' = 24 /\ track' = 1 /\ boxes' = <<b>> /\ moofAt' = 0 /\ phase' = "sidx"
      /\ sidx' = <<>> /\ dataOffset' = <<>> /\ payloadAt' = <<>> /\ sampleAt' = <<>>
      /\ tracks' = tracks
  BY <1>1, BoxSizes DEF WriteStyp
<1>3. /\ b \in BoxRecord /\ b.at = 0
      /\ 24 < Word => b.size = 24
  <2>1. b = Box("styp", 0, 24)
    BY BoxSizes
  <2>2. "styp" \in BoxNames
    BY DEF BoxNames
  <2>. HIDE DEF b
  <2>. QED  BY <2>1, <2>2, BoxType
<1> HIDE DEF b
<1>4. Len(tracks') \in Nat
  BY <1>1, <1>2, LenProperties
<1>5. TypeOK'
  BY <1>1, <1>2, <1>4 DEF TypeOK
<1>6. BufferTypes'
  BY <1>2, <1>3 DEF BufferTypes
<1>7. AfterSidx' = pos'
  BY <1>2, BoxSizes DEF AfterSidx
<1>8. Tiled(pos)'
  <2>1. Fits' => 24 < Word
    BY <1>2, HalfWord DEF Fits
  <2>2. Len(<<b>>) = 1 /\ <<b>>[1] = b
    OBVIOUS
  <2>3. b.size = 24 => Contiguous(<<b>>, 24)
    BY <1>3, <2>2 DEF Contiguous
  <2>. QED  BY <1>2, <1>3, <2>1, <2>3 DEF Tiled
<1>9. BufferInv'
  <2>1. Len(boxes') = 1 /\ Len(sidx') = 0
    BY <1>2
  <2>. QED  BY <1>2, <1>7, <1>8, <2>1 DEF BufferInv, Early
<1>10. SamplesInv'
  BY <1>2 DEF SamplesInv
<1>11. QED
  BY <1>5, <1>6, <1>9, <1>10 DEF WriterInv

\* A sidx is a box more, and the record of where it ends and what it says.
LEMMA SidxStep ==
  ASSUME WriterInv, WriteSidx
  PROVE  WriterInv'
<1>1. /\ phase = "sidx" /\ track \in 1 .. Len(tracks) /\ tracks \in Seq(Seq(Sample))
      /\ boxes \in Seq(BoxRecord)
      /\ sidx \in Seq([end : Nat, first : {0}, ept : Int, duration : Nat, size : Nat])
      /\ dataOffset = <<>> /\ payloadAt = <<>> /\ sampleAt = <<>> /\ moofAt = 0
      /\ pos \in Nat
  BY DEF WriterInv, BufferInv, BufferTypes, WriteSidx, TypeOK, Tracks
<1>2. Len(boxes) = track /\ Len(sidx) = track - 1 /\ Tiled(pos)
  BY <1>1 DEF WriterInv, BufferInv
<1>3. Len(tracks) \in Nat /\ tracks[track] \in Seq(Sample) /\ track \in Nat
  BY <1>1, LenProperties, ElementOfSeq
<1>4. PICK b : b = Box("sidx", pos, SidxSize)
  OBVIOUS
<1>5. PICK x : x = [end      |-> pos + SidxSize,
                    first    |-> 0,
                    ept      |-> Ept(tracks[track]),
                    duration |-> Truncated(Total(Durations(tracks[track]))),
                    size     |-> 0]
  OBVIOUS
<1>6. /\ pos' = pos + 52 /\ track' = track + 1 /\ moofAt' = 0 /\ phase' = "sidx"
      /\ boxes' = Append(boxes, b) /\ sidx' = Append(sidx, x)
      /\ dataOffset' = <<>> /\ payloadAt' = <<>> /\ sampleAt' = <<>>
      /\ tracks' = tracks
  BY <1>1, <1>4, <1>5, BoxSizes DEF WriteSidx
<1>7. /\ b \in BoxRecord /\ b.at = pos
      /\ 52 < Word => b.size = 52
  <2>1. b = Box("sidx", pos, 52)
    BY <1>4, BoxSizes
  <2>2. "sidx" \in BoxNames
    BY DEF BoxNames
  <2>. QED  BY <1>1, <2>1, <2>2, BoxType
<1>8. /\ x \in [end : Nat, first : {0}, ept : Int, duration : Nat, size : Nat]
      /\ x.end = pos + 52
  <2>1. Ept(tracks[track]) \in Int /\ Truncated(Total(Durations(tracks[track]))) \in Nat
    BY <1>3, SampleNumbers, TruncatedSmall
  <2>. QED  BY <1>1, <1>5, <2>1, BoxSizes
<1>9. /\ Len(boxes') = track + 1 /\ Len(sidx') = track /\ sidx'[track] = x
      /\ boxes' \in Seq(BoxRecord)
      /\ sidx' \in Seq([end : Nat, first : {0}, ept : Int, duration : Nat, size : Nat])
  <2>1. Len(boxes') = track + 1 /\ boxes' \in Seq(BoxRecord)
    BY <1>1, <1>2, <1>6, <1>7, AppendProperties
  <2>2. /\ sidx' \in Seq([end : Nat, first : {0}, ept : Int, duration : Nat, size : Nat])
        /\ Len(sidx') = Len(sidx) + 1 /\ sidx'[Len(sidx) + 1] = x
    BY <1>1, <1>6, <1>8, AppendProperties
  <2>. QED  BY <1>2, <1>3, <2>1, <2>2
<1>10. TypeOK'
  BY <1>1, <1>3, <1>6, <1>9 DEF TypeOK
<1>11. BufferTypes'
  BY <1>1, <1>6, <1>9 DEF BufferTypes
<1>12. AfterSidx' = pos'
  <2>1. sidx' # <<>>
    BY <1>1, <1>9, EmptySeq
  <2>. QED  BY <1>6, <1>8, <1>9, <2>1 DEF AfterSidx
<1>13. Tiled(pos)'
  <2>1. SUFFICES ASSUME Fits' PROVE Contiguous(boxes', pos')
    BY DEF Tiled
  <2>2. Fits /\ 52 < Word
    BY <1>1, <1>6, <2>1, FitsBefore, LayoutConstants
  <2>3. Len(boxes) >= 1 /\ Contiguous(boxes, pos)
    BY <1>1, <1>2, <2>2 DEF Tiled
  <2>4. Contiguous(Append(boxes, b), pos + b.size)
    BY <1>1, <1>7, <2>3, ContiguousAppend
  <2>. QED  BY <1>6, <1>7, <2>2, <2>4
<1>14. BufferInv'
  BY <1>3, <1>6, <1>9, <1>12, <1>13 DEF BufferInv, Early
<1>15. SamplesInv'
  BY <1>6 DEF SamplesInv
<1>16. QED
  BY <1>10, <1>11, <1>14, <1>15 DEF WriterInv

\* The header of moof is written behind the last sidx.
LEMMA BeginMoofStep ==
  ASSUME WriterInv, BeginMoof, Len(tracks) \in 1 .. 2
  PROVE  WriterInv'
<1>1. /\ phase = "sidx" /\ tracks \in Seq(Seq(Sample)) /\ track \in 1 .. (Len(tracks) + 1)
      /\ boxes \in Seq(BoxRecord)
      /\ sidx \in Seq([end : Nat, first : {0}, ept : Int, duration : Nat, size : Nat])
      /\ dataOffset = <<>> /\ payloadAt = <<>> /\ sampleAt = <<>>
      /\ pos \in Nat
      /\ Len(boxes) = track /\ Len(sidx) = track - 1 /\ Tiled(pos) /\ AfterSidx = pos
  BY DEF WriterInv, BufferInv, BufferTypes, BeginMoof, TypeOK
<1>2. Len(tracks) \in Nat /\ track = Len(tracks) + 1
  <2>1. DOMAIN tracks = 1 .. Len(tracks) /\ Len(tracks) \in Nat
    BY <1>1, LenProperties
  <2>2. track \notin 1 .. Len(tracks)
    BY <2>1 DEF BeginMoof, Tracks
  <2>. QED  BY <1>1, <2>1, <2>2
<1>3. /\ pos' = pos + 24 /\ track' = 1 /\ moofAt' = pos /\ phase' = "moof"
      /\ boxes' = boxes /\ sidx' = sidx /\ tracks' = tracks
      /\ dataOffset' = <<>> /\ payloadAt' = <<>> /\ sampleAt' = <<>>
  BY <1>1, BoxSizes DEF BeginMoof
<1>4. Len(boxes) = Len(tracks) + 1 /\ Len(sidx) = Len(tracks)
  BY <1>1, <1>2
<1>5. TypeOK'
  BY <1>1, <1>2, <1>3, <1>4 DEF TypeOK
<1>6. BufferTypes'
  BY <1>1, <1>3 DEF BufferTypes
<1>7. sidx[Len(sidx)].end = pos
  <2>1. sidx # <<>>
    BY <1>1, <1>4, EmptySeq
  <2>. QED  BY <1>1, <2>1 DEF AfterSidx
<1>8. Tiled(moofAt)'
  <2>1. Fits' => Fits
    BY <1>1, <1>3, FitsBefore
  <2>. QED  BY <1>1, <1>3, <2>1 DEF Tiled
<1>9. BufferInv'
  BY <1>3, <1>4, <1>7, <1>8 DEF BufferInv, Early
<1>10. SamplesInv'
  BY <1>3 DEF SamplesInv
<1>11. QED
  BY <1>5, <1>6, <1>9, <1>10 DEF WriterInv

\* A traf is part of moof: no box is finished.
LEMMA TrafStep ==
  ASSUME WriterInv, WriteTraf
  PROVE  WriterInv'
<1>1. /\ phase = "moof" /\ tracks \in Seq(Seq(Sample)) /\ track \in 1 .. Len(tracks)
      /\ dataOffset \in Seq(Nat) /\ payloadAt = <<>> /\ sampleAt = <<>>
      /\ pos \in Nat /\ moofAt \in 0 .. pos
      /\ Len(boxes) = Len(tracks) + 1 /\ Len(sidx) = Len(tracks)
      /\ sidx[Len(sidx)].end = moofAt /\ Len(dataOffset) = track - 1 /\ Tiled(moofAt)
  BY DEF WriterInv, BufferInv, BufferTypes, WriteTraf, TypeOK, Tracks
<1>2. Len(tracks) \in Nat /\ tracks[track] \in Seq(Sample) /\ track \in Nat
  BY <1>1, LenProperties, ElementOfSeq
<1>3. PICK n \in Nat : n = TrafSize(tracks[track])
  BY <1>2, BoxSizes
<1>4. /\ pos' = pos + n /\ track' = track + 1 /\ moofAt' = moofAt /\ phase' = "moof"
      /\ boxes' = boxes /\ sidx' = sidx /\ tracks' = tracks
      /\ dataOffset' = Append(dataOffset, 0) /\ payloadAt' = <<>> /\ sampleAt' = <<>>
  BY <1>1, <1>3 DEF WriteTraf
<1>5. dataOffset' \in Seq(Nat) /\ Len(dataOffset') = track
  <2>1. 0 \in Nat
    OBVIOUS
  <2>2. dataOffset' \in Seq(Nat) /\ Len(dataOffset') = Len(dataOffset) + 1
    BY <1>1, <1>4, <2>1, AppendProperties
  <2>. QED  BY <1>1, <1>2, <2>2
<1>6. TypeOK'
  BY <1>1, <1>2, <1>4, <1>5 DEF TypeOK
<1>7. BufferTypes'
  BY <1>4, <1>5 DEF BufferTypes, WriterInv
<1>8. Tiled(moofAt)'
  <2>1. Fits' => Fits
    BY <1>1, <1>3, <1>4, FitsBefore
  <2>. QED  BY <1>1, <1>4, <2>1 DEF Tiled
<1>9. BufferInv'
  BY <1>1, <1>2, <1>4, <1>5, <1>8 DEF BufferInv, Early
<1>10. SamplesInv'
  BY <1>4 DEF SamplesInv
<1>11. QED
  BY <1>6, <1>7, <1>9, <1>10 DEF WriterInv

\* EndBox of moof, and the header of mdat right behind it.
LEMMA BeginMdatStep ==
  ASSUME WriterInv, BeginMdat, Len(tracks) \in 1 .. 2
  PROVE  WriterInv'
<1>1. /\ phase = "moof" /\ tracks \in Seq(Seq(Sample)) /\ track \in 1 .. (Len(tracks) + 1)
      /\ boxes \in Seq(BoxRecord)
      /\ payloadAt = <<>> /\ sampleAt = <<>>
      /\ pos \in Nat /\ moofAt \in 0 .. pos
      /\ Len(boxes) = Len(tracks) + 1 /\ Len(sidx) = Len(tracks)
      /\ sidx[Len(sidx)].end = moofAt /\ Len(dataOffset) = track - 1 /\ Tiled(moofAt)
  BY DEF WriterInv, BufferInv, BufferTypes, BeginMdat, TypeOK
<1>2. Len(tracks) \in Nat /\ track = Len(tracks) + 1
  <2>1. DOMAIN tracks = 1 .. Len(tracks) /\ Len(tracks) \in Nat
    BY <1>1, LenProperties
  <2>2. track \notin 1 .. Len(tracks)
    BY <2>1 DEF BeginMdat, Tracks
  <2>. QED  BY <1>1, <2>1, <2>2
<1>3. PICK b : b = Box("moof", moofAt, pos - moofAt)
  OBVIOUS
<1>4. /\ pos' = pos + 8 /\ track' = 1 /\ moofAt' = moofAt /\ phase' = "mdat"
      /\ boxes' = Append(boxes, b) /\ sidx' = sidx /\ tracks' = tracks
      /\ dataOffset' = dataOffset /\ payloadAt' = <<>> /\ sampleAt' = <<>>
  BY <1>1, <1>3, BoxSizes DEF BeginMdat, EndedBox
<1>5. b \in BoxRecord /\ b.at = moofAt /\ b.size \in Nat /\ b.size <= pos - moofAt
  <2>1. pos - moofAt \in Nat /\ moofAt \in Nat /\ "moof" \in BoxNames
    BY <1>1 DEF BoxNames
  <2>2. b \in BoxRecord /\ b.at = moofAt /\ b.size <= pos - moofAt
    BY <1>3, <2>1, BoxType
  <2>. QED  BY <2>2 DEF BoxRecord
<1>6. /\ boxes' \in Seq(BoxRecord) /\ Len(boxes') = Len(tracks) + 2
      /\ boxes'[Len(boxes')] = b
  <2>1. /\ boxes' \in Seq(BoxRecord) /\ Len(boxes') = Len(boxes) + 1
        /\ boxes'[Len(boxes) + 1] = b
    BY <1>1, <1>4, <1>5, AppendProperties
  <2>. QED  BY <1>1, <1>2, <2>1
<1>7. TypeOK'
  <2>1. moofAt' \in 0 .. pos' /\ pos' \in Nat
    BY <1>1, <1>4
  <2>2. Len(dataOffset') <= Len(tracks') /\ Len(sidx') <= Len(tracks')
    BY <1>1, <1>2, <1>4
  <2>. QED  BY <1>1, <1>2, <1>4, <2>1, <2>2 DEF TypeOK
<1>8. BufferTypes'
  BY <1>4, <1>6 DEF BufferTypes, WriterInv
<1>9. MdatAt' = moofAt + b.size
  BY <1>4, <1>6 DEF MdatAt
<1>10. Tiled(MdatAt)'
  <2>1. Fits' => Fits
    BY <1>1, <1>4, FitsBefore
  <2>2. Len(boxes) >= 1 /\ moofAt \in Nat
    BY <1>1, <1>2
  <2>3. Contiguous(boxes, moofAt) => Contiguous(boxes', moofAt + b.size)
    BY <1>1, <1>4, <1>5, <2>2, ContiguousAppend
  <2>. QED  BY <1>1, <1>9, <2>1, <2>3 DEF Tiled
<1>11. BufferInv'
  <2>1. Len(dataOffset') = Len(tracks') /\ Len(payloadAt') = 0 /\ Len(sampleAt') = 0
    BY <1>1, <1>2, <1>4
  <2>2. boxes'[Len(boxes')].at = moofAt' /\ MdatAt' <= pos'
    BY <1>1, <1>4, <1>5, <1>6, <1>9
  <2>. QED  BY <1>1, <1>4, <1>6, <1>10, <2>1, <2>2 DEF BufferInv, Early
<1>12. SamplesInv'
  BY <1>4 DEF SamplesInv
<1>13. QED
  BY <1>7, <1>8, <1>11, <1>12 DEF WriterInv

\* Every sample lies somewhere.
LEMMA WrittenAt ==
  ASSUME NEW s \in Seq(Sample), NEW at \in Nat,
         NEW w, w = [n \in DOMAIN s |-> at + Total(SubSeq(Sizes(s), 1, n - 1))]
  PROVE  /\ w \in Seq(Nat)
         /\ \A n \in 1 .. Len(s) : w[n] = at + Total(SubSeq(Sizes(s), 1, n - 1))
<1>1. Len(s) \in Nat /\ DOMAIN s = 1 .. Len(s)
  BY LenProperties
<1>2. ASSUME NEW n \in 1 .. Len(s) PROVE Total(SubSeq(Sizes(s), 1, n - 1)) \in Nat
  <2>1. Sizes(s) \in Seq(Nat) /\ n - 1 \in 0 .. Len(Sizes(s))
    BY <1>1, SampleNumbers
  <2>. QED  BY <2>1, TotalNat
<1>3. w = [n \in 1 .. Len(s) |-> at + Total(SubSeq(Sizes(s), 1, n - 1))]
  BY <1>1
<1>4. \A n \in 1 .. Len(s) : at + Total(SubSeq(Sizes(s), 1, n - 1)) \in Nat
  BY <1>2
<1>5. w \in [1 .. Len(s) -> Nat]
  BY <1>3, <1>4
<1>6. QED
  BY <1>1, <1>3, <1>5

\* The samples of a track follow what was written, each behind the one before.
LEMMA SamplesStep ==
  ASSUME WriterInv, WriteSamples
  PROVE  WriterInv'
<1>1. /\ phase = "mdat" /\ tracks \in Seq(Seq(Sample)) /\ track \in 1 .. Len(tracks)
      /\ payloadAt \in Seq(Nat) /\ sampleAt \in Seq(Seq(Nat))
      /\ pos \in Nat /\ moofAt \in 0 .. pos
      /\ Len(sidx) = Len(tracks) /\ Len(dataOffset) = Len(tracks)
      /\ Len(payloadAt) = track - 1 /\ Len(sampleAt) = track - 1
      /\ MdatAt <= pos /\ Tiled(MdatAt)
  BY DEF WriterInv, BufferInv, BufferTypes, WriteSamples, TypeOK, Tracks
<1>2. Len(tracks) \in Nat /\ tracks[track] \in Seq(Sample) /\ track \in Nat
  BY <1>1, LenProperties, ElementOfSeq
<1>3. PICK size \in Nat : size = Total(Sizes(tracks[track]))
  BY <1>2, SampleNumbers
<1>4. PICK w : w = [n \in DOMAIN tracks[track] |->
                      pos + Total(SubSeq(Sizes(tracks[track]), 1, n - 1))]
  OBVIOUS
<1>5. /\ pos' = pos + size /\ track' = track + 1 /\ moofAt' = moofAt /\ phase' = "mdat"
      /\ boxes' = boxes /\ sidx' = sidx /\ tracks' = tracks /\ dataOffset' = dataOffset
      /\ payloadAt' = Append(payloadAt, pos - moofAt)
      /\ sampleAt' = Append(sampleAt, w)
  BY <1>1, <1>3, <1>4 DEF WriteSamples
<1>6. /\ w \in Seq(Nat)
      /\ \A n \in 1 .. Len(tracks[track]) :
           w[n] = pos + Total(SubSeq(Sizes(tracks[track]), 1, n - 1))
  BY <1>1, <1>2, <1>4, WrittenAt
<1>7. /\ payloadAt' \in Seq(Nat) /\ Len(payloadAt') = track
      /\ payloadAt'[track] = pos - moofAt
      /\ \A k \in 1 .. (track - 1) : payloadAt'[k] = payloadAt[k]
  <2>1. pos - moofAt \in Nat
    BY <1>1
  <2>2. /\ payloadAt' \in Seq(Nat) /\ Len(payloadAt') = Len(payloadAt) + 1
        /\ payloadAt'[Len(payloadAt) + 1] = pos - moofAt
        /\ \A k \in 1 .. Len(payloadAt) : payloadAt'[k] = payloadAt[k]
    BY <1>1, <1>5, <2>1, AppendProperties
  <2>. QED  BY <1>1, <1>2, <2>2
<1>8. /\ sampleAt' \in Seq(Seq(Nat)) /\ Len(sampleAt') = track
      /\ sampleAt'[track] = w
      /\ \A k \in 1 .. (track - 1) : sampleAt'[k] = sampleAt[k]
  <2>1. /\ sampleAt' \in Seq(Seq(Nat)) /\ Len(sampleAt') = Len(sampleAt) + 1
        /\ sampleAt'[Len(sampleAt) + 1] = w
        /\ \A k \in 1 .. Len(sampleAt) : sampleAt'[k] = sampleAt[k]
    BY <1>1, <1>5, <1>6, AppendProperties
  <2>. QED  BY <1>1, <1>2, <2>1
<1>9. TypeOK'
  <2>1. moofAt' \in 0 .. pos' /\ pos' \in Nat
    BY <1>1, <1>5
  <2>2. track' \in 1 .. (Len(tracks') + 1)
    BY <1>1, <1>2, <1>5
  <2>3. /\ Len(payloadAt') <= Len(tracks') /\ Len(sampleAt') = Len(payloadAt')
        /\ Len(dataOffset') <= Len(tracks') /\ Len(sidx') <= Len(tracks')
    BY <1>1, <1>2, <1>5, <1>7, <1>8
  <2>. QED  BY <1>1, <1>5, <2>1, <2>2, <2>3 DEF TypeOK
<1>10. BufferTypes'
  BY <1>5, <1>7, <1>8 DEF BufferTypes, WriterInv
<1>11. MdatAt' = MdatAt
  BY <1>5 DEF MdatAt
<1>12. BufferInv'
  <2>1. Len(payloadAt') = track' - 1 /\ Len(sampleAt') = track' - 1
    BY <1>2, <1>5, <1>7, <1>8
  <2>2. Tiled(MdatAt)'
    <3>1. Fits' => Fits
      BY <1>1, <1>3, <1>5, FitsBefore
    <3>. QED  BY <1>1, <1>5, <1>11, <3>1 DEF Tiled
  <2>3. MdatAt' <= pos'
    <3>1. MdatAt \in Int
      <4>1. Len(boxes) = Len(tracks) + 2 /\ boxes \in Seq(BoxRecord)
        BY <1>1 DEF WriterInv, BufferInv, BufferTypes
      <4>2. boxes[Len(boxes)] \in BoxRecord
        BY <1>2, <4>1, ElementOfSeq
      <4>. QED  BY <1>1, <4>2 DEF MdatAt, BoxRecord
    <3>. QED  BY <1>1, <1>3, <1>5, <1>11, <3>1
  <2>4. /\ Len(boxes) = Len(tracks) + 2 /\ sidx[Len(sidx)].end = moofAt
        /\ boxes[Len(boxes)].at = moofAt
    BY <1>1 DEF WriterInv, BufferInv
  <2>. QED  BY <1>1, <1>5, <2>1, <2>2, <2>3, <2>4 DEF BufferInv, Early
<1>13. SamplesInv'
  <2>1. ASSUME NEW k \in 1 .. Len(sampleAt')
        PROVE  /\ k <= Len(payloadAt') /\ k <= Len(tracks)
               /\ moofAt + payloadAt'[k] <= pos'
               /\ \A n \in 1 .. Len(tracks[k]) :
                    sampleAt'[k][n] =
                      moofAt + payloadAt'[k] + Total(SubSeq(Sizes(tracks[k]), 1, n - 1))
    <3>1. k \in Nat /\ k <= Len(payloadAt') /\ k <= Len(tracks)
      BY <1>1, <1>2, <1>7, <1>8
    <3>2. CASE k = track
      <4>1. moofAt + payloadAt'[k] = pos
        BY <1>1, <1>7, <3>2
      <4>. QED  BY <1>1, <1>3, <1>5, <1>6, <1>8, <3>1, <3>2, <4>1
    <3>3. CASE k # track
      <4>1. k \in 1 .. (track - 1) /\ k \in 1 .. Len(sampleAt) /\ k \in 1 .. Len(payloadAt)
        BY <1>1, <1>2, <1>8, <3>3
      <4>2. payloadAt'[k] = payloadAt[k] /\ sampleAt'[k] = sampleAt[k]
        BY <1>7, <1>8, <4>1
      <4>3. payloadAt[k] \in Nat
        BY <1>1, <4>1, ElementOfSeq
      <4>4. /\ moofAt + payloadAt[k] <= pos
            /\ \A n \in 1 .. Len(tracks[k]) :
                 sampleAt[k][n] =
                   moofAt + payloadAt[k] + Total(SubSeq(Sizes(tracks[k]), 1, n - 1))
        BY <4>1 DEF WriterInv, SamplesInv
      <4>5. moofAt + payloadAt'[k] <= pos'
        <5>1. PICK at \in Nat : at = payloadAt[k]
          BY <4>3
        <5>2. moofAt + at <= pos /\ moofAt \in Nat /\ pos' = pos + size
          BY <1>1, <1>5, <4>4, <5>1
        <5>3. pos \in Nat /\ size \in Nat
          BY <1>1, <1>3
        <5>4. moofAt + at <= pos + size
          BY <5>2, <5>3
        <5>. QED  BY <4>2, <5>1, <5>2, <5>4
      <4>. QED  BY <3>1, <4>2, <4>4, <4>5
    <3>4. QED
      BY <3>2, <3>3
  <2>. QED  BY <1>5, <2>1 DEF SamplesInv
<1>14. QED
  BY <1>9, <1>10, <1>12, <1>13 DEF WriterInv

\* The patches: what is cut off is cut off only of a segment that does not fit.
LEMMA PatchStep ==
  ASSUME WriterInv, Patch, Len(tracks) \in 1 .. 2
  PROVE  WriterInv'
<1> DEFINE SidxRecord == [end : Nat, first : {0}, ept : Int, duration : Nat, size : Nat]
<1>1. /\ phase = "mdat" /\ tracks \in Seq(Seq(Sample)) /\ track \in 1 .. (Len(tracks) + 1)
      /\ boxes \in Seq(BoxRecord) /\ sidx \in Seq(SidxRecord)
      /\ dataOffset \in Seq(Nat) /\ payloadAt \in Seq(Nat) /\ sampleAt \in Seq(Seq(Nat))
      /\ pos \in Nat /\ moofAt \in 0 .. pos
      /\ Len(boxes) = Len(tracks) + 2
      /\ Len(sidx) = Len(tracks) /\ Len(dataOffset) = Len(tracks)
      /\ sidx[Len(sidx)].end = moofAt
      /\ Len(payloadAt) = track - 1 /\ Len(sampleAt) = track - 1
      /\ boxes[Len(boxes)].at = moofAt
      /\ MdatAt <= pos /\ Tiled(MdatAt)
  BY DEF WriterInv, BufferInv, BufferTypes, Patch, TypeOK
<1>2. Len(tracks) \in Nat /\ track = Len(tracks) + 1 /\ Tracks = 1 .. Len(tracks)
  <2>1. DOMAIN tracks = 1 .. Len(tracks) /\ Len(tracks) \in Nat
    BY <1>1, LenProperties
  <2>2. track \notin 1 .. Len(tracks)
    BY <2>1 DEF Patch, Tracks
  <2>. QED  BY <1>1, <2>1, <2>2 DEF Tracks
<1>3. MdatAt \in Nat /\ boxes[Len(boxes)] \in BoxRecord
  <2>1. boxes[Len(boxes)] \in BoxRecord
    BY <1>1, <1>2, ElementOfSeq
  <2>2. boxes[Len(boxes)].size \in Nat /\ moofAt \in Nat
    BY <1>1, <2>1 DEF BoxRecord
  <2>. QED  BY <2>1, <2>2 DEF MdatAt
<1>4. PICK b : b = Box("mdat", MdatAt, pos - MdatAt)
  OBVIOUS
<1>5. /\ b \in BoxRecord /\ b.at = MdatAt
      /\ Fits => b.size = pos - MdatAt
  <2>1. pos - MdatAt \in Nat /\ "mdat" \in BoxNames
    BY <1>1, <1>3 DEF BoxNames
  <2>2. Fits => pos - MdatAt < Word
    <3>1. Fits => pos < Word
      BY <1>1, HalfWord DEF Fits
    <3>2. pos - MdatAt <= pos
      BY <1>1, <1>3
    <3>. QED  BY <1>1, <1>3, <3>1, <3>2, LayoutConstants
  <2>. QED  BY <1>3, <1>4, <2>1, <2>2, BoxType
<1>6. /\ pos' = pos /\ track' = track /\ moofAt' = moofAt /\ phase' = "done"
      /\ boxes' = Append(boxes, b) /\ tracks' = tracks
      /\ payloadAt' = payloadAt /\ sampleAt' = sampleAt
      /\ dataOffset' = [k \in 1 .. Len(tracks) |->
                          IF tracks[k] = <<>> THEN dataOffset[k] ELSE DataOffset(k)]
      /\ sidx' = [k \in 1 .. Len(tracks) |-> [sidx[k] EXCEPT !.size = ReferencedSize]]
  BY <1>1, <1>2, <1>4 DEF Patch, EndedBox
<1>7. /\ boxes' \in Seq(BoxRecord) /\ Len(boxes') = Len(tracks) + 3
      /\ boxes'[Len(boxes') - 1] = boxes[Len(boxes)]
  <2>1. /\ boxes' \in Seq(BoxRecord) /\ Len(boxes') = Len(boxes) + 1
        /\ \A n \in 1 .. Len(boxes) : boxes'[n] = boxes[n]
    BY <1>1, <1>5, <1>6, AppendProperties
  <2>2. Len(boxes) = Len(tracks) + 2
    BY <1>1
  <2>3. Len(boxes) \in 1 .. Len(boxes) /\ Len(boxes') - 1 = Len(boxes)
    BY <1>2, <2>1, <2>2
  <2>. QED  BY <1>2, <2>1, <2>2, <2>3
<1>8. ReferencedSize \in Nat /\ (Fits => ReferencedSize = pos - moofAt)
  <2>1. AfterSidx = moofAt
    <3>1. sidx # <<>>
      BY <1>1, EmptySeq
    <3>. QED  BY <1>1, <3>1 DEF AfterSidx
  <2>2. PICK n \in Nat : n = pos - moofAt /\ n <= pos
    BY <1>1
  <2>3. PICK m \in Nat : m = Truncated(n) /\ (n < Word => m = n)
    BY TruncatedSmall
  <2>4. ReferencedSize = m % (Word \div 2)
    BY <2>1, <2>2, <2>3 DEF ReferencedSize
  <2>5. PICK h \in Nat : h = Word \div 2
    BY HalfWord
  <2>6. Fits => n < h
    BY <1>1, <2>2, <2>5 DEF Fits
  <2>7. Fits => m = n /\ m % h = m
    BY <2>3, <2>5, <2>6, HalfWord
  <2>. QED  BY <2>2, <2>3, <2>4, <2>5, <2>7, HalfWord
<1>9. /\ sidx' \in Seq(SidxRecord) /\ Len(sidx') = Len(tracks)
      /\ \A k \in 1 .. Len(tracks) : /\ sidx'[k].end = sidx[k].end
                                     /\ sidx'[k].size = ReferencedSize
  <2> DEFINE x(k) == [sidx[k] EXCEPT !.size = ReferencedSize]
  <2>1. ASSUME NEW k \in 1 .. Len(tracks)
        PROVE  x(k) \in SidxRecord /\ x(k).end = sidx[k].end /\ x(k).size = ReferencedSize
    <3>1. sidx[k] \in SidxRecord
      BY <1>1, ElementOfSeq
    <3>. QED  BY <1>8, <3>1
  <2>2. sidx' = [k \in 1 .. Len(tracks) |-> x(k)]
    BY <1>6
  <2>. HIDE DEF x, SidxRecord
  <2>3. sidx' \in [1 .. Len(tracks) -> SidxRecord]
    BY <2>1, <2>2
  <2>4. sidx' \in Seq(SidxRecord) /\ Len(sidx') = Len(tracks)
    BY <1>2, <2>3
  <2>. QED  BY <2>1, <2>2, <2>4
<1>10. /\ dataOffset' \in Seq(Nat) /\ Len(dataOffset') = Len(tracks)
       /\ Fits => \A k \in 1 .. Len(tracks) :
                    tracks[k] # <<>> => dataOffset'[k] = payloadAt[k]
  <2> DEFINE o(k) == IF tracks[k] = <<>> THEN dataOffset[k] ELSE DataOffset(k)
  <2>1. ASSUME NEW k \in 1 .. Len(tracks)
        PROVE  o(k) \in Nat /\ (Fits /\ tracks[k] # <<>> => o(k) = payloadAt[k])
    <3>1. dataOffset[k] \in Nat
      BY <1>1, ElementOfSeq
    <3>2. PICK n \in Nat : n = payloadAt[k]
      <4>1. k \in 1 .. Len(payloadAt)
        BY <1>1, <1>2
      <4>. QED  BY <1>1, <4>1, ElementOfSeq
    <3>3. PICK m \in Nat : m = Truncated(n) /\ (n < Word => m = n)
      BY TruncatedSmall
    <3>4. DataOffset(k) = m
      BY <3>2, <3>3 DEF DataOffset
    <3>5. moofAt + n <= pos
      <4>1. k \in 1 .. Len(sampleAt)
        BY <1>1, <1>2
      <4>. QED  BY <3>2, <4>1 DEF WriterInv, SamplesInv
    <3>6. Fits => n < Word
      <4>1. Fits => pos < Word
        BY <1>1, HalfWord DEF Fits
      <4>2. moofAt \in Nat /\ pos \in Nat
        BY <1>1
      <4>3. n <= pos
        BY <3>2, <3>5, <4>2
      <4>. QED  BY <3>2, <4>1, <4>2, <4>3, LayoutConstants
    <3>. QED  BY <3>1, <3>2, <3>3, <3>4, <3>6
  <2>2. dataOffset' = [k \in 1 .. Len(tracks) |-> o(k)]
    BY <1>6
  <2>. HIDE DEF o
  <2>3. dataOffset' \in [1 .. Len(tracks) -> Nat]
    BY <2>1, <2>2
  <2>4. dataOffset' \in Seq(Nat) /\ Len(dataOffset') = Len(tracks)
    BY <1>2, <2>3
  <2>. QED  BY <2>1, <2>2, <2>4
<1> HIDE DEF SidxRecord
<1>11. TypeOK'
  <2>1. /\ Len(payloadAt') <= Len(tracks') /\ Len(sampleAt') = Len(payloadAt')
        /\ Len(dataOffset') <= Len(tracks') /\ Len(sidx') <= Len(tracks')
    BY <1>1, <1>2, <1>6, <1>9, <1>10
  <2>. QED  BY <1>1, <1>6, <2>1 DEF TypeOK
<1>12. BufferTypes'
  BY <1>1, <1>6, <1>7, <1>9, <1>10 DEF BufferTypes, SidxRecord
<1>13. Tiled(pos)'
  <2>1. Fits' <=> Fits
    BY <1>6 DEF Fits
  <2>2. Len(boxes) >= 1
    BY <1>1, <1>2
  <2>3. Fits => Contiguous(boxes', MdatAt + b.size)
    BY <1>1, <1>3, <1>5, <1>6, <2>2, ContiguousAppend DEF Tiled
  <2>4. Fits => MdatAt + b.size = pos
    BY <1>1, <1>3, <1>5
  <2>. QED  BY <1>6, <2>1, <2>3, <2>4 DEF Tiled
<1>14. BufferInv'
  <2>1. /\ Len(boxes') = Len(tracks') + 3 /\ Len(sidx') = Len(tracks')
        /\ Len(dataOffset') = Len(tracks')
        /\ Len(payloadAt') = Len(tracks') /\ Len(sampleAt') = Len(tracks')
    BY <1>1, <1>2, <1>6, <1>7, <1>9, <1>10
  <2>2. sidx'[Len(sidx')].end = moofAt' /\ boxes'[Len(boxes') - 1].at = moofAt'
    BY <1>1, <1>2, <1>6, <1>7, <1>9
  <2>3. Fits' <=> Fits
    BY <1>6 DEF Fits
  <2>4. Tracks' = 1 .. Len(tracks)
    BY <1>2, <1>6 DEF Tracks
  <2>5. Fits' => \A k \in Tracks' : sidx'[k].size = pos' - moofAt'
    BY <1>6, <1>8, <1>9, <2>3, <2>4
  <2>6. Fits' => \A k \in Tracks' : tracks'[k] # <<>> => dataOffset'[k] = payloadAt'[k]
    BY <1>6, <1>10, <2>3, <2>4
  <2>. QED  BY <1>6, <1>13, <2>1, <2>2, <2>5, <2>6 DEF BufferInv, Early
<1>15. SamplesInv'
  <2>1. SamplesInv
    BY DEF WriterInv
  <2>. QED  BY <1>6, <2>1 DEF SamplesInv
<1>16. QED
  BY <1>11, <1>12, <1>14, <1>15 DEF WriterInv

-----------------------------------------------------------------------------
(* The invariant and what it implies.                                      *)

\* Nothing is written at first.
LEMMA InitEstablishes == Init => IInv
<1>1. SUFFICES ASSUME Init PROVE IInv
  OBVIOUS
<1>2. /\ source \in Segments /\ tracks = <<>> /\ phase = "init" /\ track = 1 /\ pos = 0
      /\ boxes = <<>> /\ moofAt = 0 /\ sidx = <<>> /\ dataOffset = <<>>
      /\ payloadAt = <<>> /\ sampleAt = <<>>
  BY <1>1 DEF Init
<1>3. TypeOK
  BY <1>2 DEF TypeOK
<1>4. TracksInv
  BY <1>2 DEF TracksInv, Early
<1>5. BufferTypes
  BY <1>2 DEF BufferTypes
<1>6. BufferInv
  BY <1>2 DEF BufferInv, Early
<1>7. SamplesInv /\ InitInv
  BY <1>2 DEF SamplesInv, InitInv
<1>8. QED
  BY <1>3, <1>4, <1>5, <1>6, <1>7 DEF IInv

\* The steps of the writer.
LEMMA WriterStep ==
  ASSUME WriterInv, TracksInv, [Next]_vars
  PROVE  WriterInv'
<1>1. tracks' \in Seq(Seq(Sample))
  BY TracksStep DEF WriterInv, TypeOK
<1>2. phase \notin {"init", "packets"} => Len(tracks) \in 1 .. 2
  BY DEF TracksInv
<1>3. CASE MakeInit
  BY <1>1, <1>3, EarlyWriter DEF MakeInit, Early
<1>4. CASE AppendVideoPackets
  BY <1>1, <1>4, EarlyWriter DEF AppendVideoPackets, Early
<1>5. CASE FixDurations
  BY <1>1, <1>5, EarlyWriter DEF FixDurations, Early
<1>6. CASE WriteStyp
  BY <1>6, StypStep
<1>7. CASE WriteSidx
  BY <1>7, SidxStep
<1>8. CASE BeginMoof
  <2>1. Len(tracks) \in 1 .. 2
    BY <1>2, <1>8 DEF BeginMoof
  <2>. QED  BY <1>8, <2>1, BeginMoofStep
<1>9. CASE WriteTraf
  BY <1>9, TrafStep
<1>10. CASE BeginMdat
  <2>1. Len(tracks) \in 1 .. 2
    BY <1>2, <1>10 DEF BeginMdat
  <2>. QED  BY <1>10, <2>1, BeginMdatStep
<1>11. CASE WriteSamples
  BY <1>11, SamplesStep
<1>12. CASE Patch
  <2>1. Len(tracks) \in 1 .. 2
    BY <1>2, <1>12 DEF Patch
  <2>. QED  BY <1>12, <2>1, PatchStep
<1>13. CASE UNCHANGED vars
  <2>1. /\ source' = source /\ tracks' = tracks /\ phase' = phase /\ track' = track
        /\ pos' = pos /\ boxes' = boxes /\ moofAt' = moofAt /\ sidx' = sidx
        /\ dataOffset' = dataOffset /\ payloadAt' = payloadAt /\ sampleAt' = sampleAt
    BY <1>13 DEF vars
  <2>2. TypeOK'
    BY <2>1 DEF WriterInv, TypeOK
  <2>3. BufferTypes'
    BY <2>1 DEF WriterInv, BufferTypes
  <2>4. BufferInv'
    BY <2>1 DEF WriterInv, BufferInv, Tiled, Fits, AfterSidx, MdatAt, Tracks
  <2>5. SamplesInv'
    BY <2>1 DEF WriterInv, SamplesInv
  <2>. QED  BY <2>2, <2>3, <2>4, <2>5 DEF WriterInv
<1>14. QED
  BY <1>3, <1>4, <1>5, <1>6, <1>7, <1>8, <1>9, <1>10, <1>11, <1>12, <1>13 DEF Next

\* The init segment is written once.
LEMMA InitInvStep ==
  ASSUME InitInv, [Next]_vars
  PROVE  InitInv'
<1>1. source' = source
  BY SourceStays
<1>2. CASE MakeInit
  BY <1>1, <1>2 DEF MakeInit, InitInv
<1>3. CASE ~MakeInit
  <2>1. init' = init /\ (phase' # "init" => phase # "init")
    BY <1>3 DEF Next, vars, writerVars, AppendVideoPackets, FixDurations, WriteStyp,
      WriteSidx, BeginMoof, WriteTraf, BeginMdat, WriteSamples, Patch
  <2>. QED  BY <1>1, <2>1 DEF InitInv
<1>4. QED
  BY <1>2, <1>3

\* The invariant is inductive.
THEOREM LayoutInvariant == Spec => []IInv
<1>1. ASSUME IInv, [Next]_vars PROVE IInv'
  <2>1. WriterInv /\ TracksInv /\ InitInv /\ tracks \in Seq(Seq(Sample))
    BY <1>1 DEF IInv, WriterInv, TypeOK
  <2>2. WriterInv' /\ TracksInv' /\ InitInv'
    BY <1>1, <2>1, WriterStep, TracksStep, InitInvStep
  <2>3. QED
    BY <2>2 DEF IInv, WriterInv
<1>2. QED
  BY <1>1, InitEstablishes, PTL DEF Spec

\* The buffer, its fields and the samples keep their types: fix_video_durations
\* never casts a negative gap to a uint32_t.
THEOREM LayoutTypes == Spec => []TypeOK
<1>1. IInv => TypeOK
  BY DEF IInv
<1>2. QED
  BY <1>1, LayoutInvariant, PTL

\* BeginBox and EndBox leave no gap and no overlap in a segment that fits.
THEOREM BoxesTileAlways == Spec => []BoxesTile
<1>1. IInv => BoxesTile
  BY DEF IInv, BufferInv, Tiled, Contiguous, BoxesTile, Done
<1>2. QED
  BY <1>1, LayoutInvariant, PTL

\* trun.data_offset, counted from moof and patched at the end, leads to the
\* payload of its track, and the sizes lead on from sample to sample.
THEOREM SamplesFound == Spec => []SamplesWhereTrunSays
<1>1. ASSUME IInv, Done, Fits, NEW k \in Tracks, NEW n \in DOMAIN tracks[k]
      PROVE  sampleAt[k][n] =
               moofAt + dataOffset[k] + Total(SubSeq(Sizes(tracks[k]), 1, n - 1))
  <2>1. tracks \in Seq(Seq(Sample)) /\ Len(sampleAt) = Len(tracks)
    BY <1>1 DEF IInv, TypeOK, BufferInv, Done
  <2>2. k \in 1 .. Len(sampleAt) /\ tracks[k] \in Seq(Sample)
    BY <1>1, <2>1, LenProperties, ElementOfSeq DEF Tracks
  <2>3. n \in 1 .. Len(tracks[k]) /\ tracks[k] # <<>>
    BY <1>1, <2>2, LenProperties
  <2>4. dataOffset[k] = payloadAt[k]
    BY <1>1, <2>3 DEF IInv, BufferInv, Done
  <2>5. sampleAt[k][n] =
          moofAt + payloadAt[k] + Total(SubSeq(Sizes(tracks[k]), 1, n - 1))
    BY <1>1, <2>2, <2>3 DEF IInv, SamplesInv
  <2>6. QED
    BY <2>4, <2>5
<1>2. IInv => SamplesWhereTrunSays
  BY <1>1 DEF SamplesWhereTrunSays
<1>3. QED
  BY <1>2, LayoutInvariant, PTL

\* referenced_size, patched into every sidx, is the length of moof and mdat, and
\* the last sidx ends where moof begins.
THEOREM SidxCovers == Spec => []SidxCoversFragment
<1>1. ASSUME IInv, Done, Fits
      PROVE  /\ \A k \in Tracks :
                  sidx[k].size = boxes[Len(boxes) - 1].size + boxes[Len(boxes)].size
             /\ sidx[Len(sidx)].end + sidx[Len(sidx)].first = moofAt
  <2>1. /\ Len(tracks) \in 1 .. 2
        /\ Len(boxes) = Len(tracks) + 3 /\ Len(sidx) = Len(tracks)
        /\ boxes \in Seq(BoxRecord)
        /\ sidx \in Seq([end : Nat, first : {0}, ept : Int, duration : Nat, size : Nat])
        /\ pos \in Nat /\ moofAt \in 0 .. pos
    BY <1>1 DEF IInv, TypeOK, TracksInv, BufferInv, BufferTypes, Done
  <2>2. PICK m, l : m = boxes[Len(boxes) - 1] /\ l = boxes[Len(boxes)]
    OBVIOUS
  <2>3. m \in BoxRecord /\ l \in BoxRecord
    <3>1. Len(boxes) - 1 \in 1 .. Len(boxes) /\ Len(boxes) \in 1 .. Len(boxes)
      BY <2>1
    <3>. QED  BY <2>1, <2>2, <3>1, ElementOfSeq
  <2>4. m.at = moofAt /\ l.at = m.at + m.size /\ l.at + l.size = pos
    <3>1. Contiguous(boxes, pos) /\ m.at = moofAt
      BY <1>1, <2>2 DEF IInv, BufferInv, Tiled, Done
    <3>2. Len(boxes) - 1 \in 1 .. (Len(boxes) - 1) /\ (Len(boxes) - 1) + 1 = Len(boxes)
      BY <2>1
    <3>3. boxes[(Len(boxes) - 1) + 1].at = m.at + m.size
      BY <2>2, <3>1, <3>2 DEF Contiguous
    <3>4. l.at + l.size = pos
      BY <2>2, <3>1 DEF Contiguous
    <3>. QED  BY <2>2, <3>1, <3>2, <3>3, <3>4
  <2>5. m.size + l.size = pos - moofAt
    <3>1. /\ m.at \in Nat /\ m.size \in Nat /\ l.at \in Nat /\ l.size \in Nat
          /\ pos \in Nat /\ moofAt \in Nat
      BY <2>1, <2>3 DEF BoxRecord
    <3>. QED  BY <2>4, <3>1
  <2>6. \A k \in Tracks : sidx[k].size = pos - moofAt
    BY <1>1 DEF IInv, BufferInv, Done
  <2>7. sidx[Len(sidx)].end = moofAt
    BY <1>1 DEF IInv, BufferInv, Done
  <2>8. sidx[Len(sidx)].first = 0
    <3>1. Len(sidx) \in 1 .. Len(sidx)
      BY <2>1
    <3>2. sidx[Len(sidx)] \in [end : Nat, first : {0}, ept : Int, duration : Nat, size : Nat]
      BY <2>1, <3>1, ElementOfSeq
    <3>. QED  BY <3>2
  <2>9. sidx[Len(sidx)].end + sidx[Len(sidx)].first = moofAt
    BY <2>1, <2>7, <2>8
  <2>10. QED
    BY <2>2, <2>5, <2>6, <2>9
<1>2. IInv => SidxCoversFragment
  BY <1>1 DEF SidxCoversFragment
<1>3. QED
  BY <1>2, LayoutInvariant, PTL

\* The durations of samples that do not stand still or go back lead from the
\* first to each: fix_video_durations is undone by a player that adds them up.
LEMMA DecodedAtDts ==
  ASSUME NEW s \in Seq(Sample), IncreasingDts(s),
         \A n \in 1 .. (Len(s) - 1) :
           s[n].dts < s[n + 1].dts => s[n].duration = s[n + 1].dts - s[n].dts,
         NEW n \in 1 .. Len(s)
  PROVE  Tfdt(s) + Total(SubSeq(Durations(s), 1, n - 1)) = s[n].dts
<1>1. Len(s) \in Nat /\ DOMAIN s = 1 .. Len(s) /\ n \in Nat
  BY LenProperties
<1>2. \A m \in 1 .. Len(s) : s[m].dts \in Int
  <2>1. \A m \in 1 .. Len(s) : s[m] \in Sample
    BY ElementOfSeq
  <2>. QED  BY <2>1 DEF Sample
<1>3. Tfdt(s) = s[1].dts
  <2>1. s # <<>>
    BY <1>1, EmptySeq
  <2>. QED  BY <2>1 DEF Tfdt
<1>4. PICK d : d = Durations(s)
  OBVIOUS
<1>5. /\ d \in Seq(Nat) /\ d \in Seq(Int) /\ Len(d) = Len(s)
      /\ \A m \in 1 .. Len(s) : d[m] = s[m].duration
  BY <1>4, SampleNumbers, TotalNat
<1> DEFINE Sum(m) == Total(SubSeq(d, 1, m))
<1>6. /\ Sum(0) = 0
      /\ \A m \in 1 .. Len(s) : Sum(m) = Sum(m - 1) + d[m]
      /\ \A m \in 0 .. Len(s) : Sum(m) \in Int
  BY <1>5, TotalStep
<1> HIDE DEF Sum
<1> DEFINE T == {m \in Nat : m + 1 <= Len(s) => s[1].dts + Sum(m) = s[m + 1].dts}
<1>7. 0 \in T
  <2>1. 1 <= Len(s) => s[1].dts \in Int
    BY <1>1, <1>2
  <2>. QED  BY <1>6, <2>1
<1>8. ASSUME NEW m \in Nat, m \in T PROVE m + 1 \in T
  <2>1. SUFFICES ASSUME (m + 1) + 1 <= Len(s)
                 PROVE  s[1].dts + Sum(m + 1) = s[(m + 1) + 1].dts
    OBVIOUS
  <2>2. /\ m + 1 \in 1 .. (Len(s) - 1) /\ m + 1 \in 1 .. Len(s) /\ 1 \in 1 .. Len(s)
        /\ (m + 1) + 1 \in 1 .. Len(s) /\ m \in 0 .. Len(s)
        /\ (m + 1) - 1 = m /\ m + 1 < (m + 1) + 1 /\ m + 1 <= Len(s)
    BY <1>1, <2>1
  <2>3. s[m + 1].dts < s[(m + 1) + 1].dts
    BY <1>1, <2>2 DEF IncreasingDts
  <2>4. s[m + 1].duration = s[(m + 1) + 1].dts - s[m + 1].dts
    BY <2>2, <2>3
  <2>5. Sum(m + 1) = Sum(m) + s[m + 1].duration
    BY <1>5, <1>6, <2>2
  <2>6. s[1].dts + Sum(m) = s[m + 1].dts
    BY <1>8, <2>2
  <2>7. /\ s[1].dts \in Int /\ s[m + 1].dts \in Int /\ s[(m + 1) + 1].dts \in Int
        /\ Sum(m) \in Int
    BY <1>2, <1>6, <2>2
  <2>8. QED
    BY <2>4, <2>5, <2>6, <2>7
<1>9. n - 1 \in T
  <2>1. \A m \in Nat : m \in T
    <3>. HIDE DEF T
    <3>. QED  BY <1>7, <1>8, NatSetInduction
  <2>. QED  BY <1>1, <2>1
<1>10. (n - 1) + 1 = n /\ n <= Len(s)
  BY <1>1
<1>11. s[1].dts + Sum(n - 1) = s[n].dts
  BY <1>9, <1>10
<1>12. QED
  BY <1>3, <1>4, <1>11 DEF Sum

\* The video is presented at the times of the source, less the start of the
\* stream: append_video_packet, fix_video_durations and the writer together.
THEOREM PresentedInTime == Spec => []PresentationTimesKept
<1>1. ASSUME IInv, Done, IncreasingDts(tracks[1]), NEW n \in DOMAIN Kept
      PROVE  LET p   == Kept[n]
                 dts == IF p.dts = NoTime THEN p.pts ELSE p.dts
                 pts == IF p.pts = NoTime THEN p.dts ELSE p.pts
             IN  DecodeTime(n) + tracks[1][n].cts + source.start =
                   IF pts < dts THEN dts ELSE pts
  <2>1. source \in Segments
    BY <1>1 DEF IInv, TracksInv
  <2>2. /\ source.start \in Nat /\ Kept \in Seq(Packet)
        /\ \A m \in 1 .. Len(Kept) : HasTime(Kept[m])
    BY <2>1, SegmentParts
  <2>3. n \in 1 .. Len(Kept)
    BY <1>1, <2>2, LenProperties
  <2>4. PICK p \in Packet : p = Kept[n]
    BY <2>2, <2>3, ElementOfSeq
  <2>5. tracks[1] \in Seq(Sample) /\ Len(tracks[1]) = Len(Kept)
    <3>1. tracks \in Seq(Seq(Sample)) /\ Len(tracks) \in 1 .. 2
          /\ Len(tracks[1]) = Len(Kept)
      BY <1>1 DEF IInv, TypeOK, TracksInv, Done
    <3>. QED  BY <3>1, ElementOfSeq
  <2>6. tracks[1][n].dts = Dts(p) /\ tracks[1][n].cts = VideoSample(p).cts
    BY <1>1, <2>3, <2>4 DEF IInv, TracksInv, Done
  <2>7. DecodeTime(n) = Dts(p)
    <3>1. \A m \in 1 .. (Len(tracks[1]) - 1) :
            tracks[1][m].dts < tracks[1][m + 1].dts =>
              tracks[1][m].duration = tracks[1][m + 1].dts - tracks[1][m].dts
      BY <1>1, <2>5 DEF IInv, TracksInv, Done, Early
    <3>2. n \in 1 .. Len(tracks[1])
      BY <2>3, <2>5
    <3>3. DecodeTime(n) = tracks[1][n].dts
      BY <1>1, <2>5, <3>1, <3>2, DecodedAtDts DEF DecodeTime
    <3>. QED  BY <2>6, <3>3
  <2>8. tracks[1][n].cts = IF Pts(p) < Dts(p) THEN 0 ELSE Pts(p) - Dts(p)
    BY <2>6 DEF VideoSample
  <2>9. Dts(p) \in Int /\ Pts(p) \in Int
    BY <2>1, <2>2, <2>3, <2>4, SampleTimes
  <2>10. DecodeTime(n) + tracks[1][n].cts = IF Pts(p) < Dts(p) THEN Dts(p) ELSE Pts(p)
    BY <2>7, <2>8, <2>9
  <2>11. /\ Dts(p) = (IF p.dts = NoTime THEN p.pts ELSE p.dts) - source.start
         /\ Pts(p) = (IF p.pts = NoTime THEN p.dts ELSE p.pts) - source.start
         /\ (IF p.dts = NoTime THEN p.pts ELSE p.dts) \in Int
         /\ (IF p.pts = NoTime THEN p.dts ELSE p.pts) \in Int
    <3>1. p.dts # NoTime \/ p.pts # NoTime
      BY <2>2, <2>3, <2>4 DEF HasTime
    <3>2. p.dts \in Int \cup {NoTime} /\ p.pts \in Int \cup {NoTime}
      BY DEF Packet
    <3>. QED  BY <3>1, <3>2 DEF Dts, Pts, Shifted
  <2>12. QED
    BY <2>2, <2>4, <2>9, <2>10, <2>11
<1>2. IInv => PresentationTimesKept
  BY <1>1 DEF PresentationTimesKept
<1>3. QED
  BY <1>2, LayoutInvariant, PTL

-----------------------------------------------------------------------------
(* The boxes of the init segment.                                          *)

\* A builder of boxes.
IsBuilder(b) ==
  /\ b = [pos |-> b.pos, boxes |-> b.boxes] /\ b.pos \in Nat
  /\ \E S : b.boxes \in Seq(S)

\* What was written after b up to c has no box of the types K.
Quiet(b, c, K) ==
  /\ IsBuilder(b) /\ IsBuilder(c)
  /\ Len(b.boxes) <= Len(c.boxes)
  /\ \A n \in 1 .. Len(b.boxes) : c.boxes[n] = b.boxes[n]
  /\ \A n \in (Len(b.boxes) + 1) .. Len(c.boxes) : c.boxes[n].type \notin K

\* What was written after b up to c has the boxes w, one behind the other, and
\* no other of the types K.
Writes(b, c, K, w) ==
  /\ IsBuilder(b) /\ IsBuilder(c)
  /\ \A n \in 1 .. Len(b.boxes) : c.boxes[n] = b.boxes[n]
  /\ \E e \in Nat :
       /\ Len(b.boxes) <= e /\ e + Len(w) <= Len(c.boxes)
       /\ \A n \in 1 .. Len(w) : c.boxes[e + n] = w[n]
       /\ \A n \in (Len(b.boxes) + 1) .. Len(c.boxes) :
            c.boxes[n].type \in K => n \in (e + 1) .. (e + Len(w))

\* Nothing was written.
LEMMA QuietItself ==
  ASSUME NEW b, IsBuilder(b), NEW K
  PROVE  Quiet(b, b, K)
<1>1. Len(b.boxes) \in Nat
  BY LenProperties DEF IsBuilder
<1>2. QED
  BY <1>1 DEF Quiet

\* Two writes that have none of the types, one after the other.
LEMMA QuietThenQuiet ==
  ASSUME NEW b, NEW c, NEW d, NEW K, Quiet(b, c, K), Quiet(c, d, K)
  PROVE  Quiet(b, d, K)
<1>1. Len(b.boxes) \in Nat /\ Len(c.boxes) \in Nat /\ Len(d.boxes) \in Nat
  BY LenProperties DEF Quiet, IsBuilder
<1>2. \A n \in 1 .. Len(b.boxes) : d.boxes[n] = b.boxes[n]
  <2>1. \A n \in 1 .. Len(b.boxes) : n \in 1 .. Len(c.boxes)
    BY <1>1 DEF Quiet
  <2>. QED  BY <2>1 DEF Quiet
<1>3. ASSUME NEW n \in (Len(b.boxes) + 1) .. Len(d.boxes)
      PROVE  d.boxes[n].type \notin K
  <2>1. CASE n <= Len(c.boxes)
    <3>1. n \in 1 .. Len(c.boxes) /\ n \in (Len(b.boxes) + 1) .. Len(c.boxes)
      BY <1>1, <2>1
    <3>. QED  BY <3>1 DEF Quiet
  <2>2. CASE n > Len(c.boxes)
    <3>1. n \in (Len(c.boxes) + 1) .. Len(d.boxes)
      BY <1>1, <2>2
    <3>. QED  BY <3>1 DEF Quiet
  <2>. QED  BY <1>1, <2>1, <2>2
<1>4. QED
  BY <1>1, <1>2, <1>3 DEF Quiet

\* Fields are no boxes.
LEMMA PutQuiet ==
  ASSUME NEW b, IsBuilder(b), NEW n \in Nat, NEW K
  PROVE  /\ Quiet(b, Put(b, n), K) /\ IsBuilder(Put(b, n))
         /\ Put(b, n).pos = b.pos + n /\ Put(b, n).boxes = b.boxes
<1>1. Len(b.boxes) \in Nat
  BY LenProperties DEF IsBuilder
<1>2. Put(b, n) = [pos |-> b.pos + n, boxes |-> b.boxes]
  <2>1. b = [pos |-> b.pos, boxes |-> b.boxes]
    BY DEF IsBuilder
  <2>. QED  BY <2>1 DEF Put
<1>3. IsBuilder(Put(b, n))
  BY <1>2 DEF IsBuilder
<1>4. QED
  BY <1>1, <1>2, <1>3 DEF Quiet

\* The box x more, and what that leaves as it was.
OneBoxMore(b, c, x) ==
  /\ IsBuilder(c) /\ Len(c.boxes) = Len(b.boxes) + 1
  /\ c.boxes[Len(b.boxes) + 1] = x
  /\ \A n \in 1 .. Len(b.boxes) : c.boxes[n] = b.boxes[n]
  /\ \A K : x.type \notin K => Quiet(b, c, K)

\* A box more.
LEMMA OneMore ==
  ASSUME NEW b, IsBuilder(b), NEW x, NEW c, c.pos \in Nat,
         c = [pos |-> c.pos, boxes |-> Append(b.boxes, x)]
  PROVE  OneBoxMore(b, c, x)
<1>1. PICK S : b.boxes \in Seq(S)
  BY DEF IsBuilder
<1>2. b.boxes \in Seq(S \cup {x}) /\ x \in S \cup {x}
  BY <1>1, SeqMonotonic
<1>3. /\ Append(b.boxes, x) \in Seq(S \cup {x})
      /\ Len(Append(b.boxes, x)) = Len(b.boxes) + 1
      /\ Append(b.boxes, x)[Len(b.boxes) + 1] = x
      /\ \A n \in 1 .. Len(b.boxes) : Append(b.boxes, x)[n] = b.boxes[n]
      /\ Len(b.boxes) \in Nat
  BY <1>2, AppendProperties, LenProperties
<1>4. IsBuilder(c)
  BY <1>3 DEF IsBuilder
<1>5. ASSUME NEW K, x.type \notin K PROVE Quiet(b, c, K)
  <2>1. \A n \in (Len(b.boxes) + 1) .. Len(c.boxes) : n = Len(b.boxes) + 1
    BY <1>3
  <2>. QED  BY <1>3, <1>4, <1>5, <2>1 DEF Quiet
<1>6. QED
  BY <1>3, <1>4, <1>5 DEF OneBoxMore

\* EndBox, for a box of another type.
LEMMA ClosedQuiet ==
  ASSUME NEW b, NEW inner, IsBuilder(inner), NEW type, NEW says,
         NEW K, type \notin K
  PROVE  Quiet(inner, Closed(b, type, says, inner), K)
<1>1. inner.pos \in Nat
  BY DEF IsBuilder
<1>2. QED
  <2>1. PICK x : x = [type |-> type, at |-> b.pos, says |-> says,
                     size |-> Truncated(inner.pos - b.pos)]
    OBVIOUS
  <2>2. PICK c : c = Closed(b, type, says, inner)
    OBVIOUS
  <2>3. c = [pos |-> c.pos, boxes |-> Append(inner.boxes, x)] /\ c.pos \in Nat
    BY <1>1, <2>1, <2>2 DEF Closed
  <2>4. OneBoxMore(inner, c, x) /\ x.type = type
    BY <2>1, <2>3, OneMore
  <2>. QED  BY <2>2, <2>4 DEF OneBoxMore

\* A box around what has none of the types has none.
LEMMA BoxQuiet ==
  ASSUME NEW b, IsBuilder(b), NEW header \in Nat, NEW inner, NEW type, NEW says,
         NEW K, type \notin K, Quiet(Put(b, header), inner, K)
  PROVE  Quiet(b, Closed(b, type, says, inner), K)
<1>1. Quiet(b, Put(b, header), K)
  BY PutQuiet
<1>2. Quiet(inner, Closed(b, type, says, inner), K)
  BY ClosedQuiet DEF Quiet
<1>3. QED
  BY <1>1, <1>2, QuietThenQuiet

\* A box of fields only, of another type.
LEMMA LeafQuiet ==
  ASSUME NEW b, IsBuilder(b), NEW n \in Nat, NEW type, NEW says, NEW K, type \notin K
  PROVE  Quiet(b, Leaf(b, type, n, says), K)
<1>1. FullBoxHeader \in Nat
  BY DEF FullBoxHeader, BoxHeader
<1>2. Leaf(b, type, n, says) = Closed(b, type, says, Put(Put(b, FullBoxHeader), n))
  BY DEF Leaf, Boxed
<1>3. Quiet(Put(b, FullBoxHeader), Put(Put(b, FullBoxHeader), n), K)
  BY <1>1, PutQuiet
<1>4. QED
  BY <1>1, <1>2, <1>3, BoxQuiet

\* What is written before and after it does not touch a block of boxes.
LEMMA WritesBetween ==
  ASSUME NEW a, NEW b, NEW c, NEW d, NEW K, NEW S, NEW w \in Seq(S),
         Quiet(a, b, K), Writes(b, c, K, w), Quiet(c, d, K)
  PROVE  Writes(a, d, K, w)
<1>1. /\ Len(a.boxes) \in Nat /\ Len(b.boxes) \in Nat /\ Len(c.boxes) \in Nat
      /\ Len(d.boxes) \in Nat /\ Len(w) \in Nat
  BY LenProperties DEF Quiet, IsBuilder
<1>2. PICK e \in Nat :
        /\ Len(b.boxes) <= e /\ e + Len(w) <= Len(c.boxes)
        /\ \A n \in 1 .. Len(w) : c.boxes[e + n] = w[n]
        /\ \A n \in (Len(b.boxes) + 1) .. Len(c.boxes) :
             c.boxes[n].type \in K => n \in (e + 1) .. (e + Len(w))
  BY DEF Writes
<1>3. Len(a.boxes) <= Len(b.boxes) /\ Len(c.boxes) <= Len(d.boxes)
  BY DEF Quiet
<1>4. \A n \in 1 .. Len(a.boxes) : d.boxes[n] = a.boxes[n]
  <2>1. \A n \in 1 .. Len(a.boxes) : n \in 1 .. Len(b.boxes) /\ n \in 1 .. Len(c.boxes)
    BY <1>1, <1>2, <1>3
  <2>. QED  BY <2>1 DEF Quiet, Writes
<1>5. \A n \in 1 .. Len(w) : d.boxes[e + n] = w[n]
  <2>1. \A n \in 1 .. Len(w) : e + n \in 1 .. Len(c.boxes)
    BY <1>1, <1>2
  <2>. QED  BY <1>2, <2>1 DEF Quiet
<1>6. ASSUME NEW n \in (Len(a.boxes) + 1) .. Len(d.boxes), d.boxes[n].type \in K
      PROVE  n \in (e + 1) .. (e + Len(w))
  <2>1. CASE n <= Len(b.boxes)
    <3>1. n \in 1 .. Len(b.boxes) /\ n \in 1 .. Len(c.boxes)
          /\ n \in (Len(a.boxes) + 1) .. Len(b.boxes)
      BY <1>1, <1>2, <2>1
    <3>2. d.boxes[n] = b.boxes[n]
      BY <3>1 DEF Quiet, Writes
    <3>. QED  BY <1>6, <3>1, <3>2 DEF Quiet
  <2>2. CASE Len(b.boxes) < n /\ n <= Len(c.boxes)
    <3>1. n \in 1 .. Len(c.boxes) /\ n \in (Len(b.boxes) + 1) .. Len(c.boxes)
      BY <1>1, <2>2
    <3>2. d.boxes[n] = c.boxes[n]
      BY <3>1 DEF Quiet
    <3>. QED  BY <1>2, <1>6, <3>1, <3>2
  <2>3. CASE Len(c.boxes) < n
    <3>1. n \in (Len(c.boxes) + 1) .. Len(d.boxes)
      BY <1>1, <2>3
    <3>. QED  BY <1>6, <3>1 DEF Quiet
  <2>. QED  BY <1>1, <2>1, <2>2, <2>3
<1>7. Len(a.boxes) <= e /\ e + Len(w) <= Len(d.boxes)
  BY <1>1, <1>2, <1>3
<1>8. IsBuilder(a) /\ IsBuilder(d)
  BY DEF Quiet
<1>9. QED
  BY <1>4, <1>5, <1>6, <1>7, <1>8 DEF Writes

\* What a player or the properties look for.
Descriptors == {"esds", "ES", "DecoderConfig", "DecoderSpecificInfo", "SLConfig"}
Special == {"trex"} \cup Descriptors

\* The sizes the writers add up.
LEMMA HeaderSizes == BoxHeader = 8 /\ FullBoxHeader = 12 /\ Matrix = 36
BY DEF BoxHeader, FullBoxHeader, Matrix

\* ftyp has no boxes in it.
LEMMA FtypQuiet ==
  ASSUME NEW b, IsBuilder(b), NEW K, K \subseteq Special
  PROVE  Quiet(b, WriteFtyp(b), K)
<1>1. WriteFtyp(b) = Closed(b, "ftyp", NoField, Put(Put(b, 8), 20))
  BY HeaderSizes DEF WriteFtyp, Boxed
<1>2. "ftyp" \notin K
  BY DEF Special, Descriptors
<1>3. Quiet(Put(b, 8), Put(Put(b, 8), 20), K)
  BY PutQuiet
<1>4. QED
  BY <1>1, <1>2, <1>3, BoxQuiet

\* The boxes that are leaves.
LEMMA LeavesQuiet ==
  ASSUME NEW b, IsBuilder(b), NEW K, K \subseteq Special
  PROVE  /\ \A id : Quiet(b, WriteMvhd(b, id), K) /\ Quiet(b, WriteTkhd(b, id), K)
         /\ Quiet(b, WriteMdhd(b), K) /\ Quiet(b, WriteHdlr(b), K)
         /\ \A t : Quiet(b, WriteMediaHeader(b, t), K)
         /\ \A type \in {"stts", "stsc", "stsz", "stco", "url ", "elst"} :
              \A n \in Nat : \A says : Quiet(b, Leaf(b, type, n, says), K)
<1>1. ASSUME NEW type, NEW n \in Nat, NEW says, type \notin Special
      PROVE  Quiet(b, Leaf(b, type, n, says), K)
  BY <1>1, LeafQuiet
<1>2. ASSUME NEW id PROVE Quiet(b, WriteMvhd(b, id), K) /\ Quiet(b, WriteTkhd(b, id), K)
  <2>1. /\ "mvhd" \notin Special /\ "tkhd" \notin Special
        /\ 3 * 8 + 2 * 4 + 2 * 2 + 2 * 4 + Matrix + 6 * 4 + 4 \in Nat
        /\ 3 * 8 + 4 * 4 + 4 * 2 + Matrix + 2 * 4 \in Nat
    BY HeaderSizes DEF Special, Descriptors
  <2>. QED  BY <1>1, <2>1 DEF WriteMvhd, WriteTkhd
<1>3. Quiet(b, WriteMdhd(b), K) /\ Quiet(b, WriteHdlr(b), K)
  <2>1. /\ "mdhd" \notin Special /\ "hdlr" \notin Special
        /\ 3 * 8 + 4 + 2 * 2 \in Nat /\ 5 * 4 + 13 \in Nat
    BY DEF Special, Descriptors
  <2>. QED  BY <1>1, <2>1 DEF WriteMdhd, WriteHdlr
<1>4. ASSUME NEW t PROVE Quiet(b, WriteMediaHeader(b, t), K)
  <2>1. /\ "vmhd" \notin Special /\ "smhd" \notin Special
        /\ 4 * 2 \in Nat /\ 2 * 2 \in Nat
    BY DEF Special, Descriptors
  <2>2. Quiet(b, Leaf(b, "vmhd", 4 * 2, NoField), K)
    BY <1>1, <2>1
  <2>3. Quiet(b, Leaf(b, "smhd", 2 * 2, NoField), K)
    BY <1>1, <2>1
  <2>. QED  BY <2>2, <2>3 DEF WriteMediaHeader
<1>5. ASSUME NEW type \in {"stts", "stsc", "stsz", "stco", "url ", "elst"},
             NEW n \in Nat, NEW says
      PROVE  Quiet(b, Leaf(b, type, n, says), K)
  <2>1. type \notin Special
    BY DEF Special, Descriptors
  <2>. QED  BY <1>1, <2>1
<1>6. QED
  BY <1>2, <1>3, <1>4, <1>5

\* edts and elst, or nothing.
LEMMA EdtsQuiet ==
  ASSUME NEW b, IsBuilder(b), NEW t, NEW K, K \subseteq Special
  PROVE  Quiet(b, WriteEdtsForPriming(b, t), K)
<1>1. CASE t.padding = 0
  BY <1>1, QuietItself DEF WriteEdtsForPriming
<1>2. CASE t.padding # 0
  <2>1. WriteEdtsForPriming(b, t) =
          Closed(b, "edts", NoField, Leaf(Put(b, 8), "elst", 4 + 2 * 8 + 2 * 2, t.padding))
    BY <1>2, HeaderSizes DEF WriteEdtsForPriming, Boxed
  <2>2. IsBuilder(Put(b, 8))
    BY PutQuiet
  <2>3. Quiet(Put(b, 8), Leaf(Put(b, 8), "elst", 4 + 2 * 8 + 2 * 2, t.padding), K)
    <3>1. 4 + 2 * 8 + 2 * 2 \in Nat
      OBVIOUS
    <3>. QED  BY <2>2, <3>1, LeavesQuiet
  <2>4. "edts" \notin K
    BY DEF Special, Descriptors
  <2>. QED  BY <2>1, <2>3, <2>4, BoxQuiet
<1>3. QED
  BY <1>1, <1>2

\* dinf, dref and url, one in the other.
LEMMA DinfQuiet ==
  ASSUME NEW b, IsBuilder(b), NEW K, K \subseteq Special
  PROVE  Quiet(b, WriteDinf(b), K)
<1>1. PICK c, d, f : c = Put(b, 8) /\ d = Put(c, 12) /\ f = Put(d, 4)
  OBVIOUS
<1>2. IsBuilder(c) /\ IsBuilder(d) /\ IsBuilder(f) /\ Quiet(d, f, K)
  <2>1. IsBuilder(c)
    BY <1>1, PutQuiet
  <2>2. IsBuilder(d)
    BY <1>1, <2>1, PutQuiet
  <2>. QED  BY <1>1, <2>1, <2>2, PutQuiet
<1>3. WriteDinf(b) =
        Closed(b, "dinf", NoField, Closed(c, "dref", NoField, Leaf(f, "url ", 0, NoField)))
  BY <1>1, HeaderSizes DEF WriteDinf, Boxed
<1>4. Quiet(d, Leaf(f, "url ", 0, NoField), K)
  <2>1. Quiet(f, Leaf(f, "url ", 0, NoField), K)
    BY <1>2, LeavesQuiet
  <2>. QED  BY <1>2, <2>1, QuietThenQuiet
<1>5. "dref" \notin K /\ "dinf" \notin K
  BY DEF Special, Descriptors
<1>6. Quiet(c, Closed(c, "dref", NoField, Leaf(f, "url ", 0, NoField)), K)
  BY <1>1, <1>2, <1>4, <1>5, BoxQuiet
<1>7. QED
  BY <1>1, <1>3, <1>5, <1>6, BoxQuiet

\* The sample entry of the video has avcC or hvcC in it, or nothing.
LEMMA VideoEntryQuiet ==
  ASSUME NEW b, IsBuilder(b), NEW t \in Track, NEW K, K \subseteq Special
  PROVE  Quiet(b, WriteVideoSampleEntry(b, t), K)
<1>1. PICK c, d : c = Put(b, 8) /\ d = Put(c, 8 + 70)
  OBVIOUS
<1>2. IsBuilder(c) /\ IsBuilder(d) /\ Quiet(c, d, K)
  <2>1. IsBuilder(c)
    BY <1>1, PutQuiet
  <2>. QED  BY <1>1, <2>1, PutQuiet
<1>3. Quiet(d, WriteCodecConfig(d, t), K)
  <2>1. CASE t.extradata = 0 \/ ~t.known
    BY <1>2, <2>1, QuietItself DEF WriteCodecConfig
  <2>2. CASE ~(t.extradata = 0 \/ ~t.known)
    <3>1. WriteCodecConfig(d, t) =
            Closed(d, "config", NoField, Put(Put(d, 8), t.extradata))
      BY <2>2, HeaderSizes DEF WriteCodecConfig, Boxed
    <3>2. t.extradata \in Nat /\ "config" \notin K
      BY DEF Track, Special, Descriptors
    <3>3. Quiet(Put(d, 8), Put(Put(d, 8), t.extradata), K)
      BY <1>2, <3>2, PutQuiet
    <3>. QED  BY <1>2, <3>1, <3>2, <3>3, BoxQuiet
  <2>. QED  BY <2>1, <2>2
<1>4. WriteVideoSampleEntry(b, t) = Closed(b, "video", NoField, WriteCodecConfig(d, t))
  BY <1>1, HeaderSizes DEF WriteVideoSampleEntry, Boxed
<1>5. Quiet(c, WriteCodecConfig(d, t), K)
  BY <1>2, <1>3, QuietThenQuiet
<1>6. "video" \notin K
  BY DEF Special, Descriptors
<1>7. QED
  BY <1>1, <1>4, <1>5, <1>6, BoxQuiet

\* A descriptor header is listed like a box.
LEMMA HeaderWritten ==
  ASSUME NEW b, IsBuilder(b), NEW tag, NEW size, NEW c,
         c = WriteDescriptorHeader(b, tag, size)
  PROVE  /\ IsBuilder(c) /\ Len(c.boxes) = Len(b.boxes) + 1 /\ c.pos = b.pos + 5
         /\ c.boxes[Len(b.boxes) + 1] =
              [type |-> tag, at |-> b.pos, says |-> size, size |-> 5 + size]
         /\ \A n \in 1 .. Len(b.boxes) : c.boxes[n] = b.boxes[n]
         /\ \A K : tag \notin K => Quiet(b, c, K)
<1>1. b.pos \in Nat
  BY DEF IsBuilder
<1> DEFINE x == [type |-> tag, at |-> b.pos, says |-> size, size |-> 5 + size]
<1>2. c = [pos |-> b.pos + 5, boxes |-> Append(b.boxes, x)]
  BY DEF WriteDescriptorHeader, DescriptorHeader
<1>3. x.type = tag /\ b.pos + 5 \in Nat
  BY <1>1
<1> HIDE DEF x
<1>4. QED
  <2>1. c = [pos |-> c.pos, boxes |-> Append(b.boxes, x)] /\ c.pos = b.pos + 5
    BY <1>2
  <2>2. OneBoxMore(b, c, x)
    BY <1>3, <2>1, OneMore
  <2>3. x = [type |-> tag, at |-> b.pos, says |-> size, size |-> 5 + size]
    BY DEF x
  <2>. QED  BY <1>3, <2>1, <2>2, <2>3 DEF OneBoxMore

\* A descriptor header and the fields behind it.
Described(b, c, tag, size, n) ==
  /\ IsBuilder(c) /\ Len(c.boxes) = Len(b.boxes) + 1 /\ c.pos = b.pos + 5 + n
  /\ c.boxes[Len(b.boxes) + 1] =
       [type |-> tag, at |-> b.pos, says |-> size, size |-> 5 + size]
  /\ \A m \in 1 .. Len(b.boxes) : c.boxes[m] = b.boxes[m]
  /\ Quiet(b, c, {"trex"})

\* WriteDescriptorHeader and the n bytes behind it.
LEMMA DescriptorWritten ==
  ASSUME NEW b, IsBuilder(b), NEW tag \in Descriptors, NEW size, NEW n \in Nat
  PROVE  Described(b, Put(WriteDescriptorHeader(b, tag, size), n), tag, size, n)
<1>0. SUFFICES ASSUME NEW c, c = Put(WriteDescriptorHeader(b, tag, size), n)
               PROVE  Described(b, c, tag, size, n)
  OBVIOUS
<1>1. PICK h : h = WriteDescriptorHeader(b, tag, size)
  OBVIOUS
<1>2. /\ IsBuilder(h) /\ Len(h.boxes) = Len(b.boxes) + 1 /\ h.pos = b.pos + 5
      /\ h.boxes[Len(b.boxes) + 1] =
           [type |-> tag, at |-> b.pos, says |-> size, size |-> 5 + size]
      /\ \A m \in 1 .. Len(b.boxes) : h.boxes[m] = b.boxes[m]
  BY <1>1, HeaderWritten
<1>3. Quiet(b, h, {"trex"})
  <2>1. tag \notin {"trex"}
    BY DEF Descriptors
  <2>. QED  BY <1>1, <2>1, HeaderWritten
<1>4. c = Put(h, n)
  BY <1>0, <1>1
<1>5. /\ IsBuilder(c) /\ c.pos = h.pos + n /\ c.boxes = h.boxes
      /\ Quiet(h, c, {"trex"})
  BY <1>2, <1>4, PutQuiet
<1>6. Quiet(b, c, {"trex"})
  BY <1>3, <1>5, QuietThenQuiet
<1>7. QED
  BY <1>2, <1>5, <1>6 DEF Described

\* The numbers of esds that are added up by hand.
LEMMA DescriptorSizes ==
  ASSUME NEW t, t.extradata \in 0 .. MaxAudioConfig
  PROVE  /\ DsiSize(t) = t.extradata
         /\ DcdInnerSize(t) = 18 + t.extradata
         /\ EsInnerSize(t) = 32 + t.extradata
<1>1. \A n \in 0 .. 255 : n % 256 = n
  OBVIOUS
<1>2. PICK x \in 0 .. 95 : x = t.extradata
  BY DEF MaxAudioConfig
<1>3. DsiSize(t) = x
  BY <1>1, <1>2 DEF DsiSize, Byte
<1>4. DcdInnerSize(t) = 18 + x
  BY <1>1, <1>2, <1>3 DEF DcdInnerSize, Byte
<1>5. EsInnerSize(t) = 32 + x
  BY <1>1, <1>2, <1>4 DEF EsInnerSize, Byte
<1>6. QED
  BY <1>2, <1>3, <1>4, <1>5

\* The boxes of an esds at p with an AudioSpecificConfig of x bytes.
EsdsBoxes(p, x) ==
  << [type |-> "ES", at |-> p + 12, says |-> 32 + x, size |-> 5 + (32 + x)],
     [type |-> "DecoderConfig", at |-> p + 20, says |-> 18 + x, size |-> 5 + (18 + x)],
     [type |-> "DecoderSpecificInfo", at |-> p + 38, says |-> x, size |-> 5 + x],
     [type |-> "SLConfig", at |-> p + 43 + x, says |-> 1, size |-> 5 + 1],
     [type |-> "esds", at |-> p, says |-> NoField, size |-> 49 + x] >>

\* The five headers of esds are where EsdsBoxes has them.
LEMMA EsdsWritten ==
  ASSUME NEW b, IsBuilder(b), NEW t \in Track, t.extradata <= MaxAudioConfig
  PROVE  /\ Writes(b, WriteEsds(b, t), Descriptors, EsdsBoxes(b.pos, t.extradata))
         /\ Quiet(b, WriteEsds(b, t), {"trex"})
<1>1. t.extradata \in 0 .. 95 /\ b.pos \in Nat /\ Len(b.boxes) \in Nat
  <2>1. b.pos \in Nat /\ Len(b.boxes) \in Nat
    BY LenProperties DEF IsBuilder
  <2>2. t.extradata \in 0 .. 95
    BY DEF Track, MaxAudioConfig
  <2>. QED  BY <2>1, <2>2
<1>2. PICK x \in 0 .. 95 : x = t.extradata
  BY <1>1
<1>3. PICK p \in Nat : p = b.pos
  BY <1>1
<1>4. PICK c : c = Put(b, 12)
  OBVIOUS
<1>5. PICK es : es = Put(WriteDescriptorHeader(c, "ES", 32 + x), 3)
  OBVIOUS
<1>6. PICK dcd : dcd = Put(WriteDescriptorHeader(es, "DecoderConfig", 18 + x), 13)
  OBVIOUS
<1>7. PICK dsi : dsi = Put(WriteDescriptorHeader(dcd, "DecoderSpecificInfo", x), x)
  OBVIOUS
<1>8. PICK end : end = Put(WriteDescriptorHeader(dsi, "SLConfig", 1), 1)
  OBVIOUS
<1>9. PICK w : w = Closed(b, "esds", NoField, end)
  OBVIOUS
<1>10. WriteEsds(b, t) = w
  <2>1. /\ DsiSize(t) = x /\ DcdInnerSize(t) = 18 + x /\ EsInnerSize(t) = 32 + x
        /\ FullBoxHeader = 12 /\ 2 + 1 = 3 /\ 2 + 3 + 2 * 4 = 13
    <3>1. t.extradata \in 0 .. MaxAudioConfig
      BY <1>1 DEF MaxAudioConfig
    <3>. QED  BY <1>2, <3>1, DescriptorSizes, HeaderSizes
  <2>. QED  BY <1>4, <1>5, <1>6, <1>7, <1>8, <1>9, <2>1, Zenon DEF WriteEsds, Boxed
<1>11. IsBuilder(c) /\ c.pos = p + 12 /\ c.boxes = b.boxes /\ Quiet(b, c, {"trex"})
  BY <1>3, <1>4, PutQuiet
<1>12. /\ IsBuilder(es) /\ es.pos = p + 20 /\ Len(es.boxes) = Len(b.boxes) + 1
       /\ es.boxes[Len(b.boxes) + 1] = EsdsBoxes(p, x)[1]
       /\ \A n \in 1 .. Len(c.boxes) : es.boxes[n] = c.boxes[n]
       /\ Quiet(c, es, {"trex"})
  <2>1. /\ IsBuilder(es) /\ Len(es.boxes) = Len(c.boxes) + 1
        /\ es.pos = c.pos + 5 + 3
        /\ es.boxes[Len(c.boxes) + 1] =
             [type |-> "ES", at |-> c.pos, says |-> 32 + x, size |-> 5 + (32 + x)]
        /\ \A n \in 1 .. Len(c.boxes) : es.boxes[n] = c.boxes[n]
        /\ Quiet(c, es, {"trex"})
    <3>1. "ES" \in Descriptors /\ 3 \in Nat
      BY DEF Descriptors
    <3>2. Described(c, es, "ES", 32 + x, 3)
      BY <1>5, <1>11, <3>1, DescriptorWritten
    <3>. QED  BY <3>2 DEF Described
  <2>2. EsdsBoxes(p, x)[1] =
          [type |-> "ES", at |-> p + 12, says |-> 32 + x, size |-> 5 + (32 + x)]
    BY DEF EsdsBoxes
  <2>3. Len(c.boxes) + 1 = Len(b.boxes) + 1
    BY <1>1, <1>11
  <2>4. c.pos + 5 + 3 = p + 20
    BY <1>11
  <2>. QED  BY <1>11, <2>1, <2>2, <2>3, <2>4
<1>13. /\ IsBuilder(dcd) /\ dcd.pos = p + 38 /\ Len(dcd.boxes) = Len(b.boxes) + 2
       /\ dcd.boxes[Len(b.boxes) + 2] = EsdsBoxes(p, x)[2]
       /\ \A n \in 1 .. Len(es.boxes) : dcd.boxes[n] = es.boxes[n]
       /\ Quiet(es, dcd, {"trex"})
  <2>1. /\ IsBuilder(dcd) /\ Len(dcd.boxes) = Len(es.boxes) + 1
        /\ dcd.pos = es.pos + 5 + 13
        /\ dcd.boxes[Len(es.boxes) + 1] =
             [type |-> "DecoderConfig", at |-> es.pos, says |-> 18 + x, size |-> 5 + (18 + x)]
        /\ \A n \in 1 .. Len(es.boxes) : dcd.boxes[n] = es.boxes[n]
        /\ Quiet(es, dcd, {"trex"})
    <3>1. "DecoderConfig" \in Descriptors /\ 13 \in Nat
      BY DEF Descriptors
    <3>2. Described(es, dcd, "DecoderConfig", 18 + x, 13)
      BY <1>6, <1>12, <3>1, DescriptorWritten
    <3>. QED  BY <3>2 DEF Described
  <2>2. EsdsBoxes(p, x)[2] =
          [type |-> "DecoderConfig", at |-> p + 20, says |-> 18 + x, size |-> 5 + (18 + x)]
    BY DEF EsdsBoxes
  <2>3. Len(es.boxes) + 1 = Len(b.boxes) + 2
    BY <1>1, <1>12
  <2>4. es.pos + 5 + 13 = p + 38
    BY <1>12
  <2>. QED  BY <1>12, <2>1, <2>2, <2>3, <2>4
<1>14. /\ IsBuilder(dsi) /\ dsi.pos = p + 43 + x /\ Len(dsi.boxes) = Len(b.boxes) + 3
       /\ dsi.boxes[Len(b.boxes) + 3] = EsdsBoxes(p, x)[3]
       /\ \A n \in 1 .. Len(dcd.boxes) : dsi.boxes[n] = dcd.boxes[n]
       /\ Quiet(dcd, dsi, {"trex"})
  <2>1. /\ IsBuilder(dsi) /\ Len(dsi.boxes) = Len(dcd.boxes) + 1
        /\ dsi.pos = dcd.pos + 5 + x
        /\ dsi.boxes[Len(dcd.boxes) + 1] =
             [type |-> "DecoderSpecificInfo", at |-> dcd.pos, says |-> x, size |-> 5 + x]
        /\ \A n \in 1 .. Len(dcd.boxes) : dsi.boxes[n] = dcd.boxes[n]
        /\ Quiet(dcd, dsi, {"trex"})
    <3>1. "DecoderSpecificInfo" \in Descriptors /\ x \in Nat
      BY DEF Descriptors
    <3>2. Described(dcd, dsi, "DecoderSpecificInfo", x, x)
      BY <1>7, <1>13, <3>1, DescriptorWritten
    <3>. QED  BY <3>2 DEF Described
  <2>2. EsdsBoxes(p, x)[3] =
          [type |-> "DecoderSpecificInfo", at |-> p + 38, says |-> x, size |-> 5 + x]
    BY DEF EsdsBoxes
  <2>3. Len(dcd.boxes) + 1 = Len(b.boxes) + 3
    BY <1>1, <1>13
  <2>4. dcd.pos + 5 + x = p + 43 + x
    BY <1>13
  <2>. QED  BY <1>13, <2>1, <2>2, <2>3, <2>4
<1>15. /\ IsBuilder(end) /\ end.pos = p + 49 + x /\ Len(end.boxes) = Len(b.boxes) + 4
       /\ end.boxes[Len(b.boxes) + 4] = EsdsBoxes(p, x)[4]
       /\ \A n \in 1 .. Len(dsi.boxes) : end.boxes[n] = dsi.boxes[n]
       /\ Quiet(dsi, end, {"trex"})
  <2>1. /\ IsBuilder(end) /\ Len(end.boxes) = Len(dsi.boxes) + 1
        /\ end.pos = dsi.pos + 5 + 1
        /\ end.boxes[Len(dsi.boxes) + 1] =
             [type |-> "SLConfig", at |-> dsi.pos, says |-> 1, size |-> 5 + 1]
        /\ \A n \in 1 .. Len(dsi.boxes) : end.boxes[n] = dsi.boxes[n]
        /\ Quiet(dsi, end, {"trex"})
    <3>1. "SLConfig" \in Descriptors /\ 1 \in Nat
      BY DEF Descriptors
    <3>2. Described(dsi, end, "SLConfig", 1, 1)
      BY <1>8, <1>14, <3>1, DescriptorWritten
    <3>. QED  BY <3>2 DEF Described
  <2>2. EsdsBoxes(p, x)[4] =
          [type |-> "SLConfig", at |-> p + 43 + x, says |-> 1, size |-> 5 + 1]
    BY DEF EsdsBoxes
  <2>3. Len(dsi.boxes) + 1 = Len(b.boxes) + 4
    BY <1>1, <1>14
  <2>4. dsi.pos + 5 + 1 = p + 49 + x
    BY <1>14
  <2>. QED  BY <1>14, <2>1, <2>2, <2>3, <2>4
<1>16. /\ IsBuilder(w) /\ Len(w.boxes) = Len(b.boxes) + 5
       /\ w.boxes[Len(b.boxes) + 5] = EsdsBoxes(p, x)[5]
       /\ \A n \in 1 .. Len(end.boxes) : w.boxes[n] = end.boxes[n]
       /\ Quiet(end, w, {"trex"})
  <2>1. Truncated(end.pos - b.pos) = 49 + x
    <3>1. end.pos - b.pos = 49 + x /\ 49 + x \in Nat /\ 49 + x < Word
      BY <1>3, <1>15, LayoutConstants
    <3>. QED  BY <3>1, TruncatedSmall
  <2>2. w = [pos |-> end.pos, boxes |-> Append(end.boxes, EsdsBoxes(p, x)[5])]
    BY <1>3, <1>9, <2>1 DEF Closed, EsdsBoxes
  <2>3. end.pos \in Nat /\ EsdsBoxes(p, x)[5].type \notin {"trex"}
    BY <1>15 DEF EsdsBoxes
  <2>4. /\ IsBuilder(w) /\ Len(w.boxes) = Len(end.boxes) + 1
        /\ w.boxes[Len(end.boxes) + 1] = EsdsBoxes(p, x)[5]
        /\ \A n \in 1 .. Len(end.boxes) : w.boxes[n] = end.boxes[n]
        /\ Quiet(end, w, {"trex"})
    <3>1. PICK y : y = EsdsBoxes(p, x)[5]
      OBVIOUS
    <3>2. IsBuilder(end) /\ w.pos \in Nat /\ w = [pos |-> w.pos, boxes |-> Append(end.boxes, y)]
      BY <1>15, <2>2, <2>3, <3>1
    <3>. HIDE DEF EsdsBoxes
    <3>3. OneBoxMore(end, w, y)
      BY <3>2, OneMore
    <3>. QED  BY <2>3, <3>1, <3>3 DEF OneBoxMore
  <2>5. Len(end.boxes) + 1 = Len(b.boxes) + 5
    BY <1>1, <1>15
  <2>. QED  BY <2>4, <2>5
<1>17. Quiet(b, w, {"trex"})
  <2>1. Quiet(b, es, {"trex"})
    BY <1>11, <1>12, QuietThenQuiet
  <2>2. Quiet(b, dcd, {"trex"})
    BY <1>13, <2>1, QuietThenQuiet
  <2>3. Quiet(b, dsi, {"trex"})
    BY <1>14, <2>2, QuietThenQuiet
  <2>4. Quiet(b, end, {"trex"})
    BY <1>15, <2>3, QuietThenQuiet
  <2>. QED  BY <1>16, <2>4, QuietThenQuiet
<1>18. Len(EsdsBoxes(p, x)) = 5
  BY DEF EsdsBoxes
<1>19. \A n \in 1 .. Len(b.boxes) : w.boxes[n] = b.boxes[n]
  BY <1>17 DEF Quiet
<1>20. \A n \in 1 .. 5 : w.boxes[Len(b.boxes) + n] = EsdsBoxes(p, x)[n]
  <2> DEFINE k == Len(b.boxes)
  <2>1. k \in Nat /\ Len(es.boxes) = k + 1 /\ Len(dcd.boxes) = k + 2
        /\ Len(dsi.boxes) = k + 3 /\ Len(end.boxes) = k + 4
    BY <1>1, <1>12, <1>13, <1>14, <1>15
  <2>. HIDE DEF k
  <2>2. w.boxes[k + 1] = es.boxes[k + 1]
    <3>1. /\ k + 1 \in 1 .. Len(es.boxes) /\ k + 1 \in 1 .. Len(dcd.boxes)
          /\ k + 1 \in 1 .. Len(dsi.boxes) /\ k + 1 \in 1 .. Len(end.boxes)
      BY <2>1
    <3>2. dcd.boxes[k + 1] = es.boxes[k + 1] /\ dsi.boxes[k + 1] = dcd.boxes[k + 1]
      BY <1>13, <1>14, <3>1
    <3>3. end.boxes[k + 1] = dsi.boxes[k + 1] /\ w.boxes[k + 1] = end.boxes[k + 1]
      BY <1>15, <1>16, <3>1
    <3>. QED  BY <3>2, <3>3
  <2>3. w.boxes[k + 2] = dcd.boxes[k + 2]
    <3>1. /\ k + 2 \in 1 .. Len(dcd.boxes) /\ k + 2 \in 1 .. Len(dsi.boxes)
          /\ k + 2 \in 1 .. Len(end.boxes)
      BY <2>1
    <3>2. dsi.boxes[k + 2] = dcd.boxes[k + 2]
      BY <1>14, <3>1
    <3>3. end.boxes[k + 2] = dsi.boxes[k + 2] /\ w.boxes[k + 2] = end.boxes[k + 2]
      BY <1>15, <1>16, <3>1
    <3>. QED  BY <3>2, <3>3
  <2>4. w.boxes[k + 3] = dsi.boxes[k + 3]
    <3>1. k + 3 \in 1 .. Len(dsi.boxes) /\ k + 3 \in 1 .. Len(end.boxes)
      BY <2>1
    <3>. QED  BY <1>15, <1>16, <3>1
  <2>5. w.boxes[k + 4] = end.boxes[k + 4]
    <3>1. k + 4 \in 1 .. Len(end.boxes)
      BY <2>1
    <3>. QED  BY <1>16, <3>1
  <2>6. /\ w.boxes[k + 1] = EsdsBoxes(p, x)[1] /\ w.boxes[k + 2] = EsdsBoxes(p, x)[2]
        /\ w.boxes[k + 3] = EsdsBoxes(p, x)[3] /\ w.boxes[k + 4] = EsdsBoxes(p, x)[4]
        /\ w.boxes[k + 5] = EsdsBoxes(p, x)[5]
    BY <1>12, <1>13, <1>14, <1>15, <1>16, <2>2, <2>3, <2>4, <2>5 DEF k
  <2>7. \A n \in 1 .. 5 : n = 1 \/ n = 2 \/ n = 3 \/ n = 4 \/ n = 5
    OBVIOUS
  <2>. QED  BY <2>6, <2>7 DEF k
<1>21. Writes(b, w, Descriptors, EsdsBoxes(p, x))
  <2>1. /\ Len(b.boxes) <= Len(b.boxes) /\ Len(b.boxes) + 5 <= Len(w.boxes)
        /\ \A n \in (Len(b.boxes) + 1) .. Len(w.boxes) :
             n \in (Len(b.boxes) + 1) .. (Len(b.boxes) + 5)
    BY <1>1, <1>16
  <2>. QED  BY <1>1, <1>16, <1>18, <1>19, <1>20, <2>1 DEF Writes
<1>22. QED
  BY <1>2, <1>3, <1>10, <1>17, <1>21

\* What a track leaves in the init segment: no trex, descriptors only of audio.
TrackBoxes(b, c, t) ==
  /\ Quiet(b, c, {"trex"})
  /\ t.type = "video" => Quiet(b, c, Descriptors)
  /\ t.type = "audio" =>
       \E p \in Nat : Writes(b, c, Descriptors, EsdsBoxes(p, t.extradata))

\* A track whose descriptors the theorems are about.
IsTrack(t) ==
  t \in Track /\ (t.type = "audio" => t.extradata <= MaxAudioConfig)

\* What has none of many types has none of a few.
LEMMA QuietForLess ==
  ASSUME NEW b, NEW c, NEW K, K \subseteq Special, Quiet(b, c, Special)
  PROVE  Quiet(b, c, K)
BY DEF Quiet

\* What is quiet around the boxes of a track leaves them as they are.
LEMMA TrackBoxesBetween ==
  ASSUME NEW a, NEW b, NEW c, NEW d, NEW t, TrackBoxes(b, c, t),
         Quiet(a, b, Special), Quiet(c, d, Special)
  PROVE  TrackBoxes(a, d, t)
<1>1. {"trex"} \subseteq Special /\ Descriptors \subseteq Special
  BY DEF Special
<1>2. /\ Quiet(a, b, {"trex"}) /\ Quiet(c, d, {"trex"})
      /\ Quiet(a, b, Descriptors) /\ Quiet(c, d, Descriptors)
  BY <1>1, QuietForLess
<1>3. Quiet(a, d, {"trex"})
  BY <1>2, QuietThenQuiet DEF TrackBoxes
<1>4. t.type = "video" => Quiet(a, d, Descriptors)
  BY <1>2, QuietThenQuiet DEF TrackBoxes
<1>5. ASSUME t.type = "audio"
      PROVE  \E p \in Nat : Writes(a, d, Descriptors, EsdsBoxes(p, t.extradata))
  <2>1. PICK p \in Nat : Writes(b, c, Descriptors, EsdsBoxes(p, t.extradata))
    BY <1>5 DEF TrackBoxes
  <2>2. \E S : EsdsBoxes(p, t.extradata) \in Seq(S)
    <3>1. PICK e1, e2, e3, e4, e5 : EsdsBoxes(p, t.extradata) = <<e1, e2, e3, e4, e5>>
      BY DEF EsdsBoxes
    <3>2. <<e1, e2, e3, e4, e5>> \in Seq({e1, e2, e3, e4, e5})
      OBVIOUS
    <3>. QED  BY <3>1, <3>2
  <2>3. Writes(a, d, Descriptors, EsdsBoxes(p, t.extradata))
    BY <1>2, <2>1, <2>2, WritesBetween
  <2>. QED  BY <2>3
<1>6. QED
  BY <1>3, <1>4, <1>5 DEF TrackBoxes

\* A box around them.
LEMMA TrackBoxesIn ==
  ASSUME NEW b, IsBuilder(b), NEW header \in Nat, NEW inner, NEW type, NEW says,
         type \notin Special, NEW t, TrackBoxes(Put(b, header), inner, t)
  PROVE  TrackBoxes(b, Closed(b, type, says, inner), t)
<1>1. Quiet(b, Put(b, header), Special)
  BY PutQuiet
<1>2. IsBuilder(inner)
  BY DEF TrackBoxes, Quiet
<1>3. Quiet(inner, Closed(b, type, says, inner), Special)
  BY <1>2, ClosedQuiet
<1>4. QED
  BY <1>1, <1>3, TrackBoxesBetween

\* The sample entry of audio has esds in it, that of video no descriptor.
LEMMA SampleEntryBoxes ==
  ASSUME NEW b, IsBuilder(b), NEW t, IsTrack(t)
  PROVE  TrackBoxes(b, IF t.type = "video" THEN WriteVideoSampleEntry(b, t)
                                           ELSE WriteAudioSampleEntry(b, t), t)
<1>1. t \in Track /\ t.type \in {"video", "audio"}
  BY DEF IsTrack, Track
<1>2. CASE t.type = "video"
  <2>1. {"trex"} \subseteq Special /\ Descriptors \subseteq Special
    BY DEF Special
  <2>2. /\ Quiet(b, WriteVideoSampleEntry(b, t), {"trex"})
        /\ Quiet(b, WriteVideoSampleEntry(b, t), Descriptors)
    BY <1>1, <2>1, VideoEntryQuiet
  <2>. QED  BY <1>2, <2>2 DEF TrackBoxes
<1>3. CASE t.type = "audio"
  <2>1. PICK c, d : c = Put(b, 8) /\ d = Put(c, 8 + 20)
    OBVIOUS
  <2>2. IsBuilder(c) /\ IsBuilder(d) /\ Quiet(c, d, Special)
    <3>1. IsBuilder(c)
      BY <2>1, PutQuiet
    <3>. QED  BY <2>1, <3>1, PutQuiet
  <2>3. WriteAudioSampleEntry(b, t) = Closed(b, "mp4a", NoField, WriteEsds(d, t))
    BY <2>1, HeaderSizes DEF WriteAudioSampleEntry, Boxed
  <2>4. /\ Writes(d, WriteEsds(d, t), Descriptors, EsdsBoxes(d.pos, t.extradata))
        /\ Quiet(d, WriteEsds(d, t), {"trex"}) /\ d.pos \in Nat
    BY <1>1, <1>3, <2>2, EsdsWritten DEF IsTrack, IsBuilder
  <2>5. TrackBoxes(d, WriteEsds(d, t), t)
    BY <1>3, <2>4 DEF TrackBoxes
  <2>6. Quiet(WriteEsds(d, t), WriteEsds(d, t), Special)
    BY <2>4, QuietItself DEF Quiet
  <2>7. TrackBoxes(c, WriteEsds(d, t), t)
    BY <2>2, <2>5, <2>6, TrackBoxesBetween
  <2>8. "mp4a" \notin Special
    BY DEF Special, Descriptors
  <2>9. TrackBoxes(b, Closed(b, "mp4a", NoField, WriteEsds(d, t)), t)
    BY <2>1, <2>7, <2>8, TrackBoxesIn
  <2>. QED  BY <1>3, <2>3, <2>9
<1>4. QED
  BY <1>1, <1>2, <1>3

\* stsd, around the sample entry.
LEMMA StsdBoxes ==
  ASSUME NEW b, IsBuilder(b), NEW t, IsTrack(t)
  PROVE  TrackBoxes(b, WriteStsd(b, t), t)
<1>1. PICK c, d : c = Put(b, 12) /\ d = Put(c, 4)
  OBVIOUS
<1>2. IsBuilder(c) /\ IsBuilder(d) /\ Quiet(c, d, Special)
  <2>1. IsBuilder(c)
    BY <1>1, PutQuiet
  <2>. QED  BY <1>1, <2>1, PutQuiet
<1>3. PICK e : e = IF t.type = "video" THEN WriteVideoSampleEntry(d, t)
                                       ELSE WriteAudioSampleEntry(d, t)
  OBVIOUS
<1>4. WriteStsd(b, t) = Closed(b, "stsd", NoField, e)
  BY <1>1, <1>3, HeaderSizes DEF WriteStsd, Boxed
<1>5. TrackBoxes(d, e, t)
  BY <1>2, <1>3, SampleEntryBoxes
<1>6. Quiet(e, e, Special)
  BY <1>5, QuietItself DEF TrackBoxes, Quiet
<1>7. TrackBoxes(c, e, t)
  BY <1>2, <1>5, <1>6, TrackBoxesBetween
<1>8. "stsd" \notin Special
  BY DEF Special, Descriptors
<1>9. QED
  BY <1>1, <1>4, <1>7, <1>8, TrackBoxesIn

\* stbl: four tables behind stsd.
LEMMA StblBoxes ==
  ASSUME NEW b, IsBuilder(b), NEW t, IsTrack(t)
  PROVE  TrackBoxes(b, WriteStbl(b, t), t)
<1>1. PICK c : c = Put(b, 8)
  OBVIOUS
<1>2. PICK d : d = WriteStsd(c, t)
  OBVIOUS
<1>3. PICK e, f, g, h : /\ e = Leaf(d, "stts", 4, NoField)
                        /\ f = Leaf(e, "stsc", 4, NoField)
                        /\ g = Leaf(f, "stsz", 2 * 4, NoField)
                        /\ h = Leaf(g, "stco", 4, NoField)
  OBVIOUS
<1>4. WriteStbl(b, t) = Closed(b, "stbl", NoField, h)
  BY <1>1, <1>2, <1>3, HeaderSizes DEF WriteStbl, Boxed
<1>5. IsBuilder(c)
  BY <1>1, PutQuiet
<1>6. TrackBoxes(c, d, t) /\ IsBuilder(d)
  <2>1. TrackBoxes(c, d, t)
    BY <1>2, <1>5, StsdBoxes
  <2>. QED  BY <2>1 DEF TrackBoxes, Quiet
<1>7. Quiet(d, h, Special)
  <2>1. Quiet(d, e, Special) /\ IsBuilder(e)
    <3>1. Quiet(d, e, Special)
      BY <1>3, <1>6, LeavesQuiet
    <3>. QED  BY <3>1 DEF Quiet
  <2>2. Quiet(e, f, Special) /\ IsBuilder(f)
    <3>1. Quiet(e, f, Special)
      BY <1>3, <2>1, LeavesQuiet
    <3>. QED  BY <3>1 DEF Quiet
  <2>3. Quiet(f, g, Special) /\ IsBuilder(g)
    <3>1. 2 * 4 \in Nat
      OBVIOUS
    <3>2. Quiet(f, g, Special)
      BY <1>3, <2>2, <3>1, LeavesQuiet
    <3>. QED  BY <3>2 DEF Quiet
  <2>4. Quiet(g, h, Special)
    BY <1>3, <2>3, LeavesQuiet
  <2>5. Quiet(d, f, Special)
    BY <2>1, <2>2, QuietThenQuiet
  <2>6. Quiet(d, g, Special)
    BY <2>3, <2>5, QuietThenQuiet
  <2>. QED  BY <2>4, <2>6, QuietThenQuiet
<1>8. TrackBoxes(c, h, t)
  <2>1. Quiet(c, c, Special)
    BY <1>5, QuietItself
  <2>. QED  BY <1>6, <1>7, <2>1, TrackBoxesBetween
<1>9. "stbl" \notin Special
  BY DEF Special, Descriptors
<1>10. QED
  BY <1>1, <1>4, <1>8, <1>9, TrackBoxesIn

\* minf: media header and dinf in front of stbl.
LEMMA MinfBoxes ==
  ASSUME NEW b, IsBuilder(b), NEW t, IsTrack(t)
  PROVE  TrackBoxes(b, WriteMinf(b, t), t)
<1>1. PICK c : c = Put(b, 8)
  OBVIOUS
<1>2. PICK d : d = WriteMediaHeader(c, t)
  OBVIOUS
<1>3. PICK e : e = WriteDinf(d)
  OBVIOUS
<1>4. PICK f : f = WriteStbl(e, t)
  OBVIOUS
<1>5. WriteMinf(b, t) = Closed(b, "minf", NoField, f)
  BY <1>1, <1>2, <1>3, <1>4, HeaderSizes DEF WriteMinf, Boxed
<1>6. IsBuilder(c)
  BY <1>1, PutQuiet
<1>7. Quiet(c, d, Special) /\ IsBuilder(d)
  <2>1. Quiet(c, d, Special)
    BY <1>2, <1>6, LeavesQuiet
  <2>. QED  BY <2>1 DEF Quiet
<1>8. Quiet(d, e, Special) /\ IsBuilder(e)
  <2>1. Quiet(d, e, Special)
    BY <1>3, <1>7, DinfQuiet
  <2>. QED  BY <2>1 DEF Quiet
<1>9. TrackBoxes(c, f, t)
  <2>1. TrackBoxes(e, f, t)
    BY <1>4, <1>8, StblBoxes
  <2>2. Quiet(f, f, Special)
    BY <2>1, QuietItself DEF TrackBoxes, Quiet
  <2>3. Quiet(c, e, Special)
    BY <1>7, <1>8, QuietThenQuiet
  <2>. QED  BY <2>1, <2>2, <2>3, TrackBoxesBetween
<1>10. "minf" \notin Special
  BY DEF Special, Descriptors
<1>11. QED
  BY <1>1, <1>5, <1>9, <1>10, TrackBoxesIn

\* mdia: mdhd and hdlr in front of minf.
LEMMA MdiaBoxes ==
  ASSUME NEW b, IsBuilder(b), NEW t, IsTrack(t)
  PROVE  TrackBoxes(b, WriteMdia(b, t), t)
<1>1. PICK c : c = Put(b, 8)
  OBVIOUS
<1>2. PICK d : d = WriteMdhd(c)
  OBVIOUS
<1>3. PICK e : e = WriteHdlr(d)
  OBVIOUS
<1>4. PICK f : f = WriteMinf(e, t)
  OBVIOUS
<1>5. WriteMdia(b, t) = Closed(b, "mdia", NoField, f)
  BY <1>1, <1>2, <1>3, <1>4, HeaderSizes DEF WriteMdia, Boxed
<1>6. IsBuilder(c)
  BY <1>1, PutQuiet
<1>7. Quiet(c, d, Special) /\ IsBuilder(d)
  <2>1. Quiet(c, d, Special)
    BY <1>2, <1>6, LeavesQuiet
  <2>. QED  BY <2>1 DEF Quiet
<1>8. Quiet(d, e, Special) /\ IsBuilder(e)
  <2>1. Quiet(d, e, Special)
    BY <1>3, <1>7, LeavesQuiet
  <2>. QED  BY <2>1 DEF Quiet
<1>9. TrackBoxes(c, f, t)
  <2>1. TrackBoxes(e, f, t)
    BY <1>4, <1>8, MinfBoxes
  <2>2. Quiet(f, f, Special)
    BY <2>1, QuietItself DEF TrackBoxes, Quiet
  <2>3. Quiet(c, e, Special)
    BY <1>7, <1>8, QuietThenQuiet
  <2>. QED  BY <2>1, <2>2, <2>3, TrackBoxesBetween
<1>10. "mdia" \notin Special
  BY DEF Special, Descriptors
<1>11. QED
  BY <1>1, <1>5, <1>9, <1>10, TrackBoxesIn

\* trak: only audio has descriptors.
LEMMA TrakBoxes ==
  ASSUME NEW b, IsBuilder(b), NEW t, IsTrack(t)
  PROVE  TrackBoxes(b, WriteTrak(b, t), t)
<1>1. PICK c : c = Put(b, 8)
  OBVIOUS
<1>2. PICK d : d = WriteTkhd(c, TrackId(t))
  OBVIOUS
<1>3. PICK e : e = IF t.type = "audio" THEN WriteEdtsForPriming(d, t) ELSE d
  OBVIOUS
<1>4. PICK f : f = WriteMdia(e, t)
  OBVIOUS
<1>5. WriteTrak(b, t) = Closed(b, "trak", TrackId(t), f)
  BY <1>1, <1>2, <1>3, <1>4, HeaderSizes DEF WriteTrak, Boxed
<1>6. IsBuilder(c)
  BY <1>1, PutQuiet
<1>7. Quiet(c, d, Special) /\ IsBuilder(d)
  <2>1. Quiet(c, d, Special)
    BY <1>2, <1>6, LeavesQuiet
  <2>. QED  BY <2>1 DEF Quiet
<1>8. Quiet(d, e, Special) /\ IsBuilder(e)
  <2>1. Quiet(d, e, Special)
    BY <1>3, <1>7, EdtsQuiet, QuietItself
  <2>. QED  BY <2>1 DEF Quiet
<1>9. TrackBoxes(c, f, t)
  <2>1. TrackBoxes(e, f, t)
    BY <1>4, <1>8, MdiaBoxes
  <2>2. Quiet(f, f, Special)
    BY <2>1, QuietItself DEF TrackBoxes, Quiet
  <2>3. Quiet(c, e, Special)
    BY <1>7, <1>8, QuietThenQuiet
  <2>. QED  BY <2>1, <2>2, <2>3, TrackBoxesBetween
<1>10. "trak" \notin Special
  BY DEF Special, Descriptors
<1>11. QED
  BY <1>1, <1>5, <1>9, <1>10, TrackBoxesIn

-----------------------------------------------------------------------------
(* The loops over the tracks.                                              *)

\* A configuration: video, and audio or not.
IsConfig(config) ==
  /\ Len(config) \in 1 .. 2 /\ IsTrack(config[1]) /\ config[1].type = "video"
  /\ Len(config) = 2 => IsTrack(config[2]) /\ config[2].type = "audio"

\* What LayoutAssumption says of a configuration, track by track.
LEMMA ConfigsAre == \A c \in TrackConfigs : IsConfig(c)
<1>1. ASSUME NEW c \in TrackConfigs PROVE IsConfig(c)
  <2>1. /\ c \in Seq(Track) /\ Len(c) \in 1 .. 2 /\ c[1].type = "video"
        /\ Len(c) = 2 => c[2].type = "audio" /\ c[2].extradata <= MaxAudioConfig
    BY LayoutAssumption
  <2>2. c[1] \in Track /\ (Len(c) = 2 => c[2] \in Track)
    BY <2>1, ElementOfSeq
  <2>. QED  BY <2>1, <2>2 DEF IsConfig, IsTrack
<1>2. QED
  BY <1>1

\* The loop of WriteMvex, once or twice.
LEMMA MvexLoop ==
  ASSUME NEW b, NEW config, Len(config) \in 1 .. 2,
         NEW c, c = Put(b, 8),
         NEW x1, x1 = WriteTrex(c, TrackId(config[1]), config[1].type),
         NEW x2, x2 = WriteTrex(x1, TrackId(config[2]), config[2].type)
  PROVE  WriteMvex(b, config) =
           Closed(b, "mvex", NoField, IF Len(config) = 1 THEN x1 ELSE x2)
<1> DEFINE Next1(each, n) ==
             IF n = 0 THEN c
             ELSE WriteTrex(each[n - 1], TrackId(config[n]), config[n].type)
           IsEach(each) == each = [n \in 0 .. Len(config) |-> Next1(each, n)]
           e == CHOOSE each : IsEach(each)
           g == [n \in 0 .. Len(config) |-> IF n = 0 THEN c ELSE IF n = 1 THEN x1 ELSE x2]
<1>0. PICK l \in 1 .. 2 : l = Len(config)
  OBVIOUS
<1>1. \A n \in 0 .. Len(config) : n = 0 \/ n = 1 \/ (n = 2 /\ Len(config) = 2)
  <2>1. \A n \in 0 .. l : n = 0 \/ n = 1 \/ (n = 2 /\ l = 2)
    OBVIOUS
  <2>. QED  BY <1>0, <2>1
<1>2. \A n \in 0 .. Len(config) : g[n] = Next1(g, n)
  <2>1. g[0] = c /\ g[1] = x1 /\ (Len(config) = 2 => g[2] = x2)
    OBVIOUS
  <2>. HIDE DEF g
  <2>2. Next1(g, 0) = c
    OBVIOUS
  <2>3. Next1(g, 1) = x1
    BY <2>1
  <2>4. Len(config) = 2 => Next1(g, 2) = x2
    BY <2>1
  <2>. HIDE DEF Next1
  <2>. QED  BY <1>1, <2>1, <2>2, <2>3, <2>4
<1>3. IsEach(g)
  <2>1. g = [n \in 0 .. Len(config) |-> g[n]]
    OBVIOUS
  <2>. HIDE DEF g, Next1
  <2>. QED  BY <1>2, <2>1
<1>4. IsEach(e)
  <2>. HIDE DEF IsEach, g
  <2>. QED  BY <1>3
<1>5. WriteMvex(b, config) = Closed(b, "mvex", NoField, e[Len(config)])
  BY HeaderSizes DEF WriteMvex, Boxed, ForEach
<1> HIDE DEF e
<1>6. \A n \in 0 .. Len(config) : e[n] = Next1(e, n)
  <2>. HIDE DEF Next1
  <2>. QED  BY <1>4
<1>7. e[0] = c /\ e[1] = x1 /\ (Len(config) = 2 => e[2] = x2)
  <2>1. e[0] = c
    BY <1>6
  <2>2. e[1] = x1
    BY <1>6, <2>1
  <2>3. Len(config) = 2 => e[2] = x2
    BY <1>6, <2>2
  <2>. QED  BY <2>1, <2>2, <2>3
<1>8. e[Len(config)] = IF Len(config) = 1 THEN x1 ELSE x2
  <2>1. l = 1 \/ l = 2
    OBVIOUS
  <2>2. CASE l = 1
    BY <1>0, <1>7, <2>2
  <2>3. CASE l = 2
    BY <1>0, <1>7, <2>3
  <2>. QED  BY <2>1, <2>2, <2>3
<1>9. QED
  BY <1>5, <1>8

\* The loop of WriteMoov, once or twice.
LEMMA MoovLoop ==
  ASSUME NEW b, NEW config, Len(config) \in 1 .. 2,
         NEW c, c = WriteMvex(WriteMvhd(Put(b, 8), TrackId(config[Len(config)]) + 1), config),
         NEW x1, x1 = WriteTrak(c, config[1]),
         NEW x2, x2 = WriteTrak(x1, config[2])
  PROVE  WriteMoov(b, config) =
           Closed(b, "moov", NoField, IF Len(config) = 1 THEN x1 ELSE x2)
<1> DEFINE Next1(each, n) ==
             IF n = 0 THEN c ELSE WriteTrak(each[n - 1], config[n])
           IsEach(each) == each = [n \in 0 .. Len(config) |-> Next1(each, n)]
           e == CHOOSE each : IsEach(each)
           g == [n \in 0 .. Len(config) |-> IF n = 0 THEN c ELSE IF n = 1 THEN x1 ELSE x2]
<1>0. PICK l \in 1 .. 2 : l = Len(config)
  OBVIOUS
<1>1. \A n \in 0 .. Len(config) : n = 0 \/ n = 1 \/ (n = 2 /\ Len(config) = 2)
  <2>1. \A n \in 0 .. l : n = 0 \/ n = 1 \/ (n = 2 /\ l = 2)
    OBVIOUS
  <2>. QED  BY <1>0, <2>1
<1>2. \A n \in 0 .. Len(config) : g[n] = Next1(g, n)
  <2>1. g[0] = c /\ g[1] = x1 /\ (Len(config) = 2 => g[2] = x2)
    OBVIOUS
  <2>. HIDE DEF g
  <2>2. Next1(g, 0) = c
    OBVIOUS
  <2>3. Next1(g, 1) = x1
    BY <2>1
  <2>4. Len(config) = 2 => Next1(g, 2) = x2
    BY <2>1
  <2>. HIDE DEF Next1
  <2>. QED  BY <1>1, <2>1, <2>2, <2>3, <2>4
<1>3. IsEach(g)
  <2>1. g = [n \in 0 .. Len(config) |-> g[n]]
    OBVIOUS
  <2>. HIDE DEF g, Next1
  <2>. QED  BY <1>2, <2>1
<1>4. IsEach(e)
  <2>. HIDE DEF IsEach, g
  <2>. QED  BY <1>3
<1>5. WriteMoov(b, config) = Closed(b, "moov", NoField, e[Len(config)])
  BY HeaderSizes DEF WriteMoov, Boxed, ForEach
<1> HIDE DEF e
<1>6. \A n \in 0 .. Len(config) : e[n] = Next1(e, n)
  <2>. HIDE DEF Next1
  <2>. QED  BY <1>4
<1>7. e[0] = c /\ e[1] = x1 /\ (Len(config) = 2 => e[2] = x2)
  <2>1. e[0] = c
    BY <1>6
  <2>2. e[1] = x1
    BY <1>6, <2>1
  <2>3. Len(config) = 2 => e[2] = x2
    BY <1>6, <2>2
  <2>. QED  BY <2>1, <2>2, <2>3
<1>8. e[Len(config)] = IF Len(config) = 1 THEN x1 ELSE x2
  <2>1. l = 1 \/ l = 2
    OBVIOUS
  <2>2. CASE l = 1
    BY <1>0, <1>7, <2>2
  <2>3. CASE l = 2
    BY <1>0, <1>7, <2>3
  <2>. QED  BY <2>1, <2>2, <2>3
<1>9. QED
  BY <1>5, <1>8

\* c is b and one trex.
OneTrex(b, c, id, nonSync) ==
  /\ IsBuilder(c) /\ Len(c.boxes) = Len(b.boxes) + 1
  /\ c.boxes[Len(b.boxes) + 1].type = "trex"
  /\ c.boxes[Len(b.boxes) + 1].says = [track |-> id, nonSync |-> nonSync]
  /\ \A n \in 1 .. Len(b.boxes) : c.boxes[n] = b.boxes[n]
  /\ Quiet(b, c, Descriptors)

\* trex is one box more, with the number of the track and the default.
LEMMA TrexWritten ==
  ASSUME NEW b, IsBuilder(b), NEW id, NEW type
  PROVE  OneTrex(b, WriteTrex(b, id, type), id, NonSyncByDefault(type))
<1>0. PICK c : c = WriteTrex(b, id, type)
  OBVIOUS
<1>1. PICK says : says = [track |-> id, nonSync |-> NonSyncByDefault(type)]
  OBVIOUS
<1>2. PICK d : d = Put(Put(b, 12), 20)
  OBVIOUS
<1>3. c = Closed(b, "trex", says, d)
  <2>1. 5 * 4 = 20
    OBVIOUS
  <2>. QED  BY <1>0, <1>1, <1>2, <2>1, HeaderSizes DEF WriteTrex, Leaf, Boxed
<1>4. IsBuilder(d) /\ d.boxes = b.boxes
  <2>1. IsBuilder(Put(b, 12)) /\ Put(b, 12).boxes = b.boxes
    BY PutQuiet
  <2>. QED  BY <1>2, <2>1, PutQuiet
<1>5. PICK x : x = [type |-> "trex", at |-> b.pos, says |-> says,
                    size |-> Truncated(d.pos - b.pos)]
  OBVIOUS
<1>6. c = [pos |-> c.pos, boxes |-> Append(d.boxes, x)] /\ c.pos \in Nat
  BY <1>3, <1>4, <1>5 DEF Closed, IsBuilder
<1>7. x.type = "trex" /\ x.says = says /\ x.type \notin Descriptors
  BY <1>5 DEF Descriptors
<1>8. /\ IsBuilder(c) /\ Len(c.boxes) = Len(d.boxes) + 1
      /\ c.boxes[Len(d.boxes) + 1] = x
      /\ \A n \in 1 .. Len(d.boxes) : c.boxes[n] = d.boxes[n]
      /\ Quiet(d, c, Descriptors)
  <2>1. OneBoxMore(d, c, x)
    BY <1>4, <1>6, OneMore
  <2>. QED  BY <1>7, <2>1 DEF OneBoxMore
<1>9. Quiet(b, c, Descriptors)
  BY <1>4, <1>8 DEF Quiet
<1>10. QED
  BY <1>0, <1>1, <1>4, <1>7, <1>8, <1>9 DEF OneTrex

\* The trex boxes of n config: only the video is not sync by default.
IsTrexes(w, n) ==
  /\ Len(w) = n /\ \E S : w \in Seq(S)
  /\ \A k \in 1 .. n : w[k].type = "trex" /\ w[k].says = [track |-> k, nonSync |-> k = 1]

\* mvex has one trex for each track, in order, and nothing else.
LEMMA MvexBoxes ==
  ASSUME NEW b, IsBuilder(b), NEW config, IsConfig(config)
  PROVE  /\ \E w : IsTrexes(w, Len(config)) /\ Writes(b, WriteMvex(b, config), {"trex"}, w)
         /\ Quiet(b, WriteMvex(b, config), Descriptors)
<1>0. PICK l \in 1 .. 2 : l = Len(config)
  BY DEF IsConfig
<1>1. PICK c : c = Put(b, 8)
  OBVIOUS
<1>2. PICK x1 : x1 = WriteTrex(c, TrackId(config[1]), config[1].type)
  OBVIOUS
<1>3. PICK x2 : x2 = WriteTrex(x1, TrackId(config[2]), config[2].type)
  OBVIOUS
<1>4. PICK x : x = IF l = 1 THEN x1 ELSE x2
  OBVIOUS
<1>5. WriteMvex(b, config) = Closed(b, "mvex", NoField, x)
  BY <1>0, <1>1, <1>2, <1>3, <1>4, MvexLoop DEF IsConfig
<1>6. IsBuilder(c) /\ \A K : Quiet(b, c, K)
  BY <1>1, PutQuiet
<1>7. PICK k \in Nat : k = Len(c.boxes)
  BY <1>6, LenProperties DEF IsBuilder
<1>8. /\ IsBuilder(x1) /\ Len(x1.boxes) = k + 1
      /\ x1.boxes[k + 1].type = "trex"
      /\ x1.boxes[k + 1].says = [track |-> 1, nonSync |-> TRUE]
      /\ \A n \in 1 .. k : x1.boxes[n] = c.boxes[n]
      /\ Quiet(c, x1, Descriptors)
  <2>1. TrackId(config[1]) = 1 /\ NonSyncByDefault(config[1].type) = TRUE
    BY DEF IsConfig, TrackId, NonSyncByDefault
  <2>2. OneTrex(c, x1, 1, TRUE)
    BY <1>2, <1>6, <2>1, TrexWritten
  <2>. QED  BY <1>7, <2>2 DEF OneTrex
<1>9. ASSUME l = 2
      PROVE  /\ IsBuilder(x2) /\ Len(x2.boxes) = k + 2
             /\ x2.boxes[k + 2].type = "trex"
             /\ x2.boxes[k + 2].says = [track |-> 2, nonSync |-> FALSE]
             /\ \A n \in 1 .. (k + 1) : x2.boxes[n] = x1.boxes[n]
             /\ Quiet(x1, x2, Descriptors)
  <2>1. TrackId(config[2]) = 2 /\ NonSyncByDefault(config[2].type) = FALSE
    BY <1>0, <1>9 DEF IsConfig, TrackId, NonSyncByDefault
  <2>2. k + 1 + 1 = k + 2
    OBVIOUS
  <2>3. PICK m : m = k + 1
    OBVIOUS
  <2>4. /\ IsBuilder(x2) /\ Len(x2.boxes) = m + 1
        /\ x2.boxes[m + 1].type = "trex"
        /\ x2.boxes[m + 1].says = [track |-> 2, nonSync |-> FALSE]
        /\ \A n \in 1 .. m : x2.boxes[n] = x1.boxes[n]
        /\ Quiet(x1, x2, Descriptors)
    <3>1. OneTrex(x1, x2, 2, FALSE)
      <4>1. OneTrex(x1, WriteTrex(x1, TrackId(config[2]), config[2].type),
                    TrackId(config[2]), NonSyncByDefault(config[2].type))
        BY <1>8, TrexWritten
      <4>. QED  BY <1>3, <2>1, <4>1
    <3>2. m = Len(x1.boxes)
      BY <1>8, <2>3
    <3>. QED  BY <3>1, <3>2 DEF OneTrex
  <2>. QED  BY <2>2, <2>3, <2>4
<1>10. PICK w : w = [n \in 1 .. l |-> x.boxes[k + n]]
  OBVIOUS
<1>11. IsBuilder(x) /\ Len(x.boxes) = k + l /\ Quiet(c, x, Descriptors)
  <2>1. CASE l = 1
    BY <1>4, <1>8, <2>1
  <2>2. CASE l = 2
    <3>1. Quiet(c, x2, Descriptors)
      BY <1>8, <1>9, <2>2, QuietThenQuiet
    <3>. QED  BY <1>4, <1>9, <2>2, <3>1
  <2>. QED  BY <2>1, <2>2
<1>12. \A n \in 1 .. k : x.boxes[n] = c.boxes[n]
  <2>1. CASE l = 1
    BY <1>4, <1>8, <2>1
  <2>2. CASE l = 2
    <3>1. \A n \in 1 .. k : n \in 1 .. (k + 1)
      OBVIOUS
    <3>. QED  BY <1>4, <1>8, <1>9, <2>2, <3>1
  <2>. QED  BY <2>1, <2>2
<1>13. IsTrexes(w, l)
  <2>1. Len(w) = l /\ \E S : w \in Seq(S)
    <3>1. PICK S : S = {x.boxes[k + n] : n \in 1 .. l}
      OBVIOUS
    <3>2. w \in [1 .. l -> S]
      BY <1>10, <3>1
    <3>3. w \in Seq(S)
      BY <3>2
    <3>4. DOMAIN w = 1 .. l
      BY <3>2
    <3>5. Len(w) = l
      BY <3>3, <3>4, LenProperties
    <3>. QED  BY <3>3, <3>5
  <2>2. w[1].type = "trex" /\ w[1].says = [track |-> 1, nonSync |-> TRUE]
    <3>1. w[1] = x.boxes[k + 1]
      BY <1>10
    <3>2. CASE l = 1
      BY <1>4, <1>8, <3>1, <3>2
    <3>3. CASE l = 2
      <4>1. k + 1 \in 1 .. (k + 1)
        OBVIOUS
      <4>. QED  BY <1>4, <1>8, <1>9, <3>1, <3>3, <4>1
    <3>. QED  BY <3>2, <3>3
  <2>3. l = 2 => w[2].type = "trex" /\ w[2].says = [track |-> 2, nonSync |-> FALSE]
    BY <1>4, <1>9, <1>10
  <2>4. \A n \in 1 .. l : n = 1 \/ (n = 2 /\ l = 2)
    OBVIOUS
  <2>. QED  BY <2>1, <2>2, <2>3, <2>4 DEF IsTrexes
<1>14. Writes(c, x, {"trex"}, w)
  <2>1. Len(w) = l /\ \A n \in 1 .. l : x.boxes[k + n] = w[n]
    BY <1>10, <1>13 DEF IsTrexes
  <2>2. \A n \in (k + 1) .. (k + l) : n \in (k + 1) .. (k + l)
    OBVIOUS
  <2>3. k <= k /\ k + l <= k + l
    OBVIOUS
  <2>. QED  BY <1>6, <1>7, <1>11, <1>12, <2>1, <2>2, <2>3 DEF Writes
<1>15. "mvex" \notin {"trex"} /\ "mvex" \notin Descriptors
  BY DEF Descriptors
<1>16. Quiet(b, WriteMvex(b, config), Descriptors)
  BY <1>1, <1>5, <1>11, <1>15, BoxQuiet
<1>17. Quiet(x, WriteMvex(b, config), {"trex"})
  BY <1>5, <1>11, <1>15, ClosedQuiet
<1>18. Writes(b, WriteMvex(b, config), {"trex"}, w)
  BY <1>6, <1>13, <1>14, <1>17, WritesBetween DEF IsTrexes
<1>19. QED
  BY <1>0, <1>13, <1>16, <1>18

\* The boxes of an esds are a sequence.
LEMMA EsdsIsSeq == \A p, x : \E S : EsdsBoxes(p, x) \in Seq(S)
<1>1. ASSUME NEW p, NEW x PROVE \E S : EsdsBoxes(p, x) \in Seq(S)
  <2>1. PICK e1, e2, e3, e4, e5 : EsdsBoxes(p, x) = <<e1, e2, e3, e4, e5>>
    BY DEF EsdsBoxes
  <2>2. <<e1, e2, e3, e4, e5>> \in Seq({e1, e2, e3, e4, e5})
    OBVIOUS
  <2>. QED  BY <2>1, <2>2
<1>2. QED
  BY <1>1

\* What the init segment has in it of the boxes a player looks for.
InitSays(b, m, config) ==
  /\ \E w : IsTrexes(w, Len(config)) /\ Writes(b, m, {"trex"}, w)
  /\ Len(config) = 1 => Quiet(b, m, Descriptors)
  /\ Len(config) = 2 =>
       \E p \in Nat : Writes(b, m, Descriptors, EsdsBoxes(p, config[2].extradata))

\* moov: mvhd and mvex in front of the tracks.
LEMMA MoovBoxes ==
  ASSUME NEW b, IsBuilder(b), NEW config, IsConfig(config)
  PROVE  InitSays(b, WriteMoov(b, config), config)
<1>0. PICK l \in 1 .. 2 : l = Len(config)
  BY DEF IsConfig
<1>1. PICK a : a = WriteMvhd(Put(b, 8), TrackId(config[Len(config)]) + 1)
  OBVIOUS
<1>2. PICK c : c = WriteMvex(a, config)
  OBVIOUS
<1>3. PICK x1 : x1 = WriteTrak(c, config[1])
  OBVIOUS
<1>4. PICK x2 : x2 = WriteTrak(x1, config[2])
  OBVIOUS
<1>5. PICK x : x = IF l = 1 THEN x1 ELSE x2
  OBVIOUS
<1>6. PICK m : m = WriteMoov(b, config)
  OBVIOUS
<1>7. m = Closed(b, "moov", NoField, x)
  <2>1. Len(config) \in 1 .. 2 /\ x = IF Len(config) = 1 THEN x1 ELSE x2
    BY <1>0, <1>5
  <2>2. c = WriteMvex(WriteMvhd(Put(b, 8), TrackId(config[Len(config)]) + 1), config)
    BY <1>1, <1>2
  <2>. QED  BY <1>3, <1>4, <1>6, <2>1, <2>2, MoovLoop
<1>8. {"trex"} \subseteq Special /\ Descriptors \subseteq Special
  BY DEF Special
<1>9. /\ IsBuilder(a) /\ Quiet(b, a, {"trex"}) /\ Quiet(b, a, Descriptors)
  <2>1. IsBuilder(Put(b, 8)) /\ Quiet(b, Put(b, 8), {"trex"})
        /\ Quiet(b, Put(b, 8), Descriptors)
    BY PutQuiet
  <2>2. Quiet(Put(b, 8), a, {"trex"}) /\ Quiet(Put(b, 8), a, Descriptors)
    BY <1>1, <1>8, <2>1, LeavesQuiet
  <2>3. Quiet(b, a, {"trex"}) /\ Quiet(b, a, Descriptors)
    BY <2>1, <2>2, QuietThenQuiet
  <2>. QED  BY <2>2, <2>3 DEF Quiet
<1>10. PICK w : IsTrexes(w, l) /\ Writes(a, c, {"trex"}, w)
  BY <1>0, <1>2, <1>9, MvexBoxes
<1>11. Quiet(b, c, Descriptors) /\ IsBuilder(c)
  <2>1. Quiet(a, c, Descriptors)
    BY <1>2, <1>9, MvexBoxes
  <2>2. Quiet(b, c, Descriptors)
    BY <1>9, <2>1, QuietThenQuiet
  <2>. QED  BY <2>2 DEF Quiet
<1>12. Quiet(c, x1, {"trex"}) /\ Quiet(c, x1, Descriptors) /\ IsBuilder(x1)
  <2>1. TrackBoxes(c, x1, config[1])
    BY <1>3, <1>11, TrakBoxes DEF IsConfig
  <2>. QED  BY <2>1 DEF TrackBoxes, IsConfig, Quiet
<1>13. ASSUME l = 2
       PROVE  /\ Quiet(x1, x2, {"trex"})
              /\ \E p \in Nat : Writes(x1, x2, Descriptors, EsdsBoxes(p, config[2].extradata))
  <2>1. TrackBoxes(x1, x2, config[2])
    BY <1>0, <1>4, <1>12, <1>13, TrakBoxes DEF IsConfig
  <2>. QED  BY <1>0, <1>13, <2>1 DEF TrackBoxes, IsConfig
<1>14. Quiet(c, x, {"trex"})
  <2>1. CASE l = 1
    BY <1>5, <1>12, <2>1
  <2>2. CASE l = 2
    <3>1. Quiet(c, x2, {"trex"})
      BY <1>12, <1>13, <2>2, QuietThenQuiet
    <3>. QED  BY <1>5, <2>2, <3>1
  <2>. QED  BY <2>1, <2>2
<1>15. IsBuilder(x) /\ Quiet(x, m, {"trex"}) /\ Quiet(x, m, Descriptors)
  <2>1. IsBuilder(x)
    BY <1>14 DEF Quiet
  <2>2. "moov" \notin {"trex"} /\ "moov" \notin Descriptors
    BY DEF Descriptors
  <2>. QED  BY <1>7, <2>1, <2>2, ClosedQuiet
<1>16. \E v : IsTrexes(v, Len(config)) /\ Writes(b, m, {"trex"}, v)
  <2>1. Quiet(c, m, {"trex"})
    BY <1>14, <1>15, QuietThenQuiet
  <2>2. Writes(b, m, {"trex"}, w)
    BY <1>9, <1>10, <2>1, WritesBetween DEF IsTrexes
  <2>. QED  BY <1>0, <1>10, <2>2
<1>17. ASSUME Len(config) = 1 PROVE Quiet(b, m, Descriptors)
  <2>1. x = x1
    BY <1>0, <1>5, <1>17
  <2>2. Quiet(b, x1, Descriptors)
    BY <1>11, <1>12, QuietThenQuiet
  <2>. QED  BY <1>15, <2>1, <2>2, QuietThenQuiet
<1>18. ASSUME Len(config) = 2
       PROVE  \E p \in Nat : Writes(b, m, Descriptors, EsdsBoxes(p, config[2].extradata))
  <2>1. x = x2 /\ l = 2
    BY <1>0, <1>5, <1>18
  <2>2. PICK p \in Nat : Writes(x1, x2, Descriptors, EsdsBoxes(p, config[2].extradata))
    BY <1>13, <2>1
  <2>3. Quiet(b, x1, Descriptors)
    BY <1>11, <1>12, QuietThenQuiet
  <2>4. Quiet(x2, m, Descriptors)
    BY <1>15, <2>1
  <2>5. PICK S : EsdsBoxes(p, config[2].extradata) \in Seq(S)
    BY EsdsIsSeq
  <2>6. Writes(b, m, Descriptors, EsdsBoxes(p, config[2].extradata))
    BY <2>2, <2>3, <2>4, <2>5, WritesBetween
  <2>. QED  BY <2>6
<1>19. QED
  BY <1>6, <1>16, <1>17, <1>18 DEF InitSays

\* The init segment has the trex of each track, and descriptors if it has audio.
LEMMA InitBoxes ==
  ASSUME NEW config \in TrackConfigs
  PROVE  InitSays(NewBuilder, BuildInit(config), config) /\ IsConfig(config)
<1>1. IsConfig(config)
  BY ConfigsAre
<1>2. IsBuilder(NewBuilder)
  <2>1. NewBuilder.boxes = <<>> /\ NewBuilder.pos = 0
        /\ NewBuilder = [pos |-> 0, boxes |-> <<>>]
    BY DEF NewBuilder
  <2>2. <<>> \in Seq({})
    BY EmptySeq
  <2>. QED  BY <2>1, <2>2 DEF IsBuilder
<1>3. PICK b : b = WriteFtyp(NewBuilder)
  OBVIOUS
<1>4. {"trex"} \subseteq Special /\ Descriptors \subseteq Special
  BY DEF Special
<1>5. Quiet(NewBuilder, b, {"trex"}) /\ Quiet(NewBuilder, b, Descriptors)
  BY <1>2, <1>3, <1>4, FtypQuiet
<1>6. PICK m : m = BuildInit(config)
  OBVIOUS
<1>7. InitSays(b, m, config)
  <2>1. IsBuilder(b)
    BY <1>5 DEF Quiet
  <2>. QED  BY <1>1, <1>3, <1>6, <2>1, MoovBoxes DEF BuildInit
<1>8. PICK w : IsTrexes(w, Len(config)) /\ Writes(b, m, {"trex"}, w)
  BY <1>7 DEF InitSays
<1>9. Quiet(m, m, {"trex"}) /\ Quiet(m, m, Descriptors)
  BY <1>8, QuietItself DEF Writes
<1>10. Writes(NewBuilder, m, {"trex"}, w)
  BY <1>5, <1>8, <1>9, WritesBetween DEF IsTrexes
<1>11. ASSUME Len(config) = 1 PROVE Quiet(NewBuilder, m, Descriptors)
  BY <1>5, <1>7, <1>11, QuietThenQuiet DEF InitSays
<1>12. ASSUME Len(config) = 2
       PROVE  \E p \in Nat :
                Writes(NewBuilder, m, Descriptors, EsdsBoxes(p, config[2].extradata))
  <2>1. PICK p \in Nat : Writes(b, m, Descriptors, EsdsBoxes(p, config[2].extradata))
    BY <1>7, <1>12 DEF InitSays
  <2>2. PICK S : EsdsBoxes(p, config[2].extradata) \in Seq(S)
    BY EsdsIsSeq
  <2>3. Writes(NewBuilder, m, Descriptors, EsdsBoxes(p, config[2].extradata))
    BY <1>5, <1>9, <2>1, <2>2, WritesBetween
  <2>. QED  BY <2>3
<1>13. QED
  BY <1>1, <1>6, <1>8, <1>10, <1>11, <1>12 DEF InitSays
-----------------------------------------------------------------------------
(* What a player takes from the init segment.                              *)

\* The trex of a track is the one that says so.
LEMMA TrexFound ==
  ASSUME InitInv, phase # "init", NEW config \in TrackConfigs,
         init = BuildInit(config), NEW k \in 1 .. Len(config)
  PROVE  init.boxes[Trex(k)].says.nonSync <=> k = 1
<1>1. PICK w : IsTrexes(w, Len(config)) /\ Writes(NewBuilder, init, {"trex"}, w)
  BY InitBoxes DEF InitSays
<1>2. PICK l \in 1 .. 2 : l = Len(config) /\ l = Len(w)
  BY <1>1, InitBoxes DEF IsConfig, IsTrexes
<1>3. /\ \A n \in 1 .. l : w[n].type = "trex" /\ w[n].says = [track |-> n, nonSync |-> n = 1]
      /\ k \in 1 .. l
  BY <1>1, <1>2 DEF IsTrexes
<1>4. IsBuilder(init) /\ Len(NewBuilder.boxes) = 0
  <2>1. NewBuilder.boxes = <<>>
    BY DEF NewBuilder
  <2>. QED  BY <1>1, <2>1, EmptySeq DEF Writes
<1>5. PICK e \in Nat :
        /\ e + l <= Len(init.boxes)
        /\ \A n \in 1 .. l : init.boxes[e + n] = w[n]
        /\ \A n \in 1 .. Len(init.boxes) :
             init.boxes[n].type \in {"trex"} => n \in (e + 1) .. (e + l)
  <2>1. PICK e \in Nat :
          /\ Len(NewBuilder.boxes) <= e /\ e + Len(w) <= Len(init.boxes)
          /\ \A n \in 1 .. Len(w) : init.boxes[e + n] = w[n]
          /\ \A n \in (Len(NewBuilder.boxes) + 1) .. Len(init.boxes) :
               init.boxes[n].type \in {"trex"} => n \in (e + 1) .. (e + Len(w))
    BY <1>1 DEF Writes
  <2>2. Len(NewBuilder.boxes) + 1 = 1
    BY <1>4
  <2>. QED  BY <1>2, <2>1, <2>2
<1>6. Len(init.boxes) \in Nat /\ DOMAIN init.boxes = 1 .. Len(init.boxes)
  BY <1>4, LenProperties DEF IsBuilder
<1> DEFINE P(n) == init.boxes[n].type = "trex" /\ init.boxes[n].says.track = k
<1>7. e + k \in DOMAIN init.boxes /\ P(e + k)
  <2>1. e + k \in 1 .. Len(init.boxes)
    BY <1>3, <1>5, <1>6
  <2>2. init.boxes[e + k] = w[k] /\ w[k].type = "trex"
        /\ w[k].says = [track |-> k, nonSync |-> k = 1]
    BY <1>3, <1>5
  <2>3. w[k].says.track = k
    BY <2>2
  <2>. QED  BY <1>6, <2>1, <2>2, <2>3
<1>8. ASSUME NEW n \in DOMAIN init.boxes, P(n) PROVE n = e + k
  <2>1. n \in (e + 1) .. (e + l)
    BY <1>5, <1>6, <1>8
  <2>2. PICK m \in 1 .. l : n = e + m
    <3>1. n - e \in 1 .. l /\ n = e + (n - e)
      BY <1>6, <2>1
    <3>. QED  BY <3>1
  <2>3. init.boxes[n] = w[m] /\ w[m].says = [track |-> m, nonSync |-> m = 1]
    BY <1>3, <1>5, <2>2
  <2>4. m = k
    BY <1>8, <2>3
  <2>. QED  BY <2>2, <2>4
<1>9. Trex(k) = e + k
  <2>1. Trex(k) = CHOOSE n \in DOMAIN init.boxes : P(n)
    BY DEF Trex
  <2>. HIDE DEF P
  <2>. QED  BY <1>7, <1>8, <2>1
<1>10. init.boxes[Trex(k)] = w[k]
  BY <1>3, <1>5, <1>9
<1>11. w[k].says.nonSync = (k = 1)
  <2>1. w[k].says = [track |-> k, nonSync |-> k = 1]
    BY <1>3
  <2>. QED  BY <2>1
<1>12. QED
  BY <1>10, <1>11, Zenon

\* What a player takes for sync samples, by the trex of the track and the flags
\* of the first sample, are the keyframes of append_video_packet, but for a
\* second one; and each frame of the encoder.
THEOREM SyncIsKey == Spec => []SyncSamplesAreKeyframes
<1>1. ASSUME IInv, Done, tracks[1][1].key, NEW k \in Tracks, NEW n \in DOMAIN tracks[k]
      PROVE  IF k = 1 /\ \E m \in 2 .. Len(tracks[k]) : tracks[k][m].key
             THEN PlayerSync(k, n) => tracks[k][n].key
             ELSE PlayerSync(k, n) <=> tracks[k][n].key
  <2>1. PICK config \in TrackConfigs :
          (source.audio # <<>> => Len(config) = 2) /\ init = BuildInit(config)
    BY <1>1 DEF IInv, InitInv, Done
  <2>2. /\ Len(tracks) \in 1 .. 2 /\ tracks \in Seq(Seq(Sample))
        /\ Len(tracks) = 2 => tracks[2] \in Seq(AudioSample) /\ source.audio # <<>>
    BY <1>1 DEF IInv, TypeOK, TracksInv, Done
  <2>3. k \in 1 .. Len(tracks) /\ (k = 1 \/ (k = 2 /\ Len(tracks) = 2))
    <3>1. k \in 1 .. Len(tracks)
      BY <2>2, LenProperties DEF Tracks
    <3>. QED  BY <2>2, <3>1
  <2>4. k \in 1 .. Len(config)
    <3>1. PICK l \in 1 .. 2 : l = Len(config)
      BY <2>1, InitBoxes DEF IsConfig
    <3>2. CASE k = 1
      <4>1. 1 \in 1 .. l
        OBVIOUS
      <4>. QED  BY <3>1, <3>2, <4>1
    <3>3. CASE k = 2 /\ Len(tracks) = 2
      <4>1. Len(config) = 2
        BY <2>1, <2>2, <3>3
      <4>. QED  BY <3>3, <4>1
    <3>. QED  BY <2>3, <3>2, <3>3
  <2>5. PlayerSync(k, n) <=> (n = 1 \/ k # 1)
    <3>1. InitInv /\ phase # "init"
      BY <1>1 DEF IInv, Done
    <3>2. init.boxes[Trex(k)].says.nonSync <=> k = 1
      BY <2>1, <2>4, <3>1, TrexFound
    <3>. QED  BY <3>2 DEF PlayerSync
  <2>6. CASE k = 1
    <3>1. tracks[1] \in Seq(Sample) /\ n \in 1 .. Len(tracks[1]) /\ Len(tracks[1]) \in Nat
      <4>1. tracks[1] \in Seq(Sample)
        BY <2>2, ElementOfSeq
      <4>. QED  BY <1>1, <2>6, <4>1, LenProperties
    <3>2. tracks[1][n].key \in BOOLEAN
      <4>1. tracks[1][n] \in Sample
        BY <3>1, ElementOfSeq
      <4>. QED  BY <4>1 DEF Sample
    <3>3. n = 1 \/ n \in 2 .. Len(tracks[1])
      BY <3>1
    <3>. QED  BY <1>1, <2>5, <2>6, <3>2, <3>3
  <2>7. CASE k # 1
    <3>1. tracks[k] \in Seq(AudioSample) /\ n \in 1 .. Len(tracks[k])
      <4>1. tracks[k] \in Seq(AudioSample)
        BY <2>2, <2>3, <2>7
      <4>. QED  BY <1>1, <4>1, LenProperties
    <3>2. tracks[k][n].key = TRUE
      <4>1. tracks[k][n] \in AudioSample
        BY <3>1, ElementOfSeq
      <4>. QED  BY <4>1 DEF AudioSample
    <3>. QED  BY <2>5, <2>7, <3>2
  <2>. QED  BY <2>6, <2>7
<1>2. IInv => SyncSamplesAreKeyframes
  BY <1>1 DEF SyncSamplesAreKeyframes
<1>3. QED
  BY <1>2, LayoutInvariant, PTL

\* The lengths that BuildInit adds up by hand for the descriptors of esds say
\* where each of them ends, whatever the AudioSpecificConfig.
THEOREM LengthsFit == Spec => []DescriptorsNest
<1> DEFINE Of(tag) ==
             init.boxes[CHOOSE m \in DOMAIN init.boxes : init.boxes[m].type = tag]
<1>1. ASSUME InitInv, phase # "init", NEW n \in DOMAIN init.boxes,
             init.boxes[n].type = "esds"
      PROVE  /\ End(Of("ES")) = End(init.boxes[n])
             /\ End(Of("DecoderConfig")) = Of("SLConfig").at
             /\ End(Of("DecoderSpecificInfo")) = End(Of("DecoderConfig"))
             /\ End(Of("SLConfig")) = End(Of("ES"))
             /\ Of("ES").says < 128
  <2>1. PICK config \in TrackConfigs : init = BuildInit(config)
    BY <1>1 DEF InitInv
  <2>2. InitSays(NewBuilder, init, config) /\ IsConfig(config)
    BY <2>1, InitBoxes
  <2>3. "esds" \in Descriptors
    BY DEF Descriptors
  <2>4. Len(NewBuilder.boxes) = 0
    <3>1. NewBuilder.boxes = <<>>
      BY DEF NewBuilder
    <3>. QED  BY <3>1, EmptySeq
  <2>5. IsBuilder(init)
    BY <2>2 DEF InitSays, Writes
  <2>6. Len(init.boxes) \in Nat /\ DOMAIN init.boxes = 1 .. Len(init.boxes)
    BY <2>5, LenProperties DEF IsBuilder
  <2>7. Len(config) = 2
    <3>1. Len(config) # 1
      <4>1. SUFFICES ASSUME Quiet(NewBuilder, init, Descriptors) PROVE FALSE
        BY <2>2 DEF InitSays
      <4>2. n \in (Len(NewBuilder.boxes) + 1) .. Len(init.boxes)
        BY <2>4, <2>6
      <4>. QED  BY <1>1, <2>3, <4>1, <4>2 DEF Quiet
    <3>. QED  BY <2>2, <3>1 DEF IsConfig
  <2>8. PICK x \in 0 .. 95 : x = config[2].extradata
    BY <2>2, <2>7 DEF IsConfig, IsTrack, Track, MaxAudioConfig
  <2>9. PICK p \in Nat : Writes(NewBuilder, init, Descriptors, EsdsBoxes(p, x))
    BY <2>2, <2>7, <2>8 DEF InitSays
  <2>10. PICK w : w = EsdsBoxes(p, x)
    OBVIOUS
  <2>11. Len(w) = 5
    BY <2>10 DEF EsdsBoxes
  <2>12. PICK e \in Nat :
           /\ e + 5 <= Len(init.boxes)
           /\ \A m \in 1 .. 5 : init.boxes[e + m] = w[m]
           /\ \A m \in 1 .. Len(init.boxes) :
                init.boxes[m].type \in Descriptors => m \in (e + 1) .. (e + 5)
    <3>1. PICK e \in Nat :
            /\ Len(NewBuilder.boxes) <= e /\ e + Len(w) <= Len(init.boxes)
            /\ \A m \in 1 .. Len(w) : init.boxes[e + m] = w[m]
            /\ \A m \in (Len(NewBuilder.boxes) + 1) .. Len(init.boxes) :
                 init.boxes[m].type \in Descriptors => m \in (e + 1) .. (e + Len(w))
      BY <2>9, <2>10 DEF Writes
    <3>2. Len(NewBuilder.boxes) + 1 = 1
      BY <2>4
    <3>. QED  BY <2>11, <3>1, <3>2
  <2>13. /\ w[1] = [type |-> "ES", at |-> p + 12, says |-> 32 + x, size |-> 5 + (32 + x)]
         /\ w[2] = [type |-> "DecoderConfig", at |-> p + 20, says |-> 18 + x,
                    size |-> 5 + (18 + x)]
         /\ w[3] = [type |-> "DecoderSpecificInfo", at |-> p + 38, says |-> x,
                    size |-> 5 + x]
         /\ w[4] = [type |-> "SLConfig", at |-> p + 43 + x, says |-> 1, size |-> 5 + 1]
         /\ w[5] = [type |-> "esds", at |-> p, says |-> NoField, size |-> 49 + x]
    BY <2>10 DEF EsdsBoxes
  <2>14. ASSUME NEW i \in 1 .. 5, NEW m \in DOMAIN init.boxes,
                init.boxes[m].type = w[i].type
         PROVE  init.boxes[m] = w[i]
    <3>1. w[i].type \in Descriptors
      <4>1. i = 1 \/ i = 2 \/ i = 3 \/ i = 4 \/ i = 5
        OBVIOUS
      <4>. QED  BY <2>13, <4>1 DEF Descriptors
    <3>2. m \in (e + 1) .. (e + 5)
      BY <2>6, <2>12, <2>14, <3>1
    <3>3. PICK j \in 1 .. 5 : m = e + j
      <4>1. m - e \in 1 .. 5 /\ m = e + (m - e)
        BY <2>6, <3>2
      <4>. QED  BY <4>1
    <3>4. init.boxes[m] = w[j]
      BY <2>12, <3>3
    <3>5. \A a, b \in 1 .. 5 : w[a].type = w[b].type => a = b
      <4>1. \A a \in 1 .. 5 : a = 1 \/ a = 2 \/ a = 3 \/ a = 4 \/ a = 5
        OBVIOUS
      <4>2. /\ w[1].type = "ES" /\ w[2].type = "DecoderConfig"
            /\ w[3].type = "DecoderSpecificInfo" /\ w[4].type = "SLConfig"
            /\ w[5].type = "esds"
        BY <2>13
      <4>. QED  BY <4>1, <4>2
    <3>. QED  BY <2>14, <3>4, <3>5
  <2>15. ASSUME NEW i \in 1 .. 5 PROVE Of(w[i].type) = w[i]
    <3>1. e + i \in DOMAIN init.boxes /\ init.boxes[e + i].type = w[i].type
      <4>1. e + i \in 1 .. Len(init.boxes)
        BY <2>6, <2>12
      <4>2. init.boxes[e + i] = w[i]
        BY <2>12
      <4>. QED  BY <2>6, <4>1, <4>2
    <3>. QED  BY <2>14, <3>1
  <2>16. /\ Of("ES") = w[1] /\ Of("DecoderConfig") = w[2]
         /\ Of("DecoderSpecificInfo") = w[3] /\ Of("SLConfig") = w[4]
    <3>1. /\ w[1].type = "ES" /\ w[2].type = "DecoderConfig"
          /\ w[3].type = "DecoderSpecificInfo" /\ w[4].type = "SLConfig"
      BY <2>13
    <3>2. 1 \in 1 .. 5 /\ 2 \in 1 .. 5 /\ 3 \in 1 .. 5 /\ 4 \in 1 .. 5
      OBVIOUS
    <3>. HIDE DEF Of
    <3>. QED  BY <2>15, <3>1, <3>2
  <2>17. init.boxes[n] = w[5]
    <3>1. w[5].type = "esds" /\ 5 \in 1 .. 5
      BY <2>13
    <3>. QED  BY <1>1, <2>14, <3>1
  <2>18. /\ End(w[1]) = p + 49 + x /\ End(w[2]) = p + 43 + x /\ End(w[3]) = p + 43 + x
         /\ End(w[4]) = p + 49 + x /\ End(w[5]) = p + 49 + x
         /\ w[4].at = p + 43 + x /\ w[1].says < 128
    BY <2>8, <2>13 DEF End
  <2>. HIDE DEF Of
  <2>. QED  BY <2>16, <2>17, <2>18
<1>2. InitInv => DescriptorsNest
  BY <1>1 DEF DescriptorsNest
<1>3. IInv => DescriptorsNest
  BY <1>2 DEF IInv
<1>4. QED
  BY <1>3, LayoutInvariant, PTL
=============================================================================
