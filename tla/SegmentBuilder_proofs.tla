------------------------ MODULE SegmentBuilder_proofs ------------------------
(* Proofs about SegmentBuilder: what is in the video of a segment.         *)
EXTENDS SegmentBuilder, SequenceTheorems, WellFoundedInduction, TLAPS

-----------------------------------------------------------------------------
(* Walks, as facts about a file f.                                         *)

\* Packet p is video that a segment can hold.
VideoAt(f, p) == f.packets[p].track = "video" /\ f.packets[p].t # NoTime

\* Packet p is a keyframe at or after ms.
KeyAt(f, p, ms) == VideoAt(f, p) /\ f.packets[p].key /\ f.packets[p].t >= ms

\* v is the video from `from` to `to` among the packets before number u: nothing
\* as long as there was no keyframe to start with, and then all the video from
\* there on, in file order, without a keyframe at or after `to`.
Walked(f, v, from, to, u) ==
  /\ u \in 1 .. (Len(f.packets) + 1)
  /\ v \in Seq(1 .. (u - 1))
  /\ v = <<>> => \A p \in 1 .. (u - 1) : ~KeyAt(f, p, from)
  /\ v # <<>> =>
       /\ KeyAt(f, v[1], from)
       /\ \A p \in 1 .. (v[1] - 1) : ~KeyAt(f, p, from)
       /\ \A p \in v[1] .. (u - 1) : ~KeyAt(f, p, to)
       /\ \A m, n \in 1 .. Len(v) : m < n => v[m] < v[n]
       /\ \A n \in 1 .. Len(v) : VideoAt(f, v[n])
       /\ \A p \in v[1] .. (u - 1) : VideoAt(f, p) => \E n \in 1 .. Len(v) : v[n] = p

\* The walk stopped before packet u because it starts the next segment, or
\* because there is none.
StoppedAt(f, to, u) ==
  u = Len(f.packets) + 1 \/ (u \in 1 .. Len(f.packets) /\ KeyAt(f, u, to))

\* A packet that is not video changes nothing, nor does video before the first
\* keyframe of the segment.
LEMMA WalkSkips ==
  ASSUME NEW f \in File, NEW v, NEW from \in Nat, NEW to \in Nat, NEW u \in 1 .. Len(f.packets),
         Walked(f, v, from, to, u),
         ~VideoAt(f, u) \/ (v = <<>> /\ ~KeyAt(f, u, from))
  PROVE  Walked(f, v, from, to, u + 1)
<1> Len(f.packets) \in Nat
  BY DEF File
<1>1. u + 1 \in 1 .. (Len(f.packets) + 1) /\ (u + 1) - 1 = u
  OBVIOUS
<1>2. v \in Seq(1 .. u)
  BY DEF Walked
<1>3. ASSUME v = <<>>, NEW p \in 1 .. u PROVE ~KeyAt(f, p, from)
  <2>1. CASE p = u
    BY <2>1, <1>3 DEF KeyAt
  <2>2. CASE p # u
    BY <2>2, <1>3 DEF Walked
  <2>3. QED
    BY <2>1, <2>2
<1>4. ASSUME v # <<>>
      PROVE  /\ \A p \in v[1] .. u : ~KeyAt(f, p, to)
             /\ \A p \in v[1] .. u : VideoAt(f, p) => \E n \in 1 .. Len(v) : v[n] = p
  <2>1. ~VideoAt(f, u)
    BY <1>4
  <2>2. v[1] \in 1 .. (u - 1)
    BY <1>4 DEF Walked
  <2>3. \A p \in v[1] .. u : p = u \/ p \in v[1] .. (u - 1)
    BY <2>2
  <2>4. QED
    BY <1>4, <2>1, <2>3 DEF Walked, KeyAt
<1>5. QED
  BY <1>1, <1>2, <1>3, <1>4 DEF Walked

\* Video from the first keyframe of the segment on is taken.
LEMMA WalkTakes ==
  ASSUME NEW f \in File, NEW v, NEW from \in Nat, NEW to \in Nat, NEW u \in 1 .. Len(f.packets),
         Walked(f, v, from, to, u), VideoAt(f, u),
         v # <<>> \/ KeyAt(f, u, from), ~KeyAt(f, u, to)
  PROVE  Walked(f, Append(v, u), from, to, u + 1)
<1> SUFFICES ASSUME NEW w, w = Append(v, u)
             PROVE  Walked(f, w, from, to, u + 1)
  OBVIOUS
<1> Len(f.packets) \in Nat
  BY DEF File
<1>1. u + 1 \in 1 .. (Len(f.packets) + 1) /\ (u + 1) - 1 = u
  OBVIOUS
<1>2. v \in Seq(1 .. (u - 1)) /\ v \in Seq(1 .. u)
  BY DEF Walked
<1>3. Len(w) = Len(v) + 1 /\ Len(v) \in Nat
  BY <1>2
<1>4. \A n \in 1 .. Len(v) : v[n] \in 1 .. (u - 1)
  BY <1>2
<1>5. w \in Seq(1 .. u) /\ w # <<>> /\ w[Len(v) + 1] = u
  BY <1>2
<1>6. \A n \in 1 .. Len(v) : w[n] = v[n]
  BY <1>2
<1>7. /\ w \in Seq(1 .. u) /\ w # <<>> /\ Len(w) = Len(v) + 1 /\ Len(v) \in Nat
      /\ w[Len(v) + 1] = u
      /\ \A n \in 1 .. Len(v) : w[n] = v[n] /\ v[n] \in 1 .. (u - 1)
  BY <1>3, <1>4, <1>5, <1>6
<1>8. CASE v = <<>>
  <2>1. Len(w) = 1 /\ w[1] = u
    BY <1>7, <1>8
  <2>2. \A p \in 1 .. (w[1] - 1) : ~KeyAt(f, p, from)
    BY <1>8, <2>1 DEF Walked
  <2>3. \A p \in w[1] .. u : p = u
    BY <2>1
  <2>4. QED
    BY <1>1, <1>7, <1>8, <2>1, <2>2, <2>3 DEF Walked
<1>9. CASE v # <<>>
  <2>1. Len(v) >= 1 /\ w[1] = v[1] /\ v[1] \in 1 .. (u - 1)
    BY <1>2, <1>7, <1>9
  <2>2. \A p \in v[1] .. u : p = u \/ p \in v[1] .. (u - 1)
    BY <2>1
  <2>3. \A p \in w[1] .. u : ~KeyAt(f, p, to)
    BY <1>9, <2>1, <2>2 DEF Walked
  <2>4. \A m, n \in 1 .. Len(w) : m < n => w[m] < w[n]
    <3> SUFFICES ASSUME NEW m \in 1 .. Len(w), NEW n \in 1 .. Len(w), m < n
                 PROVE  w[m] < w[n]
      OBVIOUS
    <3>1. m \in 1 .. Len(v)
      BY <1>7
    <3>2. CASE n = Len(v) + 1
      BY <1>7, <3>1, <3>2
    <3>3. CASE n # Len(v) + 1
      <4>1. n \in 1 .. Len(v)
        BY <1>3, <3>3
      <4>2. QED
        BY <1>7, <1>9, <3>1, <4>1 DEF Walked
    <3>4. QED
      BY <3>2, <3>3
  <2>5. \A n \in 1 .. Len(w) : VideoAt(f, w[n])
    <3> SUFFICES ASSUME NEW n \in 1 .. Len(w) PROVE VideoAt(f, w[n])
      OBVIOUS
    <3>1. CASE n = Len(v) + 1
      BY <1>7, <3>1
    <3>2. CASE n # Len(v) + 1
      BY <1>7, <1>9, <3>2 DEF Walked
    <3>3. QED
      BY <3>1, <3>2
  <2>6. ASSUME NEW p \in w[1] .. u, VideoAt(f, p)
        PROVE  \E n \in 1 .. Len(w) : w[n] = p
    <3>1. CASE p = u
      BY <1>7, <3>1
    <3>2. CASE p # u
      <4>1. PICK n \in 1 .. Len(v) : v[n] = p
        BY <1>9, <2>1, <2>2, <2>6, <3>2 DEF Walked
      <4>2. QED
        BY <1>7, <4>1
    <3>3. QED
      BY <3>1, <3>2
  <2>7. KeyAt(f, w[1], from) /\ \A p \in 1 .. (w[1] - 1) : ~KeyAt(f, p, from)
    BY <1>9, <2>1 DEF Walked
  <2>8. QED
    BY <1>1, <1>7, <2>3, <2>4, <2>5, <2>6, <2>7 DEF Walked
<1>10. QED
  BY <1>8, <1>9

\* An element of a sequence.
LEMMA ElementIn ==
  ASSUME NEW S, NEW s \in Seq(S), NEW n \in 1 .. Len(s)
  PROVE  s[n] \in S
OBVIOUS

\* What a walk took is between its first and its last packet.
LEMMA WalkRange ==
  ASSUME NEW f \in File, NEW v, NEW from, NEW to, NEW u,
         Walked(f, v, from, to, u), v # <<>>
  PROVE  /\ u \in Nat /\ Len(v) \in Nat /\ 1 <= Len(v)
         /\ \A n \in 1 .. Len(v) :
              /\ v[n] \in Nat /\ v[n] < u /\ 1 <= v[n]
              /\ v[1] <= v[n] /\ v[n] <= v[Len(v)]
<1>1. u \in 1 .. (Len(f.packets) + 1) /\ Len(f.packets) \in Nat
  BY DEF Walked, File
<1>2. v \in Seq(1 .. (u - 1))
  BY DEF Walked
<1>3. u \in Nat /\ Len(v) \in Nat /\ 1 <= Len(v)
  BY <1>1, <1>2
<1>4. ASSUME NEW n \in 1 .. Len(v) PROVE v[n] \in Nat /\ v[n] < u /\ 1 <= v[n]
  <2>1. v[n] \in 1 .. (u - 1)
    BY <1>2, <1>4, ElementIn
  <2>2. QED
    BY <1>3, <2>1
<1>5. \A m, n \in 1 .. Len(v) : m < n => v[m] < v[n]
  BY DEF Walked
<1>6. ASSUME NEW n \in 1 .. Len(v) PROVE v[1] <= v[n] /\ v[n] <= v[Len(v)]
  <2>1. 1 \in 1 .. Len(v) /\ Len(v) \in 1 .. Len(v)
    BY <1>3
  <2>2. v[1] \in Nat /\ v[n] \in Nat /\ v[Len(v)] \in Nat
    BY <1>4, <2>1
  <2>3. n = 1 \/ v[1] < v[n]
    BY <1>3, <1>5, <2>1
  <2>4. n = Len(v) \/ v[n] < v[Len(v)]
    BY <1>3, <1>5, <2>1
  <2>5. QED
    BY <2>2, <2>3, <2>4
<1>7. QED
  BY <1>3, <1>4, <1>6

\* The packet that stopped a walk is the one the next walk begins with.
LEMMA StopIsStart ==
  ASSUME NEW f \in File, NEW v, NEW w, NEW from \in Nat, NEW mid \in Nat, NEW to \in Nat,
         NEW a, NEW b, from <= mid,
         Walked(f, v, from, mid, a), v # <<>>, StoppedAt(f, mid, a),
         Walked(f, w, mid, to, b), w # <<>>
  PROVE  a = w[1]
<1>1. Len(f.packets) \in Nat /\ a \in 1 .. (Len(f.packets) + 1) /\ b \in 1 .. (Len(f.packets) + 1)
  BY DEF Walked, File
<1>2. v[1] \in Nat /\ v[1] < a /\ 1 <= v[1]
  BY WalkRange
<1>3. w[1] \in Nat /\ w[1] < b /\ 1 <= w[1]
  BY WalkRange
<1>4. KeyAt(f, w[1], mid) /\ \A p \in 1 .. (w[1] - 1) : ~KeyAt(f, p, mid)
  BY DEF Walked
<1>5. KeyAt(f, w[1], from)
  <2>1. w[1] \in 1 .. Len(f.packets)
    BY <1>1, <1>3
  <2>2. f.packets[w[1]] \in [track : {"video", "audio", "subtitle"}, key : BOOLEAN,
                             t : Nat \cup {NoTime}, at : Nat, n : Nat]
    BY <2>1, ElementIn DEF File
  <2>3. f.packets[w[1]].t # NoTime => f.packets[w[1]].t \in Nat
    BY <2>2
  <2>4. QED
    BY <1>4, <2>3 DEF KeyAt, VideoAt
<1>6. ~(w[1] \in 1 .. (v[1] - 1))
  BY <1>5 DEF Walked
<1>7. ~(w[1] \in v[1] .. (a - 1))
  BY <1>4 DEF Walked
<1>8. ~(a \in 1 .. (w[1] - 1))
  <2>1. a \in 1 .. (w[1] - 1) => a # Len(f.packets) + 1
    BY <1>1, <1>3
  <2>2. QED
    BY <1>4, <2>1 DEF StoppedAt
<1>9. QED
  BY <1>1, <1>2, <1>3, <1>6, <1>7, <1>8

\* Two walks whose ranges follow on, the first stopped where it had to, hold
\* together each packet of video from the first one's start to the second's
\* end once, in file order.
LEMMA WalksTile ==
  ASSUME NEW f \in File, NEW v, NEW w, NEW from \in Nat, NEW mid \in Nat, NEW to \in Nat,
         NEW a, NEW b, from <= mid,
         Walked(f, v, from, mid, a), v # <<>>, StoppedAt(f, mid, a),
         Walked(f, w, mid, to, b), w # <<>>,
         NEW both, both = v \o w
  PROVE  /\ \A n \in 2 .. Len(both) : both[n - 1] < both[n]
         /\ {both[n] : n \in DOMAIN both} =
              {p \in both[1] .. both[Len(both)] : VideoAt(f, p)}
<1>1. a = w[1]
  BY StopIsStart
<1>2. /\ a \in Nat /\ Len(v) \in Nat /\ 1 <= Len(v)
      /\ \A n \in 1 .. Len(v) :
           v[n] \in Nat /\ v[n] < a /\ v[1] <= v[n] /\ v[n] <= v[Len(v)]
  BY WalkRange
<1>3. /\ b \in Nat /\ Len(w) \in Nat /\ 1 <= Len(w)
      /\ \A n \in 1 .. Len(w) :
           w[n] \in Nat /\ w[n] < b /\ w[1] <= w[n] /\ w[n] <= w[Len(w)]
  BY WalkRange
<1>4. /\ \A m, n \in 1 .. Len(v) : m < n => v[m] < v[n]
      /\ \A m, n \in 1 .. Len(w) : m < n => w[m] < w[n]
  BY DEF Walked
<1>5. v \in Seq(1 .. (a - 1)) /\ w \in Seq(1 .. (b - 1))
  BY DEF Walked
<1>6. Len(both) = Len(v) + Len(w) /\ DOMAIN both = 1 .. (Len(v) + Len(w))
  BY <1>5
<1>7. \A n \in 1 .. Len(v) : both[n] = v[n]
  BY <1>5
<1>8. \A n \in 1 .. Len(w) : both[Len(v) + n] = w[n]
  BY <1>5
<1>9. both[1] = v[1] /\ both[Len(both)] = w[Len(w)]
  BY <1>2, <1>3, <1>6, <1>7, <1>8
<1>10. \A n \in 1 .. Len(both) : n \in 1 .. Len(v) \/ \E m \in 1 .. Len(w) : n = Len(v) + m
  <2> SUFFICES ASSUME NEW n \in 1 .. Len(both), n \notin 1 .. Len(v)
               PROVE  \E m \in 1 .. Len(w) : n = Len(v) + m
    OBVIOUS
  <2>1. n - Len(v) \in 1 .. Len(w) /\ n = Len(v) + (n - Len(v))
    BY <1>2, <1>3, <1>6
  <2>2. QED
    BY <2>1
<1>11. ASSUME NEW n \in 2 .. Len(both) PROVE both[n - 1] < both[n]
  <2>1. CASE n \in 1 .. Len(v)
    <3>1. n - 1 \in 1 .. Len(v) /\ n - 1 < n
      BY <1>2, <2>1
    <3>2. QED
      BY <1>4, <1>7, <2>1, <3>1
  <2>2. CASE n \notin 1 .. Len(v)
    <3>1. PICK m \in 1 .. Len(w) : n = Len(v) + m
      BY <1>10, <2>2
    <3>2. CASE m = 1
      <4>1. n - 1 = Len(v) /\ Len(v) \in 1 .. Len(v)
        BY <1>2, <3>1, <3>2
      <4>2. both[n - 1] = v[Len(v)] /\ both[n] = w[1]
        BY <1>7, <1>8, <3>1, <3>2, <4>1
      <4>3. v[Len(v)] < a
        BY <1>2, <4>1
      <4>4. QED
        BY <1>1, <4>2, <4>3
    <3>3. CASE m # 1
      <4>1. m - 1 \in 1 .. Len(w) /\ n - 1 = Len(v) + (m - 1) /\ m - 1 < m
        BY <1>2, <1>3, <3>1, <3>3
      <4>2. both[n] = w[m] /\ both[n - 1] = w[m - 1]
        BY <1>8, <3>1, <4>1
      <4>3. QED
        BY <1>4, <4>1, <4>2
    <3>4. QED
      BY <3>2, <3>3
  <2>3. QED
    BY <2>1, <2>2
<1>12. 1 \in 1 .. Len(v) /\ 1 \in 1 .. Len(w) /\ v[1] < w[1] /\ w[1] <= w[Len(w)]
  BY <1>1, <1>2, <1>3
<1>13. ASSUME NEW n \in 1 .. Len(both)
       PROVE  both[n] \in both[1] .. both[Len(both)] /\ VideoAt(f, both[n])
  <2>1. CASE n \in 1 .. Len(v)
    <3>1. both[n] = v[n] /\ VideoAt(f, v[n])
      BY <1>7, <2>1 DEF Walked
    <3>2. v[n] \in Nat /\ v[1] \in Nat /\ w[Len(w)] \in Nat /\ w[1] \in Nat
      <4>1. Len(w) \in 1 .. Len(w)
        BY <1>3
      <4>2. QED
        BY <1>2, <1>3, <1>12, <2>1, <4>1
    <3>3. v[1] <= v[n] /\ v[n] <= w[Len(w)]
      BY <1>1, <1>2, <1>12, <2>1, <3>2
    <3>4. QED
      BY <1>9, <3>1, <3>2, <3>3
  <2>2. CASE n \notin 1 .. Len(v)
    <3>1. PICK m \in 1 .. Len(w) : n = Len(v) + m
      BY <1>10, <2>2
    <3>2. both[n] = w[m] /\ VideoAt(f, w[m])
      BY <1>8, <3>1 DEF Walked
    <3>3. w[m] \in Nat /\ v[1] \in Nat /\ w[Len(w)] \in Nat /\ w[1] \in Nat
      <4>1. Len(w) \in 1 .. Len(w)
        BY <1>3
      <4>2. QED
        BY <1>2, <1>3, <1>12, <3>1, <4>1
    <3>4. v[1] <= w[m] /\ w[m] <= w[Len(w)]
      <4>1. w[1] <= w[m] /\ w[m] <= w[Len(w)]
        BY <1>3, <3>1
      <4>2. QED
        BY <1>12, <3>3, <4>1
    <3>5. QED
      BY <1>9, <3>2, <3>3, <3>4
  <2>3. QED
    BY <2>1, <2>2
<1>14. ASSUME NEW p \in both[1] .. both[Len(both)], VideoAt(f, p)
       PROVE  \E n \in 1 .. Len(both) : both[n] = p
  <2>1. v[1] \in Nat /\ w[Len(w)] \in Nat /\ w[Len(w)] < b
    BY <1>2, <1>3, <1>12
  <2>2. p \in Int /\ v[1] <= p /\ p <= w[Len(w)]
    BY <1>9, <2>1
  <2>3. CASE p < a
    <3>1. p \in v[1] .. (a - 1)
      BY <1>2, <2>1, <2>2, <2>3
    <3>2. PICK n \in 1 .. Len(v) : v[n] = p
      BY <1>14, <3>1 DEF Walked
    <3>3. n \in 1 .. Len(both)
      BY <1>2, <1>3, <1>6
    <3>4. QED
      BY <1>7, <3>2, <3>3
  <2>4. CASE ~(p < a)
    <3>1. p \in w[1] .. (b - 1)
      BY <1>1, <1>2, <1>3, <2>1, <2>2, <2>4
    <3>2. PICK n \in 1 .. Len(w) : w[n] = p
      BY <1>14, <3>1 DEF Walked
    <3>3. Len(v) + n \in 1 .. Len(both)
      BY <1>2, <1>3, <1>6
    <3>4. QED
      BY <1>8, <3>2, <3>3
  <2>5. QED
    BY <2>3, <2>4
<1>15. DOMAIN both = 1 .. Len(both)
  BY <1>6
<1>16. {both[n] : n \in DOMAIN both} = {p \in both[1] .. both[Len(both)] : VideoAt(f, p)}
  <2> DEFINE L == {both[n] : n \in DOMAIN both}
             R == {p \in both[1] .. both[Len(both)] : VideoAt(f, p)}
  <2>1. ASSUME NEW x \in L PROVE x \in R
    <3>1. PICK n \in 1 .. Len(both) : x = both[n]
      BY <1>15
    <3>2. QED
      BY <1>13, <3>1
  <2>2. ASSUME NEW p \in R PROVE p \in L
    <3>1. PICK n \in 1 .. Len(both) : both[n] = p
      BY <1>14
    <3>2. QED
      BY <1>15, <3>1
  <2> HIDE DEF L, R
  <2>3. L = R
    BY <2>1, <2>2
  <2>4. QED
    BY <2>3 DEF L, R
<1>17. QED
  BY <1>11, <1>16

-----------------------------------------------------------------------------
(* The file of the session.                                                *)

\* A set of naturals has a least element.
LEMMA LeastElement ==
  ASSUME NEW T, T \subseteq Nat, T # {}
  PROVE  \E m \in T : \A n \in T : m <= n
<1>1. PICK m \in T : \A n \in T : ~(<<n, m>> \in OpToRel(<, Nat))
  BY NatLessThanWellFounded, WFMin
<1>2. \A x, y \in Nat : <<x, y>> \in OpToRel(<, Nat) <=> x < y
  BY DEF OpToRel
<1>3. \A n \in T : ~(n < m)
  BY <1>1, <1>2, Zenon
<1>4. QED
  BY <1>3

\* A packet of the file is one, and the file is as a muxer writes it.
LEMMA FileType ==
  ASSUME file \in Files
  PROVE  /\ file \in File /\ WellFormed(file) /\ Len(Packets) \in Nat
         /\ Packets \in Seq([track : {"video", "audio", "subtitle"}, key : BOOLEAN,
                             t : Nat \cup {NoTime}, at : Nat, n : Nat])
         /\ DOMAIN Packets = 1 .. Len(Packets)
<1>1. file \in File /\ WellFormed(file)
  BY BuilderAssumption
<1>2. Packets \in Seq([track : {"video", "audio", "subtitle"}, key : BOOLEAN,
                       t : Nat \cup {NoTime}, at : Nat, n : Nat])
  BY <1>1 DEF Packets, File
<1>3. QED
  BY <1>1, <1>2

\* A listed segment starts before it ends, and its preroll no later.
LEMMA Bounds ==
  ASSUME file \in Files, NEW i \in Listed
  PROVE  /\ StartMs(i) \in Nat /\ EndMs(i) \in Nat /\ StartMs(i) < EndMs(i)
         /\ DecodeStartMs(i) \in Nat /\ DecodeStartMs(i) <= StartMs(i)
<1>1. file.bounds \in Seq(Nat)
  BY FileType DEF File
<1>2. i + 1 \in 1 .. Len(file.bounds) /\ i + 2 \in 1 .. Len(file.bounds) /\ i + 1 < i + 2
  BY <1>1 DEF Listed
<1>3. file.bounds[i + 1] \in Nat /\ file.bounds[i + 2] \in Nat
  BY <1>1, <1>2, ElementIn
<1>4. DOMAIN file.bounds = 1 .. Len(file.bounds)
  BY <1>1
<1>5. file.bounds[i + 1] < file.bounds[i + 2]
  BY <1>2, <1>4, FileType DEF WellFormed
<1>6. QED
  BY <1>3, <1>5, BuilderAssumption DEF StartMs, EndMs, DecodeStartMs

\* The tests of the walk, as facts about the file.
LEMMA PacketTests ==
  ASSUME NEW p
  PROVE  /\ IsVideo(p) /\ Timed(p) <=> VideoAt(file, p)
         /\ Opens(p) <=> KeyAt(file, p, StartMs(seg))
         /\ Closes(p) <=> KeyAt(file, p, EndMs(seg))
BY DEF IsVideo, Timed, IsKey, Packets, Opens, Closes, VideoAt, KeyAt

\* A seek never goes past a keyframe at or after its target.
LEMMA SeekIsEarly ==
  ASSUME file \in Files, NEW target \in Nat
  PROVE  /\ SeekPosition(target) \in 1 .. (Len(Packets) + 1)
         /\ \A p \in 1 .. (SeekPosition(target) - 1) : ~KeyAt(file, p, target)
<1> DEFINE before == {n \in DOMAIN file.cues : \A m \in 1 .. n : file.cues[m].t <= target}
           best == CHOOSE n \in before : \A m \in before : m <= n
<1>1. CASE before = {}
  <2>1. SeekPosition(target) = 1
    BY <1>1 DEF SeekPosition
  <2>2. QED
    BY <2>1, FileType
<1>2. CASE before # {}
  <2>1. file.cues \in Seq([t : Nat, at : Nat \ {0}])
    BY FileType DEF File
  <2>2. DOMAIN file.cues = 1 .. Len(file.cues) /\ Len(file.cues) \in Nat
    BY <2>1
  <2>3. \A n \in before : n \in 1 .. Len(file.cues) /\ \A k \in 1 .. n : k \in before
    BY <2>2
  <2> DEFINE T == {k \in Nat : 2 <= k /\ k \notin before}
  <2> HIDE DEF before
  <2>4. Len(file.cues) + 1 \in T
    BY <1>2, <2>2, <2>3
  <2>5. PICK m \in T : \A n \in T : m <= n
    BY <2>4, LeastElement
  <2>6. m - 1 \in before
    <3>1. 1 \in before
      BY <1>2, <2>2, <2>3
    <3>2. CASE m = 2
      BY <3>1, <3>2
    <3>3. CASE m # 2
      <4>1. m - 1 \in Nat /\ 2 <= m - 1 /\ m - 1 < m
        BY <3>3
      <4>2. m - 1 \notin T
        BY <2>5, <4>1
      <4>3. QED
        BY <4>1, <4>2
    <3>4. QED
      BY <3>2, <3>3
  <2>7. \A n \in before : n <= m - 1
    <3> SUFFICES ASSUME NEW n \in before, ~(n <= m - 1) PROVE FALSE
      OBVIOUS
    <3>1. m \in 1 .. n
      BY <2>3
    <3>2. QED
      BY <2>3, <3>1
  <2>8. best \in before
    BY <2>6, <2>7
  <2>9. SeekPosition(target) = file.cues[best].at
    BY <1>2 DEF SeekPosition, before
  <2> HIDE DEF best
  <2>10. best \in DOMAIN file.cues /\ file.cues[best].t <= target
    BY <2>2, <2>3, <2>8 DEF before
  <2>11. file.cues[best] \in [t : Nat, at : Nat \ {0}]
    BY <2>1, <2>2, <2>10, ElementIn
  <2>12. file.cues[best].at \in Nat \ {0} /\ file.cues[best].at <= Len(Packets)
    BY <2>10, <2>11, FileType DEF WellFormed, Packets
  <2>13. ASSUME NEW p \in 1 .. (file.cues[best].at - 1), KeyAt(file, p, target)
         PROVE  FALSE
    <3>1. file.packets[p].t < file.cues[best].t
      BY <2>10, <2>13, FileType DEF WellFormed, KeyAt, VideoAt
    <3>2. p \in 1 .. Len(Packets)
      BY <2>12, FileType
    <3>3. Packets[p] \in [track : {"video", "audio", "subtitle"}, key : BOOLEAN,
                          t : Nat \cup {NoTime}, at : Nat, n : Nat]
      BY <3>2, FileType, ElementIn
    <3>4. file.packets[p].t \in Nat /\ file.packets[p].t >= target
      BY <2>13, <3>3 DEF KeyAt, VideoAt, Packets
    <3>5. QED
      BY <2>10, <2>11, <3>1, <3>4
  <2>14. QED
    BY <2>9, <2>12, <2>13, FileType
<1>3. QED
  BY <1>1, <1>2

-----------------------------------------------------------------------------
(* The inductive invariant.                                                *)

\* The variables keep their types; the audio queue holds samples.
BuilderTypeInv == TypeOK /\ queue \in Seq(Int)

\* The segment that is built has the video of its walk so far; past its
\* boundary it has all of it, unless a read failed.
BuildInv ==
  phase # "idle" =>
    /\ seg \in Listed
    /\ phase = "walk" =>
         /\ seen <=> video # <<>>
         /\ Walked(file, video, StartMs(seg), EndMs(seg), pos)
    /\ phase \in {"drain", "finish"} => \E u \in Nat :
         /\ Walked(file, video, StartMs(seg), EndMs(seg), u)
         /\ failed \/ StoppedAt(file, EndMs(seg), u)

\* A cached segment has the video of a walk, which went all the way if no
\* read failed.
CachedInv ==
  \A i \in Cached(segments) :
    /\ i \in Listed /\ VideoOf(i) # <<>>
    /\ \E u \in Nat :
         /\ Walked(file, VideoOf(i), StartMs(i), EndMs(i), u)
         /\ i \in intact => StoppedAt(file, EndMs(i), u)

BuilderInv == BuilderTypeInv /\ BuildInv /\ CachedInv

-----------------------------------------------------------------------------
(* Types.                                                                  *)

\* What comes out of the decoder are samples.
LEMMA DecodeType ==
  ASSUME file \in Files, NEW i, NEW q \in Seq(Int), NEW p \in DOMAIN Packets
  PROVE  Decode(i, q, p) \in Seq(Int)
<1>1. Packets[p] \in [track : {"video", "audio", "subtitle"}, key : BOOLEAN,
                      t : Nat \cup {NoTime}, at : Nat, n : Nat]
  BY FileType, ElementIn
<1>2. Packets[p].at \in Nat /\ Packets[p].n \in Nat
  BY <1>1
<1>3. AudioPts(Packets[p].at) \in Int
  BY <1>2, BuilderAssumption DEF AudioPts
<1>4. \A n \in 1 .. Packets[p].n : AudioPts(Packets[p].at) + n - 1 \in Int
  BY <1>2, <1>3
<1>5. Decoded(p) \in Seq(Int)
  <2>1. PICK k \in Nat : k = Packets[p].n
    BY <1>2
  <2>2. PICK a \in Int : a = AudioPts(Packets[p].at)
    BY <1>3
  <2>3. Decoded(p) = [n \in 1 .. k |-> a + n - 1]
    BY <2>1, <2>2 DEF Decoded
  <2>4. [n \in 1 .. k |-> a + n - 1] \in Seq(Int)
    BY ONLY k \in Nat, a \in Int
  <2>5. QED
    BY <2>3, <2>4
<1>6. QED
  BY <1>5 DEF Decode

\* An encoding run takes whole frames from the front of the queue.
LEMMA DrainType ==
  ASSUME BuilderTypeInv, NEW i \in Listed, NEW q \in Seq(Int), DrainAac(i, q)
  PROVE  /\ queue' \in Seq(Int) /\ nextPts' \in Int
         /\ DOMAIN build' = AudioIndex /\ DOMAIN audioCache' = AudioIndex
<1> DEFINE k == IF HasAudio THEN FramesReady(q, CutoffPts(i)) ELSE 0
<1>1. Frame \in Nat \ {0} /\ nextPts \in Int /\ Len(q) \in Nat
  BY BuilderAssumption DEF BuilderTypeInv, TypeOK
<1>2. CutoffPts(i) \in Int
  BY Bounds, BuilderAssumption DEF CutoffPts, AudioPts, BuilderTypeInv, TypeOK
<1>3. k \in Nat /\ k * Frame <= Len(q)
  <2>1. CASE HasAudio /\ CutoffPts(i) >= nextPts
    <3>1. \A n \in Nat : n \div Frame \in Nat /\ (n \div Frame) * Frame <= n
      BY <1>1
    <3>2. (CutoffPts(i) - nextPts) \div Frame \in Nat
      BY <1>1, <1>2, <2>1, <3>1
    <3>3. k \in Nat /\ k <= Len(q) \div Frame
      <4>1. ~(CutoffPts(i) < nextPts)
        BY <1>1, <1>2, <2>1
      <4>2. k = Lowest(Len(q) \div Frame, (CutoffPts(i) - nextPts) \div Frame)
        BY <2>1, <4>1, Zenon DEF FramesReady
      <4>3. \A x, y \in Nat : Lowest(x, y) \in Nat /\ Lowest(x, y) <= x
        BY DEF Lowest
      <4>4. Len(q) \div Frame \in Nat
        BY <1>1, <3>1
      <4> HIDE DEF k
      <4>5. QED
        BY <3>2, <4>2, <4>3, <4>4
    <3>4. k * Frame <= (Len(q) \div Frame) * Frame
      BY <1>1, <3>1, <3>3
    <3> HIDE DEF k
    <3>5. QED
      BY <1>1, <3>1, <3>3, <3>4
  <2>2. CASE ~(HasAudio /\ CutoffPts(i) >= nextPts)
    BY <1>1, <1>2, <2>2 DEF FramesReady
  <2>3. QED
    BY <2>1, <2>2
<1>4. /\ queue' = SubSeq(q, k * Frame + 1, Len(q)) /\ nextPts' = nextPts + k * Frame
      /\ \E out : build' = Stored(build, out) /\ audioCache' = Emplaced(audioCache, out)
  BY DEF DrainAac
<1> HIDE DEF k
<1>5. k * Frame \in Nat
  BY <1>1, <1>3
<1>6. queue' \in Seq(Int) /\ nextPts' \in Int
  <2>1. k * Frame + 1 \in 1 .. (Len(q) + 1) /\ Len(q) \in (k * Frame + 1) - 1 .. Len(q)
    BY <1>1, <1>3, <1>5
  <2>2. SubSeq(q, k * Frame + 1, Len(q)) \in Seq(Int)
    BY <2>1, SubSeqProperties
  <2>3. QED
    BY <1>1, <1>4, <1>5, <2>2
<1>7. QED
  BY <1>4, <1>6 DEF Stored, Emplaced

\* A read moves on within the file.
LEMMA ReadMoves ==
  ASSUME BuilderTypeInv, Reads
  PROVE  /\ pos \in 1 .. Len(Packets) /\ pos \in DOMAIN Packets
         /\ pos' = pos + 1 /\ pos' \in 1 .. (Len(Packets) + 1)
<1>1. Len(Packets) \in Nat /\ DOMAIN Packets = 1 .. Len(Packets)
  BY FileType DEF BuilderTypeInv, TypeOK
<1>2. QED
  BY <1>1 DEF BuilderTypeInv, TypeOK, Reads

-----------------------------------------------------------------------------
(* The invariant holds first, and every step keeps it.                     *)

\* Nothing is built and nothing cached.
LEMMA BuilderInit == Init => BuilderInv
<1> SUFFICES ASSUME Init PROVE BuilderInv
  OBVIOUS
<1>1. file \in Files /\ Len(Packets) \in Nat
  BY FileType DEF Init
<1>2. Cached(segments) = {}
  BY DEF Init, Cached, Empty
<1>3. BuilderTypeInv
  <2>1. DOMAIN video = {} /\ errorsLeft \in 0 .. MaxReadErrors /\ queue \in Seq(Int)
    BY BuilderAssumption DEF Init
  <2>2. DOMAIN build = AudioIndex /\ DOMAIN audioCache = AudioIndex /\ DOMAIN segments = Segment
    BY DEF Init, NoFrames, Empty
  <2>3. pos \in 1 .. (Len(Packets) + 1)
    BY <1>1 DEF Init
  <2>4. seg \in Nat /\ seen \in BOOLEAN /\ phase \in {"idle", "walk", "drain", "finish"}
    BY DEF Init
  <2>5. nextPts \in Int /\ intact \subseteq Cached(segments)
    BY DEF Init
  <2>6. \A n \in DOMAIN video : video[n] \in DOMAIN Packets
    BY <2>1
  <2>7. QED
    BY <1>1, <2>1, <2>2, <2>3, <2>4, <2>5, <2>6 DEF BuilderTypeInv, TypeOK
<1>4. BuildInv /\ CachedInv
  BY <1>2 DEF Init, BuildInv, CachedInv
<1>5. QED
  BY <1>3, <1>4 DEF BuilderInv

\* A step that starts or reads keeps the types.
LEMMA TypeStep == BuilderInv /\ [Next]_vars => BuilderTypeInv'
<1> SUFFICES ASSUME BuilderInv, [Next]_vars PROVE BuilderTypeInv'
  OBVIOUS
<1>1. BuilderTypeInv /\ TypeOK /\ file \in Files
  BY DEF BuilderInv, BuilderTypeInv, TypeOK
<1>2. phase # "idle" => seg \in Listed
  BY DEF BuilderInv, BuildInv
<1>3. queue \in Seq(Int)
  BY <1>1 DEF BuilderTypeInv
<1>4. ASSUME NEW i \in Segment, Start(i) PROVE BuilderTypeInv'
  <2>1. i \in Listed /\ i \in Nat /\ file' = file
    BY <1>4, CacheAssumption DEF Start
  <2>2. SeekPosition(DecodeStartMs(i)) \in 1 .. (Len(Packets) + 1)
    BY <1>1, <2>1, Bounds, SeekIsEarly
  <2>3. AnchorPts(i) \in Int
    <3>1. EncodeStartPts(i) \in Int
      BY <1>1, <2>1, Bounds, BuilderAssumption DEF EncodeStartPts, FrameAt, AudioPts
    <3>2. -Padding \in Int
      BY BuilderAssumption
    <3>3. QED
      BY <3>1, <3>2 DEF AnchorPts
  <2>4. pos' \in (1 .. (Len(Packets) + 1))'
    BY <1>4, <2>1, <2>2 DEF Start, Packets
  <2>5. DOMAIN video' = {} /\ DOMAIN build' = AudioIndex /\ queue' \in Seq(Int)
    BY <1>4 DEF Start, NoFrames
  <2>6. QED
    BY <1>1, <1>4, <2>1, <2>3, <2>4, <2>5
       DEF Start, BuilderTypeInv, TypeOK, Cached, Packets
<1>5. CASE SkipPacket \/ DrainOther
  <2>1. pos' \in 1 .. (Len(Packets) + 1) /\ file' = file
    BY <1>1, <1>5, ReadMoves DEF SkipPacket, DrainOther
  <2>2. QED
    BY <1>1, <1>5, <2>1
       DEF SkipPacket, DrainOther, audioVars, BuilderTypeInv, TypeOK, Packets, Cached
<1>6. CASE TakeVideo
  <2>1. pos' \in 1 .. (Len(Packets) + 1) /\ pos \in DOMAIN Packets /\ file' = file
    BY <1>1, <1>6, ReadMoves DEF TakeVideo
  <2>2. \A n \in DOMAIN video' : video'[n] \in DOMAIN Packets
    <3>1. CASE Timed(pos)
      <4>1. phase = "walk" /\ video' = Append(video, pos)
        BY <1>6, <3>1 DEF TakeVideo
      <4>2. video \in Seq(1 .. (pos - 1))
        BY <4>1 DEF BuilderInv, BuildInv, Walked
      <4>3. \A n \in DOMAIN video' : n \in DOMAIN video \/ video'[n] = pos
        BY <4>1, <4>2
      <4>4. \A n \in DOMAIN video : video'[n] = video[n]
        BY <4>1, <4>2
      <4>5. QED
        BY <1>1, <2>1, <4>3, <4>4 DEF TypeOK
    <3>2. CASE ~Timed(pos)
      BY <1>1, <1>6, <3>2 DEF TakeVideo, TypeOK
    <3>3. QED
      BY <3>1, <3>2
  <2>3. QED
    BY <1>1, <1>6, <2>1, <2>2
       DEF TakeVideo, audioVars, BuilderTypeInv, TypeOK, Packets, Cached
<1>7. CASE ReachBoundary
  <2>1. pos' \in 1 .. (Len(Packets) + 1) /\ file' = file
    BY <1>1, <1>7, ReadMoves DEF ReachBoundary
  <2>2. QED
    BY <1>1, <1>7, <2>1
       DEF ReachBoundary, audioVars, BuilderTypeInv, TypeOK, Packets, Cached
<1>8. CASE WalkAudio
  <2>1. pos' \in 1 .. (Len(Packets) + 1) /\ pos \in DOMAIN Packets /\ file' = file
    BY <1>1, <1>8, ReadMoves DEF WalkAudio
  <2>2. Decode(seg, queue, pos) \in Seq(Int) /\ seg \in Listed
    BY <1>1, <1>2, <1>3, <1>8, <2>1, DecodeType DEF WalkAudio
  <2>3. /\ queue' \in Seq(Int) /\ nextPts' \in Int
        /\ DOMAIN build' = AudioIndex /\ DOMAIN audioCache' = AudioIndex
    BY <1>1, <1>8, <2>2, DrainType DEF WalkAudio
  <2>4. QED
    BY <1>1, <1>8, <2>1, <2>3
       DEF WalkAudio, BuilderTypeInv, TypeOK, Packets, Cached
<1>9. CASE DrainAudio
  <2>1. pos' \in 1 .. (Len(Packets) + 1) /\ pos \in DOMAIN Packets /\ file' = file
    BY <1>1, <1>9, ReadMoves DEF DrainAudio
  <2>2. Decode(seg, queue, pos) \in Seq(Int) /\ seg \in Listed
    BY <1>1, <1>2, <1>3, <1>9, <2>1, DecodeType DEF DrainAudio
  <2>3. /\ queue' \in Seq(Int) /\ nextPts' \in Int
        /\ DOMAIN build' = AudioIndex /\ DOMAIN audioCache' = AudioIndex
    <3>1. CASE DrainAac(seg, queue)
      BY <1>1, <1>3, <2>2, <3>1, DrainType
    <3>2. CASE queue' = Decode(seg, queue, pos) /\ UNCHANGED <<nextPts, build, audioCache>>
      BY <1>1, <2>2, <3>2 DEF TypeOK
    <3>3. QED
      BY <1>9, <3>1, <3>2 DEF DrainAudio
  <2>4. phase' \in {"drain", "finish"}
    BY <1>9 DEF DrainAudio
  <2>5. QED
    BY <1>1, <1>9, <2>1, <2>3, <2>4
       DEF DrainAudio, BuilderTypeInv, TypeOK, Packets, Cached
<1>10. CASE ReadEnds
  <2>1. seg \in Listed
    BY <1>2, <1>10 DEF ReadEnds
  <2>2. /\ queue' \in Seq(Int) /\ nextPts' \in Int
        /\ DOMAIN build' = AudioIndex /\ DOMAIN audioCache' = AudioIndex
    BY <1>1, <1>3, <1>10, <2>1, DrainType DEF ReadEnds
  <2>3. errorsLeft' \in 0 .. MaxReadErrors
    BY <1>1, <1>10, BuilderAssumption DEF ReadEnds, TypeOK
  <2>4. QED
    BY <1>1, <1>10, <2>2, <2>3 DEF ReadEnds, BuilderTypeInv, TypeOK, Packets, Cached
<1>11. CASE Finish
  <2>1. DOMAIN segments' = Segment /\ intact' \subseteq Cached(segments)'
    BY <1>1, <1>11 DEF Finish, Insert, TypeOK, Cached
  <2>2. DOMAIN build' = AudioIndex /\ DOMAIN audioCache' = AudioIndex
    BY <1>11 DEF Finish, EvictAudio, NoFrames
  <2>3. DOMAIN video' = {}
    BY <1>11 DEF Finish
  <2>4. QED
    BY <1>1, <1>11, <2>1, <2>2, <2>3 DEF Finish, BuilderTypeInv, TypeOK, Packets
<1>12. CASE UNCHANGED vars
  BY <1>1, <1>12 DEF vars, BuilderTypeInv, TypeOK, Packets, Cached
<1>13. QED
  BY <1>4, <1>5, <1>6, <1>7, <1>8, <1>9, <1>10, <1>11, <1>12 DEF Next

\* The walk takes the video of the segment, and stops behind it.
LEMMA BuildStep == BuilderInv /\ [Next]_vars => BuildInv'
<1> SUFFICES ASSUME BuilderInv, [Next]_vars PROVE BuildInv'
  OBVIOUS
<1>1. BuilderTypeInv /\ file \in Files /\ file \in File /\ Len(Packets) \in Nat
  BY FileType DEF BuilderInv, BuilderTypeInv, TypeOK
<1>2. phase # "idle" =>
        /\ seg \in Listed /\ StartMs(seg) \in Nat /\ EndMs(seg) \in Nat
        /\ phase = "walk" =>
             /\ seen <=> video # <<>>
             /\ Walked(file, video, StartMs(seg), EndMs(seg), pos)
        /\ phase \in {"drain", "finish"} => \E u \in Nat :
             /\ Walked(file, video, StartMs(seg), EndMs(seg), u)
             /\ failed \/ StoppedAt(file, EndMs(seg), u)
  BY <1>1, Bounds DEF BuilderInv, BuildInv
<1>3. ASSUME UNCHANGED <<file, seg>>
      PROVE  Listed' = Listed /\ StartMs(seg)' = StartMs(seg) /\ EndMs(seg)' = EndMs(seg)
  BY <1>3 DEF Listed, StartMs, EndMs
<1>4. ASSUME NEW i \in Segment, Start(i) PROVE BuildInv'
  <2> DEFINE p == SeekPosition(DecodeStartMs(i))
  <2>1. i \in Listed /\ seg' = i /\ file' = file /\ pos' = p /\ video' = <<>>
    BY <1>4 DEF Start
  <2>2. /\ StartMs(i) \in Nat /\ DecodeStartMs(i) \in Nat
        /\ DecodeStartMs(i) <= StartMs(i)
    BY <1>1, <2>1, Bounds
  <2>3. p \in 1 .. (Len(Packets) + 1) /\ \A q \in 1 .. (p - 1) : ~KeyAt(file, q, DecodeStartMs(i))
    BY <1>1, <2>2, SeekIsEarly
  <2> HIDE DEF p
  <2>4. ASSUME NEW q \in 1 .. (p - 1) PROVE ~KeyAt(file, q, StartMs(i))
    <3> SUFFICES ASSUME KeyAt(file, q, StartMs(i)) PROVE FALSE
      OBVIOUS
    <3>1. q \in 1 .. Len(Packets)
      BY <1>1, <2>3
    <3>2. Packets[q] \in [track : {"video", "audio", "subtitle"}, key : BOOLEAN,
                          t : Nat \cup {NoTime}, at : Nat, n : Nat]
      BY <1>1, <3>1, FileType, ElementIn
    <3>3. file.packets[q].t \in Nat
      BY <3>2 DEF KeyAt, VideoAt, Packets
    <3>4. KeyAt(file, q, DecodeStartMs(i))
      BY <2>2, <3>3 DEF KeyAt
    <3>5. QED
      BY <2>3, <3>4
  <2>5. Walked(file, <<>>, StartMs(i), EndMs(i), p)
    BY <1>1, <2>3, <2>4 DEF Walked, Packets
  <2>6. Listed' = Listed /\ StartMs(seg)' = StartMs(i) /\ EndMs(seg)' = EndMs(i)
    BY <2>1 DEF Listed, StartMs, EndMs
  <2>7. phase' = "walk" /\ seen' = FALSE
    BY <1>4 DEF Start
  <2>8. QED
    BY <2>1, <2>5, <2>6, <2>7 DEF BuildInv
<1>5. ASSUME phase = "walk", Reads, UNCHANGED <<file, seg, phase, seen, video>>,
             ~VideoAt(file, pos) \/ (video = <<>> /\ ~KeyAt(file, pos, StartMs(seg)))
      PROVE  BuildInv'
  <2>1. pos \in 1 .. Len(file.packets) /\ pos' = pos + 1
    BY <1>1, <1>5, ReadMoves DEF Packets
  <2>2. Walked(file, video, StartMs(seg), EndMs(seg), pos + 1)
    BY <1>1, <1>2, <1>5, <2>1, WalkSkips
  <2>3. QED
    BY <1>2, <1>3, <1>5, <2>1, <2>2 DEF BuildInv
<1>6. CASE SkipPacket
  <2>1. ~VideoAt(file, pos) \/ (video = <<>> /\ ~KeyAt(file, pos, StartMs(seg)))
    BY <1>2, <1>6, PacketTests DEF SkipPacket
  <2>2. QED
    BY <1>5, <1>6, <2>1 DEF SkipPacket
<1>7. CASE TakeVideo
  <2>1. CASE Timed(pos)
    <3>1. VideoAt(file, pos) /\ ~KeyAt(file, pos, EndMs(seg))
      BY <1>7, <2>1, PacketTests DEF TakeVideo
    <3>2. video # <<>> \/ KeyAt(file, pos, StartMs(seg))
      BY <1>2, <1>7, PacketTests DEF TakeVideo
    <3>3. pos \in 1 .. Len(file.packets) /\ pos' = pos + 1
      BY <1>1, <1>7, ReadMoves DEF Packets, TakeVideo
    <3>4. Walked(file, Append(video, pos), StartMs(seg), EndMs(seg), pos + 1)
      BY <1>1, <1>2, <1>7, <3>1, <3>2, <3>3, WalkTakes DEF TakeVideo
    <3>5. Append(video, pos) # <<>>
      <4>1. video \in Seq(1 .. (pos - 1))
        BY <1>2, <1>7 DEF TakeVideo, Walked
      <4>2. QED
        BY <4>1
    <3>6. /\ UNCHANGED <<file, seg, phase>> /\ seen' = TRUE /\ phase = "walk"
          /\ video' = Append(video, pos)
      BY <1>7, <2>1 DEF TakeVideo
    <3>7. QED
      BY <1>2, <1>3, <3>3, <3>4, <3>5, <3>6 DEF BuildInv
  <2>2. CASE ~Timed(pos)
    <3>1. ~VideoAt(file, pos)
      BY <2>2, PacketTests
    <3>2. seen
      BY <1>7, <2>2 DEF TakeVideo, Opens
    <3>3. QED
      BY <1>5, <1>7, <2>2, <3>1, <3>2, <1>1 DEF TakeVideo, BuilderTypeInv, TypeOK
  <2>3. QED
    BY <2>1, <2>2
<1>8. CASE ReachBoundary
  <2>1. KeyAt(file, pos, EndMs(seg))
    BY <1>8, PacketTests DEF ReachBoundary
  <2>2. pos \in 1 .. Len(file.packets) /\ pos \in Nat
    BY <1>1, <1>8, ReadMoves DEF Packets, ReachBoundary
  <2>3. Walked(file, video, StartMs(seg), EndMs(seg), pos) /\ StoppedAt(file, EndMs(seg), pos)
    BY <1>2, <1>8, <2>1, <2>2 DEF ReachBoundary, StoppedAt
  <2>4. /\ UNCHANGED <<file, seg, video>> /\ phase = "walk" /\ phase' \in {"drain", "finish"}
    BY <1>8 DEF ReachBoundary
  <2>5. QED
    BY <1>2, <1>3, <2>2, <2>3, <2>4 DEF BuildInv
<1>9. CASE WalkAudio
  <2>1. ~VideoAt(file, pos)
    BY <1>9 DEF WalkAudio, IsAudio, VideoAt, Packets
  <2>2. QED
    BY <1>5, <1>9, <2>1 DEF WalkAudio
<1>10. CASE DrainOther \/ DrainAudio
  <2>1. /\ UNCHANGED <<file, seg, video, failed>>
        /\ phase = "drain" /\ phase' \in {"drain", "finish"}
    BY <1>10 DEF DrainOther, DrainAudio
  <2>2. QED
    BY <1>2, <1>3, <2>1 DEF BuildInv
<1>11. CASE ReadEnds
  <2>1. UNCHANGED <<file, seg, video>> /\ phase \in {"walk", "drain"} /\ phase' = "finish"
    BY <1>11 DEF ReadEnds
  <2>2. failed' \/ (pos > Len(Packets) /\ failed' = failed)
    BY <1>11 DEF ReadEnds
  <2>3. CASE phase = "walk"
    <3>1. Walked(file, video, StartMs(seg), EndMs(seg), pos) /\ pos \in Nat
      BY <1>1, <1>2, <2>3 DEF BuilderTypeInv, TypeOK
    <3>2. failed' \/ StoppedAt(file, EndMs(seg), pos)
      BY <1>1, <2>2 DEF BuilderTypeInv, TypeOK, StoppedAt, Packets
    <3>3. QED
      BY <1>2, <1>3, <2>1, <3>1, <3>2 DEF BuildInv
  <2>4. CASE phase = "drain"
    <3>1. PICK u \in Nat : /\ Walked(file, video, StartMs(seg), EndMs(seg), u)
                           /\ failed \/ StoppedAt(file, EndMs(seg), u)
      BY <1>2, <2>4
    <3>2. failed' \/ StoppedAt(file, EndMs(seg), u)
      BY <2>2, <3>1
    <3>3. \E n \in Nat : /\ Walked(file, video, StartMs(seg), EndMs(seg), n)
                         /\ failed' \/ StoppedAt(file, EndMs(seg), n)
      BY <3>1, <3>2
    <3>4. seg' \in Listed'
      BY <1>2, <1>3, <2>1
    <3>5. QED
      BY <1>3, <2>1, <3>3, <3>4 DEF BuildInv
  <2>5. QED
    BY <2>1, <2>3, <2>4
<1>12. CASE Finish
  BY <1>12 DEF Finish, BuildInv
<1>13. CASE UNCHANGED vars
  <2>1. UNCHANGED <<file, seg, phase, seen, video, pos, failed>>
    BY <1>13 DEF vars
  <2>2. QED
    BY <1>2, <1>3, <2>1 DEF BuildInv
<1>14. QED
  BY <1>4, <1>6, <1>7, <1>8, <1>9, <1>10, <1>11, <1>12, <1>13 DEF Next

\* What is in the cache after an insertion was there before, or is what was
\* inserted.
LEMMA InsertKeeps ==
  ASSUME NEW c, NEW i, NEW body, NEW j \in Cached(Insert(c, i, body))
  PROVE  IF j = i THEN Insert(c, i, body)[j] = body
                  ELSE j \in Cached(c) /\ Insert(c, i, body)[j] = c[j]
BY DEF Insert, Kept, Cached

\* A build only caches what its walk took.
LEMMA CachedStep == BuilderInv /\ [Next]_vars => CachedInv'
<1> SUFFICES ASSUME BuilderInv, [Next]_vars PROVE CachedInv'
  OBVIOUS
<1>1. CachedInv
  BY DEF BuilderInv
<1>2. ASSUME UNCHANGED <<file, segments, intact>> PROVE CachedInv'
  <2>1. /\ Cached(segments)' = Cached(segments) /\ Listed' = Listed
        /\ \A i : /\ VideoOf(i)' = VideoOf(i)
                  /\ StartMs(i)' = StartMs(i) /\ EndMs(i)' = EndMs(i)
    BY <1>2 DEF Cached, Listed, VideoOf, StartMs, EndMs
  <2>2. QED
    BY <1>1, <1>2, <2>1 DEF CachedInv
<1>3. CASE Finish /\ video # <<>>
  <2> DEFINE body == [video |-> video, audio |-> OutputAudio]
  <2>1. /\ phase = "finish" /\ UNCHANGED <<file, seg>>
        /\ segments' = Insert(segments, seg, body)
        /\ intact' = {i \in Cached(segments)' : IF i = seg THEN ~failed ELSE i \in intact}
    BY <1>3 DEF Finish
  <2>2. seg \in Listed
    BY <2>1 DEF BuilderInv, BuildInv
  <2>3. PICK u \in Nat : /\ Walked(file, video, StartMs(seg), EndMs(seg), u)
                         /\ failed \/ StoppedAt(file, EndMs(seg), u)
    BY <2>1 DEF BuilderInv, BuildInv
  <2>4. body.video = video
    OBVIOUS
  <2> HIDE DEF body
  <2>5. ASSUME NEW i \in Cached(segments')
        PROVE  /\ i \in Listed /\ segments'[i].video # <<>>
               /\ \E n \in Nat :
                    /\ Walked(file, segments'[i].video, StartMs(i), EndMs(i), n)
                    /\ i \in intact' => StoppedAt(file, EndMs(i), n)
    <3>1. CASE i = seg
      <4>1. i \in Cached(Insert(segments, seg, body))
        BY <2>1, <2>5
      <4>2. segments'[i].video = video
        BY <2>1, <2>4, <3>1, <4>1, InsertKeeps
      <4>3. i \in intact' => StoppedAt(file, EndMs(seg), u)
        BY <2>1, <2>3, <3>1
      <4>4. QED
        BY <1>3, <2>2, <2>3, <3>1, <4>2, <4>3
    <3>2. CASE i # seg
      <4>1. i \in Cached(segments) /\ segments'[i] = segments[i]
        BY <2>1, <2>5, <3>2, InsertKeeps
      <4>2. i \in intact' => i \in intact
        BY <2>1, <3>2
      <4>3. QED
        BY <1>1, <4>1, <4>2 DEF CachedInv, VideoOf
    <3>3. QED
      BY <3>1, <3>2
  <2>6. /\ Cached(segments)' = Cached(segments') /\ Listed' = Listed
        /\ \A i : /\ VideoOf(i)' = segments'[i].video
                  /\ StartMs(i)' = StartMs(i) /\ EndMs(i)' = EndMs(i)
    BY <2>1 DEF Cached, Listed, VideoOf, StartMs, EndMs
  <2>7. QED
    BY <2>1, <2>5, <2>6 DEF CachedInv
<1>4. CASE Finish /\ video = <<>>
  BY <1>2, <1>4 DEF Finish
<1>5. CASE \E i \in Segment : Start(i)
  BY <1>2, <1>5 DEF Start
<1>6. CASE SkipPacket \/ TakeVideo \/ ReachBoundary \/ WalkAudio \/ DrainOther
             \/ DrainAudio \/ ReadEnds
  BY <1>2, <1>6
     DEF SkipPacket, TakeVideo, ReachBoundary, WalkAudio, DrainOther, DrainAudio, ReadEnds
<1>7. CASE UNCHANGED vars
  BY <1>2, <1>7 DEF vars
<1>8. QED
  BY <1>3, <1>4, <1>5, <1>6, <1>7 DEF Next

\* The invariant holds throughout.
LEMMA BuilderAlways == Spec => []BuilderInv
<1>1. BuilderInv /\ [Next]_vars => BuilderInv'
  BY TypeStep, BuildStep, CachedStep DEF BuilderInv
<1>2. QED
  BY <1>1, BuilderInit, PTL DEF Spec

-----------------------------------------------------------------------------
(* Theorems.                                                               *)

\* The variables of a build keep their types, for every file.
THEOREM TypeCorrect == Spec => []TypeOK
<1>1. BuilderInv => TypeOK
  BY DEF BuilderInv, BuilderTypeInv
<1>2. QED
  BY <1>1, BuilderAlways, PTL

\* Whatever is cached can be decoded from its start (Session.cpp:315-326), even
\* what a failed read cut short.
THEOREM SegmentsCanBeDecoded == Spec => []SegmentsStartWithKeyframe
<1>1. ASSUME BuilderInv PROVE SegmentsStartWithKeyframe
  <2> SUFFICES ASSUME NEW i \in Cached(segments)
               PROVE  /\ VideoOf(i) # <<>>
                      /\ IsKey(VideoOf(i)[1])
                      /\ Packets[VideoOf(i)[1]].t >= StartMs(i)
                      /\ \A n \in DOMAIN VideoOf(i) :
                           IsKey(VideoOf(i)[n]) => Packets[VideoOf(i)[n]].t < EndMs(i)
    BY DEF SegmentsStartWithKeyframe
  <2> DEFINE v == VideoOf(i)
  <2>1. i \in Listed /\ v # <<>> /\ file \in Files /\ file \in File
    BY <1>1, FileType DEF BuilderInv, CachedInv, BuilderTypeInv, TypeOK
  <2>2. PICK u \in Nat : Walked(file, v, StartMs(i), EndMs(i), u)
    BY <1>1 DEF BuilderInv, CachedInv
  <2>3. EndMs(i) \in Nat
    BY <2>1, Bounds
  <2> HIDE DEF v
  <2>4. /\ u \in Nat /\ Len(v) \in Nat /\ 1 <= Len(v)
        /\ \A n \in 1 .. Len(v) :
             /\ v[n] \in Nat /\ v[n] < u /\ 1 <= v[n]
             /\ v[1] <= v[n] /\ v[n] <= v[Len(v)]
    BY <2>1, <2>2, WalkRange
  <2>5. KeyAt(file, v[1], StartMs(i))
    BY <2>1, <2>2 DEF Walked
  <2>6. ASSUME NEW n \in DOMAIN v, IsKey(v[n]) PROVE Packets[v[n]].t < EndMs(i)
    <3>1. n \in 1 .. Len(v)
      BY <2>2 DEF Walked
    <3>2. VideoAt(file, v[n]) /\ ~KeyAt(file, v[n], EndMs(i))
      <4>1. v[n] \in v[1] .. (u - 1) /\ 1 \in 1 .. Len(v)
        BY <2>4, <3>1
      <4>2. QED
        BY <2>1, <2>2, <3>1, <4>1 DEF Walked
    <3>3. ~(Packets[v[n]].t >= EndMs(i)) /\ Packets[v[n]].t # NoTime
      BY <2>6, <3>2 DEF IsKey, KeyAt, VideoAt, Packets
    <3>4. v[n] \in 1 .. Len(Packets)
      BY <2>2, <2>4, <3>1 DEF Walked, Packets
    <3>5. Packets[v[n]] \in [track : {"video", "audio", "subtitle"}, key : BOOLEAN,
                             t : Nat \cup {NoTime}, at : Nat, n : Nat]
      BY <2>1, <3>4, FileType, ElementIn
    <3>6. Packets[v[n]].t \in Nat
      BY <3>3, <3>5
    <3>7. QED
      BY <2>3, <3>3, <3>6
  <2>7. QED
    BY <2>1, <2>5, <2>6 DEF KeyAt, VideoAt, IsKey, IsVideo, Packets, v
<1>2. QED
  BY <1>1, BuilderAlways, PTL

\* Neighbouring segments leave out no video and hold none twice, for every
\* file and whatever was built before, between and after (Session.cpp:329).
THEOREM SegmentsTile == Spec => []SegmentsTileTheVideo
<1>1. ASSUME BuilderInv PROVE SegmentsTileTheVideo
  <2> SUFFICES ASSUME NEW i \in intact, NEW j \in intact, j = i + 1
               PROVE  LET both == VideoOf(i) \o VideoOf(j) IN
                      /\ \A n \in 2 .. Len(both) : both[n - 1] < both[n]
                      /\ Members(both) =
                           {p \in both[1] .. both[Len(both)] : IsVideo(p) /\ Timed(p)}
    BY DEF SegmentsTileTheVideo
  <2> DEFINE both == VideoOf(i) \o VideoOf(j)
  <2>1. i \in Cached(segments) /\ j \in Cached(segments) /\ file \in Files /\ file \in File
    BY <1>1, FileType DEF BuilderInv, BuilderTypeInv, TypeOK
  <2>2. /\ i \in Listed /\ j \in Listed /\ VideoOf(i) # <<>> /\ VideoOf(j) # <<>>
    BY <1>1, <2>1 DEF BuilderInv, CachedInv
  <2>3. PICK a \in Nat : /\ Walked(file, VideoOf(i), StartMs(i), EndMs(i), a)
                         /\ StoppedAt(file, EndMs(i), a)
    BY <1>1, <2>1 DEF BuilderInv, CachedInv
  <2>4. PICK b \in Nat : Walked(file, VideoOf(j), StartMs(j), EndMs(j), b)
    BY <1>1, <2>1 DEF BuilderInv, CachedInv
  <2>5. /\ StartMs(i) \in Nat /\ EndMs(i) \in Nat /\ EndMs(j) \in Nat
        /\ StartMs(i) <= EndMs(i)
    BY <2>1, <2>2, Bounds
  <2>6. StartMs(j) = EndMs(i)
    <3>1. i \in Int /\ j + 1 = i + 2
      BY <2>2 DEF Listed
    <3>2. QED
      BY <3>1 DEF StartMs, EndMs
  <2>7. Walked(file, VideoOf(j), EndMs(i), EndMs(j), b)
    BY <2>4, <2>6
  <2>8. /\ \A n \in 2 .. Len(both) : both[n - 1] < both[n]
        /\ {both[n] : n \in DOMAIN both} =
             {p \in both[1] .. both[Len(both)] : VideoAt(file, p)}
    BY <2>1, <2>2, <2>3, <2>5, <2>7, WalksTile
  <2> HIDE DEF both
  <2>9. {p \in both[1] .. both[Len(both)] : VideoAt(file, p)} =
          {p \in both[1] .. both[Len(both)] : IsVideo(p) /\ Timed(p)}
    BY DEF VideoAt, IsVideo, Timed, Packets
  <2>10. QED
    BY <2>8, <2>9 DEF Members, both
<1>2. QED
  BY <1>1, BuilderAlways, PTL
=============================================================================
