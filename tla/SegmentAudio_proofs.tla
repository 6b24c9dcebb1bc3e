------------------------- MODULE SegmentAudio_proofs -------------------------
(***************************************************************************)
(* What SegmentBuilder promises of the audio of a segment: that its range  *)
(* of AAC frames is complete, that they are made of the file alone, and    *)
(* that a segment goes on where the one before ended.                      *)
(***************************************************************************)
EXTENDS SegmentBuilder_proofs, FiniteSetTheorems

-----------------------------------------------------------------------------
(* Numbers.                                                                *)

\* Induction on the naturals, for a property given as the set that has it.
LEMMA InductionOnSet ==
  ASSUME NEW T, 0 \in T, \A n \in Nat : n \in T => n + 1 \in T
  PROVE  \A n \in Nat : n \in T
<1> DEFINE Missing == {n \in Nat : n \notin T}
<1>1. SUFFICES ASSUME Missing # {} PROVE FALSE
  OBVIOUS
<1>2. Missing \subseteq Nat
  OBVIOUS
<1> HIDE DEF Missing
<1>3. PICK m \in Missing : \A n \in Missing : m <= n
  BY <1>1, <1>2, LeastElement
<1>4. m \in Nat /\ m \notin T /\ m # 0
  BY <1>3 DEF Missing
<1>5. m - 1 \in Nat /\ m - 1 < m /\ (m - 1) + 1 = m
  BY <1>4
<1>6. m - 1 \in Missing
  BY <1>4, <1>5 DEF Missing
<1>7. QED
  BY <1>3, <1>5, <1>6

\* Integer division.
LEMMA Division ==
  ASSUME NEW x \in Int, NEW d \in Nat \ {0}
  PROVE  /\ x \div d \in Int
         /\ (x \div d) * d <= x /\ x < (x \div d) * d + d
OBVIOUS

\* Products keep the order.
LEMMA ProductOrder ==
  ASSUME NEW m \in Int, NEW n \in Int, NEW d \in Nat \ {0}
  PROVE  /\ m * d \in Int
         /\ m <= n => m * d <= n * d
         /\ m * d < n * d + d => m <= n
         /\ (m + n) * d = m * d + n * d /\ (m - n) * d = m * d - n * d
         /\ (m + 1) * d = m * d + d /\ (m - 1) * d = m * d - d
OBVIOUS

\* Whole frames are counted by division.
LEMMA DivideWhole ==
  ASSUME NEW m \in Int, NEW x \in Int, NEW d \in Nat \ {0}
  PROVE  /\ m * d <= x => m <= x \div d
         /\ (m * d) \div d = m
         /\ (x + m * d) \div d = (x \div d) + m
<1>1. /\ x \div d \in Int /\ (x \div d) * d <= x /\ x < (x \div d) * d + d
  BY Division
<1>2. ASSUME m * d <= x PROVE m <= x \div d
  <2>1. m * d < (x \div d) * d + d
    BY <1>1, <1>2, ProductOrder
  <2>2. QED
    BY <1>1, <2>1, ProductOrder
<1>3. ASSUME NEW y \in Int, NEW r \in 0 .. (d - 1) PROVE (y * d + r) \div d = y
  <2> DEFINE z == (y * d + r) \div d
  <2>1. y * d \in Int /\ y * d + r \in Int
    BY ProductOrder
  <2>2. z \in Int /\ z * d <= y * d + r /\ y * d + r < z * d + d
    BY <2>1, Division
  <2> HIDE DEF z
  <2>3. z * d \in Int
    BY <2>2, ProductOrder
  <2>4. z * d < y * d + d /\ y * d < z * d + d
    BY <2>1, <2>2, <2>3
  <2>5. z <= y /\ y <= z
    BY <2>2, <2>4, ProductOrder
  <2>6. z = y
    BY <2>2, <2>5
  <2>7. QED
    BY <2>6 DEF z
<1>4. (m * d) \div d = m
  <2>1. m * d + 0 = m * d /\ 0 \in 0 .. (d - 1)
    BY ProductOrder
  <2>2. QED
    BY <1>3, <2>1
<1>5. (x + m * d) \div d = (x \div d) + m
  <2> DEFINE q == x \div d
             r == x - q * d
  <2>1. q \in Int /\ q * d \in Int /\ m * d \in Int /\ (q + m) * d = q * d + m * d
    BY <1>1, ProductOrder
  <2>2. r \in 0 .. (d - 1)
    BY <1>1, <2>1
  <2>3. x + m * d = (q + m) * d + r /\ q + m \in Int
    BY <1>1, <2>1
  <2> HIDE DEF q, r
  <2>4. (x + m * d) \div d = q + m
    BY <1>3, <2>2, <2>3
  <2>5. QED
    BY <2>4 DEF q
<1>6. QED
  BY <1>2, <1>4, <1>5

-----------------------------------------------------------------------------
(* The samples of a file, and windows on them.                             *)

\* The recursion behind SamplesUpTo, up to packet m.
Gathers(g, i, m) ==
  g = [p \in 0 .. m |->
         IF p = 0 THEN <<>>
         ELSE IF AudioRead(i, p) THEN Decode(i, g[p - 1], p)
         ELSE g[p - 1]]

\* It has a solution.
LEMMA GatherExists ==
  ASSUME NEW i, NEW m \in Nat
  PROVE  \E g : Gathers(g, i, m)
<1> DEFINE T == {n \in Nat : \E g : Gathers(g, i, n)}
<1>1. 0 \in T
  <2>1. Gathers([p \in 0 .. 0 |-> <<>>], i, 0)
    BY DEF Gathers
  <2>2. QED
    BY <2>1
<1>2. ASSUME NEW n \in Nat, n \in T PROVE n + 1 \in T
  <2>1. PICK g : Gathers(g, i, n)
    BY <1>2
  <2> DEFINE last == IF AudioRead(i, n + 1) THEN Decode(i, g[n], n + 1) ELSE g[n]
             h == [p \in 0 .. (n + 1) |-> IF p = n + 1 THEN last ELSE g[p]]
  <2>2. h[n + 1] = last /\ \A p \in 0 .. n : h[p] = g[p]
    OBVIOUS
  <2>3. \A p \in 1 .. (n + 1) : p - 1 \in 0 .. n /\ h[p - 1] = g[p - 1]
    BY <2>2
  <2>4. h = [p \in 0 .. (n + 1) |-> h[p]]
    OBVIOUS
  <2>5. \A p \in 0 .. n : g[p] = IF p = 0 THEN <<>>
                                 ELSE IF AudioRead(i, p) THEN Decode(i, g[p - 1], p)
                                 ELSE g[p - 1]
    BY <2>1 DEF Gathers
  <2>6. h[n + 1] = IF AudioRead(i, n + 1) THEN Decode(i, g[(n + 1) - 1], n + 1)
                   ELSE g[(n + 1) - 1]
    BY <2>2
  <2> HIDE DEF h, last
  <2>7. ASSUME NEW p \in 0 .. (n + 1)
        PROVE  h[p] = IF p = 0 THEN <<>>
                      ELSE IF AudioRead(i, p) THEN Decode(i, h[p - 1], p)
                      ELSE h[p - 1]
    <3>1. CASE p = n + 1
      <4>1. p # 0 /\ h[p - 1] = g[(n + 1) - 1]
        BY <2>3, <3>1
      <4>2. QED
        BY <2>6, <3>1, <4>1
    <3>2. CASE p = 0
      BY <2>2, <2>5, <3>2
    <3>3. CASE p \in 1 .. n
      <4>1. h[p] = g[p] /\ h[p - 1] = g[p - 1] /\ p # 0 /\ p \in 0 .. n
        BY <2>2, <2>3, <3>3
      <4>2. QED
        BY <2>5, <4>1
    <3>4. QED
      BY <3>1, <3>2, <3>3
  <2>8. Gathers(h, i, n + 1)
    BY <2>4, <2>7 DEF Gathers
  <2>9. QED
    BY <2>8
<1>3. \A n \in Nat : n \in T
  <2> HIDE DEF T
  <2>1. QED
    BY <1>1, <1>2, InductionOnSet
<1>4. QED
  BY <1>3

\* What a packet of audio decodes to.
LEMMA DecodedSamples ==
  ASSUME file \in Files, NEW p \in 1 .. Len(Packets)
  PROVE  /\ Decoded(p) \in Seq(Int) /\ Len(Decoded(p)) = Packets[p].n
         /\ Packets[p].n \in Nat /\ Packets[p].at \in Nat /\ AudioPts(Packets[p].at) \in Int
         /\ \A m \in 1 .. Packets[p].n : Decoded(p)[m] = AudioPts(Packets[p].at) + m - 1
<1>1. Packets[p] \in [track : {"video", "audio", "subtitle"}, key : BOOLEAN,
                      t : Nat \cup {NoTime}, at : Nat, n : Nat]
  BY FileType, ElementIn
<1>2. Packets[p].at \in Nat /\ Packets[p].n \in Nat
  BY <1>1
<1>3. AudioPts(Packets[p].at) \in Int
  BY <1>2, BuilderAssumption DEF AudioPts
<1>4. \A n \in 1 .. Packets[p].n : AudioPts(Packets[p].at) + n - 1 \in Int
  BY <1>2, <1>3
<1>5. Decoded(p) \in Seq(Int) /\ Len(Decoded(p)) = Packets[p].n
  BY <1>2, <1>4 DEF Decoded
<1>6. QED
  BY <1>2, <1>3, <1>5 DEF Decoded

\* Packet p adds samples to those of segment i.
Adds(i, p) == AudioRead(i, p) /\ AudioMs(i, p) >= DecodeStartMs(i)

\* SamplesUpTo goes from packet to packet.
LEMMA Gathered ==
  ASSUME file \in Files, NEW i
  PROVE  /\ SamplesUpTo(i)[0] = <<>>
         /\ \A p \in 1 .. Len(Packets) :
              SamplesUpTo(i)[p] = IF AudioRead(i, p) THEN Decode(i, SamplesUpTo(i)[p - 1], p)
                                  ELSE SamplesUpTo(i)[p - 1]
         /\ \A p \in 0 .. Len(Packets) : SamplesUpTo(i)[p] \in Seq(Int)
<1> DEFINE g == SamplesUpTo(i)
           N == Len(Packets)
<1>1. N \in Nat
  BY FileType
<1>2. Gathers(g, i, N)
  <2>1. \E h : Gathers(h, i, N)
    BY <1>1, GatherExists
  <2>2. g = CHOOSE h : Gathers(h, i, N)
    BY DEF SamplesUpTo, Gathers
  <2> HIDE DEF g
  <2>3. QED
    BY <2>1, <2>2
<1> HIDE DEF g
<1>3. \A p \in 0 .. N : g[p] = IF p = 0 THEN <<>>
                               ELSE IF AudioRead(i, p) THEN Decode(i, g[p - 1], p)
                               ELSE g[p - 1]
  BY <1>2 DEF Gathers
<1>4. g[0] = <<>>
  BY <1>1, <1>3
<1>5. \A p \in 1 .. N : g[p] = IF AudioRead(i, p) THEN Decode(i, g[p - 1], p) ELSE g[p - 1]
  BY <1>1, <1>3
<1>6. \A p \in 0 .. N : g[p] \in Seq(Int)
  <2> DEFINE T == {n \in Nat : n <= N => g[n] \in Seq(Int)}
  <2>1. 0 \in T
    <3>1. <<>> \in Seq(Int)
      OBVIOUS
    <3>2. g[0] \in Seq(Int)
      BY <1>4, <3>1
    <3>3. QED
      BY <3>2
  <2>2. ASSUME NEW n \in Nat, n \in T PROVE n + 1 \in T
    <3>1. SUFFICES ASSUME n + 1 <= N PROVE g[n + 1] \in Seq(Int)
      OBVIOUS
    <3>2. n + 1 \in 1 .. N /\ (n + 1) - 1 = n /\ g[n] \in Seq(Int)
      BY <1>1, <2>2, <3>1
    <3>3. n + 1 \in DOMAIN Packets
      BY <3>2, FileType
    <3>4. Decode(i, g[n], n + 1) \in Seq(Int)
      BY <3>2, <3>3, DecodeType
    <3>5. QED
      BY <1>5, <3>2, <3>4
  <2>3. \A n \in Nat : n \in T
    <3> HIDE DEF T
    <3>1. QED
      BY <2>1, <2>2, InductionOnSet
  <2>4. QED
    BY <2>3
<1>7. QED
  BY <1>4, <1>5, <1>6 DEF g

\* s is a prefix of z.
IsPrefixOf(s, z) ==
  /\ s \in Seq(Int) /\ z \in Seq(Int) /\ Len(s) <= Len(z)
  /\ \A m \in 1 .. Len(s) : s[m] = z[m]

\* What is appended comes behind.
LEMMA PrefixOfBoth ==
  ASSUME NEW s \in Seq(Int), NEW t \in Seq(Int)
  PROVE  /\ IsPrefixOf(s, s \o t) /\ s \o t \in Seq(Int) /\ Len(s \o t) = Len(s) + Len(t)
         /\ \A m \in 1 .. Len(t) : (s \o t)[Len(s) + m] = t[m]
BY DEF IsPrefixOf

\* Prefixes of prefixes are prefixes.
LEMMA PrefixTrans ==
  ASSUME NEW r, NEW s, NEW t, IsPrefixOf(r, s), IsPrefixOf(s, t)
  PROVE  IsPrefixOf(r, t)
<1>1. Len(r) \in Nat /\ Len(s) \in Nat /\ Len(t) \in Nat
  BY DEF IsPrefixOf
<1>2. QED
  BY <1>1 DEF IsPrefixOf

\* Each packet only adds to the samples.
LEMMA SamplesGrow ==
  ASSUME file \in Files, NEW i, NEW u \in 0 .. Len(Packets), NEW v \in 0 .. Len(Packets), u <= v
  PROVE  IsPrefixOf(SamplesUpTo(i)[u], SamplesUpTo(i)[v])
<1> DEFINE g == SamplesUpTo(i)
           N == Len(Packets)
           T == {n \in Nat : u + n <= N => IsPrefixOf(g[u], g[u + n])}
<1>1. N \in Nat
  BY FileType
<1>2. /\ \A p \in 1 .. N : g[p] = IF AudioRead(i, p) THEN Decode(i, g[p - 1], p) ELSE g[p - 1]
      /\ \A p \in 0 .. N : g[p] \in Seq(Int)
  BY Gathered
<1> HIDE DEF g
<1>3. 0 \in T
  <2>1. g[u] \in Seq(Int) /\ u + 0 = u
    BY <1>1, <1>2
  <2>2. QED
    BY <2>1 DEF IsPrefixOf
<1>4. ASSUME NEW n \in Nat, n \in T PROVE n + 1 \in T
  <2>1. SUFFICES ASSUME u + (n + 1) <= N PROVE IsPrefixOf(g[u], g[u + (n + 1)])
    OBVIOUS
  <2> DEFINE p == u + (n + 1)
  <2>2. p \in 1 .. N /\ p - 1 = u + n /\ p - 1 \in 0 .. N /\ u + n <= N
    BY <1>1, <2>1
  <2>3. IsPrefixOf(g[u], g[p - 1])
    BY <1>4, <2>2
  <2> HIDE DEF p
  <2>4. IsPrefixOf(g[p - 1], g[p])
    <3>1. g[p - 1] \in Seq(Int)
      BY <1>2, <2>2
    <3>2. Decoded(p) \in Seq(Int)
      BY <2>2, DecodedSamples
    <3>3. g[p] = g[p - 1] \/ g[p] = g[p - 1] \o Decoded(p)
      BY <1>2, <2>2 DEF Decode
    <3>4. IsPrefixOf(g[p - 1], g[p - 1])
      BY <3>1 DEF IsPrefixOf
    <3>5. QED
      BY <3>1, <3>2, <3>3, <3>4, PrefixOfBoth
  <2>5. QED
    BY <2>3, <2>4, PrefixTrans DEF p
<1>5. \A n \in Nat : n \in T
  <2> HIDE DEF T
  <2>1. QED
    BY <1>3, <1>4, InductionOnSet
<1>6. v - u \in Nat /\ u + (v - u) = v
  BY <1>1
<1>7. QED
  BY <1>1, <1>5, <1>6 DEF g

\* q holds the samples of z from number `from` + 1 to number `to`.
Window(q, z, from, to) ==
  /\ q \in Seq(Int) /\ z \in Seq(Int)
  /\ from \in Nat /\ to \in Nat /\ from <= to /\ to <= Len(z)
  /\ Len(q) = to - from
  /\ \A m \in 1 .. (to - from) : q[m] = z[from + m]

\* A window on what packets so far give becomes one that ends with the packet's.
LEMMA WindowGrows ==
  ASSUME file \in Files, NEW i, NEW p \in 1 .. Len(Packets), NEW q, NEW from,
         Window(q, SourceSamples(i), from, Len(SamplesUpTo(i)[p - 1]))
  PROVE  LET r == IF AudioRead(i, p) THEN Decode(i, q, p) ELSE q
         IN  Window(r, SourceSamples(i), from, Len(SamplesUpTo(i)[p]))
<1> DEFINE g == SamplesUpTo(i)
           z == SourceSamples(i)
           N == Len(Packets)
           r == IF AudioRead(i, p) THEN Decode(i, q, p) ELSE q
<1>1. N \in Nat /\ p - 1 \in 0 .. N /\ p \in 0 .. N /\ N \in 0 .. N /\ p <= N
  BY FileType
<1>2. IsPrefixOf(g[p], z)
  BY <1>1, SamplesGrow DEF SourceSamples
<1>3. g[p - 1] \in Seq(Int)
  BY <1>1, Gathered
<1>4. g[p] = IF AudioRead(i, p) THEN Decode(i, g[p - 1], p) ELSE g[p - 1]
  BY Gathered
<1>5. Window(q, z, from, Len(g[p - 1]))
  OBVIOUS
<1>6. Decoded(p) \in Seq(Int)
  BY DecodedSamples
<1> HIDE DEF g, z
<1>7. CASE Adds(i, p)
  <2> DEFINE d == Decoded(p)
  <2>1. g[p] = g[p - 1] \o d /\ r = q \o d
    BY <1>4, <1>7 DEF Adds, Decode
  <2> HIDE DEF d, r
  <2>2. d \in Seq(Int)
    BY <1>6 DEF d
  <2> DEFINE a == g[p - 1]
             b == g[p]
  <2>3. a \in Seq(Int) /\ b = a \o d /\ IsPrefixOf(b, z) /\ Window(q, z, from, Len(a))
    BY <1>2, <1>3, <1>5, <2>1
  <2> HIDE DEF a, b
  <2>4. Len(b) = Len(a) + Len(d) /\ \A m \in 1 .. Len(d) : b[Len(a) + m] = d[m]
    BY <2>2, <2>3
  <2>5. q \in Seq(Int) /\ Len(q) = Len(a) - from /\ from \in Nat /\ from <= Len(a)
    BY <2>3 DEF Window
  <2>6. /\ r \in Seq(Int) /\ Len(r) = Len(q) + Len(d)
        /\ \A m \in 1 .. Len(q) : r[m] = q[m]
        /\ \A m \in 1 .. Len(d) : r[Len(q) + m] = d[m]
    <3>1. q \in Seq(Int)
      BY <2>5
    <3>2. QED
      BY <2>1, <2>2, <3>1, PrefixOfBoth DEF IsPrefixOf
  <2>7. Len(a) \in Nat /\ Len(d) \in Nat /\ Len(z) \in Nat /\ z \in Seq(Int) /\ Len(b) <= Len(z)
    BY <2>2, <2>3 DEF IsPrefixOf
  <2>8. ASSUME NEW m \in 1 .. (Len(b) - from) PROVE r[m] = z[from + m]
    <3>1. CASE m \in 1 .. Len(q)
      BY <2>3, <2>5, <2>6, <3>1 DEF Window
    <3>2. CASE m \notin 1 .. Len(q)
      <4> DEFINE k == m - Len(q)
      <4>1. k \in 1 .. Len(d) /\ m = Len(q) + k /\ from + m = Len(a) + k
        BY <2>4, <2>5, <2>7, <3>2
      <4>2. Len(a) + k \in 1 .. Len(b)
        BY <2>4, <2>7, <4>1
      <4> HIDE DEF k
      <4>3. r[m] = d[k] /\ b[Len(a) + k] = d[k]
        BY <2>4, <2>6, <4>1
      <4>4. b[Len(a) + k] = z[Len(a) + k]
        BY <2>3, <4>2 DEF IsPrefixOf
      <4>5. QED
        BY <4>1, <4>3, <4>4
    <3>3. QED
      BY <3>1, <3>2
  <2>9. Window(r, z, from, Len(b))
    BY <2>4, <2>5, <2>6, <2>7, <2>8 DEF Window
  <2>10. QED
    BY <2>9 DEF b, r, z, g
<1>8. CASE ~Adds(i, p)
  <2>1. g[p] = g[p - 1] /\ r = q
    BY <1>4, <1>8 DEF Adds, Decode
  <2>2. QED
    BY <1>5, <2>1 DEF z, g
<1>9. QED
  BY <1>7, <1>8

\* What is left of a window when its front is taken.
LEMMA WindowTaken ==
  ASSUME NEW q, NEW z, NEW from, NEW to, Window(q, z, from, to), NEW n \in 0 .. Len(q)
  PROVE  Window(SubSeq(q, n + 1, Len(q)), z, from + n, to)
<1>1. /\ q \in Seq(Int) /\ from \in Nat /\ to \in Nat /\ from <= to /\ Len(q) = to - from
      /\ Len(q) \in Nat
  BY DEF Window
<1> DEFINE r == SubSeq(q, n + 1, Len(q))
<1>2. /\ r \in Seq(Int) /\ Len(r) = Len(q) - n
      /\ \A m \in 1 .. (Len(q) - n) : r[m] = q[n + m]
  <2>1. r = [m \in 1 .. (Len(q) - n) |-> q[n + m]]
    BY <1>1
  <2>2. \A m \in 1 .. (Len(q) - n) : q[n + m] \in Int
    <3> SUFFICES ASSUME NEW m \in 1 .. (Len(q) - n) PROVE q[n + m] \in Int
      OBVIOUS
    <3>1. n + m \in 1 .. Len(q)
      BY <1>1
    <3>2. QED
      BY <1>1, <3>1, ElementIn
  <2> HIDE DEF r
  <2>3. Len(q) - n \in Nat
    BY <1>1
  <2>4. QED
    BY <2>1, <2>2, <2>3
<1> HIDE DEF r
<1>3. to - (from + n) = Len(q) - n /\ from + n \in Nat /\ from + n <= to
  BY <1>1
<1>4. ASSUME NEW m \in 1 .. (to - (from + n)) PROVE r[m] = z[(from + n) + m]
  <2>1. n + m \in 1 .. (to - from) /\ from + (n + m) = (from + n) + m
    BY <1>1, <1>3
  <2>2. q[n + m] = z[from + (n + m)]
    BY <2>1 DEF Window
  <2>3. QED
    BY <1>2, <1>3, <2>1, <2>2
<1>5. Window(r, z, from + n, to)
  BY <1>2, <1>3, <1>4 DEF Window
<1>6. QED
  BY <1>5 DEF r

\* A frame taken from a window is a frame of the samples behind it.
LEMMA WindowFrame ==
  ASSUME NEW q, NEW z, NEW k \in Nat, NEW to, Window(q, z, k * Frame, to),
         NEW n \in Nat \ {0}, n * Frame <= Len(q)
  PROVE  /\ SubSeq(q, (n - 1) * Frame + 1, n * Frame) = FrameOf(z, k + (n - 1))
         /\ FrameOf(z, k + (n - 1)) \in Seq(Int)
<1>1. Frame \in Nat \ {0}
  BY BuilderAssumption
<1> DEFINE a == (n - 1) * Frame
           b == k * Frame
<1>2. /\ a \in Nat /\ b \in Nat /\ n * Frame = a + Frame
      /\ (k + (n - 1)) * Frame = b + a /\ ((k + (n - 1)) + 1) * Frame = b + a + Frame
  <2>1. n - 1 \in Nat /\ (n - 1) + 1 = n /\ k + (n - 1) \in Int
    OBVIOUS
  <2>2. a \in Int /\ b \in Int /\ ((n - 1) + 1) * Frame = a + Frame
    BY <1>1, <2>1, ProductOrder
  <2>3. (k + (n - 1)) * Frame = b + a /\ ((k + (n - 1)) + 1) * Frame = (k + (n - 1)) * Frame + Frame
    BY <1>1, <2>1, ProductOrder
  <2>4. a >= 0 /\ b >= 0
    <3>1. 0 * Frame = 0
      BY <1>1
    <3>2. 0 * Frame <= a /\ 0 * Frame <= b
      BY <1>1, <2>1, ProductOrder
    <3>3. QED
      BY <2>2, <3>1, <3>2
  <2>5. QED
    BY <2>1, <2>2, <2>3, <2>4
<1>3. k + (n - 1) >= 0
  OBVIOUS
<1>4. FrameOf(z, k + (n - 1)) = SubSeq(z, (b + a) + 1, b + a + Frame)
  <2>1. ~(k + (n - 1) < 0)
    BY <1>3
  <2>2. QED
    BY <1>2, <2>1 DEF FrameOf
<1> HIDE DEF a, b
<1>5. /\ q \in Seq(Int) /\ z \in Seq(Int) /\ to \in Nat /\ b <= to /\ to <= Len(z)
      /\ Len(q) = to - b /\ Len(z) \in Nat
  BY DEF Window, b
<1>6. a + Frame <= Len(q)
  BY <1>2
<1>7. SubSeq(q, a + 1, a + Frame) = [m \in 1 .. Frame |-> q[a + m]]
  BY <1>1, <1>2, <1>5, <1>6
<1>8. SubSeq(z, (b + a) + 1, b + a + Frame) = [m \in 1 .. Frame |-> z[(b + a) + m]]
  BY <1>1, <1>2, <1>5, <1>6
<1>9. ASSUME NEW m \in 1 .. Frame PROVE q[a + m] = z[(b + a) + m] /\ z[(b + a) + m] \in Int
  <2>1. a + m \in 1 .. (to - b) /\ b + (a + m) = (b + a) + m
    BY <1>1, <1>2, <1>5, <1>6
  <2>2. q[a + m] = z[b + (a + m)]
    BY <2>1 DEF Window, b
  <2>3. (b + a) + m \in 1 .. Len(z)
    BY <1>2, <1>5, <2>1
  <2>4. z[(b + a) + m] \in Int
    BY <1>5, <2>3, ElementIn
  <2>5. QED
    BY <2>1, <2>2, <2>4
<1>10. [m \in 1 .. Frame |-> q[a + m]] = [m \in 1 .. Frame |-> z[(b + a) + m]]
  BY <1>9
<1>11. [m \in 1 .. Frame |-> z[(b + a) + m]] \in Seq(Int)
  BY <1>1, <1>9
<1>12. SubSeq(q, (n - 1) * Frame + 1, n * Frame) = SubSeq(q, a + 1, a + Frame)
  BY <1>2 DEF a
<1>13. QED
  BY <1>4, <1>7, <1>8, <1>10, <1>11, <1>12

-----------------------------------------------------------------------------
(* What the encoder makes of the samples z, from frame 0 at pts a on.      *)

EncoderFrame == [pts : Int, samples : Seq(Int), after : Seq(Int)]

\* e is frame number n of z. What it follows is only known for a frame that is
\* not the first: that one follows what the encoder still held.
IsFrame(e, z, a, n) ==
  /\ e.pts = a + n * Frame
  /\ e.samples = FrameOf(z, n)
  /\ n >= 1 => e.after = FrameOf(z, n - 1)

\* Of the k frames of z that the encoder was sent, the last ones are the last
\* ones of the line.
EndsWith(line, z, a, k) ==
  \A n \in 1 .. Len(line) :
    k - 1 - Len(line) + n >= 0 => IsFrame(line[n], z, a, k - 1 - Len(line) + n)

\* b is the payload of frame number n of z.
IsPayload(b, z, n) ==
  /\ b \in AacPayload
  /\ b.samples = FrameOf(z, n)
  /\ n >= 1 => b.after = FrameOf(z, n - 1)

\* Of the k frames sent, all but the last h are in the map, at their index.
HasFrames(map, z, a, h, k) ==
  \A n \in Nat :
    n + h < k /\ FrameAt(a) + n \in AudioIndex => IsPayload(map[FrameAt(a) + n], z, n)

\* The n-th of m frames sent after the first k of z.
SentFrame(z, a, k, n) == [pts |-> a + (k + (n - 1)) * Frame, samples |-> FrameOf(z, k + (n - 1))]

\* All of them.
IsSent(sent, z, a, k, m) ==
  /\ sent = [n \in 1 .. m |-> SentFrame(z, a, k, n)]
  /\ \A n \in 1 .. m : FrameOf(z, k + (n - 1)) \in Seq(Int)

\* A function on the first numbers is a sequence.
LEMMA MakeSeq ==
  ASSUME NEW S, NEW m \in Nat, NEW s, s = [n \in 1 .. m |-> s[n]],
         \A n \in 1 .. m : s[n] \in S
  PROVE  s \in Seq(S) /\ Len(s) = m
OBVIOUS

\* Two sequences, one after the other.
LEMMA MakeConcat ==
  ASSUME NEW S, NEW s \in Seq(S), NEW t \in Seq(S), NEW w, w = s \o t
  PROVE  /\ w \in Seq(S) /\ Len(w) = Len(s) + Len(t) /\ Len(s) \in Nat /\ Len(t) \in Nat
         /\ \A n \in 1 .. Len(s) : w[n] = s[n]
         /\ \A n \in 1 .. Len(t) : w[Len(s) + n] = t[n]
OBVIOUS

\* The line goes on with the frames that are sent.
LEMMA LineEndsWith ==
  ASSUME NEW held \in Seq(EncoderFrame), NEW z, NEW a \in Int, NEW k \in Nat,
         NEW m \in Nat \ {0}, k > 0 => held # <<>>, EndsWith(held, z, a, k),
         NEW sent, IsSent(sent, z, a, k, m),
         NEW line, line = EncoderLine(held, sent)
  PROVE  /\ line \in Seq(EncoderFrame)
         /\ Len(line) = (IF held = <<>> THEN 1 ELSE Len(held)) + m
         /\ EndsWith(line, z, a, k + m)
<1> DEFINE front == IF held = <<>> THEN <<Silence(sent[1].pts)>> ELSE held
           coded == [n \in DOMAIN sent |->
                      [pts |-> sent[n].pts, samples |-> sent[n].samples,
                       after |-> IF n = 1 THEN front[Len(front)].samples
                                          ELSE sent[n - 1].samples]]
<1>1. Frame \in Nat \ {0}
  BY BuilderAssumption
<1>13. /\ sent = [n \in 1 .. m |-> SentFrame(z, a, k, n)]
       /\ \A n \in 1 .. m : FrameOf(z, k + (n - 1)) \in Seq(Int)
  BY DEF IsSent
<1>2. sent # <<>> /\ DOMAIN sent = 1 .. m
  <2>1. DOMAIN sent = 1 .. m /\ 1 \in 1 .. m
    BY <1>13
  <2>2. DOMAIN <<>> = {}
    OBVIOUS
  <2>3. QED
    BY <2>1, <2>2
<1>3. line = front \o coded
  BY <1>2 DEF EncoderLine
<1>4. \A n \in 1 .. m : /\ sent[n].pts = a + (k + (n - 1)) * Frame
                        /\ sent[n].samples = FrameOf(z, k + (n - 1))
                        /\ sent[n].pts \in Int /\ sent[n].samples \in Seq(Int)
  <2> SUFFICES ASSUME NEW n \in 1 .. m
               PROVE  /\ sent[n].pts = a + (k + (n - 1)) * Frame
                      /\ sent[n].samples = FrameOf(z, k + (n - 1))
                      /\ sent[n].pts \in Int /\ sent[n].samples \in Seq(Int)
    OBVIOUS
  <2>1. sent[n] = SentFrame(z, a, k, n)
    BY <1>13
  <2>2. k + (n - 1) \in Int
    OBVIOUS
  <2>3. (k + (n - 1)) * Frame \in Int
    BY <1>1, <2>2, ProductOrder
  <2>4. /\ sent[n].pts = a + (k + (n - 1)) * Frame
        /\ sent[n].samples = FrameOf(z, k + (n - 1))
    BY <2>1 DEF SentFrame
  <2>5. FrameOf(z, k + (n - 1)) \in Seq(Int)
    BY <1>13
  <2>6. a + (k + (n - 1)) * Frame \in Int
    BY <2>3
  <2>7. QED
    BY <2>4, <2>5, <2>6
<1>5. /\ front \in Seq(EncoderFrame) /\ Len(front) = IF held = <<>> THEN 1 ELSE Len(held)
      /\ Len(front) \in Nat /\ Len(front) >= 1
  <2>1. CASE held = <<>>
    <3>1. Silence(sent[1].pts) \in EncoderFrame
      <4>1. sent[1].pts - Frame \in Int /\ <<>> \in Seq(Int)
        BY <1>1, <1>4
      <4>2. QED
        BY <4>1 DEF Silence, EncoderFrame
    <3>2. front = <<Silence(sent[1].pts)>>
      BY <2>1
    <3> HIDE DEF front
    <3>3. QED
      BY <2>1, <3>1, <3>2
  <2>2. CASE held # <<>>
    BY <2>2
  <2>3. QED
    BY <2>1, <2>2
<1>12. PICK h \in Nat : h = Len(front) /\ h >= 1
  BY <1>5
<1>6. front[h].samples \in Seq(Int)
  <2> HIDE DEF front
  <2>1. front[h] \in EncoderFrame
    BY <1>5, <1>12, ElementIn
  <2>2. QED
    BY <2>1 DEF EncoderFrame
<1>7. coded \in Seq(EncoderFrame) /\ Len(coded) = m
  <2>1. coded = [n \in 1 .. m |-> coded[n]]
    BY <1>2
  <2>2. ASSUME NEW n \in 1 .. m PROVE coded[n] \in EncoderFrame
    <3>1. coded[n] = [pts |-> sent[n].pts, samples |-> sent[n].samples,
                      after |-> IF n = 1 THEN front[h].samples ELSE sent[n - 1].samples]
      BY <1>2, <1>12
    <3>2. n # 1 => sent[n - 1].samples \in Seq(Int)
      BY <1>4
    <3> HIDE DEF front, coded
    <3>3. (IF n = 1 THEN front[h].samples ELSE sent[n - 1].samples) \in Seq(Int)
      BY <1>6, <3>2
    <3>4. QED
      BY <1>4, <3>1, <3>3 DEF EncoderFrame
  <2> HIDE DEF coded
  <2>3. QED
    BY <2>1, <2>2, MakeSeq
<1>8. \A n \in 1 .. m : /\ coded[n].pts = sent[n].pts /\ coded[n].samples = sent[n].samples
                        /\ coded[n].after = IF n = 1 THEN front[h].samples
                                                     ELSE sent[n - 1].samples
  BY <1>2, <1>12
<1> HIDE DEF coded
<1>9. /\ line \in Seq(EncoderFrame) /\ Len(line) = h + m
      /\ \A n \in 1 .. h : line[n] = front[n]
      /\ \A n \in 1 .. m : line[h + n] = coded[n]
  <2> HIDE DEF front
  <2>1. front \in Seq(EncoderFrame) /\ coded \in Seq(EncoderFrame)
    BY <1>5, <1>7
  <2>2. Len(front) = h /\ Len(coded) = m
    BY <1>7, <1>12
  <2>3. /\ line \in Seq(EncoderFrame) /\ Len(line) = Len(front) + Len(coded)
        /\ \A n \in 1 .. Len(front) : line[n] = front[n]
        /\ \A n \in 1 .. Len(coded) : line[Len(front) + n] = coded[n]
    BY ONLY <1>3, <2>1, MakeConcat
  <2>4. QED
    BY <2>2, <2>3
<1>10. EndsWith(line, z, a, k + m)
  <2> SUFFICES ASSUME NEW n \in 1 .. (h + m), k - 1 - h + n >= 0
               PROVE  IsFrame(line[n], z, a, k - 1 - h + n)
    <3>1. \A n \in 1 .. (h + m) : (k + m) - 1 - (h + m) + n = k - 1 - h + n
      OBVIOUS
    <3> HIDE DEF front
    <3>2. QED
      BY <1>9, <3>1 DEF EndsWith
  <2>1. PICK j \in Nat : j = k - 1 - h + n
    OBVIOUS
  <2> HIDE DEF front
  <2>2. CASE n \in 1 .. h
    <3>1. held # <<>>
      <4>1. held = <<>> => h = 1 /\ k = 0
        BY <1>5, <1>12
      <4>2. QED
        BY <2>1, <2>2, <4>1
    <3>2. front = held /\ h = Len(held)
      BY <1>5, <1>12, <3>1 DEF front
    <3>3. IsFrame(held[n], z, a, j)
      BY <2>1, <2>2, <3>2 DEF EndsWith
    <3>4. QED
      BY <1>9, <2>1, <2>2, <3>2, <3>3
  <2>3. CASE n \notin 1 .. h
    <3>1. PICK l \in 1 .. m : n = h + l /\ j = k + (l - 1)
      <4>1. n - h \in 1 .. m /\ n = h + (n - h) /\ j = k + ((n - h) - 1)
        BY <2>1, <2>3
      <4>2. QED
        BY <4>1
    <3>2. /\ line[n] = coded[l] /\ coded[l].pts = a + j * Frame
          /\ coded[l].samples = FrameOf(z, j)
      BY <1>4, <1>8, <1>9, <3>1
    <3>3. ASSUME j >= 1 PROVE coded[l].after = FrameOf(z, j - 1)
      <4>1. CASE l = 1
        <5>1. k >= 1 /\ j = k
          BY <3>1, <3>3, <4>1
        <5>2. front = held /\ h = Len(held)
          BY <1>5, <1>12, <5>1 DEF front
        <5>3. h \in 1 .. Len(held) /\ k - 1 - Len(held) + h = k - 1
          BY <1>12, <5>2
        <5>4. IsFrame(held[h], z, a, k - 1)
          BY <5>1, <5>2, <5>3 DEF EndsWith
        <5>5. front[h].samples = FrameOf(z, j - 1)
          BY <5>1, <5>2, <5>4 DEF IsFrame
        <5>6. QED
          BY <1>8, <3>1, <4>1, <5>5
      <4>2. CASE l # 1
        <5>1. l - 1 \in 1 .. m /\ k + ((l - 1) - 1) = j - 1
          BY <3>1, <4>2
        <5>2. sent[l - 1].samples = FrameOf(z, k + ((l - 1) - 1))
          BY <1>4, <5>1
        <5>3. QED
          BY <1>8, <3>1, <4>2, <5>1, <5>2
      <4>3. QED
        BY <4>1, <4>2
    <3>4. QED
      BY <2>1, <3>2, <3>3 DEF IsFrame
  <2>4. QED
    BY <2>2, <2>3
<1>11. QED
  BY <1>5, <1>9, <1>10, <1>12

\* The first m elements of a sequence, and the others.
LEMMA CutInTwo ==
  ASSUME NEW S, NEW s \in Seq(S), NEW m \in 0 .. Len(s)
  PROVE  /\ SubSeq(s, 1, m) \in Seq(S) /\ Len(SubSeq(s, 1, m)) = m
         /\ \A n \in 1 .. m : SubSeq(s, 1, m)[n] = s[n]
         /\ SubSeq(s, m + 1, Len(s)) \in Seq(S) /\ Len(SubSeq(s, m + 1, Len(s))) = Len(s) - m
         /\ \A n \in 1 .. (Len(s) - m) : SubSeq(s, m + 1, Len(s))[n] = s[m + n]
<1>1. Len(s) \in Nat /\ m \in Nat /\ m <= Len(s)
  OBVIOUS
<1> DEFINE f == SubSeq(s, 1, m)
           b == SubSeq(s, m + 1, Len(s))
           l == Len(s) - m
<1>2. f = [n \in 1 .. m |-> s[n]] /\ b = [n \in 1 .. l |-> s[m + n]] /\ l \in Nat
  BY <1>1
<1>3. (\A n \in 1 .. m : s[n] \in S) /\ (\A n \in 1 .. l : s[m + n] \in S)
  <2>1. \A n \in 1 .. m : n \in 1 .. Len(s)
    BY <1>1
  <2>2. \A n \in 1 .. l : m + n \in 1 .. Len(s)
    BY <1>1
  <2>3. QED
    BY <2>1, <2>2, ElementIn
<1> HIDE DEF f, b, l
<1>4. f \in Seq(S) /\ Len(f) = m /\ \A n \in 1 .. m : f[n] = s[n]
  BY <1>1, <1>2, <1>3
<1>5. b \in Seq(S) /\ Len(b) = l /\ \A n \in 1 .. l : b[n] = s[m + n]
  BY <1>2, <1>3
<1>6. QED
  BY <1>4, <1>5 DEF f, b, l

\* What the encoder still holds ends as the line did.
LEMMA HeldEndsWith ==
  ASSUME NEW line \in Seq(EncoderFrame), NEW z, NEW a \in Int, NEW k \in Nat,
         NEW done \in 0 .. Len(line), EndsWith(line, z, a, k)
  PROVE  EndsWith(SubSeq(line, done + 1, Len(line)), z, a, k)
<1> DEFINE rest == SubSeq(line, done + 1, Len(line))
<1>1. Len(line) \in Nat
  OBVIOUS
<1>2. Len(rest) = Len(line) - done /\ \A n \in 1 .. (Len(line) - done) : rest[n] = line[done + n]
  BY CutInTwo
<1> HIDE DEF rest
<1>3. ASSUME NEW n \in 1 .. (Len(line) - done), k - 1 - (Len(line) - done) + n >= 0
      PROVE  IsFrame(rest[n], z, a, k - 1 - (Len(line) - done) + n)
  <2>1. /\ done + n \in 1 .. Len(line)
        /\ k - 1 - Len(line) + (done + n) = k - 1 - (Len(line) - done) + n
    BY <1>1
  <2>2. IsFrame(line[done + n], z, a, k - 1 - Len(line) + (done + n))
    BY <1>3, <2>1 DEF EndsWith
  <2>3. QED
    BY <1>2, <2>1, <2>2
<1>4. EndsWith(rest, z, a, k)
  BY <1>2, <1>3 DEF EndsWith
<1>5. QED
  BY <1>4 DEF rest

\* What comes out of the encoder is stored at its index: of two packets with
\* the same index the later one stays, and frames held from before come first.
LEMMA StoredHasFrames ==
  ASSUME NEW line \in Seq(EncoderFrame), NEW z, NEW a \in Int, NEW k \in Nat,
         NEW done \in 0 .. Len(line), NEW map, EndsWith(line, z, a, k),
         HasFrames(map, z, a, Len(line), k)
  PROVE  HasFrames(Stored(map, SubSeq(line, 1, done)), z, a, Len(line) - done, k)
<1>1. Frame \in Nat \ {0}
  BY BuilderAssumption
<1>2. PICK l \in Nat : l = Len(line)
  OBVIOUS
<1>12. done \in Nat /\ done <= l
  BY <1>2
<1> SUFFICES ASSUME NEW n \in Nat, n + (l - done) < k, NEW x, x = FrameAt(a) + n, x \in AudioIndex
             PROVE  IsPayload(Stored(map, SubSeq(line, 1, done))[x], z, n)
  BY <1>2 DEF HasFrames
<1>3. PICK out : out = SubSeq(line, 1, done)
  OBVIOUS
<1>4. out \in Seq(EncoderFrame) /\ Len(out) = done /\ \A m \in 1 .. done : out[m] = line[m]
  BY <1>3, CutInTwo
<1>5. DOMAIN out = 1 .. done
  BY <1>4
<1> DEFINE at == {m \in 1 .. done : FrameAt(out[m].pts) = x}
<1>6. Stored(map, out)[x] =
        IF at = {} THEN map[x] ELSE Payload(out[CHOOSE m \in at : \A j \in at : j <= m])
  BY <1>5 DEF Stored
<1>7. ASSUME NEW m \in 1 .. done, NEW j \in Nat, j = k - 1 - l + m
      PROVE  IsFrame(out[m], z, a, j) /\ FrameAt(out[m].pts) = FrameAt(a) + j
  <2>1. m \in 1 .. Len(line) /\ k - 1 - Len(line) + m >= 0 /\ k - 1 - Len(line) + m = j
    BY <1>2, <1>7
  <2>2. IsFrame(line[m], z, a, j)
    BY <2>1 DEF EndsWith
  <2>3. IsFrame(out[m], z, a, j)
    BY <1>4, <2>2
  <2>4. out[m].pts = a + j * Frame
    BY <2>3 DEF IsFrame
  <2>5. FrameAt(a + j * Frame) = FrameAt(a) + j
    <3>1. j \in Int
      OBVIOUS
    <3>2. (a + j * Frame) \div Frame = (a \div Frame) + j
      BY <1>1, <3>1, DivideWhole, Zenon
    <3>3. QED
      BY <3>2 DEF FrameAt
  <2>6. QED
    BY <2>3, <2>4, <2>5
<1>8. FrameAt(a) \in Int
  BY <1>1, Division DEF FrameAt
<1>9. CASE n + l < k
  <2>1. IsPayload(map[x], z, n)
    BY <1>2, <1>9 DEF HasFrames
  <2>2. \A m \in 1 .. done : FrameAt(out[m].pts) # x
    <3> SUFFICES ASSUME NEW m \in 1 .. done PROVE FrameAt(out[m].pts) # x
      OBVIOUS
    <3>1. PICK j \in Nat : j = k - 1 - l + m
      <4>1. k - 1 - l + m \in Nat
        BY <1>2, <1>9, <1>12
      <4>2. QED
        BY <4>1
    <3>2. FrameAt(out[m].pts) = FrameAt(a) + j
      BY <1>7, <3>1
    <3>3. j # n
      BY <1>2, <1>9, <3>1
    <3>4. QED
      BY <1>8, <3>2, <3>3
  <2>3. at = {}
    BY <2>2
  <2>4. Stored(map, out)[x] = map[x]
    BY <1>6, <2>3
  <2>5. QED
    BY <1>3, <2>1, <2>4
<1>10. CASE ~(n + l < k)
  <2>1. PICK m \in 1 .. done : n = k - 1 - l + m
    <3>1. n + 1 + l - k \in 1 .. done /\ n = k - 1 - l + (n + 1 + l - k)
      BY <1>2, <1>10
    <3>2. QED
      BY <3>1
  <2>2. IsFrame(out[m], z, a, n) /\ FrameAt(out[m].pts) = x
    BY <1>7, <2>1
  <2>3. m \in at
    BY <2>2
  <2>4. ASSUME NEW j \in at PROVE j <= m
    <3> SUFFICES ASSUME j > m PROVE FALSE
      OBVIOUS
    <3>1. PICK i \in Nat : i = k - 1 - l + j
      <4>1. j \in 1 .. done /\ m \in 1 .. done
        BY <2>4
      <4>2. k - 1 - l + j \in Nat
        BY <1>2, <1>12, <2>1, <4>1
      <4>3. QED
        BY <4>2
    <3>2. FrameAt(out[j].pts) = FrameAt(a) + i
      BY <1>7, <3>1
    <3>3. i # n
      BY <1>2, <2>1, <3>1
    <3>4. QED
      BY <1>8, <3>2, <3>3
  <2> DEFINE best == CHOOSE i \in at : \A j \in at : j <= i
  <2>5. at \subseteq Nat
    OBVIOUS
  <2> HIDE DEF at
  <2>6. best \in at /\ \A j \in at : j <= best
    BY <2>3, <2>4
  <2>7. best = m
    <3>1. best \in Nat /\ m \in Nat
      BY <2>3, <2>5, <2>6
    <3>2. best <= m /\ m <= best
      BY <2>3, <2>4, <2>6
    <3>3. QED
      BY <3>1, <3>2
  <2>8. Stored(map, out)[x] = Payload(out[m])
    BY <1>6, <2>3, <2>7 DEF best
  <2>9. out[m] \in EncoderFrame
    BY <1>4, ElementIn
  <2>10. QED
    BY <1>3, <2>2, <2>8, <2>9 DEF IsPayload, IsFrame, Payload, AacPayload, EncoderFrame
<1>11. QED
  BY <1>9, <1>10

-----------------------------------------------------------------------------
(* An encoding run.                                                        *)

\* The encoder holds frames, at most as many as its delay.
HeldInv == encoder \in Seq(EncoderFrame) /\ Len(encoder) <= EncoderDelay

\* k frames of z, from pts a on, were sent in this build.
Encoding(z, a, k) ==
  /\ nextPts = a + k * Frame
  /\ k > 0 => encoder # <<>>
  /\ EndsWith(encoder, z, a, k)
  /\ HasFrames(build, z, a, Len(encoder), k)

\* The number of frames of a run: all there are, up to the cutoff.
LEMMA RunLength ==
  ASSUME NEW q \in Seq(Int), NEW cutoff \in Int, nextPts \in Int,
         NEW m, m = FramesReady(q, cutoff)
  PROVE  /\ m \in Nat /\ m * Frame <= Len(q)
         /\ \A n \in Int : n * Frame <= Len(q) /\ nextPts + n * Frame <= cutoff => n <= m
<1>1. Frame \in Nat \ {0} /\ Len(q) \in Nat
  BY BuilderAssumption
<1>2. \A x \in Int : x >= 0 => x \div Frame \in Nat
  <2> SUFFICES ASSUME NEW x \in Int, x >= 0 PROVE x \div Frame \in Nat
    OBVIOUS
  <2>1. x \div Frame \in Int
    BY <1>1, Division
  <2>2. 0 * Frame <= x /\ 0 \in Int
    BY <1>1
  <2>3. 0 <= x \div Frame
    BY <1>1, <2>2, DivideWhole
  <2>4. QED
    BY <2>1, <2>3
<1>3. CASE cutoff < nextPts
  <2>1. m = 0
    BY <1>3 DEF FramesReady
  <2>2. 0 * Frame = 0
    BY <1>1
  <2>3. ASSUME NEW n \in Int, nextPts + n * Frame <= cutoff PROVE n <= 0
    <3>1. n * Frame < 0 * Frame + Frame
      <4>1. n * Frame \in Int
        BY <1>1, <2>3, ProductOrder
      <4>2. QED
        BY <1>1, <1>3, <2>2, <2>3, <4>1
    <3>2. QED
      BY <1>1, <2>3, <3>1, ProductOrder
  <2>4. m \in Nat /\ m * Frame <= Len(q)
    BY <1>1, <2>1, <2>2
  <2>5. QED
    BY <2>1, <2>3, <2>4
<1>4. CASE ~(cutoff < nextPts)
  <2>1. PICK x \in Nat : x = Len(q) \div Frame
    BY <1>1, <1>2
  <2>2. PICK y \in Nat : y = (cutoff - nextPts) \div Frame
    BY <1>2, <1>4
  <2>3. m = Lowest(x, y)
    BY <1>4, <2>1, <2>2 DEF FramesReady
  <2>4. m \in Nat /\ m <= x /\ m <= y /\ (m = x \/ m = y)
    BY <2>3 DEF Lowest
  <2>5. m * Frame <= Len(q)
    <3>1. x * Frame <= Len(q) /\ x * Frame \in Int /\ m * Frame \in Int
      BY <1>1, <2>1, <2>4, Division, ProductOrder
    <3>2. m * Frame <= x * Frame
      BY <1>1, <2>4, ProductOrder
    <3>3. QED
      BY <1>1, <3>1, <3>2
  <2>6. ASSUME NEW n \in Int, n * Frame <= Len(q), nextPts + n * Frame <= cutoff PROVE n <= m
    <3>6. Len(q) \in Int
      BY <1>1
    <3>7. n <= Len(q) \div Frame
      BY <1>1, <2>6, <3>6, DivideWhole, Zenon
    <3>1. n <= x
      BY <2>1, <3>7
    <3>2. n * Frame \in Int /\ cutoff - nextPts \in Int
      BY <1>1, ProductOrder
    <3>3. n * Frame <= cutoff - nextPts
      BY <2>6, <3>2
    <3>4. n <= y
      BY <1>1, <2>2, <3>2, <3>3, DivideWhole
    <3>5. QED
      BY <2>4, <3>1, <3>4
  <2>7. QED
    BY <2>4, <2>5, <2>6
<1>5. QED
  BY <1>3, <1>4

\* The line of a run, what it returns and what it holds.
LEMMA LineOfRun ==
  ASSUME HeldInv, NEW z, NEW a \in Int, NEW k \in Nat, Encoding(z, a, k), NEW m \in Nat,
         NEW sent, IsSent(sent, z, a, k, m),
         NEW line, line = EncoderLine(encoder, sent)
  PROVE  /\ line \in Seq(EncoderFrame) /\ EndsWith(line, z, a, k + m)
         /\ HasFrames(build, z, a, Len(line), k + m)
         /\ m > 0 => Len(line) >= 1
         /\ m = 0 => line = encoder
<1>1. PICK h \in Nat : h = Len(encoder)
  BY DEF HeldInv
<1>2. encoder \in Seq(EncoderFrame) /\ (k > 0 => encoder # <<>>) /\ EndsWith(encoder, z, a, k)
  BY DEF HeldInv, Encoding
<1>3. HasFrames(build, z, a, h, k)
  BY <1>1 DEF Encoding
<1>4. CASE m = 0
  <2>1. sent = <<>>
    BY <1>4 DEF IsSent
  <2>2. line = encoder /\ k + m = k
    BY <1>4, <2>1 DEF EncoderLine
  <2>3. QED
    BY <1>1, <1>2, <1>3, <1>4, <2>2
<1>5. CASE m # 0
  <2>1. /\ line \in Seq(EncoderFrame) /\ EndsWith(line, z, a, k + m)
        /\ Len(line) = (IF encoder = <<>> THEN 1 ELSE Len(encoder)) + m
    <3>1. m \in Nat \ {0}
      BY <1>5
    <3>2. QED
      BY <1>2, <3>1, LineEndsWith
  <2>2. PICK l \in Nat : l = Len(line) /\ l = (IF encoder = <<>> THEN 1 ELSE h) + m
    BY <1>1, <2>1
  <2>3. ASSUME NEW n \in Nat, n + l < k + m PROVE n + h < k
    <3>1. CASE encoder = <<>>
      <4>1. k = 0 /\ l = 1 + m
        BY <1>2, <2>2, <3>1
      <4>2. QED
        BY <2>3, <4>1
    <3>2. CASE encoder # <<>>
      BY <2>2, <2>3, <3>2
    <3>3. QED
      BY <3>1, <3>2
  <2>4. HasFrames(build, z, a, Len(line), k + m)
    BY <1>3, <2>2, <2>3 DEF HasFrames
  <2>5. Len(line) >= 1
    BY <1>5, <2>2
  <2>6. QED
    BY <1>5, <2>1, <2>4, <2>5
<1>6. QED
  BY <1>4, <1>5

\* An encoding run sends frames of the samples behind the queue, as many as
\* there are up to the cutoff; what comes out is stored where it belongs.
LEMMA EncodesOn ==
  ASSUME HeldInv, NEW z, NEW a \in Int, NEW k \in Nat, Encoding(z, a, k),
         NEW q, NEW to, Window(q, z, k * Frame, to),
         NEW i, CutoffPts(i) \in Int, DrainAac(i, q)
  PROVE  /\ HeldInv'
         /\ \E m \in Nat :
              /\ Encoding(z, a, m)'
              /\ Window(queue', z, m * Frame, to)
              /\ HasAudio => \A n \in Int :
                   n * Frame <= to /\ a + n * Frame <= CutoffPts(i) => n <= m
<1>1. Frame \in Nat \ {0} /\ EncoderDelay \in Nat \ {0}
  BY BuilderAssumption
<1>2. q \in Seq(Int) /\ to \in Nat /\ Len(q) = to - k * Frame /\ Len(q) \in Nat
  BY DEF Window
<1>3. PICK b \in Int : b = k * Frame
  BY <1>1
<1>4. nextPts \in Int /\ nextPts = a + b
  BY <1>3 DEF Encoding
<1>5. PICK m : m = IF HasAudio THEN FramesReady(q, CutoffPts(i)) ELSE 0
  OBVIOUS
<1>6. m \in Nat /\ m * Frame <= Len(q)
  <2>1. 0 * Frame = 0
    BY <1>1
  <2>2. CASE HasAudio
    <3>1. m = FramesReady(q, CutoffPts(i))
      BY <1>5, <2>2
    <3>2. QED
      BY <1>2, <1>4, <3>1, RunLength
  <2>3. CASE ~HasAudio
    BY <1>2, <1>5, <2>1, <2>3
  <2>4. QED
    BY <2>2, <2>3
<1>7. PICK sent : sent = [n \in 1 .. m |-> TakenFrame(q, n)]
  OBVIOUS
<1>8. PICK line : line = EncoderLine(encoder, sent)
  OBVIOUS
<1>9. PICK done : done = IF Len(line) > EncoderDelay /\ m > 0 THEN Len(line) - EncoderDelay
                                                             ELSE 0
  OBVIOUS
<1>10. /\ queue' = SubSeq(q, m * Frame + 1, Len(q)) /\ nextPts' = nextPts + m * Frame
       /\ encoder' = SubSeq(line, done + 1, Len(line))
       /\ build' = Stored(build, SubSeq(line, 1, done))
  BY <1>5, <1>7, <1>8, <1>9 DEF DrainAac
<1>11. PICK c \in Nat : c = m * Frame
  BY <1>1, <1>6
<1>12. (k + m) * Frame = b + c
  BY <1>1, <1>3, <1>6, <1>11, ProductOrder
<1>13. ASSUME NEW n \in 1 .. m
       PROVE  TakenFrame(q, n) = SentFrame(z, a, k, n) /\ FrameOf(z, k + (n - 1)) \in Seq(Int)
  <2>1. n \in Nat \ {0} /\ n <= m /\ n \in Int /\ n - 1 \in Int
    BY <1>6
  <2>2. n * Frame <= m * Frame /\ n * Frame \in Int /\ m * Frame \in Int
    BY <1>1, <1>6, <2>1, ProductOrder
  <2>3. n * Frame <= Len(q)
    BY <1>2, <1>6, <2>2
  <2>4. /\ SubSeq(q, (n - 1) * Frame + 1, n * Frame) = FrameOf(z, k + (n - 1))
        /\ FrameOf(z, k + (n - 1)) \in Seq(Int)
    BY <2>1, <2>3, WindowFrame
  <2>5. (k + (n - 1)) * Frame = b + (n - 1) * Frame /\ (n - 1) * Frame \in Int
    BY <1>1, <1>3, <2>1, ProductOrder
  <2>6. nextPts + (n - 1) * Frame = a + (k + (n - 1)) * Frame
    BY <1>4, <2>5
  <2>7. QED
    BY <2>4, <2>6 DEF TakenFrame, SentFrame
<1>14. IsSent(sent, z, a, k, m)
  BY <1>7, <1>13 DEF IsSent
<1>15. /\ line \in Seq(EncoderFrame) /\ EndsWith(line, z, a, k + m)
       /\ HasFrames(build, z, a, Len(line), k + m)
       /\ m > 0 => Len(line) >= 1
       /\ m = 0 => line = encoder
  BY <1>6, <1>8, <1>14, LineOfRun
<1>16. PICK l \in Nat : l = Len(line)
  BY <1>15
<1>17. done \in 0 .. l
  BY <1>1, <1>9, <1>16
<1>18. encoder' \in Seq(EncoderFrame) /\ Len(encoder') = l - done
  BY <1>10, <1>15, <1>16, <1>17, CutInTwo
<1>19. Len(encoder') <= EncoderDelay
  <2>1. CASE m = 0
    BY <1>1, <1>9, <1>15, <1>16, <1>18, <2>1 DEF HeldInv
  <2>2. CASE m # 0
    BY <1>1, <1>6, <1>9, <1>16, <1>18, <2>2
  <2>3. QED
    BY <2>1, <2>2
<1>20. k + m > 0 => encoder' # <<>>
  <2> SUFFICES ASSUME k + m > 0 PROVE Len(encoder') >= 1
    BY <1>18
  <2>1. CASE m = 0
    <3>1. encoder # <<>> /\ line = encoder /\ done = 0
      BY <1>9, <1>15, <2>1 DEF Encoding
    <3>2. l >= 1
      BY <1>15, <1>16, <3>1
    <3>3. QED
      BY <1>16, <1>18, <3>1, <3>2
  <2>2. CASE m # 0
    BY <1>1, <1>6, <1>9, <1>15, <1>16, <1>18, <2>2
  <2>3. QED
    BY <2>1, <2>2
<1>21. EndsWith(encoder', z, a, k + m)
  BY <1>6, <1>10, <1>15, <1>16, <1>17, HeldEndsWith
<1>22. HasFrames(build', z, a, Len(encoder'), k + m)
  <2>1. HasFrames(Stored(build, SubSeq(line, 1, done)), z, a, Len(line) - done, k + m)
    BY <1>6, <1>15, <1>16, <1>17, StoredHasFrames
  <2>2. QED
    BY <1>10, <1>16, <1>18, <2>1
<1>23. nextPts' = a + (k + m) * Frame
  BY <1>4, <1>10, <1>11, <1>12
<1>24. Encoding(z, a, k + m)'
  BY <1>20, <1>21, <1>22, <1>23 DEF Encoding
<1>25. Window(queue', z, (k + m) * Frame, to)
  <2>1. c \in 0 .. Len(q)
    BY <1>2, <1>6, <1>11
  <2>2. Window(SubSeq(q, c + 1, Len(q)), z, b + c, to)
    BY <1>3, <2>1, WindowTaken
  <2>3. QED
    BY <1>10, <1>11, <1>12, <2>2
<1>26. ASSUME HasAudio, NEW n \in Int, n * Frame <= to, a + n * Frame <= CutoffPts(i)
       PROVE  n <= k + m
  <2> DEFINE j == n - k
  <2>1. j \in Int /\ n = k + j /\ n * Frame \in Int
    BY <1>1
  <2>2. n * Frame = b + j * Frame /\ j * Frame \in Int
    BY <1>1, <1>3, <2>1, ProductOrder
  <2> HIDE DEF j
  <2>3. j * Frame <= Len(q)
    BY <1>2, <1>3, <1>26, <2>2
  <2>4. nextPts + j * Frame <= CutoffPts(i)
    BY <1>4, <1>26, <2>2
  <2>5. j <= m
    BY <1>2, <1>4, <1>5, <1>26, <2>1, <2>3, <2>4, RunLength
  <2>6. QED
    BY <1>6, <2>1, <2>5
<1>27. k + m \in Nat
  BY <1>6
<1>28. QED
  BY <1>18, <1>19, <1>24, <1>25, <1>26, <1>27 DEF HeldInv

-----------------------------------------------------------------------------
(* The frames of a segment.                                                *)

\* A time in samples, and its frame.
LEMMA PtsOf ==
  ASSUME NEW m \in Int
  PROVE  /\ AudioPts(m) \in Int /\ FrameAt(AudioPts(m)) \in Int
         /\ FrameAt(AudioPts(m)) * Frame <= AudioPts(m)
         /\ AudioPts(m) < FrameAt(AudioPts(m)) * Frame + Frame
         /\ AudioPts(m + 1) = AudioPts(m) + Rate
<1>1. Rate \in Nat \ {0} /\ Frame \in Nat \ {0}
  BY BuilderAssumption
<1>2. AudioPts(m) \in Int /\ AudioPts(m + 1) = AudioPts(m) + Rate
  BY <1>1, ProductOrder DEF AudioPts
<1>3. QED
  BY <1>1, <1>2, Division DEF FrameAt

\* The start of the file.
LEMMA PtsOfZero == AudioPts(0) = 0 /\ FrameAt(0) = 0
<1>1. Rate \in Nat \ {0} /\ Frame \in Nat \ {0}
  BY BuilderAssumption
<1>2. 0 * Rate = 0 /\ 0 * Frame = 0 /\ 0 \in Int
  BY <1>1
<1>3. (0 * Frame) \div Frame = 0
  BY <1>1, <1>2, DivideWhole, Zenon
<1>4. QED
  BY <1>2, <1>3 DEF AudioPts, FrameAt

\* Later frames start later.
LEMMA FrameOrder ==
  ASSUME NEW x \in Int, NEW y \in Int, x <= y
  PROVE  FrameAt(x) <= FrameAt(y)
<1>1. Frame \in Nat \ {0}
  BY BuilderAssumption
<1>2. PICK f \in Int : f = x \div Frame /\ f * Frame <= x
  BY <1>1, Division
<1>3. f * Frame \in Int
  BY <1>1, ProductOrder
<1>4. f * Frame <= y
  BY <1>2, <1>3
<1>5. f <= y \div Frame
  BY <1>1, <1>4, DivideWhole, Zenon
<1>6. QED
  BY <1>2, <1>5 DEF FrameAt

\* Times of the file in samples keep their order.
LEMMA PtsOrder ==
  ASSUME NEW m \in Int, NEW n \in Int
  PROVE  /\ m < n => AudioPts(m) + Rate <= AudioPts(n)
         /\ m <= n => AudioPts(m) <= AudioPts(n)
         /\ AudioPts(m + n) = AudioPts(m) + AudioPts(n)
         /\ AudioPts(m - n) = AudioPts(m) - AudioPts(n)
<1>1. Rate \in Nat \ {0}
  BY BuilderAssumption
<1>2. /\ m <= n => AudioPts(m) <= AudioPts(n)
      /\ AudioPts(m + n) = AudioPts(m) + AudioPts(n)
      /\ AudioPts(m - n) = AudioPts(m) - AudioPts(n)
  BY <1>1, ProductOrder DEF AudioPts
<1>3. ASSUME m < n PROVE AudioPts(m) + Rate <= AudioPts(n)
  <2>1. m + 1 <= n /\ m + 1 \in Int
    BY <1>3
  <2>2. (m + 1) * Rate <= n * Rate /\ (m + 1) * Rate = m * Rate + Rate
    BY <1>1, <2>1, ProductOrder
  <2>3. QED
    BY <2>2 DEF AudioPts
<1>4. QED
  BY <1>2, <1>3

\* The priming is a number of whole frames.
LEMMA WholePadding ==
  /\ -Padding \in Int /\ -Padding <= 0 /\ FrameAt(-Padding) \in Int
  /\ FrameAt(-Padding) * Frame = -Padding /\ FrameAt(-Padding) <= 0
<1>1. Frame \in Nat \ {0} /\ Padding \in Nat /\ Padding % Frame = 0
  BY BuilderAssumption
<1>2. PICK c \in Int : c = Padding \div Frame
  BY <1>1
<1>3. Padding = c * Frame
  BY <1>1, <1>2
<1>4. -c \in Int /\ (-c) * Frame = -Padding
  <2>1. (0 - c) * Frame = 0 * Frame - c * Frame /\ 0 * Frame = 0
    BY <1>1, <1>2, ProductOrder
  <2>2. QED
    BY <1>1, <1>2, <1>3, <2>1
<1>5. ((-c) * Frame) \div Frame = -c
  BY <1>1, <1>4, DivideWhole, Zenon
<1>6. FrameAt(-Padding) = -c
  BY <1>4, <1>5 DEF FrameAt
<1>7. -c <= 0
  <2>1. (-c) * Frame < 0 * Frame + Frame /\ 0 \in Int
    BY <1>1, <1>4
  <2>2. QED
    BY <1>1, <1>4, <2>1, ProductOrder
<1>8. QED
  BY <1>1, <1>4, <1>6, <1>7

\* A build starts on a frame boundary.
LEMMA AnchorIsWhole ==
  ASSUME file \in Files, NEW i \in Listed
  PROVE  /\ AnchorPts(i) \in Int /\ FrameAt(AnchorPts(i)) \in Int
         /\ AnchorPts(i) = FrameAt(AnchorPts(i)) * Frame
         /\ ~(i = 0 /\ HasAudio) => FrameAt(AnchorPts(i)) = FrameAt(AudioPts(DecodeStartMs(i)))
<1>1. Frame \in Nat \ {0} /\ DecodeStartMs(i) \in Int
  BY Bounds, BuilderAssumption
<1>2. CASE i = 0 /\ HasAudio
  BY <1>2, WholePadding DEF AnchorPts
<1>3. CASE ~(i = 0 /\ HasAudio)
  <2>1. PICK f \in Int : f = FrameAt(AudioPts(DecodeStartMs(i)))
    BY <1>1, PtsOf
  <2>2. AnchorPts(i) = f * Frame
    BY <1>3, <2>1 DEF AnchorPts, EncodeStartPts
  <2>3. (f * Frame) \div Frame = f /\ f * Frame \in Int
    BY <1>1, <2>1, DivideWhole, ProductOrder
  <2>4. FrameAt(AnchorPts(i)) = f
    BY <2>2, <2>3 DEF FrameAt
  <2>5. QED
    BY <1>3, <2>1, <2>2, <2>3, <2>4
<1>4. QED
  BY <1>2, <1>3

\* The frames a segment is made of.
LEMMA SegmentFrames ==
  ASSUME file \in Files, NEW i \in Listed, HasAudio
  PROVE  /\ FirstFrame(i) \in Int /\ EndFrame(i) \in Int /\ FirstFrame(i) < EndFrame(i)
         /\ FirstFrame(i) >= FrameAt(AnchorPts(i)) + (IF i = 0 THEN 0 ELSE 1)
         /\ \A x \in FirstFrame(i) .. (EndFrame(i) - 1) : x \in AudioIndex
         /\ CutoffPts(i) \in Int
         /\ AnchorPts(i) + (EndFrame(i) - FrameAt(AnchorPts(i)) + EncoderDelay) * Frame
              <= CutoffPts(i)
<1>1. /\ Rate \in Nat \ {0} /\ Frame \in Nat \ {0} /\ Rate <= Frame
      /\ EncoderDelay \in Nat /\ Lookahead \in Nat /\ Preroll \in Nat
  BY BuilderAssumption
<1>2. /\ StartMs(i) \in Nat /\ EndMs(i) \in Nat /\ StartMs(i) < EndMs(i)
      /\ DecodeStartMs(i) \in Nat
  BY Bounds
<1>3. i \in Nat /\ i + 1 \in 1 .. Len(file.bounds) /\ i + 2 \in 1 .. Len(file.bounds)
      /\ Len(file.bounds) \in Nat /\ DOMAIN file.bounds = 1 .. Len(file.bounds)
      /\ file.bounds \in Seq(Nat)
  <2>1. file.bounds \in Seq(Nat)
    BY FileType DEF File
  <2>2. QED
    BY <2>1 DEF Listed
<1>4. PICK s \in Int : s = AudioPts(StartMs(i))
  BY <1>2, PtsOf
<1>5. PICK e \in Int : e = AudioPts(EndMs(i))
  BY <1>2, PtsOf
<1>6. PICK fs \in Int : fs = FrameAt(s)
  BY <1>2, <1>4, PtsOf
<1>7. PICK fe \in Int : fe = FrameAt(e)
  BY <1>2, <1>5, PtsOf
<1>8. s + Rate <= e /\ fs * Frame <= s /\ fe * Frame <= e /\ fs <= fe
  <2>1. s + Rate <= e
    BY <1>2, <1>4, <1>5, PtsOrder
  <2>2. fs * Frame <= s /\ fe * Frame <= e
    BY <1>2, <1>4, <1>5, <1>6, <1>7, PtsOf
  <2>3. fs <= fe
    BY <1>1, <1>6, <1>7, <2>1, FrameOrder
  <2>4. QED
    BY <2>1, <2>2, <2>3
<1>9. 0 <= s /\ 0 <= fs
  <2>1. AudioPts(0) <= AudioPts(StartMs(i))
    BY <1>2, PtsOrder
  <2>2. 0 <= s
    BY <1>4, <2>1, PtsOfZero
  <2>3. FrameAt(0) <= fs
    BY <1>6, <2>2, FrameOrder
  <2>4. QED
    BY <2>2, <2>3, PtsOfZero
<1>10. PICK p \in Int : p = FrameAt(-Padding) /\ p <= 0 /\ p * Frame <= 0
  BY WholePadding
<1>11. PICK first \in Int : first = FirstFrame(i) /\ first = IF i = 0 THEN p ELSE fs
  BY <1>4, <1>6, <1>10 DEF FirstFrame
<1>12. PICK end \in Int : end = EndFrame(i) /\ end = IF fe <= first THEN first + 1 ELSE fe
  BY <1>5, <1>7, <1>11 DEF EndFrame
<1>13. p <= first /\ first <= fs /\ first < end /\ end - 1 <= fe
  BY <1>8, <1>9, <1>10, <1>11, <1>12
<1>14. \A x \in first .. (end - 1) : x \in AudioIndex
  <2>1. p .. fe \subseteq AudioIndex
    <3>1. FrameAt(-Padding) .. FrameAt(AudioPts(file.bounds[i + 2])) \subseteq AudioIndex
      BY <1>3, FileType DEF WellFormed
    <3>2. QED
      BY <1>5, <1>7, <1>10, <3>1 DEF EndMs
  <2>2. QED
    BY <1>13, <2>1
<1>15. PICK a \in Int : a = FrameAt(AnchorPts(i)) /\ AnchorPts(i) = a * Frame
  BY AnchorIsWhole
<1>16. first >= a + (IF i = 0 THEN 0 ELSE 1)
  <2>1. CASE i = 0
    <3>1. a = p
      BY <1>10, <1>15, <2>1 DEF AnchorPts
    <3>2. QED
      BY <1>11, <2>1, <3>1
  <2>2. CASE i # 0
    <3>1. a = FrameAt(AudioPts(DecodeStartMs(i)))
      BY <1>15, <2>2, AnchorIsWhole
    <3>2. AudioPts(DecodeStartMs(i)) + Frame <= s
      <4>1. CASE StartMs(i) < Preroll
        <5>1. i + 1 \in 2 .. (Len(file.bounds) - 1)
          BY <1>3, <2>2
        <5>2. StartMs(i) >= Preroll
          BY <5>1, FileType DEF WellFormed, StartMs
        <5>3. QED
          BY <1>1, <1>2, <4>1, <5>2
      <4>2. CASE ~(StartMs(i) < Preroll)
        <5>1. AudioPts(DecodeStartMs(i)) = AudioPts(StartMs(i)) - AudioPts(Preroll)
          BY <1>1, <1>2, <4>2, PtsOrder DEF DecodeStartMs
        <5>2. AudioPts(Preroll) >= Frame /\ AudioPts(Preroll) \in Int
          BY <1>1, PtsOf, BuilderAssumption
        <5>3. QED
          BY <1>1, <1>4, <5>1, <5>2
      <4>3. QED
        BY <4>1, <4>2
    <3>3. a * Frame <= AudioPts(DecodeStartMs(i)) /\ AudioPts(DecodeStartMs(i)) \in Int
      BY <1>2, <3>1, PtsOf
    <3>4. (a + 1) * Frame = a * Frame + Frame /\ a * Frame \in Int /\ a + 1 \in Int
      BY <1>1, <1>15, ProductOrder
    <3>5. (a + 1) * Frame <= s
      BY <1>1, <3>2, <3>3, <3>4
    <3>6. a + 1 <= s \div Frame
      BY <1>1, <3>4, <3>5, DivideWhole, Zenon
    <3>7. QED
      BY <1>6, <1>11, <2>2, <3>6 DEF FrameAt
  <2>3. QED
    BY <2>1, <2>2
<1>17. CutoffPts(i) \in Int /\ CutoffPts(i) = e + AudioPts(Lookahead)
  <2>1. EndMs(i) + Lookahead \in Int
    BY <1>1, <1>2
  <2>2. AudioPts(EndMs(i) + Lookahead) \in Int
    BY <2>1, PtsOf
  <2>3. AudioPts(EndMs(i) + Lookahead) = AudioPts(EndMs(i)) + AudioPts(Lookahead)
    BY <1>1, <1>2, PtsOrder
  <2>4. QED
    BY <1>5, <2>2, <2>3 DEF CutoffPts
<1>18. AnchorPts(i) + (end - a + EncoderDelay) * Frame <= CutoffPts(i)
  <2>1. PICK d \in Int : d = EncoderDelay * Frame
    BY <1>1
  <2>2. PICK l \in Int : l = AudioPts(Lookahead)
    BY <1>1, PtsOf
  <2>3. l + Rate >= d + Frame
    <3>1. AudioPts(Lookahead + 1) >= (EncoderDelay + 1) * Frame
      BY BuilderAssumption
    <3>2. (EncoderDelay + 1) * Frame = d + Frame
      BY <1>1, <2>1, ProductOrder
    <3>3. AudioPts(Lookahead + 1) = l + Rate
      <4>1. (Lookahead + 1) * Rate = Lookahead * Rate + Rate
        BY <1>1, ProductOrder
      <4>2. QED
        BY <2>2, <4>1 DEF AudioPts
    <3>4. QED
      BY <3>1, <3>2, <3>3
  <2>4. AnchorPts(i) + (end - a + EncoderDelay) * Frame = end * Frame + d /\ end * Frame \in Int
    <3>1. end - a \in Int /\ EncoderDelay \in Int
      BY <1>1
    <3>2. (end - a + EncoderDelay) * Frame = (end - a) * Frame + EncoderDelay * Frame
      BY <1>1, <3>1, ProductOrder
    <3>3. (end - a) * Frame = end * Frame - a * Frame /\ end * Frame \in Int /\ a * Frame \in Int
      BY <1>1, ProductOrder
    <3>4. QED
      BY <1>15, <2>1, <3>2, <3>3
  <2>5. end * Frame + d <= e + l
    <3>1. CASE fe <= first
      <4>1. end * Frame = first * Frame + Frame /\ first * Frame <= fs * Frame
            /\ first * Frame \in Int /\ fs * Frame \in Int
        BY <1>1, <1>12, <1>13, <3>1, ProductOrder
      <4>2. QED
        BY <1>1, <1>8, <2>3, <4>1
    <3>2. CASE ~(fe <= first)
      <4>1. end = fe /\ fe * Frame \in Int
        BY <1>1, <1>12, <3>2, ProductOrder
      <4>2. QED
        BY <1>1, <1>8, <2>3, <4>1
    <3>3. QED
      BY <3>1, <3>2
  <2>6. QED
    BY <1>17, <2>2, <2>4, <2>5
<1>19. QED
  BY <1>11, <1>12, <1>13, <1>14, <1>15, <1>16, <1>17, <1>18
-----------------------------------------------------------------------------
(* The packets of a segment.                                               *)

\* Nothing before the seek position counts.
LEMMA BeforeSeek ==
  ASSUME file \in Files, NEW i \in Listed, NEW p \in 0 .. Len(Packets),
         p < SeekPosition(DecodeStartMs(i))
  PROVE  SamplesUpTo(i)[p] = <<>>
<1> DEFINE g == SamplesUpTo(i)
           N == Len(Packets)
           sp == SeekPosition(DecodeStartMs(i))
           T == {n \in Nat : n <= N /\ n < sp => g[n] = <<>>}
<1>1. N \in Nat /\ sp \in 1 .. (N + 1)
  BY FileType, Bounds, SeekIsEarly
<1>2. /\ g[0] = <<>>
      /\ \A u \in 1 .. N : g[u] = IF AudioRead(i, u) THEN Decode(i, g[u - 1], u) ELSE g[u - 1]
  BY Gathered
<1>3. \A u : AudioRead(i, u) => u >= sp
  BY DEF AudioRead
<1> HIDE DEF g, sp
<1>4. 0 \in T
  BY <1>2
<1>5. ASSUME NEW n \in Nat, n \in T PROVE n + 1 \in T
  <2>1. SUFFICES ASSUME n + 1 <= N, n + 1 < sp PROVE g[n + 1] = <<>>
    OBVIOUS
  <2>2. n + 1 \in 1 .. N /\ (n + 1) - 1 = n /\ n < sp /\ n <= N
    BY <1>1, <2>1
  <2>3. ~AudioRead(i, n + 1)
    BY <1>1, <1>3, <2>1
  <2>4. QED
    BY <1>2, <1>5, <2>2, <2>3
<1>6. \A n \in Nat : n \in T
  <2> HIDE DEF T
  <2>1. QED
    BY <1>4, <1>5, InductionOnSet
<1>7. p \in Nat /\ p <= N /\ p < sp
  BY <1>1 DEF sp
<1>8. QED
  BY <1>6, <1>7 DEF g

\* A build that has read up to the end of the lookahead and sent all the frames
\* it had has sent what the segment and the encoder take.
LEMMA Enough ==
  ASSUME file \in Files, NEW i \in Listed, AudioReaches(i), NEW v \in 0 .. Len(Packets),
         v = Len(Packets) \/ PastLookahead(i, v + 1), NEW m \in Int,
         \A n \in Int : n * Frame <= Len(SamplesUpTo(i)[v])
                          /\ AnchorPts(i) + n * Frame <= CutoffPts(i) => n <= m
  PROVE  EndFrame(i) - FrameAt(AnchorPts(i)) + EncoderDelay <= m
<1>1. PICK u \in 0 .. Len(Packets) :
        /\ \A p \in 1 .. u : ~PastLookahead(i, p)
        /\ u = Len(Packets) \/ PastLookahead(i, u + 1)
        /\ Len(SamplesUpTo(i)[u]) >=
             (EndFrame(i) - FrameAt(AnchorPts(i)) + EncoderDelay) * Frame
  BY DEF AudioReaches
<1>2. HasAudio /\ Len(Packets) \in Nat
  BY FileType DEF AudioReaches
<1>3. u <= v
  <2> SUFFICES ASSUME v < u PROVE FALSE
    BY <1>2
  <2>1. v + 1 \in 1 .. u /\ v # Len(Packets)
    BY <1>2
  <2>2. QED
    BY <1>1, <2>1
<1>4. PICK n \in Int : n = EndFrame(i) - FrameAt(AnchorPts(i)) + EncoderDelay
  BY <1>2, SegmentFrames, AnchorIsWhole, BuilderAssumption
<1>5. n * Frame \in Int
  BY ProductOrder, BuilderAssumption
<1>6. IsPrefixOf(SamplesUpTo(i)[u], SamplesUpTo(i)[v])
  BY <1>3, SamplesGrow
<1>7. /\ Len(SamplesUpTo(i)[u]) \in Nat /\ Len(SamplesUpTo(i)[v]) \in Nat
      /\ Len(SamplesUpTo(i)[u]) <= Len(SamplesUpTo(i)[v])
  BY <1>6 DEF IsPrefixOf
<1>8. n * Frame <= Len(SamplesUpTo(i)[v])
  BY <1>1, <1>4, <1>5, <1>7
<1>9. AnchorPts(i) + n * Frame <= CutoffPts(i)
  BY <1>2, <1>4, SegmentFrames
<1>10. QED
  BY <1>4, <1>8, <1>9

-----------------------------------------------------------------------------
(* The invariant of the audio.                                             *)

\* What segment i has sent and has in its queue, up to packet u: k frames of
\* its samples, and the samples behind them.
Sending(i, u, k) ==
  /\ Encoding(SourceSamples(i), AnchorPts(i), k)
  /\ Window(queue, SourceSamples(i), k * Frame, Len(SamplesUpTo(i)[u]))

\* The build sends its samples from the anchor on, frame after frame. When it
\* is done without a failed read it has sent as many as its segment takes.
BuildAudioInv ==
  /\ phase \in {"walk", "drain"} =>
       /\ pos >= SeekPosition(DecodeStartMs(seg))
       /\ \E k \in Nat : Sending(seg, pos - 1, k)
  /\ phase = "finish" => \E k \in Nat :
       /\ Encoding(SourceSamples(seg), AnchorPts(seg), k)
       /\ ~failed /\ AudioReaches(seg) =>
            k >= EndFrame(seg) - FrameAt(AnchorPts(seg)) + EncoderDelay

\* s holds the audio of segment i, frame after frame.
WholeAudio(s, i) ==
  /\ Len(s) = EndFrame(i) - FirstFrame(i)
  /\ \A n \in 1 .. Len(s) :
       /\ s[n].index = FirstFrame(i) + n - 1
       /\ IsPayload(s[n].payload, SourceSamples(i), FirstFrame(i) + n - 1 - FrameAt(AnchorPts(i)))
  /\ DOMAIN s = 1 .. Len(s)

CachedAudioInv == \A i \in intact : AudioReaches(i) => WholeAudio(AudioOf(i), i)

AudioInv == BuilderInv /\ HeldInv /\ BuildAudioInv /\ CachedAudioInv

-----------------------------------------------------------------------------
(* Steps.                                                                  *)

\* What the file says of a segment stays.
LEMMA SameFile ==
  ASSUME file' = file
  PROVE  /\ Packets' = Packets /\ Listed' = Listed /\ HasAudio' = HasAudio
         /\ \A i : /\ SeekPosition(DecodeStartMs(i))' = SeekPosition(DecodeStartMs(i))
                   /\ AnchorPts(i)' = AnchorPts(i)
                   /\ FirstFrame(i)' = FirstFrame(i) /\ EndFrame(i)' = EndFrame(i)
                   /\ SamplesUpTo(i)' = SamplesUpTo(i)
                   /\ SourceSamples(i)' = SourceSamples(i)
                   /\ AudioReaches(i)' = AudioReaches(i)
<1>1. Packets' = Packets /\ Listed' = Listed
  BY DEF Packets, Listed
<1>2. \A p : IsAudio(p)' = IsAudio(p) /\ Timed(p)' = Timed(p) /\ Decoded(p)' = Decoded(p)
  BY <1>1 DEF IsAudio, Timed, Decoded
<1>3. HasAudio' = HasAudio
  BY <1>1, <1>2 DEF HasAudio
<1>4. \A i : /\ StartMs(i)' = StartMs(i) /\ EndMs(i)' = EndMs(i)
             /\ DecodeStartMs(i)' = DecodeStartMs(i)
  BY DEF StartMs, EndMs, DecodeStartMs
<1>5. \A i : SeekPosition(DecodeStartMs(i))' = SeekPosition(DecodeStartMs(i))
  BY DEF SeekPosition, DecodeStartMs, StartMs
<1>6. \A i : AnchorPts(i)' = AnchorPts(i)
  BY <1>3, <1>4 DEF AnchorPts, EncodeStartPts
<1>7. \A i : FirstFrame(i)' = FirstFrame(i)
  BY <1>3, <1>4 DEF FirstFrame
<1>8. \A i : EndFrame(i)' = EndFrame(i)
  BY <1>4, <1>7 DEF EndFrame
<1>9. \A i : SamplesUpTo(i)' = SamplesUpTo(i)
  BY DEF SamplesUpTo, AudioRead, Decode, AudioMs, IsAudio, Timed, DecodeStartMs, StartMs,
         Decoded, Packets, SeekPosition
<1>10. \A i : SourceSamples(i)' = SourceSamples(i)
  BY <1>1, <1>9 DEF SourceSamples
<1>11. \A i, p : PastLookahead(i, p)' = PastLookahead(i, p)
  BY <1>2, <1>4, <1>5, <1>1 DEF PastLookahead, AudioRead, AudioMs
<1>12. \A i : AudioReaches(i)' = AudioReaches(i)
  BY <1>1, <1>3, <1>6, <1>8, <1>9, <1>11 DEF AudioReaches
<1>13. QED
  BY <1>1, <1>3, <1>5, <1>6, <1>7, <1>8, <1>9, <1>10, <1>12

\* Nothing is encoded first.
LEMMA AudioInit == Init => AudioInv
<1> SUFFICES ASSUME Init PROVE AudioInv
  OBVIOUS
<1>1. encoder \in Seq(EncoderFrame) /\ Len(encoder) = 0
  <2>1. <<>> \in Seq(EncoderFrame) /\ Len(<<>>) = 0
    OBVIOUS
  <2>2. QED
    BY <2>1 DEF Init
<1>2. HeldInv
  BY <1>1, BuilderAssumption DEF HeldInv
<1>3. BuildAudioInv /\ CachedAudioInv
  BY DEF Init, BuildAudioInv, CachedAudioInv
<1>4. QED
  BY <1>2, <1>3, BuilderInit DEF AudioInv

\* A build starts with what the encoder held, and nothing sent.
LEMMA StartAudio ==
  ASSUME AudioInv, NEW i \in Segment, Start(i)
  PROVE  HeldInv' /\ BuildAudioInv'
<1>1. file \in Files /\ i \in Listed /\ Len(Packets) \in Nat
  BY FileType DEF AudioInv, BuilderInv, BuilderTypeInv, TypeOK, Start
<1>2. /\ file' = file /\ seg' = i /\ phase' = "walk" /\ queue' = <<>>
      /\ pos' = SeekPosition(DecodeStartMs(i)) /\ nextPts' = AnchorPts(i) /\ encoder' = encoder
  BY DEF Start, ResetEncoder
<1>3. PICK sp : sp = SeekPosition(DecodeStartMs(i)) /\ sp \in 1 .. (Len(Packets) + 1)
  BY <1>1, Bounds, SeekIsEarly
<1>4. PICK a \in Int : a = AnchorPts(i)
  BY <1>1, AnchorIsWhole
<1>5. PICK z : z = SourceSamples(i) /\ z \in Seq(Int)
  <2>1. Len(Packets) \in 0 .. Len(Packets)
    BY <1>1
  <2>2. QED
    BY <1>1, <2>1, Gathered DEF SourceSamples
<1>6. HeldInv' /\ encoder \in Seq(EncoderFrame)
  BY <1>2 DEF AudioInv, HeldInv
<1>7. PICK h \in Nat : h = Len(encoder)
  BY <1>6
<1>8. 0 * Frame = 0
  BY BuilderAssumption
<1>9. EndsWith(encoder, z, a, 0)
  BY <1>7 DEF EndsWith
<1>10. HasFrames(build', z, a, Len(encoder), 0)
  BY <1>7 DEF HasFrames
<1>11. Window(queue', z, 0 * Frame, Len(SamplesUpTo(i)[sp - 1]))
  <2>1. sp - 1 \in 0 .. Len(Packets) /\ sp - 1 < sp
    BY <1>1, <1>3
  <2>2. SamplesUpTo(i)[sp - 1] = <<>>
    BY <1>1, <1>3, <2>1, BeforeSeek
  <2>3. <<>> \in Seq(Int) /\ Len(<<>>) = 0
    OBVIOUS
  <2>4. Len(z) \in Nat
    BY <1>5
  <2>5. QED
    BY <1>2, <1>5, <1>8, <2>2, <2>3, <2>4 DEF Window
<1>12. Sending(i, sp - 1, 0)'
  <2>1. AnchorPts(i)' = a /\ SourceSamples(i)' = z /\ SamplesUpTo(i)' = SamplesUpTo(i)
    BY <1>2, <1>4, <1>5, SameFile
  <2>2. nextPts' = a + 0 * Frame
    BY <1>2, <1>4, <1>8
  <2>3. QED
    BY <1>2, <1>9, <1>10, <1>11, <2>1, <2>2 DEF Sending, Encoding
<1>13. SeekPosition(DecodeStartMs(i))' = sp
  BY <1>2, <1>3, SameFile
<1>14. BuildAudioInv'
  BY <1>2, <1>3, <1>12, <1>13 DEF BuildAudioInv
<1>15. QED
  BY <1>6, <1>14

\* What is sent and queued, when a packet is read that is not audio.
LEMMA ReadOther ==
  ASSUME AudioInv, phase \in {"walk", "drain"}, Reads, ~IsAudio(pos),
         UNCHANGED <<file, seg, audioVars>>,
         phase' \in {"walk", "drain"} \/ (phase' = "finish" /\ ~HasAudio)
  PROVE  HeldInv' /\ BuildAudioInv'
<1>1. file \in Files /\ seg \in Listed /\ Len(Packets) \in Nat /\ BuilderTypeInv
  BY FileType DEF AudioInv, BuilderInv, BuilderTypeInv, TypeOK, BuildInv
<1>2. PICK i \in Listed : i = seg
  BY <1>1
<1>3. PICK p \in 1 .. Len(Packets) : p = pos /\ pos' = p + 1
  BY <1>1, ReadMoves
<1>4. file' = file /\ seg' = i /\ UNCHANGED <<queue, nextPts, encoder, build>>
  BY <1>2 DEF audioVars
<1>5. HeldInv'
  BY <1>4 DEF AudioInv, HeldInv
<1>6. PICK k \in Nat : Sending(i, p - 1, k)
  BY <1>2, <1>3 DEF AudioInv, BuildAudioInv
<1>7. PICK sp \in Int : sp = SeekPosition(DecodeStartMs(i)) /\ p >= sp
  <2>1. SeekPosition(DecodeStartMs(i)) \in Int
    BY <1>1, Bounds, SeekIsEarly
  <2>2. pos >= SeekPosition(DecodeStartMs(seg))
    BY DEF AudioInv, BuildAudioInv
  <2>3. QED
    BY <1>2, <1>3, <2>1, <2>2
<1>8. SamplesUpTo(i)[p] = SamplesUpTo(i)[p - 1]
  BY <1>1, <1>3, Gathered DEF AudioRead
<1>9. /\ SourceSamples(i)' = SourceSamples(i) /\ AnchorPts(i)' = AnchorPts(i)
      /\ SamplesUpTo(i)' = SamplesUpTo(i) /\ SeekPosition(DecodeStartMs(i))' = sp
      /\ HasAudio' = HasAudio
  BY <1>4, <1>7, SameFile
<1>10. Encoding(SourceSamples(i), AnchorPts(i), k)'
  BY <1>4, <1>6, <1>9 DEF Sending, Encoding
<1>11. Sending(i, p, k)'
  BY <1>4, <1>6, <1>8, <1>9, <1>10 DEF Sending
<1>12. CASE phase' \in {"walk", "drain"}
  <2>1. pos' - 1 = p /\ pos' >= sp
    BY <1>3, <1>7
  <2>2. QED
    BY <1>4, <1>5, <1>9, <1>11, <1>12, <2>1 DEF BuildAudioInv
<1>13. CASE phase' = "finish" /\ ~HasAudio
  <2>1. ~AudioReaches(i)'
    BY <1>9, <1>13 DEF AudioReaches
  <2>2. QED
    BY <1>4, <1>5, <1>10, <1>13, <2>1 DEF BuildAudioInv
<1>14. QED
  BY <1>12, <1>13

\* What is sent and queued after an encoding run.
LEMMA RunEncodes ==
  ASSUME HeldInv, file \in Files, seg \in Listed, UNCHANGED <<file, seg>>,
         NEW u \in 0 .. Len(Packets), NEW k \in Nat,
         Encoding(SourceSamples(seg), AnchorPts(seg), k),
         NEW q, Window(q, SourceSamples(seg), k * Frame, Len(SamplesUpTo(seg)[u])),
         DrainAac(seg, q)
  PROVE  /\ HeldInv'
         /\ \E m \in Nat :
              /\ Sending(seg, u, m)'
              /\ AudioReaches(seg) /\ (u = Len(Packets) \/ PastLookahead(seg, u + 1)) =>
                   m >= EndFrame(seg) - FrameAt(AnchorPts(seg)) + EncoderDelay
<1>1. PICK a \in Int : a = AnchorPts(seg)
  BY AnchorIsWhole
<1>2. PICK z : z = SourceSamples(seg)
  OBVIOUS
<1>3. PICK to : to = Len(SamplesUpTo(seg)[u])
  OBVIOUS
<1>4. PICK i \in Listed : i = seg
  OBVIOUS
<1>5. CutoffPts(i) \in Int
  BY Bounds, BuilderAssumption DEF CutoffPts, AudioPts
<1>6. Encoding(z, a, k) /\ Window(q, z, k * Frame, to) /\ DrainAac(i, q)
  BY <1>1, <1>2, <1>3, <1>4
<1>7. /\ HeldInv'
      /\ \E m \in Nat :
           /\ Encoding(z, a, m)'
           /\ Window(queue', z, m * Frame, to)
           /\ HasAudio => \A n \in Int :
                n * Frame <= to /\ a + n * Frame <= CutoffPts(i) => n <= m
  BY <1>5, <1>6, EncodesOn
<1>8. PICK m \in Nat :
        /\ Encoding(z, a, m)'
        /\ Window(queue', z, m * Frame, to)
        /\ HasAudio => \A n \in Int :
             n * Frame <= to /\ a + n * Frame <= CutoffPts(i) => n <= m
  BY <1>7
<1>9. /\ SourceSamples(i)' = z /\ AnchorPts(i)' = a /\ SamplesUpTo(i)' = SamplesUpTo(i)
  BY <1>1, <1>2, <1>4, SameFile
<1>10. Sending(seg, u, m)'
  BY <1>3, <1>4, <1>8, <1>9 DEF Sending
<1>11. ASSUME AudioReaches(seg), u = Len(Packets) \/ PastLookahead(seg, u + 1)
       PROVE  m >= EndFrame(seg) - FrameAt(AnchorPts(seg)) + EncoderDelay
  <2>1. HasAudio
    BY <1>11 DEF AudioReaches
  <2>2. \A n \in Int : n * Frame <= Len(SamplesUpTo(seg)[u])
                         /\ AnchorPts(seg) + n * Frame <= CutoffPts(seg) => n <= m
    BY <1>1, <1>3, <1>4, <1>8, <2>1
  <2>3. EndFrame(seg) - FrameAt(AnchorPts(seg)) + EncoderDelay <= m
    BY <1>11, <2>2, Enough
  <2>4. QED
    BY <2>1, <2>3, SegmentFrames, AnchorIsWhole, BuilderAssumption
<1>12. QED
  BY <1>7, <1>10, <1>11

\* A packet of audio in front of the boundary.
LEMMA WalkAudioStep ==
  ASSUME AudioInv, WalkAudio
  PROVE  HeldInv' /\ BuildAudioInv'
<1>1. /\ file \in Files /\ seg \in Listed /\ Len(Packets) \in Nat /\ BuilderTypeInv
      /\ HeldInv /\ phase = "walk" /\ phase' = "walk"
  BY FileType DEF AudioInv, BuilderInv, BuilderTypeInv, TypeOK, BuildInv, WalkAudio
<1>2. PICK i \in Listed : i = seg
  BY <1>1
<1>3. PICK p \in 1 .. Len(Packets) : p = pos /\ pos' = p + 1
  BY <1>1, ReadMoves DEF WalkAudio
<1>4. file' = file /\ seg' = i /\ seg' = seg
  BY <1>2 DEF WalkAudio
<1>5. PICK k \in Nat : Sending(i, p - 1, k)
  BY <1>1, <1>2, <1>3 DEF AudioInv, BuildAudioInv
<1>6. PICK sp \in Int : sp = SeekPosition(DecodeStartMs(i)) /\ p >= sp
  <2>1. SeekPosition(DecodeStartMs(i)) \in Int
    BY <1>1, Bounds, SeekIsEarly
  <2>2. pos >= SeekPosition(DecodeStartMs(seg))
    BY <1>1 DEF AudioInv, BuildAudioInv
  <2>3. QED
    BY <1>2, <1>3, <2>1, <2>2
<1>7. AudioRead(i, p)
  BY <1>3, <1>6 DEF AudioRead, WalkAudio
<1>8. PICK q : q = Decode(i, queue, p)
  OBVIOUS
<1>9. DrainAac(seg, q)
  BY <1>2, <1>3, <1>8 DEF WalkAudio
<1>10. Encoding(SourceSamples(seg), AnchorPts(seg), k)
  BY <1>2, <1>5 DEF Sending
<1>11. Window(q, SourceSamples(seg), k * Frame, Len(SamplesUpTo(seg)[p]))
  <2>1. Window(queue, SourceSamples(i), k * Frame, Len(SamplesUpTo(i)[p - 1]))
    BY <1>5 DEF Sending
  <2>2. Window(IF AudioRead(i, p) THEN Decode(i, queue, p) ELSE queue,
               SourceSamples(i), k * Frame, Len(SamplesUpTo(i)[p]))
    BY <1>1, <2>1, WindowGrows
  <2>3. QED
    BY <1>2, <1>7, <1>8, <2>2
<1>12. p \in 0 .. Len(Packets)
  BY <1>1
<1>13. HeldInv' /\ \E m \in Nat : Sending(seg, p, m)'
  BY <1>1, <1>4, <1>9, <1>10, <1>11, <1>12, RunEncodes
<1>14. SeekPosition(DecodeStartMs(i))' = sp
  BY <1>4, <1>6, SameFile
<1>15. pos' - 1 = p /\ pos' >= sp
  BY <1>3, <1>6
<1>16. PICK m \in Nat : Sending(i, p, m)'
  BY <1>4, <1>13
<1>17. QED
  BY <1>1, <1>4, <1>13, <1>14, <1>15, <1>16 DEF BuildAudioInv

\* A packet of audio behind the boundary.
LEMMA DrainAudioStep ==
  ASSUME AudioInv, DrainAudio
  PROVE  HeldInv' /\ BuildAudioInv'
<1>1. /\ file \in Files /\ seg \in Listed /\ Len(Packets) \in Nat /\ BuilderTypeInv
      /\ HeldInv /\ phase = "drain"
  BY FileType DEF AudioInv, BuilderInv, BuilderTypeInv, TypeOK, BuildInv, DrainAudio
<1>2. PICK i \in Listed : i = seg
  BY <1>1
<1>3. PICK p \in 1 .. Len(Packets) : p = pos /\ pos' = p + 1
  BY <1>1, ReadMoves DEF DrainAudio
<1>4. file' = file /\ seg' = i /\ seg' = seg
  BY <1>2 DEF DrainAudio
<1>5. PICK k \in Nat : Sending(i, p - 1, k)
  BY <1>1, <1>2, <1>3 DEF AudioInv, BuildAudioInv
<1>6. PICK sp \in Int : sp = SeekPosition(DecodeStartMs(i)) /\ p >= sp
  <2>1. SeekPosition(DecodeStartMs(i)) \in Int
    BY <1>1, Bounds, SeekIsEarly
  <2>2. pos >= SeekPosition(DecodeStartMs(seg))
    BY <1>1 DEF AudioInv, BuildAudioInv
  <2>3. QED
    BY <1>2, <1>3, <2>1, <2>2
<1>7. AudioRead(i, p)
  BY <1>3, <1>6 DEF AudioRead, DrainAudio
<1>8. CASE AudioMs(seg, pos) <= EndMs(seg) + Lookahead
  <2>1. /\ queue' = Decode(i, queue, p) /\ phase' = "drain"
        /\ UNCHANGED <<nextPts, encoder, build>>
    BY <1>1, <1>2, <1>3, <1>8 DEF DrainAudio
  <2>2. HeldInv'
    BY <1>1, <2>1 DEF HeldInv
  <2>3. Window(queue, SourceSamples(i), k * Frame, Len(SamplesUpTo(i)[p - 1]))
    BY <1>5 DEF Sending
  <2>4. Window(IF AudioRead(i, p) THEN Decode(i, queue, p) ELSE queue,
               SourceSamples(i), k * Frame, Len(SamplesUpTo(i)[p]))
    BY <1>1, <2>3, WindowGrows
  <2>5. Window(queue', SourceSamples(i), k * Frame, Len(SamplesUpTo(i)[p]))
    BY <1>7, <2>1, <2>4
  <2>6. /\ SourceSamples(i)' = SourceSamples(i) /\ AnchorPts(i)' = AnchorPts(i)
        /\ SamplesUpTo(i)' = SamplesUpTo(i) /\ SeekPosition(DecodeStartMs(i))' = sp
    BY <1>4, <1>6, SameFile
  <2>7. Sending(i, p, k)'
    BY <1>5, <2>1, <2>5, <2>6 DEF Sending, Encoding
  <2>8. pos' - 1 = p /\ pos' >= sp
    BY <1>3, <1>6
  <2>9. QED
    BY <1>4, <2>1, <2>2, <2>6, <2>7, <2>8 DEF BuildAudioInv
<1>9. CASE ~(AudioMs(seg, pos) <= EndMs(seg) + Lookahead)
  <2>1. DrainAac(seg, queue) /\ phase' = "finish" /\ failed' = failed
    BY <1>9 DEF DrainAudio
  <2>2. PastLookahead(i, p)
    <3>1. EndMs(i) \in Nat /\ DecodeStartMs(i) \in Nat /\ Lookahead \in Nat
      BY <1>1, Bounds, BuilderAssumption
    <3>2. AudioMs(i, p) \in Nat
      <4>1. Packets[p] \in [track : {"video", "audio", "subtitle"}, key : BOOLEAN,
                            t : Nat \cup {NoTime}, at : Nat, n : Nat]
        BY <1>1, FileType, ElementIn
      <4>2. QED
        BY <3>1, <4>1 DEF AudioMs, Timed
    <3>3. ~(AudioMs(i, p) <= EndMs(i) + Lookahead)
      BY <1>2, <1>3, <1>9
    <3>4. QED
      BY <1>7, <3>1, <3>2, <3>3 DEF PastLookahead
  <2>3. p - 1 \in 0 .. Len(Packets) /\ (p - 1) + 1 = p
    BY <1>1
  <2>4. /\ Encoding(SourceSamples(seg), AnchorPts(seg), k)
        /\ Window(queue, SourceSamples(seg), k * Frame, Len(SamplesUpTo(seg)[p - 1]))
    BY <1>2, <1>5 DEF Sending
  <2>5. /\ HeldInv'
        /\ \E m \in Nat :
             /\ Sending(seg, p - 1, m)'
             /\ AudioReaches(seg)
                  /\ (p - 1 = Len(Packets) \/ PastLookahead(seg, (p - 1) + 1)) =>
                  m >= EndFrame(seg) - FrameAt(AnchorPts(seg)) + EncoderDelay
    BY <1>1, <1>4, <2>1, <2>3, <2>4, RunEncodes
  <2>6. PICK m \in Nat :
          /\ Sending(i, p - 1, m)'
          /\ AudioReaches(i) => m >= EndFrame(i) - FrameAt(AnchorPts(i)) + EncoderDelay
    BY <1>2, <1>4, <2>2, <2>3, <2>5
  <2>7. /\ AnchorPts(i)' = AnchorPts(i) /\ EndFrame(i)' = EndFrame(i)
        /\ AudioReaches(i)' = AudioReaches(i)
    BY <1>4, SameFile
  <2>8. Encoding(SourceSamples(i), AnchorPts(i), m)'
    BY <2>6 DEF Sending
  <2>9. QED
    BY <1>4, <2>1, <2>5, <2>6, <2>7, <2>8 DEF BuildAudioInv
<1>10. QED
  BY <1>8, <1>9

\* The end of the reading.
LEMMA ReadEndsStep ==
  ASSUME AudioInv, ReadEnds
  PROVE  HeldInv' /\ BuildAudioInv'
<1>1. /\ file \in Files /\ seg \in Listed /\ Len(Packets) \in Nat
      /\ HeldInv /\ phase \in {"walk", "drain"} /\ pos \in 1 .. (Len(Packets) + 1)
  BY FileType DEF AudioInv, BuilderInv, BuilderTypeInv, TypeOK, BuildInv, ReadEnds
<1>2. PICK i \in Listed : i = seg
  BY <1>1
<1>3. PICK u \in 0 .. Len(Packets) : u = pos - 1
  BY <1>1
<1>4. file' = file /\ seg' = i /\ seg' = seg /\ phase' = "finish"
  BY <1>2 DEF ReadEnds
<1>5. PICK k \in Nat : Sending(seg, u, k)
  BY <1>1, <1>3 DEF AudioInv, BuildAudioInv
<1>6. DrainAac(seg, queue)
  BY DEF ReadEnds
<1>7. /\ Encoding(SourceSamples(seg), AnchorPts(seg), k)
      /\ Window(queue, SourceSamples(seg), k * Frame, Len(SamplesUpTo(seg)[u]))
  BY <1>5 DEF Sending
<1>8. /\ HeldInv'
      /\ \E m \in Nat :
           /\ Sending(seg, u, m)'
           /\ AudioReaches(seg) /\ (u = Len(Packets) \/ PastLookahead(seg, u + 1)) =>
                m >= EndFrame(seg) - FrameAt(AnchorPts(seg)) + EncoderDelay
  BY <1>1, <1>4, <1>6, <1>7, RunEncodes
<1>9. PICK m \in Nat :
        /\ Sending(i, u, m)'
        /\ AudioReaches(i) /\ u = Len(Packets) =>
             m >= EndFrame(i) - FrameAt(AnchorPts(i)) + EncoderDelay
  BY <1>2, <1>4, <1>8
<1>10. failed' \/ u = Len(Packets)
  BY <1>1, <1>3 DEF ReadEnds
<1>11. /\ AnchorPts(i)' = AnchorPts(i) /\ EndFrame(i)' = EndFrame(i)
       /\ AudioReaches(i)' = AudioReaches(i)
  BY <1>4, SameFile
<1>12. Encoding(SourceSamples(i), AnchorPts(i), m)'
  BY <1>9 DEF Sending
<1>13. QED
  BY <1>4, <1>8, <1>9, <1>10, <1>11, <1>12 DEF BuildAudioInv

\* What a build that read it all hands out.
LEMMA OutputWhole ==
  ASSUME AudioInv, phase = "finish", ~failed, AudioReaches(seg)
  PROVE  WholeAudio(OutputAudio, seg)
<1>1. file \in Files /\ seg \in Listed /\ HasAudio
  BY DEF AudioInv, BuilderInv, BuilderTypeInv, TypeOK, BuildInv, AudioReaches
<1>2. PICK h \in Nat : h = Len(encoder) /\ h <= EncoderDelay
  BY DEF AudioInv, HeldInv
<1>3. PICK z : z = SourceSamples(seg)
  OBVIOUS
<1>4. PICK a \in Int : a = FrameAt(AnchorPts(seg))
  BY <1>1, AnchorIsWhole
<1>5. PICK first \in Int : first = FirstFrame(seg) /\ first >= a
  BY <1>1, <1>4, SegmentFrames
<1>6. PICK end \in Int : end = EndFrame(seg) /\ first < end
  BY <1>1, <1>5, SegmentFrames
<1>7. PICK k \in Nat : /\ HasFrames(build, z, AnchorPts(seg), h, k)
                       /\ k >= end - a + EncoderDelay
  BY <1>2, <1>3, <1>4, <1>6 DEF AudioInv, BuildAudioInv, Encoding
<1>8. ASSUME NEW x \in first .. (end - 1)
      PROVE  IsPayload(OutputFrame(x), z, x - a) /\ OutputFrame(x) # Absent
  <2>1. x \in AudioIndex
    BY <1>1, <1>5, <1>6, SegmentFrames
  <2>2. PICK n \in Nat : n = x - a /\ x = a + n
    BY <1>5
  <2>3. n + h < k
    BY <1>2, <1>7, <2>2, BuilderAssumption
  <2>4. IsPayload(build[a + n], z, n)
    BY <1>4, <1>7, <2>1, <2>2, <2>3 DEF HasFrames
  <2>5. build[x] \in AacPayload
    BY <2>2, <2>4 DEF IsPayload
  <2>6. build[x] # Absent
    BY <2>5, BuilderAssumption
  <2>7. OutputFrame(x) = build[x]
    BY <2>6 DEF OutputFrame
  <2>8. QED
    BY <2>2, <2>4, <2>6, <2>7
<1> DEFINE has == {x \in FirstFrame(seg) .. (EndFrame(seg) - 1) :
                     HasAudio /\ OutputFrame(x) # Absent}
           nth(n) == CHOOSE x \in has : Cardinality({y \in has : y < x}) = n - 1
           card == Cardinality(has)
<1>9. has = first .. (end - 1)
  BY <1>1, <1>5, <1>6, <1>8
<1>10. OutputAudio = [n \in 1 .. card |->
                       [index |-> nth(n), payload |-> OutputFrame(nth(n))]]
  BY DEF OutputAudio
<1> HIDE DEF has
<1>11. card = end - first /\ card \in Nat
  <2>1. Cardinality(first .. (end - 1)) = (end - 1) - first + 1
    BY <1>6, FS_Interval
  <2>2. QED
    BY <1>6, <1>9, <2>1
<1>12. ASSUME NEW x \in first .. (end - 1)
       PROVE  Cardinality({y \in has : y < x}) = x - first
  <2>1. {y \in has : y < x} = first .. (x - 1)
    BY <1>9
  <2>2. PICK b \in Int : b = x - 1 /\ first <= b + 1
    OBVIOUS
  <2>3. Cardinality(first .. b) = IF first > b THEN 0 ELSE b - first + 1
    BY FS_Interval
  <2>4. Cardinality(first .. b) = x - first
    BY <2>2, <2>3
  <2>5. {y \in has : y < x} = first .. b
    BY <2>1, <2>2
  <2>6. QED
    BY <2>4, <2>5
<1>13. ASSUME NEW n \in 1 .. card PROVE nth(n) = first + n - 1 /\ first + n - 1 \in first .. (end - 1)
  <2>1. first + n - 1 \in first .. (end - 1)
    BY <1>11
  <2>2. first + n - 1 \in has /\ Cardinality({y \in has : y < first + n - 1}) = n - 1
    BY <1>9, <1>12, <2>1
  <2>3. ASSUME NEW x \in has, Cardinality({y \in has : y < x}) = n - 1
        PROVE  x = first + n - 1
    BY <1>9, <1>12, <2>3
  <2>4. QED
    BY <2>1, <2>2, <2>3
<1>14. PICK s : s = OutputAudio
  OBVIOUS
<1> HIDE DEF card, nth
<1>15. DOMAIN s = 1 .. card
  BY <1>10, <1>14
<1>16. Len(s) = card
  BY <1>11, <1>15
<1>17. ASSUME NEW n \in 1 .. card
       PROVE  s[n].index = first + n - 1 /\ IsPayload(s[n].payload, z, first + n - 1 - a)
  <2>1. s[n] = [index |-> nth(n), payload |-> OutputFrame(nth(n))]
    BY <1>10, <1>14
  <2>2. s[n].index = first + n - 1 /\ s[n].payload = OutputFrame(first + n - 1)
    BY <1>13, <2>1
  <2>3. QED
    BY <1>8, <1>13, <2>2
<1>18. QED
  BY <1>3, <1>4, <1>5, <1>6, <1>11, <1>14, <1>15, <1>16, <1>17 DEF WholeAudio

\* What is cached stays what it was.
LEMMA CachedAudioStep ==
  ASSUME AudioInv, [Next]_vars
  PROVE  CachedAudioInv'
<1>1. CachedAudioInv
  BY DEF AudioInv
<1>2. ASSUME UNCHANGED <<file, segments, intact>> PROVE CachedAudioInv'
  <2>1. \A i : /\ AudioOf(i)' = AudioOf(i) /\ AudioReaches(i)' = AudioReaches(i)
               /\ FirstFrame(i)' = FirstFrame(i) /\ EndFrame(i)' = EndFrame(i)
               /\ AnchorPts(i)' = AnchorPts(i) /\ SourceSamples(i)' = SourceSamples(i)
    BY <1>2, SameFile DEF AudioOf
  <2>2. QED
    BY <1>1, <1>2, <2>1 DEF CachedAudioInv, WholeAudio
<1>3. CASE Finish /\ video # <<>>
  <2> DEFINE body == [video |-> video, audio |-> OutputAudio]
  <2>1. /\ phase = "finish" /\ UNCHANGED <<file, seg>>
        /\ segments' = Insert(segments, seg, body)
        /\ intact' = {i \in Cached(segments)' : IF i = seg THEN ~failed ELSE i \in intact}
    BY <1>3 DEF Finish
  <2>2. body.audio = OutputAudio
    OBVIOUS
  <2> HIDE DEF body
  <2>3. \A i : /\ AudioReaches(i)' = AudioReaches(i)
               /\ FirstFrame(i)' = FirstFrame(i) /\ EndFrame(i)' = EndFrame(i)
               /\ AnchorPts(i)' = AnchorPts(i) /\ SourceSamples(i)' = SourceSamples(i)
    BY <2>1, SameFile
  <2>4. ASSUME NEW i \in intact', AudioReaches(i)
        PROVE  WholeAudio(segments'[i].audio, i)
    <3>1. i \in Cached(Insert(segments, seg, body))
      BY <2>1 DEF Cached
    <3>2. CASE i = seg
      <4>1. segments'[i].audio = OutputAudio /\ ~failed
        BY <2>1, <2>2, <3>1, <3>2, InsertKeeps
      <4>2. WholeAudio(OutputAudio, seg)
        BY <2>1, <2>4, <3>2, <4>1, OutputWhole
      <4>3. QED
        BY <3>2, <4>1, <4>2
    <3>3. CASE i # seg
      <4>1. i \in intact /\ segments'[i] = segments[i]
        BY <2>1, <3>1, <3>3, InsertKeeps
      <4>2. QED
        BY <1>1, <2>4, <4>1 DEF CachedAudioInv, AudioOf
    <3>4. QED
      BY <3>2, <3>3
  <2>5. \A i : AudioOf(i)' = segments'[i].audio
    BY DEF AudioOf
  <2>6. QED
    BY <2>3, <2>4, <2>5 DEF CachedAudioInv, WholeAudio
<1>4. CASE Finish /\ video = <<>>
  BY <1>2, <1>4 DEF Finish
<1>5. CASE \E i \in Segment : Start(i)
  BY <1>2, <1>5 DEF Start
<1>6. CASE SkipPacket \/ TakeVideo \/ ReachBoundary \/ WalkAudio \/ DrainOther
             \/ DrainAudio \/ ReadEnds
  BY <1>2, <1>6
     DEF SkipPacket, TakeVideo, ReachBoundary, WalkAudio, DrainOther, DrainAudio, ReadEnds
<1>7. CASE UNCHANGED vars
  BY <1>2, <1>7 DEF vars
<1>8. QED
  BY <1>3, <1>4, <1>5, <1>6, <1>7 DEF Next

\* Every step keeps what the encoder and the build hold.
LEMMA BuildAudioStep ==
  ASSUME AudioInv, [Next]_vars
  PROVE  HeldInv' /\ BuildAudioInv'
<1>1. CASE \E i \in Segment : Start(i)
  BY <1>1, StartAudio
<1>2. CASE SkipPacket
  BY <1>2, ReadOther DEF SkipPacket, IsVideo, IsAudio
<1>3. CASE TakeVideo
  BY <1>3, ReadOther DEF TakeVideo, IsVideo, IsAudio
<1>4. CASE ReachBoundary
  BY <1>4, ReadOther DEF ReachBoundary, IsVideo, IsAudio
<1>5. CASE DrainOther
  BY <1>5, ReadOther DEF DrainOther
<1>6. CASE WalkAudio
  BY <1>6, WalkAudioStep
<1>7. CASE DrainAudio
  BY <1>7, DrainAudioStep
<1>8. CASE ReadEnds
  BY <1>8, ReadEndsStep
<1>9. CASE Finish
  <2>1. encoder' = encoder /\ phase' = "idle"
    BY <1>9 DEF Finish
  <2>2. QED
    BY <2>1 DEF AudioInv, HeldInv, BuildAudioInv
<1>10. CASE UNCHANGED vars
  <2>1. UNCHANGED <<file, seg, phase, pos, queue, nextPts, encoder, build, failed>>
    BY <1>10 DEF vars
  <2>2. HeldInv'
    BY <2>1 DEF AudioInv, HeldInv
  <2>3. CASE phase \in {"walk", "drain"}
    <3>1. PICK i : i = seg
      OBVIOUS
    <3>2. PICK u : u = pos - 1
      OBVIOUS
    <3>3. PICK k \in Nat : Sending(i, u, k)
      BY <2>3, <3>1, <3>2 DEF AudioInv, BuildAudioInv
    <3>4. /\ SourceSamples(i)' = SourceSamples(i) /\ AnchorPts(i)' = AnchorPts(i)
          /\ SamplesUpTo(i)' = SamplesUpTo(i)
          /\ SeekPosition(DecodeStartMs(i))' = SeekPosition(DecodeStartMs(i))
      BY <2>1, SameFile
    <3>5. Sending(i, u, k)'
      BY <2>1, <3>3, <3>4 DEF Sending, Encoding
    <3>6. pos >= SeekPosition(DecodeStartMs(i))
      BY <2>3, <3>1 DEF AudioInv, BuildAudioInv
    <3>7. seg' = i /\ pos' - 1 = u /\ pos' = pos /\ phase' \in {"walk", "drain"}
      BY <2>1, <2>3, <3>1, <3>2
    <3>8. QED
      BY <2>2, <3>4, <3>5, <3>6, <3>7 DEF BuildAudioInv
  <2>4. CASE phase = "finish"
    <3>1. PICK i : i = seg
      OBVIOUS
    <3>2. PICK k \in Nat :
            /\ Encoding(SourceSamples(i), AnchorPts(i), k)
            /\ ~failed /\ AudioReaches(i) =>
                 k >= EndFrame(i) - FrameAt(AnchorPts(i)) + EncoderDelay
      BY <2>4, <3>1 DEF AudioInv, BuildAudioInv
    <3>3. /\ SourceSamples(i)' = SourceSamples(i) /\ AnchorPts(i)' = AnchorPts(i)
          /\ EndFrame(i)' = EndFrame(i) /\ AudioReaches(i)' = AudioReaches(i)
      BY <2>1, SameFile
    <3>4. Encoding(SourceSamples(i), AnchorPts(i), k)'
      BY <2>1, <3>2, <3>3 DEF Encoding
    <3>5. seg' = i /\ phase' = "finish" /\ failed' = failed
      BY <2>1, <2>4, <3>1
    <3>6. QED
      BY <2>2, <3>2, <3>3, <3>4, <3>5 DEF BuildAudioInv
  <2>5. CASE phase \notin {"walk", "drain", "finish"}
    BY <2>1, <2>2, <2>5 DEF BuildAudioInv
  <2>6. QED
    BY <2>3, <2>4, <2>5
<1>11. QED
  BY <1>1, <1>2, <1>3, <1>4, <1>5, <1>6, <1>7, <1>8, <1>9, <1>10 DEF Next

\* The invariant holds throughout.
LEMMA AudioAlways == Spec => []AudioInv
<1>1. ASSUME AudioInv, [Next]_vars PROVE AudioInv'
  <2>1. BuilderInv'
    BY <1>1, TypeStep, BuildStep, CachedStep DEF AudioInv, BuilderInv
  <2>2. QED
    BY <1>1, <2>1, BuildAudioStep, CachedAudioStep DEF AudioInv
<1>2. AudioInv /\ [Next]_vars => AudioInv'
  BY <1>1
<1>3. QED
  BY <1>2, AudioInit, PTL DEF Spec

-----------------------------------------------------------------------------
(* Theorems.                                                               *)

\* A build whose reads succeed emits each frame of its range once, in order,
\* for every file, every rate and size of frame, and every delay of the encoder
\* that the lookahead outlasts (Session.cpp:362-398).
THEOREM AudioComplete == Spec => []AudioIsComplete
<1>1. ASSUME AudioInv PROVE AudioIsComplete
  <2> SUFFICES ASSUME NEW i \in intact, AudioReaches(i)
               PROVE  /\ Len(AudioOf(i)) = EndFrame(i) - FirstFrame(i)
                      /\ \A n \in DOMAIN AudioOf(i) : AudioOf(i)[n].index = FirstFrame(i) + n - 1
    BY DEF AudioIsComplete
  <2>1. WholeAudio(AudioOf(i), i)
    BY <1>1 DEF AudioInv, CachedAudioInv
  <2>2. QED
    BY <2>1 DEF WholeAudio
<1>2. QED
  BY <1>1, AudioAlways, PTL

\* A payload is two sequences of samples.
LEMMA PayloadIs ==
  ASSUME NEW b \in AacPayload
  PROVE  b = [samples |-> b.samples, after |-> b.after]
BY DEF AacPayload

\* Frames come of the file alone, whatever the encoder and the session's cache
\* held of earlier builds, the first frame of segment 0 excepted
\* (AacTranscoder.cpp:65, Session.cpp:387).
THEOREM AudioFresh == Spec => []OnlyFirstFrameIsStale
<1>1. ASSUME AudioInv PROVE OnlyFirstFrameIsStale
  <2> SUFFICES ASSUME NEW i \in intact, AudioReaches(i),
                      NEW m \in (IF i = 0 THEN 2 ELSE 1) .. Len(AudioOf(i)),
                      NEW k, k = AudioOf(i)[m].index - FrameAt(AnchorPts(i))
               PROVE  AudioOf(i)[m].payload =
                        [samples |-> FrameOf(SourceSamples(i), k),
                         after   |-> FrameOf(SourceSamples(i), k - 1)]
    BY DEF OnlyFirstFrameIsStale, FreshFrom
  <2>1. WholeAudio(AudioOf(i), i)
    BY <1>1 DEF AudioInv, CachedAudioInv
  <2>2. i \in Listed /\ file \in Files /\ HasAudio
    BY <1>1 DEF AudioInv, BuilderInv, CachedInv, BuilderTypeInv, TypeOK, AudioReaches
  <2>3. PICK first \in Int : first = FirstFrame(i)
    BY <2>2, SegmentFrames
  <2>4. PICK end \in Int : end = EndFrame(i)
    BY <2>2, SegmentFrames
  <2>5. PICK a \in Int : a = FrameAt(AnchorPts(i)) /\ first >= a + (IF i = 0 THEN 0 ELSE 1)
    BY <2>2, <2>3, SegmentFrames, AnchorIsWhole
  <2>6. Len(AudioOf(i)) = end - first
    BY <2>1, <2>3, <2>4 DEF WholeAudio
  <2>7. m \in 1 .. Len(AudioOf(i)) /\ m \in Nat /\ (i = 0 => m >= 2)
    BY <2>6
  <2>8. /\ AudioOf(i)[m].index = first + m - 1
        /\ IsPayload(AudioOf(i)[m].payload, SourceSamples(i), first + m - 1 - a)
    BY <2>1, <2>3, <2>5, <2>7 DEF WholeAudio
  <2>9. k = first + m - 1 - a /\ k >= 1
    BY <2>5, <2>7, <2>8
  <2>10. /\ AudioOf(i)[m].payload \in AacPayload
         /\ AudioOf(i)[m].payload.samples = FrameOf(SourceSamples(i), k)
         /\ AudioOf(i)[m].payload.after = FrameOf(SourceSamples(i), k - 1)
    BY <2>8, <2>9 DEF IsPayload
  <2>11. QED
    BY <2>10, PayloadIs
<1>2. QED
  BY <1>1, AudioAlways, PTL

-----------------------------------------------------------------------------
(* Audio without a gap.                                                    *)

\* s counts up from sample d.
CountsFrom(s, d) == s \in Seq(Int) /\ \A m \in 1 .. Len(s) : s[m] = d + m - 1

\* Two runs that follow on are one.
LEMMA CountOn ==
  ASSUME NEW d \in Int, NEW s, CountsFrom(s, d), NEW e, NEW t, CountsFrom(t, e), e = d + Len(s)
  PROVE  CountsFrom(s \o t, d) /\ Len(s \o t) = Len(s) + Len(t)
<1>1. s \in Seq(Int) /\ t \in Seq(Int) /\ Len(s) \in Nat /\ Len(t) \in Nat
  BY DEF CountsFrom
<1>2. PICK w : w = s \o t
  OBVIOUS
<1>3. /\ w \in Seq(Int) /\ Len(w) = Len(s) + Len(t)
      /\ \A n \in 1 .. Len(s) : w[n] = s[n]
      /\ \A n \in 1 .. Len(t) : w[Len(s) + n] = t[n]
  BY <1>1, <1>2, MakeConcat
<1>4. ASSUME NEW m \in 1 .. Len(w) PROVE w[m] = d + m - 1
  <2>1. CASE m \in 1 .. Len(s)
    BY <1>3, <2>1 DEF CountsFrom
  <2>2. CASE m \notin 1 .. Len(s)
    <3>1. PICK n \in 1 .. Len(t) : m = Len(s) + n
      <4>1. m - Len(s) \in 1 .. Len(t) /\ m = Len(s) + (m - Len(s))
        BY <1>1, <1>3, <2>2
      <4>2. QED
        BY <4>1
    <3>2. t[n] = e + n - 1
      BY <3>1 DEF CountsFrom
    <3>3. w[m] = t[n]
      BY <1>3, <3>1
    <3>4. QED
      BY <1>1, <3>1, <3>2, <3>3
  <2>3. QED
    BY <2>1, <2>2
<1>5. QED
  BY <1>2, <1>3, <1>4 DEF CountsFrom

\* Where the audio has no gap, and a packet starts with the preroll, the
\* samples of a segment count up from there.
LEMMA SamplesCount ==
  ASSUME file \in Files, NEW i \in Listed, AudioIsGapless, PrerollIsOnGrid(i)
  PROVE  CountsFrom(SourceSamples(i), AudioPts(DecodeStartMs(i)))
<1> DEFINE g == SamplesUpTo(i)
           N == Len(Packets)
<1>1. N \in Nat /\ DOMAIN Packets = 1 .. N
  BY FileType
<1>2. PICK ds \in Nat : ds = DecodeStartMs(i)
  BY Bounds
<1>3. PICK d \in Int : d = AudioPts(ds)
  BY <1>2, PtsOf
<1>4. PICK r \in 1 .. N : AudioRead(i, r) /\ Packets[r].t = ds
  BY <1>1, <1>2 DEF PrerollIsOnGrid
<1>5. PICK sp \in Int : sp = SeekPosition(DecodeStartMs(i))
  BY <1>2, SeekIsEarly
<1>6. \A p \in 1 .. N : /\ Packets[p].at \in Nat /\ Packets[p].n \in Nat
                        /\ AudioPts(Packets[p].at) \in Int
                        /\ CountsFrom(Decoded(p), AudioPts(Packets[p].at))
                        /\ Len(Decoded(p)) = Packets[p].n
  BY DecodedSamples DEF CountsFrom
<1>7. \A p \in 1 .. N : IsAudio(p) =>
        /\ Packets[p].t = Packets[p].at
        /\ \A q \in (p + 1) .. N : IsAudio(q) =>
             /\ Packets[p].at < Packets[q].at
             /\ \/ \E l \in (p + 1) .. (q - 1) : IsAudio(l)
                \/ AudioPts(Packets[q].at) = AudioPts(Packets[p].at) + Packets[p].n
  BY <1>1 DEF AudioIsGapless
<1>8. \A p \in 1 .. N : IsAudio(p) => AudioMs(i, p) = Packets[p].at
  <2> SUFFICES ASSUME NEW p \in 1 .. N, IsAudio(p) PROVE AudioMs(i, p) = Packets[p].at
    OBVIOUS
  <2>1. Packets[p].t = Packets[p].at /\ Packets[p].at \in Int
    BY <1>6, <1>7
  <2>2. Timed(p)
    BY <2>1, BuilderAssumption DEF Timed
  <2>3. QED
    BY <2>1, <2>2 DEF AudioMs
<1>9. /\ g[0] = <<>>
      /\ \A p \in 1 .. N : g[p] = IF Adds(i, p) THEN g[p - 1] \o Decoded(p) ELSE g[p - 1]
  BY Gathered DEF Adds, Decode
<1>10. IsAudio(r) /\ Packets[r].at = ds /\ sp <= r
  BY <1>4, <1>5, <1>7 DEF AudioRead
<1>11. \A p \in 1 .. N : p < r => ~Adds(i, p)
  <2> SUFFICES ASSUME NEW p \in 1 .. N, p < r, Adds(i, p) PROVE FALSE
    OBVIOUS
  <2>1. IsAudio(p) /\ Packets[p].at >= ds
    BY <1>2, <1>8 DEF Adds, AudioRead
  <2>2. r \in (p + 1) .. N
    OBVIOUS
  <2>3. Packets[p].at < Packets[r].at
    BY <1>7, <1>10, <2>1, <2>2
  <2>4. QED
    BY <1>6, <1>10, <2>1, <2>3
<1>12. \A p \in 1 .. N : p >= r => (Adds(i, p) <=> IsAudio(p))
  <2> SUFFICES ASSUME NEW p \in 1 .. N, p >= r, IsAudio(p) PROVE Adds(i, p)
    BY DEF Adds, AudioRead
  <2>1. Packets[p].at >= ds
    <3>1. CASE p = r
      BY <1>6, <1>10, <3>1
    <3>2. CASE p # r
      <4>1. p \in (r + 1) .. N
        BY <3>2
      <4>2. Packets[r].at < Packets[p].at
        BY <1>7, <1>10, <4>1
      <4>3. QED
        BY <1>6, <1>10, <4>2
    <3>3. QED
      BY <3>1, <3>2
  <2>2. p >= SeekPosition(DecodeStartMs(i))
    BY <1>5, <1>10
  <2>3. QED
    BY <1>2, <1>8, <2>1, <2>2 DEF Adds, AudioRead
<1> HIDE DEF g
<1>13. \A p \in Nat : p <= N /\ p < r => g[p] = <<>>
  <2> DEFINE T == {p \in Nat : p <= N /\ p < r => g[p] = <<>>}
  <2>1. 0 \in T
    BY <1>9
  <2>2. ASSUME NEW n \in Nat, n \in T PROVE n + 1 \in T
    <3>1. SUFFICES ASSUME n + 1 <= N, n + 1 < r PROVE g[n + 1] = <<>>
      OBVIOUS
    <3>2. n + 1 \in 1 .. N /\ (n + 1) - 1 = n /\ n <= N /\ n < r
      BY <1>1, <3>1
    <3>3. QED
      BY <1>9, <1>11, <2>2, <3>1, <3>2
  <2>3. \A n \in Nat : n \in T
    <3> HIDE DEF T
    <3>1. QED
      BY <2>1, <2>2, InductionOnSet
  <2>4. QED
    BY <2>3
\* The samples up to packet p end with those of the last packet of audio.
<1> DEFINE Runs(p) ==
      /\ CountsFrom(g[p], d)
      /\ \E l \in r .. p : /\ IsAudio(l)
                           /\ \A q \in (l + 1) .. p : ~IsAudio(q)
                           /\ AudioPts(Packets[l].at) + Packets[l].n = d + Len(g[p])
<1>14. Runs(r)
  <2>1. r - 1 \in Nat /\ r - 1 <= N /\ r - 1 < r
    BY <1>1, <1>4
  <2>2. g[r] = <<>> \o Decoded(r)
    <3>1. Adds(i, r) /\ r \in 1 .. N
      BY <1>10, <1>12
    <3>2. g[r - 1] = <<>>
      BY <1>13, <2>1
    <3>3. QED
      BY <1>9, <3>1, <3>2
  <2>3. CountsFrom(Decoded(r), d) /\ Len(Decoded(r)) = Packets[r].n
    BY <1>3, <1>6, <1>10
  <2>4. g[r] = Decoded(r)
    <3>1. Decoded(r) \in Seq(Int)
      BY <2>3 DEF CountsFrom
    <3>2. QED
      BY <2>2, <3>1
  <2>5. r \in r .. r /\ \A q \in (r + 1) .. r : ~IsAudio(q)
    BY <1>4
  <2>6. AudioPts(Packets[r].at) + Packets[r].n = d + Len(g[r])
    BY <1>3, <1>10, <2>3, <2>4
  <2>7. QED
    BY <1>10, <2>3, <2>4, <2>5, <2>6
<1>15. ASSUME NEW p \in Nat, r <= p, p + 1 <= N, Runs(p) PROVE Runs(p + 1)
  <2>1. p + 1 \in 1 .. N /\ (p + 1) - 1 = p /\ p + 1 >= r
    BY <1>1, <1>15
  <2>2. PICK l \in r .. p : /\ IsAudio(l)
                            /\ \A q \in (l + 1) .. p : ~IsAudio(q)
                            /\ AudioPts(Packets[l].at) + Packets[l].n = d + Len(g[p])
    BY <1>15
  <2>3. CASE ~IsAudio(p + 1)
    <3>1. g[p + 1] = g[p]
      BY <1>9, <1>12, <2>1, <2>3
    <3>2. l \in r .. (p + 1) /\ \A q \in (l + 1) .. (p + 1) : ~IsAudio(q)
      BY <2>2, <2>3
    <3>3. QED
      BY <1>15, <2>2, <3>1, <3>2
  <2>4. CASE IsAudio(p + 1)
    <3>1. g[p + 1] = g[p] \o Decoded(p + 1)
      BY <1>9, <1>12, <2>1, <2>4
    <3>2. l \in 1 .. N /\ p + 1 \in (l + 1) .. N /\ \A q \in (l + 1) .. ((p + 1) - 1) : ~IsAudio(q)
      BY <1>1, <2>1, <2>2
    <3>3. AudioPts(Packets[p + 1].at) = AudioPts(Packets[l].at) + Packets[l].n
      BY <1>7, <2>2, <2>4, <3>2
    <3>4. CountsFrom(Decoded(p + 1), AudioPts(Packets[p + 1].at)) /\ Len(Decoded(p + 1)) = Packets[p + 1].n
      BY <1>6, <2>1
    <3>5. AudioPts(Packets[p + 1].at) = d + Len(g[p])
      BY <2>2, <3>3
    <3>6. CountsFrom(g[p + 1], d) /\ Len(g[p + 1]) = Len(g[p]) + Len(Decoded(p + 1))
      <4>1. CountsFrom(g[p], d)
        BY <1>15
      <4>2. CountsFrom(g[p] \o Decoded(p + 1), d)
              /\ Len(g[p] \o Decoded(p + 1)) = Len(g[p]) + Len(Decoded(p + 1))
        BY ONLY <1>3, <3>4, <3>5, <4>1, CountOn
      <4>3. QED
        BY <3>1, <4>2
    <3>7. AudioPts(Packets[p + 1].at) + Packets[p + 1].n = d + Len(g[p + 1])
      <4>1. PICK h \in Nat : h = Len(g[p])
        BY <1>15 DEF CountsFrom
      <4>2. PICK n \in Nat : n = Packets[p + 1].n /\ n = Len(Decoded(p + 1))
        BY <1>6, <2>1
      <4>3. Len(g[p + 1]) = h + n
        BY <3>6, <4>1, <4>2
      <4>4. PICK e \in Int : e = AudioPts(Packets[p + 1].at) /\ e = d + h
        BY <1>3, <3>5, <4>1
      <4>5. e = d + h
        BY <4>4
      <4>6. e + n = d + (h + n)
        BY <4>5
      <4>7. QED
        BY <4>2, <4>3, <4>4, <4>6
    <3>8. p + 1 \in r .. (p + 1) /\ \A q \in ((p + 1) + 1) .. (p + 1) : ~IsAudio(q)
      BY <2>1
    <3>9. QED
      BY <2>4, <3>6, <3>7, <3>8
  <2>5. QED
    BY <2>3, <2>4
<1>16. Runs(N)
  <2> DEFINE T == {n \in Nat : r + n <= N => Runs(r + n)}
  <2> HIDE DEF Runs
  <2>1. 0 \in T
    <3>1. r + 0 = r
      BY <1>1
    <3>2. QED
      BY <1>14, <3>1
  <2>2. ASSUME NEW n \in Nat, n \in T PROVE n + 1 \in T
    <3>1. SUFFICES ASSUME r + (n + 1) <= N PROVE Runs(r + (n + 1))
      OBVIOUS
    <3>2. r + n \in Nat /\ r <= r + n /\ (r + n) + 1 <= N /\ r + n <= N /\ r + (n + 1) = (r + n) + 1
      BY <1>1, <3>1
    <3>3. Runs((r + n) + 1)
      BY <1>15, <2>2, <3>2
    <3>4. QED
      BY <3>2, <3>3
  <2>3. \A n \in Nat : n \in T
    <3> HIDE DEF T
    <3>1. QED
      BY <2>1, <2>2, InductionOnSet
  <2>4. N - r \in Nat /\ r + (N - r) = N /\ r + (N - r) <= N
    BY <1>1
  <2>5. QED
    BY <2>3, <2>4
<1>17. CountsFrom(g[N], d)
  BY <1>16
<1>18. QED
  BY <1>2, <1>3, <1>17 DEF SourceSamples, g

\* A frame of samples that count up.
LEMMA FrameCounts ==
  ASSUME NEW z, NEW d \in Int, CountsFrom(z, d), NEW n \in Nat, (n + 1) * Frame <= Len(z)
  PROVE  /\ Len(FrameOf(z, n)) = Frame
         /\ FrameOf(z, n)[1] = d + n * Frame
         /\ FrameOf(z, n)[Frame] = d + n * Frame + Frame - 1
<1>1. Frame \in Nat \ {0}
  BY BuilderAssumption
<1>2. PICK a \in Int : a = n * Frame /\ (n + 1) * Frame = a + Frame
  BY <1>1, ProductOrder
<1>3. a >= 0
  <2>1. 0 * Frame = 0 /\ 0 * Frame <= n * Frame
    BY <1>1, ProductOrder
  <2>2. QED
    BY <1>2, <2>1
<1>4. z \in Seq(Int) /\ Len(z) \in Nat /\ a + Frame <= Len(z)
  BY <1>2 DEF CountsFrom
<1>5. FrameOf(z, n) = SubSeq(z, a + 1, a + Frame)
  <2>1. ~(n < 0)
    OBVIOUS
  <2>2. FrameOf(z, n) = SubSeq(z, n * Frame + 1, (n + 1) * Frame)
    BY <2>1 DEF FrameOf
  <2>3. QED
    BY <1>2, <2>2
<1>6. SubSeq(z, a + 1, a + Frame) = [m \in 1 .. Frame |-> z[a + m]]
  BY <1>1, <1>3, <1>4
<1>7. PICK s : s = FrameOf(z, n)
  OBVIOUS
<1>8. s = [m \in 1 .. Frame |-> z[a + m]]
  BY <1>5, <1>6, <1>7
<1>9. Len(s) = Frame
  BY <1>1, <1>8
<1>10. s[1] = z[a + 1] /\ s[Frame] = z[a + Frame]
  BY <1>1, <1>8
<1>11. z[a + 1] = d + (a + 1) - 1 /\ z[a + Frame] = d + (a + Frame) - 1
  <2>1. a + 1 \in 1 .. Len(z) /\ a + Frame \in 1 .. Len(z)
    BY <1>1, <1>3, <1>4
  <2>2. QED
    BY <2>1 DEF CountsFrom
<1>12. QED
  BY <1>1, <1>2, <1>7, <1>9, <1>10, <1>11

\* The first and the last sample of a segment whose audio is on the grid.
LEMMA SegmentEnds ==
  ASSUME AudioInv, NEW i \in intact, AudioReaches(i), AudioIsGapless, PrerollIsOnGrid(i),
         NEW d \in Int, d = AudioPts(DecodeStartMs(i)),
         NEW a \in Int, a = FrameAt(AnchorPts(i)),
         NEW first \in Int, first = FirstFrame(i), NEW end \in Int, end = EndFrame(i)
  PROVE  /\ FirstSample(i) = d + (first - a) * Frame
         /\ LastSample(i) = d + (end - a) * Frame - 1
<1>1. i \in Listed /\ file \in Files /\ HasAudio
  BY DEF AudioInv, BuilderInv, CachedInv, BuilderTypeInv, TypeOK, AudioReaches
<1>2. Frame \in Nat \ {0} /\ EncoderDelay \in Nat \ {0}
  BY BuilderAssumption
<1>3. first < end /\ first >= a
  BY <1>1, SegmentFrames
<1>4. PICK z : z = SourceSamples(i) /\ CountsFrom(z, d)
  BY <1>1, SamplesCount
<1>5. (end - a) * Frame <= Len(z)
  <2>1. PICK u \in 0 .. Len(Packets) :
          Len(SamplesUpTo(i)[u]) >= (EndFrame(i) - FrameAt(AnchorPts(i)) + EncoderDelay) * Frame
    BY DEF AudioReaches
  <2>2. u <= Len(Packets) /\ Len(Packets) \in 0 .. Len(Packets)
    BY <1>1, FileType
  <2>3. IsPrefixOf(SamplesUpTo(i)[u], z)
    BY <1>1, <1>4, <2>2, SamplesGrow DEF SourceSamples
  <2>4. PICK l \in Nat : l = Len(SamplesUpTo(i)[u]) /\ l <= Len(z) /\ Len(z) \in Nat
    BY <2>3 DEF IsPrefixOf
  <2>5. l >= (end - a + EncoderDelay) * Frame
    BY <2>1, <2>4
  <2>6. /\ (end - a) * Frame <= (end - a + EncoderDelay) * Frame
        /\ (end - a) * Frame \in Int /\ (end - a + EncoderDelay) * Frame \in Int
    <3>1. end - a \in Int /\ end - a + EncoderDelay \in Int /\ end - a <= end - a + EncoderDelay
      BY <1>2
    <3>2. QED
      BY <1>2, <3>1, ProductOrder
  <2>7. QED
    BY <2>4, <2>5, <2>6
<1>6. WholeAudio(AudioOf(i), i)
  BY DEF AudioInv, CachedAudioInv
<1>7. PICK c \in Nat : c = Len(AudioOf(i)) /\ c = end - first /\ c >= 1
  BY <1>3, <1>6 DEF WholeAudio
<1>8. /\ AudioOf(i)[1].payload.samples = FrameOf(z, first - a)
      /\ AudioOf(i)[c].payload.samples = FrameOf(z, end - a - 1)
  <2>1. /\ IsPayload(AudioOf(i)[1].payload, z, first + 1 - 1 - a)
        /\ IsPayload(AudioOf(i)[c].payload, z, first + c - 1 - a)
    <3>1. 1 \in 1 .. c /\ c \in 1 .. c
      BY <1>7
    <3>2. QED
      BY <1>4, <1>6, <1>7, <3>1 DEF WholeAudio
  <2>2. first + 1 - 1 - a = first - a /\ first + c - 1 - a = end - a - 1
    BY <1>7
  <2>3. QED
    BY <2>1, <2>2 DEF IsPayload
<1>9. PICK m \in Nat : m = first - a
  BY <1>3
<1>10. PICK n \in Nat : n = end - a - 1 /\ n + 1 = end - a /\ m <= n
  BY <1>3, <1>9
<1>11. (n + 1) * Frame <= Len(z) /\ (m + 1) * Frame <= Len(z)
  <2>1. (n + 1) * Frame <= Len(z)
    BY <1>5, <1>10
  <2>2. /\ (m + 1) * Frame <= (n + 1) * Frame
        /\ (m + 1) * Frame \in Int /\ (n + 1) * Frame \in Int
    BY <1>2, <1>10, ProductOrder
  <2>3. Len(z) \in Nat
    BY <1>4 DEF CountsFrom
  <2>4. QED
    BY <2>1, <2>2, <2>3
<1>12. /\ FrameOf(z, m)[1] = d + m * Frame
       /\ Len(FrameOf(z, n)) = Frame /\ FrameOf(z, n)[Frame] = d + n * Frame + Frame - 1
  BY <1>4, <1>11, FrameCounts
<1>13. FirstSample(i) = d + (first - a) * Frame
  BY <1>8, <1>9, <1>12 DEF FirstSample
<1>14. LastSample(i) = d + n * Frame + Frame - 1
  BY <1>7, <1>8, <1>10, <1>12 DEF LastSample
<1>15. (n + 1) * Frame = n * Frame + Frame /\ n * Frame \in Int
  BY <1>2, ProductOrder
<1>16. LastSample(i) = d + (end - a) * Frame - 1
  BY <1>2, <1>10, <1>14, <1>15
<1>17. QED
  BY <1>13, <1>16

\* The audio of neighbouring segments meets, although each of the two comes of
\* an encoder session and a preroll of its own (Session.cpp:172-186).
THEOREM AudioMeets == Spec => []AudioFollowsOn
<1>1. ASSUME AudioInv PROVE AudioFollowsOn
  <2> SUFFICES ASSUME AudioIsGapless, NEW i \in intact, NEW j \in intact, j = i + 1, HasOwnFrame(i),
                      \A s \in {i, j} : PrerollIsOnGrid(s) /\ AudioReaches(s)
               PROVE  FirstSample(j) =
                        LastSample(i) + 1 - (IF i = 0 THEN Padding + AudioPts(DecodeStartMs(0))
                                                      ELSE 0)
    BY DEF AudioFollowsOn
  <2>1. /\ i \in Listed /\ j \in Listed /\ file \in Files /\ HasAudio
        /\ PrerollIsOnGrid(i) /\ AudioReaches(i) /\ PrerollIsOnGrid(j) /\ AudioReaches(j)
    BY <1>1 DEF AudioInv, BuilderInv, CachedInv, BuilderTypeInv, TypeOK, AudioReaches
  <2>2. /\ Rate \in Nat \ {0} /\ Frame \in Nat \ {0} /\ Padding \in Nat
        /\ i \in Nat /\ j \in Nat /\ j # 0
    BY <2>1, BuilderAssumption DEF Listed
  <2>3. PICK e \in Nat : e = EndMs(i) /\ e = StartMs(j)
    <3>1. j + 1 = i + 2
      BY <2>2
    <3>2. QED
      BY <2>1, <3>1, Bounds DEF StartMs, EndMs
  <2>4. PICK b \in Nat : b = StartMs(i) /\ b < e
    BY <2>1, <2>3, Bounds
  <2>6. PICK fe \in Int : fe = FrameAt(AudioPts(e))
    BY <2>3, PtsOf
  <2>7. PICK fb \in Int : fb = FrameAt(AudioPts(b))
    BY <2>4, PtsOf
  <2>8. FirstFrame(j) = fe
    BY <2>2, <2>3, <2>6 DEF FirstFrame
  <2>9. PICK p \in Int : p = FrameAt(-Padding) /\ p <= 0 /\ p * Frame = -Padding
    BY WholePadding
  <2>10. PICK first \in Int : first = FirstFrame(i) /\ first = IF i = 0 THEN p ELSE fb
    BY <2>1, <2>4, <2>7, <2>9 DEF FirstFrame
  <2>11. EndFrame(i) = fe
    <3>1. first < fe
      BY <2>3, <2>6, <2>10 DEF HasOwnFrame
    <3>2. QED
      BY <2>3, <2>6, <2>10, <3>1 DEF EndFrame
  <2>12. \A s \in {i, j} : AudioPts(DecodeStartMs(s)) \in Int
                             /\ FrameAt(AudioPts(DecodeStartMs(s))) \in Int
                             /\ FrameAt(AudioPts(DecodeStartMs(s))) * Frame
                                  = AudioPts(DecodeStartMs(s))
    <3> SUFFICES ASSUME NEW s \in {i, j}
                 PROVE  /\ AudioPts(DecodeStartMs(s)) \in Int
                        /\ FrameAt(AudioPts(DecodeStartMs(s))) \in Int
                        /\ FrameAt(AudioPts(DecodeStartMs(s))) * Frame
                             = AudioPts(DecodeStartMs(s))
      OBVIOUS
    <3>1. PICK ds \in Nat : ds = DecodeStartMs(s)
      BY <2>1, Bounds
    <3>2. PICK x \in Int : x = AudioPts(ds) /\ x % Frame = 0
      BY <2>1, <3>1, PtsOf DEF PrerollIsOnGrid
    <3>3. x = Frame * (x \div Frame) /\ x \div Frame \in Int
      BY <2>2, <3>2
    <3>4. QED
      BY <2>2, <3>1, <3>2, <3>3 DEF FrameAt
  <2>13. PICK di \in Int : di = AudioPts(DecodeStartMs(i))
    BY <2>12
  <2>14. PICK dj \in Int : dj = AudioPts(DecodeStartMs(j))
    BY <2>12
  <2>15. PICK aj \in Int : aj = FrameAt(AnchorPts(j)) /\ aj * Frame = dj
    BY <2>1, <2>2, <2>12, <2>14, AnchorIsWhole
  <2>16. PICK ai \in Int : /\ ai = FrameAt(AnchorPts(i))
                           /\ ai * Frame = IF i = 0 THEN -Padding ELSE di
    <3>1. CASE i = 0
      BY <2>1, <2>9, <3>1 DEF AnchorPts
    <3>2. CASE i # 0
      BY <2>1, <2>12, <2>13, <3>2, AnchorIsWhole
    <3>3. QED
      BY <3>1, <3>2
  <2>17. PICK end \in Int : end = EndFrame(j)
    BY <2>1, SegmentFrames
  <2>18. FirstSample(j) = dj + (fe - aj) * Frame
    BY <1>1, <2>1, <2>8, <2>14, <2>15, <2>17, SegmentEnds
  <2>19. LastSample(i) = di + (fe - ai) * Frame - 1
    <3>1. /\ di = AudioPts(DecodeStartMs(i)) /\ ai = FrameAt(AnchorPts(i))
          /\ first = FirstFrame(i) /\ fe = EndFrame(i)
      BY <2>10, <2>11, <2>13, <2>16
    <3>2. AudioReaches(i) /\ PrerollIsOnGrid(i)
      BY <2>1
    <3>3. QED
      BY <1>1, <3>1, <3>2, SegmentEnds
  <2>20. /\ (fe - aj) * Frame = fe * Frame - aj * Frame /\ fe * Frame \in Int
         /\ (fe - ai) * Frame = fe * Frame - ai * Frame
    BY <2>2, ProductOrder
  <2>21. FirstSample(j) = fe * Frame
    BY <2>15, <2>18, <2>20
  <2>22. CASE i = 0
    BY <2>2, <2>13, <2>16, <2>19, <2>20, <2>21, <2>22
  <2>23. CASE i # 0
    BY <2>2, <2>13, <2>16, <2>19, <2>20, <2>21, <2>23
  <2>24. QED
    BY <2>22, <2>23
<1>2. QED
  BY <1>1, AudioAlways, PTL
=============================================================================
