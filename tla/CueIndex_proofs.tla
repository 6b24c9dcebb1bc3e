-------------------------- MODULE CueIndex_proofs --------------------------
(***************************************************************************)
(* Proofs about CueIndex, for every file, every read that comes back short *)
(* and every width of a byte: what the scans of EbmlParser.h return keeps  *)
(* its types; from cue times that ascend EnsureCueIndex makes the          *)
(* boundaries of KeyframeIndex; and in a sound file it finds the cues of   *)
(* the video track, or the first of them when its reads come back short.   *)
(***************************************************************************)
EXTENDS CueIndex, KeyframeIndex_proofs, NaturalsInduction, WellFoundedInduction

-----------------------------------------------------------------------------
(* Recursive functions.                                                    *)

\* Induction on the naturals, for a property given as the set that has it.
LEMMA InductionOnSet ==
  ASSUME NEW T, 0 \in T, \A n \in Nat : n \in T => n + 1 \in T
  PROVE  \A n \in Nat : n \in T
<1> DEFINE Missing == {n \in Nat : n \notin T}
<1>1. SUFFICES ASSUME Missing # {} PROVE FALSE
  OBVIOUS
<1>2. PICK m \in Missing : \A n \in Missing : ~(n < m)
  <2>1. Missing \subseteq Nat
    OBVIOUS
  <2> HIDE DEF Missing
  <2>2. PICK m \in Missing : \A n \in Missing : ~(<<n, m>> \in OpToRel(<, Nat))
    BY <1>1, <2>1, NatLessThanWellFounded, WFMin
  <2>3. \A x, y \in Nat : <<x, y>> \in OpToRel(<, Nat) <=> x < y
    BY DEF OpToRel
  <2> QED BY <2>1, <2>2, <2>3, Zenon
<1>3. m \in Nat /\ m \notin T /\ m # 0
  BY <1>2
<1>4. m - 1 \in Nat /\ m - 1 < m /\ (m - 1) + 1 = m
  BY <1>3
<1>5. m - 1 \in Missing
  BY <1>3, <1>4
<1> QED BY <1>2, <1>4, <1>5

-----------------------------------------------------------------------------
(* Numbers and selections.                                                 *)

\* A remainder is less than what it is divided by.
LEMMA Remainder ==
  ASSUME NEW b \in Nat \ {0}, NEW n \in Int
  PROVE  /\ n % b \in 0 .. (b - 1)
         /\ n \in 0 .. (b - 1) => n % b = n
BY SMTT(30)

\* A cast gives what its type holds, and leaves alone what it holds.
LEMMA WrappedRange ==
  ASSUME NEW n \in Int, NEW max \in Nat
  PROVE  /\ Wrapped(n, max) \in (-(max + 1)) .. max
         /\ n \in (-(max + 1)) .. max => Wrapped(n, max) = n
<1> DEFINE b == 2 * (max + 1)
           m == n + max + 1
<1>1. b \in Nat \ {0} /\ m \in Int
  OBVIOUS
<1>2. m % b \in 0 .. (b - 1) /\ (m \in 0 .. (b - 1) => m % b = m)
  <2> HIDE DEF b, m
  <2> QED BY <1>1, Remainder
<1>3. Wrapped(n, max) = (m % b) - (max + 1)
  BY DEF Wrapped
<1>4. PICK k : k = m % b
  OBVIOUS
<1>5. k \in 0 .. (b - 1) /\ (m \in 0 .. (b - 1) => k = m) /\ Wrapped(n, max) = k - (max + 1)
  BY <1>2, <1>3, <1>4
<1> QED BY ONLY <1>1, <1>5, max \in Nat, n \in Int

\* The cast to int64_t.
LEMMA AsLongRange ==
  ASSUME NEW n \in Int
  PROVE  /\ AsLong(n) \in Long
         /\ n \in Long => AsLong(n) = n
BY WrappedRange, FileAssumption DEF AsLong, Long

\* The cast to int.
LEMMA AsIntRange ==
  ASSUME NEW n \in Int
  PROVE  /\ AsInt(n) \in (-(MaxInt + 1)) .. MaxInt
         /\ n \in 0 .. MaxInt => AsInt(n) = n
<1>1. MaxInt \in Nat
  BY FileAssumption
<1> QED BY <1>1, WrappedRange DEF AsInt

\* A greater number has the greater quotient.
LEMMA QuotientsAscend ==
  ASSUME NEW T \in Nat \ {0}, NEW a \in Nat, NEW b \in Nat, a <= b
  PROVE  a \div T <= b \div T
<1>1. PICK q \in Nat : q = a \div T /\ q * T <= a
  BY LastMultiple
<1>2. q * T \in Nat
  BY <1>1
<1>3. q * T <= b
  BY <1>1, <1>2
<1> QED BY <1>1, <1>3, FittingMultiple

\* A scaled time.
LEMMA QuotientRange ==
  ASSUME NEW a \in Long
  PROVE  /\ MaxTime \in Nat
         /\ Quotient(a, ScaleUnit) \in (-MaxTime) .. MaxTime
         /\ a >= 0 => Quotient(a, ScaleUnit) = a \div ScaleUnit
<1>n. /\ ScaleUnit \in Nat \ {0} /\ MaxLong + 1 \in Nat
      /\ a \in Int /\ a <= MaxLong + 1 /\ -a <= MaxLong + 1
  BY FileAssumption DEF Long
<1>1. MaxTime \in Nat
  BY <1>n, LastMultiple DEF MaxTime
<1>2. CASE a >= 0
  <2>1. a \in Nat
    BY <1>n, <1>2
  <2>2. a \div ScaleUnit \in Nat
    BY <1>n, <2>1, LastMultiple
  <2>3. a \div ScaleUnit <= MaxTime
    BY <1>n, <2>1, QuotientsAscend DEF MaxTime
  <2> QED BY <1>1, <1>2, <2>2, <2>3 DEF Quotient
<1>3. CASE ~(a >= 0)
  <2>1. PICK c \in Nat : c = -a
    BY <1>n, <1>3
  <2>2. c \div ScaleUnit \in Nat
    BY <1>n, <2>1, LastMultiple
  <2>3. c \div ScaleUnit <= MaxTime
    BY <1>n, <2>1, QuotientsAscend DEF MaxTime
  <2>4. Quotient(a, ScaleUnit) = -(c \div ScaleUnit)
    BY <1>3, <2>1 DEF Quotient
  <2> QED BY <1>1, <1>3, <2>2, <2>3, <2>4
<1> QED BY <1>2, <1>3

\* The recursion behind BigEndian, up to byte m.
Reads(g, data, m) ==
  g = [n \in 0 .. m |-> IF n = 0 THEN 0 ELSE g[n - 1] * Byte + data[n]]

\* It has a solution.
LEMMA ReadsExist ==
  ASSUME NEW data, NEW m \in Nat
  PROVE  \E g : Reads(g, data, m)
<1> DEFINE T == {k \in Nat : \E g : Reads(g, data, k)}
<1>1. 0 \in T
  <2>1. Reads([n \in 0 .. 0 |-> 0], data, 0)
    BY DEF Reads
  <2> QED BY <2>1
<1>2. ASSUME NEW k \in Nat, k \in T PROVE k + 1 \in T
  <2>1. PICK g : Reads(g, data, k)
    BY <1>2
  <2> DEFINE v == g[k] * Byte + data[k + 1]
             h == [n \in 0 .. (k + 1) |-> IF n = k + 1 THEN v ELSE g[n]]
  <2>2. h[k + 1] = v /\ \A n \in 0 .. k : h[n] = g[n]
    OBVIOUS
  <2>3. h = [n \in 0 .. (k + 1) |-> h[n]]
    OBVIOUS
  <2>4. \A n \in 0 .. k : g[n] = IF n = 0 THEN 0 ELSE g[n - 1] * Byte + data[n]
    BY <2>1 DEF Reads
  <2>5. h[k + 1] = g[(k + 1) - 1] * Byte + data[k + 1]
    BY <2>2
  <2> HIDE DEF h, v
  <2>6. ASSUME NEW n \in 0 .. (k + 1)
        PROVE  h[n] = IF n = 0 THEN 0 ELSE h[n - 1] * Byte + data[n]
    <3>1. CASE n = k + 1
      <4>1. n # 0 /\ h[n - 1] = g[(k + 1) - 1]
        BY <2>2, <3>1
      <4> QED BY <2>5, <3>1, <4>1
    <3>2. CASE n = 0
      BY <2>2, <2>4, <3>2
    <3>3. CASE n \in 1 .. k
      <4>1. h[n] = g[n] /\ h[n - 1] = g[n - 1] /\ n # 0 /\ n \in 0 .. k
        BY <2>2, <3>3
      <4> QED BY <2>4, <4>1
    <3> QED BY <3>1, <3>2, <3>3
  <2>7. Reads(h, data, k + 1)
    BY <2>3, <2>6 DEF Reads
  <2> QED BY <2>7
<1>3. \A k \in Nat : k \in T
  <2> HIDE DEF T
  <2> QED BY <1>1, <1>2, InductionOnSet
<1> QED BY <1>3

\* Bytes stand for a number.
LEMMA BigEndianType ==
  ASSUME NEW data \in Seq(Bytes)
  PROVE  BigEndian(data) \in Nat
<1> DEFINE f == CHOOSE g : Reads(g, data, Len(data))
<1>n. Byte \in Nat /\ Len(data) \in Nat /\ \A n \in 1 .. Len(data) : data[n] \in Nat
  <2>1. \A n \in 1 .. Len(data) : data[n] \in Bytes
    BY ElementOfSeq
  <2> QED BY <2>1, CueAssumption, FileAssumption DEF Bytes
<1>1. Reads(f, data, Len(data))
  BY <1>n, ReadsExist
<1>2. BigEndian(data) = f[Len(data)]
  BY DEF BigEndian, Reads
<1> HIDE DEF f
<1>3. \A n \in 0 .. Len(data) : f[n] = IF n = 0 THEN 0 ELSE f[n - 1] * Byte + data[n]
  BY <1>1 DEF Reads
<1> DEFINE T == {n \in Nat : n <= Len(data) => f[n] \in Nat}
<1>4. 0 \in T
  BY <1>3, <1>n
<1>5. ASSUME NEW n \in Nat, n \in T PROVE n + 1 \in T
  <2> SUFFICES ASSUME n + 1 <= Len(data) PROVE f[n + 1] \in Nat
    OBVIOUS
  <2>1. f[n] \in Nat /\ n + 1 \in 1 .. Len(data)
    BY <1>5, <1>n
  <2>2. f[n + 1] = f[n] * Byte + data[n + 1]
    <3>1. n + 1 \in 0 .. Len(data) /\ n + 1 # 0 /\ (n + 1) - 1 = n
      BY <2>1
    <3> QED BY <1>3, <3>1
  <2>3. data[n + 1] \in Nat
    BY <1>n, <2>1
  <2>4. \A a, b, c \in Nat : a * b + c \in Nat
    OBVIOUS
  <2>5. f[n] * Byte + data[n + 1] \in Nat
    BY <1>n, <2>1, <2>3, <2>4
  <2> QED BY <2>2, <2>5
<1>6. \A n \in Nat : n \in T
  <2> HIDE DEF T
  <2> QED BY <1>4, <1>5, InductionOnSet
<1> QED BY <1>2, <1>6, <1>n

\* The recursion behind FlattenSeq, up to sequence m.
Joins(g, s, m) == g = [n \in 1 .. m |-> IF n = 1 THEN s[n] ELSE g[n - 1] \o s[n]]

\* It has a solution.
LEMMA JoinsExist ==
  ASSUME NEW s, NEW m \in Nat
  PROVE  \E g : Joins(g, s, m)
<1> DEFINE T == {k \in Nat : \E g : Joins(g, s, k)}
<1>1. 0 \in T
  <2>1. Joins([n \in 1 .. 0 |-> <<>>], s, 0)
    BY DEF Joins
  <2> QED BY <2>1
<1>2. ASSUME NEW k \in Nat, k \in T PROVE k + 1 \in T
  <2>1. PICK g : Joins(g, s, k)
    BY <1>2
  <2> DEFINE v == IF k + 1 = 1 THEN s[k + 1] ELSE g[k] \o s[k + 1]
  <2>5. v = IF k + 1 = 1 THEN s[k + 1] ELSE g[(k + 1) - 1] \o s[k + 1]
    OBVIOUS
  <2> HIDE DEF v
  <2> DEFINE h == [n \in 1 .. (k + 1) |-> IF n = k + 1 THEN v ELSE g[n]]
  <2>2. h[k + 1] = v /\ \A n \in 1 .. k : h[n] = g[n]
    OBVIOUS
  <2>3. h = [n \in 1 .. (k + 1) |-> h[n]]
    OBVIOUS
  <2>4. \A n \in 1 .. k : g[n] = IF n = 1 THEN s[n] ELSE g[n - 1] \o s[n]
    BY <2>1 DEF Joins
  <2> HIDE DEF h
  <2>6. ASSUME NEW n \in 1 .. (k + 1)
        PROVE  h[n] = IF n = 1 THEN s[n] ELSE h[n - 1] \o s[n]
    <3>1. CASE n = k + 1 /\ n # 1
      <4>1. h[n - 1] = g[(k + 1) - 1]
        BY <2>2, <3>1
      <4> QED BY <2>2, <2>5, <3>1, <4>1
    <3>2. CASE n = k + 1 /\ n = 1
      BY <2>2, <2>5, <3>2
    <3>3. CASE n = 1 /\ n # k + 1
      <4>1. n \in 1 .. k
        BY <3>3
      <4> QED BY <2>2, <2>4, <3>3, <4>1
    <3>4. CASE n # 1 /\ n # k + 1
      <4>1. n \in 1 .. k /\ n - 1 \in 1 .. k
        BY <3>4
      <4>2. h[n] = g[n] /\ h[n - 1] = g[n - 1]
        BY <2>2, <4>1
      <4> QED BY <2>4, <3>4, <4>1, <4>2
    <3> QED BY <3>1, <3>2, <3>3, <3>4
  <2>7. Joins(h, s, k + 1)
    BY <2>3, <2>6 DEF Joins
  <2> QED BY <2>7
<1>3. \A k \in Nat : k \in T
  <2> HIDE DEF T
  <2> QED BY <1>1, <1>2, InductionOnSet
<1> QED BY <1>3

\* Sequences that are put one after another keep the type of their elements.
LEMMA FlattenType ==
  ASSUME NEW S, NEW s \in Seq(Seq(S))
  PROVE  FlattenSeq(s) \in Seq(S)
<1> DEFINE f == CHOOSE g : Joins(g, s, Len(s))
<1>n. Len(s) \in Nat /\ \A n \in 1 .. Len(s) : s[n] \in Seq(S)
  BY ElementOfSeq
<1>1. Joins(f, s, Len(s))
  BY <1>n, JoinsExist
<1>2. FlattenSeq(s) = IF Len(s) = 0 THEN s ELSE f[Len(s)]
  BY DEF FlattenSeq, Joins
<1> HIDE DEF f
<1>3. \A n \in 1 .. Len(s) : f[n] = IF n = 1 THEN s[n] ELSE f[n - 1] \o s[n]
  BY <1>1 DEF Joins
<1> DEFINE T == {n \in Nat : n \in 1 .. Len(s) => f[n] \in Seq(S)}
<1>4. 0 \in T
  OBVIOUS
<1>5. ASSUME NEW n \in Nat, n \in T PROVE n + 1 \in T
  <2> SUFFICES ASSUME n + 1 \in 1 .. Len(s) PROVE f[n + 1] \in Seq(S)
    OBVIOUS
  <2>1. s[n + 1] \in Seq(S)
    BY <1>n
  <2>2. CASE n = 0
    BY <1>3, <2>1, <2>2
  <2>3. CASE n # 0
    <3>1. n \in 1 .. Len(s) /\ n + 1 # 1 /\ (n + 1) - 1 = n
      BY <1>n, <2>3
    <3>2. f[n + 1] = f[n] \o s[n + 1] /\ f[n] \in Seq(S)
      BY <1>3, <1>5, <3>1
    <3> QED BY <2>1, <3>2
  <2> QED BY <2>2, <2>3
<1>6. \A n \in Nat : n \in T
  <2> HIDE DEF T
  <2> QED BY <1>4, <1>5, InductionOnSet
<1>7. CASE Len(s) = 0
  <2>1. s = <<>>
    BY <1>7
  <2> QED BY <1>2, <1>7, <2>1
<1>8. CASE Len(s) # 0
  <2>1. Len(s) \in 1 .. Len(s)
    BY <1>8, <1>n
  <2> QED BY <1>2, <1>6, <1>8, <1>n, <2>1
<1> QED BY <1>7, <1>8

\* What is selected are elements.
LEMMA OnlyType ==
  ASSUME NEW S, NEW s \in Seq(S), NEW P
  PROVE  Only(s, P) \in Seq(S)
<1> DEFINE parts == [n \in DOMAIN s |-> IF n \in P THEN <<s[n]>> ELSE <<>>]
<1>1. DOMAIN s = 1 .. Len(s) /\ Len(s) \in Nat /\ \A n \in 1 .. Len(s) : s[n] \in S
  BY ElementOfSeq
<1>2. \A n \in 1 .. Len(s) : (IF n \in P THEN <<s[n]>> ELSE <<>>) \in Seq(S)
  BY <1>1
<1>3. parts \in Seq(Seq(S))
  BY <1>1, <1>2
<1> HIDE DEF parts
<1>4. FlattenSeq(parts) \in Seq(S)
  BY <1>3, FlattenType
<1> QED BY <1>4 DEF Only, parts

\* It has none but the elements at these places.
LEMMA OnlyPicks ==
  ASSUME NEW S, NEW s \in Seq(S), NEW P
  PROVE  Only(s, P) \in Seq({s[n] : n \in P \cap DOMAIN s})
<1> DEFINE Z     == {s[n] : n \in P \cap DOMAIN s}
           parts == [n \in DOMAIN s |-> IF n \in P THEN <<s[n]>> ELSE <<>>]
<1>1. Len(s) \in Nat /\ DOMAIN s = 1 .. Len(s)
  OBVIOUS
<1>2. \A n \in 1 .. Len(s) : (IF n \in P THEN <<s[n]>> ELSE <<>>) \in Seq(Z)
  <2> SUFFICES ASSUME NEW n \in 1 .. Len(s) PROVE (IF n \in P THEN <<s[n]>> ELSE <<>>) \in Seq(Z)
    OBVIOUS
  <2>1. CASE n \in P
    <3>1. s[n] \in Z
      BY <1>1, <2>1
    <3> HIDE DEF Z
    <3> QED BY <2>1, <3>1
  <2>2. CASE n \notin P
    BY <2>2
  <2> QED BY <2>1, <2>2
<1> HIDE DEF Z
<1>3. parts \in Seq(Seq(Z))
  BY <1>1, <1>2
<1> HIDE DEF parts
<1>4. FlattenSeq(parts) \in Seq(Z)
  BY <1>3, FlattenType
<1>5. Only(s, P) \in Seq(Z)
  BY <1>4 DEF Only, parts
<1> QED BY <1>5 DEF Z



-----------------------------------------------------------------------------
(* The scan of a level of elements.                                        *)

\* What ebml_scan_children calls a visitor with.
Child == [id : Bytes, size : Bytes, at : Nat, data : Seq(Bytes)]

\* The recursion behind Children at p.
ChildAt(buf, base, p) ==
  [id |-> buf[p], size |-> buf[p + 1], at |-> base + p + 1,
   data |-> SubSeq(buf, p + 2, p + 1 + Available(buf[p + 1], Len(buf) - (p + 1)))]
ScanAt(g, buf, base, p) ==
  IF p + 2 > Len(buf) \/ buf[p] = 0 THEN <<>>
  ELSE <<ChildAt(buf, base, p)>>
         \o (IF Skippable(buf[p + 1], Len(buf) - (p + 1)) THEN g[p + 2 + buf[p + 1]]
                                                         ELSE <<>>)
Scans(g, buf, base, from) ==
  g = [p \in from .. (Len(buf) + 1) |-> ScanAt(g, buf, base, p)]

\* The bytes of a buffer are numbers.
LEMMA BufferType ==
  ASSUME NEW buf \in Seq(Bytes)
  PROVE  /\ Len(buf) \in Nat /\ Byte \in Nat
         /\ \A n \in 1 .. Len(buf) : buf[n] \in Bytes /\ buf[n] \in Nat
<1>1. \A n \in 1 .. Len(buf) : buf[n] \in Bytes
  BY ElementOfSeq
<1> QED BY <1>1, CueAssumption, FileAssumption DEF Bytes

\* The scan at p depends on what is behind p only.
LEMMA ScanLooksAhead ==
  ASSUME NEW buf \in Seq(Bytes), NEW base, NEW p \in 1 .. (Len(buf) + 1), NEW g, NEW h,
         \A q \in (p + 1) .. (Len(buf) + 1) : g[q] = h[q]
  PROVE  ScanAt(g, buf, base, p) = ScanAt(h, buf, base, p)
<1>1. CASE p + 2 > Len(buf) \/ buf[p] = 0
  BY <1>1 DEF ScanAt
<1>2. CASE ~(p + 2 > Len(buf) \/ buf[p] = 0)
  <2>1. CASE Skippable(buf[p + 1], Len(buf) - (p + 1))
    <3>1. Len(buf) \in Nat /\ p + 1 \in 1 .. Len(buf)
      BY <1>2, BufferType
    <3>2. PICK size \in Nat : size = buf[p + 1]
      BY <3>1, BufferType
    <3>3. p + 2 + size \in (p + 1) .. (Len(buf) + 1)
      BY <2>1, <3>1, <3>2 DEF Skippable
    <3>4. g[p + 2 + buf[p + 1]] = h[p + 2 + buf[p + 1]]
      BY <3>2, <3>3
    <3> QED BY <1>2, <2>1, <3>4 DEF ScanAt
  <2>2. CASE ~Skippable(buf[p + 1], Len(buf) - (p + 1))
    BY <1>2, <2>2 DEF ScanAt
  <2> QED BY <2>1, <2>2
<1> QED BY <1>1, <1>2

\* The recursion has a solution.
LEMMA ScansExist ==
  ASSUME NEW buf \in Seq(Bytes), NEW base
  PROVE  \E g : Scans(g, buf, base, 1)
<1> DEFINE N == Len(buf)
           T == {d \in Nat : d <= N => \E g : Scans(g, buf, base, N + 1 - d)}
<1>n. N \in Nat
  BY BufferType
<1> HIDE DEF N
<1>1. 0 \in T
  <2>1. N + 1 - 0 = N + 1 /\ N + 1 \in 1 .. (N + 1)
    BY <1>n
  <2> DEFINE g == [p \in (N + 1) .. (N + 1) |-> <<>>]
  <2>2. \A p \in (N + 1) .. (N + 1) : ScanAt(g, buf, base, p) = <<>>
    <3> HIDE DEF g
    <3>1. \A p \in (N + 1) .. (N + 1) : p + 2 > N
      BY <1>n
    <3> QED BY <3>1 DEF ScanAt, N
  <2>3. Scans(g, buf, base, N + 1)
    BY <2>2 DEF Scans, N
  <2> QED BY <2>1, <2>3
<1>2. ASSUME NEW d \in Nat, d \in T PROVE d + 1 \in T
  <2> SUFFICES ASSUME d + 1 <= N PROVE \E h : Scans(h, buf, base, N + 1 - (d + 1))
    OBVIOUS
  <2> DEFINE a == N - d
  <2>1. a \in 1 .. N /\ N + 1 - (d + 1) = a /\ N + 1 - d = a + 1
    BY <1>n
  <2> HIDE DEF a
  <2>2. PICK g : Scans(g, buf, base, a + 1)
    BY <1>2, <1>n, <2>1
  <2> DEFINE v == ScanAt(g, buf, base, a)
  <2> HIDE DEF v
  <2> DEFINE h == [p \in a .. (N + 1) |-> IF p = a THEN v ELSE g[p]]
  <2>3. h[a] = v /\ \A p \in (a + 1) .. (N + 1) : h[p] = g[p]
    BY <1>n, <2>1
  <2>4. h = [p \in a .. (N + 1) |-> h[p]]
    OBVIOUS
  <2> HIDE DEF h
  <2>5. \A p \in (a + 1) .. (N + 1) : g[p] = ScanAt(g, buf, base, p)
    BY <2>2 DEF Scans, N
  <2>6. ASSUME NEW p \in a .. (N + 1) PROVE h[p] = ScanAt(h, buf, base, p)
    <3>1. p \in 1 .. (Len(buf) + 1)
      BY <1>n, <2>1 DEF N
    <3>2. \A q \in (p + 1) .. (Len(buf) + 1) : g[q] = h[q]
      BY <1>n, <2>1, <2>3 DEF N
    <3>3. ScanAt(g, buf, base, p) = ScanAt(h, buf, base, p)
      BY <3>1, <3>2, ScanLooksAhead
    <3>4. CASE p = a
      BY <2>3, <3>3, <3>4 DEF v
    <3>5. CASE p # a
      <4>1. p \in (a + 1) .. (N + 1)
        BY <1>n, <2>1, <3>5
      <4> QED BY <2>3, <2>5, <3>3, <4>1
    <3> QED BY <3>4, <3>5
  <2>7. Scans(h, buf, base, a)
    BY <2>4, <2>6 DEF Scans, N
  <2> QED BY <2>1, <2>7
<1>3. \A d \in Nat : d \in T
  <2> HIDE DEF T
  <2> QED BY <1>1, <1>2, InductionOnSet
<1>4. N + 1 - N = 1 /\ N <= N
  BY <1>n
<1> QED BY <1>3, <1>4, <1>n

\* A child is made of bytes.
LEMMA ChildType ==
  ASSUME NEW buf \in Seq(Bytes), NEW base \in Nat, NEW p \in 1 .. (Len(buf) + 1),
         ~(p + 2 > Len(buf))
  PROVE  ChildAt(buf, base, p) \in Child
<1>1. /\ Len(buf) \in Nat /\ p \in 1 .. Len(buf) /\ p + 1 \in 1 .. Len(buf)
      /\ p + 2 \in 1 .. Len(buf)
  BY BufferType
<1>2. buf[p] \in Bytes
  BY <1>1, BufferType
<1>3. PICK size \in Bytes : size = buf[p + 1] /\ size \in Nat
  BY <1>1, BufferType
<1>4. PICK k \in Nat : k = Available(size, Len(buf) - (p + 1)) /\ p + 1 + k <= Len(buf)
  BY <1>1, <1>3 DEF Available
<1>5. SubSeq(buf, p + 2, p + 1 + k) \in Seq(Bytes)
  <2>1. \A n \in (p + 2) .. (p + 1 + k) : buf[n] \in Bytes
    BY <1>1, <1>4, BufferType
  <2> QED BY <1>1, <1>4, <2>1
<1>6. base + p + 1 \in Nat
  BY <1>1
<1> QED BY <1>2, <1>3, <1>4, <1>5, <1>6 DEF ChildAt, Child

\* The scan of a buffer yields children.
LEMMA ChildrenType ==
  ASSUME NEW buf \in Seq(Bytes), NEW base \in Nat
  PROVE  Children(buf, base) \in Seq(Child)
<1> DEFINE f == CHOOSE g : Scans(g, buf, base, 1)
           N == Len(buf)
<1>n. N \in Nat
  BY BufferType
<1>1. Scans(f, buf, base, 1)
  BY ScansExist
<1>2. Children(buf, base) = f[1]
  BY DEF Children, Scans, ScanAt, ChildAt
<1> HIDE DEF f, N
<1>3. \A p \in 1 .. (N + 1) : f[p] = ScanAt(f, buf, base, p)
  BY <1>1 DEF Scans, N
<1> DEFINE T == {d \in Nat : \A p \in 1 .. (N + 1) : p >= N + 1 - d => f[p] \in Seq(Child)}
<1>4. ASSUME NEW p \in 1 .. (N + 1), \A q \in (p + 1) .. (N + 1) : f[q] \in Seq(Child)
      PROVE  f[p] \in Seq(Child)
  <2>1. CASE p + 2 > Len(buf) \/ buf[p] = 0
    <3>1. f[p] = <<>>
      BY <1>3, <2>1 DEF ScanAt
    <3> QED BY <3>1
  <2>2. CASE ~(p + 2 > Len(buf) \/ buf[p] = 0)
    <3>1. PICK c \in Child : c = ChildAt(buf, base, p)
      BY <2>2, ChildType DEF N
    <3>2. <<c>> \in Seq(Child)
      OBVIOUS
    <3>3. CASE Skippable(buf[p + 1], Len(buf) - (p + 1))
      <4>1. p + 1 \in 1 .. Len(buf)
        BY <1>n, <2>2 DEF N
      <4>2. PICK size \in Nat : size = buf[p + 1]
        BY <4>1, BufferType
      <4>3. p + 2 + size \in (p + 1) .. (N + 1)
        BY <1>n, <3>3, <4>1, <4>2 DEF Skippable, N
      <4>4. PICK rest \in Seq(Child) : rest = f[p + 2 + buf[p + 1]]
        BY <1>4, <4>2, <4>3
      <4>5. f[p] = <<c>> \o rest
        BY <1>3, <2>2, <3>1, <3>3, <4>4 DEF ScanAt
      <4> QED BY <3>2, <4>5
    <3>4. CASE ~Skippable(buf[p + 1], Len(buf) - (p + 1))
      <4>1. f[p] = <<c>> \o <<>>
        BY <1>3, <2>2, <3>1, <3>4 DEF ScanAt
      <4> QED BY <3>2, <4>1
    <3> QED BY <3>3, <3>4
  <2> QED BY <2>1, <2>2
<1>5. 0 \in T
  <2> SUFFICES ASSUME NEW p \in 1 .. (N + 1), p >= N + 1 - 0 PROVE f[p] \in Seq(Child)
    OBVIOUS
  <2>1. \A q \in (p + 1) .. (N + 1) : f[q] \in Seq(Child)
    BY <1>n
  <2> QED BY <1>4, <2>1
<1>6. ASSUME NEW d \in Nat, d \in T PROVE d + 1 \in T
  <2> SUFFICES ASSUME NEW p \in 1 .. (N + 1), p >= N + 1 - (d + 1) PROVE f[p] \in Seq(Child)
    OBVIOUS
  <2>1. \A q \in (p + 1) .. (N + 1) : q \in 1 .. (N + 1) /\ q >= N + 1 - d
    BY <1>n
  <2>2. \A q \in (p + 1) .. (N + 1) : f[q] \in Seq(Child)
    BY <1>6, <2>1
  <2> QED BY <1>4, <2>2
<1>7. \A d \in Nat : d \in T
  <2> HIDE DEF T
  <2> QED BY <1>5, <1>6, InductionOnSet
<1>8. 1 \in 1 .. (N + 1) /\ 1 >= N + 1 - N
  BY <1>n
<1>9. \A p \in 1 .. (N + 1) : p >= N + 1 - N => f[p] \in Seq(Child)
  <2>1. N \in T
    <3> HIDE DEF T
    <3> QED BY <1>7, <1>n
  <2> QED BY <2>1
<1> QED BY <1>2, <1>8, <1>9

-----------------------------------------------------------------------------
(* What the parsers return.                                                *)

\* The last of a sequence.
LEMMA FinalType ==
  ASSUME NEW S, NEW s \in Seq(S), s # <<>>
  PROVE  FinalOf(s) \in S /\ Len(s) \in 1 .. Len(s)
<1>1. Len(s) \in 1 .. Len(s)
  OBVIOUS
<1> QED BY <1>1, ElementOfSeq DEF FinalOf

\* A part of a buffer is one.
LEMMA PartType ==
  ASSUME NEW buf \in Seq(Bytes), NEW m \in Nat \ {0}, NEW n \in Int, n <= Len(buf)
  PROVE  SubSeq(buf, m, n) \in Seq(Bytes)
<1>1. \A k \in m .. n : buf[k] \in Bytes
  BY BufferType
<1>2. CASE m <= n
  BY <1>1, <1>2, BufferType
<1>3. CASE ~(m <= n)
  <2>1. SubSeq(buf, m, n) = <<>>
    BY <1>3, BufferType
  <2> QED BY <2>1
<1> QED BY <1>2, <1>3

\* The elements with an id are elements.
LEMMA NamedType ==
  ASSUME NEW id, NEW buf \in Seq(Bytes)
  PROVE  Named(id, buf) \in Seq(Child)
<1>1. Children(buf, 0) \in Seq(Child)
  BY ChildrenType
<1> QED BY <1>1, OnlyType DEF Named

\* So are those in a sequence of elements.
LEMMA NamedInType ==
  ASSUME NEW id, NEW elements \in Seq(Child)
  PROVE  NamedIn(id, elements) \in Seq(Child)
<1> DEFINE parts == [n \in DOMAIN elements |-> Named(id, elements[n].data)]
<1>1. /\ DOMAIN elements = 1 .. Len(elements) /\ Len(elements) \in Nat
      /\ \A n \in 1 .. Len(elements) : elements[n] \in Child
  BY ElementOfSeq
<1>2. \A n \in 1 .. Len(elements) : Named(id, elements[n].data) \in Seq(Child)
  <2> TAKE n \in 1 .. Len(elements)
  <2>1. elements[n].data \in Seq(Bytes)
    BY <1>1 DEF Child
  <2> QED BY <2>1, NamedType
<1>3. parts \in Seq(Seq(Child))
  BY <1>1, <1>2
<1> HIDE DEF parts
<1>4. FlattenSeq(parts) \in Seq(Child)
  BY <1>3, FlattenType
<1> QED BY <1>4 DEF NamedIn, parts

\* ebml_read_uint gives a number: that of all the bytes, if they are not too many.
LEMMA UintType ==
  ASSUME NEW data \in Seq(Bytes)
  PROVE  /\ Uint(data) \in Int
         /\ Len(data) <= NumberBytes => Uint(data) = BigEndian(data)
<1>1. CASE Len(data) <= NumberBytes
  BY <1>1, BigEndianType DEF Uint
<1>2. CASE ~(Len(data) <= NumberBytes)
  <2>1. NumberBytes \in Int /\ NumberBytes <= Len(data) /\ 1 \in Nat \ {0}
    BY <1>2, NumberAssumption, BufferType
  <2>2. PICK first \in Seq(Bytes) : first = SubSeq(data, 1, NumberBytes)
    BY <2>1, PartType
  <2>3. BigEndian(first) \in Nat
    BY BigEndianType
  <2> QED BY <1>2, <2>2, <2>3 DEF Uint
<1> QED BY <1>1, <1>2

\* A child's number, or the default.
LEMMA NumberType ==
  ASSUME NEW id, NEW buf \in Seq(Bytes), NEW default \in Int
  PROVE  /\ Number(id, buf, default) \in Int
         /\ Named(id, buf) = <<>> => Number(id, buf, default) = default
<1>1. PICK c \in Seq(Child) : c = Named(id, buf)
  BY NamedType
<1>2. CASE c = <<>>
  BY <1>1, <1>2 DEF Number
<1>3. CASE c # <<>>
  <2>1. c[Len(c)] \in Child
    BY <1>3, FinalType DEF FinalOf
  <2>2. c[Len(c)].data \in Seq(Bytes)
    BY <2>1 DEF Child
  <2>3. Uint(c[Len(c)].data) \in Int
    BY <2>2, UintType
  <2> QED BY <1>1, <1>3, <2>3 DEF Number
<1> QED BY <1>2, <1>3

\* The data of a Segment is in the buffer.
LEMMA SegmentStartType ==
  ASSUME NEW buf \in Seq(Bytes)
  PROVE  /\ SegmentStart(buf) \in Nat \cup {-1}
         /\ SegmentStart(buf) # -1 => SegmentData(buf) \in Seq(Bytes)
<1>1. PICK heads \in Seq(Child) : heads = Named(Id.EBMLHeader, buf)
  BY NamedType
<1>2. PICK pos \in Nat :
        pos = IF heads = <<>> THEN 0 ELSE FinalOf(heads).at + FinalOf(heads).size
  <2>1. CASE heads = <<>>
    BY <2>1
  <2>2. CASE heads # <<>>
    <3>1. FinalOf(heads) \in Child
      BY <2>2, FinalType
    <3>2. FinalOf(heads).at \in Nat /\ FinalOf(heads).size \in Nat
      BY <3>1, CueAssumption, FileAssumption DEF Child, Bytes
    <3> QED BY <2>2, <3>2
  <2> QED BY <2>1, <2>2
<1>3. SegmentStart(buf) = IF /\ Len(buf) >= MinHeader
                             /\ pos # 0 /\ pos + 2 <= Len(buf) /\ buf[pos + 1] = Id.Segment
                          THEN pos + 2 ELSE -1
  BY <1>1, <1>2 DEF SegmentStart
<1>4. SegmentStart(buf) \in Nat \cup {-1}
  BY <1>2, <1>3
<1>5. ASSUME SegmentStart(buf) # -1 PROVE SegmentData(buf) \in Seq(Bytes)
  <2>1. SegmentStart(buf) \in Nat
    BY <1>4, <1>5
  <2>2. PICK k \in Nat : k = SegmentStart(buf)
    BY <2>1
  <2>3. SubSeq(buf, k + 1, Len(buf)) \in Seq(Bytes)
    BY <2>2, BufferType, PartType
  <2> QED BY <2>2, <2>3 DEF SegmentData
<1> QED BY <1>4, <1>5

\* A sequence of elements in a buffer.
LEMMA GrandchildrenType ==
  ASSUME NEW data \in Seq(Bytes), NEW id, NEW at
  PROVE  NamedIn(id, Named(at, data)) \in Seq(Child)
<1>1. Named(at, data) \in Seq(Child)
  BY NamedType
<1> QED BY <1>1, NamedInType

\* The last of some elements.
LEMMA FinalData ==
  ASSUME NEW s \in Seq(Child), s # <<>>
  PROVE  FinalOf(s) \in Child /\ FinalOf(s).data \in Seq(Bytes)
<1>1. FinalOf(s) \in Child
  BY FinalType
<1> QED BY <1>1 DEF Child

\* parse_segment_info: the scale fills an int64_t, but the track has a number.
LEMMA SegmentInfoTypes ==
  ASSUME NEW buf \in Seq(Bytes)
  PROVE  TimestampScale(buf) \in Long /\ VideoTrack(buf) \in 1 .. MaxInt
<1>n. ScaleUnit \in Long /\ 1 \in 1 .. MaxInt
  BY FileAssumption DEF Long
<1>1. TimestampScale(buf) \in Long
  <2>1. CASE SegmentStart(buf) = -1
    BY <1>n, <2>1 DEF TimestampScale
  <2>2. CASE SegmentStart(buf) # -1
    <3>1. PICK scales \in Seq(Child) :
            scales = NamedIn(Id.TimestampScale, Named(Id.Info, SegmentData(buf)))
      BY <2>2, SegmentStartType, GrandchildrenType
    <3>2. CASE scales = <<>>
      BY <1>n, <3>1, <3>2 DEF TimestampScale
    <3>3. CASE scales # <<>>
      <4>1. Uint(FinalOf(scales).data) \in Int
        BY <3>3, FinalData, UintType
      <4>2. AsLong(Uint(FinalOf(scales).data)) \in Long
        BY <4>1, AsLongRange
      <4> QED BY <2>2, <3>1, <3>3, <4>2 DEF TimestampScale
    <3> QED BY <3>2, <3>3
  <2> QED BY <2>1, <2>2
<1>2. VideoTrack(buf) \in 1 .. MaxInt
  <2>1. TrackEntries(buf) \in Seq(Child)
    <3>1. CASE SegmentStart(buf) = -1
      BY <3>1 DEF TrackEntries
    <3>2. CASE SegmentStart(buf) # -1
      BY <3>2, SegmentStartType, GrandchildrenType DEF TrackEntries
    <3> QED BY <3>1, <3>2
  <2>2. PICK entries \in Seq(Child) : entries = TrackEntries(buf)
    BY <2>1
  <2> DEFINE P == {n \in DOMAIN entries : IsVideo(entries[n]) /\ TrackNumber(entries[n]) > 0}
             videos == Only(entries, P)
  <2>3. VideoTrack(buf) = LastOf(videos)
    BY <2>2 DEF VideoTrack
  <2>4. CASE videos = <<>>
    BY <1>n, <2>3, <2>4 DEF LastOf
  <2>5. CASE videos # <<>>
    <3>1. \E n \in P : FinalOf(videos) = entries[n]
      <4>1. videos \in Seq({entries[n] : n \in P \cap DOMAIN entries})
        <5> HIDE DEF P
        <5> QED BY OnlyPicks
      <4>2. FinalOf(videos) \in {entries[n] : n \in P \cap DOMAIN entries}
        <5> HIDE DEF P, videos
        <5> QED BY <2>5, <4>1, FinalType
      <4> QED BY <4>2
    <3>2. PICK n \in DOMAIN entries : FinalOf(videos) = entries[n] /\ TrackNumber(entries[n]) > 0
      BY <3>1
    <3>3. PICK data \in Seq(Bytes) : data = entries[n].data
      <4>1. entries[n] \in Child
        BY ElementOfSeq
      <4> QED BY <4>1 DEF Child
    <3>4. Number(Id.TrackNumber, data, 0) \in Int
      <4>1. 0 \in Int
        OBVIOUS
      <4> QED BY <4>1, NumberType
    <3>5. TrackNumber(entries[n]) \in (-(MaxInt + 1)) .. MaxInt
      BY <3>3, <3>4, AsIntRange DEF TrackNumber
    <3>6. TrackNumber(entries[n]) \in 1 .. MaxInt
      BY <3>2, <3>5, FileAssumption
    <3> QED BY <2>3, <2>5, <3>2, <3>6 DEF LastOf
  <2> QED BY <2>4, <2>5
<1> QED BY <1>1, <1>2

\* parse_cues_location: a place that fills an int64_t.
LEMMA CuesAtType ==
  ASSUME NEW buf \in Seq(Bytes), FindsCues(buf)
  PROVE  CuesAt(buf) \in Long
<1>1. /\ SegmentStart(buf) \in Int /\ SegmentData(buf) \in Seq(Bytes)
  BY SegmentStartType DEF FindsCues
<1>2. PICK seeks \in Seq(Child) :
        seeks = NamedIn(Id.Seek, Named(Id.SeekHead, SegmentData(buf)))
  BY <1>1, GrandchildrenType
<1>3. PICK found \in Seq(Child) : found = SeeksOfCues(buf)
  <2> DEFINE P == {n \in DOMAIN seeks :
                     /\ Number(Id.SeekID, seeks[n].data, 0) = Id.Cues
                     /\ Named(Id.SeekPosition, seeks[n].data) # <<>>}
  <2>1. Only(seeks, P) \in Seq(Child)
    <3> HIDE DEF P
    <3> QED BY OnlyType
  <2> QED BY <1>2, <2>1 DEF SeeksOfCues
<1>4. PICK seek \in Child : seek = FinalOf(found) /\ seek.data \in Seq(Bytes)
  BY <1>3, FinalData DEF FindsCues
<1>5. Number(Id.SeekPosition, seek.data, 0) \in Int
  <2>1. PICK data \in Seq(Bytes) : data = seek.data
    BY <1>4
  <2>2. Number(Id.SeekPosition, data, 0) \in Int
    <3>1. 0 \in Int
      OBVIOUS
    <3> QED BY <3>1, NumberType
  <2> QED BY <2>1, <2>2
<1>6. PICK k \in Int : k = AsLong(Number(Id.SeekPosition, seek.data, 0))
  BY <1>5, AsLongRange DEF Long
<1>7. AsLong(SegmentStart(buf) + k) \in Long
  BY <1>1, <1>6, AsLongRange
<1> QED BY <1>3, <1>4, <1>6, <1>7 DEF CuesAt, PlaceOf

\* A cue point's time, in ticks: not negative only if there is one.
LEMMA CueTicksType ==
  ASSUME NEW point \in Seq(Bytes)
  PROVE  /\ CueTicks(point) \in Long
         /\ CueTicks(point) >= 0 => Named(Id.CueTime, point) # <<>>
<1>n. -1 \in Int
  OBVIOUS
<1>1. Number(Id.CueTime, point, -1) \in Int
  BY <1>n, NumberType
<1>2. CueTicks(point) \in Long
  BY <1>1, AsLongRange DEF CueTicks
<1>3. ASSUME Named(Id.CueTime, point) = <<>> PROVE CueTicks(point) = -1
  <2>1. Number(Id.CueTime, point, -1) = -1
    BY <1>3, NumberType
  <2>2. -1 \in Long
    BY FileAssumption DEF Long
  <2> QED BY <2>1, <2>2, AsLongRange DEF CueTicks
<1> QED BY <1>2, <1>3

\* An entry that parse_cues_data makes is a cue.
LEMMA EntryType ==
  ASSUME NEW point \in Seq(Bytes), info.scale \in Long, info.start \in Int
  PROVE  Entry(point) \in Cue
<1>1. PICK ticks \in Int : ticks = CueTicks(point)
  BY CueTicksType DEF Long
<1>2. TimeMs(ticks) \in Times
  <2>1. ticks * info.scale \in Int
    BY <1>1 DEF Long
  <2>2. AsLong(ticks * info.scale) \in Long
    BY <2>1, AsLongRange
  <2> QED BY <2>2, QuotientRange DEF TimeMs, Times
<1>3. PICK all \in Seq(Child) : all = VideoPositions(point)
  <2>1. PICK some \in Seq(Child) : some = Named(Id.CueTrackPositions, point)
    BY NamedType
  <2> DEFINE P == {n \in DOMAIN some : AsInt(Number(Id.CueTrack, some[n].data, 0)) = info.track}
  <2>2. Only(some, P) \in Seq(Child)
    <3> HIDE DEF P
    <3> QED BY OnlyType
  <2> QED BY <2>1, <2>2 DEF VideoPositions
<1>4. PICK at \in Int :
        at = IF all = <<>> THEN -1
             ELSE AsLong(Number(Id.CueClusterPosition, FinalOf(all).data, -1))
  <2>1. CASE all = <<>>
    BY <2>1
  <2>2. CASE all # <<>>
    <3>1. PICK data \in Seq(Bytes) : data = FinalOf(all).data
      BY <2>2, FinalData
    <3>2. Number(Id.CueClusterPosition, data, -1) \in Int
      <4>1. -1 \in Int
        OBVIOUS
      <4> QED BY <4>1, NumberType
    <3> QED BY <2>2, <3>1, <3>2, AsLongRange DEF Long
  <2> QED BY <2>1, <2>2
<1>5. (IF at >= 0 THEN AsLong(info.start + at) ELSE -1) \in Long
  <2>1. -1 \in Long
    BY FileAssumption DEF Long
  <2>2. AsLong(info.start + at) \in Long
    BY <1>4, AsLongRange
  <2> QED BY <2>1, <2>2
<1>6. Entry(point) = [time |-> TimeMs(ticks),
                      cluster |-> IF at >= 0 THEN AsLong(info.start + at) ELSE -1]
  BY <1>1, <1>3, <1>4 DEF Entry
<1> QED BY <1>2, <1>5, <1>6 DEF Cue

-----------------------------------------------------------------------------
(* EnsureCueIndex keeps the types.                                         *)

InfoType == [scale : Long, track : 1 .. MaxInt, start : Nat \cup {-1}, cues : Long,
             length : 0 .. CuesLimit]

\* FilterKeyframes loops over two cues or more, and its target stays near them.
LoopFits ==
  /\ phase = "filter" => Len(raw) >= 2
  /\ nextTarget <= MaxTime + Target

\* With what the actions rely on: the cues are looked for where they are said to
\* be, and the filter starts once.
CueInv ==
  /\ TypeOK /\ LoopFits
  /\ file \in FileType
  /\ step \in {"header", "chunk", "cues", "scan", "filter", "failed", "crashed"}
  /\ step \in {"header", "chunk", "cues", "scan", "crashed"} => phase = "parse"
  /\ short \subseteq {"header", "chunk", "cues"}
  /\ info \in InfoType /\ tell \in Nat
  /\ points \in Seq(Child)
  /\ cues \in Seq(Cue)

LEMMA InitCueInv == CueInit => CueInv
<1>1. ScaleUnit \in Long /\ -1 \in Long /\ 1 \in 1 .. MaxInt
  BY FileAssumption DEF Long
<1>2. MaxTime \in Nat
  BY FileAssumption, LastMultiple DEF MaxTime
<1> QED
  BY <1>1, <1>2, CueAssumption, FileAssumption, KeyframeAssumption
     DEF CueInit, Init, CueInv, TypeOK, LoopFits, InfoType

\* The loop's target goes no further than a target past the cue that it is behind.
LEMMA TargetAfterBound ==
  ASSUME NEW target \in Nat, NEW t \in Int, t >= target
  PROVE  TargetAfter(target, t) <= t + Target
<1>1. Target \in Nat \ {0}
  BY KeyframeAssumption
<1>2. PICK gap \in Nat : gap = t - target
  OBVIOUS
<1>3. PICK q \in Nat : q = gap \div Target /\ q * Target <= gap
  BY <1>1, LastMultiple
<1>4. PICK m \in Nat : m = q * Target
  BY <1>1
<1>5. Target * (q + 1) = m + Target
  BY <1>1, <1>4, SMTT(30)
<1>6. TargetAfter(target, t) = target + Target * (q + 1)
  BY <1>2, <1>3 DEF TargetAfter
<1>7. TargetAfter(target, t) = target + (m + Target)
  BY <1>5, <1>6
<1> QED BY <1>1, <1>2, <1>3, <1>4, <1>7

\* The steps of KeyframeIndex keep its types.
LEMMA FilterTypes ==
  ASSUME CueTime = Times, TypeOK, LoopFits,
         StartFilter \/ KeepCue \/ PassCue \/ EndFilter
  PROVE  TypeOK' /\ LoopFits'
<1>t. /\ raw \in Seq(CueTime) /\ filtered \in Seq(CueTime)
      /\ next \in Nat \ {0} /\ nextTarget \in Nat
      /\ Len(raw) \in Nat
      /\ \A n \in 1 .. Len(raw) : raw[n] \in CueTime
      /\ CueTime \subseteq Int /\ Target \in Nat \ {0}
  BY KeyframeAssumption, ElementOfSeq DEF TypeOK
<1>m. MaxTime \in Nat
  BY FileAssumption, LastMultiple DEF MaxTime
<1>1. CASE StartFilter
  <2>1. raw' = raw /\ next' = 2 /\ nextTarget' = Target
    BY <1>1 DEF StartFilter
  <2>2. /\ phase' \in {"parse", "filter", "done"}
        /\ phase' = "filter" => Len(raw) >= 2
    BY <1>1, <1>t DEF StartFilter
  <2>3. filtered' \in Seq(CueTime)
    <3>1. CASE Len(raw) < 2
      BY <1>1, <1>t, <3>1 DEF StartFilter
    <3>2. CASE ~(Len(raw) < 2)
      <4>1. raw[1] \in CueTime
        BY <1>t, <3>2
      <4>2. filtered' = <<raw[1]>>
        BY <1>1, <3>2 DEF StartFilter
      <4> QED BY <4>1, <4>2
    <3> QED BY <3>1, <3>2
  <2> QED BY <1>t, <1>m, <2>1, <2>2, <2>3 DEF TypeOK, LoopFits
<1>2. CASE KeepCue
  <2>1. next \in 1 .. Len(raw) /\ raw[next] >= nextTarget
    BY <1>2, <1>t DEF KeepCue
  <2>2. PICK t \in CueTime : t = raw[next]
    BY <1>t, <2>1
  <2>3. TargetAfter(nextTarget, t) \in Nat
    BY <1>t, <2>1, <2>2, TargetAfterType
  <2>4. Append(filtered, t) \in Seq(CueTime)
    BY <1>t, <2>2, Appended
  <2>5. TargetAfter(nextTarget, t) <= MaxTime + Target
    <3>1. TargetAfter(nextTarget, t) <= t + Target
      BY <1>t, <2>1, <2>2, TargetAfterBound
    <3>2. t \in Int /\ t <= MaxTime
      BY <1>m, <2>2 DEF Times
    <3> QED BY <1>t, <1>m, <2>3, <3>1, <3>2
  <2> QED BY <1>2, <1>t, <2>2, <2>3, <2>4, <2>5 DEF KeepCue, TypeOK, LoopFits
<1>3. CASE PassCue
  BY <1>3, <1>t DEF PassCue, TypeOK, LoopFits
<1>4. CASE EndFilter
  <2>1. Len(raw) \in 1 .. Len(raw)
    BY <1>t, <1>4 DEF EndFilter, LoopFits
  <2>2. PICK t \in CueTime : t = FinalOf(raw)
    BY <1>t, <2>1 DEF FinalOf
  <2>3. Append(filtered, t) \in Seq(CueTime)
    BY <1>t, <2>2, Appended
  <2>4. Finished(filtered, raw) \in Seq(CueTime)
    BY <1>t, <2>2, <2>3 DEF Finished
  <2> QED BY <1>4, <1>t, <2>4 DEF EndFilter, TypeOK, LoopFits
<1> QED BY <1>1, <1>2, <1>3, <1>4

\* A read gives bytes.
LEMMA AnswerType ==
  ASSUME CueInv, NEW at \in Nat, NEW n \in Nat, NEW got \in Answers(at, n)
  PROVE  got \in Seq(Bytes)
<1>1. file.bytes \in Seq(Bytes) /\ Len(file.bytes) \in Nat
  BY BufferType DEF CueInv, FileType, Bytes
<1>2. PICK end \in Int : /\ end = IF at + n < Len(file.bytes) THEN at + n ELSE Len(file.bytes)
                         /\ end <= Len(file.bytes)
  BY <1>1
<1>3. PICK whole \in Seq(Bytes) : whole = Whole(at, n)
  <2>1. at + 1 \in Nat \ {0}
    OBVIOUS
  <2>2. SubSeq(file.bytes, at + 1, end) \in Seq(Bytes)
    BY <1>1, <1>2, <2>1, PartType
  <2> QED BY <1>2, <2>2 DEF Whole
<1>4. CASE got = whole
  BY <1>4
<1>5. CASE got # whole
  <2>1. PICK m \in 0 .. (Len(whole) - 1) : got = SubSeq(whole, 1, m)
    BY <1>3, <1>5 DEF Answers
  <2>2. m \in Int /\ m <= Len(whole)
    BY <2>1, BufferType
  <2> QED BY <2>1, <2>2, PartType
<1> QED BY <1>4, <1>5

\* Reading is at a place in the file or behind it.
LEMMA FromType ==
  ASSUME CueInv, NEW at \in Int
  PROVE  From(at) \in Nat /\ (at \in Nat => From(at) = at)
BY DEF CueInv, From

\* What Got leaves: one fault less, and the step among the short ones.
LEMMA GotType ==
  ASSUME CueInv, NEW at \in Nat, NEW n \in Nat, NEW got \in Answers(at, n),
         Got(got, at, n), step \in {"header", "chunk", "cues"}
  PROVE  /\ file' \in FileType /\ short' \subseteq {"header", "chunk", "cues"}
         /\ tell' \in Nat
<1>t. tell' \in Nat
  <2>1. Len(got) \in Nat
    BY AnswerType, BufferType
  <2> QED BY <2>1 DEF Got
<1>1. CASE got = Whole(at, n)
  BY <1>1 DEF Got, CueInv
<1>2. CASE got # Whole(at, n)
  <2>1. file.faults # 0
    BY <1>2 DEF Answers
  <2>2. file \in FileType /\ file.faults - 1 \in Nat
    BY <2>1 DEF CueInv, FileType
  <2>3. file' = [file EXCEPT !.faults = file.faults - 1] /\ short' = short \cup {step}
    BY <1>2 DEF Got
  <2>4. file' \in FileType
    BY <2>2, <2>3 DEF FileType
  <2>5. short' \subseteq {"header", "chunk", "cues"}
    BY <2>3 DEF CueInv
  <2> QED BY <1>t, <2>4, <2>5
<1> QED BY <1>t, <1>1, <1>2

\* An early return keeps the types.
LEMMA FailKeeps ==
  ASSUME CueTime = Times, CueInv, Fail, file' \in FileType, short' \subseteq {"header", "chunk", "cues"},
         tell' \in Nat
  PROVE  CueInv'
<1>1. TypeOK' /\ LoopFits'
  BY FilterTypes DEF Fail, CueInv
<1> QED BY <1>1 DEF Fail, CueInv

LEMMA NextCueInv ==
  ASSUME CueTime = Times, CueInv, [CueNext]_<<vars, cueVars>>
  PROVE  CueInv'
<1>1. CASE ReadHeader
  <2>1. PICK got \in Answers(0, HeaderSize) :
          /\ Got(got, 0, HeaderSize)
          /\ IF got = <<>> \/ ~FindsCues(got) THEN Fail
             ELSE \/ /\ info' = [scale |-> TimestampScale(got), track |-> VideoTrack(got),
                                 start |-> SegmentStart(got), cues |-> CuesAt(got),
                                 length |-> 0]
                     /\ GoOn("chunk") /\ UNCHANGED <<points, cues>>
                  \/ GoOn("crashed") /\ UNCHANGED <<info, points, cues>>
    BY <1>1 DEF ReadHeader
  <2>2. step = "header" /\ HeaderSize \in Nat
    BY <1>1, CueAssumption, FileAssumption DEF ReadHeader
  <2>3. got \in Seq(Bytes)
    BY <2>2, AnswerType
  <2>4. file' \in FileType /\ short' \subseteq {"header", "chunk", "cues"} /\ tell' \in Nat
    BY <2>1, <2>2, GotType
  <2>5. CASE got = <<>> \/ ~FindsCues(got)
    <3>1. Fail
      BY <2>1, <2>5
    <3> QED BY <2>4, <3>1, FailKeeps
  <2>6. CASE ~(got = <<>> \/ ~FindsCues(got))
    <3>1. /\ TimestampScale(got) \in Long /\ VideoTrack(got) \in 1 .. MaxInt
          /\ CuesAt(got) \in Long /\ SegmentStart(got) \in Nat \cup {-1}
      BY <2>3, <2>6, SegmentInfoTypes, CuesAtType, SegmentStartType
    <3>2. CASE GoOn("crashed") /\ UNCHANGED <<info, points, cues>>
      <4>1. step' = "crashed" /\ UNCHANGED <<vars, info, points, cues>>
        BY <3>2 DEF GoOn
      <4> QED BY <2>2, <2>4, <4>1 DEF CueInv, TypeOK, LoopFits, vars
    <3>3. CASE ~(GoOn("crashed") /\ UNCHANGED <<info, points, cues>>)
      <4>1. info' \in InfoType
        BY <2>1, <2>6, <3>1, <3>3, FileAssumption DEF InfoType
      <4>2. step' = "chunk" /\ UNCHANGED <<vars, points, cues>>
        BY <2>1, <2>6, <3>3 DEF GoOn
      <4> QED BY <2>2, <2>4, <4>1, <4>2 DEF CueInv, TypeOK, LoopFits, vars
    <3> QED BY <3>2, <3>3
  <2> QED BY <2>5, <2>6
<1>2. CASE ReadChunk
  <2>1. PICK got \in Answers(From(info.cues), ChunkSize) :
          /\ Got(got, From(info.cues), ChunkSize)
          /\ IF Len(got) < MinChunk \/ got[1] # Id.Cues THEN Fail
             ELSE /\ info' = [info EXCEPT !.length = CuesLength(got)]
                  /\ GoOn("cues") /\ UNCHANGED <<points, cues>>
    BY <1>2 DEF ReadChunk
  <2>2. step = "chunk" /\ ChunkSize \in Nat /\ From(info.cues) \in Nat
    <3>1. info.cues \in Long
      BY DEF CueInv, InfoType
    <3>2. info.cues \in Int
      BY <3>1, FileAssumption DEF Long
    <3>3. From(info.cues) \in Nat
      BY <3>2, FromType
    <3>4. step = "chunk"
      BY <1>2 DEF ReadChunk
    <3> QED BY <3>3, <3>4, CueAssumption
  <2>3. got \in Seq(Bytes)
    BY <2>2, AnswerType
  <2>4. file' \in FileType /\ short' \subseteq {"header", "chunk", "cues"} /\ tell' \in Nat
    BY <2>1, <2>2, GotType
  <2>5. CASE Len(got) < MinChunk \/ got[1] # Id.Cues
    <3>1. Fail
      BY <2>1, <2>5
    <3> QED BY <2>4, <3>1, FailKeeps
  <2>6. CASE ~(Len(got) < MinChunk \/ got[1] # Id.Cues)
    <3>1. 2 \in 1 .. Len(got)
      BY <2>3, <2>6, CueAssumption, FileAssumption, BufferType
    <3>2. got[2] \in Nat
      BY <2>3, <3>1, BufferType
    <3>3. CuesLength(got) \in 0 .. CuesLimit
      BY <3>2, CueAssumption, FileAssumption DEF CuesLength
    <3>4. info' = [info EXCEPT !.length = CuesLength(got)]
      BY <2>1, <2>6
    <3>5. info' \in InfoType
      BY <3>3, <3>4 DEF CueInv, InfoType
    <3>6. step' = "cues" /\ UNCHANGED <<vars, points, cues>>
      BY <2>1, <2>6 DEF GoOn
    <3> QED BY <2>2, <2>4, <3>5, <3>6 DEF CueInv, TypeOK, LoopFits, vars
  <2> QED BY <2>5, <2>6
<1>3. CASE ReadCues
  <2>1. PICK got \in Answers(From(info.cues), info.length) :
          /\ Got(got, From(info.cues), info.length)
          /\ IF got = <<>> THEN Fail
             ELSE /\ points' = IF got[1] # Id.Cues THEN <<>>
                               ELSE Named(Id.CuePoint, SubSeq(got, 3, Len(got)))
                  /\ GoOn("scan") /\ UNCHANGED <<info, cues>>
    BY <1>3 DEF ReadCues
  <2>2. step = "cues" /\ info.length \in Nat /\ From(info.cues) \in Nat
    BY <1>3, FileAssumption, FromType DEF ReadCues, CueInv, InfoType, Long
  <2>3. got \in Seq(Bytes)
    BY <2>2, AnswerType
  <2>4. file' \in FileType /\ short' \subseteq {"header", "chunk", "cues"} /\ tell' \in Nat
    BY <2>1, <2>2, GotType
  <2>5. CASE got = <<>>
    <3>1. Fail
      BY <2>1, <2>5
    <3> QED BY <2>4, <3>1, FailKeeps
  <2>6. CASE got # <<>>
    <3>1. SubSeq(got, 3, Len(got)) \in Seq(Bytes)
      BY <2>3, BufferType, PartType
    <3>2. points' \in Seq(Child)
      <4>1. PICK rest \in Seq(Bytes) : rest = SubSeq(got, 3, Len(got))
        BY <3>1
      <4>2. PICK parts : parts = Named(Id.CuePoint, rest)
        OBVIOUS
      <4>3. parts \in Seq(Child)
        BY <4>2, NamedType
      <4>4. points' = IF got[1] # Id.Cues THEN <<>> ELSE parts
        BY <2>1, <2>6, <4>1, <4>2
      <4> QED BY <4>3, <4>4
    <3>3. step' = "scan" /\ UNCHANGED <<vars, info, cues>>
      BY <2>1, <2>6 DEF GoOn
    <3> QED BY <2>2, <2>4, <3>2, <3>3 DEF CueInv, TypeOK, LoopFits, vars
  <2> QED BY <2>5, <2>6
<1>4. CASE VisitCuePoint
  <2>1. points \in Seq(Child) /\ points # <<>> /\ phase = "parse" /\ cues \in Seq(Cue)
        /\ raw \in Seq(Times) /\ info \in InfoType
    BY <1>4 DEF VisitCuePoint, CueInv, TypeOK
  <2>2. PICK point \in Seq(Bytes) : point = Head(points).data
    <3>1. Head(points) \in Child
      BY <2>1
    <3> QED BY <3>1 DEF Child
  <2>3. points' \in Seq(Child)
    <3>1. Tail(points) \in Seq(Child)
      BY <2>1
    <3> QED BY <1>4, <3>1 DEF VisitCuePoint
  <2>4. cues' \in Seq(Cue) /\ raw' \in Seq(Times)
    <3>1. CASE IsCue(point)
      <4>1. info.scale \in Long /\ info.start \in Int
        BY <2>1 DEF InfoType
      <4>2. PICK entry \in Cue : entry = Entry(point)
        BY <4>1, EntryType
      <4>3. entry.time \in Times
        BY <4>2 DEF Cue
      <4>4. cues' = Append(cues, entry) /\ raw' = Append(raw, entry.time)
        BY <1>4, <2>2, <3>1, <4>2 DEF VisitCuePoint
      <4> QED BY <2>1, <4>2, <4>3, <4>4, Appended
    <3>2. CASE ~IsCue(point)
      BY <1>4, <2>1, <2>2, <3>2 DEF VisitCuePoint
    <3> QED BY <3>1, <3>2
  <2>5. UNCHANGED <<file, step, short, info, tell, phase, next, filtered, nextTarget>>
    BY <1>4 DEF VisitCuePoint
  <2> QED BY <2>1, <2>3, <2>4, <2>5 DEF CueInv, TypeOK, LoopFits
<1>5. CASE BeginFilter
  <2>1. StartFilter /\ step' = "filter" /\ UNCHANGED <<file, short, info, tell, points, cues>>
    BY <1>5 DEF BeginFilter
  <2>2. TypeOK' /\ LoopFits'
    BY <2>1, FilterTypes DEF CueInv
  <2> QED BY <2>1, <2>2 DEF CueInv
<1>6. CASE Filter
  <2>1. /\ step = "filter"
        /\ KeepCue \/ PassCue \/ EndFilter
        /\ UNCHANGED <<file, step, short, info, tell, points, cues>>
    BY <1>6 DEF Filter, cueVars
  <2>2. TypeOK' /\ LoopFits'
    BY <2>1, FilterTypes DEF CueInv
  <2> QED BY <2>1, <2>2 DEF CueInv
<1>7. CASE UNCHANGED <<vars, cueVars>>
  BY <1>7 DEF CueInv, TypeOK, LoopFits, vars, cueVars
<1> QED BY <1>1, <1>2, <1>3, <1>4, <1>5, <1>6, <1>7 DEF CueNext

LEMMA CueInductive == ASSUME CueTime = Times PROVE CueSpec => []CueInv
<1>1. CueInv /\ [CueNext]_<<vars, cueVars>> => CueInv'
  BY NextCueInv
<1> QED BY <1>1, InitCueInv, PTL DEF CueSpec

\* Whatever bytes a file holds and wherever its reads stop: the scale, the place of
\* the cues and a cluster's may be negative, as may times, but what EbmlParser.h
\* casts and multiplies stays what its type holds; the track has a positive number;
\* and times, once scaled, leave FilterKeyframes room to count next_target past them.
THEOREM CueTypes == ASSUME CueTime = Times PROVE CueSpec => []CueTypeOK
<1>1. CueInv => CueTypeOK
  BY DEF CueInv, LoopFits, InfoType, CueTypeOK
<1> QED BY <1>1, CueInductive, PTL

-----------------------------------------------------------------------------
(* EnsureCueIndex implements KeyframeIndex.                                *)

\* The cue points that are found ascend, as they do in a file, and are no more
\* than the bound of KeyframeIndex.
CuesAscend == Increasing(raw) /\ Len(raw) <= MaxCues

LEMMA InitMaps == CueInit => Init
BY DEF CueInit

LEMMA NextMaps ==
  ASSUME CueTime = Times, CueInv, CuesAscend', [CueNext]_<<vars, cueVars>>
  PROVE  [Next]_vars
<1>1. CASE ReadHeader
  BY <1>1 DEF ReadHeader, Fail, GoOn, Next
<1>2. CASE ReadChunk
  BY <1>2 DEF ReadChunk, Fail, GoOn, Next
<1>3. CASE ReadCues
  BY <1>3 DEF ReadCues, Fail, GoOn, Next
<1>4. CASE VisitCuePoint
  <2>1. points \in Seq(Child) /\ points # <<>> /\ phase = "parse"
        /\ raw \in Seq(Int) /\ raw \in Seq(Times) /\ info \in InfoType
    <3>1. Times \subseteq Int
      BY FileAssumption, LastMultiple DEF Times, MaxTime
    <3>2. raw \in Seq(Times)
      BY <1>4 DEF VisitCuePoint, CueInv, TypeOK
    <3> QED BY <1>4, <3>1, <3>2, SeqMonotonic DEF VisitCuePoint, CueInv, TypeOK
  <2>2. PICK point \in Seq(Bytes) : point = Head(points).data
    <3>1. Head(points) \in Child
      BY <2>1
    <3> QED BY <3>1 DEF Child
  <2>3. UNCHANGED <<phase, next, filtered, nextTarget>>
    BY <1>4 DEF VisitCuePoint
  <2>4. CASE IsCue(point)
    <3>1. info.scale \in Long /\ info.start \in Int
      BY <2>1 DEF InfoType
    <3>2. PICK t \in Times : t = Entry(point).time
      BY <2>4, <3>1, EntryType DEF Cue
    <3>3. raw' = Append(raw, t)
      BY <1>4, <2>2, <2>4, <3>2 DEF VisitCuePoint
    <3>4. /\ Len(raw) \in Nat /\ MaxCues \in Nat
          /\ DOMAIN Append(raw, t) = 1 .. (Len(raw) + 1)
          /\ Len(Append(raw, t)) = Len(raw) + 1
          /\ Append(raw, t)[Len(raw) + 1] = t
          /\ \A n \in 1 .. Len(raw) : Append(raw, t)[n] = raw[n]
      BY <2>1, KeyframeAssumption, Appended
    <3>5. Len(raw) < MaxCues
      BY <3>3, <3>4 DEF CuesAscend
    <3>6. raw # <<>> => FinalOf(raw) < t
      <4> SUFFICES ASSUME raw # <<>> PROVE FinalOf(raw) < t
        OBVIOUS
      <4>1. Len(raw) \in 1 .. Len(raw)
        BY <2>1
      <4>2. Append(raw, t)[Len(raw)] < Append(raw, t)[Len(raw) + 1]
        BY <3>3, <3>4, <4>1 DEF CuesAscend, Increasing
      <4> QED BY <3>4, <4>1, <4>2 DEF FinalOf
    <3>7. ParseCuePoint
      BY <2>1, <2>3, <3>2, <3>3, <3>5, <3>6 DEF ParseCuePoint
    <3> QED BY <3>7 DEF Next
  <2>5. CASE ~IsCue(point)
    BY <1>4, <2>2, <2>3, <2>5 DEF VisitCuePoint, vars
  <2> QED BY <2>4, <2>5
<1>5. CASE BeginFilter
  BY <1>5 DEF BeginFilter, Next
<1>6. CASE Filter
  BY <1>6 DEF Filter, Next
<1>7. CASE UNCHANGED <<vars, cueVars>>
  BY <1>7 DEF vars
<1> QED BY <1>1, <1>2, <1>3, <1>4, <1>5, <1>6, <1>7 DEF CueNext

\* EnsureCueIndex makes its boundaries as KeyframeIndex has it, of the file's
\* bytes: an early return is a filter of no cues, a visit of a cue point adds
\* one cue or none, and the filter runs once, after the last of them.
THEOREM CueIndexImplements ==
  ASSUME CueTime = Times
  PROVE  CueSpec /\ []CuesAscend => ImplementsKeyframeIndex
<1>1. CueInv /\ CuesAscend' /\ [CueNext]_<<vars, cueVars>> => [Next]_vars
  BY NextMaps
<1>2. CueSpec /\ []CuesAscend => Spec
  BY <1>1, InitMaps, CueInductive, PTL DEF CueSpec, Spec
<1> QED BY <1>2 DEF ImplementsKeyframeIndex

\* So the boundaries that EnsureCueIndex takes from a file ascend, reach from its
\* first cue to its last, and are the cues that reach a multiple of the target.
THEOREM CueBoundaries ==
  ASSUME CueTime = Times
  PROVE  CueSpec /\ []CuesAscend =>
           [](/\ BoundariesIncrease /\ BoundariesSpanTheCues
              /\ NoTargetIsMissed /\ OnlyTargetsArePicked
              /\ LaterBoundariesReachTarget)
<1>1. CueSpec /\ []CuesAscend => Spec
  BY CueIndexImplements DEF ImplementsKeyframeIndex
<1> QED BY <1>1, BoundariesOrdered, BoundariesReachTheLastCue, NoTargetMissed,
           OnlyTargetsPicked, LaterBoundariesReach, PTL

-----------------------------------------------------------------------------
(* Joins and selections, part by part.                                     *)

\* The recursion has one solution.
LEMMA JoinsAgree ==
  ASSUME NEW s, NEW a \in Nat, NEW b \in Nat, b <= a,
         NEW g, NEW h, Joins(g, s, a), Joins(h, s, b)
  PROVE  \A n \in 1 .. b : g[n] = h[n]
<1>1. /\ \A n \in 1 .. a : g[n] = IF n = 1 THEN s[n] ELSE g[n - 1] \o s[n]
      /\ \A n \in 1 .. b : h[n] = IF n = 1 THEN s[n] ELSE h[n - 1] \o s[n]
  BY DEF Joins
<1> DEFINE T == {n \in Nat : n \in 1 .. b => g[n] = h[n]}
<1>2. 0 \in T
  OBVIOUS
<1>3. ASSUME NEW n \in Nat, n \in T PROVE n + 1 \in T
  <2> SUFFICES ASSUME n + 1 \in 1 .. b PROVE g[n + 1] = h[n + 1]
    OBVIOUS
  <2>1. n + 1 \in 1 .. a /\ n + 1 \in 1 .. b /\ (n + 1) - 1 = n
    OBVIOUS
  <2>2. CASE n = 0
    BY <1>1, <2>1, <2>2
  <2>3. CASE n # 0
    <3>1. g[n] = h[n] /\ n + 1 # 1
      BY <1>3, <2>3
    <3> QED BY <1>1, <2>1, <3>1
  <2> QED BY <2>2, <2>3
<1>4. \A n \in Nat : n \in T
  <2> HIDE DEF T
  <2> QED BY <1>2, <1>3, InductionOnSet
<1> QED BY <1>4

\* The first k parts, joined.
Joined(s, k) == FlattenSeq(SubSeq(s, 1, k))

LEMMA JoinedSteps ==
  ASSUME NEW S, NEW s \in Seq(Seq(S))
  PROVE  /\ Joined(s, 0) = <<>>
         /\ Joined(s, Len(s)) = FlattenSeq(s)
         /\ \A k \in 0 .. Len(s) : Joined(s, k) \in Seq(S)
         /\ \A k \in Nat : k < Len(s) => Joined(s, k + 1) = Joined(s, k) \o s[k + 1]
<1>n. Len(s) \in Nat /\ \A n \in 1 .. Len(s) : s[n] \in Seq(S)
  BY ElementOfSeq
<1>p. ASSUME NEW k \in 0 .. Len(s)
      PROVE  /\ SubSeq(s, 1, k) \in Seq(Seq(S)) /\ Len(SubSeq(s, 1, k)) = k
             /\ \A n \in 1 .. k : SubSeq(s, 1, k)[n] = s[n]
  BY <1>n
<1>1. Joined(s, 0) = <<>>
  <2>1. SubSeq(s, 1, 0) = <<>>
    BY <1>n
  <2> QED BY <2>1 DEF Joined, FlattenSeq
<1>2. Joined(s, Len(s)) = FlattenSeq(s)
  <2>1. SubSeq(s, 1, Len(s)) = s
    BY <1>n, SubSeqFull
  <2> QED BY <2>1 DEF Joined
<1>3. \A k \in 0 .. Len(s) : Joined(s, k) \in Seq(S)
  BY <1>p, FlattenType DEF Joined
<1>4. ASSUME NEW k \in 1 .. Len(s)
      PROVE  \E g : Joins(g, s, k) /\ Joined(s, k) = g[k]
  <2> DEFINE t == SubSeq(s, 1, k)
  <2>1. t \in Seq(Seq(S)) /\ Len(t) = k /\ \A n \in 1 .. k : t[n] = s[n]
    BY <1>p, <1>n
  <2> DEFINE f == CHOOSE g : Joins(g, t, Len(t))
  <2> HIDE DEF t
  <2>2. Joins(f, t, Len(t))
    <3>1. Len(t) \in Nat
      BY <2>1
    <3>2. \E g : Joins(g, t, Len(t))
      BY <3>1, JoinsExist
    <3> QED BY <3>2
  <2>3. FlattenSeq(t) = IF Len(t) = 0 THEN t ELSE f[Len(t)]
    BY DEF FlattenSeq, Joins
  <2> HIDE DEF f
  <2>4. FlattenSeq(t) = f[k]
    BY <2>1, <2>3
  <2>5. f = [n \in 1 .. k |-> IF n = 1 THEN t[n] ELSE f[n - 1] \o t[n]]
    BY <2>1, <2>2 DEF Joins
  <2>6. f = [n \in 1 .. k |-> IF n = 1 THEN s[n] ELSE f[n - 1] \o s[n]]
    BY <2>1, <2>5
  <2>7. Joins(f, s, k)
    BY <2>6 DEF Joins
  <2> QED BY <2>4, <2>7 DEF Joined, t
<1>5. ASSUME NEW k \in Nat, k < Len(s)
      PROVE  Joined(s, k + 1) = Joined(s, k) \o s[k + 1]
  <2>0. k + 1 \in 1 .. Len(s) /\ (k + 1) - 1 = k
    BY <1>n, <1>5
  <2>1. PICK g : Joins(g, s, k + 1) /\ Joined(s, k + 1) = g[k + 1]
    BY <1>4, <2>0
  <2>2. g[k + 1] = IF k + 1 = 1 THEN s[k + 1] ELSE g[k] \o s[k + 1]
    <3>1. \A n \in 1 .. (k + 1) : g[n] = IF n = 1 THEN s[n] ELSE g[n - 1] \o s[n]
      BY <2>1 DEF Joins
    <3>2. k + 1 \in 1 .. (k + 1)
      OBVIOUS
    <3> QED BY <2>0, <3>1, <3>2
  <2>3. CASE k = 0
    <3>1. g[k + 1] = s[k + 1] /\ s[k + 1] \in Seq(S)
      BY <1>n, <2>0, <2>2, <2>3
    <3>2. <<>> \o s[k + 1] = s[k + 1]
      BY <3>1, ConcatEmptySeq
    <3> QED BY <1>1, <2>1, <2>3, <3>1, <3>2
  <2>4. CASE k # 0
    <3>1. k \in 1 .. Len(s) /\ k \in 1 .. k /\ k <= k /\ k <= k + 1
      BY <1>n, <1>5, <2>4
    <3>2. PICK h : Joins(h, s, k) /\ Joined(s, k) = h[k]
      BY <1>4, <3>1
    <3>3. \A n \in 1 .. k : g[n] = h[n]
      <4>1. k \in Nat /\ k + 1 \in Nat /\ k <= k + 1
        BY <3>1
      <4>2. Joins(g, s, k + 1) /\ Joins(h, s, k)
        BY <2>1, <3>2
      <4> QED BY ONLY <4>1, <4>2, JoinsAgree
    <3>4. g[k] = h[k] /\ k + 1 # 1
      BY <3>1, <3>3
    <3> QED BY <2>1, <2>2, <3>2, <3>4
  <2> QED BY <2>3, <2>4
<1> QED BY <1>1, <1>2, <1>3, <1>5

\* Parts that are empty add nothing.
LEMMA JoinedSkips ==
  ASSUME NEW S, NEW s \in Seq(Seq(S)), NEW a \in 0 .. Len(s), NEW b \in a .. Len(s),
         \A n \in (a + 1) .. b : s[n] = <<>>
  PROVE  Joined(s, b) = Joined(s, a)
<1>n. Len(s) \in Nat /\ a \in Nat /\ b \in Nat
  OBVIOUS
<1> DEFINE T == {n \in Nat : a + n <= b => Joined(s, a + n) = Joined(s, a)}
<1>1. 0 \in T
  OBVIOUS
<1>2. ASSUME NEW n \in Nat, n \in T PROVE n + 1 \in T
  <2> SUFFICES ASSUME a + (n + 1) <= b PROVE Joined(s, a + (n + 1)) = Joined(s, a)
    OBVIOUS
  <2>1. PICK k \in Nat : k = a + n
    BY <1>n
  <2>2. k < Len(s) /\ k \in 0 .. Len(s) /\ k + 1 \in (a + 1) .. b /\ a + (n + 1) = k + 1
    BY <1>n, <2>1
  <2>3. Joined(s, k) = Joined(s, a)
    BY <1>2, <2>1, <2>2
  <2>4. Joined(s, k + 1) = Joined(s, k) \o <<>> /\ Joined(s, k) \in Seq(S)
    BY <2>2, JoinedSteps
  <2>5. Joined(s, k) \o <<>> = Joined(s, k)
    BY <2>4, ConcatEmptySeq
  <2> QED BY <2>2, <2>3, <2>4, <2>5
<1>3. \A n \in Nat : n \in T
  <2> HIDE DEF T
  <2> QED BY <1>1, <1>2, InductionOnSet
<1>4. b - a \in Nat /\ a + (b - a) = b
  BY <1>n
<1>5. b - a \in T
  <2> HIDE DEF T
  <2> QED BY <1>3, <1>4
<1> QED BY <1>4, <1>5

\* The elements that are selected are those at the places, in their order.
Selects(h, r, s, P) ==
  /\ \A k \in DOMAIN r : h[k] \in DOMAIN s /\ h[k] \in P /\ r[k] = s[h[k]]
  /\ \A j, k \in DOMAIN r : j < k => h[j] < h[k]
  /\ \A n \in DOMAIN s : n \in P => \E k \in DOMAIN r : h[k] = n

LEMMA OnlySelects ==
  ASSUME NEW S, NEW s \in Seq(S), NEW P
  PROVE  \E h : Selects(h, Only(s, P), s, P)
<1> DEFINE parts == [n \in DOMAIN s |-> IF n \in P THEN <<s[n]>> ELSE <<>>]
<1>n. DOMAIN s = 1 .. Len(s) /\ Len(s) \in Nat /\ \A n \in 1 .. Len(s) : s[n] \in S
  BY ElementOfSeq
<1>1. /\ parts \in Seq(Seq(S)) /\ Len(parts) = Len(s)
      /\ \A n \in 1 .. Len(s) : parts[n] = IF n \in P THEN <<s[n]>> ELSE <<>>
  BY <1>n
<1>2. Only(s, P) = FlattenSeq(parts)
  BY DEF Only
<1> HIDE DEF parts
<1> DEFINE Q(k) == \E h : Selects(h, Joined(parts, k), s, P \cap (1 .. k))
           T == {k \in Nat : k <= Len(s) => Q(k)}
<1>3. 0 \in T
  <2>1. Joined(parts, 0) = <<>>
    BY <1>1, JoinedSteps
  <2>2. Selects([k \in {} |-> 0], <<>>, s, P \cap (1 .. 0))
    BY DEF Selects
  <2>3. Q(0)
    BY <2>1, <2>2
  <2> HIDE DEF Q
  <2> QED BY <2>3
<1>4. ASSUME NEW k \in Nat, k \in T PROVE k + 1 \in T
  <2>q. SUFFICES ASSUME k + 1 <= Len(s) PROVE Q(k + 1)
    <3> HIDE DEF Q
    <3> QED OBVIOUS
  <2>0. k < Len(parts) /\ k \in 0 .. Len(parts) /\ k + 1 \in 1 .. Len(s)
    BY <2>q, <1>n, <1>1
  <2>1. PICK r \in Seq(S) : r = Joined(parts, k)
    BY <1>1, <2>0, JoinedSteps
  <2>2. PICK g : Selects(g, r, s, P \cap (1 .. k))
    <3>1. Q(k)
      <4> HIDE DEF Q
      <4> QED BY <1>4, <1>n, <2>q
    <3> QED BY <2>1, <3>1
  <2>3. Joined(parts, k + 1) = r \o parts[k + 1]
    BY <1>1, <2>0, <2>1, JoinedSteps
  <2>r. Len(r) \in Nat /\ DOMAIN r = 1 .. Len(r)
    OBVIOUS
  <2>4. CASE k + 1 \notin P
    <3>1. parts[k + 1] = <<>>
      BY <1>1, <2>0, <2>4
    <3>2. Joined(parts, k + 1) = r
      BY <2>3, <3>1, ConcatEmptySeq
    <3>3. P \cap (1 .. (k + 1)) = P \cap (1 .. k)
      BY <2>4
    <3> QED BY <2>2, <3>2, <3>3
  <2>5. CASE k + 1 \in P
    <3>1. PICK q : q = Append(r, s[k + 1])
      OBVIOUS
    <3>2. /\ DOMAIN q = 1 .. (Len(r) + 1) /\ q[Len(r) + 1] = s[k + 1]
          /\ \A j \in 1 .. Len(r) : q[j] = r[j]
      BY <1>n, <2>0, <2>r, <3>1
    <3>3. Joined(parts, k + 1) = q
      <4>1. parts[k + 1] = <<s[k + 1]>> /\ s[k + 1] \in S
        BY <1>1, <1>n, <2>0, <2>5
      <4>2. Append(r, s[k + 1]) = r \o <<s[k + 1]>>
        BY <4>1, AppendIsConcat
      <4> QED BY <2>3, <3>1, <4>1, <4>2
    <3> DEFINE h == [j \in 1 .. (Len(r) + 1) |-> IF j = Len(r) + 1 THEN k + 1 ELSE g[j]]
    <3>4. h[Len(r) + 1] = k + 1 /\ \A j \in 1 .. Len(r) : h[j] = g[j]
      BY <2>r
    <3> HIDE DEF h
    <3>5. \A j \in 1 .. Len(r) : g[j] \in 1 .. k /\ g[j] \in P /\ r[j] = s[g[j]]
      BY <2>2, <2>r DEF Selects
    <3>6. \A j \in 1 .. (Len(r) + 1) : /\ h[j] \in DOMAIN s /\ h[j] \in P \cap (1 .. (k + 1))
                                       /\ q[j] = s[h[j]]
      <4> TAKE j \in 1 .. (Len(r) + 1)
      <4>1. CASE j = Len(r) + 1
        BY <1>n, <2>0, <2>5, <3>2, <3>4, <4>1
      <4>2. CASE j # Len(r) + 1
        <5>1. j \in 1 .. Len(r)
          BY <2>r, <4>2
        <5>2. h[j] = g[j] /\ q[j] = r[j] /\ g[j] \in 1 .. k /\ g[j] \in P /\ r[j] = s[g[j]]
          BY <3>2, <3>4, <3>5, <5>1
        <5> QED BY <1>n, <2>0, <5>2
      <4> QED BY <4>1, <4>2
    <3>7. \A i, j \in 1 .. (Len(r) + 1) : i < j => h[i] < h[j]
      <4> SUFFICES ASSUME NEW i \in 1 .. (Len(r) + 1), NEW j \in 1 .. (Len(r) + 1), i < j
                   PROVE  h[i] < h[j]
        OBVIOUS
      <4>1. i \in 1 .. Len(r)
        BY <2>r
      <4>2. CASE j = Len(r) + 1
        BY <3>4, <3>5, <4>1, <4>2
      <4>3. CASE j # Len(r) + 1
        <5>1. j \in 1 .. Len(r)
          BY <2>r, <4>3
        <5>2. g[i] < g[j]
          BY <2>2, <2>r, <4>1, <5>1 DEF Selects
        <5> QED BY <3>4, <4>1, <5>1, <5>2
      <4> QED BY <4>2, <4>3
    <3>8. \A n \in DOMAIN s : n \in P \cap (1 .. (k + 1)) => \E j \in 1 .. (Len(r) + 1) : h[j] = n
      <4> SUFFICES ASSUME NEW n \in DOMAIN s, n \in P \cap (1 .. (k + 1))
                   PROVE  \E j \in 1 .. (Len(r) + 1) : h[j] = n
        OBVIOUS
      <4>1. CASE n = k + 1
        <5>1. Len(r) + 1 \in 1 .. (Len(r) + 1)
          BY <2>r
        <5> QED BY <3>4, <4>1, <5>1
      <4>2. CASE n # k + 1
        <5>1. n \in P \cap (1 .. k)
          BY <4>2
        <5>2. PICK j \in 1 .. Len(r) : g[j] = n
          BY <2>2, <2>r, <5>1 DEF Selects
        <5>3. j \in 1 .. (Len(r) + 1) /\ h[j] = n
          BY <2>r, <3>4, <5>2
        <5> QED BY <5>3
      <4> QED BY <4>1, <4>2
    <3>9. Selects(h, q, s, P \cap (1 .. (k + 1)))
      BY <3>2, <3>6, <3>7, <3>8 DEF Selects
    <3> QED BY <3>3, <3>9
  <2> QED BY <2>4, <2>5
<1>5. \A k \in Nat : k \in T
  <2> HIDE DEF T
  <2> QED BY <1>3, <1>4, InductionOnSet
<1>6. PICK h : Selects(h, Joined(parts, Len(s)), s, P \cap (1 .. Len(s)))
  <2>1. Len(s) \in T
    <3> HIDE DEF T
    <3> QED BY <1>5, <1>n
  <2>2. Q(Len(s))
    <3> HIDE DEF Q
    <3> QED BY <2>1, <1>n
  <2> QED BY <2>2
<1>7. Joined(parts, Len(s)) = Only(s, P)
  BY <1>1, <1>2, JoinedSteps
<1>8. Selects(h, Only(s, P), s, P)
  BY <1>6, <1>7, <1>n DEF Selects
<1> QED BY <1>8

\* One place.
LEMMA OnlyOne ==
  ASSUME NEW S, NEW s \in Seq(S), NEW P, NEW n \in DOMAIN s, P \cap DOMAIN s = {n}
  PROVE  Only(s, P) = <<s[n]>>
<1>1. PICK r \in Seq(S) : r = Only(s, P)
  BY OnlyType
<1>2. PICK h : Selects(h, r, s, P)
  BY <1>1, OnlySelects
<1>3. Len(r) \in Nat /\ DOMAIN r = 1 .. Len(r)
  OBVIOUS
<1>4. PICK k \in 1 .. Len(r) : h[k] = n
  BY <1>2, <1>3 DEF Selects
<1>5. \A j \in 1 .. Len(r) : h[j] = n /\ r[j] = s[n]
  BY <1>2, <1>3 DEF Selects
<1>6. n \in Nat
  <2>1. DOMAIN s = 1 .. Len(s)
    OBVIOUS
  <2> QED BY <2>1
<1>7. Len(r) = 1
  <2> SUFFICES ASSUME Len(r) >= 2 PROVE FALSE
    BY <1>3, <1>4
  <2>1. 1 \in 1 .. Len(r) /\ 2 \in 1 .. Len(r)
    BY <1>3
  <2>2. h[1] < h[2]
    BY <1>2, <1>3, <2>1 DEF Selects
  <2> QED BY <1>5, <1>6, <2>1, <2>2
<1>8. r[1] = s[n]
  BY <1>5, <1>7
<1>9. r = <<s[n]>>
  BY <1>7, <1>8
<1> QED BY <1>1, <1>9

\* None.
LEMMA OnlyNone ==
  ASSUME NEW S, NEW s \in Seq(S), NEW P, P \cap DOMAIN s = {}
  PROVE  Only(s, P) = <<>>
<1>1. PICK r \in Seq(S) : r = Only(s, P)
  BY OnlyType
<1>2. PICK h : Selects(h, r, s, P)
  BY <1>1, OnlySelects
<1>3. Len(r) \in Nat /\ DOMAIN r = 1 .. Len(r)
  OBVIOUS
<1>4. \A k \in 1 .. Len(r) : FALSE
  BY <1>2, <1>3 DEF Selects
<1>5. r = <<>>
  BY <1>3, <1>4
<1> QED BY <1>1, <1>5

\* A single sequence, joined.
LEMMA FlattenOne ==
  ASSUME NEW S, NEW x \in Seq(S)
  PROVE  FlattenSeq(<<x>>) = x
<1>1. PICK s \in Seq(Seq(S)) : s = <<x>>
  <2> DEFINE t == [n \in 1 .. 1 |-> x]
  <2>1. t \in Seq(Seq(S))
    OBVIOUS
  <2>2. t = <<x>>
    OBVIOUS
  <2> QED BY <2>1, <2>2
<1>2. Len(s) = 1 /\ s[1] = x /\ 0 \in Nat /\ 0 < Len(s) /\ 0 + 1 = 1
  BY <1>1
<1>3. Joined(s, 1) = Joined(s, 0) \o x /\ Joined(s, 0) = <<>> /\ Joined(s, 1) = FlattenSeq(s)
  BY <1>2, JoinedSteps
<1>4. <<>> \o x = x
  BY ConcatEmptySeq
<1> QED BY <1>1, <1>3, <1>4

-----------------------------------------------------------------------------
(* What a scan finds of the elements that a muxer put there.               *)

\* The last byte of an element, and how much of its data m bytes show.
EndOf(e)    == e.at + 1 + Len(e.data)
Shown(e, m) == IF EndOf(e) <= m THEN Len(e.data) ELSE m - e.at - 1

LEMMA ElementFields ==
  ASSUME NEW K, NEW e \in Element(K)
  PROVE  /\ e.id \in Bytes /\ e.id # 0 /\ e.at \in Nat /\ e.at >= 1
         /\ e.data \in Seq(Bytes) /\ Len(e.data) \in Nat /\ e.kids \in Seq(K)
         /\ EndOf(e) \in Nat
<1>1. /\ e.id \in Bytes \ {0} /\ e.at \in Nat \ {0} /\ e.data \in Seq(Bytes) /\ e.kids \in Seq(K)
  BY DEF Element
<1>2. Len(e.data) \in Nat
  BY <1>1
<1> QED BY <1>1, <1>2 DEF EndOf

\* What Tiles says of an element, and that elements do not overlap.
LEMMA TilesInside ==
  ASSUME NEW K, NEW es \in Seq(Element(K)), NEW buf \in Seq(Bytes), Tiles(es, buf)
  PROVE  /\ Len(es) \in Nat /\ Len(es) >= 1 /\ DOMAIN es = 1 .. Len(es) /\ es[1].at = 1
         /\ \A n \in 1 .. Len(es) :
              /\ es[n] \in Element(K)
              /\ Len(es[n].data) >= 1 /\ EndOf(es[n]) <= Len(buf)
              /\ buf[es[n].at] = es[n].id
              /\ SubSeq(buf, es[n].at + 2, EndOf(es[n])) = es[n].data
              /\ n < Len(es) => /\ buf[es[n].at + 1] = Len(es[n].data)
                                /\ es[n + 1].at = EndOf(es[n]) + 1
              /\ n = Len(es) => /\ buf[es[n].at + 1] >= Len(es[n].data)
                                /\ Len(buf) = EndOf(es[n])
         /\ \A i, j \in 1 .. Len(es) : i < j => EndOf(es[i]) < es[j].at
<1>1. /\ Len(es) \in Nat /\ Len(es) >= 1 /\ DOMAIN es = 1 .. Len(es)
      /\ \A n \in 1 .. Len(es) : es[n] \in Element(K)
  <2>1. es # <<>>
    BY DEF Tiles
  <2> QED BY <2>1, ElementOfSeq
<1>2. \A n \in 1 .. Len(es) :
        /\ es[n].at \in Nat /\ es[n].at >= 1 /\ Len(es[n].data) \in Nat /\ EndOf(es[n]) \in Nat
        /\ es[n].data \in Seq(Bytes)
  BY <1>1, ElementFields
<1>3. /\ es[1].at = 1
      /\ \A n \in 1 .. Len(es) :
              /\ es[n].data # <<>>
              /\ buf[es[n].at] = es[n].id
              /\ SubSeq(buf, es[n].at + 2, EndOf(es[n])) = es[n].data
              /\ n < Len(es) => /\ buf[es[n].at + 1] = Len(es[n].data)
                                /\ es[n + 1].at = EndOf(es[n]) + 1
              /\ ~(n < Len(es)) => /\ buf[es[n].at + 1] >= Len(es[n].data)
                                   /\ Len(buf) = EndOf(es[n])
  BY <1>1 DEF Tiles, EndOf
<1>4. \A n \in 1 .. Len(es) : Len(es[n].data) >= 1
  <2> TAKE n \in 1 .. Len(es)
  <2>1. PICK d \in Seq(Bytes) : d = es[n].data
    BY <1>2
  <2>2. d # <<>>
    BY <1>3, <2>1
  <2> QED BY <2>1, <2>2
<1> DEFINE at(n) == es[n].at
           end(n) == EndOf(es[n])
<1>5. /\ \A n \in 1 .. Len(es) : at(n) \in Nat /\ end(n) \in Nat /\ at(n) < end(n)
      /\ \A n \in 1 .. Len(es) : n < Len(es) => at(n + 1) = end(n) + 1
      /\ Len(buf) = end(Len(es))
  <2>1. \A n \in 1 .. Len(es) : at(n) < end(n)
    BY <1>2, <1>4 DEF EndOf
  <2>2. Len(buf) = end(Len(es))
    BY <1>1, <1>3
  <2> QED BY <1>2, <1>3, <2>1, <2>2
<1> HIDE DEF at, end
<1> DEFINE T == {j \in Nat : j <= Len(es) => \A i \in 1 .. (j - 1) : end(i) < at(j)}
<1>6. 0 \in T
  OBVIOUS
<1>7. ASSUME NEW j \in Nat, j \in T PROVE j + 1 \in T
  <2> SUFFICES ASSUME j + 1 <= Len(es), NEW i \in 1 .. ((j + 1) - 1) PROVE end(i) < at(j + 1)
    OBVIOUS
  <2>1. j \in 1 .. Len(es) /\ j < Len(es) /\ i \in 1 .. Len(es)
    BY <1>1
  <2>2. at(j + 1) = end(j) + 1 /\ at(j) < end(j) /\ end(j) \in Nat /\ at(j) \in Nat /\ end(i) \in Nat
    BY <1>5, <2>1
  <2>3. CASE i = j
    BY <2>2, <2>3
  <2>4. CASE i # j
    <3>1. end(i) < at(j)
      BY <1>7, <2>1, <2>4
    <3> QED BY <2>2, <3>1
  <2> QED BY <2>3, <2>4
<1>8. \A j \in Nat : j \in T
  <2> HIDE DEF T
  <2> QED BY <1>6, <1>7, InductionOnSet
<1>9. \A i, j \in 1 .. Len(es) : i < j => end(i) < at(j)
  <2> TAKE i, j \in 1 .. Len(es)
  <2> HAVE i < j
  <2>1. j \in T /\ i \in 1 .. (j - 1)
    <3> HIDE DEF T
    <3> QED BY <1>8
  <2> QED BY <2>1
<1>10. \A n \in 1 .. Len(es) : end(n) <= Len(buf)
  <2> TAKE n \in 1 .. Len(es)
  <2>1. CASE n = Len(es)
    BY <1>5, <2>1
  <2>2. CASE n # Len(es)
    <3>0. Len(es) \in Nat /\ Len(es) >= 1
      BY <1>1
    <3>1. Len(es) \in 1 .. Len(es) /\ n < Len(es)
      BY ONLY <3>0, <2>2, n \in 1 .. Len(es)
    <3>2. end(n) < at(Len(es)) /\ at(Len(es)) < end(Len(es))
      BY <1>5, <1>9, <3>1
    <3>3. end(n) \in Nat /\ at(Len(es)) \in Nat /\ end(Len(es)) \in Nat
      BY <1>5, <3>1
    <3> QED BY <1>5, <3>2, <3>3
  <2> QED BY <2>1, <2>2
<1>11. /\ \A n \in 1 .. Len(es) : EndOf(es[n]) <= Len(buf)
       /\ \A i, j \in 1 .. Len(es) : i < j => EndOf(es[i]) < es[j].at
  BY <1>9, <1>10 DEF at, end
<1>12. \A n \in 1 .. Len(es) : n = Len(es) => ~(n < Len(es))
  OBVIOUS
<1>13. \A n \in 1 .. Len(es) : n = Len(es) => /\ buf[es[n].at + 1] >= Len(es[n].data)
                                             /\ Len(buf) = EndOf(es[n])
  BY <1>3, <1>12
<1> HIDE DEF T
<1> QED BY <1>1, <1>3, <1>4, <1>11, <1>13

\* The elements whose data m bytes show are the first ones.
LEMMA SeenOnes ==
  ASSUME NEW K, NEW es \in Seq(Element(K)), NEW buf \in Seq(Bytes), Tiles(es, buf), NEW m \in Nat
  PROVE  \E k \in 0 .. Len(es) : \A n \in 1 .. Len(es) : n <= k <=> es[n].at + 2 <= m
<1>1. /\ Len(es) \in Nat
      /\ \A n \in 1 .. Len(es) : es[n].at \in Nat /\ EndOf(es[n]) \in Nat /\ es[n].at < EndOf(es[n])
      /\ \A i, j \in 1 .. Len(es) : i < j => EndOf(es[i]) < es[j].at
  <2>1. /\ Len(es) \in Nat /\ \A n \in 1 .. Len(es) : es[n] \in Element(K)
        /\ \A i, j \in 1 .. Len(es) : i < j => EndOf(es[i]) < es[j].at
    BY TilesInside
  <2>2. ASSUME NEW n \in 1 .. Len(es)
        PROVE  es[n].at \in Nat /\ EndOf(es[n]) \in Nat /\ es[n].at < EndOf(es[n])
    <3>1. es[n].at \in Nat /\ EndOf(es[n]) \in Nat /\ Len(es[n].data) \in Nat
      BY <2>1, ElementFields
    <3> QED BY <3>1 DEF EndOf
  <2> QED BY <2>1, <2>2
<1> DEFINE T == {d \in Nat : d <= Len(es) =>
                   \E k \in 0 .. d : \A n \in 1 .. d : n <= k <=> es[n].at + 2 <= m}
<1>2. 0 \in T
  OBVIOUS
<1>3. ASSUME NEW d \in Nat, d \in T PROVE d + 1 \in T
  <2> SUFFICES ASSUME d + 1 <= Len(es)
               PROVE  \E k \in 0 .. (d + 1) : \A n \in 1 .. (d + 1) : n <= k <=> es[n].at + 2 <= m
    OBVIOUS
  <2>1. PICK k \in 0 .. d : \A n \in 1 .. d : n <= k <=> es[n].at + 2 <= m
    BY <1>1, <1>3
  <2>2. d + 1 \in 1 .. Len(es)
    BY <1>1
  <2>3. CASE es[d + 1].at + 2 <= m
    <3>1. \A n \in 1 .. (d + 1) : es[n].at + 2 <= m
      <4> TAKE n \in 1 .. (d + 1)
      <4>1. CASE n = d + 1
        BY <2>3, <4>1
      <4>2. CASE n # d + 1
        <5>1. n \in 1 .. Len(es) /\ n < d + 1
          BY <2>2, <1>1, <4>2
        <5>2. es[n].at < EndOf(es[n]) /\ EndOf(es[n]) < es[d + 1].at /\ es[n].at \in Nat
              /\ EndOf(es[n]) \in Nat /\ es[d + 1].at \in Nat
          BY <1>1, <2>2, <5>1
        <5> QED BY <2>3, <5>2, SMTT(30)
      <4> QED BY <4>1, <4>2
    <3>2. d + 1 \in 0 .. (d + 1) /\ \A n \in 1 .. (d + 1) : n <= d + 1
      OBVIOUS
    <3> QED BY <3>1, <3>2
  <2>4. CASE ~(es[d + 1].at + 2 <= m)
    <3>1. k \in 0 .. (d + 1) /\ ~(d + 1 <= k)
      OBVIOUS
    <3>2. \A n \in 1 .. (d + 1) : n <= k <=> es[n].at + 2 <= m
      <4> TAKE n \in 1 .. (d + 1)
      <4>1. n = d + 1 \/ n \in 1 .. d
        OBVIOUS
      <4> QED BY <2>1, <2>4, <3>1, <4>1
    <3> QED BY <3>1, <3>2
  <2> QED BY <2>3, <2>4
<1>4. \A d \in Nat : d \in T
  <2> HIDE DEF T
  <2> QED BY <1>2, <1>3, InductionOnSet
<1>5. Len(es) \in T
  <2> HIDE DEF T
  <2> QED BY <1>1, <1>4
<1> QED BY <1>1, <1>5

\* A part of a part.
LEMMA PartOfPart ==
  ASSUME NEW S, NEW s \in Seq(S), NEW i \in Nat \ {0}, NEW j \in Nat, j <= Len(s),
         NEW p \in Nat \ {0}, NEW q \in Nat, i - 1 + q <= j
  PROVE  SubSeq(SubSeq(s, i, j), p, q) = SubSeq(s, i - 1 + p, i - 1 + q)
<1>n. Len(s) \in Nat /\ \A n \in 1 .. Len(s) : s[n] \in S
  BY ElementOfSeq
<1>1. CASE q < p
  BY <1>1, <1>n
<1>2. CASE p <= q
  <2>0. i <= j /\ \A n \in i .. j : n \in 1 .. Len(s)
    BY <1>n, <1>2
  <2>1. PICK t \in Seq(S) : t = SubSeq(s, i, j)
    <3>1. i \in 1 .. (Len(s) + 1) /\ j \in (i - 1) .. Len(s)
      BY <1>n, <2>0
    <3>2. SubSeq(s, i, j) \in Seq(S)
      BY <3>1, SubSeqProperties
    <3> QED BY <3>2
  <2>2. Len(t) = j - i + 1 /\ \A n \in 1 .. Len(t) : t[n] = s[i - 1 + n]
    BY <1>n, <1>2, <2>0, <2>1
  <2> DEFINE left == SubSeq(t, p, q)
             right == SubSeq(s, i - 1 + p, i - 1 + q)
  <2>3. left \in Seq(S) /\ Len(left) = q - p + 1 /\ \A n \in 1 .. Len(left) : left[n] = t[p - 1 + n]
    BY <1>2, <2>2
  <2>4. right \in Seq(S) /\ Len(right) = q - p + 1
        /\ \A n \in 1 .. Len(right) : right[n] = s[i - 1 + p - 1 + n]
    BY <1>n, <1>2
  <2> HIDE DEF left, right
  <2>5. ASSUME NEW n \in 1 .. Len(left) PROVE left[n] = right[n]
    <3>1. p - 1 + n \in 1 .. Len(t) /\ n \in 1 .. Len(right)
      BY <1>2, <2>2, <2>3, <2>4
    <3>2. PICK k \in 1 .. Len(t) : k = p - 1 + n /\ i - 1 + k = i - 1 + p - 1 + n
      BY <3>1
    <3> QED BY <2>2, <2>3, <2>4, <3>1, <3>2
  <2>6. left = right
    BY <2>3, <2>4, <2>5, SeqEqual
  <2> QED BY <2>1, <2>6 DEF left, right
<1> QED BY <1>1, <1>2

\* A function on 1 .. d is a sequence.
LEMMA MadeOf ==
  ASSUME NEW Z, NEW d \in Nat, NEW g, DOMAIN g = 1 .. d, g = [j \in 1 .. d |-> g[j]],
         \A j \in 1 .. d : g[j] \in Z
  PROVE  g \in Seq(Z) /\ Len(g) = d
<1>1. g \in [1 .. d -> Z]
  OBVIOUS
<1> QED BY <1>1

\* A sequence behind an element.
LEMMA Prepended ==
  ASSUME NEW Z, NEW c \in Z, NEW rest \in Seq(Z)
  PROVE  /\ <<c>> \o rest \in Seq(Z) /\ Len(<<c>> \o rest) = Len(rest) + 1
         /\ (<<c>> \o rest)[1] = c
         /\ \A j \in 1 .. Len(rest) : (<<c>> \o rest)[1 + j] = rest[j]
<1>0. <<c>> \in Seq(Z) /\ Len(<<c>>) = 1 /\ <<c>>[1] = c
  <2>1. <<c>> \in Seq(Z)
    OBVIOUS
  <2> QED BY <2>1
<1>1. PICK one \in Seq(Z) : one = <<c>> /\ Len(one) = 1 /\ one[1] = c
  BY <1>0
<1>2. Len(rest) \in Nat
  OBVIOUS
<1>3. \A j \in 1 .. Len(rest) : 1 + j \in 1 .. (1 + Len(rest)) /\ ~(1 + j <= 1) /\ 1 + j - 1 = j
  BY <1>2
<1> QED BY <1>1, <1>2, <1>3

\* The first m bytes.
First(buf, m) == SubSeq(buf, 1, m)

\* An element as a scan of m bytes at `base` shows it.
CutOf(e, buf, base, m) ==
  [id |-> e.id, size |-> buf[e.at + 1], at |-> base + e.at + 1,
   data |-> SubSeq(e.data, 1, Shown(e, m))]

LEMMA ScanOfElement ==
  ASSUME NEW K, NEW es \in Seq(Element(K)), NEW buf \in Seq(Bytes), Tiles(es, buf),
         NEW base \in Nat, NEW m \in 0 .. Len(buf),
         NEW n \in 1 .. Len(es), es[n].at + 2 <= m
  PROVE  /\ ~(es[n].at + 2 > Len(First(buf, m)) \/ First(buf, m)[es[n].at] = 0)
         /\ ChildAt(First(buf, m), base, es[n].at) = CutOf(es[n], buf, base, m)
         /\ Skippable(First(buf, m)[es[n].at + 1], Len(First(buf, m)) - (es[n].at + 1)) =>
              EndOf(es[n]) <= m /\ es[n].at + 2 + First(buf, m)[es[n].at + 1] = EndOf(es[n]) + 1
         /\ ~Skippable(First(buf, m)[es[n].at + 1], Len(First(buf, m)) - (es[n].at + 1)) =>
              n = Len(es) \/ EndOf(es[n]) > m
<1>b. PICK b : b = First(buf, m) /\ b = SubSeq(buf, 1, m)
  BY DEF First
<1>1. PICK e \in Element(K) : e = es[n]
  BY TilesInside
<1>2. /\ e.id \in Bytes /\ e.id # 0 /\ e.at \in Nat /\ e.at >= 1
      /\ e.data \in Seq(Bytes) /\ Len(e.data) \in Nat /\ EndOf(e) \in Nat
      /\ EndOf(e) = e.at + 1 + Len(e.data)
  BY ElementFields DEF EndOf
<1>3. /\ Len(e.data) >= 1 /\ EndOf(e) <= Len(buf) /\ buf[e.at] = e.id
      /\ SubSeq(buf, e.at + 2, EndOf(e)) = e.data
      /\ n < Len(es) => buf[e.at + 1] = Len(e.data)
      /\ n = Len(es) => buf[e.at + 1] >= Len(e.data) /\ Len(buf) = EndOf(e)
      /\ Len(es) \in Nat
  BY <1>1, TilesInside
<1>4. Len(buf) \in Nat /\ b \in Seq(Bytes) /\ Len(b) = m /\ \A i \in 1 .. m : b[i] = buf[i]
  BY <1>b, BufferType
<1>5. /\ e.at \in 1 .. m /\ e.at + 1 \in 1 .. m /\ b[e.at] = e.id /\ b[e.at + 1] = buf[e.at + 1]
  <2>1. PICK at \in Nat : at = e.at /\ at >= 1 /\ at + 2 <= m
    BY <1>1, <1>2
  <2>2. at \in 1 .. m /\ at + 1 \in 1 .. m
    BY <1>4, <2>1
  <2>3. b[at] = buf[at] /\ b[at + 1] = buf[at + 1]
    BY <1>4, <2>2
  <2> QED BY <1>3, <2>1, <2>2, <2>3
<1>6. PICK size \in Nat : size = buf[e.at + 1]
  BY <1>4, <1>5, BufferType
<1>7. PICK len \in Nat : len = Len(e.data)
  BY <1>2
<1>8. PICK at \in Nat : at = e.at
  BY <1>2
<1>9. /\ len >= 1 /\ at >= 1 /\ at + 2 <= m /\ at + 1 + len <= Len(buf)
      /\ n < Len(es) => size = len
      /\ n = Len(es) => size >= len /\ Len(buf) = at + 1 + len
      /\ EndOf(e) = at + 1 + len
  BY <1>1, <1>2, <1>3, <1>6, <1>7, <1>8
<1>10. Available(size, m - (at + 1)) = Shown(e, m) /\ Shown(e, m) \in Nat
       /\ at + 1 + Shown(e, m) <= m /\ at + 1 + Shown(e, m) <= EndOf(e)
  <2>1. PICK left \in Nat : left = m - (at + 1) /\ at + 1 + left = m /\ m - at - 1 = left /\ left >= 1
    BY <1>4, <1>9
  <2>2. EndOf(e) <= m <=> len <= left
    BY <1>9, <2>1
  <2>3. Shown(e, m) = IF len <= left THEN len ELSE left
    BY <1>7, <1>8, <2>1, <2>2 DEF Shown
  <2>4. n < Len(es) \/ n = Len(es)
    BY <1>3
  <2>5. Available(size, left) = IF len <= left THEN len ELSE left
    BY <1>4, <1>9, <2>1, <2>4 DEF Available
  <2> QED BY <1>9, <2>1, <2>3, <2>5
<1>11. SubSeq(b, at + 2, at + 1 + Shown(e, m)) = SubSeq(e.data, 1, Shown(e, m))
  <2>1. PICK a \in Nat : a = Shown(e, m) /\ at + 1 + a <= m /\ at + 1 + a <= at + 1 + len
    BY <1>9, <1>10
  <2>2. SubSeq(SubSeq(buf, 1, m), at + 2, at + 1 + a)
          = SubSeq(buf, 1 - 1 + (at + 2), 1 - 1 + (at + 1 + a))
    <3>1. at + 2 \in Nat \ {0} /\ at + 1 + a \in Nat /\ 1 - 1 + (at + 1 + a) <= m /\ 1 \in Nat \ {0}
          /\ m \in Nat /\ m <= Len(buf)
      BY <1>4, <2>1
    <3> QED BY <3>1, PartOfPart
  <2>3. SubSeq(SubSeq(buf, at + 2, at + 1 + len), 1, a)
          = SubSeq(buf, at + 2 - 1 + 1, at + 2 - 1 + a)
    <3>1. at + 2 \in Nat \ {0} /\ at + 1 + len \in Nat /\ at + 2 - 1 + a <= at + 1 + len
          /\ at + 1 + len <= Len(buf) /\ 1 \in Nat \ {0}
      BY <1>9, <2>1
    <3> QED BY <3>1, PartOfPart
  <2>4. 1 - 1 + (at + 2) = at + 2 /\ 1 - 1 + (at + 1 + a) = at + 1 + a
        /\ at + 2 - 1 + 1 = at + 2 /\ at + 2 - 1 + a = at + 1 + a
    OBVIOUS
  <2>5. SubSeq(buf, at + 2, at + 1 + len) = e.data
    BY <1>3, <1>8, <1>9
  <2> QED BY <1>b, <2>1, <2>2, <2>3, <2>4, <2>5
<1>12. ChildAt(b, base, e.at) = CutOf(e, buf, base, m)
  <2>1. e.at + 2 = at + 2 /\ e.at + 1 = at + 1 /\ Len(b) = m /\ b[e.at + 1] = size
    BY <1>4, <1>5, <1>6, <1>8
  <2>2. SubSeq(b, e.at + 2, e.at + 1 + Available(b[e.at + 1], Len(b) - (e.at + 1)))
          = SubSeq(e.data, 1, Shown(e, m))
    BY <1>10, <1>11, <2>1
  <2> QED BY <1>5, <2>2 DEF ChildAt, CutOf
<1>13. /\ Skippable(size, m - (at + 1)) => EndOf(e) <= m /\ at + 2 + size = EndOf(e) + 1
       /\ ~Skippable(size, m - (at + 1)) => n = Len(es) \/ EndOf(e) > m
  BY <1>3, <1>9, <1>4, SMTT(30) DEF Skippable
<1>14. /\ ~(at + 2 > Len(b) \/ b[e.at] = 0)
  <2>1. ~(at + 2 > Len(b))
    BY <1>4, <1>9
  <2> QED BY <1>2, <1>5, <2>1
<1> QED BY <1>b, <1>1, <1>4, <1>5, <1>6, <1>8, <1>12, <1>13, <1>14

\* The scan of the first m bytes finds the elements whose data they show.
LEMMA ScanFinds ==
  ASSUME NEW K, NEW es \in Seq(Element(K)), NEW buf \in Seq(Bytes), Tiles(es, buf),
         NEW base \in Nat, NEW m \in 0 .. Len(buf), NEW k \in 0 .. Len(es),
         \A n \in 1 .. Len(es) : n <= k <=> es[n].at + 2 <= m
  PROVE  /\ DOMAIN Children(First(buf, m), base) = 1 .. k
         /\ \A n \in 1 .. k : Children(First(buf, m), base)[n] = CutOf(es[n], buf, base, m)
<1> DEFINE b == First(buf, m)
           f == CHOOSE g : Scans(g, b, base, 1)
<1>1. b \in Seq(Bytes) /\ Len(b) = m /\ m \in Nat /\ Len(buf) \in Nat
  BY BufferType DEF First
<1> HIDE DEF b
<1>2. Scans(f, b, base, 1)
  <2>1. \E g : Scans(g, b, base, 1)
    BY <1>1, ScansExist
  <2> QED BY <2>1
<1>3. Children(b, base) = f[1]
  BY DEF Children, Scans, ScanAt, ChildAt
<1> HIDE DEF f
<1>4. \A p \in 1 .. (m + 1) : f[p] = ScanAt(f, b, base, p)
  BY <1>1, <1>2 DEF Scans
<1>5. /\ Len(es) \in Nat /\ Len(es) >= 1 /\ es[1].at = 1 /\ k \in Nat
      /\ \A n \in 1 .. Len(es) : es[n].at \in Nat /\ es[n].at >= 1 /\ EndOf(es[n]) \in Nat
                                 /\ es[n].at < EndOf(es[n])
      /\ \A n \in 1 .. Len(es) : n < Len(es) => es[n + 1].at = EndOf(es[n]) + 1
      /\ EndOf(es[Len(es)]) = Len(buf)
  <2>1. /\ Len(es) \in Nat /\ Len(es) >= 1 /\ es[1].at = 1
        /\ \A n \in 1 .. Len(es) : es[n] \in Element(K)
        /\ \A n \in 1 .. Len(es) : n < Len(es) => es[n + 1].at = EndOf(es[n]) + 1
        /\ EndOf(es[Len(es)]) = Len(buf)
    BY TilesInside
  <2>2. ASSUME NEW n \in 1 .. Len(es)
        PROVE  es[n].at \in Nat /\ es[n].at >= 1 /\ EndOf(es[n]) \in Nat /\ es[n].at < EndOf(es[n])
    <3>1. es[n].at \in Nat /\ es[n].at >= 1 /\ EndOf(es[n]) \in Nat /\ Len(es[n].data) \in Nat
      BY <2>1, ElementFields
    <3> QED BY <3>1 DEF EndOf
  <2> QED BY <2>1, <2>2
<1> DEFINE P(n) == IF n <= Len(es) THEN es[n].at ELSE Len(buf) + 1
           C(n) == CutOf(es[n], buf, base, m)
           S(n) == [j \in 1 .. (k + 1 - n) |-> C(n - 1 + j)]
<1>6. \A n \in 1 .. Len(es) : P(n) = es[n].at /\ P(n + 1) = EndOf(es[n]) + 1
  <2> TAKE n \in 1 .. Len(es)
  <2>1. CASE n < Len(es)
    <3>1. n + 1 <= Len(es) /\ n <= Len(es)
      BY <1>5, <2>1
    <3> QED BY <1>5, <2>1, <3>1
  <2>2. CASE n = Len(es)
    <3>1. ~(n + 1 <= Len(es)) /\ n <= Len(es)
      BY <1>5, <2>2
    <3> QED BY <1>5, <2>2, <3>1
  <2> QED BY <1>5, <2>1, <2>2
<1>7. P(k + 1) + 2 > m /\ P(k + 1) \in Nat /\ P(k + 1) >= 1
  <2>1. CASE k < Len(es)
    <3>1. k + 1 \in 1 .. Len(es) /\ ~(k + 1 <= k)
      BY <1>5, <2>1
    <3>2. ~(es[k + 1].at + 2 <= m) /\ es[k + 1].at \in Nat /\ es[k + 1].at >= 1
      BY <1>5, <3>1
    <3> QED BY <1>1, <1>6, <3>1, <3>2
  <2>2. CASE k = Len(es)
    <3>1. P(k + 1) = Len(buf) + 1
      BY <1>5, <2>2
    <3> QED BY <1>1, <3>1
  <2> QED BY <1>5, <2>1, <2>2
<1>8. ASSUME NEW n \in 1 .. k, P(n + 1) <= m + 1 => f[P(n + 1)] = S(n + 1)
      PROVE  f[P(n)] = <<C(n)>> \o S(n + 1)
  <2>1. n \in 1 .. Len(es) /\ n <= k /\ es[n].at + 2 <= m /\ P(n) = es[n].at
    BY <1>5, <1>6
  <2> HIDE DEF S, C
  <2>2. PICK p \in 1 .. (m + 1) : p = es[n].at
    BY <1>1, <1>5, <2>1
  <2>3. /\ ~(p + 2 > Len(b) \/ b[p] = 0)
        /\ ChildAt(b, base, p) = C(n)
        /\ Skippable(b[p + 1], Len(b) - (p + 1)) =>
              EndOf(es[n]) <= m /\ p + 2 + b[p + 1] = EndOf(es[n]) + 1
        /\ ~Skippable(b[p + 1], Len(b) - (p + 1)) => n = Len(es) \/ EndOf(es[n]) > m
    <3>1. b = First(buf, m) /\ C(n) = CutOf(es[n], buf, base, m)
      BY DEF b, C
    <3>2. es[n].at + 2 <= m /\ n \in 1 .. Len(es)
      BY <2>1
    <3>3. /\ ~(es[n].at + 2 > Len(b) \/ b[es[n].at] = 0)
          /\ ChildAt(b, base, es[n].at) = CutOf(es[n], buf, base, m)
          /\ Skippable(b[es[n].at + 1], Len(b) - (es[n].at + 1)) =>
                EndOf(es[n]) <= m /\ es[n].at + 2 + b[es[n].at + 1] = EndOf(es[n]) + 1
          /\ ~Skippable(b[es[n].at + 1], Len(b) - (es[n].at + 1)) =>
                n = Len(es) \/ EndOf(es[n]) > m
      BY <3>1, <3>2, ScanOfElement
    <3> QED BY <2>2, <3>1, <3>3
  <2>4. f[p] = <<C(n)>> \o (IF Skippable(b[p + 1], Len(b) - (p + 1)) THEN f[p + 2 + b[p + 1]]
                                                                  ELSE <<>>)
    <3>1. f[p] = ScanAt(f, b, base, p)
      BY <1>4
    <3> QED BY <2>3, <3>1 DEF ScanAt
  <2>5. CASE Skippable(b[p + 1], Len(b) - (p + 1))
    <3> HIDE DEF P
    <3>0. EndOf(es[n]) \in Nat /\ EndOf(es[n]) <= m /\ P(n + 1) = EndOf(es[n]) + 1
      BY <1>5, <1>6, <2>1, <2>3, <2>5
    <3>1. P(n + 1) = EndOf(es[n]) + 1 /\ P(n + 1) <= m + 1
      BY ONLY <1>1, <3>0
    <3>2. f[p + 2 + b[p + 1]] = S(n + 1)
      BY <1>8, <2>3, <2>5, <3>1
    <3> QED BY <2>1, <2>2, <2>4, <2>5, <3>2
  <2>6. CASE ~Skippable(b[p + 1], Len(b) - (p + 1))
    <3>1. n = k
      <4>1. CASE n = Len(es)
        BY <1>5, <4>1
      <4>2. CASE n < Len(es) /\ EndOf(es[n]) > m
        <5>1. n + 1 \in 1 .. Len(es) /\ es[n + 1].at = EndOf(es[n]) + 1
          BY <1>5, <4>2
        <5>2. ~(es[n + 1].at + 2 <= m)
          BY <1>1, <1>5, <2>1, <4>2, <5>1, SMTT(30)
        <5>3. ~(n + 1 <= k)
          BY <5>1, <5>2
        <5> QED BY <5>3
      <4> QED BY <1>5, <2>1, <2>3, <2>6, <4>1, <4>2
    <3>2. S(n + 1) = <<>>
      BY <1>5, <3>1 DEF S
    <3> QED BY <2>1, <2>2, <2>4, <2>6, <3>2
  <2> QED BY <2>5, <2>6
<1>9. ASSUME NEW n \in 1 .. k PROVE <<C(n)>> \o S(n + 1) = S(n)
  <2>z. PICK Z : Z = {C(j) : j \in 1 .. k}
    OBVIOUS
  <2> DEFINE rest == S(n + 1)
             all  == S(n)
  <2>1. /\ rest \in Seq(Z) /\ Len(rest) = k - n
        /\ \A j \in 1 .. (k - n) : rest[j] = C(n + j)
    <3>1. /\ k + 1 - (n + 1) = k - n /\ k - n \in Nat
          /\ \A j \in 1 .. (k - n) : (n + 1) - 1 + j = n + j /\ n + j \in 1 .. k
      BY <1>5
    <3> HIDE DEF C
    <3>2. rest = [j \in 1 .. (k - n) |-> C((n + 1) - 1 + j)]
      BY <3>1
    <3>3. \A j \in 1 .. (k - n) : C((n + 1) - 1 + j) = C(n + j) /\ C(n + j) \in Z
      BY <2>z, <3>1
    <3> HIDE DEF rest
    <3>4. \A j \in 1 .. (k - n) : rest[j] = C(n + j) /\ rest[j] \in Z
      BY <3>2, <3>3
    <3>5. DOMAIN rest = 1 .. (k - n) /\ rest = [j \in 1 .. (k - n) |-> rest[j]]
      BY <3>2
    <3>6. rest \in Seq(Z) /\ Len(rest) = k - n
      BY <3>1, <3>4, <3>5, MadeOf
    <3> QED BY <3>4, <3>6
  <2>2. /\ all \in Seq(Z) /\ Len(all) = k - n + 1
        /\ \A j \in 1 .. (k - n + 1) : all[j] = C(n - 1 + j)
    <3>1. k + 1 - n = k - n + 1 /\ k - n + 1 \in Nat /\ \A j \in 1 .. (k - n + 1) : n - 1 + j \in 1 .. k
      BY <1>5
    <3> HIDE DEF C
    <3>2. all = [j \in 1 .. (k - n + 1) |-> C(n - 1 + j)]
      BY <3>1
    <3>3. \A j \in 1 .. (k - n + 1) : C(n - 1 + j) \in Z
      BY <2>z, <3>1
    <3> HIDE DEF all
    <3>4. \A j \in 1 .. (k - n + 1) : all[j] = C(n - 1 + j) /\ all[j] \in Z
      BY <3>2, <3>3
    <3>5. DOMAIN all = 1 .. (k - n + 1) /\ all = [j \in 1 .. (k - n + 1) |-> all[j]]
      BY <3>2
    <3>6. all \in Seq(Z) /\ Len(all) = k - n + 1
      BY <3>1, <3>4, <3>5, MadeOf
    <3> QED BY <3>4, <3>6
  <2>3. PICK c \in Z : c = C(n)
    BY <2>z
  <2> HIDE DEF rest, all, S, C
  <2>4. PICK t \in Seq(Z) :
          /\ t = <<c>> \o rest /\ Len(t) = k - n + 1 /\ t[1] = c
          /\ \A j \in 1 .. (k - n) : t[1 + j] = rest[j]
    <3>1. /\ <<c>> \o rest \in Seq(Z) /\ Len(<<c>> \o rest) = Len(rest) + 1
          /\ (<<c>> \o rest)[1] = c
          /\ \A j \in 1 .. Len(rest) : (<<c>> \o rest)[1 + j] = rest[j]
      BY <2>1, Prepended
    <3> QED BY <2>1, <3>1
  <2>5. \A j \in 1 .. (k - n + 1) : t[j] = all[j]
    <3> TAKE j \in 1 .. (k - n + 1)
    <3>1. CASE j = 1
      <4>1. all[1] = C(n - 1 + 1) /\ n - 1 + 1 = n
        BY <1>5, <2>2, <3>1
      <4> QED BY <2>3, <2>4, <3>1, <4>1
    <3>2. CASE j # 1
      <4>1. PICK i \in 1 .. (k - n) : j = 1 + i /\ n - 1 + j = n + i
        <5>1. j - 1 \in 1 .. (k - n) /\ j = 1 + (j - 1) /\ n - 1 + j = n + (j - 1)
          <6>1. k \in Nat /\ n \in 1 .. k /\ j \in 1 .. (k - n + 1) /\ j # 1
            BY <1>5, <3>2
          <6> QED BY ONLY <6>1
        <5> QED BY <5>1
      <4> QED BY <2>1, <2>2, <2>4, <4>1
    <3> QED BY <3>1, <3>2
  <2>6. t = all
    BY <2>2, <2>4, <2>5, SeqEqual
  <2> QED BY <2>3, <2>4, <2>6 DEF rest, all
<1> DEFINE T == {d \in Nat : d <= k => (P(k + 1 - d) <= m + 1 => f[P(k + 1 - d)] = S(k + 1 - d))}
<1>10. 0 \in T
  <2>1. k + 1 - 0 = k + 1
    BY <1>5
  <2>2. S(k + 1) = <<>>
    BY <1>5
  <2> HIDE DEF S
  <2>3. ASSUME P(k + 1) <= m + 1 PROVE f[P(k + 1)] = <<>>
    <3> HIDE DEF P
    <3>1. PICK p \in 1 .. (m + 1) : p = P(k + 1) /\ p + 2 > m
      BY <1>1, <1>7, <2>3
    <3>2. f[p] = <<>>
      BY <1>1, <1>4, <3>1 DEF ScanAt
    <3> QED BY <3>1, <3>2
  <2> HIDE DEF P
  <2> QED BY <2>1, <2>2, <2>3
<1>11. ASSUME NEW d \in Nat, d \in T PROVE d + 1 \in T
  <2> HIDE DEF S, C, P
  <2> SUFFICES ASSUME d + 1 <= k
               PROVE  f[P(k + 1 - (d + 1))] = S(k + 1 - (d + 1))
    OBVIOUS
  <2>1. PICK n \in 1 .. k : n = k + 1 - (d + 1) /\ n + 1 = k + 1 - d
    BY <1>5
  <2>2. P(n + 1) <= m + 1 => f[P(n + 1)] = S(n + 1)
    BY <1>5, <1>11, <2>1
  <2>3. f[P(n)] = S(n)
    BY <1>8, <1>9, <2>2
  <2> QED BY <2>1, <2>3
<1>12. \A d \in Nat : d \in T
  <2> HIDE DEF T
  <2> QED BY <1>10, <1>11, InductionOnSet
<1>13. f[P(1)] = S(1)
  <2>1. k \in T
    <3> HIDE DEF T
    <3> QED BY <1>5, <1>12
  <2>2. k + 1 - k = 1 /\ P(1) = 1 /\ 1 <= m + 1 /\ k <= k
    BY <1>1, <1>5
  <2> HIDE DEF S, C, P
  <2> QED BY <2>1, <2>2, <1>5
<1>14. P(1) = 1
  BY <1>5
<1>15. S(1) = [n \in 1 .. k |-> C(n)]
  <2>1. k + 1 - 1 = k /\ \A j \in 1 .. k : 1 - 1 + j = j
    BY <1>5
  <2> HIDE DEF C
  <2> QED BY <2>1
<1>16. Children(First(buf, m), base) = [n \in 1 .. k |-> C(n)]
  BY <1>3, <1>13, <1>14, <1>15 DEF b
<1> QED BY <1>16

\* How the elements of es with an id are in what the first m bytes show of them: h
\* says where each of those in r is in es.
Shows(h, r, es, buf, m, id) ==
  /\ \A j \in DOMAIN r : /\ h[j] \in DOMAIN es /\ es[h[j]].id = id /\ es[h[j]].at + 2 <= m
                         /\ r[j] = CutOf(es[h[j]], buf, 0, m)
  /\ \A i, j \in DOMAIN r : i < j => h[i] < h[j]
  /\ \A n \in DOMAIN es : es[n].id = id /\ es[n].at + 2 <= m => \E j \in DOMAIN r : h[j] = n

LEMMA NamedShows ==
  ASSUME NEW K, NEW es \in Seq(Element(K)), NEW buf \in Seq(Bytes), Tiles(es, buf),
         NEW m \in 0 .. Len(buf), NEW id
  PROVE  \E h : Shows(h, Named(id, First(buf, m)), es, buf, m, id)
<1>0. First(buf, m) \in Seq(Bytes) /\ 0 \in Nat /\ m \in Nat
  BY BufferType DEF First
<1>1. Len(es) \in Nat /\ DOMAIN es = 1 .. Len(es)
  BY TilesInside
<1>2. PICK k \in 0 .. Len(es) : \A n \in 1 .. Len(es) : n <= k <=> es[n].at + 2 <= m
  BY <1>0, SeenOnes
<1>3. PICK all \in Seq(Child) : all = Children(First(buf, m), 0)
  BY <1>0, ChildrenType
<1>4. DOMAIN all = 1 .. k /\ \A n \in 1 .. k : all[n] = CutOf(es[n], buf, 0, m)
  BY <1>0, <1>2, <1>3, ScanFinds
<1>5. DOMAIN all = 1 .. k /\ \A n \in 1 .. k : all[n] = CutOf(es[n], buf, 0, m) /\ all[n].id = es[n].id
  BY <1>4 DEF CutOf
<1> DEFINE P == {n \in DOMAIN all : all[n].id = id}
<1>6. \A n : n \in P <=> n \in 1 .. k /\ es[n].id = id
  BY <1>5
<1>7. Named(id, First(buf, m)) = Only(all, P)
  BY <1>3 DEF Named
<1> HIDE DEF P
<1>8. PICK r \in Seq(Child) : r = Only(all, P)
  BY OnlyType
<1>9. PICK h : Selects(h, r, all, P)
  BY <1>8, OnlySelects
<1>10. /\ \A j \in DOMAIN r : h[j] \in DOMAIN all /\ h[j] \in P /\ r[j] = all[h[j]]
       /\ \A i, j \in DOMAIN r : i < j => h[i] < h[j]
       /\ \A n \in DOMAIN all : n \in P => \E j \in DOMAIN r : h[j] = n
  BY <1>9 DEF Selects
<1>11. \A n \in 1 .. k : n \in 1 .. Len(es) /\ es[n].at + 2 <= m
  BY <1>1, <1>2
<1>12. \A j \in DOMAIN r : /\ h[j] \in DOMAIN es /\ es[h[j]].id = id /\ es[h[j]].at + 2 <= m
                           /\ r[j] = CutOf(es[h[j]], buf, 0, m)
  BY <1>1, <1>5, <1>6, <1>10, <1>11
<1>13. \A n \in DOMAIN es : es[n].id = id /\ es[n].at + 2 <= m => \E j \in DOMAIN r : h[j] = n
  <2> SUFFICES ASSUME NEW n \in DOMAIN es, es[n].id = id, es[n].at + 2 <= m
               PROVE  \E j \in DOMAIN r : h[j] = n
    OBVIOUS
  <2>1. n \in 1 .. k
    BY <1>1, <1>2
  <2> QED BY <1>5, <1>6, <1>10, <2>1
<1>14. Shows(h, r, es, buf, m, id)
  BY <1>10, <1>12, <1>13 DEF Shows
<1> QED BY <1>7, <1>8, <1>14

\* A single one with an id, or none.
LEMMA NamedSole ==
  ASSUME NEW K, NEW es \in Seq(Element(K)), NEW buf \in Seq(Bytes), Tiles(es, buf),
         NEW m \in 0 .. Len(buf), NEW id, NEW n \in DOMAIN es, Places(id, es) = {n}
  PROVE  /\ es[n].at + 2 <= m => Named(id, First(buf, m)) = <<CutOf(es[n], buf, 0, m)>>
         /\ ~(es[n].at + 2 <= m) => Named(id, First(buf, m)) = <<>>
<1>0. First(buf, m) \in Seq(Bytes)
  BY BufferType DEF First
<1>1. PICK r \in Seq(Child) : r = Named(id, First(buf, m))
  BY <1>0, NamedType
<1>2. PICK h : Shows(h, r, es, buf, m, id)
  BY <1>1, NamedShows
<1>3. \A i \in DOMAIN es : es[i].id = id <=> i = n
  BY DEF Places
<1>4. Len(r) \in Nat /\ DOMAIN r = 1 .. Len(r) /\ n \in Nat
  <2>1. DOMAIN es = 1 .. Len(es)
    BY TilesInside
  <2> QED BY <2>1
<1>5. \A j \in 1 .. Len(r) : h[j] = n /\ es[n].at + 2 <= m /\ r[j] = CutOf(es[n], buf, 0, m)
  BY <1>2, <1>3, <1>4 DEF Shows
<1>6. ASSUME es[n].at + 2 <= m PROVE r = <<CutOf(es[n], buf, 0, m)>>
  <2>1. PICK j \in 1 .. Len(r) : h[j] = n
    BY <1>2, <1>3, <1>4, <1>6 DEF Shows
  <2>2. Len(r) = 1
    <3> SUFFICES ASSUME Len(r) >= 2 PROVE FALSE
      BY <1>4, <2>1
    <3>1. 1 \in 1 .. Len(r) /\ 2 \in 1 .. Len(r)
      BY <1>4
    <3>2. h[1] < h[2]
      BY <1>2, <1>4, <3>1 DEF Shows
    <3> QED BY <1>4, <1>5, <3>1, <3>2
  <2>3. r[1] = CutOf(es[n], buf, 0, m)
    BY <1>5, <2>2
  <2> QED BY <2>2, <2>3
<1>7. ASSUME ~(es[n].at + 2 <= m) PROVE r = <<>>
  <2>1. \A j \in 1 .. Len(r) : FALSE
    BY <1>5, <1>7
  <2> QED BY <1>4, <2>1
<1> QED BY <1>1, <1>6, <1>7

LEMMA NamedNone ==
  ASSUME NEW K, NEW es \in Seq(Element(K)), NEW buf \in Seq(Bytes), Tiles(es, buf),
         NEW m \in 0 .. Len(buf), NEW id, Places(id, es) = {}
  PROVE  Named(id, First(buf, m)) = <<>>
<1>0. First(buf, m) \in Seq(Bytes)
  BY BufferType DEF First
<1>1. PICK r \in Seq(Child) : r = Named(id, First(buf, m))
  BY <1>0, NamedType
<1>2. PICK h : Shows(h, r, es, buf, m, id)
  BY <1>1, NamedShows
<1>4. Len(r) \in Nat /\ DOMAIN r = 1 .. Len(r)
  OBVIOUS
<1>5. \A j \in 1 .. Len(r) : FALSE
  BY <1>2, <1>4 DEF Shows, Places
<1>6. r = <<>>
  BY <1>4, <1>5
<1> QED BY <1>1, <1>6

\* The part with an id.
LEMMA SoleIsPart ==
  ASSUME NEW K, NEW es \in Seq(Element(K)), NEW id, Sole(id, es)
  PROVE  \E n \in DOMAIN es : Places(id, es) = {n} /\ Part(id, es) = es[n]
                              /\ es[n] \in Element(K) /\ es[n].id = id
<1>1. PICK n \in DOMAIN es : Places(id, es) = {n}
  BY DEF Sole
<1>2. \A i \in DOMAIN es : es[i].id = id <=> i = n
  BY <1>1 DEF Places
<1>3. (CHOOSE i \in DOMAIN es : es[i].id = id) = n
  BY <1>2
<1>4. es[n] \in Element(K)
  BY ElementOfSeq
<1> QED BY <1>1, <1>2, <1>3, <1>4 DEF Part

\* All of a buffer, and an element that is shown whole.
LEMMA FirstFull ==
  ASSUME NEW buf \in Seq(Bytes)
  PROVE  First(buf, Len(buf)) = buf /\ Len(buf) \in 0 .. Len(buf)
<1>1. Len(buf) \in Nat
  BY BufferType
<1> QED BY <1>1, SubSeqFull DEF First

LEMMA CutWhole ==
  ASSUME NEW K, NEW e \in Element(K), NEW buf, NEW base, NEW m \in Nat, EndOf(e) <= m
  PROVE  CutOf(e, buf, base, m) = [id |-> e.id, size |-> buf[e.at + 1], at |-> base + e.at + 1,
                                   data |-> e.data]
<1>1. e.data \in Seq(Bytes)
  BY ElementFields
<1>2. SubSeq(e.data, 1, Shown(e, m)) = e.data
  BY <1>1, SubSeqFull DEF Shown
<1> QED BY <1>2 DEF CutOf

\* The elements of a whole buffer are shown whole.
LEMMA WholeShown ==
  ASSUME NEW K, NEW es \in Seq(Element(K)), NEW buf \in Seq(Bytes), Tiles(es, buf),
         NEW n \in DOMAIN es
  PROVE  /\ es[n].at + 2 <= Len(buf) /\ EndOf(es[n]) <= Len(buf)
         /\ CutOf(es[n], buf, 0, Len(buf)).data = es[n].data
<1>1. es[n] \in Element(K) /\ Len(es[n].data) >= 1 /\ EndOf(es[n]) <= Len(buf)
  BY TilesInside
<1>2. es[n].at \in Nat /\ Len(es[n].data) \in Nat /\ Len(buf) \in Nat
  BY <1>1, ElementFields, BufferType
<1>3. es[n].at + 2 <= Len(buf)
  BY <1>1, <1>2 DEF EndOf
<1> QED BY <1>1, <1>2, <1>3, CutWhole

\* The number of an element that is read as it is.
LEMMA ReadsAsItIs ==
  ASSUME NEW K, NEW es \in Seq(Element(K)), NEW buf, Tiles(es, buf),
         NEW id \in Numeric, Sole(id, es)
  PROVE  /\ Part(id, es).data \in Seq(Bytes) /\ Uint(Part(id, es).data) = Value(id, es)
         /\ Value(id, es) \in 0 .. Limit(id)
<1>1. PICK n \in DOMAIN es : /\ Part(id, es) = es[n] /\ es[n] \in Element(K) /\ es[n].id = id
  BY SoleIsPart
<1>2. Fits(es[n])
  BY DEF Tiles
<1>3. PICK data \in Seq(Bytes) : data = es[n].data
  BY <1>1, ElementFields
<1>4. Len(data) <= NumberBytes /\ BigEndian(data) <= Limit(id)
  BY <1>1, <1>2, <1>3 DEF Fits
<1>5. PICK v \in Nat : v = BigEndian(data)
  BY BigEndianType
<1>6. Limit(id) \in Nat
  BY FileAssumption DEF Limit
<1>7. v \in 0 .. Limit(id)
  BY <1>4, <1>5, <1>6
<1>8. Uint(data) = v
  BY <1>4, <1>5, UintType
<1> QED BY <1>1, <1>3, <1>5, <1>7, <1>8 DEF Value

\* The number of the sole child with an id.
LEMMA NumberSole ==
  ASSUME NEW K, NEW es \in Seq(Element(K)), NEW buf \in Seq(Bytes), Tiles(es, buf),
         NEW id \in Numeric, Sole(id, es), NEW default
  PROVE  /\ Named(id, buf) # <<>> /\ Number(id, buf, default) = Value(id, es)
         /\ Part(id, es).data \in Seq(Bytes) /\ Value(id, es) \in 0 .. Limit(id)
<1>1. PICK n \in DOMAIN es : /\ Places(id, es) = {n} /\ Part(id, es) = es[n]
                             /\ es[n] \in Element(K)
  BY SoleIsPart
<1>2. First(buf, Len(buf)) = buf /\ Len(buf) \in 0 .. Len(buf)
  BY FirstFull
<1>3. Named(id, buf) = <<CutOf(es[n], buf, 0, Len(buf))>>
  BY <1>1, <1>2, WholeShown, NamedSole, SMTT(30)
<1>4. CutOf(es[n], buf, 0, Len(buf)).data = Part(id, es).data
  BY <1>1, WholeShown
<1>5. Number(id, buf, default) = Uint(Part(id, es).data) /\ Named(id, buf) # <<>>
  <2>1. PICK c : c = CutOf(es[n], buf, 0, Len(buf)) /\ c.data = Part(id, es).data
    BY <1>4
  <2>2. Named(id, buf) = <<c>>
    BY <1>3, <2>1
  <2>3. <<c>> # <<>> /\ Len(<<c>>) = 1 /\ <<c>>[1] = c
    OBVIOUS
  <2> QED BY <2>1, <2>2, <2>3 DEF Number
<1> QED BY <1>5, ReadsAsItIs

\* A cast leaves such numbers alone.
LEMMA LimitKept ==
  ASSUME NEW id, NEW n \in 0 .. Limit(id)
  PROVE  /\ n \in Nat /\ n <= MaxLong /\ AsLong(n) = n
         /\ Limit(id) = MaxInt => AsInt(n) = n
<1>1. Limit(id) \in Nat /\ Limit(id) <= MaxLong /\ MaxLong \in Nat
  BY FileAssumption DEF Limit
<1>2. n \in Nat /\ n <= MaxLong /\ n \in Int
  BY <1>1
<1>3. n \in Long
  BY <1>1, <1>2 DEF Long
<1> QED BY <1>2, <1>3, AsLongRange, AsIntRange

-----------------------------------------------------------------------------
(* The header of a sound file.                                             *)

\* Where one element with an id is met by those that are shown.
LEMMA UniqueShown ==
  ASSUME NEW K, NEW es \in Seq(Element(K)), NEW buf \in Seq(Bytes), Tiles(es, buf), NEW id,
         NEW r \in Seq(Child), NEW h, Shows(h, r, es, buf, Len(buf), id),
         NEW n \in DOMAIN es, es[n].id = id,
         NEW P, \A j \in DOMAIN r : j \in P <=> h[j] = n
  PROVE  \E j \in DOMAIN r : Only(r, P) = <<r[j]>> /\ r[j].data = es[n].data
<1>1. PICK j \in DOMAIN r : h[j] = n
  BY WholeShown DEF Shows
<1>2. Len(r) \in Nat /\ DOMAIN r = 1 .. Len(r) /\ DOMAIN es = 1 .. Len(es)
  BY TilesInside
<1>3. \A i \in DOMAIN r : h[i] = n => i = j
  <2> SUFFICES ASSUME NEW i \in DOMAIN r, h[i] = n, i # j PROVE FALSE
    OBVIOUS
  <2>1. i < j \/ j < i
    BY <1>2
  <2>2. n < n
    BY <1>1, <2>1 DEF Shows
  <2> QED BY <1>2, <2>2
<1>4. P \cap DOMAIN r = {j}
  BY <1>1, <1>3
<1>5. Only(r, P) = <<r[j]>>
  BY <1>4, OnlyOne
<1>6. r[j] = CutOf(es[n], buf, 0, Len(buf))
  BY <1>1 DEF Shows
<1> QED BY <1>5, <1>6, WholeShown

\* The children of a single element.
LEMMA NamedInOne ==
  ASSUME NEW c, c.data \in Seq(Bytes), NEW id
  PROVE  NamedIn(id, <<c>>) = Named(id, c.data)
<1>1. PICK x \in Seq(Child) : x = Named(id, c.data)
  BY NamedType
<1>2. [n \in DOMAIN <<c>> |-> Named(id, <<c>>[n].data)] = <<x>>
  <2>1. DOMAIN <<c>> = {1} /\ <<c>>[1] = c
    OBVIOUS
  <2>2. [n \in DOMAIN <<c>> |-> Named(id, <<c>>[n].data)] = [n \in {1} |-> x]
    BY <1>1, <2>1
  <2>3. <<x>> = [n \in {1} |-> x]
    <3>1. {1} = 1 .. 1
      OBVIOUS
    <3> QED BY <3>1
  <2> QED BY <2>2, <2>3
<1> QED BY <1>1, <1>2, FlattenOne DEF NamedIn

\* The number in the last child with an id.
LEMMA NumberIsFinal ==
  ASSUME NEW id, NEW buf, NEW default, Named(id, buf) # <<>>
  PROVE  Number(id, buf, default) = Uint(FinalOf(Named(id, buf)).data)
BY DEF Number, FinalOf

\* What Sound says of the levels of a file.
LEMMA SoundLevels ==
  ASSUME NEW f \in FileType, Sound(f)
  PROVE  /\ f.bytes \in Seq(Bytes) /\ f.top \in Seq(Element(Section)) /\ Len(f.top) = 2
         /\ Tiles(f.top, f.bytes) /\ f.top[2] \in Element(Section)
         /\ Sections(f) \in Seq(Element(Point)) /\ f.top[2].data \in Seq(Bytes)
         /\ Tiles(Sections(f), f.top[2].data)
         /\ \A i \in DOMAIN Sections(f) :
              LET a == Sections(f)[i]
              IN  /\ a \in Element(Point) /\ a.data \in Seq(Bytes) /\ a.kids \in Seq(Element(Positions))
                  /\ a.id \in Master => Tiles(a.kids, a.data)
                  /\ \A j \in DOMAIN a.kids :
                       LET b == a.kids[j]
                       IN  /\ b \in Element(Positions) /\ b.data \in Seq(Bytes)
                           /\ b.kids \in Seq(Element(Leaf))
                           /\ b.id \in Master => Tiles(b.kids, b.data)
                           /\ \A k \in DOMAIN b.kids :
                                LET c == b.kids[k]
                                IN  /\ c \in Element(Leaf) /\ c.data \in Seq(Bytes)
                                    /\ c.kids \in Seq(Element({}))
                                    /\ c.id \in Master => Tiles(c.kids, c.data)
<1>1. /\ f.bytes \in Seq(Bytes) /\ f.top \in Seq(Element(Section)) /\ Len(f.top) = 2
      /\ Tiles(f.top, f.bytes) /\ f.top[2].id = Id.Segment /\ Nested(f.top[2])
  BY DEF FileType, TopLevel, Sound
<1>2. f.top[2] \in Element(Section)
  BY <1>1
<1>3. Sections(f) \in Seq(Element(Point)) /\ f.top[2].data \in Seq(Bytes)
  BY <1>2, ElementFields DEF Sections, Section
<1>4. Tiles(Sections(f), f.top[2].data)
  BY <1>1 DEF Nested, Master, Sections
<1>5. ASSUME NEW i \in DOMAIN Sections(f), NEW a, a = Sections(f)[i]
      PROVE  /\ a \in Element(Point) /\ a.data \in Seq(Bytes) /\ a.kids \in Seq(Element(Positions))
             /\ Nested(a) /\ \A b \in Range(a.kids) : Nested(b) /\ \A c \in Range(b.kids) : Nested(c)
  <2>1. a \in Element(Point)
    BY <1>3, <1>5
  <2>2. a.data \in Seq(Bytes) /\ a.kids \in Seq(Element(Positions))
    BY <2>1, ElementFields DEF Point
  <2>3. a \in Range(Sections(f))
    BY <1>5 DEF Range
  <2> QED BY <2>1, <2>2, <2>3 DEF Sound
<1>6. ASSUME NEW i \in DOMAIN Sections(f), NEW a, a = Sections(f)[i],
             NEW j \in DOMAIN a.kids, NEW b, b = a.kids[j]
      PROVE  /\ b \in Element(Positions) /\ b.data \in Seq(Bytes) /\ b.kids \in Seq(Element(Leaf))
             /\ Nested(b) /\ \A c \in Range(b.kids) : Nested(c)
  <2>1. a.kids \in Seq(Element(Positions))
        /\ \A x \in Range(a.kids) : Nested(x) /\ \A c \in Range(x.kids) : Nested(c)
    BY <1>5, <1>6
  <2>2. b \in Element(Positions) /\ b \in Range(a.kids)
    BY <2>1, <1>6 DEF Range
  <2>3. b.data \in Seq(Bytes) /\ b.kids \in Seq(Element(Leaf))
    BY <2>2, ElementFields DEF Positions
  <2> QED BY <2>1, <2>2, <2>3
<1>7. ASSUME NEW i \in DOMAIN Sections(f), NEW a, a = Sections(f)[i],
             NEW j \in DOMAIN a.kids, NEW b, b = a.kids[j],
             NEW k \in DOMAIN b.kids, NEW c, c = b.kids[k]
      PROVE  /\ c \in Element(Leaf) /\ c.data \in Seq(Bytes) /\ c.kids \in Seq(Element({}))
             /\ Nested(c)
  <2>1. b.kids \in Seq(Element(Leaf)) /\ \A x \in Range(b.kids) : Nested(x)
    BY <1>6, <1>7
  <2>2. c \in Element(Leaf) /\ c \in Range(b.kids)
    BY <2>1, <1>7 DEF Range
  <2>3. c.data \in Seq(Bytes) /\ c.kids \in Seq(Element({}))
    BY <2>2, ElementFields DEF Leaf
  <2> QED BY <2>1, <2>2, <2>3
<1> QED BY <1>1, <1>2, <1>3, <1>4, <1>5, <1>6, <1>7, ZenonT(30) DEF Nested

\* What the header scan sees of a file.
HeadLen(f) == IF HeaderSize < Len(f.bytes) THEN HeaderSize ELSE Len(f.bytes)
HeadBytes(f)   == First(f.bytes, HeadLen(f))

\* The sections that are looked for are whole in it.
LEMMA HeadOf ==
  ASSUME NEW f \in FileType, Sound(f)
  PROVE  /\ HeadLen(f) \in 0 .. Len(f.bytes) /\ HeadBytes(f) \in Seq(Bytes)
         /\ DataStart(f) \in Nat /\ DataStart(f) <= HeadLen(f)
         /\ Len(f.bytes) = DataStart(f) + Len(f.top[2].data)
         /\ HeadLen(f) - DataStart(f) \in 0 .. Len(f.top[2].data)
         /\ SegmentStart(HeadBytes(f)) = DataStart(f)
         /\ SegmentData(HeadBytes(f)) = First(f.top[2].data, HeadLen(f) - DataStart(f))
         /\ \A id \in {Id.SeekHead, Id.Info, Id.Tracks} :
              EndOf(Part(id, Sections(f))) <= HeadLen(f) - DataStart(f)
<1>1. /\ f.bytes \in Seq(Bytes) /\ f.top \in Seq(Element(Section)) /\ Len(f.top) = 2
      /\ Tiles(f.top, f.bytes) /\ f.top[2] \in Element(Section)
      /\ Sections(f) \in Seq(Element(Point)) /\ f.top[2].data \in Seq(Bytes)
      /\ Tiles(Sections(f), f.top[2].data)
  BY SoundLevels
<1>2. /\ f.top[1].id = Id.EBMLHeader /\ f.top[2].id = Id.Segment /\ Len(f.bytes) >= MinHeader
      /\ \A id \in {Id.SeekHead, Id.Info, Id.Tracks} :
           /\ Sole(id, Sections(f))
           /\ DataStart(f) + Part(id, Sections(f)).at + 1 + Len(Part(id, Sections(f)).data) <= HeaderSize
  BY DEF Sound
<1>3. PICK hdr \in Element(Section) : hdr = f.top[1]
  <2>1. 1 \in 1 .. Len(f.top)
    BY <1>1
  <2> QED BY <1>1, <2>1, TilesInside
<1>4. PICK seg \in Element(Section) : seg = f.top[2]
  BY <1>1
<1>5. /\ hdr.at \in Nat /\ Len(hdr.data) \in Nat /\ EndOf(hdr) = hdr.at + 1 + Len(hdr.data)
      /\ seg.at \in Nat /\ Len(seg.data) \in Nat /\ EndOf(seg) = seg.at + 1 + Len(seg.data)
  BY ElementFields DEF EndOf
<1>6. PICK total \in Nat : total = Len(f.bytes)
  BY <1>1, BufferType
<1>7. /\ hdr.at = 1 /\ f.bytes[hdr.at + 1] = Len(hdr.data) /\ seg.at = EndOf(hdr) + 1
      /\ total = EndOf(seg) /\ Len(seg.data) >= 1
      /\ f.bytes[seg.at] = seg.id /\ SubSeq(f.bytes, seg.at + 2, EndOf(seg)) = seg.data
  <2>1. 1 \in 1 .. Len(f.top) /\ 2 \in 1 .. Len(f.top) /\ 1 < Len(f.top) /\ 1 + 1 = 2
    BY <1>1
  <2>2. /\ f.top[1].at = 1 /\ f.bytes[f.top[1].at + 1] = Len(f.top[1].data)
        /\ f.top[1 + 1].at = EndOf(f.top[1]) + 1
    BY <1>1, <2>1, TilesInside, ZenonT(30)
  <2>3. /\ Len(f.top[2].data) >= 1 /\ f.bytes[f.top[2].at] = f.top[2].id
        /\ SubSeq(f.bytes, f.top[2].at + 2, EndOf(f.top[2])) = f.top[2].data
    BY <1>1, <2>1, TilesInside, SMTT(30)
  <2>4. Len(f.bytes) = EndOf(f.top[2])
    <3>1. 2 = Len(f.top)
      BY <1>1
    <3> QED BY <1>1, <2>1, <3>1, TilesInside, ZenonT(30)
  <2> QED BY <1>3, <1>4, <1>6, <2>1, <2>2, <2>3, <2>4
<1>8. ASSUME NEW id \in {Id.SeekHead, Id.Info, Id.Tracks}
      PROVE  /\ EndOf(Part(id, Sections(f))) \in Nat /\ EndOf(Part(id, Sections(f))) <= Len(seg.data)
             /\ DataStart(f) + EndOf(Part(id, Sections(f))) <= HeaderSize
  <2>1. PICK n \in DOMAIN Sections(f) : Part(id, Sections(f)) = Sections(f)[n]
                                        /\ Sections(f)[n] \in Element(Point)
    BY <1>1, <1>2, SoleIsPart
  <2>2. PICK e \in Element(Point) : e = Part(id, Sections(f))
    BY <2>1
  <2>3. e.at \in Nat /\ Len(e.data) \in Nat /\ EndOf(e) \in Nat /\ EndOf(e) = e.at + 1 + Len(e.data)
    BY ElementFields DEF EndOf
  <2>4. EndOf(e) <= Len(seg.data)
    BY <1>1, <1>4, <2>1, <2>2, WholeShown
  <2>5. DataStart(f) + e.at + 1 + Len(e.data) <= HeaderSize /\ DataStart(f) \in Nat
    BY <1>2, <1>4, <1>5, <2>2, SMTT(30) DEF DataStart
  <2>6. DataStart(f) + EndOf(e) <= HeaderSize
    <3>1. PICK at \in Nat, len \in Nat, start \in Nat, end \in Nat :
            /\ at = e.at /\ len = Len(e.data) /\ start = DataStart(f) /\ end = EndOf(e)
            /\ end = at + 1 + len
      BY <2>3, <2>5
    <3>2. start + at + 1 + len <= HeaderSize
      BY <2>5, <3>1
    <3>3. start + (at + 1 + len) = start + at + 1 + len
      OBVIOUS
    <3> QED BY <3>1, <3>2, <3>3
  <2> QED BY <2>2, <2>3, <2>4, <2>6
<1>9. PICK start \in Nat : start = DataStart(f) /\ start = seg.at + 1
  BY <1>4, <1>5 DEF DataStart
<1>10. PICK m \in Nat : m = HeadLen(f) /\ m = (IF HeaderSize < total THEN HeaderSize ELSE total)
  BY <1>6, FileAssumption DEF HeadLen
<1>11. start <= m /\ m <= total /\ total = start + Len(seg.data) /\ m >= MinHeader
  <2>1. PICK e \in Nat : start + e <= HeaderSize
    BY <1>8, <1>9
  <2>2. total = start + Len(seg.data) /\ Len(seg.data) \in Nat
    BY <1>5, <1>7, <1>9
  <2>3. total >= MinHeader /\ HeaderSize >= MinHeader /\ MinHeader \in Nat /\ HeaderSize \in Nat
    BY <1>2, <1>6, FileAssumption
  <2> QED BY <1>10, <2>1, <2>2, <2>3
<1>12. PICK b \in Seq(Bytes) : /\ b = HeadBytes(f) /\ b = First(f.bytes, m) /\ Len(b) = m
                               /\ \A i \in 1 .. m : b[i] = f.bytes[i]
  <2>1. SubSeq(f.bytes, 1, m) \in Seq(Bytes)
    <3>1. m \in Int /\ m <= Len(f.bytes) /\ 1 \in Nat \ {0}
      BY <1>6, <1>11
    <3> QED BY <1>1, <3>1, PartType
  <2>2. Len(SubSeq(f.bytes, 1, m)) = m /\ \A i \in 1 .. m : SubSeq(f.bytes, 1, m)[i] = f.bytes[i]
    BY <1>1, <1>6, <1>11
  <2> QED BY <1>10, <2>1, <2>2 DEF HeadBytes, First
<1>13. Named(Id.EBMLHeader, b) = <<CutOf(hdr, f.bytes, 0, m)>>
  <2>1. Places(Id.EBMLHeader, f.top) = {1}
    <3>1. DOMAIN f.top = {1, 2}
      BY <1>1
    <3> QED BY <1>2, <3>1 DEF Places, Id
  <2>2. hdr.at + 2 <= m /\ m \in 0 .. Len(f.bytes) /\ 1 \in DOMAIN f.top
    <3>1. PICK len \in Nat : len = Len(hdr.data) /\ start = 1 + 1 + len + 1 + 1
      BY <1>5, <1>7, <1>9
    <3>2. 1 + 2 <= m /\ m \in 0 .. Len(f.bytes)
      <4>1. m \in Nat /\ start \in Nat /\ total \in Nat /\ start <= m /\ m <= total
        BY <1>11
      <4>2. 1 + 2 <= m /\ m \in 0 .. total
        BY ONLY <3>1, <4>1
      <4> QED BY <1>6, <4>2
    <3> QED BY <1>1, <1>7, <3>2
  <2>3. f.top[1].at + 2 <= m
    BY <1>3, <2>2
  <2>4. Named(Id.EBMLHeader, First(f.bytes, m)) = <<CutOf(f.top[1], f.bytes, 0, m)>>
    BY <1>1, <2>1, <2>2, <2>3, NamedSole, ZenonT(30)
  <2> QED BY <1>3, <1>12, <2>4
<1>14. SegmentStart(b) = start
  <2>1. PICK c : c = CutOf(hdr, f.bytes, 0, m) /\ c.at = 2 /\ c.size = Len(hdr.data)
    <3>1. 0 + hdr.at + 1 = 2 /\ f.bytes[hdr.at + 1] = Len(hdr.data)
      BY <1>7
    <3>2. /\ CutOf(hdr, f.bytes, 0, m).at = 0 + hdr.at + 1
          /\ CutOf(hdr, f.bytes, 0, m).size = f.bytes[hdr.at + 1]
      BY DEF CutOf
    <3> QED BY <3>1, <3>2
  <2>2. <<c>> # <<>> /\ FinalOf(<<c>>) = c
    BY DEF FinalOf
  <2>3. 2 + Len(hdr.data) + 2 = start /\ 2 + Len(hdr.data) + 1 = seg.at
    BY <1>5, <1>7, <1>9, SMTT(30)
  <2>4. PICK pos \in Nat : pos = c.at + c.size /\ pos # 0 /\ pos + 2 = start /\ pos + 1 = seg.at
    BY <1>5, <2>1, <2>3
  <2>5. b[pos + 1] = Id.Segment
    <3>1. seg.at \in 1 .. m
      BY <1>5, <1>9, <1>11, <2>4
    <3> QED BY <1>2, <1>4, <1>7, <1>12, <2>4, <3>1
  <2> QED BY <1>11, <1>12, <1>13, <2>1, <2>2, <2>4, <2>5 DEF SegmentStart
<1>15. SegmentData(b) = First(seg.data, m - start)
  <2>1. SubSeq(SubSeq(f.bytes, 1, m), start + 1, m) = SubSeq(f.bytes, 1 - 1 + (start + 1), 1 - 1 + m)
    <3>1. 1 \in Nat \ {0} /\ m <= Len(f.bytes) /\ start + 1 \in Nat \ {0} /\ 1 - 1 + m <= m
      BY <1>6, <1>11
    <3> QED BY <1>1, <3>1, PartOfPart
  <2>2. SubSeq(SubSeq(f.bytes, start + 1, EndOf(seg)), 1, m - start)
          = SubSeq(f.bytes, start + 1 - 1 + 1, start + 1 - 1 + (m - start))
    <3>1. /\ 1 \in Nat \ {0} /\ EndOf(seg) <= Len(f.bytes) /\ EndOf(seg) \in Nat /\ start + 1 \in Nat \ {0}
          /\ m - start \in Nat /\ start + 1 - 1 + (m - start) <= EndOf(seg)
      <4>1. PICK end \in Nat : end = EndOf(seg) /\ end = total /\ Len(f.bytes) = total
        BY <1>5, <1>6, <1>7
      <4> QED BY <1>11, <4>1
    <3> QED BY <1>1, <3>1, PartOfPart
  <2>3. /\ 1 - 1 + (start + 1) = start + 1 /\ 1 - 1 + m = m
        /\ start + 1 - 1 + 1 = start + 1 /\ start + 1 - 1 + (m - start) = m
    BY <1>11
  <2>4. SubSeq(f.bytes, start + 1, EndOf(seg)) = seg.data
    <3>1. seg.at + 2 = start + 1
      BY <1>5, <1>9
    <3> QED BY <1>7, <3>1
  <2> QED BY <1>12, <1>14, <2>1, <2>2, <2>3, <2>4 DEF SegmentData, First
<1>16. \A id \in {Id.SeekHead, Id.Info, Id.Tracks} : EndOf(Part(id, Sections(f))) <= m - start
  <2> TAKE id \in {Id.SeekHead, Id.Info, Id.Tracks}
  <2>1. PICK e \in Nat : e = EndOf(Part(id, Sections(f))) /\ e <= Len(seg.data) /\ start + e <= HeaderSize
    BY <1>8, <1>9
  <2>2. PICK n \in Nat : n = Len(seg.data) /\ total = start + n /\ HeaderSize \in Nat
    BY <1>5, <1>11, FileAssumption
  <2>3. start + e <= m
    BY <1>10, <2>1, <2>2
  <2>4. e <= m - start
    BY <2>3
  <2> QED BY <2>1, <2>4
<1>17. m - start \in 0 .. Len(seg.data)
  BY <1>5, <1>11
<1> QED BY <1>4, <1>6, <1>9, <1>10, <1>11, <1>12, <1>14, <1>15, <1>16, <1>17

\* A section that is looked for: what a visitor of its children sees.
LEMMA InSection ==
  ASSUME NEW f \in FileType, Sound(f), NEW id \in {Id.SeekHead, Id.Info, Id.Tracks}
  PROVE  /\ \A x : NamedIn(x, Named(id, SegmentData(HeadBytes(f))))
                     = Named(x, Part(id, Sections(f)).data)
         /\ \E i \in DOMAIN Sections(f) : Part(id, Sections(f)) = Sections(f)[i]
         /\ Part(id, Sections(f)).data \in Seq(Bytes)
         /\ Part(id, Sections(f)).kids \in Seq(Element(Positions))
         /\ Tiles(Part(id, Sections(f)).kids, Part(id, Sections(f)).data)
<1>1. /\ Sections(f) \in Seq(Element(Point)) /\ f.top[2].data \in Seq(Bytes)
      /\ Tiles(Sections(f), f.top[2].data)
  BY SoundLevels
<1>2. Sole(id, Sections(f))
  BY DEF Sound
<1>3. PICK i \in DOMAIN Sections(f) : /\ Places(id, Sections(f)) = {i}
                                      /\ Part(id, Sections(f)) = Sections(f)[i]
                                      /\ Sections(f)[i].id = id
  BY <1>1, <1>2, SoleIsPart
<1>4. PICK e \in Element(Point) : e = Part(id, Sections(f)) /\ e = Sections(f)[i]
  BY <1>1, <1>3
<1>5. id \in Master
  BY DEF Master
<1>6. e.data \in Seq(Bytes) /\ e.kids \in Seq(Element(Positions)) /\ Tiles(e.kids, e.data)
  BY <1>3, <1>4, <1>5, SoundLevels
<1>7. PICK m \in 0 .. Len(f.top[2].data) :
        /\ SegmentData(HeadBytes(f)) = First(f.top[2].data, m) /\ EndOf(e) <= m
  BY <1>4, HeadOf
<1>8. m \in Nat
  BY <1>7
<1>9. e.at + 2 <= m
  <2>1. e.at \in Nat /\ EndOf(e) \in Nat /\ Len(e.data) \in Nat /\ EndOf(e) = e.at + 1 + Len(e.data)
    BY ElementFields DEF EndOf
  <2>2. Len(e.data) >= 1
    BY <1>1, <1>3, <1>4, TilesInside
  <2> QED BY <1>7, <1>8, <2>1, <2>2
<1>10. Named(id, First(f.top[2].data, m)) = <<CutOf(Sections(f)[i], f.top[2].data, 0, m)>>
  <2>1. Sections(f)[i].at + 2 <= m
    BY <1>4, <1>9
  <2> QED BY <1>1, <1>3, <2>1, NamedSole
<1>11. PICK c : c = CutOf(e, f.top[2].data, 0, m) /\ c.data = e.data
  BY <1>7, <1>8, CutWhole
<1>12. \A x : NamedIn(x, Named(id, SegmentData(HeadBytes(f)))) = Named(x, e.data)
  <2> TAKE x
  <2>1. Named(id, SegmentData(HeadBytes(f))) = <<c>>
    BY <1>4, <1>7, <1>10, <1>11
  <2>2. NamedIn(x, <<c>>) = Named(x, c.data)
    BY <1>6, <1>11, NamedInOne
  <2> QED BY <1>11, <2>1, <2>2
<1> QED BY <1>3, <1>4, <1>6, <1>12

\* The elements in such a section.
LEMMA InElement ==
  ASSUME NEW f \in FileType, Sound(f), NEW id \in {Id.SeekHead, Id.Info, Id.Tracks},
         NEW j \in DOMAIN Part(id, Sections(f)).kids,
         Part(id, Sections(f)).kids[j].id \in Master
  PROVE  /\ Part(id, Sections(f)).kids[j].data \in Seq(Bytes)
         /\ Part(id, Sections(f)).kids[j].kids \in Seq(Element(Leaf))
         /\ Tiles(Part(id, Sections(f)).kids[j].kids, Part(id, Sections(f)).kids[j].data)
<1>1. PICK i \in DOMAIN Sections(f) : Part(id, Sections(f)) = Sections(f)[i]
  BY InSection
<1> QED BY <1>1, SoundLevels

-----------------------------------------------------------------------------
(* The cues of a sound file, as they are read.                             *)

CuesOf(f)  == Part(Id.Cues, Sections(f))
CuesPos(f) == DataStart(f) + CuesOf(f).at - 1

LEMMA CuesLevels ==
  ASSUME NEW f \in FileType, Sound(f)
  PROVE  /\ CuesOf(f) \in Element(Point) /\ CuesOf(f).data \in Seq(Bytes)
         /\ Len(CuesOf(f).data) \in Nat
         /\ Points(f) = CuesOf(f).kids /\ Points(f) \in Seq(Element(Positions))
         /\ Tiles(Points(f), CuesOf(f).data)
         /\ \A j \in DOMAIN Points(f) :
              /\ Points(f)[j] \in Element(Positions) /\ Points(f)[j].data \in Seq(Bytes)
              /\ Points(f)[j].kids \in Seq(Element(Leaf))
              /\ Points(f)[j].id \in Master => Tiles(Points(f)[j].kids, Points(f)[j].data)
              /\ \A k \in DOMAIN Points(f)[j].kids :
                   LET c == Points(f)[j].kids[k]
                   IN  /\ c \in Element(Leaf) /\ c.data \in Seq(Bytes)
                       /\ c.kids \in Seq(Element({}))
                       /\ c.id \in Master => Tiles(c.kids, c.data)
         /\ CuesOf(f).id = Id.Cues
         /\ \E i \in DOMAIN Sections(f) : CuesOf(f) = Sections(f)[i]
<1>1. Sections(f) \in Seq(Element(Point)) /\ Sole(Id.Cues, Sections(f))
  BY SoundLevels DEF Sound
<1>2. PICK i \in DOMAIN Sections(f) : /\ CuesOf(f) = Sections(f)[i]
                                      /\ Sections(f)[i] \in Element(Point)
                                      /\ Sections(f)[i].id = Id.Cues
  BY <1>1, SoleIsPart DEF CuesOf
<1>3. Id.Cues \in Master
  BY DEF Master
<1>4. Points(f) = CuesOf(f).kids
  BY DEF Points, CuesOf
<1>5. CuesOf(f).data \in Seq(Bytes) /\ Len(CuesOf(f).data) \in Nat
  BY <1>2, ElementFields
<1>6. /\ Points(f) \in Seq(Element(Positions)) /\ Tiles(Points(f), CuesOf(f).data)
      /\ \A j \in DOMAIN Points(f) :
              /\ Points(f)[j] \in Element(Positions) /\ Points(f)[j].data \in Seq(Bytes)
              /\ Points(f)[j].kids \in Seq(Element(Leaf))
              /\ Points(f)[j].id \in Master => Tiles(Points(f)[j].kids, Points(f)[j].data)
              /\ \A k \in DOMAIN Points(f)[j].kids :
                   LET c == Points(f)[j].kids[k]
                   IN  /\ c \in Element(Leaf) /\ c.data \in Seq(Bytes)
                       /\ c.kids \in Seq(Element({}))
                       /\ c.id \in Master => Tiles(c.kids, c.data)
  BY <1>2, <1>3, <1>4, SoundLevels
<1> QED BY <1>2, <1>4, <1>5, <1>6

\* They end in the file.
LEMMA CuesEnd ==
  ASSUME NEW f \in FileType, Sound(f)
  PROVE  /\ CuesPos(f) \in Nat /\ CuesPos(f) = DataStart(f) + CuesOf(f).at - 1
         /\ Len(CuesOf(f).data) >= 1 /\ CuesPos(f) + 2 + Len(CuesOf(f).data) <= Len(f.bytes)
<1>1. PICK c \in Element(Point) : c = CuesOf(f) /\ \E i \in DOMAIN Sections(f) : c = Sections(f)[i]
  BY CuesLevels
<1>2. /\ Sections(f) \in Seq(Element(Point)) /\ f.top[2].data \in Seq(Bytes)
      /\ Tiles(Sections(f), f.top[2].data)
  BY SoundLevels
<1>3. Len(c.data) >= 1 /\ EndOf(c) <= Len(f.top[2].data)
  <2>1. PICK i \in 1 .. Len(Sections(f)) : c = Sections(f)[i]
    <3>1. DOMAIN Sections(f) = 1 .. Len(Sections(f))
      BY <1>2
    <3> QED BY <1>1, <3>1
  <2> QED BY <1>2, <2>1, TilesInside
<1>4. PICK at \in Nat, len \in Nat : /\ at = c.at /\ len = Len(c.data) /\ at >= 1 /\ len >= 1
                                     /\ EndOf(c) = at + 1 + len
  BY <1>3, ElementFields DEF EndOf
<1>5. PICK start \in Nat, total \in Nat, size \in Nat :
        /\ start = DataStart(f) /\ total = Len(f.bytes) /\ size = Len(f.top[2].data)
        /\ total = start + size
  <2>1. Len(f.bytes) \in Nat /\ Len(f.top[2].data) \in Nat
    BY <1>2, SoundLevels, BufferType
  <2> QED BY <2>1, HeadOf
<1>6. /\ at \in Nat /\ len \in Nat /\ start \in Nat /\ size \in Nat /\ at >= 1
      /\ total = start + size /\ at + 1 + len <= size
  BY <1>3, <1>4, <1>5
<1>7. PICK pos \in Nat : pos = start + at - 1 /\ pos + 2 + len <= total
  BY ONLY <1>6
<1> QED BY <1>1, <1>4, <1>5, <1>7 DEF CuesPos

\* q bytes at the place of the cues.
CuesBytes(f, q) == SubSeq(f.bytes, CuesPos(f) + 1, CuesPos(f) + q)

\* What is read at the place of the cues, when q bytes came of no more than there are.
LEMMA AtCues ==
  ASSUME NEW f \in FileType, Sound(f), NEW q \in Nat, CuesPos(f) + q <= Len(f.bytes)
  PROVE  /\ CuesPos(f) \in Nat
         /\ Len(CuesOf(f).data) >= 1 /\ CuesPos(f) + 2 + Len(CuesOf(f).data) <= Len(f.bytes)
         /\ CuesBytes(f, q) \in Seq(Bytes) /\ Len(CuesBytes(f, q)) = q
         /\ q >= 1 => CuesBytes(f, q)[1] = Id.Cues
         /\ q >= 2 => CuesBytes(f, q)[2] = Len(CuesOf(f).data)
         /\ q <= 2 => SubSeq(CuesBytes(f, q), 3, Len(CuesBytes(f, q))) = First(CuesOf(f).data, 0)
         /\ q > 2 /\ q - 2 <= Len(CuesOf(f).data) =>
              SubSeq(CuesBytes(f, q), 3, Len(CuesBytes(f, q))) = First(CuesOf(f).data, q - 2)
<1>1. /\ f.bytes \in Seq(Bytes) /\ f.top \in Seq(Element(Section)) /\ Len(f.top) = 2
      /\ Tiles(f.top, f.bytes) /\ f.top[2] \in Element(Section)
      /\ Sections(f) \in Seq(Element(Point)) /\ f.top[2].data \in Seq(Bytes)
      /\ Tiles(Sections(f), f.top[2].data)
  BY SoundLevels
<1>2. PICK c \in Element(Point) : /\ c = CuesOf(f) /\ c.data \in Seq(Bytes) /\ c.id = Id.Cues
                                  /\ \E i \in DOMAIN Sections(f) : c = Sections(f)[i]
  BY CuesLevels
<1>3. PICK i \in 1 .. Len(Sections(f)) : c = Sections(f)[i]
  <2>1. DOMAIN Sections(f) = 1 .. Len(Sections(f))
    BY <1>1
  <2> QED BY <1>2, <2>1
<1>4. /\ Len(c.data) >= 1 /\ EndOf(c) <= Len(f.top[2].data) /\ f.top[2].data[c.at] = c.id
      /\ SubSeq(f.top[2].data, c.at + 2, EndOf(c)) = c.data
  BY <1>1, <1>3, TilesInside
<1>5. PICK data \in Seq(Bytes) : data = f.top[2].data
  BY <1>1
<1>6. PICK at \in Nat, len \in Nat : /\ at = c.at /\ len = Len(c.data) /\ at >= 1 /\ len >= 1
                                     /\ EndOf(c) = at + 1 + len
  BY <1>4, ElementFields DEF EndOf
<1>7. PICK start \in Nat, total \in Nat, size \in Nat :
        /\ start = DataStart(f) /\ total = Len(f.bytes) /\ size = Len(data)
        /\ total = start + size
  <2>1. Len(f.bytes) \in Nat /\ Len(data) \in Nat
    BY <1>1, BufferType
  <2> QED BY <1>5, <2>1, HeadOf
<1>8. PICK pos \in Nat : /\ pos = CuesPos(f) /\ pos = start + at - 1 /\ pos + 1 = start + at
                         /\ pos + 2 + len <= total /\ at + 1 + len <= size /\ pos + q <= total
  <2>1. CuesPos(f) = start + at - 1
    BY <1>2, <1>6, <1>7 DEF CuesPos
  <2>2. at + 1 + len <= size /\ CuesPos(f) + q <= total
    BY <1>4, <1>5, <1>6, <1>7
  <2>3. /\ at \in Nat /\ len \in Nat /\ start \in Nat /\ total \in Nat /\ size \in Nat /\ q \in Nat
        /\ at >= 1 /\ total = start + size /\ at + 1 + len <= size
    BY <1>6, <1>7, <2>2
  <2>4. PICK pos \in Nat : pos = start + at - 1 /\ pos + 1 = start + at /\ pos + 2 + len <= total
    BY ONLY <2>3
  <2> QED BY <2>1, <2>2, <2>4
<1>m. /\ at \in Nat /\ len \in Nat /\ start \in Nat /\ total \in Nat /\ size \in Nat /\ q \in Nat
      /\ pos \in Nat /\ at >= 1 /\ len >= 1 /\ total = start + size
      /\ pos = start + at - 1 /\ pos + 1 = start + at
      /\ pos + 2 + len <= total /\ at + 1 + len <= size /\ pos + q <= total
  BY <1>6, <1>7, <1>8
<1>b. f.bytes \in Seq(Bytes) /\ Len(f.bytes) = total /\ Len(data) = size
      /\ \A n \in 1 .. total : f.bytes[n] \in Bytes
  BY <1>1, <1>7, BufferType
<1>g. PICK got : got = CuesBytes(f, q) /\ got = SubSeq(f.bytes, pos + 1, pos + q)
  BY <1>8 DEF CuesBytes
<1>9. data = SubSeq(f.bytes, start + 1, total)
  <2>1. 2 \in 1 .. Len(f.top) /\ 2 = Len(f.top)
    BY <1>1
  <2>2. SubSeq(f.bytes, f.top[2].at + 2, EndOf(f.top[2])) = f.top[2].data
    BY <1>1, <2>1, TilesInside, ZenonT(30)
  <2>3. Len(f.bytes) = EndOf(f.top[2])
    BY <1>1, <2>1, TilesInside, ZenonT(30)
  <2>4. f.top[2].at + 2 = start + 1
    <3>1. f.top[2].at \in Nat
      BY <1>1, ElementFields
    <3>2. start = f.top[2].at + 1
      BY <1>7 DEF DataStart
    <3> QED BY ONLY <3>1, <3>2
  <2> QED BY <1>5, <1>7, <2>2, <2>3, <2>4
<1>10. \A n \in 1 .. size : data[n] = f.bytes[start + n]
  <2>1. \A n \in (start + 1) .. total : f.bytes[n] \in Bytes
    <3>1. \A n \in (start + 1) .. total : n \in 1 .. total
      BY ONLY <1>m
    <3> QED BY <1>b, <3>1
  <2>2. \A n \in 1 .. (total - (start + 1) + 1) :
          SubSeq(f.bytes, start + 1, total)[n] = f.bytes[start + 1 + n - 1]
    <3>1. start + 1 \in Int /\ total \in Int
      BY ONLY <1>m
    <3> QED BY <2>1, <3>1, SubSeqProperties
  <2>3. total - (start + 1) + 1 = size /\ \A n \in Nat : start + 1 + n - 1 = start + n
    BY ONLY <1>m
  <2> QED BY <1>9, <2>2, <2>3
<1>11. got \in Seq(Bytes) /\ Len(got) = q /\ \A n \in 1 .. q : got[n] = f.bytes[pos + n]
  <2>1. \A n \in (pos + 1) .. (pos + q) : f.bytes[n] \in Bytes
    <3>1. \A n \in (pos + 1) .. (pos + q) : n \in 1 .. total
      BY ONLY <1>m
    <3> QED BY <1>b, <3>1
  <2>2. /\ SubSeq(f.bytes, pos + 1, pos + q) \in Seq(Bytes)
        /\ Len(SubSeq(f.bytes, pos + 1, pos + q)) = IF pos + 1 <= pos + q THEN pos + q - (pos + 1) + 1 ELSE 0
        /\ \A n \in 1 .. (pos + q - (pos + 1) + 1) :
             SubSeq(f.bytes, pos + 1, pos + q)[n] = f.bytes[pos + 1 + n - 1]
    <3>1. pos + 1 \in Int /\ pos + q \in Int
      BY ONLY <1>m
    <3> QED BY <2>1, <3>1, SubSeqProperties
  <2>3. pos + q - (pos + 1) + 1 = q /\ (~(pos + 1 <= pos + q) => q = 0)
        /\ \A n \in Nat : pos + 1 + n - 1 = pos + n
    BY ONLY <1>m
  <2> QED BY <1>g, <2>2, <2>3
<1>12. q >= 1 => got[1] = Id.Cues
  <2>1. at \in 1 .. size
    BY ONLY <1>m
  <2>2. data[at] = Id.Cues
    BY <1>2, <1>4, <1>5, <1>6
  <2>3. q >= 1 => 1 \in 1 .. q
    OBVIOUS
  <2> QED BY <1>m, <1>10, <1>11, <2>1, <2>2, <2>3
<1>13. q >= 2 => got[2] = len
  <2>1. at + 1 \in 1 .. size /\ start + (at + 1) = pos + 2
    BY ONLY <1>m
  <2>2. data[at + 1] = len
    BY <1>2, <1>5, <1>6 DEF Sound, CuesOf
  <2>3. q >= 2 => 2 \in 1 .. q
    OBVIOUS
  <2> QED BY <1>10, <1>11, <2>1, <2>2, <2>3, ZenonT(30)
<1>14. ASSUME q <= 2 PROVE SubSeq(got, 3, Len(got)) = First(c.data, 0)
  <2>1. SubSeq(got, 3, q) = <<>>
    BY <1>11, <1>14, SubSeqEmpty
  <2>2. SubSeq(c.data, 1, 0) = <<>>
    BY SubSeqEmpty
  <2> QED BY <1>11, <2>1, <2>2 DEF First
<1>15. ASSUME q > 2, q - 2 <= len PROVE SubSeq(got, 3, Len(got)) = First(c.data, q - 2)
  <2>0. PICK p \in Nat : p = q - 2 /\ p + 2 = q /\ p <= len
    BY <1>15
  <2>1. SubSeq(SubSeq(f.bytes, pos + 1, pos + q), 3, q) = SubSeq(f.bytes, pos + 1 - 1 + 3, pos + 1 - 1 + q)
    <3>1. /\ pos + 1 \in Nat \ {0} /\ pos + q \in Nat /\ pos + q <= Len(f.bytes) /\ 3 \in Nat \ {0}
          /\ pos + 1 - 1 + q <= pos + q
      <4>1. /\ pos + 1 \in Nat \ {0} /\ pos + q \in Nat /\ pos + q <= total /\ 3 \in Nat \ {0}
            /\ pos + 1 - 1 + q <= pos + q
        BY ONLY <1>m
      <4> QED BY <1>b, <4>1
    <3> QED BY <1>b, <3>1, PartOfPart
  <2>2. SubSeq(SubSeq(data, at + 2, at + 1 + len), 1, p) = SubSeq(data, at + 2 - 1 + 1, at + 2 - 1 + p)
    <3>1. /\ at + 2 \in Nat \ {0} /\ at + 1 + len \in Nat /\ at + 1 + len <= Len(data) /\ 1 \in Nat \ {0}
          /\ at + 2 - 1 + p <= at + 1 + len
      <4>1. /\ at + 2 \in Nat \ {0} /\ at + 1 + len \in Nat /\ at + 1 + len <= size /\ 1 \in Nat \ {0}
            /\ at + 2 - 1 + p <= at + 1 + len
        BY <1>m, <2>0
      <4> QED BY <1>b, <4>1
    <3> QED BY <3>1, PartOfPart
  <2>3. SubSeq(SubSeq(f.bytes, start + 1, total), at + 2 - 1 + 1, at + 2 - 1 + p)
          = SubSeq(f.bytes, start + 1 - 1 + (at + 2 - 1 + 1), start + 1 - 1 + (at + 2 - 1 + p))
    <3>1. /\ start + 1 \in Nat \ {0} /\ total <= Len(f.bytes) /\ at + 2 - 1 + 1 \in Nat \ {0}
          /\ at + 2 - 1 + p \in Nat /\ start + 1 - 1 + (at + 2 - 1 + p) <= total /\ total \in Nat
      <4>1. p \in Nat /\ p <= len
        BY <2>0
      <4>2. /\ start + 1 \in Nat \ {0} /\ at + 2 - 1 + 1 \in Nat \ {0}
            /\ at + 2 - 1 + p \in Nat /\ start + 1 - 1 + (at + 2 - 1 + p) <= total
        BY ONLY <1>m, <4>1
      <4> QED BY <1>b, <1>m, <4>2
    <3> QED BY <1>b, <3>1, PartOfPart
  <2>4. /\ start + 1 - 1 + (at + 2 - 1 + 1) = pos + 1 - 1 + 3
        /\ start + 1 - 1 + (at + 2 - 1 + p) = pos + 1 - 1 + q
    BY <1>m, <2>0
  <2>5. SubSeq(data, at + 2, at + 1 + len) = c.data
    BY <1>4, <1>5, <1>6
  <2>6. SubSeq(c.data, 1, p) = SubSeq(f.bytes, pos + 1 - 1 + 3, pos + 1 - 1 + q)
    BY <1>9, <2>2, <2>3, <2>4, <2>5
  <2>7. got = SubSeq(f.bytes, pos + 1, pos + q)
    BY <1>g
  <2> QED BY <1>11, <2>0, <2>1, <2>6, <2>7 DEF First
<1> QED BY <1>2, <1>6, <1>7, <1>8, <1>g, <1>11, <1>12, <1>13, <1>14, <1>15

-----------------------------------------------------------------------------
(* What is learnt from the header of a sound file.                         *)

\* parse_segment_info and parse_cues_location are right about a sound file.
LEMMA HeaderIsRight ==
  ASSUME NEW f \in FileType, Sound(f)
  PROVE  /\ TimestampScale(HeadBytes(f)) = Scale(f) /\ VideoTrack(HeadBytes(f)) = VideoNumber(f)
         /\ CuesAt(HeadBytes(f)) = DataStart(f) + Part(Id.Cues, Sections(f)).at - 1
         /\ FindsCues(HeadBytes(f)) /\ ~ReadsBefore(HeadBytes(f))
<1> DEFINE buf == HeadBytes(f)
<1>0. SegmentStart(buf) # -1 /\ SegmentStart(buf) = DataStart(f) /\ DataStart(f) \in Nat
  BY HeadOf
<1> HIDE DEF buf
<1>1. TimestampScale(buf) = Scale(f)
  <2> DEFINE e == Part(Id.Info, Sections(f))
  <2>0. Id.Info \in {Id.SeekHead, Id.Info, Id.Tracks}
    OBVIOUS
  <2>1. /\ e.data \in Seq(Bytes) /\ e.kids \in Seq(Element(Positions)) /\ Tiles(e.kids, e.data)
        /\ NamedIn(Id.TimestampScale, Named(Id.Info, SegmentData(buf))) = Named(Id.TimestampScale, e.data)
    BY <2>0, InSection DEF buf
  <2>2. Places(Id.TimestampScale, e.kids) = {} \/ Sole(Id.TimestampScale, e.kids)
    BY DEF Sound
  <2>3. Scale(f) = IF Places(Id.TimestampScale, e.kids) = {} THEN ScaleUnit
                   ELSE Value(Id.TimestampScale, e.kids)
    BY DEF Scale
  <2> HIDE DEF e
  <2>4. CASE Places(Id.TimestampScale, e.kids) = {}
    <3>1. Named(Id.TimestampScale, First(e.data, Len(e.data))) = <<>>
      BY <2>1, <2>4, FirstFull, NamedNone
    <3>2. Named(Id.TimestampScale, e.data) = <<>>
      BY <2>1, <3>1, FirstFull
    <3> QED BY <2>1, <2>3, <2>4, <3>2 DEF TimestampScale
  <2>5. CASE Sole(Id.TimestampScale, e.kids) /\ Places(Id.TimestampScale, e.kids) # {}
    <3>0. Id.TimestampScale \in Numeric
      BY DEF Numeric
    <3>1. /\ Named(Id.TimestampScale, e.data) # <<>>
          /\ Number(Id.TimestampScale, e.data, 0) = Value(Id.TimestampScale, e.kids)
          /\ Value(Id.TimestampScale, e.kids) \in 0 .. Limit(Id.TimestampScale)
      BY <2>1, <2>5, <3>0, NumberSole
    <3>2. Uint(FinalOf(Named(Id.TimestampScale, e.data)).data) = Value(Id.TimestampScale, e.kids)
      BY <3>1, NumberIsFinal
    <3>3. AsLong(Value(Id.TimestampScale, e.kids)) = Value(Id.TimestampScale, e.kids)
      BY <3>1, LimitKept
    <3> QED BY <1>0, <2>1, <2>3, <2>5, <3>1, <3>2, <3>3 DEF TimestampScale
  <2> QED BY <2>2, <2>4, <2>5
<1>2. VideoTrack(buf) = VideoNumber(f)
  <2> DEFINE e == Part(Id.Tracks, Sections(f))
  <2>0. Id.Tracks \in {Id.SeekHead, Id.Info, Id.Tracks}
    OBVIOUS
  <2>1. /\ e.data \in Seq(Bytes) /\ e.kids \in Seq(Element(Positions)) /\ Tiles(e.kids, e.data)
        /\ NamedIn(Id.TrackEntry, Named(Id.Tracks, SegmentData(buf))) = Named(Id.TrackEntry, e.data)
    BY <2>0, InSection DEF buf
  <2>2. Movie(f) = e.kids
    BY DEF Movie
  <2>3. PICK n \in DOMAIN e.kids : VideoTracks(f) = {n}
    BY <2>2 DEF Sound
  <2>4. VideoNumber(f) = Value(Id.TrackNumber, e.kids[n].kids)
    <3>1. (CHOOSE x \in VideoTracks(f) : TRUE) = n
      BY <2>3
    <3> QED BY <2>2, <3>1 DEF VideoNumber
  <2>5. ASSUME NEW i \in DOMAIN e.kids, e.kids[i].id = Id.TrackEntry
        PROVE  /\ e.kids[i].data \in Seq(Bytes)
               /\ AsInt(Number(Id.TrackNumber, e.kids[i].data, 0))
                    = Value(Id.TrackNumber, e.kids[i].kids)
               /\ AsInt(Number(Id.TrackType, e.kids[i].data, 0)) = Value(Id.TrackType, e.kids[i].kids)
               /\ Value(Id.TrackNumber, e.kids[i].kids) > 0
               /\ Value(Id.TrackType, e.kids[i].kids) = 1 <=> i = n
    <3>1. i \in Places(Id.TrackEntry, Movie(f))
      BY <2>2, <2>5 DEF Places
    <3>2. /\ Sole(Id.TrackNumber, e.kids[i].kids) /\ Sole(Id.TrackType, e.kids[i].kids)
          /\ Value(Id.TrackNumber, e.kids[i].kids) > 0
      BY <2>2, <3>1 DEF Sound
    <3>3. e.kids[i].id \in Master
      BY <2>5 DEF Master
    <3>4. /\ e.kids[i].data \in Seq(Bytes) /\ e.kids[i].kids \in Seq(Element(Leaf))
          /\ Tiles(e.kids[i].kids, e.kids[i].data)
      BY <2>0, <2>5, <3>3, InElement
    <3> HIDE DEF e
    <3>5. ASSUME NEW id \in {Id.TrackNumber, Id.TrackType}
          PROVE  AsInt(Number(id, e.kids[i].data, 0)) = Value(id, e.kids[i].kids)
      <4>1. id \in Numeric /\ Limit(id) = MaxInt /\ Sole(id, e.kids[i].kids)
        BY <3>2 DEF Numeric, Limit
      <4>2. /\ Number(id, e.kids[i].data, 0) = Value(id, e.kids[i].kids)
            /\ Value(id, e.kids[i].kids) \in 0 .. Limit(id)
        BY <3>4, <4>1, NumberSole
      <4> QED BY <4>1, <4>2, LimitKept
    <3>6. Value(Id.TrackType, e.kids[i].kids) = 1 <=> i \in VideoTracks(f)
      BY <2>2, <2>5 DEF VideoTracks
    <3> QED BY <2>3, <3>2, <3>4, <3>5, <3>6
  <2>6. e.kids[n].id = Id.TrackEntry
    BY <2>2, <2>3 DEF VideoTracks
  <2> HIDE DEF e
  <2>7. PICK r \in Seq(Child) : r = Named(Id.TrackEntry, e.data)
    BY <2>1, NamedType
  <2>8. PICK h : Shows(h, r, e.kids, e.data, Len(e.data), Id.TrackEntry)
    <3>1. \E h : Shows(h, Named(Id.TrackEntry, First(e.data, Len(e.data))), e.kids, e.data,
                       Len(e.data), Id.TrackEntry)
      BY <2>1, FirstFull, NamedShows
    <3> QED BY <2>1, <2>7, <3>1, FirstFull
  <2> DEFINE P == {j \in DOMAIN r : IsVideo(r[j]) /\ TrackNumber(r[j]) > 0}
  <2>9. \A j \in DOMAIN r : j \in P <=> h[j] = n
    <3> TAKE j \in DOMAIN r
    <3>1. /\ h[j] \in DOMAIN e.kids /\ e.kids[h[j]].id = Id.TrackEntry
          /\ r[j] = CutOf(e.kids[h[j]], e.data, 0, Len(e.data))
      BY <2>8 DEF Shows
    <3>2. r[j].data = e.kids[h[j]].data
      BY <2>1, <3>1, WholeShown
    <3>3. (IsVideo(r[j]) <=> h[j] = n) /\ TrackNumber(r[j]) > 0
      BY <2>5, <3>1, <3>2 DEF IsVideo, TrackNumber
    <3> QED BY <3>3
  <2>10. VideoTrack(buf) = IF Only(r, P) = <<>> THEN 1 ELSE TrackNumber(FinalOf(Only(r, P)))
    <3>1. TrackEntries(buf) = r
      BY <1>0, <2>1, <2>7 DEF TrackEntries
    <3> QED BY <3>1 DEF VideoTrack, LastOf
  <2> HIDE DEF P
  <2>11. PICK j \in DOMAIN r : Only(r, P) = <<r[j]>> /\ r[j].data = e.kids[n].data
    <3>1. PICK kids, data : kids = e.kids /\ data = e.data
      OBVIOUS
    <3>2. /\ kids \in Seq(Element(Positions)) /\ data \in Seq(Bytes) /\ Tiles(kids, data)
          /\ n \in DOMAIN kids
      BY <2>1, <3>1
    <3>3. Shows(h, r, kids, data, Len(data), kids[n].id)
      BY <2>6, <2>8, <3>1
    <3>4. \E j \in DOMAIN r : Only(r, P) = <<r[j]>> /\ r[j].data = kids[n].data
      BY <2>9, <3>2, <3>3, UniqueShown, SMTT(30)
    <3> QED BY <3>1, <3>4
  <2>12. <<r[j]>> # <<>> /\ FinalOf(<<r[j]>>) = r[j]
    BY DEF FinalOf
  <2> QED BY <2>4, <2>5, <2>6, <2>10, <2>11, <2>12 DEF TrackNumber
<1>3. /\ CuesAt(buf) = DataStart(f) + Part(Id.Cues, Sections(f)).at - 1
      /\ FindsCues(buf) /\ ~ReadsBefore(buf)
  <2> DEFINE e == Part(Id.SeekHead, Sections(f))
  <2>0. Id.SeekHead \in {Id.SeekHead, Id.Info, Id.Tracks}
    OBVIOUS
  <2>1. /\ e.data \in Seq(Bytes) /\ e.kids \in Seq(Element(Positions)) /\ Tiles(e.kids, e.data)
        /\ NamedIn(Id.Seek, Named(Id.SeekHead, SegmentData(buf))) = Named(Id.Seek, e.data)
    BY <2>0, InSection DEF buf
  <2>2. SeekHead(f) = e.kids
    BY DEF SeekHead
  <2>3. PICK n \in DOMAIN e.kids :
          /\ CuesSeeks(f) = {n}
          /\ Value(Id.SeekPosition, e.kids[n].kids) = Part(Id.Cues, Sections(f)).at - 1
    BY <2>2 DEF Sound
  <2>5. ASSUME NEW i \in DOMAIN e.kids, e.kids[i].id = Id.Seek
        PROVE  /\ e.kids[i].data \in Seq(Bytes)
               /\ Number(Id.SeekID, e.kids[i].data, 0) = Value(Id.SeekID, e.kids[i].kids)
               /\ Number(Id.SeekPosition, e.kids[i].data, 0) = Value(Id.SeekPosition, e.kids[i].kids)
               /\ Value(Id.SeekPosition, e.kids[i].kids) \in 0 .. Limit(Id.SeekPosition)
               /\ Named(Id.SeekPosition, e.kids[i].data) # <<>>
               /\ Value(Id.SeekID, e.kids[i].kids) = Id.Cues <=> i = n
    <3>1. i \in Places(Id.Seek, SeekHead(f))
      BY <2>2, <2>5 DEF Places
    <3>2. Sole(Id.SeekID, e.kids[i].kids) /\ Sole(Id.SeekPosition, e.kids[i].kids)
      BY <2>2, <3>1 DEF Sound
    <3>3. e.kids[i].id \in Master
      BY <2>5 DEF Master
    <3>4. /\ e.kids[i].data \in Seq(Bytes) /\ e.kids[i].kids \in Seq(Element(Leaf))
          /\ Tiles(e.kids[i].kids, e.kids[i].data)
      BY <2>0, <2>5, <3>3, InElement
    <3> HIDE DEF e
    <3>5. /\ Number(Id.SeekID, e.kids[i].data, 0) = Value(Id.SeekID, e.kids[i].kids)
          /\ Number(Id.SeekPosition, e.kids[i].data, 0) = Value(Id.SeekPosition, e.kids[i].kids)
          /\ Value(Id.SeekPosition, e.kids[i].kids) \in 0 .. Limit(Id.SeekPosition)
          /\ Named(Id.SeekPosition, e.kids[i].data) # <<>>
      <4>1. Id.SeekID \in Numeric /\ Id.SeekPosition \in Numeric
        BY DEF Numeric
      <4> QED BY <3>2, <3>4, <4>1, NumberSole
    <3>6. Value(Id.SeekID, e.kids[i].kids) = Id.Cues <=> i \in CuesSeeks(f)
      BY <2>2, <2>5 DEF CuesSeeks
    <3> QED BY <2>3, <3>2, <3>4, <3>5, <3>6
  <2>6. e.kids[n].id = Id.Seek
    BY <2>2, <2>3 DEF CuesSeeks
  <2> HIDE DEF e
  <2>7. PICK r \in Seq(Child) : r = Named(Id.Seek, e.data)
    BY <2>1, NamedType
  <2>8. PICK h : Shows(h, r, e.kids, e.data, Len(e.data), Id.Seek)
    <3>1. \E h : Shows(h, Named(Id.Seek, First(e.data, Len(e.data))), e.kids, e.data,
                       Len(e.data), Id.Seek)
      BY <2>1, FirstFull, NamedShows
    <3> QED BY <2>1, <2>7, <3>1, FirstFull
  <2> DEFINE P == {j \in DOMAIN r : /\ Number(Id.SeekID, r[j].data, 0) = Id.Cues
                                    /\ Named(Id.SeekPosition, r[j].data) # <<>>}
  <2>9. \A j \in DOMAIN r : j \in P <=> h[j] = n
    <3> TAKE j \in DOMAIN r
    <3>1. /\ h[j] \in DOMAIN e.kids /\ e.kids[h[j]].id = Id.Seek
          /\ r[j] = CutOf(e.kids[h[j]], e.data, 0, Len(e.data))
      BY <2>8 DEF Shows
    <3>2. r[j].data = e.kids[h[j]].data
      BY <2>1, <3>1, WholeShown
    <3>3. /\ Number(Id.SeekID, r[j].data, 0) = Id.Cues <=> h[j] = n
          /\ Named(Id.SeekPosition, r[j].data) # <<>>
      BY <2>5, <3>1, <3>2
    <3> QED BY <3>3
  <2>10. SeeksOfCues(buf) = Only(r, P)
    BY <2>1, <2>7 DEF SeeksOfCues
  <2> HIDE DEF P
  <2>11. PICK j \in DOMAIN r : Only(r, P) = <<r[j]>> /\ r[j].data = e.kids[n].data
    <3>1. PICK kids, data : kids = e.kids /\ data = e.data
      OBVIOUS
    <3>2. /\ kids \in Seq(Element(Positions)) /\ data \in Seq(Bytes) /\ Tiles(kids, data)
          /\ n \in DOMAIN kids
      BY <2>1, <3>1
    <3>3. Shows(h, r, kids, data, Len(data), kids[n].id)
      BY <2>6, <2>8, <3>1
    <3>4. \E j \in DOMAIN r : Only(r, P) = <<r[j]>> /\ r[j].data = kids[n].data
      BY <2>9, <3>2, <3>3, UniqueShown, SMTT(30)
    <3> QED BY <3>1, <3>4
  <2>12. <<r[j]>> # <<>> /\ FinalOf(<<r[j]>>) = r[j]
    BY DEF FinalOf
  <2>13. PICK pos \in Nat : /\ pos = Value(Id.SeekPosition, e.kids[n].kids) /\ AsLong(pos) = pos
                            /\ pos = Number(Id.SeekPosition, r[j].data, 0)
    BY <2>5, <2>6, <2>11, LimitKept
  <2>14. Part(Id.Cues, Sections(f)).at \in Nat
    <3>1. Sections(f) \in Seq(Element(Point)) /\ Sole(Id.Cues, Sections(f))
      BY SoundLevels DEF Sound
    <3>2. Part(Id.Cues, Sections(f)) \in Element(Point)
      BY <3>1, SoleIsPart
    <3> QED BY <3>2, ElementFields
  <2>15. PICK at \in Nat : at = Part(Id.Cues, Sections(f)).at /\ pos = at - 1
    BY <2>3, <2>13, <2>14
  <2>16. DataStart(f) + pos \in Nat /\ AsLong(DataStart(f) + pos) = DataStart(f) + pos
    <3>1. CuesPos(f) \in Nat /\ CuesPos(f) + 2 + Len(CuesOf(f).data) <= Len(f.bytes)
          /\ Len(CuesOf(f).data) \in Nat /\ Len(f.bytes) \in MinHeader .. MaxLong
      BY CuesEnd, CuesLevels DEF Sound
    <3>2. CuesPos(f) <= MaxLong
      BY <3>1, FileAssumption
    <3>3. DataStart(f) + pos = CuesPos(f)
      BY <1>0, <2>15, SMTT(30) DEF CuesPos, CuesOf
    <3>4. DataStart(f) + pos \in Nat /\ DataStart(f) + pos <= MaxLong
      BY <3>1, <3>2, <3>3
    <3>5. DataStart(f) + pos \in Long
      BY <3>4, FileAssumption DEF Long
    <3> QED BY <3>4, <3>5, AsLongRange
  <2>17. PlaceOf(r[j], buf) = DataStart(f) + pos
    BY <1>0, <2>13, <2>16 DEF PlaceOf
  <2>18. SeeksOfCues(buf) = <<r[j]>>
    BY <2>10, <2>11
  <2>19. CuesAt(buf) = DataStart(f) + pos /\ FindsCues(buf)
    BY <1>0, <2>12, <2>17, <2>18 DEF CuesAt, FindsCues
  <2>20. ~ReadsBefore(buf)
    <3>1. DOMAIN <<r[j]>> = {1} /\ <<r[j]>>[1] = r[j]
      OBVIOUS
    <3>2. ~(DataStart(f) + pos < 0)
      BY <2>16
    <3> QED BY <2>17, <2>18, <3>1, <3>2 DEF ReadsBefore
  <2>21. DataStart(f) + pos = DataStart(f) + Part(Id.Cues, Sections(f)).at - 1
    BY <1>0, <2>15
  <2> QED BY <2>19, <2>20, <2>21
<1> QED BY <1>1, <1>2, <1>3 DEF buf

-----------------------------------------------------------------------------
(* A cue point, of which the last bytes may be missing.                    *)

\* The number of the sole child with an id, when its bytes are there, and the default
\* when none of them are.
LEMMA NumberCut ==
  ASSUME NEW K, NEW es \in Seq(Element(K)), NEW buf \in Seq(Bytes), Tiles(es, buf),
         NEW id \in Numeric, Sole(id, es), NEW m \in 0 .. Len(buf), NEW default
  PROVE  /\ EndOf(Part(id, es)) <= m => Number(id, First(buf, m), default) = Value(id, es)
         /\ ~(Part(id, es).at + 2 <= m) => /\ Named(id, First(buf, m)) = <<>>
                                           /\ Number(id, First(buf, m), default) = default
<1>1. PICK n \in DOMAIN es : /\ Places(id, es) = {n} /\ Part(id, es) = es[n]
                             /\ es[n] \in Element(K)
  BY SoleIsPart
<1>2. m \in Nat
  OBVIOUS
<1>3. ASSUME EndOf(es[n]) <= m PROVE Number(id, First(buf, m), default) = Value(id, es)
  <2>1. es[n].at + 2 <= m
    <3>1. es[n].at \in Nat /\ Len(es[n].data) \in Nat /\ Len(es[n].data) >= 1
          /\ EndOf(es[n]) = es[n].at + 1 + Len(es[n].data)
      BY <1>1, ElementFields, TilesInside DEF EndOf
    <3> QED BY <1>2, <1>3, <3>1
  <2>2. PICK c : c = CutOf(es[n], buf, 0, m) /\ c.data = es[n].data
    BY <1>1, <1>2, <1>3, CutWhole
  <2>3. Named(id, First(buf, m)) = <<c>>
    BY <1>1, <2>1, <2>2, NamedSole
  <2>4. <<c>> # <<>> /\ Len(<<c>>) = 1 /\ <<c>>[1] = c
    OBVIOUS
  <2>5. Number(id, First(buf, m), default) = Uint(c.data)
    BY <2>3, <2>4 DEF Number
  <2> QED BY <1>1, <2>2, <2>5, ReadsAsItIs
<1>4. ASSUME ~(es[n].at + 2 <= m)
      PROVE  Named(id, First(buf, m)) = <<>> /\ Number(id, First(buf, m), default) = default
  <2>1. Named(id, First(buf, m)) = <<>>
    BY <1>1, <1>4, NamedSole
  <2> QED BY <2>1 DEF Number
<1> QED BY <1>1, <1>3, <1>4

\* What a sound file has in a cue point.
LEMMA PointParts ==
  ASSUME NEW f \in FileType, Sound(f), NEW n \in DOMAIN Points(f), Points(f)[n].id = Id.CuePoint,
         NEW e, e = Points(f)[n]
  PROVE  /\ e \in Element(Positions) /\ e.data \in Seq(Bytes)
         /\ e.kids \in Seq(Element(Leaf)) /\ Tiles(e.kids, e.data)
         /\ \/ Places(Id.CueTime, e.kids) = {}
            \/ Sole(Id.CueTime, e.kids) /\ Value(Id.CueTime, e.kids) * Scale(f) <= MaxLong
         /\ \A k \in DOMAIN e.kids :
              e.kids[k].id = Id.CueTrackPositions =>
                /\ \A i \in Places(Id.CueTime, e.kids) : i < k
                /\ e.kids[k].data \in Seq(Bytes) /\ e.kids[k].kids \in Seq(Element({}))
                /\ Tiles(e.kids[k].kids, e.kids[k].data)
                /\ Sole(Id.CueTrack, e.kids[k].kids)
                /\ Len(Part(Id.CueTrack, e.kids[k].kids).data) = 1
                /\ Sole(Id.CueClusterPosition, e.kids[k].kids)
                /\ DataStart(f) + Value(Id.CueClusterPosition, e.kids[k].kids) <= MaxLong
         /\ \A i, k \in Of(f, e) : i = k
<1>1. Id.CuePoint \in Master /\ Id.CueTrackPositions \in Master
  BY DEF Master
<1>2. /\ e \in Element(Positions) /\ e.data \in Seq(Bytes)
      /\ e.kids \in Seq(Element(Leaf)) /\ Tiles(e.kids, e.data)
      /\ \A k \in DOMAIN e.kids :
           /\ e.kids[k].data \in Seq(Bytes) /\ e.kids[k].kids \in Seq(Element({}))
           /\ e.kids[k].id \in Master => Tiles(e.kids[k].kids, e.kids[k].data)
  BY <1>1, CuesLevels
<1>3. PointIsSound(f, e)
  <2>1. n \in Places(Id.CuePoint, Points(f))
    BY DEF Places
  <2> QED BY <2>1 DEF Sound
<1>4. ASSUME NEW k \in DOMAIN e.kids, e.kids[k].id = Id.CueTrackPositions
      PROVE  /\ \A i \in Places(Id.CueTime, e.kids) : i < k
             /\ Sole(Id.CueTrack, e.kids[k].kids)
             /\ Len(Part(Id.CueTrack, e.kids[k].kids).data) = 1
             /\ Sole(Id.CueClusterPosition, e.kids[k].kids)
             /\ DataStart(f) + Value(Id.CueClusterPosition, e.kids[k].kids) <= MaxLong
  <2>1. k \in Places(Id.CueTrackPositions, e.kids)
    BY <1>4 DEF Places
  <2> QED BY <1>3, <2>1 DEF PointIsSound
<1>5. \/ Places(Id.CueTime, e.kids) = {}
      \/ Sole(Id.CueTime, e.kids) /\ Value(Id.CueTime, e.kids) * Scale(f) <= MaxLong
  BY <1>3 DEF PointIsSound
<1>6. \A i, k \in Of(f, e) : i = k
  BY <1>3 DEF PointIsSound
<1> QED BY <1>1, <1>2, <1>4, <1>5, <1>6

\* The video track's number is not the one a visitor starts with.
LEMMA VideoIsNumbered ==
  ASSUME NEW f \in FileType, Sound(f)
  PROVE  VideoNumber(f) # 0
<1>1. PICK n \in DOMAIN Movie(f) : VideoTracks(f) = {n}
  BY DEF Sound
<1>2. (CHOOSE x \in VideoTracks(f) : TRUE) = n /\ Movie(f)[n].id = Id.TrackEntry
  BY <1>1 DEF VideoTracks
<1>3. n \in Places(Id.TrackEntry, Movie(f))
  BY <1>2 DEF Places
<1>4. Value(Id.TrackNumber, Movie(f)[n].kids) > 0
  BY <1>3 DEF Sound
<1>5. VideoNumber(f) = Value(Id.TrackNumber, Movie(f)[n].kids)
  BY <1>2 DEF VideoNumber
<1>6. VideoNumber(f) > 0
  BY <1>4, <1>5
<1>7. ~(0 > 0)
  OBVIOUS
<1> QED BY <1>6, <1>7, Zenon

\* The header was understood.
KnowsVideo(f) ==
  info.scale = Scale(f) /\ info.track = VideoNumber(f) /\ info.start = DataStart(f)

\* The scale is a number.
LEMMA ScaleType ==
  ASSUME NEW f \in FileType, Sound(f)
  PROVE  Scale(f) \in Nat
<1> DEFINE e == Part(Id.Info, Sections(f))
<1>0. Id.Info \in {Id.SeekHead, Id.Info, Id.Tracks} /\ Id.TimestampScale \in Numeric
  BY DEF Numeric
<1>1. e.data \in Seq(Bytes) /\ e.kids \in Seq(Element(Positions)) /\ Tiles(e.kids, e.data)
  BY <1>0, InSection
<1>2. Places(Id.TimestampScale, e.kids) = {} \/ Sole(Id.TimestampScale, e.kids)
  BY DEF Sound
<1>3. Scale(f) = IF Places(Id.TimestampScale, e.kids) = {} THEN ScaleUnit
                 ELSE Value(Id.TimestampScale, e.kids)
  BY DEF Scale
<1> HIDE DEF e
<1>4. Sole(Id.TimestampScale, e.kids) => Value(Id.TimestampScale, e.kids) \in Nat
  BY <1>0, <1>1, ReadsAsItIs, LimitKept
<1>5. ScaleUnit \in Nat
  BY FileAssumption
<1> QED BY <1>2, <1>3, <1>4, <1>5

\* A time is read and scaled as it is.
LEMMA TimeIsRight ==
  ASSUME NEW f \in FileType, Sound(f), KnowsVideo(f), NEW ticks \in 0 .. Limit(Id.CueTime),
         ticks * Scale(f) <= MaxLong
  PROVE  /\ AsLong(ticks) = ticks /\ ticks >= 0
         /\ TimeMs(ticks) = (ticks * Scale(f)) \div ScaleUnit
<1>1. ticks \in Nat /\ AsLong(ticks) = ticks
  BY LimitKept
<1>2. PICK scale \in Nat : scale = Scale(f)
  BY ScaleType
<1>3. PICK n \in Nat : n = ticks * scale /\ n <= MaxLong
  <2>1. ticks * scale \in Nat
    BY <1>1, <1>2
  <2> QED BY <1>2, <2>1
<1>4. AsLong(n) = n
  <2>1. n \in Long
    BY <1>3, FileAssumption DEF Long
  <2> QED BY <2>1, AsLongRange
<1>5. Quotient(n, ScaleUnit) = n \div ScaleUnit
  <2>1. n >= 0
    BY <1>3
  <2> QED BY <2>1 DEF Quotient
<1> QED BY <1>1, <1>2, <1>3, <1>4, <1>5 DEF TimeMs, KnowsVideo

\* A point that becomes an entry is a cue of the video's, and has its time.
LEMMA CutPoint ==
  ASSUME NEW f \in FileType, Sound(f), KnowsVideo(f),
         NEW n \in DOMAIN Points(f), Points(f)[n].id = Id.CuePoint,
         NEW e, e = Points(f)[n], NEW x \in 0 .. Len(e.data), IsCue(First(e.data, x))
  PROVE  IsVideoCue(f, e) /\ Entry(First(e.data, x)).time = CueOf(f, e).time
<1>1. /\ e.data \in Seq(Bytes) /\ e.kids \in Seq(Element(Leaf)) /\ Tiles(e.kids, e.data)
      /\ \/ Places(Id.CueTime, e.kids) = {}
         \/ Sole(Id.CueTime, e.kids) /\ Value(Id.CueTime, e.kids) * Scale(f) <= MaxLong
      /\ \A k \in DOMAIN e.kids :
              e.kids[k].id = Id.CueTrackPositions =>
                /\ \A i \in Places(Id.CueTime, e.kids) : i < k
                /\ e.kids[k].data \in Seq(Bytes) /\ e.kids[k].kids \in Seq(Element({}))
                /\ Tiles(e.kids[k].kids, e.kids[k].data)
                /\ Sole(Id.CueTrack, e.kids[k].kids)
                /\ Len(Part(Id.CueTrack, e.kids[k].kids).data) = 1
  BY PointParts, ZenonT(60)
<1>2. PICK kids \in Seq(Element(Leaf)), data \in Seq(Bytes) :
        kids = e.kids /\ data = e.data /\ Tiles(kids, data)
  BY <1>1
<1>3. x \in 0 .. Len(data) /\ x \in Nat /\ First(data, x) \in Seq(Bytes) /\ First(data, x) = First(e.data, x)
  BY <1>2, BufferType DEF First
<1>4. Named(Id.CueTime, First(data, x)) # <<>> /\ VideoPositions(First(data, x)) # <<>>
  BY <1>3, CueTicksType DEF IsCue
<1>5. Sole(Id.CueTime, kids) /\ Value(Id.CueTime, kids) * Scale(f) <= MaxLong
  <2>1. Places(Id.CueTime, kids) # {}
    BY <1>2, <1>3, <1>4, NamedNone
  <2> QED BY <1>1, <1>2, <2>1
<1>6. PICK t \in DOMAIN kids : /\ Places(Id.CueTime, kids) = {t} /\ Part(Id.CueTime, kids) = kids[t]
  BY <1>5, SoleIsPart
<1>7. PICK r \in Seq(Child) : r = Named(Id.CueTrackPositions, First(data, x))
  BY <1>3, NamedType
<1>8. PICK h : Shows(h, r, kids, data, x, Id.CueTrackPositions)
  BY <1>2, <1>3, <1>7, NamedShows
<1> DEFINE P == {j \in DOMAIN r : AsInt(Number(Id.CueTrack, r[j].data, 0)) = info.track}
<1>9. Only(r, P) # <<>>
  BY <1>4, <1>7 DEF VideoPositions
<1>10. PICK j \in DOMAIN r : AsInt(Number(Id.CueTrack, r[j].data, 0)) = VideoNumber(f)
  <2>1. P \cap DOMAIN r # {}
    <3> HIDE DEF P
    <3> QED BY <1>9, OnlyNone
  <2> QED BY <2>1 DEF KnowsVideo
<1>11. PICK k \in DOMAIN kids : /\ k = h[j] /\ kids[k].id = Id.CueTrackPositions
                                /\ kids[k].at + 2 <= x /\ r[j] = CutOf(kids[k], data, 0, x)
  BY <1>8, <1>10 DEF Shows
<1>12. PICK p : p = kids[k]
  OBVIOUS
<1>13. /\ t < k /\ p.data \in Seq(Bytes) /\ p.kids \in Seq(Element({})) /\ Tiles(p.kids, p.data)
       /\ Sole(Id.CueTrack, p.kids) /\ Len(Part(Id.CueTrack, p.kids).data) = 1
  BY <1>1, <1>2, <1>6, <1>11, <1>12
<1>14. PICK y \in 0 .. Len(p.data) : r[j].data = First(p.data, y)
  <2>1. p \in Element(Leaf) /\ p.at + 2 <= x
    BY <1>2, <1>11, <1>12, ElementOfSeq
  <2>2. p.at \in Nat /\ Len(p.data) \in Nat /\ EndOf(p) = p.at + 1 + Len(p.data)
    BY <2>1, ElementFields DEF EndOf
  <2>3. Shown(p, x) \in 0 .. Len(p.data)
    <3>1. CASE EndOf(p) <= x
      BY <2>2, <3>1 DEF Shown
    <3>2. CASE ~(EndOf(p) <= x)
      <4>1. PICK at \in Nat, len \in Nat : at = p.at /\ len = Len(p.data) /\ EndOf(p) = at + 1 + len
        BY <2>2
      <4>2. x - at - 1 \in 0 .. len
        <5>1. at \in Nat /\ len \in Nat /\ x \in Nat /\ at + 2 <= x /\ ~(at + 1 + len <= x)
          BY <1>3, <2>1, <3>2, <4>1
        <5> QED BY ONLY <5>1
      <4> QED BY <3>2, <4>1, <4>2 DEF Shown
    <3> QED BY <3>1, <3>2
  <2>4. r[j].data = SubSeq(p.data, 1, Shown(p, x))
    <3>1. r[j] = CutOf(p, data, 0, x)
      BY <1>11, <1>12
    <3>2. CutOf(p, data, 0, x).data = SubSeq(p.data, 1, Shown(p, x))
      BY DEF CutOf
    <3> QED BY <3>1, <3>2
  <2> QED BY <2>3, <2>4 DEF First
<1>15. Value(Id.CueTrack, p.kids) = VideoNumber(f)
  <2> DEFINE l == Part(Id.CueTrack, p.kids)
  <2>0. Id.CueTrack \in Numeric /\ Limit(Id.CueTrack) = MaxInt
    BY DEF Numeric, Limit
  <2>1. l \in Element({}) /\ Len(l.data) = 1
    BY <1>13, SoleIsPart
  <2>2. l.at \in Nat /\ EndOf(l) = l.at + 2
    BY <2>1, ElementFields, SMTT(30) DEF EndOf
  <2>3. Number(Id.CueTrack, First(p.data, y), 0) # 0
    <3>1. 0 \in Int /\ 0 \in 0 .. MaxInt
      BY FileAssumption
    <3>2. AsInt(0) = 0
      BY <3>1, AsIntRange
    <3> QED BY <1>10, <1>14, <3>2, VideoIsNumbered
  <2>4. l.at + 2 <= y
    BY <1>13, <2>0, <2>3, NumberCut
  <2>5. EndOf(l) <= y
    BY <2>2, <2>4
  <2>6. Number(Id.CueTrack, First(p.data, y), 0) = Value(Id.CueTrack, p.kids)
    BY <1>13, <2>0, <2>5, NumberCut
  <2>7. AsInt(Value(Id.CueTrack, p.kids)) = Value(Id.CueTrack, p.kids)
    BY <1>13, <2>0, ReadsAsItIs, LimitKept
  <2> QED BY <1>10, <1>14, <2>6, <2>7
<1>16. k \in Of(f, e)
  BY <1>2, <1>11, <1>12, <1>15 DEF Of
<1>17. IsVideoCue(f, e)
  <2>1. e.id = Id.CuePoint /\ Places(Id.CueTime, e.kids) # {}
    BY <1>2, <1>6
  <2> QED BY <1>16, <2>1 DEF IsVideoCue
<1>18. EndOf(kids[t]) <= x
  <2>1. DOMAIN kids = 1 .. Len(kids)
    BY <1>2, TilesInside
  <2>2. EndOf(kids[t]) < kids[k].at
    BY <1>2, <1>13, <2>1, TilesInside
  <2>3. kids[t] \in Element(Leaf) /\ kids[k] \in Element(Leaf)
    BY <1>2, <2>1, TilesInside
  <2>4. EndOf(kids[t]) \in Nat /\ kids[k].at \in Nat
    BY <2>3, ElementFields
  <2>5. x \in Nat /\ kids[k].at + 2 <= x
    BY <1>3, <1>11
  <2> QED BY ONLY <2>2, <2>4, <2>5
<1>19. PICK ticks \in 0 .. Limit(Id.CueTime) :
         ticks = Value(Id.CueTime, kids) /\ Number(Id.CueTime, First(data, x), -1) = ticks
  <2>1. Id.CueTime \in Numeric
    BY DEF Numeric
  <2>2. Value(Id.CueTime, kids) \in 0 .. Limit(Id.CueTime)
    BY <1>2, <1>5, <2>1, ReadsAsItIs
  <2>3. Number(Id.CueTime, First(data, x), -1) = Value(Id.CueTime, kids)
    BY <1>2, <1>3, <1>5, <1>6, <1>18, <2>1, NumberCut
  <2> QED BY <2>2, <2>3
<1>20. Entry(First(data, x)).time = (ticks * Scale(f)) \div ScaleUnit
  <2>1. AsLong(ticks) = ticks /\ TimeMs(ticks) = (ticks * Scale(f)) \div ScaleUnit
    BY <1>5, <1>19, TimeIsRight
  <2> QED BY <1>19, <2>1 DEF Entry, CueTicks
<1>21. CueOf(f, e).time = (ticks * Scale(f)) \div ScaleUnit
  BY <1>2, <1>19 DEF CueOf
<1> QED BY <1>3, <1>17, <1>20, <1>21

\* A whole point becomes an entry if it is a cue of the video's, and that cue.
LEMMA WholePoint ==
  ASSUME NEW f \in FileType, Sound(f), KnowsVideo(f),
         NEW n \in DOMAIN Points(f), Points(f)[n].id = Id.CuePoint,
         NEW e, e = Points(f)[n], IsVideoCue(f, e)
  PROVE  IsCue(e.data) /\ Entry(e.data) = CueOf(f, e)
<1>1. /\ e.data \in Seq(Bytes) /\ e.kids \in Seq(Element(Leaf)) /\ Tiles(e.kids, e.data)
      /\ \/ Places(Id.CueTime, e.kids) = {}
         \/ Sole(Id.CueTime, e.kids) /\ Value(Id.CueTime, e.kids) * Scale(f) <= MaxLong
      /\ \A k \in DOMAIN e.kids :
              e.kids[k].id = Id.CueTrackPositions =>
                /\ e.kids[k].data \in Seq(Bytes) /\ e.kids[k].kids \in Seq(Element({}))
                /\ Tiles(e.kids[k].kids, e.kids[k].data)
                /\ Sole(Id.CueTrack, e.kids[k].kids)
                /\ Sole(Id.CueClusterPosition, e.kids[k].kids)
                /\ DataStart(f) + Value(Id.CueClusterPosition, e.kids[k].kids) <= MaxLong
      /\ \A i, k \in Of(f, e) : i = k
  BY PointParts
<1>2. PICK kids \in Seq(Element(Leaf)), data \in Seq(Bytes) :
        kids = e.kids /\ data = e.data /\ Tiles(kids, data)
  BY <1>1
<1>3. Sole(Id.CueTime, kids) /\ Value(Id.CueTime, kids) * Scale(f) <= MaxLong
  BY <1>1, <1>2 DEF IsVideoCue
<1>4. PICK ticks \in 0 .. Limit(Id.CueTime) :
        ticks = Value(Id.CueTime, kids) /\ Number(Id.CueTime, data, -1) = ticks
  <2>1. Id.CueTime \in Numeric
    BY DEF Numeric
  <2> QED BY <1>2, <1>3, <2>1, NumberSole
<1>t. /\ CueTicks(data) = ticks /\ ticks >= 0
      /\ TimeMs(ticks) = (ticks * Scale(f)) \div ScaleUnit
  <2>1. /\ AsLong(ticks) = ticks /\ ticks >= 0
        /\ TimeMs(ticks) = (ticks * Scale(f)) \div ScaleUnit
    BY <1>3, <1>4, TimeIsRight
  <2> QED BY <1>4, <2>1 DEF CueTicks
<1>5. PICK k \in DOMAIN kids : Of(f, e) = {k}
  <2>1. Of(f, e) # {}
    BY DEF IsVideoCue
  <2>2. PICK k \in Of(f, e) : TRUE
    BY <2>1
  <2>3. k \in DOMAIN kids
    BY <1>2 DEF Of
  <2>4. Of(f, e) = {k}
    BY <1>1, <2>2
  <2> QED BY <2>3, <2>4
<1>6. kids[k].id = Id.CueTrackPositions
  BY <1>2, <1>5 DEF Of
<1>7. ASSUME NEW i \in DOMAIN kids, kids[i].id = Id.CueTrackPositions
      PROVE  /\ kids[i].data \in Seq(Bytes)
             /\ AsInt(Number(Id.CueTrack, kids[i].data, 0)) = Value(Id.CueTrack, kids[i].kids)
             /\ Number(Id.CueClusterPosition, kids[i].data, -1)
                  = Value(Id.CueClusterPosition, kids[i].kids)
             /\ Value(Id.CueClusterPosition, kids[i].kids) \in 0 .. Limit(Id.CueClusterPosition)
             /\ DataStart(f) + Value(Id.CueClusterPosition, kids[i].kids) <= MaxLong
             /\ Value(Id.CueTrack, kids[i].kids) = VideoNumber(f) <=> i = k
  <2>1. /\ kids[i].data \in Seq(Bytes) /\ kids[i].kids \in Seq(Element({}))
        /\ Tiles(kids[i].kids, kids[i].data)
        /\ Sole(Id.CueTrack, kids[i].kids) /\ Sole(Id.CueClusterPosition, kids[i].kids)
        /\ DataStart(f) + Value(Id.CueClusterPosition, kids[i].kids) <= MaxLong
    BY <1>1, <1>2, <1>7
  <2>2. AsInt(Number(Id.CueTrack, kids[i].data, 0)) = Value(Id.CueTrack, kids[i].kids)
    <3>1. Id.CueTrack \in Numeric /\ Limit(Id.CueTrack) = MaxInt
      BY DEF Numeric, Limit
    <3>2. /\ Number(Id.CueTrack, kids[i].data, 0) = Value(Id.CueTrack, kids[i].kids)
          /\ Value(Id.CueTrack, kids[i].kids) \in 0 .. Limit(Id.CueTrack)
      BY <2>1, <3>1, NumberSole
    <3> QED BY <3>1, <3>2, LimitKept
  <2>3. /\ Number(Id.CueClusterPosition, kids[i].data, -1)
             = Value(Id.CueClusterPosition, kids[i].kids)
        /\ Value(Id.CueClusterPosition, kids[i].kids) \in 0 .. Limit(Id.CueClusterPosition)
    <3>1. Id.CueClusterPosition \in Numeric
      BY DEF Numeric
    <3> QED BY <2>1, <3>1, NumberSole
  <2>4. Value(Id.CueTrack, kids[i].kids) = VideoNumber(f) <=> i \in Of(f, e)
    BY <1>2, <1>7 DEF Of
  <2> QED BY <1>5, <2>1, <2>2, <2>3, <2>4
<1>8. PICK r \in Seq(Child) : r = Named(Id.CueTrackPositions, data)
  BY <1>2, NamedType
<1>9. PICK h : Shows(h, r, kids, data, Len(data), Id.CueTrackPositions)
  <2>1. \E h : Shows(h, Named(Id.CueTrackPositions, First(data, Len(data))), kids, data,
                     Len(data), Id.CueTrackPositions)
    BY <1>2, FirstFull, NamedShows
  <2> QED BY <1>2, <1>8, <2>1, FirstFull
<1> DEFINE P == {j \in DOMAIN r : AsInt(Number(Id.CueTrack, r[j].data, 0)) = info.track}
<1>10. \A j \in DOMAIN r : j \in P <=> h[j] = k
  <2> TAKE j \in DOMAIN r
  <2>1. /\ h[j] \in DOMAIN kids /\ kids[h[j]].id = Id.CueTrackPositions
        /\ r[j] = CutOf(kids[h[j]], data, 0, Len(data))
    BY <1>9 DEF Shows
  <2>2. r[j].data = kids[h[j]].data
    BY <1>2, <2>1, WholeShown
  <2>3. AsInt(Number(Id.CueTrack, r[j].data, 0)) = info.track <=> h[j] = k
    BY <1>7, <2>1, <2>2 DEF KnowsVideo
  <2> QED BY <2>3
<1>11. VideoPositions(data) = Only(r, P)
  BY <1>8 DEF VideoPositions
<1> HIDE DEF P
<1>12. PICK j \in DOMAIN r : Only(r, P) = <<r[j]>> /\ r[j].data = kids[k].data
  <2>1. Shows(h, r, kids, data, Len(data), kids[k].id)
    BY <1>6, <1>9
  <2>2. \E j \in DOMAIN r : Only(r, P) = <<r[j]>> /\ r[j].data = kids[k].data
    <3>1. kids \in Seq(Element(Leaf)) /\ data \in Seq(Bytes) /\ Tiles(kids, data) /\ k \in DOMAIN kids
      BY <1>2
    <3>2. r \in Seq(Child) /\ \A j \in DOMAIN r : j \in P <=> h[j] = k
      BY <1>10
    <3> QED BY <2>1, <3>1, <3>2, UniqueShown, SMTT(30)
  <2> QED BY <2>2
<1>13. <<r[j]>> # <<>> /\ FinalOf(<<r[j]>>) = r[j]
  BY DEF FinalOf
<1>14. IsCue(data)
  BY <1>t, <1>11, <1>12, <1>13 DEF IsCue
<1>15. PICK pos \in Nat : /\ pos = Value(Id.CueClusterPosition, kids[k].kids)
                          /\ pos = Number(Id.CueClusterPosition, r[j].data, -1)
                          /\ AsLong(pos) = pos /\ DataStart(f) + pos <= MaxLong
  BY <1>6, <1>7, <1>12, LimitKept
<1>16. Entry(data) = [time |-> (ticks * Scale(f)) \div ScaleUnit, cluster |-> DataStart(f) + pos]
  <2>1. pos >= 0 /\ VideoPositions(data) = <<r[j]>>
    BY <1>11, <1>12, <1>15
  <2>2. AsLong(DataStart(f) + pos) = DataStart(f) + pos
    <3>1. PICK start \in Nat : start = DataStart(f) /\ start + pos <= MaxLong
      BY <1>15, HeadOf
    <3>2. PICK sum \in Nat : sum = start + pos
      OBVIOUS
    <3>3. sum \in Long /\ sum \in Int
      BY <3>1, <3>2, FileAssumption DEF Long
    <3> QED BY <3>1, <3>2, <3>3, AsLongRange
  <2>3. <<r[j]>> # <<>> /\ info.start = DataStart(f)
    BY <1>13 DEF KnowsVideo
  <2> QED BY <1>t, <1>13, <1>15, <2>1, <2>2, <2>3 DEF Entry
<1>17. CueOf(f, e) = [time |-> (ticks * Scale(f)) \div ScaleUnit, cluster |-> DataStart(f) + pos]
  <2>1. (CHOOSE i \in Of(f, e) : TRUE) = k
    BY <1>5
  <2> QED BY <1>2, <1>4, <1>15, <2>1 DEF CueOf
<1> QED BY <1>2, <1>14, <1>16, <1>17

-----------------------------------------------------------------------------
(* The cues of a file's video, one cue point after the other.              *)

\* What each element of Cues adds.
Parts(f) ==
  [n \in DOMAIN Points(f) |->
     IF IsVideoCue(f, Points(f)[n]) THEN <<CueOf(f, Points(f)[n])>> ELSE <<>>]

CuesOfPoints(f) == {CueOf(f, Points(f)[n]) : n \in DOMAIN Points(f)}

LEMMA PartsType ==
  ASSUME NEW f \in FileType, Sound(f)
  PROVE  /\ Parts(f) \in Seq(Seq(CuesOfPoints(f))) /\ Len(Parts(f)) = Len(Points(f))
         /\ Len(Points(f)) \in Nat /\ DOMAIN Points(f) = 1 .. Len(Points(f))
         /\ VideoCues(f) = Joined(Parts(f), Len(Points(f)))
         /\ \A n \in 1 .. Len(Points(f)) :
              /\ CueOf(f, Points(f)[n]) \in CuesOfPoints(f)
              /\ Parts(f)[n] = IF IsVideoCue(f, Points(f)[n]) THEN <<CueOf(f, Points(f)[n])>> ELSE <<>>
<1>1. Len(Points(f)) \in Nat /\ DOMAIN Points(f) = 1 .. Len(Points(f))
  BY CuesLevels, TilesInside
<1> DEFINE C(n) == CueOf(f, Points(f)[n])
<1>2. \A n \in 1 .. Len(Points(f)) : C(n) \in CuesOfPoints(f)
  BY <1>1 DEF CuesOfPoints
<1>3. /\ Parts(f) = [n \in 1 .. Len(Points(f)) |-> Parts(f)[n]]
      /\ DOMAIN Parts(f) = 1 .. Len(Points(f))
      /\ \A n \in 1 .. Len(Points(f)) :
           Parts(f)[n] = IF IsVideoCue(f, Points(f)[n]) THEN <<C(n)>> ELSE <<>>
  BY <1>1 DEF Parts
<1>4. \A n \in 1 .. Len(Points(f)) : Parts(f)[n] \in Seq(CuesOfPoints(f))
  <2> HIDE DEF C
  <2> TAKE n \in 1 .. Len(Points(f))
  <2>1. PICK c \in CuesOfPoints(f) : c = C(n)
    BY <1>2
  <2>2. <<c>> \in Seq(CuesOfPoints(f)) /\ <<>> \in Seq(CuesOfPoints(f))
    OBVIOUS
  <2>3. Parts(f)[n] = <<c>> \/ Parts(f)[n] = <<>>
    BY <1>3, <2>1
  <2> QED BY <2>2, <2>3
<1>5. Parts(f) \in Seq(Seq(CuesOfPoints(f))) /\ Len(Parts(f)) = Len(Points(f))
  BY <1>1, <1>3, <1>4, MadeOf
<1>6. VideoCues(f) = Joined(Parts(f), Len(Points(f)))
  <2>1. VideoCues(f) = FlattenSeq(Parts(f))
    BY DEF VideoCues, Parts
  <2> QED BY <1>5, <2>1, JoinedSteps
<1> QED BY <1>1, <1>2, <1>3, <1>5, <1>6

\* The first parts, joined, are the first of all.
LEMMA JoinedBegins ==
  ASSUME NEW S, NEW s \in Seq(Seq(S)), NEW a \in 0 .. Len(s), NEW b \in a .. Len(s)
  PROVE  /\ Len(Joined(s, a)) \in Nat /\ Len(Joined(s, b)) \in Nat
         /\ Len(Joined(s, a)) <= Len(Joined(s, b))
         /\ \A i \in 1 .. Len(Joined(s, a)) : Joined(s, b)[i] = Joined(s, a)[i]
<1>n. Len(s) \in Nat /\ a \in Nat /\ b \in Nat
  OBVIOUS
<1>a. PICK base \in Seq(S) : base = Joined(s, a)
  BY JoinedSteps
<1> DEFINE Begins(t) == Len(base) <= Len(t) /\ \A i \in 1 .. Len(base) : t[i] = base[i]
           T == {n \in Nat : a + n <= b => Begins(Joined(s, a + n))}
<1>1. 0 \in T
  BY <1>n, <1>a
<1>2. ASSUME NEW n \in Nat, n \in T PROVE n + 1 \in T
  <2>q. SUFFICES ASSUME a + (n + 1) <= b PROVE Begins(Joined(s, a + (n + 1)))
    <3> HIDE DEF Begins
    <3> QED OBVIOUS
  <2>1. PICK k \in Nat : k = a + n
    BY <1>n
  <2>2. k < Len(s) /\ k \in 0 .. Len(s) /\ k + 1 \in 1 .. Len(s) /\ a + (n + 1) = k + 1
    BY <1>n, <2>1, <2>q
  <2>3. Begins(Joined(s, k))
    <3> HIDE DEF Begins
    <3> QED BY <1>2, <1>n, <2>1, <2>q
  <2>4. PICK t \in Seq(S), x \in Seq(S) : t = Joined(s, k) /\ x = s[k + 1]
    <3>1. s[k + 1] \in Seq(S)
      BY <2>2, ElementOfSeq
    <3> QED BY <2>2, <3>1, JoinedSteps
  <2>5. Joined(s, k + 1) = t \o x
    BY <2>2, <2>4, JoinedSteps
  <2>6. Len(base) \in Nat /\ Len(t) \in Nat /\ Len(x) \in Nat
    OBVIOUS
  <2>7. Len(t \o x) = Len(t) + Len(x) /\ \A i \in 1 .. Len(t) : (t \o x)[i] = t[i]
    OBVIOUS
  <2>8. Begins(t)
    BY <2>3, <2>4
  <2>9. \A i \in 1 .. Len(base) : i \in 1 .. Len(t)
    BY <2>6, <2>8
  <2>10. Begins(t \o x)
    BY <2>6, <2>7, <2>8, <2>9
  <2> HIDE DEF Begins
  <2> QED BY <2>2, <2>5, <2>10
<1>3. \A n \in Nat : n \in T
  <2> HIDE DEF T
  <2> QED BY <1>1, <1>2, InductionOnSet
<1>4. b - a \in Nat /\ a + (b - a) = b
  BY <1>n
<1>5. b - a \in T
  <2> HIDE DEF T
  <2> QED BY <1>3, <1>4
<1>6. Begins(Joined(s, b))
  <2> HIDE DEF Begins
  <2> QED BY <1>4, <1>5
<1>7. Joined(s, b) \in Seq(S)
  <2>1. b \in 0 .. Len(s)
    BY <1>n
  <2> QED BY <2>1, JoinedSteps
<1> QED BY <1>6, <1>7, <1>a

\* The j-th of the cue points that were found is the k-th element of Cues.
Reached(f, m, r, j, k) ==
  \/ j = 0 /\ k = 0
  \/ /\ j \in 1 .. Len(r) /\ k \in 1 .. Len(Points(f))
     /\ Points(f)[k].id = Id.CuePoint /\ Points(f)[k].at + 2 <= m
     /\ r[j] = CutOf(Points(f)[k], CuesOf(f).data, 0, m)

\* What has been made of the first k elements when m bytes were read of them all. The
\* k-th may be cut off: then it is left out, or its cluster is another.
CuesSoFar(f, m, k, cs) ==
  \/ cs = Joined(Parts(f), k)
  \/ /\ k >= 1 /\ EndOf(Points(f)[k]) > m
     /\ \/ cs = Joined(Parts(f), k - 1)
        \/ /\ cs # <<>> /\ cs = Append(Joined(Parts(f), k - 1), cs[Len(cs)])
           /\ IsVideoCue(f, Points(f)[k])
           /\ cs[Len(cs)].time = CueOf(f, Points(f)[k]).time

-----------------------------------------------------------------------------
(* EnsureCueIndex on a sound file.                                         *)

\* The file whatever faults are still to come.
AsMuxed == [file EXCEPT !.faults = 0]

\* How much there is of the cues, and how much is read of them.
CuesSize(f) == 2 + Len(CuesOf(f).data)
CuesRead(f) == IF CuesSize(f) > CuesLimit THEN CuesLimit ELSE CuesSize(f)

\* The cue points, as far as they were scanned.
Scanned(f) ==
  \E m \in 0 .. Len(CuesOf(f).data) :
    /\ short = {} /\ CuesFit(f) => m = Len(CuesOf(f).data)
    /\ LET r == Named(Id.CuePoint, First(CuesOf(f).data, m))
       IN  \E j \in 0 .. Len(r), k \in 0 .. Len(Points(f)) :
             /\ points = SubSeq(r, j + 1, Len(r))
             /\ Reached(f, m, r, j, k) /\ CuesSoFar(f, m, k, cues)

\* What holds for a sound file whose header was read as a whole.
SoundAt(f) ==
  /\ step \in {"header", "chunk", "cues", "failed", "crashed"} => cues = <<>>
  /\ step = "failed" => short # {} \/ ~CuesFit(f)
  /\ step \in {"chunk", "cues", "scan"} => KnowsVideo(f) /\ info.cues = CuesPos(f)
  /\ step = "cues" => info.length = CuesRead(f)
  /\ step = "filter" => points = <<>>
  /\ step \in {"scan", "filter"} => Scanned(f)

SoundInv ==
  \A f \in {AsMuxed} : Sound(f) /\ "header" \notin short => SoundAt(f)

\* The elements of Cues: where they start and end.
LEMMA PointPlaces ==
  ASSUME NEW f \in FileType, Sound(f)
  PROVE  /\ Len(Points(f)) \in Nat /\ DOMAIN Points(f) = 1 .. Len(Points(f))
         /\ \A n \in 1 .. Len(Points(f)) :
              /\ Points(f)[n].at \in Nat /\ EndOf(Points(f)[n]) \in Nat
              /\ Points(f)[n].at < EndOf(Points(f)[n])
              /\ Points(f)[n].at + 2 <= EndOf(Points(f)[n])
              /\ EndOf(Points(f)[n]) <= Len(CuesOf(f).data)
         /\ \A i, n \in 1 .. Len(Points(f)) : i < n => EndOf(Points(f)[i]) < Points(f)[n].at
<1>1. /\ Points(f) \in Seq(Element(Positions)) /\ CuesOf(f).data \in Seq(Bytes)
      /\ Tiles(Points(f), CuesOf(f).data)
  BY CuesLevels
<1>2. /\ Len(Points(f)) \in Nat /\ DOMAIN Points(f) = 1 .. Len(Points(f))
      /\ \A n \in 1 .. Len(Points(f)) :
           /\ Points(f)[n] \in Element(Positions)
           /\ Len(Points(f)[n].data) >= 1 /\ EndOf(Points(f)[n]) <= Len(CuesOf(f).data)
      /\ \A i, n \in 1 .. Len(Points(f)) : i < n => EndOf(Points(f)[i]) < Points(f)[n].at
  BY <1>1, TilesInside
<1>3. ASSUME NEW n \in 1 .. Len(Points(f))
      PROVE  /\ Points(f)[n].at \in Nat /\ EndOf(Points(f)[n]) \in Nat
             /\ Points(f)[n].at < EndOf(Points(f)[n])
             /\ Points(f)[n].at + 2 <= EndOf(Points(f)[n])
  <2>1. Points(f)[n].at \in Nat /\ EndOf(Points(f)[n]) \in Nat /\ Len(Points(f)[n].data) \in Nat
    BY <1>2, ElementFields
  <2>2. EndOf(Points(f)[n]) = Points(f)[n].at + 1 + Len(Points(f)[n].data)
    BY DEF EndOf
  <2> QED BY <1>2, <2>1, <2>2
<1> QED BY <1>2, <1>3

\* The cue points that are found are in Cues at the places h.
Located(h, f, m, r) ==
  /\ \A j \in 1 .. Len(r) : h[j] \in 1 .. Len(Points(f)) /\ Reached(f, m, r, j, h[j])
  /\ \A i, j \in 1 .. Len(r) : i < j => h[i] < h[j]
  /\ \A n \in 1 .. Len(Points(f)) :
       Points(f)[n].id = Id.CuePoint /\ Points(f)[n].at + 2 <= m => \E j \in 1 .. Len(r) : h[j] = n
  /\ \A j \in 1 .. Len(r) : \A k : Reached(f, m, r, j, k) => k = h[j]

\* They are there, and those are the places of Reached.
LEMMA ReachedIs ==
  ASSUME NEW f \in FileType, Sound(f), NEW m \in 0 .. Len(CuesOf(f).data),
         NEW r, r = Named(Id.CuePoint, First(CuesOf(f).data, m))
  PROVE  /\ r \in Seq(Child) /\ Len(r) \in Nat
         /\ \E h : Located(h, f, m, r)
<1>1. /\ Points(f) \in Seq(Element(Positions)) /\ CuesOf(f).data \in Seq(Bytes)
      /\ Tiles(Points(f), CuesOf(f).data)
  BY CuesLevels
<1>2. First(CuesOf(f).data, m) \in Seq(Bytes)
  BY <1>1, BufferType DEF First
<1>3. r \in Seq(Child)
  BY <1>2, NamedType
<1>4. PICK h : Shows(h, r, Points(f), CuesOf(f).data, m, Id.CuePoint)
  BY <1>1, <1>3, NamedShows
<1>5. Len(r) \in Nat /\ DOMAIN r = 1 .. Len(r) /\ DOMAIN Points(f) = 1 .. Len(Points(f))
  BY PointPlaces
<1>6. \A j \in 1 .. Len(r) : /\ h[j] \in 1 .. Len(Points(f))
                             /\ Points(f)[h[j]].id = Id.CuePoint /\ Points(f)[h[j]].at + 2 <= m
                             /\ r[j] = CutOf(Points(f)[h[j]], CuesOf(f).data, 0, m)
  BY <1>4, <1>5 DEF Shows
<1>7. \A i, j \in 1 .. Len(r) : i < j => h[i] < h[j]
  BY <1>4, <1>5 DEF Shows
<1>8. \A n \in 1 .. Len(Points(f)) :
        Points(f)[n].id = Id.CuePoint /\ Points(f)[n].at + 2 <= m => \E j \in 1 .. Len(r) : h[j] = n
  BY <1>4, <1>5 DEF Shows
<1>9. \A j \in 1 .. Len(r) : Reached(f, m, r, j, h[j])
  BY <1>6 DEF Reached
<1>10. ASSUME NEW j \in 1 .. Len(r), NEW k, Reached(f, m, r, j, k)
       PROVE  k = h[j]
  <2>1. PICK i \in 1 .. Len(Points(f)) : i = h[j]
    BY <1>6
  <2>2. r[j] = CutOf(Points(f)[i], CuesOf(f).data, 0, m)
    BY <1>6, <2>1
  <2>3. k \in 1 .. Len(Points(f)) /\ r[j] = CutOf(Points(f)[k], CuesOf(f).data, 0, m)
    <3>1. j # 0
      OBVIOUS
    <3> QED BY <1>10, <3>1 DEF Reached
  <2>4. r[j].at = 0 + Points(f)[i].at + 1 /\ r[j].at = 0 + Points(f)[k].at + 1
    BY <2>2, <2>3 DEF CutOf
  <2>5. PICK a \in Nat, b \in Nat : a = Points(f)[i].at /\ b = Points(f)[k].at
    BY <2>3, PointPlaces
  <2>6. a = b
    BY <2>4, <2>5, SMTT(30)
  <2>7. ASSUME i # k PROVE FALSE
    <3>1. i < k \/ k < i
      BY <2>3, <2>7, PointPlaces
    <3>2. /\ i < k => EndOf(Points(f)[i]) < b
          /\ k < i => EndOf(Points(f)[k]) < a
      BY <2>3, <2>5, PointPlaces
    <3>3. /\ a < EndOf(Points(f)[i]) /\ b < EndOf(Points(f)[k])
          /\ EndOf(Points(f)[i]) \in Nat /\ EndOf(Points(f)[k]) \in Nat
      BY <2>3, <2>5, PointPlaces
    <3> QED BY <2>6, <3>1, <3>2, <3>3
  <2> QED BY <2>1, <2>7
<1>11. Located(h, f, m, r)
  BY <1>6, <1>7, <1>8, <1>9, <1>10 DEF Located
<1> QED BY <1>3, <1>5, <1>11

\* The next cue point: no other is between, and what came before it was whole.
LEMMA NextReached ==
  ASSUME NEW f \in FileType, Sound(f), NEW m \in 0 .. Len(CuesOf(f).data),
         NEW r, r = Named(Id.CuePoint, First(CuesOf(f).data, m)),
         NEW j \in 0 .. Len(r), j < Len(r), NEW k \in 0 .. Len(Points(f)), Reached(f, m, r, j, k)
  PROVE  \E n \in 1 .. Len(Points(f)) :
           /\ k < n /\ Reached(f, m, r, j + 1, n)
           /\ \A i \in (k + 1) .. (n - 1) : Points(f)[i].id # Id.CuePoint
           /\ k >= 1 => EndOf(Points(f)[k]) <= m
<1>1. r \in Seq(Child) /\ Len(r) \in Nat
  BY ReachedIs
<1>h. PICK h : Located(h, f, m, r)
  BY ReachedIs
<1>2. /\ \A i \in 1 .. Len(r) : h[i] \in 1 .. Len(Points(f)) /\ Reached(f, m, r, i, h[i])
      /\ \A i, x \in 1 .. Len(r) : i < x => h[i] < h[x]
      /\ \A n \in 1 .. Len(Points(f)) :
           Points(f)[n].id = Id.CuePoint /\ Points(f)[n].at + 2 <= m =>
             \E i \in 1 .. Len(r) : h[i] = n
      /\ \A i \in 1 .. Len(r) : \A x : Reached(f, m, r, i, x) => x = h[i]
  BY <1>h DEF Located
<1>3. j \in Nat /\ j + 1 \in 1 .. Len(r) /\ Len(Points(f)) \in Nat /\ k \in Nat /\ m \in Nat
  <2>1. Len(Points(f)) \in Nat /\ Len(CuesOf(f).data) \in Nat
    BY PointPlaces, CuesLevels
  <2> QED BY <1>1, <2>1
<1>4. PICK n \in 1 .. Len(Points(f)) : n = h[j + 1] /\ Reached(f, m, r, j + 1, n)
  BY <1>2, <1>3
<1>5. j >= 1 => j \in 1 .. Len(r) /\ k = h[j]
  BY <1>2, <1>3
<1>6. j = 0 => k = 0
  BY DEF Reached
<1>7. k < n
  <2>1. CASE j = 0
    BY <1>6, <2>1
  <2>2. CASE j >= 1
    <3>1. j < j + 1
      BY <1>3
    <3> QED BY <1>2, <1>3, <1>4, <1>5, <2>2, <3>1
  <2> QED BY <1>3, <2>1, <2>2
<1>8. Points(f)[n].at + 2 <= m
  <2>1. j + 1 # 0
    BY <1>3
  <2> QED BY <1>4, <2>1 DEF Reached
<1>9. ASSUME NEW i \in (k + 1) .. (n - 1) PROVE Points(f)[i].id # Id.CuePoint
  <2> SUFFICES ASSUME Points(f)[i].id = Id.CuePoint PROVE FALSE
    OBVIOUS
  <2>1. i \in 1 .. Len(Points(f)) /\ i < n /\ k < i
    BY <1>3
  <2>2. Points(f)[i].at + 2 <= m
    <3>1. /\ EndOf(Points(f)[i]) < Points(f)[n].at /\ Points(f)[i].at < EndOf(Points(f)[i])
          /\ EndOf(Points(f)[i]) \in Nat /\ Points(f)[n].at \in Nat /\ Points(f)[i].at \in Nat
      BY <2>1, PointPlaces
    <3>2. /\ EndOf(Points(f)[i]) + 1 <= Points(f)[n].at
          /\ Points(f)[i].at + 1 <= EndOf(Points(f)[i])
          /\ Points(f)[n].at + 2 <= m
      BY <1>8, <3>1, SMTT(30)
    <3>3. PICK x \in Nat, y \in Nat, z \in Nat :
            x = Points(f)[i].at /\ y = EndOf(Points(f)[i]) /\ z = Points(f)[n].at
      BY <3>1
    <3>4. y + 1 <= z /\ x + 1 <= y /\ z + 2 <= m /\ m \in Nat
      BY <1>3, <3>2, <3>3
    <3>5. x + 2 <= m
      BY <3>4
    <3> QED BY <3>3, <3>5
  <2>3. PICK a \in 1 .. Len(r) : h[a] = i
    BY <1>2, <2>1, <2>2
  <2>4. a < j + 1
    <3>1. CASE a = j + 1
      BY <1>4, <2>1, <2>3, <3>1
    <3>2. CASE j + 1 < a
      <4>1. h[j + 1] < h[a]
        BY <1>2, <1>3, <3>2
      <4> QED BY <1>4, <2>1, <2>3, <4>1
    <3> QED BY <1>1, <1>3, <3>1, <3>2
  <2>5. j >= 1 /\ a <= j
    BY <1>1, <1>3, <2>4
  <2>6. CASE a = j
    BY <1>5, <2>1, <2>3, <2>5, <2>6
  <2>7. CASE a < j
    <3>1. h[a] < h[j]
      BY <1>2, <1>5, <2>5, <2>7
    <3> QED BY <1>3, <1>5, <2>1, <2>3, <2>5, <3>1
  <2> QED BY <1>3, <2>5, <2>6, <2>7
<1>10. ASSUME k >= 1 PROVE EndOf(Points(f)[k]) <= m
  <2>1. k \in 1 .. Len(Points(f))
    BY <1>3, <1>10
  <2>2. /\ EndOf(Points(f)[k]) < Points(f)[n].at
        /\ EndOf(Points(f)[k]) \in Nat /\ Points(f)[n].at \in Nat
    BY <1>7, <2>1, PointPlaces
  <2> QED BY <1>3, <1>8, <2>2
<1> QED BY <1>4, <1>7, <1>9, <1>10

\* After the last, when all was read, there is none, and it was whole.
LEMMA LastReached ==
  ASSUME NEW f \in FileType, Sound(f), NEW m, m = Len(CuesOf(f).data),
         NEW r, r = Named(Id.CuePoint, First(CuesOf(f).data, m)),
         NEW k \in 0 .. Len(Points(f)), Reached(f, m, r, Len(r), k)
  PROVE  /\ \A i \in (k + 1) .. Len(Points(f)) : Points(f)[i].id # Id.CuePoint
         /\ k >= 1 => EndOf(Points(f)[k]) <= m
<1>0. m \in 0 .. Len(CuesOf(f).data) /\ m \in Nat
  BY CuesLevels
<1>1. r \in Seq(Child) /\ Len(r) \in Nat
  BY <1>0, ReachedIs
<1>h. PICK h : Located(h, f, m, r)
  BY <1>0, ReachedIs
<1>2. /\ \A i \in 1 .. Len(r) : h[i] \in 1 .. Len(Points(f))
      /\ \A i, x \in 1 .. Len(r) : i < x => h[i] < h[x]
      /\ \A n \in 1 .. Len(Points(f)) :
           Points(f)[n].id = Id.CuePoint /\ Points(f)[n].at + 2 <= m =>
             \E i \in 1 .. Len(r) : h[i] = n
      /\ \A i \in 1 .. Len(r) : \A x : Reached(f, m, r, i, x) => x = h[i]
  BY <1>h DEF Located
<1>3. Len(Points(f)) \in Nat /\ k \in Nat
  BY PointPlaces
<1>4. ASSUME NEW i \in (k + 1) .. Len(Points(f)), Points(f)[i].id = Id.CuePoint PROVE FALSE
  <2>1. i \in 1 .. Len(Points(f)) /\ k < i
    BY <1>3
  <2>2. Points(f)[i].at + 2 <= m
    <3>1. /\ Points(f)[i].at + 2 <= EndOf(Points(f)[i]) /\ EndOf(Points(f)[i]) <= m
          /\ EndOf(Points(f)[i]) \in Nat /\ Points(f)[i].at \in Nat
      BY <2>1, PointPlaces
    <3> QED BY <1>0, <3>1
  <2>3. PICK a \in 1 .. Len(r) : h[a] = i
    BY <1>2, <1>4, <2>1, <2>2
  <2>4. Len(r) \in 1 .. Len(r)
    BY <1>1
  <2>5. k = h[Len(r)]
    BY <1>2, <2>4
  <2>6. a = Len(r) \/ a < Len(r)
    BY <1>1
  <2>7. CASE a = Len(r)
    BY <2>1, <2>3, <2>5, <2>7
  <2>8. CASE a < Len(r)
    <3>1. h[a] < h[Len(r)]
      BY <1>2, <2>4, <2>8
    <3> QED BY <1>3, <2>1, <2>3, <2>5, <3>1
  <2> QED BY <2>6, <2>7, <2>8
<1>5. ASSUME k >= 1 PROVE EndOf(Points(f)[k]) <= m
  <2>1. k \in 1 .. Len(Points(f))
    BY <1>3, <1>5
  <2> QED BY <2>1, PointPlaces
<1> QED BY <1>4, <1>5

-----------------------------------------------------------------------------
(* The reads.                                                              *)

\* What is said of a file does not depend on the faults still to come.
LEMMA SameFile ==
  ASSUME NEW f, NEW g, f.bytes = g.bytes, f.top = g.top
  PROVE  /\ Sound(f) <=> Sound(g)
         /\ CuesFit(f) <=> CuesFit(g)
         /\ VideoCues(f) = VideoCues(g)
<1>1. Sections(f) = Sections(g) /\ DataStart(f) = DataStart(g)
  BY DEF Sections, DataStart
<1>2. /\ SeekHead(f) = SeekHead(g) /\ Movie(f) = Movie(g) /\ Scale(f) = Scale(g)
      /\ Points(f) = Points(g)
  BY <1>1 DEF SeekHead, Movie, Scale, Points
<1>3. CuesSeeks(f) = CuesSeeks(g) /\ VideoTracks(f) = VideoTracks(g)
  BY <1>2 DEF CuesSeeks, VideoTracks
<1>4. VideoNumber(f) = VideoNumber(g)
  BY <1>2, <1>3 DEF VideoNumber
<1>5. ASSUME NEW p PROVE Of(f, p) = Of(g, p)
  BY <1>4 DEF Of
<1>6. ASSUME NEW p
      PROVE  /\ IsVideoCue(f, p) <=> IsVideoCue(g, p)
             /\ CueOf(f, p) = CueOf(g, p)
             /\ PointIsSound(f, p) <=> PointIsSound(g, p)
  <2>1. Of(f, p) = Of(g, p)
    BY <1>5
  <2>2. IsVideoCue(f, p) <=> IsVideoCue(g, p)
    BY <2>1 DEF IsVideoCue
  <2>3. CueOf(f, p) = CueOf(g, p)
    BY <1>1, <1>2, <2>1 DEF CueOf
  <2>4. PointIsSound(f, p) <=> PointIsSound(g, p)
    BY <1>1, <1>2, <2>1 DEF PointIsSound
  <2> QED BY <2>2, <2>3, <2>4
<1>7. CuesFit(f) <=> CuesFit(g)
  BY <1>1 DEF CuesFit
<1>8. VideoCues(f) = VideoCues(g)
  <2>1. Parts(f) = Parts(g)
    BY <1>2, <1>6 DEF Parts
  <2>2. VideoCues(f) = FlattenSeq(Parts(f)) /\ VideoCues(g) = FlattenSeq(Parts(g))
    BY DEF VideoCues, Parts
  <2> QED BY <2>1, <2>2
<1>9. Sound(f) <=> Sound(g)
  BY <1>1, <1>2, <1>3, <1>6 DEF Sound
<1> QED BY <1>7, <1>8, <1>9

\* The file as muxed is one too, and the same.
LEMMA AsMuxedIs ==
  ASSUME CueInv
  PROVE  /\ AsMuxed \in FileType /\ AsMuxed.bytes = file.bytes /\ AsMuxed.top = file.top
         /\ file.bytes \in Seq(Bytes) /\ Len(file.bytes) \in Nat
         /\ Sound(file) <=> Sound(AsMuxed)
         /\ CuesFit(file) <=> CuesFit(AsMuxed)
         /\ VideoCues(file) = VideoCues(AsMuxed)
<1>1. AsMuxed \in FileType /\ AsMuxed.bytes = file.bytes /\ AsMuxed.top = file.top
  BY DEF AsMuxed, CueInv, FileType
<1>2. file.bytes \in Seq(Bytes) /\ Len(file.bytes) \in Nat
  BY BufferType DEF CueInv, FileType, Bytes
<1>3. file.bytes = AsMuxed.bytes /\ file.top = AsMuxed.top
  BY <1>1
<1>4. /\ Sound(file) <=> Sound(AsMuxed)
      /\ CuesFit(file) <=> CuesFit(AsMuxed)
      /\ VideoCues(file) = VideoCues(AsMuxed)
  BY <1>3, SameFile, Zenon
<1> QED BY <1>1, <1>2, <1>4

\* A read gives the first of the bytes that there are, and all of them if it was not short.
LEMMA AnswerIs ==
  ASSUME CueInv, NEW at \in Nat, NEW n \in Nat, at <= Len(file.bytes), NEW got \in Answers(at, n)
  PROVE  \E q \in Nat :
           /\ q <= n /\ at + q <= Len(file.bytes) /\ got = SubSeq(file.bytes, at + 1, at + q)
           /\ got = Whole(at, n) => q = n \/ at + q = Len(file.bytes)
<1>1. file.bytes \in Seq(Bytes) /\ Len(file.bytes) \in Nat
  BY AsMuxedIs
<1>2. PICK w \in Nat : /\ w <= n /\ at + w <= Len(file.bytes)
                       /\ w = n \/ at + w = Len(file.bytes)
                       /\ Whole(at, n) = SubSeq(file.bytes, at + 1, at + w)
  <2>1. CASE at + n < Len(file.bytes)
    BY <1>1, <2>1 DEF Whole
  <2>2. CASE ~(at + n < Len(file.bytes))
    <3>1. PICK len \in Nat : len = Len(file.bytes)
      BY <1>1
    <3>2. at <= len /\ ~(at + n < len)
      BY <2>2, <3>1
    <3>3. len - at \in Nat /\ at + (len - at) = len /\ len - at <= n
      BY <3>2
    <3>4. Whole(at, n) = SubSeq(file.bytes, at + 1, Len(file.bytes))
      BY <2>2 DEF Whole
    <3>5. PICK w \in Nat : w <= n /\ at + w = Len(file.bytes)
      BY <3>1, <3>3
    <3>6. at + w <= Len(file.bytes) /\ Whole(at, n) = SubSeq(file.bytes, at + 1, at + w)
      <4>1. at + w <= Len(file.bytes)
        BY <3>1, <3>3, <3>5
      <4>2. Whole(at, n) = SubSeq(file.bytes, at + 1, at + w)
        BY <3>4, <3>5, Zenon
      <4> QED BY <4>1, <4>2
    <3> QED BY <3>5, <3>6
  <2> QED BY <2>1, <2>2
<1>3. CASE got = Whole(at, n)
  BY <1>2, <1>3
<1>4. CASE got # Whole(at, n)
  <2>1. PICK q \in 0 .. (Len(Whole(at, n)) - 1) : got = SubSeq(Whole(at, n), 1, q)
    BY <1>4 DEF Answers
  <2>2. Len(Whole(at, n)) = w
    <3>1. at + 1 \in 1 .. (Len(file.bytes) + 1) /\ at + w \in at .. Len(file.bytes)
      BY <1>1, <1>2
    <3>2. \A i \in (at + 1) .. (at + w) : file.bytes[i] \in Bytes
      BY <1>1, <1>2, BufferType
    <3>3. Len(SubSeq(file.bytes, at + 1, at + w)) = w
      BY <1>1, <1>2, <3>1, <3>2
    <3> QED BY <1>2, <3>3
  <2>3. q \in Nat /\ q < w
    BY <2>1, <2>2
  <2>4. got = SubSeq(file.bytes, at + 1, at + q)
    <3>1. /\ at + 1 \in Nat \ {0} /\ at + w \in Nat /\ 1 \in Nat \ {0}
          /\ (at + 1) - 1 + q <= at + w /\ (at + 1) - 1 + 1 = at + 1 /\ (at + 1) - 1 + q = at + q
      BY <1>2, <2>3
    <3>2. SubSeq(SubSeq(file.bytes, at + 1, at + w), 1, q)
            = SubSeq(file.bytes, (at + 1) - 1 + 1, (at + 1) - 1 + q)
      BY <1>1, <1>2, <2>3, <3>1, PartOfPart
    <3> QED BY <1>2, <2>1, <3>1, <3>2
  <2>5. q <= n /\ at + q <= Len(file.bytes)
    BY <1>1, <1>2, <2>3
  <2> QED BY <1>4, <2>3, <2>4, <2>5
<1> QED BY <1>3, <1>4

\* A read leaves the file as it is, and is among the short ones if it is.
LEMMA GotSame ==
  ASSUME CueInv, NEW at, NEW n, NEW got, Got(got, at, n)
  PROVE  /\ AsMuxed' = AsMuxed /\ short \subseteq short'
         /\ step \notin short' => got = Whole(at, n)
         /\ short' = {} => got = Whole(at, n)
<1>1. CASE got = Whole(at, n)
  BY <1>1 DEF Got, AsMuxed
<1>2. CASE got # Whole(at, n)
  <2>1. file' = [file EXCEPT !.faults = @ - 1] /\ short' = short \cup {step}
    BY <1>2 DEF Got
  <2>2. AsMuxed' = AsMuxed
    BY <2>1 DEF AsMuxed, CueInv, FileType
  <2> QED BY <2>1, <2>2
<1> QED BY <1>1, <1>2

-----------------------------------------------------------------------------
(* Each step keeps SoundInv: f is the file, and it is sound.               *)

\* The cues are in the file.
LEMMA CuesInside ==
  ASSUME NEW f \in FileType, Sound(f)
  PROVE  /\ CuesPos(f) \in Nat /\ Len(f.bytes) \in Nat /\ Len(CuesOf(f).data) \in Nat
         /\ Len(CuesOf(f).data) >= 1 /\ CuesPos(f) + CuesSize(f) <= Len(f.bytes)
         /\ CuesSize(f) \in Nat /\ CuesRead(f) \in Nat /\ CuesRead(f) <= CuesSize(f)
         /\ CuesFit(f) => CuesRead(f) = CuesSize(f) /\ CuesSize(f) >= MinChunk
<1>1. /\ Len(f.bytes) \in Nat /\ Len(CuesOf(f).data) \in Nat /\ CuesPos(f) \in Nat
      /\ Len(CuesOf(f).data) >= 1 /\ CuesPos(f) + 2 + Len(CuesOf(f).data) <= Len(f.bytes)
  BY SoundLevels, CuesLevels, CuesEnd, BufferType
<1>2. PICK len \in Nat, pos \in Nat, total \in Nat :
        /\ len = Len(CuesOf(f).data) /\ pos = CuesPos(f) /\ total = Len(f.bytes)
        /\ len >= 1 /\ pos + 2 + len <= total
  BY <1>1
<1>3. CuesSize(f) = 2 + len /\ pos + (2 + len) <= total
  BY <1>2 DEF CuesSize
<1>4. /\ CuesRead(f) \in Nat /\ CuesRead(f) <= CuesSize(f)
      /\ CuesFit(f) => CuesRead(f) = CuesSize(f) /\ CuesSize(f) >= MinChunk
  <2>1. CuesLimit \in Nat /\ MinChunk \in Nat
    BY FileAssumption
  <2>2. CuesFit(f) => MinChunk <= 2 + len /\ 2 + len <= CuesLimit
    BY <1>2, <2>1 DEF CuesFit, CuesOf
  <2> QED BY <1>3, <2>1, <2>2 DEF CuesRead
<1> QED BY <1>2, <1>3, <1>4

\* A place in the file is sought.
LEMMA Sought == ASSUME NEW at \in Nat PROVE From(at) = at
BY DEF From

\* All that there is of the header.
LEMMA HeaderSound ==
  ASSUME CueInv, SoundInv, ReadHeader, NEW f \in FileType, f = AsMuxed, Sound(f),
         "header" \notin short'
  PROVE  SoundAt(f)' /\ AsMuxed' = AsMuxed /\ short \subseteq short'
<1>1. PICK got \in Answers(0, HeaderSize) :
        /\ Got(got, 0, HeaderSize)
        /\ IF got = <<>> \/ ~FindsCues(got) THEN Fail
           ELSE \/ /\ info' = [scale |-> TimestampScale(got), track |-> VideoTrack(got),
                               start |-> SegmentStart(got), cues |-> CuesAt(got),
                               length |-> 0]
                   /\ GoOn("chunk") /\ UNCHANGED <<points, cues>>
                \/ /\ ReadsBefore(got)
                   /\ GoOn("crashed") /\ UNCHANGED <<info, points, cues>>
  BY DEF ReadHeader
<1>2. step = "header"
  BY DEF ReadHeader
<1>3. AsMuxed' = AsMuxed /\ short \subseteq short' /\ got = Whole(0, HeaderSize)
  BY <1>1, <1>2, GotSame
<1>4. got = HeadBytes(f)
  <2>1. f.bytes = file.bytes
    BY AsMuxedIs
  <2>2. 0 + 1 = 1 /\ 0 + HeaderSize = HeaderSize
    BY FileAssumption
  <2> QED BY <1>3, <2>1, <2>2 DEF Whole, HeadBytes, HeadLen, First
<1>5. got # <<>>
  <2>1. /\ HeadLen(f) \in 0 .. Len(f.bytes) /\ Len(f.bytes) \in Nat /\ f.bytes \in Seq(Bytes)
        /\ DataStart(f) \in Nat /\ DataStart(f) <= HeadLen(f)
    BY HeadOf, SoundLevels, BufferType
  <2>2. DataStart(f) >= 1
    <3>1. f.top[2].at \in Nat
      BY SoundLevels, ElementFields
    <3> QED BY <3>1 DEF DataStart
  <2>3. Len(HeadBytes(f)) = HeadLen(f)
    <3>1. HeadLen(f) \in Nat /\ HeadLen(f) <= Len(f.bytes)
      BY <2>1
    <3> QED BY <2>1, <3>1 DEF HeadBytes, First
  <2>4. Len(got) >= 1
    BY <1>4, <2>1, <2>2, <2>3
  <2> QED BY <2>4
<1>6. /\ TimestampScale(got) = Scale(f) /\ VideoTrack(got) = VideoNumber(f)
      /\ CuesAt(got) = CuesPos(f) /\ SegmentStart(got) = DataStart(f)
  BY <1>4, HeaderIsRight, HeadOf DEF CuesPos, CuesOf
<1>7. FindsCues(got) /\ ~ReadsBefore(got)
  BY <1>4, HeaderIsRight
<1>8. /\ info' = [scale |-> Scale(f), track |-> VideoNumber(f),
                  start |-> DataStart(f), cues |-> CuesPos(f), length |-> 0]
      /\ step' = "chunk" /\ cues' = cues
  BY <1>1, <1>5, <1>6, <1>7 DEF GoOn
<1>9. KnowsVideo(f)' /\ info'.cues = CuesPos(f)
  BY <1>8 DEF KnowsVideo
<1>10. cues = <<>>
  BY <1>2, <1>3 DEF SoundInv, SoundAt
<1> QED BY <1>3, <1>8, <1>9, <1>10 DEF SoundAt

\* The first of the cues: a failure is theirs to be too short, or the read's.
LEMMA ChunkSound ==
  ASSUME CueInv, SoundInv, ReadChunk, NEW f \in FileType, f = AsMuxed, Sound(f),
         "header" \notin short'
  PROVE  SoundAt(f)' /\ AsMuxed' = AsMuxed /\ short \subseteq short'
<1>1. PICK got \in Answers(From(info.cues), ChunkSize) :
        /\ Got(got, From(info.cues), ChunkSize)
        /\ IF Len(got) < MinChunk \/ got[1] # Id.Cues THEN Fail
           ELSE /\ info' = [info EXCEPT !.length = CuesLength(got)]
                /\ GoOn("cues") /\ UNCHANGED <<points, cues>>
  BY DEF ReadChunk
<1>2. step = "chunk"
  BY DEF ReadChunk
<1>3. AsMuxed' = AsMuxed /\ short \subseteq short' /\ (short' = {} => got = Whole(From(info.cues), ChunkSize))
  BY <1>1, <1>2, GotSame
<1>4. SoundAt(f)
  BY <1>3 DEF SoundInv
<1>5. /\ cues = <<>> /\ KnowsVideo(f) /\ info.cues = CuesPos(f) /\ info \in InfoType
      /\ From(info.cues) = CuesPos(f)
  BY <1>2, <1>4, CuesEnd, Sought DEF SoundAt, CueInv
<1>6. /\ CuesPos(f) \in Nat /\ Len(f.bytes) \in Nat /\ Len(CuesOf(f).data) \in Nat
      /\ CuesPos(f) <= Len(f.bytes) /\ f.bytes = file.bytes
      /\ CuesPos(f) + CuesSize(f) <= Len(f.bytes) /\ CuesSize(f) \in Nat
      /\ CuesFit(f) => CuesSize(f) >= MinChunk
      /\ ChunkSize \in Nat /\ MinChunk \in Nat /\ MinChunk >= 2 /\ MinChunk <= ChunkSize
  BY CuesInside, AsMuxedIs, CueAssumption, FileAssumption
<1>7. PICK q \in Nat :
        /\ q <= ChunkSize /\ CuesPos(f) + q <= Len(f.bytes)
        /\ got = SubSeq(f.bytes, CuesPos(f) + 1, CuesPos(f) + q)
        /\ got = Whole(CuesPos(f), ChunkSize) => q = ChunkSize \/ CuesPos(f) + q = Len(f.bytes)
  <2>1. PICK at \in Nat : at = CuesPos(f)
    BY <1>6
  <2>2. at <= Len(file.bytes) /\ got \in Answers(at, ChunkSize)
    BY <1>1, <1>5, <1>6, <2>1
  <2>3. PICK q \in Nat :
          /\ q <= ChunkSize /\ at + q <= Len(file.bytes)
          /\ got = SubSeq(file.bytes, at + 1, at + q)
          /\ got = Whole(at, ChunkSize) => q = ChunkSize \/ at + q = Len(file.bytes)
    BY <1>6, <2>2, AnswerIs
  <2> QED BY <1>6, <2>1, <2>3
<1>8. got = CuesBytes(f, q)
  BY <1>7 DEF CuesBytes
<1>9. /\ Len(got) = q
      /\ q >= 1 => got[1] = Id.Cues
      /\ q >= 2 => got[2] = Len(CuesOf(f).data)
  BY <1>7, <1>8, AtCues, ZenonT(30)
<1>10. CASE q < MinChunk
  <2>1. step' = "failed" /\ cues' = cues
    BY <1>1, <1>9, <1>10 DEF Fail
  <2>2. ASSUME short' = {}, CuesFit(f) PROVE FALSE
    <3>1. q = ChunkSize \/ CuesPos(f) + q = Len(f.bytes)
      BY <1>3, <1>5, <1>7, <2>2
    <3>2. PICK pos \in Nat, total \in Nat, size \in Nat :
            pos = CuesPos(f) /\ total = Len(f.bytes) /\ size = CuesSize(f)
      BY <1>6
    <3>3. pos + size <= total /\ size >= MinChunk /\ (q = ChunkSize \/ pos + q = total)
      BY <1>6, <2>2, <3>1, <3>2
    <3> QED BY <1>6, <1>10, <3>2, <3>3
  <2> QED BY <1>3, <1>5, <2>1, <2>2 DEF SoundAt
<1>11. CASE ~(q < MinChunk)
  <2>1. q >= 1 /\ q >= 2
    BY <1>6, <1>11
  <2>2. /\ info' = [info EXCEPT !.length = CuesLength(got)]
        /\ step' = "cues" /\ cues' = cues
    BY <1>1, <1>9, <1>11, <2>1 DEF GoOn
  <2>3. CuesLength(got) = CuesRead(f)
    BY <1>9, <2>1 DEF CuesLength, CuesRead, CuesSize
  <2>4. /\ info'.scale = info.scale /\ info'.track = info.track /\ info'.start = info.start
        /\ info'.cues = info.cues /\ info'.length = CuesRead(f)
    BY <1>5, <2>2, <2>3 DEF InfoType
  <2>5. KnowsVideo(f)' /\ info'.cues = CuesPos(f)
    BY <1>5, <2>4 DEF KnowsVideo
  <2> QED BY <1>3, <1>5, <2>2, <2>4, <2>5 DEF SoundAt
<1> QED BY <1>10, <1>11

\* All of the cues, or what came of them: the scan of their children begins.
LEMMA CuesSound ==
  ASSUME CueInv, SoundInv, ReadCues, NEW f \in FileType, f = AsMuxed, Sound(f),
         "header" \notin short'
  PROVE  SoundAt(f)' /\ AsMuxed' = AsMuxed /\ short \subseteq short'
<1>1. PICK got \in Answers(From(info.cues), info.length) :
        /\ Got(got, From(info.cues), info.length)
        /\ IF got = <<>> THEN Fail
           ELSE /\ points' = IF got[1] # Id.Cues THEN <<>>
                             ELSE Named(Id.CuePoint, SubSeq(got, 3, Len(got)))
                /\ GoOn("scan") /\ UNCHANGED <<info, cues>>
  BY DEF ReadCues
<1>2. step = "cues"
  BY DEF ReadCues
<1>3. /\ AsMuxed' = AsMuxed /\ short \subseteq short'
      /\ short' = {} => got = Whole(From(info.cues), info.length)
  BY <1>1, <1>2, GotSame
<1>4. SoundAt(f)
  BY <1>3 DEF SoundInv
<1>5. /\ cues = <<>> /\ KnowsVideo(f) /\ info.cues = CuesPos(f)
      /\ info.length = CuesRead(f) /\ From(info.cues) = CuesPos(f)
  BY <1>2, <1>4, CuesEnd, Sought DEF SoundAt
<1>6. /\ CuesPos(f) \in Nat /\ Len(f.bytes) \in Nat /\ Len(CuesOf(f).data) \in Nat
      /\ Len(CuesOf(f).data) >= 1 /\ CuesPos(f) <= Len(f.bytes) /\ f.bytes = file.bytes
      /\ CuesPos(f) + CuesSize(f) <= Len(f.bytes) /\ CuesRead(f) \in Nat
      /\ CuesRead(f) <= CuesSize(f) /\ CuesSize(f) = 2 + Len(CuesOf(f).data)
      /\ CuesFit(f) => CuesRead(f) = CuesSize(f)
  BY CuesInside, AsMuxedIs DEF CuesSize
<1>7. PICK q \in Nat :
        /\ q <= CuesRead(f) /\ CuesPos(f) + q <= Len(f.bytes)
        /\ got = SubSeq(f.bytes, CuesPos(f) + 1, CuesPos(f) + q)
        /\ got = Whole(CuesPos(f), CuesRead(f)) =>
             q = CuesRead(f) \/ CuesPos(f) + q = Len(f.bytes)
  <2>1. PICK at \in Nat, n \in Nat : at = CuesPos(f) /\ n = CuesRead(f)
    BY <1>6
  <2>2. at <= Len(file.bytes) /\ got \in Answers(at, n)
    BY <1>1, <1>5, <1>6, <2>1
  <2>3. PICK q \in Nat :
          /\ q <= n /\ at + q <= Len(file.bytes)
          /\ got = SubSeq(file.bytes, at + 1, at + q)
          /\ got = Whole(at, n) => q = n \/ at + q = Len(file.bytes)
    BY <2>2, AnswerIs
  <2> QED BY <1>6, <2>1, <2>3
<1>8. got = CuesBytes(f, q)
  BY <1>7 DEF CuesBytes
<1>9. /\ got \in Seq(Bytes) /\ Len(got) = q /\ (q >= 1 => got[1] = Id.Cues)
      /\ q <= 2 => SubSeq(got, 3, Len(got)) = First(CuesOf(f).data, 0)
      /\ q > 2 /\ q - 2 <= Len(CuesOf(f).data) =>
           SubSeq(got, 3, Len(got)) = First(CuesOf(f).data, q - 2)
  BY <1>7, <1>8, AtCues, ZenonT(30)
<1>10. ASSUME short' = {}, CuesFit(f) PROVE q = 2 + Len(CuesOf(f).data)
  <2>1. q = CuesRead(f) \/ CuesPos(f) + q = Len(f.bytes)
    BY <1>3, <1>5, <1>7, <1>10
  <2>2. PICK pos \in Nat, total \in Nat, len \in Nat, n \in Nat :
          pos = CuesPos(f) /\ total = Len(f.bytes) /\ len = Len(CuesOf(f).data) /\ n = CuesRead(f)
    BY <1>6
  <2>3. n = 2 + len /\ pos + (2 + len) <= total /\ q <= n /\ (q = n \/ pos + q = total)
    BY <1>6, <1>7, <1>10, <2>1, <2>2
  <2>4. q = 2 + len
    BY <2>3
  <2> QED BY <2>2, <2>4
<1>11. CASE got = <<>>
  <2>1. step' = "failed" /\ cues' = cues
    BY <1>1, <1>11 DEF Fail
  <2>2. q = 0
    BY <1>9, <1>11
  <2>3. short' # {} \/ ~CuesFit(f)
    BY <1>6, <1>10, <2>2
  <2> QED BY <1>3, <1>5, <2>1, <2>3 DEF SoundAt
<1>12. CASE got # <<>>
  <2>1. /\ points' = Named(Id.CuePoint, SubSeq(got, 3, Len(got)))
        /\ step' = "scan" /\ UNCHANGED <<info, cues>>
    <3>1. got[1] = Id.Cues
      BY <1>9, <1>12
    <3> QED BY <1>1, <1>12, <3>1 DEF GoOn
  <2>2. PICK m \in 0 .. Len(CuesOf(f).data) :
          /\ SubSeq(got, 3, Len(got)) = First(CuesOf(f).data, m)
          /\ short' = {} /\ CuesFit(f) => m = Len(CuesOf(f).data)
    <3>1. CASE q <= 2
      <4>1. ~(short' = {} /\ CuesFit(f))
        BY <1>6, <1>10, <3>1
      <4>2. 0 \in 0 .. Len(CuesOf(f).data)
        BY <1>6
      <4> QED BY <1>9, <3>1, <4>1, <4>2
    <3>2. CASE q > 2
      <4>1. q - 2 \in 0 .. Len(CuesOf(f).data)
        BY <1>6, <1>7, <3>2
      <4>2. short' = {} /\ CuesFit(f) => q - 2 = Len(CuesOf(f).data)
        BY <1>6, <1>10
      <4> QED BY <1>9, <3>2, <4>1, <4>2
    <3> QED BY <3>1, <3>2
  <2>3. PICK r : r = Named(Id.CuePoint, First(CuesOf(f).data, m))
    OBVIOUS
  <2>4. r \in Seq(Child) /\ Len(r) \in Nat
    BY <2>3, ReachedIs
  <2>5. points' = SubSeq(r, 0 + 1, Len(r))
    <3>1. points' = r
      BY <2>1, <2>2, <2>3
    <3> QED BY <2>4, <3>1, SubSeqFull
  <2>6. Reached(f, m, r, 0, 0)
    BY DEF Reached
  <2>7. CuesSoFar(f, m, 0, cues')
    <3>1. Joined(Parts(f), 0) = <<>>
      BY PartsType, JoinedSteps
    <3> QED BY <1>5, <2>1, <3>1 DEF CuesSoFar
  <2>8. 0 \in 0 .. Len(r) /\ 0 \in 0 .. Len(Points(f))
    BY <2>4, PartsType
  <2>9. Scanned(f)'
    BY <2>2, <2>3, <2>5, <2>6, <2>7, <2>8 DEF Scanned
  <2>10. KnowsVideo(f)' /\ info'.cues = CuesPos(f)
    BY <1>5, <2>1 DEF KnowsVideo
  <2> QED BY <1>3, <2>1, <2>9, <2>10 DEF SoundAt
<1> QED BY <1>11, <1>12

\* An element that is no cue of the video's adds nothing.
LEMMA NoPart ==
  ASSUME NEW f \in FileType, Sound(f), NEW a \in 0 .. Len(Points(f)), NEW b \in a .. Len(Points(f)),
         \A n \in (a + 1) .. b : ~IsVideoCue(f, Points(f)[n])
  PROVE  Joined(Parts(f), b) = Joined(Parts(f), a)
<1>1. /\ Parts(f) \in Seq(Seq(CuesOfPoints(f))) /\ Len(Parts(f)) = Len(Points(f))
      /\ Len(Points(f)) \in Nat
      /\ \A n \in 1 .. Len(Points(f)) :
           ~IsVideoCue(f, Points(f)[n]) => Parts(f)[n] = <<>>
  BY PartsType
<1>2. \A n \in (a + 1) .. b : n \in 1 .. Len(Points(f))
  BY <1>1
<1>3. \A n \in (a + 1) .. b : Parts(f)[n] = <<>>
  BY <1>1, <1>2
<1>4. a \in 0 .. Len(Parts(f)) /\ b \in a .. Len(Parts(f))
  BY <1>1
<1> QED BY <1>1, <1>3, <1>4, JoinedSkips

\* One that is adds its cue.
LEMMA OnePart ==
  ASSUME NEW f \in FileType, Sound(f), NEW n \in 1 .. Len(Points(f)),
         IsVideoCue(f, Points(f)[n])
  PROVE  Joined(Parts(f), n) = Joined(Parts(f), n - 1) \o <<CueOf(f, Points(f)[n])>>
<1>1. /\ Parts(f) \in Seq(Seq(CuesOfPoints(f))) /\ Len(Parts(f)) = Len(Points(f))
      /\ Len(Points(f)) \in Nat
      /\ Parts(f)[n] = <<CueOf(f, Points(f)[n])>>
  BY PartsType
<1>2. PICK k \in Nat : k = n - 1 /\ k + 1 = n /\ k < Len(Parts(f))
  BY <1>1
<1>3. Joined(Parts(f), k + 1) = Joined(Parts(f), k) \o Parts(f)[k + 1]
  BY <1>1, <1>2, JoinedSteps
<1> QED BY <1>1, <1>2, <1>3

\* An entry at the end of a sequence of any elements.
LEMMA AppendedAny ==
  ASSUME NEW S, NEW s \in Seq(S), NEW c
  PROVE  /\ Append(s, c) = s \o <<c>> /\ Append(s, c) # <<>>
         /\ Len(s) \in Nat /\ Len(Append(s, c)) = Len(s) + 1
         /\ Append(s, c)[Len(Append(s, c))] = c
         /\ \A n \in 1 .. Len(s) : Append(s, c)[n] = s[n]
<1>1. s \in Seq(S \cup {c}) /\ c \in S \cup {c}
  OBVIOUS
<1> QED BY <1>1, Appended, AppendIsConcat

\* The cue points that are still to come, one less.
LEMMA OneLess ==
  ASSUME NEW S, NEW r \in Seq(S), NEW j \in 0 .. Len(r), SubSeq(r, j + 1, Len(r)) # <<>>
  PROVE  /\ j < Len(r) /\ Len(r) \in Nat
         /\ Head(SubSeq(r, j + 1, Len(r))) = r[j + 1]
         /\ Tail(SubSeq(r, j + 1, Len(r))) = SubSeq(r, (j + 1) + 1, Len(r))
<1>1. Len(r) \in Nat /\ j \in Nat /\ j + 1 \in Int
  OBVIOUS
<1>2. j < Len(r)
  <2>1. CASE Len(r) < j + 1
    BY <1>1, <2>1, SubSeqEmpty
  <2> QED BY <1>1, <2>1
<1>3. \A n \in (j + 1) .. Len(r) : r[n] \in S
  BY <1>1, ElementOfSeq
<1>4. PICK t \in Seq(S) : t = SubSeq(r, j + 1, Len(r))
  <2>1. SubSeq(r, j + 1, Len(r)) \in Seq(S)
    BY <1>1, <1>3, SubSeqProperties
  <2> QED BY <2>1
<1>5. /\ Len(t) = Len(r) - j
      /\ \A n \in 1 .. (Len(r) - j) : t[n] = r[j + n]
  <2>1. /\ Len(t) = IF j + 1 <= Len(r) THEN Len(r) - (j + 1) + 1 ELSE 0
        /\ \A n \in 1 .. (Len(r) - (j + 1) + 1) : t[n] = r[j + 1 + n - 1]
    BY <1>1, <1>3, <1>4, SubSeqProperties
  <2>2. Len(r) - (j + 1) + 1 = Len(r) - j /\ j + 1 <= Len(r) /\ \A n \in Nat : j + 1 + n - 1 = j + n
    BY <1>1, <1>2
  <2> QED BY <2>1, <2>2
<1>6. Head(t) = r[j + 1]
  BY <1>1, <1>2, <1>4, <1>5
<1>7. Tail(t) = SubSeq(r, (j + 1) + 1, Len(r))
  <2>1. \A n \in (j + 1 + 1) .. Len(r) : r[n] \in S
    BY <1>1, ElementOfSeq
  <2>2. PICK u \in Seq(S) : u = SubSeq(r, j + 1 + 1, Len(r))
    <3>1. j + 1 + 1 \in Int /\ Len(r) \in Int
      BY <1>1
    <3>2. SubSeq(r, j + 1 + 1, Len(r)) \in Seq(S)
      BY <2>1, <3>1, SubSeqProperties
    <3> QED BY <3>2
  <2>3. /\ Len(u) = Len(r) - j - 1
        /\ \A n \in 1 .. (Len(r) - j - 1) : u[n] = r[j + 1 + n]
    <3>0. j + 1 + 1 \in Int /\ Len(r) \in Int
      BY <1>1
    <3>1. /\ Len(u) = IF j + 1 + 1 <= Len(r) THEN Len(r) - (j + 1 + 1) + 1 ELSE 0
          /\ \A n \in 1 .. (Len(r) - (j + 1 + 1) + 1) : u[n] = r[j + 1 + 1 + n - 1]
      BY <2>1, <2>2, <3>0, SubSeqProperties
    <3>2. /\ Len(r) - (j + 1 + 1) + 1 = Len(r) - j - 1
          /\ ~(j + 1 + 1 <= Len(r)) => Len(r) - j - 1 = 0
      BY <1>1, <1>2
    <3>3. Len(u) = Len(r) - j - 1
      BY <3>1, <3>2
    <3>4. ASSUME NEW n \in 1 .. (Len(r) - j - 1) PROVE u[n] = r[j + 1 + n]
      <4>1. n \in 1 .. (Len(r) - (j + 1 + 1) + 1)
        BY <3>2
      <4>2. n \in Int /\ j \in Int
        BY <1>1
      <4>3. j + 1 + 1 + n - 1 = j + 1 + n
        BY ONLY <4>2
      <4> QED BY <3>1, <4>1, <4>3
    <3> QED BY <3>3, <3>4
  <2>4. /\ Tail(t) \in Seq(S) /\ Len(Tail(t)) = Len(r) - j - 1
        /\ \A n \in 1 .. (Len(r) - j - 1) : Tail(t)[n] = t[n + 1]
    <3>1. t # <<>> /\ Len(r) - j - 1 = Len(t) - 1
      BY <1>1, <1>2, <1>4, <1>5
    <3> QED BY <1>4, <3>1
  <2>5. \A n \in 1 .. (Len(r) - j - 1) : t[n + 1] = r[j + 1 + n]
    <3> TAKE n \in 1 .. (Len(r) - j - 1)
    <3>1. n + 1 \in 1 .. (Len(r) - j) /\ j + (n + 1) = j + 1 + n
      BY <1>1
    <3> QED BY <1>5, <3>1
  <2>6. Len(Tail(t)) = Len(u) /\ \A n \in 1 .. Len(u) : Tail(t)[n] = u[n]
    BY <2>3, <2>4, <2>5
  <2>7. Tail(t) = u
    BY <2>2, <2>4, <2>6, SeqEqual
  <2> QED BY <2>2, <2>7
<1> QED BY <1>1, <1>2, <1>4, <1>6, <1>7

\* A visit of a cue point, which may be the one that was cut off.
LEMMA VisitSound ==
  ASSUME CueInv, SoundInv, VisitCuePoint, NEW f \in FileType, f = AsMuxed, Sound(f),
         "header" \notin short'
  PROVE  SoundAt(f)' /\ AsMuxed' = AsMuxed /\ short \subseteq short'
<1>1. /\ step = "scan" /\ step' = "scan" /\ points # <<>> /\ points' = Tail(points)
      /\ UNCHANGED <<file, short, info>>
      /\ IsCue(Head(points).data) => cues' = Append(cues, Entry(Head(points).data))
      /\ ~IsCue(Head(points).data) => cues' = cues
  BY DEF VisitCuePoint
<1>2. AsMuxed' = AsMuxed /\ short' = short
  BY <1>1 DEF AsMuxed
<1>3. SoundAt(f)
  BY <1>2 DEF SoundInv
<1>4. Scanned(f) /\ KnowsVideo(f) /\ info.cues = CuesPos(f)
  BY <1>1, <1>3 DEF SoundAt
<1>5. PICK m \in 0 .. Len(CuesOf(f).data) :
        /\ short = {} /\ CuesFit(f) => m = Len(CuesOf(f).data)
        /\ LET r == Named(Id.CuePoint, First(CuesOf(f).data, m))
           IN  \E j \in 0 .. Len(r), k \in 0 .. Len(Points(f)) :
                 /\ points = SubSeq(r, j + 1, Len(r))
                 /\ Reached(f, m, r, j, k) /\ CuesSoFar(f, m, k, cues)
  BY <1>4 DEF Scanned
<1>6. PICK r : r = Named(Id.CuePoint, First(CuesOf(f).data, m))
  OBVIOUS
<1>7. r \in Seq(Child) /\ Len(r) \in Nat
  BY <1>6, ReachedIs
<1>8. PICK j \in 0 .. Len(r), k \in 0 .. Len(Points(f)) :
        /\ points = SubSeq(r, j + 1, Len(r))
        /\ Reached(f, m, r, j, k) /\ CuesSoFar(f, m, k, cues)
  BY <1>5, <1>6
<1>9. /\ j < Len(r) /\ Head(points) = r[j + 1] /\ points' = SubSeq(r, (j + 1) + 1, Len(r))
  BY <1>1, <1>7, <1>8, OneLess
<1>10. PICK n \in 1 .. Len(Points(f)) :
         /\ k < n /\ Reached(f, m, r, j + 1, n)
         /\ \A i \in (k + 1) .. (n - 1) : Points(f)[i].id # Id.CuePoint
         /\ k >= 1 => EndOf(Points(f)[k]) <= m
  BY <1>6, <1>8, <1>9, NextReached
<1>n. /\ Len(Points(f)) \in Nat /\ n \in DOMAIN Points(f) /\ m \in Nat
      /\ n - 1 \in 0 .. Len(Points(f)) /\ n - 1 \in k .. Len(Points(f)) /\ j + 1 \in 0 .. Len(r)
      /\ n \in 0 .. Len(Points(f)) /\ n \in (n - 1) .. Len(Points(f)) /\ (n - 1) + 1 = n
      /\ n \in Nat /\ n >= 1
  <2>1. Len(Points(f)) \in Nat /\ DOMAIN Points(f) = 1 .. Len(Points(f))
        /\ Len(CuesOf(f).data) \in Nat
    BY PartsType, CuesInside
  <2> QED BY <1>7, <1>8, <1>9, <1>10, <2>1
<1>11. cues = Joined(Parts(f), n - 1)
  <2>1. cues = Joined(Parts(f), k)
    <3>1. ASSUME k >= 1 PROVE ~(EndOf(Points(f)[k]) > m)
      <4>1. k \in 1 .. Len(Points(f)) /\ EndOf(Points(f)[k]) <= m
        BY <1>8, <1>10, <3>1
      <4>2. EndOf(Points(f)[k]) \in Nat
        BY <4>1, PointPlaces
      <4> QED BY <1>n, <4>1, <4>2
    <3> QED BY <1>8, <3>1 DEF CuesSoFar
  <2>2. \A i \in (k + 1) .. (n - 1) : ~IsVideoCue(f, Points(f)[i])
    BY <1>10 DEF IsVideoCue
  <2>3. Joined(Parts(f), n - 1) = Joined(Parts(f), k)
    BY <1>n, <2>2, NoPart
  <2> QED BY <2>1, <2>3
<1>12. PICK e \in Element(Positions) : e = Points(f)[n] /\ e.id = Id.CuePoint
  <2>1. j + 1 # 0
    BY <1>7
  <2>2. Points(f)[n].id = Id.CuePoint
    BY <1>10, <2>1 DEF Reached
  <2> QED BY <1>n, <2>2, CuesLevels
<1>13. PICK x \in 0 .. Len(e.data) :
         /\ Head(points).data = First(e.data, x)
         /\ EndOf(e) <= m => x = Len(e.data)
  <2>1. r[j + 1] = CutOf(e, CuesOf(f).data, 0, m) /\ e.at + 2 <= m
    <3>1. j + 1 # 0
      BY <1>7
    <3> QED BY <1>10, <1>12, <3>1 DEF Reached
  <2>2. Shown(e, m) \in 0 .. Len(e.data)
    <3>1. PICK at \in Nat, len \in Nat : at = e.at /\ len = Len(e.data) /\ EndOf(e) = at + 1 + len
      BY ElementFields DEF EndOf
    <3>2. at + 2 <= m /\ m \in Nat
      BY <1>n, <2>1, <3>1
    <3>3. CASE at + 1 + len <= m
      BY <3>1, <3>3 DEF Shown
    <3>4. CASE ~(at + 1 + len <= m)
      <4>1. m - at - 1 \in 0 .. len
        BY <3>2, <3>4
      <4> QED BY <3>1, <3>4, <4>1 DEF Shown
    <3> QED BY <3>3, <3>4
  <2>3. Head(points).data = First(e.data, Shown(e, m))
    BY <1>9, <2>1 DEF CutOf, First
  <2>4. EndOf(e) <= m => Shown(e, m) = Len(e.data)
    BY DEF Shown
  <2> QED BY <2>2, <2>3, <2>4
<1>14. CuesSoFar(f, m, n, cues')
  <2>0. Joined(Parts(f), n - 1) \in Seq(CuesOfPoints(f))
    <3>1. n - 1 \in 0 .. Len(Parts(f))
      BY <1>n, PartsType
    <3> QED BY <3>1, PartsType, JoinedSteps
  <2>1. CASE EndOf(e) <= m
    <3>1. Head(points).data = e.data
      BY <1>13, <2>1, ElementFields, FirstFull
    <3>2. CASE IsVideoCue(f, e)
      <4>1. IsCue(e.data) /\ Entry(e.data) = CueOf(f, e)
        BY <1>4, <1>12, <1>n, <3>2, WholePoint
      <4>2. cues' = Append(cues, CueOf(f, e))
        BY <1>1, <3>1, <4>1
      <4>3. cues' = Joined(Parts(f), n - 1) \o <<CueOf(f, e)>>
        BY <1>11, <2>0, <4>2, AppendedAny
      <4>4. cues' = Joined(Parts(f), n)
        BY <1>12, <3>2, <4>3, OnePart
      <4> QED BY <4>4 DEF CuesSoFar
    <3>3. CASE ~IsVideoCue(f, e)
      <4>1. ~IsCue(e.data)
        <5>1. Len(e.data) \in 0 .. Len(e.data) /\ First(e.data, Len(e.data)) = e.data
          BY ElementFields, FirstFull
        <5> QED BY <1>4, <1>12, <1>n, <3>3, <5>1, CutPoint
      <4>2. cues' = Joined(Parts(f), n - 1)
        BY <1>1, <1>11, <3>1, <4>1
      <4>3. \A i \in ((n - 1) + 1) .. n : ~IsVideoCue(f, Points(f)[i])
        BY <1>12, <1>n, <3>3
      <4>4. Joined(Parts(f), n) = Joined(Parts(f), n - 1)
        BY <1>n, <4>3, NoPart
      <4> QED BY <4>2, <4>4 DEF CuesSoFar
    <3> QED BY <3>2, <3>3
  <2>2. CASE ~(EndOf(e) <= m)
    <3>1. EndOf(Points(f)[n]) > m
      BY <1>12, <1>n, <2>2, ElementFields
    <3>2. CASE IsCue(First(e.data, x))
      <4>1. IsVideoCue(f, e) /\ Entry(First(e.data, x)).time = CueOf(f, e).time
        BY <1>4, <1>12, <1>n, <3>2, CutPoint
      <4>2. PICK c : c = Entry(First(e.data, x))
        OBVIOUS
      <4>3. cues' = Append(Joined(Parts(f), n - 1), c)
        BY <1>1, <1>11, <1>13, <3>2, <4>2
      <4>4. cues' # <<>> /\ cues'[Len(cues')] = c
        BY <2>0, <4>3, AppendedAny
      <4> QED BY <1>12, <1>n, <3>1, <4>1, <4>2, <4>3, <4>4 DEF CuesSoFar
    <3>3. CASE ~IsCue(First(e.data, x))
      <4>1. cues' = Joined(Parts(f), n - 1)
        BY <1>1, <1>11, <1>13, <3>3
      <4> QED BY <1>n, <3>1, <4>1 DEF CuesSoFar
    <3> QED BY <3>2, <3>3
  <2> QED BY <2>1, <2>2
<1>15. Scanned(f)'
  <2>1. short' = {} /\ CuesFit(f) => m = Len(CuesOf(f).data)
    BY <1>2, <1>5
  <2> QED BY <1>6, <1>9, <1>10, <1>14, <1>n, <2>1 DEF Scanned
<1>16. KnowsVideo(f)' /\ info'.cues = CuesPos(f)
  BY <1>1, <1>4 DEF KnowsVideo
<1> QED BY <1>1, <1>2, <1>15, <1>16 DEF SoundAt

-----------------------------------------------------------------------------
(* What is found in a sound file.                                          *)

LEMMA InitSoundInv == CueInit => SoundInv
BY DEF CueInit, SoundInv, SoundAt

\* Every other step leaves what was read, and what was made of it.
LEMMA OtherSteps ==
  ASSUME CueInv, SoundInv, BeginFilter \/ Filter \/ UNCHANGED <<vars, cueVars>>,
         NEW f \in FileType, f = AsMuxed, Sound(f), "header" \notin short'
  PROVE  SoundAt(f)' /\ AsMuxed' = AsMuxed /\ short \subseteq short'
<1>1. UNCHANGED <<file, short, info, points, cues>>
  BY DEF BeginFilter, Filter, cueVars
<1>2. AsMuxed' = AsMuxed /\ short' = short
  BY <1>1 DEF AsMuxed
<1>3. SoundAt(f)
  BY <1>2 DEF SoundInv
<1>4. (Scanned(f) => Scanned(f)') /\ (KnowsVideo(f) => KnowsVideo(f)')
  BY <1>1 DEF Scanned, KnowsVideo
<1>5. CASE BeginFilter
  BY <1>1, <1>2, <1>3, <1>4, <1>5 DEF SoundAt, BeginFilter
<1>6. CASE Filter \/ UNCHANGED <<vars, cueVars>>
  <2>1. step' = step
    BY <1>6 DEF Filter, cueVars
  <2> QED BY <1>1, <1>2, <1>3, <1>4, <2>1 DEF SoundAt
<1> QED BY <1>5, <1>6

LEMMA NextSoundInv ==
  ASSUME CueInv, SoundInv, [CueNext]_<<vars, cueVars>>
  PROVE  SoundInv'
<1>1. PICK f \in FileType : f = AsMuxed
  BY AsMuxedIs
<1>2. AsMuxed' = AsMuxed /\ short \subseteq short'
  <2>1. CASE ReadHeader
    BY <2>1, GotSame DEF ReadHeader
  <2>2. CASE ReadChunk
    BY <2>2, GotSame DEF ReadChunk
  <2>3. CASE ReadCues
    BY <2>3, GotSame DEF ReadCues
  <2>4. CASE VisitCuePoint \/ BeginFilter \/ Filter \/ UNCHANGED <<vars, cueVars>>
    BY <2>4 DEF VisitCuePoint, BeginFilter, Filter, cueVars, AsMuxed
  <2> QED BY <2>1, <2>2, <2>3, <2>4 DEF CueNext
<1>3. ASSUME Sound(f), "header" \notin short' PROVE SoundAt(f)'
  BY <1>1, <1>3, HeaderSound, ChunkSound, CuesSound, VisitSound, OtherSteps DEF CueNext
<1>4. SUFFICES ASSUME NEW g \in {AsMuxed'}, Sound(g), "header" \notin short'
               PROVE  SoundAt(g)'
  BY DEF SoundInv
<1>5. g = f
  BY <1>1, <1>2, <1>4
<1> QED BY <1>3, <1>4, <1>5

LEMMA SoundInductive == ASSUME CueTime = Times PROVE CueSpec => []SoundInv
<1>1. CueInv /\ SoundInv /\ [CueNext]_<<vars, cueVars>> => SoundInv'
  BY NextSoundInv
<1> QED BY <1>1, CueInductive, InitSoundInv, PTL DEF CueSpec

\* What was scanned of the cues, when nothing is left of them.
LEMMA ScannedAll ==
  ASSUME NEW f \in FileType, Sound(f), Scanned(f), points = <<>>, short = {}, CuesFit(f)
  PROVE  cues = VideoCues(f)
<1>1. PICK m : /\ m = Len(CuesOf(f).data) /\ m \in 0 .. Len(CuesOf(f).data)
               /\ LET r == Named(Id.CuePoint, First(CuesOf(f).data, m))
                  IN  \E j \in 0 .. Len(r), k \in 0 .. Len(Points(f)) :
                        /\ points = SubSeq(r, j + 1, Len(r))
                        /\ Reached(f, m, r, j, k) /\ CuesSoFar(f, m, k, cues)
  BY DEF Scanned
<1>2. PICK r : r = Named(Id.CuePoint, First(CuesOf(f).data, m))
  OBVIOUS
<1>3. r \in Seq(Child) /\ Len(r) \in Nat
  BY <1>1, <1>2, ReachedIs
<1>4. PICK j \in 0 .. Len(r), k \in 0 .. Len(Points(f)) :
        /\ points = SubSeq(r, j + 1, Len(r))
        /\ Reached(f, m, r, j, k) /\ CuesSoFar(f, m, k, cues)
  BY <1>1, <1>2
<1>5. j = Len(r)
  <2>1. ASSUME j < Len(r) PROVE FALSE
    <3>1. j + 1 \in Int /\ Len(r) \in Int /\ j + 1 <= Len(r)
      BY <1>3, <2>1
    <3>2. \A n \in (j + 1) .. Len(r) : r[n] \in Child
      BY <1>3, <3>1, ElementOfSeq
    <3>3. Len(SubSeq(r, j + 1, Len(r))) = Len(r) - (j + 1) + 1
      BY <3>1, <3>2, SubSeqProperties
    <3>4. SubSeq(r, j + 1, Len(r)) = <<>>
      BY <1>4
    <3>5. Len(<<>>) = Len(r) - (j + 1) + 1
      BY <3>3, <3>4, Zenon
    <3> QED BY <3>1, <3>5
  <2> QED BY <1>3, <2>1
<1>6. /\ \A i \in (k + 1) .. Len(Points(f)) : Points(f)[i].id # Id.CuePoint
      /\ k >= 1 => EndOf(Points(f)[k]) <= m
  BY <1>1, <1>2, <1>4, <1>5, LastReached
<1>7. Len(Points(f)) \in Nat /\ Len(Points(f)) \in k .. Len(Points(f)) /\ m \in Nat
  BY <1>1, PartsType, CuesInside
<1>8. cues = Joined(Parts(f), k)
  <2>1. ASSUME k >= 1 PROVE ~(EndOf(Points(f)[k]) > m)
    <3>1. k \in 1 .. Len(Points(f)) /\ EndOf(Points(f)[k]) <= m
      BY <1>4, <1>6, <2>1
    <3>2. EndOf(Points(f)[k]) \in Nat
      BY <3>1, PointPlaces
    <3> QED BY <1>7, <3>1, <3>2
  <2> QED BY <1>4, <2>1 DEF CuesSoFar
<1>9. Joined(Parts(f), Len(Points(f))) = Joined(Parts(f), k)
  <2>1. \A i \in (k + 1) .. Len(Points(f)) : ~IsVideoCue(f, Points(f)[i])
    BY <1>6 DEF IsVideoCue
  <2> QED BY <1>7, <2>1, NoPart
<1> QED BY <1>8, <1>9, PartsType

\* What was scanned of them so far.
LEMMA ScannedSome ==
  ASSUME NEW f \in FileType, Sound(f), Scanned(f)
  PROVE  /\ Len(cues) <= Len(VideoCues(f))
         /\ \A n \in DOMAIN cues :
              /\ cues[n].time = VideoCues(f)[n].time
              /\ n < Len(cues) => cues[n].cluster = VideoCues(f)[n].cluster
<1>1. PICK m \in Nat, k \in 0 .. Len(Points(f)) : CuesSoFar(f, m, k, cues)
  <2>1. Len(CuesOf(f).data) \in Nat
    BY CuesInside
  <2> QED BY <2>1 DEF Scanned
<1>2. /\ Parts(f) \in Seq(Seq(CuesOfPoints(f))) /\ Len(Parts(f)) = Len(Points(f))
      /\ Len(Points(f)) \in Nat /\ VideoCues(f) = Joined(Parts(f), Len(Points(f)))
  BY PartsType
<1>3. PICK all \in Seq(CuesOfPoints(f)) : all = VideoCues(f) /\ all = Joined(Parts(f), Len(Points(f)))
  <2>1. Len(Points(f)) \in 0 .. Len(Parts(f))
    BY <1>2
  <2> QED BY <1>2, <2>1, JoinedSteps
<1>4. ASSUME NEW a \in 0 .. Len(Points(f))
      PROVE  /\ Joined(Parts(f), a) \in Seq(CuesOfPoints(f)) /\ Len(Joined(Parts(f), a)) \in Nat
             /\ Len(Joined(Parts(f), a)) <= Len(all)
             /\ \A i \in 1 .. Len(Joined(Parts(f), a)) : all[i] = Joined(Parts(f), a)[i]
  <2>1. a \in 0 .. Len(Parts(f)) /\ Len(Points(f)) \in a .. Len(Parts(f))
    BY <1>2
  <2> QED BY <1>2, <1>3, <2>1, JoinedBegins, JoinedSteps, SMTT(30)
<1>5. ASSUME NEW a \in 0 .. Len(Points(f)), cues = Joined(Parts(f), a)
      PROVE  Len(cues) <= Len(all) /\ \A n \in DOMAIN cues : cues[n] = all[n]
  <2>1. DOMAIN cues = 1 .. Len(cues)
    BY <1>4, <1>5
  <2> QED BY <1>4, <1>5, <2>1
<1>6. CASE cues = Joined(Parts(f), k)
  BY <1>3, <1>5, <1>6
<1>7. CASE k >= 1 /\ cues = Joined(Parts(f), k - 1)
  <2>1. k - 1 \in 0 .. Len(Points(f))
    BY <1>2, <1>7
  <2> QED BY <1>3, <1>5, <1>7, <2>1
<1>8. CASE /\ k >= 1 /\ cues # <<>> /\ cues = Append(Joined(Parts(f), k - 1), cues[Len(cues)])
           /\ IsVideoCue(f, Points(f)[k])
           /\ cues[Len(cues)].time = CueOf(f, Points(f)[k]).time
  <2>1. k - 1 \in 0 .. Len(Points(f)) /\ k \in 1 .. Len(Points(f))
    BY <1>2, <1>8
  <2>2. PICK before \in Seq(CuesOfPoints(f)) : before = Joined(Parts(f), k - 1)
    BY <1>4, <2>1
  <2>3. PICK c : c = cues[Len(cues)]
    OBVIOUS
  <2>4. cues = Append(before, c)
    BY <1>8, <2>2, <2>3
  <2>5. /\ Len(before) \in Nat /\ Len(cues) = Len(before) + 1
        /\ \A n \in 1 .. Len(before) : cues[n] = before[n]
    BY <2>4, AppendedAny
  <2>6. DOMAIN cues = 1 .. Len(cues)
    BY <2>4
  <2>7. PICK d \in CuesOfPoints(f) : d = CueOf(f, Points(f)[k])
    BY <2>1, PartsType
  <2>8. Joined(Parts(f), k) = before \o <<d>>
    BY <1>8, <2>1, <2>2, <2>7, OnePart
  <2>9. /\ Len(Joined(Parts(f), k)) = Len(before) + 1
        /\ Joined(Parts(f), k)[Len(before) + 1] = d
        /\ \A n \in 1 .. Len(before) : Joined(Parts(f), k)[n] = before[n]
    BY <2>8
  <2>10. /\ Len(before) + 1 <= Len(all)
         /\ all[Len(before) + 1] = d
         /\ \A n \in 1 .. Len(before) : all[n] = before[n]
    <3>1. \A n \in 1 .. Len(before) : n \in 1 .. (Len(before) + 1)
      BY <2>5
    <3>2. Len(before) + 1 \in 1 .. (Len(before) + 1)
      BY <2>5
    <3> QED BY <1>1, <1>4, <2>9, <3>1, <3>2
  <2>11. ASSUME NEW n \in DOMAIN cues
         PROVE  cues[n].time = all[n].time /\ (n < Len(cues) => cues[n].cluster = all[n].cluster)
    <3>1. CASE n \in 1 .. Len(before)
      BY <2>5, <2>10, <3>1
    <3>2. CASE n \notin 1 .. Len(before)
      <4>1. n = Len(before) + 1 /\ n = Len(cues) /\ ~(n < Len(cues))
        BY <2>5, <2>6, <3>2
      <4> QED BY <1>8, <2>7, <2>10, <4>1
    <3> QED BY <3>1, <3>2
  <2> QED BY <1>3, <2>5, <2>10, <2>11
<1> QED BY <1>1, <1>6, <1>7, <1>8 DEF CuesSoFar

\* A sound file, of any size and with whatever else between its elements, whose three
\* reads are whole and whose cues fit has the boundaries made of its video track's
\* cues: none missing, none of another track, each with its time and the place of its
\* cluster (EbmlParser.h:111-410, Demuxer.cpp:78-175).
THEOREM CuesFound == ASSUME CueTime = Times PROVE CueSpec => []CuesAreTheVideos
<1>1. CueInv /\ SoundInv => CuesAreTheVideos
  <2> SUFFICES ASSUME CueInv, SoundInv, phase = "done", short = {}, Sound(file), CuesFit(file)
               PROVE  cues = VideoCues(file)
    BY DEF CuesAreTheVideos
  <2>1. PICK f \in FileType : /\ f = AsMuxed /\ Sound(f) /\ CuesFit(f)
                              /\ VideoCues(file) = VideoCues(f)
    BY AsMuxedIs
  <2>2. SoundAt(f)
    BY <2>1 DEF SoundInv
  <2>3. step \in {"filter", "failed"}
    BY DEF CueInv
  <2>4. step = "filter"
    BY <2>1, <2>2, <2>3 DEF SoundAt
  <2>5. Scanned(f) /\ points = <<>>
    BY <2>2, <2>4 DEF SoundAt
  <2> QED BY <2>1, <2>5, ScannedAll
<1> QED BY <1>1, CueInductive, SoundInductive, PTL

\* When the cues of a sound file come back short, or are more than are read, those
\* that are taken are the file's first, at their times; only the cluster of the last
\* may be cut off (Demuxer.cpp:138-160, EbmlParser.h:251-327).
THEOREM ShortCues == ASSUME CueTime = Times PROVE CueSpec => []ShortCuesAreTheFirst
<1>1. CueInv /\ SoundInv => ShortCuesAreTheFirst
  <2> SUFFICES ASSUME CueInv, SoundInv, cues # <<>>, "header" \notin short, Sound(file)
               PROVE  /\ Len(cues) <= Len(VideoCues(file))
                      /\ \A n \in DOMAIN cues :
                           /\ cues[n].time = VideoCues(file)[n].time
                           /\ n < Len(cues) => cues[n].cluster = VideoCues(file)[n].cluster
    BY DEF ShortCuesAreTheFirst
  <2>1. PICK f \in FileType : f = AsMuxed /\ Sound(f) /\ VideoCues(file) = VideoCues(f)
    BY AsMuxedIs
  <2>2. SoundAt(f)
    BY <2>1 DEF SoundInv
  <2>3. step \in {"scan", "filter"}
    BY <2>2 DEF SoundAt, CueInv
  <2>4. Scanned(f)
    BY <2>2, <2>3 DEF SoundAt
  <2> QED BY <2>1, <2>4, ScannedSome
<1> QED BY <1>1, CueInductive, SoundInductive, PTL
=============================================================================
