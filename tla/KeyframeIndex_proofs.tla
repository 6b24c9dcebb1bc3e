------------------------ MODULE KeyframeIndex_proofs ------------------------
(***************************************************************************)
(* Proofs about KeyframeIndex, for every set of cue times, every target    *)
(* duration and every number of cues.                                      *)
(***************************************************************************)
EXTENDS KeyframeIndex, SequenceTheorems, TLAPS

\* The while loop of FilterKeyframes yields a number again.
LEMMA TargetAfterType ==
  ASSUME NEW target \in Nat, NEW t \in Int, t >= target
  PROVE  TargetAfter(target, t) \in Nat
<1> DEFINE q == (t - target) \div Target
<1>1. q \in Nat
  BY KeyframeAssumption, SMT DEF KeyframeAssumption
<1>2. Target * (q + 1) \in Nat
  <2> HIDE DEF q
  <2> QED BY <1>1, KeyframeAssumption, SMT DEF KeyframeAssumption
<1> QED
  BY <1>2 DEF TargetAfter

\* What Append makes of a sequence.
LEMMA Appended ==
  ASSUME NEW S, NEW s \in Seq(S), NEW e \in S
  PROVE  /\ Append(s, e) \in Seq(S) /\ Append(s, e) # <<>>
         /\ Len(Append(s, e)) = Len(s) + 1
         /\ DOMAIN Append(s, e) = 1 .. (Len(s) + 1)
         /\ \A n \in 1 .. Len(s) : Append(s, e)[n] = s[n]
         /\ Append(s, e)[Len(s) + 1] = e
         /\ FinalOf(Append(s, e)) = e
BY DEF FinalOf

\* An element put after smaller ones keeps a sequence increasing.
LEMMA AppendIncreasing ==
  ASSUME NEW s \in Seq(Int), NEW t \in Int, Increasing(s),
         \A n \in DOMAIN s : s[n] < t
  PROVE  Increasing(Append(s, t))
BY DEF Increasing

\* TypeOK and OrderInv together are inductive.
InductiveInv == TypeOK /\ OrderInv

\* They hold before the first cue point is parsed.
LEMMA InitOrder == Init => InductiveInv
BY KeyframeAssumption
   DEF Init, InductiveInv, TypeOK, OrderInv, Increasing, BoundariesIncrease,
       BoundariesAreCues, LoopInv, BoundariesSpanTheCues, KeyframeAssumption

\* No step of the parser or of FilterKeyframes breaks them.
LEMMA NextOrder == InductiveInv /\ [Next]_vars => InductiveInv'
<1> SUFFICES ASSUME InductiveInv, [Next]_vars PROVE InductiveInv'
  OBVIOUS
<1>t. TypeOK /\ OrderInv
  BY DEF InductiveInv
<1>n. CueTime \subseteq Int /\ Target \in Nat \ {0}
  BY KeyframeAssumption DEF KeyframeAssumption
<1>s. raw \in Seq(Int) /\ filtered \in Seq(Int)
  BY <1>t, <1>n, SeqMonotonic DEF TypeOK
<1>d. /\ DOMAIN raw = 1 .. Len(raw) /\ Len(raw) \in Nat
      /\ DOMAIN filtered = 1 .. Len(filtered) /\ Len(filtered) \in Nat
  BY <1>s, LenProperties
<1>e. /\ \A n \in 1 .. Len(raw) : raw[n] \in CueTime /\ raw[n] \in Int
      /\ \A n \in 1 .. Len(filtered) : filtered[n] \in Int
  BY <1>t, <1>s, ElementOfSeq DEF TypeOK
<1>1. CASE ParseCuePoint
  <2>1. PICK t \in CueTime : (raw # <<>> => FinalOf(raw) < t) /\ raw' = Append(raw, t)
    BY <1>1 DEF ParseCuePoint
  <2>2. \A n \in DOMAIN raw : raw[n] < t
    <3> SUFFICES ASSUME NEW n \in DOMAIN raw PROVE raw[n] < t
      OBVIOUS
    <3>1. n \in 1 .. Len(raw) /\ Len(raw) \in DOMAIN raw /\ raw # <<>>
      BY <1>s
    <3>2. n < Len(raw) => raw[n] < raw[Len(raw)]
      BY <1>t, <3>1 DEF OrderInv, Increasing
    <3>3. raw[n] \in Int /\ raw[Len(raw)] \in Int /\ t \in Int
      BY <1>s, <1>n, <3>1
    <3> QED BY <2>1, <3>1, <3>2, <3>3 DEF FinalOf
  <2>3. Increasing(raw')
    BY <2>1, <2>2, <1>s, <1>n, <1>t, AppendIncreasing DEF OrderInv
  <2>4. TypeOK'
    BY <1>1, <2>1, <1>t DEF ParseCuePoint, TypeOK
  <2>5. filtered' = <<>> /\ phase' = "parse"
    BY <1>1, <1>t DEF ParseCuePoint, OrderInv
  <2> QED
    BY <2>3, <2>4, <2>5
       DEF InductiveInv, OrderInv, BoundariesIncrease, BoundariesAreCues, LoopInv,
           BoundariesSpanTheCues, Increasing
<1>2. CASE StartFilter
  <2>1. CASE Len(raw) < 2
    <3>1. /\ phase' = "done" /\ filtered' = raw /\ raw' = raw
          /\ next' = 2 /\ nextTarget' = Target
      BY <1>2, <2>1 DEF StartFilter
    <3> QED
      BY <3>1, <1>t, <1>n
         DEF InductiveInv, TypeOK, OrderInv, BoundariesIncrease, BoundariesAreCues,
             LoopInv, BoundariesSpanTheCues, Increasing, FinalOf
  <2>2. CASE ~(Len(raw) < 2)
    <3>1. /\ phase' = "filter" /\ filtered' = <<raw[1]>> /\ raw' = raw
          /\ next' = 2 /\ nextTarget' = Target
      BY <1>2, <2>2 DEF StartFilter
    <3>2. Len(raw) >= 2 /\ raw[1] \in CueTime /\ Len(raw) \in Nat /\ 1 \in DOMAIN raw
      BY <2>2, <1>t DEF TypeOK
    <3> QED
      BY <3>1, <3>2, <1>t, <1>n
         DEF InductiveInv, TypeOK, OrderInv, BoundariesIncrease, BoundariesAreCues,
             LoopInv, BoundariesSpanTheCues, Increasing
  <2> QED BY <2>1, <2>2
<1>3. CASE KeepCue
  <2>1. /\ phase = "filter" /\ next <= Len(raw) /\ raw[next] >= nextTarget
        /\ filtered' = Append(filtered, raw[next])
        /\ nextTarget' = TargetAfter(nextTarget, raw[next])
        /\ next' = next + 1 /\ phase' = phase /\ raw' = raw
    BY <1>3 DEF KeepCue
  <2>2. /\ Len(raw) >= 2 /\ next \in 2 .. (Len(raw) + 1)
        /\ filtered # <<>> /\ filtered[1] = raw[1]
        /\ \A n \in DOMAIN filtered : \E m \in 1 .. (next - 1) : filtered[n] = raw[m]
    BY <2>1, <1>t DEF OrderInv, LoopInv
  <2>3. next \in DOMAIN raw /\ raw[next] \in CueTime /\ raw[next] \in Int
    BY <2>1, <2>2, <1>d, <1>e
  <2>a. /\ filtered' \in Seq(CueTime) /\ filtered' # <<>>
        /\ DOMAIN filtered' = 1 .. (Len(filtered) + 1)
        /\ \A n \in 1 .. Len(filtered) : filtered'[n] = filtered[n]
        /\ filtered'[Len(filtered) + 1] = raw[next]
    BY <2>1, <2>3, <1>t, Appended DEF TypeOK
  <2>4. TypeOK'
    <3>1. nextTarget' \in Nat
      BY <2>1, <2>3, <1>t, TargetAfterType DEF TypeOK
    <3> QED BY <2>1, <2>a, <3>1, <1>t DEF TypeOK
  <2>5. \A n \in DOMAIN filtered : filtered[n] < raw[next]
    <3> SUFFICES ASSUME NEW n \in DOMAIN filtered PROVE filtered[n] < raw[next]
      OBVIOUS
    <3>1. PICK m \in 1 .. (next - 1) : filtered[n] = raw[m]
      BY <2>2
    <3>2. m \in DOMAIN raw /\ m < next
      BY <2>1, <2>2, <1>d
    <3> QED BY <3>1, <3>2, <2>3, <1>t DEF OrderInv, Increasing
  <2>6. Increasing(filtered')
    BY <2>1, <2>3, <2>5, <1>s, <1>t, AppendIncreasing
       DEF OrderInv, BoundariesIncrease
  <2>7. \A n \in DOMAIN filtered' : \E m \in 1 .. (next' - 1) : filtered'[n] = raw'[m]
    <3> SUFFICES ASSUME NEW n \in DOMAIN filtered'
                 PROVE  \E m \in 1 .. (next' - 1) : filtered'[n] = raw'[m]
      OBVIOUS
    <3>1. CASE n = Len(filtered) + 1
      <4>1. next \in 1 .. (next' - 1) /\ filtered'[n] = raw'[next]
        BY <3>1, <2>1, <2>2, <2>a
      <4> QED BY <4>1
    <3>2. CASE n # Len(filtered) + 1
      <4>1. n \in DOMAIN filtered /\ filtered'[n] = filtered[n]
        BY <3>2, <2>a, <1>d
      <4>2. PICK m \in 1 .. (next - 1) : filtered[n] = raw[m]
        BY <4>1, <2>2
      <4>3. m \in 1 .. (next' - 1)
        BY <2>1, <2>2, <1>d
      <4> QED BY <4>1, <4>2, <4>3, <2>1
    <3> QED BY <3>1, <3>2
  <2>8. /\ next' \in 2 .. (Len(raw') + 1) /\ filtered' # <<>>
        /\ filtered'[1] = raw'[1] /\ Len(raw') >= 2
    BY <2>1, <2>2, <2>3, <2>a, <1>d
  <2>9. BoundariesAreCues'
    <3> SUFFICES ASSUME NEW n \in DOMAIN filtered'
                 PROVE  \E m \in DOMAIN raw' : filtered'[n] = raw'[m]
      BY DEF BoundariesAreCues
    <3>1. PICK m \in 1 .. (next' - 1) : filtered'[n] = raw'[m]
      BY <2>7
    <3>2. m \in DOMAIN raw'
      BY <2>1, <2>2, <1>d
    <3> QED BY <3>1, <3>2
  <2> QED
    BY <2>1, <2>4, <2>6, <2>7, <2>8, <2>9, <1>t
       DEF InductiveInv, OrderInv, BoundariesIncrease, LoopInv, BoundariesSpanTheCues
<1>4. CASE PassCue
  <2>1. /\ phase = "filter" /\ next <= Len(raw) /\ next' = next + 1
        /\ phase' = phase /\ raw' = raw /\ filtered' = filtered
        /\ nextTarget' = nextTarget
    BY <1>4 DEF PassCue
  <2>2. next \in Nat /\ Len(raw) \in Nat
    BY <1>t DEF TypeOK
  <2> QED
    BY <2>1, <2>2, <1>t
       DEF InductiveInv, TypeOK, OrderInv, BoundariesIncrease, BoundariesAreCues,
           LoopInv, BoundariesSpanTheCues, Increasing
<1>5. CASE EndFilter
  <2>1. /\ phase = "filter" /\ next > Len(raw) /\ phase' = "done"
        /\ filtered' = Finished(filtered, raw)
        /\ raw' = raw /\ next' = next /\ nextTarget' = nextTarget
    BY <1>5 DEF EndFilter
  <2>2. /\ Len(raw) >= 2 /\ next \in 2 .. (Len(raw) + 1)
        /\ filtered # <<>> /\ filtered[1] = raw[1]
        /\ \A n \in DOMAIN filtered : \E m \in 1 .. (next - 1) : filtered[n] = raw[m]
    BY <2>1, <1>t DEF OrderInv, LoopInv
  <2>3. Len(raw) \in DOMAIN raw /\ FinalOf(raw) \in CueTime /\ FinalOf(raw) \in Int
    BY <2>2, <1>d, <1>e DEF FinalOf
  <2>a. /\ Len(filtered) \in DOMAIN filtered
        /\ \E m \in DOMAIN raw : FinalOf(filtered) = raw[m]
    <3>1. Len(filtered) \in DOMAIN filtered
      BY <2>2, <1>s, <1>d, EmptySeq
    <3> QED BY <3>1, <1>t DEF OrderInv, BoundariesAreCues, FinalOf
  <2>4. CASE FinalOf(filtered) = FinalOf(raw)
    <3>1. filtered' = filtered
      BY <2>1, <2>4 DEF Finished
    <3>2. TypeOK'
      BY <3>1, <2>1, <1>t DEF TypeOK
    <3>3. BoundariesSpanTheCues' /\ LoopInv'
      BY <3>1, <2>1, <2>2, <2>4 DEF BoundariesSpanTheCues, LoopInv, FinalOf
    <3>4. Increasing(raw)' /\ BoundariesIncrease' /\ BoundariesAreCues'
      BY <3>1, <2>1, <1>t DEF OrderInv, BoundariesIncrease, BoundariesAreCues, Increasing
    <3> QED BY <3>2, <3>3, <3>4, <2>1 DEF InductiveInv, OrderInv
  <2>5. CASE FinalOf(filtered) # FinalOf(raw)
    <3>1. filtered' = Append(filtered, FinalOf(raw))
      BY <2>1, <2>5 DEF Finished
    <3>2. Len(filtered) \in DOMAIN filtered
      BY <2>a
    <3>a. /\ filtered' \in Seq(CueTime) /\ filtered' # <<>>
          /\ DOMAIN filtered' = 1 .. (Len(filtered) + 1)
          /\ \A n \in 1 .. Len(filtered) : filtered'[n] = filtered[n]
          /\ filtered'[Len(filtered) + 1] = FinalOf(raw)
          /\ FinalOf(filtered') = FinalOf(raw)
      BY <3>1, <2>3, <1>t, Appended DEF TypeOK
    <3>3. \A n \in DOMAIN filtered : filtered[n] < FinalOf(raw)
      <4>1. PICK m \in DOMAIN raw : FinalOf(filtered) = raw[m]
        BY <2>a
      <4>2. m \in 1 .. Len(raw) /\ m # Len(raw)
        BY <4>1, <2>5, <1>d DEF FinalOf
      <4>3. FinalOf(filtered) < FinalOf(raw)
        BY <4>1, <4>2, <2>3, <1>d, <1>t DEF OrderInv, Increasing, FinalOf
      <4> SUFFICES ASSUME NEW n \in DOMAIN filtered PROVE filtered[n] < FinalOf(raw)
        OBVIOUS
      <4>4. n \in 1 .. Len(filtered)
        BY <1>d
      <4>5. n < Len(filtered) => filtered[n] < FinalOf(filtered)
        BY <3>2, <4>4, <1>t DEF OrderInv, BoundariesIncrease, Increasing, FinalOf
      <4>6. filtered[n] \in Int /\ FinalOf(filtered) \in Int
        BY <1>e, <1>d, <3>2, <4>4 DEF FinalOf
      <4> QED BY <4>3, <4>4, <4>5, <4>6, <2>3 DEF FinalOf
    <3>4. Increasing(filtered')
      BY <3>1, <3>3, <2>3, <1>s, <1>t, AppendIncreasing
         DEF OrderInv, BoundariesIncrease
    <3>5. BoundariesAreCues'
      <4> SUFFICES ASSUME NEW n \in DOMAIN filtered'
                   PROVE  \E m \in DOMAIN raw' : filtered'[n] = raw'[m]
        BY DEF BoundariesAreCues
      <4>1. CASE n = Len(filtered) + 1
        BY <4>1, <3>a, <2>1, <2>3 DEF FinalOf
      <4>2. CASE n # Len(filtered) + 1
        <5>1. n \in DOMAIN filtered /\ filtered'[n] = filtered[n]
          BY <4>2, <3>a, <1>d
        <5> QED BY <5>1, <2>1, <1>t DEF OrderInv, BoundariesAreCues
      <4> QED BY <4>1, <4>2
    <3>6. filtered'[1] = raw'[1] /\ FinalOf(filtered') = FinalOf(raw')
      BY <3>a, <2>1, <2>2, <2>a, <1>d
    <3>7. TypeOK'
      BY <3>a, <2>1, <1>t DEF TypeOK
    <3> QED
      BY <3>4, <3>5, <3>6, <3>7, <2>1, <1>t
         DEF InductiveInv, OrderInv, BoundariesIncrease, LoopInv, BoundariesSpanTheCues
  <2> QED BY <2>4, <2>5
<1>6. CASE UNCHANGED vars
  BY <1>6, <1>t
     DEF vars, InductiveInv, TypeOK, OrderInv, BoundariesIncrease, BoundariesAreCues,
         LoopInv, BoundariesSpanTheCues, Increasing
<1> QED BY <1>1, <1>2, <1>3, <1>4, <1>5, <1>6 DEF Next

\* Every reachable state satisfies the inductive invariant.
LEMMA AlwaysInductive == Spec => []InductiveInv
BY InitOrder, NextOrder, PTL DEF Spec

\* The variables of the parser and of the filter keep their types.
THEOREM TypeCorrect == Spec => []TypeOK
<1>1. InductiveInv => TypeOK
  BY DEF InductiveInv
<1> QED BY <1>1, AlwaysInductive, PTL

\* The boundaries are strictly increasing: no segment is empty.
THEOREM BoundariesOrdered == Spec => []BoundariesIncrease
<1>1. InductiveInv => BoundariesIncrease
  BY DEF InductiveInv, OrderInv
<1> QED BY <1>1, AlwaysInductive, PTL

\* Every boundary is the time of a cue of the file.
THEOREM BoundariesComeFromCues == Spec => []BoundariesAreCues
<1>1. InductiveInv => BoundariesAreCues
  BY DEF InductiveInv, OrderInv
<1> QED BY <1>1, AlwaysInductive, PTL

\* The boundaries reach from the first cue to the last.
THEOREM BoundariesReachTheLastCue == Spec => []BoundariesSpanTheCues
<1>1. InductiveInv => BoundariesSpanTheCues
  BY DEF InductiveInv, OrderInv
<1> QED BY <1>1, AlwaysInductive, PTL
-----------------------------------------------------------------------------
(* The multiples of the target duration.                                   *)

\* A smaller number has the smaller multiple.
LEMMA MultiplesAscend ==
  ASSUME NEW T \in Nat \ {0}, NEW a \in Nat, NEW b \in Nat, a <= b
  PROVE  a * T <= b * T
BY SMTT(30)

\* A quotient is the last multiple that fits.
LEMMA LastMultiple ==
  ASSUME NEW T \in Nat \ {0}, NEW x \in Nat
  PROVE  /\ x \div T \in Nat
         /\ (x \div T) * T <= x
         /\ x < (x \div T + 1) * T
BY SMTT(30)

\* So a multiple that fits is not past the quotient.
LEMMA FittingMultiple ==
  ASSUME NEW T \in Nat \ {0}, NEW a \in Nat, NEW x \in Nat, a * T <= x
  PROVE  a <= x \div T
<1> DEFINE q == x \div T
<1>1. q \in Nat /\ x < (q + 1) * T
  BY LastMultiple
<1> HIDE DEF q
<1>2. a * T \in Nat /\ (q + 1) * T \in Nat
  BY <1>1
<1>3. ~(q + 1 <= a)
  BY <1>1, <1>2, MultiplesAscend
<1>4. a <= q
  BY <1>1, <1>3
<1> QED BY <1>4 DEF q

\* No positive multiple fits a number below zero.
LEMMA NoMultipleBelow ==
  ASSUME NEW T \in Nat \ {0}, NEW x \in Int, NEW i \in 1 .. (x \div T)
  PROVE  x \in Nat
BY SMTT(30)

\* TargetAfter goes from a multiple that t has reached to the first it has not.
LEMMA TargetAfterIsNext ==
  ASSUME NEW k \in Nat \ {0}, NEW t \in Nat, k * Target <= t
  PROVE  \E j \in Nat \ {0} : /\ TargetAfter(k * Target, t) = j * Target
                              /\ (j - 1) * Target <= t
                              /\ t < j * Target
<1> DEFINE q == (t - k * Target) \div Target
<1>n. Target \in Nat \ {0}
  BY KeyframeAssumption DEF KeyframeAssumption
<1>1. k * Target \in Nat /\ t - k * Target \in Nat
  <2>1. k * Target \in Nat
    BY <1>n
  <2> QED BY <2>1
<1>2. q \in Nat /\ q * Target <= t - k * Target /\ t - k * Target < (q + 1) * Target
  BY <1>1, <1>n, LastMultiple
<1>3. TargetAfter(k * Target, t) = k * Target + Target * (q + 1)
  BY DEF TargetAfter
<1> HIDE DEF q
<1>4. /\ k * Target + Target * (q + 1) = (k + q + 1) * Target
      /\ (k + q) * Target = k * Target + q * Target
      /\ (k + q + 1) * Target = k * Target + (q + 1) * Target
  BY <1>2, <1>n, SMTT(30)
<1>5. q * Target \in Nat /\ (q + 1) * Target \in Nat
  BY <1>2, <1>n
<1> DEFINE j == k + q + 1
<1>6. j \in Nat \ {0}
  BY <1>2
<1>7. /\ TargetAfter(k * Target, t) = j * Target
      /\ (j - 1) * Target = k * Target + q * Target
      /\ j * Target = k * Target + (q + 1) * Target
  <2>1. TargetAfter(k * Target, t) = (k + q + 1) * Target
    <3> DEFINE after == TargetAfter(k * Target, t)
    <3>1. after = k * Target + Target * (q + 1)
      BY <1>3
    <3> HIDE DEF after
    <3>2. after = (k + q + 1) * Target
      BY <1>4, <3>1
    <3> QED BY <3>2 DEF after
  <2>2. TargetAfter(k * Target, t) = j * Target
    BY <2>1, Zenon
  <2>3. (j - 1) * Target = k * Target + q * Target
    <3>1. j - 1 = k + q
      BY <1>2
    <3> QED BY <1>4, <3>1, Zenon
  <2>4. j * Target = k * Target + (q + 1) * Target
    BY <1>4, SMT
  <2> QED BY <2>2, <2>3, <2>4
<1> HIDE DEF j
<1>8. (j - 1) * Target <= t /\ t < j * Target
  BY <1>1, <1>2, <1>5, <1>7
<1> QED BY <1>6, <1>7, <1>8

-----------------------------------------------------------------------------
(* Which cues are kept.                                                    *)

\* The loop's place between the targets, and what it has come to in the end.
TargetsInv == TargetInv /\ NoTargetIsMissed /\ OnlyTargetsArePicked

\* The cues are ordered numbers, whatever the filter does.
LEMMA CuesAreOrdered ==
  InductiveInv =>
    /\ Target \in Nat \ {0}
    /\ Len(raw) \in Nat /\ DOMAIN raw = 1 .. Len(raw)
    /\ Len(filtered) \in Nat /\ DOMAIN filtered = 1 .. Len(filtered)
    /\ \A m \in 1 .. Len(raw) : raw[m] \in Int
    /\ \A l, m \in 1 .. Len(raw) : l < m => raw[l] < raw[m]
<1> SUFFICES ASSUME InductiveInv
             PROVE  /\ Target \in Nat \ {0}
                    /\ Len(raw) \in Nat /\ DOMAIN raw = 1 .. Len(raw)
                    /\ Len(filtered) \in Nat /\ DOMAIN filtered = 1 .. Len(filtered)
                    /\ \A m \in 1 .. Len(raw) : raw[m] \in Int
                    /\ \A l, m \in 1 .. Len(raw) : l < m => raw[l] < raw[m]
  OBVIOUS
<1>1. /\ CueTime \subseteq Int /\ Target \in Nat \ {0}
      /\ raw \in Seq(CueTime) /\ filtered \in Seq(CueTime)
  BY KeyframeAssumption DEF KeyframeAssumption, InductiveInv, TypeOK
<1>2. /\ Len(raw) \in Nat /\ DOMAIN raw = 1 .. Len(raw)
      /\ Len(filtered) \in Nat /\ DOMAIN filtered = 1 .. Len(filtered)
  BY <1>1, LenProperties
<1>3. \A m \in 1 .. Len(raw) : raw[m] \in Int
  BY <1>1, ElementOfSeq
<1> QED BY <1>1, <1>2, <1>3 DEF InductiveInv, OrderInv, Increasing

\* A cue before the loop's target is the first to reach none of the multiples.
LEMMA PassedIsOffTarget ==
  ASSUME InductiveInv, TargetInv, phase = "filter",
         next \in 2 .. Len(raw), raw[next] < nextTarget
  PROVE  ~OnTarget(next)
<1> SUFFICES ASSUME NEW i \in 1 .. (raw[next] \div Target),
                    \A l \in 1 .. (next - 1) : raw[l] < i * Target
             PROVE  FALSE
  BY DEF OnTarget
<1>1. /\ Target \in Nat \ {0} /\ Len(raw) \in Nat
      /\ \A m \in 1 .. Len(raw) : raw[m] \in Int
  BY CuesAreOrdered
<1>2. PICK k \in Nat \ {0} :
        /\ nextTarget = k * Target
        /\ k = 1 \/ \E l \in 1 .. (next - 1) : raw[l] >= (k - 1) * Target
  BY DEF TargetInv
<1> DEFINE q == raw[next] \div Target
<1>3. raw[next] \in Nat
  <2>1. PICK x \in Int : x = raw[next]
    BY <1>1
  <2>2. i \in 1 .. (x \div Target)
    BY <2>1
  <2> QED BY <1>1, <2>1, <2>2, NoMultipleBelow
<1>4. q \in Nat /\ q * Target <= raw[next] /\ i \in 1 .. q
  BY <1>1, <1>3, LastMultiple
<1> HIDE DEF q
<1>5. i \in Nat /\ i * Target <= q * Target
  BY <1>1, <1>4, MultiplesAscend
<1>6. i * Target \in Nat /\ q * Target \in Nat /\ k * Target \in Nat
  BY <1>1, <1>2, <1>4, <1>5
<1>7. i * Target < k * Target
  BY <1>2, <1>3, <1>4, <1>5, <1>6
<1>8. ~(k <= i)
  BY <1>1, <1>5, <1>6, <1>7, MultiplesAscend
<1>9. k - 1 \in Nat /\ i <= k - 1 /\ k # 1
  BY <1>4, <1>5, <1>8
<1>10. PICK l \in 1 .. (next - 1) : raw[l] >= (k - 1) * Target
  BY <1>2, <1>9
<1>11. i * Target <= (k - 1) * Target /\ (k - 1) * Target \in Nat
  BY <1>1, <1>5, <1>9, MultiplesAscend
<1>12. raw[l] \in Int /\ raw[l] < i * Target
  BY <1>1, <1>10
<1> QED BY <1>6, <1>10, <1>11, <1>12

\* The first target and the first cue.
LEMMA InitTargets == Init => TargetsInv
<1> SUFFICES ASSUME Init PROVE TargetsInv
  OBVIOUS
<1>1. phase = "parse"
  BY DEF Init
<1> QED BY <1>1 DEF TargetsInv, TargetInv, NoTargetIsMissed, OnlyTargetsArePicked

\* With one cue or two the loop has not begun.
LEMMA StartTargets ==
  ASSUME InductiveInv, StartFilter
  PROVE  TargetsInv'
<1>d. /\ Target \in Nat \ {0}
      /\ Len(raw) \in Nat /\ DOMAIN raw = 1 .. Len(raw)
      /\ \A m \in 1 .. Len(raw) : raw[m] \in Int
  BY CuesAreOrdered
<1>r. raw' = raw /\ next' = 2 /\ nextTarget' = Target
  BY DEF StartFilter
<1>1. CASE Len(raw) < 2
  <2>1. phase' = "done" /\ filtered' = raw
    BY <1>1 DEF StartFilter
  <2>2. TargetInv'
    BY <2>1 DEF TargetInv
  <2>3. NoTargetIsMissed'
    BY <2>1, <1>r DEF NoTargetIsMissed
  <2>4. 2 .. (Len(raw') - 1) = {}
    BY <1>1, <1>d, <1>r
  <2>5. OnlyTargetsArePicked'
    BY <2>4 DEF OnlyTargetsArePicked
  <2> QED BY <2>2, <2>3, <2>5 DEF TargetsInv
<1>2. CASE ~(Len(raw) < 2)
  <2>1. phase' = "filter" /\ filtered' = <<raw[1]>>
    BY <1>2 DEF StartFilter
  <2>2. NoTargetIsMissed' /\ OnlyTargetsArePicked'
    BY <2>1 DEF NoTargetIsMissed, OnlyTargetsArePicked
  <2>3. \E k \in Nat \ {0} :
          /\ nextTarget' = k * Target
          /\ k = 1 \/ \E l \in 1 .. (next' - 1) : raw'[l] >= (k - 1) * Target
    <3>1. nextTarget' = 1 * Target /\ 1 \in Nat \ {0}
      BY <1>r, <1>d
    <3> QED BY <3>1
  <2>4. 1 .. (next' - 1) = {1} /\ 2 .. Len(filtered') = {}
    BY <2>1, <1>r
  <2>5. \A m \in 1 .. (next' - 1) : \E n \in DOMAIN filtered' : filtered'[n] = raw'[m]
    <3>1. 1 \in DOMAIN filtered' /\ filtered'[1] = raw'[1]
      BY <2>1, <1>r
    <3> QED BY <3>1, <2>4
  <2>6. raw'[1] < Target => \A l \in 1 .. (next' - 1) : raw'[l] < nextTarget'
    BY <2>4, <1>r
  <2>7. TargetInv'
    BY <2>3, <2>4, <2>5, <2>6 DEF TargetInv
  <2> QED BY <2>2, <2>7 DEF TargetsInv
<1> QED BY <1>1, <1>2

\* A cue that has reached the target is on target, and is kept.
LEMMA KeepTargets ==
  ASSUME InductiveInv, TargetsInv, KeepCue
  PROVE  TargetsInv'
<1>d. /\ Target \in Nat \ {0}
      /\ Len(raw) \in Nat /\ DOMAIN raw = 1 .. Len(raw)
      /\ Len(filtered) \in Nat /\ DOMAIN filtered = 1 .. Len(filtered)
      /\ \A m \in 1 .. Len(raw) : raw[m] \in Int
      /\ \A l, m \in 1 .. Len(raw) : l < m => raw[l] < raw[m]
  BY CuesAreOrdered
<1>1. /\ phase = "filter" /\ next <= Len(raw) /\ raw[next] >= nextTarget
      /\ filtered' = Append(filtered, raw[next])
      /\ nextTarget' = TargetAfter(nextTarget, raw[next])
      /\ next' = next + 1 /\ phase' = phase /\ raw' = raw
  BY DEF KeepCue
<1>2. next \in 2 .. Len(raw) /\ filtered # <<>>
  BY <1>1, <1>d DEF InductiveInv, OrderInv, LoopInv
<1>3. /\ DOMAIN filtered' = 1 .. (Len(filtered) + 1)
      /\ Len(filtered') = Len(filtered) + 1
      /\ \A n \in 1 .. Len(filtered) : filtered'[n] = filtered[n]
      /\ filtered'[Len(filtered) + 1] = raw[next]
  <2>1. raw \in Seq(CueTime) /\ filtered \in Seq(CueTime)
    BY DEF InductiveInv, TypeOK
  <2>2. raw[next] \in CueTime
    BY <2>1, <1>2, ElementOfSeq
  <2> QED BY <1>1, <2>1, <2>2, Appended
<1>4. PICK k \in Nat \ {0} :
        /\ nextTarget = k * Target
        /\ k = 1 \/ \E l \in 1 .. (next - 1) : raw[l] >= (k - 1) * Target
  BY <1>1 DEF TargetsInv, TargetInv
<1>5. raw[next] \in Nat /\ k * Target \in Nat /\ k * Target <= raw[next]
  <2>1. PICK multiple \in Nat : multiple = k * Target
    BY <1>d
  <2>2. raw[next] \in Int /\ multiple <= raw[next]
    BY <2>1, <1>1, <1>2, <1>4, <1>d
  <2> QED BY <2>1, <2>2
<1>6. PICK j \in Nat \ {0} :
        /\ nextTarget' = j * Target
        /\ (j - 1) * Target <= raw[next] /\ raw[next] < j * Target
  BY <1>1, <1>4, <1>5, TargetAfterIsNext
<1>7. next \in 1 .. (next' - 1) /\ 1 .. (next' - 1) = 1 .. (next - 1) \cup {next}
  BY <1>1, <1>2, <1>d
<1>8. \E i \in Nat \ {0} :
        /\ nextTarget' = i * Target
        /\ i = 1 \/ \E l \in 1 .. (next' - 1) : raw'[l] >= (i - 1) * Target
  <2>1. raw'[next] >= (j - 1) * Target
    <3>1. (j - 1) * Target \in Nat
      BY <1>6, <1>d
    <3> QED BY <3>1, <1>1, <1>5, <1>6
  <2> QED BY <2>1, <1>6, <1>7
<1>9. \A m : OnTarget(m)' <=> OnTarget(m)
  BY <1>1 DEF OnTarget
<1>10. \A m \in 1 .. (next' - 1) :
         OnTarget(m)' => \E n \in DOMAIN filtered' : filtered'[n] = raw'[m]
  <2> SUFFICES ASSUME NEW m \in 1 .. (next' - 1), OnTarget(m)
               PROVE  \E n \in DOMAIN filtered' : filtered'[n] = raw[m]
    BY <1>1, <1>9
  <2>1. CASE m = next
    BY <2>1, <1>3, <1>d
  <2>2. CASE m # next
    <3>1. m \in 1 .. (next - 1)
      BY <2>2, <1>7
    <3>2. PICK n \in DOMAIN filtered : filtered[n] = raw[m]
      BY <3>1, <1>1 DEF TargetsInv, TargetInv
    <3> QED BY <3>2, <1>3, <1>d
  <2> QED BY <2>1, <2>2
<1>11. ASSUME raw[1] < Target
       PROVE  /\ \A l \in 1 .. (next' - 1) : raw'[l] < nextTarget'
              /\ \A n \in 2 .. Len(filtered') : \E m \in 2 .. (next' - 1) :
                   filtered'[n] = raw'[m] /\ OnTarget(m)'
  <2>1. /\ \A l \in 1 .. (next - 1) : raw[l] < k * Target
        /\ \A n \in 2 .. Len(filtered) : \E m \in 2 .. (next - 1) :
             filtered[n] = raw[m] /\ OnTarget(m)
    BY <1>11, <1>1, <1>4 DEF TargetsInv, TargetInv
  <2>2. OnTarget(next)
    <3>1. k <= raw[next] \div Target /\ raw[next] \div Target \in Nat
      BY <1>5, <1>d, FittingMultiple, LastMultiple
    <3>2. k \in 1 .. (raw[next] \div Target)
      BY <3>1
    <3> QED BY <2>1, <3>2 DEF OnTarget
  <2>3. \A l \in 1 .. (next' - 1) : raw'[l] < nextTarget'
    <3> SUFFICES ASSUME NEW l \in 1 .. (next' - 1) PROVE raw[l] < j * Target
      BY <1>1, <1>6
    <3>1. l \in 1 .. Len(raw) /\ (l = next \/ l < next) /\ raw[l] \in Int
      BY <1>2, <1>7, <1>d
    <3>2. raw[l] <= raw[next]
      BY <3>1, <1>2, <1>5, <1>d
    <3>3. j * Target \in Nat
      BY <1>6, <1>d
    <3> QED BY <3>1, <3>2, <3>3, <1>5, <1>6
  <2>4. \A n \in 2 .. Len(filtered') : \E m \in 2 .. (next' - 1) :
          filtered'[n] = raw'[m] /\ OnTarget(m)'
    <3> SUFFICES ASSUME NEW n \in 2 .. Len(filtered')
                 PROVE  \E m \in 2 .. (next' - 1) : filtered'[n] = raw[m] /\ OnTarget(m)
      BY <1>1, <1>9
    <3>1. CASE n = Len(filtered) + 1
      <4>1. next \in 2 .. (next' - 1)
        BY <1>1, <1>2
      <4> QED BY <3>1, <4>1, <2>2, <1>3
    <3>2. CASE n # Len(filtered) + 1
      <4>1. n \in 2 .. Len(filtered) /\ filtered'[n] = filtered[n]
        BY <3>2, <1>3, <1>d
      <4>2. PICK m \in 2 .. (next - 1) : filtered[n] = raw[m] /\ OnTarget(m)
        BY <4>1, <2>1
      <4>3. m \in 2 .. (next' - 1)
        BY <1>1, <1>2, <1>d
      <4> QED BY <4>1, <4>2, <4>3
    <3> QED BY <3>1, <3>2
  <2> QED BY <2>3, <2>4
<1>12. TargetInv'
  BY <1>1, <1>8, <1>10, <1>11 DEF TargetInv
<1>13. NoTargetIsMissed' /\ OnlyTargetsArePicked'
  BY <1>1 DEF NoTargetIsMissed, OnlyTargetsArePicked
<1> QED BY <1>12, <1>13 DEF TargetsInv

\* A cue before the target is not on target, and is not kept.
LEMMA PassTargets ==
  ASSUME InductiveInv, TargetsInv, PassCue
  PROVE  TargetsInv'
<1>d. Len(raw) \in Nat
  BY CuesAreOrdered
<1>1. /\ phase = "filter" /\ next <= Len(raw) /\ raw[next] < nextTarget
      /\ next' = next + 1 /\ phase' = phase /\ raw' = raw
      /\ filtered' = filtered /\ nextTarget' = nextTarget
  BY DEF PassCue
<1>2. next \in 2 .. Len(raw)
  BY <1>1, <1>d DEF InductiveInv, OrderInv, LoopInv
<1>3. ~OnTarget(next) /\ TargetInv
  BY <1>1, <1>2, PassedIsOffTarget DEF TargetsInv
<1>4. 1 .. (next' - 1) = 1 .. (next - 1) \cup {next}
  BY <1>1, <1>2, <1>d
<1>5. 2 .. (next - 1) \subseteq 2 .. (next' - 1)
  BY <1>1, <1>2, <1>d
<1>6. \A m : OnTarget(m)' <=> OnTarget(m)
  BY <1>1 DEF OnTarget
<1>7. \E k \in Nat \ {0} :
        /\ nextTarget' = k * Target
        /\ k = 1 \/ \E l \in 1 .. (next' - 1) : raw'[l] >= (k - 1) * Target
  <2>1. PICK k \in Nat \ {0} :
          /\ nextTarget = k * Target
          /\ k = 1 \/ \E l \in 1 .. (next - 1) : raw[l] >= (k - 1) * Target
    BY <1>1, <1>3 DEF TargetInv
  <2>2. k = 1 \/ \E l \in 1 .. (next' - 1) : raw'[l] >= (k - 1) * Target
    BY <2>1, <1>1, <1>4
  <2> QED BY <2>1, <2>2, <1>1
<1>8. \A m \in 1 .. (next' - 1) :
        OnTarget(m)' => \E n \in DOMAIN filtered' : filtered'[n] = raw'[m]
  BY <1>1, <1>3, <1>4, <1>6 DEF TargetInv
<1>9. ASSUME raw[1] < Target
      PROVE  /\ \A l \in 1 .. (next' - 1) : raw'[l] < nextTarget'
             /\ \A n \in 2 .. Len(filtered') : \E m \in 2 .. (next' - 1) :
                  filtered'[n] = raw'[m] /\ OnTarget(m)'
  <2>1. /\ \A l \in 1 .. (next - 1) : raw[l] < nextTarget
        /\ \A n \in 2 .. Len(filtered) : \E m \in 2 .. (next - 1) :
             filtered[n] = raw[m] /\ OnTarget(m)
    BY <1>9, <1>1, <1>3 DEF TargetInv
  <2>2. \A l \in 1 .. (next' - 1) : raw'[l] < nextTarget'
    BY <2>1, <1>1, <1>4
  <2>3. \A n \in 2 .. Len(filtered') : \E m \in 2 .. (next' - 1) :
          filtered'[n] = raw'[m] /\ OnTarget(m)'
    BY <2>1, <1>1, <1>5, <1>6
  <2> QED BY <2>2, <2>3
<1>10. TargetInv'
  BY <1>1, <1>7, <1>8, <1>9 DEF TargetInv
<1>11. NoTargetIsMissed' /\ OnlyTargetsArePicked'
  BY <1>1 DEF NoTargetIsMissed, OnlyTargetsArePicked
<1> QED BY <1>10, <1>11 DEF TargetsInv

\* The cue added at the end is none of those between the first and the last.
LEMMA EndTargets ==
  ASSUME InductiveInv, TargetsInv, EndFilter
  PROVE  TargetsInv'
<1>d. /\ Len(raw) \in Nat /\ DOMAIN raw = 1 .. Len(raw)
      /\ Len(filtered) \in Nat /\ DOMAIN filtered = 1 .. Len(filtered)
      /\ \A m \in 1 .. Len(raw) : raw[m] \in Int
      /\ \A l, m \in 1 .. Len(raw) : l < m => raw[l] < raw[m]
  BY CuesAreOrdered
<1>1. /\ phase = "filter" /\ next > Len(raw) /\ phase' = "done"
      /\ filtered' = Finished(filtered, raw) /\ raw' = raw
  BY DEF EndFilter
<1>2. /\ Len(raw) >= 2 /\ next = Len(raw) + 1
      /\ filtered # <<>> /\ filtered[1] = raw[1]
  BY <1>1, <1>d DEF InductiveInv, OrderInv, LoopInv
<1>3. 1 .. (next - 1) = DOMAIN raw
  BY <1>2, <1>d
<1>4. /\ DOMAIN filtered \subseteq DOMAIN filtered'
      /\ \A n \in DOMAIN filtered : filtered'[n] = filtered[n]
      /\ \A n \in DOMAIN filtered' :
           n \in DOMAIN filtered \/ filtered'[n] = raw[Len(raw)]
  <2>1. CASE FinalOf(filtered) = FinalOf(raw)
    <3>1. filtered' = filtered
      BY <1>1, <2>1 DEF Finished
    <3> QED BY <3>1
  <2>2. CASE FinalOf(filtered) # FinalOf(raw)
    <3>1. filtered' = Append(filtered, raw[Len(raw)])
      BY <1>1, <2>2 DEF Finished, FinalOf
    <3>2. raw \in Seq(CueTime) /\ filtered \in Seq(CueTime)
      BY DEF InductiveInv, TypeOK
    <3>3. raw[Len(raw)] \in CueTime
      BY <3>2, <1>2, <1>d, ElementOfSeq
    <3>4. /\ DOMAIN filtered' = 1 .. (Len(filtered) + 1)
          /\ \A n \in 1 .. Len(filtered) : filtered'[n] = filtered[n]
          /\ filtered'[Len(filtered) + 1] = raw[Len(raw)]
      BY <3>1, <3>2, <3>3, Appended
    <3> QED BY <3>4, <1>d
  <2> QED BY <2>1, <2>2
<1>5. \A m : OnTarget(m)' <=> OnTarget(m)
  BY <1>1 DEF OnTarget
<1>6. NoTargetIsMissed'
  <2> SUFFICES ASSUME NEW m \in DOMAIN raw, OnTarget(m)
               PROVE  \E n \in DOMAIN filtered' : filtered'[n] = raw[m]
    BY <1>1, <1>5 DEF NoTargetIsMissed
  <2>1. PICK n \in DOMAIN filtered : filtered[n] = raw[m]
    BY <1>1, <1>3 DEF TargetsInv, TargetInv
  <2> QED BY <2>1, <1>4
<1>7. OnlyTargetsArePicked'
  <2> SUFFICES ASSUME raw[1] < Target, NEW m \in 2 .. (Len(raw) - 1),
                      NEW n \in DOMAIN filtered', filtered'[n] = raw[m]
               PROVE  OnTarget(m)
    BY <1>1, <1>5 DEF OnlyTargetsArePicked
  <2>1. /\ m \in 1 .. Len(raw) /\ 1 \in 1 .. Len(raw) /\ Len(raw) \in 1 .. Len(raw)
        /\ 1 < m /\ m < Len(raw)
    BY <1>2, <1>d
  <2>2. /\ raw[m] # raw[1] /\ raw[m] # raw[Len(raw)]
    BY <2>1, <1>d
  <2>3. n \in DOMAIN filtered /\ filtered[n] = raw[m] /\ n # 1
    BY <2>2, <1>2, <1>4
  <2>4. n \in 2 .. Len(filtered)
    BY <2>3, <1>d
  <2>5. PICK i \in 2 .. (next - 1) : filtered[n] = raw[i] /\ OnTarget(i)
    BY <2>4, <1>1 DEF TargetsInv, TargetInv
  <2>6. i \in 1 .. Len(raw) /\ raw[i] = raw[m]
    BY <2>3, <2>5, <1>2, <1>d
  <2>7. ~(i < m) /\ ~(m < i)
    BY <2>1, <2>6, <1>d
  <2>8. i = m
    BY <2>1, <2>6, <2>7
  <2> QED BY <2>5, <2>8
<1>8. TargetInv'
  BY <1>1 DEF TargetInv
<1> QED BY <1>6, <1>7, <1>8 DEF TargetsInv

\* No step of the filter misses a target or picks another cue.
LEMMA NextTargets == InductiveInv /\ TargetsInv /\ [Next]_vars => TargetsInv'
<1> SUFFICES ASSUME InductiveInv, TargetsInv, [Next]_vars PROVE TargetsInv'
  OBVIOUS
<1>1. CASE ParseCuePoint
  <2>1. phase' = "parse"
    BY <1>1 DEF ParseCuePoint
  <2> QED BY <2>1 DEF TargetsInv, TargetInv, NoTargetIsMissed, OnlyTargetsArePicked
<1>2. CASE UNCHANGED vars
  <2>1. /\ phase' = phase /\ raw' = raw /\ next' = next
        /\ filtered' = filtered /\ nextTarget' = nextTarget
    BY <1>2 DEF vars
  <2> QED
    BY <2>1 DEF TargetsInv, TargetInv, NoTargetIsMissed, OnlyTargetsArePicked, OnTarget
<1> QED
  BY <1>1, <1>2, StartTargets, KeepTargets, PassTargets, EndTargets DEF Next

\* Every reachable state keeps the targets.
LEMMA AlwaysTargets == Spec => []TargetsInv
BY InitTargets, NextTargets, AlwaysInductive, PTL DEF Spec

\* The first cue at or after each multiple of the target starts a segment.
THEOREM NoTargetMissed == Spec => []NoTargetIsMissed
<1>1. TargetsInv => NoTargetIsMissed
  BY DEF TargetsInv
<1> QED BY <1>1, AlwaysTargets, PTL

\* Between the first cue and the last only such cues start one, in a file whose
\* first cue is before the first multiple.
THEOREM OnlyTargetsPicked == Spec => []OnlyTargetsArePicked
<1>1. TargetsInv => OnlyTargetsArePicked
  BY DEF TargetsInv
<1> QED BY <1>1, AlwaysTargets, PTL

\* Every boundary that the loop has added is at a target or past it.
ReachInv ==
  /\ phase = "filter" =>
       /\ nextTarget >= Target
       /\ \A n \in 2 .. Len(filtered) : filtered[n] >= Target
  /\ LaterBoundariesReachTarget

\* No step adds a boundary before the target, but for the last.
LEMMA NextReaches == InductiveInv /\ ReachInv /\ [Next]_vars => ReachInv'
<1> SUFFICES ASSUME InductiveInv, ReachInv, [Next]_vars PROVE ReachInv'
  OBVIOUS
<1>d. /\ Target \in Nat \ {0}
      /\ Len(raw) \in Nat /\ DOMAIN raw = 1 .. Len(raw)
      /\ Len(filtered) \in Nat /\ DOMAIN filtered = 1 .. Len(filtered)
      /\ \A m \in 1 .. Len(raw) : raw[m] \in Int
  BY CuesAreOrdered
<1>t. /\ nextTarget \in Nat /\ next \in Nat \ {0}
      /\ raw \in Seq(CueTime) /\ filtered \in Seq(CueTime)
  BY DEF InductiveInv, TypeOK
<1>1. CASE ParseCuePoint
  <2>1. phase' = "parse"
    BY <1>1 DEF ParseCuePoint
  <2> QED BY <2>1 DEF ReachInv, LaterBoundariesReachTarget
<1>2. CASE StartFilter
  <2>1. CASE Len(raw) < 2
    <3>1. phase' = "done" /\ filtered' = raw
      BY <1>2, <2>1 DEF StartFilter
    <3>2. 2 .. (Len(filtered') - 1) = {}
      BY <1>d, <2>1, <3>1
    <3> QED BY <3>1, <3>2 DEF ReachInv, LaterBoundariesReachTarget
  <2>2. CASE ~(Len(raw) < 2)
    <3>1. phase' = "filter" /\ filtered' = <<raw[1]>> /\ nextTarget' = Target
      BY <1>2, <2>2 DEF StartFilter
    <3>2. 2 .. Len(filtered') = {}
      BY <3>1
    <3> QED BY <1>d, <3>1, <3>2 DEF ReachInv, LaterBoundariesReachTarget
  <2> QED BY <2>1, <2>2
<1>3. CASE KeepCue
  <2>1. /\ phase = "filter" /\ phase' = "filter" /\ next \in 1 .. Len(raw)
        /\ raw[next] >= nextTarget /\ filtered' = Append(filtered, raw[next])
        /\ nextTarget' = TargetAfter(nextTarget, raw[next])
    BY <1>3, <1>d, <1>t DEF KeepCue
  <2>2. nextTarget >= Target /\ \A n \in 2 .. Len(filtered) : filtered[n] >= Target
    BY <2>1 DEF ReachInv
  <2>3. PICK t \in Int : t = raw[next] /\ t \in CueTime
    BY <1>d, <1>t, <2>1, ElementOfSeq
  <2>4. nextTarget' >= Target
    <3> DEFINE q == (t - nextTarget) \div Target
    <3>1. q \in Nat
      <4>1. t - nextTarget \in Nat
        BY <1>t, <2>1, <2>3
      <4> QED BY <1>d, <4>1, LastMultiple
    <3>2. nextTarget' = nextTarget + Target * (q + 1)
      BY <2>1, <2>3 DEF TargetAfter
    <3> HIDE DEF q
    <3>3. Target * (q + 1) \in Nat
      BY <1>d, <3>1
    <3> QED BY <1>d, <1>t, <2>2, <3>2, <3>3
  <2>5. \A n \in 2 .. Len(filtered') : filtered'[n] >= Target
    <3>1. /\ Len(filtered') = Len(filtered) + 1
          /\ \A n \in 1 .. Len(filtered) : filtered'[n] = filtered[n]
          /\ filtered'[Len(filtered) + 1] = t
      BY <1>t, <2>1, <2>3, Appended
    <3>2. t >= Target
      BY <1>d, <1>t, <2>1, <2>2, <2>3
    <3> QED BY <1>d, <2>2, <3>1, <3>2
  <2> QED BY <2>1, <2>4, <2>5 DEF ReachInv, LaterBoundariesReachTarget
<1>4. CASE PassCue
  BY <1>4 DEF PassCue, ReachInv, LaterBoundariesReachTarget
<1>5. CASE EndFilter
  <2>1. /\ phase = "filter" /\ phase' = "done" /\ filtered' = Finished(filtered, raw)
        /\ Len(raw) >= 2
    BY <1>5 DEF EndFilter, InductiveInv, OrderInv, LoopInv
  <2>2. \A n \in 2 .. Len(filtered) : filtered[n] >= Target
    BY <2>1 DEF ReachInv
  <2>3. raw[Len(raw)] \in CueTime
    BY <1>d, <1>t, <2>1, ElementOfSeq
  <2>4. \A n \in 2 .. (Len(filtered') - 1) : n \in 2 .. Len(filtered) /\ filtered'[n] = filtered[n]
    <3>1. CASE FinalOf(filtered) = FinalOf(raw)
      <4>1. filtered' = filtered
        BY <2>1, <3>1 DEF Finished
      <4> QED BY <1>d, <4>1
    <3>2. CASE FinalOf(filtered) # FinalOf(raw)
      <4>1. filtered' = Append(filtered, raw[Len(raw)])
        BY <2>1, <3>2 DEF Finished, FinalOf
      <4>2. /\ Len(filtered') = Len(filtered) + 1
            /\ \A n \in 1 .. Len(filtered) : filtered'[n] = filtered[n]
        BY <1>t, <2>3, <4>1, Appended
      <4> QED BY <1>d, <4>2
    <3> QED BY <3>1, <3>2
  <2> QED BY <2>1, <2>2, <2>4 DEF ReachInv, LaterBoundariesReachTarget
<1>6. CASE UNCHANGED vars
  BY <1>6 DEF vars, ReachInv, LaterBoundariesReachTarget
<1> QED BY <1>1, <1>2, <1>3, <1>4, <1>5, <1>6 DEF Next

\* Every segment but the first starts at the first target or later, so that
\* its preroll is in the file: what SegmentBuilder assumes of the boundaries.
THEOREM LaterBoundariesReach == Spec => []LaterBoundariesReachTarget
<1>1. Init => ReachInv
  BY DEF Init, ReachInv, LaterBoundariesReachTarget
<1>2. ReachInv => LaterBoundariesReachTarget
  BY DEF ReachInv
<1> QED BY <1>1, <1>2, NextReaches, AlwaysInductive, PTL DEF Spec
=============================================================================
