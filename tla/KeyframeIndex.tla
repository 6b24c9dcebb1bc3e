--------------------------- MODULE KeyframeIndex ---------------------------
(***************************************************************************)
(* How Demuxer::EnsureCueIndex makes the segment boundaries of a file from *)
(* its cues: parse_cues_data collects the times of the video's cue points, *)
(* and FilterKeyframes keeps those that start a segment, one pass of its   *)
(* loop a step. The times are milliseconds.                                *)
(***************************************************************************)
EXTENDS Integers, Sequences

CONSTANTS CueTime,  \* the times cue points can have
          Target,   \* target_duration_ms
          MaxCues   \* bound: cue points of the file

ASSUME KeyframeAssumption ==
  /\ CueTime \subseteq Int
  /\ Target \in Nat \ {0}
  /\ MaxCues \in Nat

VARIABLES
  phase,       \* "parse", "filter", "done"
  raw,         \* raw_keyframes
  next,        \* the cue the loop looks at (i + 1)
  filtered,    \* the boundaries so far
  nextTarget   \* next_target

vars == <<phase, raw, next, filtered, nextTarget>>

FinalOf(s) == s[Len(s)]

Init ==
  /\ phase = "parse" /\ raw = <<>>
  /\ next = 1 /\ filtered = <<>> /\ nextTarget = 0

\* A cue point with a time and a position of the video track. The cues of a
\* file are in the order of their times, one for each.
ParseCuePoint ==
  /\ phase = "parse" /\ Len(raw) < MaxCues
  /\ \E t \in CueTime :
       /\ raw # <<>> => FinalOf(raw) < t
       /\ raw' = Append(raw, t)
  /\ UNCHANGED <<phase, next, filtered, nextTarget>>

\* FilterKeyframes up to its loop: with fewer than two cues it returns them.
StartFilter ==
  /\ phase = "parse"
  /\ phase' = IF Len(raw) < 2 THEN "done" ELSE "filter"
  /\ filtered' = IF Len(raw) < 2 THEN raw ELSE <<raw[1]>>
  /\ next' = 2 /\ nextTarget' = Target
  /\ UNCHANGED raw

\* Mutant of TargetAfter: the target is counted from the keyframe.
TargetAfter_Drifts(target, t) == t + Target

\* Mutant of TargetAfter: `if` for `while`.
TargetAfter_Once(target, t) == target + Target

\* `while (next_target <= raw[i]) next_target += target_duration_ms`.
TargetAfter(target, t) == target + Target * ((t - target) \div Target + 1)

KeepCue ==
  /\ phase = "filter" /\ next <= Len(raw) /\ raw[next] >= nextTarget
  /\ filtered' = Append(filtered, raw[next])
  /\ nextTarget' = TargetAfter(nextTarget, raw[next])
  /\ next' = next + 1
  /\ UNCHANGED <<phase, raw>>

PassCue ==
  /\ phase = "filter" /\ next <= Len(raw) /\ raw[next] < nextTarget
  /\ next' = next + 1
  /\ UNCHANGED <<phase, raw, filtered, nextTarget>>

\* Mutant of Finished: the last cue is added unasked.
Finished_Always(kept, cues) == Append(kept, FinalOf(cues))

\* Mutant of Finished: the last cue is not added.
Finished_Never(kept, cues) == kept

\* The last cue is always a boundary.
Finished(kept, cues) ==
  IF FinalOf(kept) # FinalOf(cues) THEN Append(kept, FinalOf(cues)) ELSE kept

EndFilter ==
  /\ phase = "filter" /\ next > Len(raw)
  /\ phase' = "done" /\ filtered' = Finished(filtered, raw)
  /\ UNCHANGED <<raw, next, nextTarget>>

Next == ParseCuePoint \/ StartFilter \/ KeepCue \/ PassCue \/ EndFilter

Spec == Init /\ [][Next]_vars

-----------------------------------------------------------------------------
(* Properties.                                                             *)

\* The variables of FilterKeyframes keep their types; the target does not run
\* below zero.
TypeOK ==
  /\ phase \in {"parse", "filter", "done"}
  /\ raw \in Seq(CueTime) /\ filtered \in Seq(CueTime)
  /\ next \in Nat \ {0} /\ nextTarget \in Nat

Increasing(s) == \A m, n \in DOMAIN s : m < n => s[m] < s[n]

\* "Sorted list of segment-aligned keyframe times" (Demuxer.h:43): no segment
\* is empty or ends before it starts.
BoundariesIncrease == Increasing(filtered)

\* A boundary is the time of a cue: SeekToMs and the packet walk meet it.
BoundariesAreCues ==
  \A n \in DOMAIN filtered : \E m \in DOMAIN raw : filtered[n] = raw[m]

\* The boundaries reach from the first cue to the last: together the segments
\* leave out nothing between them.
BoundariesSpanTheCues ==
  phase = "done" /\ raw # <<>> =>
    filtered[1] = raw[1] /\ FinalOf(filtered) = FinalOf(raw)

\* m is the first cue at or after some multiple of the target duration.
OnTarget(m) ==
  \E k \in 1 .. (raw[m] \div Target) :
    \A l \in 1 .. (m - 1) : raw[l] < k * Target

\* The first cue at or after each multiple of the target duration starts a
\* segment, however long the cues stay away: segment lengths do not drift.
NoTargetIsMissed ==
  phase = "done" =>
    \A m \in DOMAIN raw : OnTarget(m) =>
      \E n \in DOMAIN filtered : filtered[n] = raw[m]

\* "pick the first keyframe at or after each multiple of target_duration_ms"
\* (Demuxer.cpp:11), and only those, between the first and the last cue, in
\* a file whose first cue is before the first multiple. (The loop starts at
\* that multiple even when the first cue is past it.)
OnlyTargetsArePicked ==
  phase = "done" /\ raw # <<>> /\ raw[1] < Target =>
    \A m \in 2 .. (Len(raw) - 1) :
      (\E n \in DOMAIN filtered : filtered[n] = raw[m]) => OnTarget(m)

\* Of the boundaries only the first and the last can be before the first multiple
\* of the target: the preroll of every segment but the first is in the file
\* (kAudioPrerollMs, Session.cpp:23, is less than the target).
LaterBoundariesReachTarget ==
  phase = "done" => \A n \in 2 .. (Len(filtered) - 1) : filtered[n] >= Target

-----------------------------------------------------------------------------
(* The inductive invariant behind the safety properties.                   *)

\* What the loop has kept is taken from the cues it has passed.
LoopInv ==
  phase = "filter" =>
    /\ Len(raw) >= 2 /\ next \in 2 .. (Len(raw) + 1)
    /\ filtered # <<>> /\ filtered[1] = raw[1]
    /\ \A n \in DOMAIN filtered : \E m \in 1 .. (next - 1) : filtered[n] = raw[m]

\* The cues and the boundaries are ordered, the boundaries are cues, and the
\* loop of FilterKeyframes has kept some of what it has passed.
OrderInv ==
  /\ Increasing(raw) /\ BoundariesIncrease /\ BoundariesAreCues
  /\ phase = "parse" => filtered = <<>>
  /\ LoopInv
  /\ BoundariesSpanTheCues

\* Where the loop stands between the multiples of the target: nextTarget is the
\* first one (after zero) that no passed cue has reached, unless the first cue
\* is past it, and of the passed cues those on target are kept, and only those.
TargetInv ==
  phase = "filter" =>
    /\ \E k \in Nat \ {0} :
         /\ nextTarget = k * Target
         /\ k = 1 \/ \E l \in 1 .. (next - 1) : raw[l] >= (k - 1) * Target
    /\ \A m \in 1 .. (next - 1) :
         OnTarget(m) => \E n \in DOMAIN filtered : filtered[n] = raw[m]
    /\ raw[1] < Target =>
         /\ \A l \in 1 .. (next - 1) : raw[l] < nextTarget
         /\ \A n \in 2 .. Len(filtered) : \E m \in 2 .. (next - 1) :
              filtered[n] = raw[m] /\ OnTarget(m)
=============================================================================
