------------------------------ MODULE Demuxer ------------------------------
(***************************************************************************)
(* The state of class Demuxer (Demuxer.h, Demuxer.cpp) and what its        *)
(* operations do to it, as operators on a record:                          *)
(*   ctx      fmt_ctx_ is not null                                         *)
(*   video    video_stream_idx_ >= 0                                       *)
(*   cached   keyframes_cached_                                            *)
(*   kf       cached_keyframes_.size(); cached_cues_ is empty iff it is 0  *)
(*   indexed  cue_index_added_                                             *)
(* Packets, timestamps and cluster offsets are left to SegmentBuilder.     *)
(* How an opening of the input ends is a name: "ok", or the call that      *)
(* failed: "no_reader" (HttpReader's constructor), "no_open"               *)
(* (avformat_open_input), "no_info" (avformat_find_stream_info),           *)
(* "no_video" (no video stream). All but "ok" throw.                       *)
(***************************************************************************)
EXTENDS Integers

OpenOutcome == {"ok", "no_reader", "no_open", "no_info", "no_video"}

DemuxerState == [ctx : BOOLEAN, video : BOOLEAN, cached : BOOLEAN,
                 kf : Nat, indexed : BOOLEAN]

\* The members before the constructor opens anything.
Closed == [ctx |-> FALSE, video |-> FALSE, cached |-> FALSE,
           kf |-> 0, indexed |-> FALSE]

\* Mutant of OpenInput: any failure closes the context.
OpenInput_ClosesOnFailure(d, o) ==
  [d EXCEPT !.ctx = o = "ok",
            !.video = o = "ok" \/ (o # "no_video" /\ d.video)]

(***************************************************************************)
(* OpenInput. avformat_open_input frees the context and nulls the pointer  *)
(* when it fails; the stream index is assigned only once the stream        *)
(* information was found, and is -1 when there is no video.                *)
(***************************************************************************)
OpenInput(d, o) ==
  [d EXCEPT !.ctx = o # "no_open",
            !.video = o = "ok" \/ (o # "no_video" /\ d.video)]

\* AddCueIndexEntries goes past its early return: it reads fmt_ctx_->streams.
AddsCueIndexEntries(d) == ~d.indexed /\ d.kf > 0 /\ d.video

AddCueIndexEntries(d) ==
  [d EXCEPT !.indexed = d.indexed \/ AddsCueIndexEntries(d)]

\* Mutant of EnsureCueIndex: the cues are parsed again on every call.
EnsureCueIndex_ParsesAgain(d, n) ==
  AddCueIndexEntries([d EXCEPT !.cached = TRUE, !.kf = n])

\* EnsureCueIndex where n boundaries are found, 0 when the header or the
\* cues cannot be read. It caches that failure as well.
EnsureCueIndex(d, n) ==
  AddCueIndexEntries(IF d.cached THEN d
                     ELSE [d EXCEPT !.cached = TRUE, !.kf = n])

\* EnsureCueIndex uses fmt_ctx_: for avio_tell on its first call, and in
\* AddCueIndexEntries.
EnsureUsesContext(d) == ~d.cached \/ AddsCueIndexEntries(d)

(***************************************************************************)
(* SeekToMs: close the context, replace the reader, and only then forget   *)
(* the index and open again. Whatever throws leaves the members as the     *)
(* calls before it made them.                                              *)
(***************************************************************************)
SeekToMs(d, n, o) ==
  LET closed == [EnsureCueIndex(d, n) EXCEPT !.ctx = FALSE]
      opened == OpenInput([closed EXCEPT !.indexed = FALSE], o)
  IN  CASE o = "no_reader" -> closed
        [] o = "ok"        -> AddCueIndexEntries(opened)
        [] OTHER           -> opened

\* SeekToMs reads fmt_ctx_->streams[video_stream_idx_] before it reopens:
\* a null context kills the process, an index of -1 is undefined behaviour.
SeekMayDie(d)     == ~d.ctx \/ ~d.video
SeekMaySurvive(d) == d.ctx

\* video_stream(), for the init segment: null context with a stream index.
InitDies(d) == ~d.ctx /\ d.video
=============================================================================
