# fmp4-packager in TLA+

fmp4-packager turns a Matroska file, read over HTTP byte ranges, into HLS: a
manifest, an init segment and media segments, each built when a player asks for
it. Video is passed through, audio is re-encoded to AAC. This directory holds
TLA+ models of it, the TLC configurations that check them and TLAPS proofs.
Paths like `Session.cpp:311` are relative to the repository's `src/`.

## The system

| component | state | operations |
|---|---|---|
| HTTP server (`server.cpp`) | `g_sessions`, `g_next_session_id` | manifest, init and segment handlers; `CreateSession`, `GetSession`, `CleanupOldSessions` |
| Session (`Session.cpp`) | `mutex_`, `init_built_`/`init_cache_`, `segment_cache_`, `audio_frame_cache_`, `last_activity_` | `GetKeyframesMs`, `GenerateInitSegment`, `GenerateSegment`, `BuildSegmentLocked` |
| Demuxer (`Demuxer.cpp`) | `fmt_ctx_`, stream indices, cached boundaries and cues | `OpenInput`, `EnsureCueIndex`, `SeekToMs`, `ReadPacket` |
| EBML parsing (`EbmlParser.h`) | none | `ebml_scan_children`, `parse_segment_info`, `parse_cues_location`, `parse_cues_data` |
| Segment boundaries (`Demuxer.cpp`) | none | `FilterKeyframes` |
| Transcoder (`AacTranscoder.cpp`) | sample queues, `audio_pts_`, decoder and encoder contexts | `Reset`, `Decode`, `EncodeUntil` |
| Init segment (`Fmp4Writer.cpp`, `BoxBuilder.h`) | a buffer per call | `BuildInit` |
| Media segment (`Fmp4Writer.cpp`, `Session.cpp`) | a buffer per call | `append_video_packet`, `fix_video_durations`, `BuildSegment` |
| Range reader (`HttpReader.cpp`) | position, file size, a curl handle | `DoRead`, `DoSeek`, `FetchFileSize` |
| httplib's server (`httplib.h`) | job queue, idle count, threads, connections | `listen_internal`, `ThreadPool`, `process_and_close_socket` |
| Manifest text (`HlsManifest.cpp`) | none | `Generate` |

One thread accepts connections and enqueues them; a thread of the pool reads one
request after another from a connection and runs its handler. The manifest
handler drops old sessions from the table, makes a session (which opens the
file) and lists its boundaries. The other two look their session up, which also
stamps it as used, and call into it; everything in a session happens under its
`mutex_`, except the read of `init_built_` that starts `GenerateSegment`.
Building a segment closes and reopens the file, reads packets from the last cue
before the audio preroll up to the keyframe that starts the next segment, goes
on through the audio lookahead, takes the AAC frames of the segment's range and
hands the samples to the writer. Segments are cached per session. All reads of
the file, libavformat's and those of the cues, go through the range reader.

### What is hard

* **Interleaving.** Workers share sessions; `GenerateSegment` takes the mutex
  up to twice after a read without it, and the segment handler checks its index
  on a copy made under an earlier lock. In the pool wake-ups, idle timeouts,
  jobs taken in passing and a shutdown meet in any order.
* **Partial failure.** Reopening the file is several calls, each of which may
  throw and leaves the demuxer as the calls before it made it. A failed read in
  a walk looks like the end of the file, and one in the cues like fewer cues.
* **State that outlives a build.** The encoder cannot be flushed, so a build
  begins with what the one before left in it; the audio frame cache is filled by
  all builds.
* **Boundaries.** Segment N and N+1 are built apart, in any order, after
  different seeks, and have to fit. The boundaries themselves come from a loop
  over the cues.
* **Two counters of one thing.** The reader and libavformat each count the
  position; the pool counts idle threads and keeps threads in lists; a count
  closes a connection in one function and a header announces it in another.
* **Back-patched offsets.** Sizes and offsets are written into boxes that were
  written before them, counted from different starts; the descriptors of `esds`
  declare lengths before there is anything to measure.
* **Upstream.** Reads have no timeout, and the file server may answer short,
  ignore ranges or fail.

What makes each component correct, in short: the server answers each request
and never serves bytes that changed; a session never builds a segment without
its init segment and never uses a demuxer that is not there; boundaries are
ordered times of the video's cues that miss no target; segments tile the file and do not
depend on what was built before; the boxes of a segment agree with each other
and with the init segment; the reader hands on the file at the position that was
asked for; each accepted connection is served once and closed.
`PROJECT.json` ties every hazard to its line and its properties.

## The modules

| module | models | composed of |
|---|---|---|
| `Demuxer` | the members of a `Demuxer` and what each call leaves in them, as operators on a record | |
| `SegmentCache` | `segment_cache_`, insertion and eviction, as operators on a function | |
| `SegmentService` | what clients are promised: the abstract specification of the server | |
| `PackagerServer` | handlers, session table, sessions, worker threads | `Demuxer`, `SegmentCache`; implements `SegmentService` |
| `SegmentBuilder` | `BuildSegmentLocked` packet by packet, with the transcoder | `SegmentCache` |
| `KeyframeIndex` | `FilterKeyframes`, on any ordered cue times | |
| `MuxedFile` | a Matroska file as its muxer put it together, and the cues it has for its video: what `CueIndex` is to find | |
| `CueIndex` | `EnsureCueIndex` read by read, and the EBML scans | extends and implements `KeyframeIndex`; extends `MuxedFile` |
| `InitSegment` | `BuildInit` and `BoxBuilder`, as operators on a buffer | |
| `Fmp4Layout` | `append_video_packet`, `fix_video_durations`, `BuildSegment` | `InitSegment` |
| `HttpReader` | `FetchFileSize`, `DoRead`, `DoSeek`, with libavformat's position | |
| `ThreadPool` | httplib's pool: threads, queue, idle count, shutdown | |
| `HttpServer` | httplib's listener and the connections it serves | `ThreadPool` |
| `*_proofs` | theorems | |

The parts meet where one takes for granted what another shows. `PackagerServer`
treats a walk as one step with a chosen outcome (a whole body, a cut one, no
video); `SegmentBuilder` is that step in detail, for one session, which may build
one segment at a time because of the mutex. `CueIndex` finds in a file the cues
that `KeyframeIndex` takes as chosen, `KeyframeIndex` proves the increasing
`bounds` that `SegmentBuilder` assumes of its files, and `Fmp4Layout` starts
from packets like those `SegmentBuilder` collects and puts its segment beside
the init segment `InitSegment` makes. The workers of `PackagerServer` are the
threads of `HttpServer`, whose hanging handlers are reads as in `HttpReader`.
Each MC module gives small instances for one of them.

### PackagerServer and SegmentService

One step per stretch of code between two points where another worker can see or
change something. `Lock` is the `lock_guard`; the steps that follow it let go
of it. `Peek` is the unlocked read of `init_built_`: a data race, so it may see
the old value or the one a worker inside `GenerateInitSegment` is about to
write. A build is two steps under one lock, `Seek` and `Walk`. `Die` is the
use of a null `AVFormatContext`; an index of -1 into `streams` is undefined
behaviour, so there the process may die or go on. The record `demux[s]` says
whether there is a context, a video stream, cached boundaries (and how many)
and an index. How an opening ends is one of five names, for the call that
failed; `OpenInput` and `SeekToMs` say which members that leaves changed.

Sessions are numbers: infohashes only separate sessions further, and file
names are left out. `now` counts minutes, as `CleanupOldSessions` does.

`SegmentService` has no threads, locks, demuxers or time: a session holds at
most one body per segment; a client is told of a failure, or served the body
that is held, or has one made; a body goes only to make room, lowest first. The
refinement (`ImplementsService`) maps a busy worker to a client that waits and
`segment_cache_` to what is held. It forbids, among others, an answer with bytes
other than those that are then cached, an eviction of the segment being
served, and a segment served before its init segment is made.

### SegmentBuilder

A file is a sequence of packets (track, key flag, millisecond or none, samples),
its cues (time and packet a cluster starts with) and its boundaries. A video
sample is the position of its packet; an audio sample is its position in the
source track, so that what an AAC frame holds can be compared with where its index
says it belongs. The two audio queues are one sequence of samples.
Decoder and resampler are external and keep every sample of a packet they can
decode. The encoder is external: it holds `EncoderDelay` frames back, puts a
frame of silence before the first one it ever sees, returns frames with the
times they were sent with, and each packet depends on its frame and, through the
overlapping transform, on the one before. It has no flush (`avcodec_flush_buffers`
does nothing for it, as `AacTranscoder.h:44-48` says), so `ResetEncoder` keeps
what it holds.

`intact` and `failed` are history variables: which cached segments were built
without a failed read. They restrict the properties that a failed read breaks
(a finding of its own), and nothing in the next-state relation reads them.

The properties of the audio are about segments which the source audio outlasts
(`AudioReaches`): what can be decoded before the first packet past the lookahead
fills the segment and the encoder. Where packets are missing or refused a build may
run short, and takes the rest from the session's cache. Late starts run short too:
segment 0 is anchored at `-initial_padding` wherever its preroll starts, so when
the first keyframe is later than the preroll is long, its sound is early by the
difference and may end before the segment does; `AudioFollowsOn` says by how
much it is early.

`BuilderAssumption` is what the constants of the code satisfy: a frame lasts a
millisecond at least (1024 samples, 48 a millisecond), the preroll (2000 ms)
holds a frame, the lookahead (250 ms) the frames the encoder holds back and one
more, and the padding is whole frames. In a `WellFormed` file
the boundaries between the first and the last are past the preroll: they are at
the first target (10000 ms) or later, as `LaterBoundariesReach` shows.
`AudioFollowsOn` is about segments with a frame of their own (`HasOwnFrame`).

### KeyframeIndex and CueIndex

In `KeyframeIndex` `raw` is filled one cue at a time and then filtered, one pass
of the loop a step. A cue time is any integer, also a negative one: that is what
the parser makes of some numbers. Cues come in the order of their times, one for
each, as a muxer writes them: the code relies on it (the search in `SeekToMs` stops
at the first later cue) and neither checks nor sorts.

`CueIndex` starts from bytes. Ids and sizes take one byte each; the header, the
first bytes of the cues and the cues are three reads, each of which may come back
short. `Children` is `ebml_scan_children` with its rules for unknown, zero and
cut-off sizes; the three parsers are operators over it. `ImplementsKeyframeIndex`
says that the boundaries are then made as `KeyframeIndex` has it, an early return
being an index of no cues. A failed parse is cached like a good one.

Numbers have the width the code gives them. `Uint` (`ebml_read_uint`) takes the
first `NumberBytes` bytes of an element (8 in the code); `AsLong` and `AsInt` are the
casts to `int64_t` and `int` that its callers make (`EbmlParser.h:198`, `:212`, `:214`,
`:287`, `:296`, `:298`, `:396`), and `Quotient` is C++'s division. So a scale, a time in
milliseconds, a place of the cues or of a cluster may be negative, a `CueTime` with the
top bit set makes no entry (`:313`), and a track's number may become another's. Where
the product of `:316` or a sum overflows the model wraps it around, which is
what the machine's arithmetic does; in C++ it is undefined. A place of the cues
before the file (`:396`) passes the check of `:400`, and the parser looks for the size of
Cues before its buffer (`ReadsBefore`; or, since the place is first cut to an `int`,
somewhere in the buffer). Nobody uses that size, so the outcomes that can be told apart
are two: the process ends there (`step` is then `"crashed"`) or goes on. Going on,
both seeks to that place fail, which is not looked at, and the reads go on where the
one before them ended (`tell`, `From`).

What the scans are to find is said in `MuxedFile` of the elements, not of the
bytes. A file carries the tree its muxer made (`top`), and `Sound` is a predicate
on that tree and the bytes: at each level the bytes are the elements, one after
another, each with its size, of which only the last may be unknown (a live muxer's
`Segment`), and those with a number have one that its cast leaves alone (`Fits`); one `SeekHead`, `Info` and `Tracks`, whole in the part of the file
that is looked at, and one `Cues` anywhere; a single `Seek` that points to it; a
single video track; in each cue point the time before the positions, and at most
one of these for the video; a time that fits an `int64_t` also in nanoseconds, and so
does the place of its cluster. Track numbers in cues take one byte, so that a cut
does not make another number of them (enough for 255 tracks). Other elements may
be between all of these. `VideoCues` are the cues of that tree, and `CuesFit` says
that they are read in one go: not below the least, and not past the 32 MiB limit
of `Demuxer.cpp`. `CuesAreTheVideos` is about files that are `Sound` and
`CuesFit`, `ShortCuesAreTheFirst` about all that are `Sound`. That the files of
the run are sound or not as they are meant to be is an assumption of `MCCueIndex`
which TLC evaluates; the unsound ones (no size, unknown size in the middle, tracks
too far behind, no seek head, no cues, numbers too large for their types, cues before
the file) are under the other properties: `CueTypeOK` and the refinement are about
every file.

### InitSegment and Fmp4Layout

The buffer is its length and the list of boxes in it; each writer adds the
length of what it writes, `Boxed` is `BeginBox`, contents, `EndBox`, and `Patch`
fills the fields that are patched. The 32-bit casts are `% Word`, the descriptor
lengths `% 256`. Bytes of samples are only their number. A segment `Fits` when its
length is less than half of `Word`: the reference of a `sidx` has 31 bits for a
size, and what is said of sizes and offsets is said of segments that fit. `Word`
is at least 256 and an AudioSpecificConfig has at most 95 bytes (its descriptor
lengths are written into one byte; those of AAC have 2 to 5). `MCFmp4Layout` assumes,
and TLC evaluates, that the init segment of `tests/test_init_roundtrip.cpp` has
the 679 bytes of the repository's `test_init.mp4`.

### HttpReader

A byte is its position in the file. `position` is the reader's, `pos` that of
libavformat's `AVIOContext`; `last` records what the last read gave: which bytes,
asked for at which position, out of what kind of answer. The file server may
give no length, a wrong one, the range or its beginning, the whole file, nothing,
or an error. The pos of the `AVIOContext` and `avio_seek` are external: they are
modelled from how `HttpReader` is registered and called.

### ThreadPool and HttpServer

What happens between taking the pool's `mutex_` and letting go of it, or
waiting, is one action; the notification that follows `enqueue`, and the rest of
`shutdown`, are actions of their own since other threads can run in between. A
dynamic thread may time out whenever it waits; there is no clock. A connection
is a member of a set and is accepted once. A request is one of six kinds, for
what `process_request` decides about the connection. The handlers' effect is
left to `PackagerServer`; here one either ends or hangs.

## The runs

Passing runs:

* `server_safety` (1,991,555 states): three workers, two sessions, five requests,
  two segments, a cache of one, every outcome of each call. Three workers are
  enough for one inside a lock, one waiting and one between two locks; two
  sessions for the age limit and for numbers to collide; five requests for a
  failed reopening and two requests after it. Shows `InitHasVideo`, `OpeningIsFresh`,
  `ListedSegmentsStayListed`, `CachedBytesNeverChange`, and that the server
  implements `SegmentService`. Workers are symmetric.
* `server_answers` (89,512): reopening fails at most in
  `avformat_find_stream_info` (the outcomes it leaves out are those of
  `server_rebuild`); two workers and two sessions are enough for one to wait for
  the other, in its session or in another; two segments and a cache of one, to
  fill it and seek back. Shows `NeverDereferencesNull`, `OverflowsOnlyBackwards`
  and liveness, see Fairness.
* `builder_walk` (206,629): any order of up to three segments, a segment cache of
  two (so that segments are built again), up to two failed reads, on six files:
  interleaved by time; with reordered pictures, an uncued keyframe, late audio
  and subtitles; without audio and with a first keyframe that is not at zero;
  with laced audio and a picture without a time; with packets that cannot be
  decoded; with audio in packets of two frames and a late first keyframe. Keyframes are 8 ms apart and a frame is 2 samples of 1 ms, so a
  segment is four frames, the preroll two, the lookahead two and a half, the
  encoder's delay two: the proportions in which delay, preroll and lookahead
  interact. (In the code a segment is some 470 frames, the preroll 93, the
  lookahead 11.7.) Shows that segments start with a keyframe, tile the
  video, have all their audio, go on where the one before ended (segment 1 excepted:
  it repeats what segment 0 is ahead of its time) and, except for the first frame of
  the first, hold what a fresh process makes.
* `cue_index` (64,047): every choice of up to six cue times up to the fourth
  multiple of the target, so that targets are skipped, shared and met exactly,
  as bytes of a plain file; and files whose reads come back short at any byte,
  with cues of two tracks, cue points without a time, cues longer than what is
  read of them, other time scales, and elements of no or of unknown size; and files
  whose numbers the casts change (`TooLarge`: a negative scale, a time that is
  dropped, one that wraps around, a cluster past the last place, a negative track
  number and one that becomes another's, more bytes than are read) or whose cues are
  said to be before the file (`Astray`, with nothing, cues, or what looks like them
  behind the header). A number has two bytes there instead of eight, so an `int64_t`
  ends at 32767, and an `int` at 127: the casts need two widths, of which numbers can
  exceed both. Shows the properties of the boundaries, `CueTypeOK`,
  `CuesAreTheVideos`, `ShortCuesAreTheFirst` and the refinement of
  `KeyframeIndex`.
* `layout` (619,711): one and two tracks; up to two video packets with every
  combination of size, missing or present decode and presentation time and
  duration, four with every order of decode times and a second keyframe, up to
  two audio frames of different sizes; four configurations of the init segment,
  one at the length where the descriptors' single bytes are full.
* `reader` (1,319): a file of five bytes and a buffer of two, so that the last
  range is short; error pages that are longer and shorter than the file; seeks to every
  place, to the end, past it and to a negative one.
* `http_server` (224,184): three connections on two base threads that may become
  three (one more thread name than there is room for), two requests a connection,
  one handler that hangs, timeouts whenever a thread waits, an accept that fails
  at any time. Enough for a queue of two, for a wake-up to meet a timeout, and for a
  thread to join after another left. Shows the six safety properties
  and `OthersAreServed`.

The state spaces are finite: requests, sessions, minutes, cues, connections and
failed reads are bounded by named constants, and deadlock is not checked because all
models stop when the bound (or the segment) is used up.

Violation runs, one property each, each a disagreement between the code and
what is written beside it (`PROJECT.json`, findings):

| run | what TLC shows |
|---|---|
| `server_rebuild` | a failed reopening leaves a session without a context, and the next segment request uses it (at `Demuxer.cpp:173` already) |
| `builder_cut` | a failed read ends a segment early, and the short one is cached |
| `builder_refetch` | segment 0 built after another holds a frame of that one's audio |
| `builder_last` | the video from the last keyframe to the end of the file is in no segment |
| `builder_index` | an AAC frame index stands for other source samples in segment 0 than in later segments |

Narrower disagreements, met while modelling, have no run:

* The eviction loop (`Session.cpp:596`) gives up at the segment just built, so the
  cache can exceed its limit going backwards (`OverflowsOnlyBackwards` says
  exactly when).
* `FilterKeyframes` counts its first target from zero even when the first cue is
  past it (`Demuxer.cpp:21`; `OnlyTargetsArePicked` excludes that file).
* Where the source audio has a hole a build runs short and takes frames from the
  session's cache, which "should never happen" (`Session.cpp:395`).
* `WriteTrun` never reads `is_keyframe`, which "sets trun sample_flags"
  (`Sample.h:19`; `SyncSamplesAreKeyframes` says what a player sees).
* With two tracks the first `sidx` says `first_offset` 0, and the second `sidx`
  follows it, not the fragment (`Fmp4Writer.cpp:441`, `:452`). Every `sidx` marks
  its fragment as starting with a SAP of type 1, also for open GOPs.
* The encoder's priming is skipped twice for segment 0: its frames are
  numbered from `-initial_padding`, and the edit list skips it again
  (`Fmp4Writer.h:38-41`); `tfdt`, written from that negative time
  (`Fmp4Writer.cpp:485`), is unsigned.
* A segment shorter than an AAC frame gets one all the same (`Session.cpp:185`), and
  the next segment starts with that frame again.
* `start_time` is taken off the video only (`Session.cpp:241`).
* A one-byte EBML size of unknown length (0xFF) is read as 127
  (`EbmlParser.h:80`); a cluster position cut off by the end of a read is
  another number than the "absolute file offset" it is said to be
  (`EbmlParser.h:243`).
* `BuildInit` throws only for no tracks; a codec it does not know gets the
  sample entry `????`.
* httplib answers an error with "Connection: close" (`httplib.h:11072`) and
  then goes on reading from the connection until the client closes it or the
  timeout comes; connections of HTTP/1.0 clients, and those with a body that
  could not be drained, are closed without being told so.

Every property of a passing run has a mutant in `PROJECT.json`: a plausible
slip in the code (a definition named `<operator>_<slip>` beside the operator)
under which TLC finds the property violated.

### Fairness

`PackagerServer`'s `FairSpec` has weak fairness of each worker's next step:
threads are scheduled and calls return, except that the reads of session 0's
upstream (the steps that call libavformat, among them the opening) may hang for
ever, because the code sets no timeout on them (`HttpReader.cpp:96-113`).
`OtherSessionsAnswered` holds even so. `EveryRequestAnswered` has `UpstreamEnds`,
that these reads end, as its condition: an assumption about the file server. The
mutex needs no strong fairness in the bounded model: requests are finite, so it
is finally free for good. Accepting requests and time passing are not fair.

`HttpServer`'s `FairSpec` has weak fairness of the notification that follows an
`enqueue`, of the steps of a shutdown, and of each thread's steps: pool, keep-alive
(which ends by its own timeout), the answer of a handler that does not hang,
and closing. Accepting, and failing to, are not fair. A request that waits for a
free worker is thereby covered where `PackagerServer` says nothing of it:
`OthersAreServed` holds with fewer hanging handlers than base threads. With as
many, it does not, although the pool could grow: a thread that was woken
still counts as idle until it runs, so two connections accepted in a row get one
thread between them (`httplib.h:10057`); TLC shows this with `Hanging` of two
connections.

## The proofs

TLAPS checks, for every value of the constants that meets the modules' named
assumptions:

* `PackagerServer_proofs`: `TypeCorrect`; `Safety` (`Spec => []SafetyInv`) and
  from it `InitSegmentHasVideo`, `SessionNumbersAreFresh`, `CopiesStayValid`;
  `NoEmptySegment`; the action property `BytesStayTheSame`; and
  `OnlyReopeningKills`, which carries its condition on `ReopenOutcomes` as an
  assumption of the theorem; `Implements` (the server implements
  `SegmentService`) and `OverflowIsBackwards`.
* `KeyframeIndex_proofs`: `TypeCorrect`, `BoundariesOrdered`,
  `BoundariesComeFromCues`, `BoundariesReachTheLastCue`, `NoTargetMissed`,
  `OnlyTargetsPicked`, `LaterBoundariesReach`.
* `CueIndex_proofs`: `CueTypes`; `CueIndexImplements` (`EnsureCueIndex` implements
  `KeyframeIndex`) and with it `CueBoundaries`; `CuesFound` and `ShortCues` (which
  cues it finds in a sound file, when its reads are whole and when they are not).
* `SegmentBuilder_proofs`: `TypeCorrect`, `SegmentsCanBeDecoded`, `SegmentsTile`.
* `SegmentAudio_proofs`: `AudioComplete`, `AudioFresh`, `AudioMeets`.
* `Fmp4Layout_proofs`: `LayoutInvariant` and from it `LayoutTypes`,
  `BoxesTileAlways`, `SamplesFound`, `SidxCovers`, `PresentedInTime`, `SyncIsKey`,
  `LengthsFit`: all the properties of the layout.
* `HttpReader_proofs`: `TypeCorrect`, `PositionsStayTogether`, `ReadsTheFile`,
  `EndsAtTheEnd`.
* `HttpServer_proofs`: `TypeCorrect`, `IdleCountIsRight`, `ThreadsStayBounded`,
  `WakeupsAreNotLost`, `OneOwner`, `NothingIsLeft`, `CloseWasAnnounced`.

The arguments, in short:

**Server.** `SafetyInv` has five parts because none of the properties is
inductive. `InitHasVideo` needs that a build only starts once an init segment is
there or is being made under the mutex (`InitInv`), also after a racy read; that
needs mutexes and program counters to agree (`LockInv`), and that handlers only
reach opened sessions (`TableInv`, which contains `OpeningIsFresh`: without it a
second opening could replace a demuxer). The copy of the boundaries stays
valid because boundaries, once cached, stay cached (`KeyInv`). Bytes do not
change because what a walk builds is not in the cache (`MissInv`), which the
mutex guarantees from the lookup to the insertion. Each part is preserved by
a lemma with one step per action; the cache and the demuxer have lemmas of their
own (`InsertFinds`: an insertion is found; `InsertPreserves`; `SeekType`: however a
reopening ends the boundaries stay).

**Refinement.** Each action maps to one step of `SegmentService` or a stutter,
under `SafetyInv`: a walk is `Make`, for which `MissInv` gives the empty place and
`InitInv` the init segment; a hit is `Serve`; an init segment made on the way to
a segment is `Describe`; an opening, a lock, a peek and a tick are stutters. What
the eviction does is a lemma about finite sets: it drops segments below the new
one, lowest first, and none when there is room.

**Boundaries.** `OrderInv`: cues and boundaries ascend, and inside the loop each
boundary is a cue already passed; so a cue appended to the boundaries is later
than all of them, and the last cue is appended only when it is not there yet.
`TargetInv`: `nextTarget` is a multiple of the target, and its predecessor was
reached by a cue already passed; so a cue before it is the first to reach no
multiple, and a cue at or after it is the first to reach that one (if the first
cue was before the first multiple). The arithmetic is four lemmas on multiples and
quotients, negative times included (`NoMultipleBelow`). `ReachInv`: inside the loop no boundary but the first is before the first
target.

**Cue index.** `CueInv` has the types of what was read, and what the reads rely on:
the place of the cues was found, the filter has not run, a fault is only taken
from a file that has one. Under it each step of `EnsureCueIndex` is one of
`KeyframeIndex` or a stutter. Most of the work is in what the scans return: `BigEndian`,
`FlattenSeq` and `Children` are recursive functions, of which each is shown to
have a solution (`ReadsExist`, `JoinsExist`, and `ScansExist`, which goes down from
the end of the buffer) and to yield a number, a sequence, a sequence of children
(`BigEndianType`, `FlattenType`, `ChildrenType`). What the casts then leave are lemmas on
remainders and quotients: `WrappedRange` (a cast gives what its type holds, and leaves
alone what it holds), `QuotientRange` (a time in milliseconds is no further from zero
than `MaxTime`, whatever the product wrapped to). `CueTypes` adds that `next_target`
stays within a target of the last of these times (`LoopFits`, `TargetAfterBound`).
`NumberAssumption` says that an `int64_t` has as many bytes as are read.
Two things are hypotheses of the theorems: `CueTime = Times`, since in the runs the set
is a bound, and `Times` is where the casts leave a time; and, where the order matters,
that the cue times found ascend (`CuesAscend`), which is the muxer's part and which the
code does not check.

Which cues are found in a sound file is `SoundInv`, inductive with `CueInv`:
`CuesAreTheVideos` speaks of the end only, and nothing in it says what a scan that
has come half way has found. `SoundInv` says what each read has left behind: after
the header, unless that was short, the time scale, the track and the place of the
cues are the file's; after the first bytes of the cues their length is; and during the
scan (`Scanned`) m bytes of the cues were read, all of them if no read was short,
the k-th element of Cues was the last visited (`Reached`), and the entries so far are
the video's cues among the first k elements, but for the k-th when m cuts it off
(`CuesSoFar`). TLC checked it on the files of the run before it was proved.
It is about the file without its faults (`AsMuxed`), which no step changes.

It rests on lemmas in four layers. *Sequences*: `Joined`, the first k parts of
`FlattenSeq`, step by step, and what `Only` selects (`OnlySelects`). *A scan*: of the
first m bytes of a level that `Tiles` its buffer, `Children` finds the elements whose
headers are among the m, each cut off where they end (`ScanFinds`, which goes
down from the last such element), hence `Named` (`NamedShows`). *The header*: the scans
of `parse_segment_info` and `parse_cues_location` find the sections that lie in it
(`HeadOf`, `InSection`, `HeaderIsRight`). *A cue point*: whole, it becomes the
video's cue or none (`WholePoint`); cut off, it becomes an entry only if it is a cue of
the video's, and then with its time, since the time comes before the positions
(`CutPoint`). Each step of `EnsureCueIndex` then has a lemma (`HeaderSound`,
`ChunkSound`, `CuesSound`, `VisitSound`, `OtherSteps`): a visit takes the next cue
point (`NextReached`), with no other between, and all before it were whole.

**Builder.** `BuilderInv` describes a build by the file alone: at `pos` the video
taken is the timed video packets from the one that `Opens` to `pos` (`Walked`),
none of which `Closes`; a finished segment is such a walk from its seek
position up to where it stopped (`StoppedAt`). Walks from different seeks meet:
the packet at which segment i stops is the one at which segment i + 1 opens, since
the end of one is the start of the other and no keyframe of that time can be in
front of either seek (`SeekIsEarly`, `StopIsStart`, `WalksTile`). This uses
`WellFormed`: boundaries increase (proved in `KeyframeIndex_proofs`) and
keyframes in front of a cue's cluster are earlier than the cue, which is the
muxer's part.

**Audio.** `AudioInv` adds three parts to `BuilderInv`. While a build runs its
queue is a window on the source samples up to `pos` (`Window`, in `BuildAudioInv`):
what was decoded less what was encoded. What it has sent to the encoder is an
`Encoding`: frame after frame from the anchor, of which the encoder holds the
last `EncoderDelay` (with at most that many of builds before in front, `HeldInv`),
and `this_build_aac` has the others at their indices. An encoder session
only goes on, so one lemma on a session of k frames (`EncodesOn`) serves every drain.
`CachedAudioInv` then says of the segments what the last drain made of their
build. Completeness is a count: when the reading ends the queue holds fewer
samples than a frame or the cutoff is reached (`RunLength`), `AudioReaches` gives
the samples, the lookahead is longer than what the encoder holds back, and so
every frame of the range has come out (`SegmentFrames`, `Enough`, `OutputWhole`).
Freshness follows since the range starts a frame behind the anchor at least, by
the preroll, so that neither the frames of other builds nor the silence reach it, except
in segment 0, whose range starts at the anchor: its first frame overlaps with
what the encoder held. That segments meet follows from the same formula for the
frames of both, once gapless audio is shown to give each sample at the place its
time says (`SamplesCount`, `SegmentEnds`).

**Layout.** `LayoutInvariant` follows the phases: while packets are appended, the
tables of a track (what a player sums up from sizes, durations and offsets); while
boxes are written, where each of them and each sample is put, and what the fields will
be patched with; at the end, the same after patching. Sums are recursive functions over
the samples. The library's induction theorems take an operator, so induction is
done on the set of lengths for which a sum is right (`InductionOnSet`).
That the boxes tile is shown per box from what its writer adds (`Boxed`, `Quiet`,
`Writes`), in the init segment down to the descriptors; `SyncSamplesAreKeyframes`
puts the `trex` defaults of one response and the `trun` flags of another together.

**Reader.** `PositionsAgree` is inductive with the types; the other two follow
from what `Give` records.

**Pool.** `PoolInv` ties a thread's state to the lists and its job, `IdleCountAgrees`
and `ThreadsAreBounded` are inductive on it, by the cardinality theorems of the
library. `NoLostWakeup` holds because whoever takes a job, times out or goes to
wait does so on what it sees under the lock. `OwnerInv` counts an open socket's
places, `ListenerInv` says what each step of a shutdown has behind it,
`ServingInv` ties the count of a connection to what its client was told.

The type invariants of `KeyframeIndex`, `PackagerServer`, `HttpReader` and
`HttpServer`, and the auxiliary properties `ServedBytesExist`, `BoundariesAreCues`,
`LaterBoundariesReachTarget` and `SafetyInv`, are left to these proofs and are in
no run of their own.

Only model-checked: liveness (`EveryRequestAnswered`, `OtherSessionsAnswered`,
`OthersAreServed`), which is out of the prover's reach. Every invariant of a
passing run is also a theorem.

## Not modelled

* `httplib.h` is 20,091 of the repository's 23,070 lines of implementation and
  third-party; the map covers the server core the packager runs in, and leaves out the
  client, TLS, WebSocket, multipart, compression, static files and the parsing of
  headers. `stop()`, which the program does not call, and the limit on queued
  requests, which is off, are left out too. Clients are taken to wait for an answer before
  the next request.
* `HlsManifest`: text made of the boundaries. CORS, `/health`, logging.
* In the walk a disappearing audio stream on a reopening; in the transcoder an
  encoder that refuses a frame. Allocation failures.
* curl's options, and what libavformat does with a read that fails, other than
  handing the failure on.
* In `Fmp4Layout` the change of units from the stream's time base to 1/16000 s, which
  is exact for Matroska's milliseconds (times 16), and the cast of a composition
  offset to `int32_t` (some 37 hours).
* Element ids and sizes of several bytes, and sizes past the range of an `int`.
* Contents of boxes that no property tells apart (names, matrices, picture sizes).
* Files with two video tracks: which one libavformat calls best is its choice.

## Plan

Done: every component that keeps state, the abstract service and its refinement,
the cue index down to the bytes, both kinds of segment, the reader, the pool, and the
theorems above.

What would come next: ids and sizes of several bytes in `MuxedFile`, and the composition
of `HttpServer` with `PackagerServer` in one module, if handlers
ever depend on each other's connections.
