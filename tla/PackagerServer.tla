--------------------------- MODULE PackagerServer ---------------------------
(***************************************************************************)
(* The packager as its clients see it: the HTTP handlers of server.cpp run *)
(* by the worker threads of httplib, the table of sessions, and the        *)
(* sessions (Session.cpp) with their lock, their demuxer, their init       *)
(* segment and their segment cache.                                        *)
(*                                                                         *)
(* A worker's steps are the code between two points at which another       *)
(* worker can see or change something: taking a session's mutex_, letting  *)
(* it go, the read of init_built_ without it, a lookup or a change of      *)
(* g_sessions (one critical section, one step). The locked part of a       *)
(* segment build is two steps, the reopening of the input and the walk, so *)
(* that the mutex is what keeps two builds apart.                          *)
(***************************************************************************)
EXTENDS Demuxer, SegmentCache

CONSTANTS Worker,         \* threads of the pool
          NoOne,          \* holder of a free mutex
          MaxSessions,    \* bound: manifests asked for
          MaxRequests,    \* bound: requests of all kinds
          MaxAge,         \* max_age_minutes of CleanupOldSessions
          MaxTime,        \* bound: minutes that pass
          KeyframeCounts, \* how many boundaries a file can turn out to have
          FirstOutcomes,  \* how the constructor of a Demuxer can end
          ReopenOutcomes, \* how the reopening in SeekToMs can end
          WalkOutcomes    \* how the packet walk of a build can end

ASSUME ServerAssumption ==
  /\ NoOne \notin Worker
  /\ 0 \in Segment
  /\ MaxSessions \in Nat \ {0} /\ MaxRequests \in Nat
  /\ MaxAge \in Nat /\ MaxTime \in Nat
  /\ KeyframeCounts \subseteq Nat
  /\ FirstOutcomes \subseteq OpenOutcome
  /\ ReopenOutcomes \subseteq OpenOutcome
  /\ WalkOutcomes \subseteq Body \cup {"no_video_samples"}
  /\ Body \cap {"no_video_samples", "empty"} = {}

Session == 0 .. (MaxSessions - 1)

VARIABLES
  nextId,        \* g_next_session_id
  table,         \* the sessions g_sessions holds
  lastActivity,  \* last_activity_ of each session, in minutes
  now,           \* steady_clock, in minutes
  mutex,         \* who holds the mutex_ of each session
  demux,         \* demuxer_ of each session
  init,          \* init_built_ and init_cache_: "none", "video", "no_video"
  segCache,      \* segment_cache_ of each session
  pc,            \* where each worker is
  req,           \* the request it serves
  answer,        \* what it answered last
  left,          \* requests that may still come
  alive          \* the process has not died of a bad pointer

vars == <<nextId, table, lastActivity, now, mutex, demux, init, segCache,
          pc, req, answer, left, alive>>

Kind    == {"manifest", "init", "segment"}
Step    == {"idle", "opening", "keyframes", "peek", "init", "build", "walk"}
Answer  == {"none", "ok", "404", "500", "503", "empty"} \cup Body
Request == [kind : Kind, sid : Session, seg : Segment]

NoRequest == [kind |-> "init", sid |-> 0, seg |-> 0]

Init ==
  /\ nextId = 0 /\ table = {} /\ now = 0
  /\ lastActivity = [s \in Session |-> 0]
  /\ mutex = [s \in Session |-> NoOne]
  /\ demux = [s \in Session |-> Closed]
  /\ init = [s \in Session |-> "none"]
  /\ segCache = [s \in Session |-> Empty]
  /\ pc = [w \in Worker |-> "idle"]
  /\ req = [w \in Worker |-> NoRequest]
  /\ answer = [w \in Worker |-> "none"]
  /\ left = MaxRequests
  /\ alive = TRUE

-----------------------------------------------------------------------------
(* Control of a worker.                                                    *)

sidOf(w) == req[w].sid
segOf(w) == req[w].seg
demuxOf(w) == demux[sidOf(w)]

\* The handler returns: response a.
Respond(w, a) ==
  /\ pc' = [pc EXCEPT ![w] = "idle"]
  /\ req' = [req EXCEPT ![w] = NoRequest]
  /\ answer' = [answer EXCEPT ![w] = a]

\* The handler goes on at step p.
Goto(w, p) ==
  /\ pc' = [pc EXCEPT ![w] = p]
  /\ UNCHANGED <<req, answer>>

\* A free worker takes a request and starts at step p.
Accept(w, r, p) ==
  /\ alive /\ pc[w] = "idle" /\ left > 0
  /\ left' = left - 1
  /\ pc' = [pc EXCEPT ![w] = p]
  /\ req' = [req EXCEPT ![w] = r]
  /\ answer' = [answer EXCEPT ![w] = "none"]

At(w, p) == alive /\ pc[w] = p

\* The steps whose code holds the session's mutex_.
LockedStep == {"keyframes", "init", "build", "walk"}

\* Mutants of MutexFree: no lock at all; one lock for all the sessions.
MutexFree_Always(s) == TRUE
MutexFree_Global(s) == \A t \in Session : mutex[t] = NoOne

MutexFree(s) == mutex[s] = NoOne

\* std::lock_guard: the worker waits here until the mutex is free.
Lock(w) ==
  /\ alive /\ pc[w] \in LockedStep /\ MutexFree(sidOf(w))
  /\ mutex' = [mutex EXCEPT ![sidOf(w)] = w]
  /\ UNCHANGED <<nextId, table, lastActivity, now, demux, init, segCache,
                 pc, req, answer, left, alive>>

Holds(w) == mutex[sidOf(w)] = w

\* Mutant of Unlock: the early return of a cache hit forgets it.
Unlock_NotOnHit(w) ==
  mutex' = IF pc[w] = "build" THEN mutex
           ELSE [mutex EXCEPT ![sidOf(w)] = NoOne]

Unlock(w) == mutex' = [mutex EXCEPT ![sidOf(w)] = NoOne]

-----------------------------------------------------------------------------
(* The table of sessions.                                                  *)

\* Minutes since the session was last asked for; steady_clock never goes back.
Age(s) == now - lastActivity[s]

\* CleanupOldSessions.
Survivors == {s \in table : Age(s) <= MaxAge}

\* Mutant of NextId: the number is read but not advanced.
NextId_Reused(n) == n

\* fetch_add.
NextId(n) == n + 1

\* GET /:infohash.m3u8 up to the construction of the session, whose first
\* member initialiser stamps last_activity_.
ManifestRequest(w) ==
  /\ nextId < MaxSessions
  /\ Accept(w, [kind |-> "manifest", sid |-> nextId, seg |-> 0], "opening")
  /\ table' = Survivors
  /\ nextId' = NextId(nextId)
  /\ lastActivity' = [lastActivity EXCEPT ![nextId] = now]
  /\ UNCHANGED <<now, mutex, demux, init, segCache, alive>>

\* The session's constructor opens the input, without any lock, and the
\* finished session goes into the table; or it throws.
OpenSession(w) ==
  /\ At(w, "opening")
  /\ \E o \in FirstOutcomes :
       IF o = "ok"
       THEN /\ demux' = [demux EXCEPT ![sidOf(w)] = OpenInput(Closed, o)]
            /\ table' = table \cup {sidOf(w)}
            /\ Goto(w, "keyframes")
       ELSE /\ Respond(w, "500")
            /\ UNCHANGED <<demux, table>>
  /\ UNCHANGED <<nextId, lastActivity, now, mutex, init, segCache, left, alive>>

\* Where the handlers of the two session routes go on.
FirstStep(kind) == IF kind = "init" THEN "init" ELSE "keyframes"

\* GET init.mp4 and GET :n.m4s up to GetSession, which touches the session.
SessionRequest(w, kind, s, i) ==
  /\ s \in table
  /\ Accept(w, [kind |-> kind, sid |-> s, seg |-> i], FirstStep(kind))
  /\ lastActivity' = [lastActivity EXCEPT ![s] = now]
  /\ UNCHANGED <<nextId, table, now, mutex, demux, init, segCache, alive>>

\* The same routes with a session that is not, or no longer, in the table.
UnknownSession(w, s) ==
  /\ alive /\ pc[w] = "idle" /\ left > 0 /\ s \notin table
  /\ left' = left - 1
  /\ answer' = [answer EXCEPT ![w] = "404"]
  /\ UNCHANGED <<nextId, table, lastActivity, now, mutex, demux, init,
                 segCache, pc, req, alive>>

-----------------------------------------------------------------------------
(* The session.                                                            *)

\* The bounds check of the segment route, on the copy of the boundaries.
Listed(i, kf) == i + 1 < kf

\* GetKeyframesMs, and what the handler does with the copy it returns.
GetKeyframes(w) ==
  /\ At(w, "keyframes") /\ Holds(w)
  /\ demuxOf(w).ctx \/ ~EnsureUsesContext(demuxOf(w))
  /\ Unlock(w)
  /\ \E n \in KeyframeCounts :
       LET d == EnsureCueIndex(demuxOf(w), n) IN
       /\ demux' = [demux EXCEPT ![sidOf(w)] = d]
       /\ IF req[w].kind = "manifest"
          THEN Respond(w, IF d.kf < 2 THEN "503" ELSE "ok")
          ELSE IF Listed(segOf(w), d.kf) THEN Goto(w, "peek")
                                         ELSE Respond(w, "404")
  /\ UNCHANGED <<nextId, table, lastActivity, now, init, segCache, left, alive>>

\* Mutant of PeekValues: segments no longer build the init segment first.
PeekValues_SkipInit(s) == {TRUE}

\* Values init_built_ can be read as without the lock: the value it has, or
\* the one a worker inside GenerateInitSegment is about to give it.
PeekValues(s) ==
  {init[s] # "none"} \cup
  {TRUE : w \in {v \in Worker : mutex[s] = v /\ pc[v] = "init"}}

\* The first line of GenerateSegment.
Peek(w) ==
  /\ At(w, "peek")
  /\ \E built \in PeekValues(sidOf(w)) : Goto(w, IF built THEN "build" ELSE "init")
  /\ UNCHANGED <<nextId, table, lastActivity, now, mutex, demux, init, segCache,
                 left, alive>>

\* Mutant of BuiltInit: the init segment is built anew for each request.
BuiltInit_Always(s) == IF demux[s].video THEN "video" ELSE "no_video"

\* What GenerateInitSegment leaves in the cache: it is built once.
BuiltInit(s) ==
  IF init[s] # "none" THEN init[s]
  ELSE IF demux[s].video THEN "video" ELSE "no_video"

\* GenerateInitSegment, for its own route or for GenerateSegment.
GenerateInit(w) ==
  /\ At(w, "init") /\ Holds(w)
  /\ init[sidOf(w)] # "none" \/ ~InitDies(demuxOf(w))
  /\ init' = [init EXCEPT ![sidOf(w)] = BuiltInit(sidOf(w))]
  /\ Unlock(w)
  /\ IF req[w].kind = "init" THEN Respond(w, "ok") ELSE Goto(w, "build")
  /\ UNCHANGED <<nextId, table, lastActivity, now, demux, segCache, left, alive>>

\* segment_cache_.find succeeds.
Hit(s, i) == segCache[s][i] # Absent

\* BuildSegmentLocked served from the cache.
ServeCached(w) ==
  /\ At(w, "build") /\ Holds(w) /\ Hit(sidOf(w), segOf(w))
  /\ Unlock(w)
  /\ Respond(w, segCache[sidOf(w)][segOf(w)])
  /\ UNCHANGED <<nextId, table, lastActivity, now, demux, init, segCache, left,
                 alive>>

\* BuildSegmentLocked on a miss: SeekToMs, which may throw.
Seek(w) ==
  /\ At(w, "build") /\ Holds(w) /\ ~Hit(sidOf(w), segOf(w))
  /\ SeekMaySurvive(demuxOf(w))
  /\ \E o \in ReopenOutcomes, n \in KeyframeCounts :
       /\ demux' = [demux EXCEPT ![sidOf(w)] = SeekToMs(@, n, o)]
       /\ IF o = "ok" THEN Goto(w, "walk") /\ UNCHANGED mutex
                      ELSE Respond(w, "500") /\ Unlock(w)
  /\ UNCHANGED <<nextId, table, lastActivity, now, init, segCache, left, alive>>

\* What `return segment_cache_[segment_idx]` finds: operator[] makes an empty
\* body where there is no entry.
Found(c, i) == IF c[i] = Absent THEN "empty" ELSE c[i]

\* The rest of BuildSegmentLocked: the walk (see SegmentBuilder), the
\* insertion into the cache, the eviction and the answer.
Walk(w) ==
  /\ At(w, "walk")
  /\ Unlock(w)
  /\ \E out \in WalkOutcomes :
       IF out = "no_video_samples"
       THEN Respond(w, "500") /\ UNCHANGED segCache
       ELSE LET c == Insert(segCache[sidOf(w)], segOf(w), out) IN
            /\ segCache' = [segCache EXCEPT ![sidOf(w)] = c]
            /\ Respond(w, Found(c, segOf(w)))
  /\ UNCHANGED <<nextId, table, lastActivity, now, demux, init, left, alive>>

\* The code at a locked step uses a pointer that does not hold.
Dereferences(w) ==
  LET d == demuxOf(w) IN
  CASE pc[w] = "keyframes" -> ~d.ctx /\ EnsureUsesContext(d)
    [] pc[w] = "init"      -> init[sidOf(w)] = "none" /\ InitDies(d)
    [] pc[w] = "build"     -> ~Hit(sidOf(w), segOf(w)) /\ SeekMayDie(d)
    [] OTHER               -> FALSE

\* The process dies.
Die(w) ==
  /\ alive /\ Holds(w) /\ Dereferences(w)
  /\ alive' = FALSE
  /\ UNCHANGED <<nextId, table, lastActivity, now, mutex, demux, init, segCache,
                 pc, req, answer, left>>

Tick ==
  /\ alive /\ now < MaxTime
  /\ now' = now + 1
  /\ UNCHANGED <<nextId, table, lastActivity, mutex, demux, init, segCache,
                 pc, req, answer, left, alive>>

-----------------------------------------------------------------------------
\* The steps a worker takes once it has a request.
Advance(w) ==
  \/ Lock(w) \/ OpenSession(w) \/ GetKeyframes(w) \/ Peek(w) \/ GenerateInit(w)
  \/ ServeCached(w) \/ Seek(w) \/ Walk(w) \/ Die(w)

Next ==
  \/ \E w \in Worker :
       \/ ManifestRequest(w)
       \/ \E s \in Session : UnknownSession(w, s)
       \/ \E s \in Session : SessionRequest(w, "init", s, 0)
       \/ \E s \in Session, i \in Segment : SessionRequest(w, "segment", s, i)
       \/ Advance(w)
  \/ Tick

Spec == Init /\ [][Next]_vars

\* The worker is at a step of session 0 that reads the upstream, on which the
\* code sets no timeout.
AtUpstream(w) ==
  sidOf(w) = 0 /\ pc[w] \in {"opening", "keyframes", "build", "walk"}

\* Every worker is scheduled, but the upstream reads of session 0 may hang
\* for ever.
FairSpec == Spec /\ \A w \in Worker : WF_vars(Advance(w) /\ ~AtUpstream(w))

\* They end: an assumption about the file server.
UpstreamEnds == \A w \in Worker : WF_vars(Advance(w) /\ AtUpstream(w))

-----------------------------------------------------------------------------
(* Properties.                                                             *)

\* Every variable keeps its type; a copy of the boundaries has a length.
TypeOK ==
  /\ nextId \in 0 .. MaxSessions
  /\ table \subseteq Session
  /\ now \in 0 .. MaxTime
  /\ lastActivity \in [Session -> 0 .. MaxTime]
  /\ mutex \in [Session -> Worker \cup {NoOne}]
  /\ demux \in [Session -> DemuxerState]
  /\ init \in [Session -> {"none", "video", "no_video"}]
  /\ segCache \in [Session -> Cache]
  /\ pc \in [Worker -> Step]
  /\ req \in [Worker -> Request]
  /\ answer \in [Worker -> Answer]
  /\ left \in 0 .. MaxRequests
  /\ alive \in BOOLEAN

\* The init segment a session caches for good always describes its video
\* track: although SeekToMs can leave the demuxer without a video stream, or
\* without a context, no request can build the init segment after that,
\* because GenerateSegment builds it before the first SeekToMs, even when
\* its unlocked read of init_built_ races with another request.
InitHasVideo == \A s \in Session : init[s] # "no_video"

\* Nobody is ever sent an empty segment: the eviction that follows a build
\* never takes the entry that BuildSegmentLocked then returns.
ServedBytesExist == \A w \in Worker : answer[w] # "empty"

\* Bytes in a session's cache are never replaced by other bytes, however the
\* requests for the same segment interleave: a second request for a segment
\* that is being built waits for it and is served what the first one built.
CachedBytesNeverChange ==
  [][\A s \in Session : \A i \in Cached(segCache[s]) \cap Cached(segCache'[s]) :
       segCache'[s][i] = segCache[s][i]]_vars

\* A session under construction has a number no other request can be
\* using and no entry of the table has: CreateSession never replaces one.
OpeningIsFresh ==
  \A w \in Worker : pc[w] = "opening" =>
    /\ sidOf(w) \notin table
    /\ \A v \in Worker \ {w} : pc[v] # "idle" => sidOf(v) # sidOf(w)

\* The bounds check is made on a copy of the boundaries and the lock is let
\* go; whenever the worker later acts on it the session still has them.
CheckedSegment(w) ==
  pc[w] \in {"peek", "build", "walk"} \/ (pc[w] = "init" /\ req[w].kind # "init")

ListedSegmentsStayListed ==
  \A w \in Worker : CheckedSegment(w) => Listed(segOf(w), demuxOf(w).kf)

\* The segment cache grows past its limit only by a segment that is then the
\* lowest it holds: playing forwards never does that. ("Evict oldest entries
\* past kMaxCachedSegments", Session.cpp:592, promises more: the loop gives
\* up when the oldest is the new one.)
OverflowsOnlyBackwards ==
  [][\A s \in Session :
       LET before == Cached(segCache[s])
           after  == Cached(segCache'[s])
       IN  Cardinality(after) > MaxCachedSegments /\ after # before
             => \A i \in after \ before, j \in after : i <= j]_vars

\* The process does not use a null context or a stream index of -1. It holds
\* where reopening an input never fails in avformat_open_input, never lacks a
\* reader and never loses the video stream.
NeverDereferencesNull == alive

\* "Tears down and rebuilds the AVFormatContext" (Demuxer.h:48): whenever no
\* request is inside a session, its demuxer has a context.
SeekRebuildsContext ==
  \A s \in table : mutex[s] = NoOne => demux[s].ctx

\* Where the reads of the upstream end every request is answered, unless the
\* process dies: no handler waits for a lock it holds itself or that is never
\* let go.
EveryRequestAnswered ==
  UpstreamEnds => \A w \in Worker : pc[w] # "idle" ~> pc[w] = "idle" \/ ~alive

\* While the upstream of session 0 hangs, a request that is being served for
\* another session is still answered: nothing that reads the upstream holds
\* a lock that the handlers of other sessions need.
OtherSessionsAnswered ==
  \A w \in Worker : pc[w] # "idle" /\ sidOf(w) # 0 ~> pc[w] = "idle" \/ ~alive

-----------------------------------------------------------------------------
(* What all this implements.                                               *)

Service == INSTANCE SegmentService WITH
  Client    <- Worker,
  Room      <- MaxCachedSegments,
  asked     <- [w \in Worker |->
                  IF pc[w] = "idle" THEN [kind |-> "none", sid |-> 0, seg |-> 0]
                                    ELSE req[w]],
  told      <- answer,
  described <- {s \in Session : init[s] = "video"},
  held      <- segCache

\* To its clients the server, with its threads, locks, reopenings and time, is
\* the service of SegmentService: a body is served as the session holds it,
\* or made where it holds none, only after its init segment, and goes only
\* when there is no room, lowest first ("Evict oldest entries past
\* kMaxCachedSegments", Session.cpp:592).
ImplementsService == Service!Spec

-----------------------------------------------------------------------------
(* The inductive invariant behind the safety properties.                   *)

\* Whoever holds a session's mutex is at a locked step of that session, and
\* a walk goes on only under the mutex.
LockInv ==
  /\ \A s \in Session : mutex[s] # NoOne =>
       pc[mutex[s]] \in LockedStep /\ sidOf(mutex[s]) = s
  /\ \A w \in Worker : pc[w] = "walk" => Holds(w)

\* The table and the handlers past GetSession only know sessions that were
\* opened, and only numbers that were given out.
TableInv ==
  /\ \A s \in table : s < nextId /\ demux[s] # Closed
  /\ \A w \in Worker : pc[w] # "idle" => sidOf(w) < nextId
  /\ \A w \in Worker : pc[w] \notin {"idle", "opening"} => demuxOf(w) # Closed
  /\ OpeningIsFresh

\* A worker is inside GenerateInitSegment.
InitComing(s) == mutex[s] # NoOne /\ pc[mutex[s]] = "init"

\* Until the init segment is built the input is as it was first opened; a
\* build waits for an init segment that is there, or is being built under
\* the mutex.
InitInv ==
  /\ InitHasVideo
  /\ \A s \in Session : init[s] = "none" /\ demux[s] # Closed =>
       demux[s].ctx /\ demux[s].video
  /\ \A w \in Worker : pc[w] \in {"build", "walk"} =>
       init[sidOf(w)] # "none" \/ InitComing(sidOf(w))

\* What a walk builds is not in the cache yet.
MissInv == \A w \in Worker : pc[w] = "walk" => ~Hit(sidOf(w), segOf(w))

\* A checked segment is one of boundaries that are cached for good.
KeyInv ==
  \A w \in Worker : CheckedSegment(w) =>
    demuxOf(w).cached /\ Listed(segOf(w), demuxOf(w).kf)

\* The locks, the table, the init segment, the cache and the checked segments
\* fit together: what one handler relies on no other handler changes.
SafetyInv == LockInv /\ TableInv /\ InitInv /\ MissInv /\ KeyInv
=============================================================================
