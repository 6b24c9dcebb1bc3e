----------------------- MODULE PackagerServer_proofs -----------------------
(***************************************************************************)
(* Theorems about PackagerServer, for every pool of workers, number of     *)
(* sessions and requests, cache limit and outcome of the calls below: its  *)
(* invariants, that it implements SegmentService, and that its segment     *)
(* caches exceed their limit only backwards.                               *)
(***************************************************************************)
EXTENDS PackagerServer, FiniteSetTheorems, TLAPS

-----------------------------------------------------------------------------
(* The segment cache.                                                      *)

\* An insertion gives a cache, whatever the limit.
LEMMA InsertType ==
  ASSUME NEW c \in Cache, NEW i \in Segment, NEW b \in Body
  PROVE  Insert(c, i, b) \in Cache
BY CacheAssumption DEF Insert, Cache

\* The eviction loop of BuildSegmentLocked never takes the new entry.
LEMMA InsertFinds ==
  ASSUME NEW c \in Cache, NEW i \in Segment, NEW b \in Body
  PROVE  Insert(c, i, b)[i] = b
BY CacheAssumption DEF Insert, Kept, Cached

\* An insertion where there was no entry changes no other entry, it can only
\* take it away.
LEMMA InsertPreserves ==
  ASSUME NEW c \in Cache, NEW i \in Segment, NEW b \in Body, c[i] = Absent,
         NEW j \in Cached(c) \cap Cached(Insert(c, i, b))
  PROVE  Insert(c, i, b)[j] = c[j]
BY DEF Insert, Cached

-----------------------------------------------------------------------------
(* The demuxer.                                                            *)

\* A demuxer that was never opened has cached no boundaries.
LEMMA ClosedNotCached == ~Closed.cached
BY DEF Closed

\* EnsureCueIndex ends with boundaries cached, keeps those it had, and leaves
\* the context and the video stream alone.
LEMMA EnsureType ==
  ASSUME NEW d \in DemuxerState, NEW n \in Nat
  PROVE  /\ EnsureCueIndex(d, n) \in DemuxerState
         /\ EnsureCueIndex(d, n).cached
         /\ EnsureCueIndex(d, n).ctx = d.ctx
         /\ EnsureCueIndex(d, n).video = d.video
         /\ d.cached => EnsureCueIndex(d, n).kf = d.kf
BY DEF EnsureCueIndex, AddCueIndexEntries, AddsCueIndexEntries, DemuxerState

\* However the reopening ends the boundaries are cached, and those cached
\* before stay.
LEMMA SeekType ==
  ASSUME NEW d \in DemuxerState, NEW n \in Nat, NEW o \in OpenOutcome
  PROVE  /\ SeekToMs(d, n, o) \in DemuxerState
         /\ SeekToMs(d, n, o).cached
         /\ d.cached => SeekToMs(d, n, o).kf = d.kf
         /\ o \in {"ok", "no_info"} /\ d.video
              => SeekToMs(d, n, o).ctx /\ SeekToMs(d, n, o).video
<1> DEFINE e == EnsureCueIndex(d, n)
           closed == [e EXCEPT !.ctx = FALSE]
           opened == OpenInput([closed EXCEPT !.indexed = FALSE], o)
<1>1. /\ e \in DemuxerState /\ e.cached /\ e.video = d.video
      /\ d.cached => e.kf = d.kf
  BY EnsureType
<1> HIDE DEF e
<1>2. /\ closed \in DemuxerState /\ closed.cached /\ closed.kf = e.kf
      /\ closed.video = e.video
  BY <1>1 DEF DemuxerState
<1>3. /\ opened \in DemuxerState /\ opened.cached /\ opened.kf = e.kf
      /\ o \in {"ok", "no_info"} /\ d.video => opened.ctx /\ opened.video
  BY <1>1, <1>2 DEF DemuxerState, OpenInput, OpenOutcome
<1>4. /\ AddCueIndexEntries(opened) \in DemuxerState
      /\ AddCueIndexEntries(opened).cached
      /\ AddCueIndexEntries(opened).kf = opened.kf
      /\ AddCueIndexEntries(opened).ctx = opened.ctx
      /\ AddCueIndexEntries(opened).video = opened.video
  BY <1>3 DEF AddCueIndexEntries, AddsCueIndexEntries, DemuxerState
<1>5. SeekToMs(d, n, o) = CASE o = "no_reader" -> closed
                            [] o = "ok" -> AddCueIndexEntries(opened)
                            [] OTHER -> opened
  BY DEF SeekToMs, e
<1> HIDE DEF closed, opened
<1>6. SeekToMs(d, n, o) \in {closed, AddCueIndexEntries(opened), opened}
  BY <1>5
<1>7. o \in {"ok", "no_info"} => SeekToMs(d, n, o) \in {AddCueIndexEntries(opened), opened}
  BY <1>5
<1> QED
  BY <1>1, <1>2, <1>3, <1>4, <1>6, <1>7

-----------------------------------------------------------------------------
(* Type correctness.                                                       *)

\* Session numbers are naturals, and the next one fits below the bound.
LEMMA SessionAssumptions ==
  /\ Session \subseteq Nat /\ 0 \in Session /\ 0 \in Segment
  /\ \A n \in 0 .. MaxSessions : n < MaxSessions => n \in Session /\ n + 1 \in 0 .. MaxSessions
BY ServerAssumption DEF Session

\* The server starts with every variable in its type.
LEMMA TypeInit == Init => TypeOK
BY SessionAssumptions, ServerAssumption
   DEF Init, TypeOK, Closed, DemuxerState, Empty, Cache, Step, Answer,
       Request, NoRequest, Kind

\* The part of the type invariant that Accept, Respond and Goto keep.
WorkersOK ==
  /\ pc \in [Worker -> Step]
  /\ req \in [Worker -> Request]
  /\ answer \in [Worker -> Answer]

\* Answering a request keeps the types of the workers.
LEMMA RespondType ==
  ASSUME TypeOK, NEW w \in Worker, NEW a \in Answer, Respond(w, a)
  PROVE  WorkersOK'
<1>1. NoRequest \in Request /\ "idle" \in Step
  BY SessionAssumptions DEF NoRequest, Request, Kind, Step
<1> QED
  BY <1>1 DEF Respond, TypeOK, WorkersOK

\* Going on to another step of a handler keeps the types of the workers.
LEMMA GotoType ==
  ASSUME TypeOK, NEW w \in Worker, NEW p \in Step, Goto(w, p)
  PROVE  WorkersOK'
BY DEF Goto, TypeOK, WorkersOK

\* Taking a request keeps the types of the workers and uses up one request.
LEMMA AcceptType ==
  ASSUME TypeOK, NEW w \in Worker, NEW p \in Step, NEW r \in Request,
         Accept(w, r, p)
  PROVE  WorkersOK' /\ left' \in 0 .. MaxRequests
<1>1. "none" \in Answer
  BY DEF Answer
<1>2. left' \in 0 .. MaxRequests
  BY ServerAssumption DEF Accept, TypeOK
<1> QED
  BY <1>1, <1>2 DEF Accept, TypeOK, WorkersOK

\* The session and the segment a request names exist.
LEMMA SidType == TypeOK => \A w \in Worker : sidOf(w) \in Session /\ segOf(w) \in Segment
BY DEF TypeOK, Request, sidOf, segOf

\* Letting go of a mutex keeps the type of mutex.
LEMMA UnlockType ==
  ASSUME TypeOK, NEW w \in Worker, Unlock(w)
  PROVE  mutex' \in [Session -> Worker \cup {NoOne}]
BY SidType DEF TypeOK, Unlock

\* Every step of the server keeps the types.
LEMMA TypeNext == TypeOK /\ [Next]_vars => TypeOK'
<1> SUFFICES ASSUME TypeOK, [Next]_vars PROVE TypeOK'
  OBVIOUS
<1>1. CASE UNCHANGED vars
  BY <1>1 DEF vars, TypeOK
<1>2. ASSUME NEW w \in Worker, ManifestRequest(w) PROVE TypeOK'
  <2>1. nextId \in Session /\ nextId' \in 0 .. MaxSessions
    BY <1>2, SessionAssumptions DEF ManifestRequest, NextId, TypeOK
  <2>2. [kind |-> "manifest", sid |-> nextId, seg |-> 0] \in Request
    BY <2>1, SessionAssumptions DEF Request, Kind
  <2>3. WorkersOK' /\ left' \in 0 .. MaxRequests
    BY <1>2, <2>2, AcceptType DEF ManifestRequest, Step
  <2> QED
    BY <1>2, <2>1, <2>3 DEF ManifestRequest, Survivors, TypeOK, WorkersOK
<1>3. ASSUME NEW w \in Worker, NEW s \in Session, UnknownSession(w, s)
      PROVE  TypeOK'
  BY <1>3, ServerAssumption DEF UnknownSession, TypeOK, Answer
<1>4. ASSUME NEW w \in Worker, NEW k \in Kind, NEW s \in Session, NEW i \in Segment,
             SessionRequest(w, k, s, i)
      PROVE  TypeOK'
  <2>1. [kind |-> k, sid |-> s, seg |-> i] \in Request /\ FirstStep(k) \in Step
    BY DEF Request, Step, FirstStep
  <2>2. WorkersOK' /\ left' \in 0 .. MaxRequests
    BY <1>4, <2>1, AcceptType DEF SessionRequest
  <2> QED
    BY <1>4, <2>2 DEF SessionRequest, TypeOK, WorkersOK
<1>5. ASSUME NEW w \in Worker, Lock(w) PROVE TypeOK'
  BY <1>5, SidType DEF Lock, TypeOK
<1>6. ASSUME NEW w \in Worker, OpenSession(w) PROVE TypeOK'
  <2>1. OpenInput(Closed, "ok") \in DemuxerState
    BY DEF OpenInput, Closed, DemuxerState
  <2>2. WorkersOK'
    BY <1>6, RespondType, GotoType DEF OpenSession, Answer, Step
  <2>3. demux' \in [Session -> DemuxerState] /\ table' \subseteq Session
    BY <1>6, <2>1, SidType DEF OpenSession, TypeOK
  <2> QED
    BY <1>6, <2>2, <2>3 DEF OpenSession, TypeOK, WorkersOK
<1>7. ASSUME NEW w \in Worker, GetKeyframes(w) PROVE TypeOK'
  <2>1. \A n \in KeyframeCounts : EnsureCueIndex(demuxOf(w), n) \in DemuxerState
    BY EnsureType, SidType, ServerAssumption DEF demuxOf, TypeOK
  <2>2. WorkersOK'
    BY <1>7, RespondType, GotoType DEF GetKeyframes, Answer, Step
  <2>3. demux' \in [Session -> DemuxerState]
    BY <1>7, <2>1, SidType DEF GetKeyframes, TypeOK
  <2> QED
    BY <1>7, <2>2, <2>3, UnlockType DEF GetKeyframes, TypeOK, WorkersOK
<1>8. ASSUME NEW w \in Worker, Peek(w) PROVE TypeOK'
  <2>1. WorkersOK'
    BY <1>8, GotoType DEF Peek, Step
  <2> QED
    BY <1>8, <2>1 DEF Peek, TypeOK, WorkersOK
<1>9. ASSUME NEW w \in Worker, GenerateInit(w) PROVE TypeOK'
  <2>1. WorkersOK'
    BY <1>9, RespondType, GotoType DEF GenerateInit, Answer, Step
  <2>2. init' \in [Session -> {"none", "video", "no_video"}]
    BY <1>9, SidType DEF GenerateInit, BuiltInit, TypeOK
  <2> QED
    BY <1>9, <2>1, <2>2, UnlockType DEF GenerateInit, TypeOK, WorkersOK
<1>10. ASSUME NEW w \in Worker, ServeCached(w) PROVE TypeOK'
  <2>1. PICK c \in Cache : c = segCache[sidOf(w)]
    BY SidType DEF TypeOK
  <2>2. segCache[sidOf(w)][segOf(w)] \in Answer
    BY <1>10, <2>1, SidType DEF ServeCached, Hit, Cache, Answer
  <2>3. WorkersOK'
    BY <1>10, <2>2, RespondType DEF ServeCached
  <2> QED
    BY <1>10, <2>3, UnlockType DEF ServeCached, TypeOK, WorkersOK
<1>11. ASSUME NEW w \in Worker, Seek(w) PROVE TypeOK'
  <2>1. \A o \in ReopenOutcomes, n \in KeyframeCounts :
          SeekToMs(demux[sidOf(w)], n, o) \in DemuxerState
    BY SeekType, SidType, ServerAssumption DEF TypeOK
  <2>2. demux' \in [Session -> DemuxerState]
    BY <1>11, <2>1, SidType DEF Seek, TypeOK
  <2>3. WorkersOK'
    BY <1>11, RespondType, GotoType DEF Seek, Answer, Step
  <2>4. mutex' \in [Session -> Worker \cup {NoOne}]
    BY <1>11, UnlockType DEF Seek, TypeOK
  <2> QED
    BY <1>11, <2>2, <2>3, <2>4 DEF Seek, TypeOK, WorkersOK
<1>12. ASSUME NEW w \in Worker, Walk(w) PROVE TypeOK'
  <2>1. PICK out \in WalkOutcomes :
          IF out = "no_video_samples"
          THEN Respond(w, "500") /\ UNCHANGED segCache
          ELSE LET c == Insert(segCache[sidOf(w)], segOf(w), out) IN
               /\ segCache' = [segCache EXCEPT ![sidOf(w)] = c]
               /\ Respond(w, Found(c, segOf(w)))
    BY <1>12 DEF Walk
  <2>2. CASE out = "no_video_samples"
    <3>1. WorkersOK'
      BY <2>1, <2>2, RespondType DEF Answer
    <3> QED
      BY <1>12, <2>1, <2>2, <3>1, UnlockType DEF Walk, TypeOK, WorkersOK
  <2>3. CASE out # "no_video_samples"
    <3> DEFINE c == Insert(segCache[sidOf(w)], segOf(w), out)
    <3>1. out \in Body
      BY <2>3, ServerAssumption
    <3>2. c \in Cache /\ c[segOf(w)] = out
      BY <3>1, SidType, InsertType, InsertFinds DEF TypeOK
    <3>3. Found(c, segOf(w)) \in Answer
      BY <3>1, <3>2, CacheAssumption DEF Found, Answer
    <3>4. WorkersOK'
      BY <2>1, <2>3, <3>3, RespondType
    <3>5. segCache' \in [Session -> Cache]
      BY <2>1, <2>3, <3>2, SidType DEF TypeOK
    <3> QED
      BY <1>12, <3>4, <3>5, UnlockType DEF Walk, TypeOK, WorkersOK
  <2> QED
    BY <2>2, <2>3
<1>13. ASSUME NEW w \in Worker, Die(w) PROVE TypeOK'
  BY <1>13 DEF Die, TypeOK
<1>14. ASSUME Tick PROVE TypeOK'
  BY <1>14, ServerAssumption DEF Tick, TypeOK
<1> QED
  BY <1>1, <1>2, <1>3, <1>4, <1>5, <1>6, <1>7, <1>8, <1>9, <1>10, <1>11, <1>12,
     <1>13, <1>14, SessionAssumptions DEF Next, Advance, Kind

-----------------------------------------------------------------------------
(* The locks.                                                              *)

\* Every step keeps mutexes and program counters in agreement: a mutex_ is held
\* exactly along the scope of a lock_guard.
LEMMA LockNext == TypeOK /\ LockInv /\ [Next]_vars => LockInv'
<1> SUFFICES ASSUME TypeOK, LockInv, [Next]_vars PROVE LockInv'
  OBVIOUS
<1> USE SidType, ServerAssumption DEF LockedStep, sidOf, segOf, Holds
<1>1. CASE UNCHANGED vars
  BY <1>1 DEF vars, LockInv
<1>2. ASSUME NEW w \in Worker, ManifestRequest(w) PROVE LockInv'
  BY <1>2 DEF ManifestRequest, Accept, LockInv, TypeOK
<1>3. ASSUME NEW w \in Worker, NEW s \in Session, UnknownSession(w, s)
      PROVE  LockInv'
  BY <1>3 DEF UnknownSession, LockInv
<1>4. ASSUME NEW w \in Worker, NEW k \in Kind, NEW s \in Session, NEW i \in Segment,
             SessionRequest(w, k, s, i)
      PROVE  LockInv'
  BY <1>4 DEF SessionRequest, Accept, FirstStep, LockInv, TypeOK
<1>5. ASSUME NEW w \in Worker, Lock(w) PROVE LockInv'
  BY <1>5 DEF Lock, MutexFree, LockInv, TypeOK
<1>6. ASSUME NEW w \in Worker, OpenSession(w) PROVE LockInv'
  BY <1>6 DEF OpenSession, At, Goto, Respond, LockInv, TypeOK
<1>7. ASSUME NEW w \in Worker, GetKeyframes(w) PROVE LockInv'
  BY <1>7 DEF GetKeyframes, At, Unlock, Goto, Respond, LockInv, TypeOK
<1>8. ASSUME NEW w \in Worker, Peek(w) PROVE LockInv'
  BY <1>8 DEF Peek, At, Goto, LockInv, TypeOK
<1>9. ASSUME NEW w \in Worker, GenerateInit(w) PROVE LockInv'
  BY <1>9 DEF GenerateInit, At, Unlock, Goto, Respond, LockInv, TypeOK
<1>10. ASSUME NEW w \in Worker, ServeCached(w) PROVE LockInv'
  BY <1>10 DEF ServeCached, At, Unlock, Respond, LockInv, TypeOK
<1>11. ASSUME NEW w \in Worker, Seek(w) PROVE LockInv'
  BY <1>11 DEF Seek, At, Unlock, Goto, Respond, LockInv, TypeOK
<1>12. ASSUME NEW w \in Worker, Walk(w) PROVE LockInv'
  BY <1>12 DEF Walk, At, Unlock, Respond, LockInv, TypeOK
<1>13. ASSUME NEW w \in Worker, Die(w) PROVE LockInv'
  BY <1>13 DEF Die, LockInv
<1>14. ASSUME Tick PROVE LockInv'
  BY <1>14 DEF Tick, LockInv
<1> QED
  BY <1>1, <1>2, <1>3, <1>4, <1>5, <1>6, <1>7, <1>8, <1>9, <1>10, <1>11, <1>12,
     <1>13, <1>14, SessionAssumptions DEF Next, Advance, Kind

-----------------------------------------------------------------------------
(* The table of sessions.                                                  *)

\* A step of worker w in a session that it, and only it, may change.
LEMMA TableFrame ==
  ASSUME TypeOK, TableInv, NEW w \in Worker, pc[w] # "idle",
         nextId' = nextId, table' \subseteq table \cup {sidOf(w)},
         \A v \in Worker \ {w} : pc'[v] = pc[v] /\ req'[v] = req[v],
         pc'[w] # "opening",
         pc'[w] = "idle" \/ req'[w] = req[w],
         demux'[sidOf(w)] # Closed \/ (pc'[w] = "idle" /\ demux' = demux /\ table' = table),
         \A s \in Session \ {sidOf(w)} : demux'[s] = demux[s]
  PROVE  TableInv'
<1> USE SidType DEF sidOf, demuxOf
<1>1. \A s \in table' : s < nextId' /\ demux'[s] # Closed
  BY DEF TableInv, TypeOK
<1>2. \A v \in Worker : pc'[v] # "idle" => req'[v].sid < nextId'
  BY DEF TableInv
<1>3. \A v \in Worker : pc'[v] \notin {"idle", "opening"} => demux'[req'[v].sid] # Closed
  BY DEF TableInv
<1>4. OpeningIsFresh'
  BY DEF TableInv, OpeningIsFresh
<1> QED
  BY <1>1, <1>2, <1>3, <1>4 DEF TableInv

\* Every step keeps g_sessions and the handlers to opened sessions, and the
\* number of a session under construction to itself.
LEMMA TableNext == TypeOK /\ TableInv /\ [Next]_vars => TableInv'
<1> SUFFICES ASSUME TypeOK, TableInv, [Next]_vars PROVE TableInv'
  OBVIOUS
<1> USE SidType, ServerAssumption, SessionAssumptions
    DEF sidOf, segOf, demuxOf, OpeningIsFresh
<1>1. CASE UNCHANGED vars
  BY <1>1 DEF vars, TableInv
<1>2. ASSUME NEW w \in Worker, ManifestRequest(w) PROVE TableInv'
  <2>1. /\ req'[w].sid = nextId /\ pc'[w] = "opening"
        /\ \A v \in Worker \ {w} : req'[v] = req[v] /\ pc'[v] = pc[v]
    BY <1>2 DEF ManifestRequest, Accept, TypeOK
  <2>2. nextId \in Nat /\ nextId' = nextId + 1 /\ table' \subseteq table /\ demux' = demux
    BY <1>2 DEF ManifestRequest, Survivors, NextId, TypeOK
  <2>3. \A s \in table : s \in Session /\ s \in Nat
    BY DEF TypeOK
  <2>4. \A v \in Worker : sidOf(v) \in Nat
    OBVIOUS
  <2>5. \A s \in table' : s < nextId' /\ demux'[s] # Closed
    BY <2>2, <2>3 DEF TableInv
  <2>6. \A v \in Worker : pc'[v] # "idle" => req'[v].sid < nextId'
    BY <2>1, <2>2, <2>4 DEF TableInv
  <2>7. \A v \in Worker : pc'[v] \notin {"idle", "opening"} => demux'[req'[v].sid] # Closed
    BY <2>1, <2>2 DEF TableInv
  <2>8. nextId \notin table' /\ \A v \in Worker \ {w} : pc'[v] # "idle" => req'[v].sid # nextId
    BY <2>1, <2>2, <2>3, <2>4 DEF TableInv
  <2>9. OpeningIsFresh'
    BY <2>1, <2>2, <2>8 DEF TableInv
  <2> QED
    BY <2>5, <2>6, <2>7, <2>9 DEF TableInv
<1>3. ASSUME NEW w \in Worker, NEW s \in Session, UnknownSession(w, s)
      PROVE  TableInv'
  BY <1>3 DEF UnknownSession, TableInv
<1>4. ASSUME NEW w \in Worker, NEW k \in Kind, NEW s \in Session, NEW i \in Segment,
             SessionRequest(w, k, s, i)
      PROVE  TableInv'
  BY <1>4 DEF SessionRequest, Accept, FirstStep, TableInv, TypeOK
<1>5. ASSUME NEW w \in Worker, Lock(w) PROVE TableInv'
  BY <1>5 DEF Lock, TableInv
<1>6. ASSUME NEW w \in Worker, OpenSession(w) PROVE TableInv'
  <2>1. OpenInput(Closed, "ok") # Closed
    BY DEF OpenInput, Closed
  <2>2. /\ \A v \in Worker \ {w} : pc'[v] = pc[v] /\ req'[v] = req[v]
        /\ pc'[w] # "opening" /\ (pc'[w] = "idle" \/ req'[w] = req[w])
    BY <1>6 DEF OpenSession, Goto, Respond, TypeOK
  <2>3. /\ demux'[sidOf(w)] # Closed \/ (pc'[w] = "idle" /\ demux' = demux /\ table' = table)
        /\ \A s \in Session \ {sidOf(w)} : demux'[s] = demux[s]
    BY <1>6, <2>1 DEF OpenSession, Goto, Respond, TypeOK
  <2> QED
    BY <1>6, <2>1, <2>2, <2>3, TableFrame DEF OpenSession, At
<1>7. ASSUME NEW w \in Worker, GetKeyframes(w) PROVE TableInv'
  <2>1. \A n \in KeyframeCounts : EnsureCueIndex(demux[sidOf(w)], n).cached
    BY EnsureType DEF TypeOK
  <2>2. \A n \in KeyframeCounts : EnsureCueIndex(demux[sidOf(w)], n) # Closed
    BY <2>1 DEF Closed
  <2>3. demux'[sidOf(w)] # Closed
    BY <1>7, <2>2 DEF GetKeyframes, TypeOK
  <2> QED
    BY <1>7, <2>3, TableFrame DEF GetKeyframes, At, Goto, Respond, TypeOK
<1>8. ASSUME NEW w \in Worker, Peek(w) PROVE TableInv'
  BY <1>8 DEF Peek, At, Goto, TableInv, TypeOK
<1>9. ASSUME NEW w \in Worker, GenerateInit(w) PROVE TableInv'
  BY <1>9 DEF GenerateInit, At, Goto, Respond, TableInv, TypeOK
<1>10. ASSUME NEW w \in Worker, ServeCached(w) PROVE TableInv'
  BY <1>10 DEF ServeCached, At, Respond, TableInv, TypeOK
<1>11. ASSUME NEW w \in Worker, Seek(w) PROVE TableInv'
  <2>1. \A o \in ReopenOutcomes, n \in KeyframeCounts :
          SeekToMs(demux[sidOf(w)], n, o).cached
    BY SeekType DEF TypeOK
  <2>2. \A o \in ReopenOutcomes, n \in KeyframeCounts :
          SeekToMs(demux[sidOf(w)], n, o) # Closed
    BY <2>1, ClosedNotCached
  <2>3. demux'[sidOf(w)] # Closed
    BY <1>11, <2>2 DEF Seek, TypeOK
  <2>4. /\ \A v \in Worker \ {w} : pc'[v] = pc[v] /\ req'[v] = req[v]
        /\ pc'[w] # "opening" /\ (pc'[w] = "idle" \/ req'[w] = req[w])
    BY <1>11 DEF Seek, Goto, Respond, TypeOK
  <2>5. /\ pc[w] # "idle" /\ nextId' = nextId /\ table' = table
        /\ \A s \in Session \ {sidOf(w)} : demux'[s] = demux[s]
    BY <1>11 DEF Seek, At, TypeOK
  <2> QED
    BY <2>3, <2>4, <2>5, TableFrame
<1>12. ASSUME NEW w \in Worker, Walk(w) PROVE TableInv'
  BY <1>12 DEF Walk, At, Respond, TableInv, TypeOK
<1>13. ASSUME NEW w \in Worker, Die(w) PROVE TableInv'
  BY <1>13 DEF Die, TableInv
<1>14. ASSUME Tick PROVE TableInv'
  BY <1>14 DEF Tick, TableInv
<1> QED
  BY <1>1, <1>2, <1>3, <1>4, <1>5, <1>6, <1>7, <1>8, <1>9, <1>10, <1>11, <1>12,
     <1>13, <1>14, SessionAssumptions DEF Next, Advance, Kind

-----------------------------------------------------------------------------
(* The init segment.                                                       *)

\* The demuxer of a session without an init segment is as it was opened.
Pristine ==
  \A s \in Session : init[s] = "none" /\ demux[s] # Closed =>
    demux[s].ctx /\ demux[s].video

\* A step of worker w keeps the promise made to those that are to build.
LEMMA BuildFrame ==
  ASSUME TypeOK, InitInv, NEW w \in Worker,
         \A v \in Worker \ {w} : pc'[v] = pc[v] /\ req'[v] = req[v],
         \A s \in Session : init[s] # "none" => init'[s] # "none",
         \A s \in Session : InitComing(s) => init'[s] # "none" \/ InitComing(s)',
         pc'[w] \in {"build", "walk"} =>
           req'[w] = req[w] /\ (init'[sidOf(w)] # "none" \/ InitComing(sidOf(w))'),
         InitHasVideo', Pristine'
  PROVE  InitInv'
<1> SUFFICES ASSUME NEW v \in Worker, pc'[v] \in {"build", "walk"}
             PROVE  (init[sidOf(v)] # "none" \/ InitComing(sidOf(v)))'
  BY DEF InitInv, Pristine
<1> USE SidType DEF sidOf
<1>1. CASE v = w
  BY <1>1 DEF InitComing
<1>2. CASE v # w
  <2>1. /\ pc[v] \in {"build", "walk"} /\ req'[v] = req[v]
        /\ sidOf(v) \in Session
    BY <1>2
  <2>2. init[sidOf(v)] # "none" \/ InitComing(sidOf(v))
    BY <2>1 DEF InitInv
  <2>3. init'[sidOf(v)] # "none" \/ InitComing(sidOf(v))'
    BY <2>1, <2>2 DEF InitComing
  <2> QED
    BY <2>1, <2>3 DEF InitComing
<1> QED
  BY <1>1, <1>2

\* Every step keeps a build behind an init segment, and the init segment of an
\* input that is as it was first opened.
LEMMA InitNext ==
  TypeOK /\ LockInv /\ TableInv /\ InitInv /\ [Next]_vars => InitInv'
<1> SUFFICES ASSUME TypeOK, LockInv, TableInv, InitInv, [Next]_vars PROVE InitInv'
  OBVIOUS
<1> USE SidType, ServerAssumption, SessionAssumptions
    DEF sidOf, segOf, demuxOf, Holds, InitHasVideo, InitComing
<1>0. Pristine
  BY DEF InitInv, Pristine
<1>1. CASE UNCHANGED vars
  BY <1>1 DEF vars, InitInv
<1>2. ASSUME NEW w \in Worker, ManifestRequest(w) PROVE InitInv'
  BY <1>2 DEF ManifestRequest, Accept, InitInv, TypeOK
<1>3. ASSUME NEW w \in Worker, NEW s \in Session, UnknownSession(w, s)
      PROVE  InitInv'
  BY <1>3 DEF UnknownSession, InitInv
<1>4. ASSUME NEW w \in Worker, NEW k \in Kind, NEW s \in Session, NEW i \in Segment,
             SessionRequest(w, k, s, i)
      PROVE  InitInv'
  BY <1>4 DEF SessionRequest, Accept, FirstStep, InitInv, TypeOK
<1>5. ASSUME NEW w \in Worker, Lock(w) PROVE InitInv'
  BY <1>5 DEF Lock, MutexFree, InitInv, TypeOK
<1>6. ASSUME NEW w \in Worker, OpenSession(w) PROVE InitInv'
  <2>1. OpenInput(Closed, "ok").ctx /\ OpenInput(Closed, "ok").video
    BY DEF OpenInput, Closed
  <2>2. \A s \in Session : demux'[s] = demux[s] \/ (demux'[s].ctx /\ demux'[s].video)
    BY <1>6, <2>1 DEF OpenSession, TypeOK
  <2>3. init' = init /\ mutex' = mutex /\ pc[w] = "opening"
    BY <1>6 DEF OpenSession, At
  <2>4. /\ \A v \in Worker \ {w} : pc'[v] = pc[v] /\ req'[v] = req[v]
        /\ pc'[w] \in {"idle", "keyframes"}
    BY <1>6 DEF OpenSession, Goto, Respond, TypeOK
  <2>5. Pristine' /\ InitHasVideo'
    BY <1>0, <2>2, <2>3 DEF Pristine, InitInv
  <2>6. \A s \in Session : InitComing(s) => InitComing(s)'
    BY <2>3, <2>4 DEF TypeOK
  <2> QED
    BY <2>3, <2>4, <2>5, <2>6, BuildFrame
<1>7. ASSUME NEW w \in Worker, GetKeyframes(w) PROVE InitInv'
  <2>1. PICK n \in KeyframeCounts :
          demux' = [demux EXCEPT ![sidOf(w)] = EnsureCueIndex(demux[sidOf(w)], n)]
    BY <1>7 DEF GetKeyframes
  <2>2. /\ demux[sidOf(w)] \in DemuxerState
        /\ EnsureCueIndex(demux[sidOf(w)], n).ctx = demux[sidOf(w)].ctx
        /\ EnsureCueIndex(demux[sidOf(w)], n).video = demux[sidOf(w)].video
    BY EnsureType DEF TypeOK
  <2>3. demux[sidOf(w)] # Closed
    BY <1>7 DEF GetKeyframes, At, TableInv
  <2>4. /\ init' = init /\ pc[w] = "keyframes" /\ mutex[sidOf(w)] = w
        /\ \A s \in Session \ {sidOf(w)} : mutex'[s] = mutex[s]
    BY <1>7 DEF GetKeyframes, At, Unlock, TypeOK
  <2>5. /\ \A v \in Worker \ {w} : pc'[v] = pc[v] /\ req'[v] = req[v]
        /\ pc'[w] \in {"idle", "peek"}
    BY <1>7 DEF GetKeyframes, Goto, Respond, TypeOK
  <2>6. Pristine' /\ InitHasVideo'
    BY <1>0, <2>1, <2>2, <2>3, <2>4 DEF Pristine, InitInv, TypeOK
  <2>7. \A s \in Session : InitComing(s) => InitComing(s)'
    BY <2>4, <2>5 DEF TypeOK
  <2> QED
    BY <2>4, <2>5, <2>6, <2>7, BuildFrame
<1>8. ASSUME NEW w \in Worker, Peek(w) PROVE InitInv'
  <2>1. /\ init' = init /\ mutex' = mutex /\ demux' = demux /\ pc[w] = "peek"
        /\ req' = req /\ \A v \in Worker \ {w} : pc'[v] = pc[v]
    BY <1>8 DEF Peek, At, Goto, TypeOK
  <2>2. pc'[w] = "init" \/ (pc'[w] = "build" /\ TRUE \in PeekValues(sidOf(w)))
    BY <1>8 DEF Peek, Goto, TypeOK, PeekValues
  <2>3. TRUE \in PeekValues(sidOf(w)) => init[sidOf(w)] # "none" \/ InitComing(sidOf(w))
    BY DEF PeekValues
  <2>4. \A s \in Session : InitComing(s) => InitComing(s)'
    BY <2>1 DEF TypeOK
  <2>5. Pristine' /\ InitHasVideo'
    BY <1>0, <2>1 DEF Pristine, InitInv
  <2> QED
    BY <2>1, <2>2, <2>3, <2>4, <2>5, BuildFrame
<1>9. ASSUME NEW w \in Worker, GenerateInit(w) PROVE InitInv'
  <2>1. BuiltInit(sidOf(w)) = "video"
    BY <1>9 DEF GenerateInit, BuiltInit, At, TableInv, InitInv, TypeOK
  <2>2. /\ init' = [init EXCEPT ![sidOf(w)] = "video"] /\ demux' = demux
        /\ \A s \in Session \ {sidOf(w)} : mutex'[s] = mutex[s]
    BY <1>9, <2>1 DEF GenerateInit, Unlock, TypeOK
  <2>3. /\ req'[w] = req[w] \/ pc'[w] = "idle"
        /\ \A v \in Worker \ {w} : pc'[v] = pc[v] /\ req'[v] = req[v]
    BY <1>9 DEF GenerateInit, Goto, Respond, TypeOK
  <2>4. \A s \in Session \ {sidOf(w)} : mutex[s] # w
    BY <1>9 DEF LockInv
  <2>5. init'[sidOf(w)] = "video" /\ \A s \in Session \ {sidOf(w)} : init'[s] = init[s]
    BY <2>2 DEF TypeOK
  <2>6. \A s \in Session : InitComing(s) => init'[s] # "none" \/ InitComing(s)'
    BY <2>2, <2>3, <2>4, <2>5 DEF TypeOK
  <2>7. Pristine' /\ InitHasVideo'
    BY <1>0, <2>2, <2>5 DEF Pristine, InitInv
  <2> QED
    BY <2>3, <2>5, <2>6, <2>7, BuildFrame
<1>10. ASSUME NEW w \in Worker, ServeCached(w) PROVE InitInv'
  <2>1. /\ init' = init /\ demux' = demux /\ pc[w] = "build"
        /\ pc'[w] = "idle" /\ mutex[sidOf(w)] = w
        /\ \A v \in Worker \ {w} : pc'[v] = pc[v] /\ req'[v] = req[v]
        /\ \A s \in Session \ {sidOf(w)} : mutex'[s] = mutex[s]
    BY <1>10 DEF ServeCached, At, Unlock, Respond, TypeOK
  <2>2. \A s \in Session : InitComing(s) => InitComing(s)'
    BY <2>1 DEF TypeOK
  <2>3. Pristine' /\ InitHasVideo'
    BY <1>0, <2>1 DEF Pristine, InitInv
  <2> QED
    BY <2>1, <2>2, <2>3, BuildFrame
<1>11. ASSUME NEW w \in Worker, Seek(w) PROVE InitInv'
  <2>1. init[sidOf(w)] # "none"
    BY <1>11 DEF Seek, At, InitInv
  <2>2. /\ init' = init /\ pc[w] = "build" /\ mutex[sidOf(w)] = w
        /\ \A s \in Session \ {sidOf(w)} : mutex'[s] = mutex[s] /\ demux'[s] = demux[s]
    BY <1>11 DEF Seek, At, Unlock, TypeOK
  <2>3. /\ pc'[w] = "idle" \/ (pc'[w] = "walk" /\ req'[w] = req[w])
        /\ \A v \in Worker \ {w} : pc'[v] = pc[v] /\ req'[v] = req[v]
    BY <1>11 DEF Seek, Goto, Respond, TypeOK
  <2>4. \A s \in Session : InitComing(s) => InitComing(s)'
    BY <2>2, <2>3 DEF TypeOK
  <2>5. Pristine' /\ InitHasVideo'
    BY <1>0, <2>1, <2>2 DEF Pristine, InitInv
  <2> QED
    BY <2>1, <2>2, <2>3, <2>4, <2>5, BuildFrame
<1>12. ASSUME NEW w \in Worker, Walk(w) PROVE InitInv'
  <2>1. /\ init' = init /\ demux' = demux /\ pc[w] = "walk"
        /\ pc'[w] = "idle" /\ mutex[sidOf(w)] = w
        /\ \A v \in Worker \ {w} : pc'[v] = pc[v] /\ req'[v] = req[v]
        /\ \A s \in Session \ {sidOf(w)} : mutex'[s] = mutex[s]
    BY <1>12 DEF Walk, At, Unlock, Respond, LockInv, TypeOK
  <2>2. \A s \in Session : InitComing(s) => InitComing(s)'
    BY <2>1 DEF TypeOK
  <2>3. Pristine' /\ InitHasVideo'
    BY <1>0, <2>1 DEF Pristine, InitInv
  <2> QED
    BY <2>1, <2>2, <2>3, BuildFrame
<1>13. ASSUME NEW w \in Worker, Die(w) PROVE InitInv'
  BY <1>13 DEF Die, InitInv
<1>14. ASSUME Tick PROVE InitInv'
  BY <1>14 DEF Tick, InitInv
<1> QED
  BY <1>1, <1>2, <1>3, <1>4, <1>5, <1>6, <1>7, <1>8, <1>9, <1>10, <1>11, <1>12,
     <1>13, <1>14, SessionAssumptions DEF Next, Advance, Kind

-----------------------------------------------------------------------------
(* The segment a walk builds, and the boundaries it was checked against.   *)

\* Every step keeps the segment of a walk out of the cache: the mutex is held
\* from the lookup to the insertion.
LEMMA MissNext ==
  TypeOK /\ LockInv /\ MissInv /\ [Next]_vars => MissInv'
<1> SUFFICES ASSUME TypeOK, LockInv, MissInv, [Next]_vars PROVE MissInv'
  OBVIOUS
<1> USE SidType, ServerAssumption, SessionAssumptions
    DEF sidOf, segOf, Holds, Hit
<1>1. CASE UNCHANGED vars
  BY <1>1 DEF vars, MissInv
<1>2. ASSUME NEW w \in Worker, ManifestRequest(w) PROVE MissInv'
  BY <1>2 DEF ManifestRequest, Accept, MissInv, TypeOK
<1>3. ASSUME NEW w \in Worker, NEW s \in Session, UnknownSession(w, s)
      PROVE  MissInv'
  BY <1>3 DEF UnknownSession, MissInv
<1>4. ASSUME NEW w \in Worker, NEW k \in Kind, NEW s \in Session, NEW i \in Segment,
             SessionRequest(w, k, s, i)
      PROVE  MissInv'
  BY <1>4 DEF SessionRequest, Accept, FirstStep, MissInv, TypeOK
<1>5. ASSUME NEW w \in Worker, Lock(w) PROVE MissInv'
  BY <1>5 DEF Lock, MissInv
<1>6. ASSUME NEW w \in Worker, OpenSession(w) PROVE MissInv'
  BY <1>6 DEF OpenSession, Goto, Respond, MissInv, TypeOK
<1>7. ASSUME NEW w \in Worker, GetKeyframes(w) PROVE MissInv'
  BY <1>7 DEF GetKeyframes, Goto, Respond, MissInv, TypeOK
<1>8. ASSUME NEW w \in Worker, Peek(w) PROVE MissInv'
  BY <1>8 DEF Peek, Goto, MissInv, TypeOK
<1>9. ASSUME NEW w \in Worker, GenerateInit(w) PROVE MissInv'
  BY <1>9 DEF GenerateInit, Goto, Respond, MissInv, TypeOK
<1>10. ASSUME NEW w \in Worker, ServeCached(w) PROVE MissInv'
  BY <1>10 DEF ServeCached, Respond, MissInv, TypeOK
<1>11. ASSUME NEW w \in Worker, Seek(w) PROVE MissInv'
  BY <1>11 DEF Seek, Goto, Respond, MissInv, TypeOK
<1>12. ASSUME NEW w \in Worker, Walk(w) PROVE MissInv'
  <2>1. /\ pc'[w] = "idle"
        /\ \A v \in Worker \ {w} : pc'[v] = pc[v] /\ req'[v] = req[v]
    BY <1>12 DEF Walk, Respond, TypeOK
  <2>2. \A v \in Worker \ {w} : pc[v] = "walk" => sidOf(v) # sidOf(w)
    BY <1>12 DEF Walk, At, LockInv
  <2>3. \A s \in Session \ {sidOf(w)} : segCache'[s] = segCache[s]
    BY <1>12 DEF Walk, TypeOK
  <2> QED
    <3> SUFFICES ASSUME NEW v \in Worker, pc'[v] = "walk" PROVE ~Hit(sidOf(v), segOf(v))'
      BY DEF MissInv
    <3>1. v # w /\ pc[v] = "walk" /\ req'[v] = req[v] /\ sidOf(v) # sidOf(w)
      BY <2>1, <2>2
    <3>2. segCache'[sidOf(v)] = segCache[sidOf(v)]
      BY <2>3, <3>1
    <3> QED
      BY <3>1, <3>2 DEF MissInv
<1>13. ASSUME NEW w \in Worker, Die(w) PROVE MissInv'
  BY <1>13 DEF Die, MissInv
<1>14. ASSUME Tick PROVE MissInv'
  BY <1>14 DEF Tick, MissInv
<1> QED
  BY <1>1, <1>2, <1>3, <1>4, <1>5, <1>6, <1>7, <1>8, <1>9, <1>10, <1>11, <1>12,
     <1>13, <1>14, SessionAssumptions DEF Next, Advance, Kind

\* Every step keeps the checked segments within boundaries cached for good:
\* keyframes_cached_ is never reset.
LEMMA KeyNext ==
  TypeOK /\ TableInv /\ KeyInv /\ [Next]_vars => KeyInv'
<1> SUFFICES ASSUME TypeOK, TableInv, KeyInv, [Next]_vars PROVE KeyInv'
  OBVIOUS
<1> USE SidType, ServerAssumption, SessionAssumptions
    DEF sidOf, segOf, demuxOf, CheckedSegment
<1>1. CASE UNCHANGED vars
  BY <1>1 DEF vars, KeyInv
<1>2. ASSUME NEW w \in Worker, ManifestRequest(w) PROVE KeyInv'
  BY <1>2 DEF ManifestRequest, Accept, KeyInv, TypeOK
<1>3. ASSUME NEW w \in Worker, NEW s \in Session, UnknownSession(w, s)
      PROVE  KeyInv'
  BY <1>3 DEF UnknownSession, KeyInv
<1>4. ASSUME NEW w \in Worker, NEW k \in {"init", "segment"}, NEW s \in Session,
             NEW i \in Segment, SessionRequest(w, k, s, i)
      PROVE  KeyInv'
  BY <1>4 DEF SessionRequest, Accept, FirstStep, KeyInv, TypeOK
<1>5. ASSUME NEW w \in Worker, Lock(w) PROVE KeyInv'
  BY <1>5 DEF Lock, KeyInv
<1>6. ASSUME NEW w \in Worker, OpenSession(w) PROVE KeyInv'
  <2>1. /\ \A v \in Worker \ {w} : pc'[v] = pc[v] /\ req'[v] = req[v]
        /\ pc'[w] \in {"idle", "keyframes"}
    BY <1>6 DEF OpenSession, Goto, Respond, TypeOK
  <2>2. \A s \in Session \ {sidOf(w)} : demux'[s] = demux[s]
    BY <1>6 DEF OpenSession, TypeOK
  <2>3. \A v \in Worker \ {w} : pc[v] # "idle" => sidOf(v) # sidOf(w)
    BY <1>6 DEF OpenSession, At, TableInv, OpeningIsFresh
  <2> QED
    <3> SUFFICES ASSUME NEW v \in Worker, CheckedSegment(v)'
                 PROVE  (demuxOf(v).cached /\ Listed(segOf(v), demuxOf(v).kf))'
      BY DEF KeyInv
    <3>1. v # w /\ pc[v] # "idle" /\ CheckedSegment(v) /\ req'[v] = req[v]
      BY <2>1
    <3>2. demux'[sidOf(v)] = demux[sidOf(v)]
      BY <2>2, <2>3, <3>1
    <3> QED
      BY <3>1, <3>2 DEF KeyInv
<1>7. ASSUME NEW w \in Worker, GetKeyframes(w) PROVE KeyInv'
  <2>1. PICK n \in KeyframeCounts :
          LET d == EnsureCueIndex(demuxOf(w), n) IN
          /\ demux' = [demux EXCEPT ![sidOf(w)] = d]
          /\ IF req[w].kind = "manifest"
             THEN Respond(w, IF d.kf < 2 THEN "503" ELSE "ok")
             ELSE IF Listed(segOf(w), d.kf) THEN Goto(w, "peek")
                                            ELSE Respond(w, "404")
    BY <1>7 DEF GetKeyframes
  <2> DEFINE d == EnsureCueIndex(demuxOf(w), n)
  <2>2. d.cached /\ (demuxOf(w).cached => d.kf = demuxOf(w).kf)
    BY EnsureType DEF TypeOK
  <2>3. demux' = [demux EXCEPT ![sidOf(w)] = d]
    BY <2>1
  <2>4. /\ \A v \in Worker \ {w} : pc'[v] = pc[v] /\ req'[v] = req[v]
        /\ \/ pc'[w] = "idle"
           \/ pc'[w] = "peek" /\ req'[w] = req[w] /\ Listed(segOf(w), d.kf)
    BY <2>1 DEF Goto, Respond, TypeOK
  <2> HIDE DEF d
  <2>5. \A s \in Session : demux[s].cached => demux'[s].cached /\ demux'[s].kf = demux[s].kf
    BY <2>2, <2>3 DEF TypeOK
  <2>6. demux'[sidOf(w)] = d
    BY <2>3 DEF TypeOK
  <2> QED
    BY <2>2, <2>4, <2>5, <2>6 DEF KeyInv
<1>8. ASSUME NEW w \in Worker, Peek(w) PROVE KeyInv'
  BY <1>8 DEF Peek, At, Goto, KeyInv, TypeOK
<1>9. ASSUME NEW w \in Worker, GenerateInit(w) PROVE KeyInv'
  BY <1>9 DEF GenerateInit, At, Goto, Respond, KeyInv, TypeOK
<1>10. ASSUME NEW w \in Worker, ServeCached(w) PROVE KeyInv'
  BY <1>10 DEF ServeCached, Respond, KeyInv, TypeOK
<1>11. ASSUME NEW w \in Worker, Seek(w) PROVE KeyInv'
  <2>1. \A s \in Session : demux[s].cached => demux'[s].cached /\ demux'[s].kf = demux[s].kf
    BY <1>11, SeekType DEF Seek, TypeOK
  <2>2. /\ pc[w] = "build" /\ (req'[w] = req[w] \/ pc'[w] = "idle")
        /\ \A v \in Worker \ {w} : pc'[v] = pc[v] /\ req'[v] = req[v]
    BY <1>11 DEF Seek, At, Goto, Respond, TypeOK
  <2> QED
    BY <2>1, <2>2 DEF KeyInv
<1>12. ASSUME NEW w \in Worker, Walk(w) PROVE KeyInv'
  BY <1>12 DEF Walk, Respond, KeyInv, TypeOK
<1>13. ASSUME NEW w \in Worker, Die(w) PROVE KeyInv'
  BY <1>13 DEF Die, KeyInv
<1>14. ASSUME Tick PROVE KeyInv'
  BY <1>14 DEF Tick, KeyInv
<1> QED
  BY <1>1, <1>2, <1>3, <1>4, <1>5, <1>6, <1>7, <1>8, <1>9, <1>10, <1>11, <1>12,
     <1>13, <1>14, SessionAssumptions DEF Next, Advance, Kind

-----------------------------------------------------------------------------
(* The theorems.                                                           *)

\* Every variable keeps its type.
THEOREM TypeCorrect == Spec => []TypeOK
<1>1. Init => TypeOK
  BY TypeInit
<1>2. TypeOK /\ [Next]_vars => TypeOK'
  BY TypeNext
<1> QED
  BY <1>1, <1>2, PTL DEF Spec

\* The server starts in the inductive invariant.
LEMMA SafetyInit == Init => SafetyInv
<1> SUFFICES ASSUME Init PROVE SafetyInv
  OBVIOUS
<1>1. LockInv
  BY DEF Init, LockInv
<1>2. TableInv
  BY DEF Init, TableInv, OpeningIsFresh
<1>3. InitInv
  BY DEF Init, InitInv, InitHasVideo
<1>4. MissInv
  BY DEF Init, MissInv
<1>5. KeyInv
  BY DEF Init, KeyInv, CheckedSegment, NoRequest
<1> QED
  BY <1>1, <1>2, <1>3, <1>4, <1>5 DEF SafetyInv

\* The inductive invariant: who holds a mutex, what the table knows, what a
\* build may count on.
THEOREM Safety == Spec => []SafetyInv
<1>1. Init => SafetyInv
  BY SafetyInit
<1>2. TypeOK /\ SafetyInv /\ [Next]_vars => SafetyInv'
  BY LockNext, TableNext, InitNext, MissNext, KeyNext DEF SafetyInv
<1> QED
  BY <1>1, <1>2, TypeCorrect, PTL DEF Spec

\* The init segment a session caches has a video track.
THEOREM InitSegmentHasVideo == Spec => []InitHasVideo
<1>1. SafetyInv => InitHasVideo
  BY DEF SafetyInv, InitInv
<1> QED
  BY <1>1, Safety, PTL

\* CreateSession never gives out a number that is in use.
THEOREM SessionNumbersAreFresh == Spec => []OpeningIsFresh
<1>1. SafetyInv => OpeningIsFresh
  BY DEF SafetyInv, TableInv
<1> QED
  BY <1>1, Safety, PTL

\* The copy of the boundaries a handler works with never goes stale.
THEOREM CopiesStayValid == Spec => []ListedSegmentsStayListed
<1>1. SafetyInv => ListedSegmentsStayListed
  BY DEF SafetyInv, KeyInv, ListedSegmentsStayListed
<1> QED
  BY <1>1, Safety, PTL

\* No answer is an empty segment.
THEOREM NoEmptySegment == Spec => []ServedBytesExist
<1>1. Init => ServedBytesExist
  BY DEF Init, ServedBytesExist
<1>2. TypeOK /\ ServedBytesExist /\ [Next]_vars => ServedBytesExist'
  <2> SUFFICES ASSUME TypeOK, ServedBytesExist, [Next]_vars PROVE ServedBytesExist'
    OBVIOUS
  <2>1. ASSUME NEW w \in Worker, NEW a, Respond(w, a), a # "empty"
        PROVE  ServedBytesExist'
    BY <2>1 DEF Respond, ServedBytesExist, TypeOK
  <2>2. ASSUME UNCHANGED answer PROVE ServedBytesExist'
    BY <2>2 DEF ServedBytesExist
  <2>3. ASSUME NEW w \in Worker, Walk(w) PROVE ServedBytesExist'
    <3>1. PICK out \in WalkOutcomes :
            IF out = "no_video_samples"
            THEN Respond(w, "500") /\ UNCHANGED segCache
            ELSE LET c == Insert(segCache[sidOf(w)], segOf(w), out) IN
                 /\ segCache' = [segCache EXCEPT ![sidOf(w)] = c]
                 /\ Respond(w, Found(c, segOf(w)))
      BY <2>3 DEF Walk
    <3> DEFINE c == Insert(segCache[sidOf(w)], segOf(w), out)
    <3>2. CASE out # "no_video_samples"
      <4>1. out \in Body
        BY <3>2, ServerAssumption
      <4>2. c[segOf(w)] = out
        BY <4>1, SidType, InsertFinds DEF TypeOK
      <4>3. Found(c, segOf(w)) # "empty"
        BY <4>1, <4>2, ServerAssumption, CacheAssumption DEF Found
      <4> QED
        BY <2>1, <3>1, <3>2, <4>3
    <3> QED
      BY <2>1, <3>1, <3>2
  <2>4. ASSUME NEW w \in Worker, ServeCached(w) PROVE ServedBytesExist'
    <3>1. segCache[sidOf(w)] \in Cache /\ segOf(w) \in Segment
      BY SidType DEF TypeOK
    <3>2. segCache[sidOf(w)][segOf(w)] \in Body
      BY <2>4, <3>1 DEF ServeCached, Hit, Cache
    <3>3. segCache[sidOf(w)][segOf(w)] # "empty"
      BY <3>2, ServerAssumption
    <3> QED
      BY <2>1, <2>4, <3>3 DEF ServeCached
  <2>5. ASSUME NEW w \in Worker, GetKeyframes(w) PROVE ServedBytesExist'
    BY <2>1, <2>2, <2>5 DEF GetKeyframes, Goto
  <2>6. ASSUME NEW w \in Worker, Seek(w) PROVE ServedBytesExist'
    BY <2>1, <2>2, <2>6 DEF Seek, Goto
  <2>7. ASSUME NEW w \in Worker, GenerateInit(w) \/ OpenSession(w)
        PROVE  ServedBytesExist'
    BY <2>1, <2>2, <2>7 DEF GenerateInit, OpenSession, Goto
  <2>8. ASSUME NEW w \in Worker, Lock(w) \/ Peek(w) \/ Die(w)
        PROVE  ServedBytesExist'
    BY <2>2, <2>8 DEF Lock, Peek, Die, Goto
  <2>9. ASSUME NEW w \in Worker, NEW r, NEW p, Accept(w, r, p)
        PROVE  ServedBytesExist'
    BY <2>9 DEF Accept, ServedBytesExist, TypeOK
  <2>10. ASSUME NEW w \in Worker, NEW s \in Session, UnknownSession(w, s)
         PROVE  ServedBytesExist'
    BY <2>10 DEF UnknownSession, ServedBytesExist, TypeOK
  <2>11. ASSUME Tick \/ UNCHANGED vars PROVE ServedBytesExist'
    BY <2>2, <2>11 DEF Tick, vars
  <2> QED
    BY <2>3, <2>4, <2>5, <2>6, <2>7, <2>8, <2>9, <2>10, <2>11
       DEF Next, Advance, ManifestRequest, SessionRequest
<1> QED
  BY <1>1, <1>2, TypeCorrect, PTL DEF Spec

\* What a step can do to a cache: a walk inserts a segment it did not hold.
LEMMA CacheStep ==
  ASSUME TypeOK, MissInv, [Next]_vars, NEW s \in Session, segCache'[s] # segCache[s]
  PROVE  \E i \in Segment, b \in Body :
           segCache[s][i] = Absent /\ segCache'[s] = Insert(segCache[s], i, b)
<1>1. PICK w \in Worker : Walk(w)
  BY DEF Next, Advance, vars, ManifestRequest, UnknownSession, SessionRequest,
         Lock, OpenSession, GetKeyframes, Peek, GenerateInit, ServeCached, Seek,
         Die, Tick
<1>2. PICK out \in WalkOutcomes :
        IF out = "no_video_samples"
        THEN Respond(w, "500") /\ UNCHANGED segCache
        ELSE LET c == Insert(segCache[sidOf(w)], segOf(w), out) IN
             /\ segCache' = [segCache EXCEPT ![sidOf(w)] = c]
             /\ Respond(w, Found(c, segOf(w)))
  BY <1>1 DEF Walk
<1>3. /\ out \in Body /\ s = sidOf(w)
      /\ segCache'[s] = Insert(segCache[s], segOf(w), out)
  BY <1>2, SidType, ServerAssumption DEF TypeOK
<1>4. segOf(w) \in Segment /\ segCache[s][segOf(w)] = Absent
  BY <1>1, <1>3, SidType DEF Walk, At, MissInv, Hit
<1> QED
  BY <1>3, <1>4

\* While a segment stays cached its bytes stay the same.
THEOREM BytesStayTheSame == Spec => CachedBytesNeverChange
<1>1. ASSUME TypeOK, SafetyInv, [Next]_vars, NEW s \in Session,
             NEW i \in Cached(segCache[s]) \cap Cached(segCache'[s])
      PROVE  segCache'[s][i] = segCache[s][i]
  <2>1. CASE segCache'[s] # segCache[s]
    <3>1. PICK j \in Segment, b \in Body :
            segCache[s][j] = Absent /\ segCache'[s] = Insert(segCache[s], j, b)
      BY <1>1, <2>1, CacheStep DEF SafetyInv
    <3>2. segCache[s] \in Cache
      BY <1>1 DEF TypeOK
    <3> QED
      BY <1>1, <3>1, <3>2, InsertPreserves
  <2> QED
    BY <2>1
<1>2. TypeOK /\ SafetyInv /\ [Next]_vars =>
        [\A s \in Session : \A i \in Cached(segCache[s]) \cap Cached(segCache'[s]) :
           segCache'[s][i] = segCache[s][i]]_vars
  BY <1>1
<1> QED
  BY <1>2, TypeCorrect, Safety, PTL DEF Spec, CachedBytesNeverChange

-----------------------------------------------------------------------------
(* A process whose reopenings do not fail in avformat_open_input, for want *)
(* of a reader or of a video stream.                                       *)

\* Every opened session has a context and a video stream.
ContextsHold == \A s \in Session : demux[s] # Closed => demux[s].ctx /\ demux[s].video

\* A step keeps contexts and video streams if a reopening fails at most in
\* avformat_find_stream_info.
LEMMA ContextsNext ==
  ASSUME ReopenOutcomes \subseteq {"ok", "no_info"},
         TypeOK, TableInv, ContextsHold, [Next]_vars
  PROVE  ContextsHold'
<1> USE SidType, ServerAssumption DEF sidOf, demuxOf
<1>1. ASSUME UNCHANGED demux PROVE ContextsHold'
  BY <1>1 DEF ContextsHold
<1>2. ASSUME NEW w \in Worker, OpenSession(w) PROVE ContextsHold'
  <2>1. OpenInput(Closed, "ok").ctx /\ OpenInput(Closed, "ok").video
    BY DEF OpenInput, Closed
  <2> QED
    BY <1>2, <2>1 DEF OpenSession, ContextsHold, TypeOK
<1>3. ASSUME NEW w \in Worker, GetKeyframes(w) PROVE ContextsHold'
  <2>1. PICK n \in KeyframeCounts :
          demux' = [demux EXCEPT ![sidOf(w)] = EnsureCueIndex(demux[sidOf(w)], n)]
    BY <1>3 DEF GetKeyframes
  <2>2. demux[sidOf(w)].ctx /\ demux[sidOf(w)].video
    BY <1>3 DEF GetKeyframes, At, TableInv, ContextsHold
  <2>3. /\ EnsureCueIndex(demux[sidOf(w)], n).ctx
        /\ EnsureCueIndex(demux[sidOf(w)], n).video
    BY <2>2, EnsureType DEF TypeOK
  <2> QED
    BY <2>1, <2>3 DEF ContextsHold, TypeOK
<1>4. ASSUME NEW w \in Worker, Seek(w) PROVE ContextsHold'
  <2>1. PICK o \in ReopenOutcomes, n \in KeyframeCounts :
          demux' = [demux EXCEPT ![sidOf(w)] = SeekToMs(demux[sidOf(w)], n, o)]
    BY <1>4 DEF Seek
  <2>2. demux[sidOf(w)].ctx /\ demux[sidOf(w)].video
    BY <1>4 DEF Seek, At, TableInv, ContextsHold
  <2>3. /\ SeekToMs(demux[sidOf(w)], n, o).ctx
        /\ SeekToMs(demux[sidOf(w)], n, o).video
    BY <2>2, SeekType DEF TypeOK
  <2> QED
    BY <2>1, <2>3 DEF ContextsHold, TypeOK
<1> QED
  BY <1>1, <1>2, <1>3, <1>4
     DEF Next, Advance, vars, ManifestRequest, UnknownSession, SessionRequest,
         Lock, Peek, GenerateInit, ServeCached, Walk, Die, Tick

\* With contexts and video streams in place no step kills the process.
LEMMA AliveNext ==
  ASSUME TypeOK, SafetyInv, ContextsHold, alive, [Next]_vars
  PROVE  alive'
<1>1. ASSUME NEW w \in Worker, Die(w) PROVE FALSE
  <2>1. mutex[sidOf(w)] = w /\ Dereferences(w) /\ sidOf(w) \in Session /\ w # NoOne
    BY <1>1, SidType, ServerAssumption DEF Die, Holds
  <2>2. pc[w] \in LockedStep
    BY <2>1 DEF SafetyInv, LockInv
  <2>3. demuxOf(w) # Closed
    BY <2>2 DEF SafetyInv, TableInv, LockedStep
  <2>4. demuxOf(w).ctx /\ demuxOf(w).video
    BY <2>1, <2>3 DEF ContextsHold, demuxOf
  <2> QED
    BY <2>1, <2>4 DEF Dereferences, InitDies, SeekMayDie
<1> QED
  BY <1>1 DEF Next, Advance, vars, ManifestRequest, UnknownSession, SessionRequest,
         Lock, OpenSession, GetKeyframes, Peek, GenerateInit, ServeCached, Seek,
         Walk, Tick, Accept

\* The process never uses a null context or a missing stream unless a
\* reopening failed in a way that leaves one behind: a failure of
\* avformat_find_stream_info does not.
THEOREM OnlyReopeningKills ==
  ASSUME ReopenOutcomes \subseteq {"ok", "no_info"}
  PROVE  Spec => []NeverDereferencesNull
<1>1. Init => ContextsHold /\ alive
  BY DEF Init, ContextsHold
<1>2. TypeOK /\ SafetyInv /\ ContextsHold /\ alive /\ [Next]_vars
        => ContextsHold' /\ alive'
  BY ContextsNext, AliveNext DEF SafetyInv
<1> QED
  BY <1>1, <1>2, TypeCorrect, Safety, PTL DEF Spec, NeverDereferencesNull

-----------------------------------------------------------------------------
(* What an insertion drops.                                                *)

\* The entries of a cache are a finite set.
LEMMA CachedFinite ==
  ASSUME NEW c
  PROVE  /\ Cached(c) \subseteq Segment
         /\ \A S \in SUBSET Segment :
              /\ IsFiniteSet(S) /\ Cardinality(S) \in Nat
              /\ \A T \in SUBSET S : Cardinality(T) <= Cardinality(S)
<1>1. ASSUME NEW S \in SUBSET Segment
      PROVE  /\ IsFiniteSet(S) /\ Cardinality(S) \in Nat
             /\ \A T \in SUBSET S : Cardinality(T) <= Cardinality(S)
  BY CacheAssumption, FS_Subset, FS_CardinalityType
<1> QED
  BY <1>1 DEF Cached

\* An insertion is what SegmentService allows: it drops the lowest segments,
\* only those before the new one, and only for want of room.
LEMMA InsertAdds ==
  ASSUME NEW c \in Cache, NEW i \in Segment, NEW b \in Body, c[i] = Absent
  PROVE  Service!Added(c, i, b, Insert(c, i, b))
<1> DEFINE new  == Insert(c, i, b)
           S    == Cached(c) \cup {i}
           From(j) == {k \in S : k >= j}
           gone == {j \in Cached(c) : new[j] = Absent}
<1>1. S \in SUBSET Segment /\ \A j \in S : From(j) \in SUBSET S
  BY DEF Cached
<1>2. \A j \in Segment : new[j] = IF j \notin Kept(S, i) THEN Absent
                                  ELSE IF j = i THEN b ELSE c[j]
  BY DEF Insert
<1>3. Absent # b /\ \A j \in Cached(c) : c[j] # Absent
  BY CacheAssumption DEF Cached
<1>4. \A j \in S : j \in Kept(S, i) <=> j >= i \/ Cardinality(From(j)) <= MaxCachedSegments
  BY DEF Kept
<1>5. gone = {j \in Cached(c) : j < i /\ ~(Cardinality(From(j)) <= MaxCachedSegments)}
  <2>1. \A j \in Cached(c) : j \in Segment /\ j \in Nat /\ i \in Nat
    BY CacheAssumption DEF Cached
  <2> HIDE DEF From
  <2> QED
    BY <1>2, <1>3, <1>4, <2>1
<1>6. new[i] = b
  BY InsertFinds
<1>7. ASSUME NEW j \in Segment \ (gone \cup {i}) PROVE new[j] = c[j]
  <2>1. CASE j \in Cached(c)
    BY <1>2, <1>7, <2>1
  <2>2. CASE j \notin Cached(c)
    <3>1. c[j] = Absent /\ j \notin S
      BY <1>7, <2>2 DEF Cached
    <3>2. j \notin Kept(S, i)
      BY <3>1 DEF Kept
    <3> QED
      BY <1>2, <3>1, <3>2
  <2> QED
    BY <2>1, <2>2
<1>8. ASSUME NEW j \in gone, NEW k \in Cached(c) \ gone PROVE j < i /\ j < k
  <2>1. j \in Nat /\ k \in Nat /\ i \in Nat /\ j < i /\ j \in S /\ k \in S
    BY <1>5, CacheAssumption DEF Cached
  <2>2. ~(k <= j)
    <3> SUFFICES ASSUME k <= j PROVE FALSE
      OBVIOUS
    <3>1. From(j) \in SUBSET From(k) /\ From(k) \in SUBSET Segment
      <4>1. \A n \in S : n \in Nat
        BY <1>1, CacheAssumption
      <4>2. \A n \in S : n >= j => n >= k
        <5> HIDE DEF S
        <5> QED BY <2>1, <4>1
      <4> QED
        BY <1>1, <2>1, <4>2
    <3>2. /\ Cardinality(From(j)) <= Cardinality(From(k))
          /\ Cardinality(From(j)) \in Nat /\ Cardinality(From(k)) \in Nat
      BY <3>1, CachedFinite
    <3>3. k < i /\ Cardinality(From(k)) <= MaxCachedSegments
      <4> HIDE DEF From
      <4> QED BY <1>5, <1>8, <2>1
    <3> HIDE DEF From
    <3> QED
      BY <1>5, <3>2, <3>3, CacheAssumption
  <2> QED
    BY <2>1, <2>2
<1>9. ASSUME gone # {} PROVE Cardinality(S) > MaxCachedSegments
  <2>1. PICK j \in gone : TRUE
    BY <1>9
  <2>2. ~(Cardinality(From(j)) <= MaxCachedSegments) /\ j \in S
    BY <1>5, <2>1
  <2>3. /\ Cardinality(From(j)) <= Cardinality(S)
        /\ Cardinality(From(j)) \in Nat /\ Cardinality(S) \in Nat
    BY <1>1, <2>2, CachedFinite
  <2> HIDE DEF From, S
  <2> QED
    BY <2>2, <2>3, CacheAssumption
<1> HIDE DEF new, gone
<1>10. gone \subseteq Cached(c) /\ \A j \in gone : j < i
  <2>1. gone \subseteq Cached(c)
    BY DEF gone
  <2> QED
    BY <1>5, <2>1
<1>11. /\ c[i] = Absent /\ new[i] = b
       /\ \A j \in Segment \ (gone \cup {i}) : new[j] = c[j]
       /\ \A j \in gone : j < i /\ \A k \in Cached(c) \ gone : j < k
       /\ gone # {} => Cardinality(Cached(c) \cup {i}) > MaxCachedSegments
  BY <1>6, <1>7, <1>8, <1>9, <1>10
<1>12. \A T : Service!Cardinality(T) = Cardinality(T)
  BY DEF Service!Cardinality, Cardinality
<1> QED
  BY <1>11, <1>12 DEF Service!Added, Cached, gone, new

-----------------------------------------------------------------------------
(* Which request a worker serves, as far as its step tells.                *)

\* Only segment requests reach a build, and only manifests open a session.
KindInv ==
  \A w \in Worker :
    /\ pc[w] = "opening" => req[w].kind = "manifest"
    /\ pc[w] = "keyframes" => req[w].kind \in {"manifest", "segment"}
    /\ pc[w] = "init" => req[w].kind \in {"init", "segment"}
    /\ pc[w] \in {"peek", "build", "walk"} => req[w].kind = "segment"

\* No handler goes on with a step of another route.
LEMMA KindNext == TypeOK /\ KindInv /\ [Next]_vars => KindInv'
<1> SUFFICES ASSUME TypeOK, KindInv, [Next]_vars PROVE KindInv'
  OBVIOUS
<1> USE DEF KindInv
<1>1. ASSUME UNCHANGED <<pc, req>> PROVE KindInv'
  BY <1>1
<1>2. ASSUME NEW w \in Worker, NEW a, Respond(w, a) PROVE KindInv'
  BY <1>2 DEF Respond, TypeOK
<1>3. ASSUME NEW w \in Worker, ManifestRequest(w) PROVE KindInv'
  BY <1>3 DEF ManifestRequest, Accept, TypeOK
<1>4. ASSUME NEW w \in Worker, NEW k \in {"init", "segment"}, NEW s, NEW i,
             SessionRequest(w, k, s, i)
      PROVE  KindInv'
  BY <1>4 DEF SessionRequest, Accept, FirstStep, TypeOK
<1>5. ASSUME NEW w \in Worker, OpenSession(w) PROVE KindInv'
  BY <1>2, <1>5 DEF OpenSession, At, Goto, TypeOK
<1>6. ASSUME NEW w \in Worker, GetKeyframes(w) PROVE KindInv'
  BY <1>2, <1>6 DEF GetKeyframes, At, Goto, TypeOK
<1>7. ASSUME NEW w \in Worker, Peek(w) PROVE KindInv'
  BY <1>7 DEF Peek, At, Goto, TypeOK
<1>8. ASSUME NEW w \in Worker, GenerateInit(w) PROVE KindInv'
  BY <1>2, <1>8 DEF GenerateInit, At, Goto, TypeOK
<1>9. ASSUME NEW w \in Worker, ServeCached(w) PROVE KindInv'
  BY <1>2, <1>9 DEF ServeCached
<1>10. ASSUME NEW w \in Worker, Seek(w) PROVE KindInv'
  BY <1>2, <1>10 DEF Seek, At, Goto, TypeOK
<1>11. ASSUME NEW w \in Worker, Walk(w) PROVE KindInv'
  BY <1>2, <1>11 DEF Walk
<1> QED
  BY <1>1, <1>3, <1>4, <1>5, <1>6, <1>7, <1>8, <1>9, <1>10, <1>11
     DEF Next, Advance, vars, UnknownSession, Lock, Die, Tick

\* A worker that builds a segment has an init segment with a video track, and
\* its request is one for a segment.
LEMMA BuildsAreDescribed ==
  ASSUME TypeOK, SafetyInv, KindInv, NEW w \in Worker, Holds(w),
         pc[w] \in {"build", "walk"}
  PROVE  init[sidOf(w)] = "video" /\ req[w].kind = "segment"
<1>1. ~InitComing(sidOf(w))
  BY DEF Holds, InitComing
<1>2. init[sidOf(w)] # "none" /\ init[sidOf(w)] # "no_video"
  BY <1>1, SidType DEF SafetyInv, InitInv, InitHasVideo
<1> QED
  BY <1>2, SidType DEF TypeOK, KindInv

-----------------------------------------------------------------------------
(* The steps of the server, as the service has them.                       *)

\* What SegmentService calls asked and described.
Asked == [w \in Worker |-> IF pc[w] = "idle" THEN [kind |-> "none", sid |-> 0, seg |-> 0]
                                             ELSE req[w]]
Described == {s \in Session : init[s] = "video"}

\* Answering a request ends it for the service as well.
LEMMA RespondAnswers ==
  ASSUME TypeOK, NEW w \in Worker, NEW a, Respond(w, a)
  PROVE  Service!Answered(w, a)
<1>1. Asked' = [Asked EXCEPT ![w] = [kind |-> "none", sid |-> 0, seg |-> 0]]
  BY DEF Respond, Asked, TypeOK
<1> QED
  BY <1>1 DEF Respond, Service!Answered, Service!NoRequest, Asked

\* Going on to another step is nothing the service sees.
LEMMA GotoStutters ==
  ASSUME TypeOK, NEW w \in Worker, NEW p, pc[w] # "idle", p # "idle", Goto(w, p)
  PROVE  UNCHANGED <<Asked, answer>>
BY DEF Goto, Asked, TypeOK

\* A request that is served is, for the service, a request of that kind.
LEMMA Serving ==
  ASSUME TypeOK, NEW w \in Worker, pc[w] # "idle"
  PROVE  /\ Asked[w] = req[w] /\ Asked[w] # [kind |-> "none", sid |-> 0, seg |-> 0]
         /\ req[w].sid \in Session /\ req[w].seg \in Segment
BY DEF Asked, TypeOK, Request, Kind

\* An error is a failure of the service.
LEMMA FailStep ==
  ASSUME TypeOK, NEW w \in Worker, NEW a \in {"404", "500", "503"}, Respond(w, a),
         UNCHANGED <<Described, segCache>>
  PROVE  Service!Fail(w)
<1>1. Service!Answered(w, a)
  BY RespondAnswers
<1> QED
  BY <1>1 DEF Service!Fail, Service!Failure, Described

\* A lookup of a session, or the construction of one, begins with a question.
LEMMA AskStep ==
  ASSUME TypeOK, NEW w \in Worker, NEW k \in Kind, NEW s \in Session,
         NEW i \in Segment, NEW p \in Step \ {"idle"},
         Accept(w, [kind |-> k, sid |-> s, seg |-> i], p),
         UNCHANGED <<init, segCache>>
  PROVE  Service!Ask(w)
<1>1. Asked[w] = [kind |-> "none", sid |-> 0, seg |-> 0]
  BY DEF Accept, Asked
<1>2. Asked' = [Asked EXCEPT ![w] = [kind |-> k, sid |-> s, seg |-> i]]
  BY DEF Accept, Asked, TypeOK
<1>3. answer' = [answer EXCEPT ![w] = "none"]
  BY DEF Accept
<1>4. \E kk \in {"manifest", "init", "segment"}, ss \in Session, ii \in Segment :
        Asked' = [Asked EXCEPT ![w] = [kind |-> kk, sid |-> ss, seg |-> ii]]
  BY <1>2 DEF Kind
<1> QED
  BY <1>1, <1>3, <1>4 DEF Service!Ask, Service!NoRequest, Asked

\* A request for a session that is not in the table fails at once.
LEMMA UnknownStep ==
  ASSUME TypeOK, NEW w \in Worker, NEW s \in Session, UnknownSession(w, s)
  PROVE  Service!Fail(w)
<1>1. Asked' = [Asked EXCEPT ![w] = [kind |-> "none", sid |-> 0, seg |-> 0]]
  BY DEF UnknownSession, Asked
<1>2. Service!Answered(w, "404")
  BY <1>1 DEF UnknownSession, Service!Answered, Service!NoRequest, Asked
<1> QED
  BY <1>2 DEF UnknownSession, Service!Fail, Service!Failure

\* The boundaries: a manifest, an error, or on to the segment.
LEMMA KeyframesStep ==
  ASSUME TypeOK, KindInv, NEW w \in Worker, GetKeyframes(w)
  PROVE  Service!Confirm(w) \/ Service!Fail(w) \/ UNCHANGED Service!vars
<1>1. UNCHANGED <<init, segCache>> /\ pc[w] = "keyframes"
  BY DEF GetKeyframes, At
<1>2. ASSUME NEW a \in {"404", "503"}, Respond(w, a) PROVE Service!Fail(w)
  BY <1>1, <1>2, FailStep DEF Described
<1>3. ASSUME Respond(w, "ok"), req[w].kind = "manifest" PROVE Service!Confirm(w)
  <2>1. Service!Answered(w, "ok")
    BY <1>3, RespondAnswers
  <2>2. Asked[w].kind = "manifest" /\ Asked[w] # [kind |-> "none", sid |-> 0, seg |-> 0]
    BY <1>1, <1>3, Serving
  <2>3. Described \subseteq Described'
    BY <1>1 DEF Described
  <2> QED
    BY <1>1, <2>1, <2>2, <2>3 DEF Service!Confirm, Service!NoRequest, Asked, Described
<1>4. ASSUME Goto(w, "peek") PROVE UNCHANGED Service!vars
  <2>1. UNCHANGED <<Asked, answer>>
    BY <1>1, <1>4, GotoStutters
  <2> QED
    BY <1>1, <2>1 DEF Service!vars, Asked
<1> QED
  BY <1>2, <1>3, <1>4 DEF GetKeyframes

\* The init segment, for its own route or on the way to a segment.
LEMMA InitStep ==
  ASSUME TypeOK, SafetyInv, SafetyInv', KindInv, NEW w \in Worker, GenerateInit(w)
  PROVE  Service!Confirm(w) \/ Service!Describe
<1> DEFINE s == sidOf(w)
<1>1. /\ s \in Session /\ pc[w] = "init" /\ segCache' = segCache
      /\ init' = [init EXCEPT ![s] = BuiltInit(s)]
  BY SidType DEF GenerateInit, At
<1>2. init'[s] = "video"
  <2>1. init'[s] \in {"video", "no_video"}
    BY <1>1 DEF BuiltInit, TypeOK
  <2> QED
    BY <1>1, <2>1 DEF SafetyInv, InitInv, InitHasVideo
<1>3. Described \subseteq Described' /\ s \in Described'
  BY <1>1, <1>2 DEF Described, TypeOK
<1>4. CASE req[w].kind = "init"
  <2>1. Service!Answered(w, "ok")
    BY <1>4, RespondAnswers DEF GenerateInit
  <2>2. /\ Asked[w].kind = "init" /\ Asked[w].sid \in Described'
        /\ Asked[w] # [kind |-> "none", sid |-> 0, seg |-> 0]
    BY <1>1, <1>3, <1>4, Serving DEF sidOf
  <2> QED
    BY <1>1, <1>3, <2>1, <2>2 DEF Service!Confirm, Service!NoRequest, Asked, Described
<1>5. CASE req[w].kind # "init"
  <2>1. UNCHANGED <<Asked, answer>>
    BY <1>1, <1>5, GotoStutters DEF GenerateInit
  <2> QED
    BY <1>1, <1>3, <2>1 DEF Service!Describe, Asked, Described
<1> QED
  BY <1>4, <1>5

\* A cached segment is served as it is.
LEMMA CachedStep ==
  ASSUME TypeOK, SafetyInv, KindInv, NEW w \in Worker, ServeCached(w)
  PROVE  Service!Serve(w)
<1>1. /\ pc[w] = "build" /\ Holds(w) /\ UNCHANGED <<init, segCache>>
      /\ segCache[sidOf(w)][segOf(w)] # Absent
      /\ Respond(w, segCache[sidOf(w)][segOf(w)])
  BY DEF ServeCached, At, Hit
<1>2. init[sidOf(w)] = "video" /\ req[w].kind = "segment"
  BY <1>1, BuildsAreDescribed
<1>3. PICK b \in Body : b = segCache[sidOf(w)][segOf(w)]
  BY <1>1, SidType DEF TypeOK, Cache
<1>4. Service!Answered(w, b)
  <2>1. Respond(w, b)
    BY <1>1, <1>3 DEF Respond
  <2> QED
    BY <2>1, RespondAnswers
<1>5. /\ Asked[w] = req[w] /\ Asked[w] # [kind |-> "none", sid |-> 0, seg |-> 0]
      /\ Asked[w].sid \in Described
  BY <1>1, <1>2, Serving DEF Described, sidOf
<1>6. /\ Asked[w].kind = "segment" /\ b # Absent
      /\ b = segCache[Asked[w].sid][Asked[w].seg]
  BY <1>1, <1>2, <1>3, <1>5 DEF sidOf, segOf
<1>7. UNCHANGED <<Described, segCache>>
  BY <1>1 DEF Described
<1> QED
  BY <1>4, <1>5, <1>6, <1>7
     DEF Service!Serve, Service!Answered, Service!NoRequest, Asked, Described

\* A reopening fails, or nothing is seen of it.
LEMMA SeekStep ==
  ASSUME TypeOK, NEW w \in Worker, Seek(w)
  PROVE  Service!Fail(w) \/ UNCHANGED Service!vars
<1>1. UNCHANGED <<init, segCache>> /\ pc[w] = "build"
  BY DEF Seek, At
<1>2. ASSUME Respond(w, "500") PROVE Service!Fail(w)
  BY <1>1, <1>2, FailStep DEF Described
<1>3. ASSUME Goto(w, "walk") PROVE UNCHANGED Service!vars
  <2>1. UNCHANGED <<Asked, answer>>
    BY <1>1, <1>3, GotoStutters
  <2> QED
    BY <1>1, <2>1 DEF Service!vars, Asked
<1> QED
  BY <1>2, <1>3 DEF Seek

\* A walk fails, or makes a segment that was not held.
LEMMA WalkStep ==
  ASSUME TypeOK, SafetyInv, KindInv, NEW w \in Worker, Walk(w)
  PROVE  Service!Fail(w) \/ Service!Make(w)
<1> DEFINE s == sidOf(w)
           i == segOf(w)
<1>1. s \in Session /\ i \in Segment /\ pc[w] = "walk" /\ init' = init
  BY SidType DEF Walk, At
<1>2. PICK out \in WalkOutcomes :
        IF out = "no_video_samples"
        THEN Respond(w, "500") /\ UNCHANGED segCache
        ELSE LET c == Insert(segCache[sidOf(w)], segOf(w), out) IN
             /\ segCache' = [segCache EXCEPT ![sidOf(w)] = c]
             /\ Respond(w, Found(c, segOf(w)))
  BY DEF Walk
<1>3. CASE out = "no_video_samples"
  BY <1>1, <1>2, <1>3, FailStep DEF Described
<1>4. CASE out # "no_video_samples"
  <2> DEFINE c == Insert(segCache[s], i, out)
  <2>1. out \in Body /\ segCache[s] \in Cache
    BY <1>1, <1>4, ServerAssumption DEF TypeOK
  <2>2. segCache[s][i] = Absent
    BY <1>1 DEF SafetyInv, MissInv, Hit
  <2>3. Service!Added(segCache[s], i, out, c)
    BY <1>1, <2>1, <2>2, InsertAdds
  <2>4. c[i] = out /\ Found(c, i) = out
    BY <1>1, <2>1, InsertFinds, CacheAssumption DEF Found
  <2> HIDE DEF c
  <2>5. segCache' = [segCache EXCEPT ![s] = c] /\ Service!Answered(w, out)
    BY <1>2, <1>4, <2>4, RespondAnswers DEF c
  <2>6. segCache'[s] = c /\ \A t \in Session \ {s} : segCache'[t] = segCache[t]
    BY <1>1, <2>5 DEF TypeOK
  <2>7. init[s] = "video" /\ req[w].kind = "segment"
    BY <1>1, BuildsAreDescribed DEF SafetyInv, LockInv
  <2>8. /\ Asked[w] = req[w] /\ Asked[w] # [kind |-> "none", sid |-> 0, seg |-> 0]
        /\ Asked[w].kind = "segment" /\ Asked[w].sid = s /\ Asked[w].seg = i
        /\ s \in Described
    BY <1>1, <2>7, Serving DEF Described, sidOf, segOf
  <2>9. Service!Make(w)
    BY <1>1, <2>1, <2>3, <2>5, <2>6, <2>8
       DEF Service!Make, Service!NoRequest, Asked, Described
  <2> QED
    BY <2>9
<1> QED
  BY <1>3, <1>4

-----------------------------------------------------------------------------
(* The theorems.                                                           *)

\* The service starts as the server does.
LEMMA ServiceInit == Init => Service!Init
BY DEF Init, Empty, Service!Init, Service!NoRequest

\* Each step of the server is a step of the service, or nothing to it.
LEMMA ServiceNext ==
  ASSUME TypeOK, SafetyInv, SafetyInv', KindInv, [Next]_vars
  PROVE  [Service!Next]_(Service!vars)
<1>1. ASSUME UNCHANGED <<pc, req, answer, init, segCache>>
      PROVE  UNCHANGED Service!vars
  BY <1>1 DEF Service!vars
<1>2. ASSUME NEW w \in Worker, ManifestRequest(w) PROVE Service!Ask(w)
  <2>1. nextId \in Session /\ 0 \in Segment
    BY <1>2, SessionAssumptions DEF ManifestRequest, TypeOK
  <2>2. "manifest" \in Kind /\ "opening" \in Step \ {"idle"}
    BY DEF Kind, Step
  <2>3. /\ Accept(w, [kind |-> "manifest", sid |-> nextId, seg |-> 0], "opening")
        /\ UNCHANGED <<init, segCache>>
    BY <1>2 DEF ManifestRequest
  <2> QED
    BY <2>1, <2>2, <2>3, AskStep
<1>3. ASSUME NEW w \in Worker, NEW k \in {"init", "segment"}, NEW s \in Session,
             NEW i \in Segment, SessionRequest(w, k, s, i)
      PROVE  Service!Ask(w)
  <2>1. k \in Kind /\ FirstStep(k) \in Step \ {"idle"}
    BY DEF Kind, Step, FirstStep
  <2>2. /\ Accept(w, [kind |-> k, sid |-> s, seg |-> i], FirstStep(k))
        /\ UNCHANGED <<init, segCache>>
    BY <1>3 DEF SessionRequest
  <2> QED
    BY <2>1, <2>2, AskStep
<1>4. ASSUME NEW w \in Worker, OpenSession(w)
      PROVE  Service!Fail(w) \/ UNCHANGED Service!vars
  <2>1. UNCHANGED <<init, segCache>> /\ pc[w] = "opening"
    BY <1>4 DEF OpenSession, At
  <2>2. ASSUME Respond(w, "500") PROVE Service!Fail(w)
    BY <2>1, <2>2, FailStep DEF Described
  <2>3. ASSUME Goto(w, "keyframes") PROVE UNCHANGED Service!vars
    <3>1. UNCHANGED <<Asked, answer>>
      BY <2>1, <2>3, GotoStutters
    <3> QED
      BY <2>1, <3>1 DEF Service!vars, Asked
  <2> QED
    BY <1>4, <2>2, <2>3 DEF OpenSession
<1>5. ASSUME NEW w \in Worker, Peek(w) PROVE UNCHANGED Service!vars
  <2>1. UNCHANGED <<Asked, answer>>
    <3>1. PICK p \in {"build", "init"} : Goto(w, p)
      BY <1>5 DEF Peek
    <3> QED
      BY <1>5, <3>1, GotoStutters DEF Peek, At
  <2> QED
    BY <1>5, <2>1 DEF Peek, Service!vars, Asked
<1>6. ASSUME Tick \/ (\E w \in Worker : Lock(w) \/ Die(w)) \/ UNCHANGED vars
      PROVE  UNCHANGED Service!vars
  BY <1>1, <1>6 DEF Tick, Lock, Die, vars
<1>7. ASSUME NEW w \in Worker, Advance(w)
      PROVE  \/ Service!Fail(w) \/ Service!Confirm(w) \/ Service!Serve(w)
             \/ Service!Make(w) \/ Service!Describe \/ UNCHANGED Service!vars
  BY <1>4, <1>5, <1>6, <1>7, KeyframesStep, InitStep, CachedStep, SeekStep, WalkStep
     DEF Advance
<1>8. ASSUME NEW w \in Worker, NEW s \in Session, UnknownSession(w, s)
      PROVE  Service!Fail(w)
  BY <1>8, UnknownStep
<1>9. CASE Next
  <2>1. CASE \E w \in Worker : Advance(w)
    BY <1>7, <2>1 DEF Service!Next
  <2>2. CASE Tick
    BY <1>6, <2>2
  <2>3. ASSUME NEW w \in Worker,
               \/ ManifestRequest(w)
               \/ \E s \in Session : UnknownSession(w, s)
               \/ \E s \in Session : SessionRequest(w, "init", s, 0)
               \/ \E s \in Session, i \in Segment : SessionRequest(w, "segment", s, i)
        PROVE  Service!Ask(w) \/ Service!Fail(w)
    BY <1>2, <1>3, <1>8, <2>3, SessionAssumptions
  <2> QED
    BY <1>9, <2>1, <2>2, <2>3 DEF Next, Service!Next
<1> QED
  BY <1>6, <1>9

\* The server, with its threads, locks and reopenings, implements the service.
THEOREM Implements == Spec => ImplementsService
<1>1. Init => Service!Init
  BY ServiceInit
<1>2. Init => KindInv
  BY DEF Init, KindInv
<1>3. TypeOK /\ KindInv /\ [Next]_vars => KindInv'
  BY KindNext
<1>4. TypeOK /\ SafetyInv /\ SafetyInv' /\ KindInv /\ [Next]_vars
        => [Service!Next]_(Service!vars)
  BY ServiceNext
<1> QED
  BY <1>1, <1>2, <1>3, <1>4, TypeCorrect, Safety, PTL
     DEF Spec, ImplementsService, Service!Spec

\* A set of naturals has a least element.
LEMMA LeastElement ==
  ASSUME NEW T, T \subseteq Nat, T # {}
  PROVE  \E m \in T : \A n \in T : m <= n
<1>1. PICK m \in T : \A n \in T : ~(<<n, m>> \in OpToRel(<, Nat))
  BY NatLessThanWellFounded, WFMin
<1>2. \A x, y \in Nat : <<x, y>> \in OpToRel(<, Nat) <=> x < y
  BY DEF OpToRel
<1>3. \A n \in T : ~(n < m)
  BY <1>1, <1>2, Zenon
<1> QED
  BY <1>3

\* A cache exceeds its limit only by a segment before all others it holds.
THEOREM OverflowIsBackwards == Spec => OverflowsOnlyBackwards
<1>1. ASSUME TypeOK, SafetyInv, [Next]_vars, NEW s \in Session,
             Cardinality(Cached(segCache'[s])) > MaxCachedSegments,
             Cached(segCache'[s]) # Cached(segCache[s]),
             NEW i \in Cached(segCache'[s]) \ Cached(segCache[s]),
             NEW j \in Cached(segCache'[s])
      PROVE  i <= j
  <2>1. PICK n \in Segment, b \in Body :
          segCache[s][n] = Absent /\ segCache'[s] = Insert(segCache[s], n, b)
    BY <1>1, CacheStep DEF SafetyInv
  <2> DEFINE old == Cached(segCache[s])
             new == Cached(segCache'[s])
             S == old \cup {n}
             From(k) == {l \in S : l >= k}
  <2>2. S \in SUBSET Segment /\ \A k \in S : From(k) \in SUBSET Segment
    BY DEF Cached
  <2>3. new \subseteq Kept(S, n) /\ Kept(S, n) \subseteq S
    BY <2>1 DEF Insert, Kept, Cached
  <2>4. i = n
    BY <1>1, <2>3
  <2>5. PICK k \in new : \A l \in new : k <= l
    <3>1. new \subseteq Nat /\ new # {}
      BY <2>2, <2>3, CacheAssumption
    <3> QED
      BY <3>1, LeastElement
  <2>6. n <= k
    <3>1. SUFFICES ASSUME ~(n <= k) PROVE FALSE
      OBVIOUS
    <3>2. k \in S /\ k \in Nat /\ n \in Nat /\ (k >= n \/ Cardinality(From(k)) <= MaxCachedSegments)
      BY <2>2, <2>3, CacheAssumption DEF Kept
    <3>3. new \subseteq From(k)
      BY <2>2, <2>3, <2>5, CacheAssumption
    <3>4. /\ Cardinality(new) <= Cardinality(From(k))
          /\ Cardinality(new) \in Nat /\ Cardinality(From(k)) \in Nat
      BY <2>2, <3>2, <3>3, CachedFinite
    <3>5. Cardinality(new) > MaxCachedSegments
      BY <1>1
    <3> HIDE DEF From, new
    <3> QED
      BY <3>1, <3>2, <3>4, <3>5, CacheAssumption
  <2>7. j \in Nat /\ k \in Nat /\ n \in Nat /\ k <= j
    BY <2>2, <2>3, <2>5, CacheAssumption
  <2> QED
    BY <2>4, <2>6, <2>7
<1>2. TypeOK /\ SafetyInv /\ [Next]_vars =>
        [\A s \in Session :
           LET before == Cached(segCache[s])
               after  == Cached(segCache'[s])
           IN  Cardinality(after) > MaxCachedSegments /\ after # before
                 => \A i \in after \ before, j \in after : i <= j]_vars
  BY <1>1
<1> QED
  BY <1>2, TypeCorrect, Safety, PTL DEF Spec, OverflowsOnlyBackwards
=============================================================================
