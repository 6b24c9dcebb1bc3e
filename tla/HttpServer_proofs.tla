-------------------------- MODULE HttpServer_proofs --------------------------
(***************************************************************************)
(* Theorems about HttpServer and its ThreadPool, for every number of       *)
(* threads and connections and every limit.                                *)
(***************************************************************************)
EXTENDS HttpServer, FiniteSetTheorems, TLAPS

-----------------------------------------------------------------------------
(* The pool.                                                               *)

IdleThreads == {t \in Thread : state[t] \in {"waiting", "woken"}}
LiveDynamic == {t \in Dynamic : state[t] # "none"}

\* A thread has a job while it runs it; those that are listed as finished have
\* exited; and a base thread only leaves when there is nothing left to do.
ShapeInv ==
  /\ \A t \in Thread : running[t] # NoJob <=> state[t] = "running"
  /\ \A t \in finishedThreads : state[t] = "exited"
  /\ \A t \in Base : state[t] \in {"exited", "none"} => shutdown /\ jobs = <<>>

PoolInv == PoolTypeOK /\ ShapeInv /\ IdleCountAgrees /\ ThreadsAreBounded

\* Sets of threads are finite.
LEMMA ThreadsFinite ==
  \A S \in SUBSET Thread : IsFiniteSet(S) /\ Cardinality(S) \in Nat
<1>1. IsFiniteSet(Thread)
  BY PoolAssumption, FS_Union DEF Thread
<1> QED
  BY <1>1, FS_Subset, FS_CardinalityType

\* While the lists of threads stay, and the threads that exist, so do the bounds.
LEMMA BoundStays ==
  ASSUME ThreadsAreBounded, UNCHANGED <<dynamicThreads, finishedThreads>>,
         LiveDynamic' = LiveDynamic
  PROVE  ThreadsAreBounded'
<1>1. \A t \in Dynamic : state'[t] # "none" <=> state[t] # "none"
  BY DEF LiveDynamic
<1> QED
  BY <1>1 DEF ThreadsAreBounded, LiveDynamic

\* An idle thread is counted.
LEMMA IdleThreadCounts ==
  ASSUME PoolInv, NEW t \in IdleThreads
  PROVE  /\ idle \in Nat \ {0}
         /\ Cardinality(IdleThreads \ {t}) = idle - 1
<1>1. IdleThreads \in SUBSET Thread
  BY DEF IdleThreads
<1>2. IsFiniteSet(IdleThreads) /\ Cardinality(IdleThreads) = idle /\ idle \in Nat
  BY <1>1, ThreadsFinite DEF PoolInv, IdleCountAgrees, IdleThreads, PoolTypeOK
<1>3. Cardinality(IdleThreads \ {t}) = idle - 1 /\ Cardinality(IdleThreads \ {t}) \in Nat
  BY <1>1, <1>2, ThreadsFinite, FS_RemoveElement
<1> QED
  BY <1>2, <1>3

\* Once a thread that looks for work is no longer idle the count is that of the
\* others.
LEMMA GoneCounts ==
  ASSUME PoolInv, NEW t \in Thread, Looks(t) \/ state[t] = "waiting"
  PROVE  /\ IdleWhenGone(t) \in Nat
         /\ IdleWhenGone(t) = Cardinality(IdleThreads \ {t})
<1>1. CASE state[t] = "ready"
  <2>1. IdleThreads \ {t} = IdleThreads
    BY <1>1 DEF IdleThreads
  <2> QED
    BY <1>1, <2>1 DEF IdleWhenGone, PoolInv, IdleCountAgrees, PoolTypeOK, IdleThreads
<1>2. CASE state[t] # "ready"
  <2>1. t \in IdleThreads
    BY <1>2 DEF IdleThreads, Looks
  <2> QED
    BY <1>2, <2>1, IdleThreadCounts DEF IdleWhenGone
<1> QED
  BY <1>1, <1>2

\* Going to wait.
LEMMA WaitStep ==
  ASSUME PoolInv, NEW t \in Thread, Wait(t)
  PROVE  PoolInv'
<1> USE DEF Wait, PoolInv
<1>1. /\ t \in IdleThreads' /\ IdleThreads' \ {t} = IdleThreads \ {t}
      /\ state[t] \in {"ready", "woken"} /\ state'[t] = "waiting"
      /\ \A u \in Thread \ {t} : state'[u] = state[u]
  BY DEF IdleThreads, PoolTypeOK, Looks
<1>2. /\ IdleWhenGone(t) \in Nat
      /\ IdleWhenGone(t) = Cardinality(IdleThreads \ {t})
  BY GoneCounts
<1>3. IdleThreads' = (IdleThreads \ {t}) \cup {t} /\ IdleThreads \ {t} \in SUBSET Thread
  BY <1>1 DEF IdleThreads
<1>4. Cardinality(IdleThreads') = IdleWhenGone(t) + 1
  BY <1>2, <1>3, ThreadsFinite, FS_AddElement
<1>5. PoolTypeOK'
  BY <1>2 DEF PoolTypeOK, States
<1>6. ShapeInv'
  BY <1>1 DEF ShapeInv, Thread
<1>7. IdleCountAgrees'
  BY <1>4 DEF IdleCountAgrees, IdleThreads
<1>8. LiveDynamic' = LiveDynamic
  BY <1>1 DEF LiveDynamic, Thread
<1>9. ThreadsAreBounded'
  BY <1>8, BoundStays
<1> QED
  BY <1>5, <1>6, <1>7, <1>9

\* Leaving the idle threads for a job or for good.
LEMMA TakeStep ==
  ASSUME PoolInv, NEW t \in Thread, Take(t)
  PROVE  PoolInv'
<1> USE DEF Take, PoolInv
<1>1. /\ IdleThreads' = IdleThreads \ {t}
      /\ state[t] \in {"ready", "woken"} /\ state'[t] = "running"
      /\ \A u \in Thread \ {t} : state'[u] = state[u]
  BY DEF IdleThreads, PoolTypeOK, Looks
<1>2. /\ IdleWhenGone(t) \in Nat
      /\ IdleWhenGone(t) = Cardinality(IdleThreads \ {t})
  BY GoneCounts
<1>3. Head(jobs) \in Job /\ jobs' \in Seq(Job) /\ Head(jobs) # NoJob
  BY PoolAssumption DEF PoolTypeOK, Remaining
<1>4. PoolTypeOK'
  BY <1>2, <1>3 DEF PoolTypeOK, States
<1>5. ShapeInv'
  <2>1. \A u \in Thread : running'[u] # NoJob <=> state'[u] = "running"
    BY <1>1, <1>3 DEF ShapeInv, PoolTypeOK
  <2>2. \A u \in finishedThreads' : state'[u] = "exited"
    BY <1>1 DEF ShapeInv, PoolTypeOK, Thread
  <2>3. \A u \in Base : state'[u] \in {"exited", "none"} => shutdown' /\ jobs' = <<>>
    BY <1>1 DEF ShapeInv, PoolTypeOK, Thread
  <2> QED
    BY <2>1, <2>2, <2>3 DEF ShapeInv
<1>6. IdleCountAgrees'
  BY <1>1, <1>2 DEF IdleCountAgrees, IdleThreads
<1>7. LiveDynamic' = LiveDynamic
  BY <1>1 DEF LiveDynamic, Thread
<1>8. ThreadsAreBounded'
  BY <1>7, BoundStays
<1> QED
  BY <1>4, <1>5, <1>6, <1>8

\* A thread leaves the pool when it is shut down.
LEMMA QuitStep ==
  ASSUME PoolInv, NEW t \in Thread, Quit(t)
  PROVE  PoolInv'
<1> USE DEF Quit, Quits, PoolInv
<1>1. /\ IdleThreads' = IdleThreads \ {t}
      /\ state[t] \in {"ready", "woken"} /\ state'[t] = "exited"
      /\ \A u \in Thread \ {t} : state'[u] = state[u]
  BY DEF IdleThreads, PoolTypeOK, Looks
<1>2. /\ IdleWhenGone(t) \in Nat
      /\ IdleWhenGone(t) = Cardinality(IdleThreads \ {t})
  BY GoneCounts
<1>3. PoolTypeOK'
  BY <1>2 DEF PoolTypeOK, States
<1>4. ShapeInv'
  BY <1>1 DEF ShapeInv, PoolTypeOK, Thread
<1>5. IdleCountAgrees'
  BY <1>1, <1>2 DEF IdleCountAgrees, IdleThreads
<1>6. LiveDynamic' = LiveDynamic
  BY <1>1 DEF LiveDynamic, Thread
<1>7. ThreadsAreBounded'
  BY <1>6, BoundStays
<1> QED
  BY <1>3, <1>4, <1>5, <1>7

\* A wait that ends after its time: back to work, or out of the pool.
LEMMA TimeOutStep ==
  ASSUME PoolInv, NEW t \in Thread, TimeOut(t)
  PROVE  PoolInv'
<1> USE DEF TimeOut, PoolInv
<1>1. t \in Dynamic /\ t \notin Base /\ state[t] = "waiting" /\ t \in IdleThreads
  BY PoolAssumption DEF IdleThreads
<1>2. t \in dynamicThreads /\ t \notin finishedThreads
  BY <1>1 DEF ThreadsAreBounded, ShapeInv
<1>3. CASE HasWork
  <2>1. /\ state' = [state EXCEPT ![t] = "woken"]
        /\ UNCHANGED <<idle, dynamicThreads, finishedThreads, running, jobs, shutdown>>
    BY <1>3
  <2>2. PoolTypeOK' /\ ShapeInv'
    BY <1>1, <1>2, <2>1 DEF PoolTypeOK, States, ShapeInv
  <2>3. IdleThreads' = IdleThreads /\ LiveDynamic' = LiveDynamic
    BY <1>1, <2>1 DEF IdleThreads, LiveDynamic, PoolTypeOK
  <2>4. IdleCountAgrees'
    BY <2>1, <2>3 DEF IdleCountAgrees, IdleThreads
  <2> QED
    BY <2>1, <2>2, <2>3, <2>4, BoundStays
<1>4. CASE ~HasWork
  <2>1. /\ state' = [state EXCEPT ![t] = "exited"] /\ idle' = idle - 1
        /\ dynamicThreads' = dynamicThreads \ {t}
        /\ finishedThreads' = finishedThreads \cup {t}
        /\ UNCHANGED <<running, jobs, shutdown>>
    BY <1>1, <1>2, <1>4 DEF IdleWhenGone
  <2>2. idle \in Nat \ {0} /\ Cardinality(IdleThreads \ {t}) = idle - 1
    BY <1>1, IdleThreadCounts
  <2>3. PoolTypeOK'
    BY <1>1, <2>1, <2>2 DEF PoolTypeOK, States
  <2>4. ShapeInv'
    BY <1>1, <2>1 DEF ShapeInv, PoolTypeOK
  <2>5. IdleThreads' = IdleThreads \ {t}
    BY <1>1, <2>1 DEF IdleThreads, PoolTypeOK
  <2>6. IdleCountAgrees'
    BY <2>1, <2>2, <2>5 DEF IdleCountAgrees, IdleThreads
  <2>7. LiveDynamic' = LiveDynamic
    BY <1>1, <2>1 DEF LiveDynamic, PoolTypeOK
  <2>8. /\ \A u \in Dynamic : state'[u] # "none" <=> u \in dynamicThreads' \cup finishedThreads'
        /\ dynamicThreads' \cap finishedThreads' = {}
    BY <1>1, <1>2, <2>1 DEF ThreadsAreBounded, PoolTypeOK
  <2>9. ThreadsAreBounded'
    BY <2>7, <2>8 DEF ThreadsAreBounded, LiveDynamic
  <2> QED
    BY <2>3, <2>4, <2>6, <2>9
<1> QED
  BY <1>3, <1>4

\* A job ends.
LEMMA EndJobStep ==
  ASSUME PoolInv, NEW t \in Thread, state[t] = "running", EndJob(t)
  PROVE  PoolInv'
<1> USE DEF EndJob, PoolInv
<1>1. PoolTypeOK' /\ ShapeInv'
  BY DEF PoolTypeOK, States, ShapeInv, Thread
<1>2. IdleThreads' = IdleThreads /\ LiveDynamic' = LiveDynamic
  BY DEF IdleThreads, LiveDynamic, PoolTypeOK
<1>3. IdleCountAgrees'
  BY <1>2 DEF IdleCountAgrees, IdleThreads
<1> QED
  BY <1>1, <1>2, <1>3, BoundStays

\* Threads are woken, or the pool is told to shut down: no count changes.
LEMMA WakeStep ==
  ASSUME PoolInv, NotifyOne \/ NotifyAll \/ SetShutdown
  PROVE  PoolInv'
<1> USE DEF NotifyOne, NotifyAll, SetShutdown, PoolInv
<1>1. /\ state' \in [Thread -> States]
      /\ \A t \in Thread : state'[t] = state[t] \/ (state[t] = "waiting" /\ state'[t] = "woken")
      /\ UNCHANGED <<running, jobs, idle, dynamicThreads, finishedThreads>>
      /\ shutdown' \in BOOLEAN /\ (shutdown => shutdown')
  BY DEF WaitingThreads, PoolTypeOK, States
<1>2. PoolTypeOK'
  BY <1>1 DEF PoolTypeOK
<1>3. ShapeInv'
  <2>1. \A t \in Thread : running'[t] # NoJob <=> state'[t] = "running"
    BY <1>1 DEF ShapeInv
  <2>2. \A t \in finishedThreads' : state'[t] = "exited"
    BY <1>1 DEF ShapeInv, PoolTypeOK, Thread
  <2>3. \A t \in Base : state'[t] \in {"exited", "none"} => shutdown' /\ jobs' = <<>>
    BY <1>1 DEF ShapeInv, Thread
  <2> QED
    BY <2>1, <2>2, <2>3 DEF ShapeInv
<1>4. IdleThreads' = IdleThreads
  BY <1>1 DEF IdleThreads
<1>5. LiveDynamic' = LiveDynamic
  BY <1>1 DEF LiveDynamic, Thread
<1>6. IdleCountAgrees'
  BY <1>1, <1>4 DEF IdleCountAgrees, IdleThreads
<1> QED
  BY <1>1, <1>2, <1>3, <1>5, <1>6, BoundStays

\* A job is enqueued, and a thread added when no other is idle and there are
\* fewer than max_thread_count_.
LEMMA EnqueueStep ==
  ASSUME PoolInv, NEW job \in Job, ~shutdown, Enqueue(job)
  PROVE  PoolInv'
<1> USE DEF Enqueue, PoolInv
<1>1. jobs' \in Seq(Job) /\ UNCHANGED <<running, idle, shutdown>>
  BY DEF PoolTypeOK
<1>2. CASE ~Grows
  <2>1. UNCHANGED <<state, dynamicThreads, finishedThreads>>
    BY <1>2
  <2>2. PoolTypeOK' /\ ShapeInv' /\ IdleCountAgrees'
    BY <1>1, <2>1 DEF PoolTypeOK, ShapeInv, IdleCountAgrees
  <2>3. LiveDynamic' = LiveDynamic
    BY <2>1 DEF LiveDynamic
  <2> QED
    BY <2>1, <2>2, <2>3, BoundStays
<1>3. CASE Grows
  <2>1. PICK t \in Dynamic :
          /\ Joined(finishedThreads)[t] = "none"
          /\ state' = [Joined(finishedThreads) EXCEPT ![t] = "ready"]
          /\ dynamicThreads' = dynamicThreads \cup {t}
          /\ finishedThreads' = {}
    BY <1>3
  <2>2. /\ state'[t] = "ready" /\ (state[t] = "none" \/ t \in finishedThreads)
        /\ \A u \in Thread \ {t} :
             state'[u] = IF u \in finishedThreads THEN "none" ELSE state[u]
        /\ state' \in [Thread -> States]
    BY <2>1 DEF Joined, Thread, PoolTypeOK, States
  <2>3. t \notin Base /\ t \in Thread /\ t \notin dynamicThreads
        /\ \A u \in finishedThreads : u \notin Base /\ u \notin dynamicThreads
    BY <2>2, PoolAssumption DEF Thread, ThreadsAreBounded, PoolTypeOK
  <2>4. PoolTypeOK'
    BY <1>1, <2>1, <2>2 DEF PoolTypeOK
  <2>5. ShapeInv'
    <3>1. \A u \in Thread : running'[u] # NoJob <=> state'[u] = "running"
      BY <1>1, <2>2 DEF ShapeInv
    <3>2. \A u \in Base : state'[u] = state[u]
      BY <2>2, <2>3 DEF Thread
    <3> QED
      BY <1>1, <2>1, <3>1, <3>2 DEF ShapeInv
  <2>6. IdleThreads' = IdleThreads
    BY <2>2 DEF IdleThreads, ShapeInv
  <2>7. IdleCountAgrees'
    BY <1>1, <2>6 DEF IdleCountAgrees, IdleThreads
  <2>8. LiveDynamic' = dynamicThreads \cup {t}
    BY <2>2, <2>3 DEF LiveDynamic, ThreadsAreBounded, PoolTypeOK, Thread
  <2>9. Cardinality(Base) + Cardinality(dynamicThreads \cup {t}) <= MaxThreads
    <3>1. /\ IsFiniteSet(Base) /\ IsFiniteSet(dynamicThreads)
          /\ Base \cap dynamicThreads = {} /\ Cardinality({}) = 0
      BY PoolAssumption, FS_Subset, FS_EmptySet DEF PoolTypeOK
    <3>2. Cardinality(Base \cup dynamicThreads) = Cardinality(Base) + Cardinality(dynamicThreads)
      <4>1. Cardinality(Base \cup dynamicThreads) =
              Cardinality(Base) + Cardinality(dynamicThreads) - Cardinality(Base \cap dynamicThreads)
        BY <3>1, FS_Union
      <4>2. Cardinality(Base \cap dynamicThreads) = 0
        BY <3>1
      <4>3. Cardinality(Base) \in Nat /\ Cardinality(dynamicThreads) \in Nat
        BY <3>1, FS_CardinalityType
      <4> QED
        BY <4>1, <4>2, <4>3
    <3>3. Cardinality(dynamicThreads \cup {t}) = Cardinality(dynamicThreads) + 1
      BY <2>3, <3>1, FS_AddElement
    <3>4. Cardinality(Base) \in Nat /\ Cardinality(dynamicThreads) \in Nat
      BY <3>1, FS_CardinalityType
    <3> QED
      BY <1>3, <3>2, <3>3, <3>4, PoolAssumption DEF Grows
  <2>10. \A u \in Dynamic : state'[u] # "none" <=> u \in dynamicThreads' \cup finishedThreads'
    BY <2>1, <2>8 DEF LiveDynamic
  <2>11. ThreadsAreBounded'
    BY <2>1, <2>8, <2>9, <2>10 DEF ThreadsAreBounded, LiveDynamic
  <2> QED
    BY <2>4, <2>5, <2>7, <2>11
<1> QED
  BY <1>2, <1>3

\* The base threads are joined.
LEMMA JoinBaseStep ==
  ASSUME PoolInv, JoinBase
  PROVE  PoolInv'
<1> USE DEF JoinBase, Join, PoolInv
<1>1. /\ \A t \in Thread : state'[t] = IF t \in Base THEN "none" ELSE state[t]
      /\ \A t \in Base : state[t] = "exited"
      /\ state' \in [Thread -> States]
      /\ UNCHANGED <<running, jobs, idle, shutdown, dynamicThreads, finishedThreads>>
  BY DEF Joined, Exited, PoolTypeOK, States
<1>2. PoolTypeOK'
  BY <1>1 DEF PoolTypeOK
<1>3. \A t \in Dynamic : t \notin Base /\ t \in Thread
  BY PoolAssumption DEF Thread
<1>4. ShapeInv'
  BY <1>1, <1>3 DEF ShapeInv, PoolTypeOK, Thread
<1>5. IdleThreads' = IdleThreads
  BY <1>1 DEF IdleThreads
<1>6. LiveDynamic' = LiveDynamic
  BY <1>1, <1>3 DEF LiveDynamic
<1>7. IdleCountAgrees'
  BY <1>1, <1>5 DEF IdleCountAgrees, IdleThreads
<1> QED
  BY <1>1, <1>2, <1>4, <1>6, <1>7, BoundStays

\* The dynamic threads are joined.
LEMMA JoinDynamicStep ==
  ASSUME PoolInv, JoinDynamic
  PROVE  PoolInv' /\ \A t \in Dynamic : state'[t] = "none"
<1> USE DEF JoinDynamic, Join, PoolInv
<1> DEFINE gone == dynamicThreads \cup finishedThreads
<1>1. /\ \A t \in Thread : state'[t] = IF t \in gone THEN "none" ELSE state[t]
      /\ \A t \in gone : state[t] = "exited" /\ t \in Dynamic /\ t \notin Base
      /\ state' \in [Thread -> States]
      /\ UNCHANGED <<running, jobs, idle, shutdown>>
  BY PoolAssumption DEF Joined, Exited, PoolTypeOK, States
<1>2. \A t \in Dynamic : state'[t] = "none"
  BY <1>1 DEF ThreadsAreBounded, Thread
<1>3. PoolTypeOK'
  BY <1>1 DEF PoolTypeOK
<1>4. ShapeInv'
  <2>1. \A t \in Thread : running'[t] # NoJob <=> state'[t] = "running"
    BY <1>1 DEF ShapeInv
  <2>2. \A t \in Base : state'[t] = state[t]
    BY <1>1 DEF Thread
  <2>3. \A t \in Base : state'[t] \in {"exited", "none"} => shutdown' /\ jobs' = <<>>
    <3> SUFFICES ASSUME NEW t \in Base, state'[t] \in {"exited", "none"}
                 PROVE  shutdown' /\ jobs' = <<>>
      OBVIOUS
    <3>1. shutdown /\ jobs = <<>>
      BY <2>2 DEF ShapeInv
    <3>2. shutdown' = shutdown /\ jobs' = jobs
      OBVIOUS
    <3> QED
      BY <3>1, <3>2
  <2>4. finishedThreads' = {}
    OBVIOUS
  <2> QED
    BY <2>1, <2>3, <2>4 DEF ShapeInv
<1>5. IdleThreads' = IdleThreads
  BY <1>1 DEF IdleThreads
<1>6. IdleCountAgrees'
  BY <1>1, <1>5 DEF IdleCountAgrees, IdleThreads
<1>7. ThreadsAreBounded'
  <2>1. {t \in Dynamic : state'[t] # "none"} = {}
    BY <1>2
  <2>2. Cardinality(Base) \in Nat /\ Cardinality({}) = 0
    BY PoolAssumption, FS_CardinalityType, FS_EmptySet
  <2>3. Cardinality(Base) + Cardinality({}) <= MaxThreads
    BY <2>2, PoolAssumption
  <2> QED
    BY <1>2, <2>1, <2>3 DEF ThreadsAreBounded
<1> QED
  BY <1>2, <1>3, <1>4, <1>6, <1>7

-----------------------------------------------------------------------------
(* The server.                                                             *)

\* Where the listener is, the pool is: shut down once accept has failed, and
\* joined, first the base threads and then the others.
ListenerInv ==
  /\ listener \in {"accept", "notify", "notify_all", "join_base", "join_dynamic", "returned"}
  /\ shutdown <=> listener \notin {"accept", "notify"}
  /\ listener \in {"join_dynamic", "returned"} => \A t \in Base : state[t] = "none"
  /\ listener = "returned" => \A t \in Dynamic : state[t] = "none"

\* A thread is in process_and_close_socket while it has a connection; the count
\* has not run out before the connection is to be closed.
ServingInv ==
  /\ socket \in [Connection -> {"none", "open", "closed"}]
  /\ step \in [Thread -> {"none", "keep_alive", "request", "close"}]
  /\ count \in [Thread -> 0 .. KeepAliveMax] /\ told \in [Thread -> BOOLEAN]
  /\ \A t \in Thread :
       /\ step[t] = "none" <=> running[t] = NoJob
       /\ step[t] \in {"keep_alive", "request"} => count[t] > 0
  /\ CloseIsAnnounced

\* An open connection is with one thread, or in one place of the queue.
OwnerInv ==
  /\ \A t, u \in Thread : running[t] = running[u] /\ running[t] # NoJob => t = u
  /\ \A m, n \in DOMAIN jobs : jobs[m] = jobs[n] => m = n
  /\ \A t \in Thread, n \in DOMAIN jobs : running[t] # jobs[n]
  /\ \A c \in Connection :
       socket[c] = "open" <=> (\E t \in Thread : running[t] = c)
                                \/ (\E n \in DOMAIN jobs : jobs[n] = c)

ServerInv == PoolInv /\ ListenerInv /\ ServingInv /\ OwnerInv

\* The server starts in its invariant.
LEMMA ServerInit == Init => ServerInv
<1> SUFFICES ASSUME Init PROVE ServerInv
  OBVIOUS
<1> USE DEF Init, PoolInit
<1>1. PoolTypeOK /\ ShapeInv
  <2>1. \A t \in Thread : state[t] \in States /\ (t \in Base => state[t] = "ready")
                          /\ state[t] # "running" /\ running[t] = NoJob
    BY DEF States, Thread
  <2>2. PoolTypeOK
    <3>1. state \in [Thread -> States]
      BY <2>1
    <3>2. running \in [Thread -> Job \cup {NoJob}] /\ jobs \in Seq(Job)
      OBVIOUS
    <3> QED
      BY <3>1, <3>2 DEF PoolTypeOK
  <2>3. ShapeInv
    BY <2>1 DEF ShapeInv, Thread
  <2> QED
    BY <2>2, <2>3
<1>2. IdleCountAgrees
  <2>1. {t \in Thread : state[t] \in {"waiting", "woken"}} = {}
    OBVIOUS
  <2> QED
    BY <2>1, FS_EmptySet DEF IdleCountAgrees
<1>3. ThreadsAreBounded
  <2>1. {t \in Dynamic : state[t] # "none"} = {} /\ \A t \in Dynamic : state[t] = "none"
    BY PoolAssumption DEF Thread
  <2>2. Cardinality(Base) \in Nat /\ Cardinality({}) = 0
    BY PoolAssumption, FS_CardinalityType, FS_EmptySet
  <2>3. Cardinality(Base) + Cardinality({}) <= MaxThreads
    BY <2>2, PoolAssumption
  <2> QED
    BY <2>1, <2>3 DEF ThreadsAreBounded
<1>4. ListenerInv
  BY DEF ListenerInv
<1>5. ServingInv
  BY ServerAssumption DEF ServingInv, CloseIsAnnounced
<1>6. OwnerInv
  BY PoolAssumption DEF OwnerInv, Connection
<1> QED
  BY <1>1, <1>2, <1>3, <1>4, <1>5, <1>6 DEF ServerInv, PoolInv

\* Steps of the pool leave what the server keeps alone.
LEMMA PoolKeeps ==
  ASSUME PoolInv, NEW t \in Thread, Wait(t) \/ Quit(t) \/ TimeOut(t)
  PROVE  /\ PoolInv' /\ UNCHANGED <<running, jobs, shutdown>>
         /\ \A u \in Thread : state[u] = "none" => state'[u] = "none"
<1>1. PoolInv'
  BY WaitStep, QuitStep, TimeOutStep
<1>2. UNCHANGED <<running, jobs, shutdown>>
  BY DEF Wait, Quit, TimeOut
<1>3. \A u \in Thread : state[u] = "none" => state'[u] = "none"
  BY DEF Wait, Quit, TimeOut, Looks, PoolInv, PoolTypeOK
<1> QED
  BY <1>1, <1>2, <1>3

\* A connection is taken from the queue.
LEMMA TakeConnectionStep ==
  ASSUME ServerInv, NEW t \in Thread, TakeConnection(t)
  PROVE  ServerInv'
<1> USE DEF TakeConnection, ServerInv
<1>1. PoolInv'
  BY TakeStep
<1>2. /\ jobs # <<>> /\ jobs \in Seq(Job) /\ jobs' = Tail(jobs)
      /\ running' = [running EXCEPT ![t] = jobs[1]]
      /\ running[t] = NoJob /\ jobs[1] \in Job /\ jobs[1] # NoJob
      /\ running \in [Thread -> Job \cup {NoJob}]
      /\ state' = [state EXCEPT ![t] = "running"] /\ state \in [Thread -> States]
      /\ state[t] \in {"ready", "woken"} /\ UNCHANGED shutdown
  BY PoolAssumption DEF Take, Looks, Remaining, PoolInv, PoolTypeOK, ShapeInv
<1>3. ListenerInv'
  BY <1>2 DEF ListenerInv, Thread
<1>4. ServingInv'
  <2>1. count[t] \in 0 .. KeepAliveMax /\ KeepAliveMax \in 0 .. KeepAliveMax /\ KeepAliveMax > 0
    BY ServerAssumption DEF ServingInv
  <2>2. CloseIsAnnounced'
    BY DEF ServingInv, CloseIsAnnounced
  <2>3. \A u \in Thread : /\ step'[u] = "none" <=> running'[u] = NoJob
                          /\ step'[u] \in {"keep_alive", "request"} => count'[u] > 0
    BY <1>2, <2>1 DEF ServingInv
  <2> QED
    BY <2>1, <2>2, <2>3 DEF ServingInv
<1>5. OwnerInv'
  <2>1. /\ \A n \in DOMAIN jobs' : n + 1 \in DOMAIN jobs /\ n + 1 # 1 /\ jobs'[n] = jobs[n + 1]
        /\ 1 \in DOMAIN jobs
        /\ \A n \in DOMAIN jobs \ {1} : n - 1 \in DOMAIN jobs' /\ jobs'[n - 1] = jobs[n]
        /\ DOMAIN jobs \subseteq Nat /\ DOMAIN jobs' \subseteq Nat
    BY <1>2
  <2>2. \A u \in Thread : running'[u] = IF u = t THEN jobs[1] ELSE running[u]
    BY <1>2
  <2>3. \A u, v \in Thread : running'[u] = running'[v] /\ running'[u] # NoJob => u = v
    BY <2>1, <2>2 DEF OwnerInv
  <2>4. \A m, n \in DOMAIN jobs' : jobs'[m] = jobs'[n] => m = n
    <3> SUFFICES ASSUME NEW m \in DOMAIN jobs', NEW n \in DOMAIN jobs', jobs'[m] = jobs'[n]
                 PROVE  m = n
      OBVIOUS
    <3>1. m + 1 = n + 1
      BY <2>1 DEF OwnerInv
    <3> QED
      BY <2>1, <3>1
  <2>5. \A u \in Thread, n \in DOMAIN jobs' : running'[u] # jobs'[n]
    BY <2>1, <2>2 DEF OwnerInv
  <2>6. ASSUME NEW c \in Connection
        PROVE  ((\E u \in Thread : running'[u] = c) \/ (\E n \in DOMAIN jobs' : jobs'[n] = c))
                 <=> ((\E u \in Thread : running[u] = c) \/ (\E n \in DOMAIN jobs : jobs[n] = c))
    <3>1. ASSUME NEW u \in Thread, running'[u] = c
          PROVE  (\E v \in Thread : running[v] = c) \/ (\E n \in DOMAIN jobs : jobs[n] = c)
      BY <2>1, <2>2, <3>1
    <3>2. ASSUME NEW n \in DOMAIN jobs', jobs'[n] = c
          PROVE  \E m \in DOMAIN jobs : jobs[m] = c
      BY <2>1, <3>2
    <3>3. ASSUME NEW u \in Thread, running[u] = c
          PROVE  \E v \in Thread : running'[v] = c
      BY <1>2, <2>2, <3>3, PoolAssumption DEF Connection
    <3>4. ASSUME NEW n \in DOMAIN jobs, jobs[n] = c
          PROVE  (\E v \in Thread : running'[v] = c) \/ (\E m \in DOMAIN jobs' : jobs'[m] = c)
      BY <2>1, <2>2, <3>4
    <3> QED
      BY <3>1, <3>2, <3>3, <3>4
  <2>7. UNCHANGED socket
    OBVIOUS
  <2> QED
    BY <2>3, <2>4, <2>5, <2>6, <2>7 DEF OwnerInv
<1> QED
  BY <1>1, <1>3, <1>4, <1>5

\* A connection is closed, and its thread free.
LEMMA CloseStep ==
  ASSUME ServerInv, NEW t \in Thread, Close(t)
  PROVE  ServerInv'
<1> USE DEF Close, EndJob, ServerInv
<1>1. /\ running[t] # NoJob /\ running[t] \in Job /\ state[t] = "running"
      /\ running \in [Thread -> Job \cup {NoJob}] /\ state \in [Thread -> States]
  BY DEF ServingInv, PoolInv, ShapeInv, PoolTypeOK
<1>2. PoolInv'
  BY <1>1, EndJobStep
<1>3. ListenerInv'
  BY <1>1 DEF ListenerInv, Thread
<1>4. ServingInv'
  <2>1. socket' \in [Connection -> {"none", "open", "closed"}]
    BY <1>1 DEF ServingInv, Connection
  <2>2. 0 \in 0 .. KeepAliveMax
    BY ServerAssumption
  <2>3. CloseIsAnnounced'
    BY DEF ServingInv, CloseIsAnnounced
  <2> QED
    BY <1>1, <2>1, <2>2, <2>3 DEF ServingInv
<1>5. OwnerInv'
  <2>1. \A u \in Thread : running'[u] = IF u = t THEN NoJob ELSE running[u]
    BY <1>1
  <2>2. \A c \in Connection : socket'[c] = IF c = running[t] THEN "closed" ELSE socket[c]
    BY DEF ServingInv
  <2>3. /\ \A u, v \in Thread : running'[u] = running'[v] /\ running'[u] # NoJob => u = v
        /\ \A u \in Thread, n \in DOMAIN jobs' : running'[u] # jobs'[n]
    <3>1. \A n \in DOMAIN jobs : jobs[n] # NoJob
      BY PoolAssumption DEF PoolInv, PoolTypeOK
    <3> QED
      BY <2>1, <3>1 DEF OwnerInv
  <2>4. ASSUME NEW c \in Connection
        PROVE  socket'[c] = "open" <=> (\E u \in Thread : running'[u] = c)
                                         \/ (\E n \in DOMAIN jobs' : jobs'[n] = c)
    <3>1. CASE c = running[t]
      <4>1. socket'[c] # "open" /\ \A n \in DOMAIN jobs' : jobs'[n] # c
        BY <2>2, <3>1 DEF OwnerInv
      <4>2. \A u \in Thread : running'[u] # c
        BY <1>1, <2>1, <3>1 DEF OwnerInv
      <4> QED
        BY <4>1, <4>2
    <3>2. CASE c # running[t]
      <4>1. socket'[c] = socket[c] /\ c # NoJob
        BY <2>2, <3>2, PoolAssumption DEF Connection
      <4>2. (\E u \in Thread : running'[u] = c) <=> (\E u \in Thread : running[u] = c)
        BY <2>1, <3>2, <4>1
      <4> QED
        BY <4>1, <4>2 DEF OwnerInv
    <3> QED
      BY <3>1, <3>2
  <2> QED
    BY <2>3, <2>4 DEF OwnerInv
<1> QED
  BY <1>2, <1>3, <1>4, <1>5

\* A request is waited for and answered.
LEMMA RequestStep ==
  ASSUME ServerInv, NEW t \in Thread, KeepAlive(t) \/ Answer(t) \/ Fails(t)
  PROVE  ServerInv'
<1> USE DEF ServerInv
<1>1. UNCHANGED <<poolVars, listener, socket>>
  BY DEF KeepAlive, Answer, Fails
<1>2. PoolInv' /\ ListenerInv' /\ OwnerInv'
  BY <1>1 DEF poolVars, PoolInv, PoolTypeOK, ShapeInv, IdleCountAgrees,
              ThreadsAreBounded, ListenerInv, OwnerInv
<1>3. ASSUME KeepAlive(t) PROVE ServingInv'
  BY <1>1, <1>3 DEF KeepAlive, ServingInv, CloseIsAnnounced, poolVars
<1>4. ASSUME Fails(t) PROVE ServingInv'
  BY <1>1, <1>4 DEF Fails, ServingInv, CloseIsAnnounced, poolVars
<1>5. ASSUME Answer(t) PROVE ServingInv'
  <2> PICK r \in Request :
         LET left == IF ConnectionClosed(r) THEN count[t] ELSE count[t] - 1
             ends == ConnectionClosed(r) \/ left = 0
         IN  /\ count' = [count EXCEPT ![t] = left]
             /\ step' = [step EXCEPT ![t] = IF ends THEN "close" ELSE "keep_alive"]
             /\ told' = [told EXCEPT ![t] = ends /\ SaysClose(t, r)]
    BY <1>5 DEF Answer
  <2> DEFINE left == IF ConnectionClosed(r) THEN count[t] ELSE count[t] - 1
             ends == ConnectionClosed(r) \/ left = 0
             said == ends /\ SaysClose(t, r)
  <2>1. /\ count' = [count EXCEPT ![t] = left]
        /\ step' = [step EXCEPT ![t] = IF ends THEN "close" ELSE "keep_alive"]
        /\ told' = [told EXCEPT ![t] = said]
    OBVIOUS
  <2>2. count[t] \in 0 .. KeepAliveMax /\ count[t] > 0 /\ step[t] = "request"
    BY <1>5 DEF Answer, ServingInv
  <2>3. left \in 0 .. KeepAliveMax /\ said \in BOOLEAN /\ (~ends => left > 0)
    BY <2>2, ServerAssumption
  <2>4. left = 0 => said
    <3>1. left = 0 => count[t] = 1
      BY <2>2, ServerAssumption
    <3> QED
      BY <3>1 DEF SaysClose, IsLast
  <2> HIDE DEF left, ends, said
  <2>5. /\ \A u \in Thread : /\ step'[u] = "none" <=> running'[u] = NoJob
                             /\ step'[u] \in {"keep_alive", "request"} => count'[u] > 0
        /\ step' \in [Thread -> {"none", "keep_alive", "request", "close"}]
        /\ count' \in [Thread -> 0 .. KeepAliveMax] /\ told' \in [Thread -> BOOLEAN]
    BY <1>1, <2>1, <2>2, <2>3 DEF ServingInv, poolVars
  <2>6. CloseIsAnnounced'
    BY <2>1, <2>2, <2>3, <2>4 DEF ServingInv, CloseIsAnnounced
  <2> QED
    BY <1>1, <2>5, <2>6 DEF ServingInv
<1> QED
  BY <1>2, <1>3, <1>4, <1>5

\* A connection is accepted and enqueued.
LEMMA AcceptStep ==
  ASSUME ServerInv, NEW c \in Connection, Accept(c)
  PROVE  ServerInv'
<1> USE DEF Accept, ServerInv
<1>1. ~shutdown /\ c \in Job
  BY DEF ListenerInv, Connection
<1>2. PoolInv' /\ UNCHANGED <<running, shutdown>>
  BY <1>1, EnqueueStep DEF Enqueue
<1>3. ListenerInv'
  BY <1>1, <1>2 DEF ListenerInv
<1>4. ServingInv'
  BY <1>2 DEF ServingInv, CloseIsAnnounced
<1>5. OwnerInv'
  <2>1. /\ jobs \in Seq(Job) /\ Len(jobs) \in Nat /\ DOMAIN jobs = 1 .. Len(jobs)
        /\ DOMAIN jobs' = 1 .. (Len(jobs) + 1)
        /\ \A n \in DOMAIN jobs : jobs'[n] = jobs[n]
        /\ jobs'[Len(jobs) + 1] = c
    BY <1>1 DEF Enqueue, PoolInv, PoolTypeOK
  <2>2. /\ \A n \in DOMAIN jobs : jobs[n] # c
        /\ \A t \in Thread : running[t] # c
    BY DEF OwnerInv
  <2>3. \A m, n \in DOMAIN jobs' : jobs'[m] = jobs'[n] => m = n
    <3> SUFFICES ASSUME NEW m \in DOMAIN jobs', NEW n \in DOMAIN jobs', jobs'[m] = jobs'[n]
                 PROVE  m = n
      OBVIOUS
    <3>1. /\ m \in DOMAIN jobs \/ m = Len(jobs) + 1
          /\ n \in DOMAIN jobs \/ n = Len(jobs) + 1
      BY <2>1
    <3> QED
      BY <2>1, <2>2, <3>1 DEF OwnerInv
  <2>4. \A t \in Thread, n \in DOMAIN jobs' : running'[t] # jobs'[n]
    <3> SUFFICES ASSUME NEW t \in Thread, NEW n \in DOMAIN jobs' PROVE running[t] # jobs'[n]
      BY <1>2
    <3>1. n \in DOMAIN jobs \/ n = Len(jobs) + 1
      BY <2>1
    <3> QED
      BY <2>1, <2>2, <3>1 DEF OwnerInv
  <2>5. ASSUME NEW d \in Connection
        PROVE  socket'[d] = "open" <=> (\E t \in Thread : running'[t] = d)
                                         \/ (\E n \in DOMAIN jobs' : jobs'[n] = d)
    <3>1. CASE d = c
      <4>1. socket'[d] = "open"
        BY <3>1 DEF ServingInv
      <4>2. Len(jobs) + 1 \in DOMAIN jobs' /\ jobs'[Len(jobs) + 1] = d
        BY <2>1, <3>1
      <4> QED
        BY <4>1, <4>2
    <3>2. CASE d # c
      <4>1. socket'[d] = socket[d]
        BY <3>2 DEF ServingInv
      <4>2. (\E n \in DOMAIN jobs' : jobs'[n] = d) <=> (\E n \in DOMAIN jobs : jobs[n] = d)
        <5>1. ASSUME NEW n \in DOMAIN jobs', jobs'[n] = d PROVE n \in DOMAIN jobs /\ jobs[n] = d
          BY <2>1, <3>2, <5>1
        <5>2. ASSUME NEW n \in DOMAIN jobs, jobs[n] = d PROVE n \in DOMAIN jobs' /\ jobs'[n] = d
          BY <2>1, <5>2
        <5> QED
          BY <5>1, <5>2
      <4> QED
        BY <1>2, <4>1, <4>2 DEF OwnerInv
    <3> QED
      BY <3>1, <3>2
  <2> QED
    BY <1>2, <2>3, <2>4, <2>5 DEF OwnerInv
<1> QED
  BY <1>2, <1>3, <1>4, <1>5

\* The listener wakes a thread, fails to accept, or shuts the pool down.
LEMMA ListenerStep ==
  ASSUME ServerInv, Notify \/ AcceptFails \/ Shutdown
  PROVE  ServerInv'
<1> USE DEF ServerInv
<1>1. PoolInv' /\ UNCHANGED <<running, jobs, serverVars>>
  BY WakeStep, JoinBaseStep, JoinDynamicStep
     DEF Notify, AcceptFails, Shutdown, NotifyOne, SetShutdown, NotifyAll, JoinBase,
         JoinDynamic
<1>2. ServingInv' /\ OwnerInv'
  BY <1>1 DEF ServingInv, CloseIsAnnounced, OwnerInv, serverVars
<1>3. ASSUME Notify \/ AcceptFails PROVE ListenerInv'
  BY <1>3 DEF Notify, AcceptFails, NotifyOne, SetShutdown, ListenerInv
<1>4. ASSUME listener = "notify_all", NotifyAll, listener' = "join_base" PROVE ListenerInv'
  BY <1>4 DEF NotifyAll, ListenerInv
<1>5. ASSUME listener = "join_base", JoinBase, listener' = "join_dynamic" PROVE ListenerInv'
  BY <1>5 DEF JoinBase, Join, Joined, ListenerInv, Thread
<1>6. ASSUME listener = "join_dynamic", JoinDynamic, listener' = "returned" PROVE ListenerInv'
  <2>1. \A t \in Dynamic : state'[t] = "none"
    BY <1>6, JoinDynamicStep
  <2>2. \A t \in Base : state'[t] = "none" /\ (shutdown' <=> shutdown)
    BY <1>6 DEF JoinDynamic, Join, Joined, ListenerInv, Thread
  <2>3. shutdown'
    BY <1>6 DEF JoinDynamic, ListenerInv
  <2> QED
    BY <1>6, <2>1, <2>2, <2>3 DEF ListenerInv
<1> QED
  BY <1>1, <1>2, <1>3, <1>4, <1>5, <1>6 DEF Shutdown

\* Every step of the server keeps its invariant.
LEMMA ServerNext == ServerInv /\ [Next]_vars => ServerInv'
<1> SUFFICES ASSUME ServerInv, [Next]_vars PROVE ServerInv'
  OBVIOUS
<1>1. CASE UNCHANGED vars
  BY <1>1 DEF vars, poolVars, serverVars, ServerInv, PoolInv, PoolTypeOK, ShapeInv,
              IdleCountAgrees, ThreadsAreBounded, ListenerInv, ServingInv,
              CloseIsAnnounced, OwnerInv
<1>2. ASSUME NEW t \in Thread, PoolStep(t) PROVE ServerInv'
  <2>1. /\ PoolInv' /\ UNCHANGED <<running, jobs, shutdown, listener, serverVars>>
        /\ \A u \in Thread : state[u] = "none" => state'[u] = "none"
    BY <1>2, PoolKeeps DEF PoolStep, ServerInv
  <2>2. ListenerInv'
    BY <2>1 DEF ServerInv, ListenerInv, Thread
  <2>3. ServingInv' /\ OwnerInv'
    BY <2>1 DEF ServerInv, ServingInv, CloseIsAnnounced, OwnerInv, serverVars
  <2> QED
    BY <2>1, <2>2, <2>3 DEF ServerInv
<1> QED
  BY <1>1, <1>2, AcceptStep, ListenerStep, TakeConnectionStep, RequestStep, CloseStep
     DEF Next

-----------------------------------------------------------------------------
(* Wake-ups.                                                               *)

Lookers == {t \in Thread : Looks(t)}

\* Where the jobs and the listener stay no wake-up is lost as long as no thread
\* goes to wait and none stops looking.
LEMMA WakeupsStay ==
  ASSUME ServerInv, NoLostWakeup, jobs' = jobs, listener # "notify" \/ listener' = "notify",
         Lookers \subseteq Lookers', WaitingThreads' \subseteq WaitingThreads
  PROVE  NoLostWakeup'
<1>1. Lookers' \in SUBSET Thread
  BY DEF Lookers
<1>2. /\ Cardinality(Lookers) <= Cardinality(Lookers')
      /\ Cardinality(Lookers) \in Nat /\ Cardinality(Lookers') \in Nat
  BY <1>1, ThreadsFinite, FS_Subset
<1>3. Len(jobs) \in Nat
  BY DEF ServerInv, PoolInv, PoolTypeOK
<1> QED
  BY <1>2, <1>3 DEF NoLostWakeup, Lookers

\* While nothing is queued none is needed.
LEMMA NoWakeupNeeded == ASSUME jobs = <<>> PROVE NoLostWakeup
<1>1. Cardinality({t \in Thread : Looks(t)}) \in Nat /\ Len(jobs) = 0
  BY ThreadsFinite
<1> QED
  BY <1>1 DEF NoLostWakeup

\* A thread takes a job, one less is queued and one thread less looks for one.
LEMMA TakeWakeup ==
  ASSUME ServerInv, NoLostWakeup, NEW t \in Thread, Take(t), UNCHANGED listener
  PROVE  NoLostWakeup'
<1>1. /\ state \in [Thread -> States] /\ jobs \in Seq(Job) /\ jobs # <<>>
      /\ Len(jobs') = Len(jobs) - 1 /\ Len(jobs) \in Nat
  BY DEF ServerInv, PoolInv, PoolTypeOK, Take, Remaining
<1>2. t \in Lookers /\ Lookers' = Lookers \ {t} /\ WaitingThreads' = WaitingThreads
  BY <1>1 DEF Take, Lookers, Looks, WaitingThreads
<1>3. Cardinality(Lookers') = Cardinality(Lookers) - 1 /\ Cardinality(Lookers) \in Nat
  <2>1. Lookers \in SUBSET Thread
    BY DEF Lookers
  <2> QED
    BY <1>2, <2>1, ThreadsFinite, FS_RemoveElement
<1> QED
  BY <1>1, <1>2, <1>3 DEF NoLostWakeup, Lookers

\* A job is enqueued; the listener is about to wake a thread for it.
LEMMA AcceptWakeup ==
  ASSUME ServerInv, NoLostWakeup, NEW c \in Connection, Accept(c)
  PROVE  NoLostWakeup'
<1>1. /\ state \in [Thread -> States] /\ Len(jobs) \in Nat /\ Len(jobs') = Len(jobs) + 1
      /\ listener = "accept" /\ listener' = "notify"
  BY DEF ServerInv, PoolInv, PoolTypeOK, Accept, Enqueue
<1>2. Lookers \subseteq Lookers' /\ WaitingThreads' \subseteq WaitingThreads
  <2>1. CASE state' = state
    BY <2>1 DEF Lookers, Looks, WaitingThreads
  <2>2. CASE state' # state
    <3>1. PICK t \in Dynamic :
            /\ Joined(finishedThreads)[t] = "none"
            /\ state' = [Joined(finishedThreads) EXCEPT ![t] = "ready"]
      BY <2>2 DEF Accept, Enqueue
    <3>2. \A u \in Thread : \/ state'[u] = state[u]
                            \/ state[u] \in {"none", "exited"} /\ state'[u] \in {"none", "ready"}
      BY <3>1 DEF Joined, Thread, ServerInv, PoolInv, ShapeInv
    <3> QED
      BY <3>2 DEF Lookers, Looks, WaitingThreads
  <2> QED
    BY <2>1, <2>2
<1>3. /\ Cardinality(Lookers) <= Cardinality(Lookers')
      /\ Cardinality(Lookers) \in Nat /\ Cardinality(Lookers') \in Nat
  <2>1. Lookers' \in SUBSET Thread
    BY DEF Lookers
  <2> QED
    BY <1>2, <2>1, ThreadsFinite, FS_Subset
<1> QED
  BY <1>1, <1>2, <1>3 DEF NoLostWakeup, Lookers

\* The thread that is woken is one more that looks.
LEMMA NotifyWakeup ==
  ASSUME ServerInv, NoLostWakeup, Notify
  PROVE  NoLostWakeup'
<1> USE DEF Notify, NotifyOne
<1>1. state \in [Thread -> States] /\ Len(jobs) \in Nat
  BY DEF ServerInv, PoolInv, PoolTypeOK
<1>2. CASE WaitingThreads = {}
  BY <1>2 DEF NoLostWakeup, WaitingThreads
<1>3. CASE WaitingThreads # {}
  <2>1. PICK t \in WaitingThreads : state' = [state EXCEPT ![t] = "woken"]
    BY <1>3
  <2>2. Lookers' = Lookers \cup {t} /\ t \notin Lookers /\ Lookers \in SUBSET Thread
    BY <1>1, <2>1 DEF Lookers, Looks, WaitingThreads
  <2>3. Cardinality(Lookers') = Cardinality(Lookers) + 1 /\ Cardinality(Lookers) \in Nat
    BY <2>2, ThreadsFinite, FS_AddElement
  <2> QED
    BY <1>1, <1>3, <2>3 DEF NoLostWakeup, Lookers
<1> QED
  BY <1>2, <1>3

\* No step loses a wake-up.
LEMMA WakeupNext == ServerInv /\ NoLostWakeup /\ [Next]_vars => NoLostWakeup'
<1> SUFFICES ASSUME ServerInv, NoLostWakeup, [Next]_vars PROVE NoLostWakeup'
  OBVIOUS
<1>1. state \in [Thread -> States]
  BY DEF ServerInv, PoolInv, PoolTypeOK
<1>2. ASSUME UNCHANGED <<state, jobs>>, listener # "notify" PROVE NoLostWakeup'
  <2>1. Lookers' = Lookers /\ WaitingThreads' = WaitingThreads
    BY <1>2 DEF Lookers, Looks, WaitingThreads
  <2> QED
    BY <1>2, <2>1, WakeupsStay
<1>3. ASSUME UNCHANGED <<state, jobs, listener>> PROVE NoLostWakeup'
  <2>1. Lookers' = Lookers /\ WaitingThreads' = WaitingThreads
    BY <1>3 DEF Lookers, Looks, WaitingThreads
  <2> QED
    BY <1>3, <2>1, WakeupsStay
<1>4. ASSUME Shutdown PROVE NoLostWakeup'
  <2>1. jobs' = jobs /\ listener # "notify"
    BY <1>4 DEF Shutdown, NotifyAll, JoinBase, JoinDynamic
  <2>2. \A t \in Thread : \/ state'[t] = state[t]
                          \/ state[t] \in {"waiting", "exited"} /\ state'[t] \in {"woken", "none"}
    BY <1>1, <1>4 DEF Shutdown, NotifyAll, JoinBase, JoinDynamic, Join, Joined, Exited,
                      WaitingThreads
  <2>3. Lookers \subseteq Lookers' /\ WaitingThreads' \subseteq WaitingThreads
    BY <2>2 DEF Lookers, Looks, WaitingThreads
  <2> QED
    BY <2>1, <2>3, WakeupsStay
<1>5. ASSUME NEW t \in Thread, PoolStep(t) PROVE NoLostWakeup'
  <2>1. CASE Wait(t) \/ Quit(t)
    <3>1. jobs' = <<>>
      BY <2>1 DEF Wait, Quit, HasWork, Quits
    <3>2. Cardinality({u \in Thread : Looks(u)})' \in Nat /\ Len(jobs') = 0
      BY <3>1, ThreadsFinite
    <3> QED
      BY <3>2 DEF NoLostWakeup
  <2>2. CASE TimeOut(t)
    <3>1. Lookers \subseteq Lookers' /\ WaitingThreads' \subseteq WaitingThreads
      BY <1>1, <2>2 DEF TimeOut, Lookers, Looks, WaitingThreads
    <3> QED
      BY <1>5, <2>2, <3>1, WakeupsStay DEF TimeOut, PoolStep
  <2> QED
    BY <1>5, <2>1, <2>2 DEF PoolStep
<1>6. ASSUME NEW t \in Thread, Close(t) PROVE NoLostWakeup'
  <2>1. state[t] = "running"
    BY <1>6 DEF Close, ServerInv, ServingInv, PoolInv, ShapeInv
  <2>2. Lookers \subseteq Lookers' /\ WaitingThreads' \subseteq WaitingThreads
    BY <1>1, <1>6, <2>1 DEF Close, EndJob, Lookers, Looks, WaitingThreads
  <2> QED
    BY <1>6, <2>2, WakeupsStay DEF Close, EndJob
<1>7. ASSUME NEW t \in Thread, KeepAlive(t) \/ Answer(t) \/ Fails(t) PROVE NoLostWakeup'
  BY <1>3, <1>7 DEF KeepAlive, Answer, Fails, poolVars
<1>8. ASSUME NEW t \in Thread, TakeConnection(t) PROVE NoLostWakeup'
  BY <1>8, TakeWakeup DEF TakeConnection
<1>9. ASSUME AcceptFails PROVE NoLostWakeup'
  BY <1>2, <1>9 DEF AcceptFails, SetShutdown
<1>10. ASSUME UNCHANGED vars PROVE NoLostWakeup'
  BY <1>3, <1>10 DEF vars, poolVars
<1> QED
  BY <1>4, <1>5, <1>6, <1>7, <1>8, <1>9, <1>10, AcceptWakeup, NotifyWakeup DEF Next

-----------------------------------------------------------------------------
(* The theorems.                                                           *)

\* The server's invariant holds throughout.
LEMMA ServerAlways == Spec => []ServerInv
BY ServerInit, ServerNext, PTL DEF Spec

\* Every variable of the pool and of the server keeps its type.
THEOREM TypeCorrect == Spec => []TypeOK
<1>1. ServerInv => TypeOK
  BY DEF ServerInv, PoolInv, ListenerInv, ServingInv, TypeOK
<1> QED
  BY <1>1, ServerAlways, PTL

\* idle_thread_count_ counts the threads in cond_.wait (httplib.h:10057).
THEOREM IdleCountIsRight == Spec => []IdleCountAgrees
<1>1. ServerInv => IdleCountAgrees
  BY DEF ServerInv, PoolInv
<1> QED
  BY <1>1, ServerAlways, PTL

\* There are never more than max_thread_count_ threads, joined or not.
THEOREM ThreadsStayBounded == Spec => []ThreadsAreBounded
<1>1. ServerInv => ThreadsAreBounded
  BY DEF ServerInv, PoolInv
<1> QED
  BY <1>1, ServerAlways, PTL

\* No job stays in the queue for want of a wake-up while threads sleep.
THEOREM WakeupsAreNotLost == Spec => []NoLostWakeup
<1>1. Init => NoLostWakeup
  BY NoWakeupNeeded DEF Init, PoolInit
<1> QED
  BY <1>1, WakeupNext, ServerAlways, PTL DEF Spec

\* An open connection is in one place, a closed one in none.
THEOREM OneOwner == Spec => []OpenSocketsHaveOneOwner
<1>1. ServerInv => OpenSocketsHaveOneOwner
  <2> SUFFICES ASSUME ServerInv, NEW c \in Connection
               PROVE  Cardinality(Servers(c)) + Cardinality(Places(c)) =
                        IF socket[c] = "open" THEN 1 ELSE 0
    BY DEF OpenSocketsHaveOneOwner
  <2> USE DEF ServerInv
  <2>1. c # NoJob
    BY PoolAssumption DEF Connection
  <2>2. \A x : Cardinality({x}) = 1
    BY FS_Singleton
  <2>3. Cardinality({}) = 0
    BY FS_EmptySet
  <2>4. ASSUME NEW t \in Thread, running[t] = c
        PROVE  Servers(c) = {t} /\ Places(c) = {} /\ socket[c] = "open"
    BY <2>1, <2>4 DEF OwnerInv, Servers, Places
  <2>5. ASSUME NEW n \in DOMAIN jobs, jobs[n] = c
        PROVE  Servers(c) = {} /\ Places(c) = {n} /\ socket[c] = "open"
    BY <2>5 DEF OwnerInv, Servers, Places
  <2>6. ASSUME ~\E t \in Thread : running[t] = c, ~\E n \in DOMAIN jobs : jobs[n] = c
        PROVE  Servers(c) = {} /\ Places(c) = {} /\ socket[c] # "open"
    BY <2>6 DEF OwnerInv, Servers, Places
  <2>7. CASE \E t \in Thread : running[t] = c
    BY <2>2, <2>3, <2>4, <2>7
  <2>8. CASE \E n \in DOMAIN jobs : jobs[n] = c
    BY <2>2, <2>3, <2>5, <2>8
  <2>9. CASE ~(\E t \in Thread : running[t] = c) /\ ~(\E n \in DOMAIN jobs : jobs[n] = c)
    BY <2>3, <2>6, <2>9
  <2> QED
    BY <2>7, <2>8, <2>9
<1> QED
  BY <1>1, ServerAlways, PTL

\* When listen returns every accepted connection was served and closed.
THEOREM NothingIsLeft == Spec => []NothingIsLeftBehind
<1>1. ServerInv => NothingIsLeftBehind
  <2> SUFFICES ASSUME ServerInv, listener = "returned"
               PROVE  /\ \A t \in Thread : state[t] = "none"
                      /\ jobs = <<>> /\ \A c \in Connection : socket[c] # "open"
    BY DEF NothingIsLeftBehind
  <2> USE DEF ServerInv
  <2>1. \A t \in Thread : state[t] = "none"
    BY DEF ListenerInv, Thread
  <2>2. jobs = <<>>
    BY <2>1, PoolAssumption DEF PoolInv, ShapeInv, Thread
  <2>3. \A t \in Thread : running[t] = NoJob
    BY <2>1 DEF PoolInv, ShapeInv
  <2>4. \A c \in Connection : socket[c] # "open"
    BY <2>2, <2>3, PoolAssumption DEF OwnerInv, Connection
  <2> QED
    BY <2>1, <2>2, <2>4
<1> QED
  BY <1>1, ServerAlways, PTL

\* A connection whose requests are used up was told so.
THEOREM CloseWasAnnounced == Spec => []CloseIsAnnounced
<1>1. ServerInv => CloseIsAnnounced
  BY DEF ServerInv, ServingInv
<1> QED
  BY <1>1, ServerAlways, PTL
=============================================================================
