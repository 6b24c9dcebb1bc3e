----------------------------- MODULE ThreadPool -----------------------------
(***************************************************************************)
(* httplib's ThreadPool: base threads that live as long as the pool,       *)
(* dynamic threads that are added when a job finds nobody idle and leave   *)
(* when they have been idle for three seconds, and the queue of jobs.      *)
(* What happens between taking mutex_ and letting go of it, or waiting, is *)
(* one action.                                                             *)
(***************************************************************************)
EXTENDS Integers, Sequences, FiniteSets

CONSTANTS
  Base,        \* the base threads
  Dynamic,     \* bound: dynamic threads that exist at a time
  MaxThreads,  \* max_thread_count_
  Job,         \* what is enqueued
  NoJob

ASSUME PoolAssumption ==
  /\ IsFiniteSet(Base) /\ Base # {}
  /\ IsFiniteSet(Dynamic) /\ Base \cap Dynamic = {}
  /\ MaxThreads \in Nat /\ Cardinality(Base) <= MaxThreads
  /\ NoJob \notin Job

VARIABLES
  state,           \* where each thread is: see States
  running,         \* the job each thread runs
  jobs,            \* jobs_
  idle,            \* idle_thread_count_
  shutdown,        \* shutdown_
  dynamicThreads,  \* dynamic_threads_
  finishedThreads  \* finished_threads_

poolVars ==
  <<state, running, jobs, idle, shutdown, dynamicThreads, finishedThreads>>

Thread == Base \cup Dynamic

\* A thread that is "ready" is about to lock mutex_; one that is "waiting" is in
\* cond_.wait, and "woken" on its way out of it; one that is "exited" is not
\* yet joined. ("none" is no thread.)
States == {"none", "ready", "waiting", "woken", "running", "exited"}

PoolInit ==
  /\ state = [t \in Thread |-> IF t \in Base THEN "ready" ELSE "none"]
  /\ running = [t \in Thread |-> NoJob]
  /\ jobs = <<>> /\ idle = 0 /\ shutdown = FALSE
  /\ dynamicThreads = {} /\ finishedThreads = {}

-----------------------------------------------------------------------------
(* worker.                                                                 *)

\* Mutant of HasWork: what waits for shutdown only.
HasWork_OnlyShutdown == shutdown

\* What worker waits for.
HasWork == jobs # <<>> \/ shutdown

\* The threads that hold mutex_ in turn to look whether there is work.
Looks(t) == state[t] \in {"ready", "woken"}

\* Mutant of IdleWhenGone: the count stays.
IdleWhenGone_Stays(t) == idle

\* idle_thread_count_ once t is not idle: it was counted if it had waited.
IdleWhenGone(t) == IF state[t] = "ready" THEN idle ELSE idle - 1

Wait(t) ==
  /\ Looks(t) /\ ~HasWork
  /\ state' = [state EXCEPT ![t] = "waiting"]
  /\ idle' = IdleWhenGone(t) + 1
  /\ UNCHANGED <<running, jobs, shutdown, dynamicThreads, finishedThreads>>

\* Mutant of Remaining: the job is copied, not moved.
Remaining_Copied == jobs

\* pop_front.
Remaining == Tail(jobs)

Take(t) ==
  /\ Looks(t) /\ jobs # <<>>
  /\ state' = [state EXCEPT ![t] = "running"]
  /\ running' = [running EXCEPT ![t] = Head(jobs)]
  /\ jobs' = Remaining
  /\ idle' = IdleWhenGone(t)
  /\ UNCHANGED <<shutdown, dynamicThreads, finishedThreads>>

\* Mutant of Quits: the queue is left as it is.
Quits_AtOnce == shutdown

Quits == shutdown /\ jobs = <<>>

Quit(t) ==
  /\ Looks(t) /\ Quits
  /\ state' = [state EXCEPT ![t] = "exited"]
  /\ idle' = IdleWhenGone(t)
  /\ UNCHANGED <<running, jobs, shutdown, dynamicThreads, finishedThreads>>

\* wait_for ends after the idle timeout, and looks a last time.
TimeOut(t) ==
  /\ t \in Dynamic /\ state[t] = "waiting"
  /\ IF HasWork
     THEN /\ state' = [state EXCEPT ![t] = "woken"]
          /\ UNCHANGED <<idle, dynamicThreads, finishedThreads>>
     ELSE /\ state' = [state EXCEPT ![t] = "exited"]
          /\ idle' = IdleWhenGone(t)
          /\ dynamicThreads' = dynamicThreads \ {t}
          /\ finishedThreads' = finishedThreads \cup ({t} \cap dynamicThreads)
  /\ UNCHANGED <<running, jobs, shutdown>>

\* fn returns.
EndJob(t) ==
  /\ state' = [state EXCEPT ![t] = "ready"]
  /\ running' = [running EXCEPT ![t] = NoJob]
  /\ UNCHANGED <<jobs, idle, shutdown, dynamicThreads, finishedThreads>>

-----------------------------------------------------------------------------
(* enqueue and shutdown, which only the thread in listen calls.            *)

\* Mutant of Grows: off by one.
Grows_OneMore == idle = 0 /\ Cardinality(Base \cup dynamicThreads) <= MaxThreads

Grows == idle = 0 /\ Cardinality(Base \cup dynamicThreads) < MaxThreads

\* cleanup_finished_threads: they have nothing more to do than to return.
Joined(ts) == [t \in Thread |-> IF t \in ts THEN "none" ELSE state[t]]

\* enqueue up to the notification. (It refuses nothing: max_queued_requests_ is
\* 0, and nobody enqueues after the shutdown.)
Enqueue(job) ==
  /\ jobs' = Append(jobs, job)
  /\ IF Grows
     THEN \E t \in Dynamic :
            /\ Joined(finishedThreads)[t] = "none"
            /\ state' = [Joined(finishedThreads) EXCEPT ![t] = "ready"]
            /\ dynamicThreads' = dynamicThreads \cup {t}
            /\ finishedThreads' = {}
     ELSE UNCHANGED <<state, dynamicThreads, finishedThreads>>
  /\ UNCHANGED <<running, idle, shutdown>>

WaitingThreads == {t \in Thread : state[t] = "waiting"}

\* Mutant of NotifyOne: a thread is woken for the first job in the queue only.
NotifyOne_WhenWasEmpty ==
  /\ IF WaitingThreads = {} \/ Len(jobs) > 1
     THEN UNCHANGED state
     ELSE \E t \in WaitingThreads : state' = [state EXCEPT ![t] = "woken"]
  /\ UNCHANGED <<running, jobs, idle, shutdown, dynamicThreads, finishedThreads>>

\* cond_.notify_one().
NotifyOne ==
  /\ IF WaitingThreads = {}
     THEN UNCHANGED state
     ELSE \E t \in WaitingThreads : state' = [state EXCEPT ![t] = "woken"]
  /\ UNCHANGED <<running, jobs, idle, shutdown, dynamicThreads, finishedThreads>>

SetShutdown ==
  /\ shutdown' = TRUE
  /\ UNCHANGED <<state, running, jobs, idle, dynamicThreads, finishedThreads>>

NotifyAll ==
  /\ state' = [t \in Thread |-> IF t \in WaitingThreads THEN "woken" ELSE state[t]]
  /\ UNCHANGED <<running, jobs, idle, shutdown, dynamicThreads, finishedThreads>>

Exited(ts) == \A t \in ts : state[t] = "exited"

\* join, for each of the threads.
Join(ts) == Exited(ts) /\ state' = Joined(ts)

JoinBase ==
  /\ Join(Base)
  /\ UNCHANGED <<running, jobs, idle, shutdown, dynamicThreads, finishedThreads>>

\* remaining_dynamic and the finished threads.
JoinDynamic ==
  /\ Join(dynamicThreads \cup finishedThreads)
  /\ dynamicThreads' = {} /\ finishedThreads' = {}
  /\ UNCHANGED <<running, jobs, idle, shutdown>>

-----------------------------------------------------------------------------
(* Properties.                                                             *)

PoolTypeOK ==
  /\ state \in [Thread -> States] /\ running \in [Thread -> Job \cup {NoJob}]
  /\ jobs \in Seq(Job) /\ idle \in Nat /\ shutdown \in BOOLEAN
  /\ dynamicThreads \subseteq Dynamic /\ finishedThreads \subseteq Dynamic

\* idle_thread_count_, on which it depends whether a thread is added, counts the
\* threads in cond_.wait: neither timeouts nor wakings in vain throw it off.
IdleCountAgrees ==
  idle = Cardinality({t \in Thread : state[t] \in {"waiting", "woken"}})

\* Dynamic threads come and go, but base threads, the dynamic ones and those
\* that have left and are not joined are never more than max_thread_count_
\* together; each is in one of the lists.
ThreadsAreBounded ==
  /\ Cardinality(Base) + Cardinality({t \in Dynamic : state[t] # "none"}) <= MaxThreads
  /\ \A t \in Dynamic : state[t] # "none" <=> t \in dynamicThreads \cup finishedThreads
  /\ dynamicThreads \cap finishedThreads = {}
=============================================================================
