----------------------------- MODULE HttpServer -----------------------------
(***************************************************************************)
(* The HTTP server the packager runs in (httplib's Server): the thread in  *)
(* listen accepts connections and enqueues them in a ThreadPool, whose     *)
(* threads read one request after another from a connection, answer them   *)
(* and close it. The handlers of server.cpp run inside Answer; what they   *)
(* do is in PackagerServer, whose workers are these threads.               *)
(***************************************************************************)
EXTENDS ThreadPool

CONSTANTS
  Hanging,      \* connections whose requests are never answered: a read of the
                \* file server has no timeout (HttpReader)
  KeepAliveMax  \* keep_alive_max_count_

\* Requests, as process_request treats them: "plain" ones; with "Connection:
\* close"; HTTP/1.0 without "Keep-Alive"; with a body that cannot be drained;
\* those that a handler answers with an error, or no handler, or that do not
\* parse; and those refused for a header. (A handler that throws is an error.)
Request == {"plain", "last", "old", "undrained", "error", "refused"}

Connection == Job

ASSUME ServerAssumption ==
  Hanging \subseteq Connection /\ KeepAliveMax \in Nat \ {0}

VARIABLES
  listener,  \* where listen_internal is
  socket,    \* of each connection, as the server has it
  step,      \* where a thread is in process_and_close_socket
  count,     \* count of process_server_socket_core
  told       \* history: what a thread is about to close was told so

serverVars == <<socket, step, count, told>>
vars == <<poolVars, listener, serverVars>>

Init ==
  /\ PoolInit
  /\ listener = "accept"
  /\ socket = [c \in Connection |-> "none"]
  /\ step = [t \in Thread |-> "none"]
  /\ count = [t \in Thread |-> 0]
  /\ told = [t \in Thread |-> FALSE]

-----------------------------------------------------------------------------
(* listen_internal.                                                        *)

Accept(c) ==
  /\ listener = "accept" /\ socket[c] = "none"
  /\ Enqueue(c)
  /\ listener' = "notify"
  /\ socket' = [socket EXCEPT ![c] = "open"]
  /\ UNCHANGED <<step, count, told>>

Notify ==
  /\ listener = "notify" /\ NotifyOne
  /\ listener' = "accept"
  /\ UNCHANGED serverVars

\* accept fails for another reason than a limit or a signal: the loop ends.
AcceptFails ==
  /\ listener = "accept" /\ SetShutdown
  /\ listener' = "notify_all"
  /\ UNCHANGED serverVars

\* The rest of shutdown.
Shutdown ==
  /\ \/ listener = "notify_all" /\ NotifyAll /\ listener' = "join_base"
     \/ listener = "join_base" /\ JoinBase /\ listener' = "join_dynamic"
     \/ listener = "join_dynamic" /\ JoinDynamic /\ listener' = "returned"
  /\ UNCHANGED serverVars

-----------------------------------------------------------------------------
(* process_and_close_socket, on a thread of the pool.                      *)

TakeConnection(t) ==
  /\ Take(t)
  /\ step' = [step EXCEPT ![t] = "keep_alive"]
  /\ count' = [count EXCEPT ![t] = KeepAliveMax]
  /\ UNCHANGED <<listener, socket, told>>

\* keep_alive: the client has sent something, or closed its end, or neither in
\* its time.
KeepAlive(t) ==
  /\ step[t] = "keep_alive"
  /\ \E next \in {"request", "close"} : step' = [step EXCEPT ![t] = next]
  /\ UNCHANGED <<poolVars, listener, socket, count, told>>

\* Mutant of IsLast: off by one.
IsLast_AtZero(t) == count[t] = 0

\* close_connection.
IsLast(t) == count[t] = 1

\* The header that write_response_core adds.
SaysClose(t, r) == IsLast(t) \/ r \in {"last", "error", "refused"}

\* connection_closed, as process_request leaves it.
ConnectionClosed(r) == r \in {"last", "old", "undrained", "refused"}

\* process_request has read a request and answers it.
Answer(t) ==
  /\ step[t] = "request"
  /\ \E r \in Request :
       LET left == IF ConnectionClosed(r) THEN count[t] ELSE count[t] - 1
           ends == ConnectionClosed(r) \/ left = 0
       IN  /\ count' = [count EXCEPT ![t] = left]
           /\ step' = [step EXCEPT ![t] = IF ends THEN "close" ELSE "keep_alive"]
           /\ told' = [told EXCEPT ![t] = ends /\ SaysClose(t, r)]
  /\ UNCHANGED <<poolVars, listener, socket>>

\* process_request returns false: the client has closed its end, and there is no
\* request line, or the answer cannot be written.
Fails(t) ==
  /\ step[t] = "request"
  /\ step' = [step EXCEPT ![t] = "close"]
  /\ UNCHANGED <<poolVars, listener, socket, count, told>>

\* The socket is closed, and the locals are gone.
Close(t) ==
  /\ step[t] = "close" /\ EndJob(t)
  /\ socket' = [socket EXCEPT ![running[t]] = "closed"]
  /\ step' = [step EXCEPT ![t] = "none"] /\ count' = [count EXCEPT ![t] = 0]
  /\ told' = [told EXCEPT ![t] = FALSE]
  /\ UNCHANGED listener

-----------------------------------------------------------------------------

PoolStep(t) ==
  /\ Wait(t) \/ Quit(t) \/ TimeOut(t)
  /\ UNCHANGED <<listener, serverVars>>

Next ==
  \/ \E c \in Connection : Accept(c)
  \/ Notify \/ AcceptFails \/ Shutdown
  \/ \E t \in Thread :
       PoolStep(t) \/ TakeConnection(t) \/ KeepAlive(t) \/ Answer(t) \/ Fails(t) \/ Close(t)

Spec == Init /\ [][Next]_vars

\* A request is answered in the end, unless its handler hangs.
EndsInTime(t) == running[t] \notin Hanging /\ (Answer(t) \/ Fails(t))

Fairness ==
  /\ WF_vars(Notify) /\ WF_vars(Shutdown)
  /\ \A t \in Thread :
       /\ WF_vars(PoolStep(t)) /\ WF_vars(TakeConnection(t))
       /\ WF_vars(KeepAlive(t)) /\ WF_vars(EndsInTime(t))
       /\ WF_vars(Close(t))

FairSpec == Spec /\ Fairness

-----------------------------------------------------------------------------
(* Properties.                                                             *)

TypeOK ==
  /\ PoolTypeOK
  /\ listener \in {"accept", "notify", "notify_all", "join_base", "join_dynamic", "returned"}
  /\ socket \in [Connection -> {"none", "open", "closed"}]
  /\ step \in [Thread -> {"none", "keep_alive", "request", "close"}]
  /\ count \in [Thread -> 0 .. KeepAliveMax] /\ told \in [Thread -> BOOLEAN]

\* No wake-up is lost: while a thread waits there are no more jobs than threads
\* that are about to look for one, counting the one the listener is about to
\* wake. (Timeouts, wakings in vain and threads that take a job on their way
\* past make this hard to see in worker.)
NoLostWakeup ==
  WaitingThreads # {} =>
    Len(jobs) <= Cardinality({t \in Thread : Looks(t)})
                   + (IF listener = "notify" THEN 1 ELSE 0)

Servers(c) == {t \in Thread : running[t] = c}
Places(c)  == {n \in DOMAIN jobs : jobs[n] = c}

\* An open connection is in the queue or with a thread, in one place only, and a
\* closed one in none: no socket is read by two threads, none is closed twice,
\* and none is forgotten.
OpenSocketsHaveOneOwner ==
  \A c \in Connection :
    Cardinality(Servers(c)) + Cardinality(Places(c)) =
      IF socket[c] = "open" THEN 1 ELSE 0

\* When listen returns, whatever it took out of the backlog has been served and
\* closed, and no thread is left.
NothingIsLeftBehind ==
  listener = "returned" =>
    /\ \A t \in Thread : state[t] = "none"
    /\ jobs = <<>> /\ \A c \in Connection : socket[c] # "open"

\* A client that uses up the requests of a connection is told so before the
\* server closes it ("Connection: close"), and need not send the next one into
\* a socket that is being closed: the count in process_server_socket_core
\* and the header that write_response_core adds agree.
CloseIsAnnounced ==
  \A t \in Thread : step[t] = "close" /\ count[t] = 0 => told[t]

\* Where fewer handlers hang than there are base threads, every other
\* connection that is accepted is served and closed.
OthersAreServed ==
  \A c \in Connection \ Hanging : socket[c] = "open" ~> socket[c] = "closed"
=============================================================================
