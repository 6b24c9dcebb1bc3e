---------------------------- MODULE SegmentService ----------------------------
(***************************************************************************)
(* What the packager promises its clients, without locks, threads, demuxer *)
(* or time: a session holds, per segment, at most one body. A client that  *)
(* asks is told of a failure, or is served the body the session holds, or  *)
(* has one made where there is none. A body that is held is never          *)
(* replaced; it may only go to make room for a later one.                  *)
(***************************************************************************)
EXTENDS Naturals, FiniteSets

CONSTANTS Client, Session, Segment, Body, Absent,
          Room        \* bodies a session may hold before it drops some

VARIABLES
  asked,      \* what each client waits for
  told,       \* what each client was answered last
  described,  \* the sessions whose init segment, with its video, is made
  held        \* per session: the body of each segment

vars == <<asked, told, described, held>>

\* What a client asks for that does not ask.
NoRequest == [kind |-> "none", sid |-> 0, seg |-> 0]

Failure == {"404", "500", "503"}

Init ==
  /\ asked = [c \in Client |-> NoRequest]
  /\ told = [c \in Client |-> "none"]
  /\ described = {}
  /\ held = [s \in Session |-> [i \in Segment |-> Absent]]

Answered(c, a) ==
  /\ asked' = [asked EXCEPT ![c] = NoRequest]
  /\ told' = [told EXCEPT ![c] = a]

Ask(c) ==
  /\ asked[c] = NoRequest
  /\ \E k \in {"manifest", "init", "segment"}, s \in Session, i \in Segment :
       asked' = [asked EXCEPT ![c] = [kind |-> k, sid |-> s, seg |-> i]]
  /\ told' = [told EXCEPT ![c] = "none"]
  /\ UNCHANGED <<described, held>>

\* A request fails; one that names no session at once.
Fail(c) ==
  /\ \E a \in Failure : Answered(c, a)
  /\ UNCHANGED <<described, held>>

\* A manifest, or the init segment of a session that has it.
Confirm(c) ==
  /\ asked[c] # NoRequest
  /\ \/ asked[c].kind = "manifest"
     \/ asked[c].kind = "init" /\ asked[c].sid \in described'
  /\ described \subseteq described'
  /\ Answered(c, "ok")
  /\ UNCHANGED held

\* The init segment of a session is made on behalf of a request for a segment.
Describe ==
  /\ described \subseteq described'
  /\ UNCHANGED <<asked, told, held>>

\* A segment is served as it is held.
Serve(c) ==
  /\ asked[c] # NoRequest /\ asked[c].kind = "segment"
  /\ asked[c].sid \in described
  /\ held[asked[c].sid][asked[c].seg] # Absent
  /\ Answered(c, held[asked[c].sid][asked[c].seg])
  /\ UNCHANGED <<described, held>>

\* What old turns into when segment i is added: only segments before i go, the
\* lowest first, and only when there is no room for all.
Added(old, i, body, new) ==
  /\ old[i] = Absent /\ new[i] = body
  /\ LET has  == {j \in Segment : old[j] # Absent}
         gone == {j \in has : new[j] = Absent}
     IN  /\ \A j \in Segment \ (gone \cup {i}) : new[j] = old[j]
         /\ \A j \in gone : /\ j < i
                            /\ \A k \in has \ gone : j < k
         /\ gone # {} => Cardinality(has \cup {i}) > Room

\* A segment that is not held is made, held and served.
Make(c) ==
  /\ asked[c] # NoRequest /\ asked[c].kind = "segment"
  /\ asked[c].sid \in described
  /\ \E body \in Body :
       /\ Added(held[asked[c].sid], asked[c].seg, body, held'[asked[c].sid])
       /\ Answered(c, body)
  /\ \A s \in Session \ {asked[c].sid} : held'[s] = held[s]
  /\ UNCHANGED described

Next ==
  \/ \E c \in Client : Ask(c) \/ Fail(c) \/ Confirm(c) \/ Serve(c) \/ Make(c)
  \/ Describe

Spec == Init /\ [][Next]_vars
=============================================================================
