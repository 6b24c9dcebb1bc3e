---------------------------- MODULE MCHttpServer ----------------------------
(* HttpServer with two base threads and room for one more.                 *)
EXTENDS HttpServer

CONSTANTS b1, b2, d1, d2, c1, c2, c3

MCBase == {b1, b2}

\* One more than there is room for, so that a pool that grows too far shows.
MCDynamic == {d1, d2}

Connections == {c1, c2, c3}
OneHangs == {c1}
=============================================================================
