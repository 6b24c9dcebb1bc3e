-------------------------- MODULE MCPackagerServer --------------------------
(* PackagerServer on small instances.                                      *)
EXTENDS PackagerServer, TLC

\* Workers are interchangeable: used by the runs that check safety only.
WorkerSymmetry == Permutations(Worker)

\* Three boundaries are two segments, four are three.
Segments2 == 0 .. 1
Segments3 == 0 .. 2
Segments4 == 0 .. 3
=============================================================================
