---------------------------- MODULE MCHttpReader ----------------------------
(* HttpReader on a file of five bytes and a buffer of two.                 *)
EXTENDS HttpReader

\* Every place in the file, its end, and one past it by more than a buffer.
AllOffsets == -1 .. 8
=============================================================================
