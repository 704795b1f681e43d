----------------------------- MODULE MCEdgeLink -----------------------------
(***************************************************************************)
(* A ring buffer of two, one sample flushed per tick and four samples told *)
(* apart: the buffer overflows, a backlog outlasts a flush, and a sample   *)
(* is overtaken by a live one.                                             *)
(***************************************************************************)
EXTENDS EdgeLink
=============================================================================
