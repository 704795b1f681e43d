---------------------------- MODULE MCRingBuffer ----------------------------
(***************************************************************************)
(* RingBuffer on a three-slot array, small enough for the indices to wrap  *)
(* many times, with one length that fits a slot and one that is cut.       *)
(***************************************************************************)
EXTENDS RingBuffer

MCLengths == {1, MaxPayload}
============================================================================
