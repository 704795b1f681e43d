---------------------------- MODULE MCIngestTwin ----------------------------
(***************************************************************************)
(* Two samples, and two messages queued behind the one handled: a sample   *)
(* is overtaken by the other, is delivered twice, or, when the edge has    *)
(* restarted in between, comes with the seq of the other.                  *)
(***************************************************************************)
EXTENDS IngestTwin
=============================================================================
