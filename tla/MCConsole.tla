------------------------------- MODULE MCConsole -------------------------------
(***************************************************************************)
(* The two sides of a user's work that share no variable: what his page    *)
(* shows live, and what he does about alerts.  A behaviour takes one side. *)
(***************************************************************************)
EXTENDS LiveView, Operations

VARIABLE side

vars == <<liveVars, opsVars, side>>

Init == LiveInit /\ OpsInit /\ side \in {"live", "operations"}

Next ==
    /\ UNCHANGED side
    /\ \/ side = "live" /\ LiveNext /\ UNCHANGED opsVars
       \/ side = "operations" /\ OpsNext /\ UNCHANGED liveVars

Spec == Init /\ [][Next]_vars /\ (side = "live" => LiveFairness)
=============================================================================
