---------------------------- MODULE MCVirtualEdge ----------------------------
(***************************************************************************)
(* One scenario whose fault begins while the machine still starts, and one *)
(* that falls silent.                                                      *)
(***************************************************************************)
EXTENDS VirtualEdge

MCScenarios ==
    { Scenario("step", 0, "TRIP_OVERCURRENT", 1, 9),
      Scenario("offline", 9, None, 0, 2) }
=============================================================================
