---------------------------- MODULE MCEdgeSafety ----------------------------
(***************************************************************************)
(* The commands EdgeSafety is checked with: every accepted one, and one    *)
(* that fails each check of EdgeCommandProcessor.process; or STOP and      *)
(* START alone.                                                            *)
(***************************************************************************)
EXTENDS EdgeSafety

Msg(form, command, target, scenario) ==
    [form |-> form, command |-> command, target |-> target, scenario |-> scenario]

MCCommands ==
    {Msg("json", c, "local", "") : c \in {"STOP", "START", "RESET"}}
    \cup {Msg("json", "SCENARIO", "", s) : s \in Scenarios}
    \cup {Msg(f, "START", "", "") : f \in {"empty", "forbidden", "no_braces", "parse_error"}}
    \cup {Msg("json", "", "local", ""), Msg("json", "STOP", "foreign", ""),
          Msg("json", "OTHER", "local", ""), Msg("json", "INJECT_FAULT", "", ""),
          Msg("json", "INJECT_FAULT", "local", "OTHER")}

MCStopStart == {Msg("json", c, "local", "") : c \in {"STOP", "START"}}
=============================================================================
