---------------------------- MODULE MCPunctuality ----------------------------
(* One early and two late launch times, the late ones closer to each other    *)
(* than a correction asks for; a hold and two ways to be vague.  The early    *)
(* one can spend both countdown kinds before the launch slips.                *)
EXTENDS Punctuality

Says(launchTime, precision, status) ==
  [launchTime |-> launchTime, precision |-> precision, status |-> status]
Source == {Says(6, "precise", "go"), Says(12, "precise", "go"), Says(13, "precise", "go"),
           Says(13, "precise", "no_go"), Says(13, "imprecise", "go"),
           Says(NoTime, "unknown", "go")}
=============================================================================
