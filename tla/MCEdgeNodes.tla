----------------------------- MODULE MCEdgeNodes -----------------------------
(* Two pads, two teleops of different kinds, one joint that mirrors the     *)
(* other with a range that starts at zero, two peers; vidar with a camera   *)
(* whose colours are swapped and one without, skadi with one whose swap     *)
(* only its sensor tells; a package that moves to another group and one     *)
(* that appears later.                                                      *)
EXTENDS EdgeNodes, TLC

CONSTANTS holo, diff, arm, turret, vidar, skadi, nav, arms

MCKind == holo :> "holonomic" @@ diff :> "differential"
MCPoses ==
  {AtRest,
   [fwd |-> 1, side |-> 1, yaw |-> 0, button |-> TRUE],
   [fwd |-> 1, side |-> 0, yaw |-> 1, button |-> FALSE]}
MCLow == arm :> -2 @@ turret :> 0
MCHigh == arm :> 1 @@ turret :> 3
MCRate == arm :> -1 @@ turret :> 2
MCGrips == {Released} \cup [axis : {-1, 1}, home : BOOLEAN, spin : {FALSE}]
                      \cup [axis : {0}, home : BOOLEAN, spin : {TRUE}]

MCHostVars ==
  vidar :> <<[key |-> "namespace", value |-> "camera0"], [key |-> "swap_rb", value |-> "true"],
             [key |-> "namespace", value |-> "camera1"], [key |-> "sensor", value |-> "imx296"],
             [key |-> "swap_rb", value |-> "false"]>>
  @@ skadi :> <<[key |-> "namespace", value |-> "camera0"], [key |-> "sensor", value |-> "imx296"]>>
MCDomain ==
  [host : {vidar, skadi}, ns : {"camera0"}, kind : {"image_raw", "image_color"}]
    \cup {[host |-> vidar, ns |-> "camera1", kind |-> "image_raw"]}
MCManifest == nav :> <<"here", "elsewhere">> @@ arms :> <<"absent", "invalid", "here">>
=============================================================================
