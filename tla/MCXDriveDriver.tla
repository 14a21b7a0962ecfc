---------------------------- MODULE MCXDriveDriver ----------------------------
(* Two wheels, standing still and two drive commands.                        *)
EXTENDS XDriveDriver

MCDemands == {<<0, 0>>, <<7, -7>>, <<-4, 3>>}
=============================================================================
