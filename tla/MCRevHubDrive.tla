---------------------------- MODULE MCRevHubDrive ----------------------------
(* One wheel on one calibration port, one motion besides rest.              *)
EXTENDS RevHubDrive, TLC

CONSTANTS m0, m1, p1

MCMix == (m0 :> <<0>>) @@ (m1 :> <<-5>>)
MCCal == (p1 :> <<2>>)
=============================================================================
