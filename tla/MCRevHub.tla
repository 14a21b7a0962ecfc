------------------------------ MODULE MCRevHub ------------------------------
(* Small instances of RevHub: two wheels, one demand that is not a multiple *)
(* of the quantum, its reverse, and standing still.                         *)
EXTENDS RevHub

MCDemands == {<<0, 0>>, <<7, -7>>, <<-4, 3>>}
=============================================================================
