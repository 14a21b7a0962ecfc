---------------------------- MODULE MCSwerveChain ----------------------------
(* Two modules, angle unit 30 degrees.  `left' and `right' wind module a    *)
(* round and round; `right' turns about module b, which then stands still.  *)
EXTENDS SwerveChain, TLC

CONSTANTS a, b, rest, fwd, left, right

MCHeading ==
  (rest  :> (a :> 0 @@ b :> 0)) @@ (fwd   :> (a :> 1 @@ b :> -5)) @@
  (left  :> (a :> 3 @@ b :> -3)) @@ (right :> (a :> 5 @@ b :> 0))
MCSpeed ==
  (rest  :> (a :> 0 @@ b :> 0)) @@ (fwd   :> (a :> 1 @@ b :> 1)) @@
  (left  :> (a :> 1 @@ b :> 2)) @@ (right :> (a :> 2 @@ b :> 0))
=============================================================================
