---------------------------- MODULE WheelNumerics ----------------------------
(***************************************************************************)
(* The integer arithmetic both motor drivers share: Python's round() as it *)
(* is used to quantize a wheel command, and the per-tick slew limit.       *)
(* Everything here is a plain operator on Int, so that the proofs about    *)
(* the drivers can use it.                                                 *)
(***************************************************************************)
EXTENDS Integers

(* Magnitude of an integer. *)
Abs(x) == IF x < 0 THEN -x ELSE x

(* round(x / q) in Python 3: nearest integer, a tie goes to the even one.  *)
RoundDiv(x, q) ==
  LET f == x \div q
      r == x % q
  IN  IF 2 * r < q \/ (2 * r = q /\ f % 2 = 0) THEN f ELSE f + 1

(* int(round(x / q) * q) *)
Quantize(x, q) == RoundDiv(x, q) * q

(* Mutant of Clamp: only the upper side limited. *)
ClampAbove(d, s) == IF d > s THEN s ELSE d

(* max(-s, min(s, d)) *)
Clamp(d, s) == IF d > s THEN s ELSE IF d < -s THEN -s ELSE d

(* One slew-limited, quantized step from `from` towards `to`. *)
SlewStep(from, to, slew, q) == Quantize(from + Clamp(to - from, slew), q)
=============================================================================
