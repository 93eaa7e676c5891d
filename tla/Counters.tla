------------------------------ MODULE Counters ------------------------------
(***************************************************************************)
(* The free-running u32 positions of both rings.  A position is never      *)
(* reduced when it is stored: it counts up, wraps at 2^32, and only the    *)
(* difference of two positions and the slot of one position are used.  The *)
(* width 2^32 is the constant Modulus; both operations are written with a  *)
(* single conditional subtraction, which is what wrapping addition of two  *)
(* words is, and keeps them in linear arithmetic.                          *)
(***************************************************************************)
EXTENDS Integers

CONSTANT Modulus    \* 2^32 in the code: the width of a ring position

ASSUME ModulusAssumption == Modulus \in Nat \ {0}

Counter == 0 .. Modulus - 1

\* a + n and a - b in u32 arithmetic, for n below the width.
Add(a, n) == IF a + n >= Modulus THEN a + n - Modulus ELSE a + n
Sub(a, b) == IF a >= b THEN a - b ELSE a - b + Modulus
=============================================================================
