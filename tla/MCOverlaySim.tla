--------------------------- MODULE MCOverlaySim ---------------------------
(***************************************************************************)
(* Prices for OverlaySim: the intrinsic value and, before expiry, a time   *)
(* value that the volatility sets.  Strikes are one unit out of the money, *)
(* and one in the money for LEAPS.                                         *)
(***************************************************************************)
EXTENDS OverlaySim

Positive(x) == IF x > 0 THEN x ELSE 0
Intrinsic(kind, s, k) == IF kind = "call" THEN Positive(s - k) ELSE Positive(k - s)
ModelPrice(kind, s, k, t, v) == Intrinsic(kind, s, k) + (IF t > 0 THEN v ELSE 0)
OneOff(sp, s, v) == IF sp.structure = "leaps" \/ Kind(sp) = "put" THEN s - 1 ELSE s + 1
HalfSpot(s) == s \div 2
=============================================================================
