----------------------------- MODULE MCRcInput -----------------------------
(* Trims that smooth, with a stick beyond its end; all zero, as in the     *)
(* middle of a reset; and with a center beyond 32767, which nothing        *)
(* rejects.                                                                *)
EXTENDS RcInput

T(min, center, max, deadzone, alpha) ==
  [min |-> min, center |-> center, max |-> max, deadzone |-> deadzone, alpha |-> alpha]

Trims == {T(1200, 1500, 2000, 20, 1), T(0, 0, 0, 0, 0), T(1000, 40000, 2000, 20, One)}
=============================================================================
