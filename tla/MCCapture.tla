------------------------------ MODULE MCCapture ------------------------------
(* An instance of Capture for TLC. *)
EXTENDS Capture

Lengths6(w, h, ff, fl, ll, lf) ==
  [f \in Fields |-> CASE f = "width" -> w [] f = "height" -> h
                      [] f = "frameFrame" -> ff [] f = "frameLine" -> fl
                      [] f = "lineLine" -> ll [] f = "lineFrame" -> lf]

A == Lengths6(8, 2, 1, 1, 1, 1)
B == Lengths6(2, 4, 1, 2, 0, 2)

MCPrograms == {<<Configure(A), Start>>, <<Start, Init, Configure(B), Start, Stop>>}

MCBlocks == [red : Numbers, green : Numbers \X Numbers, blue : Numbers]

=============================================================================
