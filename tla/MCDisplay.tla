----------------------------- MODULE MCDisplay -----------------------------
(***************************************************************************)
(* Configurations for model checking Display.                              *)
(***************************************************************************)
EXTENDS Display, TLC

OneFan == [fans |-> {0}, label |-> (0 :> 1), rest |-> 1]

\* Other curves: all that changes is the checksum.
OtherCurves == [OneFan EXCEPT !.rest = 2]

CurvesChanged == {OneFan, OtherCurves}
=============================================================================
