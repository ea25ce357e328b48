------------------------------ MODULE MCRetargeting ------------------------------
(***************************************************************************)
(* Settings for Retargeting.  With WeightC = 1000 most divisions leave a     *)
(* remainder, and the values 3 and 5 lie below the ticket targets.          *)
(***************************************************************************)
EXTENDS Retargeting

ThreeSettings == {<< <<1, 2, 5>>, 9 >>, << <<2, 3, 4>>, 7 >>, << <<1, 6, 4>>, 7 >>}

\* Faces above the square root of WeightC, next to their ticket target.
LargeFaces == {<< <<1, 48, 47>>, 49 >>}
=================================================================================
