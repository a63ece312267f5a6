------------------------------ MODULE Timestamps ------------------------------
(****************************************************************************)
(* Instants, wall-clock timestamps, generations and the values named by     *)
(* them are positive naturals; zero stands for Option::None.                *)
(****************************************************************************)
EXTENDS Naturals

None == 0
Later(a, b) == IF a >= b THEN a ELSE b

==============================================================================
