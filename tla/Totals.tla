------------------------------- MODULE Totals -------------------------------
(***************************************************************************)
(* Python's sum() and len(): the total of a function from a finite set to  *)
(* numbers, as the number of units it stands for, so that the facts about  *)
(* cardinalities are the facts about totals.                               *)
(***************************************************************************)
EXTENDS Naturals, FiniteSets

Units(f) == UNION {{x} \X (1..f[x]) : x \in DOMAIN f}

Total(f) == Cardinality(Units(f))
=============================================================================
