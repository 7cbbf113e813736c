------------------------------- MODULE Totals -------------------------------
(***************************************************************************)
(* Sums of natural-number columns over finite sets of rows, counted as     *)
(* tokens: a row r with value f[r] contributes the tokens <<r, 1>> ..      *)
(* <<r, f[r]>>.  SUM(column) over a set of rows is then a cardinality,     *)
(* which the library's theorems about finite sets speak of.                *)
(***************************************************************************)
EXTENDS Naturals, FiniteSets

(* The tokens of the rows S under the column f.                            *)
Tokens(S, f) == UNION {{r} \X (1 .. f[r]) : r \in S}

(* SUM(f) over the rows S.                                                 *)
Total(S, f) == Cardinality(Tokens(S, f))
=============================================================================
