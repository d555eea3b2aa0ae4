------------------------------ MODULE FiniteSums ------------------------------
(***************************************************************************)
(* Totals over the accounts of a set of holders: what a total that the     *)
(* program keeps in one account has to agree with.                         *)
(***************************************************************************)
EXTENDS Integers, FiniteSets, FiniteSetsExt

SumOver(S, f) == FoldSet(LAMBDA x, sum : f[x] + sum, 0, S)

=============================================================================
