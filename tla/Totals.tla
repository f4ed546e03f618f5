------------------------------- MODULE Totals -------------------------------
(***************************************************************************)
(* Sums as the queries and loops of the services compute them: quantities, *)
(* prices and sizes added up over a set of rows.                           *)
(***************************************************************************)
EXTENDS FiniteSetsExt

\* The sum of the values of the function F.
Total(F) == MapThenSumSet(LAMBDA x : F[x], DOMAIN F)
=============================================================================
