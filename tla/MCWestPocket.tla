---------------------------- MODULE MCWestPocket ----------------------------
(***************************************************************************)
(* Instances of WestPocket for TLC.                                        *)
(***************************************************************************)
EXTENDS WestPocket, TLC

\* Every job of the collection runs under the lock of its pocket.
PocketLock == [j \in JobIds |-> "pocket"]

Symmetry == Permutations(Workers)

\* The bills have changed up to n times since they were opened, or are closed.
Changed(n) ==
  /\ \A r \in reqs : r.updated_at <= n
  /\ \A p \in Payers : bills[p].updated_at <= n + 1 \/ bills[p].status = "closed"

\* Without a fault the payers and payees ask for up to two changes of a bill, with
\* one fault for one; a collection of one member sees a fault and two changes, a
\* payment that is claimed and sent back.
FaultOrPayment == faults > 0 => Changed(1) \/ (Cardinality(members) <= 1 /\ Changed(2))

MCSpec == WPInit /\ [][WPNext /\ FaultOrPayment']_vars
=============================================================================
