----------------------------- MODULE Positions -----------------------------
(***************************************************************************)
(* The part of a sequence that stands at given positions, in its order:    *)
(* what a loop over a slice that keeps some elements builds.  It is        *)
(* SelectSeq for a test of positions, defined without recursion.           *)
(***************************************************************************)
EXTENDS Integers, Sequences, FiniteSets

\* The k-th of the positions.
Nth(positions, k) ==
  CHOOSE p \in positions : Cardinality({q \in positions : q < p}) = k - 1

Selection(s, positions) ==
  [k \in 1..Cardinality(positions) |-> s[Nth(positions, k)]]
=============================================================================
