------------------------------ MODULE MCBlather ------------------------------
(* Finite instances of Blather for TLC. *)
EXTENDS Blather, TLC

\* No constant or action names a client or a signal: both are interchangeable.
Symmetry == Permutations(Client) \cup Permutations(Signal)

=============================================================================
