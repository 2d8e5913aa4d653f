----------------------------- MODULE MCPaintTxn -----------------------------
(* Instances of PaintTxn for TLC. *)
EXTENDS PaintTxn, TLC

Symmetry == Permutations(Client) \cup Permutations(Feature) \cup Permutations(Value)

=============================================================================
