--------------------------- MODULE MCPaintHistory ---------------------------
(* Instances of PaintHistory for TLC.                                      *)
EXTENDS PaintHistory, TLC

Symmetry == Permutations(Feature) \cup Permutations(Value)

=============================================================================
