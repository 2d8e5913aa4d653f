--------------------------- MODULE MCGeometryEdits ---------------------------
(* Instances of GeometryEdits for TLC: a parcel of two units of ground and *)
(* a parcel of one.                                                        *)
EXTENDS GeometryEdits, TLC

MCUnit == 1 .. 3
MCSpeck == {2}
MCBaseGround == <<{1, 2}, {3}>>

Symmetry == Permutations(Worker) \cup Permutations(Value)

=============================================================================
