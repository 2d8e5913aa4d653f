--------------------------- MODULE MCCanvasModels ---------------------------
EXTENDS CanvasModels, TLC

CONSTANTS r1, f1

MCScenario == 1..2
MCOf == r1 :> 1 @@ f1 :> 1
MCViews == <<1, 1>>
MCSymmetry == Permutations(Proc)

\* States that differ only in what no step will read and no property speaks of
\* count as one: what an outdated step has read, since it can only be refused;
\* and what is wronged of a kind that is not calm, since canvases are calm again
\* only once nothing of theirs is wronged, and filters never are.
MCView ==
    <<rows, used, listed, view, calm,
      UNION {wronged \intersect Of_(kind) : kind \in calm},
      [p \in Proc |-> IF job[p].open /\ ~job[p].cur
                      THEN [job[p] EXCEPT !.base = {}, !.names = {}] ELSE job[p]]>>
=============================================================================
