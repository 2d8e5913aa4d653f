------------------------------- MODULE Mirror -------------------------------
(***************************************************************************)
(* What an open map page is promised about the rows behind a layer: its    *)
(* copy may be late, it may be blank while the tile server cannot answer,  *)
(* but it never goes from one version straight back to an older one, and   *)
(* it catches up when it has been told.  Versions count changes.           *)
(***************************************************************************)
EXTENDS Integers

CONSTANTS
    Page,       \* open map pages
    MaxLatest   \* bound on the number of changes

VARIABLES
    latest,     \* the committed version on the server
    seen,       \* seen[p]: the version page p shows, or Blank
    owed        \* owed[p]: page p has been told of the latest change

vars == <<latest, seen, owed>>

Blank == -1

Init ==
    /\ latest = 0
    /\ seen \in [Page -> {Blank, 0}]
    /\ owed \in [Page -> BOOLEAN]

\* The server's copy changes, and who is told of it may.
Change ==
    /\ latest < MaxLatest
    /\ latest' = latest + 1
    /\ owed' \in [Page -> BOOLEAN]
    /\ UNCHANGED seen

\* Someone is told, or told no more.
Tell ==
    /\ owed' \in [Page -> BOOLEAN]
    /\ UNCHANGED <<latest, seen>>

Look(p) ==
    /\ \E v \in {Blank} \union 0..latest :
          /\ v # Blank => v >= seen[p]
          /\ seen' = [seen EXCEPT ![p] = v]
    /\ UNCHANGED <<latest, owed>>

Next == Change \/ Tell \/ \E p \in Page : Look(p)

CatchesUp(p) == []<>(owed[p] => seen[p] = latest)

Spec == Init /\ [][Next]_vars /\ \A p \in Page : CatchesUp(p)
=============================================================================
