---------------------------- MODULE MCSheetRows ----------------------------
(* Instances of SheetRows: a heading, two rows, and three runs. *)
EXTENDS SheetRows

CONSTANTS head, x, y, a, b, c

Sheet == <<head, x, y>>

\* The look-ups match what run a writes.
FindsA == {RowOf(a)}

\* Runs b and c are alike.
Alike == Permutations({b, c})

=============================================================================
