--------------------------- MODULE MCJournalUndo ---------------------------
(***************************************************************************)
(* Two items with a tag and a field each: a forward run, then up to two    *)
(* undo runs of it, and the user's edits anywhere in between.  A second    *)
(* forward run would be to the undo what the edits already are.            *)
(***************************************************************************)
EXTENDS JournalUndo

\* Two tags on one item, for the runs where a plan is carried out in part.
TwoTags == {"read", "starred"}
=============================================================================
