------------------------------ MODULE MCFetch ------------------------------
(***************************************************************************)
(* Small instances of Fetch.  A first page of one entry, pages of two and a *)
(* budget of two pages make the walk of six entries take every exit: the   *)
(* first page alone, the cursor on a later page, a short page, position 1, *)
(* and the budget.                                                         *)
(***************************************************************************)
EXTENDS Fetch

AllKinds == {"record", "unnumbered", "junk"}
=============================================================================
