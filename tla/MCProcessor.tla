---------------------------- MODULE MCProcessor ----------------------------
(***************************************************************************)
(* Small instances of Processor: every batch of up to three records out of *)
(* a set that holds one record of each kind the code tells apart.          *)
(***************************************************************************)
EXTENDS Processor

CONSTANT MaxBatch   \* bound: records returned by one fetch

R(id, eid, ts, event, deg) == [id |-> id, eid |-> eid, ts |-> ts, event |-> event, deg |-> deg]

\* With EmissionLimit = 3, the click and the right turn are exactly at the
\* limit, the two turns together are above it.
Undated    == R(1, 1, NoValue, "singleClick", NoValue)
Click      == R(2, 2, 7, "singleClick", NoValue)
RightTurn  == R(3, 3, 8, "rotation", 60)
LeftTurn   == R(4, 4, 9, "rotation", -90)
TooFar     == R(5, 5, 9, "rotation", -120)       \* beyond MaxDegrees = 90
Unknown    == R(5, 5, 9, "longPress", NoValue)
Renumbered == R(6, 2, 9, "doubleClick", NoValue) \* Click's event ID, a new record ID
Anonymous  == R(4, NoValue, 9, "singleClick", NoValue)
Nameless   == R(NoValue, 3, 9, "singleClick", NoValue)

UpTo(S) == UNION {[1..n -> S] : n \in 0..MaxBatch}

AllKinds == UpTo({Click, RightTurn, LeftTurn, TooFar, Renumbered, Anonymous, Nameless, Undated})

\* Batches in which a malformed record may share its record ID with another.
Clashing == UpTo({Undated, LeftTurn, Anonymous, Nameless, Unknown})
=============================================================================
