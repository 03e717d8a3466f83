------------------------- MODULE MCPgellertAdapter -------------------------
(* PgellertAdapter for TLC. *)
EXTENDS PgellertAdapter

IdSymmetry == Permutations(Ids)

\* What the next step depends on: nothing looks at the shadow of a dead order
\* or at its place among the arrivals, and between two messages the latest one
\* and its reports only say how the state came about.
Position ==
    <<fifoVars, SelectSeq(arrived, LAMBDA id : id \in DOMAIN orders),
      [id \in Ids |-> IF shadow[id].alive THEN shadow[id] ELSE Dead],
      IF busy THEN <<message, pushed, seen.book>> ELSE <<>> >>
=============================================================================
