-------------------------- MODULE CanonicalOutput --------------------------
(***************************************************************************)
(* src/correctness.cpp: the text whose SHA-256 is the published hash.  Two *)
(* report streams hash alike exactly when their canonical forms are equal. *)
(* A line is kept as the record of the fields that are printed.            *)
(***************************************************************************)
EXTENDS Integers, Sequences, TLC

\* The values of me_report_type_t; the sort compares them.
TypeRank == [OrderAck |-> 0, Trade |-> 1, CancelAck |-> 2, ModifyAck |-> 3,
             CancelReject |-> 4, ModifyReject |-> 5]

\* One line: the fields the type prints.  A CancelAck omits the quantity and a
\* reject carries its identity only.
LineWithQty(r) == r                                             \* mutant
Line(r) ==
    CASE r.type = "CancelAck" -> [type |-> r.type, seq |-> r.seq, id |-> r.id,
                                  side |-> r.side, price |-> r.price]
      [] r.type \in {"CancelReject", "ModifyReject"} ->
           [type |-> r.type, seq |-> r.seq, id |-> r.id]
      [] OTHER -> r

\* std::stable_sort by (sequence number, type), then one line per report of a
\* known type.
build_canonical_text(reports) ==
    LET Key(i) == <<reports[i].seq, TypeRank[reports[i].type]>>
        Before(i, j) == \/ Key(i)[1] < Key(j)[1]
                        \/ Key(i)[1] = Key(j)[1] /\ Key(i)[2] < Key(j)[2]
                        \/ Key(i) = Key(j) /\ i < j
        Known(i) == reports[i].type \in DOMAIN TypeRank
        order == SortSeq(SelectSeq([i \in DOMAIN reports |-> i], Known), Before)
    IN [k \in DOMAIN order |-> Line(reports[order[k]])]
=============================================================================
