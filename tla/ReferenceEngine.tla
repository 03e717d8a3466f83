-------------------------- MODULE ReferenceEngine --------------------------
(***************************************************************************)
(* The engine every adapter has to be: one book, one answer per message,   *)
(* in one step.  The contract of api/matching_engine_api.h at the grain at *)
(* which the conformance gate compares engines: canonical text per         *)
(* message, book state after it.                                           *)
(***************************************************************************)
EXTENDS EngineBook, CanonicalOutput

CONSTANT Messages   \* the messages a workload may hold

VARIABLES book,     \* the resting orders, under their order ids
          message,  \* the latest message
          answer    \* its reports, in canonical form

NoMessage == [type |-> "none", seq |-> 0]

Init == book = <<>> /\ message = NoMessage /\ answer = <<>>

Answer(m) == LET r == Replied(book, m)
             IN /\ m.type = "new" => ~Has(book, m.id)
                /\ message' = m
                /\ book' = r.book
                /\ answer' = build_canonical_text(r.reports)

Next == \E m \in Messages : Answer(m)

Spec == Init /\ [][Next]_<<book, message, answer>>
=============================================================================
