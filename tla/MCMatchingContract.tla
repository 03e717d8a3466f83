------------------------ MODULE MCMatchingContract ------------------------
(* The contract over workloads of a bounded length. *)
EXTENDS MatchingContract

CONSTANT MaxMessages

Done == Idle /\ seq = MaxMessages /\ UNCHANGED vars

MCNext == \/ seq < MaxMessages /\ Idle /\ \E m \in Message : Deliver(m)
          \/ \E id \in Ids : Fill(id)
          \/ Finish
          \/ Done

MCSpec == Init /\ [][MCNext]_vars
=============================================================================
