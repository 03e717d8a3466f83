---------------------------- MODULE ReportStream ----------------------------
(***************************************************************************)
(* What the report path promises its two ends: the drainer's collection is *)
(* a prefix of what the engine pushed, it only grows, and the harness      *)
(* takes it for the whole stream only when it is the whole stream.         *)
(***************************************************************************)
EXTENDS Naturals, Sequences, SequencesExt

CONSTANT Reports    \* the reports an engine may push

VARIABLES pushed, collected, complete

streamVars == <<pushed, collected, complete>>

Init == pushed = <<>> /\ collected = <<>> /\ complete = FALSE

Push == /\ ~complete
        /\ \E r \in Reports : pushed' = Append(pushed, r)
        /\ UNCHANGED <<collected, complete>>

Collect == /\ IsPrefix(collected, collected')
           /\ IsPrefix(collected', pushed)
           /\ UNCHANGED <<pushed, complete>>

Complete == /\ collected = pushed
            /\ complete' = TRUE
            /\ UNCHANGED <<pushed, collected>>

Next == Push \/ Collect \/ Complete

Spec == Init /\ [][Next]_streamVars
=============================================================================
