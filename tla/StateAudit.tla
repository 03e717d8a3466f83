----------------------------- MODULE StateAudit -----------------------------
(***************************************************************************)
(* src/audit.cpp and the probes of src/harness.cpp.  The harness asks the  *)
(* engine under test for its book at indices the engine cannot foresee;    *)
(* an audit run then replays the same tape through a baseline, here the    *)
(* liquibook adapter, and compares.  The engine under test may lose the    *)
(* effect of a message, and may answer a probe from the book as it was     *)
(* before the latest call: a message, or a whole batch.                    *)
(***************************************************************************)
EXTENDS WorkloadGenerator

CONSTANTS
    AUDIT_POINTS,
    LiquibookTable,
    MaxFaults       \* how often the engine under test goes wrong

ASSUME AuditAssumption == AUDIT_POINTS \in Nat \ {0} /\ LiquibookTable \in Nat /\ MaxFaults \in Nat

VARIABLES
    mode,       \* "perf" or "audit"
    stage,      \* "generate", "timed", "prebuild", "replay" or "done"
    batched,    \* the engine exports engine_on_batch
    picks,      \* audit_idx, increasing
    audit_cur,  \* the probes made
    delivered,  \* the messages delivered
    under,      \* the book of the engine under test
    faults,
    ut_snaps,   \* the recorded probes
    i, cur,     \* the position of run_state_audit in the tape, in ut_snaps
    audit,      \* AuditReport
    audit_ok,
    native, own, pushed \* the baseline

timed == <<picks, audit_cur, delivered, under, faults, ut_snaps>>
replay == <<i, cur, audit>>
baseline == <<native, own, pushed>>
vars == <<generator, mode, stage, batched, timed, replay, audit_ok, baseline>>

LB == INSTANCE LiquibookAdapter

Init == /\ GeneratorInit
        /\ mode \in {"perf", "audit"} /\ batched \in BOOLEAN
        /\ stage = "generate"
        /\ picks = <<>> /\ audit_cur = 0 /\ delivered = 0
        /\ under = <<>> /\ faults = 0
        /\ ut_snaps = <<>>
        /\ i = 0 /\ cur = 0
        /\ audit = [ran |-> FALSE, checks |-> 0, mismatches |-> 0, passed |-> FALSE]
        /\ audit_ok = FALSE
        /\ LB!engine_init

Generate == /\ stage = "generate"
            /\ (\E c \in Lifecycles : Expand(c)) \/ write_binary
            /\ UNCHANGED <<mode, stage, batched, timed, replay, audit_ok, baseline>>

\* Any distinct indices, as many as there are messages at most; std::set hands
\* them out in order.
audit_pick_indices(messages, n) ==
    {p \in [1 .. Least(n, messages) -> 1 .. messages] :
        \A a, b \in 1 .. Least(n, messages) : a < b => p[a] < p[b]}

StartRun == /\ stage = "generate" /\ wire # <<>>
            /\ picks' \in audit_pick_indices(Len(wire), AUDIT_POINTS)
            /\ stage' = "timed"
            /\ UNCHANGED <<generator, mode, batched, audit_cur, delivered, under,
                           faults, ut_snaps, replay, audit_ok, baseline>>

-----------------------------------------------------------------------------
(* The timed run.                                                          *)

\* The messages up to and with last, one of them without effect when skip is
\* its index (0: none).
Applied(last, skip) ==
    FoldLeft(LAMBDA b, j : IF j = skip THEN b ELSE Replied(b, Prepared(j)).book,
             under, [j \in 1 .. last - delivered |-> delivered + j])

\* A batch ends at the next probe, or at the end of the tape.
NextStop == IF ~batched THEN delivered + 1
            ELSE IF audit_cur < Len(picks) THEN picks[audit_cur + 1] ELSE Len(wire)

\* What the queries answer about the price and side of message j.
Snapshot(j, book) ==
    [index |-> j, best_bid |-> Best(book, "buy"), best_ask |-> Best(book, "sell"),
     probe_price |-> wire[j].price, probe_side |-> wire[j].side,
     depth |-> DepthAt(book, wire[j].side, wire[j].price)]

ProbeDue(j) == audit_cur < Len(picks) /\ picks[audit_cur + 1] = j

\* dispatch or engine_on_batch, and the probe after it.
Deliver(skip) ==
    LET last == NextStop
    IN /\ stage = "timed" /\ delivered < Len(wire)
       /\ skip # 0 => faults < MaxFaults /\ skip \in delivered + 1 .. last
       /\ delivered' = last
       /\ under' = Applied(last, skip)
       /\ \/ /\ ProbeDue(last)
             /\ audit_cur' = audit_cur + 1
             /\ \E book \in {under'} \cup {b \in {under} : faults < MaxFaults /\ skip = 0} :
                  /\ faults' = faults + IF skip # 0 \/ book # under' THEN 1 ELSE 0
                  /\ ut_snaps' = IF mode = "perf" THEN ut_snaps
                                 ELSE Append(ut_snaps, Snapshot(last, book))
          \/ /\ ~ProbeDue(last)
             /\ faults' = faults + IF skip # 0 THEN 1 ELSE 0
             /\ UNCHANGED <<audit_cur, ut_snaps>>
       /\ UNCHANGED <<generator, mode, stage, batched, picks, replay, audit_ok, baseline>>

\* A perf run needs no audit; an audit without a baseline does not run and does
\* not pass.
NoAudit == /\ stage = "timed" /\ delivered = Len(wire)
           /\ audit_ok' = (mode = "perf")
           /\ stage' = "done"
           /\ UNCHANGED <<generator, mode, batched, timed, replay, baseline>>

-----------------------------------------------------------------------------
(* run_state_audit.                                                        *)

StartAudit == /\ stage = "timed" /\ delivered = Len(wire)
              /\ mode = "audit"
              /\ audit' = [audit EXCEPT !.ran = TRUE]
              /\ stage' = IF ut_snaps = <<>> THEN "replay" ELSE "prebuild"
              /\ UNCHANGED <<generator, mode, batched, timed, i, cur, audit_ok, baseline>>

prebuild_msg == /\ stage = "prebuild"
                /\ i < Len(wire)
                /\ LB!engine_prebuild(Prepared(i + 1))
                /\ i' = i + 1
                /\ UNCHANGED <<generator, mode, stage, batched, timed, cur, audit, audit_ok>>

StartReplay == /\ stage = "prebuild" /\ i = Len(wire)
               /\ stage' = "replay"
               /\ i' = 0
               /\ UNCHANGED <<generator, mode, batched, timed, cur, audit, audit_ok, baseline>>

feed == LB!engine_on_batch(Prepared(i + 1))

DueEarly == ut_snaps[cur + 1].index = i + 2                     \* mutant
Due == ut_snaps[cur + 1].index = i + 1

\* How the baseline after the message differs from snapshot ut.
Mismatches(ut) ==
    Cardinality({x \in {<<"bid", LB!engine_query_best_bid', ut.best_bid>>,
                        <<"ask", LB!engine_query_best_ask', ut.best_ask>>,
                        <<"depth", LB!engine_query_depth_at(ut.probe_price,
                                                            ut.probe_side)',
                          ut.depth>>} : x[2] # x[3]})

Replay == /\ stage = "replay"
          /\ i < Len(wire) /\ cur < Len(ut_snaps)
          /\ feed
          /\ i' = i + 1
          /\ \/ /\ Due
                /\ \E ut \in {ut_snaps[cur + 1]} :
                     audit' = [audit EXCEPT !.checks = audit.checks + 3,
                                            !.mismatches = audit.mismatches
                                                           + Mismatches(ut)]
                /\ cur' = cur + 1
             \/ ~Due /\ UNCHANGED <<audit, cur>>
          /\ UNCHANGED <<generator, mode, stage, batched, timed, audit_ok>>

Judge == /\ stage = "replay"
         /\ i = Len(wire) \/ cur = Len(ut_snaps)
         /\ LET passed == audit.checks > 0 /\ audit.mismatches = 0
            IN /\ audit' = [audit EXCEPT !.passed = passed]
               /\ audit_ok' = passed
         /\ stage' = "done"
         /\ UNCHANGED <<generator, mode, batched, timed, i, cur, baseline>>

Next == \/ Generate
        \/ StartRun
        \/ \E skip \in 0 .. Len(wire) : Deliver(skip)
        \/ NoAudit
        \/ StartAudit
        \/ prebuild_msg
        \/ StartReplay
        \/ Replay
        \/ Judge

Spec == Init /\ [][Next]_vars

-----------------------------------------------------------------------------
(* Properties.                                                             *)

\* A recorded probe that is what the reference book answers after the message
\* it was made for.
Truthful(snap) == snap = Snapshot(snap.index, BookAfter(snap.index))

\* A replay passes exactly the engines that answered every probe truthfully,
\* each probe compared once, with the book of its own message, whether the tape
\* was delivered one by one or in batches.
AuditIsExact ==
    stage = "done" /\ audit.ran =>
      /\ audit.checks = 3 * Len(picks)
      /\ audit_ok <=> \A p \in DOMAIN picks :
                         /\ ut_snaps[p].index = picks[p]
                         /\ Truthful(ut_snaps[p])
=============================================================================
