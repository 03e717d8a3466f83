--------------------------- MODULE ReportPipeline ---------------------------
(***************************************************************************)
(* The timed run of src/harness.cpp: the harness thread delivers the       *)
(* workload, probes the book and ends the run, the engine matches on the   *)
(* harness's thread or on one of its own and pushes reports, and the       *)
(* drainer thread collects them from a single-producer single-consumer     *)
(* queue.                                                                  *)
(*                                                                         *)
(* The queue is a ring of slots with a write and a read index, one slot of *)
(* which stays free: equal indices mean an empty queue.  Each thread has   *)
(* an index of its own and loads the other's, and a load may return an old *)
(* value.  So a report reaches the drainer in three steps: the push writes *)
(* it, the transport publishes it (at once, or in runs in a buffering      *)
(* transport), and the publication becomes visible; and a slot is known to *)
(* be free only some time after its report was taken.                      *)
(***************************************************************************)
EXTENDS Naturals, Sequences, SequencesExt, FiniteSetsExt

CONSTANTS
    MessageCount,    \* workload.size()
    MaxReports,      \* most reports a message is answered with
    QUEUE_CAPACITY,  \* reports in flight
    DRAIN_BATCH,     \* most reports taken by one drain()
    AUDIT_POINTS,    \* state-audit probes
    PublishStrides   \* reports a transport may buffer before it publishes

ASSUME PipelineAssumption ==
    /\ MessageCount \in Nat \ {0}
    /\ MaxReports \in Nat \ {0}
    /\ QUEUE_CAPACITY \in Nat \ {0}
    /\ DRAIN_BATCH \in Nat \ {0}
    /\ AUDIT_POINTS \in Nat
    /\ PublishStrides \subseteq 1 .. QUEUE_CAPACITY

VARIABLES
    \* the engine and its transport, fixed for the run
    batched,      \* it exports engine_on_batch
    async,        \* it matches on a thread of its own
    stride,       \* its transport publishes every stride-th report
    \* the harness thread
    phase, start, audit_idx, audit_cur, probes,
    \* the engine
    inbox,        \* messages delivered and not taken yet
    pending,      \* reports of the message in hand still to be pushed
    matched,      \* messages fully matched and reported
    \* the transport
    slots,        \* the ring; a slot keeps what was last written to it
    write_index,  \* the slot of the next push
    published_index, \* how far the transport has published
    seen_index,   \* ... and how far the drainer's loads say it has
    read_index,   \* the slot of the next report to be drained
    freed_index,  \* ... and what the producer's loads say it is
    \* the drainer thread
    running, drainer, pin_failed, collected,
    pushed        \* history: every report pushed

engineKind == <<batched, async, stride>>
harnessVars == <<phase, start, audit_idx, audit_cur, probes, running>>
engineVars == <<inbox, pending, matched, pushed>>
drainerVars == <<drainer, pin_failed, collected>>
drainerView == <<read_index, seen_index>>
producerView == <<slots, write_index, published_index, freed_index>>
transportVars == <<producerView, drainerView>>
vars == <<engineKind, harnessVars, engineVars, drainerVars, transportVars>>

Messages == 0 .. MessageCount - 1
Report == [seq : Messages, n : 1 .. MaxReports]

\* Slots 0 .. QUEUE_CAPACITY; what no push has written is no report.
Slots == 0 .. QUEUE_CAPACITY
Unwritten == [seq |-> MessageCount, n |-> 0]

\* From slot i to slot j, and n slots on from i, round the end of the ring.
Distance(i, j) == IF i <= j THEN j - i ELSE j + QUEUE_CAPACITY + 1 - i
Advanced(i, n) == IF i + n <= QUEUE_CAPACITY THEN i + n
                  ELSE i + n - (QUEUE_CAPACITY + 1)

\* What lies in the ring between the two indices, oldest first; how much of it
\* is published, and visible to the drainer; the drained slots the producer
\* still takes for occupied.
queue == [k \in 1 .. Distance(read_index, write_index) |->
            slots[Advanced(read_index, k - 1)]]
published == Distance(read_index, published_index)
visible == Distance(read_index, seen_index)
freed == Distance(freed_index, read_index)

\* Everything delivered is matched, and every report of it is pushed.
Quiet == inbox = <<>> /\ pending = <<>>

\* audit_pick_indices: distinct indices, in increasing order.
AuditPicks ==
    {picks \in [1 .. Min({AUDIT_POINTS, MessageCount}) -> Messages] :
        \A j, k \in DOMAIN picks : j < k => picks[j] < picks[k]}

-----------------------------------------------------------------------------
Init ==
    /\ batched \in BOOLEAN /\ async \in BOOLEAN /\ stride \in PublishStrides
    /\ audit_idx \in AuditPicks
    /\ phase = "preflight" /\ start = 0 /\ audit_cur = 0 /\ probes = <<>>
    /\ inbox = <<>> /\ pending = <<>> /\ matched = <<>> /\ pushed = <<>>
    /\ slots = [i \in Slots |-> Unwritten]
    /\ write_index = 0 /\ published_index = 0 /\ seen_index = 0
    /\ read_index = 0 /\ freed_index = 0
    /\ running = TRUE
    /\ drainer = "pin" /\ pin_failed = FALSE /\ collected = <<>>

-----------------------------------------------------------------------------
(* The harness thread.                                                     *)

\* The pre-flight queries synchronise with the engine before the first message.
Preflight ==
    /\ phase = "preflight"
    /\ Quiet
    /\ phase' = "deliver"
    /\ UNCHANGED <<engineKind, start, audit_idx, audit_cur, probes, running,
                   engineVars, drainerVars, transportVars>>

ProbesLeft == audit_cur < Len(audit_idx)

\* The last message of the next delivery: one message, or the run up to the
\* next probe index or to the end of the workload.
BoundaryBefore == IF ~batched THEN start                         \* mutant
                  ELSE IF ProbesLeft THEN Max({start, audit_idx[audit_cur + 1] - 1})
                  ELSE MessageCount - 1
Boundary == IF ~batched THEN start
            ELSE IF ProbesLeft THEN audit_idx[audit_cur + 1]
            ELSE MessageCount - 1

\* The loop resumes behind the last delivered message.
After(b) == b + 1

\* engine_on_batch, or engine_on_new_order / _on_cancel / _on_modify.
Dispatch ==
    /\ phase = "deliver"
    /\ start < MessageCount
    /\ inbox' = inbox \o [i \in 1 .. Boundary - start + 1 |-> start + i - 1]
    /\ start' = After(Boundary)
    /\ phase' = "call"
    /\ UNCHANGED <<engineKind, audit_idx, audit_cur, probes, running,
                   pending, matched, pushed, drainerVars, transportVars>>

\* The call returns: at once, or when the message is matched.
Return ==
    /\ phase = "call"
    /\ async \/ Quiet
    /\ phase' = IF ProbesLeft /\ (batched \/ audit_idx[audit_cur + 1] = start - 1)
                  THEN "probe" ELSE "deliver"
    /\ UNCHANGED <<engineKind, start, audit_idx, audit_cur, probes, running,
                   engineVars, drainerVars, transportVars>>

\* A query answers for everything delivered before it.
QuerySynchronised == Quiet

\* probe(i): the book is queried after message i.
Probe ==
    /\ phase = "probe"
    /\ QuerySynchronised
    /\ probes' = Append(probes, [index |-> start - 1, matched |-> matched])
    /\ audit_cur' = audit_cur + 1
    /\ phase' = "deliver"
    /\ UNCHANGED <<engineKind, start, audit_idx, running,
                   engineVars, drainerVars, transportVars>>

\* eng.flush(): the barrier that keeps deferred work on the clock.
NoBarrier == TRUE                                               \* mutant
Barrier == Quiet

Flush ==
    /\ phase = "deliver"
    /\ start >= MessageCount
    /\ Barrier
    /\ phase' = "flushed"
    /\ UNCHANGED <<engineKind, start, audit_idx, audit_cur, probes, running,
                   engineVars, drainerVars, transportVars>>

\* transport->flush(queue): what the transport has buffered is published.  Then
\* the clock stops.
FlushAll == write_index

TransportFlush ==
    /\ phase = "flushed"
    /\ published_index' = FlushAll
    /\ phase' = "clocked"
    /\ UNCHANGED <<engineKind, start, audit_idx, audit_cur, probes, running,
                   engineVars, drainerVars, slots, write_index, freed_index,
                   drainerView>>

\* running.store(false, release), which carries the publications with it.
StopDrainer ==
    /\ phase = "clocked"
    /\ running' = FALSE
    /\ phase' = "join"
    /\ UNCHANGED <<engineKind, start, audit_idx, audit_cur, probes,
                   engineVars, drainerVars, transportVars>>

\* drainer.join(): the harness reads the collection from here on.
Join ==
    /\ phase = "join"
    /\ drainer = "done"
    /\ phase' = "joined"
    /\ UNCHANGED <<engineKind, start, audit_idx, audit_cur, probes, running,
                   engineVars, drainerVars, transportVars>>

Harness == Preflight \/ Dispatch \/ Return \/ Probe \/ Flush \/ TransportFlush
             \/ StopDrainer \/ Join

-----------------------------------------------------------------------------
(* The engine.                                                             *)

\* The next message is matched; it is answered with one report or more.
Match ==
    /\ pending = <<>>
    /\ inbox # <<>>
    /\ \E k \in 1 .. MaxReports :
         pending' = [n \in 1 .. k |-> [seq |-> Head(inbox), n |-> n]]
    /\ inbox' = Tail(inbox)
    /\ UNCHANGED <<engineKind, harnessVars, matched, pushed, drainerVars,
                   transportVars>>

\* How far the transport has published once the write index is w.
PublishedAfter(w) == IF Distance(published_index, w) >= stride THEN w
                     ELSE published_index

\* spsc_queue::push fails while no slot but the free one is known to be empty.
HasRoomLate == Distance(freed_index, write_index) <= QUEUE_CAPACITY   \* mutant
HasRoom == Distance(freed_index, write_index) < QUEUE_CAPACITY

\* push_report: the engine spins until the queue takes the report.
Push ==
    /\ pending # <<>>
    /\ HasRoom
    /\ slots' = [slots EXCEPT ![write_index] = Head(pending)]
    /\ write_index' = Advanced(write_index, 1)
    /\ published_index' = PublishedAfter(Advanced(write_index, 1))
    /\ pushed' = Append(pushed, Head(pending))
    /\ pending' = Tail(pending)
    /\ matched' = IF Len(pending) = 1 THEN Append(matched, Head(pending).seq)
                  ELSE matched
    /\ UNCHANGED <<engineKind, harnessVars, inbox, drainerVars, freed_index,
                   drainerView>>

Engine == Match \/ Push

-----------------------------------------------------------------------------
(* Stores of one thread become visible to the loads of the other.          *)

SeePublished ==
    /\ visible < published
    /\ \E n \in visible + 1 .. published : seen_index' = Advanced(read_index, n)
    /\ UNCHANGED <<engineKind, harnessVars, engineVars, drainerVars,
                   producerView, read_index>>

SeeFreed ==
    /\ freed > 0
    /\ \E n \in 1 .. freed : freed_index' = Advanced(freed_index, n)
    /\ UNCHANGED <<engineKind, harnessVars, engineVars, drainerVars, slots,
                   write_index, published_index, drainerView>>

Coherence == SeePublished \/ SeeFreed

-----------------------------------------------------------------------------
(* drainer_main.                                                           *)

\* A drainer that cannot be pinned keeps draining.
GivesUp == "done"                                               \* mutant
KeepsDraining == "loop"

Pin ==
    /\ drainer = "pin"
    /\ pin_failed' \in BOOLEAN
    /\ drainer' = IF pin_failed' THEN KeepsDraining ELSE "loop"
    /\ UNCHANGED <<engineKind, harnessVars, engineVars, collected, transportVars>>

\* pop(out, n) copies the n oldest reports out of the ring, consume(n) collects
\* them.
Consumed(n) == [k \in 1 .. n |-> slots[Advanced(read_index, k - 1)]]

\* drain() takes the reports the drainer can see, up to a batch.
DrainInto(next) ==
    LET n == Min({DRAIN_BATCH, visible}) IN
    /\ n > 0
    /\ collected' = collected \o Consumed(n)
    /\ read_index' = Advanced(read_index, n)
    /\ drainer' = next
    /\ UNCHANGED <<engineKind, harnessVars, engineVars, pin_failed, seen_index,
                   producerView>>

\* One turn of the loop on a load that still returns true.  (A turn that finds
\* nothing pauses and changes nothing.)
Drain == drainer = "loop" /\ DrainInto("loop")

\* running.load(acquire) returns false: what was published before the store is
\* visible from now on.
RelaxedLoad == seen_index                                       \* mutant
AcquireLoad == published_index

SeeStop ==
    /\ drainer = "loop"
    /\ ~running
    /\ seen_index' = AcquireLoad
    /\ drainer' = "final"
    /\ UNCHANGED <<engineKind, harnessVars, engineVars, pin_failed, collected,
                   producerView, read_index>>

\* The final drain goes on until drain() returns 0.
OneBatch == "done"                                              \* mutant
UntilEmpty == "final"
FinalDrain == drainer = "final" /\ DrainInto(UntilEmpty)

Exit ==
    /\ drainer = "final"
    /\ visible = 0
    /\ drainer' = "done"
    /\ UNCHANGED <<engineKind, harnessVars, engineVars, pin_failed, collected,
                   transportVars>>

Drainer == Pin \/ Drain \/ SeeStop \/ FinalDrain \/ Exit

-----------------------------------------------------------------------------
Over == phase = "joined" /\ UNCHANGED vars

Next == Harness \/ Engine \/ Coherence \/ Drainer \/ Over

Spec == Init /\ [][Next]_vars

\* Each thread is scheduled, and a store becomes visible in finite time.
FairSpec == /\ Spec
            /\ WF_vars(Harness)
            /\ WF_vars(Engine)
            /\ WF_vars(SeePublished)
            /\ WF_vars(SeeFreed)
            /\ WF_vars(Drainer)

-----------------------------------------------------------------------------
(* Properties.                                                             *)

\* Types of the variables, and the order of the indices round the ring.
TypeOK ==
    /\ batched \in BOOLEAN /\ async \in BOOLEAN /\ stride \in 1 .. QUEUE_CAPACITY
    /\ phase \in {"preflight", "deliver", "call", "probe", "flushed", "clocked",
                  "join", "joined"}
    /\ start \in 0 .. MessageCount
    /\ audit_idx \in Seq(Messages) /\ audit_cur \in Nat
    /\ inbox \in Seq(Messages)
    /\ pending \in Seq(Report)
    /\ slots \in [Slots -> Report \cup {Unwritten}]
    /\ {write_index, published_index, seen_index, read_index, freed_index} \subseteq Slots
    /\ queue \in Seq(Report) /\ pushed \in Seq(Report) /\ collected \in Seq(Report)
    /\ published \in 0 .. Len(queue)
    /\ visible \in 0 .. published
    /\ running \in BOOLEAN /\ pin_failed \in BOOLEAN
    /\ drainer \in {"pin", "loop", "final", "done"}

\* A push never writes over a report that has not been taken, and a drain never
\* reads a slot too many or too few: whatever the two threads know of each
\* other's index, what has been collected, followed by what lies in the ring
\* from the read index to the write index, is what the engine pushed.
Lossless == collected \o queue = pushed

\* After the join the canonical hash covers the whole stream: the answers of
\* every message of the workload, once each and in order, however the workload
\* was cut into calls.
Earlier(a, b) == a.seq < b.seq \/ (a.seq = b.seq /\ a.n < b.n)
StreamIsWhole ==
    phase = "joined" =>
        /\ matched = [i \in 1 .. MessageCount |-> i - 1]
        /\ collected = pushed
        /\ \A i, j \in 1 .. Len(collected) : i < j => Earlier(collected[i], collected[j])

\* A probe at index i sees the book after exactly the messages 0 .. i, on the
\* batch path (lines 720-736) as on the per-message path (737-747), and every
\* index that was picked is probed.
ProbesAligned ==
    /\ \A p \in 1 .. Len(probes) :
          /\ probes[p].index = audit_idx[p]
          /\ probes[p].matched = [i \in 1 .. audit_idx[p] + 1 |-> i - 1]
    /\ phase = "joined" => Len(probes) = Len(audit_idx)

\* No report is pushed once the clock has stopped: work that an asynchronous
\* engine deferred is paid for inside the measured window.
Clocked == phase \in {"clocked", "join", "joined"}
WorkIsOnTheClock == [][Clocked => UNCHANGED pushed]_vars

\* The pipeline carries the report stream without loss, and hands it over whole.
S == INSTANCE ReportStream WITH Reports <- Report, complete <- (phase = "joined")
Stream == S!Spec

\* The run ends: a full queue, a failed pinning, an unpublished report or a
\* stale load never leaves the three threads waiting for each other.
RunEnds == <>(phase = "joined")
=============================================================================
