----------------------------- MODULE JniBridge -----------------------------
(***************************************************************************)
(* The three adapters whose engine runs in a Java VM:                      *)
(* src/adapters/exchange_core_adapter.cpp and, under                       *)
(* src/additional_references, coralme_adapter and jiang_adapter, with      *)
(* their Java halves.  They keep no order state; what they share with the  *)
(* Java side are two buffers of fixed size.  A fill is staged in the first *)
(* one, or written as a report into the second one, which is drained       *)
(* whenever the room for one more message has run out.  A write past the   *)
(* end of either throws, and the native side aborts on the exception.      *)
(***************************************************************************)
EXTENDS EngineBook, CanonicalOutput

CONSTANTS
    Bridges,        \* the adapters
    STAGE_CAP,      \* adapter -> the fills its staging buffer holds
    OUT_CAP,        \* the reports the batch buffer holds, 65536 for all
    FixedReserve,   \* the 2048 reports that two of the Java halves keep free
    Follow(_),      \* the messages that may follow a workload
    MaxMessages,
    MaxSweep        \* the deepest sweep of one order the harness can deliver

ASSUME BridgeAssumption ==
    /\ MaxMessages \in Nat /\ MaxSweep \in Nat /\ OUT_CAP \in Nat
    /\ STAGE_CAP \in [Bridges -> Nat]
    /\ FixedReserve \in 0 .. OUT_CAP
    /\ "jiang" \in Bridges => STAGE_CAP["jiang"] + 2 <= OUT_CAP

\* jiang's staging buffer is made for the deepest sweep (jiang_adapter.cpp 88-95).
ASSUME SweepAssumption == "jiang" \in Bridges => MaxSweep <= STAGE_CAP["jiang"]

VARIABLES
    bridge,
    batched,        \* engine_on_batch is used (FALSE: ME_NO_BATCH is set)
    workload,       \* the messages, message k with sequence number k
    pc,             \* "load", "idle", "java", "drain" or "aborted"
    delivered,      \* how many messages the harness has delivered
    start, n, i,    \* engine_on_batch has the run start + 1 .. n to do, and
                    \* Java has done it up to i
    out,            \* the reports Java has written in this crossing
    native,         \* the engine's book
    pushed          \* everything pushed to the transport

loops == <<start, n, i, out>>
vars == <<bridge, batched, workload, pc, delivered, loops, native, pushed>>

Init == /\ bridge \in Bridges
        /\ batched \in BOOLEAN
        /\ workload = <<>>
        /\ pc = "load"
        /\ delivered = 0
        /\ start = 0 /\ n = 0 /\ i = 0
        /\ out = <<>>
        /\ native = <<>>
        /\ pushed = <<>>

Message ==
    [type : {"new"}, seq : Nat, id : Nat, side : Sides, price : Int,
     qty : Nat \ {0}, ioc : BOOLEAN]
    \cup [type : {"cancel"}, seq : Nat, id : Nat]
    \cup [type : {"modify"}, seq : Nat, id : Nat, side : Sides, price : Int,
          qty : Nat \ {0}]

\* What the reference answers to a workload.
Answered(acc, m) == LET r == Replied(acc.book, m)
                    IN [book |-> r.book, reports |-> acc.reports \o r.reports]
Stream(messages) ==
    FoldLeft(Answered, [book |-> <<>>, reports |-> <<>>], messages)

\* How many resting orders m trades with.
Sweep(book, m) ==
    IF m.type = "new" \/ (m.type = "modify" /\ Has(book, m.id))
    THEN Len(Match(Without(book, m.id), m.side, m.price, m.qty).fills)
    ELSE 0

\* A placed order has an id of its own, and no order sweeps deeper than MaxSweep.
Follows(w, m) ==
    /\ m \in Message
    /\ m.type = "new" => \A k \in DOMAIN w : w[k].type = "new" => w[k].id # m.id
    /\ Sweep(Stream(w).book, m) <= MaxSweep

LoadMessage(m) == /\ pc = "load"
                  /\ Len(workload) < MaxMessages
                  /\ Follows(workload, m)
                  /\ workload' = Append(workload, m)
                  /\ UNCHANGED <<bridge, batched, pc, delivered, loops, native, pushed>>

StartRun == /\ pc = "load" /\ workload # <<>>
            /\ pc' = "idle"
            /\ UNCHANGED <<bridge, batched, workload, delivered, loops, native, pushed>>

-----------------------------------------------------------------------------
(* The Java handlers: what they stage and the book they leave.             *)

\* jiang lets the remainder of an IOC order rest and takes it out again; the
\* other two engines do not let it rest.
Executed(m, ioc, matched) ==
    LET rested == WithRest(matched, m.id, m.side, m.price).book
    IN [staged |-> Trades(m, matched.fills),
        book |-> IF ~ioc THEN rested
                 ELSE IF bridge = "jiang" THEN Without(rested, m.id) ELSE matched.book]
onNew(book, m, ioc) == Executed(m, ioc, Match(book, m.side, m.price, m.qty))

\* Side and price of the order the engine has taken out.
onCancel(book, m) == [side |-> At(book, m.id).side, price |-> At(book, m.id).price,
                      book |-> Without(book, m.id)]

onModify(book, m) == onNew(Without(book, m.id), m, FALSE)

FilledBy(trades) == FoldLeft(LAMBDA sum, t : sum + t.qty, 0, trades)

\* The reports of one message, in the order of both paths: fills is the number
\* of them that go through the staging buffer.
AnswerNew(m, a) == [book |-> a.book, fills |-> Len(a.staged),
                    reports |-> <<OrderAck(m)>> \o a.staged
                                \o Residual(m, m.qty - FilledBy(a.staged))]
AnswerModify(m, a) == [book |-> a.book, fills |-> Len(a.staged),
                       reports |-> Append(a.staged, ModifyAck(m, m.side))]
OnMessage(book, m) ==
    CASE m.type = "new" ->
           AnswerNew(m, onNew(book, m, m.ioc))
      [] m.type = "cancel" /\ Has(book, m.id) ->
           LET a == onCancel(book, m)
           IN [book |-> a.book, fills |-> 0,
               reports |-> <<CancelAck(m, a.side, a.price, 0)>>]
      [] m.type = "modify" /\ Has(book, m.id) ->
           AnswerModify(m, onModify(book, m))
      [] m.type = "cancel" /\ ~Has(book, m.id) ->
           [book |-> book, fills |-> 0, reports |-> <<CancelReject(m)>>]
      [] m.type = "modify" /\ ~Has(book, m.id) ->
           [book |-> book, fills |-> 0, reports |-> <<ModifyReject(m)>>]

StageOverflows(fills) == fills > STAGE_CAP[bridge]

-----------------------------------------------------------------------------
(* One message at a time.  The OrderAck is pushed before the call that may  *)
(* throw.                                                                   *)

engine_on_message ==
    LET m == workload[delivered + 1]
        a == OnMessage(native, m)
    IN /\ pc = "idle" /\ ~batched
       /\ delivered < Len(workload)
       /\ \/ /\ StageOverflows(a.fills)
             /\ pc' = "aborted"
             /\ pushed' = IF m.type = "new" THEN Append(pushed, OrderAck(m)) ELSE pushed
             /\ UNCHANGED <<delivered, native>>
          \/ /\ ~StageOverflows(a.fills)
             /\ delivered' = delivered + 1
             /\ native' = a.book
             /\ pushed' = pushed \o a.reports
             /\ UNCHANGED pc
       /\ UNCHANGED <<bridge, batched, workload, loops>>

-----------------------------------------------------------------------------
(* A run of messages.  The harness ends it where the next probe is due.    *)

\* The reports one message may need, as the Java half sees it: jiang derives
\* them from the staging buffer.
Reserve == IF bridge = "jiang" THEN STAGE_CAP["jiang"] + 2 ELSE FixedReserve

\* onBatch starts with wc = 0.
Kept(reports) == reports                                        \* mutant
Cleared(reports) == <<>>

engine_on_batch(last) ==
    /\ pc = "idle" /\ batched
    /\ last \in delivered + 1 .. Len(workload)
    /\ start' = delivered /\ i' = delivered /\ n' = last
    /\ out' = Cleared(out)
    /\ pc' = "java"
    /\ UNCHANGED <<bridge, batched, workload, delivered, native, pushed>>

HasReserve == OUT_CAP - Len(out) >= Reserve

\* jiang's batch loop calls the handlers that stage; the other two write the
\* trades straight into the batch buffer.
onBatch ==
    LET a == OnMessage(native, workload[i + 1])
        throws == \/ Len(out) + Len(a.reports) > OUT_CAP
                  \/ bridge = "jiang" /\ StageOverflows(a.fills)
    IN /\ pc = "java" /\ i < n /\ HasReserve
       /\ \/ /\ throws
             /\ pc' = "aborted"
             /\ UNCHANGED <<i, out, native>>
          \/ /\ ~throws
             /\ i' = i + 1
             /\ out' = out \o a.reports
             /\ native' = a.book
             /\ UNCHANGED pc
       /\ UNCHANGED <<bridge, batched, workload, delivered, start, n, pushed>>

onBatchReturns == /\ pc = "java"
                  /\ i = n \/ ~HasReserve
                  /\ pc' = "drain"
                  /\ UNCHANGED <<bridge, batched, workload, delivered, loops,
                                 native, pushed>>

\* The reports are pushed, then the rest of the run crosses.  Without progress
\* jiang aborts, the other two leave the rest of the run unanswered.
Drain ==
    /\ pc = "drain"
    /\ pushed' = pushed \o out
    /\ \/ /\ i <= start
          /\ pc' = IF bridge = "jiang" THEN "aborted" ELSE "idle"
          /\ delivered' = IF bridge = "jiang" THEN delivered ELSE n
          /\ UNCHANGED <<start, out>>
       \/ /\ i > start /\ i < n
          /\ start' = i
          /\ out' = Cleared(out)
          /\ pc' = "java"
          /\ UNCHANGED delivered
       \/ /\ i > start /\ i = n
          /\ start' = i
          /\ delivered' = n
          /\ pc' = "idle"
          /\ UNCHANGED out
    /\ UNCHANGED <<bridge, batched, workload, n, i, native>>

Next == \/ \E m \in Follow(workload) : LoadMessage(m)
        \/ StartRun
        \/ engine_on_message
        \/ \E last \in 1 .. MaxMessages : engine_on_batch(last)
        \/ onBatch
        \/ onBatchReturns
        \/ Drain

Spec == Init /\ [][Next]_vars

-----------------------------------------------------------------------------
(* Properties.                                                             *)

\* When a call has returned, every message delivered so far is answered, once
\* and as the reference answers it, however the run was cut into crossings; a
\* buffer that is too small aborts the process and never loses a report in
\* silence, and jiang's, made for the deepest sweep (jiang_adapter.cpp 88-95), is
\* not too small wherever in a crossing the message comes.
NothingLost ==
    /\ bridge = "jiang" => pc # "aborted"
    /\ pc = "idle" =>
      LET reference == Stream(SubSeq(workload, 1, delivered))
      IN /\ build_canonical_text(pushed) = build_canonical_text(reference.reports)
         /\ native = reference.book
=============================================================================
