-------------------------- MODULE QuantCupAdapter --------------------------
(***************************************************************************)
(* The QuantCup baseline: adapters/quantcup_adapter.cpp driving QuantCup's *)
(* flat price-indexed book (patched by patches/quantcup.patch).            *)
(*                                                                         *)
(* The adapter keeps a shadow of every resting order (g_orders), which     *)
(* alone answers the queries and decides whether a cancel or a modify is   *)
(* accepted.  The engine keeps an arena of entries that it never reuses    *)
(* and one list of them per price, shared by both sides.  A cancelled      *)
(* entry stays in its list with size 0.                                    *)
(*                                                                         *)
(* A step runs up to the next push_report, or is one turn of a sweep loop. *)
(***************************************************************************)
EXTENDS Integers, Sequences, SequencesExt, FiniteSets, FiniteSetsExt

CONSTANTS
    Ids,              \* order ids of the workload
    IdSpace,          \* ids the 4-byte trader field can tell apart (2^32)
    Quantities,       \* order quantities
    kNumPricePoints,  \* price slots; also the empty value of askMin
    kMaxNumOrders,    \* arena slots
    Workload(_)       \* the messages that may follow a given tape

Prices == 0 .. kNumPricePoints

ASSUME QuantCupAssumption ==
    /\ Ids \subseteq 0 .. IdSpace - 1
    /\ IdSpace \in Nat
    /\ Quantities \subseteq Nat \ {0}
    /\ kNumPricePoints \in Nat \ {0}
    /\ kMaxNumOrders \in Nat \ {0}

QC_PRICE_MIN == 1
QC_PRICE_MAX == kNumPricePoints - 1

VARIABLES
    aborted, tape, running, delivered,               \* the harness's side
    g_orders,                                        \* the shadow
    g_pre, g_pre_modify, g_limit_calls,              \* made by engine_prebuild
    g_pre_idx, g_pre_modify_idx,                     \* entries consumed
    g_seq, g_taker_id, g_taker_left, g_taker_side,   \* the aggressive order
    arena, points, askMin, bidMax, curOrderID,       \* QuantCup's book
    call,                \* the limit() call in progress: order and orderSize
    emitted              \* reports pushed for the current message

prebuildVars == <<tape, running, g_pre, g_pre_modify, g_limit_calls>>
cursors == <<g_pre_idx, g_pre_modify_idx>>
takerVars == <<g_seq, g_taker_id, g_taker_left, g_taker_side>>
engine == <<arena, points, askMin, bidMax, curOrderID>>
vars == <<aborted, delivered, g_orders, prebuildVars, cursors,
          takerVars, engine, call, emitted>>

NoCall == [orderSize |-> 0]
Idle == call = NoCall
msg == tape[delivered]      \* the message being handled

-----------------------------------------------------------------------------
(* The adapter's helpers.                                                  *)

DeadOrder == [price |-> 0, qty |-> 0, side |-> "buy", alive |-> FALSE, qcid |-> 0]

find_alive(id) == g_orders[id].alive

PriceInRangeFromZero(p) == 0 <= p /\ p <= QC_PRICE_MAX        \* mutant
PriceInRange(p) == QC_PRICE_MIN <= p /\ p <= QC_PRICE_MAX

\* The id travels through the engine in a 4-byte field.
encode_id(id) == id % IdSpace
decode_id(trader) == trader

\* check_qc_arena: counted per limit() call the tape may make.
ArenaExhaustedLate(calls) == calls > kMaxNumOrders             \* mutant
ArenaExhausted(calls) == calls >= kMaxNumOrders

\* The native order engine_prebuild makes of a new order or a modify.
Translate(m) == [trader |-> encode_id(m.id), side |-> m.side,
                 price |-> m.price, size |-> m.qty]

Ack(type, s, id) == [type |-> type, seq |-> s, id |-> id]
AckQty(type, s, id, side, price, qty) ==
    [type |-> type, seq |-> s, id |-> id, side |-> side, price |-> price,
     qty |-> qty]

-----------------------------------------------------------------------------
(* The messages, and what the generator lets follow a tape.                *)

Sides == {"buy", "sell"}
Message == [type : {"new"}, id : Ids, side : Sides, price : Int, qty : Quantities,
            ioc : BOOLEAN]
           \cup [type : {"cancel"}, id : Ids]
           \cup [type : {"modify"}, id : Ids, side : Sides, price : Int, qty : Quantities]

\* Every placed order has an id of its own.
StartsOnce(m) == m.type = "new" =>
    \A i \in DOMAIN tape : tape[i].type = "new" => tape[i].id # m.id

Follows(m) == m \in Message /\ StartsOnce(m)

-----------------------------------------------------------------------------
(* engine_init, then engine_prebuild once per message.                     *)

Init ==
    /\ aborted = FALSE /\ tape = <<>> /\ running = FALSE /\ delivered = 0
    /\ g_orders = [id \in Ids |-> DeadOrder]
    /\ g_pre = <<>> /\ g_pre_modify = <<>> /\ g_limit_calls = 0
    /\ g_pre_idx = 0 /\ g_pre_modify_idx = 0
    /\ g_seq = 0 /\ g_taker_id = 0 /\ g_taker_left = 0 /\ g_taker_side = "buy"
    /\ arena = [e \in 1 .. kMaxNumOrders - 1 |-> [trader |-> 0, size |-> 0]]
    /\ points = [p \in Prices |-> <<>>]
    /\ askMin = kNumPricePoints /\ bidMax = 0 /\ curOrderID = 0
    /\ call = NoCall
    /\ emitted = <<>>

Abort == /\ aborted' = TRUE
         /\ UNCHANGED <<delivered, g_orders, prebuildVars, cursors, takerVars,
                        engine, call, emitted>>

\* The harness hands over the workload, whose next message is m.  Only a new
\* order's price is checked here: an unusable modify may still be rejected.
engine_prebuild(m) ==
    /\ ~aborted /\ ~running
    /\ IF \/ m.type = "new" /\ ~PriceInRange(m.price)
          \/ m.type # "cancel" /\ ArenaExhausted(g_limit_calls + 1)
       THEN Abort
       ELSE /\ tape' = Append(tape, m)
            /\ g_limit_calls' = IF m.type = "cancel" THEN g_limit_calls
                                ELSE g_limit_calls + 1
            /\ g_pre' = IF m.type = "new" THEN Append(g_pre, Translate(m))
                        ELSE g_pre
            /\ g_pre_modify' = IF m.type = "modify"
                               THEN Append(g_pre_modify, Translate(m))
                               ELSE g_pre_modify
            /\ UNCHANGED <<aborted, running, delivered, g_orders, cursors,
                           takerVars, engine, call, emitted>>

\* The whole workload is prebuilt: the timed run begins.
StartRun ==
    /\ ~aborted /\ ~running
    /\ running' = TRUE
    /\ UNCHANGED <<aborted, tape, g_pre, g_pre_modify, g_limit_calls, delivered,
                   g_orders, cursors, takerVars, engine, call, emitted>>

-----------------------------------------------------------------------------
(* QuantCup.                                                               *)

\* cancel(id): the entry stays where it is, as a tombstone.
LeftInPlace(a, e) == a                                         \* mutant
Tombstone(a, e) == [a EXCEPT ![e].size = 0]

\* The level the sweep of the current call looks at, and its loop condition.
Level == IF call.order.side = "buy" THEN askMin ELSE bidMax
MarketableStrictly == IF call.order.side = "buy"               \* mutant
                      THEN call.order.price > askMin
                      ELSE call.order.price < bidMax
Marketable == IF call.order.side = "buy" THEN call.order.price >= askMin
                                         ELSE call.order.price <= bidMax

-----------------------------------------------------------------------------
(* The handlers, up to and past their limit() call.                        *)

CanDeliver == /\ ~aborted
              /\ running
              /\ Idle
              /\ delivered < Len(tape)

\* limit(order) is entered for message m.
EnterLimit(order, m) ==
    /\ g_taker_id' = m.id
    /\ g_taker_left' = m.qty
    /\ g_taker_side' = m.side
    /\ call' = [order |-> order, orderSize |-> order.size]

engine_on_new_order(m) ==
    /\ g_seq' = delivered + 1
    /\ emitted' = <<AckQty("OrderAck", delivered + 1, m.id, m.side, m.price, m.qty)>>
    /\ g_pre_idx' = g_pre_idx + 1
    /\ EnterLimit(g_pre[g_pre_idx + 1], m)
    /\ UNCHANGED <<aborted, g_orders, g_pre_modify_idx, engine>>

engine_on_cancel(m) ==
    /\ IF find_alive(m.id)
         THEN LET s == g_orders[m.id] IN
              /\ arena' = Tombstone(arena, s.qcid)
              /\ emitted' = <<AckQty("CancelAck", delivered + 1, m.id, s.side,
                                     s.price, 0)>>
              /\ g_orders' = [g_orders EXCEPT ![m.id].alive = FALSE,
                                              ![m.id].qty = 0]
         ELSE /\ emitted' = <<Ack("CancelReject", delivered + 1, m.id)>>
              /\ UNCHANGED <<arena, g_orders>>
    /\ UNCHANGED <<aborted, cursors, takerVars, points, askMin, bidMax,
                   curOrderID, call>>

\* The prebuilt order is consumed whether or not the modify applies; the price
\* is checked only when it does.
ConsumedIfApplied(m) == IF find_alive(m.id) THEN 1 ELSE 0      \* mutant
Consumed(m) == 1

engine_on_modify(m) ==
    /\ g_seq' = delivered + 1
    /\ g_pre_modify_idx' = g_pre_modify_idx + Consumed(m)
    /\ IF find_alive(m.id)
         THEN /\ arena' = Tombstone(arena, g_orders[m.id].qcid)
              /\ EnterLimit(g_pre_modify[g_pre_modify_idx + 1], m)
              /\ emitted' = <<>>
         ELSE /\ emitted' = <<Ack("ModifyReject", delivered + 1, m.id)>>
              /\ UNCHANGED <<arena, call, g_taker_id, g_taker_left, g_taker_side>>
    /\ UNCHANGED <<aborted, g_orders, g_pre_idx, points, askMin, bidMax,
                   curOrderID>>

BadModify(m) == m.type = "modify" /\ find_alive(m.id) /\ ~PriceInRange(m.price)

Deliver ==
    /\ CanDeliver
    /\ LET m == tape[delivered + 1] IN
         \/ /\ BadModify(m)
            /\ Abort
         \/ /\ ~BadModify(m)
            /\ delivered' = delivered + 1
            /\ \/ m.type = "new" /\ engine_on_new_order(m)
               \/ m.type = "cancel" /\ engine_on_cancel(m)
               \/ m.type = "modify" /\ engine_on_modify(m)
            /\ UNCHANGED prebuildVars

-----------------------------------------------------------------------------
(* The rest of the handler, once limit() has returned qcid and left arena a.*)
(* The residual of an IOC order rested inside limit() and is cancelled     *)
(* before anything is reported.                                            *)

Return(qcid, a) ==
    LET left    == g_taker_left
        dropped == msg.type = "new" /\ msg.ioc /\ left > 0
        rested  == left > 0 /\ ~dropped
        state   == [price |-> msg.price, qty |-> left, side |-> msg.side,
                    alive |-> TRUE, qcid |-> qcid]
    IN /\ curOrderID' = qcid
       /\ arena' = IF dropped THEN Tombstone(a, qcid) ELSE a
       /\ g_orders' = IF rested THEN [g_orders EXCEPT ![msg.id] = state]
                      ELSE IF msg.type = "modify"
                        THEN [g_orders EXCEPT ![msg.id].alive = FALSE]
                      ELSE g_orders
       /\ emitted' = emitted \o
            IF dropped
              THEN <<AckQty("CancelAck", delivered, msg.id, msg.side, msg.price, left)>>
            ELSE IF msg.type = "modify"
              THEN <<AckQty("ModifyAck", delivered, msg.id, msg.side, msg.price, msg.qty)>>
            ELSE <<>>
       /\ call' = NoCall

-----------------------------------------------------------------------------
(* The sweep of limit(), and the callback execution().                     *)

Sweeping == ~aborted /\ ~Idle /\ call.orderSize > 0

\* execution(): only the call for the maker's side reports.
MakerOf(e) == decode_id(IF call.order.side = g_taker_side THEN arena[e].trader
                                                          ELSE call.order.trader)
TradeAtTakerPrice(maker, qty) ==                               \* mutant
    [type |-> "Trade", seq |-> g_seq, maker |-> maker,
     taker |-> g_taker_id, price |-> call.order.price, qty |-> qty]
TradeReport(maker, qty) ==
    [type |-> "Trade", seq |-> g_seq, maker |-> maker,
     taker |-> g_taker_id, price |-> Level, qty |-> qty]

LeftAfter(qty) == IF g_taker_left >= qty THEN g_taker_left - qty ELSE g_taker_left

ShadowAfter(maker, qty) ==
    IF g_orders[maker].qty > qty THEN [g_orders EXCEPT ![maker].qty = @ - qty]
    ELSE [g_orders EXCEPT ![maker].qty = 0, ![maker].alive = FALSE]

\* An entry smaller than the order is traded whole and left behind; one of
\* size 0 is left behind without a callback.
PassEntry ==
    /\ Sweeping
    /\ Marketable
    /\ points[Level] # <<>>
    /\ LET e == Head(points[Level])
           size == arena[e].size
       IN /\ size < call.orderSize
          /\ points' = [points EXCEPT ![Level] = Tail(@)]
          /\ call' = [call EXCEPT !.orderSize = @ - size]
          /\ IF size = 0
               THEN UNCHANGED <<emitted, g_taker_left, g_orders>>
               ELSE /\ emitted' = Append(emitted, TradeReport(MakerOf(e), size))
                    /\ g_taker_left' = LeftAfter(size)
                    /\ g_orders' = ShadowAfter(MakerOf(e), size)
    /\ UNCHANGED <<aborted, delivered, prebuildVars, cursors, g_seq,
                   g_taker_id, g_taker_side, arena, askMin, bidMax, curOrderID>>

\* An entry as large as the order fills it.
FillEntry ==
    /\ Sweeping
    /\ Marketable
    /\ points[Level] # <<>>
    /\ LET e == Head(points[Level])
           n == call.orderSize
           larger == arena[e].size > n
       IN /\ arena[e].size >= n
          /\ points' = IF larger THEN points ELSE [points EXCEPT ![Level] = Tail(@)]
          /\ arena' = IF larger THEN [arena EXCEPT ![e].size = @ - n] ELSE arena
          /\ call' = [call EXCEPT !.orderSize = 0]
          /\ emitted' = Append(emitted, TradeReport(MakerOf(e), n))
          /\ g_taker_left' = LeftAfter(n)
          /\ g_orders' = ShadowAfter(MakerOf(e), n)
    /\ UNCHANGED <<aborted, delivered, prebuildVars, cursors, g_seq,
                   g_taker_id, g_taker_side, askMin, bidMax, curOrderID>>

\* The filled order takes an arena id but no slot, and the handler goes on.
Filled ==
    /\ ~aborted
    /\ ~Idle
    /\ call.orderSize = 0
    /\ Return(curOrderID + 1, arena)
    /\ UNCHANGED <<aborted, delivered, prebuildVars, cursors, takerVars,
                   points, askMin, bidMax>>

\* The level is exhausted: the best price moves one slot away.
Step(side) == IF side = "buy" THEN 1 ELSE -1

NextLevel ==
    /\ Sweeping
    /\ Marketable
    /\ points[Level] = <<>>
    /\ IF call.order.side = "buy"
         THEN askMin' = askMin + Step("buy") /\ UNCHANGED bidMax
         ELSE bidMax' = bidMax + Step("sell") /\ UNCHANGED askMin
    /\ UNCHANGED <<aborted, delivered, prebuildVars, cursors, takerVars,
                   g_orders, arena, points, curOrderID, call, emitted>>

\* A level is served first come, first served.
JoinedFront(list, e) == <<e>> \o list                          \* mutant
Joined(list, e) == Append(list, e)

\* Nothing crosses: what is left takes the next arena slot and joins its level.
Insert ==
    /\ Sweeping
    /\ ~Marketable
    /\ LET e == curOrderID + 1
           p == call.order.price
       IN /\ points' = [points EXCEPT ![p] = Joined(@, e)]
          /\ IF call.order.side = "buy"
               THEN bidMax' = Max({bidMax, p}) /\ UNCHANGED askMin
               ELSE askMin' = Min({askMin, p}) /\ UNCHANGED bidMax
          /\ Return(e, [arena EXCEPT ![e] = [trader |-> call.order.trader,
                                            size |-> call.orderSize]])
    /\ UNCHANGED <<aborted, delivered, prebuildVars, cursors, takerVars>>

\* The run is over: the tape is delivered, or the process aborted.
Over == /\ aborted \/ (running /\ delivered = Len(tape) /\ Idle)
        /\ UNCHANGED vars

Next == (\E m \in Workload(tape) : Follows(m) /\ engine_prebuild(m)) \/ StartRun
          \/ Deliver \/ PassEntry \/ FillEntry \/ Filled \/ NextLevel
          \/ Insert \/ Over

Spec == Init /\ [][Next]_vars

-----------------------------------------------------------------------------
(* The queries: they scan the shadow.                                      *)

RestingByQty(side) ==                                          \* mutant
    {id \in Ids : g_orders[id].qty > 0 /\ g_orders[id].side = side}
Alive(side) == {id \in Ids : g_orders[id].alive /\ g_orders[id].side = side}
SumQty(S) == FoldSet(LAMBDA id, n : n + g_orders[id].qty, 0, S)

\* No bids: below every price; no asks: above every price.
engine_query_best_bid == Max({-1} \cup {g_orders[id].price : id \in Alive("buy")})
engine_query_best_ask == Min({kNumPricePoints + 1}
                               \cup {g_orders[id].price : id \in Alive("sell")})
engine_query_depth_at(p, side) ==
    SumQty({id \in Alive(side) : g_orders[id].price = p})

-----------------------------------------------------------------------------
(* The contract, seen through the shadow.  The order a modify is moving is  *)
(* out of the abstract book from the moment it is delivered.               *)

ShadowBook ==
    [id \in Ids |->
       IF g_orders[id].alive /\ (Idle \/ msg.id # id)
         THEN [side |-> g_orders[id].side, price |-> g_orders[id].price,
               qty |-> g_orders[id].qty, time |-> g_orders[id].qcid]
         ELSE [side |-> "none"]]

Taker ==
    IF Idle THEN [side |-> "none"]
    ELSE [id |-> g_taker_id, side |-> g_taker_side, price |-> msg.price,
          qty |-> msg.qty, left |-> g_taker_left, kind |-> msg.type,
          ioc |-> msg.type = "new" /\ msg.ioc]

C == INSTANCE MatchingContract WITH
       book <- ShadowBook, taker <- Taker, clock <- curOrderID,
       seq <- delivered

-----------------------------------------------------------------------------
(* Properties.                                                             *)

Entries == 1 .. kMaxNumOrders - 1

\* Types of the variables (one line per group of globals).
TypeOK ==
    /\ aborted \in BOOLEAN
    /\ running \in BOOLEAN /\ delivered \in 0 .. Len(tape)
    /\ g_orders \in [Ids -> [price : Prices, qty : Nat, side : {"buy", "sell"},
                             alive : BOOLEAN, qcid : 0 .. kMaxNumOrders - 1]]
    /\ g_limit_calls \in Nat /\ g_pre_idx \in 0 .. Len(g_pre)
    /\ g_pre_modify_idx \in 0 .. Len(g_pre_modify)
    /\ g_taker_left \in Nat /\ g_taker_side \in {"buy", "sell"}
    /\ arena \in [Entries -> [trader : Ids \cup {0}, size : Nat]]
    /\ \A p \in Prices : points[p] \in Seq(Entries)
    /\ askMin \in 1 .. kNumPricePoints
    /\ bidMax \in 0 .. kNumPricePoints - 1
    /\ curOrderID \in 0 .. kMaxNumOrders - 1

\* The in-flight modify's own order: cancelled in the engine, still alive in the
\* shadow until the reinsert returns.
InFlight(id) == ~Idle /\ msg.id = id

\* The shadow (lines 261-326) and the engine's book are the same book: the
\* handle of every resting order names its own entry, in the list of its price
\* and with its quantity, and the lists hold no other live entry.  A later
\* cancel through a stale handle would kill another order.
ShadowIsBook ==
    /\ \A id \in Ids : g_orders[id].alive /\ ~InFlight(id) =>
          LET s == g_orders[id] IN
          /\ Contains(points[s.price], s.qcid)
          /\ arena[s.qcid] = [trader |-> encode_id(id), size |-> s.qty]
          /\ s.qty > 0
    /\ \A p \in Prices : \A e \in Range(points[p]) : arena[e].size > 0 =>
          \E id \in Ids : /\ g_orders[id].alive /\ ~InFlight(id)
                          /\ g_orders[id].qcid = e /\ g_orders[id].price = p

\* One list per price serves both sides, and the best prices are stale after a
\* cancel: they must still bracket the resting orders, or a sweep would trade a
\* buy order with a resting buy.
SidesNeverMix ==
    /\ bidMax < askMin
    /\ \A id \in Ids : g_orders[id].alive /\ ~InFlight(id) =>
          IF g_orders[id].side = "buy" THEN g_orders[id].price <= bidMax
                                       ELSE g_orders[id].price >= askMin

\* The order that limit() sweeps is the one prebuilt for the message in hand:
\* the two cursors (lines 269 and 303) never drift from the tape, whatever was
\* rejected on the way, and both sides of the adapter count the same remainder.
PrebuiltIsMessage ==
    ~Idle => /\ call.order = Translate(msg)
             /\ g_taker_left = call.orderSize

\* The arena has a slot for every limit() call that can still come: the count
\* of engine_prebuild bounds the unchecked ++curOrderID of the engine.
Remaining == {i \in delivered + 1 .. Len(tape) : tape[i].type # "cancel"}
ArenaHasRoom ==
    ~aborted =>
        curOrderID + (IF Idle THEN 0 ELSE 1) + Cardinality(Remaining)
            <= kMaxNumOrders - 1

\* The audit compares the queries of two engines: at the end of a message they
\* must answer for the engine's book, tombstones, stale best prices, filled
\* modifies and dropped residuals included.
LevelSize(p) == FoldSeq(LAMBDA e, n : n + arena[e].size, 0, points[p])
Occupied == {p \in Prices : LevelSize(p) > 0}
QueriesAnswerBook ==
    Idle =>
      /\ \A p \in Prices :
            LevelSize(p) = engine_query_depth_at(p, "buy") + engine_query_depth_at(p, "sell")
      /\ engine_query_best_bid = Max({-1} \cup {p \in Occupied : p <= bidMax})
      /\ engine_query_best_ask =
            Min({kNumPricePoints + 1} \cup {p \in Occupied : p >= askMin})

\* The adapter and QuantCup together keep the contract of the header, reports
\* and price-time priority included.
Contract == C!Spec
=============================================================================
