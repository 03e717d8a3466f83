------------------------- MODULE CppOrderbookAdapter -------------------------
(***************************************************************************)
(* src/additional_references/cpp_orderbook_adapter/                        *)
(* cpp_orderbook_adapter.cpp.  The engine adjudicates a cancel in a        *)
(* notification; its report carries neither side nor price, which come     *)
(* from a shadow.  The queries read the text the engine prints of itself.  *)
(***************************************************************************)
EXTENDS EngineBook

CONSTANT CppOrderbookShadow     \* kShadowInit, 1 << 22: the initial slots

VARIABLES native, own, pushed   \* own is gShadow

vars == <<native, own, pushed>>

\* An unsigned decimal: a price at or below zero becomes zero.
toDecPrice(ticks) == Most(ticks, 0)

engine_init == /\ native = <<>>
               /\ own = Slots(CppOrderbookShadow, Dead)
               /\ pushed = <<>>

shadowSlot(shadow, id) ==
    IF id < Size(shadow) THEN shadow ELSE Resized(shadow, id + 1, Dead)

-----------------------------------------------------------------------------
(* The engine: addOrder refuses a price of zero and an id that rests, and  *)
(* cancelOrder notifies Canceled with the remainder, or Rejected.          *)

addOrder(book, id, side, price, qty, ioc) ==
    IF price = 0 \/ Has(book, id)
      THEN [left |-> qty, fills |-> <<>>, book |-> book]
      ELSE IF ioc THEN Match(book, side, price, qty)
           ELSE AddLimit(book, id, side, price, qty)

cancelOrder(book, id) ==
    IF Has(book, id) THEN [ok |-> TRUE, qty |-> At(book, id).qty]
    ELSE [ok |-> FALSE, qty |-> 0]

\* toString: the levels of both sides best first, line by line; a side that
\* has run out leaves its column blank.
Blank == [price |-> 0, qty |-> 0]
LevelsOf(book, side) ==
    LET ps == PricesOn(book, side)
    IN [i \in 1 .. Cardinality(ps) |->
          LET p == CHOOSE p \in ps :
                     Cardinality({q \in ps : Better(side, q, p)}) = i - 1
          IN [price |-> p, qty |-> DepthAt(book, side, p)]]
Column(levels, i) == IF i \in DOMAIN levels THEN levels[i] ELSE Blank
toString(book) ==
    LET bids == LevelsOf(book, "buy")
        asks == LevelsOf(book, "sell")
    IN [i \in 1 .. Most(Len(bids), Len(asks)) |->
          [bid |-> Column(bids, i), ask |-> Column(asks, i)]]

-----------------------------------------------------------------------------
(* The adapter.                                                            *)

\* onExecutionReport(Trade): the maker's shadow is written down.
ReportKeepsRemaining(shadow, fill) ==                           \* mutant
    shadowSlot(shadow, fill.oid)
onExecutionReport(shadow, fill) ==
    LET slots == shadowSlot(shadow, fill.oid)
    IN [slots EXCEPT ![fill.oid] = Hit(slots[fill.oid], fill.qty)]

Shadowed(shadow, m, side, left) ==
    [shadowSlot(shadow, m.id) EXCEPT ![m.id] = Shadow(m.price, side, left)]

\* An IOC order leaves the shadow as it is.
onNewOrder(m) ==
    LET a == addOrder(native, m.id, m.side, toDecPrice(m.price), m.qty, m.ioc)
        hit == FoldLeft(onExecutionReport, own, a.fills)
    IN /\ m.type = "new"
       /\ native' = a.book
       /\ own' = IF m.ioc THEN hit ELSE Shadowed(hit, m, m.side, a.left)
       /\ pushed' = <<OrderAck(m)>> \o Trades(m, a.fills) \o Residual(m, a.left)

onCancel(m) ==
    LET verdict == cancelOrder(native, m.id)
        slots == shadowSlot(own, m.id)
    IN /\ m.type = "cancel"
       /\ \/ /\ verdict.ok
             /\ native' = Without(native, m.id)
             /\ own' = [slots EXCEPT ![m.id].alive = FALSE]
             /\ pushed' = <<CancelAck(m, slots[m.id].side, slots[m.id].price,
                                      verdict.qty)>>
          \/ /\ ~verdict.ok
             /\ pushed' = <<CancelReject(m)>>
             /\ UNCHANGED <<native, own>>

\* The side of the reinsert is the shadow's; the ack precedes its trades.
onModify(m) ==
    LET slots == shadowSlot(own, m.id)
        side == slots[m.id].side
        a == addOrder(Without(native, m.id), m.id, side, toDecPrice(m.price),
                      m.qty, FALSE)
    IN /\ m.type = "modify"
       /\ \/ /\ cancelOrder(native, m.id).ok
             /\ native' = a.book
             /\ own' = Shadowed(FoldLeft(onExecutionReport, slots, a.fills), m,
                                side, a.left)
             /\ pushed' = <<ModifyAck(m, side)>> \o Trades(m, a.fills)
          \/ /\ ~cancelOrder(native, m.id).ok
             /\ pushed' = <<ModifyReject(m)>>
             /\ UNCHANGED <<native, own>>

engine_on_batch(m) == onNewOrder(m) \/ onCancel(m) \/ onModify(m)

-----------------------------------------------------------------------------
(* The queries parse toString().                                           *)

parseBidLevel(line) == line.bid
parseAskSwapped(line) == [price |-> line.ask.qty, qty |-> line.ask.price] \* mutant
parseAskLevel(line) == line.ask

engine_query_best_bid ==
    LET dump == toString(native)
    IN IF dump = <<>> \/ parseBidLevel(dump[1]) = Blank THEN NoBid
       ELSE parseBidLevel(dump[1]).price
engine_query_best_ask ==
    LET dump == toString(native)
    IN IF dump = <<>> \/ parseAskLevel(dump[1]) = Blank THEN NoAsk
       ELSE parseAskLevel(dump[1]).price
engine_query_depth_at(price, side) ==
    LET Level(line) == IF side = "buy" THEN parseBidLevel(line)
                       ELSE parseAskLevel(line)
        Add(sum, line) == IF Level(line).price = price /\ Level(line) # Blank
                            THEN sum + Level(line).qty ELSE sum
    IN FoldLeft(Add, 0, toString(native))

Labelled == native

ShadowIsBook == ShadowsMatch(own, native)
=============================================================================
