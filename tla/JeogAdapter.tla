---------------------------- MODULE JeogAdapter ----------------------------
(***************************************************************************)
(* src/additional_references/jeog_adapter/jeog_adapter.cpp.  The engine    *)
(* issues its own ids, calls back once per side of a fill and covers a     *)
(* range of prices only.  The adapter must name the id of an order before  *)
(* the engine has issued it: the fills arrive during the insert.           *)
(***************************************************************************)
EXTENDS EngineBook

CONSTANTS JeogTable,    \* 1 << 21: the initial size of the id tables
          JeogMax       \* BOOK_MAX: the highest price of the fresh book

VARIABLES native, own, pushed

vars == <<native, own, pushed>>

\* last is the engine's last_id(), low and high its range of prices.
InitOwn == [h2e |-> Slots(JeogTable, 0), e2h |-> Slots(JeogTable, 0),
            side |-> Slots(JeogTable, "buy"), price |-> Slots(JeogTable, 0),
            last |-> 0, low |-> 1, high |-> JeogMax]

engine_init == native = <<>> /\ own = InitOwn /\ pushed = <<>>

ensure_h2e(id) == [own EXCEPT !.h2e = Grown(own.h2e, id, 0),
                              !.side = Grown(own.side, id, "buy"),
                              !.price = Grown(own.price, id, 0)]

engine_prebuild(m) == /\ own' = IF m.type = "cancel" THEN own ELSE ensure_h2e(m.id)
                      /\ UNCHANGED <<native, pushed>>

h2e(id) == Load(own.h2e, id, 0)

\* Keep the book covering a price.
ensure_price_in_book(globals, p) ==
    [globals EXCEPT
        !.low = IF p < globals.low + 2 THEN Least(globals.low, Most(p - 64, 1))
                ELSE globals.low,
        !.high = IF p > globals.high - 2 THEN p + 64 ELSE globals.high]

\* The id the insert will be given is entered in the reverse table before it.
RecordAfter(globals, id) == globals                             \* mutant
record_engine_id(globals, id) ==
    LET eid == globals.last + 1
    IN [globals EXCEPT !.e2h = [Grown(globals.e2h, eid, 0) EXCEPT ![eid] = id]]

\* The engine calls back for the maker and for the taker of every fill.
Callbacks(fills, taker) ==
    FlattenSeq([i \in DOMAIN fills |->
        <<fills[i], [fills[i] EXCEPT !.oid = taker]>>])

\* The taker's call is passed over, the maker's call makes the trade.
exec_cb_both(eid, call) == TRUE                                 \* mutant
exec_cb(eid, call) == call.oid # eid

Fills(globals, seq, fills) ==
    LET eid == globals.last + 1
        calls == SelectSeq(Callbacks(fills, eid), LAMBDA c : exec_cb(eid, c))
    IN [i \in DOMAIN calls |->
           Trade(seq, Load(globals.e2h, calls[i].oid, 0),
                 Load(globals.e2h, eid, 0), calls[i].price, calls[i].qty)]

\* After the insert: the order id leads to the new engine id, its side and
\* price are kept for a CancelAck.
Inserted(globals, m) ==
    [globals EXCEPT !.last = globals.last + 1,
                    !.h2e[m.id] = globals.last + 1,
                    !.side[m.id] = m.side, !.price[m.id] = m.price]

Prepared(m) == record_engine_id(ensure_price_in_book(own, m.price), m.id)

engine_on_new_order(m) ==
    LET a == AddLimit(native, own.last + 1, m.side, m.price, m.qty)
    IN /\ m.type = "new"
       /\ own' = Inserted(Prepared(m), m)
       /\ native' = IF m.ioc THEN Without(a.book, own'.last) ELSE a.book
       /\ pushed' = <<OrderAck(m)>> \o Fills(Prepared(m), m.seq, a.fills)
                    \o Residual(m, a.left)

\* pull_order: true when the order was resting.
Pulled(id) == h2e(id) # 0 /\ Has(native, h2e(id))

engine_on_cancel(m) ==
    /\ m.type = "cancel"
    /\ \/ /\ Pulled(m.id)
          /\ native' = Without(native, h2e(m.id))
          /\ own' = [own EXCEPT !.h2e[m.id] = 0]
          /\ pushed' = <<CancelAck(m, own.side[m.id], own.price[m.id], 0)>>
       \/ /\ ~Pulled(m.id)
          /\ pushed' = <<CancelReject(m)>>
          /\ UNCHANGED <<native, own>>

engine_on_modify(m) ==
    LET a == AddLimit(Without(native, h2e(m.id)), own.last + 1, m.side, m.price,
                      m.qty)
    IN /\ m.type = "modify"
       /\ \/ /\ Pulled(m.id)
             /\ own' = Inserted(Prepared(m), m)
             /\ native' = a.book
             /\ pushed' = Fills(Prepared(m), m.seq, a.fills)
                          \o <<ModifyAck(m, m.side)>>
          \/ /\ ~Pulled(m.id)
             /\ pushed' = <<ModifyReject(m)>>
             /\ UNCHANGED <<native, own>>

engine_on_batch(m) == \/ engine_on_new_order(m)
                      \/ engine_on_cancel(m)
                      \/ engine_on_modify(m)

engine_query_best_bid == Best(native, "buy")
engine_query_best_ask == Best(native, "sell")
engine_query_depth_at(price, side) ==
    IF price \in own.low .. own.high THEN DepthAt(native, side, price) ELSE 0

Labelled == [i \in DOMAIN native |->
                [native[i] EXCEPT !.oid = Load(own.e2h, native[i].oid, 0)]]

\* The side and price kept for an order that rests are its own, its engine id
\* is the one its order id leads to, and its price is inside the range.
ShadowIsBook ==
    \A i \in DOMAIN native :
        LET id == Load(own.e2h, native[i].oid, 0)
        IN /\ h2e(id) = native[i].oid
           /\ own.side[id] = native[i].side
           /\ own.price[id] = native[i].price
           /\ native[i].price \in own.low .. own.high
=============================================================================
