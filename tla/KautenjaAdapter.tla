-------------------------- MODULE KautenjaAdapter --------------------------
(***************************************************************************)
(* src/additional_references/kautenja_adapter/kautenja_adapter.cpp.  The   *)
(* engine takes price 0 for a market order and answers nothing but fills:  *)
(* prices are shifted, and a shadow of every order decides what is resting *)
(* and what an ack says.                                                   *)
(***************************************************************************)
EXTENDS EngineBook

CONSTANTS KautenjaOffset,   \* PX_OFF, 1 << 30
          KautenjaShadow    \* kShadowInit, 1 << 22: the initial shadow slots

VARIABLES native, own, pushed   \* own is gShadow

vars == <<native, own, pushed>>

NoOffset(ticks) == ticks                                        \* mutant
toEnginePrice(ticks) == ticks + KautenjaOffset
fromEnginePrice(price) == price - KautenjaOffset

\* LimitOrderBook::limit: the engine knows no IOC and takes price 0 for "at
\* any price".
Limit(book, uid, side, price, qty) ==
    LET any == IF side = "buy" THEN NoAsk ELSE NoBid
        m == AddLimit(book, uid, side, IF price = 0 THEN any ELSE price, qty)
    IN [m EXCEPT !.book = [i \in DOMAIN m.book |->
            IF m.book[i].oid = uid THEN [m.book[i] EXCEPT !.price = price]
            ELSE m.book[i]]]

engine_init == /\ native = <<>>
               /\ own = Slots(KautenjaShadow, Dead)
               /\ pushed = <<>>

\* The shadow grows to the id that is asked for.
shadowSlot(shadow, id) ==
    IF id < Size(shadow) THEN shadow ELSE Resized(shadow, id + 1, Dead)

Alive(id) == Load(own, id, Dead).alive

\* The injected hook on one fill: the maker's shadow is written down.
HookKeepsAlive(shadow, fill) ==                                 \* mutant
    [shadow EXCEPT ![fill.oid].remaining = Hit(shadow[fill.oid], fill.qty).remaining]
trade_hook(shadow, fill) ==
    LET slots == shadowSlot(shadow, fill.oid)
    IN [slots EXCEPT ![fill.oid] = Hit(slots[fill.oid], fill.qty)]

Fills(m, fills) ==
    [i \in DOMAIN fills |-> Trade(m.seq, fills[i].oid, m.id,
                                  fromEnginePrice(fills[i].price), fills[i].qty)]

Rested(shadow, m, side, left) ==
    IF left = 0 THEN shadow
    ELSE [shadowSlot(shadow, m.id) EXCEPT ![m.id] = Shadow(m.price, side, left)]

\* An IOC order rests in the engine and is taken out again; only an order that
\* rests is written into the shadow.
engine_on_new_order(m) ==
    LET a == Limit(native, m.id, m.side, toEnginePrice(m.price), m.qty)
        hit == FoldLeft(trade_hook, own, a.fills)
    IN /\ m.type = "new"
       /\ native' = IF m.ioc THEN Without(a.book, m.id) ELSE a.book
       /\ own' = Rested(hit, m, m.side, IF m.ioc THEN 0 ELSE a.left)
       /\ pushed' = <<OrderAck(m)>>
                    \o Fills(m, a.fills)
                    \o Residual(m, a.left)

engine_on_cancel(m) ==
    /\ m.type = "cancel"
    /\ \/ /\ Alive(m.id)
          /\ native' = Without(native, m.id)
          /\ own' = [own EXCEPT ![m.id].alive = FALSE, ![m.id].remaining = 0]
          /\ pushed' = <<CancelAck(m, own[m.id].side, own[m.id].price, own[m.id].remaining)>>
       \/ /\ ~Alive(m.id)
          /\ pushed' = <<CancelReject(m)>>
          /\ UNCHANGED <<native, own>>

\* The side is the shadow's, the ack comes before the trades of the reinsert.
engine_on_modify(m) ==
    LET side == own[m.id].side
        a == Limit(Without(native, m.id), m.id, side, toEnginePrice(m.price), m.qty)
        out == [own EXCEPT ![m.id].alive = FALSE, ![m.id].remaining = 0]
        hit == FoldLeft(trade_hook, out, a.fills)
    IN /\ m.type = "modify"
       /\ \/ /\ Alive(m.id)
             /\ native' = a.book
             /\ own' = Rested(hit, m, side, a.left)
             /\ pushed' = <<ModifyAck(m, side)>>
                          \o Fills(m, a.fills)
          \/ /\ ~Alive(m.id)
             /\ pushed' = <<ModifyReject(m)>>
             /\ UNCHANGED <<native, own>>

engine_on_batch(m) == \/ engine_on_new_order(m)
                      \/ engine_on_cancel(m)
                      \/ engine_on_modify(m)

Ticks(price, none) == IF price = none THEN none ELSE fromEnginePrice(price)
engine_query_best_bid == Ticks(Best(native, "buy"), NoBid)
engine_query_best_ask == Ticks(Best(native, "sell"), NoAsk)
engine_query_depth_at(price, side) == DepthAt(native, side, toEnginePrice(price))

Labelled == [i \in DOMAIN native |->
                [native[i] EXCEPT !.price = fromEnginePrice(native[i].price)]]

\* What the shadow says is what the engine holds.
ShadowIsBook == ShadowsMatch(own, Labelled)
=============================================================================
