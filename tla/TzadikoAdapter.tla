--------------------------- MODULE TzadikoAdapter ---------------------------
(***************************************************************************)
(* src/additional_references/tzadiko_adapter/tzadiko_adapter.cpp.  The     *)
(* engine returns a list of trades that name a bid and an ask, each with   *)
(* its own price: the adapter has to know which of the two was resting.    *)
(* Its cancel is silent, so a shadow decides what rests.                   *)
(***************************************************************************)
EXTENDS EngineBook

CONSTANT TzadikoTable   \* 1 << 21: the initial size of the shadow

VARIABLES native, own, pushed   \* own is g_shadow

vars == <<native, own, pushed>>

engine_init == native = <<>> /\ own = Slots(TzadikoTable, Dead) /\ pushed = <<>>

engine_prebuild(m) ==
    /\ own' = IF m.type = "new" THEN Grown(own, m.id, Dead) ELSE own
    /\ UNCHANGED <<native, pushed>>

Alive(id) == Load(own, id, Dead).alive

\* A trade as the engine returns it: each side under its own limit price.
EngineTrades(m, side, fills) ==
    [i \in DOMAIN fills |->
       LET maker == [id |-> fills[i].oid, price |-> fills[i].price, qty |-> fills[i].qty]
           taker == [id |-> m.id, price |-> m.price, qty |-> fills[i].qty]
       IN IF side = "buy" THEN [bid |-> taker, ask |-> maker]
          ELSE [bid |-> maker, ask |-> taker]]

\* The maker is the side opposite the aggressor's.
MakerIsBid(trade, side) == trade.bid                            \* mutant
MakerOf(trade, side) == IF side = "buy" THEN trade.ask ELSE trade.bid
TakerOf(trade, side) == IF side = "buy" THEN trade.bid ELSE trade.ask

emit_trades(m, side, trades) ==
    [i \in DOMAIN trades |->
       LET maker == MakerOf(trades[i], side)
       IN Trade(m.seq, maker.id, TakerOf(trades[i], side).id, maker.price, maker.qty)]

ShadowAfter(side, trades) ==
    LET HitMaker(shadow, trade) ==
            LET maker == MakerOf(trade, side)
            IN IF maker.id \in DOMAIN shadow
                 THEN [shadow EXCEPT ![maker.id] = Hit(shadow[maker.id], maker.qty)]
                 ELSE shadow
    IN FoldLeft(HitMaker, own, trades)

\* IOC is the engine's FillAndKill; it does not enter the shadow.
engine_on_new_order(m) ==
    LET a == IF m.ioc THEN Match(native, m.side, m.price, m.qty)
             ELSE AddLimit(native, m.id, m.side, m.price, m.qty)
        trades == EngineTrades(m, m.side, a.fills)
        hit == ShadowAfter(m.side, trades)
    IN /\ m.type = "new"
       /\ native' = a.book
       /\ own' = IF m.ioc THEN hit
                 ELSE [hit EXCEPT ![m.id] = Shadow(m.price, m.side, a.left)]
       /\ pushed' = <<OrderAck(m)>> \o emit_trades(m, m.side, trades)
                    \o Residual(m, a.left)

\* CancelOrder is silent when the order does not rest.
engine_on_cancel(m) ==
    /\ m.type = "cancel"
    /\ \/ /\ Alive(m.id)
          /\ native' = Without(native, m.id)
          /\ own' = [own EXCEPT ![m.id].alive = FALSE]
          /\ pushed' = <<CancelAck(m, own[m.id].side, own[m.id].price,
                                   own[m.id].remaining)>>
       \/ /\ ~Alive(m.id)
          /\ pushed' = <<CancelReject(m)>>
          /\ UNCHANGED <<native, own>>

engine_on_modify(m) ==
    LET side == own[m.id].side
        a == AddLimit(Without(native, m.id), m.id, side, m.price, m.qty)
        trades == EngineTrades(m, side, a.fills)
    IN /\ m.type = "modify"
       /\ \/ /\ Alive(m.id)
             /\ native' = a.book
             /\ own' = [ShadowAfter(side, trades) EXCEPT ![m.id] =
                           Shadow(m.price, side, a.left)]
             /\ pushed' = <<ModifyAck(m, side)>> \o emit_trades(m, side, trades)
          \/ /\ ~Alive(m.id)
             /\ pushed' = <<ModifyReject(m)>>
             /\ UNCHANGED <<native, own>>

Dispatch(m) == \/ engine_on_new_order(m)
               \/ engine_on_cancel(m)
               \/ engine_on_modify(m)

\* GetOrderInfos lists the levels of a side, best first.
engine_query_best_bid == Best(native, "buy")
engine_query_best_ask == Best(native, "sell")
engine_query_depth_at(price, side) == DepthAt(native, side, price)

Labelled == native

ShadowIsBook == ShadowsMatch(own, native)
=============================================================================
