-------------------------- MODULE CppTraderAdapter --------------------------
(***************************************************************************)
(* src/additional_references/cpptrader_adapter/cpptrader_adapter.cpp.  The *)
(* adapter keeps no order state: GetOrder of the engine decides.  A fill   *)
(* arrives as two callbacks, the maker's and the taker's, which the        *)
(* handler pairs into one trade; what is left unpaired is state.           *)
(***************************************************************************)
EXTENDS EngineBook

VARIABLES native, own, pushed   \* own is the handler's pairing

vars == <<native, own, pushed>>

Unpaired == [have |-> FALSE, maker |-> 0, price |-> 0, qty |-> 0]

engine_init == native = <<>> /\ own = Unpaired /\ pushed = <<>>

\* MatchOrder calls onExecuteOrder for the maker, then for the taker.
Executions(fills, taker) ==
    FlattenSeq([i \in DOMAIN fills |->
        <<fills[i], [fills[i] EXCEPT !.oid = taker]>>])

\* The first call of a pair is kept, the second makes the trade.
KeepsPair(acc, seq, call) ==                                    \* mutant
    IF ~acc.pair.have
      THEN [acc EXCEPT !.pair = [have |-> TRUE, maker |-> call.oid,
                                 price |-> call.price, qty |-> call.qty]]
      ELSE [acc EXCEPT !.trades = Append(acc.trades,
               Trade(seq, acc.pair.maker, call.oid, acc.pair.price, acc.pair.qty))]
onExecuteOrder(acc, seq, call) ==
    IF ~acc.pair.have
      THEN [acc EXCEPT !.pair = [have |-> TRUE, maker |-> call.oid,
                                 price |-> call.price, qty |-> call.qty]]
      ELSE [pair |-> Unpaired,
            trades |-> Append(acc.trades, Trade(seq, acc.pair.maker, call.oid,
                                                acc.pair.price, acc.pair.qty))]

\* begin_call resets the pairing; then the engine calls back.
Paired(m, fills) ==
    LET On(acc, call) == onExecuteOrder(acc, m.seq, call)
    IN FoldLeft(On, [pair |-> Unpaired, trades |-> <<>>], Executions(fills, m.id))

engine_on_new_order(m) ==
    LET a == IF m.ioc THEN Match(native, m.side, m.price, m.qty)
             ELSE AddLimit(native, m.id, m.side, m.price, m.qty)
        calls == Paired(m, a.fills)
    IN /\ m.type = "new"
       /\ native' = a.book
       /\ own' = calls.pair
       /\ pushed' = <<OrderAck(m)>> \o calls.trades \o Residual(m, a.left)

\* Side, price and quantity are taken before DeleteOrder releases the order.
engine_on_cancel(m) ==
    /\ m.type = "cancel"
    /\ \/ /\ Has(native, m.id)
          /\ native' = Without(native, m.id)
          /\ LET live == At(native, m.id)
             IN pushed' = <<CancelAck(m, live.side, live.price, live.qty)>>
       \/ /\ ~Has(native, m.id)
          /\ pushed' = <<CancelReject(m)>>
          /\ UNCHANGED native
    /\ UNCHANGED own

\* ModifyOrder of the engine deletes, matches and adds; the side is the resting
\* order's, the ack comes first.
engine_on_modify(m) ==
    LET side == At(native, m.id).side
        a == AddLimit(Without(native, m.id), m.id, side, m.price, m.qty)
        calls == Paired(m, a.fills)
    IN /\ m.type = "modify"
       /\ \/ /\ Has(native, m.id)
             /\ native' = a.book
             /\ own' = calls.pair
             /\ pushed' = <<ModifyAck(m, side)>> \o calls.trades
          \/ /\ ~Has(native, m.id)
             /\ pushed' = <<ModifyReject(m)>>
             /\ UNCHANGED <<native, own>>

Dispatch(m) == \/ engine_on_new_order(m)
               \/ engine_on_cancel(m)
               \/ engine_on_modify(m)

engine_query_best_bid == Best(native, "buy")
engine_query_best_ask == Best(native, "sell")
engine_query_depth_at(price, side) ==
    IF price < 0 THEN 0 ELSE DepthAt(native, side, price)

Labelled == native

\* No half of a fill is left over for the next message.
NothingPending == ~own.have
=============================================================================
