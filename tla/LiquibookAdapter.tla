-------------------------- MODULE LiquibookAdapter --------------------------
(***************************************************************************)
(* src/adapters/liquibook_adapter.cpp.  Liquibook numbers an order when it *)
(* is constructed and cancels by pointer, so the adapter keeps two tables: *)
(* order id -> order and liquibook id -> order id.  Both are sized before  *)
(* the timed window and indexed without a check inside it.                 *)
(***************************************************************************)
EXTENDS EngineBook

CONSTANT LiquibookTable     \* 1 << 21: the initial size of both tables

VARIABLES
    native, \* the book, under liquibook's ids
    own,    \* the adapter's globals, a record (InitOwn)
    pushed  \* the reports pushed for the latest message

vars == <<native, own, pushed>>

\* orders holds the liquibook id of the order, 0 for nullptr; last is
\* liquibook's static last_order_id_.
InitOwn == [orders |-> Slots(LiquibookTable, 0), lb2ext |-> Slots(LiquibookTable, 0),
            last |-> 0, built |-> 0, seq |-> 0]

engine_init == native = <<>> /\ own = InitOwn /\ pushed = <<>>

GrowReverseLate(built) ==                                       \* mutant
    Grown(own.lb2ext, built - 1, 0)
GrowReverse(built) == Grown(own.lb2ext, built, 0)

\* A cancel builds no order; a new order and a modify build one each.
engine_prebuild(m) ==
    /\ own' = IF m.type = "cancel" THEN own
              ELSE [own EXCEPT !.built = own.built + 1,
                               !.lb2ext = GrowReverse(own.built + 1),
                               !.orders = IF m.type = "new"
                                            THEN Grown(own.orders, m.id, 0)
                                            ELSE own.orders]
    /\ UNCHANGED <<native, pushed>>

find_order(id) == Load(own.orders, id, 0)
resting(oid) == oid # 0 /\ Has(native, oid)

\* Construction numbers the order; both tables are written unchecked, so a
\* store past the end is lost here.
MakeOrder(id, seq) ==
    LET oid == own.last + 1
    IN [own EXCEPT !.last = oid, !.seq = seq, !.lb2ext[oid] = id,
                   !.orders[id] = oid]

\* Listener::on_fill: the trade is labelled through the reverse table.
on_fill(globals, fill, taker) ==
    Trade(globals.seq, Load(globals.lb2ext, fill.oid, 0),
          Load(globals.lb2ext, taker, 0), fill.price, fill.qty)

Fills(globals, fills) ==
    [i \in DOMAIN fills |-> on_fill(globals, fills[i], globals.last)]

engine_on_new_order(m) ==
    LET a == AddLimit(native, own.last + 1, m.side, m.price, m.qty)
    IN /\ m.type = "new"
       /\ own' = MakeOrder(m.id, m.seq)
       /\ native' = IF m.ioc THEN Without(a.book, own'.last) ELSE a.book
       /\ pushed' = <<OrderAck(m)>>
                    \o Fills(own', a.fills)
                    \o Residual(m, a.left)

engine_on_cancel(m) ==
    LET oid == find_order(m.id)
    IN /\ m.type = "cancel"
       /\ \/ /\ resting(oid)
             /\ native' = Without(native, oid)
             /\ pushed' = <<CancelAck(m, At(native, oid).side, At(native, oid).price, 0)>>
          \/ /\ ~resting(oid)
             /\ pushed' = <<CancelReject(m)>>
             /\ UNCHANGED native
       /\ UNCHANGED own

\* The old order is taken out first; the new one has a new liquibook id and
\* overwrites the slot of the order id.  The ack follows the trades.
engine_on_modify(m) ==
    LET old == find_order(m.id)
        a == AddLimit(Without(native, old), own.last + 1, m.side, m.price, m.qty)
    IN /\ m.type = "modify"
       /\ \/ /\ resting(old)
             /\ own' = MakeOrder(m.id, m.seq)
             /\ native' = a.book
             /\ pushed' = Fills(own', a.fills)
                          \o <<ModifyAck(m, m.side)>>
          \/ /\ ~resting(old)
             /\ own' = [own EXCEPT !.seq = m.seq]
             /\ pushed' = <<ModifyReject(m)>>
             /\ UNCHANGED native

engine_on_batch(m) == \/ engine_on_new_order(m)
                      \/ engine_on_cancel(m)
                      \/ engine_on_modify(m)

engine_query_best_bid == Best(native, "buy")
engine_query_best_ask == Best(native, "sell")
engine_query_depth_at(price, side) == DepthAt(native, side, price)

\* The book under the order ids of the workload.
Labelled == [i \in DOMAIN native |->
                [native[i] EXCEPT !.oid = Load(own.lb2ext, native[i].oid, 0)]]

\* Every order constructed so far has its slot in both tables.
InBounds == /\ own.last < Size(own.lb2ext)
            /\ \A i \in DOMAIN native : native[i].oid \in DOMAIN own.lb2ext
=============================================================================
