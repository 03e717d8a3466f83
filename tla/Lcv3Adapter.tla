---------------------------- MODULE Lcv3Adapter ----------------------------
(***************************************************************************)
(* src/additional_references/lcv3_adapter/lcv3_adapter.cpp.  The engine    *)
(* reports everything itself, but finds an order by side, price and pool   *)
(* slot, which the adapter has to remember: the price is refreshed inside  *)
(* the engine's modifyACK callback, before the reinsert.  The tables are   *)
(* sized once and indexed without a check; engine_prebuild is empty.       *)
(***************************************************************************)
EXTENDS EngineBook

CONSTANT Lcv3Table      \* 1 << 21: the size of the tables, for good

VARIABLES native, own, pushed   \* an order is known by order id and slot

vars == <<native, own, pushed>>

InitOwn == [side |-> Slots(Lcv3Table, "buy"), price |-> Slots(Lcv3Table, 0),
            slot |-> Slots(Lcv3Table, 0)]

engine_init == native = <<>> /\ own = InitOwn /\ pushed = <<>>

find_side(id) == Load(own.side, id, "buy")
find_price(id) == Load(own.price, id, 0)
SetNothing(globals, id, price) == globals                       \* mutant
set_price(globals, id, price) ==
    IF id \in DOMAIN globals.price THEN [globals EXCEPT !.price[id] = price]
    ELSE globals

-----------------------------------------------------------------------------
(* The engine: a slot is free again when its order is gone, and an order   *)
(* is found where side, price and slot say it is, if it is still there.    *)

FreeSlot(book) == CHOOSE s \in 1 .. Len(book) + 1 :
                    /\ \A i \in DOMAIN book : book[i].oid.slot # s
                    /\ \A t \in 1 .. s - 1 :
                          \E i \in DOMAIN book : book[i].oid.slot = t

\* insert_order: [book, fills, left, slot], slot 0 when nothing rests.
insert_order(book, id, side, price, qty) ==
    LET m == Match(book, side, price, qty)
        slot == IF m.left = 0 THEN 0 ELSE FreeSlot(m.book)
    IN [left |-> m.left, fills |-> m.fills, slot |-> slot,
        book |-> IF slot = 0 THEN m.book
                 ELSE Append(m.book, Entry([id |-> id, slot |-> slot], side, price,
                                           m.left))]

Found(id, side, price, slot) ==
    \E i \in DOMAIN native :
        native[i] = Entry([id |-> id, slot |-> slot], side, price, native[i].qty)
Taken(id, slot) == Without(native, [id |-> id, slot |-> slot])

-----------------------------------------------------------------------------
(* The adapter.                                                            *)

TradeOf(m, fills) ==
    [i \in DOMAIN fills |-> Trade(m.seq, fills[i].oid.id, m.id, fills[i].price,
                                  fills[i].qty)]

\* An IOC order leaves the slot of its id as it was.
engine_on_new_order(m) ==
    LET a == insert_order(native, m.id, m.side, m.price, m.qty)
        known == [own EXCEPT !.side[m.id] = m.side, !.price[m.id] = m.price]
    IN /\ m.type = "new"
       /\ native' = IF m.ioc THEN Match(native, m.side, m.price, m.qty).book ELSE a.book
       /\ own' = IF m.ioc THEN known ELSE [known EXCEPT !.slot[m.id] = a.slot]
       /\ pushed' = <<OrderAck(m)>> \o TradeOf(m, a.fills) \o Residual(m, a.left)

engine_on_cancel(m) ==
    LET side == find_side(m.id)
        price == find_price(m.id)
        slot == own.slot[m.id]
    IN /\ m.type = "cancel"
       /\ \/ /\ Found(m.id, side, price, slot)
             /\ native' = Taken(m.id, slot)
             /\ pushed' = <<CancelAck(m, side, price, 0)>>
          \/ /\ ~Found(m.id, side, price, slot)
             /\ pushed' = <<CancelReject(m)>>
             /\ UNCHANGED native
       /\ UNCHANGED own

\* update_order acknowledges (and the price is refreshed), then reinserts; the
\* slot of the id becomes the slot it returns.
engine_on_modify(m) ==
    LET side == find_side(m.id)
        slot == own.slot[m.id]
        a == insert_order(Taken(m.id, slot), m.id, side, m.price, m.qty)
    IN /\ m.type = "modify"
       /\ \/ /\ Found(m.id, side, find_price(m.id), slot)
             /\ native' = a.book
             /\ own' = [set_price(own, m.id, m.price) EXCEPT !.slot[m.id] = a.slot]
             /\ pushed' = <<ModifyAck(m, side)>> \o TradeOf(m, a.fills)
          \/ /\ ~Found(m.id, side, find_price(m.id), slot)
             /\ own' = [own EXCEPT !.slot[m.id] = 0]
             /\ pushed' = <<ModifyReject(m)>>
             /\ UNCHANGED native

Dispatch(m) == \/ engine_on_new_order(m)
               \/ engine_on_cancel(m)
               \/ engine_on_modify(m)

engine_query_best_bid == Best(native, "buy")
engine_query_best_ask == Best(native, "sell")
engine_query_depth_at(price, side) == DepthAt(native, side, price)

Labelled == [i \in DOMAIN native |-> [native[i] EXCEPT !.oid = native[i].oid.id]]

\* Side, price and slot lead to every order that rests.
ShadowIsBook ==
    \A i \in DOMAIN native :
        LET o == native[i]
        IN <<find_side(o.oid.id), find_price(o.oid.id), own.slot[o.oid.id]>>
             = <<o.side, o.price, o.oid.slot>>
=============================================================================
