--------------------------- MODULE RobahoAdapter ---------------------------
(***************************************************************************)
(* src/additional_references/robaho_adapter/robaho_adapter.cpp.  The       *)
(* engine cancels by its own exchange id and answers whether the order was *)
(* resting; the shadow translates the ids and is never marked dead, so the *)
(* exchange id of a dead order is asked again.  Fills are captured during  *)
(* the call and drained after it.                                          *)
(***************************************************************************)
EXTENDS EngineBook

CONSTANT RobahoTable    \* 1 << 21: the initial size of the shadow

VARIABLES
    native, \* the book; an order is known by exchange id and by order id
    own,    \* the shadow and the last exchange id
    pushed

vars == <<native, own, pushed>>

NoShadow == [xid |-> 0, price |-> 0, side |-> "buy", remaining |-> 0]

engine_init == /\ native = <<>>
               /\ own = [shadow |-> Slots(RobahoTable, NoShadow), last |-> 0]
               /\ pushed = <<>>

engine_prebuild(m) ==
    /\ own' = IF m.type = "new"
                THEN [own EXCEPT !.shadow = Grown(own.shadow, m.id, NoShadow)]
                ELSE own
    /\ UNCHANGED <<native, pushed>>

find_order(id) == Load(own.shadow, id, NoShadow)

\* Exchange::cancel: 0 when the order was resting, -1 when it was not.
CancelCode(xid) == IF \E i \in DOMAIN native : native[i].oid.xid = xid THEN 0 ELSE -1
Cancelled(xid) == SelectSeq(native, LAMBDA o : o.oid.xid # xid)

\* submit: the engine gives the order the next exchange id.
submit(book, id, side, price, qty) ==
    AddLimit(book, [xid |-> own.last + 1, id |-> id], side, price, qty)

\* Every captured fill becomes a trade and is taken off the maker's shadow.
DrainKeepsRemaining(shadow, fill) == shadow                     \* mutant
DrainOne(shadow, fill) ==
    IF fill.oid.id \notin DOMAIN shadow THEN shadow
    ELSE [shadow EXCEPT ![fill.oid.id].remaining =
             Most(shadow[fill.oid.id].remaining - fill.qty, 0)]
DrainedTrades(m, fills) ==
    [i \in DOMAIN fills |-> Trade(m.seq, fills[i].oid.id, m.id, fills[i].price,
                                  fills[i].qty)]

Recorded(shadow, m, side, left) ==
    [FoldLeft(DrainOne, own.shadow, shadow) EXCEPT ![m.id] =
        [xid |-> own.last + 1, price |-> m.price, side |-> side, remaining |-> left]]

\* An IOC order does not enter the shadow; its remainder is cancelled by the
\* exchange id of the submit.
engine_on_new_order(m) ==
    LET a == submit(native, m.id, m.side, m.price, m.qty)
    IN /\ m.type = "new"
       /\ native' = IF m.ioc THEN SelectSeq(a.book, LAMBDA o : o.oid.xid # own.last + 1)
                    ELSE a.book
       /\ own' = [last |-> own.last + 1,
                  shadow |-> IF m.ioc THEN FoldLeft(DrainOne, own.shadow, a.fills)
                             ELSE Recorded(a.fills, m, m.side, a.left)]
       /\ pushed' = <<OrderAck(m)>> \o DrainedTrades(m, a.fills) \o Residual(m, a.left)

\* An order without an exchange id cannot be asked about; any other is decided
\* by the engine.
Resting(id) == find_order(id).xid # 0 /\ CancelCode(find_order(id).xid) = 0

engine_on_cancel(m) ==
    LET s == find_order(m.id)
    IN /\ m.type = "cancel"
       /\ \/ /\ Resting(m.id)
             /\ native' = Cancelled(s.xid)
             /\ pushed' = <<CancelAck(m, s.side, s.price, s.remaining)>>
          \/ /\ ~Resting(m.id)
             /\ pushed' = <<CancelReject(m)>>
             /\ UNCHANGED native
       /\ UNCHANGED own

engine_on_modify(m) ==
    LET s == find_order(m.id)
        a == submit(Cancelled(s.xid), m.id, s.side, m.price, m.qty)
    IN /\ m.type = "modify"
       /\ \/ /\ Resting(m.id)
             /\ native' = a.book
             /\ own' = [last |-> own.last + 1,
                        shadow |-> Recorded(a.fills, m, s.side, a.left)]
             /\ pushed' = <<ModifyAck(m, s.side)>> \o DrainedTrades(m, a.fills)
          \/ /\ ~Resting(m.id)
             /\ pushed' = <<ModifyReject(m)>>
             /\ UNCHANGED <<native, own>>

Dispatch(m) == \/ engine_on_new_order(m)
               \/ engine_on_cancel(m)
               \/ engine_on_modify(m)

engine_query_best_bid == Best(native, "buy")
engine_query_best_ask == Best(native, "sell")
engine_query_depth_at(price, side) == DepthAt(native, side, price)

Labelled == [i \in DOMAIN native |-> [native[i] EXCEPT !.oid = native[i].oid.id]]

\* The exchange id in the shadow of an order that rests is that order's, with
\* its side, price and remainder.
ShadowIsBook ==
    \A i \in DOMAIN native :
        LET o == native[i]
            s == find_order(o.oid.id)
        IN <<s.xid, s.side, s.price, s.remaining>> = <<o.oid.xid, o.side, o.price, o.qty>>
=============================================================================
