-------------------------- MODULE HroptatyrAdapter --------------------------
(***************************************************************************)
(* src/additional_references/hroptatyr_clob_adapter/                       *)
(* hroptatyr_clob_adapter.c.  The engine only matches: the adapter rests   *)
(* the remainder itself and keeps the handle it gets.  A handle is side,   *)
(* price and a queue id that starts over when the level has emptied, so    *)
(* the handle of a dead order may name another order.                      *)
(***************************************************************************)
EXTENDS EngineBook, FiniteSetsExt

CONSTANT HroptatyrShadow    \* 1 << 21: the initial shadow slots

VARIABLES
    native, \* [book, tails]: tails maps a level to the last queue id it gave
    own,    \* g_shadow
    pushed

vars == <<native, own, pushed>>

NoHandle == [sid |-> "buy", prc |-> 0, qid |-> 0, usr |-> 0]
NoShadow == [oid |-> NoHandle, live |-> FALSE]

engine_init == /\ native = [book |-> <<>>, tails |-> << >>]
               /\ own = Slots(HroptatyrShadow, NoShadow)
               /\ pushed = <<>>

-----------------------------------------------------------------------------
(* The engine: a level that empties is freed, and its queue ids with it.   *)

Levels(book) == {<<book[i].side, book[i].price>> : i \in DOMAIN book}
Freed(book, tails) ==
    [book |-> book, tails |-> [l \in Levels(book) |-> tails[l]]]

unxs_order(clob, side, price, qty) ==
    LET m == Match(clob.book, side, price, qty)
    IN [left |-> m.left, fills |-> m.fills, clob |-> Freed(m.book, clob.tails)]

Handle(clob, side, price, usr) ==
    LET l == <<side, price>>
    IN [sid |-> side, prc |-> price, usr |-> usr,
        qid |-> IF l \in DOMAIN clob.tails THEN clob.tails[l] + 1 ELSE 1]

clob_add(clob, oid, qty) ==
    LET b == Append(clob.book, Entry(oid, oid.sid, oid.prc, qty))
    IN [book |-> b,
        tails |-> [l \in Levels(b) |->
            IF l = <<oid.sid, oid.prc>> THEN oid.qid ELSE clob.tails[l]]]

\* The order a handle names: usr is not looked at.
Names(oid, o) == <<oid.sid, oid.prc, oid.qid>> = <<o.oid.sid, o.oid.prc, o.oid.qid>>
Named(clob, oid) == SelectSeq(clob.book, LAMBDA o : Names(oid, o))
clob_del(clob, oid) ==
    Freed(SelectSeq(clob.book, LAMBDA o : ~Names(oid, o)), clob.tails)

-----------------------------------------------------------------------------
(* The adapter.                                                            *)

\* The shadow doubles until it has a slot for the id.
shadow_ensure(shadow, id) ==
    Resized(shadow, Min({n \in {Size(shadow) * 2 ^ e : e \in 0 .. 8} : n > id}),
            NoShadow)

engine_prebuild(m) == /\ own' = shadow_ensure(own, m.id)
                      /\ UNCHANGED <<native, pushed>>

\* A write to a slot that the shadow may not have.
Live(shadow, id, live) ==
    IF id \in DOMAIN shadow THEN [shadow EXCEPT ![id].live = live] ELSE shadow

\* Drain the execution stream: a maker with nothing left is no longer live.
DrainKeepsLive(shadow, fill) == shadow                          \* mutant
drain_executions(shadow, fill) ==
    IF fill.rest <= 0 THEN Live(shadow, fill.oid.usr, FALSE) ELSE shadow

Fills(m, fills) ==
    [i \in DOMAIN fills |-> Trade(m.seq, fills[i].oid.usr, m.id, fills[i].price,
                                  fills[i].qty)]

\* Cross, then rest the remainder and keep its handle, unless the order is an
\* IOC order or nothing is left.
cross_and_rest(clob, shadow, m, ioc) ==
    LET x == unxs_order(clob, m.side, m.price, m.qty)
        drained == FoldLeft(drain_executions, shadow, x.fills)
        oid == Handle(x.clob, m.side, m.price, m.id)
        rests == x.left > 0 /\ ~ioc
    IN /\ native' = IF rests THEN clob_add(x.clob, oid, x.left) ELSE x.clob
       /\ own' = IF rests
                   THEN [shadow_ensure(drained, m.id) EXCEPT
                            ![m.id] = [oid |-> oid, live |-> TRUE]]
                   ELSE Live(drained, m.id, FALSE)

engine_on_new_order(m) ==
    LET x == unxs_order(native, m.side, m.price, m.qty)
    IN /\ m.type = "new"
       /\ cross_and_rest(native, own, m, m.ioc)
       /\ pushed' = <<OrderAck(m)>> \o Fills(m, x.fills) \o Residual(m, x.left)

\* The handle is good only while the order is live.
IsLive(id) == Load(own, id, NoShadow).live

engine_on_cancel(m) ==
    /\ m.type = "cancel"
    /\ \/ /\ IsLive(m.id)
          /\ own' = Live(own, m.id, FALSE)
          /\ native' = clob_del(native, own[m.id].oid)
          /\ pushed' = IF Named(native, own[m.id].oid) = <<>>
                         THEN <<CancelReject(m)>>
                         ELSE <<CancelAck(m, own[m.id].oid.sid, own[m.id].oid.prc, 0)>>
       \/ /\ ~IsLive(m.id)
          /\ pushed' = <<CancelReject(m)>>
          /\ UNCHANGED <<native, own>>

engine_on_modify(m) ==
    LET clob == clob_del(native, own[m.id].oid)
    IN /\ m.type = "modify"
       /\ \/ /\ IsLive(m.id)
             /\ cross_and_rest(clob, Live(own, m.id, FALSE), m, FALSE)
             /\ pushed' = Fills(m, unxs_order(clob, m.side, m.price, m.qty).fills)
                          \o <<ModifyAck(m, m.side)>>
          \/ /\ ~IsLive(m.id)
             /\ pushed' = <<ModifyReject(m)>>
             /\ UNCHANGED <<native, own>>

engine_on_batch(m) == \/ engine_on_new_order(m)
                      \/ engine_on_cancel(m)
                      \/ engine_on_modify(m)

engine_query_best_bid == Best(native.book, "buy")
engine_query_best_ask == Best(native.book, "sell")
engine_query_depth_at(price, side) == DepthAt(native.book, side, price)

Labelled == [i \in DOMAIN native.book |->
                [native.book[i] EXCEPT !.oid = native.book[i].oid.usr]]

\* A live handle names the order it was given for and no other, and an order
\* that rests is live.
ShadowIsBook ==
    /\ \A id \in DOMAIN own : own[id].live =>
         LET named == Named(native, own[id].oid)
         IN Len(named) = 1 /\ named[1].oid.usr = id
    /\ \A i \in DOMAIN native.book : IsLive(native.book[i].oid.usr)
=============================================================================
