-------------------------- MODULE PgellertAdapter --------------------------
(***************************************************************************)
(* src/additional_references/pgellert_adapter/wrapper/src/lib.rs around    *)
(* its FifoBook.  The engine is symmetric (it does not know a taker), has  *)
(* no IOC, and its cancel wants the side: a shadow per order knows it.     *)
(***************************************************************************)
EXTENDS FifoBook, CanonicalOutput

VARIABLES
    shadow,     \* id -> price, remaining quantity, side, alive
    message,    \* the message being handled, or handled last
    busy,       \* its handler has not returned
    pushed,     \* its reports
    arrived,    \* history: ids in the order in which they were applied
    seen        \* history: book, message and answer as the last handler left them

vars == <<fifoVars, shadow, message, busy, pushed, arrived, seen>>

NoMessage == [type |-> "none", seq |-> 0]

\* The resting orders as one book, in the order in which they were applied.
Resting == UNION {ToSet(buckets[s][p]) : s \in Sides, p \in Prices}
OrderOf(id) == CHOOSE o \in Resting : o.id = id
RestingIds == Filtered(arrived, LAMBDA id : \E o \in Resting : o.id = id)
Book ==
    LET ids == RestingIds
    IN [k \in DOMAIN ids |->
          Entry(ids[k], OrderOf(ids[k]).side, OrderOf(ids[k]).price, OrderOf(ids[k]).size)]

\* The orders the adapter holds for alive, as a book: its shadows say which side
\* a cancel looks on, what a modify reinserts, and what is acked or rejected.
LiveIds == Filtered(arrived, LAMBDA id : shadow[id].alive)
ShadowBook ==
    LET ids == LiveIds
    IN [k \in DOMAIN ids |-> Entry(ids[k], shadow[ids[k]].side, shadow[ids[k]].price,
                                   shadow[ids[k]].remaining)]

engine_init ==
    /\ Init
    /\ shadow = [id \in Ids |-> Dead]
    /\ message = NoMessage /\ busy = FALSE /\ pushed = <<>> /\ arrived = <<>>
    /\ seen = [book |-> <<>>, message |-> NoMessage, answer |-> <<>>]

-----------------------------------------------------------------------------
(* The handlers, up to the call of check_for_trades.                       *)

BookOrder(m, side) == [id |-> m.id, side |-> side, price |-> m.price, size |-> m.qty]
Arrives(id) == arrived' = Append(Filtered(arrived, LAMBDA i : i # id), id)

engine_on_new_order(m) ==
    /\ Insert(BookOrder(m, m.side))
    /\ pushed' = <<OrderAck(m)>>
    /\ message' = m /\ busy' = TRUE
    /\ Arrives(m.id)
    /\ UNCHANGED <<shadow, seen>>

\* A handler is left with the reports out.
Leaves(m, out) ==
    /\ message' = m /\ busy' = FALSE /\ pushed' = out
    /\ seen' = [book |-> Book', message |-> m, answer |-> build_canonical_text(out)]

engine_on_cancel(m) ==
    LET sh == shadow[m.id] IN
    /\ UNCHANGED arrived
    /\ \/ /\ sh.alive
          /\ cancel(m.id, sh.side)
          /\ shadow' = [shadow EXCEPT ![m.id].alive = FALSE, ![m.id].remaining = 0]
          /\ Leaves(m, <<CancelAck(m, sh.side, sh.price, 0)>>)
       \/ /\ ~sh.alive
          /\ UNCHANGED <<fifoVars, shadow>>
          /\ Leaves(m, <<CancelReject(m)>>)

\* Cancel on the recorded side, then reinsert on the same side.
ModifiedSide(m) == shadow[m.id].side

engine_on_modify(m) ==
    LET sh == shadow[m.id] IN
    \/ /\ sh.alive
       /\ Reinsert(BookOrder(m, ModifiedSide(m)))
       /\ shadow' = [shadow EXCEPT ![m.id].alive = FALSE, ![m.id].remaining = 0]
       /\ pushed' = <<ModifyAck(m, sh.side)>>
       /\ message' = m /\ busy' = TRUE
       /\ Arrives(m.id)
       /\ UNCHANGED seen
    \/ /\ ~sh.alive
       /\ UNCHANGED <<fifoVars, shadow, arrived>>
       /\ Leaves(m, <<ModifyReject(m)>>)

-----------------------------------------------------------------------------
(* match_aggressor after check_for_trades, and the rest of the handler.    *)

\* The symmetric trade is read from the side of the aggressor.
Aggressor(trade) == IF taker.side = "buy" THEN trade.bid ELSE trade.ask
Maker(trade) == IF taker.side = "buy" THEN trade.ask ELSE trade.bid
BidPrice(trade) == trade.bid.price                              \* mutant
MakerPrice(trade) == Maker(trade).price

Emitted ==
    [k \in DOMAIN trades |->
       Trade(message.seq, Maker(trades[k]).id, Aggressor(trades[k]).id,
             MakerPrice(trades[k]), trades[k].quantity)]

HitAggressor(sh, trade) ==                                      \* mutant
    [sh EXCEPT ![Aggressor(trade).id] = Hit(sh[Aggressor(trade).id], trade.quantity)]
HitMaker(sh, trade) ==
    [sh EXCEPT ![Maker(trade).id] = Hit(sh[Maker(trade).id], trade.quantity)]

Left == FoldLeft(LAMBDA left, trade : left - trade.quantity, taker.size, trades)
Dropping == message.type = "new" /\ message.ioc
DroppedOf(left) ==
    IF Dropping /\ left > 0
      THEN <<CancelAck(message, taker.side, taker.price, left)>> ELSE <<>>

\* The remainder rests under a new shadow; that of an IOC order is cancelled.
match_aggressor ==
    /\ busy /\ ~matching
    /\ LET hit == FoldLeft(HitMaker, shadow, trades)
           left == Left
       IN /\ shadow' = IF left > 0 /\ ~Dropping
                         THEN [hit EXCEPT ![taker.id] = Shadow(taker.price, taker.side, left)]
                         ELSE hit
          /\ IF left > 0 /\ Dropping THEN cancel(taker.id, taker.side) ELSE Return
          /\ UNCHANGED arrived
          /\ Leaves(message, pushed \o Emitted \o DroppedOf(left))

Matching == check_for_trades /\ UNCHANGED <<shadow, message, busy, pushed, arrived, seen>>

-----------------------------------------------------------------------------
(* The audit queries: they scan the buckets, not the bounds.               *)

LivePrices(s) == {p \in Prices : buckets[s][p] # <<>>}
BestByBound(s) == IF s = "buy" THEN hi[s] ELSE lo[s]            \* mutant
BestLive(s) == CHOOSE p \in LivePrices(s) : \A q \in LivePrices(s) : ~Better(s, q, p)
engine_query_best_bid == IF LivePrices("buy") = {} THEN NoBid ELSE BestLive("buy")
engine_query_best_ask == IF LivePrices("sell") = {} THEN NoAsk ELSE BestLive("sell")
engine_query_depth_at(price, side) ==
    IF price < 0 THEN 0
    ELSE FoldLeft(LAMBDA sum, o : sum + o.size, 0, buckets[side][price])

-----------------------------------------------------------------------------
\* The workload: an order id comes back only when its order is dead, a modify
\* repeats the side of its order; the terms of a stale modify are not looked at.
NextSeq == 1 - message.seq
NewsAt(seq) == {NewOrder(seq, id, s, p, q, ioc) :
                  id \in Ids, s \in Sides, p \in Prices, q \in Sizes, ioc \in BOOLEAN}
CancelsAt(seq) == {Cancel(seq, id) : id \in Ids}
ModifiesAt(seq) == {Modify(seq, id, s, p, q) :
                      id \in Ids, s \in Sides, p \in Prices, q \in Sizes}
AllMessages == UNION {NewsAt(seq) \cup CancelsAt(seq) \cup ModifiesAt(seq) : seq \in {0, 1}}
SaneModify(m) == IF shadow[m.id].alive THEN m.side = shadow[m.id].side
                 ELSE m.side = "buy" /\ m.price = 0 /\ m.qty = 1

Deliver ==
    /\ AtRest
    /\ \/ \E m \in NewsAt(NextSeq) : engine_on_new_order(m)
       \/ \E m \in CancelsAt(NextSeq) : engine_on_cancel(m)
       \/ \E m \in ModifiesAt(NextSeq) : SaneModify(m) /\ engine_on_modify(m)

AdapterNext == Deliver \/ Matching \/ match_aggressor

Spec == engine_init /\ [][AdapterNext]_vars

-----------------------------------------------------------------------------
(* Properties.                                                             *)

\* The adapter learns of the matching only from the trades it is returned, maker
\* by maker, yet between two messages its shadows are the book: the same orders
\* alive, each on its side, at its price and with what is left of it.
ShadowIsBook == AtRest => ShadowBook = Book

\* The queries scan the buckets and never look at the shadows, the handlers go by
\* the shadows: what the audit is told is what the handlers act on.
QueriesAnswerBook ==
    AtRest =>
        /\ engine_query_best_bid = Best(ShadowBook, "buy")
        /\ engine_query_best_ask = Best(ShadowBook, "sell")
        /\ \A p \in Prices, s \in Sides :
              engine_query_depth_at(p, s) = DepthAt(ShadowBook, s, p)

\* From message to message the engine and its adapter are the reference engine:
\* the same book, and reports with the same canonical text.
Reference == INSTANCE ReferenceEngine
                WITH book <- seen.book, message <- seen.message, answer <- seen.answer,
                     Messages <- AllMessages
EngineConforms == Reference!Spec
=============================================================================
