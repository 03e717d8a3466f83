----------------------------- MODULE EngineBook -----------------------------
(***************************************************************************)
(* The book of a price-time engine as the adapters drive it: the resting   *)
(* orders in the order in which they were inserted, under the id the       *)
(* engine knows them by.  The engines are not part of this repository;     *)
(* what is here is what the adapters rely on.  Also the messages of        *)
(* api/matching_engine_api.h and the reports that answer them.             *)
(***************************************************************************)
EXTENDS Integers, Sequences, SequencesExt, FiniteSets

Sides == {"buy", "sell"}
Opposite(side) == IF side = "buy" THEN "sell" ELSE "buy"
Least(a, b) == IF a < b THEN a ELSE b
Most(a, b) == IF a > b THEN a ELSE b

-----------------------------------------------------------------------------
(* Messages and reports.                                                   *)

NewOrder(seq, id, side, price, qty, ioc) ==
    [type |-> "new", seq |-> seq, id |-> id, side |-> side, price |-> price,
     qty |-> qty, ioc |-> ioc]
Cancel(seq, id) == [type |-> "cancel", seq |-> seq, id |-> id]
Modify(seq, id, side, price, qty) ==
    [type |-> "modify", seq |-> seq, id |-> id, side |-> side,
     price |-> price, qty |-> qty]

Ack(type, seq, id, side, price, qty) ==
    [type |-> type, seq |-> seq, id |-> id, side |-> side, price |-> price,
     qty |-> qty]
OrderAck(m) == Ack("OrderAck", m.seq, m.id, m.side, m.price, m.qty)
CancelAck(m, side, price, qty) == Ack("CancelAck", m.seq, m.id, side, price, qty)
ModifyAck(m, side) == Ack("ModifyAck", m.seq, m.id, side, m.price, m.qty)
CancelReject(m) == Ack("CancelReject", m.seq, m.id, "buy", 0, 0)
ModifyReject(m) == Ack("ModifyReject", m.seq, m.id, "buy", 0, 0)

\* The remainder of an IOC order is answered with a CancelAck.
Residual(m, left) ==
    IF m.ioc /\ left > 0 THEN <<CancelAck(m, m.side, m.price, left)>> ELSE <<>>

Trade(seq, maker, taker, price, qty) ==
    [type |-> "Trade", seq |-> seq, maker |-> maker, taker |-> taker,
     price |-> price, qty |-> qty]
\* The trades of message m, for makers known by their order ids.
Trades(m, fills) ==
    [i \in DOMAIN fills |-> Trade(m.seq, fills[i].oid, m.id, fills[i].price,
                                  fills[i].qty)]

-----------------------------------------------------------------------------
(* The engine's book.                                                      *)

Entry(oid, side, price, qty) ==
    [oid |-> oid, side |-> side, price |-> price, qty |-> qty]

Has(book, oid) == \E i \in DOMAIN book : book[i].oid = oid
At(book, oid) == book[CHOOSE i \in DOMAIN book : book[i].oid = oid]
\* The orders of a book that Stays holds of, in the order they are in.
Joined(a, b) == a \o b
Filtered(book, Stays(_)) ==
    FoldLeft(Joined, <<>>,
             [i \in DOMAIN book |-> IF Stays(book[i]) THEN <<book[i]>> ELSE <<>>])
Without(book, oid) == Filtered(book, LAMBDA o : o.oid # oid)

\* A limit at price p on side s accepts the price q of the other side.
Accepts(s, p, q) == IF s = "buy" THEN q <= p ELSE q >= p

\* a is a better price than b for the orders of side s.
Better(s, a, b) == IF s = "buy" THEN a > b ELSE a < b

\* The places of the orders that an incoming order meets, in match order: the
\* best price first, the oldest first within a price.  So the one in place r has
\* r - 1 ahead of it.
Crossing(book, side, limit) ==
    {i \in DOMAIN book : /\ book[i].side = Opposite(side)
                         /\ Accepts(side, limit, book[i].price)}
Ahead(book, i, j) ==
    \/ Better(book[j].side, book[i].price, book[j].price)
    \/ book[i].price = book[j].price /\ i < j
Makers(book, side, limit) ==
    LET met == Crossing(book, side, limit)
    IN [r \in 1 .. Cardinality(met) |->
          CHOOSE i \in met : Cardinality({j \in met : Ahead(book, j, i)}) = r - 1]

\* What an incoming order of qty takes from the book: what it has left, its
\* fills in match order (rest is what the maker has left) and the book after.
Take(acc, i) ==
    LET maker == acc.book[i]
        q == Least(acc.left, maker.qty)
    IN IF q = 0 THEN acc
       ELSE [left |-> acc.left - q,
             fills |-> Append(acc.fills, [oid |-> maker.oid, price |-> maker.price,
                                          qty |-> q, rest |-> maker.qty - q]),
             book |-> [acc.book EXCEPT ![i].qty = maker.qty - q]]
Match(book, side, limit, qty) ==
    LET swept == FoldLeft(Take, [left |-> qty, fills |-> <<>>, book |-> book],
                          Makers(book, side, limit))
    IN [swept EXCEPT !.book = Filtered(swept.book, LAMBDA o : o.qty > 0)]

\* A limit order: what is left of it rests behind everything that rests.
WithRest(matched, oid, side, limit) ==
    IF matched.left = 0 THEN matched
    ELSE [matched EXCEPT !.book = Append(matched.book,
                                         Entry(oid, side, limit, matched.left))]
AddLimit(book, oid, side, limit, qty) ==
    WithRest(Match(book, side, limit, qty), oid, side, limit)

-----------------------------------------------------------------------------
(* The contract.                                                           *)

\* What follows from matching a, for a new and for a modified order.
Placed(m, a) ==
    [book |-> IF m.ioc THEN Without(a.book, m.id) ELSE a.book,
     reports |-> <<OrderAck(m)>> \o Trades(m, a.fills) \o Residual(m, a.left)]
Reinserted(m, a) == [book |-> a.book,
                   reports |-> Trades(m, a.fills) \o <<ModifyAck(m, m.side)>>]

\* The answer to m under book b: the reports and the book after.
Replied(b, m) ==
    CASE m.type = "cancel" /\ Has(b, m.id) ->
           LET o == At(b, m.id)
           IN [book |-> Without(b, m.id),
               reports |-> <<CancelAck(m, o.side, o.price, 0)>>]
      [] m.type = "cancel" /\ ~Has(b, m.id) ->
           [book |-> b, reports |-> <<CancelReject(m)>>]
      [] m.type = "modify" /\ ~Has(b, m.id) ->
           [book |-> b, reports |-> <<ModifyReject(m)>>]
      [] m.type = "modify" /\ Has(b, m.id) ->
           Reinserted(m, AddLimit(Without(b, m.id), m.id, m.side, m.price, m.qty))
      [] m.type = "new" ->
           Placed(m, AddLimit(b, m.id, m.side, m.price, m.qty))

-----------------------------------------------------------------------------
(* The flat tables the adapters index by order id: a load past the end     *)
(* finds nothing, std::vector::resize fills the new slots.                 *)

Slots(n, none) == [i \in 0 .. n - 1 |-> none]
Size(table) == Cardinality(DOMAIN table)
Load(table, i, none) == IF i \in DOMAIN table THEN table[i] ELSE none
Resized(table, n, none) == [i \in 0 .. n - 1 |-> Load(table, i, none)]
\* Room for index i, at least doubling.
Grown(table, i, none) ==
    IF i < Size(table) THEN table
    ELSE Resized(table, Most(2 * Size(table), i + 1), none)

\* The shadow of one order, and what a fill of it as maker leaves.
Dead == [price |-> 0, remaining |-> 0, side |-> "buy", alive |-> FALSE]
Shadow(price, side, left) ==
    [price |-> price, remaining |-> left, side |-> side, alive |-> left > 0]
Hit(shadow, qty) ==
    LET left == Most(shadow.remaining - qty, 0)
    IN [shadow EXCEPT !.remaining = left, !.alive = shadow.alive /\ left > 0]

\* A table of shadows is alive exactly for the orders that rest, with their
\* side, price and remainder.
ShadowsMatch(shadows, book) ==
    /\ \A i \in DOMAIN book : Load(shadows, book[i].oid, Dead).alive
    /\ \A id \in DOMAIN shadows : shadows[id].alive =>
         /\ Has(book, id)
         /\ At(book, id) = Entry(id, shadows[id].side, shadows[id].price,
                                 shadows[id].remaining)

-----------------------------------------------------------------------------
(* What a book answers to the three queries; NoBid and NoAsk stand for      *)
(* INT64_MIN and INT64_MAX.                                                *)

NoBid == -1000000
NoAsk == 1000000

PricesOn(book, side) ==
    {book[i].price : i \in {j \in DOMAIN book : book[j].side = side}}
Best(book, side) ==
    LET ps == PricesOn(book, side)
    IN IF ps = {} THEN IF side = "buy" THEN NoBid ELSE NoAsk
       ELSE CHOOSE p \in ps : \A q \in ps \ {p} : Better(side, p, q)
Plus(a, b) == a + b
DepthAt(book, side, price) ==
    FoldLeft(Plus, 0, [i \in DOMAIN book |->
                         IF book[i].side = side /\ book[i].price = price
                           THEN book[i].qty ELSE 0])
=============================================================================
