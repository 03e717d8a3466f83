------------------------------ MODULE FifoBook ------------------------------
(***************************************************************************)
(* The order book of the pgellert engine, whose source is in this          *)
(* repository (additional_references/pgellert_adapter/wrapper/src/algos:   *)
(* optimised_fifo.rs and the Order of book.rs).                            *)
(*                                                                         *)
(* Orders wait in one queue per side and price.  The best price is found   *)
(* by scanning between two bounds kept per side, which are repaired as     *)
(* orders are popped.  apply() only rests an order; check_for_trades()     *)
(* then pops the best of both sides, merges them while they cross and puts *)
(* back what it holds.  One step is one pop, one merge or the return.      *)
(***************************************************************************)
EXTENDS EngineBook

CONSTANTS Ids, Sizes,   \* order ids; sizes of orders
          MaxPrice,     \* prices are 0 .. MaxPrice
          None          \* no order

Prices == 0 .. MaxPrice
Order == [id : Ids, side : Sides, price : Prices, size : Nat \ {0}]

ASSUME FifoAssumption == /\ MaxPrice \in Nat
                         /\ Sizes \subseteq Nat \ {0}
                         /\ None \notin Order

VARIABLES
    buckets,    \* side -> price -> queue (absent and emptied are alike)
    lo, hi,     \* min_ and max_ price of each side
    orders,     \* id -> price, of the orders in the book
    hand,       \* side -> the order check_for_trades has popped, or None
    trades,     \* the trades it is going to return
    matching,   \* it is in its loop
    taker       \* history: the order it was called for

fifoVars == <<buckets, lo, hi, orders, hand, trades, matching, taker>>

\* FIFOBook::new: bounds that span nothing.
Init ==
    /\ buckets = [s \in Sides |-> [p \in Prices |-> <<>>]]
    /\ lo = [s \in Sides |-> MaxPrice + 1] /\ hi = [s \in Sides |-> 0]
    /\ orders = [id \in {} |-> 0]
    /\ hand = [s \in Sides |-> None]
    /\ trades = <<>> /\ matching = FALSE /\ taker = None

-----------------------------------------------------------------------------
(* apply and cancel, between two calls of check_for_trades.                *)

Indexed(index, o) == [id \in DOMAIN index \cup {o.id} |->
                        IF id = o.id THEN o.price ELSE index[id]]
Unindexed(id) == [i \in DOMAIN orders \ {id} |-> orders[i]]

\* The bucket at price p of side s becomes b.
Refiled(bk, s, p, b) == [bk EXCEPT ![s] = [bk[s] EXCEPT ![p] = b]]

Pushed(bk, o) == Refiled(bk, o.side, o.price, Append(bk[o.side][o.price], o))

\* cancel: the order is looked for in the one bucket the index names.
BucketWithout(b, id) ==
    IF \E i \in DOMAIN b : b[i].id = id
      THEN RemoveAt(b, CHOOSE i \in DOMAIN b : b[i].id = id) ELSE b
Removed(id, side) ==
    IF id \notin DOMAIN orders THEN buckets
    ELSE Refiled(buckets, side, orders[id],
                 BucketWithout(buckets[side][orders[id]], id))

\* The bounds are widened on every insert, not only for a new bucket.
WidenedIfNone(s, p) == IF lo[s] > MaxPrice THEN p ELSE lo[s]    \* mutant
WidenedLo(s, p) == Least(lo[s], p)

\* apply(o) on buckets bk and index index; check_for_trades returns at once when
\* the bounds do not overlap.
apply(bk, index, o) ==
    /\ buckets' = Pushed(bk, o)
    /\ orders' = Indexed(index, o)
    /\ lo' = [lo EXCEPT ![o.side] = WidenedLo(o.side, o.price)]
    /\ hi' = [hi EXCEPT ![o.side] = Most(hi[o.side], o.price)]
    /\ trades' = <<>>
    /\ matching' = (hi'["buy"] >= lo'["sell"])
    /\ taker' = o
    /\ UNCHANGED hand

AtRest == ~matching /\ taker = None

Insert(o) == AtRest /\ o.id \notin DOMAIN orders /\ apply(buckets, orders, o)
Reinsert(o) == AtRest /\ apply(Removed(o.id, o.side), Unindexed(o.id), o)

\* The caller has looked at the trades; it may cancel what is left of the taker.
Taken == trades' = <<>> /\ taker' = None /\ UNCHANGED <<lo, hi, hand, matching>>
Return == ~matching /\ taker # None /\ Taken /\ UNCHANGED <<buckets, orders>>
cancel(id, side) ==
    /\ ~matching
    /\ buckets' = Removed(id, side)
    /\ orders' = Unindexed(id)
    /\ Taken

-----------------------------------------------------------------------------
(* check_for_trades.                                                       *)

Scanned(s) == lo[s] .. hi[s]
IsBest(s, p) == /\ p \in Scanned(s) /\ buckets[s][p] # <<>>
                /\ \A q \in Scanned(s) : Better(s, q, p) => buckets[s][q] = <<>>
Exhausted(s) == \A q \in Scanned(s) : buckets[s][q] = <<>>

\* pop_bid, pop_ask: the bound is committed to the price of the order found.
Committed(s, p) == p

Pop(s) ==
    /\ matching
    /\ hand[s] = None
    /\ s = "sell" => hand["buy"] # None \/ Exhausted("buy")
    /\ \E p \in Prices :
         /\ IsBest(s, p)
         /\ hand' = [hand EXCEPT ![s] = Head(buckets[s][p])]
         /\ buckets' = Refiled(buckets, s, p, Tail(buckets[s][p]))
         /\ IF s = "buy"
              THEN hi' = [hi EXCEPT ![s] = Committed(s, p)] /\ UNCHANGED lo
              ELSE lo' = [lo EXCEPT ![s] = Committed(s, p)] /\ UNCHANGED hi
    /\ UNCHANGED <<orders, trades, matching, taker>>

BothInHand == \A s \in Sides : hand[s] # None
CrossesStrictly(bid, ask) == ask.price < bid.price              \* mutant
Crosses(bid, ask) == ask.price <= bid.price

\* Order::merge and FIFOBook::merge: a consumed order leaves the index, what is
\* left of the other one stays in hand.
Consumed(q) == {hand[s].id : s \in {t \in Sides : hand[t].size = q}}

Merge ==
    /\ matching /\ BothInHand /\ Crosses(hand["buy"], hand["sell"])
    /\ LET q == Least(hand["buy"].size, hand["sell"].size) IN
         /\ trades' = Append(trades, [quantity |-> q, bid |-> hand["buy"],
                                      ask |-> hand["sell"]])
         /\ hand' = [s \in Sides |-> IF hand[s].size = q THEN None
                                     ELSE [hand[s] EXCEPT !.size = hand[s].size - q]]
         /\ orders' = [id \in DOMAIN orders \ Consumed(q) |-> orders[id]]
    /\ UNCHANGED <<buckets, lo, hi, matching, taker>>

\* unpop: what is in hand goes back to the front of its bucket.
Dropped == buckets                                              \* mutant
Unpopped ==
    [s \in Sides |->
       IF hand[s] = None THEN buckets[s]
       ELSE [buckets[s] EXCEPT ![hand[s].price] =
               <<hand[s]>> \o buckets[s][hand[s].price]]]

\* The loop ends when the best orders do not cross, or a side has none left.
Stop ==
    /\ matching
    /\ \/ BothInHand /\ ~Crosses(hand["buy"], hand["sell"])
       \/ /\ \A s \in Sides : hand[s] # None \/ Exhausted(s)
          /\ ~BothInHand
    /\ buckets' = Unpopped
    /\ hand' = [s \in Sides |-> None]
    /\ matching' = FALSE
    /\ UNCHANGED <<lo, hi, orders, trades, taker>>

check_for_trades == (\E s \in Sides : Pop(s)) \/ Merge \/ Stop

-----------------------------------------------------------------------------
(* Properties.                                                             *)

\* Side s holds an order with this id and price, in a bucket or in hand.
Queued(bk, s, id, p) == \E i \in 1 .. Len(bk[s][p]) : bk[s][p][i].id = id
Holds(s, id, p) ==
    \/ Queued(buckets, s, id, p)
    \/ hand[s] # None /\ hand[s].id = id /\ hand[s].price = p

\* Types of the variables; an order waits in the bucket of its side and price.
Level(s, p) == [id : Ids, side : {s}, price : {p}, size : Nat \ {0}]
Filed(bk) == /\ bk \in [Sides -> [Prices -> Seq(Order)]]
             /\ \A s \in Sides, p \in Prices : bk[s][p] \in Seq(Level(s, p))
TypeOK ==
    /\ Filed(buckets)
    /\ hand \in [Sides -> Order \cup {None}]
    /\ \A s \in Sides : hand[s] # None => hand[s].side = s
    /\ lo \in [Sides -> 0 .. MaxPrice + 1] /\ hi \in [Sides -> Prices]
    /\ DOMAIN orders \subseteq Ids /\ \A id \in DOMAIN orders : orders[id] \in Prices
    /\ trades \in Seq([quantity : Nat, bid : Order, ask : Order])
    /\ matching \in BOOLEAN
    /\ taker \in Order \cup {None}

\* The scan between the bounds never misses a level: whatever was popped, put
\* back or cancelled before, every order of a side lies within its bounds.
BoundsCover ==
    \A s \in Sides, id \in Ids, p \in Prices : Holds(s, id, p) => p \in Scanned(s)

\* Between two calls the book is uncrossed, and inside one the only order that
\* crosses is the one applied last.
OnlyTakerCrosses ==
    \A i \in Ids, p \in Prices : Holds("buy", i, p) =>
        \A j \in Ids, q \in Prices : Holds("sell", j, q) /\ q <= p
            => matching /\ taker # None /\ taker.id \in {i, j}

\* What the adapter relies on when it calls one side of every trade the taker
\* (lib.rs 18-27): the order applied last takes part in every trade.
TakerTrades ==
    \A k \in 1 .. Len(trades) :
        taker # None /\ taker.id \in {trades[k].bid.id, trades[k].ask.id}

\* The index names exactly the orders of the book, each once and at its price,
\* so that a cancel finds its order.
IndexIsBook ==
    /\ \A id \in DOMAIN orders :
          Cardinality({s \in Sides : Holds(s, id, orders[id])}) = 1
    /\ \A s \in Sides, id \in Ids, p \in Prices :
          Holds(s, id, p) => id \in DOMAIN orders /\ orders[id] = p
=============================================================================
