------------------------- MODULE MatchingContract -------------------------
(***************************************************************************)
(* What every engine behind api/matching_engine_api.h promises: an order   *)
(* book with price-time priority that answers each message with the       *)
(* reports the header lists, in message order.                            *)
(*                                                                         *)
(* A message is delivered (Deliver), the incoming order takes the best     *)
(* crossing maker again and again (Fill), and what is left of it rests, is *)
(* dropped or is gone (Finish).  A step ends where the engine has pushed   *)
(* one report: the drainer thread sees the stream at that grain.           *)
(***************************************************************************)
EXTENDS Integers, Sequences

CONSTANTS
    Ids,        \* order ids
    Prices,     \* signed integer ticks
    Quantities  \* order quantities

ASSUME ContractAssumption ==
    /\ Prices \subseteq Int
    /\ Quantities \subseteq Nat \ {0}

VARIABLES
    book,       \* id -> its resting order, or NoOrder
    taker,      \* the incoming order being matched, or NoOrder
    clock,      \* time stamp of the latest order taken in
    seq,        \* sequence number of the latest message
    emitted     \* the reports pushed for that message

vars == <<book, taker, clock, seq, emitted>>

Sides == {"buy", "sell"}
Opposite(s) == IF s = "buy" THEN "sell" ELSE "buy"

NoOrder == [side |-> "none"]

-----------------------------------------------------------------------------
(* The messages of the header, and the six reports.                        *)

NewOrder == [type: {"new"}, id: Ids, side: Sides, price: Prices,
             qty: Quantities, ioc: BOOLEAN]
Cancel   == [type: {"cancel"}, id: Ids]
Modify   == [type: {"modify"}, id: Ids, side: Sides, price: Prices,
             qty: Quantities]
Message  == NewOrder \cup Cancel \cup Modify

Ack(type, s, id) == [type |-> type, seq |-> s, id |-> id]
AckQty(type, s, id, side, price, qty) ==
    [type |-> type, seq |-> s, id |-> id, side |-> side, price |-> price,
     qty |-> qty]
Trade(s, maker, takerId, price, qty) ==
    [type |-> "Trade", seq |-> s, maker |-> maker, taker |-> takerId,
     price |-> price, qty |-> qty]

-----------------------------------------------------------------------------
(* Price-time priority.                                                    *)

\* A limit at price p on side s accepts the price q of the other side.
AcceptsBetter(s, p, q) == IF s = "buy" THEN q < p ELSE q > p    \* mutant
Accepts(s, p, q) == IF s = "buy" THEN q <= p ELSE q >= p

Resting(id) == book[id] # NoOrder

\* The resting orders the incoming order may trade with.
Crossing == {id \in Ids : /\ Resting(id)
                          /\ book[id].side = Opposite(taker.side)
                          /\ Accepts(taker.side, taker.price, book[id].price)}

\* a is served before b, both resting on the side opposite to s: the better
\* price first, the earlier arrival within a price.
BeforeByTime(s, a, b) == a.time < b.time                        \* mutant
Before(s, a, b) ==
    \/ IF s = "buy" THEN a.price < b.price ELSE a.price > b.price
    \/ a.price = b.price /\ a.time < b.time

Best(id) == /\ id \in Crossing
            /\ \A other \in Crossing \ {id} :
                   Before(taker.side, book[id], book[other])

\* What a fill trades: all the smaller of the two has left.
FillOfTaker(left, qty) == left                                  \* mutant
FillQty(left, qty) == IF left < qty THEN left ELSE qty

\* An order rests behind every order that rests already.
Later(now) == now + 1

Idle == taker = NoOrder

-----------------------------------------------------------------------------
Init == /\ book = [id \in Ids |-> NoOrder]
        /\ taker = NoOrder
        /\ clock = 0
        /\ seq = 0
        /\ emitted = <<>>

\* A new order is acknowledged and becomes the taker.  The workload never
\* reuses the id of an order that rests.
DeliverNew(m) ==
    /\ seq' = seq + 1
    /\ ~Resting(m.id)
    /\ taker' = [id |-> m.id, side |-> m.side, price |-> m.price,
                 qty |-> m.qty, left |-> m.qty, kind |-> "new", ioc |-> m.ioc]
    /\ emitted' = <<AckQty("OrderAck", seq', m.id, m.side, m.price, m.qty)>>
    /\ UNCHANGED <<book, clock>>

\* A cancel removes a resting order or is rejected.
DeliverCancel(m) ==
    /\ seq' = seq + 1
    /\ IF Resting(m.id)
         THEN /\ book' = [book EXCEPT ![m.id] = NoOrder]
              /\ emitted' = <<AckQty("CancelAck", seq', m.id, book[m.id].side,
                                     book[m.id].price, 0)>>
         ELSE /\ emitted' = <<Ack("CancelReject", seq', m.id)>>
              /\ UNCHANGED book
    /\ UNCHANGED <<taker, clock>>

\* A modify takes a resting order out of the book and reinserts it as a taker
\* with its new terms, or is rejected.
DeliverModify(m) ==
    /\ seq' = seq + 1
    /\ IF Resting(m.id)
         THEN /\ book' = [book EXCEPT ![m.id] = NoOrder]
              /\ taker' = [id |-> m.id, side |-> m.side, price |-> m.price,
                           qty |-> m.qty, left |-> m.qty, kind |-> "modify",
                           ioc |-> FALSE]
              /\ emitted' = <<>>
         ELSE /\ emitted' = <<Ack("ModifyReject", seq', m.id)>>
              /\ UNCHANGED <<book, taker>>
    /\ UNCHANGED clock

\* The taker trades with the best crossing maker at the maker's price.
Fill(id) ==
    /\ ~Idle
    /\ taker.left > 0
    /\ Best(id)
    /\ LET q == FillQty(taker.left, book[id].qty)
           reduced == [book[id] EXCEPT !.qty = book[id].qty - q]
       IN
         /\ taker' = [taker EXCEPT !.left = @ - q]
         /\ book' = [book EXCEPT ![id] = IF reduced.qty = 0 THEN NoOrder ELSE reduced]
         /\ emitted' = Append(emitted, Trade(seq, id, taker.id,
                                             book[id].price, q))
    /\ UNCHANGED <<clock, seq>>

\* No fill is left: a remainder rests with the newest time stamp, the
\* remainder of an IOC order is dropped with a CancelAck.
Finish ==
    /\ ~Idle
    /\ taker.left = 0 \/ Crossing = {}
    /\ clock' = Later(clock)
    /\ book' = IF taker.left > 0 /\ ~taker.ioc
                 THEN [book EXCEPT ![taker.id] =
                         [side |-> taker.side, price |-> taker.price,
                          qty |-> taker.left, time |-> clock']]
                 ELSE book
    /\ emitted' = emitted \o
         (IF taker.kind = "modify"
            THEN <<AckQty("ModifyAck", seq, taker.id, taker.side, taker.price,
                          taker.qty)>>
          ELSE IF taker.ioc /\ taker.left > 0
            THEN <<AckQty("CancelAck", seq, taker.id, taker.side, taker.price,
                          taker.left)>>
          ELSE <<>>)
    /\ taker' = NoOrder
    /\ UNCHANGED seq

Deliver(m) == \/ m.type = "new" /\ DeliverNew(m)
              \/ m.type = "cancel" /\ DeliverCancel(m)
              \/ m.type = "modify" /\ DeliverModify(m)

\* The next message is taken when the one in hand is answered.
Next == \/ Idle /\ \E m \in Message : Deliver(m)
        \/ \E id \in Ids : Fill(id)
        \/ Finish

Spec == Init /\ [][Next]_vars

-----------------------------------------------------------------------------
(* Properties.                                                             *)

Order == [side: Sides, price: Prices, qty: Nat \ {0}, time: Nat]
Taker == [id: Ids, side: Sides, price: Prices, qty: Quantities, left: Nat,
          kind: {"new", "modify"}, ioc: BOOLEAN]

\* Types of the variables.  No order rests with nothing left, and a taker never
\* trades more than it has (api/matching_engine_api.h 106-124).
TypeOK ==
    /\ book \in [Ids -> Order \cup {NoOrder}]
    /\ taker \in Taker \cup {NoOrder}
    /\ clock \in Nat
    /\ seq \in Nat

\* Between any two steps, and so also in the middle of a sweep and when the
\* remainder of a modified order goes back, no resting buy order accepts the
\* price of a resting sell order.
Uncrossed ==
    \A b, s \in Ids :
        Resting(b) /\ Resting(s) /\ book[b].side = "buy" /\ book[s].side = "sell"
        => book[b].price < book[s].price

\* Two resting orders never have the same time stamp: priority within a price
\* is total, so the next maker of a sweep is always determined.
PriorityIsTotal ==
    \A a, b \in Ids : a # b /\ Resting(a) /\ Resting(b)
                      => book[a].time # book[b].time

\* A trade of the message in hand was never made past a better price: whatever
\* the taker could have had at a better price was taken first.
NoTradeThrough ==
    ~Idle =>
      \A i \in 1 .. Len(emitted) : emitted[i].type = "Trade" =>
        \A id \in Crossing :
          IF taker.side = "buy" THEN book[id].price >= emitted[i].price
                                ELSE book[id].price <= emitted[i].price
=============================================================================
