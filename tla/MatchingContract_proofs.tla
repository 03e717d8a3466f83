---------------------- MODULE MatchingContract_proofs ----------------------
(***************************************************************************)
(* The contract keeps its types, its book uncrossed and its time priority  *)
(* total, whatever the ids, the prices and the quantities.                 *)
(*                                                                         *)
(* Neither Uncrossed nor PriorityIsTotal is inductive: a remainder is put  *)
(* in the book over whatever rests there under its id and with the next    *)
(* time stamp.  Priority adds that the taker does not rest meanwhile, and  *)
(* that no resting order is stamped later than the clock.                  *)
(***************************************************************************)
EXTENDS MatchingContract, TLAPS, SequenceTheorems

TakerOut == ~Idle => ~Resting(taker.id)
StampsPast == \A id \in Ids : Resting(id) => book[id].time <= clock

Inv == /\ TypeOK
       /\ TakerOut
       /\ StampsPast
       /\ PriorityIsTotal
       /\ Uncrossed

-----------------------------------------------------------------------------
(* What a resting order and a taker are, once NoOrder is set apart.         *)

LEMMA RestingOrder ==
    ASSUME TypeOK, NEW id \in Ids, Resting(id)
    PROVE  book[id] \in Order
BY DEF TypeOK, Resting

LEMMA BusyTaker ==
    ASSUME TypeOK, ~Idle
    PROVE  taker \in Taker
BY DEF TypeOK, Idle

LEMMA OrderIsOrder ==
    ASSUME NEW o \in Order \cup Taker
    PROVE  o # NoOrder
BY DEF Order, Taker, NoOrder, Sides

\* A fill never trades more than either side has, and trades something.
LEMMA FillBound ==
    ASSUME NEW left \in Nat \ {0}, NEW qty \in Nat \ {0}
    PROVE  /\ FillQty(left, qty) \in Nat \ {0}
           /\ FillQty(left, qty) <= left
           /\ FillQty(left, qty) <= qty
BY DEF FillQty

-----------------------------------------------------------------------------
(* A step that only removes orders from the book, or only lowers their     *)
(* quantity, keeps what Inv says of the book.                              *)

Shrinks == \A id \in Ids :
               book'[id] # NoOrder => /\ book[id] # NoOrder
                                      /\ book'[id].side = book[id].side
                                      /\ book'[id].price = book[id].price
                                      /\ book'[id].time = book[id].time

LEMMA ShrinkingBook ==
    ASSUME Inv, Shrinks, clock' = clock
    PROVE  StampsPast' /\ PriorityIsTotal' /\ Uncrossed'
BY DEF Inv, Shrinks, StampsPast, PriorityIsTotal, Uncrossed, Resting

LEMMA Removal ==
    ASSUME Inv, NEW out \in Ids,
           book' = [book EXCEPT ![out] = NoOrder]
    PROVE  /\ book' \in [Ids -> Order \cup {NoOrder}]
           /\ Shrinks
BY DEF Inv, TypeOK, Shrinks

LEMMA Replacement ==
    ASSUME Inv, NEW id \in Ids, Resting(id), NEW new \in Order,
           new.side = book[id].side,
           new.price = book[id].price,
           new.time = book[id].time,
           book' = [book EXCEPT ![id] = new]
    PROVE  /\ book' \in [Ids -> Order \cup {NoOrder}]
           /\ Shrinks
<1>1. book' \in [Ids -> Order \cup {NoOrder}]
  BY DEF Inv, TypeOK
<1>2. \A other \in Ids : book'[other] = IF other = id THEN new ELSE book[other]
  BY DEF Inv, TypeOK
<1>3. Shrinks
  BY <1>2 DEF Shrinks, Resting
<1> QED
  BY <1>1, <1>3

-----------------------------------------------------------------------------
(* One lemma per action.                                                   *)

LEMMA DeliverNewKeeps ==
    ASSUME Inv, Idle, NEW m \in NewOrder, DeliverNew(m)
    PROVE  Inv'
<1>1. m.id \in Ids /\ m.side \in Sides /\ m.price \in Prices
        /\ m.qty \in Quantities /\ m.ioc \in BOOLEAN /\ m.qty \in Nat
  BY ContractAssumption DEF NewOrder
<1>2. TypeOK'
  <2>1. taker' \in Taker
    BY <1>1 DEF DeliverNew, Taker
  <2> QED
    BY <2>1 DEF DeliverNew, Inv, TypeOK
<1>3. Shrinks
  BY DEF DeliverNew, Shrinks
<1>4. StampsPast' /\ PriorityIsTotal' /\ Uncrossed'
  BY <1>3, ShrinkingBook DEF DeliverNew
<1>5. TakerOut'
  BY DEF DeliverNew, TakerOut, Resting
<1> QED
  BY <1>2, <1>4, <1>5 DEF Inv

LEMMA DeliverCancelKeeps ==
    ASSUME Inv, Idle, NEW m \in Cancel, DeliverCancel(m)
    PROVE  Inv'
<1>1. m.id \in Ids
  BY DEF Cancel
<1>2. /\ book' \in [Ids -> Order \cup {NoOrder}]
      /\ Shrinks
  <2>1. CASE Resting(m.id)
    BY <1>1, <2>1, Removal DEF DeliverCancel
  <2>2. CASE ~Resting(m.id)
    BY <2>2 DEF DeliverCancel, Inv, TypeOK, Shrinks
  <2> QED
    BY <2>1, <2>2
<1>3. TypeOK' /\ TakerOut'
  BY <1>2 DEF DeliverCancel, Inv, TypeOK, TakerOut, Idle
<1>4. StampsPast' /\ PriorityIsTotal' /\ Uncrossed'
  BY <1>2, ShrinkingBook DEF DeliverCancel
<1> QED
  BY <1>3, <1>4 DEF Inv

LEMMA DeliverModifyKeeps ==
    ASSUME Inv, Idle, NEW m \in Modify, DeliverModify(m)
    PROVE  Inv'
<1>1. m.id \in Ids /\ m.side \in Sides /\ m.price \in Prices
        /\ m.qty \in Quantities /\ m.qty \in Nat
  BY ContractAssumption DEF Modify
<1>2. CASE Resting(m.id)
  <2>1. /\ book' \in [Ids -> Order \cup {NoOrder}]
        /\ Shrinks
    BY <1>1, <1>2, Removal DEF DeliverModify
  <2>2. taker' \in Taker /\ taker'.id = m.id
    <3>1. taker' = [id |-> m.id, side |-> m.side, price |-> m.price,
                    qty |-> m.qty, left |-> m.qty, kind |-> "modify",
                    ioc |-> FALSE]
      BY <1>2 DEF DeliverModify
    <3> QED
      BY <1>1, <3>1 DEF Taker
  <2>3. TypeOK'
    BY <2>1, <2>2 DEF DeliverModify, Inv, TypeOK
  <2>4. TakerOut'
    BY <1>1, <1>2, <2>2 DEF DeliverModify, TakerOut, Resting, Inv, TypeOK
  <2>5. StampsPast' /\ PriorityIsTotal' /\ Uncrossed'
    BY <2>1, ShrinkingBook DEF DeliverModify
  <2> QED
    BY <2>3, <2>4, <2>5 DEF Inv
<1>3. CASE ~Resting(m.id)
  <2>1. Shrinks
    BY <1>3 DEF DeliverModify, Shrinks
  <2>2. StampsPast' /\ PriorityIsTotal' /\ Uncrossed'
    BY <2>1, ShrinkingBook DEF DeliverModify
  <2>3. TypeOK' /\ TakerOut'
    BY <1>3 DEF DeliverModify, Inv, TypeOK, TakerOut, Idle
  <2> QED
    BY <2>2, <2>3 DEF Inv
<1> QED
  BY <1>2, <1>3

\* A fill takes the same quantity off the taker and off one resting order.
LEMMA FillStep ==
    ASSUME Inv, NEW id \in Ids, Fill(id)
    PROVE  /\ FillQty(taker.left, book[id].qty) \in Nat \ {0}
           /\ taker' \in Taker
           /\ taker'.id = taker.id /\ taker'.side = taker.side
           /\ taker'.price = taker.price
           /\ book' \in [Ids -> Order \cup {NoOrder}]
           /\ Shrinks
           /\ clock' = clock /\ seq' = seq
<1> DEFINE q == FillQty(taker.left, book[id].qty)
           reduced == [book[id] EXCEPT !.qty = book[id].qty - q]
<1>1. taker \in Taker /\ taker.left \in Nat \ {0}
  BY BusyTaker DEF Inv, Fill, Taker
<1>2. Resting(id) /\ book[id] \in Order /\ book[id].qty \in Nat \ {0}
  BY RestingOrder DEF Inv, Fill, Best, Crossing, Order
<1>3. q \in Nat \ {0} /\ q <= taker.left /\ q <= book[id].qty
  BY <1>1, <1>2, FillBound
<1>4. taker' = [taker EXCEPT !.left = @ - q]
  BY DEF Fill
<1>5. book' = [book EXCEPT ![id] = IF reduced.qty = 0 THEN NoOrder ELSE reduced]
  BY DEF Fill
<1>6. /\ reduced.qty = book[id].qty - q
      /\ reduced.qty # 0 => reduced \in Order
      /\ reduced.side = book[id].side
      /\ reduced.price = book[id].price
      /\ reduced.time = book[id].time
  BY <1>2, <1>3 DEF Order
<1> HIDE DEF q
<1>7. /\ taker' \in Taker
      /\ taker'.id = taker.id /\ taker'.side = taker.side
      /\ taker'.price = taker.price
  <2>1. taker.left - q \in Nat
    BY <1>1, <1>3
  <2> QED
    BY <1>1, <1>4, <2>1 DEF Taker
<1>8. /\ book' \in [Ids -> Order \cup {NoOrder}]
      /\ Shrinks
  <2>1. CASE reduced.qty = 0
    BY <1>5, <2>1, Removal
  <2>2. CASE reduced.qty # 0
    <3>1. book' = [book EXCEPT ![id] = reduced]
      BY <1>5, <2>2
    <3>2. reduced \in Order
      BY <1>6, <2>2
    <3>3. /\ reduced.side = book[id].side
          /\ reduced.price = book[id].price
          /\ reduced.time = book[id].time
      BY <1>6
    <3>4. Resting(id)
      BY <1>2
    <3> HIDE DEF reduced
    <3> QED
      BY <3>1, <3>2, <3>3, <3>4, Replacement
  <2> QED
    BY <2>1, <2>2
<1>9. clock' = clock /\ seq' = seq
  BY DEF Fill
<1> QED
  BY <1>3, <1>7, <1>8, <1>9 DEF q

LEMMA FillKeeps ==
    ASSUME Inv, NEW id \in Ids, Fill(id)
    PROVE  Inv'
<1>1. /\ taker' \in Taker /\ taker'.id = taker.id
      /\ book' \in [Ids -> Order \cup {NoOrder}]
      /\ Shrinks
      /\ clock' = clock /\ seq' = seq
  BY FillStep
<1>2. taker \in Taker /\ taker.id \in Ids /\ ~Idle
  BY BusyTaker DEF Inv, Fill, Taker
<1>3. TypeOK'
  BY <1>1 DEF Inv, TypeOK
<1>4. StampsPast' /\ PriorityIsTotal' /\ Uncrossed'
  BY <1>1, ShrinkingBook
<1>5. TakerOut'
  BY <1>1, <1>2 DEF Inv, TakerOut, Shrinks, Resting
<1> QED
  BY <1>3, <1>4, <1>5 DEF Inv

LEMMA FinishKeeps ==
    ASSUME Inv, Finish
    PROVE  Inv'
<1>1. taker \in Taker /\ taker.id \in Ids /\ ~Resting(taker.id)
  BY BusyTaker DEF Inv, Finish, Taker, TakerOut
<1>2. /\ clock \in Nat /\ clock' = clock + 1
      /\ taker' = NoOrder /\ seq' = seq
  BY DEF Finish, Later, Inv, TypeOK
<1>3. TakerOut'
  BY <1>2 DEF TakerOut, Idle
<1>4. CASE taker.left > 0 /\ ~taker.ioc
  <2> DEFINE rest == [side |-> taker.side, price |-> taker.price,
                      qty |-> taker.left, time |-> clock + 1]
  <2>1. book' = [book EXCEPT ![taker.id] = rest]
    BY <1>2, <1>4 DEF Finish
  <2>2. rest \in Order
    BY <1>1, <1>2, <1>4 DEF Taker, Order
  <2>3. /\ rest.side = taker.side
        /\ rest.price = taker.price
        /\ rest.time = clock + 1
    OBVIOUS
  <2>4. Crossing = {}
    BY <1>1, <1>4 DEF Finish, Taker
  <2> HIDE DEF rest
  <2>5. TypeOK'
    BY <1>1, <1>2, <2>1, <2>2 DEF Inv, TypeOK
  <2>6. \A id \in Ids : book'[id] = IF id = taker.id THEN rest ELSE book[id]
    BY <2>1 DEF Inv, TypeOK
  <2>7. \A id \in Ids : Resting(id) => book[id].time \in Nat /\ book[id].time <= clock
    BY RestingOrder DEF Inv, StampsPast, Order
  <2>8. StampsPast'
    BY <1>2, <2>3, <2>6, <2>7 DEF StampsPast, Resting
  <2>9. PriorityIsTotal'
    BY <1>2, <2>3, <2>6, <2>7 DEF Inv, PriorityIsTotal, Resting
  <2>10. Uncrossed'
    <3> SUFFICES ASSUME NEW b \in Ids, NEW s \in Ids,
                        book'[b] # NoOrder, book'[s] # NoOrder,
                        book'[b].side = "buy", book'[s].side = "sell"
                 PROVE  book'[b].price < book'[s].price
      BY DEF Uncrossed, Resting
    <3>1. CASE b # taker.id /\ s # taker.id
      BY <2>6, <3>1 DEF Inv, Uncrossed, Resting
    <3>2. CASE b = taker.id
      <4>1. taker.side = "buy" /\ s # taker.id
        BY <2>3, <2>6, <3>2
      <4>2. Resting(s) /\ book[s].side = "sell" /\ book'[s] = book[s]
        BY <2>6, <4>1 DEF Resting
      <4>3. book[s].price \in Int /\ taker.price \in Int
        BY <1>1, <4>2, RestingOrder, ContractAssumption DEF Inv, Order, Taker
      <4>4. ~(book[s].price <= taker.price)
        BY <2>4, <4>1, <4>2 DEF Crossing, Accepts, Opposite
      <4> QED
        BY <2>3, <2>6, <3>2, <4>2, <4>3, <4>4
    <3>3. CASE s = taker.id
      <4>1. taker.side = "sell" /\ b # taker.id
        BY <2>3, <2>6, <3>3
      <4>2. Resting(b) /\ book[b].side = "buy" /\ book'[b] = book[b]
        BY <2>6, <4>1 DEF Resting
      <4>3. book[b].price \in Int /\ taker.price \in Int
        BY <1>1, <4>2, RestingOrder, ContractAssumption DEF Inv, Order, Taker
      <4>4. ~(book[b].price >= taker.price)
        BY <2>4, <4>1, <4>2 DEF Crossing, Accepts, Opposite
      <4> QED
        BY <2>3, <2>6, <3>3, <4>2, <4>3, <4>4
    <3> QED
      BY <3>1, <3>2, <3>3
  <2> QED
    BY <1>3, <2>5, <2>8, <2>9, <2>10 DEF Inv
<1>5. CASE ~(taker.left > 0 /\ ~taker.ioc)
  <2>1. book' = book
    BY <1>5 DEF Finish
  <2>2. TypeOK' /\ Uncrossed' /\ PriorityIsTotal'
    BY <1>2, <2>1 DEF Inv, TypeOK, Uncrossed, PriorityIsTotal, Resting
  <2>3. \A id \in Ids : Resting(id) => book[id].time \in Nat /\ book[id].time <= clock
    BY RestingOrder DEF Inv, StampsPast, Order
  <2>4. StampsPast'
    BY <1>2, <2>1, <2>3 DEF StampsPast, Resting
  <2> QED
    BY <1>3, <2>2, <2>4 DEF Inv
<1> QED
  BY <1>4, <1>5

-----------------------------------------------------------------------------
LEMMA InitInv == Init => Inv
BY DEF Init, Inv, TypeOK, TakerOut, StampsPast, PriorityIsTotal, Uncrossed,
       Idle, Resting

LEMMA NextInv == Inv /\ [Next]_vars => Inv'
<1> SUFFICES ASSUME Inv, [Next]_vars
             PROVE  Inv'
  OBVIOUS
<1>1. ASSUME Idle, NEW m \in Message, Deliver(m)
      PROVE  Inv'
  <2>1. \/ m \in NewOrder /\ m.type = "new"
        \/ m \in Cancel /\ m.type = "cancel"
        \/ m \in Modify /\ m.type = "modify"
    BY DEF Message, NewOrder, Cancel, Modify
  <2>2. CASE m \in NewOrder /\ DeliverNew(m)
    BY <1>1, <2>2, DeliverNewKeeps
  <2>3. CASE m \in Cancel /\ DeliverCancel(m)
    BY <1>1, <2>3, DeliverCancelKeeps
  <2>4. CASE m \in Modify /\ DeliverModify(m)
    BY <1>1, <2>4, DeliverModifyKeeps
  <2> QED
    BY <1>1, <2>1, <2>2, <2>3, <2>4 DEF Deliver
<1>2. ASSUME NEW id \in Ids, Fill(id)
      PROVE  Inv'
  BY <1>2, FillKeeps
<1>3. CASE Finish
  BY <1>3, FinishKeeps
<1>4. CASE UNCHANGED vars
  BY <1>4 DEF vars, Inv, TypeOK, TakerOut, StampsPast, PriorityIsTotal,
              Uncrossed, Idle, Resting
<1> QED
  BY <1>1, <1>2, <1>3, <1>4 DEF Next

\* The strengthened invariant holds in every state of the contract.
THEOREM Invariance == Spec => []Inv
<1>1. Inv /\ [Next]_vars => Inv'
  BY NextInv
<1> QED
  BY <1>1, InitInv, PTL DEF Spec

\* The variables keep their types: nothing rests with quantity 0 and no taker
\* is filled beyond its quantity.
THEOREM TypeCorrect == Spec => []TypeOK
<1>1. Inv => TypeOK
  BY DEF Inv
<1> QED
  BY <1>1, Invariance, PTL

\* The book is never crossed, not even inside a sweep or a modify.
THEOREM NeverCrossed == Spec => []Uncrossed
<1>1. Inv => Uncrossed
  BY DEF Inv
<1> QED
  BY <1>1, Invariance, PTL

\* No two resting orders tie in time: a sweep always knows its next maker.
THEOREM TimePriority == Spec => []PriorityIsTotal
<1>1. Inv => PriorityIsTotal
  BY DEF Inv
<1> QED
  BY <1>1, Invariance, PTL

-----------------------------------------------------------------------------
(* What the reports say.                                                   *)

Rejects == [type : {"CancelReject", "ModifyReject"}, seq : Nat, id : Ids]
Acks    == [type : {"OrderAck", "CancelAck", "ModifyAck"}, seq : Nat, id : Ids,
            side : Sides, price : Prices, qty : Nat]
Trades  == [type : {"Trade"}, seq : Nat, maker : Ids, taker : Ids,
            price : Prices, qty : Nat \ {0}]
Report  == Rejects \cup Acks \cup Trades

\* The answer to a message consists of reports of the header, and every trade
\* among them has a quantity (api/matching_engine_api.h 106-124).
WellFormed == emitted \in Seq(Report)

Reported == WellFormed /\ NoTradeThrough

LEMMA ReportKinds ==
    ASSUME NEW s \in Nat, NEW id \in Ids
    PROVE  /\ \A t \in {"CancelReject", "ModifyReject"} : Ack(t, s, id) \in Report
           /\ \A t \in {"OrderAck", "CancelAck", "ModifyAck"}, side \in Sides,
                 price \in Prices, qty \in Nat :
                 AckQty(t, s, id, side, price, qty) \in Report
           /\ \A m \in Ids, price \in Prices, qty \in Nat \ {0} :
                 Trade(s, m, id, price, qty) \in Report
BY DEF Ack, AckQty, Trade, Report, Rejects, Acks, Trades

\* An answer that begins with no trade was not made past any price.
LEMMA NoTradeYet ==
    ASSUME emitted' = <<>> \/ \E r : emitted' = <<r>> /\ r.type # "Trade"
    PROVE  NoTradeThrough'
<1>1. \A i \in 1 .. Len(emitted') : emitted'[i].type # "Trade"
  <2>1. CASE emitted' = <<>>
    BY <2>1, EmptySeq
  <2>2. CASE \E r : emitted' = <<r>> /\ r.type # "Trade"
    BY <2>2
  <2> QED
    BY <2>1, <2>2
<1> QED
  BY <1>1 DEF NoTradeThrough

LEMMA DeliverReports ==
    ASSUME Inv, NEW m \in Message, Deliver(m)
    PROVE  Reported'
<1>1. seq' = seq + 1 /\ seq' \in Nat /\ m.id \in Ids
  BY DEF Deliver, DeliverNew, DeliverCancel, DeliverModify, Inv, TypeOK,
         Message, NewOrder, Cancel, Modify
<1>2. \/ emitted' = <<>>
      \/ \E r \in Report : emitted' = <<r>> /\ r.type # "Trade"
  <2>1. CASE m.type = "new"
    <3>1. m \in NewOrder /\ DeliverNew(m)
      BY <2>1 DEF Deliver, Message, NewOrder, Cancel, Modify
    <3>2. m.side \in Sides /\ m.price \in Prices /\ m.qty \in Nat
      BY <3>1, ContractAssumption DEF NewOrder
    <3>3. AckQty("OrderAck", seq', m.id, m.side, m.price, m.qty) \in Report
      BY <1>1, <3>2, ReportKinds
    <3> QED
      BY <3>1, <3>3 DEF DeliverNew, AckQty
  <2>2. CASE m.type = "cancel"
    <3>1. DeliverCancel(m)
      BY <2>2 DEF Deliver
    <3>2. CASE Resting(m.id)
      <4>1. book[m.id].side \in Sides /\ book[m.id].price \in Prices
        BY <1>1, <3>2, RestingOrder DEF Inv, Order
      <4>2. AckQty("CancelAck", seq', m.id, book[m.id].side, book[m.id].price, 0)
               \in Report
        BY <1>1, <4>1, ReportKinds
      <4> QED
        BY <3>1, <3>2, <4>2 DEF DeliverCancel, AckQty
    <3>3. CASE ~Resting(m.id)
      <4>1. Ack("CancelReject", seq', m.id) \in Report
        BY <1>1, ReportKinds
      <4> QED
        BY <3>1, <3>3, <4>1 DEF DeliverCancel, Ack
    <3> QED
      BY <3>2, <3>3
  <2>3. CASE m.type = "modify"
    <3>1. DeliverModify(m)
      BY <2>3 DEF Deliver
    <3>2. Ack("ModifyReject", seq', m.id) \in Report
      BY <1>1, ReportKinds
    <3> QED
      BY <3>1, <3>2 DEF DeliverModify, Ack
  <2> QED
    BY <2>1, <2>2, <2>3 DEF Deliver
<1>3. NoTradeThrough'
  BY <1>2, NoTradeYet
<1>4. WellFormed'
  <2>1. <<>> \in Seq(Report) /\ \A r \in Report : <<r>> \in Seq(Report)
    BY EmptySeq
  <2> QED
    BY <1>2, <2>1 DEF WellFormed
<1> QED
  BY <1>3, <1>4 DEF Reported

\* The maker of a fill has the best price among all the taker could trade with,
\* and what the taker could trade with afterwards it could trade with before.
LEMMA FillReports ==
    ASSUME Inv, Reported, NEW id \in Ids, Fill(id)
    PROVE  Reported'
<1> DEFINE t == Trade(seq, id, taker.id, book[id].price,
                      FillQty(taker.left, book[id].qty))
<1>1. /\ FillQty(taker.left, book[id].qty) \in Nat \ {0}
      /\ taker'.side = taker.side /\ taker'.price = taker.price
      /\ Shrinks
  BY FillStep
<1>2. taker \in Taker /\ taker.id \in Ids /\ taker.side \in Sides /\ ~Idle
  BY BusyTaker DEF Inv, Fill, Taker
<1>3. id \in Crossing /\ Best(id)
  BY DEF Fill, Best
<1>4. \A o \in Crossing : /\ o \in Ids
                           /\ book[o].price \in Prices /\ book[o].price \in Int
  BY RestingOrder, ContractAssumption DEF Inv, Crossing, Order
<1>5. t \in Report /\ t.type = "Trade" /\ t.price = book[id].price
  <2>1. seq \in Nat
    BY DEF Inv, TypeOK
  <2> QED
    BY <1>1, <1>2, <1>3, <1>4, <2>1, ReportKinds DEF Trade
<1>6. emitted' = Append(emitted, t)
  BY DEF Fill
<1> HIDE DEF t
<1>7. /\ emitted \in Seq(Report) /\ Len(emitted) \in Nat
      /\ emitted' \in Seq(Report)
      /\ Len(emitted') = Len(emitted) + 1
      /\ \A i \in 1 .. Len(emitted) : emitted'[i] = emitted[i]
      /\ emitted'[Len(emitted) + 1] = t
  BY <1>5, <1>6, AppendProperties, LenProperties DEF Reported, WellFormed
<1>8. \A o \in Crossing' : o \in Crossing /\ book'[o].price = book[o].price
  BY <1>1 DEF Crossing, Resting, Shrinks
<1>9. NoTradeThrough'
  <2> SUFFICES ASSUME NEW i \in 1 .. Len(emitted'), emitted'[i].type = "Trade",
                      NEW o \in Crossing'
               PROVE  IF taker.side = "buy" THEN book[o].price >= emitted'[i].price
                                            ELSE book[o].price <= emitted'[i].price
    BY <1>1, <1>8 DEF NoTradeThrough
  <2>1. o \in Crossing
    BY <1>8
  <2>2. CASE i \in 1 .. Len(emitted)
    BY <1>2, <1>7, <2>1, <2>2 DEF Reported, NoTradeThrough
  <2>3. CASE i = Len(emitted) + 1
    <3>1. emitted'[i].price = book[id].price
      BY <1>5, <1>7, <2>3
    <3>2. o # id => Before(taker.side, book[id], book[o])
      BY <1>3, <2>1 DEF Best
    <3> QED
      BY <1>3, <1>4, <2>1, <3>1, <3>2 DEF Before
  <2> QED
    BY <1>7, <2>2, <2>3
<1> QED
  BY <1>7, <1>9 DEF Reported, WellFormed

LEMMA FinishReports ==
    ASSUME Inv, Reported, Finish
    PROVE  Reported'
<1>1. /\ taker \in Taker /\ taker.id \in Ids /\ taker.side \in Sides
      /\ taker.price \in Prices /\ taker.qty \in Nat /\ taker.left \in Nat
      /\ seq \in Nat
  BY BusyTaker, ContractAssumption DEF Inv, TypeOK, Finish, Taker
<1>2. PICK last \in Seq(Report) : emitted' = emitted \o last
  <2>1. /\ AckQty("ModifyAck", seq, taker.id, taker.side, taker.price, taker.qty)
             \in Report
        /\ AckQty("CancelAck", seq, taker.id, taker.side, taker.price, taker.left)
             \in Report
    BY <1>1, ReportKinds
  <2>2. <<>> \in Seq(Report) /\ \A r \in Report : <<r>> \in Seq(Report)
    BY EmptySeq
  <2>3. CASE taker.kind = "modify"
    BY <2>1, <2>2, <2>3 DEF Finish
  <2>4. CASE taker.kind # "modify" /\ taker.ioc /\ taker.left > 0
    BY <2>1, <2>2, <2>4 DEF Finish
  <2>5. CASE taker.kind # "modify" /\ ~(taker.ioc /\ taker.left > 0)
    BY <2>2, <2>5 DEF Finish
  <2> QED
    BY <2>3, <2>4, <2>5
<1>3. WellFormed'
  BY <1>2, ConcatProperties DEF Reported, WellFormed
<1>4. NoTradeThrough'
  BY DEF Finish, NoTradeThrough, Idle
<1> QED
  BY <1>3, <1>4 DEF Reported

LEMMA NextReported == Inv /\ Reported /\ [Next]_vars => Reported'
<1> SUFFICES ASSUME Inv, Reported, [Next]_vars
             PROVE  Reported'
  OBVIOUS
<1>1. ASSUME Idle, NEW m \in Message, Deliver(m)
      PROVE  Reported'
  BY <1>1, DeliverReports
<1>2. ASSUME NEW id \in Ids, Fill(id)
      PROVE  Reported'
  BY <1>2, FillReports
<1>3. CASE Finish
  BY <1>3, FinishReports
<1>4. CASE UNCHANGED vars
  BY <1>4 DEF vars, Reported, WellFormed, NoTradeThrough, Idle, Crossing, Resting
<1> QED
  BY <1>1, <1>2, <1>3, <1>4 DEF Next

\* Every answer is made of well-formed reports, and the answer given so far
\* never traded past a price the taker can still have.
THEOREM ReportsInvariance == Spec => []Reported
<1>1. Init => Reported
  BY EmptySeq DEF Init, Reported, WellFormed, NoTradeThrough, Idle
<1>2. Inv /\ Reported /\ [Next]_vars => Reported'
  BY NextReported
<1> QED
  BY <1>1, <1>2, Invariance, PTL DEF Spec

\* A taker never trades past a better price.
THEOREM BestPriceFirst == Spec => []NoTradeThrough
<1>1. Reported => NoTradeThrough
  BY DEF Reported
<1> QED
  BY <1>1, ReportsInvariance, PTL
=============================================================================
