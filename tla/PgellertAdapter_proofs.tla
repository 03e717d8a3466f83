----------------------- MODULE PgellertAdapter_proofs -----------------------
(***************************************************************************)
(* The scan of FIFOBook between its bounds is sound and its index names    *)
(* its orders, for any prices, ids and sizes and any workload the adapter  *)
(* is given.                                                               *)
(*                                                                         *)
(* The scan rests on one fact about each step: what a side holds after     *)
(* it, in its buckets or in hand, it held before, or it is the order that  *)
(* is applied.  So a bound that covers the prices held keeps covering them *)
(* when it is committed to the price of the order popped (nothing better   *)
(* is left), and what crosses was not there before the taker.              *)
(*                                                                         *)
(* A cancel finds its order because the adapter passes the side in the     *)
(* shadow, and the index its price.  IndexInv says of every order held     *)
(* that the index names it, that the shadow or the message in hand knows   *)
(* its side, and that what is left of the taker is its size less its       *)
(* trades: so the adapter sees Left = 0 exactly when the taker is gone.    *)
(*                                                                         *)
(* The wrapper keeps its shadows from the trades a call returns.           *)
(* ShadowInv follows them through the matching: every order held except    *)
(* the taker is its shadow after the fills so far, no other shadow is      *)
(* alive, and the taker has none that is, but is indexed at its price      *)
(* until it is consumed.  So between two messages the live shadows are the *)
(* book (ShadowBookIs), in the order of arrival: an id arrives once        *)
(* (Arrived), and the arrivals that still rest are the orders the index    *)
(* names, each once (RestingIs, BookIs).                                   *)
(*                                                                         *)
(* The queries scan the buckets.  A best price they find is one of the     *)
(* book, and a depth, a fold over one bucket, is the total of the arrivals *)
(* at that price (DepthIsTotal); with the shadows equal to the book they   *)
(* answer what the shadows say.                                            *)
(***************************************************************************)
EXTENDS PgellertAdapter, TLAPS, SequenceTheorems, FiniteSetTheorems

\* No order that waits is better than the one in hand.
BestInHand == \A s \in Sides, p \in Prices :
                 hand[s] # None /\ buckets[s][p] # <<>> => ~Better(s, p, hand[s].price)

HandsEmpty == ~matching => \A s \in Sides : hand[s] = None

Inv == TypeOK /\ BoundsCover /\ OnlyTakerCrosses /\ TakerTrades /\ BestInHand /\ HandsEmpty

-----------------------------------------------------------------------------
(* Queues.                                                                 *)

\* RemoveAt closes the gap.
LEMMA RemoveAtIs ==
    ASSUME NEW T, NEW b \in Seq(T), NEW k \in 1 .. Len(b)
    PROVE  /\ RemoveAt(b, k) \in Seq(T) /\ Len(RemoveAt(b, k)) = Len(b) - 1
           /\ \A i \in 1 .. Len(b) - 1 : RemoveAt(b, k)[i] = IF i < k THEN b[i] ELSE b[i + 1]
<1> DEFINE l == SubSeq(b, 1, k - 1)
           r == SubSeq(b, k + 1, Len(b))
<1>1. Len(b) \in Nat /\ k \in Int /\ k - 1 \in Int /\ k + 1 \in Int
  BY LenProperties
<1>2. \A i \in 1 .. Len(b) : b[i] \in T
  BY ElementOfSeq
<1>3. /\ l \in Seq(T) /\ Len(l) = k - 1
      /\ \A i \in 1 .. k - 1 : l[i] = b[i]
  <2>1. \A i \in 1 .. k - 1 : b[i] \in T
    BY <1>1, <1>2
  <2>2. /\ SubSeq(b, 1, k - 1) \in Seq(T)
        /\ Len(SubSeq(b, 1, k - 1)) = IF 1 <= k - 1 THEN (k - 1) - 1 + 1 ELSE 0
        /\ \A i \in 1 .. (k - 1) - 1 + 1 : SubSeq(b, 1, k - 1)[i] = b[1 + i - 1]
    BY <1>1, <2>1, SubSeqProperties
  <2> QED
    BY <1>1, <2>2
<1>4. /\ r \in Seq(T) /\ Len(r) = Len(b) - k
      /\ \A i \in 1 .. Len(b) - k : r[i] = b[k + i]
  <2>1. \A i \in k + 1 .. Len(b) : b[i] \in T
    BY <1>1, <1>2
  <2>2. /\ SubSeq(b, k + 1, Len(b)) \in Seq(T)
        /\ Len(SubSeq(b, k + 1, Len(b))) =
             IF k + 1 <= Len(b) THEN Len(b) - (k + 1) + 1 ELSE 0
        /\ \A i \in 1 .. Len(b) - (k + 1) + 1 :
              SubSeq(b, k + 1, Len(b))[i] = b[k + 1 + i - 1]
    BY <1>1, <2>1, SubSeqProperties
  <2> QED
    BY <1>1, <2>2
<1> HIDE DEF l, r
<1>5. /\ l \o r \in Seq(T) /\ Len(l \o r) = Len(l) + Len(r)
      /\ \A i \in 1 .. Len(l) + Len(r) :
            (l \o r)[i] = IF i <= Len(l) THEN l[i] ELSE r[i - Len(l)]
  BY <1>3, <1>4, ConcatProperties
<1>6. RemoveAt(b, k) = l \o r
  BY DEF RemoveAt, l, r
<1>7. Len(l \o r) = Len(b) - 1
  BY <1>1, <1>3, <1>4, <1>5
<1>8. ASSUME NEW i \in 1 .. Len(b) - 1
      PROVE  (l \o r)[i] = IF i < k THEN b[i] ELSE b[i + 1]
  <2>1. i \in 1 .. Len(l) + Len(r) /\ i \in Int
    BY <1>1, <1>3, <1>4
  <2>2. CASE i < k
    <3>1. i <= Len(l) /\ i \in 1 .. k - 1
      BY <1>1, <1>3, <2>1, <2>2
    <3> QED
      BY <1>3, <1>5, <2>1, <2>2, <3>1
  <2>3. CASE ~(i < k)
    <3>1. ~(i <= Len(l)) /\ i - Len(l) \in 1 .. Len(b) - k /\ k + (i - Len(l)) = i + 1
      BY <1>1, <1>3, <2>1, <2>3
    <3>2. (l \o r)[i] = r[i - Len(l)]
      BY <1>5, <2>1, <3>1
    <3>3. r[i - Len(l)] = b[i + 1]
      BY <1>4, <3>1
    <3> QED
      BY <2>3, <3>2, <3>3
  <2> QED
    BY <2>2, <2>3
<1> QED
  BY <1>5, <1>6, <1>7, <1>8

\* Removing an element leaves a queue of elements that were there.
LEMMA RemoveAtElements ==
    ASSUME NEW T, NEW b \in Seq(T), NEW k \in 1 .. Len(b)
    PROVE  /\ RemoveAt(b, k) \in Seq(T)
           /\ \A i \in 1 .. Len(RemoveAt(b, k)) :
                 \E j \in 1 .. Len(b) : RemoveAt(b, k)[i] = b[j]
<1>1. /\ RemoveAt(b, k) \in Seq(T) /\ Len(RemoveAt(b, k)) = Len(b) - 1
      /\ \A i \in 1 .. Len(b) - 1 :
            RemoveAt(b, k)[i] = IF i < k THEN b[i] ELSE b[i + 1]
  BY RemoveAtIs
<1>2. \A i \in 1 .. Len(b) - 1 : i \in 1 .. Len(b) /\ i + 1 \in 1 .. Len(b)
  BY LenProperties
<1> QED
  BY <1>1, <1>2

\* cancel on one bucket.
LEMMA BucketWithoutElements ==
    ASSUME NEW T, NEW b \in Seq(T), NEW id
    PROVE  /\ BucketWithout(b, id) \in Seq(T)
           /\ \A i \in 1 .. Len(BucketWithout(b, id)) :
                 \E j \in 1 .. Len(b) : BucketWithout(b, id)[i] = b[j]
<1>1. DOMAIN b = 1 .. Len(b)
  BY LenProperties
<1>2. CASE \E i \in DOMAIN b : b[i].id = id
  <2> DEFINE k == CHOOSE i \in DOMAIN b : b[i].id = id
  <2>1. k \in 1 .. Len(b)
    BY <1>1, <1>2
  <2>2. BucketWithout(b, id) = RemoveAt(b, k)
    BY <1>2 DEF BucketWithout
  <2> HIDE DEF k
  <2> QED
    BY <2>1, <2>2, RemoveAtElements
<1>3. CASE ~\E i \in DOMAIN b : b[i].id = id
  BY <1>3 DEF BucketWithout
<1> QED
  BY <1>2, <1>3

-----------------------------------------------------------------------------
(* Buckets: what a step leaves in them was there before.                   *)

LEMMA LevelIsOrder ==
    ASSUME NEW s \in Sides, NEW p \in Prices, NEW o \in Level(s, p)
    PROVE  o \in Order /\ o.side = s /\ o.price = p
BY DEF Level, Order

LEMMA OrderIsFiled ==
    ASSUME NEW o \in Order
    PROVE  o \in Level(o.side, o.price) /\ o.side \in Sides /\ o.price \in Prices /\ o.id \in Ids
BY DEF Level, Order

\* One bucket is replaced by a queue of the same level.
LEMMA RefiledBuckets ==
    ASSUME NEW bk, Filed(bk), NEW s \in Sides, NEW p \in Prices,
           NEW b \in Seq(Level(s, p))
    PROVE  /\ Filed(Refiled(bk, s, p, b))
           /\ Refiled(bk, s, p, b)[s][p] = b
           /\ \A t \in Sides, q \in Prices :
                 t # s \/ q # p => Refiled(bk, s, p, b)[t][q] = bk[t][q]
<1> DEFINE new == [bk EXCEPT ![s] = [bk[s] EXCEPT ![p] = b]]
<1>1. bk \in [Sides -> [Prices -> Seq(Order)]] /\ bk[s] \in [Prices -> Seq(Order)]
  BY DEF Filed
<1>2. b \in Seq(Order)
  <2>1. Level(s, p) \subseteq Order
    BY LevelIsOrder
  <2> QED
    BY <2>1, SeqMonotonic
<1>3. [bk[s] EXCEPT ![p] = b] \in [Prices -> Seq(Order)]
  BY <1>1, <1>2
<1>4. new \in [Sides -> [Prices -> Seq(Order)]]
  BY <1>1, <1>3
<1>5. new[s] = [bk[s] EXCEPT ![p] = b] /\ \A t \in Sides \ {s} : new[t] = bk[t]
  BY <1>1
<1>6. new[s][p] = b /\ \A q \in Prices \ {p} : new[s][q] = bk[s][q]
  BY <1>1, <1>5
<1>7. \A t \in Sides, q \in Prices : t # s \/ q # p => new[t][q] = bk[t][q]
  BY <1>5, <1>6
<1> HIDE DEF new
<1>8. Filed(new)
  BY <1>4, <1>6, <1>7 DEF Filed
<1>9. Refiled(bk, s, p, b) = new
  BY DEF Refiled, new
<1> QED
  BY <1>6, <1>7, <1>8, <1>9

LEMMA PushedBuckets ==
    ASSUME NEW bk, Filed(bk), NEW o \in Order
    PROVE  /\ Filed(Pushed(bk, o))
           /\ \A s \in Sides, id \in Ids, p \in Prices :
                 Queued(Pushed(bk, o), s, id, p)
                   => Queued(bk, s, id, p) \/ (s = o.side /\ id = o.id /\ p = o.price)
<1> DEFINE b == Append(bk[o.side][o.price], o)
           new == Pushed(bk, o)
<1>1. o \in Level(o.side, o.price) /\ o.side \in Sides /\ o.price \in Prices
  BY OrderIsFiled
<1>2. bk[o.side][o.price] \in Seq(Level(o.side, o.price))
  BY <1>1 DEF Filed
<1>3. /\ b \in Seq(Level(o.side, o.price))
      /\ Len(b) = Len(bk[o.side][o.price]) + 1 /\ Len(bk[o.side][o.price]) \in Nat
      /\ \A i \in 1 .. Len(bk[o.side][o.price]) : b[i] = bk[o.side][o.price][i]
      /\ b[Len(bk[o.side][o.price]) + 1] = o
  BY <1>1, <1>2, AppendProperties, LenProperties
<1>4. new = Refiled(bk, o.side, o.price, b)
  BY DEF Pushed
<1> HIDE DEF b, new
<1>5. /\ Filed(new) /\ new[o.side][o.price] = b
      /\ \A t \in Sides, q \in Prices :
            t # o.side \/ q # o.price => new[t][q] = bk[t][q]
  BY <1>1, <1>3, <1>4, RefiledBuckets
<1>6. ASSUME NEW s \in Sides, NEW id \in Ids, NEW p \in Prices, Queued(new, s, id, p)
      PROVE  Queued(bk, s, id, p) \/ (s = o.side /\ id = o.id /\ p = o.price)
  <2>1. CASE s # o.side \/ p # o.price
    BY <1>5, <1>6, <2>1 DEF Queued
  <2>2. CASE s = o.side /\ p = o.price
    <3>1. PICK i \in 1 .. Len(b) : b[i].id = id
      BY <1>5, <1>6, <2>2 DEF Queued
    <3>2. CASE i = Len(bk[o.side][o.price]) + 1
      BY <1>3, <2>2, <3>1, <3>2
    <3>3. CASE i # Len(bk[o.side][o.price]) + 1
      <4>1. i \in 1 .. Len(bk[o.side][o.price])
        BY <1>3, <3>1, <3>3
      <4> QED
        BY <1>3, <2>2, <3>1, <4>1 DEF Queued
    <3> QED
      BY <3>2, <3>3
  <2> QED
    BY <2>1, <2>2
<1> QED
  BY <1>5, <1>6 DEF new

LEMMA RemovedBuckets ==
    ASSUME TypeOK, NEW id, NEW side
    PROVE  /\ Filed(Removed(id, side))
           /\ \A s \in Sides, i \in Ids, p \in Prices :
                 Queued(Removed(id, side), s, i, p) => Queued(buckets, s, i, p)
<1> DEFINE q == orders[id]
           b == BucketWithout(buckets[side][q], id)
           new == Removed(id, side)
<1>1. Filed(buckets)
  BY DEF TypeOK
<1>2. CASE id \notin DOMAIN orders
  BY <1>1, <1>2 DEF Removed
<1>3. CASE id \in DOMAIN orders /\ side \notin Sides
  <2>1. new = buckets
    BY <1>1, <1>3 DEF Removed, Refiled, Filed
  <2> QED
    BY <1>1, <2>1
<1>4. CASE id \in DOMAIN orders /\ side \in Sides
  <2>1. q \in Prices
    BY <1>4 DEF TypeOK
  <2>2. buckets[side][q] \in Seq(Level(side, q))
    BY <1>1, <1>4, <2>1 DEF Filed
  <2>3. /\ b \in Seq(Level(side, q))
        /\ \A i \in 1 .. Len(b) : \E j \in 1 .. Len(buckets[side][q]) : b[i] = buckets[side][q][j]
    BY <2>2, BucketWithoutElements
  <2>4. new = Refiled(buckets, side, q, b)
    BY <1>4 DEF Removed
  <2> HIDE DEF q, b, new
  <2>5. /\ Filed(new) /\ new[side][q] = b
        /\ \A t \in Sides, r \in Prices : t # side \/ r # q => new[t][r] = buckets[t][r]
    BY <1>1, <1>4, <2>1, <2>3, <2>4, RefiledBuckets
  <2>6. ASSUME NEW s \in Sides, NEW i \in Ids, NEW p \in Prices, Queued(new, s, i, p)
        PROVE  Queued(buckets, s, i, p)
    <3>1. CASE s # side \/ p # q
      BY <2>5, <2>6, <3>1 DEF Queued
    <3>2. CASE s = side /\ p = q
      BY <2>3, <2>5, <2>6, <3>2, SMTT(30) DEF Queued
    <3> QED
      BY <3>1, <3>2
  <2> QED
    BY <2>5, <2>6 DEF new
<1> QED
  BY <1>2, <1>3, <1>4

-----------------------------------------------------------------------------
(* The steps of the book.                                                  *)

\* A bucket is a queue of orders, and what is empty holds nothing.
LEMMA BucketIsSeq ==
    ASSUME NEW bk, Filed(bk), NEW s \in Sides, NEW p \in Prices
    PROVE  /\ bk[s][p] \in Seq(Level(s, p)) /\ Len(bk[s][p]) \in Nat
           /\ bk[s][p] # <<>> <=> 1 <= Len(bk[s][p])
           /\ \A id : Queued(bk, s, id, p) => bk[s][p] # <<>>
           /\ bk[s][p] # <<>> => \E id \in Ids : Queued(bk, s, id, p)
<1>1. bk[s][p] \in Seq(Level(s, p))
  BY DEF Filed
<1>2. Len(bk[s][p]) \in Nat
  BY <1>1, LenProperties
<1>3. bk[s][p] # <<>> <=> 1 <= Len(bk[s][p])
  BY <1>1, <1>2, EmptySeq
<1>4. bk[s][p] # <<>> => \E id \in Ids : Queued(bk, s, id, p)
  <2> SUFFICES ASSUME bk[s][p] # <<>>
               PROVE  \E id \in Ids : Queued(bk, s, id, p)
    OBVIOUS
  <2>1. 1 \in 1 .. Len(bk[s][p])
    BY <1>2, <1>3
  <2>2. bk[s][p][1] \in Level(s, p)
    BY <1>1, <2>1, ElementOfSeq
  <2>3. bk[s][p][1].id \in Ids
    BY <2>2 DEF Level
  <2> QED
    BY <2>1, <2>3 DEF Queued
<1>5. \A id : Queued(bk, s, id, p) => bk[s][p] # <<>>
  BY <1>2, <1>3 DEF Queued
<1> QED
  BY <1>1, <1>2, <1>3, <1>4, <1>5

\* apply, on buckets that hold nothing new.
LEMMA ApplyInv ==
    ASSUME Inv, AtRest, NEW bk, NEW index, NEW o \in Order, apply(bk, index, o),
           Filed(bk),
           \A s \in Sides, id \in Ids, p \in Prices :
              Queued(bk, s, id, p) => Queued(buckets, s, id, p),
           DOMAIN index \subseteq Ids, \A id \in DOMAIN index : index[id] \in Prices
    PROVE  Inv'
<1>1. o.side \in Sides /\ o.price \in Prices /\ o.id \in Ids
  BY OrderIsFiled
<1>2. /\ ~matching /\ hand' = hand /\ \A s \in Sides : hand[s] = None
      /\ taker' = o /\ trades' = <<>> /\ matching' = (hi'["buy"] >= lo'["sell"])
  BY DEF AtRest, Inv, HandsEmpty, apply
<1>3. /\ Filed(buckets')
      /\ \A s \in Sides, id \in Ids, p \in Prices :
            Queued(buckets', s, id, p)
              => Queued(buckets, s, id, p) \/ (s = o.side /\ id = o.id /\ p = o.price)
  BY PushedBuckets DEF apply
<1>4. MaxPrice \in Nat /\ \A p \in Prices : p \in Nat /\ p <= MaxPrice
  BY FifoAssumption DEF Prices
<1>5. /\ lo \in [Sides -> 0 .. MaxPrice + 1] /\ hi \in [Sides -> Prices]
      /\ lo' = [lo EXCEPT ![o.side] = Least(lo[o.side], o.price)]
      /\ hi' = [hi EXCEPT ![o.side] = Most(hi[o.side], o.price)]
  BY DEF Inv, TypeOK, apply, WidenedLo
<1>6. /\ lo' \in [Sides -> 0 .. MaxPrice + 1] /\ hi' \in [Sides -> Prices]
      /\ lo'[o.side] <= o.price /\ o.price <= hi'[o.side]
      /\ \A s \in Sides : lo'[s] <= lo[s] /\ hi[s] <= hi'[s]
  <2>1. /\ Least(lo[o.side], o.price) \in 0 .. MaxPrice + 1
        /\ Least(lo[o.side], o.price) <= o.price
        /\ Least(lo[o.side], o.price) <= lo[o.side]
    BY <1>1, <1>4, <1>5 DEF Least
  <2>2. /\ Most(hi[o.side], o.price) \in Prices
        /\ o.price <= Most(hi[o.side], o.price)
        /\ hi[o.side] <= Most(hi[o.side], o.price)
    BY <1>1, <1>4, <1>5 DEF Most
  <2>3. \A s \in Sides : lo[s] \in Int /\ hi[s] \in Int
    BY <1>4, <1>5
  <2> QED
    BY <1>1, <1>5, <2>1, <2>2, <2>3
<1>7. DOMAIN orders' \subseteq Ids /\ \A id \in DOMAIN orders' : orders'[id] \in Prices
  BY <1>1 DEF apply, Indexed
<1>8. matching' \in BOOLEAN /\ hand' \in [Sides -> Order \cup {None}]
  BY <1>2 DEF Inv, TypeOK
<1>9. trades' \in Seq([quantity : Nat, bid : Order, ask : Order]) /\ Len(trades') = 0
  BY <1>2, EmptySeq
<1>10. TypeOK'
  BY <1>2, <1>3, <1>6, <1>7, <1>8, <1>9 DEF Inv, TypeOK
<1>11. BoundsCover'
  <2> SUFFICES ASSUME NEW s \in Sides, NEW id \in Ids, NEW p \in Prices,
                      Queued(buckets', s, id, p)
               PROVE  p \in lo'[s] .. hi'[s]
    BY <1>2 DEF BoundsCover, Holds, Scanned
  <2>1. p \in Int /\ \A t \in Sides : {lo[t], hi[t], lo'[t], hi'[t]} \subseteq Int
    BY <1>4, <1>5, <1>6
  <2>2. CASE Queued(buckets, s, id, p)
    <3>1. lo[s] <= p /\ p <= hi[s]
      BY <2>1, <2>2 DEF Inv, BoundsCover, Holds, Scanned
    <3> QED
      BY <1>6, <2>1, <3>1
  <2>3. CASE s = o.side /\ p = o.price
    BY <1>6, <2>1, <2>3
  <2> QED
    BY <1>3, <2>2, <2>3
<1>12. OnlyTakerCrosses'
  <2>1. "buy" \in Sides /\ "sell" \in Sides
    BY DEF Sides
  <2> SUFFICES ASSUME NEW i \in Ids, NEW p \in Prices, Queued(buckets', "buy", i, p),
                      NEW j \in Ids, NEW q \in Prices, Queued(buckets', "sell", j, q),
                      q <= p
               PROVE  matching' /\ taker' # None /\ taker'.id \in {i, j}
    BY <1>2, <2>1 DEF OnlyTakerCrosses, Holds
  <2>2. p \in lo'["buy"] .. hi'["buy"] /\ q \in lo'["sell"] .. hi'["sell"]
    BY <1>11, <2>1 DEF BoundsCover, Holds, Scanned
  <2>3. matching'
    <3>1. {p, q, hi'["buy"], lo'["sell"]} \subseteq Int
      BY <1>4, <1>6, <2>1
    <3>2. hi'["buy"] >= lo'["sell"]
      BY <2>2, <3>1
    <3> QED
      BY <1>2, <3>2, Zenon
  <2>4. ~(Queued(buckets, "buy", i, p) /\ Queued(buckets, "sell", j, q))
    BY <1>2 DEF Inv, OnlyTakerCrosses, Holds
  <2>5. o.id \in {i, j}
    BY <1>3, <2>1, <2>4
  <2> QED
    BY <1>2, <2>3, <2>5, FifoAssumption
<1>13. TakerTrades'
  BY <1>9 DEF TakerTrades
<1>14. BestInHand'
  BY <1>2 DEF BestInHand
<1>15. HandsEmpty'
  BY <1>2 DEF HandsEmpty
<1> QED
  BY <1>10, <1>11, <1>12, <1>13, <1>14, <1>15 DEF Inv

LEMMA InsertInv ==
    ASSUME Inv, NEW o \in Order, Insert(o) \/ Reinsert(o)
    PROVE  Inv'
<1>1. Filed(buckets) /\ DOMAIN orders \subseteq Ids /\ \A id \in DOMAIN orders : orders[id] \in Prices
  BY DEF Inv, TypeOK
<1>2. CASE Insert(o)
  BY <1>1, <1>2, ApplyInv DEF Insert
<1>3. CASE Reinsert(o)
  <2>1. /\ Filed(Removed(o.id, o.side))
        /\ \A s \in Sides, i \in Ids, p \in Prices :
              Queued(Removed(o.id, o.side), s, i, p) => Queued(buckets, s, i, p)
    BY RemovedBuckets DEF Inv
  <2>2. /\ DOMAIN Unindexed(o.id) \subseteq Ids
        /\ \A id \in DOMAIN Unindexed(o.id) : Unindexed(o.id)[id] \in Prices
    BY <1>1 DEF Unindexed
  <2>3. AtRest /\ apply(Removed(o.id, o.side), Unindexed(o.id), o)
    BY <1>3 DEF Reinsert
  <2> QED
    BY <2>1, <2>2, <2>3, ApplyInv
<1> QED
  BY <1>2, <1>3

\* The caller takes the trades and may cancel.
LEMMA TakenInv ==
    ASSUME Inv, ~matching, Taken, Filed(buckets'),
           \A s \in Sides, id \in Ids, p \in Prices :
              Queued(buckets', s, id, p) => Queued(buckets, s, id, p),
           DOMAIN orders' \subseteq Ids, \A id \in DOMAIN orders' : orders'[id] \in Prices
    PROVE  Inv'
<1>1. /\ lo' = lo /\ hi' = hi /\ hand' = hand /\ matching' = matching
      /\ trades' = <<>> /\ taker' = None /\ \A s \in Sides : hand[s] = None
  BY DEF Taken, Inv, HandsEmpty
<1>2. trades' \in Seq([quantity : Nat, bid : Order, ask : Order]) /\ Len(trades') = 0
  BY <1>1, EmptySeq
<1>3. TypeOK'
  BY <1>1, <1>2 DEF Inv, TypeOK
<1>4. BoundsCover'
  BY <1>1 DEF Inv, BoundsCover, Holds, Scanned
<1>5. OnlyTakerCrosses'
  <2>1. "buy" \in Sides /\ "sell" \in Sides
    BY DEF Sides
  <2> QED
    BY <1>1, <2>1 DEF Inv, OnlyTakerCrosses, Holds
<1>6. TakerTrades'
  BY <1>2 DEF TakerTrades
<1>7. BestInHand' /\ HandsEmpty'
  BY <1>1 DEF BestInHand, HandsEmpty
<1> QED
  BY <1>3, <1>4, <1>5, <1>6, <1>7 DEF Inv

LEMMA CancelInv ==
    ASSUME Inv, NEW id, NEW side, cancel(id, side)
    PROVE  Inv'
<1>1. /\ Filed(Removed(id, side))
      /\ \A s \in Sides, i \in Ids, p \in Prices :
            Queued(Removed(id, side), s, i, p) => Queued(buckets, s, i, p)
  BY RemovedBuckets DEF Inv
<1>2. DOMAIN orders' \subseteq Ids /\ \A i \in DOMAIN orders' : orders'[i] \in Prices
  BY DEF cancel, Unindexed, Inv, TypeOK
<1> QED
  BY <1>1, <1>2, TakenInv DEF cancel

LEMMA ReturnInv == Inv /\ Return => Inv'
BY TakenInv DEF Return, Inv, TypeOK

\* The best order of side s is taken from its bucket: the bound may follow it,
\* because what is left is no better.
LEMMA PopInv ==
    ASSUME Inv, NEW s \in Sides, Pop(s)
    PROVE  Inv'
<1>1. PICK p \in Prices :
         /\ IsBest(s, p)
         /\ hand' = [hand EXCEPT ![s] = Head(buckets[s][p])]
         /\ buckets' = Refiled(buckets, s, p, Tail(buckets[s][p]))
         /\ IF s = "buy" THEN hi' = [hi EXCEPT ![s] = p] /\ lo' = lo
                         ELSE lo' = [lo EXCEPT ![s] = p] /\ hi' = hi
  BY DEF Pop, Committed
<1>2. /\ matching /\ hand[s] = None /\ orders' = orders /\ trades' = trades
      /\ matching' = matching /\ taker' = taker
  BY DEF Pop
<1> DEFINE b == buckets[s][p]
<1>3. Filed(buckets) /\ b # <<>> /\ b \in Seq(Level(s, p)) /\ Len(b) \in Nat
  BY <1>1, BucketIsSeq DEF Inv, TypeOK, IsBest
<1>4. /\ Head(b) = b[1] /\ b[1] \in Level(s, p) /\ 1 \in 1 .. Len(b)
      /\ Tail(b) \in Seq(Level(s, p)) /\ Len(Tail(b)) = Len(b) - 1
      /\ \A i \in 1 .. Len(Tail(b)) : Tail(b)[i] = b[i + 1] /\ i + 1 \in 1 .. Len(b)
  <2>1. Len(b) >= 1
    BY <1>3, EmptySeq
  <2>2. Tail(b) \in Seq(Level(s, p)) /\ Len(Tail(b)) = Len(b) - 1
        /\ \A i \in 1 .. Len(Tail(b)) : Tail(b)[i] = b[i + 1]
    BY <1>3, HeadTailProperties
  <2>3. Head(b) = b[1] /\ b[1] \in Level(s, p)
    BY <1>3, <2>1, ElementOfSeq, HeadTailProperties
  <2> QED
    BY <1>3, <2>1, <2>2, <2>3
<1> HIDE DEF b
<1>5. b[1] \in Order /\ b[1].side = s /\ b[1].price = p /\ b[1] # None
  BY <1>4, LevelIsOrder, FifoAssumption
<1>6. /\ Filed(buckets') /\ buckets'[s][p] = Tail(b)
      /\ \A t \in Sides, q \in Prices : t # s \/ q # p => buckets'[t][q] = buckets[t][q]
  <2> DEFINE rest == Tail(b)
  <2>1. buckets' = Refiled(buckets, s, p, rest) /\ rest \in Seq(Level(s, p))
    BY <1>1, <1>4 DEF b
  <2>2. rest = Tail(b)
    OBVIOUS
  <2> HIDE DEF rest
  <2>3. /\ Filed(Refiled(buckets, s, p, rest)) /\ Refiled(buckets, s, p, rest)[s][p] = rest
        /\ \A t \in Sides, q \in Prices :
              t # s \/ q # p => Refiled(buckets, s, p, rest)[t][q] = buckets[t][q]
    BY <1>3, <2>1, RefiledBuckets
  <2>4. Filed(buckets')
    BY <2>1, <2>3
  <2> QED
    BY <2>1, <2>2, <2>3, <2>4
<1>7. /\ hand' \in [Sides -> Order \cup {None}] /\ hand'[s] = b[1]
      /\ \A t \in Sides \ {s} : hand'[t] = hand[t]
  <2>1. hand \in [Sides -> Order \cup {None}] /\ hand' = [hand EXCEPT ![s] = b[1]]
    BY <1>1, <1>4 DEF b, Inv, TypeOK
  <2> QED
    BY <1>5, <2>1
<1>8. ASSUME NEW t \in Sides, NEW i \in Ids, NEW q \in Prices, Queued(buckets', t, i, q)
      PROVE  Queued(buckets, t, i, q)
  <2>1. CASE t # s \/ q # p
    BY <1>6, <1>8, <2>1 DEF Queued
  <2>2. CASE t = s /\ q = p
    <3>1. PICK k \in 1 .. Len(Tail(b)) : Tail(b)[k].id = i
      BY <1>6, <1>8, <2>2 DEF Queued
    <3>2. k + 1 \in 1 .. Len(b) /\ b[k + 1].id = i
      BY <1>4, <3>1
    <3> QED
      BY <2>2, <3>2 DEF Queued, b
  <2> QED
    BY <2>1, <2>2
<1>9. ASSUME NEW t \in Sides, NEW i \in Ids, NEW q \in Prices, Holds(t, i, q)'
      PROVE  Holds(t, i, q)
  <2>1. CASE Queued(buckets', t, i, q)
    BY <1>8, <2>1 DEF Holds
  <2>2. CASE hand'[t] # None /\ hand'[t].id = i /\ hand'[t].price = q
    <3>1. CASE t = s
      <4>1. b[1].id = i /\ q = p
        BY <1>5, <1>7, <2>2, <3>1
      <4>2. Queued(buckets, s, i, p)
        BY <1>4, <4>1 DEF Queued, b
      <4> QED
        BY <3>1, <4>1, <4>2 DEF Holds
    <3>2. CASE t # s
      BY <1>7, <2>2, <3>2 DEF Holds
    <3> QED
      BY <3>1, <3>2
  <2> QED
    BY <1>9, <2>1, <2>2 DEF Holds
<1>10. ASSUME NEW i \in Ids, NEW q \in Prices, Holds(s, i, q)'
       PROVE  q \in Scanned(s) /\ ~Better(s, q, p)
  <2>1. Holds(s, i, q)
    BY <1>9, <1>10
  <2>2. q \in Scanned(s)
    BY <2>1 DEF Inv, BoundsCover
  <2>3. buckets[s][q] # <<>>
    <3>1. Queued(buckets, s, i, q)
      BY <1>2, <2>1 DEF Holds
    <3> QED
      BY <1>3, <3>1, BucketIsSeq
  <2> QED
    BY <1>1, <2>2, <2>3 DEF IsBest
<1>11. MaxPrice \in Nat /\ \A q \in Prices : q \in Nat /\ q <= MaxPrice
  BY FifoAssumption DEF Prices
<1>12. /\ lo \in [Sides -> 0 .. MaxPrice + 1] /\ hi \in [Sides -> Prices]
       /\ lo' \in [Sides -> 0 .. MaxPrice + 1] /\ hi' \in [Sides -> Prices]
  <2>1. lo \in [Sides -> 0 .. MaxPrice + 1] /\ hi \in [Sides -> Prices]
    BY DEF Inv, TypeOK
  <2>2. p \in 0 .. MaxPrice + 1
    BY <1>11
  <2> QED
    BY <1>1, <2>1, <2>2
<1>13. TypeOK'
  <2>1. \A t \in Sides : hand'[t] # None => hand'[t].side = t
    BY <1>5, <1>7 DEF Inv, TypeOK
  <2> QED
    BY <1>2, <1>6, <1>7, <1>12, <2>1 DEF Inv, TypeOK
<1>14. BoundsCover'
  <2> SUFFICES ASSUME NEW t \in Sides, NEW i \in Ids, NEW q \in Prices, Holds(t, i, q)'
               PROVE  q \in lo'[t] .. hi'[t]
    BY DEF BoundsCover, Scanned
  <2>1. q \in lo[t] .. hi[t]
    BY <1>9 DEF Inv, BoundsCover, Scanned
  <2>2. q \in Nat /\ p \in Nat /\ lo[t] \in Int /\ hi[t] \in Int
    BY <1>11, <1>12
  <2>3. CASE t # s
    BY <1>1, <1>12, <2>1, <2>3
  <2>4. CASE t = s /\ s = "buy"
    <3>1. ~(q > p)
      BY <1>10, <2>4 DEF Better
    <3>2. lo'[s] = lo[s] /\ hi'[s] = p
      BY <1>1, <1>12, <2>4
    <3> QED
      BY <2>1, <2>2, <2>4, <3>1, <3>2
  <2>5. CASE t = s /\ s # "buy"
    <3>1. ~(q < p)
      BY <1>10, <2>5 DEF Better
    <3>2. lo'[s] = p /\ hi'[s] = hi[s]
      BY <1>1, <1>12, <2>5
    <3> QED
      BY <2>1, <2>2, <2>5, <3>1, <3>2
  <2> QED
    BY <2>3, <2>4, <2>5
<1>15. OnlyTakerCrosses'
  <2>1. "buy" \in Sides /\ "sell" \in Sides
    BY DEF Sides
  <2> QED
    BY <1>2, <1>9, <2>1 DEF Inv, OnlyTakerCrosses
<1>16. TakerTrades'
  BY <1>2 DEF Inv, TakerTrades
<1>17. BestInHand'
  <2> SUFFICES ASSUME NEW t \in Sides, NEW q \in Prices, hand'[t] # None, buckets'[t][q] # <<>>
               PROVE  ~Better(t, q, hand'[t].price)
    BY DEF BestInHand
  <2>1. CASE t = s
    <3>1. PICK i \in Ids : Queued(buckets', t, i, q)
      BY <1>6, BucketIsSeq
    <3>2. Holds(s, i, q)'
      BY <2>1, <3>1 DEF Holds
    <3> QED
      BY <1>5, <1>7, <1>10, <2>1, <3>2
  <2>2. CASE t # s
    BY <1>6, <1>7, <2>2 DEF Inv, BestInHand
  <2> QED
    BY <2>1, <2>2
<1>18. HandsEmpty'
  BY <1>2 DEF HandsEmpty
<1> QED
  BY <1>13, <1>14, <1>15, <1>16, <1>17, <1>18 DEF Inv

\* What the two orders in hand trade: they cross, so one of them is the taker.
LEMMA MergeInv ==
    ASSUME Inv, Merge
    PROVE  Inv'
<1> DEFINE q == Least(hand["buy"].size, hand["sell"].size)
           trade == [quantity |-> q, bid |-> hand["buy"], ask |-> hand["sell"]]
           left(s) == [hand[s] EXCEPT !.size = hand[s].size - q]
<1>1. "buy" \in Sides /\ "sell" \in Sides /\ \A s \in Sides : s = "buy" \/ s = "sell"
  BY DEF Sides
<1>2. \A s \in Sides : hand[s] # None /\ hand[s] \in Order /\ hand[s].side = s
  BY DEF Merge, BothInHand, Inv, TypeOK
<1>3. \A s \in Sides : hand[s].size \in Nat \ {0} /\ hand[s].id \in Ids /\ hand[s].price \in Prices
  BY <1>2 DEF Order
<1>4. q \in Nat /\ q <= hand["buy"].size /\ q <= hand["sell"].size
  BY <1>1, <1>3 DEF Least
<1>5. /\ trades' = Append(trades, trade)
      /\ hand' = [s \in Sides |-> IF hand[s].size = q THEN None ELSE left(s)]
      /\ orders' = [id \in DOMAIN orders \ Consumed(q) |-> orders[id]]
      /\ buckets' = buckets /\ lo' = lo /\ hi' = hi /\ matching' = matching /\ taker' = taker
      /\ matching /\ hand["sell"].price <= hand["buy"].price
  BY DEF Merge, Crosses
<1> HIDE DEF q
<1>6. ASSUME NEW s \in Sides, hand[s].size # q
      PROVE  left(s) \in Order /\ left(s).id = hand[s].id /\ left(s).price = hand[s].price
             /\ left(s).side = s
  <2>1. hand[s].size - q \in Nat \ {0}
    BY <1>1, <1>3, <1>4, <1>6
  <2> QED
    BY <1>2, <2>1 DEF Order
<1>7. \A s \in Sides : hand'[s] = None \/ (hand[s].size # q /\ hand'[s] = left(s))
  BY <1>5
<1>8. hand' \in [Sides -> Order \cup {None}]
  BY <1>5, <1>6
<1> HIDE DEF left
<1>9. \A s \in Sides : hand'[s] # None =>
         hand'[s].id = hand[s].id /\ hand'[s].price = hand[s].price /\ hand'[s].side = s
  BY <1>6, <1>7
<1>10. \A t \in Sides, i \in Ids, p \in Prices : Holds(t, i, p)' => Holds(t, i, p)
  BY <1>2, <1>5, <1>9 DEF Holds
<1>11. /\ trade \in [quantity : Nat, bid : Order, ask : Order]
       /\ trade.bid = hand["buy"] /\ trade.ask = hand["sell"]
  BY <1>1, <1>2, <1>4
<1> HIDE DEF trade
<1>12. trades \in Seq([quantity : Nat, bid : Order, ask : Order])
  BY DEF Inv, TypeOK
<1>13. /\ trades' \in Seq([quantity : Nat, bid : Order, ask : Order])
       /\ Len(trades) \in Nat /\ Len(trades') = Len(trades) + 1
       /\ \A k \in 1 .. Len(trades) : trades'[k] = trades[k]
       /\ trades'[Len(trades) + 1] = trade
  BY <1>5, <1>11, <1>12, AppendProperties, LenProperties
<1>14. TypeOK'
  <2>1. DOMAIN orders' \subseteq Ids /\ \A id \in DOMAIN orders' : orders'[id] \in Prices
    BY <1>5 DEF Inv, TypeOK
  <2> QED
    BY <1>5, <1>8, <1>9, <1>13, <2>1 DEF Inv, TypeOK
<1>15. BoundsCover'
  BY <1>5, <1>10 DEF Inv, BoundsCover, Scanned
<1>16. OnlyTakerCrosses'
  BY <1>1, <1>5, <1>10 DEF Inv, OnlyTakerCrosses
<1>17. TakerTrades'
  <2>1. taker # None /\ taker.id \in {trade.bid.id, trade.ask.id}
    <3>1. /\ Holds("buy", hand["buy"].id, hand["buy"].price)
          /\ Holds("sell", hand["sell"].id, hand["sell"].price)
      BY <1>1, <1>2 DEF Holds
    <3> QED
      BY <1>1, <1>3, <1>5, <1>11, <3>1 DEF Inv, OnlyTakerCrosses
  <2> SUFFICES ASSUME NEW k \in 1 .. Len(trades')
               PROVE  taker' # None /\ taker'.id \in {trades'[k].bid.id, trades'[k].ask.id}
    BY DEF TakerTrades
  <2>2. CASE k = Len(trades) + 1
    BY <1>5, <1>13, <2>1, <2>2
  <2>3. CASE k # Len(trades) + 1
    <3>1. k \in 1 .. Len(trades)
      BY <1>13, <2>3
    <3> QED
      BY <1>5, <1>13, <3>1 DEF Inv, TakerTrades
  <2> QED
    BY <2>2, <2>3
<1>18. BestInHand'
  BY <1>2, <1>5, <1>9 DEF Inv, BestInHand
<1>19. HandsEmpty'
  BY <1>5 DEF HandsEmpty
<1> QED
  BY <1>14, <1>15, <1>16, <1>17, <1>18, <1>19 DEF Inv

\* The loop ends with nothing that crosses: the best orders do not, or a side
\* has nothing between its bounds and so nothing at all.
LEMMA StopInv ==
    ASSUME Inv, Stop
    PROVE  Inv'
<1>1. "buy" \in Sides /\ "sell" \in Sides /\ \A s \in Sides : s = "buy" \/ s = "sell"
  BY DEF Sides
<1>2. /\ buckets' = Unpopped /\ hand' = [s \in Sides |-> None] /\ matching' = FALSE
      /\ lo' = lo /\ hi' = hi /\ orders' = orders /\ trades' = trades /\ taker' = taker
  BY DEF Stop
<1>3. Filed(buckets) /\ \A s \in Sides : hand[s] # None => hand[s] \in Level(s, hand[s].price)
        /\ hand[s].price \in Prices /\ hand[s] \in Order
  <2>1. Filed(buckets) /\ \A s \in Sides : hand[s] # None => hand[s] \in Order /\ hand[s].side = s
    BY DEF Inv, TypeOK
  <2> QED
    BY <2>1, OrderIsFiled
<1>4. ASSUME NEW s \in Sides
      PROVE  /\ buckets'[s] \in [Prices -> Seq(Order)]
             /\ \A p \in Prices : buckets'[s][p] \in Seq(Level(s, p))
             /\ \A p \in Prices, i \in Ids : Queued(buckets', s, i, p) => Holds(s, i, p)
  <2>1. CASE hand[s] = None
    <3>1. buckets'[s] = buckets[s]
      BY <1>2, <2>1 DEF Unpopped
    <3> QED
      BY <1>3, <3>1 DEF Filed, Queued, Holds
  <2>2. CASE hand[s] # None
    <3> DEFINE c == hand[s].price
               old == buckets[s][c]
               b == <<hand[s]>> \o old
    <3>1. buckets'[s] = [buckets[s] EXCEPT ![c] = b]
      BY <1>2, <2>2 DEF Unpopped
    <3>2. c \in Prices /\ hand[s] \in Level(s, c) /\ old \in Seq(Level(s, c)) /\ Len(old) \in Nat
      BY <1>3, <2>2, BucketIsSeq
    <3>3. /\ b \in Seq(Level(s, c)) /\ Len(b) = Len(old) + 1 /\ b[1] = hand[s]
          /\ \A i \in 2 .. Len(old) + 1 : b[i] = old[i - 1]
      <4> DEFINE one == <<hand[s]>>
      <4>1. one \in Seq(Level(s, c)) /\ Len(one) = 1 /\ one[1] = hand[s]
        BY <3>2
      <4> HIDE DEF one, old
      <4>2. /\ one \o old \in Seq(Level(s, c)) /\ Len(one \o old) = Len(one) + Len(old)
            /\ \A i \in 1 .. Len(one) + Len(old) :
                  (one \o old)[i] = IF i <= Len(one) THEN one[i] ELSE old[i - Len(one)]
        BY <3>2, <4>1, ConcatProperties
      <4>3. b = one \o old
        BY DEF one
      <4> QED
        BY <3>2, <4>1, <4>2, <4>3
    <3>4. b \in Seq(Order)
      <4>1. Level(s, c) \subseteq Order
        BY <3>2, LevelIsOrder
      <4> QED
        BY <3>3, <4>1, SeqMonotonic
    <3> HIDE DEF b
    <3>5. buckets[s] \in [Prices -> Seq(Order)]
      BY <1>3 DEF Filed
    <3>6. /\ buckets'[s] \in [Prices -> Seq(Order)] /\ buckets'[s][c] = b
          /\ \A p \in Prices \ {c} : buckets'[s][p] = buckets[s][p]
      BY <3>1, <3>2, <3>4, <3>5
    <3>7. \A p \in Prices : buckets'[s][p] \in Seq(Level(s, p))
      BY <1>3, <3>3, <3>6 DEF Filed
    <3>8. ASSUME NEW p \in Prices, NEW i \in Ids, Queued(buckets', s, i, p)
          PROVE  Holds(s, i, p)
      <4>1. CASE p # c
        BY <3>6, <3>8, <4>1 DEF Queued, Holds
      <4>2. CASE p = c
        <5>1. PICK k \in 1 .. Len(b) : b[k].id = i
          BY <3>6, <3>8, <4>2 DEF Queued
        <5>2. CASE k = 1
          BY <2>2, <3>3, <4>2, <5>1, <5>2 DEF Holds
        <5>3. CASE k # 1
          <6>1. k - 1 \in 1 .. Len(old) /\ old[k - 1].id = i
            BY <3>2, <3>3, <5>1, <5>3, SMTT(30)
          <6> QED
            BY <4>2, <6>1 DEF Queued, Holds
        <5> QED
          BY <5>2, <5>3
      <4> QED
        BY <4>1, <4>2
    <3> QED
      BY <3>6, <3>7, <3>8
  <2> QED
    BY <2>1, <2>2
<1>5. Filed(buckets')
  <2>1. buckets' = [s \in Sides |-> buckets'[s]]
    BY <1>2 DEF Unpopped
  <2>2. buckets' \in [Sides -> [Prices -> Seq(Order)]]
    BY <1>4, <2>1
  <2> QED
    BY <1>4, <2>2 DEF Filed
<1>6. \A s \in Sides, i \in Ids, p \in Prices : Holds(s, i, p)' => Holds(s, i, p)
  BY <1>2, <1>4 DEF Holds
<1>7. TypeOK'
  BY <1>2, <1>5 DEF Inv, TypeOK
<1>8. BoundsCover'
  BY <1>2, <1>6 DEF Inv, BoundsCover, Scanned
<1>9. ASSUME NEW i \in Ids, NEW p \in Prices, Holds("buy", i, p),
             NEW j \in Ids, NEW q \in Prices, Holds("sell", j, q), q <= p
      PROVE  FALSE
  <2>1. CASE BothInHand /\ ~Crosses(hand["buy"], hand["sell"])
    <3>1. \A s \in Sides : hand[s] # None /\ hand[s].price \in Int
      BY <1>3, <2>1, FifoAssumption DEF BothInHand, Prices
    <3>2. p \in Int /\ q \in Int
      BY FifoAssumption DEF Prices
    <3>3. ~(p > hand["buy"].price)
      <4>1. CASE Queued(buckets, "buy", i, p)
        BY <1>1, <1>3, <3>1, <4>1, BucketIsSeq DEF Inv, BestInHand, Better
      <4>2. CASE hand["buy"].price = p
        BY <1>1, <3>1, <3>2, <4>2
      <4> QED
        BY <1>9, <4>1, <4>2 DEF Holds
    <3>4. ~(q < hand["sell"].price)
      <4>1. CASE Queued(buckets, "sell", j, q)
        BY <1>1, <1>3, <3>1, <4>1, BucketIsSeq DEF Inv, BestInHand, Better
      <4>2. CASE hand["sell"].price = q
        BY <1>1, <3>1, <3>2, <4>2
      <4> QED
        BY <1>9, <4>1, <4>2 DEF Holds
    <3>5. ~(hand["sell"].price <= hand["buy"].price)
      BY <2>1 DEF Crosses
    <3> QED
      BY <1>1, <1>9, <3>1, <3>2, <3>3, <3>4, <3>5
  <2>2. CASE ~BothInHand /\ \A s \in Sides : hand[s] # None \/ Exhausted(s)
    <3>1. PICK s \in Sides : hand[s] = None /\ Exhausted(s)
      BY <2>2 DEF BothInHand
    <3>2. \A k \in Ids, r \in Prices : ~Holds(s, k, r)
      <4> SUFFICES ASSUME NEW k \in Ids, NEW r \in Prices, Holds(s, k, r)
                   PROVE  FALSE
        OBVIOUS
      <4>1. r \in Scanned(s)
        BY DEF Inv, BoundsCover
      <4>2. Queued(buckets, s, k, r)
        BY <3>1 DEF Holds
      <4>3. buckets[s][r] # <<>>
        BY <1>3, <4>2, BucketIsSeq
      <4> QED
        BY <3>1, <4>1, <4>3 DEF Exhausted
    <3> QED
      BY <1>1, <1>9, <3>2
  <2> QED
    BY <2>1, <2>2 DEF Stop
<1>10. OnlyTakerCrosses'
  BY <1>1, <1>6, <1>9 DEF OnlyTakerCrosses
<1>11. TakerTrades'
  BY <1>2 DEF Inv, TakerTrades
<1>12. BestInHand' /\ HandsEmpty'
  BY <1>2 DEF BestInHand, HandsEmpty
<1> QED
  BY <1>7, <1>8, <1>10, <1>11, <1>12 DEF Inv

-----------------------------------------------------------------------------
(* The adapter's steps.                                                    *)

LEMMA InitInv == engine_init => Inv
<1> SUFFICES ASSUME engine_init PROVE Inv
  OBVIOUS
<1>1. MaxPrice \in Nat /\ 0 \in Prices /\ MaxPrice + 1 \in 0 .. MaxPrice + 1
  BY FifoAssumption DEF Prices
<1>2. /\ buckets = [s \in Sides |-> [p \in Prices |-> <<>>]]
      /\ lo = [s \in Sides |-> MaxPrice + 1] /\ hi = [s \in Sides |-> 0]
      /\ orders = [id \in {} |-> 0] /\ hand = [s \in Sides |-> None]
      /\ trades = <<>> /\ matching = FALSE /\ taker = None
  BY DEF engine_init, Init
<1>3. Filed(buckets)
  <2>1. /\ \A T : <<>> \in Seq(T)
        /\ \A s \in Sides, p \in Prices : buckets[s][p] = <<>>
    BY <1>2, EmptySeq
  <2> QED
    BY <1>2, <2>1 DEF Filed
<1>4. trades \in Seq([quantity : Nat, bid : Order, ask : Order]) /\ Len(trades) = 0
  BY <1>2, EmptySeq
<1>5. DOMAIN orders = {}
  BY <1>2
<1>6. TypeOK
  BY <1>1, <1>2, <1>3, <1>4, <1>5 DEF TypeOK
<1>7. \A s \in Sides, id \in Ids, p \in Prices : ~Holds(s, id, p)
  BY <1>2, <1>3, BucketIsSeq DEF Holds
<1>8. BoundsCover
  BY <1>7 DEF BoundsCover
<1>9. OnlyTakerCrosses
  <2>1. "buy" \in Sides
    BY DEF Sides
  <2> QED
    BY <1>7, <2>1 DEF OnlyTakerCrosses
<1>10. TakerTrades
  BY <1>4 DEF TakerTrades
<1>11. BestInHand /\ HandsEmpty
  BY <1>2 DEF BestInHand, HandsEmpty
<1> QED
  BY <1>6, <1>8, <1>9, <1>10, <1>11 DEF Inv

\* A step that leaves the book alone.
LEMMA Untouched == Inv /\ UNCHANGED fifoVars => Inv'
<1> SUFFICES ASSUME Inv, UNCHANGED fifoVars PROVE Inv'
  OBVIOUS
<1>1. /\ buckets' = buckets /\ lo' = lo /\ hi' = hi /\ orders' = orders /\ hand' = hand
      /\ trades' = trades /\ matching' = matching /\ taker' = taker
  BY DEF fifoVars
<1>2. TypeOK'
  BY <1>1 DEF Inv, TypeOK
<1>3. BoundsCover' /\ OnlyTakerCrosses'
  BY <1>1 DEF Inv, BoundsCover, OnlyTakerCrosses, Holds, Scanned
<1>4. TakerTrades' /\ BestInHand' /\ HandsEmpty'
  BY <1>1 DEF Inv, TakerTrades, BestInHand, HandsEmpty
<1> QED
  BY <1>2, <1>3, <1>4 DEF Inv

\* What a workload sends is an order of the book.
LEMMA NewIsOrder == \A m \in NewsAt(NextSeq) : BookOrder(m, m.side) \in Order
BY FifoAssumption DEF NewsAt, NewOrder, BookOrder, Order

LEMMA ModifyIsOrder == \A m \in ModifiesAt(NextSeq) : BookOrder(m, m.side) \in Order
BY FifoAssumption DEF ModifiesAt, Modify, BookOrder, Order

LEMMA DeliverInv == Inv /\ Deliver => Inv'
<1> SUFFICES ASSUME Inv, Deliver PROVE Inv'
  OBVIOUS
<1>1. CASE \E m \in NewsAt(NextSeq) : engine_on_new_order(m)
  <2>1. PICK m \in NewsAt(NextSeq) : Insert(BookOrder(m, m.side))
    BY <1>1 DEF engine_on_new_order
  <2> QED
    BY <2>1, NewIsOrder, InsertInv
<1>2. CASE \E m \in CancelsAt(NextSeq) : engine_on_cancel(m)
  BY <1>2, CancelInv, Untouched DEF engine_on_cancel
<1>3. CASE \E m \in ModifiesAt(NextSeq) : SaneModify(m) /\ engine_on_modify(m)
  <2>1. PICK m \in ModifiesAt(NextSeq) : SaneModify(m) /\ engine_on_modify(m)
    BY <1>3
  <2>2. CASE shadow[m.id].alive
    <3>1. Reinsert(BookOrder(m, m.side))
      BY <2>1, <2>2 DEF SaneModify, engine_on_modify, ModifiedSide
    <3> QED
      BY <2>1, <3>1, ModifyIsOrder, InsertInv
  <2>3. CASE ~shadow[m.id].alive
    BY <2>1, <2>3, Untouched DEF engine_on_modify
  <2> QED
    BY <2>2, <2>3
<1> QED
  BY <1>1, <1>2, <1>3 DEF Deliver

LEMMA MatchingInv == Inv /\ Matching => Inv'
BY PopInv, MergeInv, StopInv DEF Matching, check_for_trades

LEMMA AggressorInv == Inv /\ match_aggressor => Inv'
<1> SUFFICES ASSUME Inv, match_aggressor PROVE Inv'
  OBVIOUS
<1>1. cancel(taker.id, taker.side) \/ Return
  BY DEF match_aggressor
<1> QED
  BY <1>1, CancelInv, ReturnInv

\* The invariant is inductive.
LEMMA Invariance == Spec => []Inv
<1>1. Inv /\ [AdapterNext]_vars => Inv'
  <2> SUFFICES ASSUME Inv, [AdapterNext]_vars PROVE Inv'
    OBVIOUS
  <2>1. CASE Deliver
    BY <2>1, DeliverInv
  <2>2. CASE Matching
    BY <2>2, MatchingInv
  <2>3. CASE match_aggressor
    BY <2>3, AggressorInv
  <2>4. CASE UNCHANGED vars
    BY <2>4, Untouched DEF vars
  <2> QED
    BY <2>1, <2>2, <2>3, <2>4 DEF AdapterNext
<1> QED
  BY <1>1, InitInv, PTL DEF Spec

-----------------------------------------------------------------------------
(* The index: which orders the book holds, and where.                      *)

\* The elements of a queue; no id is in it twice.
Members(b) == {b[i] : i \in 1 .. Len(b)}
Distinct(b) == \A i, j \in 1 .. Len(b) : b[i].id = b[j].id => i = j

\* The orders of a side that wait, and those that wait or are in hand.
Waiting(bk, s) == UNION {Members(bk[s][p]) : p \in Prices}
Held(s) == Waiting(buckets, s) \cup ({hand[s]} \ {None})
AllDistinct(bk) == \A s \in Sides, p \in Prices : Distinct(bk[s][p])

\* An order joins a queue.
LEMMA AppendMembers ==
    ASSUME NEW T, NEW b \in Seq(T), NEW o \in T
    PROVE  /\ Members(Append(b, o)) = Members(b) \cup {o}
           /\ Distinct(b) /\ (\A x \in Members(b) : x.id # o.id) => Distinct(Append(b, o))
<1> DEFINE n == Len(b)
           c == Append(b, o)
<1>1. n \in Nat /\ Len(c) = n + 1 /\ c[n + 1] = o /\ \A i \in 1 .. n : c[i] = b[i]
  BY AppendProperties, LenProperties
<1> HIDE DEF n, c
<1>2. 1 .. n + 1 = (1 .. n) \cup {n + 1}
  BY <1>1
<1>3. Members(c) = Members(b) \cup {o}
  <2>1. ASSUME NEW x \in Members(c) PROVE x \in Members(b) \cup {o}
    <3>1. PICK i \in 1 .. n + 1 : x = c[i]
      BY <1>1 DEF Members
    <3> QED
      BY <1>1, <1>2, <3>1 DEF Members, n
  <2>2. ASSUME NEW x \in Members(b) \cup {o} PROVE x \in Members(c)
    BY <1>1, <1>2 DEF Members, n
  <2> QED
    BY <2>1, <2>2
<1>4. ASSUME Distinct(b), \A x \in Members(b) : x.id # o.id,
             NEW i \in 1 .. n + 1, NEW j \in 1 .. n + 1, c[i].id = c[j].id
      PROVE  i = j
  <2>1. \A h \in 1 .. n : c[h].id # o.id
    BY <1>1, <1>4 DEF Members, n
  <2>2. CASE i = n + 1 \/ j = n + 1
    BY <1>1, <1>2, <1>4, <2>1, <2>2
  <2>3. CASE i \in 1 .. n /\ j \in 1 .. n
    BY <1>1, <1>4, <2>3 DEF Distinct, n
  <2> QED
    BY <1>2, <2>2, <2>3
<1>5. Distinct(b) /\ (\A x \in Members(b) : x.id # o.id) => Distinct(c)
  BY <1>1, <1>4 DEF Distinct
<1> QED
  BY <1>3, <1>5 DEF c

\* The head of a queue leaves it.
LEMMA TailMembers ==
    ASSUME NEW T, NEW b \in Seq(T), b # <<>>, Distinct(b)
    PROVE  /\ Members(b) = Members(Tail(b)) \cup {Head(b)}
           /\ Distinct(Tail(b))
           /\ \A x \in Members(Tail(b)) : x.id # Head(b).id
<1> DEFINE n == Len(b)
           c == Tail(b)
<1>1. /\ n \in Nat /\ n >= 1 /\ Len(c) = n - 1 /\ Head(b) = b[1]
      /\ \A i \in 1 .. n - 1 : c[i] = b[i + 1]
  <2>1. n \in Nat /\ n >= 1
    BY EmptySeq
  <2>2. Len(c) = n - 1 /\ \A i \in 1 .. Len(c) : c[i] = b[i + 1]
    BY HeadTailProperties
  <2>3. Head(b) = b[1]
    BY HeadTailProperties
  <2> QED
    BY <2>1, <2>2, <2>3
<1> HIDE DEF n, c
<1>2. \A i \in 1 .. n - 1 : i + 1 \in 1 .. n /\ i + 1 # 1
  BY <1>1
<1>3. \A i \in 1 .. n : i = 1 \/ (i - 1 \in 1 .. n - 1 /\ (i - 1) + 1 = i)
  BY <1>1
<1>4. Members(b) = Members(c) \cup {Head(b)}
  <2>1. ASSUME NEW x \in Members(b) PROVE x \in Members(c) \cup {Head(b)}
    <3>1. PICK i \in 1 .. n : x = b[i]
      BY DEF Members, n
    <3>2. CASE i = 1
      BY <1>1, <3>1, <3>2
    <3>3. CASE i # 1
      <4>1. i - 1 \in 1 .. Len(c) /\ x = c[i - 1]
        BY <1>1, <1>3, <3>1, <3>3
      <4> QED
        BY <4>1 DEF Members
    <3> QED
      BY <3>2, <3>3
  <2>2. ASSUME NEW x \in Members(c) PROVE x \in Members(b)
    <3>1. PICK i \in 1 .. n - 1 : x = c[i]
      BY <1>1 DEF Members
    <3> QED
      BY <1>1, <1>2, <3>1 DEF Members, n
  <2>3. 1 \in 1 .. n
    BY <1>1
  <2>4. Head(b) \in Members(b)
    BY <1>1, <2>3 DEF Members, n
  <2> QED
    BY <2>1, <2>2, <2>4
<1>5. \A i, j \in 1 .. n : b[i].id = b[j].id => i = j
  BY DEF Distinct, n
<1>6. Distinct(c)
  <2> SUFFICES ASSUME NEW i \in 1 .. n - 1, NEW j \in 1 .. n - 1, c[i].id = c[j].id
               PROVE  i = j
    BY <1>1 DEF Distinct
  <2>1. c[i] = b[i + 1] /\ c[j] = b[j + 1] /\ i + 1 \in 1 .. n /\ j + 1 \in 1 .. n
    BY <1>1, <1>2
  <2>2. i + 1 = j + 1
    BY <1>5, <2>1
  <2> QED
    BY <2>2
<1>7. \A x \in Members(c) : x.id # Head(b).id
  <2> SUFFICES ASSUME NEW i \in 1 .. n - 1, c[i].id = b[1].id PROVE FALSE
    BY <1>1 DEF Members
  <2>1. b[i + 1].id = b[1].id /\ 1 \in 1 .. n /\ i + 1 \in 1 .. n
    BY <1>1, <1>2
  <2> QED
    BY <1>2, <1>5, <2>1
<1> QED
  BY <1>4, <1>6, <1>7 DEF c

\* An order goes back in front.
LEMMA FrontMembers ==
    ASSUME NEW T, NEW b \in Seq(T), NEW h \in T
    PROVE  /\ Members(<<h>> \o b) = Members(b) \cup {h}
           /\ Distinct(b) /\ (\A x \in Members(b) : x.id # h.id) => Distinct(<<h>> \o b)
<1> DEFINE n == Len(b)
           one == <<h>>
           c == one \o b
<1>1. n \in Nat
  BY LenProperties
<1>2. one \in Seq(T) /\ Len(one) = 1 /\ one[1] = h
  OBVIOUS
<1> HIDE DEF one, n
<1>3. /\ Len(c) = n + 1 /\ c[1] = h /\ \A i \in 1 .. n : c[i + 1] = b[i]
  <2>1. /\ Len(one \o b) = 1 + n
        /\ \A i \in 1 .. 1 + n : (one \o b)[i] = IF i <= 1 THEN one[i] ELSE b[i - 1]
    <3>1. /\ Len(one \o b) = Len(one) + Len(b)
          /\ \A i \in 1 .. Len(one) + Len(b) :
                (one \o b)[i] = IF i <= Len(one) THEN one[i] ELSE b[i - Len(one)]
      <4> HIDE DEF c
      <4> QED
        BY <1>2, ConcatProperties
    <3> HIDE DEF c
    <3> QED
      BY <1>2, <3>1 DEF n
  <2>2. \A i \in 1 .. n : i + 1 \in 1 .. 1 + n /\ ~(i + 1 <= 1) /\ (i + 1) - 1 = i
    BY <1>1
  <2>3. 1 \in 1 .. 1 + n /\ 1 <= 1
    BY <1>1
  <2>4. c[1] = h
    BY <1>2, <2>1, <2>3
  <2>5. ASSUME NEW i \in 1 .. n PROVE c[i + 1] = b[i]
    BY <2>1, <2>2
  <2> QED
    BY <1>1, <2>1, <2>4, <2>5
<1> HIDE DEF c
<1>4. \A i \in 1 .. n + 1 : i = 1 \/ (i - 1 \in 1 .. n /\ (i - 1) + 1 = i)
  BY <1>1
<1>5. 1 \in 1 .. n + 1 /\ \A i \in 1 .. n : i + 1 \in 1 .. n + 1
  BY <1>1
<1>6. Members(c) = Members(b) \cup {h}
  <2>1. ASSUME NEW x \in Members(c) PROVE x \in Members(b) \cup {h}
    <3>1. PICK i \in 1 .. n + 1 : x = c[i]
      BY <1>3 DEF Members
    <3>2. CASE i = 1
      BY <1>3, <3>1, <3>2
    <3>3. CASE i # 1
      <4>1. i - 1 \in 1 .. Len(b) /\ x = b[i - 1]
        BY <1>3, <1>4, <3>1, <3>3 DEF n
      <4> QED
        BY <4>1 DEF Members
    <3> QED
      BY <3>2, <3>3
  <2>2. ASSUME NEW x \in Members(b) \cup {h} PROVE x \in Members(c)
    <3>1. CASE x = h
      BY <1>3, <1>5, <3>1 DEF Members
    <3>2. CASE x \in Members(b)
      <4>1. PICK i \in 1 .. n : x = b[i]
        BY <3>2 DEF Members, n
      <4> QED
        BY <1>3, <1>5, <4>1 DEF Members
    <3> QED
      BY <3>1, <3>2
  <2> QED
    BY <2>1, <2>2
<1>7. ASSUME Distinct(b), \A x \in Members(b) : x.id # h.id,
             NEW i \in 1 .. n + 1, NEW j \in 1 .. n + 1, c[i].id = c[j].id
      PROVE  i = j
  <2>1. \A k \in 1 .. n : b[k].id # h.id
    BY <1>7 DEF Members, n
  <2>2. CASE i = 1 \/ j = 1
    BY <1>3, <1>4, <1>7, <2>1, <2>2
  <2>3. CASE i # 1 /\ j # 1
    <3>1. i - 1 \in 1 .. n /\ j - 1 \in 1 .. n /\ c[i] = b[i - 1] /\ c[j] = b[j - 1]
      BY <1>3, <1>4, <2>3
    <3>2. i - 1 = j - 1
      BY <1>7, <3>1 DEF Distinct, n
    <3> QED
      BY <3>2
  <2> QED
    BY <2>2, <2>3
<1>8. Distinct(b) /\ (\A x \in Members(b) : x.id # h.id) => Distinct(c)
  BY <1>3, <1>7 DEF Distinct
<1> QED
  BY <1>6, <1>8 DEF c, one

\* cancel on one bucket: the order is out, every other one is still there.
LEMMA WithoutMembers ==
    ASSUME NEW T, NEW b \in Seq(T), NEW id, Distinct(b)
    PROVE  /\ Members(BucketWithout(b, id)) = {x \in Members(b) : x.id # id}
           /\ Distinct(BucketWithout(b, id))
<1>1. DOMAIN b = 1 .. Len(b) /\ Len(b) \in Nat
  BY LenProperties
<1>2. CASE \E i \in DOMAIN b : b[i].id = id
  <2> DEFINE k == CHOOSE i \in DOMAIN b : b[i].id = id
             c == RemoveAt(b, k)
             n == Len(b)
  <2>1. k \in 1 .. n /\ b[k].id = id
    BY <1>1, <1>2
  <2>2. BucketWithout(b, id) = c
    BY <1>2 DEF BucketWithout
  <2> HIDE DEF k
  <2>3. Len(c) = n - 1 /\ \A i \in 1 .. n - 1 : c[i] = IF i < k THEN b[i] ELSE b[i + 1]
    BY <2>1, RemoveAtIs
  <2>4. \A i, j \in 1 .. n : b[i].id = b[j].id => i = j
    BY DEF Distinct
  <2> HIDE DEF c
  <2>5. \A i \in 1 .. n - 1 : i \in 1 .. n /\ i + 1 \in 1 .. n
    BY <1>1
  <2> HIDE DEF n
  <2>6. n \in Nat /\ k \in Nat
    BY <1>1, <2>1 DEF n
  <2>7. ASSUME NEW x \in Members(c) PROVE x \in Members(b) /\ x.id # id
    <3>1. PICK i \in 1 .. n - 1 : x = c[i]
      BY <2>3 DEF Members
    <3>2. CASE i < k
      <4>1. x = b[i] /\ i \in 1 .. n /\ i # k
        BY <2>3, <2>5, <2>6, <3>1, <3>2
      <4> QED
        BY <2>1, <2>4, <4>1 DEF Members, n
    <3>3. CASE ~(i < k)
      <4>1. x = b[i + 1] /\ i + 1 \in 1 .. n /\ i + 1 # k
        BY <2>3, <2>5, <2>6, <3>1, <3>3
      <4> QED
        BY <2>1, <2>4, <4>1 DEF Members, n
    <3> QED
      BY <3>2, <3>3
  <2>8. ASSUME NEW x \in Members(b), x.id # id PROVE x \in Members(c)
    <3>1. PICK j \in 1 .. n : x = b[j]
      BY DEF Members, n
    <3>2. j # k
      BY <2>1, <2>8, <3>1
    <3>3. CASE j < k
      <4>1. j \in 1 .. Len(c) /\ c[j] = x
        BY <2>1, <2>3, <2>6, <3>1, <3>3
      <4> QED
        BY <4>1 DEF Members
    <3>4. CASE ~(j < k)
      <4>1. j - 1 \in 1 .. n - 1 /\ ~(j - 1 < k) /\ (j - 1) + 1 = j
        BY <2>1, <2>6, <3>2, <3>4
      <4>2. j - 1 \in 1 .. Len(c) /\ c[j - 1] = x
        BY <2>3, <3>1, <4>1
      <4> QED
        BY <4>2 DEF Members
    <3> QED
      BY <3>3, <3>4
  <2>9. Distinct(c)
    <3> SUFFICES ASSUME NEW i \in 1 .. n - 1, NEW j \in 1 .. n - 1, c[i].id = c[j].id
                 PROVE  i = j
      BY <2>3 DEF Distinct
    <3> DEFINE at(h) == IF h < k THEN h ELSE h + 1
    <3>1. c[i] = b[at(i)] /\ c[j] = b[at(j)] /\ at(i) \in 1 .. n /\ at(j) \in 1 .. n
      BY <2>3, <2>5
    <3>2. at(i) = at(j)
      BY <2>4, <3>1
    <3> QED
      BY <2>6, <3>2
  <2> QED
    BY <2>2, <2>7, <2>8, <2>9
<1>3. CASE ~\E i \in DOMAIN b : b[i].id = id
  <2>1. BucketWithout(b, id) = b
    BY <1>3 DEF BucketWithout
  <2> QED
    BY <1>1, <1>3, <2>1 DEF Members
<1> QED
  BY <1>2, <1>3

\* What waits is filed under its side and price.
LEMMA WaitingIsFiled ==
    ASSUME NEW bk, Filed(bk), NEW s \in Sides
    PROVE  /\ \A x \in Waiting(bk, s) : /\ x \in Order /\ x.side = s /\ x.price \in Prices
                                        /\ x.id \in Ids /\ x # None
                                        /\ x \in Members(bk[s][x.price])
           /\ \A p \in Prices : \A x \in Members(bk[s][p]) : x \in Waiting(bk, s) /\ x.price = p
<1>1. ASSUME NEW p \in Prices, NEW x \in Members(bk[s][p])
      PROVE  x \in Waiting(bk, s) /\ x \in Level(s, p)
  <2>1. bk[s][p] \in Seq(Level(s, p))
    BY DEF Filed
  <2>2. PICK i \in 1 .. Len(bk[s][p]) : x = bk[s][p][i]
    BY <1>1 DEF Members
  <2>3. x \in Level(s, p)
    BY <2>1, <2>2, ElementOfSeq
  <2> QED
    BY <1>1, <2>3 DEF Waiting
<1>2. \A p \in Prices : \A x \in Members(bk[s][p]) : x \in Order /\ x.side = s /\ x.price = p
  BY <1>1, LevelIsOrder
<1>3. ASSUME NEW x \in Waiting(bk, s)
      PROVE  x \in Order /\ x.side = s /\ x.price \in Prices /\ x \in Members(bk[s][x.price])
  <2>1. PICK p \in Prices : x \in Members(bk[s][p])
    BY <1>3 DEF Waiting
  <2>2. x \in Order /\ x.side = s /\ x.price = p
    BY <1>2, <2>1
  <2> QED
    BY <2>1, <2>2
<1>4. \A x \in Order : x.id \in Ids /\ x # None
  BY FifoAssumption DEF Order
<1> QED
  BY <1>1, <1>2, <1>3, <1>4

\* One bucket is replaced: what waits elsewhere stays.
LEMMA WaitingRefiled ==
    ASSUME NEW bk, Filed(bk), NEW s \in Sides, NEW p \in Prices, NEW b \in Seq(Level(s, p))
    PROVE  LET new == Refiled(bk, s, p, b)
           IN  /\ \A t \in Sides : t # s => Waiting(new, t) = Waiting(bk, t)
               /\ \A x : x \in Waiting(new, s)
                           <=> x \in Members(b) \/ (x \in Waiting(bk, s) /\ x.price # p)
               /\ AllDistinct(bk) /\ Distinct(b) => AllDistinct(new)
<1> DEFINE new == Refiled(bk, s, p, b)
<1>1. /\ Filed(new) /\ new[s][p] = b
      /\ \A t \in Sides, q \in Prices : t # s \/ q # p => new[t][q] = bk[t][q]
  BY RefiledBuckets
<1> HIDE DEF new
<1>2. \A t \in Sides : t # s => Waiting(new, t) = Waiting(bk, t)
  <2> SUFFICES ASSUME NEW t \in Sides, t # s PROVE Waiting(new, t) = Waiting(bk, t)
    OBVIOUS
  <2>1. \A q \in Prices : new[t][q] = bk[t][q]
    BY <1>1
  <2>2. \A q \in Prices : Members(new[t][q]) = Members(bk[t][q])
    BY <2>1
  <2> QED
    BY <2>2 DEF Waiting
<1>3. ASSUME NEW x \in Waiting(new, s)
      PROVE  x \in Members(b) \/ (x \in Waiting(bk, s) /\ x.price # p)
  <2>1. x \in Members(new[s][x.price]) /\ x.price \in Prices
    BY <1>1, WaitingIsFiled
  <2>2. CASE x.price = p
    BY <1>1, <2>1, <2>2
  <2>3. CASE x.price # p
    <3>1. x \in Members(bk[s][x.price])
      BY <1>1, <2>1, <2>3
    <3> QED
      BY <2>1, <2>3, <3>1, WaitingIsFiled
  <2> QED
    BY <2>2, <2>3
<1>4. ASSUME NEW x \in Members(b) PROVE x \in Waiting(new, s)
  <2>1. x \in Members(new[s][p])
    BY <1>1
  <2> QED
    BY <1>1, <2>1, WaitingIsFiled
<1>5. ASSUME NEW x \in Waiting(bk, s), x.price # p PROVE x \in Waiting(new, s)
  <2>1. x \in Members(bk[s][x.price]) /\ x.price \in Prices
    BY WaitingIsFiled
  <2>2. x \in Members(new[s][x.price])
    BY <1>1, <1>5, <2>1
  <2> QED
    BY <1>1, <2>1, <2>2, WaitingIsFiled
<1>6. ASSUME AllDistinct(bk), Distinct(b) PROVE AllDistinct(new)
  <2> SUFFICES ASSUME NEW t \in Sides, NEW q \in Prices PROVE Distinct(new[t][q])
    BY DEF AllDistinct
  <2>1. CASE t = s /\ q = p
    BY <1>1, <1>6, <2>1
  <2>2. CASE t # s \/ q # p
    BY <1>1, <1>6, <2>2 DEF AllDistinct
  <2> QED
    BY <2>1, <2>2
<1> QED
  BY <1>2, <1>3, <1>4, <1>5, <1>6 DEF new

-----------------------------------------------------------------------------
(* The invariant of the index.                                             *)

\* The side on which the shadow, or the message in hand, knows an order.
SideOf(id) == IF taker # None /\ id = taker.id THEN taker.side ELSE shadow[id].side
ShadowState == [price : Int, remaining : Int, side : Sides, alive : BOOLEAN]

\* An id is in a bucket once, and not in the one its order was popped from; an
\* order held is in the index at its price, on the side that is known; the taker
\* has left what its trades left; the index names nothing else.
OnceEach ==
    /\ AllDistinct(buckets)
    /\ \A s \in Sides : hand[s] # None => \A x \in Waiting(buckets, s) : x.id # hand[s].id
WhereIndexed ==
    \A s \in Sides : \A x \in Held(s) :
        x.id \in DOMAIN orders /\ orders[x.id] = x.price /\ SideOf(x.id) = s
TakerIsLeft ==
    \A s \in Sides : \A x \in Held(s) : taker # None /\ x.id = taker.id => x.size = Left
NoneForgotten == \A id \in DOMAIN orders : \E s \in Sides : \E x \in Held(s) : x.id = id
\* The handler and the taker go together, and shadows have sides.
Busy == busy = TRUE
Idle == busy = FALSE
Shadowed ==
    /\ shadow \in [Ids -> ShadowState]
    /\ (Busy /\ taker # None) \/ (Idle /\ taker = None)

\* Before an order is applied to bk and index: all else is filed and indexed, and
\* the shadow the step leaves knows its side.
ClearedOf(bk, index, o) ==
    /\ \A s \in Sides : \A x \in Waiting(bk, s) :
          /\ x.id # o.id /\ x.id \in DOMAIN index /\ index[x.id] = x.price
          /\ shadow'[x.id].side = s
    /\ \A id \in DOMAIN index :
          id # o.id => \E s \in Sides : \E x \in Waiting(bk, s) : x.id = id

\* An order is held, if at all, on this side, and the shadow a step leaves knows
\* the side of all others.
SidesKnownBut(id, side) ==
    \A s \in Sides : \A x \in Held(s) :
        IF x.id = id THEN s = side ELSE shadow'[x.id].side = s

IndexInv == OnceEach /\ WhereIndexed /\ TakerIsLeft /\ NoneForgotten /\ Shadowed

\* What is held has the type of an order.
LEMMA HeldIsOrder ==
    ASSUME Inv, NEW s \in Sides
    PROVE  /\ \A x \in Held(s) : x \in Order /\ x.side = s /\ x.price \in Prices /\ x.id \in Ids
           /\ \A id \in Ids, p \in Prices :
                 Holds(s, id, p) <=> \E x \in Held(s) : x.id = id /\ x.price = p
<1>1. Filed(buckets) /\ hand[s] \in Order \cup {None} /\ (hand[s] # None => hand[s].side = s)
  BY DEF Inv, TypeOK
<1>2. \A x \in Order : x.price \in Prices /\ x.id \in Ids
  BY DEF Order
<1>3. \A x \in Held(s) : x \in Order /\ x.side = s /\ x.price \in Prices /\ x.id \in Ids
  <2>1. \A x \in Waiting(buckets, s) : x \in Order /\ x.side = s
    BY <1>1, WaitingIsFiled
  <2> QED
    BY <1>1, <1>2, <2>1 DEF Held
<1>4. ASSUME NEW id \in Ids, NEW p \in Prices
      PROVE  Queued(buckets, s, id, p) <=> \E x \in Waiting(buckets, s) : x.id = id /\ x.price = p
  <2>1. Queued(buckets, s, id, p) <=> \E x \in Members(buckets[s][p]) : x.id = id
    BY DEF Queued, Members
  <2>2. \A x : x \in Members(buckets[s][p]) <=> x \in Waiting(buckets, s) /\ x.price = p
    BY <1>1, WaitingIsFiled
  <2> QED
    BY <2>1, <2>2
<1>5. ASSUME NEW id \in Ids, NEW p \in Prices
      PROVE  Holds(s, id, p) <=> \E x \in Held(s) : x.id = id /\ x.price = p
  BY <1>4 DEF Holds, Held
<1> QED
  BY <1>3, <1>5

\* What the invariant of the index says of it.
LEMMA IndexRight == Inv /\ IndexInv => IndexIsBook
<1> SUFFICES ASSUME Inv, IndexInv PROVE IndexIsBook
  OBVIOUS
<1>1. DOMAIN orders \subseteq Ids /\ \A id \in DOMAIN orders : orders[id] \in Prices
  BY DEF Inv, TypeOK
<1>2. ASSUME NEW s \in Sides, NEW id \in Ids, NEW p \in Prices, Holds(s, id, p)
      PROVE  id \in DOMAIN orders /\ orders[id] = p /\ SideOf(id) = s
  BY <1>2, HeldIsOrder DEF IndexInv, WhereIndexed
<1>3. ASSUME NEW id \in DOMAIN orders
      PROVE  Cardinality({s \in Sides : Holds(s, id, orders[id])}) = 1
  <2>1. id \in Ids /\ orders[id] \in Prices
    BY <1>1
  <2>2. PICK s \in Sides : \E x \in Held(s) : x.id = id
    BY DEF IndexInv, NoneForgotten
  <2>3. PICK x \in Held(s) : x.id = id
    BY <2>2
  <2>4. orders[id] = x.price
    BY <2>3 DEF IndexInv, WhereIndexed
  <2>5. Holds(s, id, orders[id])
    BY <2>1, <2>3, <2>4, HeldIsOrder
  <2>6. \A t \in Sides : Holds(t, id, orders[id]) => t = s
    BY <1>2, <2>1, <2>5
  <2>7. {t \in Sides : Holds(t, id, orders[id])} = {s}
    BY <2>5, <2>6
  <2> QED
    BY <2>7, FS_Singleton
<1> QED
  BY <1>2, <1>3 DEF IndexIsBook

-----------------------------------------------------------------------------
(* What a taker has left.                                                  *)

OfLeft == INSTANCE FoldFacts WITH op <- LAMBDA left, trade : left - trade.quantity

\* The adapter's sum is a fold of FoldFacts.
LEMMA LeftIs == /\ Left = OfLeft!Left(taker.size, trades)
                /\ Left' = OfLeft!Left(taker'.size, trades')
BY DEF Left, OfLeft!Left, FoldLeft, OfLeft!FoldLeft, MapThenFoldSet, OfLeft!MapThenFoldSet, Max, OfLeft!Max

-----------------------------------------------------------------------------
(* The shadows after the trades.                                           *)

\* The shadows after a trade of a taker on this side, and after several.
HitBy(side, sh, trade) ==
    LET maker == IF side = "buy" THEN trade.ask ELSE trade.bid
    IN [sh EXCEPT ![maker.id] = Hit(sh[maker.id], trade.quantity)]
Hits(side, sh, fills) == FoldLeft(LAMBDA f, trade : HitBy(side, f, trade), sh, fills)
OnBuy == INSTANCE FoldFacts WITH op <- LAMBDA f, trade : HitBy("buy", f, trade)
OnSell == INSTANCE FoldFacts WITH op <- LAMBDA f, trade : HitBy("sell", f, trade)
FillRecord == [quantity : Nat, bid : Order, ask : Order]

\* The fills of a call are such a fold, and that is a fold of FoldFacts.
LEMMA HitsNow == FoldLeft(HitMaker, shadow, trades) = Hits(taker.side, shadow, trades)
BY DEF Hits, HitBy, HitMaker, Maker, FoldLeft, MapThenFoldSet, Max

LEMMA HitsIs ==
    ASSUME NEW sh, NEW fills
    PROVE  /\ Hits("buy", sh, fills) = OnBuy!Left(sh, fills)
           /\ Hits("sell", sh, fills) = OnSell!Left(sh, fills)
<1>1. Hits("buy", sh, fills) = OnBuy!Left(sh, fills)
  BY DEF Hits, OnBuy!Left, FoldLeft, OnBuy!FoldLeft, MapThenFoldSet, OnBuy!MapThenFoldSet, Max, OnBuy!Max
<1>2. Hits("sell", sh, fills) = OnSell!Left(sh, fills)
  BY DEF Hits, OnSell!Left, FoldLeft, OnSell!FoldLeft, MapThenFoldSet, OnSell!MapThenFoldSet, Max, OnSell!Max
<1> QED
  BY <1>1, <1>2

\* No trade changes nothing.
LEMMA HitsOfNone == ASSUME NEW side \in Sides, NEW sh PROVE Hits(side, sh, <<>>) = sh
<1>1. Hits("buy", sh, <<>>) = sh
  BY HitsIs, OnBuy!FoldOfNone
<1>2. Hits("sell", sh, <<>>) = sh
  BY HitsIs, OnSell!FoldOfNone
<1> QED
  BY <1>1, <1>2 DEF Sides

\* One more trade is one more hit.
LEMMA HitsNext ==
    ASSUME NEW side \in Sides, NEW sh, NEW fills \in Seq(FillRecord), NEW trade \in FillRecord
    PROVE  Hits(side, sh, Append(fills, trade)) = HitBy(side, Hits(side, sh, fills), trade)
<1>1. Hits("buy", sh, Append(fills, trade)) = HitBy("buy", Hits("buy", sh, fills), trade)
  <2>1. OnBuy!Left(sh, Append(fills, trade)) = OnBuy!Step(OnBuy!Left(sh, fills), trade)
    BY OnBuy!FoldOfNext
  <2> QED
    BY <2>1, HitsIs DEF OnBuy!Step
<1>2. Hits("sell", sh, Append(fills, trade)) = HitBy("sell", Hits("sell", sh, fills), trade)
  <2>1. OnSell!Left(sh, Append(fills, trade)) = OnSell!Step(OnSell!Left(sh, fills), trade)
    BY OnSell!FoldOfNext
  <2> QED
    BY <2>1, HitsIs DEF OnSell!Step
<1> QED
  BY <1>1, <1>2 DEF Sides

\* One hit: the maker has less left and may be dead, its price and side and all
\* other shadows are as they were.
LEMMA HitIs ==
    ASSUME NEW side \in Sides, NEW f \in [Ids -> ShadowState], NEW trade \in FillRecord
    PROVE  LET maker == IF side = "buy" THEN trade.ask ELSE trade.bid
               left == Most(f[maker.id].remaining - trade.quantity, 0)
               g == HitBy(side, f, trade)
           IN  /\ g \in [Ids -> ShadowState] /\ maker.id \in Ids
               /\ \A id \in Ids : g[id].side = f[id].side /\ g[id].price = f[id].price
               /\ \A id \in Ids : id # maker.id => g[id] = f[id]
               /\ g[maker.id].remaining = left
               /\ g[maker.id].alive = (f[maker.id].alive /\ left > 0)
<1> DEFINE maker == IF side = "buy" THEN trade.ask ELSE trade.bid
           m == maker.id
           left == Most(f[m].remaining - trade.quantity, 0)
           h == Hit(f[m], trade.quantity)
<1>1. m \in Ids
  BY DEF FillRecord, Order
<1>2. f[m] \in ShadowState /\ trade.quantity \in Nat
  BY <1>1 DEF FillRecord
<1>3. left \in Int
  BY <1>2 DEF ShadowState, Most
<1>4. h = [f[m] EXCEPT !.remaining = left, !.alive = f[m].alive /\ left > 0]
  BY DEF Hit
<1>5. HitBy(side, f, trade) = [f EXCEPT ![m] = h]
  BY DEF HitBy
<1> HIDE DEF left, h, m
<1>6. /\ h \in ShadowState /\ h.side = f[m].side /\ h.price = f[m].price
      /\ h.remaining = left /\ h.alive = (f[m].alive /\ left > 0)
  <2>1. (f[m].alive /\ left > 0) \in BOOLEAN
    OBVIOUS
  <2> QED
    BY <1>2, <1>3, <1>4, <2>1 DEF ShadowState
<1>7. /\ HitBy(side, f, trade) \in [Ids -> ShadowState]
      /\ \A id \in Ids : HitBy(side, f, trade)[id] = IF id = m THEN h ELSE f[id]
  BY <1>1, <1>5, <1>6
<1> QED
  BY <1>1, <1>6, <1>7 DEF left, m

\* Fills change what is left of an order and whether it is alive, not its side.
LEMMA HitsKeepSides ==
    ASSUME Inv, Shadowed, taker # None
    PROVE  LET hit == Hits(taker.side, shadow, trades)
           IN  hit \in [Ids -> ShadowState] /\ \A id \in Ids : hit[id].side = shadow[id].side
<1> DEFINE A == {f \in [Ids -> ShadowState] : \A id \in Ids : f[id].side = shadow[id].side}
<1>1. ASSUME NEW side \in Sides, NEW f \in A, NEW trade \in FillRecord
      PROVE  HitBy(side, f, trade) \in A
  BY HitIs
<1>2. shadow \in A
  BY DEF Shadowed
<1>3. trades \in Seq(FillRecord) /\ taker.side \in Sides
  BY DEF Inv, TypeOK, FillRecord, Order
<1> HIDE DEF A
<1>4. CASE taker.side = "buy"
  <2>1. \A f \in A, trade \in FillRecord : OnBuy!Step(f, trade) \in A
    BY <1>1, <1>3, <1>4 DEF OnBuy!Step
  <2>2. OnBuy!Left(shadow, trades) \in A
    BY <1>2, <1>3, <2>1, OnBuy!FoldKeeps
  <2> QED
    BY <1>4, <2>2, HitsIs DEF A
<1>5. CASE taker.side = "sell"
  <2>1. \A f \in A, trade \in FillRecord : OnSell!Step(f, trade) \in A
    BY <1>1, <1>3, <1>5 DEF OnSell!Step
  <2>2. OnSell!Left(shadow, trades) \in A
    BY <1>2, <1>3, <2>1, OnSell!FoldKeeps
  <2> QED
    BY <1>5, <2>2, HitsIs DEF A
<1> QED
  BY <1>3, <1>4, <1>5 DEF Sides

\* The shadows as they are, or as they will be when the handler has seen the
\* trades made so far.
Current == IF taker = None THEN shadow ELSE Hits(taker.side, shadow, trades)

\* They are the book, but for the taker: it has no shadow that is alive, and it
\* is indexed at its price until the trades have consumed it.
IsTaker(id) == taker # None /\ id = taker.id
ShadowOf(x, side) == Shadow(x.price, side, x.size)
ShadowsAreHeld ==
    /\ \A s \in Sides : \A x \in Held(s) : ~IsTaker(x.id) => Current[x.id] = ShadowOf(x, s)
    /\ \A id \in Ids : Current[id].alive => ~IsTaker(id) /\ id \in DOMAIN orders
TakerIsIndexed ==
    taker # None => IF taker.id \in DOMAIN orders THEN orders[taker.id] = taker.price
                    ELSE Left <= 0
ShadowInv == ShadowsAreHeld /\ TakerIsIndexed

\* Before an order is applied to bk and index, the shadows the step leaves are
\* all else, and that of the order is not alive.
ShadowsAreHeldBut(bk, index, o) ==
    /\ \A s \in Sides : \A x \in Waiting(bk, s) : shadow'[x.id] = ShadowOf(x, s)
    /\ \A id \in Ids : shadow'[id].alive => id # o.id /\ id \in DOMAIN index

\* A step of check_for_trades that holds what was held.
LEMMA SameShadows ==
    ASSUME ShadowInv, \A s \in Sides : Held(s)' = Held(s), orders' = orders,
           trades' = trades, taker' = taker, shadow' = shadow
    PROVE  ShadowInv'
<1>1. Current' = Current
  BY DEF Current
<1>2. \A id : IsTaker(id)' <=> IsTaker(id)
  BY DEF IsTaker
<1>3. Left' = Left
  BY LeftIs
<1> QED
  BY <1>1, <1>2, <1>3 DEF ShadowInv, ShadowsAreHeld, TakerIsIndexed

-----------------------------------------------------------------------------
(* The steps of the book.                                                  *)

\* apply, on buckets and an index without the order.
LEMMA AppliedIndex ==
    ASSUME Inv, IndexInv, AtRest, NEW bk, NEW index, NEW o \in Order, apply(bk, index, o),
           Filed(bk), AllDistinct(bk), ClearedOf(bk, index, o),
           shadow' \in [Ids -> ShadowState], Busy'
    PROVE  /\ IndexInv'
           /\ ShadowsAreHeldBut(bk, index, o) => ShadowInv'
<1> /\ \A s \in Sides : \A x \in Waiting(bk, s) :
          /\ x.id # o.id /\ x.id \in DOMAIN index /\ index[x.id] = x.price
          /\ shadow'[x.id].side = s
    /\ \A id \in DOMAIN index :
          id # o.id => \E s \in Sides : \E x \in Waiting(bk, s) : x.id = id
  BY DEF ClearedOf
<1>1. /\ hand' = hand /\ \A s \in Sides : hand'[s] = None
      /\ taker' = o /\ trades' = <<>> /\ taker' # None
      /\ buckets' = Pushed(bk, o) /\ orders' = Indexed(index, o)
  BY FifoAssumption DEF AtRest, Inv, HandsEmpty, apply
<1>2. o.side \in Sides /\ o.price \in Prices /\ o.id \in Ids /\ o \in Level(o.side, o.price)
  BY OrderIsFiled
<1> DEFINE old == bk[o.side][o.price]
           b == Append(old, o)
<1>3. /\ b \in Seq(Level(o.side, o.price)) /\ Members(b) = Members(old) \cup {o}
      /\ Distinct(b)
  <2>1. old \in Seq(Level(o.side, o.price)) /\ Distinct(old)
    BY <1>2 DEF Filed, AllDistinct
  <2>2. \A x \in Members(old) : x.id # o.id
    BY <1>2, WaitingIsFiled
  <2> HIDE DEF old
  <2>3. b \in Seq(Level(o.side, o.price))
    BY <1>2, <2>1, AppendProperties
  <2> QED
    BY <1>2, <2>1, <2>2, <2>3, AppendMembers
<1>4. buckets' = Refiled(bk, o.side, o.price, b)
  BY <1>1 DEF Pushed
<1>5. Members(old) \subseteq Waiting(bk, o.side)
      /\ \A x \in Waiting(bk, o.side) : x.price = o.price => x \in Members(old)
  BY <1>2, WaitingIsFiled
<1> HIDE DEF old, b
<1>6. /\ \A t \in Sides : t # o.side => Waiting(buckets', t) = Waiting(bk, t)
      /\ \A x : x \in Waiting(buckets', o.side)
                  <=> x \in Members(b) \/ (x \in Waiting(bk, o.side) /\ x.price # o.price)
      /\ AllDistinct(buckets')
  BY <1>2, <1>3, <1>4, WaitingRefiled
<1>7. ASSUME NEW s \in Sides, NEW x \in Held(s)'
      PROVE  x \in Waiting(bk, s) \/ (s = o.side /\ x = o)
  <2>1. x \in Waiting(buckets', s)
    BY <1>1, <1>7 DEF Held
  <2> QED
    BY <1>3, <1>5, <1>6, <2>1
<1>8. ASSUME NEW s \in Sides, NEW x \in Waiting(bk, s)
      PROVE  x \in Held(s)'
  <2>1. x \in Waiting(buckets', s)
    BY <1>3, <1>5, <1>6, <1>8
  <2> QED
    BY <2>1 DEF Held
<1>9. o \in Held(o.side)'
  BY <1>3, <1>6 DEF Held
<1>10. OnceEach'
  BY <1>1, <1>6 DEF OnceEach
<1>11. WhereIndexed'
  <2> SUFFICES ASSUME NEW s \in Sides, NEW x \in Held(s)'
               PROVE  x.id \in DOMAIN orders' /\ orders'[x.id] = x.price /\ SideOf(x.id)' = s
    BY DEF WhereIndexed
  <2>1. CASE x \in Waiting(bk, s)
    BY <1>1, <2>1 DEF Indexed, SideOf
  <2>2. CASE s = o.side /\ x = o
    BY <1>1, <2>2 DEF Indexed, SideOf
  <2> QED
    BY <1>7, <2>1, <2>2
<1>12. TakerIsLeft'
  <2>1. Left' = o.size
    BY <1>1, LeftIs, OfLeft!FoldOfNone
  <2> QED
    BY <1>1, <1>7, <2>1 DEF TakerIsLeft
<1>13. NoneForgotten'
  <2> SUFFICES ASSUME NEW id \in DOMAIN orders'
               PROVE  \E s \in Sides : \E x \in Held(s)' : x.id = id
    BY DEF NoneForgotten
  <2>1. CASE id = o.id
    BY <1>2, <1>9, <2>1
  <2>2. CASE id # o.id
    <3>1. id \in DOMAIN index
      BY <1>1, <2>2 DEF Indexed
    <3> QED
      BY <1>8, <2>2, <3>1
  <2> QED
    BY <2>1, <2>2
<1>14. Shadowed'
  BY <1>1 DEF Shadowed
<1>15. ASSUME ShadowsAreHeldBut(bk, index, o) PROVE ShadowInv'
  <2>1. Current' = shadow'
    BY <1>1, <1>2, HitsOfNone DEF Current
  <2>2. \A id : IsTaker(id)' <=> id = o.id
    BY <1>1 DEF IsTaker
  <2>3. ShadowsAreHeld'
    BY <1>1, <1>7, <1>15, <2>1, <2>2 DEF ShadowsAreHeld, ShadowsAreHeldBut, Indexed
  <2>4. TakerIsIndexed'
    BY <1>1, <1>2 DEF TakerIsIndexed, Indexed
  <2> QED
    BY <2>3, <2>4 DEF ShadowInv
<1> QED
  BY <1>10, <1>11, <1>12, <1>13, <1>14, <1>15 DEF IndexInv

\* cancel on the side that holds the order: it is out, the rest is where it was.
LEMMA RemovedWaiting ==
    ASSUME Inv, IndexInv, \A s \in Sides : hand[s] = None, NEW id, NEW side \in Sides,
           \A s \in Sides : \A x \in Held(s) : x.id = id => s = side
    PROVE  /\ Filed(Removed(id, side)) /\ AllDistinct(Removed(id, side))
           /\ \A s \in Sides : Waiting(Removed(id, side), s) = {x \in Held(s) : x.id # id}
<1> DEFINE new == Removed(id, side)
           p == orders[id]
           old == buckets[side][p]
           b == BucketWithout(old, id)
<1>1. Filed(buckets) /\ AllDistinct(buckets)
  BY DEF Inv, TypeOK, IndexInv, OnceEach
<1>2. \A s \in Sides : Held(s) = Waiting(buckets, s)
  BY DEF Held
<1>3. CASE id \notin DOMAIN orders
  <2>1. new = buckets
    BY <1>3 DEF Removed
  <2>2. \A s \in Sides : \A x \in Held(s) : x.id # id
    BY <1>3 DEF IndexInv, WhereIndexed
  <2>3. \A s \in Sides : Waiting(new, s) = {x \in Held(s) : x.id # id}
    BY <1>2, <2>1, <2>2
  <2> QED
    BY <1>1, <2>1, <2>3
<1>4. CASE id \in DOMAIN orders
  <2>1. p \in Prices
    BY <1>4 DEF Inv, TypeOK
  <2>2. old \in Seq(Level(side, p)) /\ Distinct(old)
    BY <1>1, <2>1 DEF Filed, AllDistinct
  <2>3. b \in Seq(Level(side, p))
    BY <2>2, BucketWithoutElements
  <2>4. Members(b) = {x \in Members(old) : x.id # id} /\ Distinct(b)
    BY <2>2, WithoutMembers
  <2>5. new = Refiled(buckets, side, p, b)
    BY <1>4 DEF Removed
  <2>6. /\ Members(old) \subseteq Waiting(buckets, side)
        /\ \A x \in Members(old) : x.price = p
        /\ \A x \in Waiting(buckets, side) : x.price = p => x \in Members(old)
    BY <1>1, <2>1, WaitingIsFiled
  <2>7. \A s \in Sides : \A x \in Held(s) : x.id = id => x.price = p
    BY DEF IndexInv, WhereIndexed
  <2> HIDE DEF new, b, old, p
  <2>8. Filed(new)
    BY <1>1, <2>1, <2>3, <2>5, RefiledBuckets
  <2>9. /\ \A t \in Sides : t # side => Waiting(new, t) = Waiting(buckets, t)
        /\ \A x : x \in Waiting(new, side)
                    <=> x \in Members(b) \/ (x \in Waiting(buckets, side) /\ x.price # p)
        /\ AllDistinct(new)
    BY <1>1, <2>1, <2>3, <2>4, <2>5, WaitingRefiled
  <2>10. \A x : x \in Waiting(new, side) <=> x \in Held(side) /\ x.id # id
    BY <1>2, <2>4, <2>6, <2>7, <2>9
  <2>11. ASSUME NEW s \in Sides PROVE Waiting(new, s) = {x \in Held(s) : x.id # id}
    <3>1. CASE s = side
      BY <2>10, <3>1
    <3>2. CASE s # side
      BY <1>2, <2>9, <3>2
    <3> QED
      BY <3>1, <3>2
  <2> QED
    BY <2>8, <2>9, <2>11 DEF new
<1> QED
  BY <1>3, <1>4

\* A cancel of an order on its side.
LEMMA CancelledIndex ==
    ASSUME Inv, IndexInv, NEW id, NEW side \in Sides, cancel(id, side),
           SidesKnownBut(id, side),
           shadow' \in [Ids -> ShadowState], Idle'
    PROVE  /\ IndexInv' /\ taker' = None /\ orders' = Unindexed(id)
           /\ \A s \in Sides : Held(s)' = {x \in Held(s) : x.id # id}
<1> \A s \in Sides : \A x \in Held(s) : IF x.id = id THEN s = side
                                          ELSE shadow'[x.id].side = s
  BY DEF SidesKnownBut
<1>1. /\ ~matching /\ hand' = hand /\ \A s \in Sides : hand[s] = None
      /\ taker' = None /\ buckets' = Removed(id, side) /\ orders' = Unindexed(id)
  BY DEF cancel, Taken, Inv, HandsEmpty
<1>2. /\ AllDistinct(buckets')
      /\ \A s \in Sides : Waiting(buckets', s) = {x \in Held(s) : x.id # id}
  BY <1>1, RemovedWaiting
<1>3. \A s \in Sides : Held(s)' = {x \in Held(s) : x.id # id}
  BY <1>1, <1>2 DEF Held
<1>4. OnceEach'
  BY <1>1, <1>2 DEF OnceEach
<1>5. WhereIndexed'
  BY <1>1, <1>3 DEF IndexInv, WhereIndexed, Unindexed, SideOf
<1>6. TakerIsLeft'
  BY <1>1 DEF TakerIsLeft
<1>7. NoneForgotten'
  <2> SUFFICES ASSUME NEW i \in DOMAIN orders'
               PROVE  \E s \in Sides : \E x \in Held(s)' : x.id = i
    BY DEF NoneForgotten
  <2>1. i \in DOMAIN orders /\ i # id
    BY <1>1 DEF Unindexed
  <2>2. PICK s \in Sides : \E x \in Held(s) : x.id = i
    BY <2>1 DEF IndexInv, NoneForgotten
  <2> QED
    BY <1>3, <2>1, <2>2
<1>8. Shadowed'
  BY <1>1 DEF Shadowed
<1> QED
  BY <1>1, <1>3, <1>4, <1>5, <1>6, <1>7, <1>8 DEF IndexInv

\* The caller only looks at the trades.
LEMMA ReturnedIndex ==
    ASSUME Inv, IndexInv, Return,
           \A s \in Sides : \A x \in Held(s) : shadow'[x.id].side = s,
           shadow' \in [Ids -> ShadowState], Idle'
    PROVE  /\ IndexInv' /\ taker' = None /\ orders' = orders
           /\ \A s \in Sides : Held(s)' = Held(s)
<1>1. hand' = hand /\ taker' = None /\ buckets' = buckets /\ orders' = orders
  BY DEF Return, Taken
<1>2. \A s \in Sides : Held(s)' = Held(s)
  BY <1>1 DEF Held
<1>3. OnceEach'
  BY <1>1 DEF IndexInv, OnceEach
<1>4. WhereIndexed'
  BY <1>1, <1>2 DEF IndexInv, WhereIndexed, SideOf
<1>5. TakerIsLeft'
  BY <1>1 DEF TakerIsLeft
<1>6. NoneForgotten'
  BY <1>1, <1>2 DEF IndexInv, NoneForgotten
<1>7. Shadowed'
  BY <1>1 DEF Shadowed
<1> QED
  BY <1>1, <1>2, <1>3, <1>4, <1>5, <1>6, <1>7 DEF IndexInv

\* A step of check_for_trades that holds what was held.
LEMMA SameHeld ==
    ASSUME IndexInv, OnceEach', \A s \in Sides : Held(s)' = Held(s), orders' = orders,
           trades' = trades, taker' = taker, shadow' = shadow, busy' = busy
    PROVE  IndexInv'
<1>1. WhereIndexed'
  BY DEF IndexInv, WhereIndexed, SideOf
<1>2. TakerIsLeft'
  <2>1. Left' = Left
    BY LeftIs
  <2> QED
    BY <2>1 DEF IndexInv, TakerIsLeft
<1>3. NoneForgotten'
  BY DEF IndexInv, NoneForgotten
<1>4. Shadowed'
  BY DEF IndexInv, Shadowed, Busy, Idle
<1> QED
  BY <1>1, <1>2, <1>3, <1>4 DEF IndexInv

\* pop_bid, pop_ask: what waited is in hand.
LEMMA PoppedIndex ==
    ASSUME Inv, IndexInv, NEW s \in Sides, Pop(s), shadow' = shadow, busy' = busy
    PROVE  IndexInv' /\ (ShadowInv => ShadowInv')
<1>1. PICK p \in Prices :
         /\ IsBest(s, p)
         /\ hand' = [hand EXCEPT ![s] = Head(buckets[s][p])]
         /\ buckets' = Refiled(buckets, s, p, Tail(buckets[s][p]))
  BY DEF Pop
<1>2. /\ hand[s] = None /\ orders' = orders /\ trades' = trades /\ taker' = taker
      /\ hand \in [Sides -> Order \cup {None}]
  BY DEF Pop, Inv, TypeOK
<1> DEFINE b == buckets[s][p]
           rest == Tail(b)
           h == Head(b)
<1>3. /\ Filed(buckets) /\ AllDistinct(buckets)
      /\ b # <<>> /\ b \in Seq(Level(s, p)) /\ Distinct(b)
  BY <1>1, BucketIsSeq DEF Inv, TypeOK, IsBest, IndexInv, OnceEach, AllDistinct
<1>4. buckets' = Refiled(buckets, s, p, rest) /\ hand' = [hand EXCEPT ![s] = h]
  BY <1>1
<1>5. \A x \in Members(b) : x \in Waiting(buckets, s) /\ x.price = p /\ x # None
  BY <1>3, WaitingIsFiled
<1>6. \A x \in Waiting(buckets, s) : x.price = p => x \in Members(b)
  BY <1>3, WaitingIsFiled
<1> HIDE DEF b
<1>7. rest \in Seq(Level(s, p)) /\ Members(b) = Members(rest) \cup {h}
      /\ Distinct(rest) /\ \A x \in Members(rest) : x.id # h.id
  BY <1>3, HeadTailProperties, TailMembers
<1> HIDE DEF rest, h
<1>8. /\ \A t \in Sides : t # s => Waiting(buckets', t) = Waiting(buckets, t)
      /\ \A x : x \in Waiting(buckets', s)
                  <=> x \in Members(rest) \/ (x \in Waiting(buckets, s) /\ x.price # p)
      /\ AllDistinct(buckets')
  BY <1>3, <1>4, <1>7, WaitingRefiled
<1>9. hand'[s] = h /\ \A t \in Sides : t # s => hand'[t] = hand[t]
  BY <1>2, <1>4
<1>10. h \in Members(b) /\ h \in Waiting(buckets, s) /\ h.price = p /\ h # None
  BY <1>5, <1>7
<1>11. \A x \in Waiting(buckets', s) : x.id # h.id
  <2> SUFFICES ASSUME NEW x \in Waiting(buckets', s), x.id = h.id PROVE FALSE
    OBVIOUS
  <2>1. x \in Waiting(buckets, s) /\ x.price # p
    BY <1>7, <1>8
  <2>2. x \in Held(s) /\ h \in Held(s)
    BY <1>10, <2>1 DEF Held
  <2>3. orders[x.id] = x.price /\ orders[h.id] = p
    BY <1>10, <2>2 DEF IndexInv, WhereIndexed
  <2> QED
    BY <2>1, <2>3
<1>12. ASSUME NEW t \in Sides PROVE Held(t)' = Held(t)
  <2>1. CASE t # s
    BY <1>8, <1>9, <2>1 DEF Held
  <2>2. CASE t = s
    <3>1. \A x : x \in Waiting(buckets', s) \cup {h} <=> x \in Waiting(buckets, s)
      BY <1>5, <1>6, <1>7, <1>8, <1>10
    <3>2. Held(s)' = Waiting(buckets', s) \cup {h}
      BY <1>9, <1>10 DEF Held
    <3>3. Held(s) = Waiting(buckets, s)
      BY <1>2 DEF Held
    <3> QED
      BY <2>2, <3>1, <3>2, <3>3
  <2> QED
    BY <2>1, <2>2
<1>13. OnceEach'
  <2> SUFFICES ASSUME NEW t \in Sides, hand'[t] # None, NEW x \in Waiting(buckets', t)
               PROVE  x.id # hand'[t].id
    BY <1>8 DEF OnceEach
  <2>1. CASE t = s
    BY <1>9, <1>11, <2>1
  <2>2. CASE t # s
    BY <1>8, <1>9, <2>2 DEF IndexInv, OnceEach
  <2> QED
    BY <2>1, <2>2
<1> QED
  BY <1>2, <1>12, <1>13, SameHeld, SameShadows

\* unpop: what is in hand waits again, in front of its bucket.
LEMMA StoppedIndex ==
    ASSUME Inv, IndexInv, Stop, shadow' = shadow, busy' = busy
    PROVE  IndexInv' /\ (ShadowInv => ShadowInv')
<1>1. /\ buckets' = Unpopped /\ hand' = [s \in Sides |-> None]
      /\ orders' = orders /\ trades' = trades /\ taker' = taker
  BY DEF Stop
<1>2. /\ Filed(buckets) /\ AllDistinct(buckets) /\ Filed(buckets')
      /\ \A s \in Sides : hand[s] \in Order \cup {None} /\ (hand[s] # None => hand[s].side = s)
  BY StopInv DEF Inv, TypeOK, IndexInv, OnceEach
<1>3. ASSUME NEW s \in Sides, hand[s] # None
      PROVE  /\ \A p \in Prices : Distinct(buckets'[s][p])
             /\ \A x : x \in Waiting(buckets', s) <=> x \in Held(s)
  <2> DEFINE c == hand[s].price
             h == hand[s]
             old == buckets[s][c]
             b == <<h>> \o old
  <2>1. c \in Prices /\ h \in Level(s, c) /\ old \in Seq(Level(s, c)) /\ Distinct(old)
    BY <1>2, <1>3, OrderIsFiled DEF AllDistinct, Filed
  <2>2. \A x \in Members(old) : x.id # h.id /\ x \in Waiting(buckets, s) /\ x.price = c
    BY <1>2, <1>3, <2>1, WaitingIsFiled DEF IndexInv, OnceEach
  <2>3. buckets'[s] = [buckets[s] EXCEPT ![c] = b]
    BY <1>1, <1>3 DEF Unpopped
  <2>4. buckets[s] \in [Prices -> Seq(Order)]
    BY <1>2 DEF Filed
  <2>5. \A x \in Waiting(buckets, s) : x.price \in Prices /\ x \in Members(buckets[s][x.price])
    BY <1>2, WaitingIsFiled
  <2>6. \A p \in Prices : \A x \in Members(buckets[s][p]) : x \in Waiting(buckets, s) /\ x.price = p
    BY <1>2, WaitingIsFiled
  <2>7. Members(b) = Members(old) \cup {h} /\ Distinct(b)
    <3> HIDE DEF h, old, c
    <3> QED
      BY <2>1, <2>2, FrontMembers
  <2>8. buckets'[s][c] = b /\ \A p \in Prices : p # c => buckets'[s][p] = buckets[s][p]
    <3> HIDE DEF b, c
    <3> QED
      BY <2>1, <2>3, <2>4
  <2>9. Held(s) = Waiting(buckets, s) \cup {h}
    BY <1>3 DEF Held
  <2> HIDE DEF b, h, old
  <2>10. \A p \in Prices : Distinct(buckets'[s][p])
    BY <1>2, <2>7, <2>8 DEF AllDistinct
  <2>11. ASSUME NEW x \in Waiting(buckets', s) PROVE x \in Held(s)
    <3>1. PICK p \in Prices : x \in Members(buckets'[s][p])
      BY <2>11 DEF Waiting
    <3>2. CASE p = c
      BY <2>2, <2>7, <2>8, <2>9, <3>1, <3>2
    <3>3. CASE p # c
      BY <2>6, <2>8, <2>9, <3>1, <3>3
    <3> QED
      BY <3>2, <3>3
  <2>12. ASSUME NEW x \in Held(s) PROVE x \in Waiting(buckets', s)
    <3>1. CASE x = h
      <4>1. x \in Members(buckets'[s][c])
        BY <2>7, <2>8, <3>1
      <4> QED
        BY <2>1, <4>1 DEF Waiting
    <3>2. CASE x \in Waiting(buckets, s)
      <4>1. x.price \in Prices /\ x \in Members(buckets[s][x.price])
        BY <2>5, <3>2
      <4>2. x \in Members(buckets'[s][x.price])
        BY <2>7, <2>8, <4>1 DEF old
      <4> QED
        BY <4>1, <4>2 DEF Waiting
    <3> QED
      BY <2>9, <3>1, <3>2
  <2> QED
    BY <2>10, <2>11, <2>12
<1>4. ASSUME NEW s \in Sides, hand[s] = None
      PROVE  /\ \A p \in Prices : Distinct(buckets'[s][p])
             /\ \A x : x \in Waiting(buckets', s) <=> x \in Held(s)
  <2>1. buckets'[s] = buckets[s]
    BY <1>1, <1>4 DEF Unpopped
  <2>2. Waiting(buckets', s) = Waiting(buckets, s)
    BY <2>1 DEF Waiting
  <2>3. Held(s) = Waiting(buckets, s)
    BY <1>4 DEF Held
  <2> QED
    BY <1>2, <2>1, <2>2, <2>3 DEF AllDistinct
<1>5. AllDistinct(buckets')
  BY <1>3, <1>4 DEF AllDistinct
<1>6. \A s \in Sides : hand'[s] = None
  BY <1>1
<1>7. ASSUME NEW s \in Sides PROVE Held(s)' = Held(s)
  <2>1. \A x : x \in Waiting(buckets', s) <=> x \in Held(s)
    BY <1>3, <1>4
  <2>2. Held(s)' = Waiting(buckets', s)
    BY <1>6 DEF Held
  <2> QED
    BY <2>1, <2>2
<1>8. OnceEach'
  BY <1>5, <1>6 DEF OnceEach
<1> QED
  BY <1>1, <1>7, <1>8, SameHeld, SameShadows

\* Two sides hold no order in common.
LEMMA HeldApart ==
    ASSUME IndexInv, NEW s \in Sides, NEW t \in Sides, NEW x \in Held(s), NEW y \in Held(t),
           x.id = y.id
    PROVE  s = t
BY DEF IndexInv, WhereIndexed

\* merge: both sizes and what the taker has left go down by the quantity.
LEMMA MergedIndex ==
    ASSUME Inv, IndexInv, Merge, shadow' = shadow, busy' = busy
    PROVE  IndexInv' /\ (ShadowInv => ShadowInv')
<1> DEFINE q == Least(hand["buy"].size, hand["sell"].size)
           trade == [quantity |-> q, bid |-> hand["buy"], ask |-> hand["sell"]]
           left(s) == [hand[s] EXCEPT !.size = hand[s].size - q]
<1>1. "buy" \in Sides /\ "sell" \in Sides
  BY DEF Sides
<1>2. \A s \in Sides : hand[s] # None /\ hand[s] \in Order
  BY DEF Merge, BothInHand, Inv, TypeOK
<1>3. \A s \in Sides : hand[s] \in Held(s)
  BY <1>2 DEF Held
<1>4. \A s \in Sides : hand[s].size \in Nat /\ hand[s].id \in Ids /\ hand[s].price \in Prices
  BY <1>2 DEF Order
<1>5. q \in Nat /\ \A s \in Sides : q <= hand[s].size
  <2>1. q \in Nat /\ q <= hand["buy"].size /\ q <= hand["sell"].size
    BY <1>1, <1>4 DEF Least
  <2> HIDE DEF q
  <2> QED
    BY <2>1 DEF Sides
<1>6. /\ trades' = Append(trades, trade)
      /\ hand' = [s \in Sides |-> IF hand[s].size = q THEN None ELSE left(s)]
      /\ orders' = [id \in DOMAIN orders \ Consumed(q) |-> orders[id]]
      /\ buckets' = buckets /\ taker' = taker
  BY DEF Merge
<1>7. hand["sell"].price <= hand["buy"].price
  BY DEF Merge, Crosses
<1>8. trade \in [quantity : Nat, bid : Order, ask : Order] /\ trade.quantity = q
  BY <1>1, <1>2, <1>5
<1>9. trades \in Seq([quantity : Nat, bid : Order, ask : Order])
  BY DEF Inv, TypeOK
<1>10. taker # None /\ taker \in Order /\ \E s \in Sides : taker.id = hand[s].id
  <2>1. /\ Holds("buy", hand["buy"].id, hand["buy"].price)
        /\ Holds("sell", hand["sell"].id, hand["sell"].price)
    BY <1>1, <1>2 DEF Holds
  <2>2. taker # None /\ taker.id \in {hand["buy"].id, hand["sell"].id}
    BY <1>1, <1>4, <1>7, <2>1 DEF Inv, OnlyTakerCrosses
  <2> QED
    BY <1>1, <2>2 DEF Inv, TypeOK
<1>11. Left' = Left - q
  <2> HIDE DEF q, trade
  <2>1. OfLeft!Left(taker.size, Append(trades, trade))
          = OfLeft!Step(OfLeft!Left(taker.size, trades), trade)
    BY <1>8, <1>9, OfLeft!FoldOfNext
  <2>2. OfLeft!Step(OfLeft!Left(taker.size, trades), trade) = Left - q
    BY <1>8, LeftIs DEF OfLeft!Step
  <2>3. Left' = OfLeft!Left(taker.size, Append(trades, trade))
    BY <1>6, LeftIs
  <2> QED
    BY <2>1, <2>2, <2>3
<1> HIDE DEF q, trade
<1>12. ASSUME NEW s \in Sides, hand[s].size # q
       PROVE  /\ left(s) # None /\ left(s).id = hand[s].id /\ left(s).price = hand[s].price
              /\ left(s).size = hand[s].size - q
  <2>1. hand[s].size - q \in Nat \ {0}
    BY <1>4, <1>5, <1>12
  <2>2. left(s) \in Order
    BY <1>2, <2>1 DEF Order
  <2> QED
    BY <1>2, <2>2, FifoAssumption DEF Order
<1> HIDE DEF left
<1>13. ASSUME NEW s \in Sides, NEW x \in Held(s)'
       PROVE  \/ x \in Waiting(buckets, s)
              \/ hand[s].size # q /\ x = left(s)
  BY <1>6, <1>13 DEF Held
<1>14. \A s \in Sides : \A x \in Waiting(buckets, s) : x \in Held(s) /\ x \in Held(s)'
  BY <1>6 DEF Held
<1>15. ASSUME NEW s \in Sides, NEW x \in Waiting(buckets, s), NEW t \in Sides
       PROVE  x.id # hand[t].id
  <2>1. CASE s = t
    BY <1>2, <2>1 DEF IndexInv, OnceEach
  <2>2. CASE s # t
    BY <1>3, <1>14, <2>2, HeldApart
  <2> QED
    BY <2>1, <2>2
<1>16. \A s, t \in Sides : hand[s].id = hand[t].id => s = t
  BY <1>3, HeldApart
<1>17. ASSUME NEW s \in Sides, NEW x \in Held(s)' PROVE x.id \notin Consumed(q)
  <2>1. CASE x \in Waiting(buckets, s)
    BY <1>15, <2>1 DEF Consumed
  <2>2. CASE hand[s].size # q /\ x = left(s)
    BY <1>12, <1>16, <2>2 DEF Consumed
  <2> QED
    BY <1>13, <2>1, <2>2
<1>18. OnceEach'
  <2>1. AllDistinct(buckets')
    BY <1>6 DEF IndexInv, OnceEach
  <2>2. ASSUME NEW s \in Sides, hand'[s] # None, NEW x \in Waiting(buckets', s)
        PROVE  x.id # hand'[s].id
    <3>1. hand'[s].id = hand[s].id
      BY <1>6, <1>12, <2>2
    <3> QED
      BY <1>6, <1>15, <2>2, <3>1
  <2> QED
    BY <2>1, <2>2 DEF OnceEach
<1>19. WhereIndexed'
  <2> SUFFICES ASSUME NEW s \in Sides, NEW x \in Held(s)'
               PROVE  x.id \in DOMAIN orders' /\ orders'[x.id] = x.price /\ SideOf(x.id)' = s
    BY DEF WhereIndexed
  <2>1. SideOf(x.id)' = SideOf(x.id)
    BY <1>6 DEF SideOf
  <2>2. x.id \notin Consumed(q)
    BY <1>17
  <2>3. x.id \in DOMAIN orders /\ orders[x.id] = x.price /\ SideOf(x.id) = s
    <3>1. CASE x \in Waiting(buckets, s)
      BY <1>14, <3>1 DEF IndexInv, WhereIndexed
    <3>2. CASE hand[s].size # q /\ x = left(s)
      BY <1>3, <1>12, <3>2 DEF IndexInv, WhereIndexed
    <3> QED
      BY <1>13, <3>1, <3>2
  <2> QED
    BY <1>6, <2>1, <2>2, <2>3
<1>20. TakerIsLeft'
  <2> SUFFICES ASSUME NEW s \in Sides, NEW x \in Held(s)', x.id = taker.id
               PROVE  x.size = Left'
    BY <1>6 DEF TakerIsLeft
  <2>1. x \notin Waiting(buckets, s)
    BY <1>10, <1>15
  <2>2. hand[s].size # q /\ x = left(s)
    BY <1>13, <2>1
  <2>3. hand[s].size = Left
    BY <1>3, <1>10, <1>12, <2>2 DEF IndexInv, TakerIsLeft
  <2> QED
    BY <1>11, <1>12, <2>2, <2>3
<1>21. NoneForgotten'
  <2> SUFFICES ASSUME NEW id \in DOMAIN orders'
               PROVE  \E s \in Sides : \E x \in Held(s)' : x.id = id
    BY DEF NoneForgotten
  <2>1. id \in DOMAIN orders /\ id \notin Consumed(q)
    BY <1>6
  <2>2. PICK s \in Sides : \E x \in Held(s) : x.id = id
    BY <2>1 DEF IndexInv, NoneForgotten
  <2>3. PICK x \in Held(s) : x.id = id
    BY <2>2
  <2>4. CASE x \in Waiting(buckets, s)
    BY <1>14, <2>3, <2>4
  <2>5. CASE x = hand[s]
    <3>1. hand[s].size # q
      BY <2>1, <2>3, <2>5 DEF Consumed
    <3>2. left(s) \in Held(s)' /\ left(s).id = id
      BY <1>6, <1>12, <2>3, <2>5, <3>1 DEF Held
    <3> QED
      BY <3>2
  <2> QED
    BY <2>4, <2>5 DEF Held
<1>22. Shadowed'
  BY <1>6 DEF IndexInv, Shadowed, Busy, Idle
<1>23. PICK t \in Sides : taker.id = hand[t].id
  BY <1>10
<1>24. PICK m \in Sides : m # t /\ Opposite(t) = m
  BY DEF Sides, Opposite
<1>25. hand[t].side = t /\ taker.side = t
  <2>1. SideOf(hand[t].id) = t /\ hand[t].side = t
    BY <1>2, <1>3 DEF IndexInv, WhereIndexed, Inv, TypeOK
  <2> QED
    BY <1>10, <1>23, <2>1 DEF SideOf
<1>26. hand[m].id # taker.id /\ hand[m].id \in Ids
  BY <1>4, <1>16, <1>23, <1>24
<1>27. ASSUME ShadowInv PROVE TakerIsIndexed'
  <2>1. taker.id \in DOMAIN orders /\ orders[taker.id] = taker.price
    <3>1. taker.id \in DOMAIN orders
      BY <1>3, <1>23 DEF IndexInv, WhereIndexed
    <3> QED
      BY <1>10, <1>27, <3>1 DEF ShadowInv, TakerIsIndexed
  <2>2. hand[t].size = Left
    BY <1>3, <1>10, <1>23 DEF IndexInv, TakerIsLeft
  <2>3. taker.id \in Consumed(q) => hand[t].size = q
    BY <1>16, <1>23 DEF Consumed
  <2>4. taker.id \notin DOMAIN orders' => Left' = 0
    BY <1>4, <1>5, <1>6, <1>11, <2>1, <2>2, <2>3
  <2> QED
    BY <1>6, <1>10, <2>1, <2>4 DEF TakerIsIndexed
<1>28. /\ Current = Hits(t, shadow, trades) /\ Current' = Hits(t, shadow, trades')
       /\ \A id : IsTaker(id)' <=> IsTaker(id)
  BY <1>6, <1>10, <1>25 DEF Current, IsTaker
<1>29. Current' = HitBy(t, Current, trade)
  <2>1. trades \in Seq(FillRecord) /\ trade \in FillRecord
    BY <1>8, <1>9 DEF FillRecord
  <2>2. Hits(t, shadow, Append(trades, trade)) = HitBy(t, Hits(t, shadow, trades), trade)
    BY <2>1, HitsNext
  <2> QED
    BY <1>6, <1>28, <2>2
<1>30. Current \in [Ids -> ShadowState]
  BY <1>10, <1>25, <1>28, HitsKeepSides DEF IndexInv
<1>31. /\ \A id \in Ids : id # hand[m].id => Current'[id] = Current[id]
       /\ \A id \in Ids : Current'[id].side = Current[id].side
                          /\ Current'[id].price = Current[id].price
       /\ Current' \in [Ids -> ShadowState]
       /\ Current'[hand[m].id].remaining = Most(Current[hand[m].id].remaining - q, 0)
       /\ Current'[hand[m].id].alive
            = (Current[hand[m].id].alive /\ Most(Current[hand[m].id].remaining - q, 0) > 0)
  <2>1. trade.ask = hand["sell"] /\ trade.bid = hand["buy"]
    BY DEF trade
  <2>2. (IF t = "buy" THEN trade.ask ELSE trade.bid) = hand[m]
    BY <1>24, <2>1 DEF Opposite
  <2>3. trade \in FillRecord
    BY <1>8 DEF FillRecord
  <2> QED
    BY <1>8, <1>29, <1>30, <2>2, <2>3, HitIs
<1>32. ASSUME ShadowInv
       PROVE  /\ Current[hand[m].id] = ShadowOf(hand[m], m)
              /\ Current[hand[m].id].remaining = hand[m].size
              /\ Current[hand[m].id].price = hand[m].price /\ Current[hand[m].id].side = m
              /\ Current'[hand[m].id].remaining = hand[m].size - q
              /\ Current'[hand[m].id].alive = (hand[m].size # q)
  <2>1. Current[hand[m].id] = ShadowOf(hand[m], m)
    BY <1>3, <1>26, <1>32 DEF ShadowInv, ShadowsAreHeld, IsTaker
  <2>2. hand[m].size \in Nat \ {0}
    BY <1>2 DEF Order
  <2>3. /\ Current[hand[m].id].remaining = hand[m].size /\ Current[hand[m].id].alive = TRUE
        /\ Current[hand[m].id].price = hand[m].price /\ Current[hand[m].id].side = m
    <3>1. (hand[m].size > 0) = TRUE
      BY <2>2
    <3>2. Current[hand[m].id] = [price |-> hand[m].price, remaining |-> hand[m].size,
                                 side |-> m, alive |-> TRUE]
      BY <2>1, <3>1 DEF ShadowOf, Shadow
    <3> QED
      BY <3>2
  <2>4. Most(hand[m].size - q, 0) = hand[m].size - q
        /\ (hand[m].size - q > 0 <=> hand[m].size # q)
    BY <1>5, <2>2 DEF Most
  <2> QED
    BY <1>31, <2>1, <2>3, <2>4
<1>33. ASSUME ShadowInv, NEW s \in Sides, NEW x \in Held(s)', ~IsTaker(x.id)'
       PROVE  Current'[x.id] = ShadowOf(x, s)
  <2>1. CASE x \in Waiting(buckets, s)
    <3>1. x \in Held(s) /\ x.id # hand[m].id /\ x.id \in Ids
      BY <1>14, <1>15, <2>1, HeldIsOrder
    <3>2. Current[x.id] = ShadowOf(x, s)
      BY <1>28, <1>33, <3>1 DEF ShadowInv, ShadowsAreHeld
    <3> QED
      BY <1>31, <3>1, <3>2
  <2>2. CASE hand[s].size # q /\ x = left(s)
    <3>1. s = m
      BY <1>10, <1>12, <1>23, <1>24, <1>28, <1>33, <2>2 DEF IsTaker, Sides
    <3>2. x.id = hand[m].id /\ x.price = hand[m].price /\ x.size = hand[m].size - q
      BY <1>12, <2>2, <3>1
    <3>3. x.size > 0
      BY <1>4, <1>5, <2>2, <3>1, <3>2
    <3>4. /\ Current'[x.id] \in ShadowState /\ Current'[x.id].price = x.price
          /\ Current'[x.id].side = s /\ Current'[x.id].remaining = x.size
          /\ Current'[x.id].alive = TRUE
      BY <1>26, <1>31, <1>32, <1>33, <2>2, <3>1, <3>2
    <3>5. ShadowOf(x, s) = [price |-> x.price, remaining |-> x.size, side |-> s, alive |-> TRUE]
      BY <3>3 DEF ShadowOf, Shadow
    <3> QED
      BY <3>4, <3>5 DEF ShadowState
  <2> QED
    BY <1>13, <1>33, <2>1, <2>2
<1>34. ASSUME ShadowInv, NEW id \in Ids, Current'[id].alive
       PROVE  ~IsTaker(id)' /\ id \in DOMAIN orders'
  <2>1. id # hand[m].id => Current[id].alive
    BY <1>31, <1>34
  <2>2. ~IsTaker(id)
    BY <1>26, <1>34, <2>1 DEF ShadowInv, ShadowsAreHeld, IsTaker
  <2>3. id \in DOMAIN orders
    BY <1>3, <1>34, <2>1 DEF ShadowInv, ShadowsAreHeld, IndexInv, WhereIndexed
  <2>4. id = hand[m].id => hand[m].size # q
    BY <1>32, <1>34
  <2>5. id \notin Consumed(q)
    <3> SUFFICES ASSUME NEW s \in Sides, id = hand[s].id, hand[s].size = q PROVE FALSE
      BY DEF Consumed
    <3>1. s # t
      BY <1>10, <1>23, <2>2 DEF IsTaker
    <3>2. s = m
      BY <1>24, <3>1 DEF Sides
    <3> QED
      BY <2>4, <3>2
  <2> QED
    BY <1>6, <1>28, <2>2, <2>3, <2>5
<1>35. ShadowInv => ShadowInv'
  BY <1>27, <1>33, <1>34 DEF ShadowInv, ShadowsAreHeld
<1> QED
  BY <1>18, <1>19, <1>20, <1>21, <1>22, <1>35 DEF IndexInv

-----------------------------------------------------------------------------
(* The steps of the adapter.                                               *)

\* An empty book.
LEMMA InitIndex == engine_init => IndexInv /\ ShadowInv
<1> SUFFICES ASSUME engine_init PROVE IndexInv /\ ShadowInv
  OBVIOUS
<1>1. /\ buckets = [s \in Sides |-> [p \in Prices |-> <<>>]]
      /\ orders = [id \in {} |-> 0] /\ hand = [s \in Sides |-> None]
      /\ taker = None /\ busy = FALSE /\ shadow = [id \in Ids |-> Dead]
  BY DEF engine_init, Init
<1>2. \A s \in Sides : Held(s) = {}
  <2>1. Members(<<>>) = {} /\ Len(<<>>) = 0
    BY DEF Members
  <2> QED
    BY <1>1, <2>1 DEF Held, Waiting
<1>3. OnceEach
  <2>1. Distinct(<<>>)
    BY DEF Distinct
  <2> QED
    BY <1>1, <2>1 DEF OnceEach, AllDistinct
<1>4. Shadowed
  BY <1>1 DEF Shadowed, Idle, ShadowState, Dead, Sides
<1>5. ShadowInv
  BY <1>1, <1>2 DEF ShadowInv, ShadowsAreHeld, TakerIsIndexed, Current, Dead
<1> QED
  BY <1>1, <1>2, <1>3, <1>4, <1>5 DEF IndexInv, WhereIndexed, TakerIsLeft, NoneForgotten

\* A reject leaves all as it was.
LEMMA UntouchedIndex ==
    IndexInv /\ UNCHANGED <<fifoVars, shadow, busy>> => IndexInv' /\ (ShadowInv => ShadowInv')
<1> SUFFICES ASSUME IndexInv, UNCHANGED <<fifoVars, shadow, busy>>
             PROVE  IndexInv' /\ (ShadowInv => ShadowInv')
  OBVIOUS
<1>1. /\ buckets' = buckets /\ orders' = orders /\ hand' = hand
      /\ trades' = trades /\ taker' = taker /\ shadow' = shadow /\ busy' = busy
  BY DEF fifoVars
<1>2. OnceEach'
  BY <1>1 DEF IndexInv, OnceEach
<1>3. \A s \in Sides : Held(s)' = Held(s)
  BY <1>1 DEF Held
<1> QED
  BY <1>1, <1>2, <1>3, SameHeld, SameShadows

\* Between two messages the shadow knows the side of every order.
LEMMA KnownSide ==
    ASSUME Inv, IndexInv, AtRest, NEW s \in Sides, NEW x \in Held(s)
    PROVE  /\ shadow[x.id].side = s /\ x.id \in DOMAIN orders /\ orders[x.id] = x.price
           /\ hand[s] = None /\ x \in Waiting(buckets, s)
BY DEF AtRest, IndexInv, WhereIndexed, SideOf, Inv, HandsEmpty, Held

\* Between two messages the shadows of the orders held are the orders, and no
\* other shadow is alive.
LEMMA KnownShadow ==
    ASSUME ShadowInv, AtRest
    PROVE  /\ \A s \in Sides : \A x \in Held(s) : shadow[x.id] = ShadowOf(x, s)
           /\ \A id \in Ids : shadow[id].alive => id \in DOMAIN orders
           /\ Current = shadow
BY DEF AtRest, ShadowInv, ShadowsAreHeld, Current, IsTaker

\* Killing an order leaves its side in its shadow.
LEMMA KilledShadow ==
    ASSUME IndexInv, NEW id \in Ids,
           shadow' = [shadow EXCEPT ![id].alive = FALSE, ![id].remaining = 0]
    PROVE  /\ shadow' \in [Ids -> ShadowState] /\ shadow[id].side \in Sides
           /\ \A i \in Ids : shadow'[i].side = shadow[i].side
           /\ \A i \in Ids : i # id => shadow'[i] = shadow[i]
           /\ shadow'[id].alive = FALSE
<1> DEFINE down == [shadow[id] EXCEPT !.alive = FALSE]
           dead == [down EXCEPT !.remaining = 0]
<1>1. shadow \in [Ids -> ShadowState] /\ shadow[id] \in ShadowState
  BY DEF IndexInv, Shadowed
<1>2. shadow' = [shadow EXCEPT ![id] = dead]
  BY <1>1
<1>3. /\ shadow[id].side \in Sides
      /\ down \in ShadowState /\ down.side = shadow[id].side /\ down.alive = FALSE
  BY <1>1 DEF ShadowState
<1> HIDE DEF down
<1>4. dead \in ShadowState /\ dead.side = shadow[id].side /\ dead.alive = FALSE
  BY <1>3 DEF ShadowState
<1> HIDE DEF dead
<1> QED
  BY <1>1, <1>2, <1>3, <1>4

\* A new order has an id that nothing resting has.
LEMMA NewIndex ==
    ASSUME Inv, IndexInv, NEW m \in NewsAt(NextSeq), engine_on_new_order(m)
    PROVE  IndexInv' /\ (ShadowInv => ShadowInv')
<1> DEFINE o == BookOrder(m, m.side)
<1>1. o \in Order
  BY NewIsOrder
<1>2. /\ AtRest /\ o.id \notin DOMAIN orders /\ apply(buckets, orders, o)
      /\ shadow' = shadow /\ Busy'
  BY DEF engine_on_new_order, Insert, Busy
<1> HIDE DEF o
<1>3. Filed(buckets) /\ AllDistinct(buckets) /\ shadow' \in [Ids -> ShadowState]
  BY <1>2 DEF Inv, TypeOK, IndexInv, OnceEach, Shadowed
<1>4. \A s \in Sides : \A x \in Waiting(buckets, s) : x \in Held(s)
  BY DEF Held
<1>5. \A s \in Sides : \A x \in Waiting(buckets, s) :
         /\ x.id # o.id /\ x.id \in DOMAIN orders /\ orders[x.id] = x.price
         /\ shadow'[x.id].side = s
  BY <1>2, <1>4, KnownSide
<1>6. \A id \in DOMAIN orders : id # o.id => \E s \in Sides : \E x \in Waiting(buckets, s) : x.id = id
  BY <1>2, KnownSide DEF IndexInv, NoneForgotten
<1>7. ClearedOf(buckets, orders, o)
  BY <1>5, <1>6 DEF ClearedOf
<1>8. ShadowInv => ShadowsAreHeldBut(buckets, orders, o)
  BY <1>2, <1>4, KnownShadow DEF ShadowsAreHeldBut
<1> QED
  BY <1>1, <1>2, <1>3, <1>7, <1>8, AppliedIndex

\* A modify reinserts on the side its order had.
LEMMA ModifyIndex ==
    ASSUME Inv, IndexInv, AtRest, NEW m \in ModifiesAt(NextSeq), SaneModify(m), engine_on_modify(m)
    PROVE  IndexInv' /\ (ShadowInv => ShadowInv')
<1>1. CASE ~shadow[m.id].alive
  <2>1. UNCHANGED <<fifoVars, shadow>> /\ busy' = FALSE
    BY <1>1 DEF engine_on_modify, Leaves
  <2>2. busy' = busy
    BY <2>1 DEF IndexInv, Shadowed, Idle, AtRest
  <2> QED
    BY <2>1, <2>2, UntouchedIndex
<1>2. CASE shadow[m.id].alive
  <2> DEFINE o == BookOrder(m, m.side)
             new == Removed(o.id, o.side)
             index == Unindexed(o.id)
  <2>1. o \in Order /\ o.id = m.id /\ o.id \in Ids /\ o.side \in Sides
    BY ModifyIsOrder, OrderIsFiled DEF BookOrder
  <2>2. m.side = shadow[m.id].side /\ o.side = shadow[o.id].side
    BY <1>2, <2>1 DEF SaneModify, BookOrder
  <2>3. /\ apply(new, index, o) /\ Busy'
        /\ shadow' = [shadow EXCEPT ![m.id].alive = FALSE, ![m.id].remaining = 0]
    BY <1>2, <2>2 DEF engine_on_modify, ModifiedSide, Reinsert, Busy
  <2> HIDE DEF o
  <2>4. /\ shadow' \in [Ids -> ShadowState]
        /\ \A id \in Ids : shadow'[id].side = shadow[id].side
        /\ \A id \in Ids : id # o.id => shadow'[id] = shadow[id]
        /\ shadow'[o.id].alive = FALSE
    BY <2>1, <2>3, KilledShadow
  <2>5. \A s \in Sides : hand[s] = None
    BY DEF AtRest, Inv, HandsEmpty
  <2>6. \A s \in Sides : \A x \in Held(s) : x.id = o.id => s = o.side
    BY <2>2, KnownSide
  <2>7. /\ Filed(new) /\ AllDistinct(new)
        /\ \A s \in Sides : Waiting(new, s) = {x \in Held(s) : x.id # o.id}
    BY <2>1, <2>5, <2>6, RemovedWaiting
  <2>8. \A s \in Sides : \A x \in Held(s) : x.id \in Ids
    BY HeldIsOrder
  <2> HIDE DEF new
  <2>9. \A s \in Sides : \A x \in Waiting(new, s) :
           /\ x.id # o.id /\ x.id \in DOMAIN index /\ index[x.id] = x.price
           /\ shadow'[x.id].side = s
    BY <2>4, <2>7, <2>8, KnownSide DEF Unindexed
  <2>10. \A id \in DOMAIN index : id # o.id => \E s \in Sides : \E x \in Waiting(new, s) : x.id = id
    BY <2>7 DEF IndexInv, NoneForgotten, Unindexed
  <2>11. ShadowInv => ShadowsAreHeldBut(new, index, o)
    BY <2>1, <2>4, <2>7, <2>8, KnownShadow DEF ShadowsAreHeldBut, Unindexed
  <2> HIDE DEF index
  <2>12. ClearedOf(new, index, o)
    BY <2>9, <2>10 DEF ClearedOf
  <2> QED
    BY <2>1, <2>3, <2>4, <2>7, <2>11, <2>12, AppliedIndex
<1> QED
  BY <1>1, <1>2

\* A cancel looks on the side in the shadow.
LEMMA CancelIndex ==
    ASSUME Inv, IndexInv, AtRest, NEW m \in CancelsAt(NextSeq), engine_on_cancel(m)
    PROVE  IndexInv' /\ (ShadowInv => ShadowInv')
<1>1. m.id \in Ids
  BY DEF CancelsAt, Cancel
<1>2. CASE ~shadow[m.id].alive
  <2>1. UNCHANGED <<fifoVars, shadow>> /\ busy' = FALSE
    BY <1>2 DEF engine_on_cancel, Leaves
  <2>2. busy' = busy
    BY <2>1 DEF IndexInv, Shadowed, Idle, AtRest
  <2> QED
    BY <2>1, <2>2, UntouchedIndex
<1>3. CASE shadow[m.id].alive
  <2>1. /\ cancel(m.id, shadow[m.id].side) /\ Idle'
        /\ shadow' = [shadow EXCEPT ![m.id].alive = FALSE, ![m.id].remaining = 0]
    BY <1>3 DEF engine_on_cancel, Leaves, Idle
  <2>2. /\ shadow' \in [Ids -> ShadowState] /\ shadow[m.id].side \in Sides
        /\ \A id \in Ids : shadow'[id].side = shadow[id].side
        /\ \A id \in Ids : id # m.id => shadow'[id] = shadow[id]
        /\ shadow'[m.id].alive = FALSE
    BY <1>1, <2>1, KilledShadow
  <2>3. SidesKnownBut(m.id, shadow[m.id].side)
    BY <2>2, KnownSide, HeldIsOrder DEF SidesKnownBut
  <2>4. /\ IndexInv' /\ taker' = None /\ orders' = Unindexed(m.id)
        /\ \A s \in Sides : Held(s)' = {x \in Held(s) : x.id # m.id}
    BY <2>1, <2>2, <2>3, CancelledIndex
  <2>5. \A s \in Sides : \A x \in Held(s) : x.id \in Ids
    BY HeldIsOrder
  <2>6. ASSUME ShadowInv PROVE ShadowInv'
    <3>1. Current' = shadow' /\ \A id : ~IsTaker(id)'
      BY <2>4 DEF Current, IsTaker
    <3>2. \A s \in Sides : \A x \in Held(s)' : shadow'[x.id] = ShadowOf(x, s)
      BY <2>2, <2>4, <2>5, <2>6, KnownShadow
    <3>3. \A id \in Ids : shadow'[id].alive => id \in DOMAIN orders'
      BY <2>2, <2>4, <2>6, KnownShadow DEF Unindexed
    <3> QED
      BY <2>4, <3>1, <3>2, <3>3 DEF ShadowInv, ShadowsAreHeld, TakerIsIndexed
  <2> QED
    BY <2>4, <2>6
<1> QED
  BY <1>2, <1>3

\* The remainder rests, or is cancelled on the taker's side; the taker may be gone.
LEMMA AggressorIndex ==
    ASSUME Inv, IndexInv, match_aggressor
    PROVE  IndexInv' /\ (ShadowInv => ShadowInv')
<1> DEFINE hit == Hits(taker.side, shadow, trades)
<1>1. /\ ~matching /\ taker # None /\ taker \in Order /\ Idle'
      /\ \A s \in Sides : hand[s] = None
  BY DEF match_aggressor, Leaves, Idle, Busy, Inv, TypeOK, HandsEmpty, IndexInv, Shadowed
<1>2. taker.id \in Ids /\ taker.side \in Sides /\ taker.price \in Prices
  BY <1>1 DEF Order
<1>3. hit \in [Ids -> ShadowState] /\ \A id \in Ids : hit[id].side = shadow[id].side
  BY <1>1, HitsKeepSides DEF IndexInv
<1>4. ASSUME NEW s \in Sides, NEW x \in Held(s)
      PROVE  /\ x.id \in Ids
             /\ IF x.id = taker.id THEN s = taker.side /\ Left > 0 /\ x.size = Left
                ELSE hit[x.id].side = s
  <2>1. x \in Order /\ x.id \in Ids /\ SideOf(x.id) = s
    BY HeldIsOrder DEF IndexInv, WhereIndexed
  <2>2. CASE x.id = taker.id
    <3>1. x.size = Left /\ x.size > 0
      BY <1>1, <2>1, <2>2 DEF IndexInv, TakerIsLeft, Order
    <3> QED
      BY <1>1, <2>1, <2>2, <3>1 DEF SideOf
  <2>3. CASE x.id # taker.id
    BY <1>3, <2>1, <2>3 DEF SideOf
  <2> QED
    BY <2>1, <2>2, <2>3
<1> DEFINE rested == Shadow(taker.price, taker.side, Left)
<1>5. /\ shadow' = IF Left > 0 /\ ~Dropping THEN [hit EXCEPT ![taker.id] = rested] ELSE hit
      /\ IF Left > 0 /\ Dropping THEN cancel(taker.id, taker.side) ELSE Return
  BY HitsNow DEF match_aggressor
<1>6. /\ Current = hit /\ \A id : IsTaker(id) <=> id = taker.id
  BY <1>1 DEF Current, IsTaker
<1>7. ASSUME taker' = None
       PROVE  Current' = shadow' /\ (\A id : ~IsTaker(id)') /\ TakerIsIndexed'
  BY <1>7 DEF Current, IsTaker, TakerIsIndexed
<1>8. CASE Left > 0 /\ Dropping
  <2>1. shadow' = hit /\ cancel(taker.id, taker.side)
    BY <1>5, <1>8
  <2>2. SidesKnownBut(taker.id, taker.side)
    BY <1>4, <2>1 DEF SidesKnownBut
  <2> HIDE DEF hit
  <2>3. /\ IndexInv' /\ taker' = None /\ orders' = Unindexed(taker.id)
        /\ \A s \in Sides : Held(s)' = {x \in Held(s) : x.id # taker.id}
    BY <1>1, <1>2, <1>3, <2>1, <2>2, CancelledIndex
  <2>4. ASSUME ShadowInv PROVE ShadowInv'
    <3>1. \A s \in Sides : \A x \in Held(s)' : shadow'[x.id] = ShadowOf(x, s)
      BY <1>6, <2>1, <2>3, <2>4 DEF ShadowInv, ShadowsAreHeld
    <3>2. \A id \in Ids : shadow'[id].alive => id \in DOMAIN orders'
      BY <1>6, <2>1, <2>3, <2>4 DEF ShadowInv, ShadowsAreHeld, Unindexed
    <3> QED
      BY <1>7, <2>3, <3>1, <3>2 DEF ShadowInv, ShadowsAreHeld
  <2> QED
    BY <2>3, <2>4
<1>9. CASE Left > 0 /\ ~Dropping
  <2>1. Left \in Int
    <3>1. taker.size \in Int /\ trades \in Seq([quantity : Nat, bid : Order, ask : Order])
      BY <1>1 DEF Order, Inv, TypeOK
    <3>2. \A a \in Int, trade \in [quantity : Nat, bid : Order, ask : Order] :
             OfLeft!Step(a, trade) \in Int
      BY DEF OfLeft!Step
    <3>3. OfLeft!Left(taker.size, trades) \in Int
      BY <3>1, <3>2, OfLeft!FoldKeeps
    <3> QED
      BY <3>3, LeftIs
  <2>2. rested \in ShadowState /\ rested.side = taker.side
    BY <1>2, <2>1, FifoAssumption DEF Shadow, ShadowState, Prices
  <2>3. shadow' = [hit EXCEPT ![taker.id] = rested] /\ Return
    BY <1>5, <1>9
  <2> HIDE DEF hit, rested
  <2>4. /\ shadow' \in [Ids -> ShadowState]
        /\ \A s \in Sides : \A x \in Held(s) : shadow'[x.id].side = s
    BY <1>2, <1>3, <1>4, <2>2, <2>3
  <2>5. /\ IndexInv' /\ taker' = None /\ orders' = orders
        /\ \A s \in Sides : Held(s)' = Held(s)
    BY <1>1, <2>3, <2>4, ReturnedIndex
  <2>6. ASSUME ShadowInv PROVE ShadowInv'
    <3>1. taker.id \in DOMAIN orders /\ orders[taker.id] = taker.price
      BY <1>1, <1>9, <2>1, <2>6 DEF ShadowInv, TakerIsIndexed
    <3>2. ASSUME NEW s \in Sides, NEW x \in Held(s)', x.id = taker.id
          PROVE  shadow'[x.id] = ShadowOf(x, s)
      <4>1. x \in Held(s) /\ orders[x.id] = x.price
        BY <2>5, <3>2 DEF IndexInv, WhereIndexed
      <4>2. s = taker.side /\ x.size = Left /\ x.price = taker.price
        BY <1>4, <3>1, <3>2, <4>1
      <4> QED
        BY <1>2, <1>3, <2>3, <3>2, <4>2 DEF ShadowOf, rested
    <3>3. ASSUME NEW s \in Sides, NEW x \in Held(s)', x.id # taker.id
          PROVE  shadow'[x.id] = ShadowOf(x, s)
      BY <1>3, <1>4, <1>6, <2>3, <2>5, <2>6, <3>3 DEF ShadowInv, ShadowsAreHeld
    <3>4. \A id \in Ids : shadow'[id].alive => id \in DOMAIN orders'
      BY <1>3, <1>6, <2>3, <2>5, <2>6, <3>1 DEF ShadowInv, ShadowsAreHeld
    <3> QED
      BY <1>7, <2>5, <3>2, <3>3, <3>4 DEF ShadowInv, ShadowsAreHeld
  <2> QED
    BY <2>5, <2>6
<1>10. CASE ~(Left > 0)
  <2>1. shadow' = hit /\ Return
    BY <1>5, <1>10
  <2> HIDE DEF hit
  <2>2. \A s \in Sides : \A x \in Held(s) : shadow'[x.id].side = s
    BY <1>4, <1>10, <2>1
  <2>3. /\ IndexInv' /\ taker' = None /\ orders' = orders
        /\ \A s \in Sides : Held(s)' = Held(s)
    BY <1>1, <1>3, <2>1, <2>2, ReturnedIndex
  <2>4. ASSUME ShadowInv PROVE ShadowInv'
    <3>1. \A s \in Sides : \A x \in Held(s)' : shadow'[x.id] = ShadowOf(x, s)
      BY <1>4, <1>10, <1>6, <2>1, <2>3, <2>4 DEF ShadowInv, ShadowsAreHeld
    <3>2. \A id \in Ids : shadow'[id].alive => id \in DOMAIN orders'
      BY <1>6, <2>1, <2>3, <2>4 DEF ShadowInv, ShadowsAreHeld
    <3> QED
      BY <1>7, <2>3, <3>1, <3>2 DEF ShadowInv, ShadowsAreHeld
  <2> QED
    BY <2>3, <2>4
<1> QED
  BY <1>8, <1>9, <1>10

\* The invariants of the index and of the shadows are inductive, beside that of
\* the scan.
LEMMA IndexInvariance == Spec => [](IndexInv /\ ShadowInv)
<1>1. Inv /\ IndexInv /\ ShadowInv /\ [AdapterNext]_vars => (IndexInv /\ ShadowInv)'
  <2> SUFFICES ASSUME Inv, IndexInv, ShadowInv, [AdapterNext]_vars
               PROVE  IndexInv' /\ ShadowInv'
    OBVIOUS
  <2>1. CASE Deliver
    BY <2>1, NewIndex, CancelIndex, ModifyIndex DEF Deliver
  <2>2. CASE Matching
    <3>1. shadow' = shadow /\ busy' = busy
      BY <2>2 DEF Matching
    <3> QED
      BY <2>2, <3>1, PoppedIndex, MergedIndex, StoppedIndex DEF Matching, check_for_trades
  <2>3. CASE match_aggressor
    BY <2>3, AggressorIndex
  <2>4. CASE UNCHANGED vars
    BY <2>4, UntouchedIndex DEF vars
  <2> QED
    BY <2>1, <2>2, <2>3, <2>4 DEF AdapterNext
<1> QED
  BY <1>1, InitIndex, Invariance, PTL DEF Spec

-----------------------------------------------------------------------------
(* The order of arrival, from which the book is read.                      *)

Joining == INSTANCE FoldFacts WITH op <- Joined
Adding == INSTANCE FoldFacts WITH op <- Plus
Sizing == INSTANCE FoldFacts WITH op <- LAMBDA sum, o : sum + o.size
Summing == INSTANCE FoldFacts WITH op <- LAMBDA o, sum : sum + o.size

\* No element is in the sequence twice.
Once(b) == \A i, j \in 1 .. Len(b) : b[i] = b[j] => i = j

LEMMA OnceAppend ==
    ASSUME NEW T, NEW b \in Seq(T), NEW e \in T
    PROVE  /\ Members(Append(b, e)) = Members(b) \cup {e}
           /\ Once(Append(b, e)) <=> Once(b) /\ e \notin Members(b)
<1> DEFINE n == Len(b)
           c == Append(b, e)
<1>1. n \in Nat /\ Len(c) = n + 1 /\ c[n + 1] = e /\ \A i \in 1 .. n : c[i] = b[i]
  BY AppendProperties, LenProperties
<1> HIDE DEF n, c
<1>2. 1 .. n + 1 = (1 .. n) \cup {n + 1} /\ n + 1 \notin 1 .. n
  BY <1>1
<1>3. Members(c) = Members(b) \cup {e}
  <2>1. ASSUME NEW x \in Members(c) PROVE x \in Members(b) \cup {e}
    <3>1. PICK i \in 1 .. n + 1 : x = c[i]
      BY <1>1 DEF Members
    <3> QED
      BY <1>1, <1>2, <3>1 DEF Members, n
  <2>2. ASSUME NEW x \in Members(b) \cup {e} PROVE x \in Members(c)
    BY <1>1, <1>2 DEF Members, n
  <2> QED
    BY <2>1, <2>2
<1>4. Once(c) => Once(b) /\ e \notin Members(b)
  <2> SUFFICES ASSUME Once(c) PROVE Once(b) /\ e \notin Members(b)
    OBVIOUS
  <2>1. \A i, j \in 1 .. n + 1 : c[i] = c[j] => i = j
    BY <1>1 DEF Once
  <2>2. Once(b)
    BY <1>1, <1>2, <2>1 DEF Once, n
  <2>3. \A i \in 1 .. n : b[i] # e
    BY <1>1, <1>2, <2>1
  <2> QED
    BY <2>2, <2>3 DEF Members, n
<1>5. Once(b) /\ e \notin Members(b) => Once(c)
  <2> SUFFICES ASSUME Once(b), e \notin Members(b),
                      NEW i \in 1 .. n + 1, NEW j \in 1 .. n + 1, c[i] = c[j]
               PROVE  i = j
    BY <1>1 DEF Once
  <2>1. \A h \in 1 .. n : c[h] # e
    BY <1>1 DEF Members, n
  <2>2. CASE i = n + 1 \/ j = n + 1
    BY <1>1, <1>2, <2>1, <2>2
  <2>3. CASE i \in 1 .. n /\ j \in 1 .. n
    BY <1>1, <2>3 DEF Once, n
  <2> QED
    BY <1>2, <2>2, <2>3
<1> QED
  BY <1>3, <1>4, <1>5 DEF c

\* The elements of a sequence that are in T, as Filtered finds them.
Part(e, T) == IF e \in T THEN <<e>> ELSE <<>>
PartsOf(seq, T) == [j \in DOMAIN seq |-> Part(seq[j], T)]
Only(seq, T) == FoldLeft(Joined, <<>>, PartsOf(seq, T))

LEMMA OnlyIs ==
    ASSUME NEW seq, NEW T PROVE Only(seq, T) = Joining!Left(<<>>, PartsOf(seq, T))
BY DEF Only, Joining!Left, FoldLeft, Joining!FoldLeft, MapThenFoldSet, Joining!MapThenFoldSet, Max, Joining!Max

LEMMA OnlyOfNone == ASSUME NEW T PROVE Only(<<>>, T) = <<>>
<1>1. PartsOf(<<>>, T) = <<>>
  BY DEF PartsOf
<1>2. Joining!Left(<<>>, <<>>) = <<>>
  BY Joining!FoldOfNone
<1> QED
  BY <1>1, <1>2, OnlyIs

\* A filter goes through the elements one by one.
LEMMA OnlyNext ==
    ASSUME NEW X, NEW T, NEW seq \in Seq(X), NEW e \in X, Only(seq, T) \in Seq(X)
    PROVE  Only(Append(seq, e), T)
             = IF e \in T THEN Append(Only(seq, T), e) ELSE Only(seq, T)
<1>1. ASSUME NEW b \in Seq(X)
      PROVE  /\ PartsOf(b, T) \in Seq(Seq(X)) /\ Len(PartsOf(b, T)) = Len(b)
             /\ \A j \in 1 .. Len(b) : PartsOf(b, T)[j] = Part(b[j], T)
  <2>1. \A j \in 1 .. Len(b) : Part(b[j], T) \in Seq(X)
    BY ElementOfSeq DEF Part
  <2>2. DOMAIN b = 1 .. Len(b) /\ Len(b) \in Nat
    BY LenProperties
  <2> QED
    BY <2>1, <2>2 DEF PartsOf
<1>2. Part(e, T) \in Seq(X)
  BY DEF Part
<1>3. PartsOf(Append(seq, e), T) = Append(PartsOf(seq, T), Part(e, T))
  <2> DEFINE long == Append(seq, e)
  <2>1. /\ long \in Seq(X) /\ Len(long) = Len(seq) + 1 /\ long[Len(seq) + 1] = e
        /\ \A j \in 1 .. Len(seq) : long[j] = seq[j]
    BY AppendProperties
  <2> HIDE DEF long
  <2> DEFINE a == PartsOf(long, T)
             b == Append(PartsOf(seq, T), Part(e, T))
  <2>2. /\ a \in Seq(Seq(X)) /\ Len(a) = Len(seq) + 1
        /\ \A j \in 1 .. Len(seq) + 1 : a[j] = Part(long[j], T)
    BY <1>1, <2>1
  <2>3. /\ b \in Seq(Seq(X)) /\ Len(b) = Len(seq) + 1
        /\ \A j \in 1 .. Len(seq) : b[j] = PartsOf(seq, T)[j]
        /\ b[Len(seq) + 1] = Part(e, T)
    BY <1>1, <1>2, AppendProperties
  <2>4. \A j \in 1 .. Len(seq) + 1 : a[j] = b[j]
    BY <1>1, <2>1, <2>2, <2>3, LenProperties
  <2> HIDE DEF a, b
  <2>5. a = b
    BY <2>2, <2>3, <2>4, SeqEqual
  <2> QED
    BY <2>5 DEF a, b, long
<1>4. Only(Append(seq, e), T) = Joined(Only(seq, T), Part(e, T))
  <2>1. Joining!Left(<<>>, Append(PartsOf(seq, T), Part(e, T)))
          = Joining!Step(Joining!Left(<<>>, PartsOf(seq, T)), Part(e, T))
    BY <1>1, <1>2, Joining!FoldOfNext
  <2> QED
    BY <1>3, <2>1, OnlyIs DEF Joining!Step
<1>5. /\ Only(seq, T) \o <<e>> = Append(Only(seq, T), e)
      /\ Only(seq, T) \o <<>> = Only(seq, T)
  BY AppendIsConcat, ConcatEmptySeq
<1> QED
  BY <1>4, <1>5 DEF Joined, Part

\* It finds all of them, and none twice unless it was there twice.
LEMMA OnlyHas ==
    ASSUME NEW X, NEW T, NEW seq \in Seq(X)
    PROVE  /\ Only(seq, T) \in Seq(X)
           /\ Members(Only(seq, T)) = Members(seq) \cap T
           /\ Once(seq) => Once(Only(seq, T))
<1> DEFINE Finds(b) == /\ Only(b, T) \in Seq(X)
                       /\ Members(Only(b, T)) = Members(b) \cap T
                       /\ Once(b) => Once(Only(b, T))
           R == {b \in Seq(X) : Finds(b)}
<1>1. <<>> \in R
  <2>1. <<>> \in Seq(X) /\ Len(<<>>) = 0
    BY EmptySeq
  <2>2. Members(<<>>) = {}
    BY <2>1 DEF Members
  <2>3. Once(<<>>)
    BY <2>1 DEF Once
  <2> QED
    BY <2>1, <2>2, <2>3, OnlyOfNone
<1>2. ASSUME NEW b \in Seq(X), NEW e \in X, b \in R PROVE Append(b, e) \in R
  <2>1. Append(b, e) \in Seq(X) /\ Finds(b)
    BY <1>2, AppendProperties
  <2>2. Only(Append(b, e), T) = IF e \in T THEN Append(Only(b, T), e) ELSE Only(b, T)
    BY <2>1, OnlyNext
  <2>3. /\ Members(Append(b, e)) = Members(b) \cup {e}
        /\ Once(Append(b, e)) => Once(b) /\ e \notin Members(b)
    BY OnceAppend
  <2>4. /\ Append(Only(b, T), e) \in Seq(X)
        /\ Members(Append(Only(b, T), e)) = Members(Only(b, T)) \cup {e}
        /\ Once(Only(b, T)) /\ e \notin Members(Only(b, T)) => Once(Append(Only(b, T), e))
    BY <2>1, OnceAppend, AppendProperties
  <2>5. CASE e \in T
    BY <2>1, <2>2, <2>3, <2>4, <2>5
  <2>6. CASE e \notin T
    BY <2>1, <2>2, <2>3, <2>6
  <2> QED
    BY <2>5, <2>6
<1> HIDE DEF R
<1>3. Seq(X) \subseteq R
  BY <1>1, <1>2, Joining!SequenceInduction
<1> QED
  BY <1>3 DEF R

\* Every id of the index has arrived; the history names no id twice.
Arrived == arrived \in Seq(Ids) /\ Once(arrived) /\ DOMAIN orders \subseteq Members(arrived)

LEMMA ArrivesOnce ==
    ASSUME Arrived, NEW id \in Ids, Arrives(id)
    PROVE  arrived' \in Seq(Ids) /\ Once(arrived)' /\ Members(arrived)' = Members(arrived) \cup {id}
<1> DEFINE T == {i \in Ids : i # id}
           rest == Only(arrived, T)
<1>1. arrived' = Append(rest, id)
  <2>1. \A j \in DOMAIN arrived : arrived[j] \in Ids
    BY ElementOfSeq, LenProperties DEF Arrived
  <2>2. Filtered(arrived, LAMBDA i : i # id) = rest
    BY <2>1 DEF Filtered, Only, PartsOf, Part
  <2> QED
    BY <2>2 DEF Arrives
<1>2. /\ rest \in Seq(Ids) /\ Members(rest) = Members(arrived) \cap T /\ Once(rest)
      /\ Members(arrived) \subseteq Ids
  <2>1. Members(arrived) \subseteq Ids
    BY ElementOfSeq DEF Arrived, Members
  <2> QED
    BY <2>1, OnlyHas DEF Arrived
<1> HIDE DEF rest
<1>3. /\ Append(rest, id) \in Seq(Ids)
      /\ Members(Append(rest, id)) = Members(rest) \cup {id}
      /\ Once(Append(rest, id))
  BY <1>2, OnceAppend, AppendProperties
<1>4. Members(rest) \cup {id} = Members(arrived) \cup {id}
  BY <1>2
<1> QED
  BY <1>1, <1>3, <1>4

LEMMA ArrivedStep == ASSUME Arrived, [AdapterNext]_vars PROVE Arrived'
<1>1. ASSUME NEW id \in Ids, Arrives(id), DOMAIN orders' \subseteq DOMAIN orders \cup {id}
      PROVE  Arrived'
  BY <1>1, ArrivesOnce DEF Arrived
<1>2. ASSUME UNCHANGED arrived, DOMAIN orders' \subseteq DOMAIN orders PROVE Arrived'
  BY <1>2 DEF Arrived, Members, Once
<1>3. \A id : DOMAIN Unindexed(id) = DOMAIN orders \ {id}
  BY DEF Unindexed
<1>4. ASSUME NEW bk, NEW index, NEW o, apply(bk, index, o), DOMAIN index \subseteq DOMAIN orders
      PROVE  DOMAIN orders' \subseteq DOMAIN orders \cup {o.id}
  BY <1>4 DEF apply, Indexed
<1>5. CASE Deliver
  <2>1. ASSUME NEW m \in NewsAt(NextSeq), engine_on_new_order(m) PROVE Arrived'
    <3>1. m.id \in Ids
      BY DEF NewsAt, NewOrder
    <3>2. Arrives(m.id) /\ apply(buckets, orders, BookOrder(m, m.side))
      BY <2>1 DEF engine_on_new_order, Insert
    <3>3. BookOrder(m, m.side).id = m.id
      BY DEF BookOrder
    <3> QED
      BY <1>1, <1>4, <3>1, <3>2, <3>3
  <2>2. ASSUME NEW m \in CancelsAt(NextSeq), engine_on_cancel(m) PROVE Arrived'
    <3>1. UNCHANGED arrived /\ DOMAIN orders' \subseteq DOMAIN orders
      BY <1>3, <2>2 DEF engine_on_cancel, cancel, fifoVars
    <3> QED
      BY <1>2, <3>1
  <2>3. ASSUME NEW m \in ModifiesAt(NextSeq), engine_on_modify(m) PROVE Arrived'
    <3>1. m.id \in Ids
      BY DEF ModifiesAt, Modify
    <3>2. CASE shadow[m.id].alive
      <4> DEFINE o == BookOrder(m, ModifiedSide(m))
      <4>1. Arrives(m.id) /\ apply(Removed(o.id, o.side), Unindexed(o.id), o)
        BY <2>3, <3>2 DEF engine_on_modify, Reinsert
      <4>2. o.id = m.id
        BY DEF BookOrder
      <4> HIDE DEF o
      <4> QED
        BY <1>1, <1>3, <1>4, <3>1, <4>1, <4>2
    <3>3. CASE ~shadow[m.id].alive
      BY <1>2, <2>3, <3>3 DEF engine_on_modify, fifoVars
    <3> QED
      BY <3>2, <3>3
  <2> QED
    BY <1>5, <2>1, <2>2, <2>3 DEF Deliver
<1>6. CASE Matching
  <2>1. UNCHANGED arrived /\ DOMAIN orders' \subseteq DOMAIN orders
    BY <1>6 DEF Matching, check_for_trades, Pop, Merge, Stop
  <2> QED
    BY <1>2, <2>1
<1>7. CASE match_aggressor
  <2>1. UNCHANGED arrived /\ (cancel(taker.id, taker.side) \/ Return)
    BY <1>7 DEF match_aggressor
  <2>2. DOMAIN orders' \subseteq DOMAIN orders
    BY <1>3, <2>1 DEF cancel, Return
  <2> QED
    BY <1>2, <2>1, <2>2
<1>8. CASE UNCHANGED vars
  BY <1>2, <1>8 DEF vars, fifoVars
<1> QED
  BY <1>5, <1>6, <1>7, <1>8 DEF AdapterNext

LEMMA ArrivedInvariance == Spec => []Arrived
<1>1. engine_init => Arrived
  <2> SUFFICES ASSUME engine_init PROVE Arrived
    OBVIOUS
  <2>1. arrived = <<>> /\ orders = [id \in {} |-> 0]
    BY DEF engine_init, Init
  <2>2. Once(<<>>) /\ <<>> \in Seq(Ids)
    BY EmptySeq DEF Once
  <2> QED
    BY <2>1, <2>2 DEF Arrived
<1> QED
  BY <1>1, ArrivedStep, PTL DEF Spec

-----------------------------------------------------------------------------
(* The queries.                                                            *)

\* Between two messages what rests has arrived, waits in its bucket, and has an id
\* of its own.
LEMMA RestingIs ==
    ASSUME Inv, IndexInv, Arrived, AtRest
    PROVE  /\ \A o \in Resting : /\ o \in Order /\ o.id \in Ids /\ o.id \in Members(arrived)
                                 /\ o.side \in Sides /\ o.price \in Prices
                                 /\ o \in Members(buckets[o.side][o.price])
           /\ \A s \in Sides, p \in Prices : \A o \in Members(buckets[s][p]) :
                 o \in Resting /\ o.side = s /\ o.price = p
           /\ \A o, q \in Resting : o.id = q.id => o = q
<1>1. Filed(buckets)
  BY DEF Inv, TypeOK
<1>2. \A s \in Sides, p \in Prices : ToSet(buckets[s][p]) = Members(buckets[s][p])
  <2> SUFFICES ASSUME NEW s \in Sides, NEW p \in Prices
               PROVE  ToSet(buckets[s][p]) = Members(buckets[s][p])
    OBVIOUS
  <2>1. DOMAIN buckets[s][p] = 1 .. Len(buckets[s][p])
    BY <1>1, LenProperties DEF Filed
  <2> QED
    BY <2>1 DEF ToSet, Members
<1>3. \A o : o \in Resting <=> \E s \in Sides : o \in Waiting(buckets, s)
  BY <1>2 DEF Resting, Waiting
<1>4. ASSUME NEW s \in Sides, NEW o \in Waiting(buckets, s)
      PROVE  /\ o \in Order /\ o.side = s /\ o.price \in Prices /\ o.id \in Ids
             /\ o \in Members(buckets[s][o.price])
             /\ o.id \in DOMAIN orders /\ orders[o.id] = o.price /\ shadow[o.id].side = s
  <2>1. o \in Held(s)
    BY DEF Held
  <2> QED
    BY <1>1, <2>1, KnownSide, WaitingIsFiled
<1>5. ASSUME NEW o \in Resting, NEW q \in Resting, o.id = q.id PROVE o = q
  <2>1. PICK s \in Sides : o \in Waiting(buckets, s)
    BY <1>3
  <2>2. q \in Waiting(buckets, s) /\ q.price = o.price
    BY <1>3, <1>4, <1>5, <2>1
  <2> DEFINE b == buckets[s][o.price]
  <2>3. o \in Members(b) /\ q \in Members(b) /\ o.price \in Prices
    BY <1>4, <2>1, <2>2
  <2>4. Distinct(b)
    BY <2>3 DEF IndexInv, OnceEach, AllDistinct
  <2> HIDE DEF b
  <2> QED
    BY <1>5, <2>3, <2>4 DEF Members, Distinct
<1>6. \A s \in Sides, p \in Prices : \A o \in Members(buckets[s][p]) :
         o \in Resting /\ o.side = s /\ o.price = p
  <2> SUFFICES ASSUME NEW s \in Sides, NEW p \in Prices, NEW o \in Members(buckets[s][p])
               PROVE  o \in Resting /\ o.side = s /\ o.price = p
    OBVIOUS
  <2>1. o \in Waiting(buckets, s) /\ o.price = p
    BY <1>1, WaitingIsFiled
  <2> QED
    BY <1>3, <1>4, <2>1
<1>7. \A o \in Resting : /\ o \in Order /\ o.id \in Ids /\ o.id \in Members(arrived)
                         /\ o.side \in Sides /\ o.price \in Prices
                         /\ o \in Members(buckets[o.side][o.price])
  BY <1>3, <1>4 DEF Arrived
<1> QED
  BY <1>5, <1>6, <1>7

EntryOf(o) == Entry(o.id, o.side, o.price, o.size)

\* The book is what rests, in some order, each once.
LEMMA BookIs ==
    ASSUME Inv, IndexInv, Arrived, AtRest
    PROVE  \E q \in Seq(Order) : /\ Once(q) /\ Members(q) = Resting
                                 /\ Book = [k \in DOMAIN q |-> EntryOf(q[k])]
<1> DEFINE T == {id \in Ids : \E o \in Resting : o.id = id}
           ids == Only(arrived, T)
           q == [k \in DOMAIN ids |-> OrderOf(ids[k])]
<1>1. /\ \A o \in Resting : o \in Order /\ o.id \in Ids /\ o.id \in Members(arrived)
      /\ \A o, r \in Resting : o.id = r.id => o = r
  BY RestingIs
<1>2. Book = [k \in DOMAIN ids |-> Entry(ids[k], OrderOf(ids[k]).side, OrderOf(ids[k]).price,
                                         OrderOf(ids[k]).size)]
  <2>1. \A j \in DOMAIN arrived : arrived[j] \in Ids
    BY ElementOfSeq, LenProperties DEF Arrived
  <2>2. [j \in DOMAIN arrived |->
           IF \E o \in Resting : o.id = arrived[j] THEN <<arrived[j]>> ELSE <<>>] = PartsOf(arrived, T)
    BY <2>1 DEF PartsOf, Part
  <2>3. RestingIds = ids
    BY <2>2 DEF RestingIds, Filtered, Only
  <2> QED
    BY <2>3 DEF Book
<1>3. ids \in Seq(Ids) /\ Members(ids) = T /\ Once(ids)
  <2>1. ids \in Seq(Ids) /\ Members(ids) = Members(arrived) \cap T /\ Once(ids)
    BY OnlyHas DEF Arrived
  <2>2. T \subseteq Members(arrived)
    BY <1>1
  <2> QED
    BY <2>1, <2>2
<1>4. \A id \in T : OrderOf(id) \in Resting /\ OrderOf(id).id = id
  BY DEF OrderOf
<1>5. DOMAIN ids = 1 .. Len(ids) /\ Len(ids) \in Nat /\ \A k \in 1 .. Len(ids) : ids[k] \in T
  <2> HIDE DEF ids, T
  <2> QED
    BY <1>3, LenProperties DEF Members
<1> HIDE DEF ids, T
<1>6. q \in Seq(Order) /\ Len(q) = Len(ids)
  BY <1>1, <1>4, <1>5
<1>7. Once(q)
  <2> SUFFICES ASSUME NEW i \in 1 .. Len(ids), NEW j \in 1 .. Len(ids), q[i] = q[j] PROVE i = j
    BY <1>6 DEF Once
  <2>1. ids[i] = ids[j]
    BY <1>4, <1>5
  <2> QED
    BY <1>3, <2>1 DEF Once
<1>8. Members(q) = Resting
  <2>1. ASSUME NEW k \in 1 .. Len(ids) PROVE q[k] \in Resting
    BY <1>4, <1>5
  <2>2. ASSUME NEW o \in Resting PROVE \E k \in 1 .. Len(ids) : q[k] = o
    <3>1. o.id \in T
      BY <1>1 DEF T
    <3>2. PICK k \in 1 .. Len(ids) : ids[k] = o.id
      BY <1>3, <3>1 DEF Members
    <3>3. q[k] \in Resting /\ q[k].id = o.id
      BY <1>4, <1>5, <3>1, <3>2
    <3> QED
      BY <1>1, <3>3
  <2> HIDE DEF q
  <2> QED
    BY <1>6, <2>1, <2>2 DEF Members
<1>9. Book = [k \in DOMAIN q |-> EntryOf(q[k])]
  <2>1. \A k \in DOMAIN ids : q[k].id = ids[k]
    BY <1>4, <1>5
  <2> QED
    BY <1>2, <2>1 DEF EntryOf
<1> QED
  BY <1>6, <1>7, <1>8, <1>9

\* The live shadows are the book: the same arrivals, each with what its order is.
LEMMA ShadowBookIs ==
    ASSUME Inv, IndexInv, ShadowInv, Arrived, AtRest
    PROVE  ShadowBook = Book
<1> DEFINE T == {id \in Ids : \E o \in Resting : o.id = id}
           Live == {id \in Ids : shadow[id].alive}
           ids == Only(arrived, T)
<1>1. \A o \in Resting : /\ o.id \in Ids /\ shadow[o.id] = ShadowOf(o, o.side) /\ o.size > 0
                        /\ o.side \in Sides
  <2> SUFFICES ASSUME NEW o \in Resting
               PROVE  o.id \in Ids /\ shadow[o.id] = ShadowOf(o, o.side) /\ o.size > 0
                      /\ o.side \in Sides
    OBVIOUS
  <2>1. /\ o \in Order /\ o.id \in Ids /\ o.side \in Sides /\ o.price \in Prices
        /\ o \in Members(buckets[o.side][o.price])
    BY RestingIs
  <2>2. o \in Held(o.side)
    BY <2>1 DEF Held, Waiting
  <2> QED
    BY <2>1, <2>2, KnownShadow DEF Order
<1>2. ASSUME NEW id \in Live PROVE id \in T
  <2>1. id \in Ids /\ id \in DOMAIN orders
    BY KnownShadow
  <2>2. PICK s \in Sides : \E x \in Held(s) : x.id = id
    BY <2>1 DEF IndexInv, NoneForgotten
  <2>3. PICK x \in Held(s) : x.id = id
    BY <2>2
  <2>4. x \in Waiting(buckets, s)
    BY <2>3, KnownSide
  <2>5. PICK p \in Prices : x \in Members(buckets[s][p])
    BY <2>4 DEF Waiting
  <2>6. x \in Resting
    BY <2>5, RestingIs
  <2> QED
    BY <2>1, <2>3, <2>6
<1>3. ASSUME NEW id \in T PROVE id \in Live
  <2>1. PICK o \in Resting : o.id = id
    OBVIOUS
  <2>2. shadow[id] = [price |-> o.price, remaining |-> o.size, side |-> o.side,
                      alive |-> TRUE]
    <3>1. (o.size > 0) = TRUE
      BY <1>1
    <3> QED
      BY <1>1, <2>1, <3>1 DEF ShadowOf, Shadow
  <2> QED
    BY <1>1, <2>1, <2>2
<1>4. Live = T
  BY <1>2, <1>3
<1>5. \A j \in DOMAIN arrived : arrived[j] \in Ids
  BY ElementOfSeq, LenProperties DEF Arrived
<1>6. LiveIds = ids
  <2>1. [j \in DOMAIN arrived |-> IF shadow[arrived[j]].alive THEN <<arrived[j]>> ELSE <<>>]
          = PartsOf(arrived, Live)
    BY <1>5 DEF PartsOf, Part
  <2> QED
    BY <1>4, <2>1 DEF LiveIds, Filtered, Only
<1>7. RestingIds = ids
  <2>1. [j \in DOMAIN arrived |->
           IF \E o \in Resting : o.id = arrived[j] THEN <<arrived[j]>> ELSE <<>>] = PartsOf(arrived, T)
    BY <1>5 DEF PartsOf, Part
  <2> QED
    BY <2>1 DEF RestingIds, Filtered, Only
<1>8. ASSUME NEW k \in DOMAIN ids PROVE ids[k] \in T
  <2>1. ids \in Seq(Ids) /\ Members(ids) = Members(arrived) \cap T
    BY OnlyHas DEF Arrived
  <2>2. DOMAIN ids = 1 .. Len(ids)
    BY <2>1, LenProperties
  <2> HIDE DEF ids, T
  <2> QED
    BY <1>8, <2>1, <2>2 DEF Members
<1>9. ASSUME NEW id \in T
      PROVE  Entry(id, shadow[id].side, shadow[id].price, shadow[id].remaining)
               = Entry(id, OrderOf(id).side, OrderOf(id).price, OrderOf(id).size)
  <2>1. OrderOf(id) \in Resting /\ OrderOf(id).id = id
    BY DEF OrderOf
  <2>2. shadow[id] = ShadowOf(OrderOf(id), OrderOf(id).side)
    BY <1>1, <2>1
  <2>3. /\ shadow[id].side = OrderOf(id).side /\ shadow[id].price = OrderOf(id).price
        /\ shadow[id].remaining = OrderOf(id).size
    BY <2>2 DEF ShadowOf, Shadow
  <2> QED
    BY <2>3
<1> HIDE DEF ids, T
<1> QED
  BY <1>6, <1>7, <1>8, <1>9 DEF ShadowBook, Book

\* Some price of a set that is not empty is better than the others.
LEMMA BestExists ==
    ASSUME NEW s \in Sides, NEW T, T \subseteq Prices, T # {}
    PROVE  \E p \in T : \A q \in T \ {p} : Better(s, p, q)
<1> DEFINE U == IF s = "sell" THEN T ELSE {MaxPrice - p : p \in T}
<1>1. MaxPrice \in Nat /\ \A p \in T : p \in Int /\ 0 <= p /\ p <= MaxPrice
  BY FifoAssumption DEF Prices
<1>2. U \subseteq Nat /\ U # {}
  BY <1>1
<1>3. PICK x \in U : \A y \in U : x <= y
  BY <1>2, Adding!LeastElement
<1>4. CASE s = "sell"
  BY <1>1, <1>3, <1>4 DEF Better
<1>5. CASE s # "sell"
  <2>1. PICK p \in T : x = MaxPrice - p
    BY <1>3, <1>5
  <2>2. ASSUME NEW q \in T \ {p} PROVE p > q
    <3>1. MaxPrice - q \in U
      BY <1>5
    <3> QED
      BY <1>1, <1>3, <2>1, <3>1
  <2> QED
    BY <1>5, <2>2 DEF Better, Sides
<1> QED
  BY <1>4, <1>5

\* The prices of the book are those of the buckets that are not empty.
LEMMA PricesAreLive ==
    ASSUME Inv, IndexInv, Arrived, AtRest, NEW s \in Sides
    PROVE  PricesOn(Book, s) = LivePrices(s)
<1>1. PICK q \in Seq(Order) : Members(q) = Resting /\ Book = [k \in DOMAIN q |-> EntryOf(q[k])]
  BY BookIs
<1>2. DOMAIN q = 1 .. Len(q)
  BY LenProperties
<1>3. \A p : p \in PricesOn(Book, s) <=> \E o \in Resting : o.side = s /\ o.price = p
  <2>1. DOMAIN Book = DOMAIN q
    BY <1>1
  <2>2. \A k \in DOMAIN q : Book[k].side = q[k].side /\ Book[k].price = q[k].price
    BY <1>1 DEF EntryOf, Entry
  <2>3. \A o : o \in Resting <=> \E k \in DOMAIN q : o = q[k]
    BY <1>1, <1>2 DEF Members
  <2> QED
    BY <2>1, <2>2, <2>3 DEF PricesOn
<1>4. ASSUME NEW p \in Prices
      PROVE  buckets[s][p] # <<>> <=> \E o \in Resting : o.side = s /\ o.price = p
  <2> DEFINE b == buckets[s][p]
  <2>1. b \in Seq(Level(s, p))
    BY DEF Inv, TypeOK, Filed
  <2>2. \A o : o \in Members(b) <=> o \in Resting /\ o.side = s /\ o.price = p
    BY RestingIs
  <2> HIDE DEF b
  <2>3. b # <<>> <=> Members(b) # {}
    <3>1. Len(b) \in Nat /\ (Len(b) = 0 <=> b = <<>>)
      BY <2>1, EmptySeq
    <3>2. \A n \in Nat : n # 0 => 1 \in 1 .. n
      OBVIOUS
    <3>3. 1 .. 0 = {}
      OBVIOUS
    <3> QED
      BY <3>1, <3>2, <3>3 DEF Members
  <2> QED
    BY <2>2, <2>3 DEF b
<1>5. \A o \in Resting : o.price \in Prices
  BY RestingIs
<1> QED
  BY <1>3, <1>4, <1>5 DEF LivePrices

LEMMA BestRight ==
    ASSUME Inv, IndexInv, Arrived, AtRest
    PROVE  engine_query_best_bid = Best(Book, "buy") /\ engine_query_best_ask = Best(Book, "sell")
<1>1. ASSUME NEW s \in Sides, LivePrices(s) # {}
      PROVE  BestLive(s) = CHOOSE p \in LivePrices(s) : \A q \in LivePrices(s) \ {p} : Better(s, p, q)
  <2> DEFINE T == LivePrices(s)
  <2>1. T \subseteq Prices /\ \A p \in T : p \in Int
    BY FifoAssumption DEF LivePrices, Prices
  <2>2. BestLive(s) = CHOOSE p \in T : \A q \in T : ~Better(s, q, p)
    BY DEF BestLive
  <2> HIDE DEF T
  <2>3. PICK best \in T : \A q \in T \ {best} : Better(s, best, q)
    BY <1>1, <2>1, BestExists DEF T
  <2>4. \A p \in T : (\A q \in T : ~Better(s, q, p)) <=> p = best
    BY <2>1, <2>3 DEF Better
  <2>5. \A p \in T : (\A q \in T \ {p} : Better(s, p, q)) <=> p = best
    BY <2>1, <2>3 DEF Better
  <2>6. (CHOOSE p \in T : \A q \in T : ~Better(s, q, p)) = best
    BY <2>4
  <2>7. (CHOOSE p \in T : \A q \in T \ {p} : Better(s, p, q)) = best
    BY <2>5
  <2> QED
    BY <2>2, <2>6, <2>7 DEF T
<1>2. "buy" \in Sides /\ "sell" \in Sides /\ \A s \in Sides : PricesOn(Book, s) = LivePrices(s)
  BY PricesAreLive DEF Sides
<1>3. engine_query_best_bid = Best(Book, "buy")
  <2>1. PricesOn(Book, "buy") = LivePrices("buy")
    BY <1>2
  <2> QED
    BY <1>1, <1>2, <2>1 DEF engine_query_best_bid, Best
<1>4. engine_query_best_ask = Best(Book, "sell")
  <2>1. PricesOn(Book, "sell") = LivePrices("sell")
    BY <1>2
  <2> QED
    BY <1>1, <1>2, <2>1 DEF engine_query_best_ask, Best
<1> QED
  BY <1>3, <1>4

\* The sum of the sizes of a finite set of orders.
Total(T) == Summing!OfSet(0, T)

LEMMA TotalIs ==
    ASSUME NEW T, T \subseteq Order, IsFiniteSet(T)
    PROVE  /\ Total({}) = 0 /\ Total(T) \in Nat
           /\ \A o \in T : Total(T) = Total(T \ {o}) + o.size
<1>1. \A o \in Order : o.size \in Nat
  BY DEF Order
<1>2. Summing!Commutes(Order, Nat) /\ 0 \in Nat
  BY <1>1 DEF Summing!Commutes, Summing!Step
<1>3. Summing!IsFiniteSet(T)
  BY DEF IsFiniteSet, Summing!IsFiniteSet
<1>4. /\ Summing!OfSet(0, {}) = 0
      /\ Summing!OfSet(0, T) \in Nat
      /\ \A o \in T : Summing!OfSet(0, T) = Summing!Step(o, Summing!OfSet(0, T \ {o}))
  BY ONLY <1>2, <1>3, T \subseteq Order, Summing!FoldSetWithElement
<1>5. \A o \in T : Summing!OfSet(0, T \ {o}) \in Nat
  <2> SUFFICES ASSUME NEW o \in T PROVE Summing!OfSet(0, T \ {o}) \in Nat
    OBVIOUS
  <2> DEFINE U == T \ {o}
  <2>1. Summing!IsFiniteSet(U) /\ U \subseteq Order
    BY FS_RemoveElement DEF IsFiniteSet, Summing!IsFiniteSet
  <2> HIDE DEF U
  <2>2. Summing!OfSet(0, U) \in Nat
    BY ONLY <1>2, <2>1, Summing!FoldSetWithElement
  <2> QED
    BY <2>2 DEF U
<1> QED
  BY <1>1, <1>4, <1>5 DEF Total, Summing!Step

LEMMA TotalNext ==
    ASSUME NEW T, T \subseteq Order, IsFiniteSet(T), NEW o \in Order, o \notin T
    PROVE  Total(T \cup {o}) = Total(T) + o.size /\ Total(T) \in Nat
<1> DEFINE U == T \cup {o}
<1>1. U \subseteq Order /\ IsFiniteSet(U) /\ o \in U /\ U \ {o} = T
  BY FS_AddElement
<1> HIDE DEF U
<1>2. Total(U) = Total(U \ {o}) + o.size
  BY <1>1, TotalIs
<1> QED
  BY <1>1, <1>2, TotalIs DEF U

\* What the depth query adds up along a book: the sizes of its orders in T.
Weight(o, T) == IF o \in T THEN o.size ELSE 0
Weights(q, T) == [k \in DOMAIN q |-> Weight(q[k], T)]
DepthOf(q, T) == FoldLeft(Plus, 0, Weights(q, T))

LEMMA PlusIs == ASSUME NEW w PROVE FoldLeft(Plus, 0, w) = Adding!Left(0, w)
BY DEF Adding!Left, FoldLeft, Adding!FoldLeft, MapThenFoldSet, Adding!MapThenFoldSet, Max, Adding!Max

LEMMA DepthNext ==
    ASSUME NEW T, NEW q \in Seq(Order), NEW o \in Order
    PROVE  DepthOf(Append(q, o), T) = DepthOf(q, T) + Weight(o, T)
<1> DEFINE n == Len(q)
           long == Append(q, o)
           a == Weights(long, T)
           b == Append(Weights(q, T), Weight(o, T))
<1>1. \A e \in Order : Weight(e, T) \in Nat
  BY DEF Weight, Order
<1>2. /\ n \in Nat /\ DOMAIN q = 1 .. n /\ \A k \in 1 .. n : q[k] \in Order
      /\ long \in Seq(Order) /\ Len(long) = n + 1 /\ DOMAIN long = 1 .. n + 1
      /\ long[n + 1] = o /\ \A k \in 1 .. n : long[k] = q[k]
  BY AppendProperties, LenProperties, ElementOfSeq
<1> HIDE DEF n, long
<1>3. /\ Weights(q, T) \in Seq(Nat) /\ Len(Weights(q, T)) = n
      /\ \A k \in 1 .. n : Weights(q, T)[k] = Weight(q[k], T)
  BY <1>1, <1>2 DEF Weights
<1>4. /\ b \in Seq(Nat) /\ Len(b) = n + 1 /\ b[n + 1] = Weight(o, T)
      /\ \A k \in 1 .. n : b[k] = Weight(q[k], T)
  BY <1>1, <1>3, AppendProperties
<1>5. \A k \in 1 .. n + 1 : long[k] \in Order
  BY <1>2, ElementOfSeq
<1>6. /\ a \in Seq(Nat) /\ Len(a) = n + 1
      /\ \A k \in 1 .. n + 1 : a[k] = Weight(long[k], T)
  BY <1>1, <1>2, <1>5 DEF Weights
<1> HIDE DEF a, b
<1>7. \A k \in 1 .. n + 1 : a[k] = b[k]
  <2>1. /\ n \in Nat /\ long[n + 1] = o /\ \A k \in 1 .. n : long[k] = q[k]
        /\ b[n + 1] = Weight(o, T) /\ \A k \in 1 .. n : b[k] = Weight(q[k], T)
        /\ \A k \in 1 .. n + 1 : a[k] = Weight(long[k], T)
    BY <1>2, <1>4, <1>6
  <2> QED
    BY ONLY <2>1, SMTT(30)
<1>8. a = b
  BY <1>4, <1>6, <1>7, SeqEqual
<1>9. Adding!Left(0, b) = Adding!Step(Adding!Left(0, Weights(q, T)), Weight(o, T))
  BY <1>1, <1>3, Adding!FoldOfNext DEF b
<1> QED
  BY <1>8, <1>9, PlusIs DEF DepthOf, Adding!Step, Plus, a, long

\* So it is their total, in whatever order they are.
LEMMA DepthIsTotal ==
    ASSUME NEW T, NEW q \in Seq(Order), Once(q)
    PROVE  DepthOf(q, T) = Total(Members(q) \cap T)
<1> DEFINE Adds(b) == /\ IsFiniteSet(Members(b)) /\ Members(b) \subseteq Order
                      /\ Once(b) => DepthOf(b, T) = Total(Members(b) \cap T)
           R == {b \in Seq(Order) : Adds(b)}
<1>1. <<>> \in R
  <2>1. <<>> \in Seq(Order) /\ Len(<<>>) = 0
    BY EmptySeq
  <2>2. Members(<<>>) = {}
    BY <2>1 DEF Members
  <2>3. Adding!Left(0, <<>>) = 0
    BY Adding!FoldOfNone
  <2>4. Weights(<<>>, T) = <<>>
    BY DEF Weights
  <2>5. DepthOf(<<>>, T) = 0
    BY <2>3, <2>4, PlusIs DEF DepthOf
  <2>6. IsFiniteSet({}) /\ {} \subseteq Order
    BY FS_EmptySet
  <2> QED
    BY <2>1, <2>2, <2>5, <2>6, TotalIs
<1>2. ASSUME NEW b \in Seq(Order), NEW o \in Order, b \in R PROVE Append(b, o) \in R
  <2>1. Append(b, o) \in Seq(Order) /\ Adds(b)
    BY <1>2, AppendProperties
  <2>2. /\ Members(Append(b, o)) = Members(b) \cup {o}
        /\ Once(Append(b, o)) => Once(b) /\ o \notin Members(b)
    BY OnceAppend
  <2>3. IsFiniteSet(Members(b) \cup {o}) /\ Members(b) \cup {o} \subseteq Order
    BY <2>1, FS_AddElement
  <2>4. DepthOf(Append(b, o), T) = DepthOf(b, T) + Weight(o, T)
    BY DepthNext
  <2>5. ASSUME Once(Append(b, o))
        PROVE  DepthOf(Append(b, o), T) = Total(Members(Append(b, o)) \cap T)
    <3> DEFINE U == Members(b) \cap T
    <3>1. U \subseteq Order /\ IsFiniteSet(U) /\ o \notin U /\ DepthOf(b, T) = Total(U)
      BY <2>1, <2>2, <2>5, FS_Subset
    <3>2. Members(Append(b, o)) \cap T = IF o \in T THEN U \cup {o} ELSE U
      BY <2>2
    <3> HIDE DEF U
    <3>3. Total(U \cup {o}) = Total(U) + o.size /\ Total(U) \in Nat
      BY <3>1, TotalNext
    <3>4. CASE o \in T
      BY <2>4, <3>1, <3>2, <3>3, <3>4 DEF Weight
    <3>5. CASE o \notin T
      <4>1. Weight(o, T) = 0
        BY <3>5 DEF Weight
      <4>2. DepthOf(Append(b, o), T) = Total(U)
        BY <2>4, <3>1, <3>3, <4>1
      <4> QED
        BY <3>2, <3>5, <4>2
    <3> QED
      BY <3>4, <3>5
  <2> QED
    BY <2>1, <2>2, <2>3, <2>5
<1> HIDE DEF R
<1>3. Seq(Order) \subseteq R
  BY <1>1, <1>2, Adding!SequenceInduction
<1> QED
  BY <1>3 DEF R

\* The query of a bucket adds up all of its orders.
LEMMA BucketDepth ==
    ASSUME NEW b \in Seq(Order)
    PROVE  FoldLeft(LAMBDA sum, o : sum + o.size, 0, b) = DepthOf(b, Order)
<1> DEFINE R == {q \in Seq(Order) : Sizing!Left(0, q) = DepthOf(q, Order)}
<1>1. <<>> \in R
  <2>1. Sizing!Left(0, <<>>) = 0 /\ Adding!Left(0, <<>>) = 0
    BY Sizing!FoldOfNone, Adding!FoldOfNone
  <2>2. Weights(<<>>, Order) = <<>>
    BY DEF Weights
  <2> QED
    BY <2>1, <2>2, PlusIs, EmptySeq DEF DepthOf
<1>2. ASSUME NEW q \in Seq(Order), NEW o \in Order, q \in R PROVE Append(q, o) \in R
  <2>1. Sizing!Left(0, Append(q, o)) = Sizing!Step(Sizing!Left(0, q), o)
    BY Sizing!FoldOfNext
  <2>2. DepthOf(Append(q, o), Order) = DepthOf(q, Order) + o.size
    BY DepthNext DEF Weight
  <2> QED
    BY <1>2, <2>1, <2>2, AppendProperties DEF Sizing!Step
<1> HIDE DEF R
<1>3. Seq(Order) \subseteq R
  BY <1>1, <1>2, Sizing!SequenceInduction
<1>4. Sizing!Left(0, b) = DepthOf(b, Order)
  BY <1>3 DEF R
<1> QED
  BY <1>4 DEF Sizing!Left, FoldLeft, Sizing!FoldLeft, MapThenFoldSet, Sizing!MapThenFoldSet, Max, Sizing!Max

LEMMA DepthRight ==
    ASSUME Inv, IndexInv, Arrived, AtRest, NEW p \in Prices, NEW s \in Sides
    PROVE  engine_query_depth_at(p, s) = DepthAt(Book, s, p)
<1> DEFINE b == buckets[s][p]
           T == Level(s, p)
<1>1. \A o : o \in T <=> o \in Order /\ o.side = s /\ o.price = p
  BY LevelIsOrder, OrderIsFiled
<1>2. PICK q \in Seq(Order) : /\ Once(q) /\ Members(q) = Resting
                              /\ Book = [k \in DOMAIN q |-> EntryOf(q[k])]
  BY BookIs
<1>3. DepthAt(Book, s, p) = DepthOf(q, T)
  <2>1. \A k \in DOMAIN q : q[k] \in Order
    BY ElementOfSeq, LenProperties
  <2>2. DOMAIN Book = DOMAIN q
    BY <1>2
  <2>3. \A k \in DOMAIN q : /\ Book[k].side = q[k].side /\ Book[k].price = q[k].price
                            /\ Book[k].qty = q[k].size
    BY <1>2 DEF EntryOf, Entry
  <2> HIDE DEF T
  <2>4. [k \in DOMAIN Book |-> IF Book[k].side = s /\ Book[k].price = p THEN Book[k].qty ELSE 0]
          = Weights(q, T)
    BY <1>1, <2>1, <2>2, <2>3 DEF Weights, Weight
  <2> QED
    BY <2>4 DEF DepthAt, DepthOf
<1>4. b \in Seq(T) /\ b \in Seq(Order) /\ Distinct(b)
  <2>1. b \in Seq(Level(s, p)) /\ b \in Seq(Order)
    BY DEF Inv, TypeOK, Filed
  <2> QED
    BY <2>1 DEF IndexInv, OnceEach, AllDistinct
<1>5. Members(b) = Resting \cap T /\ Members(b) = Members(b) \cap Order
  <2>1. \A o \in Resting : o \in Order /\ o \in Members(buckets[o.side][o.price])
    BY RestingIs
  <2>2. \A o \in Members(b) : o \in Resting /\ o.side = s /\ o.price = p
    BY RestingIs
  <2> HIDE DEF T
  <2> QED
    BY <1>1, <2>1, <2>2
<1>6. Once(b)
  BY <1>4 DEF Distinct, Once
<1>7. engine_query_depth_at(p, s) = DepthOf(b, Order)
  <2>1. ~(p < 0)
    BY FifoAssumption DEF Prices
  <2>2. FoldLeft(LAMBDA sum, o : sum + o.size, 0, b) = DepthOf(b, Order)
    BY <1>4, BucketDepth
  <2> QED
    BY <2>1, <2>2 DEF engine_query_depth_at
<1> HIDE DEF b, T
<1>8. DepthOf(b, Order) = Total(Members(b)) /\ DepthOf(q, T) = Total(Members(b))
  BY <1>2, <1>4, <1>5, <1>6, DepthIsTotal
<1> QED
  BY <1>3, <1>7, <1>8

-----------------------------------------------------------------------------
(* Theorems.                                                               *)

\* Every order waits in the bucket of its side and price, the bounds and the
\* index name prices of the book, and each hand holds an order of its side.
THEOREM BookIsFiled == Spec => []TypeOK
<1>1. Inv => TypeOK
  BY DEF Inv
<1> QED
  BY <1>1, Invariance, PTL

\* Repairing the bounds on a pop, on an unpop and on an insert never leaves an
\* order outside the scan of pop_bid and pop_ask.
THEOREM ScanIsComplete == Spec => []BoundsCover
<1>1. Inv => BoundsCover
  BY DEF Inv
<1> QED
  BY <1>1, Invariance, PTL

\* check_for_trades leaves nothing that crosses, and what crosses while it runs
\* involves the order applied last.
THEOREM BookIsUncrossed == Spec => []OnlyTakerCrosses
<1>1. Inv => OnlyTakerCrosses
  BY DEF Inv
<1> QED
  BY <1>1, Invariance, PTL

\* One side of every trade is the aggressor the adapter names as the taker.
THEOREM AggressorTrades == Spec => []TakerTrades
<1>1. Inv => TakerTrades
  BY DEF Inv
<1> QED
  BY <1>1, Invariance, PTL

\* What cancel relies on: after any inserts, trades, unpops and cancels the index
\* names exactly the orders of the book, each at its price and on one side.
THEOREM IndexNamesBook == Spec => []IndexIsBook
BY IndexInvariance, Invariance, IndexRight, PTL

\* What the wrapper answers cancels and modifies by: its shadows, told of the
\* matching by the trades alone, are alive for exactly the orders that rest, with
\* their side, price and remainder, for any sequence of messages and fills.
THEOREM ShadowNamesBook == Spec => []ShadowIsBook
<1>1. Inv /\ IndexInv /\ ShadowInv /\ Arrived => ShadowIsBook
  BY ShadowBookIs DEF ShadowIsBook
<1> QED
  BY <1>1, Invariance, IndexInvariance, ArrivedInvariance, PTL

\* What the audit reads from the engine: although the queries scan the buckets and
\* never look at the shadows, the best prices and the depths they answer are those
\* of the orders whose shadows are alive.
THEOREM QueriesRight == Spec => []QueriesAnswerBook
<1>1. Inv /\ IndexInv /\ ShadowInv /\ Arrived => QueriesAnswerBook
  BY ShadowBookIs, BestRight, DepthRight DEF QueriesAnswerBook
<1> QED
  BY <1>1, Invariance, IndexInvariance, ArrivedInvariance, PTL
=============================================================================
