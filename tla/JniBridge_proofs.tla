-------------------------- MODULE JniBridge_proofs --------------------------
(***************************************************************************)
(* The proof that a bridge loses nothing: what filtering, matching and     *)
(* replaying do to a book, then the invariant of the two paths.            *)
(***************************************************************************)
EXTENDS JniBridge, TLAPS, FiniteSetTheorems, SequenceTheorems

Parts == INSTANCE FoldFacts WITH op <- Joined
Matching == INSTANCE FoldFacts WITH op <- Take
Adding == INSTANCE FoldFacts WITH op <- LAMBDA sum, t : sum + t.qty
Replay == INSTANCE FoldFacts WITH op <- Answered

\* The orders and the reports under the ids of a set.
Orders(ids) == [oid : ids, side : Sides, price : Int, qty : Nat]
Fills(ids) == [oid : ids, price : Int, qty : Nat, rest : Nat]
TradeReport == [type : {"Trade"}, seq : Nat, maker : Nat, taker : Nat, price : Int, qty : Nat]
Report == TradeReport
          \cup [type : {"OrderAck", "CancelAck", "ModifyAck", "CancelReject", "ModifyReject"},
                seq : Nat, id : Nat, side : Sides, price : Int, qty : Nat]

-----------------------------------------------------------------------------
(* Filters.  The prover cannot take the condition as an operator, so the   *)
(* lemmas are about the orders of a set T.                                 *)

Part(o, T) == IF o \in T THEN <<o>> ELSE <<>>
PartsOf(book, T) == [j \in DOMAIN book |-> Part(book[j], T)]
Only(book, T) == FoldLeft(Joined, <<>>, PartsOf(book, T))

\* It is the fold the facts are about.
LEMMA OnlyIs ==
    ASSUME NEW book, NEW T PROVE Only(book, T) = Parts!Left(<<>>, PartsOf(book, T))
BY DEF Only, Parts!Left, FoldLeft, Parts!FoldLeft, MapThenFoldSet, Parts!MapThenFoldSet, Max, Parts!Max

\* A filter goes through the orders one by one.
LEMMA OnlyNext ==
    ASSUME NEW X, NEW T, NEW book \in Seq(X), NEW e \in X, Only(book, T) \in Seq(X)
    PROVE  Only(Append(book, e), T)
             = IF e \in T THEN Append(Only(book, T), e) ELSE Only(book, T)
<1>1. ASSUME NEW b \in Seq(X)
      PROVE  /\ PartsOf(b, T) \in Seq(Seq(X)) /\ Len(PartsOf(b, T)) = Len(b)
             /\ \A j \in 1 .. Len(b) : PartsOf(b, T)[j] = Part(b[j], T)
  <2>1. \A j \in 1 .. Len(b) : Part(b[j], T) \in Seq(X)
    BY ElementOfSeq DEF Part
  <2>2. DOMAIN b = 1 .. Len(b) /\ Len(b) \in Nat
    BY LenProperties
  <2> QED
    BY <2>1, <2>2 DEF PartsOf
<1>2. Part(e, T) \in Seq(X)
  BY DEF Part
<1>3. PartsOf(Append(book, e), T) = Append(PartsOf(book, T), Part(e, T))
  <2> DEFINE long == Append(book, e)
  <2>1. /\ long \in Seq(X) /\ Len(long) = Len(book) + 1 /\ long[Len(book) + 1] = e
        /\ \A j \in 1 .. Len(book) : long[j] = book[j]
    BY AppendProperties
  <2> HIDE DEF long
  <2> DEFINE a == PartsOf(long, T)
             b == Append(PartsOf(book, T), Part(e, T))
  <2>2. /\ a \in Seq(Seq(X)) /\ Len(a) = Len(book) + 1
        /\ \A j \in 1 .. Len(book) + 1 : a[j] = Part(long[j], T)
    BY <1>1, <2>1
  <2>3. /\ b \in Seq(Seq(X)) /\ Len(b) = Len(book) + 1
        /\ \A j \in 1 .. Len(book) : b[j] = PartsOf(book, T)[j]
        /\ b[Len(book) + 1] = Part(e, T)
    BY <1>1, <1>2, AppendProperties
  <2>4. \A j \in 1 .. Len(book) + 1 : a[j] = b[j]
    BY <1>1, <2>1, <2>2, <2>3, LenProperties
  <2> HIDE DEF a, b
  <2>5. a = b
    BY <2>2, <2>3, <2>4, SeqEqual
  <2> QED
    BY <2>5 DEF a, b, long
<1>4. Only(Append(book, e), T) = Joined(Only(book, T), Part(e, T))
  <2>1. Parts!Left(<<>>, Append(PartsOf(book, T), Part(e, T)))
          = Parts!Step(Parts!Left(<<>>, PartsOf(book, T)), Part(e, T))
    BY <1>1, <1>2, Parts!FoldOfNext
  <2> QED
    BY <1>3, <2>1, OnlyIs DEF Parts!Step
<1>5. /\ Only(book, T) \o <<e>> = Append(Only(book, T), e)
      /\ Only(book, T) \o <<>> = Only(book, T)
  BY AppendIsConcat, ConcatEmptySeq
<1> QED
  BY <1>4, <1>5 DEF Joined, Part

\* A filter of the empty book is empty.
LEMMA OnlyOfNone == ASSUME NEW T PROVE Only(<<>>, T) = <<>>
<1>1. PartsOf(<<>>, T) = <<>>
  BY DEF PartsOf
<1>2. Parts!Left(<<>>, <<>>) = <<>>
  BY Parts!FoldOfNone
<1> QED
  BY <1>1, <1>2, OnlyIs

\* A filter returns orders of the book, of the set, and no more than there are.
LEMMA OnlyIn ==
    ASSUME NEW X, NEW T, NEW book \in Seq(X)
    PROVE  Only(book, T) \in Seq(X) /\ Len(Only(book, T)) <= Len(book)
<1> DEFINE R == {b \in Seq(X) : Only(b, T) \in Seq(X) /\ Len(Only(b, T)) <= Len(b)}
<1>1. <<>> \in R
  <2>1. <<>> \in Seq(X) /\ Len(<<>>) <= Len(<<>>)
    BY EmptySeq
  <2> QED
    BY <2>1, OnlyOfNone
<1>2. ASSUME NEW b \in Seq(X), NEW e \in X, b \in R PROVE Append(b, e) \in R
  <2>1. /\ Append(b, e) \in Seq(X) /\ Len(Append(b, e)) = Len(b) + 1
    BY AppendProperties
  <2>2. /\ Append(Only(b, T), e) \in Seq(X) /\ Len(Append(Only(b, T), e)) = Len(Only(b, T)) + 1
    BY <1>2, AppendProperties
  <2>3. Only(Append(b, e), T) = IF e \in T THEN Append(Only(b, T), e) ELSE Only(b, T)
    BY <1>2, OnlyNext
  <2>4. Len(b) \in Nat /\ Len(Only(b, T)) \in Nat
    BY <1>2, LenProperties
  <2> QED
    BY <1>2, <2>1, <2>2, <2>3, <2>4, SMTT(30)
<1> HIDE DEF R
<1>3. Seq(X) \subseteq R
  BY <1>1, <1>2, Parts!SequenceInduction
<1> QED
  BY <1>3 DEF R

\* A filter that all orders pass changes nothing.
LEMMA OnlyAll ==
    ASSUME NEW X, NEW T, X \subseteq T, NEW book \in Seq(X)
    PROVE  Only(book, T) = book
<1> DEFINE R == {b \in Seq(X) : Only(b, T) = b}
<1>1. <<>> \in R
  BY OnlyOfNone, EmptySeq
<1>2. ASSUME NEW b \in Seq(X), NEW e \in X, b \in R PROVE Append(b, e) \in R
  <2>1. Append(b, e) \in Seq(X)
    BY AppendProperties
  <2>2. Only(Append(b, e), T) = Append(b, e)
    BY <1>2, OnlyNext
  <2> QED
    BY <2>1, <2>2
<1> HIDE DEF R
<1>3. Seq(X) \subseteq R
  BY <1>1, <1>2, Parts!SequenceInduction
<1> QED
  BY <1>3 DEF R

\* Without and the end of Match are such filters.
LEMMA WithoutIs ==
    ASSUME NEW ids, NEW book \in Seq(Orders(ids)), NEW id
    PROVE  Without(book, id) = Only(book, {o \in Orders(ids) : o.oid # id})
<1>1. \A j \in DOMAIN book : book[j] \in Orders(ids)
  BY ElementOfSeq, LenProperties
<1> QED
  BY <1>1 DEF Without, Filtered, Only, PartsOf, Part

Live(book) == Filtered(book, LAMBDA o : o.qty > 0)
LEMMA LiveIs ==
    ASSUME NEW ids, NEW book \in Seq(Orders(ids))
    PROVE  Live(book) = Only(book, {o \in Orders(ids) : o.qty > 0})
<1>1. \A j \in DOMAIN book : book[j] \in Orders(ids)
  BY ElementOfSeq, LenProperties
<1> QED
  BY <1>1 DEF Live, Filtered, Only, PartsOf, Part

\* What Without leaves of a book; it leaves all when the id is not in it, and takes
\* out what was just put in.
LEMMA WithoutIn ==
    ASSUME NEW ids, NEW book \in Seq(Orders(ids)), NEW id
    PROVE  /\ Without(book, id) \in Seq(Orders(ids)) /\ Len(Without(book, id)) <= Len(book)
           /\ id \notin ids => Without(book, id) = book
<1> DEFINE T == {o \in Orders(ids) : o.oid # id}
<1>1. id \notin ids => Orders(ids) \subseteq T
  BY DEF Orders
<1>2. Without(book, id) = Only(book, T)
  BY WithoutIs
<1> HIDE DEF T
<1> QED
  BY <1>1, <1>2, OnlyIn, OnlyAll

LEMMA WithoutLast ==
    ASSUME NEW ids, NEW book \in Seq(Orders(ids)), NEW id, id \notin ids,
           NEW o \in Orders(ids \cup {id}), o.oid = id
    PROVE  Without(Append(book, o), id) = book
<1> DEFINE T == {e \in Orders(ids \cup {id}) : e.oid # id}
<1>1. book \in Seq(Orders(ids \cup {id}))
  <2>1. Orders(ids) \subseteq Orders(ids \cup {id})
    BY DEF Orders
  <2> QED
    BY <2>1, SeqMonotonic
<1>2. Append(book, o) \in Seq(Orders(ids \cup {id}))
  BY <1>1, AppendProperties
<1>3. Without(Append(book, o), id) = Only(Append(book, o), T)
  <2> DEFINE long == Append(book, o)
             all == ids \cup {id}
  <2>1. long \in Seq(Orders(all))
    BY <1>2
  <2> HIDE DEF long, all
  <2>2. Without(long, id) = Only(long, {e \in Orders(all) : e.oid # id})
    BY <2>1, WithoutIs
  <2> QED
    BY <2>2 DEF long, all
<1>4. o \notin T /\ Orders(ids) \subseteq T
  BY DEF Orders
<1> HIDE DEF T
<1>5. Only(book, T) = book
  BY <1>4, OnlyAll
<1>6. Only(Append(book, o), T) = Only(book, T)
  BY <1>1, <1>4, OnlyIn, OnlyNext
<1> QED
  BY <1>3, <1>5, <1>6

-----------------------------------------------------------------------------
(* Matching.                                                               *)

\* The makers are places of the book, none twice: the ranks of the orders that an
\* incoming one meets are the numbers below how many they are.
LEMMA MakersAre ==
    ASSUME NEW ids, NEW book \in Seq(Orders(ids)), NEW side \in Sides, NEW limit \in Int
    PROVE  /\ Makers(book, side, limit) \in Seq(1 .. Len(book))
           /\ Len(Makers(book, side, limit)) <= Len(book)
<1> DEFINE met == Crossing(book, side, limit)
           before(x) == {j \in met : Ahead(book, j, x)}
           rank == [x \in met |-> Cardinality(before(x))]
           c == Cardinality(met)
<1>1. Len(book) \in Nat /\ DOMAIN book = 1 .. Len(book)
  BY LenProperties
<1>2. /\ met \in SUBSET (1 .. Len(book))
      /\ \A x \in met : book[x] \in Orders(ids) /\ book[x].side = Opposite(side)
  <2>1. \A x \in 1 .. Len(book) : book[x] \in Orders(ids)
    BY ElementOfSeq
  <2> QED
    BY <1>1, <2>1 DEF Crossing
<1>3. IsFiniteSet(met) /\ c \in Nat /\ c <= Len(book)
  <2>1. IsFiniteSet(1 .. Len(book)) /\ Cardinality(1 .. Len(book)) = Len(book)
    BY <1>1, FS_Interval
  <2> QED
    BY <1>1, <1>2, <2>1, FS_Subset, FS_CardinalityType
<1>4. \A x, y, z \in met : /\ ~Ahead(book, x, x)
                           /\ x # y => Ahead(book, x, y) \/ Ahead(book, y, x)
                           /\ Ahead(book, x, y) /\ Ahead(book, y, z) => Ahead(book, x, z)
  <2>1. \A x \in met : book[x].price \in Int /\ x \in Int
    BY <1>1, <1>2 DEF Orders
  <2> HIDE DEF met
  <2> QED
    BY <1>2, <2>1 DEF Ahead, Better
<1> HIDE DEF met
<1>5. \A x \in met : IsFiniteSet(before(x)) /\ Cardinality(before(x)) \in Nat
  BY <1>3, FS_Subset, FS_CardinalityType
<1>6. \A x \in met : before(x) \subseteq met /\ x \notin before(x)
  BY <1>4
<1>7. \A x, y \in met : Ahead(book, x, y) => before(x) \subseteq before(y) /\ x \in before(y)
  BY <1>4
<1> HIDE DEF before
<1>8. ASSUME NEW x \in met, NEW s \in SUBSET met, before(x) \subseteq s, x \in s
      PROVE  Cardinality(before(x)) < Cardinality(s)
  <2>1. IsFiniteSet(s) /\ Cardinality(s) \in Nat
    BY <1>3, FS_Subset, FS_CardinalityType
  <2>2. Cardinality(before(x)) <= Cardinality(s) /\ Cardinality(before(x)) # Cardinality(s)
    BY <1>6, <1>8, <2>1, FS_Subset
  <2> DEFINE a == Cardinality(before(x))
             b == Cardinality(s)
  <2>3. a \in Nat /\ b \in Nat /\ a <= b /\ a # b
    BY <1>5, <2>1, <2>2
  <2> HIDE DEF a, b
  <2>4. a < b
    BY <2>3
  <2> QED
    BY <2>4 DEF a, b
<1>9. \A x \in met : rank[x] \in 0 .. c - 1
  <2> SUFFICES ASSUME NEW x \in met PROVE Cardinality(before(x)) \in 0 .. c - 1
    OBVIOUS
  <2> HIDE DEF c
  <2>1. Cardinality(before(x)) < c
    BY <1>6, <1>8 DEF c
  <2> QED
    BY <1>3, <1>5, <2>1
<1>10. ASSUME NEW x \in met, NEW y \in met, Ahead(book, x, y) PROVE rank[x] < rank[y]
  BY <1>6, <1>7, <1>8, <1>10
<1>11. rank \in Injection(met, 0 .. c - 1)
  <2>1. \A x, y \in met : rank[x] = rank[y] => x = y
    <3> SUFFICES ASSUME NEW x \in met, NEW y \in met, x # y PROVE rank[x] # rank[y]
      OBVIOUS
    <3>1. rank[x] < rank[y] \/ rank[y] < rank[x]
      BY <1>4, <1>10
    <3> QED
      BY <1>9, <3>1
  <2> QED
    BY <1>9, <2>1 DEF Injection, IsInjective
<1>12. IsFiniteSet(0 .. c - 1) /\ Cardinality(0 .. c - 1) = c
  <2> HIDE DEF c
  <2>1. c - 1 \in Int /\ (0 > c - 1 => c = 0) /\ c - 1 - 0 + 1 = c
    BY <1>3
  <2> DEFINE d == c - 1
  <2>2. d \in Int
    BY <2>1
  <2> HIDE DEF d
  <2>3. IsFiniteSet(0 .. d) /\ Cardinality(0 .. d) = IF 0 > d THEN 0 ELSE d - 0 + 1
    BY <2>2, FS_Interval
  <2> QED
    BY <2>1, <2>3 DEF d
<1> HIDE DEF rank, c
<1>13. rank \in Surjection(met, 0 .. c - 1)
  <2> DEFINE T == 0 .. c - 1
  <2>1. rank \in Injection(met, T) /\ IsFiniteSet(T) /\ Cardinality(T) = Cardinality(met)
    BY <1>11, <1>12 DEF c
  <2> HIDE DEF T
  <2>2. rank \in Surjection(met, T)
    BY <2>1, FS_Injection
  <2> QED
    BY <2>2 DEF T
<1>14. ASSUME NEW r \in 1 .. c PROVE \E x \in met : Cardinality(before(x)) = r - 1
  <2>1. r - 1 \in 0 .. c - 1
    BY <1>3
  <2>2. PICK x \in met : rank[x] = r - 1
    BY <1>13, <2>1 DEF Surjection
  <2> QED
    BY <2>2 DEF rank
<1>15. Makers(book, side, limit) = [r \in 1 .. c |-> CHOOSE x \in met : Cardinality(before(x)) = r - 1]
  BY DEF Makers, met, c, before
<1>16. Makers(book, side, limit) \in [1 .. c -> 1 .. Len(book)]
  BY <1>2, <1>14, <1>15
<1> QED
  BY <1>3, <1>16

\* The trades of some fills.
LEMMA TradesAre ==
    ASSUME NEW ids \in SUBSET Nat, NEW m, m.seq \in Nat, m.id \in Nat,
           NEW fills \in Seq(Fills(ids))
    PROVE  /\ Trades(m, fills) \in Seq(TradeReport) /\ Len(Trades(m, fills)) = Len(fills)
           /\ \A k \in 1 .. Len(fills) :
                Trades(m, fills)[k]
                  = Trade(m.seq, fills[k].oid, m.id, fills[k].price, fills[k].qty)
<1>1. \A k \in 1 .. Len(fills) :
         Trade(m.seq, fills[k].oid, m.id, fills[k].price, fills[k].qty) \in TradeReport
  <2>1. \A k \in 1 .. Len(fills) : fills[k] \in Fills(ids)
    BY ElementOfSeq
  <2> QED
    BY <2>1 DEF Trade, Fills, TradeReport
<1>2. DOMAIN fills = 1 .. Len(fills) /\ Len(fills) \in Nat
  BY LenProperties
<1> QED
  BY <1>1, <1>2 DEF Trades

\* One fill more: its trade is the last, and its quantity adds to the sum.
LEMMA FilledNext ==
    ASSUME NEW ids \in SUBSET Nat, NEW m, m.seq \in Nat, m.id \in Nat,
           NEW fills \in Seq(Fills(ids)), NEW f \in Fills(ids)
    PROVE  FilledBy(Trades(m, Append(fills, f))) = FilledBy(Trades(m, fills)) + f.qty
<1> DEFINE Of(g) == Trade(m.seq, g.oid, m.id, g.price, g.qty)
<1>1. \A g \in Fills(ids) : Of(g) \in TradeReport
  BY DEF Trade, Fills, TradeReport
<1>2. ASSUME NEW t \in Seq(Fills(ids))
      PROVE  /\ Trades(m, t) \in Seq(TradeReport) /\ Len(Trades(m, t)) = Len(t)
             /\ \A k \in 1 .. Len(t) : Trades(m, t)[k] = Of(t[k])
  BY TradesAre
<1> HIDE DEF Of
<1>3. Trades(m, Append(fills, f)) = Append(Trades(m, fills), Of(f))
  <2> DEFINE long == Append(fills, f)
  <2>1. /\ long \in Seq(Fills(ids)) /\ Len(long) = Len(fills) + 1 /\ long[Len(fills) + 1] = f
        /\ \A k \in 1 .. Len(fills) : long[k] = fills[k]
    BY AppendProperties
  <2> HIDE DEF long
  <2> DEFINE a == Trades(m, long)
             b == Append(Trades(m, fills), Of(f))
  <2>2. /\ a \in Seq(TradeReport) /\ Len(a) = Len(fills) + 1
        /\ \A k \in 1 .. Len(fills) + 1 : a[k] = Of(long[k])
    BY <1>2, <2>1
  <2>3. /\ b \in Seq(TradeReport) /\ Len(b) = Len(fills) + 1
        /\ \A k \in 1 .. Len(fills) : b[k] = Trades(m, fills)[k]
        /\ b[Len(fills) + 1] = Of(f)
    BY <1>1, <1>2, AppendProperties
  <2>4. \A k \in 1 .. Len(fills) + 1 : a[k] = b[k]
    BY <1>2, <2>1, <2>2, <2>3, LenProperties
  <2> HIDE DEF a, b
  <2>5. a = b
    BY <2>2, <2>3, <2>4, SeqEqual
  <2> QED
    BY <2>5 DEF a, b, long
<1>4. Of(f).qty = f.qty
  BY DEF Of, Trade
<1>5. \A ts : FilledBy(ts) = Adding!Left(0, ts)
  BY DEF FilledBy, Adding!Left, FoldLeft, Adding!FoldLeft, MapThenFoldSet, Adding!MapThenFoldSet, Max, Adding!Max
<1>6. Adding!Left(0, Append(Trades(m, fills), Of(f)))
        = Adding!Step(Adding!Left(0, Trades(m, fills)), Of(f))
  BY <1>1, <1>2, Adding!FoldOfNext
<1> QED
  BY <1>2, <1>3, <1>4, <1>5, <1>6 DEF Adding!Step

\* What a match is: nothing of the quantity is lost, there are no more fills than
\* orders, and no order is made up.
Swept(ids, L, qty, m) ==
    {acc \in [left : Nat, fills : Seq(Fills(ids)), book : Seq(Orders(ids))] :
        /\ Len(acc.book) = L /\ FilledBy(Trades(m, acc.fills)) \in Nat
        /\ acc.left + FilledBy(Trades(m, acc.fills)) = qty}

LEMMA TakeKeeps ==
    ASSUME NEW ids \in SUBSET Nat, NEW m, m.seq \in Nat, m.id \in Nat, NEW L \in Nat,
           NEW qty \in Nat, NEW acc \in Swept(ids, L, qty, m), NEW k \in 1 .. L
    PROVE  /\ Take(acc, k) \in Swept(ids, L, qty, m)
           /\ Len(Take(acc, k).fills) <= Len(acc.fills) + 1
<1> DEFINE maker == acc.book[k]
           q == Least(acc.left, maker.qty)
           f == [oid |-> maker.oid, price |-> maker.price, qty |-> q, rest |-> maker.qty - q]
           left == [maker EXCEPT !.qty = maker.qty - q]
<1>1. /\ acc \in [left : Nat, fills : Seq(Fills(ids)), book : Seq(Orders(ids))]
      /\ Len(acc.book) = L /\ acc.left + FilledBy(Trades(m, acc.fills)) = qty
      /\ FilledBy(Trades(m, acc.fills)) \in Nat
  BY DEF Swept
<1>2. maker \in Orders(ids)
  BY <1>1, ElementOfSeq
<1>3. q \in Nat /\ q <= acc.left /\ q <= maker.qty
  BY <1>1, <1>2, SMTT(30) DEF Least, Orders
<1>4. CASE q = 0
  <2>1. Len(acc.fills) \in Nat
    BY <1>1, LenProperties
  <2> QED
    BY <1>1, <1>4, <2>1 DEF Take
<1>5. CASE q # 0
  <2>1. Take(acc, k) = [left |-> acc.left - q, fills |-> Append(acc.fills, f),
                        book |-> [acc.book EXCEPT ![k] = left]]
    BY <1>5 DEF Take
  <2>2. f \in Fills(ids) /\ left \in Orders(ids) /\ f.qty = q
    BY <1>2, <1>3 DEF Fills, Orders
  <2>3. /\ [acc.book EXCEPT ![k] = left] \in Seq(Orders(ids))
        /\ Len([acc.book EXCEPT ![k] = left]) = L
    BY <1>1, <2>2, ExceptSeq
  <2>4. /\ Append(acc.fills, f) \in Seq(Fills(ids))
        /\ Len(Append(acc.fills, f)) = Len(acc.fills) + 1 /\ Len(acc.fills) \in Nat
    BY <1>1, <2>2, AppendProperties, LenProperties
  <2>5. FilledBy(Trades(m, Append(acc.fills, f))) = FilledBy(Trades(m, acc.fills)) + q
    BY <1>1, <2>2, FilledNext
  <2> HIDE DEF maker, q, f, left
  <2>6. FilledBy(Trades(m, acc.fills)) + q \in Nat /\ acc.left - q + (FilledBy(Trades(m, acc.fills)) + q) = qty
    BY <1>1, <1>3
  <2>7. acc.left - q \in Nat
    BY <1>1, <1>3
  <2> DEFINE fs == Append(acc.fills, f)
             bk == [acc.book EXCEPT ![k] = left]
             rest == acc.left - q
  <2>8. /\ rest \in Nat /\ fs \in Seq(Fills(ids)) /\ bk \in Seq(Orders(ids)) /\ Len(bk) = L
        /\ FilledBy(Trades(m, fs)) \in Nat
        /\ rest + FilledBy(Trades(m, fs)) = qty /\ Len(fs) <= Len(acc.fills) + 1
    BY <2>3, <2>4, <2>5, <2>6, <2>7
  <2>9. Take(acc, k) = [left |-> rest, fills |-> fs, book |-> bk]
    BY <2>1
  <2> HIDE DEF fs, bk, rest
  <2> QED
    BY <2>8, <2>9 DEF Swept
<1> QED
  BY <1>4, <1>5

Matched(ids) == [left : Nat, fills : Seq(Fills(ids)), book : Seq(Orders(ids))]

LEMMA MatchIs ==
    ASSUME NEW ids \in SUBSET Nat, NEW m, m.seq \in Nat, m.id \in Nat,
           NEW book \in Seq(Orders(ids)), NEW side \in Sides, NEW limit \in Int, NEW qty \in Nat,
           NEW a, a = Match(book, side, limit, qty)
    PROVE  /\ a \in Matched(ids)
           /\ Len(a.book) <= Len(book) /\ Len(a.fills) <= Len(book)
           /\ FilledBy(Trades(m, a.fills)) = qty - a.left
<1> DEFINE L == Len(book)
           base == [left |-> qty, fills |-> <<>>, book |-> book]
           makers == Makers(book, side, limit)
           swept == FoldLeft(Take, base, makers)
           Fits(acc, s) == acc \in Swept(ids, L, qty, m) /\ Len(acc.fills) <= Len(s)
           R == {s \in Seq(1 .. L) : Fits(Matching!Left(base, s), s)}
<1>1. L \in Nat /\ makers \in Seq(1 .. L) /\ Len(makers) <= L
  BY MakersAre, LenProperties
<1>2. <<>> \in R
  <2>1. Trades(m, <<>>) = <<>>
    BY DEF Trades
  <2>2. FilledBy(<<>>) = Adding!Left(0, <<>>)
    BY DEF FilledBy, Adding!Left, FoldLeft, Adding!FoldLeft, MapThenFoldSet,
           Adding!MapThenFoldSet, Max, Adding!Max
  <2>3. FilledBy(<<>>) = 0
    BY <2>2, Adding!FoldOfNone
  <2>4. base \in Swept(ids, L, qty, m)
    BY <2>1, <2>3 DEF Swept
  <2>5. Matching!Left(base, <<>>) = base
    BY Matching!FoldOfNone
  <2> HIDE DEF L
  <2> QED
    BY <2>4, <2>5
<1>3. ASSUME NEW s \in Seq(1 .. L), NEW k \in 1 .. L, s \in R PROVE Append(s, k) \in R
  <2> DEFINE acc == Matching!Left(base, s)
  <2>1. Matching!Left(base, Append(s, k)) = Take(acc, k)
    <3> HIDE DEF base
    <3>1. Matching!Left(base, Append(s, k)) = Matching!Step(Matching!Left(base, s), k)
      BY Matching!FoldOfNext
    <3> QED
      BY <3>1 DEF Matching!Step
  <2>2. Fits(acc, s)
    BY <1>3
  <2> HIDE DEF acc, base
  <2>3. Take(acc, k) \in Swept(ids, L, qty, m) /\ Len(Take(acc, k).fills) <= Len(acc.fills) + 1
    BY <1>1, <2>2, TakeKeeps
  <2>4. Append(s, k) \in Seq(1 .. L) /\ Len(Append(s, k)) = Len(s) + 1 /\ Len(s) \in Nat
    BY AppendProperties, LenProperties
  <2>5. Len(acc.fills) \in Nat /\ Len(Take(acc, k).fills) \in Nat
    BY <2>2, <2>3, LenProperties DEF Swept
  <2> QED
    BY <2>1, <2>2, <2>3, <2>4, <2>5
<1>4. swept = Matching!Left(base, makers)
  BY DEF Matching!Left, FoldLeft, Matching!FoldLeft, MapThenFoldSet, Matching!MapThenFoldSet, Max, Matching!Max
<1>5. a = [swept EXCEPT !.book = Live(swept.book)]
  BY DEF Match, Live
<1> HIDE DEF R, L, base, makers, swept
<1>6. Seq(1 .. L) \subseteq R
  BY <1>2, <1>3, Matching!SequenceInduction
<1>7. swept \in Swept(ids, L, qty, m) /\ Len(swept.fills) <= Len(makers)
  BY <1>1, <1>4, <1>6 DEF R
<1>8. /\ swept \in [left : Nat, fills : Seq(Fills(ids)), book : Seq(Orders(ids))]
      /\ Len(swept.book) = L
      /\ FilledBy(Trades(m, swept.fills)) \in Nat
      /\ swept.left + FilledBy(Trades(m, swept.fills)) = qty
  BY <1>7 DEF Swept
<1>9. Live(swept.book) \in Seq(Orders(ids)) /\ Len(Live(swept.book)) <= L
  <2> DEFINE b == swept.book
  <2>1. b \in Seq(Orders(ids)) /\ Len(b) = L
    BY <1>8
  <2> HIDE DEF b
  <2>2. Live(b) \in Seq(Orders(ids)) /\ Len(Live(b)) <= Len(b)
    <3> DEFINE T == {o \in Orders(ids) : o.qty > 0}
    <3>1. Live(b) = Only(b, T)
      BY <2>1, LiveIs
    <3> HIDE DEF T
    <3> QED
      BY <2>1, <3>1, OnlyIn
  <2> QED
    BY <2>1, <2>2 DEF b
<1>10. /\ a \in Matched(ids)
       /\ a.left = swept.left /\ a.fills = swept.fills /\ a.book = Live(swept.book)
  BY <1>5, <1>8, <1>9 DEF Matched
<1>11. Len(swept.fills) \in Nat /\ Len(makers) \in Nat
  BY <1>1, <1>8, LenProperties
<1>12. FilledBy(Trades(m, swept.fills)) = qty - swept.left
  BY <1>8
<1> QED
  BY <1>1, <1>7, <1>8, <1>9, <1>10, <1>11, <1>12 DEF L

\* The remainder rests behind the others; taken out again it leaves them.
Rested(b, a, id, ids) ==
    /\ b.left = a.left /\ b.fills = a.fills
    /\ b.book \in Seq(Orders(ids \cup {id})) /\ Len(b.book) <= Len(a.book) + 1
    /\ id \notin ids => Without(b.book, id) = a.book

LEMMA RestIs ==
    ASSUME NEW ids \in SUBSET Nat, NEW id \in Nat, NEW side \in Sides, NEW limit \in Int,
           NEW a \in Matched(ids)
    PROVE  Rested(WithRest(a, id, side, limit), a, id, ids)
<1> DEFINE b == WithRest(a, id, side, limit)
<1> DEFINE e == Entry(id, side, limit, a.left)
           all == ids \cup {id}
<1>1. e \in Orders(all) /\ e.oid = id /\ Orders(ids) \subseteq Orders(all)
  BY DEF Entry, Orders, Matched
<1>2. /\ a \in [left : Nat, fills : Seq(Fills(ids)), book : Seq(Orders(ids))]
      /\ a.book \in Seq(Orders(ids)) /\ a.book \in Seq(Orders(all)) /\ Len(a.book) \in Nat
  BY <1>1, SeqMonotonic, LenProperties DEF Matched
<1> DEFINE long == Append(a.book, e)
<1>3. b = IF a.left = 0 THEN a ELSE [a EXCEPT !.book = long]
  BY DEF WithRest
<1>4. long \in Seq(Orders(all)) /\ Len(long) = Len(a.book) + 1
  BY <1>1, <1>2, AppendProperties
<1>5. id \notin ids => Without(long, id) = a.book
  BY <1>1, <1>2, WithoutLast
<1>6. id \notin ids => Without(a.book, id) = a.book
  BY <1>2, WithoutIn
<1> HIDE DEF b, e, long
<1>7. b.left = a.left /\ b.fills = a.fills /\ b.book \in {a.book, long}
  BY <1>2, <1>3
<1>8. Rested(b, a, id, ids)
  BY <1>2, <1>4, <1>5, <1>6, <1>7 DEF Rested
<1> QED
  BY <1>8 DEF b

-----------------------------------------------------------------------------
(* One message.                                                            *)

IdsAfter(ids, m) == IF m.type = "new" THEN ids \cup {m.id} ELSE ids

\* What is needed of the answer a bridge gives: it is the reference's, and it is no
\* longer than what the message sweeps.
Right(book, m, ids) ==
    LET mine == OnMessage(book, m)
        reference == Replied(book, m)
    IN /\ mine.book = reference.book /\ mine.reports = reference.reports
       /\ mine.book \in Seq(Orders(IdsAfter(ids, m)))
       /\ mine.reports \in Seq(Report) /\ Len(mine.reports) <= mine.fills + 2
       /\ mine.fills \in Nat /\ mine.fills = Sweep(book, m)

LEMMA ThreeParts ==
    ASSUME NEW S, NEW a \in Seq(S), NEW b \in Seq(S), NEW c \in Seq(S)
    PROVE  a \o b \o c \in Seq(S) /\ Len(a \o b \o c) = Len(a) + Len(b) + Len(c)
<1> DEFINE ab == a \o b
<1>1. ab \in Seq(S) /\ Len(ab) = Len(a) + Len(b)
  BY ConcatProperties
<1> HIDE DEF ab
<1>2. ab \o c \in Seq(S) /\ Len(ab \o c) = Len(ab) + Len(c)
  BY <1>1, ConcatProperties
<1> QED
  BY <1>1, <1>2 DEF ab

LEMMA MessageIs ==
    ASSUME NEW m \in Message
    PROVE  /\ m.type \in {"new", "cancel", "modify"} /\ m.seq \in Nat /\ m.id \in Nat
           /\ m.type \in {"new", "modify"} =>
                m.side \in Sides /\ m.price \in Int /\ m.qty \in Nat
           /\ m.type = "new" => m.ioc \in BOOLEAN
BY DEF Message

\* An acknowledgement, the trades and what may follow them.
LEMMA ReportsFit ==
    ASSUME NEW a \in Seq(Report), NEW ts \in Seq(TradeReport), NEW c \in Seq(Report)
    PROVE  /\ a \o ts \o c \in Seq(Report)
           /\ Len(a) = 1 /\ Len(c) \in {0, 1} => Len(a \o ts \o c) <= Len(ts) + 2
<1>1. TradeReport \subseteq Report
  BY DEF Report
<1>2. ts \in Seq(Report) /\ Len(ts) \in Nat
  BY <1>1, SeqMonotonic, LenProperties
<1>3. a \o ts \o c \in Seq(Report) /\ Len(a \o ts \o c) = Len(a) + Len(ts) + Len(c)
  BY <1>2, ThreeParts
<1>4. \A x, y : \A k \in Nat : x = 1 /\ y \in {0, 1} => x + k + y <= k + 2
  OBVIOUS
<1> QED
  BY <1>2, <1>3, <1>4

LEMMA NewRight ==
    ASSUME NEW ids \in SUBSET Nat, NEW book \in Seq(Orders(ids)), NEW m \in Message,
           m.type = "new", m.id \notin ids
    PROVE  Right(book, m, ids)
<1>1. /\ m.seq \in Nat /\ m.id \in Nat /\ m.side \in Sides /\ m.price \in Int /\ m.qty \in Nat
      /\ m.ioc \in BOOLEAN
  BY MessageIs
<1>2. PICK a : a = Match(book, m.side, m.price, m.qty)
  OBVIOUS
<1>3. PICK b : b = WithRest(a, m.id, m.side, m.price)
  OBVIOUS
<1>4. PICK ts : ts = Trades(m, a.fills)
  OBVIOUS
<1>5. FilledBy(ts) = m.qty - a.left
  BY <1>1, <1>2, <1>4, MatchIs
<1>6. a \in Matched(ids)
  BY <1>1, <1>2, MatchIs
<1>7. /\ a.left \in Nat /\ a.fills \in Seq(Fills(ids)) /\ a.book \in Seq(Orders(ids))
  BY <1>6 DEF Matched
<1>8. /\ b.left = a.left /\ b.fills = a.fills
      /\ b.book \in Seq(Orders(ids \cup {m.id}))
      /\ Without(b.book, m.id) = a.book
  <2>1. Rested(b, a, m.id, ids)
    BY <1>1, <1>3, <1>6, RestIs
  <2> QED
    BY <2>1 DEF Rested
<1>9. ts \in Seq(TradeReport) /\ Len(ts) = Len(a.fills)
  BY <1>1, <1>4, <1>7, TradesAre
<1>10. PICK x : x = onNew(book, m, m.ioc)
  OBVIOUS
<1>11. x = [staged |-> ts,
           book |-> IF ~m.ioc THEN b.book
                    ELSE IF bridge = "jiang" THEN Without(b.book, m.id) ELSE a.book]
  BY <1>2, <1>3, <1>4, <1>10 DEF onNew, Executed
<1> DEFINE after == IF m.ioc THEN a.book ELSE b.book
           reports == <<OrderAck(m)>> \o ts \o Residual(m, a.left)
<1>12. Replied(book, m) = [book |-> after, reports |-> reports]
  <2>1. Replied(book, m) = Placed(m, b)
    BY <1>2, <1>3 DEF Replied, AddLimit
  <2> QED
    BY <1>4, <1>8, <2>1 DEF Placed
<1>13. OnMessage(book, m) = [book |-> after, fills |-> Len(ts), reports |-> reports]
  <2>1. OnMessage(book, m) = AnswerNew(m, x)
    BY <1>10 DEF OnMessage
  <2>2. x.staged = ts /\ x.book = after
    BY <1>1, <1>8, <1>11
  <2>3. m.qty - FilledBy(ts) = a.left
    BY <1>1, <1>5, <1>7
  <2> QED
    BY <2>1, <2>2, <2>3 DEF AnswerNew
<1>14. after \in Seq(Orders(ids \cup {m.id}))
  <2>1. a.book \in Seq(Orders(ids)) /\ Orders(ids) \subseteq Orders(ids \cup {m.id})
    BY <1>5, <1>7 DEF Orders
  <2>2. a.book \in Seq(Orders(ids \cup {m.id}))
    BY <2>1, SeqMonotonic
  <2> QED
    BY <1>8, <2>2
<1>15. reports \in Seq(Report) /\ Len(reports) <= Len(ts) + 2
  <2>1. OrderAck(m) \in Report /\ CancelAck(m, m.side, m.price, a.left) \in Report
    BY <1>1, <1>5, <1>7 DEF OrderAck, CancelAck, Ack, Report
  <2>2. /\ <<OrderAck(m)>> \in Seq(Report) /\ Len(<<OrderAck(m)>>) = 1
        /\ Residual(m, a.left) \in Seq(Report) /\ Len(Residual(m, a.left)) \in {0, 1}
    BY <2>1 DEF Residual
  <2>3. PICK h, c : h = <<OrderAck(m)>> /\ c = Residual(m, a.left)
    OBVIOUS
  <2>4. h \o ts \o c \in Seq(Report) /\ Len(h \o ts \o c) <= Len(ts) + 2
    BY <1>9, <2>2, <2>3, ReportsFit
  <2> QED
    BY <2>3, <2>4
<1>16. Len(ts) \in Nat /\ Len(ts) = Sweep(book, m)
  <2>1. Without(book, m.id) = book
    BY WithoutIn
  <2> QED
    BY <1>2, <1>9, <2>1, LenProperties DEF Sweep
<1>17. IdsAfter(ids, m) = ids \cup {m.id}
  BY DEF IdsAfter
<1> HIDE DEF after, reports
<1> QED
  BY <1>12, <1>13, <1>14, <1>15, <1>16, <1>17 DEF Right

\* An order that is in the book can be asked for and taken out.
LEMMA AtIs ==
    ASSUME NEW ids \in SUBSET Nat, NEW book \in Seq(Orders(ids)), NEW id, Has(book, id)
    PROVE  At(book, id) \in Orders(ids) /\ id \in ids
<1>1. DOMAIN book = 1 .. Len(book) /\ Len(book) \in Nat
      /\ \A k \in 1 .. Len(book) : book[k] \in Orders(ids)
  BY LenProperties, ElementOfSeq
<1>2. PICK k \in 1 .. Len(book) : book[k].oid = id
  BY <1>1 DEF Has
<1>3. PICK c : c = CHOOSE l \in DOMAIN book : book[l].oid = id
  OBVIOUS
<1>4. c \in 1 .. Len(book) /\ book[c].oid = id
  BY <1>1, <1>2, <1>3
<1>5. book[c] \in Orders(ids)
  BY <1>1, <1>4
<1> QED
  BY <1>3, <1>4, <1>5 DEF At, Orders

LEMMA ModifyRight ==
    ASSUME NEW ids \in SUBSET Nat, NEW book \in Seq(Orders(ids)), NEW m \in Message,
           m.type = "modify", Has(book, m.id)
    PROVE  Right(book, m, ids)
<1>1. /\ m.seq \in Nat /\ m.id \in ids /\ m.id \in Nat /\ m.side \in Sides /\ m.price \in Int
      /\ m.qty \in Nat
  BY MessageIs, AtIs
<1>2. PICK rest : rest = Without(book, m.id)
  OBVIOUS
<1>3. rest \in Seq(Orders(ids))
  BY <1>2, WithoutIn
<1>4. PICK a : a = Match(rest, m.side, m.price, m.qty)
  OBVIOUS
<1>5. PICK b : b = WithRest(a, m.id, m.side, m.price)
  OBVIOUS
<1>6. PICK ts : ts = Trades(m, a.fills)
  OBVIOUS
<1>7. a \in Matched(ids)
  BY <1>1, <1>3, <1>4, MatchIs
<1>8. a.fills \in Seq(Fills(ids)) /\ a.book \in Seq(Orders(ids))
  BY <1>7 DEF Matched
<1>9. b.fills = a.fills /\ b.book \in Seq(Orders(ids))
  <2>1. Rested(b, a, m.id, ids)
    BY <1>1, <1>5, <1>7, RestIs
  <2>2. ids \cup {m.id} = ids
    BY <1>1
  <2> QED
    BY <2>1, <2>2 DEF Rested
<1>10. ts \in Seq(TradeReport) /\ Len(ts) = Len(a.fills)
  BY <1>1, <1>6, <1>8, TradesAre
<1> DEFINE last == ModifyAck(m, m.side)
           reports == Append(ts, last)
<1>11. ts \in Seq(Report) /\ last \in Report
  <2>1. TradeReport \subseteq Report
    BY DEF Report
  <2>2. last \in Report
    BY <1>1 DEF ModifyAck, Ack, Report
  <2> QED
    BY <1>10, <2>1, <2>2, SeqMonotonic
<1> HIDE DEF last
<1>12. /\ ts \o <<last>> = reports /\ reports \in Seq(Report) /\ Len(reports) = Len(ts) + 1
  BY <1>11, AppendIsConcat, AppendProperties
<1> HIDE DEF reports
<1>13. Replied(book, m) = [book |-> b.book, reports |-> reports]
  <2>1. Replied(book, m) = Reinserted(m, b)
    BY <1>2, <1>4, <1>5 DEF Replied, AddLimit
  <2> QED
    BY <1>6, <1>9, <1>12, <2>1 DEF Reinserted, last
<1>14. OnMessage(book, m) = [book |-> b.book, fills |-> Len(ts), reports |-> reports]
  <2>1. PICK x : x = onModify(book, m)
    OBVIOUS
  <2>2. OnMessage(book, m) = AnswerModify(m, x)
    BY <2>1 DEF OnMessage
  <2>3. x.staged = ts /\ x.book = b.book
    BY <1>2, <1>4, <1>5, <1>6, <2>1 DEF onModify, onNew, Executed
  <2> QED
    BY <2>2, <2>3 DEF AnswerModify, reports, last
<1>15. IdsAfter(ids, m) = ids
  BY DEF IdsAfter
<1>16. Len(ts) \in Nat /\ Len(ts) = Sweep(book, m)
  BY <1>2, <1>4, <1>10, LenProperties DEF Sweep
<1>17. Len(reports) <= Len(ts) + 2
  BY <1>12, <1>16
<1> QED
  BY <1>9, <1>12, <1>13, <1>14, <1>15, <1>16, <1>17 DEF Right

\* The answer with one report and no fill.
LEMMA ShortRight ==
    ASSUME NEW ids \in SUBSET Nat, NEW book \in Seq(Orders(ids)), NEW m \in Message,
           m.type = "cancel" \/ (m.type = "modify" /\ ~Has(book, m.id)),
           NEW after \in Seq(Orders(ids)), NEW r \in Report,
           OnMessage(book, m) = [book |-> after, fills |-> 0, reports |-> <<r>>],
           Replied(book, m) = [book |-> after, reports |-> <<r>>]
    PROVE  Right(book, m, ids)
<1>1. IdsAfter(ids, m) = ids /\ Sweep(book, m) = 0
  BY DEF IdsAfter, Sweep
<1>2. <<r>> \in Seq(Report) /\ Len(<<r>>) = 1
  OBVIOUS
<1> QED
  BY <1>1, <1>2 DEF Right

\* The answer to any message a workload may have next.
LEMMA AnswerRight ==
    ASSUME NEW ids \in SUBSET Nat, NEW book \in Seq(Orders(ids)), NEW m \in Message,
           m.type = "new" => m.id \notin ids
    PROVE  Right(book, m, ids)
<1>1. m.type \in {"new", "cancel", "modify"} /\ m.seq \in Nat /\ m.id \in Nat
  BY MessageIs
<1>2. CASE m.type = "new"
  BY <1>2, NewRight
<1>3. CASE m.type = "modify" /\ Has(book, m.id)
  BY <1>3, ModifyRight
<1>4. CASE m.type = "cancel" /\ Has(book, m.id)
  <2>1. PICK o : o = At(book, m.id)
    OBVIOUS
  <2>2. PICK after : after = Without(book, m.id)
    OBVIOUS
  <2>3. PICK r : r = CancelAck(m, o.side, o.price, 0)
    OBVIOUS
  <2>4. o \in Orders(ids)
    BY <1>4, <2>1, AtIs
  <2>5. r \in Report
    BY <1>1, <2>3, <2>4 DEF Orders, CancelAck, Ack, Report
  <2>6. after \in Seq(Orders(ids))
    BY <2>2, WithoutIn
  <2>7. OnMessage(book, m) = [book |-> after, fills |-> 0, reports |-> <<r>>]
    BY <1>4, <2>1, <2>2, <2>3 DEF OnMessage, onCancel
  <2>8. Replied(book, m) = [book |-> after, reports |-> <<r>>]
    BY <1>4, <2>1, <2>2, <2>3 DEF Replied
  <2> QED
    BY <1>4, <2>5, <2>6, <2>7, <2>8, ShortRight
<1>5. CASE m.type = "cancel" /\ ~Has(book, m.id)
  <2>1. CancelReject(m) \in Report
    BY <1>1 DEF CancelReject, Ack, Report, Sides
  <2>2. OnMessage(book, m) = [book |-> book, fills |-> 0, reports |-> <<CancelReject(m)>>]
    BY <1>5 DEF OnMessage
  <2>3. Replied(book, m) = [book |-> book, reports |-> <<CancelReject(m)>>]
    BY <1>5 DEF Replied
  <2> QED
    BY <1>5, <2>1, <2>2, <2>3, ShortRight
<1>6. CASE m.type = "modify" /\ ~Has(book, m.id)
  <2>1. ModifyReject(m) \in Report
    BY <1>1 DEF ModifyReject, Ack, Report, Sides
  <2>2. OnMessage(book, m) = [book |-> book, fills |-> 0, reports |-> <<ModifyReject(m)>>]
    BY <1>6 DEF OnMessage
  <2>3. Replied(book, m) = [book |-> book, reports |-> <<ModifyReject(m)>>]
    BY <1>6 DEF Replied
  <2> QED
    BY <1>6, <2>1, <2>2, <2>3, ShortRight
<1> QED
  BY <1>1, <1>2, <1>3, <1>4, <1>5, <1>6

-----------------------------------------------------------------------------
(* The two paths.                                                          *)

Before(k) == SubSeq(workload, 1, k)
PlacedBefore(k) == {workload[j].id : j \in {l \in 1 .. k : workload[l].type = "new"}}

\* How far the engine has got.
Position == IF pc \in {"java", "drain"} THEN i ELSE delivered

\* A workload is messages, each order placed under an id of its own, none with a
\* sweep that is too deep.
WorkloadFits ==
    /\ workload \in Seq(Message)
    /\ \A j, k \in 1 .. Len(workload) :
         workload[j].type = "new" /\ workload[k].type = "new" /\ workload[j].id = workload[k].id
           => j = k
    /\ \A k \in 0 .. Len(workload) - 1 :
         Sweep(Stream(Before(k)).book, workload[k + 1]) <= MaxSweep

TypeOK ==
    /\ bridge \in Bridges /\ batched \in BOOLEAN
    /\ pc \in {"load", "idle", "java", "drain", "aborted"}
    /\ delivered \in 0 .. Len(workload)
    /\ pushed \in Seq(Report)
    /\ pc = "load" => delivered = 0 /\ native = <<>> /\ pushed = <<>>
    /\ pc \in {"java", "drain"} =>
         /\ start \in Nat /\ n \in Nat /\ i \in Nat /\ out \in Seq(Report)
         /\ start <= i /\ i <= n /\ n <= Len(workload) /\ start < n

\* The engine's book holds placed orders only.
BookFits == native \in Seq(Orders(PlacedBefore(Position)))

\* A crossing that comes back has got somewhere.
MovesOn == /\ pc \in {"java", "drain"} /\ i = start => out = <<>>
           /\ pc = "drain" => start < i

\* What is pushed, and what Java has still to return, is what the reference says of
\* the messages so far; the engine has the reference's book.
Answers == LET reference == Stream(Before(Position))
           IN /\ pc \in {"load", "idle"} =>
                   pushed = reference.reports /\ native = reference.book
              /\ pc \in {"java", "drain"} =>
                   pushed \o out = reference.reports /\ native = reference.book

NoAbort == bridge = "jiang" => pc # "aborted"

Inv == /\ WorkloadFits /\ TypeOK
       /\ pc # "aborted" => BookFits /\ MovesOn /\ Answers
       /\ NoAbort

-----------------------------------------------------------------------------
\* What comes before the next message is what came before the last, and it.
LEMMA BeforeNext ==
    ASSUME WorkloadFits, NEW k \in Nat, k < Len(workload)
    PROVE  /\ Before(k) \in Seq(Message) /\ workload[k + 1] \in Message
           /\ Before(k + 1) = Append(Before(k), workload[k + 1])
           /\ PlacedBefore(k) \in SUBSET Nat
           /\ workload[k + 1].type = "new" => workload[k + 1].id \notin PlacedBefore(k)
           /\ PlacedBefore(k + 1) = IdsAfter(PlacedBefore(k), workload[k + 1])
<1>1. /\ workload \in Seq(Message) /\ Len(workload) \in Nat
      /\ \A j \in 1 .. Len(workload) : workload[j] \in Message
  BY ElementOfSeq, LenProperties DEF WorkloadFits
<1>2. \A j \in 1 .. k + 1 : j \in 1 .. Len(workload) /\ workload[j] \in Message
  BY <1>1
<1>3. /\ Before(k) \in Seq(Message) /\ Len(Before(k)) = k
      /\ \A j \in 1 .. k : Before(k)[j] = workload[j]
  <2>1. /\ SubSeq(workload, 1, k) \in Seq(Message)
        /\ Len(SubSeq(workload, 1, k)) = IF 1 <= k THEN k - 1 + 1 ELSE 0
        /\ \A j \in 1 .. k - 1 + 1 : SubSeq(workload, 1, k)[j] = workload[1 + j - 1]
    BY <1>2, SubSeqProperties
  <2> QED
    BY <2>1 DEF Before
<1>4. /\ Before(k + 1) \in Seq(Message) /\ Len(Before(k + 1)) = k + 1
      /\ \A j \in 1 .. k + 1 : Before(k + 1)[j] = workload[j]
  <2>1. PICK l : l = k + 1
    OBVIOUS
  <2>2. l \in Int /\ 1 <= l /\ l - 1 + 1 = l
    BY <2>1
  <2>3. /\ SubSeq(workload, 1, l) \in Seq(Message)
        /\ Len(SubSeq(workload, 1, l)) = IF 1 <= l THEN l - 1 + 1 ELSE 0
        /\ \A j \in 1 .. l - 1 + 1 : SubSeq(workload, 1, l)[j] = workload[1 + j - 1]
    BY <1>2, <2>1, <2>2, SubSeqProperties
  <2> QED
    BY <2>1, <2>2, <2>3 DEF Before
<1>5. workload[k + 1] \in Message
  BY <1>2
<1>6. Before(k + 1) = Append(Before(k), workload[k + 1])
  <2>1. PICK a, b, w : a = Before(k + 1) /\ b = Before(k) /\ w = workload[k + 1]
    OBVIOUS
  <2>2. /\ Append(b, w) \in Seq(Message) /\ Len(Append(b, w)) = k + 1
        /\ \A j \in 1 .. k : Append(b, w)[j] = b[j]
        /\ Append(b, w)[k + 1] = w
    BY <1>3, <1>5, <2>1, AppendProperties
  <2>3. \A j \in 1 .. k + 1 : a[j] = Append(b, w)[j]
    <3>1. /\ \A j \in 1 .. k : a[j] = workload[j] /\ Append(b, w)[j] = workload[j]
          /\ a[k + 1] = workload[k + 1] /\ Append(b, w)[k + 1] = workload[k + 1]
      BY <1>3, <1>4, <2>1, <2>2
    <3>2. 1 .. k + 1 = (1 .. k) \cup {k + 1}
      OBVIOUS
    <3> QED
      BY <3>1, <3>2
  <2>4. a = Append(b, w)
    BY <1>4, <2>1, <2>2, <2>3, SeqEqual
  <2> QED
    BY <2>1, <2>4
<1>7. PlacedBefore(k) \in SUBSET Nat
  BY <1>2, MessageIs DEF PlacedBefore
<1>8. workload[k + 1].type = "new" => workload[k + 1].id \notin PlacedBefore(k)
  BY <1>2 DEF PlacedBefore, WorkloadFits
<1>9. PlacedBefore(k + 1) = IdsAfter(PlacedBefore(k), workload[k + 1])
  <2>1. 1 .. k + 1 = (1 .. k) \cup {k + 1}
    OBVIOUS
  <2> QED
    BY <2>1 DEF PlacedBefore, IdsAfter
<1> QED
  BY <1>3, <1>5, <1>6, <1>7, <1>8, <1>9

\* The reference answers one message more.
LEMMA StreamNext ==
    ASSUME NEW s \in Seq(Message), NEW m \in Message
    PROVE  Stream(Append(s, m)) = Answered(Stream(s), m)
<1> DEFINE base == [book |-> <<>>, reports |-> <<>>]
<1>1. \A t : Stream(t) = Replay!Left(base, t)
  BY DEF Stream, Replay!Left, FoldLeft, Replay!FoldLeft, MapThenFoldSet, Replay!MapThenFoldSet, Max, Replay!Max
<1> HIDE DEF base
<1>2. Replay!Left(base, Append(s, m)) = Replay!Step(Replay!Left(base, s), m)
  BY Replay!FoldOfNext
<1> QED
  BY <1>1, <1>2 DEF Replay!Step

LEMMA StreamOfNone == Stream(<<>>) = [book |-> <<>>, reports |-> <<>>]
<1> DEFINE base == [book |-> <<>>, reports |-> <<>>]
<1>1. Stream(<<>>) = Replay!Left(base, <<>>)
  BY DEF Stream, Replay!Left, FoldLeft, Replay!FoldLeft, MapThenFoldSet, Replay!MapThenFoldSet, Max, Replay!Max
<1> HIDE DEF base
<1>2. Replay!Left(base, <<>>) = base
  BY Replay!FoldOfNone
<1> QED
  BY <1>1, <1>2 DEF base

\* A bridge that has the reference's book answers the next message as it does.
LEMMA AnswerNext ==
    ASSUME WorkloadFits, NEW k \in Nat, k < Len(workload),
           native \in Seq(Orders(PlacedBefore(k))), native = Stream(Before(k)).book,
           NEW a, a = OnMessage(native, workload[k + 1])
    PROVE  /\ Stream(Before(k + 1)).book = a.book
           /\ Stream(Before(k + 1)).reports = Stream(Before(k)).reports \o a.reports
           /\ a.book \in Seq(Orders(PlacedBefore(k + 1)))
           /\ a.reports \in Seq(Report) /\ Len(a.reports) <= a.fills + 2
           /\ a.fills \in Nat /\ a.fills <= MaxSweep
<1>1. PICK m, ids, b, s : /\ m = workload[k + 1] /\ ids = PlacedBefore(k)
                          /\ b = native /\ s = Before(k)
  OBVIOUS
<1>2. /\ s \in Seq(Message) /\ m \in Message /\ ids \in SUBSET Nat
      /\ m.type = "new" => m.id \notin ids
      /\ Before(k + 1) = Append(s, m) /\ PlacedBefore(k + 1) = IdsAfter(ids, m)
  BY <1>1, BeforeNext
<1>3. b \in Seq(Orders(ids))
  BY <1>1
<1>4. Right(b, m, ids)
  BY <1>2, <1>3, AnswerRight
<1>5. a = OnMessage(b, m) /\ b = Stream(s).book
  BY <1>1
<1>6. Stream(Append(s, m)) = Answered(Stream(s), m)
  BY <1>2, StreamNext
<1>7. /\ Stream(Append(s, m)).book = Replied(b, m).book
      /\ Stream(Append(s, m)).reports = Stream(s).reports \o Replied(b, m).reports
  <2>1. PICK acc : acc = Stream(s)
    OBVIOUS
  <2>2. /\ Answered(acc, m).book = Replied(acc.book, m).book
        /\ Answered(acc, m).reports = acc.reports \o Replied(acc.book, m).reports
    BY DEF Answered
  <2> QED
    BY <1>5, <1>6, <2>1, <2>2
<1>8. Sweep(b, m) <= MaxSweep
  BY <1>1 DEF WorkloadFits
<1> QED
  BY <1>1, <1>2, <1>4, <1>5, <1>7, <1>8 DEF Right

-----------------------------------------------------------------------------
\* Everything before the first message is nothing.
LEMMA NothingBefore == Before(0) = <<>> /\ PlacedBefore(0) = {}
BY SubSeqEmpty DEF Before, PlacedBefore

LEMMA Begins == Init => Inv
<1> SUFFICES ASSUME Init PROVE Inv
  OBVIOUS
<1>1. workload = <<>> /\ native = <<>> /\ pushed = <<>> /\ pc = "load" /\ delivered = 0
  BY DEF Init
<1>2. Len(workload) = 0 /\ <<>> \in Seq(Message) /\ <<>> \in Seq(Report)
  BY <1>1
<1>3. WorkloadFits
  BY <1>1, <1>2 DEF WorkloadFits
<1>4. TypeOK
  BY <1>1, <1>2 DEF TypeOK, Init
<1>5. BookFits
  BY <1>1 DEF BookFits, Position
<1>6. MovesOn
  BY <1>1 DEF MovesOn
<1>7. Answers
  BY <1>1, NothingBefore, StreamOfNone DEF Answers, Position
<1> QED
  BY <1>1, <1>3, <1>4, <1>5, <1>6, <1>7 DEF Inv, NoAbort

\* What comes before a message does not change when another one is loaded.
LEMMA Prefix ==
    ASSUME NEW w \in Seq(Message), NEW m \in Message, NEW k \in 0 .. Len(w)
    PROVE  /\ SubSeq(Append(w, m), 1, k) = SubSeq(w, 1, k)
           /\ k = Len(w) => SubSeq(w, 1, k) = w
<1>1. Len(w) \in Nat /\ \A j \in 1 .. Len(w) : w[j] \in Message
  BY LenProperties, ElementOfSeq
<1>2. PICK long : long = Append(w, m)
  OBVIOUS
<1>3. /\ long \in Seq(Message) /\ Len(long) = Len(w) + 1
      /\ \A j \in 1 .. Len(w) : long[j] = w[j]
  BY <1>2, AppendProperties
<1>4. ASSUME NEW s \in Seq(Message), Len(s) >= k, \A j \in 1 .. Len(w) : s[j] = w[j]
      PROVE  /\ SubSeq(s, 1, k) \in Seq(Message) /\ Len(SubSeq(s, 1, k)) = k
             /\ \A j \in 1 .. k : SubSeq(s, 1, k)[j] = w[j]
  <2>1. \A j \in 1 .. k : s[j] \in Message /\ s[1 + j - 1] = w[j]
    BY <1>1, <1>4
  <2>2. /\ SubSeq(s, 1, k) \in Seq(Message)
        /\ Len(SubSeq(s, 1, k)) = IF 1 <= k THEN k - 1 + 1 ELSE 0
        /\ \A j \in 1 .. k - 1 + 1 : SubSeq(s, 1, k)[j] = s[1 + j - 1]
    BY <2>1, SubSeqProperties
  <2> QED
    BY <2>1, <2>2
<1>5. Len(w) >= k /\ Len(long) >= k
  BY <1>1, <1>3
<1>6. PICK a, b : a = SubSeq(long, 1, k) /\ b = SubSeq(w, 1, k)
  OBVIOUS
<1>7. a \in Seq(Message) /\ Len(a) = k /\ \A j \in 1 .. k : a[j] = w[j]
  BY <1>3, <1>4, <1>5, <1>6
<1>8. b \in Seq(Message) /\ Len(b) = k /\ \A j \in 1 .. k : b[j] = w[j]
  BY <1>4, <1>5, <1>6
<1>9. a = b
  BY <1>7, <1>8, SeqEqual
<1>10. k = Len(w) => b = w
  BY <1>8, SeqEqual
<1> QED
  BY <1>2, <1>6, <1>9, <1>10

\* Loading a message keeps the ids apart and the sweeps in bounds.
LEMMA LoadStep == ASSUME Inv, NEW m \in Follow(workload), LoadMessage(m) PROVE Inv'
<1>1. /\ pc = "load" /\ pc' = "load" /\ delivered' = delivered /\ native' = native
      /\ pushed' = pushed /\ bridge' = bridge /\ batched' = batched
      /\ workload' = Append(workload, m) /\ m \in Message
      /\ m.type = "new" => \A k \in DOMAIN workload : workload[k].type = "new" => workload[k].id # m.id
      /\ Sweep(Stream(workload).book, m) <= MaxSweep
  BY DEF LoadMessage, Follows
<1>2. WorkloadFits /\ TypeOK
  BY DEF Inv
<1>3. delivered = 0 /\ native = <<>> /\ pushed = <<>>
  BY <1>1, <1>2 DEF TypeOK
<1>4. PICK w : w = workload
  OBVIOUS
<1>5. w \in Seq(Message) /\ DOMAIN w = 1 .. Len(w) /\ Len(w) \in Nat
  BY <1>2, <1>4, LenProperties DEF WorkloadFits
<1>6. /\ workload' \in Seq(Message) /\ Len(workload') = Len(w) + 1
      /\ \A k \in 1 .. Len(w) : workload'[k] = w[k]
      /\ workload'[Len(w) + 1] = m
  BY <1>1, <1>4, <1>5, AppendProperties
<1>7. ASSUME NEW j \in 1 .. Len(workload'), NEW k \in 1 .. Len(workload'),
             workload'[j].type = "new", workload'[k].type = "new",
             workload'[j].id = workload'[k].id
      PROVE  j = k
  <2>1. j \in 1 .. Len(w) \/ j = Len(w) + 1
    BY <1>5, <1>6
  <2>2. k \in 1 .. Len(w) \/ k = Len(w) + 1
    BY <1>5, <1>6
  <2> QED
    BY <1>1, <1>2, <1>4, <1>5, <1>6, <1>7, <2>1, <2>2 DEF WorkloadFits
<1>8. ASSUME NEW k \in 0 .. Len(workload') - 1
      PROVE  Sweep(Stream(Before(k)').book, workload'[k + 1]) <= MaxSweep
  <2>1. k \in 0 .. Len(w)
    BY <1>5, <1>6
  <2>2. Before(k)' = Before(k) /\ (k = Len(w) => Before(k) = w)
    BY <1>1, <1>4, <1>5, <2>1, Prefix DEF Before
  <2>3. CASE k = Len(w)
    BY <1>1, <1>4, <1>6, <2>2, <2>3
  <2>4. CASE k < Len(w)
    <3>1. k \in 0 .. Len(w) - 1 /\ k + 1 \in 1 .. Len(w)
      BY <1>5, <2>1, <2>4
    <3>2. Sweep(Stream(Before(k)).book, workload[k + 1]) <= MaxSweep
      BY <1>2, <1>4, <3>1 DEF WorkloadFits
    <3>3. workload'[k + 1] = workload[k + 1]
      BY <1>4, <1>6, <3>1
    <3> QED
      BY <2>2, <3>2, <3>3
  <2>5. \A top \in Nat : k \in 0 .. top => k = top \/ k < top
    OBVIOUS
  <2>6. Len(w) \in Nat
    BY <1>5
  <2> QED
    BY <2>1, <2>3, <2>4, <2>5, <2>6
<1>9. WorkloadFits'
  BY <1>6, <1>7, <1>8 DEF WorkloadFits
<1>10. TypeOK'
  <2>1. 0 \in 0 .. Len(w) + 1
    BY <1>5
  <2> QED
    BY <1>1, <1>2, <1>3, <1>6, <2>1 DEF TypeOK
<1>11. Before(0)' = <<>> /\ PlacedBefore(0)' = {}
  BY SubSeqEmpty DEF Before, PlacedBefore
<1>12. BookFits' /\ MovesOn' /\ Answers'
  BY <1>1, <1>3, <1>11, StreamOfNone DEF BookFits, MovesOn, Answers, Position
<1> QED
  BY <1>1, <1>9, <1>10, <1>12 DEF Inv, NoAbort

\* A step that leaves the workload alone leaves what came before a message alone.
LEMMA SameBefore ==
    ASSUME UNCHANGED workload
    PROVE  /\ WorkloadFits' = WorkloadFits
           /\ \A k : Before(k)' = Before(k) /\ PlacedBefore(k)' = PlacedBefore(k)
BY DEF Before, PlacedBefore, WorkloadFits

LEMMA StartStep == ASSUME Inv, StartRun PROVE Inv'
<1>1. pc = "load" /\ pc' = "idle" /\ UNCHANGED <<bridge, batched, workload, delivered, loops, native, pushed>>
  BY DEF StartRun
<1>2. /\ WorkloadFits' = WorkloadFits
      /\ \A k : Before(k)' = Before(k) /\ PlacedBefore(k)' = PlacedBefore(k)
  BY <1>1, SameBefore
<1>3. WorkloadFits /\ TypeOK /\ BookFits /\ MovesOn /\ Answers
  BY <1>1 DEF Inv
<1>4. TypeOK'
  BY <1>1, <1>3 DEF TypeOK
<1>5. Position = delivered /\ Position' = delivered
  BY <1>1 DEF Position
<1>6. BookFits' /\ MovesOn' /\ Answers'
  BY <1>1, <1>2, <1>3, <1>5 DEF BookFits, MovesOn, Answers
<1> QED
  BY <1>1, <1>2, <1>3, <1>4, <1>6 DEF Inv, NoAbort

\* The deepest sweep fits jiang's buffer.
LEMMA SweepFits ==
    ASSUME NEW fills \in Nat, fills <= MaxSweep, bridge \in Bridges, bridge = "jiang"
    PROVE  ~StageOverflows(fills)
<1>1. STAGE_CAP["jiang"] \in Nat /\ MaxSweep \in Nat
  BY BridgeAssumption
<1>2. MaxSweep <= STAGE_CAP["jiang"]
  BY SweepAssumption
<1> QED
  BY <1>1, <1>2 DEF StageOverflows

LEMMA MessageStep == ASSUME Inv, engine_on_message PROVE Inv'
<1>1. PICK m : m = workload[delivered + 1]
  OBVIOUS
<1>2. PICK a : a = OnMessage(native, m)
  OBVIOUS
<1>3. /\ pc = "idle" /\ delivered < Len(workload)
      /\ UNCHANGED <<bridge, batched, workload, loops>>
  BY DEF engine_on_message
<1>4. /\ WorkloadFits' = WorkloadFits
      /\ \A k : Before(k)' = Before(k) /\ PlacedBefore(k)' = PlacedBefore(k)
  BY <1>3, SameBefore
<1>5. WorkloadFits /\ TypeOK /\ BookFits /\ MovesOn /\ Answers
  BY <1>3 DEF Inv
<1>6. Position = delivered /\ delivered \in Nat /\ Len(workload) \in Nat
  BY <1>3, <1>5, LenProperties DEF Position, TypeOK, WorkloadFits
<1>7. /\ pushed = Stream(Before(delivered)).reports /\ native = Stream(Before(delivered)).book
      /\ native \in Seq(Orders(PlacedBefore(delivered)))
  BY <1>3, <1>5, <1>6 DEF Answers, BookFits
<1>8. /\ Stream(Before(delivered + 1)).book = a.book
      /\ Stream(Before(delivered + 1)).reports = pushed \o a.reports
      /\ a.book \in Seq(Orders(PlacedBefore(delivered + 1)))
      /\ a.reports \in Seq(Report) /\ a.fills \in Nat /\ a.fills <= MaxSweep
  BY <1>1, <1>2, <1>3, <1>5, <1>6, <1>7, AnswerNext
<1>9. m \in Message
  BY <1>1, <1>3, <1>5, <1>6, BeforeNext
<1>10. CASE StageOverflows(a.fills)
  <2>1. pc' = "aborted" /\ UNCHANGED <<delivered, native>>
        /\ pushed' = IF m.type = "new" THEN Append(pushed, OrderAck(m)) ELSE pushed
    BY <1>1, <1>2, <1>10 DEF engine_on_message
  <2>2. m.type = "new" => OrderAck(m) \in Report
    BY <1>9, MessageIs DEF OrderAck, Ack, Report
  <2>3. pushed \in Seq(Report)
    BY <1>5 DEF TypeOK
  <2>4. pushed' \in Seq(Report)
    BY <2>1, <2>2, <2>3, AppendProperties
  <2>5. TypeOK'
    BY <1>3, <1>5, <2>1, <2>4 DEF TypeOK
  <2>6. bridge # "jiang"
    BY <1>5, <1>8, <1>10, SweepFits DEF TypeOK
  <2> QED
    BY <1>3, <1>4, <1>5, <2>1, <2>5, <2>6 DEF Inv, NoAbort
<1>11. CASE ~StageOverflows(a.fills)
  <2>1. delivered' = delivered + 1 /\ native' = a.book /\ pushed' = pushed \o a.reports /\ pc' = pc
    BY <1>1, <1>2, <1>11 DEF engine_on_message
  <2>2. pushed' \in Seq(Report)
    <3>1. pushed \in Seq(Report)
      BY <1>5 DEF TypeOK
    <3> QED
      BY <1>8, <2>1, <3>1, ConcatProperties
  <2>3. TypeOK'
    BY <1>3, <1>5, <1>6, <2>1, <2>2 DEF TypeOK
  <2>4. Position' = delivered + 1
    BY <1>3, <2>1 DEF Position
  <2>5. BookFits'
    BY <1>4, <1>8, <2>1, <2>4 DEF BookFits
  <2>6. Answers' /\ MovesOn'
    BY <1>3, <1>4, <1>8, <2>1, <2>4 DEF Answers, MovesOn
  <2> QED
    BY <1>3, <1>4, <1>5, <2>1, <2>3, <2>5, <2>6 DEF Inv, NoAbort
<1> QED
  BY <1>10, <1>11

\* A batch begins where the last one ended.
LEMMA BatchStep == ASSUME Inv, NEW last \in 1 .. MaxMessages, engine_on_batch(last) PROVE Inv'
<1>1. /\ pc = "idle" /\ pc' = "java" /\ last \in delivered + 1 .. Len(workload)
      /\ start' = delivered /\ i' = delivered /\ n' = last /\ out' = <<>>
      /\ UNCHANGED <<bridge, batched, workload, delivered, native, pushed>>
  BY DEF engine_on_batch, Cleared
<1>2. /\ WorkloadFits' = WorkloadFits
      /\ \A k : Before(k)' = Before(k) /\ PlacedBefore(k)' = PlacedBefore(k)
  BY <1>1, SameBefore
<1>3. WorkloadFits /\ TypeOK /\ BookFits /\ MovesOn /\ Answers
  BY <1>1 DEF Inv
<1>4. delivered \in Nat /\ Len(workload) \in Nat /\ pushed \in Seq(Report)
  BY <1>3, LenProperties DEF TypeOK, WorkloadFits
<1>5. TypeOK'
  BY <1>1, <1>3, <1>4 DEF TypeOK
<1>6. Position = delivered /\ Position' = delivered
  BY <1>1 DEF Position
<1>7. pushed \o <<>> = pushed
  BY <1>4, ConcatEmptySeq
<1>8. BookFits' /\ MovesOn' /\ Answers'
  BY <1>1, <1>2, <1>3, <1>6, <1>7 DEF BookFits, MovesOn, Answers
<1> QED
  BY <1>1, <1>2, <1>3, <1>5, <1>8 DEF Inv, NoAbort

\* What a crossing writes, it writes behind what was pushed.
Regroups(a, b, c) == a \o (b \o c) = (a \o b) \o c
LEMMA Regrouping ==
    ASSUME NEW a \in Seq(Report), NEW b \in Seq(Report), NEW c \in Seq(Report)
    PROVE  Regroups(a, b, c)
<1>1. (a \o b) \o c = a \o (b \o c)
  BY ConcatAssociative
<1> QED
  BY <1>1 DEF Regroups

LEMMA JavaStep == ASSUME Inv, onBatch PROVE Inv'
<1>1. PICK m : m = workload[i + 1]
  OBVIOUS
<1>2. PICK a : a = OnMessage(native, m)
  OBVIOUS
<1> DEFINE throws == \/ Len(out) + Len(a.reports) > OUT_CAP
                     \/ bridge = "jiang" /\ StageOverflows(a.fills)
<1>3. /\ pc = "java" /\ i < n /\ HasReserve
      /\ UNCHANGED <<bridge, batched, workload, delivered, start, n, pushed>>
  BY DEF onBatch
<1>4. /\ WorkloadFits' = WorkloadFits
      /\ \A k : Before(k)' = Before(k) /\ PlacedBefore(k)' = PlacedBefore(k)
  BY <1>3, SameBefore
<1>5. WorkloadFits /\ TypeOK /\ BookFits /\ MovesOn /\ Answers
  BY <1>3 DEF Inv
<1>6. /\ Position = i /\ i \in Nat /\ n \in Nat /\ start \in Nat /\ start <= i
      /\ i < Len(workload) /\ Len(workload) \in Nat
  BY <1>3, <1>5, LenProperties DEF Position, TypeOK, WorkloadFits
<1>7. /\ pushed \o out = Stream(Before(i)).reports /\ native = Stream(Before(i)).book
      /\ native \in Seq(Orders(PlacedBefore(i)))
      /\ pushed \in Seq(Report) /\ out \in Seq(Report)
  BY <1>3, <1>5, <1>6 DEF Answers, BookFits, TypeOK
<1>8. /\ Stream(Before(i + 1)).book = a.book
      /\ Stream(Before(i + 1)).reports = Stream(Before(i)).reports \o a.reports
      /\ a.book \in Seq(Orders(PlacedBefore(i + 1)))
      /\ a.reports \in Seq(Report) /\ Len(a.reports) <= a.fills + 2
      /\ a.fills \in Nat /\ a.fills <= MaxSweep
  BY <1>1, <1>2, <1>5, <1>6, <1>7, AnswerNext
<1>9. CASE throws
  <2>1. pc' = "aborted" /\ UNCHANGED <<i, out, native>>
    BY <1>1, <1>2, <1>9 DEF onBatch
  <2>2. TypeOK'
    BY <1>3, <1>5, <2>1 DEF TypeOK
  <2>3. ASSUME bridge = "jiang" PROVE FALSE
    <3>1. bridge \in Bridges
      BY <1>5 DEF TypeOK
    <3>2. ~StageOverflows(a.fills)
      BY <1>8, <2>3, <3>1, SweepFits
    <3>3. PICK used, more : used = Len(out) /\ more = Len(a.reports)
      OBVIOUS
    <3>4. used \in Nat /\ more \in Nat /\ more <= MaxSweep + 2
      <4>1. Len(out) \in Nat /\ Len(a.reports) \in Nat /\ MaxSweep \in Nat
        BY <1>7, <1>8, BridgeAssumption, LenProperties
      <4> QED
        BY <1>8, <3>3, <4>1
    <3>5. used + more > OUT_CAP
      BY <1>9, <3>2, <3>3
    <3>6. /\ STAGE_CAP["jiang"] \in Nat /\ OUT_CAP \in Nat /\ MaxSweep \in Nat
          /\ MaxSweep <= STAGE_CAP["jiang"]
      BY <2>3, <3>1, BridgeAssumption, SweepAssumption
    <3>7. OUT_CAP - used >= STAGE_CAP["jiang"] + 2
      BY <1>3, <2>3, <3>3 DEF HasReserve, Reserve
    <3> QED
      BY <3>4, <3>5, <3>6, <3>7
  <2> QED
    BY <1>3, <1>4, <1>5, <2>1, <2>2, <2>3 DEF Inv, NoAbort
<1>10. CASE ~throws
  <2>1. i' = i + 1 /\ out' = out \o a.reports /\ native' = a.book /\ pc' = pc
    BY <1>1, <1>2, <1>10 DEF onBatch
  <2>2. /\ out \o a.reports \in Seq(Report)
        /\ pushed \o (out \o a.reports) = (pushed \o out) \o a.reports
    <3>1. pushed \in Seq(Report) /\ out \in Seq(Report) /\ a.reports \in Seq(Report)
      BY <1>7, <1>8
    <3>2. out \o a.reports \in Seq(Report)
      BY <3>1, ConcatProperties
    <3>3. Regroups(pushed, out, a.reports)
      BY <3>1, Regrouping
    <3> QED
      BY <3>2, <3>3 DEF Regroups
  <2>3. TypeOK'
    BY <1>3, <1>5, <1>6, <2>1, <2>2 DEF TypeOK
  <2>4. Position' = i + 1
    BY <1>3, <2>1 DEF Position
  <2>5. BookFits'
    BY <1>4, <1>8, <2>1, <2>4 DEF BookFits
  <2>6. MovesOn'
    BY <1>3, <1>6, <2>1 DEF MovesOn
  <2>7. Answers'
    BY <1>3, <1>4, <1>7, <1>8, <2>1, <2>2, <2>4 DEF Answers
  <2> QED
    BY <1>3, <1>4, <1>5, <2>1, <2>3, <2>5, <2>6, <2>7 DEF Inv, NoAbort
<1> QED
  BY <1>9, <1>10

\* The reserve is never more than the buffer, so Java comes back with something.
LEMMA ReturnStep == ASSUME Inv, onBatchReturns PROVE Inv'
<1>1. /\ pc = "java" /\ pc' = "drain" /\ (i = n \/ ~HasReserve)
      /\ UNCHANGED <<bridge, batched, workload, delivered, start, n, i, out, native, pushed>>
  BY DEF onBatchReturns, loops
<1>2. /\ WorkloadFits' = WorkloadFits
      /\ \A k : Before(k)' = Before(k) /\ PlacedBefore(k)' = PlacedBefore(k)
  BY <1>1, SameBefore
<1>3. WorkloadFits /\ TypeOK /\ BookFits /\ MovesOn /\ Answers
  BY <1>1 DEF Inv
<1>4. /\ start \in Nat /\ n \in Nat /\ i \in Nat /\ start <= i /\ start < n
      /\ bridge \in Bridges /\ out \in Seq(Report)
  BY <1>1, <1>3 DEF TypeOK
<1>5. start < i
  <2> SUFFICES ASSUME i = start PROVE FALSE
    BY <1>4
  <2>1. out = <<>> /\ ~HasReserve
    BY <1>1, <1>3, <1>4 DEF MovesOn
  <2>2. Len(out) = 0
    BY <2>1
  <2>3. Reserve \in Nat /\ Reserve <= OUT_CAP /\ OUT_CAP \in Nat
    BY <1>4, BridgeAssumption DEF Reserve
  <2> QED
    BY <2>1, <2>2, <2>3 DEF HasReserve
<1>6. TypeOK'
  BY <1>1, <1>3 DEF TypeOK
<1>7. Position = i /\ Position' = i
  BY <1>1 DEF Position
<1>8. BookFits' /\ MovesOn' /\ Answers'
  BY <1>1, <1>2, <1>3, <1>5, <1>7 DEF BookFits, MovesOn, Answers
<1> QED
  BY <1>1, <1>2, <1>3, <1>6, <1>8 DEF Inv, NoAbort

LEMMA DrainStep == ASSUME Inv, Drain PROVE Inv'
<1>1. /\ pc = "drain" /\ pushed' = pushed \o out
      /\ UNCHANGED <<bridge, batched, workload, n, i, native>>
  BY DEF Drain
<1>2. /\ WorkloadFits' = WorkloadFits
      /\ \A k : Before(k)' = Before(k) /\ PlacedBefore(k)' = PlacedBefore(k)
  BY <1>1, SameBefore
<1>3. WorkloadFits /\ TypeOK /\ BookFits /\ MovesOn /\ Answers
  BY <1>1 DEF Inv
<1>4. /\ start \in Nat /\ n \in Nat /\ i \in Nat /\ start < i /\ i <= n /\ n <= Len(workload)
      /\ Len(workload) \in Nat /\ out \in Seq(Report) /\ pushed \in Seq(Report)
  BY <1>1, <1>3, LenProperties DEF TypeOK, MovesOn, WorkloadFits
<1>5. /\ pushed' = Stream(Before(i)).reports /\ native = Stream(Before(i)).book
      /\ native \in Seq(Orders(PlacedBefore(i)))
  BY <1>1, <1>3 DEF Answers, BookFits, Position
<1>6. pushed' \in Seq(Report)
  BY <1>1, <1>4, ConcatProperties
<1>7. CASE i < n
  <2>1. start' = i /\ out' = <<>> /\ pc' = "java" /\ delivered' = delivered
    BY <1>4, <1>7 DEF Drain, Cleared
  <2>2. TypeOK'
    BY <1>1, <1>3, <1>4, <1>6, <1>7, <2>1 DEF TypeOK
  <2>3. Position' = i
    BY <1>1, <2>1 DEF Position
  <2>4. pushed' \o <<>> = pushed'
    BY <1>6, ConcatEmptySeq
  <2>5. BookFits' /\ MovesOn' /\ Answers'
    BY <1>1, <1>2, <1>5, <2>1, <2>3, <2>4 DEF BookFits, MovesOn, Answers
  <2> QED
    BY <1>1, <1>2, <1>3, <2>1, <2>2, <2>5 DEF Inv, NoAbort
<1>8. CASE i = n
  <2>1. start' = i /\ delivered' = n /\ pc' = "idle"
    BY <1>4, <1>8 DEF Drain
  <2>2. TypeOK'
    BY <1>1, <1>3, <1>4, <1>6, <2>1 DEF TypeOK
  <2>3. Position' = i
    BY <1>8, <2>1 DEF Position
  <2>4. BookFits' /\ MovesOn' /\ Answers'
    BY <1>1, <1>2, <1>5, <2>1, <2>3 DEF BookFits, MovesOn, Answers
  <2> QED
    BY <1>1, <1>2, <1>3, <2>1, <2>2, <2>4 DEF Inv, NoAbort
<1> QED
  BY <1>4, <1>7, <1>8

-----------------------------------------------------------------------------
\* Every step keeps the invariant.
LEMMA Keeps == ASSUME Inv, [Next]_vars PROVE Inv'
<1>1. CASE UNCHANGED vars
  <2>1. UNCHANGED <<bridge, batched, workload, pc, delivered, start, n, i, out, native, pushed>>
    BY <1>1 DEF vars, loops
  <2> QED
    BY <2>1 DEF Inv, WorkloadFits, TypeOK, BookFits, MovesOn, Answers, NoAbort, Position,
                Before, PlacedBefore
<1>2. ASSUME NEW m \in Follow(workload), LoadMessage(m) PROVE Inv'
  BY <1>2, LoadStep
<1>3. CASE StartRun
  BY <1>3, StartStep
<1>4. CASE engine_on_message
  BY <1>4, MessageStep
<1>5. ASSUME NEW last \in 1 .. MaxMessages, engine_on_batch(last) PROVE Inv'
  BY <1>5, BatchStep
<1>6. CASE onBatch
  BY <1>6, JavaStep
<1>7. CASE onBatchReturns
  BY <1>7, ReturnStep
<1>8. CASE Drain
  BY <1>8, DrainStep
<1> QED
  BY <1>1, <1>2, <1>3, <1>4, <1>5, <1>6, <1>7, <1>8 DEF Next

\* A Java engine answers every message once and as the reference does, on both paths
\* and however a batch is cut into crossings (exchange_core_adapter.cpp and its
\* kind), and jiang's buffers are never too small for what one message needs.
THEOREM NothingIsLost == Spec => []NothingLost
<1>1. Inv => NothingLost
  BY DEF Inv, NoAbort, Answers, Before, Position, NothingLost
<1> QED
  BY <1>1, Begins, Keeps, PTL DEF Spec
=============================================================================
