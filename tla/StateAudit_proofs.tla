-------------------------- MODULE StateAudit_proofs --------------------------
(***************************************************************************)
(* The tape of any scenario is legal, and a replay judges the engine under *)
(* test exactly.                                                           *)
(*                                                                         *)
(* The timeline grows one order at a time, and no record of an order is    *)
(* earlier than the last record of the one before: the stable sort leaves  *)
(* it as it is, and the first record of every id is its new order.         *)
(*                                                                         *)
(* Two books are alike when they hold the same orders in the same order,   *)
(* each under an id of its own in either book.  Matching, cancelling and   *)
(* inserting keep them alike (RecordAlike), and alike books answer the     *)
(* queries alike.  The table of order ids keeps the baseline's book alike  *)
(* to the reference book through the replay (BaselineFits); the prebuild   *)
(* pass has made the table large enough for every id (PrebuildEnds).  What *)
(* is left is that probe, snapshot and comparison of an index are made     *)
(* after the same message (Made).                                          *)
(***************************************************************************)
EXTENDS StateAudit, TLAPS, SequenceTheorems, FiniteSetTheorems

-----------------------------------------------------------------------------
(* The timeline.                                                           *)

PlacedOrders == [side : Sides, price : Int, qty : Nat \ {0}]
Records == [ts : Nat, type : {"new", "cancel", "modify"}, side : Sides, ioc : BOOLEAN,
            qty : Nat \ {0}, id : 1 .. count, price : Int]

\* Records of T in the order of their time stamps, which are between first and last.
Rising(e, T, first, last) ==
    /\ e \in Seq(T)
    /\ \A x \in 1 .. Len(e) : first <= e[x].ts /\ e[x].ts <= last
    /\ \A x, y \in 1 .. Len(e) : x <= y => e[x].ts <= e[y].ts

\* The first record is the only one that is a new order.
Starts(e) == /\ Len(e) >= 1 /\ e[1].type = "new"
             /\ \A x \in 2 .. Len(e) : e[x].type # "new"
NoneNew(e) == \A x \in 1 .. Len(e) : e[x].type # "new"

\* The records of a sequence followed by another.
LEMMA Joins ==
    ASSUME NEW T, NEW a \in Seq(T), NEW b \in Seq(T)
    PROVE  /\ a \o b \in Seq(T) /\ Len(a \o b) = Len(a) + Len(b)
           /\ Len(a) \in Nat /\ Len(b) \in Nat
           /\ \A x \in 1 .. Len(a) : (a \o b)[x] = a[x]
           /\ \A x \in 1 .. Len(b) : (a \o b)[Len(a) + x] = b[x]
           /\ \A x \in 1 .. Len(a) + Len(b) :
                 x \in 1 .. Len(a) \/ \E y \in 1 .. Len(b) : x = Len(a) + y
<1>1. /\ a \o b \in Seq(T) /\ Len(a \o b) = Len(a) + Len(b)
      /\ \A x \in 1 .. Len(a) + Len(b) :
            (a \o b)[x] = IF x <= Len(a) THEN a[x] ELSE b[x - Len(a)]
  BY ConcatProperties
<1>2. Len(a) \in Nat /\ Len(b) \in Nat
  BY LenProperties
<1> DEFINE ab == a \o b
           m == Len(a)
           n == Len(b)
<1>3. \A x \in 1 .. m + n : ab[x] = IF x <= m THEN a[x] ELSE b[x - m]
  BY <1>1
<1>4. m \in Nat /\ n \in Nat
  BY <1>2
<1> HIDE DEF ab, m, n
<1>5. \A x \in 1 .. m : ab[x] = a[x]
  BY <1>3, <1>4
<1>6. \A x \in 1 .. n : ab[m + x] = b[x]
  <2> SUFFICES ASSUME NEW x \in 1 .. n PROVE ab[m + x] = b[x]
    OBVIOUS
  <2>1. m + x \in 1 .. m + n /\ ~(m + x <= m) /\ (m + x) - m = x
    BY <1>4
  <2> QED
    BY <1>3, <2>1
<1>7. \A x \in 1 .. m + n : x \in 1 .. m \/ \E y \in 1 .. n : x = m + y
  <2> SUFFICES ASSUME NEW x \in 1 .. m + n, x \notin 1 .. m PROVE \E y \in 1 .. n : x = m + y
    OBVIOUS
  <2>1. x - m \in 1 .. n /\ x = m + (x - m)
    BY <1>4
  <2> QED
    BY <2>1
<1> QED
  BY <1>1, <1>2, <1>5, <1>6, <1>7 DEF ab, m, n

LEMMA RisingJoins ==
    ASSUME NEW T, NEW first \in Int, NEW last \in Int, NEW mid \in Int, NEW next \in Int,
           mid <= next, first <= next, mid <= last,
           \A r \in T : r.ts \in Int,
           NEW a, Rising(a, T, first, mid), NEW b, Rising(b, T, next, last)
    PROVE  Rising(a \o b, T, first, last)
<1> DEFINE ab == a \o b
           m == Len(a)
           n == Len(b)
<1>1. /\ ab \in Seq(T) /\ Len(ab) = m + n /\ m \in Nat /\ n \in Nat
      /\ \A x \in 1 .. m : ab[x] = a[x] /\ a[x] \in T
      /\ \A x \in 1 .. n : ab[m + x] = b[x] /\ b[x] \in T
      /\ \A x \in 1 .. m + n : x \in 1 .. m \/ \E y \in 1 .. n : x = m + y
  BY Joins, ElementOfSeq DEF Rising
<1>2. /\ \A x \in 1 .. m : first <= a[x].ts /\ a[x].ts <= mid
      /\ \A x, y \in 1 .. m : x <= y => a[x].ts <= a[y].ts
      /\ \A x \in 1 .. n : next <= b[x].ts /\ b[x].ts <= last
      /\ \A x, y \in 1 .. n : x <= y => b[x].ts <= b[y].ts
  BY DEF Rising
<1> HIDE DEF ab, m, n
<1>3. /\ \A x \in 1 .. m : ab[x].ts \in Int /\ ab[x].ts <= mid
      /\ \A x \in 1 .. n : ab[m + x].ts \in Int /\ next <= ab[m + x].ts
  BY <1>1, <1>2
<1>4. ASSUME NEW x \in 1 .. m + n PROVE first <= ab[x].ts /\ ab[x].ts <= last
  <2>1. CASE x \in 1 .. m
    BY <1>1, <1>2, <1>3, <2>1
  <2>2. ASSUME NEW y \in 1 .. n, x = m + y PROVE first <= ab[x].ts /\ ab[x].ts <= last
    <3>1. ab[x].ts = b[y].ts /\ ab[x].ts \in Int /\ next <= b[y].ts /\ b[y].ts <= last
      BY <1>1, <1>2, <1>3, <2>2
    <3> QED
      BY <3>1
  <2> QED
    BY <1>1, <2>1, <2>2
<1>5. ASSUME NEW x \in 1 .. m + n, NEW y \in 1 .. m + n, x <= y PROVE ab[x].ts <= ab[y].ts
  <2>1. CASE x \in 1 .. m /\ y \in 1 .. m
    BY <1>1, <1>2, <1>5, <2>1
  <2>2. CASE x \in 1 .. m /\ \E z \in 1 .. n : y = m + z
    BY <1>3, <2>2
  <2>3. CASE x \notin 1 .. m /\ y \in 1 .. m
    BY <1>1, <1>5, <2>3
  <2>4. ASSUME NEW w \in 1 .. n, NEW z \in 1 .. n, x = m + w, y = m + z
        PROVE  ab[x].ts <= ab[y].ts
    <3>1. w <= z
      BY <1>1, <1>5, <2>4
    <3> QED
      BY <1>1, <1>2, <2>4, <3>1
  <2> QED
    BY <1>1, <2>1, <2>2, <2>3, <2>4
<1> QED
  BY <1>1, <1>4, <1>5 DEF Rising, ab

LEMMA StartsJoins ==
    ASSUME NEW T, NEW a \in Seq(T), Starts(a), NEW b \in Seq(T), NoneNew(b)
    PROVE  Starts(a \o b)
<1> DEFINE ab == a \o b
           m == Len(a)
           n == Len(b)
<1>1. /\ Len(ab) = m + n /\ m \in Nat /\ n \in Nat
      /\ \A x \in 1 .. m : ab[x] = a[x]
      /\ \A x \in 1 .. n : ab[m + x] = b[x]
      /\ \A x \in 1 .. m + n : x \in 1 .. m \/ \E y \in 1 .. n : x = m + y
  BY Joins
<1>2. /\ m >= 1 /\ a[1].type = "new" /\ \A x \in 2 .. m : a[x].type # "new"
      /\ \A x \in 1 .. n : b[x].type # "new"
  BY DEF Starts, NoneNew
<1> HIDE DEF ab, m, n
<1>3. m + n >= 1 /\ ab[1].type = "new"
  BY <1>1, <1>2
<1>4. ASSUME NEW x \in 2 .. m + n PROVE ab[x].type # "new"
  <2>1. CASE x \in 1 .. m
    BY <1>1, <1>2, <2>1
  <2>2. ASSUME NEW y \in 1 .. n, x = m + y PROVE ab[x].type # "new"
    BY <1>1, <1>2, <2>2
  <2> QED
    BY <1>1, <2>1, <2>2
<1> QED
  BY <1>1, <1>3, <1>4 DEF Starts, ab

\* A part of a life that does not start it.
LaterPart(e, T, first, last) == Rising(e, T, first, last) /\ NoneNew(e)

LEMMA PartsOfLife ==
    ASSUME NEW T, NEW r \in T, r.ts \in Int
    PROVE  /\ Rising(<<r>>, T, r.ts, r.ts)
           /\ r.type = "new" => Starts(<<r>>)
           /\ r.type # "new" => NoneNew(<<r>>)
           /\ \A t \in Int : LaterPart(<<>>, T, t, t)
<1>1. <<r>> \in Seq(T) /\ Len(<<r>>) = 1 /\ <<r>>[1] = r
  OBVIOUS
<1>2. <<>> \in Seq(T) /\ Len(<<>>) = 0
  BY EmptySeq
<1>3. 1 .. 0 = {} /\ 1 .. 1 = {1} /\ 2 .. 1 = {} /\ r.ts <= r.ts
  OBVIOUS
<1>4. Rising(<<r>>, T, r.ts, r.ts)
  BY <1>1, <1>3 DEF Rising
<1>5. \A t \in Int : LaterPart(<<>>, T, t, t)
  BY <1>2, <1>3 DEF LaterPart, Rising, NoneNew
<1> QED
  BY <1>1, <1>3, <1>4, <1>5 DEF Starts, NoneNew


\* The records of one order.
Life(n, id) == {r \in Records : r.id = id /\ r.side = n.side}

\* The expansion of an order: its new order first, and in the order of time.
LEMMA ExpandedIs ==
    ASSUME NEW n \in PlacedOrders, NEW id \in 1 .. count, NEW at \in Nat, NEW c \in Lifecycles,
           NEW e, e = Expanded(n, id, at, c)
    PROVE  /\ e \in Seq(Life(n, id)) /\ Starts(e)
           /\ Rising(e, Life(n, id), at, Last(e).ts)
<1> DEFINE T == Life(n, id)
           after == IF c.modified THEN at + 1 ELSE at
           mprice == IF ~c.reprice THEN n.price
                     ELSE IF n.side = "buy" THEN n.price + 1 ELSE n.price - 1
           gone == c.ttl + after
           Modified(ts) == Msg(ts, "modify", n.side, FALSE, n.qty + 1, id, mprice)
           Cancelled(j) == Msg(gone + j - 1, "cancel", n.side, FALSE, n.qty, id, n.price)
           started == Msg(at, "new", n.side, c.ioc, n.qty, id, n.price)
           a == <<started>>
           b == IF c.modified THEN <<Modified(at + 1)>> ELSE <<>>
           d == [j \in 1 .. c.cancels |-> Cancelled(j)]
           f == IF c.stale THEN <<Modified(gone + c.cancels)>> ELSE <<>>
           done == IF c.cancels = 0 THEN after ELSE gone + c.cancels - 1
           end == IF c.stale THEN gone + c.cancels ELSE done
<1>1. e = a \o b \o d \o f
  BY DEF Expanded
<1>2. /\ c.ioc \in BOOLEAN /\ c.modified \in BOOLEAN /\ c.reprice \in BOOLEAN /\ c.stale \in BOOLEAN
      /\ c.ttl \in Nat /\ c.cancels \in 0 .. 2
      /\ c.stale => c.modified /\ c.cancels > 0
  BY LifeAssumption
<1>3. n.side \in Sides /\ n.price \in Int /\ n.qty \in Nat \ {0} /\ n.qty + 1 \in Nat \ {0} /\ mprice \in Int
  BY DEF PlacedOrders
<1>4. after \in Nat /\ gone \in Nat /\ at <= after /\ after <= gone /\ done \in Nat /\ after <= done
      /\ end \in Nat /\ done <= end /\ at <= done /\ at <= end
  BY <1>2
<1>5. /\ \A ts \in Nat : Modified(ts) \in T /\ Modified(ts).ts = ts /\ Modified(ts).type # "new"
      /\ started \in T /\ started.ts = at /\ started.type = "new"
  BY <1>2, <1>3 DEF Life, Records, Msg
<1>6. ASSUME NEW j \in 1 .. c.cancels
      PROVE  Cancelled(j) \in T /\ Cancelled(j).ts = gone + j - 1 /\ Cancelled(j).type # "new"
  <2>1. gone + j - 1 \in Nat
    BY <1>2, <1>4
  <2> QED
    BY <1>3, <2>1 DEF Life, Records, Msg
<1>7. \A r \in T : r.ts \in Int
  BY DEF Life, Records
<1> HIDE DEF Modified, Cancelled, started, T, mprice
<1>8. Rising(a, T, at, at) /\ Starts(a)
  BY <1>5, <1>7, PartsOfLife
<1>9. LaterPart(b, T, after, after)
  <2>1. Modified(at + 1) \in T /\ Modified(at + 1).ts = at + 1 /\ Modified(at + 1).type # "new"
    <3>1. at + 1 \in Nat
      OBVIOUS
    <3> QED
      BY <1>5, <3>1
  <2>2. LaterPart(<<Modified(at + 1)>>, T, at + 1, at + 1) /\ LaterPart(<<>>, T, after, after)
    BY <1>4, <1>7, <2>1, PartsOfLife DEF LaterPart
  <2> QED
    BY <2>2
<1>10. c.cancels # 0 => LaterPart(d, T, gone, done)
  <2> SUFFICES ASSUME c.cancels # 0 PROVE LaterPart(d, T, gone, done)
    OBVIOUS
  <2>1. d \in Seq(T) /\ Len(d) = c.cancels /\ \A j \in 1 .. c.cancels : d[j] = Cancelled(j)
    <3>1. c.cancels \in Nat /\ \A j \in 1 .. c.cancels : Cancelled(j) \in T
      BY <1>2, <1>6
    <3> QED
      BY <3>1
  <2>2. \A j \in 1 .. c.cancels : d[j].ts = gone + j - 1 /\ d[j].type # "new"
    BY <1>6, <2>1
  <2> HIDE DEF d
  <2>3. \A x \in 1 .. c.cancels : gone <= d[x].ts /\ d[x].ts <= done
    BY <1>2, <1>4, <2>2
  <2>4. \A x, y \in 1 .. c.cancels : x <= y => d[x].ts <= d[y].ts
    BY <1>2, <1>4, <2>2
  <2> QED
    BY <2>1, <2>2, <2>3, <2>4 DEF LaterPart, Rising, NoneNew
<1>11. c.cancels = 0 => d = <<>>
  OBVIOUS
<1>12. LaterPart(f, T, end, end)
  <2> DEFINE ts == gone + c.cancels
  <2>1. ts \in Nat /\ Modified(ts) \in T /\ Modified(ts).ts = ts /\ Modified(ts).type # "new"
    <3>1. gone + c.cancels \in Nat
      BY <1>2, <1>4
    <3> QED
      BY <1>5, <3>1
  <2>2. LaterPart(<<Modified(ts)>>, T, ts, ts) /\ LaterPart(<<>>, T, end, end)
    BY <1>4, <1>7, <2>1, PartsOfLife DEF LaterPart
  <2> QED
    BY <2>2
<1> HIDE DEF after, gone, a, b, d, f
<1> DEFINE ab == a \o b
           abd == ab \o d
<1>13. Rising(ab, T, at, after) /\ Starts(ab) /\ ab \in Seq(T)
  <2>1. Rising(ab, T, at, after)
    BY <1>4, <1>7, <1>8, <1>9, RisingJoins DEF LaterPart
  <2> QED
    BY <1>8, <1>9, <2>1, StartsJoins DEF LaterPart, Rising
<1> HIDE DEF ab
<1>14. Rising(abd, T, at, done) /\ Starts(abd) /\ abd \in Seq(T)
  <2>1. CASE c.cancels = 0
    BY <1>11, <1>13, <2>1, ConcatEmptySeq
  <2>2. CASE c.cancels # 0
    <3>1. after <= gone /\ at <= gone /\ done \in Int /\ gone \in Int /\ after \in Int /\ after <= done
      BY <1>4
    <3>2. Rising(d, T, gone, done) /\ NoneNew(d)
      BY <1>10, <2>2 DEF LaterPart
    <3>3. Rising(abd, T, at, done)
      BY <1>7, <1>13, <3>1, <3>2, RisingJoins
    <3> QED
      BY <1>13, <3>2, <3>3, StartsJoins DEF Rising
  <2> QED
    BY <2>1, <2>2
<1> HIDE DEF abd
<1>15. Rising(abd \o f, T, at, end) /\ Starts(abd \o f)
  <2>1. done \in Int /\ end \in Int /\ done <= end /\ at <= end
    BY <1>4
  <2> HIDE DEF done, end
  <2>2. Rising(abd \o f, T, at, end)
    BY <1>7, <1>12, <1>14, <2>1, RisingJoins DEF LaterPart
  <2> QED
    BY <1>12, <1>14, <2>2, StartsJoins DEF LaterPart, Rising
<1>16. e = abd \o f
  BY <1>1 DEF abd, ab
<1>17. e \in Seq(T) /\ Starts(e) /\ Rising(e, T, at, end)
  BY <1>15, <1>16 DEF Rising
<1>18. Rising(e, T, at, Last(e).ts)
  <2>1. Len(e) \in Nat /\ Len(e) \in 1 .. Len(e) /\ Last(e) = e[Len(e)]
    BY <1>17, LenProperties DEF Starts, Last
  <2>2. \A x \in 1 .. Len(e) : x <= Len(e)
    BY <2>1
  <2> QED
    BY <1>17, <2>1, <2>2 DEF Rising
<1> QED
  BY <1>17, <1>18 DEF T


-----------------------------------------------------------------------------
(* The generator.                                                          *)

PlacedIds == {order[p] : p \in 1 .. k}

\* The records are of ids of a set, each of the side of its order.
Owned(t, ids) == \A x \in 1 .. Len(t) : t[x].side = Side(t[x].id) /\ t[x].id \in ids

\* A new order is the first record of its id, and every other record comes after it.
FirstOfId(t, x) == \A y \in 1 .. x - 1 : t[y].id # t[x].id
HasStarted(t, x) == \E y \in 1 .. x - 1 : t[y].type = "new" /\ t[y].id = t[x].id
Begun(t) == \A x \in 1 .. Len(t) : IF t[x].type = "new" THEN FirstOfId(t, x) ELSE HasStarted(t, x)

OrdersFit == /\ news \in [1 .. count -> PlacedOrders]
             /\ \A x \in 1 .. count : news[x].side = Side(x)
             /\ order \in [1 .. count -> 1 .. count]
             /\ \A p, q \in 1 .. count : p # q => order[p] # order[q]
             /\ k \in 0 .. count /\ now \in Nat
TimelineFits == Rising(tl, Records, 0, now) /\ Owned(tl, PlacedIds) /\ Begun(tl)
WireFits == wire = <<>> \/ (wire = tl /\ k = count)
GenInv == OrdersFit /\ TimelineFits /\ WireFits

LEMMA GeneratorBegins == GeneratorInit => GenInv
<1> SUFFICES ASSUME GeneratorInit PROVE GenInv
  OBVIOUS
<1>1. count \in Nat /\ Cardinality(1 .. count) = count
  BY CountAssumption, FS_Interval
<1>2. order \in [1 .. count -> 1 .. count] /\ \A p, q \in 1 .. count : p # q => order[p] # order[q]
  BY <1>1 DEF GeneratorInit, SetToSeqs
<1>3. PICK at \in [1 .. count -> Placements] :
         news = [x \in 1 .. count |-> [side |-> Side(x), price |-> at[x].price, qty |-> at[x].qty]]
  BY DEF GeneratorInit
<1>4. ASSUME NEW x \in 1 .. count PROVE news[x] \in PlacedOrders /\ news[x].side = Side(x)
  <2>1. at[x] \in [price : Int, qty : Nat \ {0}]
    BY LifeAssumption
  <2>2. news[x] = [side |-> Side(x), price |-> at[x].price, qty |-> at[x].qty] /\ Side(x) \in Sides
    BY <1>3 DEF Side, Sides
  <2> QED
    BY <2>1, <2>2 DEF PlacedOrders
<1>5. news \in [1 .. count -> PlacedOrders]
  BY <1>3, <1>4
<1>6. k = 0 /\ now = 0 /\ tl = <<>> /\ wire = <<>> /\ Len(tl) = 0 /\ tl \in Seq(Records)
  BY EmptySeq DEF GeneratorInit
<1>7. OrdersFit
  BY <1>1, <1>2, <1>4, <1>5, <1>6 DEF OrdersFit
<1>8. TimelineFits
  BY <1>6 DEF TimelineFits, Rising, Owned, Begun
<1> QED
  BY <1>6, <1>7, <1>8 DEF GenInv, WireFits

LEMMA ExpandKeeps == ASSUME GenInv, NEW c \in Lifecycles, Expand(c) PROVE GenInv'
<1> DEFINE id == order[k + 1]
           n == news[id]
           lines == Expanded(n, id, now, c)
           m == Len(tl)
           l == Len(lines)
<1>1. /\ k < count /\ tl' = tl \o lines /\ now' = Last(lines).ts + 1 /\ k' = k + 1
      /\ news' = news /\ order' = order /\ wire' = wire
  BY DEF Expand
<1>2. /\ count \in Nat /\ k \in 0 .. count /\ k + 1 \in 1 .. count /\ id \in 1 .. count
      /\ n \in PlacedOrders /\ n.side = Side(id) /\ now \in Nat
  <2>1. /\ count \in Nat /\ k \in 0 .. count /\ now \in Nat
        /\ order \in [1 .. count -> 1 .. count] /\ news \in [1 .. count -> PlacedOrders]
        /\ \A x \in 1 .. count : news[x].side = Side(x)
    BY CountAssumption DEF GenInv, OrdersFit
  <2>2. k + 1 \in 1 .. count
    BY <1>1, <2>1
  <2>3. id \in 1 .. count
    BY <2>1, <2>2
  <2> HIDE DEF id
  <2> QED
    BY <2>1, <2>2, <2>3
<1>3. wire = <<>> /\ wire' = <<>>
  BY <1>1, <1>2 DEF GenInv, WireFits
<1>4. lines \in Seq(Life(n, id)) /\ Starts(lines) /\ Rising(lines, Life(n, id), now, Last(lines).ts)
  BY <1>2, ExpandedIs
<1>5. lines \in Seq(Records) /\ Rising(lines, Records, now, Last(lines).ts)
  <2>1. Life(n, id) \subseteq Records
    BY DEF Life
  <2>2. lines \in Seq(Records)
    BY <1>4, <2>1, SeqMonotonic
  <2> QED
    BY <1>4, <2>2 DEF Rising
<1>6. l \in Nat /\ 1 <= l /\ lines[1].type = "new" /\ \A y \in 2 .. l : lines[y].type # "new"
  BY <1>5, LenProperties, <1>4 DEF Starts
<1>7. \A y \in 1 .. l : lines[y].id = id /\ lines[y].side = Side(id)
  BY <1>2, <1>4, ElementOfSeq DEF Life
<1>8. Last(lines) = lines[l] /\ Last(lines).ts \in Nat /\ now <= Last(lines).ts
  <2>1. l \in 1 .. l
    BY <1>6
  <2>2. lines[l] \in Records /\ now <= lines[l].ts
    BY <1>5, <2>1, ElementOfSeq DEF Rising
  <2> QED
    BY <2>2 DEF Last, Records
<1> HIDE DEF id, n, lines
<1> DEFINE long == tl \o lines
<1>9. tl \in Seq(Records) /\ Owned(tl, PlacedIds) /\ Begun(tl) /\ Rising(tl, Records, 0, now)
  BY DEF GenInv, TimelineFits, Rising
<1>10. /\ Len(long) = m + l /\ m \in Nat /\ l \in Nat
       /\ \A x \in 1 .. m : long[x] = tl[x]
       /\ \A x \in 1 .. l : long[m + x] = lines[x]
       /\ \A x \in 1 .. m + l : x \in 1 .. m \/ \E y \in 1 .. l : x = m + y
  BY <1>5, <1>9, Joins
<1>11. Rising(long, Records, 0, now')
  <2>1. \A r \in Records : r.ts \in Int
    BY DEF Records
  <2>2. Rising(long, Records, 0, Last(lines).ts)
    BY <1>2, <1>5, <1>8, <1>9, <2>1, RisingJoins
  <2>3. now' = Last(lines).ts + 1 /\ Last(lines).ts \in Nat
    BY <1>1, <1>8
  <2> HIDE DEF long
  <2>4. \A x \in 1 .. Len(long) : long[x].ts \in Int
    BY <2>1, <2>2, ElementOfSeq DEF Rising
  <2>5. \A x \in 1 .. Len(long) : long[x].ts <= now'
    BY <2>2, <2>3, <2>4 DEF Rising
  <2> QED
    BY <2>2, <2>5 DEF Rising
<1>12. PlacedIds' = PlacedIds \cup {id} /\ id \notin PlacedIds
  <2>1. \A p \in 1 .. k + 1 : p \in 1 .. k \/ p = k + 1
    BY <1>2
  <2>2. \A p \in 1 .. k : p \in 1 .. count /\ p # k + 1
    BY <1>2
  <2>3. id \notin PlacedIds
    BY <1>2, <2>2 DEF PlacedIds, id, GenInv, OrdersFit
  <2>4. 1 .. k \subseteq 1 .. k + 1 /\ k + 1 \in 1 .. k + 1
    BY <1>2
  <2>5. PlacedIds' = {order[p] : p \in 1 .. k + 1}
    BY <1>1 DEF PlacedIds
  <2> QED
    BY <2>1, <2>3, <2>4, <2>5 DEF PlacedIds, id
<1> HIDE DEF m, l, long
<1>13. Owned(long, PlacedIds')
  <2> SUFFICES ASSUME NEW x \in 1 .. m + l
               PROVE  long[x].side = Side(long[x].id) /\ long[x].id \in PlacedIds'
    BY <1>10 DEF Owned
  <2>1. CASE x \in 1 .. m
    BY <1>9, <1>10, <1>12, <2>1 DEF Owned, m
  <2>2. ASSUME NEW y \in 1 .. l, x = m + y
        PROVE  long[x].side = Side(long[x].id) /\ long[x].id \in PlacedIds'
    BY <1>7, <1>10, <1>12, <2>2
  <2> QED
    BY <1>10, <2>1, <2>2
<1>14. Begun(long)
  <2> SUFFICES ASSUME NEW x \in 1 .. m + l
               PROVE  IF long[x].type = "new" THEN FirstOfId(long, x) ELSE HasStarted(long, x)
    BY <1>10 DEF Begun
  <2>1. CASE x \in 1 .. m
    <3>1. \A y \in 1 .. x - 1 : y \in 1 .. m
      BY <1>10, <2>1
    <3>2. /\ long[x] = tl[x] /\ \A y \in 1 .. x - 1 : long[y] = tl[y]
          /\ IF tl[x].type = "new" THEN FirstOfId(tl, x) ELSE HasStarted(tl, x)
      BY <1>9, <1>10, <2>1, <3>1 DEF Begun, m
    <3> QED
      BY <3>2 DEF FirstOfId, HasStarted
  <2>2. ASSUME NEW y \in 1 .. l, x = m + y
        PROVE  IF long[x].type = "new" THEN FirstOfId(long, x) ELSE HasStarted(long, x)
    <3>1. long[x] = lines[y] /\ lines[y].id = id
      BY <1>7, <1>10, <2>2
    <3>2. CASE y = 1
      <4>1. lines[y].type = "new" /\ \A z \in 1 .. x - 1 : z \in 1 .. m
        BY <1>6, <1>10, <2>2, <3>2
      <4>2. \A z \in 1 .. m : long[z].id \in PlacedIds
        BY <1>9, <1>10 DEF Owned, m
      <4> QED
        BY <1>12, <3>1, <4>1, <4>2 DEF FirstOfId
    <3>3. CASE y # 1
      <4>1. lines[y].type # "new" /\ m + 1 \in 1 .. x - 1 /\ 1 \in 1 .. l
        BY <1>6, <1>10, <2>2, <3>3 DEF l
      <4>2. long[m + 1] = lines[1] /\ lines[1].type = "new" /\ lines[1].id = id
        BY <1>6, <1>7, <1>10, <4>1
      <4> QED
        BY <3>1, <4>1, <4>2 DEF HasStarted
    <3> QED
      BY <3>2, <3>3
  <2> QED
    BY <1>10, <2>1, <2>2
<1>15. tl' = long
  BY <1>1 DEF long
<1>16. TimelineFits'
  BY <1>11, <1>13, <1>14, <1>15 DEF TimelineFits, Rising, Owned, Begun, FirstOfId, HasStarted
<1>17. OrdersFit'
  <2>1. k' \in 0 .. count /\ now' \in Nat
    BY <1>1, <1>2, <1>8
  <2> QED
    BY <1>1, <2>1 DEF OrdersFit, GenInv
<1> QED
  BY <1>3, <1>16, <1>17 DEF GenInv, WireFits


\* The stable sort finds the timeline in order and leaves it so.
LEMMA SortKeeps == ASSUME GenInv, write_binary PROVE wire' = tl /\ UNCHANGED <<news, order, k, now, tl>> /\ k = count
<1> DEFINE m == Len(tl)
<1>1. /\ tl \in Seq(Records) /\ m \in Nat /\ DOMAIN tl = 1 .. m
      /\ \A x, y \in 1 .. m : x <= y => tl[x].ts <= tl[y].ts
      /\ \A x \in 1 .. m : tl[x] \in Records /\ tl[x].ts \in Nat
  <2>1. tl \in Seq(Records) /\ \A x, y \in 1 .. m : x <= y => tl[x].ts <= tl[y].ts
    BY DEF GenInv, TimelineFits, Rising
  <2>2. \A x \in 1 .. m : tl[x] \in Records
    BY <2>1, ElementOfSeq
  <2>3. \A r \in Records : r.ts \in Nat
    BY DEF Records
  <2> QED
    BY <2>1, <2>2, <2>3, LenProperties
<1> HIDE DEF m
<1>2. \A x, y \in 1 .. m : Earlier(x, y) <=> x < y
  <2> SUFFICES ASSUME NEW x \in 1 .. m, NEW y \in 1 .. m PROVE Earlier(x, y) <=> x < y
    OBVIOUS
  <2>1. /\ x <= y => tl[x].ts <= tl[y].ts
        /\ y <= x => tl[y].ts <= tl[x].ts
        /\ tl[x].ts \in Nat /\ tl[y].ts \in Nat
    BY <1>1
  <2> QED
    BY <1>1, <2>1 DEF Earlier
<1> DEFINE before(x) == {j \in DOMAIN tl : Earlier(j, x)}
<1>3. ASSUME NEW x \in 1 .. m PROVE Cardinality(before(x)) = x - 1
  <2>1. before(x) = 1 .. x - 1
    BY <1>1, <1>2
  <2>2. 1 \in Int /\ x - 1 \in Int /\ (1 > x - 1 => x - 1 = 0) /\ (x - 1) - 1 + 1 = x - 1
    BY <1>1
  <2>3. Cardinality(1 .. x - 1) = x - 1
    BY <2>2, FS_Interval
  <2> QED
    BY <2>1, <2>3
<1>4. ASSUME NEW r \in 1 .. m
      PROVE  (CHOOSE x \in DOMAIN tl : Cardinality({j \in DOMAIN tl : Earlier(j, x)}) = r - 1) = r
  <2>1. \A x \in 1 .. m : Cardinality({j \in DOMAIN tl : Earlier(j, x)}) = x - 1
    BY <1>3
  <2>2. \A x \in 1 .. m : x - 1 = r - 1 <=> x = r
    BY <1>1
  <2> QED
    BY <1>1, <2>1, <2>2
<1>5. wire' = [r \in 1 .. m |->
                 tl[CHOOSE x \in DOMAIN tl : Cardinality({j \in DOMAIN tl : Earlier(j, x)}) = r - 1]]
  BY <1>1 DEF write_binary
<1>6. \A r \in 1 .. m : wire'[r] = tl[r]
  BY <1>4, <1>5
<1>7. wire' = [r \in 1 .. m |-> tl[r]]
  BY <1>5, <1>6
<1>8. tl = [r \in 1 .. m |-> tl[r]]
  BY <1>1
<1> QED
  BY <1>7, <1>8 DEF write_binary

LEMMA GeneratorKeeps ==
    ASSUME GenInv,
           (\E c \in Lifecycles : Expand(c)) \/ write_binary \/ UNCHANGED generator
    PROVE  GenInv'
<1>1. ASSUME NEW c \in Lifecycles, Expand(c) PROVE GenInv'
  BY <1>1, ExpandKeeps
<1>2. CASE write_binary
  <2>1. wire' = tl /\ UNCHANGED <<news, order, k, now, tl>> /\ k = count
    BY <1>2, SortKeeps
  <2>2. OrdersFit' /\ WireFits'
    BY <2>1 DEF GenInv, OrdersFit, WireFits
  <2>3. TimelineFits'
    BY <2>1 DEF GenInv, TimelineFits, Owned, Begun, PlacedIds, FirstOfId, HasStarted, Rising
  <2> QED
    BY <2>2, <2>3 DEF GenInv
<1>3. CASE UNCHANGED generator
  BY <1>3 DEF generator, GenInv, OrdersFit, TimelineFits, WireFits, Owned, Begun, PlacedIds,
              FirstOfId, HasStarted, Rising
<1> QED
  BY <1>1, <1>2, <1>3

\* What the harness reads from the file.
WireLegal == /\ wire \in Seq(Records) /\ Begun(wire)
             /\ \A x \in 1 .. Len(wire) : wire[x].side = Side(wire[x].id)
LEMMA WireIsLegal == ASSUME GenInv PROVE WireLegal
<1>1. tl \in Seq(Records) /\ Begun(tl) /\ \A x \in 1 .. Len(tl) : tl[x].side = Side(tl[x].id)
  BY DEF GenInv, TimelineFits, Rising, Owned
<1>2. <<>> \in Seq(Records) /\ Len(<<>>) = 0
  BY EmptySeq
<1>3. CASE wire = <<>>
  BY <1>2, <1>3 DEF WireLegal, Begun
<1>4. CASE wire = tl
  BY <1>1, <1>4 DEF WireLegal
<1> QED
  BY <1>3, <1>4 DEF GenInv, WireFits

LEMMA GeneratorHolds == Spec => []GenInv
<1>1. Init => GenInv
  BY GeneratorBegins DEF Init
<1>2. GenInv /\ [Next]_vars => GenInv'
  <2> SUFFICES ASSUME GenInv, [Next]_vars PROVE GenInv'
    OBVIOUS
  <2>1. (\E c \in Lifecycles : Expand(c)) \/ write_binary \/ UNCHANGED generator
    BY DEF Next, vars, Generate, StartRun, Deliver, NoAudit, StartAudit, prebuild_msg, StartReplay,
           Replay, Judge
  <2> QED
    BY <2>1, GeneratorKeeps
<1> QED
  BY <1>1, <1>2, PTL DEF Spec


-----------------------------------------------------------------------------
(* Two books that hold the same orders under different ids.                *)

Parts == INSTANCE FoldFacts WITH op <- Joined
Matching == INSTANCE FoldFacts WITH op <- Take

Orders == [oid : Nat, side : Sides, price : Int, qty : Nat]

\* P has the ids of one order in the two books, and its side.
Twins(P, x, y) == /\ x.side = y.side /\ x.price = y.price /\ x.qty = y.qty
                  /\ <<x.oid, y.oid, y.side>> \in P
Alike(a, b, P) == /\ a \in Seq(Orders) /\ b \in Seq(Orders) /\ Len(a) = Len(b)
                  /\ \A x \in 1 .. Len(a) : Twins(P, a[x], b[x])

LEMMA AlikeIs ==
    ASSUME NEW P, NEW a, NEW b, Alike(a, b, P)
    PROVE  /\ Len(a) \in Nat /\ Len(b) = Len(a) /\ DOMAIN a = 1 .. Len(a) /\ DOMAIN b = 1 .. Len(a)
           /\ \A x \in 1 .. Len(a) : a[x] \in Orders /\ b[x] \in Orders /\ Twins(P, a[x], b[x])
<1>1. a \in Seq(Orders) /\ b \in Seq(Orders) /\ Len(a) = Len(b)
      /\ \A x \in 1 .. Len(a) : Twins(P, a[x], b[x])
  BY DEF Alike
<1>2. \A x \in 1 .. Len(a) : a[x] \in Orders
  BY <1>1, ElementOfSeq
<1>3. \A x \in 1 .. Len(b) : b[x] \in Orders
  BY <1>1, ElementOfSeq
<1> QED
  BY <1>1, <1>2, <1>3, LenProperties

LEMMA AlikeAppend ==
    ASSUME NEW P, NEW a, NEW b, Alike(a, b, P), NEW x \in Orders, NEW y \in Orders, Twins(P, x, y)
    PROVE  Alike(Append(a, x), Append(b, y), P)
<1> DEFINE m == Len(a)
           c == Append(a, x)
           d == Append(b, y)
<1>1. /\ m \in Nat /\ Len(b) = m /\ a \in Seq(Orders) /\ b \in Seq(Orders)
      /\ \A l \in 1 .. m : Twins(P, a[l], b[l])
  BY AlikeIs DEF Alike
<1>2. /\ c \in Seq(Orders) /\ Len(c) = m + 1 /\ c[m + 1] = x /\ \A l \in 1 .. m : c[l] = a[l]
  BY <1>1, AppendProperties
<1>3. /\ d \in Seq(Orders) /\ Len(d) = m + 1 /\ d[m + 1] = y /\ \A l \in 1 .. m : d[l] = b[l]
  BY <1>1, AppendProperties
<1> HIDE DEF m, c, d
<1>4. \A l \in 1 .. m + 1 : l \in 1 .. m \/ l = m + 1
  BY <1>1
<1>5. \A l \in 1 .. m + 1 : Twins(P, c[l], d[l])
  BY <1>1, <1>2, <1>3, <1>4
<1> QED
  BY <1>2, <1>3, <1>5 DEF Alike, c, d

\* Alike books as one sequence of pairs.
Pairs(P) == {w \in Orders \X Orders : Twins(P, w[1], w[2])}
Firsts(z) == [x \in DOMAIN z |-> z[x][1]]
Seconds(z) == [x \in DOMAIN z |-> z[x][2]]

LEMMA PairsNext ==
    ASSUME NEW P, NEW z \in Seq(Pairs(P)), NEW w \in Pairs(P)
    PROVE  /\ Firsts(z) \in Seq(Orders) /\ Seconds(z) \in Seq(Orders)
           /\ Firsts(Append(z, w)) = Append(Firsts(z), w[1])
           /\ Seconds(Append(z, w)) = Append(Seconds(z), w[2])
<1> DEFINE m == Len(z)
           long == Append(z, w)
<1>1. /\ m \in Nat /\ DOMAIN z = 1 .. m /\ \A x \in 1 .. m : z[x] \in Pairs(P)
      /\ long \in Seq(Pairs(P)) /\ DOMAIN long = 1 .. m + 1 /\ Len(long) = m + 1
      /\ long[m + 1] = w /\ \A x \in 1 .. m : long[x] = z[x]
  BY LenProperties, ElementOfSeq, AppendProperties
<1>2. \A v \in Pairs(P) : v[1] \in Orders /\ v[2] \in Orders
  BY DEF Pairs
<1> HIDE DEF m, long
<1>3. /\ Firsts(z) \in Seq(Orders) /\ Len(Firsts(z)) = m /\ \A x \in 1 .. m : Firsts(z)[x] = z[x][1]
      /\ Seconds(z) \in Seq(Orders) /\ Len(Seconds(z)) = m /\ \A x \in 1 .. m : Seconds(z)[x] = z[x][2]
  BY <1>1, <1>2 DEF Firsts, Seconds
<1>4. \A x \in 1 .. m + 1 : long[x] \in Pairs(P) /\ (x \in 1 .. m \/ x = m + 1)
  BY <1>1, ElementOfSeq
<1>5. /\ Firsts(long) \in Seq(Orders) /\ Len(Firsts(long)) = m + 1
      /\ \A x \in 1 .. m + 1 : Firsts(long)[x] = long[x][1]
      /\ Seconds(long) \in Seq(Orders) /\ Len(Seconds(long)) = m + 1
      /\ \A x \in 1 .. m + 1 : Seconds(long)[x] = long[x][2]
  BY <1>1, <1>2, <1>4 DEF Firsts, Seconds
<1> DEFINE f == Append(Firsts(z), w[1])
           g == Append(Seconds(z), w[2])
<1>6. /\ f \in Seq(Orders) /\ Len(f) = m + 1 /\ f[m + 1] = w[1]
      /\ \A x \in 1 .. m : f[x] = z[x][1]
  BY <1>2, <1>3, AppendProperties
<1>7. /\ g \in Seq(Orders) /\ Len(g) = m + 1 /\ g[m + 1] = w[2]
      /\ \A x \in 1 .. m : g[x] = z[x][2]
  BY <1>2, <1>3, AppendProperties
<1> HIDE DEF f, g
<1>8. \A x \in 1 .. m + 1 : Firsts(long)[x] = f[x] /\ Seconds(long)[x] = g[x]
  <2>1. /\ long[m + 1] = w /\ \A x \in 1 .. m : long[x] = z[x]
        /\ \A x \in 1 .. m + 1 : x \in 1 .. m \/ x = m + 1
    BY <1>1, <1>4
  <2> QED
    BY ONLY <1>5, <1>6, <1>7, <2>1
<1>9. Firsts(long) = f /\ Seconds(long) = g
  BY <1>5, <1>6, <1>7, <1>8, SeqEqual
<1> QED
  BY <1>3, <1>9 DEF long, f, g

LEMMA PairsExist ==
    ASSUME NEW P, NEW a, NEW b, Alike(a, b, P)
    PROVE  \E z \in Seq(Pairs(P)) : Firsts(z) = a /\ Seconds(z) = b
<1> DEFINE z == [x \in 1 .. Len(a) |-> <<a[x], b[x]>>]
<1>1. /\ Len(a) \in Nat /\ Len(b) = Len(a) /\ DOMAIN a = 1 .. Len(a) /\ DOMAIN b = 1 .. Len(a)
      /\ \A x \in 1 .. Len(a) : a[x] \in Orders /\ b[x] \in Orders /\ Twins(P, a[x], b[x])
  BY AlikeIs
<1>2. \A x \in 1 .. Len(a) : <<a[x], b[x]>> \in Pairs(P)
  BY <1>1 DEF Pairs
<1>3. z \in Seq(Pairs(P)) /\ DOMAIN z = 1 .. Len(a)
      /\ \A x \in 1 .. Len(a) : z[x][1] = a[x] /\ z[x][2] = b[x]
  BY <1>1, <1>2
<1> HIDE DEF z
<1>4. Firsts(z) = [x \in 1 .. Len(a) |-> a[x]] /\ Seconds(z) = [x \in 1 .. Len(a) |-> b[x]]
  BY <1>3 DEF Firsts, Seconds
<1>5. a = [x \in 1 .. Len(a) |-> a[x]] /\ b = [x \in 1 .. Len(a) |-> b[x]]
  <2>1. a \in Seq(Orders) /\ b \in Seq(Orders)
    BY DEF Alike
  <2> QED
    BY <1>1, <2>1
<1> QED
  BY <1>3, <1>4, <1>5

\* Filters.  The prover cannot take the condition as an operator, so the lemmas are
\* about the orders of a set T.
Part(o, T) == IF o \in T THEN <<o>> ELSE <<>>
PartsOf(book, T) == [j \in DOMAIN book |-> Part(book[j], T)]
Only(book, T) == FoldLeft(Joined, <<>>, PartsOf(book, T))

\* It is the fold the facts are about.
LEMMA OnlyIs ==
    ASSUME NEW book, NEW T PROVE Only(book, T) = Parts!Left(<<>>, PartsOf(book, T))
BY DEF Only, Parts!Left, FoldLeft, Parts!FoldLeft, MapThenFoldSet, Parts!MapThenFoldSet, Max, Parts!Max

\* A filter goes through the orders one by one.
LEMMA OnlyNext ==
    ASSUME NEW X, NEW T, NEW book \in Seq(X), NEW e \in X, Only(book, T) \in Seq(X)
    PROVE  Only(Append(book, e), T)
             = IF e \in T THEN Append(Only(book, T), e) ELSE Only(book, T)
<1>1. ASSUME NEW b \in Seq(X)
      PROVE  /\ PartsOf(b, T) \in Seq(Seq(X)) /\ Len(PartsOf(b, T)) = Len(b)
             /\ \A j \in 1 .. Len(b) : PartsOf(b, T)[j] = Part(b[j], T)
  <2>1. \A j \in 1 .. Len(b) : Part(b[j], T) \in Seq(X)
    BY ElementOfSeq DEF Part
  <2>2. DOMAIN b = 1 .. Len(b) /\ Len(b) \in Nat
    BY LenProperties
  <2> QED
    BY <2>1, <2>2 DEF PartsOf
<1>2. Part(e, T) \in Seq(X)
  BY DEF Part
<1>3. PartsOf(Append(book, e), T) = Append(PartsOf(book, T), Part(e, T))
  <2> DEFINE long == Append(book, e)
  <2>1. /\ long \in Seq(X) /\ Len(long) = Len(book) + 1 /\ long[Len(book) + 1] = e
        /\ \A j \in 1 .. Len(book) : long[j] = book[j]
    BY AppendProperties
  <2> HIDE DEF long
  <2> DEFINE a == PartsOf(long, T)
             b == Append(PartsOf(book, T), Part(e, T))
  <2>2. /\ a \in Seq(Seq(X)) /\ Len(a) = Len(book) + 1
        /\ \A j \in 1 .. Len(book) + 1 : a[j] = Part(long[j], T)
    BY <1>1, <2>1
  <2>3. /\ b \in Seq(Seq(X)) /\ Len(b) = Len(book) + 1
        /\ \A j \in 1 .. Len(book) : b[j] = PartsOf(book, T)[j]
        /\ b[Len(book) + 1] = Part(e, T)
    BY <1>1, <1>2, AppendProperties
  <2>4. \A j \in 1 .. Len(book) + 1 : a[j] = b[j]
    BY <1>1, <2>1, <2>2, <2>3, LenProperties
  <2> HIDE DEF a, b
  <2>5. a = b
    BY <2>2, <2>3, <2>4, SeqEqual
  <2> QED
    BY <2>5 DEF a, b, long
<1>4. Only(Append(book, e), T) = Joined(Only(book, T), Part(e, T))
  <2>1. Parts!Left(<<>>, Append(PartsOf(book, T), Part(e, T)))
          = Parts!Step(Parts!Left(<<>>, PartsOf(book, T)), Part(e, T))
    BY <1>1, <1>2, Parts!FoldOfNext
  <2> QED
    BY <1>3, <2>1, OnlyIs DEF Parts!Step
<1>5. /\ Only(book, T) \o <<e>> = Append(Only(book, T), e)
      /\ Only(book, T) \o <<>> = Only(book, T)
  BY AppendIsConcat, ConcatEmptySeq
<1> QED
  BY <1>4, <1>5 DEF Joined, Part

\* A filter of the empty book is empty.
LEMMA OnlyOfNone == ASSUME NEW T PROVE Only(<<>>, T) = <<>>
<1>1. PartsOf(<<>>, T) = <<>>
  BY DEF PartsOf
<1>2. Parts!Left(<<>>, <<>>) = <<>>
  BY Parts!FoldOfNone
<1> QED
  BY <1>1, <1>2, OnlyIs


LEMMA OnlyIn ==
    ASSUME NEW X, NEW T, NEW book \in Seq(X)
    PROVE  Only(book, T) \in Seq(X)
<1> DEFINE R == {b \in Seq(X) : Only(b, T) \in Seq(X)}
<1>1. <<>> \in R
  BY OnlyOfNone, EmptySeq
<1>2. ASSUME NEW b \in Seq(X), NEW e \in X, b \in R PROVE Append(b, e) \in R
  <2>1. Only(Append(b, e), T) = IF e \in T THEN Append(Only(b, T), e) ELSE Only(b, T)
    BY <1>2, OnlyNext
  <2>2. Append(b, e) \in Seq(X) /\ Append(Only(b, T), e) \in Seq(X)
    BY <1>2, AppendProperties
  <2> QED
    BY <1>2, <2>1, <2>2
<1> HIDE DEF R
<1>3. Seq(X) \subseteq R
  BY <1>1, <1>2, Parts!SequenceInduction
<1> QED
  BY <1>3 DEF R

\* Filters that treat twins alike return alike books.
LEMMA FilterAlike ==
    ASSUME NEW P, NEW Q, NEW T, NEW U,
           \A w \in Pairs(P) : /\ w[1] \in T <=> w[2] \in U
                               /\ w[1] \in T => Twins(Q, w[1], w[2]),
           NEW a, NEW b, Alike(a, b, P)
    PROVE  Alike(Only(a, T), Only(b, U), Q)
<1> DEFINE R == {z \in Seq(Pairs(P)) : Alike(Only(Firsts(z), T), Only(Seconds(z), U), Q)}
<1>1. <<>> \in R
  <2>1. Firsts(<<>>) = <<>> /\ Seconds(<<>>) = <<>>
    BY DEF Firsts, Seconds
  <2>2. Alike(<<>>, <<>>, Q)
    BY EmptySeq DEF Alike
  <2> QED
    BY <2>1, <2>2, OnlyOfNone, EmptySeq
<1>2. ASSUME NEW z \in Seq(Pairs(P)), NEW w \in Pairs(P), z \in R PROVE Append(z, w) \in R
  <2>1. /\ Firsts(z) \in Seq(Orders) /\ Seconds(z) \in Seq(Orders)
        /\ Firsts(Append(z, w)) = Append(Firsts(z), w[1])
        /\ Seconds(Append(z, w)) = Append(Seconds(z), w[2])
    BY PairsNext
  <2>2. w[1] \in Orders /\ w[2] \in Orders
    BY DEF Pairs
  <2> DEFINE f == Only(Firsts(z), T)
             g == Only(Seconds(z), U)
  <2>4. /\ Only(Append(Firsts(z), w[1]), T) = IF w[1] \in T THEN Append(f, w[1]) ELSE f
        /\ Only(Append(Seconds(z), w[2]), U) = IF w[2] \in U THEN Append(g, w[2]) ELSE g
    <3>1. ASSUME NEW s \in Seq(Orders), NEW o \in Orders, NEW S
          PROVE  Only(Append(s, o), S) = IF o \in S THEN Append(Only(s, S), o) ELSE Only(s, S)
      BY OnlyIn, OnlyNext
    <3> DEFINE s == Firsts(z)
               t == Seconds(z)
               o == w[1]
               v == w[2]
    <3>2. s \in Seq(Orders) /\ t \in Seq(Orders) /\ o \in Orders /\ v \in Orders
      BY <2>1, <2>2
    <3> HIDE DEF s, t, o, v
    <3>3. Only(Append(s, o), T) = IF o \in T THEN Append(Only(s, T), o) ELSE Only(s, T)
      BY <3>1, <3>2
    <3>4. Only(Append(t, v), U) = IF v \in U THEN Append(Only(t, U), v) ELSE Only(t, U)
      BY <3>1, <3>2
    <3> QED
      BY <3>3, <3>4 DEF s, t, o, v
  <2>5. Alike(f, g, Q)
    BY <1>2
  <2> HIDE DEF f, g
  <2>6. w[1] \in T => Alike(Append(f, w[1]), Append(g, w[2]), Q)
    BY <2>2, <2>5, AlikeAppend
  <2>7. Append(z, w) \in Seq(Pairs(P))
    BY AppendProperties
  <2> QED
    BY <2>1, <2>4, <2>5, <2>6, <2>7
<1> HIDE DEF R
<1>3. Seq(Pairs(P)) \subseteq R
  BY <1>1, <1>2, Parts!SequenceInduction
<1>4. PICK z \in Seq(Pairs(P)) : Firsts(z) = a /\ Seconds(z) = b
  BY PairsExist
<1> QED
  BY <1>3, <1>4 DEF R

\* Without and the end of Match are such filters.
Live(book) == Filtered(book, LAMBDA o : o.qty > 0)
LEMMA FiltersAre ==
    ASSUME NEW book \in Seq(Orders), NEW id
    PROVE  /\ Without(book, id) = Only(book, {o \in Orders : o.oid # id})
           /\ Live(book) = Only(book, {o \in Orders : o.qty > 0})
<1>1. \A j \in DOMAIN book : book[j] \in Orders
  BY ElementOfSeq, LenProperties
<1> QED
  BY <1>1 DEF Without, Live, Filtered, Only, PartsOf, Part

LEMMA WithoutAlike ==
    ASSUME NEW P, NEW oid, NEW id, \A t \in P : t[1] = oid <=> t[2] = id,
           NEW a, NEW b, Alike(a, b, P)
    PROVE  Alike(Without(a, oid), Without(b, id), {t \in P : t[2] # id})
<1> DEFINE T == {o \in Orders : o.oid # oid}
           U == {o \in Orders : o.oid # id}
           Q == {t \in P : t[2] # id}
<1>1. ASSUME NEW w \in Pairs(P)
      PROVE  (w[1] \in T <=> w[2] \in U) /\ (w[1] \in T => Twins(Q, w[1], w[2]))
  <2>1. /\ w[1] \in Orders /\ w[2] \in Orders /\ Twins(P, w[1], w[2])
        /\ <<w[1].oid, w[2].oid, w[2].side>> \in P
    BY DEF Pairs, Twins
  <2>2. w[1].oid = oid <=> w[2].oid = id
    BY <2>1
  <2> QED
    BY <2>1, <2>2 DEF Twins
<1>2. Without(a, oid) = Only(a, T) /\ Without(b, id) = Only(b, U)
  BY FiltersAre DEF Alike
<1> HIDE DEF T, U, Q
<1>3. Alike(Only(a, T), Only(b, U), Q)
  BY <1>1, FilterAlike
<1> QED
  BY <1>2, <1>3 DEF Q

LEMMA LiveAlike ==
    ASSUME NEW P, NEW a, NEW b, Alike(a, b, P)
    PROVE  Alike(Live(a), Live(b), P)
<1> DEFINE T == {o \in Orders : o.qty > 0}
<1>1. \A w \in Pairs(P) : (w[1] \in T <=> w[2] \in T) /\ Twins(P, w[1], w[2])
  BY DEF Pairs, Twins
<1>2. Live(a) = Only(a, T) /\ Live(b) = Only(b, T)
  BY FiltersAre DEF Alike
<1> HIDE DEF T
<1> QED
  BY <1>1, <1>2, FilterAlike

\* The makers are places of the book, none twice: the ranks of the orders that an
\* incoming one meets are the numbers below how many they are.
LEMMA MakersAre ==
    ASSUME NEW book \in Seq(Orders), NEW side \in Sides, NEW limit \in Int
    PROVE  /\ Makers(book, side, limit) \in Seq(1 .. Len(book))
           /\ Len(Makers(book, side, limit)) <= Len(book)
<1> DEFINE met == Crossing(book, side, limit)
           before(x) == {j \in met : Ahead(book, j, x)}
           rank == [x \in met |-> Cardinality(before(x))]
           c == Cardinality(met)
<1>1. Len(book) \in Nat /\ DOMAIN book = 1 .. Len(book)
  BY LenProperties
<1>2. /\ met \in SUBSET (1 .. Len(book))
      /\ \A x \in met : book[x] \in Orders /\ book[x].side = Opposite(side)
  <2>1. \A x \in 1 .. Len(book) : book[x] \in Orders
    BY ElementOfSeq
  <2> QED
    BY <1>1, <2>1 DEF Crossing
<1>3. IsFiniteSet(met) /\ c \in Nat /\ c <= Len(book)
  <2>1. IsFiniteSet(1 .. Len(book)) /\ Cardinality(1 .. Len(book)) = Len(book)
    <3>1. PICK n \in Nat : n = Len(book)
      BY <1>1
    <3>2. IsFiniteSet(1 .. n) /\ Cardinality(1 .. n) = n
      BY ONLY FS_Interval, SMTT(30)
    <3> QED
      BY <3>1, <3>2
  <2> QED
    BY <1>1, <1>2, <2>1, FS_Subset, FS_CardinalityType
<1>4. \A x, y, z \in met : /\ ~Ahead(book, x, x)
                           /\ x # y => Ahead(book, x, y) \/ Ahead(book, y, x)
                           /\ Ahead(book, x, y) /\ Ahead(book, y, z) => Ahead(book, x, z)
  <2>1. \A x \in met : book[x].price \in Int /\ x \in Int
    BY <1>1, <1>2 DEF Orders
  <2> HIDE DEF met
  <2> QED
    BY <1>2, <2>1 DEF Ahead, Better
<1> HIDE DEF met
<1>5. \A x \in met : IsFiniteSet(before(x)) /\ Cardinality(before(x)) \in Nat
  BY <1>3, FS_Subset, FS_CardinalityType
<1>6. \A x \in met : before(x) \subseteq met /\ x \notin before(x)
  BY <1>4
<1>7. \A x, y \in met : Ahead(book, x, y) => before(x) \subseteq before(y) /\ x \in before(y)
  BY <1>4
<1> HIDE DEF before
<1>8. ASSUME NEW x \in met, NEW s \in SUBSET met, before(x) \subseteq s, x \in s
      PROVE  Cardinality(before(x)) < Cardinality(s)
  <2>1. IsFiniteSet(s) /\ Cardinality(s) \in Nat
    BY <1>3, FS_Subset, FS_CardinalityType
  <2>2. Cardinality(before(x)) <= Cardinality(s) /\ Cardinality(before(x)) # Cardinality(s)
    BY <1>6, <1>8, <2>1, FS_Subset
  <2> DEFINE a == Cardinality(before(x))
             b == Cardinality(s)
  <2>3. a \in Nat /\ b \in Nat /\ a <= b /\ a # b
    BY <1>5, <2>1, <2>2
  <2> HIDE DEF a, b
  <2>4. a < b
    BY <2>3
  <2> QED
    BY <2>4 DEF a, b
<1>9. \A x \in met : rank[x] \in 0 .. c - 1
  <2> SUFFICES ASSUME NEW x \in met PROVE Cardinality(before(x)) \in 0 .. c - 1
    OBVIOUS
  <2> HIDE DEF c
  <2>1. Cardinality(before(x)) < c
    BY <1>6, <1>8 DEF c
  <2> QED
    BY <1>3, <1>5, <2>1
<1>10. ASSUME NEW x \in met, NEW y \in met, Ahead(book, x, y) PROVE rank[x] < rank[y]
  BY <1>6, <1>7, <1>8, <1>10
<1>11. rank \in Injection(met, 0 .. c - 1)
  <2>1. \A x, y \in met : rank[x] = rank[y] => x = y
    <3> SUFFICES ASSUME NEW x \in met, NEW y \in met, x # y PROVE rank[x] # rank[y]
      OBVIOUS
    <3>1. rank[x] < rank[y] \/ rank[y] < rank[x]
      BY <1>4, <1>10
    <3> QED
      BY <1>9, <3>1
  <2> QED
    BY <1>9, <2>1 DEF Injection, IsInjective
<1>12. IsFiniteSet(0 .. c - 1) /\ Cardinality(0 .. c - 1) = c
  <2> HIDE DEF c
  <2>1. c - 1 \in Int /\ (0 > c - 1 => c = 0) /\ c - 1 - 0 + 1 = c
    BY <1>3
  <2> DEFINE d == c - 1
  <2>2. d \in Int
    BY <2>1
  <2> HIDE DEF d
  <2>3. IsFiniteSet(0 .. d) /\ Cardinality(0 .. d) = IF 0 > d THEN 0 ELSE d - 0 + 1
    BY <2>2, FS_Interval
  <2> QED
    BY <2>1, <2>3 DEF d
<1> HIDE DEF rank, c
<1>13. rank \in Surjection(met, 0 .. c - 1)
  <2> DEFINE T == 0 .. c - 1
  <2>1. rank \in Injection(met, T) /\ IsFiniteSet(T) /\ Cardinality(T) = Cardinality(met)
    BY <1>11, <1>12 DEF c
  <2> HIDE DEF T
  <2>2. rank \in Surjection(met, T)
    BY <2>1, FS_Injection
  <2> QED
    BY <2>2 DEF T
<1>14. ASSUME NEW r \in 1 .. c PROVE \E x \in met : Cardinality(before(x)) = r - 1
  <2>1. r - 1 \in 0 .. c - 1
    BY <1>3
  <2>2. PICK x \in met : rank[x] = r - 1
    BY <1>13, <2>1 DEF Surjection
  <2> QED
    BY <2>2 DEF rank
<1>15. Makers(book, side, limit) = [r \in 1 .. c |-> CHOOSE x \in met : Cardinality(before(x)) = r - 1]
  BY DEF Makers, met, c, before
<1>16. Makers(book, side, limit) \in [1 .. c -> 1 .. Len(book)]
  BY <1>2, <1>14, <1>15
<1> QED
  BY <1>3, <1>16


\* Makers looks at sides and prices only.
LEMMA MakersAlike ==
    ASSUME NEW P, NEW a, NEW b, Alike(a, b, P), NEW side, NEW limit
    PROVE  Makers(a, side, limit) = Makers(b, side, limit)
<1>1. /\ DOMAIN a = 1 .. Len(a) /\ DOMAIN b = 1 .. Len(a)
      /\ \A x \in 1 .. Len(a) : a[x].side = b[x].side /\ a[x].price = b[x].price
  <2>1. \A x \in 1 .. Len(a) : Twins(P, a[x], b[x])
    BY DEF Alike
  <2> QED
    BY <2>1, AlikeIs DEF Twins
<1> DEFINE met == Crossing(a, side, limit)
<1>2. Crossing(b, side, limit) = met
  BY <1>1 DEF Crossing
<1>3. met \subseteq 1 .. Len(a)
  BY <1>1 DEF Crossing
<1> HIDE DEF met
<1>4. \A x, y \in met : Ahead(a, y, x) <=> Ahead(b, y, x)
  BY <1>1, <1>3 DEF Ahead
<1>5. \A x \in met : {y \in met : Ahead(a, y, x)} = {y \in met : Ahead(b, y, x)}
  BY <1>4
<1> DEFINE Place(book, r) == CHOOSE x \in met : Cardinality({y \in met : Ahead(book, y, x)}) = r - 1
<1>6. ASSUME NEW r PROVE Place(a, r) = Place(b, r)
  BY <1>5
<1>7. /\ Makers(a, side, limit) = [r \in 1 .. Cardinality(met) |-> Place(a, r)]
      /\ Makers(b, side, limit) = [r \in 1 .. Cardinality(met) |-> Place(b, r)]
  BY <1>2 DEF Makers, met
<1> HIDE DEF Place
<1> QED
  BY <1>6, <1>7

\* Two sweeps that have taken the same from alike books of L orders.
IsSweep(acc) == acc = [left |-> acc.left, fills |-> acc.fills, book |-> acc.book]
Together(x, y, P, L) == /\ IsSweep(x) /\ IsSweep(y)
                        /\ x.left = y.left /\ x.left \in Nat
                        /\ Alike(x.book, y.book, P) /\ Len(x.book) = L

LEMMA TakeAlike ==
    ASSUME NEW P, NEW L \in Nat, NEW x, NEW y, Together(x, y, P, L), NEW l \in 1 .. L
    PROVE  Together(Take(x, l), Take(y, l), P, L)
<1> DEFINE a == x.book
           b == y.book
           left == x.left
           q == Least(left, a[l].qty)
           taken(o) == [o EXCEPT !.qty = o.qty - q]
           after(s) == [s EXCEPT ![l] = taken(s[l])]
           fill(o) == [oid |-> o.oid, price |-> o.price, qty |-> q, rest |-> o.qty - q]
<1>1. /\ IsSweep(x) /\ IsSweep(y) /\ left \in Nat /\ y.left = left
      /\ Alike(a, b, P) /\ Len(a) = L
  BY DEF Together
<1>2. /\ a \in Seq(Orders) /\ b \in Seq(Orders) /\ Len(b) = L
      /\ \A j \in 1 .. L : a[j] \in Orders /\ b[j] \in Orders /\ Twins(P, a[j], b[j])
  BY <1>1, AlikeIs DEF Alike
<1>3. a[l].qty \in Nat /\ b[l].qty = a[l].qty
  BY <1>2 DEF Orders, Twins
<1>4. q \in Nat /\ q <= left /\ q <= a[l].qty
  BY <1>1, <1>3 DEF Least
<1>5. /\ Take(x, l) = IF q = 0 THEN x
                      ELSE [left |-> left - q, fills |-> Append(x.fills, fill(a[l])), book |-> after(a)]
      /\ Take(y, l) = IF q = 0 THEN y
                      ELSE [left |-> left - q, fills |-> Append(y.fills, fill(b[l])), book |-> after(b)]
  BY <1>1, <1>3 DEF Take
<1>6. /\ taken(a[l]) \in Orders /\ taken(b[l]) \in Orders
      /\ Twins(P, taken(a[l]), taken(b[l]))
  <2>1. a[l] \in Orders /\ b[l] \in Orders /\ Twins(P, a[l], b[l]) /\ a[l].qty - q \in Nat
        /\ b[l].qty = a[l].qty
    BY <1>2, <1>3, <1>4
  <2> HIDE DEF a, b, q
  <2> QED
    BY <2>1 DEF Orders, Twins
<1>7. left - q \in Nat
  BY <1>1, <1>4
<1> HIDE DEF taken, fill, q
<1>8. /\ after(a) \in Seq(Orders) /\ Len(after(a)) = L
      /\ after(b) \in Seq(Orders) /\ Len(after(b)) = L
      /\ \A j \in 1 .. L : /\ after(a)[j] = IF j = l THEN taken(a[l]) ELSE a[j]
                           /\ after(b)[j] = IF j = l THEN taken(b[l]) ELSE b[j]
  <2> HIDE DEF a, b
  <2>1. l \in 1 .. Len(a) /\ l \in 1 .. Len(b)
    BY <1>1, <1>2
  <2>2. /\ after(a) \in Seq(Orders) /\ Len(after(a)) = Len(a)
        /\ after(b) \in Seq(Orders) /\ Len(after(b)) = Len(b)
    BY <1>2, <1>6, <2>1, ExceptSeq
  <2>3. DOMAIN a = 1 .. L /\ DOMAIN b = 1 .. L
    BY <1>1, <1>2, LenProperties
  <2> QED
    BY <1>1, <1>2, <2>2, <2>3
<1> HIDE DEF after, a, b, left
<1>9. Alike(after(a), after(b), P)
  BY <1>2, <1>6, <1>8 DEF Alike
<1>10. CASE q = 0
  BY <1>5, <1>10
<1>11. CASE q # 0
  <2> DEFINE r == left - q
             f == Append(x.fills, fill(a[l]))
             g == Append(y.fills, fill(b[l]))
             c == after(a)
             d == after(b)
  <2>1. /\ Take(x, l) = [left |-> r, fills |-> f, book |-> c]
        /\ Take(y, l) = [left |-> r, fills |-> g, book |-> d]
        /\ r \in Nat /\ Alike(c, d, P) /\ Len(c) = L
    BY <1>5, <1>7, <1>8, <1>9, <1>11
  <2> HIDE DEF r, f, g, c, d
  <2> QED
    BY <2>1 DEF Together, IsSweep
<1> QED
  BY <1>10, <1>11

LEMMA MatchAlike ==
    ASSUME NEW P, NEW a, NEW b, Alike(a, b, P), NEW side \in Sides, NEW limit \in Int, NEW qty \in Nat,
           NEW x, x = Match(a, side, limit, qty), NEW y, y = Match(b, side, limit, qty)
    PROVE  Together(x, y, P, Len(x.book))
<1> DEFINE L == Len(a)
           Base(book) == [left |-> qty, fills |-> <<>>, book |-> book]
           makers == Makers(a, side, limit)
           v == FoldLeft(Take, Base(a), makers)
           w == FoldLeft(Take, Base(b), makers)
           R == {s \in Seq(1 .. L) : Together(Matching!Left(Base(a), s), Matching!Left(Base(b), s), P, L)}
<1>1. L \in Nat /\ makers \in Seq(1 .. L) /\ a \in Seq(Orders)
  <2>1. a \in Seq(Orders)
    BY DEF Alike
  <2> QED
    BY <2>1, MakersAre, LenProperties
<1>2. <<>> \in R
  <2>1. Together(Base(a), Base(b), P, L)
    BY DEF Together, IsSweep
  <2>2. Matching!Left(Base(a), <<>>) = Base(a) /\ Matching!Left(Base(b), <<>>) = Base(b)
    <3> HIDE DEF Base
    <3> QED
      BY Matching!FoldOfNone
  <2> HIDE DEF L, Base
  <2> QED
    BY <2>1, <2>2, EmptySeq
<1>3. ASSUME NEW s \in Seq(1 .. L), NEW l \in 1 .. L, s \in R PROVE Append(s, l) \in R
  <2> HIDE DEF Base
  <2>1. ASSUME NEW base
        PROVE  Matching!Left(base, Append(s, l)) = Take(Matching!Left(base, s), l)
    <3>1. Matching!Left(base, Append(s, l)) = Matching!Step(Matching!Left(base, s), l)
      BY Matching!FoldOfNext
    <3> QED
      BY <3>1 DEF Matching!Step
  <2> DEFINE c == Matching!Left(Base(a), s)
             d == Matching!Left(Base(b), s)
  <2>2. Together(c, d, P, L)
    BY <1>3
  <2>3. /\ Matching!Left(Base(a), Append(s, l)) = Take(c, l)
        /\ Matching!Left(Base(b), Append(s, l)) = Take(d, l)
    BY <2>1
  <2> HIDE DEF c, d
  <2>4. Together(Take(c, l), Take(d, l), P, L)
    BY <1>1, <2>2, TakeAlike
  <2>5. Append(s, l) \in Seq(1 .. L)
    BY AppendProperties
  <2> QED
    BY <2>3, <2>4, <2>5
<1>4. v = Matching!Left(Base(a), makers) /\ w = Matching!Left(Base(b), makers)
  BY DEF Matching!Left, FoldLeft, Matching!FoldLeft, MapThenFoldSet, Matching!MapThenFoldSet, Max, Matching!Max
<1>5. x = [v EXCEPT !.book = Live(v.book)] /\ y = [w EXCEPT !.book = Live(w.book)]
  BY MakersAlike DEF Match, Live
<1> HIDE DEF R, L, Base, makers, v, w
<1>6. Seq(1 .. L) \subseteq R
  BY <1>2, <1>3, Matching!SequenceInduction
<1>7. Together(v, w, P, L)
  BY <1>1, <1>4, <1>6 DEF R
<1> DEFINE c == Live(v.book)
           d == Live(w.book)
<1>8. Alike(c, d, P)
  BY <1>7, LiveAlike DEF Together
<1> HIDE DEF c, d
<1>9. /\ x = [left |-> v.left, fills |-> v.fills, book |-> c]
      /\ y = [left |-> v.left, fills |-> w.fills, book |-> d]
      /\ v.left \in Nat
  BY <1>5, <1>7 DEF Together, IsSweep, c, d
<1> QED
  BY <1>8, <1>9 DEF Together, IsSweep

\* What is left rests under oid and under id.
With(P, oid, id, side) == P \cup {<<oid, id, side>>}
LEMMA AlikeMore ==
    ASSUME NEW P, NEW Q, P \subseteq Q, NEW a, NEW b, Alike(a, b, P)
    PROVE  Alike(a, b, Q)
BY DEF Alike, Twins

LEMMA AddAlike ==
    ASSUME NEW P, NEW a, NEW b, Alike(a, b, P), NEW side \in Sides, NEW limit \in Int, NEW qty \in Nat,
           NEW oid \in Nat, NEW id \in Nat
    PROVE  Alike(AddLimit(a, oid, side, limit, qty).book, AddLimit(b, id, side, limit, qty).book,
                 With(P, oid, id, side))
<1> DEFINE x == Match(a, side, limit, qty)
           y == Match(b, side, limit, qty)
           o == Entry(oid, side, limit, x.left)
           e == Entry(id, side, limit, x.left)
           Q == With(P, oid, id, side)
           v == AddLimit(a, oid, side, limit, qty)
           w == AddLimit(b, id, side, limit, qty)
<1>1. Together(x, y, P, Len(x.book))
  BY MatchAlike
<1>2. v = WithRest(x, oid, side, limit) /\ w = WithRest(y, id, side, limit)
  BY DEF AddLimit
<1> HIDE DEF x, y, v, w
<1>3. /\ IsSweep(x) /\ IsSweep(y) /\ x.left = y.left /\ x.left \in Nat /\ Alike(x.book, y.book, P)
  BY <1>1 DEF Together
<1>4. Alike(x.book, y.book, Q)
  BY <1>3, AlikeMore DEF With
<1>5. o \in Orders /\ e \in Orders /\ Twins(Q, o, e)
  BY <1>3 DEF Orders, Entry, Twins, With
<1> HIDE DEF Q
<1>6. /\ v.book = IF x.left = 0 THEN x.book ELSE Append(x.book, o)
      /\ w.book = IF x.left = 0 THEN y.book ELSE Append(y.book, e)
  BY <1>2, <1>3 DEF WithRest, IsSweep
<1> HIDE DEF o, e
<1>7. Alike(Append(x.book, o), Append(y.book, e), Q)
  BY <1>4, <1>5, AlikeAppend
<1>8. Alike(v.book, w.book, Q)
  BY <1>4, <1>6, <1>7
<1> QED
  BY <1>8 DEF v, w, Q


\* Whether an order rests, and the answers to queries, are the same in alike books.
LEMMA HasAlike ==
    ASSUME NEW P, NEW oid, NEW id, \A t \in P : t[1] = oid <=> t[2] = id,
           NEW a, NEW b, Alike(a, b, P)
    PROVE  Has(a, oid) <=> Has(b, id)
<1>1. /\ DOMAIN a = 1 .. Len(a) /\ DOMAIN b = 1 .. Len(a)
      /\ \A x \in 1 .. Len(a) : <<a[x].oid, b[x].oid, b[x].side>> \in P
  BY AlikeIs DEF Twins
<1>2. \A x \in 1 .. Len(a) : a[x].oid = oid <=> b[x].oid = id
  <2> SUFFICES ASSUME NEW x \in 1 .. Len(a) PROVE a[x].oid = oid <=> b[x].oid = id
    OBVIOUS
  <2> DEFINE t == <<a[x].oid, b[x].oid, b[x].side>>
  <2>1. t \in P /\ t[1] = a[x].oid /\ t[2] = b[x].oid
    BY <1>1
  <2> HIDE DEF t
  <2> QED
    BY <2>1
<1> QED
  BY <1>1, <1>2 DEF Has

LEMMA AbsentAlike ==
    ASSUME NEW P, NEW id, NEW a, NEW b, Alike(a, b, P), ~Has(b, id)
    PROVE  Alike(a, b, {t \in P : t[2] # id})
<1>1. /\ DOMAIN b = 1 .. Len(a)
      /\ \A x \in 1 .. Len(a) : Twins(P, a[x], b[x])
  BY AlikeIs
<1>2. \A x \in 1 .. Len(a) : b[x].oid # id
  BY <1>1 DEF Has
<1>3. \A x \in 1 .. Len(a) : Twins({t \in P : t[2] # id}, a[x], b[x])
  <2> SUFFICES ASSUME NEW x \in 1 .. Len(a) PROVE Twins({t \in P : t[2] # id}, a[x], b[x])
    OBVIOUS
  <2> DEFINE t == <<a[x].oid, b[x].oid, b[x].side>>
  <2>1. t \in P /\ t[2] # id
    BY <1>1, <1>2 DEF Twins
  <2> QED
    BY <1>1, <2>1 DEF Twins
<1> QED
  BY <1>3 DEF Alike

LEMMA QueriesAlike ==
    ASSUME NEW P, NEW a, NEW b, Alike(a, b, P), NEW side, NEW price
    PROVE  Best(a, side) = Best(b, side) /\ DepthAt(a, side, price) = DepthAt(b, side, price)
<1>1. /\ DOMAIN a = 1 .. Len(a) /\ DOMAIN b = 1 .. Len(a)
      /\ \A x \in 1 .. Len(a) : a[x].side = b[x].side /\ a[x].price = b[x].price /\ a[x].qty = b[x].qty
  <2>1. \A x \in 1 .. Len(a) : Twins(P, a[x], b[x])
    BY DEF Alike
  <2> QED
    BY <2>1, AlikeIs DEF Twins
<1>2. PricesOn(a, side) = PricesOn(b, side)
  BY <1>1 DEF PricesOn
<1> DEFINE Sizes(book) == [x \in DOMAIN book |->
                            IF book[x].side = side /\ book[x].price = price THEN book[x].qty ELSE 0]
<1>3. Sizes(a) = Sizes(b)
  BY <1>1
<1>4. DepthAt(a, side, price) = FoldLeft(Plus, 0, Sizes(a)) /\ DepthAt(b, side, price) = FoldLeft(Plus, 0, Sizes(b))
  BY DEF DepthAt
<1> HIDE DEF Sizes
<1> QED
  BY <1>2, <1>3, <1>4 DEF Best

-----------------------------------------------------------------------------
(* One record, for an engine that knows its order as old and would know the*)
(* next one as fresh.                                                      *)

Answer(a, r, old, fresh) ==
    CASE r.type = "new" ->
           LET x == AddLimit(a, fresh, r.side, r.price, r.qty)
           IN IF r.ioc THEN Without(x.book, fresh) ELSE x.book
      [] r.type = "cancel" -> IF Has(a, old) THEN Without(a, old) ELSE a
      [] r.type = "modify" ->
           IF Has(a, old) THEN AddLimit(Without(a, old), fresh, r.side, r.price, r.qty).book ELSE a

\* The reference knows the orders by their ids.
LEMMA RepliedIs ==
    ASSUME WireLegal, NEW x \in 1 .. Len(wire), NEW b
    PROVE  Replied(b, Prepared(x)).book = Answer(b, wire[x], wire[x].id, wire[x].id)
<1>1. wire[x] \in Records /\ wire[x].type \in {"new", "cancel", "modify"} /\ wire[x].ioc \in BOOLEAN
  <2>1. wire[x] \in Records
    BY ElementOfSeq DEF WireLegal
  <2> QED
    BY <2>1 DEF Records
<1> DEFINE r == wire[x]
           m == Prepared(x)
<1>2. CASE r.type = "new"
  <2>1. /\ m.type = "new" /\ m.id = r.id /\ m.side = r.side /\ m.price = r.price /\ m.qty = r.qty
        /\ m.ioc = r.ioc
    BY <1>2 DEF Prepared, NewOrder
  <2>2. Replied(b, m).book = Placed(m, AddLimit(b, m.id, m.side, m.price, m.qty)).book
    BY <2>1 DEF Replied
  <2> QED
    BY <1>2, <2>1, <2>2 DEF Placed, Answer
<1>3. CASE r.type = "cancel"
  <2>1. m.type = "cancel" /\ m.id = r.id
    BY <1>3 DEF Prepared, Cancel
  <2> QED
    BY <1>3, <2>1 DEF Replied, Answer
<1>4. CASE r.type = "modify"
  <2>1. m.type = "modify" /\ m.id = r.id /\ m.side = r.side /\ m.price = r.price /\ m.qty = r.qty
    BY <1>4 DEF Prepared, Modify
  <2> QED
    BY <1>4, <2>1 DEF Replied, Answer, Reinserted
<1> QED
  BY <1>1, <1>2, <1>3, <1>4

\* The pairs after a record.
Others(P, id) == {t \in P : t[2] # id}
After(P, r, fresh, rests) ==
    IF r.type = "new" \/ (r.type = "modify" /\ rests) THEN With(Others(P, r.id), fresh, r.id, r.side)
    ELSE Others(P, r.id)

LEMMA AnswerAlike ==
    ASSUME NEW P, NEW a, NEW b, Alike(a, b, P), NEW r \in Records, NEW old, NEW fresh \in Nat,
           \A t \in P : t[1] = old <=> t[2] = r.id,
           r.type = "new" => \A t \in P : t[1] # fresh /\ t[2] # r.id
    PROVE  Alike(Answer(a, r, old, fresh), Answer(b, r, r.id, r.id), After(P, r, fresh, Has(b, r.id)))
<1>1. /\ r.type \in {"new", "cancel", "modify"} /\ r.side \in Sides /\ r.price \in Int /\ r.qty \in Nat
      /\ r.id \in Nat /\ r.ioc \in BOOLEAN
  BY CountAssumption DEF Records
<1>2. Has(a, old) <=> Has(b, r.id)
  BY HasAlike
<1> DEFINE Q == Others(P, r.id)
           N == With(Q, fresh, r.id, r.side)
<1>3. CASE r.type = "new"
  <2> DEFINE v == AddLimit(a, fresh, r.side, r.price, r.qty).book
             w == AddLimit(b, r.id, r.side, r.price, r.qty).book
  <2>1. P = Q
    BY <1>3 DEF Others
  <2>2. Alike(v, w, With(P, fresh, r.id, r.side))
    BY <1>1, AddAlike
  <2>3. After(P, r, fresh, Has(b, r.id)) = N
    BY <1>3 DEF After
  <2>4. /\ Answer(a, r, old, fresh) = IF r.ioc THEN Without(v, fresh) ELSE v
        /\ Answer(b, r, r.id, r.id) = IF r.ioc THEN Without(w, r.id) ELSE w
    BY <1>3 DEF Answer
  <2>5. \A t \in N : t[1] = fresh <=> t[2] = r.id
    BY <1>3 DEF With, Others
  <2> HIDE DEF v, w, Q, N
  <2>6. Alike(v, w, N)
    BY <2>1, <2>2 DEF N
  <2>7. Alike(Without(v, fresh), Without(w, r.id), {t \in N : t[2] # r.id})
    BY <2>5, <2>6, WithoutAlike
  <2>8. Alike(Without(v, fresh), Without(w, r.id), N)
    BY <2>7, AlikeMore
  <2> QED
    BY <1>1, <2>3, <2>4, <2>6, <2>8
<1>4. CASE r.type # "new" /\ ~Has(b, r.id)
  <2>1. Answer(a, r, old, fresh) = a /\ Answer(b, r, r.id, r.id) = b
    BY <1>1, <1>2, <1>4 DEF Answer
  <2>2. After(P, r, fresh, Has(b, r.id)) = Q
    BY <1>4 DEF After
  <2>3. Alike(a, b, Q)
    BY <1>4, AbsentAlike DEF Others
  <2> QED
    BY <2>1, <2>2, <2>3
<1>5. CASE r.type # "new" /\ Has(b, r.id)
  <2> DEFINE v == Without(a, old)
             w == Without(b, r.id)
  <2>1. Alike(v, w, Q)
    BY WithoutAlike DEF Others
  <2>2. CASE r.type = "cancel"
    BY <1>2, <1>5, <2>1, <2>2 DEF Answer, After
  <2>3. CASE r.type = "modify"
    <3>1. /\ Answer(a, r, old, fresh) = AddLimit(v, fresh, r.side, r.price, r.qty).book
          /\ Answer(b, r, r.id, r.id) = AddLimit(w, r.id, r.side, r.price, r.qty).book
      BY <1>2, <1>5, <2>3 DEF Answer
    <3>2. After(P, r, fresh, Has(b, r.id)) = With(Q, fresh, r.id, r.side)
      BY <1>5, <2>3 DEF After
    <3> HIDE DEF v, w, Q
    <3>3. Alike(AddLimit(v, fresh, r.side, r.price, r.qty).book,
                AddLimit(w, r.id, r.side, r.price, r.qty).book, With(Q, fresh, r.id, r.side))
      BY <1>1, <2>1, AddAlike
    <3> QED
      BY <3>1, <3>2, <3>3
  <2> QED
    BY <1>1, <1>5, <2>2, <2>3
<1> QED
  BY <1>3, <1>4, <1>5


-----------------------------------------------------------------------------
(* The tape.                                                               *)

Playing == INSTANCE FoldFacts WITH op <- LAMBDA b, m : Replied(b, m).book

\* The book goes from record to record.
LEMMA BookNext ==
    ASSUME WireLegal, NEW n \in Nat, n < Len(wire)
    PROVE  BookAfter(n + 1) = Answer(BookAfter(n), wire[n + 1], wire[n + 1].id, wire[n + 1].id)
<1> DEFINE M == {Prepared(x) : x \in 1 .. n + 1}
           s == [x \in 1 .. n |-> Prepared(x)]
           t == [x \in 1 .. n + 1 |-> Prepared(x)]
           e == Prepared(n + 1)
<1>1. \A x \in 1 .. n + 1 : Prepared(x) \in M
  OBVIOUS
<1>2. \A x \in 1 .. n : x \in 1 .. n + 1
  OBVIOUS
<1> HIDE DEF M
<1>3. /\ s \in Seq(M) /\ Len(s) = n /\ \A x \in 1 .. n : s[x] = Prepared(x)
      /\ t \in Seq(M) /\ Len(t) = n + 1 /\ \A x \in 1 .. n + 1 : t[x] = Prepared(x)
      /\ e \in M
  BY <1>1, <1>2
<1> HIDE DEF s, t, e
<1> DEFINE u == Append(s, e)
<1>4. u \in Seq(M) /\ Len(u) = n + 1 /\ u[n + 1] = e /\ \A x \in 1 .. n : u[x] = s[x]
  BY <1>3, AppendProperties
<1> HIDE DEF u
<1>5. \A x \in 1 .. n + 1 : u[x] = t[x]
  <2>1. \A x \in 1 .. n + 1 : x \in 1 .. n \/ x = n + 1
    OBVIOUS
  <2>2. u[n + 1] = t[n + 1]
    BY <1>3, <1>4 DEF e
  <2> QED
    BY <1>2, <1>3, <1>4, <2>1, <2>2
<1>6. t = Append(s, e)
  <2>1. u = t
    BY <1>3, <1>4, <1>5, SeqEqual
  <2> QED
    BY <2>1 DEF u
<1>7. BookAfter(n) = Playing!Left(<<>>, s) /\ BookAfter(n + 1) = Playing!Left(<<>>, t)
  BY DEF BookAfter, s, t, Playing!Left, FoldLeft, Playing!FoldLeft, MapThenFoldSet,
         Playing!MapThenFoldSet, Max, Playing!Max
<1>8. Playing!Left(<<>>, Append(s, e)) = Playing!Step(Playing!Left(<<>>, s), e)
  BY <1>3, Playing!FoldOfNext
<1>9. BookAfter(n + 1) = Replied(BookAfter(n), e).book
  BY <1>6, <1>7, <1>8 DEF Playing!Step
<1>10. n + 1 \in 1 .. Len(wire)
  BY LenProperties DEF WireLegal
<1> QED
  BY <1>9, <1>10, RepliedIs DEF e

LEMMA BookOfNone == BookAfter(0) = <<>>
<1>1. [x \in 1 .. 0 |-> Prepared(x)] = <<>>
  OBVIOUS
<1>2. BookAfter(0) = Playing!Left(<<>>, [x \in 1 .. 0 |-> Prepared(x)])
  BY DEF BookAfter, Playing!Left, FoldLeft, Playing!FoldLeft, MapThenFoldSet,
         Playing!MapThenFoldSet, Max, Playing!Max
<1>3. Playing!Left(<<>>, <<>>) = <<>>
  BY Playing!FoldOfNone
<1> QED
  BY <1>1, <1>2, <1>3

\* The orders that the first n records start and do not cancel; what a table that
\* has an engine's id for each, or 0, says of them.
Ids == 1 .. count
Running(n) == {id \in Ids : /\ \E x \in 1 .. n : wire[x].type = "new" /\ wire[x].id = id
                            /\ \A x \in 1 .. n : ~(wire[x].type = "cancel" /\ wire[x].id = id)}
Known(T, n) == {<<T[id], id, Side(id)>> : id \in {d \in Running(n) : T[d] # 0}}

\* A table in which no two orders have the same engine id and none has the next one.
TableFits(T, fresh, r) ==
    /\ fresh \in Nat \ {0}
    /\ \A d, e \in Ids : T[d] # 0 /\ T[d] = T[e] => d = e
    /\ \A d \in Ids \ {r.id} : T[d] # fresh

\* Where a record rests, its order gets the next engine id.
Renamed(r, rests) == r.type = "new" \/ (r.type = "modify" /\ rests)
RenamedTo(T, U, r, fresh, rests) ==
    \A d \in Ids : U[d] = IF d = r.id /\ Renamed(r, rests) THEN fresh ELSE T[d]

LEMMA RecordIs ==
    ASSUME WireLegal, NEW n \in Nat, n < Len(wire)
    PROVE  /\ n + 1 \in 1 .. Len(wire) /\ wire[n + 1] \in Records /\ wire[n + 1].id \in Ids
           /\ wire[n + 1].side = Side(wire[n + 1].id)
           /\ wire[n + 1].type \in {"new", "cancel", "modify"}
           /\ IF wire[n + 1].type = "new"
                THEN \A y \in 1 .. n : wire[y].id # wire[n + 1].id
                ELSE \E y \in 1 .. n : wire[y].type = "new" /\ wire[y].id = wire[n + 1].id
<1>1. Len(wire) \in Nat /\ n + 1 \in 1 .. Len(wire) /\ (n + 1) - 1 = n
  BY LenProperties DEF WireLegal
<1>2. wire[n + 1] \in Records
  BY <1>1, ElementOfSeq DEF WireLegal
<1>3. wire[n + 1].id \in Ids /\ wire[n + 1].type \in {"new", "cancel", "modify"}
  BY <1>2 DEF Records, Ids
<1> QED
  BY <1>1, <1>2, <1>3 DEF WireLegal, Begun, FirstOfId, HasStarted

\* One record more.
LEMMA RunningNext ==
    ASSUME WireLegal, NEW n \in Nat, n < Len(wire), NEW r, r = wire[n + 1]
    PROVE  /\ r.type = "new" => Running(n + 1) = Running(n) \cup {r.id} /\ r.id \notin Running(n)
           /\ r.type = "cancel" => Running(n + 1) = Running(n) \ {r.id}
           /\ r.type = "modify" => Running(n + 1) = Running(n)
<1>1. /\ r.id \in Ids /\ r.type \in {"new", "cancel", "modify"}
      /\ r.type = "new" => \A y \in 1 .. n : wire[y].id # r.id
  BY RecordIs
<1>2. \A x \in 1 .. n + 1 : x \in 1 .. n \/ x = n + 1
  OBVIOUS
<1>3. n + 1 \in 1 .. n + 1 /\ \A x \in 1 .. n : x \in 1 .. n + 1
  OBVIOUS
<1> DEFINE Started(d, l) == \E x \in 1 .. l : wire[x].type = "new" /\ wire[x].id = d
           Stopped(d, l) == \E x \in 1 .. l : wire[x].type = "cancel" /\ wire[x].id = d
<1>4. ASSUME NEW d
      PROVE  /\ Started(d, n + 1) <=> Started(d, n) \/ (r.type = "new" /\ d = r.id)
             /\ Stopped(d, n + 1) <=> Stopped(d, n) \/ (r.type = "cancel" /\ d = r.id)
  BY <1>2, <1>3
<1>5. \A l \in {n, n + 1} : Running(l) = {d \in Ids : Started(d, l) /\ ~Stopped(d, l)}
  BY DEF Running
<1>6. r.type = "new" => ~Started(r.id, n) /\ ~Stopped(r.id, n)
  BY <1>1
<1> HIDE DEF Started, Stopped
<1>7. /\ Running(n) = {d \in Ids : Started(d, n) /\ ~Stopped(d, n)}
      /\ Running(n + 1) = {d \in Ids : Started(d, n + 1) /\ ~Stopped(d, n + 1)}
  BY <1>5
<1> QED
  BY <1>1, <1>4, <1>6, <1>7

\* An engine that answers a record under its table has the reference's book.
LEMMA RecordAlike ==
    ASSUME WireLegal, NEW n \in Nat, n < Len(wire), NEW r, r = wire[n + 1],
           NEW a, NEW T, Alike(a, BookAfter(n), Known(T, n)),
           NEW fresh, TableFits(T, fresh, r),
           NEW U, RenamedTo(T, U, r, fresh, Has(BookAfter(n), r.id))
    PROVE  /\ T[r.id] # 0 => (Has(a, T[r.id]) <=> Has(BookAfter(n), r.id))
           /\ T[r.id] = 0 => ~Has(BookAfter(n), r.id) /\ ~Has(a, 0)
           /\ Alike(Answer(a, r, T[r.id], fresh), BookAfter(n + 1), Known(U, n + 1))
<1> DEFINE b == BookAfter(n)
           P == Known(T, n)
           old == T[r.id]
           rests == Has(b, r.id)
<1>1. /\ r \in Records /\ r.id \in Ids /\ r.side = Side(r.id) /\ r.type \in {"new", "cancel", "modify"}
  BY RecordIs
<1>2. /\ r.type = "new" => Running(n + 1) = Running(n) \cup {r.id} /\ r.id \notin Running(n)
      /\ r.type = "cancel" => Running(n + 1) = Running(n) \ {r.id}
      /\ r.type = "modify" => Running(n + 1) = Running(n)
  BY RunningNext
<1>3. Running(n) \subseteq Ids
  BY DEF Running
<1>4. \A t \in P : t[2] \in Running(n) /\ t[1] = T[t[2]] /\ t[1] # 0 /\ t[3] = Side(t[2])
  BY DEF Known
<1>5. \A d \in Running(n) : T[d] # 0 => <<T[d], d, Side(d)>> \in P
  BY DEF Known
<1>6. /\ fresh \in Nat \ {0}
      /\ \A d, e \in Ids : T[d] # 0 /\ T[d] = T[e] => d = e
      /\ \A d \in Ids \ {r.id} : T[d] # fresh
  BY DEF TableFits
<1>7. \A t \in P : t[1] = old <=> t[2] = r.id
  BY <1>1, <1>3, <1>4, <1>6
<1>8. r.type = "new" => \A t \in P : t[1] # fresh /\ t[2] # r.id
  BY <1>2, <1>3, <1>4, <1>6
<1>9. Alike(Answer(a, r, old, fresh), Answer(b, r, r.id, r.id), After(P, r, fresh, rests))
  <2> HIDE DEF P, b, old, rests
  <2>1. Alike(a, b, P)
    BY DEF P, b
  <2>2. Alike(Answer(a, r, old, fresh), Answer(b, r, r.id, r.id), After(P, r, fresh, Has(b, r.id)))
    BY <1>1, <1>6, <1>7, <1>8, <2>1, AnswerAlike
  <2> QED
    BY <2>2 DEF rests
<1>10. Has(a, old) <=> rests
  BY <1>7, HasAlike
<1>11. \A t \in P : t[1] = 0 <=> t[2] = 0
  BY <1>3, <1>4, CountAssumption DEF Ids
<1>12. rests => r.id \in Running(n)
  <2> SUFFICES ASSUME rests PROVE r.id \in Running(n)
    OBVIOUS
  <2>1. /\ DOMAIN b = 1 .. Len(a) /\ \A x \in 1 .. Len(a) : <<a[x].oid, b[x].oid, b[x].side>> \in P
    BY AlikeIs DEF Twins
  <2>2. PICK x \in DOMAIN b : b[x].oid = r.id
    BY DEF Has
  <2> DEFINE t == <<a[x].oid, b[x].oid, b[x].side>>
  <2>3. t \in P /\ t[2] = r.id
    BY <2>1, <2>2
  <2> QED
    BY <1>4, <2>3
<1>13. old = 0 => ~rests
  <2> SUFFICES ASSUME old = 0, rests PROVE FALSE
    OBVIOUS
  <2>1. Alike(a, b, P) /\ \A t \in P : t[2] # r.id
    BY <1>4
  <2>2. /\ DOMAIN b = 1 .. Len(a) /\ \A x \in 1 .. Len(a) : <<a[x].oid, b[x].oid, b[x].side>> \in P
    BY <2>1, AlikeIs DEF Twins
  <2>3. PICK x \in DOMAIN b : b[x].oid = r.id
    BY DEF Has
  <2> DEFINE t == <<a[x].oid, b[x].oid, b[x].side>>
  <2>4. t \in P /\ t[2] = r.id
    BY <2>2, <2>3
  <2> QED
    BY <2>1, <2>4
<1>14. After(P, r, fresh, rests) \subseteq Known(U, n + 1)
  <2>1. \A d \in Ids : U[d] = IF d = r.id /\ (r.type = "new" \/ (r.type = "modify" /\ rests))
                                THEN fresh ELSE T[d]
    BY DEF RenamedTo, Renamed
  <2>2. ASSUME NEW t \in P, t[2] # r.id PROVE t \in Known(U, n + 1)
    <3>1. t[2] \in Running(n + 1) /\ U[t[2]] = t[1] /\ t[1] # 0
      BY <1>1, <1>2, <1>3, <1>4, <2>1, <2>2
    <3>2. t = <<U[t[2]], t[2], Side(t[2])>>
      <4>1. \E d : t = <<T[d], d, Side(d)>>
        BY DEF Known
      <4> QED
        BY <1>4, <3>1, <4>1
    <3> QED
      BY <3>1, <3>2 DEF Known
  <2>3. ASSUME r.type = "new" \/ (r.type = "modify" /\ rests)
        PROVE  <<fresh, r.id, r.side>> \in Known(U, n + 1)
    <3>1. r.id \in Running(n + 1)
      BY <1>2, <1>12, <2>3
    <3>2. U[r.id] = fresh /\ fresh # 0
      BY <1>1, <1>6, <2>1, <2>3
    <3> QED
      BY <1>1, <3>1, <3>2 DEF Known
  <2> HIDE DEF P, rests
  <2> QED
    BY <2>2, <2>3 DEF After, With, Others
<1>15. BookAfter(n + 1) = Answer(b, r, r.id, r.id)
  BY BookNext
<1>16. Alike(Answer(a, r, old, fresh), BookAfter(n + 1), Known(U, n + 1))
  <2> DEFINE c == Answer(a, r, old, fresh)
             d == BookAfter(n + 1)
             Q == After(P, r, fresh, rests)
             K == Known(U, n + 1)
  <2>1. Alike(c, d, Q) /\ Q \subseteq K
    BY <1>9, <1>14, <1>15
  <2> HIDE DEF c, d, Q, K
  <2>2. Alike(c, d, K)
    BY <2>1, AlikeMore
  <2> QED
    BY <2>2 DEF c, d, K
<1>17. ~Has(a, 0)
  <2>1. Has(a, 0) <=> Has(b, 0)
    BY <1>11, HasAlike
  <2>2. /\ DOMAIN b = 1 .. Len(a) /\ \A x \in 1 .. Len(a) : <<a[x].oid, b[x].oid, b[x].side>> \in P
    BY AlikeIs DEF Twins
  <2>3. ASSUME NEW x \in DOMAIN b, b[x].oid = 0 PROVE FALSE
    <3> DEFINE t == <<a[x].oid, b[x].oid, b[x].side>>
    <3>1. t \in P /\ t[2] = 0
      BY <2>2, <2>3
    <3> QED
      BY <1>3, <1>4, <3>1, CountAssumption DEF Ids
  <2> QED
    BY <2>1, <2>3 DEF Has
<1> QED
  BY <1>10, <1>13, <1>16, <1>17


-----------------------------------------------------------------------------
(* The tape is legal: the table that has each order under its own id.      *)

Own == [d \in Ids |-> d]

LEMMA NoneYet == ASSUME NEW P PROVE Alike(<<>>, <<>>, P)
BY EmptySeq DEF Alike

LEMMA BookFits ==
    ASSUME WireLegal
    PROVE  \A n \in 0 .. Len(wire) : Alike(BookAfter(n), BookAfter(n), Known(Own, n))
<1> DEFINE T == {n \in Nat : n <= Len(wire) => Alike(BookAfter(n), BookAfter(n), Known(Own, n))}
<1>1. Len(wire) \in Nat
  BY LenProperties DEF WireLegal
<1>2. 0 \in T
  BY BookOfNone, NoneYet
<1>3. ASSUME NEW n \in Nat, n \in T PROVE n + 1 \in T
  <2> SUFFICES ASSUME n + 1 <= Len(wire)
               PROVE  Alike(BookAfter(n + 1), BookAfter(n + 1), Known(Own, n + 1))
    OBVIOUS
  <2>1. n < Len(wire) /\ n <= Len(wire)
    BY <1>1
  <2>2. Alike(BookAfter(n), BookAfter(n), Known(Own, n))
    BY <1>3, <2>1
  <2> DEFINE r == wire[n + 1]
  <2>3. r.id \in Ids /\ r.id \in Nat \ {0} /\ Own[r.id] = r.id
    BY <2>1, RecordIs, CountAssumption DEF Ids, Own
  <2>4. TableFits(Own, r.id, r)
    BY <2>3, CountAssumption DEF TableFits, Own, Ids
  <2>5. RenamedTo(Own, Own, r, r.id, Has(BookAfter(n), r.id))
    BY DEF RenamedTo, Own
  <2>6. Alike(Answer(BookAfter(n), r, Own[r.id], r.id), BookAfter(n + 1), Known(Own, n + 1))
    <3> DEFINE fresh == r.id
    <3>1. TableFits(Own, fresh, r) /\ RenamedTo(Own, Own, r, fresh, Has(BookAfter(n), r.id))
      BY <2>4, <2>5
    <3> HIDE DEF fresh, r
    <3>2. r = wire[n + 1]
      BY DEF r
    <3>3. Alike(Answer(BookAfter(n), r, Own[r.id], fresh), BookAfter(n + 1), Known(Own, n + 1))
      BY <2>1, <2>2, <3>1, <3>2, RecordAlike
    <3> QED
      BY <3>3 DEF fresh
  <2>7. BookAfter(n + 1) = Answer(BookAfter(n), r, r.id, r.id)
    BY <2>1, BookNext
  <2> HIDE DEF r
  <2> QED
    BY <2>3, <2>6, <2>7
<1> HIDE DEF T
<1>4. Nat \subseteq T
  BY <1>2, <1>3, Playing!Induction
<1> QED
  BY <1>1, <1>4 DEF T

\* A tape starts an order once and before all else that names it, and what a record
\* finds resting has not been cancelled and is on its side.
LEMMA LegalTape == ASSUME WireLegal PROVE TapeIsLegal
<1>1. Len(wire) \in Nat /\ DOMAIN wire = 1 .. Len(wire)
  BY LenProperties DEF WireLegal
<1> DEFINE Before(x, type) == \E j \in 1 .. x - 1 : wire[j].id = wire[x].id /\ wire[j].type = type
           book(x) == BookAfter(x - 1)
<1>2. ASSUME NEW x \in 1 .. Len(wire)
      PROVE  IF wire[x].type = "new"
               THEN ~Before(x, "new") /\ ~Before(x, "modify") /\ ~Before(x, "cancel")
               ELSE /\ Before(x, "new")
                    /\ Before(x, "cancel") => ~Has(book(x), wire[x].id)
                    /\ Has(book(x), wire[x].id) => At(book(x), wire[x].id).side = wire[x].side
  <2> DEFINE n == x - 1
             r == wire[x]
             b == BookAfter(n)
  <2>1. n \in Nat /\ n < Len(wire) /\ n + 1 = x /\ n \in 0 .. Len(wire)
    BY <1>1
  <2>2. /\ r.id \in Ids /\ r.side = Side(r.id)
        /\ IF r.type = "new" THEN \A y \in 1 .. n : wire[y].id # r.id
                             ELSE \E y \in 1 .. n : wire[y].type = "new" /\ wire[y].id = r.id
    <3> HIDE DEF n
    <3> QED
      BY <2>1, RecordIs
  <2>3. Alike(b, b, Known(Own, n))
    BY <2>1, BookFits
  <2> HIDE DEF n, r, b
  <2>4. /\ DOMAIN b = 1 .. Len(b)
        /\ \A y \in 1 .. Len(b) : <<b[y].oid, b[y].oid, b[y].side>> \in Known(Own, n)
    BY <2>3, AlikeIs DEF Twins
  <2>5. ASSUME NEW y \in DOMAIN b PROVE b[y].oid \in Running(n) /\ b[y].side = Side(b[y].oid)
    <3>1. PICK d \in Running(n) : <<b[y].oid, b[y].oid, b[y].side>> = <<Own[d], d, Side(d)>>
      BY <2>4 DEF Known
    <3> QED
      BY <3>1
  <2>6. Has(b, r.id) => /\ ~\E y \in 1 .. n : wire[y].type = "cancel" /\ wire[y].id = r.id
                        /\ At(b, r.id).side = Side(r.id)
    <3> SUFFICES ASSUME Has(b, r.id)
                 PROVE  /\ ~\E y \in 1 .. n : wire[y].type = "cancel" /\ wire[y].id = r.id
                        /\ At(b, r.id).side = Side(r.id)
      OBVIOUS
    <3>1. PICK z : z = CHOOSE y \in DOMAIN b : b[y].oid = r.id
      OBVIOUS
    <3>2. z \in DOMAIN b /\ b[z].oid = r.id
      BY <3>1 DEF Has
    <3>3. r.id \in Running(n) /\ b[z].side = Side(r.id)
      BY <2>5, <3>2
    <3> QED
      BY <3>1, <3>3 DEF Running, At
  <2> QED
    BY <2>2, <2>6 DEF n, r, b
<1> QED
  BY <1>1, <1>2 DEF TapeIsLegal

\* Every tape the generator writes, whatever the placements, the lifecycles and the
\* arrival order, keeps the promises the handlers rely on.
THEOREM TapesAreLegal == Spec => []TapeIsLegal
<1>1. GenInv => TapeIsLegal
  BY WireIsLegal, LegalTape
<1> QED
  BY <1>1, GeneratorHolds, PTL


-----------------------------------------------------------------------------
(* The baseline.                                                           *)

\* Its operators on books are those of the reference.
LEMMA SameFilters ==
    ASSUME NEW b, NEW id
    PROVE  LB!Without(b, id) = Without(b, id) /\ (LB!Has(b, id) <=> Has(b, id)) /\ LB!At(b, id) = At(b, id)
<1>1. LB!Without(b, id) = Without(b, id)
  BY DEF LB!Without, LB!Filtered, LB!Joined, LB!FoldLeft, LB!MapThenFoldSet, LB!Max,
         Without, Filtered, Joined, FoldLeft, MapThenFoldSet, Max
<1> QED
  BY <1>1 DEF LB!Has, Has, LB!At, At

LEMMA SameSizes == ASSUME NEW S PROVE LB!Cardinality(S) = Cardinality(S)
BY DEF LB!Cardinality, Cardinality

LEMMA SameMakers ==
    ASSUME NEW b, NEW side, NEW limit
    PROVE  LB!Makers(b, side, limit) = Makers(b, side, limit)
<1> DEFINE met == Crossing(b, side, limit)
           Place(r) == CHOOSE x \in met : Cardinality({y \in met : Ahead(b, y, x)}) = r - 1
           Place2(r) == CHOOSE x \in met : Cardinality({y \in met : LB!Ahead(b, y, x)}) = r - 1
<1>1. LB!Crossing(b, side, limit) = met
  BY DEF LB!Crossing, LB!Opposite, LB!Accepts, Crossing, Opposite, Accepts
<1>2. \A x, y \in met : LB!Ahead(b, y, x) <=> Ahead(b, y, x)
  BY DEF LB!Ahead, LB!Better, Ahead, Better
<1> HIDE DEF met
<1>3. \A x \in met : {y \in met : LB!Ahead(b, y, x)} = {y \in met : Ahead(b, y, x)}
  BY <1>2
<1>4. ASSUME NEW r PROVE Place(r) = Place2(r)
  BY <1>3
<1>5. Makers(b, side, limit) = [r \in 1 .. Cardinality(met) |-> Place(r)]
  BY DEF Makers, met
<1>6. LB!Makers(b, side, limit) = [r \in 1 .. Cardinality(met) |-> Place2(r)]
  BY <1>1, SameSizes, SMTT(30) DEF LB!Makers
<1> HIDE DEF Place, Place2
<1> QED
  BY <1>4, <1>5, <1>6

LEMMA SameLimits ==
    ASSUME NEW b, NEW oid, NEW side, NEW limit, NEW qty
    PROVE  LB!AddLimit(b, oid, side, limit, qty) = AddLimit(b, oid, side, limit, qty)
<1>1. LB!Match(b, side, limit, qty) = Match(b, side, limit, qty)
  <2> DEFINE makers == Makers(b, side, limit)
             base == [left |-> qty, fills |-> <<>>, book |-> b]
             v == LB!FoldLeft(LB!Take, base, makers)
             w == FoldLeft(Take, base, makers)
             Live2(s) == LB!Filtered(s, LAMBDA o : o.qty > 0)
  <2>1. LB!Makers(b, side, limit) = makers
    BY SameMakers
  <2> HIDE DEF makers
  <2>2. v = w
    <3> HIDE DEF base
    <3> QED
      BY DEF LB!Take, Take, LB!Least, Least, LB!FoldLeft, LB!MapThenFoldSet, LB!Max,
             FoldLeft, MapThenFoldSet, Max
  <2>3. Live2(w.book) = Live(w.book)
    <3> HIDE DEF w
    <3> QED
      BY DEF LB!Filtered, LB!Joined, LB!FoldLeft, LB!MapThenFoldSet, LB!Max,
             Live, Filtered, Joined, FoldLeft, MapThenFoldSet, Max
  <2>4. /\ LB!Match(b, side, limit, qty) = [v EXCEPT !.book = Live2(v.book)]
        /\ Match(b, side, limit, qty) = [w EXCEPT !.book = Live(w.book)]
    BY <2>1 DEF LB!Match, Match, Live, makers
  <2> QED
    BY <2>2, <2>3, <2>4
<1> QED
  BY <1>1 DEF LB!AddLimit, AddLimit, LB!WithRest, WithRest, LB!Entry, Entry

LEMMA SameQueries ==
    ASSUME NEW b, NEW side, NEW price
    PROVE  LB!Best(b, side) = Best(b, side) /\ LB!DepthAt(b, side, price) = DepthAt(b, side, price)
<1>1. LB!Best(b, side) = Best(b, side)
  BY DEF LB!Best, Best, LB!PricesOn, PricesOn, LB!NoBid, NoBid, LB!NoAsk, NoAsk, LB!Better, Better
<1>2. LB!DepthAt(b, side, price) = DepthAt(b, side, price)
  BY DEF LB!DepthAt, DepthAt, LB!Plus, Plus, LB!FoldLeft, LB!MapThenFoldSet, LB!Max,
         FoldLeft, MapThenFoldSet, Max
<1> QED
  BY <1>1, <1>2


\* What a message takes from its record.
LEMMA MessageIs ==
    ASSUME WireLegal, NEW x \in 1 .. Len(wire), NEW r, r = wire[x], NEW m, m = Prepared(x)
    PROVE  /\ r.type \in {"new", "cancel", "modify"} /\ m.type = r.type /\ m.id = r.id
           /\ r.type # "cancel" => m.side = r.side /\ m.price = r.price /\ m.qty = r.qty
           /\ r.type = "new" => m.ioc = r.ioc
<1>1. r.type \in {"new", "cancel", "modify"}
  <2>1. wire[x] \in Records
    BY ElementOfSeq DEF WireLegal
  <2> QED
    BY <2>1 DEF Records
<1>2. CASE r.type = "new"
  BY <1>2 DEF Prepared, NewOrder
<1>3. CASE r.type = "cancel"
  BY <1>3 DEF Prepared, Cancel
<1>4. CASE r.type = "modify"
  BY <1>4 DEF Prepared, Modify
<1> QED
  BY <1>1, <1>2, <1>3, <1>4

\* Its table of orders, as a table of the ids of the tape.
OwnIs == own = [orders |-> own.orders, lb2ext |-> own.lb2ext, last |-> own.last,
                built |-> own.built, seq |-> own.seq]
OwnTable == [d \in Ids |-> IF d \in DOMAIN own.orders THEN own.orders[d] ELSE 0]

\* After n messages of the replay its book is the reference book under its numbers.
BaselineFits(n) ==
    /\ OwnIs /\ own.last \in Nat
    /\ \A d \in Ids : OwnTable[d] \in 0 .. own.last
    /\ \A d, e \in Ids : OwnTable[d] # 0 /\ OwnTable[d] = OwnTable[e] => d = e
    /\ \A x \in 1 .. Len(wire) : wire[x].id \in DOMAIN own.orders
    /\ Alike(native, BookAfter(n), Known(OwnTable, n))

\* A handler does to the book what is Answer, and numbers what it constructs.
LEMMA FeedIs ==
    ASSUME WireLegal, NEW n \in Nat, n < Len(wire), BaselineFits(n),
           LB!engine_on_batch(Prepared(n + 1)), NEW r, r = wire[n + 1],
           NEW rests, rests = Has(BookAfter(n), r.id)
    PROVE  /\ native' = Answer(native, r, OwnTable[r.id], own.last + 1)
           /\ OwnIs'
           /\ IF Renamed(r, rests)
                THEN own'.last = own.last + 1 /\ own'.orders = [own.orders EXCEPT ![r.id] = own.last + 1]
                ELSE own'.last = own.last /\ own'.orders = own.orders
<1> DEFINE m == Prepared(n + 1)
           old == OwnTable[r.id]
           fresh == own.last + 1
<1>1. /\ r.id \in Ids /\ r.type \in {"new", "cancel", "modify"} /\ n + 1 \in 1 .. Len(wire)
  BY RecordIs
<1>2. /\ m.type = r.type /\ m.id = r.id
      /\ r.type # "cancel" => m.side = r.side /\ m.price = r.price /\ m.qty = r.qty
      /\ r.type = "new" => m.ioc = r.ioc
  BY <1>1, MessageIs
<1>3. OwnIs /\ own.last \in Nat /\ fresh \in Nat \ {0} /\ fresh > own.last
  BY DEF BaselineFits
<1>4. LB!find_order(m.id) = old
  BY <1>1, <1>2 DEF LB!find_order, LB!Load, OwnTable
<1>5. TableFits(OwnTable, fresh, r)
  <2>1. \A d \in Ids : OwnTable[d] # fresh
    <3>1. \A d \in Ids : OwnTable[d] \in 0 .. own.last
      BY DEF BaselineFits
    <3> QED
      BY <1>3, <3>1
  <2> QED
    BY <1>3, <2>1 DEF TableFits, BaselineFits
<1>6. (Has(native, old) <=> rests) /\ (LB!resting(old) <=> rests)
  <2>1. PICK U : U = [d \in Ids |-> IF d = r.id /\ Renamed(r, rests) THEN fresh ELSE OwnTable[d]]
    OBVIOUS
  <2>2. RenamedTo(OwnTable, U, r, fresh, Has(BookAfter(n), r.id))
    BY <2>1 DEF RenamedTo
  <2>3. /\ old # 0 => (Has(native, old) <=> rests)
        /\ old = 0 => ~rests /\ ~Has(native, 0)
    <3> HIDE DEF fresh, m
    <3> QED
      BY <1>5, <2>2, RecordAlike DEF BaselineFits
  <2>4. LB!resting(old) <=> old # 0 /\ Has(native, old)
    BY SameFilters DEF LB!resting
  <2> QED
    BY <2>3, <2>4
<1> HIDE DEF m, old, fresh
<1>7. ASSUME own' = LB!MakeOrder(m.id, m.seq)
      PROVE  /\ own'.last = fresh /\ own'.orders = [own.orders EXCEPT ![r.id] = fresh] /\ OwnIs'
  <2>1. own' = [orders |-> [own.orders EXCEPT ![r.id] = fresh],
                lb2ext |-> [own.lb2ext EXCEPT ![fresh] = r.id],
                last |-> fresh, built |-> own.built, seq |-> m.seq]
    BY <1>2, <1>3, <1>7 DEF LB!MakeOrder, OwnIs, fresh
  <2> QED
    BY <2>1 DEF OwnIs
<1>8. CASE r.type = "new"
  <2>1. LB!engine_on_new_order(m)
    BY <1>2, <1>8 DEF LB!engine_on_batch, LB!engine_on_cancel, LB!engine_on_modify, m
  <2>2. own' = LB!MakeOrder(m.id, m.seq)
    BY <2>1 DEF LB!engine_on_new_order
  <2>3. native' = IF m.ioc THEN LB!Without(LB!AddLimit(native, fresh, m.side, m.price, m.qty).book, own'.last)
                  ELSE LB!AddLimit(native, fresh, m.side, m.price, m.qty).book
    BY <2>1 DEF LB!engine_on_new_order, fresh
  <2>4. native' = Answer(native, r, old, fresh)
    BY <1>2, <1>7, <1>8, <2>2, <2>3, SameFilters, SameLimits DEF Answer
  <2> QED
    BY <1>7, <1>8, <2>2, <2>4 DEF Renamed, old, fresh
<1>9. CASE r.type = "cancel"
  <2>1. LB!engine_on_cancel(m)
    BY <1>2, <1>9 DEF LB!engine_on_batch, LB!engine_on_new_order, LB!engine_on_modify, m
  <2>2. own' = own /\ native' = IF rests THEN LB!Without(native, old) ELSE native
    BY <1>4, <1>6, <2>1 DEF LB!engine_on_cancel
  <2>3. native' = Answer(native, r, old, fresh)
    BY <1>6, <1>9, <2>2, SameFilters DEF Answer
  <2> QED
    BY <1>3, <1>9, <2>2, <2>3 DEF Renamed, OwnIs, old, fresh
<1>10. CASE r.type = "modify"
  <2>1. LB!engine_on_modify(m)
    BY <1>2, <1>10 DEF LB!engine_on_batch, LB!engine_on_new_order, LB!engine_on_cancel, m
  <2>2. CASE rests
    <3>1. /\ own' = LB!MakeOrder(m.id, m.seq)
          /\ native' = LB!AddLimit(LB!Without(native, old), fresh, m.side, m.price, m.qty).book
      BY <1>4, <1>6, <2>1, <2>2 DEF LB!engine_on_modify, fresh
    <3>2. native' = Answer(native, r, old, fresh)
      BY <1>2, <1>6, <1>10, <2>2, <3>1, SameFilters, SameLimits DEF Answer
    <3> QED
      BY <1>7, <1>10, <2>2, <3>1, <3>2 DEF Renamed, old, fresh
  <2>3. CASE ~rests
    <3>1. own' = [own EXCEPT !.seq = m.seq] /\ native' = native
      BY <1>4, <1>6, <2>1, <2>3 DEF LB!engine_on_modify
    <3>2. own' = [orders |-> own.orders, lb2ext |-> own.lb2ext, last |-> own.last,
                  built |-> own.built, seq |-> m.seq]
      BY <1>3, <3>1 DEF OwnIs
    <3>3. native' = Answer(native, r, old, fresh)
      BY <1>6, <1>10, <2>3, <3>1 DEF Answer
    <3> QED
      BY <1>10, <2>3, <3>2, <3>3 DEF Renamed, OwnIs, old, fresh
  <2> QED
    BY <2>2, <2>3
<1> QED
  BY <1>1, <1>8, <1>9, <1>10


LEMMA SameTape ==
    ASSUME wire' = wire, NEW n
    PROVE  BookAfter(n)' = BookAfter(n) /\ Running(n)' = Running(n) /\ Prepared(n)' = Prepared(n)
<1> DEFINE messages == [x \in 1 .. n |-> Prepared(x)]
<1>1. \A x : Prepared(x)' = Prepared(x)
  BY DEF Prepared
<1>2. messages' = messages
  BY <1>1
<1>3. BookAfter(n) = Playing!Left(<<>>, messages)
  BY DEF BookAfter, Playing!Left, FoldLeft, Playing!FoldLeft, MapThenFoldSet,
         Playing!MapThenFoldSet, Max, Playing!Max
<1>4. BookAfter(n)' = Playing!Left(<<>>, messages')
  BY DEF BookAfter, Playing!Left, FoldLeft, Playing!FoldLeft, MapThenFoldSet,
         Playing!MapThenFoldSet, Max, Playing!Max
<1> HIDE DEF messages
<1>5. BookAfter(n)' = BookAfter(n)
  BY <1>2, <1>3, <1>4
<1> QED
  BY <1>1, <1>5 DEF Running

LEMMA FeedStep ==
    ASSUME WireLegal, NEW n \in Nat, n < Len(wire), BaselineFits(n),
           LB!engine_on_batch(Prepared(n + 1)), wire' = wire
    PROVE  BaselineFits(n + 1)'
<1> DEFINE r == wire[n + 1]
           rests == Has(BookAfter(n), r.id)
           fresh == own.last + 1
           U == OwnTable'
<1>1. /\ native' = Answer(native, r, OwnTable[r.id], fresh)
      /\ OwnIs'
      /\ IF Renamed(r, rests)
           THEN own'.last = fresh /\ own'.orders = [own.orders EXCEPT ![r.id] = fresh]
           ELSE own'.last = own.last /\ own'.orders = own.orders
  BY FeedIs
<1>2. r.id \in Ids /\ r.id \in DOMAIN own.orders
  <2>1. n + 1 \in 1 .. Len(wire) /\ r.id \in Ids
    BY RecordIs
  <2> QED
    BY <2>1 DEF BaselineFits
<1>3. /\ own.last \in Nat /\ fresh \in Nat \ {0} /\ fresh > own.last
      /\ \A d \in Ids : OwnTable[d] \in 0 .. own.last
      /\ \A d, e \in Ids : OwnTable[d] # 0 /\ OwnTable[d] = OwnTable[e] => d = e
      /\ \A d \in Ids : OwnTable[d] = IF d \in DOMAIN own.orders THEN own.orders[d] ELSE 0
  BY DEF BaselineFits, OwnTable
<1>4. /\ U = [d \in Ids |-> IF d \in DOMAIN own'.orders THEN own'.orders[d] ELSE 0]
      /\ Ids' = Ids
  BY DEF OwnTable, Ids
<1> HIDE DEF r, rests, U, fresh
<1>5. /\ \A d \in Ids : U[d] = IF d = r.id /\ Renamed(r, rests) THEN fresh ELSE OwnTable[d]
      /\ DOMAIN own'.orders = DOMAIN own.orders
      /\ own'.last = IF Renamed(r, rests) THEN fresh ELSE own.last
  BY <1>1, <1>2, <1>3, <1>4
<1>6. \A d \in Ids : OwnTable[d] # fresh /\ OwnTable[d] \in Nat
  BY <1>3
<1>7. \A d \in Ids : U[d] \in 0 .. own'.last
  BY <1>3, <1>5, <1>6
<1>8. \A d, e \in Ids : U[d] # 0 /\ U[d] = U[e] => d = e
  BY <1>3, <1>5, <1>6
<1>9. TableFits(OwnTable, fresh, r)
  BY <1>3, <1>6 DEF TableFits
<1>10. RenamedTo(OwnTable, U, r, fresh, Has(BookAfter(n), r.id))
  BY <1>5 DEF RenamedTo, rests
<1>11. Alike(native', BookAfter(n + 1), Known(U, n + 1))
  <2>1. r = wire[n + 1] /\ Alike(native, BookAfter(n), Known(OwnTable, n))
    BY DEF r, BaselineFits
  <2>2. PICK T : T = OwnTable
    OBVIOUS
  <2>3. PICK V : V = U
    OBVIOUS
  <2>4. Alike(Answer(native, r, T[r.id], fresh), BookAfter(n + 1), Known(V, n + 1))
    BY <1>9, <1>10, <2>1, <2>2, <2>3, RecordAlike
  <2> QED
    BY <1>1, <2>2, <2>3, <2>4
<1>12. own'.last \in Nat /\ Len(wire)' = Len(wire) /\ \A x \in 1 .. Len(wire) : wire'[x].id \in DOMAIN own'.orders
  BY <1>3, <1>5 DEF BaselineFits
<1>13. BookAfter(n + 1)' = BookAfter(n + 1) /\ Known(OwnTable, n + 1)' = Known(U, n + 1)
  <2>1. BookAfter(n + 1)' = BookAfter(n + 1) /\ Running(n + 1)' = Running(n + 1)
    BY SameTape
  <2> QED
    BY <2>1 DEF Known, U, Side
<1>14. Alike(native, BookAfter(n + 1), Known(OwnTable, n + 1))'
  BY <1>11, <1>13 DEF Alike, Twins, Orders
<1>15. /\ \A d \in Ids' : OwnTable'[d] \in 0 .. own'.last
       /\ \A d, e \in Ids' : OwnTable'[d] # 0 /\ OwnTable'[d] = OwnTable'[e] => d = e
  BY <1>4, <1>7, <1>8 DEF U
<1> QED
  BY <1>1, <1>12, <1>14, <1>15 DEF BaselineFits


-----------------------------------------------------------------------------
(* The prebuild pass makes room for every id of the tape.                  *)

BuiltFits(n) ==
    /\ OwnIs /\ own.last = 0 /\ native = <<>>
    /\ \E s \in Nat : own.orders = [d \in 0 .. s - 1 |-> 0]
    /\ \A x \in 1 .. n : wire[x].type = "new" => wire[x].id \in DOMAIN own.orders

LEMMA PrebuildBegins == ASSUME own = LB!InitOwn, native = <<>> PROVE BuiltFits(0)
<1>1. own = [orders |-> [d \in 0 .. LiquibookTable - 1 |-> 0],
             lb2ext |-> [d \in 0 .. LiquibookTable - 1 |-> 0],
             last |-> 0, built |-> 0, seq |-> 0]
  BY DEF LB!InitOwn, LB!Slots
<1>2. OwnIs /\ own.last = 0 /\ own.orders = [d \in 0 .. LiquibookTable - 1 |-> 0]
  BY <1>1 DEF OwnIs
<1> QED
  BY <1>2, AuditAssumption DEF BuiltFits

\* A table of zeros that is grown is a table of zeros with the index in it.
LEMMA GrownIs ==
    ASSUME NEW s \in Nat, NEW table, table = [d \in 0 .. s - 1 |-> 0], NEW id \in Nat
    PROVE  /\ \E t \in Nat : LB!Grown(table, id, 0) = [d \in 0 .. t - 1 |-> 0]
           /\ id \in DOMAIN LB!Grown(table, id, 0)
           /\ DOMAIN table \subseteq DOMAIN LB!Grown(table, id, 0)
<1>1. LB!Size(table) = s
  <2>1. DOMAIN table = 0 .. s - 1 /\ Cardinality(0 .. s - 1) = s
    BY FS_Interval
  <2> QED
    BY <2>1, SameSizes DEF LB!Size
<1>2. CASE id < s
  <2>1. LB!Grown(table, id, 0) = table
    BY <1>1, <1>2 DEF LB!Grown
  <2> QED
    BY <1>2, <2>1
<1>3. CASE ~(id < s)
  <2> DEFINE t == LB!Most(2 * s, id + 1)
  <2>1. t \in Nat /\ id + 1 <= t /\ s <= t
    BY <1>3 DEF LB!Most
  <2>2. LB!Grown(table, id, 0) = [d \in 0 .. t - 1 |-> LB!Load(table, d, 0)]
    BY <1>1, <1>3 DEF LB!Grown, LB!Resized
  <2>3. \A d : LB!Load(table, d, 0) = 0
    BY DEF LB!Load
  <2> HIDE DEF t
  <2>4. LB!Grown(table, id, 0) = [d \in 0 .. t - 1 |-> 0]
    BY <2>2, <2>3
  <2>5. id \in 0 .. t - 1 /\ 0 .. s - 1 \subseteq 0 .. t - 1
    BY <2>1
  <2> QED
    BY <2>1, <2>4, <2>5
<1> QED
  BY <1>2, <1>3

LEMMA PrebuildStep ==
    ASSUME WireLegal, NEW n \in Nat, n < Len(wire), BuiltFits(n),
           LB!engine_prebuild(Prepared(n + 1)), wire' = wire
    PROVE  BuiltFits(n + 1)'
<1> DEFINE m == Prepared(n + 1)
           r == wire[n + 1]
<1>1. /\ r.id \in Nat /\ r.type \in {"new", "cancel", "modify"} /\ n + 1 \in 1 .. Len(wire)
      /\ m.type = r.type /\ m.id = r.id
  <2>1. n + 1 \in 1 .. Len(wire) /\ r.id \in Ids /\ r.type \in {"new", "cancel", "modify"}
    BY RecordIs
  <2> QED
    BY <2>1, MessageIs, CountAssumption DEF Ids
<1>2. /\ own' = IF m.type = "cancel" THEN own
                ELSE [own EXCEPT !.built = own.built + 1,
                                 !.lb2ext = LB!GrowReverse(own.built + 1),
                                 !.orders = IF m.type = "new" THEN LB!Grown(own.orders, m.id, 0)
                                            ELSE own.orders]
      /\ native' = native
  BY DEF LB!engine_prebuild
<1>3. PICK s \in Nat : own.orders = [d \in 0 .. s - 1 |-> 0]
  BY DEF BuiltFits
<1> HIDE DEF m, r
<1>4. OwnIs /\ own.last = 0 /\ native = <<>>
  BY DEF BuiltFits
<1>5. PICK v : v = LB!GrowReverse(own.built + 1)
  OBVIOUS
<1>6. /\ OwnIs' /\ own'.last = 0
      /\ own'.orders = IF m.type = "new" THEN LB!Grown(own.orders, m.id, 0) ELSE own.orders
  BY <1>2, <1>4, <1>5 DEF OwnIs
<1>7. /\ \E t \in Nat : own'.orders = [d \in 0 .. t - 1 |-> 0]
      /\ DOMAIN own.orders \subseteq DOMAIN own'.orders
      /\ r.type = "new" => r.id \in DOMAIN own'.orders
  <2>1. CASE r.type = "new"
    <3>1. own'.orders = LB!Grown(own.orders, r.id, 0)
      BY <1>1, <1>6, <2>1
    <3>2. PICK table, id : table = own.orders /\ id = r.id
      OBVIOUS
    <3>3. id \in Nat /\ table = [d \in 0 .. s - 1 |-> 0]
      BY <1>1, <1>3, <3>2
    <3>4. /\ \E t \in Nat : LB!Grown(table, id, 0) = [d \in 0 .. t - 1 |-> 0]
          /\ id \in DOMAIN LB!Grown(table, id, 0)
          /\ DOMAIN table \subseteq DOMAIN LB!Grown(table, id, 0)
      BY <3>3, GrownIs
    <3> QED
      BY <3>1, <3>2, <3>4
  <2>2. CASE r.type # "new"
    BY <1>1, <1>3, <1>6, <2>2
  <2> QED
    BY <2>1, <2>2
<1>8. ASSUME NEW x \in 1 .. n + 1, wire[x].type = "new" PROVE wire[x].id \in DOMAIN own'.orders
  <2>1. CASE x = n + 1
    BY <1>7, <1>8, <2>1 DEF r
  <2>2. CASE x \in 1 .. n
    BY <1>7, <1>8, <2>2 DEF BuiltFits
  <2> QED
    BY <2>1, <2>2
<1> QED
  BY <1>2, <1>4, <1>6, <1>7, <1>8 DEF BuiltFits

\* After the pass every store of the replay is within the table.
LEMMA PrebuildEnds == ASSUME WireLegal, BuiltFits(Len(wire)) PROVE BaselineFits(0)
<1>1. PICK s \in Nat : own.orders = [d \in 0 .. s - 1 |-> 0]
  BY DEF BuiltFits
<1>2. \A d \in Ids : OwnTable[d] = 0
  BY <1>1 DEF OwnTable
<1>3. ASSUME NEW x \in 1 .. Len(wire) PROVE wire[x].id \in DOMAIN own.orders
  <2>1. CASE wire[x].type = "new"
    BY <2>1 DEF BuiltFits
  <2>2. CASE wire[x].type # "new"
    <3>1. PICK y \in 1 .. x - 1 : wire[y].type = "new" /\ wire[y].id = wire[x].id
      BY <2>2 DEF WireLegal, Begun, HasStarted
    <3>2. y \in 1 .. Len(wire)
      BY LenProperties DEF WireLegal
    <3> QED
      BY <3>1, <3>2 DEF BuiltFits
  <2> QED
    BY <2>1, <2>2
<1>4. Alike(native, BookAfter(0), Known(OwnTable, 0))
  BY BookOfNone, NoneYet DEF BuiltFits
<1> QED
  BY <1>2, <1>3, <1>4 DEF BuiltFits, BaselineFits


-----------------------------------------------------------------------------
(* The probes.                                                             *)

PicksFit == /\ DOMAIN picks = 1 .. Len(picks) /\ Len(picks) \in Nat \ {0}
            /\ \A p \in 1 .. Len(picks) : picks[p] \in 1 .. Len(wire)
            /\ \A p, q \in 1 .. Len(picks) : p < q => picks[p] < picks[q]

\* The probes made so far are those of the first done messages.
Made(done, made) == /\ done \in 0 .. Len(wire) /\ made \in 0 .. Len(picks)
                    /\ \A p \in 1 .. Len(picks) : p <= made <=> picks[p] <= done

LEMMA PicksAreMade ==
    ASSUME WireLegal, wire # <<>>, NEW ps \in audit_pick_indices(Len(wire), AUDIT_POINTS)
    PROVE  /\ DOMAIN ps = 1 .. Len(ps) /\ Len(ps) \in Nat \ {0} /\ Len(wire) \in Nat
           /\ \A p \in 1 .. Len(ps) : ps[p] \in 1 .. Len(wire)
           /\ \A p, q \in 1 .. Len(ps) : p < q => ps[p] < ps[q]
<1> DEFINE n == Least(AUDIT_POINTS, Len(wire))
<1>1. Len(wire) \in Nat \ {0} /\ AUDIT_POINTS \in Nat \ {0}
  BY EmptySeq, LenProperties, AuditAssumption DEF WireLegal
<1>2. n \in Nat \ {0}
  BY <1>1 DEF Least
<1>3. /\ ps \in [1 .. n -> 1 .. Len(wire)]
      /\ \A p, q \in 1 .. n : p < q => ps[p] < ps[q]
  <2>1. Least(AUDIT_POINTS, Len(wire)) = n
    OBVIOUS
  <2> QED
    BY <2>1 DEF audit_pick_indices
<1> HIDE DEF n
<1>4. ps \in Seq(1 .. Len(wire)) /\ Len(ps) = n
  <2>1. ps \in Seq(1 .. Len(wire))
    BY <1>2, <1>3, SeqDef
  <2> QED
    BY <1>2, <1>3, <2>1, LenProperties
<1> QED
  BY <1>1, <1>2, <1>3, <1>4

\* A step to message e, which is not beyond the next probe.
LEMMA NextProbe ==
    ASSUME Len(wire) \in Nat, PicksFit, NEW done, NEW made, Made(done, made),
           NEW e \in 1 .. Len(wire), e > done, made < Len(picks) => e <= picks[made + 1]
    PROVE  IF made < Len(picks) /\ picks[made + 1] = e THEN Made(e, made + 1) ELSE Made(e, made)
<1>1. /\ Len(picks) \in Nat /\ made \in 0 .. Len(picks) /\ done \in 0 .. Len(wire)
      /\ \A p \in 1 .. Len(picks) : picks[p] \in Nat
      /\ \A p, q \in 1 .. Len(picks) : p < q => picks[p] < picks[q]
      /\ \A p \in 1 .. Len(picks) : p <= made <=> picks[p] <= done
  BY DEF PicksFit, Made
<1>2. \A p \in 1 .. Len(picks) : p <= made => picks[p] <= e
  BY <1>1
<1>3. CASE made < Len(picks) /\ picks[made + 1] = e
  <2>1. made + 1 \in 1 .. Len(picks)
    BY <1>1, <1>3
  <2>2. \A p \in 1 .. Len(picks) : p > made + 1 => picks[p] > e
    BY <1>1, <1>3, <2>1
  <2>3. \A p \in 1 .. Len(picks) : p <= made + 1 <=> picks[p] <= e
    BY <1>1, <1>2, <1>3, <2>1, <2>2
  <2> QED
    BY <1>1, <1>3, <2>1, <2>3 DEF Made
<1>4. CASE made < Len(picks) /\ picks[made + 1] # e
  <2>1. made + 1 \in 1 .. Len(picks) /\ picks[made + 1] > e
    BY <1>1, <1>4
  <2>2. \A p \in 1 .. Len(picks) : p > made => picks[p] > e
    BY <1>1, <1>4, <2>1
  <2>3. \A p \in 1 .. Len(picks) : p <= made <=> picks[p] <= e
    BY <1>1, <1>2, <2>2
  <2> QED
    BY <1>1, <1>4, <2>3 DEF Made
<1>5. CASE ~(made < Len(picks))
  <2>1. \A p \in 1 .. Len(picks) : p <= made <=> picks[p] <= e
    BY <1>1, <1>2, <1>5
  <2> QED
    BY <1>1, <1>5, <2>1 DEF Made
<1> QED
  BY <1>3, <1>4, <1>5

\* What is recorded of a probe after message j, whatever the answers.
SnapFits(snap, j) ==
    snap = [index |-> j, best_bid |-> snap.best_bid, best_ask |-> snap.best_ask,
            probe_price |-> wire[j].price, probe_side |-> wire[j].side, depth |-> snap.depth]
SnapsFit == /\ \E T : ut_snaps \in Seq(T)
            /\ Len(ut_snaps) = audit_cur
            /\ \A p \in 1 .. audit_cur : SnapFits(ut_snaps[p], picks[p])

LEMMA TruthfulIs ==
    ASSUME NEW snap, NEW j, SnapFits(snap, j)
    PROVE  /\ snap.index = j /\ snap.probe_price = wire[j].price /\ snap.probe_side = wire[j].side
           /\ Truthful(snap) <=> /\ Best(BookAfter(j), "buy") = snap.best_bid
                                 /\ Best(BookAfter(j), "sell") = snap.best_ask
                                 /\ DepthAt(BookAfter(j), snap.probe_side, snap.probe_price) = snap.depth
<1> DEFINE b == BookAfter(j)
<1>1. snap.index = j /\ snap.probe_price = wire[j].price /\ snap.probe_side = wire[j].side
  BY DEF SnapFits
<1>2. Truthful(snap) <=> snap = [index |-> j, best_bid |-> Best(b, "buy"), best_ask |-> Best(b, "sell"),
                                 probe_price |-> wire[j].price, probe_side |-> wire[j].side,
                                 depth |-> DepthAt(b, wire[j].side, wire[j].price)]
  BY <1>1 DEF Truthful, Snapshot
<1> HIDE DEF b
<1> DEFINE bid == Best(b, "buy")
           ask == Best(b, "sell")
           depth == DepthAt(b, wire[j].side, wire[j].price)
<1>3. Truthful(snap) <=> snap = [index |-> j, best_bid |-> bid, best_ask |-> ask,
                                 probe_price |-> wire[j].price, probe_side |-> wire[j].side,
                                 depth |-> depth]
  BY <1>2
<1>4. depth = DepthAt(b, snap.probe_side, snap.probe_price)
  BY <1>1
<1> HIDE DEF bid, ask, depth
<1>5. Truthful(snap) <=> bid = snap.best_bid /\ ask = snap.best_ask /\ depth = snap.depth
  BY <1>3 DEF SnapFits
<1> QED
  BY <1>1, <1>4, <1>5 DEF b, bid, ask

\* Three comparisons.
Unequal(b1, b2, a1, a2, d1, d2) ==
    {x \in {<<"bid", b1, b2>>, <<"ask", a1, a2>>, <<"depth", d1, d2>>} : x[2] # x[3]}

LEMMA Differences ==
    ASSUME NEW b1, NEW b2, NEW a1, NEW a2, NEW d1, NEW d2
    PROVE  /\ Cardinality(Unequal(b1, b2, a1, a2, d1, d2)) \in Nat
           /\ Cardinality(Unequal(b1, b2, a1, a2, d1, d2)) = 0 <=> b1 = b2 /\ a1 = a2 /\ d1 = d2
<1> DEFINE D == Unequal(b1, b2, a1, a2, d1, d2)
<1> DEFINE E == {<<"bid", b1, b2>>} \cup ({<<"ask", a1, a2>>} \cup {<<"depth", d1, d2>>})
<1>1. IsFiniteSet(E)
  BY FS_Singleton, FS_Union
<1>2. D \subseteq E
  BY DEF Unequal
<1>3. IsFiniteSet(D)
  BY <1>1, <1>2, FS_Subset
<1>4. D = {} <=> b1 = b2 /\ a1 = a2 /\ d1 = d2
  <2>1. <<"bid", b1, b2>>[2] = b1 /\ <<"bid", b1, b2>>[3] = b2
    OBVIOUS
  <2>2. <<"ask", a1, a2>>[2] = a1 /\ <<"ask", a1, a2>>[3] = a2
    OBVIOUS
  <2>3. <<"depth", d1, d2>>[2] = d1 /\ <<"depth", d1, d2>>[3] = d2
    OBVIOUS
  <2> QED
    BY <2>1, <2>2, <2>3 DEF Unequal
<1> HIDE DEF D
<1>5. Cardinality(D) \in Nat /\ (Cardinality(D) = 0 <=> D = {})
  BY <1>3, FS_CardinalityType, FS_EmptySet
<1> QED
  BY <1>4, <1>5 DEF D


-----------------------------------------------------------------------------
(* The run and the replay.                                                 *)

Idle == /\ i = 0 /\ cur = 0 /\ native = <<>> /\ own = LB!InitOwn
        /\ audit = [ran |-> FALSE, checks |-> 0, mismatches |-> 0, passed |-> FALSE]
NotStarted == picks = <<>> /\ audit_cur = 0 /\ delivered = 0 /\ ut_snaps = <<>>

\* The tape is written and the probes follow the messages.
Started == /\ wire # <<>> /\ PicksFit /\ Made(delivered, audit_cur)
           /\ mode = "audit" => SnapsFit
Recorded == mode = "audit" /\ delivered = Len(wire) /\ audit_cur = Len(picks)

Reports == [ran : BOOLEAN, checks : Nat, mismatches : Nat, passed : BOOLEAN]
PrebuildFits == /\ i \in 0 .. Len(wire) /\ cur = 0 /\ BuiltFits(i)
                /\ audit \in Reports /\ audit.ran /\ audit.checks = 0 /\ audit.mismatches = 0

\* The comparisons made are those of the messages replayed, and found nothing just
\* when the probes they were of are truthful.
ReplayFits == /\ Made(i, cur) /\ BaselineFits(i)
              /\ audit \in Reports /\ audit.ran /\ audit.checks = 3 * cur
              /\ audit.mismatches = 0 <=> \A p \in 1 .. cur : Truthful(ut_snaps[p])

AuditInv == /\ stage \in {"generate", "timed", "prebuild", "replay", "done"}
            /\ stage = "generate" => NotStarted
            /\ stage # "generate" => Started
            /\ stage \in {"generate", "timed"} => Idle
            /\ stage \in {"prebuild", "replay"} => Recorded
            /\ stage = "prebuild" => PrebuildFits
            /\ stage = "replay" => ReplayFits
            /\ AuditIsExact

LEMMA AuditBegins == Init => AuditInv
BY DEF Init, LB!engine_init, AuditInv, NotStarted, Idle, AuditIsExact

\* What the predicates are of.
LEMMA SameRun ==
    ASSUME wire' = wire, picks' = picks, UNCHANGED <<delivered, audit_cur, ut_snaps, mode>>
    PROVE  /\ Started' <=> Started
           /\ Recorded' <=> Recorded
BY DEF Started, Recorded, PicksFit, Made, SnapsFit, SnapFits

LEMMA SameBaseline ==
    ASSUME wire' = wire, native' = native, own' = own, NEW n
    PROVE  /\ BuiltFits(n)' <=> BuiltFits(n)
           /\ BaselineFits(n)' <=> BaselineFits(n)
<1>1. BookAfter(n)' = BookAfter(n) /\ Running(n)' = Running(n)
  BY SameTape
<1>2. OwnTable' = OwnTable /\ OwnIs' = OwnIs
  BY DEF OwnTable, OwnIs, Ids
<1>3. Known(OwnTable, n)' = Known(OwnTable, n)
  BY <1>1, <1>2 DEF Known, Side
<1>4. Alike(native, BookAfter(n), Known(OwnTable, n))' <=> Alike(native, BookAfter(n), Known(OwnTable, n))
  BY <1>1, <1>3 DEF Alike, Twins, Orders
<1> QED
  BY <1>2, <1>4 DEF BuiltFits, BaselineFits, Ids

LEMMA SameTruth == ASSUME wire' = wire, NEW snap PROVE Truthful(snap)' <=> Truthful(snap)
<1>1. PICK j : j = snap.index
  OBVIOUS
<1>2. BookAfter(j)' = BookAfter(j)
  BY SameTape
<1>3. Snapshot(j, BookAfter(j))' = Snapshot(j, BookAfter(j))
  BY <1>2 DEF Snapshot, Best, DepthAt
<1> QED
  BY <1>1, <1>3 DEF Truthful

LEMMA GenerateKeepsAudit == ASSUME AuditInv, Generate PROVE AuditInv'
<1>1. /\ stage = "generate" /\ stage' = "generate" /\ NotStarted /\ Idle
      /\ UNCHANGED <<picks, audit_cur, delivered, ut_snaps, i, cur, audit, native, own>>
  BY DEF AuditInv, Generate, timed, replay, baseline
<1> QED
  BY <1>1 DEF AuditInv, NotStarted, Idle, AuditIsExact

LEMMA StartKeepsAudit == ASSUME GenInv, AuditInv, StartRun PROVE AuditInv'
<1>1. /\ stage = "generate" /\ stage' = "timed" /\ NotStarted /\ Idle /\ wire # <<>> /\ wire' = wire
      /\ picks' \in audit_pick_indices(Len(wire), AUDIT_POINTS)
      /\ UNCHANGED <<audit_cur, delivered, ut_snaps, i, cur, audit, native, own>>
  BY DEF AuditInv, StartRun, generator, replay, baseline
<1>2. PicksFit' /\ Made(0, 0)'
  <2>1. PICK ps : ps = picks'
    OBVIOUS
  <2>2. /\ DOMAIN ps = 1 .. Len(ps) /\ Len(ps) \in Nat \ {0} /\ Len(wire) \in Nat
        /\ \A p \in 1 .. Len(ps) : ps[p] \in 1 .. Len(wire)
        /\ \A p, q \in 1 .. Len(ps) : p < q => ps[p] < ps[q]
    BY <1>1, <2>1, WireIsLegal, PicksAreMade
  <2> QED
    BY <1>1, <2>1, <2>2 DEF PicksFit, Made
<1>3. SnapsFit'
  <2>1. ut_snaps' = <<>> /\ audit_cur' = 0 /\ <<>> \in Seq({}) /\ Len(<<>>) = 0
    BY <1>1, EmptySeq DEF NotStarted
  <2> QED
    BY <2>1 DEF SnapsFit
<1>4. Idle'
  BY <1>1 DEF Idle
<1>5. Started'
  BY <1>1, <1>2, <1>3 DEF Started, NotStarted
<1> QED
  BY <1>1, <1>4, <1>5 DEF AuditInv, AuditIsExact

\* A batch ends at a probe or before the next one.
LEMMA StopIs ==
    ASSUME Len(wire) \in Nat, Started, delivered < Len(wire)
    PROVE  /\ NextStop \in 1 .. Len(wire) /\ NextStop > delivered
           /\ IF ProbeDue(NextStop) THEN Made(NextStop, audit_cur + 1) ELSE Made(NextStop, audit_cur)
<1> DEFINE c == audit_cur
<1>1. /\ PicksFit /\ Made(delivered, c) /\ delivered \in 0 .. Len(wire) /\ c \in 0 .. Len(picks)
      /\ Len(picks) \in Nat
      /\ \A p \in 1 .. Len(picks) : picks[p] \in 1 .. Len(wire)
      /\ \A p \in 1 .. Len(picks) : p <= c <=> picks[p] <= delivered
  BY DEF Started, PicksFit, Made
<1>2. c < Len(picks) => picks[c + 1] \in 1 .. Len(wire) /\ picks[c + 1] > delivered
  <2> SUFFICES ASSUME c < Len(picks)
               PROVE  picks[c + 1] \in 1 .. Len(wire) /\ picks[c + 1] > delivered
    OBVIOUS
  <2>1. c + 1 \in 1 .. Len(picks) /\ ~(c + 1 <= c)
    BY <1>1
  <2> QED
    BY <1>1, <2>1
<1>3. /\ NextStop \in 1 .. Len(wire) /\ NextStop > delivered
      /\ c < Len(picks) => NextStop <= picks[c + 1]
  <2>1. CASE ~batched
    <3>1. NextStop = delivered + 1
      BY <2>1 DEF NextStop
    <3> QED
      BY <1>1, <1>2, <3>1
  <2>2. CASE batched /\ c < Len(picks)
    BY <1>1, <1>2, <2>2 DEF NextStop
  <2>3. CASE batched /\ ~(c < Len(picks))
    BY <1>1, <2>3 DEF NextStop
  <2> QED
    BY <2>1, <2>2, <2>3
<1>4. PICK e : e = NextStop
  OBVIOUS
<1>5. IF c < Len(picks) /\ picks[c + 1] = e THEN Made(e, c + 1) ELSE Made(e, c)
  BY <1>1, <1>3, <1>4, NextProbe
<1> QED
  BY <1>3, <1>4, <1>5 DEF ProbeDue

LEMMA DeliverKeepsAudit ==
    ASSUME GenInv, AuditInv, NEW skip \in 0 .. Len(wire), Deliver(skip) PROVE AuditInv'
<1> DEFINE last == NextStop
<1>1. /\ stage = "timed" /\ stage' = "timed" /\ delivered < Len(wire) /\ delivered' = last
      /\ wire' = wire /\ picks' = picks /\ mode' = mode
      /\ UNCHANGED <<i, cur, audit, native, own>>
  BY DEF Deliver, generator, replay, baseline
<1>2. Len(wire) \in Nat
  BY WireIsLegal, LenProperties DEF WireLegal
<1>3. Started /\ Idle
  BY <1>1 DEF AuditInv
<1>4. /\ last \in 1 .. Len(wire) /\ last > delivered
      /\ IF ProbeDue(last) THEN Made(last, audit_cur + 1) ELSE Made(last, audit_cur)
  BY <1>1, <1>2, <1>3, StopIs
<1>5. /\ IF ProbeDue(last) THEN audit_cur' = audit_cur + 1 ELSE audit_cur' = audit_cur
      /\ mode = "audit" => IF ProbeDue(last) THEN \E b : ut_snaps' = Append(ut_snaps, Snapshot(last, b))
                                             ELSE ut_snaps' = ut_snaps
  BY DEF Deliver
<1>6. PicksFit' /\ Made(delivered, audit_cur)'
  BY <1>1, <1>3, <1>4, <1>5 DEF Started, PicksFit, Made
<1>7. ASSUME mode = "audit" PROVE SnapsFit'
  <2>1. SnapsFit /\ audit_cur \in Nat
    BY <1>3, <1>7 DEF Started, Made
  <2>2. CASE ~ProbeDue(last)
    BY <1>1, <1>5, <1>7, <2>1, <2>2 DEF SnapsFit, SnapFits
  <2>3. CASE ProbeDue(last)
    <3>1. PICK b : ut_snaps' = Append(ut_snaps, Snapshot(last, b))
      BY <1>5, <1>7, <2>3
    <3>2. PICK T : ut_snaps \in Seq(T)
      BY <2>1 DEF SnapsFit
    <3>3. PICK snap : snap = Snapshot(last, b)
      OBVIOUS
    <3>4. SnapFits(snap, last)
      <4>1. snap = [index |-> last, best_bid |-> Best(b, "buy"), best_ask |-> Best(b, "sell"),
                    probe_price |-> wire[last].price, probe_side |-> wire[last].side,
                    depth |-> DepthAt(b, wire[last].side, wire[last].price)]
        BY <3>3 DEF Snapshot
      <4> QED
        BY <4>1 DEF SnapFits
    <3>5. ut_snaps \in Seq(T \cup {snap}) /\ snap \in T \cup {snap}
      BY <3>2
    <3>6. /\ ut_snaps' \in Seq(T \cup {snap}) /\ Len(ut_snaps') = audit_cur + 1
          /\ \A p \in 1 .. audit_cur : ut_snaps'[p] = ut_snaps[p]
          /\ ut_snaps'[audit_cur + 1] = snap
      <4>1. Len(ut_snaps) = audit_cur
        BY <2>1 DEF SnapsFit
      <4> QED
        BY <2>1, <3>1, <3>3, <3>5, <4>1, AppendProperties
    <3>7. picks[audit_cur + 1] = last
      BY <2>3 DEF ProbeDue
    <3>8. \A p \in 1 .. audit_cur + 1 : p \in 1 .. audit_cur \/ p = audit_cur + 1
      BY <2>1
    <3>9. \A p \in 1 .. audit_cur + 1 : SnapFits(ut_snaps'[p], picks[p])
      <4>1. \A p \in 1 .. audit_cur : SnapFits(ut_snaps'[p], picks[p])
        BY <2>1, <3>6 DEF SnapsFit
      <4> QED
        BY <3>4, <3>6, <3>7, <3>8, <4>1
    <3>10. audit_cur' = audit_cur + 1
      BY <1>5, <2>3
    <3>11. \A p \in 1 .. audit_cur' : SnapFits(ut_snaps[p], picks[p])'
      BY <1>1, <3>9, <3>10 DEF SnapFits
    <3> QED
      BY <3>6, <3>10, <3>11 DEF SnapsFit
  <2> QED
    BY <2>2, <2>3
<1>8. Started'
  BY <1>1, <1>3, <1>6, <1>7 DEF Started
<1>9. Idle'
  BY <1>1, <1>3 DEF Idle
<1> QED
  BY <1>1, <1>8, <1>9 DEF AuditInv, AuditIsExact

\* All delivered, no probe is missing.
LEMMA AllMade == ASSUME Len(wire) \in Nat, PicksFit, NEW made, Made(Len(wire), made) PROVE made = Len(picks)
<1>1. /\ Len(picks) \in Nat \ {0} /\ made \in 0 .. Len(picks)
      /\ \A p \in 1 .. Len(picks) : picks[p] \in 1 .. Len(wire) /\ (p <= made <=> picks[p] <= Len(wire))
  BY DEF PicksFit, Made
<1>2. Len(picks) \in 1 .. Len(picks)
  BY <1>1
<1> QED
  BY <1>1, <1>2

LEMMA NoAuditKeeps == ASSUME AuditInv, NoAudit PROVE AuditInv'
<1>1. /\ stage = "timed" /\ stage' = "done" /\ wire' = wire /\ picks' = picks /\ audit' = audit
      /\ UNCHANGED <<delivered, audit_cur, ut_snaps, mode>>
  BY DEF NoAudit, generator, timed, replay
<1>2. Started' /\ ~audit.ran
  BY <1>1, SameRun DEF AuditInv, Idle
<1> QED
  BY <1>1, <1>2 DEF AuditInv, AuditIsExact

LEMMA StartAuditKeeps == ASSUME GenInv, AuditInv, StartAudit PROVE AuditInv'
<1>1. /\ stage = "timed" /\ wire' = wire /\ picks' = picks /\ mode = "audit" /\ delivered = Len(wire)
      /\ audit' = [audit EXCEPT !.ran = TRUE]
      /\ stage' = IF ut_snaps = <<>> THEN "replay" ELSE "prebuild"
      /\ UNCHANGED <<delivered, audit_cur, ut_snaps, mode, i, cur, native, own>>
  BY DEF StartAudit, generator, timed, baseline
<1>2. Started' /\ Started /\ Idle
  BY <1>1, SameRun DEF AuditInv
<1>3. Len(wire) \in Nat
  BY WireIsLegal, LenProperties DEF WireLegal
<1>4. audit_cur = Len(picks) /\ Recorded'
  <2>1. audit_cur = Len(picks)
    BY <1>1, <1>2, <1>3, AllMade DEF Started
  <2> QED
    BY <1>1, <2>1 DEF Recorded
<1>5. ut_snaps # <<>>
  <2>1. Len(ut_snaps) = audit_cur /\ audit_cur \in Nat \ {0} /\ Len(<<>>) = 0
    BY <1>1, <1>2, <1>4, EmptySeq DEF Started, SnapsFit, PicksFit
  <2> QED
    BY <2>1
<1>6. audit' = [ran |-> TRUE, checks |-> 0, mismatches |-> 0, passed |-> FALSE]
  BY <1>1, <1>2 DEF Idle
<1>7. BuiltFits(0)'
  BY <1>1, <1>2, PrebuildBegins, SameBaseline DEF Idle
<1>8. i' = 0 /\ cur' = 0 /\ Len(wire)' = Len(wire) /\ audit' \in Reports
  <2>1. audit' \in Reports
    BY <1>6 DEF Reports
  <2>2. i = 0 /\ cur = 0
    BY <1>2 DEF Idle
  <2> QED
    BY <1>1, <2>1, <2>2
<1>9. BuiltFits(i)'
  BY <1>7, <1>8 DEF BuiltFits, OwnIs
<1>10. PrebuildFits'
  BY <1>3, <1>6, <1>8, <1>9 DEF PrebuildFits
<1> QED
  BY <1>1, <1>2, <1>4, <1>5, <1>10 DEF AuditInv, AuditIsExact

LEMMA PrebuildKeepsAudit == ASSUME GenInv, AuditInv, prebuild_msg PROVE AuditInv'
<1>1. /\ stage = "prebuild" /\ stage' = "prebuild" /\ wire' = wire /\ picks' = picks
      /\ i < Len(wire) /\ LB!engine_prebuild(Prepared(i + 1)) /\ i' = i + 1
      /\ UNCHANGED <<delivered, audit_cur, ut_snaps, mode, cur, audit>>
  BY DEF prebuild_msg, generator, timed
<1>2. Started' /\ Recorded' /\ PrebuildFits
  BY <1>1, SameRun DEF AuditInv
<1>3. Len(wire) \in Nat /\ WireLegal
  BY WireIsLegal, LenProperties DEF WireLegal
<1>4. PICK n \in Nat : n = i
  BY <1>2, <1>3 DEF PrebuildFits
<1>5. BuiltFits(n + 1)'
  BY <1>1, <1>2, <1>3, <1>4, PrebuildStep DEF PrebuildFits
<1>6. BuiltFits(i)'
  BY <1>1, <1>4, <1>5 DEF BuiltFits, OwnIs
<1>7. PrebuildFits'
  BY <1>1, <1>2, <1>3, <1>6 DEF PrebuildFits, Reports
<1> QED
  BY <1>1, <1>2, <1>7 DEF AuditInv, AuditIsExact

LEMMA StartReplayKeeps == ASSUME GenInv, AuditInv, StartReplay PROVE AuditInv'
<1>1. /\ stage = "prebuild" /\ stage' = "replay" /\ wire' = wire /\ picks' = picks
      /\ i = Len(wire) /\ i' = 0
      /\ UNCHANGED <<delivered, audit_cur, ut_snaps, mode, cur, audit, native, own>>
  BY DEF StartReplay, generator, timed, baseline
<1>2. Started' /\ Started /\ Recorded' /\ PrebuildFits
  BY <1>1, SameRun DEF AuditInv
<1>3. Len(wire) \in Nat /\ WireLegal
  BY WireIsLegal, LenProperties DEF WireLegal
<1>4. BaselineFits(0)'
  BY <1>1, <1>2, <1>3, PrebuildEnds, SameBaseline DEF PrebuildFits
<1>5. BaselineFits(i)'
  <2>1. PICK n : n = i'
    OBVIOUS
  <2> QED
    BY <1>1, <1>4 DEF BaselineFits, Known, Running, BookAfter
<1>6. Made(i, cur)'
  BY <1>1, <1>2, <1>3 DEF Made, PrebuildFits, Started, PicksFit
<1>7. ReplayFits'
  BY <1>1, <1>2, <1>5, <1>6 DEF ReplayFits, PrebuildFits, Reports
<1> QED
  BY <1>1, <1>2, <1>7 DEF AuditInv, AuditIsExact

\* The comparison after message n finds nothing just when the probe was truthful.
LEMMA Compared ==
    ASSUME WireLegal, wire' = wire, NEW n, BaselineFits(n)', NEW ut, SnapFits(ut, n)
    PROVE  Mismatches(ut) \in Nat /\ (Mismatches(ut) = 0 <=> Truthful(ut))
<1>1. PICK a : a = native'
  OBVIOUS
<1>2. PICK b : b = BookAfter(n)
  OBVIOUS
<1>3. PICK P : Alike(a, b, P)
  <2>1. Alike(native, BookAfter(n), Known(OwnTable, n))'
    BY DEF BaselineFits
  <2>2. BookAfter(n)' = b
    BY <1>2, SameTape
  <2> QED
    BY <1>1, <2>1, <2>2 DEF Alike, Twins, Orders
<1>4. /\ LB!engine_query_best_bid' = LB!Best(a, "buy")
      /\ LB!engine_query_best_ask' = LB!Best(a, "sell")
      /\ LB!engine_query_depth_at(ut.probe_price, ut.probe_side)' = LB!DepthAt(a, ut.probe_side, ut.probe_price)
  BY <1>1 DEF LB!engine_query_best_bid, LB!engine_query_best_ask, LB!engine_query_depth_at,
              LB!Best, LB!DepthAt
<1>5. /\ LB!engine_query_best_bid' = Best(b, "buy")
      /\ LB!engine_query_best_ask' = Best(b, "sell")
      /\ LB!engine_query_depth_at(ut.probe_price, ut.probe_side)' = DepthAt(b, ut.probe_side, ut.probe_price)
  BY <1>3, <1>4, SameQueries, QueriesAlike
<1>6. Mismatches(ut) = Cardinality({x \in {<<"bid", Best(b, "buy"), ut.best_bid>>,
                                           <<"ask", Best(b, "sell"), ut.best_ask>>,
                                           <<"depth", DepthAt(b, ut.probe_side, ut.probe_price), ut.depth>>}
                                      : x[2] # x[3]})
  BY <1>5 DEF Mismatches
<1>7. Truthful(ut) <=> /\ Best(b, "buy") = ut.best_bid
                       /\ Best(b, "sell") = ut.best_ask
                       /\ DepthAt(b, ut.probe_side, ut.probe_price) = ut.depth
  BY <1>2, TruthfulIs
<1>8. PICK bid, ask, depth : /\ bid = Best(b, "buy") /\ ask = Best(b, "sell")
                             /\ depth = DepthAt(b, ut.probe_side, ut.probe_price)
  OBVIOUS
<1>9. PICK bid2, ask2, depth2 : bid2 = ut.best_bid /\ ask2 = ut.best_ask /\ depth2 = ut.depth
  OBVIOUS
<1>10. Mismatches(ut) = Cardinality(Unequal(bid, bid2, ask, ask2, depth, depth2))
  BY <1>6, <1>8, <1>9 DEF Unequal
<1>11. /\ Cardinality(Unequal(bid, bid2, ask, ask2, depth, depth2)) \in Nat
       /\ Cardinality(Unequal(bid, bid2, ask, ask2, depth, depth2)) = 0
             <=> bid = bid2 /\ ask = ask2 /\ depth = depth2
  BY ONLY Differences
<1> QED
  BY <1>7, <1>8, <1>9, <1>10, <1>11

LEMMA ReplayKeepsAudit == ASSUME GenInv, AuditInv, Replay PROVE AuditInv'
<1>1. /\ stage = "replay" /\ stage' = "replay" /\ wire' = wire /\ picks' = picks
      /\ i < Len(wire) /\ cur < Len(ut_snaps) /\ LB!engine_on_batch(Prepared(i + 1)) /\ i' = i + 1
      /\ UNCHANGED <<delivered, audit_cur, ut_snaps, mode>>
  BY DEF Replay, feed, generator, timed
<1>2. Started' /\ Started /\ Recorded' /\ Recorded /\ ReplayFits
  BY <1>1, SameRun DEF AuditInv
<1>3. Len(wire) \in Nat /\ WireLegal
  BY WireIsLegal, LenProperties DEF WireLegal
<1>4. PICK n \in Nat : n = i + 1 /\ i \in Nat /\ n \in 1 .. Len(wire)
  BY <1>1, <1>2, <1>3 DEF ReplayFits, Made
<1>5. BaselineFits(n)'
  <2>1. PICK l \in Nat : l = i
    BY <1>4
  <2>2. BaselineFits(l + 1)'
    BY <1>1, <1>2, <1>3, <2>1, FeedStep DEF ReplayFits
  <2>3. l + 1 = n
    BY <1>4, <2>1
  <2> QED
    BY <2>2, <2>3
<1>6. BaselineFits(i)'
  BY <1>1, <1>4, <1>5 DEF BaselineFits, OwnIs, Known, Running, BookAfter
<1>7. /\ PicksFit /\ SnapsFit /\ Len(ut_snaps) = Len(picks) /\ Made(i, cur) /\ Len(picks) \in Nat
      /\ cur \in Nat /\ cur + 1 \in 1 .. Len(picks)
      /\ SnapFits(ut_snaps[cur + 1], picks[cur + 1]) /\ ut_snaps[cur + 1].index = picks[cur + 1]
  <2>1. PicksFit /\ SnapsFit /\ Len(ut_snaps) = Len(picks) /\ Made(i, cur) /\ Len(picks) \in Nat
    BY <1>2 DEF Started, Recorded, SnapsFit, ReplayFits, PicksFit
  <2>2. cur \in Nat /\ cur + 1 \in 1 .. Len(picks)
    BY <1>1, <2>1 DEF Made
  <2>3. SnapFits(ut_snaps[cur + 1], picks[cur + 1])
    BY <1>2, <2>1, <2>2 DEF SnapsFit, Recorded
  <2>4. ut_snaps[cur + 1].index = picks[cur + 1]
    BY <2>3, TruthfulIs
  <2> QED
    BY <2>1, <2>2, <2>3, <2>4
<1>8. Due <=> picks[cur + 1] = n
  BY <1>4, <1>7 DEF Due
<1>9. IF Due THEN Made(n, cur + 1) ELSE Made(n, cur)
  <2>1. n > i /\ n <= picks[cur + 1]
    <3>1. ~(cur + 1 <= cur) /\ picks[cur + 1] \in Nat
      BY <1>7 DEF PicksFit
    <3>2. picks[cur + 1] > i
      BY <1>4, <1>7, <3>1 DEF Made
    <3> QED
      BY <1>4, <3>1, <3>2
  <2>2. IF cur < Len(picks) /\ picks[cur + 1] = n THEN Made(n, cur + 1) ELSE Made(n, cur)
    BY <1>3, <1>4, <1>7, <2>1, NextProbe
  <2> QED
    BY <1>7, <1>8, <2>2
<1>10. /\ audit \in Reports /\ audit.ran /\ audit.checks = 3 * cur
       /\ audit.mismatches = 0 <=> \A p \in 1 .. cur : Truthful(ut_snaps[p])
  BY <1>2 DEF ReplayFits
<1>11. \A p : Truthful(ut_snaps[p])' <=> Truthful(ut_snaps[p])
  <2> SUFFICES ASSUME NEW p PROVE Truthful(ut_snaps[p])' <=> Truthful(ut_snaps[p])
    OBVIOUS
  <2>1. PICK snap : snap = ut_snaps[p]
    OBVIOUS
  <2>2. snap = ut_snaps'[p]
    BY <1>1, <2>1
  <2>3. Truthful(snap)' <=> Truthful(snap)
    BY <1>1, SameTruth
  <2> QED
    BY <2>1, <2>2, <2>3 DEF Truthful, Snapshot, BookAfter
<1>12. CASE Due
  <2>1. PICK ut : ut = ut_snaps[cur + 1]
    OBVIOUS
  <2>2. /\ audit' = [audit EXCEPT !.checks = audit.checks + 3,
                                  !.mismatches = audit.mismatches + Mismatches(ut)]
        /\ cur' = cur + 1
    BY <1>12, <2>1 DEF Replay
  <2>3. Mismatches(ut) \in Nat /\ (Mismatches(ut) = 0 <=> Truthful(ut))
    BY <1>1, <1>3, <1>5, <1>7, <1>8, <1>12, <2>1, Compared
  <2>4. PICK x \in Nat : x = Mismatches(ut)
    BY <2>3
  <2>5. /\ audit' \in Reports /\ audit'.ran /\ audit'.checks = 3 * cur'
        /\ audit'.mismatches = audit.mismatches + x
    <3>1. audit' = [audit EXCEPT !.checks = audit.checks + 3, !.mismatches = audit.mismatches + x]
      BY <2>2, <2>4
    <3>2. /\ audit' \in Reports /\ audit'.ran /\ audit'.checks = audit.checks + 3
          /\ audit'.mismatches = audit.mismatches + x
      <4>1. PICK checks \in Nat, found \in Nat : checks = audit.checks + 3 /\ found = audit.mismatches + x
        BY <1>10, <2>4 DEF Reports
      <4>2. audit' = [audit EXCEPT !.checks = checks, !.mismatches = found]
        BY <3>1, <4>1
      <4> QED
        BY <1>10, <4>1, <4>2 DEF Reports
    <3> QED
      BY <1>7, <1>10, <2>2, <3>2
  <2>6. audit'.mismatches = 0 <=> audit.mismatches = 0 /\ x = 0
    BY <1>10, <2>4, <2>5 DEF Reports
  <2>7. \A p \in 1 .. cur + 1 : p \in 1 .. cur \/ p = cur + 1
    BY <1>7
  <2>8. audit'.mismatches = 0 <=> \A p \in 1 .. cur + 1 : Truthful(ut_snaps[p])
    <3>1. 1 .. cur \subseteq 1 .. cur + 1 /\ cur + 1 \in 1 .. cur + 1
      BY <1>7
    <3> QED
      BY <1>10, <2>1, <2>3, <2>4, <2>6, <2>7, <3>1
  <2>9. audit'.mismatches = 0 <=> \A p \in 1 .. cur' : Truthful(ut_snaps[p])'
    BY <1>11, <2>2, <2>8
  <2>10. Made(i, cur)'
    BY <1>1, <1>4, <1>9, <1>12, <2>2 DEF Made
  <2>11. ReplayFits'
    BY <1>6, <2>5, <2>9, <2>10 DEF ReplayFits, Reports
  <2> QED
    BY <1>1, <1>2, <2>11 DEF AuditInv, AuditIsExact
<1>13. CASE ~Due
  <2>1. audit' = audit /\ cur' = cur
    BY <1>13 DEF Replay
  <2>2. Made(i, cur)'
    BY <1>1, <1>4, <1>9, <1>13, <2>1 DEF Made
  <2>3. audit'.mismatches = 0 <=> \A p \in 1 .. cur' : Truthful(ut_snaps[p])'
    BY <1>10, <1>11, <2>1
  <2>4. ReplayFits'
    BY <1>6, <1>10, <2>1, <2>2, <2>3 DEF ReplayFits, Reports
  <2> QED
    BY <1>1, <1>2, <2>4 DEF AuditInv, AuditIsExact
<1> QED
  BY <1>12, <1>13

LEMMA JudgeKeepsAudit == ASSUME GenInv, AuditInv, Judge PROVE AuditInv'
<1>1. /\ stage = "replay" /\ stage' = "done" /\ wire' = wire /\ picks' = picks
      /\ i = Len(wire) \/ cur = Len(ut_snaps)
      /\ audit_ok' = (audit.checks > 0 /\ audit.mismatches = 0)
      /\ audit' = [audit EXCEPT !.passed = (audit.checks > 0 /\ audit.mismatches = 0)]
      /\ UNCHANGED <<delivered, audit_cur, ut_snaps, mode>>
  BY DEF Judge, generator, timed
<1>2. Started' /\ Started /\ Recorded /\ ReplayFits
  BY <1>1, SameRun DEF AuditInv
<1>3. Len(wire) \in Nat
  BY WireIsLegal, LenProperties DEF WireLegal
<1>4. /\ PicksFit /\ SnapsFit /\ Len(ut_snaps) = Len(picks) /\ Made(i, cur) /\ audit_cur = Len(picks)
      /\ DOMAIN picks = 1 .. Len(picks) /\ Len(picks) \in Nat \ {0}
  BY <1>2 DEF Started, Recorded, SnapsFit, ReplayFits, PicksFit
<1>5. cur = Len(picks)
  BY <1>1, <1>3, <1>4, AllMade
<1>6. /\ audit \in Reports /\ audit.checks = 3 * cur
      /\ audit.mismatches = 0 <=> \A p \in 1 .. cur : Truthful(ut_snaps[p])
  BY <1>2 DEF ReplayFits
<1>7. audit'.checks = 3 * Len(picks)
  BY <1>1, <1>5, <1>6 DEF Reports
<1>8. audit_ok' <=> \A p \in DOMAIN picks : Truthful(ut_snaps[p])
  <2>1. audit.checks > 0
    BY <1>4, <1>5, <1>6
  <2>2. audit_ok' <=> audit.mismatches = 0
    BY <1>1, <2>1
  <2> QED
    BY <1>4, <1>5, <1>6, <2>2
<1>9. \A p \in DOMAIN picks : ut_snaps[p].index = picks[p]
  <2> SUFFICES ASSUME NEW p \in DOMAIN picks PROVE ut_snaps[p].index = picks[p]
    OBVIOUS
  <2>1. SnapFits(ut_snaps[p], picks[p])
    BY <1>4 DEF SnapsFit
  <2> QED
    BY <2>1, TruthfulIs
<1>10. \A p \in DOMAIN picks : Truthful(ut_snaps[p])' <=> Truthful(ut_snaps[p])
  <2> SUFFICES ASSUME NEW p \in DOMAIN picks PROVE Truthful(ut_snaps[p])' <=> Truthful(ut_snaps[p])
    OBVIOUS
  <2>1. PICK snap : snap = ut_snaps[p]
    OBVIOUS
  <2>2. snap = ut_snaps'[p]
    BY <1>1, <2>1
  <2>3. Truthful(snap)' <=> Truthful(snap)
    BY <1>1, SameTruth
  <2> QED
    BY <2>1, <2>2, <2>3 DEF Truthful, Snapshot, BookAfter
<1>11. AuditIsExact'
  BY <1>1, <1>7, <1>8, <1>9, <1>10 DEF AuditIsExact
<1> QED
  BY <1>1, <1>2, <1>11 DEF AuditInv

LEMMA StutterKeepsAudit == ASSUME AuditInv, UNCHANGED vars PROVE AuditInv'
<1>1. UNCHANGED <<wire, picks, delivered, audit_cur, ut_snaps, mode, stage, i, cur, audit, audit_ok,
                  native, own>>
  BY DEF vars, generator, timed, replay, baseline
<1>2. (Started' <=> Started) /\ (Recorded' <=> Recorded)
  BY <1>1, SameRun
<1>3. /\ BuiltFits(i)' <=> BuiltFits(i)
      /\ BaselineFits(i)' <=> BaselineFits(i)
  <2>1. PICK n : n = i
    OBVIOUS
  <2>2. (BuiltFits(n)' <=> BuiltFits(n)) /\ (BaselineFits(n)' <=> BaselineFits(n))
    BY <1>1, SameBaseline
  <2>3. n = i'
    BY <1>1, <2>1
  <2> QED
    BY <2>1, <2>2, <2>3 DEF BuiltFits, BaselineFits, Known, Running, BookAfter
<1>4. \A p : Truthful(ut_snaps[p])' <=> Truthful(ut_snaps[p])
  <2> SUFFICES ASSUME NEW p PROVE Truthful(ut_snaps[p])' <=> Truthful(ut_snaps[p])
    OBVIOUS
  <2>1. PICK snap : snap = ut_snaps[p]
    OBVIOUS
  <2>2. snap = ut_snaps'[p]
    BY <1>1, <2>1
  <2>3. Truthful(snap)' <=> Truthful(snap)
    BY <1>1, SameTruth
  <2> QED
    BY <2>1, <2>2, <2>3 DEF Truthful, Snapshot, BookAfter
<1>5. PrebuildFits' <=> PrebuildFits
  BY <1>1, <1>3 DEF PrebuildFits, Reports
<1>6. ReplayFits' <=> ReplayFits
  BY <1>1, <1>3, <1>4 DEF ReplayFits, Reports, Made
<1>7. AuditIsExact' <=> AuditIsExact
  BY <1>1, <1>4 DEF AuditIsExact
<1> QED
  BY <1>1, <1>2, <1>5, <1>6, <1>7 DEF AuditInv, NotStarted, Idle

\* The audit passes exactly the engines that answered every probe as the reference
\* book would: the baseline is the reference after every message of the replay,
\* whatever the tape, the probes and the faults.
THEOREM AuditsAreExact == Spec => []AuditIsExact
<1>1. Init => AuditInv
  BY AuditBegins
<1>2. GenInv /\ AuditInv /\ [Next]_vars => AuditInv'
  <2> SUFFICES ASSUME GenInv, AuditInv, [Next]_vars PROVE AuditInv'
    OBVIOUS
  <2>1. ASSUME NEW skip \in 0 .. Len(wire), Deliver(skip) PROVE AuditInv'
    BY <2>1, DeliverKeepsAudit
  <2> QED
    BY <2>1, GenerateKeepsAudit, StartKeepsAudit, NoAuditKeeps, StartAuditKeeps, PrebuildKeepsAudit,
       StartReplayKeeps, ReplayKeepsAudit, JudgeKeepsAudit, StutterKeepsAudit DEF Next
<1>3. AuditInv => AuditIsExact
  BY DEF AuditInv
<1> QED
  BY <1>1, <1>2, <1>3, GeneratorHolds, PTL DEF Spec
=============================================================================
