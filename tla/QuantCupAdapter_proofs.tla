----------------------- MODULE QuantCupAdapter_proofs -----------------------
(***************************************************************************)
(* Proofs about the QuantCup baseline for every workload, every number of  *)
(* price points and every arena size.                                      *)
(*                                                                         *)
(* The shadow and the engine's book are kept by different code, and only   *)
(* an order's handle (qcid) ties them.  What makes that handle good at any *)
(* time is more than the properties say: every list holds its entries in   *)
(* the order in which they joined it, entry numbers grow and are given     *)
(* once, an entry with something left names an order that rests under that *)
(* very handle, and the prebuilt order under each cursor is the message in *)
(* hand.  Inv is the conjunction; one lemma per action shows that the step *)
(* keeps it.  The same facts make every step a step of MatchingContract:   *)
(* the head of the best level is the maker that price-time priority picks. *)
(***************************************************************************)
EXTENDS QuantCupAdapter, TLAPS, FiniteSetTheorems, SequenceTheorems

-----------------------------------------------------------------------------
(* The invariant.                                                          *)

OrderState == [price : Prices, qty : Nat, side : Sides, alive : BOOLEAN,
               qcid : 0 .. kMaxNumOrders - 1]
Native == [trader : Ids, side : Sides, price : Int, size : Nat]
Slot == [trader : Ids \cup {0}, size : Nat]

Types ==
    /\ aborted \in BOOLEAN /\ running \in BOOLEAN
    /\ tape \in Seq(Message) /\ delivered \in 0 .. Len(tape)
    /\ g_orders \in [Ids -> OrderState]
    /\ g_pre \in Seq(Native) /\ g_pre_modify \in Seq(Native)
    /\ g_taker_left \in Nat /\ g_taker_side \in Sides
    /\ arena \in [Entries -> Slot]
    /\ points \in [Prices -> Seq(Entries)]
    /\ askMin \in 1 .. kNumPricePoints /\ bidMax \in 0 .. kNumPricePoints - 1
    /\ curOrderID \in 0 .. kMaxNumOrders - 1

\* The tape: new orders at prices the engine has, each id started once.
TapeFits ==
    /\ \A i \in 1 .. Len(tape) : tape[i].type = "new" => PriceInRange(tape[i].price)
    /\ \A i, j \in 1 .. Len(tape) :
          tape[i].type = "new" /\ tape[j].type = "new" /\ tape[i].id = tape[j].id => i = j
    /\ ~running => delivered = 0 /\ Idle

\* The k-th message of a type finds the k-th order prebuilt for that type.
Upto(t, type, n) == {i \in 1 .. n : t[i].type = type}
IsPrebuilt(t, g, type) ==
    /\ Len(g) = Cardinality(Upto(t, type, Len(t)))
    /\ \A i \in 1 .. Len(t) :
          t[i].type = type => g[Cardinality(Upto(t, type, i))] = Translate(t[i])
CursorsFit ==
    /\ IsPrebuilt(tape, g_pre, "new") /\ IsPrebuilt(tape, g_pre_modify, "modify")
    /\ g_pre_idx = Cardinality(Upto(tape, "new", delivered))
    /\ g_pre_modify_idx = Cardinality(Upto(tape, "modify", delivered))

\* The limit() calls counted are the ones the tape can still make.
Busy == IF Idle THEN 0 ELSE 1
RoomFits ==
    /\ g_limit_calls \in 0 .. kMaxNumOrders - 1
    /\ delivered = 0 => g_limit_calls = Cardinality(Remaining) /\ curOrderID = 0 /\ Idle
    /\ curOrderID + Busy + Cardinality(Remaining) <= kMaxNumOrders - 1

\* The call in progress is for the message in hand.
CallFits ==
    ~Idle =>
      /\ delivered \in 1 .. Len(tape)
      /\ msg.type \in {"new", "modify"} /\ PriceInRange(msg.price)
      /\ call = [order |-> Translate(msg), orderSize |-> g_taker_left]
      /\ g_taker_left \in 0 .. msg.qty
      /\ g_taker_id = msg.id /\ g_taker_side = msg.side /\ g_seq = delivered
      /\ g_orders[msg.id].alive <=> msg.type = "modify"

\* An order that is alive has started.
Known == \A id \in Ids : g_orders[id].alive =>
             \E i \in 1 .. delivered : tape[i].type = "new" /\ tape[i].id = id

Lists(p, e) == \E i \in 1 .. Len(points[p]) : points[p][i] = e

Rests(id) == g_orders[id].alive /\ ~InFlight(id)

\* The handle of a resting order names its entry, in the list of its price, and
\* the best prices bracket it.
OrderFits(id) ==
    Rests(id) =>
      LET s == g_orders[id] IN
      /\ PriceInRange(s.price) /\ s.qty > 0 /\ s.qcid \in 1 .. curOrderID
      /\ Lists(s.price, s.qcid)
      /\ arena[s.qcid] = [trader |-> id, size |-> s.qty]
      /\ IF s.side = "buy" THEN s.price <= bidMax ELSE s.price >= askMin

\* An entry with something left belongs to the order it names.
EntryFits(p, e) ==
    /\ e \in 1 .. curOrderID
    /\ arena[e].size > 0 =>
         LET id == arena[e].trader IN
         id \in Ids /\ Rests(id) /\ g_orders[id].qcid = e /\ g_orders[id].price = p

\* A list holds its entries in the order in which they joined it.
LevelFits(p) ==
    /\ \A i \in 1 .. Len(points[p]) : EntryFits(p, points[p][i])
    /\ \A i, j \in 1 .. Len(points[p]) : i < j => points[p][i] < points[p][j]

BookFits == /\ bidMax < askMin
            /\ \A id \in Ids : OrderFits(id)
            /\ \A p \in Prices : LevelFits(p)

Inv == Types /\ TapeFits /\ CursorsFit /\ RoomFits /\ CallFits /\ Known /\ BookFits
-----------------------------------------------------------------------------
(* Numbers, messages and calls.                                            *)

LEMMA EncodeId == ASSUME NEW id \in Ids PROVE encode_id(id) = id
<1>1. id \in Int /\ IdSpace \in Nat /\ 0 <= id /\ id < IdSpace
  BY QuantCupAssumption
<1>2. id % IdSpace = id
  BY <1>1
<1> QED
  BY <1>2 DEF encode_id

LEMMA LargerOf == ASSUME NEW a \in Int, NEW b \in Int
                  PROVE  Max({a, b}) = IF a >= b THEN a ELSE b
<1> DEFINE m == IF a >= b THEN a ELSE b
<1>1. m \in {a, b} /\ \A y \in {a, b} : m >= y
  OBVIOUS
<1>2. \A x \in {a, b} : (\A y \in {a, b} : x >= y) => x = m
  OBVIOUS
<1> HIDE DEF m
<1>3. (CHOOSE x \in {a, b} : \A y \in {a, b} : x >= y) = m
  BY <1>1, <1>2
<1> QED
  BY <1>3 DEF Max, m

LEMMA SmallerOf == ASSUME NEW a \in Int, NEW b \in Int
                   PROVE  Min({a, b}) = IF a <= b THEN a ELSE b
<1> DEFINE m == IF a <= b THEN a ELSE b
<1>1. m \in {a, b} /\ \A y \in {a, b} : m <= y
  OBVIOUS
<1>2. \A x \in {a, b} : (\A y \in {a, b} : x <= y) => x = m
  OBVIOUS
<1> HIDE DEF m
<1>3. (CHOOSE x \in {a, b} : \A y \in {a, b} : x <= y) = m
  BY <1>1, <1>2
<1> QED
  BY <1>3 DEF Min, m

\* What the messages of each type carry.
LEMMA MessageFields ==
    ASSUME NEW m \in Message
    PROVE  /\ m.type \in {"new", "cancel", "modify"} /\ m.id \in Ids
           /\ m.type = "new" => m.ioc \in BOOLEAN
           /\ m.type # "cancel" => /\ m.side \in Sides /\ m.price \in Int
                                  /\ m.qty \in Quantities /\ m.qty \in Nat \ {0}
                                  /\ Translate(m) \in Native
                                  /\ Translate(m).trader = m.id
<1>1. /\ m.type \in {"new", "cancel", "modify"} /\ m.id \in Ids
      /\ m.type = "new" => m.ioc \in BOOLEAN
      /\ m.type # "cancel" => m.side \in Sides /\ m.price \in Int /\ m.qty \in Quantities
  BY DEF Message
<1>2. m.type # "cancel" => m.qty \in Nat \ {0}
  BY <1>1, QuantCupAssumption
<1>3. encode_id(m.id) = m.id
  BY <1>1, EncodeId
<1> QED
  BY <1>1, <1>2, <1>3 DEF Translate, Native

LEMMA CallNotIdle ==
    ASSUME NEW order, NEW n PROVE [order |-> order, orderSize |-> n] # NoCall
<1>1. "order" \in DOMAIN [order |-> order, orderSize |-> n]
  OBVIOUS
<1>2. "order" \notin DOMAIN NoCall
  BY DEF NoCall
<1> QED
  BY <1>1, <1>2

-----------------------------------------------------------------------------
(* Counting the messages of a type.                                        *)

LEMMA UptoFinite ==
    ASSUME NEW t, NEW type, NEW n \in Nat
    PROVE  /\ IsFiniteSet(Upto(t, type, n)) /\ Cardinality(Upto(t, type, n)) \in Nat
           /\ \A k \in 1 .. n : Cardinality(Upto(t, type, k)) <= Cardinality(Upto(t, type, n))
<1>1. \A k \in Nat : Upto(t, type, k) \subseteq 1 .. k
  BY DEF Upto
<1>2. \A k \in Nat : IsFiniteSet(1 .. k)
  BY FS_Interval
<1>3. \A k \in Nat : IsFiniteSet(Upto(t, type, k)) /\ Cardinality(Upto(t, type, k)) \in Nat
  BY <1>1, <1>2, FS_Subset, FS_CardinalityType
<1>4. \A k \in 1 .. n : Upto(t, type, k) \subseteq Upto(t, type, n)
  BY DEF Upto
<1> QED
  BY <1>3, <1>4, FS_Subset

LEMMA UptoNext ==
    ASSUME NEW t, NEW type, NEW n \in Nat
    PROVE  Cardinality(Upto(t, type, n + 1)) = Cardinality(Upto(t, type, n))
              + (IF t[n + 1].type = type THEN 1 ELSE 0)
<1>1. IsFiniteSet(Upto(t, type, n)) /\ Cardinality(Upto(t, type, n)) \in Nat
  BY UptoFinite
<1>2. n + 1 \notin Upto(t, type, n)
  BY DEF Upto
<1>3. CASE t[n + 1].type = type
  <2>1. Upto(t, type, n + 1) = Upto(t, type, n) \cup {n + 1}
    BY <1>3 DEF Upto
  <2> QED
    BY <1>1, <1>2, <1>3, <2>1, FS_AddElement
<1>4. CASE t[n + 1].type # type
  <2>1. Upto(t, type, n + 1) = Upto(t, type, n)
    BY <1>4 DEF Upto
  <2> QED
    BY <1>1, <1>4, <2>1
<1> QED
  BY <1>3, <1>4

\* The message in hand finds its order under the cursor.
LEMMA NextPrebuilt ==
    ASSUME Inv, NEW type, NEW g, IsPrebuilt(tape, g, type),
           delivered < Len(tape), tape[delivered + 1].type = type
    PROVE  /\ g[Cardinality(Upto(tape, type, delivered)) + 1] = Translate(tape[delivered + 1])
           /\ Cardinality(Upto(tape, type, delivered)) + 1 <= Len(g)
<1>1. delivered \in Nat /\ Len(tape) \in Nat /\ delivered + 1 \in 1 .. Len(tape)
  BY LenProperties DEF Inv, Types
<1>2. Cardinality(Upto(tape, type, delivered + 1)) = Cardinality(Upto(tape, type, delivered)) + 1
  BY <1>1, UptoNext
<1>3. Cardinality(Upto(tape, type, delivered + 1)) <= Cardinality(Upto(tape, type, Len(tape)))
  BY <1>1, UptoFinite
<1> QED
  BY <1>1, <1>2, <1>3 DEF IsPrebuilt

LEMMA RemainingNext ==
    ASSUME tape \in Seq(Message), delivered \in 0 .. Len(tape) - 1,
           tape' = tape, delivered' = delivered + 1
    PROVE  /\ IsFiniteSet(Remaining) /\ Cardinality(Remaining) \in Nat
           /\ Cardinality(Remaining') = Cardinality(Remaining)
                - (IF tape[delivered + 1].type = "cancel" THEN 0 ELSE 1)
<1>1. Len(tape) \in Nat /\ delivered \in Nat /\ delivered + 1 \in 1 .. Len(tape)
  BY LenProperties
<1>2. Remaining \subseteq 1 .. Len(tape) /\ IsFiniteSet(1 .. Len(tape))
  BY <1>1, FS_Interval DEF Remaining
<1>3. IsFiniteSet(Remaining) /\ Cardinality(Remaining) \in Nat
  BY <1>2, FS_Subset, FS_CardinalityType
<1>4. CASE tape[delivered + 1].type = "cancel"
  <2>1. Remaining' = Remaining
    BY <1>1, <1>4 DEF Remaining
  <2> QED
    BY <1>3, <1>4, <2>1
<1>5. CASE tape[delivered + 1].type # "cancel"
  <2>1. Remaining' = Remaining \ {delivered + 1} /\ delivered + 1 \in Remaining
    BY <1>1, <1>5 DEF Remaining
  <2>2. Cardinality(Remaining \ {delivered + 1}) = Cardinality(Remaining) - 1
    BY <1>3, <2>1, FS_RemoveElement
  <2> QED
    BY <1>3, <1>5, <2>1, <2>2
<1> QED
  BY <1>3, <1>4, <1>5
-----------------------------------------------------------------------------
(* engine_init, engine_prebuild and the start of the run.                  *)

LEMMA InitInv == Init => Inv
<1> SUFFICES ASSUME Init PROVE Inv
  OBVIOUS
<1>1. /\ kNumPricePoints \in Nat \ {0} /\ kMaxNumOrders \in Nat \ {0}
      /\ \A id \in Ids : id \in Int /\ 0 <= id /\ id < IdSpace
  BY QuantCupAssumption
<1>2. Idle
  BY DEF Init, Idle
<1>3. tape = <<>> /\ Len(tape) = 0 /\ g_pre = <<>> /\ g_pre_modify = <<>> /\ delivered = 0
  BY DEF Init
<1>4. \A type : Upto(tape, type, 0) = {}
  BY DEF Upto
<1>5. Cardinality({}) = 0
  BY FS_EmptySet
<1>6. Types
  <2>1. DeadOrder \in OrderState
    BY <1>1 DEF DeadOrder, OrderState, Prices, Sides
  <2>2. [trader |-> 0, size |-> 0] \in Slot
    BY DEF Slot
  <2>3. /\ arena \in [Entries -> Slot] /\ g_orders \in [Ids -> OrderState]
        /\ points \in [Prices -> Seq(Entries)]
    BY <2>1, <2>2 DEF Init, Entries
  <2>4. tape \in Seq(Message) /\ g_pre \in Seq(Native) /\ g_pre_modify \in Seq(Native)
    BY <1>3
  <2>5. delivered \in 0 .. Len(tape)
    BY <1>3
  <2>6. /\ askMin \in 1 .. kNumPricePoints /\ bidMax \in 0 .. kNumPricePoints - 1
        /\ curOrderID \in 0 .. kMaxNumOrders - 1
    BY <1>1 DEF Init
  <2>7. /\ aborted \in BOOLEAN /\ running \in BOOLEAN
        /\ g_taker_left \in Nat /\ g_taker_side \in Sides
    BY DEF Init, Sides
  <2> QED
    BY <2>3, <2>4, <2>5, <2>6, <2>7 DEF Types
<1>7. TapeFits
  BY <1>2, <1>3 DEF TapeFits
<1>8. CursorsFit
  <2>1. IsPrebuilt(tape, g_pre, "new") /\ IsPrebuilt(tape, g_pre_modify, "modify")
    <3>1. 1 .. Len(tape) = {} /\ Len(g_pre) = 0 /\ Len(g_pre_modify) = 0
      BY <1>3
    <3>2. \A type : Cardinality(Upto(tape, type, Len(tape))) = 0
      BY <1>3, <1>4, <1>5
    <3> QED
      BY <3>1, <3>2 DEF IsPrebuilt
  <2> QED
    BY <1>3, <1>4, <1>5, <2>1 DEF CursorsFit, Init
<1>9. RoomFits
  <2>1. Remaining = {}
    BY <1>3 DEF Remaining
  <2> QED
    BY <1>1, <1>2, <1>5, <2>1 DEF Init, RoomFits, Busy
<1>10. CallFits
  BY <1>2 DEF CallFits
<1>11. Known /\ \A id \in Ids : OrderFits(id)
  BY DEF Init, Known, OrderFits, Rests, DeadOrder
<1>12. \A p \in Prices : LevelFits(p)
  <2>1. \A p \in Prices : Len(points[p]) = 0
    BY DEF Init
  <2> QED
    BY <2>1 DEF LevelFits
<1>13. bidMax < askMin
  BY <1>1 DEF Init
<1> QED
  BY <1>6, <1>7, <1>8, <1>9, <1>10, <1>11, <1>12, <1>13 DEF Inv, BookFits

\* The book, the shadow and what rests in them do not change.
LEMMA BookFrame ==
    ASSUME BookFits, UNCHANGED <<g_orders, arena, points, askMin, bidMax, curOrderID>>,
           \A id \in Ids : Rests(id)' <=> Rests(id)
    PROVE  BookFits'
<1>1. \A id \in Ids : OrderFits(id)'
  BY DEF BookFits, OrderFits, Lists
<1>2. \A p \in Prices, e \in Entries : EntryFits(p, e) => EntryFits(p, e)'
  BY DEF EntryFits
<1>3. ASSUME NEW p \in Prices PROVE LevelFits(p)'
  <2>1. \A e : EntryFits(p, e) => EntryFits(p, e)'
    BY DEF EntryFits
  <2>2. LevelFits(p)
    BY DEF BookFits
  <2> QED
    BY <2>1, <2>2 DEF LevelFits
<1> QED
  BY <1>1, <1>3 DEF BookFits

LEMMA UnchangedKeeps == ASSUME Inv, UNCHANGED <<tape, running, g_pre, g_pre_modify,
                                  g_limit_calls, delivered, g_orders, cursors, takerVars,
                                  engine, call>>, aborted' \in BOOLEAN
                        PROVE  Inv'
<1>0. UNCHANGED <<g_pre_idx, g_pre_modify_idx, g_seq, g_taker_id, g_taker_left,
                  g_taker_side, arena, points, askMin, bidMax, curOrderID>>
  BY DEF cursors, takerVars, engine
<1>1. (Idle' <=> Idle) /\ msg' = msg /\ \A id \in Ids : Rests(id)' <=> Rests(id)
  BY DEF Idle, msg, Rests, InFlight
<1>2. Types' /\ TapeFits' /\ CursorsFit' /\ Known'
  BY <1>0, <1>1 DEF Inv, Types, TapeFits, CursorsFit, Known
<1>3. RoomFits'
  BY <1>0, <1>1 DEF Inv, RoomFits, Busy, Remaining
<1>4. CallFits'
  BY <1>0, <1>1 DEF Inv, CallFits
<1>5. BookFits'
  BY <1>0, <1>1, BookFrame DEF Inv
<1> QED
  BY <1>2, <1>3, <1>4, <1>5 DEF Inv

LEMMA StartRunKeeps == ASSUME Inv, StartRun PROVE Inv'
<1>0. /\ running' = TRUE
      /\ UNCHANGED <<aborted, tape, g_pre, g_pre_modify, g_limit_calls, delivered, g_orders,
                     g_pre_idx, g_pre_modify_idx, g_seq, g_taker_id, g_taker_left,
                     g_taker_side, arena, points, askMin, bidMax, curOrderID, call>>
  BY DEF StartRun, cursors, takerVars, engine
<1>1. (Idle' <=> Idle) /\ msg' = msg /\ \A id \in Ids : Rests(id)' <=> Rests(id)
  BY <1>0 DEF Idle, msg, Rests, InFlight
<1>2. Types' /\ TapeFits' /\ CursorsFit' /\ Known'
  BY <1>0, <1>1 DEF Inv, Types, TapeFits, CursorsFit, Known
<1>3. RoomFits'
  BY <1>0, <1>1 DEF Inv, RoomFits, Busy, Remaining
<1>4. CallFits'
  BY <1>0, <1>1 DEF Inv, CallFits
<1>5. BookFits'
  BY <1>0, <1>1, BookFrame DEF Inv
<1> QED
  BY <1>2, <1>3, <1>4, <1>5 DEF Inv

\* One more message, and one more native order if it is of the type.
LEMMA PrebuiltGrows ==
    ASSUME NEW t \in Seq(Message), NEW m \in Message, NEW type, NEW g \in Seq(Native),
           IsPrebuilt(t, g, type), NEW h, type # "cancel",
           h = IF m.type = type THEN Append(g, Translate(m)) ELSE g
    PROVE  /\ h \in Seq(Native) /\ IsPrebuilt(Append(t, m), h, type)
           /\ \A n \in 0 .. Len(t) : Upto(Append(t, m), type, n) = Upto(t, type, n)
<1> DEFINE u == Append(t, m)
           N == Len(t)
<1>1. /\ N \in Nat /\ Len(u) = N + 1 /\ u[N + 1] = m
      /\ \A i \in 1 .. N : u[i] = t[i]
  BY AppendProperties, LenProperties
<1>2. \A n \in 0 .. N : Upto(u, type, n) = Upto(t, type, n)
  BY <1>1 DEF Upto
<1> HIDE DEF u
<1>3. Cardinality(Upto(u, type, N + 1)) =
        Cardinality(Upto(t, type, N)) + (IF m.type = type THEN 1 ELSE 0)
  <2>1. N \in 0 .. N
    BY <1>1
  <2>2. Cardinality(Upto(u, type, N + 1)) =
          Cardinality(Upto(u, type, N)) + (IF u[N + 1].type = type THEN 1 ELSE 0)
    BY <1>1, UptoNext
  <2> QED
    BY <1>1, <1>2, <2>1, <2>2
<1>4. Len(g) = Cardinality(Upto(t, type, N)) /\ Len(g) \in Nat
  BY LenProperties DEF IsPrebuilt
<1>5. \A i \in 1 .. N : t[i].type = type => Cardinality(Upto(t, type, i)) \in 1 .. Len(g)
  <2> SUFFICES ASSUME NEW i \in 1 .. N, t[i].type = type
               PROVE  Cardinality(Upto(t, type, i)) \in 1 .. Len(g)
    OBVIOUS
  <2>1. /\ IsFiniteSet(Upto(t, type, i)) /\ Cardinality(Upto(t, type, i)) \in Nat
        /\ Cardinality(Upto(t, type, i)) <= Len(g)
    BY <1>1, <1>4, UptoFinite
  <2>2. i \in Upto(t, type, i)
    BY DEF Upto
  <2>3. Cardinality(Upto(t, type, i)) # 0
    BY <2>1, <2>2, FS_EmptySet
  <2> QED
    BY <1>4, <2>1, <2>3
<1>6. CASE m.type = type
  <2>1. Translate(m) \in Native
    BY <1>6, MessageFields
  <2>2. /\ h \in Seq(Native) /\ Len(h) = Len(g) + 1 /\ h[Len(g) + 1] = Translate(m)
        /\ \A k \in 1 .. Len(g) : h[k] = g[k]
    BY <1>6, <2>1, AppendProperties
  <2>3. ASSUME NEW i \in 1 .. N + 1, u[i].type = type
        PROVE  h[Cardinality(Upto(u, type, i))] = Translate(u[i])
    <3>1. CASE i = N + 1
      BY <1>1, <1>3, <1>4, <1>6, <2>2, <3>1
    <3>2. CASE i \in 1 .. N
      BY <1>1, <1>2, <1>5, <2>2, <2>3, <3>2 DEF IsPrebuilt
    <3>3. i = N + 1 \/ i \in 1 .. N
      BY <1>1
    <3> QED
      BY <3>1, <3>2, <3>3
  <2>4. Len(h) = Cardinality(Upto(u, type, Len(u)))
    BY <1>1, <1>3, <1>4, <1>6, <2>2
  <2> QED
    BY <1>1, <1>2, <2>2, <2>3, <2>4 DEF IsPrebuilt, u
<1>7. CASE m.type # type
  <2>1. h = g
    BY <1>7
  <2>2. ASSUME NEW i \in 1 .. N + 1, u[i].type = type
        PROVE  h[Cardinality(Upto(u, type, i))] = Translate(u[i])
    <3>1. i \in 1 .. N
      BY <1>1, <1>7, <2>2
    <3> QED
      BY <1>1, <1>2, <2>1, <2>2, <3>1 DEF IsPrebuilt
  <2>3. Len(h) = Cardinality(Upto(u, type, Len(u)))
    BY <1>1, <1>3, <1>4, <1>7, <2>1
  <2> QED
    BY <1>1, <1>2, <2>1, <2>2, <2>3 DEF IsPrebuilt, u
<1> QED
  BY <1>6, <1>7

LEMMA PrebuildKeeps ==
    ASSUME Inv, NEW m, Follows(m), engine_prebuild(m)
    PROVE  Inv'
<1>1. CASE Abort
  BY <1>1, UnchangedKeeps DEF Abort, prebuildVars
<1>2. CASE ~Abort
  <2>1. /\ ~running /\ m \in Message /\ StartsOnce(m)
        /\ m.type = "new" => PriceInRange(m.price)
        /\ m.type # "cancel" => ~ArenaExhausted(g_limit_calls + 1)
        /\ tape' = Append(tape, m)
        /\ g_limit_calls' = IF m.type = "cancel" THEN g_limit_calls ELSE g_limit_calls + 1
        /\ g_pre' = IF m.type = "new" THEN Append(g_pre, Translate(m)) ELSE g_pre
        /\ g_pre_modify' = IF m.type = "modify" THEN Append(g_pre_modify, Translate(m))
                           ELSE g_pre_modify
        /\ UNCHANGED <<aborted, running, delivered, g_orders, g_pre_idx, g_pre_modify_idx,
                       g_seq, g_taker_id, g_taker_left, g_taker_side, arena, points,
                       askMin, bidMax, curOrderID, call>>
    BY <1>2 DEF Follows, engine_prebuild, cursors, takerVars, engine
  <2>2. delivered = 0 /\ Idle /\ Idle'
    BY <2>1 DEF Inv, TapeFits, Idle
  <2>3. /\ tape \in Seq(Message) /\ tape' \in Seq(Message)
        /\ Len(tape) \in Nat /\ Len(tape') = Len(tape) + 1
        /\ tape'[Len(tape) + 1] = m /\ \A i \in 1 .. Len(tape) : tape'[i] = tape[i]
    BY <2>1, AppendProperties, LenProperties DEF Inv, Types
  <2>4. m.type \in {"new", "cancel", "modify"}
    BY <2>1, MessageFields
  <2>5. /\ g_pre' \in Seq(Native) /\ IsPrebuilt(tape', g_pre', "new")
        /\ g_pre_modify' \in Seq(Native) /\ IsPrebuilt(tape', g_pre_modify', "modify")
        /\ Upto(tape', "new", 0) = Upto(tape, "new", 0)
        /\ Upto(tape', "modify", 0) = Upto(tape, "modify", 0)
    <3>1. 0 \in 0 .. Len(tape)
      BY <2>3
    <3> QED
      BY <2>1, <2>3, <3>1, PrebuiltGrows DEF Inv, Types, CursorsFit
  <2>6. Types'
    BY <2>1, <2>2, <2>3, <2>5 DEF Inv, Types
  <2>7. TapeFits'
    <3>1. \A i \in 1 .. Len(tape') : tape'[i].type = "new" => PriceInRange(tape'[i].price)
      BY <2>1, <2>3 DEF Inv, TapeFits
    <3>2. ASSUME NEW i \in 1 .. Len(tape'), NEW j \in 1 .. Len(tape'),
                 tape'[i].type = "new", tape'[j].type = "new", tape'[i].id = tape'[j].id
          PROVE  i = j
      <4>1. \A k \in 1 .. Len(tape) : m.type = "new" /\ tape[k].type = "new" => tape[k].id # m.id
        BY <2>1, <2>3, LenProperties DEF StartsOnce
      <4>2. (i \in 1 .. Len(tape) \/ i = Len(tape) + 1) /\ (j \in 1 .. Len(tape) \/ j = Len(tape) + 1)
        BY <2>3
      <4>3. \A k \in 1 .. Len(tape) : tape'[k] = tape[k]
        BY <2>3
      <4>4. tape'[Len(tape) + 1] = m
        BY <2>3
      <4>5. CASE i \in 1 .. Len(tape) /\ j \in 1 .. Len(tape)
        BY <3>2, <4>3, <4>5 DEF Inv, TapeFits
      <4>6. CASE i \in 1 .. Len(tape) /\ j = Len(tape) + 1
        BY <3>2, <4>1, <4>3, <4>4, <4>6
      <4>7. CASE i = Len(tape) + 1 /\ j \in 1 .. Len(tape)
        BY <3>2, <4>1, <4>3, <4>4, <4>7
      <4> QED
        BY <4>2, <4>5, <4>6, <4>7
    <3> QED
      BY <2>1, <2>2, <3>1, <3>2 DEF TapeFits
  <2>8. CursorsFit'
    BY <2>1, <2>2, <2>5 DEF Inv, CursorsFit
  <2>9. RoomFits'
    <3>1. IsFiniteSet(Remaining) /\ Cardinality(Remaining) \in Nat
      <4>1. Remaining \subseteq 1 .. Len(tape) /\ IsFiniteSet(1 .. Len(tape))
        BY <2>2, <2>3, FS_Interval DEF Remaining
      <4> QED
        BY <4>1, FS_Subset, FS_CardinalityType
    <3>2. Remaining' = IF m.type = "cancel" THEN Remaining ELSE Remaining \cup {Len(tape) + 1}
      BY <2>1, <2>2, <2>3 DEF Remaining
    <3>3. Len(tape) + 1 \notin Remaining
      BY <2>3 DEF Remaining
    <3>4. Cardinality(Remaining') = Cardinality(Remaining) + (IF m.type = "cancel" THEN 0 ELSE 1)
      <4>1. Cardinality(Remaining \cup {Len(tape) + 1}) = Cardinality(Remaining) + 1
        BY <3>1, <3>3, FS_AddElement
      <4>2. CASE m.type = "cancel"
        BY <3>1, <3>2, <4>2
      <4>3. CASE m.type # "cancel"
        BY <3>2, <4>1, <4>3
      <4> QED
        BY <4>2, <4>3
    <3>5. g_limit_calls' = Cardinality(Remaining') /\ curOrderID' = 0
      BY <2>1, <2>2, <3>4 DEF Inv, RoomFits
    <3>6. g_limit_calls' \in 0 .. kMaxNumOrders - 1
      BY <2>1, QuantCupAssumption DEF Inv, RoomFits, ArenaExhausted
    <3> QED
      BY <2>2, <3>5, <3>6, QuantCupAssumption DEF RoomFits, Busy
  <2>10. CallFits' /\ Known'
    BY <2>1, <2>2 DEF Inv, CallFits, Known
  <2>11. BookFits'
    <3>1. \A id \in Ids : Rests(id)' <=> Rests(id)
      BY <2>1, <2>2 DEF Rests, InFlight
    <3> QED
      BY <2>1, <3>1, BookFrame DEF Inv
  <2> QED
    BY <2>6, <2>7, <2>8, <2>9, <2>10, <2>11 DEF Inv
<1> QED
  BY <1>1, <1>2
-----------------------------------------------------------------------------
(* Deliver.                                                                *)

\* What follows from the cursors and counts alone when a message is taken.
LEMMA DeliverRest ==
    ASSUME Inv, CanDeliver, UNCHANGED prebuildVars, delivered' = delivered + 1,
           curOrderID' = curOrderID,
           g_pre_idx' = g_pre_idx + (IF tape[delivered + 1].type = "new" THEN 1 ELSE 0),
           g_pre_modify_idx' = g_pre_modify_idx
                                 + (IF tape[delivered + 1].type = "modify" THEN 1 ELSE 0),
           Idle' \/ tape[delivered + 1].type # "cancel",
           \A id \in Ids : g_orders'[id].alive => g_orders[id].alive
    PROVE  TapeFits' /\ CursorsFit' /\ RoomFits' /\ Known'
<1>1. /\ running /\ Idle /\ delivered < Len(tape)
      /\ UNCHANGED <<tape, running, g_pre, g_pre_modify, g_limit_calls>>
  BY DEF CanDeliver, prebuildVars
<1>2. delivered \in Nat /\ Len(tape) \in Nat /\ delivered \in 0 .. Len(tape) - 1
      /\ tape \in Seq(Message)
  BY <1>1, LenProperties DEF Inv, Types
<1>3. TapeFits'
  BY <1>1 DEF Inv, TapeFits
<1>4. CursorsFit'
  <2>1. \A type : Cardinality(Upto(tape, type, delivered + 1)) =
           Cardinality(Upto(tape, type, delivered))
             + (IF tape[delivered + 1].type = type THEN 1 ELSE 0)
    BY <1>2, UptoNext
  <2> QED
    BY <1>1, <2>1 DEF Inv, CursorsFit
<1>5. RoomFits'
  <2>1. /\ Cardinality(Remaining) \in Nat
        /\ Cardinality(Remaining') = Cardinality(Remaining)
             - (IF tape[delivered + 1].type = "cancel" THEN 0 ELSE 1)
    BY <1>1, <1>2, RemainingNext
  <2>2. /\ curOrderID + Cardinality(Remaining) <= kMaxNumOrders - 1
        /\ curOrderID \in Nat /\ g_limit_calls' \in 0 .. kMaxNumOrders - 1
        /\ kMaxNumOrders \in Nat /\ delivered' # 0
    BY <1>1, <1>2, <2>1, QuantCupAssumption DEF Inv, Types, RoomFits, Busy
  <2>3. Busy' \in {0, 1} /\ (Busy' = 1 => tape[delivered + 1].type # "cancel")
    BY DEF Busy
  <2>4. curOrderID' + Busy' + Cardinality(Remaining') <= kMaxNumOrders - 1
    <3>1. Busy' = 0 \/ Busy' = 1
      BY <2>3
    <3> QED
      BY <2>1, <2>2, <2>3, <3>1
  <2> QED
    BY <2>2, <2>4 DEF RoomFits
<1>6. Known'
  BY <1>1, <1>2 DEF Inv, Known
<1> QED
  BY <1>3, <1>4, <1>5, <1>6

\* The entries handed out so far are slots of the arena.
LEMMA HandedOut == ASSUME Inv PROVE 1 .. curOrderID \subseteq Entries
BY QuantCupAssumption DEF Inv, Types, Entries

\* An order dies in the shadow.
LEMMA Dies ==
    ASSUME Inv, NEW c \in Ids,
           g_orders' = [g_orders EXCEPT ![c].alive = FALSE, ![c].qty = 0]
    PROVE  /\ g_orders' \in [Ids -> OrderState] /\ ~g_orders'[c].alive
           /\ \A id \in Ids \ {c} : g_orders'[id] = g_orders[id]
<1> DEFINE r == [g_orders[c] EXCEPT !.alive = FALSE, !.qty = 0]
<1>1. g_orders \in [Ids -> OrderState] /\ g_orders[c] \in OrderState
  BY DEF Inv, Types
<1>2. r \in OrderState /\ ~r.alive
  BY <1>1 DEF OrderState
<1>3. g_orders' = [g_orders EXCEPT ![c] = r]
  BY <1>1
<1> HIDE DEF r
<1> QED
  BY <1>1, <1>2, <1>3

\* An order that rests leaves the book: its entry stays behind with size 0.
LEMMA Withdrawn ==
    ASSUME Inv, NEW c \in Ids, Rests(c), arena' = Tombstone(arena, g_orders[c].qcid),
           UNCHANGED <<points, askMin, bidMax, curOrderID>>,
           \A id \in Ids \ {c} : g_orders'[id] = g_orders[id] /\ (Rests(id)' <=> Rests(id)),
           ~Rests(c)'
    PROVE  arena' \in [Entries -> Slot] /\ BookFits'
<1> DEFINE e == g_orders[c].qcid
<1>1. e \in 1 .. curOrderID /\ e \in Entries /\ arena[e].trader = c
  <2>1. OrderFits(c)
    BY DEF Inv, BookFits
  <2>2. e \in 1 .. curOrderID /\ arena[e].trader = c
    BY <2>1 DEF OrderFits
  <2> QED
    BY <2>2, HandedOut
<1>2. /\ arena' \in [Entries -> Slot] /\ arena'[e].size = 0
      /\ \A x \in Entries \ {e} : arena'[x] = arena[x]
  BY <1>1 DEF Inv, Types, Tombstone, Slot
<1>3. ASSUME NEW id \in Ids PROVE OrderFits(id)'
  <2>1. CASE id = c
    BY <2>1 DEF OrderFits
  <2>2. CASE id # c /\ Rests(id)
    <3>1. OrderFits(id)
      BY DEF Inv, BookFits
    <3>2. g_orders[id].qcid \in Entries \ {e}
      <4>1. g_orders[id].qcid \in 1 .. curOrderID /\ arena[g_orders[id].qcid].trader = id
        BY <2>2, <3>1 DEF OrderFits
      <4> QED
        BY <1>1, <2>2, <4>1, HandedOut
    <3> QED
      BY <1>2, <2>2, <3>1, <3>2 DEF OrderFits, Lists
  <2>3. CASE id # c /\ ~Rests(id)
    BY <2>3 DEF OrderFits
  <2> QED
    BY <2>1, <2>2, <2>3
<1>4. ASSUME NEW p \in Prices PROVE LevelFits(p)'
  <2>1. LevelFits(p) /\ points[p] \in Seq(Entries)
    BY DEF Inv, BookFits, Types
  <2>2. ASSUME NEW x \in Entries, EntryFits(p, x) PROVE EntryFits(p, x)'
    <3>1. CASE x = e
      BY <1>2, <2>2, <3>1 DEF EntryFits
    <3>2. CASE x # e
      <4>1. arena'[x] = arena[x]
        BY <1>2, <3>2
      <4>2. arena[x].size > 0 => arena[x].trader # c
        BY <2>2, <3>2 DEF EntryFits
      <4> QED
        BY <2>2, <4>1, <4>2 DEF EntryFits
    <3> QED
      BY <3>1, <3>2
  <2>3. \A i \in 1 .. Len(points[p]) : points[p][i] \in Entries
    BY <2>1, ElementOfSeq
  <2> QED
    BY <2>1, <2>2, <2>3 DEF LevelFits
<1> QED
  BY <1>2, <1>3, <1>4 DEF Inv, BookFits

\* limit() is entered with the native order of message m.
LEMMA Entered ==
    ASSUME Inv, CanDeliver, NEW m, m = tape[delivered + 1], m.type # "cancel",
           PriceInRange(m.price), EnterLimit(Translate(m), m), tape' = tape,
           delivered' = delivered + 1, g_seq' = delivered + 1,
           g_orders'[m.id].alive <=> m.type = "modify"
    PROVE  /\ CallFits' /\ ~Idle' /\ g_taker_left' \in Nat /\ g_taker_side' \in Sides
           /\ \A id : InFlight(id)' <=> id = m.id
<1>1. delivered + 1 \in 1 .. Len(tape) /\ delivered \in Nat /\ Len(tape) \in Nat
  BY LenProperties DEF Inv, Types, CanDeliver
<1>2. m \in Message /\ m.type \in {"new", "modify"} /\ m.qty \in Nat /\ m.side \in Sides
  BY <1>1, ElementOfSeq, MessageFields DEF Inv, Types
<1>3. Translate(m).size = m.qty
  BY DEF Translate
<1>4. msg' = m
  BY DEF msg
<1>5. /\ call' = [order |-> Translate(m), orderSize |-> m.qty]
      /\ g_taker_left' = m.qty /\ g_taker_id' = m.id /\ g_taker_side' = m.side
  BY <1>3 DEF EnterLimit
<1>6. ~Idle'
  BY <1>5, CallNotIdle DEF Idle
<1>7. g_taker_left' \in 0 .. m.qty
  BY <1>2, <1>5
<1>8. delivered' \in 1 .. Len(tape') /\ Translate(msg)' = Translate(m)
  BY <1>1, <1>4 DEF Translate
<1> QED
  BY <1>2, <1>4, <1>5, <1>6, <1>7, <1>8 DEF CallFits, InFlight

LEMMA DeliverNewKeeps ==
    ASSUME Inv, CanDeliver, NEW m, m = tape[delivered + 1], m.type = "new",
           engine_on_new_order(m), delivered' = delivered + 1, UNCHANGED prebuildVars
    PROVE  Inv'
<1>1. /\ g_seq' = delivered + 1 /\ g_pre_idx' = g_pre_idx + 1
      /\ EnterLimit(g_pre[g_pre_idx + 1], m)
      /\ UNCHANGED <<aborted, g_orders, g_pre_modify_idx, arena, points, askMin, bidMax,
                     curOrderID, tape, running, g_pre, g_pre_modify, g_limit_calls>>
  BY DEF engine_on_new_order, engine, prebuildVars
<1>2. /\ running /\ Idle /\ delivered < Len(tape) /\ delivered \in Nat /\ Len(tape) \in Nat
      /\ delivered + 1 \in 1 .. Len(tape) /\ g_pre_modify_idx \in Nat
  BY LenProperties, UptoFinite DEF CanDeliver, Inv, Types, CursorsFit
<1>3. m \in Message /\ m.id \in Ids /\ PriceInRange(m.price)
  BY <1>2, ElementOfSeq, MessageFields DEF Inv, Types, TapeFits
<1>4. ~g_orders[m.id].alive
  BY <1>2, <1>3 DEF Inv, Known, TapeFits
<1>5. g_pre[g_pre_idx + 1] = Translate(m)
  BY <1>2, NextPrebuilt DEF Inv, CursorsFit
<1>6. /\ CallFits' /\ ~Idle' /\ g_taker_left' \in Nat /\ g_taker_side' \in Sides
      /\ \A id : InFlight(id)' <=> id = m.id
  BY <1>1, <1>3, <1>4, <1>5, Entered
<1>7. TapeFits' /\ CursorsFit' /\ RoomFits' /\ Known'
  BY <1>1, <1>2, DeliverRest
<1>8. Types'
  BY <1>1, <1>2, <1>6 DEF Inv, Types
<1>9. BookFits'
  <2>1. \A id \in Ids : Rests(id)' <=> Rests(id)
    BY <1>1, <1>2, <1>4, <1>6 DEF Rests, InFlight
  <2> QED
    BY <1>1, <2>1, BookFrame DEF Inv
<1> QED
  BY <1>6, <1>7, <1>8, <1>9 DEF Inv

LEMMA DeliverCancelKeeps ==
    ASSUME Inv, CanDeliver, NEW m, m = tape[delivered + 1], m.type = "cancel",
           engine_on_cancel(m), delivered' = delivered + 1, UNCHANGED prebuildVars
    PROVE  Inv'
<1>1. UNCHANGED <<aborted, g_pre_idx, g_pre_modify_idx, g_seq, g_taker_id, g_taker_left,
                  g_taker_side, points, askMin, bidMax, curOrderID, call,
                  tape, running, g_pre, g_pre_modify, g_limit_calls>>
  BY DEF engine_on_cancel, cursors, takerVars, prebuildVars
<1>2. /\ Idle /\ Idle' /\ delivered < Len(tape) /\ delivered \in Nat /\ Len(tape) \in Nat
      /\ delivered + 1 \in 1 .. Len(tape) /\ g_pre_idx \in Nat /\ g_pre_modify_idx \in Nat
  BY <1>1, LenProperties, UptoFinite DEF CanDeliver, Inv, Types, Idle, CursorsFit
<1>3. m \in Message /\ m.id \in Ids
  BY <1>2, ElementOfSeq, MessageFields DEF Inv, Types
<1>4. CallFits'
  BY <1>2 DEF CallFits
<1>5. CASE find_alive(m.id)
  <2>1. /\ arena' = Tombstone(arena, g_orders[m.id].qcid)
        /\ g_orders' = [g_orders EXCEPT ![m.id].alive = FALSE, ![m.id].qty = 0]
    BY <1>5 DEF engine_on_cancel
  <2>2. /\ g_orders' \in [Ids -> OrderState] /\ ~g_orders'[m.id].alive
        /\ \A id \in Ids \ {m.id} : g_orders'[id] = g_orders[id]
    BY <1>3, <2>1, Dies
  <2>3. Rests(m.id) /\ ~Rests(m.id)' /\ \A id \in Ids \ {m.id} : Rests(id)' <=> Rests(id)
    BY <1>2, <1>3, <1>5, <2>2 DEF Rests, InFlight, find_alive
  <2>4. arena' \in [Entries -> Slot] /\ BookFits'
    BY <1>1, <1>3, <2>1, <2>2, <2>3, Withdrawn
  <2>5. Types'
    BY <1>1, <1>2, <2>2, <2>4 DEF Inv, Types
  <2>6. TapeFits' /\ CursorsFit' /\ RoomFits' /\ Known'
    <3>1. \A id \in Ids : g_orders'[id].alive => g_orders[id].alive
      BY <2>2
    <3> QED
      BY <1>1, <1>2, <3>1, DeliverRest
  <2> QED
    BY <1>4, <2>4, <2>5, <2>6 DEF Inv
<1>6. CASE ~find_alive(m.id)
  <2>1. arena' = arena /\ g_orders' = g_orders
    BY <1>6 DEF engine_on_cancel
  <2>2. \A id \in Ids : Rests(id)' <=> Rests(id)
    BY <1>2, <2>1 DEF Rests, InFlight
  <2>3. BookFits'
    BY <1>1, <2>1, <2>2, BookFrame DEF Inv
  <2>4. Types'
    BY <1>1, <1>2, <2>1 DEF Inv, Types
  <2>5. TapeFits' /\ CursorsFit' /\ RoomFits' /\ Known'
    BY <1>1, <1>2, <2>1, DeliverRest
  <2> QED
    BY <1>4, <2>3, <2>4, <2>5 DEF Inv
<1> QED
  BY <1>5, <1>6

LEMMA DeliverModifyKeeps ==
    ASSUME Inv, CanDeliver, NEW m, m = tape[delivered + 1], m.type = "modify",
           ~BadModify(m), engine_on_modify(m), delivered' = delivered + 1,
           UNCHANGED prebuildVars
    PROVE  Inv'
<1>1. /\ g_seq' = delivered + 1 /\ g_pre_modify_idx' = g_pre_modify_idx + 1
      /\ UNCHANGED <<aborted, g_orders, g_pre_idx, points, askMin, bidMax, curOrderID,
                     tape, running, g_pre, g_pre_modify, g_limit_calls>>
  BY DEF engine_on_modify, Consumed, prebuildVars
<1>2. /\ Idle /\ delivered < Len(tape) /\ delivered \in Nat /\ Len(tape) \in Nat
      /\ delivered + 1 \in 1 .. Len(tape) /\ g_pre_idx \in Nat
  BY LenProperties, UptoFinite DEF CanDeliver, Inv, Types, CursorsFit
<1>3. m \in Message /\ m.id \in Ids
  BY <1>2, ElementOfSeq, MessageFields DEF Inv, Types
<1>4. TapeFits' /\ CursorsFit' /\ RoomFits' /\ Known'
  BY <1>1, <1>2, DeliverRest
<1>5. CASE find_alive(m.id)
  <2>1. /\ arena' = Tombstone(arena, g_orders[m.id].qcid)
        /\ EnterLimit(g_pre_modify[g_pre_modify_idx + 1], m)
    BY <1>5 DEF engine_on_modify
  <2>2. g_pre_modify[g_pre_modify_idx + 1] = Translate(m)
    BY <1>2, NextPrebuilt DEF Inv, CursorsFit
  <2>3. PriceInRange(m.price) /\ g_orders'[m.id].alive
    BY <1>1, <1>5 DEF BadModify, find_alive
  <2>4. /\ CallFits' /\ ~Idle' /\ g_taker_left' \in Nat /\ g_taker_side' \in Sides
        /\ \A id : InFlight(id)' <=> id = m.id
    BY <1>1, <2>1, <2>2, <2>3, Entered DEF prebuildVars
  <2>5. Rests(m.id) /\ ~Rests(m.id)' /\ \A id \in Ids \ {m.id} : Rests(id)' <=> Rests(id)
    BY <1>1, <1>2, <1>5, <2>4 DEF Rests, InFlight, find_alive
  <2>6. arena' \in [Entries -> Slot] /\ BookFits'
    BY <1>1, <1>3, <2>1, <2>5, Withdrawn
  <2>7. Types'
    BY <1>1, <1>2, <2>4, <2>6 DEF Inv, Types
  <2> QED
    BY <1>4, <2>4, <2>6, <2>7 DEF Inv
<1>6. CASE ~find_alive(m.id)
  <2>1. UNCHANGED <<arena, call, g_taker_id, g_taker_left, g_taker_side>>
    BY <1>6 DEF engine_on_modify
  <2>2. Idle' /\ \A id \in Ids : Rests(id)' <=> Rests(id)
    BY <1>1, <1>2, <2>1 DEF Rests, InFlight, Idle
  <2>3. BookFits'
    BY <1>1, <2>1, <2>2, BookFrame DEF Inv
  <2>4. Types' /\ CallFits'
    BY <1>1, <1>2, <2>1, <2>2 DEF Inv, Types, CallFits
  <2> QED
    BY <1>4, <2>3, <2>4 DEF Inv
<1> QED
  BY <1>5, <1>6

LEMMA DeliverKeeps == ASSUME Inv, Deliver PROVE Inv'
<1> DEFINE m == tape[delivered + 1]
<1>1. CanDeliver
  BY DEF Deliver
<1>2. CASE Abort
  BY <1>2, UnchangedKeeps DEF Abort, prebuildVars
<1>3. CASE /\ ~BadModify(m) /\ delivered' = delivered + 1 /\ UNCHANGED prebuildVars
           /\ \/ m.type = "new" /\ engine_on_new_order(m)
              \/ m.type = "cancel" /\ engine_on_cancel(m)
              \/ m.type = "modify" /\ engine_on_modify(m)
  BY <1>1, <1>3, DeliverNewKeeps, DeliverCancelKeeps, DeliverModifyKeeps
<1> QED
  BY <1>2, <1>3 DEF Deliver
-----------------------------------------------------------------------------
(* The sweep.                                                              *)

\* The call in progress, read through its message.
LEMMA CallFacts ==
    ASSUME Inv, ~Idle
    PROVE  /\ running /\ delivered \in 1 .. Len(tape)
           /\ msg \in Message /\ msg.id \in Ids /\ msg.type \in {"new", "modify"}
           /\ msg.side \in Sides /\ msg.price \in 1 .. kNumPricePoints - 1
           /\ msg.qty \in Nat /\ (msg.type = "new" => msg.ioc \in BOOLEAN)
           /\ call.order.side = msg.side /\ call.order.price = msg.price
           /\ call.order.trader = msg.id /\ call.orderSize = g_taker_left
           /\ g_taker_left \in Nat /\ g_taker_side = msg.side
           /\ Level = (IF msg.side = "buy" THEN askMin ELSE bidMax)
           /\ Level \in Prices
<1>1. running /\ delivered \in 1 .. Len(tape)
  BY DEF Inv, TapeFits, CallFits
<1>2. msg \in Message
  BY <1>1, ElementOfSeq DEF Inv, Types, msg
<1>3. /\ msg.type \in {"new", "modify"} /\ PriceInRange(msg.price)
      /\ call = [order |-> Translate(msg), orderSize |-> g_taker_left]
      /\ g_taker_left \in Nat /\ g_taker_side = msg.side
  BY DEF Inv, CallFits, Types
<1>4. /\ msg.id \in Ids /\ msg.side \in Sides /\ msg.price \in Int /\ msg.qty \in Nat
      /\ Translate(msg).trader = msg.id
      /\ msg.type = "new" => msg.ioc \in BOOLEAN
  BY <1>2, <1>3, MessageFields
<1>5. msg.price \in 1 .. kNumPricePoints - 1
  BY <1>3, <1>4, QuantCupAssumption DEF PriceInRange, QC_PRICE_MIN, QC_PRICE_MAX
<1>6. call.order = Translate(msg) /\ call.orderSize = g_taker_left
  BY <1>3
<1>7. Translate(msg).side = msg.side /\ Translate(msg).price = msg.price
  BY DEF Translate
<1>8. Level = (IF msg.side = "buy" THEN askMin ELSE bidMax)
  BY <1>6, <1>7 DEF Level
<1>9. Level \in Prices
  <2>1. askMin \in Prices /\ bidMax \in Prices
    BY QuantCupAssumption DEF Inv, Types, Prices
  <2> QED
    BY <1>8, <2>1
<1> QED
  BY <1>1, <1>2, <1>3, <1>4, <1>5, <1>6, <1>7, <1>8, <1>9

\* What follows from the tape and the counts for a step inside a handler.
LEMMA SweepRest ==
    ASSUME Inv, ~Idle, UNCHANGED <<delivered, prebuildVars, cursors>>,
           \/ ~Idle' /\ curOrderID' = curOrderID
           \/ Idle' /\ curOrderID' = curOrderID + 1,
           \A id \in Ids : g_orders'[id].alive => g_orders[id].alive \/ id = msg.id
    PROVE  /\ TapeFits' /\ CursorsFit' /\ RoomFits' /\ Known'
           /\ curOrderID' \in 0 .. kMaxNumOrders - 1
<1>1. /\ UNCHANGED <<tape, running, g_pre, g_pre_modify, g_limit_calls, g_pre_idx,
                     g_pre_modify_idx, delivered>>
      /\ running /\ delivered \in 1 .. Len(tape)
  BY CallFacts DEF prebuildVars, cursors
<1>2. TapeFits' /\ CursorsFit'
  BY <1>1 DEF Inv, TapeFits, CursorsFit
<1>3. Remaining' = Remaining /\ Cardinality(Remaining) \in Nat
  <2>1. Len(tape) \in Nat /\ delivered \in Nat
    BY <1>1, LenProperties DEF Inv, Types
  <2>2. Remaining \subseteq 1 .. Len(tape)
    BY <2>1 DEF Remaining
  <2>3. IsFiniteSet(1 .. Len(tape))
    BY <2>1, FS_Interval
  <2>4. IsFiniteSet(Remaining) /\ Cardinality(Remaining) \in Nat
    BY <2>2, <2>3, FS_Subset, FS_CardinalityType
  <2> QED
    BY <1>1, <2>4 DEF Remaining
<1>4. curOrderID' + Busy' = curOrderID + 1 /\ curOrderID \in Nat /\ Busy = 1
  BY QuantCupAssumption DEF Busy, Inv, Types
<1>5. RoomFits'
  <2>1. curOrderID + 1 + Cardinality(Remaining) <= kMaxNumOrders - 1
    BY <1>4 DEF Inv, RoomFits
  <2>2. delivered' # 0 /\ g_limit_calls' \in 0 .. kMaxNumOrders - 1
    BY <1>1 DEF Inv, RoomFits, Types
  <2>3. curOrderID' + Busy' + Cardinality(Remaining') <= kMaxNumOrders - 1
    BY <1>3, <1>4, <2>1
  <2> QED
    BY <2>2, <2>3 DEF RoomFits
<1>6. Known'
  <2>1. \E i \in 1 .. delivered : tape[i].type = "new" /\ tape[i].id = msg.id
    <3>1. CASE msg.type = "new"
      <4>1. delivered \in 1 .. delivered
        BY <1>1
      <4> QED
        BY <3>1, <4>1 DEF msg
    <3>2. CASE msg.type = "modify"
      BY <3>2, CallFacts DEF Inv, CallFits, Known
    <3> QED
      BY <3>1, <3>2, CallFacts
  <2> QED
    BY <1>1, <2>1 DEF Inv, Known
<1>7. curOrderID' \in 0 .. kMaxNumOrders - 1
  <2>1. curOrderID + 1 <= kMaxNumOrders - 1
    BY <1>3, <1>4, QuantCupAssumption DEF Inv, RoomFits
  <2> QED
    BY <1>4, <2>1, QuantCupAssumption
<1> QED
  BY <1>2, <1>5, <1>6, <1>7

\* The head of a level.
LEMMA HeadOfLevel ==
    ASSUME Inv, NEW p \in Prices, points[p] # <<>>, NEW e, e = Head(points[p])
    PROVE  /\ e \in Entries /\ EntryFits(p, e)
           /\ arena[e].size \in Nat /\ Len(points[p]) \in Nat \ {0} /\ e = points[p][1]
           /\ \A i \in 2 .. Len(points[p]) : e < points[p][i]
           /\ \A i \in 1 .. Len(points[p]) : points[p][i] \in Entries
<1>1. points[p] \in Seq(Entries) /\ LevelFits(p)
  BY DEF Inv, Types, BookFits
<1>2. e = points[p][1] /\ Len(points[p]) \in Nat \ {0}
  BY <1>1, HeadTailProperties, LenProperties, EmptySeq
<1>3. \A i \in 1 .. Len(points[p]) : points[p][i] \in Entries
  BY <1>1, ElementOfSeq
<1>4. 1 \in 1 .. Len(points[p])
  BY <1>2
<1>5. e \in Entries /\ EntryFits(p, e)
  BY <1>1, <1>2, <1>3, <1>4 DEF LevelFits
<1>6. arena[e].size \in Nat
  BY <1>5 DEF Inv, Types, Slot
<1>7. \A i \in 2 .. Len(points[p]) : e < points[p][i]
  <2>1. \A i \in 2 .. Len(points[p]) : i \in 1 .. Len(points[p]) /\ 1 < i
    BY <1>2
  <2> QED
    BY <1>1, <1>2, <1>4, <2>1 DEF LevelFits
<1> QED
  BY <1>2, <1>3, <1>5, <1>6, <1>7

\* The head of a level is taken out.
LEMMA Popped ==
    ASSUME Inv, NEW p \in Prices, points[p] # <<>>, NEW e, e = Head(points[p]),
           points' = [points EXCEPT ![p] = Tail(@)]
    PROVE  /\ points' \in [Prices -> Seq(Entries)]
           /\ \A q \in Prices \ {p} : points'[q] = points[q]
           /\ Len(points'[p]) = Len(points[p]) - 1
           /\ \A i \in 1 .. Len(points'[p]) : /\ points'[p][i] = points[p][i + 1]
                                             /\ i + 1 \in 2 .. Len(points[p])
                                             /\ e < points'[p][i]
<1>1. points \in [Prices -> Seq(Entries)]
  BY DEF Inv, Types
<1>2. /\ Tail(points[p]) \in Seq(Entries)
      /\ Len(Tail(points[p])) = Len(points[p]) - 1
      /\ \A i \in 1 .. Len(Tail(points[p])) : Tail(points[p])[i] = points[p][i + 1]
  BY <1>1, HeadTailProperties
<1>3. points'[p] = Tail(points[p]) /\ \A q \in Prices \ {p} : points'[q] = points[q]
  BY <1>1
<1>4. /\ Len(points[p]) \in Nat \ {0}
      /\ \A i \in 2 .. Len(points[p]) : e < points[p][i]
  BY HeadOfLevel
<1>5. \A i \in 1 .. Len(points'[p]) : i + 1 \in 2 .. Len(points[p])
  <2>1. Len(points'[p]) = Len(points[p]) - 1
    BY <1>2, <1>3
  <2> QED
    BY <2>1, <1>4
<1>6. points' \in [Prices -> Seq(Entries)]
  BY <1>1, <1>2
<1> QED
  BY <1>2, <1>3, <1>4, <1>5, <1>6

\* What is not the head of its level stays in its level.
LEMMA StaysListed ==
    ASSUME Inv, NEW p \in Prices, points[p] # <<>>, NEW e, e = Head(points[p]),
           points' = [points EXCEPT ![p] = Tail(@)]
    PROVE  \A q \in Prices, x \in Entries \ {e} : Lists(q, x) => Lists(q, x)'
<1> SUFFICES ASSUME NEW q \in Prices, NEW x \in Entries \ {e}, Lists(q, x)
             PROVE  \E k \in 1 .. Len(points'[q]) : points'[q][k] = x
  BY DEF Lists
<1>1. PICK i \in 1 .. Len(points[q]) : points[q][i] = x
  BY DEF Lists
<1>2. /\ \A r \in Prices \ {p} : points'[r] = points[r]
      /\ Len(points'[p]) = Len(points[p]) - 1
      /\ \A k \in 1 .. Len(points'[p]) : points'[p][k] = points[p][k + 1]
  BY Popped
<1>3. e = points[p][1] /\ Len(points[p]) \in Nat \ {0}
  BY HeadOfLevel
<1>4. CASE q # p
  BY <1>1, <1>2, <1>4
<1>5. CASE q = p
  <2>1. i # 1 /\ i \in 1 .. Len(points[p]) /\ i \in Int
    BY <1>1, <1>3, <1>5
  <2>2. i - 1 \in 1 .. Len(points'[p]) /\ (i - 1) + 1 = i
    BY <1>2, <1>3, <2>1
  <2>3. points'[p][i - 1] = x
    BY <1>1, <1>2, <1>5, <2>2
  <2> QED
    BY <1>5, <2>2, <2>3
<1> QED
  BY <1>4, <1>5

\* Levels keep their order when one of them loses its head.
LEMMA PoppedInOrder ==
    ASSUME Inv, NEW p \in Prices, points[p] # <<>>, NEW e, e = Head(points[p]),
           points' = [points EXCEPT ![p] = Tail(@)], NEW q \in Prices
    PROVE  /\ \A i, j \in 1 .. Len(points'[q]) : i < j => points'[q][i] < points'[q][j]
           /\ \A i \in 1 .. Len(points'[q]) :
                 /\ points'[q][i] \in Entries
                 /\ EntryFits(q, points'[q][i])
                 /\ q = p => points'[q][i] # e
<1>1. /\ \A r \in Prices \ {p} : points'[r] = points[r]
      /\ Len(points'[p]) = Len(points[p]) - 1
      /\ \A k \in 1 .. Len(points'[p]) : /\ points'[p][k] = points[p][k + 1]
                                        /\ k + 1 \in 2 .. Len(points[p])
                                        /\ e < points'[p][k]
  BY Popped
<1>2. LevelFits(q) /\ points[q] \in Seq(Entries)
  BY DEF Inv, Types, BookFits
<1>3. \A i \in 1 .. Len(points[q]) : points[q][i] \in Entries
  BY <1>2, ElementOfSeq
<1>4. CASE q # p
  BY <1>1, <1>2, <1>3, <1>4 DEF LevelFits
<1>5. CASE q = p
  <2>1. Len(points[p]) \in Nat /\ e \in Entries /\ Entries \subseteq Nat
    BY HeadOfLevel DEF Entries
  <2>2. \A k \in 1 .. Len(points'[p]) : k + 1 \in 1 .. Len(points[p])
    BY <1>1, <2>1
  <2>3. \A i, j \in 1 .. Len(points'[p]) : i < j => i + 1 < j + 1
    BY <1>1, <2>1
  <2>4. \A i, j \in 1 .. Len(points'[p]) : i < j => points'[p][i] < points'[p][j]
    BY <1>1, <1>2, <1>5, <2>2, <2>3 DEF LevelFits
  <2>5. ASSUME NEW i \in 1 .. Len(points'[p])
        PROVE  /\ points'[p][i] \in Entries
               /\ EntryFits(p, points'[p][i])
               /\ points'[p][i] # e
    <3>1. points'[p][i] = points[p][i + 1] /\ i + 1 \in 1 .. Len(points[p])
      BY <1>1, <2>2
    <3>2. points[p][i + 1] \in Entries /\ EntryFits(p, points[p][i + 1])
      BY <1>2, <1>3, <1>5, <3>1 DEF LevelFits
    <3>3. e < points'[p][i]
      BY <1>1
    <3>4. e # points'[p][i]
      BY <2>1, <3>3
    <3> QED
      BY <3>1, <3>2, <3>4
  <2> QED
    BY <1>5, <2>4, <2>5
<1> QED
  BY <1>4, <1>5

\* A tombstone is passed.
LEMMA TombstonePassed ==
    ASSUME Inv, NEW p \in Prices, points[p] # <<>>, NEW e, e = Head(points[p]),
           arena[e].size = 0, points' = [points EXCEPT ![p] = Tail(@)],
           UNCHANGED <<g_orders, arena, askMin, bidMax, curOrderID>>,
           \A id \in Ids : Rests(id)' <=> Rests(id)
    PROVE  BookFits'
<1>0. \A q \in Prices, x \in Entries \ {e} : Lists(q, x) => Lists(q, x)'
  BY StaysListed
<1>1. ASSUME NEW id \in Ids PROVE OrderFits(id)'
  <2>1. OrderFits(id) /\ g_orders[id] \in OrderState
    BY DEF Inv, BookFits, Types
  <2>2. CASE Rests(id)
    <3> DEFINE s == g_orders[id]
    <3>1. /\ s.price \in Prices /\ s.qty > 0 /\ arena[s.qcid].size = s.qty
          /\ Lists(s.price, s.qcid) /\ s.qcid \in 1 .. curOrderID
      BY <2>1, <2>2 DEF OrderFits, OrderState
    <3>2. s.qcid \in Entries \ {e}
      BY <3>1, HandedOut
    <3>3. Lists(s.price, s.qcid)'
      BY <1>0, <3>1, <3>2
    <3> QED
      BY <2>1, <2>2, <3>3 DEF OrderFits
  <2>3. CASE ~Rests(id)
    BY <2>3 DEF OrderFits
  <2> QED
    BY <2>2, <2>3
<1>2. ASSUME NEW q \in Prices PROVE LevelFits(q)'
  <2>1. /\ \A i, j \in 1 .. Len(points'[q]) : i < j => points'[q][i] < points'[q][j]
        /\ \A i \in 1 .. Len(points'[q]) : EntryFits(q, points'[q][i])
    BY PoppedInOrder
  <2>2. \A x : EntryFits(q, x) => EntryFits(q, x)'
    BY DEF EntryFits
  <2> QED
    BY <2>1, <2>2 DEF LevelFits
<1> QED
  BY <1>1, <1>2 DEF Inv, BookFits
\* The maker a trade hits: the order its entry names, on the other side.
LEMMA MakerFacts ==
    ASSUME Inv, ~Idle, Marketable, points[Level] # <<>>,
           NEW e, e = Head(points[Level]), arena[e].size > 0
    PROVE  /\ MakerOf(e) = arena[e].trader /\ MakerOf(e) \in Ids
           /\ Rests(MakerOf(e)) /\ MakerOf(e) # msg.id
           /\ g_orders[MakerOf(e)].qcid = e /\ g_orders[MakerOf(e)].price = Level
           /\ g_orders[MakerOf(e)].qty = arena[e].size
           /\ g_orders[MakerOf(e)].side # msg.side
<1>1. /\ Level \in Prices /\ call.order.side = msg.side /\ g_taker_side = msg.side
      /\ Level = (IF msg.side = "buy" THEN askMin ELSE bidMax)
      /\ msg.side \in Sides /\ msg.id \in Ids
  BY CallFacts
<1>2. EntryFits(Level, e)
  BY <1>1, HeadOfLevel
<1>3. MakerOf(e) = arena[e].trader
  BY <1>1 DEF MakerOf, decode_id
<1>4. /\ MakerOf(e) \in Ids /\ Rests(MakerOf(e))
      /\ g_orders[MakerOf(e)].qcid = e /\ g_orders[MakerOf(e)].price = Level
  BY <1>2, <1>3 DEF EntryFits
<1>5. OrderFits(MakerOf(e)) /\ g_orders[MakerOf(e)] \in OrderState
  BY <1>4 DEF Inv, BookFits, Types
<1>6. g_orders[MakerOf(e)].qty = arena[e].size
  BY <1>4, <1>5 DEF OrderFits
<1>7. MakerOf(e) # msg.id
  BY <1>4 DEF Rests, InFlight
<1>8. /\ IF g_orders[MakerOf(e)].side = "buy" THEN Level <= bidMax ELSE Level >= askMin
      /\ g_orders[MakerOf(e)].side \in Sides
  BY <1>4, <1>5 DEF OrderFits, OrderState
<1>9. bidMax < askMin /\ askMin \in Int /\ bidMax \in Int
  BY QuantCupAssumption DEF Inv, BookFits, Types
<1>10. g_orders[MakerOf(e)].side # msg.side
  BY <1>1, <1>8, <1>9 DEF Sides
<1> QED
  BY <1>3, <1>4, <1>6, <1>7, <1>10

\* execution() takes qty from the maker, or ends it.
LEMMA Hit ==
    ASSUME Inv, NEW c \in Ids, NEW n \in Nat \ {0}, g_orders' = ShadowAfter(c, n)
    PROVE  /\ g_orders' \in [Ids -> OrderState]
           /\ \A id \in Ids \ {c} : g_orders'[id] = g_orders[id]
           /\ IF g_orders[c].qty > n
                THEN /\ g_orders'[c].alive = g_orders[c].alive
                     /\ g_orders'[c].qty = g_orders[c].qty - n
                     /\ g_orders'[c].price = g_orders[c].price
                     /\ g_orders'[c].side = g_orders[c].side
                     /\ g_orders'[c].qcid = g_orders[c].qcid
                ELSE ~g_orders'[c].alive
<1>1. g_orders \in [Ids -> OrderState] /\ g_orders[c] \in OrderState
  BY DEF Inv, Types
<1>2. CASE g_orders[c].qty > n
  <2> DEFINE r == [g_orders[c] EXCEPT !.qty = g_orders[c].qty - n]
  <2>1. g_orders[c].qty - n \in Nat
    BY <1>1, <1>2 DEF OrderState
  <2>2. /\ r \in OrderState /\ r.alive = g_orders[c].alive /\ r.qty = g_orders[c].qty - n
        /\ r.price = g_orders[c].price /\ r.side = g_orders[c].side
        /\ r.qcid = g_orders[c].qcid
    BY <1>1, <2>1 DEF OrderState
  <2>3. g_orders' = [g_orders EXCEPT ![c] = r]
    BY <1>1, <1>2 DEF ShadowAfter
  <2> HIDE DEF r
  <2> QED
    BY <1>1, <1>2, <2>2, <2>3
<1>3. CASE ~(g_orders[c].qty > n)
  <2> DEFINE r == [g_orders[c] EXCEPT !.qty = 0, !.alive = FALSE]
  <2>1. r \in OrderState /\ ~r.alive
    BY <1>1 DEF OrderState
  <2>2. g_orders' = [g_orders EXCEPT ![c] = r]
    BY <1>1, <1>3 DEF ShadowAfter
  <2> HIDE DEF r
  <2> QED
    BY <1>1, <1>3, <2>1, <2>2
<1> QED
  BY <1>2, <1>3

\* An entry is traded whole and taken out: its order is gone from the shadow too.
LEMMA TradedWhole ==
    ASSUME Inv, NEW p \in Prices, points[p] # <<>>, NEW e, e = Head(points[p]),
           points' = [points EXCEPT ![p] = Tail(@)],
           NEW c \in Ids, arena[e].size > 0, c = arena[e].trader,
           UNCHANGED <<arena, askMin, bidMax, curOrderID>>,
           \A id \in Ids \ {c} : g_orders'[id] = g_orders[id] /\ (Rests(id)' <=> Rests(id)),
           ~Rests(c)'
    PROVE  BookFits'
<1>1. \A q \in Prices, x \in Entries \ {e} : Lists(q, x) => Lists(q, x)'
  BY StaysListed
<1>2. /\ EntryFits(p, e) /\ e \in Entries
      /\ g_orders[c].qcid = e /\ g_orders[c].price = p /\ Rests(c)
  BY HeadOfLevel DEF EntryFits
<1>3. ASSUME NEW id \in Ids PROVE OrderFits(id)'
  <2>1. OrderFits(id) /\ g_orders[id] \in OrderState
    BY DEF Inv, BookFits, Types
  <2>2. CASE id # c /\ Rests(id)
    <3> DEFINE s == g_orders[id]
    <3>1. /\ s.price \in Prices /\ arena[s.qcid].trader = id
          /\ Lists(s.price, s.qcid) /\ s.qcid \in 1 .. curOrderID
      BY <2>1, <2>2 DEF OrderFits, OrderState
    <3>2. s.qcid \in Entries \ {e}
      BY <2>2, <3>1, HandedOut
    <3>3. Lists(s.price, s.qcid)'
      BY <1>1, <2>2, <3>1, <3>2
    <3> QED
      BY <2>1, <2>2, <3>3 DEF OrderFits
  <2>3. CASE id = c \/ ~Rests(id)
    BY <2>3 DEF OrderFits
  <2> QED
    BY <2>2, <2>3
<1>4. ASSUME NEW q \in Prices PROVE LevelFits(q)'
  <2>1. /\ \A i, j \in 1 .. Len(points'[q]) : i < j => points'[q][i] < points'[q][j]
        /\ \A i \in 1 .. Len(points'[q]) :
              /\ points'[q][i] \in Entries
              /\ EntryFits(q, points'[q][i])
              /\ q = p => points'[q][i] # e
    BY ONLY Inv, points[p] # <<>>, e = Head(points[p]), p \in Prices, q \in Prices,
            points' = [points EXCEPT ![p] = Tail(@)], PoppedInOrder
  <2>2. ASSUME NEW x, EntryFits(q, x), q = p => x # e PROVE EntryFits(q, x)'
    <3>1. arena[x].size > 0 => arena[x].trader # c
      BY <1>2, <2>2 DEF EntryFits
    <3>2. x \in 1 .. curOrderID
      BY <2>2 DEF EntryFits
    <3>3. ASSUME arena[x].size > 0
          PROVE  LET id == arena[x].trader
                 IN  id \in Ids /\ Rests(id)' /\ g_orders'[id].qcid = x
                       /\ g_orders'[id].price = q
      <4>1. /\ arena[x].trader \in Ids \ {c} /\ Rests(arena[x].trader)
            /\ g_orders[arena[x].trader].qcid = x /\ g_orders[arena[x].trader].price = q
        BY <2>2, <3>1, <3>3 DEF EntryFits
      <4> QED
        BY <4>1
    <3> QED
      BY <3>2, <3>3 DEF EntryFits
  <2> QED
    BY <2>1, <2>2 DEF LevelFits
<1> QED
  BY <1>3, <1>4 DEF Inv, BookFits

\* Part of an entry is traded: both books count the same remainder.
LEMMA TradedInPart ==
    ASSUME Inv, NEW e \in Entries, NEW c \in Ids, NEW n \in Nat \ {0}, arena[e].size > n,
           c = arena[e].trader, Rests(c), g_orders[c].qcid = e,
           arena' = [arena EXCEPT ![e].size = @ - n],
           UNCHANGED <<points, askMin, bidMax, curOrderID>>,
           \A id \in Ids \ {c} : g_orders'[id] = g_orders[id],
           \A id \in Ids : Rests(id)' <=> Rests(id),
           g_orders'[c].qty = g_orders[c].qty - n, g_orders'[c].price = g_orders[c].price,
           g_orders'[c].side = g_orders[c].side, g_orders'[c].qcid = e
    PROVE  arena' \in [Entries -> Slot] /\ BookFits'
<1>1. arena \in [Entries -> Slot] /\ arena[e] \in Slot /\ arena[e].size - n \in Nat \ {0}
  BY DEF Inv, Types, Slot
<1>2. /\ arena' \in [Entries -> Slot]
      /\ arena'[e] = [trader |-> c, size |-> arena[e].size - n]
      /\ \A x \in Entries \ {e} : arena'[x] = arena[x]
  <2> DEFINE r == [trader |-> c, size |-> arena[e].size - n]
  <2>1. r \in Slot
    BY <1>1 DEF Slot
  <2>2. [arena[e] EXCEPT !.size = arena[e].size - n] = r
    <3>1. arena[e] = [trader |-> c, size |-> arena[e].size]
      BY <1>1 DEF Slot
    <3> QED
      BY <3>1
  <2>3. arena' = [arena EXCEPT ![e] = r]
    BY <1>1, <2>2
  <2> HIDE DEF r
  <2>4. arena' \in [Entries -> Slot] /\ arena'[e] = r
        /\ \A x \in Entries \ {e} : arena'[x] = arena[x]
    BY <1>1, <2>1, <2>3
  <2> QED
    BY <2>4 DEF r
<1>3. ASSUME NEW id \in Ids PROVE OrderFits(id)'
  <2>1. OrderFits(id) /\ g_orders[id] \in OrderState
    BY DEF Inv, BookFits, Types
  <2>2. CASE id = c
    <3>1. /\ g_orders[c].qty = arena[e].size /\ PriceInRange(g_orders[c].price)
          /\ Lists(g_orders[c].price, e) /\ e \in 1 .. curOrderID
          /\ IF g_orders[c].side = "buy" THEN g_orders[c].price <= bidMax
                                         ELSE g_orders[c].price >= askMin
      BY <2>1, <2>2, SMTT(30) DEF OrderFits
    <3>2. g_orders'[c].qty = arena[e].size - n /\ g_orders'[c].qty > 0
      BY <1>1, <3>1
    <3>3. Lists(g_orders[c].price, e)'
      BY <3>1 DEF Lists
    <3> QED
      BY <1>2, <2>2, <3>1, <3>2, <3>3, ZenonT(30) DEF OrderFits, Lists
  <2>3. CASE id # c /\ Rests(id)
    <3>1. g_orders[id].qcid \in Entries \ {e}
      <4>1. g_orders[id].qcid \in 1 .. curOrderID /\ arena[g_orders[id].qcid].trader = id
        BY <2>1, <2>3 DEF OrderFits
      <4> QED
        BY <2>3, <4>1, HandedOut
    <3> QED
      BY <1>2, <2>1, <2>3, <3>1 DEF OrderFits, Lists
  <2>4. CASE ~Rests(id)
    BY <2>4 DEF OrderFits
  <2> QED
    BY <2>2, <2>3, <2>4
<1>4. ASSUME NEW q \in Prices PROVE LevelFits(q)'
  <2>1. LevelFits(q) /\ points[q] \in Seq(Entries)
    BY DEF Inv, BookFits, Types
  <2>2. ASSUME NEW x \in Entries, EntryFits(q, x) PROVE EntryFits(q, x)'
    <3>1. CASE x = e
      <4>1. arena'[x].trader = c /\ arena[x].size > 0
        <5>1. arena[e].size \in Nat
          BY <1>1 DEF Slot
        <5> QED
          BY <1>2, <3>1, <5>1
      <4>2. x \in 1 .. curOrderID /\ g_orders[c].price = q
        BY <2>2, <3>1, <4>1 DEF EntryFits
      <4>3. Rests(c)' /\ g_orders'[c].qcid = x /\ g_orders'[c].price = q
        BY <3>1, <4>2
      <4> QED
        BY <4>1, <4>2, <4>3 DEF EntryFits
    <3>2. CASE x # e
      <4>1. arena'[x] = arena[x]
        BY <1>2, <3>2
      <4>2. arena[x].size > 0 => arena[x].trader # c
        BY <2>2, <3>2 DEF EntryFits
      <4> QED
        BY <2>2, <4>1, <4>2 DEF EntryFits
    <3> QED
      BY <3>1, <3>2
  <2>3. \A i \in 1 .. Len(points[q]) : points[q][i] \in Entries
    BY <2>1, ElementOfSeq
  <2> QED
    BY <2>1, <2>2, <2>3 DEF LevelFits
<1> QED
  BY <1>2, <1>3, <1>4 DEF Inv, BookFits

\* The call goes on with n less to match, on both sides of the adapter.
LEMMA SweepGoesOn ==
    ASSUME Inv, ~Idle, NEW n \in 0 .. g_taker_left,
           UNCHANGED <<delivered, prebuildVars, g_seq, g_taker_id, g_taker_side>>,
           call' = [call EXCEPT !.orderSize = @ - n], g_taker_left' = g_taker_left - n,
           g_orders'[msg.id] = g_orders[msg.id]
    PROVE  /\ CallFits' /\ ~Idle' /\ g_taker_left' \in Nat /\ g_taker_side' \in Sides
           /\ \A id : InFlight(id)' <=> InFlight(id)
<1>1. /\ tape' = tape /\ delivered' = delivered /\ msg' = msg
      /\ g_taker_id' = g_taker_id /\ g_taker_side' = g_taker_side /\ g_seq' = g_seq
  BY DEF prebuildVars, msg
<1>2. /\ delivered \in 1 .. Len(tape) /\ msg.type \in {"new", "modify"}
      /\ PriceInRange(msg.price)
      /\ call = [order |-> Translate(msg), orderSize |-> g_taker_left]
      /\ g_taker_left \in 0 .. msg.qty
      /\ g_taker_id = msg.id /\ g_taker_side = msg.side /\ g_seq = delivered
      /\ g_orders[msg.id].alive <=> msg.type = "modify"
  BY DEF Inv, CallFits
<1>3. g_taker_left \in Nat /\ msg.qty \in Nat /\ g_taker_side \in Sides
  BY CallFacts DEF Inv, Types
<1>4. call' = [order |-> Translate(msg), orderSize |-> g_taker_left - n]
  BY <1>2
<1>5. ~Idle'
  BY <1>4, CallNotIdle DEF Idle
<1>6. g_taker_left - n \in 0 .. msg.qty /\ g_taker_left - n \in Nat
  BY <1>2, <1>3
<1>7. Translate(msg)' = Translate(msg)
  BY <1>1 DEF Translate
<1>8. CallFits'
  BY <1>1, <1>2, <1>4, <1>6, <1>7 DEF CallFits
<1> QED
  BY <1>1, <1>3, <1>5, <1>6, <1>8 DEF InFlight

LEMMA PassEntryKeeps == ASSUME Inv, PassEntry PROVE Inv'
<1> DEFINE e == Head(points[Level])
           n == arena[e].size
<1>1. /\ ~Idle /\ ~aborted /\ Marketable /\ points[Level] # <<>> /\ n < call.orderSize
      /\ points' = [points EXCEPT ![Level] = Tail(@)]
      /\ call' = [call EXCEPT !.orderSize = @ - n]
      /\ UNCHANGED <<aborted, delivered, prebuildVars, cursors, g_seq, g_taker_id,
                     g_taker_side, arena, askMin, bidMax, curOrderID>>
  BY DEF PassEntry, Sweeping
<1>2. /\ Level \in Prices /\ msg.id \in Ids /\ call.orderSize = g_taker_left
      /\ g_taker_left \in Nat
  BY <1>1, CallFacts
<1>3. n \in Nat
  BY <1>1, <1>2, HeadOfLevel
<1>4. n \in 0 .. g_taker_left
  BY <1>1, <1>2, <1>3
<1>5. points' \in [Prices -> Seq(Entries)]
  BY <1>1, <1>2, Popped
<1> HIDE DEF e, n
<1>6. /\ g_orders' \in [Ids -> OrderState] /\ BookFits'
      /\ CallFits' /\ ~Idle' /\ g_taker_left' \in Nat /\ g_taker_side' \in Sides
      /\ \A id \in Ids : g_orders'[id].alive => g_orders[id].alive \/ id = msg.id
  <2>1. CASE n = 0
    <3>1. UNCHANGED <<g_taker_left, g_orders>>
      BY <2>1 DEF PassEntry, e, n
    <3>2. g_taker_left' = g_taker_left - n
      BY <1>2, <2>1, <3>1
    <3>3. /\ CallFits' /\ ~Idle' /\ g_taker_left' \in Nat /\ g_taker_side' \in Sides
          /\ \A id : InFlight(id)' <=> InFlight(id)
      BY <1>1, <1>4, <3>1, <3>2, SweepGoesOn
    <3>4. \A id \in Ids : Rests(id)' <=> Rests(id)
      BY <3>1, <3>3 DEF Rests
    <3>5. BookFits'
      BY <1>1, <1>2, <2>1, <3>1, <3>4, TombstonePassed DEF e, n
    <3> QED
      BY <3>1, <3>3, <3>5 DEF Inv, Types
  <2>2. CASE n > 0
    <3>0. PICK c : c = MakerOf(e)
      OBVIOUS
    <3>1. /\ c = arena[e].trader /\ c \in Ids /\ Rests(c) /\ c # msg.id
          /\ g_orders[c].qty = n
      BY <1>1, <2>2, <3>0, MakerFacts DEF e, n
    <3>2. g_orders' = ShadowAfter(c, n) /\ g_taker_left' = LeftAfter(n)
      BY <2>2, <3>0 DEF PassEntry, e, n
    <3>3. g_taker_left' = g_taker_left - n
      BY <1>2, <1>4, <3>2 DEF LeftAfter
    <3>4. /\ g_orders' \in [Ids -> OrderState] /\ ~g_orders'[c].alive
          /\ \A id \in Ids \ {c} : g_orders'[id] = g_orders[id]
      BY <1>3, <2>2, <3>1, <3>2, Hit
    <3>5. /\ CallFits' /\ ~Idle' /\ g_taker_left' \in Nat /\ g_taker_side' \in Sides
          /\ \A id : InFlight(id)' <=> InFlight(id)
      BY <1>1, <1>2, <1>4, <3>1, <3>3, <3>4, SweepGoesOn
    <3>6. ~Rests(c)' /\ \A id \in Ids \ {c} : Rests(id)' <=> Rests(id)
      BY <3>4, <3>5 DEF Rests
    <3>7. BookFits'
      BY <1>1, <1>2, <2>2, <3>1, <3>4, <3>6, TradedWhole DEF e, n
    <3>8. \A id \in Ids : g_orders'[id].alive => g_orders[id].alive
      BY <3>4
    <3> QED
      BY <3>4, <3>5, <3>7, <3>8
  <2> QED
    BY <1>3, <2>1, <2>2
<1>7. TapeFits' /\ CursorsFit' /\ RoomFits' /\ Known'
  BY <1>1, <1>6, SweepRest
<1>8. Types'
  BY <1>1, <1>5, <1>6 DEF Inv, Types, prebuildVars
<1> QED
  BY <1>6, <1>7, <1>8 DEF Inv

LEMMA FillEntryKeeps == ASSUME Inv, FillEntry PROVE Inv'
<1> DEFINE e == Head(points[Level])
           n == call.orderSize
<1>0. PICK c : c = MakerOf(e)
  OBVIOUS
<1>1. /\ ~Idle /\ ~aborted /\ Marketable /\ points[Level] # <<>> /\ n > 0
      /\ arena[e].size >= n
      /\ points' = IF arena[e].size > n THEN points ELSE [points EXCEPT ![Level] = Tail(@)]
      /\ arena' = IF arena[e].size > n THEN [arena EXCEPT ![e].size = @ - n] ELSE arena
      /\ call' = [call EXCEPT !.orderSize = 0]
      /\ g_orders' = ShadowAfter(c, n) /\ g_taker_left' = LeftAfter(n)
      /\ UNCHANGED <<aborted, delivered, prebuildVars, cursors, g_seq, g_taker_id,
                     g_taker_side, askMin, bidMax, curOrderID>>
  BY <1>0 DEF FillEntry, Sweeping
<1>2. /\ Level \in Prices /\ msg.id \in Ids /\ n = g_taker_left /\ n \in Nat \ {0}
  BY <1>1, CallFacts
<1>3. arena[e].size \in Nat /\ arena[e].size > 0 /\ e \in Entries
  BY <1>1, <1>2, HeadOfLevel
<1>4. n \in 0 .. g_taker_left
  BY <1>2
<1>5. /\ c = arena[e].trader /\ c \in Ids /\ Rests(c) /\ c # msg.id
      /\ g_orders[c].qty = arena[e].size /\ g_orders[c].qcid = e
      /\ g_orders[c].alive
  BY <1>0, <1>1, <1>3, MakerFacts DEF Rests
<1>6. call' = [call EXCEPT !.orderSize = @ - n] /\ g_taker_left' = g_taker_left - n
  <2>1. n - n = 0 /\ g_taker_left - n = LeftAfter(n)
    BY <1>2 DEF LeftAfter
  <2> QED
    BY <1>1, <2>1
<1> HIDE DEF e, n
<1>7. /\ g_orders' \in [Ids -> OrderState]
      /\ \A id \in Ids \ {c} : g_orders'[id] = g_orders[id]
      /\ IF g_orders[c].qty > n
           THEN /\ g_orders'[c].alive = g_orders[c].alive
                /\ g_orders'[c].qty = g_orders[c].qty - n
                /\ g_orders'[c].price = g_orders[c].price
                /\ g_orders'[c].side = g_orders[c].side
                /\ g_orders'[c].qcid = g_orders[c].qcid
           ELSE ~g_orders'[c].alive
  BY <1>1, <1>2, <1>5, Hit, ZenonT(30)
<1>8. /\ CallFits' /\ ~Idle' /\ g_taker_left' \in Nat /\ g_taker_side' \in Sides
      /\ \A id : InFlight(id)' <=> InFlight(id)
  BY <1>1, <1>2, <1>4, <1>5, <1>6, <1>7, SweepGoesOn
<1>9. \A id \in Ids : g_orders'[id].alive => g_orders[id].alive \/ id = msg.id
  BY <1>5, <1>7
<1>10. arena' \in [Entries -> Slot] /\ points' \in [Prices -> Seq(Entries)] /\ BookFits'
  <2>1. CASE arena[e].size > n
    <3>1. points' = points /\ arena' = [arena EXCEPT ![e].size = @ - n]
      BY <1>1, <2>1
    <3>2. \A id \in Ids : Rests(id)' <=> Rests(id)
      BY <1>5, <1>7, <1>8, <2>1 DEF Rests
    <3>3. /\ g_orders'[c].qty = g_orders[c].qty - n /\ g_orders'[c].qcid = e
          /\ g_orders'[c].price = g_orders[c].price /\ g_orders'[c].side = g_orders[c].side
      BY <1>5, <1>7, <2>1
    <3>. USE <1>2, <1>3, <1>5, <2>1
    <3>4. arena' \in [Entries -> Slot] /\ BookFits'
      <4>1. UNCHANGED <<points, askMin, bidMax, curOrderID>>
        BY <1>1, <3>1
      <4>2. \A id \in Ids \ {c} : g_orders'[id] = g_orders[id]
        BY <1>7
      <4> QED
        BY ONLY Inv, e \in Entries, c \in Ids, n \in Nat \ {0}, arena[e].size > n,
                c = arena[e].trader, Rests(c), g_orders[c].qcid = e,
                <3>1, <3>2, <3>3, <4>1, <4>2, TradedInPart
    <3> QED
      BY <3>1, <3>4 DEF Inv, Types
  <2>2. CASE ~(arena[e].size > n)
    <3>1. points' = [points EXCEPT ![Level] = Tail(@)] /\ arena' = arena
      BY <1>1, <2>2
    <3>2. ~Rests(c)' /\ \A id \in Ids \ {c} : Rests(id)' <=> Rests(id)
      BY <1>5, <1>7, <1>8, <2>2 DEF Rests
    <3>3. BookFits'
      BY <1>1, <1>2, <1>3, <1>5, <1>7, <3>1, <3>2, TradedWhole DEF e
    <3>4. points' \in [Prices -> Seq(Entries)]
      BY <1>1, <1>2, <3>1, Popped
    <3> QED
      BY <3>1, <3>3, <3>4 DEF Inv, Types
  <2> QED
    BY <2>1, <2>2
<1>11. TapeFits' /\ CursorsFit' /\ RoomFits' /\ Known'
  BY <1>1, <1>8, <1>9, SweepRest
<1>12. Types'
  BY <1>1, <1>7, <1>8, <1>10 DEF Inv, Types, prebuildVars
<1> QED
  BY <1>8, <1>10, <1>11, <1>12 DEF Inv

\* The best price leaves a level at which nothing rests.
LEMMA NextLevelKeeps == ASSUME Inv, NextLevel PROVE Inv'
<1>1. /\ ~Idle /\ Marketable /\ points[Level] = <<>>
      /\ IF call.order.side = "buy" THEN askMin' = askMin + 1 /\ bidMax' = bidMax
                                    ELSE bidMax' = bidMax - 1 /\ askMin' = askMin
      /\ UNCHANGED <<aborted, delivered, prebuildVars, cursors, takerVars,
                     g_orders, arena, points, curOrderID, call>>
  BY DEF NextLevel, Sweeping, Step
<1>2. /\ msg.side \in Sides /\ call.order.side = msg.side /\ call.order.price = msg.price
      /\ msg.price \in 1 .. kNumPricePoints - 1 /\ Level \in Prices
      /\ Level = (IF msg.side = "buy" THEN askMin ELSE bidMax)
      /\ g_taker_left \in Nat
  BY <1>1, CallFacts
<1>3. /\ askMin \in 1 .. kNumPricePoints /\ bidMax \in 0 .. kNumPricePoints - 1
      /\ bidMax < askMin /\ kNumPricePoints \in Nat
  BY QuantCupAssumption DEF Inv, Types, BookFits
<1>4. IF msg.side = "buy" THEN msg.price >= askMin ELSE msg.price <= bidMax
  BY <1>1, <1>2 DEF Marketable
<1>5. /\ askMin' \in 1 .. kNumPricePoints /\ bidMax' \in 0 .. kNumPricePoints - 1
      /\ bidMax' < askMin'
  BY <1>1, <1>2, <1>3, <1>4
<1>6. /\ UNCHANGED <<tape, running, g_pre, g_pre_modify, g_limit_calls, g_seq, g_taker_id,
                     g_taker_left, g_taker_side>>
      /\ msg' = msg /\ ~Idle'
  BY <1>1 DEF prebuildVars, takerVars, msg, Idle
<1>7. \A id \in Ids : Rests(id)' <=> Rests(id)
  BY <1>1, <1>6 DEF Rests, InFlight, Idle
<1>8. CallFits'
  BY <1>1, <1>6 DEF Inv, CallFits, Idle, Translate
<1>9. \A id \in Ids : OrderFits(id)'
  <2> SUFFICES ASSUME NEW id \in Ids, Rests(id) PROVE OrderFits(id)'
    BY <1>7 DEF OrderFits
  <2>1. OrderFits(id) /\ g_orders[id] \in OrderState
    BY DEF Inv, BookFits, Types
  <2> DEFINE price == g_orders[id].price
  <2>2. /\ price \in Int /\ Lists(price, g_orders[id].qcid)
        /\ IF g_orders[id].side = "buy" THEN price <= bidMax ELSE price >= askMin
    BY <2>1, QuantCupAssumption DEF OrderFits, OrderState, Prices
  <2>3. price # Level
    BY <1>1, <2>2 DEF Lists
  <2>4. IF g_orders[id].side = "buy" THEN price <= bidMax' ELSE price >= askMin'
    BY <1>1, <1>2, <1>3, <2>2, <2>3
  <2> HIDE DEF price
  <2>5. Lists(price, g_orders[id].qcid)'
    BY <1>1, <2>2 DEF Lists, price
  <2> QED
    BY <1>1, <2>1, <2>4, <2>5 DEF OrderFits, price
<1>10. \A p \in Prices : LevelFits(p)'
  <2> SUFFICES ASSUME NEW p \in Prices PROVE LevelFits(p)'
    OBVIOUS
  <2>1. \A x : EntryFits(p, x) => EntryFits(p, x)'
    BY <1>1, <1>7 DEF EntryFits
  <2>2. LevelFits(p)
    BY DEF Inv, BookFits
  <2> QED
    BY <1>1, <2>1, <2>2 DEF LevelFits
<1>11. TapeFits' /\ CursorsFit' /\ RoomFits' /\ Known'
  BY <1>1, <1>6, SweepRest
<1>12. Types'
  BY <1>1, <1>5, <1>6 DEF Inv, Types
<1> QED
  BY <1>5, <1>8, <1>9, <1>10, <1>11, <1>12 DEF Inv, BookFits

\* The order in hand does not rest before its call returns.
LEMMA NotResting == ASSUME Inv, ~Idle PROVE ~Rests(msg.id)
BY DEF Rests, InFlight

\* A filled order takes an entry number: what rests is as it was.
LEMMA FilledKeeps == ASSUME Inv, Filled PROVE Inv'
<1>0. PICK c : c = msg.id
  OBVIOUS
<1>1. ~Idle /\ call.orderSize = 0
  BY DEF Filled
<1>2. /\ c \in Ids /\ msg.type \in {"new", "modify"} /\ g_taker_left = 0
      /\ ~Rests(c) /\ (msg.type = "new" => ~g_orders[c].alive)
  BY <1>0, <1>1, CallFacts, NotResting DEF Inv, CallFits
<1>3. /\ curOrderID' = curOrderID + 1 /\ arena' = arena /\ call' = NoCall
      /\ g_orders' = IF msg.type = "modify" THEN [g_orders EXCEPT ![c].alive = FALSE]
                                            ELSE g_orders
      /\ UNCHANGED <<aborted, delivered, prebuildVars, cursors, takerVars,
                     points, askMin, bidMax>>
  BY <1>0, <1>2 DEF Filled, Return
<1>4. /\ g_orders' \in [Ids -> OrderState] /\ ~g_orders'[c].alive
      /\ \A id \in Ids \ {c} : g_orders'[id] = g_orders[id]
  <2>1. g_orders \in [Ids -> OrderState] /\ g_orders[c] \in OrderState
    BY <1>2 DEF Inv, Types
  <2>2. CASE msg.type = "new"
    BY <1>2, <1>3, <2>1, <2>2
  <2>3. CASE msg.type = "modify"
    <3> DEFINE r == [g_orders[c] EXCEPT !.alive = FALSE]
    <3>1. r \in OrderState /\ ~r.alive
      BY <2>1 DEF OrderState
    <3>2. g_orders' = [g_orders EXCEPT ![c] = r]
      BY <1>3, <2>1, <2>3
    <3> HIDE DEF r
    <3> QED
      BY <2>1, <3>1, <3>2, <1>2
  <2> QED
    BY <1>2, <2>2, <2>3
<1>5. Idle' /\ \A id \in Ids : Rests(id)' <=> Rests(id)
  BY <1>0, <1>1, <1>2, <1>3, <1>4 DEF Rests, InFlight, Idle
<1>6. \A id \in Ids : g_orders'[id].alive => g_orders[id].alive \/ id = msg.id
  BY <1>0, <1>4
<1>7. /\ TapeFits' /\ CursorsFit' /\ RoomFits' /\ Known'
      /\ curOrderID' \in 0 .. kMaxNumOrders - 1
  BY <1>1, <1>3, <1>5, <1>6, SweepRest
<1>8. Types'
  BY <1>3, <1>4, <1>7 DEF Inv, Types, prebuildVars, takerVars
<1>9. 1 .. curOrderID \subseteq 1 .. curOrderID'
  BY <1>3, QuantCupAssumption DEF Inv, Types
<1>10. \A id \in Ids : OrderFits(id)'
  <2> SUFFICES ASSUME NEW id \in Ids, Rests(id), id # c PROVE OrderFits(id)'
    BY <1>2, <1>5 DEF OrderFits
  <2>1. OrderFits(id) /\ g_orders'[id] = g_orders[id]
    BY <1>4 DEF Inv, BookFits
  <2>2. Lists(g_orders[id].price, g_orders[id].qcid)'
    BY <1>3, <2>1 DEF OrderFits, Lists
  <2> QED
    BY <1>3, <1>9, <2>1, <2>2 DEF OrderFits
<1>11. \A p \in Prices : LevelFits(p)'
  <2> SUFFICES ASSUME NEW p \in Prices PROVE LevelFits(p)'
    OBVIOUS
  <2>1. ASSUME NEW x, EntryFits(p, x) PROVE EntryFits(p, x)'
    <3>1. x \in 1 .. curOrderID'
      BY <1>9, <2>1 DEF EntryFits
    <3>2. ASSUME arena[x].size > 0
          PROVE  LET id == arena[x].trader
                 IN  /\ id \in Ids /\ Rests(id)' /\ g_orders'[id].qcid = x
                     /\ g_orders'[id].price = p
      <4>1. /\ arena[x].trader \in Ids /\ Rests(arena[x].trader)
            /\ g_orders[arena[x].trader].qcid = x /\ g_orders[arena[x].trader].price = p
        BY <2>1, <3>2 DEF EntryFits
      <4>2. arena[x].trader # c
        BY <1>2, <4>1
      <4>3. Rests(arena[x].trader)' <=> Rests(arena[x].trader)
        BY <1>3, <1>5, <4>1
      <4> QED
        BY <1>4, <1>5, <4>1, <4>2, <4>3
    <3> QED
      BY <1>3, <3>1, <3>2 DEF EntryFits
  <2>2. LevelFits(p)
    BY DEF Inv, BookFits
  <2> QED
    BY <1>3, <2>1, <2>2 DEF LevelFits
<1>12. bidMax' < askMin'
  BY <1>3 DEF Inv, BookFits
<1> QED
  BY <1>5, <1>7, <1>8, <1>10, <1>11, <1>12 DEF Inv, BookFits, CallFits

\* An entry joins a level.
LEMMA JoinsLevel ==
    ASSUME Inv, NEW p \in Prices, NEW e \in Entries,
           points' = [points EXCEPT ![p] = Joined(@, e)]
    PROVE  /\ points' \in [Prices -> Seq(Entries)]
           /\ \A q \in Prices \ {p} : points'[q] = points[q]
           /\ Len(points[p]) \in Nat /\ Len(points'[p]) = Len(points[p]) + 1
           /\ \A i \in 1 .. Len(points[p]) : points'[p][i] = points[p][i]
           /\ points'[p][Len(points[p]) + 1] = e
<1>1. points \in [Prices -> Seq(Entries)]
  BY DEF Inv, Types
<1> DEFINE s == Append(points[p], e)
<1>2. /\ s \in Seq(Entries) /\ Len(s) = Len(points[p]) + 1
      /\ \A i \in 1 .. Len(points[p]) : s[i] = points[p][i]
      /\ s[Len(points[p]) + 1] = e /\ Len(points[p]) \in Nat
  BY <1>1, AppendProperties, LenProperties
<1>3. points' = [points EXCEPT ![p] = s]
  BY DEF Joined
<1> HIDE DEF s
<1> QED
  BY <1>1, <1>2, <1>3

\* What is left of an order joins its level, or leaves a tombstone there.
LEMMA Placed ==
    ASSUME Inv, NEW p \in Prices, NEW e \in Entries, NEW c \in Ids, NEW slot \in Slot,
           e = curOrderID + 1, curOrderID' = e, PriceInRange(p), ~Rests(c),
           points' = [points EXCEPT ![p] = Joined(@, e)],
           arena' = [arena EXCEPT ![e] = slot],
           bidMax' \in Int, askMin' \in Int,
           bidMax' >= bidMax, askMin' <= askMin, bidMax' < askMin',
           \A id \in Ids \ {c} : g_orders'[id] = g_orders[id] /\ (Rests(id)' <=> Rests(id)),
           \/ slot.size = 0 /\ ~Rests(c)'
           \/ /\ Rests(c)' /\ slot = [trader |-> c, size |-> g_orders'[c].qty]
              /\ g_orders'[c].qcid = e /\ g_orders'[c].price = p /\ g_orders'[c].qty > 0
              /\ IF g_orders'[c].side = "buy" THEN p <= bidMax' ELSE p >= askMin'
    PROVE  arena' \in [Entries -> Slot] /\ BookFits'
<1>1. /\ \A q \in Prices \ {p} : points'[q] = points[q]
      /\ Len(points[p]) \in Nat /\ Len(points'[p]) = Len(points[p]) + 1
      /\ \A i \in 1 .. Len(points[p]) : points'[p][i] = points[p][i]
      /\ points'[p][Len(points[p]) + 1] = e
  BY JoinsLevel
<1>2. /\ arena' \in [Entries -> Slot] /\ arena'[e] = slot
      /\ \A x \in 1 .. curOrderID : arena'[x] = arena[x]
  <2>1. arena \in [Entries -> Slot]
    BY DEF Inv, Types
  <2>2. 1 .. curOrderID \subseteq Entries /\ e \notin 1 .. curOrderID
    BY HandedOut, QuantCupAssumption DEF Inv, Types
  <2> QED
    BY <2>1, <2>2
<1>3. 1 .. curOrderID \subseteq 1 .. curOrderID' /\ e \in 1 .. curOrderID'
      /\ \A x \in 1 .. curOrderID : x < e /\ x # e
  BY QuantCupAssumption DEF Inv, Types
<1>4. \A q \in Prices : \A x : Lists(q, x) => Lists(q, x)'
  <2> SUFFICES ASSUME NEW q \in Prices, NEW x, Lists(q, x) PROVE Lists(q, x)'
    OBVIOUS
  <2>1. CASE q # p
    BY <1>1, <2>1 DEF Lists
  <2>2. CASE q = p
    <3>1. PICK i \in 1 .. Len(points[p]) : points[p][i] = x
      BY <2>2 DEF Lists
    <3>2. i \in 1 .. Len(points'[p]) /\ points'[p][i] = x
      BY <1>1, <3>1
    <3> QED
      BY <2>2, <3>2 DEF Lists
  <2> QED
    BY <2>1, <2>2
<1>5. Lists(p, e)'
  <2>1. Len(points[p]) + 1 \in 1 .. Len(points'[p])
    BY <1>1
  <2> QED
    BY <1>1, <2>1 DEF Lists
<1>6. ASSUME NEW id \in Ids PROVE OrderFits(id)'
  <2>1. OrderFits(id) /\ g_orders[id] \in OrderState
    BY DEF Inv, BookFits, Types
  <2>2. CASE id = c /\ Rests(c)'
    <3>1. arena'[e] = [trader |-> c, size |-> g_orders'[c].qty]
      BY <1>2, <2>2
    <3> QED
      BY <1>3, <1>5, <2>2, <3>1 DEF OrderFits
  <2>3. CASE id # c /\ Rests(id)
    <3> DEFINE s == g_orders[id]
    <3>1. /\ PriceInRange(s.price) /\ s.qty > 0 /\ s.qcid \in 1 .. curOrderID
          /\ Lists(s.price, s.qcid)
          /\ arena[s.qcid] = [trader |-> id, size |-> s.qty]
          /\ IF s.side = "buy" THEN s.price <= bidMax ELSE s.price >= askMin
          /\ s.price \in Prices /\ s.price \in Int
      BY <2>1, <2>3, QuantCupAssumption DEF OrderFits, OrderState, Prices
    <3>2. bidMax \in Int /\ askMin \in Int
      BY QuantCupAssumption DEF Inv, Types
    <3> DEFINE price == s.price
    <3>3. IF s.side = "buy" THEN s.price <= bidMax' ELSE s.price >= askMin'
      <4> HIDE DEF s
      <4> QED
        BY <3>1, <3>2
    <3>4. arena'[s.qcid] = [trader |-> id, size |-> s.qty] /\ s.qcid \in 1 .. curOrderID'
      BY <1>2, <1>3, <3>1
    <3>5. g_orders'[id] = g_orders[id] /\ Lists(g_orders[id].price, g_orders[id].qcid)'
      BY <1>4, <2>3, <3>1
    <3> QED
      BY <3>1, <3>3, <3>4, <3>5 DEF OrderFits
  <2>4. CASE ~Rests(id)'
    BY <2>4 DEF OrderFits
  <2> QED
    BY <2>2, <2>3, <2>4
<1>7. ASSUME NEW q \in Prices, NEW x, EntryFits(q, x) PROVE EntryFits(q, x)' /\ x < e
  <2>1. x \in 1 .. curOrderID' /\ x < e /\ arena'[x] = arena[x]
    BY <1>2, <1>3, <1>7 DEF EntryFits
  <2>2. ASSUME NEW id, id = arena[x].trader, arena[x].size > 0
        PROVE  id \in Ids /\ Rests(id)' /\ g_orders'[id].qcid = x /\ g_orders'[id].price = q
    <3>1. id \in Ids /\ Rests(id) /\ g_orders[id].qcid = x /\ g_orders[id].price = q
      BY <1>7, <2>2 DEF EntryFits
    <3>2. id # c
      BY <3>1
    <3> QED
      BY <3>1, <3>2
  <2> QED
    BY <2>1, <2>2 DEF EntryFits
<1>8. EntryFits(p, e)'
  <2>1. CASE slot.size = 0
    BY <1>2, <1>3, <2>1 DEF EntryFits
  <2>2. CASE slot.size # 0
    <3>1. arena'[e].trader = c
      BY <1>2, <2>2
    <3> QED
      BY <1>3, <2>2, <3>1 DEF EntryFits
  <2> QED
    BY <2>1, <2>2
<1>9. ASSUME NEW q \in Prices PROVE LevelFits(q)'
  <2>1. LevelFits(q) /\ e \in Nat
    BY DEF Inv, BookFits, Entries
  <2>2. CASE q # p
    BY <1>1, <1>7, <2>1, <2>2, SMTT(30) DEF LevelFits
  <2>3. CASE q = p
    <3> DEFINE n == Len(points[p])
    <3>1. \A i \in 1 .. Len(points'[p]) : i \in 1 .. n \/ i = n + 1
      BY <1>1
    <3>2. \A i \in 1 .. n : points'[p][i] = points[p][i] /\ EntryFits(p, points[p][i])
      BY <1>1, <2>1, <2>3 DEF LevelFits
    <3>3. ASSUME NEW i \in 1 .. Len(points'[p]), NEW x, x = points'[p][i]
          PROVE  EntryFits(p, x)'
      <4>1. CASE i \in 1 .. n
        BY <1>7, <3>2, <3>3, <4>1
      <4>2. CASE i = n + 1
        BY <1>1, <1>8, <3>3, <4>2
      <4> QED
        BY <3>1, <4>1, <4>2
    <3>4. ASSUME NEW i \in 1 .. Len(points'[p]), NEW j \in 1 .. Len(points'[p]), i < j
          PROVE  points'[p][i] < points'[p][j]
      <4>1. i \in 1 .. n /\ (j \in 1 .. n \/ j = n + 1)
        BY <1>1, <3>1, <3>4
      <4>2. CASE j \in 1 .. n
        BY <2>1, <2>3, <3>2, <3>4, <4>1, <4>2 DEF LevelFits
      <4>3. CASE j = n + 1
        BY <1>1, <1>7, <3>2, <4>1, <4>3
      <4> QED
        BY <4>1, <4>2, <4>3
    <3> QED
      BY <2>3, <3>3, <3>4 DEF LevelFits
  <2> QED
    BY <2>2, <2>3
<1> QED
  BY <1>2, <1>6, <1>9 DEF BookFits

\* What the rest of the handler leaves in the shadow and in the new slot.
LEMMA InsertReturns ==
    ASSUME Inv, Insert, NEW c, c = msg.id, NEW e, e = curOrderID + 1,
           NEW p, p = msg.price
    PROVE  \E slot \in Slot :
             /\ arena' = [arena EXCEPT ![e] = slot]
             /\ g_orders' \in [Ids -> OrderState]
             /\ \A id \in Ids \ {c} : g_orders'[id] = g_orders[id]
             /\ \/ slot.size = 0 /\ ~g_orders'[c].alive
                \/ /\ slot = [trader |-> c, size |-> g_orders'[c].qty]
                   /\ g_orders'[c].alive /\ g_orders'[c].qcid = e
                   /\ g_orders'[c].price = p /\ g_orders'[c].qty > 0
                   /\ g_orders'[c].side = msg.side
<1> DEFINE left == g_taker_left
           dropped == msg.type = "new" /\ msg.ioc /\ left > 0
           state == [price |-> msg.price, qty |-> left, side |-> msg.side,
                     alive |-> TRUE, qcid |-> e]
           a == [arena EXCEPT ![e] = [trader |-> c, size |-> left]]
<1>1. ~Idle /\ call.orderSize > 0
  BY DEF Insert, Sweeping
<1>2. /\ c \in Ids /\ msg.side \in Sides /\ msg.price \in 1 .. kNumPricePoints - 1
      /\ msg.type \in {"new", "modify"} /\ (msg.type = "new" => msg.ioc \in BOOLEAN)
      /\ call.order.trader = c /\ call.orderSize = left /\ left \in Nat
  BY <1>1, CallFacts
<1>3. left > 0 /\ left \in Nat
  BY <1>1, <1>2
<1>4. /\ arena' = IF dropped THEN Tombstone(a, e) ELSE a
      /\ g_orders' = IF ~dropped THEN [g_orders EXCEPT ![c] = state]
                     ELSE IF msg.type = "modify"
                       THEN [g_orders EXCEPT ![c].alive = FALSE]
                     ELSE g_orders
  BY <1>2, <1>3 DEF Insert, Return
<1>5. /\ g_orders \in [Ids -> OrderState] /\ arena \in [Entries -> Slot]
      /\ msg.type = "new" => ~g_orders[c].alive
  BY <1>1 DEF Inv, Types, CallFits
<1>6. curOrderID + 1 \in 0 .. kMaxNumOrders - 1 /\ e \in Entries
  <2>1. /\ curOrderID + Busy + Cardinality(Remaining) <= kMaxNumOrders - 1 /\ Busy = 1
        /\ curOrderID \in Nat /\ kMaxNumOrders \in Nat
    BY <1>1, QuantCupAssumption DEF Inv, Types, RoomFits, Busy
  <2>2. Cardinality(Remaining) \in Nat
    <3>1. Len(tape) \in Nat /\ delivered \in Nat
      BY LenProperties DEF Inv, Types
    <3>2. Remaining \subseteq 1 .. Len(tape) /\ IsFiniteSet(1 .. Len(tape))
      BY <3>1, FS_Interval DEF Remaining
    <3> QED
      BY <3>2, FS_Subset, FS_CardinalityType
  <2> QED
    BY <2>1, <2>2 DEF Entries
<1>7. CASE dropped
  <2> DEFINE slot == [trader |-> c, size |-> 0]
  <2>1. slot \in Slot /\ slot.size = 0
    BY <1>2 DEF Slot
  <2>2. a[e] = [trader |-> c, size |-> left]
    BY <1>5, <1>6
  <2>3. Tombstone(a, e) = [arena EXCEPT ![e] = slot]
    <3> DEFINE r == [trader |-> c, size |-> left]
    <3>1. [r EXCEPT !.size = 0] = slot
      OBVIOUS
    <3>2. Tombstone(a, e) = [a EXCEPT ![e] = slot]
      BY <2>2, <3>1 DEF Tombstone
    <3> HIDE DEF r, slot
    <3>3. a = [arena EXCEPT ![e] = r]
      BY DEF r
    <3> HIDE DEF a
    <3> QED
      BY <1>5, <1>6, <3>2, <3>3
  <2>4. arena' = [arena EXCEPT ![e] = slot] /\ g_orders' = g_orders /\ ~g_orders[c].alive
    BY <1>4, <1>5, <1>7, <2>3
  <2> HIDE DEF slot, dropped, state, a
  <2>5. \A id \in Ids \ {c} : g_orders'[id] = g_orders[id]
    BY <2>4
  <2> QED
    BY <1>5, <2>1, <2>4, <2>5
<1>8. CASE ~dropped
  <2> DEFINE slot == [trader |-> c, size |-> left]
  <2>1. slot \in Slot
    BY <1>2, <1>3 DEF Slot
  <2>2. /\ state \in OrderState /\ state.alive /\ state.qcid = e /\ state.price = p
        /\ state.qty = left /\ state.side = msg.side
    <3>1. /\ msg.price \in Prices /\ left \in Nat /\ msg.side \in Sides
          /\ e \in 0 .. kMaxNumOrders - 1
      <4> HIDE DEF left
      <4> QED
        BY <1>2, <1>3, <1>6, QuantCupAssumption DEF Prices
    <3>2. state \in OrderState
      BY <3>1 DEF OrderState
    <3> QED
      BY <3>2
  <2>3. arena' = [arena EXCEPT ![e] = slot] /\ g_orders' = [g_orders EXCEPT ![c] = state]
    <3> HIDE DEF dropped, state
    <3> QED
      BY <1>4, <1>8
  <2> HIDE DEF state
  <2>4. /\ g_orders' \in [Ids -> OrderState] /\ g_orders'[c] = state
        /\ \A id \in Ids \ {c} : g_orders'[id] = g_orders[id]
    BY <1>2, <1>5, <2>2, <2>3
  <2>5. /\ slot = [trader |-> c, size |-> g_orders'[c].qty]
        /\ g_orders'[c].alive /\ g_orders'[c].qcid = e
        /\ g_orders'[c].price = p /\ g_orders'[c].qty > 0
        /\ g_orders'[c].side = msg.side
    BY <1>3, <2>2, <2>4
  <2> HIDE DEF slot, dropped, a
  <2> QED
    BY <2>1, <2>3, <2>4, <2>5
<1> QED
  BY <1>7, <1>8

LEMMA InsertKeeps == ASSUME Inv, Insert PROVE Inv'
<1>0. PICK c, e, p : c = msg.id /\ e = curOrderID + 1 /\ p = msg.price
  OBVIOUS
<1>1. ~Idle /\ ~Marketable /\ call.orderSize > 0
  BY DEF Insert, Sweeping
<1>2. /\ c \in Ids /\ msg.side \in Sides /\ p \in 1 .. kNumPricePoints - 1
      /\ call.order.side = msg.side /\ call.order.price = p
      /\ Level = (IF msg.side = "buy" THEN askMin ELSE bidMax)
  BY <1>0, <1>1, CallFacts
<1>3. /\ points' = [points EXCEPT ![p] = Joined(@, e)]
      /\ IF msg.side = "buy" THEN bidMax' = Max({bidMax, p}) /\ askMin' = askMin
                             ELSE askMin' = Min({askMin, p}) /\ bidMax' = bidMax
      /\ curOrderID' = e /\ call' = NoCall
      /\ UNCHANGED <<aborted, delivered, prebuildVars, cursors, takerVars>>
  BY <1>0, <1>2 DEF Insert, Return
<1>4. PICK slot \in Slot :
         /\ arena' = [arena EXCEPT ![e] = slot]
         /\ g_orders' \in [Ids -> OrderState]
         /\ \A id \in Ids \ {c} : g_orders'[id] = g_orders[id]
         /\ \/ slot.size = 0 /\ ~g_orders'[c].alive
            \/ /\ slot = [trader |-> c, size |-> g_orders'[c].qty]
               /\ g_orders'[c].alive /\ g_orders'[c].qcid = e
               /\ g_orders'[c].price = p /\ g_orders'[c].qty > 0
               /\ g_orders'[c].side = msg.side
  BY <1>0, InsertReturns
<1>5. /\ askMin \in 1 .. kNumPricePoints /\ bidMax \in 0 .. kNumPricePoints - 1
      /\ bidMax < askMin /\ kNumPricePoints \in Nat
      /\ IF msg.side = "buy" THEN p < askMin ELSE p > bidMax
  <2>1. /\ askMin \in 1 .. kNumPricePoints /\ bidMax \in 0 .. kNumPricePoints - 1
        /\ bidMax < askMin /\ kNumPricePoints \in Nat
    BY QuantCupAssumption DEF Inv, Types, BookFits
  <2>2. IF msg.side = "buy" THEN ~(p >= askMin) ELSE ~(p <= bidMax)
    BY <1>1, <1>2 DEF Marketable
  <2> QED
    BY <1>2, <2>1, <2>2
<1>6. /\ askMin' \in 1 .. kNumPricePoints /\ bidMax' \in 0 .. kNumPricePoints - 1
      /\ bidMax' >= bidMax /\ askMin' <= askMin /\ bidMax' < askMin'
      /\ IF msg.side = "buy" THEN p <= bidMax' ELSE p >= askMin'
  <2>1. CASE msg.side = "buy"
    <3>1. bidMax' = (IF bidMax >= p THEN bidMax ELSE p) /\ askMin' = askMin
      BY <1>2, <1>3, <1>5, <2>1, LargerOf
    <3> QED
      BY <1>2, <1>5, <2>1, <3>1
  <2>2. CASE msg.side # "buy"
    <3>1. askMin' = (IF askMin <= p THEN askMin ELSE p) /\ bidMax' = bidMax
      BY <1>2, <1>3, <1>5, <2>2, SmallerOf
    <3> QED
      BY <1>2, <1>5, <2>2, <3>1
  <2> QED
    BY <2>1, <2>2
<1>7. Idle' /\ \A id : ~InFlight(id)'
  BY <1>3 DEF Idle, InFlight
<1>8. \A id \in Ids \ {c} : Rests(id)' <=> Rests(id)
  BY <1>0, <1>4, <1>7 DEF Rests, InFlight
<1>9. ~Rests(c) /\ (Rests(c)' <=> g_orders'[c].alive)
  BY <1>0, <1>1, <1>7, NotResting DEF Rests
<1>10. \A id \in Ids : g_orders'[id].alive => g_orders[id].alive \/ id = msg.id
  BY <1>0, <1>4
<1>11. /\ TapeFits' /\ CursorsFit' /\ RoomFits' /\ Known'
       /\ curOrderID' \in 0 .. kMaxNumOrders - 1
  BY <1>0, <1>1, <1>3, <1>7, <1>10, SweepRest
<1>12. e \in Entries /\ p \in Prices /\ PriceInRange(p) /\ msg.side \in Sides
  <2>1. e \in 1 .. kMaxNumOrders - 1
    BY <1>0, <1>3, <1>11, QuantCupAssumption DEF Inv, Types
  <2> QED
    BY <1>2, <2>1, QuantCupAssumption
       DEF Entries, Prices, PriceInRange, QC_PRICE_MIN, QC_PRICE_MAX
<1>13. points' \in [Prices -> Seq(Entries)]
  BY <1>3, <1>12, JoinsLevel
<1>14. arena' \in [Entries -> Slot] /\ BookFits'
  <2>1. /\ \A id \in Ids \ {c} : g_orders'[id] = g_orders[id] /\ (Rests(id)' <=> Rests(id))
        /\ \/ slot.size = 0 /\ ~Rests(c)'
           \/ /\ Rests(c)' /\ slot = [trader |-> c, size |-> g_orders'[c].qty]
              /\ g_orders'[c].qcid = e /\ g_orders'[c].price = p /\ g_orders'[c].qty > 0
              /\ IF g_orders'[c].side = "buy" THEN p <= bidMax' ELSE p >= askMin'
    BY <1>4, <1>6, <1>8, <1>9
  <2>2. /\ bidMax' \in Int /\ askMin' \in Int
        /\ bidMax' >= bidMax /\ askMin' <= askMin /\ bidMax' < askMin'
    BY <1>6
  <2> QED
    BY <1>0, <1>2, <1>3, <1>4, <1>9, <1>12, <2>1, <2>2, Placed
<1>15. Types'
  BY <1>3, <1>4, <1>6, <1>11, <1>13, <1>14 DEF Inv, Types, prebuildVars, takerVars
<1> QED
  BY <1>7, <1>11, <1>14, <1>15 DEF Inv, CallFits

\* Every step of the adapter and of the engine keeps the invariant.
LEMMA NextInv == Inv /\ [Next]_vars => Inv'
<1> SUFFICES ASSUME Inv, [Next]_vars PROVE Inv'
  OBVIOUS
<1>1. ASSUME NEW m \in Workload(tape), Follows(m), engine_prebuild(m) PROVE Inv'
  BY <1>1, PrebuildKeeps
<1>2. CASE StartRun
  BY <1>2, StartRunKeeps
<1>3. CASE Deliver
  BY <1>3, DeliverKeeps
<1>4. CASE PassEntry
  BY <1>4, PassEntryKeeps
<1>5. CASE FillEntry
  BY <1>5, FillEntryKeeps
<1>6. CASE Filled
  BY <1>6, FilledKeeps
<1>7. CASE NextLevel
  BY <1>7, NextLevelKeeps
<1>8. CASE Insert
  BY <1>8, InsertKeeps
<1>9. CASE Over \/ UNCHANGED vars
  <2>1. /\ UNCHANGED <<tape, running, g_pre, g_pre_modify, g_limit_calls, delivered,
                       g_orders, cursors, takerVars, engine, call>>
        /\ aborted' \in BOOLEAN
    BY <1>9 DEF Over, vars, prebuildVars, Inv, Types
  <2> QED
    BY <2>1, UnchangedKeeps
<1> QED
  BY <1>1, <1>2, <1>3, <1>4, <1>5, <1>6, <1>7, <1>8, <1>9 DEF Next

\* The invariant holds in every reachable state, whatever the workload sends.
THEOREM Invariance == Spec => []Inv
BY InitInv, NextInv, PTL DEF Spec

-----------------------------------------------------------------------------
(* What the invariant says of the program.                                 *)

\* The state always has its type; in particular the cursors of the two prebuilt
\* lists stay inside them and every entry number is a slot of the arena.
THEOREM TypeCorrect == Spec => []TypeOK
<1>1. Inv => TypeOK
  <2> SUFFICES ASSUME Inv PROVE TypeOK
    OBVIOUS
  <2>1. Len(tape) \in Nat /\ delivered \in 0 .. Len(tape)
    BY LenProperties DEF Inv, Types
  <2>2. ASSUME NEW type
        PROVE  /\ Cardinality(Upto(tape, type, delivered)) \in Nat
               /\ Cardinality(Upto(tape, type, delivered))
                    <= Cardinality(Upto(tape, type, Len(tape)))
               /\ Cardinality(Upto(tape, type, Len(tape))) \in Nat
    <3>1. CASE delivered = 0
      <4>1. Upto(tape, type, delivered) = {}
        BY <3>1 DEF Upto
      <4>2. Cardinality(Upto(tape, type, Len(tape))) \in Nat
        BY <2>1, UptoFinite
      <4> QED
        BY <4>1, <4>2, FS_EmptySet
    <3>2. CASE delivered # 0
      <4>1. delivered \in 1 .. Len(tape) /\ delivered \in Nat
        BY <2>1, <3>2
      <4> QED
        BY <2>1, <4>1, UptoFinite
    <3> QED
      BY <3>1, <3>2
  <2>3. g_pre_idx \in 0 .. Len(g_pre) /\ g_pre_modify_idx \in 0 .. Len(g_pre_modify)
    BY <2>2 DEF Inv, CursorsFit, IsPrebuilt
  <2>4. g_limit_calls \in Nat
    BY QuantCupAssumption DEF Inv, RoomFits
  <2> QED
    BY <2>3, <2>4 DEF Inv, Types, TypeOK, OrderState, Slot, Sides
<1> QED
  BY <1>1, Invariance, PTL

\* The shadow that answers the queries and the engine's book are the same book.
THEOREM ShadowMatchesBook == Spec => []ShadowIsBook
<1>1. Inv => ShadowIsBook
  <2> SUFFICES ASSUME Inv PROVE ShadowIsBook
    OBVIOUS
  <2>1. ASSUME NEW id \in Ids, g_orders[id].alive /\ ~InFlight(id)
        PROVE  LET s == g_orders[id] IN
               /\ Contains(points[s.price], s.qcid)
               /\ arena[s.qcid] = [trader |-> encode_id(id), size |-> s.qty]
               /\ s.qty > 0
    <3>1. encode_id(id) = id /\ OrderFits(id) /\ Rests(id)
      BY <2>1, EncodeId DEF Inv, BookFits, Rests
    <3> QED
      BY <3>1 DEF OrderFits, Lists, Contains
  <2>2. ASSUME NEW p \in Prices, NEW e \in Range(points[p]), arena[e].size > 0
        PROVE  \E id \in Ids : /\ g_orders[id].alive /\ ~InFlight(id)
                               /\ g_orders[id].qcid = e /\ g_orders[id].price = p
    <3>1. points[p] \in Seq(Entries) /\ LevelFits(p)
      BY DEF Inv, Types, BookFits
    <3>2. PICK i \in 1 .. Len(points[p]) : points[p][i] = e
      BY <3>1, LenProperties DEF Range
    <3>3. EntryFits(p, e)
      BY <3>1, <3>2 DEF LevelFits
    <3> QED
      BY <2>2, <3>3 DEF EntryFits, Rests
  <2> QED
    BY <2>1, <2>2 DEF ShadowIsBook
<1> QED
  BY <1>1, Invariance, PTL

\* The best prices separate the resting buys from the resting sells, however
\* stale they are.
THEOREM SidesApart == Spec => []SidesNeverMix
<1>1. Inv => SidesNeverMix
  BY DEF Inv, BookFits, OrderFits, Rests, SidesNeverMix
<1> QED
  BY <1>1, Invariance, PTL

\* Every limit() call sweeps the order prebuilt for the message in hand.
THEOREM PrebuiltRight == Spec => []PrebuiltIsMessage
<1>1. Inv => PrebuiltIsMessage
  BY DEF Inv, CallFits, PrebuiltIsMessage
<1> QED
  BY <1>1, Invariance, PTL

\* The arena never runs out of slots in mid-run: engine_prebuild's count bounds
\* every limit() call that can still come.
THEOREM RoomForAll == Spec => []ArenaHasRoom
<1>1. Inv => ArenaHasRoom
  BY DEF Inv, RoomFits, Busy, ArenaHasRoom
<1> QED
  BY <1>1, Invariance, PTL

-----------------------------------------------------------------------------
(* Adapter and engine implement the contract.                              *)

Filed(s) == [side |-> s.side, price |-> s.price, qty |-> s.qty, time |-> s.qcid]

\* The abstract book holds the orders that rest, as the shadow has them.
LEMMA BookOfShadow ==
    /\ ShadowBook = [id \in Ids |-> IF Rests(id) THEN Filed(g_orders[id]) ELSE C!NoOrder]
    /\ ShadowBook' = [id \in Ids |-> IF Rests(id)' THEN Filed(g_orders'[id]) ELSE C!NoOrder]
BY DEF ShadowBook, Rests, InFlight, Filed, C!NoOrder

LEMMA BookAt ==
    ASSUME Inv, NEW id \in Ids
    PROVE  /\ C!Resting(id) <=> Rests(id)
           /\ Rests(id) => /\ ShadowBook[id] = Filed(g_orders[id])
                           /\ ShadowBook[id].side = g_orders[id].side
                           /\ ShadowBook[id].price = g_orders[id].price
           /\ ~Rests(id) => ShadowBook[id] = C!NoOrder
<1>1. g_orders[id].side # "none"
  BY DEF Inv, Types, OrderState, Sides
<1>2. ShadowBook[id] = IF Rests(id) THEN Filed(g_orders[id]) ELSE C!NoOrder
  BY BookOfShadow
<1>3. Filed(g_orders[id]) # C!NoOrder
  BY <1>1 DEF Filed, C!NoOrder
<1>4. /\ Filed(g_orders[id]).side = g_orders[id].side
      /\ Filed(g_orders[id]).price = g_orders[id].price
  BY DEF Filed
<1> QED
  BY <1>2, <1>3, <1>4 DEF C!Resting

\* The taker is the message in hand, if there is one.
LEMMA TakerOfCall ==
    ASSUME Inv
    PROVE  /\ Idle => Taker = C!NoOrder
           /\ ~Idle => /\ Taker = [id |-> msg.id, side |-> msg.side, price |-> msg.price,
                                   qty |-> msg.qty, left |-> g_taker_left, kind |-> msg.type,
                                   ioc |-> msg.type = "new" /\ msg.ioc]
                       /\ Taker # C!NoOrder
<1>1. Idle => Taker = C!NoOrder
  BY DEF Taker, C!NoOrder
<1>2. ASSUME ~Idle
      PROVE  /\ Taker = [id |-> msg.id, side |-> msg.side, price |-> msg.price,
                         qty |-> msg.qty, left |-> g_taker_left, kind |-> msg.type,
                         ioc |-> msg.type = "new" /\ msg.ioc]
             /\ Taker # C!NoOrder
  <2>1. g_taker_id = msg.id /\ g_taker_side = msg.side
    BY <1>2 DEF Inv, CallFits
  <2>2. Taker = [id |-> msg.id, side |-> msg.side, price |-> msg.price,
                 qty |-> msg.qty, left |-> g_taker_left, kind |-> msg.type,
                 ioc |-> msg.type = "new" /\ msg.ioc]
    BY <1>2, <2>1 DEF Taker
  <2>3. Taker.side = msg.side /\ msg.side \in Sides
    BY <1>2, <2>2, CallFacts
  <2>4. Taker.side # "none"
    BY <2>3 DEF Sides
  <2>5. C!NoOrder.side = "none"
    BY DEF C!NoOrder
  <2>6. Taker # C!NoOrder
    BY <2>4, <2>5
  <2> QED
    BY <2>2, <2>6
<1> QED
  BY <1>1, <1>2

LEMMA ContractInit == Init => C!Init
<1> SUFFICES ASSUME Init PROVE C!Init
  OBVIOUS
<1>1. Idle /\ \A id \in Ids : ~Rests(id)
  BY DEF Init, Idle, Rests, DeadOrder
<1>2. ShadowBook = [id \in Ids |-> C!NoOrder]
  BY <1>1, BookOfShadow
<1>3. Taker = C!NoOrder
  BY <1>1 DEF Taker, C!NoOrder
<1> QED
  BY <1>2, <1>3 DEF Init, C!Init

\* A step that moves none of it is a stutter.
LEMMA Stutters ==
    ASSUME Inv, Inv', UNCHANGED <<g_orders, delivered, curOrderID, emitted, g_taker_left>>,
           Idle' <=> Idle, ~Idle => tape' = tape
    PROVE  UNCHANGED C!vars
<1>1. ~Idle => msg' = msg
  BY DEF msg
<1>2. \A id \in Ids : Rests(id)' <=> Rests(id)
  BY <1>1 DEF Rests, InFlight
<1>3. ShadowBook' = ShadowBook
  BY <1>2, BookOfShadow
<1>4. Taker' = Taker
  <2>1. CASE Idle
    BY <2>1 DEF Taker
  <2>2. CASE ~Idle
    <3>1. /\ g_taker_id = msg.id /\ g_taker_side = msg.side
          /\ g_taker_id' = msg' .id /\ g_taker_side' = msg' .side
      BY <2>2 DEF Inv, CallFits
    <3> QED
      BY <1>1, <2>2, <3>1 DEF Taker
  <2> QED
    BY <2>1, <2>2
<1> QED
  BY <1>3, <1>4 DEF C!vars

\* A message is handed to the engine: Idle before it, and no taker yet.
LEMMA DeliversNew ==
    ASSUME Inv, Inv', CanDeliver, NEW m, m = tape[delivered + 1], m.type = "new",
           engine_on_new_order(m), delivered' = delivered + 1, UNCHANGED prebuildVars
    PROVE  C!Next
<1>1. /\ EnterLimit(g_pre[g_pre_idx + 1], m)
      /\ emitted' = <<AckQty("OrderAck", delivered + 1, m.id, m.side, m.price, m.qty)>>
      /\ UNCHANGED <<g_orders, curOrderID, tape>>
  BY DEF engine_on_new_order, engine, prebuildVars
<1>2. /\ Idle /\ delivered \in Nat /\ delivered + 1 \in 1 .. Len(tape)
  BY LenProperties DEF CanDeliver, Inv, Types
<1>3. m \in Message /\ PriceInRange(m.price)
  BY <1>2, ElementOfSeq DEF Inv, Types, TapeFits
<1>4. /\ m.id \in Ids /\ m.side \in Sides /\ m.qty \in Quantities /\ m.ioc \in BOOLEAN
      /\ m.price \in Int
  BY <1>3, MessageFields
<1>5. m.price \in Prices
  BY <1>3, <1>4, QuantCupAssumption
     DEF PriceInRange, QC_PRICE_MIN, QC_PRICE_MAX, Prices
<1>6. m \in C!Message
  BY <1>3, <1>5 DEF Message, C!Message, C!NewOrder, C!Cancel, C!Modify, Sides, C!Sides
<1>7. ~g_orders[m.id].alive
  BY <1>2, <1>4 DEF Inv, Known, TapeFits
<1>8. msg' = m /\ ~Idle'
  BY <1>1, CallNotIdle DEF msg, EnterLimit, Idle
<1>9. \A id \in Ids : Rests(id)' <=> Rests(id)
  BY <1>1, <1>2, <1>7, <1>8 DEF Rests, InFlight
<1>10. ShadowBook' = ShadowBook
  BY <1>1, <1>9, BookOfShadow
<1>11. Taker' = [id |-> m.id, side |-> m.side, price |-> m.price,
                 qty |-> m.qty, left |-> m.qty, kind |-> "new", ioc |-> m.ioc]
  <2>1. g_taker_id' = m.id /\ g_taker_side' = m.side /\ g_taker_left' = m.qty
    BY <1>1 DEF EnterLimit
  <2>2. (m.type = "new" /\ m.ioc) = m.ioc
    BY <1>4
  <2> QED
    BY <1>8, <2>1, <2>2 DEF Taker
<1>12. C!DeliverNew(m)
  <2>1. ~C!Resting(m.id)
    BY <1>4, <1>7, BookAt DEF Rests
  <2> QED
    BY <1>1, <1>10, <1>11, <2>1 DEF C!DeliverNew, C!AckQty, AckQty
<1>13. C!Idle
  BY <1>2, TakerOfCall DEF C!Idle
<1> QED
  BY <1>6, <1>12, <1>13 DEF C!Next, C!Deliver

LEMMA DeliversCancel ==
    ASSUME Inv, Inv', CanDeliver, NEW m, m = tape[delivered + 1], m.type = "cancel",
           engine_on_cancel(m), delivered' = delivered + 1, UNCHANGED prebuildVars
    PROVE  C!Next
<1>1. /\ UNCHANGED <<curOrderID, call, takerVars>>
      /\ IF find_alive(m.id)
           THEN /\ emitted' = <<AckQty("CancelAck", delivered + 1, m.id,
                                       g_orders[m.id].side, g_orders[m.id].price, 0)>>
                /\ g_orders' = [g_orders EXCEPT ![m.id].alive = FALSE, ![m.id].qty = 0]
           ELSE /\ emitted' = <<Ack("CancelReject", delivered + 1, m.id)>>
                /\ g_orders' = g_orders
  BY DEF engine_on_cancel
<1>2. /\ Idle /\ delivered \in Nat /\ delivered + 1 \in 1 .. Len(tape)
  BY LenProperties DEF CanDeliver, Inv, Types
<1>3. m \in Message /\ m.id \in Ids
  BY <1>2, ElementOfSeq, MessageFields DEF Inv, Types
<1>4. m \in C!Message
  BY <1>3 DEF Message, C!Message, C!NewOrder, C!Cancel, C!Modify
<1>5. Idle'
  BY <1>1, <1>2 DEF Idle
<1>6. Taker' = Taker /\ C!Idle
  BY <1>2, <1>5, TakerOfCall DEF Taker, C!Idle
<1>7. \A id \in Ids : Rests(id) <=> g_orders[id].alive
  BY <1>2 DEF Rests, InFlight
<1>8. \A id \in Ids : Rests(id)' <=> g_orders'[id].alive
  BY <1>5 DEF Rests, InFlight
<1>9. find_alive(m.id) <=> C!Resting(m.id)
  BY <1>3, <1>7, BookAt DEF find_alive
<1>10. C!DeliverCancel(m)
  <2>1. CASE find_alive(m.id)
    <3>1. /\ ~g_orders'[m.id].alive
          /\ \A id \in Ids \ {m.id} : g_orders'[id] = g_orders[id]
      BY <1>1, <1>3, <2>1, Dies
    <3>2. ShadowBook' = [ShadowBook EXCEPT ![m.id] = C!NoOrder]
      BY <1>3, <1>7, <1>8, <3>1, BookOfShadow
    <3>3. ShadowBook[m.id] = Filed(g_orders[m.id])
      BY <1>3, <1>7, <2>1, BookAt DEF find_alive
    <3>4. /\ ShadowBook[m.id].side = g_orders[m.id].side
          /\ ShadowBook[m.id].price = g_orders[m.id].price
      BY <3>3 DEF Filed
    <3> QED
      BY <1>1, <1>6, <1>9, <2>1, <3>2, <3>4 DEF C!DeliverCancel, C!AckQty, AckQty
  <2>2. CASE ~find_alive(m.id)
    <3>1. ShadowBook' = ShadowBook
      BY <1>1, <1>7, <1>8, <2>2, BookOfShadow
    <3> QED
      BY <1>1, <1>6, <1>9, <2>2, <3>1 DEF C!DeliverCancel, C!Ack, Ack
  <2> QED
    BY <2>1, <2>2
<1> QED
  BY <1>4, <1>6, <1>10 DEF C!Next, C!Deliver

\* A modify that applies takes its order out of the abstract book at once; a
\* rejected one may carry terms that no order could have.
LEMMA DeliversModify ==
    ASSUME Inv, Inv', CanDeliver, NEW m, m = tape[delivered + 1], m.type = "modify",
           ~BadModify(m), engine_on_modify(m), delivered' = delivered + 1,
           UNCHANGED prebuildVars
    PROVE  C!Next
<1>1. UNCHANGED <<g_orders, curOrderID, tape>>
  BY DEF engine_on_modify, prebuildVars
<1>2. /\ Idle /\ delivered \in Nat /\ delivered + 1 \in 1 .. Len(tape)
  BY LenProperties, SMTT(30) DEF CanDeliver, Inv, Types
<1>3. m \in Message /\ m.id \in Ids /\ m.side \in Sides /\ m.qty \in Quantities /\ m.price \in Int
  BY <1>2, ElementOfSeq, MessageFields DEF Inv, Types
<1>4. C!Idle /\ \A id \in Ids : Rests(id) <=> g_orders[id].alive
  BY <1>2, TakerOfCall DEF C!Idle, Rests, InFlight
<1>5. find_alive(m.id) <=> C!Resting(m.id)
  BY <1>3, <1>4, BookAt DEF find_alive
<1>6. CASE find_alive(m.id)
  <2>1. EnterLimit(g_pre_modify[g_pre_modify_idx + 1], m) /\ emitted' = <<>>
    BY <1>6 DEF engine_on_modify
  <2>2. PriceInRange(m.price)
    BY <1>6 DEF BadModify
  <2>3. m.price \in Prices
    BY <1>3, <2>2, QuantCupAssumption DEF PriceInRange, QC_PRICE_MIN, QC_PRICE_MAX, Prices
  <2>4. m \in C!Message
    BY <1>3, <2>3 DEF Message, C!Message, C!NewOrder, C!Cancel, C!Modify, Sides, C!Sides
  <2>5. msg' = m /\ ~Idle'
    BY <1>1, <2>1, CallNotIdle DEF msg, EnterLimit, Idle
  <2>6. \A id \in Ids : Rests(id)' <=> Rests(id) /\ id # m.id
    BY <1>1, <1>4, <2>5 DEF Rests, InFlight
  <2>7. ShadowBook' = [ShadowBook EXCEPT ![m.id] = C!NoOrder]
    BY <1>1, <1>3, <2>6, BookOfShadow
  <2>8. Taker' = [id |-> m.id, side |-> m.side, price |-> m.price,
                  qty |-> m.qty, left |-> m.qty, kind |-> "modify", ioc |-> FALSE]
    <3>1. g_taker_id' = m.id /\ g_taker_side' = m.side /\ g_taker_left' = m.qty
      BY <2>1 DEF EnterLimit
    <3>2. (m.type = "new" /\ m.ioc) = FALSE
      OBVIOUS
    <3> QED
      BY <2>5, <3>1, <3>2 DEF Taker
  <2>9. C!DeliverModify(m)
    BY <1>1, <1>5, <1>6, <2>1, <2>7, <2>8 DEF C!DeliverModify
  <2> QED
    BY <1>4, <2>4, <2>9 DEF C!Next, C!Deliver
<1>7. CASE ~find_alive(m.id)
  <2> DEFINE k == [type |-> "modify", id |-> m.id, side |-> m.side, price |-> 0, qty |-> m.qty]
  <2>1. 0 \in Prices
    BY QuantCupAssumption DEF Prices
  <2>2. k \in C!Message /\ k.type = "modify" /\ k.id = m.id
    BY <1>3, <2>1 DEF C!Message, C!NewOrder, C!Cancel, C!Modify, Sides, C!Sides
  <2>3. emitted' = <<Ack("ModifyReject", delivered + 1, m.id)>> /\ call' = call
    BY <1>7 DEF engine_on_modify
  <2>4. Idle' /\ \A id \in Ids : Rests(id)' <=> Rests(id)
    BY <1>1, <1>2, <2>3 DEF Idle, Rests, InFlight
  <2>5. ShadowBook' = ShadowBook /\ Taker' = Taker
    BY <1>1, <1>2, <2>4, BookOfShadow DEF Taker
  <2>6. ~C!Resting(k.id)
    BY <1>5, <1>7, <2>2
  <2> HIDE DEF k
  <2>7. C!DeliverModify(k)
    BY <1>1, <2>2, <2>3, <2>5, <2>6 DEF C!DeliverModify, C!Ack, Ack
  <2> QED
    BY <1>4, <2>2, <2>7 DEF C!Next, C!Deliver
<1> QED
  BY <1>6, <1>7

\* The entry a sweep hits is the best maker of the contract: the best price is
\* the level's, and the head of a level joined it first.
LEMMA HeadIsBest ==
    ASSUME Inv, ~Idle, Marketable, points[Level] # <<>>,
           NEW e, e = Head(points[Level]), arena[e].size > 0, NEW c, c = arena[e].trader
    PROVE  C!Best(c)
<1>1. /\ c \in Ids /\ Rests(c) /\ c # msg.id /\ g_orders[c].price = Level
      /\ g_orders[c].qcid = e /\ g_orders[c].side # msg.side
  BY MakerFacts
<1>2. /\ msg.side \in Sides /\ msg.price \in Int /\ Level \in Prices
      /\ Level = (IF msg.side = "buy" THEN askMin ELSE bidMax)
      /\ IF msg.side = "buy" THEN msg.price >= Level ELSE msg.price <= Level
  BY CallFacts DEF Marketable
<1>3. Taker.side = msg.side /\ Taker.price = msg.price
  BY TakerOfCall
<1>4. /\ Level \in Int /\ e \in Int /\ \A i \in 2 .. Len(points[Level]) : e < points[Level][i]
      /\ e = points[Level][1] /\ Len(points[Level]) \in Nat
  BY <1>2, HeadOfLevel, QuantCupAssumption DEF Prices, Entries
<1>5. ASSUME NEW id \in Ids
      PROVE  id \in C!Crossing <=> /\ Rests(id)
                                   /\ g_orders[id].side = C!Opposite(msg.side)
                                   /\ C!Accepts(msg.side, msg.price, g_orders[id].price)
  <2>1. id \in C!Crossing <=> /\ C!Resting(id)
                              /\ ShadowBook[id].side = C!Opposite(msg.side)
                              /\ C!Accepts(msg.side, msg.price, ShadowBook[id].price)
    BY <1>3 DEF C!Crossing
  <2>2. Rests(id) => /\ ShadowBook[id].side = g_orders[id].side
                     /\ ShadowBook[id].price = g_orders[id].price
    BY BookAt
  <2>3. C!Resting(id) <=> Rests(id)
    BY BookAt
  <2> QED
    BY <2>1, <2>2, <2>3
<1>6. c \in C!Crossing
  <2>1. g_orders[c].side \in Sides
    BY <1>1 DEF Inv, Types, OrderState
  <2>2. g_orders[c].side = C!Opposite(msg.side)
    BY <1>1, <1>2, <2>1 DEF Sides, C!Opposite
  <2>3. C!Accepts(msg.side, msg.price, g_orders[c].price)
    BY <1>1, <1>2, <1>4 DEF C!Accepts
  <2> QED
    BY <1>1, <1>5, <2>2, <2>3
<1>7. ASSUME NEW other \in C!Crossing \ {c}
      PROVE  C!Before(Taker.side, ShadowBook[c], ShadowBook[other])
  <2>1. other \in Ids
    BY DEF C!Crossing
  <2>2. Rests(other) /\ g_orders[other].side = C!Opposite(msg.side)
    BY <1>5, <2>1
  <2>3. OrderFits(other) /\ g_orders[other] \in OrderState
    BY <2>1 DEF Inv, BookFits, Types
  <2>4. /\ Lists(g_orders[other].price, g_orders[other].qcid)
        /\ arena[g_orders[other].qcid].trader = other
        /\ IF g_orders[other].side = "buy" THEN g_orders[other].price <= bidMax
                                           ELSE g_orders[other].price >= askMin
        /\ g_orders[other].price \in Int
    BY <2>2, <2>3, QuantCupAssumption DEF OrderFits, OrderState, Prices
  <2>5. IF msg.side = "buy" THEN g_orders[other].price >= Level
                            ELSE g_orders[other].price <= Level
    BY <1>2, <2>2, <2>4 DEF C!Opposite, Sides
  <2>6. g_orders[other].price = Level => e < g_orders[other].qcid
    <3>1. ASSUME g_orders[other].price = Level PROVE e < g_orders[other].qcid
      <4>1. PICK i \in 1 .. Len(points[Level]) : points[Level][i] = g_orders[other].qcid
        BY <2>4, <3>1 DEF Lists
      <4>2. i # 1
        BY <1>4, <2>4, <4>1
      <4>3. i \in 2 .. Len(points[Level])
        BY <1>4, <4>1, <4>2
      <4> QED
        BY <1>4, <4>1, <4>3
    <3> QED
      BY <3>1
  <2>7. ShadowBook[c] = Filed(g_orders[c]) /\ ShadowBook[other] = Filed(g_orders[other])
    BY <1>1, <2>1, <2>2, BookAt
  <2>8. /\ ShadowBook[c].price = Level /\ ShadowBook[c].time = e
        /\ ShadowBook[other].price = g_orders[other].price
        /\ ShadowBook[other].time = g_orders[other].qcid
    BY <1>1, <2>7 DEF Filed
  <2>9. CASE g_orders[other].price = Level
    BY <2>6, <2>8, <2>9 DEF C!Before
  <2>10. CASE g_orders[other].price # Level
    <3>1. Level \in Int /\ g_orders[other].price \in Int
      BY <1>4, <2>4
    <3>2. IF msg.side = "buy" THEN Level < g_orders[other].price
                              ELSE Level > g_orders[other].price
      BY <2>5, <2>10, <3>1
    <3> QED
      BY <1>3, <2>8, <3>2 DEF C!Before
  <2> QED
    BY <2>9, <2>10
<1> QED
  BY <1>6, <1>7 DEF C!Best

\* execution() is one fill of the contract.
LEMMA TradeIsFill ==
    ASSUME Inv, Inv', ~Idle, Marketable, points[Level] # <<>>,
           NEW e, e = Head(points[Level]), arena[e].size > 0, NEW c, c = MakerOf(e),
           NEW n \in Nat \ {0},
           n = IF g_taker_left < arena[e].size THEN g_taker_left ELSE arena[e].size,
           UNCHANGED <<delivered, tape, curOrderID>>,
           ~Idle', g_taker_left' = g_taker_left - n,
           g_orders' = ShadowAfter(c, n), emitted' = Append(emitted, TradeReport(c, n))
    PROVE  C!Next
<1>1. /\ c = arena[e].trader /\ c \in Ids /\ Rests(c) /\ c # msg.id
      /\ g_orders[c].price = Level /\ g_orders[c].qty = arena[e].size
  BY MakerFacts
<1>2. C!Best(c)
  BY <1>1, HeadIsBest
<1>3. msg' = msg /\ \A id \in Ids : InFlight(id)' <=> InFlight(id)
  BY DEF msg, InFlight
<1>4. /\ Taker = [id |-> msg.id, side |-> msg.side, price |-> msg.price,
                  qty |-> msg.qty, left |-> g_taker_left, kind |-> msg.type,
                  ioc |-> msg.type = "new" /\ msg.ioc]
      /\ Taker # C!NoOrder
  BY TakerOfCall
<1>5. Taker' = [Taker EXCEPT !.left = g_taker_left - n]
  <2>1. /\ g_taker_id' = msg.id /\ g_taker_side' = msg.side
    BY <1>3 DEF Inv, CallFits
  <2> QED
    BY <1>3, <1>4, <2>1 DEF Taker
<1>6. g_taker_left \in Nat /\ g_taker_left > 0 /\ arena[e].size \in Nat
  <2>1. arena[e].size \in Nat /\ g_taker_left \in Nat
    BY CallFacts, HeadOfLevel
  <2> QED
    BY <2>1
<1>7. ShadowBook[c] = Filed(g_orders[c]) /\ ShadowBook[c].qty = arena[e].size
      /\ ShadowBook[c].price = Level
  BY <1>1, BookAt DEF Filed
<1>8. C!FillQty(Taker.left, ShadowBook[c].qty) = n
  BY <1>4, <1>7 DEF C!FillQty
<1> DEFINE reduced == [ShadowBook[c] EXCEPT !.qty = ShadowBook[c].qty - n]
<1>9. ShadowBook' = [ShadowBook EXCEPT ![c] = IF reduced.qty = 0 THEN C!NoOrder ELSE reduced]
  <2>1. /\ \A id \in Ids \ {c} : g_orders'[id] = g_orders[id]
        /\ IF g_orders[c].qty > n
             THEN /\ g_orders'[c].alive = g_orders[c].alive
                  /\ g_orders'[c].qty = g_orders[c].qty - n
                  /\ g_orders'[c].price = g_orders[c].price
                  /\ g_orders'[c].side = g_orders[c].side
                  /\ g_orders'[c].qcid = g_orders[c].qcid
             ELSE ~g_orders'[c].alive
    BY <1>1, Hit
  <2>2. \A id \in Ids \ {c} : Rests(id)' <=> Rests(id)
    BY <1>3, <2>1 DEF Rests
  <2>3. reduced.qty = g_orders[c].qty - n
    BY <1>1, <1>7 DEF Filed
  <2>4. CASE g_orders[c].qty > n
    <3>1. Rests(c)'
      BY <1>1, <1>3, <2>1, <2>4 DEF Rests
    <3>2. Filed(g_orders'[c]) = reduced
      <4>1. reduced = [side |-> g_orders[c].side, price |-> g_orders[c].price,
                       qty |-> g_orders[c].qty - n, time |-> g_orders[c].qcid]
        BY <1>7 DEF Filed
      <4> HIDE DEF reduced
      <4> QED
        BY <2>1, <2>4, <4>1 DEF Filed
    <3>3. reduced.qty # 0
      BY <1>1, <1>6, <2>3, <2>4
    <3> HIDE DEF reduced
    <3> QED
      BY <1>1, <2>1, <2>2, <3>1, <3>2, <3>3, BookOfShadow
  <2>5. CASE ~(g_orders[c].qty > n)
    <3>1. ~Rests(c)'
      BY <2>1, <2>5 DEF Rests
    <3>2. reduced.qty = 0
      BY <1>1, <1>6, <2>3, <2>5
    <3> HIDE DEF reduced
    <3> QED
      BY <1>1, <2>1, <2>2, <3>1, <3>2, BookOfShadow, ZenonT(30)
  <2> QED
    BY <2>4, <2>5
<1>10. TradeReport(c, n) = C!Trade(delivered, c, Taker.id, ShadowBook[c].price, n)
  <2>1. g_seq = delivered /\ g_taker_id = msg.id
    BY DEF Inv, CallFits
  <2> QED
    BY <1>4, <1>7, <2>1 DEF TradeReport, C!Trade
<1>11. C!Fill(c)
  <2>1. ~C!Idle /\ Taker.left > 0 /\ Taker.left = g_taker_left
    BY <1>4, <1>6 DEF C!Idle
  <2> HIDE DEF reduced
  <2>2. Taker' = [Taker EXCEPT !.left = @ - n]
    BY <1>5, <2>1
  <2>3. emitted' = Append(emitted, C!Trade(delivered, c, Taker.id, ShadowBook[c].price, n))
    BY <1>10
  <2> QED
    BY <1>2, <1>8, <1>9, <2>1, <2>2, <2>3 DEF C!Fill, reduced
<1> QED
  BY <1>1, <1>11 DEF C!Next

LEMMA PassIsFill == ASSUME Inv, Inv', PassEntry PROVE C!Next \/ UNCHANGED C!vars
<1> DEFINE e == Head(points[Level])
           n == arena[e].size
<1>1. /\ ~Idle /\ ~aborted /\ Marketable /\ points[Level] # <<>> /\ n < call.orderSize
      /\ call' = [call EXCEPT !.orderSize = @ - n]
      /\ UNCHANGED <<delivered, prebuildVars, curOrderID>>
  BY DEF PassEntry, Sweeping
<1>2. /\ Level \in Prices /\ call.orderSize = g_taker_left /\ g_taker_left \in Nat
  BY <1>1, CallFacts
<1>3. n \in Nat
  BY <1>1, <1>2, HeadOfLevel
<1>4. tape' = tape
  BY <1>1 DEF prebuildVars
<1>5. ~Idle'
  <2>1. call = [order |-> Translate(msg), orderSize |-> g_taker_left]
    BY <1>1 DEF Inv, CallFits
  <2>2. call' = [order |-> Translate(msg), orderSize |-> g_taker_left - n]
    BY <1>1, <2>1
  <2> QED
    BY <2>2, CallNotIdle DEF Idle
<1>6. CASE n = 0
  <2>1. UNCHANGED <<emitted, g_taker_left, g_orders>>
    BY <1>6 DEF PassEntry
  <2> QED
    BY <1>1, <1>4, <1>5, <2>1, Stutters
<1>7. CASE n > 0
  <2>0. PICK c : c = MakerOf(e)
    OBVIOUS
  <2>1. /\ emitted' = Append(emitted, TradeReport(c, n))
        /\ g_taker_left' = LeftAfter(n) /\ g_orders' = ShadowAfter(c, n)
    BY <1>7, <2>0 DEF PassEntry
  <2>2. g_taker_left' = g_taker_left - n
    BY <1>1, <1>2, <1>3, <2>1 DEF LeftAfter
  <2>3. /\ n = IF g_taker_left < arena[e].size THEN g_taker_left ELSE arena[e].size
        /\ n \in Nat \ {0}
    BY <1>1, <1>2, <1>3, <1>7
  <2> QED
    BY <1>1, <1>4, <1>5, <1>7, <2>0, <2>1, <2>2, <2>3, TradeIsFill
<1> QED
  BY <1>3, <1>6, <1>7

LEMMA FillIsFill == ASSUME Inv, Inv', FillEntry PROVE C!Next
<1> DEFINE e == Head(points[Level])
           n == call.orderSize
<1>0. PICK c : c = MakerOf(e)
  OBVIOUS
<1>1. /\ ~Idle /\ ~aborted /\ Marketable /\ points[Level] # <<>> /\ n > 0
      /\ arena[e].size >= n
      /\ call' = [call EXCEPT !.orderSize = 0]
      /\ g_orders' = ShadowAfter(c, n) /\ g_taker_left' = LeftAfter(n)
      /\ emitted' = Append(emitted, TradeReport(c, n))
      /\ UNCHANGED <<delivered, prebuildVars, curOrderID>>
  BY <1>0 DEF FillEntry, Sweeping
<1>2. /\ Level \in Prices /\ n = g_taker_left /\ n \in Nat \ {0}
  BY <1>1, CallFacts
<1>3. arena[e].size \in Nat /\ arena[e].size > 0
  BY <1>1, <1>2, HeadOfLevel
<1>4. tape' = tape
  BY <1>1 DEF prebuildVars
<1>5. ~Idle'
  <2>1. call = [order |-> Translate(msg), orderSize |-> g_taker_left]
    BY <1>1 DEF Inv, CallFits
  <2>2. call' = [order |-> Translate(msg), orderSize |-> 0]
    BY <1>1, <2>1
  <2> QED
    BY <2>2, CallNotIdle DEF Idle
<1>6. g_taker_left' = g_taker_left - n
  BY <1>1, <1>2 DEF LeftAfter
<1>7. n = IF g_taker_left < arena[e].size THEN g_taker_left ELSE arena[e].size
  BY <1>1, <1>2, <1>3
<1> HIDE DEF n
<1> QED
  BY <1>0, <1>1, <1>2, <1>3, <1>4, <1>5, <1>6, <1>7, TradeIsFill

\* Nothing is left of the taker, or nothing crosses: the contract takes it out too.
LEMMA ReturnIsFinish ==
    ASSUME Inv, Inv', ~Idle, NEW a, NEW e, e = curOrderID + 1, Return(e, a),
           UNCHANGED <<delivered, tape, g_taker_left>>,
           g_taker_left = 0 \/ ~Marketable
    PROVE  C!Next
<1>0. PICK c : c = msg.id
  OBVIOUS
<1> DEFINE left == g_taker_left
           ioc == msg.type = "new" /\ msg.ioc
           dropped == msg.type = "new" /\ msg.ioc /\ left > 0
           rested == left > 0 /\ ~dropped
           state == [price |-> msg.price, qty |-> left, side |-> msg.side,
                     alive |-> TRUE, qcid |-> e]
<1>1. /\ curOrderID' = e /\ call' = NoCall
      /\ g_orders' = IF rested THEN [g_orders EXCEPT ![c] = state]
                     ELSE IF msg.type = "modify"
                       THEN [g_orders EXCEPT ![c].alive = FALSE]
                     ELSE g_orders
      /\ emitted' = emitted \o
            IF dropped
              THEN <<AckQty("CancelAck", delivered, c, msg.side, msg.price, left)>>
            ELSE IF msg.type = "modify"
              THEN <<AckQty("ModifyAck", delivered, c, msg.side, msg.price, msg.qty)>>
            ELSE <<>>
  BY <1>0 DEF Return
<1>2. /\ c \in Ids /\ msg.side \in Sides /\ msg.price \in Int /\ left \in Nat
      /\ msg.type \in {"new", "modify"}
      /\ Level = (IF msg.side = "buy" THEN askMin ELSE bidMax)
      /\ call.order.side = msg.side /\ call.order.price = msg.price
  BY <1>0, CallFacts
<1>3. /\ Taker = [id |-> c, side |-> msg.side, price |-> msg.price,
                  qty |-> msg.qty, left |-> left, kind |-> msg.type, ioc |-> ioc]
      /\ ~C!Idle
  BY <1>0, TakerOfCall DEF C!Idle
<1>4. /\ Taker.id = c /\ Taker.side = msg.side /\ Taker.price = msg.price
      /\ Taker.qty = msg.qty /\ Taker.left = left /\ Taker.kind = msg.type
      /\ Taker.ioc = ioc
  BY <1>3
<1>5. Idle' /\ Taker' = C!NoOrder
  BY <1>1 DEF Idle, Taker, C!NoOrder
<1>6. Taker.left = 0 \/ C!Crossing = {}
  <2>1. ASSUME ~Marketable, NEW id \in C!Crossing PROVE FALSE
    <3>1. /\ id \in Ids /\ C!Resting(id) /\ ShadowBook[id].side = C!Opposite(msg.side)
          /\ C!Accepts(msg.side, msg.price, ShadowBook[id].price)
      BY <1>4 DEF C!Crossing
    <3>2. /\ Rests(id) /\ ShadowBook[id].side = g_orders[id].side
          /\ ShadowBook[id].price = g_orders[id].price
      BY <3>1, BookAt
    <3>3. OrderFits(id) /\ g_orders[id].price \in Int /\ askMin \in Int /\ bidMax \in Int
      BY <3>1, QuantCupAssumption DEF Inv, BookFits, Types, OrderState, Prices
    <3>4. IF g_orders[id].side = "buy" THEN g_orders[id].price <= bidMax
                                       ELSE g_orders[id].price >= askMin
      BY <3>2, <3>3 DEF OrderFits
    <3>5. IF msg.side = "buy" THEN ~(msg.price >= askMin) ELSE ~(msg.price <= bidMax)
      BY <1>2, <2>1 DEF Marketable
    <3> QED
      BY <1>2, <3>1, <3>2, <3>3, <3>4, <3>5 DEF C!Opposite, C!Accepts, Sides
  <2> QED
    BY <1>4, <2>1
<1>7. ~Rests(c) /\ \A id \in Ids \ {c} : Rests(id) <=> g_orders[id].alive
  BY <1>0 DEF Rests, InFlight
<1>8. \A id \in Ids : Rests(id)' <=> g_orders'[id].alive
  BY <1>5 DEF Rests, InFlight
<1>9. /\ g_orders \in [Ids -> OrderState] /\ g_orders[c] \in OrderState
      /\ msg.type = "new" => ~g_orders[c].alive
  BY <1>0, <1>2 DEF Inv, Types, CallFits
<1>10. rested <=> Taker.left > 0 /\ ~Taker.ioc
  BY <1>4
<1>11. ShadowBook' = IF Taker.left > 0 /\ ~Taker.ioc
                       THEN [ShadowBook EXCEPT ![Taker.id] =
                               [side |-> Taker.side, price |-> Taker.price,
                                qty |-> Taker.left, time |-> curOrderID']]
                       ELSE ShadowBook
  <2>1. CASE rested
    <3> DEFINE entry == [side |-> msg.side, price |-> msg.price, qty |-> left, time |-> e]
    <3>1. Filed(state) = entry /\ state.alive
      BY DEF Filed
    <3>2. g_orders' = [g_orders EXCEPT ![c] = state]
      BY <1>1, <2>1
    <3> HIDE DEF state, entry, rested
    <3>3. /\ g_orders'[c] = state /\ \A id \in Ids \ {c} : g_orders'[id] = g_orders[id]
      BY <1>2, <1>9, <3>2
    <3>4. Rests(c)' /\ \A id \in Ids \ {c} : Rests(id)' <=> Rests(id)
      BY <1>2, <1>7, <1>8, <3>1, <3>3
    <3>5. ShadowBook' = [ShadowBook EXCEPT ![c] = entry]
      BY <1>2, <3>1, <3>3, <3>4, BookOfShadow
    <3> QED
      BY <1>1, <1>4, <1>10, <2>1, <3>5 DEF entry
  <2>2. CASE ~rested
    <3>1. g_orders' = IF msg.type = "modify" THEN [g_orders EXCEPT ![c].alive = FALSE]
                                             ELSE g_orders
      BY <1>1, <2>2
    <3> HIDE DEF rested
    <3>2. ~g_orders'[c].alive /\ \A id \in Ids \ {c} : g_orders'[id] = g_orders[id]
      <4>1. CASE msg.type = "new"
        BY <1>9, <3>1, <4>1
      <4>2. CASE msg.type = "modify"
        <5> DEFINE r == [g_orders[c] EXCEPT !.alive = FALSE]
        <5>1. ~r.alive
          BY <1>9 DEF OrderState
        <5>2. g_orders' = [g_orders EXCEPT ![c] = r]
          BY <3>1, <4>2
        <5> HIDE DEF r
        <5> QED
          BY <1>2, <1>9, <5>1, <5>2
      <4> QED
        BY <1>2, <4>1, <4>2
    <3>3. \A id \in Ids : Rests(id)' <=> Rests(id)
      BY <1>7, <1>8, <3>2
    <3>4. ShadowBook' = ShadowBook
      BY <1>7, <3>2, <3>3, BookOfShadow
    <3> QED
      BY <1>10, <2>2, <3>4
  <2> QED
    BY <2>1, <2>2
<1>12. emitted' = emitted \o
         (IF Taker.kind = "modify"
            THEN <<C!AckQty("ModifyAck", delivered, Taker.id, Taker.side, Taker.price,
                            Taker.qty)>>
          ELSE IF Taker.ioc /\ Taker.left > 0
            THEN <<C!AckQty("CancelAck", delivered, Taker.id, Taker.side, Taker.price,
                            Taker.left)>>
          ELSE <<>>)
  BY <1>1, <1>2, <1>4 DEF AckQty, C!AckQty
<1>13. C!Finish
  BY <1>1, <1>3, <1>5, <1>6, <1>11, <1>12 DEF C!Finish, C!Later
<1> QED
  BY <1>13 DEF C!Next

\* Every step of adapter and engine is a step of the contract, or none.
LEMMA ContractNext == Inv /\ Inv' /\ [Next]_vars => [C!Next]_(C!vars)
<1> SUFFICES ASSUME Inv, Inv', [Next]_vars PROVE C!Next \/ UNCHANGED C!vars
  OBVIOUS
<1>1. ASSUME NEW m \in Workload(tape), engine_prebuild(m) PROVE UNCHANGED C!vars
  <2>1. Idle
    BY <1>1 DEF engine_prebuild, Inv, TapeFits
  <2>2. UNCHANGED <<g_orders, delivered, curOrderID, emitted, g_taker_left, call>>
    BY <1>1 DEF engine_prebuild, Abort, engine, takerVars
  <2> QED
    BY <2>1, <2>2, Stutters DEF Idle
<1>2. CASE StartRun
  <2>1. UNCHANGED <<g_orders, delivered, curOrderID, emitted, g_taker_left, call, tape>>
    BY <1>2 DEF StartRun, engine, takerVars
  <2> QED
    BY <2>1, Stutters DEF Idle
<1>3. CASE Deliver
  <2> DEFINE m == tape[delivered + 1]
  <2>1. CASE BadModify(m)
    <3>1. Abort
      BY <1>3, <2>1 DEF Deliver
    <3>2. UNCHANGED <<g_orders, delivered, curOrderID, emitted, g_taker_left, call, tape>>
      BY <3>1 DEF Abort, engine, takerVars, prebuildVars
    <3> QED
      BY <3>2, Stutters DEF Idle
  <2>2. CASE ~BadModify(m)
    <3>1. /\ CanDeliver /\ delivered' = delivered + 1 /\ UNCHANGED prebuildVars
          /\ \/ m.type = "new" /\ engine_on_new_order(m)
             \/ m.type = "cancel" /\ engine_on_cancel(m)
             \/ m.type = "modify" /\ engine_on_modify(m)
      BY <1>3, <2>2 DEF Deliver
    <3> HIDE DEF m
    <3>2. m = tape[delivered + 1]
      BY DEF m
    <3>3. CASE m.type = "new" /\ engine_on_new_order(m)
      BY <3>1, <3>2, <3>3, DeliversNew
    <3>4. CASE m.type = "cancel" /\ engine_on_cancel(m)
      BY <3>1, <3>2, <3>4, DeliversCancel
    <3>5. CASE m.type = "modify" /\ engine_on_modify(m)
      BY <2>2, <3>1, <3>2, <3>5, DeliversModify
    <3> QED
      BY <3>1, <3>3, <3>4, <3>5
  <2> QED
    BY <2>1, <2>2
<1>4. CASE PassEntry
  BY <1>4, PassIsFill
<1>5. CASE FillEntry
  BY <1>5, FillIsFill
<1>6. CASE Filled
  <2>1. ~Idle /\ call.orderSize = 0 /\ Return(curOrderID + 1, arena)
        /\ UNCHANGED <<delivered, tape, g_taker_left>>
    BY <1>6 DEF Filled, prebuildVars, takerVars
  <2>2. g_taker_left = 0
    BY <2>1, CallFacts
  <2> QED
    BY <2>1, <2>2, ReturnIsFinish
<1>7. CASE NextLevel
  <2>1. UNCHANGED <<g_orders, delivered, curOrderID, emitted, g_taker_left, call, tape>>
    BY <1>7 DEF NextLevel, takerVars, prebuildVars
  <2> QED
    BY <2>1, Stutters DEF Idle
<1>8. CASE Insert
  <2>1. /\ ~Idle /\ ~Marketable /\ UNCHANGED <<delivered, tape, g_taker_left>>
        /\ Return(curOrderID + 1,
                  [arena EXCEPT ![curOrderID + 1] = [trader |-> call.order.trader,
                                                     size |-> call.orderSize]])
    BY <1>8 DEF Insert, Sweeping, prebuildVars, takerVars
  <2> QED
    BY <2>1, ReturnIsFinish
<1>9. CASE Over \/ UNCHANGED vars
  <2>1. UNCHANGED <<g_orders, delivered, curOrderID, emitted, g_taker_left, call, tape>>
    BY <1>9 DEF Over, vars, prebuildVars, engine, takerVars
  <2> QED
    BY <2>1, Stutters DEF Idle
<1> QED
  BY <1>1, <1>2, <1>3, <1>4, <1>5, <1>6, <1>7, <1>8, <1>9 DEF Next

\* QuantCup behind its adapter keeps the contract of the header, report by report,
\* for every workload: price-time priority is the order of the lists.
THEOREM KeepsContract == Spec => Contract
<1>1. Init => C!Init
  BY ContractInit
<1>2. Inv /\ Inv' /\ [Next]_vars => [C!Next]_(C!vars)
  BY ContractNext
<1> QED
  BY <1>1, <1>2, Invariance, PTL DEF Spec, Contract, C!Spec
-----------------------------------------------------------------------------
(* The queries.                                                            *)

OnShadow == INSTANCE FoldFacts WITH op <- LAMBDA id, n : n + g_orders[id].qty
OnArena == INSTANCE FoldFacts WITH op <- LAMBDA e, n : n + arena[e].size

\* The orders of a side whose entries are among the first k at a price.
AmongFirst(k, p, side) ==
    {id \in Ids : /\ g_orders[id].alive /\ g_orders[id].side = side /\ g_orders[id].price = p
                  /\ \E i \in 1 .. k : points[p][i] = g_orders[id].qcid}

\* Adding the quantities of the shadow, or the sizes of the arena, commutes.
LEMMA SumsCommute ==
    ASSUME Inv
    PROVE  OnShadow!Commutes(Ids, Nat) /\ OnArena!Commutes(Entries, Nat)
<1>1. ASSUME NEW a \in Ids, NEW b \in Ids, NEW acc \in Nat
      PROVE  /\ acc + g_orders[a].qty \in Nat
             /\ (acc + g_orders[b].qty) + g_orders[a].qty = (acc + g_orders[a].qty) + g_orders[b].qty
  <2>1. g_orders[a].qty \in Nat /\ g_orders[b].qty \in Nat
    BY DEF Inv, Types, OrderState
  <2> QED
    BY <2>1
<1>2. ASSUME NEW a \in Entries, NEW b \in Entries, NEW acc \in Nat
      PROVE  /\ acc + arena[a].size \in Nat
             /\ (acc + arena[b].size) + arena[a].size = (acc + arena[a].size) + arena[b].size
  <2>1. arena[a].size \in Nat /\ arena[b].size \in Nat
    BY DEF Inv, Types, Slot
  <2> QED
    BY <2>1
<1>3. OnShadow!Commutes(Ids, Nat)
  BY <1>1 DEF OnShadow!Commutes, OnShadow!Step
<1>4. OnArena!Commutes(Entries, Nat)
  BY <1>2 DEF OnArena!Commutes, OnArena!Step
<1> QED
  BY <1>3, <1>4

\* The depth query adds one order at a time.
LEMMA SumOf ==
    ASSUME Inv, NEW S, S \subseteq Ids, IsFiniteSet(S)
    PROVE  /\ SumQty({}) = 0 /\ SumQty(S) \in Nat
           /\ \A id \in S : SumQty(S) = SumQty(S \ {id}) + g_orders[id].qty
<1>1. \A T : SumQty(T) = OnShadow!OfSet(0, T)
  BY DEF SumQty, OnShadow!OfSet, FoldSet, OnShadow!FoldSet, MapThenFoldSet, OnShadow!MapThenFoldSet
<1>2. OnShadow!Commutes(Ids, Nat) /\ 0 \in Nat
  BY SumsCommute
<1>3. OnShadow!IsFiniteSet(S)
  BY DEF IsFiniteSet, OnShadow!IsFiniteSet
<1>4. /\ OnShadow!OfSet(0, {}) = 0
      /\ OnShadow!OfSet(0, S) \in Nat
      /\ \A id \in S : OnShadow!OfSet(0, S)
                         = OnShadow!Step(id, OnShadow!OfSet(0, S \ {id}))
  BY ONLY <1>2, <1>3, S \subseteq Ids, OnShadow!FoldSetWithElement
<1> QED
  BY <1>1, <1>4 DEF OnShadow!Step

\* The size of a level is the last of its partial sums.
LEMMA LevelSum ==
    ASSUME Inv, NEW p \in Prices
    PROVE  \E sum \in [0 .. Len(points[p]) -> Nat] :
              /\ sum[0] = 0 /\ LevelSize(p) = sum[Len(points[p])]
              /\ \A k \in 1 .. Len(points[p]) : sum[k] = sum[k - 1] + arena[points[p][k]].size
<1> DEFINE L == points[p]
           sum == [k \in 0 .. Len(L) |-> OnArena!Over(0, L, 1 .. k)]
<1>1. Len(L) \in Nat /\ DOMAIN L = 1 .. Len(L) /\ \A k \in 1 .. Len(L) : L[k] \in Entries
  BY LenProperties, ElementOfSeq DEF Inv, Types
<1>2. OnArena!Commutes(Entries, Nat) /\ 0 \in Nat
  BY SumsCommute
<1>3. \A k \in 0 .. Len(L) : OnArena!IsFiniteSet(1 .. k)
  <2>1. \A k \in 0 .. Len(L) : IsFiniteSet(1 .. k)
    BY <1>1, FS_Interval
  <2> QED
    BY <2>1 DEF IsFiniteSet, OnArena!IsFiniteSet
<1> HIDE DEF L
<1>4. ASSUME NEW k \in 0 .. Len(L)
      PROVE  /\ OnArena!Over(0, L, 1 .. k) \in Nat
             /\ \A x \in 1 .. k : OnArena!Over(0, L, 1 .. k)
                   = OnArena!Over(0, L, (1 .. k) \ {x}) + arena[L[x]].size
  <2> DEFINE T == 1 .. k
  <2>1. OnArena!IsFiniteSet(T) /\ \A x \in T : L[x] \in Entries
    BY <1>1, <1>3
  <2> HIDE DEF T
  <2>2. OnArena!Over(0, L, T) \in Nat /\ OnArena!OneByOne(0, L, T)
    BY ONLY <1>2, <2>1, OnArena!FoldWithElement
  <2> QED
    BY <2>2 DEF T, OnArena!Step, OnArena!OneByOne
<1>5. sum \in [0 .. Len(L) -> Nat]
  BY <1>4
<1>6. sum[0] = 0
  <2>1. 1 .. 0 = {} /\ 0 \in 0 .. Len(L)
    BY <1>1
  <2>2. OnArena!Over(0, L, {}) = 0
    BY OnArena!FoldOfEmpty
  <2> QED
    BY <2>1, <2>2
<1>7. LevelSize(p) = sum[Len(L)]
  <2>1. LevelSize(p) = OnArena!OfSeq(0, L)
    BY DEF L, LevelSize, OnArena!OfSeq, FoldSeq, OnArena!FoldSeq, FoldFunction,
           OnArena!FoldFunction, FoldFunctionOnSet, OnArena!FoldFunctionOnSet,
           MapThenFoldSet, OnArena!MapThenFoldSet
  <2>2. OnArena!OfSeq(0, L) = OnArena!Over(0, L, 1 .. Len(L))
    BY <1>1, OnArena!FoldSeqIs
  <2> QED
    BY <1>1, <2>1, <2>2
<1>8. ASSUME NEW k \in 1 .. Len(L) PROVE sum[k] = sum[k - 1] + arena[L[k]].size
  <2>1. k \in 0 .. Len(L) /\ k - 1 \in 0 .. Len(L) /\ k \in 1 .. k /\ (1 .. k) \ {k} = 1 .. k - 1
    BY <1>1
  <2> QED
    BY <1>4, <2>1
<1> HIDE DEF sum
<1> QED
  BY <1>5, <1>6, <1>7, <1>8 DEF L

\* One more entry of a list: a tombstone adds nothing, a live one its order.
LEMMA NextAmong ==
    ASSUME Inv, Idle, NEW p \in Prices, NEW k \in 1 .. Len(points[p]), NEW side \in Sides
    PROVE  LET e == points[p][k]
               id == arena[e].trader
               mine == arena[e].size > 0 /\ g_orders[id].side = side
           IN  IF mine
                 THEN /\ AmongFirst(k, p, side) = AmongFirst(k - 1, p, side) \cup {id}
                      /\ id \in Ids /\ id \notin AmongFirst(k - 1, p, side)
                      /\ g_orders[id].qty = arena[e].size
                 ELSE AmongFirst(k, p, side) = AmongFirst(k - 1, p, side)
<1> DEFINE L == points[p]
           e == L[k]
           id == arena[e].trader
<1>1. /\ Len(L) \in Nat /\ \A i \in 1 .. Len(L) : L[i] \in Nat
      /\ \A i, j \in 1 .. Len(L) : i < j => L[i] < L[j]
      /\ EntryFits(p, e)
  <2>1. L \in Seq(Entries) /\ LevelFits(p)
    BY DEF Inv, Types, BookFits
  <2>2. Len(L) \in Nat /\ \A i \in 1 .. Len(L) : L[i] \in Entries
    BY <2>1, LenProperties, ElementOfSeq
  <2>3. \A i \in 1 .. Len(L) : L[i] \in Nat
    BY <2>2 DEF Entries
  <2> QED
    BY <2>1, <2>2, <2>3 DEF LevelFits
<1>2. \A i \in 1 .. k - 1 : L[i] # e
  <2> SUFFICES ASSUME NEW i \in 1 .. k - 1 PROVE L[i] < L[k] /\ L[i] \in Nat
    BY <1>1
  <2>1. i \in 1 .. Len(L) /\ k \in 1 .. Len(L) /\ i < k
    BY <1>1
  <2> QED
    BY <1>1, <2>1
<1>3. \A o \in Ids : (\E i \in 1 .. k : L[i] = g_orders[o].qcid)
        <=> (\E i \in 1 .. k - 1 : L[i] = g_orders[o].qcid) \/ g_orders[o].qcid = e
  <2>1. 1 .. k = (1 .. k - 1) \cup {k}
    BY <1>1
  <2> QED
    BY <2>1
<1>4. ASSUME NEW o \in Ids, g_orders[o].alive, g_orders[o].qcid = e
      PROVE  arena[e].size > 0 /\ o = id
  <2>1. Rests(o) /\ OrderFits(o)
    BY <1>4 DEF Rests, InFlight, Inv, BookFits
  <2>2. arena[e] = [trader |-> o, size |-> g_orders[o].qty] /\ g_orders[o].qty > 0
    BY <1>4, <2>1 DEF OrderFits
  <2> QED
    BY <2>2
<1>5. ASSUME arena[e].size > 0
      PROVE  /\ id \in Ids /\ g_orders[id].alive /\ g_orders[id].qcid = e
             /\ g_orders[id].price = p /\ g_orders[id].qty = arena[e].size
  <2>1. id \in Ids /\ Rests(id) /\ g_orders[id].qcid = e /\ g_orders[id].price = p
    BY <1>1, <1>5 DEF EntryFits
  <2>2. arena[e] = [trader |-> id, size |-> g_orders[id].qty]
    BY <2>1 DEF Inv, BookFits, OrderFits
  <2>3. g_orders[id].qty = arena[e].size
    BY <2>2
  <2> QED
    BY <2>1, <2>3 DEF Rests
<1> HIDE DEF e, id
<1>6. CASE arena[e].size > 0 /\ g_orders[id].side = side
  <2>1. AmongFirst(k, p, side) = AmongFirst(k - 1, p, side) \cup {id}
    BY <1>3, <1>4, <1>5, <1>6 DEF AmongFirst
  <2>2. id \notin AmongFirst(k - 1, p, side)
    BY <1>2, <1>5, <1>6 DEF AmongFirst
  <2> QED
    BY <1>5, <1>6, <2>1, <2>2 DEF e, id
<1>7. CASE ~(arena[e].size > 0 /\ g_orders[id].side = side)
  <2>1. AmongFirst(k, p, side) = AmongFirst(k - 1, p, side)
    BY <1>3, <1>4, <1>7 DEF AmongFirst
  <2> QED
    BY <1>7, <2>1 DEF e, id
<1> QED
  BY <1>6, <1>7

\* A level holds as much as the shadow says of its orders of both sides.
LEMMA LevelIsDepth ==
    ASSUME Inv, Idle, NEW p \in Prices
    PROVE  /\ LevelSize(p) = engine_query_depth_at(p, "buy") + engine_query_depth_at(p, "sell")
           /\ \A side \in Sides :
                /\ engine_query_depth_at(p, side) \in Nat
                /\ engine_query_depth_at(p, side) > 0
                     <=> \E id \in Alive(side) : g_orders[id].price = p
<1> DEFINE L == points[p]
           n == Len(L)
           S(k, side) == AmongFirst(k, p, side)
<1>1. PICK sum \in [0 .. n -> Nat] :
         /\ sum[0] = 0 /\ LevelSize(p) = sum[n]
         /\ \A k \in 1 .. n : sum[k] = sum[k - 1] + arena[L[k]].size
  BY LevelSum
<1>2. n \in Nat /\ \A k \in 1 .. n : arena[L[k]].size \in Nat
  <2>1. L \in Seq(Entries)
    BY DEF Inv, Types
  <2>2. n \in Nat /\ \A k \in 1 .. n : L[k] \in Entries
    BY <2>1, LenProperties, ElementOfSeq
  <2>3. \A k \in 1 .. n : arena[L[k]] \in Slot
    BY <2>2 DEF Inv, Types
  <2> QED
    BY <2>2, <2>3 DEF Slot
<1>3. \A k, side : S(k, side) \subseteq Ids
  BY DEF AmongFirst
<1> DEFINE Right(k) ==
             /\ \A side \in Sides : IsFiniteSet(S(k, side))
             /\ sum[k] = SumQty(S(k, "buy")) + SumQty(S(k, "sell"))
           N == {k \in Nat : k <= n => Right(k)}
<1>4. 0 \in N
  <2>1. \A side : S(0, side) = {}
    BY DEF AmongFirst
  <2>2. SumQty({}) = 0 /\ IsFiniteSet({})
    BY SumOf, FS_EmptySet
  <2> HIDE DEF S
  <2>3. sum[0] = SumQty(S(0, "buy")) + SumQty(S(0, "sell"))
    <3>1. S(0, "buy") = {} /\ S(0, "sell") = {}
      BY <2>1
    <3>2. SumQty({}) + SumQty({}) = 0
      BY <2>2
    <3> QED
      BY <1>1, <3>1, <3>2
  <2>4. \A side \in Sides : IsFiniteSet(S(0, side))
    BY <2>1, <2>2
  <2>5. Right(0)
    BY <2>3, <2>4
  <2> QED
    BY <2>5
<1>5. ASSUME NEW k \in Nat, k \in N PROVE k + 1 \in N
  <2> SUFFICES ASSUME k + 1 <= n PROVE Right(k + 1)
    OBVIOUS
  <2>1. Right(k) /\ k + 1 \in 1 .. n /\ (k + 1) - 1 = k /\ k \in 0 .. n
    BY <1>2, <1>5
  <2> DEFINE e == L[k + 1]
             id == arena[e].trader
             mine(side) == arena[e].size > 0 /\ g_orders[id].side = side
  <2>2. ASSUME NEW side \in Sides
        PROVE  /\ IsFiniteSet(S(k + 1, side)) /\ SumQty(S(k, side)) \in Nat
               /\ SumQty(S(k + 1, side))
                    = SumQty(S(k, side)) + (IF mine(side) THEN arena[e].size ELSE 0)
    <3>1. IsFiniteSet(S(k, side)) /\ SumQty(S(k, side)) \in Nat
      BY <1>3, <2>1, SumOf
    <3>2. CASE mine(side)
      <4>1. /\ S(k + 1, side) = S(k, side) \cup {id} /\ id \in Ids /\ id \notin S(k, side)
            /\ g_orders[id].qty = arena[e].size
        BY <2>1, <3>2, NextAmong
      <4>2. IsFiniteSet(S(k + 1, side))
        BY <3>1, <4>1, FS_AddElement
      <4>3. id \in S(k + 1, side) /\ S(k + 1, side) \ {id} = S(k, side)
        BY <4>1
      <4> HIDE DEF S, id, e
      <4>4. SumQty(S(k + 1, side)) = SumQty(S(k + 1, side) \ {id}) + g_orders[id].qty
        BY <1>3, <4>2, <4>3, SumOf
      <4> QED
        BY <3>1, <3>2, <4>1, <4>2, <4>3, <4>4
    <3>3. CASE ~mine(side)
      <4>1. S(k + 1, side) = S(k, side)
        BY <2>1, <3>3, NextAmong
      <4> HIDE DEF S
      <4> QED
        BY <3>1, <3>3, <4>1
    <3> QED
      BY <3>2, <3>3
  <2>3. arena[e].size > 0 => \/ mine("buy") /\ ~mine("sell")
                             \/ mine("sell") /\ ~mine("buy")
    <3>1. ASSUME arena[e].size > 0 PROVE id \in Ids
      <4>1. LevelFits(p)
        BY DEF Inv, BookFits
      <4> QED
        BY <2>1, <3>1, <4>1 DEF LevelFits, EntryFits
    <3>2. \A o \in Ids : g_orders[o].side \in Sides
      BY DEF Inv, Types, OrderState
    <3> QED
      BY <3>1, <3>2 DEF Sides
  <2>4. arena[e].size \in Nat /\ sum[k + 1] = sum[k] + arena[e].size
    BY <1>1, <1>2, <2>1
  <2>5. "buy" \in Sides /\ "sell" \in Sides
    BY DEF Sides
  <2> DEFINE q == arena[e].size
             b == SumQty(S(k, "buy"))
             s == SumQty(S(k, "sell"))
  <2>6. /\ b \in Nat /\ s \in Nat /\ sum[k] = b + s
        /\ SumQty(S(k + 1, "buy")) = b + (IF mine("buy") THEN q ELSE 0)
        /\ SumQty(S(k + 1, "sell")) = s + (IF mine("sell") THEN q ELSE 0)
    BY <2>1, <2>2, <2>5
  <2>7. q = (IF mine("buy") THEN q ELSE 0) + (IF mine("sell") THEN q ELSE 0)
    BY <2>3, <2>4, SMTT(30)
  <2>8. sum[k + 1] = SumQty(S(k + 1, "buy")) + SumQty(S(k + 1, "sell"))
    <3>1. sum[k + 1] = (b + s) + q /\ q \in Nat
      BY <2>4, <2>6
    <3> HIDE DEF q, b, s, mine
    <3> QED
      BY <2>6, <2>7, <3>1
  <2> QED
    BY <2>2, <2>8
<1> HIDE DEF N, Right
<1>6. Right(n)
  <2>1. Nat \subseteq N
    BY <1>4, <1>5, OnArena!Induction
  <2>2. n \in N /\ n <= n
    BY <1>2, <2>1
  <2> QED
    BY <2>2 DEF N
<1>7. ASSUME NEW side \in Sides
      PROVE S(n, side) = {id \in Alive(side) : g_orders[id].price = p}
  <2>1. ASSUME NEW id \in Alive(side), g_orders[id].price = p
        PROVE  \E i \in 1 .. n : L[i] = g_orders[id].qcid
    <3>1. id \in Ids /\ Rests(id) /\ OrderFits(id)
      BY DEF Alive, Rests, InFlight, Inv, BookFits
    <3> QED
      BY <2>1, <3>1 DEF OrderFits, Lists
  <2> QED
    BY <2>1 DEF AmongFirst, Alive
<1>8. ASSUME NEW side \in Sides
      PROVE  /\ engine_query_depth_at(p, side) = SumQty(S(n, side))
             /\ engine_query_depth_at(p, side) \in Nat
             /\ engine_query_depth_at(p, side) > 0
                  <=> \E id \in Alive(side) : g_orders[id].price = p
  <2>1. engine_query_depth_at(p, side) = SumQty(S(n, side))
    BY <1>7 DEF engine_query_depth_at
  <2>2. IsFiniteSet(S(n, side)) /\ S(n, side) \subseteq Ids
    BY <1>3, <1>6 DEF Right
  <2>3. /\ SumQty({}) = 0 /\ SumQty(S(n, side)) \in Nat
        /\ \A id \in S(n, side) :
              SumQty(S(n, side)) = SumQty(S(n, side) \ {id}) + g_orders[id].qty
    BY <2>2, SumOf
  <2>4. ASSUME NEW id \in S(n, side) PROVE SumQty(S(n, side)) > 0
    <3>1. SumQty(S(n, side) \ {id}) \in Nat
      <4>1. IsFiniteSet(S(n, side) \ {id}) /\ S(n, side) \ {id} \subseteq Ids
        BY <2>2, FS_RemoveElement
      <4> QED
        BY <4>1, SumOf
    <3>2. g_orders[id].qty > 0 /\ g_orders[id].qty \in Nat
      <4>1. id \in Ids /\ Rests(id) /\ OrderFits(id)
        BY <2>2 DEF AmongFirst, Rests, InFlight, Inv, BookFits
      <4>2. g_orders[id].qty \in Nat
        BY <4>1 DEF Inv, Types, OrderState
      <4> QED
        BY <4>1, <4>2 DEF OrderFits
    <3> QED
      BY <2>3, <3>1, <3>2
  <2>5. S(n, side) # {} <=> \E id \in Alive(side) : g_orders[id].price = p
    BY <1>7
  <2> HIDE DEF S
  <2>6. S(n, side) = {} => SumQty(S(n, side)) = 0
    BY <2>3
  <2> QED
    BY <2>1, <2>3, <2>4, <2>5, <2>6
<1>9. LevelSize(p) = engine_query_depth_at(p, "buy") + engine_query_depth_at(p, "sell")
  BY <1>1, <1>6, <1>8 DEF Right, Sides
<1> QED
  BY <1>8, <1>9

\* At the end of every message the three audit queries answer for the engine's
\* book: tombstones and stale best prices do not show, and no order is
\* counted that the engine does not have.
THEOREM QueriesRight == Spec => []QueriesAnswerBook
<1>1. Inv => QueriesAnswerBook
  <2> SUFFICES ASSUME Inv, Idle PROVE QueriesAnswerBook
    BY DEF QueriesAnswerBook
  <2>1. ASSUME NEW p \in Prices
        PROVE  LevelSize(p) = engine_query_depth_at(p, "buy") + engine_query_depth_at(p, "sell")
    BY LevelIsDepth
  <2>2. ASSUME NEW p \in Prices
        PROVE  p \in Occupied <=> \/ \E id \in Alive("buy") : g_orders[id].price = p
                                  \/ \E id \in Alive("sell") : g_orders[id].price = p
    <3> DEFINE d(side) == engine_query_depth_at(p, side)
               has(side) == \E id \in Alive(side) : g_orders[id].price = p
    <3>1. /\ d("buy") \in Nat /\ d("sell") \in Nat
          /\ d("buy") > 0 <=> has("buy")
          /\ d("sell") > 0 <=> has("sell")
      BY LevelIsDepth DEF Sides
    <3>2. LevelSize(p) = d("buy") + d("sell")
      BY <2>1
    <3>3. p \in Occupied <=> LevelSize(p) > 0
      BY DEF Occupied
    <3> HIDE DEF d, has
    <3>4. LevelSize(p) > 0 <=> has("buy") \/ has("sell")
      BY <3>1, <3>2
    <3> QED
      BY <3>3, <3>4 DEF has
  <2>3. ASSUME NEW id \in Ids, g_orders[id].alive
        PROVE  /\ g_orders[id].price \in Prices
               /\ g_orders[id].side = "buy" => g_orders[id].price <= bidMax
               /\ g_orders[id].side = "sell" => g_orders[id].price >= askMin
    <3>1. Rests(id) /\ OrderFits(id) /\ g_orders[id].price \in Prices
      BY <2>3 DEF Rests, InFlight, Inv, BookFits, Types, OrderState
    <3> QED
      BY <3>1 DEF OrderFits
  <2>4. bidMax < askMin /\ bidMax \in Int /\ askMin \in Int
    BY DEF Inv, BookFits, Types
  <2>5. {g_orders[id].price : id \in Alive("buy")} = {p \in Occupied : p <= bidMax}
    <3>1. \A id \in Alive("buy") : g_orders[id].price \in Occupied /\ g_orders[id].price <= bidMax
      BY <2>2, <2>3 DEF Alive
    <3>2. ASSUME NEW p \in Occupied, p <= bidMax
          PROVE  \E id \in Alive("buy") : g_orders[id].price = p
      <4>1. p \in Prices /\ p \in Int
        BY DEF Occupied, Prices
      <4>2. ~ \E id \in Alive("sell") : g_orders[id].price = p
        BY <2>3, <2>4, <3>2, <4>1 DEF Alive
      <4> QED
        BY <2>2, <4>1, <4>2
    <3> QED
      BY <3>1, <3>2
  <2>6. {g_orders[id].price : id \in Alive("sell")} = {p \in Occupied : p >= askMin}
    <3>1. \A id \in Alive("sell") : g_orders[id].price \in Occupied /\ g_orders[id].price >= askMin
      BY <2>2, <2>3 DEF Alive
    <3>2. ASSUME NEW p \in Occupied, p >= askMin
          PROVE  \E id \in Alive("sell") : g_orders[id].price = p
      <4>1. p \in Prices /\ p \in Int
        BY DEF Occupied, Prices
      <4>2. ~ \E id \in Alive("buy") : g_orders[id].price = p
        BY <2>3, <2>4, <3>2, <4>1 DEF Alive
      <4> QED
        BY <2>2, <4>1, <4>2
    <3> QED
      BY <3>1, <3>2
  <2> QED
    BY <2>1, <2>5, <2>6
       DEF QueriesAnswerBook, engine_query_best_bid, engine_query_best_ask
<1> QED
  BY <1>1, Invariance, PTL
=============================================================================
