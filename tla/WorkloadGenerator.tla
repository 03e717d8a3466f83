------------------------- MODULE WorkloadGenerator -------------------------
(***************************************************************************)
(* workload/generator.cpp: the tape of a scenario.  The orders are placed  *)
(* (phase 1), shuffled into arrival order and given a lifecycle each, and  *)
(* the timeline is sorted into wire order (phase 2).  The random numbers   *)
(* are choices from small sets; the price walk is a choice per order.      *)
(***************************************************************************)
EXTENDS EngineBook

CONSTANTS
    Placements, \* [price, qty]: where an order may be placed
    Lifecycles, \* [ioc, modified, reprice, ttl, cancels, stale]: see Expanded
    count       \* the number of new orders

ASSUME CountAssumption == count \in Nat /\ count >= 2

\* An IOC order has no further life, at most one cancel is repeated, and only
\* what was modified and cancelled is modified again.
ASSUME LifeAssumption ==
    /\ Placements \subseteq [price : Int, qty : Nat \ {0}]
    /\ Lifecycles \subseteq {c \in [ioc : BOOLEAN, modified : BOOLEAN, reprice : BOOLEAN,
                                   ttl : Nat, cancels : 0 .. 2, stale : BOOLEAN] :
                                /\ c.ioc => ~c.modified /\ c.cancels = 0
                                /\ c.stale => c.modified /\ c.cancels > 0}

VARIABLES
    news,   \* the placed orders, in the order of the price walk
    order,  \* the arrival order
    k,      \* how many of them have been expanded
    now,    \* the clock of the timeline
    tl,     \* the timeline
    wire    \* the tape as written, <<>> until then

generator == <<news, order, k, now, tl, wire>>

Msg(ts, type, side, ioc, qty, id, price) ==
    [ts |-> ts, type |-> type, side |-> side, ioc |-> ioc, qty |-> qty,
     id |-> id, price |-> price]

\* Buy flow takes the first half of the walk.
Side(i) == IF i <= count \div 2 THEN "buy" ELSE "sell"

GeneratorInit ==
    /\ \E at \in [1 .. count -> Placements] :
          news = [i \in 1 .. count |-> [side |-> Side(i), price |-> at[i].price,
                                        qty |-> at[i].qty]]
    /\ order \in SetToSeqs(1 .. count)
    /\ k = 0 /\ now = 0
    /\ tl = <<>> /\ wire = <<>>

\* An order and all that becomes of it.  A modify adds one to the quantity and
\* may move the price one tick towards the other side; a lifetime may be
\* shorter than the resolution of the clock.
Expanded(n, id, at, c) ==
    LET tmod == at + 1
        mprice == IF ~c.reprice THEN n.price
                  ELSE IF n.side = "buy" THEN n.price + 1 ELSE n.price - 1
        gone == c.ttl + IF c.modified THEN tmod ELSE at
        Modified(ts) == Msg(ts, "modify", n.side, FALSE, n.qty + 1, id, mprice)
    IN <<Msg(at, "new", n.side, c.ioc, n.qty, id, n.price)>>
       \o (IF c.modified THEN <<Modified(tmod)>> ELSE <<>>)
       \o [j \in 1 .. c.cancels |->
             Msg(gone + j - 1, "cancel", n.side, FALSE, n.qty, id, n.price)]
       \o (IF c.stale THEN <<Modified(gone + c.cancels)>> ELSE <<>>)

Expand(c) ==
    LET id == order[k + 1]
        lines == Expanded(news[id], id, now, c)
    IN /\ k < count
       /\ tl' = tl \o lines
       /\ now' = Last(lines).ts + 1
       /\ k' = k + 1
       /\ UNCHANGED <<news, order, wire>>

\* std::stable_sort by timestamp.
Unstable(i, j) == \/ tl[i].ts < tl[j].ts                        \* mutant
                  \/ tl[i].ts = tl[j].ts /\ i > j
Earlier(i, j) == \/ tl[i].ts < tl[j].ts
                 \/ tl[i].ts = tl[j].ts /\ i < j

\* The record in place r of the file has r - 1 records before it.
write_binary ==
    /\ k = count /\ wire = <<>>
    /\ wire' = [r \in DOMAIN tl |->
                  tl[CHOOSE i \in DOMAIN tl :
                       Cardinality({j \in DOMAIN tl : Earlier(j, i)}) = r - 1]]
    /\ UNCHANGED <<news, order, k, now, tl>>

\* The message of a record (the harness's PreparedMsg): sequence numbers are
\* the positions in the file, and a cancel has no side, price or quantity.
Prepared(i) ==
    CASE wire[i].type = "new" ->
           NewOrder(i - 1, wire[i].id, wire[i].side, wire[i].price, wire[i].qty,
                    wire[i].ioc)
      [] wire[i].type = "cancel" -> Cancel(i - 1, wire[i].id)
      [] wire[i].type = "modify" ->
           Modify(i - 1, wire[i].id, wire[i].side, wire[i].price, wire[i].qty)

-----------------------------------------------------------------------------
\* The reference book after the first n messages.
BookAfter(n) == FoldLeft(LAMBDA b, m : Replied(b, m).book, <<>>,
                         [i \in 1 .. n |-> Prepared(i)])

\* The tape is what engine_on_* assume and docs/METHODOLOGY.md 85-110 promises:
\* an order starts once and never while it rests, a modify repeats the side of
\* its order, and a second cancel or a modify after a cancel finds the order
\* gone, so that it is answered with a reject.
TapeIsLegal ==
    \A i \in DOMAIN wire :
      LET book == BookAfter(i - 1)
          Before(type) == \E j \in 1 .. i - 1 : /\ wire[j].id = wire[i].id
                                                /\ wire[j].type = type
      IN IF wire[i].type = "new"
           THEN ~Before("new") /\ ~Before("modify") /\ ~Before("cancel")
           ELSE /\ Before("new")
                /\ Before("cancel") => ~Has(book, wire[i].id)
                /\ Has(book, wire[i].id) =>
                     At(book, wire[i].id).side = wire[i].side
=============================================================================
