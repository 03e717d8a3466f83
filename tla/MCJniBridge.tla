---------------------------- MODULE MCJniBridge ----------------------------
(* Workloads with sweeps of up to three fills. *)
EXTENDS JniBridge

\* A sweep of three, with and without a remainder, resting or IOC; sellers on
\* two prices.
Terms == {[side |-> "sell", price |-> 1, qty |-> 1, ioc |-> FALSE],
          [side |-> "sell", price |-> 2, qty |-> 1, ioc |-> FALSE],
          [side |-> "buy", price |-> 2, qty |-> 3, ioc |-> FALSE],
          [side |-> "buy", price |-> 2, qty |-> 4, ioc |-> TRUE],
          [side |-> "buy", price |-> 1, qty |-> 1, ioc |-> FALSE]}
Changes == {[price |-> 1, qty |-> 1], [price |-> 2, qty |-> 3]}

NewsOf(w) == {k \in DOMAIN w : w[k].type = "new"}
SideOf(w, id) == w[CHOOSE k \in NewsOf(w) : w[k].id = id].side

MCFollow(w) ==
    LET seq == Len(w) + 1
        next == Cardinality(NewsOf(w)) + 1
    IN {NewOrder(seq, next, t.side, t.price, t.qty, t.ioc) : t \in Terms}
       \cup {Cancel(seq, id) : id \in 1 .. next}
       \cup {Modify(seq, id, SideOf(w, id), c.price, c.qty) :
               id \in 1 .. next - 1, c \in Changes}

\* jiang has room for the deepest sweep, exchange_core does not.
MCStageCap == [exchange_core |-> 2, coralme |-> 3, jiang |-> 3]
=============================================================================
