------------------------ MODULE MCQuantCupAdapter ------------------------
(* Workload tapes for QuantCupAdapter. *)
EXTENDS QuantCupAdapter

CONSTANTS ShortLen,     \* messages of a tape from the empty book
          FreeLen       \* messages after an opening

News(t) == {i \in DOMAIN t : t[i].type = "new"}

\* The side a modify of id carries: the side of its order.
SideOf(t, id) == IF \E i \in News(t) : t[i].id = id
                 THEN t[CHOOSE i \in News(t) : t[i].id = id].side
                 ELSE "buy"

\* Messages that may follow tape t: the next dense id, or an id seen so far or
\* about to be (an unknown one).
Follow(t, newPrices, modifyPrices, quantities) ==
    LET next == Cardinality(News(t)) + 1
        known == (1 .. next) \cap Ids
    IN [type : {"new"}, id : {next} \cap Ids, side : {"buy", "sell"},
        price : newPrices, qty : quantities, ioc : BOOLEAN]
       \cup [type : {"cancel"}, id : known]
       \cup {m \in [type : {"modify"}, id : known, side : {"buy", "sell"},
                    price : modifyPrices, qty : quantities] :
                m.side = SideOf(t, m.id)}

New(id, side, price, qty) == [type |-> "new", id |-> id, side |-> side,
                              price |-> price, qty |-> qty, ioc |-> FALSE]

\* Books a sweep has to work its way through: a tombstone between two makers of
\* a level, a best price left stale by a cancel, a maker moved behind another
\* one, and levels that hold tombstones of the other side.
Openings == {
    <<New(1, "sell", 2, 1), New(2, "sell", 2, 2), New(3, "sell", 2, 1),
      [type |-> "cancel", id |-> 2]>>,
    <<New(1, "buy", 3, 1), New(2, "buy", 2, 2),
      [type |-> "cancel", id |-> 1], New(3, "sell", 3, 2)>>,
    <<New(1, "sell", 2, 2), New(2, "sell", 2, 1),
      [type |-> "modify", id |-> 1, side |-> "sell", price |-> 2, qty |-> 2],
      New(3, "buy", 1, 1)>>,
    <<New(1, "buy", 2, 2), New(2, "sell", 2, 1), New(3, "sell", 3, 1),
      [type |-> "modify", id |-> 1, side |-> "buy", price |-> 1, qty |-> 2]>>}

\* Any tape of up to ShortLen messages over three prices, modifies to a price
\* off the lower end included, and any tape of up to FreeLen messages after one
\* of the openings.
MCWorkload(t) ==
    LET opened == {o \in Openings : IsPrefix(o, t)}
    IN {o[Len(t) + 1] : o \in {p \in Openings : IsStrictPrefix(t, p)}}
       \cup (IF Len(t) < ShortLen
               THEN {m \in Follow(t, 1 .. 3, {0, 3}, {1, 2}) :
                       m.type = "new" => m.id <= ShortLen}
               ELSE {})
       \cup (IF \E o \in opened : Len(t) < Len(o) + FreeLen
               THEN Follow(t, 1 .. 4, {1, 3, 4}, {2, 4})
               ELSE {})
=============================================================================
