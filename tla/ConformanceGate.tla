-------------------------- MODULE ConformanceGate --------------------------
(***************************************************************************)
(* scripts/conformance_check.py drives one engine per process with the     *)
(* same workloads and accepts it when its canonical output is the oracles' *)
(* and its audit answers are the baseline's.  Here one of the adapters is  *)
(* loaded, the harness announces the workload (engine_prebuild), delivers  *)
(* it, and the adapter is compared with the reference after each message.  *)
(*                                                                         *)
(* Any workload is delivered that its announcement allows: order ids are   *)
(* dense, an id may come back after its order is dead, cancels and         *)
(* modifies may name dead and unknown orders.                              *)
(***************************************************************************)
EXTENDS EngineBook, CanonicalOutput, FiniteSets, Functions

CONSTANTS
    Engines,    \* the adapters to be loaded
    Ids,        \* dense order ids, 1 .. n
    Unknown,    \* an id that no order has
    Plans,      \* the sizes of workloads: how many orders take each id, how
                \* many modifies there are; cancels are not limited
    TicksOf,    \* engine -> the prices of its workloads
    Quantities,
    Table       \* the initial number of slots of every table

VARIABLES
    engine,     \* the adapter that was loaded
    plan,       \* the size of the workload
    todo,       \* what was announced and is not delivered yet
    started,    \* the prebuild pass is over
    message,    \* the latest message
    native, own, pushed \* the engine's book, the adapter's globals, its reports

vars == <<engine, plan, todo, started, message, native, own, pushed>>

LB == INSTANCE LiquibookAdapter WITH LiquibookTable <- Table
CO == INSTANCE CppOrderbookAdapter WITH CppOrderbookShadow <- Table
KT == INSTANCE KautenjaAdapter WITH KautenjaShadow <- Table, KautenjaOffset <- 5
JG == INSTANCE JeogAdapter WITH JeogTable <- Table, JeogMax <- 3
HT == INSTANCE HroptatyrAdapter WITH HroptatyrShadow <- Table
CT == INSTANCE CppTraderAdapter
RB == INSTANCE RobahoAdapter WITH RobahoTable <- Table
L3 == INSTANCE Lcv3Adapter WITH Lcv3Table <- Unknown + 1
TZ == INSTANCE TzadikoAdapter WITH TzadikoTable <- Table

\* The order book as the adapter sees it, under the workload's order ids.
Book == CASE engine = "liquibook" -> LB!Labelled
          [] engine = "cpp_orderbook" -> CO!Labelled
          [] engine = "kautenja" -> KT!Labelled
          [] engine = "jeog" -> JG!Labelled
          [] engine = "hroptatyr_clob" -> HT!Labelled
          [] engine = "cpptrader" -> CT!Labelled
          [] engine = "robaho" -> RB!Labelled
          [] engine = "lcv3" -> L3!Labelled
          [] engine = "tzadiko" -> TZ!Labelled

NoMessage == [type |-> "none", seq |-> 0]

\* Sequence numbers modulo 2: two messages in a row are told apart.
NextSeq == 1 - message.seq

NewsAt(ticks, seq) ==
    {NewOrder(seq, id, side, price, qty, ioc) :
       id \in Ids, side \in Sides, price \in ticks, qty \in Quantities,
       ioc \in BOOLEAN}
CancelsAt(seq) == {Cancel(seq, id) : id \in Ids \cup {Unknown}}
ModifiesAt(ticks, seq) ==
    {Modify(seq, id, side, price, qty) :
       id \in Ids \cup {Unknown}, side \in Sides, price \in ticks,
       qty \in Quantities}
AllMessages ==
    LET ticks == UNION {TicksOf[e] : e \in Engines}
    IN UNION {NewsAt(ticks, seq) \cup CancelsAt(seq) \cup ModifiesAt(ticks, seq) :
                seq \in {0, 1}}

-----------------------------------------------------------------------------
Init == /\ engine \in Engines
        /\ plan \in Plans
        /\ todo = [news |-> [id \in Ids |-> 0], modifies |-> 0]
        /\ started = FALSE
        /\ message = NoMessage
        /\ \/ engine = "liquibook" /\ LB!engine_init
           \/ engine = "cpp_orderbook" /\ CO!engine_init
           \/ engine = "kautenja" /\ KT!engine_init
           \/ engine = "jeog" /\ JG!engine_init
           \/ engine = "hroptatyr_clob" /\ HT!engine_init
           \/ engine = "cpptrader" /\ CT!engine_init
           \/ engine = "robaho" /\ RB!engine_init
           \/ engine = "lcv3" /\ L3!engine_init
           \/ engine = "tzadiko" /\ TZ!engine_init

\* One message of the workload is announced; an adapter that exports no
\* engine_prebuild, or an empty one, makes nothing of it.
Announce(m) ==
    /\ ~started
    /\ \/ engine = "liquibook" /\ LB!engine_prebuild(m)
       \/ engine = "jeog" /\ JG!engine_prebuild(m)
       \/ engine = "hroptatyr_clob" /\ HT!engine_prebuild(m)
       \/ engine = "robaho" /\ RB!engine_prebuild(m)
       \/ engine = "tzadiko" /\ TZ!engine_prebuild(m)
       \/ /\ engine \in {"cpp_orderbook", "kautenja", "cpptrader", "lcv3"}
          /\ UNCHANGED <<native, own, pushed>>
    /\ UNCHANGED <<engine, plan, started, message>>

AnnounceNew(id) ==
    /\ todo.news[id] < plan.news[id]
    /\ Announce(NewOrder(0, id, "buy", 1, 1, FALSE))
    /\ todo' = [todo EXCEPT !.news[id] = @ + 1]

AnnounceModify(id) ==
    /\ todo.modifies < plan.modifies
    /\ Announce(Modify(0, id, "buy", 1, 1))
    /\ todo' = [todo EXCEPT !.modifies = @ + 1]

\* The timed window opens.
Start == /\ ~started
         /\ todo = plan
         /\ started' = TRUE
         /\ UNCHANGED <<engine, plan, todo, message, native, own, pushed>>

Handle(m) ==
    /\ started
    /\ \/ engine = "liquibook" /\ LB!engine_on_batch(m)
       \/ engine = "cpp_orderbook" /\ CO!engine_on_batch(m)
       \/ engine = "kautenja" /\ KT!engine_on_batch(m)
       \/ engine = "jeog" /\ JG!engine_on_batch(m)
       \/ engine = "hroptatyr_clob" /\ HT!engine_on_batch(m)
       \/ engine = "cpptrader" /\ CT!Dispatch(m)
       \/ engine = "robaho" /\ RB!Dispatch(m)
       \/ engine = "lcv3" /\ L3!Dispatch(m)
       \/ engine = "tzadiko" /\ TZ!Dispatch(m)
    /\ message' = m
    /\ UNCHANGED <<engine, plan, started>>

\* Ids are told apart by their size in the prebuild pass only, so a workload
\* may take its fresh ids in order.
InOrder(id) == \A k \in Ids : k < id => todo.news[k] < plan.news[k]

\* An id may come back once its order is dead.
DeliverNew(m) == /\ todo.news[m.id] > 0
                 /\ InOrder(m.id)
                 /\ ~Has(Book, m.id)
                 /\ Handle(m)
                 /\ todo' = [todo EXCEPT !.news[m.id] = @ - 1]

DeliverCancel(m) == Handle(m) /\ UNCHANGED todo

\* A modify repeats the side of its order.  The terms of a stale one are not
\* looked at: one stands for all.
DeliverModify(m) == /\ todo.modifies > 0
                    /\ IF Has(Book, m.id) THEN At(Book, m.id).side = m.side
                       ELSE m.side = "buy" /\ m.price = 1 /\ m.qty = 1
                    /\ Handle(m)
                    /\ todo' = [todo EXCEPT !.modifies = @ - 1]

Next == \/ \E id \in Ids : AnnounceNew(id) \/ AnnounceModify(id)
        \/ Start
        \/ \E m \in NewsAt(TicksOf[engine], NextSeq) : DeliverNew(m)
        \/ \E m \in CancelsAt(NextSeq) : DeliverCancel(m)
        \/ \E m \in ModifiesAt(TicksOf[engine], NextSeq) : DeliverModify(m)

Spec == Init /\ [][Next]_vars

-----------------------------------------------------------------------------
(* Properties.                                                             *)

\* Every adapter is the reference engine: after each message its book is the
\* reference book and its reports have the reference's canonical text.
Reference == INSTANCE ReferenceEngine
                WITH book <- Book, answer <- build_canonical_text(pushed),
                     Messages <- AllMessages
EveryEngineConforms == Reference!Spec

Answers == CASE engine = "liquibook" ->
                  <<LB!engine_query_best_bid, LB!engine_query_best_ask>>
             [] engine = "cpp_orderbook" ->
                  <<CO!engine_query_best_bid, CO!engine_query_best_ask>>
             [] engine = "kautenja" ->
                  <<KT!engine_query_best_bid, KT!engine_query_best_ask>>
             [] engine = "jeog" ->
                  <<JG!engine_query_best_bid, JG!engine_query_best_ask>>
             [] engine = "hroptatyr_clob" ->
                  <<HT!engine_query_best_bid, HT!engine_query_best_ask>>
             [] engine = "cpptrader" ->
                  <<CT!engine_query_best_bid, CT!engine_query_best_ask>>
             [] engine = "robaho" ->
                  <<RB!engine_query_best_bid, RB!engine_query_best_ask>>
             [] engine = "lcv3" ->
                  <<L3!engine_query_best_bid, L3!engine_query_best_ask>>
             [] engine = "tzadiko" ->
                  <<TZ!engine_query_best_bid, TZ!engine_query_best_ask>>
DepthAnswer(p, s) ==
    CASE engine = "liquibook" -> LB!engine_query_depth_at(p, s)
      [] engine = "cpp_orderbook" -> CO!engine_query_depth_at(p, s)
      [] engine = "kautenja" -> KT!engine_query_depth_at(p, s)
      [] engine = "jeog" -> JG!engine_query_depth_at(p, s)
      [] engine = "hroptatyr_clob" -> HT!engine_query_depth_at(p, s)
      [] engine = "cpptrader" -> CT!engine_query_depth_at(p, s)
      [] engine = "robaho" -> RB!engine_query_depth_at(p, s)
      [] engine = "lcv3" -> L3!engine_query_depth_at(p, s)
      [] engine = "tzadiko" -> TZ!engine_query_depth_at(p, s)

\* At any point the audit may choose, the three queries answer the book.
QueriesAnswerBook ==
    /\ Answers = <<Best(Book, "buy"), Best(Book, "sell")>>
    /\ \A p \in TicksOf[engine], s \in Sides :
          DepthAnswer(p, s) = DepthAt(Book, s, p)

\* What an adapter keeps about its orders is what the engine holds.
ShadowIsBook ==
    CASE engine = "liquibook" -> LB!InBounds
      [] engine = "cpp_orderbook" -> CO!ShadowIsBook
      [] engine = "kautenja" -> KT!ShadowIsBook
      [] engine = "jeog" -> JG!ShadowIsBook
      [] engine = "hroptatyr_clob" -> HT!ShadowIsBook
      [] engine = "cpptrader" -> CT!NothingPending
      [] engine = "robaho" -> RB!ShadowIsBook
      [] engine = "lcv3" -> L3!ShadowIsBook
      [] engine = "tzadiko" -> TZ!ShadowIsBook
=============================================================================
