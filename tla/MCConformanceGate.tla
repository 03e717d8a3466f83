------------------------- MODULE MCConformanceGate -------------------------
(* Small workloads for every adapter. *)
EXTENDS ConformanceGate

AllEngines == {"liquibook", "cpp_orderbook", "kautenja", "jeog",
               "hroptatyr_clob", "cpptrader", "robaho", "lcv3", "tzadiko"}

\* Price 0 is a limit price like any other for the adapter that shifts prices.
MCTicks == [e \in AllEngines |-> IF e = "kautenja" THEN {0, 1} ELSE {1, 2}]

\* Three orders and a modify; two orders, one id taken twice, and a modify.
MCPlans == {[news |-> [id \in {1, 2, 3} |-> 1], modifies |-> 1],
            [news |-> <<2, 1, 0>>, modifies |-> 1]}
\* What the next step depends on.  The last message and its reports are looked
\* at by the step that makes them, which TLC checks whether or not the state it
\* leads to is new.
Position == <<engine, plan, todo, started, native, own>>
=============================================================================
