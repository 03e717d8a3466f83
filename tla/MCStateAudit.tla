---------------------------- MODULE MCStateAudit ----------------------------
(* Tapes of two orders. *)
EXTENDS StateAudit

Life(ioc, modified, reprice, ttl, cancels, stale) ==
    [ioc |-> ioc, modified |-> modified, reprice |-> reprice, ttl |-> ttl,
     cancels |-> cancels, stale |-> stale]

\* Left alone; IOC; modified and left; cancelled at once, twice; everything.
MCLifecycles == {Life(FALSE, FALSE, FALSE, 0, 0, FALSE),
                 Life(TRUE, FALSE, FALSE, 0, 0, FALSE),
                 Life(FALSE, TRUE, TRUE, 0, 0, FALSE),
                 Life(FALSE, FALSE, FALSE, 0, 2, FALSE),
                 Life(FALSE, TRUE, TRUE, 0, 2, TRUE)}
MCPlacements == {[price |-> 1, qty |-> 2], [price |-> 2, qty |-> 1]}
=============================================================================
