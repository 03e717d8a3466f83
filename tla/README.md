# TLA+ models of the matching-engine benchmark

A harness loads a matching engine from a shared object, replays a workload into
it, collects the report stream through an inter-thread queue, compares the
stream with a reference hash, audits the book, and rules the run VALID or
INVALID.  This directory holds TLA+ models of that system, TLC configurations
that check them on small instances, and TLAPS proofs for all instances.

    tlc -workers 2 -config MCReportPipeline.cfg MCReportPipeline
    tlapm Harness_proofs.tla

`PROJECT.json` maps every definition to the source lines it stands for and lists
the runs, the hazards, the theorems and, for each property, a bug of the code
that would break it (a *mutant*; the operators marked `\* mutant` in the modules
exist only for that).  Paths below are relative to the repository.

## 1. Inventory

| Part | Source | State | Operations | Talks to |
|---|---|---|---|---|
| Engine contract | `api/matching_engine_api.h` | (the engine's book) | new, cancel, modify, flush, queries, batch | implemented by every adapter |
| Harness `main` | `src/harness.cpp` | stage, guards, timer, reference snapshot, verdict | load, init, prebuild, preflight, deliver, flush, join, audit, judge, teardown | engine (calls), drainer (flag, join), files |
| Drainer thread | `src/harness.cpp` 189-221 | collected reports, counters | drain, consume, exit | queue, stop flag |
| Transport | `src/transport.cpp` | bounded SPSC queue | push, drain, flush | engine thread to drainer thread |
| QuantCup adapter | `adapters/quantcup_adapter.cpp`, `patches/quantcup.patch` | shadow of the book, prebuilt orders, the external arena and levels | prebuild, handlers, `execution` callback, queries | harness, queue |
| Liquibook adapter | `adapters/liquibook_adapter.cpp` | id maps, pointers into the external book | same | same |
| Java adapters (exchange-core, CoralME, jiang) | `adapters/exchange_core_adapter.cpp`, `HarnessExchangeCore.java`, `additional_references/{coralme,jiang}_adapter/` | a staging buffer for fills and a batch buffer for reports, both shared with the Java VM | handlers, sub-batches, drain | same, JVM |
| Native adapters | `additional_references/{cpp_orderbook,kautenja,jeog,hroptatyr_clob,cpptrader,robaho,lcv3,tzadiko}_adapter/` | shadows, id tables, handles, pending callbacks | prebuild, handlers, callbacks, queries | harness, the external engine |
| State audit | `src/audit.cpp` | probe indices, snapshots, mismatches | pick, replay, compare | a baseline engine |
| Canonical output | `src/correctness.cpp` | - | sort, render, hash, write | collected reports |
| Workload generator, cache | `workload/generator.cpp`, `harness.cpp` 337-382, 488-500 | live orders; one file per workload | generate, write, load | harnesses that run at once |
| Reference file | `harness.cpp` 516-547, 836-862 | hash per workload | read, merge and rename | harnesses that run at once |
| Challenge runner | `scripts/run_challenge.py` | trials, scenario rows | supervise, judge, aggregate | harness processes |
| Seed sweep | `scripts/validate_seeds.py` | tapes, process groups, pool | run cells, kill, clean up | harness processes |
| Conformance gate | `scripts/conformance_check.py` | hashes per engine and seed | consensus, oracle | harness processes |
| pgellert engine | `additional_references/pgellert_adapter/wrapper/src/` | a queue per side and price, bounds of the scan, an index; the wrapper's shadow | apply, match, cancel; handlers, queries | harness |

What is not modelled, and why, is section 6.

What is hard, per part, and what makes it correct:

- **Contract.**  Cancel-and-reinsert, IOC residuals, sweeps.  Correct: the book
  is never crossed, priority is total, no trade goes past a better price, each
  message gets the reports of the header in order.
- **QuantCup adapter.**  Two copies of the book, updated apart; tombstones and
  best prices that are stale after cancels; levels shared by both sides; cursors
  into prebuilt arrays; an arena with no bounds check; sentinels at both ends of
  the price domain.  Correct: the copies agree, sides never mix, cursors follow
  the tape, the arena suffices, and the adapter implements the contract.
- **Pipeline.**  Two or three threads, a queue that fills, loads that return
  old values, a transport that may buffer, a stop flag, a drainer that may fail
  to pin.  Correct: no report is lost, repeated or reordered; no work happens
  after the clock stops; probes see exactly the messages before them; the run
  ends.
- **Harness run.**  Engine code that hangs, crashes, or meddles with signals and
  the timer; a reference file that changes during the run; a supervisor that
  judges by a result file written before the teardown.  Correct: only a match
  with the old reference is VALID, failures a handler can see are reported,
  watched hangs end, and a trial counts only when the whole run was clean.
- **The other native adapters.**  What an adapter keeps about an order (its side,
  its price, whether it lives, the engine's id or handle for it) is kept beside an
  engine that changes the order in a callback, hands ids out itself, uses handles
  again, or has a reserved price.  Correct: the shadow is the book, the queries
  answer the book, and nobody can tell the adapter from the reference engine.
- **pgellert engine.**  Bounds that are repaired only by pops and inserts, orders
  popped before it is known whether they trade, a matcher that does not know who
  the taker is.  Correct: the scan between the bounds misses nothing, everything
  popped is traded or put back, every trade has the aggressor on one side.
- **Java adapters.**  Two buffers of fixed size between two languages, a run of
  messages cut into crossings where room runs out.  Correct: every message is
  answered once, in order, however the run is cut; a buffer that is too small
  stops the process.
- **Generator and audit.**  A cancel must not precede its order on the tape; the
  snapshots of one engine are compared with the replay through another.  Correct:
  the tape is one the adapters can be given, and the audit passes exactly the
  engines that answered every probe truthfully.
- **Files and scripts.**  Shared files without locks, process groups, signals.

The full list of hazards, each at its line and with the properties that would
catch it, is in `PROJECT.json` under `hazards`; one without a property says why.

## 2. Modules

| Module | Models | Checked by | Proofs |
|---|---|---|---|
| `MatchingContract` | the abstract specification of an engine, one step per report | `MCMatchingContract` | `MatchingContract_proofs` |
| `QuantCupAdapter` | the adapter and QuantCup's book; refines `MatchingContract` | `MCQuantCupAdapter` | `QuantCupAdapter_proofs` |
| `ReportStream` | the abstract specification of the pipeline: a lossless stream | through `ReportPipeline` | - |
| `ReportPipeline` | harness thread, engine, queue, drainer; refines `ReportStream` | `MCReportPipeline` | `Harness_proofs` |
| `HarnessRun` | one process of the harness and its trial | `MCHarnessRun` | `Harness_proofs` |
| `SeedValidator` | `validate_seeds.py`: threads, processes, signals, tapes | `MCSeedValidator` | `SeedValidator_proofs` |
| `EngineBook` | messages, reports, a price-time book, the tables of the adapters | through its users | - |
| `CanonicalOutput` | `correctness.cpp`: the text that is hashed | through its users | - |
| `ReferenceEngine` | the abstract specification of an engine, one step per message | through `ConformanceGate`, `PgellertAdapter` | - |
| `LiquibookAdapter`, `CppOrderbookAdapter`, `KautenjaAdapter`, `JeogAdapter`, `HroptatyrAdapter`, `CppTraderAdapter`, `RobahoAdapter`, `Lcv3Adapter`, `TzadikoAdapter` | one adapter each | through `ConformanceGate` | - |
| `ConformanceGate` | any of the nine adapters under any small workload; refines `ReferenceEngine` | `MCConformanceGate` | - |
| `FifoBook` | the book and the matcher of the pgellert engine, one step per pop, merge or return | through `PgellertAdapter` | `PgellertAdapter_proofs` |
| `PgellertAdapter` | the wrapper around `FifoBook`; refines `ReferenceEngine` | `MCPgellertAdapter` | `PgellertAdapter_proofs` |
| `FoldFacts` | what a fold over a sequence computes (lemmas only) | - | used by `QuantCupAdapter_proofs`, `PgellertAdapter_proofs`, `JniBridge_proofs`, `StateAudit_proofs` |
| `JniBridge` | the three Java adapters, both halves | `MCJniBridge` | `JniBridge_proofs` |
| `WorkloadGenerator` | `generator.cpp` | through `StateAudit` | `StateAudit_proofs` |
| `StateAudit` | a generated tape, the probes of the timed run, the replay through `LiquibookAdapter` | `MCStateAudit` | `StateAudit_proofs` |

### MatchingContract
`Deliver` takes a message (the OrderAck, or the answer of a cancel or a rejected
modify), `Fill` trades with the best crossing maker at the maker's price, and
`Finish` rests, drops or completes what is left.  One step per report: that is
the grain at which the drainer sees the stream.  The book maps ids to orders; a
time stamp taken in `Finish` gives time priority.  A new order's id is never
that of a resting order, as the workload's ids are dense and used once.

### QuantCupAdapter
`engine_prebuild` runs once per message before `StartRun`; `Deliver` enters a
handler, `PassEntry`/`FillEntry` are the two branches of QuantCup's sweep loop
with the adapter's `execution` callback, `NextLevel` moves the best price,
`Filled`/`Insert` end `limit()` and run the rest of the handler (`Return`).  The
queries are operators over the shadow `g_orders`.  QuantCup itself is fetched at
build time: its loop is modelled from the context lines of `quantcup.patch` and
from the way the adapter calls it, and marked external in the map where no line
of the repository shows it.  `aborted` is `std::abort()` in `check_qc_price` and
`check_qc_arena`.  The tape is any sequence of messages with any prices; `Follows`
asks of it only what `generator.cpp` 197-221 gives every workload, that a placed
order has an id of its own.

The refinement `C == INSTANCE MatchingContract WITH ...` reads the abstract book
off the shadow (`ShadowBook`); the order that a modify is moving counts as taken
out, the abstract clock is QuantCup's arena counter, and sweeping past
tombstones is stuttering.

### ReportPipeline
`phase` follows `main` from the pre-flight queries to the join.  The engine is
any engine: `batched` (it exports `engine_on_batch`), `async` (it matches on a
thread of its own), answering each message with one to `MaxReports` reports.
The transport is the harness's (`stride = 1`) or one that publishes in runs.
The queue is a ring of `QUEUE_CAPACITY + 1` slots, one of which stays free so that
equal indices mean empty; a push writes the slot at `write_index` whatever is in
it, so a push too many writes over a report that has not been taken.  Each thread
has its own index and loads the other's, and a load may be old: the producer goes
by `freed_index`, the drainer by `seen_index`, which trail behind `read_index` and
`published_index` until `SeeFreed`/`SeePublished`; only the acquire load that reads
the stop flag brings `seen_index` up to date (`SeeStop`).  `queue`, `published`,
`visible` and `freed` are read off the ring.  The ring and its free slot are how
`boost::lockfree::spsc_queue`, which is not in the repository, holds what
`transport.cpp` gives it, and marked external in the map.
`ReportStream` has three variables: reports are pushed, a prefix of them is
collected, and at completion the collection is everything.

### HarnessRun
A stage is one stretch of engine code called by `main`; `Enter` does what the
harness does before it (read the reference, arm or disarm the timer, re-assert
the handlers), then the engine's code returns (a gate may fail), hangs or
crashes.  `ChangeProcess` is what `engine_init` may do to the process: install a
runtime's fault handlers, or reset handlers and cancel the timer.  An engine that
does so from a *later* call is outside the code's stated guarantee (the RESIDUAL
notes at `harness.cpp` 284-290 and 603-608) and outside the model.
A crash is an abort, a memory or arithmetic fault, for which there are handlers
(`GuardedSignals`), or a death no handler sees (`Unguarded`): `harness.cpp` 237-238
has none for SIGILL, SIGTRAP and SIGSYS, and 240-250 gives the handlers no stack of
their own, so they cannot report a stack overflow.
`RewriteReference` is any writer of the reference file.  `Judge` is
`run_challenge.py`.

### SeedValidator
Three kinds of actors per validator.  A *worker* runs a cell: `Start` takes it
from the queue of the pool, `CheckTape` to `JudgeTape` generate the tape under a
temporary name and rename it, `Spawn` to `JudgeRun` run the harness and decide
the outcome, `Cleanup` removes the files and sets `STOP` for `--fail-fast`.
`run_group` is cut where a signal may come: check of `INTERRUPTED`, `Popen`
(`Spawn`), entry in `ACTIVE` (`Register`), the check for a late signal
(`Recheck`), `wait` (`Wait`, `Timeout`).  The *child processes* read and write
tapes (`Generate`, `FindTape`, `WriteInPlace`, `LoadTape`, `RunEngine`); the
harness generates a tape in place when it finds none.  The *main thread*
submits, waits, handles the exception, cancels, kills, joins and reports;
`Signal` raises `KeyboardInterrupt` wherever it is.  Outside the two `try`
blocks nobody catches it (`unwind`): the interpreter joins the pool, which works
off the futures submitted so far, and ends.  `owner` and `stopped` record who
wrote a tape and which children a signal killed; `owner` also tells whether the
file being written is still the one of that name.  Not modelled: signals while
an exception unwinds, a process id that is used again between the end of a child
and its removal from `ACTIVE`, exceptions of a worker other than a failed
rename, the canonical seed (whose tapes are kept), the choice of cells.

### EngineBook, CanonicalOutput, ReferenceEngine
The engines behind the adapters are fetched at build time.  `EngineBook` is what
the adapters rely on: a book of orders in insertion order (`Match`, `AddLimit`,
`Without`), known by whatever id the engine uses.  `Replied` is the answer the
header `matching_engine_api.h` asks for.  `CanonicalOutput` sorts the reports as
`build_canonical_text` does, stably by sequence number and type, and keeps of
each the fields its line prints; equal canonical text is an equal hash.
`ReferenceEngine` is an engine that answers a message in one step.
`MatchingContract` says the same at the grain of single reports, for the adapter
whose engine calls back in the middle of its sweep.

### The adapters and ConformanceGate
Each adapter module has three variables: `native`, the external book with the
engine's own bookkeeping (id counters, queue ids, free slots); `own`, the
adapter's globals; `pushed`, the reports of the latest message.  Its operators are
named after the functions of the source.  What is peculiar to each:

| Adapter | What it keeps, and how it differs |
|---|---|
| liquibook | two tables, order id to object and Liquibook id to order id, sized in the prebuild pass; a modify makes a new object |
| cpp_orderbook | a shadow with side, price, remainder, maintained in the execution callback; best prices and depth are parsed out of a level dump |
| kautenja | a shadow; prices are shifted by `PX_OFF`, since the engine's price 0 means a market order |
| jeog | engine ids are predicted before the insert and mapped back in a callback that comes once per side; prices grow the book |
| hroptatyr_clob | a handle (side, price, queue id) per order and a liveness flag that the execution view clears; queue ids start over when a level empties |
| cpptrader | no shadow; trades are pairs of callbacks |
| robaho | a shadow with the exchange's id; the exchange decides whether a cancel finds the order |
| lcv3 | fixed tables and the engine's slots, which are used again |
| tzadiko | a shadow; the maker of a trade is on the side opposite to the taker's |

`ConformanceGate` loads one adapter, announces a workload to it
(`engine_prebuild`), opens the timed window and delivers messages: any new order
whose id was announced and is not alive, any cancel of a known or unknown id, any
modify.  `EveryEngineConforms` is the refinement of `ReferenceEngine`, with the
adapter's book under the workload's ids (`Labelled`) and the canonical text of
`pushed`.

### FifoBook, PgellertAdapter
The one engine whose matching is in the repository.  `apply` rests an order and
widens the bounds; `Pop` is `pop_bid` or `pop_ask`, a scan from the better bound
that commits the bound to the price it found; `Merge` trades what is in hand;
`Stop` is any of the exits of `check_for_trades`, all of which put back what is in
hand (`unpop`).  `pop_bid` comes before `pop_ask` where both are called.
`u64::MAX`, the lower bound of a side that never had an order, is `MaxPrice + 1`.
`cancel` and an applied modify are one step with the call of the wrapper they
belong to, as nothing can be seen between them.  The order that was applied last,
`taker`, is known to the wrapper, not to the matcher.

The refinement of `ReferenceEngine` compares the state after one handler with the
state after the next (`seen`); the steps of the matcher stutter.  `Book` puts the
orders of all buckets in the order in which they were applied (`arrived`), which is
what the reference goes by.  The wrapper's table of shadows is kept apart from the
buckets: `match_aggressor` takes fills off the makers' shadows from the trades it is
handed when the matcher is through, and the handlers cancel, reinsert and reject by
the shadows alone.  `ShadowBook` is the book as the shadows have it.  The queries scan
the buckets (not the bounds, and not the shadows).

### JniBridge
`engine_on_message` is the path without batches, on which fills go through the
staging buffer; `engine_on_batch`, `onBatch`, `onBatchReturns` and `Drain` are one
run of messages, cut where fewer than `Reserve` reports of room are left.  A
write past the end of a buffer throws in Java and aborts the process.  The
staging buffers of exchange-core (1024) and CoralME (4096) are smaller than the
5000-fill sweep of `conformance_check.py` (`deep_recursive_sweep_5000`): on the
path without batches (`ME_NO_BATCH`) such a sweep aborts the engine, which
`NothingLost` allows and a lost report would not be.  jiang is sized for it, and
`NothingLost` says that it never aborts.  A workload (`Follows`) gives every placed
order an id of its own, as the generator does, and has no order that sweeps deeper than
`MaxSweep` (`Sweep`, as the reference answers it).

### WorkloadGenerator, StateAudit
`Expand` gives one order its lifecycle as `generate` does (it may be IOC, be
modified, be cancelled twice, be modified once more after the cancel; a lifetime
may be zero), `write_binary` sorts the timeline stably and numbers it.
The clock runs on across orders, so lifecycles follow each other on the wire
and overlap only in what rests.  `StateAudit` runs the tape through an engine under test that is
the reference except for up to `MaxFaults` faults (a message without effect, a
probe answered from the book before the latest call, that is before a message or a
whole batch), per message or in batches that end at the
probes, records the snapshots and replays the tape through `LiquibookAdapter`.

## 3. Runs

| Run | Instance | Shows |
|---|---|---|
| `contract` | 3 ids, 3 prices, 2 quantities, 4 messages | the abstract book stays uncrossed, no trade-through |
| `quantcup` | 5 ids, any 3 messages from the empty book, any 2 (of fewer prices and quantities) after each of four openings, an arena of 6 | shadow = engine book; sides apart; cursors; queries; the arena suffices; the contract |
| `pipeline` | 4 messages, up to 2 reports each, ring of 4 slots (3 reports), batches of 2, 2 probes, fairness | nothing overwritten or lost, stream refined, probes aligned, work on the clock, the run ends |
| `harness` | 1 hash in the file, 3 kinds of `engine_init`, crashes with and without a handler, fairness | failures a handler sees are reported; verdict, exit code and trial are honest; watched hangs end; trials are judged |
| `harness_hang` | expects a violation | a hang in `dlopen` is reported by nobody |
| `seeds_one` | 1 validator, 2 cells on 1 thread, every outcome and option, 2 signals, fairness | honest outcomes, nothing left behind, tapes that were there before stay, status 0 only when every cell ran, a handled signal ends the run at once |
| `seeds_signal` | expects a violation | a signal outside the `try` blocks is lost |
| `seeds_own` | expects a violation | a validator removes another one's tape |
| `gate` | 9 adapters, 3 orders on 2 prices and 2 quantities, one modify, any cancels | every adapter is the reference engine, its queries answer its book, its shadow is its book |
| `pgellert` | 3 ids, 3 prices, 2 sizes, messages without end | bounds, index and shadows agree with the book, the queries with the shadows; only the order applied last crosses; engine and wrapper are the reference engine |
| `jni` | 3 bridges, with and without batches, 4 messages, sweeps of up to 3 fills | no report lost in a crossing; jiang never aborts |
| `audit` | 2 orders, up to 10 messages, 2 probes, one fault, both modes and deliveries | the tape is legal; the audit is exact |

**Bounds.**  *Contract, QuantCup*: a workload is `MaxMessages` messages, or what
`MCWorkload` allows.  Three messages reach every branch of the handlers from an
empty book (rest, partial fill, full fill, IOC drop, rejected and applied
modify); what needs a longer history, a level with several entries, a tombstone
between live entries, a best price left stale, is prepared in `Openings` and
followed by two arbitrary messages.  Modifies to price 0 make the price check
bite, and six slots the arena check.  A modify carries the side of its order, as
the generator's do.
*Pipeline*: the queue is smaller than the reports of two messages, so it fills,
the drainer needs several batches, and the final drain more than one; up to eight
reports go twice round the four slots, so every index wraps while the others have
not, and a push into a slot that is not free finds an untaken report there.
*Harness*: an entry that is missing, then written, tells the snapshot from the
file; a stream has the hash of the entry or `OtherHash`, which no file holds.  `failed` ranges over the gates of
`harness.cpp` 904-925; the wall-time ratios behind two of them are a free choice.
*Seeds*: cells of one validator share only `STOP`, `INTERRUPTED`, `ACTIVE` and
the threads, so two cells show what one does to another, and one thread for two
cells makes the pool queue; two cells that run at once meet a signal each as one
does.  `MaxSignals = 2` is the second signal that the kill loop expects.  Two
validators meet on one cell only through its tape.
*Gate*: three orders are two makers and a taker, or an id that is used again
after its order died; quantities 1 and 2 give partial fills on either side; a
modify moves, crosses or shrinks an order.  Every table starts with two slots, so
ids 2 and 3 and the unknown id 4 make it grow or lie past its end.
kautenja's workloads have price 0.  The view `Position` leaves out the latest
message and its reports: no later step depends on them, and the properties look
at them only in the step that makes them, which is checked whenever it is
generated, before its end state is looked up.
*pgellert*: two makers and a taker on three prices leave bounds that are stale on
either side, and since the workload does not end, any history of them; an id comes
back when its order is dead.  Ids are interchangeable: the model compares them for
equality only (symmetry), and the run checks no liveness.  The view leaves out what no
later step reads: the shadows and the places among the arrivals of dead orders and,
between two messages, the latest message and its reports; `EngineConforms` looks at
those in the step that makes them, as in *Gate*.
*JNI*: a batch buffer of 7 with a reserve of 4 drains after one or two messages;
the staging buffers are one below and exactly at the largest sweep.  The largest
answer of an adapter with a fixed reserve is larger than that reserve, as a
sweep of more than 2046 fills is in the code.
*Audit*: two orders make tapes of two to ten messages with every pair of lifecycles, ties included;
two probes are the smallest number for which one can be out of step with the
other, and one fault the smallest engine that must not pass.

**Fairness.**  `ReportPipeline`: weak fairness
of each thread (the operating system schedules them; `push_report` and the
drainer spin, they never block) and of the visibility of stores (a store becomes
visible in finite time).  `HarnessRun`: the harness and the script are scheduled,
a pending alarm goes off, `subprocess.run` gives up; engine code that does not
hang comes back, and whether it hangs is free.  The runs `contract`,
`quantcup`, `gate`, `pgellert`, `jni` and `audit` are about safety only.  `SeedValidator`: the main
thread, the workers and the children are scheduled; a hung child stays hung, and
the time limit of a cell is *not* assumed to come, so that `StopEnds` has to hold
by the killing alone.

**Stopping.**  A model that is over stutters by an explicit action (`Over`,
`Done`).  Only `jni` and `audit` switch the deadlock check off: a workload ends
there, and so may the process.

## 4. Findings

**A hang before the first alarm.**  `docs/ANTI_CHEAT.md` 210-211 promises that an engine that hangs is reported as
failed.  The first `alarm()` of `main` is at `harness.cpp` 594, after
`load_engine`, `get_transport` and `create`; the last is disarmed before
`transport->destroy` and `dlclose`.  The run `harness_hang` shows the
hang in `dlopen`: no alarm pending, no report.  Under `run_challenge.py` the
outer timeout of 1200 s ends such a run (`TrialsAreJudged` holds).

**A signal without a handler.**  The same sentence of `docs/ANTI_CHEAT.md` (210-211)
promises that an engine that crashes is reported as failed "rather than taking the
harness down with it".  `harness.cpp` 237-238 has handlers for SIGALRM, SIGABRT,
SIGSEGV, SIGBUS and SIGFPE.  An illegal instruction, a trap or a refused system call
has none, and the handlers run on the stack of the engine (`sa_flags` is 0 and there
is no `sigaltstack`, 240-250), so a stack overflow ends the process by the bare
signal too.  No run of its own shows this: `Crash` has these deaths (`Unguarded`),
`FailureIsReported` claims nothing of them, and `harness` shows that
`run_challenge.py`, which goes by the exit status, never counts such a trial
(`CountedTrialsAreClean`) and judges each (`TrialsAreJudged`).

**A signal outside the `try` blocks.**  `validate_seeds.py` 45-46 promises that a
signal kills the running cells and that the reports are still written.  The
handler raises `KeyboardInterrupt` wherever the main thread is, and only the wait
loop (582-591) and the kill and shutdown loop (597-603) catch it.
`seeds_signal` shows a signal during the submission (580): no kill, no report,
a traceback after the pool has worked off what was submitted.  The same holds at
591-596 and 606-649.

**The tape of another validator.**  `validate_seeds.py` 237-238 says that
`run_cell` removes the files it created.  `seeds_own` shows two validators that
both generate the tape of one cell: the second rename takes the place of the
first file, and the first validator removes the second's.

## 5. Proofs

All from the named assumptions on the constants (`ContractAssumption`,
`QuantCupAssumption`, `PipelineAssumption`, `HarnessAssumption`,
`ValidatorAssumption`, `FifoAssumption`, `BridgeAssumption`, `SweepAssumption`,
`CountAssumption`, `LifeAssumption`, `AuditAssumption`) and nothing else.  They say that
sizes are positive, that prices and ids are numbers of the widths the code declares, that
the value that stands for "none" is not one of the things it is not, and
(`LifeAssumption`) which lives `workload/generator.cpp` 215-275 can draw: an IOC order has no further
life, a cancel comes at most twice, and only what was modified and cancelled is modified again.

`MatchingContract_proofs`, for any ids, prices and quantities:

- `TypeCorrect`, `NeverCrossed`, `TimePriority`: `Spec => []TypeOK`,
  `[]Uncrossed`, `[]PriorityIsTotal`.  The inductive invariant `Inv` adds that a time
  stamp in the book is never above the clock (else the newest stamp might be
  taken), that the taker itself does not rest while it is matched, and that an
  idle book is uncrossed because `Finish` only rests a remainder when nothing
  crosses.
- `BestPriceFirst`: `[]NoTradeThrough`.  Besides `Inv` it takes what the reports
  of an answer are (`WellFormed`), as the property reads the trades among them:
  the maker of a fill is the best one, so what the trade leaves behind is no
  better than it, and the answer begins anew with each message.

`QuantCupAdapter_proofs`, for every tape, number of price points and arena size:

- `ShadowMatchesBook`, `SidesApart`, `PrebuiltRight`, `RoomForAll`, `TypeCorrect`:
  `[]ShadowIsBook`, `[]SidesNeverMix`, `[]PrebuiltIsMessage`, `[]ArenaHasRoom`,
  `[]TypeOK`.  The shadow and QuantCup's book are kept by different code and tied by
  a handle alone, the arena entry of an order.  The inductive invariant says when
  that handle is good (`OrderFits`: the entry of a resting order is in the list of its
  price, carries its id and its remainder, and the best price of its side is no
  worse) and when an entry is alive (`EntryFits`: one with something left belongs
  to the order it names, which rests under that very handle; all else is a
  tombstone), that a list holds its entries in the order in which they joined it
  (`LevelFits`: entry numbers grow, so no entry is in it twice), that the
  prebuilt arrays are the tape filtered by type and the cursors count what has been
  delivered (`CursorsFit`, by counting lemmas on `Upto`), and that entries used,
  plus the call in progress, plus the calls the rest of the tape can make, stay below
  the arena's size (`RoomFits`).  An id starts once (`Known`), else a placed order
  could overwrite the handle of a resting one.
- `QueriesRight`: `[]QueriesAnswerBook`.  At rest the lists of a side hold, entry by
  entry, the orders its shadow holds, so the best price is that of the best level with
  something left, and the depth of a level, a sum over its list, is the sum over the
  shadow: an induction over the list, with the tombstones adding nothing
  (`LevelIsDepth`, from the facts on folds below).
- `KeepsContract`: `Spec => Contract`, the refinement of `MatchingContract`.
  A tombstone passed and a level left are stutters; an entry that trades is a `Fill`,
  because the head of the best level is the order that price and time priority pick
  (`HeadIsBest`: better prices hold only tombstones, and in the level the older
  entry has the smaller number, which is its abstract time stamp); the end of
  `limit()` and the rest of the handler are `Finish` (`ReturnIsFinish`).  With
  `BestPriceFirst` and `NeverCrossed` the adapter has what these say of the contract.

`Harness_proofs` has the two models of `harness.cpp`.  `ReportPipeline`, for any workload,
queue capacity, batch and transport:

- `TypeCorrect`, `NothingLost`: `[]TypeOK`, `[]Lossless`.  What was collected, followed
  by the slots from the read to the write index, is what was pushed; a push that
  wrote into that stretch, or a drain that ran past it, would break it.  The inductive
  invariant says that the five indices follow each other round the ring within one lap
  (freed, read, visible, published, written) and that the stretch from the freed to the
  write index never takes the last free slot (`QueueBounded`).  So where the producer's
  old view says there is room there is room, the slot pushed is outside the stretch,
  and the drainer's old view never reaches past what is published.  The lemmas on
  `Distance` and `Advanced` are the arithmetic of going round.
- `AllWorkOnTheClock`: no report is pushed after the clock has stopped.  Needs
  that the engine is quiet from the flush on, since no message is delivered
  afterwards.
- `PipelineIsStream`: the refinement of `ReportStream`.  Every step maps to a
  push, a collection, the completion or a stutter.  Completion needs the chain
  the code relies on: after the transport flush everything is published; the
  acquire load of the stop flag makes it visible; the drainer is done only when
  it sees nothing more; so the queue is empty at the join.

- `WholeStream`: `[]StreamIsWhole`.  Every message delivered is matched, in the
  engine's hand or in its inbox, in this order (`Accounted`, `MatchedInOrder`,
  `InboxInOrder`), and what is pushed comes before what is in hand
  (`PushedBefore`); when the run is over nothing is in hand or waiting.
- `ProbesOnTime`: `[]ProbesAligned`.  Before a delivery the next probe is never
  behind (`NextProbeAhead`); a batch ends at it; the probe waits until the
  engine is quiet, and then all that was delivered is matched.

`HarnessRun`, for any hashes and any of the kinds of `engine_init`:

- `RunTypeCorrect`, `VerdictOnSnapshot`, `FailuresReported`, `CleanTrials` and the
  action property `FaultsStay`.  `FailuresReported` is about the signals that have a
  handler; the others it leaves to the finding above.  The argument is about order: the stages are
  numbered, `Follows` only moves forward (lemma `Forward`), and `engine_init` is
  followed by the prebuild pass, before which the handlers are installed again.
  The inductive invariant says that no engine code runs before the reference has
  been read (`SetupFirst`), that what was read is an entry from before
  (`ReadBefore`), that a verdict comes after the stage in which the hash is
  computed, so that it cannot change any more (`Decided`), that outside
  `engine_init` no handler is the default one and only the fault signals can
  belong to a runtime (`Guarded`), and that exit code 0 comes from the end of
  `main` (`Honest`).

`SeedValidator_proofs`, for any number of validators, cells, threads and signals:

- `TypeCorrect`, `StoppedCellsNotRun`, `CleanExit`, `ExitZeroIsAPass` and the
  action property `ForeignTapesKept`: `[]TypeOK`, `[]StoppedIsNotFailed`,
  `[]NothingLeftBehind`, `[]PassedMeansAllRan`, `ForeignTapesStay`.  One invariant per
  cell (`Cell`) says what the state of its worker tells of its child process, of its
  temporary tape, of its place in `ACTIVE`, of the return code and of the
  outcome; a cell whose child a signal killed goes to `NOT_RUN` (`StopFits`), as
  `INTERRUPTED` is set before the kill and never cleared.  `MainFits` ties the main thread
  to the cells: from the kill on nothing is queued, from the report on nothing runs.
  A step of one cell leaves the others alone (`OneCell`), and the pool never runs more
  cells than it has threads (`PoolFits`, by cardinalities).  `ForeignTapesKept`
  needs that what is removed was made by some validator (`MadeBySomeone`).

`PgellertAdapter_proofs`, for any ids, sizes and prices and every workload the
model allows:

- `BookIsFiled`, `ScanIsComplete`, `BookIsUncrossed`, `AggressorTrades`.  All rest on
  one fact, proved per step: what a side holds afterwards, in a bucket or in hand, it
  held before, or it is the order applied (`PushedBuckets`, `RemovedBuckets`, and the
  steps `PopInv`, `MergeInv`, `StopInv`).  So a bound may follow the order that is
  popped, because nothing better is left; and what crosses was not there before the
  taker.  The inductive invariant adds that no order that waits is better than the one
  in hand (`BestInHand`), which is why the matcher may stop when the two in hand do
  not cross, and that the hands are empty outside it (`HandsEmpty`).

- `IndexNamesBook`: `[]IndexIsBook`.  A cancel looks at the price in the index and on
  the side in the adapter's shadow, which other code keeps.  `IndexInv` ties the
  three: an id is held once (`OnceEach`); an order held is in the index, and the
  message in hand or the shadow knows its side (`WhereIndexed`); the index names
  nothing else (`NoneForgotten`); what is left of the taker while it is matched is
  its size less the trades so far (`TakerIsLeft`), so the adapter's sum, a fold over
  the trades, is 0 exactly when the matcher has consumed it; a handler is open
  exactly while there is a taker, and every shadow has a side (`Shadowed`), which
  the fold of the fills leaves alone (`HitsKeepSides`).
- `ShadowNamesBook`: `[]ShadowIsBook`.  While a call is matched the shadows are behind
  the book, as the wrapper sees the trades only afterwards.  `ShadowInv` says what they
  will be: every order held except the taker is its shadow after the fills so far (a fold
  of `HitMaker`, whose facts are in the section on hits), no other shadow is alive, and
  the taker's is dead until `match_aggressor` writes one for what is left.  An id arrives
  once (`Arrived`), so the arrivals that still rest are the orders the index names, each
  once (`RestingIs`, `BookIs`), and the live shadows are the same ones (`ShadowBookIs`).
- `QueriesRight`: `[]QueriesAnswerBook`.  The queries scan the buckets, the handlers act on the
  shadows, and they agree: the best price found in the buckets is that of the book
  (`BestRight`), a depth, a fold over one bucket, is the total of the arrivals that rest
  at its price (`DepthIsTotal`, an induction over the bucket that takes one order out of
  both sums; `BucketDepth`), and the book is the one the shadows give.

`JniBridge_proofs`, for any workload, engine and buffer sizes:

- `NothingIsLost`: `[]NothingLost`.  Assumed is what the sources say of the buffers: the
  reserve fits into the batch buffer, jiang's staging buffer and two more reports too
  (`BridgeAssumption`: 2048 and 8192 against 65536), and no order sweeps deeper than
  jiang's staging buffer (`SweepAssumption`, the comment at `jiang_adapter.cpp` 88-95);
  nothing is assumed of the depth for the other two, which may abort.  The heart is
  `AnswerRight`: under any book of the orders placed so far, what the Java handlers
  return for a message is the reference's answer, book and reports, and at most two
  reports longer than its sweep.  It rests on what the operators of `EngineBook` do to
  a book: a filter goes through it one order at a time and keeps the order (`OnlyNext`,
  `WithoutLast`: jiang's remainder of an IOC order, put in and taken out again, leaves
  the book as it was); the makers of a sweep are places of the book
  (`MakersAre`: ranks in a total order are the numbers below how many there are); a
  sweep takes from the makers what it gives to the taker (`MatchIs`).  The
  invariant says that what is pushed, followed by what Java has still to return, is the
  reference's answer to the messages so far, wherever the run was cut (`Answers`), that
  a crossing comes back with something done (`MovesOn`: with an empty buffer the reserve
  is there, so the exits for a crossing without progress are never taken), and that the
  book holds placed orders only (`BookFits`), each under its own id (`WorkloadFits`).

`StateAudit_proofs`, for any placements and lifecycles, any number of orders, arrival
order, probes, faults and initial table size, with batched and single delivery:

- `TapesAreLegal`: `[]TapeIsLegal`.  The timeline grows one order at a time
  (`ExpandKeeps`): the records of an order start with its new order and rise in time
  (`ExpandedIs`), and the clock is past the last record before the next order begins.  So
  the timeline is sorted already, the stable sort leaves it as it is (`SortKeeps`: it is the
  ties, an order and the modify or cancel of the same microsecond, that need the
  stability), and the first record of every id is its new order (`Begun`).  That a
  cancelled order is not found resting is about the book: an order that rests has been
  started and not cancelled, and is on the side of its id (`BookFits`).
- `AuditsAreExact`: `[]AuditIsExact`.  The baseline knows orders by numbers of its own.
  Two books are `Alike` when they hold the same orders in the same order, each under an
  id of its own in either book; matching, inserting, cancelling and the queries cannot tell
  such books apart (`MatchAlike`, `AddAlike`, `WithoutAlike`, `QueriesAlike`, and for a
  record `RecordAlike`), because all of them go by side, price, size and place.  The invariant of
  the replay, `BaselineFits`, says that the adapter's table has a number of its own for
  each order that may rest and pairs the two books.  It needs that no store of the replay
  is lost, which the prebuild pass sees to (`PrebuildEnds`: each id of the tape has a new
  order, and the table has been grown for that).  The reverse table is not needed: it labels
  reports, and the audit compares none.  The rest is that probe, snapshot
  and comparison belong to one message: `Made` says so of the deliveries and of the replay
  alike, a batch ends at a probe or before the next one (`StopIs`), and a snapshot without
  a difference is what the reference book answers (`Compared`).

`FoldFacts` states what a fold over a sequence computes: it starts with the base,
each element adds a step, sequences that agree fold alike (`FoldOfNone`,
`FoldOfNext`, `FoldKeeps` and others).  The library's induction takes an operator as
a parameter, which the provers cannot instantiate; here the induction is one on
sets of numbers (every non-empty set of naturals has a least element, from the well-foundedness of the
order) and the operator of the fold is a constant of the module, given a value by
`INSTANCE FoldFacts WITH op <- ...`.

The type invariants of `ReportPipeline`, `HarnessRun` and `FifoBook` are proved
and in no run; so are `TakerTrades`, which the run `pgellert` checks through
`EngineConforms`, and `PriorityIsTotal`, a lemma of the other invariants of the contract.

Only model-checked:

- liveness (`RunEnds`, `WatchedHangEnds`, `TrialsAreJudged`, `StopEnds`): the proof
  system has no backend for fairness here;
- `QueriesAnswerBook` and `ShadowIsBook` of the gate and its refinement of
  `ReferenceEngine` (`EveryEngineConforms`): nine adapters, each with an invariant of its own,
  and canonical texts, which are sorted lists of reports;
- `EngineConforms` of pgellert: a match made of pops and merges against one fold.

## 6. Not modelled

- `scripts/conformance_check.py` beyond what it compares: the cache of the oracle
  and its signature, the consensus of the baselines, its process handling.
- `scripts/run_challenge.py` beyond the supervision of a trial: the aggregation
  of trials and scenarios is arithmetic on finished results.
- The merge of the reference file (`--write-reference`) and the in-place
  generation of a workload by harnesses started by hand: files shared by
  processes that nothing in the repository runs at once.  `SeedValidator` has the
  sharing that the scripts do.
- The other adapters under `additional_references/`: bindings of the same kinds
  (a shadow and an id table, or a bridge into another runtime) to engines that are
  fetched at build time.
- `src/platform.cpp`, `compare_results.py`, `explain_divergence.py`,
  `third_party/`, the build files: I/O, formatting, foreign code.
- The cheat adapters under `tests/`, which exist to be rejected.

## 7. Plan

1. *(done)* The contract, the QuantCup adapter, the pipeline, the harness, the
   seed sweep, the nine adapters and the gate, the pgellert engine, the Java
   bridges, the generator and the audit; the proofs above.
2. *(done)* The proofs of section 5: the safety of the contract, of the QuantCup
   adapter with its refinement and its queries, of the pipeline, the harness, the seed
   sweep, the Java bridges, of the FIFO book with its index, its shadows and its queries, of the
   generated tapes and of the audit.
3. Proofs still open, in this order: `ShadowIsBook` and `QueriesAnswerBook` of the gate, adapter by
   adapter (`Alike` and `RecordAlike` of `StateAudit_proofs` say what renaming the orders does
   to a book, and the liquibook adapter is done there); `EngineConforms`, which needs that
   a match by pops is `EngineBook`'s match by a fold (what a fold of `Take` does is in
   `JniBridge_proofs`).
