--------------------------- MODULE SeedValidator ---------------------------
(***************************************************************************)
(* scripts/validate_seeds.py: a pool of worker threads runs the cells of a *)
(* selection.  Each cell generates its workload file (the tape) unless a   *)
(* complete one is there, runs the harness on it in a process group of its *)
(* own, decides the outcome and removes its files.  The main thread waits; *)
(* a signal makes it kill the running groups.                              *)
(*                                                                         *)
(* Several validators may run in one checkout: the tapes are shared.       *)
(***************************************************************************)
EXTENDS Naturals, FiniteSets

CONSTANTS Validators, Cells,   \* processes; the cells each of them selects
          Jobs,                \* worker threads of a validator
          MaxSignals,          \* bound: signals a validator receives
          Options,             \* the options a validator may be started with
          ProcessEnds          \* how a generator or a harness may end by itself

Nobody == "nobody"      \* who has put a tape where it was before the run

ASSUME ValidatorAssumption ==
    /\ Nobody \notin Validators
    /\ Jobs \in Nat \ {0} /\ MaxSignals \in Nat
    /\ Options \subseteq [keep_tapes : BOOLEAN, fail_fast : BOOLEAN,
                          require_valid : BOOLEAN]
    /\ ProcessEnds \subseteq {"match", "invalid", "differ", "crash", "slow", "error"}

VARIABLES
    options,        \* keep_tapes, fail_fast, require_valid per validator
    main, signals,  \* main thread; signals received so far
    STOP, INTERRUPTED, exit,
    pc,             \* the worker of a cell, or where its future waits
    proc,           \* the cell's latest child process
    ACTIVE,         \* cells whose child is registered for kill_active
    rc, created, outcome,
    tape, tmpTape,  \* "none", "partial" or "complete"
    owner,          \* history: who put the tape where it is
    stopped         \* history: cells whose child a signal killed

mainVars == <<main, signals, STOP, INTERRUPTED, exit>>
workerVars == <<pc, rc, created, outcome>>
processVars == <<proc, ACTIVE, stopped>>
fileVars == <<tape, tmpTape, owner>>
vars == <<options, mainVars, workerVars, processVars, fileVars>>

Started == {"check", "gen", "gen_spawned", "gen_active", "gen_wait", "gen_judge",
            "run", "run_spawned", "run_active", "run_wait", "run_judge", "cleanup"}
Alive == {"generating", "starting", "opening", "writing", "engine", "hung"}
Ends == {"match", "invalid", "differ", "crash", "slow", "error", "killed", "generated"}

Futures(v, S) == {c \in Cells : pc[v][c] \in S}
AllDone(v) == Futures(v, {"done", "cancelled"}) = Cells
NoneRuns(v) == Futures(v, Started) = {}

-----------------------------------------------------------------------------
Init ==
    /\ options \in [Validators -> Options]
    /\ main = [v \in Validators |-> "submit"]
    /\ signals = [v \in Validators |-> 0]
    /\ STOP = [v \in Validators |-> FALSE]
    /\ INTERRUPTED = [v \in Validators |-> FALSE]
    /\ exit = [v \in Validators |-> "none"]
    /\ pc = [v \in Validators |-> [c \in Cells |-> "planned"]]
    /\ proc = [v \in Validators |-> [c \in Cells |-> "none"]]
    /\ ACTIVE = [v \in Validators |-> {}]
    /\ rc = [v \in Validators |-> [c \in Cells |-> "none"]]
    /\ created = [v \in Validators |-> {}]
    /\ outcome = [v \in Validators |-> [c \in Cells |-> "none"]]
    /\ tape \in [Cells -> {"none", "partial", "complete"}]
    /\ tmpTape = [v \in Validators |-> [c \in Cells |-> "none"]]
    /\ owner = [c \in Cells |-> Nobody]
    /\ stopped = [v \in Validators |-> {}]

-----------------------------------------------------------------------------
(* Processes.                                                              *)

\* kill_group: SIGKILL to the groups of cells S; a dead group is left alone.
Killed(v, S) ==
    [proc EXCEPT ![v] = [c \in Cells |-> IF c \in S /\ proc[v][c] \in Alive
                                         THEN "killed" ELSE proc[v][c]]]
KilledBySignal(v, S) ==
    stopped' = [stopped EXCEPT ![v] = @ \cup {c \in S : proc[v][c] \in Alive}]

\* The generator has opened its file and writes; the harness uses a tape that
\* exists and has one generated in place otherwise (unless the file that is
\* written there has been replaced or removed meanwhile).
Generate(v, c) ==
    /\ proc[v][c] = "generating"
    /\ \E end \in {"generated", "hung"} \cup (ProcessEnds \cap {"error"}) :
         /\ proc' = [proc EXCEPT ![v][c] = end]
         /\ tmpTape' = [tmpTape EXCEPT ![v][c] =
                          IF end = "generated" THEN "complete" ELSE "partial"]
    /\ UNCHANGED <<tape, owner>>

FindTape(v, c) ==
    /\ proc[v][c] = "starting"
    /\ IF tape[c] = "none"
         THEN /\ proc' = [proc EXCEPT ![v][c] = "writing"]
              /\ tape' = [tape EXCEPT ![c] = "partial"]
              /\ owner' = [owner EXCEPT ![c] = v]
         ELSE /\ proc' = [proc EXCEPT ![v][c] = "opening"]
              /\ UNCHANGED <<tape, owner>>
    /\ UNCHANGED tmpTape

WriteInPlace(v, c) ==
    /\ proc[v][c] = "writing"
    /\ \/ /\ proc' = [proc EXCEPT ![v][c] = "opening"]
          /\ tape' = [tape EXCEPT ![c] = IF owner[c] = v /\ @ = "partial"
                                         THEN "complete" ELSE @]
       \/ /\ "error" \in ProcessEnds
          /\ proc' = [proc EXCEPT ![v][c] = "error"]
          /\ UNCHANGED tape
    /\ UNCHANGED <<tmpTape, owner>>

\* load_workload: what is not complete cannot be read.
LoadTape(v, c) ==
    /\ proc[v][c] = "opening"
    /\ proc' = [proc EXCEPT ![v][c] = IF tape[c] = "complete" THEN "engine" ELSE "error"]
    /\ UNCHANGED fileVars

RunEngine(v, c) ==
    /\ proc[v][c] = "engine"
    /\ \E end \in ProcessEnds \cup {"hung"} : proc' = [proc EXCEPT ![v][c] = end]
    /\ UNCHANGED fileVars

Process(v, c) ==
    /\ \/ Generate(v, c) \/ FindTape(v, c) \/ WriteInPlace(v, c)
       \/ LoadTape(v, c) \/ RunEngine(v, c)
    /\ UNCHANGED <<options, mainVars, workerVars, ACTIVE, stopped>>

-----------------------------------------------------------------------------
(* A worker thread: work, run_cell and run_group.                          *)

Goto(v, c, next) == pc' = [pc EXCEPT ![v][c] = next]

\* A thread of the pool takes the next future.
SlotFreeLate(v) == Cardinality(Futures(v, Started)) <= Jobs      \* mutant
SlotFree(v) == Cardinality(Futures(v, Started)) < Jobs

Start(v, c) ==
    /\ pc[v][c] = "queued" /\ main[v] # "dead"
    /\ SlotFree(v)
    /\ Goto(v, c, IF STOP[v] THEN "done" ELSE "check")
    /\ UNCHANGED <<options, mainVars, rc, created, outcome, processVars, fileVars>>

\* A tape that is not complete is generated, under a name of its own.
CheckTape(v, c) ==
    /\ pc[v][c] = "check"
    /\ Goto(v, c, IF tape[c] = "complete" THEN "run" ELSE "gen")
    /\ UNCHANGED <<options, mainVars, rc, created, outcome, processVars, fileVars>>

\* run_group: nothing is started once a signal has come, ...
Spawn(v, c) ==
    /\ pc[v][c] \in {"gen", "run"}
    /\ LET gen == pc[v][c] = "gen" IN
       IF INTERRUPTED[v]
         THEN /\ Goto(v, c, IF gen THEN "gen_judge" ELSE "run_judge")
              /\ rc' = [rc EXCEPT ![v][c] = "none"]
              /\ UNCHANGED <<proc, tmpTape>>
         ELSE /\ Goto(v, c, IF gen THEN "gen_spawned" ELSE "run_spawned")
              /\ proc' = [proc EXCEPT ![v][c] = IF gen THEN "generating" ELSE "starting"]
              /\ tmpTape' = IF gen THEN [tmpTape EXCEPT ![v][c] = "partial"] ELSE tmpTape
              /\ UNCHANGED rc
    /\ UNCHANGED <<options, mainVars, created, outcome, ACTIVE, stopped, tape, owner>>

Register(v, c) ==
    /\ pc[v][c] \in {"gen_spawned", "run_spawned"}
    /\ Goto(v, c, IF pc[v][c] = "gen_spawned" THEN "gen_active" ELSE "run_active")
    /\ ACTIVE' = [ACTIVE EXCEPT ![v] = @ \cup {c}]
    /\ UNCHANGED <<options, mainVars, rc, created, outcome, proc, stopped, fileVars>>

\* ... and what a signal found too late for kill_active is killed here.
TrustsKillActive(v, c) == {}                                    \* mutant
FoundTooLate(v, c) == IF INTERRUPTED[v] THEN {c} ELSE {}

Recheck(v, c) ==
    /\ pc[v][c] \in {"gen_active", "run_active"}
    /\ Goto(v, c, IF pc[v][c] = "gen_active" THEN "gen_wait" ELSE "run_wait")
    /\ proc' = Killed(v, FoundTooLate(v, c))
    /\ KilledBySignal(v, FoundTooLate(v, c))
    /\ UNCHANGED <<options, mainVars, rc, created, outcome, ACTIVE, fileVars>>

\* wait() returns: no return code for a group that a signal has stopped.
KilledIsAnError(v, end) == IF end = "killed" THEN "error" ELSE end   \* mutant
ReturnCode(v, end) == IF end # "killed" THEN end
                      ELSE IF INTERRUPTED[v] THEN "none" ELSE "error"

Waited(v, c, code) ==
    /\ pc[v][c] \in {"gen_wait", "run_wait"}
    /\ Goto(v, c, IF pc[v][c] = "gen_wait" THEN "gen_judge" ELSE "run_judge")
    /\ rc' = [rc EXCEPT ![v][c] = code]
    /\ ACTIVE' = [ACTIVE EXCEPT ![v] = @ \ {c}]
    /\ UNCHANGED <<options, mainVars, created, outcome, stopped, fileVars>>

Wait(v, c) == /\ proc[v][c] \in Ends
              /\ Waited(v, c, ReturnCode(v, proc[v][c]))
              /\ UNCHANGED proc

Timeout(v, c) == /\ proc[v][c] \in Alive
                 /\ Waited(v, c, "none")
                 /\ proc' = Killed(v, {c})

\* The generated tape takes its place in one step; os.replace may also fail.
JudgeTape(v, c) ==
    /\ pc[v][c] = "gen_judge"
    /\ \/ /\ rc[v][c] = "generated"
          /\ tape' = [tape EXCEPT ![c] = "complete"]
          /\ owner' = [owner EXCEPT ![c] = v]
          /\ tmpTape' = [tmpTape EXCEPT ![v][c] = "none"]
          /\ created' = [created EXCEPT ![v] = @ \cup {c}]
          /\ Goto(v, c, "run")
          /\ UNCHANGED outcome
       \/ /\ outcome' = [outcome EXCEPT ![v][c] =
                           IF INTERRUPTED[v] THEN "NOT_RUN"
                           ELSE IF rc[v][c] = "none" THEN "TIMEOUT" ELSE "ERROR"]
          /\ Goto(v, c, "cleanup")
          /\ UNCHANGED <<created, fileVars>>
    /\ UNCHANGED <<options, mainVars, rc, processVars>>

\* The outcome, from the return code and the result file.
Verdict(v, code) ==
    CASE code = "none"    -> IF INTERRUPTED[v] THEN "NOT_RUN" ELSE "TIMEOUT"
      [] code = "slow"    -> "TIMEOUT"
      [] code = "crash"   -> "CRASH"
      [] code = "error"   -> "ERROR"
      [] code = "invalid" -> IF options[v].require_valid THEN "INVALID" ELSE "PASS"
      [] code = "match"   -> "PASS"
      [] code = "differ"  -> "FAIL"

JudgeRun(v, c) ==
    /\ pc[v][c] = "run_judge"
    /\ outcome' = [outcome EXCEPT ![v][c] = Verdict(v, rc[v][c])]
    /\ Goto(v, c, "cleanup")
    /\ UNCHANGED <<options, mainVars, rc, created, processVars, fileVars>>

\* What the cell removes when it is over, and what --fail-fast does then.
RemovesAnyTape(v, c) == ~options[v].keep_tapes                  \* mutant
RemovesTape(v, c) == c \in created[v] /\ ~options[v].keep_tapes
TmpIfCreated(v, c) == IF c \in created[v] THEN "none" ELSE tmpTape[v][c]   \* mutant
TmpLeft(v, c) == "none"

Cleanup(v, c) ==
    /\ pc[v][c] = "cleanup"
    /\ tmpTape' = [tmpTape EXCEPT ![v][c] = TmpLeft(v, c)]
    /\ tape' = IF RemovesTape(v, c) THEN [tape EXCEPT ![c] = "none"] ELSE tape
    /\ STOP' = [STOP EXCEPT ![v] =
                  @ \/ (options[v].fail_fast /\ outcome[v][c] \notin {"PASS", "NOT_RUN"})]
    /\ Goto(v, c, "done")
    /\ UNCHANGED <<options, main, signals, INTERRUPTED, exit, rc, created, outcome,
                   processVars, owner>>

Worker(v, c) ==
    \/ Start(v, c) \/ CheckTape(v, c) \/ Spawn(v, c) \/ Register(v, c) \/ Recheck(v, c)
    \/ Wait(v, c) \/ JudgeTape(v, c) \/ JudgeRun(v, c) \/ Cleanup(v, c)

-----------------------------------------------------------------------------
(* The main thread, between the points where a signal makes a difference.  *)

Cancelled(v) == [pc EXCEPT ![v] = [c \in Cells |-> IF pc[v][c] = "queued"
                                                   THEN "cancelled" ELSE pc[v][c]]]

\* The futures are submitted one by one; then the loop waits for them.
Submit(v) ==
    /\ main[v] = "submit"
    /\ \/ /\ \E c \in Futures(v, {"planned"}) : Goto(v, c, "queued")
          /\ UNCHANGED main
       \/ /\ Futures(v, {"planned"}) = {}
          /\ main' = [main EXCEPT ![v] = "wait"]
          /\ UNCHANGED pc
    /\ UNCHANGED <<STOP, INTERRUPTED, exit, proc, stopped>>

\* --fail-fast: the queued futures are cancelled.
StopQueued(v) ==
    /\ main[v] = "wait" /\ STOP[v]
    /\ Futures(v, {"queued"}) # {}
    /\ pc' = Cancelled(v)
    /\ UNCHANGED <<main, STOP, INTERRUPTED, exit, proc, stopped>>

LoopEnds(v) ==
    /\ main[v] = "wait" /\ AllDone(v)
    /\ main' = [main EXCEPT ![v] = "cancel"]
    /\ UNCHANGED <<STOP, INTERRUPTED, exit, pc, proc, stopped>>

\* The two handlers of KeyboardInterrupt.
Handle(v) ==
    /\ main[v] \in {"except", "again"}
    /\ main' = [main EXCEPT ![v] = IF main[v] = "except" THEN "cancel" ELSE "kill"]
    /\ INTERRUPTED' = [INTERRUPTED EXCEPT ![v] = TRUE]
    /\ STOP' = [STOP EXCEPT ![v] = TRUE]
    /\ UNCHANGED <<exit, pc, proc, stopped>>

CancelAll(v) ==
    /\ main[v] = "cancel"
    /\ main' = [main EXCEPT ![v] = "kill"]
    /\ pc' = Cancelled(v)
    /\ UNCHANGED <<STOP, INTERRUPTED, exit, proc, stopped>>

\* kill_active, under the lock that guards ACTIVE.
KillActive(v) ==
    /\ main[v] = "kill"
    /\ main' = [main EXCEPT ![v] = "shutdown"]
    /\ LET S == IF INTERRUPTED[v] THEN ACTIVE[v] ELSE {} IN
         proc' = Killed(v, S) /\ KilledBySignal(v, S)
    /\ UNCHANGED <<STOP, INTERRUPTED, exit, pc>>

\* ex.shutdown(wait=True).
Shutdown(v) ==
    /\ main[v] = "shutdown" /\ NoneRuns(v)
    /\ main' = [main EXCEPT ![v] = "report"]
    /\ UNCHANGED <<STOP, INTERRUPTED, exit, pc, proc, stopped>>

\* The reports and the exit code.
NothingFailed(v) ==                                             \* mutant
    \A c \in Cells : outcome[v][c] \in {"PASS", "NOT_RUN", "none"}
AllPassed(v) == /\ \A c \in Cells : outcome[v][c] = "PASS"
                /\ ~INTERRUPTED[v]

Report(v) ==
    /\ main[v] = "report"
    /\ main' = [main EXCEPT ![v] = "exit"]
    /\ exit' = [exit EXCEPT ![v] = IF AllPassed(v) THEN "0" ELSE "1"]
    /\ UNCHANGED <<STOP, INTERRUPTED, pc, proc, stopped>>

\* An exception nobody catches: the interpreter still joins the pool, which
\* works off its queue first.
Unwind(v) ==
    /\ main[v] = "unwind" /\ NoneRuns(v) /\ Futures(v, {"queued"}) = {}
    /\ main' = [main EXCEPT ![v] = "dead"]
    /\ exit' = [exit EXCEPT ![v] = "traceback"]
    /\ UNCHANGED <<STOP, INTERRUPTED, pc, proc, stopped>>

MainThread(v) ==
    /\ \/ Submit(v) \/ StopQueued(v) \/ LoopEnds(v) \/ Handle(v) \/ CancelAll(v)
       \/ KillActive(v) \/ Shutdown(v) \/ Report(v) \/ Unwind(v)
    /\ UNCHANGED <<options, signals, rc, created, outcome, ACTIVE, fileVars>>

\* A signal raises KeyboardInterrupt wherever the main thread is.
Signal(v) ==
    /\ signals[v] < MaxSignals
    /\ main[v] \notin {"unwind", "dead", "exit"}
    /\ signals' = [signals EXCEPT ![v] = @ + 1]
    /\ main' = [main EXCEPT ![v] =
                  CASE @ = "wait"                  -> "except"
                    [] @ \in {"kill", "shutdown"} -> "again"
                    [] OTHER                       -> "unwind"]
    /\ UNCHANGED <<options, STOP, INTERRUPTED, exit, workerVars, processVars, fileVars>>

Over == /\ \A v \in Validators : main[v] \in {"exit", "dead"}
        /\ UNCHANGED vars

Next == \/ \E v \in Validators : MainThread(v) \/ Signal(v)
        \/ \E v \in Validators, c \in Cells :
             Worker(v, c) \/ Timeout(v, c) \/ Process(v, c)
        \/ Over

Spec == Init /\ [][Next]_vars

\* Threads and processes are scheduled; a hung process never ends by itself, and
\* nothing is promised about how long the time limit of a cell is.
FairSpec ==
    /\ Spec
    /\ \A v \in Validators :
         /\ WF_vars(MainThread(v))
         /\ \A c \in Cells : WF_vars(Worker(v, c)) /\ WF_vars(Process(v, c))

-----------------------------------------------------------------------------
(* Properties.                                                             *)

\* Types of the variables; the pool never runs more than --jobs cells.
TypeOK ==
    /\ main \in [Validators -> {"submit", "wait", "except", "cancel", "kill", "again",
                                "shutdown", "report", "exit", "unwind", "dead"}]
    /\ pc \in [Validators -> [Cells -> Started \cup {"planned", "queued", "cancelled", "done"}]]
    /\ proc \in [Validators -> [Cells -> Alive \cup Ends \cup {"none"}]]
    /\ \A v \in Validators : /\ ACTIVE[v] \subseteq Cells
                             /\ created[v] \subseteq Cells
                             /\ Cardinality(Futures(v, Started)) <= Jobs
    /\ tape \in [Cells -> {"none", "partial", "complete"}]

\* A cell that a signal stopped is reported as not run, never as a failure of
\* the engine, whatever its threads were doing when the signal came
\* (validate_seeds.py 45-46).
StoppedIsNotFailed ==
    \A v \in Validators : \A c \in stopped[v] : outcome[v][c] \in {"none", "NOT_RUN"}

\* When the validator has reported, none of its processes runs and none of its
\* temporary tapes is left.
NothingLeftBehind ==
    \A v \in Validators : main[v] \in {"exit", "dead"} =>
        \A c \in Cells : proc[v][c] \notin Alive /\ tmpTape[v][c] = "none"

\* Exit status 0 means that the harness ran every cell to its end and found the
\* published hash, with a valid verdict where that is required
\* (validate_seeds.py 48-51).
PassedMeansAllRan ==
    \A v \in Validators : exit[v] = "0" =>
        \A c \in Cells : \/ proc[v][c] = "match"
                         \/ proc[v][c] = "invalid" /\ ~options[v].require_valid

\* A complete tape that no validator made is never removed or damaged.
ForeignTapesStay ==
    [][\A c \in Cells : tape[c] = "complete" /\ owner[c] = Nobody
                          => tape'[c] = "complete"]_tape

\* A signal that is handled ends the run although every engine hangs: no child
\* that was being started escapes both kill_active and the recheck.
StopEnds ==
    \A v \in Validators :
        INTERRUPTED[v] ~> main[v] \in {"exit", "unwind", "dead"}

\* validate_seeds.py 45-46: "Ctrl-C, SIGTERM and SIGHUP [...] stop the run:
\* running cells are killed and their files removed, and the reports are
\* written with them as not run."
SignalStopsTheRun ==
    \A v \in Validators : signals[v] > 0 ~> main[v] = "exit"

\* run_cell, validate_seeds.py 237-238: "Removes the workload file and result
\* file it created."
RemovesOnlyItsOwn ==
    [][\A v \in Validators, c \in Cells :
          pc[v][c] = "cleanup" /\ pc'[v][c] = "done" /\ tape'[c] # tape[c]
          => owner[c] = v]_vars
=============================================================================
