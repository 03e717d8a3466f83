------------------------ MODULE SeedValidator_proofs ------------------------
(***************************************************************************)
(* The seed validator stops cleanly and never passes what did not run, for *)
(* any number of validators, cells, worker threads and signals.            *)
(*                                                                         *)
(* The argument is one invariant per cell (Cell): what the state of its    *)
(* worker says of the child process, of the temporary tape, of the place   *)
(* in ACTIVE, of the return code and of the outcome, and what follows for  *)
(* a cell whose child a signal killed.  MainFits ties the main thread to   *)
(* the cells: from kill on nothing is queued, and from the report on       *)
(* nothing runs.                                                           *)
(***************************************************************************)
EXTENDS SeedValidator, TLAPS, FiniteSetTheorems

Making == {"gen_spawned", "gen_active", "gen_wait"}
Running == {"run_spawned", "run_active", "run_wait"}
Listed == {"gen_active", "gen_wait", "run_active", "run_wait"}
Judging == {"gen_judge", "run_judge"}
Settled == {"cleanup", "done"}
Before == {"planned", "queued", "cancelled", "check", "gen"}
PcStates == Started \cup {"planned", "queued", "cancelled", "done"}

GeneratorStates == {"generating", "generated", "hung", "error", "killed"}
HarnessStates == (Alive \cup Ends) \ {"generating", "generated"}
ProcStates == Alive \cup Ends \cup {"none"}
Codes == Ends \cup {"none"}
Outcomes == {"none", "NOT_RUN", "TIMEOUT", "ERROR", "CRASH", "INVALID", "PASS", "FAIL"}
TapeStates == {"none", "partial", "complete"}

Types ==
    /\ main \in [Validators -> {"submit", "wait", "except", "cancel", "kill", "again",
                                "shutdown", "report", "exit", "unwind", "dead"}]
    /\ options \in [Validators -> Options]
    /\ INTERRUPTED \in [Validators -> BOOLEAN]
    /\ exit \in [Validators -> {"none", "0", "1", "traceback"}]
    /\ pc \in [Validators -> [Cells -> PcStates]]
    /\ proc \in [Validators -> [Cells -> ProcStates]]
    /\ ACTIVE \in [Validators -> SUBSET Cells]
    /\ created \in [Validators -> SUBSET Cells]
    /\ stopped \in [Validators -> SUBSET Cells]
    /\ rc \in [Validators -> [Cells -> Codes]]
    /\ outcome \in [Validators -> [Cells -> Outcomes]]
    /\ tmpTape \in [Validators -> [Cells -> TapeStates]]
    /\ tape \in [Cells -> TapeStates]
    /\ owner \in [Cells -> Validators \cup {Nobody}]

\* The pool never runs more cells than it has threads.
PoolFits(v) == /\ IsFiniteSet(Futures(v, Started))
               /\ Cardinality(Futures(v, Started)) <= Jobs

-----------------------------------------------------------------------------
(* One cell.                                                               *)

Passed(v, c) == \/ proc[v][c] = "match"
                \/ proc[v][c] = "invalid" /\ ~options[v].require_valid

\* A child lives only while its worker starts it or waits for it.
ProcFits(v, c) ==
    /\ pc[v][c] \in Before => proc[v][c] = "none"
    /\ pc[v][c] = "run" => proc[v][c] \in {"none", "generated"}
    /\ pc[v][c] \in Making => proc[v][c] \in GeneratorStates
    /\ pc[v][c] \in Running => proc[v][c] \in HarnessStates
    /\ pc[v][c] \in Judging \cup Settled => proc[v][c] \notin Alive

TmpFits(v, c) ==
    tmpTape[v][c] = "none" \/ pc[v][c] \in Making \cup {"gen_judge", "cleanup"}

ListFits(v, c) == c \in ACTIVE[v] <=> pc[v][c] \in Listed

CodeFits(v, c) ==
    /\ pc[v][c] = "gen_judge" /\ rc[v][c] = "generated" => proc[v][c] = "generated"
    /\ pc[v][c] = "run_judge" =>
         /\ rc[v][c] \notin {"generated", "killed"}
         /\ rc[v][c] \in {"match", "invalid"} => rc[v][c] = proc[v][c]

OutcomeFits(v, c) ==
    /\ pc[v][c] \notin Settled => outcome[v][c] = "none"
    /\ outcome[v][c] = "PASS" => Passed(v, c)

\* From the kill on, the cell goes through wait and judge to NOT_RUN.
StopFits(v, c) ==
    c \in stopped[v] =>
        /\ INTERRUPTED[v]
        /\ \/ pc[v][c] \in Listed /\ proc[v][c] = "killed"
           \/ pc[v][c] \in Judging /\ rc[v][c] = "none"
           \/ pc[v][c] \in Settled /\ outcome[v][c] = "NOT_RUN"

Cell(v, c) == /\ ProcFits(v, c)
              /\ TmpFits(v, c)
              /\ ListFits(v, c)
              /\ CodeFits(v, c)
              /\ OutcomeFits(v, c)
              /\ StopFits(v, c)

MainFits(v) ==
    /\ main[v] \in {"kill", "again", "shutdown", "report", "exit", "dead"} =>
         \A c \in Cells : pc[v][c] # "queued"
    /\ main[v] \in {"report", "exit", "dead"} => \A c \in Cells : pc[v][c] \notin Started
    /\ exit[v] = "0" => main[v] = "exit" /\ \A c \in Cells : outcome[v][c] = "PASS"

\* A validator removes only tapes that some validator has made.
MadeBySomeone == \A v \in Validators : \A c \in created[v] : owner[c] # Nobody

Inv == /\ Types
       /\ MadeBySomeone
       /\ \A v \in Validators : PoolFits(v) /\ MainFits(v)
       /\ \A v \in Validators, c \in Cells : Cell(v, c)

-----------------------------------------------------------------------------
(* Steps of one cell.                                                      *)

\* What a step of worker or child c leaves alone.
Elsewhere(v, c) ==
    /\ options' = options /\ INTERRUPTED' = INTERRUPTED
    /\ main' = main /\ exit' = exit
    /\ \A w \in Validators, d \in Cells : w # v \/ d # c =>
         /\ pc'[w][d] = pc[w][d] /\ proc'[w][d] = proc[w][d]
         /\ tmpTape'[w][d] = tmpTape[w][d]
         /\ rc'[w][d] = rc[w][d] /\ outcome'[w][d] = outcome[w][d]
         /\ d \in ACTIVE'[w] <=> d \in ACTIVE[w]
         /\ d \in stopped'[w] <=> d \in stopped[w]

\* A cell stays what it is while nothing of it changes.
LEMMA CellFrame ==
    ASSUME NEW w \in Validators, NEW d \in Cells, Cell(w, d),
           pc'[w][d] = pc[w][d], proc'[w][d] = proc[w][d],
           tmpTape'[w][d] = tmpTape[w][d],
           rc'[w][d] = rc[w][d], outcome'[w][d] = outcome[w][d],
           d \in ACTIVE'[w] <=> d \in ACTIVE[w],
           d \in stopped'[w] <=> d \in stopped[w],
           options' = options, INTERRUPTED[w] => INTERRUPTED'[w]
    PROVE  Cell(w, d)'
BY DEF Cell, ProcFits, TmpFits, ListFits, CodeFits, OutcomeFits, StopFits, Passed

LEMMA OneCell ==
    ASSUME Inv, NEW v \in Validators, NEW c \in Cells, Elsewhere(v, c), Cell(v, c)'
    PROVE  \A w \in Validators, d \in Cells : Cell(w, d)'
<1> SUFFICES ASSUME NEW w \in Validators, NEW d \in Cells PROVE Cell(w, d)'
  OBVIOUS
<1>1. CASE w # v \/ d # c
  BY <1>1, CellFrame DEF Inv, Elsewhere
<1>2. CASE w = v /\ d = c
  BY <1>2
<1> QED
  BY <1>1, <1>2

\* A step of a cell that runs, or starts to run, disturbs nothing in main: the
\* main thread is not past the point from which nothing is queued or runs.
LEMMA MainUndisturbed ==
    ASSUME Inv, NEW v \in Validators, NEW c \in Cells, Elsewhere(v, c),
           pc[v][c] \in Started \cup {"queued"}, pc'[v][c] # "queued"
    PROVE  \A w \in Validators : MainFits(w)'
BY DEF Inv, MainFits, Elsewhere

\* A cell that does not start takes no thread of the pool.
LEMMA PoolShrinks ==
    ASSUME Inv,
           \A w \in Validators, d \in Cells : pc'[w][d] \in Started => pc[w][d] \in Started
    PROVE  \A w \in Validators : PoolFits(w)'
<1> SUFFICES ASSUME NEW w \in Validators PROVE PoolFits(w)'
  OBVIOUS
<1>1. Futures(w, Started)' \subseteq Futures(w, Started)
  BY DEF Futures
<1>2. IsFiniteSet(Futures(w, Started)) /\ Cardinality(Futures(w, Started)) <= Jobs
  BY DEF Inv, PoolFits
<1>3. /\ IsFiniteSet(Futures(w, Started)')
      /\ Cardinality(Futures(w, Started)') <= Cardinality(Futures(w, Started))
  BY <1>1, <1>2, FS_Subset
<1>4. /\ Cardinality(Futures(w, Started)) \in Nat
      /\ Cardinality(Futures(w, Started)') \in Nat /\ Jobs \in Nat
  BY <1>2, <1>3, FS_CardinalityType, ValidatorAssumption
<1>5. Cardinality(Futures(w, Started)') <= Jobs
  BY <1>2, <1>3, <1>4
<1> QED
  BY <1>3, <1>5 DEF PoolFits

\* One place of a table per validator and cell is written.
LEMMA Update ==
    ASSUME NEW S, NEW f \in [Validators -> [Cells -> S]],
           NEW v \in Validators, NEW c \in Cells, NEW x \in S
    PROVE  /\ [f EXCEPT ![v][c] = x] \in [Validators -> [Cells -> S]]
           /\ [f EXCEPT ![v][c] = x][v][c] = x
           /\ \A w \in Validators, d \in Cells :
                 w # v \/ d # c => [f EXCEPT ![v][c] = x][w][d] = f[w][d]
OBVIOUS

\* Killing a child of a validator.
LEMMA KillOne ==
    ASSUME Types, NEW v \in Validators, NEW S \in SUBSET Cells
    PROVE  /\ Killed(v, S) \in [Validators -> [Cells -> ProcStates]]
           /\ \A c \in Cells : Killed(v, S)[v][c] =
                 IF c \in S /\ proc[v][c] \in Alive THEN "killed" ELSE proc[v][c]
           /\ \A w \in Validators \ {v} : Killed(v, S)[w] = proc[w]
<1> DEFINE row == [c \in Cells |-> IF c \in S /\ proc[v][c] \in Alive
                                   THEN "killed" ELSE proc[v][c]]
<1>1. row \in [Cells -> ProcStates]
  BY DEF Types, ProcStates, Ends
<1>2. Killed(v, S) = [proc EXCEPT ![v] = row]
  BY DEF Killed
<1>3. \A c \in Cells : row[c] =
         IF c \in S /\ proc[v][c] \in Alive THEN "killed" ELSE proc[v][c]
  OBVIOUS
<1> HIDE DEF row
<1> QED
  BY <1>1, <1>2, <1>3 DEF Types

-----------------------------------------------------------------------------
(* The worker threads.                                                     *)

LEMMA StartKeeps ==
    ASSUME Inv, NEW v \in Validators, NEW c \in Cells, Start(v, c)
    PROVE  Inv'
<1>1. /\ pc[v][c] = "queued" /\ SlotFree(v)
      /\ pc' = [pc EXCEPT ![v][c] = IF STOP[v] THEN "done" ELSE "check"]
      /\ UNCHANGED <<options, main, INTERRUPTED, exit, rc, created, outcome, proc,
                     ACTIVE, stopped, tape, tmpTape, owner>>
  BY DEF Start, Goto, mainVars, processVars, fileVars
<1>2. /\ pc' \in [Validators -> [Cells -> PcStates]]
      /\ pc'[v][c] \in {"done", "check"}
      /\ \A w \in Validators, d \in Cells : w # v \/ d # c => pc'[w][d] = pc[w][d]
  <2> DEFINE x == IF STOP[v] THEN "done" ELSE "check"
  <2>1. x \in {"done", "check"} /\ x \in PcStates
    BY DEF PcStates, Started
  <2> HIDE DEF x
  <2> QED
    BY <1>1, <2>1, Update DEF Inv, Types, x
<1>3. Types' /\ MadeBySomeone'
  BY <1>1, <1>2 DEF Inv, Types, MadeBySomeone
<1>4. Elsewhere(v, c)
  BY <1>1, <1>2 DEF Elsewhere
<1>5. Cell(v, c)'
  <2>1. Cell(v, c)
    BY DEF Inv
  <2> QED
    BY <1>1, <1>2, <2>1
       DEF Cell, ProcFits, TmpFits, ListFits, CodeFits, OutcomeFits, StopFits, Passed,
           Before, Making, Running, Listed, Judging, Settled, Alive
<1>6. \A w \in Validators : PoolFits(w)'
  <2> SUFFICES ASSUME NEW w \in Validators PROVE PoolFits(w)'
    OBVIOUS
  <2> DEFINE F == Futures(w, Started)
  <2>1. IsFiniteSet(F) /\ Cardinality(F) <= Jobs /\ Cardinality(F) \in Nat /\ Jobs \in Nat
    BY FS_CardinalityType, ValidatorAssumption DEF Inv, PoolFits
  <2>2. Futures(w, Started)' \subseteq IF w = v THEN F \cup {c} ELSE F
    BY <1>2 DEF Futures
  <2>3. w = v => Cardinality(F) < Jobs
    BY <1>1 DEF SlotFree
  <2> HIDE DEF F
  <2>4. /\ IsFiniteSet(F \cup {c})
        /\ Cardinality(F \cup {c}) \in {Cardinality(F), Cardinality(F) + 1}
    BY <2>1, FS_AddElement
  <2>5. CASE w = v
    <3>1. /\ IsFiniteSet(Futures(w, Started)')
          /\ Cardinality(Futures(w, Started)') <= Cardinality(F \cup {c})
      BY <2>2, <2>4, <2>5, FS_Subset
    <3>2. Cardinality(Futures(w, Started)') \in Nat
      BY <3>1, FS_CardinalityType
    <3> QED
      BY <2>1, <2>3, <2>4, <2>5, <3>1, <3>2 DEF PoolFits
  <2>6. CASE w # v
    <3>1. /\ IsFiniteSet(Futures(w, Started)')
          /\ Cardinality(Futures(w, Started)') <= Cardinality(F)
      BY <2>1, <2>2, <2>6, FS_Subset
    <3>2. Cardinality(Futures(w, Started)') \in Nat
      BY <3>1, FS_CardinalityType
    <3> QED
      BY <2>1, <3>1, <3>2 DEF PoolFits
  <2> QED
    BY <2>5, <2>6
<1>7. \A w \in Validators : MainFits(w)'
  BY <1>1, <1>2, <1>4, MainUndisturbed
<1> QED
  BY <1>3, <1>4, <1>5, <1>6, <1>7, OneCell DEF Inv

\* A step of a cell that runs already: types, the cell and its place are all
\* there is to show.
LEMMA RunningCell ==
    ASSUME Inv, NEW v \in Validators, NEW c \in Cells,
           pc[v][c] \in Started, pc'[v][c] # "queued",
           Types', MadeBySomeone', Elsewhere(v, c), Cell(v, c)'
    PROVE  Inv'
<1>1. \A w \in Validators, d \in Cells : pc'[w][d] \in Started => pc[w][d] \in Started
  BY DEF Elsewhere
<1>2. \A w \in Validators : PoolFits(w)'
  BY <1>1, PoolShrinks
<1>3. \A w \in Validators : MainFits(w)'
  BY MainUndisturbed
<1> QED
  BY <1>2, <1>3, OneCell DEF Inv

LEMMA CheckTapeKeeps ==
    ASSUME Inv, NEW v \in Validators, NEW c \in Cells, CheckTape(v, c)
    PROVE  Inv'
<1> DEFINE x == IF tape[c] = "complete" THEN "run" ELSE "gen"
<1>1. /\ pc[v][c] = "check"
      /\ pc' = [pc EXCEPT ![v][c] = x]
      /\ UNCHANGED <<options, main, INTERRUPTED, exit, rc, created, outcome, proc,
                     ACTIVE, stopped, tape, tmpTape, owner>>
  BY DEF CheckTape, Goto, mainVars, processVars, fileVars
<1>2. x \in {"run", "gen"} /\ x \in PcStates
  BY DEF PcStates, Started
<1> HIDE DEF x
<1>3. /\ pc' \in [Validators -> [Cells -> PcStates]]
      /\ pc'[v][c] = x
      /\ \A w \in Validators, d \in Cells : w # v \/ d # c => pc'[w][d] = pc[w][d]
  BY <1>1, <1>2, Update DEF Inv, Types
<1>4. Types' /\ MadeBySomeone' /\ Elsewhere(v, c)
  BY <1>1, <1>3 DEF Inv, Types, MadeBySomeone, Elsewhere
<1>5. Cell(v, c)'
  <2>1. Cell(v, c)
    BY DEF Inv
  <2> QED
    BY <1>1, <1>2, <1>3, <2>1
       DEF Cell, ProcFits, TmpFits, ListFits, CodeFits, OutcomeFits, StopFits, Passed,
           Before, Making, Running, Listed, Judging, Settled, Alive
<1> QED
  BY <1>1, <1>2, <1>3, <1>4, <1>5, RunningCell DEF Started

LEMMA SpawnKeeps ==
    ASSUME Inv, NEW v \in Validators, NEW c \in Cells, Spawn(v, c)
    PROVE  Inv'
<1>1. /\ pc[v][c] \in {"gen", "run"}
      /\ UNCHANGED <<options, main, INTERRUPTED, exit, created, outcome, ACTIVE,
                     stopped, tape, owner>>
  BY DEF Spawn, mainVars
<1>2. Cell(v, c)
  BY DEF Inv
<1>3. CASE INTERRUPTED[v]
  <2> DEFINE x == IF pc[v][c] = "gen" THEN "gen_judge" ELSE "run_judge"
  <2>1. /\ pc' = [pc EXCEPT ![v][c] = x] /\ rc' = [rc EXCEPT ![v][c] = "none"]
        /\ proc' = proc /\ tmpTape' = tmpTape
    BY <1>3 DEF Spawn, Goto
  <2>2. x \in PcStates /\ "none" \in Codes
    BY DEF PcStates, Started, Codes
  <2> HIDE DEF x
  <2>3. /\ pc' \in [Validators -> [Cells -> PcStates]]
        /\ pc'[v][c] = x
        /\ \A w \in Validators, d \in Cells : w # v \/ d # c => pc'[w][d] = pc[w][d]
    BY <2>1, <2>2, Update DEF Inv, Types
  <2>4. /\ rc' \in [Validators -> [Cells -> Codes]]
        /\ rc'[v][c] = "none"
        /\ \A w \in Validators, d \in Cells : w # v \/ d # c => rc'[w][d] = rc[w][d]
    BY <2>1, <2>2, Update DEF Inv, Types
  <2>5. Types' /\ MadeBySomeone' /\ Elsewhere(v, c)
    BY <1>1, <2>1, <2>3, <2>4 DEF Inv, Types, MadeBySomeone, Elsewhere
  <2>6. Cell(v, c)'
    BY <1>1, <1>2, <2>1, <2>3, <2>4
       DEF x, Cell, ProcFits, TmpFits, ListFits, CodeFits, OutcomeFits, StopFits, Passed,
           Before, Making, Running, Listed, Judging, Settled, Alive
  <2> QED
    BY <1>1, <2>3, <2>5, <2>6, RunningCell DEF Started, x
<1>4. CASE ~INTERRUPTED[v] /\ pc[v][c] = "gen"
  <2>1. /\ pc' = [pc EXCEPT ![v][c] = "gen_spawned"]
        /\ proc' = [proc EXCEPT ![v][c] = "generating"]
        /\ tmpTape' = [tmpTape EXCEPT ![v][c] = "partial"] /\ rc' = rc
    BY <1>4 DEF Spawn, Goto
  <2>2. "gen_spawned" \in PcStates /\ "generating" \in ProcStates /\ "partial" \in TapeStates
    BY DEF PcStates, Started, ProcStates, Alive, TapeStates
  <2>3. /\ pc' \in [Validators -> [Cells -> PcStates]]
        /\ pc'[v][c] = "gen_spawned"
        /\ \A w \in Validators, d \in Cells : w # v \/ d # c => pc'[w][d] = pc[w][d]
    BY <2>1, <2>2, Update DEF Inv, Types
  <2>4. /\ proc' \in [Validators -> [Cells -> ProcStates]]
        /\ proc'[v][c] = "generating"
        /\ \A w \in Validators, d \in Cells : w # v \/ d # c => proc'[w][d] = proc[w][d]
    BY <2>1, <2>2, Update DEF Inv, Types
  <2>5. /\ tmpTape' \in [Validators -> [Cells -> TapeStates]]
        /\ \A w \in Validators, d \in Cells :
              w # v \/ d # c => tmpTape'[w][d] = tmpTape[w][d]
    BY <2>1, <2>2, Update DEF Inv, Types
  <2>6. Types' /\ MadeBySomeone' /\ Elsewhere(v, c)
    BY <1>1, <2>1, <2>3, <2>4, <2>5 DEF Inv, Types, MadeBySomeone, Elsewhere
  <2>7. Cell(v, c)'
    BY <1>1, <1>2, <1>4, <2>1, <2>3, <2>4
       DEF Cell, ProcFits, TmpFits, ListFits, CodeFits, OutcomeFits, StopFits, Passed,
           Before, Making, Running, Listed, Judging, Settled, Alive, GeneratorStates
  <2> QED
    BY <1>1, <2>3, <2>6, <2>7, RunningCell DEF Started
<1>5. CASE ~INTERRUPTED[v] /\ pc[v][c] = "run"
  <2>1. /\ pc' = [pc EXCEPT ![v][c] = "run_spawned"]
        /\ proc' = [proc EXCEPT ![v][c] = "starting"]
        /\ tmpTape' = tmpTape /\ rc' = rc
    BY <1>5 DEF Spawn, Goto
  <2>2. "run_spawned" \in PcStates /\ "starting" \in ProcStates
    BY DEF PcStates, Started, ProcStates, Alive
  <2>3. /\ pc' \in [Validators -> [Cells -> PcStates]]
        /\ pc'[v][c] = "run_spawned"
        /\ \A w \in Validators, d \in Cells : w # v \/ d # c => pc'[w][d] = pc[w][d]
    BY <2>1, <2>2, Update DEF Inv, Types
  <2>4. /\ proc' \in [Validators -> [Cells -> ProcStates]]
        /\ proc'[v][c] = "starting"
        /\ \A w \in Validators, d \in Cells : w # v \/ d # c => proc'[w][d] = proc[w][d]
    BY <2>1, <2>2, Update DEF Inv, Types
  <2>5. Types' /\ MadeBySomeone' /\ Elsewhere(v, c)
    BY <1>1, <2>1, <2>3, <2>4 DEF Inv, Types, MadeBySomeone, Elsewhere
  <2>6. Cell(v, c)'
    BY <1>1, <1>2, <1>5, <2>1, <2>3, <2>4
       DEF Cell, ProcFits, TmpFits, ListFits, CodeFits, OutcomeFits, StopFits, Passed,
           Before, Making, Running, Listed, Judging, Settled, Alive, Ends, HarnessStates
  <2> QED
    BY <1>1, <2>3, <2>5, <2>6, RunningCell DEF Started
<1> QED
  BY <1>1, <1>3, <1>4, <1>5

LEMMA RegisterKeeps ==
    ASSUME Inv, NEW v \in Validators, NEW c \in Cells, Register(v, c)
    PROVE  Inv'
<1> DEFINE x == IF pc[v][c] = "gen_spawned" THEN "gen_active" ELSE "run_active"
<1>1. /\ pc[v][c] \in {"gen_spawned", "run_spawned"}
      /\ pc' = [pc EXCEPT ![v][c] = x]
      /\ ACTIVE' = [ACTIVE EXCEPT ![v] = @ \cup {c}]
      /\ UNCHANGED <<options, main, INTERRUPTED, exit, rc, created, outcome, proc,
                     stopped, tape, tmpTape, owner>>
  BY DEF Register, Goto, mainVars, fileVars
<1>2. x \in PcStates
  BY DEF PcStates, Started
<1> HIDE DEF x
<1>3. /\ pc' \in [Validators -> [Cells -> PcStates]]
      /\ pc'[v][c] = x
      /\ \A w \in Validators, d \in Cells : w # v \/ d # c => pc'[w][d] = pc[w][d]
  BY <1>1, <1>2, Update DEF Inv, Types
<1>4. /\ ACTIVE' \in [Validators -> SUBSET Cells] /\ c \in ACTIVE'[v]
      /\ \A w \in Validators, d \in Cells :
            w # v \/ d # c => (d \in ACTIVE'[w] <=> d \in ACTIVE[w])
  BY <1>1 DEF Inv, Types
<1>5. Types' /\ MadeBySomeone' /\ Elsewhere(v, c)
  BY <1>1, <1>3, <1>4 DEF Inv, Types, MadeBySomeone, Elsewhere
<1>6. Cell(v, c)'
  <2>1. Cell(v, c)
    BY DEF Inv
  <2> QED
    BY <1>1, <1>3, <1>4, <2>1
       DEF x, Cell, ProcFits, TmpFits, ListFits, CodeFits, OutcomeFits, StopFits, Passed,
           Before, Making, Running, Listed, Judging, Settled, Alive
<1> QED
  BY <1>1, <1>3, <1>5, <1>6, RunningCell DEF Started, x

LEMMA RecheckKeeps ==
    ASSUME Inv, NEW v \in Validators, NEW c \in Cells, Recheck(v, c)
    PROVE  Inv'
<1> DEFINE x == IF pc[v][c] = "gen_active" THEN "gen_wait" ELSE "run_wait"
           S == FoundTooLate(v, c)
<1>1. /\ pc[v][c] \in {"gen_active", "run_active"}
      /\ pc' = [pc EXCEPT ![v][c] = x]
      /\ proc' = Killed(v, S)
      /\ stopped' = [stopped EXCEPT ![v] = @ \cup {d \in S : proc[v][d] \in Alive}]
      /\ UNCHANGED <<options, main, INTERRUPTED, exit, rc, created, outcome,
                     ACTIVE, tape, tmpTape, owner>>
  BY DEF Recheck, Goto, KilledBySignal, mainVars, fileVars
<1>2. x \in PcStates /\ S \in SUBSET Cells /\ (c \in S <=> INTERRUPTED[v]) /\ S \subseteq {c}
  BY DEF PcStates, Started, FoundTooLate
<1> HIDE DEF x, S
<1>3. /\ pc' \in [Validators -> [Cells -> PcStates]]
      /\ pc'[v][c] = x
      /\ \A w \in Validators, d \in Cells : w # v \/ d # c => pc'[w][d] = pc[w][d]
  BY <1>1, <1>2, Update DEF Inv, Types
<1>4. /\ proc' \in [Validators -> [Cells -> ProcStates]]
      /\ proc'[v][c] = IF INTERRUPTED[v] /\ proc[v][c] \in Alive THEN "killed" ELSE proc[v][c]
      /\ \A w \in Validators, d \in Cells : w # v \/ d # c => proc'[w][d] = proc[w][d]
  BY <1>1, <1>2, KillOne DEF Inv
<1>5. /\ stopped' \in [Validators -> SUBSET Cells]
      /\ c \in stopped'[v] => c \in stopped[v] \/ (INTERRUPTED[v] /\ proc[v][c] \in Alive)
      /\ \A w \in Validators, d \in Cells :
            w # v \/ d # c => (d \in stopped'[w] <=> d \in stopped[w])
  BY <1>1, <1>2 DEF Inv, Types
<1>6. Types' /\ MadeBySomeone' /\ Elsewhere(v, c)
  BY <1>1, <1>3, <1>4, <1>5 DEF Inv, Types, MadeBySomeone, Elsewhere
<1>7. Cell(v, c)'
  <2>1. Cell(v, c)
    BY DEF Inv
  <2>2. proc'[v][c] \in {"killed", proc[v][c]}
    BY <1>4
  <2>3. \/ pc[v][c] = "gen_active" /\ pc'[v][c] = "gen_wait"
        \/ pc[v][c] = "run_active" /\ pc'[v][c] = "run_wait"
    BY <1>1, <1>3 DEF x
  <2>4. ProcFits(v, c)' /\ TmpFits(v, c)' /\ ListFits(v, c)' /\ CodeFits(v, c)'
    BY <1>1, <2>1, <2>2, <2>3
       DEF Cell, ProcFits, TmpFits, ListFits, CodeFits,
           Before, Making, Running, Listed, Judging, Settled, Alive, Ends,
           GeneratorStates, HarnessStates
  <2>5. OutcomeFits(v, c)'
    BY <1>1, <2>1, <2>3 DEF Cell, OutcomeFits, Settled
  <2>6. StopFits(v, c)'
    BY <1>1, <1>4, <1>5, <2>1, <2>3
       DEF Cell, StopFits, Listed, Judging, Settled, Alive
  <2> QED
    BY <2>4, <2>5, <2>6 DEF Cell
<1> QED
  BY <1>1, <1>3, <1>6, <1>7, RunningCell DEF Started, x

\* wait() returns, with an end of its own or after a timeout.
LEMMA WaitedKeeps ==
    ASSUME Inv, NEW v \in Validators, NEW c \in Cells, Wait(v, c) \/ Timeout(v, c)
    PROVE  Inv'
<1> DEFINE x == IF pc[v][c] = "gen_wait" THEN "gen_judge" ELSE "run_judge"
<1>1. PICK code \in Codes :
        /\ Waited(v, c, code)
        /\ \/ /\ proc' = proc /\ proc[v][c] \in Ends
              /\ code = ReturnCode(v, proc[v][c])
           \/ /\ proc' = Killed(v, {c}) /\ proc[v][c] \in Alive /\ code = "none"
  <2>1. \A end \in Ends : ReturnCode(v, end) \in Codes
    BY DEF ReturnCode, Codes, Ends
  <2>2. "none" \in Codes
    BY DEF Codes
  <2> QED
    BY <2>1, <2>2 DEF Wait, Timeout
<1>2. /\ pc[v][c] \in {"gen_wait", "run_wait"}
      /\ pc' = [pc EXCEPT ![v][c] = x]
      /\ rc' = [rc EXCEPT ![v][c] = code]
      /\ ACTIVE' = [ACTIVE EXCEPT ![v] = @ \ {c}]
      /\ UNCHANGED <<options, main, INTERRUPTED, exit, created, outcome, stopped,
                     tape, tmpTape, owner>>
  BY <1>1 DEF Waited, Goto, mainVars, fileVars
<1>3. x \in PcStates
  BY DEF PcStates, Started
<1> HIDE DEF x
<1>4. /\ pc' \in [Validators -> [Cells -> PcStates]]
      /\ pc'[v][c] = x
      /\ \A w \in Validators, d \in Cells : w # v \/ d # c => pc'[w][d] = pc[w][d]
  BY <1>2, <1>3, Update DEF Inv, Types
<1>5. /\ rc' \in [Validators -> [Cells -> Codes]]
      /\ rc'[v][c] = code
      /\ \A w \in Validators, d \in Cells : w # v \/ d # c => rc'[w][d] = rc[w][d]
  BY <1>1, <1>2, Update DEF Inv, Types
<1>6. /\ ACTIVE' \in [Validators -> SUBSET Cells] /\ c \notin ACTIVE'[v]
      /\ \A w \in Validators, d \in Cells :
            w # v \/ d # c => (d \in ACTIVE'[w] <=> d \in ACTIVE[w])
  BY <1>2 DEF Inv, Types
<1>7. /\ proc' \in [Validators -> [Cells -> ProcStates]]
      /\ \/ proc'[v][c] = proc[v][c] /\ proc[v][c] \in Ends /\ code = ReturnCode(v, proc[v][c])
         \/ proc'[v][c] = "killed" /\ proc[v][c] \in Alive /\ code = "none"
      /\ \A w \in Validators, d \in Cells : w # v \/ d # c => proc'[w][d] = proc[w][d]
  <2>1. CASE /\ proc' = proc /\ proc[v][c] \in Ends
             /\ code = ReturnCode(v, proc[v][c])
    BY <2>1 DEF Inv, Types
  <2>2. CASE proc' = Killed(v, {c}) /\ proc[v][c] \in Alive /\ code = "none"
    <3>1. {c} \in SUBSET Cells /\ Types
      BY DEF Inv
    <3> QED
      BY <2>2, <3>1, KillOne
  <2> QED
    BY <1>1, <2>1, <2>2
<1>8. Types' /\ MadeBySomeone' /\ Elsewhere(v, c)
  BY <1>2, <1>4, <1>5, <1>6, <1>7 DEF Inv, Types, MadeBySomeone, Elsewhere
<1>9. Cell(v, c)'
  <2>1. Cell(v, c)
    BY DEF Inv
  <2>2. \/ pc[v][c] = "gen_wait" /\ pc'[v][c] = "gen_judge"
        \/ pc[v][c] = "run_wait" /\ pc'[v][c] = "run_judge"
    BY <1>2, <1>4 DEF x
  <2>3. ProcFits(v, c)'
    BY <1>7, <2>2 DEF ProcFits, Before, Making, Running, Judging, Settled, Alive, Ends
  <2>4. TmpFits(v, c)' /\ ListFits(v, c)'
    BY <1>2, <1>6, <2>1, <2>2 DEF Cell, TmpFits, ListFits, Making, Listed
  <2>5. CodeFits(v, c)'
    BY <1>5, <1>7, <2>1, <2>2
       DEF Cell, ProcFits, CodeFits, ReturnCode, Making, Running, Alive, Ends,
           GeneratorStates, HarnessStates
  <2>6. OutcomeFits(v, c)'
    BY <1>2, <2>1, <2>2 DEF Cell, OutcomeFits, Settled
  <2>7. StopFits(v, c)'
    BY <1>2, <1>5, <1>7, <2>1, <2>2
       DEF Cell, StopFits, ReturnCode, Listed, Judging, Settled, Alive
  <2> QED
    BY <2>3, <2>4, <2>5, <2>6, <2>7 DEF Cell
<1> QED
  BY <1>2, <1>4, <1>8, <1>9, RunningCell DEF Started, x
\* A generated tape takes its place, or the cell is over.
LEMMA JudgeTapeKeeps ==
    ASSUME Inv, NEW v \in Validators, NEW c \in Cells, JudgeTape(v, c)
    PROVE  Inv'
<1>1. /\ pc[v][c] = "gen_judge"
      /\ UNCHANGED <<options, main, INTERRUPTED, exit, rc, proc, ACTIVE, stopped>>
  BY DEF JudgeTape, mainVars, processVars
<1>2. Cell(v, c)
  BY DEF Inv
<1>3. CASE rc[v][c] = "generated" /\ pc' = [pc EXCEPT ![v][c] = "run"]
           /\ tape' = [tape EXCEPT ![c] = "complete"] /\ owner' = [owner EXCEPT ![c] = v]
           /\ tmpTape' = [tmpTape EXCEPT ![v][c] = "none"]
           /\ created' = [created EXCEPT ![v] = @ \cup {c}] /\ outcome' = outcome
  <2>1. "run" \in PcStates /\ "none" \in TapeStates /\ "complete" \in TapeStates
    BY DEF PcStates, Started, TapeStates
  <2>2. /\ pc' \in [Validators -> [Cells -> PcStates]]
        /\ pc'[v][c] = "run"
        /\ \A w \in Validators, d \in Cells : w # v \/ d # c => pc'[w][d] = pc[w][d]
    BY <1>3, <2>1, Update DEF Inv, Types
  <2>3. /\ tmpTape' \in [Validators -> [Cells -> TapeStates]]
        /\ tmpTape'[v][c] = "none"
        /\ \A w \in Validators, d \in Cells :
              w # v \/ d # c => tmpTape'[w][d] = tmpTape[w][d]
    BY <1>3, <2>1, Update DEF Inv, Types
  <2>4. /\ tape' \in [Cells -> TapeStates] /\ owner' \in [Cells -> Validators \cup {Nobody}]
        /\ created' \in [Validators -> SUBSET Cells]
    BY <1>3, <2>1 DEF Inv, Types
  <2>5. MadeBySomeone'
    BY <1>3, ValidatorAssumption DEF Inv, Types, MadeBySomeone
  <2>6. Types' /\ Elsewhere(v, c)
    BY <1>1, <1>3, <2>2, <2>3, <2>4 DEF Inv, Types, Elsewhere
  <2>7. Cell(v, c)'
    BY <1>1, <1>2, <1>3, <2>2, <2>3
       DEF Cell, ProcFits, TmpFits, ListFits, CodeFits, OutcomeFits, StopFits, Passed,
           Before, Making, Running, Listed, Judging, Settled, Alive
  <2> QED
    BY <1>1, <2>2, <2>5, <2>6, <2>7, RunningCell DEF Started
<1>4. CASE /\ pc' = [pc EXCEPT ![v][c] = "cleanup"]
           /\ outcome' = [outcome EXCEPT ![v][c] =
                            IF INTERRUPTED[v] THEN "NOT_RUN"
                            ELSE IF rc[v][c] = "none" THEN "TIMEOUT" ELSE "ERROR"]
           /\ UNCHANGED <<created, tape, tmpTape, owner>>
  <2> DEFINE x == IF INTERRUPTED[v] THEN "NOT_RUN"
                  ELSE IF rc[v][c] = "none" THEN "TIMEOUT" ELSE "ERROR"
  <2>1. "cleanup" \in PcStates /\ x \in Outcomes /\ x \notin {"none", "PASS"}
    BY DEF PcStates, Started, Outcomes
  <2>2. INTERRUPTED[v] => x = "NOT_RUN"
    OBVIOUS
  <2>3. outcome' = [outcome EXCEPT ![v][c] = x]
    BY <1>4
  <2> HIDE DEF x
  <2>4. /\ pc' \in [Validators -> [Cells -> PcStates]]
        /\ pc'[v][c] = "cleanup"
        /\ \A w \in Validators, d \in Cells : w # v \/ d # c => pc'[w][d] = pc[w][d]
    BY <1>4, <2>1, Update DEF Inv, Types
  <2>5. /\ outcome' \in [Validators -> [Cells -> Outcomes]]
        /\ outcome'[v][c] = x
        /\ \A w \in Validators, d \in Cells :
              w # v \/ d # c => outcome'[w][d] = outcome[w][d]
    BY <2>1, <2>3, Update DEF Inv, Types
  <2>6. Types' /\ MadeBySomeone' /\ Elsewhere(v, c)
    BY <1>1, <1>4, <2>4, <2>5 DEF Inv, Types, MadeBySomeone, Elsewhere
  <2>7. Cell(v, c)'
    BY <1>1, <1>2, <1>4, <2>1, <2>2, <2>4, <2>5
       DEF Cell, ProcFits, TmpFits, ListFits, CodeFits, OutcomeFits, StopFits, Passed,
           Before, Making, Running, Listed, Judging, Settled, Alive
  <2> QED
    BY <1>1, <2>4, <2>6, <2>7, RunningCell DEF Started
<1> QED
  BY <1>3, <1>4 DEF JudgeTape, Goto, fileVars

\* The verdict is PASS only for a harness that ended as a pass does, and NOT_RUN
\* for one that a signal stopped.
LEMMA VerdictFits ==
    ASSUME NEW v \in Validators, NEW code \in Codes \ {"generated", "killed"}
    PROVE  /\ Verdict(v, code) \in Outcomes \ {"none"}
           /\ Verdict(v, code) = "PASS" =>
                \/ code = "match"
                \/ code = "invalid" /\ ~options[v].require_valid
           /\ INTERRUPTED[v] /\ code = "none" => Verdict(v, code) = "NOT_RUN"
<1>1. code \in {"none", "slow", "crash", "error", "invalid", "match", "differ"}
  BY DEF Codes, Ends
<1> QED
  BY <1>1 DEF Verdict, Outcomes

LEMMA JudgeRunKeeps ==
    ASSUME Inv, NEW v \in Validators, NEW c \in Cells, JudgeRun(v, c)
    PROVE  Inv'
<1> DEFINE x == Verdict(v, rc[v][c])
<1>1. /\ pc[v][c] = "run_judge"
      /\ pc' = [pc EXCEPT ![v][c] = "cleanup"]
      /\ outcome' = [outcome EXCEPT ![v][c] = x]
      /\ UNCHANGED <<options, main, INTERRUPTED, exit, rc, created, proc, ACTIVE,
                     stopped, tape, tmpTape, owner>>
  BY DEF JudgeRun, Goto, mainVars, processVars, fileVars
<1>2. Cell(v, c)
  BY DEF Inv
<1>3. rc[v][c] \in Codes \ {"generated", "killed"}
  BY <1>1, <1>2 DEF Inv, Types, Cell, CodeFits
<1>4. /\ x \in Outcomes \ {"none"} /\ "cleanup" \in PcStates
      /\ x = "PASS" => \/ rc[v][c] = "match"
                       \/ rc[v][c] = "invalid" /\ ~options[v].require_valid
      /\ INTERRUPTED[v] /\ rc[v][c] = "none" => x = "NOT_RUN"
  BY <1>3, VerdictFits DEF PcStates, Started
<1> HIDE DEF x
<1>5. /\ pc' \in [Validators -> [Cells -> PcStates]]
      /\ pc'[v][c] = "cleanup"
      /\ \A w \in Validators, d \in Cells : w # v \/ d # c => pc'[w][d] = pc[w][d]
  BY <1>1, <1>4, Update DEF Inv, Types
<1>6. /\ outcome' \in [Validators -> [Cells -> Outcomes]]
      /\ outcome'[v][c] = x
      /\ \A w \in Validators, d \in Cells :
            w # v \/ d # c => outcome'[w][d] = outcome[w][d]
  BY <1>1, <1>4, Update DEF Inv, Types
<1>7. Types' /\ MadeBySomeone' /\ Elsewhere(v, c)
  BY <1>1, <1>5, <1>6 DEF Inv, Types, MadeBySomeone, Elsewhere
<1>8. Cell(v, c)'
  BY <1>1, <1>2, <1>4, <1>5, <1>6
     DEF Cell, ProcFits, TmpFits, ListFits, CodeFits, OutcomeFits, StopFits, Passed,
         Before, Making, Running, Listed, Judging, Settled, Alive
<1> QED
  BY <1>1, <1>5, <1>7, <1>8, RunningCell DEF Started

LEMMA CleanupKeeps ==
    ASSUME Inv, NEW v \in Validators, NEW c \in Cells, Cleanup(v, c)
    PROVE  Inv'
<1>1. /\ pc[v][c] = "cleanup"
      /\ pc' = [pc EXCEPT ![v][c] = "done"]
      /\ tmpTape' = [tmpTape EXCEPT ![v][c] = "none"]
      /\ tape' = [tape EXCEPT ![c] = "none"] \/ tape' = tape
      /\ UNCHANGED <<options, main, INTERRUPTED, exit, rc, created, outcome, proc,
                     ACTIVE, stopped, owner>>
  BY DEF Cleanup, Goto, TmpLeft, processVars
<1>2. "done" \in PcStates /\ "none" \in TapeStates
  BY DEF PcStates, TapeStates
<1>3. /\ pc' \in [Validators -> [Cells -> PcStates]]
      /\ pc'[v][c] = "done"
      /\ \A w \in Validators, d \in Cells : w # v \/ d # c => pc'[w][d] = pc[w][d]
  BY <1>1, <1>2, Update DEF Inv, Types
<1>4. /\ tmpTape' \in [Validators -> [Cells -> TapeStates]]
      /\ tmpTape'[v][c] = "none"
      /\ \A w \in Validators, d \in Cells :
            w # v \/ d # c => tmpTape'[w][d] = tmpTape[w][d]
  BY <1>1, <1>2, Update DEF Inv, Types
<1>5. tape' \in [Cells -> TapeStates]
  BY <1>1, <1>2 DEF Inv, Types
<1>6. Types' /\ MadeBySomeone' /\ Elsewhere(v, c)
  BY <1>1, <1>3, <1>4, <1>5 DEF Inv, Types, MadeBySomeone, Elsewhere
<1>7. Cell(v, c)'
  <2>1. Cell(v, c)
    BY DEF Inv
  <2> QED
    BY <1>1, <1>3, <1>4, <2>1
       DEF Cell, ProcFits, TmpFits, ListFits, CodeFits, OutcomeFits, StopFits, Passed,
           Before, Making, Running, Listed, Judging, Settled, Alive
<1> QED
  BY <1>1, <1>3, <1>6, <1>7, RunningCell DEF Started

-----------------------------------------------------------------------------
(* The child processes.                                                    *)

\* A step of a child: the child stays one of its kind, or ends.
LEMMA ProcessKeeps ==
    ASSUME Inv, NEW v \in Validators, NEW c \in Cells, Process(v, c)
    PROVE  Inv'
<1>1. UNCHANGED <<options, main, INTERRUPTED, exit, pc, rc, created, outcome, ACTIVE, stopped>>
  BY DEF Process, mainVars, workerVars
<1>2. Cell(v, c) /\ proc[v][c] \in Alive \ {"hung"}
  BY DEF Inv, Process, Generate, FindTape, WriteInPlace, LoadTape, RunEngine, Alive
<1>3. pc[v][c] \in Making \cup Running
  <2>1. pc[v][c] \in PcStates
    BY DEF Inv, Types
  <2> QED
    BY <1>2, <2>1 DEF Cell, ProcFits, PcStates, Started, Before, Making, Running, Judging,
                      Settled, Alive
<1>4. PICK x \in ProcStates :
        /\ proc' = [proc EXCEPT ![v][c] = x]
        /\ proc[v][c] = "generating" => x \in {"generated", "hung", "error"}
        /\ proc[v][c] # "generating" => x \in HarnessStates \ {"killed"}
  <2>1. /\ HarnessStates \subseteq ProcStates
        /\ {"generated", "hung", "error"} \subseteq ProcStates
        /\ {"writing", "opening", "error", "engine", "hung"} \subseteq HarnessStates \ {"killed"}
    BY DEF HarnessStates, ProcStates, Alive, Ends
  <2>2. ProcessEnds \cup {"hung"} \subseteq HarnessStates \ {"killed"}
    BY ValidatorAssumption DEF HarnessStates, Alive, Ends
  <2>3. CASE Generate(v, c)
    BY <2>1, <2>3 DEF Generate
  <2>4. CASE FindTape(v, c)
    BY <2>1, <2>4 DEF FindTape
  <2>5. CASE WriteInPlace(v, c)
    BY <2>1, <2>5 DEF WriteInPlace
  <2>6. CASE LoadTape(v, c)
    BY <2>1, <2>6 DEF LoadTape
  <2>7. CASE RunEngine(v, c)
    BY <2>1, <2>2, <2>7 DEF RunEngine
  <2> QED
    BY <2>3, <2>4, <2>5, <2>6, <2>7 DEF Process
<1>5. /\ proc' \in [Validators -> [Cells -> ProcStates]]
      /\ proc'[v][c] = x
      /\ \A w \in Validators, d \in Cells : w # v \/ d # c => proc'[w][d] = proc[w][d]
  BY <1>4, Update DEF Inv, Types
<1>6. /\ tmpTape' \in [Validators -> [Cells -> TapeStates]]
      /\ tmpTape'[v][c] # tmpTape[v][c] => proc[v][c] = "generating"
      /\ \A w \in Validators, d \in Cells :
            w # v \/ d # c => tmpTape'[w][d] = tmpTape[w][d]
  <2>1. CASE Generate(v, c)
    <3>1. PICK y \in TapeStates : tmpTape' = [tmpTape EXCEPT ![v][c] = y]
      BY <2>1 DEF Generate, TapeStates
    <3> QED
      BY <2>1, <3>1, Update DEF Inv, Types, Generate
  <2>2. CASE tmpTape' = tmpTape
    BY <2>2 DEF Inv, Types
  <2> QED
    BY <2>1, <2>2 DEF Process, FindTape, WriteInPlace, LoadTape, RunEngine, fileVars
<1>7. /\ tape' \in [Cells -> TapeStates] /\ owner' \in [Cells -> Validators \cup {Nobody}]
      /\ MadeBySomeone'
  <2>1. CASE FindTape(v, c)
    <3>1. \/ tape' = [tape EXCEPT ![c] = "partial"] /\ owner' = [owner EXCEPT ![c] = v]
          \/ tape' = tape /\ owner' = owner
      BY <2>1 DEF FindTape
    <3>2. CASE tape' = [tape EXCEPT ![c] = "partial"] /\ owner' = [owner EXCEPT ![c] = v]
      <4>1. tape' \in [Cells -> TapeStates] /\ owner' \in [Cells -> Validators \cup {Nobody}]
        BY <3>2 DEF Inv, Types, TapeStates
      <4>2. v # Nobody
        BY ValidatorAssumption
      <4>3. MadeBySomeone'
        BY <1>1, <3>2, <4>2 DEF Inv, Types, MadeBySomeone
      <4> QED
        BY <4>1, <4>3
    <3>3. CASE tape' = tape /\ owner' = owner
      BY <1>1, <3>3 DEF Inv, Types, MadeBySomeone
    <3> QED
      BY <3>1, <3>2, <3>3
  <2>2. CASE WriteInPlace(v, c)
    BY <1>1, <2>2 DEF WriteInPlace, Inv, Types, TapeStates, MadeBySomeone
  <2>3. CASE tape' = tape /\ owner' = owner
    BY <1>1, <2>3 DEF Inv, Types, MadeBySomeone
  <2> QED
    BY <2>1, <2>2, <2>3 DEF Process, Generate, LoadTape, RunEngine, fileVars
<1>8. Types' /\ Elsewhere(v, c)
  BY <1>1, <1>5, <1>6, <1>7 DEF Inv, Types, Elsewhere
<1>9. Cell(v, c)'
  <2>1. proc[v][c] = "generating" => pc[v][c] \in Making
    BY <1>2, <1>3 DEF Cell, ProcFits, Making, Running, HarnessStates
  <2>2. pc[v][c] \in Making => x \in GeneratorStates
    BY <1>2, <1>4 DEF Cell, ProcFits, GeneratorStates, Alive
  <2>3. ProcFits(v, c)'
    BY <1>1, <1>2, <1>3, <1>4, <1>5, <2>1, <2>2
       DEF Cell, ProcFits, Before, Making, Running, Judging, Settled, HarnessStates
  <2>4. TmpFits(v, c)'
    BY <1>1, <1>2, <1>6, <2>1 DEF Cell, TmpFits
  <2>5. ListFits(v, c)'
    BY <1>1, <1>2 DEF Cell, ListFits
  <2>6. CodeFits(v, c)' /\ OutcomeFits(v, c)'
    BY <1>1, <1>2, <1>3
       DEF Cell, CodeFits, OutcomeFits, Making, Running, Settled
  <2>7. StopFits(v, c)'
    BY <1>1, <1>2, <1>3
       DEF Cell, StopFits, Making, Running, Judging, Settled, Listed, Alive
  <2> QED
    BY <2>3, <2>4, <2>5, <2>6, <2>7 DEF Cell
<1> QED
  BY <1>1, <1>3, <1>7, <1>8, <1>9, RunningCell DEF Started, Making, Running
-----------------------------------------------------------------------------
(* The main thread and the signals.                                        *)

MainStates == {"submit", "wait", "except", "cancel", "kill", "again",
               "shutdown", "report", "exit", "unwind", "dead"}

\* What no step of a main thread, and no signal, touches.
Untouched == UNCHANGED <<options, rc, created, outcome, ACTIVE, tape, tmpTape, owner>>

\* What a main thread step of v leaves alone of the other validators.
OthersRest(v) ==
    \A w \in Validators \ {v} :
        /\ main'[w] = main[w] /\ exit'[w] = exit[w]
        /\ INTERRUPTED'[w] = INTERRUPTED[w]
        /\ pc'[w] = pc[w] /\ proc'[w] = proc[w] /\ stopped'[w] = stopped[w]

\* The types after such a step, from what the step writes.
LEMMA MainTypes ==
    ASSUME Inv, Untouched, main' \in [Validators -> MainStates],
           INTERRUPTED' \in [Validators -> BOOLEAN],
           exit' \in [Validators -> {"none", "0", "1", "traceback"}],
           pc' \in [Validators -> [Cells -> PcStates]],
           proc' \in [Validators -> [Cells -> ProcStates]],
           stopped' \in [Validators -> SUBSET Cells]
    PROVE  Types' /\ MadeBySomeone'
BY DEF Inv, Types, MainStates, Untouched, MadeBySomeone

\* A main thread step of v: the cells and the main thread of v are left to show.
LEMMA MainStep ==
    ASSUME Inv, NEW v \in Validators, Types', MadeBySomeone', Untouched, OthersRest(v),
           \A c \in Cells : pc'[v][c] \in Started => pc[v][c] \in Started,
           \A c \in Cells : Cell(v, c)', MainFits(v)'
    PROVE  Inv'
<1>1. \A w \in Validators, d \in Cells : pc'[w][d] \in Started => pc[w][d] \in Started
  BY DEF OthersRest
<1>2. \A w \in Validators : PoolFits(w)'
  BY <1>1, PoolShrinks
<1>3. \A w \in Validators \ {v} : MainFits(w)'
  BY DEF Inv, MainFits, OthersRest, Untouched
<1>4. \A w \in Validators \ {v}, d \in Cells : Cell(w, d)'
  BY CellFrame DEF Inv, OthersRest, Untouched
<1> QED
  BY <1>2, <1>3, <1>4 DEF Inv

\* Most steps write main and perhaps INTERRUPTED or exit, and touch no cell.
LEMMA OnlyMain ==
    ASSUME Inv, NEW v \in Validators, NEW m \in MainStates, Untouched,
           main' = [main EXCEPT ![v] = m], pc' = pc, proc' = proc, stopped' = stopped,
           INTERRUPTED' \in {INTERRUPTED, [INTERRUPTED EXCEPT ![v] = TRUE]},
           NEW e \in {"none", "0", "1", "traceback"}, exit' = [exit EXCEPT ![v] = e],
           MainFits(v)'
    PROVE  Inv'
<1>1. /\ main' \in [Validators -> MainStates]
      /\ INTERRUPTED' \in [Validators -> BOOLEAN]
      /\ exit' \in [Validators -> {"none", "0", "1", "traceback"}]
  BY DEF Inv, Types, MainStates
<1>2. Types' /\ MadeBySomeone'
  BY <1>1, MainTypes DEF Inv, Types
<1>3. OthersRest(v)
  BY DEF Inv, Types, OthersRest
<1>4. INTERRUPTED[v] => INTERRUPTED'[v]
  BY DEF Inv, Types
<1>5. \A c \in Cells : Cell(v, c)'
  BY <1>4, CellFrame DEF Inv, Untouched
<1> QED
  BY <1>2, <1>3, <1>5, MainStep

\* Cancelling what is queued, or queueing one cell that was planned: no cell
\* that has started is concerned.
LEMMA Requeued ==
    ASSUME Inv, NEW v \in Validators, Untouched, OthersRest(v),
           main' \in [Validators -> MainStates], INTERRUPTED' = INTERRUPTED, exit' = exit,
           proc' = proc, stopped' = stopped,
           pc' \in [Validators -> [Cells -> PcStates]],
           \A c \in Cells : \/ pc'[v][c] = pc[v][c]
                            \/ /\ pc[v][c] \in {"planned", "queued"}
                               /\ pc'[v][c] \in {"queued", "cancelled"},
           MainFits(v)'
    PROVE  Inv'
<1>1. Types' /\ MadeBySomeone'
  BY MainTypes DEF Inv, Types
<1>2. \A c \in Cells : pc'[v][c] \in Started => pc[v][c] \in Started
  BY DEF Started
<1>3. ASSUME NEW c \in Cells PROVE Cell(v, c)'
  <2>1. Cell(v, c)
    BY DEF Inv
  <2>2. CASE pc'[v][c] = pc[v][c]
    BY <2>1, <2>2, CellFrame DEF Untouched
  <2>3. CASE pc[v][c] \in {"planned", "queued"} /\ pc'[v][c] \in {"queued", "cancelled"}
    BY <2>1, <2>3
       DEF Untouched, Cell, ProcFits, TmpFits, ListFits, CodeFits, OutcomeFits, StopFits,
           Passed, Before, Making, Running, Listed, Judging, Settled
  <2> QED
    BY <2>2, <2>3
<1> QED
  BY <1>1, <1>2, <1>3, MainStep

LEMMA CancelRow ==
    ASSUME Inv, NEW v \in Validators
    PROVE  /\ Cancelled(v) \in [Validators -> [Cells -> PcStates]]
           /\ \A c \in Cells : Cancelled(v)[v][c] =
                 IF pc[v][c] = "queued" THEN "cancelled" ELSE pc[v][c]
           /\ \A w \in Validators \ {v} : Cancelled(v)[w] = pc[w]
<1> DEFINE row == [c \in Cells |-> IF pc[v][c] = "queued" THEN "cancelled" ELSE pc[v][c]]
<1>1. row \in [Cells -> PcStates]
  BY DEF Inv, Types, PcStates
<1>2. Cancelled(v) = [pc EXCEPT ![v] = row]
  BY DEF Cancelled
<1>3. \A c \in Cells : row[c] = IF pc[v][c] = "queued" THEN "cancelled" ELSE pc[v][c]
  OBVIOUS
<1> HIDE DEF row
<1> QED
  BY <1>1, <1>2, <1>3 DEF Inv, Types

LEMMA SubmitKeeps ==
    ASSUME Inv, NEW v \in Validators, Submit(v), Untouched
    PROVE  Inv'
<1>1. main[v] = "submit" /\ UNCHANGED <<INTERRUPTED, exit, proc, stopped>>
  BY DEF Submit
<1>2. CASE \E c \in Futures(v, {"planned"}) : Goto(v, c, "queued") /\ main' = main
  <2>1. PICK c \in Cells : /\ pc[v][c] = "planned" /\ main' = main
                           /\ pc' = [pc EXCEPT ![v][c] = "queued"]
    BY <1>2 DEF Futures, Goto
  <2>2. "queued" \in PcStates
    BY DEF PcStates
  <2>3. /\ pc' \in [Validators -> [Cells -> PcStates]]
        /\ pc'[v][c] = "queued"
        /\ \A w \in Validators, d \in Cells : w # v \/ d # c => pc'[w][d] = pc[w][d]
    BY <2>1, <2>2, Update DEF Inv, Types
  <2>4. OthersRest(v)
    BY <1>1, <2>1 DEF Inv, Types, OthersRest
  <2>5. MainFits(v)'
    BY <1>1, <2>1 DEF Inv, MainFits, Untouched
  <2>6. main' \in [Validators -> MainStates]
    BY <2>1 DEF Inv, Types, MainStates
  <2> QED
    BY <1>1, <2>1, <2>3, <2>4, <2>5, <2>6, Requeued
<1>3. CASE main' = [main EXCEPT ![v] = "wait"] /\ pc' = pc
  <2>1. MainFits(v)'
    BY <1>1, <1>3 DEF Inv, Types, MainFits, Untouched
  <2>2. exit' = [exit EXCEPT ![v] = exit[v]] /\ exit[v] \in {"none", "0", "1", "traceback"}
    BY <1>1 DEF Inv, Types
  <2> QED
    BY <1>1, <1>3, <2>1, <2>2, OnlyMain DEF MainStates
<1> QED
  BY <1>2, <1>3 DEF Submit

LEMMA CancelKeeps ==
    ASSUME Inv, NEW v \in Validators, StopQueued(v) \/ CancelAll(v), Untouched
    PROVE  Inv'
<1>1. /\ pc' = Cancelled(v) /\ UNCHANGED <<INTERRUPTED, exit, proc, stopped>>
      /\ \/ main' = main /\ main[v] = "wait"
         \/ main' = [main EXCEPT ![v] = "kill"] /\ main[v] = "cancel"
  BY DEF StopQueued, CancelAll
<1>2. /\ pc' \in [Validators -> [Cells -> PcStates]]
      /\ \A c \in Cells : pc'[v][c] = IF pc[v][c] = "queued" THEN "cancelled" ELSE pc[v][c]
      /\ \A w \in Validators \ {v} : pc'[w] = pc[w]
  BY <1>1, CancelRow
<1>3. main' \in [Validators -> MainStates] /\ OthersRest(v)
  BY <1>1, <1>2 DEF Inv, Types, MainStates, OthersRest
<1>4. \A c \in Cells : pc'[v][c] # "queued"
  BY <1>2
<1>5. main'[v] \in {"wait", "kill"} /\ exit[v] # "0"
  BY <1>1 DEF Inv, Types, MainFits
<1>6. MainFits(v)'
  BY <1>1, <1>4, <1>5 DEF MainFits
<1>7. \A c \in Cells : \/ pc'[v][c] = pc[v][c]
                       \/ /\ pc[v][c] \in {"planned", "queued"}
                          /\ pc'[v][c] \in {"queued", "cancelled"}
  BY <1>2
<1> QED
  BY <1>1, <1>2, <1>3, <1>6, <1>7, Requeued

\* Nothing is queued when the loop has ended, nor after the handlers.
LEMMA LoopKeeps ==
    ASSUME Inv, NEW v \in Validators, LoopEnds(v) \/ Handle(v) \/ Shutdown(v), Untouched
    PROVE  Inv'
<1>1. UNCHANGED <<exit, pc, proc, stopped>>
  BY DEF LoopEnds, Handle, Shutdown
<1>2. PICK m \in {"cancel", "kill", "report"} :
        /\ main' = [main EXCEPT ![v] = m]
        /\ m = "kill" => main[v] = "again"
        /\ m = "report" => main[v] = "shutdown" /\ NoneRuns(v)
        /\ main[v] # "exit"
  BY DEF LoopEnds, Handle, Shutdown
<1>3. INTERRUPTED' \in {INTERRUPTED, [INTERRUPTED EXCEPT ![v] = TRUE]}
  BY DEF LoopEnds, Handle, Shutdown
<1>4. m = "report" => \A c \in Cells : pc[v][c] \notin Started
  BY <1>2 DEF NoneRuns, Futures
<1>5. main'[v] = m
  BY <1>2 DEF Inv, Types
<1>6. MainFits(v)'
  BY <1>1, <1>2, <1>4, <1>5 DEF Inv, MainFits, Untouched
<1>7. exit' = [exit EXCEPT ![v] = exit[v]] /\ exit[v] \in {"none", "0", "1", "traceback"}
  BY <1>1 DEF Inv, Types
<1> QED
  BY <1>1, <1>2, <1>3, <1>6, <1>7, OnlyMain DEF MainStates

LEMMA ReportKeeps ==
    ASSUME Inv, NEW v \in Validators, Report(v) \/ Unwind(v), Untouched
    PROVE  Inv'
<1>1. UNCHANGED <<INTERRUPTED, pc, proc, stopped>>
  BY DEF Report, Unwind
<1>2. PICK m \in {"exit", "dead"}, e \in {"0", "1", "traceback"} :
        /\ main' = [main EXCEPT ![v] = m] /\ exit' = [exit EXCEPT ![v] = e]
        /\ \/ m = "exit" /\ main[v] = "report" /\ (e = "0" => AllPassed(v))
           \/ /\ m = "dead" /\ e = "traceback"
              /\ \A c \in Cells : pc[v][c] # "queued" /\ pc[v][c] \notin Started
  BY DEF Report, Unwind, NoneRuns, Futures
<1>3. main'[v] = m /\ exit'[v] = e
  BY <1>2 DEF Inv, Types
<1>4. MainFits(v)'
  BY <1>1, <1>2, <1>3 DEF Inv, MainFits, Untouched, AllPassed
<1> QED
  BY <1>1, <1>2, <1>4, OnlyMain DEF MainStates

\* kill_active reaches exactly the cells between register and wait, so what it
\* kills is found killed by wait(), which then has no return code for it.
LEMMA KillActiveKeeps ==
    ASSUME Inv, NEW v \in Validators, KillActive(v), Untouched
    PROVE  Inv'
<1> DEFINE S == IF INTERRUPTED[v] THEN ACTIVE[v] ELSE {}
<1>1. /\ main[v] = "kill" /\ main' = [main EXCEPT ![v] = "shutdown"]
      /\ proc' = Killed(v, S)
      /\ stopped' = [stopped EXCEPT ![v] = @ \cup {c \in S : proc[v][c] \in Alive}]
      /\ UNCHANGED <<INTERRUPTED, exit, pc>>
  BY DEF KillActive, KilledBySignal
<1>2. S \in SUBSET Cells /\ S \subseteq ACTIVE[v] /\ (S # {} => INTERRUPTED[v])
  BY DEF Inv, Types
<1> HIDE DEF S
<1>3. /\ proc' \in [Validators -> [Cells -> ProcStates]]
      /\ \A c \in Cells : proc'[v][c] =
            IF c \in S /\ proc[v][c] \in Alive THEN "killed" ELSE proc[v][c]
      /\ \A w \in Validators \ {v} : proc'[w] = proc[w]
  BY <1>1, <1>2, KillOne DEF Inv
<1>4. /\ stopped' \in [Validators -> SUBSET Cells]
      /\ \A c \in Cells : c \in stopped'[v] <=>
            c \in stopped[v] \/ (c \in S /\ proc[v][c] \in Alive)
      /\ \A w \in Validators \ {v} : stopped'[w] = stopped[w]
  BY <1>1, <1>2 DEF Inv, Types
<1>5. main' \in [Validators -> MainStates] /\ main'[v] = "shutdown"
  BY <1>1 DEF Inv, Types, MainStates
<1>6. Types' /\ MadeBySomeone' /\ OthersRest(v)
  <2>1. Types' /\ MadeBySomeone'
    BY <1>1, <1>3, <1>4, <1>5, MainTypes DEF Inv, Types
  <2>2. OthersRest(v)
    BY <1>1, <1>3, <1>4 DEF Inv, Types, OthersRest
  <2> QED
    BY <2>1, <2>2
<1>7. MainFits(v)'
  BY <1>1, <1>5 DEF Inv, MainFits, Untouched
<1>8. ASSUME NEW c \in Cells PROVE Cell(v, c)'
  <2>1. Cell(v, c)
    BY DEF Inv
  <2>2. CASE c \notin S \/ proc[v][c] \notin Alive
    BY <1>1, <1>3, <1>4, <2>1, <2>2, CellFrame DEF Untouched
  <2>3. CASE c \in S /\ proc[v][c] \in Alive
    <3>1. pc[v][c] \in Listed /\ INTERRUPTED[v]
      BY <1>2, <2>1, <2>3 DEF Cell, ListFits
    <3>2. proc'[v][c] = "killed" /\ pc'[v][c] = pc[v][c]
      BY <1>1, <1>3, <2>3
    <3> QED
      BY <1>1, <2>1, <3>1, <3>2
         DEF Untouched, Cell, ProcFits, TmpFits, ListFits, CodeFits, OutcomeFits,
             StopFits, Passed, Before, Making, Running, Listed, Judging, Settled,
             Alive, Ends, GeneratorStates, HarnessStates
  <2> QED
    BY <2>2, <2>3
<1> QED
  BY <1>1, <1>6, <1>7, <1>8, MainStep

LEMMA SignalKeeps ==
    ASSUME Inv, NEW v \in Validators, Signal(v)
    PROVE  Inv'
<1>1. /\ main[v] \notin {"unwind", "dead", "exit"}
      /\ UNCHANGED <<INTERRUPTED, exit, pc, proc, stopped>> /\ Untouched
  BY DEF Signal, Untouched, workerVars, processVars, fileVars
<1>2. PICK m \in {"except", "again", "unwind"} :
        /\ main' = [main EXCEPT ![v] = m]
        /\ m = "again" => main[v] \in {"kill", "shutdown"}
  <2> DEFINE m == CASE main[v] = "wait" -> "except"
                    [] main[v] \in {"kill", "shutdown"} -> "again"
                    [] OTHER -> "unwind"
  <2>1. main' = [main EXCEPT ![v] = m]
    BY DEF Signal
  <2>2. m \in {"except", "again", "unwind"}
    OBVIOUS
  <2>3. m = "again" => main[v] \in {"kill", "shutdown"}
    OBVIOUS
  <2> HIDE DEF m
  <2> QED
    BY <2>1, <2>2, <2>3
<1>3. main'[v] = m
  BY <1>2 DEF Inv, Types
<1>4. MainFits(v)'
  BY <1>1, <1>2, <1>3 DEF Inv, MainFits
<1>5. exit' = [exit EXCEPT ![v] = exit[v]] /\ exit[v] \in {"none", "0", "1", "traceback"}
  BY <1>1 DEF Inv, Types
<1> QED
  BY <1>1, <1>2, <1>4, <1>5, OnlyMain DEF MainStates

-----------------------------------------------------------------------------
(* The theorems.                                                           *)

LEMMA InitInv == Init => Inv
<1> SUFFICES ASSUME Init PROVE Inv
  OBVIOUS
<1>1. Types
  BY DEF Init, Types, PcStates, ProcStates, Codes, Outcomes, TapeStates
<1>2. MadeBySomeone
  BY DEF Init, MadeBySomeone
<1>3. ASSUME NEW v \in Validators PROVE PoolFits(v) /\ MainFits(v)
  <2>1. Futures(v, Started) = {}
    BY DEF Init, Futures, Started
  <2>2. IsFiniteSet({}) /\ Cardinality({}) = 0
    BY FS_EmptySet
  <2>3. 0 <= Jobs
    BY ValidatorAssumption
  <2>4. PoolFits(v)
    BY <2>1, <2>2, <2>3 DEF PoolFits
  <2>5. MainFits(v)
    BY DEF Init, MainFits
  <2> QED
    BY <2>4, <2>5
<1>4. ASSUME NEW v \in Validators, NEW c \in Cells PROVE Cell(v, c)
  BY DEF Init, Cell, ProcFits, TmpFits, ListFits, CodeFits, OutcomeFits, StopFits, Passed,
         Making, Running, Listed, Judging, Settled, Alive
<1> QED
  BY <1>1, <1>2, <1>3, <1>4 DEF Inv

LEMMA NextInv == Inv /\ [Next]_vars => Inv'
<1> SUFFICES ASSUME Inv, [Next]_vars PROVE Inv'
  OBVIOUS
<1>1. ASSUME NEW v \in Validators, MainThread(v) PROVE Inv'
  <2>1. Untouched
    BY <1>1 DEF MainThread, Untouched, fileVars
  <2> QED
    BY <1>1, <2>1, SubmitKeeps, CancelKeeps, LoopKeeps, ReportKeeps, KillActiveKeeps
       DEF MainThread
<1>2. ASSUME NEW v \in Validators, NEW c \in Cells, Worker(v, c) PROVE Inv'
  BY <1>2, StartKeeps, CheckTapeKeeps, SpawnKeeps, RegisterKeeps, RecheckKeeps,
     WaitedKeeps, JudgeTapeKeeps, JudgeRunKeeps, CleanupKeeps DEF Worker
<1>3. CASE UNCHANGED vars
  <2>1. UNCHANGED <<options, main, INTERRUPTED, exit, pc, rc, created, outcome, proc,
                    ACTIVE, stopped, tape, tmpTape, owner>>
    BY <1>3 DEF vars, mainVars, workerVars, processVars, fileVars
  <2>2. Types' /\ MadeBySomeone'
    BY <2>1 DEF Inv, Types, MadeBySomeone
  <2>3. \A v \in Validators, c \in Cells : Cell(v, c)'
    BY <2>1, CellFrame DEF Inv
  <2>4. \A v \in Validators : MainFits(v)'
    BY <2>1 DEF Inv, MainFits
  <2>5. \A v \in Validators : PoolFits(v)'
    BY <2>1, PoolShrinks
  <2> QED
    BY <2>2, <2>3, <2>4, <2>5 DEF Inv
<1> QED
  BY <1>1, <1>2, <1>3, SignalKeeps, WaitedKeeps, ProcessKeeps DEF Next, Over

\* The invariant of the sweep: every cell's worker, child, files, return code
\* and outcome agree, however the signals and the other validators interleave.
THEOREM Invariance == Spec => []Inv
<1> QED
  BY InitInv, NextInv, PTL DEF Spec

\* The types, and the pool never runs more cells than it has threads.
THEOREM TypeCorrect == Spec => []TypeOK
<1>1. Inv => TypeOK
  BY DEF Inv, Types, PoolFits, TypeOK, PcStates, ProcStates, TapeStates
<1> QED
  BY <1>1, Invariance, PTL

\* A cell that a signal stopped is reported as not run: never as a failure,
\* a crash or a timeout of the engine.
THEOREM StoppedCellsNotRun == Spec => []StoppedIsNotFailed
<1>1. Inv => StoppedIsNotFailed
  <2> SUFFICES ASSUME Inv, NEW v \in Validators, NEW c \in stopped[v]
               PROVE  outcome[v][c] \in {"none", "NOT_RUN"}
    BY DEF StoppedIsNotFailed
  <2>1. c \in Cells
    BY DEF Inv, Types
  <2>2. OutcomeFits(v, c) /\ StopFits(v, c)
    BY <2>1 DEF Inv, Cell
  <2> QED
    BY <2>2 DEF OutcomeFits, StopFits, Listed, Judging, Settled
<1> QED
  BY <1>1, Invariance, PTL

\* A validator that has ended leaves no process and no temporary tape.
THEOREM CleanExit == Spec => []NothingLeftBehind
<1>1. Inv => NothingLeftBehind
  <2> SUFFICES ASSUME Inv, NEW v \in Validators, main[v] \in {"exit", "dead"},
                      NEW c \in Cells
               PROVE  proc[v][c] \notin Alive /\ tmpTape[v][c] = "none"
    BY DEF NothingLeftBehind
  <2>1. pc[v][c] \notin Started /\ pc[v][c] # "queued" /\ pc[v][c] \in PcStates
    BY DEF Inv, Types, MainFits
  <2>2. pc[v][c] \in {"planned", "cancelled", "done"}
    BY <2>1 DEF PcStates
  <2>3. ProcFits(v, c) /\ TmpFits(v, c)
    BY DEF Inv, Cell
  <2> QED
    BY <2>2, <2>3 DEF ProcFits, TmpFits, Before, Making, Settled, Alive
<1> QED
  BY <1>1, Invariance, PTL

\* Exit status 0 means that the harness ran every cell and found the published
\* hash, with a valid verdict where that is required.
THEOREM ExitZeroIsAPass == Spec => []PassedMeansAllRan
<1>1. Inv => PassedMeansAllRan
  <2> SUFFICES ASSUME Inv, NEW v \in Validators, exit[v] = "0", NEW c \in Cells
               PROVE  Passed(v, c)
    BY DEF PassedMeansAllRan, Passed
  <2>1. outcome[v][c] = "PASS" /\ OutcomeFits(v, c)
    BY DEF Inv, MainFits, Cell
  <2> QED
    BY <2>1 DEF OutcomeFits
<1> QED
  BY <1>1, Invariance, PTL

\* No step of any validator removes or damages a complete tape that was there
\* before: what is removed was made by a validator, and only what is not
\* complete is written in place.
THEOREM ForeignTapesKept == Spec => ForeignTapesStay
<1>1. Inv /\ [Next]_vars =>
        [\A c \in Cells : tape[c] = "complete" /\ owner[c] = Nobody
                              => tape'[c] = "complete"]_tape
  <2> SUFFICES ASSUME Inv, [Next]_vars, NEW c \in Cells, tape[c] = "complete",
                      owner[c] = Nobody
               PROVE  tape'[c] = "complete"
    OBVIOUS
  <2>1. tape \in [Cells -> TapeStates]
    BY DEF Inv, Types
  <2>2. CASE tape' = tape
    BY <2>2
  <2>3. ASSUME NEW v \in Validators, NEW d \in Cells, FindTape(v, d)
        PROVE  tape'[c] = "complete"
    BY <2>1, <2>3 DEF FindTape
  <2>4. ASSUME NEW v \in Validators, NEW d \in Cells, WriteInPlace(v, d)
        PROVE  tape'[c] = "complete"
    BY <2>1, <2>4 DEF WriteInPlace
  <2>5. ASSUME NEW v \in Validators, NEW d \in Cells, JudgeTape(v, d)
        PROVE  tape'[c] = "complete"
    BY <2>1, <2>5 DEF JudgeTape, fileVars
  <2>6. ASSUME NEW v \in Validators, NEW d \in Cells, Cleanup(v, d)
        PROVE  tape'[c] = "complete"
    <3>1. c \notin created[v]
      BY DEF Inv, MadeBySomeone
    <3> QED
      BY <2>1, <2>6, <3>1 DEF Cleanup, RemovesTape
  <2>7. ASSUME NEW v \in Validators, MainThread(v) \/ Signal(v) PROVE tape' = tape
    BY <2>7 DEF MainThread, Signal, fileVars
  <2>8. ASSUME NEW v \in Validators, NEW d \in Cells,
               \/ Start(v, d) \/ CheckTape(v, d) \/ Spawn(v, d) \/ Register(v, d)
               \/ Recheck(v, d) \/ Wait(v, d) \/ Timeout(v, d) \/ JudgeRun(v, d)
               \/ Generate(v, d) \/ LoadTape(v, d) \/ RunEngine(v, d)
        PROVE  tape' = tape
    BY <2>8 DEF Start, CheckTape, Spawn, Register, Recheck, Wait, Timeout, Waited,
                JudgeRun, Generate, LoadTape, RunEngine, fileVars
  <2>9. UNCHANGED vars => tape' = tape
    BY DEF vars, fileVars
  <2> QED
    BY <2>2, <2>3, <2>4, <2>5, <2>6, <2>7, <2>8, <2>9 DEF Next, Over, Worker, Process
<1> QED
  BY <1>1, Invariance, PTL DEF Spec, ForeignTapesStay
=============================================================================
