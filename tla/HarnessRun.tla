----------------------------- MODULE HarnessRun -----------------------------
(***************************************************************************)
(* One run of ./harness (src/harness.cpp main) around the engine code it   *)
(* calls, and the trial scripts/run_challenge.py makes of it.              *)
(*                                                                         *)
(* The harness calls into the engine stage by stage.  Every call may come  *)
(* back, hang, or end in a fatal signal; engine_init may also change the   *)
(* signal handlers and the timer, as a managed runtime does.  A watchdog   *)
(* timer and signal handlers are to turn a failure into exit code 3, and   *)
(* the verdict compares the stream with a reference read before any engine *)
(* code ran.                                                               *)
(***************************************************************************)
EXTENDS Naturals, Sequences, FiniteSets

CONSTANTS Hashes,       \* report-stream hashes the reference file may name
          InitKinds     \* what engine_init may do to the process

ASSUME HarnessAssumption ==
    InitKinds \subseteq {"plain", "runtime", "resets"}

VARIABLES
    mode, supervised,   \* --mode; started by run_challenge.py or by hand
    stage, at,          \* the last stage begun, and who runs: see At
    engine,             \* what engine_init does
    timer,              \* an alarm is pending
    handler,            \* disposition per signal class
    refFile, snapshot,  \* the entry of this workload: in the file, as read
    computed, failed,   \* hash of the collected reports; gates not passed
    verdict, json,      \* of the run; in its result file
    exit, trial,        \* exit code, or the signal the process died of;
                        \* run_challenge's view of the run
    refBefore           \* history: entries held before engine code ran

runVars == <<mode, supervised, stage, at, engine, timer, handler, refFile,
          snapshot, computed, failed, verdict, json, exit, trial, refBefore>>
config == <<mode, supervised, engine>>
reference == <<refFile, snapshot, refBefore>>
outcome == <<computed, failed, verdict, json, trial>>

\* The calls into engine code, in the order of main; the three audit stages
\* load, replay and unload a baseline.
Stages == <<"setup", "dlopen", "create", "init", "prebuild", "preflight",
            "deliver", "flush", "join", "shutdown", "audit_load", "audit",
            "audit_unload", "destroy", "dlclose">>
AuditStages == {"audit_load", "audit", "audit_unload"}
Position(s) == CHOOSE i \in 1 .. Len(Stages) : Stages[i] = s
Past(s) == Position(stage) > Position(s)

\* The stages whose engine code runs under a pending alarm.
Watched == {"init", "prebuild", "preflight", "deliver", "flush", "join",
            "shutdown", "audit"}

\* The classes of signals that install_guards has a handler for; fault stands
\* for SIGSEGV, SIGBUS and SIGFPE.
GuardedSignals == {"alarm", "abort", "fault"}
\* A death no handler sees: SIGILL, SIGTRAP and SIGSYS have none, and the
\* handlers have no stack of their own (sa_flags 0, no sigaltstack) to report
\* that the engine has used up its stack.
Unguarded == "unguarded"
At == {"harness", "engine", "hung"}
NoHash == "none"        \* no such entry
OtherHash == "other"    \* of a stream that no reference names
Unread == "unread"      \* the file has not been read yet
Gates == {"affinity", "book_empty", "prebuild_time", "report_buffer",
          "probe_time", "canonical_output", "audit"}

\* The gate a stage decides, if any.
GateOf(s) == CASE s = "init"      -> {"affinity"}
               [] s = "prebuild"  -> {"prebuild_time"}
               [] s = "preflight" -> {"book_empty"}
               [] s = "deliver"   -> {"probe_time"}
               [] s = "join"      -> {"affinity", "report_buffer"}
               [] s = "shutdown"  -> {"canonical_output"}
               [] s \in {"audit_load", "audit"} -> {"audit"}
               [] OTHER           -> {}

Ended == exit # "none"

-----------------------------------------------------------------------------
RunInit ==
    /\ mode \in {"perf", "audit"} /\ supervised \in BOOLEAN
    /\ engine \in InitKinds
    /\ stage = "setup" /\ at = "harness"
    /\ timer = FALSE
    /\ handler = [s \in GuardedSignals |-> "default"]
    /\ refFile \in Hashes \cup {NoHash} /\ refBefore = {refFile}
    /\ snapshot = Unread /\ computed = NoHash
    /\ failed = {} /\ verdict = "none" /\ json = "none"
    /\ exit = "none" /\ trial = "none"

\* A --write-reference run of another harness, or the engine itself, rewrites
\* the entry at any time.
RewriteReference ==
    /\ ~Ended
    /\ refFile' \in Hashes \ {refFile}
    /\ refBefore' = IF stage = "setup" THEN refBefore \cup {refFile'} ELSE refBefore
    /\ UNCHANGED <<config, stage, at, timer, handler, snapshot, outcome, exit>>

-----------------------------------------------------------------------------
(* The harness.                                                            *)

\* reassert_guards_after_init: a handler that a runtime installed for the
\* fault signals stays; the other two are the harness's again.
ReassertNone(h) == h                                            \* mutant
ReassertAll(h) == [s \in GuardedSignals |-> "harness"]          \* mutant
ReassertGuards(h) ==
    [s \in GuardedSignals |-> IF s = "fault" /\ h[s] = "runtime" THEN "runtime"
                              ELSE "harness"]

\* alarm() before the engine code of stage s.
ArmsLess(s) == s \in {"init", "deliver", "join", "audit"}       \* mutant
Arms(s) == s \in {"init", "prebuild", "deliver", "join", "audit"}
Disarms(s) == s \in {"audit_load", "audit_unload", "destroy"}

\* A stage is skipped when the harness has no call to make in it.
Follows(s, next) ==
    \/ /\ next = Stages[Position(s) + 1]
       /\ next \in AuditStages => mode = "audit"
       /\ next = "audit" => "audit" \notin failed
    \/ s = "shutdown" /\ mode = "perf" /\ next = "destroy"
    \/ s = "audit_load" /\ "audit" \in failed /\ next = "destroy"

\* install_guards, then the reference file is read into memory.
ReadReference ==
    /\ ~Ended /\ snapshot = Unread
    /\ handler' = [s \in GuardedSignals |-> "harness"]
    /\ snapshot' = refFile
    /\ UNCHANGED <<config, stage, at, timer, refFile, refBefore, outcome, exit>>

Enter(next) ==
    /\ ~Ended /\ at = "harness" /\ snapshot # Unread
    /\ stage # "dlclose" /\ Follows(stage, next)
    /\ next = "destroy" => verdict # "none"
    /\ stage' = next
    /\ at' = "engine"
    /\ timer' = (Arms(next) \/ (timer /\ ~Disarms(next)))
    /\ handler' = IF next = "prebuild" THEN ReassertGuards(handler) ELSE handler
    /\ UNCHANGED <<config, reference, outcome, exit>>

\* The entry the verdict is made against.
ReferenceNow == refFile                                         \* mutant
Reference == snapshot

Ruling == IF failed = {} /\ Reference # NoHash /\ Reference = computed
            THEN "VALID" ELSE "INVALID"

\* The verdict and its result file, which may turn out not to be writable.
Verdict ==
    /\ ~Ended /\ at = "harness" /\ verdict = "none"
    /\ \/ stage = "shutdown" /\ mode = "perf"
       \/ stage = "audit_unload"
       \/ stage = "audit_load" /\ "audit" \in failed
    /\ timer' = FALSE
    /\ verdict' = Ruling
    /\ json' \in {Ruling, "none"}
    /\ UNCHANGED <<config, reference, stage, at, handler, computed, failed,
                   exit, trial>>

\* main returns.
ExitRun ==
    /\ ~Ended /\ at = "harness" /\ stage = "dlclose"
    /\ exit' = IF verdict = "VALID" THEN "0" ELSE "1"
    /\ UNCHANGED <<config, reference, stage, at, timer, handler, outcome>>

-----------------------------------------------------------------------------
(* The engine code of the current stage.                                   *)

InEngine == ~Ended /\ at = "engine"

\* It comes back.  The gate of the stage passes or not; an engine or a
\* transport that cannot be had ends the run, a baseline only the audit.
EngineReturns ==
    /\ InEngine
    /\ \/ /\ failed' \in {failed} \cup {failed \cup {g} : g \in GateOf(stage)}
          /\ at' = "harness"
          /\ UNCHANGED exit
       \/ /\ stage \in {"dlopen", "create"}
          /\ exit' = "1"
          /\ UNCHANGED <<at, failed>>
    /\ IF stage = "join" THEN computed' \in Hashes \cup {OtherHash} ELSE UNCHANGED computed
    /\ UNCHANGED <<config, reference, stage, timer, handler, verdict, json, trial>>

\* engine_init brings up a runtime that owns the fault signals, or leaves
\* signals reset and the timer cancelled.
ChangeProcess ==
    /\ InEngine
    /\ stage = "init"
    /\ \/ /\ engine = "runtime"
          /\ handler' = [handler EXCEPT !["fault"] = "runtime"]
          /\ UNCHANGED timer
       \/ /\ engine = "resets"
          /\ \E S \in SUBSET GuardedSignals :
               handler' = [s \in GuardedSignals |-> IF s \in S THEN "default"
                                                   ELSE handler[s]]
          /\ timer' \in {timer, FALSE}
    /\ UNCHANGED <<config, stage, at, exit, reference, outcome>>

Hang ==
    /\ InEngine
    /\ at' = "hung"
    /\ UNCHANGED <<config, stage, timer, handler, exit, reference, outcome>>

\* A fatal signal of the engine's own making, if there is a handler and it can
\* run: a runtime passes on what it does not recognise to the handler it found.
Crash ==
    /\ InEngine
    /\ \/ \E s \in {"abort", "fault"} :
            exit' = IF handler[s] = "default" THEN s ELSE "3"
       \/ exit' = Unguarded
    /\ UNCHANGED <<config, stage, at, timer, handler, reference, outcome>>

EngineCode == EngineReturns \/ ChangeProcess \/ Hang \/ Crash

\* SIGALRM: the phase was too slow or hangs.
AlarmFires ==
    /\ ~Ended /\ timer
    /\ exit' = IF handler["alarm"] = "harness" THEN "3" ELSE "alarm"
    /\ UNCHANGED <<config, stage, at, timer, handler, reference, outcome>>

-----------------------------------------------------------------------------
(* run_challenge.py.                                                       *)

\* subprocess.run kills the harness after HARNESS_TIMEOUT_S, whatever it is at.
OuterTimeoutWatched ==                                          \* mutant
    /\ supervised /\ ~Ended /\ timer
    /\ exit' = "killed"
    /\ UNCHANGED <<config, stage, at, timer, handler, reference, outcome>>
OuterTimeout ==
    /\ supervised /\ ~Ended
    /\ exit' = "killed"
    /\ UNCHANGED <<config, stage, at, timer, handler, reference, outcome>>

\* A trial counts when its result file says VALID and the process exited 0.
TrialOkByFile == json = "VALID"                                 \* mutant
TrialOk == json = "VALID" /\ exit = "0"

Judge ==
    /\ supervised /\ Ended /\ trial = "none"
    /\ trial' = IF TrialOk THEN "ok" ELSE "failed"
    /\ UNCHANGED <<config, reference, stage, at, timer, handler, computed,
                   failed, verdict, json, exit>>

\* The process is gone, or hangs with nobody to end it.
RunOver ==
    /\ \/ Ended /\ (supervised => trial # "none")
       \/ at = "hung" /\ ~timer /\ ~supervised
    /\ UNCHANGED runVars

HarnessMain == ReadReference \/ (\E next \in {Stages[i] : i \in 1 .. Len(Stages)} : Enter(next))
             \/ Verdict \/ ExitRun

RunNext == HarnessMain \/ EngineCode \/ AlarmFires \/ OuterTimeout \/ Judge
          \/ RewriteReference \/ RunOver

RunSpec == RunInit /\ [][RunNext]_runVars

\* The harness and the script are scheduled, engine code that does not hang
\* gets on, and a pending alarm goes off.
FairRun == /\ RunSpec
            /\ WF_runVars(HarnessMain)
            /\ WF_runVars(EngineReturns \/ Hang \/ Crash)
            /\ WF_runVars(AlarmFires)
            /\ WF_runVars(OuterTimeout)
            /\ WF_runVars(Judge)

-----------------------------------------------------------------------------
(* Properties.                                                             *)

\* Types of the variables.
RunTypeOK ==
    /\ stage \in {Stages[i] : i \in 1 .. Len(Stages)} /\ at \in At
    /\ timer \in BOOLEAN
    /\ handler \in [GuardedSignals -> {"default", "harness", "runtime"}]
    /\ refBefore \cup {refFile} \subseteq Hashes \cup {NoHash}
    /\ computed \in Hashes \cup {NoHash, OtherHash}
    /\ snapshot \in Hashes \cup {NoHash, Unread}
    /\ failed \subseteq Gates
    /\ {verdict, json} \subseteq {"none", "VALID", "INVALID"}
    /\ exit \in {"none", "0", "1", "3", "killed", Unguarded} \cup GuardedSignals
    /\ trial \in {"none", "ok", "failed"}

\* Only a stream that equals an entry the reference file held before the first
\* engine code ran is VALID, whatever is written to the file during the run.
SnapshotDecides == verdict = "VALID" => computed \in refBefore \ {NoHash}

\* Once engine_init is over, no alarm, no abort and no memory or arithmetic
\* fault that a handler can still see ends the harness by the bare signal: it
\* ends in the harness's own report (exit code 3), although engine_init may
\* have reset the handlers.  (A death that no handler sees is Unguarded: it does
\* take the harness down unreported, and only the exit status tells of it.)
FailureIsReported == exit \in GuardedSignals => stage = "init"

\* Yet a managed runtime keeps its fault handler for the whole run: it needs
\* the signals as ordinary control flow, and a harness handler on top would
\* report a healthy engine as crashed.
RuntimeKeepsFaults ==
    [][handler["fault"] = "runtime" => handler'["fault"] = "runtime"]_handler

\* A trial counts only if the engine came through the whole run, teardown
\* included: the result file is written before the transport is destroyed.
CountedTrialsAreClean ==
    trial = "ok" => verdict = "VALID" /\ stage = "dlclose" /\ at = "harness"

\* A hang under the watchdog ends the run, also after an engine_init that
\* cancelled the timer.  (Inside such an engine_init nothing is pending.)
WatchedHangEnds ==
    (at = "hung" /\ stage \in Watched /\ (stage = "init" => engine # "resets"))
        ~> Ended

\* Every trial that run_challenge.py starts is judged.
TrialsAreJudged == supervised ~> trial # "none"

\* docs/ANTI_CHEAT.md 210: "An engine that crashes or hangs is reported as
\* failed rather than taking the harness down with it."
HangIsReported == at = "hung" ~> Ended
=============================================================================
