------------------------------ MODULE RecipeRun ------------------------------
(***************************************************************************)
(* The `run` command: RecipeExecutor.execute (executor.py) as the action   *)
(* of execute_with_hooks (run.py), over a ProcessSupervisor (process.py).  *)
(* One main thread moves through the three modules; SIGINT and SIGTERM     *)
(* reach it anywhere; loggers run beside it and write their files.         *)
(*                                                                         *)
(* Step i of the recipe is either a capture step, which starts the logger  *)
(* "capture-i" writing output i, or any other step, of which only success  *)
(* or failure matters here.                                                *)
(***************************************************************************)
EXTENDS Naturals, FiniteSetsExt

CONSTANTS
  MaxSteps,      \* bound: steps of the recipe
  MaxSignals     \* bound: signals delivered to the process

ASSUME RecipeAssumption == MaxSteps \in Nat \ {0} /\ MaxSignals \in Nat

Steps == 1..MaxSteps

VARIABLES
  \* of execute_with_hooks
  pc, exc, primary, cause, configured, hook, invoked, handler, saved, signals,
  attempted, interrupted, unguarded,
  \* of ProcessSupervisor
  spc, ctx, cur, started, nameOf, tracked, failures, raised, leader, child,
  forced, interrupts,
  \* of RecipeExecutor.execute
  recipe,        \* kind of each step: "capture" or "other"
  epc,           \* where execute is
  index,         \* the step being executed, 1-based
  outputs,       \* capture_outputs
  names,         \* capture_processes, by step
  todo,          \* what the current for loop has left to visit
  mode,          \* each output file: "absent", "loose" (umask) or "private"
  lost,          \* history: loggers that exited while a step was executing
  cut            \* history: a signal cut a logger's start, the teardown or the
                 \* finally clause short

L == INSTANCE RunLifecycle
S == INSTANCE ProcessSupervisor
       WITH Names <- Steps, MaxProcs <- MaxSteps, MaxInterrupts <- MaxSignals,
            CanFork <- FALSE

runVars == <<pc, exc, primary, cause, configured, hook, invoked, handler, saved,
             signals, attempted, interrupted, unguarded>>
supVars == <<spc, ctx, cur, started, nameOf, tracked, failures, raised, leader,
             child, forced, interrupts>>
execVars == <<recipe, epc, index, outputs, names, todo, mode, lost, cut>>
vars == <<runVars, supVars, execVars>>

-----------------------------------------------------------------------------

RunInit ==
  /\ L!Init
  /\ S!SupInit
  /\ recipe \in [Steps -> {"capture", "other"}]
  /\ epc = "steps" /\ index = 1
  /\ outputs = {} /\ names = {} /\ todo = {}
  /\ mode = [i \in Steps |-> "absent"]
  /\ lost = {} /\ cut = FALSE

(* execute runs only as the action of execute_with_hooks. *)
Executing(at) == pc = "action" /\ epc = at

-----------------------------------------------------------------------------
(* The step loop, the body of the with statement. *)

StepSucceeds ==
  /\ Executing("steps")
  /\ index \in Steps /\ recipe[index] = "other"
  /\ epc' = "check" /\ todo' = names
  /\ UNCHANGED <<runVars, supVars, recipe, index, outputs, names, mode, lost, cut>>

StepFails ==
  /\ Executing("steps")
  /\ index \in Steps
  /\ S!BodyRaises
  /\ epc' = "teardown"
  /\ UNCHANGED <<runVars, recipe, index, outputs, names, todo, mode, lost, cut>>

(* Wrong: the output is not recorded. *)
StartCaptureUnlisted ==
  /\ Executing("steps")
  /\ index \in Steps /\ recipe[index] = "capture"
  /\ S!Spawn(index)
  /\ epc' = "launching"
  /\ UNCHANGED <<runVars, recipe, index, outputs, names, todo, mode, lost, cut>>

StartCapture ==
  /\ Executing("steps")
  /\ index \in Steps /\ recipe[index] = "capture"
  /\ S!Spawn(index)
  /\ outputs' = outputs \cup {index}
  /\ epc' = "launching"
  /\ UNCHANGED <<runVars, recipe, index, names, todo, mode, lost, cut>>

CaptureStartFails ==
  /\ Executing("steps")
  /\ index \in Steps /\ recipe[index] = "capture"
  /\ S!StartFails
  /\ outputs' = outputs \cup {index}
  /\ epc' = "teardown"
  /\ UNCHANGED <<runVars, recipe, index, names, todo, mode, lost, cut>>

CaptureStarted ==
  /\ Executing("launching")
  /\ S!Register
  /\ names' = names \cup {index}
  /\ epc' = "check" /\ todo' = names'
  /\ UNCHANGED <<runVars, recipe, index, outputs, mode, lost, cut>>

(* After every step each logger started so far must still be running. *)
LoggerRunning ==
  /\ Executing("check")
  /\ todo # {}
  /\ S!RequireRunning(Min(todo))
  /\ todo' = todo \ {Min(todo)}
  /\ UNCHANGED <<runVars, recipe, epc, index, outputs, names, mode, lost, cut>>

LoggerGone ==
  /\ Executing("check")
  /\ todo # {}
  /\ S!RequireExited(Min(todo))
  /\ epc' = "teardown"
  /\ UNCHANGED <<runVars, recipe, index, outputs, names, todo, mode, lost, cut>>

(* Wrong: the newest logger is not checked. *)
NextStepEarly ==
  /\ Executing("check")
  /\ Cardinality(todo) <= 1
  /\ index' = index + 1
  /\ epc' = "steps"
  /\ UNCHANGED <<runVars, supVars, recipe, outputs, names, todo, mode, lost, cut>>

NextStep ==
  /\ Executing("check")
  /\ todo = {}
  /\ index' = index + 1
  /\ epc' = "steps"
  /\ UNCHANGED <<runVars, supVars, recipe, outputs, names, todo, mode, lost, cut>>

StepsDone ==
  /\ Executing("steps")
  /\ index \notin Steps
  /\ S!BodyEnds
  /\ epc' = "teardown"
  /\ UNCHANGED <<runVars, recipe, index, outputs, names, todo, mode, lost, cut>>

-----------------------------------------------------------------------------
(* __exit__ of the supervisor, then the finally clause: the outputs that   *)
(* exist become private one by one, then execute returns or re-raises.     *)

(* Wrong: the outputs are made private only when the run failed. *)
AfterFailedExit ==
  IF spc' = "closed"
  THEN epc' = "chmod" /\ todo' = IF raised' = "none" THEN {} ELSE outputs
  ELSE epc' = "teardown" /\ UNCHANGED todo

(* Wrong: an interrupted run keeps its outputs as they are. *)
AfterUninterruptedExit ==
  IF spc' = "closed"
  THEN epc' = "chmod" /\ todo' = IF raised' = "interrupt" THEN {} ELSE outputs
  ELSE epc' = "teardown" /\ UNCHANGED todo

(* The finally clause starts when the with statement was left. *)
AfterExit ==
  IF spc' = "closed"
  THEN epc' = "chmod" /\ todo' = outputs
  ELSE epc' = "teardown" /\ UNCHANGED todo

CloseLoggers ==
  /\ Executing("teardown")
  /\ S!Teardown
  /\ AfterExit
  /\ UNCHANGED <<runVars, recipe, index, outputs, names, mode, lost, cut>>

MakePrivate ==
  /\ Executing("chmod")
  /\ todo # {}
  /\ mode' = IF mode[Min(todo)] = "absent" THEN mode
            ELSE [mode EXCEPT ![Min(todo)] = "private"]
  /\ todo' = todo \ {Min(todo)}
  /\ UNCHANGED <<runVars, supVars, recipe, epc, index, outputs, names, lost, cut>>

(* execute is over: it raised e, or returned ("none"). *)
LeaveExecute(e) ==
  /\ pc' = "unguard_run" /\ exc' = e
  /\ epc' = "done"
  /\ UNCHANGED <<primary, cause, configured, hook, invoked, handler, saved, signals,
                 attempted, interrupted, unguarded, supVars, recipe, index, outputs,
                 names, todo, mode, lost, cut>>

(* Wrong: a return in the finally clause drops the exception. *)
ReturnInFinally ==
  /\ Executing("chmod")
  /\ todo = {}
  /\ LeaveExecute("none")

ExecuteReturns ==
  /\ Executing("chmod")
  /\ todo = {} /\ raised = "none"
  /\ LeaveExecute("none")

ExecuteRaises ==
  \/ /\ Executing("chmod")
     /\ todo = {} /\ raised # "none"
     /\ LeaveExecute(IF raised = "interrupt" THEN "interrupted" ELSE "action_error")
  \/ /\ Executing("abandoned")
     /\ LeaveExecute("interrupted")

-----------------------------------------------------------------------------
(* A signal delivered during the action is an exception where execute is.  *)

InterruptWith ==
  /\ epc \in {"steps", "launching", "check", "teardown"}
  /\ S!Interrupt
  /\ AfterExit
  /\ cut' = (cut \/ epc \in {"launching", "teardown"})
  /\ UNCHANGED <<recipe, index, outputs, names, mode, lost>>

(* Inside the finally clause: the outputs left to visit keep their mode. *)
InterruptFinally ==
  /\ epc \in {"chmod", "abandoned"}
  /\ epc' = "abandoned" /\ cut' = TRUE
  /\ UNCHANGED <<supVars, recipe, index, outputs, names, todo, mode, lost>>

SignalDelivered ==
  /\ L!Signal
  /\ IF pc = "action" THEN InterruptWith \/ InterruptFinally
                      ELSE UNCHANGED <<supVars, execVars>>

-----------------------------------------------------------------------------
(* The loggers. *)

LoggerExits ==
  /\ S!Environment
  /\ lost' = IF pc = "action" /\ epc \in {"steps", "launching"} /\ index \in Steps
             THEN lost \cup {p \in Steps : leader'[p] # leader[p]}
             ELSE lost
  /\ UNCHANGED <<runVars, recipe, epc, index, outputs, names, todo, mode, cut>>

(* A logger creates its output with the umask of the command. *)
LoggerWrites ==
  /\ \E p \in Steps :
       /\ leader[p] = "running"
       /\ mode[nameOf[p]] = "absent"
       /\ mode' = [mode EXCEPT ![nameOf[p]] = "loose"]
  /\ UNCHANGED <<runVars, supVars, recipe, epc, index, outputs, names, todo, lost, cut>>

-----------------------------------------------------------------------------

(* The hooks and guards around execute. *)
AroundExecute ==
  /\ L!CallStep \/ L!GuardStep \/ L!HookStep
  /\ UNCHANGED <<supVars, execVars>>

StepLoop ==
  \/ StepSucceeds \/ StepFails
  \/ StartCapture \/ CaptureStartFails \/ CaptureStarted
  \/ LoggerRunning \/ LoggerGone \/ NextStep \/ StepsDone

AfterSteps == CloseLoggers \/ MakePrivate \/ ExecuteReturns \/ ExecuteRaises

RunNext == AroundExecute \/ StepLoop \/ AfterSteps \/ SignalDelivered
             \/ LoggerExits \/ LoggerWrites

(* What the main thread does without waiting for a step or a hook to end:  *)
(* waits on loggers are bounded by the grace period, so these steps are    *)
(* taken.  Steps, hooks, loggers and signals get no fairness.              *)
Unblocked ==
  \/ AfterSteps
  \/ /\ L!CallStep \/ L!GuardStep \/ L!SkipHook \/ L!LaunchHook \/ L!LaunchFails
     /\ UNCHANGED <<supVars, execVars>>

RunSpec == RunInit /\ [][RunNext]_vars /\ WF_vars(Unblocked)

-----------------------------------------------------------------------------

RunTypeOK ==
  /\ L!TypeOK
  /\ S!SupTypeOK
  /\ recipe \in [Steps -> {"capture", "other"}]
  /\ epc \in {"steps", "launching", "check", "teardown", "chmod", "abandoned", "done"}
  /\ index \in 1..(MaxSteps + 1)
  /\ names \subseteq outputs /\ outputs \subseteq Steps
  /\ todo \subseteq outputs
  /\ mode \in [Steps -> {"absent", "loose", "private"}]
  /\ lost \subseteq Steps /\ cut \in BOOLEAN

(* execute as the action of execute_with_hooks keeps that function's       *)
(* specification: in particular an interrupted action never returns        *)
(* (executor.py:85-117, run.py:118-163).                                   *)
KeepsLifecycle == L!Spec

(* A run that reports success executed every step, reaped every logger,    *)
(* left every output private and had its restoration hook succeed          *)
(* (executor.py:95-117, run.py:147-163).                                   *)
SuccessIsComplete ==
  pc = "returned" /\ exc = "none"
    => /\ index = MaxSteps + 1
       /\ \A p \in Steps : leader[p] \in {"unborn", "reaped"}
       /\ \A i \in Steps : mode[i] # "loose"
       /\ "post_run" \in configured => hook["post_run"] = "ok"

(* A run during which a logger exited while a step was executing does not  *)
(* report success: the check after the step, or a later one, finds it      *)
(* (executor.py:111-112, process.py:161-171).                              *)
LostCaptureIsReported == pc = "returned" /\ exc = "none" => lost = {}

(* Ownership is restored only after the loggers are gone: while the        *)
(* post-run hook runs no logger does, whether the steps succeeded, failed  *)
(* or were interrupted.  It fails only if a signal fell between Popen and  *)
(* the registry or cut the teardown short, or a logger survived SIGKILL    *)
(* (executor.py:96, run.py:151-159).                                       *)
RestoreAfterTeardown ==
  hook["post_run"] = "running" /\ ~cut /\ raised \notin {"cleanup", "run_cleanup"}
    => \A p \in Steps : leader[p] # "running"

(* Captures end private: once execute is over, having succeeded, failed or *)
(* been interrupted in a step, no output keeps the mode its logger created *)
(* it with, unless a signal cut a logger's start, the teardown or the loop *)
(* of the finally clause short, or a logger survived (executor.py:113-116).*)
OutputsEndPrivate ==
  epc = "done" /\ ~cut /\ raised \notin {"cleanup", "run_cleanup"}
    => \A i \in Steps : mode[i] # "loose"

(* An interrupt during the action is always followed by the restoration    *)
(* hook, even if no logger ever exits, unless another signal lands outside *)
(* the guarded window or is a SIGTERM whose default was restored already   *)
(* (executor.py:95-117, run.py:138-163).                                   *)
InterruptReachesRestore ==
  (pc = "action" /\ interrupted /\ "post_run" \in configured)
    ~> (invoked["post_run"] = 1 \/ unguarded \/ pc = "killed")
=============================================================================
