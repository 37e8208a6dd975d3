--------------------------- MODULE RecipeRunProofs ---------------------------
(***************************************************************************)
(* Theorems about RecipeRun, for any number of steps and signals: the      *)
(* composition keeps the specifications of the two modules it is made of.  *)
(***************************************************************************)
EXTENDS RecipeRun, FiniteSetTheorems, WellFoundedInduction, TLAPS

(* Program points of execute_with_hooks before the action. *)
BeforeAction == {"preflight", "guard_preflight", "preflight_hook", "unguard_preflight",
                 "handoff", "guard_run", "pre_run"}

(* Until the action begins execute is untouched, and an interrupt is on its
   way out of the call. *)
EntryInv ==
  /\ configured \subseteq L!Hooks
  /\ failures \in Nat
  /\ pc \in BeforeAction =>
       /\ epc = "steps" /\ spc = "body" /\ ctx = "stop"
       /\ raised = "none" /\ failures = 0
       /\ ~interrupted \/ (pc = "unguard_preflight" /\ exc # "none")
       /\ pc # "unguard_preflight" => exc = "none"

(* An interrupt of the action is on record in it: as the exception leaving the
   with statement, as a failure of its teardown, or in the finally clause. *)
InterruptInv ==
  pc = "action" =>
    /\ exc = "none"
    /\ epc \in {"steps", "check"} => spc = "body"
    /\ epc = "launching" => spc = "spawned"
    /\ epc \in {"steps", "launching", "check"} =>
         ctx = "stop" /\ raised = "none" /\ failures = 0 /\ ~interrupted
    /\ epc = "teardown" => ctx = "close" /\ spc # "closed"
    /\ epc = "chmod" => spc = "closed" /\ (raised = "none" => ~interrupted)
    /\ epc # "done"
    /\ raised = "none" /\ failures = 0 => ~interrupted \/ epc = "abandoned"
    /\ raised = "interrupt" \/ epc = "abandoned" => interrupted

RefInv == EntryInv /\ InterruptInv

-----------------------------------------------------------------------------

LEMMA RefInit == RunInit => RefInv
  BY DEF RunInit, L!Init, S!SupInit, RefInv, EntryInv, InterruptInv, BeforeAction, L!Hooks

(* The guards and hooks reach the action only without an interrupt. *)
LEMMA AroundKeeps == RefInv /\ AroundExecute => RefInv'
<1> SUFFICES ASSUME RefInv, AroundExecute
             PROVE  RefInv'
  OBVIOUS
<1> USE DEF AroundExecute, RefInv, EntryInv, InterruptInv, BeforeAction, L!Hooks, L!signalVars,
            supVars, execVars
<1>1. CASE L!CallStep
  <2>1. CASE L!PreflightPasses
    BY <2>1 DEF L!PreflightPasses
  <2>2. CASE L!PreflightFails
    BY <2>2 DEF L!PreflightFails
  <2>3. CASE L!EnterRun
    BY <2>3 DEF L!EnterRun
  <2>4. CASE L!RecordPrimary
    BY <2>4 DEF L!RecordPrimary
  <2> QED
    BY <1>1, <2>1, <2>2, <2>3, <2>4 DEF L!CallStep
<1>2. CASE L!GuardStep
  <2>1. ASSUME NEW s \in L!Signals, L!Install(s)
        PROVE  RefInv'
    BY <2>1 DEF L!Install
  <2>4. ASSUME NEW s \in L!Signals, L!Restore(s)
        PROVE  RefInv'
    BY <2>4 DEF L!Restore
  <2>2. CASE L!EnterGuard
    BY <2>2 DEF L!EnterGuard
  <2>3. CASE L!LeaveGuard
    BY <2>3 DEF L!LeaveGuard
  <2> QED
    BY <1>2, <2>1, <2>2, <2>3, <2>4 DEF L!GuardStep
<1>3. CASE L!HookStep
  <2>1. CASE L!SkipHook
    BY <2>1 DEF L!SkipHook, L!AfterHook
  <2>2. CASE L!LaunchHook
    BY <2>2 DEF L!LaunchHook
  <2>3. CASE L!LaunchFails
    BY <2>3 DEF L!LaunchFails, L!HookError, L!Landing
  <2>4. CASE L!HookSucceeds
    BY <2>4 DEF L!HookSucceeds, L!AfterHook
  <2>5. CASE L!HookFails
    BY <2>5 DEF L!HookFails, L!HookError, L!Landing
  <2> QED
    BY <1>3, <2>1, <2>2, <2>3, <2>4, <2>5 DEF L!HookStep
<1> QED
  BY <1>1, <1>2, <1>3 DEF AroundExecute

(* A step of execute that raises nothing, or that starts its teardown. *)
LEMMA StepLoopKeeps == RefInv /\ StepLoop => RefInv'
<1> SUFFICES ASSUME RefInv, StepLoop
             PROVE  RefInv'
  OBVIOUS
<1> USE DEF Executing, runVars, RefInv, EntryInv, InterruptInv, BeforeAction, S!Unwind
<1>1. CASE StepSucceeds
  BY <1>1 DEF StepSucceeds, supVars
<1>2. CASE StepFails
  BY <1>2 DEF StepFails, S!BodyRaises
<1>3. CASE StartCapture
  BY <1>3 DEF StartCapture, S!Spawn
<1>4. CASE CaptureStartFails
  BY <1>4 DEF CaptureStartFails, S!StartFails
<1>5. CASE CaptureStarted
  BY <1>5 DEF CaptureStarted, S!Register
<1>6. CASE LoggerRunning
  BY <1>6 DEF LoggerRunning, S!RequireRunning, S!supVars
<1>7. CASE LoggerGone
  BY <1>7 DEF LoggerGone, S!RequireExited
<1>8. CASE NextStep
  BY <1>8 DEF NextStep, supVars
<1>9. CASE StepsDone
  BY <1>9 DEF StepsDone, S!BodyEnds
<1> QED
  BY <1>1, <1>2, <1>3, <1>4, <1>5, <1>6, <1>7, <1>8, <1>9 DEF StepLoop

(* Closing the supervisor turns a failure into an exception. *)
LEMMA TeardownKeeps == RefInv /\ CloseLoggers => RefInv'
<1> SUFFICES ASSUME RefInv, Executing("teardown"), S!Teardown, AfterExit,
                    UNCHANGED <<runVars, recipe, index, outputs, names, mode, lost>>
             PROVE  RefInv'
  BY DEF CloseLoggers
<1> USE DEF Executing, AfterExit, runVars, RefInv, EntryInv, InterruptInv, BeforeAction, S!Unwind,
            S!StopReturns
<1>1. CASE S!CloseNext
  BY <1>1 DEF S!CloseNext
<1>2. CASE S!EnterStop
  BY <1>2 DEF S!EnterStop
<1>3. CASE S!CloseDone
  BY <1>3 DEF S!CloseDone
<1>4. CASE S!Terminate
  BY <1>4 DEF S!Terminate
<1>5. CASE S!WaitReturns
  BY <1>5 DEF S!WaitReturns
<1>6. CASE S!GraceExpires
  BY <1>6 DEF S!GraceExpires
<1>7. CASE S!Kill
  BY <1>7 DEF S!Kill
<1>8. CASE S!Survives
  BY <1>8 DEF S!Survives
<1> QED
  BY <1>1, <1>2, <1>3, <1>4, <1>5, <1>6, <1>7, <1>8 DEF S!Teardown

(* The finally clause, and leaving execute. *)
LEMMA FinallyKeeps == RefInv /\ (MakePrivate \/ ExecuteReturns \/ ExecuteRaises) => RefInv'
<1> SUFFICES ASSUME RefInv, MakePrivate \/ ExecuteReturns \/ ExecuteRaises
             PROVE  RefInv'
  OBVIOUS
<1> USE DEF Executing, RefInv, EntryInv, InterruptInv, BeforeAction, LeaveExecute
<1>1. CASE MakePrivate
  BY <1>1 DEF MakePrivate, runVars, supVars
<1>2. CASE ExecuteReturns
  BY <1>2 DEF ExecuteReturns, supVars
<1>3. CASE ExecuteRaises
  BY <1>3 DEF ExecuteRaises, supVars
<1> QED
  BY <1>1, <1>2, <1>3

(* A signal of the action reaches execute as an interrupt. *)
LEMMA SignalKeeps == RefInv /\ SignalDelivered => RefInv'
<1> SUFFICES ASSUME RefInv, SignalDelivered
             PROVE  RefInv'
  OBVIOUS
<1> USE DEF RefInv, EntryInv, InterruptInv, BeforeAction, L!CountSignal, L!Raise, L!Landing,
            L!ProgramPoints, L!Hooks
<1>1. CASE pc # "action"
  <2>1. UNCHANGED <<supVars, execVars>>
    BY <1>1 DEF SignalDelivered
  <2>2. ASSUME NEW s \in L!Signals, L!HandledSignal(s)
        PROVE  RefInv'
    BY <1>1, <2>1, <2>2 DEF L!HandledSignal, supVars, execVars
  <2>3. CASE L!KeyboardInterrupt
    BY <1>1, <2>1, <2>3 DEF L!KeyboardInterrupt, supVars, execVars
  <2>4. CASE L!DefaultSigterm
    BY <1>1, <2>1, <2>4 DEF L!DefaultSigterm, supVars, execVars
  <2> QED
    BY <2>2, <2>3, <2>4 DEF SignalDelivered, L!Signal
<1>2. CASE pc = "action"
  <2>1. /\ configured' = configured
        /\ pc' = "action" => interrupted' /\ exc' = exc
        /\ pc' \in {"action", "unguard_run", "killed"}
    BY <1>2 DEF SignalDelivered, L!Signal, L!HandledSignal, L!KeyboardInterrupt, L!DefaultSigterm
  <2>2. CASE InterruptWith
    <3> USE DEF InterruptWith, AfterExit, S!Unwind, S!CountInterrupt
    <3>1. CASE S!InterruptBody
      BY <1>2, <2>1, <2>2, <3>1 DEF S!InterruptBody
    <3>2. CASE S!InterruptStop
      BY <1>2, <2>1, <2>2, <3>2 DEF S!InterruptStop
    <3>3. CASE S!InterruptClose
      BY <1>2, <2>1, <2>2, <3>3 DEF S!InterruptClose
    <3> QED
      BY <2>2, <3>1, <3>2, <3>3 DEF S!Interrupt
  <2>3. CASE InterruptFinally
    BY <1>2, <2>1, <2>3 DEF InterruptFinally, supVars
  <2> QED
    BY <1>2, <2>2, <2>3 DEF SignalDelivered
<1> QED
  BY <1>1, <1>2

(* The loggers touch neither the thread nor the registry. *)
LEMMA LoggersKeep == RefInv /\ (LoggerExits \/ LoggerWrites) => RefInv'
<1> SUFFICES ASSUME RefInv, LoggerExits \/ LoggerWrites
             PROVE  RefInv'
  OBVIOUS
<1> USE DEF RefInv, EntryInv, InterruptInv, BeforeAction, runVars
<1>1. CASE LoggerExits
  BY <1>1 DEF LoggerExits, S!Environment
<1>2. CASE LoggerWrites
  BY <1>2 DEF LoggerWrites, supVars
<1> QED
  BY <1>1, <1>2

LEMMA RefStep == RefInv /\ [RunNext]_vars => RefInv'
<1>1. RefInv /\ UNCHANGED vars => RefInv'
  BY DEF RefInv, EntryInv, InterruptInv, BeforeAction, vars, runVars, supVars, execVars
<1> QED
  BY <1>1, AroundKeeps, StepLoopKeeps, TeardownKeeps, FinallyKeeps, SignalKeeps, LoggersKeep
  DEF RunNext, AfterSteps

-----------------------------------------------------------------------------

(* Every step of the command is a step of execute_with_hooks, or none of its
   own: an interrupted execute does not return. *)
LEMMA LifecycleStep == RefInv /\ [RunNext]_vars => [L!Next]_L!vars
<1> SUFFICES ASSUME RefInv, [RunNext]_vars
             PROVE  L!Next \/ UNCHANGED L!vars
  OBVIOUS
<1> USE DEF runVars, L!vars
<1>1. CASE AroundExecute
  BY <1>1 DEF AroundExecute, L!Next
<1>2. CASE StepLoop
  BY <1>2 DEF StepLoop, StepSucceeds, StepFails, StartCapture, CaptureStartFails, CaptureStarted,
              LoggerRunning, LoggerGone, NextStep, StepsDone
<1>3. CASE CloseLoggers \/ MakePrivate
  BY <1>3 DEF CloseLoggers, MakePrivate
<1>4. CASE ExecuteReturns
  <2>1. ~interrupted /\ exc = "none"
    BY <1>4 DEF ExecuteReturns, Executing, RefInv, InterruptInv
  <2> QED
    BY <1>4, <2>1 DEF ExecuteReturns, Executing, LeaveExecute, L!Next, L!ActionStep, L!ActionReturns,
       L!signalVars
<1>5. CASE ExecuteRaises
  <2>1. \E e \in {"action_error", "interrupted"} : LeaveExecute(e) /\ (e = "interrupted" => interrupted)
    BY <1>5 DEF ExecuteRaises, Executing, RefInv, InterruptInv
  <2> QED
    BY <1>5, <2>1 DEF ExecuteRaises, Executing, LeaveExecute, L!Next, L!ActionStep, L!ActionRaises,
       L!signalVars
<1>6. CASE SignalDelivered
  BY <1>6 DEF SignalDelivered, L!Next
<1>7. CASE LoggerExits \/ LoggerWrites
  BY <1>7 DEF LoggerExits, LoggerWrites
<1>8. CASE UNCHANGED vars
  BY <1>8 DEF vars
<1> QED
  BY <1>1, <1>2, <1>3, <1>4, <1>5, <1>6, <1>7, <1>8 DEF RunNext, AfterSteps

(* The `run` command keeps the specification of execute_with_hooks: every
   signal, failure and return of the recipe executor is one its action may
   have, and an interrupted execute never returns. *)
THEOREM LifecycleKept == RunSpec => KeepsLifecycle
<1>1. RunInit => L!Init
  BY DEF RunInit
<1> QED
  BY <1>1, RefInit, RefStep, LifecycleStep, PTL DEF RunSpec, KeepsLifecycle, L!Spec

-----------------------------------------------------------------------------

(* The step being executed is one of the recipe, and its output is listed
   before its logger can write. *)
IndexInv ==
  /\ epc \in {"launching", "check"} => index \in Steps
  /\ epc = "launching" => index \in outputs

ExecTypeOK ==
  /\ recipe \in [Steps -> {"capture", "other"}]
  /\ epc \in {"steps", "launching", "check", "teardown", "chmod", "abandoned", "done"}
  /\ index \in 1..(MaxSteps + 1)
  /\ names \subseteq outputs /\ outputs \subseteq Steps
  /\ todo \subseteq outputs
  /\ mode \in [Steps -> {"absent", "loose", "private"}]
  /\ lost \subseteq Steps /\ cut \in BOOLEAN
  /\ IndexInv

TypeInv == L!TypeOK /\ S!SupTypeOK /\ ExecTypeOK

(* The modules whose theorems the command inherits. *)

LP == INSTANCE RunLifecycleProofs
SP == INSTANCE ProcessSupervisorProofs
        WITH Names <- Steps, MaxProcs <- MaxSteps, MaxInterrupts <- MaxSignals, CanFork <- FALSE

(* RunLifecycle, and the module that proves its theorems, say the same. *)
LEMMA SameLifecycle == /\ L!Init => LP!Init
                       /\ [L!Next]_L!vars => [LP!Next]_LP!vars
  BY DEF L!Signals, LP!Signals, L!Hooks, LP!Hooks, L!vars, LP!vars, L!signalVars, LP!signalVars,
         L!ProgramPoints, LP!ProgramPoints, L!GuardedPoints, LP!GuardedPoints, L!Landing,
         LP!Landing, L!AfterHook, LP!AfterHook, L!Unset, LP!Unset, L!Init, LP!Init,
         L!PreflightPasses, LP!PreflightPasses, L!PreflightFails, LP!PreflightFails, L!Install,
         LP!Install, L!EnterGuard, LP!EnterGuard, L!Restore, LP!Restore, L!LeaveGuard,
         LP!LeaveGuard, L!SkipHook, LP!SkipHook, L!HookError, LP!HookError, L!LaunchHook,
         LP!LaunchHook, L!LaunchFails, LP!LaunchFails, L!HookSucceeds, LP!HookSucceeds,
         L!HookFails, LP!HookFails, L!EnterRun, LP!EnterRun, L!ActionReturns, LP!ActionReturns,
         L!ActionRaises, LP!ActionRaises, L!RecordPrimary, LP!RecordPrimary, L!Raise, LP!Raise,
         L!CountSignal, LP!CountSignal, L!HandledSignal, LP!HandledSignal, L!KeyboardInterrupt,
         LP!KeyboardInterrupt, L!DefaultSigterm, LP!DefaultSigterm, L!Signal, LP!Signal,
         L!HookStep, LP!HookStep, L!GuardStep, LP!GuardStep, L!CallStep, LP!CallStep,
         L!ActionStep, LP!ActionStep, L!Next, LP!Next

(* So do the two of the supervisor. *)
LEMMA SameSupervisor == /\ S!SupInit => SP!SupInit
                        /\ [S!SupNext]_S!supVars => [SP!SupNext]_SP!supVars
                        /\ S!Teardown => SP!Teardown
                        /\ S!Interrupt => SP!Interrupt
                        /\ S!Environment => SP!Environment
  BY DEF S!Procs, SP!Procs, S!supVars, SP!supVars, S!osVars, SP!osVars, S!SupInit, SP!SupInit,
         S!IsTracked, SP!IsTracked, S!GroupExists, SP!GroupExists, S!Unwind, SP!Unwind,
         S!StopReturns, SP!StopReturns, S!Spawn, SP!Spawn, S!Register, SP!Register, S!StartFails,
         SP!StartFails, S!RequireRunning, SP!RequireRunning, S!RequireUntracked,
         SP!RequireUntracked, S!RequireExited, SP!RequireExited, S!WaitFor, SP!WaitFor, S!Stop,
         SP!Stop, S!StopUntracked, SP!StopUntracked, S!BodyRaises, SP!BodyRaises, S!BodyEnds,
         SP!BodyEnds, S!CloseNext, SP!CloseNext, S!EnterStop, SP!EnterStop, S!CloseDone,
         SP!CloseDone, S!Terminate, SP!Terminate, S!WaitReturns, SP!WaitReturns, S!GraceExpires,
         SP!GraceExpires, S!Kill, SP!Kill, S!Survives, SP!Survives, S!CountInterrupt,
         SP!CountInterrupt, S!InterruptBody, SP!InterruptBody, S!InterruptStop, SP!InterruptStop,
         S!InterruptClose, SP!InterruptClose, S!Interrupt, SP!Interrupt, S!LeaderExits,
         SP!LeaderExits, S!Fork, SP!Fork, S!DescendantExits, SP!DescendantExits, S!Environment,
         SP!Environment, S!BodyStep, SP!BodyStep, S!Teardown, SP!Teardown, S!SupNext, SP!SupNext

(* And their type invariants. *)
LEMMA SameTypes == (L!TypeOK <=> LP!TypeOK) /\ (S!SupTypeOK <=> SP!SupTypeOK)
  BY DEF L!TypeOK, LP!TypeOK, L!Signals, LP!Signals, L!Hooks, LP!Hooks, L!ProgramPoints,
         LP!ProgramPoints, L!Errors, LP!Errors, S!SupTypeOK, SP!SupTypeOK, S!Procs, SP!Procs,
         S!Stopping, SP!Stopping

LEMMA SameTypesNext == (L!TypeOK' <=> LP!TypeOK') /\ (S!SupTypeOK' <=> SP!SupTypeOK')
  BY SameTypes, PTL

(* The assumptions of the supervisor, of the recipe's loggers. *)
LEMMA SupervisorBounds ==
  Steps # {} /\ MaxSteps \in Nat /\ MaxSignals \in Nat /\ FALSE \in BOOLEAN
  BY RecipeAssumption DEF Steps

(* The type invariant of execute_with_hooks, kept by its steps. *)
LEMMA LifecycleTypeStep == L!TypeOK /\ [L!Next]_L!vars => L!TypeOK'
<1>1. MaxSignals \in Nat
  BY RecipeAssumption
<1> QED
  BY <1>1, SameLifecycle, SameTypes, SameTypesNext, LP!TypeStep

(* What the main thread does with the supervisor in this composition: stop is
   never called for one name. *)
SupStep ==
  \/ S!Register \/ S!StartFails \/ S!BodyRaises \/ S!BodyEnds
  \/ \E i \in Steps : S!Spawn(i) \/ S!RequireExited(i)
  \/ S!Teardown \/ S!Interrupt \/ S!Environment

(* Every step of the command is a step of its supervisor, or none of it. *)
LEMMA SupervisorStep == TypeInv /\ [RunNext]_vars => [SupStep]_supVars
<1> SUFFICES ASSUME TypeInv, [RunNext]_vars
             PROVE  SupStep \/ UNCHANGED supVars
  OBVIOUS
<1>1. CASE StepLoop
  <2>1. CASE StartCapture
    BY <2>1 DEF StartCapture, SupStep
  <2>2. CASE LoggerGone
    <3>1. PICK p \in tracked : nameOf[p] = Min(todo)
      BY <2>2 DEF LoggerGone, S!RequireExited
    <3>2. p \in S!Procs /\ nameOf \in [S!Procs -> Steps]
      BY <3>1, RecipeAssumption DEF TypeInv, S!SupTypeOK, S!Procs
    <3>3. Min(todo) \in Steps
      BY <3>1, <3>2
    <3> QED
      BY <2>2, <3>3 DEF LoggerGone, SupStep
  <2> QED
    BY <1>1, <2>1, <2>2 DEF StepLoop, StepSucceeds, StepFails, CaptureStartFails, CaptureStarted,
       LoggerRunning, S!RequireRunning, S!supVars, supVars, NextStep, StepsDone, SupStep
<1>2. CASE AfterSteps
  BY <1>2 DEF AfterSteps, CloseLoggers, MakePrivate, ExecuteReturns, ExecuteRaises, LeaveExecute,
              SupStep
<1>3. CASE SignalDelivered
  BY <1>3 DEF SignalDelivered, InterruptWith, InterruptFinally, SupStep
<1>4. CASE AroundExecute \/ LoggerExits \/ LoggerWrites \/ UNCHANGED vars
  BY <1>4 DEF AroundExecute, LoggerExits, LoggerWrites, vars, SupStep
<1> QED
  BY <1>1, <1>2, <1>3, <1>4 DEF RunNext

(* The supervisor of the command is a ProcessSupervisor. *)
LEMMA SupStepKeeps == SupStep => [S!SupNext]_S!supVars
  BY DEF SupStep, S!SupNext, S!BodyStep, supVars, S!supVars

(* The type invariant of the supervisor, kept by its steps. *)
LEMMA SupervisorTypeStep == S!SupTypeOK /\ [SupStep]_supVars => S!SupTypeOK'
<1>1. [SupStep]_supVars => [S!SupNext]_S!supVars
  BY SupStepKeeps DEF supVars, S!supVars
<1> QED
  BY <1>1, SupervisorBounds, SameSupervisor, SameTypes, SameTypesNext, SP!SupTypeStep

(* The variables of the recipe executor keep their types. *)
LEMMA ExecTypeStep == ExecTypeOK /\ [RunNext]_vars => ExecTypeOK'
<1> SUFFICES ASSUME ExecTypeOK, [RunNext]_vars
             PROVE  ExecTypeOK'
  OBVIOUS
<1> USE RecipeAssumption DEF Executing, Steps, ExecTypeOK, IndexInv
<1>1. CASE StepLoop
  <2>1. CASE StepSucceeds \/ StepFails \/ StepsDone
    BY <2>1 DEF StepSucceeds, StepFails, StepsDone
  <2>2. CASE StartCapture \/ CaptureStartFails \/ CaptureStarted
    BY <2>2 DEF StartCapture, CaptureStartFails, CaptureStarted
  <2>3. CASE LoggerRunning \/ LoggerGone
    BY <2>3 DEF LoggerRunning, LoggerGone
  <2>4. CASE NextStep
    BY <2>4 DEF NextStep
  <2> QED
    BY <1>1, <2>1, <2>2, <2>3, <2>4 DEF StepLoop
<1>2. CASE AfterSteps
  BY <1>2 DEF AfterSteps, CloseLoggers, AfterExit, MakePrivate, ExecuteReturns, ExecuteRaises,
              LeaveExecute
<1>3. CASE SignalDelivered
  <2>1. CASE InterruptWith
    BY <2>1 DEF InterruptWith, AfterExit
  <2>2. CASE InterruptFinally \/ UNCHANGED execVars
    BY <2>2 DEF InterruptFinally, execVars
  <2> QED
    BY <1>3, <2>1, <2>2 DEF SignalDelivered
<1>4. CASE AroundExecute \/ LoggerExits \/ LoggerWrites \/ UNCHANGED vars
  BY <1>4 DEF AroundExecute, LoggerExits, LoggerWrites, execVars, vars
<1> QED
  BY <1>1, <1>2, <1>3, <1>4 DEF RunNext

LEMMA TypeInvStep == RefInv /\ TypeInv /\ [RunNext]_vars => TypeInv'
  BY LifecycleStep, LifecycleTypeStep, SupervisorStep, SupervisorTypeStep, ExecTypeStep DEF TypeInv

(* Initially every variable has its type. *)
LEMMA TypeInvInit == RunInit => TypeInv
<1> SUFFICES ASSUME RunInit
             PROVE  TypeInv
  OBVIOUS
<1> USE RecipeAssumption DEF Steps
<1>1. L!TypeOK
  <2>1. /\ hook \in [L!Hooks -> {"idle", "running", "ok", "failed", "killed"}]
        /\ invoked \in [L!Hooks -> Nat]
        /\ handler \in [L!Signals -> {"default", "interrupt"}]
        /\ saved \in [L!Signals -> {"unset", "default", "interrupt"}]
    BY DEF RunInit, L!Init, L!Unset
  <2>2. signals \in 0..MaxSignals
    BY DEF RunInit, L!Init
  <2> QED
    BY <2>1, <2>2 DEF RunInit, L!Init, L!TypeOK, L!ProgramPoints
<1>2. S!SupTypeOK
  <2>1. (CHOOSE n \in Steps : TRUE) \in Steps
    BY 1 \in Steps
  <2>2. nameOf \in [S!Procs -> Steps]
    BY <2>1 DEF RunInit, S!SupInit
  <2>3. leader \in [S!Procs -> {"unborn", "running", "zombie", "reaped"}]
    BY DEF RunInit, S!SupInit
  <2> QED
    BY <2>2, <2>3 DEF RunInit, S!SupInit, S!SupTypeOK, S!Stopping
<1>3. ExecTypeOK
  <2>1. mode \in [Steps -> {"absent", "loose", "private"}]
    BY DEF RunInit
  <2>2. cut \in BOOLEAN
    BY DEF RunInit
  <2> QED
    BY <2>1, <2>2 DEF RunInit, ExecTypeOK, IndexInv
<1> QED
  BY <1>1, <1>2, <1>3 DEF TypeInv

(* What every state of the command satisfies. *)
LEMMA TypeInvHolds == RunSpec => [](RefInv /\ TypeInv)
  BY RefInit, RefStep, TypeInvInit, TypeInvStep, PTL DEF RunSpec

(* Every variable of the command keeps its type, with any number of steps and
   signals (executor.py:76-117, process.py:115-204, run.py:118-218). *)
THEOREM RunTypeCorrect == RunSpec => []RunTypeOK
<1>1. TypeInv => RunTypeOK
  BY DEF TypeInv, ExecTypeOK, RunTypeOK
<1> QED
  BY <1>1, TypeInvHolds, PTL

(* The command uses its supervisor as ProcessSupervisor allows: a capture is
   only started under a name that is free, and nothing but the teardown stops
   it (executor.py:95-117, process.py:115-204). *)
THEOREM SupervisorKept == RunSpec => S!SupSpec
<1>1. RunInit => S!SupInit
  BY DEF RunInit
<1>2. RefInv /\ TypeInv /\ [RunNext]_vars => [S!SupNext]_S!supVars
  BY SupervisorStep, SupStepKeeps DEF supVars, S!supVars
<1> QED
  BY <1>1, <1>2, TypeInvHolds, PTL DEF RunSpec, S!SupSpec

-----------------------------------------------------------------------------
(* What a run leaves behind, for any number of steps and signals: no       *)
(* running logger under the restoration hook, no output with the mode its  *)
(* logger gave it, no success with a capture lost.                         *)

Procs == 1..MaxSteps

(* Loggers the main thread still has to deal with. *)
Held(p) ==
  \/ p \in tracked
  \/ p = cur /\ spc \in {"popped"} \cup S!Stopping
  \/ p = started /\ spc = "spawned"

(* Nothing is stopped before the with statement is left.  A live logger is
   held unless a failure is on record, and a running one unless a failure is
   or a signal cut its start or the teardown short. *)
HoldInv ==
  /\ spc \in {"body", "spawned"} <=> ctx = "stop"
  /\ failures = 0 /\ raised = "none" =>
       \A p \in Procs : leader[p] \in {"running", "zombie"} => Held(p)
  /\ failures = 0 /\ ~cut =>
       \A p \in Procs : leader[p] = "running" => Held(p)
  /\ spc = "closed" /\ raised = "none" => failures = 0 /\ tracked = {}
  /\ spc = "closed" /\ ~cut =>
       /\ tracked = {}
       /\ failures > 0 => raised \in {"cleanup", "run_cleanup"}

(* An interrupt anywhere but in the body of the with statement is a cut. *)
CutStep == /\ cut => cut'
           /\ interrupts' # interrupts /\ spc # "body" => cut'

(* The supervisor's part of the argument. *)
LEMMA HoldStep == S!SupTypeOK /\ HoldInv /\ CutStep /\ [SupStep]_supVars => HoldInv'
<1> SUFFICES ASSUME S!SupTypeOK, HoldInv, CutStep, [SupStep]_supVars
             PROVE  HoldInv'
  OBVIOUS
<1> USE RecipeAssumption DEF CutStep, Procs, S!Procs, S!osVars, S!Stopping, S!SupTypeOK, HoldInv, Held
<1>1. CASE S!Register
  BY <1>1 DEF S!Register
<1>2. CASE S!StartFails
  BY <1>2 DEF S!StartFails, S!Unwind
<1>3. CASE S!BodyRaises
  BY <1>3 DEF S!BodyRaises, S!Unwind
<1>4. CASE S!BodyEnds
  BY <1>4 DEF S!BodyEnds
<1>5. CASE S!CloseNext
  BY <1>5 DEF S!CloseNext
<1>6. CASE S!EnterStop
  BY <1>6 DEF S!EnterStop
<1>7. CASE S!CloseDone
  BY <1>7 DEF S!CloseDone
<1>8. CASE S!Terminate
  BY <1>8 DEF S!Terminate, S!StopReturns, S!GroupExists
<1>9. CASE S!WaitReturns
  BY <1>9 DEF S!WaitReturns, S!StopReturns
<1>10. CASE S!GraceExpires
  BY <1>10 DEF S!GraceExpires
<1>11. CASE S!Kill
  BY <1>11 DEF S!Kill, S!StopReturns, S!GroupExists
<1>12. CASE S!Survives
  BY <1>12 DEF S!Survives, S!Unwind
<1>13. CASE S!InterruptBody
  BY <1>13 DEF S!InterruptBody, S!CountInterrupt, S!Unwind
<1>14. CASE S!InterruptStop
  BY <1>14 DEF S!InterruptStop, S!CountInterrupt, S!Unwind
<1>15. CASE S!InterruptClose
  BY <1>15 DEF S!InterruptClose, S!CountInterrupt
<1>16. CASE S!Environment
  BY <1>16 DEF S!Environment, S!LeaderExits, S!Fork, S!DescendantExits
<1>17. ASSUME NEW i \in Steps, S!Spawn(i)
      PROVE  HoldInv'
  BY <1>17 DEF S!Spawn
<1>18. ASSUME NEW i \in Steps, S!RequireExited(i)
      PROVE  HoldInv'
  BY <1>18 DEF S!RequireExited, S!Unwind
<1>19. CASE UNCHANGED supVars
  BY <1>19 DEF supVars
<1> QED
  BY <1>1, <1>2, <1>3, <1>4, <1>5, <1>6, <1>7, <1>8, <1>9, <1>10, <1>11, <1>12, <1>13, <1>14,
     <1>15, <1>16, <1>17, <1>18, <1>19 DEF SupStep, S!Teardown, S!Interrupt

-----------------------------------------------------------------------------

(* The executor's part: its steps outside the supervisor interrupt nothing. *)
LEMMA CutKept == RefInv /\ S!SupTypeOK /\ [RunNext]_vars => CutStep
<1> SUFFICES ASSUME RefInv, S!SupTypeOK, [RunNext]_vars
             PROVE  CutStep
  OBVIOUS
<1> USE DEF CutStep
<1>1. CASE StepLoop
  BY <1>1 DEF StepLoop, StepSucceeds, supVars, StepFails, S!BodyRaises, StartCapture, S!Spawn,
     CaptureStartFails, S!StartFails, CaptureStarted, S!Register, LoggerRunning,
     S!RequireRunning, S!supVars, LoggerGone, S!RequireExited, NextStep, StepsDone, S!BodyEnds
<1>2. CASE CloseLoggers
  BY <1>2 DEF CloseLoggers, S!Teardown, S!CloseNext, S!EnterStop, S!CloseDone, S!Terminate,
     S!WaitReturns, S!GraceExpires, S!Kill, S!Survives
<1>3. CASE MakePrivate \/ ExecuteReturns \/ ExecuteRaises
  BY <1>3 DEF MakePrivate, ExecuteReturns, ExecuteRaises, LeaveExecute, supVars
<1>4. CASE SignalDelivered
  BY <1>4 DEF SignalDelivered, InterruptWith, InterruptFinally, supVars, execVars, RefInv,
     InterruptInv
<1>5. CASE LoggerExits
  BY <1>5 DEF LoggerExits, S!Environment, S!LeaderExits, S!Fork, S!DescendantExits
<1>6. CASE AroundExecute \/ LoggerWrites \/ UNCHANGED vars
  BY <1>6 DEF AroundExecute, LoggerWrites, vars, supVars, execVars
<1> QED
  BY <1>1, <1>2, <1>3, <1>4, <1>5, <1>6 DEF RunNext, AfterSteps

-----------------------------------------------------------------------------

(* While the action runs both handlers are those of the window, so a signal
   neither ends the process nor leaves execute as a KeyboardInterrupt. *)
WindowInv ==
  \A s \in L!Signals :
    /\ pc \in {"preflight", "handoff"} => saved[s] = "unset"
    /\ pc \in {"guard_preflight", "guard_run", "pre_run", "action"} =>
         (saved[s] # "unset" => handler[s] = "interrupt")
    /\ pc \in {"pre_run", "action"} => saved[s] # "unset"

LEMMA WindowStep == L!TypeOK /\ WindowInv /\ [L!Next]_L!vars => WindowInv'
<1> SUFFICES ASSUME L!TypeOK, WindowInv, [L!Next]_L!vars
             PROVE  WindowInv'
  OBVIOUS
<1> USE DEF WindowInv, L!Signals, L!signalVars, L!Hooks
<1>1. CASE L!CallStep
  BY <1>1 DEF L!CallStep, L!PreflightPasses, L!PreflightFails, L!EnterRun, L!RecordPrimary
<1>2. CASE L!GuardStep
  <2>1. CASE L!EnterGuard \/ L!LeaveGuard
    BY <2>1 DEF L!EnterGuard, L!LeaveGuard, L!Unset
  <2>2. ASSUME NEW s \in L!Signals, L!Install(s)
        PROVE  WindowInv'
    BY <2>2 DEF L!Install, L!TypeOK
  <2>3. ASSUME NEW s \in L!Signals, L!Restore(s)
        PROVE  WindowInv'
    BY <2>3 DEF L!Restore
  <2> QED
    BY <1>2, <2>1, <2>2, <2>3 DEF L!GuardStep
<1>3. CASE L!HookStep
  <2>1. pc \in L!Hooks /\ UNCHANGED <<handler, saved>>
    BY <1>3 DEF L!HookStep, L!SkipHook, L!LaunchHook, L!LaunchFails, L!HookSucceeds,
       L!HookFails, L!TypeOK
  <2>2. \/ pc' = pc
        \/ pc' \notin {"preflight", "handoff", "guard_preflight", "guard_run", "pre_run", "action"}
        \/ pc = "pre_run" /\ pc' = "action"
    BY <1>3, <2>1 DEF L!HookStep, L!SkipHook, L!AfterHook, L!LaunchHook, L!LaunchFails,
       L!HookError, L!Landing, L!HookSucceeds, L!HookFails
  <2> QED
    BY <2>1, <2>2
<1>4. CASE L!ActionStep
  BY <1>4 DEF L!ActionStep, L!ActionReturns, L!ActionRaises
<1>5. CASE L!Signal
  BY <1>5 DEF L!Signal, L!HandledSignal, L!KeyboardInterrupt, L!DefaultSigterm, L!Raise,
     L!Landing, L!CountSignal, L!ProgramPoints
<1>6. CASE UNCHANGED L!vars
  BY <1>6 DEF L!vars
<1> QED
  BY <1>1, <1>2, <1>3, <1>4, <1>5, <1>6 DEF L!Next

-----------------------------------------------------------------------------

(* Nothing happened yet when the action begins. *)
StartInv ==
  pc \in BeforeAction =>
    /\ index = 1 /\ started = 0
    /\ names = {} /\ lost = {}
    /\ \A p \in Procs : leader[p] = "unborn"

(* Only a signal in the finally clause abandons it. *)
SignalInv == ~cut => epc # "abandoned"

(* Where execute can be, by where the call is. *)
PlaceInv ==
  /\ epc \in {"chmod", "abandoned", "done"} => spc = "closed"
  /\ pc \notin BeforeAction \cup {"action"} =>
       epc = "done" \/ \A p \in Procs : leader[p] = "unborn"

(* A call that carries no exception after the action has seen it return. *)
ResultInv ==
  /\ exc = "none" /\ pc \notin BeforeAction \cup {"action", "killed"} =>
       epc = "done" /\ raised = "none"
  /\ pc = "except" => exc # "none"
  /\ hook["post_run"] = "running" => pc \in {"post_run", "killed"}
  /\ hook["post_run"] # "idle" => "post_run" \in configured
  /\ pc = "returned" /\ exc = "none" /\ "post_run" \in configured =>
       hook["post_run"] = "ok"

(* Each step starts at most one logger, named after the step. *)
NameInv ==
  /\ \A p \in Procs : leader[p] # "unborn" => p <= started /\ nameOf[p] \in outputs
  /\ \A p \in 1..started : nameOf[p] <= index
  /\ epc = "steps" => \A p \in 1..started : nameOf[p] < index
  /\ \A p, q \in 1..started : nameOf[p] = nameOf[q] => p = q
  /\ pc = "action" /\ epc \in {"steps", "launching", "check"} =>
       \A p \in tracked : nameOf[p] \in names
  /\ epc = "launching" => nameOf[started] = index

(* A logger lost during a step is found by the check after it: the loop over
   the loggers cannot finish, so the with statement raises. *)
LostInv ==
  /\ pc = "action" /\ epc \in {"steps", "launching", "check"} =>
       \A p \in lost : /\ leader[p] = "zombie"
                       /\ epc = "check" => nameOf[p] \in todo
  /\ epc = "steps" /\ index \notin Steps => lost = {}
  /\ raised = "none" /\ ctx = "close" => index = MaxSteps + 1 /\ lost = {}

(* Neither a failed teardown nor a cut kept the loggers from being reaped
   before the finally clause, and it ran to its end. *)
Clean ==
  \/ raised = "none" /\ exc = "none"
  \/ ~cut /\ raised \notin {"cleanup", "run_cleanup"}

(* The finally clause leaves no output it visited with its first mode. *)
ModeInv ==
  \A i \in Steps :
    mode[i] = "loose" =>
      /\ i \in outputs
      /\ epc = "chmod" /\ Clean => i \in todo
      /\ epc = "done" => ~Clean

OutInv == StartInv /\ SignalInv /\ PlaceInv /\ ResultInv /\ NameInv /\ LostInv /\ ModeInv

(* What is known of every state, and so of the states a step relates. *)
Known == RefInv /\ TypeInv /\ HoldInv /\ WindowInv

(* After a clean with statement no logger runs. *)
LEMMA Quiet == Known /\ SignalInv /\ Clean /\ spc = "closed"
                 => \A p \in Procs : leader[p] # "running"
<1> SUFFICES ASSUME Known, SignalInv, Clean, spc = "closed", NEW p \in Procs
             PROVE  leader[p] # "running"
  OBVIOUS
<1>1. tracked = {} /\ ~Held(p)
  BY DEF Known, SignalInv, Clean, HoldInv, Held, S!Stopping
<1>2. failures = 0
  BY DEF Known, SignalInv, Clean, HoldInv, TypeInv, S!SupTypeOK
<1> QED
  BY <1>1, <1>2 DEF Known, SignalInv, Clean, HoldInv

(* The guards and hooks around the action start it only without an exception,
   and end the call normally only after it. *)
LEMMA AroundOutcome == Known /\ Known' /\ OutInv /\ AroundExecute => OutInv'
<1> SUFFICES ASSUME Known, Known', OutInv, AroundExecute
             PROVE  OutInv'
  OBVIOUS
<1> USE RecipeAssumption
    DEF AroundExecute, supVars, execVars, L!signalVars, L!Hooks, L!Signals, L!ProgramPoints
<1>1. CASE L!PreflightPasses
  BY <1>1 DEF L!PreflightPasses, OutInv, StartInv, SignalInv, PlaceInv, ResultInv, NameInv,
     LostInv, ModeInv, Clean, BeforeAction
<1>2. CASE L!PreflightFails
  BY <1>2 DEF L!PreflightFails, OutInv, StartInv, SignalInv, PlaceInv, ResultInv, NameInv,
     LostInv, ModeInv, Clean, BeforeAction
<1>3. CASE L!EnterRun
  BY <1>3 DEF L!EnterRun, OutInv, StartInv, SignalInv, PlaceInv, ResultInv, NameInv, LostInv,
     ModeInv, Clean, BeforeAction
<1>4. CASE L!RecordPrimary
  BY <1>4 DEF L!RecordPrimary, OutInv, StartInv, SignalInv, PlaceInv, ResultInv, NameInv,
     LostInv, ModeInv, Clean, BeforeAction
<1>5. CASE L!EnterGuard
  BY <1>5 DEF L!EnterGuard, OutInv, StartInv, SignalInv, PlaceInv, ResultInv, NameInv, LostInv,
     ModeInv, Clean, BeforeAction
<1>6. CASE L!LeaveGuard
  BY <1>6 DEF L!LeaveGuard, OutInv, StartInv, SignalInv, PlaceInv, ResultInv, NameInv, LostInv,
     ModeInv, Clean, BeforeAction
<1>7. CASE L!SkipHook
  <2>1. NameInv' /\ LostInv' /\ ModeInv'
    BY <1>7 DEF L!SkipHook, L!AfterHook, Known, OutInv, StartInv, NameInv, BeforeAction,
       TypeInv, S!SupTypeOK, LostInv, ModeInv, Clean
  <2>2. StartInv' /\ SignalInv' /\ PlaceInv'
    BY <1>7 DEF L!SkipHook, L!AfterHook, OutInv, StartInv, BeforeAction, SignalInv, PlaceInv
  <2>3. ResultInv'
    <3>1. UNCHANGED <<exc, hook, configured, epc, raised>>
      BY <1>7 DEF L!SkipHook
    <3>2. \/ pc = "preflight_hook" /\ pc' = "unguard_preflight"
          \/ pc = "pre_run" /\ pc' = "action"
          \/ pc = "post_run" /\ pc' = "returned" /\ "post_run" \notin configured
      BY <1>7 DEF L!SkipHook, L!AfterHook
    <3> QED
      BY <3>1, <3>2 DEF OutInv, ResultInv, BeforeAction
  <2> QED
    BY <2>1, <2>2, <2>3 DEF OutInv
<1>8. CASE L!LaunchHook
  BY <1>8 DEF L!LaunchHook, OutInv, StartInv, SignalInv, PlaceInv, ResultInv, NameInv, LostInv,
     ModeInv, Clean
<1>9. CASE L!LaunchFails
  <2>1. NameInv' /\ LostInv' /\ ModeInv'
    BY <1>9 DEF L!LaunchFails, L!HookError, Known, OutInv, NameInv, RefInv, InterruptInv,
       LostInv, ModeInv, Clean
  <2>2. StartInv' /\ SignalInv' /\ PlaceInv' /\ ResultInv'
    BY <1>9 DEF L!LaunchFails, L!HookError, L!Landing, Known, OutInv, StartInv, BeforeAction,
       RefInv, EntryInv, SignalInv, PlaceInv, ResultInv
  <2> QED
    BY <2>1, <2>2 DEF OutInv
<1>10. CASE L!HookSucceeds
  <2>1. NameInv' /\ LostInv' /\ ModeInv'
    BY <1>10 DEF L!HookSucceeds, L!AfterHook, Known, OutInv, StartInv, NameInv, BeforeAction,
       RefInv, EntryInv, TypeInv, S!SupTypeOK, LostInv, ModeInv, Clean
  <2>2. StartInv' /\ SignalInv' /\ PlaceInv' /\ ResultInv'
    BY <1>10 DEF L!HookSucceeds, L!AfterHook, Known, OutInv, StartInv, BeforeAction, RefInv,
       EntryInv, SignalInv, PlaceInv, ResultInv, TypeInv, L!TypeOK
  <2> QED
    BY <2>1, <2>2 DEF OutInv
<1>11. CASE L!HookFails
  <2>1. NameInv' /\ LostInv' /\ ModeInv'
    BY <1>11 DEF L!HookFails, L!HookError, Known, OutInv, NameInv, RefInv, InterruptInv,
       LostInv, ModeInv, Clean
  <2>2. StartInv' /\ SignalInv' /\ PlaceInv' /\ ResultInv'
    BY <1>11 DEF L!HookFails, L!HookError, L!Landing, Known, OutInv, StartInv, BeforeAction,
       RefInv, EntryInv, SignalInv, PlaceInv, ResultInv, TypeInv, L!TypeOK
  <2> QED
    BY <2>1, <2>2 DEF OutInv
<1>12. ASSUME NEW s \in L!Signals, L!Install(s)
      PROVE  OutInv'
  BY <1>12 DEF L!Install, OutInv, StartInv, SignalInv, PlaceInv, ResultInv, NameInv, LostInv,
     ModeInv, Clean
<1>13. ASSUME NEW s \in L!Signals, L!Restore(s)
      PROVE  OutInv'
  BY <1>13 DEF L!Restore, OutInv, StartInv, SignalInv, PlaceInv, ResultInv, NameInv, LostInv,
     ModeInv, Clean
<1> QED
  BY <1>1, <1>2, <1>3, <1>4, <1>5, <1>6, <1>7, <1>8, <1>9, <1>10, <1>11, <1>12, <1>13 DEF
     AroundExecute, L!CallStep, L!GuardStep, L!HookStep

(* The step loop ends normally only after a check that found every logger. *)
LEMMA LoopOutcome == Known /\ Known' /\ OutInv /\ StepLoop => OutInv'
<1> SUFFICES ASSUME Known, Known', OutInv, StepLoop
             PROVE  OutInv'
  OBVIOUS
<1> USE RecipeAssumption DEF runVars
<1>1. CASE StepSucceeds
  <2>1. StartInv' /\ SignalInv' /\ PlaceInv' /\ ResultInv' /\ NameInv' /\ ModeInv'
    BY <1>1 DEF StepSucceeds, supVars, OutInv, StartInv, SignalInv, PlaceInv, ResultInv,
       NameInv, ModeInv, Executing
  <2>2. LostInv'
    <3>1. /\ spc = "body" /\ failures = 0 /\ raised = "none" /\ ctx = "stop"
          /\ lost \subseteq Procs
      BY <1>1 DEF StepSucceeds, Executing, Known, RefInv, InterruptInv, TypeInv, ExecTypeOK,
         Steps, Procs
    <3>2. \A p \in lost : leader[p] = "zombie"
      BY <1>1 DEF StepSucceeds, Executing, OutInv, LostInv
    <3>3. \A p \in lost : p \in tracked
      BY <3>1, <3>2 DEF Known, HoldInv, Held, S!Stopping
    <3>4. \A p \in lost : nameOf[p] \in names
      BY <1>1, <3>3 DEF StepSucceeds, Executing, OutInv, NameInv
    <3> QED
      BY <1>1, <3>1, <3>2, <3>4 DEF StepSucceeds, supVars, LostInv
  <2> QED
    BY <2>1, <2>2 DEF OutInv
<1>2. CASE StepFails
  <2>1. NameInv' /\ LostInv' /\ ModeInv'
    BY <1>2 DEF StepFails, S!BodyRaises, OutInv, NameInv, S!osVars, S!Unwind, LostInv, ModeInv
  <2>2. StartInv' /\ SignalInv' /\ PlaceInv' /\ ResultInv'
    BY <1>2 DEF StepFails, OutInv, StartInv, BeforeAction, Executing, S!BodyRaises, S!Unwind,
       SignalInv, PlaceInv, ResultInv
  <2> QED
    BY <2>1, <2>2 DEF OutInv
<1>3. CASE StartCapture
  <2>1. NameInv' /\ LostInv' /\ ModeInv'
    BY <1>3 DEF StartCapture, S!Spawn, Known, OutInv, NameInv, Steps, Procs, Executing, TypeInv,
       S!SupTypeOK, LostInv, ModeInv
  <2>2. StartInv' /\ SignalInv' /\ PlaceInv' /\ ResultInv'
    BY <1>3 DEF StartCapture, OutInv, StartInv, BeforeAction, Executing, S!Spawn, SignalInv,
       PlaceInv, ResultInv
  <2> QED
    BY <2>1, <2>2 DEF OutInv
<1>4. CASE CaptureStartFails
  <2>1. NameInv' /\ LostInv' /\ ModeInv'
    BY <1>4 DEF CaptureStartFails, S!StartFails, OutInv, NameInv, S!osVars, S!Unwind, LostInv,
       ModeInv
  <2>2. StartInv' /\ SignalInv' /\ PlaceInv' /\ ResultInv'
    BY <1>4 DEF CaptureStartFails, OutInv, StartInv, BeforeAction, Executing, S!StartFails,
       S!Unwind, SignalInv, PlaceInv, ResultInv
  <2> QED
    BY <2>1, <2>2 DEF OutInv
<1>5. CASE CaptureStarted
  <2>1. NameInv' /\ ModeInv'
    BY <1>5 DEF CaptureStarted, S!Register, OutInv, NameInv, Executing, S!osVars, ModeInv
  <2>2. StartInv' /\ SignalInv' /\ PlaceInv' /\ ResultInv'
    BY <1>5 DEF CaptureStarted, OutInv, StartInv, BeforeAction, Executing, S!Register,
       SignalInv, PlaceInv, ResultInv
  <2>3. LostInv'
    <3>1. /\ spc = "spawned" /\ failures = 0 /\ raised = "none" /\ ctx = "stop"
          /\ lost \subseteq Procs
      BY <1>5 DEF CaptureStarted, S!Register, Executing, Known, RefInv, InterruptInv, TypeInv,
         ExecTypeOK, Steps, Procs
    <3>2. \A p \in lost : leader[p] = "zombie"
      BY <1>5 DEF CaptureStarted, Executing, OutInv, LostInv
    <3>3. \A p \in lost : p \in tracked \/ p = started
      BY <3>1, <3>2 DEF Known, HoldInv, Held, S!Stopping
    <3>4. \A p \in lost : nameOf[p] \in names \cup {index}
      BY <1>5, <3>3 DEF CaptureStarted, Executing, OutInv, NameInv
    <3> QED
      BY <1>5, <3>1, <3>2, <3>4 DEF CaptureStarted, S!Register, S!osVars, LostInv
  <2> QED
    BY <2>1, <2>2, <2>3 DEF OutInv
<1>6. CASE LoggerRunning
  <2>1. NameInv' /\ LostInv' /\ ModeInv'
    BY <1>6 DEF LoggerRunning, S!RequireRunning, S!supVars, OutInv, NameInv, Known, LostInv,
       Steps, Procs, TypeInv, ExecTypeOK, S!SupTypeOK, ModeInv, Executing
  <2>2. StartInv' /\ SignalInv' /\ PlaceInv' /\ ResultInv'
    BY <1>6 DEF LoggerRunning, S!RequireRunning, S!supVars, OutInv, StartInv, SignalInv,
       PlaceInv, ResultInv
  <2> QED
    BY <2>1, <2>2 DEF OutInv
<1>7. CASE LoggerGone
  BY <1>7 DEF LoggerGone, S!RequireExited, S!Unwind, OutInv, StartInv, SignalInv, PlaceInv,
     ResultInv, NameInv, LostInv, ModeInv
<1>8. CASE NextStep
  <2>1. StartInv' /\ SignalInv' /\ PlaceInv' /\ ResultInv' /\ LostInv' /\ ModeInv'
    BY <1>8 DEF NextStep, supVars, Known, OutInv, StartInv, SignalInv, PlaceInv, ResultInv,
       LostInv, ModeInv, BeforeAction, Executing, RefInv, InterruptInv
  <2>2. NameInv'
    <3>1. index \in Nat /\ index' = index + 1
      BY <1>8, index \in 1..(MaxSteps + 1) DEF NextStep, Known, TypeInv, ExecTypeOK
    <3>2. \A p \in 1..started : nameOf[p] \in Nat /\ nameOf[p] <= index
      <4>1. 1..started \subseteq S!Procs /\ nameOf \in [S!Procs -> Steps]
        BY DEF Known, TypeInv, S!SupTypeOK, S!Procs
      <4> QED
        BY <4>1 DEF Steps, OutInv, NameInv
    <3>3. UNCHANGED <<pc, started, nameOf, tracked, outputs, names, leader>> /\ epc' = "steps"
      BY <1>8 DEF NextStep, supVars
    <3>4. pc = "action" /\ epc = "check"
      BY <1>8 DEF NextStep, Executing
    <3> QED
      BY <3>1, <3>2, <3>3, <3>4 DEF OutInv, NameInv
  <2> QED
    BY <2>1, <2>2 DEF OutInv
<1>9. CASE StepsDone
  <2>1. NameInv' /\ LostInv' /\ ModeInv'
    BY <1>9 DEF StepsDone, S!BodyEnds, OutInv, NameInv, S!osVars, Known, LostInv, Steps,
       Executing, TypeInv, ExecTypeOK, ModeInv
  <2>2. StartInv' /\ SignalInv' /\ PlaceInv' /\ ResultInv'
    BY <1>9 DEF StepsDone, OutInv, StartInv, BeforeAction, Executing, S!BodyEnds, SignalInv,
       PlaceInv, ResultInv
  <2> QED
    BY <2>1, <2>2 DEF OutInv
<1> QED
  BY <1>1, <1>2, <1>3, <1>4, <1>5, <1>6, <1>7, <1>8, <1>9 DEF StepLoop

(* The teardown of the supervisor visits no output. *)
LEMMA ExitOutcome == Known /\ Known' /\ OutInv /\ CloseLoggers => OutInv'
<1> SUFFICES ASSUME Known, Known', OutInv, CloseLoggers
             PROVE  OutInv'
  OBVIOUS
<1> USE RecipeAssumption DEF CloseLoggers, AfterExit, runVars
<1>1. CASE S!CloseNext
  <2>1. NameInv' /\ LostInv' /\ ModeInv'
    BY <1>1 DEF S!CloseNext, OutInv, NameInv, S!osVars, LostInv, ModeInv
  <2>2. StartInv' /\ SignalInv' /\ PlaceInv' /\ ResultInv'
    BY <1>1 DEF OutInv, StartInv, BeforeAction, Executing, S!CloseNext, SignalInv, PlaceInv,
       ResultInv
  <2> QED
    BY <2>1, <2>2 DEF OutInv
<1>2. CASE S!EnterStop
  <2>1. NameInv' /\ LostInv' /\ ModeInv'
    BY <1>2 DEF S!EnterStop, OutInv, NameInv, S!osVars, LostInv, ModeInv
  <2>2. StartInv' /\ SignalInv' /\ PlaceInv' /\ ResultInv'
    BY <1>2 DEF OutInv, StartInv, BeforeAction, Executing, S!EnterStop, SignalInv, PlaceInv,
       ResultInv
  <2> QED
    BY <2>1, <2>2 DEF OutInv
<1>3. CASE S!CloseDone
  <2>1. NameInv' /\ LostInv' /\ ModeInv'
    BY <1>3 DEF S!CloseDone, OutInv, NameInv, S!osVars, LostInv, ModeInv
  <2>2. StartInv' /\ SignalInv' /\ PlaceInv' /\ ResultInv'
    BY <1>3 DEF OutInv, StartInv, BeforeAction, Executing, S!CloseDone, SignalInv, PlaceInv,
       ResultInv
  <2> QED
    BY <2>1, <2>2 DEF OutInv
<1>4. CASE S!Terminate
  <2>1. NameInv' /\ LostInv' /\ ModeInv'
    BY <1>4 DEF S!Terminate, OutInv, NameInv, S!osVars, LostInv, ModeInv
  <2>2. StartInv' /\ SignalInv' /\ PlaceInv' /\ ResultInv'
    BY <1>4 DEF OutInv, StartInv, BeforeAction, Executing, S!Terminate, SignalInv, PlaceInv,
       ResultInv
  <2> QED
    BY <2>1, <2>2 DEF OutInv
<1>5. CASE S!WaitReturns
  BY <1>5 DEF S!WaitReturns, OutInv, StartInv, SignalInv, PlaceInv, ResultInv, NameInv, LostInv,
     ModeInv
<1>6. CASE S!GraceExpires
  <2>1. NameInv' /\ LostInv' /\ ModeInv'
    BY <1>6 DEF S!GraceExpires, OutInv, NameInv, S!osVars, LostInv, ModeInv
  <2>2. StartInv' /\ SignalInv' /\ PlaceInv' /\ ResultInv'
    BY <1>6 DEF OutInv, StartInv, BeforeAction, Executing, S!GraceExpires, SignalInv, PlaceInv,
       ResultInv
  <2> QED
    BY <2>1, <2>2 DEF OutInv
<1>7. CASE S!Kill
  <2>1. NameInv' /\ LostInv' /\ ModeInv'
    BY <1>7 DEF S!Kill, OutInv, NameInv, S!osVars, LostInv, ModeInv
  <2>2. StartInv' /\ SignalInv' /\ PlaceInv' /\ ResultInv'
    BY <1>7 DEF OutInv, StartInv, BeforeAction, Executing, S!Kill, SignalInv, PlaceInv,
       ResultInv
  <2> QED
    BY <2>1, <2>2 DEF OutInv
<1>8. CASE S!Survives
  <2>1. NameInv' /\ LostInv' /\ ModeInv'
    BY <1>8 DEF S!Survives, OutInv, NameInv, S!osVars, S!Unwind, LostInv, ModeInv
  <2>2. StartInv' /\ SignalInv' /\ PlaceInv' /\ ResultInv'
    BY <1>8 DEF OutInv, StartInv, BeforeAction, Executing, S!Survives, S!Unwind, SignalInv,
       PlaceInv, ResultInv
  <2> QED
    BY <2>1, <2>2 DEF OutInv
<1> QED
  BY <1>1, <1>2, <1>3, <1>4, <1>5, <1>6, <1>7, <1>8 DEF CloseLoggers, S!Teardown

(* The finally clause makes every output it visits private. *)
LEMMA FinallyOutcome ==
  Known /\ Known' /\ OutInv /\ (MakePrivate \/ ExecuteReturns \/ ExecuteRaises) => OutInv'
<1> SUFFICES ASSUME Known, Known', OutInv, MakePrivate \/ ExecuteReturns \/ ExecuteRaises
             PROVE  OutInv'
  OBVIOUS
<1> USE RecipeAssumption DEF LeaveExecute, supVars, runVars
<1>1. CASE MakePrivate
  <2>1. NameInv' /\ LostInv' /\ ModeInv'
    BY <1>1 DEF MakePrivate, OutInv, NameInv, LostInv, Executing, Known, ModeInv, Clean,
       TypeInv, ExecTypeOK
  <2>2. StartInv' /\ SignalInv' /\ PlaceInv' /\ ResultInv'
    BY <1>1 DEF MakePrivate, OutInv, StartInv, SignalInv, PlaceInv, ResultInv
  <2> QED
    BY <2>1, <2>2 DEF OutInv
<1>2. CASE ExecuteReturns
  BY <1>2 DEF ExecuteReturns, Known, OutInv, StartInv, SignalInv, PlaceInv, ResultInv, NameInv,
     LostInv, ModeInv, Clean, BeforeAction, Executing, RefInv, InterruptInv
<1>3. CASE ExecuteRaises
  BY <1>3 DEF ExecuteRaises, OutInv, StartInv, SignalInv, PlaceInv, ResultInv, NameInv, LostInv,
     ModeInv, Clean, BeforeAction, Executing
<1> QED
  BY <1>1, <1>2, <1>3

(* A logger runs, and writes its output, only while it is held. *)
LEMMA LoggerOutcome ==
  Known /\ Known' /\ OutInv /\ (LoggerExits \/ LoggerWrites \/ UNCHANGED vars) => OutInv'
<1> SUFFICES ASSUME Known, Known', OutInv, LoggerExits \/ LoggerWrites \/ UNCHANGED vars
             PROVE  OutInv'
  OBVIOUS
<1> USE RecipeAssumption DEF runVars, supVars, execVars
<1>1. CASE LoggerExits
  <2>1. StartInv' /\ SignalInv' /\ PlaceInv' /\ ResultInv' /\ ModeInv'
    BY <1>1 DEF LoggerExits, S!Environment, S!LeaderExits, S!Fork, S!DescendantExits, OutInv,
       StartInv, Procs, S!Procs, SignalInv, PlaceInv, ResultInv, ModeInv, Clean
  <2>2. NameInv'
    <3>1. \A p \in Procs : leader'[p] # "unborn" => leader[p] # "unborn"
      BY <1>1 DEF LoggerExits, S!Environment, S!LeaderExits, S!Fork, S!DescendantExits, Procs,
         S!Procs, Known, TypeInv, S!SupTypeOK
    <3>2. UNCHANGED <<pc, started, nameOf, tracked, epc, index, outputs, names>>
      BY <1>1 DEF LoggerExits, S!Environment
    <3> QED
      BY <3>1, <3>2 DEF OutInv, NameInv
  <2>3. LostInv'
    <3>1. \A q \in Procs : leader'[q] # leader[q] => leader[q] = "running" /\ leader'[q] = "zombie"
      BY <1>1 DEF LoggerExits, S!Environment, S!LeaderExits, S!Fork, S!DescendantExits, Procs,
         S!Procs, Known, TypeInv, S!SupTypeOK
    <3>2. lost \subseteq Procs
      BY DEF Known, TypeInv, ExecTypeOK, Steps, Procs
    <3>3. /\ lost' = lost \/ (pc = "action" /\ epc \in {"steps", "launching"} /\ index \in Steps)
          /\ \A q \in lost' : q \in lost \/ (q \in Procs /\ leader'[q] # leader[q])
          /\ UNCHANGED <<pc, epc, index, nameOf, todo, raised, ctx>>
      BY <1>1 DEF LoggerExits, S!Environment, Steps, Procs
    <3>4. pc = "action" /\ epc \in {"steps", "launching"} => ctx = "stop"
      BY DEF Known, RefInv, InterruptInv
    <3> QED
      BY <3>1, <3>2, <3>3, <3>4 DEF OutInv, LostInv
  <2> QED
    BY <2>1, <2>2, <2>3 DEF OutInv
<1>2. CASE LoggerWrites
  <2>1. StartInv' /\ SignalInv' /\ PlaceInv' /\ ResultInv' /\ NameInv' /\ LostInv'
    BY <1>2 DEF LoggerWrites, OutInv, StartInv, SignalInv, PlaceInv, ResultInv, NameInv, LostInv
  <2>2. ModeInv'
    <3>1. PICK p \in Steps : /\ leader[p] = "running"
                             /\ mode' = [mode EXCEPT ![nameOf[p]] = "loose"]
      BY <1>2 DEF LoggerWrites
    <3>2. nameOf[p] \in outputs
      BY <3>1 DEF OutInv, NameInv, Steps, Procs
    <3>3. ~(Clean /\ spc = "closed")
      BY <3>1, Quiet DEF OutInv, Steps, Procs
    <3>4. \A i \in Steps : i # nameOf[p] => mode'[i] = mode[i]
      BY <3>1 DEF Known, TypeInv, ExecTypeOK
    <3>5. Clean' = Clean /\ UNCHANGED <<outputs, epc, todo>>
      BY <1>2 DEF LoggerWrites, Clean
    <3> QED
      BY <3>2, <3>3, <3>4, <3>5 DEF OutInv, ModeInv, PlaceInv
  <2> QED
    BY <2>1, <2>2 DEF OutInv
<1>3. CASE UNCHANGED vars
  BY <1>3 DEF vars, OutInv, StartInv, SignalInv, PlaceInv, ResultInv, NameInv, LostInv, ModeInv,
     Clean
<1> QED
  BY <1>1, <1>2, <1>3

(* What a signal does to the call: an exception leaves the point it reached,
   unless the process ends or execute takes it over. *)
LEMMA SignalEffect ==
  ASSUME Known, ResultInv, SignalDelivered
  PROVE  /\ pc' \in BeforeAction => pc \in BeforeAction
         /\ pc' = "action" <=> pc = "action"
         /\ exc' = "none" => exc = "none" /\ pc' \in {"action", "killed"}
         /\ hook'["post_run"] = "running" => pc' = "killed"
         /\ hook'["post_run"] # "idle" => hook["post_run"] # "idle"
         /\ configured' = configured
<1> USE DEF SignalDelivered, L!CountSignal, L!Raise, L!Landing, L!ProgramPoints, L!Hooks, BeforeAction
<1>1. pc = "action" => \A s \in L!Signals : handler[s] = "interrupt"
  BY DEF Known, WindowInv
<1>2. hook["post_run"] = "running" => pc \in {"post_run", "killed"}
  BY DEF ResultInv
<1>3. ASSUME NEW s \in L!Signals, L!HandledSignal(s)
      PROVE  /\ pc' \in BeforeAction => pc \in BeforeAction
             /\ pc' = "action" <=> pc = "action"
             /\ exc' = "none" => exc = "none" /\ pc' = "action"
             /\ hook'["post_run"] # "running"
             /\ hook'["post_run"] # "idle" => hook["post_run"] # "idle"
             /\ configured' = configured
  <2>1. CASE pc = "action"
    BY <1>2, <1>3, <2>1 DEF L!HandledSignal
  <2>2. CASE pc # "action"
    BY <1>3, <2>2 DEF L!HandledSignal
  <2> QED
    BY <2>1, <2>2
<1>4. CASE L!KeyboardInterrupt
  BY <1>1, <1>4 DEF L!KeyboardInterrupt, L!Signals
<1>5. CASE L!DefaultSigterm
  BY <1>1, <1>5 DEF L!DefaultSigterm, L!Signals
<1> QED
  BY <1>3, <1>4, <1>5 DEF L!Signal

(* A signal: the with statement and the finally clause are left early. *)
LEMMA SignalOutcome == Known /\ Known' /\ OutInv /\ SignalDelivered => OutInv'
<1> SUFFICES ASSUME Known, Known', OutInv, SignalDelivered
             PROVE  OutInv'
  OBVIOUS
<1>1. /\ pc' \in BeforeAction => pc \in BeforeAction
      /\ pc' = "action" <=> pc = "action"
      /\ exc' = "none" => exc = "none" /\ pc' \in {"action", "killed"}
      /\ hook'["post_run"] = "running" => pc' = "killed"
      /\ hook'["post_run"] # "idle" => hook["post_run"] # "idle"
      /\ configured' = configured
  BY SignalEffect DEF OutInv
<1>2. SignalInv'
  BY DEF SignalDelivered, InterruptWith, AfterExit, InterruptFinally, execVars, OutInv, SignalInv
<1>3. ResultInv'
  BY <1>1 DEF OutInv, ResultInv
<1>4. CASE pc # "action" /\ UNCHANGED <<supVars, execVars>>
  <2>1. StartInv' /\ PlaceInv' /\ NameInv' /\ LostInv'
    BY <1>1, <1>4 DEF OutInv, StartInv, PlaceInv, NameInv, LostInv, supVars, execVars
  <2>2. Clean' => Clean
    BY <1>1, <1>4 DEF Clean, supVars, execVars
  <2>3. ModeInv'
    BY <1>4, <2>2 DEF OutInv, ModeInv, supVars, execVars
  <2> QED
    BY <1>2, <1>3, <2>1, <2>3 DEF OutInv
<1>5. CASE pc = "action" /\ InterruptWith
  <2>1. /\ pc' = "action" /\ pc' \notin BeforeAction
        /\ epc' = "chmod" => todo' = outputs
        /\ epc' = IF spc' = "closed" THEN "chmod" ELSE "teardown"
        /\ UNCHANGED <<recipe, index, outputs, names, mode, lost>>
        /\ UNCHANGED <<started, nameOf, tracked, leader>>
    BY <1>1, <1>5 DEF InterruptWith, AfterExit, S!Interrupt, S!InterruptBody, S!InterruptStop,
       S!InterruptClose, S!osVars, BeforeAction
  <2>2. /\ spc' = "closed" => raised' = "interrupt"
        /\ raised' = "none" => raised = "none" /\ ctx = "close"
    BY <1>5 DEF InterruptWith, S!Interrupt, S!InterruptBody, S!InterruptStop, S!InterruptClose,
       S!Unwind, Known, HoldInv, S!Stopping, TypeInv, S!SupTypeOK
  <2>3. StartInv' /\ PlaceInv'
    BY <1>1, <2>1 DEF StartInv, PlaceInv
  <2>4. NameInv'
    BY <2>1 DEF OutInv, NameInv
  <2>5. LostInv'
    BY <2>1, <2>2 DEF OutInv, LostInv
  <2>6. ModeInv'
    BY <1>1, <2>1, <2>2 DEF OutInv, ModeInv, Clean
  <2> QED
    BY <1>2, <1>3, <2>3, <2>4, <2>5, <2>6 DEF OutInv
<1>6. CASE pc = "action" /\ InterruptFinally
  <2>1. /\ pc' = "action" /\ pc' \notin BeforeAction
        /\ epc \in {"chmod", "abandoned"} /\ epc' = "abandoned"
        /\ UNCHANGED <<supVars, recipe, index, outputs, names, todo, mode, lost>>
    BY <1>1, <1>6 DEF InterruptFinally, BeforeAction
  <2>2. StartInv' /\ PlaceInv' /\ NameInv' /\ LostInv' /\ ModeInv'
    BY <1>1, <2>1 DEF OutInv, StartInv, PlaceInv, NameInv, LostInv, ModeInv, supVars
  <2> QED
    BY <1>2, <1>3, <2>2 DEF OutInv
<1> QED
  BY <1>4, <1>5, <1>6 DEF SignalDelivered

-----------------------------------------------------------------------------

(* Before the action nothing was started, stopped or written. *)
LEMMA OutInit == RunInit => HoldInv /\ WindowInv /\ OutInv
<1> SUFFICES ASSUME RunInit
             PROVE  HoldInv /\ WindowInv /\ OutInv
  OBVIOUS
<1> USE RecipeAssumption DEF RunInit, L!Init, S!SupInit, Steps, Procs, S!Procs
<1>1. HoldInv
  BY DEF HoldInv, Held
<1>5. WindowInv
  BY DEF WindowInv, L!Unset
<1>2. StartInv /\ SignalInv /\ PlaceInv
  BY DEF StartInv, SignalInv, PlaceInv, BeforeAction
<1>3. ResultInv
  BY DEF ResultInv, BeforeAction, L!Hooks
<1>4. NameInv /\ LostInv /\ ModeInv
  BY DEF NameInv, LostInv, ModeInv
<1> QED
  BY <1>1, <1>2, <1>3, <1>4, <1>5 DEF OutInv

(* The strengthening is kept by every step of the command. *)
LEMMA OutStep == Known /\ Known' /\ OutInv /\ [RunNext]_vars => OutInv'
  BY AroundOutcome, LoopOutcome, ExitOutcome, FinallyOutcome, SignalOutcome, LoggerOutcome
  DEF RunNext, AfterSteps

(* The strengthening holds throughout the command (executor.py:76-117,
   process.py:115-204, run.py:118-163). *)
THEOREM OutcomeInvariant == RunSpec => [](Known /\ OutInv)
<1>1. RunInit => HoldInv /\ WindowInv /\ OutInv
  BY OutInit
<1>2. RefInv /\ TypeInv /\ HoldInv /\ [RunNext]_vars => HoldInv'
  BY SupervisorStep, CutKept, HoldStep DEF TypeInv
<1>3. RefInv /\ TypeInv /\ WindowInv /\ [RunNext]_vars => WindowInv'
  BY LifecycleStep, WindowStep DEF TypeInv
<1>4. /\ Known <=> RefInv /\ TypeInv /\ HoldInv /\ WindowInv
      /\ Known' <=> RefInv' /\ TypeInv' /\ HoldInv' /\ WindowInv'
  BY DEF Known
<1> QED
  BY <1>1, <1>2, <1>3, <1>4, TypeInvHolds, OutStep, PTL DEF RunSpec

(* A run that reports success executed every step, reaped every logger, left
   every output private and had its restoration hook succeed, however many
   steps and signals there were (executor.py:95-117, run.py:147-163). *)
THEOREM SuccessCompletes == RunSpec => []SuccessIsComplete
<1>1. Known /\ OutInv => SuccessIsComplete
  <2> SUFFICES ASSUME Known, OutInv, pc = "returned", exc = "none"
               PROVE  /\ index = MaxSteps + 1
                      /\ \A p \in Steps : leader[p] \in {"unborn", "reaped"}
                      /\ \A i \in Steps : mode[i] # "loose"
                      /\ "post_run" \in configured => hook["post_run"] = "ok"
    BY DEF SuccessIsComplete
  <2>1. /\ epc = "done" /\ raised = "none" /\ Clean
        /\ "post_run" \in configured => hook["post_run"] = "ok"
    BY DEF OutInv, ResultInv, Clean, BeforeAction
  <2>2. spc = "closed" /\ failures = 0 /\ tracked = {} /\ ctx = "close"
    BY <2>1 DEF Known, HoldInv, OutInv, PlaceInv, TypeInv, S!SupTypeOK
  <2>3. \A p \in Procs : leader[p] \notin {"running", "zombie"}
    BY <2>1, <2>2 DEF Known, HoldInv, Held, S!Stopping
  <2>4. \A p \in Steps : leader[p] \in {"unborn", "reaped"}
    BY <2>3 DEF Known, TypeInv, S!SupTypeOK, S!Procs, Procs, Steps
  <2> QED
    BY <2>1, <2>2, <2>4 DEF OutInv, LostInv, ModeInv
<1> QED
  BY <1>1, OutcomeInvariant, PTL

(* A run during which a logger exited while a step was executing does not
   report success (executor.py:111-112, process.py:161-171). *)
THEOREM LostCaptureReported == RunSpec => []LostCaptureIsReported
<1>1. Known /\ OutInv => LostCaptureIsReported
  BY DEF Known, HoldInv, TypeInv, S!SupTypeOK, OutInv, ResultInv, PlaceInv, LostInv,
     BeforeAction, LostCaptureIsReported
<1> QED
  BY <1>1, OutcomeInvariant, PTL

(* While the post-run hook runs no logger does, interrupted or not, unless a
   signal fell between Popen and the registry or cut the teardown short, or a
   logger survived SIGKILL (executor.py:96, run.py:151-159). *)
THEOREM RestoreFollowsTeardown == RunSpec => []RestoreAfterTeardown
<1>1. Known /\ OutInv => RestoreAfterTeardown
  <2> SUFFICES ASSUME Known, OutInv, hook["post_run"] = "running", ~cut,
                      raised \notin {"cleanup", "run_cleanup"}
               PROVE  \A p \in Steps : leader[p] # "running"
    BY DEF RestoreAfterTeardown
  <2>1. pc \in {"post_run", "killed"}
    BY DEF OutInv, ResultInv
  <2>2. CASE epc = "done"
    BY <2>2, Quiet DEF OutInv, PlaceInv, Clean, Steps, Procs
  <2>3. CASE \A p \in Procs : leader[p] = "unborn"
    BY <2>3 DEF Steps, Procs
  <2> QED
    BY <2>1, <2>2, <2>3 DEF OutInv, PlaceInv, BeforeAction
<1> QED
  BY <1>1, OutcomeInvariant, PTL

(* Once execute is over, interrupted or not, no output keeps the mode its
   logger created it with, unless a signal cut a logger's start, the teardown
   or the finally clause short, or a logger survived (executor.py:113-116). *)
THEOREM OutputsMadePrivate == RunSpec => []OutputsEndPrivate
<1>1. OutInv => OutputsEndPrivate
  BY DEF OutInv, ModeInv, Clean, OutputsEndPrivate
<1> QED
  BY <1>1, OutcomeInvariant, PTL

-----------------------------------------------------------------------------
(* The theorems of the two modules hold of the command.                    *)

(* The command is a behaviour of the modules whose theorems are wanted. *)
LEMMA CommandKeeps == RunSpec => LP!Spec /\ SP!SupSpec
  BY LifecycleKept, SupervisorKept, SameLifecycle, SameSupervisor, PTL
  DEF KeepsLifecycle, L!Spec, LP!Spec, S!SupSpec, SP!SupSpec

(* What execute_with_hooks promises it keeps with execute as its action: the
   restoration hook is invoked once whatever is delivered inside the guarded
   windows, a refused run leaves the ownership alone, an interrupted run fails,
   the error of a failing restoration names the primary one, and a return
   restores the handlers (run.py:118-218, executor.py:85-117). *)
THEOREM LifecyclePromises ==
  RunSpec => [](/\ L!PostRunExactlyOnce /\ L!RefusedRunLeavesOwnership /\ L!InterruptedRunFails
                /\ L!PostFailureKeepsPrimary /\ L!NormalReturnRestoresHandlers)
<1>0. MaxSignals \in Nat
  BY RecipeAssumption
<1>1. LP!Spec => [](/\ LP!PostRunExactlyOnce /\ LP!RefusedRunLeavesOwnership
                    /\ LP!InterruptedRunFails /\ LP!PostFailureKeepsPrimary
                    /\ LP!NormalReturnRestoresHandlers)
  BY <1>0, LP!PostRunOnce, LP!RefusalIsClean, LP!InterruptsFailTheRun, LP!PrimaryIsKept,
     LP!HandlersAreRestored, PTL
<1>2. /\ LP!PostRunExactlyOnce => L!PostRunExactlyOnce
      /\ LP!RefusedRunLeavesOwnership => L!RefusedRunLeavesOwnership
      /\ LP!InterruptedRunFails => L!InterruptedRunFails
      /\ LP!PostFailureKeepsPrimary => L!PostFailureKeepsPrimary
      /\ LP!NormalReturnRestoresHandlers => L!NormalReturnRestoresHandlers
  BY DEF LP!PostRunExactlyOnce, L!PostRunExactlyOnce, LP!RefusedRunLeavesOwnership,
     L!RefusedRunLeavesOwnership, LP!InterruptedRunFails, L!InterruptedRunFails,
     LP!PostFailureKeepsPrimary, L!PostFailureKeepsPrimary, LP!NormalReturnRestoresHandlers,
     L!NormalReturnRestoresHandlers, LP!Hooks, L!Hooks, LP!Signals, L!Signals
<1> QED
  BY <1>1, <1>2, CommandKeeps, PTL

(* What the supervisor promises its loggers get from the run command: without
   an exception every one was reaped, without a signal one outlives the command
   only by surviving SIGKILL, and the latest is stopped first
   (process.py:115-204, executor.py:95-117). *)
THEOREM SupervisorPromises ==
  RunSpec => [](S!NormalExitMeansStopped /\ S!SurvivorsWereForced /\ S!ReverseStartupOrder)
<1>1. SP!SupSpec => [](/\ SP!NormalExitMeansStopped /\ SP!SurvivorsWereForced
                       /\ SP!ReverseStartupOrder)
  BY SupervisorBounds, SP!CleanExitStopsAll, SP!OnlyForcedSurvive, SP!ClosesInReverse, PTL
<1>2. /\ SP!NormalExitMeansStopped => S!NormalExitMeansStopped
      /\ SP!SurvivorsWereForced => S!SurvivorsWereForced
      /\ SP!ReverseStartupOrder => S!ReverseStartupOrder
  BY DEF SP!NormalExitMeansStopped, S!NormalExitMeansStopped, SP!SurvivorsWereForced,
     S!SurvivorsWereForced, SP!ReverseStartupOrder, S!ReverseStartupOrder, SP!Procs, S!Procs,
     SP!Stopping, S!Stopping
<1> QED
  BY <1>1, <1>2, CommandKeeps, PTL

-----------------------------------------------------------------------------
(* From the end of the action to the restoration hook.  That an interrupt  *)
(* reaches the hook is checked by TLC; what is proved here is the argument *)
(* behind it, without fairness.                                            *)

(* execute is being left, or execute_with_hooks is on its way to the hook. *)
Restoring ==
  /\ "post_run" \in configured
  /\ \/ pc = "action" /\ epc \in {"teardown", "chmod", "abandoned"}
     \/ pc \in {"unguard_run", "except"}
     \/ pc = "post_run" /\ hook["post_run"] = "idle"

Unrestored(s) == IF saved[s] = "unset" THEN 0 ELSE 1

(* A bound on the steps of the main thread before the hook is launched. *)
StepsToHook ==
  IF pc = "action"
  THEN IF epc = "teardown" THEN 6 + MaxSteps + SP!StepsLeft
       ELSE IF epc = "chmod" THEN 6 + Cardinality(todo) ELSE 6
  ELSE IF pc = "unguard_run" THEN 3 + Unrestored("SIGINT") + Unrestored("SIGTERM")
  ELSE IF pc = "except" THEN 2 ELSE 1

SignalsLeft == MaxSignals - signals
HookDistance == StepsToHook + SignalsLeft

(* Every step of the main thread and every signal brings the hook nearer, and
   the loggers do not push it away, unless a signal lands outside the guarded
   windows or its default ends the process (executor.py:95-117,
   run.py:138-163). *)
HookComesNearer ==
  [][Restoring =>
       \/ Restoring' /\ HookDistance' < HookDistance
       \/ Restoring' /\ HookDistance' = HookDistance /\ (LoggerExits \/ LoggerWrites)
       \/ invoked'["post_run"] = 1 \/ unguarded' \/ pc' = "killed"]_vars

(* An interrupt of the action is on its way to the hook, at a distance; and
   nothing on the way waits for a logger: teardown goes on, and the loop that
   restores the handlers has one to restore or is over. *)
HookIsAhead ==
  /\ pc = "action" /\ interrupted /\ "post_run" \in configured => Restoring
  /\ Restoring => HookDistance \in Nat
  /\ Restoring /\ pc = "action" /\ epc = "teardown" => SP!Closing /\ SP!CloseGoesOn
  /\ Restoring /\ pc = "unguard_run" /\ saved # L!Unset =>
       \E s \in L!Signals : saved[s] # "unset" /\ (s = "SIGTERM" => saved["SIGINT"] = "unset")

(* What is known on the way. *)
HookContext ==
  /\ RefInv /\ TypeInv /\ SP!SupTypeOK /\ SP!SupInv
  /\ pc \in {"unguard_run", "except"} => invoked["post_run"] = 0 /\ hook["post_run"] = "idle"
  /\ pc = "post_run" /\ hook["post_run"] = "idle" => invoked["post_run"] = 0

LEMMA HookContextHolds == RunSpec => []HookContext
<1>0. MaxSignals \in Nat
  BY RecipeAssumption
<1>1. LP!Spec => []LP!Inv
  BY <1>0, LP!InvHolds, PTL
<1>2. SP!SupSpec => [](SP!SupTypeOK /\ SP!SupInv)
  BY SupervisorBounds, SP!SupTypeCorrect, SP!SupInvHolds, PTL
<1>3. RefInv /\ TypeInv /\ SP!SupTypeOK /\ SP!SupInv /\ LP!Inv => HookContext
  BY DEF LP!Inv, LP!PostInv, LP!InRun, LP!InWindow, HookContext
<1> QED
  BY <1>1, <1>2, <1>3, CommandKeeps, TypeInvHolds, PTL

(* The outputs are finitely many. *)
LEMMA FiniteParts ==
  ASSUME TypeInv
  PROVE  /\ IsFiniteSet(todo) /\ Cardinality(todo) \in Nat
         /\ Cardinality(outputs) \in Nat /\ Cardinality(outputs) <= MaxSteps
<1>1. MaxSteps \in Nat /\ IsFiniteSet(1..MaxSteps) /\ Cardinality(1..MaxSteps) = MaxSteps
  <2>1. MaxSteps \in Nat
    BY RecipeAssumption
  <2> QED
    BY <2>1, FS_Interval
<1>2. todo \subseteq 1..MaxSteps /\ outputs \subseteq 1..MaxSteps
  BY <1>1 DEF TypeInv, ExecTypeOK, Steps
<1>3. \A part : part \subseteq 1..MaxSteps =>
        IsFiniteSet(part) /\ Cardinality(part) \in Nat /\ Cardinality(part) <= MaxSteps
  BY <1>1, FS_Subset, FS_CardinalityType
<1> QED
  BY <1>2, <1>3

(* The parts of the distance are numbers. *)
Distances ==
  /\ SP!StepsLeft \in Nat /\ SignalsLeft \in Nat /\ StepsToHook \in Nat
  /\ Unrestored("SIGINT") \in 0..1 /\ Unrestored("SIGTERM") \in 0..1

LEMMA DistanceTypes == TypeInv => Distances
<1> SUFFICES ASSUME TypeInv
             PROVE  Distances
  OBVIOUS
<1>1. SP!SupTypeOK
  BY SameTypes DEF TypeInv
<1>2. SP!StepsLeft \in Nat
  BY <1>1, SupervisorBounds, SP!StepsLeftType
<1>3. SignalsLeft \in Nat
  BY RecipeAssumption DEF SignalsLeft, TypeInv, L!TypeOK
<1>4. Unrestored("SIGINT") \in 0..1 /\ Unrestored("SIGTERM") \in 0..1
  BY DEF Unrestored
<1>5. StepsToHook \in Nat
  BY <1>2, <1>4, FiniteParts, RecipeAssumption DEF StepsToHook
<1> QED
  BY <1>2, <1>3, <1>4, <1>5 DEF Distances

LEMMA DistancesNext == TypeInv' => Distances'
  BY DistanceTypes, PTL

(* A set of steps that is not empty has a first one. *)
LEMMA FirstStep ==
  ASSUME NEW T \in SUBSET Steps, T # {}
  PROVE  Min(T) \in T
<1> DEFINE R == {ss \in Nat \X Nat : ss[1] < ss[2]}
<1>1. T \in SUBSET Nat
  BY RecipeAssumption DEF Steps
<1>2. IsWellFoundedOn(R, Nat)
  BY NatLessThanWellFounded DEF OpToRel
<1> HIDE DEF R
<1>3. PICK x \in T : \A y \in T : ~ (<<y, x>> \in R)
  BY <1>1, <1>2, WFMin, Zenon
<1>4. \A y \in T : ~ (y < x)
  BY <1>1, <1>3 DEF R
<1>5. \E z \in T : \A y \in T : z =< y
  BY <1>1, <1>4
<1> QED
  BY <1>5 DEF Min

(* A step that leaves the signals alone and has fewer steps to go. *)
LEMMA Nearer ==
  ASSUME TypeInv, TypeInv', signals' = signals, StepsToHook' < StepsToHook
  PROVE  HookDistance' < HookDistance
<1>1. SignalsLeft' = SignalsLeft
  BY DEF SignalsLeft
<1> QED
  BY <1>1, DistanceTypes, DistancesNext DEF HookDistance, Distances

(* A signal, with no more steps to go than before. *)
LEMMA NearerBySignal ==
  ASSUME TypeInv, TypeInv', signals' = signals + 1, StepsToHook' <= StepsToHook
  PROVE  HookDistance' < HookDistance
<1>1. SignalsLeft' = SignalsLeft - 1
  BY RecipeAssumption DEF SignalsLeft, TypeInv, L!TypeOK
<1>2. StepsToHook \in Nat /\ StepsToHook' \in Nat
  BY DistanceTypes, DistancesNext DEF Distances
<1>3. SignalsLeft \in Nat
  BY DistanceTypes DEF Distances
<1>4. HookDistance' = StepsToHook' + (SignalsLeft - 1) /\ HookDistance = StepsToHook + SignalsLeft
  BY <1>1 DEF HookDistance
<1>5. \A a, b, c \in Nat : a <= b => a + (c - 1) < b + c
  OBVIOUS
<1> QED
  BY <1>2, <1>3, <1>4, <1>5

(* Teardown of the loggers is the close of their supervisor. *)
LEMMA TeardownShrinks ==
  HookContext /\ pc = "action" /\ epc = "teardown" /\ (S!Teardown \/ S!Interrupt) =>
    SP!StepsLeft' < SP!StepsLeft
<1> SUFFICES ASSUME HookContext, pc = "action", epc = "teardown", S!Teardown \/ S!Interrupt
             PROVE  SP!StepsLeft' < SP!StepsLeft
  OBVIOUS
<1>1. SP!SupTypeOK /\ SP!SupInv /\ SP!Closing
  BY DEF HookContext, RefInv, InterruptInv, SP!Closing
<1>2. SP!Teardown \/ SP!Interrupt
  BY SameSupervisor
<1> QED
  BY <1>1, <1>2, SupervisorBounds, SP!CloseStep

(* One step of teardown, of its own or by an interrupt, is nearer to the finally
   clause or in it. *)
LEMMA ExitNearer ==
  ASSUME TypeInv, TypeInv', pc = "action", epc = "teardown", pc' = "action", AfterExit,
         SP!StepsLeft' < SP!StepsLeft
  PROVE  StepsToHook' < StepsToHook /\ epc' \in {"teardown", "chmod"}
<1>1. /\ SP!StepsLeft \in Nat /\ SP!StepsLeft' \in Nat /\ MaxSteps \in Nat
  BY DistanceTypes, DistancesNext, RecipeAssumption DEF Distances
<1>2. StepsToHook = 6 + MaxSteps + SP!StepsLeft
  BY DEF StepsToHook
<1>3. CASE spc' = "closed"
  <2>1. epc' = "chmod" /\ todo' = outputs
    BY <1>3 DEF AfterExit
  <2>2. StepsToHook' = 6 + Cardinality(outputs)
    BY <2>1 DEF StepsToHook
  <2> QED
    BY <1>1, <1>2, <2>1, <2>2, FiniteParts
<1>4. CASE spc' # "closed"
  <2>1. epc' = "teardown"
    BY <1>4 DEF AfterExit
  <2>2. StepsToHook' = 6 + MaxSteps + SP!StepsLeft'
    BY <2>1 DEF StepsToHook
  <2>3. \A a, b, c \in Nat : a < b => 6 + c + a < 6 + c + b
    OBVIOUS
  <2> QED
    BY <1>1, <1>2, <2>1, <2>2, <2>3
<1> QED
  BY <1>3, <1>4

(* Where a step of the main thread can lead. *)
NearerOrThere ==
  \/ Restoring' /\ HookDistance' < HookDistance
  \/ invoked'["post_run"] = 1 \/ unguarded' \/ pc' = "killed"

(* The guard of the run, and the hook. *)
LEMMA NearerAround ==
  ASSUME HookContext, TypeInv', Restoring, AroundExecute
  PROVE  NearerOrThere
<1> USE DEF AroundExecute, Restoring, L!signalVars
<1>0. TypeInv /\ configured \subseteq L!Hooks /\ invoked \in [L!Hooks -> Nat]
  BY DEF HookContext, TypeInv, L!TypeOK
<1>1. CASE L!RecordPrimary
  <2>1. pc = "except" /\ pc' = "post_run" /\ UNCHANGED <<hook, configured, signals>>
    BY <1>1 DEF L!RecordPrimary
  <2>2. StepsToHook' < StepsToHook
    BY <2>1 DEF StepsToHook
  <2> QED
    BY <1>0, <2>1, <2>2, Nearer DEF NearerOrThere, HookContext
<1>2. ASSUME NEW s \in L!Signals, L!Restore(s)
      PROVE  NearerOrThere
  <2>1. /\ pc = "unguard_run" /\ saved[s] # "unset" /\ saved' = [saved EXCEPT ![s] = "unset"]
        /\ UNCHANGED <<pc, hook, configured, signals>>
    BY <1>2 DEF L!Restore
  <2>2. saved \in [L!Signals -> {"unset", "default", "interrupt"}]
    BY <1>0 DEF TypeInv, L!TypeOK
  <2>3. s = "SIGINT" \/ s = "SIGTERM"
    BY DEF L!Signals
  <2>4. StepsToHook' < StepsToHook
    BY <2>1, <2>2, <2>3 DEF StepsToHook, Unrestored, L!Signals
  <2> QED
    BY <1>0, <2>1, <2>4, Nearer DEF NearerOrThere
<1>3. CASE L!LeaveGuard
  <2>1. /\ pc = "unguard_run" /\ pc' \in {"except", "post_run"}
        /\ UNCHANGED <<hook, configured, signals>>
    BY <1>3 DEF L!LeaveGuard
  <2>2. StepsToHook' < StepsToHook
    BY <1>0, <2>1, DistanceTypes DEF StepsToHook, Distances
  <2> QED
    BY <1>0, <2>1, <2>2, Nearer DEF NearerOrThere, HookContext
<1>4. CASE L!LaunchHook
  <2>1. pc = "post_run" /\ invoked' = [invoked EXCEPT ![pc] = @ + 1]
    BY <1>4, <1>0 DEF L!LaunchHook, L!Hooks
  <2> QED
    BY <1>0, <2>1 DEF NearerOrThere, HookContext, L!Hooks
<1>5. CASE L!LaunchFails
  <2>1. pc = "post_run" /\ invoked' = [invoked EXCEPT ![pc] = @ + 1]
    BY <1>5, <1>0 DEF L!LaunchFails, L!Hooks
  <2> QED
    BY <1>0, <2>1 DEF NearerOrThere, HookContext, L!Hooks
<1>6. ~ L!PreflightPasses /\ ~ L!PreflightFails /\ ~ L!EnterRun /\ ~ L!EnterGuard
      /\ ~ L!SkipHook /\ ~ L!HookSucceeds /\ ~ L!HookFails
      /\ \A s \in L!Signals : ~ L!Install(s)
  BY <1>0 DEF L!PreflightPasses, L!PreflightFails, L!EnterRun, L!EnterGuard, L!SkipHook,
     L!HookSucceeds, L!HookFails, L!Install, L!Hooks
<1> QED
  BY <1>1, <1>2, <1>3, <1>4, <1>5, <1>6 DEF L!CallStep, L!GuardStep, L!HookStep

(* Teardown and the finally clause. *)
LEMMA NearerAfter ==
  ASSUME HookContext, TypeInv', Restoring, AfterSteps
  PROVE  NearerOrThere
<1> USE DEF Executing, Restoring, runVars
<1>0. TypeInv
  BY DEF HookContext
<1>1. CASE CloseLoggers
  <2>1. /\ pc = "action" /\ epc = "teardown" /\ S!Teardown /\ AfterExit
        /\ UNCHANGED <<pc, configured, signals>>
    BY <1>1 DEF CloseLoggers
  <2>2. StepsToHook' < StepsToHook /\ epc' \in {"teardown", "chmod"}
    BY <1>0, <2>1, TeardownShrinks, ExitNearer
  <2> QED
    BY <1>0, <2>1, <2>2, Nearer DEF NearerOrThere
<1>2. CASE MakePrivate
  <2>1. /\ pc = "action" /\ epc = "chmod" /\ todo # {} /\ todo' = todo \ {Min(todo)}
        /\ UNCHANGED <<pc, configured, signals, epc>>
    BY <1>2 DEF MakePrivate
  <2>2. Min(todo) \in todo
    BY <1>0, <2>1, FirstStep DEF TypeInv, ExecTypeOK
  <2>3. Cardinality(todo') = Cardinality(todo) - 1 /\ Cardinality(todo) \in Nat
    BY <1>0, <2>1, <2>2, FiniteParts, FS_RemoveElement
  <2>4. StepsToHook' < StepsToHook
    BY <2>1, <2>3 DEF StepsToHook
  <2> QED
    BY <1>0, <2>1, <2>4, Nearer DEF NearerOrThere
<1>3. CASE ExecuteReturns \/ ExecuteRaises
  <2>1. /\ pc = "action" /\ epc \in {"chmod", "abandoned"} /\ pc' = "unguard_run"
        /\ UNCHANGED <<configured, signals, saved>>
    BY <1>3 DEF ExecuteReturns, ExecuteRaises, LeaveExecute
  <2>2. StepsToHook' = 3 + Unrestored("SIGINT") + Unrestored("SIGTERM")
    BY <2>1 DEF StepsToHook, Unrestored
  <2>3. StepsToHook >= 6
    BY <1>0, <2>1, FiniteParts DEF StepsToHook
  <2>4. StepsToHook \in Nat
    BY <1>0, DistanceTypes DEF Distances
  <2>5. StepsToHook' < StepsToHook
    BY <1>0, <2>2, <2>3, <2>4, DistanceTypes DEF Distances
  <2> QED
    BY <1>0, <2>1, <2>5, Nearer DEF NearerOrThere
<1> QED
  BY <1>1, <1>2, <1>3 DEF AfterSteps

(* A signal. *)
LEMMA NearerAtSignal ==
  ASSUME HookContext, TypeInv', Restoring, SignalDelivered
  PROVE  NearerOrThere
<1>0. TypeInv /\ MaxSteps \in Nat
  BY RecipeAssumption DEF HookContext
<1>1. /\ pc \in L!ProgramPoints /\ signals' = signals + 1 /\ configured' = configured
      /\ unguarded' = (unguarded \/ pc \notin L!GuardedPoints)
  BY DEF SignalDelivered, L!Signal, L!HandledSignal, L!KeyboardInterrupt, L!DefaultSigterm,
     L!CountSignal, L!Raise
<1>2. CASE pc \in {"except", "post_run"}
  BY <1>1, <1>2 DEF NearerOrThere, L!GuardedPoints
<1>3. CASE pc = "unguard_run"
  <2>1. pc' = "except" \/ pc' = "killed"
    BY <1>3 DEF SignalDelivered, L!Signal, L!HandledSignal, L!KeyboardInterrupt, L!DefaultSigterm,
       L!Raise, L!Landing
  <2>2. pc' = "except" => StepsToHook' <= StepsToHook
    BY <1>0, <1>3, DistanceTypes DEF StepsToHook, Distances
  <2> QED
    BY <1>0, <1>1, <2>1, <2>2, NearerBySignal DEF NearerOrThere, Restoring
<1>4. CASE pc = "action"
  <2>1. pc' \in {"action", "unguard_run", "killed"}
    BY <1>4 DEF SignalDelivered, L!Signal, L!HandledSignal, L!KeyboardInterrupt, L!DefaultSigterm,
       L!Raise, L!Landing
  <2>2. epc \in {"teardown", "chmod", "abandoned"}
    BY <1>4 DEF Restoring
  <2>3. StepsToHook >= 6 /\ StepsToHook \in Nat
    BY <1>0, <1>4, FiniteParts, DistanceTypes DEF StepsToHook, Distances
  <2>4. CASE pc' = "unguard_run"
    <3>1. StepsToHook' = 3 + Unrestored("SIGINT")' + Unrestored("SIGTERM")'
      BY <2>4 DEF StepsToHook
    <3>2. StepsToHook' <= StepsToHook
      BY <2>3, <3>1 DEF Unrestored
    <3> QED
      BY <1>0, <1>1, <2>4, <3>2, NearerBySignal DEF NearerOrThere, Restoring
  <2>5. CASE pc' = "action"
    <3>1. InterruptWith \/ InterruptFinally
      BY <1>4 DEF SignalDelivered
    <3>2. CASE InterruptWith
      <4>1. epc = "teardown" /\ S!Interrupt /\ AfterExit
        BY <2>2, <3>2 DEF InterruptWith
      <4>2. StepsToHook' < StepsToHook /\ epc' \in {"teardown", "chmod"}
        BY <1>0, <1>4, <2>5, <4>1, TeardownShrinks, ExitNearer
      <4>3. StepsToHook' <= StepsToHook
        BY <1>0, <4>2, DistanceTypes, DistancesNext DEF Distances
      <4> QED
        BY <1>0, <1>1, <2>5, <4>2, <4>3, NearerBySignal DEF NearerOrThere, Restoring
    <3>3. CASE InterruptFinally
      <4>1. epc' = "abandoned"
        BY <3>3 DEF InterruptFinally
      <4>2. StepsToHook' = 6
        BY <2>5, <4>1 DEF StepsToHook
      <4> QED
        BY <1>0, <1>1, <2>3, <2>5, <4>1, <4>2, NearerBySignal DEF NearerOrThere, Restoring
    <3> QED
      BY <3>1, <3>2, <3>3
  <2> QED
    BY <2>1, <2>4, <2>5 DEF NearerOrThere
<1> QED
  BY <1>2, <1>3, <1>4 DEF Restoring

(* The loggers. *)
LEMMA NoFurther ==
  ASSUME Restoring, LoggerExits \/ LoggerWrites
  PROVE  Restoring' /\ HookDistance' = HookDistance
<1>1. UNCHANGED <<runVars, epc, todo, tracked, spc>>
  BY DEF LoggerExits, LoggerWrites, S!Environment, supVars
<1> QED
  BY <1>1 DEF runVars, Restoring, HookDistance, StepsToHook, SignalsLeft, Unrestored, SP!StepsLeft

(* The distance to the restoration hook shrinks (executor.py:95-117,
   run.py:138-163). *)
THEOREM HookNearer == RunSpec => HookComesNearer
<1> DEFINE Advance ==
      \/ Restoring' /\ HookDistance' < HookDistance
      \/ Restoring' /\ HookDistance' = HookDistance /\ (LoggerExits \/ LoggerWrites)
      \/ invoked'["post_run"] = 1 \/ unguarded' \/ pc' = "killed"
<1>1. HookContext /\ HookContext' /\ [RunNext]_vars => [Restoring => Advance]_vars
  <2> SUFFICES ASSUME HookContext, HookContext', RunNext, Restoring
               PROVE  Advance
    BY DEF vars
  <2>1. TypeInv'
    BY DEF HookContext
  <2>2. CASE AroundExecute
    BY <2>1, <2>2, NearerAround DEF NearerOrThere
  <2>3. CASE AfterSteps
    BY <2>1, <2>3, NearerAfter DEF NearerOrThere
  <2>4. CASE SignalDelivered
    BY <2>1, <2>4, NearerAtSignal DEF NearerOrThere
  <2>5. CASE LoggerExits \/ LoggerWrites
    BY <2>5, NoFurther
  <2>6. ~ StepLoop
    BY DEF Restoring, StepLoop, StepSucceeds, StepFails, StartCapture, CaptureStartFails,
       CaptureStarted, LoggerRunning, LoggerGone, NextStep, StepsDone, Executing
  <2> QED
    BY <2>2, <2>3, <2>4, <2>5, <2>6 DEF RunNext
<1> QED
  BY <1>1, HookContextHolds, PTL DEF RunSpec, HookComesNearer

(* An interrupt of the action leads towards the restoration hook and never waits
   for a logger (executor.py:95-117, process.py:173-204, run.py:138-218). *)
THEOREM HookAhead == RunSpec => []HookIsAhead
<1>1. SP!SupSpec => []SP!CloseGoesOn
  BY SupervisorBounds, SP!CloseIsNeverStuck, PTL
<1>2. HookContext /\ SP!CloseGoesOn => HookIsAhead
  <2> SUFFICES ASSUME HookContext, SP!CloseGoesOn
               PROVE  HookIsAhead
    OBVIOUS
  <2>0. RefInv /\ TypeInv
    BY DEF HookContext
  <2>1. pc = "action" /\ interrupted /\ "post_run" \in configured => Restoring
    BY <2>0 DEF RefInv, InterruptInv, Restoring, TypeInv, ExecTypeOK
  <2>2. HookDistance \in Nat
    BY <2>0, DistanceTypes DEF HookDistance, Distances
  <2>3. pc = "action" /\ epc = "teardown" => SP!Closing
    BY <2>0 DEF RefInv, InterruptInv, SP!Closing
  <2>4. saved # L!Unset =>
          \E s \in L!Signals : saved[s] # "unset" /\ (s = "SIGTERM" => saved["SIGINT"] = "unset")
    <3>1. saved \in [L!Signals -> {"unset", "default", "interrupt"}]
      BY <2>0 DEF TypeInv, L!TypeOK
    <3>2. ASSUME saved["SIGINT"] = "unset", saved["SIGTERM"] = "unset"
          PROVE  saved = L!Unset
      BY <3>1, <3>2 DEF L!Unset, L!Signals
    <3> QED
      BY <3>2 DEF L!Signals
  <2> QED
    BY <2>1, <2>2, <2>3, <2>4 DEF HookIsAhead
<1> QED
  BY <1>1, <1>2, CommandKeeps, HookContextHolds, PTL
=============================================================================
