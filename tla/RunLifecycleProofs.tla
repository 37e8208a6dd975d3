------------------------- MODULE RunLifecycleProofs -------------------------
(***************************************************************************)
(* Theorems about RunLifecycle, for any number of signals.                 *)
(***************************************************************************)
EXTENDS RunLifecycle, TLAPS

BeforeRun == {"preflight", "guard_preflight", "preflight_hook",
              "unguard_preflight", "handoff"}
InWindow == {"guard_run", "pre_run", "action", "unguard_run"}
InRun == InWindow \cup {"except", "post_run"}
RunErrors == {"hook_error", "action_error", "interrupted", "keyboard"}

(* The ownership hooks stay untouched before the run is attempted. *)
AttemptInv ==
  /\ pc \in BeforeRun => ~attempted
  /\ pc \in InRun => attempted
  /\ ~attempted => invoked["pre_run"] = 0 /\ invoked["post_run"] = 0

(* A preflight hook that did not succeed is on its way out of the call. *)
PreflightInv ==
  /\ \A h \in Hooks : hook[h] # "idle" => h \in configured
  /\ hook["preflight_hook"] = "running" => pc \in {"preflight_hook", "killed"}
  /\ hook["preflight_hook"] \in {"failed", "killed"}
       => /\ ~attempted
          /\ pc \in {"unguard_preflight", "returned", "killed"}
          /\ pc = "unguard_preflight" => exc # "none"

(* The restoration hook is called at its own program point, once. *)
PostInv ==
  /\ invoked["post_run"] <= 1
  /\ pc \in InRun \ {"post_run"} => invoked["post_run"] = 0 /\ hook["post_run"] = "idle"
  /\ pc = "post_run" => invoked["post_run"] = IF hook["post_run"] = "idle" THEN 0 ELSE 1
  /\ ~attempted => hook["post_run"] = "idle"
  /\ (pc = "returned" /\ attempted /\ "post_run" \in configured /\ ~unguarded)
       => invoked["post_run"] = 1

(* What is known of the propagating exception. *)
ExcInv ==
  /\ pc \in ProgramPoints => exc \in RunErrors \cup {"none"}
  /\ pc = "except" => exc # "none"
  /\ interrupted => exc # "none" \/ pc \in {"action", "killed"}
  /\ pc \in BeforeRun \cup {"guard_run", "pre_run"} => hook["pre_run"] \in {"idle", "running"} \/ exc # "none"
  /\ hook["pre_run"] = "running" => pc \in {"pre_run", "killed"}
  /\ hook["pre_run"] \in {"failed", "killed"} => exc # "none"
  /\ pc \in BeforeRun \cup InWindow => primary = "none"
  /\ pc = "post_run" /\ ~unguarded => primary = exc
  /\ (pc = "returned" /\ exc = "post_hook_error" /\ ~unguarded
        /\ (interrupted \/ hook["pre_run"] \in {"failed", "killed"}))
       => cause \in RunErrors

(* Inside a window the saved handlers are the defaults, and an unsaved     *)
(* signal still has its default; outside, a leak implies an exception.     *)
HandlerInv ==
  \A s \in Signals :
    /\ pc \in BeforeRun \cup InWindow =>
         /\ saved[s] \in {"unset", "default"}
         /\ saved[s] = "unset" => handler[s] = "default"
    /\ pc \in {"preflight", "handoff"} => saved[s] = "unset"
    /\ pc \in {"except", "post_run", "returned"} /\ exc = "none" => handler[s] = "default"

Inv == AttemptInv /\ PreflightInv /\ PostInv /\ ExcInv /\ HandlerInv
-----------------------------------------------------------------------------

(* The type invariant is kept by every step. *)
LEMMA TypeStep == TypeOK /\ [Next]_vars => TypeOK'
<1> SUFFICES ASSUME TypeOK, [Next]_vars
             PROVE  TypeOK'
  OBVIOUS
<1> USE MaxSignalsAssumption DEF signalVars, Hooks, Signals, ProgramPoints
<1>1. CASE PreflightPasses
  BY <1>1 DEF PreflightPasses, TypeOK, Errors
<1>2. CASE PreflightFails
  BY <1>2 DEF PreflightFails, TypeOK, Errors
<1>3. CASE EnterRun
  BY <1>3 DEF EnterRun, TypeOK, Errors
<1>4. CASE RecordPrimary
  BY <1>4 DEF RecordPrimary, TypeOK, Errors
<1>5. CASE EnterGuard
  BY <1>5 DEF EnterGuard, TypeOK, Errors
<1>6. CASE LeaveGuard
  BY <1>6 DEF LeaveGuard, TypeOK, Errors
<1>7. CASE SkipHook
  BY <1>7 DEF SkipHook, AfterHook, TypeOK, Errors
<1>8. CASE LaunchHook
  BY <1>8 DEF LaunchHook, TypeOK, Errors
<1>9. CASE LaunchFails
  BY <1>9 DEF LaunchFails, HookError, Landing, TypeOK, Errors
<1>10. CASE HookSucceeds
  BY <1>10 DEF HookSucceeds, AfterHook, TypeOK, Errors
<1>11. CASE HookFails
  BY <1>11 DEF HookFails, HookError, Landing, TypeOK, Errors
<1>12. CASE ActionReturns
  BY <1>12 DEF ActionReturns, TypeOK, Errors
<1>13. ASSUME NEW s \in Signals, Install(s)
      PROVE  TypeOK'
  BY <1>13 DEF Install, TypeOK, Errors
<1>14. ASSUME NEW s \in Signals, Restore(s)
      PROVE  TypeOK'
  BY <1>14 DEF Restore, TypeOK, Errors
<1>15. ASSUME NEW e \in {"action_error", "interrupted"}, ActionRaises(e)
      PROVE  TypeOK'
  BY <1>15 DEF ActionRaises, TypeOK, Errors
<1>16. ASSUME NEW s \in Signals, HandledSignal(s)
      PROVE  TypeOK'
  BY <1>16 DEF HandledSignal, CountSignal, Raise, Landing, GuardedPoints, Unset, TypeOK, Errors
<1>17. CASE KeyboardInterrupt
  BY <1>17 DEF KeyboardInterrupt, CountSignal, Raise, Landing, GuardedPoints, Unset, TypeOK, Errors
<1>18. CASE DefaultSigterm
  BY <1>18 DEF DefaultSigterm, CountSignal, GuardedPoints, TypeOK, Errors
<1>19. CASE UNCHANGED vars
  BY <1>19 DEF vars, TypeOK, Errors
<1> QED
  BY <1>1, <1>2, <1>3, <1>4, <1>5, <1>6, <1>7, <1>8, <1>9, <1>10, <1>11, <1>12, <1>13, <1>14, <1>15, <1>16, <1>17, <1>18, <1>19 DEF Next, CallStep, GuardStep, HookStep, ActionStep, Signal

(* Every variable keeps its type (run.py:118-218). *)
THEOREM TypeCorrect == Spec => []TypeOK
<1>1. ASSUME Init
      PROVE  TypeOK
  <2>1. /\ hook \in [Hooks -> {"idle", "running", "ok", "failed", "killed"}]
        /\ invoked \in [Hooks -> Nat]
        /\ handler \in [Signals -> {"default", "interrupt"}]
        /\ saved \in [Signals -> {"unset", "default", "interrupt"}]
    BY <1>1 DEF Init, Unset
  <2>2. signals \in 0..MaxSignals
    BY <1>1, MaxSignalsAssumption DEF Init
  <2> QED
    BY <1>1, <2>1, <2>2 DEF Init, TypeOK, ProgramPoints
<1>2. TypeOK /\ [Next]_vars => TypeOK'
  BY TypeStep
<1> QED
  BY <1>1, <1>2, PTL DEF Spec

(* The strengthening is kept by every step. *)
LEMMA InvStep == TypeOK /\ Inv /\ [Next]_vars => Inv'
<1> SUFFICES ASSUME TypeOK, Inv, [Next]_vars
             PROVE  Inv'
  OBVIOUS
<1> USE DEF signalVars, Hooks, Signals, ProgramPoints, Inv, AttemptInv, PreflightInv,
            PostInv, ExcInv, HandlerInv, BeforeRun, InWindow, InRun, RunErrors
<1>1. CASE PreflightPasses
  BY <1>1 DEF PreflightPasses, TypeOK
<1>2. CASE PreflightFails
  BY <1>2 DEF PreflightFails, TypeOK
<1>3. CASE EnterRun
  BY <1>3 DEF EnterRun, TypeOK
<1>4. CASE RecordPrimary
  BY <1>4 DEF RecordPrimary, TypeOK
<1>5. CASE EnterGuard
  BY <1>5 DEF EnterGuard, TypeOK
<1>6. CASE LeaveGuard
  BY <1>6 DEF LeaveGuard, TypeOK, Unset
<1>7. CASE SkipHook
  <2>1. CASE pc = "preflight_hook"
    BY <1>7, <2>1 DEF SkipHook, AfterHook, TypeOK
  <2>2. CASE pc = "pre_run"
    BY <1>7, <2>2 DEF SkipHook, AfterHook, TypeOK
  <2>3. CASE pc = "post_run"
    BY <1>7, <2>3 DEF SkipHook, AfterHook, TypeOK
  <2> QED
    BY <1>7, <2>1, <2>2, <2>3 DEF SkipHook
<1>8. CASE LaunchHook
  BY <1>8 DEF LaunchHook, TypeOK
<1>9. CASE LaunchFails
  BY <1>9 DEF LaunchFails, HookError, Landing, TypeOK
<1>10. CASE HookSucceeds
  BY <1>10 DEF HookSucceeds, AfterHook, TypeOK
<1>11. CASE HookFails
  BY <1>11 DEF HookFails, HookError, Landing, TypeOK
<1>12. CASE ActionReturns
  BY <1>12 DEF ActionReturns, TypeOK
<1>13. ASSUME NEW s \in Signals, Install(s)
      PROVE  Inv'
  BY <1>13 DEF Install, TypeOK
<1>14. ASSUME NEW s \in Signals, Restore(s)
      PROVE  Inv'
  BY <1>14 DEF Restore, TypeOK
<1>15. ASSUME NEW e \in {"action_error", "interrupted"}, ActionRaises(e)
      PROVE  Inv'
  BY <1>15 DEF ActionRaises, TypeOK
<1>16. ASSUME NEW s \in Signals, HandledSignal(s)
      PROVE  Inv'
  BY <1>16 DEF HandledSignal, CountSignal, Raise, Landing, GuardedPoints, Unset, TypeOK
<1>17. CASE KeyboardInterrupt
  BY <1>17 DEF KeyboardInterrupt, CountSignal, Raise, Landing, GuardedPoints, Unset, TypeOK
<1>18. CASE DefaultSigterm
  BY <1>18 DEF DefaultSigterm, CountSignal, GuardedPoints, TypeOK
<1>19. CASE UNCHANGED vars
  BY <1>19 DEF vars, TypeOK
<1> QED
  BY <1>1, <1>2, <1>3, <1>4, <1>5, <1>6, <1>7, <1>8, <1>9, <1>10, <1>11, <1>12, <1>13, <1>14, <1>15, <1>16, <1>17, <1>18, <1>19 DEF Next, CallStep, GuardStep, HookStep, ActionStep, Signal

(* The strengthening holds throughout every run of execute_with_hooks      *)
(* (run.py:118-163).                                                       *)
THEOREM InvHolds == Spec => []Inv
<1>1. Init => Inv
  BY DEF Init, Inv, AttemptInv, PreflightInv, PostInv, ExcInv, HandlerInv, BeforeRun,
         InWindow, InRun, RunErrors, Unset, Hooks, Signals, ProgramPoints
<1>2. TypeOK /\ Inv /\ [Next]_vars => Inv'
  BY InvStep
<1> QED
  BY <1>1, <1>2, TypeCorrect, PTL DEF Spec

(* However many signals arrive, an attempted run that is not disturbed     *)
(* outside the guarded windows invokes its restoration hook exactly once   *)
(* (run.py:138-163).                                                       *)
THEOREM PostRunOnce == Spec => []PostRunExactlyOnce
<1>1. Inv => PostRunExactlyOnce
  BY DEF Inv, PostInv, PostRunExactlyOnce
<1> QED
  BY <1>1, InvHolds, PTL

(* A run whose preflight hook did not succeed never touches ownership      *)
(* (run.py:127-134).                                                       *)
THEOREM RefusalIsClean == Spec => []RefusedRunLeavesOwnership
<1>1. Inv => RefusedRunLeavesOwnership
  BY DEF Inv, PreflightInv, AttemptInv, RefusedRunLeavesOwnership
<1> QED
  BY <1>1, InvHolds, PTL

(* An interrupted run never returns as a success (run.py:148-150).         *)
THEOREM InterruptsFailTheRun == Spec => []InterruptedRunFails
<1>1. Inv => InterruptedRunFails
  BY DEF Inv, ExcInv, InterruptedRunFails
<1> QED
  BY <1>1, InvHolds, PTL

(* A failed restoration hook carries the run's own failure as its cause    *)
(* (run.py:160-162).                                                       *)
THEOREM PrimaryIsKept == Spec => []PostFailureKeepsPrimary
<1>1. Inv => PostFailureKeepsPrimary
  BY DEF Inv, ExcInv, RunErrors, PostFailureKeepsPrimary
<1> QED
  BY <1>1, InvHolds, PTL

(* A call that returns normally leaves the handlers it found               *)
(* (run.py:198-200).                                                       *)
THEOREM HandlersAreRestored == Spec => []NormalReturnRestoresHandlers
<1>1. Inv => NormalReturnRestoresHandlers
  BY DEF Inv, HandlerInv, NormalReturnRestoresHandlers
<1> QED
  BY <1>1, InvHolds, PTL
=============================================================================
