---------------------------- MODULE RunLifecycle ----------------------------
(***************************************************************************)
(* execute_with_hooks (run.py): an action of the caller, run between an    *)
(* ownership-handoff hook and an ownership-restoration hook, in a Python   *)
(* main thread that SIGINT and SIGTERM can reach between any two steps.    *)
(*                                                                         *)
(* The thread is the program counter pc.  A signal whose handler is        *)
(* interrupt_as_error's raises RunInterruptedError where the thread is; a  *)
(* default SIGINT raises KeyboardInterrupt there; a default SIGTERM ends   *)
(* the process.  Landing says which part of execute_with_hooks an          *)
(* exception raised at each program point reaches next.                    *)
(***************************************************************************)
EXTENDS Naturals

CONSTANT MaxSignals          \* bound: how many signals may be delivered

ASSUME MaxSignalsAssumption == MaxSignals \in Nat

Signals == {"SIGINT", "SIGTERM"}

(* The three hooks of a RunLifecycle, named as its fields. *)
Hooks == {"preflight_hook", "pre_run", "post_run"}

VARIABLES
  pc,            \* where the main thread is; a hook's name while at that hook
  exc,           \* the exception propagating out of the call, or "none"
  primary,       \* the local primary_error
  cause,         \* __cause__ of the PostHookError that leaves the call
  configured,    \* the hooks the recipe configures
  hook,          \* state of each hook's process
  invoked,       \* how often the runner was called for each hook
  handler,       \* installed handler of each signal
  saved,         \* interrupt_as_error's dict `previous`
  signals,       \* signals delivered so far
  attempted,     \* the outer try was entered
  interrupted,   \* a signal was delivered to the interrupt handler
  unguarded      \* a signal was delivered outside both guarded windows

vars == <<pc, exc, primary, cause, configured, hook, invoked, handler, saved,
          signals, attempted, interrupted, unguarded>>

(* Part of the state that only signals and the guards touch. *)
signalVars == <<signals, interrupted, unguarded>>

-----------------------------------------------------------------------------

ProgramPoints ==
  {"preflight", "guard_preflight", "unguard_preflight", "handoff", "guard_run",
   "action", "unguard_run", "except"} \cup Hooks

(* Program points inside a `with interrupt_as_error()`, its entry and exit *)
(* loops included.                                                         *)
GuardedPoints == {"guard_preflight", "preflight_hook", "unguard_preflight",
                  "guard_run", "pre_run", "action", "unguard_run"}

(* Wrong: the guard's exit loop is outside the outer try. *)
LandingOutsideTry(p) ==
  CASE p \in {"preflight", "unguard_preflight", "handoff", "post_run",
             "unguard_run"} -> "returned"
    [] p \in {"guard_preflight", "preflight_hook"} -> "unguard_preflight"
    [] p \in {"guard_run", "pre_run", "action"} -> "unguard_run"
    [] p = "except" -> "post_run"

(* Where an exception raised at a program point is handled next. *)
Landing(p) ==
  CASE p \in {"preflight", "unguard_preflight", "handoff", "post_run"} -> "returned"
    [] p \in {"guard_preflight", "preflight_hook"} -> "unguard_preflight"
    [] p \in {"guard_run", "pre_run", "action"} -> "unguard_run"
    [] p = "unguard_run" -> "except"
    [] p = "except" -> "post_run"

AfterHook(h) ==
  CASE h = "preflight_hook" -> "unguard_preflight"
    [] h = "pre_run" -> "action"
    [] h = "post_run" -> "returned"

Unset == [s \in Signals |-> "unset"]

Init ==
  /\ pc = "preflight"
  /\ exc = "none" /\ primary = "none" /\ cause = "none"
  /\ configured \in SUBSET Hooks
  /\ hook = [h \in Hooks |-> "idle"]
  /\ invoked = [h \in Hooks |-> 0]
  /\ handler = [s \in Signals |-> "default"]
  /\ saved = Unset
  /\ signals = 0
  /\ attempted = FALSE /\ interrupted = FALSE /\ unguarded = FALSE

-----------------------------------------------------------------------------
(* The optional preflight callable of the library interface. *)

PreflightPasses ==
  /\ pc = "preflight"
  /\ pc' = "guard_preflight"
  /\ UNCHANGED <<exc, primary, cause, configured, hook, invoked, handler, saved,
                 attempted, signalVars>>

PreflightFails ==
  /\ pc = "preflight"
  /\ pc' = "returned" /\ exc' = "preflight_error"
  /\ UNCHANGED <<primary, cause, configured, hook, invoked, handler, saved,
                 attempted, signalVars>>

-----------------------------------------------------------------------------
(* interrupt_as_error: both loops visit SIGINT before SIGTERM. *)

Install(s) ==
  /\ pc \in {"guard_preflight", "guard_run"}
  /\ saved[s] = "unset"
  /\ s = "SIGTERM" => saved["SIGINT"] # "unset"
  /\ saved' = [saved EXCEPT ![s] = handler[s]]
  /\ handler' = [handler EXCEPT ![s] = "interrupt"]
  /\ UNCHANGED <<pc, exc, primary, cause, configured, hook, invoked, attempted,
                 signalVars>>

EnterGuard ==
  /\ pc \in {"guard_preflight", "guard_run"}
  /\ \A s \in Signals : saved[s] # "unset"
  /\ pc' = IF pc = "guard_preflight" THEN "preflight_hook" ELSE "pre_run"
  /\ UNCHANGED <<exc, primary, cause, configured, hook, invoked, handler, saved,
                 attempted, signalVars>>

(* Wrong: the dict entry is dropped before it is read. *)
RestoreForgotten(s) ==
  /\ pc \in {"unguard_preflight", "unguard_run"}
  /\ saved[s] # "unset"
  /\ s = "SIGTERM" => saved["SIGINT"] = "unset"
  /\ saved' = [saved EXCEPT ![s] = "unset"]
  /\ handler' = [handler EXCEPT ![s] = saved'[s]]
  /\ UNCHANGED <<pc, exc, primary, cause, configured, hook, invoked, attempted,
                 signalVars>>

Restore(s) ==
  /\ pc \in {"unguard_preflight", "unguard_run"}
  /\ saved[s] # "unset"
  /\ s = "SIGTERM" => saved["SIGINT"] = "unset"
  /\ handler' = [handler EXCEPT ![s] = saved[s]]
  /\ saved' = [saved EXCEPT ![s] = "unset"]
  /\ UNCHANGED <<pc, exc, primary, cause, configured, hook, invoked, attempted,
                 signalVars>>

(* Wrong: a failed preflight hook is not propagated. *)
LeaveGuardSwallowing ==
  /\ saved = Unset
  /\ \/ pc = "unguard_preflight" /\ pc' = "handoff"
     \/ pc = "unguard_run" /\ pc' = IF exc = "none" THEN "post_run" ELSE "except"
  /\ UNCHANGED <<exc, primary, cause, configured, hook, invoked, handler, saved,
                 attempted, signalVars>>

(* Wrong: only the first signal's handler is restored. *)
LeaveGuardEarly ==
  /\ saved["SIGINT"] = "unset"
  /\ \/ pc = "unguard_preflight" /\ pc' = IF exc = "none" THEN "handoff" ELSE "returned"
     \/ pc = "unguard_run" /\ pc' = IF exc = "none" THEN "post_run" ELSE "except"
  /\ UNCHANGED <<exc, primary, cause, configured, hook, invoked, handler, saved,
                 attempted, signalVars>>

LeaveGuard ==
  /\ saved = Unset
  /\ \/ pc = "unguard_preflight" /\ pc' = IF exc = "none" THEN "handoff" ELSE "returned"
     \/ pc = "unguard_run" /\ pc' = IF exc = "none" THEN "post_run" ELSE "except"
  /\ UNCHANGED <<exc, primary, cause, configured, hook, invoked, handler, saved,
                 attempted, signalVars>>

-----------------------------------------------------------------------------
(* Hooks: _invoke_hook and subprocess_hook_runner.  A hook has no timeout. *)

SkipHook ==
  /\ pc \in Hooks \ configured
  /\ pc' = AfterHook(pc)
  /\ UNCHANGED <<exc, primary, cause, configured, hook, invoked, handler, saved,
                 attempted, signalVars>>

(* HookExecutionError, which becomes a PostHookError raised from           *)
(* primary_error when the post-run hook is the one that failed.            *)
HookError ==
  /\ pc' = Landing(pc)
  /\ hook' = [hook EXCEPT ![pc] = "failed"]
  /\ exc' = IF pc = "post_run" THEN "post_hook_error" ELSE "hook_error"
  /\ cause' = IF pc = "post_run" THEN primary ELSE cause

LaunchHook ==
  /\ pc \in configured
  /\ hook[pc] = "idle"
  /\ hook' = [hook EXCEPT ![pc] = "running"]
  /\ invoked' = [invoked EXCEPT ![pc] = @ + 1]
  /\ UNCHANGED <<pc, exc, primary, cause, configured, handler, saved, attempted,
                 signalVars>>

LaunchFails ==
  /\ pc \in configured
  /\ hook[pc] = "idle"
  /\ invoked' = [invoked EXCEPT ![pc] = @ + 1]
  /\ HookError
  /\ UNCHANGED <<primary, configured, handler, saved, attempted, signalVars>>

HookSucceeds ==
  /\ pc \in configured
  /\ hook[pc] = "running"
  /\ hook' = [hook EXCEPT ![pc] = "ok"]
  /\ pc' = AfterHook(pc)
  /\ UNCHANGED <<exc, primary, cause, configured, invoked, handler, saved,
                 attempted, signalVars>>

HookFails ==
  /\ pc \in configured
  /\ hook[pc] = "running"
  /\ HookError
  /\ UNCHANGED <<primary, configured, invoked, handler, saved, attempted, signalVars>>

-----------------------------------------------------------------------------
(* The attempted run. *)

EnterRun ==
  /\ pc = "handoff"
  /\ pc' = "guard_run"
  /\ attempted' = TRUE
  /\ UNCHANGED <<exc, primary, cause, configured, hook, invoked, handler, saved,
                 signalVars>>

(* Wrong: the action swallows the interrupt and returns. *)
ActionReturnsAnyway ==
  /\ pc = "action"
  /\ pc' = "unguard_run"
  /\ UNCHANGED <<exc, primary, cause, configured, hook, invoked, handler, saved,
                 attempted, signalVars>>

(* An action that was interrupted does not return: the interrupt is an     *)
(* exception inside it.  RecipeRun derives this from the executor.         *)
ActionReturns ==
  /\ pc = "action"
  /\ ~interrupted
  /\ pc' = "unguard_run"
  /\ UNCHANGED <<exc, primary, cause, configured, hook, invoked, handler, saved,
                 attempted, signalVars>>

ActionRaises(e) ==
  /\ pc = "action"
  /\ e = "interrupted" => interrupted
  /\ pc' = "unguard_run" /\ exc' = e
  /\ UNCHANGED <<primary, cause, configured, hook, invoked, handler, saved,
                 attempted, signalVars>>

(* Wrong: the except clause re-raises without recording the error. *)
ReraiseOnly ==
  /\ pc = "except"
  /\ pc' = "post_run"
  /\ UNCHANGED <<exc, primary, cause, configured, hook, invoked, handler, saved,
                 attempted, signalVars>>

RecordPrimary ==
  /\ pc = "except"
  /\ primary' = exc
  /\ pc' = "post_run"
  /\ UNCHANGED <<exc, cause, configured, hook, invoked, handler, saved, attempted,
                 signalVars>>

-----------------------------------------------------------------------------
(* Signals.  An exception in a hook's window makes subprocess.run kill the *)
(* hook; one in a restoring loop abandons the handlers not yet restored.   *)

Raise(e) ==
  /\ pc' = Landing(pc)
  /\ exc' = e
  /\ hook' = [h \in Hooks |-> IF hook[h] = "running" THEN "killed" ELSE hook[h]]
  /\ saved' = IF pc \in {"unguard_preflight", "unguard_run"} THEN Unset ELSE saved
  /\ UNCHANGED <<primary, cause, configured, invoked, handler, attempted>>

CountSignal ==
  /\ pc \in ProgramPoints
  /\ signals < MaxSignals
  /\ signals' = signals + 1
  /\ unguarded' = (unguarded \/ pc \notin GuardedPoints)

HandledSignal(s) ==
  /\ CountSignal
  /\ handler[s] = "interrupt"
  /\ interrupted' = TRUE
  /\ IF pc = "action"
     THEN UNCHANGED <<pc, exc, primary, cause, configured, hook, invoked, handler,
                      saved, attempted>>
     ELSE Raise("interrupted")

KeyboardInterrupt ==
  /\ CountSignal
  /\ handler["SIGINT"] = "default"
  /\ Raise("keyboard")
  /\ UNCHANGED interrupted

DefaultSigterm ==
  /\ CountSignal
  /\ handler["SIGTERM"] = "default"
  /\ pc' = "killed"
  /\ UNCHANGED <<exc, primary, cause, configured, hook, invoked, handler, saved,
                 attempted, interrupted>>

Signal ==
  \/ \E s \in Signals : HandledSignal(s)
  \/ KeyboardInterrupt
  \/ DefaultSigterm

-----------------------------------------------------------------------------

(* Everything outside the caller's action and outside signal delivery. *)
HookStep == SkipHook \/ LaunchHook \/ LaunchFails \/ HookSucceeds \/ HookFails

GuardStep ==
  \/ \E s \in Signals : Install(s) \/ Restore(s)
  \/ EnterGuard
  \/ LeaveGuard

CallStep == PreflightPasses \/ PreflightFails \/ EnterRun \/ RecordPrimary

ActionStep == ActionReturns \/ \E e \in {"action_error", "interrupted"} : ActionRaises(e)

Next == CallStep \/ GuardStep \/ HookStep \/ ActionStep \/ Signal

Spec == Init /\ [][Next]_vars

-----------------------------------------------------------------------------

Errors == {"preflight_error", "hook_error", "action_error", "interrupted",
           "keyboard", "post_hook_error"}

TypeOK ==
  /\ pc \in ProgramPoints \cup {"returned", "killed"}
  /\ exc \in Errors \cup {"none"}
  /\ primary \in Errors \cup {"none"}
  /\ cause \in Errors \cup {"none"}
  /\ configured \subseteq Hooks
  /\ hook \in [Hooks -> {"idle", "running", "ok", "failed", "killed"}]
  /\ invoked \in [Hooks -> Nat]
  /\ handler \in [Signals -> {"default", "interrupt"}]
  /\ saved \in [Signals -> {"unset", "default", "interrupt"}]
  /\ signals \in 0..MaxSignals
  /\ attempted \in BOOLEAN /\ interrupted \in BOOLEAN /\ unguarded \in BOOLEAN

(* The post-run hook is invoked exactly once by every attempted run that   *)
(* ends in an orderly way, whatever failed and whatever signals landed     *)
(* inside the guarded windows, and never more than once (run.py:151-163,   *)
(* docs/recipes.md:33).                                                    *)
PostRunExactlyOnce ==
  /\ invoked["post_run"] <= 1
  /\ (pc = "returned" /\ attempted /\ "post_run" \in configured /\ ~unguarded)
       => invoked["post_run"] = 1

(* A run refused by its preflight hook touches no ownership: neither the   *)
(* handoff hook nor the restoration hook runs, now or later                *)
(* (run.py:123-134, docs/recipes.md:33).                                   *)
RefusedRunLeavesOwnership ==
  hook["preflight_hook"] \in {"failed", "killed"}
    => ~attempted /\ invoked["pre_run"] = 0 /\ invoked["post_run"] = 0

(* A run that was interrupted never ends as a success: the                 *)
(* RunInterruptedError, or an error that replaced it, leaves the call      *)
(* (run.py:148-150, 189-191).                                              *)
InterruptedRunFails ==
  pc = "returned" /\ interrupted => exc # "none"

(* A failing restoration hook does not hide why the run had failed: the    *)
(* PostHookError that leaves the call carries the run's own error as its   *)
(* cause (run.py:160-162).                                                 *)
PostFailureKeepsPrimary ==
  (pc = "returned" /\ exc = "post_hook_error" /\ ~unguarded
     /\ (interrupted \/ hook["pre_run"] \in {"failed", "killed"}))
    => cause \in {"hook_error", "action_error", "interrupted", "keyboard"}

(* A call that returns normally leaves both signals with the handlers it   *)
(* found: no interrupt handler outlives its window (run.py:198-200).       *)
NormalReturnRestoresHandlers ==
  pc = "returned" /\ exc = "none" => \A s \in Signals : handler[s] = "default"

(* The unconditional promise of docs/recipes.md:33 ("The post-run hook     *)
(* executes exactly once after any attempted run"): the code breaks it     *)
(* when a signal lands between the two windows (run.py:138-154).           *)
PostRunAfterAnyAttempt ==
  pc = "returned" /\ attempted /\ "post_run" \in configured
    => invoked["post_run"] = 1
=============================================================================
