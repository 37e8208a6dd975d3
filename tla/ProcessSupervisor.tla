-------------------------- MODULE ProcessSupervisor --------------------------
(***************************************************************************)
(* ProcessSupervisor (ios/process.py) used as a context manager: the body  *)
(* of the with statement starts, checks and stops named processes, and     *)
(* __exit__ closes the supervisor.  The main thread is the program counter *)
(* spc; every place an asynchronous exception (RunInterruptedError from a  *)
(* signal handler) can land is a state of its own.  Each process is the    *)
(* leader of its own process group and may leave a descendant in it.       *)
(*                                                                         *)
(* Processes are numbered in start order, which is the insertion order of  *)
(* the registry dict: reversed(dict) is from the greatest number down.     *)
(***************************************************************************)
EXTENDS Naturals

CONSTANTS
  Names,           \* names a body gives to tracked processes
  MaxProcs,        \* bound: processes ever started
  MaxInterrupts,   \* bound: asynchronous exceptions
  CanFork          \* may a logger leave a descendant in its group?

ASSUME SupervisorAssumption ==
  /\ Names # {}
  /\ MaxProcs \in Nat
  /\ MaxInterrupts \in Nat
  /\ CanFork \in BOOLEAN

Procs == 1..MaxProcs

VARIABLES
  spc,          \* where the main thread is
  ctx,          \* who called _stop: the body ("stop") or __exit__ ("close")
  cur,          \* the process _stop is working on
  started,      \* how many processes were started
  nameOf,       \* the name each process was started under
  tracked,      \* processes in the registry
  failures,     \* len(failures) in close
  raised,       \* exception leaving the with statement
  leader,       \* state of each group leader
  child,        \* groups with a live descendant
  forced,       \* history: groups that were sent SIGKILL
  interrupts    \* asynchronous exceptions so far

supVars == <<spc, ctx, cur, started, nameOf, tracked, failures, raised, leader,
             child, forced, interrupts>>

(* What the operating system shows of the processes. *)
osVars == <<leader, child>>

-----------------------------------------------------------------------------

SupInit ==
  /\ spc = "body" /\ ctx = "stop" /\ cur = 0
  /\ started = 0
  /\ nameOf = [p \in Procs |-> CHOOSE n \in Names : TRUE]
  /\ tracked = {}
  /\ failures = 0
  /\ raised = "none"
  /\ leader = [p \in Procs |-> "unborn"]
  /\ child = {}
  /\ forced = {}
  /\ interrupts = 0

IsTracked(n) == \E p \in tracked : nameOf[p] = n

(* killpg finds a process in the group; an unreaped leader counts. *)
GroupExists(p) == leader[p] \in {"running", "zombie"} \/ p \in child

(* The exception e starts to unwind the with body: __exit__ calls close. *)
Unwind(e) == spc' = "close" /\ ctx' = "close" /\ raised' = e

(* _stop has returned to its caller. *)
StopReturns == spc' = IF ctx = "stop" THEN "body" ELSE "close"
-----------------------------------------------------------------------------
(* start: the Popen call, then the registration of what it returned. *)

Spawn(n) ==
  /\ spc = "body"
  /\ ~IsTracked(n)
  /\ started < MaxProcs
  /\ started' = started + 1
  /\ nameOf' = [nameOf EXCEPT ![started'] = n]
  /\ leader' = [leader EXCEPT ![started'] = "running"]
  /\ spc' = "spawned"
  /\ UNCHANGED <<ctx, cur, tracked, failures, raised, child, forced, interrupts>>

(* Wrong: the registry keeps the number of the next process. *)
RegisterNext ==
  /\ spc = "spawned"
  /\ tracked' = tracked \cup {started + 1}
  /\ spc' = "body"
  /\ UNCHANGED <<ctx, cur, started, nameOf, failures, raised, forced, interrupts, osVars>>

Register ==
  /\ spc = "spawned"
  /\ tracked' = tracked \cup {started}
  /\ spc' = "body"
  /\ UNCHANGED <<ctx, cur, started, nameOf, failures, raised, forced, interrupts, osVars>>

(* The executable cannot be launched, or the name is already tracked. *)
StartFails ==
  /\ spc = "body"
  /\ Unwind("error")
  /\ UNCHANGED <<cur, started, nameOf, tracked, failures, forced, interrupts, osVars>>

-----------------------------------------------------------------------------
(* require_running, and Popen.wait on a process that start returned. *)

RequireRunning(n) ==
  /\ spc = "body"
  /\ \E p \in tracked : nameOf[p] = n /\ leader[p] = "running"
  /\ UNCHANGED supVars

RequireUntracked(n) ==
  /\ spc = "body"
  /\ ~IsTracked(n)
  /\ Unwind("error")
  /\ UNCHANGED <<cur, started, nameOf, tracked, failures, forced, interrupts, osVars>>

(* poll reaps the leader that exited and drops it from the registry. *)
RequireExited(n) ==
  /\ spc = "body"
  /\ \E p \in tracked :
       /\ nameOf[p] = n
       /\ leader[p] \in {"zombie", "reaped"}
       /\ leader' = [leader EXCEPT ![p] = "reaped"]
       /\ tracked' = tracked \ {p}
  /\ Unwind("error")
  /\ UNCHANGED <<cur, started, nameOf, failures, child, forced, interrupts>>

WaitFor(p) ==
  /\ spc = "body"
  /\ p \in tracked
  /\ leader[p] = "zombie"
  /\ leader' = [leader EXCEPT ![p] = "reaped"]
  /\ UNCHANGED <<spc, ctx, cur, started, nameOf, tracked, failures, raised, child,
                 forced, interrupts>>

-----------------------------------------------------------------------------
(* stop of one name, and the end of the with body. *)

Stop(n) ==
  /\ spc = "body"
  /\ \E p \in tracked :
       /\ nameOf[p] = n
       /\ cur' = p
       /\ tracked' = tracked \ {p}
  /\ spc' = "terminate"
  /\ UNCHANGED <<ctx, started, nameOf, failures, raised, forced, interrupts, osVars>>

StopUntracked(n) ==
  /\ spc = "body"
  /\ ~IsTracked(n)
  /\ UNCHANGED supVars

BodyRaises ==
  /\ spc = "body"
  /\ Unwind("error")
  /\ UNCHANGED <<cur, started, nameOf, tracked, failures, forced, interrupts, osVars>>

BodyEnds ==
  /\ spc = "body"
  /\ spc' = "close" /\ ctx' = "close"
  /\ UNCHANGED <<cur, started, nameOf, tracked, failures, raised, forced, interrupts, osVars>>

-----------------------------------------------------------------------------
(* close: pop the latest process, then try to stop it. *)

(* Wrong: the registry is closed in startup order. *)
CloseOldest ==
  /\ spc = "close"
  /\ \E p \in tracked :
       /\ \A q \in tracked : p <= q
       /\ cur' = p
       /\ tracked' = tracked \ {p}
  /\ spc' = "popped"
  /\ UNCHANGED <<ctx, started, nameOf, failures, raised, forced, interrupts, osVars>>

CloseNext ==
  /\ spc = "close"
  /\ \E p \in tracked :
       /\ \A q \in tracked : q <= p
       /\ cur' = p
       /\ tracked' = tracked \ {p}
  /\ spc' = "popped"
  /\ UNCHANGED <<ctx, started, nameOf, failures, raised, forced, interrupts, osVars>>

EnterStop ==
  /\ spc = "popped"
  /\ spc' = "terminate"
  /\ UNCHANGED <<ctx, cur, started, nameOf, tracked, failures, raised, forced,
                 interrupts, osVars>>

(* __exit__ propagates the body's exception, a ProcessCleanupError, or a   *)
(* ProcessRunCleanupError that holds both.                                 *)
CloseDone ==
  /\ spc = "close"
  /\ tracked = {}
  /\ spc' = "closed"
  /\ raised' = IF failures = 0 THEN raised
               ELSE IF raised = "none" THEN "cleanup" ELSE "run_cleanup"
  /\ UNCHANGED <<ctx, cur, started, nameOf, tracked, failures, forced, interrupts, osVars>>

-----------------------------------------------------------------------------
(* _stop: SIGTERM to the group, a bounded wait, SIGKILL, a bounded wait. *)

Terminate ==
  /\ spc = "terminate"
  /\ IF GroupExists(cur) THEN spc' = "wait_term" ELSE StopReturns
  /\ UNCHANGED <<ctx, cur, started, nameOf, tracked, failures, raised, forced,
                 interrupts, osVars>>

WaitReturns ==
  /\ spc \in {"wait_term", "wait_kill"}
  /\ leader[cur] \in {"zombie", "reaped"}
  /\ leader' = [leader EXCEPT ![cur] = "reaped"]
  /\ StopReturns
  /\ UNCHANGED <<ctx, cur, started, nameOf, tracked, failures, raised, child, forced,
                 interrupts>>

(* Wrong: an expired grace period counts as a stop. *)
GiveUpAfterGrace ==
  /\ spc = "wait_term"
  /\ leader[cur] = "running"
  /\ StopReturns
  /\ UNCHANGED <<ctx, cur, started, nameOf, tracked, failures, raised, forced,
                 interrupts, osVars>>

GraceExpires ==
  /\ spc = "wait_term"
  /\ leader[cur] = "running"
  /\ spc' = "kill"
  /\ UNCHANGED <<ctx, cur, started, nameOf, tracked, failures, raised, forced,
                 interrupts, osVars>>

Kill ==
  /\ spc = "kill"
  /\ IF GroupExists(cur)
     THEN spc' = "wait_kill" /\ forced' = forced \cup {cur}
     ELSE StopReturns /\ UNCHANGED forced
  /\ UNCHANGED <<ctx, cur, started, nameOf, tracked, failures, raised, interrupts, osVars>>

(* Wrong: the first survivor ends close. *)
SurviveAborts ==
  /\ spc = "wait_kill"
  /\ leader[cur] = "running"
  /\ spc' = IF ctx = "stop" THEN "close" ELSE "closed"
  /\ ctx' = "close"
  /\ raised' = IF ctx = "stop" THEN "error" ELSE "cleanup"
  /\ UNCHANGED <<cur, started, nameOf, tracked, failures, forced, interrupts, osVars>>

(* Wrong: a survivor is killed again until it goes. *)
SurviveRetries ==
  /\ spc = "wait_kill"
  /\ leader[cur] = "running"
  /\ spc' = "kill"
  /\ UNCHANGED <<ctx, cur, started, nameOf, tracked, failures, raised, forced,
                 interrupts, osVars>>

(* ProcessCleanupError: collected by close, raised to the body by stop. *)
Survives ==
  /\ spc = "wait_kill"
  /\ leader[cur] = "running"
  /\ IF ctx = "stop"
     THEN Unwind("error") /\ UNCHANGED failures
     ELSE spc' = "close" /\ failures' = failures + 1 /\ UNCHANGED <<ctx, raised>>
  /\ UNCHANGED <<cur, started, nameOf, tracked, forced, interrupts, osVars>>

-----------------------------------------------------------------------------
(* Asynchronous exceptions, by where they land. *)

CountInterrupt ==
  /\ interrupts < MaxInterrupts
  /\ interrupts' = interrupts + 1

(* Wrong: an interrupt leaves the with statement without close. *)
InterruptSkipsClose ==
  /\ spc \in {"body", "spawned"}
  /\ CountInterrupt
  /\ spc' = "closed" /\ raised' = "interrupt"
  /\ UNCHANGED <<ctx, cur, started, nameOf, tracked, failures, forced, osVars>>

(* A process whose Popen returned but which is not registered is lost. *)
InterruptBody ==
  /\ spc \in {"body", "spawned"}
  /\ CountInterrupt
  /\ Unwind("interrupt")
  /\ UNCHANGED <<cur, started, nameOf, tracked, failures, forced, osVars>>

(* Inside _stop: close swallows it into failures, stop does not. *)
InterruptStop ==
  /\ spc \in {"terminate", "wait_term", "kill", "wait_kill"}
  /\ CountInterrupt
  /\ IF ctx = "stop"
     THEN Unwind("interrupt") /\ UNCHANGED failures
     ELSE spc' = "close" /\ failures' = failures + 1 /\ UNCHANGED <<ctx, raised>>
  /\ UNCHANGED <<cur, started, nameOf, tracked, forced, osVars>>

(* In close outside its inner try: the loop is abandoned. *)
InterruptClose ==
  /\ spc \in {"close", "popped"}
  /\ CountInterrupt
  /\ spc' = "closed" /\ raised' = "interrupt"
  /\ UNCHANGED <<ctx, cur, started, nameOf, tracked, failures, forced, osVars>>

Interrupt == InterruptBody \/ InterruptStop \/ InterruptClose

-----------------------------------------------------------------------------
(* The processes, which nothing schedules: a leader may exit at any time   *)
(* or never, whatever it was sent, and so may a descendant.                *)

LeaderExits(p) ==
  /\ leader[p] = "running"
  /\ leader' = [leader EXCEPT ![p] = "zombie"]
  /\ UNCHANGED child

Fork(p) ==
  /\ CanFork
  /\ leader[p] = "running"
  /\ p \notin child
  /\ child' = child \cup {p}
  /\ UNCHANGED leader

DescendantExits(p) ==
  /\ p \in child
  /\ child' = child \ {p}
  /\ UNCHANGED leader

Environment ==
  /\ \E p \in Procs : LeaderExits(p) \/ Fork(p) \/ DescendantExits(p)
  /\ UNCHANGED <<spc, ctx, cur, started, nameOf, tracked, failures, raised, forced,
                 interrupts>>

-----------------------------------------------------------------------------

BodyStep ==
  \/ Register \/ StartFails \/ BodyRaises \/ BodyEnds
  \/ \E n \in Names : \/ Spawn(n) \/ Stop(n) \/ StopUntracked(n)
                     \/ RequireRunning(n) \/ RequireUntracked(n) \/ RequireExited(n)
  \/ \E p \in Procs : WaitFor(p)

Teardown ==
  \/ CloseNext \/ EnterStop \/ CloseDone
  \/ Terminate \/ WaitReturns \/ GraceExpires \/ Kill \/ Survives

SupNext == BodyStep \/ Teardown \/ Interrupt \/ Environment

SupSpec == SupInit /\ [][SupNext]_supVars

(* The main thread keeps running its own code: waits are bounded by the    *)
(* grace period.  Nothing is assumed of the processes or of the body.      *)
FairSupSpec == SupSpec /\ WF_supVars(Teardown)

-----------------------------------------------------------------------------

Stopping == {"terminate", "wait_term", "kill", "wait_kill"}

SupTypeOK ==
  /\ spc \in {"body", "spawned", "close", "popped", "closed"} \cup Stopping
  /\ ctx \in {"stop", "close"}
  /\ cur \in 0..MaxProcs
  /\ spc \in {"popped"} \cup Stopping => cur \in Procs
  /\ started \in 0..MaxProcs
  /\ spc = "spawned" => started > 0
  /\ nameOf \in [Procs -> Names]
  /\ tracked \subseteq 1..started
  /\ failures \in Nat
  /\ raised \in {"none", "error", "interrupt", "cleanup", "run_cleanup"}
  /\ leader \in [Procs -> {"unborn", "running", "zombie", "reaped"}]
  /\ child \subseteq Procs
  /\ forced \subseteq Procs
  /\ interrupts \in 0..MaxInterrupts

(* A with statement that raises nothing has stopped and reaped every       *)
(* process it started, whatever interrupts it met on the way               *)
(* (process.py:128-140, 173-204).                                          *)
NormalExitMeansStopped ==
  spc = "closed" /\ raised = "none"
    => /\ tracked = {}
       /\ \A p \in Procs : leader[p] \in {"unborn", "reaped"}

(* Without interrupts, whatever else fails, a process that outlives the    *)
(* with statement has survived SIGKILL and the statement raises: no        *)
(* failing stop hides another process from teardown (process.py:176-184).  *)
SurvivorsWereForced ==
  spc = "closed" /\ interrupts = 0
    => \A p \in Procs : leader[p] = "running" => p \in forced /\ raised # "none"

(* close works on the latest process still owned: nothing it started later *)
(* is left in the registry (process.py:116, 177).                          *)
ReverseStartupOrder ==
  ctx = "close" /\ spc \in Stopping => \A q \in tracked : q < cur

(* Leaving the with statement takes bounded time even if no process ever   *)
(* exits (process.py:186-204).                                             *)
CloseTerminates == spc = "close" ~> spc = "closed"

(* process.py:174, "Stop every owned process, even if an earlier process   *)
(* resists teardown": a process still running after close was at least     *)
(* sent SIGKILL.  An interrupt breaks it.                                  *)
EveryOwnedProcessStopped ==
  spc = "closed" => \A p \in Procs : leader[p] = "running" => p \in forced

(* process.py:89, "process groups which can be torn down without leaking   *)
(* descendants": a clean exit leaves no descendant.  A leader that exits   *)
(* within the grace period, or on its own, breaks it.                      *)
DescendantsTornDown == spc = "closed" /\ raised = "none" => child = {}
=============================================================================
