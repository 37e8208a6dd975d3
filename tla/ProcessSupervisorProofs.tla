---------------------- MODULE ProcessSupervisorProofs ----------------------
(***************************************************************************)
(* Theorems about ProcessSupervisor, for any names, any number of          *)
(* processes and interrupts, with or without descendants.                  *)
(***************************************************************************)
EXTENDS ProcessSupervisor, FiniteSetTheorems, TLAPS

(* The supervisor's _stop works on cur, which has left the registry. *)
InHand == {"popped"} \cup Stopping

(* Processes the main thread still has to deal with. *)
Held(p) ==
  \/ p \in tracked
  \/ p = cur /\ spc \in InHand
  \/ p = started /\ spc = "spawned"

(* The caller of _stop, and the order close works in. *)
OrderInv ==
  /\ spc \in {"body", "spawned"} => ctx = "stop"
  /\ spc \in {"close", "popped", "closed"} => ctx = "close"
  /\ ctx = "close" /\ spc \in InHand => \A q \in tracked : q < cur

(* A leader that was not reaped is held, or a failure is on record. *)
ReapInv ==
  /\ failures = 0 /\ raised = "none" =>
       \A p \in Procs : leader[p] \in {"running", "zombie"} => Held(p)
  /\ spc = "closed" /\ raised = "none" => failures = 0 /\ tracked = {}

(* Without interrupts a leader is let go alive only after SIGKILL. *)
ForceInv ==
  interrupts = 0 =>
    /\ spc = "wait_kill" => cur \in forced
    /\ spc = "closed" => tracked = {} /\ (failures > 0 => raised # "none")
    /\ \A p \in Procs :
         leader[p] = "running" =>
           Held(p) \/ (p \in forced /\ (failures > 0 \/ raised # "none"))

SupInv == OrderInv /\ ReapInv /\ ForceInv

-----------------------------------------------------------------------------

(* A body needs a name for every process it starts. *)
LEMMA SomeName == (CHOOSE n \in Names : TRUE) \in Names
  BY SupervisorAssumption

(* The type invariant is kept by every step. *)
LEMMA SupTypeStep == SupTypeOK /\ [SupNext]_supVars => SupTypeOK'
<1> SUFFICES ASSUME SupTypeOK, [SupNext]_supVars
             PROVE  SupTypeOK'
  OBVIOUS
<1> USE SupervisorAssumption DEF Procs, osVars, Stopping
<1>1. CASE Register
  BY <1>1 DEF Register, SupTypeOK
<1>2. CASE StartFails
  BY <1>2 DEF StartFails, Unwind, SupTypeOK
<1>3. CASE BodyRaises
  BY <1>3 DEF BodyRaises, Unwind, SupTypeOK
<1>4. CASE BodyEnds
  BY <1>4 DEF BodyEnds, SupTypeOK
<1>5. CASE CloseNext
  BY <1>5 DEF CloseNext, SupTypeOK
<1>6. CASE EnterStop
  BY <1>6 DEF EnterStop, SupTypeOK
<1>7. CASE CloseDone
  BY <1>7 DEF CloseDone, SupTypeOK
<1>8. CASE Terminate
  BY <1>8 DEF Terminate, StopReturns, GroupExists, SupTypeOK
<1>9. CASE WaitReturns
  BY <1>9 DEF WaitReturns, StopReturns, SupTypeOK
<1>10. CASE GraceExpires
  BY <1>10 DEF GraceExpires, SupTypeOK
<1>11. CASE Kill
  BY <1>11 DEF Kill, StopReturns, GroupExists, SupTypeOK
<1>12. CASE Survives
  BY <1>12 DEF Survives, Unwind, SupTypeOK
<1>13. CASE InterruptBody
  BY <1>13 DEF InterruptBody, CountInterrupt, Unwind, SupTypeOK
<1>14. CASE InterruptStop
  BY <1>14 DEF InterruptStop, CountInterrupt, Unwind, SupTypeOK
<1>15. CASE InterruptClose
  BY <1>15 DEF InterruptClose, CountInterrupt, SupTypeOK
<1>16. ASSUME NEW n \in Names, Spawn(n)
      PROVE  SupTypeOK'
  BY <1>16 DEF Spawn, SupTypeOK
<1>17. ASSUME NEW n \in Names, Stop(n)
      PROVE  SupTypeOK'
  BY <1>17 DEF Stop, SupTypeOK
<1>18. ASSUME NEW n \in Names, StopUntracked(n)
      PROVE  SupTypeOK'
  BY <1>18 DEF StopUntracked, supVars, SupTypeOK
<1>19. ASSUME NEW n \in Names, RequireRunning(n)
      PROVE  SupTypeOK'
  BY <1>19 DEF RequireRunning, supVars, SupTypeOK
<1>20. ASSUME NEW n \in Names, RequireUntracked(n)
      PROVE  SupTypeOK'
  BY <1>20 DEF RequireUntracked, Unwind, SupTypeOK
<1>21. ASSUME NEW n \in Names, RequireExited(n)
      PROVE  SupTypeOK'
  BY <1>21 DEF RequireExited, Unwind, SupTypeOK
<1>22. ASSUME NEW p \in Procs, WaitFor(p)
      PROVE  SupTypeOK'
  BY <1>22 DEF WaitFor, SupTypeOK
<1>23. CASE Environment
  BY <1>23 DEF Environment, LeaderExits, Fork, DescendantExits, SupTypeOK
<1>24. CASE UNCHANGED supVars
  BY <1>24 DEF supVars, SupTypeOK
<1> QED
  BY <1>1, <1>2, <1>3, <1>4, <1>5, <1>6, <1>7, <1>8, <1>9, <1>10, <1>11,
     <1>12, <1>13, <1>14, <1>15, <1>16, <1>17, <1>18, <1>19, <1>20, <1>21, <1>22, <1>23, <1>24
  DEF SupNext, BodyStep, Teardown, Interrupt

(* The strengthening is kept by every step. *)
LEMMA SupInvStep == SupTypeOK /\ SupInv /\ [SupNext]_supVars => SupInv'
<1> SUFFICES ASSUME SupTypeOK, SupInv, [SupNext]_supVars
             PROVE  SupInv'
  OBVIOUS
<1> USE SupervisorAssumption DEF Procs, osVars, Stopping, InHand, Held, SupInv,
            OrderInv, ReapInv, ForceInv
<1>1. CASE Register
  BY <1>1 DEF Register, SupTypeOK
<1>2. CASE StartFails
  BY <1>2 DEF StartFails, Unwind, SupTypeOK
<1>3. CASE BodyRaises
  BY <1>3 DEF BodyRaises, Unwind, SupTypeOK
<1>4. CASE BodyEnds
  BY <1>4 DEF BodyEnds, SupTypeOK
<1>5. CASE CloseNext
  BY <1>5 DEF CloseNext, SupTypeOK
<1>6. CASE EnterStop
  BY <1>6 DEF EnterStop, SupTypeOK
<1>7. CASE CloseDone
  BY <1>7 DEF CloseDone, SupTypeOK
<1>8. CASE Terminate
  BY <1>8 DEF Terminate, StopReturns, GroupExists, SupTypeOK
<1>9. CASE WaitReturns
  BY <1>9 DEF WaitReturns, StopReturns, SupTypeOK
<1>10. CASE GraceExpires
  BY <1>10 DEF GraceExpires, SupTypeOK
<1>11. CASE Kill
  BY <1>11 DEF Kill, StopReturns, GroupExists, SupTypeOK
<1>12. CASE Survives
  BY <1>12 DEF Survives, Unwind, SupTypeOK
<1>13. CASE InterruptBody
  BY <1>13 DEF InterruptBody, CountInterrupt, Unwind, SupTypeOK
<1>14. CASE InterruptStop
  BY <1>14 DEF InterruptStop, CountInterrupt, Unwind, SupTypeOK
<1>15. CASE InterruptClose
  BY <1>15 DEF InterruptClose, CountInterrupt, SupTypeOK
<1>16. ASSUME NEW n \in Names, Spawn(n)
      PROVE  SupInv'
  BY <1>16 DEF Spawn, SupTypeOK
<1>17. ASSUME NEW n \in Names, Stop(n)
      PROVE  SupInv'
  BY <1>17 DEF Stop, SupTypeOK
<1>18. ASSUME NEW n \in Names, StopUntracked(n)
      PROVE  SupInv'
  BY <1>18 DEF StopUntracked, supVars, SupTypeOK
<1>19. ASSUME NEW n \in Names, RequireRunning(n)
      PROVE  SupInv'
  BY <1>19 DEF RequireRunning, supVars, SupTypeOK
<1>20. ASSUME NEW n \in Names, RequireUntracked(n)
      PROVE  SupInv'
  BY <1>20 DEF RequireUntracked, Unwind, SupTypeOK
<1>21. ASSUME NEW n \in Names, RequireExited(n)
      PROVE  SupInv'
  BY <1>21 DEF RequireExited, Unwind, SupTypeOK
<1>22. ASSUME NEW p \in Procs, WaitFor(p)
      PROVE  SupInv'
  BY <1>22 DEF WaitFor, SupTypeOK
<1>23. CASE Environment
  BY <1>23 DEF Environment, LeaderExits, Fork, DescendantExits, SupTypeOK
<1>24. CASE UNCHANGED supVars
  BY <1>24 DEF supVars, SupTypeOK
<1> QED
  BY <1>1, <1>2, <1>3, <1>4, <1>5, <1>6, <1>7, <1>8, <1>9, <1>10, <1>11,
     <1>12, <1>13, <1>14, <1>15, <1>16, <1>17, <1>18, <1>19, <1>20, <1>21, <1>22, <1>23, <1>24
  DEF SupNext, BodyStep, Teardown, Interrupt

-----------------------------------------------------------------------------

(* Every variable keeps its type (process.py:115-204). *)
THEOREM SupTypeCorrect == SupSpec => []SupTypeOK
<1>1. ASSUME SupInit
      PROVE  SupTypeOK
  <2>1. /\ nameOf \in [Procs -> Names]
        /\ leader \in [Procs -> {"unborn", "running", "zombie", "reaped"}]
    BY <1>1, SomeName DEF SupInit
  <2>2. cur \in 0..MaxProcs /\ started \in 0..MaxProcs /\ interrupts \in 0..MaxInterrupts
    BY <1>1, SupervisorAssumption DEF SupInit
  <2> QED
    BY <1>1, <2>1, <2>2 DEF SupInit, SupTypeOK, Stopping
<1>2. SupTypeOK /\ [SupNext]_supVars => SupTypeOK'
  BY SupTypeStep
<1> QED
  BY <1>1, <1>2, PTL DEF SupSpec

(* The strengthening holds throughout the with statement                   *)
(* (process.py:128-204).                                                   *)
THEOREM SupInvHolds == SupSpec => []SupInv
<1>1. SupInit => SupInv
  BY SupervisorAssumption DEF SupInit, SupInv, OrderInv, ReapInv, ForceInv, Held,
     InHand, Stopping, Procs
<1>2. SupTypeOK /\ SupInv /\ [SupNext]_supVars => SupInv'
  BY SupInvStep
<1> QED
  BY <1>1, <1>2, SupTypeCorrect, PTL DEF SupSpec

(* A with statement that raises nothing has reaped every process it        *)
(* started, however many there were and whatever interrupts it swallowed   *)
(* on the way (process.py:128-140, 173-204).                               *)
THEOREM CleanExitStopsAll == SupSpec => []NormalExitMeansStopped
<1>1. SupTypeOK /\ SupInv => NormalExitMeansStopped
  BY SupervisorAssumption DEF SupTypeOK, SupInv, ReapInv, Held, InHand, Stopping,
     NormalExitMeansStopped
<1> QED
  BY <1>1, SupTypeCorrect, SupInvHolds, PTL

(* Without interrupts a process can outlive the with statement only by     *)
(* surviving SIGKILL, and the statement then raises (process.py:176-184).  *)
THEOREM OnlyForcedSurvive == SupSpec => []SurvivorsWereForced
<1>1. SupTypeOK /\ SupInv => SurvivorsWereForced
  BY SupervisorAssumption DEF SupTypeOK, SupInv, ForceInv, Held, InHand, Stopping,
     SurvivorsWereForced
<1> QED
  BY <1>1, SupTypeCorrect, SupInvHolds, PTL

(* close stops processes in reverse startup order (process.py:116, 177).   *)
THEOREM ClosesInReverse == SupSpec => []ReverseStartupOrder
<1>1. SupInv => ReverseStartupOrder
  BY DEF SupInv, OrderInv, InHand, ReverseStartupOrder
<1> QED
  BY <1>1, SupInvHolds, PTL

-----------------------------------------------------------------------------
(* Progress of close.  That it terminates is checked by TLC; what is       *)
(* proved here is the argument behind it, without fairness.                *)

Closing == ctx = "close" /\ spc # "closed"

(* The steps of the main thread from each place to the end of _stop.       *)
Rank(at) ==
  IF at = "popped" THEN 6 ELSE IF at = "terminate" THEN 5
  ELSE IF at = "wait_term" THEN 4 ELSE IF at = "kill" THEN 3
  ELSE IF at = "wait_kill" THEN 2 ELSE IF at = "close" THEN 1 ELSE 0

(* A bound on the steps that close has left.                               *)
StepsLeft == 6 * Cardinality(tracked) + Rank(spc)

(* While close runs, every step of its own and every interrupt leaves      *)
(* fewer steps to go, and the processes add none: nothing is popped or     *)
(* killed twice, whatever fails (process.py:173-204).                      *)
CloseCountsDown ==
  [][Closing => /\ ctx' = "close" /\ ~BodyStep
                /\ Teardown \/ Interrupt => StepsLeft' < StepsLeft
                /\ Environment => StepsLeft' = StepsLeft]_supVars

(* Wherever close is, one of its steps has its guard: there is a last      *)
(* process in the registry unless it is empty, and a process waited for    *)
(* is running or has exited (process.py:177, 192-204).                     *)
CloseGoesOn ==
  Closing =>
    \/ spc = "close" /\ (tracked = {} \/ \E p \in tracked : \A q \in tracked : q <= p)
    \/ spc \in {"popped", "terminate", "kill"}
    \/ spc \in {"wait_term", "wait_kill"} /\ leader[cur] \in {"running", "zombie", "reaped"}

(* A process that was given a number was born. *)
BornInv ==
  /\ \A p \in 1..started : leader[p] # "unborn"
  /\ spc \in InHand => cur \in 1..started

LEMMA BornStep == SupTypeOK /\ BornInv /\ [SupNext]_supVars => BornInv'
<1> SUFFICES ASSUME SupTypeOK, BornInv, [SupNext]_supVars
             PROVE  BornInv'
  OBVIOUS
<1> USE SupervisorAssumption DEF BornInv, InHand, Stopping, Procs
<1>1. ASSUME NEW n \in Names, Spawn(n)
      PROVE  BornInv'
  <2>1. started \in Nat /\ started' = started + 1 /\ started + 1 \in Procs
    BY <1>1 DEF Spawn, SupTypeOK
  <2>2. leader' = [leader EXCEPT ![started + 1] = "running"] /\ spc' = "spawned"
    BY <1>1, <2>1 DEF Spawn
  <2>3. \A p \in 1..started' : p \in 1..started \/ p = started + 1
    BY <2>1
  <2> QED
    BY <2>1, <2>2, <2>3 DEF SupTypeOK
<1>2. CASE UNCHANGED <<started, leader>> /\ spc' \notin InHand
  BY <1>2
<1>3. CASE UNCHANGED <<started, leader, cur>> /\ spc \in InHand
  BY <1>3
<1>4. CASE Register \/ StartFails \/ BodyRaises \/ BodyEnds \/ CloseDone \/ Survives \/ Interrupt
  <2>1. UNCHANGED <<started, leader>> /\ spc' \notin InHand
    BY <1>4 DEF Register, StartFails, BodyRaises, BodyEnds, CloseDone, Survives, Unwind, osVars,
       Interrupt, InterruptBody, InterruptStop, InterruptClose
  <2> QED
    BY <2>1
<1>5. CASE EnterStop \/ Terminate \/ GraceExpires \/ Kill
  <2>1. UNCHANGED <<started, leader, cur>> /\ spc \in InHand
    BY <1>5 DEF EnterStop, Terminate, GraceExpires, Kill, osVars
  <2> QED
    BY <2>1
<1>6. CASE CloseNext
  <2>1. UNCHANGED <<started, leader>> /\ cur' \in 1..started
    BY <1>6 DEF CloseNext, SupTypeOK, osVars
  <2> QED
    BY <2>1
<1>7. ASSUME NEW n \in Names, Stop(n)
      PROVE  BornInv'
  <2>1. UNCHANGED <<started, leader>> /\ cur' \in 1..started
    BY <1>7 DEF Stop, SupTypeOK, osVars
  <2> QED
    BY <2>1
<1>8. ASSUME NEW n \in Names, StopUntracked(n) \/ RequireRunning(n)
      PROVE  BornInv'
  BY <1>8 DEF StopUntracked, RequireRunning, supVars
<1>9. ASSUME NEW n \in Names, RequireUntracked(n)
      PROVE  BornInv'
  BY <1>2, <1>9 DEF RequireUntracked, Unwind, osVars
<1>10. ASSUME NEW n \in Names, RequireExited(n)
       PROVE  BornInv'
  BY <1>10 DEF RequireExited, Unwind, SupTypeOK
<1>11. ASSUME NEW p \in Procs, WaitFor(p)
       PROVE  BornInv'
  BY <1>11 DEF WaitFor, SupTypeOK
<1>12. CASE WaitReturns
  BY <1>12 DEF WaitReturns, StopReturns, SupTypeOK
<1>13. CASE Environment
  BY <1>13 DEF Environment, LeaderExits, Fork, DescendantExits, SupTypeOK
<1>14. CASE UNCHANGED supVars
  BY <1>14 DEF supVars
<1> QED
  BY <1>1, <1>4, <1>5, <1>6, <1>7, <1>8, <1>9, <1>10, <1>11, <1>12, <1>13, <1>14
  DEF SupNext, BodyStep, Teardown

(* A registry that is not empty has a last process. *)
LEMMA LastTracked ==
  ASSUME SupTypeOK, tracked # {}
  PROVE  \E p \in tracked : \A q \in tracked : q <= p
<1> DEFINE R == {ss \in Nat \X Nat : ss[1] < ss[2]}
           T == {n \in Nat : \E p \in tracked : n = started - p}
<1>1. started \in Nat /\ \A p \in tracked : p \in Nat /\ p <= started
  BY SupervisorAssumption DEF SupTypeOK
<1>2. T \in SUBSET Nat /\ T # {} /\ \A p \in tracked : started - p \in T
  BY <1>1
<1>3. IsWellFoundedOn(R, Nat)
  BY NatLessThanWellFounded DEF OpToRel
<1> HIDE DEF R, T
<1>4. PICK x \in T : \A y \in T : ~ (<<y, x>> \in R)
  BY <1>2, <1>3, WFMin, Zenon
<1>5. \A y \in T : ~ (y < x)
  BY <1>2, <1>4 DEF R
<1>6. PICK p \in tracked : x = started - p
  BY DEF T
<1>7. \A q \in tracked : q <= p
  BY <1>1, <1>2, <1>5, <1>6
<1> QED
  BY <1>7

(* The steps that close has left are a number of steps. *)
LEMMA StepsLeftType ==
  SupTypeOK => IsFiniteSet(tracked) /\ Cardinality(tracked) \in Nat /\ StepsLeft \in Nat
<1> SUFFICES ASSUME SupTypeOK
             PROVE  IsFiniteSet(tracked) /\ Cardinality(tracked) \in Nat /\ StepsLeft \in Nat
  OBVIOUS
<1>1. tracked \subseteq 1..started /\ started \in Int
  BY SupervisorAssumption DEF SupTypeOK
<1>2. IsFiniteSet(1..started)
  BY <1>1, FS_Interval
<1>3. IsFiniteSet(tracked)
  BY <1>1, <1>2, FS_Subset
<1>4. Cardinality(tracked) \in Nat
  BY <1>3, FS_CardinalityType
<1>5. Rank(spc) \in Nat
  BY DEF Rank
<1> QED
  BY <1>3, <1>4, <1>5 DEF StepsLeft

(* Where close can be while it runs. *)
LEMMA ClosePoints ==
  SupTypeOK /\ SupInv /\ Closing => ctx = "close" /\ spc \in {"close", "popped"} \cup Stopping
  BY DEF Closing, SupTypeOK, SupInv, OrderInv

(* One step of close, or an interrupt of it. *)
LEMMA CloseStep ==
  SupTypeOK /\ SupInv /\ Closing /\ (Teardown \/ Interrupt) =>
    ctx' = "close" /\ StepsLeft' < StepsLeft /\ spc' # spc
<1> SUFFICES ASSUME SupTypeOK, SupInv, Closing, Teardown \/ Interrupt
             PROVE  ctx' = "close" /\ StepsLeft' < StepsLeft /\ spc' # spc
  OBVIOUS
<1>1. ctx = "close" /\ spc \in {"close", "popped"} \cup Stopping
  BY ClosePoints
<1>2. IsFiniteSet(tracked) /\ Cardinality(tracked) \in Nat
  BY StepsLeftType
<1>3. CASE CloseNext
  <2>1. PICK p \in tracked : tracked' = tracked \ {p}
    BY <1>3 DEF CloseNext
  <2>2. Cardinality(tracked') = Cardinality(tracked) - 1
    BY <1>2, <2>1, FS_RemoveElement
  <2>3. Rank(spc) = 1 /\ Rank(spc') = 6
    BY <1>3 DEF CloseNext, Rank
  <2>4. StepsLeft' < StepsLeft
    BY <1>2, <2>2, <2>3 DEF StepsLeft
  <2> QED
    BY <1>1, <1>3, <2>4 DEF CloseNext
<1>4. CASE EnterStop \/ CloseDone \/ Terminate \/ WaitReturns \/ GraceExpires \/ Kill \/ Survives
           \/ Interrupt
  <2>1. tracked' = tracked /\ ctx' = "close" /\ spc' # spc
    BY <1>1, <1>4 DEF EnterStop, CloseDone, Terminate, WaitReturns, GraceExpires, Kill, Survives,
       StopReturns, Unwind, Interrupt, InterruptBody, InterruptStop, InterruptClose, Stopping
  <2>2. Rank(spc') < Rank(spc)
    <3>1. CASE EnterStop \/ CloseDone \/ GraceExpires
      BY <3>1 DEF EnterStop, CloseDone, GraceExpires, Rank
    <3>2. CASE Terminate \/ WaitReturns \/ Kill \/ Survives
      BY <1>1, <3>2 DEF Terminate, WaitReturns, Kill, Survives, StopReturns, Rank
    <3>3. CASE Interrupt
      BY <1>1, <3>3 DEF Interrupt, InterruptBody, InterruptStop, InterruptClose, Stopping, Rank
    <3> QED
      BY <1>4, <3>1, <3>2, <3>3
  <2>3. Rank(spc) \in Nat /\ Rank(spc') \in Nat
    BY DEF Rank
  <2> QED
    BY <1>2, <2>1, <2>2, <2>3 DEF StepsLeft
<1> QED
  BY <1>3, <1>4 DEF Teardown

(* Each step of close leaves fewer steps (process.py:173-204): it ends     *)
(* after at most 6 * Cardinality(tracked) + 1 of them.                     *)
THEOREM CloseShrinks == SupSpec => CloseCountsDown
<1>1. SupTypeOK /\ SupInv /\ [SupNext]_supVars =>
        [Closing => /\ ctx' = "close" /\ ~BodyStep
                    /\ Teardown \/ Interrupt => StepsLeft' < StepsLeft
                    /\ Environment => StepsLeft' = StepsLeft]_supVars
  <2> SUFFICES ASSUME SupTypeOK, SupInv, SupNext, Closing
               PROVE  /\ ctx' = "close" /\ ~BodyStep
                      /\ Teardown \/ Interrupt => StepsLeft' < StepsLeft
                      /\ Environment => StepsLeft' = StepsLeft
    BY DEF supVars
  <2>1. ctx = "close" /\ spc \in {"close", "popped"} \cup Stopping
    BY ClosePoints
  <2>2. ~BodyStep
    BY <2>1 DEF BodyStep, Register, StartFails, BodyRaises, BodyEnds, Spawn, Stop, StopUntracked,
       RequireRunning, RequireUntracked, RequireExited, WaitFor, Stopping
  <2>3. CASE Teardown \/ Interrupt
    BY <2>2, <2>3, CloseStep DEF Environment
  <2>4. CASE Environment
    <3>1. UNCHANGED <<tracked, spc, ctx>>
      BY <2>4 DEF Environment
    <3>2. StepsLeft' = StepsLeft
      BY <3>1 DEF StepsLeft
    <3>3. ~ (Teardown \/ Interrupt)
      BY <3>1, CloseStep
    <3> QED
      BY <2>1, <2>2, <3>1, <3>2, <3>3
  <2> QED
    BY <2>2, <2>3, <2>4 DEF SupNext
<1> QED
  BY <1>1, SupTypeCorrect, SupInvHolds, PTL DEF SupSpec, CloseCountsDown

(* close is never stuck (process.py:177, 192-204). *)
THEOREM CloseIsNeverStuck == SupSpec => []CloseGoesOn
<1>1. SupInit => BornInv
  BY DEF SupInit, BornInv, InHand, Stopping
<1>2. SupTypeOK /\ SupInv /\ BornInv => CloseGoesOn
  <2> SUFFICES ASSUME SupTypeOK, SupInv, BornInv, Closing
               PROVE  CloseGoesOn
    BY DEF CloseGoesOn
  <2>1. spc \in {"close", "popped"} \cup Stopping
    BY DEF Closing, SupTypeOK, SupInv, OrderInv
  <2>2. spc \in Stopping => leader[cur] \in {"running", "zombie", "reaped"}
    <3>1. spc \in Stopping => cur \in 1..started /\ cur \in Procs
      BY DEF BornInv, InHand, SupTypeOK
    <3> QED
      BY <3>1 DEF BornInv, SupTypeOK
  <2>3. tracked = {} \/ \E p \in tracked : \A q \in tracked : q <= p
    BY LastTracked
  <2> QED
    BY <2>1, <2>2, <2>3 DEF CloseGoesOn, Stopping
<1> QED
  BY <1>1, <1>2, BornStep, SupTypeCorrect, SupInvHolds, PTL DEF SupSpec
=============================================================================
