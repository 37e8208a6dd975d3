---------------------------- MODULE BleSessionProofs ----------------------------
(***************************************************************************)
(* Theorems about BleSession, for any number of interrupts.                *)
(***************************************************************************)
EXTENDS BleSession, TLAPS

(* Where the task can be.  A scan has no connection; what awaits nothing has
   no request. *)
StepInv ==
  /\ step \in {"sleep", "ended"} <=> request = "none"
  /\ command = "scan" => step \in {"discover", "ended"} /\ ~link /\ late = {}
  /\ command # "scan" => step # "discover"
  /\ step \in {"sleep", "stop"} => command = "notify"
  /\ "discover" \notin late

(* After a disconnect that was served nothing is left that could connect again. *)
LinkInv ==
  /\ step \in Disconnecting /\ request = "served" => ~link /\ late = {}
  /\ step = "ended" /\ ~cut => ~link /\ late = {}

(* While nothing failed the command is on its straight path, and the device has
   taken the frame once the request was served. *)
PathInv ==
  ~failed =>
    /\ ~cut /\ ~unstopped /\ step # "abort"
    /\ command # "send" => late = {}
    /\ step \in {"close", "ended"} /\ command # "scan" => closed
    /\ command = "write" =>
         written = IF step \in {"close", "ended"} \/ (step = "operate" /\ request = "served")
                   THEN 1 ELSE 0

(* Notifications are on only between the request that starts them and the one
   that stops them, unless one of the two was given up or failed. *)
NotifyInv ==
  /\ subscribed => command = "notify"
  /\ command = "notify" /\ "operate" \in late => unstopped
  /\ subscribed /\ step \notin {"operate", "sleep", "stop"} => unstopped
  /\ subscribed /\ step = "stop" /\ request = "served" => unstopped

SessionInv == TypeOK /\ StepInv /\ LinkInv /\ PathInv /\ NotifyInv

-----------------------------------------------------------------------------
(* The initial state. *)
LEMMA SessionInit == Init => SessionInv
<1> SUFFICES ASSUME Init
             PROVE  SessionInv
  OBVIOUS
<1>1. TypeOK
  <2>1. step \in Steps
    BY DEF Init, Steps
  <2>2. interrupts \in 0..MaxInterrupts
    BY BleAssumption DEF Init
  <2> QED
    BY <2>1, <2>2 DEF Init, TypeOK
<1>2. StepInv
  BY DEF Init, StepInv
<1>3. LinkInv /\ PathInv /\ NotifyInv
  BY DEF Init, LinkInv, PathInv, NotifyInv
<1> QED
  BY <1>1, <1>2, <1>3 DEF SessionInv

(* The moves of the task lead to steps it has. *)
LEMMA ReturnMoves ==
  ASSUME TypeOK, step # "ended"
  PROVE  AfterReturn(step) \in Steps
BY DEF TypeOK, Steps, AfterReturn

LEMMA RaiseMoves ==
  ASSUME TypeOK, step # "ended", NEW c
  PROVE  AfterRaise(step, c) \in Steps
BY DEF TypeOK, Steps, AfterRaise

(* What an await leaves behind. *)
LEMMA AwaitTypes ==
  ASSUME TypeOK, NEW s \in Steps, Await(s)
  PROVE  /\ step' \in Steps /\ request' \in {"none", "pending", "served", "failed"}
         /\ due' \in BOOLEAN /\ closed' \in BOOLEAN
<1>1. step' \in Steps /\ request' \in {"none", "pending", "served", "failed"}
  BY DEF Await
<1>2. due' \in BOOLEAN /\ closed' \in BOOLEAN
  BY DEF Await
<1> QED
  BY <1>1, <1>2

(* What an exception leaves behind. *)
LEMMA RaiseTypes ==
  ASSUME TypeOK, step # "ended", NEW c \in BOOLEAN, Raise(c), interrupts' \in 0..MaxInterrupts
  PROVE  TypeOK'
<1>1. /\ step' \in Steps /\ request' \in {"none", "pending", "served", "failed"}
      /\ due' \in BOOLEAN /\ closed' \in BOOLEAN
  <2>1. AfterRaise(step, c) \in Steps
    BY RaiseMoves
  <2> QED
    BY <2>1, AwaitTypes DEF Raise
<1>2. failed' \in BOOLEAN /\ unstopped' \in BOOLEAN /\ cut' \in BOOLEAN
  BY DEF Raise
<1>3. late' \subseteq Limited
  BY DEF Raise, TypeOK
<1>4. /\ command' \in Commands /\ link' \in BOOLEAN /\ subscribed' \in BOOLEAN
      /\ written' \in Nat
  BY DEF Raise, TypeOK
<1> QED
  BY <1>1, <1>2, <1>3, <1>4 DEF TypeOK

(* What a request does once the device serves it. *)
LEMMA EffectTypes ==
  ASSUME TypeOK, NEW r \in Limited, Effect(r)
  PROVE  link' \in BOOLEAN /\ subscribed' \in BOOLEAN /\ written' \in Nat
<1>1. link' \in BOOLEAN
  BY DEF Effect
<1>2. subscribed' \in BOOLEAN
  BY DEF Effect, TypeOK
<1>3. written' \in Nat
  BY DEF Effect, TypeOK
<1> QED
  BY <1>1, <1>2, <1>3

(* Every step keeps the types. *)
LEMMA TypeStep == SessionInv /\ [Next]_vars => TypeOK'
<1> SUFFICES ASSUME TypeOK, StepInv, [Next]_vars
             PROVE  TypeOK'
  BY DEF SessionInv
<1>1. CASE Serve
  <2>1. link' \in BOOLEAN /\ subscribed' \in BOOLEAN /\ written' \in Nat
    BY <1>1, EffectTypes DEF Serve
  <2> QED
    BY <1>1, <2>1 DEF Serve, TypeOK
<1>2. CASE ServeDisconnect
  BY <1>2 DEF ServeDisconnect, TypeOK
<1>3. CASE FailRequest
  BY <1>3 DEF FailRequest, TypeOK
<1>4. CASE LoseLink
  BY <1>4 DEF LoseLink, TypeOK
<1>5. CASE Queue
  BY <1>5 DEF Queue, TypeOK, Limited
<1>6. CASE Return
  <2>1. step # "ended"
    BY <1>6 DEF Return, StepInv
  <2>2. AfterReturn(step) \in Steps
    BY <2>1, ReturnMoves
  <2>3. /\ step' \in Steps /\ request' \in {"none", "pending", "served", "failed"}
        /\ due' \in BOOLEAN /\ closed' \in BOOLEAN
    BY <1>6, <2>2, AwaitTypes DEF Return
  <2> QED
    BY <1>6, <2>3 DEF Return, TypeOK
<1>7. CASE RaiseError
  <2>1. step # "ended" /\ interrupts' \in 0..MaxInterrupts
    BY <1>7 DEF RaiseError, StepInv, TypeOK
  <2> QED
    BY <1>7, <2>1, RaiseTypes DEF RaiseError
<1>8. CASE Deadline
  BY <1>8 DEF Deadline, TypeOK
<1>9. CASE TimeOut
  <2>1. step # "ended" /\ interrupts' \in 0..MaxInterrupts
    BY <1>9 DEF TimeOut, TypeOK, Limited
  <2> QED
    BY <1>9, <2>1, RaiseTypes DEF TimeOut
<1>10. CASE Interrupt
  <2>1. step # "ended" /\ interrupts' \in 0..MaxInterrupts
    BY <1>10, BleAssumption DEF Interrupt, TypeOK
  <2> QED
    BY <1>10, <2>1, RaiseTypes DEF Interrupt
<1>11. ASSUME NEW r \in Limited, ServeLate(r)
       PROVE  TypeOK'
  <2>1. link' \in BOOLEAN /\ subscribed' \in BOOLEAN /\ written' \in Nat
    BY <1>11, EffectTypes DEF ServeLate
  <2> QED
    BY <1>11, <2>1 DEF ServeLate, TypeOK
<1>12. CASE UNCHANGED vars
  BY <1>12 DEF vars, TypeOK
<1> QED
  BY <1>1, <1>2, <1>3, <1>4, <1>5, <1>6, <1>7, <1>8, <1>9, <1>10, <1>11, <1>12
  DEF Next, Device, Task

(* The request of the task and where it can be. *)
LEMMA StepKept == SessionInv /\ [Next]_vars => StepInv'
<1> SUFFICES ASSUME SessionInv, [Next]_vars
             PROVE  StepInv'
  OBVIOUS
<1> USE DEF SessionInv, TypeOK, StepInv, Steps, Limited, Disconnecting, Commands
<1>1. CASE Serve
  BY <1>1 DEF Serve, Effect
<1>2. CASE ServeDisconnect
  BY <1>2 DEF ServeDisconnect
<1>3. CASE FailRequest
  BY <1>3 DEF FailRequest
<1>4. CASE LoseLink
  BY <1>4 DEF LoseLink
<1>5. CASE Queue
  BY <1>5 DEF Queue
<1>6. CASE Return
  BY <1>6 DEF Return, Await, AfterReturn
<1>7. CASE RaiseError
  BY <1>7 DEF RaiseError, Raise, Await, AfterRaise
<1>8. CASE Deadline
  BY <1>8 DEF Deadline
<1>9. CASE TimeOut
  BY <1>9 DEF TimeOut, Raise, Await, AfterRaise
<1>10. CASE Interrupt
  BY <1>10 DEF Interrupt, Raise, Await, AfterRaise
<1>11. ASSUME NEW r \in Limited, ServeLate(r)
      PROVE  StepInv'
  BY <1>11 DEF ServeLate
<1>12. CASE UNCHANGED vars
  BY <1>12 DEF vars
<1> QED
  BY <1>1, <1>2, <1>3, <1>4, <1>5, <1>6, <1>7, <1>8, <1>9, <1>10, <1>11, <1>12
  DEF Next, Device, Task

(* A served disconnect leaves nothing that could connect. *)
LEMMA LinkKept == SessionInv /\ [Next]_vars => LinkInv'
<1> SUFFICES ASSUME SessionInv, [Next]_vars
             PROVE  LinkInv'
  OBVIOUS
<1> USE DEF SessionInv, TypeOK, StepInv, LinkInv, Steps, Limited, Disconnecting, Commands
<1>1. CASE Serve
  BY <1>1 DEF Serve
<1>2. CASE ServeDisconnect
  BY <1>2 DEF ServeDisconnect
<1>3. CASE FailRequest
  BY <1>3 DEF FailRequest
<1>4. CASE LoseLink
  BY <1>4 DEF LoseLink
<1>5. CASE Queue
  BY <1>5 DEF Queue
<1>6. CASE Return
  BY <1>6 DEF Return, Await, AfterReturn
<1>7. CASE RaiseError
  BY <1>7 DEF RaiseError, Raise, Await, AfterRaise
<1>8. CASE Deadline
  BY <1>8 DEF Deadline
<1>9. CASE TimeOut
  BY <1>9 DEF TimeOut, Raise, Await, AfterRaise
<1>10. CASE Interrupt
  BY <1>10 DEF Interrupt, Raise, Await, AfterRaise
<1>11. ASSUME NEW r \in Limited, ServeLate(r)
      PROVE  LinkInv'
  BY <1>11 DEF ServeLate
<1>12. CASE UNCHANGED vars
  BY <1>12 DEF vars
<1> QED
  BY <1>1, <1>2, <1>3, <1>4, <1>5, <1>6, <1>7, <1>8, <1>9, <1>10, <1>11, <1>12
  DEF Next, Device, Task

(* The straight path is left only by a failure. *)
LEMMA PathKept == SessionInv /\ [Next]_vars => PathInv'
<1> SUFFICES ASSUME SessionInv, [Next]_vars
             PROVE  PathInv'
  OBVIOUS
<1> USE DEF SessionInv, TypeOK, StepInv, PathInv, Steps, Limited, Disconnecting, Commands
<1>1. CASE Serve
  BY <1>1 DEF Serve, Effect
<1>2. CASE ServeDisconnect
  BY <1>2 DEF ServeDisconnect
<1>3. CASE FailRequest
  BY <1>3 DEF FailRequest
<1>4. CASE LoseLink
  BY <1>4 DEF LoseLink
<1>5. CASE Queue
  BY <1>5 DEF Queue
<1>6. CASE Return
  BY <1>6 DEF Return, Await, AfterReturn
<1>7. CASE RaiseError
  BY <1>7 DEF RaiseError, Raise
<1>8. CASE Deadline
  BY <1>8 DEF Deadline
<1>9. CASE TimeOut
  BY <1>9 DEF TimeOut, Raise
<1>10. CASE Interrupt
  BY <1>10 DEF Interrupt, Raise
<1>11. ASSUME NEW r \in Limited, ServeLate(r)
      PROVE  PathInv'
  BY <1>11 DEF ServeLate
<1>12. CASE UNCHANGED vars
  BY <1>12 DEF vars
<1> QED
  BY <1>1, <1>2, <1>3, <1>4, <1>5, <1>6, <1>7, <1>8, <1>9, <1>10, <1>11, <1>12
  DEF Next, Device, Task

(* Notifications end with the request that stops them. *)
LEMMA NotifyKept == SessionInv /\ [Next]_vars => NotifyInv'
<1> SUFFICES ASSUME SessionInv, [Next]_vars
             PROVE  NotifyInv'
  OBVIOUS
<1> USE DEF SessionInv, TypeOK, StepInv, NotifyInv, Steps, Limited, Disconnecting, Commands
<1>1. CASE Serve
  BY <1>1 DEF Serve, Effect
<1>2. CASE ServeDisconnect
  BY <1>2 DEF ServeDisconnect
<1>3. CASE FailRequest
  BY <1>3 DEF FailRequest
<1>4. CASE LoseLink
  BY <1>4 DEF LoseLink
<1>5. CASE Queue
  BY <1>5 DEF Queue
<1>6. CASE Return
  BY <1>6 DEF Return, Await, AfterReturn
<1>7. CASE RaiseError
  BY <1>7 DEF RaiseError, Raise
<1>8. CASE Deadline
  BY <1>8 DEF Deadline
<1>9. CASE TimeOut
  BY <1>9 DEF TimeOut, Raise
<1>10. CASE Interrupt
  BY <1>10 DEF Interrupt, Raise, Await, AfterRaise
<1>11. ASSUME NEW r \in Limited, ServeLate(r)
      PROVE  NotifyInv'
  BY <1>11 DEF ServeLate, Effect
<1>12. CASE UNCHANGED vars
  BY <1>12 DEF vars
<1> QED
  BY <1>1, <1>2, <1>3, <1>4, <1>5, <1>6, <1>7, <1>8, <1>9, <1>10, <1>11, <1>12
  DEF Next, Device, Task

(* The invariant is inductive. *)
LEMMA SessionInvariant == Spec => []SessionInv
<1>1. SessionInv /\ [Next]_vars => SessionInv'
  BY TypeStep, StepKept, LinkKept, PathKept, NotifyKept DEF SessionInv
<1> QED
  BY <1>1, SessionInit, PTL DEF Spec

-----------------------------------------------------------------------------
(* Every variable of a ble command keeps its type. *)
THEOREM SessionTypeCorrect == Spec => []TypeOK
<1>1. SessionInv => TypeOK
  BY DEF SessionInv
<1> QED
  BY <1>1, SessionInvariant, PTL

(* ble.py:86-128: a command that ends has no connection and no request that
   could still make one, unless the disconnect itself failed or was interrupted. *)
THEOREM LinkIsReleased == Spec => []LinkReleased
<1>1. SessionInv => LinkReleased
  BY DEF SessionInv, LinkInv, LinkReleased
<1> QED
  BY <1>1, SessionInvariant, PTL

(* ble.py:130-205: success means that the device took the frame once, and that
   notifications were started, stopped and the session closed. *)
THEOREM SuccessMeansDone == Spec => []SuccessIsReal
<1>1. SessionInv => SuccessIsReal
  BY DEF SessionInv, LinkInv, PathInv, SuccessIsReal
<1> QED
  BY <1>1, SessionInvariant, PTL

(* ble.py:176-205: no close while notifications are on, unless a request that
   starts or stops them did not return. *)
THEOREM NotificationsStopFirst == Spec => []StoppedBeforeClose
<1>1. SessionInv => StoppedBeforeClose
  BY DEF SessionInv, NotifyInv, StoppedBeforeClose
<1> QED
  BY <1>1, SessionInvariant, PTL

-----------------------------------------------------------------------------
(* Progress.  That a command comes to close its connection is checked by TLC
   under fairness; the argument behind it is proved here without. *)

BeforeClose == step \notin Disconnecting \cup {"ended"}

(* The awaits before the connection is closed, counted from the last. *)
Rank(s) ==
  IF s = "connect" THEN 4 ELSE IF s = "operate" THEN 3 ELSE IF s = "sleep" THEN 2
  ELSE IF s \in {"stop", "discover"} THEN 1 ELSE 0

(* A bound on the steps of the task before it closes the connection: each await
   has its deadline and its end. *)
StepsLeft == 2 * Rank(step) + IF due THEN 0 ELSE 1

(* ble.py:98-205: every step of the task and every interrupt brings the command
   nearer to its close, and the device can put it off by nothing it does. *)
ClosingCountsDown ==
  [][BeforeClose => /\ Task \/ Interrupt => StepsLeft' < StepsLeft
                    /\ Device => StepsLeft' = StepsLeft]_vars

(* ble.py:120-128: each await before the close has a way out that needs nothing
   of the device: its deadline is ahead, or it has passed and the request that is
   still pending is given up, or there is an answer to act upon. *)
AwaitsHaveWaysOut ==
  BeforeClose =>
    /\ step \in Limited \cup {"sleep"}
    /\ ~due \/ step = "sleep" \/ request \in {"pending", "served", "failed"}

(* ble.py:98-205: a command takes at most nine steps of its own before it closes
   the connection. *)
THEOREM ClosingIsNear == Spec => ClosingCountsDown
<1>1. SessionInv /\ [Next]_vars =>
        [BeforeClose => /\ Task \/ Interrupt => StepsLeft' < StepsLeft
                        /\ Device => StepsLeft' = StepsLeft]_vars
  <2> SUFFICES ASSUME SessionInv, BeforeClose
               PROVE  /\ Task \/ Interrupt => StepsLeft' < StepsLeft
                      /\ Device => StepsLeft' = StepsLeft
    OBVIOUS
  <2>1. step \in Limited \cup {"sleep"}
    BY DEF SessionInv, TypeOK, Steps, Limited, Disconnecting, BeforeClose
  <2>2. \A s : Rank(s) \in 0..4
    BY DEF Rank
  <2>3. ASSUME Rank(step') < Rank(step)
        PROVE  StepsLeft' < StepsLeft
    BY <2>2, <2>3 DEF StepsLeft
  <2>4. ASSUME Return
        PROVE  StepsLeft' < StepsLeft
    <3>1. step' = AfterReturn(step)
      BY <2>4 DEF Return, Await
    <3>2. Rank(AfterReturn(step)) < Rank(step)
      BY <2>1 DEF AfterReturn, Rank, Limited
    <3> QED
      BY <2>3, <3>1, <3>2
  <2>5. ASSUME \E c : Raise(c)
        PROVE  StepsLeft' < StepsLeft
    <3>1. PICK c : step' = AfterRaise(step, c)
      BY <2>5 DEF Raise, Await
    <3>2. Rank(AfterRaise(step, c)) < Rank(step)
      BY <2>1 DEF AfterRaise, Rank, Limited
    <3> QED
      BY <2>3, <3>1, <3>2
  <2>6. ASSUME Deadline
        PROVE  StepsLeft' < StepsLeft
    <3>1. ~due /\ due' = TRUE /\ step' = step
      BY <2>6 DEF Deadline
    <3> QED
      BY <2>2, <3>1 DEF StepsLeft
  <2>7. Device => StepsLeft' = StepsLeft
    <3>1. Device => step' = step /\ due' = due
      BY DEF Device, Serve, ServeDisconnect, FailRequest, LoseLink, Queue, ServeLate
    <3> SUFFICES ASSUME Device
                 PROVE  StepsLeft' = StepsLeft
      OBVIOUS
    <3>2. step' = step /\ (due' <=> due)
      BY <3>1
    <3> QED
      BY <3>2 DEF StepsLeft
  <2> QED
    BY <2>4, <2>5, <2>6, <2>7 DEF Task, RaiseError, TimeOut, Interrupt
<1> QED
  BY <1>1, SessionInvariant, PTL DEF Spec, ClosingCountsDown

(* ble.py:120-128: no await before the close depends on the device alone. *)
THEOREM NoAwaitIsStuck == Spec => []AwaitsHaveWaysOut
<1>1. SessionInv => AwaitsHaveWaysOut
  BY DEF SessionInv, TypeOK, StepInv, Steps, Limited, Disconnecting, BeforeClose, AwaitsHaveWaysOut
<1> QED
  BY <1>1, SessionInvariant, PTL
=============================================================================
