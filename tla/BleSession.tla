------------------------------ MODULE BleSession ------------------------------
(***************************************************************************)
(* The ble commands (cli.py) over a BleSession and its bleak backend       *)
(* (ble.py), with a device that answers late, fails or goes out of range.  *)
(*                                                                         *)
(* One task awaits one request of the backend at a time.  All requests but *)
(* disconnect are awaited for a limited time; a request given up may still *)
(* take effect on the device.  SIGINT cancels the task at its await, and   *)
(* the handlers on its way out await again.                                *)
(***************************************************************************)
EXTENDS Naturals

CONSTANT MaxInterrupts   \* bound: SIGINTs

ASSUME BleAssumption == MaxInterrupts \in Nat

Commands == {"scan", "connect", "read", "write", "send", "notify"}  \* send: without response

VARIABLES
  command,    \* the ble command
  step,       \* what the task awaits, see Steps
  request,    \* the awaited request: "pending", "served", "failed"; "none" in sleep
  due,        \* the time limit of the await has passed
  late,       \* requests given up that the device may still serve
  link,       \* the device is connected
  subscribed, \* the device sends notifications
  written,    \* times the device took the frame
  closed,     \* BleSession._closed
  failed,     \* the command will report an error
  unstopped,  \* start_notify or stop_notify did not return normally
  cut,        \* the last disconnect failed or was interrupted
  interrupts

vars == <<command, step, request, due, late, link, subscribed, written, closed, failed,
          unstopped, cut, interrupts>>

Steps == {"discover", "connect", "abort", "operate", "sleep", "stop", "close", "ended"}
Limited == {"discover", "connect", "operate", "stop"}   \* awaited by _within_timeout
Disconnecting == {"abort", "close"}

TypeOK ==
  /\ command \in Commands /\ step \in Steps
  /\ request \in {"none", "pending", "served", "failed"}
  /\ late \subseteq Limited
  /\ due \in BOOLEAN /\ link \in BOOLEAN /\ subscribed \in BOOLEAN /\ closed \in BOOLEAN
  /\ failed \in BOOLEAN /\ unstopped \in BOOLEAN /\ cut \in BOOLEAN
  /\ written \in Nat /\ interrupts \in 0..MaxInterrupts

Init ==
  /\ command \in Commands
  /\ step = IF command = "scan" THEN "discover" ELSE "connect"
  /\ request = "pending"
  /\ due = FALSE /\ late = {} /\ link = FALSE /\ subscribed = FALSE /\ written = 0
  /\ closed = FALSE /\ failed = FALSE /\ unstopped = FALSE /\ cut = FALSE
  /\ interrupts = 0

-----------------------------------------------------------------------------
(* The device and the Bluetooth stack. *)

Effect(r) ==
  /\ link' = (link \/ r = "connect")
  /\ subscribed' = IF r = "operate" /\ command = "notify" THEN TRUE
                   ELSE IF r = "stop" THEN FALSE ELSE subscribed
  /\ written' = IF r = "operate" /\ command \in {"write", "send"} THEN written + 1 ELSE written

(* A characteristic needs the link; discovery takes its time limit in full. *)
Serve ==
  /\ step \in Limited /\ request = "pending"
  /\ step \in {"operate", "stop"} => link
  /\ step = "discover" => due
  /\ Effect(step)
  /\ request' = "served"
  /\ UNCHANGED <<command, step, due, late, closed, failed, unstopped, cut, interrupts>>

ServeLate(r) ==
  /\ r \in late
  /\ r \in {"operate", "stop"} => link
  /\ Effect(r)
  /\ late' = late \ {r}
  /\ UNCHANGED <<command, step, request, due, closed, failed, unstopped, cut, interrupts>>

ServeDisconnect ==
  /\ step \in Disconnecting /\ request = "pending"
  /\ link' = FALSE /\ subscribed' = FALSE /\ late' = {}
  /\ request' = "served"
  /\ UNCHANGED <<command, step, due, written, closed, failed, unstopped, cut, interrupts>>

FailRequest ==
  /\ request = "pending"
  /\ request' = "failed"
  /\ UNCHANGED <<command, step, due, late, link, subscribed, written, closed, failed,
                 unstopped, cut, interrupts>>

LoseLink ==
  /\ link
  /\ link' = FALSE /\ subscribed' = FALSE /\ late' = late \ {"operate", "stop"}
  /\ UNCHANGED <<command, step, request, due, written, closed, failed, unstopped, cut,
                 interrupts>>

(* A write without response is done once it is queued. *)
Queue ==
  /\ command = "send" /\ step = "operate" /\ request = "pending" /\ link
  /\ late' = late \cup {"operate"}
  /\ request' = "served"
  /\ UNCHANGED <<command, step, due, link, subscribed, written, closed, failed, unstopped,
                 cut, interrupts>>

-----------------------------------------------------------------------------
(* The task. *)

Await(s) ==
  /\ step' = s
  /\ request' = IF s \in {"sleep", "ended"} THEN "none" ELSE "pending"
  /\ due' = FALSE
  /\ closed' = (closed \/ s = "close")

AfterReturn(s) ==
  CASE s = "connect" -> IF command = "connect" THEN "close" ELSE "operate"
    [] s = "operate" -> IF command = "notify" THEN "sleep" ELSE "close"
    [] s = "sleep" -> "stop"
    [] s = "stop" -> "close"
    [] s \in {"discover", "abort", "close"} -> "ended"

(* Wrong: connect closes the backend on an Exception, which a cancellation is not. *)
AfterRaiseExceptionOnly(s, cancelled) ==
  CASE s = "connect" -> IF cancelled THEN "ended" ELSE "abort"
    [] s = "sleep" -> "stop"
    [] s \in {"operate", "stop"} -> "close"
    [] s \in {"discover", "abort", "close"} -> "ended"

(* Wrong: the sleep is not in a try block. *)
AfterRaiseNoFinally(s, cancelled) ==
  CASE s = "connect" -> "abort"
    [] s \in {"operate", "sleep", "stop"} -> "close"
    [] s \in {"discover", "abort", "close"} -> "ended"

(* A cancellation takes the way of any exception: connect closes the backend on
   every BaseException, the finally clause around the sleep stops the
   notifications, __aexit__ closes the session. *)
AfterRaise(s, cancelled) ==
  CASE s = "connect" -> "abort"
    [] s = "sleep" -> "stop"
    [] s \in {"operate", "stop"} -> "close"
    [] s \in {"discover", "abort", "close"} -> "ended"

Return ==
  /\ request = "served" \/ (step = "sleep" /\ due)
  /\ Await(AfterReturn(step))
  /\ UNCHANGED <<command, late, link, subscribed, written, failed, unstopped, cut, interrupts>>

(* An exception leaves the await at step; the request may still be served. *)
Raise(cancelled) ==
  /\ failed' = TRUE
  /\ unstopped' = (unstopped \/ (command = "notify" /\ step \in {"operate", "stop"}))
  /\ cut' = (step \in Disconnecting)
  /\ late' = IF request = "pending" /\ step \in Limited \ {"discover"}
             THEN late \cup {step} ELSE late
  /\ Await(AfterRaise(step, cancelled))
  /\ UNCHANGED <<command, link, subscribed, written>>

(* A request that failed, or a frame of the wrong size that was read. *)
RaiseError ==
  /\ \/ request = "failed"
     \/ command = "read" /\ step = "operate" /\ request = "served"
  /\ Raise(FALSE) /\ UNCHANGED interrupts

(* Wrong: stop_notify is awaited without a time limit. *)
DeadlineUnlessStopping ==
  /\ step \in {"discover", "connect", "operate", "sleep"} /\ ~due
  /\ due' = TRUE
  /\ UNCHANGED <<command, step, request, late, link, subscribed, written, closed, failed,
                 unstopped, cut, interrupts>>

Deadline ==
  /\ step \in Limited \cup {"sleep"} /\ ~due
  /\ due' = TRUE
  /\ UNCHANGED <<command, step, request, late, link, subscribed, written, closed, failed,
                 unstopped, cut, interrupts>>

(* Wrong: the time limit is dropped and the command goes on as if it had an answer. *)
TimeOutSilently ==
  /\ step \in Limited /\ due /\ request = "pending"
  /\ Await(AfterReturn(step))
  /\ UNCHANGED <<command, late, link, subscribed, written, failed, unstopped, cut, interrupts>>

(* wait_for cancels the request; an answer that is there is returned instead. *)
TimeOut ==
  /\ step \in Limited /\ due /\ request = "pending"
  /\ Raise(FALSE) /\ UNCHANGED interrupts

Interrupt ==
  /\ step # "ended" /\ interrupts < MaxInterrupts
  /\ interrupts' = interrupts + 1
  /\ Raise(TRUE)

-----------------------------------------------------------------------------
Device ==
  \/ Serve \/ ServeDisconnect \/ FailRequest \/ LoseLink \/ Queue
  \/ \E r \in Limited : ServeLate(r)
Task == Return \/ RaiseError \/ Deadline \/ TimeOut
Next == Device \/ Task \/ Interrupt

(* The event loop runs what is ready and its timers; of the device nothing is
   assumed, and a disconnect may never be answered. *)
Spec == Init /\ [][Next]_vars /\ WF_vars(Task)

-----------------------------------------------------------------------------
(* A command that ends leaves no connection behind, nor one that a slow device
   could still set up, however it ended: only a disconnect that failed or was
   interrupted can do that. *)
LinkReleased ==
  step = "ended" /\ ~cut => ~link /\ late \cap {"connect"} = {}

(* A command reports success only for what the device did: the frame was
   written, exactly once, or the notifications were started and stopped. *)
SuccessIsReal ==
  step = "ended" /\ ~failed =>
    /\ command = "write" => written = 1
    /\ command # "scan" => closed /\ ~link
    /\ ~unstopped

(* Notifications are stopped before the session is closed, interrupted or not,
   if both requests returned. *)
StoppedBeforeClose ==
  step \in {"close", "ended"} /\ subscribed => unstopped

(* Whatever the device does, the command comes to close the connection: every
   request before that has a time limit of its own. *)
ComesToClose == <>(step \in Disconnecting \cup {"ended"})
=============================================================================
