------------------------------- MODULE WdaClient -------------------------------
(***************************************************************************)
(* The launch, tap, type and swipe steps of a recipe (executor.py) through *)
(* WebDriverAgentClient (ios/wda.py), on a phone whose screen and front    *)
(* application change between the requests of one step.                    *)
(*                                                                         *)
(* WebDriverAgent serves one session at a time and answers for the         *)
(* application in front.  A request may fail, or take effect and lose its  *)
(* answer; the recipe then stops.  A screen shows elements, each with the  *)
(* attributes that decide whether it may be touched.                       *)
(***************************************************************************)
EXTENDS Integers, FiniteSets

CONSTANTS
  Apps,        \* bundle IDs, all at one WDA URL
  Elements,    \* accessibility elements
  NameOf,      \* the name of each element
  AppOf,       \* the application of each element
  Looks,       \* appearances: rectangle, visible and enabled attributes, on the screen at all
  Frame,       \* rectangle of the application
  Scale,       \* a slide starts at a multiple of 1 / Scale of the width
  MaxSteps,    \* bound: recipe steps
  MaxChanges   \* bound: changes of the screen

Rectangles == [x : Int, y : Int, w : Int, h : Int]

ASSUME WdaAssumption ==
  /\ Elements # {} /\ MaxSteps \in Nat /\ MaxChanges \in Nat
  /\ \A e \in Elements : AppOf[e] \in Apps
  /\ Looks \subseteq [rect : Rectangles, visible : BOOLEAN, enabled : BOOLEAN, present : BOOLEAN]
  /\ Frame \in Rectangles /\ Scale \in Nat \ {0}

VARIABLES
  front,     \* application in front
  session,   \* the session WebDriverAgent serves, 0 before the first
  clients,   \* the client of each application, by the session it opened; 0 is none
  screen,    \* look of each element
  focus,     \* elements with the keyboard focus, at most one
  step,      \* the request under way, "idle" or "failed"
  job,       \* the recipe step
  found,     \* element selected or looked up in this step
  spot,      \* rectangle it had in the source
  steady,    \* the screen has not changed since the source was read
  switched,  \* the phone put another application in front
  touch,     \* the touches of this step
  keyed,     \* where the text of this step went
  steps, changes

vars == <<front, session, clients, screen, focus, step, job, found, spot, steady, switched,
          touch, keyed, steps, changes>>

NoJob == [kind |-> "none", app |-> "none", name |-> "none", start |-> 0]
Names == {NameOf[e] : e \in Elements}

-----------------------------------------------------------------------------
(* Rectangle.intersects and the selection of an element. *)

Intersects(r, o) ==
  /\ r.w > 0 /\ r.h > 0 /\ o.w > 0 /\ o.h > 0
  /\ r.x < o.x + o.w /\ o.x < r.x + r.w
  /\ r.y < o.y + o.h /\ o.y < r.y + r.h

OnScreen == {e \in Elements : AppOf[e] = front /\ screen[e].present}
Displayed(e) == screen[e].visible /\ Intersects(screen[e].rect, Frame)
Matching(name) == {e \in OnScreen : NameOf[e] = name}

(* Wrong: any match that may be touched is taken. *)
SelectAny(name) ==
  {e \in Matching(name) : Displayed(e) /\ screen[e].enabled}

Selected(name) ==
  {e \in Matching(name) : Cardinality(Matching(name)) = 1 /\ Displayed(e) /\ screen[e].enabled}

Covers(r, x, y) == r.x <= x /\ x < r.x + r.w /\ r.y <= y /\ y < r.y + r.h

(* Python's round of a / b: a half goes to the even side. *)
Round(a, b) ==
  LET q == a \div b
      rest == a % b
  IN IF 2 * rest > b \/ (2 * rest = b /\ q % 2 = 1) THEN q + 1 ELSE q

(* Where a slide begins. *)
SlideX(r, start) == r.x + Round(r.w * start, Scale)
SlideY(r) == r.y + r.h \div 2

-----------------------------------------------------------------------------
Init ==
  /\ front \in Apps
  /\ session = 0 /\ clients = [a \in Apps |-> 0]
  /\ screen \in [Elements -> Looks]
  /\ focus = {} /\ step = "idle" /\ job = NoJob
  /\ found = {} /\ spot = Frame /\ steady = FALSE /\ switched = FALSE
  /\ touch = {} /\ keyed = {} /\ steps = 0 /\ changes = 0

Goto(s) == step' = s

StartStep(kind, app, name, start) ==
  /\ step = "idle" /\ steps < MaxSteps
  /\ steps' = steps + 1
  /\ job' = [kind |-> kind, app |-> app, name |-> name, start |-> start]
  /\ found' = {} /\ touch' = {} /\ keyed' = {}
  /\ Goto("client")
  /\ UNCHANGED <<front, session, clients, screen, focus, spot, steady, switched, changes>>

(* Wrong: the text is sent without a tap before it. *)
AfterClientTyping ==
  Goto(IF job.kind = "launch" THEN "idle" ELSE IF job.kind = "type" THEN "keys" ELSE "source")

AfterClient == Goto(IF job.kind = "launch" THEN "idle" ELSE "source")

(* Wrong: clients are kept by URL alone. *)
ClientByUrl(app) ==
  IF \E a \in Apps : clients[a] # 0
  THEN CHOOSE n \in {clients[a] : a \in Apps} : n # 0
  ELSE 0

Client(app) == clients[app]

(* _client: one client, and one launch, for each application. *)
KeepClient ==
  /\ step = "client" /\ Client(job.app) # 0
  /\ AfterClient
  /\ UNCHANGED <<front, session, clients, screen, focus, job, found, spot, steady, switched,
                 touch, keyed, steps, changes>>

(* open: the session of another client ends, the application comes to the front. *)
OpenClient ==
  /\ step = "client" /\ Client(job.app) = 0
  /\ session' = session + 1
  /\ clients' = [clients EXCEPT ![job.app] = session + 1]
  /\ front' = job.app
  /\ focus' = {} /\ switched' = FALSE
  /\ AfterClient
  /\ UNCHANGED <<screen, job, found, spot, steady, touch, keyed, steps, changes>>

Served == Client(job.app) = session

(* source and select_named_element; what is refused fails the recipe. *)
ReadSource ==
  /\ step = "source" /\ Served
  /\ steady' = TRUE
  /\ \/ /\ Selected(job.name) = {}
        /\ Goto("failed") /\ UNCHANGED <<found, spot>>
     \/ \E e \in Selected(job.name) :
          /\ found' = {e} /\ spot' = screen[e].rect
          /\ Goto(IF job.kind = "swipe" THEN "swipe" ELSE "lookup")
  /\ UNCHANGED <<front, session, clients, screen, focus, job, switched, touch, keyed, steps,
                 changes>>

(* The class chain finds an element with the name now. *)
LookUp ==
  /\ step = "lookup" /\ Served
  /\ \E e \in Matching(job.name) : found' = {e}
  /\ Goto("displayed")
  /\ UNCHANGED <<front, session, clients, screen, focus, job, spot, steady, switched, touch,
                 keyed, steps, changes>>

CheckDisplayed ==
  /\ step = "displayed" /\ Served
  /\ Goto(IF \A e \in found : e \in OnScreen /\ Displayed(e) THEN "click" ELSE "failed")
  /\ UNCHANGED <<front, session, clients, screen, focus, job, found, spot, steady, switched,
                 touch, keyed, steps, changes>>

Touched(hit, point) ==
  touch' = {[hit |-> hit, kind |-> job.kind, inside |-> point, steady |-> steady,
             alone |-> Cardinality(Matching(job.name)) = 1]}

(* A click on an element that is gone is an error; an answer may be lost. *)
Click ==
  /\ step = "click" /\ Served
  /\ found \subseteq OnScreen
  /\ Touched(found, TRUE)
  /\ focus' = found
  /\ \E answered \in BOOLEAN :
       Goto(IF ~answered THEN "failed" ELSE IF job.kind = "type" THEN "keys" ELSE "idle")
  /\ UNCHANGED <<front, session, clients, screen, job, found, spot, steady, switched, keyed,
                 steps, changes>>

(* type_text goes to whatever has the focus. *)
TypeKeys ==
  /\ step = "keys" /\ Served
  /\ keyed' = {[into |-> focus, steady |-> steady]}
  /\ \E answered \in BOOLEAN : Goto(IF answered THEN "idle" ELSE "failed")
  /\ UNCHANGED <<front, session, clients, screen, focus, job, found, spot, steady, switched,
                 touch, steps, changes>>

(* swipe touches a point: what is there now is what moves. *)
Swipe ==
  /\ step = "swipe" /\ Served
  /\ spot.w >= 2
  /\ LET x == SlideX(spot, job.start)
         y == SlideY(spot)
     IN Touched({e \in OnScreen : Displayed(e) /\ Covers(screen[e].rect, x, y)},
                Covers(Frame, x, y))
  /\ \E answered \in BOOLEAN : Goto(IF answered THEN "idle" ELSE "failed")
  /\ UNCHANGED <<front, session, clients, screen, focus, job, found, spot, steady, switched,
                 keyed, steps, changes>>

(* No answer, an HTTP error, a session that WebDriverAgent no longer serves. *)
RequestFails ==
  /\ step \notin {"idle", "failed"}
  /\ Goto("failed")
  /\ UNCHANGED <<front, session, clients, screen, focus, job, found, spot, steady, switched,
                 touch, keyed, steps, changes>>

ScreenChanges ==
  /\ step # "failed" /\ changes < MaxChanges
  /\ changes' = changes + 1
  /\ \E e \in Elements, look \in Looks : screen' = [screen EXCEPT ![e] = look]
  /\ \E moved \in {focus, {}} : focus' = moved
  /\ steady' = FALSE
  /\ UNCHANGED <<front, session, clients, step, job, found, spot, switched, touch, keyed,
                 steps>>

AppSwitches ==
  /\ step # "failed" /\ changes < MaxChanges
  /\ changes' = changes + 1
  /\ \E a \in Apps \ {front} : front' = a
  /\ focus' = {} /\ steady' = FALSE /\ switched' = TRUE
  /\ UNCHANGED <<session, clients, screen, step, job, found, spot, touch, keyed, steps>>

Recipe ==
  \/ \E a \in Apps : StartStep("launch", a, "none", 0)
  \/ \E a \in Apps, n \in Names :
       \/ StartStep("tap", a, n, 0) \/ StartStep("type", a, n, 0)
       \/ \E s \in 0..Scale : StartStep("swipe", a, n, s)
  \/ KeepClient \/ OpenClient \/ ReadSource \/ LookUp \/ CheckDisplayed
  \/ Click \/ TypeKeys \/ Swipe \/ RequestFails

Next == Recipe \/ ScreenChanges \/ AppSwitches

Spec == Init /\ [][Next]_vars

-----------------------------------------------------------------------------
Within(r, o) == r.x >= o.x /\ r.x + r.w <= o.x + o.w /\ r.y >= o.y /\ r.y + r.h <= o.y + o.h

(* The start of a slide is more than half a point short of the far edge. *)
ClearOfTheEdge == 2 * spot.w * (Scale - job.start) > Scale

(* On a screen that does not change between the source and the touch, a tap and a
   slide touch the one element of that name, and a slide begins on it.  A slide
   whose start is rounded to the far edge, or whose element is partly off the
   screen, may begin beside it. *)
TouchIsExact ==
  \A t \in touch :
    t.steady /\ (t.kind # "swipe" \/ (ClearOfTheEdge /\ Within(spot, Frame))) =>
      found \subseteq t.hit /\ t.alone /\ t.inside

(* The text of a type step goes to the element that step tapped, after the tap,
   unless the screen changed in between. *)
TextFollowsTap ==
  \A k \in keyed :
    /\ \E t \in touch : t.hit = found
    /\ k.steady => k.into = found

(* A touch lands in the application its step names, although the steps of
   another application open sessions of their own, unless somebody switches
   applications on the phone. *)
TouchesOwnApp ==
  \A t \in touch : ~switched => \A e \in t.hit : AppOf[e] = job.app
=============================================================================
