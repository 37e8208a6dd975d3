---------------------------- MODULE WdaClientProofs ----------------------------
(***************************************************************************)
(* Theorems about WdaClient, for any applications, elements, rectangles,   *)
(* starts of a slide and numbers of recipe steps and screen changes.       *)
(***************************************************************************)
EXTENDS WdaClient, TLAPS

WdaTypeOK ==
  /\ front \in Apps /\ session \in Nat /\ clients \in [Apps -> Nat]
  /\ screen \in [Elements -> Looks]
  /\ job.start \in 0..Scale
  /\ spot \in Rectangles
  /\ steady \in BOOLEAN /\ switched \in BOOLEAN

Before == {"source", "lookup", "displayed", "click", "swipe"}

(* Nothing is touched or typed before its request, and a client has a session. *)
StepInv ==
  /\ step \in Before \cup {"client"} => touch = {}
  /\ step \in Before \cup {"client", "keys"} => keyed = {} /\ job.app \in Apps
  /\ step \in Before \cup {"keys"} => clients[job.app] # 0
  /\ step = "swipe" => job.kind = "swipe"

(* The application of the session served is in front until somebody switches. *)
FrontInv ==
  /\ \A a \in Apps : clients[a] <= session
  /\ ~switched => \A a \in Apps : clients[a] # 0 /\ clients[a] = session => front = a
  /\ TouchesOwnApp

(* While the screen is steady, what was selected is still the one element. *)
ExactInv ==
  /\ step \in {"lookup", "displayed", "click", "swipe"} /\ steady =>
       Cardinality(Matching(job.name)) = 1
  /\ step = "swipe" /\ steady =>
       /\ found # {}
       /\ \A e \in found : e \in OnScreen /\ Displayed(e) /\ spot = screen[e].rect
  /\ TouchIsExact

(* The text follows the click, which gave its element the focus. *)
TextInv ==
  /\ step = "keys" => (\E t \in touch : t.hit = found) /\ (steady => focus = found)
  /\ TextFollowsTap

WdaInv == WdaTypeOK /\ StepInv /\ FrontInv /\ ExactInv /\ TextInv

-----------------------------------------------------------------------------
(* Division with remainder. *)
LEMMA DivMod ==
  ASSUME NEW a \in Nat, NEW b \in Nat \ {0}
  PROVE  a = b * (a \div b) + (a % b) /\ a \div b \in Nat /\ a % b \in 0..(b-1)
OBVIOUS

(* What is more than a half below w is rounded to less than w. *)
LEMMA RoundBelow ==
  ASSUME NEW w \in Nat, NEW n \in Nat, NEW b \in Nat \ {0}, n <= b,
         2 * w * (b - n) > b
  PROVE  Round(w * n, b) \in 0..(w - 1)
<1> DEFINE a == w * n  q == a \div b  r == a % b  k == Round(a, b)
<1>1. a \in Nat /\ w \in Int /\ n \in Int /\ b \in Int
  OBVIOUS
<1>2. 2 * w * (b - n) = 2 * (b * w) - 2 * a
  BY <1>1
<1>3. 2 * a < 2 * (b * w) - b
  BY <1>2
<1> HIDE DEF a
<1>4. a = b * q + r /\ q \in Nat /\ r \in 0..(b - 1)
  BY <1>1, DivMod
<1>5. k \in {q, q + 1} /\ (k = q + 1 => 2 * r >= b)
  BY <1>4 DEF Round
<1> HIDE DEF q, r, k
<1>6. ASSUME k >= w
      PROVE  FALSE
  <2>1. b * k >= b * w
    BY <1>4, <1>5, <1>6
  <2>2. b * (q + 1) = b * q + b
    BY <1>4
  <2>3. b * q \in Int /\ b * w \in Int /\ b * k \in Int
    BY <1>1, <1>4, <1>5
  <2>4. CASE k = q
    <3>1. a >= b * w
      BY <1>4, <2>1, <2>3, <2>4
    <3> QED
      BY <1>1, <1>3, <2>3, <3>1
  <2>5. CASE k = q + 1
    <3>1. b * q + b >= b * w
      BY <2>1, <2>2, <2>5
    <3> QED
      BY <1>1, <1>3, <1>4, <1>5, <2>3, <2>5, <3>1
  <2> QED
    BY <1>5, <2>4, <2>5
<1>7. k \in Nat
  BY <1>4, <1>5
<1> QED
  BY <1>6, <1>7 DEF k, a

(* The steps one by one. *)
LEMMA NextCases ==
  ASSUME [Next]_vars
  PROVE  \/ \E kind \in {"launch", "tap", "type", "swipe"}, app \in Apps,
               name \in Names \cup {"none"}, start \in 0..Scale : StartStep(kind, app, name, start)
         \/ KeepClient \/ OpenClient \/ ReadSource \/ LookUp \/ CheckDisplayed
         \/ Click \/ TypeKeys \/ Swipe \/ RequestFails \/ ScreenChanges \/ AppSwitches
         \/ UNCHANGED vars
<1>1. 0 \in 0..Scale
  BY WdaAssumption
<1>2. Recipe =>
        \/ \E kind \in {"launch", "tap", "type", "swipe"}, app \in Apps,
              name \in Names \cup {"none"}, start \in 0..Scale : StartStep(kind, app, name, start)
        \/ KeepClient \/ OpenClient \/ ReadSource \/ LookUp \/ CheckDisplayed
        \/ Click \/ TypeKeys \/ Swipe \/ RequestFails
  BY <1>1 DEF Recipe
<1> QED
  BY <1>2 DEF Next

(* The initial state. *)
LEMMA WdaInitInv == Init => WdaInv
<1> SUFFICES ASSUME Init
             PROVE  WdaInv
  OBVIOUS
<1>1. WdaTypeOK
  <2>1. Frame \in Rectangles
    BY WdaAssumption
  <2>2. job.start \in 0..Scale
    BY WdaAssumption DEF Init, NoJob
  <2> QED
    BY <2>1, <2>2 DEF Init, WdaTypeOK
<1>2. StepInv
  BY DEF Init, StepInv, Before
<1>3. FrontInv
  BY DEF Init, FrontInv, TouchesOwnApp
<1>4. ExactInv
  BY DEF Init, ExactInv, TouchIsExact
<1>5. TextInv
  BY DEF Init, TextInv, TextFollowsTap
<1> QED
  BY <1>1, <1>2, <1>3, <1>4, <1>5 DEF WdaInv

(* Every step keeps the types. *)
LEMMA WdaTypeStep == WdaInv /\ [Next]_vars => WdaTypeOK'
<1> SUFFICES ASSUME WdaTypeOK, StepInv, [Next]_vars
             PROVE  WdaTypeOK'
  BY DEF WdaInv
<1>1. ASSUME NEW kind \in {"launch", "tap", "type", "swipe"}, NEW app \in Apps,
             NEW name \in Names \cup {"none"}, NEW start \in 0..Scale,
             StartStep(kind, app, name, start)
      PROVE  WdaTypeOK'
  BY <1>1 DEF StartStep, WdaTypeOK
<1>2. CASE KeepClient
  BY <1>2 DEF KeepClient, WdaTypeOK
<1>3. CASE OpenClient
  <2>1. job.app \in Apps /\ session + 1 \in Nat
    BY <1>3 DEF OpenClient, WdaTypeOK, StepInv
  <2>2. clients' \in [Apps -> Nat] /\ session' \in Nat /\ front' \in Apps
    BY <1>3, <2>1 DEF OpenClient, WdaTypeOK
  <2> QED
    BY <1>3, <2>2 DEF OpenClient, WdaTypeOK
<1>4. CASE ReadSource
  <2>1. \A e \in Elements : screen[e].rect \in Rectangles
    BY WdaAssumption DEF WdaTypeOK
  <2> QED
    BY <1>4, <2>1 DEF ReadSource, Selected, Matching, OnScreen, WdaTypeOK
<1>5. CASE LookUp
  BY <1>5 DEF LookUp, WdaTypeOK
<1>6. CASE CheckDisplayed
  BY <1>6 DEF CheckDisplayed, WdaTypeOK
<1>7. CASE Click
  BY <1>7 DEF Click, WdaTypeOK
<1>8. CASE TypeKeys
  BY <1>8 DEF TypeKeys, WdaTypeOK
<1>9. CASE Swipe
  BY <1>9 DEF Swipe, WdaTypeOK
<1>10. CASE RequestFails
  BY <1>10 DEF RequestFails, WdaTypeOK
<1>11. CASE ScreenChanges
  BY <1>11 DEF ScreenChanges, WdaTypeOK
<1>12. CASE AppSwitches
  BY <1>12 DEF AppSwitches, WdaTypeOK
<1>13. CASE UNCHANGED vars
  BY <1>13 DEF vars, WdaTypeOK
<1> QED
  BY <1>1, <1>2, <1>3, <1>4, <1>5, <1>6, <1>7, <1>8, <1>9, <1>10, <1>11, <1>12, <1>13,
     NextCases

(* The requests of a step in their order. *)
LEMMA StepKept == WdaInv /\ [Next]_vars => StepInv'
<1> SUFFICES ASSUME WdaTypeOK, StepInv, [Next]_vars
             PROVE  StepInv'
  BY DEF WdaInv
<1>1. ASSUME NEW kind \in {"launch", "tap", "type", "swipe"}, NEW app \in Apps,
             NEW name \in Names \cup {"none"}, NEW start \in 0..Scale,
             StartStep(kind, app, name, start)
      PROVE  StepInv'
  BY <1>1 DEF StartStep, StepInv, Before, Goto
<1>2. CASE KeepClient
  BY <1>2 DEF KeepClient, StepInv, Goto, Client, AfterClient
<1>3. CASE OpenClient
  BY <1>3 DEF OpenClient, WdaTypeOK, StepInv, Goto, AfterClient
<1>4. CASE ReadSource
  BY <1>4 DEF ReadSource, StepInv, Before, Goto
<1>5. CASE LookUp
  BY <1>5 DEF LookUp, StepInv, Before, Goto
<1>6. CASE CheckDisplayed
  BY <1>6 DEF CheckDisplayed, StepInv, Before, Goto
<1>7. CASE Click
  BY <1>7 DEF Click, StepInv, Before, Goto
<1>8. CASE TypeKeys
  BY <1>8 DEF TypeKeys, StepInv, Before, Goto
<1>9. CASE Swipe
  BY <1>9 DEF Swipe, StepInv, Before, Goto
<1>10. CASE RequestFails
  BY <1>10 DEF RequestFails, StepInv, Before, Goto
<1>11. CASE ScreenChanges
  BY <1>11 DEF ScreenChanges, StepInv
<1>12. CASE AppSwitches
  BY <1>12 DEF AppSwitches, StepInv
<1>13. CASE UNCHANGED vars
  BY <1>13 DEF vars, StepInv
<1> QED
  BY <1>1, <1>2, <1>3, <1>4, <1>5, <1>6, <1>7, <1>8, <1>9, <1>10, <1>11, <1>12, <1>13,
     NextCases

(* A session that is opened brings its application to the front. *)
LEMMA FrontKept == WdaInv /\ [Next]_vars => FrontInv'
<1> SUFFICES ASSUME WdaTypeOK, StepInv, FrontInv, [Next]_vars
             PROVE  FrontInv'
  BY DEF WdaInv
<1>1. ASSUME NEW kind \in {"launch", "tap", "type", "swipe"}, NEW app \in Apps,
             NEW name \in Names \cup {"none"}, NEW start \in 0..Scale,
             StartStep(kind, app, name, start)
      PROVE  FrontInv'
  BY <1>1 DEF StartStep, FrontInv, TouchesOwnApp
<1>2. CASE KeepClient
  BY <1>2 DEF KeepClient, FrontInv, TouchesOwnApp
<1>3. CASE OpenClient
  BY <1>3 DEF OpenClient, WdaTypeOK, StepInv, FrontInv, TouchesOwnApp
<1>4. CASE ReadSource
  BY <1>4 DEF ReadSource, FrontInv, TouchesOwnApp
<1>5. CASE LookUp
  BY <1>5 DEF LookUp, FrontInv, TouchesOwnApp
<1>6. CASE CheckDisplayed
  BY <1>6 DEF CheckDisplayed, FrontInv, TouchesOwnApp
<1>7. CASE Click
  BY <1>7 DEF Click, Touched, StepInv, FrontInv, TouchesOwnApp, Before, OnScreen, Client,
              Served
<1>8. CASE TypeKeys
  BY <1>8 DEF TypeKeys, FrontInv, TouchesOwnApp
<1>9. CASE Swipe
  BY <1>9 DEF Swipe, Touched, StepInv, FrontInv, TouchesOwnApp, Before, OnScreen, Client,
              Served
<1>10. CASE RequestFails
  BY <1>10 DEF RequestFails, FrontInv, TouchesOwnApp
<1>11. CASE ScreenChanges
  BY <1>11 DEF ScreenChanges, FrontInv, TouchesOwnApp
<1>12. CASE AppSwitches
  BY <1>12 DEF AppSwitches, FrontInv, TouchesOwnApp
<1>13. CASE UNCHANGED vars
  BY <1>13 DEF vars, FrontInv, TouchesOwnApp
<1> QED
  BY <1>1, <1>2, <1>3, <1>4, <1>5, <1>6, <1>7, <1>8, <1>9, <1>10, <1>11, <1>12, <1>13,
     NextCases

(* What was selected stays exact while the screen is steady. *)
LEMMA ExactKept == WdaInv /\ [Next]_vars => ExactInv'
<1> SUFFICES ASSUME WdaTypeOK, StepInv, ExactInv, [Next]_vars
             PROVE  ExactInv'
  BY DEF WdaInv
<1>1. ASSUME NEW kind \in {"launch", "tap", "type", "swipe"}, NEW app \in Apps,
             NEW name \in Names \cup {"none"}, NEW start \in 0..Scale,
             StartStep(kind, app, name, start)
      PROVE  ExactInv'
  BY <1>1 DEF StartStep, ExactInv, TouchIsExact, ClearOfTheEdge, Goto
<1>2. CASE KeepClient
  BY <1>2 DEF KeepClient, ExactInv, TouchIsExact, ClearOfTheEdge, Goto, AfterClient
<1>3. CASE OpenClient
  BY <1>3 DEF OpenClient, ExactInv, TouchIsExact, ClearOfTheEdge, Goto, AfterClient
<1>4. CASE ReadSource
  <2>1. touch' = {}
    BY <1>4 DEF ReadSource, StepInv, Before
  <2>2. step' = "failed" \/ \E e \in Selected(job.name) : found' = {e} /\ spot' = screen[e].rect
    BY <1>4 DEF ReadSource, Goto
  <2>3. UNCHANGED <<front, screen, job>>
    BY <1>4 DEF ReadSource
  <2>4. \A e \in Selected(job.name) :
          Cardinality(Matching(job.name)) = 1 /\ e \in OnScreen /\ Displayed(e)
    BY DEF Selected, Matching
  <2>5. Matching(job.name)' = Matching(job.name) /\ OnScreen' = OnScreen
    BY <2>3 DEF Matching, OnScreen
  <2>6. \A e \in Elements : Displayed(e)' <=> Displayed(e)
    BY <2>3 DEF Displayed
  <2>7. TouchIsExact'
    BY <2>1 DEF TouchIsExact
  <2>8. CASE step' = "failed"
    BY <2>7, <2>8 DEF ExactInv
  <2>9. ASSUME NEW e \in Selected(job.name), found' = {e}, spot' = screen[e].rect
        PROVE  ExactInv'
    <3>1. e \in OnScreen' /\ Displayed(e)' /\ spot' = screen'[e].rect
      BY <2>3, <2>4, <2>5, <2>6, <2>9 DEF OnScreen
    <3>2. Cardinality(Matching(job.name))' = 1
      BY <2>3, <2>4, <2>5
    <3> QED
      BY <2>7, <2>9, <3>1, <3>2 DEF ExactInv
  <2> QED
    BY <2>2, <2>8, <2>9
<1>5. CASE LookUp
  BY <1>5 DEF LookUp, StepInv, ExactInv, TouchIsExact, ClearOfTheEdge, Before, OnScreen,
              Matching, Goto
<1>6. CASE CheckDisplayed
  BY <1>6 DEF CheckDisplayed, ExactInv, TouchIsExact, ClearOfTheEdge, OnScreen, Matching, Goto
<1>7. CASE Click
  BY <1>7 DEF Click, Touched, WdaTypeOK, ExactInv, TouchIsExact, ClearOfTheEdge, Goto
<1>8. CASE TypeKeys
  BY <1>8 DEF TypeKeys, ExactInv, TouchIsExact, ClearOfTheEdge, Goto
<1>9. CASE Swipe
  <2> DEFINE x == SlideX(spot, job.start)
             y == SlideY(spot)
             hit == {e \in OnScreen : Displayed(e) /\ Covers(screen[e].rect, x, y)}
  <2>1. touch' = {[hit |-> hit, kind |-> job.kind, inside |-> Covers(Frame, x, y),
                   steady |-> steady, alone |-> Cardinality(Matching(job.name)) = 1]}
    BY <1>9 DEF Swipe, Touched
  <2>2. UNCHANGED <<job, found, spot, steady>> /\ step' \in {"idle", "failed"} /\ job.kind = "swipe"
    BY <1>9 DEF Swipe, Goto, StepInv
  <2>3. ASSUME steady, ClearOfTheEdge, Within(spot, Frame)
        PROVE  found \subseteq hit /\ Cardinality(Matching(job.name)) = 1 /\ Covers(Frame, x, y)
    <3>1. PICK e \in found : Displayed(e) /\ spot = screen[e].rect
      BY <1>9, <2>3 DEF Swipe, ExactInv
    <3>2. spot \in Rectangles /\ spot.w >= 2 /\ spot.h > 0 /\ job.start \in 0..Scale
      BY <1>9, <2>3, <3>1 DEF Swipe, WdaTypeOK, Displayed, Intersects
    <3>3. Covers(spot, x, y) /\ x \in Int
      <4>1. spot.x \in Int /\ spot.y \in Int /\ spot.w \in Int /\ spot.h \in Int
        BY <3>2 DEF Rectangles
      <4>2. Round(spot.w * job.start, Scale) \in 0..(spot.w - 1)
        BY <2>3, <3>2, <4>1, WdaAssumption, RoundBelow DEF ClearOfTheEdge
      <4>3. spot.x <= x /\ x < spot.x + spot.w /\ x \in Int
        BY <4>1, <4>2 DEF SlideX
      <4>4. spot.y <= y /\ y < spot.y + spot.h
        BY <3>2, <4>1 DEF SlideY
      <4> QED
        BY <4>3, <4>4 DEF Covers
    <3>4. \A d \in found : d \in OnScreen /\ Displayed(d) /\ spot = screen[d].rect
      BY <1>9, <2>3 DEF Swipe, ExactInv
    <3>5. Covers(Frame, x, y)
      <4>1. x \in Int /\ y \in Int
        BY <3>2, <3>3 DEF SlideY, Rectangles
      <4>2. Frame \in Rectangles
        BY WdaAssumption
      <4> HIDE DEF x, y
      <4> QED
        BY <2>3, <3>2, <3>3, <4>1, <4>2 DEF Covers, Within, Rectangles
    <3>6. Cardinality(Matching(job.name)) = 1
      BY <1>9, <2>3 DEF Swipe, ExactInv
    <3> HIDE DEF x, y
    <3> QED
      BY <3>3, <3>4, <3>5, <3>6
  <2>4. TouchIsExact'
    <3> SUFFICES ASSUME NEW t \in touch', t.steady, ClearOfTheEdge, Within(spot, Frame)
                 PROVE  found \subseteq t.hit /\ t.alone /\ t.inside
      <4>1. \A t \in touch' : t.kind = "swipe"
        BY <2>1, <2>2
      <4> QED
        BY <2>2, <4>1 DEF TouchIsExact, ClearOfTheEdge
    <3> DEFINE inside == Covers(Frame, x, y)
               alone == Cardinality(Matching(job.name)) = 1
    <3> HIDE DEF hit, inside, alone
    <3>1. t = [hit |-> hit, kind |-> job.kind, inside |-> inside, steady |-> steady,
               alone |-> alone]
      BY <2>1 DEF inside, alone
    <3>2. t.hit = hit /\ t.steady = steady /\ t.inside = inside /\ t.alone = alone
      BY <3>1
    <3>3. found \subseteq hit /\ alone /\ inside
      BY <2>3, <3>2 DEF inside, alone
    <3> QED
      BY <3>2, <3>3
  <2> QED
    BY <2>2, <2>4 DEF ExactInv
<1>10. CASE RequestFails
  BY <1>10 DEF RequestFails, ExactInv, TouchIsExact, ClearOfTheEdge, Goto
<1>11. CASE ScreenChanges
  BY <1>11 DEF ScreenChanges, ExactInv, TouchIsExact, ClearOfTheEdge
<1>12. CASE AppSwitches
  BY <1>12 DEF AppSwitches, ExactInv, TouchIsExact, ClearOfTheEdge
<1>13. CASE UNCHANGED vars
  BY <1>13 DEF vars, ExactInv, TouchIsExact, ClearOfTheEdge, OnScreen, Matching, Displayed
<1> QED
  BY <1>1, <1>2, <1>3, <1>4, <1>5, <1>6, <1>7, <1>8, <1>9, <1>10, <1>11, <1>12, <1>13,
     NextCases

(* The click that precedes the text gives the focus. *)
LEMMA TextKept == WdaInv /\ [Next]_vars => TextInv'
<1> SUFFICES ASSUME WdaTypeOK, StepInv, TextInv, [Next]_vars
             PROVE  TextInv'
  BY DEF WdaInv
<1>1. ASSUME NEW kind \in {"launch", "tap", "type", "swipe"}, NEW app \in Apps,
             NEW name \in Names \cup {"none"}, NEW start \in 0..Scale,
             StartStep(kind, app, name, start)
      PROVE  TextInv'
  BY <1>1 DEF StartStep, WdaTypeOK, StepInv, TextInv, TextFollowsTap, Before, Goto,
              Client, AfterClient, Served
<1>2. CASE KeepClient
  BY <1>2 DEF KeepClient, WdaTypeOK, StepInv, TextInv, TextFollowsTap, Before, Goto,
              Client, AfterClient, Served
<1>3. CASE OpenClient
  BY <1>3 DEF OpenClient, WdaTypeOK, StepInv, TextInv, TextFollowsTap, Before, Goto,
              Client, AfterClient, Served
<1>4. CASE ReadSource
  BY <1>4 DEF ReadSource, WdaTypeOK, StepInv, TextInv, TextFollowsTap, Before, Goto,
              Client, AfterClient, Served
<1>5. CASE LookUp
  BY <1>5 DEF LookUp, WdaTypeOK, StepInv, TextInv, TextFollowsTap, Before, Goto, Client,
              AfterClient, Served
<1>6. CASE CheckDisplayed
  BY <1>6 DEF CheckDisplayed, WdaTypeOK, StepInv, TextInv, TextFollowsTap, Before, Goto,
              Client, AfterClient, Served
<1>7. CASE Click
  BY <1>7 DEF Click, Touched, WdaTypeOK, StepInv, TextInv, TextFollowsTap, Before, Goto,
              Client, AfterClient, Served
<1>8. CASE TypeKeys
  BY <1>8 DEF TypeKeys, WdaTypeOK, StepInv, TextInv, TextFollowsTap, Before, Goto, Client,
              AfterClient, Served
<1>9. CASE Swipe
  BY <1>9 DEF Swipe, Touched, WdaTypeOK, StepInv, TextInv, TextFollowsTap, Before, Goto,
              Client, AfterClient, Served
<1>10. CASE RequestFails
  BY <1>10 DEF RequestFails, WdaTypeOK, StepInv, TextInv, TextFollowsTap, Before, Goto,
               Client, AfterClient, Served
<1>11. CASE ScreenChanges
  BY <1>11 DEF ScreenChanges, WdaTypeOK, StepInv, TextInv, TextFollowsTap, Before, Goto,
               Client, AfterClient, Served
<1>12. CASE AppSwitches
  BY <1>12 DEF AppSwitches, WdaTypeOK, StepInv, TextInv, TextFollowsTap, Before, Goto,
               Client, AfterClient, Served
<1>13. CASE UNCHANGED vars
  BY <1>13 DEF vars, WdaTypeOK, StepInv, TextInv, TextFollowsTap, Before, Goto, Client,
               AfterClient, Served
<1> QED
  BY <1>1, <1>2, <1>3, <1>4, <1>5, <1>6, <1>7, <1>8, <1>9, <1>10, <1>11, <1>12, <1>13,
     NextCases

LEMMA WdaInvariant == Spec => []WdaInv
<1>1. WdaInv /\ [Next]_vars => WdaInv'
  BY WdaTypeStep, StepKept, FrontKept, ExactKept, TextKept DEF WdaInv
<1> QED
  BY <1>1, WdaInitInv, PTL DEF Spec

-----------------------------------------------------------------------------
(* ios/wda.py:101-116, 256-269, 315-327: on a steady screen a tap and a slide
   touch the one element of the name, and a slide begins on it unless its start is
   rounded to the far edge. *)
THEOREM TouchesAreExact == Spec => []TouchIsExact
<1>1. WdaInv => TouchIsExact
  BY DEF WdaInv, ExactInv
<1> QED
  BY <1>1, WdaInvariant, PTL

(* executor.py:161-164: text goes to the element that was tapped for it. *)
THEOREM TextFollowsItsTap == Spec => []TextFollowsTap
<1>1. WdaInv => TextFollowsTap
  BY DEF WdaInv, TextInv
<1> QED
  BY <1>1, WdaInvariant, PTL

(* executor.py:244-258: a step touches its own application only. *)
THEOREM TouchesStayInApp == Spec => []TouchesOwnApp
<1>1. WdaInv => TouchesOwnApp
  BY DEF WdaInv, FrontInv
<1> QED
  BY <1>1, WdaInvariant, PTL
=============================================================================
