----------------------------- MODULE MCWdaClient -----------------------------
(* An instance of WdaClient: two applications and three buttons of one name. *)
EXTENDS WdaClient

Owner == [e \in Elements |-> IF e = "b1" THEN "B" ELSE "A"]
Label == [e \in Elements |-> "go"]
Window == [x |-> 0, y |-> 0, w |-> 4, h |-> 2]

Look(x, visible, enabled, present) ==
  [rect |-> [x |-> x, y |-> 0, w |-> 2, h |-> 2], visible |-> visible, enabled |-> enabled,
   present |-> present]

(* gone; left; right; beyond the edge; across the edge; hidden; disabled *)
Appearances ==
  {Look(0, FALSE, FALSE, FALSE), Look(0, TRUE, TRUE, TRUE), Look(2, TRUE, TRUE, TRUE),
   Look(4, TRUE, TRUE, TRUE), Look(3, TRUE, TRUE, TRUE), Look(0, FALSE, TRUE, TRUE),
   Look(0, TRUE, FALSE, TRUE)}
=============================================================================
