------------------------------ MODULE Reporting ------------------------------
(***************************************************************************)
(* diff_decoded_json and the two renderings of an event (reporting.py)     *)
(* under a RedactionPolicy (redaction.py).  They are functions of their    *)
(* inputs: each command is one step from every input.                      *)
(*                                                                         *)
(* A JSON value is a node with a type; a scalar has a text, a list items,  *)
(* an object fields.  A difference has the path of a node and the value    *)
(* before and after, as sets of at most one node.  A path is the sequence  *)
(* of keys and indices that leads to the node (the keys are free of dots   *)
(* and brackets, so a rendered path names one node).  The code hands the   *)
(* path of a node down to its parts; here the differences of a part are    *)
(* put Under its key or index.                                             *)
(***************************************************************************)
EXTENDS Integers, Sequences

CONSTANTS
  Fields,      \* keys of JSON objects
  Values,      \* JSON values, with all their parts
  Size         \* a measure of them, by which a part is smaller

VARIABLES
  comparison,  \* the values diff was given and what it found
  report,      \* the event and policy report was given and what it wrote
  phase        \* "given", "diffed" or "reported"

reportVars == <<comparison, report, phase>>

-----------------------------------------------------------------------------
(* JSON values. *)

Node(type, text, items, fields) ==
  [type |-> type, text |-> text, items |-> items, fields |-> fields]
NoFields == [k \in {} |-> 0]

(* JSON values are finite trees. *)
ASSUME JsonAssumption ==
  /\ Size \in [Values -> Nat]
  /\ \A v \in Values :
       /\ v = Node(v.type, v.text, v.items, v.fields)
       /\ v.type \in {"list", "dict"} => v.text = ""
       /\ v.type = "list" \/ v.items = << >>
       /\ v.type = "dict" \/ v.fields = NoFields
       /\ v.items \in Seq(Values)
       /\ DOMAIN v.fields \subseteq Fields
       /\ v.fields \in [DOMAIN v.fields -> Values]
       /\ \A i \in 1..Len(v.items) : Size[v.items[i]] < Size[v]
       /\ \A k \in DOMAIN v.fields : Size[v.fields[k]] < Size[v]

-----------------------------------------------------------------------------
(* _diff_json, _diff_mappings and _diff_lists; diff is _diff_json, which   *)
(* they call on the parts.                                                 *)

Difference(b, a) == [path |-> << >>, before |-> b, after |-> a]
IndexError == Difference({}, {})

(* The differences D of the part at a key or an index. *)
Under(step, D) == {[d EXCEPT !.path = <<step>> \o @] : d \in D}

DiffField(b, a, k, diff) ==
  IF k \notin DOMAIN b.fields THEN {Difference({}, {a.fields[k]})}
  ELSE IF k \notin DOMAIN a.fields THEN {Difference({b.fields[k]}, {})}
  ELSE diff[b.fields[k]][a.fields[k]]

(* Wrong: a key that is only in the first object is not visited. *)
DiffAfterKeys(b, a, diff) == UNION {Under(k, DiffField(b, a, k, diff)) : k \in DOMAIN a.fields}

DiffMappings(b, a, diff) ==
  UNION {Under(k, DiffField(b, a, k, diff)) : k \in DOMAIN b.fields \cup DOMAIN a.fields}

(* The index is tested for equality with each length, not for exceeding it. *)
DiffItem(b, a, i, diff) ==
  IF i = Len(b.items) THEN {Difference({}, {a.items[i + 1]})}
  ELSE IF i = Len(a.items) THEN {Difference({b.items[i + 1]}, {})}
  ELSE IF i > Len(b.items) \/ i > Len(a.items) THEN {IndexError}
  ELSE diff[b.items[i + 1]][a.items[i + 1]]

DiffLists(b, a, diff) ==
  UNION {Under(i, DiffItem(b, a, i, diff)) : i \in 0..(Len(b.items) - 1) \cup 0..(Len(a.items) - 1)}

DiffNodes(b, a, diff) ==
  IF b.type # a.type THEN {Difference({b}, {a})}
  ELSE IF b.type = "dict" THEN DiffMappings(b, a, diff)
  ELSE IF b.type = "list" THEN DiffLists(b, a, diff)
  ELSE IF b # a THEN {Difference({b}, {a})}
  ELSE {}

DiffJson[b \in Values] == [a \in Values |-> DiffNodes(b, a, DiffJson)]

Raises(D) == \E d \in D : d.before = {} /\ d.after = {}

-----------------------------------------------------------------------------
(* render_payload, _report_identifier, report_event and render_events_text. *)

Policies == [raw : BOOLEAN, identifiers : BOOLEAN,
             predicate : {"unset", "discloses", "withholds", "blank"}]
Events == [peer : {"peer", "unattributed"}, payload : {"bytes"}]

(* Wrong: the opt-in to raw payloads is looked at before the predicate. *)
RenderRawFirst(payload, pol) ==
  IF pol.raw THEN payload
  ELSE IF pol.predicate = "withholds" THEN "reason withheld" ELSE "raw payload withheld"

RenderPayload(payload, pol) ==
  IF pol.predicate = "withholds" THEN "reason withheld"
  ELSE IF pol.raw THEN payload ELSE "raw payload withheld"

ReportIdentifier(peer, pol) ==
  IF peer = "unattributed" \/ pol.identifiers
  THEN [address |-> peer, redacted |-> FALSE]
  ELSE [address |-> "unattributed", redacted |-> TRUE]

EventRecord(ev, pol) ==
  [peer |-> ReportIdentifier(ev.peer, pol), payload |-> RenderPayload(ev.payload, pol)]

EventText(ev, pol) ==
  LET id == ReportIdentifier(ev.peer, pol)
  IN [peer |-> IF id.redacted THEN "withheld" ELSE id.address,
      payload |-> RenderPayload(ev.payload, pol)]

-----------------------------------------------------------------------------
ReportInit ==
  /\ phase = "given"
  /\ comparison = [before |-> {}, after |-> {}, found |-> {}]
  /\ report = [event |-> {}, policy |-> {}, written |-> {}]

DiffCommand(b, a) ==
  /\ phase = "given"
  /\ comparison' = [before |-> {b}, after |-> {a}, found |-> DiffJson[b][a]]
  /\ phase' = "diffed"
  /\ UNCHANGED report

(* A blank reason of the predicate is refused. *)
ReportCommand(ev, pol) ==
  /\ phase = "given" /\ pol.predicate # "blank"
  /\ report' = [event |-> {ev}, policy |-> {pol},
                written |-> {[record |-> EventRecord(ev, pol), text |-> EventText(ev, pol)]}]
  /\ phase' = "reported"
  /\ UNCHANGED comparison

ReportNext ==
  \/ \E b, a \in Values : DiffCommand(b, a)
  \/ \E ev \in Events, pol \in Policies : ReportCommand(ev, pol)

ReportSpec == ReportInit /\ [][ReportNext]_reportVars

-----------------------------------------------------------------------------
(* Reference for diff: the first value with the differences applied to it. *)

Differences == [path : Seq(Fields \cup Nat), before : SUBSET Values, after : SUBSET Values]

Whole(D) == {d \in D : d.path = << >>}
Below(step, D) ==
  {[d EXCEPT !.path = Tail(@)] : d \in {x \in D : x.path # << >> /\ Head(x.path) = step}}
Gone(step, D) == \E d \in Whole(Below(step, D)) : d.after = {}
New(step, D) == \E d \in Whole(Below(step, D)) : d.before = {}
Replacement(D) == CHOOSE v \in (CHOOSE d \in Whole(D) : TRUE).after : TRUE

PatchedFields(b, D, patched) ==
  [k \in {j \in DOMAIN b.fields : ~Gone(j, D)} \cup {j \in Fields : New(j, D)} |->
     IF k \in DOMAIN b.fields THEN patched[b.fields[k]][Below(k, D)]
     ELSE Replacement(Below(k, D))]

PatchedLength(b, D) ==
  IF New(Len(b.items), D) THEN Len(b.items) + 1
  ELSE IF b.items # << >> /\ Gone(Len(b.items) - 1, D) THEN Len(b.items) - 1
  ELSE Len(b.items)

PatchedItems(b, D, patched) ==
  [i \in 1..PatchedLength(b, D) |->
     IF i <= Len(b.items) THEN patched[b.items[i]][Below(i - 1, D)]
     ELSE Replacement(Below(i - 1, D))]

PatchedNode(b, D, patched) ==
  IF Whole(D) # {} THEN Replacement(D)
  ELSE IF b.type = "dict" THEN [b EXCEPT !.fields = PatchedFields(b, D, patched)]
  ELSE IF b.type = "list" THEN [b EXCEPT !.items = PatchedItems(b, D, patched)]
  ELSE b

Patched[b \in Values] == [D \in SUBSET Differences |-> PatchedNode(b, D, Patched)]

(* Unless it raised IndexError, what diff_decoded_json found is the whole
   difference and nothing else: applied to the first value it gives the second,
   and no difference has the same value before and after. *)
DifferencesReplay ==
  \A b \in comparison.before, a \in comparison.after :
    \/ Raises(comparison.found)
    \/ /\ Patched[b][comparison.found] = a
       /\ \A d \in comparison.found : d.before # d.after

(* diff_decoded_json returns the differences of any two JSON values. *)
DiffReturns == ~Raises(comparison.found)

(* The JSON report and the text report disclose the same things, and only what
   the policy lets them: a payload the predicate withholds stays withheld even
   when raw payloads are asked for, and an address needs its own opt-in. *)
ReportsAgree ==
  \A w \in report.written, ev \in report.event, pol \in report.policy :
    /\ w.record.payload = w.text.payload
    /\ w.record.peer.redacted = (w.text.peer = "withheld")
    /\ w.record.peer.redacted \/ w.text.peer = w.record.peer.address
    /\ w.text.payload = ev.payload => pol.raw /\ pol.predicate # "withholds"
    /\ ev.peer \in {w.record.peer.address, w.text.peer} =>
         pol.identifiers \/ ev.peer = "unattributed"
=============================================================================
