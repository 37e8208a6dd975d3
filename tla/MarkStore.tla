------------------------------ MODULE MarkStore ------------------------------
(***************************************************************************)
(* The mark and segment commands on one run directory: the private files   *)
(* of storage.py under marks.jsonl and segments.json, and the timeline     *)
(* operators of segmentation.py.                                           *)
(*                                                                         *)
(* A command reads what it needs, then rewrites its file in three system   *)
(* calls: open with O_TRUNC, fchmod, write.  Commands of several processes *)
(* interleave at each of them, and a command may end at each of them, by   *)
(* an OSError or because its process is killed.                            *)
(*                                                                         *)
(* A line of marks.jsonl is the time of its mark (lines have one length);  *)
(* segments.json is the text of a list of segments, cut into pieces, of    *)
(* which a longer list has more.  Events are named by their place in       *)
(* events.jsonl.                                                           *)
(***************************************************************************)
EXTENDS Integers, Sequences, FiniteSets

CONSTANTS
  Process,       \* processes that run commands, one after the other
  MaxTime,       \* bound: instants, 1..MaxTime
  MaxEvents,     \* bound: events of the run
  MaxCommands,   \* bound: commands run
  MaxAbandoned   \* bound: commands that end before they are done

ASSUME StoreAssumption ==
  /\ MaxTime \in Nat \ {0} /\ MaxEvents \in Nat
  /\ MaxCommands \in Nat /\ MaxAbandoned \in Nat

Time == 1..MaxTime
NoEnd == 0                       \* --final-end not given
Files == {"marks", "segments"}

VARIABLES
  content,    \* the lines of marks.jsonl, the pieces of segments.json
  mode,       \* "absent", "shared" (readable by others) or "private"
  earlier,    \* contents the files had before the tool wrote them
  events,     \* times of the events in events.jsonl, in file order
  step,       \* what each process does next
  job,        \* its command, what it will write, the marks acknowledged when it read
  commands,   \* commands begun
  abandoned,  \* commands that ended before they were done
  acked,      \* marks whose command succeeded
  disturbed,  \* a mark command was cut off mid-write, or overlapped a reader
  torn,       \* segments.json was truncated while another command was writing it
  known       \* marks acknowledged when segments.json was computed

storeVars == <<content, mode, earlier, events, step, job, commands, abandoned,
               acked, disturbed, torn, known>>

Idle == [kind |-> "none", file |-> "marks", at |-> 0, lines |-> << >>, known |-> {}]
Elements(s) == {s[i] : i \in DOMAIN s}

-----------------------------------------------------------------------------
(* segmentation.py *)

StrictlyOrdered(marks) == \A i \in 1..(Len(marks) - 1) : marks[i] < marks[i + 1]
Ordered(times) == \A i \in 1..(Len(times) - 1) : times[i] <= times[i + 1]

Refused(marks, end) ==
  \/ ~Ordered(events) \/ ~StrictlyOrdered(marks)
  \/ marks # << >> /\ end # NoEnd /\ end < marks[Len(marks)]

(* Wrong: the window of a mark includes the instant of the next one. *)
WindowClosed(start, end) ==
  [start |-> start, end |-> end,
   events |-> {e \in DOMAIN events : events[e] >= start /\ (end = NoEnd \/ events[e] <= end)}]

Window(start, end) ==
  [start |-> start, end |-> end,
   events |-> {e \in DOMAIN events : events[e] >= start /\ (end = NoEnd \/ events[e] < end)}]

Segments(marks, end) ==
  IF marks = << >>
  THEN IF events = << >> THEN << >> ELSE << Window(events[1], NoEnd) >>
  ELSE [i \in DOMAIN marks |-> Window(marks[i], IF i < Len(marks) THEN marks[i + 1] ELSE end)]

(* The JSON text of a list of segments: each of them, each of its events and
   an end that is not null make it longer. *)
TextLength(s) ==
  1 + Len(s) + Cardinality({i \in DOMAIN s : s[i].end # NoEnd})
    + Cardinality({x \in (DOMAIN s) \X (DOMAIN events) : x[2] \in s[x[1]].events})

Text(s) == [i \in 1..TextLength(s) |-> [of |-> s, at |-> i]]

-----------------------------------------------------------------------------
StoreInit ==
  /\ mode \in [Files -> {"absent", "shared", "private"}]
  /\ content = [f \in Files |-> IF f = "marks" /\ mode[f] # "absent" THEN <<1>> ELSE << >>]
  /\ earlier = content
  /\ events \in UNION {[1..n -> Time] : n \in 0..MaxEvents}
  /\ step = [p \in Process |-> "idle"]
  /\ job = [p \in Process |-> Idle]
  /\ commands = 0 /\ abandoned = 0
  /\ acked = {} /\ disturbed = FALSE /\ torn = FALSE /\ known = {}

(* A mark command between its read and the end of its write. *)
Updating(p) == job[p].kind = "mark" /\ step[p] \in {"truncate", "protect", "write"}

(* A segment command between the truncation and the end of its write. *)
Rewriting(p) == job[p].kind = "segment" /\ step[p] \in {"protect", "write"}

(* The command p ends, whatever came of it. *)
End(p) ==
  /\ step' = [step EXCEPT ![p] = "idle"]
  /\ job' = [job EXCEPT ![p] = Idle]

(* mark --timestamp at, or segment --final-end at *)
Command(p, kind, at) ==
  /\ step[p] = "idle" /\ commands < MaxCommands
  /\ commands' = commands + 1
  /\ step' = [step EXCEPT ![p] = "read"]
  /\ job' = [job EXCEPT ![p] = [Idle EXCEPT !.kind = kind, !.at = at,
                                  !.file = IF kind = "mark" THEN "marks" ELSE "segments"]]
  /\ UNCHANGED <<content, mode, earlier, events, abandoned, acked, disturbed, torn, known>>

StartMark(p, at) == at \in Time /\ Command(p, "mark", at)
StartSegment(p, end) == end \in Time \cup {NoEnd} /\ Command(p, "segment", end)

(* The marks a command reads; none while the file is truncated. *)
ReadMarks(p) ==
  /\ step[p] = "read"
  /\ disturbed' = (disturbed \/ \E q \in Process : Updating(q))
  /\ UNCHANGED <<content, mode, earlier, events, commands, abandoned, acked, torn, known>>

Prepare(p, lines) ==
  /\ step' = [step EXCEPT ![p] = "truncate"]
  /\ job' = [job EXCEPT ![p].lines = lines, ![p].known = acked]

(* Wrong: the file is opened before the order of the marks is checked. *)
ExtendOpenedMarks(p) ==
  LET marks == Append(content["marks"], job[p].at) IN
  /\ job[p].kind = "mark" /\ step[p] = "read"
  /\ IF StrictlyOrdered(marks)
     THEN Prepare(p, marks) /\ UNCHANGED content
     ELSE End(p) /\ content' = [content EXCEPT !["marks"] = << >>]
  /\ disturbed' = (disturbed \/ \E q \in Process : Updating(q))
  /\ UNCHANGED <<mode, earlier, events, commands, abandoned, acked, torn, known>>

ExtendMarks(p) ==
  /\ job[p].kind = "mark" /\ ReadMarks(p)
  /\ LET marks == Append(content["marks"], job[p].at)
     IN IF StrictlyOrdered(marks) THEN Prepare(p, marks) ELSE End(p)

ComputeSegments(p) ==
  /\ job[p].kind = "segment" /\ ReadMarks(p)
  /\ IF mode["marks"] = "absent" \/ Refused(content["marks"], job[p].at)
     THEN End(p)
     ELSE Prepare(p, Text(Segments(content["marks"], job[p].at)))

Truncate(p) ==
  LET f == job[p].file IN
  /\ step[p] = "truncate"
  /\ content' = [content EXCEPT ![f] = << >>]
  /\ mode' = [mode EXCEPT ![f] = IF mode[f] = "absent" THEN "private" ELSE mode[f]]
  /\ torn' = IF f = "segments" THEN \E q \in Process \ {p} : Rewriting(q) ELSE torn
  /\ step' = [step EXCEPT ![p] = "protect"]
  /\ UNCHANGED <<earlier, events, job, commands, abandoned, acked, disturbed, known>>

(* Wrong: the mode is left to the final check. *)
ProtectNewOnly(p) ==
  /\ step[p] = "protect"
  /\ step' = [step EXCEPT ![p] = "write"]
  /\ UNCHANGED <<content, mode, earlier, events, job, commands, abandoned, acked, disturbed, torn, known>>

Protect(p) ==
  /\ step[p] = "protect"
  /\ mode' = [mode EXCEPT ![job[p].file] = "private"]
  /\ step' = [step EXCEPT ![p] = "write"]
  /\ UNCHANGED <<content, earlier, events, job, commands, abandoned, acked, disturbed, torn, known>>

(* Written over the start of the file: what another process wrote beyond it
   stays, and a text that is shorter than it leaves no JSON value behind. *)
Write(p) ==
  LET f == job[p].file
      new == job[p].lines
  IN
  /\ step[p] = "write"
  /\ content' = [content EXCEPT ![f] = new \o SubSeq(@, Len(new) + 1, Len(@))]
  /\ known' = IF f = "segments" /\ ~disturbed THEN job[p].known
              ELSE IF f = "segments" THEN {} ELSE known
  /\ step' = [step EXCEPT ![p] = "confirm"]
  /\ UNCHANGED <<mode, earlier, events, job, commands, abandoned, acked, disturbed, torn>>

Confirm(p) ==
  /\ step[p] = "confirm"
  /\ acked' = IF job[p].kind = "mark" /\ mode["marks"] = "private"
              THEN acked \cup {job[p].at} ELSE acked
  /\ End(p)
  /\ UNCHANGED <<content, mode, earlier, events, commands, abandoned, disturbed, torn, known>>

(* An OSError, or the end of the process: the file stays as it is. *)
Abandon(p) ==
  /\ step[p] # "idle" /\ abandoned < MaxAbandoned
  /\ abandoned' = abandoned + 1
  /\ disturbed' = (disturbed \/ (job[p].kind = "mark" /\ step[p] \in {"protect", "write"}))
  /\ End(p)
  /\ UNCHANGED <<content, mode, earlier, events, commands, acked, torn, known>>

StoreNext ==
  \E p \in Process :
    \/ \E t \in Time : StartMark(p, t)
    \/ \E t \in Time \cup {NoEnd} : StartSegment(p, t)
    \/ ExtendMarks(p) \/ ComputeSegments(p)
    \/ Truncate(p) \/ Protect(p) \/ Write(p) \/ Confirm(p)
    \/ Abandon(p)

StoreSpec == StoreInit /\ [][StoreNext]_storeVars

-----------------------------------------------------------------------------
(* What a file of the run holds beyond what it held before the tool wrote it
   is never readable by others: the descriptor is made private between the
   truncation and the first byte, and no command that ends in between leaves
   new content under the old mode. *)
ContentIsPrivate ==
  \A f \in Files : mode[f] # "private" => content[f] \in {<< >>, earlier[f]}

(* Unless a mark command overlapped another command's read or was cut off
   between truncation and write, every acknowledged mark and every mark
   recorded before is in the file: a refused mark, a failure to open the file
   and a later command lose none. *)
MarksKept ==
  (~disturbed /\ \A p \in Process : ~Updating(p)) =>
    acked \cup Elements(earlier["marks"]) \subseteq Elements(content["marks"])

(* Each event from the first segment to the final end is in the one segment
   that starts last at or before it. *)
Partition(s) ==
  \A e \in DOMAIN events :
     {i \in DOMAIN s : e \in s[i].events} =
     {i \in DOMAIN s :
        /\ s[i].start <= events[e]
        /\ \A j \in DOMAIN s : s[j].start <= events[e] => s[j].start <= s[i].start
        /\ s[Len(s)].end # NoEnd => events[e] < s[Len(s)].end}

Starts(s) == {s[i].start : i \in DOMAIN s}

(* Whatever is in segments.json comes from a list that holds each event from the
   first mark to the final end in the one segment of the last mark at or before
   it.  Unless the commands that wrote it overlapped, the file is empty or the
   whole text of one list, which starts at every mark that was acknowledged when
   it was computed. *)
SegmentsFollowMarks ==
  /\ \A piece \in Elements(content["segments"]) : Partition(piece.of)
  /\ ~torn /\ content["segments"] # << >> =>
       LET s == content["segments"][1].of
       IN content["segments"] = Text(s) /\ known \subseteq Starts(s)
=============================================================================
