---------------------------- MODULE MarkStoreProofs ----------------------------
(***************************************************************************)
(* Theorems about MarkStore, for any processes, events, marks and numbers  *)
(* of commands and of commands that are cut off.                           *)
(***************************************************************************)
EXTENDS MarkStore, FiniteSetTheorems, WellFoundedInduction, TLAPS

Segment == [start : Nat, end : Nat, events : SUBSET Nat]
Piece == [of : Seq(Segment), at : Nat]
Lines == Seq(Nat) \cup Seq(Piece)
Job == [kind : {"none", "mark", "segment"}, file : Files, at : Nat, lines : Lines,
        known : SUBSET Nat]
StoreSteps == {"idle", "read", "truncate", "protect", "write", "confirm"}

(* The lines a command will write are lines of its file. *)
JobInv ==
  \A p \in Process :
    /\ job[p].kind = "mark" => job[p].file = "marks" /\ job[p].lines \in Seq(Nat)
    /\ job[p].kind = "segment" =>
         job[p].file = "segments" /\ job[p].lines \in Seq(Piece)
    /\ step[p] # "idle" => job[p].kind \in {"mark", "segment"}

StoreTypeOK ==
  /\ content \in [Files -> Lines]
  /\ content["marks"] \in Seq(Nat) /\ content["segments"] \in Seq(Piece)
  /\ mode \in [Files -> {"absent", "shared", "private"}]
  /\ earlier \in [Files -> Lines] /\ earlier["marks"] \in Seq(Nat)
  /\ events \in Seq(Nat)
  /\ step \in [Process -> StoreSteps]
  /\ job \in [Process -> Job]
  /\ acked \subseteq Nat
  /\ disturbed \in BOOLEAN /\ torn \in BOOLEAN
  /\ JobInv

(* Between fchmod and the write the file stays private. *)
PrivateInv ==
  /\ ContentIsPrivate
  /\ \A p \in Process : step[p] = "write" => mode[job[p].file] = "private"

Confirming(p) == job[p].kind = "mark" /\ step[p] = "confirm"
Owed(m) ==
  m \in acked \cup Elements(earlier["marks"]) \/ \E p \in Process : Confirming(p) /\ job[p].at = m
Holds(lines) == \A m \in Nat : Owed(m) => m \in Elements(lines)

(* Until something disturbs it, at most one mark command is between its read and
   its write; what it will write, and the file while there is none, holds every
   mark that was or is about to be acknowledged. *)
KeptInv ==
  ~disturbed =>
    /\ (\A p \in Process : ~Updating(p)) => Holds(content["marks"])
    /\ \A p, q \in Process : Updating(p) /\ Updating(q) => p = q
    /\ \A p \in Process : Updating(p) =>
         /\ Holds(job[p].lines)
         /\ job[p].at \in Elements(job[p].lines)
         /\ step[p] = "truncate" => Holds(content["marks"])

Computed(p) == job[p].kind = "segment" /\ step[p] \in {"truncate", "protect", "write"}

(* The list of segments s was computed from every mark that was acknowledged
   when process p read the marks. *)
Follows(p, s) ==
  /\ s \in Seq(Segment) /\ job[p].lines = Text(s) /\ Partition(s)
  /\ ~disturbed => job[p].known \subseteq Starts(s)

(* What a command is about to write to segments.json is the text of such a list,
   so every piece that is there is part of one.  Until a command truncates the
   file under another one, whoever writes it finds it empty, and what is there
   was written at once. *)
SegmentsInv ==
  /\ \A piece \in Elements(content["segments"]) : Partition(piece.of)
  /\ \A p \in Process : Computed(p) => \E s : Follows(p, s)
  /\ ~torn =>
       /\ \A p \in Process : Rewriting(p) => content["segments"] = << >>
       /\ \A p, q \in Process : Rewriting(p) /\ Rewriting(q) => p = q
       /\ content["segments"] # << >> =>
            \E s \in Seq(Segment) : content["segments"] = Text(s) /\ known \subseteq Starts(s)

StoreInv == StoreTypeOK /\ PrivateInv /\ KeptInv /\ SegmentsInv

-----------------------------------------------------------------------------
(* A mark that is appended is an element, and so are those before it. *)
LEMMA ElementsOfAppend ==
  ASSUME NEW s \in Seq(Nat), NEW x \in Nat
  PROVE  /\ Append(s, x) \in Seq(Nat)
         /\ x \in Elements(Append(s, x))
         /\ Elements(s) \subseteq Elements(Append(s, x))
<1>1. Append(s, x) \in Seq(Nat) /\ Len(Append(s, x)) = Len(s) + 1
  OBVIOUS
<1>2. Append(s, x)[Len(s) + 1] = x /\ \A i \in 1..Len(s) : Append(s, x)[i] = s[i]
  OBVIOUS
<1>3. DOMAIN Append(s, x) = 1..(Len(s) + 1) /\ DOMAIN s = 1..Len(s) /\ Len(s) \in Nat
  BY <1>1
<1> QED
  BY <1>1, <1>2, <1>3 DEF Elements

(* What is written over the start of a file is in the file. *)
LEMMA ElementsOfOverlay ==
  ASSUME NEW S, NEW new \in Seq(S), NEW old \in Seq(S)
  PROVE  LET file == new \o SubSeq(old, Len(new) + 1, Len(old))
         IN  file \in Seq(S) /\ Elements(new) \subseteq Elements(file)
<1> DEFINE rest == SubSeq(old, Len(new) + 1, Len(old))
<1>1. rest \in Seq(S)
  OBVIOUS
<1> HIDE DEF rest
<1>2. new \o rest \in Seq(S) /\ Len(new \o rest) = Len(new) + Len(rest)
  BY <1>1
<1>3. \A i \in 1..Len(new) : (new \o rest)[i] = new[i]
  BY <1>1
<1>4. Len(new) \in Nat /\ Len(rest) \in Nat /\ DOMAIN new = 1..Len(new)
      /\ DOMAIN (new \o rest) = 1..Len(new \o rest)
  BY <1>1, <1>2
<1>5. Elements(new) \subseteq Elements(new \o rest)
  BY <1>2, <1>3, <1>4 DEF Elements
<1> QED
  BY <1>2, <1>5 DEF rest

(* What is read back of two sequences one after the other, and of the end of one. *)
LEMMA ElementsOfConcat ==
  ASSUME NEW S, NEW s \in Seq(S), NEW t \in Seq(S)
  PROVE  Elements(s \o t) \subseteq Elements(s) \cup Elements(t)
<1>1. /\ Len(s) \in Nat /\ Len(t) \in Nat /\ DOMAIN s = 1..Len(s) /\ DOMAIN t = 1..Len(t)
      /\ s \o t \in Seq(S) /\ Len(s \o t) = Len(s) + Len(t)
  OBVIOUS
<1>2. DOMAIN (s \o t) = 1..(Len(s) + Len(t))
  BY <1>1
<1>3. ASSUME NEW i \in 1..(Len(s) + Len(t))
      PROVE  (s \o t)[i] \in Elements(s) \cup Elements(t)
  <2>1. CASE i <= Len(s)
    <3>1. (s \o t)[i] = s[i] /\ i \in DOMAIN s
      BY <1>1, <2>1
    <3> QED
      BY <3>1 DEF Elements
  <2>2. CASE ~ (i <= Len(s))
    <3>1. (s \o t)[i] = t[i - Len(s)] /\ i - Len(s) \in DOMAIN t
      BY <1>1, <2>2
    <3> QED
      BY <3>1 DEF Elements
  <2> QED
    BY <2>1, <2>2
<1> QED
  BY <1>2, <1>3 DEF Elements

LEMMA ElementsOfRest ==
  ASSUME NEW S, NEW s \in Seq(S), NEW new \in Seq(S)
  PROVE  /\ SubSeq(s, Len(new) + 1, Len(s)) \in Seq(S)
         /\ Elements(SubSeq(s, Len(new) + 1, Len(s))) \subseteq Elements(s)
<1> DEFINE n == Len(new)  rest == SubSeq(s, n + 1, Len(s))
<1>1. n \in Nat /\ Len(s) \in Nat /\ DOMAIN s = 1..Len(s) /\ rest \in Seq(S)
  OBVIOUS
<1> HIDE DEF n
<1>2. CASE n < Len(s)
  <2>1. DOMAIN rest = 1..(Len(s) - n) /\ \A i \in 1..(Len(s) - n) : rest[i] = s[n + i]
    BY <1>1, <1>2
  <2>2. \A i \in 1..(Len(s) - n) : n + i \in DOMAIN s
    BY <1>1, <1>2
  <2> HIDE DEF rest
  <2> QED
    BY <1>1, <2>1, <2>2 DEF Elements, rest, n
<1>3. CASE ~ (n < Len(s))
  <2>1. rest = << >>
    BY <1>1, <1>3
  <2> QED
    BY <1>1, <2>1 DEF Elements, n
<1> QED
  BY <1>2, <1>3

(* The windows of marks and events are segments. *)
LEMMA WindowType ==
  ASSUME events \in Seq(Nat), NEW start \in Nat, NEW end \in Nat
  PROVE  Window(start, end) \in Segment
BY DEF Window, Segment

LEMMA SegmentsType ==
  ASSUME events \in Seq(Nat), NEW marks \in Seq(Nat), NEW end \in Nat
  PROVE  Segments(marks, end) \in Seq(Segment)
<1>1. CASE marks = << >> /\ events = << >>
  BY <1>1 DEF Segments
<1>2. CASE marks = << >> /\ events # << >>
  <2>1. events[1] \in Nat
    BY <1>2
  <2>2. Window(events[1], NoEnd) \in Segment
    BY <2>1, WindowType DEF NoEnd
  <2> QED
    BY <1>2, <2>2 DEF Segments
<1>3. CASE marks # << >>
  <2>1. \A i \in 1..Len(marks) :
          Window(marks[i], IF i < Len(marks) THEN marks[i + 1] ELSE end) \in Segment
    <3> SUFFICES ASSUME NEW i \in 1..Len(marks)
                 PROVE  Window(marks[i], IF i < Len(marks) THEN marks[i + 1] ELSE end) \in Segment
      OBVIOUS
    <3>1. marks[i] \in Nat /\ (IF i < Len(marks) THEN marks[i + 1] ELSE end) \in Nat
      OBVIOUS
    <3> QED
      BY <3>1, WindowType
  <2>2. DOMAIN marks = 1..Len(marks) /\ Len(marks) \in Nat
    OBVIOUS
  <2>3. [i \in 1..Len(marks) |-> Window(marks[i], IF i < Len(marks) THEN marks[i + 1] ELSE end)]
          \in [1..Len(marks) -> Segment]
    BY <2>1
  <2>4. \A n \in Nat : [1..n -> Segment] \subseteq Seq(Segment)
    OBVIOUS
  <2>5. Segments(marks, end) =
        [i \in 1..Len(marks) |-> Window(marks[i], IF i < Len(marks) THEN marks[i + 1] ELSE end)]
    BY <1>3, <2>2 DEF Segments
  <2> QED
    BY <2>2, <2>3, <2>4, <2>5
<1> QED
  BY <1>1, <1>2, <1>3

(* A text is a sequence of pieces, and is not empty. *)
LEMMA TextType ==
  ASSUME events \in Seq(Nat), NEW s \in Seq(Segment)
  PROVE  /\ TextLength(s) \in Nat \ {0}
         /\ Text(s) \in Seq(Piece) /\ Len(Text(s)) = TextLength(s)
         /\ Text(s) # << >> /\ Text(s)[1].of = s
         /\ \A piece \in Elements(Text(s)) : piece.of = s
<1>1. /\ DOMAIN s = 1..Len(s) /\ Len(s) \in Nat
      /\ DOMAIN events = 1..Len(events) /\ Len(events) \in Nat
  OBVIOUS
<1>2. IsFiniteSet(DOMAIN s) /\ IsFiniteSet(DOMAIN events)
  BY <1>1, FS_Interval
<1> DEFINE closed == {i \in DOMAIN s : s[i].end # NoEnd}
           inside == {x \in (DOMAIN s) \X (DOMAIN events) : x[2] \in s[x[1]].events}
<1>3. IsFiniteSet(closed)
  BY <1>2, FS_Subset
<1>4. IsFiniteSet((DOMAIN s) \X (DOMAIN events))
  BY <1>2, FS_Product
<1>5. IsFiniteSet(inside)
  BY <1>4, FS_Subset
<1>6. Cardinality(closed) \in Nat /\ Cardinality(inside) \in Nat
  BY <1>3, <1>5, FS_CardinalityType
<1>7. TextLength(s) = 1 + Len(s) + Cardinality(closed) + Cardinality(inside)
  BY DEF TextLength
<1> HIDE DEF closed, inside
<1>8. TextLength(s) \in Nat \ {0}
  BY <1>1, <1>6, <1>7
<1>9. Text(s) \in [1..TextLength(s) -> Piece]
  BY <1>8 DEF Text, Piece
<1>10. Text(s) \in Seq(Piece) /\ Len(Text(s)) = TextLength(s) /\ DOMAIN Text(s) = 1..TextLength(s)
  BY <1>8, <1>9
<1>11. \A i \in 1..TextLength(s) : Text(s)[i].of = s
  BY DEF Text
<1>12. 1 \in 1..TextLength(s)
  BY <1>8
<1>13. Text(s) # << >>
  BY <1>8, <1>10
<1> QED
  BY <1>8, <1>10, <1>11, <1>12, <1>13 DEF Elements

-----------------------------------------------------------------------------
LEMMA IdleIsJob == Idle \in Job
<1>1. << >> \in Seq(Nat)
  OBVIOUS
<1> QED
  BY <1>1 DEF Idle, Job, Files, Lines

(* The initial state. *)
LEMMA StoreInitInv == StoreInit => StoreInv
<1> SUFFICES ASSUME StoreInit
             PROVE  StoreInv
  OBVIOUS
<1>1. << >> \in Seq(Nat) /\ << >> \in Seq(Piece) /\ <<1>> \in Seq(Nat)
  OBVIOUS
<1>2. events \in Seq(Nat)
  <2>1. PICK n \in 0..MaxEvents : events \in [1..n -> Time]
    BY DEF StoreInit
  <2>2. n \in Nat /\ events \in [1..n -> Nat]
    BY <2>1, StoreAssumption DEF Time
  <2> QED
    BY <2>2
<1>3. /\ content \in [Files -> Lines]
      /\ content["marks"] \in Seq(Nat) /\ content["segments"] \in Seq(Piece)
  BY <1>1 DEF StoreInit, Files, Lines
<1>4. job \in [Process -> Job] /\ \A p \in Process : job[p].kind = "none"
  BY IdleIsJob DEF StoreInit, Idle
<1>5. StoreTypeOK
  BY <1>2, <1>3, <1>4 DEF StoreInit, StoreTypeOK, JobInv, StoreSteps
<1>6. PrivateInv
  BY DEF StoreInit, PrivateInv, ContentIsPrivate
<1>7. KeptInv
  BY <1>4 DEF StoreInit, KeptInv, Holds, Owed, Confirming, Updating
<1>8. SegmentsInv
  <2>1. content["segments"] = << >>
    BY DEF StoreInit, Files
  <2>2. Elements(content["segments"]) = {}
    BY <2>1 DEF Elements
  <2>3. \A p \in Process : ~Computed(p) /\ ~Rewriting(p)
    BY <1>4 DEF Computed, Rewriting
  <2> QED
    BY <2>1, <2>2, <2>3 DEF SegmentsInv
<1> QED
  BY <1>5, <1>6, <1>7, <1>8 DEF StoreInv

(* A job that ends leaves an idle process. *)
LEMMA EndTypes ==
  ASSUME StoreTypeOK, NEW p \in Process, End(p)
  PROVE  step' \in [Process -> StoreSteps] /\ job' \in [Process -> Job] /\ JobInv'
BY IdleIsJob DEF End, StoreTypeOK, JobInv, StoreSteps, Idle

(* A job that has its lines. *)
LEMMA PrepareTypes ==
  ASSUME StoreTypeOK, NEW p \in Process, NEW lines, Prepare(p, lines), step[p] = "read",
         \/ job[p].kind = "mark" /\ lines \in Seq(Nat)
         \/ job[p].kind = "segment" /\ lines \in Seq(Piece)
  PROVE  step' \in [Process -> StoreSteps] /\ job' \in [Process -> Job] /\ JobInv'
<1>1. step' \in [Process -> StoreSteps]
  BY DEF Prepare, StoreTypeOK, StoreSteps
<1>2. lines \in Lines /\ acked \in SUBSET Nat
  BY DEF Lines, StoreTypeOK
<1>3. job' \in [Process -> Job]
  BY <1>2 DEF Prepare, StoreTypeOK, Job
<1>4. job'[p].lines = lines /\ job'[p].kind = job[p].kind /\ job'[p].file = job[p].file
  BY DEF Prepare, StoreTypeOK, Job
<1>5. \A q \in Process : q # p => job'[q] = job[q] /\ step'[q] = step[q]
  BY DEF Prepare, StoreTypeOK
<1>6. JobInv'
  BY <1>4, <1>5 DEF JobInv, StoreTypeOK
<1> QED
  BY <1>1, <1>3, <1>6

(* Every step keeps the types. *)
LEMMA CommandTypes ==
  ASSUME StoreTypeOK, NEW p \in Process, NEW kind \in {"mark", "segment"}, NEW t \in Nat,
         Command(p, kind, t)
  PROVE  StoreTypeOK'
<1> DEFINE new == [Idle EXCEPT !.kind = kind, !.at = t,
                               !.file = IF kind = "mark" THEN "marks" ELSE "segments"]
<1>1. << >> \in Seq(Nat) /\ << >> \in Seq(Piece)
  OBVIOUS
<1>2. /\ new.kind = kind /\ new.lines = << >>
      /\ new.file = IF kind = "mark" THEN "marks" ELSE "segments"
  BY DEF Idle
<1>3. new \in Job
  BY IdleIsJob DEF Job, Files
<1> HIDE DEF new
<1>4. job' = [job EXCEPT ![p] = new] /\ step' = [step EXCEPT ![p] = "read"]
  BY DEF Command, new
<1>5. job' \in [Process -> Job] /\ step' \in [Process -> StoreSteps]
  BY <1>3, <1>4 DEF StoreTypeOK, StoreSteps
<1>6. JobInv'
  BY <1>1, <1>2, <1>4 DEF JobInv, StoreTypeOK
<1> QED
  BY <1>5, <1>6 DEF Command, StoreTypeOK

LEMMA ReadTypes ==
  ASSUME StoreTypeOK, NEW p \in Process, ExtendMarks(p) \/ ComputeSegments(p)
  PROVE  StoreTypeOK'
<1>1. step' \in [Process -> StoreSteps] /\ job' \in [Process -> Job] /\ JobInv'
  <2>1. CASE End(p)
    BY <2>1, EndTypes
  <2>2. CASE ExtendMarks(p) /\ Prepare(p, Append(content["marks"], job[p].at))
    <3>1. job[p].at \in Nat /\ content["marks"] \in Seq(Nat)
      BY DEF StoreTypeOK, Job
    <3>2. Append(content["marks"], job[p].at) \in Seq(Nat)
      BY <3>1, ElementsOfAppend
    <3> QED
      BY <2>2, <3>2, PrepareTypes DEF ExtendMarks, ReadMarks
  <2>3. CASE ComputeSegments(p) /\ Prepare(p, Text(Segments(content["marks"], job[p].at)))
    <3>1. job[p].at \in Nat /\ content["marks"] \in Seq(Nat) /\ events \in Seq(Nat)
      BY DEF StoreTypeOK, Job
    <3>2. Segments(content["marks"], job[p].at) \in Seq(Segment)
      BY <3>1, SegmentsType
    <3>3. Text(Segments(content["marks"], job[p].at)) \in Seq(Piece)
      BY <3>1, <3>2, TextType
    <3> QED
      BY <2>3, <3>3, PrepareTypes DEF ComputeSegments, ReadMarks
  <2> QED
    BY <2>1, <2>2, <2>3 DEF ExtendMarks, ComputeSegments
<1>2. disturbed' \in BOOLEAN
  BY DEF ExtendMarks, ComputeSegments, ReadMarks, StoreTypeOK
<1>3. UNCHANGED <<content, mode, earlier, events, acked, torn>>
  BY DEF ExtendMarks, ComputeSegments, ReadMarks
<1> QED
  BY <1>1, <1>2, <1>3 DEF StoreTypeOK

LEMMA FileTypes ==
  ASSUME StoreTypeOK, NEW p \in Process, Truncate(p) \/ Protect(p) \/ Write(p)
  PROVE  StoreTypeOK'
<1>1. job[p].file \in Files /\ step[p] # "idle"
  BY DEF StoreTypeOK, Job, Truncate, Protect, Write
<1>2. /\ step' \in [Process -> StoreSteps] /\ job' = job
      /\ \A q \in Process : step'[q] # "idle" => step[q] # "idle"
  BY <1>1 DEF Truncate, Protect, Write, StoreTypeOK, StoreSteps
<1>3. mode' \in [Files -> {"absent", "shared", "private"}]
  BY <1>1 DEF Truncate, Protect, Write, StoreTypeOK
<1>4. /\ content' \in [Files -> Lines]
      /\ content'["marks"] \in Seq(Nat) /\ content'["segments"] \in Seq(Piece)
  <2>1. CASE content' = content
    BY <2>1 DEF StoreTypeOK
  <2>2. CASE content' = [content EXCEPT ![job[p].file] = << >>]
    <3>1. << >> \in Seq(Nat) /\ << >> \in Seq(Piece) /\ << >> \in Lines
      BY DEF Lines
    <3> QED
      BY <1>1, <2>2, <3>1 DEF StoreTypeOK, Files
  <2>3. CASE Write(p)
    <3> DEFINE new == job[p].lines
               old == content[job[p].file]
               file == new \o SubSeq(old, Len(new) + 1, Len(old))
    <3>1. \/ job[p].file = "marks" /\ new \in Seq(Nat) /\ old \in Seq(Nat)
          \/ job[p].file = "segments" /\ new \in Seq(Piece) /\ old \in Seq(Piece)
      BY <1>1 DEF StoreTypeOK, JobInv
    <3>2. \/ job[p].file = "marks" /\ file \in Seq(Nat)
          \/ job[p].file = "segments" /\ file \in Seq(Piece)
      BY <3>1, ElementsOfOverlay
    <3>3. content' = [content EXCEPT ![job[p].file] = file]
      BY <2>3 DEF Write
    <3> HIDE DEF file
    <3> QED
      BY <3>2, <3>3 DEF StoreTypeOK, Files, Lines
  <2> QED
    BY <2>1, <2>2, <2>3 DEF Truncate, Protect
<1>5. UNCHANGED <<earlier, events, acked, disturbed>> /\ torn' \in BOOLEAN
  BY DEF Truncate, Protect, Write, StoreTypeOK
<1>6. JobInv'
  BY <1>2 DEF JobInv, StoreTypeOK
<1> QED
  BY <1>2, <1>3, <1>4, <1>5, <1>6 DEF StoreTypeOK

LEMMA EndingTypes ==
  ASSUME StoreTypeOK, NEW p \in Process, Confirm(p) \/ Abandon(p)
  PROVE  StoreTypeOK'
<1>1. step' \in [Process -> StoreSteps] /\ job' \in [Process -> Job] /\ JobInv'
  BY EndTypes DEF Confirm, Abandon
<1>2. job[p].at \in Nat
  BY DEF StoreTypeOK, Job
<1>3. acked' \subseteq Nat
  BY <1>2 DEF Confirm, Abandon, StoreTypeOK
<1>4. disturbed' \in BOOLEAN
  BY DEF Confirm, Abandon, StoreTypeOK
<1>5. UNCHANGED <<content, mode, earlier, events, torn>>
  BY DEF Confirm, Abandon
<1> QED
  BY <1>1, <1>3, <1>4, <1>5 DEF StoreTypeOK

LEMMA StoreTypeStep == StoreTypeOK /\ [StoreNext]_storeVars => StoreTypeOK'
<1> SUFFICES ASSUME StoreTypeOK, [StoreNext]_storeVars
             PROVE  StoreTypeOK'
  OBVIOUS
<1>1. ASSUME NEW p \in Process, NEW t \in Time, StartMark(p, t)
      PROVE  StoreTypeOK'
  BY <1>1, CommandTypes DEF StartMark, Time
<1>2. ASSUME NEW p \in Process, NEW t \in Time \cup {NoEnd}, StartSegment(p, t)
      PROVE  StoreTypeOK'
  BY <1>2, CommandTypes DEF StartSegment, Time, NoEnd
<1>3. ASSUME NEW p \in Process, ExtendMarks(p) \/ ComputeSegments(p)
      PROVE  StoreTypeOK'
  BY <1>3, ReadTypes
<1>4. ASSUME NEW p \in Process, Truncate(p) \/ Protect(p) \/ Write(p)
      PROVE  StoreTypeOK'
  BY <1>4, FileTypes
<1>5. ASSUME NEW p \in Process, Confirm(p) \/ Abandon(p)
      PROVE  StoreTypeOK'
  BY <1>5, EndingTypes
<1>6. CASE UNCHANGED storeVars
  BY <1>6 DEF storeVars, StoreTypeOK, JobInv
<1> QED
  BY <1>1, <1>2, <1>3, <1>4, <1>5, <1>6 DEF StoreNext

-----------------------------------------------------------------------------
(* Content is written only to a file that is private, and stays private. *)
LEMMA PrivateStep == StoreInv /\ [StoreNext]_storeVars => PrivateInv'
<1> SUFFICES ASSUME StoreTypeOK, PrivateInv, [StoreNext]_storeVars
             PROVE  PrivateInv'
  BY DEF StoreInv
<1> USE DEF StoreTypeOK, PrivateInv, ContentIsPrivate
<1>1. ASSUME NEW p \in Process, NEW kind, NEW t, Command(p, kind, t)
      PROVE  PrivateInv'
  BY <1>1 DEF Command
<1>2. ASSUME NEW p \in Process, End(p), UNCHANGED <<content, mode, earlier>>
      PROVE  PrivateInv'
  BY <1>2 DEF End
<1>3. ASSUME NEW p \in Process, NEW lines, Prepare(p, lines),
             UNCHANGED <<content, mode, earlier>>
      PROVE  PrivateInv'
  BY <1>3 DEF Prepare
<1>4. ASSUME NEW p \in Process, Truncate(p)
      PROVE  PrivateInv'
  BY <1>4 DEF Truncate
<1>5. ASSUME NEW p \in Process, Protect(p)
      PROVE  PrivateInv'
  <2>1. job[p].file \in Files
    BY DEF Job
  <2> QED
    BY <1>5, <2>1 DEF Protect
<1>6. ASSUME NEW p \in Process, Write(p)
      PROVE  PrivateInv'
  BY <1>6 DEF Write
<1>7. CASE UNCHANGED storeVars
  BY <1>7 DEF storeVars
<1>8. ASSUME NEW p \in Process, ExtendMarks(p) \/ ComputeSegments(p) \/ Confirm(p) \/ Abandon(p)
      PROVE  PrivateInv'
  <2>1. UNCHANGED <<content, mode, earlier>> /\ (End(p) \/ \E lines : Prepare(p, lines))
    BY <1>8 DEF ExtendMarks, ComputeSegments, ReadMarks, Confirm, Abandon
  <2> QED
    BY <2>1, <1>2, <1>3
<1> QED
  BY <1>1, <1>4, <1>5, <1>6, <1>7, <1>8 DEF StoreNext, StartMark, StartSegment

-----------------------------------------------------------------------------
(* A command that starts is not yet updating the marks and owes none. *)
LEMMA KeptByCommand ==
  ASSUME StoreTypeOK, KeptInv, NEW p \in Process, NEW kind, NEW t, Command(p, kind, t)
  PROVE  KeptInv'
<1>1. /\ UNCHANGED <<content, earlier, acked, disturbed>>
      /\ \A q \in Process : q # p => job'[q] = job[q] /\ step'[q] = step[q]
      /\ step[p] = "idle" /\ step'[p] = "read"
  BY DEF Command, StoreTypeOK
<1>2. \A q \in Process : (Updating(q)' <=> Updating(q)) /\ (Confirming(q)' <=> Confirming(q))
  BY <1>1 DEF Updating, Confirming
<1>3. \A q \in Process : Updating(q) \/ Confirming(q) => job'[q] = job[q] /\ step'[q] = step[q]
  BY <1>1 DEF Updating, Confirming
<1>4. \A m \in Nat : Owed(m)' <=> Owed(m)
  BY <1>1, <1>2, <1>3 DEF Owed
<1> QED
  BY <1>1, <1>2, <1>3, <1>4 DEF KeptInv, Holds

(* A command that ends, and owes at most what it acknowledged. *)
LEMMA KeptByEnd ==
  ASSUME StoreTypeOK, KeptInv, NEW p \in Process, End(p),
         UNCHANGED <<content, earlier>>,
         acked' \subseteq acked \cup {m \in Nat : Confirming(p) /\ job[p].at = m},
         ~disturbed' => ~disturbed /\ (Updating(p) => step[p] = "truncate")
  PROVE  KeptInv'
<1>1. /\ \A q \in Process : q # p => job'[q] = job[q] /\ step'[q] = step[q]
      /\ step'[p] = "idle"
  BY DEF End, StoreTypeOK
<1>2. \A q \in Process : /\ Updating(q)' => Updating(q) /\ q # p
                         /\ Confirming(q)' => Confirming(q) /\ q # p
                         /\ q # p => (Updating(q)' <=> Updating(q))
  BY <1>1 DEF Updating, Confirming
<1>3. \A m \in Nat : Owed(m)' => Owed(m)
  BY <1>1, <1>2 DEF Owed
<1> SUFFICES ASSUME ~disturbed'
             PROVE  KeptInv'
  BY DEF KeptInv
<1>4. (\A q \in Process : ~Updating(q)') => Holds(content["marks"])'
  BY <1>2, <1>3 DEF KeptInv, Holds
<1>5. \A q, r \in Process : Updating(q)' /\ Updating(r)' => q = r
  BY <1>2 DEF KeptInv
<1>6. \A q \in Process : Updating(q)' =>
         /\ Holds(job[q].lines)'
         /\ job'[q].at \in Elements(job'[q].lines)
         /\ step'[q] = "truncate" => Holds(content["marks"])'
  BY <1>1, <1>2, <1>3 DEF KeptInv, Holds
<1> QED
  BY <1>4, <1>5, <1>6 DEF KeptInv

(* A mark command that read the file while nobody was updating it. *)
LEMMA KeptByExtend ==
  ASSUME StoreTypeOK, KeptInv, NEW p \in Process, ExtendMarks(p)
  PROVE  KeptInv'
<1>1. CASE End(p)
  BY <1>1, KeptByEnd DEF ExtendMarks, ReadMarks, Updating
<1>2. CASE Prepare(p, Append(content["marks"], job[p].at))
  <2> DEFINE marks == Append(content["marks"], job[p].at)
  <2> SUFFICES ASSUME ~disturbed'
               PROVE  KeptInv'
    BY DEF KeptInv
  <2>1. ~disturbed /\ \A q \in Process : ~Updating(q)
    BY DEF ExtendMarks, ReadMarks
  <2>2. /\ job'[p].lines = marks /\ job'[p].kind = "mark" /\ job'[p].at = job[p].at
        /\ step'[p] = "truncate"
        /\ \A q \in Process : q # p => job'[q] = job[q] /\ step'[q] = step[q]
    BY <1>2 DEF Prepare, StoreTypeOK, Job, ExtendMarks
  <2>3. UNCHANGED <<content, earlier, acked>> /\ step[p] = "read"
    BY DEF ExtendMarks, ReadMarks
  <2>4. \A q \in Process : Updating(q)' => q = p
    BY <2>1, <2>2 DEF Updating
  <2>5. \A m \in Nat : Owed(m)' => Owed(m)
    BY <2>2, <2>3 DEF Owed, Confirming
  <2>6. Holds(content["marks"])
    BY <2>1 DEF KeptInv
  <2>7. /\ job[p].at \in Elements(marks)
        /\ Elements(content["marks"]) \subseteq Elements(marks)
    BY ElementsOfAppend DEF StoreTypeOK, Job
  <2> HIDE DEF marks
  <2>8. Holds(content["marks"])' /\ Holds(job[p].lines)'
    BY <2>2, <2>3, <2>5, <2>6, <2>7 DEF Holds
  <2> QED
    BY <2>2, <2>4, <2>7, <2>8 DEF KeptInv
<1> QED
  BY <1>1, <1>2 DEF ExtendMarks

(* A segment command neither updates marks nor owes any. *)
LEMMA KeptByCompute ==
  ASSUME StoreTypeOK, KeptInv, NEW p \in Process, ComputeSegments(p)
  PROVE  KeptInv'
<1>1. CASE End(p)
  BY <1>1, KeptByEnd DEF ComputeSegments, ReadMarks, Updating
<1>2. CASE Prepare(p, Text(Segments(content["marks"], job[p].at)))
  <2>1. /\ job'[p].kind = "segment" /\ job[p].kind = "segment"
        /\ \A q \in Process : q # p => job'[q] = job[q] /\ step'[q] = step[q]
    BY <1>2 DEF Prepare, StoreTypeOK, Job, ComputeSegments
  <2>2. /\ UNCHANGED <<content, earlier, acked>>
        /\ ~disturbed' => ~disturbed
    BY DEF ComputeSegments, ReadMarks
  <2>3. \A q \in Process : (Updating(q)' <=> Updating(q)) /\ (Confirming(q)' <=> Confirming(q))
    BY <2>1 DEF Updating, Confirming
  <2>4. \A q \in Process : Updating(q) \/ Confirming(q) => job'[q] = job[q] /\ step'[q] = step[q]
    BY <2>1 DEF Updating, Confirming
  <2>5. \A m \in Nat : Owed(m)' <=> Owed(m)
    BY <2>2, <2>3, <2>4 DEF Owed
  <2> QED
    BY <2>2, <2>3, <2>4, <2>5 DEF KeptInv, Holds
<1> QED
  BY <1>1, <1>2 DEF ComputeSegments

(* The truncation and the change of mode leave the one update in progress. *)
LEMMA KeptByOpen ==
  ASSUME StoreTypeOK, KeptInv, NEW p \in Process, Truncate(p) \/ Protect(p)
  PROVE  KeptInv'
<1>1. /\ job' = job /\ UNCHANGED <<earlier, acked, disturbed>>
      /\ \A q \in Process : q # p => step'[q] = step[q]
      /\ step[p] \in {"truncate", "protect"} /\ step'[p] \in {"protect", "write"}
      /\ job[p].kind # "mark" => content'["marks"] = content["marks"]
      /\ \/ job[p].kind = "mark" /\ Updating(p)
         \/ content'["marks"] = content["marks"]
  <2>1. job[p].kind \in {"mark", "segment"}
    BY DEF Truncate, Protect, StoreTypeOK, JobInv
  <2>2. job[p].kind = "segment" => job[p].file = "segments"
    BY DEF StoreTypeOK, JobInv
  <2>3. job[p].kind = "mark" \/ content'["marks"] = content["marks"]
    BY <2>1, <2>2 DEF Truncate, Protect, StoreTypeOK, Files
  <2> QED
    BY <2>1, <2>3 DEF Truncate, Protect, StoreTypeOK, Updating
<1>2. \A q \in Process : (Updating(q)' <=> Updating(q)) /\ (Confirming(q)' <=> Confirming(q))
  BY <1>1 DEF Updating, Confirming
<1>3. \A m \in Nat : Owed(m)' <=> Owed(m)
  BY <1>1, <1>2 DEF Owed
<1> SUFFICES ASSUME ~disturbed'
             PROVE  KeptInv'
  BY DEF KeptInv
<1>4. (\A q \in Process : ~Updating(q)') => Holds(content["marks"])'
  BY <1>1, <1>2, <1>3 DEF KeptInv, Holds
<1>5. \A q \in Process : Updating(q)' =>
         /\ Holds(job[q].lines)'
         /\ job'[q].at \in Elements(job'[q].lines)
  BY <1>1, <1>2, <1>3 DEF KeptInv, Holds
<1>6. ASSUME NEW q \in Process, Updating(q)', step'[q] = "truncate"
      PROVE  Holds(content["marks"])'
  <2>1. q # p /\ Updating(q) /\ step[q] = "truncate"
    BY <1>1, <1>2, <1>6
  <2>2. ~Updating(p)
    BY <1>1, <2>1 DEF KeptInv
  <2> QED
    BY <1>1, <1>3, <2>1, <2>2 DEF KeptInv, Holds
<1> QED
  BY <1>1, <1>2, <1>4, <1>5, <1>6 DEF KeptInv

(* The write puts what is owed into the file, the mark of the command with it. *)
LEMMA KeptByWrite ==
  ASSUME StoreTypeOK, KeptInv, NEW p \in Process, Write(p)
  PROVE  KeptInv'
<1>1. /\ job' = job /\ UNCHANGED <<earlier, acked, disturbed>>
      /\ \A q \in Process : q # p => step'[q] = step[q]
      /\ step[p] = "write" /\ step'[p] = "confirm"
  BY DEF Write, StoreTypeOK
<1>2. \A q \in Process : q # p => (Updating(q)' <=> Updating(q)) /\ (Confirming(q)' <=> Confirming(q))
  BY <1>1 DEF Updating, Confirming
<1> SUFFICES ASSUME ~disturbed'
             PROVE  KeptInv'
  BY DEF KeptInv
<1>3. CASE job[p].kind = "mark"
  <2>1. Updating(p) /\ ~Updating(p)' /\ \A q \in Process : Updating(q) => q = p
    BY <1>1, <1>3 DEF Updating, KeptInv
  <2>2. \A q \in Process : ~Updating(q)'
    BY <1>2, <2>1
  <2>3. Elements(job[p].lines) \subseteq Elements(content'["marks"])
    <3> DEFINE new == job[p].lines
               old == content["marks"]
               file == new \o SubSeq(old, Len(new) + 1, Len(old))
    <3>1. job[p].file = "marks" /\ new \in Seq(Nat) /\ old \in Seq(Nat)
      BY <1>3 DEF StoreTypeOK, JobInv
    <3>2. Elements(new) \subseteq Elements(file)
      BY <3>1, ElementsOfOverlay
    <3>3. content'["marks"] = file
      BY <3>1 DEF Write, StoreTypeOK, Files
    <3> QED
      BY <3>2, <3>3
  <2>4. \A m \in Nat : Owed(m)' => Owed(m) \/ m = job[p].at
    BY <1>1, <1>2 DEF Owed
  <2>5. Holds(job[p].lines) /\ job[p].at \in Elements(job[p].lines)
    BY <1>1, <2>1 DEF KeptInv
  <2>6. Holds(content["marks"])'
    BY <2>3, <2>4, <2>5 DEF Holds
  <2> QED
    BY <2>2, <2>6 DEF KeptInv
<1>4. CASE job[p].kind # "mark"
  <2>1. job[p].file = "segments"
    BY <1>1, <1>4 DEF StoreTypeOK, JobInv
  <2>2. content'["marks"] = content["marks"]
    BY <2>1 DEF Write, StoreTypeOK
  <2>3. \A q \in Process : (Updating(q)' <=> Updating(q)) /\ (Confirming(q)' <=> Confirming(q))
    BY <1>1, <1>2, <1>4 DEF Updating, Confirming
  <2>4. \A m \in Nat : Owed(m)' <=> Owed(m)
    BY <1>1, <2>3 DEF Owed
  <2>5. \A q \in Process : step'[q] = "truncate" => step[q] = "truncate"
    BY <1>1
  <2> QED
    BY <1>1, <2>2, <2>3, <2>4, <2>5 DEF KeptInv, Holds
<1> QED
  BY <1>3, <1>4

(* An acknowledged mark was owed before; a command that is cut off while it
   rewrites the marks disturbs them. *)
LEMMA KeptByEnding ==
  ASSUME StoreTypeOK, KeptInv, NEW p \in Process, Confirm(p) \/ Abandon(p)
  PROVE  KeptInv'
<1>1. End(p) /\ UNCHANGED <<content, earlier>>
  BY DEF Confirm, Abandon
<1>2. job[p].at \in Nat
  BY DEF StoreTypeOK, Job
<1>3. acked' \subseteq acked \cup {m \in Nat : Confirming(p) /\ job[p].at = m}
  BY <1>2 DEF Confirm, Abandon, Confirming
<1>4. ~disturbed' => ~disturbed /\ (Updating(p) => step[p] = "truncate")
  BY DEF Confirm, Abandon, Updating
<1> QED
  BY <1>1, <1>3, <1>4, KeptByEnd

LEMMA KeptStep == StoreInv /\ [StoreNext]_storeVars => KeptInv'
<1> SUFFICES ASSUME StoreTypeOK, KeptInv, [StoreNext]_storeVars
             PROVE  KeptInv'
  BY DEF StoreInv
<1>1. ASSUME NEW p \in Process, NEW kind, NEW t, Command(p, kind, t)
      PROVE  KeptInv'
  BY <1>1, KeptByCommand
<1>2. ASSUME NEW p \in Process, ExtendMarks(p)
      PROVE  KeptInv'
  BY <1>2, KeptByExtend
<1>3. ASSUME NEW p \in Process, ComputeSegments(p)
      PROVE  KeptInv'
  BY <1>3, KeptByCompute
<1>4. ASSUME NEW p \in Process, Truncate(p) \/ Protect(p)
      PROVE  KeptInv'
  BY <1>4, KeptByOpen
<1>5. ASSUME NEW p \in Process, Write(p)
      PROVE  KeptInv'
  BY <1>5, KeptByWrite
<1>6. ASSUME NEW p \in Process, Confirm(p) \/ Abandon(p)
      PROVE  KeptInv'
  BY <1>6, KeptByEnding
<1>7. CASE UNCHANGED storeVars
  BY <1>7 DEF storeVars, KeptInv, Holds, Owed, Confirming, Updating
<1> QED
  BY <1>1, <1>2, <1>3, <1>4, <1>5, <1>6, <1>7 DEF StoreNext, StartMark, StartSegment

-----------------------------------------------------------------------------
(* Marks and events in order. *)

(* A set of numbers that is not empty has a least one. *)
LEMMA LeastNumber ==
  ASSUME NEW T \in SUBSET Nat, T # {}
  PROVE  \E x \in T : \A y \in T : x <= y
<1> DEFINE R == {ss \in Nat \X Nat : ss[1] < ss[2]}
<1>1. IsWellFoundedOn(R, Nat)
  BY NatLessThanWellFounded DEF OpToRel
<1> HIDE DEF R
<1>2. PICK x \in T : \A y \in T : ~ (<<y, x>> \in R)
  BY <1>1, WFMin, Zenon
<1>3. \A y \in T : ~ (y < x)
  BY <1>2 DEF R
<1> QED
  BY <1>3

(* The comparison of neighbours (segmentation.py) orders all the marks. *)
LEMMA StrictOrder ==
  ASSUME NEW s \in Seq(Nat), StrictlyOrdered(s), NEW i \in 1..Len(s), NEW j \in 1..Len(s), i < j
  PROVE  s[i] < s[j]
<1> DEFINE T == {k \in 1..Len(s) : i < k /\ ~ (s[i] < s[k])}
<1>0. Len(s) \in Nat /\ \A k \in 1..Len(s) : s[k] \in Nat
  OBVIOUS
<1> SUFFICES ASSUME j \in T
             PROVE  FALSE
  OBVIOUS
<1> T \in SUBSET Nat /\ T # {}
  OBVIOUS
<1> HIDE DEF T
<1>1. PICK k \in T : \A y \in T : k <= y
  BY LeastNumber
<1> USE DEF T
<1>2. k \in 1..Len(s) /\ i < k /\ ~ (s[i] < s[k])
  BY <1>1
<1>3. k - 1 \in 1..(Len(s) - 1) /\ k - 1 \in 1..Len(s)
  BY <1>0, <1>2
<1>4. s[k - 1] < s[k]
  <2>1. s[k - 1] < s[(k - 1) + 1]
    BY <1>3 DEF StrictlyOrdered
  <2> QED
    BY <1>0, <1>2, <2>1
<1>5. CASE k - 1 = i
  BY <1>2, <1>4, <1>5
<1>6. CASE k - 1 # i
  <2>1. i < k - 1 /\ k - 1 \notin T
    BY <1>0, <1>1, <1>2, <1>3, <1>6
  <2>2. s[i] < s[k - 1]
    BY <1>3, <2>1
  <2>3. s[i] \in Nat /\ s[k - 1] \in Nat /\ s[k] \in Nat
    BY <1>0, <1>2, <1>3
  <2> QED
    BY <1>2, <1>4, <2>2, <2>3
<1> QED
  BY <1>5, <1>6

(* No event is before the first. *)
LEMMA FirstIsLeast ==
  ASSUME NEW s \in Seq(Nat), Ordered(s), NEW j \in 1..Len(s)
  PROVE  s[1] <= s[j]
<1> DEFINE T == {k \in 1..Len(s) : ~ (s[1] <= s[k])}
<1>0. Len(s) \in Nat /\ \A k \in 1..Len(s) : s[k] \in Nat
  OBVIOUS
<1> SUFFICES ASSUME j \in T
             PROVE  FALSE
  OBVIOUS
<1> T \in SUBSET Nat /\ T # {}
  OBVIOUS
<1> HIDE DEF T
<1>1. PICK k \in T : \A y \in T : k <= y
  BY LeastNumber
<1> USE DEF T
<1>2. k \in 1..Len(s) /\ ~ (s[1] <= s[k]) /\ 1 \in 1..Len(s)
  BY <1>0, <1>1
<1>3. k # 1
  BY <1>0, <1>2
<1>4. k - 1 \in 1..(Len(s) - 1) /\ k - 1 \in 1..Len(s) /\ k - 1 \notin T
  BY <1>0, <1>1, <1>2, <1>3
<1>5. s[k - 1] <= s[k]
  <2>1. s[k - 1] <= s[(k - 1) + 1]
    BY <1>4 DEF Ordered
  <2> QED
    BY <1>0, <1>2, <2>1
<1>6. s[1] <= s[k - 1]
  BY <1>4
<1>7. s[1] \in Nat /\ s[k - 1] \in Nat /\ s[k] \in Nat
  BY <1>0, <1>2, <1>4
<1> QED
  BY <1>2, <1>5, <1>6, <1>7

(* The windows of marks in order: each event from the first mark to the end is
   in that of the last mark at or before it. *)
LEMMA MarksPartition ==
  ASSUME events \in Seq(Nat), NEW marks \in Seq(Nat), marks # << >>, NEW end \in Nat,
         StrictlyOrdered(marks), end # NoEnd => marks[Len(marks)] <= end
  PROVE  Partition(Segments(marks, end)) /\ Starts(Segments(marks, end)) = Elements(marks)
<1> DEFINE s == Segments(marks, end)
           n == Len(marks)
           endOf(i) == IF i < n THEN marks[i + 1] ELSE end
<1>1. n \in Nat /\ n >= 1 /\ DOMAIN marks = 1..n /\ \A i \in 1..n : marks[i] \in Nat
  OBVIOUS
<1>2. \A i, j \in 1..n : i < j => marks[i] < marks[j]
  BY StrictOrder
<1>3. s = [i \in 1..n |-> Window(marks[i], endOf(i))]
  BY <1>1 DEF Segments
<1>4. /\ DOMAIN s = 1..n
      /\ \A i \in 1..n : s[i] = Window(marks[i], endOf(i))
  BY <1>3
<1>5. Len(s) = n
  <2>1. s \in Seq(Segment)
    BY SegmentsType
  <2> HIDE DEF s
  <2> QED
    BY <1>1, <1>4, <2>1
<1> HIDE DEF s
<1>6. \A i \in 1..n : /\ s[i].start = marks[i] /\ s[i].end = endOf(i)
                      /\ \A e \in DOMAIN events :
                           e \in s[i].events <=>
                             events[e] >= marks[i] /\ (endOf(i) = NoEnd \/ events[e] < endOf(i))
  BY <1>4 DEF Window
<1>7. s[n].end = end
  BY <1>1, <1>6
<1> HIDE DEF n
<1>8. ASSUME NEW e \in DOMAIN events, NEW i \in 1..n
      PROVE  e \in s[i].events <=>
               /\ s[i].start <= events[e]
               /\ \A j \in 1..n : s[j].start <= events[e] => s[j].start <= s[i].start
               /\ end # NoEnd => events[e] < end
  <2>0. events[e] \in Nat /\ marks[i] \in Nat
    BY <1>1
  <2> DEFINE t == events[e]
  <2>1. e \in s[i].events <=> t >= marks[i] /\ (endOf(i) = NoEnd \/ t < endOf(i))
    BY <1>6
  <2>2. s[i].start = marks[i] /\ \A j \in 1..n : s[j].start = marks[j]
    BY <1>6
  <2> HIDE DEF t
  <2>3. t \in Nat
    BY <2>0 DEF t
  <2>4. CASE i < n
    <3>1. i + 1 \in 1..n /\ n \in 1..n /\ endOf(i) = marks[i + 1]
      BY <1>1, <2>4
    <3>2. marks[i] < marks[i + 1] /\ marks[i + 1] \in Nat
      BY <1>1, <1>2, <3>1
    <3>3. marks[i + 1] <= marks[n] /\ marks[n] \in Nat
      BY <1>1, <1>2, <3>1
    <3>4. e \in s[i].events <=> t >= marks[i] /\ t < marks[i + 1]
      BY <2>0, <2>1, <3>1, <3>2 DEF NoEnd
    <3>5. ASSUME t < marks[i + 1], NEW j \in 1..n, marks[j] <= t
          PROVE  marks[j] <= marks[i]
      <4>1. marks[j] \in Nat
        BY <1>1
      <4>2. ~ (i + 1 < j)
        <5>1. i + 1 < j => marks[i + 1] < marks[j]
          BY <1>2, <3>1
        <5> QED
          BY <2>3, <3>2, <3>5, <4>1, <5>1
      <4>4. j # i + 1
        BY <2>3, <3>2, <3>5, <4>1
      <4>3. j = i \/ j < i
        BY <1>1, <4>2, <4>4
      <4> QED
        BY <1>2, <2>0, <4>1, <4>3
    <3>6. end # NoEnd /\ t < marks[i + 1] => t < end
      <4>1. end # NoEnd => marks[n] <= end
        BY DEF n
      <4> QED
        BY <2>3, <3>2, <3>3, <4>1
    <3>7. ASSUME \A j \in 1..n : marks[j] <= t => marks[j] <= marks[i]
          PROVE  t < marks[i + 1]
      <4>1. ~ (marks[i + 1] <= marks[i])
        BY <2>0, <3>2
      <4>2. ~ (marks[i + 1] <= t)
        BY <3>1, <3>7, <4>1
      <4> QED
        BY <2>3, <3>2, <4>2
    <3> QED
      BY <2>0, <2>2, <2>3, <3>4, <3>5, <3>6, <3>7 DEF t
  <2>5. CASE ~ (i < n)
    <3>1. i = n /\ endOf(i) = end
      BY <1>1, <2>5
    <3>2. \A j \in 1..n : marks[j] <= marks[i]
      <4>1. \A j \in 1..n : (j = i \/ j < i) /\ marks[j] \in Nat
        BY <1>1, <3>1
      <4> QED
        BY <1>2, <2>0, <4>1
    <3> QED
      BY <2>0, <2>1, <2>2, <2>3, <3>1, <3>2 DEF t
  <2> QED
    BY <2>4, <2>5
<1>9. Partition(s)
  BY <1>4, <1>5, <1>7, <1>8 DEF Partition
<1>10. Starts(s) = Elements(marks)
  BY <1>1, <1>4, <1>6 DEF Starts, Elements, n
<1> QED
  BY <1>9, <1>10 DEF s

(* segmentation.py: the segments of marks that are not refused. *)
LEMMA SegmentsPartition ==
  ASSUME events \in Seq(Nat), NEW marks \in Seq(Nat), NEW end \in Nat, ~Refused(marks, end)
  PROVE  /\ Partition(Segments(marks, end))
         /\ Elements(marks) \subseteq Starts(Segments(marks, end))
<1>1. CASE marks # << >>
  <2>1. StrictlyOrdered(marks) /\ (end # NoEnd => ~ (end < marks[Len(marks)]))
    BY <1>1 DEF Refused
  <2>2. marks[Len(marks)] \in Nat
    BY <1>1
  <2>3. end # NoEnd => marks[Len(marks)] <= end
    BY <2>1, <2>2
  <2> QED
    BY <1>1, <2>1, <2>3, MarksPartition
<1>2. CASE marks = << >> /\ events = << >>
  BY <1>2 DEF Segments, Partition, Elements
<1>3. CASE marks = << >> /\ events # << >>
  <2> DEFINE s == Segments(marks, end)
  <2>1. s = << Window(events[1], NoEnd) >>
    BY <1>3 DEF Segments
  <2>2. DOMAIN events = 1..Len(events) /\ \A e \in DOMAIN events : events[e] \in Nat
    OBVIOUS
  <2>3. 1 \in DOMAIN events /\ \A e \in DOMAIN events : events[1] <= events[e]
    <3>1. Ordered(events)
      BY DEF Refused
    <3>2. Len(events) \in Nat /\ Len(events) # 0
      BY <1>3
    <3>3. \A e \in 1..Len(events) : events[1] <= events[e]
      BY <3>1, FirstIsLeast
    <3>4. 1 \in 1..Len(events)
      BY <3>2
    <3> QED
      BY <2>2, <3>3, <3>4
  <2>4. /\ DOMAIN s = {1} /\ Len(s) = 1
        /\ s[1].start = events[1] /\ s[1].end = NoEnd
        /\ \A e \in DOMAIN events : e \in s[1].events <=> events[e] >= events[1]
    BY <2>1 DEF Window
  <2> HIDE DEF s
  <2>5. \A e \in DOMAIN events : e \in s[1].events
    BY <2>2, <2>3, <2>4
  <2>6. \A e \in DOMAIN events : s[1].start <= events[e] /\ s[1].start <= s[1].start
    BY <2>2, <2>3, <2>4
  <2>7. Partition(s)
    BY <2>4, <2>5, <2>6 DEF Partition
  <2> QED
    BY <1>3, <2>7 DEF Elements, s
<1> QED
  BY <1>1, <1>2, <1>3

-----------------------------------------------------------------------------
(* What a command computed, and what is on disk, stays as it was while other
   commands take their steps. *)
LEMMA SegmentsByOther ==
  ASSUME SegmentsInv, UNCHANGED <<events, known, torn>>,
         content'["segments"] = content["segments"], ~disturbed' => ~disturbed,
         \A p \in Process : Computed(p)' => Computed(p) /\ job'[p] = job[p],
         \A p \in Process : Rewriting(p)' => Rewriting(p)
  PROVE  SegmentsInv'
<1>1. \A s : /\ Partition(s) => Partition(s)'
             /\ Text(s)' = Text(s) /\ Starts(s)' = Starts(s)
  BY DEF Partition, Text, TextLength, Starts
<1>2. \A piece \in Elements(content'["segments"]) : Partition(piece.of)'
  BY <1>1 DEF SegmentsInv
<1>3. ASSUME NEW p \in Process, Computed(p)'
      PROVE  \E s : Follows(p, s)'
  <2>1. PICK s : Follows(p, s)
    BY <1>3 DEF SegmentsInv
  <2>2. job'[p] = job[p]
    BY <1>3
  <2>3. Follows(p, s)'
    BY <1>1, <2>1, <2>2 DEF Follows
  <2> QED
    BY <2>3
<1>4. ASSUME ~torn, content["segments"] # << >>
      PROVE  \E s \in Seq(Segment) : content["segments"] = Text(s)' /\ known \subseteq Starts(s)'
  BY <1>1, <1>4 DEF SegmentsInv
<1> QED
  BY <1>2, <1>3, <1>4 DEF SegmentsInv

(* The segments are computed from all the marks that were acknowledged. *)
LEMMA SegmentsByCompute ==
  ASSUME StoreTypeOK, KeptInv, SegmentsInv, NEW p \in Process, ComputeSegments(p)
  PROVE  SegmentsInv'
<1>1. /\ UNCHANGED <<content, events, known, torn>> /\ (~disturbed' => ~disturbed)
      /\ \A q \in Process : q # p => job'[q] = job[q] /\ step'[q] = step[q]
      /\ step'[p] \in {"idle", "truncate"}
  BY DEF ComputeSegments, ReadMarks, Prepare, End, StoreTypeOK
<1>2. \A q \in Process : q # p /\ Computed(q)' => Computed(q) /\ job'[q] = job[q]
  BY <1>1 DEF Computed
<1>3. \A q \in Process : Rewriting(q)' => Rewriting(q)
  BY <1>1 DEF Rewriting
<1>4. CASE End(p)
  <2>1. ~Computed(p)'
    BY <1>4 DEF End, StoreTypeOK, Computed
  <2> QED
    BY <1>1, <1>2, <1>3, <2>1, SegmentsByOther
<1>5. CASE /\ ~Refused(content["marks"], job[p].at)
           /\ Prepare(p, Text(Segments(content["marks"], job[p].at)))
  <2>1. content["marks"] \in Seq(Nat) /\ job[p].at \in Nat /\ events \in Seq(Nat)
    BY DEF StoreTypeOK, Job
  <2>2. PICK s : s = Segments(content["marks"], job[p].at)
    OBVIOUS
  <2>3. Partition(s) /\ Elements(content["marks"]) \subseteq Starts(s) /\ s \in Seq(Segment)
    BY <1>5, <2>1, <2>2, SegmentsPartition, SegmentsType
  <2>4. ~disturbed' => acked \subseteq Elements(content["marks"])
    <3>1. ~disturbed' => ~disturbed /\ \A q \in Process : ~Updating(q)
      BY DEF ComputeSegments, ReadMarks
    <3>2. \A m \in acked : m \in Nat /\ Owed(m)
      BY DEF StoreTypeOK, Owed
    <3> QED
      BY <3>1, <3>2 DEF KeptInv, Holds
  <2>5. PICK text : text = Text(s)
    OBVIOUS
  <2>6. Prepare(p, text)
    BY <1>5, <2>2, <2>5
  <2>7. job'[p].lines = text /\ job'[p].known = acked
    <3>1. job'[p] = [job[p] EXCEPT !.lines = text, !.known = acked]
      BY <2>6 DEF Prepare, StoreTypeOK
    <3> QED
      BY <3>1 DEF StoreTypeOK, Job
  <2>8. \A r : /\ Partition(r) => Partition(r)'
               /\ Text(r)' = Text(r) /\ Starts(r)' = Starts(r)
    BY <1>1 DEF Partition, Text, TextLength, Starts
  <2>9. Follows(p, s)'
    BY <2>3, <2>4, <2>5, <2>7, <2>8 DEF Follows
  <2>10. \A q \in Process : Computed(q)' => \E r : Follows(q, r)'
    <3> SUFFICES ASSUME NEW q \in Process, Computed(q)', q # p
                 PROVE  \E r : Follows(q, r)'
      BY <2>9
    <3>1. PICK r : Follows(q, r)
      BY <1>2 DEF SegmentsInv
    <3>2. Follows(q, r)'
      BY <1>1, <2>8, <3>1 DEF Follows
    <3> QED
      BY <3>2
  <2>11. \A piece \in Elements(content'["segments"]) : Partition(piece.of)'
    BY <1>1, <2>8 DEF SegmentsInv
  <2>12. ASSUME ~torn, content["segments"] # << >>
         PROVE  \E r \in Seq(Segment) : content["segments"] = Text(r)' /\ known \subseteq Starts(r)'
    BY <2>8, <2>12 DEF SegmentsInv
  <2> QED
    BY <1>1, <1>3, <2>10, <2>11, <2>12 DEF SegmentsInv
<1> QED
  BY <1>4, <1>5 DEF ComputeSegments

(* The steps that write a file change no command's list, and no mark command
   changes segments.json. *)
LEMMA ListsStay ==
  ASSUME StoreTypeOK, SegmentsInv, NEW p \in Process, Truncate(p) \/ Protect(p) \/ Write(p)
  PROVE  /\ \A q \in Process : q # p => step'[q] = step[q]
         /\ \A q \in Process : Computed(q)' => Computed(q) /\ job'[q] = job[q]
         /\ \A q \in Process : Computed(q)' => \E s : Follows(q, s)'
         /\ \A s : /\ Partition(s) => Partition(s)'
                   /\ Text(s)' = Text(s) /\ Starts(s)' = Starts(s)
         /\ job[p].kind \in {"mark", "segment"} /\ job[p].file \in Files
         /\ job[p].kind = "mark" => job[p].file = "marks"
         /\ job[p].kind = "segment" => job[p].file = "segments"
<1>1. /\ UNCHANGED <<job, events, disturbed>>
      /\ \A q \in Process : q # p => step'[q] = step[q]
      /\ step[p] \in {"truncate", "protect", "write"}
      /\ step'[p] \in {"protect", "write", "confirm"}
  BY DEF Truncate, Protect, Write, StoreTypeOK
<1>2. \A q \in Process : Computed(q)' => Computed(q) /\ job'[q] = job[q]
  BY <1>1 DEF Computed
<1>3. \A s : /\ Partition(s) => Partition(s)'
             /\ Text(s)' = Text(s) /\ Starts(s)' = Starts(s)
  BY <1>1 DEF Partition, Text, TextLength, Starts
<1>4. ASSUME NEW q \in Process, Computed(q)'
      PROVE  \E s : Follows(q, s)'
  <2>1. PICK s : Follows(q, s)
    BY <1>2, <1>4 DEF SegmentsInv
  <2>2. Follows(q, s)'
    BY <1>1, <1>3, <2>1 DEF Follows
  <2> QED
    BY <2>2
<1>5. /\ job[p].kind \in {"mark", "segment"} /\ job[p].file \in Files
      /\ job[p].kind = "mark" => job[p].file = "marks"
      /\ job[p].kind = "segment" => job[p].file = "segments"
  BY <1>1 DEF StoreTypeOK, JobInv, Job
<1> QED
  BY <1>1, <1>2, <1>3, <1>4, <1>5

(* A segment command empties the file; if another one is writing it, it is torn
   from then on. *)
LEMMA SegmentsByTruncate ==
  ASSUME StoreTypeOK, SegmentsInv, NEW p \in Process, job[p].kind = "segment", Truncate(p)
  PROVE  SegmentsInv'
<1>1. content'["segments"] = << >>
  BY ListsStay DEF Truncate, StoreTypeOK
<1>2. ASSUME ~torn'
      PROVE  \A q \in Process : Rewriting(q)' => q = p
  <2>1. \A q \in Process \ {p} : ~Rewriting(q)
    BY <1>2, ListsStay DEF Truncate
  <2>2. \A q \in Process : q # p => step'[q] = step[q] /\ job'[q] = job[q]
    BY ListsStay DEF Truncate
  <2> QED
    BY <2>1, <2>2 DEF Rewriting
<1>3. Elements(content'["segments"]) = {}
  BY <1>1 DEF Elements
<1> QED
  BY <1>1, <1>2, <1>3, ListsStay DEF SegmentsInv

(* A segment command writes its text: over nothing, unless the file is torn. *)
LEMMA SegmentsByWrite ==
  ASSUME StoreTypeOK, SegmentsInv, NEW p \in Process, job[p].kind = "segment", Write(p)
  PROVE  SegmentsInv'
<1> DEFINE new == job[p].lines  old == content["segments"]
           rest == SubSeq(old, Len(new) + 1, Len(old))
<1>1. Computed(p) /\ Rewriting(p)
  BY DEF Write, Computed, Rewriting
<1>2. PICK s : Follows(p, s)
  BY <1>1 DEF SegmentsInv
<1>3. events \in Seq(Nat) /\ s \in Seq(Segment) /\ new = Text(s) /\ Partition(s)
  BY <1>2 DEF Follows, StoreTypeOK
<1>4. /\ new \in Seq(Piece) /\ new # << >>
      /\ \A piece \in Elements(new) : piece.of = s
  BY <1>3, TextType
<1>5. old \in Seq(Piece)
  BY DEF StoreTypeOK
<1>6. content'["segments"] = new \o rest
  BY ListsStay DEF Write, StoreTypeOK
<1>7. known' = IF ~disturbed THEN job[p].known ELSE {}
  BY ListsStay DEF Write
<1> HIDE DEF new, old
<1>8. rest \in Seq(Piece) /\ Elements(rest) \subseteq Elements(old)
  BY <1>4, <1>5, ElementsOfRest
<1> HIDE DEF rest
<1>9. Elements(new \o rest) \subseteq Elements(new) \cup Elements(old)
  BY <1>4, <1>8, ElementsOfConcat
<1>10. \A piece \in Elements(content'["segments"]) : Partition(piece.of)'
  <2>1. \A piece \in Elements(old) : Partition(piece.of)
    BY DEF SegmentsInv, old
  <2> QED
    BY <1>3, <1>4, <1>6, <1>9, <2>1, ListsStay
<1>11. ASSUME ~torn'
       PROVE  content'["segments"] = new
  <2>1. old = << >>
    BY <1>1, <1>11 DEF SegmentsInv, old, Write
  <2>2. rest = << >>
    BY <1>4, <2>1 DEF rest
  <2> QED
    BY <1>4, <1>6, <2>2
<1>12. ASSUME ~torn'
       PROVE  \A q \in Process : ~Rewriting(q)'
  <2>1. ~torn /\ step'[p] = "confirm"
    BY <1>12 DEF Write, StoreTypeOK
  <2>2. \A q \in Process : q # p => (Rewriting(q)' => Rewriting(q))
    BY ListsStay DEF Rewriting, Write
  <2>3. \A q \in Process : q # p => ~Rewriting(q)
    BY <1>1, <2>1 DEF SegmentsInv
  <2> QED
    BY <2>1, <2>2, <2>3 DEF Rewriting
<1>13. ASSUME ~torn'
       PROVE  \E r \in Seq(Segment) : content'["segments"] = Text(r)' /\ known' \subseteq Starts(r)'
  <2>1. content'["segments"] = Text(s)'
    BY <1>3, <1>11, <1>13, ListsStay
  <2>2. known' \subseteq Starts(s)'
    BY <1>2, <1>7, ListsStay DEF Follows
  <2> QED
    BY <1>3, <2>1, <2>2
<1> QED
  BY <1>10, <1>12, <1>13, ListsStay DEF SegmentsInv

(* The other steps that write leave segments.json alone. *)
LEMMA SegmentsByFile ==
  ASSUME StoreTypeOK, SegmentsInv, NEW p \in Process, Truncate(p) \/ Protect(p) \/ Write(p)
  PROVE  SegmentsInv'
<1>1. CASE job[p].kind = "mark" \/ Protect(p)
  <2>1. content'["segments"] = content["segments"]
    BY <1>1, ListsStay DEF Truncate, Protect, Write, StoreTypeOK, Files
  <2>2. UNCHANGED <<known, torn, events>> /\ disturbed' = disturbed /\ job' = job
    BY <1>1, ListsStay DEF Truncate, Protect, Write
  <2>3. \A q \in Process : Rewriting(q)' => Rewriting(q)
    <3>1. job[p].kind = "mark" \/ step[p] = "protect"
      BY <1>1 DEF Protect
    <3> QED
      BY <2>2, <3>1, ListsStay DEF Rewriting
  <2> QED
    BY <2>1, <2>2, <2>3, ListsStay, SegmentsByOther
<1>2. CASE job[p].kind = "segment" /\ ~Protect(p)
  BY <1>2, SegmentsByTruncate, SegmentsByWrite
<1> QED
  BY <1>1, <1>2, ListsStay

LEMMA SegmentsStep == StoreInv /\ [StoreNext]_storeVars => SegmentsInv'
<1> SUFFICES ASSUME StoreTypeOK, KeptInv, SegmentsInv, [StoreNext]_storeVars
             PROVE  SegmentsInv'
  BY DEF StoreInv
<1>1. ASSUME NEW p \in Process, NEW kind, NEW t, Command(p, kind, t)
      PROVE  SegmentsInv'
  <2>1. \A q \in Process : Computed(q)' => Computed(q) /\ job'[q] = job[q]
    BY <1>1 DEF Command, Computed, StoreTypeOK
  <2>2. \A q \in Process : Rewriting(q)' => Rewriting(q)
    BY <1>1 DEF Command, Rewriting, StoreTypeOK
  <2> QED
    BY <1>1, <2>1, <2>2, SegmentsByOther DEF Command
<1>2. ASSUME NEW p \in Process, End(p), UNCHANGED <<content, events, known, torn>>,
             ~disturbed' => ~disturbed
      PROVE  SegmentsInv'
  <2>1. \A q \in Process : Computed(q)' => Computed(q) /\ job'[q] = job[q]
    BY <1>2 DEF End, Computed, StoreTypeOK
  <2>2. \A q \in Process : Rewriting(q)' => Rewriting(q)
    BY <1>2 DEF End, Rewriting, StoreTypeOK
  <2> QED
    BY <1>2, <2>1, <2>2, SegmentsByOther
<1>3. ASSUME NEW p \in Process, ExtendMarks(p)
      PROVE  SegmentsInv'
  <2>1. CASE End(p)
    BY <1>2, <1>3, <2>1 DEF ExtendMarks, ReadMarks
  <2>2. CASE Prepare(p, Append(content["marks"], job[p].at))
    <3>1. job'[p].kind = "mark"
      BY <1>3, <2>2 DEF Prepare, ExtendMarks, StoreTypeOK, Job
    <3>2. \A q \in Process : Computed(q)' => Computed(q) /\ job'[q] = job[q]
      BY <2>2, <3>1 DEF Prepare, Computed, StoreTypeOK
    <3>3. \A q \in Process : Rewriting(q)' => Rewriting(q)
      BY <2>2, <3>1 DEF Prepare, Rewriting, StoreTypeOK
    <3> QED
      BY <1>3, <3>2, <3>3, SegmentsByOther DEF ExtendMarks, ReadMarks
  <2> QED
    BY <1>3, <2>1, <2>2 DEF ExtendMarks
<1>4. ASSUME NEW p \in Process, ComputeSegments(p)
      PROVE  SegmentsInv'
  BY <1>4, SegmentsByCompute
<1>5. ASSUME NEW p \in Process, Truncate(p) \/ Protect(p) \/ Write(p)
      PROVE  SegmentsInv'
  BY <1>5, SegmentsByFile
<1>6. ASSUME NEW p \in Process, Confirm(p) \/ Abandon(p)
      PROVE  SegmentsInv'
  <2>1. End(p) /\ UNCHANGED <<content, events, known, torn>>
    BY <1>6 DEF Confirm, Abandon
  <2>2. ~disturbed' => ~disturbed
    BY <1>6 DEF Confirm, Abandon
  <2> QED
    BY <1>2, <2>1, <2>2
<1>7. CASE UNCHANGED storeVars
  BY <1>7, SegmentsByOther DEF storeVars, Computed, Rewriting
<1> QED
  BY <1>1, <1>3, <1>4, <1>5, <1>6, <1>7 DEF StoreNext, StartMark, StartSegment

-----------------------------------------------------------------------------
LEMMA StoreInvariant == StoreSpec => []StoreInv
<1>1. StoreInv /\ [StoreNext]_storeVars => StoreInv'
  BY StoreTypeStep, PrivateStep, KeptStep, SegmentsStep DEF StoreInv
<1> QED
  BY <1>1, StoreInitInv, PTL DEF StoreSpec

(* Every variable of the run directory and its commands keeps its type. *)
THEOREM StoreTypeCorrect == StoreSpec => []StoreTypeOK
<1>1. StoreInv => StoreTypeOK
  BY DEF StoreInv
<1> QED
  BY <1>1, StoreInvariant, PTL

(* storage.py:150-172: nothing the tool writes is ever in a file that others can
   read, wherever a command fails or dies. *)
THEOREM ContentStaysPrivate == StoreSpec => []ContentIsPrivate
<1>1. StoreInv => ContentIsPrivate
  BY DEF StoreInv, PrivateInv
<1> QED
  BY <1>1, StoreInvariant, PTL

(* storage.py:104-108: commands that follow each other lose no mark, whatever
   they refuse and whatever other commands do to the segments. *)
THEOREM MarksAreKept == StoreSpec => []MarksKept
<1>1. StoreInv => MarksKept
  <2> SUFFICES ASSUME StoreTypeOK, KeptInv, ~disturbed, \A p \in Process : ~Updating(p),
                      NEW m \in acked \cup Elements(earlier["marks"])
               PROVE  m \in Elements(content["marks"])
    BY DEF StoreInv, MarksKept
  <2>1. m \in Nat
    BY DEF StoreTypeOK, Elements
  <2> QED
    BY <2>1 DEF KeptInv, Holds, Owed
<1> QED
  BY <1>1, StoreInvariant, PTL

(* storage.py:150-172, segmentation.py, cli.py: whatever is in segments.json is
   part of a list that holds each event from the first mark to the final end in
   the one segment of the last mark at or before it; unless segment commands
   overlapped it is the whole of one list, which starts at every mark that was
   acknowledged when it was computed, whatever else is rewritten, refused or cut
   off meanwhile. *)
THEOREM SegmentsFollow == StoreSpec => []SegmentsFollowMarks
<1>1. ASSUME StoreTypeOK, SegmentsInv
      PROVE  SegmentsFollowMarks
  <2>1. ASSUME ~torn, content["segments"] # << >>
        PROVE  /\ content["segments"] = Text(content["segments"][1].of)
               /\ known \subseteq Starts(content["segments"][1].of)
    <3>1. PICK s \in Seq(Segment) : content["segments"] = Text(s) /\ known \subseteq Starts(s)
      BY <1>1, <2>1 DEF SegmentsInv
    <3>2. events \in Seq(Nat)
      BY <1>1 DEF StoreTypeOK
    <3>3. Text(s)[1].of = s
      BY <3>1, <3>2, TextType
    <3> QED
      BY <3>1, <3>3
  <2> QED
    BY <1>1, <2>1 DEF SegmentsInv, SegmentsFollowMarks
<1>2. StoreInv => SegmentsFollowMarks
  BY <1>1 DEF StoreInv
<1> QED
  BY <1>2, StoreInvariant, PTL
=============================================================================
