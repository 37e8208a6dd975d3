----------------------------- MODULE ImportProofs -----------------------------
(***************************************************************************)
(* Theorems about HciImport and ImportCommand, for any handles, peers and  *)
(* directions and any number of connections, messages and losses.          *)
(***************************************************************************)
EXTENDS ImportCommand, FiniteSetTheorems, SequenceTheorems, TLAPS

(* A message that is under way belongs to the connection of its handle. *)
FlowInv ==
  \A h \in Handles, d \in Dirs :
    flow[h][d].left > 0 => /\ link[h] # 0
                           /\ flow[h][d].msg \in 1..sent
                           /\ msgConn[flow[h][d].msg] = link[h]

LinkInv == \A g, h \in Handles : link[g] # 0 /\ link[g] = link[h] => g = h

EventType(n) ==
  [handle : Handles, direction : Dirs, epoch : 1..n, peer : Peers \cup {"none"},
   conn : Conns, data : Seq(Messages)]
RecordType(n) ==
  [connected : BOOLEAN, handle : Handles, conn : Conns, epoch : 0..n,
   peer : Peers \cup {"none"}]

(* The type invariant in the two parts its steps disturb apart. *)
WorldTypeOK ==
  /\ link \in [Handles -> 0..conns] /\ conns \in 0..MaxConns
  /\ peerOf \in [Conns -> Peers]
  /\ sent \in 0..MaxMessages
  /\ msgConn \in [Messages -> 0..MaxConns] /\ msgUnits \in [Messages -> 0..MaxUnits]
  /\ other \subseteq Messages
  /\ flow \in [Handles -> [Dirs -> [msg : 0..MaxMessages, left : 0..MaxUnits]]]
  /\ delivered \in Seq(Messages)
  /\ missable \in LossModes /\ missed \in 0..MaxMissed /\ strict \in BOOLEAN

ImportTypeOK ==
  /\ phase \in {"reading", "imported", "failed"}
  /\ active \in [Handles -> [epoch : 0..nextEpoch, peer : Peers \cup {"none"}]]
  /\ fragments \in [Handles -> [epoch : 0..nextEpoch, need : 0..MaxUnits, data : Seq(Messages)]]
  /\ nextEpoch \in Nat
  /\ events \in Seq(EventType(nextEpoch))
  /\ connections \in Seq(RecordType(nextEpoch))

(* TypeOK is the conjunction of its two parts. *)
LEMMA TypeParts == TypeOK <=> WorldTypeOK /\ ImportTypeOK
BY DEF TypeOK, WorldTypeOK, ImportTypeOK, EventType, RecordType

-----------------------------------------------------------------------------
(* Steps of Next by what happens to their packet. *)

Lost == UNCHANGED <<strict, active, fragments, nextEpoch, events, connections>>
        /\ phase' \in {phase, "failed"}

(* A packet that is lost or cut short leaves the importer as it is, or is
   refused. *)
LEMMA MissedIsLost ==
  ASSUME NEW kind, Missed(kind)
  PROVE  Lost /\ kind \in missable /\ missed < MaxMissed /\ missed' = missed + 1
BY DEF Missed, Spoilt, ImportCut, Lost, import

(* A start packet with half a header may open an epoch, and no more. *)
LEMMA HalfHeader ==
  ASSUME NEW h, NEW kind, Spoilt(kind), ImportHalfHeader(h)
  PROVE  /\ EnsureActive(h) /\ phase' \in {phase, "failed"}
         /\ UNCHANGED <<strict, fragments, events, connections>>
         /\ missed < MaxMissed /\ missed' = missed + 1
BY DEF Spoilt, ImportHalfHeader

(* The controller keeps its types. *)
LEMMA WorldTypeStep == WorldTypeOK /\ FlowInv /\ [Next]_vars => WorldTypeOK'
<1> SUFFICES ASSUME WorldTypeOK, FlowInv, [Next]_vars
             PROVE  WorldTypeOK'
  OBVIOUS
<1> USE ImportAssumption
<1>1. ASSUME NEW h \in Handles, Open(h)
      PROVE  WorldTypeOK'
  <2>1. conns' \in 0..MaxConns /\ link' \in [Handles -> 0..conns']
    BY <1>1 DEF Open, WorldTypeOK
  <2>2. strict' = strict /\ missed' \in 0..MaxMissed
    BY <1>1, MissedIsLost DEF Open, WorldTypeOK, ImportConnect, Lost
  <2> QED
    BY <1>1, <2>1, <2>2 DEF Open, WorldTypeOK
<1>2. ASSUME NEW h \in Handles, Close(h)
      PROVE  WorldTypeOK'
  <2>1. link' \in [Handles -> 0..conns]
    BY <1>2 DEF Close, WorldTypeOK
  <2>2. [d \in Dirs |-> Idle] \in [Dirs -> [msg : 0..MaxMessages, left : 0..MaxUnits]]
    BY DEF Idle
  <2>3. strict' = strict /\ missed' \in 0..MaxMissed
    BY <1>2, MissedIsLost DEF Close, WorldTypeOK, ImportDisconnect, Lost
  <2> QED
    BY <1>2, <2>1, <2>2, <2>3 DEF Close, WorldTypeOK
<1>3. ASSUME NEW h \in Handles, NEW d \in Dirs, NEW units \in 1..MaxUnits, Begin(h, d, units)
      PROVE  WorldTypeOK'
  <2>1. sent' \in Messages /\ sent' \in 0..MaxMessages
    BY <1>3 DEF Begin, WorldTypeOK, Messages
  <2>2. msgConn' \in [Messages -> 0..MaxConns] /\ msgUnits' \in [Messages -> 0..MaxUnits]
    BY <1>3, <2>1 DEF Begin, WorldTypeOK
  <2>3. flow' \in [Handles -> [Dirs -> [msg : 0..MaxMessages, left : 0..MaxUnits]]]
    <3>1. [msg |-> sent', left |-> units - 1] \in [msg : 0..MaxMessages, left : 0..MaxUnits]
      BY <2>1
    <3> QED
      BY <1>3, <3>1 DEF Begin, WorldTypeOK
  <2>4. delivered' \in Seq(Messages) /\ other' \subseteq Messages
    <3>1. other' \subseteq Messages
      BY <1>3, <2>1 DEF Begin, WorldTypeOK
    <3>2. delivered' = delivered \/ delivered' = Append(delivered, sent')
      BY <1>3 DEF Begin, Deliver
    <3>3. delivered \in Seq(Messages)
      BY DEF WorldTypeOK
    <3> QED
      BY <2>1, <3>1, <3>2, <3>3
  <2>5. strict' = strict /\ missed' \in 0..MaxMissed
    BY <1>3, MissedIsLost, HalfHeader DEF Begin, WorldTypeOK, ImportStart, Lost
  <2> QED
    BY <1>3, <2>1, <2>2, <2>3, <2>4, <2>5 DEF Begin, WorldTypeOK
<1>4. ASSUME NEW h \in Handles, NEW d \in Dirs, Continue(h, d)
      PROVE  WorldTypeOK'
  <2>1. flow[h][d].msg \in Messages
    BY <1>4 DEF Continue, FlowInv, WorldTypeOK, Messages
  <2>2. flow' \in [Handles -> [Dirs -> [msg : 0..MaxMessages, left : 0..MaxUnits]]]
    <3>1. flow[h][d].left - 1 \in 0..MaxUnits
      BY <1>4 DEF Continue, WorldTypeOK
    <3>0. flow[h][d] \in [msg : 0..MaxMessages, left : 0..MaxUnits]
      BY DEF WorldTypeOK
    <3>2. [flow[h][d] EXCEPT !.left = @ - 1] \in [msg : 0..MaxMessages, left : 0..MaxUnits]
      BY <3>0, <3>1
    <3>3. flow' = [flow EXCEPT ![h] = [flow[h] EXCEPT ![d] = [flow[h][d] EXCEPT !.left = @ - 1]]]
      BY <1>4 DEF Continue
    <3>4. [flow[h] EXCEPT ![d] = [flow[h][d] EXCEPT !.left = @ - 1]]
            \in [Dirs -> [msg : 0..MaxMessages, left : 0..MaxUnits]]
      BY <3>2 DEF WorldTypeOK
    <3> QED
      BY <3>3, <3>4 DEF WorldTypeOK
  <2>3. delivered' \in Seq(Messages)
    <3>1. delivered' = delivered \/ delivered' = Append(delivered, flow[h][d].msg)
      BY <1>4 DEF Continue, Deliver
    <3>2. delivered \in Seq(Messages)
      BY DEF WorldTypeOK
    <3> QED
      BY <2>1, <3>1, <3>2
  <2>4. strict' = strict /\ missed' \in 0..MaxMissed
    BY <1>4, MissedIsLost DEF Continue, WorldTypeOK, ImportContinuation, Lost
  <2> QED
    BY <1>4, <2>2, <2>3, <2>4 DEF Continue, WorldTypeOK
<1>5. CASE Finish
  BY <1>5 DEF Finish, WorldTypeOK, world
<1>6. CASE UNCHANGED vars
  BY <1>6 DEF vars, WorldTypeOK, world, import
<1> QED
  BY <1>1, <1>2, <1>3, <1>4, <1>5, <1>6 DEF Next

(* A message that is begun is one of the connection its handle has. *)
LEMMA FlowStep == WorldTypeOK /\ FlowInv /\ [Next]_vars => FlowInv'
<1> SUFFICES ASSUME WorldTypeOK, FlowInv, [Next]_vars,
                    NEW g \in Handles, NEW e \in Dirs, flow'[g][e].left > 0
             PROVE  /\ link'[g] # 0
                    /\ flow'[g][e].msg \in 1..sent'
                    /\ msgConn'[flow'[g][e].msg] = link'[g]
  BY DEF FlowInv
<1> USE ImportAssumption
<1>1. ASSUME NEW h \in Handles, Open(h)
      PROVE  /\ link'[g] # 0
             /\ flow'[g][e].msg \in 1..sent'
             /\ msgConn'[flow'[g][e].msg] = link'[g]
  BY <1>1 DEF Open, WorldTypeOK, FlowInv
<1>2. ASSUME NEW h \in Handles, Close(h)
      PROVE  /\ link'[g] # 0
             /\ flow'[g][e].msg \in 1..sent'
             /\ msgConn'[flow'[g][e].msg] = link'[g]
  BY <1>2 DEF Close, WorldTypeOK, FlowInv, Idle
<1>3. ASSUME NEW h \in Handles, NEW d \in Dirs, NEW units \in 1..MaxUnits, Begin(h, d, units)
      PROVE  /\ link'[g] # 0
             /\ flow'[g][e].msg \in 1..sent'
             /\ msgConn'[flow'[g][e].msg] = link'[g]
  <2>1. sent' = sent + 1 /\ sent' \in Messages /\ link' = link /\ link[h] # 0
    BY <1>3 DEF Begin, WorldTypeOK, Messages
  <2>2. CASE g = h /\ e = d
    BY <1>3, <2>1, <2>2 DEF Begin, WorldTypeOK
  <2>3. CASE ~(g = h /\ e = d)
    <3>1. flow'[g][e] = flow[g][e]
      BY <1>3, <2>3 DEF Begin, WorldTypeOK
    <3>2. flow[g][e].msg \in 1..sent /\ sent \in Nat
      BY <3>1 DEF FlowInv, WorldTypeOK
    <3>3. msgConn'[flow[g][e].msg] = msgConn[flow[g][e].msg]
      BY <1>3, <2>1, <3>2 DEF Begin, WorldTypeOK, Messages
    <3> QED
      BY <2>1, <3>1, <3>2, <3>3 DEF FlowInv
  <2> QED
    BY <2>2, <2>3
<1>4. ASSUME NEW h \in Handles, NEW d \in Dirs, Continue(h, d)
      PROVE  /\ link'[g] # 0
             /\ flow'[g][e].msg \in 1..sent'
             /\ msgConn'[flow'[g][e].msg] = link'[g]
  <2>1. flow'[g][e].msg = flow[g][e].msg /\ flow[g][e].left > 0
    BY <1>4 DEF Continue, WorldTypeOK
  <2> QED
    BY <1>4, <2>1 DEF Continue, FlowInv
<1>5. CASE Finish
  BY <1>5 DEF Finish, FlowInv, world
<1>6. CASE UNCHANGED vars
  BY <1>6 DEF vars, FlowInv, world
<1> QED
  BY <1>1, <1>2, <1>3, <1>4, <1>5, <1>6 DEF Next

-----------------------------------------------------------------------------
(* The epoch traffic on a handle is recorded under. *)
LEMMA ConnectionType ==
  ASSUME ImportTypeOK, NEW h \in Handles, EnsureActive(h)
  PROVE  /\ nextEpoch' \in Nat /\ nextEpoch <= nextEpoch'
         /\ ConnectionOf(h) \in [epoch : 1..nextEpoch', peer : Peers \cup {"none"}]
         /\ active' \in [Handles -> [epoch : 0..nextEpoch', peer : Peers \cup {"none"}]]
         /\ active' = [active EXCEPT ![h] = ConnectionOf(h)]
<1>1. nextEpoch' \in Nat /\ nextEpoch <= nextEpoch'
  BY DEF EnsureActive, ImportTypeOK
<1>2. active[h] \in [epoch : 0..nextEpoch, peer : Peers \cup {"none"}]
  BY DEF ImportTypeOK
<1>3. ConnectionOf(h) \in [epoch : 1..nextEpoch', peer : Peers \cup {"none"}]
  BY <1>1, <1>2 DEF EnsureActive, ConnectionOf, ImportTypeOK
<1>4. active' = [active EXCEPT ![h] = ConnectionOf(h)]
  BY DEF EnsureActive
<1>5. \A g \in Handles : active'[g] \in [epoch : 0..nextEpoch', peer : Peers \cup {"none"}]
  BY <1>1, <1>3, <1>4 DEF ImportTypeOK
<1> QED
  BY <1>1, <1>3, <1>4, <1>5 DEF ImportTypeOK

(* A later epoch leaves what is recorded well typed. *)
LEMMA TypesGrow ==
  ASSUME ImportTypeOK, nextEpoch' \in Nat, nextEpoch <= nextEpoch'
  PROVE  /\ events \in Seq(EventType(nextEpoch'))
         /\ connections \in Seq(RecordType(nextEpoch'))
         /\ fragments \in [Handles -> [epoch : 0..nextEpoch', need : 0..MaxUnits, data : Seq(Messages)]]
<1>0. nextEpoch \in Nat /\ 0..nextEpoch \subseteq 0..nextEpoch' /\ 1..nextEpoch \subseteq 1..nextEpoch'
  BY DEF ImportTypeOK
<1>1. EventType(nextEpoch) \subseteq EventType(nextEpoch')
  BY <1>0 DEF EventType
<1>2. RecordType(nextEpoch) \subseteq RecordType(nextEpoch')
  BY <1>0 DEF RecordType
<1>3. events \in Seq(EventType(nextEpoch')) /\ connections \in Seq(RecordType(nextEpoch'))
  BY <1>1, <1>2, SeqMonotonic DEF ImportTypeOK
<1>4. fragments \in [Handles -> [epoch : 0..nextEpoch', need : 0..MaxUnits, data : Seq(Messages)]]
  BY <1>0 DEF ImportTypeOK
<1> QED
  BY <1>3, <1>4

(* What is recorded is an event. *)
LEMMA RecordKeepsType ==
  ASSUME WorldTypeOK, ImportTypeOK, NEW h \in Handles, NEW d \in Dirs, EnsureActive(h),
         link[h] # 0, NEW data \in Seq(Messages), Record(h, d, data)
  PROVE  events' \in Seq(EventType(nextEpoch'))
<1>1. nextEpoch' \in Nat /\ nextEpoch <= nextEpoch'
      /\ ConnectionOf(h) \in [epoch : 1..nextEpoch', peer : Peers \cup {"none"}]
  BY ConnectionType
<1>2. events \in Seq(EventType(nextEpoch'))
  BY <1>1, TypesGrow
<1>3. link[h] \in Conns
  BY ImportAssumption DEF WorldTypeOK, Conns
<1> DEFINE e == [handle |-> h, direction |-> d, epoch |-> ConnectionOf(h).epoch,
                 peer |-> ConnectionOf(h).peer, conn |-> link[h], data |-> data]
<1>4. e \in EventType(nextEpoch')
  BY <1>1, <1>3 DEF EventType
<1>5. events' = events \/ events' = Append(events, e)
  BY DEF Record
<1> QED
  BY <1>2, <1>4, <1>5

(* The importer keeps the types of its tables and of what it has written. *)
LEMMA ImportTypeStep ==
  WorldTypeOK /\ WorldTypeOK' /\ FlowInv /\ ImportTypeOK /\ [Next]_vars => ImportTypeOK'
<1> SUFFICES ASSUME WorldTypeOK, WorldTypeOK', FlowInv, ImportTypeOK, [Next]_vars
             PROVE  ImportTypeOK'
  OBVIOUS
<1> USE ImportAssumption
<1>0. ASSUME Lost
      PROVE  ImportTypeOK'
  BY <1>0 DEF Lost, ImportTypeOK
<1>f. NoFragment \in [epoch : 0..0, need : 0..MaxUnits, data : Seq(Messages)]
  BY DEF NoFragment
<1>1. ASSUME NEW h \in Handles, Open(h), ImportConnect(h, conns')
      PROVE  ImportTypeOK'
  <2>1. conns' \in Conns /\ peerOf[conns'] \in Peers
    BY <1>1 DEF Open, WorldTypeOK, Conns
  <2>2. nextEpoch' \in Nat /\ nextEpoch <= nextEpoch' /\ nextEpoch' \in 0..nextEpoch'
    BY <1>1 DEF ImportConnect, ImportTypeOK
  <2>3. connections' \in Seq(RecordType(nextEpoch'))
    <3>1. [connected |-> TRUE, handle |-> h, conn |-> conns', epoch |-> nextEpoch',
           peer |-> peerOf[conns']] \in RecordType(nextEpoch')
      BY <2>1, <2>2 DEF RecordType
    <3> QED
      BY <1>1, <2>2, <3>1, TypesGrow DEF ImportConnect
  <2>4. active' \in [Handles -> [epoch : 0..nextEpoch', peer : Peers \cup {"none"}]]
    <3>1. [epoch |-> nextEpoch', peer |-> peerOf[conns']] \in
            [epoch : 0..nextEpoch', peer : Peers \cup {"none"}]
      BY <2>1, <2>2
    <3>2. active \in [Handles -> [epoch : 0..nextEpoch', peer : Peers \cup {"none"}]]
      BY <2>2 DEF ImportTypeOK
    <3> QED
      BY <1>1, <3>1, <3>2 DEF ImportConnect
  <2>5. fragments' \in [Handles -> [epoch : 0..nextEpoch', need : 0..MaxUnits, data : Seq(Messages)]]
    BY <1>1, <1>f, <2>2, TypesGrow DEF ImportConnect
  <2>6. events' \in Seq(EventType(nextEpoch')) /\ phase' = phase
    BY <1>1, <2>2, TypesGrow DEF ImportConnect
  <2> QED
    BY <2>2, <2>3, <2>4, <2>5, <2>6 DEF ImportTypeOK
<1>2. ASSUME NEW h \in Handles, Close(h), ImportDisconnect(h, link[h])
      PROVE  ImportTypeOK'
  <2>1. link[h] \in Conns
    BY <1>2 DEF Close, WorldTypeOK, Conns
  <2>2. [connected |-> FALSE, handle |-> h, conn |-> link[h], epoch |-> active[h].epoch,
         peer |-> active[h].peer] \in RecordType(nextEpoch)
    BY <2>1 DEF RecordType, ImportTypeOK
  <2>3. connections' \in Seq(RecordType(nextEpoch))
    BY <1>2, <2>2 DEF ImportDisconnect, ImportTypeOK
  <2>4. NoConnection \in [epoch : 0..nextEpoch, peer : Peers \cup {"none"}]
    BY DEF NoConnection, ImportTypeOK
  <2>5. active' \in [Handles -> [epoch : 0..nextEpoch, peer : Peers \cup {"none"}]]
    BY <1>2, <2>4 DEF ImportDisconnect, ImportTypeOK
  <2>6. fragments' \in [Handles -> [epoch : 0..nextEpoch, need : 0..MaxUnits, data : Seq(Messages)]]
    BY <1>2, <1>f DEF ImportDisconnect, ImportTypeOK
  <2> QED
    BY <1>2, <2>3, <2>5, <2>6 DEF ImportDisconnect, ImportTypeOK
<1>3. ASSUME NEW h \in Handles, NEW d \in Dirs, NEW units \in 1..MaxUnits, Begin(h, d, units),
             ImportStart(h, d, sent', units)
      PROVE  ImportTypeOK'
  <2>1. sent' \in Messages /\ link[h] # 0
    BY <1>3 DEF Begin, WorldTypeOK, Messages
  <2>2. EnsureActive(h) /\ phase' = phase /\ connections' = connections
    BY <1>3 DEF ImportStart
  <2>3. /\ nextEpoch' \in Nat /\ nextEpoch <= nextEpoch'
        /\ ConnectionOf(h) \in [epoch : 1..nextEpoch', peer : Peers \cup {"none"}]
        /\ active' \in [Handles -> [epoch : 0..nextEpoch', peer : Peers \cup {"none"}]]
    BY <2>2, ConnectionType
  <2>4. events' \in Seq(EventType(nextEpoch'))
    <3>1. CASE units = 1
      <4>1. Record(h, d, <<sent'>>) /\ <<sent'>> \in Seq(Messages)
        BY <1>3, <2>1, <3>1 DEF ImportStart
      <4> QED
        BY <2>1, <2>2, <4>1, RecordKeepsType
    <3>2. CASE units # 1
      BY <1>3, <2>3, <3>2, TypesGrow DEF ImportStart
    <3> QED
      BY <3>1, <3>2
  <2>5. fragments' \in [Handles -> [epoch : 0..nextEpoch', need : 0..MaxUnits, data : Seq(Messages)]]
    <3>1. [epoch |-> ConnectionOf(h).epoch, need |-> units, data |-> <<sent'>>]
            \in [epoch : 0..nextEpoch', need : 0..MaxUnits, data : Seq(Messages)]
      BY <2>1, <2>3
    <3>2. fragments \in [Handles -> [epoch : 0..nextEpoch', need : 0..MaxUnits, data : Seq(Messages)]]
      BY <2>3, TypesGrow
    <3> QED
      BY <1>3, <3>1, <3>2 DEF ImportStart
  <2> QED
    BY <2>2, <2>3, <2>4, <2>5, TypesGrow DEF ImportTypeOK
<1>4. ASSUME NEW h \in Handles, NEW d \in Dirs, Continue(h, d),
             ImportContinuation(h, d, flow[h][d].msg)
      PROVE  ImportTypeOK'
  <2> DEFINE data == Append(fragments[h].data, flow[h][d].msg)
  <2>1. flow[h][d].msg \in Messages /\ link[h] # 0
    BY <1>4 DEF Continue, FlowInv, WorldTypeOK, Messages
  <2>2. EnsureActive(h) /\ phase' \in {phase, "failed"} /\ connections' = connections
    BY <1>4 DEF ImportContinuation
  <2>3. /\ nextEpoch' \in Nat /\ nextEpoch <= nextEpoch'
        /\ active' \in [Handles -> [epoch : 0..nextEpoch', peer : Peers \cup {"none"}]]
    BY <2>2, ConnectionType
  <2>4. data \in Seq(Messages) /\ fragments[h].need \in 0..MaxUnits
    BY <2>1 DEF ImportTypeOK
  <2> HIDE DEF data
  <2>5. /\ events' \in Seq(EventType(nextEpoch'))
        /\ fragments' \in [Handles -> [epoch : 0..nextEpoch', need : 0..MaxUnits, data : Seq(Messages)]]
    <3>1. CASE UNCHANGED <<fragments, events>>
      BY <2>3, <3>1, TypesGrow
    <3>2. CASE fragments' = [fragments EXCEPT ![h].data = data] /\ UNCHANGED events
      <4>1. /\ events \in Seq(EventType(nextEpoch'))
            /\ fragments \in [Handles -> [epoch : 0..nextEpoch', need : 0..MaxUnits, data : Seq(Messages)]]
        BY <2>3, TypesGrow
      <4>2. [fragments[h] EXCEPT !.data = data] \in
              [epoch : 0..nextEpoch', need : 0..MaxUnits, data : Seq(Messages)]
        BY <2>4, <4>1
      <4>3. fragments' = [fragments EXCEPT ![h] = [fragments[h] EXCEPT !.data = data]]
        BY <3>2
      <4> QED
        BY <3>2, <4>1, <4>2, <4>3
    <3>3. CASE /\ ~Incomplete(data, fragments[h].need)
               /\ fragments' = [fragments EXCEPT ![h] = NoFragment]
               /\ Record(h, d, SubSeq(data, 1, fragments[h].need))
      <4>1. SubSeq(data, 1, fragments[h].need) \in Seq(Messages)
        BY <2>4, <3>3 DEF Incomplete
      <4> DEFINE whole == SubSeq(data, 1, fragments[h].need)
      <4> HIDE DEF whole
      <4>2. whole \in Seq(Messages) /\ Record(h, d, whole)
        BY <3>3, <4>1 DEF whole
      <4>3. events' \in Seq(EventType(nextEpoch'))
        BY <2>1, <2>2, <4>2, RecordKeepsType
      <4> QED
        BY <1>f, <2>3, <3>3, <4>3, TypesGrow
    <3> QED
      BY <1>4, <3>1, <3>2, <3>3 DEF ImportContinuation, data
  <2> QED
    BY <2>2, <2>3, <2>5, TypesGrow DEF ImportTypeOK
<1>5. CASE Finish
  BY <1>5 DEF Finish, ImportTypeOK
<1>6. CASE UNCHANGED vars
  BY <1>6 DEF vars, ImportTypeOK, import
<1>7. ASSUME NEW h \in Handles, NEW d \in Dirs, NEW units \in 1..MaxUnits, Begin(h, d, units),
             Spoilt("acl"), ImportHalfHeader(h)
      PROVE  ImportTypeOK'
  <2>1. /\ EnsureActive(h) /\ phase' \in {phase, "failed"}
        /\ UNCHANGED <<fragments, events, connections>>
    BY <1>7, HalfHeader
  <2>2. link[h] # 0
    BY <1>7 DEF Begin
  <2>3. /\ nextEpoch' \in Nat /\ nextEpoch <= nextEpoch'
        /\ active' \in [Handles -> [epoch : 0..nextEpoch', peer : Peers \cup {"none"}]]
    BY <2>1, <2>2, ConnectionType
  <2> QED
    BY <2>1, <2>3, TypesGrow DEF ImportTypeOK
<1> QED
  BY <1>0, <1>1, <1>2, <1>3, <1>4, <1>5, <1>6, <1>7, MissedIsLost
     DEF Next, Open, Close, Begin, Continue

TypeInv == WorldTypeOK /\ ImportTypeOK /\ FlowInv /\ LinkInv

(* The initial state, links that were open before the capture included. *)
LEMMA TypeInvInit == Init => TypeInv
<1> SUFFICES ASSUME Init
             PROVE  TypeInv
  OBVIOUS
<1> USE ImportAssumption
<1>1. link \in [Handles -> 0..conns]
  BY DEF Init
<1>2. Idle \in [msg : 0..MaxMessages, left : 0..MaxUnits]
  BY DEF Idle
<1>3. WorldTypeOK
  BY <1>1, <1>2 DEF Init, WorldTypeOK, Messages
<1>4. NoFragment \in [epoch : 0..0, need : 0..MaxUnits, data : Seq(Messages)]
  BY DEF NoFragment
<1>5. ImportTypeOK
  BY <1>4 DEF Init, ImportTypeOK, NoConnection
<1>6. FlowInv
  BY DEF Init, FlowInv, Idle
<1>7. LinkInv
  <2> SUFFICES ASSUME NEW g \in Handles, NEW h \in Handles, link[g] # 0, link[g] = link[h]
               PROVE  g = h
    BY DEF LinkInv
  <2>1. link[g] \in 1..conns
    BY <1>1 DEF Init
  <2>2. \E k \in Handles : link[k] = link[g] /\ \A i \in Handles \ {k} : link[i] # link[g]
    BY <2>1 DEF Init
  <2> QED
    BY <2>2
<1> QED
  BY <1>3, <1>5, <1>6, <1>7 DEF TypeInv

(* A connection that opens is new, so it is on one handle only. *)
LEMMA LinkStep == WorldTypeOK /\ LinkInv /\ [Next]_vars => LinkInv'
<1> SUFFICES ASSUME WorldTypeOK, LinkInv, [Next]_vars
             PROVE  LinkInv'
  OBVIOUS
<1>1. ASSUME NEW h \in Handles, Open(h)
      PROVE  LinkInv'
  <2>1. \A g \in Handles : link[g] <= conns
    BY ImportAssumption DEF WorldTypeOK
  <2>2. link' = [link EXCEPT ![h] = conns + 1] /\ conns \in Nat
    BY <1>1, ImportAssumption DEF Open, WorldTypeOK
  <2> QED
    BY <2>1, <2>2, ImportAssumption DEF LinkInv, WorldTypeOK
<1>2. ASSUME NEW h \in Handles, Close(h)
      PROVE  LinkInv'
  BY <1>2 DEF Close, LinkInv, WorldTypeOK
<1>3. CASE UNCHANGED link
  BY <1>3 DEF LinkInv
<1> QED
  BY <1>1, <1>2, <1>3 DEF Next, Begin, Continue, Finish, vars, world

(* The invariant of the types is inductive. *)
LEMMA TypeInvStep == TypeInv /\ [Next]_vars => TypeInv'
BY WorldTypeStep, FlowStep, ImportTypeStep, LinkStep DEF TypeInv

(* It holds throughout. *)
LEMMA TypeInvHolds == Spec => []TypeInv
BY TypeInvInit, TypeInvStep, PTL DEF Spec

(* Every variable of the links and of the importer keeps its type; a record
   of an event never has a handle that is closed (capture.py:110-184,
   445-476). *)
THEOREM ImportTypeCorrect == Spec => []TypeOK
<1>1. TypeInv => TypeOK
  BY TypeParts DEF TypeInv
<1> QED
  BY <1>1, TypeInvHolds, PTL

-----------------------------------------------------------------------------
(* Epochs and their records. *)

(* Two handles are never active under one epoch; a pending fragment is one of
   the active epoch of its handle. *)
ActiveInv ==
  \A g, h \in Handles : active[g].epoch # 0 /\ active[g].epoch = active[h].epoch => g = h
FragmentInv == \A h \in Handles : fragments[h].epoch \in {0, active[h].epoch}

(* An epoch that is still active has no record but that of its connection. *)
LifeInv ==
  \A i \in 1..Len(connections), h \in Handles :
    connections[i].epoch # 0 /\ active[h].epoch = connections[i].epoch =>
      /\ connections[i].connected
      /\ connections[i].handle = h /\ connections[i].peer = active[h].peer

EpochInv == ActiveInv /\ FragmentInv /\ LifeInv /\ EpochHasOneLife

(* The records after one more was written. *)
LEMMA RecordAppended ==
  ASSUME ImportTypeOK, NEW r, connections' = Append(connections, r)
  PROVE  /\ Len(connections) \in Nat /\ Len(connections') = Len(connections) + 1
         /\ connections'[Len(connections')] = r
         /\ \A i \in 1..Len(connections) : connections'[i] = connections[i]
                                           /\ connections[i].epoch \in 0..nextEpoch
<1>1. Len(connections) \in Nat /\ \A i \in 1..Len(connections) : connections[i] \in RecordType(nextEpoch)
  BY DEF ImportTypeOK
<1> QED
  BY <1>1 DEF RecordType, ImportTypeOK

(* A connection takes an epoch that no record and no handle has. *)
LEMMA ConnectKeepsEpochs ==
  ASSUME TypeInv, EpochInv, NEW h \in Handles, NEW c, ImportConnect(h, c)
  PROVE  EpochInv'
<1> DEFINE n == Len(connections)
<1>1. /\ n \in Nat /\ Len(connections') = n + 1
      /\ connections'[n + 1] = [connected |-> TRUE, handle |-> h, conn |-> c,
                                epoch |-> nextEpoch + 1, peer |-> peerOf[c]]
      /\ \A i \in 1..n : connections'[i] = connections[i] /\ connections[i].epoch \in 0..nextEpoch
  BY RecordAppended DEF ImportConnect, TypeInv
<1>2. nextEpoch \in Nat /\ \A g \in Handles : active[g].epoch \in 0..nextEpoch
  BY DEF TypeInv, ImportTypeOK
<1>3. active' = [active EXCEPT ![h] = [epoch |-> nextEpoch + 1, peer |-> peerOf[c]]]
      /\ fragments' = [fragments EXCEPT ![h] = NoFragment]
  BY DEF ImportConnect
<1>4. /\ active'[h] = [epoch |-> nextEpoch + 1, peer |-> peerOf[c]]
      /\ fragments'[h] = NoFragment
      /\ \A g \in Handles \ {h} : active'[g] = active[g] /\ fragments'[g] = fragments[g]
  BY <1>3 DEF TypeInv, ImportTypeOK
<1> HIDE DEF n
<1>5. ActiveInv'
  BY <1>2, <1>4 DEF EpochInv, ActiveInv
<1>6. FragmentInv'
  BY <1>4 DEF EpochInv, FragmentInv, NoFragment
<1>7. LifeInv'
  BY <1>1, <1>2, <1>4 DEF EpochInv, LifeInv, n
<1>8. EpochHasOneLife'
  BY <1>1, <1>2 DEF EpochInv, EpochHasOneLife, n
<1> QED
  BY <1>5, <1>6, <1>7, <1>8 DEF EpochInv

(* A disconnection ends the one epoch of its handle. *)
LEMMA DisconnectKeepsEpochs ==
  ASSUME TypeInv, EpochInv, NEW h \in Handles, NEW c, ImportDisconnect(h, c)
  PROVE  EpochInv'
<1> DEFINE n == Len(connections)
<1>1. /\ n \in Nat /\ Len(connections') = n + 1
      /\ connections'[n + 1] = [connected |-> FALSE, handle |-> h, conn |-> c,
                                epoch |-> active[h].epoch, peer |-> active[h].peer]
      /\ \A i \in 1..n : connections'[i] = connections[i]
  BY RecordAppended DEF ImportDisconnect, TypeInv
<1>3. active' = [active EXCEPT ![h] = NoConnection]
      /\ fragments' = [fragments EXCEPT ![h] = NoFragment]
  BY DEF ImportDisconnect
<1>4. /\ active'[h].epoch = 0
      /\ fragments'[h] = NoFragment
      /\ \A g \in Handles \ {h} : active'[g] = active[g] /\ fragments'[g] = fragments[g]
  BY <1>3 DEF TypeInv, ImportTypeOK, NoConnection
<1> HIDE DEF n
<1>5. ActiveInv'
  BY <1>4 DEF EpochInv, ActiveInv
<1>6. FragmentInv'
  BY <1>4 DEF EpochInv, FragmentInv, NoFragment
<1>7. LifeInv'
  BY <1>1, <1>4 DEF EpochInv, LifeInv, ActiveInv, n
<1>8. EpochHasOneLife'
  BY <1>1 DEF EpochInv, EpochHasOneLife, LifeInv, n
<1> QED
  BY <1>5, <1>6, <1>7, <1>8 DEF EpochInv

(* Traffic writes no record, and opens at most a new epoch. *)
LEMMA TrafficKeepsEpochs ==
  ASSUME TypeInv, EpochInv, NEW h \in Handles, EnsureActive(h), connections' = connections,
         \A g \in Handles \ {h} : fragments'[g] = fragments[g],
         fragments'[h].epoch \in {0, ConnectionOf(h).epoch}
  PROVE  EpochInv'
<1>1. nextEpoch \in Nat /\ \A g \in Handles : active[g].epoch \in 0..nextEpoch
  BY DEF TypeInv, ImportTypeOK
<1>2. \A i \in 1..Len(connections) : connections[i].epoch \in 0..nextEpoch
  <2>1. \A i \in 1..Len(connections) : connections[i] \in RecordType(nextEpoch)
    BY DEF TypeInv, ImportTypeOK
  <2> QED
    BY <2>1 DEF RecordType
<1>3. /\ active'[h] = ConnectionOf(h)
      /\ \A g \in Handles \ {h} : active'[g] = active[g] /\ fragments'[g] = fragments[g]
      /\ fragments'[h].epoch \in {0, ConnectionOf(h).epoch}
  BY DEF EnsureActive, TypeInv, ImportTypeOK
<1>4. CASE active[h].epoch = 0
  <2>1. ConnectionOf(h).epoch = nextEpoch + 1
    BY <1>4 DEF ConnectionOf
  <2>2. ActiveInv'
    BY <1>1, <1>3, <2>1 DEF EpochInv, ActiveInv
  <2>3. FragmentInv'
    BY <1>3 DEF EpochInv, FragmentInv
  <2>4. LifeInv'
    BY <1>1, <1>2, <1>3, <2>1 DEF EpochInv, LifeInv
  <2>5. EpochHasOneLife'
    BY DEF EpochInv, EpochHasOneLife
  <2> QED
    BY <2>2, <2>3, <2>4, <2>5 DEF EpochInv
<1>5. CASE active[h].epoch # 0
  <2>1. ConnectionOf(h) = active[h]
    BY <1>5 DEF ConnectionOf
  <2> QED
    BY <1>3, <2>1 DEF EpochInv, ActiveInv, FragmentInv, LifeInv, EpochHasOneLife
<1> QED
  BY <1>4, <1>5

(* The invariant of the epochs is inductive. *)
LEMMA EpochStep == TypeInv /\ EpochInv /\ [Next]_vars => EpochInv'
<1> SUFFICES ASSUME TypeInv, EpochInv, [Next]_vars
             PROVE  EpochInv'
  OBVIOUS
<1>0. CASE UNCHANGED <<active, fragments, connections>>
  BY <1>0 DEF EpochInv, ActiveInv, FragmentInv, LifeInv, EpochHasOneLife
<1>1. ASSUME NEW h \in Handles, Open(h)
      PROVE  EpochInv'
  BY <1>0, <1>1, MissedIsLost, ConnectKeepsEpochs DEF Open, Lost
<1>2. ASSUME NEW h \in Handles, Close(h)
      PROVE  EpochInv'
  BY <1>0, <1>2, MissedIsLost, DisconnectKeepsEpochs DEF Close, Lost
<1>3. ASSUME NEW h \in Handles, NEW d \in Dirs, NEW units \in 1..MaxUnits, Begin(h, d, units)
      PROVE  EpochInv'
  <2>1. CASE ImportStart(h, d, sent', units)
    <3>1. EnsureActive(h) /\ connections' = connections
      BY <2>1 DEF ImportStart
    <3>2. fragments[h].epoch \in {0, ConnectionOf(h).epoch}
      BY DEF EpochInv, FragmentInv, ConnectionOf
    <3>3. /\ \A g \in Handles \ {h} : fragments'[g] = fragments[g]
          /\ fragments'[h].epoch \in {0, ConnectionOf(h).epoch}
      BY <2>1, <3>2 DEF ImportStart, TypeInv, ImportTypeOK
    <3> QED
      BY <3>1, <3>3, TrafficKeepsEpochs
  <2>2. CASE Spoilt("acl") /\ ImportHalfHeader(h)
    <3>1. EnsureActive(h) /\ connections' = connections /\ fragments' = fragments
      BY <2>2, HalfHeader
    <3>2. fragments[h].epoch \in {0, ConnectionOf(h).epoch}
      BY DEF EpochInv, FragmentInv, ConnectionOf
    <3> QED
      BY <3>1, <3>2, TrafficKeepsEpochs
  <2> QED
    BY <1>0, <1>3, <2>1, <2>2, MissedIsLost DEF Begin, Lost
<1>4. ASSUME NEW h \in Handles, NEW d \in Dirs, Continue(h, d)
      PROVE  EpochInv'
  <2>1. CASE ImportContinuation(h, d, flow[h][d].msg)
    <3>1. EnsureActive(h) /\ connections' = connections
      BY <2>1 DEF ImportContinuation
    <3>2. fragments[h].epoch \in {0, ConnectionOf(h).epoch}
      BY DEF EpochInv, FragmentInv, ConnectionOf
    <3>3. /\ \A g \in Handles \ {h} : fragments'[g] = fragments[g]
          /\ fragments'[h].epoch \in {0, ConnectionOf(h).epoch}
      BY <2>1, <3>2 DEF ImportContinuation, TypeInv, ImportTypeOK, NoFragment
    <3> QED
      BY <3>1, <3>3, TrafficKeepsEpochs
  <2> QED
    BY <1>0, <1>4, <2>1, MissedIsLost DEF Continue, Lost
<1> QED
  BY <1>0, <1>1, <1>2, <1>3, <1>4 DEF Next, Finish, vars, import

(* It holds throughout. *)
LEMMA EpochInvHolds == Spec => []EpochInv
<1>1. Init => EpochInv
  BY DEF Init, EpochInv, ActiveInv, FragmentInv, LifeInv, EpochHasOneLife, NoConnection, NoFragment
<1> QED
  BY <1>1, EpochStep, TypeInvHolds, PTL DEF Spec

(* Whatever packets are lost, an epoch has one connection record at most and
   one disconnection after it, of the same handle and peer
   (capture.py:122-142). *)
THEOREM EpochLivesOnce == Spec => []EpochHasOneLife
<1>1. EpochInv => EpochHasOneLife
  BY DEF EpochInv
<1> QED
  BY <1>1, EpochInvHolds, PTL

-----------------------------------------------------------------------------
(* Epochs and connections. *)

(* No logger misses connections and disconnections both. *)
LossesApart == \A mode \in LossModes : ~({"connect", "disconnect"} \subseteq mode)

(* What the importer has ever said of a connection: in an event, in a record,
   in its table of active connections. *)
Sighting(x) == [conn |-> x.conn, epoch |-> x.epoch, handle |-> x.handle, peer |-> x.peer]
Known == {h \in Handles : link[h] # 0 /\ active[h].epoch # 0}
Live(h) == [conn |-> link[h], epoch |-> active[h].epoch, handle |-> h, peer |-> active[h].peer]
Sightings ==
  {Sighting(e) : e \in Events}
    \cup {Sighting(r) : r \in {q \in ConnectionRecords : q.epoch # 0}}
    \cup {Live(h) : h \in Known}

(* The connection determines what is said of it, and so does the epoch. *)
SightedOnce == \A s, t \in Sightings : s.conn = t.conn \/ s.epoch = t.epoch => s = t
SightedTrue ==
  \A s \in Sightings :
    s.conn \in 1..conns /\ s.epoch \in 1..nextEpoch /\ s.peer \in {"none", peerOf[s.conn]}
UnsightedInv ==
  \A h \in Handles : link[h] # 0 /\ active[h].epoch = 0 => \A s \in Sightings : s.conn # link[h]

(* A handle stays active without a link only if its next connection is logged. *)
StaleInv == \A h \in Handles : link[h] = 0 /\ "connect" \in missable => active[h].epoch = 0

SightInv == SightedOnce /\ SightedTrue /\ UnsightedInv /\ StaleInv

(* No sighting is added: what was said stays true. *)
LEMMA SightingsKept ==
  ASSUME TypeInv, TypeInv', SightInv, Sightings' \subseteq Sightings,
         conns <= conns', nextEpoch <= nextEpoch', peerOf' = peerOf
  PROVE  SightedOnce' /\ SightedTrue'
<1>1. SightedOnce'
  BY DEF SightInv, SightedOnce
<1>2. conns \in Nat /\ conns' \in Nat /\ nextEpoch \in Nat /\ nextEpoch' \in Nat
  BY ImportAssumption DEF TypeInv, WorldTypeOK, ImportTypeOK
<1>3. SightedTrue'
  BY <1>2 DEF SightInv, SightedTrue
<1> QED
  BY <1>1, <1>3

(* One sighting is added, of a connection not seen before and under a new epoch.
   *)
LEMMA SightingAdded ==
  ASSUME TypeInv, TypeInv', SightInv, NEW x, Sightings' \subseteq Sightings \cup {x},
         conns <= conns', nextEpoch' = nextEpoch + 1, peerOf' = peerOf,
         x.epoch = nextEpoch', x.conn \in 1..conns', x.peer \in {"none", peerOf[x.conn]},
         \A s \in Sightings : s.conn # x.conn
  PROVE  SightedOnce' /\ SightedTrue'
<1>1. conns \in Nat /\ conns' \in Nat /\ nextEpoch \in Nat
  BY ImportAssumption DEF TypeInv, WorldTypeOK, ImportTypeOK
<1>2. \A s \in Sightings : s.epoch \in 1..nextEpoch
  BY DEF SightInv, SightedTrue
<1>3. SightedOnce'
  <2>1. \A s \in Sightings : s.conn # x.conn /\ s.epoch # x.epoch
    BY <1>1, <1>2
  <2> QED
    BY <2>1 DEF SightInv, SightedOnce
<1>4. SightedTrue'
  BY <1>1 DEF SightInv, SightedTrue
<1> QED
  BY <1>3, <1>4

(* The places of a sequence after an element was appended. *)
LEMMA AppendIndices ==
  ASSUME NEW S, NEW s \in Seq(S), NEW x
  PROVE  /\ Len(s) \in Nat /\ Len(Append(s, x)) = Len(s) + 1
         /\ Append(s, x)[Len(s) + 1] = x /\ \A i \in 1..Len(s) : Append(s, x)[i] = s[i]
<1>1. Len(s) \in Nat /\ Len(Append(s, x)) = Len(s) + 1
  OBVIOUS
<1>2. Append(s, x)[Len(s) + 1] = x /\ \A i \in 1..Len(s) : Append(s, x)[i] = s[i]
  OBVIOUS
<1> QED
  BY <1>1, <1>2

(* What is in a sequence after an element was appended. *)
LEMMA RangeOfAppend ==
  ASSUME NEW S, NEW s \in Seq(S), NEW x
  PROVE  {Append(s, x)[i] : i \in 1..Len(Append(s, x))} = {s[i] : i \in 1..Len(s)} \cup {x}
BY AppendIndices

(* A connection that is logged is sighted under a new epoch. *)
LEMMA ConnectSights ==
  ASSUME TypeInv, TypeInv', SightInv, NEW h \in Handles, Open(h), ImportConnect(h, conns')
  PROVE  SightInv'
<1> DEFINE x == [conn |-> conns + 1, epoch |-> nextEpoch + 1, handle |-> h,
                 peer |-> peerOf[conns + 1]]
           r == [connected |-> TRUE, handle |-> h, conn |-> conns', epoch |-> nextEpoch',
                 peer |-> peerOf[conns']]
<1>1. /\ conns' = conns + 1 /\ nextEpoch' = nextEpoch + 1 /\ peerOf' = peerOf
      /\ events' = events /\ connections' = Append(connections, r) /\ missable' = missable
  BY DEF Open, ImportConnect
<1>2. conns \in Nat /\ nextEpoch \in Nat /\ \A g \in Handles : link[g] \in 0..conns
  BY ImportAssumption DEF TypeInv, WorldTypeOK, ImportTypeOK
<1>3. /\ link'[h] = conns + 1 /\ active'[h] = [epoch |-> nextEpoch + 1, peer |-> peerOf[conns + 1]]
      /\ \A g \in Handles \ {h} : link'[g] = link[g] /\ active'[g] = active[g]
  BY <1>1 DEF Open, ImportConnect, TypeInv, WorldTypeOK, ImportTypeOK
<1>4. ConnectionRecords' = ConnectionRecords \cup {r}
  <2>1. connections \in Seq(RecordType(nextEpoch))
    BY DEF TypeInv, ImportTypeOK
  <2>2. connections' = Append(connections, r)
    BY <1>1
  <2> HIDE DEF r
  <2> QED
    BY <2>1, <2>2, RangeOfAppend DEF ConnectionRecords
<1>5. Sighting(r) = x
  BY <1>1 DEF Sighting
<1>6. Live(h)' = x /\ \A g \in Known' \ {h} : g \in Known /\ Live(g)' = Live(g)
  BY <1>3 DEF Live, Known
<1>7. Events' = Events
  BY <1>1 DEF Events
<1> HIDE DEF x, r
<1>8. Sightings' \subseteq Sightings \cup {x}
  BY <1>4, <1>5, <1>6, <1>7 DEF Sightings
<1>9. x.conn = conns + 1 /\ x.epoch = nextEpoch + 1 /\ x.peer = peerOf[conns + 1]
  BY DEF x
<1>10. \A s \in Sightings : s.conn \in 1..conns
  BY DEF SightInv, SightedTrue
<1>11. SightedOnce' /\ SightedTrue'
  BY <1>1, <1>2, <1>8, <1>9, <1>10, SightingAdded
<1>12. UnsightedInv'
  BY <1>2, <1>3, <1>8, <1>9 DEF SightInv, UnsightedInv
<1>13. StaleInv'
  BY <1>1, <1>2, <1>3 DEF SightInv, StaleInv
<1> QED
  BY <1>11, <1>12, <1>13 DEF SightInv

(* A connection that is not logged finds its handle without an epoch: the logger
   that misses it has not missed the disconnection before. *)
LEMMA LostConnectSights ==
  ASSUME TypeInv, TypeInv', SightInv, NEW h \in Handles, Open(h), Missed("connect")
  PROVE  SightInv'
<1>1. /\ conns' = conns + 1 /\ nextEpoch' = nextEpoch /\ peerOf' = peerOf /\ missable' = missable
      /\ events' = events /\ connections' = connections /\ active' = active
      /\ active[h].epoch = 0
  BY MissedIsLost DEF Open, Lost, SightInv, StaleInv
<1>2. conns \in Nat /\ nextEpoch \in Nat /\ \A g \in Handles : link[g] \in 0..conns
  BY ImportAssumption DEF TypeInv, WorldTypeOK, ImportTypeOK
<1>3. link'[h] = conns + 1 /\ \A g \in Handles \ {h} : link'[g] = link[g]
  BY <1>1 DEF Open, TypeInv, WorldTypeOK
<1>4. Events' = Events /\ ConnectionRecords' = ConnectionRecords
  BY <1>1 DEF Events, ConnectionRecords
<1>5. \A g \in Known' : g \in Known /\ Live(g)' = Live(g)
  BY <1>1, <1>3 DEF Live, Known
<1>6. Sightings' \subseteq Sightings
  BY <1>4, <1>5 DEF Sightings
<1>7. SightedOnce' /\ SightedTrue'
  BY <1>1, <1>2, <1>6, SightingsKept
<1>8. \A s \in Sightings : s.conn \in 1..conns
  BY DEF SightInv, SightedTrue
<1>9. UnsightedInv' /\ StaleInv'
  BY <1>1, <1>2, <1>3, <1>6, <1>8 DEF SightInv, UnsightedInv, StaleInv
<1> QED
  BY <1>7, <1>9 DEF SightInv

(* A disconnection is recorded under the epoch its connection was sighted with,
   or under none. *)
LEMMA CloseSights ==
  ASSUME LossesApart, TypeInv, TypeInv', SightInv, NEW h \in Handles, Close(h)
  PROVE  SightInv'
<1>1. /\ conns' = conns /\ nextEpoch' = nextEpoch /\ peerOf' = peerOf /\ missable' = missable
      /\ events' = events
  BY MissedIsLost DEF Close, Lost, ImportDisconnect
<1>2. conns \in Nat /\ nextEpoch \in Nat /\ \A g \in Handles : link[g] \in 0..conns
  BY ImportAssumption DEF TypeInv, WorldTypeOK, ImportTypeOK
<1>3. /\ link[h] # 0 /\ link'[h] = 0
      /\ \A g \in Handles \ {h} : link'[g] = link[g] /\ active'[g] = active[g]
  BY MissedIsLost DEF Close, Lost, ImportDisconnect, TypeInv, WorldTypeOK, ImportTypeOK
<1>4. Events' = Events
  BY <1>1 DEF Events
<1>5. \A g \in Known' : g \in Known /\ Live(g)' = Live(g)
  BY <1>3 DEF Live, Known
<1>6. ASSUME NEW q \in ConnectionRecords', q.epoch # 0
      PROVE  q \in ConnectionRecords \/ (h \in Known /\ Sighting(q) = Live(h))
  <2>1. CASE ImportDisconnect(h, link[h])
    <3> DEFINE r == [connected |-> FALSE, handle |-> h, conn |-> link[h],
                     epoch |-> active[h].epoch, peer |-> active[h].peer]
    <3>1. connections' = Append(connections, r)
      BY <2>1 DEF ImportDisconnect
    <3>2. connections \in Seq(RecordType(nextEpoch))
      BY DEF TypeInv, ImportTypeOK
    <3>3. Sighting(r) = Live(h) /\ (r.epoch # 0 => h \in Known)
      BY <1>3 DEF Sighting, Live, Known
    <3> HIDE DEF r
    <3>4. ConnectionRecords' = ConnectionRecords \cup {r}
      BY <3>1, <3>2, RangeOfAppend DEF ConnectionRecords
    <3>5. CASE q = r
      BY <1>6, <3>3, <3>5
    <3> QED
      BY <3>4, <3>5
  <2>2. CASE Missed("disconnect")
    <3>1. connections' = connections
      BY <2>2, MissedIsLost DEF Lost
    <3> QED
      BY <3>1 DEF ConnectionRecords
  <2> QED
    BY <2>1, <2>2 DEF Close
<1>7. Sightings' \subseteq Sightings
  BY <1>4, <1>5, <1>6 DEF Sightings
<1>8. SightedOnce' /\ SightedTrue'
  BY <1>1, <1>2, <1>7, SightingsKept
<1>9. UnsightedInv'
  BY <1>3, <1>7 DEF SightInv, UnsightedInv
<1>10. StaleInv'
  <2>1. CASE ImportDisconnect(h, link[h])
    <3>1. active'[h].epoch = 0
      BY <2>1 DEF ImportDisconnect, NoConnection, TypeInv, ImportTypeOK
    <3> QED
      BY <1>1, <1>3, <3>1 DEF SightInv, StaleInv
  <2>2. CASE Missed("disconnect")
    <3>1. "disconnect" \in missable /\ missable \in LossModes
      BY <2>2, MissedIsLost DEF TypeInv, WorldTypeOK
    <3>2. "connect" \notin missable
      BY <3>1 DEF LossesApart
    <3> QED
      BY <1>1, <3>2 DEF StaleInv
  <2> QED
    BY <2>1, <2>2 DEF Close
<1> QED
  BY <1>8, <1>9, <1>10 DEF SightInv

(* An event is a sighting of the connection its handle has. *)
LEMMA TrafficSights ==
  ASSUME TypeInv, TypeInv', SightInv, NEW h \in Handles, link[h] # 0, EnsureActive(h),
         link' = link, conns' = conns, peerOf' = peerOf, missable' = missable,
         connections' = connections,
         \/ events' = events
         \/ \E d, data : Record(h, d, data)
  PROVE  SightInv'
<1>1. conns \in Nat /\ nextEpoch \in Nat /\ \A g \in Handles : link[g] \in 0..conns
  BY ImportAssumption DEF TypeInv, WorldTypeOK, ImportTypeOK
<1>2. active'[h] = ConnectionOf(h) /\ \A g \in Handles \ {h} : active'[g] = active[g]
  BY DEF EnsureActive, TypeInv, ImportTypeOK
<1>3. h \in Known'
  <2>1. active'[h].epoch # 0
    BY <1>1, <1>2 DEF ConnectionOf
  <2> QED
    BY <2>1 DEF Known
<1>4. \A e \in Events' : e \in Events \/ Sighting(e) = Live(h)'
  <2>1. CASE events' = events
    BY <2>1 DEF Events
  <2>2. ASSUME NEW d, NEW data, Record(h, d, data)
        PROVE  \A e \in Events' : e \in Events \/ Sighting(e) = Live(h)'
    <3> DEFINE x == [handle |-> h, direction |-> d, epoch |-> ConnectionOf(h).epoch,
                     peer |-> ConnectionOf(h).peer, conn |-> link[h], data |-> data]
    <3>1. Events' \subseteq Events \cup {x}
      BY <2>2, RangeOfAppend DEF Record, Events, TypeInv, ImportTypeOK
    <3>2. Sighting(x) = Live(h)'
      BY <1>2 DEF Sighting, Live
    <3> HIDE DEF x
    <3> QED
      BY <3>1, <3>2
  <2> QED
    BY <2>1, <2>2
<1>5. ConnectionRecords' = ConnectionRecords
  BY DEF ConnectionRecords
<1>6. \A g \in Known' : g = h \/ (g \in Known /\ Live(g)' = Live(g))
  <2>1. \A g \in Handles \ {h} : link'[g] = link[g] /\ active'[g] = active[g]
    BY <1>2
  <2> QED
    BY <2>1 DEF Known, Live
<1>7. Sightings' \subseteq Sightings \cup {Live(h)'}
  BY <1>4, <1>5, <1>6 DEF Sightings
<1>8. CASE active[h].epoch = 0
  <2>1. /\ Live(h)'.conn = link[h] /\ Live(h)'.epoch = nextEpoch + 1 /\ Live(h)'.peer = "none"
        /\ nextEpoch' = nextEpoch + 1
    BY <1>2, <1>8 DEF Live, ConnectionOf, EnsureActive
  <2>2. \A s \in Sightings : s.conn # link[h]
    BY <1>8 DEF SightInv, UnsightedInv
  <2>3. SightedOnce' /\ SightedTrue'
    BY <1>1, <1>7, <2>1, <2>2, SightingAdded
  <2>4. UnsightedInv'
    BY <1>1, <1>2, <1>3, <1>7, <2>1 DEF SightInv, UnsightedInv, TypeInv, LinkInv, Known
  <2>5. StaleInv'
    BY <1>2 DEF SightInv, StaleInv
  <2> QED
    BY <2>3, <2>4, <2>5 DEF SightInv
<1>9. CASE active[h].epoch # 0
  <2>1. h \in Known /\ active' = active /\ nextEpoch' = nextEpoch
    BY <1>9 DEF Known, EnsureActive, ConnectionOf, TypeInv, ImportTypeOK
  <2>2. Live(h)' = Live(h)
    BY <2>1 DEF Live
  <2>3. Sightings' \subseteq Sightings
    BY <1>7, <2>1, <2>2 DEF Sightings
  <2>4. SightedOnce' /\ SightedTrue'
    BY <1>1, <2>1, <2>3, SightingsKept
  <2> QED
    BY <2>1, <2>3, <2>4 DEF SightInv, UnsightedInv, StaleInv
<1> QED
  BY <1>8, <1>9

(* The invariant of the sightings is inductive where losses are apart. *)
LEMMA SightStep ==
  ASSUME LossesApart, TypeInv, TypeInv', SightInv, [Next]_vars
  PROVE  SightInv'
<1>0. CASE UNCHANGED <<link, active, conns, peerOf, missable, nextEpoch, events, connections>>
  <2>1. Events' = Events /\ ConnectionRecords' = ConnectionRecords
    BY <1>0 DEF Events, ConnectionRecords
  <2>2. Known' = Known /\ \A h \in Handles : Live(h)' = Live(h)
    BY <1>0 DEF Known, Live
  <2>3. Sightings' = Sightings
    BY <2>1, <2>2 DEF Sightings, Known
  <2> QED
    BY <1>0, <2>3 DEF SightInv, SightedOnce, SightedTrue, UnsightedInv, StaleInv
<1>1. ASSUME NEW h \in Handles, Open(h)
      PROVE  SightInv'
  BY <1>1, ConnectSights, LostConnectSights DEF Open
<1>2. ASSUME NEW h \in Handles, Close(h)
      PROVE  SightInv'
  BY <1>2, CloseSights
<1>3. ASSUME NEW h \in Handles, NEW d \in Dirs, NEW units \in 1..MaxUnits, Begin(h, d, units)
      PROVE  SightInv'
  <2>1. /\ link[h] # 0 /\ link' = link /\ conns' = conns /\ peerOf' = peerOf
        /\ missable' = missable
    BY <1>3 DEF Begin
  <2>2. CASE ImportStart(h, d, sent', units)
    <3>1. EnsureActive(h) /\ connections' = connections
      BY <2>2 DEF ImportStart
    <3>2. \/ events' = events
          \/ \E e, data : Record(h, e, data)
      BY <2>2 DEF ImportStart
    <3> QED
      BY <2>1, <3>1, <3>2, TrafficSights
  <2>3. CASE Spoilt("acl") /\ ImportHalfHeader(h)
    BY <2>1, <2>3, HalfHeader, TrafficSights
  <2> QED
    BY <1>0, <1>3, <2>1, <2>2, <2>3, MissedIsLost DEF Begin, Lost
<1>4. ASSUME NEW h \in Handles, NEW d \in Dirs, Continue(h, d)
      PROVE  SightInv'
  <2>1. /\ link[h] # 0 /\ link' = link /\ conns' = conns /\ peerOf' = peerOf
        /\ missable' = missable
    BY <1>4 DEF Continue, TypeInv, FlowInv
  <2>2. CASE ImportContinuation(h, d, flow[h][d].msg)
    <3>1. EnsureActive(h) /\ connections' = connections
      BY <2>2 DEF ImportContinuation
    <3>2. \/ events' = events
          \/ \E e, data : Record(h, e, data)
      BY <2>2 DEF ImportContinuation
    <3> QED
      BY <2>1, <3>1, <3>2, TrafficSights
  <2> QED
    BY <1>0, <1>4, <2>1, <2>2, MissedIsLost DEF Continue, Lost
<1>5. CASE Finish \/ UNCHANGED vars
  BY <1>0, <1>5 DEF Finish, vars, world, import
<1> QED
  BY <1>1, <1>2, <1>3, <1>4, <1>5 DEF Next

(* What is joined, or will be, comes from one connection. *)
UnsentInv == \A m \in Messages : m > sent => msgConn[m] = 0
EventDataInv == \A e \in Events : \A i \in 1..Len(e.data) : msgConn[e.data[i]] = e.conn
FragmentDataInv ==
  \A h \in Handles : link[h] # 0 /\ fragments[h].epoch # 0 =>
    \A i \in 1..Len(fragments[h].data) : msgConn[fragments[h].data[i]] = link[h]

DataInv == UnsentInv /\ EventDataInv /\ FragmentDataInv

(* Every event has the type of events. *)
LEMMA EventsTyped ==
  ASSUME TypeInv, NEW e \in Events
  PROVE  e \in EventType(nextEpoch)
BY DEF TypeInv, ImportTypeOK, Events

(* The events after one more was written. *)
LEMMA EventAppended ==
  ASSUME TypeInv, NEW x, events' = Append(events, x)
  PROVE  Events' = Events \cup {x}
<1>1. events \in Seq(EventType(nextEpoch))
  BY DEF TypeInv, ImportTypeOK
<1> QED
  BY <1>1, RangeOfAppend DEF Events

(* A start packet is given to the connection it came on. *)
LEMMA BeginData ==
  ASSUME TypeInv, TypeInv', EpochInv, DataInv, NEW h \in Handles, NEW d \in Dirs,
         NEW units \in 1..MaxUnits, Begin(h, d, units)
  PROVE  DataInv'
<1> USE ImportAssumption
<1>1. /\ link' = link /\ link[h] # 0 /\ sent \in Nat /\ sent' = sent + 1 /\ sent' \in Messages
      /\ msgConn'[sent'] = link[h]
      /\ \A m \in Messages \ {sent'} : msgConn'[m] = msgConn[m]
  BY DEF Begin, TypeInv, WorldTypeOK, Messages
<1>2. msgConn[sent'] = 0
  BY <1>1 DEF DataInv, UnsentInv
<1>3. UnsentInv'
  BY <1>1 DEF DataInv, UnsentInv, Messages
<1>4. ASSUME NEW e \in Events, NEW i \in 1..Len(e.data)
      PROVE  msgConn'[e.data[i]] = e.conn
  <2>1. e.conn # 0 /\ e.data \in Seq(Messages)
    BY EventsTyped DEF EventType, Conns
  <2>2. e.data[i] \in Messages /\ msgConn[e.data[i]] = e.conn
    BY <2>1 DEF DataInv, EventDataInv
  <2> QED
    BY <1>1, <1>2, <2>1, <2>2
<1>5. ASSUME NEW g \in Handles, link[g] # 0, fragments[g].epoch # 0,
             NEW i \in 1..Len(fragments[g].data)
      PROVE  msgConn'[fragments[g].data[i]] = link[g]
  <2>1. fragments[g].data \in Seq(Messages)
    BY DEF TypeInv, ImportTypeOK
  <2>2. fragments[g].data[i] \in Messages /\ msgConn[fragments[g].data[i]] = link[g]
    BY <1>5, <2>1 DEF DataInv, FragmentDataInv
  <2> QED
    BY <1>1, <1>2, <1>5, <2>2
<1>6. CASE UNCHANGED <<fragments, events>>
  <2>1. Events' = Events
    BY <1>6 DEF Events
  <2> QED
    BY <1>1, <1>3, <1>4, <1>5, <1>6, <2>1 DEF DataInv, EventDataInv, FragmentDataInv
<1>7. CASE ImportStart(h, d, sent', units)
  <2>1. CASE units = 1
    <3> DEFINE x == [handle |-> h, direction |-> d, epoch |-> ConnectionOf(h).epoch,
                     peer |-> ConnectionOf(h).peer, conn |-> link[h], data |-> <<sent'>>]
    <3>1. (events' = events \/ events' = Append(events, x)) /\ fragments' = fragments
      BY <1>7, <2>1 DEF ImportStart, Record
    <3>3. \A i \in 1..Len(x.data) : msgConn'[x.data[i]] = x.conn
      BY <1>1
    <3> HIDE DEF x
    <3>2. Events' \subseteq Events \cup {x}
      BY <3>1, EventAppended DEF Events
    <3>4. EventDataInv'
      BY <1>4, <3>2, <3>3 DEF EventDataInv
    <3> QED
      BY <1>1, <1>3, <1>5, <3>1, <3>4 DEF DataInv, FragmentDataInv
  <2>2. CASE units # 1
    <3>1. /\ events' = events
          /\ fragments' = [fragments EXCEPT ![h] =
               [epoch |-> ConnectionOf(h).epoch, need |-> units, data |-> <<sent'>>]]
      BY <1>7, <2>2 DEF ImportStart
    <3>2. /\ fragments'[h].data = <<sent'>>
          /\ \A g \in Handles \ {h} : fragments'[g] = fragments[g]
      BY <3>1 DEF TypeInv, ImportTypeOK
    <3>3. FragmentDataInv'
      BY <1>1, <1>5, <3>2 DEF FragmentDataInv
    <3>4. EventDataInv'
      BY <1>4, <3>1 DEF EventDataInv, Events
    <3> QED
      BY <1>3, <3>3, <3>4 DEF DataInv
  <2> QED
    BY <2>1, <2>2
<1> QED
  BY <1>6, <1>7, MissedIsLost, HalfHeader DEF Begin, Lost

(* A continuation is joined to a fragment of its own connection. *)
LEMMA ContinueData ==
  ASSUME TypeInv, TypeInv', EpochInv, DataInv, NEW h \in Handles, NEW d \in Dirs,
         Continue(h, d)
  PROVE  DataInv'
<1> USE ImportAssumption
<1> DEFINE m == flow[h][d].msg
           f == fragments[h]
           data == Append(f.data, m)
<1>1. /\ link' = link /\ sent' = sent /\ msgConn' = msgConn
      /\ link[h] # 0 /\ m \in Messages /\ msgConn[m] = link[h]
  BY DEF Continue, TypeInv, WorldTypeOK, FlowInv, Messages
<1>2. UnsentInv'
  BY <1>1 DEF DataInv, UnsentInv
<1>3. CASE UNCHANGED <<fragments, events>>
  <2>1. Events' = Events
    BY <1>3 DEF Events
  <2> QED
    BY <1>1, <1>2, <1>3, <2>1 DEF DataInv, EventDataInv, FragmentDataInv
<1>4. CASE ImportContinuation(h, d, m) /\ f.epoch = ConnectionOf(h).epoch
  <2>1. f.epoch # 0
    BY <1>4 DEF ConnectionOf, TypeInv, ImportTypeOK
  <2>2. f.data \in Seq(Messages) /\ f.need \in Nat
    BY DEF TypeInv, ImportTypeOK
  <2>3. /\ data \in Seq(Messages) /\ Len(data) = Len(f.data) + 1 /\ Len(f.data) \in Nat
        /\ data[Len(data)] = m /\ \A i \in 1..Len(f.data) : data[i] = f.data[i]
    BY <1>1, <2>2
  <2>4. \A i \in 1..Len(data) : msgConn[data[i]] = link[h]
    BY <1>1, <2>1, <2>3 DEF DataInv, FragmentDataInv
  <2> HIDE DEF data
  <2>5. CASE fragments' = [fragments EXCEPT ![h].data = data] /\ UNCHANGED events
    <3>1. /\ fragments'[h].data = data /\ \A g \in Handles \ {h} : fragments'[g] = fragments[g]
      BY <2>5 DEF TypeInv, ImportTypeOK
    <3>2. FragmentDataInv'
      BY <1>1, <2>4, <3>1 DEF DataInv, FragmentDataInv
    <3>3. EventDataInv'
      BY <1>1, <2>5 DEF DataInv, EventDataInv, Events
    <3> QED
      BY <1>2, <3>2, <3>3 DEF DataInv
  <2>6. CASE /\ f.need <= Len(data)
             /\ fragments' = [fragments EXCEPT ![h] = NoFragment]
             /\ Record(h, d, SubSeq(data, 1, f.need))
    <3> DEFINE whole == SubSeq(data, 1, f.need)
               x == [handle |-> h, direction |-> d, epoch |-> ConnectionOf(h).epoch,
                     peer |-> ConnectionOf(h).peer, conn |-> link[h], data |-> whole]
    <3>1. Len(whole) = f.need /\ \A i \in 1..Len(whole) : whole[i] = data[i]
      BY <2>2, <2>3, <2>6
    <3>2. \A i \in 1..Len(whole) : msgConn[whole[i]] = link[h]
      BY <2>2, <2>3, <2>4, <2>6, <3>1
    <3> HIDE DEF whole
    <3>3. events' = events \/ events' = Append(events, x)
      BY <2>6 DEF Record, whole
    <3>4. x.data = whole /\ x.conn = link[h]
      OBVIOUS
    <3> HIDE DEF x
    <3>5. Events' \subseteq Events \cup {x}
      BY <3>3, EventAppended DEF Events
    <3>6. EventDataInv'
      BY <1>1, <3>2, <3>4, <3>5 DEF DataInv, EventDataInv
    <3>7. /\ fragments'[h].epoch = 0 /\ \A g \in Handles \ {h} : fragments'[g] = fragments[g]
      BY <2>6 DEF TypeInv, ImportTypeOK, NoFragment
    <3>8. FragmentDataInv'
      BY <1>1, <3>7 DEF DataInv, FragmentDataInv
    <3> QED
      BY <1>2, <3>6, <3>8 DEF DataInv
  <2>7. ~Incomplete(data, f.need) => f.need <= Len(data)
    BY <2>2, <2>3 DEF Incomplete
  <2> QED
    BY <1>4, <2>5, <2>6, <2>7 DEF ImportContinuation, data
<1> QED
  BY <1>3, <1>4, MissedIsLost DEF Continue, Lost, ImportContinuation

(* The data of every event are of the event's own connection. *)
LEMMA DataStep ==
  ASSUME TypeInv, TypeInv', EpochInv, SightInv, DataInv, [Next]_vars
  PROVE  DataInv'
<1>1. ASSUME NEW h \in Handles, Open(h)
      PROVE  DataInv'
  <2>1. /\ sent' = sent /\ msgConn' = msgConn /\ events' = events
        /\ \A g \in Handles \ {h} : link'[g] = link[g] /\ fragments'[g] = fragments[g]
    BY <1>1, MissedIsLost DEF Open, Lost, ImportConnect, TypeInv, WorldTypeOK, ImportTypeOK
  <2>2. fragments'[h].epoch = 0
    <3>1. CASE ImportConnect(h, conns')
      BY <3>1 DEF ImportConnect, NoFragment, TypeInv, ImportTypeOK
    <3>2. CASE Missed("connect")
      <4>1. fragments' = fragments /\ link[h] = 0 /\ "connect" \in missable
        BY <1>1, <3>2, MissedIsLost DEF Open, Lost
      <4> QED
        BY <4>1 DEF SightInv, StaleInv, EpochInv, FragmentInv
    <3> QED
      BY <1>1, <3>1, <3>2 DEF Open
  <2> QED
    BY <2>1, <2>2 DEF DataInv, UnsentInv, EventDataInv, FragmentDataInv, Events
<1>2. ASSUME NEW h \in Handles, Close(h)
      PROVE  DataInv'
  <2>1. /\ sent' = sent /\ msgConn' = msgConn /\ events' = events /\ link'[h] = 0
        /\ \A g \in Handles \ {h} : link'[g] = link[g] /\ fragments'[g] = fragments[g]
    BY <1>2, MissedIsLost DEF Close, Lost, ImportDisconnect, TypeInv, WorldTypeOK, ImportTypeOK
  <2> QED
    BY <2>1 DEF DataInv, UnsentInv, EventDataInv, FragmentDataInv, Events
<1>3. CASE Finish \/ UNCHANGED vars
  BY <1>3 DEF Finish, vars, world, import, DataInv, UnsentInv, EventDataInv, FragmentDataInv, Events
<1> QED
  BY <1>1, <1>2, <1>3, BeginData, ContinueData DEF Next

(* Nothing has been said of any connection yet. *)
LEMMA ConnectionsInit == Init => SightInv /\ DataInv
<1> SUFFICES ASSUME Init
             PROVE  SightInv /\ DataInv
  OBVIOUS
<1>1. Events = {} /\ ConnectionRecords = {} /\ Known = {}
  BY DEF Init, Events, ConnectionRecords, Known, NoConnection
<1>2. Sightings = {}
  BY <1>1 DEF Sightings
<1>3. SightInv
  BY <1>2 DEF SightInv, SightedOnce, SightedTrue, UnsightedInv, StaleInv, Init, NoConnection
<1>4. DataInv
  BY <1>1 DEF DataInv, UnsentInv, EventDataInv, FragmentDataInv, Init, NoFragment
<1> QED
  BY <1>3, <1>4

ConnectionInv == TypeInv /\ EpochInv /\ SightInv /\ DataInv

(* All of it holds throughout. *)
LEMMA ConnectionInvHolds ==
  ASSUME LossesApart
  PROVE  Spec => []ConnectionInv
<1>1. TypeInv /\ TypeInv' /\ EpochInv /\ SightInv /\ DataInv /\ [Next]_vars => SightInv' /\ DataInv'
  BY SightStep, DataStep
<1>2. SightInv /\ DataInv /\ TypeInv /\ EpochInv => ConnectionInv
  BY DEF ConnectionInv
<1> QED
  BY <1>1, <1>2, ConnectionsInit, TypeInvHolds, EpochInvHolds, PTL DEF Spec

(* An epoch stands for one connection and an address for its real peer, for any
   losses of a logger that does not miss connections and disconnections both;
   with such a logger two connections could look like one (capture.py:122-132,
   150-154, 454-459). *)
THEOREM EpochsKeepConnections ==
  ASSUME LossesApart
  PROVE  Spec => []EpochsAreConnections
<1>1. ConnectionInv => EpochsAreConnections
  <2> SUFFICES ASSUME ConnectionInv, NEW e \in Events
               PROVE  /\ e.peer \in {"none", peerOf[e.conn]}
                      /\ \A i \in 1..Len(e.data) : msgConn[e.data[i]] = e.conn
                      /\ \A f \in Events : e.epoch = f.epoch <=> e.conn = f.conn
    BY DEF EpochsAreConnections
  <2>1. Sighting(e) \in Sightings /\ \A f \in Events : Sighting(f) \in Sightings
    BY DEF Sightings
  <2>2. e.peer \in {"none", peerOf[e.conn]}
    BY <2>1 DEF ConnectionInv, SightInv, SightedTrue, Sighting
  <2>3. \A f \in Events : e.epoch = f.epoch <=> e.conn = f.conn
    BY <2>1 DEF ConnectionInv, SightInv, SightedOnce, Sighting
  <2> QED
    BY <2>2, <2>3 DEF ConnectionInv, DataInv, EventDataInv
<1> QED
  BY <1>1, ConnectionInvHolds, PTL

-----------------------------------------------------------------------------
(* Captures without losses. *)

Copies(m, n) == [u \in 1..n |-> m]

(* One direction of a handle at most is within a cut message; as long as
   nothing is lost, the pending fragment of the handle is what was sent of it. *)
SingleInv ==
  \A h \in Handles : \A d, e \in Dirs : flow[h][d].left > 0 /\ flow[h][e].left > 0 => d = e
PendingInv ==
  \A h \in Handles, d \in Dirs :
    flow[h][d].left > 0 =>
      LET m == flow[h][d].msg  done == msgUnits[m] - flow[h][d].left
      IN /\ done > 0 /\ fragments[h].epoch # 0 /\ fragments[h].need = msgUnits[m]
         /\ fragments[h].data = Copies(m, done)
ClearedInv ==
  \A h \in Handles : (\A d \in Dirs : flow[h][d].left = 0) => fragments[h].epoch = 0
DeliveredInv == \A i \in 1..Len(delivered) : delivered[i] <= sent
MatchInv ==
  /\ Len(events) = Len(delivered)
  /\ \A i \in 1..Len(events) : events[i].data = Copies(delivered[i], msgUnits[delivered[i]])
FailInv == phase = "failed" => \E h \in Handles, d \in Dirs : flow[h][d].left > 0

ExactInv ==
  /\ SingleInv /\ DeliveredInv
  /\ missed = 0 => PendingInv /\ ClearedInv /\ MatchInv /\ FailInv

(* One more unit of a message. *)
LEMMA CopiesGrow ==
  ASSUME NEW S, NEW m \in S, NEW n \in Nat
  PROVE  /\ Copies(m, n) \in Seq(S) /\ Len(Copies(m, n)) = n
         /\ Append(Copies(m, n), m) = Copies(m, n + 1)
         /\ SubSeq(Copies(m, n), 1, n) = Copies(m, n)
         /\ Copies(m, 1) = <<m>>
<1>1. Copies(m, n) \in Seq(S) /\ Len(Copies(m, n)) = n /\ \A u \in 1..n : Copies(m, n)[u] = m
  BY DEF Copies
<1>2. /\ Copies(m, n + 1) \in Seq(S) /\ Len(Copies(m, n + 1)) = n + 1
      /\ \A u \in 1..(n + 1) : Copies(m, n + 1)[u] = m
  BY DEF Copies
<1>3. Append(Copies(m, n), m) = Copies(m, n + 1)
  <2>1. /\ Append(Copies(m, n), m) \in Seq(S) /\ Len(Append(Copies(m, n), m)) = n + 1
        /\ \A u \in 1..n : Append(Copies(m, n), m)[u] = m
        /\ Append(Copies(m, n), m)[n + 1] = m
    BY <1>1, AppendProperties
  <2>2. \A u \in 1..(n + 1) : Append(Copies(m, n), m)[u] = Copies(m, n + 1)[u]
    BY <1>2, <2>1
  <2> QED
    BY <1>2, <2>1, <2>2, SeqEqual
<1>4. SubSeq(Copies(m, n), 1, n) = Copies(m, n)
  BY <1>1, SubSeqFull
<1>5. Copies(m, 1) = <<m>>
  <2>1. Copies(m, 1) \in Seq(S) /\ Len(Copies(m, 1)) = 1 /\ Copies(m, 1)[1] = m
    BY DEF Copies
  <2>2. \A u \in 1..1 : Copies(m, 1)[u] = <<m>>[u]
    BY <2>1
  <2>3. <<m>> \in Seq(S) /\ Len(<<m>>) = 1
    OBVIOUS
  <2> QED
    BY <2>1, <2>2, <2>3, SeqEqual
<1> QED
  BY <1>1, <1>3, <1>4, <1>5

(* A message is cut only where the other direction of the handle is not. *)
LEMMA SingleStep ==
  ASSUME ~Duplex, TypeInv, SingleInv, DeliveredInv, [Next]_vars
  PROVE  SingleInv' /\ DeliveredInv'
<1>0. sent \in Nat /\ \A i \in 1..Len(delivered) : delivered[i] \in Messages
  BY ImportAssumption DEF TypeInv, WorldTypeOK
<1>1. ASSUME NEW h \in Handles, Close(h)
      PROVE  SingleInv' /\ DeliveredInv'
  BY <1>1 DEF Close, SingleInv, DeliveredInv, TypeInv, WorldTypeOK, Idle
<1>2. ASSUME NEW h \in Handles, NEW d \in Dirs, NEW units \in 1..MaxUnits, Begin(h, d, units)
      PROVE  SingleInv' /\ DeliveredInv'
  <2>1. /\ sent' = sent + 1 /\ sent' \in Messages
        /\ delivered' = delivered \/ delivered' = Append(delivered, sent')
    BY <1>0, <1>2, ImportAssumption DEF Begin, Deliver, Messages
  <2>2. DeliveredInv'
    <3>1. delivered \in Seq(Messages) /\ Len(delivered) \in Nat
      BY DEF TypeInv, WorldTypeOK
    <3>2. \A i \in 1..Len(delivered) : delivered[i] <= sent'
      BY <1>0, <2>1 DEF DeliveredInv, Messages
    <3> QED
      BY <1>0, <2>1, <3>1, <3>2 DEF DeliveredInv
  <2>3. /\ flow'[h][d].left = units - 1
        /\ \A g \in Handles, e \in Dirs : ~(g = h /\ e = d) => flow'[g][e] = flow[g][e]
    BY <1>2 DEF Begin, TypeInv, WorldTypeOK
  <2>4. units > 1 => \A e \in Dirs : flow[h][e].left = 0
    BY <1>2 DEF Begin
  <2>5. SingleInv'
    BY <2>3, <2>4, ImportAssumption DEF SingleInv
  <2> QED
    BY <2>2, <2>5
<1>3. ASSUME NEW h \in Handles, NEW d \in Dirs, Continue(h, d)
      PROVE  SingleInv' /\ DeliveredInv'
  <2>1. sent' = sent /\ flow[h][d].msg \in 1..sent /\ flow[h][d].left > 0
    BY <1>3 DEF Continue, TypeInv, FlowInv
  <2>2. delivered' = delivered \/ delivered' = Append(delivered, flow[h][d].msg)
    BY <1>3 DEF Continue, Deliver
  <2>3. DeliveredInv'
    <3>1. delivered \in Seq(Messages)
      BY DEF TypeInv, WorldTypeOK
    <3>2. flow[h][d].msg <= sent
      BY <1>0, <2>1
    <3>3. CASE delivered' = Append(delivered, flow[h][d].msg)
      <4> DEFINE m == flow[h][d].msg
      <4>1. /\ Len(delivered) \in Nat /\ Len(delivered') = Len(delivered) + 1
            /\ delivered'[Len(delivered) + 1] = m
            /\ \A i \in 1..Len(delivered) : delivered'[i] = delivered[i]
        BY <3>1, <3>3, AppendIndices
      <4> HIDE DEF m
      <4>2. m <= sent
        BY <3>2 DEF m
      <4> QED
        BY <2>1, <4>1, <4>2 DEF DeliveredInv
    <3> QED
      BY <2>1, <2>2, <3>3 DEF DeliveredInv
  <2>4. \A g \in Handles, e \in Dirs : ~(g = h /\ e = d) => flow'[g][e] = flow[g][e]
    BY <1>3 DEF Continue, TypeInv, WorldTypeOK
  <2>5. SingleInv'
    BY <2>1, <2>4 DEF SingleInv
  <2> QED
    BY <2>3, <2>5
<1>4. CASE UNCHANGED <<flow, delivered, sent>>
  BY <1>4 DEF SingleInv, DeliveredInv
<1> QED
  BY <1>1, <1>2, <1>3, <1>4 DEF Next, Open, Finish, vars, world

(* A start packet is an event of its own, or the pending fragment. *)
LEMMA BeginExact ==
  ASSUME ~Duplex, TypeInv, TypeInv', ExactInv, missed = 0, NEW h \in Handles, NEW d \in Dirs,
         NEW units \in 1..MaxUnits, Begin(h, d, units), ImportStart(h, d, sent', units)
  PROVE  (PendingInv /\ ClearedInv /\ MatchInv /\ FailInv)'
<1> DEFINE m == sent'
<1>0. sent \in Nat /\ m = sent + 1 /\ m \in Messages /\ units \in Nat
  BY ImportAssumption DEF Begin, TypeInv, WorldTypeOK, Messages
<1>1. msgUnits'[m] = units /\ \A k \in Messages \ {m} : msgUnits'[k] = msgUnits[k]
  BY <1>0 DEF Begin, TypeInv, WorldTypeOK
<1>2. /\ flow'[h][d] = [msg |-> m, left |-> units - 1]
      /\ \A g \in Handles, e \in Dirs : ~(g = h /\ e = d) => flow'[g][e] = flow[g][e]
  BY DEF Begin, TypeInv, WorldTypeOK
<1>3. flow[h][d].left = 0 /\ (units > 1 => \A e \in Dirs : flow[h][e].left = 0)
  BY DEF Begin
<1>4. FailInv'
  BY DEF Begin, ImportStart, FailInv
<1>5. PendingInv /\ ClearedInv /\ MatchInv
  BY DEF ExactInv
<1> HIDE DEF m
<1>6. ASSUME NEW g \in Handles, NEW e \in Dirs, flow[g][e].left > 0
      PROVE  flow[g][e].msg \in Messages /\ msgUnits'[flow[g][e].msg] = msgUnits[flow[g][e].msg]
  <2>1. flow[g][e].msg \in 1..sent /\ sent <= MaxMessages
    BY <1>6, ImportAssumption DEF TypeInv, FlowInv, WorldTypeOK
  <2>2. flow[g][e].msg \in Messages /\ flow[g][e].msg # m
    BY <1>0, <2>1, ImportAssumption DEF Messages
  <2> QED
    BY <1>1, <2>2
<1>7. ASSUME NEW i \in 1..Len(delivered)
      PROVE  delivered[i] \in Messages /\ msgUnits'[delivered[i]] = msgUnits[delivered[i]]
  <2>1. delivered \in Seq(Messages) /\ delivered[i] <= sent
    BY DEF TypeInv, WorldTypeOK, ExactInv, DeliveredInv
  <2>2. delivered[i] \in Messages
    BY <2>1
  <2>3. delivered[i] # m
    BY <1>0, <2>1, <2>2, ImportAssumption DEF Messages
  <2> QED
    BY <1>1, <2>2, <2>3
<1>8. CASE units = 1
  <2>1. fragments' = fragments
    BY <1>8 DEF ImportStart
  <2>2. \A g \in Handles, e \in Dirs : flow'[g][e].left > 0 =>
          flow[g][e].left > 0 /\ flow'[g][e] = flow[g][e]
    BY <1>2, <1>8
  <2>3. PendingInv'
    BY <1>5, <1>6, <2>1, <2>2 DEF PendingInv
  <2>4. ClearedInv'
    BY <1>2, <1>3, <1>5, <2>1 DEF ClearedInv
  <2>5. CASE m \in other'
    <3>1. events' = events /\ delivered' = delivered
      BY <1>8, <2>5 DEF ImportStart, Record, Begin, Deliver, m
    <3>2. MatchInv'
      BY <1>5, <1>7, <3>1 DEF MatchInv
    <3> QED
      BY <1>4, <2>3, <2>4, <3>2
  <2>6. CASE m \notin other'
    <3> DEFINE x == [handle |-> h, direction |-> d, epoch |-> ConnectionOf(h).epoch,
                     peer |-> ConnectionOf(h).peer, conn |-> link[h], data |-> <<m>>]
    <3>1. events' = Append(events, x) /\ delivered' = Append(delivered, m)
      BY <1>8, <2>6 DEF ImportStart, Record, Begin, Deliver, m
    <3>2. x.data = Copies(m, msgUnits'[m])
      BY <1>0, <1>1, <1>8, CopiesGrow
    <3> HIDE DEF x
    <3>3. /\ Len(events) = Len(delivered) /\ Len(events) \in Nat
          /\ Len(events') = Len(events) + 1 /\ Len(delivered') = Len(events) + 1
          /\ events'[Len(events) + 1] = x /\ delivered'[Len(events) + 1] = m
          /\ \A i \in 1..Len(events) : events'[i] = events[i] /\ delivered'[i] = delivered[i]
      <4>1. events \in Seq(EventType(nextEpoch)) /\ delivered \in Seq(Messages)
        BY DEF TypeInv, WorldTypeOK, ImportTypeOK
      <4> QED
        BY <1>5, <3>1, <4>1, AppendIndices DEF MatchInv
    <3>4. MatchInv'
      BY <1>5, <1>7, <3>2, <3>3 DEF MatchInv
    <3> QED
      BY <1>4, <2>3, <2>4, <3>4
  <2> QED
    BY <2>5, <2>6
<1>9. CASE units # 1
  <2>1. /\ events' = events /\ delivered' = delivered
        /\ fragments' = [fragments EXCEPT ![h] =
             [epoch |-> ConnectionOf(h).epoch, need |-> units, data |-> <<m>>]]
    BY <1>9 DEF ImportStart, Begin, m
  <2>2. /\ fragments'[h] = [epoch |-> ConnectionOf(h).epoch, need |-> units, data |-> <<m>>]
        /\ \A g \in Handles \ {h} : fragments'[g] = fragments[g]
    BY <2>1 DEF TypeInv, ImportTypeOK
  <2>3. ConnectionOf(h).epoch # 0
    BY DEF ConnectionOf, TypeInv, ImportTypeOK
  <2>4. <<m>> = Copies(m, 1)
    BY <1>0, CopiesGrow
  <2>5. units > 1 /\ units - (units - 1) = 1 /\ units - 1 > 0
    BY <1>0, <1>9
  <2>6. PendingInv'
    <3> SUFFICES ASSUME NEW g \in Handles, NEW e \in Dirs, flow'[g][e].left > 0
                 PROVE  LET k == flow'[g][e].msg  done == msgUnits'[k] - flow'[g][e].left
                        IN /\ done > 0 /\ fragments'[g].epoch # 0 /\ fragments'[g].need = msgUnits'[k]
                           /\ fragments'[g].data = Copies(k, done)
      BY DEF PendingInv
    <3>1. CASE g = h /\ e = d
      BY <1>1, <1>2, <2>2, <2>3, <2>4, <2>5, <3>1
    <3>2. CASE g = h /\ e # d
      BY <1>2, <1>3, <2>5, <3>2
    <3>3. CASE g # h
      BY <1>2, <1>5, <1>6, <2>2, <3>3 DEF PendingInv
    <3> QED
      BY <3>1, <3>2, <3>3
  <2>7. ClearedInv'
    BY <1>2, <1>5, <2>2, <2>5 DEF ClearedInv
  <2>8. MatchInv'
    BY <1>5, <1>7, <2>1 DEF MatchInv
  <2> QED
    BY <1>4, <2>6, <2>7, <2>8
<1> QED
  BY <1>8, <1>9

(* A continuation grows the pending fragment, the last one to an event. *)
LEMMA ContinueExact ==
  ASSUME ~Duplex, TypeInv, TypeInv', EpochInv, ExactInv, missed = 0, NEW h \in Handles,
         NEW d \in Dirs, Continue(h, d), ImportContinuation(h, d, flow[h][d].msg)
  PROVE  (PendingInv /\ ClearedInv /\ MatchInv /\ FailInv)'
<1> DEFINE m == flow[h][d].msg
           f == fragments[h]
           done == msgUnits[m] - flow[h][d].left
<1>0. PendingInv /\ ClearedInv /\ MatchInv
  BY DEF ExactInv
<1>1. /\ msgUnits' = msgUnits /\ sent' = sent
      /\ flow[h][d].left > 0 /\ flow[h][d].left \in Nat /\ m \in Messages /\ msgUnits[m] \in Nat
  BY ImportAssumption DEF Continue, TypeInv, WorldTypeOK, FlowInv, Messages
<1>2. /\ done > 0 /\ done \in Nat /\ f.epoch # 0 /\ f.need = msgUnits[m] /\ f.data = Copies(m, done)
  BY <1>0, <1>1 DEF PendingInv
<1>3. /\ flow'[h][d].left = flow[h][d].left - 1 /\ flow'[h][d].msg = m
      /\ \A g \in Handles, e \in Dirs : ~(g = h /\ e = d) => flow'[g][e] = flow[g][e]
  BY DEF Continue, TypeInv, WorldTypeOK
<1>4. \A e \in Dirs : e # d => flow[h][e].left = 0
  BY <1>1 DEF ExactInv, SingleInv, TypeInv, WorldTypeOK
<1>5. f.epoch = ConnectionOf(h).epoch
  BY <1>2 DEF EpochInv, FragmentInv, ConnectionOf
<1>6. Append(f.data, m) = Copies(m, done + 1) /\ Len(Copies(m, done + 1)) = done + 1
  <2> HIDE DEF m, done
  <2>1. done + 1 \in Nat
    BY <1>2
  <2>2. Append(Copies(m, done), m) = Copies(m, done + 1)
    BY <1>1, <1>2, CopiesGrow
  <2>3. Len(Copies(m, done + 1)) = done + 1
    BY <1>1, <2>1, CopiesGrow
  <2> QED
    BY <1>2, <2>2, <2>3
<1> HIDE DEF f
<1>7. phase' = phase /\ phase = "reading"
  BY <1>5 DEF ImportContinuation, Continue, f
<1>8. FailInv'
  BY <1>7 DEF FailInv
<1>9. CASE flow[h][d].left > 1
  <2>1. Incomplete(Append(f.data, m), f.need)
    BY <1>1, <1>2, <1>6, <1>9 DEF Incomplete
  <2>2. fragments' = [fragments EXCEPT ![h].data = Copies(m, done + 1)] /\ events' = events
    BY <1>5, <1>6, <2>1 DEF ImportContinuation, f
  <2>3. delivered' = delivered
    BY <1>1, <1>9 DEF Continue
  <2>4. /\ fragments'[h].data = Copies(m, done + 1) /\ fragments'[h].epoch = f.epoch
        /\ fragments'[h].need = f.need
        /\ \A g \in Handles \ {h} : fragments'[g] = fragments[g]
    BY <2>2 DEF TypeInv, ImportTypeOK, f
  <2>5. PendingInv'
    <3> SUFFICES ASSUME NEW g \in Handles, NEW e \in Dirs, flow'[g][e].left > 0
                 PROVE  LET k == flow'[g][e].msg  sofar == msgUnits'[k] - flow'[g][e].left
                        IN /\ sofar > 0 /\ fragments'[g].epoch # 0 /\ fragments'[g].need = msgUnits'[k]
                           /\ fragments'[g].data = Copies(k, sofar)
      BY DEF PendingInv
    <3>1. CASE g = h /\ e = d
      <4>1. msgUnits'[m] - flow'[h][d].left = done + 1
        BY <1>1, <1>3
      <4> QED
        BY <1>1, <1>2, <1>3, <2>4, <3>1, <4>1
    <3>2. CASE g = h /\ e # d
      BY <1>3, <1>4, <3>2
    <3>3. CASE g # h
      BY <1>0, <1>1, <1>3, <2>4, <3>3 DEF PendingInv
    <3> QED
      BY <3>1, <3>2, <3>3
  <2>6. ClearedInv'
    BY <1>0, <1>1, <1>3, <1>9, <2>4 DEF ClearedInv
  <2>7. MatchInv'
    BY <1>0, <1>1, <2>2, <2>3 DEF MatchInv
  <2> QED
    BY <1>8, <2>5, <2>6, <2>7
<1>10. CASE flow[h][d].left = 1
  <2>0. done + 1 = msgUnits[m] /\ done + 1 \in Nat
    BY <1>1, <1>2, <1>10
  <2>1. ~Incomplete(Append(f.data, m), f.need)
    BY <1>2, <1>6, <2>0 DEF Incomplete
  <2>2. SubSeq(Append(f.data, m), 1, f.need) = Copies(m, msgUnits[m])
    <3> HIDE DEF m, done
    <3>1. SubSeq(Copies(m, msgUnits[m]), 1, msgUnits[m]) = Copies(m, msgUnits[m])
      BY <1>1, CopiesGrow
    <3> QED
      BY <1>2, <1>6, <2>0, <3>1
  <2> DEFINE x == [handle |-> h, direction |-> d, epoch |-> ConnectionOf(h).epoch,
                   peer |-> ConnectionOf(h).peer, conn |-> link[h],
                   data |-> Copies(m, msgUnits[m])]
  <2>3. /\ fragments' = [fragments EXCEPT ![h] = NoFragment]
        /\ Record(h, d, Copies(m, msgUnits[m]))
    BY <1>5, <2>1, <2>2 DEF ImportContinuation, f
  <2>4. Copies(m, msgUnits[m])[1] = m
    BY <1>1, <1>2, <2>0 DEF Copies
  <2>5. /\ fragments'[h].epoch = 0 /\ \A g \in Handles \ {h} : fragments'[g] = fragments[g]
    BY <2>3 DEF TypeInv, ImportTypeOK, NoFragment
  <2>6. PendingInv'
    BY <1>0, <1>1, <1>3, <1>4, <1>10, <2>5 DEF PendingInv
  <2>7. ClearedInv'
    BY <1>0, <1>3, <2>5 DEF ClearedInv
  <2>8. CASE m \in other'
    <3>1. events' = events /\ delivered' = delivered
      BY <1>1, <1>10, <2>3, <2>4, <2>8 DEF Record, Continue, Deliver
    <3>2. MatchInv'
      BY <1>0, <1>1, <3>1 DEF MatchInv
    <3> QED
      BY <1>8, <2>6, <2>7, <3>2
  <2>9. CASE m \notin other'
    <3>0. events' = Append(events, x) /\ delivered' = Append(delivered, m)
      BY <1>1, <1>10, <2>3, <2>4, <2>9 DEF Record, Continue, Deliver
    <3>1. x.data = Copies(m, msgUnits[m])
      OBVIOUS
    <3> HIDE DEF x, m
    <3>2. /\ Len(events) = Len(delivered) /\ Len(events) \in Nat
          /\ Len(events') = Len(events) + 1 /\ Len(delivered') = Len(events) + 1
          /\ events'[Len(events) + 1] = x /\ delivered'[Len(events) + 1] = m
          /\ \A i \in 1..Len(events) : events'[i] = events[i] /\ delivered'[i] = delivered[i]
      <4>1. events \in Seq(EventType(nextEpoch)) /\ delivered \in Seq(Messages)
        BY DEF TypeInv, WorldTypeOK, ImportTypeOK
      <4> QED
        BY <1>0, <3>0, <4>1, AppendIndices DEF MatchInv
    <3>3. MatchInv'
      BY <1>0, <1>1, <3>1, <3>2 DEF MatchInv
    <3> QED
      BY <1>8, <2>6, <2>7, <3>3
  <2> QED
    BY <2>8, <2>9
<1> QED
  BY <1>1, <1>9, <1>10

(* A connection or a disconnection clears what is pending on its handle. *)
LEMMA LinkExact ==
  ASSUME TypeInv, ExactInv, missed = 0, NEW h \in Handles, phase = "reading", phase' = phase,
         msgUnits' = msgUnits, delivered' = delivered, events' = events,
         \A d \in Dirs : flow'[h][d].left = 0, fragments'[h].epoch = 0,
         \A g \in Handles \ {h} : flow'[g] = flow[g] /\ fragments'[g] = fragments[g]
  PROVE  (PendingInv /\ ClearedInv /\ MatchInv /\ FailInv)'
<1>1. PendingInv'
  BY DEF ExactInv, PendingInv
<1>2. ClearedInv'
  BY DEF ExactInv, ClearedInv
<1>3. MatchInv' /\ FailInv'
  BY DEF ExactInv, MatchInv, FailInv
<1> QED
  BY <1>1, <1>2, <1>3

(* The invariant of lossless captures is inductive. *)
LEMMA ExactStep ==
  ASSUME ~Duplex, TypeInv, TypeInv', EpochInv, ExactInv, [Next]_vars
  PROVE  ExactInv'
<1>1. SingleInv' /\ DeliveredInv'
  BY SingleStep DEF ExactInv
<1>2. ASSUME missed' = 0
      PROVE  (PendingInv /\ ClearedInv /\ MatchInv /\ FailInv)'
  <2>0. missed \in Nat /\ \A kind : ~Missed(kind) /\ ~Spoilt(kind)
    <3>1. missed \in Nat
      BY ImportAssumption DEF TypeInv, WorldTypeOK
    <3>2. ASSUME NEW kind, Missed(kind) \/ Spoilt(kind)
          PROVE  FALSE
      BY <1>2, <3>1, <3>2 DEF Missed, Spoilt
    <3> QED
      BY <3>1, <3>2
  <2>1. ASSUME NEW h \in Handles, Open(h)
        PROVE  (PendingInv /\ ClearedInv /\ MatchInv /\ FailInv)'
    <3>1. ImportConnect(h, conns') /\ missed = 0 /\ link[h] = 0
      BY <1>2, <2>0, <2>1 DEF Open
    <3>2. \A d \in Dirs : flow[h][d].left = 0
      BY <3>1 DEF TypeInv, FlowInv, WorldTypeOK
    <3>3. /\ phase = "reading" /\ phase' = phase /\ msgUnits' = msgUnits /\ delivered' = delivered
          /\ events' = events /\ flow' = flow
      BY <2>1, <3>1 DEF Open, ImportConnect
    <3>4. /\ fragments'[h].epoch = 0
          /\ \A g \in Handles \ {h} : fragments'[g] = fragments[g]
      BY <3>1 DEF ImportConnect, NoFragment, TypeInv, ImportTypeOK
    <3> QED
      BY <3>1, <3>2, <3>3, <3>4, LinkExact
  <2>2. ASSUME NEW h \in Handles, Close(h)
        PROVE  (PendingInv /\ ClearedInv /\ MatchInv /\ FailInv)'
    <3>1. ImportDisconnect(h, link[h]) /\ missed = 0
      BY <1>2, <2>0, <2>2 DEF Close
    <3>2. /\ \A d \in Dirs : flow'[h][d].left = 0
          /\ \A g \in Handles \ {h} : flow'[g] = flow[g]
      BY <2>2 DEF Close, Idle, TypeInv, WorldTypeOK
    <3>3. /\ phase = "reading" /\ phase' = phase /\ msgUnits' = msgUnits /\ delivered' = delivered
          /\ events' = events
      BY <2>2, <3>1 DEF Close, ImportDisconnect
    <3>4. /\ fragments'[h].epoch = 0
          /\ \A g \in Handles \ {h} : fragments'[g] = fragments[g]
      BY <3>1 DEF ImportDisconnect, NoFragment, TypeInv, ImportTypeOK
    <3> QED
      BY <3>1, <3>2, <3>3, <3>4, LinkExact
  <2>3. ASSUME NEW h \in Handles, NEW d \in Dirs, NEW units \in 1..MaxUnits, Begin(h, d, units)
        PROVE  (PendingInv /\ ClearedInv /\ MatchInv /\ FailInv)'
    <3>1. ImportStart(h, d, sent', units) /\ missed = 0
      BY <1>2, <2>0, <2>3 DEF Begin
    <3> QED
      BY <2>3, <3>1, BeginExact
  <2>4. ASSUME NEW h \in Handles, NEW d \in Dirs, Continue(h, d)
        PROVE  (PendingInv /\ ClearedInv /\ MatchInv /\ FailInv)'
    <3>1. ImportContinuation(h, d, flow[h][d].msg) /\ missed = 0
      BY <1>2, <2>0, <2>4 DEF Continue
    <3> QED
      BY <2>4, <3>1, ContinueExact
  <2>5. CASE Finish
    <3>1. UNCHANGED <<flow, msgUnits, delivered, fragments, events, missed>>
      BY <2>5 DEF Finish, world
    <3>2. PendingInv' /\ ClearedInv' /\ MatchInv'
      BY <1>2, <3>1 DEF ExactInv, PendingInv, ClearedInv, MatchInv
    <3>3. FailInv'
      <4> SUFFICES ASSUME phase' = "failed"
                   PROVE  \E h \in Handles, d \in Dirs : flow[h][d].left > 0
        BY <3>1 DEF FailInv
      <4>1. PICK h \in Handles : fragments[h].epoch # 0
        BY <2>5 DEF Finish
      <4>2. PICK d \in Dirs : flow[h][d].left # 0
        BY <1>2, <3>1, <4>1 DEF ExactInv, ClearedInv
      <4> QED
        BY <4>2 DEF TypeInv, WorldTypeOK
    <3> QED
      BY <3>2, <3>3
  <2>6. CASE UNCHANGED vars
    BY <1>2, <2>6 DEF vars, world, import, ExactInv, PendingInv, ClearedInv, MatchInv, FailInv
  <2> QED
    BY <2>1, <2>2, <2>3, <2>4, <2>5, <2>6 DEF Next
<1> QED
  BY <1>1, <1>2 DEF ExactInv

(* A capture without losses is never rejected while it is read and gives one
   event per completed ATT message, whole and in order, provided the packets of the
   two directions of a handle do not interleave within cut messages; with them
   it is false (capture.py:110-184, 445-476). *)
THEOREM LosslessExact ==
  ASSUME ~Duplex
  PROVE  Spec => []LosslessImportIsExact
<1>1. Init => ExactInv
  BY DEF Init, ExactInv, SingleInv, DeliveredInv, PendingInv, ClearedInv, MatchInv, FailInv,
         Idle, NoFragment
<1>2. TypeInv /\ TypeInv' /\ EpochInv /\ ExactInv /\ [Next]_vars => ExactInv'
  BY ExactStep
<1>3. ExactInv => LosslessImportIsExact
  BY DEF ExactInv, MatchInv, FailInv, LosslessImportIsExact, Copies
<1> QED
  BY <1>1, <1>2, <1>3, TypeInvHolds, EpochInvHolds, PTL DEF Spec

-----------------------------------------------------------------------------
(* Names of sources. *)

(* A set of numbers that is not empty has a least one. *)
LEMMA LeastNumber ==
  ASSUME NEW T \in SUBSET Nat, T # {}
  PROVE  \E x \in T : \A y \in T : x <= y
<1> DEFINE R == {ss \in Nat \X Nat : ss[1] < ss[2]}
<1>1. IsWellFoundedOn(R, Nat)
  BY NatLessThanWellFounded DEF OpToRel
<1> HIDE DEF R
<1>2. PICK x \in T : \A y \in T : ~ (<<y, x>> \in R)
  BY <1>1, WFMin, Zenon
<1>3. \A y \in T : ~ (y < x)
  BY <1>2 DEF R
<1> QED
  BY <1>3

(* Events as the catalogue of sources reads them: an epoch has one handle. *)
NamedEvents(n) ==
  {s \in Seq(EventType(n)) :
     \A i, j \in 1..Len(s) : s[i].epoch = s[j].epoch => s[i].handle = s[j].handle}

(* The fields of an event in the catalogue. *)
LEMMA EventFields ==
  ASSUME NEW n \in Nat, NEW E \in NamedEvents(n)
  PROVE  /\ Len(E) \in Nat
         /\ \A i \in 1..Len(E) : /\ E[i].epoch \in 1..n /\ E[i].handle \in Handles
                                 /\ E[i].peer \in Peers \cup {"none"}
<1>1. Len(E) \in Nat /\ \A i \in 1..Len(E) : E[i] \in EventType(n)
  BY DEF NamedEvents
<1> QED
  BY <1>1 DEF EventType

(* There are finitely many epochs to rank. *)
LEMMA UnnamedFinite ==
  ASSUME NEW n \in Nat, NEW E \in NamedEvents(n), NEW h, NEW i \in 0..Len(E)
  PROVE  IsFiniteSet(UnnamedEpochs(E, h, i))
<1>1. UnnamedEpochs(E, h, i) \in SUBSET (1..n)
  BY EventFields DEF UnnamedEpochs
<1>2. IsFiniteSet(1..n)
  BY FS_Interval
<1> QED
  BY <1>1, <1>2, FS_Subset

FirstOf(E, i) ==
  CHOOSE j \in 1..i : /\ E[j].epoch = E[i].epoch /\ E[j].peer = "none"
                      /\ \A k \in 1..(j - 1) : ~ /\ E[k].peer = "none"
                                                 /\ E[k].epoch = E[i].epoch

(* The first unattributed event of an epoch exists. *)
LEMMA FirstOfIsFirst ==
  ASSUME NEW n \in Nat, NEW E \in NamedEvents(n), NEW i \in 1..Len(E), E[i].peer = "none"
  PROVE  /\ FirstOf(E, i) \in 1..i
         /\ E[FirstOf(E, i)].epoch = E[i].epoch /\ E[FirstOf(E, i)].peer = "none"
         /\ \A k \in 1..(FirstOf(E, i) - 1) : ~ (E[k].peer = "none" /\ E[k].epoch = E[i].epoch)
<1>0. i \in Nat /\ i >= 1
  BY EventFields
<1> DEFINE T == {j \in 1..i : E[j].peer = "none" /\ E[j].epoch = E[i].epoch}
<1>1. T \in SUBSET Nat /\ i \in T
  BY <1>0
<1>2. PICK j \in T : \A y \in T : j <= y
  BY <1>1, LeastNumber
<1>3. /\ j \in 1..i /\ E[j].epoch = E[i].epoch /\ E[j].peer = "none"
      /\ \A k \in 1..(j - 1) : ~ /\ E[k].peer = "none"
                                 /\ E[k].epoch = E[i].epoch
  <2>1. ASSUME NEW k \in 1..(j - 1), E[k].peer = "none", E[k].epoch = E[i].epoch
        PROVE  FALSE
    <3>1. k \in T /\ k < j
      BY <1>0, <1>2, <2>1
    <3> QED
      BY <1>0, <1>2, <3>1
  <2> QED
    BY <1>2, <2>1
<1> HIDE DEF T
<1> QED
  BY <1>3 DEF FirstOf

(* The label is the handle alone or with a rank. *)
LEMMA LabelForm ==
  ASSUME NEW E, NEW i
  PROVE  UnattributedLabel(E, i) =
           IF Cardinality(UnnamedEpochs(E, E[i].handle, Len(E))) = 1
           THEN ConnName(E[i].handle, 0)
           ELSE ConnName(E[i].handle, Cardinality(UnnamedEpochs(E, E[i].handle, FirstOf(E, i))))
BY DEF UnattributedLabel, FirstOf

(* Unattributed events on one handle with one label are of one epoch. *)
LEMMA LabelIsEpoch ==
  ASSUME NEW n \in Nat, NEW E \in NamedEvents(n), NEW i \in 1..Len(E), NEW j \in 1..Len(E),
         E[i].peer = "none", E[j].peer = "none",
         UnattributedLabel(E, i) = UnattributedLabel(E, j)
  PROVE  E[i].epoch = E[j].epoch
<1> DEFINE h == E[i].handle
           all == UnnamedEpochs(E, h, Len(E))
           rank(k) == Cardinality(UnnamedEpochs(E, h, FirstOf(E, k)))
<1>0. Len(E) \in Nat /\ FirstOf(E, i) \in 1..i /\ FirstOf(E, j) \in 1..j
  BY EventFields, FirstOfIsFirst
<1>1. E[j].handle = h
  BY LabelForm DEF ConnName
<1>2. CASE Cardinality(all) = 1
  <2>1. E[i].epoch \in all /\ E[j].epoch \in all
    BY <1>0, <1>1 DEF UnnamedEpochs
  <2>2. IsFiniteSet(all)
    BY <1>0, UnnamedFinite
  <2>3. PICK x : all = {x}
    BY <1>2, <2>2, FS_Singleton
  <2> QED
    BY <2>1, <2>3
<1>3. CASE Cardinality(all) # 1
  <2>1. rank(i) = rank(j)
    BY <1>1, <1>3, LabelForm DEF ConnName
  <2>2. ASSUME NEW a \in 1..Len(E), NEW b \in 1..Len(E), E[a].peer = "none", E[b].peer = "none",
               E[a].handle = h, E[b].handle = h, rank(a) = rank(b),
               FirstOf(E, a) < FirstOf(E, b)
        PROVE  FALSE
    <3> DEFINE x == FirstOf(E, a)  y == FirstOf(E, b)
               ux == UnnamedEpochs(E, h, x)  uy == UnnamedEpochs(E, h, y)
    <3>1. /\ x \in 1..Len(E) /\ y \in 1..Len(E) /\ x < y
          /\ E[y].epoch = E[b].epoch /\ E[y].peer = "none"
          /\ \A k \in 1..(y - 1) : ~ (E[k].peer = "none" /\ E[k].epoch = E[b].epoch)
      <4>1. /\ x \in 1..a /\ y \in 1..b /\ E[y].epoch = E[b].epoch /\ E[y].peer = "none"
            /\ \A k \in 1..(y - 1) : ~ (E[k].peer = "none" /\ E[k].epoch = E[b].epoch)
        BY <2>2, FirstOfIsFirst
      <4>2. x < y
        BY <2>2
      <4> HIDE DEF x, y
      <4> QED
        BY <1>0, <4>1, <4>2
    <3>2. E[y].handle = h
      BY <2>2, <3>1 DEF NamedEvents
    <3> HIDE DEF x, y
    <3>3. ux \subseteq uy
      BY <1>0, <3>1 DEF UnnamedEpochs
    <3>4. E[b].epoch \in uy
      BY <1>0, <3>1, <3>2 DEF UnnamedEpochs
    <3>5. E[b].epoch \notin ux
      BY <1>0, <3>1 DEF UnnamedEpochs
    <3>6. IsFiniteSet(uy)
      BY <1>0, <3>1, UnnamedFinite
    <3>7. Cardinality(ux) = Cardinality(uy)
      BY <2>2 DEF x, y
    <3> HIDE DEF ux, uy
    <3>8. ux = uy
      BY <3>3, <3>6, <3>7, FS_Subset
    <3> QED
      BY <3>4, <3>5, <3>8
  <2>3. FirstOf(E, i) = FirstOf(E, j)
    <3>1. ~ (FirstOf(E, i) < FirstOf(E, j)) /\ ~ (FirstOf(E, j) < FirstOf(E, i))
      BY <1>1, <2>1, <2>2
    <3> QED
      BY <1>0, <3>1
  <2> QED
    BY <2>3, FirstOfIsFirst
<1> QED
  BY <1>2, <1>3

(* A name in the catalogue stands for one peer, or for one epoch that has none:
   the rank in the label of an unattributed source tells the epochs of its handle
   apart (attribution.py:83-90, 171-190). *)
THEOREM NameIsSource ==
  ASSUME NEW n \in Nat, NEW E \in NamedEvents(n), NEW i \in 1..Len(E), NEW j \in 1..Len(E),
         SourceIdentifier(E, i) = SourceIdentifier(E, j)
  PROVE  E[i].peer = E[j].peer /\ (E[i].peer = "none" => E[i].epoch = E[j].epoch)
<1>1. \A k \in 1..Len(E) : E[k].peer = "none" => SourceIdentifier(E, k)[1] = "?conn"
  BY DEF SourceIdentifier, UnattributedLabel, ConnName
<1>2. \A k \in 1..Len(E) : E[k].peer # "none" =>
        SourceIdentifier(E, k)[1] = "peer" /\ SourceIdentifier(E, k)[2] = E[k].peer
  BY DEF SourceIdentifier, PeerName
<1>3. CASE E[i].peer = "none"
  <2>1. E[j].peer = "none"
    BY <1>1, <1>2, <1>3
  <2> QED
    BY <1>3, <2>1, LabelIsEpoch DEF SourceIdentifier
<1>4. CASE E[i].peer # "none"
  BY <1>1, <1>2, <1>4
<1> QED
  BY <1>3, <1>4

-----------------------------------------------------------------------------
(* The source that is selected. *)

(* A source that is the only match is all there is to match. *)
LEMMA TheOnlyIs ==
  ASSUME NEW S, IsFiniteSet(S), TheOnly(S) # Refused
  PROVE  S = {TheOnly(S)}
<1>1. PICK x : S = {x}
  BY FS_Singleton DEF TheOnly
<1>2. Cardinality(S) = 1
  BY DEF TheOnly
<1> QED
  BY <1>1, <1>2 DEF TheOnly

(* A catalogue has finitely many sources. *)
LEMMA SourcesFinite ==
  ASSUME NEW n \in Nat, NEW E \in NamedEvents(n)
  PROVE  IsFiniteSet(CatalogueSources(E))
<1> DEFINE f == [i \in 1..Len(E) |-> SourceIdentifier(E, i)]
<1>1. f \in Surjection(1..Len(E), CatalogueSources(E))
  BY DEF CatalogueSources, Surjection
<1>2. IsFiniteSet(1..Len(E))
  BY EventFields, FS_Interval
<1> QED
  BY <1>1, <1>2, FS_Surjection

Matches(sources, selector) ==
  IF selector[1] = "tail"
  THEN {s \in sources : s[1] = "peer" /\ s[2] \in selector[2]}
  ELSE sources \cap {selector}

(* A selector that is resolved matches one source. *)
LEMMA ResolvedIs ==
  ASSUME NEW sources, IsFiniteSet(sources), NEW selector,
         ResolveSource(sources, selector) # Refused
  PROVE  Matches(sources, selector) = {ResolveSource(sources, selector)}
<1>1. ResolveSource(sources, selector) = TheOnly(Matches(sources, selector))
  BY DEF ResolveSource, Matches
<1>2. Matches(sources, selector) \in SUBSET sources
  BY DEF Matches
<1>3. IsFiniteSet(Matches(sources, selector))
  BY <1>2, FS_Subset
<1> QED
  BY <1>1, <1>3, TheOnlyIs

(* A selection that is not refused is the only source that matches. *)
LEMMA Selected ==
  ASSUME NEW n \in Nat, NEW E \in NamedEvents(n), NEW expected, NEW source,
         NEW allow \in BOOLEAN, SelectSource(E, expected, source, allow) # Refused
  PROVE  LET c == SelectSource(E, expected, source, allow)
             sources == CatalogueSources(E)
         IN /\ c \in sources
            /\ expected # NoSelector => Matches(sources, expected) = {c} /\ ~IsUnattributed(c)
            /\ expected = NoSelector /\ source # NoSelector => Matches(sources, source) = {c}
            /\ expected = NoSelector /\ source = NoSelector => sources = {c}
            /\ ~allow => \A s \in sources : ~IsUnattributed(s)
<1> DEFINE c == SelectSource(E, expected, source, allow)
           sources == CatalogueSources(E)
<1>0. IsFiniteSet(sources)
  BY SourcesFinite
<1>1. c = IF expected # NoSelector THEN ResolveSource(sources, expected)
          ELSE IF source # NoSelector THEN ResolveSource(sources, source)
          ELSE TheOnly(sources)
  BY DEF SelectSource
<1>2. ~allow => \A s \in sources : ~IsUnattributed(s)
  BY DEF SelectSource
<1>3. expected # NoSelector => ~IsUnattributed(c)
  BY DEF SelectSource
<1>4. c # Refused
  OBVIOUS
<1> HIDE DEF c, sources
<1>5. expected # NoSelector => Matches(sources, expected) = {c}
  BY <1>0, <1>1, <1>4, ResolvedIs
<1>6. expected = NoSelector /\ source # NoSelector => Matches(sources, source) = {c}
  BY <1>0, <1>1, <1>4, ResolvedIs
<1>7. expected = NoSelector /\ source = NoSelector => sources = {c}
  BY <1>0, <1>1, <1>4, TheOnlyIs
<1>8. \A selector : Matches(sources, selector) \subseteq sources
  BY DEF Matches
<1>9. c \in sources
  BY <1>5, <1>6, <1>7, <1>8
<1> QED
  BY <1>2, <1>3, <1>5, <1>6, <1>7, <1>9 DEF c, sources

-----------------------------------------------------------------------------
(* The import command. *)

(* The run directory was written from a selection of the finished import. *)
StoredAs(expected, source, allow) ==
  LET chosen == SelectSource(events, expected, source, allow)
  IN /\ chosen # Refused
     /\ requested = [peers |-> Requested(expected, source), allow |-> allow]
     /\ stored = [events |-> EventsOf(events, chosen), connections |-> RecordsOf(chosen)]

StoredInv ==
  outcome = "stored" =>
    /\ phase = "imported"
    /\ \E expected, source \in Selectors, allow \in BOOLEAN : StoredAs(expected, source, allow)

(* The importer takes steps only while it reads. *)
LEMMA ImportReads == Next => phase = "reading"
BY DEF Next, Open, Close, Begin, Continue, Finish

(* What was written stays a selection of the finished import. *)
LEMMA StoredStep == StoredInv /\ [CommandNext]_commandVars => StoredInv'
<1> SUFFICES ASSUME StoredInv, [CommandNext]_commandVars
             PROVE  StoredInv'
  OBVIOUS
<1>1. CASE Import
  BY <1>1, ImportReads DEF Import, StoredInv
<1>2. ASSUME NEW expected \in Selectors, NEW source \in Selectors, NEW allow \in BOOLEAN,
             Store(expected, source, allow)
      PROVE  StoredInv'
  <2>1. phase' = "imported" /\ events' = events /\ connections' = connections
    BY <1>2 DEF Store, vars, import
  <2>2. outcome' = "stored" => StoredAs(expected, source, allow)'
    BY <1>2, <2>1 DEF Store, StoredAs, RecordsOf
  <2> QED
    BY <2>1, <2>2 DEF StoredInv, Selectors
<1>3. NoSelector \in Selectors
  BY DEF Selectors
<1>4. CASE UNCHANGED commandVars
  <2>1. /\ outcome' = outcome /\ requested' = requested /\ stored' = stored
        /\ phase' = phase /\ events' = events /\ connections' = connections
    BY <1>4 DEF commandVars, vars, import
  <2>2. \A expected, source, allow :
          StoredAs(expected, source, allow) => StoredAs(expected, source, allow)'
    BY <2>1 DEF StoredAs, RecordsOf
  <2> QED
    BY <2>1, <2>2 DEF StoredInv, Selectors
<1> QED
  BY <1>1, <1>2, <1>3, <1>4 DEF CommandNext

(* The command reads the capture as the importer alone does. *)
LEMMA CommandImports == CommandSpec => Spec
<1>1. CommandInit => Init
  BY DEF CommandInit
<1>2. [CommandNext]_commandVars => [Next]_vars
  BY DEF CommandNext, Import, Store, commandVars
<1> QED
  BY <1>1, <1>2, PTL DEF CommandSpec, Spec

CommandInv == ConnectionInv /\ StoredInv

(* All of it holds of the command. *)
LEMMA CommandInvHolds ==
  ASSUME LossesApart
  PROVE  CommandSpec => []CommandInv
<1>1. CommandInit => StoredInv
  BY DEF CommandInit, StoredInv
<1>2. ConnectionInv /\ StoredInv => CommandInv
  BY DEF CommandInv
<1> QED
  BY <1>1, <1>2, StoredStep, CommandImports, ConnectionInvHolds, PTL DEF CommandSpec

(* What a state of the command says of events and records alike. *)
LEMMA SeenOnce ==
  ASSUME ConnectionInv
  PROVE  /\ nextEpoch \in Nat /\ events \in NamedEvents(nextEpoch)
         /\ \A i, j \in 1..Len(events) :
              (events[i].epoch = events[j].epoch <=> events[i].conn = events[j].conn)
         /\ \A i \in 1..Len(events) : /\ events[i].peer \in {"none", peerOf[events[i].conn]}
                                      /\ events[i].conn \in Conns /\ events[i].epoch # 0
         /\ \A i \in 1..Len(connections), j \in 1..Len(events) :
              connections[i].epoch # 0 =>
                (connections[i].epoch = events[j].epoch <=> connections[i].conn = events[j].conn)
<1>1. \A i \in 1..Len(events) : events[i] \in Events
  BY DEF Events
<1>2. \A i \in 1..Len(connections) : connections[i] \in ConnectionRecords
  BY DEF ConnectionRecords
<1>3. \A e \in Events : Sighting(e) \in Sightings
  BY DEF Sightings
<1>4. \A r \in ConnectionRecords : r.epoch # 0 => Sighting(r) \in Sightings
  BY DEF Sightings
<1>5. \A s, t \in Sightings : s.conn = t.conn \/ s.epoch = t.epoch => s = t
  BY DEF ConnectionInv, SightInv, SightedOnce
<1>6. \A e, f \in Events : /\ e.epoch = f.epoch <=> e.conn = f.conn
                           /\ e.epoch = f.epoch => e.handle = f.handle
  BY <1>3, <1>5 DEF Sighting
<1>7. \A r \in ConnectionRecords, f \in Events :
        r.epoch # 0 => (r.epoch = f.epoch <=> r.conn = f.conn)
  BY <1>3, <1>4, <1>5 DEF Sighting
<1>8. nextEpoch \in Nat /\ events \in Seq(EventType(nextEpoch))
  BY DEF ConnectionInv, TypeInv, ImportTypeOK
<1>9. events \in NamedEvents(nextEpoch)
  BY <1>1, <1>6, <1>8 DEF NamedEvents
<1>10. \A e \in Events : e.peer \in {"none", peerOf[e.conn]}
  BY <1>3 DEF ConnectionInv, SightInv, SightedTrue, Sighting
<1>11. \A i \in 1..Len(events) : events[i].conn \in Conns /\ events[i].epoch # 0
  <2>1. \A i \in 1..Len(events) : events[i] \in EventType(nextEpoch)
    BY <1>8
  <2> QED
    BY <1>8, <2>1 DEF EventType
<1> QED
  BY <1>1, <1>2, <1>6, <1>7, <1>8, <1>9, <1>10, <1>11

(* What was stored is one source of the capture, the only one that fits. *)
LEMMA StoredSource ==
  ASSUME CommandInv, outcome = "stored"
  PROVE  \E c \in CatalogueSources(events) :
           /\ stored = [events |-> EventsOf(events, c), connections |-> RecordsOf(c)]
           /\ \/ requested.peers = {}
              \/ requested.peers = Peers /\ CatalogueSources(events) = {c}
              \/ {s \in CatalogueSources(events) : s[1] = "peer" /\ s[2] \in requested.peers} = {c}
           /\ ~requested.allow => \A s \in CatalogueSources(events) : ~IsUnattributed(s)
<1> DEFINE sources == CatalogueSources(events)
<1>1. PICK expected \in Selectors, source \in Selectors, allow \in BOOLEAN :
        StoredAs(expected, source, allow)
  BY DEF CommandInv, StoredInv
<1> DEFINE c == SelectSource(events, expected, source, allow)
<1>2. nextEpoch \in Nat /\ events \in NamedEvents(nextEpoch)
  BY SeenOnce DEF CommandInv
<1>3. /\ c # Refused
      /\ requested.peers = Requested(expected, source) /\ requested.allow = allow
      /\ stored = [events |-> EventsOf(events, c), connections |-> RecordsOf(c)]
  BY <1>1 DEF StoredAs
<1>4. /\ c \in sources
      /\ expected # NoSelector => Matches(sources, expected) = {c}
      /\ expected = NoSelector /\ source # NoSelector => Matches(sources, source) = {c}
      /\ expected = NoSelector /\ source = NoSelector => sources = {c}
      /\ ~allow => \A s \in sources : ~IsUnattributed(s)
  BY <1>2, <1>3, Selected
<1> HIDE DEF c, sources
<1>5. CASE expected # NoSelector
  <2>1. expected[1] = "tail" =>
          {s \in sources : s[1] = "peer" /\ s[2] \in expected[2]} = {c}
    BY <1>4, <1>5 DEF Matches
  <2>2. source[1] = "tail" => source # NoSelector
    BY DEF NoSelector
  <2>3. source # NoSelector => FALSE
    BY <1>3, <1>5 DEF c, SelectSource
  <2>4. requested.peers = IF expected[1] = "tail" THEN expected[2] ELSE {}
    BY <1>3, <1>5, <2>2, <2>3 DEF Requested
  <2> QED
    BY <1>3, <1>4, <2>1, <2>4 DEF sources
<1>6. CASE expected = NoSelector /\ source # NoSelector
  <2>1. source[1] = "tail" =>
          {s \in sources : s[1] = "peer" /\ s[2] \in source[2]} = {c}
    BY <1>4, <1>6 DEF Matches
  <2>2. expected[1] # "tail"
    BY <1>6 DEF NoSelector
  <2>3. requested.peers = IF source[1] = "tail" THEN source[2] ELSE {}
    BY <1>3, <1>6, <2>2 DEF Requested
  <2> QED
    BY <1>3, <1>4, <2>1, <2>3 DEF sources
<1>7. CASE expected = NoSelector /\ source = NoSelector
  <2>1. expected[1] # "tail" /\ source[1] # "tail"
    BY <1>7 DEF NoSelector
  <2>2. requested.peers = Peers
    BY <1>3, <1>7, <2>1 DEF Requested
  <2> QED
    BY <1>3, <1>4, <1>7, <2>2 DEF sources
<1> QED
  BY <1>5, <1>6, <1>7

(* The name of an event with a peer is its peer's, and its peer is that of
   its connection. *)
LEMMA NamedTruly ==
  ASSUME ConnectionInv, NEW i \in 1..Len(events)
  PROVE  LET name == SourceIdentifier(events, i)
         IN /\ peerOf[events[i].conn] \in Peers
            /\ events[i].peer = "none" <=> IsUnattributed(name)
            /\ name[1] = "peer" <=> ~IsUnattributed(name)
            /\ name[1] = "peer" => name = PeerName(peerOf[events[i].conn])
<1>1. events[i].conn \in Conns /\ events[i].peer \in {"none", peerOf[events[i].conn]}
  BY SeenOnce
<1>2. peerOf[events[i].conn] \in Peers
  BY <1>1 DEF ConnectionInv, TypeInv, WorldTypeOK
<1>3. events[i].peer = "none" => SourceIdentifier(events, i)[1] = "?conn"
  BY DEF SourceIdentifier, UnattributedLabel, ConnName
<1>4. events[i].peer # "none" =>
        SourceIdentifier(events, i) = PeerName(peerOf[events[i].conn])
  BY <1>1 DEF SourceIdentifier
<1>5. PeerName(peerOf[events[i].conn])[1] = "peer"
  BY DEF PeerName
<1>6. "peer" # "?conn"
  OBVIOUS
<1> QED
  BY <1>2, <1>3, <1>4, <1>5, <1>6 DEF IsUnattributed

(* Events with one name are events of one peer. *)
LEMMA NameIsPeer ==
  ASSUME ConnectionInv, NEW i \in 1..Len(events), NEW j \in 1..Len(events),
         SourceIdentifier(events, i) = SourceIdentifier(events, j)
  PROVE  peerOf[events[i].conn] = peerOf[events[j].conn]
<1>1. /\ nextEpoch \in Nat /\ events \in NamedEvents(nextEpoch)
      /\ events[i].epoch = events[j].epoch <=> events[i].conn = events[j].conn
      /\ events[i].peer \in {"none", peerOf[events[i].conn]}
      /\ events[j].peer \in {"none", peerOf[events[j].conn]}
  BY SeenOnce
<1>2. events[i].peer = events[j].peer /\ (events[i].peer = "none" => events[i].epoch = events[j].epoch)
  BY <1>1, NameIsSource
<1> QED
  BY <1>1, <1>2

(* A run directory holds the traffic of one peer only, one that the
   selectors name if they name any, whatever packets the capture misses
   (attribution.py:145-169, cli.py:231-237). *)
THEOREM StoredOnePeer ==
  ASSUME LossesApart
  PROVE  CommandSpec => []StoredIsOnePeer
<1>1. CommandInv => StoredIsOnePeer
  <2> SUFFICES ASSUME CommandInv, outcome = "stored"
               PROVE  \E p \in Peers : /\ \A k \in StoredConns : peerOf[k] = p
                                       /\ requested.peers # {} => p \in requested.peers
    BY DEF StoredIsOnePeer
  <2>1. PICK c \in CatalogueSources(events) :
          /\ stored = [events |-> EventsOf(events, c), connections |-> RecordsOf(c)]
          /\ \/ requested.peers = {}
             \/ requested.peers = Peers /\ CatalogueSources(events) = {c}
             \/ {s \in CatalogueSources(events) : s[1] = "peer" /\ s[2] \in requested.peers} = {c}
    BY StoredSource
  <2>2. PICK i \in 1..Len(events) : SourceIdentifier(events, i) = c
    BY DEF CatalogueSources
  <2> DEFINE p == peerOf[events[i].conn]
  <2>3. p \in Peers /\ (c[1] = "peer" => c = PeerName(p))
    BY <2>2, NamedTruly DEF CommandInv
  <2>4. \A j \in EventsOf(events, c) : peerOf[events[j].conn] = p
    BY <2>2, NameIsPeer DEF CommandInv, EventsOf
  <2> HIDE DEF p
  <2>5. \A k \in StoredConns : peerOf[k] = p
    BY <2>1, <2>4 DEF StoredConns
  <2>6. requested.peers # {} => p \in requested.peers
    <3>1. ASSUME {s \in CatalogueSources(events) : s[1] = "peer" /\ s[2] \in requested.peers} = {c}
          PROVE  p \in requested.peers
      <4>1. c[1] = "peer" /\ c[2] \in requested.peers
        BY <3>1
      <4>2. PeerName(p)[2] = p
        BY DEF PeerName
      <4> QED
        BY <2>3, <4>1, <4>2
    <3> QED
      BY <2>1, <2>3, <3>1
  <2> QED
    BY <2>3, <2>5, <2>6
<1> QED
  BY <1>1, CommandInvHolds, PTL

(* Without allow_unattributed every event of a peer that was asked for, or
   that the run directory holds, is in the run directory
   (attribution.py:93-126, 152-166). *)
THEOREM StoredComplete ==
  ASSUME LossesApart
  PROVE  CommandSpec => []StoredIsComplete
<1>1. CommandInv => StoredIsComplete
  <2> SUFFICES ASSUME CommandInv, outcome = "stored", ~requested.allow
               PROVE  /\ stored.events # {}
                      /\ \A j \in 1..Len(events) :
                           peerOf[events[j].conn] \in
                               requested.peers \cup {peerOf[k] : k \in StoredConns}
                             => j \in stored.events
    BY DEF StoredIsComplete
  <2>1. PICK c \in CatalogueSources(events) :
          /\ stored = [events |-> EventsOf(events, c), connections |-> RecordsOf(c)]
          /\ \/ requested.peers = {}
             \/ requested.peers = Peers /\ CatalogueSources(events) = {c}
             \/ {s \in CatalogueSources(events) : s[1] = "peer" /\ s[2] \in requested.peers} = {c}
          /\ \A s \in CatalogueSources(events) : ~IsUnattributed(s)
    BY StoredSource
  <2>2. PICK i \in 1..Len(events) : SourceIdentifier(events, i) = c
    BY DEF CatalogueSources
  <2>3. \A j \in 1..Len(events) :
          /\ SourceIdentifier(events, j) \in CatalogueSources(events)
          /\ SourceIdentifier(events, j) = PeerName(peerOf[events[j].conn])
    BY <2>1, NamedTruly DEF CommandInv, CatalogueSources
  <2>4. \A j \in 1..Len(events) : j \in stored.events <=> SourceIdentifier(events, j) = c
    BY <2>1 DEF EventsOf
  <2>5. stored.events \subseteq 1..Len(events)
    BY <2>1 DEF EventsOf
  <2>6. ASSUME NEW j \in 1..Len(events),
               peerOf[events[j].conn] \in {peerOf[k] : k \in StoredConns}
        PROVE  j \in stored.events
    <3>1. PICK k \in stored.events : peerOf[events[k].conn] = peerOf[events[j].conn]
      BY <2>6 DEF StoredConns
    <3>2. SourceIdentifier(events, k) = c
      BY <2>4, <2>5, <3>1
    <3> QED
      BY <2>3, <2>4, <2>5, <3>1, <3>2
  <2>7. ASSUME NEW j \in 1..Len(events), peerOf[events[j].conn] \in requested.peers
        PROVE  j \in stored.events
    <3> DEFINE p == peerOf[events[j].conn]
    <3>1. PeerName(p)[1] = "peer" /\ PeerName(p)[2] = p
      BY DEF PeerName
    <3>2. PeerName(p) \in CatalogueSources(events) /\ SourceIdentifier(events, j) = PeerName(p)
      BY <2>3
    <3>3. p \in requested.peers
      BY <2>7
    <3> HIDE DEF p
    <3>4. PeerName(p) = c
      BY <2>1, <3>1, <3>2, <3>3
    <3> QED
      BY <2>4, <3>2, <3>4
  <2> QED
    BY <2>2, <2>4, <2>6, <2>7
<1> QED
  BY <1>1, CommandInvHolds, PTL

(* The connection records written are those of the connections the events
   come from, every one of them and no others (cli.py:241-252). *)
THEOREM RecordsOfTheEvents ==
  ASSUME LossesApart
  PROVE  CommandSpec => []RecordsMatchEvents
<1>1. CommandInv => RecordsMatchEvents
  <2> SUFFICES ASSUME CommandInv, outcome = "stored"
               PROVE  RecordsMatchEvents
    BY DEF RecordsMatchEvents
  <2>1. PICK c \in CatalogueSources(events) :
          stored = [events |-> EventsOf(events, c), connections |-> RecordsOf(c)]
    BY StoredSource
  <2>2. stored.events = EventsOf(events, c) /\ stored.connections = RecordsOf(c)
    BY <2>1
  <2>3. EventsOf(events, c) \subseteq 1..Len(events)
    BY DEF EventsOf
  <2>4. \A i \in 1..Len(connections) :
          i \in RecordsOf(c) <=> \E j \in EventsOf(events, c) : connections[i].epoch = events[j].epoch
    BY DEF RecordsOf, EpochsOf
  <2>5. RecordsOf(c) \subseteq 1..Len(connections)
    BY DEF RecordsOf
  <2>6. \A k : k \in StoredConns <=> \E j \in EventsOf(events, c) : k = events[j].conn
    BY <2>2 DEF StoredConns
  <2>7. /\ \A j \in 1..Len(events) : events[j].epoch # 0
        /\ \A i \in 1..Len(connections), j \in 1..Len(events) :
             connections[i].epoch # 0 =>
               (connections[i].epoch = events[j].epoch <=> connections[i].conn = events[j].conn)
    BY SeenOnce DEF CommandInv
  <2>8. \A i \in RecordsOf(c) : connections[i].conn \in StoredConns
    BY <2>3, <2>4, <2>5, <2>6, <2>7
  <2>9. \A i \in 1..Len(connections) :
          connections[i].conn \in StoredConns /\ connections[i].epoch # 0 => i \in RecordsOf(c)
    BY <2>3, <2>4, <2>6, <2>7
  <2> QED
    BY <2>2, <2>8, <2>9 DEF RecordsMatchEvents
<1> QED
  BY <1>1, CommandInvHolds, PTL
=============================================================================
