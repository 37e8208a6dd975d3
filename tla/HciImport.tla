------------------------------ MODULE HciImport ------------------------------
(***************************************************************************)
(* import_capture (capture.py) beside the Bluetooth links it reconstructs. *)
(* The controller opens and closes connections on reused handles and moves *)
(* messages, of ATT or of another L2CAP channel, each cut into one or more *)
(* ACL packets, in both directions.  Every HCI packet is logged, lost, or logged cut short; the *)
(* importer handles each logged packet in turn (it is a fold over the      *)
(* capture, so it is modelled as reading along).                           *)
(*                                                                         *)
(* A packet's payload is one unit, named by the message it is part of; a   *)
(* start packet also holds the L2CAP length, in units.                     *)
(***************************************************************************)
EXTENDS Naturals, Sequences

CONSTANTS
  Handles,       \* connection handles
  Peers,         \* peer addresses
  Dirs,          \* directions of the traffic
  MaxConns,      \* bound: connections, those open when the capture starts included
  MaxMessages,   \* bound: L2CAP messages
  MaxUnits,      \* bound: packets one message is cut into
  MaxMissed,     \* bound: packets lost, cut short or with half a header
  LossModes,     \* the sets of kinds of packets that one logger may miss
  Duplex         \* may both directions of a handle be within a cut message?

ASSUME ImportAssumption ==
  /\ MaxConns \in Nat /\ MaxMessages \in Nat /\ MaxUnits \in Nat \ {0} /\ MaxMissed \in Nat
  /\ LossModes \subseteq SUBSET {"connect", "disconnect", "acl"}
  /\ Duplex \in BOOLEAN
  /\ "none" \notin Peers

Conns == 1..MaxConns
Messages == 1..MaxMessages

VARIABLES
  \* the controller
  link,         \* connection on each handle, 0 when closed
  peerOf,       \* peer of each connection
  conns,        \* connections opened so far
  sent,         \* messages begun so far
  msgConn,      \* connection of each message
  msgUnits,     \* units of each message
  other,        \* messages that are not ATT: of another channel, or empty
  flow,         \* per handle and direction: message under way and units left
  delivered,    \* ATT messages completed, in order
  missable,     \* kinds of packets this logger may miss
  missed,       \* packets lost, cut short or with half a header
  \* import_capture
  strict,       \* not allow_truncated
  phase,        \* "reading", "imported" or "failed" (CaptureFormatError)
  active,       \* active_connections; epoch 0 when absent
  fragments,    \* pending L2CAP fragment per handle; epoch 0 when absent
  nextEpoch,    \* next_epoch
  events,       \* att_events; conn and data are for the properties
  connections   \* connection_events

world == <<link, peerOf, conns, sent, msgConn, msgUnits, other, flow, delivered>>
import == <<strict, phase, active, fragments, nextEpoch, events, connections>>
vars == <<world, missable, missed, import>>

NoConnection == [epoch |-> 0, peer |-> "none"]
NoFragment == [epoch |-> 0, need |-> 0, data |-> << >>]
Idle == [msg |-> 0, left |-> 0]

-----------------------------------------------------------------------------
(* The packet handlers of import_capture. *)

(* Wrong: a handle that is still active keeps its epoch. *)
ImportKnownConnect(h, c) ==
  /\ nextEpoch' = IF active[h].epoch = 0 THEN nextEpoch + 1 ELSE nextEpoch
  /\ active' = [active EXCEPT ![h] = [epoch |-> nextEpoch', peer |-> peerOf[c]]]
  /\ fragments' = [fragments EXCEPT ![h] = NoFragment]
  /\ connections' = Append(connections, [connected |-> TRUE, handle |-> h, conn |-> c,
                                         epoch |-> nextEpoch', peer |-> peerOf[c]])
  /\ UNCHANGED <<strict, phase, events>>

ImportConnect(h, c) ==
  /\ nextEpoch' = nextEpoch + 1
  /\ active' = [active EXCEPT ![h] = [epoch |-> nextEpoch', peer |-> peerOf[c]]]
  /\ fragments' = [fragments EXCEPT ![h] = NoFragment]
  /\ connections' = Append(connections, [connected |-> TRUE, handle |-> h, conn |-> c,
                                         epoch |-> nextEpoch', peer |-> peerOf[c]])
  /\ UNCHANGED <<strict, phase, events>>

(* Wrong: the connection stays active. *)
ImportForgottenDisconnect(h, c) ==
  /\ connections' = Append(connections, [connected |-> FALSE, handle |-> h, conn |-> c,
                                         epoch |-> active[h].epoch, peer |-> active[h].peer])
  /\ fragments' = [fragments EXCEPT ![h] = NoFragment]
  /\ UNCHANGED <<strict, phase, active, nextEpoch, events>>

(* The disconnection event holds no address; epoch 0 stands for None. *)
ImportDisconnect(h, c) ==
  /\ connections' = Append(connections, [connected |-> FALSE, handle |-> h, conn |-> c,
                                         epoch |-> active[h].epoch, peer |-> active[h].peer])
  /\ active' = [active EXCEPT ![h] = NoConnection]
  /\ fragments' = [fragments EXCEPT ![h] = NoFragment]
  /\ UNCHANGED <<strict, phase, nextEpoch, events>>

(* Traffic on a handle nothing is known of opens an epoch without a peer. *)
ConnectionOf(h) ==
  IF active[h].epoch = 0 THEN [epoch |-> nextEpoch + 1, peer |-> "none"] ELSE active[h]

(* Wrong: the number of the new epoch is not taken. *)
EnsureActiveSameEpoch(h) ==
  active' = [active EXCEPT ![h] = ConnectionOf(h)] /\ UNCHANGED nextEpoch

EnsureActive(h) ==
  /\ active' = [active EXCEPT ![h] = ConnectionOf(h)]
  /\ nextEpoch' = IF active[h].epoch = 0 THEN nextEpoch + 1 ELSE nextEpoch

(* The start of a message names its channel; only ATT makes an event. *)
Record(h, d, data) ==
  events' = IF data[1] \in other' THEN events
            ELSE Append(events, [handle |-> h, direction |-> d, epoch |-> ConnectionOf(h).epoch,
                                 peer |-> ConnectionOf(h).peer, conn |-> link[h], data |-> data])

(* A start packet leaves an older pending fragment alone unless it is      *)
(* incomplete itself.                                                      *)
ImportStart(h, d, m, units) ==
  /\ EnsureActive(h)
  /\ IF units = 1
     THEN Record(h, d, <<m>>) /\ UNCHANGED fragments
     ELSE /\ fragments' = [fragments EXCEPT ![h] =
                 [epoch |-> ConnectionOf(h).epoch, need |-> units, data |-> <<m>>]]
          /\ UNCHANGED events
  /\ UNCHANGED <<strict, phase, connections>>

(* A start packet that ends within the L2CAP header. *)
ImportHalfHeader(h) ==
  /\ EnsureActive(h)
  /\ phase' = IF strict THEN "failed" ELSE phase
  /\ UNCHANGED <<strict, fragments, events, connections>>

(* Wrong: one unit too many is waited for. *)
Incomplete1(data, need) == Len(data) <= need

Incomplete(data, need) == Len(data) < need

ImportContinuation(h, d, m) ==
  /\ EnsureActive(h)
  /\ LET f == fragments[h]
         data == Append(f.data, m)
     IN IF f.epoch # ConnectionOf(h).epoch
        THEN /\ phase' = IF strict THEN "failed" ELSE phase
             /\ UNCHANGED <<fragments, events>>
        ELSE /\ UNCHANGED phase
             /\ IF Incomplete(data, f.need)
                THEN fragments' = [fragments EXCEPT ![h].data = data] /\ UNCHANGED events
                ELSE /\ fragments' = [fragments EXCEPT ![h] = NoFragment]
                     /\ Record(h, d, SubSeq(data, 1, f.need))
  /\ UNCHANGED <<strict, connections>>

(* A packet cut short by the logger's snapshot length. *)
ImportCut ==
  /\ phase' = IF strict THEN "failed" ELSE phase
  /\ UNCHANGED <<strict, active, fragments, nextEpoch, events, connections>>

-----------------------------------------------------------------------------
(* The controller.  What happens to the packet of a step is the logger's.  *)

Spoilt(kind) ==
  /\ kind \in missable /\ missed < MaxMissed
  /\ missed' = missed + 1

Missed(kind) == Spoilt(kind) /\ (UNCHANGED import \/ ImportCut)

(* A message that is completed. *)
Deliver(m) == delivered' = IF m \in other' THEN delivered ELSE Append(delivered, m)

Open(h) ==
  /\ phase = "reading"
  /\ link[h] = 0 /\ conns < MaxConns
  /\ conns' = conns + 1
  /\ link' = [link EXCEPT ![h] = conns']
  /\ UNCHANGED <<missable, peerOf, sent, msgConn, msgUnits, other, flow, delivered>>
  /\ \/ ImportConnect(h, conns') /\ UNCHANGED missed
     \/ Missed("connect")

Close(h) ==
  /\ phase = "reading"
  /\ link[h] # 0
  /\ link' = [link EXCEPT ![h] = 0]
  /\ flow' = [flow EXCEPT ![h] = [d \in Dirs |-> Idle]]
  /\ UNCHANGED <<missable, peerOf, conns, sent, msgConn, msgUnits, other, delivered>>
  /\ \/ ImportDisconnect(h, link[h]) /\ UNCHANGED missed
     \/ Missed("disconnect")

Begin(h, d, units) ==
  /\ phase = "reading"
  /\ link[h] # 0 /\ flow[h][d].left = 0
  /\ sent < MaxMessages
  /\ units > 1 /\ ~Duplex => \A e \in Dirs : flow[h][e].left = 0
  /\ sent' = sent + 1
  /\ msgConn' = [msgConn EXCEPT ![sent'] = link[h]]
  /\ msgUnits' = [msgUnits EXCEPT ![sent'] = units]
  /\ other' \in {other, other \cup {sent'}}
  /\ flow' = [flow EXCEPT ![h][d] = [msg |-> sent', left |-> units - 1]]
  /\ IF units = 1 THEN Deliver(sent') ELSE UNCHANGED delivered
  /\ UNCHANGED <<missable, link, peerOf, conns>>
  /\ \/ ImportStart(h, d, sent', units) /\ UNCHANGED missed
     \/ Missed("acl")
     \/ Spoilt("acl") /\ ImportHalfHeader(h)

Continue(h, d) ==
  /\ phase = "reading"
  /\ flow[h][d].left > 0
  /\ flow' = [flow EXCEPT ![h][d].left = @ - 1]
  /\ UNCHANGED <<missable, link, peerOf, conns, sent, msgConn, msgUnits, other>>
  /\ IF flow[h][d].left = 1 THEN Deliver(flow[h][d].msg) ELSE UNCHANGED delivered
  /\ \/ ImportContinuation(h, d, flow[h][d].msg) /\ UNCHANGED missed
     \/ Missed("acl")

(* The capture ends; a pending fragment is an error when strict. *)
Finish ==
  /\ phase = "reading"
  /\ phase' = IF strict /\ \E h \in Handles : fragments[h].epoch # 0
             THEN "failed" ELSE "imported"
  /\ UNCHANGED <<world, missable, missed, strict, active, fragments, nextEpoch, events, connections>>

-----------------------------------------------------------------------------

(* The capture may start with connections already open. *)
Init ==
  /\ peerOf \in [Conns -> Peers]
  /\ conns \in 0..MaxConns
  /\ link \in {f \in [Handles -> 0..conns] :
                 \A c \in 1..conns : \E h \in Handles : f[h] = c /\ \A g \in Handles \ {h} : f[g] # c}
  /\ sent = 0
  /\ msgConn = [m \in Messages |-> 0]
  /\ msgUnits = [m \in Messages |-> 0]
  /\ other = {}
  /\ flow = [h \in Handles |-> [d \in Dirs |-> Idle]]
  /\ delivered = << >>
  /\ missable \in LossModes /\ missed = 0
  /\ strict \in BOOLEAN
  /\ phase = "reading"
  /\ active = [h \in Handles |-> NoConnection]
  /\ fragments = [h \in Handles |-> NoFragment]
  /\ nextEpoch = 0
  /\ events = << >>
  /\ connections = << >>

Next ==
  \/ \E h \in Handles : \/ Open(h)
                        \/ Close(h)
                        \/ \E d \in Dirs : \/ \E units \in 1..MaxUnits : Begin(h, d, units)
                                           \/ Continue(h, d)
  \/ Finish

Spec == Init /\ [][Next]_vars

-----------------------------------------------------------------------------

Events == {events[i] : i \in 1..Len(events)}
ConnectionRecords == {connections[i] : i \in 1..Len(connections)}

TypeOK ==
  /\ link \in [Handles -> 0..conns] /\ conns \in 0..MaxConns
  /\ peerOf \in [Conns -> Peers]
  /\ sent \in 0..MaxMessages
  /\ msgConn \in [Messages -> 0..MaxConns] /\ msgUnits \in [Messages -> 0..MaxUnits]
  /\ other \subseteq Messages
  /\ flow \in [Handles -> [Dirs -> [msg : 0..MaxMessages, left : 0..MaxUnits]]]
  /\ delivered \in Seq(Messages)
  /\ missable \in LossModes /\ missed \in 0..MaxMissed /\ strict \in BOOLEAN
  /\ phase \in {"reading", "imported", "failed"}
  /\ active \in [Handles -> [epoch : 0..nextEpoch, peer : Peers \cup {"none"}]]
  /\ fragments \in [Handles -> [epoch : 0..nextEpoch, need : 0..MaxUnits, data : Seq(Messages)]]
  /\ nextEpoch \in Nat
  /\ events \in Seq([handle : Handles, direction : Dirs, epoch : 1..nextEpoch,
                     peer : Peers \cup {"none"}, conn : Conns, data : Seq(Messages)])
  /\ connections \in Seq([connected : BOOLEAN, handle : Handles, conn : Conns,
                          epoch : 0..nextEpoch, peer : Peers \cup {"none"}])

(* An epoch stands for one real connection and a peer address for the real *)
(* peer, even when disconnections and data were lost: events of one epoch  *)
(* and the fragments they were joined from come from one connection        *)
(* (capture.py:122-132, 150-154, 454-459).                                 *)
EpochsAreConnections ==
  \A e \in Events :
    /\ e.peer \in {"none", peerOf[e.conn]}
    /\ \A i \in 1..Len(e.data) : msgConn[e.data[i]] = e.conn
    /\ \A f \in Events : e.epoch = f.epoch <=> e.conn = f.conn

(* A capture without losses is imported exactly: never rejected while it   *)
(* is read, one event per ATT message that was completed, whole and in     *)
(* order, and none of other channels (capture.py:110-184, 445-476).        *)
LosslessImportIsExact ==
  missed = 0 =>
    /\ phase = "failed" => \E h \in Handles, d \in Dirs : flow[h][d].left > 0
    /\ Len(events) = Len(delivered)
    /\ \A i \in 1..Len(events) :
         events[i].data = [u \in 1..msgUnits[delivered[i]] |-> delivered[i]]

(* The records of an epoch are one connection record at most, then one     *)
(* disconnection at most, of the same handle and peer                      *)
(* (capture.py:122-142).                                                   *)
EpochHasOneLife ==
  \A i, j \in 1..Len(connections) :
    LET a == connections[i]  b == connections[j]
    IN i < j /\ a.epoch = b.epoch /\ a.epoch # 0
         => a.connected /\ ~b.connected /\ a.handle = b.handle /\ a.peer = b.peer

(* capture.py:459, "L2CAP continuation has no matching initial fragment":  *)
(* a continuation is joined only to the start it belongs to.  Packets of   *)
(* both directions on one handle break it.                                 *)
ContinuationMatchesStart ==
  \A e \in Events : \A i \in 1..Len(e.data) : e.data[i] = e.data[1]
=============================================================================
