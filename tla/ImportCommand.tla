---------------------------- MODULE ImportCommand ----------------------------
(***************************************************************************)
(* The import command (cli.py): import_capture, then select_source, then   *)
(* the private run directory with the selected events and the connection   *)
(* records of their epochs.                                                *)
(***************************************************************************)
EXTENDS HciImport, Attribution

VARIABLES
  outcome,     \* "none" yet, "stored" or "refused"
  requested,   \* the peers the selectors name, and allow_unattributed
  stored       \* indices of the events and of the records that are written

commandVars == <<vars, outcome, requested, stored>>

Nothing == [events |-> {}, connections |-> {}]
NoRequest == [peers |-> {}, allow |-> FALSE]

CommandInit == Init /\ outcome = "none" /\ requested = NoRequest /\ stored = Nothing

Import == Next /\ UNCHANGED <<outcome, requested, stored>>

(* No selector, the end of an address that some peer has, a source by its name. *)
Selectors ==
  {NoSelector} \cup {AddressTail(peers) : peers \in SUBSET Peers \ {{}}}
               \cup {ConnName(h, rank) : h \in Handles, rank \in 0..MaxConns}

(* The peers the selectors name: any without one, none by the name of an *)
(* unattributed source.                                                    *)
Requested(expected, source) ==
  CASE expected[1] = "tail" -> expected[2]
    [] source[1] = "tail" -> source[2]
    [] expected = NoSelector /\ source = NoSelector -> Peers
    [] OTHER -> {}

(* Wrong: the connection records of the peer, whatever the selected epochs. *)
RecordsOfPeer(name) ==
  {i \in 1..Len(connections) : PeerName(connections[i].peer) = name}

RecordsOf(name) ==
  {i \in 1..Len(connections) : connections[i].epoch \in EpochsOf(events, name)}

Store(expected, source, allow) ==
  /\ phase = "imported" /\ outcome = "none"
  /\ LET chosen == SelectSource(events, expected, source, allow)
     IN IF chosen = Refused
        THEN outcome' = "refused" /\ UNCHANGED <<requested, stored>>
        ELSE /\ outcome' = "stored"
             /\ requested' = [peers |-> Requested(expected, source), allow |-> allow]
             /\ stored' = [events |-> EventsOf(events, chosen), connections |-> RecordsOf(chosen)]
  /\ UNCHANGED vars

CommandNext ==
  \/ Import
  \/ \E selector \in Selectors, allow \in BOOLEAN :
       Store(selector, NoSelector, allow) \/ Store(NoSelector, selector, allow)

CommandSpec == CommandInit /\ [][CommandNext]_commandVars

-----------------------------------------------------------------------------

StoredConns == {events[i].conn : i \in stored.events}

(* The run directory holds the traffic of one peer only, one that the      *)
(* selectors name if they name any, even when connections were opened      *)
(* before the capture or their packets were lost (attribution.py:145-169,  *)
(* cli.py:231-237).                                                        *)
StoredIsOnePeer ==
  outcome = "stored" =>
    \E p \in Peers : /\ \A c \in StoredConns : peerOf[c] = p
                     /\ requested.peers # {} => p \in requested.peers

(* Without allow_unattributed nothing of the selected peer is missing, and *)
(* no other peer in the capture could have been meant: every event of a    *)
(* peer that was asked for is in the run directory                         *)
(* (attribution.py:93-126, 152-166).                                       *)
StoredIsComplete ==
  outcome = "stored" /\ ~requested.allow =>
    /\ stored.events # {}
    /\ \A i \in 1..Len(events) :
         peerOf[events[i].conn] \in requested.peers \cup {peerOf[c] : c \in StoredConns}
           => i \in stored.events

(* The connection records written are those of the connections the events  *)
(* come from, every one of them and no others (cli.py:241-252).            *)
RecordsMatchEvents ==
  outcome = "stored" =>
    /\ \A i \in stored.connections : connections[i].conn \in StoredConns
    /\ \A i \in 1..Len(connections) :
         connections[i].conn \in StoredConns /\ connections[i].epoch # 0 => i \in stored.connections
=============================================================================
