----------------------------- MODULE Attribution -----------------------------
(***************************************************************************)
(* attribution.py: the sources of a sequence of ATT events and the refusal *)
(* to select anything but one of them.                                     *)
(*                                                                         *)
(* A source is named by its peer or, without one, by its handle and a rank *)
(* among the unattributed connections of that handle (0 if it is alone).   *)
(* A selector is such a name or the end of an address, given as the set of *)
(* the peers whose address ends that way: a whole address has one.         *)
(***************************************************************************)
EXTENDS Naturals, Sequences, FiniteSets

PeerName(p) == <<"peer", p>>
ConnName(handle, rank) == <<"?conn", handle, rank>>
IsUnattributed(name) == name[1] = "?conn"

(* Selectors: nothing, the name of an unattributed source, an address tail. *)
NoSelector == <<"none">>
AddressTail(peers) == <<"tail", peers>>

Refused == <<"refused">>

(* The epochs of unattributed events on one handle that begin up to i. *)
UnnamedEpochs(events, handle, i) ==
  {events[j].epoch : j \in {k \in 1..i : events[k].handle = handle /\ events[k].peer = "none"}}

(* Wrong: the connections of a handle share one name. *)
OneLabelPerHandle(events, i) == ConnName(events[i].handle, 0)

UnattributedLabel(events, i) ==
  LET h == events[i].handle
      first == CHOOSE j \in 1..i : /\ events[j].epoch = events[i].epoch /\ events[j].peer = "none"
                                   /\ \A k \in 1..(j - 1) : ~ /\ events[k].peer = "none"
                                                              /\ events[k].epoch = events[i].epoch
  IN IF Cardinality(UnnamedEpochs(events, h, Len(events))) = 1
     THEN ConnName(h, 0)
     ELSE ConnName(h, Cardinality(UnnamedEpochs(events, h, first)))

SourceIdentifier(events, i) ==
  IF events[i].peer = "none" THEN UnattributedLabel(events, i) ELSE PeerName(events[i].peer)

CatalogueSources(events) == {SourceIdentifier(events, i) : i \in 1..Len(events)}

EventsOf(events, name) == {i \in 1..Len(events) : SourceIdentifier(events, i) = name}

EpochsOf(events, name) == {events[i].epoch : i \in EventsOf(events, name)}

(* The unique source the selector matches, or Refused. *)
TheOnly(matches) ==
  IF Cardinality(matches) = 1 THEN CHOOSE m \in matches : TRUE ELSE Refused

(* Wrong: any of the peers with that tail. *)
ResolveFirst(sources, selector) ==
  LET matches == IF selector[1] = "tail"
                 THEN {s \in sources : s[1] = "peer" /\ s[2] \in selector[2]}
                 ELSE sources \cap {selector}
  IN IF matches = {} THEN Refused ELSE CHOOSE m \in matches : TRUE

ResolveSource(sources, selector) ==
  TheOnly(IF selector[1] = "tail"
          THEN {s \in sources : s[1] = "peer" /\ s[2] \in selector[2]}
          ELSE sources \cap {selector})

SelectSource(events, expected, source, allow) ==
  LET sources == CatalogueSources(events)
      chosen == IF expected # NoSelector THEN ResolveSource(sources, expected)
                ELSE IF source # NoSelector THEN ResolveSource(sources, source)
                ELSE TheOnly(sources)
  IN IF \/ expected # NoSelector /\ source # NoSelector
        \/ chosen = Refused
        \/ IsUnattributed(chosen) /\ expected # NoSelector
        \/ ~allow /\ \E s \in sources : IsUnattributed(s)
     THEN Refused ELSE chosen
=============================================================================
