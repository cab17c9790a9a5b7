--------------------------- MODULE TransportRegistry ---------------------------
(***************************************************************************)
(* The two lists of transports of the host (transport.c): pending_list and *)
(* transport_list, doubly linked and circular, each with a head that is    *)
(* linked like a member.  Any thread that makes a connection registers a   *)
(* transport; the main loop moves it from one list to the other and takes  *)
(* it off when its threads have left (TransportPump says when that is);    *)
(* the services "disconnect:" and the USB scanner take it off as well.     *)
(* Every operation holds transport_lock while it works on the links.       *)
(***************************************************************************)
EXTENDS Integers, Sequences, FiniteSets

CONSTANTS
  Transports,    \* bound: the transports a behaviour allocates
  Serials,       \* their serial numbers
  Kinds          \* "usb", "tcp" (adb_port = 0), "emulator"

Heads == {"pending_list", "transport_list"}
\* What the links of freed memory (filled with 0xee) point to.
Garbage == "garbage"
Node == Transports \union Heads \union {Garbage}

ASSUME TransportsAssumption == IsFiniteSet(Transports) /\ Transports \cap (Heads \union {Garbage}) = {}
ASSUME KindsAssumption == Kinds \subseteq {"usb", "tcp", "emulator"}

VARIABLES
  next, prev,   \* the links
  place,        \* place[t]: "new", "pending", "listed", "unlisted", "freed"
  info,         \* info[t]: its kind, its serial and whether it has threads
  leaving,      \* the transports whose threads asked for their removal
  reg,          \* the messages on the transport registration socketpair
  again         \* history: a transport that was off the list was unlinked again,
                \* between neighbours that had changed

vars == <<next, prev, place, info, leaving, reg, again>>

-----------------------------------------------------------------------------
(* The links.  A pair of them is passed through as [nx, pv].               *)

Links == [nx |-> next, pv |-> prev]

\* t->next->prev = t->prev;  t->prev->next = t->next;
Unlink(k, t) ==
  [nx |-> [k.nx EXCEPT ![k.pv[t]] = k.nx[t]],
   pv |-> [k.pv EXCEPT ![k.nx[t]] = k.pv[t]]]

\* t->next = &head;  t->prev = head.prev;  t->next->prev = t;  t->prev->next = t;
LinkLast(k, t, head) ==
  [nx |-> [k.nx EXCEPT ![t] = head, ![k.pv[head]] = t],
   pv |-> [k.pv EXCEPT ![t] = k.pv[head], ![head] = t]]

Free(k, t) ==
  [nx |-> [k.nx EXCEPT ![t] = Garbage], pv |-> [k.pv EXCEPT ![t] = Garbage]]

SetLinks(k) == next' = k.nx /\ prev' = k.pv

\* for (t = head.next; t != &head; t = t->next): the node that each step is at.
\* A walk that leaves the list ends in garbage, or after as many steps as there
\* are transports.
Reached(along, head) ==
  LET at[n \in 1 .. Cardinality(Transports) + 1] ==
        IF n = 1 THEN along[head]
        ELSE IF at[n - 1] \in {head, Garbage} THEN at[n - 1] ELSE along[at[n - 1]]
  IN  at

\* The nodes before the head is met again, in the order visited.
Walk(along, head) ==
  LET at   == Reached(along, head)
      ends == {n \in 1 .. Cardinality(Transports) + 1 : at[n] = head}
      len  == IF ends = {} THEN Cardinality(Transports) + 1
              ELSE (CHOOSE n \in ends : \A m \in ends : n <= m) - 1
  IN  [n \in 1 .. len |-> at[n]]

Members(head) == {Walk(next, head)[n] : n \in DOMAIN Walk(next, head)}

\* strcmp(serial, n->serial) for some n of the list.
HasSerial(head, serial) ==
  \E t \in Members(head) \ {Garbage} : t \in Transports /\ info[t].serial = serial

-----------------------------------------------------------------------------
NoInfo == [kind |-> "none", serial |-> "none", threads |-> FALSE]

Init ==
  /\ next = [n \in Node |-> IF n \in Heads THEN n ELSE Garbage]
  /\ prev = [n \in Node |-> IF n \in Heads THEN n ELSE Garbage]
  /\ place = [t \in Transports |-> "new"]
  /\ info = [t \in Transports |-> NoInfo]
  /\ leaving = {}
  /\ reg = <<>> /\ again = FALSE

Pend(t, kind, serial, threads) ==
  /\ SetLinks(LinkLast(Links, t, "pending_list"))
  /\ place' = [place EXCEPT ![t] = "pending"]
  /\ info' = [info EXCEPT ![t] = [kind |-> kind, serial |-> serial, threads |-> threads]]
  /\ reg' = Append(reg, <<t, 1>>)
  /\ UNCHANGED <<leaving, again>>

\* register_socket_transport; a serial that is known already is refused.
register_socket_transport_ChecksList(t, kind, serial) ==
  /\ place[t] = "new" /\ kind \in Kinds \ {"usb"}
  /\ ~HasSerial("transport_list", serial)
  /\ Pend(t, kind, serial, TRUE)

register_socket_transport(t, kind, serial) ==
  /\ place[t] = "new" /\ kind \in Kinds \ {"usb"}
  /\ ~HasSerial("pending_list", serial) /\ ~HasSerial("transport_list", serial)
  /\ Pend(t, kind, serial, TRUE)

\* register_usb_transport; a device without permissions (CS_NOPERM) gets no
\* threads.
register_usb_transport(t, serial, writeable) ==
  /\ place[t] = "new" /\ "usb" \in Kinds
  /\ Pend(t, "usb", serial, writeable)

\* transport_registration_func, action 1.
RegistrationAdd ==
  /\ reg # <<>> /\ Head(reg)[2] = 1
  /\ reg' = Tail(reg)
  /\ SetLinks(LinkLast(Unlink(Links, Head(reg)[1]), Head(reg)[1], "transport_list"))
  /\ place' = [place EXCEPT ![Head(reg)[1]] = "listed"]
  /\ UNCHANGED <<info, leaving, again>>

\* Both threads have left: remove_transport.
remove_transport(t) ==
  /\ place[t] \in {"listed", "unlisted"} /\ info[t].threads /\ t \notin leaving
  /\ leaving' = leaving \union {t}
  /\ reg' = Append(reg, <<t, 0>>)
  /\ UNCHANGED <<next, prev, place, info, again>>

\* The neighbours that t remembers are no longer next to each other (or to t): links
\* through t are written over others.
Stale(t) == next[prev[t]] # next[t] \/ prev[next[t]] # prev[t]

\* transport_registration_func, action 0.
RegistrationRemove_KeepsLinks ==
  /\ reg # <<>> /\ Head(reg)[2] = 0
  /\ reg' = Tail(reg)
  /\ SetLinks(Free(Links, Head(reg)[1]))
  /\ place' = [place EXCEPT ![Head(reg)[1]] = "freed"]
  /\ again' = (again \/ (place[Head(reg)[1]] # "listed" /\ Stale(Head(reg)[1])))
  /\ UNCHANGED <<info, leaving>>

RegistrationRemove ==
  /\ reg # <<>> /\ Head(reg)[2] = 0
  /\ reg' = Tail(reg)
  /\ SetLinks(Free(Unlink(Links, Head(reg)[1]), Head(reg)[1]))
  /\ place' = [place EXCEPT ![Head(reg)[1]] = "freed"]
  /\ again' = (again \/ (place[Head(reg)[1]] # "listed" /\ Stale(Head(reg)[1])))
  /\ UNCHANGED <<info, leaving>>

\* unregister_transport of the transport that find_transport finds.  The kick and
\* the unref that follow are in TransportPump; they lead to remove_transport.
unregister_transport(serial) ==
  /\ HasSerial("transport_list", serial)
  /\ LET list  == Walk(next, "transport_list")
         hits  == {n \in DOMAIN list : list[n] \in Transports /\ info[list[n]].serial = serial}
         t     == list[CHOOSE n \in hits : \A m \in hits : n <= m]
     IN  /\ SetLinks(Unlink(Links, t))
         /\ place' = [place EXCEPT ![t] = "unlisted"]
  /\ UNCHANGED <<info, leaving, reg, again>>

\* unregister_all_tcp_transports: one after the other, next read before.
IsTcp(t) == t \in Transports /\ info[t].kind = "tcp"

\* The links after the first n transports of the list were looked at.
WithoutTcp(list) ==
  LET after[n \in 0 .. Len(list)] ==
        IF n = 0 THEN Links
        ELSE IF IsTcp(list[n]) THEN Unlink(after[n - 1], list[n]) ELSE after[n - 1]
  IN  after

unregister_all_tcp_transports ==
  LET list == Walk(next, "transport_list")
      gone == {t \in Members("transport_list") : IsTcp(t)}
  IN  /\ gone # {}
      /\ SetLinks(WithoutTcp(list)[Len(list)])
      /\ place' = [t \in Transports |-> IF t \in gone THEN "unlisted" ELSE place[t]]
      /\ UNCHANGED <<info, leaving, reg, again>>

\* unregister_usb_transport, from the USB scanner: only devices without threads.
unregister_usb_transport(t) ==
  /\ t \in Members("transport_list")
  /\ info[t].kind = "usb" /\ ~info[t].threads
  /\ SetLinks(Unlink(Links, t))
  /\ place' = [place EXCEPT ![t] = "unlisted"]
  /\ UNCHANGED <<info, leaving, reg, again>>

Next ==
  \/ \E t \in Transports, serial \in Serials :
       \/ \E kind \in Kinds : register_socket_transport(t, kind, serial)
       \/ \E writeable \in BOOLEAN : register_usb_transport(t, serial, writeable)
  \/ RegistrationAdd \/ RegistrationRemove
  \/ \E t \in Transports : remove_transport(t) \/ unregister_usb_transport(t)
  \/ \E serial \in Serials : unregister_transport(serial)
  \/ unregister_all_tcp_transports

Spec == Init /\ [][Next]_vars

-----------------------------------------------------------------------------
\* Type correctness; no operation on the links writes into freed memory, unless a
\* transport is unlinked again between neighbours that had changed.
TypeOK ==
  /\ next \in [Node -> Node] /\ prev \in [Node -> Node]
  /\ place \in [Transports -> {"new", "pending", "listed", "unlisted", "freed"}]
  /\ info \in [Transports -> [kind : Kinds \union {"none"}, serial : Serials \union {"none"},
                              threads : BOOLEAN]]
  /\ leaving \subseteq Transports
  /\ reg \in Seq(Transports \X {0, 1})
  /\ again \in BOOLEAN
  /\ \A t \in Transports :
       ~again /\ place[t] = "freed" => next[t] = Garbage /\ prev[t] = Garbage

\* A list holds the transports that belong on it, each once, and reads the same
\* in both directions.
Intact(head, where) ==
  LET fwd == Walk(next, head)
      bwd == Walk(prev, head)
  IN  /\ {fwd[n] : n \in DOMAIN fwd} = {t \in Transports : place[t] = where}
      /\ Len(fwd) = Cardinality({t \in Transports : place[t] = where})
      /\ Len(bwd) = Len(fwd)
      /\ \A n \in DOMAIN fwd : fwd[n] = bwd[Len(bwd) + 1 - n]

\* Well typed, and both lists are intact through registrations, disconnects and
\* removals in any order, with one exception for transport_list.  The removal of a
\* disconnected transport unlinks it a second time (transport.c:600): that changes
\* nothing as long as its former neighbours are still next to each other; when one of
\* them has left, or another has come in between, the list may be broken from then
\* on.  Nothing reaches into pending_list.
ListsIntact ==
  /\ TypeOK
  /\ ~again => Intact("transport_list", "listed")
  /\ Intact("pending_list", "pending")

\* No two sockets are registered under one serial: the check covers the
\* transports on both lists, in whatever state the registrations are.  With the same
\* exception: a broken transport_list may miss the transport that is searched for.
SerialUnique ==
  \A a, b \in Transports :
    (/\ ~again
     /\ place[a] \in {"pending", "listed"} /\ place[b] \in {"pending", "listed"}
     /\ info[a].kind # "usb" /\ info[b].kind # "usb" /\ info[a].serial = info[b].serial)
      => a = b
=============================================================================
