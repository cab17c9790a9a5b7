------------------------------ MODULE AdbStreams ------------------------------
(***************************************************************************)
(* The multiplexed byte streams of adb: the local sockets of two adb       *)
(* processes (sockets.c), the packet handler that joins them (adb.c,       *)
(* handle_packet) and the main loop that runs both (fdevent.c).            *)
(*                                                                         *)
(* Each side owns a table of local sockets.  A local socket holds one end  *)
(* of a file descriptor whose other end is a client or a service, and its  *)
(* peer is a remote socket: the id of a local socket of the other side.    *)
(* The two sides exchange OPEN, OKAY, WRTE and CLSE packets over two FIFO  *)
(* channels; chan[s] is what is on its way to s, from the send_packet of   *)
(* one main loop to the handle_packet of the other.                        *)
(*                                                                         *)
(* A C function that works on one local socket is an operator from the     *)
(* socket's record to an effect: the new record, the packets the function  *)
(* sends, and its return value.                                            *)
(***************************************************************************)
EXTENDS Integers, Sequences, FiniteSets, FdEventOps

CONSTANTS
  MaxId,        \* bound: local sockets each side creates in a behaviour
  HostBytes,    \* bound: bytes a client of the host writes into one socket
  DeviceBytes,  \* bound: bytes a service of the device writes into one socket
  MAX_PAYLOAD,  \* bytes one packet carries (adb.h)
  FdCap,        \* bytes the kernel buffers between a socket and its client
  Openers,      \* the sides whose clients may open streams
  Shuts,        \* how clients end a connection: "half" shuts down, "full" closes
  LinkMayFail   \* whether the connection may break

Side == {"host", "device"}
Other(s) == IF s = "host" THEN "device" ELSE "host"
Id == 1 .. MaxId
MaxBytes(s) == IF s = "host" THEN HostBytes ELSE DeviceBytes

ASSUME MaxIdAssumption == MaxId \in Nat
ASSUME BytesAssumption == HostBytes \in Nat /\ DeviceBytes \in Nat
ASSUME PayloadAssumption == MAX_PAYLOAD \in Nat \ {0}
ASSUME FdCapAssumption == FdCap \in Nat \ {0}
ASSUME OpenersAssumption == Openers \subseteq Side
ASSUME ShutsAssumption == Shuts \subseteq {"half", "full"}
ASSUME LinkAssumption == LinkMayFail \in BOOLEAN

VARIABLES
  sock,     \* sock[s][i]: the local socket that side s created with id i
  nextId,   \* nextId[s]: local_socket_next_id
  chan,     \* chan[s]: the packets on their way to s
  tstate,   \* tstate[s]: how far the transport of s is torn down
  link,     \* whether the two sides are still connected
  tev       \* tev[s]: the transport's fdevent is pending in the loop of s

vars == <<sock, nextId, chan, tstate, link, tev>>

-----------------------------------------------------------------------------
(* Packets.  A payload is the stretch off+1 .. off+len of the bytes that   *)
(* the sending socket's client wrote.                                      *)

Packet == [cmd : {"OPEN", "OKAY", "WRTE", "CLSE"},
           arg0 : 0 .. MaxId, arg1 : 0 .. MaxId, off : Nat, len : Nat]

Pkt(cmd, arg0, arg1) ==
  [cmd |-> cmd, arg0 |-> arg0, arg1 |-> arg1, off |-> 0, len |-> 0]

OPEN(i) == Pkt("OPEN", i, 0)
OKAY(i, j) == Pkt("OKAY", i, j)
CLSE(i, j) == Pkt("CLSE", i, j)
WRTE(i, j, off, len) ==
  [cmd |-> "WRTE", arg0 |-> i, arg1 |-> j, off |-> off, len |-> len]

(* A local socket (asocket).                                               *)
(*   st     the list it is on: local_socket_list ("open"),                 *)
(*          local_socket_closing_list ("closing"); "freed" after free();   *)
(*          "fault" stands for a dereference of its null peer              *)
(*   peer   the id of its remote socket, 0 while it has none               *)
(*   hook   ready and close are still the _notify versions                 *)
(*   told   the status the client was sent                                 *)
(*   want, pend   its fdevent                                              *)
(*   q      pkt_first .. pkt_last; the byte count of the fd at which an    *)
(*          entry is written out (upto) stands for its ptr and len         *)
(*   src, got    bytes its client wrote, bytes adb read of them            *)
(*   out, took   bytes adb wrote to the fd, bytes the client read of them  *)
(*   shut   the client shut down writing ("half") or closed ("full")       *)
Entry == [arg0 : 0 .. MaxId, off : Nat, len : Nat, upto : Nat]

Socket == [st : {"none", "open", "closing", "freed", "fault"},
           peer : 0 .. MaxId, hook : BOOLEAN, told : {"none", "OKAY", "FAIL"},
           want : SUBSET FdeEvents, pend : SUBSET FdeEvents, q : Seq(Entry),
           src : Nat, got : Nat, out : Nat, took : Nat,
           shut : {"no", "half", "full"}]

NoSocket == [st |-> "none", peer |-> 0, hook |-> FALSE, told |-> "none",
             want |-> {}, pend |-> {}, q |-> <<>>, src |-> 0, got |-> 0,
             out |-> 0, took |-> 0, shut |-> "no"]

\* What a function did: the socket after it, the packets it sent, its result.
Effect(so, sent, ret) == [so |-> so, sent |-> sent, ret |-> ret]

-----------------------------------------------------------------------------
(* sockets.c                                                               *)

create_local_socket == [NoSocket EXCEPT !.st = "open"]

local_socket_ready(so) == fdevent_add(so, "R")

local_socket_destroy(so) ==
  [fdevent_remove(so) EXCEPT !.st = "freed", !.q = <<>>]

\* The peer is told with arg0 = 0: s->peer->peer is cleared before
\* remote_socket_close reads it.
remote_socket_close_Silent(peer) == <<>>

remote_socket_close(peer) == IF peer = 0 THEN <<>> ELSE <<CLSE(0, peer)>>

\* alone is the socket after its peer was closed.
CloseEffect(so, alone) ==
  Effect(IF so.st = "closing" \/ so.q = <<>>
         THEN local_socket_destroy(alone)
         ELSE [fdevent_del(alone, "R") EXCEPT !.st = "closing"],
         remote_socket_close(so.peer), 1)

local_socket_close_locked(so) == CloseEffect(so, [so EXCEPT !.peer = 0])

local_socket_ready_notify(so) ==
  local_socket_ready([so EXCEPT !.hook = FALSE, !.told = "OKAY"])

local_socket_close_notify(so) ==
  local_socket_close_locked([so EXCEPT !.hook = FALSE, !.told = "FAIL"])

\* s->ready(s) and s->close(s), through the socket's own pointers.
Ready(so) ==
  IF so.hook THEN local_socket_ready_notify(so) ELSE local_socket_ready(so)

Close_Unhooked(so) == local_socket_close_locked(so)

Close(so) ==
  IF so.hook THEN local_socket_close_notify(so)
             ELSE local_socket_close_locked(so)

\* The most the fd accepts before adb_write answers EAGAIN.
Room(so) == so.took + FdCap
Lesser(a, b) == IF a <= b THEN a ELSE b

\* local_socket_enqueue(s, p): 0 when the socket can take more, 1 otherwise.
\* With a backlog the packet joins the queue; without, it is written as far as
\* the fd takes it and the rest is queued.
Backlogged(so, p, upto, written) ==
  [so EXCEPT !.out = written,
             !.q = Append(@, [arg0 |-> p.arg0, off |-> p.off, len |-> p.len,
                              upto |-> upto])]

EnqueueEffect(so, p, queued) ==
  IF so.q # <<>> THEN Effect(queued, <<>>, 1)
  ELSE IF p.len > 0 /\ so.shut = "full" THEN Close(so)
  ELSE IF so.out + p.len <= Room(so)
       THEN Effect([so EXCEPT !.out = @ + p.len], <<>>, 0)
       ELSE Effect(queued, <<>>, 1)

Expected(so) == IF so.q = <<>> THEN so.out ELSE so.q[Len(so.q)].upto
Filled(so) == IF so.q = <<>> THEN Room(so) ELSE so.out

local_socket_enqueue_NoWakeup(so, p) ==
  EnqueueEffect(so, p, Backlogged(so, p, Expected(so) + p.len, Filled(so)))

local_socket_enqueue_Rewinds(so, p) ==
  EnqueueEffect(so, p,
    fdevent_add(Backlogged(so, p, Filled(so) + p.len, Filled(so)), "W"))

local_socket_enqueue(so, p) ==
  EnqueueEffect(so, p,
    fdevent_add(Backlogged(so, p, Expected(so) + p.len, Filled(so)), "W"))

\* The FDE_WRITE half of local_socket_event_func; ret = 1 when it returned.
\* The queue is written out up to what the fd takes; answer is what the peer
\* is sent when all of it went.
WriteEffect(so, answer) ==
  LET written == Lesser(so.q[Len(so.q)].upto, Room(so))
      done    == Cardinality({n \in 1 .. Len(so.q) : so.q[n].upto <= written})
      drained == IF so.q = <<>> THEN so
                 ELSE [so EXCEPT !.out = written,
                                 !.q = SubSeq(@, done + 1, Len(@))]
  IN  IF so.q # <<>> /\ so.shut = "full" THEN Close(so)
      ELSE IF drained.q # <<>> THEN Effect(drained, <<>>, 1)
      ELSE IF so.st = "closing" THEN Close(drained)
      ELSE IF so.peer = 0 THEN Effect([drained EXCEPT !.st = "fault"], <<>>, 1)
      ELSE Effect(fdevent_del(drained, "W"), answer, 0)

EventWrite_ForgetsReady(i, so) == WriteEffect(so, <<>>)

EventWrite(i, so) == WriteEffect(so, <<OKAY(i, so.peer)>>)

\* The FDE_READ half: n bytes were read, after is the socket once the packet
\* with them is sent.  A short read that ended at the client's end of file
\* closes the socket, after what it read has been sent.
ReadEffect(i, so, n, after) ==
  LET eof   == n < MAX_PAYLOAD /\ so.shut # "no"
      sends == n > 0 /\ so.peer # 0
      so2   == IF sends THEN after ELSE [so EXCEPT !.got = @ + n]
      sent  == IF sends THEN <<WRTE(i, so.peer, so.got, n)>> ELSE <<>>
  IN  IF eof THEN Effect(Close(so2).so, sent \o Close(so2).sent, 1)
             ELSE Effect(so2, sent, 0)

EventRead_KeepsReading(i, so) ==
  LET n == Lesser(MAX_PAYLOAD, so.src - so.got)
  IN  ReadEffect(i, so, n, [so EXCEPT !.got = @ + n])

EventRead_Overruns(i, so) ==
  ReadEffect(i, so, MAX_PAYLOAD,
             fdevent_del([so EXCEPT !.got = @ + MAX_PAYLOAD], "R"))

EventRead_ClosesFirst(i, so) ==
  LET n   == Lesser(MAX_PAYLOAD, so.src - so.got)
      so2 == [so EXCEPT !.got = @ + n]
  IN  IF n < MAX_PAYLOAD /\ so.shut # "no" THEN Close(so2)
      ELSE ReadEffect(i, so, n, fdevent_del(so2, "R"))

EventRead(i, so) ==
  LET n == Lesser(MAX_PAYLOAD, so.src - so.got)
  IN  ReadEffect(i, so, n, fdevent_del([so EXCEPT !.got = @ + n], "R"))

local_socket_event_func(i, so, ev) ==
  LET w == IF "W" \in ev THEN EventWrite(i, so) ELSE Effect(so, <<>>, 0)
      r == EventRead(i, w.so)
  IN  IF w.ret = 1 \/ "R" \notin ev
      THEN w
      ELSE Effect(r.so, w.sent \o r.sent, r.ret)

-----------------------------------------------------------------------------
(* adb.c: handle_packet, for the packets that carry streams.               *)

\* A_OPEN whose service could be started: the new socket of this side.
OpenEffect(j, p) ==
  Effect(Ready([create_local_socket EXCEPT !.peer = p.arg0]),
         <<OKAY(j, p.arg0)>>, 0)

\* A_OKAY, A_CLSE and A_WRTE for the open local socket arg1.
ReadyPacket_Unbound(so, p) == Effect(Ready(so), <<>>, 0)

ReadyPacket(so, p) ==
  Effect(Ready(IF so.peer = 0 THEN [so EXCEPT !.peer = p.arg0] ELSE so), <<>>, 0)

WritePacket(so, p) ==
  LET e == local_socket_enqueue(so, p)
  IN  IF e.ret = 0 THEN Effect(e.so, <<OKAY(p.arg1, p.arg0)>>, 0) ELSE e

StreamEffect(so, p) ==
  CASE p.cmd = "OKAY" -> ReadyPacket(so, p)
    [] p.cmd = "CLSE" -> Close(so)
    [] OTHER          -> WritePacket(so, p)

\* find_local_socket(id): only the sockets on local_socket_list are found.
find_local_socket(s, id) == id \in Id /\ sock[s][id].st = "open"

-----------------------------------------------------------------------------
(* The network: a FIFO to each side that loses what is sent after the link *)
(* broke.                                                                  *)

send_packets(ch, s, packets) ==
  IF link = "up" THEN [ch EXCEPT ![Other(s)] = @ \o packets] ELSE ch

\* Side s applies an effect to its socket i, having taken its channel to ch.
Apply(s, i, e, ch) ==
  /\ sock' = [sock EXCEPT ![s][i] = e.so]
  /\ chan' = send_packets(ch, s, e.sent)

-----------------------------------------------------------------------------
Init ==
  /\ sock = [s \in Side |-> [i \in Id |-> NoSocket]]
  /\ nextId = [s \in Side |-> 1]
  /\ chan = [s \in Side |-> <<>>]
  /\ tstate = [s \in Side |-> "online"]
  /\ link = "up"
  /\ tev = [s \in Side |-> FALSE]

(* connect_to_remote: a client of side s asks for a stream.  The sockets   *)
(* of a smart socket have the notify hooks; those of a forwarding listener *)
(* do not.  When the read that completed the request also met the client's *)
(* end of file, the new socket is closed by the same event.                *)
Connect(s, smart, early) ==
  LET i  == nextId[s]
      so == [create_local_socket EXCEPT !.hook = smart,
                                        !.shut = IF early THEN "half" ELSE "no"]
      e  == IF early THEN Close(so) ELSE Effect(so, <<>>, 0)
  IN  /\ s \in Openers
      /\ early => smart /\ "half" \in Shuts
      /\ tstate[s] = "online"
      /\ i \in Id
      /\ nextId' = [nextId EXCEPT ![s] = i + 1]
      /\ Apply(s, i, Effect(e.so, <<OPEN(i)>> \o e.sent, 0), chan)
      /\ UNCHANGED <<tstate, link, tev>>

(* fdevent_process: select() returns and every ready event is marked       *)
(* pending.  It is called when the previous batch has been dispatched.     *)
ReadyEvents(so) ==
  {e \in so.want :
     \/ e = "R" /\ (so.got < so.src \/ so.shut # "no")
     \/ e = "W" /\ (so.out < Room(so) \/ so.shut = "full")}

TransportReady(s) == chan[s] # <<>> \/ (link = "down" /\ tstate[s] = "online")

Idle(s) == ~tev[s] /\ \A i \in Id : sock[s][i].pend = {}

fdevent_process(s) ==
  /\ Idle(s)
  /\ TransportReady(s) \/ \E i \in Id : ReadyEvents(sock[s][i]) # {}
  /\ sock' = [sock EXCEPT ![s] =
                [i \in Id |-> [sock[s][i] EXCEPT !.pend = ReadyEvents(sock[s][i])]]]
  /\ tev' = [tev EXCEPT ![s] = TransportReady(s)]
  /\ UNCHANGED <<nextId, chan, tstate, link>>

(* fdevent_call_fdfunc for a local socket.                                 *)
SocketEvent(s, i) ==
  /\ sock[s][i].pend # {}
  /\ Apply(s, i, local_socket_event_func(i, fdevent_taken(sock[s][i]),
                                         sock[s][i].pend), chan)
  /\ UNCHANGED <<nextId, tstate, link, tev>>

(* fdevent_call_fdfunc for the transport: one packet is handled.           *)
TakePacket(s) ==
  /\ tev[s]
  /\ tev' = [tev EXCEPT ![s] = FALSE]
  /\ chan[s] # <<>>

Rest(s) == [chan EXCEPT ![s] = Tail(@)]

\* create_local_service_socket failed (or the bound on sockets is reached).
RefuseOpen_Silently(s) ==
  /\ TakePacket(s)
  /\ Head(chan[s]).cmd = "OPEN"
  /\ tstate[s] = "online"
  /\ chan' = Rest(s)
  /\ UNCHANGED <<sock, nextId, tstate, link>>

RefuseOpen(s) ==
  /\ TakePacket(s)
  /\ Head(chan[s]).cmd = "OPEN"
  /\ tstate[s] = "online"
  /\ chan' = send_packets(Rest(s), s, <<CLSE(0, Head(chan[s]).arg0)>>)
  /\ UNCHANGED <<sock, nextId, tstate, link>>

AcceptOpen_ReusesId(s) ==
  /\ TakePacket(s)
  /\ Head(chan[s]).cmd = "OPEN"
  /\ tstate[s] = "online"
  /\ nextId[s] \in Id
  /\ Apply(s, nextId[s], OpenEffect(nextId[s], Head(chan[s])), Rest(s))
  /\ UNCHANGED <<nextId, tstate, link>>

AcceptOpen(s) ==
  /\ TakePacket(s)
  /\ Head(chan[s]).cmd = "OPEN"
  /\ tstate[s] = "online"
  /\ nextId[s] \in Id
  /\ nextId' = [nextId EXCEPT ![s] = @ + 1]
  /\ Apply(s, nextId[s], OpenEffect(nextId[s], Head(chan[s])), Rest(s))
  /\ UNCHANGED <<tstate, link>>

HandleStream(s) ==
  LET p == Head(chan[s])
  IN  /\ TakePacket(s)
      /\ p.cmd # "OPEN"
      /\ tstate[s] = "online"
      /\ find_local_socket(s, p.arg1)
      /\ Apply(s, p.arg1, StreamEffect(sock[s][p.arg1], p), Rest(s))
      /\ UNCHANGED <<nextId, tstate, link>>

\* The packet's socket is gone, or the transport is offline: it is dropped.
HandleStale(s) ==
  /\ TakePacket(s)
  /\ \/ tstate[s] # "online"
     \/ Head(chan[s]).cmd # "OPEN" /\ ~find_local_socket(s, Head(chan[s]).arg1)
  /\ chan' = Rest(s)
  /\ UNCHANGED <<sock, nextId, tstate, link>>

(* SYNC(0): the transport thread saw the connection break.  handle_offline *)
(* runs remote_socket_disconnect for every remote socket, which closes the *)
(* local socket behind it without a packet.                                *)
Disconnected_Ignored(so) == so

Disconnected(so) ==
  IF so.st = "open" /\ so.peer # 0
  THEN Close([so EXCEPT !.peer = 0]).so
  ELSE so

HandleOffline(s) ==
  /\ tev[s]
  /\ tev' = [tev EXCEPT ![s] = FALSE]
  /\ chan[s] = <<>>
  /\ link = "down"
  /\ tstate[s] = "online"
  /\ tstate' = [tstate EXCEPT ![s] = "offline"]
  /\ sock' = [sock EXCEPT ![s] = [i \in Id |-> Disconnected(sock[s][i])]]
  /\ UNCHANGED <<nextId, chan, link>>

(* close_all_sockets, run by the transport's input thread once SYNC(0) has *)
(* come back to it.  It calls local_socket_close_locked itself, so the     *)
(* notify hooks do not run.                                                *)
CloseAllSockets(s) ==
  /\ tstate[s] = "offline"
  /\ tstate' = [tstate EXCEPT ![s] = "swept"]
  /\ sock' = [sock EXCEPT ![s] =
       [i \in Id |-> IF sock[s][i].st = "open"
                     THEN local_socket_close_locked(sock[s][i]).so
                     ELSE sock[s][i]]]
  /\ UNCHANGED <<nextId, chan, link, tev>>

(* The connection breaks.  Some of what was under way has already reached  *)
(* the receiving process and is still handled.                             *)
BreakLink ==
  /\ LinkMayFail
  /\ link = "up"
  /\ link' = "down"
  /\ \E h \in 0 .. Len(chan["host"]), d \in 0 .. Len(chan["device"]) :
       chan' = [s \in Side |-> SubSeq(chan[s], 1, IF s = "host" THEN h ELSE d)]
  /\ UNCHANGED <<sock, nextId, tstate, tev>>

-----------------------------------------------------------------------------
(* The clients and services at the other end of the sockets' descriptors.  *)

HasClient(so) == so.st \in {"open", "closing"} /\ so.shut # "full"

Client(s, i, so) ==
  /\ sock' = [sock EXCEPT ![s][i] = so]
  /\ UNCHANGED <<nextId, chan, tstate, link, tev>>

ClientWrite(s, i) ==
  LET so == sock[s][i]
  IN  /\ HasClient(so) /\ so.shut = "no" /\ so.src < MaxBytes(s)
      /\ Client(s, i, [so EXCEPT !.src = @ + 1])

ClientRead(s, i) ==
  LET so == sock[s][i]
  IN  /\ HasClient(so) /\ so.took < so.out
      /\ Client(s, i, [so EXCEPT !.took = so.out])

ClientShut(s, i, how) ==
  LET so == sock[s][i]
  IN  /\ HasClient(so) /\ how \in Shuts /\ so.shut # how
      /\ Client(s, i, [so EXCEPT !.shut = how])

-----------------------------------------------------------------------------
Loop(s) ==
  \/ fdevent_process(s)
  \/ \E i \in Id : SocketEvent(s, i)
  \/ AcceptOpen(s)
  \/ RefuseOpen(s)
  \/ HandleStream(s)
  \/ HandleStale(s)
  \/ HandleOffline(s)

Environment ==
  \/ \E s \in Side, i \in Id :
       \/ ClientWrite(s, i)
       \/ ClientRead(s, i)
       \/ \E how \in Shuts : ClientShut(s, i, how)
  \/ BreakLink

Next ==
  \/ \E s \in Side, smart, early \in BOOLEAN : Connect(s, smart, early)
  \/ \E s \in Side : Loop(s) \/ CloseAllSockets(s)
  \/ Environment

Spec == Init /\ [][Next]_vars

(* Fairness.  A main loop never stops: it dispatches the batch select()    *)
(* gave it and calls select() again.  The input thread runs once SYNC(0)   *)
(* reached it.  A client that stays connected keeps reading.               *)
Fairness ==
  /\ \A s \in Side : WF_vars(Loop(s)) /\ WF_vars(CloseAllSockets(s))
  /\ \A s \in Side, i \in Id : WF_vars(ClientRead(s, i))

FairSpec == Spec /\ Fairness

-----------------------------------------------------------------------------
(* Safety.                                                                 *)

\* Type correctness; adb never takes more bytes out of a descriptor than its
\* client put in (the read loop of local_socket_event_func).
TypeOK ==
  /\ sock \in [Side -> [Id -> Socket]]
  /\ nextId \in [Side -> 1 .. (MaxId + 1)]
  /\ chan \in [Side -> Seq(Packet)]
  /\ tstate \in [Side -> {"online", "offline", "swept"}]
  /\ link \in {"up", "down"}
  /\ tev \in [Side -> BOOLEAN]
  /\ \A s \in Side, i \in Id : sock[s][i].got <= sock[s][i].src

\* The right to send one WRTE for socket i of side s is a credit.  It is in one
\* of four places: in an OPEN or WRTE that is on its way, in the queue of the
\* receiving socket, in an OKAY on its way back, or with the socket, which then
\* listens for FDE_READ.
Sent(ch, s, i) ==
  {n \in 1 .. Len(ch[Other(s)]) : /\ ch[Other(s)][n].cmd \in {"OPEN", "WRTE"}
                                  /\ ch[Other(s)][n].arg0 = i}
Acked(ch, s, i) ==
  {n \in 1 .. Len(ch[s]) : ch[s][n].cmd = "OKAY" /\ ch[s][n].arg1 = i}
Held(sk, s, i, j) ==
  {n \in 1 .. Len(sk[Other(s)][j].q) : sk[Other(s)][j].q[n].arg0 = i}

Credits(sk, ch, s, i) ==
  {<<"sent", 0, n>> : n \in Sent(ch, s, i)}
    \union {<<"okay", 0, n>> : n \in Acked(ch, s, i)}
    \union (UNION {{<<"held", j, n>> : n \in Held(sk, s, i, j)} : j \in Id})
    \union (IF "R" \in sk[s][i].want THEN {<<"read", 0, 0>>} ELSE {})

\* No socket of this module ever has two credits (the forced read of a shell, in
\* ShellService, and jdwp's trackers do not ask for one): after a WRTE, none is sent before the other
\* side has written its bytes out and answered OKAY (protocol.txt:145), so the
\* memory a slow reader makes the other process hold is one packet per stream.
FlowControl ==
  \A s \in Side, i \in Id : \A a, b \in Credits(sock, chan, s, i) : a = b

\* Everything that says which host socket and which device socket form a
\* stream: the peers, the packets on their way and the packets in the queues.
LinkOf(s, mine, theirs) ==
  IF s = "host" THEN <<mine, theirs>> ELSE <<theirs, mine>>
PeerLinks(s) ==
  {LinkOf(s, i, sock[s][i].peer) : i \in {j \in Id : sock[s][j].peer # 0}}
PacketLinks(s) ==
  {LinkOf(s, chan[s][n].arg1, chan[s][n].arg0) :
     n \in {m \in 1 .. Len(chan[s]) : chan[s][m].cmd \in {"OKAY", "WRTE"}}}
QueueLinks(s, i) ==
  {LinkOf(s, i, sock[s][i].q[n].arg0) : n \in 1 .. Len(sock[s][i].q)}
Links ==
  UNION {PeerLinks(s) \union PacketLinks(s)
           \union UNION {QueueLinks(s, i) : i \in Id} : s \in Side}

\* Streams never cross: no socket is tied to two sockets of the other side,
\* although OKAY, WRTE and CLSE are routed by arg1 alone (adb.c:582, 594, 602).
Paired == \A a, b \in Links : a[1] = b[1] <=> a[2] = b[2]

\* The write event of a socket never meets a null peer (sockets.c:316): a
\* backlog cannot build up on a socket that no OKAY has bound yet.
NeverFaults == \A s \in Side, i \in Id : sock[s][i].st # "fault"

\* Bytes are neither lost, repeated nor reordered while a stream is open: what
\* a queue holds, and the packet on its way, continue what was written.
InOrder ==
  \A s \in Side, i \in Id :
    LET so == sock[s][i]
    IN  /\ \A n \in 1 .. Len(so.q) : so.q[n].upto = so.q[n].off + so.q[n].len
        /\ so.st = "open" =>
             \A n \in 1 .. Len(chan[s]) :
               chan[s][n].cmd = "WRTE" /\ chan[s][n].arg1 = i
                 => chan[s][n].off = Expected(so)

\* The sockets that the input thread's close_all_sockets destroys behind the
\* main loop's back (transport.c:359) are ones the loop is not working on: they
\* have no peer, no backlog and no event, wanted or pending.
SweepIsQuiet ==
  \A s \in Side, i \in Id :
    tstate[s] = "offline" /\ sock[s][i].st = "open"
      => /\ sock[s][i].peer = 0 /\ sock[s][i].q = <<>>
         /\ sock[s][i].want = {} /\ sock[s][i].pend = {}

\* A client of a smart socket is closed without OKAY or FAIL only by the sweep.
SilentOnlyBySweep ==
  \A s \in Side, i \in Id :
    sock[s][i].st = "freed" /\ sock[s][i].hook => tstate[s] = "swept"

-----------------------------------------------------------------------------
(* Liveness, under FairSpec.                                               *)

\* A stream that one end left does not stay open at the other end.  The client
\* that was told FAIL left before it knew its peer, so no CLSE names it.
CloseReachesPeer ==
  \A s \in Side, i, j \in Id :
    (/\ sock[s][i].st \in {"closing", "freed"} /\ sock[s][i].told # "FAIL"
     /\ sock[Other(s)][j].st = "open" /\ sock[Other(s)][j].peer = i)
      ~> sock[Other(s)][j].st # "open"

\* What adb has read from one end is written to the other end, closed or not,
\* unless the client there ends the connection or the link breaks.
ReadIsDelivered ==
  \A s \in Side, i, j \in Id : \A n \in 1 .. MaxBytes(s) :
    (sock[s][i].peer = j /\ sock[s][i].got = n)
      ~> (sock[Other(s)][j].out >= n \/ sock[Other(s)][j].shut # "no" \/ link = "down")

\* The credit comes back: on a stream that stays open, all that the client
\* writes is read, however small the buffers between adb and the clients are
\* (again but for the client that was told FAIL before it knew its peer).
WrittenIsRead ==
  \A s \in Side, i \in Id : \A n \in 1 .. MaxBytes(s) :
    (sock[s][i].src = n /\ sock[s][i].peer # 0)
      ~> \/ sock[s][i].got >= n
         \/ sock[s][i].st # "open"
         \/ \E j \in Id : sock[s][i].peer = j /\ sock[Other(s)][j].told = "FAIL"

\* A client of a smart socket gets its OKAY or FAIL, unless the link breaks.
SmartIsAnswered ==
  \A s \in Side, i \in Id :
    (sock[s][i].st = "open" /\ sock[s][i].hook)
      ~> (sock[s][i].told # "none" \/ link = "down")

-----------------------------------------------------------------------------
(* What comments say that the code does not do.                            *)

\* sockets.c:302: "if we sent the last packet of a closing socket, we can now
\* destroy it": until then the closing list keeps it.
ClosingIsDrained ==
  [][\A s \in Side, i \in Id :
       (/\ sock[s][i].st = "closing" /\ sock[s][i].shut # "full"
        /\ sock'[s][i].st = "freed")
         => sock'[s][i].out = Expected(sock[s][i])]_vars
=============================================================================
