----------------------------- MODULE TransportPump -----------------------------
(***************************************************************************)
(* The life of one socket transport of the host (transport.c): the main    *)
(* loop, which registers it, talks to its threads over a socketpair and    *)
(* frees it, and the two threads that move packets between the socketpair  *)
(* and the device.  The threads share the transport's reference count,     *)
(* its kicked flag and its descriptors; transport_lock protects some of    *)
(* the accesses and each step below is one such critical section, or one   *)
(* access outside it.                                                      *)
(*                                                                         *)
(* The output thread announces SYNC(1) and, when the device is lost,       *)
(* SYNC(0); the main loop sends both on to the input thread, so that each  *)
(* thread learns of them in order with the packets around them.            *)
(***************************************************************************)
EXTENDS Integers, Sequences

CONSTANTS
  PipeCap,       \* packets the socketpair buffers towards the main loop
  MaxIn,         \* bound: packets the device sends
  MaxOut         \* bound: packets the streams send

ASSUME PipeCapAssumption == PipeCap \in Nat \ {0}
ASSUME MaxAssumption == MaxIn \in Nat /\ MaxOut \in Nat

VARIABLES
  place,       \* where the transport is: "new", on pending_list ("pending"), on
               \* transport_list ("listed"), unlinked from it, or freed
  reg,         \* the actions on the transport registration socketpair
  unregistered,  \* history: unregister_transport ran
  pc,          \* pc[th]: where the thread th is
  ref,         \* t->ref_count
  kicked,      \* t->kicked
  kicks,       \* how often t->kick was called
  sfd,         \* the connection to the device: "open" or "closed"
  fd,          \* the threads' half of the socketpair.  "reused": its number now
               \* names a descriptor of another part of the process
  tsock,       \* the main loop's half of the socketpair
  astray,      \* a descriptor of another part of the process was closed
  toMain,      \* packets written to t->fd and not yet read by the main loop
  toInput,     \* packets written to t->transport_socket and not yet read
  active,      \* the input thread's local variable
  ignored,     \* the input thread dropped a packet
  sync_token,
  online,      \* t->online
  sent,        \* counter, for the bound MaxOut
  device,      \* the device's end: is it there, and was it sent our CNXN?
  inbox,       \* packets of the device on their way to the output thread
  received     \* counter, for the bound MaxIn

registryVars == <<place, reg, unregistered>>
countVars == <<ref, kicked, kicks>>
fdVars == <<sfd, fd, tsock, astray>>
pumpVars == <<toMain, toInput, active, ignored, sync_token, online, sent>>
deviceVars == <<device, inbox, received>>
vars == <<pc, registryVars, countVars, fdVars, pumpVars, deviceVars>>

Thread == {"main", "out", "in"}

SYNC(arg0, arg1) == [cmd |-> "SYNC", arg0 |-> arg0, arg1 |-> arg1]
Msg(cmd) == [cmd |-> cmd, arg0 |-> 0, arg1 |-> 0]

\* What the device sends: its CNXN, a stream packet, or one that check_header
\* or check_data refuse.
Inbound == {"CNXN", "WRTE", "BAD"}

Goto(th, l) == pc' = [pc EXCEPT ![th] = l]

\* While the transport is not freed a thread may touch it.
At(th, l) == pc[th] = l /\ place # "freed"

-----------------------------------------------------------------------------
Init ==
  /\ place = "new" /\ reg = <<>> /\ unregistered = FALSE
  /\ pc = [th \in Thread |-> IF th = "main" THEN "idle" ELSE "none"]
  /\ ref = 0 /\ kicked = FALSE /\ kicks = 0
  /\ sfd = "open" /\ fd = "none" /\ tsock = "none" /\ astray = FALSE
  /\ toMain = <<>> /\ toInput = <<>>
  /\ active = FALSE /\ ignored = FALSE /\ sync_token = 1 /\ online = FALSE
  /\ device = [up |-> TRUE, greeted |-> FALSE] /\ inbox = <<>>
  /\ received = 0 /\ sent = 0

(* register_socket_transport, run by the thread that made the connection.  *)
register_socket_transport ==
  /\ place = "new"
  /\ place' = "pending"
  /\ reg' = Append(reg, 1)
  /\ UNCHANGED <<pc, unregistered, countVars, fdVars, pumpVars, deviceVars>>

(* transport_registration_func, action 1: the threads are started before   *)
(* the transport moves to transport_list.                                  *)
StartThreads_OneRef ==
  /\ At("main", "idle") /\ reg # <<>> /\ Head(reg) = 1
  /\ reg' = Tail(reg)
  /\ ref' = 1
  /\ fd' = "open" /\ tsock' = "open"
  /\ pc' = [main |-> "listing", out |-> "start", in |-> "read"]
  /\ UNCHANGED <<place, unregistered, kicked, kicks, sfd, astray, pumpVars, deviceVars>>

StartThreads ==
  /\ At("main", "idle") /\ reg # <<>> /\ Head(reg) = 1
  /\ reg' = Tail(reg)
  /\ ref' = 2
  /\ fd' = "open" /\ tsock' = "open"
  /\ pc' = [main |-> "listing", out |-> "start", in |-> "read"]
  /\ UNCHANGED <<place, unregistered, kicked, kicks, sfd, astray, pumpVars, deviceVars>>

PutOnList ==
  /\ At("main", "listing")
  /\ Goto("main", "idle")
  /\ place' = "listed"
  /\ UNCHANGED <<reg, unregistered, countVars, fdVars, pumpVars, deviceVars>>

(* Action 0: both halves of the socketpair are closed and the transport is *)
(* freed.  t->fd was closed before, by remote_close.                       *)
RemoveTransport ==
  /\ At("main", "idle") /\ reg # <<>> /\ Head(reg) = 0
  /\ reg' = Tail(reg)
  /\ tsock' = "closed"
  /\ fd' = "closed"
  /\ astray' = (astray \/ fd = "reused")
  /\ place' = "freed"
  /\ UNCHANGED <<pc, unregistered, sfd, countVars, pumpVars, deviceVars>>

-----------------------------------------------------------------------------
(* kick_transport(t) and transport_unref(t), as every thread calls them on *)
(* its way out.                                                            *)

\* remote_kick and remote_close of transport_local.c.
remote_kick == sfd' = "closed" /\ kicks' = kicks + 1
remote_close == fd' = (IF fd = "open" THEN "closed" ELSE fd)

KickTest(th) ==
  /\ At(th, "kick")
  /\ Goto(th, IF kicked THEN "unref" ELSE "lock")
  /\ UNCHANGED <<registryVars, countVars, fdVars, pumpVars, deviceVars>>

KickLock_TestsOnce(th) ==
  /\ At(th, "lock")
  /\ Goto(th, "call")
  /\ kicked' = TRUE
  /\ UNCHANGED <<ref, kicks, registryVars, fdVars, pumpVars, deviceVars>>

KickLock(th) ==
  /\ At(th, "lock")
  /\ Goto(th, IF kicked THEN "unref" ELSE "call")
  /\ kicked' = TRUE
  /\ UNCHANGED <<ref, kicks, registryVars, fdVars, pumpVars, deviceVars>>

KickCall(th) ==
  /\ At(th, "call")
  /\ Goto(th, "unref")
  /\ remote_kick
  /\ UNCHANGED <<ref, kicked, fd, tsock, astray, registryVars, pumpVars, deviceVars>>

\* transport_unref_locked.  Every caller has set t->kicked before, so that its
\* own kick is never due.
transport_unref(th) ==
  /\ At(th, "unref")
  /\ Goto(th, IF th = "main" THEN "idle" ELSE "done")
  /\ ref' = ref - 1
  /\ IF ref = 1
     THEN remote_close /\ reg' = Append(reg, 0)
     ELSE UNCHANGED <<fd, reg>>
  /\ UNCHANGED <<place, unregistered, kicked, kicks, sfd, tsock, astray, pumpVars, deviceVars>>

Leave(th) == KickTest(th) \/ KickLock(th) \/ KickCall(th) \/ transport_unref(th)

(* unregister_transport, for "disconnect:".                                *)
unregister_transport ==
  /\ At("main", "idle") /\ place = "listed"
  /\ place' = "unlisted" /\ unregistered' = TRUE
  /\ Goto("main", "kick")
  /\ UNCHANGED <<reg, countVars, fdVars, pumpVars, deviceVars>>

-----------------------------------------------------------------------------
(* output_thread                                                           *)

\* write_packet(t->fd, ...) waits for room in the socketpair.  It could fail only on
\* a descriptor that was closed, which t->fd is not yet (OutputHasPipe).
WriteToMain(m) == Len(toMain) < PipeCap /\ toMain' = Append(toMain, m)

OutputStart ==
  /\ At("out", "start")
  /\ sync_token' = sync_token + 1
  /\ WriteToMain(SYNC(1, sync_token'))
  /\ Goto("out", "pump")
  /\ UNCHANGED <<toInput, active, ignored, online, sent, registryVars, countVars, fdVars, deviceVars>>

\* read_from_remote returned a packet.
OutputRead ==
  /\ At("out", "pump") /\ sfd = "open"
  /\ inbox # <<>> /\ Head(inbox) # "BAD"
  /\ WriteToMain(Msg(Head(inbox)))
  /\ inbox' = Tail(inbox)
  /\ UNCHANGED <<pc, toInput, active, ignored, sync_token, online, device, received, sent, registryVars, countVars, fdVars>>

\* read_from_remote failed: the connection was kicked, the device is gone, or
\* what it sent is no packet.
ReadFails ==
  \/ sfd = "closed"
  \/ inbox = <<>> /\ ~device.up
  \/ inbox # <<>> /\ Head(inbox) = "BAD"

OutputOffline ==
  /\ At("out", "pump") /\ ReadFails
  /\ WriteToMain(SYNC(0, 0))
  /\ Goto("out", "kick")
  /\ UNCHANGED <<toInput, active, ignored, sync_token, online, sent, registryVars, countVars, fdVars, deviceVars>>

-----------------------------------------------------------------------------
(* input_thread                                                            *)

\* p is the packet read; stops says whether the thread leaves its loop.
InputEffect(p, stops) ==
  /\ toInput' = Tail(toInput)
  /\ Goto("in", IF stops THEN "sweep" ELSE "read")
  /\ active' = (active \/ (p.cmd = "SYNC" /\ p.arg0 = 1 /\ p.arg1 = sync_token))
  /\ ignored' = \/ ignored
                \/ p.cmd = "SYNC" /\ p.arg0 = 1 /\ p.arg1 # sync_token
                \/ p.cmd # "SYNC" /\ ~active
  \* write_to_remote; a failed write is not looked at
  /\ device' = [device EXCEPT !.greeted = @ \/ (p.cmd = "CNXN" /\ active /\ sfd = "open")]
  /\ UNCHANGED <<toMain, sync_token, online, sent, inbox, received, registryVars, countVars, fdVars>>

Offline(p) == p.cmd = "SYNC" /\ p.arg0 = 0

InputMessage ==
  /\ At("in", "read") /\ toInput # <<>>
  /\ InputEffect(Head(toInput), Offline(Head(toInput)))

\* read_packet failed: t->fd was closed under the thread.
InputFails ==
  /\ At("in", "read") /\ fd # "open"
  /\ Goto("in", "sweep")
  /\ UNCHANGED <<registryVars, countVars, fdVars, pumpVars, deviceVars>>

\* close_all_sockets (the action of that name in AdbStreams).
InputSweep ==
  /\ At("in", "sweep")
  /\ Goto("in", "kick")
  /\ UNCHANGED <<registryVars, countVars, fdVars, pumpVars, deviceVars>>

\* A thread that is still running when the transport is freed.  What it does
\* with the freed memory is undefined; here it only comes to its end.
RunsOnFreed(th) ==
  /\ place = "freed" /\ pc[th] # "done"
  /\ Goto(th, "done")
  /\ UNCHANGED <<registryVars, countVars, fdVars, pumpVars, deviceVars>>

-----------------------------------------------------------------------------
(* The main loop: transport_socket_events and handle_packet.               *)

HandlePacket(replies, isOnline) ==
  /\ toMain' = Tail(toMain)
  /\ toInput' = toInput \o replies
  /\ online' = isOnline
  /\ UNCHANGED <<pc, active, ignored, sync_token, sent, registryVars, countVars, fdVars, deviceVars>>

\* The packet that transport_socket_events reads.
MainReads(cmd) ==
  At("main", "idle") /\ tsock = "open" /\ toMain # <<>> /\ Head(toMain).cmd = cmd

HandleSync_ConnectsFirst ==
  /\ MainReads("SYNC")
  /\ IF Head(toMain).arg0 = 1
     THEN HandlePacket(<<Msg("CNXN"), Head(toMain)>>, online)
     ELSE HandlePacket(<<Head(toMain)>>, FALSE)

HandleSync_KeepsOffline ==
  /\ MainReads("SYNC")
  /\ IF Head(toMain).arg0 = 1
     THEN HandlePacket(<<Head(toMain), Msg("CNXN")>>, online)
     ELSE HandlePacket(<<>>, FALSE)

HandleSync_StaysOnline ==
  /\ MainReads("SYNC")
  /\ HandlePacket(IF Head(toMain).arg0 = 1 THEN <<Head(toMain), Msg("CNXN")>>
                                           ELSE <<Head(toMain)>>, online)

\* SYNC(1): the answer and send_connect.  SYNC(0): handle_offline, the answer.
HandleSync ==
  /\ MainReads("SYNC")
  /\ IF Head(toMain).arg0 = 1
     THEN HandlePacket(<<Head(toMain), Msg("CNXN")>>, online)
     ELSE HandlePacket(<<Head(toMain)>>, FALSE)

HandleConnect == MainReads("CNXN") /\ HandlePacket(<<>>, TRUE)

\* A packet of a stream; what it does to the streams is AdbStreams.
HandleStream == MainReads("WRTE") /\ HandlePacket(<<>>, online)

\* A stream sends a packet (send_packet).
send_packet ==
  /\ At("main", "idle") /\ online /\ sent < MaxOut
  /\ sent' = sent + 1
  /\ toInput' = Append(toInput, Msg("WRTE"))
  /\ UNCHANGED <<pc, toMain, active, ignored, sync_token, online, registryVars, countVars, fdVars, deviceVars>>

-----------------------------------------------------------------------------
(* The device, and the rest of the process.                                *)

\* A device answers the host's CNXN and then sends packets.
DeviceSends ==
  /\ device.up /\ device.greeted /\ received < MaxIn
  /\ received' = received + 1
  /\ \E m \in Inbound :
       /\ received = 0 => m # "WRTE"
       /\ received > 0 => m # "CNXN"
       /\ inbox' = Append(inbox, m)
  /\ UNCHANGED <<pc, device, registryVars, countVars, fdVars, pumpVars>>

\* The connection breaks; what was not read yet may be lost.
DeviceLeaves ==
  /\ device.up
  /\ device' = [device EXCEPT !.up = FALSE]
  /\ \E n \in 0 .. Len(inbox) : inbox' = SubSeq(inbox, 1, n)
  /\ UNCHANGED <<pc, received, registryVars, countVars, fdVars, pumpVars>>

\* Another thread, or another handler of the main loop, opens a descriptor: the
\* system hands out the number that was freed.
DescriptorReused ==
  /\ fd = "closed" /\ place # "freed"
  /\ fd' = "reused"
  /\ UNCHANGED <<pc, sfd, tsock, astray, registryVars, countVars, pumpVars, deviceVars>>

-----------------------------------------------------------------------------
Main ==
  \/ StartThreads \/ PutOnList \/ RemoveTransport
  \/ HandleSync \/ HandleConnect \/ HandleStream
  \/ Leave("main")

Output ==
  \/ OutputStart \/ OutputRead \/ OutputOffline
  \/ Leave("out") \/ RunsOnFreed("out")

Input == InputMessage \/ InputFails \/ InputSweep \/ Leave("in") \/ RunsOnFreed("in")

Next ==
  \/ register_socket_transport \/ unregister_transport \/ send_packet
  \/ Main \/ Output \/ Input
  \/ DeviceSends \/ DeviceLeaves \/ DescriptorReused

Spec == Init /\ [][Next]_vars

\* The main loop and the threads keep running; nothing is asked of the device,
\* of the streams or of the user.
FairSpec == Spec /\ WF_vars(Main) /\ WF_vars(Output) /\ WF_vars(Input)

-----------------------------------------------------------------------------
(* Properties.                                                             *)

Label == {"none", "idle", "listing", "start", "pump", "read", "sweep",
          "kick", "lock", "call", "unref", "done"}
Message == [cmd : {"SYNC", "CNXN", "WRTE"}, arg0 : {0, 1}, arg1 : Nat]

\* Type correctness; the socketpair never holds more than its buffer.
TypeOK ==
  /\ place \in {"new", "pending", "listed", "unlisted", "freed"} /\ reg \in Seq({0, 1})
  /\ unregistered \in BOOLEAN
  /\ pc \in [Thread -> Label]
  /\ ref \in -1 .. 2 /\ kicked \in BOOLEAN /\ kicks \in Nat
  /\ sfd \in {"open", "closed"} /\ fd \in {"none", "open", "closed", "reused"}
  /\ tsock \in {"none", "open", "closed"} /\ astray \in BOOLEAN
  /\ toMain \in Seq(Message) /\ toInput \in Seq(Message) /\ Len(toMain) <= PipeCap
  /\ active \in BOOLEAN /\ ignored \in BOOLEAN /\ sync_token \in Nat /\ online \in BOOLEAN
  /\ device \in [up : BOOLEAN, greeted : BOOLEAN] /\ inbox \in Seq(Inbound)
  /\ received \in Nat /\ sent \in Nat

\* Both threads have left when the transport is closed or freed.
BothLeft ==
  (fd \in {"closed", "reused"} \/ place = "freed") => pc["out"] = "done" /\ pc["in"] = "done"

\* The output thread has a descriptor to write into, which was not closed or handed
\* out again: the error branches after its write_packet calls (transport.c:273, 286,
\* 304) are not taken.
OutputHasPipe == pc["out"] \in {"start", "pump"} => fd = "open"

\* transport.c:256: "The transport will not actually be closed until both
\* threads exit": its memory and its half of the socketpair outlive them.  Only
\* unregister_transport, which releases a reference it does not hold, is excepted;
\* and even that closes t->fd under the input thread only.
FreedLast == (~unregistered => BothLeft) /\ OutputHasPipe

\* The device is disconnected once, whichever threads leave together: kick_transport
\* looks at t->kicked without the lock first and decides under it.
KickedOnce == kicks <= 1

\* The input thread throws nothing away (its two "ignoring" branches): SYNC(1)
\* is ahead of every packet, and carries the current token.
NothingIgnored == ~ignored

\* Well typed, and when the input thread runs close_all_sockets, beside the main
\* loop, that loop has taken the transport offline and nothing can bring it back;
\* up to unregister_transport, which may close t->fd under the thread.
SweepAfterOffline ==
  TypeOK /\ (~unregistered /\ pc["in"] \in {"sweep", "kick", "lock", "call", "unref", "done"}
    => ~online /\ toMain = <<>>)

\* A transport that lost its device, or was kicked, is freed in the end.
Released == (place # "new" /\ (kicked \/ ~device.up)) ~> (place = "freed")

\* transport.c:593: "the remove closes one half of the socket pair.  The close
\* closes the other half": not a descriptor of another part of the process.
ClosesItsOwn == ~astray
=============================================================================
