-------------------------- MODULE TransportPumpProofs --------------------------
(***************************************************************************)
(* Proofs about TransportPump, for every size of the socketpair and every  *)
(* number of packets.                                                      *)
(***************************************************************************)
EXTENDS TransportPump, TLAPS

USE DEF Thread

-----------------------------------------------------------------------------
(* t->kick runs once.                                                      *)

\* The kick is counted, or one thread is about to make it, only after kicked was
\* set; whoever set it is the only one to make the call.
KickInv ==
  /\ pc \in [Thread -> Label]
  /\ kicks \in {0, 1} /\ kicked \in BOOLEAN
  /\ ~kicked => kicks = 0 /\ \A th \in Thread : pc[th] # "call"
  /\ kicks = 1 => \A th \in Thread : pc[th] # "call"
  /\ \A a, b \in Thread : pc[a] = "call" /\ pc[b] = "call" => a = b

LEMMA KickInit == Init => KickInv
BY DEF Init, KickInv, Label

LEMMA KickLeave ==
  ASSUME KickInv, NEW th \in Thread, Leave(th)
  PROVE  KickInv'
<1>1. CASE KickTest(th)
  BY <1>1 DEF KickTest, Goto, KickInv, countVars, Label
<1>2. CASE KickLock(th)
  BY <1>2 DEF KickLock, At, Goto, KickInv, Label
<1>3. CASE KickCall(th)
  BY <1>3 DEF KickCall, At, Goto, remote_kick, KickInv, Label
<1>4. CASE transport_unref(th)
  BY <1>4 DEF transport_unref, Goto, KickInv, Label
<1> QED  BY <1>1, <1>2, <1>3, <1>4 DEF Leave

LEMMA KickMain ==
  ASSUME KickInv, Main
  PROVE  KickInv'
<1>1. CASE StartThreads
  BY <1>1 DEF StartThreads, KickInv, Label
<1>2. CASE PutOnList
  BY <1>2 DEF PutOnList, Goto, countVars, KickInv, Label
<1>3. CASE RemoveTransport
  BY <1>3 DEF RemoveTransport, countVars, KickInv
<1>4. CASE HandleSync \/ HandleConnect \/ HandleStream
  <2>1. UNCHANGED <<pc, kicked, kicks>>
    BY <1>4 DEF HandleSync, HandleConnect, HandleStream, HandlePacket, countVars
  <2> QED  BY <2>1 DEF KickInv
<1>5. CASE Leave("main")
  BY <1>5, KickLeave
<1> QED  BY <1>1, <1>2, <1>3, <1>4, <1>5 DEF Main

LEMMA KickOutput ==
  ASSUME KickInv, Output
  PROVE  KickInv'
<1>1. CASE OutputStart
  BY <1>1 DEF OutputStart, Goto, countVars, KickInv, Label
<1>2. CASE OutputRead
  BY <1>2 DEF OutputRead, countVars, KickInv
<1>3. CASE OutputOffline
  BY <1>3 DEF OutputOffline, Goto, countVars, KickInv, Label
<1>4. CASE Leave("out")
  BY <1>4, KickLeave
<1>5. CASE RunsOnFreed("out")
  BY <1>5 DEF RunsOnFreed, Goto, countVars, KickInv, Label
<1> QED  BY <1>1, <1>2, <1>3, <1>4, <1>5 DEF Output

LEMMA KickInput ==
  ASSUME KickInv, Input
  PROVE  KickInv'
<1>1. CASE InputMessage
  BY <1>1 DEF InputMessage, InputEffect, Goto, countVars, KickInv, Label
<1>2. CASE InputFails
  BY <1>2 DEF InputFails, Goto, countVars, KickInv, Label
<1>3. CASE InputSweep
  BY <1>3 DEF InputSweep, Goto, countVars, KickInv, Label
<1>4. CASE Leave("in")
  BY <1>4, KickLeave
<1>5. CASE RunsOnFreed("in")
  BY <1>5 DEF RunsOnFreed, Goto, countVars, KickInv, Label
<1> QED  BY <1>1, <1>2, <1>3, <1>4, <1>5 DEF Input

LEMMA KickStep ==
  ASSUME KickInv, [Next]_vars
  PROVE  KickInv'
<1>1. CASE register_socket_transport
  BY <1>1 DEF register_socket_transport, countVars, KickInv
<1>2. CASE unregister_transport
  BY <1>2 DEF unregister_transport, Goto, countVars, KickInv, Label
<1>3. CASE send_packet
  BY <1>3 DEF send_packet, countVars, KickInv
<1>4. CASE DeviceSends \/ DeviceLeaves \/ DescriptorReused
  BY <1>4 DEF DeviceSends, DeviceLeaves, DescriptorReused, countVars, KickInv
<1>5. CASE UNCHANGED vars
  BY <1>5 DEF vars, countVars, KickInv
<1> QED  BY <1>1, <1>2, <1>3, <1>4, <1>5, KickMain, KickOutput, KickInput DEF Next

\* Whatever threads leave at the same time, and with "disconnect" on top, the
\* underlying connection is shut down at most once.
THEOREM OneKick == Spec => []KickedOnce
<1>1. KickInv => KickedOnce
  BY DEF KickInv, KickedOnce
<1> QED  BY <1>1, KickInit, KickStep, PTL DEF Spec

-----------------------------------------------------------------------------
(* The transport outlives its threads, unless it is disconnected.          *)

Started == pc["out"] # "none"
Count(th) == IF pc[th] = "done" THEN 0 ELSE 1

\* The reference count is the number of threads that have not left.  Only the
\* last of them closes t->fd and asks the main loop for the removal.
RefInv ==
  /\ pc \in [Thread -> Label]
  /\ pc["main"] \in {"idle", "listing"}
  /\ pc["out"] = "none" <=> pc["in"] = "none"
  /\ ~Started => fd = "none" /\ place \in {"new", "pending"} /\ pc["main"] = "idle"
                 /\ reg = (IF place = "new" THEN <<>> ELSE <<1>>)
  /\ Started => /\ place \notin {"new", "unlisted"}
                /\ place # "freed" => ref = Count("out") + Count("in")
                /\ place # "freed" /\ ref > 0 => fd = "open" /\ reg = <<>>
                /\ place # "freed" /\ ref = 0 => reg = <<0>>
                /\ place = "freed" => reg = <<>> /\ pc["out"] = "done" /\ pc["in"] = "done"

LEMMA RefInit == Init => RefInv
BY DEF Init, RefInv, Started, Label

LEMMA RefLeave ==
  ASSUME RefInv, NEW th \in Thread, Leave(th)
  PROVE  RefInv'
<1>0. Started /\ place # "freed" /\ th # "main" /\ pc[th] # "done"
  BY DEF RefInv, Leave, KickTest, KickLock, KickCall, transport_unref, At, Started
<1>1. CASE KickTest(th)
  BY <1>0, <1>1
    DEF KickTest, Goto, RefInv, Started, Count, countVars, registryVars, fdVars, Label
<1>2. CASE KickLock(th)
  BY <1>0, <1>2 DEF KickLock, Goto, RefInv, Started, Count, registryVars, fdVars, Label
<1>3. CASE KickCall(th)
  BY <1>0, <1>3 DEF KickCall, Goto, RefInv, Started, Count, registryVars, Label
<1>4. CASE transport_unref(th)
  <2>1. ref = Count("out") + Count("in") /\ Count(th) = 1 /\ ref \in {1, 2}
    BY <1>0 DEF RefInv, Count
  <2>2. /\ reg = <<>> /\ fd = "open"
        /\ ref' = ref - 1 /\ pc' = [pc EXCEPT ![th] = "done"] /\ place' = place
        /\ ref = 1 => reg' = Append(reg, 0)
        /\ ref = 2 => reg' = reg /\ fd' = fd
    BY <1>0, <1>4, <2>1 DEF transport_unref, Goto, RefInv
  <2>3. pc' \in [Thread -> Label] /\ Started' /\ pc'["main"] = pc["main"] /\ pc'["in"] # "none"
    BY <1>0, <2>2 DEF RefInv, Started, Label
  <2>4. ref' = (Count("out") + Count("in"))'
    BY <1>0, <2>1, <2>2 DEF Count, RefInv
  <2>5. ref' = 0 => reg' = <<0>>
    BY <2>1, <2>2
  <2>6. ref' > 0 => fd' = "open" /\ reg' = <<>>
    BY <2>1, <2>2
  <2> QED  BY <1>0, <2>2, <2>3, <2>4, <2>5, <2>6 DEF RefInv, Started
<1> QED  BY <1>1, <1>2, <1>3, <1>4 DEF Leave

LEMMA RefMain ==
  ASSUME RefInv, Main
  PROVE  RefInv'
<1>1. CASE StartThreads
  <2>1. ~Started /\ place = "pending" /\ reg = <<1>>
    <3>1. reg # <<>> /\ Head(reg) = 1
      BY <1>1 DEF StartThreads
    <3>2. Started => reg = <<>> \/ reg = <<0>>
      BY DEF RefInv, Count
    <3>3. ~Started
      BY <3>1, <3>2
    <3> QED  BY <3>1, <3>3 DEF RefInv
  <2>2. /\ reg' = <<>> /\ ref' = 2 /\ fd' = "open" /\ place' = "pending"
        /\ pc' = [main |-> "listing", out |-> "start", in |-> "read"]
    BY <1>1, <2>1 DEF StartThreads
  <2>3. /\ pc' \in [Thread -> Label] /\ pc'["main"] = "listing"
        /\ pc'["out"] = "start" /\ pc'["in"] = "read"
    BY <2>2 DEF Label
  <2> QED  BY <2>2, <2>3 DEF RefInv, Started, Count
<1>2. CASE PutOnList
  BY <1>2 DEF PutOnList, At, Goto, RefInv, Started, Count, countVars, fdVars, Label
<1>3. CASE RemoveTransport
  <2>1. Started /\ place # "freed" /\ ref = 0 /\ reg = <<0>>
    <3>1. reg # <<>> /\ Head(reg) = 0 /\ place # "freed"
      BY <1>3 DEF RemoveTransport, At
    <3>2. Started /\ ref = Count("out") + Count("in")
      BY <3>1 DEF RefInv
    <3> QED  BY <3>1, <3>2 DEF RefInv, Count
  <2>2. pc["out"] = "done" /\ pc["in"] = "done"
    BY <2>1 DEF RefInv, Count
  <2>3. reg' = <<>> /\ place' = "freed" /\ pc' = pc
    BY <1>3, <2>1 DEF RemoveTransport
  <2> QED  BY <2>2, <2>3 DEF RefInv, Started
<1>4. CASE HandleSync \/ HandleConnect \/ HandleStream
  <2>1. UNCHANGED <<pc, place, reg, ref, fd>>
    BY <1>4 DEF HandleSync, HandleConnect, HandleStream, HandlePacket, countVars,
                registryVars, fdVars
  <2> QED  BY <2>1 DEF RefInv, Started, Count
<1>5. CASE Leave("main")
  BY <1>5, RefLeave
<1> QED  BY <1>1, <1>2, <1>3, <1>4, <1>5 DEF Main

LEMMA RefOutput ==
  ASSUME RefInv, Output
  PROVE  RefInv'
<1> USE DEF RefInv, Started, Count, countVars, registryVars, fdVars, Label
<1>1. CASE OutputStart
  BY <1>1 DEF OutputStart, At, Goto
<1>2. CASE OutputRead
  BY <1>2 DEF OutputRead
<1>3. CASE OutputOffline
  BY <1>3 DEF OutputOffline, At, Goto
<1>4. CASE Leave("out")
  BY <1>4, RefLeave
<1>5. CASE RunsOnFreed("out")
  BY <1>5 DEF RunsOnFreed
<1> QED  BY <1>1, <1>2, <1>3, <1>4, <1>5 DEF Output

LEMMA RefInput ==
  ASSUME RefInv, Input
  PROVE  RefInv'
<1> USE DEF RefInv, Started, Count, countVars, registryVars, fdVars, Label
<1>1. CASE InputMessage
  BY <1>1 DEF InputMessage, InputEffect, At, Goto
<1>2. CASE InputFails
  BY <1>2 DEF InputFails, At, Goto
<1>3. CASE InputSweep
  BY <1>3 DEF InputSweep, At, Goto
<1>4. CASE Leave("in")
  BY <1>4, RefLeave
<1>5. CASE RunsOnFreed("in")
  BY <1>5 DEF RunsOnFreed
<1> QED  BY <1>1, <1>2, <1>3, <1>4, <1>5 DEF Input

\* Nothing resets the history variable.
LEMMA UnregisteredStays ==
  ASSUME unregistered, [Next]_vars
  PROVE  unregistered'
<1>1. CASE Main
  <2>1. CASE Leave("main")
    BY <2>1 DEF Leave, KickTest, KickLock, KickCall, transport_unref, registryVars
  <2> QED  BY <1>1, <2>1 DEF Main, StartThreads, PutOnList, RemoveTransport, HandleSync,
                HandleConnect, HandleStream, HandlePacket, registryVars
<1>2. CASE Output
  <2>1. CASE Leave("out")
    BY <2>1 DEF Leave, KickTest, KickLock, KickCall, transport_unref, registryVars
  <2> QED  BY <1>2, <2>1
        DEF Output, OutputStart, OutputRead, OutputOffline, RunsOnFreed, registryVars
<1>3. CASE Input
  <2>1. CASE Leave("in")
    BY <2>1 DEF Leave, KickTest, KickLock, KickCall, transport_unref, registryVars
  <2> QED  BY <1>3, <2>1 DEF Input, InputMessage, InputEffect, InputFails, InputSweep,
                RunsOnFreed, registryVars
<1> QED  BY <1>1, <1>2, <1>3 DEF Next, vars, registryVars, register_socket_transport,
              unregister_transport, send_packet, DeviceSends, DeviceLeaves, DescriptorReused

LEMMA RefStep ==
  ASSUME RefInv, [Next]_vars
  PROVE  unregistered' \/ RefInv'
<1>1. CASE register_socket_transport
  <2>1. place = "new" /\ place' = "pending" /\ reg' = Append(reg, 1)
        /\ UNCHANGED <<pc, ref, fd>>
    BY <1>1 DEF register_socket_transport, countVars, fdVars
  <2>2. ~Started /\ reg = <<>>
    BY <2>1 DEF RefInv
  <2>3. reg' = <<1>>
    BY <2>1, <2>2
  <2> QED  BY <2>1, <2>2, <2>3 DEF RefInv, Started
<1>2. CASE unregister_transport
  BY <1>2 DEF unregister_transport
<1>3. CASE send_packet \/ DeviceSends \/ DeviceLeaves \/ UNCHANGED vars
  <2>1. UNCHANGED <<pc, place, reg, ref, fd>>
    BY <1>3 DEF send_packet, DeviceSends, DeviceLeaves, vars, countVars, registryVars, fdVars
  <2> QED  BY <2>1 DEF RefInv, Started, Count
<1>4. CASE DescriptorReused
  BY <1>4 DEF DescriptorReused, RefInv, Started, Count, countVars, registryVars
<1> QED  BY <1>1, <1>2, <1>3, <1>4, RefMain, RefOutput, RefInput DEF Next

-----------------------------------------------------------------------------
(* The types, with "disconnect" and the reference it takes too many.       *)

Leaving == {"kick", "lock", "call", "unref"}
MainDone == IF unregistered /\ pc["main"] = "idle" THEN 1 ELSE 0

\* The main loop is on its way out of unregister_transport once, and each of the
\* three gives its reference back once: ref_count does not fall below -1.
LifeInv ==
  /\ pc \in [Thread -> Label] /\ reg \in Seq({0, 1}) /\ unregistered \in BOOLEAN
  /\ ref \in -1 .. 2 /\ place \in {"new", "pending", "listed", "unlisted", "freed"}
  /\ pc["main"] \in {"idle", "listing"} \union Leaving
  /\ pc["out"] \in {"none", "start", "pump", "done"} \union Leaving
  /\ pc["in"] \in {"none", "read", "sweep", "done"} \union Leaving
  /\ pc["out"] = "none" <=> pc["in"] = "none"
  /\ pc["main"] \in Leaving => unregistered
  /\ pc["main"] = "listing" => ~unregistered /\ Started /\ place = "pending"
  /\ unregistered => Started /\ place \in {"unlisted", "freed"}
  /\ Started => \A i \in 1 .. Len(reg) : reg[i] = 0
  /\ ~Started => place \in {"new", "pending"} /\ (place = "new" => reg = <<>>)
                 /\ Len(reg) <= 1 /\ (\A i \in 1 .. Len(reg) : reg[i] = 1) /\ ~unregistered
  /\ Started => place # "new"
  /\ Started /\ place # "freed" => ref = Count("out") + Count("in") - MainDone


LEMMA LifeInit == Init => LifeInv
<1> SUFFICES ASSUME Init PROVE LifeInv
  OBVIOUS
<1>1. pc \in [Thread -> Label] /\ pc["main"] = "idle" /\ pc["out"] = "none" /\ pc["in"] = "none"
  BY DEF Init, Label
<1>2. unregistered \in BOOLEAN /\ ~unregistered /\ reg = <<>> /\ ref = 0 /\ place = "new"
  BY DEF Init
<1> QED
  BY <1>1, <1>2 DEF LifeInv, Leaving, Started

LEMMA LifeLeave ==
  ASSUME LifeInv, NEW th \in Thread, Leave(th)
  PROVE  LifeInv'
<1>1. CASE KickTest(th)
  BY <1>1
    DEF KickTest, countVars, registryVars, LifeInv, Leaving, MainDone, Started, Count, Label,
    Goto, At
<1>2. CASE KickLock(th)
  BY <1>2
    DEF KickLock, registryVars, LifeInv, Leaving, MainDone, Started, Count, Label, Goto, At
<1>3. CASE KickCall(th)
  BY <1>3
    DEF KickCall, registryVars, LifeInv, Leaving, MainDone, Started, Count, Label, Goto, At
<1>4. CASE transport_unref(th)
  <2>1. Started /\ place # "freed" /\ pc[th] = "unref"
    BY <1>4 DEF transport_unref, At, LifeInv, Started, Leaving
  <2>2. ref = Count("out") + Count("in") - MainDone /\ ref \in 0 .. 2
    BY <2>1 DEF LifeInv, Count, MainDone, Leaving
  <2>3. /\ pc' = [pc EXCEPT ![th] = IF th = "main" THEN "idle" ELSE "done"] /\ ref' = ref - 1
        /\ UNCHANGED <<place, unregistered>>
        /\ reg' = IF ref = 1 THEN Append(reg, 0) ELSE reg
    BY <1>4 DEF transport_unref, Goto
  <2>4. reg' \in Seq({0, 1}) /\ \A i \in 1 .. Len(reg') : reg'[i] = 0
    BY <2>1, <2>3 DEF LifeInv
  <2>5. ref' = (Count("out") + Count("in") - MainDone)'
    BY <2>1, <2>2, <2>3 DEF LifeInv, Count, MainDone, Leaving
  <2>6. /\ pc' \in [Thread -> Label] /\ Started' /\ pc'["in"] # "none"
        /\ pc'["main"] \in {"idle", "listing"} \union Leaving
        /\ pc'["out"] \in {"none", "start", "pump", "done"} \union Leaving
        /\ pc'["in"] \in {"none", "read", "sweep", "done"} \union Leaving
        /\ pc'["main"] \in Leaving \union {"listing"} => pc'["main"] = pc["main"]
    BY <2>1, <2>3 DEF LifeInv, Started, Label, Leaving
  <2> QED
    BY <2>1, <2>2, <2>3, <2>4, <2>5, <2>6 DEF LifeInv, Started, Leaving
<1> QED
  BY <1>1, <1>2, <1>3, <1>4 DEF Leave

LEMMA LifeMain ==
  ASSUME LifeInv, Main
  PROVE  LifeInv'
<1>1. CASE StartThreads
  BY <1>1 DEF StartThreads, LifeInv, Leaving, MainDone, Started, Count, Label, Goto, At
<1>2. CASE PutOnList
  BY <1>2 DEF PutOnList, countVars, LifeInv, Leaving, MainDone, Started, Count, Label, Goto, At
<1>3. CASE RemoveTransport
  <2>1. Started /\ place # "freed" /\ reg # <<>> /\ pc["main"] = "idle"
    <3>1. reg # <<>> /\ Head(reg) = 0 /\ place # "freed" /\ pc["main"] = "idle"
      BY <1>3 DEF RemoveTransport, At
    <3> QED
      BY <3>1 DEF LifeInv
  <2>2. reg' = Tail(reg) /\ place' = "freed" /\ UNCHANGED <<pc, unregistered, ref>>
    BY <1>3 DEF RemoveTransport, countVars
  <2>3. reg' \in Seq({0, 1}) /\ \A i \in 1 .. Len(reg') : reg'[i] = 0
    BY <2>1, <2>2 DEF LifeInv
  <2> QED
    BY <2>1, <2>2, <2>3 DEF LifeInv, Started, Leaving
<1>4. CASE HandleSync \/ HandleConnect \/ HandleStream
  <2>1. UNCHANGED <<pc, registryVars, ref>>
    BY <1>4 DEF HandleSync, HandleConnect, HandleStream, HandlePacket, countVars
  <2> QED
    BY <2>1 DEF registryVars, LifeInv, Started, Count, MainDone
<1>5. CASE Leave("main")
  BY <1>5, LifeLeave
<1> QED
  BY <1>1, <1>2, <1>3, <1>4, <1>5 DEF Main

LEMMA LifeOutput ==
  ASSUME LifeInv, Output
  PROVE  LifeInv'
<1> USE DEF registryVars, countVars, LifeInv, Leaving, MainDone, Started, Count, Label, Goto, At
<1>1. CASE OutputStart
  BY <1>1 DEF OutputStart
<1>2. CASE OutputRead
  BY <1>2 DEF OutputRead
<1>3. CASE OutputOffline
  BY <1>3 DEF OutputOffline
<1>4. CASE Leave("out")
  BY <1>4, LifeLeave
<1>5. CASE RunsOnFreed("out")
  BY <1>5 DEF RunsOnFreed
<1> QED
  BY <1>1, <1>2, <1>3, <1>4, <1>5 DEF Output

LEMMA LifeInput ==
  ASSUME LifeInv, Input
  PROVE  LifeInv'
<1> USE DEF registryVars, countVars, LifeInv, Leaving, MainDone, Started, Count, Label, Goto, At
<1>1. CASE InputMessage
  BY <1>1 DEF InputMessage, InputEffect
<1>2. CASE InputFails
  BY <1>2 DEF InputFails
<1>3. CASE InputSweep
  BY <1>3 DEF InputSweep
<1>4. CASE Leave("in")
  BY <1>4, LifeLeave
<1>5. CASE RunsOnFreed("in")
  BY <1>5 DEF RunsOnFreed
<1> QED
  BY <1>1, <1>2, <1>3, <1>4, <1>5 DEF Input

LEMMA LifeStep ==
  ASSUME LifeInv, [Next]_vars
  PROVE  LifeInv'
<1>1. CASE register_socket_transport
  BY <1>1 DEF register_socket_transport, countVars, LifeInv, Started, Count, MainDone, Leaving
<1>2. CASE unregister_transport
  BY <1>2
    DEF unregister_transport, countVars, LifeInv, Leaving, MainDone, Started, Count, Label,
    Goto, At
<1>3. CASE send_packet \/ DeviceSends \/ DeviceLeaves \/ DescriptorReused \/ UNCHANGED vars
  <2>1. UNCHANGED <<pc, registryVars, ref>>
    BY <1>3 DEF send_packet, DeviceSends, DeviceLeaves, DescriptorReused, vars, countVars
  <2> QED
    BY <2>1 DEF registryVars, LifeInv, Started, Count, MainDone
<1> QED
  BY <1>1, <1>2, <1>3, LifeMain, LifeOutput, LifeInput DEF Next

\* The rest of TypeOK.
FdTypes ==
  /\ kicked \in BOOLEAN /\ kicks \in Nat
  /\ sfd \in {"open", "closed"} /\ fd \in {"none", "open", "closed", "reused"}
  /\ tsock \in {"none", "open", "closed"} /\ astray \in BOOLEAN

PumpTypes ==
  /\ toMain \in Seq(Message) /\ toInput \in Seq(Message) /\ Len(toMain) <= PipeCap
  /\ active \in BOOLEAN /\ ignored \in BOOLEAN /\ sync_token \in Nat /\ online \in BOOLEAN
  /\ sent \in Nat

DeviceTypes ==
  device \in [up : BOOLEAN, greeted : BOOLEAN] /\ inbox \in Seq(Inbound) /\ received \in Nat

\* What is in the socketpair: SYNC(1) carries the token and is ahead of everything
\* that the input thread could drop; SYNC(0) is the last thing the output thread
\* writes.
Online(m) == m.cmd = "SYNC" /\ m.arg0 = 1
NotStarted == pc["out"] \in {"none", "start"}
Pumping == pc["out"] \in {"none", "start", "pump"}

SyncInv ==
  /\ NotStarted => toMain = <<>> /\ toInput = <<>> /\ ~online /\ ~active
  /\ \A i \in 1 .. Len(toMain) : Online(toMain[i]) => toMain[i].arg1 = sync_token
  /\ \A i \in 1 .. Len(toInput) : Online(toInput[i]) => toInput[i].arg1 = sync_token
  /\ ~active /\ toInput # <<>> => Online(toInput[1])
  /\ ~active /\ toInput = <<>> /\ ~NotStarted /\ place # "freed"
       => ~online /\ toMain # <<>> /\ Online(toMain[1])
  /\ ~ignored

Swept == pc["in"] \notin {"none", "read"}

OfflineInv ==
  /\ \A i \in 1 .. Len(toMain) : Offline(toMain[i]) => i = Len(toMain) /\ ~Pumping
  /\ (Swept \/ \E i \in 1 .. Len(toInput) : Offline(toInput[i]))
       => toMain = <<>> /\ ~online /\ ~Pumping

PumpInv == LifeInv /\ FdTypes /\ PumpTypes /\ DeviceTypes /\ SyncInv

-----------------------------------------------------------------------------
(* Queues of packets.                                                      *)

LEMMA AppendMessage ==
  ASSUME NEW s \in Seq(Message), NEW m \in Message
  PROVE  /\ Append(s, m) \in Seq(Message) /\ Len(Append(s, m)) = Len(s) + 1
         /\ \A i \in 1 .. Len(s) : Append(s, m)[i] = s[i]
         /\ Append(s, m)[Len(s) + 1] = m
OBVIOUS

LEMMA TailMessage ==
  ASSUME NEW s \in Seq(Message), s # <<>>
  PROVE  /\ Tail(s) \in Seq(Message) /\ Len(Tail(s)) = Len(s) - 1 /\ Len(s) >= 1
         /\ Head(s) = s[1] /\ s[1] \in Message
         /\ \A i \in 1 .. Len(Tail(s)) : Tail(s)[i] = s[i + 1]
OBVIOUS

LEMMA Replies ==
  ASSUME NEW s \in Seq(Message), NEW m \in Message, NEW n \in Message
  PROVE  /\ s \o <<>> = s /\ s \o <<m>> = Append(s, m)
         /\ s \o <<m, n>> = Append(Append(s, m), n)
OBVIOUS

LEMMA Messages ==
  /\ \A c \in {"SYNC", "CNXN", "WRTE"} : Msg(c) \in Message /\ Msg(c).cmd = c
  /\ \A n \in Nat : /\ SYNC(1, n) \in Message /\ Online(SYNC(1, n)) /\ ~Offline(SYNC(1, n))
                    /\ SYNC(1, n).arg1 = n
  /\ SYNC(0, 0) \in Message /\ Offline(SYNC(0, 0)) /\ ~Online(SYNC(0, 0))
BY DEF Message, Msg, SYNC, Online, Offline

\* A packet of a stream, or a CNXN, is neither announcement.
LEMMA Plain ==
  ASSUME NEW m \in Message, m.cmd # "SYNC"
  PROVE  ~Online(m) /\ ~Offline(m)
BY DEF Online, Offline

\* What handle_packet does to the two queues.
SyncOnline ==
  /\ Online(Head(toMain)) /\ online' = online
  /\ toInput' = Append(Append(toInput, Head(toMain)), Msg("CNXN"))
SyncOffline ==
  Offline(Head(toMain)) /\ online' = FALSE /\ toInput' = Append(toInput, Head(toMain))
NoSync ==
  Head(toMain).cmd # "SYNC" /\ online' \in BOOLEAN /\ toInput' = toInput

LEMMA HandleSteps ==
  ASSUME PumpTypes, HandleSync \/ HandleConnect \/ HandleStream
  PROVE  /\ toMain # <<>> /\ toMain' = Tail(toMain) /\ (SyncOnline \/ SyncOffline \/ NoSync)
         /\ UNCHANGED <<pc, active, ignored, sync_token, sent, registryVars, countVars, fdVars,
                        deviceVars>>
<1>1. /\ toMain # <<>> /\ toMain' = Tail(toMain)
      /\ UNCHANGED <<pc, active, ignored, sync_token, sent, registryVars, countVars, fdVars, deviceVars>>
  BY DEF HandleSync, HandleConnect, HandleStream, MainReads, HandlePacket
<1>2. CASE HandleConnect \/ HandleStream
  <2>1. toInput' = toInput \o <<>> /\ Head(toMain).cmd # "SYNC"
    BY <1>2 DEF HandleConnect, HandleStream, MainReads, HandlePacket
  <2>2. toInput' = toInput
    BY <2>1 DEF PumpTypes
  <2>3. online' \in BOOLEAN
    BY <1>2 DEF HandleConnect, HandleStream, HandlePacket, PumpTypes
  <2> QED
    BY <1>1, <2>1, <2>2, <2>3 DEF NoSync
<1>3. CASE HandleSync
  <2>1. Head(toMain) \in Message /\ Head(toMain).cmd = "SYNC"
    BY <1>1, <1>3, TailMessage DEF HandleSync, MainReads, PumpTypes
  <2>2. CASE Head(toMain).arg0 = 1
    <3>1. toInput' = toInput \o <<Head(toMain), Msg("CNXN")>> /\ online' = online
      BY <1>3, <2>2 DEF HandleSync, HandlePacket
    <3>2. toInput' = Append(Append(toInput, Head(toMain)), Msg("CNXN"))
      BY <2>1, <3>1, Replies, Messages DEF PumpTypes
    <3> QED
      BY <1>1, <2>1, <2>2, <3>1, <3>2 DEF SyncOnline, Online
  <2>3. CASE Head(toMain).arg0 # 1
    <3>1. toInput' = toInput \o <<Head(toMain)>> /\ online' = FALSE
      BY <1>3, <2>3 DEF HandleSync, HandlePacket
    <3>2. toInput' = Append(toInput, Head(toMain))
      BY <2>1, <3>1, Replies DEF PumpTypes
    <3>3. Head(toMain).arg0 = 0
      BY <2>1, <2>3 DEF Message
    <3> QED
      BY <1>1, <2>1, <3>1, <3>2, <3>3 DEF SyncOffline, Offline
  <2> QED
    BY <2>2, <2>3
<1> QED
  BY <1>2, <1>3

\* What the input thread does with the packet it reads.
LEMMA InputSteps ==
  ASSUME PumpTypes, InputMessage
  PROVE  /\ toInput # <<>> /\ toInput' = Tail(toInput) /\ pc["in"] = "read" /\ place # "freed"
         /\ active' = (active \/ (Online(Head(toInput)) /\ Head(toInput).arg1 = sync_token))
         /\ ignored' = \/ ignored
                       \/ Online(Head(toInput)) /\ Head(toInput).arg1 # sync_token
                       \/ Head(toInput).cmd # "SYNC" /\ ~active
         /\ pc' = [pc EXCEPT !["in"] = IF Offline(Head(toInput)) THEN "sweep" ELSE "read"]
         /\ UNCHANGED <<toMain, sync_token, online, sent, registryVars, countVars, fdVars>>
BY DEF InputMessage, InputEffect, At, Goto, Online

-----------------------------------------------------------------------------
(* The types of what the threads share.                                    *)

LEMMA FdTypesStep ==
  ASSUME FdTypes, [Next]_vars
  PROVE  FdTypes'
<1> USE DEF FdTypes, countVars, fdVars
<1>1. ASSUME NEW th \in Thread, Leave(th)
      PROVE  FdTypes'
  <2>1. CASE KickTest(th)
    BY <2>1 DEF KickTest
  <2>2. CASE KickLock(th)
    BY <2>2 DEF KickLock
  <2>3. CASE KickCall(th)
    BY <2>3 DEF KickCall, remote_kick
  <2>4. CASE transport_unref(th)
    BY <2>4 DEF transport_unref, remote_close
  <2> QED
    BY <1>1, <2>1, <2>2, <2>3, <2>4 DEF Leave
<1>2. CASE StartThreads \/ PutOnList \/ RemoveTransport
  BY <1>2 DEF StartThreads, PutOnList, RemoveTransport
<1>3. CASE HandleSync \/ HandleConnect \/ HandleStream
  BY <1>3 DEF HandleSync, HandleConnect, HandleStream, HandlePacket
<1>4. CASE OutputStart \/ OutputRead \/ OutputOffline \/ RunsOnFreed("out")
  BY <1>4 DEF OutputStart, OutputRead, OutputOffline, RunsOnFreed
<1>5. CASE InputMessage \/ InputFails \/ InputSweep \/ RunsOnFreed("in")
  BY <1>5 DEF InputMessage, InputEffect, InputFails, InputSweep, RunsOnFreed
<1>6. CASE register_socket_transport \/ unregister_transport \/ send_packet
  BY <1>6 DEF register_socket_transport, unregister_transport, send_packet
<1>7. CASE DeviceSends \/ DeviceLeaves \/ DescriptorReused \/ UNCHANGED vars
  BY <1>7 DEF DeviceSends, DeviceLeaves, DescriptorReused, vars
<1> QED
  BY <1>1, <1>2, <1>3, <1>4, <1>5, <1>6, <1>7 DEF Next, Main, Output, Input

LEMMA DeviceTypesStep ==
  ASSUME DeviceTypes, [Next]_vars
  PROVE  DeviceTypes'
<1> USE DEF DeviceTypes, deviceVars
<1>1. ASSUME NEW th \in Thread, Leave(th)
      PROVE  DeviceTypes'
  BY <1>1 DEF Leave, KickTest, KickLock, KickCall, transport_unref
<1>2. CASE StartThreads \/ PutOnList \/ RemoveTransport
  BY <1>2 DEF StartThreads, PutOnList, RemoveTransport
<1>3. CASE HandleSync \/ HandleConnect \/ HandleStream
  BY <1>3 DEF HandleSync, HandleConnect, HandleStream, HandlePacket
<1>4. CASE OutputStart \/ OutputRead \/ OutputOffline \/ RunsOnFreed("out")
  BY <1>4 DEF OutputStart, OutputRead, OutputOffline, RunsOnFreed
<1>5. CASE InputMessage \/ InputFails \/ InputSweep \/ RunsOnFreed("in")
  BY <1>5 DEF InputMessage, InputEffect, InputFails, InputSweep, RunsOnFreed
<1>6. CASE register_socket_transport \/ unregister_transport \/ send_packet
  BY <1>6 DEF register_socket_transport, unregister_transport, send_packet
<1>7. CASE DeviceSends
  BY <1>7 DEF DeviceSends
<1>8. CASE DeviceLeaves
  <2>1. inbox' \in Seq(Inbound)
    BY <1>8 DEF DeviceLeaves
  <2>2. device' \in [up : BOOLEAN, greeted : BOOLEAN] /\ received' \in Nat
    BY <1>8 DEF DeviceLeaves
  <2> QED
    BY <2>1, <2>2
<1>9. CASE DescriptorReused \/ UNCHANGED vars
  BY <1>9 DEF DescriptorReused, vars
<1> QED
  BY <1>1, <1>2, <1>3, <1>4, <1>5, <1>6, <1>7, <1>8, <1>9 DEF Next, Main, Output, Input

LEMMA PumpTypesStep ==
  ASSUME PumpTypes, DeviceTypes, [Next]_vars
  PROVE  PumpTypes'
<1> USE DEF PumpTypes, pumpVars
<1>1. ASSUME NEW th \in Thread, Leave(th)
      PROVE  PumpTypes'
  BY <1>1 DEF Leave, KickTest, KickLock, KickCall, transport_unref
<1>2. CASE StartThreads \/ PutOnList \/ RemoveTransport
  BY <1>2 DEF StartThreads, PutOnList, RemoveTransport
<1>3. CASE HandleSync \/ HandleConnect \/ HandleStream
  <2>1. toMain' \in Seq(Message) /\ Len(toMain') <= PipeCap
    BY SMTT(30), <1>3, HandleSteps, TailMessage, PipeCapAssumption
  <2>2. toInput' \in Seq(Message)
    <3>1. Head(toMain) \in Message /\ (SyncOnline \/ SyncOffline \/ NoSync) /\ Msg("CNXN") \in Message
      BY <1>3, HandleSteps, TailMessage, Messages
    <3>2. Append(toInput, Head(toMain)) \in Seq(Message)
      BY <3>1, AppendMessage
    <3> QED
      BY <3>1, <3>2, AppendMessage DEF SyncOnline, SyncOffline, NoSync
  <2>3. UNCHANGED <<active, ignored, sync_token, sent>> /\ (SyncOnline \/ SyncOffline \/ NoSync)
    BY <1>3, HandleSteps
  <2>4. online' \in BOOLEAN
    BY <2>3 DEF SyncOnline, SyncOffline, NoSync
  <2> QED
    BY <2>1, <2>2, <2>3, <2>4
<1>4. CASE OutputStart \/ OutputRead \/ OutputOffline \/ RunsOnFreed("out")
  <2>1. CASE OutputStart
    BY <2>1, PipeCapAssumption DEF OutputStart, WriteToMain, SYNC, Message
  <2>2. CASE OutputRead
    BY <2>2, PipeCapAssumption DEF OutputRead, WriteToMain, Msg, Message, DeviceTypes, Inbound
  <2>3. CASE OutputOffline
    BY <2>3, PipeCapAssumption DEF OutputOffline, WriteToMain, SYNC, Message
  <2>4. CASE RunsOnFreed("out")
    BY <2>4 DEF RunsOnFreed
  <2> QED
    BY <1>4, <2>1, <2>2, <2>3, <2>4
<1>5. CASE InputMessage
  BY <1>5, InputSteps, TailMessage
<1>6. CASE InputFails \/ InputSweep \/ RunsOnFreed("in")
  BY <1>6 DEF InputFails, InputSweep, RunsOnFreed
<1>7. CASE register_socket_transport \/ unregister_transport
  BY <1>7 DEF register_socket_transport, unregister_transport
<1>8. CASE send_packet
  BY <1>8, AppendMessage, Messages DEF send_packet
<1>9. CASE DeviceSends \/ DeviceLeaves \/ DescriptorReused \/ UNCHANGED vars
  BY <1>9 DEF DeviceSends, DeviceLeaves, DescriptorReused, vars
<1> QED
  BY <1>1, <1>2, <1>3, <1>4, <1>5, <1>6, <1>7, <1>8, <1>9 DEF Next, Main, Output, Input

-----------------------------------------------------------------------------
(* The order of SYNC(1) and of what follows it.                            *)

LEMMA SyncMain ==
  ASSUME PumpInv, HandleSync \/ HandleConnect \/ HandleStream
  PROVE  SyncInv'
<1>1. /\ toMain # <<>> /\ toMain' = Tail(toMain) /\ (SyncOnline \/ SyncOffline \/ NoSync)
      /\ UNCHANGED <<pc, active, ignored, sync_token, place>>
  BY HandleSteps DEF PumpInv, registryVars
<1>2. /\ toMain \in Seq(Message) /\ toInput \in Seq(Message) /\ SyncInv /\ ~NotStarted /\ ~NotStarted'
      /\ place # "freed"
  BY <1>1
    DEF PumpInv, PumpTypes, SyncInv, NotStarted, HandleSync, HandleConnect, HandleStream,
    MainReads, At
<1>3. Head(toMain) = toMain[1] /\ Head(toMain) \in Message /\ Len(toMain) >= 1
  BY <1>1, <1>2, TailMessage
<1>4. \A i \in 1 .. Len(toMain') : Online(toMain'[i]) => toMain'[i].arg1 = sync_token'
  BY <1>1, <1>2, TailMessage DEF SyncInv
<1>5. CASE SyncOnline
  <2>1. Msg("CNXN") \in Message /\ ~Online(Msg("CNXN"))
    BY Messages, Plain
  <2> DEFINE q == Append(toInput, Head(toMain))
  <2>2. q \in Seq(Message) /\ Len(q) = Len(toInput) + 1 /\ q[Len(toInput) + 1] = Head(toMain)
        /\ \A i \in 1 .. Len(toInput) : q[i] = toInput[i]
    BY <1>2, <1>3, AppendMessage
  <2>3. toInput' = Append(q, Msg("CNXN"))
    BY <1>5 DEF SyncOnline
  <2> HIDE DEF q
  <2>4. /\ toInput' \in Seq(Message) /\ Len(toInput') = Len(toInput) + 2
        /\ \A i \in 1 .. Len(toInput) : toInput'[i] = toInput[i]
        /\ toInput'[Len(toInput) + 1] = Head(toMain) /\ toInput'[Len(toInput) + 2] = Msg("CNXN")
    <3>1. toInput \in Seq(Message) /\ Len(toInput) \in Nat
      BY <1>2
    <3> QED
      BY <2>1, <2>2, <2>3, <3>1, AppendMessage
  <2>5. \A i \in 1 .. Len(toInput') : Online(toInput'[i]) => toInput'[i].arg1 = sync_token'
    <3>1. Head(toMain).arg1 = sync_token
      BY <1>2, <1>3, <1>5 DEF SyncInv, SyncOnline
    <3>2. \A i \in 1 .. Len(toInput') : i \in 1 .. Len(toInput) \/ i = Len(toInput) + 1 \/ i = Len(toInput) + 2
      BY <1>2, <2>4
    <3> QED
      BY <1>1, <1>2, <2>1, <2>4, <3>1, <3>2 DEF SyncInv
  <2>6. toInput' # <<>> /\ (~active => Online(toInput'[1]))
    BY <1>2, <1>3, <1>5, <2>4 DEF SyncInv, SyncOnline
  <2> QED
    BY <1>1, <1>2, <1>4, <2>5, <2>6 DEF SyncInv
<1>6. CASE SyncOffline
  <2>1. ~Online(Head(toMain))
    BY <1>3, <1>6 DEF SyncOffline, Offline, Online
  <2>2. /\ toInput' \in Seq(Message) /\ Len(toInput') = Len(toInput) + 1
        /\ \A i \in 1 .. Len(toInput) : toInput'[i] = toInput[i]
        /\ toInput'[Len(toInput) + 1] = Head(toMain)
    BY <1>2, <1>3, <1>6, AppendMessage DEF SyncOffline
  <2>3. \A i \in 1 .. Len(toInput') : Online(toInput'[i]) => toInput'[i].arg1 = sync_token'
    BY <1>1, <1>2, <2>1, <2>2 DEF SyncInv
  <2>4. ~active => toInput # <<>> /\ Online(toInput[1])
    BY <1>2, <1>3, <2>1 DEF SyncInv
  <2>5. toInput' # <<>> /\ (~active => Online(toInput'[1]))
    BY <1>2, <2>2, <2>4
  <2> QED
    BY <1>1, <1>2, <1>4, <2>3, <2>5 DEF SyncInv
<1>7. CASE NoSync
  <2>1. ~Online(Head(toMain)) /\ toInput' = toInput
    BY <1>3, <1>7, Plain DEF NoSync
  <2>2. ~active => toInput # <<>> /\ Online(toInput[1])
    BY <1>2, <1>3, <2>1 DEF SyncInv
  <2> QED
    BY <1>1, <1>2, <1>4, <2>1, <2>2 DEF SyncInv
<1> QED
  BY <1>1, <1>5, <1>6, <1>7

LEMMA SyncOutput ==
  ASSUME PumpInv, OutputStart \/ OutputRead \/ OutputOffline
  PROVE  SyncInv'
<1>1. /\ toMain \in Seq(Message) /\ toInput \in Seq(Message) /\ SyncInv /\ sync_token \in Nat
      /\ UNCHANGED <<toInput, active, ignored, online, place>> /\ place # "freed"
      /\ ~NotStarted'
  BY
    DEF PumpInv, PumpTypes, LifeInv, OutputStart, OutputRead, OutputOffline, At, Goto,
    NotStarted,
         registryVars, Label
<1>2. CASE OutputStart
  <2>1. toMain = <<>> /\ toInput = <<>> /\ ~online /\ ~active /\ sync_token' = sync_token + 1
        /\ toMain' = Append(toMain, SYNC(1, sync_token'))
    BY <1>1, <1>2 DEF OutputStart, At, NotStarted, SyncInv, WriteToMain
  <2>2. SYNC(1, sync_token') \in Message /\ Online(SYNC(1, sync_token'))
        /\ SYNC(1, sync_token').arg1 = sync_token'
    BY <1>1, <2>1, Messages
  <2>3. Len(toMain') = 1 /\ toMain'[1] = SYNC(1, sync_token')
    BY <2>1, <2>2, AppendMessage
  <2> QED
    BY <1>1, <2>1, <2>2, <2>3 DEF SyncInv
<1>3. CASE OutputRead \/ OutputOffline
  <2>1. PICK m \in Message : ~Online(m) /\ toMain' = Append(toMain, m) /\ sync_token' = sync_token
    <3>1. CASE OutputRead
      <4>1. Head(inbox) \in {"CNXN", "WRTE"}
        BY <3>1 DEF OutputRead, PumpInv, DeviceTypes, Inbound
      <4> QED
        BY <3>1, <4>1, Messages, Plain DEF OutputRead, WriteToMain
    <3>2. CASE OutputOffline
      BY <3>2, Messages DEF OutputOffline, WriteToMain
    <3> QED
      BY <1>3, <3>1, <3>2
  <2>2. Len(toMain') = Len(toMain) + 1 /\ toMain'[Len(toMain) + 1] = m
        /\ \A i \in 1 .. Len(toMain) : toMain'[i] = toMain[i]
    BY <1>1, <2>1, AppendMessage
  <2>3. \A i \in 1 .. Len(toMain') : Online(toMain'[i]) => toMain'[i].arg1 = sync_token'
    BY <1>1, <2>1, <2>2 DEF SyncInv
  <2>4. ~NotStarted /\ Pumping
    BY <1>3 DEF OutputRead, OutputOffline, At, NotStarted, Pumping
  <2>5. toMain # <<>> => toMain' # <<>> /\ toMain'[1] = toMain[1]
    BY <1>1, <2>2
  <2> QED
    BY <1>1, <2>1, <2>3, <2>4, <2>5 DEF SyncInv
<1> QED
  BY <1>2, <1>3

LEMMA SyncInput ==
  ASSUME PumpInv, InputMessage
  PROVE  SyncInv'
<1>1. /\ toInput \in Seq(Message) /\ SyncInv /\ active \in BOOLEAN /\ ignored \in BOOLEAN
      /\ UNCHANGED <<toMain, sync_token, online, place, NotStarted, Pumping>>
      /\ toInput # <<>> /\ toInput' = Tail(toInput)
  BY InputSteps DEF PumpInv, PumpTypes, registryVars, NotStarted, Pumping, LifeInv
<1>2. Head(toInput) = toInput[1] /\ Head(toInput) \in Message /\ Len(toInput) >= 1
  BY <1>1, TailMessage
<1>3. Online(Head(toInput)) => Head(toInput).arg1 = sync_token
  BY <1>1, <1>2 DEF SyncInv
<1>4. ~active => Online(Head(toInput))
  BY <1>1, <1>2 DEF SyncInv
<1>5. active'
  BY <1>3, <1>4, InputSteps DEF PumpInv
<1>6. Online(Head(toInput)) => Head(toInput).cmd = "SYNC"
  BY DEF Online
<1>7. ~ignored'
  BY <1>1, <1>3, <1>4, <1>6, InputSteps DEF PumpInv, SyncInv
<1>8. \A i \in 1 .. Len(toInput') : Online(toInput'[i]) => toInput'[i].arg1 = sync_token'
  BY <1>1, TailMessage DEF SyncInv
<1>9. ~NotStarted
  BY <1>1 DEF SyncInv
<1> QED
  BY <1>1, <1>5, <1>7, <1>8, <1>9 DEF SyncInv

\* No other step touches the queues, except a stream's packet.
LEMMA SyncStep ==
  ASSUME PumpInv, [Next]_vars
  PROVE  SyncInv'
<1> USE DEF pumpVars, registryVars
<1>1. ASSUME UNCHANGED <<pumpVars>>, pc'["out"] \in {"none", "start"} => NotStarted,
             NotStarted /\ place' # "freed" => NotStarted', place = "freed" => place' = "freed"
      PROVE  SyncInv'
  BY <1>1 DEF PumpInv, SyncInv, NotStarted
<1>2. ASSUME NEW th \in Thread, Leave(th)
      PROVE  SyncInv'
  BY <1>2, <1>1
    DEF Leave, KickTest, KickLock, KickCall, transport_unref, At, Goto, PumpInv, LifeInv,
    NotStarted, Pumping
<1>3. CASE StartThreads \/ PutOnList \/ RemoveTransport
  BY <1>3, <1>1
    DEF StartThreads, PutOnList, RemoveTransport, At, Goto, PumpInv, LifeInv, NotStarted,
    Pumping, Started
<1>4. CASE RunsOnFreed("out") \/ RunsOnFreed("in") \/ InputFails \/ InputSweep
  BY <1>4, <1>1 DEF RunsOnFreed, InputFails, InputSweep, At, Goto, PumpInv, LifeInv, NotStarted, Pumping
<1>5. CASE register_socket_transport \/ unregister_transport
  BY <1>5, <1>1
    DEF register_socket_transport, unregister_transport, At, Goto, PumpInv, LifeInv, NotStarted, Pumping
<1>6. CASE send_packet
  <2>1. /\ toInput \in Seq(Message) /\ SyncInv /\ online
        /\ toInput' = Append(toInput, Msg("WRTE"))
        /\ UNCHANGED <<pc, toMain, active, ignored, sync_token, online, place>> /\ place # "freed"
    BY <1>6 DEF send_packet, PumpInv, PumpTypes, At
  <2>2. Msg("WRTE") \in Message /\ ~Online(Msg("WRTE"))
    BY Messages, Plain
  <2>3. Len(toInput') = Len(toInput) + 1 /\ toInput'[Len(toInput) + 1] = Msg("WRTE")
        /\ \A i \in 1 .. Len(toInput) : toInput'[i] = toInput[i]
    BY <2>1, <2>2, AppendMessage
  <2>4. ~active => toInput # <<>> /\ Online(toInput[1])
    BY <2>1 DEF SyncInv
  <2>5. toInput' # <<>> /\ (~active => Online(toInput'[1]))
    BY <2>1, <2>3, <2>4
  <2>6. \A i \in 1 .. Len(toInput') : Online(toInput'[i]) => toInput'[i].arg1 = sync_token'
    BY <2>1, <2>2, <2>3 DEF SyncInv
  <2> QED
    BY <2>1, <2>5, <2>6 DEF SyncInv, NotStarted
<1>7. CASE DeviceSends \/ DeviceLeaves \/ DescriptorReused \/ UNCHANGED vars
  BY <1>7, <1>1 DEF DeviceSends, DeviceLeaves, DescriptorReused, vars, NotStarted, Pumping
<1> QED
  BY <1>2, <1>3, <1>4, <1>5, <1>6, <1>7, SyncMain, SyncOutput, SyncInput
    DEF Next, Main, Output, Input

-----------------------------------------------------------------------------
(* SYNC(0) is the last word.                                               *)

\* Until "disconnect" t->fd stays open under the input thread, and SYNC(0) is what
\* sends it to close_all_sockets.
LEMMA OfflineMain ==
  ASSUME PumpInv, OfflineInv, HandleSync \/ HandleConnect \/ HandleStream
  PROVE  OfflineInv'
<1>1. /\ toMain # <<>> /\ toMain' = Tail(toMain) /\ (SyncOnline \/ SyncOffline \/ NoSync)
      /\ pc' = pc
  BY HandleSteps DEF PumpInv
<1>2. toMain \in Seq(Message) /\ toInput \in Seq(Message)
  BY DEF PumpInv, PumpTypes
<1>3. Head(toMain) = toMain[1] /\ Head(toMain) \in Message /\ Len(toMain) >= 1
  BY <1>1, <1>2, TailMessage
<1>4. ~Swept /\ \A i \in 1 .. Len(toInput) : ~Offline(toInput[i])
  BY <1>1 DEF OfflineInv
<1>5. \A i \in 1 .. Len(toMain') : Offline(toMain'[i]) => i = Len(toMain') /\ ~Pumping'
  BY <1>1, <1>2, TailMessage DEF OfflineInv, Pumping
<1>6. CASE SyncOnline
  <2>1. Msg("CNXN") \in Message /\ ~Offline(Msg("CNXN")) /\ ~Offline(Head(toMain))
    BY <1>3, <1>6, Messages, Plain DEF SyncOnline, Online, Offline
  <2> DEFINE q == Append(toInput, Head(toMain))
  <2>2. q \in Seq(Message) /\ \A i \in 1 .. Len(q) : ~Offline(q[i])
    <3>1. \A i \in 1 .. Len(q) : i \in 1 .. Len(toInput) \/ i = Len(toInput) + 1
      BY <1>2, <1>3, AppendMessage
    <3> QED
      BY <1>2, <1>3, <1>4, <2>1, <3>1, AppendMessage
  <2>3. toInput' = Append(q, Msg("CNXN"))
    BY <1>6 DEF SyncOnline
  <2> HIDE DEF q
  <2>4. \A i \in 1 .. Len(toInput') : ~Offline(toInput'[i])
    <3>1. \A i \in 1 .. Len(toInput') : i \in 1 .. Len(q) \/ i = Len(q) + 1
      BY <2>1, <2>2, <2>3, AppendMessage
    <3> QED
      BY <2>1, <2>2, <2>3, <3>1, AppendMessage
  <2> QED
    BY <1>1, <1>4, <1>5, <2>4 DEF OfflineInv, Swept
<1>7. CASE SyncOffline
  <2>1. Len(toMain) = 1 /\ ~Pumping /\ toMain' = <<>>
    <3>1. Len(toMain) = 1 /\ ~Pumping
      <4>1. Offline(toMain[1]) /\ 1 \in 1 .. Len(toMain)
        BY <1>2, <1>3, <1>7 DEF SyncOffline
      <4> QED
        BY <4>1 DEF OfflineInv
    <3>2. toMain' \in Seq(Message) /\ Len(toMain') = 0
      BY <1>1, <1>2, <3>1, TailMessage
    <3> QED
      BY <3>1, <3>2
  <2> QED
    BY <1>1, <1>5, <1>7, <2>1 DEF OfflineInv, SyncOffline, Pumping
<1>8. CASE NoSync
  BY <1>1, <1>4, <1>5, <1>8 DEF OfflineInv, NoSync, Swept
<1> QED
  BY <1>1, <1>6, <1>7, <1>8

LEMMA OfflineOutput ==
  ASSUME PumpInv, OfflineInv, OutputStart \/ OutputRead \/ OutputOffline
  PROVE  OfflineInv'
<1>1. /\ toMain \in Seq(Message) /\ sync_token \in Nat /\ pc \in [Thread -> Label] /\ Pumping
      /\ UNCHANGED <<toInput, online>>
  BY DEF PumpInv, PumpTypes, LifeInv, OutputStart, OutputRead, OutputOffline, At, Pumping
<1>2. /\ ~Swept /\ \A i \in 1 .. Len(toInput) : ~Offline(toInput[i])
      /\ \A i \in 1 .. Len(toMain) : ~Offline(toMain[i])
  BY <1>1 DEF OfflineInv
<1>3. Swept' = Swept
  BY <1>1 DEF OutputStart, OutputRead, OutputOffline, Goto, Swept
<1>4. PICK m \in Message : /\ toMain' = Append(toMain, m)
                           /\ Offline(m) => ~Pumping'
  <2>1. CASE OutputStart
    <3>1. sync_token' \in Nat
      BY <1>1, <2>1 DEF OutputStart
    <3> QED
      BY <2>1, <3>1, Messages DEF OutputStart, WriteToMain
  <2>2. CASE OutputRead
    <3>1. Head(inbox) \in {"CNXN", "WRTE"}
      BY <2>2 DEF OutputRead, PumpInv, DeviceTypes, Inbound
    <3> QED
      BY <2>2, <3>1, Messages, Plain DEF OutputRead, WriteToMain
  <2>3. CASE OutputOffline
    BY <1>1, <2>3, Messages DEF OutputOffline, WriteToMain, Goto, Pumping
  <2> QED
    BY <2>1, <2>2, <2>3
<1>5. \A i \in 1 .. Len(toMain') : i \in 1 .. Len(toMain) \/ i = Len(toMain')
  BY <1>1, <1>4, AppendMessage
<1>6. \A i \in 1 .. Len(toMain') : Offline(toMain'[i]) => i = Len(toMain') /\ ~Pumping'
  BY <1>1, <1>2, <1>4, <1>5, AppendMessage
<1> QED
  BY <1>1, <1>2, <1>3, <1>6 DEF OfflineInv

LEMMA OfflineInput ==
  ASSUME PumpInv, OfflineInv, InputMessage
  PROVE  OfflineInv'
<1>1. /\ toInput \in Seq(Message) /\ UNCHANGED <<toMain, online>> /\ pc \in [Thread -> Label]
      /\ toInput # <<>> /\ toInput' = Tail(toInput)
      /\ pc' = [pc EXCEPT !["in"] = IF Offline(Head(toInput)) THEN "sweep" ELSE "read"]
  BY InputSteps DEF PumpInv, PumpTypes, LifeInv
<1>2. Head(toInput) = toInput[1] /\ Len(toInput) >= 1
  BY <1>1, TailMessage
<1>3. Pumping' = Pumping /\ (Swept' => Offline(toInput[1]))
  BY <1>1, <1>2 DEF Pumping, Swept
<1>4. (\E i \in 1 .. Len(toInput') : Offline(toInput'[i])) => \E i \in 1 .. Len(toInput) : Offline(toInput[i])
  BY <1>1, TailMessage
<1> QED
  BY <1>1, <1>2, <1>3, <1>4 DEF OfflineInv

LEMMA OfflineStep ==
  ASSUME PumpInv, RefInv, OfflineInv, [Next]_vars
  PROVE  unregistered' \/ OfflineInv'
<1> USE DEF pumpVars
<1>1. ASSUME UNCHANGED <<pumpVars>>, Pumping => Pumping', Pumping' => Pumping, Swept' => Swept
      PROVE  OfflineInv'
  BY <1>1 DEF OfflineInv
<1>2. pc \in [Thread -> Label]
  BY DEF RefInv
<1>3. ASSUME NEW th \in Thread, Leave(th)
      PROVE  OfflineInv'
  BY <1>1, <1>2, <1>3
    DEF Leave, KickTest, KickLock, KickCall, transport_unref, At, Goto, Pumping, Swept
<1>4. CASE StartThreads
  <2>1. pc["out"] = "none" /\ pc["in"] = "none"
    <3>1. reg # <<>> /\ Head(reg) = 1
      BY <1>4 DEF StartThreads
    <3> QED
      BY <3>1 DEF PumpInv, LifeInv, Started
  <2> QED
    BY <1>1, <1>4, <2>1 DEF StartThreads, Pumping, Swept
<1>5. CASE PutOnList \/ RemoveTransport
  BY <1>1, <1>2, <1>5 DEF PutOnList, RemoveTransport, Goto, Pumping, Swept
<1>6. CASE RunsOnFreed("out") \/ RunsOnFreed("in")
  BY <1>6 DEF RunsOnFreed, RefInv, Started
<1>7. CASE InputFails
  BY <1>7 DEF InputFails, At, RefInv, Started, Count
<1>8. CASE InputSweep
  BY <1>1, <1>2, <1>8 DEF InputSweep, At, Goto, Pumping, Swept
<1>9. CASE register_socket_transport \/ DeviceSends \/ DeviceLeaves \/ DescriptorReused \/ UNCHANGED vars
  BY <1>1, <1>9
    DEF register_socket_transport, DeviceSends, DeviceLeaves, DescriptorReused, vars, Pumping,
    Swept
<1>10. CASE unregister_transport
  BY <1>10 DEF unregister_transport
<1>11. CASE send_packet
  <2>1. online /\ toInput' = Append(toInput, Msg("WRTE")) /\ toInput \in Seq(Message)
        /\ UNCHANGED <<pc, toMain, online>>
    BY <1>11 DEF send_packet, PumpInv, PumpTypes
  <2>2. ~Swept /\ \A i \in 1 .. Len(toInput) : ~Offline(toInput[i])
    BY <2>1 DEF OfflineInv
  <2>3. Msg("WRTE") \in Message /\ ~Offline(Msg("WRTE"))
    BY Messages, Plain
  <2>4. \A i \in 1 .. Len(toInput') : ~Offline(toInput'[i])
    <3>1. \A i \in 1 .. Len(toInput') : i \in 1 .. Len(toInput) \/ i = Len(toInput) + 1
      BY <2>1, <2>3, AppendMessage
    <3> QED
      BY <2>1, <2>2, <2>3, <3>1, AppendMessage
  <2> QED
    BY <2>1, <2>2, <2>4 DEF OfflineInv, Swept, Pumping
<1> QED
  BY <1>3, <1>4, <1>5, <1>6, <1>7, <1>8, <1>9, <1>10, <1>11, OfflineMain, OfflineOutput,
    OfflineInput
     DEF Next, Main, Output, Input

-----------------------------------------------------------------------------
(* t->fd is open as long as the output thread writes.                      *)

\* The input thread leaves its loop when SYNC(0) comes round, which the output thread
\* sent last, or when t->fd is closed, which takes the release of one of the threads:
\* the output thread was the first to stop either way.
PipeInv ==
  /\ Pumping => /\ ~Swept /\ place # "freed"
                /\ \A i \in 1 .. Len(toMain) : ~Offline(toMain[i])
                /\ \A i \in 1 .. Len(toInput) : ~Offline(toInput[i])
  /\ Started /\ place # "freed" => (ref > 0 => fd = "open") /\ (reg # <<>> => ref <= 0)

\* While both threads are in their loops there is a reference, whatever the main loop
\* has given back.
LEMMA PumpingIsCounted ==
  ASSUME LifeInv, Started, place # "freed", pc["out"] \in {"start", "pump"}, ~Swept
  PROVE  ref > 0
BY DEF LifeInv, Started, Swept, Count, MainDone, Leaving

LEMMA PipeLeave ==
  ASSUME LifeInv, PipeInv, NEW th \in Thread, Leave(th)
  PROVE  PipeInv'
<1>1. /\ pc \in [Thread -> Label] /\ UNCHANGED <<toMain, toInput, place>>
      /\ Started /\ place # "freed"
  BY DEF LifeInv, Leave, KickTest, KickLock, KickCall, transport_unref, At, Started, Leaving,
         registryVars, pumpVars
<1>2. Pumping' => Pumping /\ ~Swept'
  <2>1. \E l \in Label : pc' = [pc EXCEPT ![th] = l] /\ l \notin {"none", "start", "pump", "read"}
    BY DEF Leave, KickTest, KickLock, KickCall, transport_unref, Goto, Label
  <2>2. pc[th] \in Leaving
    BY DEF Leave, KickTest, KickLock, KickCall, transport_unref, At, Leaving
  <2> QED
    BY <1>1, <2>1, <2>2 DEF Pumping, Swept, PipeInv, Leaving
<1>3. (ref' > 0 => fd' = "open") /\ (reg' # <<>> => ref' <= 0)
  <2>1. CASE UNCHANGED <<ref, fd, reg>>
    BY <1>1, <2>1 DEF PipeInv
  <2>2. CASE transport_unref(th)
    BY <1>1, <2>2 DEF PipeInv, LifeInv, transport_unref, remote_close
  <2> QED
    BY <2>1, <2>2 DEF Leave, KickTest, KickLock, KickCall, countVars, fdVars, registryVars
<1> QED
  BY <1>1, <1>2, <1>3 DEF PipeInv

LEMMA PipeMain ==
  ASSUME PumpInv, PipeInv, HandleSync \/ HandleConnect \/ HandleStream
  PROVE  PipeInv'
<1>1. /\ toMain # <<>> /\ toMain' = Tail(toMain) /\ (SyncOnline \/ SyncOffline \/ NoSync)
  BY HandleSteps DEF PumpInv
<1>2. UNCHANGED <<pc, place, reg, ref, fd>>
  BY DEF HandleSync, HandleConnect, HandleStream, HandlePacket, registryVars, countVars, fdVars
<1>3. toMain \in Seq(Message) /\ toInput \in Seq(Message)
  BY DEF PumpInv, PumpTypes
<1>4. ASSUME Pumping
      PROVE  /\ \A i \in 1 .. Len(toMain') : ~Offline(toMain'[i])
             /\ \A i \in 1 .. Len(toInput') : ~Offline(toInput'[i])
  <2>1. Head(toMain) \in Message /\ ~Offline(Head(toMain))
    <3>1. Head(toMain) = toMain[1] /\ Head(toMain) \in Message /\ 1 \in 1 .. Len(toMain)
      BY <1>1, <1>3, TailMessage
    <3> QED
      BY <1>4, <3>1 DEF PipeInv
  <2>2. \A i \in 1 .. Len(toMain') : ~Offline(toMain'[i])
    BY <1>1, <1>3, <1>4, TailMessage DEF PipeInv
  <2>3. Msg("CNXN") \in Message /\ ~Offline(Msg("CNXN"))
    BY Messages, Plain
  <2>4. ASSUME NEW q \in Seq(Message), NEW m \in Message, ~Offline(m),
               \A i \in 1 .. Len(q) : ~Offline(q[i])
        PROVE  Append(q, m) \in Seq(Message) /\ \A i \in 1 .. Len(Append(q, m)) : ~Offline(Append(q, m)[i])
    <3>1. \A i \in 1 .. Len(Append(q, m)) : i \in 1 .. Len(q) \/ i = Len(q) + 1
      BY AppendMessage
    <3> QED
      BY <2>4, <3>1, AppendMessage
  <2>5. \A i \in 1 .. Len(toInput) : ~Offline(toInput[i])
    BY <1>4 DEF PipeInv
  <2>6. CASE SyncOnline
    <3> DEFINE q == Append(toInput, Head(toMain))
    <3>1. q \in Seq(Message) /\ \A i \in 1 .. Len(q) : ~Offline(q[i])
      BY <1>3, <2>1, <2>4, <2>5
    <3>2. toInput' = Append(q, Msg("CNXN"))
      BY <2>6 DEF SyncOnline
    <3> HIDE DEF q
    <3> QED
      BY <2>2, <2>3, <2>4, <3>1, <3>2
  <2>7. CASE SyncOffline
    BY <2>1, <2>7 DEF SyncOffline
  <2>8. CASE NoSync
    BY <2>2, <2>5, <2>8 DEF NoSync
  <2> QED
    BY <1>1, <2>6, <2>7, <2>8
<1> QED
  BY <1>2, <1>4 DEF PipeInv, Pumping, Swept, Started

LEMMA PipeOutput ==
  ASSUME PumpInv, PipeInv, OutputStart \/ OutputRead \/ OutputOffline
  PROVE  PipeInv'
<1>1. /\ toMain \in Seq(Message) /\ pc \in [Thread -> Label] /\ sync_token \in Nat
      /\ UNCHANGED <<toInput, place, reg, ref, fd>> /\ Pumping /\ Started /\ Started'
  BY DEF PumpInv, PumpTypes, LifeInv, OutputStart, OutputRead, OutputOffline, At, Goto, Pumping,
         Started, registryVars, countVars, fdVars
<1>2. Swept' = Swept
  BY <1>1 DEF OutputStart, OutputRead, OutputOffline, Goto, Swept
<1>3. CASE OutputOffline
  <2>1. ~Pumping'
    BY <1>1, <1>3 DEF OutputOffline, Goto, Pumping
  <2> QED
    BY <1>1, <2>1 DEF PipeInv
<1>4. CASE OutputStart \/ OutputRead
  <2>1. PICK m \in Message : toMain' = Append(toMain, m) /\ ~Offline(m)
    <3>1. CASE OutputStart
      <4>1. sync_token' \in Nat
        BY <1>1, <3>1 DEF OutputStart
      <4> QED
        BY <3>1, <4>1, Messages DEF OutputStart, WriteToMain, Online, Offline
    <3>2. CASE OutputRead
      <4>1. Head(inbox) \in {"CNXN", "WRTE"}
        BY <3>2 DEF OutputRead, PumpInv, DeviceTypes, Inbound
      <4> QED
        BY <3>2, <4>1, Messages, Plain DEF OutputRead, WriteToMain
    <3> QED
      BY <1>4, <3>1, <3>2
  <2>2. \A i \in 1 .. Len(toMain') : i \in 1 .. Len(toMain) \/ i = Len(toMain) + 1
    BY <1>1, <2>1, AppendMessage
  <2>3. \A i \in 1 .. Len(toMain') : ~Offline(toMain'[i])
    BY <1>1, <2>1, <2>2, AppendMessage DEF PipeInv
  <2> QED
    BY <1>1, <1>2, <2>3 DEF PipeInv
<1> QED
  BY <1>3, <1>4

LEMMA PipeInput ==
  ASSUME PumpInv, PipeInv, InputMessage \/ InputFails \/ InputSweep
  PROVE  PipeInv'
<1>1. /\ toInput \in Seq(Message) /\ UNCHANGED <<toMain, place, reg, ref, fd>>
      /\ pc \in [Thread -> Label] /\ LifeInv /\ Started /\ place # "freed"
      /\ \E l \in {"read", "sweep", "kick"} : pc' = [pc EXCEPT !["in"] = l]
  BY DEF PumpInv, PumpTypes, LifeInv, InputMessage, InputEffect, InputFails, InputSweep, At, Goto,
         Started, registryVars, countVars, fdVars, pumpVars
<1>2. Pumping' = Pumping /\ Started'
  BY <1>1 DEF Pumping, Started
<1>3. CASE InputMessage
  <2>1. /\ toInput # <<>> /\ toInput' = Tail(toInput)
        /\ pc' = [pc EXCEPT !["in"] = IF Offline(Head(toInput)) THEN "sweep" ELSE "read"]
    BY <1>3, InputSteps DEF PumpInv
  <2>2. Head(toInput) = toInput[1] /\ 1 \in 1 .. Len(toInput)
    BY <1>1, <2>1, TailMessage
  <2>3. Pumping => ~Swept'
    BY <1>1, <2>1, <2>2 DEF PipeInv, Swept
  <2>4. Pumping => \A i \in 1 .. Len(toInput') : ~Offline(toInput'[i])
    BY <1>1, <2>1, TailMessage DEF PipeInv
  <2> QED
    BY <1>1, <1>2, <2>3, <2>4 DEF PipeInv
<1>4. CASE InputFails
  <2>1. ~Swept /\ fd # "open" /\ toInput' = toInput
    BY <1>4 DEF InputFails, At, Swept, pumpVars
  <2>2. ~(ref > 0)
    BY <1>1, <2>1 DEF PipeInv
  <2>3. ~Pumping
    BY <1>1, <2>1, <2>2, PumpingIsCounted DEF Pumping, Started
  <2> QED
    BY <1>1, <1>2, <2>1, <2>3 DEF PipeInv
<1>5. CASE InputSweep
  <2>1. Swept /\ toInput' = toInput
    BY <1>5 DEF InputSweep, At, Swept, pumpVars
  <2> QED
    BY <1>1, <1>2, <2>1 DEF PipeInv
<1> QED
  BY <1>3, <1>4, <1>5

LEMMA PipeStep ==
  ASSUME PumpInv, PipeInv, [Next]_vars
  PROVE  PipeInv'
<1> USE DEF registryVars, countVars, fdVars, pumpVars
<1>1. LifeInv /\ pc \in [Thread -> Label] /\ reg \in Seq({0, 1})
  BY DEF PumpInv, LifeInv
<1>2. CASE register_socket_transport
  <2>1. ~Started /\ ~Started' /\ place' # "freed" /\ UNCHANGED <<pc, toMain, toInput>>
    BY <1>1, <1>2 DEF register_socket_transport, LifeInv, Started
  <2> QED
    BY <2>1 DEF PipeInv, Pumping, Swept
<1>3. CASE StartThreads
  <2>1. pc["out"] = "none" /\ Len(reg) = 1
    <3>1. reg # <<>> /\ Head(reg) = 1
      BY <1>3 DEF StartThreads
    <3>2. reg[1] = 1 /\ Len(reg) >= 1
      BY <1>1, <3>1
    <3>3. ~Started
      BY <1>1, <3>2 DEF LifeInv
    <3>4. Len(reg) <= 1 /\ Len(reg) \in Nat
      BY <1>1, <3>3 DEF LifeInv
    <3>5. \A n \in Nat : n >= 1 /\ n <= 1 => n = 1
      OBVIOUS
    <3>6. Len(reg) = 1
      BY <3>2, <3>4, <3>5, Zenon
    <3> QED
      BY <3>3, <3>6 DEF Started
  <2>2. reg' = <<>>
    BY <1>1, <1>3, <2>1 DEF StartThreads
  <2>3. /\ pc' = [main |-> "listing", out |-> "start", in |-> "read"] /\ fd' = "open"
        /\ UNCHANGED <<place, toMain, toInput>>
    BY <1>3 DEF StartThreads
  <2> QED
    BY <2>1, <2>2, <2>3 DEF PipeInv, Pumping, Swept
<1>4. CASE PutOnList \/ unregister_transport
  <2>1. /\ UNCHANGED <<reg, ref, fd, toMain, toInput>> /\ place # "freed" /\ place' # "freed"
        /\ \E l \in Label : pc' = [pc EXCEPT !["main"] = l]
    BY <1>4 DEF PutOnList, unregister_transport, At, Goto, Label
  <2>2. pc'["out"] = pc["out"] /\ pc'["in"] = pc["in"]
    BY <1>1, <2>1
  <2> QED
    BY <2>1, <2>2 DEF PipeInv, Pumping, Swept, Started
<1>5. CASE RemoveTransport
  <2>1. /\ reg # <<>> /\ Head(reg) = 0 /\ place # "freed" /\ place' = "freed"
        /\ UNCHANGED <<pc, toMain, toInput>>
    BY <1>5 DEF RemoveTransport, At
  <2>2. Started
    BY <1>1, <2>1 DEF LifeInv
  <2>3. ~(ref > 0)
    BY <1>1, <2>1, <2>2 DEF PipeInv, LifeInv
  <2>4. ~Pumping
    BY <1>1, <2>1, <2>2, <2>3, PumpingIsCounted DEF Pumping, PipeInv, Started
  <2> QED
    BY <2>1, <2>4 DEF PipeInv, Pumping
<1>6. CASE RunsOnFreed("out") \/ RunsOnFreed("in")
  <2>1. place = "freed" /\ ~Pumping /\ place' = place
    BY <1>6 DEF RunsOnFreed, PipeInv
  <2>2. ~Pumping'
    BY <1>1, <1>6, <2>1 DEF RunsOnFreed, Goto, Pumping
  <2> QED
    BY <2>1, <2>2 DEF PipeInv
<1>7. CASE send_packet
  <2>1. /\ toInput \in Seq(Message) /\ toInput' = Append(toInput, Msg("WRTE"))
        /\ UNCHANGED <<pc, toMain, place, reg, ref, fd>>
    BY <1>7 DEF send_packet, PumpInv, PumpTypes
  <2>2. Msg("WRTE") \in Message /\ ~Offline(Msg("WRTE"))
    BY Messages, Plain
  <2>3. \A i \in 1 .. Len(toInput') : i \in 1 .. Len(toInput) \/ i = Len(toInput) + 1
    BY <2>1, <2>2, AppendMessage
  <2>4. Pumping => \A i \in 1 .. Len(toInput') : ~Offline(toInput'[i])
    BY <2>1, <2>2, <2>3, AppendMessage DEF PipeInv
  <2> QED
    BY <2>1, <2>4 DEF PipeInv, Pumping, Swept, Started
<1>8. CASE DeviceSends \/ DeviceLeaves \/ UNCHANGED vars
  <2>1. UNCHANGED <<pc, toMain, toInput, place, reg, ref, fd>>
    BY <1>8 DEF DeviceSends, DeviceLeaves, vars
  <2> QED
    BY <2>1 DEF PipeInv, Pumping, Swept, Started
<1>9. CASE DescriptorReused
  <2>1. fd = "closed" /\ UNCHANGED <<pc, toMain, toInput, place, reg, ref>>
    BY <1>9 DEF DescriptorReused
  <2> QED
    BY <2>1 DEF PipeInv, Pumping, Swept, Started
<1> QED
  BY <1>1, <1>2, <1>3, <1>4, <1>5, <1>6, <1>7, <1>8, <1>9, PipeLeave, PipeMain, PipeOutput, PipeInput
    DEF Next, Main, Output, Input

-----------------------------------------------------------------------------
(* The theorems.                                                           *)

LEMMA PumpInit == Init => PumpInv /\ OfflineInv
<1> SUFFICES ASSUME Init PROVE PumpInv /\ OfflineInv
  OBVIOUS
<1>1. LifeInv
  BY LifeInit
<1>2. FdTypes
  BY DEF Init, FdTypes
<1>3. PumpTypes
  <2>1. toMain \in Seq(Message) /\ toInput \in Seq(Message) /\ Len(toMain) <= PipeCap
    BY PipeCapAssumption DEF Init
  <2>2. /\ active \in BOOLEAN /\ ignored \in BOOLEAN /\ online \in BOOLEAN
        /\ sync_token \in Nat /\ sent \in Nat
    BY DEF Init
  <2> QED
    BY <2>1, <2>2 DEF PumpTypes
<1>4. DeviceTypes
  BY DEF Init, DeviceTypes
<1>5. pc["out"] = "none" /\ pc["in"] = "none" /\ toMain = <<>> /\ toInput = <<>>
      /\ ~online /\ ~active /\ ~ignored
  BY DEF Init
<1>6. SyncInv /\ OfflineInv
  BY <1>5 DEF SyncInv, OfflineInv, NotStarted, Pumping, Swept
<1> QED
  BY <1>1, <1>2, <1>3, <1>4, <1>6 DEF PumpInv

LEMMA PumpStep ==
  ASSUME PumpInv, [Next]_vars
  PROVE  PumpInv'
BY LifeStep, FdTypesStep, PumpTypesStep, DeviceTypesStep, SyncStep DEF PumpInv

\* For every size of the socketpair: SYNC(1) reaches the input thread ahead of
\* every packet and with the current token, so that neither "ignoring" branch of
\* input_thread (transport.c) is taken; "disconnect" or not.
THEOREM InputIgnoresNothing == Spec => []NothingIgnored
<1>1. PumpInv => NothingIgnored
  BY DEF PumpInv, SyncInv, NothingIgnored
<1> QED
  BY <1>1, PumpInit, PumpStep, PTL DEF Spec

\* For every size of the socketpair: until "disconnect", when the input thread runs
\* close_all_sockets the main loop has taken the transport offline and has nothing
\* more to read from it; and every variable keeps its type, the reference count too.
THEOREM SweepFollowsOffline == Spec => []SweepAfterOffline
<1>1. PumpInv /\ (unregistered \/ (RefInv /\ OfflineInv)) => SweepAfterOffline
  <2> SUFFICES ASSUME PumpInv, unregistered \/ (RefInv /\ OfflineInv) PROVE SweepAfterOffline
    OBVIOUS
  <2>1. TypeOK
    BY DEF PumpInv, LifeInv, FdTypes, PumpTypes, DeviceTypes, TypeOK
  <2> QED
    BY <2>1 DEF SweepAfterOffline, OfflineInv, Swept
<1>2. PumpInv /\ (unregistered \/ (RefInv /\ OfflineInv)) /\ [Next]_vars
        => (PumpInv /\ (unregistered \/ (RefInv /\ OfflineInv)))'
  BY PumpStep, OfflineStep, RefStep, UnregisteredStays
<1> QED
  BY <1>1, <1>2, PumpInit, RefInit, PTL DEF Spec

\* Until "adb disconnect", the transport and its half of the socketpair are there until
\* both threads have left, in whatever order the threads and the main loop get there;
\* and "disconnect" or not, the output thread writes into t->fd only while it is open:
\* the release too many (transport.c:1072) closes t->fd early, but not before the
\* output thread has stopped.
THEOREM ThreadsOutlived == Spec => []FreedLast
<1>1. Init => PipeInv
  BY DEF Init, PipeInv, Pumping, Swept, Started
<1>2. RefInv => BothLeft
  BY DEF RefInv, BothLeft, Started, Count
<1>3. PumpInv /\ PipeInv => OutputHasPipe
  <2> SUFFICES ASSUME PumpInv, PipeInv, pc["out"] \in {"start", "pump"} PROVE fd = "open"
    BY DEF OutputHasPipe
  <2>1. LifeInv /\ Started /\ Pumping
    BY DEF PumpInv, Started, Pumping
  <2>2. ~Swept /\ place # "freed"
    BY <2>1 DEF PipeInv
  <2> QED
    BY <2>1, <2>2, PumpingIsCounted DEF PipeInv
<1>4. (unregistered \/ RefInv) /\ PumpInv /\ PipeInv => FreedLast
  BY <1>2, <1>3 DEF FreedLast
<1>5. (unregistered \/ RefInv) /\ [Next]_vars => (unregistered \/ RefInv)'
  BY RefStep, UnregisteredStays
<1> QED
  BY <1>1, <1>4, <1>5, RefInit, PumpInit, PumpStep, PipeStep, PTL DEF Spec
=============================================================================
