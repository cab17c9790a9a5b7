--------------------------- MODULE AdbStreamsProofs ---------------------------
(***************************************************************************)
(* Proofs about AdbStreams, for every number of sockets, bytes, payload    *)
(* size and buffer size, and every interleaving of the two main loops:     *)
(* type correctness and the FAIL of a smart socket, then flow control,     *)
(* pairing, order of the bytes, and the absence of null peers; and, for    *)
(* one stream, that it implements StreamPipe.                              *)
(*                                                                         *)
(* The invariant of the streams is stated about one side and the other: A  *)
(* and B are the socket tables of the two sides, a and b the packets on    *)
(* their way to the one and to the other, na and nb the next ids, up       *)
(* whether the link is.                                                    *)
(***************************************************************************)
EXTENDS StreamsImplementPipe, SequenceTheorems, FiniteSetTheorems, TLAPS

-----------------------------------------------------------------------------
(* What the operators on one socket do to its fields.                      *)

\* The type of a socket, with the bound that keeps a read's length natural.
SocketOK(so) == so \in Socket /\ so.got <= so.src

LEMMA SideFacts ==
  ASSUME NEW s \in Side
  PROVE  Other(s) \in Side /\ Other(s) # s /\ Other(Other(s)) = s
BY DEF Side, Other

LEMMA PacketTypes ==
  ASSUME NEW i \in 0 .. MaxId, NEW j \in 0 .. MaxId, NEW off \in Nat, NEW len \in Nat
  PROVE  /\ OPEN(i) \in Packet /\ OKAY(i, j) \in Packet /\ CLSE(i, j) \in Packet
         /\ WRTE(i, j, off, len) \in Packet
BY MaxIdAssumption DEF OPEN, OKAY, CLSE, WRTE, Pkt, Packet

LEMMA NoSocketType == SocketOK(NoSocket)
BY MaxIdAssumption DEF SocketOK, NoSocket, Socket, FdeEvents

\* fdevent_set changes only the two event masks: so2 is so with the mask ev.
Masked(so, so2, ev) ==
  /\ SocketOK(so2)
  /\ so2.want = ev /\ so2.pend \subseteq so.pend
  /\ so2.st = so.st /\ so2.peer = so.peer /\ so2.hook = so.hook
  /\ so2.q = so.q /\ so2.src = so.src /\ so2.got = so.got
  /\ so2.out = so.out /\ so2.took = so.took /\ so2.shut = so.shut

LEMMA FdeventSet ==
  ASSUME NEW so, SocketOK(so), NEW ev \in SUBSET FdeEvents
  PROVE  Masked(so, fdevent_set(so, ev), ev)
BY DEF Masked, fdevent_set, SocketOK, Socket, FdeEvents

LEMMA FdeventAddDel ==
  ASSUME NEW so, SocketOK(so), NEW ev \in FdeEvents
  PROVE  /\ Masked(so, fdevent_add(so, ev), so.want \union {ev})
         /\ Masked(so, fdevent_del(so, ev), so.want \ {ev})
<1>1. so.want \union {ev} \in SUBSET FdeEvents /\ so.want \ {ev} \in SUBSET FdeEvents
  BY DEF SocketOK, Socket
<1> QED  BY <1>1, FdeventSet DEF fdevent_add, fdevent_del

\* Closing a socket unties it from its peer, which is told so; the queue is
\* kept or dropped whole, and FDE_READ is off.  The client is told FAIL by the
\* hooks, so a hook that is still there did not run.
CloseFacts(so, e) ==
  /\ SocketOK(e.so)
  /\ e.so.st \in {"closing", "freed"}
  /\ e.so.peer = 0
  /\ e.so.q = so.q \/ e.so.q = <<>>
  /\ e.so.st = "freed" => e.so.q = <<>> /\ e.so.want = {} /\ e.so.pend = {}
  /\ "R" \notin e.so.want /\ e.so.pend \subseteq so.pend
  /\ e.sent = (IF so.peer = 0 THEN <<>> ELSE <<CLSE(0, so.peer)>>)
  /\ e.sent \in Seq(Packet)
  /\ e.ret = 1

LEMMA CloseLocked ==
  ASSUME NEW so, SocketOK(so)
  PROVE  /\ CloseFacts(so, local_socket_close_locked(so))
         /\ local_socket_close_locked(so).so.hook = so.hook
<1> DEFINE alone == [so EXCEPT !.peer = 0]
           kept == fdevent_del(alone, "R")
           dead == local_socket_destroy(alone)
<1>1. /\ SocketOK(alone) /\ alone.q = so.q /\ alone.peer = 0 /\ alone.hook = so.hook
      /\ alone.pend = so.pend
  BY MaxIdAssumption DEF SocketOK, Socket
<1>2. Masked(alone, kept, alone.want \ {"R"})
  BY <1>1, FdeventAddDel DEF FdeEvents
<1>3. LET last == [kept EXCEPT !.st = "closing"]
      IN  /\ SocketOK(last) /\ last.st = "closing" /\ last.q = so.q /\ last.peer = 0
          /\ "R" \notin last.want /\ last.pend \subseteq so.pend /\ last.hook = so.hook
  <2> HIDE DEF kept, alone
  <2> QED  BY <1>1, <1>2 DEF SocketOK, Socket, Masked
<1>4. /\ SocketOK(dead) /\ dead.st = "freed" /\ dead.q = <<>> /\ dead.peer = 0
      /\ dead.want = {} /\ dead.pend = {} /\ dead.hook = so.hook
  <2> HIDE DEF alone
  <2>1. <<>> \in Seq(Entry)
    BY EmptySeq
  <2> QED  BY <1>1, <2>1 DEF local_socket_destroy, fdevent_remove, SocketOK, Socket
<1>5. remote_socket_close(so.peer) \in Seq(Packet)
  <2>1. so.peer \in 0 .. MaxId /\ 0 \in 0 .. MaxId
    BY MaxIdAssumption DEF SocketOK, Socket
  <2>2. CLSE(0, so.peer) \in Packet
    BY <2>1, PacketTypes
  <2> QED  BY <2>2 DEF remote_socket_close
<1> QED
  BY <1>3, <1>4, <1>5 DEF CloseFacts, local_socket_close_locked, CloseEffect, Effect,
                          remote_socket_close

LEMMA CloseAny ==
  ASSUME NEW so, SocketOK(so)
  PROVE  CloseFacts(so, Close(so)) /\ Close(so).so.hook = FALSE
<1> DEFINE told == [so EXCEPT !.hook = FALSE, !.told = "FAIL"]
<1>1. /\ SocketOK(told) /\ told.q = so.q /\ told.peer = so.peer /\ told.hook = FALSE
      /\ told.pend = so.pend
  BY DEF SocketOK, Socket
<1>2. /\ CloseFacts(told, local_socket_close_locked(told))
      /\ local_socket_close_locked(told).so.hook = FALSE
  <2> HIDE DEF told
  <2> QED  BY <1>1, CloseLocked
<1>3. CloseFacts(so, local_socket_close_locked(told))
  BY <1>1, <1>2 DEF CloseFacts
<1>4. so.hook \in BOOLEAN
  BY DEF SocketOK, Socket
<1> QED  BY <1>2, <1>3, <1>4, CloseLocked DEF Close, local_socket_close_notify

\* s->ready(s) switches FDE_READ on and changes nothing else of the fdevent.
ReadyFacts(so, so2) ==
  /\ SocketOK(so2)
  /\ so2.want = so.want \union {"R"} /\ so2.pend \subseteq so.pend
  /\ so2.st = so.st /\ so2.peer = so.peer /\ so2.q = so.q /\ so2.hook = FALSE
  /\ so2.got = so.got /\ so2.out = so.out

LEMMA ReadyAny ==
  ASSUME NEW so, SocketOK(so)
  PROVE  ReadyFacts(so, Ready(so))
<1> DEFINE told == [so EXCEPT !.hook = FALSE, !.told = "OKAY"]
<1>1. /\ SocketOK(told) /\ told.want = so.want /\ told.pend = so.pend
      /\ told.st = so.st /\ told.peer = so.peer /\ told.q = so.q /\ told.hook = FALSE
      /\ told.got = so.got /\ told.out = so.out
  BY DEF SocketOK, Socket
<1>2. Masked(told, fdevent_add(told, "R"), told.want \union {"R"})
  <2> HIDE DEF told
  <2> QED  BY <1>1, FdeventAddDel DEF FdeEvents
<1>3. Masked(so, fdevent_add(so, "R"), so.want \union {"R"})
  BY FdeventAddDel DEF FdeEvents
<1>4. so.hook \in BOOLEAN
  BY DEF SocketOK, Socket
<1> HIDE DEF told
<1>5. ReadyFacts(so, fdevent_add(told, "R"))
  BY <1>1, <1>2 DEF Masked, ReadyFacts
<1>6. so.hook = FALSE => ReadyFacts(so, fdevent_add(so, "R"))
  BY <1>3 DEF Masked, ReadyFacts
<1> QED
  BY <1>4, <1>5, <1>6 DEF Ready, local_socket_ready_notify, local_socket_ready, told

\* A socket that only moved bytes between its queue and its descriptor.
SameStream(so, so2) ==
  /\ so2.st = so.st /\ so2.peer = so.peer /\ so2.hook = so.hook
  /\ so2.pend \subseteq so.pend

\* The queue entry of packet p: its last byte is the byte upto of the stream.
EntryOf(p, last) == [arg0 |-> p.arg0, off |-> p.off, len |-> p.len, upto |-> last]

\* local_socket_enqueue closes the socket, writes the packet out whole, or
\* appends it to the queue and waits for FDE_WRITE.
EnqueueFacts(so, p, e) ==
  /\ SocketOK(e.so) /\ e.sent \in Seq(Packet)
  /\ \/ CloseFacts(so, e) /\ e.so.hook = FALSE
     \/ /\ SameStream(so, e.so) /\ e.sent = <<>> /\ e.ret = 0
        /\ e.so.q = so.q /\ e.so.want = so.want
        /\ e.so.got = so.got /\ e.so.out = so.out + p.len
     \/ /\ SameStream(so, e.so) /\ e.sent = <<>> /\ e.ret = 1
        /\ e.so.want = so.want \union {"W"} /\ e.so.got = so.got
        /\ e.so.q = Append(so.q, EntryOf(p, Expected(so) + p.len))

LEMMA EnqueueAny ==
  ASSUME NEW so, SocketOK(so), NEW p \in Packet
  PROVE  EnqueueFacts(so, p, local_socket_enqueue(so, p))
<1> DEFINE last == EntryOf(p, Expected(so) + p.len)
           longer == Backlogged(so, p, Expected(so) + p.len, Filled(so))
           queued == fdevent_add(longer, "W")
           whole == [so EXCEPT !.out = @ + p.len]
<1>1. so.q \in Seq(Entry) /\ p.len \in Nat /\ p.off \in Nat /\ p.arg0 \in 0 .. MaxId
  BY DEF SocketOK, Socket, Packet
<1>2. Expected(so) \in Nat /\ Filled(so) \in Nat
  <2>1. CASE so.q = <<>>
    BY <2>1, FdCapAssumption DEF Expected, Filled, Room, SocketOK, Socket
  <2>2. CASE so.q # <<>>
    <3>1. so.q[Len(so.q)] \in Entry
      BY <1>1, <2>2
    <3> QED  BY <2>2, <3>1 DEF Expected, Filled, SocketOK, Socket, Entry
  <2> QED  BY <2>1, <2>2
<1>3. last \in Entry
  BY <1>1, <1>2 DEF Entry, EntryOf
<1>4. Append(so.q, last) \in Seq(Entry)
  BY <1>1, <1>3, AppendProperties
<1>5. /\ SocketOK(longer) /\ SameStream(so, longer) /\ longer.want = so.want
      /\ longer.q = Append(so.q, last) /\ longer.got = so.got
  <2> HIDE DEF last
  <2>1. longer = [so EXCEPT !.out = Filled(so), !.q = Append(@, last)]
    BY DEF Backlogged, last, EntryOf
  <2> QED  BY <1>2, <1>4, <2>1 DEF SocketOK, Socket, SameStream
<1>6. Masked(longer, queued, longer.want \union {"W"})
  <2> HIDE DEF longer
  <2> QED  BY <1>5, FdeventAddDel DEF FdeEvents
<1>7. /\ SocketOK(whole) /\ SameStream(so, whole) /\ whole.want = so.want /\ whole.q = so.q
      /\ whole.got = so.got /\ whole.out = so.out + p.len
  <2>1. so.out + p.len \in Nat
    BY <1>1 DEF SocketOK, Socket
  <2> QED  BY <2>1 DEF SocketOK, Socket, SameStream
<1> HIDE DEF last, longer, queued, whole
<1>8. EnqueueFacts(so, p, Effect(queued, <<>>, 1))
  <2>1. <<>> \in Seq(Packet)
    BY EmptySeq
  <2>2. /\ SocketOK(queued) /\ SameStream(so, queued) /\ queued.want = so.want \union {"W"}
        /\ queued.q = Append(so.q, last) /\ queued.got = so.got
    BY <1>5, <1>6 DEF Masked, SameStream
  <2> QED  BY <1>3, <2>1, <2>2 DEF EnqueueFacts, Effect, last
<1>9. EnqueueFacts(so, p, Effect(whole, <<>>, 0))
  <2>1. <<>> \in Seq(Packet)
    BY EmptySeq
  <2> QED  BY <1>7, <2>1 DEF EnqueueFacts, Effect
<1>10. EnqueueFacts(so, p, Close(so))
  BY CloseAny DEF EnqueueFacts, CloseFacts
<1> QED
  BY <1>8, <1>9, <1>10 DEF local_socket_enqueue, EnqueueEffect, queued, longer, whole

\* The write half of the event handler closes the socket, stops with a rest in
\* the queue, faults, or empties the queue and answers OKAY.
WriteFacts(i, so, e) ==
  /\ SocketOK(e.so) /\ e.sent \in Seq(Packet)
  /\ \/ CloseFacts(so, e) /\ e.so.hook = FALSE
     \/ /\ SameStream(so, e.so) /\ e.sent = <<>> /\ e.ret = 1
        /\ e.so.want = so.want /\ e.so.q # <<>> /\ e.so.got = so.got
        /\ \E done \in 0 .. Len(so.q) : e.so.q = SubSeq(so.q, done + 1, Len(so.q))
     \/ /\ so.st # "closing" /\ so.peer = 0 /\ e.so.peer = 0 /\ e.so.st = "fault"
        /\ e.so.hook = so.hook /\ e.so.pend \subseteq so.pend
        /\ e.sent = <<>> /\ e.ret = 1 /\ e.so.want = so.want /\ e.so.q = <<>>
     \/ /\ so.st # "closing" /\ so.peer # 0 /\ SameStream(so, e.so)
        /\ e.sent = <<OKAY(i, so.peer)>> /\ e.ret = 0
        /\ e.so.want = so.want \ {"W"} /\ e.so.q = <<>>
        /\ e.so.got = so.got /\ e.so.src = so.src /\ e.so.shut = so.shut
        /\ Len(so.q) = 1 => e.so.out = so.q[1].upto

\* What is left of a queue once every entry up to the byte w is written out.
LEMMA QueueRest ==
  ASSUME NEW q \in Seq(Entry), NEW w
  PROVE  LET done == Cardinality({n \in 1 .. Len(q) : q[n].upto <= w})
         IN  /\ done \in 0 .. Len(q)
             /\ SubSeq(q, done + 1, Len(q)) \in Seq(Entry)
             /\ Len(q) = 1 /\ ~(q[1].upto <= w) => SubSeq(q, done + 1, Len(q)) # <<>>
<1> DEFINE gone == {n \in 1 .. Len(q) : q[n].upto <= w}
<1>1. Len(q) \in Nat
  OBVIOUS
<1>2. IsFiniteSet(1 .. Len(q)) /\ Cardinality(1 .. Len(q)) = Len(q)
  BY <1>1, FS_Interval
<1>3. gone \in SUBSET (1 .. Len(q))
  OBVIOUS
<1>4. IsFiniteSet(gone) /\ Cardinality(gone) <= Len(q)
  <2> HIDE DEF gone
  <2> QED  BY <1>2, <1>3, FS_Subset
<1>5. Cardinality(gone) \in Nat
  <2> HIDE DEF gone
  <2> QED  BY <1>4, FS_CardinalityType
<1>6. Cardinality(gone) \in 0 .. Len(q)
  <2> HIDE DEF gone
  <2> QED  BY <1>1, <1>4, <1>5
<1>7. \A k \in 0 .. Len(q) : SubSeq(q, k + 1, Len(q)) \in Seq(Entry)
  <2> TAKE k \in 0 .. Len(q)
  <2>1. \A n \in (k + 1) .. Len(q) : q[n] \in Entry
    BY <1>1
  <2> QED  BY <1>1, <2>1, SubSeqProperties
<1>8. ASSUME Len(q) = 1, ~(q[1].upto <= w) PROVE SubSeq(q, Cardinality(gone) + 1, Len(q)) # <<>>
  <2>1. gone = {}
    BY <1>8
  <2>2. Cardinality(gone) = 0
    BY <2>1, FS_EmptySet
  <2> HIDE DEF gone
  <2>3. SubSeq(q, Cardinality(gone) + 1, Len(q)) = SubSeq(q, 1, 1)
    BY <1>8, <2>2
  <2>4. Len(SubSeq(q, 1, 1)) = 1
    BY <1>8, SubSeqProperties
  <2>5. \A r : Len(r) = 1 => r # <<>>
    OBVIOUS
  <2>6. SubSeq(q, 1, 1) # <<>>
    BY <2>4, <2>5, Zenon
  <2> QED  BY <2>3, <2>6
<1> QED  BY <1>6, <1>7, <1>8

LEMMA EventWriteAny ==
  ASSUME NEW so, SocketOK(so), NEW i \in Id
  PROVE  WriteFacts(i, so, EventWrite(i, so))
<1> DEFINE written == Lesser(so.q[Len(so.q)].upto, Room(so))
           done    == Cardinality({n \in 1 .. Len(so.q) : so.q[n].upto <= written})
           rest    == SubSeq(so.q, done + 1, Len(so.q))
           partly  == [so EXCEPT !.out = written, !.q = SubSeq(@, done + 1, Len(@))]
           drained == IF so.q = <<>> THEN so ELSE partly
           okay    == OKAY(i, so.peer)
<1>1. so.q \in Seq(Entry) /\ so.peer \in 0 .. MaxId /\ i \in 0 .. MaxId
  BY MaxIdAssumption DEF SocketOK, Socket, Id
<1>2. /\ done \in 0 .. Len(so.q) /\ rest \in Seq(Entry)
      /\ Len(so.q) = 1 /\ ~(so.q[1].upto <= written) => rest # <<>>
  BY <1>1, QueueRest
<1>3. so.q # <<>> => /\ written \in Nat
                     /\ Len(so.q) = 1 /\ so.q[1].upto <= written => written = so.q[1].upto
  <2> SUFFICES ASSUME so.q # <<>>
               PROVE  /\ written \in Nat
                      /\ Len(so.q) = 1 /\ so.q[1].upto <= written => written = so.q[1].upto
    OBVIOUS
  <2>1. so.q[Len(so.q)] \in Entry
    BY <1>1
  <2>2. so.q[Len(so.q)].upto \in Nat /\ Room(so) \in Nat
    BY SMTT(30), <2>1, FdCapAssumption DEF Entry, Room, SocketOK, Socket
  <2> QED  BY <2>2 DEF Lesser
<1> HIDE DEF written, done
<1>4. /\ SocketOK(drained) /\ SameStream(so, drained) /\ drained.want = so.want
      /\ drained.got = so.got /\ drained.src = so.src /\ drained.shut = so.shut
      /\ so.q # <<>> => drained.q = rest /\ drained.out = written
      /\ so.q = <<>> => drained.q = <<>>
  <2>1. CASE so.q = <<>>
    BY <2>1 DEF SameStream
  <2>2. CASE so.q # <<>>
    <3> HIDE DEF rest
    <3>1. partly = [so EXCEPT !.out = written, !.q = rest]
      BY DEF rest
    <3>2. written \in Nat /\ rest \in Seq(Entry)
      BY <1>2, <1>3, <2>2 DEF rest
    <3> QED  BY <2>2, <3>1, <3>2 DEF SameStream, SocketOK, Socket
  <2> QED  BY <2>1, <2>2
<1>5. okay \in Packet
  BY <1>1, PacketTypes
<1>6. <<>> \in Seq(Packet) /\ <<okay>> \in Seq(Packet)
  BY <1>5, EmptySeq
<1>7. EventWrite(i, so) =
        IF so.q # <<>> /\ so.shut = "full" THEN Close(so)
        ELSE IF drained.q # <<>> THEN Effect(drained, <<>>, 1)
        ELSE IF so.st = "closing" THEN Close(drained)
        ELSE IF so.peer = 0 THEN Effect([drained EXCEPT !.st = "fault"], <<>>, 1)
        ELSE Effect(fdevent_del(drained, "W"), <<okay>>, 0)
  BY DEF EventWrite, WriteEffect, done, written
<1> HIDE DEF drained, okay
<1>8. WriteFacts(i, so, Close(so))
  BY CloseAny DEF WriteFacts, CloseFacts
<1>9. ASSUME drained.q # <<>> PROVE WriteFacts(i, so, Effect(drained, <<>>, 1))
  <2>1. so.q # <<>> /\ drained.q = SubSeq(so.q, done + 1, Len(so.q))
    BY <1>4, <1>9
  <2> QED  BY <1>2, <1>4, <1>6, <1>9, <2>1 DEF WriteFacts, Effect
<1>10. WriteFacts(i, so, Close(drained)) \/ drained.q # <<>>
  <2> SUFFICES ASSUME drained.q = <<>> PROVE CloseFacts(so, Close(drained)) /\ Close(drained).so.hook = FALSE
    BY DEF WriteFacts, CloseFacts
  <2>1. CloseFacts(drained, Close(drained)) /\ Close(drained).so.hook = FALSE
    BY <1>4, CloseAny
  <2> QED  BY <1>4, <2>1 DEF CloseFacts, SameStream
<1>11. ASSUME drained.q = <<>>, so.st # "closing", so.peer = 0
       PROVE  WriteFacts(i, so, Effect([drained EXCEPT !.st = "fault"], <<>>, 1))
  <2> DEFINE bad == [drained EXCEPT !.st = "fault"]
  <2>1. /\ SocketOK(bad) /\ bad.peer = 0 /\ bad.st = "fault" /\ bad.hook = so.hook
        /\ bad.pend \subseteq so.pend /\ bad.want = so.want /\ bad.q = <<>>
    BY <1>4, <1>11 DEF SocketOK, Socket, SameStream
  <2> HIDE DEF bad
  <2>2. WriteFacts(i, so, Effect(bad, <<>>, 1))
    BY <1>6, <1>11, <2>1 DEF WriteFacts, Effect
  <2> QED  BY <2>2 DEF bad
<1>12. ASSUME drained.q = <<>>, so.st # "closing", so.peer # 0
       PROVE  WriteFacts(i, so, Effect(fdevent_del(drained, "W"), <<okay>>, 0))
  <2>1. Masked(drained, fdevent_del(drained, "W"), drained.want \ {"W"})
    BY <1>4, FdeventAddDel DEF FdeEvents
  <2>2. /\ SocketOK(fdevent_del(drained, "W")) /\ SameStream(so, fdevent_del(drained, "W"))
        /\ fdevent_del(drained, "W").want = so.want \ {"W"}
        /\ fdevent_del(drained, "W").q = <<>>
        /\ fdevent_del(drained, "W").got = so.got /\ fdevent_del(drained, "W").src = so.src
        /\ fdevent_del(drained, "W").shut = so.shut
        /\ fdevent_del(drained, "W").out = drained.out
    BY <1>4, <1>12, <2>1 DEF Masked, SameStream
  <2>3. Len(so.q) = 1 => drained.out = so.q[1].upto
    <3> SUFFICES ASSUME Len(so.q) = 1 PROVE drained.out = so.q[1].upto
      OBVIOUS
    <3> HIDE DEF rest
    <3>0. so.q # <<>>
      OBVIOUS
    <3>1. so.q # <<>> /\ rest = <<>>
      BY <1>4, <1>12, <3>0
    <3> QED  BY <1>2, <1>3, <1>4, <3>1
  <2> QED  BY <1>6, <1>12, <2>2, <2>3 DEF WriteFacts, Effect, okay
<1> QED  BY <1>7, <1>8, <1>9, <1>10, <1>11, <1>12

\* The read half sends at most one WRTE, which costs the socket its FDE_READ,
\* and may close the socket after that: so2 is the socket before the close.
ReadSent(i, so, n) ==
  IF n > 0 /\ so.peer # 0 THEN <<WRTE(i, so.peer, so.got, n)>> ELSE <<>>

ReadMiddle(so, so2, n) ==
  /\ SocketOK(so2) /\ SameStream(so, so2)
  /\ so2.q = so.q /\ so2.out = so.out /\ so2.got = so.got + n
  /\ so2.want = (IF n > 0 /\ so.peer # 0 THEN so.want \ {"R"} ELSE so.want)

ReadFacts(i, so, e) ==
  /\ SocketOK(e.so) /\ e.sent \in Seq(Packet)
  /\ \E n \in Nat, so2 \in Socket :
       /\ ReadMiddle(so, so2, n)
       /\ \/ e.so = so2 /\ e.sent = ReadSent(i, so, n)
          \/ \E c : /\ CloseFacts(so2, c) /\ c.so.hook = FALSE
                    /\ e.so = c.so /\ e.sent = ReadSent(i, so, n) \o c.sent

LEMMA EventReadAny ==
  ASSUME NEW so, SocketOK(so), NEW i \in Id
  PROVE  ReadFacts(i, so, EventRead(i, so))
<1> DEFINE n == Lesser(MAX_PAYLOAD, so.src - so.got)
           more == [so EXCEPT !.got = @ + n]
           sends == n > 0 /\ so.peer # 0
           eof == n < MAX_PAYLOAD /\ so.shut # "no"
           so2 == IF sends THEN fdevent_del(more, "R") ELSE more
           wrte == WRTE(i, so.peer, so.got, n)
           sent == IF sends THEN <<wrte>> ELSE <<>>
<1>1. n \in Nat /\ so.got + n <= so.src /\ so.got \in Nat /\ so.src \in Nat
  BY PayloadAssumption DEF Lesser, SocketOK, Socket
<1> HIDE DEF n
<1>2. /\ SocketOK(more) /\ SameStream(so, more) /\ more.want = so.want /\ more.q = so.q
      /\ more.out = so.out /\ more.got = so.got + n
  <2>1. so.got + n \in Nat
    BY <1>1
  <2> QED  BY <1>1, <2>1 DEF SocketOK, Socket, SameStream
<1> HIDE DEF more
<1>3. Masked(more, fdevent_del(more, "R"), more.want \ {"R"})
  BY <1>2, FdeventAddDel DEF FdeEvents
<1>4. ReadMiddle(so, so2, n)
  BY <1>2, <1>3 DEF Masked, SameStream, ReadMiddle
<1>5. sent \in Seq(Packet) /\ sent = ReadSent(i, so, n)
  <2>1. i \in 0 .. MaxId /\ so.peer \in 0 .. MaxId
    BY MaxIdAssumption DEF SocketOK, Socket, Id
  <2>2. wrte \in Packet
    BY <1>1, <2>1, PacketTypes
  <2> QED  BY <2>2, EmptySeq DEF ReadSent
<1>6. EventRead(i, so) = IF eof THEN Effect(Close(so2).so, sent \o Close(so2).sent, 1)
                                ELSE Effect(so2, sent, 0)
  BY DEF EventRead, ReadEffect, n, more
<1> HIDE DEF so2, sent, sends, eof
<1>7. so2 \in Socket
  BY <1>4 DEF ReadMiddle, SocketOK
<1>8. ReadFacts(i, so, Effect(so2, sent, 0))
  BY <1>1, <1>4, <1>5, <1>7 DEF ReadFacts, Effect, ReadMiddle
<1>9. ReadFacts(i, so, Effect(Close(so2).so, sent \o Close(so2).sent, 1))
  <2> DEFINE c == Close(so2)
  <2>1. CloseFacts(so2, c) /\ c.so.hook = FALSE
    BY <1>4, CloseAny DEF ReadMiddle
  <2> HIDE DEF c
  <2>2. SocketOK(c.so) /\ c.sent \in Seq(Packet)
    BY <2>1 DEF CloseFacts
  <2>3. sent \o c.sent \in Seq(Packet)
    BY <1>5, <2>2, ConcatProperties
  <2>4. ReadFacts(i, so, Effect(c.so, sent \o c.sent, 1))
    BY <1>1, <1>4, <1>5, <1>7, <2>1, <2>2, <2>3 DEF ReadFacts, Effect
  <2> QED  BY <2>4 DEF c
<1> QED  BY <1>6, <1>8, <1>9

\* What every effect of the main loop on a socket respects: the types, and that
\* the socket is not freed with its hooks still in place.
EffectOK(so, e) ==
  /\ SocketOK(e.so) /\ e.sent \in Seq(Packet)
  /\ e.so.st = "freed" /\ e.so.hook => so.st = "freed" /\ so.hook

LEMMA EventFuncOK ==
  ASSUME NEW so, SocketOK(so), NEW i \in Id, NEW ev
  PROVE  EffectOK(so, local_socket_event_func(i, so, ev))
<1> DEFINE w == IF "W" \in ev THEN EventWrite(i, so) ELSE Effect(so, <<>>, 0)
           r == EventRead(i, w.so)
<1>1. EffectOK(so, w)
  <2>1. EffectOK(so, EventWrite(i, so))
    <3> DEFINE e == EventWrite(i, so)
    <3>1. WriteFacts(i, so, e)
      BY EventWriteAny
    <3> HIDE DEF e
    <3>2. /\ SocketOK(e.so) /\ e.sent \in Seq(Packet)
          /\ e.so.hook = FALSE \/ e.so.st = "fault" \/ (e.so.st = so.st /\ e.so.hook = so.hook)
      BY <3>1 DEF WriteFacts, SameStream
    <3> QED  BY <3>2 DEF EffectOK, e
  <2>2. EffectOK(so, Effect(so, <<>>, 0))
    BY EmptySeq DEF Effect, EffectOK
  <2> QED  BY <2>1, <2>2
<1> HIDE DEF w
<1>2. EffectOK(w.so, r)
  <2>1. ReadFacts(i, w.so, r)
    BY <1>1, EventReadAny DEF EffectOK
  <2> HIDE DEF r
  <2> QED  BY <2>1 DEF ReadFacts, ReadMiddle, EffectOK, CloseFacts, SameStream
<1> HIDE DEF r
<1>3. EffectOK(so, Effect(r.so, w.sent \o r.sent, r.ret))
  BY <1>1, <1>2, ConcatProperties DEF EffectOK, Effect
<1> QED  BY <1>1, <1>3 DEF local_socket_event_func, w, r

LEMMA OpenOK ==
  ASSUME NEW j \in Id, NEW p \in Packet
  PROVE  EffectOK(NoSocket, OpenEffect(j, p))
<1> DEFINE fresh == [create_local_socket EXCEPT !.peer = p.arg0]
<1>1. SocketOK(fresh) /\ fresh.st = "open"
  BY NoSocketType DEF create_local_socket, SocketOK, Socket, NoSocket, Packet
<1>2. OKAY(j, p.arg0) \in Packet
  <2>1. j \in 0 .. MaxId /\ p.arg0 \in 0 .. MaxId
    BY MaxIdAssumption DEF Packet, Id
  <2> QED  BY <2>1, PacketTypes
<1> HIDE DEF fresh
<1>3. ReadyFacts(fresh, Ready(fresh))
  BY <1>1, ReadyAny
<1> QED  BY <1>1, <1>2, <1>3 DEF OpenEffect, Effect, EffectOK, ReadyFacts, fresh

LEMMA ReadyPacketOK ==
  ASSUME NEW so, SocketOK(so), NEW p \in Packet
  PROVE  EffectOK(so, ReadyPacket(so, p))
<1> DEFINE bound == IF so.peer = 0 THEN [so EXCEPT !.peer = p.arg0] ELSE so
<1>1. SocketOK(bound)
  BY DEF SocketOK, Socket, Packet
<1> HIDE DEF bound
<1>2. ReadyFacts(bound, Ready(bound))
  BY <1>1, ReadyAny
<1> QED  BY <1>2, EmptySeq DEF ReadyPacket, Effect, EffectOK, ReadyFacts, bound

LEMMA WritePacketOK ==
  ASSUME NEW so, SocketOK(so), NEW p \in Packet
  PROVE  EffectOK(so, WritePacket(so, p))
<1> DEFINE e == local_socket_enqueue(so, p)
<1>1. EnqueueFacts(so, p, e)
  BY EnqueueAny
<1>2. OKAY(p.arg1, p.arg0) \in Packet
  BY PacketTypes, MaxIdAssumption DEF Packet
<1>3. WritePacket(so, p) = IF e.ret = 0 THEN Effect(e.so, <<OKAY(p.arg1, p.arg0)>>, 0) ELSE e
  BY DEF WritePacket
<1> HIDE DEF e
<1>4. /\ SocketOK(e.so) /\ e.sent \in Seq(Packet)
      /\ e.so.hook = FALSE \/ (e.so.st = so.st /\ e.so.hook = so.hook)
  BY <1>1 DEF EnqueueFacts, SameStream
<1>5. EffectOK(so, e) /\ EffectOK(so, Effect(e.so, <<OKAY(p.arg1, p.arg0)>>, 0))
  BY <1>2, <1>4 DEF EffectOK, Effect
<1> QED  BY <1>3, <1>5

LEMMA CloseOK ==
  ASSUME NEW so, SocketOK(so)
  PROVE  EffectOK(so, Close(so))
BY CloseAny DEF CloseFacts, EffectOK

LEMMA StreamOK ==
  ASSUME NEW so, SocketOK(so), NEW p \in Packet
  PROVE  EffectOK(so, StreamEffect(so, p))
BY ReadyPacketOK, WritePacketOK, CloseOK DEF StreamEffect

LEMMA TakenOK ==
  ASSUME NEW so, SocketOK(so)
  PROVE  SocketOK(fdevent_taken(so)) /\ fdevent_taken(so).st = so.st
         /\ fdevent_taken(so).hook = so.hook
BY DEF fdevent_taken, SocketOK, Socket

-----------------------------------------------------------------------------
(* Type correctness, and who may free a socket that still has its hooks.   *)

TypedAndTold == TypeOK /\ SilentOnlyBySweep

SocketsOK == \A s \in Side, i \in Id : SocketOK(sock[s][i])

LEMMA TypedSockets ==
  ASSUME TypeOK
  PROVE  SocketsOK
BY DEF TypeOK, SocketsOK, SocketOK

\* Replacing one socket by one that EffectOK allows, and sending its packets.
LEMMA ApplyOK ==
  ASSUME TypedAndTold,
         NEW s \in Side, NEW i \in Id, NEW e, NEW ch \in [Side -> Seq(Packet)],
         EffectOK(sock[s][i], e), Apply(s, i, e, ch), tstate' = tstate
  PROVE  /\ sock' \in [Side -> [Id -> Socket]]
         /\ \A r \in Side, j \in Id : sock'[r][j].got <= sock'[r][j].src
         /\ chan' \in [Side -> Seq(Packet)]
         /\ SilentOnlyBySweep'
<1>1. /\ sock' \in [Side -> [Id -> Socket]]
      /\ \A r \in Side, j \in Id : sock'[r][j] = IF r = s /\ j = i THEN e.so ELSE sock[r][j]
  BY DEF Apply, EffectOK, SocketOK, TypedAndTold, TypeOK
<1>2. \A r \in Side, j \in Id : sock'[r][j].got <= sock'[r][j].src
  BY <1>1 DEF EffectOK, SocketOK, TypedAndTold, TypeOK
<1>3. chan' \in [Side -> Seq(Packet)]
  <2>1. Other(s) \in Side /\ ch[Other(s)] \in Seq(Packet) /\ e.sent \in Seq(Packet)
    BY SideFacts DEF EffectOK
  <2>2. ch[Other(s)] \o e.sent \in Seq(Packet)
    BY <2>1, ConcatProperties
  <2> QED  BY <2>1, <2>2 DEF Apply, send_packets
<1>4. SilentOnlyBySweep'
  BY <1>1 DEF EffectOK, TypedAndTold, SilentOnlyBySweep
<1> QED  BY <1>1, <1>2, <1>3, <1>4

LEMMA HeadOK ==
  ASSUME TypeOK, NEW s \in Side, chan[s] # <<>>
  PROVE  Head(chan[s]) \in Packet /\ Rest(s) \in [Side -> Seq(Packet)]
<1>1. chan[s] \in Seq(Packet)
  BY DEF TypeOK
<1>2. Head(chan[s]) \in Packet /\ Tail(chan[s]) \in Seq(Packet)
  BY <1>1, HeadTailProperties
<1> QED  BY <1>2 DEF Rest, TypeOK

\* Each action keeps the types and the told-ness of sockets.
LEMMA ConnectOK ==
  ASSUME TypedAndTold, NEW s \in Side, NEW smart \in BOOLEAN, NEW early \in BOOLEAN,
         Connect(s, smart, early)
  PROVE  TypedAndTold'
<1> DEFINE i == nextId[s]
           so == [create_local_socket EXCEPT !.hook = smart,
                                             !.shut = IF early THEN "half" ELSE "no"]
           e  == IF early THEN Close(so) ELSE Effect(so, <<>>, 0)
           e2 == Effect(e.so, <<OPEN(i)>> \o e.sent, 0)
<1>1. i \in Id /\ Apply(s, i, e2, chan)
      /\ nextId' = [nextId EXCEPT ![s] = i + 1] /\ UNCHANGED <<tstate, link, tev>>
  BY DEF Connect
<1>2. SocketOK(so) /\ so.st = "open"
  BY NoSocketType DEF create_local_socket, NoSocket, SocketOK, Socket
<1> HIDE DEF so
<1>3. EffectOK(so, e)
  BY <1>2, CloseOK, EmptySeq DEF Effect, EffectOK
<1>4. <<OPEN(i)>> \in Seq(Packet)
  <2>1. i \in 0 .. MaxId
    BY <1>1, MaxIdAssumption DEF Id
  <2> QED  BY <2>1, PacketTypes
<1> HIDE DEF e, i
<1>5. EffectOK(sock[s][i], e2)
  BY <1>2, <1>3, <1>4, ConcatProperties DEF EffectOK, Effect
<1>6. chan \in [Side -> Seq(Packet)]
  BY DEF TypedAndTold, TypeOK
<1> HIDE DEF e2
<1>7. /\ sock' \in [Side -> [Id -> Socket]]
      /\ \A r \in Side, j \in Id : sock'[r][j].got <= sock'[r][j].src
      /\ chan' \in [Side -> Seq(Packet)]
      /\ SilentOnlyBySweep'
  BY <1>1, <1>5, <1>6, ApplyOK
<1>8. nextId' \in [Side -> 1 .. (MaxId + 1)]
  BY <1>1, MaxIdAssumption DEF TypedAndTold, TypeOK, Id
<1> QED  BY <1>1, <1>7, <1>8 DEF TypedAndTold, TypeOK

LEMMA LoopOK ==
  ASSUME TypedAndTold, NEW s \in Side, Loop(s)
  PROVE  TypedAndTold'
<1> USE DEF TypedAndTold
<1>s. SocketsOK
  BY TypedSockets
<1>c. chan \in [Side -> Seq(Packet)]
  BY DEF TypeOK
<1>1. CASE fdevent_process(s)
  <2>1. \A i \in Id : /\ [sock[s][i] EXCEPT !.pend = ReadyEvents(sock[s][i])] \in Socket
                      /\ [sock[s][i] EXCEPT !.pend = ReadyEvents(sock[s][i])].got = sock[s][i].got
                      /\ [sock[s][i] EXCEPT !.pend = ReadyEvents(sock[s][i])].src = sock[s][i].src
                      /\ [sock[s][i] EXCEPT !.pend = ReadyEvents(sock[s][i])].st = sock[s][i].st
                      /\ [sock[s][i] EXCEPT !.pend = ReadyEvents(sock[s][i])].hook = sock[s][i].hook
    <3> TAKE i \in Id
    <3>1. ReadyEvents(sock[s][i]) \in SUBSET FdeEvents
      BY <1>s DEF ReadyEvents, SocketsOK, SocketOK, Socket
    <3> QED  BY <1>s, <3>1 DEF SocketsOK, SocketOK, Socket
  <2>2. sock' = [sock EXCEPT ![s] =
                   [i \in Id |-> [sock[s][i] EXCEPT !.pend = ReadyEvents(sock[s][i])]]]
        /\ tev' = [tev EXCEPT ![s] = TransportReady(s)]
        /\ UNCHANGED <<nextId, chan, tstate, link>>
    BY <1>1 DEF fdevent_process
  <2>3. sock' \in [Side -> [Id -> Socket]]
    BY <2>1, <2>2 DEF TypeOK
  <2>4. \A r \in Side, i \in Id : /\ sock'[r][i].got = sock[r][i].got
                                  /\ sock'[r][i].src = sock[r][i].src
                                  /\ sock'[r][i].st = sock[r][i].st
                                  /\ sock'[r][i].hook = sock[r][i].hook
    BY <2>1, <2>2 DEF TypeOK
  <2>5. tev' \in [Side -> BOOLEAN]
    BY <2>2 DEF TypeOK, TransportReady
  <2> QED  BY <2>2, <2>3, <2>4, <2>5 DEF TypeOK, SilentOnlyBySweep
<1>2. ASSUME NEW i \in Id, SocketEvent(s, i) PROVE TypedAndTold'
  <2> DEFINE so == fdevent_taken(sock[s][i])
             e == local_socket_event_func(i, so, sock[s][i].pend)
  <2>1. Apply(s, i, e, chan) /\ UNCHANGED <<nextId, tstate, link, tev>>
    BY <1>2 DEF SocketEvent
  <2>2. SocketOK(so) /\ so.st = sock[s][i].st /\ so.hook = sock[s][i].hook
    BY <1>s, TakenOK DEF SocketsOK
  <2> HIDE DEF so
  <2>3. EffectOK(so, e)
    BY <2>2, EventFuncOK
  <2> HIDE DEF e
  <2>4. EffectOK(sock[s][i], e)
    BY <2>2, <2>3 DEF EffectOK
  <2> QED  BY <1>c, <2>1, <2>4, ApplyOK DEF TypeOK
<1>3. CASE AcceptOpen(s)
  <2> DEFINE p == Head(chan[s])
             e == OpenEffect(nextId[s], p)
  <2>1. /\ chan[s] # <<>> /\ nextId[s] \in Id /\ Apply(s, nextId[s], e, Rest(s))
        /\ tev' = [tev EXCEPT ![s] = FALSE] /\ nextId' = [nextId EXCEPT ![s] = @ + 1]
        /\ UNCHANGED <<tstate, link>>
    BY <1>3 DEF AcceptOpen, TakePacket
  <2>2. p \in Packet /\ Rest(s) \in [Side -> Seq(Packet)]
    BY <2>1, HeadOK
  <2>3. EffectOK(NoSocket, e)
    BY <2>1, <2>2, OpenOK
  <2> HIDE DEF e
  <2>4. EffectOK(sock[s][nextId[s]], e)
    BY <2>3 DEF EffectOK, NoSocket
  <2>5. nextId' \in [Side -> 1 .. (MaxId + 1)]
    BY <2>1, MaxIdAssumption DEF TypeOK, Id
  <2> QED  BY <2>1, <2>2, <2>4, <2>5, ApplyOK DEF TypeOK
<1>4. CASE RefuseOpen(s)
  <2> DEFINE p == CLSE(0, Head(chan[s]).arg0)
  <2>1. /\ chan[s] # <<>> /\ chan' = send_packets(Rest(s), s, <<p>>)
        /\ tev' = [tev EXCEPT ![s] = FALSE] /\ UNCHANGED <<sock, nextId, tstate, link>>
    BY <1>4 DEF RefuseOpen, TakePacket
  <2>2. Head(chan[s]) \in Packet /\ Rest(s) \in [Side -> Seq(Packet)]
    BY <2>1, HeadOK
  <2>3. p \in Packet
    <3>1. Head(chan[s]).arg0 \in 0 .. MaxId /\ 0 \in 0 .. MaxId
      BY <2>2, MaxIdAssumption DEF Packet
    <3> QED  BY <3>1, PacketTypes
  <2> HIDE DEF p
  <2>4. Other(s) \in Side /\ Rest(s)[Other(s)] \o <<p>> \in Seq(Packet)
    BY <2>2, <2>3, SideFacts, ConcatProperties
  <2>5. chan' \in [Side -> Seq(Packet)]
    BY <2>1, <2>2, <2>4 DEF send_packets
  <2> QED  BY <2>1, <2>5 DEF TypeOK, SilentOnlyBySweep
<1>5. CASE HandleStream(s)
  <2> DEFINE p == Head(chan[s])
             e == StreamEffect(sock[s][p.arg1], p)
  <2>1. /\ chan[s] # <<>> /\ p.arg1 \in Id /\ Apply(s, p.arg1, e, Rest(s))
        /\ tev' = [tev EXCEPT ![s] = FALSE] /\ UNCHANGED <<nextId, tstate, link>>
    BY <1>5 DEF HandleStream, TakePacket, find_local_socket
  <2>2. p \in Packet /\ Rest(s) \in [Side -> Seq(Packet)]
    BY <2>1, HeadOK
  <2>3. EffectOK(sock[s][p.arg1], e)
    BY <1>s, <2>1, <2>2, StreamOK DEF SocketsOK
  <2> HIDE DEF e
  <2> QED  BY <2>1, <2>2, <2>3, ApplyOK DEF TypeOK
<1>6. CASE HandleStale(s)
  <2>1. /\ chan[s] # <<>> /\ chan' = Rest(s) /\ tev' = [tev EXCEPT ![s] = FALSE]
        /\ UNCHANGED <<sock, nextId, tstate, link>>
    BY <1>6 DEF HandleStale, TakePacket
  <2> QED  BY <2>1, HeadOK DEF TypeOK, SilentOnlyBySweep
<1>7. CASE HandleOffline(s)
  <2>1. \A i \in Id : EffectOK(sock[s][i], Effect(Disconnected(sock[s][i]), <<>>, 0))
    <3> TAKE i \in Id
    <3> DEFINE so == sock[s][i]
               alone == [so EXCEPT !.peer = 0]
    <3>1. SocketOK(so)
      BY <1>s DEF SocketsOK
    <3>2. SocketOK(alone) /\ alone.st = so.st /\ alone.hook = so.hook
      <4> HIDE DEF so
      <4> QED  BY <3>1, MaxIdAssumption DEF SocketOK, Socket
    <3> HIDE DEF alone
    <3>3. EffectOK(alone, Close(alone))
      BY <3>2, CloseOK
    <3> QED  BY <3>1, <3>2, <3>3, EmptySeq DEF Disconnected, EffectOK, Effect, alone
  <2>2. /\ sock' = [sock EXCEPT ![s] = [i \in Id |-> Disconnected(sock[s][i])]]
        /\ tstate' = [tstate EXCEPT ![s] = "offline"] /\ tstate[s] = "online"
        /\ tev' = [tev EXCEPT ![s] = FALSE] /\ UNCHANGED <<nextId, chan, link>>
    BY <1>7 DEF HandleOffline
  <2>3. \A i \in Id : SocketOK(Disconnected(sock[s][i]))
    BY <2>1 DEF EffectOK, Effect
  <2>4. sock' \in [Side -> [Id -> Socket]]
    BY <2>2, <2>3 DEF TypeOK, SocketOK
  <2>5. \A r \in Side, i \in Id :
          sock'[r][i] = IF r = s THEN Disconnected(sock[s][i]) ELSE sock[r][i]
    BY <2>2 DEF TypeOK
  <2>6. \A r \in Side, i \in Id : sock'[r][i].got <= sock'[r][i].src
    BY <2>3, <2>5 DEF SocketOK, TypeOK
  <2>7. SilentOnlyBySweep'
    <3> SUFFICES ASSUME NEW r \in Side, NEW i \in Id,
                        sock'[r][i].st = "freed", sock'[r][i].hook
                 PROVE  tstate'[r] = "swept"
      BY DEF SilentOnlyBySweep
    <3>1. CASE r # s
      BY <2>2, <2>5, <3>1 DEF SilentOnlyBySweep, TypeOK
    <3>2. CASE r = s
      <4>1. sock[s][i].st = "freed" /\ sock[s][i].hook
        BY <2>1, <2>5, <3>2 DEF EffectOK, Effect
      <4> QED  BY <2>2, <4>1 DEF SilentOnlyBySweep
    <3> QED  BY <3>1, <3>2
  <2> QED  BY <2>2, <2>4, <2>6, <2>7 DEF TypeOK
<1> QED  BY <1>1, <1>2, <1>3, <1>4, <1>5, <1>6, <1>7 DEF Loop

LEMMA SweepOK ==
  ASSUME TypedAndTold, NEW s \in Side, CloseAllSockets(s)
  PROVE  TypedAndTold'
<1> USE DEF TypedAndTold
<1> DEFINE swept(i) == IF sock[s][i].st = "open"
                       THEN local_socket_close_locked(sock[s][i]).so ELSE sock[s][i]
<1>1. /\ sock' = [sock EXCEPT ![s] = [i \in Id |-> swept(i)]]
      /\ tstate' = [tstate EXCEPT ![s] = "swept"] /\ UNCHANGED <<nextId, chan, link, tev>>
  BY DEF CloseAllSockets
<1>2. \A i \in Id : SocketOK(swept(i))
  BY TypedSockets, CloseLocked DEF SocketsOK, CloseFacts
<1>3. \A r \in Side, i \in Id : sock'[r][i] = IF r = s THEN swept(i) ELSE sock[r][i]
  BY <1>1 DEF TypeOK
<1> HIDE DEF swept
<1>4. sock' \in [Side -> [Id -> Socket]]
  BY <1>1, <1>2 DEF TypeOK, SocketOK
<1>5. \A r \in Side, i \in Id : sock'[r][i].got <= sock'[r][i].src
  BY <1>2, <1>3 DEF SocketOK, TypeOK
<1>6. SilentOnlyBySweep'
  BY <1>1, <1>3 DEF SilentOnlyBySweep, TypeOK
<1> QED  BY <1>1, <1>4, <1>5, <1>6 DEF TypeOK

LEMMA EnvironmentOK ==
  ASSUME TypedAndTold, Environment
  PROVE  TypedAndTold'
<1> USE DEF TypedAndTold
<1>1. ASSUME NEW s \in Side, NEW i \in Id, NEW so, SocketOK(so),
             so.st = sock[s][i].st, so.hook = sock[s][i].hook, Client(s, i, so)
      PROVE  TypedAndTold'
  <2>1. /\ sock' \in [Side -> [Id -> Socket]]
        /\ \A r \in Side, j \in Id : sock'[r][j] = IF r = s /\ j = i THEN so ELSE sock[r][j]
    BY <1>1 DEF Client, SocketOK, TypeOK
  <2> QED  BY <1>1, <2>1 DEF Client, SocketOK, TypeOK, SilentOnlyBySweep
<1>2. ASSUME NEW s \in Side, NEW i \in Id PROVE SocketOK(sock[s][i])
  BY <1>2, TypedSockets DEF SocketsOK
<1>3. ASSUME NEW s \in Side, NEW i \in Id, ClientWrite(s, i) PROVE TypedAndTold'
  <2> DEFINE so == [sock[s][i] EXCEPT !.src = @ + 1]
  <2>1. SocketOK(so) /\ so.st = sock[s][i].st /\ so.hook = sock[s][i].hook
    BY SMTT(30), <1>2 DEF SocketOK, Socket
  <2> QED  BY <1>1, <1>3, <2>1 DEF ClientWrite
<1>4. ASSUME NEW s \in Side, NEW i \in Id, ClientRead(s, i) PROVE TypedAndTold'
  <2> DEFINE so == [sock[s][i] EXCEPT !.took = sock[s][i].out]
  <2>1. SocketOK(so) /\ so.st = sock[s][i].st /\ so.hook = sock[s][i].hook
    BY SMTT(30), <1>2 DEF SocketOK, Socket
  <2> QED  BY <1>1, <1>4, <2>1 DEF ClientRead
<1>5. ASSUME NEW s \in Side, NEW i \in Id, NEW how \in Shuts, ClientShut(s, i, how)
      PROVE  TypedAndTold'
  <2> DEFINE so == [sock[s][i] EXCEPT !.shut = how]
  <2>1. SocketOK(so) /\ so.st = sock[s][i].st /\ so.hook = sock[s][i].hook
    BY <1>2, ShutsAssumption DEF SocketOK, Socket
  <2> QED  BY <1>1, <1>5, <2>1 DEF ClientShut
<1>6. CASE BreakLink
  <2>1. /\ link' = "down" /\ UNCHANGED <<sock, nextId, tstate, tev>>
        /\ \E h \in 0 .. Len(chan["host"]), d \in 0 .. Len(chan["device"]) :
             chan' = [s \in Side |-> SubSeq(chan[s], 1, IF s = "host" THEN h ELSE d)]
    BY <1>6 DEF BreakLink
  <2>2. PICK h \in 0 .. Len(chan["host"]), d \in 0 .. Len(chan["device"]) :
          chan' = [s \in Side |-> SubSeq(chan[s], 1, IF s = "host" THEN h ELSE d)]
    BY <2>1
  <2>3. chan["host"] \in Seq(Packet) /\ chan["device"] \in Seq(Packet)
    BY DEF TypeOK, Side
  <2>4. SubSeq(chan["host"], 1, h) \in Seq(Packet)
    BY <2>3, SubSeqProperties
  <2>5. SubSeq(chan["device"], 1, d) \in Seq(Packet)
    BY <2>3, SubSeqProperties
  <2>6. chan' \in [Side -> Seq(Packet)]
    BY <2>2, <2>4, <2>5 DEF Side
  <2> QED  BY <2>1, <2>6 DEF TypeOK, SilentOnlyBySweep
<1> QED  BY <1>3, <1>4, <1>5, <1>6 DEF Environment

LEMMA InitOK == Init => TypedAndTold
BY NoSocketType, EmptySeq, MaxIdAssumption
   DEF Init, TypedAndTold, TypeOK, SilentOnlyBySweep, SocketOK, NoSocket

LEMMA TypedAndToldInvariant == Spec => []TypedAndTold
<1>1. TypedAndTold /\ [Next]_vars => TypedAndTold'
  <2> SUFFICES ASSUME TypedAndTold, [Next]_vars PROVE TypedAndTold'
    OBVIOUS
  <2>1. CASE Next
    BY <2>1, ConnectOK, LoopOK, SweepOK, EnvironmentOK DEF Next
  <2>2. CASE UNCHANGED vars
    BY <2>2 DEF vars, TypedAndTold, TypeOK, SilentOnlyBySweep
  <2> QED  BY <2>1, <2>2
<1> QED  BY <1>1, InitOK, PTL DEF Spec

\* Every reachable state is well typed, whatever the number of sockets, the
\* payload and the buffers: adb never takes more bytes than its client wrote
\* (the length a read passes to send_packet), in all handlers of sockets.c.
THEOREM TypeCorrect == Spec => []TypeOK
BY TypedAndToldInvariant, PTL DEF TypedAndTold

\* A smart-socket client loses its connection without a status only through
\* close_all_sockets: every other close goes through local_socket_close_notify.
THEOREM ToldBeforeFreed == Spec => []SilentOnlyBySweep
BY TypedAndToldInvariant, PTL DEF TypedAndTold

-----------------------------------------------------------------------------
(* The invariant.                                                          *)

Carries(p) == p.cmd \in {"OPEN", "WRTE"}
Binds(p) == p.cmd \in {"OKAY", "WRTE"}

\* One socket: it never faults; without a peer it has no event, no backlog and
\* no bytes; a backlog is one packet, from its peer, and is waited for.
Shape(so) ==
  /\ so.st # "fault"
  /\ so.st # "open" => so.peer = 0 /\ "R" \notin so.want
  /\ so.st \in {"none", "freed"} => so.q = <<>> /\ so.want = {} /\ so.pend = {}
  /\ so.st = "open" =>
       /\ so.pend \subseteq so.want
       /\ "W" \in so.want => so.q # <<>>
       /\ so.q # <<>> => so.q[1].arg0 = so.peer
       /\ so.peer = 0 => so.want = {} /\ so.got = 0 /\ so.out = 0
  /\ so.q # <<>> => /\ Len(so.q) = 1 /\ so.q[1].arg0 # 0
                    /\ so.q[1].upto = so.q[1].off + so.q[1].len

\* Only ids that were given out are in use.
Given(A, B, a, na, nb) ==
  /\ \A i \in Id : i >= na => A[i].st = "none"
  /\ \A i \in Id : A[i].peer < nb
  /\ \A i \in Id : A[i].q # <<>> => A[i].q[1].arg0 < nb
  /\ \A n \in 1 .. Len(a) :
       /\ a[n].cmd # "CLSE" => a[n].arg0 \in 1 .. (nb - 1)
       /\ Binds(a[n]) => a[n].arg1 \in 1 .. (na - 1)

\* No socket of B has two credits: the places of a credit are a packet to A that
\* carries it, an OKAY to B, the backlog of a socket of A, and FDE_READ.
OneSent(a) ==
  \A n, m \in 1 .. Len(a) :
    Carries(a[n]) /\ Carries(a[m]) /\ a[n].arg0 = a[m].arg0 => n = m
OneAcked(b) ==
  \A n, m \in 1 .. Len(b) :
    b[n].cmd = "OKAY" /\ b[m].cmd = "OKAY" /\ b[n].arg1 = b[m].arg1 => n = m
OneHeld(A) ==
  \A i, j \in Id :
    A[i].q # <<>> /\ A[j].q # <<>> /\ A[i].q[1].arg0 = A[j].q[1].arg0 => i = j
SentOrAcked(a, b) ==
  \A n \in 1 .. Len(a), m \in 1 .. Len(b) :
    Carries(a[n]) /\ b[m].cmd = "OKAY" => a[n].arg0 # b[m].arg1
SentOrHeld(A, a) ==
  \A n \in 1 .. Len(a), i \in Id :
    Carries(a[n]) /\ A[i].q # <<>> => a[n].arg0 # A[i].q[1].arg0
AckedOrHeld(A, b) ==
  \A m \in 1 .. Len(b), i \in Id :
    b[m].cmd = "OKAY" /\ A[i].q # <<>> => b[m].arg1 # A[i].q[1].arg0
SentOrReads(B, a) ==
  \A n \in 1 .. Len(a) : Carries(a[n]) => "R" \notin B[a[n].arg0].want
AckedOrReads(B, b) ==
  \A m \in 1 .. Len(b) : b[m].cmd = "OKAY" => "R" \notin B[b[m].arg1].want
HeldOrReads(A, B) ==
  \A i \in Id : A[i].q # <<>> => "R" \notin B[A[i].q[1].arg0].want

OneCredit(A, B, a, b) ==
  /\ OneSent(a) /\ OneAcked(b) /\ OneHeld(A)
  /\ SentOrAcked(a, b) /\ SentOrHeld(A, a) /\ AckedOrHeld(A, b)
  /\ SentOrReads(B, a) /\ AckedOrReads(B, b) /\ HeldOrReads(A, B)

\* Something ties socket i of A to socket k of B.
Ties(A, a, i, k) ==
  \/ A[i].peer = k
  \/ \E n \in 1 .. Len(a) : Binds(a[n]) /\ a[n].arg1 = i /\ a[n].arg0 = k
  \/ A[i].q # <<>> /\ A[i].q[1].arg0 = k

Tied(A, B, a, b, i, k) == Ties(A, a, i, k) \/ Ties(B, b, k, i)

TiedOnce(A, B, a, b) ==
  \A i, k, l \in Id : Tied(A, B, a, b, i, k) /\ Tied(A, B, a, b, i, l) => k = l

\* Nothing is tied to a socket of B before its OPEN is handled.
Unopened(A, B, a, b) ==
  \A n \in 1 .. Len(a), i \in Id :
    a[n].cmd = "OPEN" => ~Tied(A, B, a, b, i, a[n].arg0)

\* The bytes for an open socket come from its peer, or after the OKAY that
\* will bind it.
Announced(A, a) ==
  \A n \in 1 .. Len(a) :
    a[n].cmd = "WRTE" /\ A[a[n].arg1].st = "open" =>
      \/ A[a[n].arg1].peer = a[n].arg0
      \/ \E m \in 1 .. (n - 1) :
           a[m].cmd = "OKAY" /\ a[m].arg0 = a[n].arg0 /\ a[m].arg1 = a[n].arg1

\* The peer of a socket knows it, or is about to.
PeerKnows(A, B, a) ==
  \A i, k \in Id :
    B[k].peer = i /\ A[i].st = "open" =>
      \/ A[i].peer = k
      \/ \E m \in 1 .. Len(a) : a[m].cmd = "OKAY" /\ a[m].arg0 = k /\ a[m].arg1 = i

\* An OKAY names the peer of its sender, unless the sender is closed.
OkayFromPeer(B, a) ==
  \A n \in 1 .. Len(a) :
    a[n].cmd = "OKAY" /\ B[a[n].arg0].st = "open" => B[a[n].arg0].peer = a[n].arg1

\* The packet on its way continues what the socket was given.
Continues(A, a) ==
  \A n \in 1 .. Len(a) :
    a[n].cmd = "WRTE" /\ A[a[n].arg1].st = "open" => a[n].off = Expected(A[a[n].arg1])

\* What socket k of B has read is what socket i of A was given and the packet
\* on its way.
Accounted(A, B, a) ==
  \A i, k \in Id :
    A[i].st = "open" /\ B[k].st = "open" /\ (A[i].peer = k \/ B[k].peer = i) =>
      \/ \E n \in 1 .. Len(a) : /\ a[n].cmd = "WRTE" /\ a[n].arg0 = k
                                /\ B[k].got = a[n].off + a[n].len
      \/ /\ B[k].got = Expected(A[i])
         /\ \A n \in 1 .. Len(a) : ~(a[n].cmd = "WRTE" /\ a[n].arg0 = k)

Half(A, B, a, b, na, nb, up) ==
  /\ \A i \in Id : Shape(A[i])
  /\ Given(A, B, a, na, nb)
  /\ OneCredit(A, B, a, b)
  /\ TiedOnce(A, B, a, b)
  /\ Unopened(A, B, a, b)
  /\ Announced(A, a)
  /\ OkayFromPeer(B, a)
  /\ Continues(A, a)
  /\ up => PeerKnows(A, B, a) /\ Accounted(A, B, a)

Streams(A, B, a, b, na, nb, up) ==
  Half(A, B, a, b, na, nb, up) /\ Half(B, A, b, a, nb, na, up)

-----------------------------------------------------------------------------
(* Facts about the invariant.                                              *)

Tables(A, B, a, b, na, nb) ==
  /\ A \in [Id -> Socket] /\ B \in [Id -> Socket]
  /\ a \in Seq(Packet) /\ b \in Seq(Packet)
  /\ na \in 1 .. (MaxId + 1) /\ nb \in 1 .. (MaxId + 1)

LEMMA TablesSwap ==
  ASSUME NEW A, NEW B, NEW a, NEW b, NEW na, NEW nb, Tables(A, B, a, b, na, nb)
  PROVE  Tables(B, A, b, a, nb, na)
BY DEF Tables

\* Every name in a packet, a queue or a peer is an id.
Named(A, a) ==
  /\ \A n \in 1 .. Len(a) : /\ a[n].cmd # "CLSE" => a[n].arg0 \in Id
                            /\ Binds(a[n]) => a[n].arg1 \in Id
  /\ \A i \in Id : A[i].peer # 0 => A[i].peer \in Id
  /\ \A i \in Id : A[i].q # <<>> => A[i].q[1].arg0 \in Id

LEMMA NamesAreIds ==
  ASSUME NEW A, NEW B, NEW a, NEW b, NEW na, NEW nb, NEW up,
         Tables(A, B, a, b, na, nb), Half(A, B, a, b, na, nb, up)
  PROVE  Named(A, a)
<1>1. /\ \A x \in 1 .. (nb - 1) : x \in Id
      /\ \A x \in 1 .. (na - 1) : x \in Id
  BY MaxIdAssumption DEF Tables, Id
<1>2. \A n \in 1 .. Len(a) : /\ a[n].cmd # "CLSE" => a[n].arg0 \in Id
                             /\ Binds(a[n]) => a[n].arg1 \in Id
  BY <1>1 DEF Half, Given
<1>3. \A i \in Id : A[i].peer # 0 => A[i].peer \in Id
  BY SMTT(30), MaxIdAssumption DEF Tables, Id, Socket
<1>4. ASSUME NEW i \in Id, A[i].q # <<>> PROVE A[i].q[1].arg0 \in Id
  <2>1. A[i].q \in Seq(Entry) /\ Len(A[i].q) = 1
    BY <1>4 DEF Tables, Socket, Half, Shape
  <2>2. A[i].q[1] \in Entry
    BY <2>1
  <2> QED  BY <1>4, <2>2, MaxIdAssumption DEF Entry, Half, Shape, Id
<1> QED  BY <1>2, <1>3, <1>4 DEF Named

\* Ties that are not new keep both parts of the invariant about them.
LEMMA FewerTies ==
  ASSUME NEW A, NEW B, NEW a, NEW b, NEW A2, NEW B2, NEW a2, NEW b2,
         \A i, k \in Id : Tied(A2, B2, a2, b2, i, k) => Tied(A, B, a, b, i, k),
         TiedOnce(A, B, a, b), TiedOnce(B, A, b, a)
  PROVE  TiedOnce(A2, B2, a2, b2) /\ TiedOnce(B2, A2, b2, a2)
<1>1. TiedOnce(A2, B2, a2, b2)
  BY DEF TiedOnce
<1>2. \A i, k \in Id : /\ Tied(B2, A2, b2, a2, k, i) <=> Tied(A2, B2, a2, b2, i, k)
                       /\ Tied(B, A, b, a, k, i) <=> Tied(A, B, a, b, i, k)
  BY DEF Tied
<1> QED  BY <1>1, <1>2 DEF TiedOnce

\* Steps of sockets that change nothing the invariant depends on: events come
\* and go, a backlog is written out.
Same(so, so2, up) ==
  /\ Shape(so2)
  /\ so2.st = so.st /\ so2.peer = so.peer
  /\ so2.q = so.q \/ so2.q = <<>>
  /\ "R" \in so2.want => "R" \in so.want
  /\ so.st = "open" => Expected(so2) = Expected(so) /\ (up => so2.got = so.got)

LEMMA QuietStep ==
  ASSUME NEW A, NEW B, NEW a, NEW b, NEW na, NEW nb, NEW up,
         Tables(A, B, a, b, na, nb), Streams(A, B, a, b, na, nb, up),
         NEW A2 \in [Id -> Socket], \A i \in Id : Same(A[i], A2[i], up)
  PROVE  Streams(A2, B, a, b, na, nb, up)
<1>0. Half(A, B, a, b, na, nb, up) /\ Half(B, A, b, a, nb, na, up)
  BY DEF Streams
<1>g. Named(A, a) /\ Named(B, b)
  BY <1>0, NamesAreIds, TablesSwap
<1>1. \A i \in Id : Shape(A2[i])
  BY DEF Same
<1>2. Given(A2, B, a, na, nb) /\ Given(B, A2, b, nb, na)
  BY <1>0 DEF Half, Given, Same
<1>3. OneCredit(A2, B, a, b)
  BY <1>0 DEF Half, OneCredit, Same, OneHeld, SentOrHeld, AckedOrHeld, HeldOrReads
<1>4. OneCredit(B, A2, b, a)
  BY <1>0, <1>g
    DEF Named, Half, OneCredit, Same, Carries, Binds, SentOrReads, AckedOrReads, HeldOrReads
<1>5. \A i, k \in Id : Tied(A2, B, a, b, i, k) => Tied(A, B, a, b, i, k)
  BY DEF Tied, Ties, Same
<1>6. TiedOnce(A2, B, a, b) /\ TiedOnce(B, A2, b, a)
  BY <1>0, <1>5, FewerTies DEF Half
<1>7. Unopened(A2, B, a, b)
  BY <1>0, <1>5, <1>g DEF Named, Half, Unopened
<1>8. Unopened(B, A2, b, a)
  BY <1>0, <1>5, <1>g DEF Named, Half, Unopened, Tied
<1>9. Announced(A2, a) /\ Announced(B, b)
  BY <1>0, <1>g DEF Named, Half, Announced, Same, Binds
<1>10. OkayFromPeer(B, a) /\ OkayFromPeer(A2, b)
  BY <1>0, <1>g DEF Named, Half, OkayFromPeer, Same, Binds
<1>11. Continues(A2, a) /\ Continues(B, b)
  BY <1>0, <1>g DEF Named, Half, Continues, Same, Binds
<1>12. ASSUME up PROVE PeerKnows(A2, B, a) /\ PeerKnows(B, A2, b)
  BY <1>0, <1>12 DEF Half, PeerKnows, Same
<1>13. ASSUME up PROVE Accounted(A2, B, a)
  BY <1>0, <1>13 DEF Half, Accounted, Same
<1>14. ASSUME up PROVE Accounted(B, A2, b)
  BY <1>0, <1>14 DEF Half, Accounted, Same
<1> QED
  BY <1>0, <1>1, <1>2, <1>3, <1>4, <1>6, <1>7, <1>8, <1>9, <1>10, <1>11, <1>12, <1>13, <1>14
     DEF Streams, Half
-----------------------------------------------------------------------------
(* The channels: a packet is taken from the head of one, or joins the end. *)

\* c2 is c without its head.
Dropped(c, c2) ==
  /\ Len(c) = Len(c2) + 1
  /\ \A n \in 1 .. Len(c2) : c2[n] = c[n + 1]

\* The packets of the shorter channel are those of the longer one but its head.
Shifted(a, a2) ==
  /\ 1 \in 1 .. Len(a)
  /\ \A n \in 1 .. Len(a2) : n + 1 \in 1 .. Len(a) /\ n + 1 # 1 /\ a2[n] = a[n + 1]

Behind(a, a2) ==
  \A n \in 1 .. Len(a) : n = 1 \/ \E m \in 1 .. Len(a2) : n = m + 1 /\ a2[m] = a[n]

LEMMA Dropping ==
  ASSUME NEW a \in Seq(Packet), NEW a2 \in Seq(Packet), a # <<>>, Dropped(a, a2)
  PROVE  Shifted(a, a2) /\ Behind(a, a2)
<1>1. Len(a) \in Nat /\ Len(a2) \in Nat /\ Len(a) >= 1
  OBVIOUS
<1>2. Shifted(a, a2)
  BY <1>1 DEF Dropped, Shifted
<1>3. ASSUME NEW n \in 1 .. Len(a), n # 1
      PROVE  \E m \in 1 .. Len(a2) : n = m + 1 /\ a2[m] = a[n]
  <2>1. n - 1 \in 1 .. Len(a2) /\ n = (n - 1) + 1
    BY <1>1, <1>3 DEF Dropped
  <2>2. a2[n - 1] = a[n]
    BY <2>1 DEF Dropped
  <2> QED  BY <2>1, <2>2
<1> QED  BY <1>2, <1>3 DEF Behind

\* What every packet satisfies, and what no two packets do, is kept.
LEMMA DropKeeps ==
  ASSUME NEW A, NEW B, NEW a, NEW a2, NEW b, Shifted(a, a2)
  PROVE  /\ OneSent(a) => OneSent(a2)
         /\ OneAcked(a) => OneAcked(a2)
         /\ SentOrAcked(a, b) => SentOrAcked(a2, b)
         /\ SentOrAcked(b, a) => SentOrAcked(b, a2)
         /\ SentOrHeld(A, a) => SentOrHeld(A, a2)
         /\ AckedOrHeld(A, a) => AckedOrHeld(A, a2)
         /\ SentOrReads(A, a) => SentOrReads(A, a2)
         /\ AckedOrReads(A, a) => AckedOrReads(A, a2)
         /\ Named(A, a) => Named(A, a2)
         /\ OkayFromPeer(B, a) => OkayFromPeer(B, a2)
         /\ Continues(A, a) => Continues(A, a2)
<1>1. ASSUME OneSent(a) PROVE OneSent(a2)
  <2> SUFFICES ASSUME NEW n \in 1 .. Len(a2), NEW m \in 1 .. Len(a2),
                      Carries(a2[n]), Carries(a2[m]), a2[n].arg0 = a2[m].arg0
               PROVE  n = m
    BY DEF OneSent
  <2>1. /\ n + 1 \in 1 .. Len(a) /\ a2[n] = a[n + 1]
        /\ m + 1 \in 1 .. Len(a) /\ a2[m] = a[m + 1]
    BY DEF Shifted
  <2>2. n + 1 = m + 1
    BY <1>1, <2>1 DEF OneSent
  <2> QED  BY <2>2
<1>2. ASSUME OneAcked(a) PROVE OneAcked(a2)
  <2> SUFFICES ASSUME NEW n \in 1 .. Len(a2), NEW m \in 1 .. Len(a2),
                      a2[n].cmd = "OKAY", a2[m].cmd = "OKAY", a2[n].arg1 = a2[m].arg1
               PROVE  n = m
    BY DEF OneAcked
  <2>1. /\ n + 1 \in 1 .. Len(a) /\ a2[n] = a[n + 1]
        /\ m + 1 \in 1 .. Len(a) /\ a2[m] = a[m + 1]
    BY DEF Shifted
  <2>2. n + 1 = m + 1
    BY <1>2, <2>1 DEF OneAcked
  <2> QED  BY <2>2
<1>3. SentOrAcked(a, b) => SentOrAcked(a2, b)
  BY DEF SentOrAcked, Shifted
<1>4. SentOrAcked(b, a) => SentOrAcked(b, a2)
  BY DEF SentOrAcked, Shifted
<1>5. /\ SentOrHeld(A, a) => SentOrHeld(A, a2)
      /\ AckedOrHeld(A, a) => AckedOrHeld(A, a2)
  BY DEF SentOrHeld, AckedOrHeld, Shifted
<1>6. /\ SentOrReads(A, a) => SentOrReads(A, a2)
      /\ AckedOrReads(A, a) => AckedOrReads(A, a2)
  BY DEF SentOrReads, AckedOrReads, Shifted
<1>7. Named(A, a) => Named(A, a2)
  BY DEF Named, Shifted
<1>8. OkayFromPeer(B, a) => OkayFromPeer(B, a2)
  BY DEF OkayFromPeer, Shifted
<1>9. Continues(A, a) => Continues(A, a2)
  BY DEF Continues, Shifted
<1> QED  BY <1>1, <1>2, <1>3, <1>4, <1>5, <1>6, <1>7, <1>8, <1>9

\* b2 is b with p at its end, or b itself when the link is down and p is lost.
Extended(b, b2, p, up) ==
  /\ \A n \in 1 .. Len(b2) : (n \in 1 .. Len(b) /\ b2[n] = b[n]) \/ (n = Len(b) + 1 /\ b2[n] = p)
  /\ \A n \in 1 .. Len(b) : n \in 1 .. Len(b2) /\ b2[n] = b[n]
  /\ IF up THEN \E n \in 1 .. Len(b2) : n = Len(b) + 1 /\ b2[n] = p ELSE b2 = b

LEMMA Sending ==
  ASSUME NEW b \in Seq(Packet), NEW p \in Packet, NEW up \in BOOLEAN
  PROVE  LET b2 == IF up THEN b \o <<p>> ELSE b
         IN  b2 \in Seq(Packet) /\ Extended(b, b2, p, up)
<1>1. Len(b) \in Nat
  OBVIOUS
<1>2. CASE up
  <2>1. /\ b \o <<p>> \in Seq(Packet) /\ Len(b \o <<p>>) = Len(b) + 1
        /\ \A n \in 1 .. (Len(b) + 1) : (b \o <<p>>)[n] = IF n <= Len(b) THEN b[n] ELSE p
    BY <1>1
  <2> QED  BY <1>1, <1>2, <2>1 DEF Extended
<1>3. CASE ~up
  BY <1>3 DEF Extended
<1> QED  BY <1>2, <1>3

\* The OKAY that announces a WRTE stays ahead of it.
LEMMA JoinAnnounced ==
  ASSUME NEW B, NEW b \in Seq(Packet), NEW b2, NEW p, NEW up, Extended(b, b2, p, up),
         Announced(B, b),
         p.cmd = "WRTE" /\ B[p.arg1].st = "open" =>
           \/ B[p.arg1].peer = p.arg0
           \/ \E m \in 1 .. Len(b) : b[m].cmd = "OKAY" /\ b[m].arg0 = p.arg0 /\ b[m].arg1 = p.arg1
  PROVE  Announced(B, b2)
<1> SUFFICES ASSUME NEW n \in 1 .. Len(b2), b2[n].cmd = "WRTE", B[b2[n].arg1].st = "open",
                    B[b2[n].arg1].peer # b2[n].arg0
             PROVE  \E m \in 1 .. (n - 1) :
                      b2[m].cmd = "OKAY" /\ b2[m].arg0 = b2[n].arg0 /\ b2[m].arg1 = b2[n].arg1
  BY DEF Announced
<1>1. Len(b) \in Nat
  OBVIOUS
<1>2. CASE n \in 1 .. Len(b) /\ b2[n] = b[n]
  <2>1. \A m \in 1 .. (n - 1) : m \in 1 .. Len(b)
    BY <1>1, <1>2
  <2> QED  BY <1>1, <1>2, <2>1 DEF Announced, Extended
<1>3. CASE n = Len(b) + 1 /\ b2[n] = p
  <2>1. n - 1 = Len(b)
    BY <1>1, <1>3
  <2> QED  BY <1>1, <1>3, <2>1 DEF Extended
<1> QED  BY <1>1, <1>2, <1>3 DEF Extended

-----------------------------------------------------------------------------
(* The steps the handlers are made of.                                     *)

\* One socket changes.
Changed(A, A2, i, so) == \A j \in Id : A2[j] = IF j = i THEN so ELSE A[j]

\* Socket k of B has no credit, or has it as FDE_READ.
Spent(A, a, b, k) ==
  /\ \A n \in 1 .. Len(a) : Carries(a[n]) => a[n].arg0 # k
  /\ \A n \in 1 .. Len(b) : b[n].cmd = "OKAY" => b[n].arg1 # k
  /\ \A i \in Id : A[i].q # <<>> => A[i].q[1].arg0 # k

\* Sockets are closed: they are untied, and their backlog stays or goes.
Ends(so, so2) ==
  /\ Shape(so2)
  /\ so.st \in {"open", "closing"} /\ so2.st \in {"closing", "freed"}
  /\ so2.q = so.q \/ so2.q = <<>>

LEMMA EndStep ==
  ASSUME NEW A, NEW B, NEW a, NEW b, NEW na, NEW nb, NEW up,
         Tables(A, B, a, b, na, nb), Streams(A, B, a, b, na, nb, up),
         NEW A2 \in [Id -> Socket], \A i \in Id : A2[i] = A[i] \/ Ends(A[i], A2[i])
  PROVE  Streams(A2, B, a, b, na, nb, up)
<1>0. Half(A, B, a, b, na, nb, up) /\ Half(B, A, b, a, nb, na, up)
  BY DEF Streams
<1>g. Named(A, a) /\ Named(B, b)
  BY <1>0, NamesAreIds, TablesSwap
<1>t. /\ 0 \notin Id /\ na \in Nat \ {0} /\ nb \in Nat \ {0}
      /\ Len(a) \in Nat /\ Len(b) \in Nat
  BY MaxIdAssumption DEF Tables, Id
<1>1. \A i \in Id : Shape(A2[i])
  BY <1>0 DEF Half, Ends, Shape
<1>2. Given(A2, B, a, na, nb)
  BY <1>0, <1>g, <1>t DEF Half, Given, Named, Binds, Ends, Shape
<1>3. Given(B, A2, b, nb, na)
  BY <1>0, <1>g, <1>t DEF Half, Given, Named, Binds, Ends, Shape
<1>4. OneCredit(A2, B, a, b)
  <2>1. OneHeld(A2)
    BY <1>0, <1>g DEF Half, OneCredit, Named, OneHeld, Ends, Shape
  <2>2. SentOrHeld(A2, a)
    BY <1>0, <1>g DEF Half, OneCredit, Named, SentOrHeld, Carries, Ends, Shape
  <2>3. AckedOrHeld(A2, b)
    BY <1>0, <1>g DEF Half, OneCredit, Named, AckedOrHeld, Binds, Ends, Shape
  <2>4. HeldOrReads(A2, B)
    BY SMTT(30), <1>0, <1>g DEF Half, OneCredit, Named, HeldOrReads, Ends, Shape
  <2> QED  BY <1>0, <2>1, <2>2, <2>3, <2>4 DEF Half, OneCredit
<1>5. OneCredit(B, A2, b, a)
  <2>1. SentOrReads(A2, b)
    BY <1>0, <1>g DEF Half, OneCredit, Named, SentOrReads, Carries, Ends, Shape
  <2>2. AckedOrReads(A2, a)
    BY <1>0, <1>g DEF Half, OneCredit, Named, AckedOrReads, Binds, Ends, Shape
  <2>3. HeldOrReads(B, A2)
    BY <1>0, <1>g DEF Half, OneCredit, Named, HeldOrReads, Ends, Shape
  <2> QED  BY <1>0, <2>1, <2>2, <2>3 DEF Half, OneCredit
<1>6. \A i, k \in Id : Tied(A2, B, a, b, i, k) => Tied(A, B, a, b, i, k)
  BY SMTT(30), <1>0, <1>g, <1>t DEF Half, Named, Tied, Ties, Binds, Ends, Shape
<1>7. TiedOnce(A2, B, a, b) /\ TiedOnce(B, A2, b, a)
  BY <1>0, <1>6, FewerTies DEF Half
<1>8. Unopened(A2, B, a, b)
  BY <1>0, <1>6, <1>g DEF Named, Half, Unopened, Ends, Shape
<1>9. Unopened(B, A2, b, a)
  BY <1>0, <1>6, <1>g DEF Named, Half, Unopened, Tied, Ends, Shape
<1>10. Announced(A2, a)
  BY <1>0, <1>g DEF Named, Half, Announced, Binds, Ends, Shape
<1>11. Announced(B, b)
  BY <1>0 DEF Half
<1>12. OkayFromPeer(B, a)
  BY <1>0 DEF Half
<1>13. OkayFromPeer(A2, b)
  BY <1>0, <1>g DEF Named, Half, OkayFromPeer, Binds, Ends, Shape
<1>14. Continues(A2, a)
  BY <1>0, <1>g DEF Named, Half, Continues, Binds, Ends, Shape
<1>15. Continues(B, b)
  BY <1>0 DEF Half
<1>16. ASSUME up PROVE PeerKnows(A2, B, a)
  BY <1>0, <1>16, <1>g, <1>t DEF Named, Half, PeerKnows, Binds, Ends, Shape
<1>17. ASSUME up PROVE PeerKnows(B, A2, b)
  BY <1>0, <1>17, <1>g, <1>t DEF Named, Half, PeerKnows, Binds, Ends, Shape
<1>18. ASSUME up PROVE Accounted(A2, B, a)
  BY <1>0, <1>18, <1>g DEF Named, Half, Accounted, Binds, Ends, Shape
<1>19. ASSUME up PROVE Accounted(B, A2, b)
  BY <1>0, <1>19, <1>g DEF Named, Half, Accounted, Binds, Ends, Shape
<1> QED
  BY <1>1, <1>2, <1>3, <1>4, <1>5, <1>7, <1>8, <1>9, <1>10, <1>11, <1>12, <1>13, <1>14, <1>15,
     <1>16, <1>17, <1>18, <1>19 DEF Streams, Half

\* A CLSE is sent.
LEMMA ClseStep ==
  ASSUME NEW A, NEW B, NEW a, NEW b, NEW na, NEW nb, NEW up,
         Tables(A, B, a, b, na, nb), Streams(A, B, a, b, na, nb, up),
         NEW b2 \in Seq(Packet), NEW p, p.cmd = "CLSE", Extended(b, b2, p, up)
  PROVE  Streams(A, B, a, b2, na, nb, up)
<1>0. Half(A, B, a, b, na, nb, up) /\ Half(B, A, b, a, nb, na, up)
  BY DEF Streams
<1>g. Named(A, a) /\ Named(B, b)
  BY <1>0, NamesAreIds, TablesSwap
<1>t. /\ 0 \notin Id /\ na \in Nat \ {0} /\ nb \in Nat \ {0}
      /\ Len(a) \in Nat /\ Len(b) \in Nat
  BY MaxIdAssumption DEF Tables, Id
<1>1. \A i \in Id : Shape(A[i])
  BY <1>0 DEF Half
<1>2. Given(A, B, a, na, nb)
  BY <1>0, <1>g, <1>t DEF Half, Given, Named, Binds, Extended
<1>3. Given(B, A, b2, nb, na)
  BY <1>0, <1>g, <1>t DEF Half, Given, Named, Binds, Extended
<1>4. OneCredit(A, B, a, b2)
  <2>1. OneAcked(b2)
    BY <1>0, <1>g DEF Half, OneCredit, Named, OneAcked, Binds, Extended
  <2>2. SentOrAcked(a, b2)
    BY <1>0, <1>g DEF Half, OneCredit, Named, SentOrAcked, Carries, Binds, Extended
  <2>3. AckedOrHeld(A, b2)
    BY <1>0, <1>g DEF Half, OneCredit, Named, AckedOrHeld, Binds, Extended
  <2>4. AckedOrReads(B, b2)
    BY <1>0, <1>g DEF Half, OneCredit, Named, AckedOrReads, Binds, Extended
  <2> QED  BY <1>0, <2>1, <2>2, <2>3, <2>4 DEF Half, OneCredit
<1>5. OneCredit(B, A, b2, a)
  <2>1. OneSent(b2)
    BY <1>0, <1>g DEF Half, OneCredit, Named, OneSent, Carries, Extended
  <2>2. SentOrAcked(b2, a)
    BY <1>0, <1>g DEF Half, OneCredit, Named, SentOrAcked, Carries, Binds, Extended
  <2>3. SentOrHeld(B, b2)
    BY <1>0, <1>g DEF Half, OneCredit, Named, SentOrHeld, Carries, Extended
  <2>4. SentOrReads(A, b2)
    BY <1>0, <1>g DEF Half, OneCredit, Named, SentOrReads, Carries, Extended
  <2> QED  BY <1>0, <2>1, <2>2, <2>3, <2>4 DEF Half, OneCredit
<1>6. \A i, k \in Id : Tied(A, B, a, b2, i, k) => Tied(A, B, a, b, i, k)
  BY <1>0, <1>g, <1>t DEF Half, Named, Tied, Ties, Binds, Extended
<1>7. TiedOnce(A, B, a, b2) /\ TiedOnce(B, A, b2, a)
  BY <1>0, <1>6, FewerTies DEF Half
<1>8. Unopened(A, B, a, b2)
  BY <1>0, <1>6, <1>g DEF Named, Half, Unopened, Extended
<1>9. Unopened(B, A, b2, a)
  BY <1>0, <1>6, <1>g DEF Named, Half, Unopened, Tied, Extended
<1>10. Announced(A, a)
  BY <1>0 DEF Half
<1>11. Announced(B, b2)
  BY <1>0, JoinAnnounced DEF Tables, Half
<1>12. OkayFromPeer(B, a)
  BY <1>0 DEF Half
<1>13. OkayFromPeer(A, b2)
  BY <1>0, <1>g DEF Named, Half, OkayFromPeer, Binds, Extended
<1>14. Continues(A, a)
  BY <1>0 DEF Half
<1>15. Continues(B, b2)
  BY <1>0, <1>g DEF Named, Half, Continues, Binds, Extended
<1>16. ASSUME up PROVE PeerKnows(A, B, a)
  BY <1>0, <1>16, <1>g, <1>t DEF Named, Half, PeerKnows, Binds, Extended
<1>17. ASSUME up PROVE PeerKnows(B, A, b2)
  BY SMTT(30), <1>0, <1>17, <1>g, <1>t DEF Named, Half, PeerKnows, Binds, Extended
<1>18. ASSUME up PROVE Accounted(A, B, a)
  BY <1>0, <1>18, <1>g DEF Named, Half, Accounted, Binds, Extended
<1>19. ASSUME up PROVE Accounted(B, A, b2)
  BY <1>0, <1>19, <1>g DEF Named, Half, Accounted, Binds, Extended
<1> QED
  BY <1>1, <1>2, <1>3, <1>4, <1>5, <1>7, <1>8, <1>9, <1>10, <1>11, <1>12, <1>13, <1>14, <1>15,
     <1>16, <1>17, <1>18, <1>19 DEF Streams, Half

\* A packet that finds no open socket is dropped, or an OPEN is refused.
LEMMA StaleStep ==
  ASSUME NEW A, NEW B, NEW a, NEW b, NEW na, NEW nb, NEW up,
         Tables(A, B, a, b, na, nb), Streams(A, B, a, b, na, nb, up),
         NEW a2 \in Seq(Packet), a # <<>>, Dropped(a, a2),
         Binds(a[1]) => A[a[1].arg1].st # "open"
  PROVE  Streams(A, B, a2, b, na, nb, up)
<1>0. Half(A, B, a, b, na, nb, up) /\ Half(B, A, b, a, nb, na, up)
  BY DEF Streams
<1>g. Named(A, a) /\ Named(B, b)
  BY <1>0, NamesAreIds, TablesSwap
<1>t. /\ 0 \notin Id /\ na \in Nat \ {0} /\ nb \in Nat \ {0}
      /\ Len(a) \in Nat /\ Len(b) \in Nat
  BY MaxIdAssumption DEF Tables, Id
<1>d. Shifted(a, a2) /\ Behind(a, a2)
  BY Dropping DEF Tables
<1>h. Named(A, a2)
  BY <1>d, <1>g, DropKeeps
<1>1. \A i \in Id : Shape(A[i])
  BY <1>0 DEF Half
<1>2. Given(A, B, a2, na, nb)
  BY <1>0, <1>g, <1>t, <1>d DEF Half, Given, Named, Binds, Shifted
<1>3. Given(B, A, b, nb, na)
  BY <1>0, <1>g, <1>t, <1>d DEF Half, Given, Named, Binds, Shifted
<1>4. OneCredit(A, B, a2, b)
  <2>1. OneSent(a2) /\ SentOrAcked(a2, b) /\ SentOrHeld(A, a2) /\ SentOrReads(B, a2)
    BY <1>0, <1>d, DropKeeps DEF Half, OneCredit
  <2> QED  BY <1>0, <2>1 DEF Half, OneCredit
<1>5. OneCredit(B, A, b, a2)
  <2>1. OneAcked(a2) /\ SentOrAcked(b, a2) /\ AckedOrHeld(B, a2) /\ AckedOrReads(A, a2)
    BY <1>0, <1>d, DropKeeps DEF Half, OneCredit
  <2> QED  BY <1>0, <2>1 DEF Half, OneCredit
<1>6. \A i, k \in Id : Tied(A, B, a2, b, i, k) => Tied(A, B, a, b, i, k)
  BY <1>0, <1>g, <1>t, <1>d DEF Half, Named, Tied, Ties, Binds, Shifted
<1>7. TiedOnce(A, B, a2, b) /\ TiedOnce(B, A, b, a2)
  BY <1>0, <1>6, FewerTies DEF Half
<1>8. Unopened(A, B, a2, b)
  BY <1>0, <1>6, <1>g, <1>d DEF Named, Half, Unopened, Shifted
<1>9. Unopened(B, A, b, a2)
  BY <1>0, <1>6, <1>g, <1>d DEF Named, Half, Unopened, Tied, Shifted
<1>10. Announced(A, a2)
  <2> SUFFICES ASSUME NEW n \in 1 .. Len(a2), a2[n].cmd = "WRTE", A[a2[n].arg1].st = "open",
                      A[a2[n].arg1].peer # a2[n].arg0
               PROVE  \E m \in 1 .. (n - 1) :
                        a2[m].cmd = "OKAY" /\ a2[m].arg0 = a2[n].arg0 /\ a2[m].arg1 = a2[n].arg1
    BY DEF Announced
  <2>1. n + 1 \in 1 .. Len(a) /\ a2[n] = a[n + 1]
    BY <1>d DEF Shifted
  <2>2. PICK m \in 1 .. n :
          a[m].cmd = "OKAY" /\ a[m].arg0 = a2[n].arg0 /\ a[m].arg1 = a2[n].arg1
    BY <1>0, <2>1 DEF Half, Announced
  <2>3. m # 1
    BY <2>2 DEF Binds
  <2>4. m - 1 \in 1 .. (n - 1) /\ a2[m - 1] = a[m]
    BY <1>t, <2>3 DEF Dropped
  <2> QED  BY <2>2, <2>4
<1>11. Announced(B, b)
  BY <1>0 DEF Half
<1>12. OkayFromPeer(B, a2)
  BY <1>0, <1>d, DropKeeps DEF Half
<1>13. OkayFromPeer(A, b)
  BY <1>0 DEF Half
<1>14. Continues(A, a2)
  BY <1>0, <1>d, DropKeeps DEF Half
<1>15. Continues(B, b)
  BY <1>0 DEF Half
<1>16. ASSUME up PROVE PeerKnows(A, B, a2)
  <2> SUFFICES ASSUME NEW i \in Id, NEW k \in Id, B[k].peer = i, A[i].st = "open", A[i].peer # k
               PROVE  \E m \in 1 .. Len(a2) : a2[m].cmd = "OKAY" /\ a2[m].arg0 = k /\ a2[m].arg1 = i
    BY DEF PeerKnows
  <2>1. PICK n \in 1 .. Len(a) : a[n].cmd = "OKAY" /\ a[n].arg0 = k /\ a[n].arg1 = i
    BY <1>0, <1>16 DEF Half, PeerKnows
  <2>2. n # 1
    BY <2>1 DEF Binds
  <2> QED  BY <1>d, <2>1, <2>2 DEF Behind
<1>17. ASSUME up PROVE PeerKnows(B, A, b)
  BY <1>0, <1>17, <1>g, <1>t, <1>d DEF Named, Half, PeerKnows, Binds, Shifted
<1>18. ASSUME up PROVE Accounted(A, B, a2)
  <2> SUFFICES ASSUME NEW i \in Id, NEW k \in Id, A[i].st = "open", B[k].st = "open",
                      A[i].peer = k \/ B[k].peer = i,
                      ~ \E n \in 1 .. Len(a2) : /\ a2[n].cmd = "WRTE" /\ a2[n].arg0 = k
                                                /\ B[k].got = a2[n].off + a2[n].len
               PROVE  /\ B[k].got = Expected(A[i])
                      /\ \A n \in 1 .. Len(a2) : ~(a2[n].cmd = "WRTE" /\ a2[n].arg0 = k)
    BY DEF Accounted
  <2>1. ~(a[1].cmd = "WRTE" /\ a[1].arg0 = k)
    <3> SUFFICES ASSUME a[1].cmd = "WRTE", a[1].arg0 = k PROVE FALSE
      OBVIOUS
    <3>1. Tied(A, B, a, b, i, k)
      BY DEF Tied, Ties
    <3>2. a[1].arg1 \in Id /\ Tied(A, B, a, b, a[1].arg1, k)
      BY <1>d, <1>g DEF Shifted, Named, Tied, Ties, Binds
    <3>3. a[1].arg1 = i
      BY <1>0, <3>1, <3>2 DEF Half, TiedOnce, Tied
    <3> QED  BY <3>3 DEF Binds
  <2>2. \/ \E n \in 1 .. Len(a) : /\ a[n].cmd = "WRTE" /\ a[n].arg0 = k
                                  /\ B[k].got = a[n].off + a[n].len
        \/ /\ B[k].got = Expected(A[i])
           /\ \A n \in 1 .. Len(a) : ~(a[n].cmd = "WRTE" /\ a[n].arg0 = k)
    BY <1>0, <1>18 DEF Half, Accounted
  <2>3. ~ \E n \in 1 .. Len(a) : /\ a[n].cmd = "WRTE" /\ a[n].arg0 = k
                                 /\ B[k].got = a[n].off + a[n].len
    BY <1>d, <2>1 DEF Behind
  <2> QED  BY <1>d, <2>2, <2>3 DEF Shifted
<1>19. ASSUME up PROVE Accounted(B, A, b)
  BY <1>0, <1>19, <1>g, <1>d DEF Named, Half, Accounted, Binds, Shifted
<1> QED
  BY <1>1, <1>2, <1>3, <1>4, <1>5, <1>7, <1>8, <1>9, <1>10, <1>11, <1>12, <1>13, <1>14, <1>15,
     <1>16, <1>17, <1>18, <1>19 DEF Streams, Half

\* A_OKAY at the head, for an open socket: it is bound and listens again.
Woken(so, so2, k) ==
  /\ Shape(so2)
  /\ so2.st = "open" /\ so2.q = so.q /\ so2.got = so.got /\ so2.out = so.out
  /\ so2.peer = (IF so.peer = 0 THEN k ELSE so.peer)
  /\ so2.want = so.want \union {"R"}

LEMMA OkayStep ==
  ASSUME NEW A, NEW B, NEW a, NEW b, NEW na, NEW nb, NEW up,
         Tables(A, B, a, b, na, nb), Streams(A, B, a, b, na, nb, up),
         NEW a2 \in Seq(Packet), a # <<>>, Dropped(a, a2), a[1].cmd = "OKAY",
         NEW i \in Id, i = a[1].arg1, A[i].st = "open",
         NEW so, Woken(A[i], so, a[1].arg0),
         NEW A2 \in [Id -> Socket], Changed(A, A2, i, so)
  PROVE  Streams(A2, B, a2, b, na, nb, up)
<1>0. Half(A, B, a, b, na, nb, up) /\ Half(B, A, b, a, nb, na, up)
  BY DEF Streams
<1>g. Named(A, a) /\ Named(B, b)
  BY <1>0, NamesAreIds, TablesSwap
<1>t. /\ 0 \notin Id /\ na \in Nat \ {0} /\ nb \in Nat \ {0}
      /\ Len(a) \in Nat /\ Len(b) \in Nat
  BY MaxIdAssumption DEF Tables, Id
<1>d. Shifted(a, a2) /\ Behind(a, a2)
  BY Dropping DEF Tables
<1>h. Named(A, a2)
  BY <1>d, <1>g, DropKeeps
<1>k. /\ a[1].arg0 \in Id /\ Ties(A, a, i, a[1].arg0)
      /\ B[a[1].arg0].st = "open" => B[a[1].arg0].peer = i
  BY <1>0, <1>g, <1>d DEF Half, Named, Binds, Ties, OkayFromPeer, Shifted
<1>r. so.peer = a[1].arg0
  <2> SUFFICES ASSUME A[i].peer # 0 PROVE A[i].peer = a[1].arg0
    BY DEF Woken
  <2>1. A[i].peer \in Id /\ Ties(A, a, i, A[i].peer)
    BY <1>g DEF Named, Ties
  <2> QED  BY <1>0, <1>k, <2>1 DEF Half, TiedOnce, Tied
<1>w. /\ \A j \in Id : /\ A2[j].st = A[j].st /\ A2[j].q = A[j].q /\ A2[j].got = A[j].got
                       /\ Expected(A2[j]) = Expected(A[j])
                       /\ j # i => A2[j].peer = A[j].peer /\ A2[j].want = A[j].want
      /\ A2[i].peer = a[1].arg0 /\ (A[i].peer # 0 => A2[i].peer = A[i].peer)
      /\ \A j \in Id : Shape(A2[j])
  BY <1>0, <1>r DEF Changed, Woken, Expected, Half
<1>c. Spent(B, b, a2, i)
  <2>1. \A n \in 1 .. Len(a2) : a2[n].cmd = "OKAY" => a2[n].arg1 # i
    BY <1>0, <1>d DEF Half, OneCredit, OneAcked, Shifted
  <2> QED  BY <1>0, <1>d, <2>1 DEF Half, OneCredit, SentOrAcked, AckedOrHeld, Spent, Shifted
<1>l. \A j, k \in Id : A2[j].peer = k /\ B[k].st = "open" => A[j].peer = k \/ B[k].peer = j
  BY <1>k, <1>w
<1>1. \A j \in Id : Shape(A2[j])
  BY <1>0, <1>w DEF Half
<1>2. Given(A2, B, a2, na, nb)
  <2>1. \A n \in 1 .. Len(a2) : /\ a2[n].cmd # "CLSE" => a2[n].arg0 \in 1 .. (nb - 1)
                                /\ Binds(a2[n]) => a2[n].arg1 \in 1 .. (na - 1)
    BY <1>0, <1>d DEF Half, Given, Shifted
  <2>2. a[1].arg0 < nb
    BY <1>0, <1>d, <1>t DEF Half, Given, Shifted
  <2>3. \A j \in Id : /\ j >= na => A2[j].st = "none"
                      /\ A2[j].peer < nb
                      /\ A2[j].q # <<>> => A2[j].q[1].arg0 < nb
    BY <1>0, <1>w, <2>2 DEF Half, Given
  <2> QED  BY <2>1, <2>3 DEF Given
<1>3. Given(B, A2, b, nb, na)
  BY <1>0, <1>g, <1>t, <1>w DEF Half, Given, Named, Binds
<1>4. OneCredit(A2, B, a2, b)
  <2>1. OneHeld(A2)
    BY <1>0, <1>g, <1>w DEF Half, OneCredit, Named, OneHeld
  <2>2. SentOrHeld(A2, a2)
    <3>1. SentOrHeld(A, a2)
      BY <1>0, <1>d, DropKeeps DEF Half, OneCredit
    <3> QED  BY <1>w, <3>1 DEF SentOrHeld
  <2>3. AckedOrHeld(A2, b)
    BY <1>0, <1>g, <1>w DEF Half, OneCredit, Named, AckedOrHeld, Binds
  <2>4. HeldOrReads(A2, B)
    BY <1>0, <1>g, <1>w DEF Half, OneCredit, Named, HeldOrReads
  <2>5. OneSent(a2) /\ SentOrAcked(a2, b) /\ SentOrReads(B, a2)
    BY <1>0, <1>d, DropKeeps DEF Half, OneCredit
  <2> QED  BY <1>0, <2>1, <2>2, <2>3, <2>4, <2>5 DEF Half, OneCredit
<1>5. OneCredit(B, A2, b, a2)
  <2>1. SentOrReads(A2, b)
    BY <1>0, <1>g, <1>w, <1>c DEF Spent, Half, OneCredit, Named, SentOrReads, Carries
  <2>2. AckedOrReads(A2, a2)
    <3> SUFFICES ASSUME NEW m \in 1 .. Len(a2), a2[m].cmd = "OKAY"
                 PROVE  "R" \notin A2[a2[m].arg1].want
      BY DEF AckedOrReads
    <3>1. a2[m].arg1 \in Id /\ a2[m].arg1 # i
      BY <1>c, <1>h DEF Named, Spent, Binds
    <3>2. "R" \notin A[a2[m].arg1].want
      BY <1>0, <1>d DEF Half, OneCredit, AckedOrReads, Shifted
    <3> QED  BY <1>w, <3>1, <3>2
  <2>3. HeldOrReads(B, A2)
    BY <1>0, <1>g, <1>w, <1>c DEF Spent, Half, OneCredit, Named, HeldOrReads
  <2>4. OneAcked(a2) /\ SentOrAcked(b, a2) /\ AckedOrHeld(B, a2)
    BY <1>0, <1>d, DropKeeps DEF Half, OneCredit
  <2> QED  BY <1>0, <2>1, <2>2, <2>3, <2>4 DEF Half, OneCredit
<1>6. \A j, l \in Id : Tied(A2, B, a2, b, j, l) => Tied(A, B, a, b, j, l)
  <2>1. ASSUME NEW j \in Id, NEW k \in Id, Ties(A2, a2, j, k) PROVE Ties(A, a, j, k)
    <3>1. CASE A2[j].peer = k /\ j = i
      BY <1>k, <1>w, <3>1
    <3>2. CASE ~(A2[j].peer = k /\ j = i)
      BY <1>d, <1>w, <2>1, <3>2 DEF Ties, Shifted
    <3> QED  BY <3>1, <3>2
  <2> QED  BY <2>1 DEF Tied
<1>7. TiedOnce(A2, B, a2, b) /\ TiedOnce(B, A2, b, a2)
  BY <1>0, <1>6, FewerTies DEF Half
<1>8. Unopened(A2, B, a2, b)
  BY SMTT(30), <1>0, <1>6, <1>g, <1>d DEF Named, Half, Unopened, Shifted
<1>9. Unopened(B, A2, b, a2)
  BY <1>0, <1>6, <1>g DEF Named, Half, Unopened, Tied
<1>10. Announced(A2, a2)
  <2> SUFFICES ASSUME NEW n \in 1 .. Len(a2), a2[n].cmd = "WRTE", A2[a2[n].arg1].st = "open",
                      A2[a2[n].arg1].peer # a2[n].arg0
               PROVE  \E m \in 1 .. (n - 1) :
                        a2[m].cmd = "OKAY" /\ a2[m].arg0 = a2[n].arg0 /\ a2[m].arg1 = a2[n].arg1
    BY DEF Announced
  <2>1. n + 1 \in 1 .. Len(a) /\ a2[n] = a[n + 1] /\ a2[n].arg1 \in Id /\ a2[n].arg0 \in Id
    BY <1>d, <1>h DEF Named, Binds, Shifted
  <2>2. a2[n].arg1 # i
    <3> SUFFICES ASSUME a2[n].arg1 = i PROVE FALSE
      OBVIOUS
    <3>1. Ties(A, a, i, a2[n].arg0)
      BY <2>1 DEF Ties, Binds
    <3> QED  BY <1>0, <1>k, <1>w, <2>1, <3>1 DEF Half, TiedOnce, Tied
  <2>3. PICK m \in 1 .. n :
          a[m].cmd = "OKAY" /\ a[m].arg0 = a2[n].arg0 /\ a[m].arg1 = a2[n].arg1
    BY <1>0, <1>w, <2>1, <2>2 DEF Half, Announced
  <2>4. m # 1
    BY <2>2, <2>3
  <2>5. m - 1 \in 1 .. (n - 1) /\ a2[m - 1] = a[m]
    BY <1>t, <2>4 DEF Dropped
  <2> QED  BY <2>3, <2>5
<1>11. Announced(B, b)
  BY <1>0 DEF Half
<1>12. OkayFromPeer(B, a2)
  BY <1>0, <1>d, DropKeeps DEF Half
<1>13. OkayFromPeer(A2, b)
  <2> SUFFICES ASSUME NEW n \in 1 .. Len(b), b[n].cmd = "OKAY", A2[b[n].arg0].st = "open"
               PROVE  A2[b[n].arg0].peer = b[n].arg1
    BY DEF OkayFromPeer
  <2>1. b[n].arg0 \in Id /\ b[n].arg1 # 0
    BY <1>g, <1>t DEF Named, Binds
  <2>2. A[b[n].arg0].peer = b[n].arg1
    BY <1>0, <1>w, <2>1 DEF Half, OkayFromPeer
  <2> QED  BY <1>w, <2>1, <2>2
<1>14. Continues(A2, a2)
  <2>1. Continues(A, a2)
    BY <1>0, <1>d, DropKeeps DEF Half
  <2> QED  BY <1>h, <1>w, <2>1 DEF Continues, Named, Binds
<1>15. Continues(B, b)
  BY <1>0 DEF Half
<1>16. ASSUME up PROVE PeerKnows(A2, B, a2)
  <2> SUFFICES ASSUME NEW j \in Id, NEW k \in Id, B[k].peer = j, A2[j].st = "open", A2[j].peer # k
               PROVE  \E m \in 1 .. Len(a2) : a2[m].cmd = "OKAY" /\ a2[m].arg0 = k /\ a2[m].arg1 = j
    BY DEF PeerKnows
  <2>1. j # i
    BY SMTT(30), <1>0, <1>k, <1>w DEF Half, TiedOnce, Tied, Ties
  <2>2. PICK n \in 1 .. Len(a) : a[n].cmd = "OKAY" /\ a[n].arg0 = k /\ a[n].arg1 = j
    BY <1>0, <1>16, <1>w, <2>1 DEF Half, PeerKnows
  <2> QED  BY <1>d, <2>1, <2>2 DEF Behind
<1>17. ASSUME up PROVE PeerKnows(B, A2, b)
  BY <1>0, <1>17, <1>g, <1>t, <1>w, <1>k DEF Named, Half, PeerKnows, Binds
<1>18. ASSUME up PROVE Accounted(A2, B, a2)
  <2>1. \A n \in 1 .. Len(a) : a[n].cmd = "WRTE" =>
          \E m \in 1 .. Len(a2) : a2[m] = a[n]
    BY <1>d DEF Behind
  <2>2. \A n \in 1 .. Len(a2) : \E m \in 1 .. Len(a) : a2[n] = a[m]
    BY <1>d DEF Shifted
  <2> SUFFICES ASSUME NEW j \in Id, NEW k \in Id, A2[j].st = "open", B[k].st = "open",
                      A2[j].peer = k \/ B[k].peer = j
               PROVE  \/ \E n \in 1 .. Len(a2) : /\ a2[n].cmd = "WRTE" /\ a2[n].arg0 = k
                                                 /\ B[k].got = a2[n].off + a2[n].len
                      \/ /\ B[k].got = Expected(A2[j])
                         /\ \A n \in 1 .. Len(a2) : ~(a2[n].cmd = "WRTE" /\ a2[n].arg0 = k)
    BY DEF Accounted
  <2>3. A[j].st = "open" /\ (A[j].peer = k \/ B[k].peer = j) /\ Expected(A2[j]) = Expected(A[j])
    BY <1>w, <1>l
  <2>4. \/ \E n \in 1 .. Len(a) : /\ a[n].cmd = "WRTE" /\ a[n].arg0 = k
                                  /\ B[k].got = a[n].off + a[n].len
        \/ /\ B[k].got = Expected(A[j])
           /\ \A n \in 1 .. Len(a) : ~(a[n].cmd = "WRTE" /\ a[n].arg0 = k)
    BY <1>0, <1>18, <2>3 DEF Half, Accounted
  <2> QED  BY <2>1, <2>2, <2>3, <2>4
<1>19. ASSUME up PROVE Accounted(B, A2, b)
  BY <1>0, <1>19, <1>g, <1>w, <1>l DEF Named, Half, Accounted, Binds
<1> QED
  BY <1>1, <1>2, <1>3, <1>4, <1>5, <1>7, <1>8, <1>9, <1>10, <1>11, <1>12, <1>13, <1>14, <1>15,
     <1>16, <1>17, <1>18, <1>19 DEF Streams, Half

\* The bytes at the head of the channel are from the peer of their open socket,
\* which has no backlog.
LEMMA HeadIsFromPeer ==
  ASSUME NEW A, NEW B, NEW a, NEW b, NEW na, NEW nb, NEW up,
         Tables(A, B, a, b, na, nb), Streams(A, B, a, b, na, nb, up),
         a # <<>>, a[1].cmd = "WRTE", A[a[1].arg1].st = "open"
  PROVE  /\ a[1].arg1 \in Id /\ a[1].arg0 \in Id
         /\ A[a[1].arg1].peer = a[1].arg0 /\ A[a[1].arg1].q = <<>>
         /\ a[1].off = Expected(A[a[1].arg1])
<1>0. Half(A, B, a, b, na, nb, up)
  BY DEF Streams
<1>1. Named(A, a) /\ 1 \in 1 .. Len(a) /\ 1 .. (1 - 1) = {}
  BY <1>0, NamesAreIds DEF Tables
<1>2. a[1].arg1 \in Id /\ a[1].arg0 \in Id
  BY <1>1 DEF Named, Binds
<1>3. A[a[1].arg1].peer = a[1].arg0
  BY <1>0, <1>1 DEF Half, Announced
<1>4. A[a[1].arg1].q = <<>>
  BY <1>0, <1>1, <1>2, <1>3 DEF Half, Shape, OneCredit, SentOrHeld, Carries
<1>5. a[1].off = Expected(A[a[1].arg1])
  BY <1>0, <1>1 DEF Half, Continues
<1> QED  BY <1>2, <1>3, <1>4, <1>5

\* A_WRTE at the head, for an open socket: its bytes are written out, or they
\* become the backlog.
Poured(so, so2, p) ==
  /\ Shape(so2)
  /\ so2.st = "open" /\ so2.peer = so.peer /\ so2.got = so.got
  /\ Expected(so2) = Expected(so) + p.len
  /\ so2.q # <<>> => so2.q[1].arg0 = p.arg0
  /\ "R" \in so2.want => "R" \in so.want

LEMMA WrteStep ==
  ASSUME NEW A, NEW B, NEW a, NEW b, NEW na, NEW nb, NEW up,
         Tables(A, B, a, b, na, nb), Streams(A, B, a, b, na, nb, up),
         NEW a2 \in Seq(Packet), a # <<>>, Dropped(a, a2), a[1].cmd = "WRTE",
         NEW i \in Id, i = a[1].arg1, A[i].st = "open",
         NEW so, Poured(A[i], so, a[1]),
         NEW A2 \in [Id -> Socket], Changed(A, A2, i, so)
  PROVE  /\ Streams(A2, B, a2, b, na, nb, up)
         /\ so.q = <<>> => Spent(A2, a2, b, a[1].arg0) /\ "R" \notin B[a[1].arg0].want
<1>0. Half(A, B, a, b, na, nb, up) /\ Half(B, A, b, a, nb, na, up)
  BY DEF Streams
<1>g. Named(A, a) /\ Named(B, b)
  BY <1>0, NamesAreIds, TablesSwap
<1>t. /\ 0 \notin Id /\ na \in Nat \ {0} /\ nb \in Nat \ {0}
      /\ Len(a) \in Nat /\ Len(b) \in Nat
  BY MaxIdAssumption DEF Tables, Id
<1>d. Shifted(a, a2) /\ Behind(a, a2)
  BY Dropping DEF Tables
<1>h. Named(A, a2)
  BY <1>d, <1>g, DropKeeps
<1>k. /\ a[1].arg0 \in Id /\ A[i].peer = a[1].arg0 /\ A[i].q = <<>>
      /\ a[1].off = Expected(A[i])
  BY HeadIsFromPeer
<1>w. /\ \A j \in Id : /\ A2[j].st = A[j].st /\ A2[j].peer = A[j].peer /\ A2[j].got = A[j].got
                       /\ "R" \in A2[j].want => "R" \in A[j].want
                       /\ j # i => A2[j].q = A[j].q /\ Expected(A2[j]) = Expected(A[j])
      /\ A2[i].q # <<>> => A2[i].q[1].arg0 = a[1].arg0
      /\ A2[i].q = so.q /\ Expected(A2[i]) = Expected(A[i]) + a[1].len
      /\ \A j \in Id : Shape(A2[j])
  BY <1>0 DEF Changed, Poured, Half
<1>c. /\ Spent(A, a2, b, a[1].arg0) /\ "R" \notin B[a[1].arg0].want
  <2>1. \A n \in 1 .. Len(a2) : Carries(a2[n]) => a2[n].arg0 # a[1].arg0
    BY <1>0, <1>d DEF Half, OneCredit, OneSent, Shifted, Carries
  <2> QED
    BY <1>0, <1>d, <2>1
       DEF Half, OneCredit, SentOrAcked, SentOrHeld, SentOrReads, Spent, Shifted, Carries
<1>u. so.q = <<>> => Spent(A2, a2, b, a[1].arg0) /\ "R" \notin B[a[1].arg0].want
  BY <1>c, <1>w DEF Spent
<1>1. \A j \in Id : Shape(A2[j])
  BY <1>0, <1>w DEF Half
<1>2. Given(A2, B, a2, na, nb)
  <2>1. \A n \in 1 .. Len(a2) : /\ a2[n].cmd # "CLSE" => a2[n].arg0 \in 1 .. (nb - 1)
                                /\ Binds(a2[n]) => a2[n].arg1 \in 1 .. (na - 1)
    BY <1>0, <1>d DEF Half, Given, Shifted
  <2>2. a[1].arg0 < nb
    BY <1>0, <1>d, <1>t DEF Half, Given, Shifted
  <2>3. \A j \in Id : /\ j >= na => A2[j].st = "none"
                      /\ A2[j].peer < nb
                      /\ A2[j].q # <<>> => A2[j].q[1].arg0 < nb
    BY <1>0, <1>w, <2>2 DEF Half, Given
  <2> QED  BY <2>1, <2>3 DEF Given
<1>3. Given(B, A2, b, nb, na)
  BY <1>0, <1>g, <1>t, <1>w DEF Half, Given, Named, Binds
<1>4. OneCredit(A2, B, a2, b)
  <2>1. OneHeld(A2)
    <3> SUFFICES ASSUME NEW j \in Id, NEW k \in Id, A2[j].q # <<>>, A2[k].q # <<>>,
                        A2[j].q[1].arg0 = A2[k].q[1].arg0, j # k
                 PROVE  FALSE
      BY DEF OneHeld
    <3>1. \A m \in Id : A[m].q # <<>> => A[m].q[1].arg0 # a[1].arg0
      BY <1>c DEF Spent
    <3>2. j # i /\ k # i
      BY <1>w, <3>1
    <3>3. A[j].q # <<>> /\ A[k].q # <<>> /\ A[j].q[1].arg0 = A[k].q[1].arg0
      BY <1>w, <3>2
    <3>4. OneHeld(A)
      BY <1>0 DEF Half, OneCredit
    <3> QED  BY <3>3, <3>4 DEF OneHeld
  <2>2. SentOrHeld(A2, a2)
    <3>1. SentOrHeld(A, a2)
      BY <1>0, <1>d, DropKeeps DEF Half, OneCredit
    <3> QED  BY <1>w, <1>c, <3>1 DEF SentOrHeld, Spent
  <2>3. AckedOrHeld(A2, b)
    BY <1>0, <1>g, <1>w, <1>c DEF Spent, Half, OneCredit, Named, AckedOrHeld, Binds
  <2>4. HeldOrReads(A2, B)
    BY SMTT(30), <1>0, <1>g, <1>w, <1>c DEF Spent, Half, OneCredit, Named, HeldOrReads
  <2>5. OneSent(a2) /\ SentOrAcked(a2, b) /\ SentOrReads(B, a2)
    BY <1>0, <1>d, DropKeeps DEF Half, OneCredit
  <2> QED  BY <1>0, <2>1, <2>2, <2>3, <2>4, <2>5 DEF Half, OneCredit
<1>5. OneCredit(B, A2, b, a2)
  <2>1. SentOrReads(A2, b)
    BY <1>0, <1>g, <1>w DEF Half, OneCredit, Named, SentOrReads, Carries
  <2>2. AckedOrReads(A2, a2)
    <3> SUFFICES ASSUME NEW m \in 1 .. Len(a2), a2[m].cmd = "OKAY"
                 PROVE  "R" \notin A2[a2[m].arg1].want
      BY DEF AckedOrReads
    <3>1. a2[m].arg1 \in Id
      BY <1>h DEF Named, Binds
    <3>2. "R" \notin A[a2[m].arg1].want
      BY <1>0, <1>d DEF Half, OneCredit, AckedOrReads, Shifted
    <3> QED  BY <1>w, <3>1, <3>2
  <2>3. HeldOrReads(B, A2)
    BY <1>0, <1>g, <1>w DEF Half, OneCredit, Named, HeldOrReads
  <2>4. OneAcked(a2) /\ SentOrAcked(b, a2) /\ AckedOrHeld(B, a2)
    BY <1>0, <1>d, DropKeeps DEF Half, OneCredit
  <2> QED  BY <1>0, <2>1, <2>2, <2>3, <2>4 DEF Half, OneCredit
<1>6. \A j, l \in Id : Tied(A2, B, a2, b, j, l) => Tied(A, B, a, b, j, l)
  <2>1. ASSUME NEW j \in Id, NEW k \in Id, Ties(A2, a2, j, k) PROVE Ties(A, a, j, k)
    <3>1. CASE k = a[1].arg0 /\ j = i
      BY <1>k, <3>1 DEF Ties
    <3>2. CASE ~(k = a[1].arg0 /\ j = i)
      BY <1>d, <1>w, <1>k, <2>1, <3>2 DEF Ties, Shifted
    <3> QED  BY <3>1, <3>2
  <2> QED  BY <2>1 DEF Tied
<1>7. TiedOnce(A2, B, a2, b) /\ TiedOnce(B, A2, b, a2)
  BY <1>0, <1>6, FewerTies DEF Half
<1>8. Unopened(A2, B, a2, b)
  BY <1>0, <1>6, <1>g, <1>d DEF Named, Half, Unopened, Shifted
<1>9. Unopened(B, A2, b, a2)
  BY <1>0, <1>6, <1>g DEF Named, Half, Unopened, Tied
<1>10. Announced(A2, a2)
  <2> SUFFICES ASSUME NEW n \in 1 .. Len(a2), a2[n].cmd = "WRTE", A2[a2[n].arg1].st = "open",
                      A2[a2[n].arg1].peer # a2[n].arg0
               PROVE  \E m \in 1 .. (n - 1) :
                        a2[m].cmd = "OKAY" /\ a2[m].arg0 = a2[n].arg0 /\ a2[m].arg1 = a2[n].arg1
    BY DEF Announced
  <2>1. n + 1 \in 1 .. Len(a) /\ a2[n] = a[n + 1] /\ a2[n].arg1 \in Id
    BY <1>d, <1>h DEF Named, Binds, Shifted
  <2>2. PICK m \in 1 .. n :
          a[m].cmd = "OKAY" /\ a[m].arg0 = a2[n].arg0 /\ a[m].arg1 = a2[n].arg1
    BY <1>0, <1>w, <2>1 DEF Half, Announced
  <2>3. m # 1
    BY <2>2
  <2>4. m - 1 \in 1 .. (n - 1) /\ a2[m - 1] = a[m]
    BY SMTT(30), <1>t, <2>3 DEF Dropped
  <2> QED  BY <2>2, <2>4
<1>11. Announced(B, b)
  BY <1>0 DEF Half
<1>12. OkayFromPeer(B, a2)
  BY <1>0, <1>d, DropKeeps DEF Half
<1>13. OkayFromPeer(A2, b)
  BY <1>0, <1>g, <1>w DEF Half, OkayFromPeer, Named
<1>14. Continues(A2, a2)
  <2> SUFFICES ASSUME NEW n \in 1 .. Len(a2), a2[n].cmd = "WRTE", A2[a2[n].arg1].st = "open"
               PROVE  a2[n].off = Expected(A2[a2[n].arg1])
    BY DEF Continues
  <2>1. n + 1 \in 1 .. Len(a) /\ a2[n] = a[n + 1] /\ a2[n].arg1 \in Id /\ a2[n].arg0 \in Id
    BY <1>d, <1>h DEF Named, Binds, Shifted
  <2>2. a2[n].arg1 # i
    <3> SUFFICES ASSUME a2[n].arg1 = i PROVE FALSE
      OBVIOUS
    <3>1. Ties(A, a, i, a2[n].arg0) /\ Ties(A, a, i, a[1].arg0)
      BY <1>k, <2>1 DEF Ties, Binds
    <3>2. a2[n].arg0 = a[1].arg0
      BY <1>0, <1>k, <2>1, <3>1 DEF Half, TiedOnce, Tied
    <3> QED  BY <1>c, <3>2 DEF Spent, Carries
  <2>3. a2[n].off = Expected(A[a2[n].arg1])
    BY <1>0, <1>w, <2>1 DEF Half, Continues
  <2> QED  BY <1>w, <2>1, <2>2, <2>3
<1>15. Continues(B, b)
  BY <1>0 DEF Half
<1>16. ASSUME up PROVE PeerKnows(A2, B, a2)
  <2> SUFFICES ASSUME NEW j \in Id, NEW k \in Id, B[k].peer = j, A2[j].st = "open", A2[j].peer # k
               PROVE  \E m \in 1 .. Len(a2) : a2[m].cmd = "OKAY" /\ a2[m].arg0 = k /\ a2[m].arg1 = j
    BY DEF PeerKnows
  <2>1. PICK n \in 1 .. Len(a) : a[n].cmd = "OKAY" /\ a[n].arg0 = k /\ a[n].arg1 = j
    BY <1>0, <1>16, <1>w DEF Half, PeerKnows
  <2>2. n # 1
    BY <2>1
  <2> QED  BY <1>d, <2>1, <2>2 DEF Behind
<1>17. ASSUME up PROVE PeerKnows(B, A2, b)
  BY <1>0, <1>17, <1>g, <1>t, <1>w, <1>k DEF Named, Half, PeerKnows, Binds
<1>18. ASSUME up PROVE Accounted(A2, B, a2)
  <2> SUFFICES ASSUME NEW j \in Id, NEW k \in Id, A2[j].st = "open", B[k].st = "open",
                      A2[j].peer = k \/ B[k].peer = j
               PROVE  \/ \E n \in 1 .. Len(a2) : /\ a2[n].cmd = "WRTE" /\ a2[n].arg0 = k
                                                 /\ B[k].got = a2[n].off + a2[n].len
                      \/ /\ B[k].got = Expected(A2[j])
                         /\ \A n \in 1 .. Len(a2) : ~(a2[n].cmd = "WRTE" /\ a2[n].arg0 = k)
    BY DEF Accounted
  <2>1. A[j].st = "open" /\ (A[j].peer = k \/ B[k].peer = j)
    BY <1>w
  <2>2. \/ \E n \in 1 .. Len(a) : /\ a[n].cmd = "WRTE" /\ a[n].arg0 = k
                                  /\ B[k].got = a[n].off + a[n].len
        \/ /\ B[k].got = Expected(A[j])
           /\ \A n \in 1 .. Len(a) : ~(a[n].cmd = "WRTE" /\ a[n].arg0 = k)
    BY <1>0, <1>18, <2>1 DEF Half, Accounted
  <2>3. j = i <=> k = a[1].arg0
    <3>1. Tied(A, B, a, b, j, k) /\ Tied(A, B, a, b, i, a[1].arg0)
      BY <1>k, <2>1 DEF Tied, Ties
    <3> QED  BY <1>0, <1>k, <3>1 DEF Half, TiedOnce, Tied
  <2>4. CASE j = i
    <3>1. \A n \in 1 .. Len(a) : Carries(a[n]) /\ a[n].arg0 = k => n = 1
      BY <1>0, <1>d, <2>3, <2>4 DEF Half, OneCredit, OneSent, Shifted, Carries
    <3>2. B[k].got = a[1].off + a[1].len
      BY <1>d, <2>2, <2>3, <2>4, <3>1 DEF Shifted, Carries
    <3>3. \A n \in 1 .. Len(a2) : ~(a2[n].cmd = "WRTE" /\ a2[n].arg0 = k)
      BY <1>c, <2>3, <2>4 DEF Spent, Carries
    <3> QED  BY <1>k, <1>w, <2>4, <3>2, <3>3
  <2>5. CASE j # i
    <3>1. \A n \in 1 .. Len(a) : a[n].arg0 = k => \E m \in 1 .. Len(a2) : a2[m] = a[n]
      BY <1>d, <2>3, <2>5 DEF Behind
    <3>2. \A n \in 1 .. Len(a2) : \E m \in 1 .. Len(a) : a2[n] = a[m]
      BY <1>d DEF Shifted
    <3>3. Expected(A2[j]) = Expected(A[j])
      BY <1>w, <2>5
    <3> QED  BY <2>2, <3>1, <3>2, <3>3
  <2> QED  BY <2>4, <2>5
<1>19. ASSUME up PROVE Accounted(B, A2, b)
  BY <1>0, <1>19, <1>w DEF Half, Accounted
<1> QED
  BY <1>1, <1>2, <1>3, <1>4, <1>5, <1>7, <1>8, <1>9, <1>10, <1>11, <1>12, <1>13, <1>14, <1>15,
     <1>16, <1>17, <1>18, <1>19, <1>u DEF Streams, Half

\* An open socket answers its peer with OKAY, which has no other credit.
LEMMA AckStep ==
  ASSUME NEW A, NEW B, NEW a, NEW b, NEW na, NEW nb, NEW up,
         Tables(A, B, a, b, na, nb), Streams(A, B, a, b, na, nb, up),
         NEW i \in Id, NEW k \in Id, A[i].st = "open", A[i].peer = k,
         Spent(A, a, b, k), "R" \notin B[k].want,
         NEW b2 \in Seq(Packet), Extended(b, b2, OKAY(i, k), up)
  PROVE  Streams(A, B, a, b2, na, nb, up)
<1>0. Half(A, B, a, b, na, nb, up) /\ Half(B, A, b, a, nb, na, up)
  BY DEF Streams
<1>g. Named(A, a) /\ Named(B, b)
  BY <1>0, NamesAreIds, TablesSwap
<1>t. /\ 0 \notin Id /\ na \in Nat \ {0} /\ nb \in Nat \ {0}
      /\ Len(a) \in Nat /\ Len(b) \in Nat
  BY MaxIdAssumption DEF Tables, Id
<1>p. OKAY(i, k).cmd = "OKAY" /\ OKAY(i, k).arg0 = i /\ OKAY(i, k).arg1 = k
  BY DEF OKAY, Pkt
<1>c. i < na /\ k < nb
  BY <1>0, <1>t DEF Half, Given, Id
<1>1. \A j \in Id : Shape(A[j])
  BY <1>0 DEF Half
<1>2. Given(A, B, a, na, nb)
  BY <1>0, <1>g, <1>t DEF Half, Given, Named, Binds, Extended
<1>3. Given(B, A, b2, nb, na)
  <2>1. OKAY(i, k).arg0 \in 1 .. (na - 1) /\ OKAY(i, k).arg1 \in 1 .. (nb - 1)
    BY <1>p, <1>c, <1>t DEF Id
  <2>2. \A m \in 1 .. Len(b2) : b2[m] = OKAY(i, k) \/ \E l \in 1 .. Len(b) : b2[m] = b[l]
    BY DEF Extended
  <2>3. \A m \in 1 .. Len(b2) : /\ b2[m].cmd # "CLSE" => b2[m].arg0 \in 1 .. (na - 1)
                                /\ Binds(b2[m]) => b2[m].arg1 \in 1 .. (nb - 1)
    BY <1>0, <2>1, <2>2 DEF Half, Given
  <2> QED  BY <1>0, <2>3 DEF Half, Given
<1>4. OneCredit(A, B, a, b2)
  <2>1. OneAcked(b2)
    <3>1. \A m \in 1 .. Len(b2) : b2[m].cmd = "OKAY" /\ b2[m].arg1 = k => m = Len(b) + 1
      BY DEF Extended, Spent
    <3>2. \A m \in 1 .. Len(b2) : \/ m \in 1 .. Len(b) /\ b2[m] = b[m]
                                  \/ b2[m].arg1 = k
      BY <1>p DEF Extended
    <3> QED  BY <1>0, <3>1, <3>2 DEF Half, OneCredit, OneAcked
  <2>2. SentOrAcked(a, b2)
    BY <1>0, <1>g, <1>p DEF Half, OneCredit, Named, SentOrAcked, Carries, Spent, Extended
  <2>3. AckedOrHeld(A, b2)
    BY <1>0, <1>g, <1>p DEF Half, OneCredit, Named, AckedOrHeld, Spent, Extended
  <2>4. AckedOrReads(B, b2)
    BY <1>0, <1>g, <1>p DEF Half, OneCredit, Named, AckedOrReads, Binds, Extended
  <2> QED  BY <1>0, <2>1, <2>2, <2>3, <2>4 DEF Half, OneCredit
<1>5. OneCredit(B, A, b2, a)
  <2>1. OneSent(b2)
    BY <1>0, <1>g, <1>p DEF Half, OneCredit, Named, OneSent, Carries, Extended
  <2>2. SentOrAcked(b2, a)
    BY <1>0, <1>g, <1>p DEF Half, OneCredit, Named, SentOrAcked, Carries, Spent, Extended
  <2>3. SentOrHeld(B, b2)
    BY <1>0, <1>g, <1>p DEF Half, OneCredit, Named, SentOrHeld, Carries, Extended
  <2>4. SentOrReads(A, b2)
    BY <1>0, <1>g, <1>p DEF Half, OneCredit, Named, SentOrReads, Carries, Extended
  <2> QED  BY <1>0, <2>1, <2>2, <2>3, <2>4 DEF Half, OneCredit
<1>6. \A j, l \in Id : Tied(A, B, a, b2, j, l) => Tied(A, B, a, b, j, l)
  BY SMTT(30), <1>0, <1>g, <1>t, <1>p DEF Half, Named, Tied, Ties, Binds, Extended
<1>7. TiedOnce(A, B, a, b2) /\ TiedOnce(B, A, b2, a)
  BY <1>0, <1>6, FewerTies DEF Half
<1>8. Unopened(A, B, a, b2)
  BY <1>0, <1>6, <1>g DEF Named, Half, Unopened, Extended
<1>9. Unopened(B, A, b2, a)
  BY <1>0, <1>6, <1>g, <1>p DEF Named, Half, Unopened, Tied, Extended
<1>10. Announced(A, a)
  BY <1>0 DEF Half
<1>11. Announced(B, b2)
  BY <1>0, <1>p, JoinAnnounced DEF Tables, Half
<1>12. OkayFromPeer(B, a)
  BY <1>0 DEF Half
<1>13. OkayFromPeer(A, b2)
  BY <1>0, <1>g, <1>p DEF Named, Half, OkayFromPeer, Binds, Extended
<1>14. Continues(A, a)
  BY <1>0 DEF Half
<1>15. Continues(B, b2)
  BY <1>0, <1>g, <1>p DEF Named, Half, Continues, Binds, Extended
<1>16. ASSUME up PROVE PeerKnows(A, B, a)
  BY <1>0, <1>16, <1>g, <1>t DEF Named, Half, PeerKnows, Binds, Extended
<1>17. ASSUME up PROVE PeerKnows(B, A, b2)
  BY <1>0, <1>17 DEF Half, PeerKnows, Extended
<1>18. ASSUME up PROVE Accounted(A, B, a)
  BY <1>0, <1>18, <1>g DEF Named, Half, Accounted, Binds, Extended
<1>19. ASSUME up PROVE Accounted(B, A, b2)
  BY SMTT(30), <1>0, <1>19, <1>g, <1>p DEF Named, Half, Accounted, Binds, Extended
<1> QED
  BY <1>1, <1>2, <1>3, <1>4, <1>5, <1>7, <1>8, <1>9, <1>10, <1>11, <1>12, <1>13, <1>14, <1>15,
     <1>16, <1>17, <1>18, <1>19 DEF Streams, Half

\* An open socket sends what it has read to its peer, and stops listening.
Drawn(so, so2, n) ==
  /\ Shape(so2)
  /\ so2.st = "open" /\ so2.peer = so.peer /\ so2.q = so.q /\ so2.out = so.out
  /\ so2.got = so.got + n /\ "R" \notin so2.want

LEMMA ReadStep ==
  ASSUME NEW A, NEW B, NEW a, NEW b, NEW na, NEW nb, NEW up,
         Tables(A, B, a, b, na, nb), Streams(A, B, a, b, na, nb, up),
         NEW i \in Id, NEW k \in Id, A[i].st = "open", A[i].peer = k, "R" \in A[i].want,
         NEW n \in Nat, NEW so, Drawn(A[i], so, n),
         NEW A2 \in [Id -> Socket], Changed(A, A2, i, so),
         NEW b2 \in Seq(Packet), Extended(b, b2, WRTE(i, k, A[i].got, n), up)
  PROVE  Streams(A2, B, a, b2, na, nb, up)
<1>0. Half(A, B, a, b, na, nb, up) /\ Half(B, A, b, a, nb, na, up)
  BY DEF Streams
<1>g. Named(A, a) /\ Named(B, b)
  BY <1>0, NamesAreIds, TablesSwap
<1>t. /\ 0 \notin Id /\ na \in Nat \ {0} /\ nb \in Nat \ {0}
      /\ Len(a) \in Nat /\ Len(b) \in Nat
  BY MaxIdAssumption DEF Tables, Id
<1> DEFINE p == WRTE(i, k, A[i].got, n)
<1>p. p.cmd = "WRTE" /\ p.arg0 = i /\ p.arg1 = k /\ p.off = A[i].got /\ p.len = n
  BY DEF WRTE
<1>j. Extended(b, b2, p, up)
  OBVIOUS
<1> HIDE DEF p
<1>c. i < na /\ k < nb
  BY <1>0, <1>t DEF Half, Given, Id
<1>s. Spent(B, b, a, i)
  BY <1>0 DEF Half, OneCredit, SentOrReads, AckedOrReads, HeldOrReads, Spent
<1>w. /\ \A j \in Id : /\ A2[j].st = A[j].st /\ A2[j].peer = A[j].peer /\ A2[j].q = A[j].q
                       /\ Expected(A2[j]) = Expected(A[j])
                       /\ "R" \in A2[j].want => "R" \in A[j].want
                       /\ j # i => A2[j].got = A[j].got
      /\ A2[i].got = A[i].got + n /\ "R" \notin A2[i].want
      /\ \A j \in Id : Shape(A2[j])
  BY <1>0 DEF Changed, Drawn, Expected, Half
<1>1. \A j \in Id : Shape(A2[j])
  BY <1>0, <1>w DEF Half
<1>2. Given(A2, B, a, na, nb)
  BY <1>0, <1>w DEF Half, Given
<1>3. Given(B, A2, b2, nb, na)
  <2>1. p.arg0 \in 1 .. (na - 1) /\ p.arg1 \in 1 .. (nb - 1)
    BY <1>p, <1>c, <1>t DEF Id
  <2>2. \A m \in 1 .. Len(b2) : b2[m] = p \/ \E l \in 1 .. Len(b) : b2[m] = b[l]
    BY <1>j DEF Extended
  <2>3. \A m \in 1 .. Len(b2) : /\ b2[m].cmd # "CLSE" => b2[m].arg0 \in 1 .. (na - 1)
                                /\ Binds(b2[m]) => b2[m].arg1 \in 1 .. (nb - 1)
    BY <1>0, <2>1, <2>2 DEF Half, Given
  <2> QED  BY <1>0, <2>3, <1>w DEF Half, Given
<1>4. OneCredit(A2, B, a, b2)
  <2>1. OneAcked(b2)
    BY <1>0, <1>g, <1>j, <1>p DEF Extended, Half, OneCredit, Named, OneAcked, Binds
  <2>2. OneHeld(A2)
    BY <1>0, <1>g, <1>w DEF Half, OneCredit, Named, OneHeld
  <2>3. SentOrAcked(a, b2)
    BY <1>0, <1>g, <1>j, <1>p DEF Extended, Half, OneCredit, Named, SentOrAcked, Carries, Binds
  <2>4. SentOrHeld(A2, a)
    BY <1>0, <1>g, <1>w DEF Half, OneCredit, Named, SentOrHeld, Carries
  <2>5. AckedOrHeld(A2, b2)
    <3>1. AckedOrHeld(A, b2)
      BY <1>0, <1>j, <1>p DEF Half, OneCredit, AckedOrHeld, Extended
    <3> QED  BY <1>w, <3>1 DEF AckedOrHeld
  <2>6. AckedOrReads(B, b2)
    BY <1>0, <1>g, <1>j, <1>p DEF Extended, Half, OneCredit, Named, AckedOrReads, Binds
  <2>7. HeldOrReads(A2, B)
    BY <1>0, <1>g, <1>w DEF Half, OneCredit, Named, HeldOrReads
  <2> QED  BY <1>0, <2>1, <2>2, <2>3, <2>4, <2>5, <2>6, <2>7 DEF Half, OneCredit
<1>5. OneCredit(B, A2, b2, a)
  <2>1. OneSent(b2)
    BY <1>0, <1>g, <1>j, <1>p, <1>s
      DEF Extended, Spent, Half, OneCredit, Named, OneSent, Carries
  <2>2. SentOrAcked(b2, a)
    BY <1>0, <1>g, <1>j, <1>p, <1>s
      DEF Extended, Spent, Half, OneCredit, Named, SentOrAcked, Carries, Binds
  <2>3. SentOrHeld(B, b2)
    BY <1>0, <1>g, <1>j, <1>p, <1>s
      DEF Extended, Spent, Half, OneCredit, Named, SentOrHeld, Carries
  <2>4. SentOrReads(A2, b2)
    <3> SUFFICES ASSUME NEW m \in 1 .. Len(b2), Carries(b2[m]) PROVE "R" \notin A2[b2[m].arg0].want
      BY DEF SentOrReads
    <3>1. b2[m] = p \/ (m \in 1 .. Len(b) /\ b2[m] = b[m])
      BY <1>j DEF Extended
    <3>2. m \in 1 .. Len(b) /\ b2[m] = b[m] => b2[m].arg0 \in Id /\ "R" \notin A[b2[m].arg0].want
      BY <1>0, <1>g DEF Half, OneCredit, SentOrReads, Named, Carries
    <3> QED  BY <1>p, <1>w, <3>1, <3>2
  <2>5. AckedOrReads(A2, a)
    BY <1>0, <1>g, <1>w DEF Half, OneCredit, Named, AckedOrReads, Binds
  <2>6. HeldOrReads(B, A2)
    BY <1>0, <1>g, <1>w DEF Half, OneCredit, Named, HeldOrReads
  <2> QED  BY <1>0, <2>1, <2>2, <2>3, <2>4, <2>5, <2>6 DEF Half, OneCredit
<1>6. \A j, l \in Id : Tied(A2, B, a, b2, j, l) => Tied(A, B, a, b, j, l)
  <2>1. \A j, l \in Id : Ties(A2, a, j, l) => Ties(A, a, j, l)
    BY <1>w DEF Ties
  <2>2. \A j, l \in Id : Ties(B, b2, l, j) => Ties(B, b, l, j) \/ (j = i /\ l = k)
    BY <1>j, <1>p DEF Ties, Extended
  <2>3. Ties(A, a, i, k)
    BY DEF Ties
  <2> QED  BY <2>1, <2>2, <2>3 DEF Tied
<1>7. TiedOnce(A2, B, a, b2) /\ TiedOnce(B, A2, b2, a)
  BY <1>0, <1>6, FewerTies DEF Half
<1>8. Unopened(A2, B, a, b2)
  BY <1>0, <1>6, <1>g DEF Half, Unopened, Named
<1>9. Unopened(B, A2, b2, a)
  <2>1. \A m \in 1 .. Len(b2) : b2[m].cmd = "OPEN" => m \in 1 .. Len(b) /\ b2[m] = b[m]
    BY <1>j, <1>p DEF Extended
  <2>2. \A j, l \in Id : Tied(B, A2, b2, a, l, j) => Tied(B, A, b, a, l, j)
    BY <1>6 DEF Tied
  <2> QED  BY <1>0, <1>g, <2>1, <2>2 DEF Half, Unopened, Named
<1>10. Announced(A2, a)
  BY <1>0, <1>g, <1>w DEF Half, Announced, Named, Binds
<1>11. Announced(B, b2)
  <2>1. ASSUME up, B[k].st = "open"
        PROVE  \/ B[k].peer = i
               \/ \E m \in 1 .. Len(b) : b[m].cmd = "OKAY" /\ b[m].arg0 = i /\ b[m].arg1 = k
    BY <1>0, <2>1 DEF Half, PeerKnows
  <2>2. CASE up
    BY <1>0, <1>j, <1>p, <2>1, <2>2, JoinAnnounced DEF Tables, Half
  <2>3. CASE ~up
    BY <1>0, <1>j, <2>3 DEF Half, Extended
  <2> QED  BY <2>2, <2>3
<1>12. OkayFromPeer(B, a)
  BY <1>0 DEF Half
<1>13. OkayFromPeer(A2, b2)
  <2>1. \A m \in 1 .. Len(b2) : b2[m].cmd = "OKAY" => m \in 1 .. Len(b) /\ b2[m] = b[m]
    BY <1>j, <1>p DEF Extended
  <2> QED  BY <1>0, <1>g, <1>w, <2>1 DEF Half, OkayFromPeer, Named
<1>14. Continues(A2, a)
  BY <1>0, <1>g, <1>w DEF Half, Continues, Named, Binds
<1>15. Continues(B, b2)
  <2>1. up /\ B[k].st = "open" => A[i].got = Expected(B[k])
    BY <1>0, <1>s DEF Half, Accounted, Spent, Carries
  <2>2. CASE up
    BY <1>0, <1>j, <1>p, <2>1, <2>2 DEF Half, Continues, Extended
  <2>3. CASE ~up
    BY <1>0, <1>j, <2>3 DEF Half, Extended
  <2> QED  BY <2>2, <2>3
<1>16. ASSUME up PROVE PeerKnows(A2, B, a)
  BY SMTT(30), <1>0, <1>16, <1>w DEF Half, PeerKnows
<1>17. ASSUME up PROVE PeerKnows(B, A2, b2)
  BY <1>0, <1>17, <1>j, <1>w DEF Half, PeerKnows, Extended
<1>18. ASSUME up PROVE Accounted(A2, B, a)
  BY <1>0, <1>18, <1>w DEF Half, Accounted
<1>19. ASSUME up PROVE Accounted(B, A2, b2)
  <2> SUFFICES ASSUME NEW l \in Id, NEW j \in Id, B[l].st = "open", A2[j].st = "open",
                      B[l].peer = j \/ A2[j].peer = l
               PROVE  \/ \E m \in 1 .. Len(b2) : /\ b2[m].cmd = "WRTE" /\ b2[m].arg0 = j
                                                 /\ A2[j].got = b2[m].off + b2[m].len
                      \/ /\ A2[j].got = Expected(B[l])
                         /\ \A m \in 1 .. Len(b2) : ~(b2[m].cmd = "WRTE" /\ b2[m].arg0 = j)
    BY DEF Accounted
  <2>1. CASE j = i
    <3>1. A2[j].got = p.off + p.len
      BY <1>p, <1>w, <2>1
    <3> QED  BY <1>j, <1>p, <1>19, <2>1, <3>1 DEF Extended
  <2>2. CASE j # i
    <3>1. \A m \in 1 .. Len(b2) : b2[m].arg0 = j => m \in 1 .. Len(b) /\ b2[m] = b[m]
      BY <1>j, <1>p, <2>2 DEF Extended
    <3>2. \/ \E m \in 1 .. Len(b) : /\ b[m].cmd = "WRTE" /\ b[m].arg0 = j
                                    /\ A[j].got = b[m].off + b[m].len
          \/ /\ A[j].got = Expected(B[l])
             /\ \A m \in 1 .. Len(b) : ~(b[m].cmd = "WRTE" /\ b[m].arg0 = j)
      BY <1>0, <1>19, <1>w DEF Half, Accounted
    <3>3. A2[j].got = A[j].got
      BY <1>w, <2>2
    <3> QED  BY <1>j, <3>1, <3>2, <3>3 DEF Extended
  <2> QED  BY <2>1, <2>2
<1> QED
  BY <1>1, <1>2, <1>3, <1>4, <1>5, <1>7, <1>8, <1>9, <1>10, <1>11, <1>12, <1>13, <1>14, <1>15,
     <1>16, <1>17, <1>18, <1>19 DEF Streams, Half

\* Once its backlog is written out, an open socket owes its peer an OKAY.
LEMMA DrainSpends ==
  ASSUME NEW A, NEW B, NEW a, NEW b, NEW na, NEW nb, NEW up,
         Tables(A, B, a, b, na, nb), Streams(A, B, a, b, na, nb, up),
         NEW i \in Id, A[i].st = "open", A[i].q # <<>>,
         NEW so, so.q = <<>>, NEW A2, Changed(A, A2, i, so)
  PROVE  A[i].peer \in Id /\ Spent(A2, a, b, A[i].peer) /\ "R" \notin B[A[i].peer].want
<1>0. Half(A, B, a, b, na, nb, up)
  BY DEF Streams
<1>1. A[i].peer = A[i].q[1].arg0 /\ A[i].peer \in Id
  BY <1>0, NamesAreIds DEF Named, Half, Shape
<1>2. "R" \notin B[A[i].peer].want
  BY <1>0, <1>1 DEF Half, OneCredit, HeldOrReads
<1>3. \A n \in 1 .. Len(a) : Carries(a[n]) => a[n].arg0 # A[i].peer
  BY <1>0, <1>1 DEF Half, OneCredit, SentOrHeld
<1>4. \A n \in 1 .. Len(b) : b[n].cmd = "OKAY" => b[n].arg1 # A[i].peer
  BY <1>0, <1>1 DEF Half, OneCredit, AckedOrHeld
<1>5. \A j \in Id : A2[j].q # <<>> => A2[j].q[1].arg0 # A[i].peer
  BY <1>0, <1>1 DEF Half, OneCredit, OneHeld, Changed
<1> QED  BY <1>1, <1>2, <1>3, <1>4, <1>5 DEF Spent

\* A new socket: nothing names it yet.
LEMMA FreshStep ==
  ASSUME NEW A, NEW B, NEW a, NEW b, NEW na, NEW nb, NEW up,
         Tables(A, B, a, b, na, nb), Streams(A, B, a, b, na, nb, up),
         na \in Id, NEW so, Shape(so), so.st = "open", so.peer = 0, so.q = <<>>,
         NEW A2 \in [Id -> Socket], Changed(A, A2, na, so)
  PROVE  /\ Streams(A2, B, a, b, na + 1, nb, up)
         /\ Spent(B, b, a, na) /\ \A k \in Id : ~Tied(A2, B, a, b, na, k)
<1>0. Half(A, B, a, b, na, nb, up) /\ Half(B, A, b, a, nb, na, up)
  BY DEF Streams
<1>g. Named(A, a) /\ Named(B, b)
  BY <1>0, NamesAreIds, TablesSwap
<1>t. /\ 0 \notin Id /\ na \in Nat \ {0} /\ nb \in Nat \ {0}
      /\ Len(a) \in Nat /\ Len(b) \in Nat
  BY MaxIdAssumption DEF Tables, Id
<1>z. /\ \A n \in 1 .. Len(a) : Binds(a[n]) => a[n].arg1 # na
      /\ \A n \in 1 .. Len(b) : /\ Carries(b[n]) => b[n].arg0 # na
                                /\ Binds(b[n]) => b[n].arg0 # na
      /\ \A k \in Id : B[k].peer # na /\ (B[k].q # <<>> => B[k].q[1].arg0 # na)
  <2>1. na \notin 1 .. (na - 1) /\ ~(na < na)
    BY <1>t
  <2> QED  BY <1>0, <2>1 DEF Half, Given, Binds, Carries
<1>v. A[na].st = "none" /\ A[na].q = <<>> /\ A[na].peer = 0 /\ "R" \notin A[na].want
  BY <1>0, <1>t DEF Half, Given, Shape
<1>w. /\ \A j \in Id : j # na => A2[j] = A[j]
      /\ A2[na].st = "open" /\ A2[na].peer = 0 /\ A2[na].q = <<>> /\ "R" \notin A2[na].want
      /\ \A j \in Id : A2[j].peer = A[j].peer /\ A2[j].q = A[j].q
      /\ \A j \in Id : "R" \in A2[j].want => "R" \in A[j].want
      /\ \A j \in Id : Shape(A2[j])
  BY <1>0, <1>v DEF Changed, Half, Shape
<1>u. Spent(B, b, a, na) /\ \A k \in Id : ~Tied(A2, B, a, b, na, k)
  <2>1. Spent(B, b, a, na)
    BY <1>z DEF Spent, Binds
  <2>2. \A k \in Id : ~Tied(A2, B, a, b, na, k)
    BY <1>z, <1>w, <1>t DEF Tied, Ties
  <2> QED  BY <2>1, <2>2
<1>1. \A i \in Id : Shape(A2[i])
  BY <1>0, <1>w DEF Half
<1>2. Given(A2, B, a, na + 1, nb)
  <2>1. \A j \in Id : /\ j >= na + 1 => A2[j].st = "none"
                      /\ A2[j].peer < nb
                      /\ A2[j].q # <<>> => A2[j].q[1].arg0 < nb
    <3>1. \A j \in Id : j >= na + 1 => j >= na /\ j # na
      BY <1>t DEF Id
    <3> QED  BY <1>0, <1>w, <3>1 DEF Half, Given
  <2>2. \A n \in 1 .. Len(a) : /\ a[n].cmd # "CLSE" => a[n].arg0 \in 1 .. (nb - 1)
                               /\ Binds(a[n]) => a[n].arg1 \in 1 .. ((na + 1) - 1)
    BY <1>0, <1>t DEF Half, Given
  <2> QED  BY <2>1, <2>2 DEF Given
<1>3. Given(B, A2, b, nb, na + 1)
  <2>1. \A x \in Int : x < na => x < na + 1
    BY <1>t
  <2>2. \A x : x \in 1 .. (na - 1) => x \in 1 .. ((na + 1) - 1)
    BY <1>t
  <2>3. \A k \in Id : B[k].peer \in Int /\ (B[k].q # <<>> => B[k].q[1].arg0 \in Int)
    BY <1>g, <1>t DEF Named, Id
  <2>4. /\ \A k \in Id : /\ k >= nb => B[k].st = "none"
                         /\ B[k].peer < na + 1
                         /\ B[k].q # <<>> => B[k].q[1].arg0 < na + 1
    BY <1>0, <2>1, <2>3 DEF Half, Given
  <2>5. \A n \in 1 .. Len(b) : /\ b[n].cmd # "CLSE" => b[n].arg0 \in 1 .. ((na + 1) - 1)
                               /\ Binds(b[n]) => b[n].arg1 \in 1 .. (nb - 1)
    BY <1>0, <2>2 DEF Half, Given
  <2> QED  BY <2>4, <2>5 DEF Given
<1>4. OneCredit(A2, B, a, b)
  <2>1. OneHeld(A2)
    BY <1>0, <1>g, <1>w DEF Half, OneCredit, Named, OneHeld
  <2>2. SentOrHeld(A2, a)
    BY <1>0, <1>g, <1>w DEF Half, OneCredit, Named, SentOrHeld, Carries
  <2>3. AckedOrHeld(A2, b)
    BY <1>0, <1>g, <1>w DEF Half, OneCredit, Named, AckedOrHeld, Binds
  <2>4. HeldOrReads(A2, B)
    BY <1>0, <1>g, <1>w DEF Half, OneCredit, Named, HeldOrReads
  <2> QED  BY <1>0, <2>1, <2>2, <2>3, <2>4 DEF Half, OneCredit
<1>5. OneCredit(B, A2, b, a)
  <2>1. SentOrReads(A2, b)
    BY <1>0, <1>g, <1>w DEF Half, OneCredit, Named, SentOrReads, Carries
  <2>2. AckedOrReads(A2, a)
    BY <1>0, <1>g, <1>w DEF Half, OneCredit, Named, AckedOrReads, Binds
  <2>3. HeldOrReads(B, A2)
    BY <1>0, <1>g, <1>w DEF Half, OneCredit, Named, HeldOrReads
  <2> QED  BY <1>0, <2>1, <2>2, <2>3 DEF Half, OneCredit
<1>6. \A i, k \in Id : Tied(A2, B, a, b, i, k) => Tied(A, B, a, b, i, k)
  BY <1>0, <1>g, <1>t, <1>w DEF Half, Named, Tied, Ties, Binds
<1>7. TiedOnce(A2, B, a, b) /\ TiedOnce(B, A2, b, a)
  BY <1>0, <1>6, FewerTies DEF Half
<1>8. Unopened(A2, B, a, b)
  BY <1>0, <1>6, <1>g DEF Half, Unopened, Named
<1>9. Unopened(B, A2, b, a)
  BY <1>0, <1>6, <1>g DEF Half, Unopened, Named, Tied
<1>10. Announced(A2, a)
  BY <1>0, <1>g, <1>w, <1>z DEF Half, Announced, Named, Binds
<1>11. Announced(B, b)
  BY <1>0 DEF Half
<1>12. OkayFromPeer(B, a)
  BY <1>0 DEF Half
<1>13. OkayFromPeer(A2, b)
  BY <1>0, <1>g, <1>w, <1>z DEF Half, OkayFromPeer, Named, Binds
<1>14. Continues(A2, a)
  BY <1>0, <1>g, <1>w, <1>z DEF Half, Continues, Named, Binds
<1>15. Continues(B, b)
  BY <1>0 DEF Half
<1>16. ASSUME up PROVE PeerKnows(A2, B, a)
  BY <1>0, <1>16, <1>w, <1>z DEF Half, PeerKnows
<1>17. ASSUME up PROVE PeerKnows(B, A2, b)
  <2>1. \A j \in Id : A2[j].peer = A[j].peer
    BY <1>w
  <2> QED  BY <1>0, <1>17, <2>1 DEF Half, PeerKnows
<1>18. ASSUME up PROVE Accounted(A2, B, a)
  <2>1. ASSUME NEW j \in Id, NEW k \in Id, A2[j].peer = k \/ B[k].peer = j PROVE A2[j] = A[j]
    <3>1. j # na
      BY <1>w, <1>z, <1>t, <2>1
    <3> QED  BY <1>w, <3>1
  <2> QED  BY <1>0, <1>18, <2>1 DEF Half, Accounted
<1>19. ASSUME up PROVE Accounted(B, A2, b)
  <2>1. ASSUME NEW j \in Id, NEW k \in Id, A2[j].peer = k \/ B[k].peer = j PROVE A2[j] = A[j]
    <3>1. j # na
      BY <1>w, <1>z, <1>t, <2>1
    <3> QED  BY <1>w, <3>1
  <2> QED  BY <1>0, <1>19, <2>1 DEF Half, Accounted
<1> QED
  BY <1>1, <1>2, <1>3, <1>4, <1>5, <1>7, <1>8, <1>9, <1>10, <1>11, <1>12, <1>13, <1>14, <1>15,
     <1>16, <1>17, <1>18, <1>19, <1>u DEF Streams, Half

\* A socket that nothing names sends its OPEN.
LEMMA OpenStep ==
  ASSUME NEW A, NEW B, NEW a, NEW b, NEW na, NEW nb, NEW up,
         Tables(A, B, a, b, na, nb), Streams(A, B, a, b, na, nb, up),
         NEW i \in Id, i < na, "R" \notin A[i].want, Spent(B, b, a, i),
         \A k \in Id : ~Tied(A, B, a, b, i, k),
         NEW b2 \in Seq(Packet), Extended(b, b2, OPEN(i), up)
  PROVE  Streams(A, B, a, b2, na, nb, up)
<1>0. Half(A, B, a, b, na, nb, up) /\ Half(B, A, b, a, nb, na, up)
  BY DEF Streams
<1>g. Named(A, a) /\ Named(B, b)
  BY <1>0, NamesAreIds, TablesSwap
<1>t. /\ 0 \notin Id /\ na \in Nat \ {0} /\ nb \in Nat \ {0}
      /\ Len(a) \in Nat /\ Len(b) \in Nat
  BY MaxIdAssumption DEF Tables, Id
<1>p. OPEN(i).cmd = "OPEN" /\ OPEN(i).arg0 = i
  BY DEF OPEN, Pkt
<1>j. /\ \A m \in 1 .. Len(b2) : \/ m \in 1 .. Len(b) /\ b2[m] = b[m]
                                 \/ m = Len(b) + 1 /\ b2[m].cmd = "OPEN" /\ b2[m].arg0 = i
      /\ \A m \in 1 .. Len(b) : m \in 1 .. Len(b2) /\ b2[m] = b[m]
  BY <1>p DEF Extended
<1>1. \A j \in Id : Shape(A[j])
  BY <1>0 DEF Half
<1>2. Given(A, B, a, na, nb)
  BY <1>0, <1>g, <1>t, <1>j DEF Half, Given, Named, Binds
<1>3. Given(B, A, b2, nb, na)
  <2>1. i \in 1 .. (na - 1)
    BY <1>t DEF Id
  <2>2. \A m \in 1 .. Len(b2) : /\ b2[m].cmd # "CLSE" => b2[m].arg0 \in 1 .. (na - 1)
                                /\ Binds(b2[m]) => b2[m].arg1 \in 1 .. (nb - 1)
    BY <1>0, <1>j, <2>1 DEF Half, Given, Binds
  <2> QED  BY <1>0, <2>2 DEF Half, Given
<1>4. OneCredit(A, B, a, b2)
  <2>1. OneAcked(b2)
    BY <1>0, <1>g, <1>j DEF Half, OneCredit, Named, OneAcked, Binds
  <2>2. SentOrAcked(a, b2)
    BY <1>0, <1>g, <1>j DEF Spent, Half, OneCredit, Named, SentOrAcked, Carries, Binds
  <2>3. AckedOrHeld(A, b2)
    BY <1>0, <1>g, <1>j DEF Half, OneCredit, Named, AckedOrHeld, Binds
  <2>4. AckedOrReads(B, b2)
    BY <1>0, <1>g, <1>j DEF Half, OneCredit, Named, AckedOrReads, Binds
  <2> QED  BY <1>0, <2>1, <2>2, <2>3, <2>4 DEF Half, OneCredit
<1>5. OneCredit(B, A, b2, a)
  <2>1. OneSent(b2)
    <3>1. \A m \in 1 .. Len(b2) : Carries(b2[m]) /\ b2[m].arg0 = i => m = Len(b) + 1
      BY <1>j DEF Spent
    <3>2. \A m \in 1 .. Len(b2) : (m \in 1 .. Len(b) /\ b2[m] = b[m]) \/ b2[m].arg0 = i
      BY <1>j
    <3> QED  BY <1>0, <3>1, <3>2 DEF Half, OneCredit, OneSent
  <2>2. SentOrAcked(b2, a)
    BY <1>0, <1>g, <1>j DEF Spent, Half, OneCredit, Named, SentOrAcked, Carries, Binds
  <2>3. SentOrHeld(B, b2)
    BY <1>0, <1>g, <1>j DEF Spent, Half, OneCredit, Named, SentOrHeld, Carries
  <2>4. SentOrReads(A, b2)
    BY <1>0, <1>g, <1>j DEF Spent, Half, OneCredit, Named, SentOrReads, Carries
  <2> QED  BY <1>0, <2>1, <2>2, <2>3, <2>4 DEF Half, OneCredit
<1>6. \A j, l \in Id : Tied(A, B, a, b2, j, l) => Tied(A, B, a, b, j, l)
  BY <1>0, <1>g, <1>t, <1>j DEF Half, Named, Tied, Ties, Binds
<1>7. TiedOnce(A, B, a, b2) /\ TiedOnce(B, A, b2, a)
  BY <1>0, <1>6, FewerTies DEF Half
<1>8. Unopened(A, B, a, b2)
  BY <1>0, <1>6, <1>g, <1>j DEF Named, Half, Unopened
<1>9. Unopened(B, A, b2, a)
  <2>1. \A k, l \in Id : Tied(B, A, b2, a, k, l) => Tied(A, B, a, b, l, k) /\ Tied(B, A, b, a, k, l)
    BY <1>6 DEF Tied
  <2>2. \A m \in 1 .. Len(b2) : \/ m \in 1 .. Len(b) /\ b2[m] = b[m]
                                \/ b2[m].arg0 = i
    BY <1>j
  <2> QED  BY <1>0, <1>g, <2>1, <2>2 DEF Half, Unopened, Named
<1>10. Announced(A, a)
  BY <1>0 DEF Half
<1>11. Announced(B, b2)
  BY <1>0, <1>p, JoinAnnounced DEF Tables, Half
<1>12. OkayFromPeer(B, a)
  BY <1>0 DEF Half
<1>13. OkayFromPeer(A, b2)
  BY <1>0, <1>g, <1>j DEF Named, Half, OkayFromPeer, Binds
<1>14. Continues(A, a)
  BY <1>0 DEF Half
<1>15. Continues(B, b2)
  BY <1>0, <1>g, <1>j DEF Named, Half, Continues, Binds
<1>16. ASSUME up PROVE PeerKnows(A, B, a)
  BY <1>0, <1>16, <1>g, <1>t, <1>j DEF Named, Half, PeerKnows, Binds
<1>17. ASSUME up PROVE PeerKnows(B, A, b2)
  BY <1>0, <1>17, <1>g, <1>t, <1>j DEF Named, Half, PeerKnows, Binds
<1>18. ASSUME up PROVE Accounted(A, B, a)
  BY <1>0, <1>18, <1>g, <1>j DEF Named, Half, Accounted, Binds
<1>19. ASSUME up PROVE Accounted(B, A, b2)
  BY <1>0, <1>19, <1>g, <1>j DEF Named, Half, Accounted, Binds
<1> QED
  BY <1>1, <1>2, <1>3, <1>4, <1>5, <1>7, <1>8, <1>9, <1>10, <1>11, <1>12, <1>13, <1>14, <1>15,
     <1>16, <1>17, <1>18, <1>19 DEF Streams, Half

\* An OPEN at the head holds the one credit of its sender, which is not tied.
LEMMA HeadIsUnopened ==
  ASSUME NEW A, NEW B, NEW a, NEW b, NEW na, NEW nb, NEW up,
         Tables(A, B, a, b, na, nb), Streams(A, B, a, b, na, nb, up),
         a # <<>>, a[1].cmd = "OPEN", NEW a2 \in Seq(Packet), Dropped(a, a2)
  PROVE  /\ a[1].arg0 \in Id /\ a[1].arg0 < nb
         /\ Spent(A, a2, b, a[1].arg0) /\ "R" \notin B[a[1].arg0].want
         /\ \A i \in Id : ~Tied(A, B, a2, b, i, a[1].arg0)
<1>0. Half(A, B, a, b, na, nb, up)
  BY DEF Streams
<1>1. Named(A, a) /\ Shifted(a, a2)
  BY <1>0, NamesAreIds, Dropping DEF Tables
<1>2. a[1].arg0 \in Id /\ a[1].arg0 < nb /\ Carries(a[1])
  BY <1>0, <1>1 DEF Half, Named, Given, Shifted, Carries, Tables
<1>3. \A n \in 1 .. Len(a2) : Carries(a2[n]) => a2[n].arg0 # a[1].arg0
  BY <1>0, <1>1, <1>2 DEF Half, OneCredit, OneSent, Shifted
<1>4. Spent(A, a2, b, a[1].arg0) /\ "R" \notin B[a[1].arg0].want
  BY <1>0, <1>1, <1>2, <1>3
     DEF Half, OneCredit, SentOrAcked, SentOrHeld, SentOrReads, Spent, Shifted
<1>5. \A i \in Id : ~Tied(A, B, a, b, i, a[1].arg0)
  BY <1>0, <1>1 DEF Half, Unopened, Shifted
<1>6. \A i \in Id : Tied(A, B, a2, b, i, a[1].arg0) => Tied(A, B, a, b, i, a[1].arg0)
  BY <1>1 DEF Tied, Ties, Shifted
<1> QED  BY <1>2, <1>4, <1>5, <1>6

\* A new socket is tied to one that nothing was tied to, and answers it.
LEMMA AcceptStep ==
  ASSUME NEW A, NEW B, NEW a, NEW b, NEW na, NEW nb, NEW up,
         Tables(A, B, a, b, na, nb), Streams(A, B, a, b, na, nb, up),
         na \in Id, NEW k \in Id, k < nb, Spent(A, a, b, k), "R" \notin B[k].want,
         \A i \in Id : ~Tied(A, B, a, b, i, k),
         NEW so, Shape(so), so.st = "open", so.peer = k, so.q = <<>>, so.got = 0, so.out = 0,
         NEW A2 \in [Id -> Socket], Changed(A, A2, na, so),
         NEW b2 \in Seq(Packet), Extended(b, b2, OKAY(na, k), up)
  PROVE  Streams(A2, B, a, b2, na + 1, nb, up)
<1>0. Half(A, B, a, b, na, nb, up) /\ Half(B, A, b, a, nb, na, up)
  BY DEF Streams
<1>g. Named(A, a) /\ Named(B, b)
  BY <1>0, NamesAreIds, TablesSwap
<1>t. /\ 0 \notin Id /\ na \in Nat \ {0} /\ nb \in Nat \ {0}
      /\ Len(a) \in Nat /\ Len(b) \in Nat
  BY MaxIdAssumption DEF Tables, Id
<1>z. /\ \A n \in 1 .. Len(a) : Binds(a[n]) => a[n].arg1 # na
      /\ \A n \in 1 .. Len(b) : /\ Carries(b[n]) => b[n].arg0 # na
                                /\ Binds(b[n]) => b[n].arg0 # na
      /\ \A l \in Id : B[l].peer # na /\ (B[l].q # <<>> => B[l].q[1].arg0 # na)
  <2>1. na \notin 1 .. (na - 1) /\ ~(na < na)
    BY <1>t
  <2> QED  BY <1>0, <2>1 DEF Half, Given, Binds, Carries
<1>p. OKAY(na, k).cmd = "OKAY" /\ OKAY(na, k).arg0 = na /\ OKAY(na, k).arg1 = k
  BY DEF OKAY, Pkt
<1>j. /\ \A m \in 1 .. Len(b2) :
           \/ m \in 1 .. Len(b) /\ b2[m] = b[m]
           \/ m = Len(b) + 1 /\ b2[m].cmd = "OKAY" /\ b2[m].arg0 = na /\ b2[m].arg1 = k
      /\ \A m \in 1 .. Len(b) : m \in 1 .. Len(b2) /\ b2[m] = b[m]
      /\ up => \E m \in 1 .. Len(b2) : b2[m].cmd = "OKAY" /\ b2[m].arg0 = na /\ b2[m].arg1 = k
  BY <1>p DEF Extended
<1>v. A[na].st = "none" /\ A[na].q = <<>> /\ A[na].peer = 0
  BY <1>0, <1>t DEF Half, Given, Shape
<1>w. /\ \A j \in Id : j # na => A2[j] = A[j]
      /\ A2[na].st = "open" /\ A2[na].peer = k /\ A2[na].q = <<>> /\ A2[na].got = 0
      /\ Expected(A2[na]) = 0
      /\ \A j \in Id : A2[j].q = A[j].q
      /\ \A j \in Id : Shape(A2[j])
  BY <1>0, <1>v DEF Changed, Half, Shape, Expected
<1>b. /\ B[k].peer = 0 /\ \A i \in Id : A[i].peer # k
      /\ B[k].st = "open" => B[k].got = 0 /\ Expected(B[k]) = 0
      /\ \A n \in 1 .. Len(a) : Binds(a[n]) => a[n].arg0 # k
  <2>1. B[k].peer = 0
    BY <1>g DEF Tied, Ties, Named
  <2>2. (\A i \in Id : A[i].peer # k) /\ \A n \in 1 .. Len(a) : Binds(a[n]) => a[n].arg0 # k
    BY <1>g DEF Tied, Ties, Named
  <2>3. Shape(B[k])
    BY <1>0 DEF Half
  <2>4. B[k].st = "open" => B[k].got = 0 /\ Expected(B[k]) = 0
    BY <2>1, <2>3 DEF Shape, Expected
  <2> QED  BY <2>1, <2>2, <2>4
<1>6. \A i, l \in Id : Tied(A2, B, a, b2, i, l) => Tied(A, B, a, b, i, l) \/ (i = na /\ l = k)
  BY <1>w, <1>j DEF Tied, Ties
<1>n. \A l \in Id : ~Tied(A, B, a, b, na, l)
  BY <1>z, <1>v, <1>t DEF Tied, Ties
<1>1. \A i \in Id : Shape(A2[i])
  BY <1>0, <1>w DEF Half
<1>2. Given(A2, B, a, na + 1, nb)
  <2>1. \A j \in Id : /\ j >= na + 1 => A2[j].st = "none"
                      /\ A2[j].peer < nb
                      /\ A2[j].q # <<>> => A2[j].q[1].arg0 < nb
    <3>1. \A j \in Id : j >= na + 1 => j >= na /\ j # na
      BY <1>t DEF Id
    <3> QED  BY <1>0, <1>w, <3>1 DEF Half, Given
  <2>2. \A n \in 1 .. Len(a) : /\ a[n].cmd # "CLSE" => a[n].arg0 \in 1 .. (nb - 1)
                               /\ Binds(a[n]) => a[n].arg1 \in 1 .. ((na + 1) - 1)
    BY <1>0, <1>t DEF Half, Given
  <2> QED  BY <2>1, <2>2 DEF Given
<1>3. Given(B, A2, b2, nb, na + 1)
  <2>1. \A x \in Int : x < na => x < na + 1
    BY <1>t
  <2>2. \A x : x \in 1 .. (na - 1) \/ x = na => x \in 1 .. ((na + 1) - 1)
    BY <1>t
  <2>3. \A l \in Id : B[l].peer \in Int /\ (B[l].q # <<>> => B[l].q[1].arg0 \in Int)
    BY <1>g, <1>t DEF Named, Id
  <2>4. \A l \in Id : /\ l >= nb => B[l].st = "none"
                      /\ B[l].peer < na + 1
                      /\ B[l].q # <<>> => B[l].q[1].arg0 < na + 1
    BY <1>0, <2>1, <2>3 DEF Half, Given
  <2>5. k \in 1 .. (nb - 1)
    BY <1>t DEF Id
  <2>6. \A n \in 1 .. Len(b2) : /\ b2[n].cmd # "CLSE" => b2[n].arg0 \in 1 .. ((na + 1) - 1)
                                /\ Binds(b2[n]) => b2[n].arg1 \in 1 .. (nb - 1)
    BY <1>0, <1>j, <2>2, <2>5 DEF Half, Given, Binds
  <2> QED  BY <2>4, <2>6 DEF Given
<1>4. OneCredit(A2, B, a, b2)
  <2>1. OneAcked(b2)
    <3>1. \A m \in 1 .. Len(b2) : b2[m].cmd = "OKAY" /\ b2[m].arg1 = k => m = Len(b) + 1
      BY <1>j DEF Spent
    <3>2. \A m \in 1 .. Len(b2) : (m \in 1 .. Len(b) /\ b2[m] = b[m]) \/ b2[m].arg1 = k
      BY <1>j
    <3> QED  BY <1>0, <3>1, <3>2 DEF Half, OneCredit, OneAcked
  <2>2. OneHeld(A2)
    BY <1>0, <1>g, <1>w DEF Half, OneCredit, Named, OneHeld
  <2>3. SentOrAcked(a, b2)
    BY <1>0, <1>g, <1>j DEF Spent, Half, OneCredit, Named, SentOrAcked, Carries, Binds
  <2>4. SentOrHeld(A2, a)
    BY <1>0, <1>g, <1>w DEF Half, OneCredit, Named, SentOrHeld, Carries
  <2>5. AckedOrHeld(A2, b2)
    <3>1. AckedOrHeld(A, b2)
      BY <1>0, <1>j DEF Half, OneCredit, AckedOrHeld, Spent
    <3> QED  BY <1>w, <3>1 DEF AckedOrHeld
  <2>6. AckedOrReads(B, b2)
    BY <1>0, <1>g, <1>j DEF Half, OneCredit, Named, AckedOrReads, Binds
  <2>7. HeldOrReads(A2, B)
    BY <1>0, <1>g, <1>w DEF Half, OneCredit, Named, HeldOrReads
  <2> QED  BY <1>0, <2>1, <2>2, <2>3, <2>4, <2>5, <2>6, <2>7 DEF Half, OneCredit
<1>5. OneCredit(B, A2, b2, a)
  <2>1. OneSent(b2)
    BY <1>0, <1>g, <1>j DEF Half, OneCredit, Named, OneSent, Carries
  <2>2. SentOrAcked(b2, a)
    BY <1>0, <1>g, <1>j DEF Spent, Half, OneCredit, Named, SentOrAcked, Carries, Binds
  <2>3. SentOrHeld(B, b2)
    BY <1>0, <1>g, <1>j DEF Spent, Half, OneCredit, Named, SentOrHeld, Carries
  <2>4. SentOrReads(A2, b2)
    <3> SUFFICES ASSUME NEW m \in 1 .. Len(b2), Carries(b2[m]) PROVE "R" \notin A2[b2[m].arg0].want
      BY DEF SentOrReads
    <3>1. m \in 1 .. Len(b) /\ b2[m] = b[m] /\ b2[m].arg0 \in Id /\ b2[m].arg0 # na
      BY <1>j, <1>g, <1>z DEF Carries, Named
    <3> QED  BY <1>0, <1>w, <3>1 DEF Half, OneCredit, SentOrReads
  <2>5. AckedOrReads(A2, a)
    BY <1>0, <1>g, <1>w, <1>z DEF Half, OneCredit, AckedOrReads, Named, Binds
  <2>6. HeldOrReads(B, A2)
    BY <1>0, <1>g, <1>w, <1>z DEF Half, OneCredit, HeldOrReads, Named
  <2> QED  BY <1>0, <2>1, <2>2, <2>3, <2>4, <2>5, <2>6 DEF Half, OneCredit
<1>7. TiedOnce(A2, B, a, b2) /\ TiedOnce(B, A2, b2, a)
  <2>1. TiedOnce(A2, B, a, b2)
    BY <1>0, <1>6, <1>n DEF Half, TiedOnce
  <2>2. \A i, l \in Id : /\ Tied(B, A2, b2, a, l, i) <=> Tied(A2, B, a, b2, i, l)
                         /\ Tied(B, A, b, a, l, i) <=> Tied(A, B, a, b, i, l)
    BY DEF Tied
  <2>3. TiedOnce(B, A2, b2, a)
    BY <1>0, <1>6, <2>2 DEF Half, TiedOnce
  <2> QED  BY <2>1, <2>3
<1>8. Unopened(A2, B, a, b2)
  <2>1. \A n \in 1 .. Len(a) : a[n].cmd = "OPEN" => a[n].arg0 \in Id /\ a[n].arg0 # k
    BY <1>g DEF Named, Spent, Carries
  <2> QED  BY <1>0, <1>6, <2>1 DEF Half, Unopened
<1>9. Unopened(B, A2, b2, a)
  <2>1. \A n \in 1 .. Len(b2) : b2[n].cmd = "OPEN" => /\ n \in 1 .. Len(b) /\ b2[n] = b[n]
                                                      /\ b[n].arg0 \in Id /\ b[n].arg0 # na
    BY <1>j, <1>g, <1>z DEF Named, Carries
  <2>2. \A l, i \in Id : Tied(B, A2, b2, a, l, i) => Tied(B, A, b, a, l, i) \/ i = na
    BY <1>6 DEF Tied
  <2> QED  BY <1>0, <2>1, <2>2 DEF Half, Unopened
<1>10. Announced(A2, a)
  BY SMTT(30), <1>0, <1>g, <1>w, <1>z DEF Half, Announced, Named, Binds
<1>11. Announced(B, b2)
  BY <1>0, <1>p, JoinAnnounced DEF Tables, Half
<1>12. OkayFromPeer(B, a)
  BY <1>0 DEF Half
<1>13. OkayFromPeer(A2, b2)
  <2> SUFFICES ASSUME NEW n \in 1 .. Len(b2), b2[n].cmd = "OKAY", A2[b2[n].arg0].st = "open"
               PROVE  A2[b2[n].arg0].peer = b2[n].arg1
    BY DEF OkayFromPeer
  <2>1. CASE n \in 1 .. Len(b) /\ b2[n] = b[n]
    BY <1>0, <1>g, <1>w, <1>z, <2>1 DEF Half, OkayFromPeer, Named, Binds
  <2>2. CASE b2[n].arg0 = na /\ b2[n].arg1 = k
    BY <1>w, <2>2
  <2> QED  BY <1>j, <2>1, <2>2
<1>14. Continues(A2, a)
  BY <1>0, <1>g, <1>w, <1>z DEF Half, Continues, Named, Binds
<1>15. Continues(B, b2)
  BY <1>0, <1>j DEF Half, Continues
<1>16. ASSUME up PROVE PeerKnows(A2, B, a)
  BY <1>0, <1>16, <1>w, <1>z DEF Half, PeerKnows
<1>17. ASSUME up PROVE PeerKnows(B, A2, b2)
  <2> SUFFICES ASSUME NEW l \in Id, NEW i \in Id, A2[i].peer = l, B[l].st = "open", B[l].peer # i
               PROVE  \E m \in 1 .. Len(b2) : b2[m].cmd = "OKAY" /\ b2[m].arg0 = i /\ b2[m].arg1 = l
    BY DEF PeerKnows
  <2>1. CASE i = na
    BY <1>j, <1>w, <1>17, <2>1
  <2>2. CASE i # na
    <3>1. PICK m \in 1 .. Len(b) : b[m].cmd = "OKAY" /\ b[m].arg0 = i /\ b[m].arg1 = l
      BY <1>0, <1>17, <1>w, <2>2 DEF Half, PeerKnows
    <3> QED  BY <1>j, <3>1
  <2> QED  BY <2>1, <2>2
<1>18. ASSUME up PROVE Accounted(A2, B, a)
  <2> SUFFICES ASSUME NEW i \in Id, NEW l \in Id, A2[i].st = "open", B[l].st = "open",
                      A2[i].peer = l \/ B[l].peer = i
               PROVE  \/ \E n \in 1 .. Len(a) : /\ a[n].cmd = "WRTE" /\ a[n].arg0 = l
                                                /\ B[l].got = a[n].off + a[n].len
                      \/ /\ B[l].got = Expected(A2[i])
                         /\ \A n \in 1 .. Len(a) : ~(a[n].cmd = "WRTE" /\ a[n].arg0 = l)
    BY DEF Accounted
  <2>1. CASE i = na
    <3>1. l = k
      BY <1>w, <1>z, <2>1
    <3> QED  BY <1>b, <1>w, <2>1, <3>1 DEF Binds
  <2>2. CASE i # na
    BY <1>0, <1>18, <1>w, <2>2 DEF Half, Accounted
  <2> QED  BY <2>1, <2>2
<1>19. ASSUME up PROVE Accounted(B, A2, b2)
  <2> SUFFICES ASSUME NEW l \in Id, NEW i \in Id, B[l].st = "open", A2[i].st = "open",
                      B[l].peer = i \/ A2[i].peer = l
               PROVE  \/ \E n \in 1 .. Len(b2) : /\ b2[n].cmd = "WRTE" /\ b2[n].arg0 = i
                                                 /\ A2[i].got = b2[n].off + b2[n].len
                      \/ /\ A2[i].got = Expected(B[l])
                         /\ \A n \in 1 .. Len(b2) : ~(b2[n].cmd = "WRTE" /\ b2[n].arg0 = i)
    BY DEF Accounted
  <2>1. CASE i = na
    <3>1. l = k
      BY <1>w, <1>z, <2>1
    <3>2. \A n \in 1 .. Len(b2) : ~(b2[n].cmd = "WRTE" /\ b2[n].arg0 = na)
      BY <1>j, <1>z DEF Carries
    <3> QED  BY <1>b, <1>w, <2>1, <3>1, <3>2
  <2>2. CASE i # na
    <3>1. \A n \in 1 .. Len(b2) : b2[n].cmd = "WRTE" => n \in 1 .. Len(b) /\ b2[n] = b[n]
      BY <1>j
    <3>2. \/ \E n \in 1 .. Len(b) : /\ b[n].cmd = "WRTE" /\ b[n].arg0 = i
                                    /\ A[i].got = b[n].off + b[n].len
          \/ /\ A[i].got = Expected(B[l])
             /\ \A n \in 1 .. Len(b) : ~(b[n].cmd = "WRTE" /\ b[n].arg0 = i)
      BY <1>0, <1>19, <1>w, <2>2 DEF Half, Accounted
    <3> QED  BY <1>j, <1>w, <2>2, <3>1, <3>2
  <2> QED  BY <2>1, <2>2
<1> QED
  BY <1>1, <1>2, <1>3, <1>4, <1>5, <1>7, <1>8, <1>9, <1>10, <1>11, <1>12, <1>13, <1>14, <1>15,
     <1>16, <1>17, <1>18, <1>19 DEF Streams, Half

\* The link breaks, and the end of each channel is lost.
Cut(c, c2) == \A n \in 1 .. Len(c2) : n \in 1 .. Len(c) /\ c2[n] = c[n]

LEMMA BreakStep ==
  ASSUME NEW A, NEW B, NEW a, NEW b, NEW na, NEW nb, NEW up,
         Tables(A, B, a, b, na, nb), Streams(A, B, a, b, na, nb, up),
         NEW a2 \in Seq(Packet), Cut(a, a2), NEW b2 \in Seq(Packet), Cut(b, b2)
  PROVE  Streams(A, B, a2, b2, na, nb, FALSE)
<1>0. Half(A, B, a, b, na, nb, up) /\ Half(B, A, b, a, nb, na, up)
  BY DEF Streams
<1>g. Named(A, a) /\ Named(B, b)
  BY <1>0, NamesAreIds, TablesSwap
<1>t. /\ 0 \notin Id /\ na \in Nat \ {0} /\ nb \in Nat \ {0}
      /\ Len(a) \in Nat /\ Len(b) \in Nat
  BY MaxIdAssumption DEF Tables, Id
<1>1. \A i \in Id : Shape(A[i])
  BY <1>0 DEF Half
<1>2. Given(A, B, a2, na, nb)
  BY <1>0, <1>g, <1>t DEF Half, Given, Named, Binds, Cut
<1>3. Given(B, A, b2, nb, na)
  BY <1>0, <1>g, <1>t DEF Half, Given, Named, Binds, Cut
<1>4. OneCredit(A, B, a2, b2)
  <2>1. OneSent(a2)
    BY <1>0, <1>g DEF Half, OneCredit, Named, OneSent, Carries, Cut
  <2>2. OneAcked(b2)
    BY <1>0, <1>g DEF Half, OneCredit, Named, OneAcked, Binds, Cut
  <2>3. SentOrAcked(a2, b2)
    BY <1>0, <1>g DEF Half, OneCredit, Named, SentOrAcked, Carries, Binds, Cut
  <2>4. SentOrHeld(A, a2)
    BY <1>0, <1>g DEF Half, OneCredit, Named, SentOrHeld, Carries, Cut
  <2>5. AckedOrHeld(A, b2)
    BY <1>0, <1>g DEF Half, OneCredit, Named, AckedOrHeld, Binds, Cut
  <2>6. SentOrReads(B, a2)
    BY <1>0, <1>g DEF Half, OneCredit, Named, SentOrReads, Carries, Cut
  <2>7. AckedOrReads(B, b2)
    BY <1>0, <1>g DEF Half, OneCredit, Named, AckedOrReads, Binds, Cut
  <2> QED  BY <1>0, <2>1, <2>2, <2>3, <2>4, <2>5, <2>6, <2>7 DEF Half, OneCredit
<1>5. OneCredit(B, A, b2, a2)
  <2>1. OneSent(b2)
    BY <1>0, <1>g DEF Half, OneCredit, Named, OneSent, Carries, Cut
  <2>2. OneAcked(a2)
    BY <1>0, <1>g DEF Half, OneCredit, Named, OneAcked, Binds, Cut
  <2>3. SentOrAcked(b2, a2)
    BY <1>0, <1>g DEF Half, OneCredit, Named, SentOrAcked, Carries, Binds, Cut
  <2>4. SentOrHeld(B, b2)
    BY <1>0, <1>g DEF Half, OneCredit, Named, SentOrHeld, Carries, Cut
  <2>5. AckedOrHeld(B, a2)
    BY <1>0, <1>g DEF Half, OneCredit, Named, AckedOrHeld, Binds, Cut
  <2>6. SentOrReads(A, b2)
    BY <1>0, <1>g DEF Half, OneCredit, Named, SentOrReads, Carries, Cut
  <2>7. AckedOrReads(A, a2)
    BY <1>0, <1>g DEF Half, OneCredit, Named, AckedOrReads, Binds, Cut
  <2> QED  BY <1>0, <2>1, <2>2, <2>3, <2>4, <2>5, <2>6, <2>7 DEF Half, OneCredit
<1>6. \A i, k \in Id : Tied(A, B, a2, b2, i, k) => Tied(A, B, a, b, i, k)
  BY <1>0, <1>g, <1>t DEF Half, Named, Tied, Ties, Binds, Cut
<1>7. TiedOnce(A, B, a2, b2) /\ TiedOnce(B, A, b2, a2)
  BY <1>0, <1>6, FewerTies DEF Half
<1>8. Unopened(A, B, a2, b2)
  BY <1>0, <1>6, <1>g DEF Named, Half, Unopened, Cut
<1>9. Unopened(B, A, b2, a2)
  BY <1>0, <1>6, <1>g DEF Named, Half, Unopened, Tied, Cut
<1>10. Announced(A, a2)
  <2> SUFFICES ASSUME NEW n \in 1 .. Len(a2), a2[n].cmd = "WRTE", A[a2[n].arg1].st = "open",
                      A[a2[n].arg1].peer # a2[n].arg0
               PROVE  \E m \in 1 .. (n - 1) :
                        a2[m].cmd = "OKAY" /\ a2[m].arg0 = a2[n].arg0 /\ a2[m].arg1 = a2[n].arg1
    BY DEF Announced
  <2>1. n \in 1 .. Len(a) /\ a2[n] = a[n]
    BY DEF Cut
  <2>2. PICK m \in 1 .. (n - 1) :
          a[m].cmd = "OKAY" /\ a[m].arg0 = a2[n].arg0 /\ a[m].arg1 = a2[n].arg1
    BY <1>0, <2>1 DEF Half, Announced
  <2>3. m \in 1 .. Len(a2) /\ a2[m] = a[m]
    BY DEF Cut
  <2> QED  BY <2>2, <2>3
<1>11. Announced(B, b2)
  <2> SUFFICES ASSUME NEW n \in 1 .. Len(b2), b2[n].cmd = "WRTE", B[b2[n].arg1].st = "open",
                      B[b2[n].arg1].peer # b2[n].arg0
               PROVE  \E m \in 1 .. (n - 1) :
                        b2[m].cmd = "OKAY" /\ b2[m].arg0 = b2[n].arg0 /\ b2[m].arg1 = b2[n].arg1
    BY DEF Announced
  <2>1. n \in 1 .. Len(b) /\ b2[n] = b[n]
    BY DEF Cut
  <2>2. PICK m \in 1 .. (n - 1) :
          b[m].cmd = "OKAY" /\ b[m].arg0 = b2[n].arg0 /\ b[m].arg1 = b2[n].arg1
    BY <1>0, <2>1 DEF Half, Announced
  <2>3. m \in 1 .. Len(b2) /\ b2[m] = b[m]
    BY DEF Cut
  <2> QED  BY <2>2, <2>3
<1>12. OkayFromPeer(B, a2)
  BY <1>0, <1>g DEF Named, Half, OkayFromPeer, Binds, Cut
<1>13. OkayFromPeer(A, b2)
  BY <1>0, <1>g DEF Named, Half, OkayFromPeer, Binds, Cut
<1>14. Continues(A, a2)
  BY <1>0, <1>g DEF Named, Half, Continues, Binds, Cut
<1>15. Continues(B, b2)
  BY <1>0, <1>g DEF Named, Half, Continues, Binds, Cut
<1>16. ASSUME FALSE PROVE PeerKnows(A, B, a2)
  BY <1>16
<1>17. ASSUME FALSE PROVE PeerKnows(B, A, b2)
  BY <1>17
<1>18. ASSUME FALSE PROVE Accounted(A, B, a2)
  BY <1>18
<1>19. ASSUME FALSE PROVE Accounted(B, A, b2)
  BY <1>19
<1> QED
  BY <1>1, <1>2, <1>3, <1>4, <1>5, <1>7, <1>8, <1>9, <1>10, <1>11, <1>12, <1>13, <1>14, <1>15,
     <1>16, <1>17, <1>18, <1>19 DEF Streams, Half


-----------------------------------------------------------------------------
(* What the functions of sockets.c do to a side: moves, made of the steps. *)

Good(A, B, a, b, na, nb, up) ==
  Tables(A, B, a, b, na, nb) /\ Streams(A, B, a, b, na, nb, up)

\* The side with socket i replaced, and the channel with packets sent into it.
Put(A, i, so) == [A EXCEPT ![i] = so]
Snd(b, packets, up) == IF up THEN b \o packets ELSE b

LEMMA PutFacts ==
  ASSUME NEW A \in [Id -> Socket], NEW i \in Id, NEW so \in Socket
  PROVE  /\ Put(A, i, so) \in [Id -> Socket]
         /\ Changed(A, Put(A, i, so), i, so)
         /\ Put(A, i, so)[i] = so
         /\ \A so2 : Put(Put(A, i, so), i, so2) = Put(A, i, so2)
BY DEF Put, Changed

LEMMA SndFacts ==
  ASSUME NEW b \in Seq(Packet), NEW up \in BOOLEAN
  PROVE  /\ Snd(b, <<>>, up) = b
         /\ \A x \in Seq(Packet) : Snd(b, x, up) \in Seq(Packet)
         /\ \A x, y \in Seq(Packet) : Snd(Snd(b, x, up), y, up) = Snd(b, x \o y, up)
         /\ \A p \in Packet : /\ Snd(b, <<p>>, up) \in Seq(Packet)
                              /\ Extended(b, Snd(b, <<p>>, up), p, up)
<1>1. Snd(b, <<>>, up) = b
  BY ConcatEmptySeq DEF Snd
<1>2. \A x \in Seq(Packet) : Snd(b, x, up) \in Seq(Packet)
  BY ConcatProperties DEF Snd
<1>3. \A x, y \in Seq(Packet) : Snd(Snd(b, x, up), y, up) = Snd(b, x \o y, up)
  <2> SUFFICES ASSUME NEW x \in Seq(Packet), NEW y \in Seq(Packet)
               PROVE  Snd(Snd(b, x, up), y, up) = Snd(b, x \o y, up)
    OBVIOUS
  <2>1. (b \o x) \o y = b \o (x \o y)
    BY ConcatAssociative
  <2> QED  BY <2>1, Zenon DEF Snd
<1>4. \A p \in Packet : /\ Snd(b, <<p>>, up) \in Seq(Packet)
                        /\ Extended(b, Snd(b, <<p>>, up), p, up)
  BY Sending DEF Snd
<1> QED  BY <1>1, <1>2, <1>3, <1>4

LEMMA TailFacts ==
  ASSUME NEW a \in Seq(Packet), a # <<>>
  PROVE  Head(a) = a[1] /\ a[1] \in Packet /\ Tail(a) \in Seq(Packet) /\ Dropped(a, Tail(a))
<1>1. /\ Head(a) = a[1] /\ Head(a) \in Packet /\ Tail(a) \in Seq(Packet)
      /\ Len(Tail(a)) = Len(a) - 1 /\ \A n \in 1 .. Len(Tail(a)) : Tail(a)[n] = a[n + 1]
  BY HeadTailProperties
<1>2. Len(a) \in Nat
  OBVIOUS
<1> QED  BY <1>1, <1>2 DEF Dropped

\* Closing a socket, and telling its peer.
LEMMA CloseEnds ==
  ASSUME NEW so, Shape(so), so.st \in {"open", "closing"},
         NEW alone, alone.q = so.q, NEW c, CloseFacts(alone, c)
  PROVE  Ends(so, c.so)
<1>1. c.so.st \in {"closing", "freed"} /\ c.so.peer = 0 /\ "R" \notin c.so.want
  BY DEF CloseFacts
<1>2. c.so.q = so.q \/ c.so.q = <<>>
  BY DEF CloseFacts
<1>3. c.so.st = "freed" => c.so.q = <<>> /\ c.so.want = {} /\ c.so.pend = {}
  BY DEF CloseFacts
<1> QED  BY <1>1, <1>2, <1>3 DEF Ends, Shape

LEMMA CloseMove ==
  ASSUME NEW A, NEW B, NEW a, NEW b, NEW na, NEW nb, NEW up \in BOOLEAN,
         Good(A, B, a, b, na, nb, up), NEW i \in Id, A[i].st \in {"open", "closing"},
         NEW c, CloseFacts(A[i], c)
  PROVE  Good(Put(A, i, c.so), B, a, Snd(b, c.sent, up), na, nb, up)
<1> DEFINE A2 == Put(A, i, c.so)
<1>1. Tables(A, B, a, b, na, nb) /\ Streams(A, B, a, b, na, nb, up) /\ b \in Seq(Packet)
  BY DEF Good, Tables
<1>2. c.so \in Socket
  BY DEF CloseFacts, SocketOK
<1>3. A2 \in [Id -> Socket] /\ Changed(A, A2, i, c.so)
  BY <1>1, <1>2, PutFacts DEF Tables
<1> HIDE DEF A2
<1>4. Shape(A[i])
  BY <1>1 DEF Streams, Half
<1>5. Ends(A[i], c.so)
  BY <1>4, CloseEnds
<1>6. Tables(A2, B, a, b, na, nb)
  BY <1>1, <1>3 DEF Tables
<1>7. \A j \in Id : A2[j] = A[j] \/ Ends(A[j], A2[j])
  BY <1>3, <1>5 DEF Changed
<1>8. Streams(A2, B, a, b, na, nb, up)
  BY <1>1, <1>3, <1>7, EndStep
<1>9. CASE A[i].peer = 0
  <2>1. c.sent = <<>>
    BY <1>9 DEF CloseFacts
  <2>2. Snd(b, c.sent, up) = b
    BY <1>1, <2>1, SndFacts
  <2> QED  BY <1>6, <1>8, <2>2 DEF Good, A2
<1>10. CASE A[i].peer # 0
  <2> DEFINE p == CLSE(0, A[i].peer)
             b2 == Snd(b, c.sent, up)
  <2>1. c.sent = <<p>>
    BY <1>10 DEF CloseFacts
  <2>2. p \in Packet /\ p.cmd = "CLSE"
    <3>1. A[i].peer \in 0 .. MaxId /\ 0 \in 0 .. MaxId
      BY <1>1, MaxIdAssumption DEF Tables, Socket
    <3> QED  BY <3>1, PacketTypes DEF CLSE, Pkt
  <2> HIDE DEF p
  <2>3. b2 \in Seq(Packet) /\ Extended(b, b2, p, up)
    BY <1>1, <2>1, <2>2, SndFacts
  <2> HIDE DEF b2
  <2>4. Streams(A2, B, a, b2, na, nb, up)
    BY <1>6, <1>8, <2>2, <2>3, ClseStep
  <2>5. Tables(A2, B, a, b2, na, nb)
    BY <1>6, <2>3 DEF Tables
  <2> QED  BY <2>4, <2>5 DEF Good, A2, b2
<1> QED  BY <1>9, <1>10

\* A socket changes in a way the invariant does not see.
LEMMA QuietMove ==
  ASSUME NEW A, NEW B, NEW a, NEW b, NEW na, NEW nb, NEW up,
         Good(A, B, a, b, na, nb, up), NEW i \in Id,
         NEW so \in Socket, Same(A[i], so, up)
  PROVE  Good(Put(A, i, so), B, a, b, na, nb, up)
<1> DEFINE A2 == Put(A, i, so)
<1>1. Tables(A, B, a, b, na, nb) /\ Streams(A, B, a, b, na, nb, up)
  BY DEF Good
<1>2. A2 \in [Id -> Socket] /\ Changed(A, A2, i, so)
  BY <1>1, PutFacts DEF Tables
<1> HIDE DEF A2
<1>3. \A j \in Id : Same(A[j], A[j], up)
  BY <1>1 DEF Streams, Half, Same
<1>4. \A j \in Id : Same(A[j], A2[j], up)
  BY <1>2, <1>3 DEF Changed
<1>5. Streams(A2, B, a, b, na, nb, up)
  BY <1>1, <1>2, <1>4, QuietStep
<1>6. Tables(A2, B, a, b, na, nb)
  BY <1>1, <1>2 DEF Tables
<1> QED  BY <1>5, <1>6 DEF Good, A2

\* FDE_WRITE: the backlog shrinks, or is gone and the peer is sent its OKAY, or
\* the socket is closed.  What goes on to FDE_READ still listens as before.
LEMMA WriteMove ==
  ASSUME NEW A, NEW B, NEW a, NEW b, NEW na, NEW nb, NEW up \in BOOLEAN,
         Good(A, B, a, b, na, nb, up), NEW i \in Id, SocketOK(A[i]),
         A[i].st \in {"open", "closing"}, A[i].st = "open" => A[i].q # <<>>,
         A[i].pend = {}, NEW e, WriteFacts(i, A[i], e)
  PROVE  /\ Good(Put(A, i, e.so), B, a, Snd(b, e.sent, up), na, nb, up)
         /\ e.ret = 1 \/ /\ e.so.st = "open" /\ e.so.pend = {}
                         /\ "R" \in A[i].want => "R" \in e.so.want
<1> DEFINE so == A[i]
           A2 == Put(A, i, e.so)
<1>1. Tables(A, B, a, b, na, nb) /\ Streams(A, B, a, b, na, nb, up) /\ b \in Seq(Packet)
  BY DEF Good, Tables
<1>2. Shape(so)
  BY <1>1 DEF Streams, Half
<1>3. e.so \in Socket
  BY DEF WriteFacts, SocketOK
<1>4. A2 \in [Id -> Socket] /\ Changed(A, A2, i, e.so)
  BY <1>1, <1>3, PutFacts DEF Tables
<1>5. so.q \in Seq(Entry) /\ so.peer \in 0 .. MaxId
  BY DEF SocketOK, Socket
<1> HIDE DEF A2, so
<1>6. CASE CloseFacts(so, e)
  <2>1. Good(Put(A, i, e.so), B, a, Snd(b, e.sent, up), na, nb, up)
    BY <1>6, CloseMove DEF so
  <2> QED  BY <1>6, <2>1 DEF CloseFacts
<1>7. CASE /\ SameStream(so, e.so) /\ e.sent = <<>> /\ e.ret = 1
           /\ e.so.want = so.want /\ e.so.q # <<>> /\ e.so.got = so.got
           /\ \E done \in 0 .. Len(so.q) : e.so.q = SubSeq(so.q, done + 1, Len(so.q))
  <2>1. e.so.q = so.q
    <3>1. PICK done \in 0 .. Len(so.q) : e.so.q = SubSeq(so.q, done + 1, Len(so.q))
      BY <1>7
    <3>2. SubSeq(so.q, 1, Len(so.q)) = so.q
      BY <1>5, SubSeqFull
    <3>3. \A k \in 0 .. Len(so.q) : k >= Len(so.q) => SubSeq(so.q, k + 1, Len(so.q)) = <<>>
      <4> TAKE k \in 0 .. Len(so.q)
      <4> HAVE k >= Len(so.q)
      <4> QED  BY <1>5, SubSeqEmpty
    <3>4. done < Len(so.q)
      BY <1>7, <3>1, <3>3
    <3>5. Len(so.q) = 1
      <4>1. so.q = <<>> => Len(so.q) = 0
        OBVIOUS
      <4> QED  BY <1>2, <1>5, <3>4, <4>1 DEF Shape
    <3>6. done = 0
      BY <3>4, <3>5
    <3> QED  BY <3>1, <3>2, <3>6
  <2>2. /\ e.so.st = so.st /\ e.so.peer = so.peer /\ e.so.pend = {}
        /\ e.so.want = so.want /\ e.so.got = so.got /\ e.so.q # <<>>
    BY <1>7 DEF SameStream, so
  <2>3. so.peer # 0 \/ so.st # "open"
    <3>1. so.q # <<>>
      BY <2>1, <2>2
    <3> QED  BY <1>2, <3>1 DEF Shape
  <2>4. Shape(e.so)
    BY <1>2, <2>1, <2>2, <2>3 DEF Shape
  <2>5. Expected(e.so) = Expected(so)
    BY <2>1, <2>2 DEF Expected
  <2>6. Same(so, e.so, up)
    BY <2>1, <2>2, <2>4, <2>5 DEF Same
  <2>7. Good(Put(A, i, e.so), B, a, b, na, nb, up)
    BY <1>3, <2>6, QuietMove DEF so
  <2>8. Snd(b, e.sent, up) = b
    BY <1>1, <1>7, SndFacts
  <2> QED  BY <1>7, <2>7, <2>8
<1>8. so.peer = 0 => so.st = "closing"
  BY <1>2 DEF Shape, so
<1>9. CASE /\ so.st # "closing" /\ so.peer # 0 /\ SameStream(so, e.so)
           /\ e.sent = <<OKAY(i, so.peer)>> /\ e.ret = 0
           /\ e.so.want = so.want \ {"W"} /\ e.so.q = <<>>
           /\ e.so.got = so.got /\ e.so.src = so.src /\ e.so.shut = so.shut
           /\ Len(so.q) = 1 => e.so.out = so.q[1].upto
  <2>1. so.st = "open" /\ so.q # <<>> /\ so.peer # 0
    BY <1>9 DEF so
  <2>2. /\ e.so.st = "open" /\ e.so.peer = so.peer /\ e.so.pend = {}
        /\ e.so.want = so.want \ {"W"} /\ e.so.got = so.got /\ e.so.q = <<>>
    BY <1>9, <2>1 DEF SameStream, so
  <2>3. Len(so.q) = 1
    BY <1>2, <2>1 DEF Shape
  <2>4. Expected(e.so) = Expected(so)
    BY <1>9, <2>1, <2>2, <2>3 DEF Expected
  <2>5. Shape(e.so)
    BY <2>1, <2>2 DEF Shape
  <2>6. Same(so, e.so, up)
    BY <2>1, <2>2, <2>4, <2>5 DEF Same
  <2>7. Good(A2, B, a, b, na, nb, up)
    BY <1>3, <2>6, QuietMove DEF so, A2
  <2> DEFINE k == so.peer
             p == OKAY(i, k)
             b2 == Snd(b, <<p>>, up)
  <2>8. k \in Id /\ Spent(A2, a, b, k) /\ "R" \notin B[k].want
    BY <1>1, <1>4, <2>1, <2>2, DrainSpends DEF so
  <2>9. p \in Packet
    <3>1. i \in 0 .. MaxId /\ k \in 0 .. MaxId
      BY <1>5, MaxIdAssumption DEF Id
    <3> QED  BY <3>1, PacketTypes
  <2>10. b2 \in Seq(Packet) /\ Extended(b, b2, p, up)
    <3> HIDE DEF p
    <3> QED  BY <1>1, <2>9, SndFacts
  <2>11. A2[i].st = "open" /\ A2[i].peer = k
    BY <1>4, <2>2 DEF Changed
  <2> HIDE DEF b2, k
  <2>12. Streams(A2, B, a, b2, na, nb, up)
    BY <2>7, <2>8, <2>10, <2>11, AckStep DEF Good
  <2>13. Tables(A2, B, a, b2, na, nb)
    BY <2>7, <2>10 DEF Good, Tables
  <2>14. b2 = Snd(b, e.sent, up)
    BY <1>9 DEF b2, k
  <2> QED  BY <2>2, <2>12, <2>13, <2>14 DEF Good, A2, so
<1>10. so.st # "closing" => so.peer # 0
  BY <1>8
<1> QED  BY <1>6, <1>7, <1>9, <1>10 DEF WriteFacts, so

\* FDE_READ: what was read goes to the peer, and the socket stops listening; at
\* the end of the client's bytes it is closed.
LEMMA ReadMove ==
  ASSUME NEW A, NEW B, NEW a, NEW b, NEW na, NEW nb, NEW up \in BOOLEAN,
         Good(A, B, a, b, na, nb, up), NEW i \in Id, SocketOK(A[i]),
         A[i].st \in {"open", "closing"}, A[i].st = "open" => "R" \in A[i].want,
         A[i].pend = {}, NEW e, ReadFacts(i, A[i], e)
  PROVE  Good(Put(A, i, e.so), B, a, Snd(b, e.sent, up), na, nb, up)
<1> DEFINE so == A[i]
<1>1. Tables(A, B, a, b, na, nb) /\ Streams(A, B, a, b, na, nb, up) /\ b \in Seq(Packet)
      /\ A \in [Id -> Socket]
  BY DEF Good, Tables
<1>2. Shape(so)
  BY <1>1 DEF Streams, Half
<1>3. PICK n \in Nat, so2 \in Socket :
        /\ ReadMiddle(so, so2, n)
        /\ \/ e.so = so2 /\ e.sent = ReadSent(i, so, n)
           \/ \E c : /\ CloseFacts(so2, c) /\ c.so.hook = FALSE
                     /\ e.so = c.so /\ e.sent = ReadSent(i, so, n) \o c.sent
  BY DEF ReadFacts
<1> DEFINE A2 == Put(A, i, so2)
           x == ReadSent(i, so, n)
           b2 == Snd(b, x, up)
<1>4. A2 \in [Id -> Socket] /\ Changed(A, A2, i, so2) /\ A2[i] = so2
      /\ \A so3 : Put(A2, i, so3) = Put(A, i, so3)
  BY <1>1, PutFacts
<1>5. /\ so.got \in Nat /\ so.peer \in 0 .. MaxId /\ i \in 0 .. MaxId
      /\ so.peer # 0 => so.peer \in Id
  <2>1. so.got \in Nat /\ so.peer \in 0 .. MaxId
    BY DEF SocketOK, Socket
  <2>2. i \in 0 .. MaxId /\ \A j \in 0 .. MaxId : j # 0 => j \in Id
    BY MaxIdAssumption DEF Id
  <2> QED  BY <2>1, <2>2
<1>6. /\ so2.st = so.st /\ so2.peer = so.peer /\ so2.pend = {} /\ so2.q = so.q
      /\ so2.out = so.out /\ so2.got = so.got + n
      /\ so2.want = (IF n > 0 /\ so.peer # 0 THEN so.want \ {"R"} ELSE so.want)
  BY <1>3 DEF ReadMiddle, SameStream
<1>7. so.st \in {"open", "closing"} /\ (so.st = "open" => "R" \in so.want)
  OBVIOUS
<1> HIDE DEF A2, so, x, b2
<1>8. so.st = "open" => so.peer # 0
  BY <1>2, <1>7 DEF Shape
<1>9. x \in Seq(Packet) /\ Good(A2, B, a, b2, na, nb, up)
  <2>1. CASE n > 0 /\ so.peer # 0
    <3> DEFINE p == WRTE(i, so.peer, so.got, n)
    <3>1. p \in Packet
      BY <1>5, PacketTypes
    <3> HIDE DEF p
    <3>2. x = <<p>>
      BY <2>1 DEF ReadSent, x, p
    <3>3. b2 \in Seq(Packet) /\ Extended(b, b2, p, up)
      BY <1>1, <3>1, <3>2, SndFacts DEF b2
    <3>4. so.st = "open"
      BY <1>2, <2>1 DEF Shape
    <3>5. Drawn(so, so2, n)
      <4>1. Shape(so2)
        BY <1>2, <1>6, <2>1, <3>4 DEF Shape
      <4> QED  BY <1>6, <2>1, <3>4, <4>1 DEF Drawn
    <3>6. so.peer \in Id /\ "R" \in so.want
      BY <1>5, <1>7, <2>1, <3>4
    <3>7. Streams(A2, B, a, b2, na, nb, up)
      BY <1>1, <1>4, <3>3, <3>4, <3>5, <3>6, ReadStep DEF so, p
    <3>8. Tables(A2, B, a, b2, na, nb)
      BY <1>1, <1>4, <3>3 DEF Tables
    <3>9. x \in Seq(Packet)
      BY <3>1, <3>2
    <3> QED  BY <3>7, <3>8, <3>9 DEF Good
  <2>2. CASE ~(n > 0 /\ so.peer # 0)
    <3>1. x = <<>> /\ x \in Seq(Packet)
      BY <2>2, EmptySeq DEF x, ReadSent
    <3>2. b2 = b
      BY <1>1, <3>1, SndFacts DEF b2
    <3>3. so2.want = so.want /\ (so.st = "open" => so2.got = so.got)
      BY <1>5, <1>6, <1>8, <2>2
    <3>4. Shape(so2)
      BY <1>2, <1>6, <3>3 DEF Shape
    <3>5. Expected(so2) = Expected(so)
      BY <1>6 DEF Expected
    <3>6. Same(so, so2, up)
      BY <1>6, <3>3, <3>4, <3>5 DEF Same
    <3> QED  BY <3>1, <3>2, <3>6, QuietMove DEF so, A2
  <2> QED  BY <2>1, <2>2
<1>10. CASE e.so = so2 /\ e.sent = x
  BY <1>9, <1>10 DEF A2, b2
<1>11. ASSUME NEW c, CloseFacts(so2, c), e.so = c.so, e.sent = x \o c.sent
       PROVE  Good(Put(A, i, e.so), B, a, Snd(b, e.sent, up), na, nb, up)
  <2>1. Good(Put(A2, i, c.so), B, a, Snd(b2, c.sent, up), na, nb, up)
    BY <1>4, <1>6, <1>7, <1>9, <1>11, CloseMove
  <2>2. c.sent \in Seq(Packet)
    BY <1>11 DEF CloseFacts
  <2>3. Snd(b2, c.sent, up) = Snd(b, x \o c.sent, up)
    <3>1. \A u, v \in Seq(Packet) : Snd(Snd(b, u, up), v, up) = Snd(b, u \o v, up)
      BY <1>1, SndFacts
    <3> QED  BY <1>9, <2>2, <3>1, Zenon DEF b2
  <2> QED  BY <1>4, <1>11, <2>1, <2>3
<1> QED  BY <1>3, <1>10, <1>11 DEF x

\* A local socket's fdevent function, whatever events it is called with.
LEMMA EventMove ==
  ASSUME NEW A, NEW B, NEW a, NEW b, NEW na, NEW nb, NEW up \in BOOLEAN,
         Good(A, B, a, b, na, nb, up), NEW i \in Id, SocketOK(A[i]), A[i].pend # {},
         NEW e, e = local_socket_event_func(i, fdevent_taken(A[i]), A[i].pend)
  PROVE  Good(Put(A, i, e.so), B, a, Snd(b, e.sent, up), na, nb, up)
<1> DEFINE so == A[i]
           t == fdevent_taken(so)
           At == Put(A, i, t)
           ev == so.pend
           w == IF "W" \in ev THEN EventWrite(i, t) ELSE Effect(t, <<>>, 0)
           r == EventRead(i, w.so)
           Aw == Put(A, i, w.so)
           bw == Snd(b, w.sent, up)
<1>1. Streams(A, B, a, b, na, nb, up) /\ b \in Seq(Packet) /\ A \in [Id -> Socket]
  BY DEF Good, Tables
<1>2. Shape(so) /\ SocketOK(so) /\ ev # {}
  BY <1>1 DEF Streams, Half
<1>3. so.st \in {"open", "closing"}
  <2>1. so.st \in {"none", "open", "closing", "freed", "fault"}
    BY <1>2 DEF SocketOK, Socket
  <2> HIDE DEF so
  <2> QED  BY <1>2, <2>1 DEF Shape
<1>4. so.st = "open" => ev \subseteq so.want
  BY <1>2 DEF Shape
<1>5. /\ SocketOK(t) /\ t.pend = {} /\ t.st = so.st /\ t.peer = so.peer /\ t.q = so.q
      /\ t.want = so.want /\ t.got = so.got /\ t.out = so.out
  <2> HIDE DEF so
  <2> QED  BY <1>2 DEF fdevent_taken, SocketOK, Socket
<1>6. e = IF w.ret = 1 \/ "R" \notin ev THEN w ELSE Effect(r.so, w.sent \o r.sent, r.ret)
  BY DEF local_socket_event_func
<1> HIDE DEF t, so
<1>7. Shape(t)
  BY <1>2, <1>5 DEF Shape
<1>8. Same(so, t, up)
  BY <1>5, <1>7 DEF Same, Expected
<1>9. t \in Socket
  BY <1>5 DEF SocketOK
<1>10. Good(At, B, a, b, na, nb, up)
  BY <1>8, <1>9, QuietMove DEF so
<1>11. At[i] = t /\ \A so2 : Put(At, i, so2) = Put(A, i, so2)
  BY <1>1, <1>9, PutFacts
<1> HIDE DEF At
<1>12. /\ SocketOK(w.so) /\ w.sent \in Seq(Packet) /\ Good(Aw, B, a, bw, na, nb, up)
       /\ \/ w.ret = 1
          \/ /\ w.so.st \in {"open", "closing"} /\ w.so.pend = {}
             /\ w.so.st = "open" /\ "R" \in ev => "R" \in w.so.want
  <2>1. CASE "W" \in ev
    <3> DEFINE e1 == EventWrite(i, t)
    <3>1. w = e1
      BY <2>1
    <3>2. WriteFacts(i, t, e1)
      BY <1>5, EventWriteAny
    <3> HIDE DEF e1, w, ev
    <3>3. t.st = "open" => t.q # <<>>
      BY <1>4, <1>5, <1>7, <2>1 DEF Shape
    <3>4. /\ Good(Put(At, i, e1.so), B, a, Snd(b, e1.sent, up), na, nb, up)
          /\ e1.ret = 1 \/ /\ e1.so.st = "open" /\ e1.so.pend = {}
                           /\ "R" \in t.want => "R" \in e1.so.want
      BY <1>3, <1>5, <1>10, <1>11, <3>2, <3>3, WriteMove
    <3>5. SocketOK(e1.so) /\ e1.sent \in Seq(Packet)
      BY <3>2 DEF WriteFacts
    <3>6. Good(Aw, B, a, bw, na, nb, up)
      BY <1>11, <3>1, <3>4
    <3>7. CASE e1.ret = 1
      BY <3>1, <3>5, <3>6, <3>7
    <3>8. CASE e1.ret # 1
      <4>1. e1.so.st = "open" /\ e1.so.pend = {} /\ ("R" \in t.want => "R" \in e1.so.want)
        BY <3>4, <3>8
      <4>2. t.st = "open"
        <5>1. t.st # "closing"
          BY <3>2, <3>8, <4>1 DEF WriteFacts, CloseFacts, SameStream
        <5> QED  BY <1>3, <1>5, <5>1
      <4>3. "R" \in ev => "R" \in t.want
        BY <1>4, <1>5, <4>2
      <4> QED  BY <3>1, <3>5, <3>6, <4>1, <4>3
    <3> QED  BY <3>7, <3>8
  <2>2. CASE "W" \notin ev
    <3>1. w.so = t /\ w.sent = <<>> /\ w.ret = 0
      BY <2>2 DEF Effect
    <3> HIDE DEF w, ev
    <3>2. bw = b /\ Aw = At /\ w.sent \in Seq(Packet)
      BY <1>1, <3>1, SndFacts, EmptySeq DEF At
    <3> QED  BY <1>3, <1>4, <1>5, <1>10, <3>1, <3>2
  <2> QED  BY <2>1, <2>2
<1> HIDE DEF w
<1>13. CASE w.ret = 1 \/ "R" \notin ev
  BY <1>6, <1>12, <1>13
<1>14. CASE ~(w.ret = 1 \/ "R" \notin ev)
  <2>2. ReadFacts(i, w.so, r)
    BY <1>12, EventReadAny
  <2> HIDE DEF r
  <2>0. e = Effect(r.so, w.sent \o r.sent, r.ret)
    BY <1>6, <1>14
  <2>1. e.so = r.so /\ e.sent = w.sent \o r.sent
    <3> DEFINE packets == w.sent \o r.sent
               whole == Effect(r.so, packets, r.ret)
    <3>1. whole.so = r.so /\ whole.sent = packets
      <4> HIDE DEF packets
      <4> QED  BY DEF Effect
    <3>2. e = whole
      BY <2>0
    <3> HIDE DEF whole
    <3> QED  BY <3>1, <3>2
  <2>3. w.so \in Socket
    BY <1>12 DEF SocketOK
  <2>4. Aw[i] = w.so /\ \A so2 : Put(Aw, i, so2) = Put(A, i, so2)
    BY <1>1, <2>3, PutFacts
  <2>5. /\ w.so.st \in {"open", "closing"} /\ w.so.pend = {}
        /\ w.so.st = "open" => "R" \in w.so.want
    BY <1>12, <1>14
  <2> HIDE DEF Aw, bw
  <2>6. Good(Put(Aw, i, r.so), B, a, Snd(bw, r.sent, up), na, nb, up)
    BY <1>12, <2>2, <2>4, <2>5, ReadMove
  <2>7. Snd(bw, r.sent, up) = Snd(b, w.sent \o r.sent, up)
    <3>1. \A u, v \in Seq(Packet) : Snd(Snd(b, u, up), v, up) = Snd(b, u \o v, up)
      BY <1>1, SndFacts
    <3>2. r.sent \in Seq(Packet)
      BY <2>2 DEF ReadFacts
    <3> QED  BY <1>12, <3>1, <3>2, Zenon DEF bw
  <2> QED  BY <2>1, <2>4, <2>6, <2>7
<1> QED  BY <1>13, <1>14

\* The head packet reaches an open socket: OKAY binds and wakes it, CLSE closes
\* it, WRTE is written out and answered, queued, or closes it.
LEMMA StreamMove ==
  ASSUME NEW A, NEW B, NEW a, NEW b, NEW na, NEW nb, NEW up \in BOOLEAN,
         Good(A, B, a, b, na, nb, up), a # <<>>, NEW i \in Id, i = a[1].arg1,
         SocketOK(A[i]), A[i].st = "open", a[1].cmd # "OPEN",
         NEW e, e = StreamEffect(A[i], a[1])
  PROVE  Good(Put(A, i, e.so), B, Tail(a), Snd(b, e.sent, up), na, nb, up)
<1> DEFINE so == A[i]
           p == a[1]
           a2 == Tail(a)
<1>1. /\ Tables(A, B, a, b, na, nb) /\ Streams(A, B, a, b, na, nb, up)
      /\ A \in [Id -> Socket] /\ a \in Seq(Packet) /\ b \in Seq(Packet)
  BY DEF Good, Tables
<1>2. p \in Packet /\ a2 \in Seq(Packet) /\ Dropped(a, a2)
  BY <1>1, TailFacts
<1>3. Shape(so) /\ SocketOK(so) /\ so.st = "open"
  BY <1>1 DEF Streams, Half
<1> HIDE DEF so, a2
<1>4. ASSUME NEW c, CloseFacts(so, c)
      PROVE  Good(Put(A, i, c.so), B, a2, Snd(b, c.sent, up), na, nb, up)
  <2> DEFINE A2 == Put(A, i, c.so)
             b2 == Snd(b, c.sent, up)
  <2>1. Good(A2, B, a, b2, na, nb, up)
    BY <1>3, <1>4, CloseMove DEF so
  <2>2. c.so \in Socket /\ c.so.st # "open"
    BY <1>4 DEF CloseFacts, SocketOK
  <2>3. A2[i] = c.so
    BY <1>1, <2>2, PutFacts
  <2> HIDE DEF A2, b2
  <2>4. Streams(A2, B, a2, b2, na, nb, up)
    BY <1>2, <2>1, <2>2, <2>3, StaleStep DEF Good
  <2>5. Tables(A2, B, a2, b2, na, nb)
    BY <1>2, <2>1 DEF Good, Tables
  <2> QED  BY <2>4, <2>5 DEF Good, A2, b2
<1>5. CASE p.cmd = "OKAY"
  <2> DEFINE bound == IF so.peer = 0 THEN [so EXCEPT !.peer = p.arg0] ELSE so
             so2 == Ready(bound)
             A2 == Put(A, i, so2)
  <2>1. /\ SocketOK(bound) /\ bound.st = "open" /\ bound.q = so.q /\ bound.got = so.got
        /\ bound.out = so.out /\ bound.want = so.want /\ bound.pend = so.pend
        /\ bound.peer = (IF so.peer = 0 THEN p.arg0 ELSE so.peer)
    BY <1>2, <1>3 DEF SocketOK, Socket, Packet
  <2>2. e.so = so2 /\ e.sent = <<>>
    BY <1>5 DEF StreamEffect, ReadyPacket, Effect, so
  <2> HIDE DEF bound
  <2>3. ReadyFacts(bound, so2)
    BY <2>1, ReadyAny
  <2> HIDE DEF so2
  <2>4. /\ so2.st = "open" /\ so2.q = so.q /\ so2.got = so.got /\ so2.out = so.out
        /\ so2.want = so.want \union {"R"} /\ so2.pend \subseteq so.pend
        /\ so2.peer = (IF so.peer = 0 THEN p.arg0 ELSE so.peer)
    BY <2>1, <2>3 DEF ReadyFacts
  <2>5. so2 \in Socket
    BY <2>3 DEF ReadyFacts, SocketOK
  <2>6. p.arg0 \in Id /\ p.arg0 # 0
    <3>1. Named(A, a)
      BY <1>1, NamesAreIds DEF Streams
    <3>2. 1 \in 1 .. Len(a)
      BY <1>1
    <3> QED  BY <1>5, <3>1, <3>2 DEF Named, Id
  <2>7. so2.peer # 0 /\ (so2.q # <<>> => so2.q[1].arg0 = so2.peer)
    BY <1>3, <2>4, <2>6 DEF Shape
  <2>8. Shape(so2)
    BY <1>3, <2>4, <2>7 DEF Shape
  <2>9. Woken(so, so2, p.arg0)
    BY <2>4, <2>8 DEF Woken
  <2>10. A2 \in [Id -> Socket] /\ Changed(A, A2, i, so2)
    BY <1>1, <2>5, PutFacts
  <2> HIDE DEF A2
  <2>11. Streams(A2, B, a2, b, na, nb, up)
    BY <1>1, <1>2, <1>5, <2>9, <2>10, OkayStep DEF so
  <2>12. Tables(A2, B, a2, b, na, nb)
    BY <1>1, <1>2, <2>10 DEF Tables
  <2>13. Snd(b, e.sent, up) = b
    BY <1>1, <2>2, SndFacts
  <2> QED  BY <2>2, <2>11, <2>12, <2>13 DEF Good, A2, a2
<1>6. CASE p.cmd = "CLSE"
  <2>1. e = Close(so)
    BY <1>6 DEF StreamEffect, so
  <2>2. CloseFacts(so, e)
    BY <1>3, <2>1, CloseAny
  <2> QED  BY <1>4, <2>2 DEF a2
<1>7. CASE p.cmd = "WRTE"
  <2> DEFINE f == local_socket_enqueue(so, p)
             A2 == Put(A, i, f.so)
  <2>1. e = IF f.ret = 0 THEN Effect(f.so, <<OKAY(p.arg1, p.arg0)>>, 0) ELSE f
    BY <1>7 DEF StreamEffect, WritePacket, so
  <2>2. EnqueueFacts(so, p, f)
    BY <1>2, <1>3, EnqueueAny
  <2> HIDE DEF f
  <2>3. /\ i \in Id /\ p.arg0 \in Id /\ so.peer = p.arg0 /\ so.q = <<>>
        /\ p.off = Expected(so) /\ p.arg0 # 0
    <3>1. /\ a[1].arg0 \in Id /\ A[a[1].arg1].peer = a[1].arg0 /\ A[a[1].arg1].q = <<>>
          /\ a[1].off = Expected(A[a[1].arg1])
      BY <1>1, <1>3, <1>7, HeadIsFromPeer DEF so
    <3> QED  BY <3>1 DEF so, Id
  <2>4. f.so \in Socket
    BY <2>2 DEF EnqueueFacts, SocketOK
  <2>5. A2 \in [Id -> Socket] /\ Changed(A, A2, i, f.so) /\ A2[i] = f.so
    BY <1>1, <2>4, PutFacts
  <2> HIDE DEF A2
  <2>6. CASE CloseFacts(so, f)
    <3>1. e = f
      BY <2>1, <2>6 DEF CloseFacts
    <3> QED  BY <1>4, <2>6, <3>1 DEF a2
  <2>7. ASSUME Poured(so, f.so, p)
        PROVE  /\ Good(A2, B, a2, b, na, nb, up)
               /\ f.so.q = <<>> => Spent(A2, a2, b, p.arg0) /\ "R" \notin B[p.arg0].want
    <3>1. /\ Streams(A2, B, a2, b, na, nb, up)
          /\ f.so.q = <<>> => Spent(A2, a2, b, p.arg0) /\ "R" \notin B[p.arg0].want
      BY <1>1, <1>2, <1>3, <1>7, <2>5, <2>7, WrteStep DEF so
    <3>2. Tables(A2, B, a2, b, na, nb)
      BY <1>1, <1>2, <2>5 DEF Tables
    <3> QED  BY <3>1, <3>2 DEF Good
  <2>8. CASE /\ SameStream(so, f.so) /\ f.sent = <<>> /\ f.ret = 0
             /\ f.so.q = so.q /\ f.so.want = so.want
             /\ f.so.got = so.got /\ f.so.out = so.out + p.len
    <3>1. /\ f.so.st = "open" /\ f.so.peer = p.arg0 /\ f.so.pend \subseteq so.pend
          /\ f.so.q = <<>> /\ f.so.want = so.want
      BY <1>3, <2>3, <2>8 DEF SameStream
    <3>2. Shape(f.so)
      BY <1>3, <2>3, <3>1 DEF Shape
    <3>3. Poured(so, f.so, p)
      BY <2>3, <2>8, <3>1, <3>2 DEF Poured, Expected
    <3> DEFINE o == OKAY(i, p.arg0)
               b2 == Snd(b, <<o>>, up)
    <3>4. o \in Packet
      <4>1. i \in 0 .. MaxId /\ p.arg0 \in 0 .. MaxId
        BY <2>3, MaxIdAssumption DEF Id
      <4> QED  BY <4>1, PacketTypes
    <3>5. b2 \in Seq(Packet) /\ Extended(b, b2, o, up)
      <4> HIDE DEF o
      <4> QED  BY <1>1, <3>4, SndFacts
    <3> HIDE DEF b2
    <3>6. /\ Tables(A2, B, a2, b, na, nb) /\ Streams(A2, B, a2, b, na, nb, up)
          /\ Spent(A2, a2, b, p.arg0) /\ "R" \notin B[p.arg0].want
      BY <2>7, <3>1, <3>3 DEF Good
    <3>7. Streams(A2, B, a2, b2, na, nb, up)
      BY <2>3, <2>5, <3>1, <3>5, <3>6, AckStep
    <3>8. Tables(A2, B, a2, b2, na, nb)
      BY <3>5, <3>6 DEF Tables
    <3>9. e = Effect(f.so, <<o>>, 0)
      BY <2>1, <2>8
    <3>10. e.so = f.so /\ e.sent = <<o>>
      BY <3>9 DEF Effect
    <3> QED  BY <3>7, <3>8, <3>10 DEF Good, A2, a2, b2
  <2>9. CASE /\ SameStream(so, f.so) /\ f.sent = <<>> /\ f.ret = 1
             /\ f.so.want = so.want \union {"W"} /\ f.so.got = so.got
             /\ f.so.q = Append(so.q, EntryOf(p, Expected(so) + p.len))
    <3> DEFINE last == EntryOf(p, Expected(so) + p.len)
    <3>1. /\ f.so.st = "open" /\ f.so.peer = p.arg0 /\ f.so.pend \subseteq so.pend
          /\ f.so.want = so.want \union {"W"}
      BY <1>3, <2>3, <2>9 DEF SameStream
    <3>2. f.so.q = <<last>>
      BY <2>3, <2>9
    <3>3. /\ last.arg0 = p.arg0 /\ last.off = Expected(so) /\ last.len = p.len
          /\ last.upto = Expected(so) + p.len
      BY <2>3 DEF EntryOf
    <3> HIDE DEF last
    <3>4. f.so.q # <<>> /\ Len(f.so.q) = 1 /\ f.so.q[1] = last
      BY <3>2
    <3>5. Shape(f.so)
      BY <1>3, <2>3, <3>1, <3>3, <3>4 DEF Shape
    <3>6. Expected(f.so) = Expected(so) + p.len
      BY <3>3, <3>4 DEF Expected
    <3>7. Poured(so, f.so, p)
      BY <2>3, <2>9, <3>1, <3>3, <3>4, <3>5, <3>6 DEF Poured
    <3>8. e = f
      BY <2>1, <2>9
    <3>9. Snd(b, e.sent, up) = b
      BY <1>1, <2>9, <3>8, SndFacts
    <3> QED  BY <2>7, <3>7, <3>8, <3>9 DEF A2, a2
  <2> QED  BY <2>2, <2>6, <2>8, <2>9 DEF EnqueueFacts
<1>8. p.cmd \in {"OKAY", "CLSE", "WRTE"}
  BY <1>2 DEF Packet
<1> QED  BY <1>5, <1>6, <1>7, <1>8

\* A stale packet is dropped; an OPEN is refused with a CLSE.
LEMMA StaleMove ==
  ASSUME NEW A, NEW B, NEW a, NEW b, NEW na, NEW nb, NEW up \in BOOLEAN,
         Good(A, B, a, b, na, nb, up), a # <<>>,
         Binds(a[1]) => A[a[1].arg1].st # "open"
  PROVE  Good(A, B, Tail(a), b, na, nb, up)
<1>1. Tables(A, B, a, b, na, nb) /\ Streams(A, B, a, b, na, nb, up) /\ a \in Seq(Packet)
  BY DEF Good, Tables
<1>2. Tail(a) \in Seq(Packet) /\ Dropped(a, Tail(a))
  BY <1>1, TailFacts
<1>3. Streams(A, B, Tail(a), b, na, nb, up)
  BY <1>1, <1>2, StaleStep
<1>4. Tables(A, B, Tail(a), b, na, nb)
  BY <1>1, <1>2 DEF Tables
<1> QED  BY <1>3, <1>4 DEF Good

LEMMA RefuseMove ==
  ASSUME NEW A, NEW B, NEW a, NEW b, NEW na, NEW nb, NEW up \in BOOLEAN,
         Good(A, B, a, b, na, nb, up), a # <<>>, a[1].cmd = "OPEN"
  PROVE  Good(A, B, Tail(a), Snd(b, <<CLSE(0, a[1].arg0)>>, up), na, nb, up)
<1> DEFINE p == CLSE(0, a[1].arg0)
           b2 == Snd(b, <<p>>, up)
<1>1. Good(A, B, Tail(a), b, na, nb, up)
  BY StaleMove DEF Binds
<1>2. a \in Seq(Packet) /\ b \in Seq(Packet)
  BY DEF Good, Tables
<1>3. p \in Packet /\ p.cmd = "CLSE"
  <2>1. a[1] \in Packet
    BY <1>2, TailFacts
  <2>2. a[1].arg0 \in 0 .. MaxId /\ 0 \in 0 .. MaxId
    BY <2>1, MaxIdAssumption DEF Packet
  <2> QED  BY <2>2, PacketTypes DEF CLSE, Pkt
<1> HIDE DEF p
<1>4. b2 \in Seq(Packet) /\ Extended(b, b2, p, up)
  BY <1>2, <1>3, SndFacts
<1> HIDE DEF b2
<1>5. Streams(A, B, Tail(a), b2, na, nb, up)
  BY <1>1, <1>3, <1>4, ClseStep DEF Good
<1>6. Tables(A, B, Tail(a), b2, na, nb)
  BY <1>1, <1>4 DEF Good, Tables
<1> QED  BY <1>5, <1>6 DEF Good, b2, p

\* An OPEN is accepted: a new socket is tied to its sender, which gets an OKAY.
LEMMA AcceptMove ==
  ASSUME NEW A, NEW B, NEW a, NEW b, NEW na, NEW nb, NEW up \in BOOLEAN,
         Good(A, B, a, b, na, nb, up), a # <<>>, a[1].cmd = "OPEN", na \in Id,
         NEW e, e = OpenEffect(na, a[1])
  PROVE  Good(Put(A, na, e.so), B, Tail(a), Snd(b, e.sent, up), na + 1, nb, up)
<1> DEFINE k == a[1].arg0
           a2 == Tail(a)
           o == OKAY(na, k)
           b2 == Snd(b, <<o>>, up)
           fresh == [create_local_socket EXCEPT !.peer = k]
           so == Ready(fresh)
           A2 == Put(A, na, so)
<1>1. /\ Tables(A, B, a, b, na, nb) /\ Streams(A, B, a, b, na, nb, up)
      /\ A \in [Id -> Socket] /\ a \in Seq(Packet) /\ b \in Seq(Packet)
  BY DEF Good, Tables
<1>2. a2 \in Seq(Packet) /\ Dropped(a, a2)
  BY <1>1, TailFacts
<1>3. Good(A, B, a2, b, na, nb, up)
  BY StaleMove DEF Binds
<1>4. /\ k \in Id /\ k < nb /\ Spent(A, a2, b, k) /\ "R" \notin B[k].want
      /\ \A i \in Id : ~Tied(A, B, a2, b, i, k)
  BY <1>1, <1>2, HeadIsUnopened
<1>5. e.so = so /\ e.sent = <<o>>
  BY DEF OpenEffect, Effect
<1>6. k \in 0 .. MaxId /\ na \in 0 .. MaxId /\ k # 0
  BY <1>4, MaxIdAssumption DEF Id
<1> HIDE DEF k, a2
<1>7. /\ SocketOK(fresh) /\ fresh.st = "open" /\ fresh.peer = k /\ fresh.q = <<>>
      /\ fresh.got = 0 /\ fresh.out = 0 /\ fresh.want = {} /\ fresh.pend = {}
  BY <1>6, NoSocketType DEF create_local_socket, SocketOK, Socket, NoSocket
<1> HIDE DEF fresh
<1>8. ReadyFacts(fresh, so)
  BY <1>7, ReadyAny
<1> HIDE DEF so
<1>9. /\ so \in Socket /\ so.st = "open" /\ so.peer = k /\ so.q = <<>>
      /\ so.got = 0 /\ so.out = 0 /\ so.want = {"R"} /\ so.pend = {}
  BY <1>7, <1>8 DEF ReadyFacts, SocketOK
<1>10. Shape(so)
  BY <1>6, <1>9 DEF Shape
<1>11. A2 \in [Id -> Socket] /\ Changed(A, A2, na, so)
  BY <1>1, <1>9, PutFacts
<1>12. o \in Packet
  BY <1>6, PacketTypes
<1>13. b2 \in Seq(Packet) /\ Extended(b, b2, o, up)
  <2> HIDE DEF o
  <2> QED  BY <1>1, <1>12, SndFacts
<1> HIDE DEF A2, b2
<1>14. Streams(A2, B, a2, b2, na + 1, nb, up)
  BY <1>3, <1>4, <1>9, <1>10, <1>11, <1>13, AcceptStep DEF Good
<1>15. na + 1 \in 1 .. (MaxId + 1)
  BY <1>6, MaxIdAssumption
<1>16. Tables(A2, B, a2, b2, na + 1, nb)
  BY <1>3, <1>11, <1>13, <1>15 DEF Good, Tables
<1> QED  BY <1>5, <1>14, <1>16 DEF Good, A2, a2, b2

\* connect_to_remote: a new socket sends its OPEN; it may be closed at once.
LEMMA ConnectMove ==
  ASSUME NEW A, NEW B, NEW a, NEW b, NEW na, NEW nb, NEW up \in BOOLEAN,
         Good(A, B, a, b, na, nb, up), na \in Id,
         NEW so, SocketOK(so), so.st = "open", so.peer = 0, so.q = <<>>, so.want = {},
         so.pend = {}, so.got = 0, so.out = 0
  PROVE  /\ Good(Put(A, na, so), B, a, Snd(b, <<OPEN(na)>>, up), na + 1, nb, up)
         /\ \A e : CloseFacts(so, e) => Good(Put(A, na, e.so), B, a,
                                             Snd(b, <<OPEN(na)>> \o e.sent, up), na + 1, nb, up)
<1> DEFINE A2 == Put(A, na, so)
           o == OPEN(na)
           b2 == Snd(b, <<o>>, up)
<1>1. /\ Tables(A, B, a, b, na, nb) /\ Streams(A, B, a, b, na, nb, up)
      /\ A \in [Id -> Socket] /\ b \in Seq(Packet) /\ so \in Socket
  BY DEF Good, Tables, SocketOK
<1>2. Shape(so)
  BY DEF Shape
<1>3. /\ A2 \in [Id -> Socket] /\ Changed(A, A2, na, so) /\ A2[na] = so
      /\ \A so2 : Put(A2, na, so2) = Put(A, na, so2)
  BY <1>1, PutFacts
<1> HIDE DEF A2
<1>4. /\ Streams(A2, B, a, b, na + 1, nb, up)
      /\ Spent(B, b, a, na) /\ \A k \in Id : ~Tied(A2, B, a, b, na, k)
  BY <1>1, <1>2, <1>3, FreshStep
<1>5. /\ na \in 0 .. MaxId /\ na + 1 \in 1 .. (MaxId + 1) /\ na < na + 1
  BY MaxIdAssumption DEF Id
<1>6. Tables(A2, B, a, b, na + 1, nb)
  BY <1>1, <1>3, <1>5 DEF Tables
<1>7. o \in Packet
  BY <1>5, PacketTypes
<1>8. b2 \in Seq(Packet) /\ Extended(b, b2, o, up) /\ <<o>> \in Seq(Packet)
  <2> HIDE DEF o
  <2> QED  BY <1>1, <1>7, SndFacts
<1> HIDE DEF b2
<1>9. "R" \notin A2[na].want
  BY <1>3
<1>10. Streams(A2, B, a, b2, na + 1, nb, up)
  BY <1>4, <1>5, <1>6, <1>8, <1>9, OpenStep
<1>11. Good(A2, B, a, b2, na + 1, nb, up)
  BY <1>6, <1>8, <1>10 DEF Good, Tables
<1>12. ASSUME NEW e, CloseFacts(so, e)
       PROVE  Good(Put(A, na, e.so), B, a, Snd(b, <<o>> \o e.sent, up), na + 1, nb, up)
  <2>1. Good(Put(A2, na, e.so), B, a, Snd(b2, e.sent, up), na + 1, nb, up)
    BY <1>3, <1>11, <1>12, CloseMove
  <2>2. e.sent \in Seq(Packet)
    BY <1>12 DEF CloseFacts
  <2>3. Snd(b2, e.sent, up) = Snd(b, <<o>> \o e.sent, up)
    <3>1. \A u, v \in Seq(Packet) : Snd(Snd(b, u, up), v, up) = Snd(b, u \o v, up)
      BY <1>1, SndFacts
    <3> QED  BY <1>8, <2>2, <3>1, Zenon DEF b2
  <2> QED  BY <1>3, <2>1, <2>3
<1> QED  BY <1>11, <1>12 DEF A2, b2

-----------------------------------------------------------------------------
(* The invariant of the specification.                                     *)

\* The sockets, channels and ids sk, ch and nx, seen from side s.
AtSide(sk, ch, nx, up, s) ==
  Good(sk[s], sk[Other(s)], ch[s], ch[Other(s)], nx[s], nx[Other(s)], up)

StreamsOK == AtSide(sock, chan, nextId, link = "up", "host")

\* Nothing reaches a side that is offline, and nothing there has a peer.
OfflineOK ==
  \A s \in Side :
    tstate[s] # "online" =>
      /\ link = "down" /\ chan[s] = <<>>
      /\ \A i \in Id : sock[s][i].st = "open" => sock[s][i].peer = 0
FlowInv == TypeOK /\ StreamsOK /\ OfflineOK

LEMMA AnySide ==
  ASSUME NEW sk, NEW ch, NEW nx, NEW up, NEW s \in Side, NEW r \in Side,
         AtSide(sk, ch, nx, up, s)
  PROVE  AtSide(sk, ch, nx, up, r)
<1>1. CASE r = s
  BY <1>1
<1>2. CASE r # s
  <2>1. r = Other(s) /\ s = Other(r)
    BY <1>2 DEF Side, Other
  <2>2. Good(sk[r], sk[s], ch[r], ch[s], nx[r], nx[s], up)
    BY <2>1, TablesSwap DEF AtSide, Good, Streams
  <2> QED  BY <2>1, <2>2 DEF AtSide
<1> QED  BY <1>1, <1>2

LEMMA SideGood ==
  ASSUME FlowInv, NEW s \in Side
  PROVE  /\ Good(sock[s], sock[Other(s)], chan[s], chan[Other(s)],
                 nextId[s], nextId[Other(s)], link = "up")
         /\ \A i \in Id : SocketOK(sock[s][i]) /\ Shape(sock[s][i])
<1>1. AtSide(sock, chan, nextId, link = "up", s)
  BY AnySide DEF FlowInv, StreamsOK, Side
<1>2. SocketsOK
  BY TypedSockets DEF FlowInv
<1> QED  BY <1>1, <1>2 DEF AtSide, Good, Streams, Half, SocketsOK

\* A step of side s that leaves the sockets and the ids of the other side alone.
LEMMA StepFrom ==
  ASSUME FlowInv, NEW s \in Side,
         sock'[Other(s)] = sock[Other(s)], nextId'[Other(s)] = nextId[Other(s)],
         Good(sock'[s], sock[Other(s)], chan'[s], chan'[Other(s)],
              nextId'[s], nextId[Other(s)], link' = "up")
  PROVE  StreamsOK'
<1>1. AtSide(sock', chan', nextId', link' = "up", s)
  BY DEF AtSide
<1>2. AtSide(sock', chan', nextId', link' = "up", "host")
  BY <1>1, AnySide DEF Side
<1> QED  BY <1>2 DEF StreamsOK

\* A step that replaces a socket of side s and sends packets.
LEMMA StepApply ==
  ASSUME FlowInv, NEW s \in Side, NEW i \in Id, NEW e,
         NEW ch \in [Side -> Seq(Packet)], ch[Other(s)] = chan[Other(s)],
         Apply(s, i, e, ch), link' = link, tstate' = tstate,
         ch[s] = chan[s] \/ tstate[s] = "online",
         tstate[s] = "online" \/ (sock[s][i].st # "open" /\ e.so.st # "open"),
         nextId'[Other(s)] = nextId[Other(s)],
         Good(Put(sock[s], i, e.so), sock[Other(s)], ch[s],
              Snd(chan[Other(s)], e.sent, link = "up"), nextId'[s], nextId[Other(s)], link = "up")
  PROVE  StreamsOK' /\ OfflineOK'
<1>1. Other(s) \in Side /\ Other(s) # s /\ \A r \in Side : r = s \/ r = Other(s)
  BY DEF Side, Other
<1>2. sock \in [Side -> [Id -> Socket]]
  BY DEF FlowInv, TypeOK
<1>3. /\ sock'[s] = Put(sock[s], i, e.so) /\ sock'[Other(s)] = sock[Other(s)]
  BY <1>1, <1>2 DEF Apply, Put
<1>4. /\ chan'[s] = ch[s] /\ chan'[Other(s)] = Snd(chan[Other(s)], e.sent, link = "up")
  BY <1>1 DEF Apply, send_packets, Snd
<1>5. StreamsOK'
  BY <1>3, <1>4, StepFrom
<1>6. OfflineOK'
  <2> SUFFICES ASSUME NEW r \in Side, tstate[r] # "online"
               PROVE  /\ link = "down" /\ chan'[r] = <<>>
                      /\ \A j \in Id : sock'[r][j].st = "open" => sock'[r][j].peer = 0
    BY DEF OfflineOK
  <2>1. /\ link = "down" /\ chan[r] = <<>>
        /\ \A j \in Id : sock[r][j].st = "open" => sock[r][j].peer = 0
    BY DEF FlowInv, OfflineOK
  <2>2. CASE r = s
    <3>1. sock[s][i].st # "open" /\ e.so.st # "open" /\ chan'[r] = <<>>
      BY <1>4, <2>1, <2>2
    <3>2. \A j \in Id : sock'[s][j] = IF j = i THEN e.so ELSE sock[s][j]
      BY <1>2, <1>3 DEF Put
    <3> QED  BY <2>1, <2>2, <3>1, <3>2
  <2>3. CASE r = Other(s)
    <3>1. chan'[r] = chan[r]
      BY <1>4, <2>1, <2>3 DEF Snd
    <3> QED  BY <1>3, <2>1, <2>3, <3>1
  <2> QED  BY <1>1, <2>2, <2>3
<1> QED  BY <1>5, <1>6

-----------------------------------------------------------------------------
(* Each action keeps the invariant.                                        *)

LEMMA ConnectFlow ==
  ASSUME FlowInv, NEW s \in Side, NEW smart \in BOOLEAN, NEW early \in BOOLEAN,
         Connect(s, smart, early)
  PROVE  StreamsOK' /\ OfflineOK'
<1> DEFINE i == nextId[s]
           so == [create_local_socket EXCEPT !.hook = smart,
                                             !.shut = IF early THEN "half" ELSE "no"]
           e == IF early THEN Close(so) ELSE Effect(so, <<>>, 0)
           e2 == Effect(e.so, <<OPEN(i)>> \o e.sent, 0)
           up == link = "up"
           A == sock[s]
           B == sock[Other(s)]
           a == chan[s]
           b == chan[Other(s)]
           nb == nextId[Other(s)]
<1>1. /\ i \in Id /\ Apply(s, i, e2, chan) /\ tstate[s] = "online"
      /\ nextId' = [nextId EXCEPT ![s] = i + 1] /\ tstate' = tstate /\ link' = link
  BY DEF Connect
<1>2. /\ SocketOK(so) /\ so.st = "open" /\ so.peer = 0 /\ so.q = <<>> /\ so.want = {}
      /\ so.pend = {} /\ so.got = 0 /\ so.out = 0
  BY NoSocketType DEF create_local_socket, NoSocket, SocketOK, Socket
<1>3. Good(A, B, a, b, i, nb, up)
  BY SideGood
<1>4. Other(s) # s /\ Other(s) \in Side /\ chan \in [Side -> Seq(Packet)]
      /\ nextId'[s] = i + 1 /\ nextId'[Other(s)] = nb
  BY <1>1, SideFacts DEF FlowInv, TypeOK
<1>5. <<OPEN(i)>> \in Seq(Packet)
  <2>1. i \in 0 .. MaxId
    BY <1>1, MaxIdAssumption DEF Id
  <2> QED  BY <2>1, PacketTypes
<1> HIDE DEF so, i
<1>6. /\ Good(Put(A, i, so), B, a, Snd(b, <<OPEN(i)>>, up), i + 1, nb, up)
      /\ \A c : CloseFacts(so, c) => Good(Put(A, i, c.so), B, a,
                                          Snd(b, <<OPEN(i)>> \o c.sent, up), i + 1, nb, up)
  <2> HIDE DEF A, B, a, b, nb, up
  <2>1. up \in BOOLEAN
    BY DEF up
  <2> QED  BY <1>1, <1>2, <1>3, <2>1, ConnectMove
<1>7. Good(Put(A, i, e2.so), B, a, Snd(b, e2.sent, up), i + 1, nb, up)
  <2> HIDE DEF A, B, a, b, nb, up
  <2>1. CASE early
    <3> DEFINE c == Close(so)
    <3>1. CloseFacts(so, c)
      BY <1>2, CloseAny
    <3>2. e = c
      BY <2>1
    <3> HIDE DEF c, e
    <3>3. e2.so = c.so /\ e2.sent = <<OPEN(i)>> \o c.sent
      BY <3>2 DEF Effect
    <3> HIDE DEF e2
    <3> QED  BY <1>6, <3>1, <3>3
  <2>2. CASE ~early
    <3>1. e.so = so /\ e.sent = <<>>
      BY <2>2 DEF Effect
    <3> HIDE DEF e
    <3>2. <<OPEN(i)>> \o <<>> = <<OPEN(i)>>
      BY <1>5, ConcatEmptySeq
    <3>3. e2.so = so /\ e2.sent = <<OPEN(i)>>
      BY <3>1, <3>2 DEF Effect
    <3> HIDE DEF e2
    <3> QED  BY <1>6, <3>3
  <2> QED  BY <2>1, <2>2
<1> HIDE DEF e2
<1> QED  BY <1>1, <1>4, <1>7, StepApply

\* The event function never opens a socket.
LEMMA EventKeepsClosed ==
  ASSUME NEW so, SocketOK(so), so.st # "open", NEW i \in Id, NEW ev
  PROVE  local_socket_event_func(i, so, ev).so.st # "open"
<1> DEFINE w == IF "W" \in ev THEN EventWrite(i, so) ELSE Effect(so, <<>>, 0)
           r == EventRead(i, w.so)
<1>1. SocketOK(w.so) /\ w.so.st # "open"
  <2>1. WriteFacts(i, so, EventWrite(i, so))
    BY EventWriteAny
  <2>2. SocketOK(EventWrite(i, so).so) /\ EventWrite(i, so).so.st # "open"
    <3> DEFINE e == EventWrite(i, so)
    <3> HIDE DEF e
    <3>1. WriteFacts(i, so, e)
      BY <2>1 DEF e
    <3>2. SocketOK(e.so) /\ e.so.st # "open"
      BY <3>1 DEF WriteFacts, CloseFacts, SameStream
    <3> QED  BY <3>2 DEF e
  <2> QED  BY <2>2 DEF Effect
<1> HIDE DEF w
<1>2. ReadFacts(i, w.so, r)
  BY <1>1, EventReadAny
<1> HIDE DEF r
<1>3. r.so.st # "open"
  BY <1>1, <1>2 DEF ReadFacts, ReadMiddle, CloseFacts, SameStream
<1> QED  BY <1>1, <1>3 DEF local_socket_event_func, Effect, w, r

LEMMA SocketEventFlow ==
  ASSUME FlowInv, NEW s \in Side, NEW i \in Id, SocketEvent(s, i)
  PROVE  StreamsOK' /\ OfflineOK'
<1> DEFINE so == sock[s][i]
           e == local_socket_event_func(i, fdevent_taken(so), so.pend)
           up == link = "up"
<1>1. /\ so.pend # {} /\ Apply(s, i, e, chan)
      /\ nextId' = nextId /\ tstate' = tstate /\ link' = link
  BY DEF SocketEvent
<1>2. /\ Good(sock[s], sock[Other(s)], chan[s], chan[Other(s)],
              nextId[s], nextId[Other(s)], up)
      /\ SocketOK(so) /\ Shape(so)
  BY SideGood
<1>3. Good(Put(sock[s], i, e.so), sock[Other(s)], chan[s],
           Snd(chan[Other(s)], e.sent, up), nextId[s], nextId[Other(s)], up)
  <2>1. up \in BOOLEAN
    OBVIOUS
  <2> HIDE DEF up
  <2> QED  BY <1>1, <1>2, <2>1, EventMove
<1>4. tstate[s] # "online" => so.st # "open"
  BY <1>1, <1>2 DEF FlowInv, OfflineOK, Shape
<1>5. so.st # "open" => e.so.st # "open"
  <2>1. SocketOK(fdevent_taken(so)) /\ fdevent_taken(so).st = so.st
    BY <1>2, TakenOK
  <2> QED  BY <2>1, EventKeepsClosed
<1>6. chan \in [Side -> Seq(Packet)]
  BY DEF FlowInv, TypeOK
<1> HIDE DEF e
<1> QED  BY <1>1, <1>3, <1>4, <1>5, <1>6, StepApply

\* Taking the head of the channel to s leaves the other channel alone.
LEMMA RestFacts ==
  ASSUME FlowInv, NEW s \in Side, chan[s] # <<>>
  PROVE  /\ tstate[s] = "online" /\ Head(chan[s]) = chan[s][1]
         /\ Rest(s) \in [Side -> Seq(Packet)]
         /\ Rest(s)[s] = Tail(chan[s]) /\ Rest(s)[Other(s)] = chan[Other(s)]
<1>1. chan \in [Side -> Seq(Packet)] /\ Other(s) \in Side /\ Other(s) # s
  BY SideFacts DEF FlowInv, TypeOK
<1>2. Head(chan[s]) = chan[s][1] /\ Tail(chan[s]) \in Seq(Packet)
  BY <1>1, TailFacts
<1>3. tstate[s] = "online"
  BY DEF FlowInv, OfflineOK
<1> QED  BY <1>1, <1>2, <1>3 DEF Rest

LEMMA AcceptFlow ==
  ASSUME FlowInv, NEW s \in Side, AcceptOpen(s)
  PROVE  StreamsOK' /\ OfflineOK'
<1> DEFINE n == nextId[s]
           e == OpenEffect(n, Head(chan[s]))
           up == link = "up"
<1>1. /\ chan[s] # <<>> /\ Head(chan[s]).cmd = "OPEN" /\ n \in Id
      /\ Apply(s, n, e, Rest(s)) /\ nextId' = [nextId EXCEPT ![s] = @ + 1]
      /\ tstate' = tstate /\ link' = link
  BY DEF AcceptOpen, TakePacket
<1>2. /\ tstate[s] = "online" /\ Head(chan[s]) = chan[s][1]
      /\ Rest(s) \in [Side -> Seq(Packet)]
      /\ Rest(s)[s] = Tail(chan[s]) /\ Rest(s)[Other(s)] = chan[Other(s)]
  BY <1>1, RestFacts
<1>3. Good(sock[s], sock[Other(s)], chan[s], chan[Other(s)], n, nextId[Other(s)], up)
  BY SideGood
<1>4. nextId'[s] = n + 1 /\ nextId'[Other(s)] = nextId[Other(s)]
  BY <1>1, SideFacts DEF FlowInv, TypeOK
<1> HIDE DEF n
<1>5. Good(Put(sock[s], n, e.so), sock[Other(s)], Tail(chan[s]),
           Snd(chan[Other(s)], e.sent, up), n + 1, nextId[Other(s)], up)
  <2>1. up \in BOOLEAN
    OBVIOUS
  <2> HIDE DEF up
  <2> QED  BY <1>1, <1>2, <1>3, <2>1, AcceptMove
<1> HIDE DEF e
<1> QED  BY <1>1, <1>2, <1>4, <1>5, StepApply

LEMMA StreamFlow ==
  ASSUME FlowInv, NEW s \in Side, HandleStream(s)
  PROVE  StreamsOK' /\ OfflineOK'
<1> DEFINE i == Head(chan[s]).arg1
           e == StreamEffect(sock[s][i], Head(chan[s]))
           up == link = "up"
<1>1. /\ chan[s] # <<>> /\ Head(chan[s]).cmd # "OPEN" /\ i \in Id /\ sock[s][i].st = "open"
      /\ Apply(s, i, e, Rest(s)) /\ nextId' = nextId /\ tstate' = tstate /\ link' = link
  BY DEF HandleStream, TakePacket, find_local_socket
<1>2. /\ tstate[s] = "online" /\ Head(chan[s]) = chan[s][1]
      /\ Rest(s) \in [Side -> Seq(Packet)]
      /\ Rest(s)[s] = Tail(chan[s]) /\ Rest(s)[Other(s)] = chan[Other(s)]
  BY <1>1, RestFacts
<1>3. /\ Good(sock[s], sock[Other(s)], chan[s], chan[Other(s)],
              nextId[s], nextId[Other(s)], up)
      /\ SocketOK(sock[s][i])
  BY <1>1, SideGood
<1>4. Good(Put(sock[s], i, e.so), sock[Other(s)], Tail(chan[s]),
           Snd(chan[Other(s)], e.sent, up), nextId[s], nextId[Other(s)], up)
  <2>1. up \in BOOLEAN
    OBVIOUS
  <2> HIDE DEF up
  <2> QED  BY <1>1, <1>2, <1>3, <2>1, StreamMove
<1> HIDE DEF e, i
<1> QED  BY <1>1, <1>2, <1>4, StepApply

\* A packet that changes no socket: refused or stale.
LEMMA NoSocketFlow ==
  ASSUME FlowInv, NEW s \in Side, RefuseOpen(s) \/ HandleStale(s)
  PROVE  StreamsOK' /\ OfflineOK'
<1> DEFINE p == CLSE(0, Head(chan[s]).arg0)
           up == link = "up"
<1>1. /\ chan[s] # <<>> /\ sock' = sock /\ nextId' = nextId /\ tstate' = tstate
      /\ link' = link
      /\ \/ Head(chan[s]).cmd = "OPEN" /\ chan' = send_packets(Rest(s), s, <<p>>)
         \/ chan' = Rest(s)
  BY DEF RefuseOpen, HandleStale, TakePacket
<1>2. /\ tstate[s] = "online" /\ Head(chan[s]) = chan[s][1]
      /\ Rest(s) \in [Side -> Seq(Packet)]
      /\ Rest(s)[s] = Tail(chan[s]) /\ Rest(s)[Other(s)] = chan[Other(s)]
  BY <1>1, RestFacts
<1>3. Good(sock[s], sock[Other(s)], chan[s], chan[Other(s)], nextId[s], nextId[Other(s)], up)
  BY SideGood
<1>4. up \in BOOLEAN /\ Other(s) \in Side /\ Other(s) # s
      /\ \A r \in Side : r = s \/ r = Other(s)
  BY DEF Side, Other
<1>5. CASE Head(chan[s]).cmd = "OPEN" /\ chan' = send_packets(Rest(s), s, <<p>>)
  <2>1. Good(sock[s], sock[Other(s)], Tail(chan[s]), Snd(chan[Other(s)], <<p>>, up),
             nextId[s], nextId[Other(s)], up)
    <3> HIDE DEF up
    <3> QED  BY <1>1, <1>2, <1>3, <1>4, <1>5, RefuseMove
  <2>2. chan'[s] = Tail(chan[s]) /\ chan'[Other(s)] = Snd(chan[Other(s)], <<p>>, up)
    BY <1>2, <1>4, <1>5 DEF send_packets, Snd
  <2> HIDE DEF p
  <2>3. StreamsOK'
    BY <1>1, <2>1, <2>2, StepFrom
  <2>4. OfflineOK'
    BY <1>1, <1>2, <1>4, <2>2 DEF FlowInv, OfflineOK, Snd
  <2> QED  BY <2>3, <2>4
<1>6. CASE chan' = Rest(s) /\ HandleStale(s)
  <2>1. Binds(chan[s][1]) => sock[s][chan[s][1].arg1].st # "open"
    <3> SUFFICES ASSUME Binds(chan[s][1]) PROVE sock[s][chan[s][1].arg1].st # "open"
      OBVIOUS
    <3>1. ~find_local_socket(s, chan[s][1].arg1)
      BY <1>2, <1>6 DEF HandleStale
    <3>2. chan[s][1].arg1 \in Id
      <4>1. Named(sock[s], chan[s])
        BY <1>3, NamesAreIds DEF Good, Streams
      <4>2. chan[s] \in Seq(Packet)
        BY <1>3 DEF Good, Tables
      <4>3. 1 \in 1 .. Len(chan[s])
        BY <1>1, <4>2
      <4> QED  BY <4>1, <4>3 DEF Named
    <3> QED  BY <3>1, <3>2 DEF find_local_socket
  <2>2. Good(sock[s], sock[Other(s)], Tail(chan[s]), chan[Other(s)],
             nextId[s], nextId[Other(s)], up)
    <3> HIDE DEF up
    <3> QED  BY <1>1, <1>3, <1>4, <2>1, StaleMove
  <2>3. chan'[s] = Tail(chan[s]) /\ chan'[Other(s)] = chan[Other(s)]
    BY <1>2, <1>6
  <2>4. StreamsOK'
    BY <1>1, <2>2, <2>3, StepFrom
  <2>5. OfflineOK'
    BY <1>1, <1>2, <1>4, <2>3 DEF FlowInv, OfflineOK
  <2> QED  BY <2>4, <2>5
<1>7. \/ Head(chan[s]).cmd = "OPEN" /\ chan' = send_packets(Rest(s), s, <<p>>)
      \/ chan' = Rest(s) /\ HandleStale(s)
  BY DEF RefuseOpen, HandleStale
<1> QED  BY <1>5, <1>6, <1>7

\* Sockets of s change, none opens or gets a peer, and no packet moves.
LEMMA SocketsFlow ==
  ASSUME FlowInv, NEW s \in Side, NEW A2 \in [Id -> Socket],
         sock' = [sock EXCEPT ![s] = A2], UNCHANGED <<nextId, chan, link>>,
         \/ \A i \in Id : Same(sock[s][i], A2[i], link = "up")
         \/ \A i \in Id : A2[i] = sock[s][i] \/ Ends(sock[s][i], A2[i])
  PROVE  /\ StreamsOK'
         /\ tstate' = tstate => OfflineOK'
<1> DEFINE up == link = "up"
           A == sock[s]
           B == sock[Other(s)]
           a == chan[s]
           b == chan[Other(s)]
           na == nextId[s]
           nb == nextId[Other(s)]
<1>1. Good(A, B, a, b, na, nb, up)
  BY SideGood
<1>2. Other(s) \in Side /\ Other(s) # s /\ \A r \in Side : r = s \/ r = Other(s)
  BY DEF Side, Other
<1>3. sock'[s] = A2 /\ sock'[Other(s)] = B
  BY <1>2 DEF FlowInv, TypeOK
<1>4. \/ \A i \in Id : Same(A[i], A2[i], up)
      \/ \A i \in Id : A2[i] = A[i] \/ Ends(A[i], A2[i])
  OBVIOUS
<1>5. Good(A2, B, a, b, na, nb, up)
  <2> HIDE DEF A, B, a, b, na, nb, up
  <2>1. Tables(A, B, a, b, na, nb) /\ Streams(A, B, a, b, na, nb, up)
    BY <1>1 DEF Good
  <2>2. Streams(A2, B, a, b, na, nb, up)
    <3>1. CASE \A i \in Id : Same(A[i], A2[i], up)
      BY <2>1, <3>1, QuietStep
    <3>2. CASE \A i \in Id : A2[i] = A[i] \/ Ends(A[i], A2[i])
      BY <2>1, <3>2, EndStep
    <3> QED  BY <1>4, <3>1, <3>2
  <2>3. Tables(A2, B, a, b, na, nb)
    BY <2>1 DEF Tables
  <2> QED  BY <2>2, <2>3 DEF Good
<1>6. StreamsOK'
  BY <1>3, <1>5, StepFrom
<1>7. \A i \in Id : A2[i].st = "open" => A[i].st = "open" /\ A2[i].peer = A[i].peer
  BY <1>4 DEF Same, Ends
<1>8. ASSUME tstate' = tstate PROVE OfflineOK'
  <2> SUFFICES ASSUME NEW r \in Side, tstate[r] # "online"
               PROVE  /\ link = "down" /\ chan[r] = <<>>
                      /\ \A j \in Id : sock'[r][j].st = "open" => sock'[r][j].peer = 0
    BY <1>8 DEF OfflineOK
  <2>1. /\ link = "down" /\ chan[r] = <<>>
        /\ \A j \in Id : sock[r][j].st = "open" => sock[r][j].peer = 0
    BY DEF FlowInv, OfflineOK
  <2>2. CASE r = s
    BY <1>3, <1>7, <2>1, <2>2
  <2>3. CASE r = Other(s)
    BY <1>3, <2>1, <2>3
  <2> QED  BY <1>2, <2>2, <2>3
<1> QED  BY <1>6, <1>8

LEMMA ProcessFlow ==
  ASSUME FlowInv, NEW s \in Side, fdevent_process(s)
  PROVE  StreamsOK' /\ OfflineOK'
<1> DEFINE A2 == [i \in Id |-> [sock[s][i] EXCEPT !.pend = ReadyEvents(sock[s][i])]]
<1>1. sock' = [sock EXCEPT ![s] = A2] /\ UNCHANGED <<nextId, chan, tstate, link>>
  BY DEF fdevent_process
<1>2. ASSUME NEW i \in Id
      PROVE  A2[i] \in Socket /\ Same(sock[s][i], A2[i], link = "up")
  <2> DEFINE so == sock[s][i]
             ev == ReadyEvents(so)
             so2 == [so EXCEPT !.pend = ev]
  <2>1. SocketOK(so) /\ Shape(so)
    BY SideGood
  <2>2. A2[i] = so2
    OBVIOUS
  <2>3. ev \subseteq so.want
    BY DEF ReadyEvents
  <2> HIDE DEF so, ev
  <2>4. /\ so2 \in Socket /\ so2.pend = ev /\ so2.st = so.st /\ so2.peer = so.peer
        /\ so2.q = so.q /\ so2.want = so.want /\ so2.got = so.got /\ so2.out = so.out
    BY <2>1, <2>3 DEF SocketOK, Socket
  <2> HIDE DEF so2
  <2>5. Shape(so2)
    BY <2>1, <2>3, <2>4 DEF Shape
  <2>6. Same(so, so2, link = "up")
    BY <2>4, <2>5 DEF Same, Expected
  <2> QED  BY <2>2, <2>4, <2>6 DEF so
<1>3. A2 \in [Id -> Socket]
  BY <1>2
<1> HIDE DEF A2
<1> QED  BY <1>1, <1>2, <1>3, SocketsFlow

\* A client writes, reads or leaves: adb's part of the socket is as it was.
LEMMA ClientFlow ==
  ASSUME FlowInv, NEW s \in Side, NEW i \in Id, NEW so \in Socket, Client(s, i, so),
         so.st = sock[s][i].st, so.peer = sock[s][i].peer, so.q = sock[s][i].q,
         so.want = sock[s][i].want, so.pend = sock[s][i].pend,
         so.got = sock[s][i].got, so.out = sock[s][i].out
  PROVE  StreamsOK' /\ OfflineOK'
<1> DEFINE A2 == [sock[s] EXCEPT ![i] = so]
<1>1. sock' = [sock EXCEPT ![s] = A2] /\ UNCHANGED <<nextId, chan, tstate, link>>
  BY DEF Client, FlowInv, TypeOK
<1>2. sock[s] \in [Id -> Socket]
  BY DEF FlowInv, TypeOK
<1>3. A2 \in [Id -> Socket] /\ \A j \in Id : A2[j] = IF j = i THEN so ELSE sock[s][j]
  BY <1>2
<1>4. \A j \in Id : Shape(sock[s][j])
  BY SideGood
<1>5. Shape(so)
  <2>1. Shape(sock[s][i])
    BY <1>4
  <2> QED  BY <2>1 DEF Shape
<1>6. Same(sock[s][i], so, link = "up")
  BY <1>5 DEF Same, Expected
<1>7. \A j \in Id : Same(sock[s][j], sock[s][j], link = "up")
  BY <1>4 DEF Same
<1>8. \A j \in Id : Same(sock[s][j], A2[j], link = "up")
  BY <1>3, <1>6, <1>7
<1> HIDE DEF A2
<1> QED  BY <1>1, <1>3, <1>8, SocketsFlow

\* handle_offline closes every socket with a peer.
LEMMA OfflineFlow ==
  ASSUME FlowInv, NEW s \in Side, HandleOffline(s)
  PROVE  StreamsOK' /\ OfflineOK'
<1> DEFINE A2 == [i \in Id |-> Disconnected(sock[s][i])]
<1>1. /\ sock' = [sock EXCEPT ![s] = A2] /\ UNCHANGED <<nextId, chan, link>>
      /\ link = "down" /\ chan[s] = <<>> /\ tstate' = [tstate EXCEPT ![s] = "offline"]
  BY DEF HandleOffline
<1>2. ASSUME NEW i \in Id
      PROVE  /\ A2[i] \in Socket
             /\ A2[i] = sock[s][i] \/ Ends(sock[s][i], A2[i])
             /\ A2[i].st = "open" => A2[i].peer = 0
  <2> DEFINE so == sock[s][i]
             alone == [so EXCEPT !.peer = 0]
             c == Close(alone)
  <2>1. SocketOK(so) /\ Shape(so)
    BY SideGood
  <2>2. A2[i] = IF so.st = "open" /\ so.peer # 0 THEN c.so ELSE so
    BY DEF Disconnected
  <2> HIDE DEF so
  <2>3. SocketOK(alone) /\ alone.q = so.q
    BY <2>1, MaxIdAssumption DEF SocketOK, Socket
  <2> HIDE DEF alone
  <2>4. CloseFacts(alone, c)
    BY <2>3, CloseAny
  <2> HIDE DEF c
  <2>5. c.so \in Socket /\ c.so.st # "open"
    BY <2>4 DEF CloseFacts, SocketOK
  <2>6. so.st = "open" => Ends(so, c.so)
    BY <2>1, <2>3, <2>4, CloseEnds
  <2> QED  BY <2>1, <2>2, <2>5, <2>6 DEF SocketOK, so
<1>3. A2 \in [Id -> Socket]
  BY <1>2
<1>4. sock'[s] = A2 /\ \A r \in Side : r # s => sock'[r] = sock[r] /\ tstate'[r] = tstate[r]
  BY <1>1 DEF FlowInv, TypeOK
<1> HIDE DEF A2
<1>5. StreamsOK'
  BY <1>1, <1>2, <1>3, SocketsFlow
<1>6. OfflineOK'
  <2> SUFFICES ASSUME NEW r \in Side, tstate'[r] # "online"
               PROVE  /\ link = "down" /\ chan[r] = <<>>
                      /\ \A j \in Id : sock'[r][j].st = "open" => sock'[r][j].peer = 0
    BY <1>1 DEF OfflineOK
  <2>1. CASE r = s
    BY <1>1, <1>2, <1>4, <2>1
  <2>2. CASE r # s
    BY <1>4, <2>2 DEF FlowInv, OfflineOK
  <2> QED  BY <2>1, <2>2
<1> QED  BY <1>5, <1>6

\* close_all_sockets closes the rest.
LEMMA SweepFlow ==
  ASSUME FlowInv, NEW s \in Side, CloseAllSockets(s)
  PROVE  StreamsOK' /\ OfflineOK'
<1> DEFINE A2 == [i \in Id |-> IF sock[s][i].st = "open"
                               THEN local_socket_close_locked(sock[s][i]).so
                               ELSE sock[s][i]]
<1>1. /\ sock' = [sock EXCEPT ![s] = A2] /\ UNCHANGED <<nextId, chan, link>>
      /\ tstate[s] = "offline" /\ tstate' = [tstate EXCEPT ![s] = "swept"]
  BY DEF CloseAllSockets
<1>2. ASSUME NEW i \in Id
      PROVE  /\ A2[i] \in Socket
             /\ A2[i] = sock[s][i] \/ Ends(sock[s][i], A2[i])
             /\ A2[i].st # "open"
  <2> DEFINE so == sock[s][i]
             c == local_socket_close_locked(so)
  <2>1. SocketOK(so) /\ Shape(so)
    BY SideGood
  <2>2. A2[i] = IF so.st = "open" THEN c.so ELSE so
    OBVIOUS
  <2> HIDE DEF so
  <2>3. CloseFacts(so, c)
    BY <2>1, CloseLocked
  <2> HIDE DEF c
  <2>4. c.so \in Socket /\ c.so.st # "open"
    BY <2>3 DEF CloseFacts, SocketOK
  <2>5. so.st = "open" => Ends(so, c.so)
    BY <2>1, <2>3, CloseEnds
  <2> QED  BY <2>1, <2>2, <2>4, <2>5 DEF SocketOK, so
<1>3. A2 \in [Id -> Socket]
  BY <1>2
<1>4. sock'[s] = A2 /\ \A r \in Side : r # s => sock'[r] = sock[r] /\ tstate'[r] = tstate[r]
  BY <1>1 DEF FlowInv, TypeOK
<1> HIDE DEF A2
<1>5. StreamsOK'
  BY <1>1, <1>2, <1>3, SocketsFlow
<1>6. OfflineOK'
  <2> SUFFICES ASSUME NEW r \in Side, tstate'[r] # "online"
               PROVE  /\ link = "down" /\ chan[r] = <<>>
                      /\ \A j \in Id : sock'[r][j].st = "open" => sock'[r][j].peer = 0
    BY <1>1 DEF OfflineOK
  <2>1. CASE r = s
    BY <1>1, <1>2, <1>4, <2>1 DEF FlowInv, OfflineOK
  <2>2. CASE r # s
    BY <1>4, <2>2 DEF FlowInv, OfflineOK
  <2> QED  BY <2>1, <2>2
<1> QED  BY <1>5, <1>6

LEMMA BreakFlow ==
  ASSUME FlowInv, BreakLink
  PROVE  StreamsOK' /\ OfflineOK'
<1>1. /\ link = "up" /\ link' = "down" /\ UNCHANGED <<sock, nextId, tstate>>
      /\ \E h \in 0 .. Len(chan["host"]), d \in 0 .. Len(chan["device"]) :
           chan' = [s \in Side |-> SubSeq(chan[s], 1, IF s = "host" THEN h ELSE d)]
  BY DEF BreakLink
<1>2. PICK h \in 0 .. Len(chan["host"]), d \in 0 .. Len(chan["device"]) :
        chan' = [s \in Side |-> SubSeq(chan[s], 1, IF s = "host" THEN h ELSE d)]
  BY <1>1
<1>3. chan'["host"] = SubSeq(chan["host"], 1, h) /\ chan'["device"] = SubSeq(chan["device"], 1, d)
  BY <1>2 DEF Side
<1>4. \A c \in Seq(Packet) : \A n \in 0 .. Len(c) :
        SubSeq(c, 1, n) \in Seq(Packet) /\ Cut(c, SubSeq(c, 1, n))
  <2> SUFFICES ASSUME NEW c \in Seq(Packet), NEW n \in 0 .. Len(c)
               PROVE  SubSeq(c, 1, n) \in Seq(Packet) /\ Cut(c, SubSeq(c, 1, n))
    OBVIOUS
  <2>1. /\ SubSeq(c, 1, n) \in Seq(Packet) /\ Len(SubSeq(c, 1, n)) = n
        /\ \A k \in 1 .. n : SubSeq(c, 1, n)[k] = c[k]
    OBVIOUS
  <2>2. Len(c) \in Nat
    OBVIOUS
  <2> QED  BY <2>1, <2>2 DEF Cut
<1>5. "host" \in Side /\ Other("host") = "device" /\ "device" \in Side
  BY DEF Side, Other
<1>6. Good(sock["host"], sock["device"], chan["host"], chan["device"],
           nextId["host"], nextId["device"], link = "up")
  BY <1>5, SideGood
<1>7. /\ chan["host"] \in Seq(Packet) /\ chan["device"] \in Seq(Packet)
  BY <1>6 DEF Good, Tables
<1>8. /\ chan'["host"] \in Seq(Packet) /\ Cut(chan["host"], chan'["host"])
      /\ chan'["device"] \in Seq(Packet) /\ Cut(chan["device"], chan'["device"])
  BY <1>2, <1>3, <1>4, <1>7
<1>9. Streams(sock["host"], sock["device"], chan'["host"], chan'["device"],
              nextId["host"], nextId["device"], FALSE)
  BY <1>6, <1>8, BreakStep DEF Good
<1>10. Tables(sock["host"], sock["device"], chan'["host"], chan'["device"],
              nextId["host"], nextId["device"])
  BY <1>6, <1>8 DEF Good, Tables
<1>11. (link' = "up") = FALSE
  BY <1>1
<1>12. StreamsOK'
  BY <1>1, <1>5, <1>9, <1>10, <1>11 DEF StreamsOK, AtSide, Good
<1>13. OfflineOK'
  BY <1>1 DEF FlowInv, OfflineOK
<1> QED  BY <1>12, <1>13

LEMMA EnvironmentFlow ==
  ASSUME FlowInv, Environment
  PROVE  StreamsOK' /\ OfflineOK'
<1>1. ASSUME NEW s \in Side, NEW i \in Id, NEW so \in Socket, Client(s, i, so),
             so.st = sock[s][i].st, so.peer = sock[s][i].peer, so.q = sock[s][i].q,
             so.want = sock[s][i].want, so.pend = sock[s][i].pend,
             so.got = sock[s][i].got, so.out = sock[s][i].out
      PROVE  StreamsOK' /\ OfflineOK'
  BY <1>1, ClientFlow
<1>2. ASSUME NEW s \in Side, NEW i \in Id PROVE sock[s][i] \in Socket
  BY <1>2 DEF FlowInv, TypeOK
<1>3. ASSUME NEW s \in Side, NEW i \in Id, ClientWrite(s, i) PROVE StreamsOK' /\ OfflineOK'
  <2> DEFINE so == [sock[s][i] EXCEPT !.src = @ + 1]
  <2>1. /\ so \in Socket
        /\ so.st = sock[s][i].st /\ so.peer = sock[s][i].peer /\ so.q = sock[s][i].q
        /\ so.want = sock[s][i].want /\ so.pend = sock[s][i].pend
        /\ so.got = sock[s][i].got /\ so.out = sock[s][i].out
    BY SMTT(30), <1>2 DEF Socket
  <2>2. Client(s, i, so)
    BY <1>3 DEF ClientWrite
  <2> HIDE DEF so
  <2> QED  BY <1>1, <2>1, <2>2
<1>4. ASSUME NEW s \in Side, NEW i \in Id, ClientRead(s, i) PROVE StreamsOK' /\ OfflineOK'
  <2> DEFINE so == [sock[s][i] EXCEPT !.took = sock[s][i].out]
  <2>1. /\ so \in Socket
        /\ so.st = sock[s][i].st /\ so.peer = sock[s][i].peer /\ so.q = sock[s][i].q
        /\ so.want = sock[s][i].want /\ so.pend = sock[s][i].pend
        /\ so.got = sock[s][i].got /\ so.out = sock[s][i].out
    BY SMTT(30), <1>2 DEF Socket
  <2>2. Client(s, i, so)
    BY <1>4 DEF ClientRead
  <2> HIDE DEF so
  <2> QED  BY <1>1, <2>1, <2>2
<1>5. ASSUME NEW s \in Side, NEW i \in Id, NEW how \in Shuts, ClientShut(s, i, how)
      PROVE  StreamsOK' /\ OfflineOK'
  <2> DEFINE so == [sock[s][i] EXCEPT !.shut = how]
  <2>1. /\ so \in Socket
        /\ so.st = sock[s][i].st /\ so.peer = sock[s][i].peer /\ so.q = sock[s][i].q
        /\ so.want = sock[s][i].want /\ so.pend = sock[s][i].pend
        /\ so.got = sock[s][i].got /\ so.out = sock[s][i].out
    BY <1>2, ShutsAssumption DEF Socket
  <2>2. Client(s, i, so)
    BY <1>5 DEF ClientShut
  <2> HIDE DEF so
  <2> QED  BY <1>1, <2>1, <2>2
<1> QED  BY <1>3, <1>4, <1>5, BreakFlow DEF Environment

-----------------------------------------------------------------------------
(* The theorems.                                                           *)

\* A backlog is one packet.
LEMMA ShortQueue ==
  ASSUME NEW so, Shape(so), NEW n \in 1 .. Len(so.q)
  PROVE  n = 1 /\ so.q # <<>>
<1>1. CASE so.q = <<>>
  <2>1. n \in 1 .. 0
    BY <1>1
  <2> QED  BY <2>1
<1>2. CASE so.q # <<>>
  <2>1. Len(so.q) = 1
    BY <1>2 DEF Shape
  <2> QED  BY <1>2, <2>1
<1> QED  BY <1>1, <1>2

LEMMA InitFlow == Init => FlowInv
<1> SUFFICES ASSUME Init PROVE FlowInv
  OBVIOUS
<1> DEFINE A == sock["host"]
           B == sock["device"]
           a == chan["host"]
           b == chan["device"]
<1>1. TypeOK
  BY InitOK DEF TypedAndTold
<1>2. /\ \A i \in Id : A[i] = NoSocket /\ B[i] = NoSocket
      /\ a = <<>> /\ b = <<>> /\ nextId["host"] = 1 /\ nextId["device"] = 1 /\ link = "up"
      /\ "host" \in Side /\ "device" \in Side /\ Other("host") = "device"
  BY DEF Init, Side, Other
<1>3. Tables(A, B, a, b, 1, 1)
  BY <1>1, <1>2 DEF TypeOK, Tables
<1> HIDE DEF A, B, a, b
<1>4. /\ NoSocket.st = "none" /\ NoSocket.peer = 0 /\ NoSocket.want = {} /\ NoSocket.pend = {}
      /\ NoSocket.q = <<>>
  BY DEF NoSocket
<1>5. \A i \in Id : i # 0
  BY DEF Id
<1>6. \A n : n \notin 1 .. Len(<<>>)
  OBVIOUS
<1>7. ASSUME NEW C, NEW D, NEW c, NEW d, NEW up, c = <<>>, d = <<>>,
             \A i \in Id : C[i] = NoSocket /\ D[i] = NoSocket
      PROVE  Half(C, D, c, d, 1, 1, up)
  <2>1. \A i \in Id : Shape(C[i])
    BY <1>4, <1>7 DEF Shape
  <2>2. Given(C, D, c, 1, 1)
    BY <1>4, <1>6, <1>7 DEF Given
  <2>3. OneCredit(C, D, c, d)
    BY <1>4, <1>6, <1>7 DEF OneCredit, OneSent, OneAcked, OneHeld, SentOrAcked, SentOrHeld,
                            AckedOrHeld, SentOrReads, AckedOrReads, HeldOrReads
  <2>4. \A i, k \in Id : ~Tied(C, D, c, d, i, k)
    BY <1>4, <1>5, <1>6, <1>7 DEF Tied, Ties
  <2>5. TiedOnce(C, D, c, d) /\ Unopened(C, D, c, d) /\ Announced(C, c)
        /\ OkayFromPeer(D, c) /\ Continues(C, c)
    BY <1>6, <1>7, <2>4 DEF TiedOnce, Unopened, Announced, OkayFromPeer, Continues
  <2>6. PeerKnows(C, D, c) /\ Accounted(C, D, c)
    BY <1>4, <1>5, <1>7 DEF PeerKnows, Accounted
  <2> QED  BY <2>1, <2>2, <2>3, <2>5, <2>6 DEF Half
<1>8. Streams(A, B, a, b, 1, 1, link = "up")
  BY <1>2, <1>7 DEF Streams
<1>9. StreamsOK
  BY <1>2, <1>3, <1>8 DEF StreamsOK, AtSide, Good, A, B, a, b
<1>10. OfflineOK
  BY DEF Init, OfflineOK
<1> QED  BY <1>1, <1>9, <1>10 DEF FlowInv

LEMMA FlowStep ==
  ASSUME FlowInv, [Next]_vars
  PROVE  StreamsOK' /\ OfflineOK'
<1>1. ASSUME NEW s \in Side, Loop(s) PROVE StreamsOK' /\ OfflineOK'
  BY <1>1, ProcessFlow, SocketEventFlow, AcceptFlow, NoSocketFlow, StreamFlow, OfflineFlow
     DEF Loop
<1>2. CASE Next
  BY <1>1, <1>2, ConnectFlow, SweepFlow, EnvironmentFlow DEF Next
<1>3. CASE UNCHANGED vars
  BY <1>3 DEF vars, FlowInv, StreamsOK, OfflineOK
<1> QED  BY <1>2, <1>3

LEMMA FlowInvariant == Spec => []FlowInv
<1>1. FlowInv /\ [Next]_vars => (StreamsOK /\ OfflineOK)'
  BY FlowStep
<1>2. TypedAndTold => TypeOK
  BY DEF TypedAndTold
<1>3. Init => StreamsOK /\ OfflineOK
  BY InitFlow DEF FlowInv
<1>4. FlowInv <=> TypeOK /\ (StreamsOK /\ OfflineOK)
  BY DEF FlowInv
<1> QED  BY <1>1, <1>2, <1>3, <1>4, TypedAndToldInvariant, PTL DEF Spec

\* The write event never meets a null peer (sockets.c:316), whatever the order
\* of OPEN, OKAY, WRTE and the two main loops: a backlog needs a WRTE, a WRTE
\* needs the OKAY that binds the socket, and both come through one FIFO.
THEOREM NoNullPeer == Spec => []NeverFaults
<1>1. FlowInv => NeverFaults
  BY SideGood DEF NeverFaults, Shape
<1> QED  BY <1>1, FlowInvariant, PTL

\* While a stream is open, its bytes arrive in order, once each and with no gap,
\* over every split into packets and every backlog of local_socket_enqueue.
THEOREM BytesInOrder == Spec => []InOrder
<1>1. FlowInv => InOrder
  <2> SUFFICES ASSUME FlowInv, NEW s \in Side, NEW i \in Id
               PROVE  LET so == sock[s][i]
                      IN  /\ \A n \in 1 .. Len(so.q) : so.q[n].upto = so.q[n].off + so.q[n].len
                          /\ so.st = "open" =>
                               \A n \in 1 .. Len(chan[s]) :
                                 chan[s][n].cmd = "WRTE" /\ chan[s][n].arg1 = i
                                   => chan[s][n].off = Expected(so)
    BY DEF InOrder
  <2>1. /\ Continues(sock[s], chan[s]) /\ Shape(sock[s][i])
    BY SideGood DEF Good, Streams, Half
  <2>2. \A n \in 1 .. Len(sock[s][i].q) : n = 1 /\ sock[s][i].q # <<>>
    BY <2>1, ShortQueue
  <2>3. \A n \in 1 .. Len(sock[s][i].q) :
          sock[s][i].q[n].upto = sock[s][i].q[n].off + sock[s][i].q[n].len
    BY <2>1, <2>2 DEF Shape
  <2>4. sock[s][i].st = "open" =>
          \A n \in 1 .. Len(chan[s]) :
            chan[s][n].cmd = "WRTE" /\ chan[s][n].arg1 = i
              => chan[s][n].off = Expected(sock[s][i])
    BY <2>1 DEF Continues
  <2> QED  BY <2>3, <2>4
<1> QED  BY <1>1, FlowInvariant, PTL

\* close_all_sockets, which runs in the input thread without the main loop's
\* knowledge (transport.c:359), only ever destroys sockets at rest.
THEOREM SweptSocketsAreQuiet == Spec => []SweepIsQuiet
<1>1. FlowInv => SweepIsQuiet
  <2> SUFFICES ASSUME FlowInv, NEW s \in Side, NEW i \in Id,
                      tstate[s] = "offline", sock[s][i].st = "open"
               PROVE  /\ sock[s][i].peer = 0 /\ sock[s][i].q = <<>>
                      /\ sock[s][i].want = {} /\ sock[s][i].pend = {}
    BY DEF SweepIsQuiet
  <2>1. Shape(sock[s][i]) /\ sock[s][i].peer = 0
    BY SideGood DEF FlowInv, OfflineOK
  <2> QED  BY <2>1 DEF Shape
<1> QED  BY <1>1, FlowInvariant, PTL

\* No local socket that reads by its own events has two credits, for any number of
\* streams and any payload and buffer size: a slow reader makes the other process
\* hold one packet a stream.
THEOREM OneCreditPerStream == Spec => []FlowControl
<1>1. FlowInv => FlowControl
  <2> SUFFICES ASSUME FlowInv, NEW s \in Side, NEW i \in Id,
                      NEW x \in Credits(sock, chan, s, i), NEW y \in Credits(sock, chan, s, i)
               PROVE  x = y
    BY DEF FlowControl
  <2> DEFINE A == sock[Other(s)]
             B == sock[s]
             a == chan[Other(s)]
             b == chan[s]
             InSent(z) == \E n \in 1 .. Len(a) : Carries(a[n]) /\ a[n].arg0 = i /\ z = <<"sent", 0, n>>
             InOkay(z) == \E n \in 1 .. Len(b) : b[n].cmd = "OKAY" /\ b[n].arg1 = i /\ z = <<"okay", 0, n>>
             InHeld(z) == \E j \in Id : A[j].q # <<>> /\ A[j].q[1].arg0 = i /\ z = <<"held", j, 1>>
             InRead(z) == "R" \in B[i].want /\ z = <<"read", 0, 0>>
  <2>1. Other(s) \in Side /\ Other(Other(s)) = s
    BY SideFacts
  <2>2. OneCredit(A, B, a, b) /\ \A j \in Id : Shape(A[j])
    <3>1. Good(A, B, a, b, nextId[Other(s)], nextId[s], link = "up")
      BY <2>1, SideGood
    <3> QED  BY <3>1 DEF Good, Streams, Half
  <2>3. \A j \in Id : \A n \in 1 .. Len(A[j].q) : n = 1 /\ A[j].q # <<>>
    BY <2>2, ShortQueue
  <2>4. ASSUME NEW z \in Credits(sock, chan, s, i)
        PROVE  InSent(z) \/ InOkay(z) \/ InHeld(z) \/ InRead(z)
    <3> DEFINE S1 == {<<"sent", 0, n>> : n \in Sent(chan, s, i)}
               S2 == {<<"okay", 0, n>> : n \in Acked(chan, s, i)}
               S3 == UNION {{<<"held", j, n>> : n \in Held(sock, s, i, j)} : j \in Id}
               S4 == IF "R" \in sock[s][i].want THEN {<<"read", 0, 0>>} ELSE {}
    <3>0. Credits(sock, chan, s, i) = S1 \union S2 \union S3 \union S4
      BY DEF Credits
    <3>1. z \in S1 => InSent(z)
      BY DEF Sent, Carries
    <3>2. z \in S2 => InOkay(z)
      BY DEF Acked
    <3>3. ASSUME z \in S3 PROVE InHeld(z)
      <4>1. PICK j \in Id : \E n \in Held(sock, s, i, j) : z = <<"held", j, n>>
        BY <3>3
      <4>2. PICK n \in Held(sock, s, i, j) : z = <<"held", j, n>>
        BY <4>1
      <4>3. n \in 1 .. Len(A[j].q) /\ A[j].q[n].arg0 = i
        BY DEF Held
      <4>4. n = 1 /\ A[j].q # <<>>
        BY <2>3, <4>3
      <4> QED  BY <4>2, <4>3, <4>4
    <3>4. z \in S4 => InRead(z)
      OBVIOUS
    <3> HIDE DEF S1, S2, S3, S4, InSent, InOkay, InHeld, InRead
    <3> QED  BY <2>4, <3>0, <3>1, <3>2, <3>3, <3>4
  <2>5. InSent(x) \/ InOkay(x) \/ InHeld(x) \/ InRead(x)
    BY <2>4
  <2>6. InSent(y) \/ InOkay(y) \/ InHeld(y) \/ InRead(y)
    BY <2>4
  <2> HIDE DEF A, B, a, b
  <2>7. InSent(x) /\ InSent(y) => x = y
    BY <2>2 DEF OneCredit, OneSent
  <2>8. InOkay(x) /\ InOkay(y) => x = y
    BY <2>2 DEF OneCredit, OneAcked
  <2>9. InHeld(x) /\ InHeld(y) => x = y
    BY <2>2 DEF OneCredit, OneHeld
  <2>10. \A u, v : ~(InSent(u) /\ InOkay(v)) /\ ~(InSent(u) /\ InHeld(v)) /\ ~(InOkay(u) /\ InHeld(v))
    BY <2>2 DEF OneCredit, SentOrAcked, SentOrHeld, AckedOrHeld
  <2>11. \A u, v : ~(InSent(u) /\ InRead(v)) /\ ~(InOkay(u) /\ InRead(v)) /\ ~(InHeld(u) /\ InRead(v))
    BY <2>2 DEF OneCredit, SentOrReads, AckedOrReads, HeldOrReads
  <2>12. InRead(x) /\ InRead(y) => x = y
    OBVIOUS
  <2> HIDE DEF InSent, InOkay, InHeld, InRead
  <2> QED  BY <2>5, <2>6, <2>7, <2>8, <2>9, <2>10, <2>11, <2>12
<1> QED  BY <1>1, FlowInvariant, PTL

\* Streams never cross: a socket is never tied to two sockets of the other side,
\* although handle_packet routes by arg1 alone (adb.c:582, 594, 602).
THEOREM StreamsNeverCross == Spec => []Paired
<1>1. FlowInv => Paired
  <2> SUFFICES ASSUME FlowInv, NEW x \in Links, NEW y \in Links
               PROVE  x[1] = y[1] <=> x[2] = y[2]
    BY DEF Paired
  <2> DEFINE A == sock["host"]
             B == sock["device"]
             a == chan["host"]
             b == chan["device"]
             Joins(z) == z[1] \in Id /\ z[2] \in Id /\ Tied(A, B, a, b, z[1], z[2])
  <2>1. /\ "host" \in Side /\ Other("host") = "device"
        /\ "device" \in Side /\ Other("device") = "host"
    BY DEF Side, Other
  <2>2. /\ TiedOnce(A, B, a, b) /\ TiedOnce(B, A, b, a) /\ Named(A, a) /\ Named(B, b)
        /\ \A i \in Id : Shape(A[i]) /\ Shape(B[i])
    <3>1. /\ Good(A, B, a, b, nextId["host"], nextId["device"], link = "up")
          /\ Good(B, A, b, a, nextId["device"], nextId["host"], link = "up")
      BY <2>1, SideGood
    <3> HIDE DEF A, B, a, b
    <3> QED  BY <3>1, NamesAreIds DEF Good, Streams, Half
  <2>3. ASSUME NEW s \in Side, NEW i \in Id, NEW k \in Id, Ties(sock[s], chan[s], i, k)
        PROVE  Joins(LinkOf(s, i, k))
    <3>1. CASE s = "host"
      <4>1. LinkOf(s, i, k) = <<i, k>> /\ Tied(A, B, a, b, i, k)
        BY <2>3, <3>1 DEF LinkOf, Tied
      <4> QED  BY <4>1
    <3>2. CASE s = "device"
      <4>1. LinkOf(s, i, k) = <<k, i>> /\ Tied(A, B, a, b, k, i)
        BY <2>3, <3>2 DEF LinkOf, Tied
      <4> QED  BY <4>1
    <3> QED  BY <3>1, <3>2 DEF Side
  <2>4. ASSUME NEW z \in Links PROVE Joins(z)
    <3>1. PICK s \in Side : z \in PeerLinks(s) \union PacketLinks(s)
                                    \union UNION {QueueLinks(s, i) : i \in Id}
      BY <2>4 DEF Links
    <3>2. Named(sock[s], chan[s]) /\ \A i \in Id : Shape(sock[s][i])
      BY <2>2 DEF Side
    <3> HIDE DEF Joins
    <3>3. CASE z \in PeerLinks(s)
      <4>1. PICK i \in Id : sock[s][i].peer # 0 /\ z = LinkOf(s, i, sock[s][i].peer)
        BY <3>3 DEF PeerLinks
      <4>2. sock[s][i].peer \in Id
        BY <3>2, <4>1 DEF Named
      <4>3. Ties(sock[s], chan[s], i, sock[s][i].peer)
        BY DEF Ties
      <4> QED  BY <2>3, <4>1, <4>2, <4>3
    <3>4. CASE z \in PacketLinks(s)
      <4>1. PICK n \in 1 .. Len(chan[s]) :
              chan[s][n].cmd \in {"OKAY", "WRTE"} /\ z = LinkOf(s, chan[s][n].arg1, chan[s][n].arg0)
        BY <3>4 DEF PacketLinks
      <4>2. chan[s][n].arg1 \in Id /\ chan[s][n].arg0 \in Id
        BY <3>2, <4>1 DEF Named, Binds
      <4>3. Ties(sock[s], chan[s], chan[s][n].arg1, chan[s][n].arg0)
        BY <4>1 DEF Ties, Binds
      <4> QED  BY <2>3, <4>1, <4>2, <4>3
    <3>5. CASE z \in UNION {QueueLinks(s, i) : i \in Id}
      <4>1. PICK i \in Id : z \in QueueLinks(s, i)
        BY <3>5
      <4>2. PICK n \in 1 .. Len(sock[s][i].q) : z = LinkOf(s, i, sock[s][i].q[n].arg0)
        BY <4>1 DEF QueueLinks
      <4>3. n = 1 /\ sock[s][i].q # <<>>
        BY <3>2, ShortQueue
      <4>4. sock[s][i].q[1].arg0 \in Id
        BY <3>2, <4>3 DEF Named
      <4>5. Ties(sock[s], chan[s], i, sock[s][i].q[1].arg0)
        BY <4>3 DEF Ties
      <4> QED  BY <2>3, <4>2, <4>3, <4>4, <4>5
    <3> QED  BY <3>1, <3>3, <3>4, <3>5
  <2>5. Joins(x) /\ Joins(y)
    BY <2>4
  <2> HIDE DEF A, B, a, b
  <2>6. \A i, k \in Id : Tied(B, A, b, a, k, i) <=> Tied(A, B, a, b, i, k)
    BY DEF Tied
  <2> QED  BY <2>2, <2>5, <2>6 DEF TiedOnce
<1> QED  BY <1>1, FlowInvariant, PTL

-----------------------------------------------------------------------------
(* The refinement: one socket on each side, opened by the host.            *)
(*                                                                         *)
(* so is the socket of one side and ot the socket of the other, a and b    *)
(* the packets on their way to so and to ot, na and nb the next ids.       *)

Has(c, cmd) == \E n \in 1 .. Len(c) : c[n].cmd = cmd
Closed(so) == so.st \in {"closing", "freed"}

\* The client of so is given no byte that adb has not taken from the other.
Delivered(so, ot, a) ==
  /\ so.out <= Room(so) /\ so.out <= Expected(so) /\ Expected(so) <= ot.got
  /\ \A n \in 1 .. Len(a) : a[n].cmd = "WRTE" => a[n].off + a[n].len <= ot.got

\* A CLSE comes from an end that is not open to one that was; the OPEN is the
\* first of all packets.
Begins(so, ot, a, b, na) ==
  /\ Has(a, "CLSE") => ot.st # "open" /\ so.st # "none"
  /\ Has(a, "OPEN") => so.st = "none" /\ ot.st # "none" /\ ~Has(b, "CLSE")
  /\ so.st = "none" => so.got = 0 /\ so.shut = "no" /\ na = 1

\* The bytes the CLSE at place n closes behind: they are all with so, or end
\* with a WRTE ahead of it.
Behindhand(so, ot, a, n) ==
  \/ \E m \in 1 .. Len(a) : /\ m < n /\ a[m].cmd = "WRTE"
                            /\ a[m].off + a[m].len = ot.got
  \/ ot.got = Expected(so) /\ ~Has(a, "WRTE")

\* While the link holds, an end closes for a reason, which is known at both
\* ends: a client that ended its connection, or a service that never started.
\* An end whose client did not give up is closed after the other, and keeps
\* what it still has to write.
Farewell(so, ot, a) ==
  /\ Closed(so) /\ so.shut = "no" => ot.st # "open"
  /\ Closed(so) => so.shut # "no" \/ ot.shut # "no" \/ ot.st = "none"
  /\ so.st = "closing" /\ so.shut = "no" => Expected(so) = ot.got
  /\ so.st = "closing" /\ "R" \in so.pend => ot.shut # "no" /\ ot.st # "open"
  /\ so.st = "open" => \A n \in 1 .. Len(a) : a[n].cmd = "CLSE" => Behindhand(so, ot, a, n)
  /\ Has(a, "OPEN") /\ Closed(ot) => ot.shut # "no"

PipeHalf(so, ot, a, b, na, up) ==
  Delivered(so, ot, a) /\ Begins(so, ot, a, b, na) /\ (up => Farewell(so, ot, a))

PipeBoth(so, ot, a, b, na, nb, up) ==
  PipeHalf(so, ot, a, b, na, up) /\ PipeHalf(ot, so, b, a, nb, up)

\* The sockets are typed, the other is well formed, the channels are channels.
Ends2(so, ot, a, b) ==
  /\ SocketOK(so) /\ SocketOK(ot) /\ Shape(ot)
  /\ a \in Seq(Packet) /\ b \in Seq(Packet)

\* A step of adb that takes so to so2 is a step of the pipe.
Gives(so, so2, ot, up) ==
  /\ so.st \in {"open", "closing"} /\ so2.st \in {"open", "closing", "freed"}
  /\ so2.shut = so.shut /\ so2.src = so.src /\ so2.took = so.took
  /\ so.got <= so2.got /\ so2.got <= so.src
  /\ so.out <= so2.out /\ so2.out <= ot.got
  /\ so2.got > so.got /\ ot.shut = "no" /\ up => so2.got - ot.out <= MAX_PAYLOAD
  /\ so2.st = "freed" =>
       /\ so.shut # "no" \/ ot.shut # "no" \/ ot.st = "none" \/ ~up
       /\ so.shut = "no" /\ up => so2.out = ot.got

LEMMA NumbersOf ==
  ASSUME NEW so, SocketOK(so)
  PROVE  /\ so.src \in Nat /\ so.got \in Nat /\ so.out \in Nat /\ so.took \in Nat
         /\ Expected(so) \in Nat /\ Room(so) \in Nat /\ so.got <= so.src
<1>1. /\ so.src \in Nat /\ so.got \in Nat /\ so.out \in Nat /\ so.took \in Nat
      /\ so.q \in Seq(Entry) /\ so.got <= so.src
  BY DEF SocketOK, Socket
<1>2. CASE so.q = <<>>
  BY <1>1, <1>2, FdCapAssumption DEF Expected, Room
<1>3. CASE so.q # <<>>
  <2>1. so.q[Len(so.q)] \in Entry
    BY <1>1, <1>3
  <2>2. Expected(so) \in Nat
    BY <1>3, <2>1 DEF Expected, Entry
  <2> QED  BY <1>1, <2>2, FdCapAssumption DEF Room
<1> QED  BY <1>2, <1>3

LEMMA PacketNumbers ==
  ASSUME NEW b \in Seq(Packet), NEW m \in 1 .. Len(b)
  PROVE  b[m].off \in Nat /\ b[m].len \in Nat /\ b[m].off + b[m].len \in Nat
<1> DEFINE p == b[m]
<1>1. p \in Packet
  OBVIOUS
<1> HIDE DEF p
<1>2. p.off \in Nat /\ p.len \in Nat
  BY <1>1 DEF Packet
<1>3. p.off + p.len \in Nat
  BY <1>2
<1> QED  BY <1>2, <1>3 DEF p

LEMMA GivesTwice ==
  ASSUME NEW so, NEW so1, NEW so2, NEW ot, NEW up,
         SocketOK(so), SocketOK(so1), SocketOK(so2), SocketOK(ot),
         Gives(so, so1, ot, up), Gives(so1, so2, ot, up)
  PROVE  Gives(so, so2, ot, up)
<1>1. /\ so.got \in Nat /\ so1.got \in Nat /\ so2.got \in Nat /\ so.src \in Nat
      /\ so.out \in Nat /\ so1.out \in Nat /\ so2.out \in Nat /\ ot.got \in Nat
      /\ ot.out \in Nat
  BY NumbersOf
<1> QED  BY <1>1, PayloadAssumption DEF Gives

\* What a channel has, when a packet joins its end or its head is taken.
LEMMA HasExtended ==
  ASSUME NEW b \in Seq(Packet), NEW b2, NEW p, NEW up, Extended(b, b2, p, up), NEW cmd
  PROVE  Has(b2, cmd) => Has(b, cmd) \/ p.cmd = cmd
BY DEF Has, Extended

LEMMA HasShifted ==
  ASSUME NEW a, NEW a2, Shifted(a, a2), NEW cmd, Has(a2, cmd)
  PROVE  Has(a, cmd)
BY DEF Has, Shifted

\* A CLSE behind the bytes of so stays behind them when a packet joins.
LEMMA BehindhandExtended ==
  ASSUME NEW so, NEW ot, NEW a \in Seq(Packet), NEW a2, NEW p, NEW up, Extended(a, a2, p, up),
         p.cmd # "WRTE", NEW n \in 1 .. Len(a), Behindhand(so, ot, a, n)
  PROVE  Behindhand(so, ot, a2, n)
<1>1. ~Has(a, "WRTE") => ~Has(a2, "WRTE")
  BY HasExtended
<1>2. \A m \in 1 .. Len(a) : m \in 1 .. Len(a2) /\ a2[m] = a[m]
  BY DEF Extended
<1> QED  BY <1>1, <1>2 DEF Behindhand

\* b2 is b, or b with an OKAY at its end.
Answered(b, b2, up) ==
  b2 = b \/ \E p \in Packet : p.cmd = "OKAY" /\ Extended(b, b2, p, up)

LEMMA AnsweredFacts ==
  ASSUME NEW b \in Seq(Packet), NEW b2, NEW up, Answered(b, b2, up)
  PROVE  /\ \A cmd : cmd # "OKAY" /\ Has(b2, cmd) => Has(b, cmd)
         /\ \A n \in 1 .. Len(b2) : b2[n].cmd # "OKAY" => n \in 1 .. Len(b) /\ b2[n] = b[n]
         /\ \A so, ot : \A n \in 1 .. Len(b) :
              Behindhand(so, ot, b, n) => Behindhand(so, ot, b2, n)
<1>1. CASE b2 = b
  BY <1>1
<1>2. CASE \E p \in Packet : p.cmd = "OKAY" /\ Extended(b, b2, p, up)
  <2>1. PICK p \in Packet : p.cmd = "OKAY" /\ Extended(b, b2, p, up)
    BY <1>2
  <2>2. \A cmd : cmd # "OKAY" /\ Has(b2, cmd) => Has(b, cmd)
    BY <2>1, HasExtended
  <2>3. \A n \in 1 .. Len(b2) : b2[n].cmd # "OKAY" => n \in 1 .. Len(b) /\ b2[n] = b[n]
    BY <2>1 DEF Extended
  <2>4. ASSUME NEW so, NEW ot, NEW n \in 1 .. Len(b), Behindhand(so, ot, b, n)
        PROVE  Behindhand(so, ot, b2, n)
    BY <2>1, <2>4, BehindhandExtended
  <2> QED  BY <2>2, <2>3, <2>4
<1> QED  BY <1>1, <1>2 DEF Answered

\* Events come and go, the client writes, reads or gives up, a backlog is
\* written out and answered: the pipe's invariant does not see the rest.
Quiet(so, so2) ==
  /\ so2.st = so.st /\ so2.got = so.got /\ Expected(so2) = Expected(so)
  /\ so2.out <= Room(so2) /\ so2.out <= Expected(so2)
  /\ so2.shut = so.shut \/ (so2.shut # "no" /\ so.st # "none")
  /\ so2.st = "closing" /\ "R" \in so2.pend => "R" \in so.pend

LEMMA PipeQuiet ==
  ASSUME NEW so, NEW ot, NEW a, NEW b, NEW na, NEW nb, NEW up,
         Ends2(so, ot, a, b), PipeBoth(so, ot, a, b, na, nb, up),
         NEW so2, Quiet(so, so2), NEW b2, Answered(b, b2, up)
  PROVE  PipeBoth(so2, ot, a, b2, na, nb, up)
<1>0. b \in Seq(Packet)
  BY DEF Ends2
<1>a. /\ \A cmd : cmd # "OKAY" /\ Has(b2, cmd) => Has(b, cmd)
      /\ \A n \in 1 .. Len(b2) : b2[n].cmd # "OKAY" => n \in 1 .. Len(b) /\ b2[n] = b[n]
      /\ \A n \in 1 .. Len(b) : Behindhand(ot, so, b, n) => Behindhand(ot, so, b2, n)
  BY <1>0, AnsweredFacts
<1>h. /\ Has(b2, "CLSE") => Has(b, "CLSE")
      /\ Has(b2, "OPEN") => Has(b, "OPEN")
  BY <1>a
<1>1. Delivered(so2, ot, a)
  BY DEF PipeBoth, PipeHalf, Delivered, Quiet
<1>2. Delivered(ot, so2, b2)
  BY <1>a DEF PipeBoth, PipeHalf, Delivered, Quiet
<1>3. Begins(so2, ot, a, b2, na) /\ Begins(ot, so2, b2, a, nb)
  BY <1>h DEF PipeBoth, PipeHalf, Begins, Quiet
<1>4. ASSUME up PROVE Farewell(so2, ot, a)
  <2>1. Farewell(so, ot, a)
    BY <1>4 DEF PipeBoth, PipeHalf
  <2>2. \A n \in 1 .. Len(a) : Behindhand(so, ot, a, n) => Behindhand(so2, ot, a, n)
    BY DEF Behindhand, Quiet
  <2> QED  BY <2>1, <2>2 DEF Farewell, Closed, Quiet
<1>5. ASSUME up PROVE Farewell(ot, so2, b2)
  <2>1. Farewell(ot, so, b)
    BY <1>5 DEF PipeBoth, PipeHalf
  <2>2. \A n \in 1 .. Len(b) : Behindhand(ot, so, b2, n) => Behindhand(ot, so2, b2, n)
    BY DEF Behindhand, Quiet
  <2>3. ot.st = "open" => \A n \in 1 .. Len(b2) : b2[n].cmd = "CLSE" => Behindhand(ot, so2, b2, n)
    BY <1>a, <2>1, <2>2 DEF Farewell
  <2> QED  BY <1>h, <2>1, <2>3 DEF Farewell, Closed, Quiet
<1> QED  BY <1>1, <1>2, <1>3, <1>4, <1>5 DEF PipeBoth, PipeHalf

\* The head of a channel is taken, and is not for an open socket or carries
\* no bytes.
LEMMA PipeDrop ==
  ASSUME NEW so, NEW ot, NEW a, NEW b, NEW na, NEW nb, NEW up,
         Ends2(so, ot, a, b), PipeBoth(so, ot, a, b, na, nb, up),
         a # <<>>, so.st # "open" \/ a[1].cmd # "WRTE",
         NEW a2 \in Seq(Packet), Dropped(a, a2)
  PROVE  PipeBoth(so, ot, a2, b, na, nb, up)
<1>0. Shifted(a, a2) /\ Behind(a, a2) /\ Len(a) \in Nat /\ Len(a2) \in Nat
  BY Dropping DEF Ends2
<1>h. \A cmd : Has(a2, cmd) => Has(a, cmd)
  BY <1>0, HasShifted
<1>1. Delivered(so, ot, a2)
  BY <1>0 DEF PipeBoth, PipeHalf, Delivered, Shifted
<1>2. Begins(so, ot, a2, b, na) /\ Begins(ot, so, b, a2, nb)
  BY <1>h DEF PipeBoth, PipeHalf, Begins
<1>3. ASSUME up PROVE Farewell(so, ot, a2)
  <2>1. Farewell(so, ot, a)
    BY <1>3 DEF PipeBoth, PipeHalf
  <2>2. ASSUME so.st = "open", NEW n \in 1 .. Len(a2), a2[n].cmd = "CLSE"
        PROVE  Behindhand(so, ot, a2, n)
    <3>1. n + 1 \in 1 .. Len(a) /\ a2[n] = a[n + 1]
      BY <1>0 DEF Shifted
    <3>2. Behindhand(so, ot, a, n + 1)
      BY <2>1, <2>2, <3>1 DEF Farewell
    <3>3. CASE ot.got = Expected(so) /\ ~Has(a, "WRTE")
      BY <1>h, <3>3 DEF Behindhand
    <3>4. ASSUME NEW m \in 1 .. Len(a), m < n + 1, a[m].cmd = "WRTE",
                 a[m].off + a[m].len = ot.got
          PROVE  Behindhand(so, ot, a2, n)
      <4>1. m # 1
        BY <2>2, <3>4
      <4>2. PICK k \in 1 .. Len(a2) : m = k + 1 /\ a2[k] = a[m]
        BY <1>0, <4>1 DEF Behind
      <4>3. k < n
        BY <3>4, <4>2
      <4> QED  BY <3>4, <4>2, <4>3 DEF Behindhand
    <3> QED  BY <3>2, <3>3, <3>4 DEF Behindhand
  <2> QED  BY <1>h, <2>1, <2>2 DEF Farewell
<1>4. up => Farewell(ot, so, b)
  BY DEF PipeBoth, PipeHalf
<1> QED  BY <1>1, <1>2, <1>3, <1>4 DEF PipeBoth, PipeHalf

\* A WRTE is taken from the head of the channel to the queue or the descriptor.
Taken(so, so2, p) ==
  /\ so.st = "open" /\ so2.st = "open" /\ so2.got = so.got /\ so2.shut = so.shut
  /\ Expected(so2) = Expected(so) + p.len
  /\ so2.out <= Room(so2) /\ so2.out <= Expected(so2)

LEMMA PipeTake ==
  ASSUME NEW so, NEW ot, NEW a, NEW b, NEW na, NEW nb, NEW up,
         Ends2(so, ot, a, b), PipeBoth(so, ot, a, b, na, nb, up),
         a # <<>>, a[1].cmd = "WRTE", a[1].off = Expected(so),
         \A n \in 1 .. Len(a) : a[n].cmd = "WRTE" => n = 1,
         NEW a2 \in Seq(Packet), Dropped(a, a2),
         NEW so2, Taken(so, so2, a[1]), NEW b2, Answered(b, b2, up)
  PROVE  PipeBoth(so2, ot, a2, b2, na, nb, up)
<1>0. /\ Shifted(a, a2) /\ Behind(a, a2) /\ Len(a) \in Nat /\ Len(a2) \in Nat
      /\ b \in Seq(Packet)
  BY Dropping DEF Ends2
<1>h. \A cmd : Has(a2, cmd) => Has(a, cmd)
  BY <1>0, HasShifted
<1>w. ~Has(a2, "WRTE") /\ 1 \in 1 .. Len(a)
  BY <1>0 DEF Has, Shifted
<1>a. /\ \A cmd : cmd # "OKAY" /\ Has(b2, cmd) => Has(b, cmd)
      /\ \A n \in 1 .. Len(b2) : b2[n].cmd # "OKAY" => n \in 1 .. Len(b) /\ b2[n] = b[n]
      /\ \A n \in 1 .. Len(b) : Behindhand(ot, so, b, n) => Behindhand(ot, so, b2, n)
  BY <1>0, AnsweredFacts
<1>b. /\ Has(b2, "CLSE") => Has(b, "CLSE")
      /\ Has(b2, "OPEN") => Has(b, "OPEN")
  BY <1>a
<1>1. Delivered(so2, ot, a2)
  <2>1. a[1].off + a[1].len <= ot.got
    BY <1>w DEF PipeBoth, PipeHalf, Delivered
  <2> QED  BY <1>w, <2>1 DEF Delivered, Taken, Has
<1>2. Delivered(ot, so2, b2)
  BY <1>a DEF PipeBoth, PipeHalf, Delivered, Taken
<1>3. Begins(so2, ot, a2, b2, na) /\ Begins(ot, so2, b2, a2, nb)
  BY <1>h, <1>b DEF PipeBoth, PipeHalf, Begins, Taken
<1>4. ASSUME up PROVE Farewell(so2, ot, a2)
  <2>1. Farewell(so, ot, a)
    BY <1>4 DEF PipeBoth, PipeHalf
  <2>2. ASSUME NEW n \in 1 .. Len(a2), a2[n].cmd = "CLSE"
        PROVE  Behindhand(so2, ot, a2, n)
    <3>1. n + 1 \in 1 .. Len(a) /\ a2[n] = a[n + 1]
      BY <1>0 DEF Shifted
    <3>2. Behindhand(so, ot, a, n + 1)
      BY <2>1, <2>2, <3>1 DEF Farewell, Taken
    <3>3. Has(a, "WRTE")
      BY <1>w DEF Has
    <3>4. PICK m \in 1 .. Len(a) : a[m].cmd = "WRTE" /\ a[m].off + a[m].len = ot.got
      BY <3>2, <3>3 DEF Behindhand
    <3>5. m = 1
      BY <3>4
    <3> QED  BY <1>w, <3>4, <3>5 DEF Behindhand, Taken
  <2> QED  BY <1>h, <2>1, <2>2 DEF Farewell, Closed, Taken
<1>5. ASSUME up PROVE Farewell(ot, so2, b2)
  <2>1. Farewell(ot, so, b)
    BY <1>5 DEF PipeBoth, PipeHalf
  <2>2. \A n \in 1 .. Len(b) : Behindhand(ot, so, b2, n) => Behindhand(ot, so2, b2, n)
    BY DEF Behindhand, Taken
  <2>3. ot.st = "open" => \A n \in 1 .. Len(b2) : b2[n].cmd = "CLSE" => Behindhand(ot, so2, b2, n)
    BY <1>a, <2>1, <2>2 DEF Farewell
  <2> QED  BY <1>b, <2>1, <2>3 DEF Farewell, Closed, Taken
<1> QED  BY <1>1, <1>2, <1>3, <1>4, <1>5 DEF PipeBoth, PipeHalf

\* The bytes so has read are with ot, or end with a WRTE on its way to ot.
Told(so, ot, b) ==
  ot.st = "open" /\ so.peer # 0 =>
    \/ \E m \in 1 .. Len(b) : b[m].cmd = "WRTE" /\ b[m].off + b[m].len = so.got
    \/ so.got = Expected(ot) /\ ~Has(b, "WRTE")

\* What a socket that FDE_READ is dispatched to may rely on: open, it has its
\* credit, so nothing of it is on its way; closing, the other end was closed
\* before it, by its client.
MayRead(so, ot, b, up) ==
  /\ so.st = "open" => /\ so.peer # 0 /\ ot.st # "none" /\ ot.q = <<>> /\ ~Has(b, "WRTE")
                       /\ up /\ ot.st = "open" => so.got = Expected(ot)
  /\ so.st = "closing" => so.peer = 0 /\ (up => ot.shut # "no" /\ ot.st # "open")

\* n bytes were read, and sent when there is a peer.
Reads(so, so2, n) ==
  /\ n \in Nat /\ n <= MAX_PAYLOAD /\ so2.got = so.got + n /\ so2.got <= so.src
  /\ so2.st = so.st /\ so2.shut = so.shut /\ so2.src = so.src /\ so2.took = so.took
  /\ so2.out = so.out /\ so2.q = so.q /\ so2.peer = so.peer /\ so2.pend \subseteq so.pend

LEMMA PipeRead ==
  ASSUME NEW so, NEW ot, NEW a, NEW b, NEW na, NEW nb, NEW up,
         Ends2(so, ot, a, b), PipeBoth(so, ot, a, b, na, nb, up),
         so.st \in {"open", "closing"}, MayRead(so, ot, b, up),
         NEW so2, NEW n, Reads(so, so2, n), NEW b2,
         IF n > 0 /\ so.peer # 0
         THEN \E p \in Packet : /\ p.cmd = "WRTE" /\ p.off = so.got /\ p.len = n
                                /\ Extended(b, b2, p, up)
         ELSE b2 = b
  PROVE  /\ PipeBoth(so2, ot, a, b2, na, nb, up)
         /\ Gives(so, so2, ot, up)
         /\ up => Told(so2, ot, b2)
<1>0. b \in Seq(Packet) /\ Len(b) \in Nat /\ Shape(ot)
  BY DEF Ends2
<1>n. /\ so.got \in Nat /\ so.out \in Nat /\ so.src \in Nat /\ so2.got \in Nat
      /\ Expected(ot) \in Nat /\ ot.out \in Nat /\ ot.got \in Nat /\ Expected(so) \in Nat
      /\ Expected(so2) = Expected(so) /\ Room(so2) = Room(so) /\ so.got <= so2.got
      /\ n \in Nat /\ MAX_PAYLOAD \in Nat
  <2>1. SocketOK(so) /\ SocketOK(ot)
    BY DEF Ends2
  <2>2. /\ so.got \in Nat /\ so.out \in Nat /\ so.src \in Nat /\ Expected(so) \in Nat
    BY <2>1, NumbersOf
  <2>3. Expected(ot) \in Nat /\ ot.out \in Nat /\ ot.got \in Nat
    BY <2>1, NumbersOf
  <2>4. n \in Nat /\ so2.got = so.got + n /\ so2.out = so.out /\ so2.q = so.q /\ so2.took = so.took
    BY DEF Reads
  <2>5. Expected(so2) = Expected(so) /\ Room(so2) = Room(so)
    BY <2>4 DEF Expected, Room
  <2>6. MAX_PAYLOAD \in Nat /\ so2.got \in Nat /\ so.got <= so2.got
    BY <2>2, <2>4, PayloadAssumption
  <2> QED  BY <2>2, <2>3, <2>4, <2>5, <2>6
<1>p. CASE b2 # b
  <2>1. PICK p \in Packet : /\ p.cmd = "WRTE" /\ p.off = so.got /\ p.len = n
                            /\ Extended(b, b2, p, up)
    BY <1>p
  <2>2. so.peer # 0 /\ so.st = "open"
    BY <1>p DEF MayRead
  <2>m. /\ ot.st # "none" /\ ot.q = <<>> /\ ~Has(b, "WRTE")
        /\ up /\ ot.st = "open" => so.got = Expected(ot)
    BY <2>2 DEF MayRead
  <2>h. /\ \A cmd : cmd # "WRTE" /\ Has(b2, cmd) => Has(b, cmd)
        /\ \A m \in 1 .. Len(b2) : b2[m].cmd = "WRTE" => b2[m] = p
    <3>1. \A cmd : cmd # "WRTE" /\ Has(b2, cmd) => Has(b, cmd)
      BY <1>0, <2>1, HasExtended
    <3>2. \A m \in 1 .. Len(b2) : b2[m].cmd = "WRTE" => b2[m] = p
      BY <2>1, <2>m DEF Has, Extended
    <3> QED  BY <3>1, <3>2
  <2>b. (Has(b2, "CLSE") => Has(b, "CLSE")) /\ (Has(b2, "OPEN") => Has(b, "OPEN"))
    BY <2>h
  <2>c. ~Has(b, "CLSE") /\ ~Has(b2, "CLSE")
    BY <2>2, <2>b DEF PipeBoth, PipeHalf, Begins
  <2>3. Delivered(so2, ot, a)
    BY <1>n DEF PipeBoth, PipeHalf, Delivered, Reads
  <2>4. Delivered(ot, so2, b2)
    BY <1>n, <2>1, <2>h DEF PipeBoth, PipeHalf, Delivered, Reads
  <2>5. Begins(so2, ot, a, b2, na) /\ Begins(ot, so2, b2, a, nb)
    BY <2>2, <2>b, <2>c DEF PipeBoth, PipeHalf, Begins, Reads
  <2>6. ASSUME up PROVE Farewell(so2, ot, a)
    <3>1. Farewell(so, ot, a)
      BY <2>6 DEF PipeBoth, PipeHalf
    <3>2. \A m \in 1 .. Len(a) : Behindhand(so, ot, a, m) => Behindhand(so2, ot, a, m)
      BY <1>n DEF Behindhand
    <3> QED  BY <2>2, <3>1, <3>2 DEF Farewell, Closed, Reads
  <2>7. ASSUME up PROVE Farewell(ot, so2, b2)
    <3>1. Farewell(ot, so, b)
      BY <2>7 DEF PipeBoth, PipeHalf
    <3>2. \A m \in 1 .. Len(b2) : b2[m].cmd # "CLSE"
      BY <2>c DEF Has
    <3> QED  BY <2>2, <2>b, <3>1, <3>2 DEF Farewell, Closed, Reads
  <2>8. Gives(so, so2, ot, up)
    <3>1. up /\ ot.shut = "no" => ot.st = "open"
      <4>1. up => Farewell(ot, so, b)
        BY DEF PipeBoth, PipeHalf
      <4>2. ot.st \in {"none", "open", "closing", "freed", "fault"}
        BY DEF Ends2, SocketOK, Socket
      <4> QED  BY <1>0, <2>2, <2>m, <4>1, <4>2 DEF Farewell, Closed, Shape
    <3>2. Expected(ot) = ot.out
      BY <2>m DEF Expected
    <3>3. up /\ ot.shut = "no" => so2.got - ot.out <= MAX_PAYLOAD
      BY <1>n, <2>m, <3>1, <3>2 DEF Reads
    <3> QED  BY <1>n, <2>2, <3>3 DEF Gives, Reads, PipeBoth, PipeHalf, Delivered
  <2>9. Told(so2, ot, b2) \/ ~up
    <3> SUFFICES ASSUME up PROVE Told(so2, ot, b2)
      OBVIOUS
    <3>1. \E m \in 1 .. Len(b2) : b2[m] = p
      BY <2>1 DEF Extended
    <3>2. p.off + p.len = so2.got
      BY <2>1 DEF Reads
    <3> QED  BY <2>1, <3>1, <3>2 DEF Told
  <2> QED  BY <2>3, <2>4, <2>5, <2>6, <2>7, <2>8, <2>9 DEF PipeBoth, PipeHalf
<1>q. CASE b2 = b
  <2>1. CASE n > 0 /\ so.peer # 0
    <3>1. PICK p \in Packet : Extended(b, b2, p, up) /\ p.cmd = "WRTE"
                              /\ p.off = so.got /\ p.len = n
      BY <2>1
    <3>2. ~up
      <4>1. \A m \in 1 .. Len(b) : m # Len(b) + 1
        BY <1>0
      <4> QED  BY <1>q, <3>1, <4>1 DEF Extended
    <3>3. Delivered(so2, ot, a) /\ Delivered(ot, so2, b2)
      <4>1. \A m \in 1 .. Len(b) : b[m].off + b[m].len \in Nat
        BY <1>0, PacketNumbers
      <4> QED  BY <1>n, <1>q, <4>1 DEF PipeBoth, PipeHalf, Delivered, Reads
    <3>4. Begins(so2, ot, a, b2, na) /\ Begins(ot, so2, b2, a, nb)
      BY <1>q DEF PipeBoth, PipeHalf, Begins, Reads
    <3>5. Gives(so, so2, ot, up)
      BY <1>n, <3>2 DEF Gives, Reads, PipeBoth, PipeHalf, Delivered
    <3> QED  BY <3>2, <3>3, <3>4, <3>5 DEF PipeBoth, PipeHalf
  <2>2. CASE n = 0
    <3>1. so2.got = so.got
      BY <1>n, <2>2 DEF Reads
    <3>2. Quiet(so, so2)
      BY <1>n, <3>1 DEF Quiet, Reads, PipeBoth, PipeHalf, Delivered
    <3>3. PipeBoth(so2, ot, a, b2, na, nb, up)
      BY <1>q, <3>2, PipeQuiet DEF Answered
    <3>4. Gives(so, so2, ot, up)
      BY <1>n, <3>1 DEF Gives, Reads, PipeBoth, PipeHalf, Delivered
    <3>5. up => Told(so2, ot, b2)
      BY <1>q, <3>1 DEF Told, MayRead, Reads
    <3> QED  BY <3>3, <3>4, <3>5
  <2>3. CASE so.peer = 0
    <3>1. so.st = "closing"
      BY <2>3 DEF MayRead
    <3>2. up => ot.shut # "no" /\ ot.st # "open"
      BY <3>1 DEF MayRead
    <3>3. Delivered(so2, ot, a) /\ Delivered(ot, so2, b2)
      <4>1. \A m \in 1 .. Len(b) : b[m].off + b[m].len \in Nat
        BY <1>0, PacketNumbers
      <4> QED  BY <1>n, <1>q, <4>1 DEF PipeBoth, PipeHalf, Delivered, Reads
    <3>4. Begins(so2, ot, a, b2, na) /\ Begins(ot, so2, b2, a, nb)
      BY <1>q, <3>1 DEF PipeBoth, PipeHalf, Begins, Reads
    <3>5. up => Farewell(so2, ot, a)
      BY <1>n, <3>1 DEF PipeBoth, PipeHalf, Farewell, Closed, Reads
    <3>6. up => Farewell(ot, so2, b2)
      BY <1>q, <3>1, <3>2 DEF PipeBoth, PipeHalf, Farewell, Closed, Reads
    <3>7. Gives(so, so2, ot, up)
      BY <1>n, <3>1, <3>2 DEF Gives, Reads, PipeBoth, PipeHalf, Delivered
    <3>8. up => Told(so2, ot, b2)
      BY <3>2 DEF Told
    <3> QED  BY <3>3, <3>4, <3>5, <3>6, <3>7, <3>8 DEF PipeBoth, PipeHalf
  <2>4. n > 0 \/ n = 0
    BY <1>n
  <2> QED  BY <2>1, <2>2, <2>3, <2>4
<1> QED  BY <1>p, <1>q

\* A socket is closed: freed when it has nothing left to write or was closing
\* already, and otherwise kept with its backlog; its bytes stay as they are.
SameBytes(so, so2) ==
  /\ so2.src = so.src /\ so2.got = so.got /\ so2.out = so.out /\ so2.took = so.took
  /\ so2.shut = so.shut

Ended(so, so2) ==
  /\ SameBytes(so, so2) /\ so2.pend \subseteq so.pend
  /\ IF so.st = "closing" \/ so.q = <<>>
     THEN so2.st = "freed" /\ so2.q = <<>>
     ELSE so2.st = "closing" /\ so2.q = so.q

\* Why adb closes a socket while the link holds: its client ended the
\* connection, or the other end is closed and has nothing more to come.
MayClose(so, ot, b) ==
  /\ so.shut = "no" => /\ ot.st # "open" /\ (ot.shut # "no" \/ ot.st = "none")
                       /\ Expected(so) = ot.got /\ ~Has(b, "OPEN")
                       /\ so.st = "closing" => so.out = ot.got
  /\ "R" \in so.pend /\ so.q # <<>> => ot.shut # "no" /\ ot.st # "open"

LEMMA PipeClose ==
  ASSUME NEW so, NEW ot, NEW a, NEW b, NEW na, NEW nb, NEW up,
         Ends2(so, ot, a, b), PipeBoth(so, ot, a, b, na, nb, up),
         so.st \in {"open", "closing"}, up => MayClose(so, ot, b),
         NEW so2, Ended(so, so2), NEW b2,
         b2 = b \/ /\ so.peer # 0 /\ ot.st # "none" /\ (up => Told(so, ot, b))
                   /\ \E p \in Packet : p.cmd = "CLSE" /\ Extended(b, b2, p, up)
  PROVE  /\ PipeBoth(so2, ot, a, b2, na, nb, up)
         /\ Gives(so, so2, ot, up)
<1>0. b \in Seq(Packet) /\ Len(b) \in Nat
  BY DEF Ends2
<1>n. /\ so.got \in Nat /\ so.out \in Nat /\ so.src \in Nat /\ so.got <= so.src
      /\ Expected(so) \in Nat /\ ot.out \in Nat /\ ot.got \in Nat
      /\ so2.got = so.got /\ Room(so2) = Room(so) /\ so2.out = so.out
      /\ so2.shut = so.shut /\ so2.src = so.src /\ so2.took = so.took
      /\ so2.st \in {"closing", "freed"}
      /\ so2.st = "closing" => Expected(so2) = Expected(so) /\ so.st = "open" /\ so.q # <<>>
      /\ so2.st = "freed" => Expected(so2) = so.out /\ (so.st = "closing" \/ so.q = <<>>)
  BY NumbersOf DEF Ends2, Ended, SameBytes, Expected, Room
<1>h. /\ \A cmd : cmd # "CLSE" /\ Has(b2, cmd) => Has(b, cmd)
      /\ \A n \in 1 .. Len(b2) : b2[n].cmd # "CLSE" => n \in 1 .. Len(b) /\ b2[n] = b[n]
  <2>1. CASE b2 = b
    BY <2>1
  <2>2. ASSUME NEW p \in Packet, p.cmd = "CLSE", Extended(b, b2, p, up)
        PROVE  /\ \A cmd : cmd # "CLSE" /\ Has(b2, cmd) => Has(b, cmd)
               /\ \A n \in 1 .. Len(b2) : b2[n].cmd # "CLSE" => n \in 1 .. Len(b) /\ b2[n] = b[n]
    <3>1. \A cmd : cmd # "CLSE" /\ Has(b2, cmd) => Has(b, cmd)
      BY <1>0, <2>2, HasExtended
    <3>2. \A n \in 1 .. Len(b2) : b2[n].cmd # "CLSE" => n \in 1 .. Len(b) /\ b2[n] = b[n]
      BY <2>2 DEF Extended
    <3> QED  BY <3>1, <3>2
  <2> QED  BY <2>1, <2>2
<1>b. Has(b2, "OPEN") => Has(b, "OPEN")
  BY <1>h
<1>1. Delivered(so2, ot, a)
  BY <1>n DEF PipeBoth, PipeHalf, Delivered
<1>2. Delivered(ot, so2, b2)
  BY <1>n, <1>h DEF PipeBoth, PipeHalf, Delivered
<1>3. Begins(so2, ot, a, b2, na)
  BY <1>n DEF PipeBoth, PipeHalf, Begins
<1>4. Begins(ot, so2, b2, a, nb)
  <2>1. Has(b2, "CLSE") => ot.st # "none"
    BY DEF PipeBoth, PipeHalf, Begins
  <2> QED  BY <1>b, <1>n, <2>1 DEF PipeBoth, PipeHalf, Begins
<1>5. ASSUME up PROVE Farewell(so2, ot, a)
  <2>1. Farewell(so, ot, a) /\ MayClose(so, ot, b)
    BY <1>5 DEF PipeBoth, PipeHalf
  <2>2. so2.pend \subseteq so.pend
    BY DEF Ended
  <2> QED  BY <1>n, <2>1, <2>2 DEF Farewell, Closed, MayClose
<1>6. ASSUME up PROVE Farewell(ot, so2, b2)
  <2>1. Farewell(ot, so, b) /\ MayClose(so, ot, b)
    BY <1>6 DEF PipeBoth, PipeHalf
  <2>2. ASSUME ot.st = "open", NEW n \in 1 .. Len(b2), b2[n].cmd = "CLSE"
        PROVE  Behindhand(ot, so2, b2, n)
    <3>1. CASE b2 = b
      BY <1>n, <2>1, <2>2, <3>1 DEF Farewell, Behindhand
    <3>2. ASSUME NEW p \in Packet, p.cmd = "CLSE", Extended(b, b2, p, up), Told(so, ot, b),
                 so.peer # 0
          PROVE  Behindhand(ot, so2, b2, n)
      <4>1. CASE n \in 1 .. Len(b) /\ b2[n] = b[n]
        <5>1. Behindhand(ot, so, b, n)
          BY <2>1, <2>2, <4>1 DEF Farewell
        <5>2. Behindhand(ot, so, b2, n)
          BY <1>0, <3>2, <4>1, <5>1, BehindhandExtended
        <5> QED  BY <1>n, <5>2 DEF Behindhand
      <4>2. CASE n = Len(b) + 1
        <5>1. ~Has(b, "WRTE") => ~Has(b2, "WRTE")
          BY <1>h
        <5>2. \A m \in 1 .. Len(b) : m \in 1 .. Len(b2) /\ b2[m] = b[m] /\ m < n
          BY <1>0, <3>2, <4>2 DEF Extended
        <5>3. \/ \E m \in 1 .. Len(b) : b[m].cmd = "WRTE" /\ b[m].off + b[m].len = so.got
              \/ so.got = Expected(ot) /\ ~Has(b, "WRTE")
          BY <2>2, <3>2 DEF Told
        <5> QED  BY <1>n, <5>1, <5>2, <5>3 DEF Behindhand
      <4> QED  BY <3>2, <4>1, <4>2 DEF Extended
    <3> QED  BY <1>6, <3>1, <3>2
  <2> QED  BY <1>b, <1>n, <2>1, <2>2 DEF Farewell, Closed, MayClose
<1>7. Gives(so, so2, ot, up)
  <2>1. up /\ so2.st = "freed" /\ so.shut = "no" =>
          so2.out = ot.got /\ (ot.shut # "no" \/ ot.st = "none")
    BY <1>n DEF MayClose, Expected
  <2>2. so.out <= ot.got
    BY <1>n DEF PipeBoth, PipeHalf, Delivered
  <2> QED  BY <1>n, <2>1, <2>2 DEF Gives
<1> QED  BY <1>1, <1>2, <1>3, <1>4, <1>5, <1>6, <1>7 DEF PipeBoth, PipeHalf

\* The OPEN is refused: its sender is sent a CLSE.
LEMMA PipeRefuse ==
  ASSUME NEW so, NEW ot, NEW a, NEW b, NEW na, NEW nb, NEW up,
         Ends2(so, ot, a, b), PipeBoth(so, ot, a, b, na, nb, up),
         so.st = "none", ot.st # "none", ~Has(a, "OPEN"), ~Has(b, "OPEN"), ~Has(b, "WRTE"),
         NEW p, p.cmd = "CLSE", NEW b2, Extended(b, b2, p, up)
  PROVE  PipeBoth(so, ot, a, b2, na, nb, up)
<1>0. b \in Seq(Packet) /\ Len(b) \in Nat
  BY DEF Ends2
<1>h. ~Has(b2, "OPEN") /\ ~Has(b2, "WRTE")
  BY <1>0, HasExtended
<1>1. Delivered(so, ot, a) /\ Delivered(ot, so, b2)
  BY <1>h DEF PipeBoth, PipeHalf, Delivered, Has
<1>2. Begins(so, ot, a, b2, na) /\ Begins(ot, so, b2, a, nb)
  BY <1>h DEF PipeBoth, PipeHalf, Begins
<1>3. so.got = Expected(ot)
  <2>1. so.got = 0 /\ Expected(ot) <= so.got
    BY DEF PipeBoth, PipeHalf, Begins, Delivered
  <2>2. Expected(ot) \in Nat
    BY NumbersOf DEF Ends2
  <2> QED  BY <2>1, <2>2
<1>4. up => Farewell(so, ot, a) /\ Farewell(ot, so, b2)
  BY <1>h, <1>3 DEF PipeBoth, PipeHalf, Farewell, Behindhand
<1> QED  BY <1>1, <1>2, <1>4 DEF PipeBoth, PipeHalf

\* A socket is created, for a client's request (p is the OPEN) or for the OPEN
\* that was the head of the channel (p is its OKAY).
New(so2) ==
  /\ so2.got = 0 /\ so2.out = 0 /\ so2.q = <<>> /\ so2.took \in Nat
  /\ so2.st = "open" \/ (so2.st = "freed" /\ so2.shut # "no")

LEMMA NewNumbers ==
  ASSUME NEW so2, New(so2)
  PROVE  Expected(so2) = 0 /\ so2.out = 0 /\ Room(so2) \in Nat
BY FdCapAssumption DEF New, Expected, Room

LEMMA PipeConnect ==
  ASSUME NEW so, NEW ot, NEW a, NEW b, NEW na, NEW nb, NEW up,
         Ends2(so, ot, a, b), PipeBoth(so, ot, a, b, na, nb, up),
         so.st = "none", ot.st = "none",
         NEW so2, New(so2), NEW p, p.cmd = "OPEN", NEW b2, Extended(b, b2, p, up)
  PROVE  PipeBoth(so2, ot, a, b2, na + 1, nb, up)
<1>0. b \in Seq(Packet) /\ Len(b) \in Nat
  BY DEF Ends2
<1>n. /\ Expected(so2) = 0 /\ so2.out = 0 /\ so2.got = 0 /\ Room(so2) \in Nat
      /\ so.got = 0 /\ ot.got \in Nat
  BY NewNumbers, NumbersOf DEF New, PipeBoth, PipeHalf, Begins, Ends2
<1>h. /\ Has(b2, "CLSE") => Has(b, "CLSE")
      /\ \A n \in 1 .. Len(b2) : b2[n].cmd = "WRTE" => n \in 1 .. Len(b) /\ b2[n] = b[n]
      /\ ~Has(b, "CLSE") /\ ~Has(a, "OPEN") /\ ~Has(a, "CLSE")
  <2>1. Has(b2, "CLSE") => Has(b, "CLSE")
    BY <1>0, HasExtended
  <2>2. \A n \in 1 .. Len(b2) : b2[n].cmd = "WRTE" => n \in 1 .. Len(b) /\ b2[n] = b[n]
    BY DEF Extended
  <2> QED  BY <2>1, <2>2 DEF PipeBoth, PipeHalf, Begins
<1>1. Delivered(so2, ot, a)
  BY <1>n DEF PipeBoth, PipeHalf, Delivered
<1>2. Delivered(ot, so2, b2)
  BY <1>n, <1>h DEF PipeBoth, PipeHalf, Delivered
<1>3. Begins(so2, ot, a, b2, na + 1) /\ Begins(ot, so2, b2, a, nb)
  BY <1>h DEF PipeBoth, PipeHalf, Begins, New
<1>4. up => Farewell(so2, ot, a) /\ Farewell(ot, so2, b2)
  BY <1>h DEF Farewell, Closed, New, Has
<1> QED  BY <1>1, <1>2, <1>3, <1>4 DEF PipeBoth, PipeHalf

LEMMA PipeAccept ==
  ASSUME NEW so, NEW ot, NEW a, NEW b, NEW na, NEW nb, NEW up,
         Ends2(so, ot, a, b), PipeBoth(so, ot, a, b, na, nb, up),
         so.st = "none", Has(a, "OPEN"),
         NEW a2, ~Has(a2, "OPEN"), ~Has(a2, "CLSE"), ~Has(a2, "WRTE"),
         NEW so2, New(so2), so2.st = "open", NEW b2, Answered(b, b2, up)
  PROVE  PipeBoth(so2, ot, a2, b2, na + 1, nb, up)
<1>0. b \in Seq(Packet) /\ Len(b) \in Nat
  BY DEF Ends2
<1>n. /\ Expected(so2) = 0 /\ so2.out = 0 /\ so2.got = 0 /\ Room(so2) \in Nat
      /\ so.got = 0 /\ ot.got \in Nat
  BY NewNumbers, NumbersOf DEF New, PipeBoth, PipeHalf, Begins, Ends2
<1>a. /\ \A cmd : cmd # "OKAY" /\ Has(b2, cmd) => Has(b, cmd)
      /\ \A n \in 1 .. Len(b2) : b2[n].cmd # "OKAY" => n \in 1 .. Len(b) /\ b2[n] = b[n]
  BY <1>0, AnsweredFacts
<1>h. ot.st # "none" /\ ~Has(b2, "CLSE") /\ ~Has(b2, "OPEN")
  <2>1. ot.st # "none" /\ ~Has(b, "CLSE") /\ ~Has(b, "OPEN")
    BY DEF PipeBoth, PipeHalf, Begins
  <2> QED  BY <1>a, <2>1
<1>1. Delivered(so2, ot, a2)
  BY <1>n DEF Delivered, Has
<1>2. Delivered(ot, so2, b2)
  BY <1>n, <1>a DEF PipeBoth, PipeHalf, Delivered
<1>3. Begins(so2, ot, a2, b2, na + 1) /\ Begins(ot, so2, b2, a2, nb)
  BY <1>h DEF PipeBoth, PipeHalf, Begins
<1>4. ASSUME up PROVE Farewell(so2, ot, a2) /\ Farewell(ot, so2, b2)
  <2>1. Farewell(so, ot, a) /\ Farewell(ot, so, b)
    BY <1>4 DEF PipeBoth, PipeHalf
  <2>2. Closed(ot) => ot.shut # "no"
    BY <2>1 DEF Farewell
  <2>3. ot.st = "closing" => ~("R" \in ot.pend)
    BY <2>1 DEF PipeBoth, PipeHalf, Begins, Farewell
  <2> QED  BY <1>h, <2>2, <2>3 DEF Farewell, Closed, Has
<1> QED  BY <1>1, <1>2, <1>3, <1>4 DEF PipeBoth, PipeHalf

\* The link breaks and what was under way is cut short.
LEMMA PipeBreak ==
  ASSUME NEW so, NEW ot, NEW a, NEW b, NEW na, NEW nb, NEW up,
         PipeBoth(so, ot, a, b, na, nb, up), NEW a2, NEW b2,
         Cut(a, a2), Cut(b, b2)
  PROVE  PipeBoth(so, ot, a2, b2, na, nb, FALSE)
<1>1. \A cmd : (Has(a2, cmd) => Has(a, cmd)) /\ (Has(b2, cmd) => Has(b, cmd))
  BY DEF Has, Cut
<1>2. Delivered(so, ot, a2) /\ Delivered(ot, so, b2)
  BY DEF PipeBoth, PipeHalf, Delivered, Cut
<1>3. Begins(so, ot, a2, b2, na) /\ Begins(ot, so, b2, a2, nb)
  BY <1>1 DEF PipeBoth, PipeHalf, Begins
<1> QED  BY <1>2, <1>3 DEF PipeBoth, PipeHalf

-----------------------------------------------------------------------------
(* What the functions of sockets.c do to the bytes of a socket.            *)

LEMMA LockedBytes ==
  ASSUME NEW so, SocketOK(so)
  PROVE  Ended(so, local_socket_close_locked(so).so)
<1> DEFINE alone == [so EXCEPT !.peer = 0]
           kept == fdevent_del(alone, "R")
           dead == local_socket_destroy(alone)
<1>1. /\ SocketOK(alone) /\ alone.q = so.q /\ alone.pend = so.pend /\ SameBytes(so, alone)
  BY MaxIdAssumption DEF SocketOK, Socket, SameBytes
<1>2. Masked(alone, kept, alone.want \ {"R"})
  BY <1>1, FdeventAddDel DEF FdeEvents
<1>3. LET last == [kept EXCEPT !.st = "closing"]
      IN  /\ SameBytes(so, last) /\ last.st = "closing" /\ last.q = so.q
          /\ last.pend \subseteq so.pend
  <2> HIDE DEF kept, alone
  <2> QED  BY <1>1, <1>2 DEF SocketOK, Socket, Masked, SameBytes
<1>4. /\ SameBytes(so, dead) /\ dead.st = "freed" /\ dead.q = <<>> /\ dead.pend \subseteq so.pend
  <2> HIDE DEF alone
  <2> QED  BY <1>1 DEF local_socket_destroy, fdevent_remove, SocketOK, Socket, SameBytes
<1> QED
  BY <1>3, <1>4 DEF Ended, local_socket_close_locked, CloseEffect, Effect

LEMMA CloseBytes ==
  ASSUME NEW so, SocketOK(so)
  PROVE  Ended(so, Close(so).so)
<1> DEFINE told == [so EXCEPT !.hook = FALSE, !.told = "FAIL"]
<1>1. /\ SocketOK(told) /\ told.q = so.q /\ told.pend = so.pend /\ told.st = so.st
      /\ SameBytes(so, told)
  BY DEF SocketOK, Socket, SameBytes
<1>2. Ended(told, local_socket_close_locked(told).so)
  <2> HIDE DEF told
  <2> QED  BY <1>1, LockedBytes
<1>3. Ended(so, local_socket_close_locked(told).so)
  <2> HIDE DEF told
  <2> QED  BY <1>1, <1>2 DEF Ended, SameBytes
<1> QED  BY <1>3, LockedBytes DEF Close, local_socket_close_notify

LEMMA ReadyBytes ==
  ASSUME NEW so, SocketOK(so)
  PROVE  SameBytes(so, Ready(so))
<1> DEFINE told == [so EXCEPT !.hook = FALSE, !.told = "OKAY"]
<1>1. SocketOK(told) /\ SameBytes(so, told)
  BY DEF SocketOK, Socket, SameBytes
<1>2. Masked(told, fdevent_add(told, "R"), told.want \union {"R"})
  <2> HIDE DEF told
  <2> QED  BY <1>1, FdeventAddDel DEF FdeEvents
<1>3. Masked(so, fdevent_add(so, "R"), so.want \union {"R"})
  BY FdeventAddDel DEF FdeEvents
<1> HIDE DEF told
<1>4. SameBytes(so, fdevent_add(told, "R")) /\ SameBytes(so, fdevent_add(so, "R"))
  BY <1>1, <1>2, <1>3 DEF Masked, SameBytes
<1> QED  BY <1>4 DEF Ready, local_socket_ready_notify, local_socket_ready, told

\* A backlog is written out, in part or whole.
Flushed(so, so2) ==
  /\ so2.st = so.st /\ so2.peer = so.peer /\ so2.got = so.got /\ so2.src = so.src
  /\ so2.took = so.took /\ so2.shut = so.shut /\ so2.pend \subseteq so.pend
  /\ Expected(so2) = Expected(so)
  /\ so.out <= so2.out /\ so2.out <= Expected(so) /\ so2.out <= Room(so)

LEMMA FlushedIsQuiet ==
  ASSUME NEW so, NEW so2, NEW ot, NEW up, SocketOK(so), SocketOK(so2), SocketOK(ot),
         Flushed(so, so2), Expected(so) <= ot.got
  PROVE  /\ Quiet(so, so2)
         /\ so.st \in {"open", "closing"} => Gives(so, so2, ot, up)
<1>1. /\ so.got \in Nat /\ so.got <= so.src /\ so2.out \in Nat /\ ot.got \in Nat
      /\ Expected(so) \in Nat /\ so.src \in Nat
  BY NumbersOf
<1>2. Room(so2) = Room(so)
  BY DEF Flushed, Room
<1>3. Quiet(so, so2)
  <2>1. so2.out <= Room(so2) /\ so2.out <= Expected(so2)
    BY <1>2 DEF Flushed
  <2>2. "R" \in so2.pend => "R" \in so.pend
    BY DEF Flushed
  <2>3. /\ so2.st = so.st /\ so2.got = so.got /\ Expected(so2) = Expected(so)
        /\ so2.shut = so.shut
    BY DEF Flushed
  <2> QED  BY <2>1, <2>2, <2>3 DEF Quiet
<1>4. so2.out <= ot.got
  BY <1>1 DEF Flushed
<1> QED  BY <1>1, <1>3, <1>4 DEF Gives, Flushed

\* The write half of the event handler, on a queue of at most one packet: the
\* client is gone and the socket is closed, or some of the queue stays, or all
\* of it went and a closing socket is freed, an open one answers OKAY.
WriteOutcome(i, so, e) ==
  \/ so.shut = "full" /\ e = Close(so)
  \/ Flushed(so, e.so) /\ e.sent = <<>> /\ e.ret = 1
  \/ \E so1 \in Socket : /\ SocketOK(so1) /\ Flushed(so, so1) /\ so.st = "closing"
                         /\ so1.out = Expected(so1) /\ e = Close(so1)
  \/ so.st # "closing" /\ so.peer = 0
  \/ /\ Flushed(so, e.so) /\ so.st # "closing" /\ so.peer # 0
     /\ e.sent = <<OKAY(i, so.peer)>>

LEMMA WriteBytes ==
  ASSUME NEW so, SocketOK(so), NEW i \in Id, so.q # <<>> => Len(so.q) = 1,
         so.out <= Room(so), so.out <= Expected(so)
  PROVE  WriteOutcome(i, so, EventWrite(i, so))
<1> DEFINE written == Lesser(so.q[Len(so.q)].upto, Room(so))
           done    == Cardinality({n \in 1 .. Len(so.q) : so.q[n].upto <= written})
           rest    == SubSeq(so.q, done + 1, Len(so.q))
           partly  == [so EXCEPT !.out = written, !.q = SubSeq(@, done + 1, Len(@))]
           drained == IF so.q = <<>> THEN so ELSE partly
           okay    == OKAY(i, so.peer)
<1>1. so.q \in Seq(Entry)
  BY DEF SocketOK, Socket
<1>2. /\ done \in 0 .. Len(so.q) /\ rest \in Seq(Entry)
      /\ Len(so.q) = 1 /\ ~(so.q[1].upto <= written) => rest # <<>>
  BY <1>1, QueueRest
<1>3. so.q # <<>> => /\ written \in Nat /\ written = Lesser(Expected(so), Room(so))
                     /\ Expected(so) = so.q[1].upto
  <2> SUFFICES ASSUME so.q # <<>>
               PROVE  /\ written \in Nat /\ written = Lesser(Expected(so), Room(so))
                      /\ Expected(so) = so.q[1].upto
    OBVIOUS
  <2>1. Expected(so) \in Nat /\ Room(so) \in Nat
    BY NumbersOf
  <2>2. Expected(so) = so.q[1].upto /\ written = Lesser(Expected(so), Room(so))
    BY DEF Expected
  <2> QED  BY <2>1, <2>2 DEF Lesser
<1> HIDE DEF written, done
<1>4. rest = <<>> \/ rest = so.q \/ so.q = <<>>
  <2>1. SubSeq(so.q, 1, Len(so.q)) = so.q
    BY <1>1, SubSeqFull
  <2>2. ASSUME done >= Len(so.q) PROVE rest = <<>>
    BY <1>1, <1>2, <2>2, SubSeqEmpty
  <2>3. ASSUME ~(done >= Len(so.q)), so.q # <<>> PROVE rest = so.q
    <3>1. done = 0
      BY <1>1, <1>2, <2>3
    <3> QED  BY <2>1, <3>1
  <2> QED  BY <2>2, <2>3
<1>5. /\ SocketOK(drained) /\ drained.st = so.st /\ drained.peer = so.peer
      /\ drained.got = so.got /\ drained.src = so.src /\ drained.took = so.took
      /\ drained.shut = so.shut /\ drained.pend = so.pend
      /\ so.q # <<>> => drained.q = rest /\ drained.out = written
      /\ so.q = <<>> => drained = so
  <2>1. CASE so.q = <<>>
    BY <2>1
  <2>2. CASE so.q # <<>>
    <3> HIDE DEF rest
    <3>1. partly = [so EXCEPT !.out = written, !.q = rest]
      BY DEF rest
    <3>2. written \in Nat /\ rest \in Seq(Entry)
      BY <1>2, <1>3, <2>2 DEF rest
    <3> QED  BY <2>2, <3>1, <3>2 DEF SocketOK, Socket
  <2> QED  BY <2>1, <2>2
<1> HIDE DEF rest
<1>6. EventWrite(i, so) =
        IF so.q # <<>> /\ so.shut = "full" THEN Close(so)
        ELSE IF drained.q # <<>> THEN Effect(drained, <<>>, 1)
        ELSE IF so.st = "closing" THEN Close(drained)
        ELSE IF so.peer = 0 THEN Effect([drained EXCEPT !.st = "fault"], <<>>, 1)
        ELSE Effect(fdevent_del(drained, "W"), <<okay>>, 0)
  BY DEF EventWrite, WriteEffect, done, written
<1> HIDE DEF drained, okay
<1>7. drained.q = <<>> => drained.out = Expected(so)
  <2>1. CASE so.q = <<>>
    BY <1>5, <2>1 DEF Expected
  <2>2. ASSUME so.q # <<>>, drained.q = <<>> PROVE drained.out = Expected(so)
    <3>1. so.q[1].upto <= written
      BY <1>2, <1>5, <2>2
    <3>2. Expected(so) \in Nat /\ Room(so) \in Nat
      BY NumbersOf
    <3> QED  BY <1>3, <1>5, <2>2, <3>1, <3>2 DEF Lesser
  <2> QED  BY <2>1, <2>2
<1>8. Flushed(so, drained)
  <2>1. Expected(drained) = Expected(so)
    <3>1. CASE drained.q = <<>>
      BY <1>7, <3>1 DEF Expected
    <3>2. CASE drained.q # <<>>
      BY <1>4, <1>5, <3>2 DEF Expected
    <3> QED  BY <3>1, <3>2
  <2>2. so.out <= drained.out /\ drained.out <= Expected(so) /\ drained.out <= Room(so)
    <3>1. so.out \in Nat /\ Expected(so) \in Nat /\ Room(so) \in Nat
      BY NumbersOf
    <3> QED  BY <1>3, <1>5, <3>1 DEF Lesser
  <2> QED  BY <1>5, <2>1, <2>2 DEF Flushed
<1>9. WriteOutcome(i, so, Effect(drained, <<>>, 1))
  BY <1>8 DEF WriteOutcome, Effect
<1>10. ASSUME drained.q = <<>>, so.st = "closing" PROVE WriteOutcome(i, so, Close(drained))
  <2>1. drained \in Socket /\ drained.out = Expected(drained)
    BY <1>5, <1>10 DEF SocketOK, Expected
  <2> QED  BY <1>5, <1>8, <1>10, <2>1 DEF WriteOutcome
<1>11. ASSUME drained.q = <<>>, so.st # "closing", so.peer # 0
       PROVE  WriteOutcome(i, so, Effect(fdevent_del(drained, "W"), <<okay>>, 0))
  <2> DEFINE off == fdevent_del(drained, "W")
  <2>1. Masked(drained, off, drained.want \ {"W"})
    BY <1>5, FdeventAddDel DEF FdeEvents
  <2> HIDE DEF off
  <2>2. Flushed(so, off)
    BY <1>8, <2>1 DEF Masked, Flushed, Expected
  <2>3. WriteOutcome(i, so, Effect(off, <<okay>>, 0))
    BY <1>11, <2>2 DEF WriteOutcome, Effect, okay
  <2> QED  BY <2>3 DEF off
<1>12. so.st # "closing" /\ so.peer = 0 => WriteOutcome(i, so, EventWrite(i, so))
  BY DEF WriteOutcome
<1>13. so.shut = "full" => WriteOutcome(i, so, Close(so))
  BY DEF WriteOutcome
<1> QED  BY <1>6, <1>9, <1>10, <1>11, <1>12, <1>13

\* The read half of the event handler.
ReadOutcome(i, so, e) ==
  \E n \in Nat, so2 \in Socket :
    /\ SocketOK(so2) /\ Reads(so, so2, n)
    /\ \/ e.so = so2 /\ e.sent = ReadSent(i, so, n)
       \/ so.shut # "no" /\ e.so = Close(so2).so
          /\ e.sent = ReadSent(i, so, n) \o Close(so2).sent

LEMMA ReadBytes ==
  ASSUME NEW so, SocketOK(so), NEW i \in Id
  PROVE  ReadOutcome(i, so, EventRead(i, so))
<1> DEFINE n == Lesser(MAX_PAYLOAD, so.src - so.got)
           more == [so EXCEPT !.got = @ + n]
           sends == n > 0 /\ so.peer # 0
           eof == n < MAX_PAYLOAD /\ so.shut # "no"
           so2 == IF sends THEN fdevent_del(more, "R") ELSE more
           sent == IF sends THEN <<WRTE(i, so.peer, so.got, n)>> ELSE <<>>
<1>1. /\ n \in Nat /\ so.got + n <= so.src /\ so.got \in Nat /\ so.src \in Nat
      /\ n <= MAX_PAYLOAD
  BY PayloadAssumption DEF Lesser, SocketOK, Socket
<1> HIDE DEF n
<1>2. SocketOK(more) /\ Reads(so, more, n)
  <2>1. so.got + n \in Nat
    BY <1>1
  <2> QED  BY <1>1, <2>1 DEF SocketOK, Socket, Reads
<1> HIDE DEF more
<1>3. Masked(more, fdevent_del(more, "R"), more.want \ {"R"})
  BY <1>2, FdeventAddDel DEF FdeEvents
<1>4. SocketOK(so2) /\ Reads(so, so2, n)
  BY <1>2, <1>3 DEF Masked, Reads
<1>5. sent = ReadSent(i, so, n)
  BY DEF ReadSent
<1>6. EventRead(i, so) = IF eof THEN Effect(Close(so2).so, sent \o Close(so2).sent, 1)
                                ELSE Effect(so2, sent, 0)
  BY DEF EventRead, ReadEffect, n, more
<1> HIDE DEF so2, sent, sends
<1>7. so2 \in Socket
  BY <1>4 DEF SocketOK
<1>8. ReadOutcome(i, so, Effect(so2, sent, 0))
  BY <1>1, <1>4, <1>5, <1>7 DEF ReadOutcome, Effect
<1>9. ASSUME eof PROVE ReadOutcome(i, so, Effect(Close(so2).so, sent \o Close(so2).sent, 1))
  <2> DEFINE c == Close(so2)
             e == Effect(c.so, sent \o c.sent, 1)
  <2>1. e.so = c.so /\ e.sent = sent \o c.sent
    BY DEF Effect
  <2> HIDE DEF e
  <2>2. ReadOutcome(i, so, e)
    BY <1>1, <1>4, <1>5, <1>7, <1>9, <2>1 DEF ReadOutcome
  <2> QED  BY <2>2 DEF e
<1> QED  BY <1>6, <1>8, <1>9

\* A WRTE for a socket without backlog closes it, because its client is gone,
\* or is taken.
LEMMA EnqueueBytes ==
  ASSUME NEW so, SocketOK(so), so.st = "open", so.q = <<>>, NEW p \in Packet,
         so.out <= Room(so)
  PROVE  \/ so.shut = "full" /\ local_socket_enqueue(so, p) = Close(so)
         \/ /\ Taken(so, local_socket_enqueue(so, p).so, p)
            /\ local_socket_enqueue(so, p).so.src = so.src
            /\ local_socket_enqueue(so, p).so.took = so.took
            /\ so.out <= local_socket_enqueue(so, p).so.out
<1> DEFINE last == EntryOf(p, Expected(so) + p.len)
           longer == Backlogged(so, p, Expected(so) + p.len, Filled(so))
           queued == fdevent_add(longer, "W")
           whole == [so EXCEPT !.out = @ + p.len]
           Moved(so2) == /\ Taken(so, so2, p) /\ so2.src = so.src /\ so2.took = so.took
                         /\ so.out <= so2.out
<1>1. /\ p.len \in Nat /\ p.off \in Nat /\ p.arg0 \in 0 .. MaxId
      /\ so.out \in Nat /\ Room(so) \in Nat /\ Expected(so) = so.out
  BY NumbersOf DEF Packet, Expected
<1>2. last \in Entry /\ last.upto = so.out + p.len
  BY <1>1 DEF Entry, EntryOf
<1>3. Append(so.q, last) \in Seq(Entry) /\ Append(so.q, last) = <<last>>
  <2> HIDE DEF last
  <2>1. <<>> \in Seq(Entry)
    BY EmptySeq
  <2> QED  BY <1>2, <2>1
<1>4. longer = [so EXCEPT !.out = Room(so), !.q = <<last>>]
  <2>1. longer = [so EXCEPT !.out = Filled(so), !.q = Append(@, last)]
    BY DEF Backlogged, last, EntryOf
  <2>2. Filled(so) = Room(so)
    BY DEF Filled
  <2> HIDE DEF last, longer
  <2> QED  BY <1>3, <2>1, <2>2
<1>5. <<last>> \in Seq(Entry)
  BY <1>3
<1>6. /\ SocketOK(longer) /\ longer.st = "open" /\ longer.got = so.got /\ longer.src = so.src
      /\ longer.took = so.took /\ longer.shut = so.shut /\ longer.out = Room(so)
      /\ longer.q = <<last>>
  <2> HIDE DEF last, longer
  <2> QED  BY <1>1, <1>4, <1>5 DEF SocketOK, Socket
<1>7. Masked(longer, queued, longer.want \union {"W"})
  <2> HIDE DEF longer
  <2> QED  BY <1>6, FdeventAddDel DEF FdeEvents
<1> HIDE DEF longer, queued, last
<1>8. ASSUME ~(so.out + p.len <= Room(so)) PROVE Moved(queued)
  <2>1. queued.q = <<last>> /\ queued.out = Room(so)
    BY <1>6, <1>7 DEF Masked
  <2>2. Expected(queued) = so.out + p.len
    BY <1>2, <2>1 DEF Expected
  <2>3. Room(queued) = Room(so)
    BY <1>6, <1>7 DEF Masked, Room
  <2> QED  BY <1>1, <1>6, <1>7, <1>8, <2>1, <2>2, <2>3 DEF Taken, Masked
<1>9. ASSUME so.out + p.len <= Room(so) PROVE Moved(whole)
  <2>1. /\ whole.st = "open" /\ whole.got = so.got /\ whole.shut = so.shut /\ whole.src = so.src
        /\ whole.took = so.took /\ whole.out = so.out + p.len /\ whole.q = <<>>
    BY DEF SocketOK, Socket
  <2> HIDE DEF whole
  <2>2. Expected(whole) = so.out + p.len /\ Room(whole) = Room(so)
    BY <2>1 DEF Expected, Room
  <2> QED  BY <1>1, <1>9, <2>1, <2>2 DEF Taken
<1>10. local_socket_enqueue(so, p) =
         IF p.len > 0 /\ so.shut = "full" THEN Close(so)
         ELSE IF so.out + p.len <= Room(so) THEN Effect(whole, <<>>, 0)
         ELSE Effect(queued, <<>>, 1)
  BY DEF local_socket_enqueue, EnqueueEffect, queued, longer
<1> HIDE DEF whole
<1> QED  BY <1>8, <1>9, <1>10 DEF Effect

-----------------------------------------------------------------------------
(* What the handlers do to a stream.                                       *)

\* What the invariant of the streams says of the only socket of each side.
PairOK(so, ot, a, b, up) ==
  /\ Ends2(so, ot, a, b) /\ Shape(so)
  /\ so.peer # 0 => ot.st # "none"
  /\ so.st = "open" /\ "R" \in so.want =>
       /\ ot.q = <<>> /\ ~Has(b, "WRTE")
       /\ up /\ ot.st = "open" => so.got = Expected(ot)
  /\ so.st = "open" /\ up => Told(so, ot, b)
  /\ \A n \in 1 .. Len(a) : a[n].cmd = "WRTE" =>
       /\ so.q = <<>>
       /\ so.st = "open" => a[n].off = Expected(so)
  /\ \A n, m \in 1 .. Len(a) : Carries(a[n]) /\ Carries(a[m]) => n = m
  /\ so.st = "none" => ~Has(b, "WRTE") /\ ~Has(a, "WRTE")

LEMMA PairFacts ==
  ASSUME MaxId = 1, NEW A, NEW B, NEW a, NEW b, NEW na, NEW nb, NEW up,
         Good(A, B, a, b, na, nb, up), SocketOK(A[1]), SocketOK(B[1]),
         PipeBoth(A[1], B[1], a, b, na, nb, up)
  PROVE  PairOK(A[1], B[1], a, b, up)
<1>1. /\ Tables(A, B, a, b, na, nb)
      /\ Half(A, B, a, b, na, nb, up) /\ Half(B, A, b, a, nb, na, up)
  BY DEF Good, Streams
<1>2. Named(A, a) /\ Named(B, b)
  BY <1>1, NamesAreIds, TablesSwap
<1>3. 1 \in Id /\ \A x \in Id : x = 1
  BY DEF Id
<1> HIDE DEF Id
<1>4. Ends2(A[1], B[1], a, b) /\ Shape(A[1])
  BY <1>1, <1>3 DEF Tables, Half, Ends2
<1>5. ASSUME A[1].peer # 0 PROVE B[1].st # "none"
  <2>1. A[1].peer = 1
    BY <1>2, <1>3, <1>5 DEF Named
  <2>2. 1 < nb
    BY <1>1, <1>3, <2>1 DEF Half, Given
  <2> QED  BY <2>2 DEF PipeBoth, PipeHalf, Begins
<1>6. ASSUME A[1].st = "open", "R" \in A[1].want
      PROVE  B[1].q = <<>> /\ ~Has(b, "WRTE")
  <2>1. B[1].q # <<>> => B[1].q[1].arg0 = 1
    BY <1>2, <1>3 DEF Named
  <2>2. B[1].q = <<>>
    BY <1>1, <1>3, <1>6, <2>1 DEF Half, OneCredit, HeldOrReads
  <2>3. ASSUME NEW n \in 1 .. Len(b), b[n].cmd = "WRTE" PROVE FALSE
    <3>1. b[n].arg0 = 1
      BY <1>2, <1>3, <2>3 DEF Named
    <3> QED  BY <1>1, <1>6, <2>3, <3>1 DEF Half, OneCredit, SentOrReads, Carries
  <2> QED  BY <2>2, <2>3 DEF Has
<1>7. ASSUME A[1].st = "open", up, B[1].st = "open", A[1].peer # 0
      PROVE  \/ \E m \in 1 .. Len(b) : b[m].cmd = "WRTE" /\ b[m].off + b[m].len = A[1].got
             \/ A[1].got = Expected(B[1]) /\ ~Has(b, "WRTE")
  <2>1. A[1].peer = 1
    BY <1>2, <1>3, <1>7 DEF Named
  <2>2. Accounted(B, A, b)
    BY <1>1, <1>7 DEF Half
  <2>3. \/ \E n \in 1 .. Len(b) : /\ b[n].cmd = "WRTE" /\ b[n].arg0 = 1
                                  /\ A[1].got = b[n].off + b[n].len
        \/ /\ A[1].got = Expected(B[1])
           /\ \A n \in 1 .. Len(b) : ~(b[n].cmd = "WRTE" /\ b[n].arg0 = 1)
    BY <1>3, <1>7, <2>1, <2>2 DEF Accounted
  <2>4. \A n \in 1 .. Len(b) : b[n].cmd = "WRTE" => b[n].arg0 = 1
    BY <1>2, <1>3 DEF Named
  <2> QED  BY <2>3, <2>4 DEF Has
<1>8. A[1].st = "open" /\ up => Told(A[1], B[1], b)
  BY <1>7 DEF Told
<1>9. ASSUME A[1].st = "open", "R" \in A[1].want, up, B[1].st = "open"
      PROVE  A[1].got = Expected(B[1])
  <2>1. A[1].peer # 0
    BY <1>4, <1>9 DEF Shape
  <2> QED  BY <1>6, <1>7, <1>9, <2>1 DEF Has
<1>10. ASSUME NEW n \in 1 .. Len(a), a[n].cmd = "WRTE"
       PROVE  /\ A[1].q = <<>>
              /\ A[1].st = "open" => a[n].off = Expected(A[1])
  <2>1. a[n].arg0 = 1 /\ a[n].arg1 = 1
    BY <1>2, <1>3, <1>10 DEF Named, Binds
  <2>2. A[1].q # <<>> => A[1].q[1].arg0 = 1
    BY <1>2, <1>3 DEF Named
  <2>3. A[1].q = <<>>
    BY <1>1, <1>3, <1>10, <2>1, <2>2 DEF Half, OneCredit, SentOrHeld, Carries
  <2> QED  BY <1>1, <1>10, <2>1, <2>3 DEF Half, Continues
<1>11. ASSUME NEW n \in 1 .. Len(a), NEW m \in 1 .. Len(a), Carries(a[n]), Carries(a[m])
       PROVE  n = m
  <2>1. a[n].arg0 = 1 /\ a[m].arg0 = 1
    BY <1>2, <1>3, <1>11 DEF Named, Carries
  <2> QED  BY <1>1, <1>11, <2>1 DEF Half, OneCredit, OneSent
<1>12. ASSUME A[1].st = "none" PROVE ~Has(b, "WRTE") /\ ~Has(a, "WRTE")
  <2>1. na = 1
    BY <1>12 DEF PipeBoth, PipeHalf, Begins
  <2>2. \A x \in 1 .. (na - 1) : FALSE
    BY <2>1
  <2> QED  BY <1>1, <2>2 DEF Half, Given, Has, Binds
<1> QED  BY <1>4, <1>5, <1>6, <1>8, <1>9, <1>10, <1>11, <1>12 DEF PairOK

\* A call of close, with the CLSE it sends.
LEMMA CloseCall ==
  ASSUME NEW so, NEW ot, NEW a, NEW b, NEW na, NEW nb, NEW up \in BOOLEAN,
         Ends2(so, ot, a, b), PipeBoth(so, ot, a, b, na, nb, up),
         so.st \in {"open", "closing"}, up => MayClose(so, ot, b),
         so.peer # 0 => ot.st # "none" /\ (up => Told(so, ot, b))
  PROVE  /\ PipeBoth(Close(so).so, ot, a, Snd(b, Close(so).sent, up), na, nb, up)
         /\ Gives(so, Close(so).so, ot, up)
         /\ SocketOK(Close(so).so) /\ Close(so).so.st # "open" /\ Close(so).ret = 1
         /\ Close(so).sent \in Seq(Packet)
<1> DEFINE c == Close(so)
           b2 == Snd(b, c.sent, up)
<1>1. CloseFacts(so, c) /\ Ended(so, c.so)
  BY CloseAny, CloseBytes DEF Ends2
<1> HIDE DEF c
<1>2. b \in Seq(Packet) /\ SocketOK(c.so) /\ c.so.st # "open" /\ c.ret = 1 /\ c.sent \in Seq(Packet)
  BY <1>1 DEF Ends2, CloseFacts
<1>3. \/ b2 = b
      \/ so.peer # 0 /\ \E p \in Packet : p.cmd = "CLSE" /\ Extended(b, b2, p, up)
  <2>1. CASE so.peer = 0
    <3>1. c.sent = <<>>
      BY <1>1, <2>1 DEF CloseFacts
    <3> QED  BY <1>2, <3>1, SndFacts
  <2>2. CASE so.peer # 0
    <3> DEFINE p == CLSE(0, so.peer)
    <3>1. c.sent = <<p>>
      BY <1>1, <2>2 DEF CloseFacts
    <3>2. p \in Packet /\ p.cmd = "CLSE"
      <4>1. so.peer \in 0 .. MaxId /\ 0 \in 0 .. MaxId
        BY MaxIdAssumption DEF Ends2, SocketOK, Socket
      <4> QED  BY <4>1, PacketTypes DEF CLSE, Pkt
    <3> HIDE DEF p
    <3>3. Extended(b, Snd(b, <<p>>, up), p, up)
      BY <1>2, <3>2, SndFacts
    <3>4. Extended(b, b2, p, up)
      BY <3>1, <3>3, Zenon
    <3> QED  BY <2>2, <3>2, <3>4
  <2> QED  BY <2>1, <2>2
<1> HIDE DEF b2
<1>4. PipeBoth(c.so, ot, a, b2, na, nb, up) /\ Gives(so, c.so, ot, up)
  BY <1>1, <1>3, PipeClose
<1> QED  BY <1>2, <1>4 DEF c, b2

LEMMA SentTwice ==
  ASSUME NEW b \in Seq(Packet), NEW up \in BOOLEAN, NEW x \in Seq(Packet), NEW y \in Seq(Packet)
  PROVE  Snd(Snd(b, x, up), y, up) = Snd(b, x \o y, up)
<1>1. (b \o x) \o y = b \o (x \o y)
  BY ConcatAssociative
<1> QED  BY <1>1, Zenon DEF Snd

\* An OKAY sent.
LEMMA OkaySent ==
  ASSUME NEW b \in Seq(Packet), NEW up \in BOOLEAN, NEW i \in 0 .. MaxId, NEW j \in 0 .. MaxId
  PROVE  Answered(b, Snd(b, <<OKAY(i, j)>>, up), up)
<1> DEFINE p == OKAY(i, j)
<1>1. p \in Packet /\ p.cmd = "OKAY"
  BY PacketTypes DEF OKAY, Pkt
<1> HIDE DEF p
<1>2. Extended(b, Snd(b, <<p>>, up), p, up)
  BY <1>1, SndFacts
<1> QED  BY <1>1, <1>2 DEF Answered, p

\* FDE_WRITE on the socket of a stream.
LEMMA WriteCall ==
  ASSUME MaxId = 1, NEW so, NEW ot, NEW a, NEW b, NEW na, NEW nb, NEW up \in BOOLEAN,
         Ends2(so, ot, a, b), PipeBoth(so, ot, a, b, na, nb, up), Shape(so),
         so.st \in {"open", "closing"}, so.st = "open" => so.q # <<>>, so.pend = {},
         so.peer # 0 => ot.st # "none" /\ (up => Told(so, ot, b)),
         NEW e, e = EventWrite(1, so)
  PROVE  /\ PipeBoth(e.so, ot, a, Snd(b, e.sent, up), na, nb, up)
         /\ Gives(so, e.so, ot, up) /\ SocketOK(e.so) /\ e.sent \in Seq(Packet)
         /\ \/ e.ret = 1
            \/ Flushed(so, e.so) /\ Answered(b, Snd(b, e.sent, up), up)
<1>1. /\ SocketOK(so) /\ SocketOK(ot) /\ b \in Seq(Packet) /\ 1 \in Id
      /\ so.q # <<>> => Len(so.q) = 1
  BY DEF Ends2, Shape, Id
<1>2. so.out <= Room(so) /\ so.out <= Expected(so) /\ Expected(so) <= ot.got
  BY DEF PipeBoth, PipeHalf, Delivered
<1>3. WriteOutcome(1, so, e) /\ WriteFacts(1, so, e)
  BY <1>1, <1>2, WriteBytes, EventWriteAny
<1>4. SocketOK(e.so) /\ e.sent \in Seq(Packet)
  BY <1>3 DEF WriteFacts
<1>5. so.st = "closing" => so.peer = 0
  BY DEF Shape
<1>6. so.st = "open" => so.peer # 0
  BY DEF Shape
<1>7. CASE so.shut = "full" /\ e = Close(so)
  <2>1. up => MayClose(so, ot, b)
    BY <1>7 DEF MayClose
  <2> QED  BY <1>7, <2>1, CloseCall
<1>8. CASE Flushed(so, e.so) /\ e.sent = <<>> /\ e.ret = 1
  <2>1. Quiet(so, e.so) /\ Gives(so, e.so, ot, up)
    BY <1>1, <1>2, <1>4, <1>8, FlushedIsQuiet
  <2>2. Snd(b, e.sent, up) = b
    BY <1>1, <1>8, SndFacts
  <2>3. PipeBoth(e.so, ot, a, b, na, nb, up)
    BY <2>1, PipeQuiet DEF Answered
  <2> QED  BY <1>4, <1>8, <2>1, <2>2, <2>3
<1>9. ASSUME NEW so1 \in Socket, SocketOK(so1), Flushed(so, so1), so.st = "closing",
             so1.out = Expected(so1), e = Close(so1)
      PROVE  /\ PipeBoth(e.so, ot, a, Snd(b, e.sent, up), na, nb, up)
             /\ Gives(so, e.so, ot, up) /\ e.ret = 1
  <2>1. Quiet(so, so1) /\ Gives(so, so1, ot, up)
    BY <1>1, <1>2, <1>9, FlushedIsQuiet
  <2>2. PipeBoth(so1, ot, a, b, na, nb, up)
    BY <2>1, PipeQuiet DEF Answered
  <2>3. Ends2(so1, ot, a, b) /\ so1.st = "closing" /\ so1.peer = 0
    BY <1>5, <1>9 DEF Ends2, Flushed
  <2>4. up => MayClose(so1, ot, b)
    <3> SUFFICES ASSUME up PROVE MayClose(so1, ot, b)
      OBVIOUS
    <3>1. Farewell(so1, ot, a) /\ Farewell(ot, so1, b)
      BY <2>2 DEF PipeBoth, PipeHalf
    <3>2. so1.pend = {}
      BY <1>9 DEF Flushed
    <3> QED  BY <1>9, <2>3, <3>1, <3>2 DEF MayClose, Farewell, Closed
  <2>5. /\ PipeBoth(e.so, ot, a, Snd(b, e.sent, up), na, nb, up)
        /\ Gives(so1, e.so, ot, up) /\ e.ret = 1
    BY <1>9, <2>2, <2>3, <2>4, CloseCall
  <2>6. Gives(so, e.so, ot, up)
    BY <1>1, <1>4, <1>9, <2>1, <2>5, GivesTwice
  <2> QED  BY <2>5, <2>6
<1>10. CASE /\ Flushed(so, e.so) /\ so.st # "closing" /\ so.peer # 0
            /\ e.sent = <<OKAY(1, so.peer)>>
  <2>1. Quiet(so, e.so) /\ Gives(so, e.so, ot, up)
    BY <1>1, <1>2, <1>4, <1>10, FlushedIsQuiet
  <2>2. 1 \in 0 .. MaxId /\ so.peer \in 0 .. MaxId
    BY <1>1 DEF SocketOK, Socket
  <2>3. Answered(b, Snd(b, e.sent, up), up)
    BY <1>1, <1>10, <2>2, OkaySent
  <2>4. PipeBoth(e.so, ot, a, Snd(b, e.sent, up), na, nb, up)
    BY <2>1, <2>3, PipeQuiet
  <2> QED  BY <1>4, <1>10, <2>1, <2>3, <2>4
<1> QED  BY <1>3, <1>4, <1>6, <1>7, <1>8, <1>9, <1>10 DEF WriteOutcome

\* FDE_READ on the socket of a stream.
LEMMA ReadCall ==
  ASSUME MaxId = 1, NEW so, NEW ot, NEW a, NEW b, NEW na, NEW nb, NEW up \in BOOLEAN,
         Ends2(so, ot, a, b), PipeBoth(so, ot, a, b, na, nb, up),
         so.st \in {"open", "closing"}, so.pend = {}, MayRead(so, ot, b, up),
         NEW e, e = EventRead(1, so)
  PROVE  /\ PipeBoth(e.so, ot, a, Snd(b, e.sent, up), na, nb, up)
         /\ Gives(so, e.so, ot, up) /\ SocketOK(e.so) /\ e.sent \in Seq(Packet)
<1>1. SocketOK(so) /\ SocketOK(ot) /\ b \in Seq(Packet) /\ 1 \in Id
  BY DEF Ends2, Id
<1>2. ReadOutcome(1, so, e) /\ ReadFacts(1, so, e)
  BY <1>1, ReadBytes, EventReadAny
<1>3. SocketOK(e.so) /\ e.sent \in Seq(Packet)
  BY <1>2 DEF ReadFacts
<1>4. PICK n \in Nat, so2 \in Socket :
        /\ SocketOK(so2) /\ Reads(so, so2, n)
        /\ \/ e.so = so2 /\ e.sent = ReadSent(1, so, n)
           \/ so.shut # "no" /\ e.so = Close(so2).so
              /\ e.sent = ReadSent(1, so, n) \o Close(so2).sent
  BY <1>2 DEF ReadOutcome
<1> DEFINE sent == ReadSent(1, so, n)
           b2 == Snd(b, sent, up)
<1>5. /\ sent \in Seq(Packet) /\ b2 \in Seq(Packet)
      /\ IF n > 0 /\ so.peer # 0
         THEN \E p \in Packet : /\ p.cmd = "WRTE" /\ p.off = so.got /\ p.len = n
                                /\ Extended(b, b2, p, up)
         ELSE b2 = b
  <2>1. CASE n > 0 /\ so.peer # 0
    <3> DEFINE p == WRTE(1, so.peer, so.got, n)
    <3>1. 1 \in 0 .. MaxId /\ so.peer \in 0 .. MaxId /\ so.got \in Nat
      BY <1>1 DEF SocketOK, Socket
    <3>2. p \in Packet /\ p.cmd = "WRTE" /\ p.off = so.got /\ p.len = n
      BY <3>1, PacketTypes DEF WRTE
    <3>3. sent = <<p>>
      BY <2>1 DEF ReadSent
    <3> HIDE DEF p, sent
    <3>4. b2 \in Seq(Packet) /\ Extended(b, b2, p, up) /\ sent \in Seq(Packet)
      BY <1>1, <3>2, <3>3, SndFacts
    <3> QED  BY <2>1, <3>2, <3>4
  <2>2. CASE ~(n > 0 /\ so.peer # 0)
    <3>1. sent = <<>>
      BY <2>2 DEF ReadSent
    <3> HIDE DEF sent
    <3>2. b2 = b /\ sent \in Seq(Packet)
      BY <1>1, <3>1, SndFacts, EmptySeq
    <3> QED  BY <1>1, <2>2, <3>2
  <2> QED  BY <2>1, <2>2
<1> HIDE DEF sent, b2
<1>6. /\ PipeBoth(so2, ot, a, b2, na, nb, up)
      /\ Gives(so, so2, ot, up)
      /\ up => Told(so2, ot, b2)
  BY <1>4, <1>5, PipeRead
<1>7. CASE e.so = so2 /\ e.sent = sent
  BY <1>3, <1>6, <1>7 DEF b2
<1>8. CASE so.shut # "no" /\ e.so = Close(so2).so /\ e.sent = sent \o Close(so2).sent
  <2>1. /\ Ends2(so2, ot, a, b2) /\ so2.st \in {"open", "closing"} /\ so2.pend = {}
        /\ so2.shut # "no" /\ so2.peer = so.peer
    BY <1>4, <1>5, <1>8 DEF Ends2, Reads
  <2>2. up => MayClose(so2, ot, b2)
    BY <2>1 DEF MayClose
  <2>3. so2.peer # 0 => ot.st # "none" /\ (up => Told(so2, ot, b2))
    BY <1>6, <2>1 DEF MayRead
  <2> DEFINE c == Close(so2)
  <2>4. /\ PipeBoth(c.so, ot, a, Snd(b2, c.sent, up), na, nb, up)
        /\ Gives(so2, c.so, ot, up) /\ SocketOK(c.so) /\ c.sent \in Seq(Packet)
    BY <1>6, <2>1, <2>2, <2>3, CloseCall
  <2> HIDE DEF c
  <2>5. Snd(b2, c.sent, up) = Snd(b, sent \o c.sent, up)
    BY <1>1, <1>5, <2>4, SentTwice DEF b2
  <2>6. Gives(so, c.so, ot, up)
    BY <1>1, <1>4, <1>6, <2>4, GivesTwice
  <2> QED  BY <1>3, <1>8, <2>4, <2>5, <2>6 DEF c
<1> QED  BY <1>4, <1>7, <1>8 DEF sent

\* local_socket_event_func.
LEMMA EventCall ==
  ASSUME MaxId = 1, NEW so, NEW ot, NEW a, NEW b, NEW na, NEW nb, NEW up \in BOOLEAN,
         PairOK(so, ot, a, b, up), PipeBoth(so, ot, a, b, na, nb, up), so.pend # {},
         NEW e, e = local_socket_event_func(1, fdevent_taken(so), so.pend)
  PROVE  /\ PipeBoth(e.so, ot, a, Snd(b, e.sent, up), na, nb, up)
         /\ Gives(so, e.so, ot, up)
<1> DEFINE so0 == fdevent_taken(so)
<1>1. /\ SocketOK(so) /\ SocketOK(ot) /\ b \in Seq(Packet) /\ Shape(so)
  BY DEF PairOK, Ends2
<1>2. so.st \in {"open", "closing"}
  BY <1>1 DEF Shape, SocketOK, Socket
<1>3. /\ SocketOK(so0) /\ so0.pend = {} /\ so0.want = so.want /\ so0.st = so.st
      /\ so0.peer = so.peer /\ so0.q = so.q /\ SameBytes(so, so0)
  BY <1>1, TakenOK DEF fdevent_taken, SocketOK, Socket, SameBytes
<1> HIDE DEF so0
<1>4. Shape(so0) /\ Ends2(so0, ot, a, b)
  BY <1>1, <1>3 DEF Shape, PairOK, Ends2
<1>n. /\ so.out <= Room(so) /\ so.out <= Expected(so) /\ Expected(so) <= ot.got
      /\ so.out \in Nat /\ so.got \in Nat /\ so.got <= so.src /\ ot.got \in Nat
      /\ Expected(so) \in Nat
  BY <1>1, NumbersOf DEF PipeBoth, PipeHalf, Delivered
<1>5. Quiet(so, so0) /\ Gives(so, so0, ot, up)
  <2>1. Expected(so0) = Expected(so) /\ Room(so0) = Room(so)
    BY <1>3 DEF Expected, Room, SameBytes
  <2>2. so.out <= ot.got
    BY <1>n
  <2> QED  BY <1>2, <1>3, <1>n, <2>1, <2>2 DEF Quiet, Gives, SameBytes
<1>6. PipeBoth(so0, ot, a, b, na, nb, up)
  BY <1>4, <1>5, PipeQuiet DEF PairOK, Answered
<1>7. so0.peer # 0 => ot.st # "none" /\ (up => Told(so0, ot, b))
  <2>1. so.peer # 0 => so.st = "open"
    BY <1>1 DEF Shape
  <2> QED  BY <1>3, <2>1 DEF PairOK, Told, SameBytes
<1>8. "R" \in so.pend => MayRead(so0, ot, b, up)
  <2> SUFFICES ASSUME "R" \in so.pend PROVE MayRead(so0, ot, b, up)
    OBVIOUS
  <2>1. CASE so.st = "open"
    <3>1. "R" \in so.want /\ so.peer # 0
      BY <1>1, <2>1 DEF Shape
    <3> QED  BY <1>3, <2>1, <3>1 DEF PairOK, MayRead, SameBytes
  <2>2. CASE so.st = "closing"
    <3>1. so.peer = 0
      BY <1>1, <2>2 DEF Shape
    <3>2. up => ot.shut # "no" /\ ot.st # "open"
      BY <2>2 DEF PipeBoth, PipeHalf, Farewell
    <3> QED  BY <1>3, <2>2, <3>1, <3>2 DEF MayRead
  <2> QED  BY <1>2, <2>1, <2>2
<1> DEFINE w == IF "W" \in so.pend THEN EventWrite(1, so0) ELSE Effect(so0, <<>>, 0)
           b1 == Snd(b, w.sent, up)
           r == EventRead(1, w.so)
<1>9. /\ PipeBoth(w.so, ot, a, b1, na, nb, up) /\ Gives(so0, w.so, ot, up)
      /\ SocketOK(w.so) /\ w.sent \in Seq(Packet) /\ b1 \in Seq(Packet)
      /\ w.ret = 1 \/ (Flushed(so0, w.so) /\ Answered(b, b1, up))
  <2>1. CASE "W" \in so.pend
    <3>1. so0.st = "open" => so0.q # <<>>
      BY <1>1, <1>3, <2>1 DEF Shape
    <3> DEFINE x == EventWrite(1, so0)
    <3>2. x = EventWrite(1, so0) /\ w = x
      BY <2>1
    <3> HIDE DEF x, w
    <3>3. /\ PipeBoth(x.so, ot, a, Snd(b, x.sent, up), na, nb, up)
          /\ Gives(so0, x.so, ot, up) /\ SocketOK(x.so) /\ x.sent \in Seq(Packet)
          /\ x.ret = 1 \/ (Flushed(so0, x.so) /\ Answered(b, Snd(b, x.sent, up), up))
      BY <1>2, <1>3, <1>4, <1>6, <1>7, <3>1, <3>2, WriteCall
    <3>4. Snd(b, x.sent, up) \in Seq(Packet)
      BY <1>1, <3>3, SndFacts
    <3> QED  BY <3>2, <3>3, <3>4
  <2>2. CASE "W" \notin so.pend
    <3>1. w.so = so0 /\ w.sent = <<>>
      BY <2>2 DEF Effect
    <3> HIDE DEF w
    <3>2. b1 = b /\ w.sent \in Seq(Packet)
      BY <1>1, <3>1, SndFacts, EmptySeq
    <3>3. Flushed(so0, so0) /\ Gives(so0, so0, ot, up)
      <4>1. Expected(so0) = Expected(so) /\ Room(so0) = Room(so)
        BY <1>3 DEF Expected, Room, SameBytes
      <4>2. Flushed(so0, so0)
        BY <1>3, <1>n, <4>1 DEF Flushed, SameBytes
      <4> QED  BY <1>1, <1>2, <1>3, <1>n, <4>1, <4>2, FlushedIsQuiet
    <3> QED  BY <1>1, <1>3, <1>6, <3>1, <3>2, <3>3 DEF Answered
  <2> QED  BY <2>1, <2>2
<1>10. e = IF w.ret = 1 \/ "R" \notin so.pend THEN w
           ELSE Effect(r.so, w.sent \o r.sent, r.ret)
  BY DEF local_socket_event_func, so0
<1> HIDE DEF w, b1, r
<1>11. Gives(so, w.so, ot, up)
  BY <1>1, <1>3, <1>5, <1>9, GivesTwice
<1>12. CASE w.ret = 1 \/ "R" \notin so.pend
  BY <1>9, <1>10, <1>11, <1>12 DEF b1
<1>13. CASE ~(w.ret = 1 \/ "R" \notin so.pend)
  <2>1. Flushed(so0, w.so) /\ Answered(b, b1, up) /\ MayRead(so0, ot, b, up)
    BY <1>8, <1>9, <1>13
  <2>2. Ends2(w.so, ot, a, b1)
    BY <1>4, <1>9 DEF Ends2
  <2>3. w.so.st \in {"open", "closing"} /\ w.so.pend = {}
    BY <1>2, <1>3, <2>1 DEF Flushed
  <2>4. MayRead(w.so, ot, b1, up)
    <3>1. Has(b1, "WRTE") => Has(b, "WRTE")
      BY <1>1, <2>1, AnsweredFacts
    <3> QED  BY <2>1, <3>1 DEF MayRead, Flushed
  <2>5. /\ PipeBoth(r.so, ot, a, Snd(b1, r.sent, up), na, nb, up)
        /\ Gives(w.so, r.so, ot, up) /\ SocketOK(r.so) /\ r.sent \in Seq(Packet)
    BY <1>9, <2>2, <2>3, <2>4, ReadCall DEF r
  <2>6. Snd(b1, r.sent, up) = Snd(b, w.sent \o r.sent, up)
    BY <1>1, <1>9, <2>5, SentTwice DEF b1
  <2>7. Gives(so, r.so, ot, up)
    BY <1>1, <1>9, <1>11, <2>5, GivesTwice
  <2>8. e.so = r.so /\ e.sent = w.sent \o r.sent
    <3> DEFINE all == w.sent \o r.sent
    <3>1. e = Effect(r.so, all, r.ret)
      BY <1>10, <1>13, Zenon
    <3> HIDE DEF all
    <3>2. e.so = r.so /\ e.sent = all
      BY <3>1 DEF Effect
    <3> QED  BY <3>2 DEF all
  <2> QED  BY <2>5, <2>6, <2>7, <2>8
<1> QED  BY <1>12, <1>13

\* handle_packet, for an OKAY, CLSE or WRTE to an open socket.
LEMMA StreamCall ==
  ASSUME MaxId = 1, NEW so, NEW ot, NEW a, NEW b, NEW na, NEW nb, NEW up \in BOOLEAN,
         PairOK(so, ot, a, b, up), PipeBoth(so, ot, a, b, na, nb, up), so.st = "open",
         a # <<>>, a[1].cmd # "OPEN", NEW a2 \in Seq(Packet), Dropped(a, a2),
         NEW e, e = StreamEffect(so, a[1])
  PROVE  /\ PipeBoth(e.so, ot, a2, Snd(b, e.sent, up), na, nb, up)
         /\ Gives(so, e.so, ot, up)
<1>1. /\ Ends2(so, ot, a, b) /\ SocketOK(so) /\ SocketOK(ot) /\ Shape(so) /\ Shape(ot)
      /\ a \in Seq(Packet) /\ b \in Seq(Packet)
  BY DEF PairOK, Ends2
<1>2. 1 \in 1 .. Len(a) /\ a[1] \in Packet
  BY <1>1
<1>n. /\ so.out <= Room(so) /\ so.out <= Expected(so) /\ Expected(so) <= ot.got
      /\ so.out \in Nat /\ so.got \in Nat /\ so.got <= so.src /\ ot.got \in Nat
      /\ Expected(so) \in Nat /\ so.src \in Nat
  BY <1>1, NumbersOf DEF PipeBoth, PipeHalf, Delivered
<1>3. CASE a[1].cmd = "OKAY"
  <2> DEFINE bound == IF so.peer = 0 THEN [so EXCEPT !.peer = a[1].arg0] ELSE so
             so2 == Ready(bound)
  <2>1. SocketOK(bound) /\ SameBytes(so, bound) /\ bound.st = so.st /\ bound.q = so.q
    BY <1>1, <1>2 DEF SocketOK, Socket, Packet, SameBytes
  <2>2. e = Effect(so2, <<>>, 0)
    BY <1>3 DEF StreamEffect, ReadyPacket
  <2> HIDE DEF bound
  <2>3. ReadyFacts(bound, so2) /\ SameBytes(bound, so2)
    BY <2>1, ReadyAny, ReadyBytes
  <2> HIDE DEF so2
  <2>4. SocketOK(so2) /\ SameBytes(so, so2) /\ so2.st = so.st /\ so2.q = so.q
    BY <2>1, <2>3 DEF ReadyFacts, SameBytes
  <2>5. Expected(so2) = Expected(so) /\ Room(so2) = Room(so)
    BY <2>4 DEF Expected, Room, SameBytes
  <2>6. Quiet(so, so2)
    BY <1>n, <2>4, <2>5 DEF Quiet, SameBytes
  <2>7. PipeBoth(so2, ot, a, b, na, nb, up)
    BY <1>1, <2>6, PipeQuiet DEF Answered
  <2>8. Ends2(so2, ot, a, b)
    BY <1>1, <2>4 DEF Ends2
  <2>9. PipeBoth(so2, ot, a2, b, na, nb, up)
    BY <1>3, <2>7, <2>8, PipeDrop
  <2>10. so.out <= ot.got
    BY <1>n
  <2>11. Gives(so, so2, ot, up)
    BY <1>n, <2>4, <2>10 DEF Gives, SameBytes
  <2>12. e.so = so2 /\ Snd(b, e.sent, up) = b
    BY <1>1, <2>2, SndFacts DEF Effect
  <2> QED  BY <2>9, <2>11, <2>12
<1>4. so.peer # 0 => ot.st # "none" /\ (up => Told(so, ot, b))
  BY DEF PairOK
<1>5. ASSUME up => MayClose(so, ot, b), e = Close(so)
      PROVE  /\ PipeBoth(e.so, ot, a2, Snd(b, e.sent, up), na, nb, up)
             /\ Gives(so, e.so, ot, up)
  <2> DEFINE b2 == Snd(b, e.sent, up)
  <2>1. /\ PipeBoth(e.so, ot, a, b2, na, nb, up) /\ Gives(so, e.so, ot, up)
        /\ SocketOK(e.so) /\ e.so.st # "open" /\ e.sent \in Seq(Packet)
    BY <1>1, <1>4, <1>5, CloseCall
  <2>2. b2 \in Seq(Packet)
    BY <1>1, <2>1, SndFacts
  <2> HIDE DEF b2
  <2>3. Ends2(e.so, ot, a, b2)
    BY <1>1, <2>1, <2>2 DEF Ends2
  <2>4. PipeBoth(e.so, ot, a2, b2, na, nb, up)
    BY <2>1, <2>3, PipeDrop
  <2> QED  BY <2>1, <2>4 DEF b2
<1>6. CASE a[1].cmd = "CLSE"
  <2>1. up => MayClose(so, ot, b)
    <3> SUFFICES ASSUME up PROVE MayClose(so, ot, b)
      OBVIOUS
    <3>1. Farewell(so, ot, a) /\ Farewell(ot, so, b)
      BY DEF PipeBoth, PipeHalf
    <3>2. Has(a, "CLSE")
      BY <1>2, <1>6 DEF Has
    <3>3. ot.st # "open" /\ ~Has(b, "OPEN")
      BY <3>2 DEF PipeBoth, PipeHalf, Begins
    <3>4. ot.shut # "no" \/ ot.st = "none"
      <4>1. ot.st \in {"none", "open", "closing", "freed", "fault"}
        BY <1>1 DEF SocketOK, Socket
      <4> QED  BY <1>1, <3>1, <3>3, <4>1 DEF Farewell, Closed, Shape
    <3>5. Expected(so) = ot.got
      <4>1. Behindhand(so, ot, a, 1)
        BY <1>2, <1>6, <3>1 DEF Farewell
      <4> QED  BY <4>1 DEF Behindhand
    <3>6. "R" \in so.pend => ot.st # "none"
      BY <1>1, <1>4 DEF Shape
    <3> QED  BY <3>3, <3>4, <3>5, <3>6 DEF MayClose
  <2>2. e = Close(so)
    BY <1>6 DEF StreamEffect
  <2> QED  BY <1>5, <2>1, <2>2
<1>7. CASE a[1].cmd = "WRTE"
  <2> DEFINE x == local_socket_enqueue(so, a[1])
  <2>1. /\ so.q = <<>> /\ a[1].off = Expected(so)
        /\ \A n \in 1 .. Len(a) : a[n].cmd = "WRTE" => n = 1
    BY <1>2, <1>7 DEF PairOK, Carries
  <2>2. \/ so.shut = "full" /\ x = Close(so)
        \/ Taken(so, x.so, a[1]) /\ x.so.src = so.src /\ x.so.took = so.took /\ so.out <= x.so.out
    BY <1>1, <1>2, <1>n, <2>1, EnqueueBytes
  <2>3. EnqueueFacts(so, a[1], x)
    BY <1>1, <1>2, EnqueueAny
  <2>4. e = IF x.ret = 0 THEN Effect(x.so, <<OKAY(a[1].arg1, a[1].arg0)>>, 0) ELSE x
    BY <1>7 DEF StreamEffect, WritePacket
  <2> HIDE DEF x
  <2>5. CASE so.shut = "full" /\ x = Close(so)
    <3>1. x.ret = 1
      BY <1>1, <2>5, CloseAny DEF CloseFacts
    <3>2. up => MayClose(so, ot, b)
      BY <2>1, <2>5 DEF MayClose
    <3> QED  BY <1>5, <2>4, <2>5, <3>1, <3>2
  <2>6. CASE Taken(so, x.so, a[1]) /\ x.so.src = so.src /\ x.so.took = so.took /\ so.out <= x.so.out
    <3>1. SocketOK(x.so) /\ x.sent = <<>>
      BY <2>3, <2>6 DEF EnqueueFacts, CloseFacts, Taken
    <3>2. e.so = x.so /\ (e.sent = <<>> \/ e.sent = <<OKAY(a[1].arg1, a[1].arg0)>>)
      BY <2>4, <3>1 DEF Effect
    <3>3. Answered(b, Snd(b, e.sent, up), up)
      <4>1. a[1].arg1 \in 0 .. MaxId /\ a[1].arg0 \in 0 .. MaxId
        BY <1>2 DEF Packet
      <4>2. CASE e.sent = <<>>
        BY <1>1, <4>2, SndFacts DEF Answered
      <4>3. CASE e.sent = <<OKAY(a[1].arg1, a[1].arg0)>>
        BY <1>1, <4>1, <4>3, OkaySent
      <4> QED  BY <3>2, <4>2, <4>3
    <3>4. PipeBoth(x.so, ot, a2, Snd(b, e.sent, up), na, nb, up)
      BY <1>1, <1>7, <2>1, <2>6, <3>3, PipeTake
    <3>5. x.so.out <= ot.got
      <4>1. x.so.out \in Nat /\ Expected(x.so) \in Nat
        BY <3>1, NumbersOf
      <4> QED  BY <1>n, <3>4, <4>1 DEF PipeBoth, PipeHalf, Delivered
    <3>6. Gives(so, x.so, ot, up)
      BY <1>n, <2>6, <3>5 DEF Gives, Taken
    <3> QED  BY <3>2, <3>4, <3>6
  <2> QED  BY <2>2, <2>5, <2>6
<1>8. a[1].cmd \in {"OKAY", "CLSE", "WRTE"}
  BY <1>2 DEF Packet
<1> QED  BY <1>3, <1>6, <1>7, <1>8

-----------------------------------------------------------------------------
(* Every step is a step of the pipe, or leaves the pipe as it is.          *)

LEMMA AdbStep ==
  ASSUME NEW s \in Side, SocketOK(sock[s][1]), SocketOK(sock'[s][1]),
         sock'[Other(s)][1] = sock[Other(s)][1], link' = link, link \in {"up", "down"},
         SocketOK(sock[Other(s)][1]),
         Gives(sock[s][1], sock'[s][1], sock[Other(s)][1], link = "up")
  PROVE  Pipe!Next
<1> DEFINE so == sock[s][1]
           so2 == sock'[s][1]
           ot == sock[Other(s)][1]
           ends == [r \in Side |-> EndOf(sock[r][1])]
           ends2 == [r \in Side |-> EndOf(sock'[r][1])]
           e == EndOf(so2)
<1>1. /\ s \in Pipe!Side /\ Pipe!Other(s) = Other(s) /\ Other(s) # s /\ Other(s) \in Side
      /\ \A r \in Side : r = s \/ r = Other(s)
  BY DEF Pipe!Side, Pipe!Other, Side, Other
<1>2. ends[s] = EndOf(so) /\ ends[Other(s)] = EndOf(ot) /\ ends2[s] = e
  BY <1>1
<1>3. ends2 = [ends EXCEPT ![s] = e]
  <2>1. \A r \in Side : ends2[r] = [ends EXCEPT ![s] = e][r]
    BY <1>1
  <2> QED  BY <2>1
<1>4. /\ so.got \in Nat /\ so.out \in Nat /\ so2.got \in Nat /\ so2.out \in Nat /\ so.src \in Nat
      /\ ot.got \in Nat /\ ot.out \in Nat
  BY NumbersOf
<1>5. /\ EndOf(so).st = "open" /\ EndOf(so).shut = so.shut /\ EndOf(so).put = so.src
      /\ EndOf(so).got = so.got /\ EndOf(so).out = so.out /\ EndOf(so).took = so.took
  BY DEF EndOf, Gives
<1>6. /\ e.st \in {"open", "gone"} /\ e.shut = so2.shut /\ e.put = so2.src
      /\ e.got = so2.got /\ e.out = so2.out /\ e.took = so2.took
      /\ e.st = "gone" => so2.st = "freed"
  BY DEF EndOf, Gives
<1>7. /\ EndOf(ot).shut = ot.shut /\ EndOf(ot).got = ot.got /\ EndOf(ot).out = ot.out
      /\ EndOf(ot).st # "open" \/ ot.st # "none"
  BY DEF EndOf
<1> HIDE DEF so, so2, ot, ends, ends2, e
<1>8. /\ so2.shut = so.shut /\ so2.src = so.src /\ so2.took = so.took
      /\ so2.got \in so.got .. so.src /\ so2.out \in so.out .. ot.got
      /\ so2.got > so.got /\ ot.shut = "no" /\ link = "up" => so2.got - ot.out <= MAX_PAYLOAD
      /\ so2.st = "freed" =>
           /\ so.shut # "no" \/ ot.shut # "no" \/ ot.st = "none" \/ link # "up"
           /\ so.shut = "no" /\ link = "up" => so2.out = ot.got
  BY <1>4 DEF Gives, so, so2, ot
<1>9. e.st = "gone" => \/ \E r \in Pipe!Side : ends[r].shut # "no"
                       \/ ends[Other(s)].st # "open"
                       \/ link # "up"
  BY <1>1, <1>2, <1>5, <1>6, <1>7, <1>8 DEF Pipe!Side, Side
<1>10. Pipe!Adb(s, e)
  BY <1>1, <1>2, <1>3, <1>5, <1>6, <1>7, <1>8, <1>9
     DEF Pipe!Adb, Pipe!Reason, Pipe!AllGiven, ends, ends2
<1>11. Pipe!Adb(s, ends2[s])
  BY <1>2, <1>10
<1> QED  BY <1>1, <1>11 DEF Pipe!Next, ends2

LEMMA StillStep ==
  ASSUME \A r \in Side : EndOf(sock'[r][1]) = EndOf(sock[r][1]), link' = link
  PROVE  UNCHANGED Pipe!vars
BY DEF Pipe!vars

LEMMA OneEnd ==
  ASSUME NEW s \in Side, sock'[Other(s)][1] = sock[Other(s)][1], link' = link,
         Pipe!Open(s, EndOf(sock'[s][1])) \/ Pipe!Client(s, EndOf(sock'[s][1]))
  PROVE  Pipe!Next
<1>1. s \in Pipe!Side
  BY DEF Pipe!Side, Side
<1> DEFINE ends2 == [r \in Side |-> EndOf(sock'[r][1])]
<1>2. ends2[s] = EndOf(sock'[s][1])
  OBVIOUS
<1> HIDE DEF ends2
<1>3. Pipe!Open(s, ends2[s]) \/ Pipe!Client(s, ends2[s])
  BY <1>2
<1> QED  BY <1>1, <1>3 DEF Pipe!Next, ends2

\* Pipe!Becomes, for a step that changes the socket of side s only.
LEMMA BecomesEnd ==
  ASSUME NEW s \in Side, sock'[Other(s)][1] = sock[Other(s)][1], link' = link
  PROVE  Pipe!Becomes(s, EndOf(sock'[s][1]))
<1> DEFINE ends == [r \in Side |-> EndOf(sock[r][1])]
           ends2 == [r \in Side |-> EndOf(sock'[r][1])]
           e == EndOf(sock'[s][1])
<1>1. Other(s) # s /\ Other(s) \in Side /\ \A r \in Side : r = s \/ r = Other(s)
  BY DEF Side, Other
<1>2. \A r \in Side : ends2[r] = [ends EXCEPT ![s] = e][r]
  BY <1>1
<1>3. ends2 = [ends EXCEPT ![s] = e]
  BY <1>2
<1> QED  BY <1>3 DEF Pipe!Becomes

-----------------------------------------------------------------------------
(* The invariant of the refinement.                                        *)

PipeSeen(s) ==
  PipeBoth(sock[s][1], sock[Other(s)][1], chan[s], chan[Other(s)],
           nextId[s], nextId[Other(s)], link = "up")

HostFirst == sock["host"][1].st = "none" => sock["device"][1].st = "none"

PipeOK == PipeSeen("host") /\ HostFirst

LEMMA PipeView ==
  ASSUME MaxId = 1, FlowInv, PipeOK, NEW s \in Side
  PROVE  /\ PipeSeen(s)
         /\ PairOK(sock[s][1], sock[Other(s)][1], chan[s], chan[Other(s)], link = "up")
<1>1. PipeSeen(s)
  BY DEF PipeOK, PipeSeen, PipeBoth, Side, Other
<1>2. Other(s) \in Side /\ 1 \in Id
  BY SideFacts DEF Id
<1>3. Good(sock[s], sock[Other(s)], chan[s], chan[Other(s)],
           nextId[s], nextId[Other(s)], link = "up")
  BY SideGood
<1>4. SocketOK(sock[s][1]) /\ SocketOK(sock[Other(s)][1])
  BY <1>2, SideGood
<1> QED  BY <1>1, <1>3, <1>4, PairFacts DEF PipeSeen

\* A step of side s that leaves the other socket alone.
LEMMA PipeFrom ==
  ASSUME PipeOK, NEW s \in Side,
         sock'[Other(s)][1] = sock[Other(s)][1], nextId'[Other(s)] = nextId[Other(s)],
         PipeBoth(sock'[s][1], sock[Other(s)][1], chan'[s], chan'[Other(s)],
                  nextId'[s], nextId[Other(s)], link' = "up"),
         sock'[s][1].st = "none" => sock[s][1].st = "none",
         \/ sock'[s][1].st = sock[s][1].st
         \/ sock[s][1].st # "none"
         \/ sock[Other(s)][1].st # "none"
         \/ s = "host"
  PROVE  PipeOK'
<1>1. CASE s = "host"
  <2>1. Other(s) = "device"
    BY <1>1 DEF Other
  <2> QED  BY <1>1, <2>1 DEF PipeOK, PipeSeen, HostFirst, Other
<1>2. CASE s = "device"
  <2>1. Other(s) = "host" /\ Other("host") = "device"
    BY <1>2 DEF Other
  <2> QED  BY <1>2, <2>1 DEF PipeOK, PipeSeen, PipeBoth, HostFirst
<1> QED  BY <1>1, <1>2 DEF Side

\* What Apply does to a stream.
LEMMA PipeApply ==
  ASSUME MaxId = 1, FlowInv, NEW s \in Side, NEW e, NEW ch \in [Side -> Seq(Packet)],
         Apply(s, 1, e, ch)
  PROVE  /\ sock'[s][1] = e.so /\ sock'[Other(s)][1] = sock[Other(s)][1]
         /\ chan'[s] = ch[s] /\ chan'[Other(s)] = Snd(ch[Other(s)], e.sent, link = "up")
<1>1. Other(s) \in Side /\ Other(s) # s /\ 1 \in Id
  BY SideFacts DEF Id
<1>2. sock \in [Side -> [Id -> Socket]]
  BY DEF FlowInv, TypeOK
<1> QED  BY <1>1, <1>2 DEF Apply, send_packets, Snd

LEMMA PipeTypes ==
  ASSUME MaxId = 1, TypeOK
  PROVE  /\ \A s \in Side : SocketOK(sock[s][1])
         /\ chan \in [Side -> Seq(Packet)] /\ link \in {"up", "down"}
         /\ 1 \in Id /\ \A i \in Id : i = 1
<1>1. 1 \in Id /\ \A i \in Id : i = 1
  BY DEF Id
<1> QED  BY <1>1, TypedSockets DEF TypeOK, SocketsOK

Moves == [Pipe!Next]_(Pipe!vars)

-----------------------------------------------------------------------------
(* Each action keeps the invariant and is a step of the pipe.              *)

LEMMA SocketEventPipe ==
  ASSUME MaxId = 1, FlowInv, TypeOK', PipeOK, NEW s \in Side, NEW i \in Id, SocketEvent(s, i)
  PROVE  PipeOK' /\ Moves
<1> DEFINE so == sock[s][1]
           ot == sock[Other(s)][1]
           e == local_socket_event_func(1, fdevent_taken(so), so.pend)
           up == link = "up"
<1>1. /\ so.pend # {} /\ Apply(s, 1, e, chan) /\ nextId' = nextId /\ link' = link
  BY PipeTypes DEF SocketEvent, FlowInv
<1>2. /\ PipeBoth(so, ot, chan[s], chan[Other(s)], nextId[s], nextId[Other(s)], up)
      /\ PairOK(so, ot, chan[s], chan[Other(s)], up)
  BY PipeView DEF PipeSeen
<1>3. /\ chan \in [Side -> Seq(Packet)] /\ link \in {"up", "down"} /\ SocketOK(so) /\ SocketOK(ot)
      /\ SocketOK(sock'[s][1])
  BY PipeTypes, SideFacts DEF FlowInv, TypeOK, SocketsOK, SocketOK
<1>4. /\ PipeBoth(e.so, ot, chan[s], Snd(chan[Other(s)], e.sent, up),
                  nextId[s], nextId[Other(s)], up)
      /\ Gives(so, e.so, ot, up)
  <2>1. up \in BOOLEAN
    OBVIOUS
  <2> HIDE DEF up, so, ot
  <2> QED  BY <1>1, <1>2, <2>1, EventCall
<1> HIDE DEF e
<1>5. /\ sock'[s][1] = e.so /\ sock'[Other(s)][1] = ot
      /\ chan'[s] = chan[s] /\ chan'[Other(s)] = Snd(chan[Other(s)], e.sent, up)
  BY <1>1, <1>3, PipeApply
<1>6. so.st # "none" /\ e.so.st # "none"
  BY <1>4 DEF Gives
<1>7. PipeOK'
  BY <1>1, <1>4, <1>5, <1>6, PipeFrom
<1>8. Pipe!Next
  BY <1>1, <1>3, <1>4, <1>5, AdbStep
<1> QED  BY <1>7, <1>8 DEF Moves

LEMMA StreamPipeStep ==
  ASSUME MaxId = 1, FlowInv, TypeOK', PipeOK, NEW s \in Side, HandleStream(s)
  PROVE  PipeOK' /\ Moves
<1> DEFINE so == sock[s][1]
           ot == sock[Other(s)][1]
           e == StreamEffect(so, chan[s][1])
           up == link = "up"
<1>1. chan[s] # <<>>
  BY DEF HandleStream, TakePacket
<1>2. /\ Head(chan[s]) = chan[s][1] /\ Rest(s) \in [Side -> Seq(Packet)]
      /\ Rest(s)[s] = Tail(chan[s]) /\ Rest(s)[Other(s)] = chan[Other(s)]
  BY <1>1, RestFacts
<1>3. chan[s][1].arg1 = 1
  BY <1>2, PipeTypes DEF HandleStream, find_local_socket, FlowInv
<1>4. /\ so.st = "open" /\ chan[s][1].cmd # "OPEN" /\ Apply(s, 1, e, Rest(s))
      /\ nextId' = nextId /\ link' = link
  BY <1>2, <1>3 DEF HandleStream, find_local_socket
<1>5. /\ PipeBoth(so, ot, chan[s], chan[Other(s)], nextId[s], nextId[Other(s)], up)
      /\ PairOK(so, ot, chan[s], chan[Other(s)], up)
  BY PipeView DEF PipeSeen
<1>6. /\ chan \in [Side -> Seq(Packet)] /\ link \in {"up", "down"} /\ SocketOK(so) /\ SocketOK(ot)
      /\ SocketOK(sock'[s][1])
  BY PipeTypes, SideFacts DEF FlowInv, TypeOK, SocketsOK, SocketOK
<1>7. Tail(chan[s]) \in Seq(Packet) /\ Dropped(chan[s], Tail(chan[s]))
  BY <1>1, <1>6, TailFacts
<1>8. /\ PipeBoth(e.so, ot, Tail(chan[s]), Snd(chan[Other(s)], e.sent, up),
                  nextId[s], nextId[Other(s)], up)
      /\ Gives(so, e.so, ot, up)
  <2>1. up \in BOOLEAN
    OBVIOUS
  <2> HIDE DEF up, so, ot
  <2> QED  BY <1>1, <1>4, <1>5, <1>7, <2>1, StreamCall
<1> HIDE DEF e
<1>9. /\ sock'[s][1] = e.so /\ sock'[Other(s)][1] = ot
      /\ chan'[s] = Tail(chan[s]) /\ chan'[Other(s)] = Snd(chan[Other(s)], e.sent, up)
  <2>1. /\ sock'[s][1] = e.so /\ sock'[Other(s)][1] = sock[Other(s)][1]
        /\ chan'[s] = Rest(s)[s]
        /\ chan'[Other(s)] = Snd(Rest(s)[Other(s)], e.sent, link = "up")
    BY <1>2, <1>4, PipeApply
  <2> QED  BY <1>2, <2>1
<1>10. so.st # "none" /\ e.so.st # "none"
  BY <1>8 DEF Gives
<1>11. PipeOK'
  BY <1>4, <1>8, <1>9, <1>10, PipeFrom
<1>12. Pipe!Next
  BY <1>4, <1>6, <1>8, <1>9, AdbStep
<1> QED  BY <1>11, <1>12 DEF Moves

\* A packet that changes no socket.
LEMMA StalePipe ==
  ASSUME MaxId = 1, FlowInv, PipeOK, NEW s \in Side, HandleStale(s)
  PROVE  PipeOK' /\ Moves
<1> DEFINE so == sock[s][1]
           ot == sock[Other(s)][1]
           up == link = "up"
<1>1. chan[s] # <<>> /\ chan' = Rest(s) /\ UNCHANGED <<sock, nextId, link>>
  BY DEF HandleStale, TakePacket
<1>2. /\ tstate[s] = "online" /\ Head(chan[s]) = chan[s][1]
      /\ Rest(s)[s] = Tail(chan[s]) /\ Rest(s)[Other(s)] = chan[Other(s)]
  BY <1>1, RestFacts
<1>3. /\ PipeBoth(so, ot, chan[s], chan[Other(s)], nextId[s], nextId[Other(s)], up)
      /\ PairOK(so, ot, chan[s], chan[Other(s)], up)
  BY PipeView DEF PipeSeen
<1>4. Ends2(so, ot, chan[s], chan[Other(s)]) /\ chan[s] \in Seq(Packet)
  BY <1>3 DEF PairOK, Ends2
<1>5. Tail(chan[s]) \in Seq(Packet) /\ Dropped(chan[s], Tail(chan[s]))
  BY <1>1, <1>4, TailFacts
<1>6. so.st # "open" \/ chan[s][1].cmd # "WRTE"
  <2>1. ~find_local_socket(s, chan[s][1].arg1)
    BY <1>2 DEF HandleStale
  <2>2. Named(sock[s], chan[s])
    BY SideGood, NamesAreIds DEF Good, Streams
  <2>3. 1 \in 1 .. Len(chan[s])
    BY <1>1, <1>4
  <2>4. chan[s][1].cmd = "WRTE" => chan[s][1].arg1 = 1 /\ 1 \in Id
    BY <2>2, <2>3, PipeTypes DEF Named, Binds, FlowInv
  <2> QED  BY <2>1, <2>4 DEF find_local_socket
<1>7. PipeBoth(so, ot, Tail(chan[s]), chan[Other(s)], nextId[s], nextId[Other(s)], up)
  <2> HIDE DEF so, ot, up
  <2> QED  BY <1>1, <1>3, <1>4, <1>5, <1>6, PipeDrop
<1>8. PipeOK'
  BY <1>1, <1>2, <1>7, PipeFrom
<1>9. UNCHANGED Pipe!vars
  BY <1>1, StillStep
<1> QED  BY <1>8, <1>9 DEF Moves

LEMMA RefusePipe ==
  ASSUME MaxId = 1, FlowInv, PipeOK, NEW s \in Side, RefuseOpen(s)
  PROVE  PipeOK' /\ Moves
<1> DEFINE so == sock[s][1]
           ot == sock[Other(s)][1]
           p == CLSE(0, Head(chan[s]).arg0)
           up == link = "up"
<1>1. /\ chan[s] # <<>> /\ chan' = send_packets(Rest(s), s, <<p>>)
      /\ Head(chan[s]).cmd = "OPEN" /\ UNCHANGED <<sock, nextId, link>>
  BY DEF RefuseOpen, TakePacket
<1>2. /\ Head(chan[s]) = chan[s][1] /\ Rest(s) \in [Side -> Seq(Packet)]
      /\ Rest(s)[s] = Tail(chan[s]) /\ Rest(s)[Other(s)] = chan[Other(s)]
  BY <1>1, RestFacts
<1>3. /\ PipeBoth(so, ot, chan[s], chan[Other(s)], nextId[s], nextId[Other(s)], up)
      /\ PairOK(so, ot, chan[s], chan[Other(s)], up)
  BY PipeView DEF PipeSeen
<1>4. /\ Ends2(so, ot, chan[s], chan[Other(s)])
      /\ chan[s] \in Seq(Packet) /\ chan[Other(s)] \in Seq(Packet)
  BY <1>3 DEF PairOK, Ends2
<1>5. Tail(chan[s]) \in Seq(Packet) /\ Dropped(chan[s], Tail(chan[s])) /\ chan[s][1] \in Packet
  BY <1>1, <1>4, TailFacts
<1>6. /\ so.st = "none" /\ ot.st # "none" /\ ~Has(Tail(chan[s]), "OPEN")
      /\ ~Has(chan[Other(s)], "OPEN") /\ ~Has(chan[Other(s)], "WRTE")
  <2>1. 1 \in 1 .. Len(chan[s]) /\ chan[s][1].cmd = "OPEN"
    BY <1>1, <1>2, <1>4
  <2>2. so.st = "none" /\ ot.st # "none"
    BY <1>3, <2>1 DEF PipeBoth, PipeHalf, Begins, Has
  <2>3. ~Has(chan[Other(s)], "OPEN") /\ ~Has(chan[Other(s)], "WRTE")
    BY <1>3, <2>2 DEF PipeBoth, PipeHalf, Begins, PairOK
  <2>4. ~Has(Tail(chan[s]), "OPEN")
    <3>1. Shifted(chan[s], Tail(chan[s]))
      BY <1>1, <1>4, <1>5, Dropping
    <3>2. \A n \in 1 .. Len(chan[s]) : Carries(chan[s][n]) => n = 1
      BY <1>3, <2>1 DEF PairOK, Carries
    <3> QED  BY <3>1, <3>2 DEF Has, Shifted, Carries
  <2> QED  BY <2>2, <2>3, <2>4
<1>7. p \in Packet /\ p.cmd = "CLSE"
  BY <1>2, <1>5, MaxIdAssumption DEF CLSE, Pkt, Packet
<1> HIDE DEF p
<1>8. chan'[s] = Tail(chan[s]) /\ chan'[Other(s)] = Snd(chan[Other(s)], <<p>>, up)
  BY <1>1, <1>2, SideFacts DEF send_packets, Snd
<1>9. PipeBoth(so, ot, Tail(chan[s]), Snd(chan[Other(s)], <<p>>, up),
               nextId[s], nextId[Other(s)], up)
  <2>1. up \in BOOLEAN
    OBVIOUS
  <2> HIDE DEF so, ot, up
  <2>2. PipeBoth(so, ot, Tail(chan[s]), chan[Other(s)], nextId[s], nextId[Other(s)], up)
    BY <1>1, <1>3, <1>4, <1>5, <1>6, PipeDrop
  <2>3. Extended(chan[Other(s)], Snd(chan[Other(s)], <<p>>, up), p, up)
    BY <1>4, <1>7, <2>1, SndFacts
  <2>4. Ends2(so, ot, Tail(chan[s]), chan[Other(s)])
    BY <1>4, <1>5 DEF Ends2
  <2> QED  BY <1>6, <1>7, <2>2, <2>3, <2>4, PipeRefuse
<1>10. PipeOK'
  BY <1>1, <1>8, <1>9, PipeFrom
<1>11. UNCHANGED Pipe!vars
  BY <1>1, StillStep
<1> QED  BY <1>10, <1>11 DEF Moves

\* The pipe opens at side s.
LEMMA PipeOpens ==
  ASSUME NEW s \in Side, sock'[Other(s)][1] = sock[Other(s)][1], link' = link,
         sock[s][1].st = "none", s = "host" \/ sock[Other(s)][1].st # "none",
         sock'[s][1].src = 0, sock'[s][1].got = 0, sock'[s][1].out = 0, sock'[s][1].took = 0,
         \/ sock'[s][1].st = "open" /\ sock'[s][1].shut = "no"
         \/ s = "host" /\ sock'[s][1].st = "freed" /\ sock'[s][1].shut = "half"
  PROVE  Pipe!Next
<1> DEFINE ends == [r \in Side |-> EndOf(sock[r][1])]
           e == EndOf(sock'[s][1])
<1>1. \A so : EndOf(so).st = "none" <=> so.st = "none"
  BY DEF EndOf
<1>2. "host" \in Side /\ (s = "device" => Other(s) = "host" /\ s # "host")
  BY DEF Side, Other
<1>3. \A r \in Side : ends[r] = EndOf(sock[r][1])
  OBVIOUS
<1>4. ends[s].st = "none" /\ (s = "device" => ends["host"].st # "none")
  BY <1>1, <1>2, <1>3
<1>5. \/ e = [Pipe!NoEnd EXCEPT !.st = "open"]
      \/ s = "host" /\ e = [Pipe!NoEnd EXCEPT !.st = "gone", !.shut = "half"]
  <2> DEFINE so2 == sock'[s][1]
  <2>1. /\ so2.src = 0 /\ so2.got = 0 /\ so2.out = 0 /\ so2.took = 0
        /\ \/ so2.st = "open" /\ so2.shut = "no"
           \/ s = "host" /\ so2.st = "freed" /\ so2.shut = "half"
    OBVIOUS
  <2> HIDE DEF so2
  <2>2. \/ EndOf(so2) = [Pipe!NoEnd EXCEPT !.st = "open"]
        \/ s = "host" /\ EndOf(so2) = [Pipe!NoEnd EXCEPT !.st = "gone", !.shut = "half"]
    <3>1. CASE so2.st = "open" /\ so2.shut = "no"
      BY <2>1, <3>1 DEF EndOf, Pipe!NoEnd
    <3>2. CASE s = "host" /\ so2.st = "freed" /\ so2.shut = "half"
      <4>1. EndOf(so2) = [st |-> "gone", shut |-> "half", put |-> 0, got |-> 0,
                          out |-> 0, took |-> 0]
        BY <2>1, <3>2 DEF EndOf
      <4>2. [Pipe!NoEnd EXCEPT !.st = "gone", !.shut = "half"]
              = [st |-> "gone", shut |-> "half", put |-> 0, got |-> 0, out |-> 0, took |-> 0]
        <5> DEFINE r == [Pipe!NoEnd EXCEPT !.st = "gone", !.shut = "half"]
        <5>1. r \in [st : {"gone"}, shut : {"half"}, put : {0}, got : {0}, out : {0}, took : {0}]
          BY DEF Pipe!NoEnd
        <5> HIDE DEF r
        <5>2. r = [st |-> "gone", shut |-> "half", put |-> 0, got |-> 0, out |-> 0, took |-> 0]
          BY <5>1
        <5> QED  BY <5>2 DEF r
      <4> QED  BY <3>2, <4>1, <4>2
    <3> QED  BY <2>1, <3>1, <3>2
  <2> QED  BY <2>2 DEF so2
<1>6. Pipe!Becomes(s, e)
  BY BecomesEnd
<1> HIDE DEF e
<1>7. Pipe!Open(s, e)
  BY <1>4, <1>5, <1>6 DEF Pipe!Open
<1> QED  BY <1>7, OneEnd DEF e

LEMMA AcceptPipe ==
  ASSUME MaxId = 1, FlowInv, PipeOK, NEW s \in Side, AcceptOpen(s)
  PROVE  PipeOK' /\ Moves
<1> DEFINE so == sock[s][1]
           ot == sock[Other(s)][1]
           a == chan[s]
           b == chan[Other(s)]
           p == chan[s][1]
           x == [create_local_socket EXCEPT !.peer = p.arg0]
           e == OpenEffect(1, p)
           up == link = "up"
<1>1. a # <<>>
  BY DEF AcceptOpen, TakePacket
<1>2. /\ Head(a) = p /\ Rest(s) \in [Side -> Seq(Packet)]
      /\ Rest(s)[s] = Tail(a) /\ Rest(s)[Other(s)] = b
  BY <1>1, RestFacts
<1>3. nextId[s] = 1
  BY PipeTypes DEF AcceptOpen, FlowInv
<1>4. /\ p.cmd = "OPEN" /\ Apply(s, 1, e, Rest(s)) /\ link' = link
      /\ nextId' = [nextId EXCEPT ![s] = @ + 1]
  BY <1>2, <1>3 DEF AcceptOpen
<1>5. /\ PipeBoth(so, ot, a, b, nextId[s], nextId[Other(s)], up)
      /\ PairOK(so, ot, a, b, up)
  BY PipeView DEF PipeSeen
<1>6. Ends2(so, ot, a, b) /\ a \in Seq(Packet) /\ b \in Seq(Packet)
  BY <1>5 DEF PairOK, Ends2
<1>7. Tail(a) \in Seq(Packet) /\ Dropped(a, Tail(a)) /\ p \in Packet
  BY <1>1, <1>6, TailFacts
<1>8. nextId'[s] = nextId[s] + 1 /\ nextId'[Other(s)] = nextId[Other(s)]
  BY <1>4, SideFacts DEF FlowInv, TypeOK
<1>9. /\ so.st = "none" /\ ot.st # "none" /\ Has(a, "OPEN")
      /\ ~Has(Tail(a), "OPEN") /\ ~Has(Tail(a), "CLSE") /\ ~Has(Tail(a), "WRTE")
  <2> HIDE DEF a, b, so, ot
  <2>1. 1 \in 1 .. Len(a) /\ a[1].cmd = "OPEN"
    BY <1>1, <1>4, <1>6 DEF a
  <2>2. Has(a, "OPEN")
    BY <2>1 DEF Has
  <2>3. so.st = "none" /\ ot.st # "none"
    BY <1>5, <2>2 DEF PipeBoth, PipeHalf, Begins
  <2>4. ~Has(a, "CLSE") /\ ~Has(a, "WRTE")
    BY <1>5, <2>3 DEF PipeBoth, PipeHalf, Begins, PairOK
  <2>5. Shifted(a, Tail(a))
    BY <1>1, <1>6, <1>7, Dropping
  <2>6. ~Has(Tail(a), "CLSE") /\ ~Has(Tail(a), "WRTE")
    BY <2>4, <2>5, HasShifted
  <2>7. \A n \in 1 .. Len(a) : Carries(a[n]) => n = 1
    BY <1>5, <2>1 DEF PairOK, Carries
  <2> QED  BY <2>2, <2>3, <2>5, <2>6, <2>7 DEF Has, Shifted, Carries
<1>10. /\ SocketOK(x) /\ x.st = "open" /\ x.q = <<>> /\ x.shut = "no"
       /\ x.src = 0 /\ x.got = 0 /\ x.out = 0 /\ x.took = 0
  <2>1. p.arg0 \in 0 .. MaxId
    BY <1>7 DEF Packet
  <2> HIDE DEF p
  <2> QED  BY <2>1, NoSocketType DEF create_local_socket, NoSocket, SocketOK, Socket
<1>11. e.so = Ready(x) /\ e.sent = <<OKAY(1, p.arg0)>>
  BY DEF OpenEffect, Effect
<1> HIDE DEF x, e
<1>12. /\ e.so.st = "open" /\ e.so.q = <<>> /\ e.so.shut = "no"
       /\ e.so.src = 0 /\ e.so.got = 0 /\ e.so.out = 0 /\ e.so.took = 0
  <2>1. ReadyFacts(x, e.so) /\ SameBytes(x, e.so)
    BY <1>10, <1>11, ReadyAny, ReadyBytes
  <2> QED  BY <1>10, <2>1 DEF ReadyFacts, SameBytes
<1>13. /\ sock'[s][1] = e.so /\ sock'[Other(s)][1] = ot
       /\ chan'[s] = Tail(a) /\ chan'[Other(s)] = Snd(b, e.sent, up)
  <2>1. /\ sock'[s][1] = e.so /\ sock'[Other(s)][1] = sock[Other(s)][1]
        /\ chan'[s] = Rest(s)[s]
        /\ chan'[Other(s)] = Snd(Rest(s)[Other(s)], e.sent, link = "up")
    BY <1>2, <1>4, PipeApply
  <2> QED  BY <1>2, <2>1
<1>14. PipeBoth(e.so, ot, Tail(a), Snd(b, e.sent, up), nextId[s] + 1, nextId[Other(s)], up)
  <2>1. up \in BOOLEAN /\ 1 \in 0 .. MaxId /\ p.arg0 \in 0 .. MaxId
    BY <1>7 DEF Packet
  <2> HIDE DEF so, ot, a, b, p, up
  <2>2. Answered(b, Snd(b, e.sent, up), up)
    BY <1>6, <1>11, <2>1, OkaySent
  <2>3. New(e.so)
    BY <1>12 DEF New
  <2> QED  BY <1>5, <1>6, <1>9, <1>12, <2>2, <2>3, PipeAccept
<1>15. PipeOK'
  BY <1>4, <1>8, <1>9, <1>12, <1>13, <1>14, PipeFrom
<1>16. Pipe!Next
  <2>1. /\ sock'[Other(s)][1] = sock[Other(s)][1] /\ e.so = sock'[s][1]
        /\ sock[s][1].st = "none" /\ sock[Other(s)][1].st # "none"
    BY <1>9, <1>13
  <2> HIDE DEF so, ot
  <2> QED  BY <1>4, <1>12, <2>1, PipeOpens
<1> QED  BY <1>15, <1>16 DEF Moves

LEMMA ConnectPipe ==
  ASSUME MaxId = 1, Openers \subseteq {"host"}, FlowInv, PipeOK,
         NEW s \in Side, NEW smart \in BOOLEAN, NEW early \in BOOLEAN, Connect(s, smart, early)
  PROVE  PipeOK' /\ Moves
<1> DEFINE so == sock[s][1]
           ot == sock[Other(s)][1]
           a == chan[s]
           b == chan[Other(s)]
           x == [create_local_socket EXCEPT !.hook = smart,
                                            !.shut = IF early THEN "half" ELSE "no"]
           e == IF early THEN Close(x) ELSE Effect(x, <<>>, 0)
           e2 == Effect(e.so, <<OPEN(1)>> \o e.sent, 0)
           up == link = "up"
<1>1. nextId[s] = 1 /\ s = "host"
  BY PipeTypes DEF Connect, FlowInv
<1>2. /\ Apply(s, 1, e2, chan) /\ link' = link /\ nextId' = [nextId EXCEPT ![s] = 2]
  BY <1>1 DEF Connect
<1>3. /\ PipeBoth(so, ot, a, b, nextId[s], nextId[Other(s)], up)
      /\ PairOK(so, ot, a, b, up)
  BY PipeView DEF PipeSeen
<1>4. /\ Ends2(so, ot, a, b) /\ b \in Seq(Packet) /\ chan \in [Side -> Seq(Packet)]
      /\ nextId'[s] = nextId[s] + 1 /\ nextId'[Other(s)] = nextId[Other(s)]
  BY <1>1, <1>2, <1>3, SideFacts DEF PairOK, Ends2, FlowInv, TypeOK
<1>5. so.st = "none" /\ ot.st = "none"
  <2>1. Given(sock[s], sock[Other(s)], a, 1, nextId[Other(s)])
    BY <1>1, SideGood DEF Good, Streams, Half
  <2>2. so.st = "none"
    BY <2>1, PipeTypes DEF Given, FlowInv
  <2> QED  BY <1>1, <2>2 DEF PipeOK, HostFirst, Other
<1>6. /\ SocketOK(x) /\ x.st = "open" /\ x.peer = 0 /\ x.q = <<>>
      /\ x.shut = IF early THEN "half" ELSE "no"
      /\ x.src = 0 /\ x.got = 0 /\ x.out = 0 /\ x.took = 0
  BY NoSocketType DEF create_local_socket, NoSocket, SocketOK, Socket
<1> HIDE DEF x
<1>7. /\ e.so.src = 0 /\ e.so.got = 0 /\ e.so.out = 0 /\ e.so.took = 0 /\ e.so.q = <<>>
      /\ \/ e.so.st = "open" /\ e.so.shut = "no"
         \/ e.so.st = "freed" /\ e.so.shut = "half"
      /\ e.sent = <<>>
  <2>1. CASE early
    <3> DEFINE c == Close(x)
    <3>1. CloseFacts(x, c) /\ Ended(x, c.so)
      BY <1>6, CloseAny, CloseBytes
    <3>2. e = c
      BY <2>1
    <3> HIDE DEF c, e
    <3> QED  BY <1>6, <2>1, <3>1, <3>2 DEF CloseFacts, Ended, SameBytes, remote_socket_close
  <2>2. CASE ~early
    <3>1. e.so = x /\ e.sent = <<>>
      BY <2>2 DEF Effect
    <3> HIDE DEF e
    <3> QED  BY <1>6, <2>2, <3>1
  <2> QED  BY <2>1, <2>2
<1> HIDE DEF e
<1>8. OPEN(1) \in Packet /\ OPEN(1).cmd = "OPEN"
  <2>1. 1 \in 0 .. MaxId
    OBVIOUS
  <2> QED  BY <2>1, PacketTypes DEF OPEN, Pkt
<1>9. e2.so = e.so /\ e2.sent = <<OPEN(1)>>
  <2>1. <<OPEN(1)>> \o <<>> = <<OPEN(1)>>
    BY <1>8, ConcatEmptySeq
  <2> QED  BY <1>7, <2>1 DEF Effect
<1> HIDE DEF e2
<1>10. /\ sock'[s][1] = e.so /\ sock'[Other(s)][1] = ot
       /\ chan'[s] = a /\ chan'[Other(s)] = Snd(b, <<OPEN(1)>>, up)
  <2>1. /\ sock'[s][1] = e2.so /\ sock'[Other(s)][1] = sock[Other(s)][1]
        /\ chan'[s] = chan[s] /\ chan'[Other(s)] = Snd(chan[Other(s)], e2.sent, link = "up")
    BY <1>2, <1>4, PipeApply
  <2> QED  BY <1>9, <2>1
<1>11. PipeBoth(e.so, ot, a, Snd(b, <<OPEN(1)>>, up), nextId[s] + 1, nextId[Other(s)], up)
  <2>1. up \in BOOLEAN
    OBVIOUS
  <2> DEFINE p == OPEN(1)
  <2> HIDE DEF so, ot, a, b, up, p
  <2>2. p \in Packet /\ p.cmd = "OPEN"
    BY <1>8 DEF p
  <2>3. Extended(b, Snd(b, <<p>>, up), p, up)
    BY <1>4, <2>1, <2>2, SndFacts
  <2>4. New(e.so)
    BY <1>7 DEF New
  <2>5. PipeBoth(e.so, ot, a, Snd(b, <<p>>, up), nextId[s] + 1, nextId[Other(s)], up)
    BY <1>3, <1>4, <1>5, <2>2, <2>3, <2>4, PipeConnect
  <2> QED  BY <2>5 DEF p
<1>12. PipeOK'
  BY <1>1, <1>2, <1>4, <1>5, <1>7, <1>10, <1>11, PipeFrom
<1>13. Pipe!Next
  <2>1. sock'[Other(s)][1] = sock[Other(s)][1] /\ e.so = sock'[s][1] /\ sock[s][1].st = "none"
    BY <1>5, <1>10
  <2> HIDE DEF so, ot
  <2> QED  BY <1>1, <1>2, <1>7, <2>1, PipeOpens
<1> QED  BY <1>12, <1>13 DEF Moves

LEMMA ProcessPipe ==
  ASSUME MaxId = 1, FlowInv, PipeOK, NEW s \in Side, fdevent_process(s)
  PROVE  PipeOK' /\ Moves
<1> DEFINE so == sock[s][1]
           ot == sock[Other(s)][1]
           ev == ReadyEvents(so)
           so2 == [so EXCEPT !.pend = ev]
           up == link = "up"
<1>1. /\ UNCHANGED <<nextId, chan, link>>
      /\ sock'[s][1] = so2 /\ sock'[Other(s)][1] = ot
  BY PipeTypes, SideFacts DEF fdevent_process, FlowInv, TypeOK
<1>2. /\ PipeBoth(so, ot, chan[s], chan[Other(s)], nextId[s], nextId[Other(s)], up)
      /\ PairOK(so, ot, chan[s], chan[Other(s)], up)
  BY PipeView DEF PipeSeen
<1>3. Ends2(so, ot, chan[s], chan[Other(s)]) /\ SocketOK(so) /\ Shape(so)
  BY <1>2 DEF PairOK, Ends2
<1>4. ev \subseteq so.want
  BY DEF ReadyEvents
<1> HIDE DEF so, ot, ev
<1>5. /\ SameBytes(so, so2) /\ so2.st = so.st /\ so2.q = so.q /\ so2.pend = ev
  BY <1>3, <1>4 DEF SocketOK, Socket, SameBytes
<1> HIDE DEF so2
<1>6. so.out <= Room(so) /\ so.out <= Expected(so)
  BY <1>2 DEF PipeBoth, PipeHalf, Delivered
<1>7. Quiet(so, so2)
  BY <1>3, <1>4, <1>5, <1>6 DEF Quiet, SameBytes, Expected, Room, Shape
<1>8. PipeBoth(so2, ot, chan[s], chan[Other(s)], nextId[s], nextId[Other(s)], up)
  <2>1. Answered(chan[Other(s)], chan[Other(s)], up)
    BY DEF Answered
  <2> HIDE DEF up
  <2> QED  BY <1>2, <1>3, <1>7, <2>1, PipeQuiet
<1>9. PipeOK'
  BY <1>1, <1>5, <1>8, PipeFrom DEF so, ot
<1>10. UNCHANGED Pipe!vars
  <2>1. EndOf(so2) = EndOf(so)
    BY <1>5 DEF EndOf, SameBytes
  <2>2. \A r \in Side : r = s \/ r = Other(s)
    BY DEF Side, Other
  <2>3. ASSUME NEW r \in Side PROVE EndOf(sock'[r][1]) = EndOf(sock[r][1])
    BY <1>1, <2>1, <2>2 DEF so, ot
  <2> QED  BY <1>1, <2>3, StillStep
<1> QED  BY <1>9, <1>10 DEF Moves

\* What the client of side s does is a step of the pipe's client.
LEMMA ClientStep ==
  ASSUME NEW s \in Side, sock'[Other(s)][1] = sock[Other(s)][1], link' = link,
         SocketOK(sock[s][1]), HasClient(sock[s][1]), NEW e,
         e = EndOf(sock'[s][1]),
         \/ sock[s][1].shut = "no" /\ e = [EndOf(sock[s][1]) EXCEPT !.put = @ + 1]
         \/ e = [EndOf(sock[s][1]) EXCEPT !.took = sock[s][1].out]
         \/ \E how \in {"half", "full"} : e = [EndOf(sock[s][1]) EXCEPT !.shut = how]
  PROVE  Pipe!Next
<1> DEFINE so == sock[s][1]
           ends == [r \in Side |-> EndOf(sock[r][1])]
<1>1. ends[s] = EndOf(so) /\ Pipe!Becomes(s, e)
  BY BecomesEnd
<1>2. /\ EndOf(so).st = "open" /\ EndOf(so).shut = so.shut /\ so.shut # "full"
      /\ EndOf(so).out = so.out
  BY DEF EndOf, HasClient
<1>3. /\ ends[s].st = "open" /\ ends[s].shut # "full"
      /\ \/ ends[s].shut = "no" /\ e = [ends[s] EXCEPT !.put = @ + 1]
         \/ e = [ends[s] EXCEPT !.took = ends[s].out]
         \/ \E how \in {"half", "full"} : e = [ends[s] EXCEPT !.shut = how]
  <2> HIDE DEF ends
  <2> QED  BY <1>1, <1>2
<1>4. Pipe!Client(s, e)
  BY <1>1, <1>3 DEF Pipe!Client
<1> QED  BY <1>4, OneEnd

\* The record of an end, and the three ways its client changes it.
LEMMA EndsOfClient ==
  ASSUME NEW so, SocketOK(so)
  PROVE  /\ EndOf([so EXCEPT !.src = @ + 1]) = [EndOf(so) EXCEPT !.put = @ + 1]
         /\ EndOf([so EXCEPT !.took = so.out]) = [EndOf(so) EXCEPT !.took = so.out]
         /\ \A how \in {"half", "full"} :
              EndOf([so EXCEPT !.shut = how]) = [EndOf(so) EXCEPT !.shut = how]
<1> DEFINE R == [st : {"none", "open", "gone"}, shut : {"no", "half", "full"},
                 put : Nat, got : Nat, out : Nat, took : Nat]
<1>1. /\ so.src \in Nat /\ so.got \in Nat /\ so.out \in Nat /\ so.took \in Nat
      /\ so.shut \in {"no", "half", "full"}
  BY DEF SocketOK, Socket
<1>2. \A x, y \in R :
        (/\ x.st = y.st /\ x.shut = y.shut /\ x.put = y.put
         /\ x.got = y.got /\ x.out = y.out /\ x.took = y.took) => x = y
  OBVIOUS
<1>3. \A x : x.src \in Nat /\ x.got \in Nat /\ x.out \in Nat /\ x.took \in Nat
             /\ x.shut \in {"no", "half", "full"}
               => /\ EndOf(x) \in R
                  /\ EndOf(x).shut = x.shut /\ EndOf(x).put = x.src /\ EndOf(x).got = x.got
                  /\ EndOf(x).out = x.out /\ EndOf(x).took = x.took
  BY DEF EndOf
<1>4. \A x, y : x.st = y.st => EndOf(x).st = EndOf(y).st
  BY DEF EndOf
<1> DEFINE e == EndOf(so)
<1>5. /\ e \in R /\ e.shut = so.shut /\ e.put = so.src /\ e.got = so.got
      /\ e.out = so.out /\ e.took = so.took
  BY <1>1, <1>3
<1>6. EndOf([so EXCEPT !.src = @ + 1]) = [e EXCEPT !.put = @ + 1]
  <2> DEFINE x == [so EXCEPT !.src = @ + 1]
             f == [e EXCEPT !.put = @ + 1]
  <2>1. /\ x.src = so.src + 1 /\ x.got = so.got /\ x.out = so.out /\ x.took = so.took
        /\ x.shut = so.shut /\ x.st = so.st
    BY DEF SocketOK, Socket
  <2> HIDE DEF e, x
  <2>2. /\ f \in R /\ f.st = e.st /\ f.shut = e.shut /\ f.put = e.put + 1
        /\ f.got = e.got /\ f.out = e.out /\ f.took = e.took
    BY <1>1, <1>5
  <2>3. EndOf(x) \in R /\ EndOf(x).st = e.st
    BY <1>1, <1>3, <1>4, <2>1 DEF e
  <2> HIDE DEF f, R
  <2>4. /\ EndOf(x).shut = f.shut /\ EndOf(x).put = f.put /\ EndOf(x).got = f.got
        /\ EndOf(x).out = f.out /\ EndOf(x).took = f.took
    BY <1>1, <1>3, <1>5, <2>1, <2>2
  <2>5. EndOf(x) = f
    BY <1>2, <2>2, <2>3, <2>4
  <2> QED  BY <2>5 DEF x, f
<1>7. EndOf([so EXCEPT !.took = so.out]) = [e EXCEPT !.took = so.out]
  <2> DEFINE x == [so EXCEPT !.took = so.out]
             f == [e EXCEPT !.took = so.out]
  <2>1. /\ x.src = so.src /\ x.got = so.got /\ x.out = so.out /\ x.took = so.out
        /\ x.shut = so.shut /\ x.st = so.st
    BY DEF SocketOK, Socket
  <2> HIDE DEF e, x
  <2>2. /\ f \in R /\ f.st = e.st /\ f.shut = e.shut /\ f.put = e.put
        /\ f.got = e.got /\ f.out = e.out /\ f.took = so.out
    BY <1>1, <1>5
  <2>3. EndOf(x) \in R /\ EndOf(x).st = e.st
    BY <1>1, <1>3, <1>4, <2>1 DEF e
  <2> HIDE DEF f, R
  <2>4. /\ EndOf(x).shut = f.shut /\ EndOf(x).put = f.put /\ EndOf(x).got = f.got
        /\ EndOf(x).out = f.out /\ EndOf(x).took = f.took
    BY <1>1, <1>3, <1>5, <2>1, <2>2
  <2>5. EndOf(x) = f
    BY <1>2, <2>2, <2>3, <2>4
  <2> QED  BY <2>5 DEF x, f
<1>8. ASSUME NEW how \in {"half", "full"}
      PROVE  EndOf([so EXCEPT !.shut = how]) = [e EXCEPT !.shut = how]
  <2> DEFINE x == [so EXCEPT !.shut = how]
             f == [e EXCEPT !.shut = how]
  <2>1. /\ x.src = so.src /\ x.got = so.got /\ x.out = so.out /\ x.took = so.took
        /\ x.shut = how /\ x.st = so.st
    BY DEF SocketOK, Socket
  <2> HIDE DEF e, x
  <2>2. /\ f \in R /\ f.st = e.st /\ f.shut = how /\ f.put = e.put
        /\ f.got = e.got /\ f.out = e.out /\ f.took = e.took
    BY <1>1, <1>5
  <2>3. EndOf(x) \in R /\ EndOf(x).st = e.st
    BY <1>1, <1>3, <1>4, <2>1 DEF e
  <2> HIDE DEF f, R
  <2>4. /\ EndOf(x).shut = f.shut /\ EndOf(x).put = f.put /\ EndOf(x).got = f.got
        /\ EndOf(x).out = f.out /\ EndOf(x).took = f.took
    BY <1>1, <1>3, <1>5, <2>1, <2>2
  <2>5. EndOf(x) = f
    BY <1>2, <2>2, <2>3, <2>4
  <2> QED  BY <2>5 DEF x, f
<1> QED  BY <1>6, <1>7, <1>8

\* The client of side s writes, reads or ends its connection.
LEMMA ClientPipe ==
  ASSUME MaxId = 1, FlowInv, PipeOK, NEW s \in Side, NEW so2,
         Client(s, 1, so2), HasClient(sock[s][1]),
         \/ sock[s][1].shut = "no" /\ so2 = [sock[s][1] EXCEPT !.src = @ + 1]
         \/ so2 = [sock[s][1] EXCEPT !.took = sock[s][1].out]
         \/ \E how \in {"half", "full"} : so2 = [sock[s][1] EXCEPT !.shut = how]
  PROVE  PipeOK' /\ Moves
<1> DEFINE so == sock[s][1]
           ot == sock[Other(s)][1]
           up == link = "up"
<1>1. /\ UNCHANGED <<nextId, chan, link>>
      /\ sock'[s][1] = so2 /\ sock'[Other(s)][1] = ot
  BY PipeTypes, SideFacts DEF Client, FlowInv, TypeOK
<1>2. /\ PipeBoth(so, ot, chan[s], chan[Other(s)], nextId[s], nextId[Other(s)], up)
      /\ PairOK(so, ot, chan[s], chan[Other(s)], up)
  BY PipeView DEF PipeSeen
<1>3. Ends2(so, ot, chan[s], chan[Other(s)]) /\ SocketOK(so)
  BY <1>2 DEF PairOK, Ends2
<1>4. /\ so.out <= Room(so) /\ so.out <= Expected(so) /\ so.out \in Nat
  BY <1>2, <1>3, NumbersOf DEF PipeBoth, PipeHalf, Delivered
<1>5. \/ so.shut = "no" /\ so2 = [so EXCEPT !.src = @ + 1]
      \/ so2 = [so EXCEPT !.took = so.out]
      \/ \E how \in {"half", "full"} : so2 = [so EXCEPT !.shut = how]
  OBVIOUS
<1>6. so.st \in {"open", "closing"}
  BY DEF HasClient
<1> HIDE DEF so, ot
<1>7. /\ so2.st = so.st /\ so2.got = so.got /\ so2.out = so.out /\ so2.q = so.q
      /\ so2.pend = so.pend
      /\ so2.took = so.took \/ so2.took = so.out
      /\ so2.shut = so.shut \/ so2.shut # "no"
  BY <1>3, <1>5 DEF SocketOK, Socket
<1>8. Quiet(so, so2)
  BY <1>4, <1>6, <1>7, FdCapAssumption DEF Quiet, Expected, Room
<1>9. PipeBoth(so2, ot, chan[s], chan[Other(s)], nextId[s], nextId[Other(s)], up)
  <2>1. Answered(chan[Other(s)], chan[Other(s)], up)
    BY DEF Answered
  <2> HIDE DEF up
  <2> QED  BY <1>2, <1>3, <1>8, <2>1, PipeQuiet
<1>10. PipeOK'
  BY <1>1, <1>6, <1>7, <1>9, PipeFrom DEF so, ot
<1>11. Pipe!Next
  <2>1. \/ so.shut = "no" /\ EndOf(so2) = [EndOf(so) EXCEPT !.put = @ + 1]
        \/ EndOf(so2) = [EndOf(so) EXCEPT !.took = so.out]
        \/ \E how \in {"half", "full"} : EndOf(so2) = [EndOf(so) EXCEPT !.shut = how]
    <3>1. CASE so.shut = "no" /\ so2 = [so EXCEPT !.src = @ + 1]
      BY <1>3, <3>1, EndsOfClient
    <3>2. CASE so2 = [so EXCEPT !.took = so.out]
      BY <1>3, <3>2, EndsOfClient
    <3>3. ASSUME NEW how \in {"half", "full"}, so2 = [so EXCEPT !.shut = how]
          PROVE  EndOf(so2) = [EndOf(so) EXCEPT !.shut = how]
      BY <1>3, <3>3, EndsOfClient
    <3> QED  BY <1>5, <3>1, <3>2, <3>3
  <2> DEFINE e == EndOf(so2)
  <2>2. e = EndOf(sock'[s][1])
    BY <1>1
  <2>3. \/ sock[s][1].shut = "no" /\ e = [EndOf(sock[s][1]) EXCEPT !.put = @ + 1]
        \/ e = [EndOf(sock[s][1]) EXCEPT !.took = sock[s][1].out]
        \/ \E how \in {"half", "full"} : e = [EndOf(sock[s][1]) EXCEPT !.shut = how]
    BY <2>1 DEF so
  <2> HIDE DEF e
  <2> QED  BY <1>1, <1>3, <2>2, <2>3, ClientStep DEF so, ot
<1> QED  BY <1>10, <1>11 DEF Moves

LEMMA ClientsPipe ==
  ASSUME MaxId = 1, FlowInv, PipeOK, NEW s \in Side, NEW i \in Id,
         \/ ClientWrite(s, i)
         \/ ClientRead(s, i)
         \/ \E how \in Shuts : ClientShut(s, i, how)
  PROVE  PipeOK' /\ Moves
<1> DEFINE so == sock[s][1]
<1>1. i = 1
  BY PipeTypes DEF FlowInv
<1>2. CASE ClientWrite(s, i)
  <2> DEFINE so2 == [so EXCEPT !.src = @ + 1]
  <2>1. HasClient(so) /\ so.shut = "no" /\ Client(s, 1, so2)
    BY <1>1, <1>2 DEF ClientWrite
  <2>2. so2 = [sock[s][1] EXCEPT !.src = @ + 1]
    OBVIOUS
  <2> HIDE DEF so2
  <2> QED  BY <2>1, <2>2, ClientPipe
<1>3. CASE ClientRead(s, i)
  <2> DEFINE so2 == [so EXCEPT !.took = so.out]
  <2>1. HasClient(so) /\ Client(s, 1, so2)
    BY <1>1, <1>3 DEF ClientRead
  <2>2. so2 = [sock[s][1] EXCEPT !.took = sock[s][1].out]
    OBVIOUS
  <2> HIDE DEF so2
  <2> QED  BY <2>1, <2>2, ClientPipe
<1>4. ASSUME NEW how \in Shuts, ClientShut(s, i, how) PROVE PipeOK' /\ Moves
  <2> DEFINE so2 == [so EXCEPT !.shut = how]
  <2>1. HasClient(so) /\ Client(s, 1, so2)
    BY <1>1, <1>4 DEF ClientShut
  <2>2. how \in {"half", "full"} /\ so2 = [sock[s][1] EXCEPT !.shut = how]
    BY ShutsAssumption
  <2> HIDE DEF so2
  <2> QED  BY <2>1, <2>2, ClientPipe
<1> QED  BY <1>2, <1>3, <1>4

\* The link is down and side s closes its socket, or leaves it alone.
LEMMA DownPipe ==
  ASSUME MaxId = 1, FlowInv, TypeOK', PipeOK, NEW s \in Side, link = "down",
         UNCHANGED <<nextId, chan, link>>, sock'[Other(s)][1] = sock[Other(s)][1],
         \/ sock'[s][1] = sock[s][1]
         \/ sock[s][1].st = "open" /\ Ended(sock[s][1], sock'[s][1])
  PROVE  PipeOK' /\ Moves
<1> DEFINE so == sock[s][1]
           ot == sock[Other(s)][1]
<1>1. /\ PipeBoth(so, ot, chan[s], chan[Other(s)], nextId[s], nextId[Other(s)], FALSE)
      /\ PairOK(so, ot, chan[s], chan[Other(s)], FALSE)
  <2>1. (link = "up") = FALSE
    OBVIOUS
  <2> QED  BY <2>1, PipeView DEF PipeSeen
<1>2. Ends2(so, ot, chan[s], chan[Other(s)]) /\ SocketOK(so) /\ SocketOK(ot)
  BY <1>1 DEF PairOK, Ends2
<1>3. CASE sock'[s][1] = so
  <2>1. PipeBoth(sock'[s][1], ot, chan'[s], chan'[Other(s)],
                 nextId'[s], nextId[Other(s)], link' = "up")
    BY <1>3, PipeView DEF PipeSeen
  <2>2. PipeOK'
    BY <1>3, <2>1, PipeFrom
  <2>3. \A r \in Side : r = s \/ r = Other(s)
    BY DEF Side, Other
  <2>4. UNCHANGED Pipe!vars
    BY <1>3, <2>3, StillStep
  <2> QED  BY <2>2, <2>4 DEF Moves
<1>4. CASE so.st = "open" /\ Ended(so, sock'[s][1])
  <2> DEFINE so2 == sock'[s][1]
  <2>1. /\ PipeBoth(so2, ot, chan[s], chan[Other(s)], nextId[s], nextId[Other(s)], FALSE)
        /\ Gives(so, so2, ot, FALSE)
    <3>1. Ended(so, so2) /\ so.st \in {"open", "closing"}
      BY <1>4
    <3> HIDE DEF so, so2, ot
    <3> QED  BY <1>1, <1>2, <3>1, PipeClose
  <2>2. (link = "up") = FALSE /\ (link' = "up") = FALSE
    OBVIOUS
  <2>3. SocketOK(so2)
    BY PipeTypes DEF FlowInv, TypeOK, SocketOK
  <2>4. so.st # "none" /\ so2.st # "none"
    BY <2>1 DEF Gives
  <2>5. PipeOK'
    <3>1. PipeBoth(sock'[s][1], sock[Other(s)][1], chan'[s], chan'[Other(s)],
                   nextId'[s], nextId[Other(s)], link' = "up")
      BY <2>1, <2>2
    <3> QED  BY <2>4, <3>1, PipeFrom
  <2>6. Pipe!Next
    <3>1. Gives(sock[s][1], sock'[s][1], sock[Other(s)][1], link = "up")
      BY <2>1, <2>2
    <3> QED  BY <1>2, <2>3, <3>1, AdbStep
  <2> QED  BY <2>5, <2>6 DEF Moves
<1> QED  BY <1>3, <1>4

LEMMA OfflinePipe ==
  ASSUME MaxId = 1, FlowInv, TypeOK', PipeOK, NEW s \in Side, HandleOffline(s)
  PROVE  PipeOK' /\ Moves
<1> DEFINE so == sock[s][1]
           alone == [so EXCEPT !.peer = 0]
           c == Close(alone)
<1>1. /\ UNCHANGED <<nextId, chan, link>> /\ link = "down"
      /\ sock'[s][1] = Disconnected(so) /\ sock'[Other(s)][1] = sock[Other(s)][1]
  BY PipeTypes, SideFacts DEF HandleOffline, FlowInv, TypeOK
<1>2. SocketOK(so)
  BY PipeTypes DEF FlowInv
<1>3. Disconnected(so) = IF so.st = "open" /\ so.peer # 0 THEN c.so ELSE so
  BY DEF Disconnected
<1>4. Ended(so, c.so)
  <2> HIDE DEF so
  <2>1. /\ SocketOK(alone) /\ alone.q = so.q /\ alone.st = so.st /\ alone.pend = so.pend
        /\ SameBytes(so, alone)
    BY <1>2, MaxIdAssumption DEF SocketOK, Socket, SameBytes
  <2> HIDE DEF alone
  <2>2. Ended(alone, c.so)
    BY <2>1, CloseBytes
  <2> HIDE DEF c
  <2> QED  BY <2>1, <2>2 DEF Ended, SameBytes
<1> HIDE DEF c
<1> QED  BY <1>1, <1>3, <1>4, DownPipe

LEMMA SweepPipe ==
  ASSUME MaxId = 1, FlowInv, TypeOK', PipeOK, NEW s \in Side, CloseAllSockets(s)
  PROVE  PipeOK' /\ Moves
<1> DEFINE so == sock[s][1]
           c == local_socket_close_locked(so)
<1>1. /\ UNCHANGED <<nextId, chan, link>> /\ tstate[s] = "offline"
      /\ sock'[s][1] = (IF so.st = "open" THEN c.so ELSE so)
      /\ sock'[Other(s)][1] = sock[Other(s)][1]
  BY PipeTypes, SideFacts DEF CloseAllSockets, FlowInv, TypeOK
<1>2. link = "down"
  BY <1>1 DEF FlowInv, OfflineOK
<1>3. SocketOK(so)
  BY PipeTypes DEF FlowInv
<1>4. Ended(so, c.so)
  BY <1>3, LockedBytes
<1> HIDE DEF c
<1> QED  BY <1>1, <1>2, <1>4, DownPipe

LEMMA BreakPipe ==
  ASSUME MaxId = 1, FlowInv, PipeOK, BreakLink
  PROVE  PipeOK' /\ Moves
<1>1. PICK h \in 0 .. Len(chan["host"]), d \in 0 .. Len(chan["device"]) :
        chan' = [s \in Side |-> SubSeq(chan[s], 1, IF s = "host" THEN h ELSE d)]
  BY DEF BreakLink
<1>2. /\ UNCHANGED <<sock, nextId>> /\ link = "up" /\ link' = "down"
  BY DEF BreakLink
<1>3. /\ chan'["host"] = SubSeq(chan["host"], 1, h)
      /\ chan'["device"] = SubSeq(chan["device"], 1, d)
      /\ chan["host"] \in Seq(Packet) /\ chan["device"] \in Seq(Packet)
      /\ Other("host") = "device"
  BY <1>1 DEF Side, Other, FlowInv, TypeOK
<1>4. \A c \in Seq(Packet) : \A n \in 0 .. Len(c) : Cut(c, SubSeq(c, 1, n))
  <2> SUFFICES ASSUME NEW c \in Seq(Packet), NEW n \in 0 .. Len(c)
               PROVE  Cut(c, SubSeq(c, 1, n))
    OBVIOUS
  <2>1. Len(SubSeq(c, 1, n)) = n /\ \A k \in 1 .. n : SubSeq(c, 1, n)[k] = c[k]
    OBVIOUS
  <2>2. Len(c) \in Nat
    OBVIOUS
  <2> QED  BY <2>1, <2>2 DEF Cut
<1> DEFINE a == chan["host"]
           b == chan["device"]
           a2 == chan'["host"]
           b2 == chan'["device"]
<1>5. Cut(a, a2) /\ Cut(b, b2)
  BY <1>1, <1>3, <1>4
<1> DEFINE up == link = "up"
<1>6. PipeBoth(sock["host"][1], sock["device"][1], chan["host"], chan["device"],
               nextId["host"], nextId["device"], up)
  BY <1>3 DEF PipeOK, PipeSeen
<1>7. PipeBoth(sock["host"][1], sock["device"][1], a2, b2,
               nextId["host"], nextId["device"], FALSE)
  <2> HIDE DEF a2, b2
  <2>1. PipeBoth(sock["host"][1], sock["device"][1], a, b,
                 nextId["host"], nextId["device"], up)
    BY <1>6
  <2> HIDE DEF a, b, up
  <2> QED  BY <1>5, <2>1, PipeBreak
<1>8. PipeOK'
  <2>1. (link' = "up") = FALSE
    BY <1>2
  <2> QED  BY <1>2, <1>3, <1>7, <2>1 DEF PipeOK, PipeSeen, HostFirst
<1>9. Pipe!Next
  BY <1>2 DEF Pipe!Next, Pipe!Break
<1> QED  BY <1>8, <1>9 DEF Moves

LEMMA InitPipe ==
  ASSUME MaxId = 1, Init
  PROVE  PipeOK /\ Pipe!Init
<1>1. /\ sock["host"][1] = NoSocket /\ sock["device"][1] = NoSocket
      /\ chan["host"] = <<>> /\ chan["device"] = <<>> /\ Other("host") = "device"
      /\ nextId["host"] = 1 /\ nextId["device"] = 1 /\ link = "up"
  BY DEF Init, Side, Other, Id
<1>2. /\ NoSocket.st = "none" /\ NoSocket.got = 0 /\ NoSocket.out = 0 /\ NoSocket.shut = "no"
      /\ NoSocket.q = <<>> /\ NoSocket.src = 0 /\ NoSocket.took = 0
  BY DEF NoSocket
<1>3. \A n : n \notin 1 .. Len(<<>>)
  OBVIOUS
<1>4. PipeHalf(NoSocket, NoSocket, <<>>, <<>>, 1, TRUE)
  <2>1. Delivered(NoSocket, NoSocket, <<>>)
    BY <1>2, <1>3, FdCapAssumption DEF Delivered, Expected, Room
  <2>2. Begins(NoSocket, NoSocket, <<>>, <<>>, 1)
    BY <1>2, <1>3 DEF Begins, Has
  <2>3. Farewell(NoSocket, NoSocket, <<>>)
    BY <1>2, <1>3 DEF Farewell, Closed, Has
  <2> QED  BY <2>1, <2>2, <2>3 DEF PipeHalf
<1>5. PipeOK
  <2>1. (link = "up") = TRUE
    BY <1>1
  <2> QED  BY <1>1, <1>2, <1>4, <2>1 DEF PipeOK, PipeSeen, PipeBoth, HostFirst
<1>6. Pipe!Init
  <2>1. EndOf(NoSocket) = Pipe!NoEnd
    BY <1>2 DEF EndOf, Pipe!NoEnd
  <2>2. [s \in Side |-> EndOf(sock[s][1])] = [s \in Side |-> Pipe!NoEnd]
    BY <1>1, <2>1 DEF Side
  <2>3. Pipe!Side = Side
    BY DEF Pipe!Side, Side
  <2> QED  BY <1>1, <2>2, <2>3 DEF Pipe!Init
<1> QED  BY <1>5, <1>6

LEMMA PipeStep ==
  ASSUME MaxId = 1, Openers \subseteq {"host"}, FlowInv, TypeOK', PipeOK, [Next]_vars
  PROVE  PipeOK' /\ Moves
<1>1. ASSUME NEW s \in Side, Loop(s) PROVE PipeOK' /\ Moves
  BY <1>1, ProcessPipe, SocketEventPipe, AcceptPipe, RefusePipe, StreamPipeStep, StalePipe,
     OfflinePipe DEF Loop
<1>2. CASE Environment
  BY <1>2, ClientsPipe, BreakPipe DEF Environment
<1>3. CASE Next
  BY <1>1, <1>2, <1>3, ConnectPipe, SweepPipe DEF Next
<1>4. CASE UNCHANGED vars
  <2>1. UNCHANGED <<sock, nextId, chan, link>>
    BY <1>4 DEF vars
  <2>2. PipeOK'
    BY <2>1 DEF PipeOK, PipeSeen, HostFirst
  <2>3. UNCHANGED Pipe!vars
    BY <2>1, StillStep
  <2> QED  BY <2>2, <2>3 DEF Moves
<1> QED  BY <1>3, <1>4

\* AdbStreams implements StreamPipe, for one stream that a client of the host
\* opens, any number of bytes, any payload and buffer sizes, with or without a
\* link that breaks: what the two clients see of local_socket_event_func,
\* handle_packet and the closing lists is two byte pipes, closed only for a
\* reason and, unless a client or the link gave up, after all was delivered.
THEOREM StreamIsPipe ==
  ASSUME MaxId = 1, Openers \subseteq {"host"}
  PROVE  Spec => IsPipe
<1>1. Init => PipeOK /\ Pipe!Init
  BY InitPipe
<1>2. FlowInv /\ TypeOK' /\ PipeOK /\ [Next]_vars => PipeOK' /\ [Pipe!Next]_(Pipe!vars)
  BY PipeStep DEF Moves
<1> QED  BY <1>1, <1>2, FlowInvariant, TypeCorrect, PTL DEF Spec, IsPipe, Pipe!Spec
=============================================================================
