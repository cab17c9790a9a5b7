---------------------------- MODULE UsbHandleProofs ----------------------------
(***************************************************************************)
(* Proofs about UsbHandle, for every number of queued packets.             *)
(***************************************************************************)
EXTENDS UsbHandle, TLAPS

USE MaxQueueAssumption

ReaderLabel == ThreadLabel \union {"enter", "reap", "reaped"}
WriterLabel == ThreadLabel \union {"wait"}
PollLabel == {"scan", "register", "lock", "devices", "noperm", "unregister", "unlock"}

HandleType == [listed : BOOLEAN, freed : BOOLEAN, dead : BOOLEAN, busy : BOOLEAN,
               reaper : BOOLEAN, mark : BOOLEAN]
TransType == [st : {"none", "pending", "up"}, kicked : BOOLEAN, ref : 0 .. 2]
NopermType == [plugged : BOOLEAN, mark : BOOLEAN, listed : BOOLEAN]

\* TypeOK, with the domain of pc.
Types ==
  /\ pc \in [Thread -> ReaderLabel \union WriterLabel \union PollLabel]
  /\ TypeOK

\* A thread that the transport's count does not cover: it has not started, it has
\* ended, or it was the last one and is closing the handle.
Gone(l) == l \in {"none", "done"}
Closing(l) == l \in {"close", "free"}
Counted(l) == ~Gone(l) /\ ~Closing(l)

\* ref_count is the number of threads that can still reach the handle, the one that
\* brought it to zero holds transport_lock until the handle is freed, and nobody
\* else holds it.
RefCounts(r, w) ==
  /\ trans.st # "up" => Gone(r) /\ Gone(w) /\ transport_lock = "none"
  /\ trans.st = "up" =>
       \/ Counted(r) /\ Counted(w) /\ trans.ref = 2 /\ transport_lock = "none"
       \/ Counted(r) /\ Gone(w) /\ trans.ref = 1 /\ transport_lock = "none"
       \/ Gone(r) /\ Counted(w) /\ trans.ref = 1 /\ transport_lock = "none"
       \/ Closing(r) /\ Gone(w) /\ trans.ref = 0 /\ transport_lock = "reader"
       \/ Gone(r) /\ Closing(w) /\ trans.ref = 0 /\ transport_lock = "writer"

\* The handle lives from the scan that finds the device to the last reference, and
\* is on handle_list until usb_close took it off.
Lifetime(r, w, p) ==
  /\ handle.freed <=> trans.st = "none" /\ p # "register"
  /\ p = "register" => trans.st = "none"
  /\ handle.listed <=> ~handle.freed /\ r # "free" /\ w # "free"

\* While the handle is not dead, a transfer that the kernel has is not one that its
\* thread is about to use again.  The reader's is reaped by itself; when REAPURB fails
\* it leaves it behind and reads no more.  The writer's is reaped by the reader, who
\* has not told it yet.
Transfers(r, w) ==
  (~handle.dead /\ ~handle.freed) =>
    /\ urb["in"] # "free" => r # "idle" /\ trans.st = "up"
    /\ r = "reaped" => got = "ENODEV" \/ (got \in Urbs /\ urb[got] = "free")
    /\ urb["out"] # "free" => handle.busy
    /\ handle.busy => w = "wait"
    /\ r = "reaped" /\ got = "out" => handle.busy

UsbInv ==
  /\ Types
  /\ RefCounts(pc["reader"], pc["writer"])
  /\ Lifetime(pc["reader"], pc["writer"], pc["poll"])
  /\ Transfers(pc["reader"], pc["writer"])
  /\ UrbsAreOurs

-----------------------------------------------------------------------------
(* What an assignment to a field leaves of the other fields.               *)

LEMMA SetListed ==
  ASSUME NEW h \in HandleType, NEW b \in BOOLEAN
  PROVE  LET g == [h EXCEPT !.listed = b] IN
         /\ g \in HandleType /\ g.listed = b
         /\ g.freed = h.freed /\ g.dead = h.dead /\ g.busy = h.busy /\ g.reaper = h.reaper
            /\ g.mark = h.mark
BY DEF HandleType

LEMMA SetFreed ==
  ASSUME NEW h \in HandleType, NEW b \in BOOLEAN
  PROVE  LET g == [h EXCEPT !.freed = b] IN
         /\ g \in HandleType /\ g.freed = b
         /\ g.listed = h.listed /\ g.dead = h.dead /\ g.busy = h.busy /\ g.reaper = h.reaper
            /\ g.mark = h.mark
BY DEF HandleType

LEMMA SetBusy ==
  ASSUME NEW h \in HandleType, NEW b \in BOOLEAN
  PROVE  LET g == [h EXCEPT !.busy = b] IN
         /\ g \in HandleType /\ g.busy = b
         /\ g.listed = h.listed /\ g.freed = h.freed /\ g.dead = h.dead
            /\ g.reaper = h.reaper /\ g.mark = h.mark
BY DEF HandleType

LEMMA SetReaper ==
  ASSUME NEW h \in HandleType, NEW b \in BOOLEAN
  PROVE  LET g == [h EXCEPT !.reaper = b] IN
         /\ g \in HandleType /\ g.reaper = b
         /\ g.listed = h.listed /\ g.freed = h.freed /\ g.dead = h.dead /\ g.busy = h.busy
            /\ g.mark = h.mark
BY DEF HandleType

LEMMA SetMark ==
  ASSUME NEW h \in HandleType, NEW b \in BOOLEAN
  PROVE  LET g == [h EXCEPT !.mark = b] IN
         /\ g \in HandleType /\ g.mark = b
         /\ g.listed = h.listed /\ g.freed = h.freed /\ g.dead = h.dead /\ g.busy = h.busy
            /\ g.reaper = h.reaper
BY DEF HandleType

LEMMA SetDeadBusy ==
  ASSUME NEW h \in HandleType, NEW b \in BOOLEAN, NEW c \in BOOLEAN
  PROVE  LET g == [h EXCEPT !.dead = b, !.busy = c] IN
         /\ g \in HandleType /\ g.dead = b /\ g.busy = c
         /\ g.listed = h.listed /\ g.freed = h.freed /\ g.reaper = h.reaper /\ g.mark = h.mark
BY DEF HandleType

LEMMA SetKicked ==
  ASSUME NEW t \in TransType, NEW b \in BOOLEAN
  PROVE  LET g == [t EXCEPT !.kicked = b] IN
         /\ g \in TransType /\ g.kicked = b
         /\ g.st = t.st /\ g.ref = t.ref
BY DEF TransType

LEMMA SetSt ==
  ASSUME NEW t \in TransType, NEW x \in {"none", "pending", "up"}
  PROVE  LET g == [t EXCEPT !.st = x] IN g \in TransType /\ g.st = x
BY DEF TransType

LEMMA SetRef ==
  ASSUME NEW t \in TransType, NEW r \in 0 .. 2
  PROVE  LET g == [t EXCEPT !.ref = r] IN g \in TransType /\ g.st = t.st /\ g.ref = r
BY DEF TransType

LEMMA SetNopermPlugged ==
  ASSUME NEW n \in NopermType, NEW b \in BOOLEAN
  PROVE  LET g == [n EXCEPT !.plugged = b] IN
         /\ g \in NopermType /\ g.plugged = b
         /\ g.mark = n.mark /\ g.listed = n.listed
BY DEF NopermType

LEMMA SetNopermMark ==
  ASSUME NEW n \in NopermType, NEW b \in BOOLEAN
  PROVE  LET g == [n EXCEPT !.mark = b] IN
         /\ g \in NopermType /\ g.mark = b
         /\ g.plugged = n.plugged /\ g.listed = n.listed
BY DEF NopermType

LEMMA SetNopermListed ==
  ASSUME NEW n \in NopermType, NEW b \in BOOLEAN
  PROVE  LET g == [n EXCEPT !.listed = b] IN
         /\ g \in NopermType /\ g.listed = b
         /\ g.plugged = n.plugged /\ g.mark = n.mark
BY DEF NopermType

\* The types that the other conjuncts are about.
LEMMA FieldTypes ==
  ASSUME Types
  PROVE  /\ handle \in HandleType /\ trans \in TransType /\ noperm \in NopermType
         /\ handle.listed \in BOOLEAN /\ handle.freed \in BOOLEAN /\ handle.dead \in BOOLEAN
         /\ handle.busy \in BOOLEAN /\ handle.reaper \in BOOLEAN /\ handle.mark \in BOOLEAN
         /\ noperm.plugged \in BOOLEAN /\ noperm.mark \in BOOLEAN
BY DEF Types, TypeOK, HandleType, TransType, NopermType

\* Types, conjunct by conjunct, to be proved of the next state.
LEMMA TypesFromFields ==
  ASSUME pc' \in [Thread -> ReaderLabel \union WriterLabel \union PollLabel],
         pc'["reader"] \in ReaderLabel, pc'["writer"] \in WriterLabel, pc'["poll"] \in PollLabel,
         got' \in {"none", "EINTR", "ENODEV"} \union Urbs, plugged' \in BOOLEAN,
         urb' \in [Urbs -> {"free", "sent", "done"}], handle' \in HandleType,
         trans' \in TransType, queue' \in 0 .. MaxQueue, noperm' \in NopermType,
         usb_lock' \in {"none", "poll"}, transport_lock' \in {"none", "reader", "writer"},
         clobbered' \in BOOLEAN
  PROVE  Types'
BY DEF Types, TypeOK, HandleType, TransType, NopermType, ReaderLabel, WriterLabel, PollLabel

-----------------------------------------------------------------------------
(* The steps.                                                              *)

LEMMA UsbInit == Init => UsbInv
<1> SUFFICES ASSUME Init PROVE UsbInv
  OBVIOUS
<1>1. NewHandle \in HandleType /\ ~NewHandle.dead /\ ~NewHandle.busy
  BY DEF HandleType, NewHandle
<1>2. [NewHandle EXCEPT !.listed = FALSE] \in HandleType
  BY <1>1, SetListed, Zenon
<1>3. handle \in HandleType /\ ~handle.listed /\ handle.freed /\ ~handle.busy
  BY <1>1, <1>2 DEF Init, NewHandle, HandleType
<1>4. noperm \in NopermType /\ trans \in TransType /\ trans.st = "none"
  BY DEF Init, NopermType, TransType, NoTransport
<1>5. pc \in [Thread -> ReaderLabel \union WriterLabel \union PollLabel]
      /\ pc["reader"] = "none" /\ pc["writer"] = "none" /\ pc["poll"] = "scan"
  BY DEF Init, Thread, ReaderLabel, WriterLabel, PollLabel, ThreadLabel
<1>6. plugged \in BOOLEAN /\ clobbered \in BOOLEAN /\ ~clobbered /\ UrbsAreOurs
  BY DEF Init, UrbsAreOurs
<1>7. urb \in [Urbs -> {"free", "sent", "done"}] /\ queue \in 0 .. MaxQueue
  BY DEF Init, NoUrbs, Urbs
<1>8. Types
  BY <1>3, <1>4, <1>5, <1>6, <1>7
     DEF Types, TypeOK, Init, HandleType, TransType, NopermType, ThreadLabel
<1>9. RefCounts(pc["reader"], pc["writer"]) /\ Lifetime(pc["reader"], pc["writer"], pc["poll"])
  BY <1>3, <1>4, <1>5 DEF Init, RefCounts, Lifetime, Gone
<1>10. Transfers(pc["reader"], pc["writer"])
  BY <1>3, <1>5 DEF Init, NoUrbs, Urbs, Transfers, UrbsAreOurs
<1> QED
  BY <1>6, <1>8, <1>9, <1>10 DEF UsbInv

LEMMA WriteWakesKeeps ==
  ASSUME UsbInv, WriteWakes
  PROVE  UsbInv'
BY DEF WriteWakes, UsbInv, Types, TypeOK, ReaderLabel, WriterLabel, PollLabel, ThreadLabel,
    Thread, Urbs, Goto, Free, lockVars, RefCounts, Lifetime, Transfers, UrbsAreOurs, Gone, Closing, Counted

LEMMA WriteEndsKeeps ==
  ASSUME UsbInv, WriteEnds
  PROVE  UsbInv'
BY
  DEF WriteEnds, UsbInv, Types, TypeOK, ReaderLabel, WriterLabel, PollLabel, ThreadLabel,
  Thread,
    Urbs, Goto, Free, lockVars, RefCounts, Lifetime, Transfers, UrbsAreOurs, Gone, Closing, Counted

LEMMA ReadEntersKeeps ==
  ASSUME UsbInv, ReadEnters
  PROVE  UsbInv'
BY DEF ReadEnters, UsbInv, Types, TypeOK, ReaderLabel, WriterLabel, PollLabel, ThreadLabel,
    Thread, Urbs, Goto, Free, lockVars, RefCounts, Lifetime, Transfers, UrbsAreOurs, Gone, Closing, Counted

LEMMA ReapKeeps ==
  ASSUME UsbInv, NEW d \in Urbs, Reap(d)
  PROVE  UsbInv'
BY DEF Reap, UsbInv, Types, TypeOK, ReaderLabel, WriterLabel, PollLabel, ThreadLabel, Thread,
    Urbs, Goto, Free, lockVars, RefCounts, Lifetime, Transfers, UrbsAreOurs, Gone, Closing, Counted

LEMMA ReapFailsKeeps ==
  ASSUME UsbInv, ReapFails
  PROVE  UsbInv'
BY DEF ReapFails, UsbInv, Types, TypeOK, ReaderLabel, WriterLabel, PollLabel, ThreadLabel,
    Thread, Urbs, Goto, Free, lockVars, RefCounts, Lifetime, Transfers, UrbsAreOurs, Gone,
    Closing, Counted

LEMMA UnrefKeeps ==
  ASSUME UsbInv, NEW th \in {"reader", "writer"}, transport_unref(th)
  PROVE  UsbInv'
BY DEF transport_unref, UsbInv, Types, TypeOK, ReaderLabel, WriterLabel, PollLabel, ThreadLabel,
    Thread, Urbs, Goto, Free, lockVars, RefCounts, Lifetime, Transfers, UrbsAreOurs, Gone, Closing, Counted

LEMMA PollLocksKeeps ==
  ASSUME UsbInv, PollLocks
  PROVE  UsbInv'
BY
  DEF PollLocks, UsbInv, Types, TypeOK, ReaderLabel, WriterLabel, PollLabel, ThreadLabel,
  Thread,
    Urbs, Goto, Free, lockVars, RefCounts, Lifetime, Transfers, UrbsAreOurs, Gone, Closing, Counted

LEMMA PollUnlocksKeeps ==
  ASSUME UsbInv, PollUnlocks
  PROVE  UsbInv'
BY DEF PollUnlocks, UsbInv, Types, TypeOK, ReaderLabel, WriterLabel, PollLabel, ThreadLabel,
    Thread, Urbs, Goto, Free, lockVars, RefCounts, Lifetime, Transfers, UrbsAreOurs, Gone, Closing, Counted

LEMMA SendKeeps ==
  ASSUME UsbInv, send_packet
  PROVE  UsbInv'
BY DEF send_packet, UsbInv, Types, TypeOK, ReaderLabel, WriterLabel, PollLabel, ThreadLabel,
    Thread, Urbs, Goto, Free, lockVars, RefCounts, Lifetime, Transfers, UrbsAreOurs, Gone, Closing, Counted

LEMMA CompletesKeeps ==
  ASSUME UsbInv, NEW d \in Urbs, Completes(d)
  PROVE  UsbInv'
BY
  DEF Completes, UsbInv, Types, TypeOK, ReaderLabel, WriterLabel, PollLabel, ThreadLabel,
  Thread,
    Urbs, Goto, Free, lockVars, RefCounts, Lifetime, Transfers, UrbsAreOurs, Gone, Closing, Counted

LEMMA PlugKeeps ==
  ASSUME UsbInv, Plug
  PROVE  UsbInv'
BY DEF Plug, UsbInv, Types, TypeOK, ReaderLabel, WriterLabel, PollLabel, ThreadLabel, Thread,
    Urbs, Goto, Free, lockVars, RefCounts, Lifetime, Transfers, UrbsAreOurs, Gone, Closing, Counted

LEMMA WriteStartKeeps ==
  ASSUME UsbInv, WriteStart
  PROVE  UsbInv'
<1>1. handle' \in HandleType /\ handle'.listed = handle.listed
      /\ handle'.freed = handle.freed /\ handle'.dead = handle.dead
      /\ (handle' = handle \/ handle'.busy)
  BY FieldTypes, SetBusy, Zenon DEF UsbInv, WriteStart
<1>2. Types'
  BY <1>1, TypesFromFields, FieldTypes
    DEF UsbInv, WriteStart, Clear, Submit, Types, TypeOK, ReaderLabel,
      WriterLabel, PollLabel, ThreadLabel, Thread, Urbs, Goto, Free, lockVars
<1>3. RefCounts(pc["reader"], pc["writer"])' /\ Lifetime(pc["reader"], pc["writer"], pc["poll"])'
  BY <1>1, FieldTypes DEF UsbInv, WriteStart, Clear, Submit, Types, TypeOK, ReaderLabel, WriterLabel,
      PollLabel, ThreadLabel, Thread, Urbs, Goto, Free, lockVars, RefCounts, Lifetime, Transfers, UrbsAreOurs,
      Gone, Closing, Counted
<1>4. Transfers(pc["reader"], pc["writer"])' /\ UrbsAreOurs'
  BY <1>1, FieldTypes DEF UsbInv, WriteStart, Clear, Submit, Types, TypeOK, ReaderLabel, WriterLabel,
      PollLabel, ThreadLabel, Thread, Urbs, Goto, Free, lockVars, RefCounts, Lifetime, Transfers, UrbsAreOurs,
      Gone, Closing, Counted
<1> QED
  BY <1>2, <1>3, <1>4 DEF UsbInv

LEMMA ReadStartKeeps ==
  ASSUME UsbInv, ReadStart
  PROVE  UsbInv'
<1>1. handle' \in HandleType /\ handle'.listed = handle.listed
      /\ handle'.freed = handle.freed /\ handle'.dead = handle.dead
      /\ handle'.busy = handle.busy
  BY FieldTypes, SetReaper, Zenon DEF UsbInv, ReadStart
<1>2. Types'
  BY <1>1, TypesFromFields, FieldTypes
    DEF UsbInv, ReadStart, Clear, Submit, Types, TypeOK, ReaderLabel,
      WriterLabel, PollLabel, ThreadLabel, Thread, Urbs, Goto, Free, lockVars
<1>3. RefCounts(pc["reader"], pc["writer"])' /\ Lifetime(pc["reader"], pc["writer"], pc["poll"])'
  BY <1>1, FieldTypes DEF UsbInv, ReadStart, Clear, Submit, Types, TypeOK, ReaderLabel, WriterLabel,
      PollLabel, ThreadLabel, Thread, Urbs, Goto, Free, lockVars, RefCounts, Lifetime, Transfers, UrbsAreOurs,
      Gone, Closing, Counted
<1>4. Transfers(pc["reader"], pc["writer"])' /\ UrbsAreOurs'
  BY <1>1, FieldTypes DEF UsbInv, ReadStart, Clear, Submit, Types, TypeOK, ReaderLabel, WriterLabel,
      PollLabel, ThreadLabel, Thread, Urbs, Goto, Free, lockVars, RefCounts, Lifetime, Transfers, UrbsAreOurs,
      Gone, Closing, Counted
<1> QED
  BY <1>2, <1>3, <1>4 DEF UsbInv

LEMMA ReadReturnedKeeps ==
  ASSUME UsbInv, NEW ok \in BOOLEAN, ReadReturned(ok)
  PROVE  UsbInv'
<1>1. handle' \in HandleType /\ handle'.listed = handle.listed
      /\ handle'.freed = handle.freed /\ handle'.dead = handle.dead
      /\ handle'.busy = (handle.busy /\ got # "out")
  <2> DEFINE r == got \in GoesOn /\ ~handle.dead
             b == handle.busy /\ got # "out"
  <2>1. handle \in HandleType /\ r \in BOOLEAN /\ b \in BOOLEAN
    BY FieldTypes DEF UsbInv
  <2>2. handle' = [handle EXCEPT !.reaper = r, !.busy = b]
    BY <2>1 DEF ReadReturned, ReadReturns
  <2> DEFINE h == [handle EXCEPT !.reaper = r]
  <2> HIDE DEF r, b
  <2>3. h \in HandleType /\ h.listed = handle.listed /\ h.freed = handle.freed /\ h.dead = handle.dead
    BY <2>1, SetReaper, Zenon
  <2>4. handle' = [h EXCEPT !.busy = b]
    BY <2>2
  <2> HIDE DEF h
  <2>5. handle' \in HandleType /\ handle'.listed = handle.listed
        /\ handle'.freed = handle.freed /\ handle'.dead = handle.dead
        /\ handle'.busy = b
    BY <2>1, <2>3, <2>4, SetBusy, Zenon
  <2> QED
    BY <2>5 DEF b
<1>2. Types'
  BY <1>1, TypesFromFields, FieldTypes DEF UsbInv, ReadReturned, ReadReturns, GoesOn, Types, TypeOK,
      ReaderLabel, WriterLabel, PollLabel, ThreadLabel, Thread, Urbs, Goto, Free, lockVars
<1>3. RefCounts(pc["reader"], pc["writer"])' /\ Lifetime(pc["reader"], pc["writer"], pc["poll"])'
  BY <1>1, FieldTypes DEF UsbInv, ReadReturned, ReadReturns, GoesOn, Types, TypeOK, ReaderLabel,
      WriterLabel, PollLabel, ThreadLabel, Thread, Urbs, Goto, Free, lockVars, RefCounts,
      Lifetime, Transfers, UrbsAreOurs, Gone, Closing, Counted
<1>4. Transfers(pc["reader"], pc["writer"])' /\ UrbsAreOurs'
  BY <1>1, FieldTypes DEF UsbInv, ReadReturned, ReadReturns, GoesOn, Types, TypeOK, ReaderLabel,
      WriterLabel, PollLabel, ThreadLabel, Thread, Urbs, Goto, Free, lockVars, RefCounts,
      Lifetime, Transfers, UrbsAreOurs, Gone, Closing, Counted
<1> QED
  BY <1>2, <1>3, <1>4 DEF UsbInv

LEMMA KickTransportKeeps ==
  ASSUME UsbInv, NEW th \in {"reader", "writer"}, KickTransport(th)
  PROVE  UsbInv'
<1>1. trans' \in TransType /\ trans'.st = trans.st /\ trans'.ref = trans.ref
  BY FieldTypes, SetKicked, Zenon DEF UsbInv, KickTransport
<1>2. Types'
  BY <1>1, TypesFromFields, FieldTypes DEF UsbInv, KickTransport, Types, TypeOK, ReaderLabel,
      WriterLabel, PollLabel, ThreadLabel, Thread, Urbs, Goto, Free, lockVars
<1>3. RefCounts(pc["reader"], pc["writer"])' /\ Lifetime(pc["reader"], pc["writer"], pc["poll"])'
  BY <1>1, FieldTypes DEF UsbInv, KickTransport, Types, TypeOK, ReaderLabel, WriterLabel,
      PollLabel, ThreadLabel, Thread, Urbs, Goto, Free, lockVars, RefCounts, Lifetime, Transfers, UrbsAreOurs,
      Gone, Closing, Counted
<1>4. Transfers(pc["reader"], pc["writer"])' /\ UrbsAreOurs'
  BY <1>1, FieldTypes DEF UsbInv, KickTransport, Types, TypeOK, ReaderLabel, WriterLabel,
      PollLabel, ThreadLabel, Thread, Urbs, Goto, Free, lockVars, RefCounts, Lifetime, Transfers, UrbsAreOurs,
      Gone, Closing, Counted
<1> QED
  BY <1>2, <1>3, <1>4 DEF UsbInv

LEMMA UsbCloseKeeps ==
  ASSUME UsbInv, NEW th \in {"reader", "writer"}, usb_close(th)
  PROVE  UsbInv'
<1>1. handle' \in HandleType /\ ~handle'.listed /\ handle'.freed = handle.freed
      /\ handle'.dead = handle.dead /\ handle'.busy = handle.busy
  BY FieldTypes, SetListed, Zenon DEF UsbInv, usb_close
<1>2. Types'
  BY <1>1, TypesFromFields, FieldTypes DEF UsbInv, usb_close, Types, TypeOK, ReaderLabel,
      WriterLabel, PollLabel, ThreadLabel, Thread, Urbs, Goto, Free, lockVars
<1>3. RefCounts(pc["reader"], pc["writer"])' /\ Lifetime(pc["reader"], pc["writer"], pc["poll"])'
  BY <1>1, FieldTypes DEF UsbInv, usb_close, Types, TypeOK, ReaderLabel, WriterLabel, PollLabel,
      ThreadLabel, Thread, Urbs, Goto, Free, lockVars, RefCounts, Lifetime, Transfers, UrbsAreOurs, Gone,
      Closing, Counted
<1>4. Transfers(pc["reader"], pc["writer"])' /\ UrbsAreOurs'
  BY <1>1, FieldTypes DEF UsbInv, usb_close, Types, TypeOK, ReaderLabel, WriterLabel, PollLabel,
      ThreadLabel, Thread, Urbs, Goto, Free, lockVars, RefCounts, Lifetime, Transfers, UrbsAreOurs, Gone,
      Closing, Counted
<1> QED
  BY <1>2, <1>3, <1>4 DEF UsbInv

LEMMA PollKicksNopermKeeps ==
  ASSUME UsbInv, PollKicksNoperm
  PROVE  UsbInv'
<1>1. noperm' \in NopermType
  BY FieldTypes, SetNopermMark, Zenon DEF UsbInv, PollKicksNoperm
<1>2. Types'
  BY <1>1, TypesFromFields, FieldTypes DEF UsbInv, PollKicksNoperm, Types, TypeOK, ReaderLabel,
      WriterLabel, PollLabel, ThreadLabel, Thread, Urbs, Goto, Free, lockVars
<1>3. RefCounts(pc["reader"], pc["writer"])' /\ Lifetime(pc["reader"], pc["writer"], pc["poll"])'
  BY <1>1, FieldTypes DEF UsbInv, PollKicksNoperm, Types, TypeOK, ReaderLabel, WriterLabel,
      PollLabel, ThreadLabel, Thread, Urbs, Goto, Free, lockVars, RefCounts, Lifetime, Transfers, UrbsAreOurs,
      Gone, Closing, Counted
<1>4. Transfers(pc["reader"], pc["writer"])' /\ UrbsAreOurs'
  BY <1>1, FieldTypes DEF UsbInv, PollKicksNoperm, Types, TypeOK, ReaderLabel, WriterLabel,
      PollLabel, ThreadLabel, Thread, Urbs, Goto, Free, lockVars, RefCounts, Lifetime, Transfers, UrbsAreOurs,
      Gone, Closing, Counted
<1> QED
  BY <1>2, <1>3, <1>4 DEF UsbInv

LEMMA UnregisterKeeps ==
  ASSUME UsbInv, unregister_usb_transport
  PROVE  UsbInv'
<1>1. noperm' \in NopermType
  BY FieldTypes, SetNopermListed, Zenon DEF UsbInv, unregister_usb_transport
<1>2. Types'
  BY <1>1, TypesFromFields, FieldTypes DEF UsbInv, unregister_usb_transport, Types, TypeOK,
      ReaderLabel, WriterLabel, PollLabel, ThreadLabel, Thread, Urbs, Goto, Free, lockVars
<1>3. RefCounts(pc["reader"], pc["writer"])' /\ Lifetime(pc["reader"], pc["writer"], pc["poll"])'
  BY <1>1, FieldTypes DEF UsbInv, unregister_usb_transport, Types, TypeOK, ReaderLabel,
      WriterLabel, PollLabel, ThreadLabel, Thread, Urbs, Goto, Free, lockVars, RefCounts,
      Lifetime, Transfers, UrbsAreOurs, Gone, Closing, Counted
<1>4. Transfers(pc["reader"], pc["writer"])' /\ UrbsAreOurs'
  BY <1>1, FieldTypes DEF UsbInv, unregister_usb_transport, Types, TypeOK, ReaderLabel,
      WriterLabel, PollLabel, ThreadLabel, Thread, Urbs, Goto, Free, lockVars, RefCounts,
      Lifetime, Transfers, UrbsAreOurs, Gone, Closing, Counted
<1> QED
  BY <1>2, <1>3, <1>4 DEF UsbInv

LEMMA UnplugNopermKeeps ==
  ASSUME UsbInv, UnplugNoperm
  PROVE  UsbInv'
<1>1. noperm' \in NopermType
  BY FieldTypes, SetNopermPlugged, Zenon DEF UsbInv, UnplugNoperm
<1>2. Types'
  BY <1>1, TypesFromFields, FieldTypes DEF UsbInv, UnplugNoperm, Types, TypeOK, ReaderLabel,
      WriterLabel, PollLabel, ThreadLabel, Thread, Urbs, Goto, Free, lockVars
<1>3. RefCounts(pc["reader"], pc["writer"])' /\ Lifetime(pc["reader"], pc["writer"], pc["poll"])'
  BY <1>1, FieldTypes DEF UsbInv, UnplugNoperm, Types, TypeOK, ReaderLabel, WriterLabel,
      PollLabel, ThreadLabel, Thread, Urbs, Goto, Free, lockVars, RefCounts, Lifetime, Transfers, UrbsAreOurs,
      Gone, Closing, Counted
<1>4. Transfers(pc["reader"], pc["writer"])' /\ UrbsAreOurs'
  BY <1>1, FieldTypes DEF UsbInv, UnplugNoperm, Types, TypeOK, ReaderLabel, WriterLabel,
      PollLabel, ThreadLabel, Thread, Urbs, Goto, Free, lockVars, RefCounts, Lifetime, Transfers, UrbsAreOurs,
      Gone, Closing, Counted
<1> QED
  BY <1>2, <1>3, <1>4 DEF UsbInv

LEMMA CloseReturnsKeeps ==
  ASSUME UsbInv, NEW th \in {"reader", "writer"}, CloseReturns(th)
  PROVE  UsbInv'
<1>1. handle' \in HandleType /\ handle'.freed /\ handle'.listed = handle.listed
      /\ handle'.dead = handle.dead /\ handle'.busy = handle.busy
  BY FieldTypes, SetFreed, Zenon DEF UsbInv, CloseReturns
<1>2. trans' \in TransType /\ trans'.st = "none"
  BY FieldTypes DEF UsbInv, CloseReturns, TransType
<1>3. Types'
  BY <1>1, <1>2, TypesFromFields, FieldTypes
    DEF UsbInv, CloseReturns, Types, TypeOK, ReaderLabel,
      WriterLabel, PollLabel, ThreadLabel, Thread, Urbs, Goto, Free, lockVars
<1>4. RefCounts(pc["reader"], pc["writer"])' /\ Lifetime(pc["reader"], pc["writer"], pc["poll"])'
  BY <1>1, <1>2, FieldTypes DEF UsbInv, CloseReturns, Types, TypeOK, ReaderLabel, WriterLabel,
      PollLabel, ThreadLabel, Thread, Urbs, Goto, Free, lockVars, RefCounts, Lifetime, Transfers, UrbsAreOurs,
      Gone, Closing, Counted
<1>5. Transfers(pc["reader"], pc["writer"])' /\ UrbsAreOurs'
  BY <1>1, FieldTypes DEF UsbInv, CloseReturns, Types, TypeOK, ReaderLabel, WriterLabel,
      PollLabel, ThreadLabel, Thread, Urbs, Goto, Free, lockVars, RefCounts, Lifetime, Transfers, UrbsAreOurs,
      Gone, Closing, Counted
<1> QED
  BY <1>3, <1>4, <1>5 DEF UsbInv

\* A kick marks the handle and wakes the reader; it touches no reference.
LEMMA KickFacts ==
  ASSUME Types, NEW p, p \in [Thread -> ReaderLabel \union WriterLabel \union PollLabel], usb_kick(p)
  PROVE  /\ handle' \in HandleType /\ handle'.dead
         /\ handle'.listed = handle.listed /\ handle'.freed = handle.freed
         /\ urb' \in [Urbs -> {"free", "sent", "done"}] /\ got' \in {"none", "EINTR", "ENODEV"} \union Urbs
         /\ pc' \in [Thread -> ReaderLabel \union WriterLabel \union PollLabel]
         /\ pc'["writer"] = p["writer"] /\ pc'["poll"] = p["poll"]
         /\ pc'["reader"] = p["reader"] \/ (p["reader"] = "reap" /\ pc'["reader"] = "reaped")
<1>1. handle' \in HandleType /\ handle'.dead
      /\ handle'.listed = handle.listed /\ handle'.freed = handle.freed
  <2>1. handle \in HandleType /\ handle.dead \in BOOLEAN
    BY FieldTypes
  <2>2. CASE handle.dead
    BY <2>1, <2>2 DEF usb_kick, Kick
  <2>3. CASE ~handle.dead
    <3>1. handle' = [handle EXCEPT !.dead = TRUE, !.busy = FALSE]
      BY <2>3 DEF usb_kick, Kick
    <3> QED
      BY <2>1, <3>1, SetDeadBusy, Zenon
  <2> QED
    BY <2>2, <2>3
<1>2. urb' \in [Urbs -> {"free", "sent", "done"}] /\ got' \in {"none", "EINTR", "ENODEV"} \union Urbs
  BY DEF usb_kick, Kick, DiscardUrbs, Types, TypeOK
<1>3. pc' = p \/ pc' = Interrupted(p)
  BY DEF usb_kick, Kick
<1>4. pc' = p \/ (pc' = [p EXCEPT !["reader"] = "reaped"] /\ p["reader"] = "reap")
  BY <1>3 DEF Interrupted, Thread
<1> QED
  BY <1>1, <1>2, <1>4 DEF Thread, ReaderLabel

LEMMA RemoteKickKeeps ==
  ASSUME UsbInv, NEW th \in {"reader", "writer"}, remote_kick(th)
  PROVE  UsbInv'
<1> DEFINE p == [pc EXCEPT ![th] = "unref"]
<1>1. p \in [Thread -> ReaderLabel \union WriterLabel \union PollLabel] /\ pc[th] = "usb_kick"
      /\ p["reader"] \in ReaderLabel /\ p["writer"] \in WriterLabel /\ p["poll"] = pc["poll"]
      /\ usb_kick(p) /\ Types
  BY DEF UsbInv, remote_kick, Types, TypeOK, ReaderLabel, WriterLabel, PollLabel, ThreadLabel,
      Thread, Urbs, Goto, Free, lockVars
<1>2. /\ Counted(p["reader"]) <=> Counted(pc["reader"])
      /\ Counted(p["writer"]) <=> Counted(pc["writer"])
      /\ \A l \in {"none", "done", "close", "free"} :
           (p["reader"] = l <=> pc["reader"] = l) /\ (p["writer"] = l <=> pc["writer"] = l)
  BY <1>1 DEF Counted, Gone, Closing, Types, Thread
<1> HIDE DEF p
<1>3. Types'
  BY <1>1, KickFacts, TypesFromFields, FieldTypes DEF remote_kick, Types, TypeOK, ReaderLabel,
      WriterLabel, PollLabel, ThreadLabel, Thread, Urbs, Goto, Free, lockVars
<1>4. RefCounts(pc["reader"], pc["writer"])'
  BY <1>1, <1>2, KickFacts DEF UsbInv, remote_kick, RefCounts, Gone, Closing, Counted, lockVars
<1>5. Lifetime(pc["reader"], pc["writer"], pc["poll"])'
  BY <1>1, <1>2, KickFacts DEF UsbInv, remote_kick, Lifetime
<1>6. Transfers(pc["reader"], pc["writer"])' /\ UrbsAreOurs'
  BY <1>1, KickFacts DEF UsbInv, remote_kick, Transfers, UrbsAreOurs
<1> QED
  BY <1>3, <1>4, <1>5, <1>6 DEF UsbInv

LEMMA PollKicksKeeps ==
  ASSUME UsbInv, PollKicks
  PROVE  UsbInv'
<1> DEFINE p == [pc EXCEPT !["poll"] = "noperm"]
<1>1. p \in [Thread -> ReaderLabel \union WriterLabel \union PollLabel] /\ pc["poll"] = "devices"
      /\ p["reader"] = pc["reader"] /\ p["writer"] = pc["writer"] /\ p["poll"] = "noperm"
      /\ pc["reader"] \in ReaderLabel /\ pc["writer"] \in WriterLabel /\ Types
  BY DEF UsbInv, PollKicks, Types, TypeOK, ReaderLabel, WriterLabel, PollLabel, ThreadLabel,
      Thread, Urbs, Goto, Free, lockVars
<1>2. \/ usb_kick(p)
      \/ pc' = p /\ handle' = [handle EXCEPT !.mark = FALSE] /\ UNCHANGED <<got, urb>>
  BY DEF PollKicks, Goto
<1> HIDE DEF p
<1>3. CASE usb_kick(p)
  <2>1. Types'
    BY <1>1, <1>3, KickFacts, TypesFromFields, FieldTypes DEF PollKicks, Types, TypeOK,
        ReaderLabel, WriterLabel, PollLabel, ThreadLabel, Thread, Urbs, Goto, Free, lockVars
  <2>2. RefCounts(pc["reader"], pc["writer"])'
    BY <1>1, <1>3, KickFacts DEF UsbInv, PollKicks, RefCounts, Gone, Closing, Counted, lockVars
  <2>3. Lifetime(pc["reader"], pc["writer"], pc["poll"])'
    BY <1>1, <1>3, KickFacts DEF UsbInv, PollKicks, Lifetime
  <2>4. Transfers(pc["reader"], pc["writer"])' /\ UrbsAreOurs'
    BY <1>1, <1>3, KickFacts DEF UsbInv, PollKicks, Transfers, UrbsAreOurs
  <2> QED
    BY <2>1, <2>2, <2>3, <2>4 DEF UsbInv
<1>4. CASE pc' = p /\ handle' = [handle EXCEPT !.mark = FALSE] /\ UNCHANGED <<got, urb>>
  <2>1. handle' \in HandleType /\ handle'.listed = handle.listed /\ handle'.freed = handle.freed
        /\ handle'.dead = handle.dead /\ handle'.busy = handle.busy
    BY <1>1, <1>4, FieldTypes, SetMark, Zenon
  <2>2. Types'
    BY <1>1, <1>4, <2>1, TypesFromFields, FieldTypes DEF PollKicks, Types, TypeOK, ReaderLabel,
        WriterLabel, PollLabel, ThreadLabel, Thread, Urbs, Goto, Free, lockVars
  <2>3. RefCounts(pc["reader"], pc["writer"])' /\ Lifetime(pc["reader"], pc["writer"], pc["poll"])'
    BY <1>1, <1>4, <2>1 DEF UsbInv, PollKicks, RefCounts, Lifetime, Transfers, UrbsAreOurs, Gone, Closing,
        Counted, lockVars
  <2>4. Transfers(pc["reader"], pc["writer"])' /\ UrbsAreOurs'
    BY <1>1, <1>4, <2>1 DEF UsbInv, PollKicks, Transfers, UrbsAreOurs
  <2> QED
    BY <2>2, <2>3, <2>4 DEF UsbInv
<1> QED
  BY <1>2, <1>3, <1>4

LEMMA ScanKeeps ==
  ASSUME UsbInv, Scan
  PROVE  UsbInv'
<1>1. noperm' \in NopermType
  <2>1. (noperm.mark \/ noperm.plugged) \in BOOLEAN
    OBVIOUS
  <2> QED
    BY <2>1, FieldTypes DEF UsbInv, Scan, NopermType
<1>2. CASE plugged /\ ~handle.listed /\ handle.freed
  <2>1. handle' \in HandleType /\ handle'.listed /\ ~handle'.freed /\ ~handle'.busy
    <3>1. NewHandle \in HandleType /\ NewHandle.listed /\ ~NewHandle.freed /\ ~NewHandle.busy
      BY DEF HandleType, NewHandle
    <3> QED
      BY <1>2, <3>1 DEF Scan
  <2>0. clobbered' \in BOOLEAN
    BY <1>2, Zenon DEF Scan
  <2>2. Types'
    BY <1>1, <1>2, <2>0, <2>1, TypesFromFields, FieldTypes DEF UsbInv, Scan, NoUrbs, Types, TypeOK,
        ReaderLabel, WriterLabel, PollLabel, ThreadLabel, Thread, Urbs, Goto, Free, lockVars
  <2>3. RefCounts(pc["reader"], pc["writer"])' /\ Lifetime(pc["reader"], pc["writer"], pc["poll"])'
    BY <1>2, <2>1 DEF UsbInv, Scan, Types, TypeOK, ReaderLabel, WriterLabel, PollLabel,
        ThreadLabel, Thread, Urbs, Goto, Free, lockVars, RefCounts, Lifetime, Transfers, UrbsAreOurs, Gone,
        Closing, Counted
  <2>4. Transfers(pc["reader"], pc["writer"])' /\ UrbsAreOurs'
    BY <1>2, <2>1 DEF UsbInv, Scan, NoUrbs, Types, TypeOK, ReaderLabel, WriterLabel, PollLabel,
        ThreadLabel, Thread, Urbs, Goto, Free, lockVars, RefCounts, Lifetime, Transfers, UrbsAreOurs, Gone,
        Closing, Counted
  <2> QED
    BY <2>2, <2>3, <2>4 DEF UsbInv
<1>3. CASE ~(plugged /\ ~handle.listed /\ handle.freed)
  <2> DEFINE m == handle.mark \/ (handle.listed /\ plugged)
  <2>1. m \in BOOLEAN /\ handle' = [handle EXCEPT !.mark = m]
    BY <1>3 DEF Scan
  <2> HIDE DEF m
  <2>2. handle' \in HandleType /\ handle'.listed = handle.listed /\ handle'.freed = handle.freed
        /\ handle'.dead = handle.dead /\ handle'.busy = handle.busy
    BY <2>1, FieldTypes, SetMark, Zenon DEF UsbInv
  <2>3. Types'
    BY <1>1, <1>3, <2>2, TypesFromFields, FieldTypes
      DEF UsbInv, Scan, Types, TypeOK, ReaderLabel,
        WriterLabel, PollLabel, ThreadLabel, Thread, Urbs, Goto, Free, lockVars
  <2>4. RefCounts(pc["reader"], pc["writer"])' /\ Lifetime(pc["reader"], pc["writer"], pc["poll"])'
    BY <1>3, <2>2 DEF UsbInv, Scan, Types, TypeOK, ReaderLabel, WriterLabel, PollLabel,
        ThreadLabel, Thread, Urbs, Goto, Free, lockVars, RefCounts, Lifetime, Transfers, UrbsAreOurs, Gone,
        Closing, Counted
  <2>5. Transfers(pc["reader"], pc["writer"])' /\ UrbsAreOurs'
    BY <1>3, <2>2 DEF UsbInv, Scan, Types, TypeOK, ReaderLabel, WriterLabel, PollLabel,
        ThreadLabel, Thread, Urbs, Goto, Free, lockVars, RefCounts, Lifetime, Transfers, UrbsAreOurs, Gone,
        Closing, Counted
  <2> QED
    BY <2>3, <2>4, <2>5 DEF UsbInv
<1> QED
  BY <1>2, <1>3

LEMMA RegisterKeeps ==
  ASSUME UsbInv, register_usb_transport
  PROVE  UsbInv'
<1>1. trans' \in TransType /\ trans'.st = "pending"
  <2>1. NoTransport \in TransType
    BY DEF TransType, NoTransport
  <2> QED
    BY <2>1, SetSt DEF register_usb_transport
<1>2. Types'
  BY <1>1, TypesFromFields, FieldTypes DEF UsbInv, register_usb_transport, Types, TypeOK,
      ReaderLabel, WriterLabel, PollLabel, ThreadLabel, Thread, Urbs, Goto, Free, lockVars
<1>3. RefCounts(pc["reader"], pc["writer"])' /\ Lifetime(pc["reader"], pc["writer"], pc["poll"])'
  BY <1>1
    DEF UsbInv, register_usb_transport, Types, TypeOK, ReaderLabel, WriterLabel, PollLabel,
      ThreadLabel, Thread, Urbs, Goto, Free, lockVars, RefCounts, Lifetime, Transfers, UrbsAreOurs, Gone,
      Closing, Counted
<1>4. Transfers(pc["reader"], pc["writer"])' /\ UrbsAreOurs'
  BY DEF UsbInv, register_usb_transport, Types, TypeOK, ReaderLabel, WriterLabel, PollLabel,
      ThreadLabel, Thread, Urbs, Goto, Free, lockVars, RefCounts, Lifetime, Transfers, UrbsAreOurs, Gone,
      Closing, Counted
<1> QED
  BY <1>2, <1>3, <1>4 DEF UsbInv

LEMMA StartThreadsKeeps ==
  ASSUME UsbInv, StartThreads
  PROVE  UsbInv'
<1>1. trans' \in TransType /\ trans'.st = "up" /\ trans'.ref = 2
  <2> DEFINE t == [trans EXCEPT !.st = "up"]
  <2>1. t \in TransType /\ t.st = "up"
    BY FieldTypes, SetSt DEF UsbInv
  <2>2. trans' = [t EXCEPT !.ref = 2] /\ 2 \in 0 .. 2
    BY DEF StartThreads
  <2> HIDE DEF t
  <2> QED
    BY <2>1, <2>2, SetRef
<1>2. Types'
  BY <1>1, TypesFromFields, FieldTypes DEF UsbInv, StartThreads, Types, TypeOK, ReaderLabel,
      WriterLabel, PollLabel, ThreadLabel, Thread, Urbs, Goto, Free, lockVars
<1>3. RefCounts(pc["reader"], pc["writer"])' /\ Lifetime(pc["reader"], pc["writer"], pc["poll"])'
  BY <1>1 DEF UsbInv, StartThreads, Types, TypeOK, ReaderLabel, WriterLabel, PollLabel,
      ThreadLabel, Thread, Urbs, Goto, Free, lockVars, RefCounts, Lifetime, Transfers, UrbsAreOurs, Gone,
      Closing, Counted
<1>4. Transfers(pc["reader"], pc["writer"])' /\ UrbsAreOurs'
  BY DEF UsbInv, StartThreads, Types, TypeOK, ReaderLabel, WriterLabel, PollLabel, ThreadLabel,
      Thread, Urbs, Goto, Free, lockVars, RefCounts, Lifetime, Transfers, UrbsAreOurs, Gone, Closing, Counted
<1> QED
  BY <1>2, <1>3, <1>4 DEF UsbInv

LEMMA UnplugKeeps ==
  ASSUME UsbInv, Unplug
  PROVE  UsbInv'
<1>1. urb' \in [Urbs -> {"free", "sent", "done"}] /\ \A d \in Urbs : urb'[d] = "free" <=> urb[d] = "free"
  BY DEF UsbInv, Unplug, DiscardUrbs, Types, TypeOK
<1>2. plugged' \in BOOLEAN
  BY DEF Unplug
<1>3. Types'
  BY <1>1, <1>2, TypesFromFields, FieldTypes DEF UsbInv, Unplug, Types, TypeOK, ReaderLabel,
      WriterLabel, PollLabel, ThreadLabel, Thread, Urbs, Goto, Free, lockVars
<1>4. RefCounts(pc["reader"], pc["writer"])' /\ Lifetime(pc["reader"], pc["writer"], pc["poll"])'
  BY
    DEF UsbInv, Unplug, Types, TypeOK, ReaderLabel, WriterLabel, PollLabel, ThreadLabel, Thread,
      Urbs, Goto, Free, lockVars, RefCounts, Lifetime, Transfers, UrbsAreOurs, Gone, Closing, Counted
<1>5. Transfers(pc["reader"], pc["writer"])' /\ UrbsAreOurs'
  BY <1>1 DEF UsbInv, Unplug, Types, TypeOK, ReaderLabel, WriterLabel, PollLabel, ThreadLabel,
      Thread, Urbs, Goto, Free, lockVars, RefCounts, Lifetime, Transfers, UrbsAreOurs, Gone, Closing, Counted
<1> QED
  BY <1>3, <1>4, <1>5 DEF UsbInv

-----------------------------------------------------------------------------
(* The theorems.                                                           *)

LEMMA LeaveKeeps ==
  ASSUME UsbInv, NEW th \in {"reader", "writer"}, Leave(th)
  PROVE  UsbInv'
BY KickTransportKeeps, RemoteKickKeeps, UnrefKeeps, UsbCloseKeeps, CloseReturnsKeeps DEF Leave

LEMMA UsbStep == UsbInv /\ [Next]_vars => UsbInv'
<1> SUFFICES ASSUME UsbInv, [Next]_vars PROVE UsbInv'
  OBVIOUS
<1>1. CASE Reader
  BY <1>1, ReadStartKeeps, ReadEntersKeeps, ReapKeeps, ReadReturnedKeeps, LeaveKeeps DEF Reader
<1>2. CASE Writer
  BY <1>2, WriteStartKeeps, WriteWakesKeeps, WriteEndsKeeps, LeaveKeeps DEF Writer
<1>3. CASE Poll
  BY <1>3, ScanKeeps, RegisterKeeps, PollLocksKeeps, PollKicksKeeps, PollKicksNopermKeeps,
      UnregisterKeeps, PollUnlocksKeeps DEF Poll
<1>4. CASE StartThreads \/ send_packet \/ (\E d \in Urbs : Completes(d))
           \/ ReapFails \/ Unplug \/ Plug \/ UnplugNoperm
  BY <1>4, StartThreadsKeeps, SendKeeps, CompletesKeeps, ReapFailsKeeps, UnplugKeeps, PlugKeeps,
    UnplugNopermKeeps
<1>5. CASE UNCHANGED vars
  BY <1>5 DEF vars, lockVars, UsbInv, Types, TypeOK, RefCounts, Lifetime, Transfers, UrbsAreOurs
<1> QED
  BY <1>1, <1>2, <1>3, <1>4, <1>5 DEF Next

LEMMA UsbInvariant == Spec => []UsbInv
BY UsbInit, UsbStep, PTL DEF Spec

\* For every queue length: when free(h) runs (usb_close, usb_linux.c), both threads of
\* the transport have let go of the handle and the poll thread cannot find it.
THEOREM FreedHandleIsForgotten == Spec => []FreedIsForgotten
<1>1. UsbInv => FreedIsForgotten
  BY DEF UsbInv, Types, RefCounts, Lifetime, Gone, FreedIsForgotten
<1> QED
  BY <1>1, UsbInvariant, PTL

\* For every queue length: as long as the handle is not dead, usb_bulk_read and
\* usb_bulk_write clear and submit an urb only when the kernel has given it back,
\* although the reader reaps for both and may leave the loop on an error.
THEOREM UrbsBelongToOneSide == Spec => []UrbsAreOurs
<1>1. UsbInv => UrbsAreOurs
  BY DEF UsbInv, UrbsAreOurs
<1> QED
  BY <1>1, UsbInvariant, PTL
=============================================================================
