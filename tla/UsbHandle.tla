------------------------------- MODULE UsbHandle -------------------------------
(***************************************************************************)
(* The host's USB transport on Linux (usb_linux.c, transport_usb.c): the   *)
(* handle of one device and the threads that share it.                     *)
(*                                                                         *)
(* The output thread of the transport reads (usb_bulk_read) and the input  *)
(* thread writes (usb_bulk_write).  Only the reader reaps finished         *)
(* transfers, those of the writer too, and it blocks in the kernel without *)
(* h->lock.  The poll thread scans the bus once a second, registers new    *)
(* devices and kicks the ones that are gone.  Whoever drops the last       *)
(* reference closes and frees the handle.                                  *)
(*                                                                         *)
(* A section under h->lock takes no other lock and is one step here.       *)
(* usb_lock and transport_lock do nest and are variables.  Beside the      *)
(* device there may be a second one that could only be opened for reading  *)
(* (CS_NOPERM): it has no threads, and the poll thread unregisters its     *)
(* transport while it holds usb_lock.                                      *)
(***************************************************************************)
EXTENDS Integers

CONSTANT MaxQueue   \* bound: packets on their way to the input thread

ASSUME MaxQueueAssumption == MaxQueue \in Nat

VARIABLES
  pc,        \* pc[th]: where the thread is
  got,       \* what REAPURB returned to the reader
  plugged,   \* the device is on the bus
  urb,       \* urb[d]: "free", "sent" to the kernel, or "done" and not reaped
  handle,    \* the usb_handle: on handle_list, freed, and its fields
  trans,     \* its transport: "none", "pending", "up"; kicked and ref_count
  queue,     \* packets for the input thread to write
  noperm,    \* the second device: plugged, mark, transport still listed
  usb_lock, transport_lock,   \* the thread that holds the lock, or "none"
  clobbered  \* an urb of this handle was cleared while the kernel still had it

lockVars == <<usb_lock, transport_lock>>
vars == <<pc, got, plugged, urb, handle, trans, queue, noperm, lockVars, clobbered>>

Thread == {"reader", "writer", "poll"}
Urbs == {"in", "out"}

Goto(th, l) == pc' = [pc EXCEPT ![th] = l]

\* A thread finds the lock free; one that keeps it names itself.
Free(lock) == lock = "none"

NoUrbs == [d \in Urbs |-> "free"]
NewHandle == [listed |-> TRUE, freed |-> FALSE, dead |-> FALSE, busy |-> FALSE,
              reaper |-> FALSE, mark |-> TRUE]
NoTransport == [st |-> "none", kicked |-> FALSE, ref |-> 0]

Init ==
  /\ pc = [th \in Thread |-> IF th = "poll" THEN "scan" ELSE "none"]
  /\ got = "none" /\ plugged = TRUE /\ urb = NoUrbs
  /\ handle = [NewHandle EXCEPT !.listed = FALSE, !.freed = TRUE]
  /\ trans = NoTransport /\ queue = 0
  /\ noperm \in {[plugged |-> p, mark |-> p, listed |-> p] : p \in BOOLEAN}
  /\ usb_lock = "none" /\ transport_lock = "none" /\ clobbered = FALSE

-----------------------------------------------------------------------------
(* usb_kick: the reader is woken by a signal, if it is in the kernel when  *)
(* the signal comes, and by the transfers that are discarded.              *)
DiscardUrbs(u) == [d \in Urbs |-> IF u[d] = "sent" THEN "done" ELSE u[d]]

Interrupted(p) == [p EXCEPT !["reader"] = IF handle.reaper /\ @ = "reap" THEN "reaped" ELSE @]

Kick(p, u) ==
  IF handle.dead THEN pc' = p /\ UNCHANGED <<got, urb, handle>>
  ELSE /\ handle' = [handle EXCEPT !.dead = TRUE, !.busy = FALSE]
       /\ urb' = u
       /\ pc' = Interrupted(p)
       /\ got' = IF Interrupted(p) # p THEN "EINTR" ELSE got

usb_kick_KeepsUrbs(p) == Kick(p, urb)

usb_kick(p) == Kick(p, DiscardUrbs(urb))

-----------------------------------------------------------------------------
(* usb_bulk_write, called by the input thread for a packet.                *)

\* memset of the urb, before h->lock is taken and before the handle is looked at.
\* On a live handle no other thread touches an urb that is with its owner, so the
\* clear and the section behind it are one step.
Clear(d) == clobbered' = (clobbered \/ urb[d] # "free")

Submit(d) == urb' = [urb EXCEPT ![d] = "sent"]

\* Up to the wait; a dead handle or a device that is gone fails the write,
\* which the input thread does not look at.
WriteStart ==
  /\ pc["writer"] = "idle" /\ queue > 0
  /\ queue' = queue - 1
  /\ Clear("out")
  /\ IF handle.dead \/ ~plugged
     THEN UNCHANGED <<pc, urb, handle>>
     ELSE /\ Submit("out")
          /\ handle' = [handle EXCEPT !.busy = TRUE]
          /\ Goto("writer", "wait")
  /\ UNCHANGED <<got, plugged, trans, noperm, lockVars>>

\* pthread_cond_timedwait returned, by the broadcast or after five seconds.  The
\* error it returns then is positive and the test is res < 0.
WriteWakes_OnTimeout ==
  /\ pc["writer"] = "wait"
  /\ Goto("writer", "idle")
  /\ UNCHANGED <<got, plugged, urb, handle, trans, queue, noperm, lockVars, clobbered>>

WriteWakes ==
  /\ pc["writer"] = "wait" /\ (handle.dead \/ ~handle.busy)
  /\ Goto("writer", "idle")
  /\ UNCHANGED <<got, plugged, urb, handle, trans, queue, noperm, lockVars, clobbered>>

\* SYNC(0) comes from the output thread, behind the packets that are queued.
WriteEnds ==
  /\ pc["writer"] = "idle" /\ queue = 0
  /\ pc["reader"] \in {"kick", "usb_kick", "unref", "done"}
  /\ Goto("writer", "kick")
  /\ UNCHANGED <<got, plugged, urb, handle, trans, queue, noperm, lockVars, clobbered>>

-----------------------------------------------------------------------------
(* usb_bulk_read, called by the output thread.                             *)

ReadStart ==
  /\ pc["reader"] = "idle"
  /\ Clear("in")
  /\ IF handle.dead \/ ~plugged
     THEN Goto("reader", "kick") /\ UNCHANGED <<urb, handle>>
     ELSE /\ Submit("in")
          /\ handle' = [handle EXCEPT !.reaper = TRUE]
          /\ Goto("reader", "enter")
  /\ UNCHANGED <<got, plugged, trans, queue, noperm, lockVars>>

\* h->lock is released before the reader is in the kernel.
ReadEnters ==
  /\ pc["reader"] = "enter"
  /\ Goto("reader", "reap")
  /\ UNCHANGED <<got, plugged, urb, handle, trans, queue, noperm, lockVars, clobbered>>

\* ioctl(REAPURB) returns a transfer that is done.
Reap(d) ==
  /\ pc["reader"] = "reap" /\ urb[d] = "done"
  /\ urb' = [urb EXCEPT ![d] = "free"]
  /\ got' = d
  /\ Goto("reader", "reaped")
  /\ UNCHANGED <<plugged, handle, trans, queue, noperm, lockVars, clobbered>>

\* It fails: the device is gone and there is nothing to hand back.
ReapFails ==
  /\ pc["reader"] = "reap" /\ ~plugged /\ \A d \in Urbs : urb[d] # "done"
  /\ got' = "ENODEV"
  /\ Goto("reader", "reaped")
  /\ UNCHANGED <<plugged, urb, handle, trans, queue, noperm, lockVars, clobbered>>

\* The section after REAPURB.  ok: the packet is good; a bad status, header or
\* checksum ends the output thread.
GoesOn == {"out", "EINTR"}

ReadReturns(ok, h) ==
  /\ pc["reader"] = "reaped"
  /\ handle' = h
  /\ Goto("reader", CASE handle.dead   -> "kick"
                      [] got \in GoesOn -> "enter"
                      [] OTHER -> IF ok /\ got = "in" THEN "idle" ELSE "kick")
  /\ UNCHANGED <<got, plugged, urb, trans, queue, noperm, lockVars, clobbered>>

ReadReturned_OwnOnly(ok) ==
  ReadReturns(ok, [handle EXCEPT !.reaper = got \in GoesOn])

ReadReturned(ok) ==
  ReadReturns(ok, [handle EXCEPT !.reaper = got \in GoesOn /\ ~handle.dead,
                                 !.busy = @ /\ got # "out"])

-----------------------------------------------------------------------------
(* The way out of both threads: kick_transport and transport_unref.        *)

KickTransport(th) ==
  /\ pc[th] = "kick" /\ Free(transport_lock)
  /\ Goto(th, IF trans.kicked THEN "unref" ELSE "usb_kick")
  /\ trans' = [trans EXCEPT !.kicked = TRUE]
  /\ UNCHANGED <<got, plugged, urb, handle, queue, noperm, lockVars, clobbered>>

remote_kick(th) ==
  /\ pc[th] = "usb_kick"
  /\ usb_kick([pc EXCEPT ![th] = "unref"])
  /\ UNCHANGED <<plugged, trans, queue, noperm, lockVars, clobbered>>

transport_unref(th) ==
  /\ pc[th] = "unref" /\ Free(transport_lock)
  /\ trans' = [trans EXCEPT !.ref = @ - 1]
  /\ IF trans.ref = 1
     THEN Goto(th, "close") /\ transport_lock' = th
     ELSE Goto(th, "done") /\ UNCHANGED transport_lock
  /\ UNCHANGED <<got, plugged, urb, handle, queue, noperm, usb_lock, clobbered>>

\* usb_close, under transport_lock: unlinked under usb_lock, then freed.
usb_close_StaysListed(th) ==
  /\ pc[th] = "close" /\ Free(usb_lock)
  /\ Goto(th, "free")
  /\ UNCHANGED <<got, plugged, urb, handle, trans, queue, noperm, lockVars, clobbered>>

usb_close(th) ==
  /\ pc[th] = "close" /\ Free(usb_lock)
  /\ handle' = [handle EXCEPT !.listed = FALSE]
  /\ Goto(th, "free")
  /\ UNCHANGED <<got, plugged, urb, trans, queue, noperm, lockVars, clobbered>>

CloseReturns(th) ==
  /\ pc[th] = "free"
  /\ handle' = [handle EXCEPT !.freed = TRUE]
  /\ trans' = [trans EXCEPT !.st = "none"]
  /\ transport_lock' = "none"
  /\ Goto(th, "done")
  /\ UNCHANGED <<got, plugged, urb, queue, noperm, usb_lock, clobbered>>

Leave(th) ==
  KickTransport(th) \/ remote_kick(th) \/ transport_unref(th) \/ usb_close(th) \/ CloseReturns(th)

-----------------------------------------------------------------------------
(* device_poll_thread.                                                     *)

\* find_usb_device: a known device is marked, a new one is opened and put on
\* handle_list (register_device).  An open that fails is tried again by the next scan.
Scan ==
  /\ pc["poll"] = "scan" /\ Free(usb_lock)
  /\ noperm' = [noperm EXCEPT !.mark = @ \/ noperm.plugged]
  /\ IF plugged /\ ~handle.listed /\ handle.freed
     THEN /\ handle' = NewHandle /\ urb' = NoUrbs /\ clobbered' = FALSE
          /\ Goto("poll", "register")
     ELSE /\ handle' = [handle EXCEPT !.mark = @ \/ (handle.listed /\ plugged)]
          /\ Goto("poll", "lock") /\ UNCHANGED <<urb, clobbered>>
  /\ UNCHANGED <<got, plugged, trans, queue, lockVars>>

register_usb_transport ==
  /\ pc["poll"] = "register" /\ Free(transport_lock)
  /\ trans' = [NoTransport EXCEPT !.st = "pending"]
  /\ Goto("poll", "lock")
  /\ UNCHANGED <<got, plugged, urb, handle, queue, noperm, lockVars, clobbered>>

\* kick_disconnected_devices.
PollLocks ==
  /\ pc["poll"] = "lock" /\ Free(usb_lock)
  /\ usb_lock' = "poll"
  /\ Goto("poll", "devices")
  /\ UNCHANGED <<got, plugged, urb, handle, trans, queue, noperm, transport_lock, clobbered>>

PollKicks ==
  /\ pc["poll"] = "devices"
  /\ IF handle.listed /\ ~handle.mark
     THEN usb_kick([pc EXCEPT !["poll"] = "noperm"])
     ELSE /\ handle' = [handle EXCEPT !.mark = FALSE]
          /\ Goto("poll", "noperm") /\ UNCHANGED <<got, urb>>
  /\ UNCHANGED <<plugged, trans, queue, noperm, lockVars, clobbered>>

\* usb_kick of the device without permissions: unregister_usb_transport.
PollKicksNoperm ==
  /\ pc["poll"] = "noperm"
  /\ noperm' = [noperm EXCEPT !.mark = FALSE]
  /\ Goto("poll", IF noperm.listed /\ ~noperm.mark THEN "unregister" ELSE "unlock")
  /\ UNCHANGED <<got, plugged, urb, handle, trans, queue, lockVars, clobbered>>

unregister_usb_transport ==
  /\ pc["poll"] = "unregister" /\ Free(transport_lock)
  /\ noperm' = [noperm EXCEPT !.listed = FALSE]
  /\ Goto("poll", "unlock")
  /\ UNCHANGED <<got, plugged, urb, handle, trans, queue, lockVars, clobbered>>

PollUnlocks ==
  /\ pc["poll"] = "unlock"
  /\ usb_lock' = "none"
  /\ Goto("poll", "scan")
  /\ UNCHANGED <<got, plugged, urb, handle, trans, queue, noperm, transport_lock, clobbered>>

-----------------------------------------------------------------------------
(* The main loop, the kernel and the user.                                 *)

StartThreads ==
  /\ trans.st = "pending" /\ Free(transport_lock)
  /\ trans' = [trans EXCEPT !.st = "up", !.ref = 2]
  /\ pc' = [pc EXCEPT !["reader"] = "idle", !["writer"] = "idle"]
  /\ queue' = 0
  /\ UNCHANGED <<got, plugged, urb, handle, noperm, lockVars, clobbered>>

send_packet ==
  /\ trans.st = "up" /\ queue < MaxQueue
  /\ pc["reader"] \in {"idle", "enter", "reap", "reaped"}
  /\ queue' = queue + 1
  /\ UNCHANGED <<pc, got, plugged, urb, handle, trans, noperm, lockVars, clobbered>>

\* The device takes what was written, or has something to say.
Completes(d) ==
  /\ plugged /\ urb[d] = "sent"
  /\ urb' = [urb EXCEPT ![d] = "done"]
  /\ UNCHANGED <<pc, got, plugged, handle, trans, queue, noperm, lockVars, clobbered>>

\* A device that goes away may leave its transfers hanging in the kernel.
Unplug ==
  /\ plugged
  /\ plugged' = FALSE
  /\ \E hang \in BOOLEAN : urb' = IF hang THEN urb ELSE DiscardUrbs(urb)
  /\ UNCHANGED <<pc, got, handle, trans, queue, noperm, lockVars, clobbered>>

\* Linux gives the name of a device that is still open to no other.
Plug ==
  /\ ~plugged /\ ~handle.listed
  /\ plugged' = TRUE
  /\ UNCHANGED <<pc, got, urb, handle, trans, queue, noperm, lockVars, clobbered>>

UnplugNoperm ==
  /\ noperm.plugged
  /\ noperm' = [noperm EXCEPT !.plugged = FALSE]
  /\ UNCHANGED <<pc, got, plugged, urb, handle, trans, queue, lockVars, clobbered>>

-----------------------------------------------------------------------------
Reader ==
  \/ ReadStart \/ ReadEnters \/ (\E d \in Urbs : Reap(d))
  \/ (\E ok \in BOOLEAN : ReadReturned(ok))
  \/ Leave("reader")

Writer == WriteStart \/ WriteWakes \/ WriteEnds \/ Leave("writer")

Poll ==
  \/ Scan \/ register_usb_transport
  \/ PollLocks \/ PollKicks \/ PollKicksNoperm \/ unregister_usb_transport \/ PollUnlocks

Next ==
  \/ Reader \/ Writer \/ Poll \/ StartThreads \/ send_packet
  \/ (\E d \in Urbs : Completes(d)) \/ ReapFails \/ Unplug \/ Plug \/ UnplugNoperm

Spec == Init /\ [][Next]_vars

\* The threads and the main loop run.  usb_lock, which the poll thread lets go of
\* for a second between two scans, is granted in the end.  The kernel hands back
\* every transfer that is done, as it keeps their order.  A device on the bus takes
\* what is written to it; it need not say anything.
FairSpec ==
  /\ Spec
  /\ WF_vars(Reader) /\ WF_vars(Writer) /\ WF_vars(Poll) /\ WF_vars(StartThreads)
  /\ SF_vars(usb_close("reader") \/ usb_close("writer"))
  /\ SF_vars(Reap("out"))
  /\ WF_vars(Completes("out"))

-----------------------------------------------------------------------------
(* Properties.                                                             *)

ThreadLabel == {"none", "idle", "kick", "usb_kick", "unref", "close", "free", "done"}

\* Type correctness; the transport's count covers its two threads.
TypeOK ==
  /\ pc["reader"] \in ThreadLabel \union {"enter", "reap", "reaped"}
  /\ pc["writer"] \in ThreadLabel \union {"wait"}
  /\ pc["poll"] \in {"scan", "register", "lock", "devices", "noperm", "unregister", "unlock"}
  /\ got \in {"none", "EINTR", "ENODEV"} \union Urbs
  /\ plugged \in BOOLEAN /\ urb \in [Urbs -> {"free", "sent", "done"}]
  /\ handle \in [listed : BOOLEAN, freed : BOOLEAN, dead : BOOLEAN, busy : BOOLEAN,
                 reaper : BOOLEAN, mark : BOOLEAN]
  /\ trans \in [st : {"none", "pending", "up"}, kicked : BOOLEAN, ref : 0 .. 2]
  /\ queue \in 0 .. MaxQueue
  /\ noperm \in [plugged : BOOLEAN, mark : BOOLEAN, listed : BOOLEAN]
  /\ usb_lock \in {"none", "poll"} /\ transport_lock \in {"none", "reader", "writer"}
  /\ clobbered \in BOOLEAN

\* Well typed, and free(h) leaves nobody behind: both threads of the transport have
\* let go of the handle, and the poll thread can no longer find it on handle_list.
FreedIsForgotten ==
  TypeOK /\ (handle.freed => ~handle.listed /\ \A th \in {"reader", "writer"} : pc[th] \in {"none", "done"})

\* usb_bulk_read and usb_bulk_write clear an urb and submit it again: as long as the
\* handle is not dead never one that the kernel still has, whichever thread was to
\* reap it.  On a dead handle the next packet does clear a discarded urb that was
\* not reaped, and submits nothing.
UrbsAreOurs == clobbered => handle.dead

\* The two global locks taken both ways round: usb_close takes usb_lock under
\* transport_lock, and the removal of a device without permissions takes
\* transport_lock under usb_lock.  Both wait for ever.
Deadlocked ==
  pc["poll"] = "unregister" /\ \E th \in {"reader", "writer"} : pc[th] = "close"

\* A transfer of the writer ends although only the reader reaps it: the reader
\* stays in its loop, and when it leaves it kicks the writer out of its wait.  The
\* device has to take it: "time out after five seconds" (usb_linux.c:343) does not
\* happen, since ETIMEDOUT is positive and the test is res < 0.
WriteReturns == (pc["writer"] = "wait") ~> (pc["writer"] # "wait")

\* A device that was unplugged is closed and forgotten in the end, so that it can
\* come back, although its transfers may hang in the kernel and a signal sent
\* before the reader is there is lost.  The one thing that can come in between is
\* the removal of a device without permissions (Deadlocked).
UnpluggedIsClosed ==
  (~plugged /\ handle.listed) ~> (~handle.listed \/ Deadlocked)
=============================================================================
