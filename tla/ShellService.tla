------------------------------ MODULE ShellService ------------------------------
(***************************************************************************)
(* "shell:" on the device.  create_subproc_thread (services.c) starts the  *)
(* shell on a pseudo-terminal and a thread that waits for its end; the     *)
(* main loop reads the master side of the terminal for the stream          *)
(* (sockets.c).  When the shell has ended, the thread writes the NUMBER of *)
(* the descriptor to SHELL_EXIT_NOTIFY_FD, and the main loop marks         *)
(* whatever owns that number by then with force_eof and reads it at once   *)
(* (fdevent.c).                                                            *)
(*                                                                         *)
(* Only the output of shells is modelled; the stream's other half, and the *)
(* packets themselves, are in AdbStreams.  The numbers may be taken again  *)
(* by other shells only, which are sockets like those of other services.   *)
(***************************************************************************)
EXTENDS Integers, Sequences, FiniteSets

CONSTANTS
  Shells,       \* requests for a shell, each made once
  Fds,          \* numbers the system gives to terminals, taken again when free
  MaxOut,       \* bytes a shell and its children write (bound)
  MAX_PAYLOAD,  \* bytes one packet carries
  None          \* no shell

ASSUME ShellAssumption ==
  /\ Fds \subseteq Nat \ {0} /\ MaxOut \in Nat /\ MAX_PAYLOAD \in Nat \ {0} /\ None \notin Shells

VARIABLES
  sh,      \* sh[s]: the socket of the stream
  tty,     \* tty[s]: the shell's process and its terminal
  waiter,  \* waiter[s]: the thread that waits for the process
  exits,   \* the numbers in the SHELL_EXIT_NOTIFY_FD socketpair
  pend,    \* the shells, and None for the socketpair, whose events are pending
  forced   \* the shell that fdevent_subproc_event_func is about to read

vars == <<sh, tty, waiter, exits, pend, forced>>

(*   st     none, open, ended (closed at the end of file), closed (by the  *)
(*          client), failed (there was no process)                         *)
(*   fd     its number, kept after it was closed as the thread keeps it    *)
(*   read   FDE_READ is asked for                                          *)
(*   force  force_eof                                                      *)
(*   sent   WRTE packets without their OKAY                                *)
(* The terminal: proc is the shell, held says that a child it left behind  *)
(* has the terminal open, opened that the shell could open it; buf bytes   *)
(* of the wrote ones are not yet read.                                     *)
NoSocket == [st |-> "none", fd |-> 0, read |-> FALSE, force |-> FALSE, sent |-> 0]
NoTty == [proc |-> "none", opened |-> TRUE, held |-> FALSE, buf |-> 0, wrote |-> 0]

Init ==
  /\ sh = [s \in Shells |-> NoSocket] /\ tty = [s \in Shells |-> NoTty]
  /\ waiter = [s \in Shells |-> "none"]
  /\ exits = <<>> /\ pend = {} /\ forced = None

Open(s) == sh[s].st = "open"
fd_table(n) == {s \in Shells : Open(s) /\ sh[s].fd = n}

\* Somebody may still write to the terminal: the shell, or a child it left behind.
Writers(s) == tty[s].proc = "run" \/ tty[s].held

\* All who had the terminal open have closed it: read() of the master fails with EIO.
\* With a terminal that was never opened it fails with EAGAIN instead.
HungUp(s) == tty[s].opened /\ ~Writers(s)

-----------------------------------------------------------------------------
(* The processes behind the terminal.                                      *)

Write(s) ==
  /\ Writers(s) /\ tty[s].wrote < MaxOut /\ Open(s)
  /\ tty' = [tty EXCEPT ![s].buf = @ + 1, ![s].wrote = @ + 1]
  /\ UNCHANGED <<sh, waiter, exits, pend, forced>>

Exit(s, held) ==
  /\ tty[s].proc = "run"
  /\ tty' = [tty EXCEPT ![s].proc = "zombie", ![s].held = held]
  /\ UNCHANGED <<sh, waiter, exits, pend, forced>>

\* create_subprocess, in the child: it cannot open its side of the terminal.
OpenFails(s) ==
  /\ tty[s].proc = "run" /\ tty[s].wrote = 0
  /\ tty' = [tty EXCEPT ![s].proc = "zombie", ![s].opened = FALSE]
  /\ UNCHANGED <<sh, waiter, exits, pend, forced>>

LetGo(s) ==
  /\ tty[s].held
  /\ tty' = [tty EXCEPT ![s].held = FALSE]
  /\ UNCHANGED <<sh, waiter, exits, pend, forced>>

-----------------------------------------------------------------------------
(* subproc_waiter_service.                                                 *)

\* waitpid(pid): another thread may have taken the child away, and then this one
\* asks for it for ever.
Reap_AnyChild(s) ==
  /\ waiter[s] = "wait"
  /\ \E u \in Shells : /\ tty[u].proc = "zombie"
                       /\ tty' = [tty EXCEPT ![u].proc = "reaped"]
                       /\ waiter' = [waiter EXCEPT ![s] = IF u = s THEN "write" ELSE @]
  /\ UNCHANGED <<sh, exits, pend, forced>>

Reap(s) ==
  /\ waiter[s] = "wait" /\ tty[s].proc \in {"zombie", "reaped"}
  /\ tty' = [tty EXCEPT ![s].proc = "reaped"]
  /\ waiter' = [waiter EXCEPT ![s] = IF tty[s].proc = "zombie" THEN "write" ELSE "spin"]
  /\ UNCHANGED <<sh, exits, pend, forced>>

\* The thread of a fork that failed has the pid -1: waitpid takes any child, which
\* is not the one it asked for, until there are none; its answer is then -1 too.
ReapAny(s) ==
  /\ waiter[s] = "any"
  /\ \/ \E u \in Shells : /\ tty[u].proc = "zombie"
                          /\ tty' = [tty EXCEPT ![u].proc = "reaped"] /\ UNCHANGED waiter
     \/ /\ \A u \in Shells : tty[u].proc \in {"none", "reaped"}
        /\ waiter' = [waiter EXCEPT ![s] = "write"] /\ UNCHANGED tty
  /\ UNCHANGED <<sh, exits, pend, forced>>

Notify(s) ==
  /\ waiter[s] = "write"
  /\ waiter' = [waiter EXCEPT ![s] = "done"]
  /\ exits' = Append(exits, sh[s].fd)
  /\ UNCHANGED <<sh, tty, pend, forced>>

subproc_waiter_service(s) == Reap(s) \/ ReapAny(s) \/ Notify(s)

-----------------------------------------------------------------------------
(* The main loop, between two handlers.                                    *)

Idle == forced = None

\* create_subproc_thread; the stream is ready at once.
create_subproc_thread(s, n) ==
  /\ Idle /\ sh[s].st = "none" /\ fd_table(n) = {}
  /\ sh' = [sh EXCEPT ![s] = [NoSocket EXCEPT !.st = "open", !.fd = n, !.read = TRUE]]
  /\ tty' = [tty EXCEPT ![s].proc = "run"]
  /\ waiter' = [waiter EXCEPT ![s] = "wait"]
  /\ UNCHANGED <<exits, pend, forced>>

\* create_subprocess failed: the thread is started all the same, with a pid that is
\* -1 (fork) or was never set (the terminal), and waits for no child of its own.
StartFails(s, pid) ==
  /\ Idle /\ sh[s].st = "none"
  /\ sh' = [sh EXCEPT ![s].st = "failed"]
  /\ waiter' = [waiter EXCEPT ![s] = IF pid = -1 THEN "any" ELSE "spin"]
  /\ UNCHANGED <<tty, exits, pend, forced>>

Readable(s) == Open(s) /\ sh[s].read /\ (tty[s].buf > 0 \/ HungUp(s))

\* fdevent_process, when all events have been handled.
Select ==
  /\ Idle /\ pend = {}
  /\ pend' = {s \in Shells : Readable(s)} \union (IF exits = <<>> THEN {} ELSE {None})
  /\ pend' # {}
  /\ UNCHANGED <<sh, tty, waiter, exits, forced>>

\* local_socket_event_func, FDE_READ.  It reads until a packet is full or nothing is
\* left; only then it meets the end of the terminal.
ReadSize(s) == IF tty[s].buf < MAX_PAYLOAD THEN tty[s].buf ELSE MAX_PAYLOAD
AtEnd(s) == ReadSize(s) < MAX_PAYLOAD /\ HungUp(s)

\* r: what enqueue of the remote socket returned (it takes the packet and asks for no
\* more), or the read that found nothing and failed, with EAGAIN or EIO.
ReadResult(s) == IF ReadSize(s) > 0 THEN 1 ELSE -1

AfterRead(s, ends) ==
  /\ tty' = [tty EXCEPT ![s].buf = @ - ReadSize(s)]
  /\ sh' = [sh EXCEPT ![s].st = IF ends THEN "ended" ELSE @,
                      ![s].read = @ /\ ReadResult(s) <= 0,
                      ![s].sent = IF ReadSize(s) > 0 THEN @ + 1 ELSE @]

event_read_ForcedOnEagain(s) ==
  AfterRead(s, AtEnd(s) \/ (sh[s].force /\ ReadSize(s) = 0))

event_read(s) == AfterRead(s, AtEnd(s) \/ (sh[s].force /\ ReadResult(s) = 0))

ReadEvent(s) ==
  /\ Idle /\ s \in pend
  /\ event_read(s) /\ pend' = pend \ {s}
  /\ UNCHANGED <<waiter, exits, forced>>

\* fdevent_subproc_event_func: the owner of the number is marked; FIONREAD says
\* whether it is read at once.
SubprocEvent ==
  /\ Idle /\ None \in pend
  /\ exits' = Tail(exits)
  /\ sh' = [s \in Shells |-> [sh[s] EXCEPT !.force = @ \/ s \in fd_table(Head(exits))]]
  /\ pend' = pend \ {None}
  /\ IF \E s \in fd_table(Head(exits)) : tty[s].buf = 0 /\ s \notin pend
     THEN forced' \in fd_table(Head(exits)) ELSE UNCHANGED forced
  /\ UNCHANGED <<tty, waiter>>

\* fdevent_call_fdfunc: FDE_READ, whether or not the socket asked for it.
ForcedRead ==
  /\ forced # None
  /\ event_read(forced) /\ forced' = None
  /\ UNCHANGED <<waiter, exits, pend>>

\* OKAY: local_socket_ready.
Okay_NotReady(s) ==
  /\ Idle /\ Open(s) /\ sh[s].sent > 0
  /\ sh' = [sh EXCEPT ![s].sent = @ - 1]
  /\ UNCHANGED <<tty, waiter, exits, pend, forced>>

Okay(s) ==
  /\ Idle /\ Open(s) /\ sh[s].sent > 0
  /\ sh' = [sh EXCEPT ![s].sent = @ - 1, ![s].read = TRUE]
  /\ UNCHANGED <<tty, waiter, exits, pend, forced>>

\* CLSE: local_socket_close, which closes the terminal.
Close(s) ==
  /\ Idle /\ Open(s)
  /\ sh' = [sh EXCEPT ![s].st = "closed"]
  /\ pend' = pend \ {s}
  /\ UNCHANGED <<tty, waiter, exits, forced>>

MainLoop == Select \/ SubprocEvent \/ ForcedRead \/ \E s \in Shells : ReadEvent(s)

Next ==
  \/ MainLoop
  \/ \E s \in Shells :
       \/ Write(s) \/ OpenFails(s) \/ LetGo(s) \/ \E held \in BOOLEAN : Exit(s, held)
       \/ subproc_waiter_service(s)
       \/ \E n \in Fds : create_subproc_thread(s, n)
       \/ \E pid \in {-1, 0} : StartFails(s, pid)
       \/ Okay(s) \/ Close(s)

Spec == Init /\ [][Next]_vars

\* The main loop and the threads are scheduled, and the host answers WRTE with OKAY.
\* Nothing makes a shell, or a child of it, end.
FairSpec ==
  /\ Spec /\ WF_vars(MainLoop)
  /\ \A s \in Shells : WF_vars(subproc_waiter_service(s)) /\ WF_vars(Okay(s))

-----------------------------------------------------------------------------
(* Properties.                                                             *)

TypeOK ==
  /\ \A s \in Shells :
       /\ sh[s].st \in {"none", "open", "ended", "closed", "failed"} /\ sh[s].fd \in Fds \union {0}
       /\ sh[s].read \in BOOLEAN /\ sh[s].force \in BOOLEAN /\ sh[s].sent \in Nat
       /\ tty[s].proc \in {"none", "run", "zombie", "reaped"} /\ tty[s].held \in BOOLEAN
       /\ tty[s].opened \in BOOLEAN /\ tty[s].buf \in 0 .. MaxOut /\ tty[s].wrote \in 0 .. MaxOut
       /\ waiter[s] \in {"none", "wait", "any", "write", "spin", "done"}
  /\ exits \in Seq(Fds \union {0})
  /\ pend \subseteq {s \in Shells : Open(s)} \union {None}
  /\ forced = None \/ (forced \in Shells /\ Open(forced) /\ forced \notin pend)

\* Well typed, and a stream that adbd ends has carried all that was written to its
\* terminal, and nobody can write more: also when the number that the thread of an
\* earlier shell reports has passed to this one, and the mark with it.
OutputWhole ==
  TypeOK /\ \A s \in Shells : sh[s].st = "ended" => tty[s].buf = 0 /\ ~Writers(s)

\* The stream of a shell that ended, with nobody left behind on the terminal, is
\* closed, whatever the host had still to take and whether or not the notification
\* finds the socket.  Not so when a child holds the terminal, or when the shell never
\* opened it: the notification does not "force close" the stream then (fdevent.c:44),
\* and nothing but the client ends it.
ShellCloses == \A s \in Shells : (Open(s) /\ HungUp(s)) ~> ~Open(s)

\* The thread of a shell that ended takes its exit status and ends, in whatever
\* order shells end; unless the start of a shell failed, whose thread steals it.
WaiterEnds ==
  \A s \in Shells : (waiter[s] = "wait" /\ tty[s].proc # "run")
    ~> (waiter[s] = "done" \/ \E u \in Shells : sh[u].st = "failed")
=============================================================================
