---------------------------------- MODULE Jdwp ----------------------------------
(***************************************************************************)
(* The debugger services of adbd (jdwp_service.c).                         *)
(*                                                                         *)
(* A virtual machine connects to the control socket and writes its pid.    *)
(* adbd keeps a list of these processes.  A "jdwp:<pid>" stream gets one   *)
(* end of a socket pair, the other end is queued and passed to the         *)
(* process over its control connection; "jdwp" lists the pids once,        *)
(* "track-jdwp" sends the list again whenever it changes.                  *)
(*                                                                         *)
(* All of it runs in the main loop, so an event function is one step.      *)
(* What interleaves is the loop and the processes: a pid may arrive in     *)
(* pieces, a process may die at any point, and a new one may have the pid  *)
(* of one whose death adbd has not seen yet.  A control connection has     *)
(* room for the descriptors passed, and fcntl on it does not fail.         *)
(***************************************************************************)
EXTENDS Integers, Sequences, FiniteSets

CONSTANTS
  Procs,        \* connections of processes to the control socket
  Pids,         \* the pids they have
  Clients,      \* streams of the services "jdwp" and "track-jdwp"
  MAX_OUT_FDS,  \* descriptors waiting for one process
  MaxPieces,    \* bound: what a process writes, its pid and after it
  MaxConns      \* bound: debugger connections

ASSUME JdwpAssumption ==
  /\ Pids \subseteq Nat /\ MAX_OUT_FDS \in Nat \ {0} /\ MaxPieces \in Nat /\ MaxConns \in Nat

NoPid == -1    \* the pid field before the pid was read
BadPid == -2   \* what a process announces that writes something else
PidLen == 2    \* pieces in which the four characters of the pid arrive

VARIABLES
  list,     \* _jdwp_list
  proc,     \* proc[p]: the JdwpProcess on the list
  life,     \* life[p]: the process itself and its end of the connection
  conn,     \* the debugger connections, in the order they were asked for
  client    \* client[c]: the socket of a list or tracker service

vars == <<list, proc, life, conn, client>>

Conns == 1 .. MaxConns
Listed(p) == \E i \in 1 .. Len(list) : list[i] = p

NewProcess == [pid |-> NoPid, in_len |-> 0, out_fds |-> <<>>, write |-> FALSE]
NoLife == [st |-> "none", pid |-> NoPid, link |-> "none", wrote |-> 0, unread |-> 0, got |-> <<>>]
NoClient == [kind |-> "none", shown |-> <<>>]

Init ==
  /\ list = <<>> /\ conn = <<>>
  /\ proc = [p \in Procs |-> NewProcess]
  /\ life = [p \in Procs |-> NoLife]
  /\ client = [c \in Clients |-> NoClient]

-----------------------------------------------------------------------------
(* The list of pids and who is shown it.                                   *)

\* The numbers in S, in increasing order.
Ascending(S) ==
  CHOOSE f \in [1 .. Cardinality(S) -> S] : \A i, j \in DOMAIN f : i < j => f[i] < f[j]

\* The pids of the processes in l, in the order of the list and with the transient
\* connections skipped.  The lists have room for all: the code stops when its buffer
\* is full, 1024 bytes for an update of the trackers (jdwp_service.c:638).
jdwp_process_list(l, pr) ==
  LET known == Ascending({i \in 1 .. Len(l) : pr[l[i]].pid >= 0})
  IN [k \in DOMAIN known |-> pr[l[known[k]]].pid]

\* Every tracker is sent the list, whether or not it took the last one.
jdwp_process_list_updated(l, pr) ==
  client' = [c \in Clients |->
               IF client[c].kind = "track"
               THEN [client[c] EXCEPT !.shown = jdwp_process_list(l, pr)]
               ELSE client[c]]

\* The list l after p, which is on it, was unlinked.
Without(l, p) ==
  LET at == CHOOSE i \in 1 .. Len(l) : l[i] = p
  IN [i \in 1 .. Len(l) - 1 |-> IF i < at THEN l[i] ELSE l[i + 1]]

\* The new process list and its queues; the trackers see the list without p.
Unlink(p, pr, seen) ==
  /\ list' = Without(list, p)
  /\ proc' = [pr EXCEPT ![p] = NewProcess]
  /\ life' = [life EXCEPT ![p].link = "shut", ![p].unread = 0]
  /\ jdwp_process_list_updated(seen, pr)

CloseAll(fds) ==
  conn' = [i \in 1 .. Len(conn) |->
             IF \E j \in 1 .. Len(fds) : fds[j] = i THEN [conn[i] EXCEPT !.st = "closed"] ELSE conn[i]]

jdwp_process_free_UpdatesFirst(p, pr) == Unlink(p, pr, list) /\ CloseAll(pr[p].out_fds)

jdwp_process_free_ClosesOne(p, pr) ==
  /\ Unlink(p, pr, Without(list, p))
  /\ CloseAll(IF pr[p].out_fds = <<>> THEN <<>> ELSE <<Head(pr[p].out_fds)>>)

jdwp_process_free(p, pr) ==
  Unlink(p, pr, Without(list, p)) /\ CloseAll(pr[p].out_fds)

-----------------------------------------------------------------------------
(* The control socket and the connections of the processes.                *)

\* jdwp_control_event and jdwp_process_alloc; the process may be dead already.
jdwp_control_event(p) ==
  /\ life[p].link = "waiting"
  /\ life' = [life EXCEPT ![p].link = "accepted"]
  /\ list' = Append(list, p)
  /\ UNCHANGED <<proc, conn, client>>

\* The events that poll can report; FDE_READ is always asked for.
Ready(p) ==
  (IF life[p].unread > 0 \/ life[p].st = "dead" THEN {"READ"} ELSE {})
    \union (IF proc[p].write THEN {"WRITE"} ELSE {})

\* What the read of the pid, or of anything after it, leads to.
ReadOutcome(p) ==
  LET come == proc[p].in_len + life[p].unread
  IN CASE proc[p].pid = NoPid /\ come >= PidLen ->
            IF life[p].pid = BadPid THEN "close" ELSE "write"
       [] OTHER -> IF life[p].st = "dead" THEN "close" ELSE "return"

\* The fields after the read; what it left unread is read by the next event.
AfterRead_StartsOver(p) ==
  IF ReadOutcome(p) = "write" THEN [proc[p] EXCEPT !.in_len = PidLen, !.pid = life[p].pid] ELSE proc[p]

AfterRead(p) ==
  LET come == proc[p].in_len + life[p].unread
  IN IF proc[p].pid # NoPid THEN proc[p]
     ELSE [proc[p] EXCEPT !.in_len = IF come >= PidLen THEN PidLen ELSE come,
                          !.pid = IF ReadOutcome(p) = "write" THEN life[p].pid ELSE NoPid]

Unread(p) ==
  LET come == proc[p].in_len + life[p].unread
  IN IF proc[p].pid = NoPid /\ come >= PidLen THEN come - PidLen ELSE 0

\* sendmsg passes a queued descriptor, and adbd closes its own copy.
SendFd(p, q, u, fd, rest, watch) ==
  /\ proc' = [proc EXCEPT ![p] = [q EXCEPT !.out_fds = rest, !.write = watch]]
  /\ life' = [life EXCEPT ![p].unread = u, ![p].got = Append(@, fd)]
  /\ conn' = [conn EXCEPT ![fd].st = "passed"]

SendNext_StopsWatching(p, q, u) == SendFd(p, q, u, Head(q.out_fds), Tail(q.out_fds), FALSE)

SendNext_Last(p, q, u) ==
  LET n == Len(q.out_fds) IN SendFd(p, q, u, q.out_fds[n], SubSeq(q.out_fds, 1, n - 1), n > 1)

SendNext(p, q, u) ==
  SendFd(p, q, u, Head(q.out_fds), Tail(q.out_fds), Len(q.out_fds) > 1)

\* jdwp_process_event: the read part returns, closes or goes on to the write part.
jdwp_process_event(p, events) ==
  /\ Listed(p) /\ events # {} /\ events \subseteq Ready(p)
  /\ LET reads  == "READ" \in events
         then   == IF reads THEN ReadOutcome(p) ELSE "write"
         q      == IF reads THEN AfterRead(p) ELSE proc[p]
         u      == IF reads THEN Unread(p) ELSE life[p].unread
         pr     == [proc EXCEPT ![p] = q]
         writes == then = "write" /\ "WRITE" \in events /\ q.out_fds # <<>>
     IN IF then = "close" \/ (writes /\ life[p].st = "dead")
        THEN jdwp_process_free(p, pr)
        ELSE /\ list' = list
             /\ IF reads /\ then = "write"
                THEN jdwp_process_list_updated(list, pr) ELSE client' = client
             /\ IF writes THEN SendNext(p, q, u)
                ELSE /\ proc' = pr /\ conn' = conn
                     /\ life' = [life EXCEPT ![p].unread = u]

-----------------------------------------------------------------------------
(* create_jdwp_connection_fd, for a stream "jdwp:<pid>".                   *)

\* p is the first process of the list with the pid, transient ones included.
Matches(p, pid) ==
  \E i \in 1 .. Len(list) :
    /\ list[i] = p /\ proc[p].pid = pid
    /\ \A j \in 1 .. i - 1 : proc[list[j]].pid # pid

Queue(p, fd) ==
  proc' = [proc EXCEPT ![p].out_fds = Append(@, fd), ![p].write = @ \/ proc[p].out_fds = <<>>]

\* A stream that finds no process, or one with a full queue, is refused: nothing
\* changes.
create_jdwp_connection_fd(pid) ==
  /\ Len(conn) < MaxConns
  /\ \E p \in Procs : Matches(p, pid) /\ Len(proc[p].out_fds) < MAX_OUT_FDS
                       /\ Queue(p, Len(conn) + 1)
  /\ conn' = Append(conn, [asked |-> pid, st |-> "queued"])
  /\ UNCHANGED <<list, life, client>>

-----------------------------------------------------------------------------
(* The services "jdwp" and "track-jdwp".                                   *)

\* The packet handler creates the socket and calls its ready at once: both kinds
\* send the list (pass and need_update change here and never again).  What "jdwp"
\* sent is not looked at again.
OpenClient(c, kind) ==
  /\ client[c].kind = "none"
  /\ client' = [client EXCEPT ![c] = [kind |-> kind,
                            shown |-> IF kind = "track" THEN jdwp_process_list(list, proc) ELSE <<>>]]
  /\ UNCHANGED <<list, proc, life, conn>>

\* OKAY from the other side: the second call of jdwp_socket_ready closes, and
\* jdwp_tracker_ready has nothing to send any more.
ClientReady(c) ==
  /\ client[c].kind \in {"list", "track"}
  /\ client' = [client EXCEPT ![c] = IF @.kind = "list" THEN NoClient ELSE @]
  /\ UNCHANGED <<list, proc, life, conn>>

\* The stream is closed, or something was written to it (enqueue closes it).
CloseClient(c) ==
  /\ client[c].kind \in {"list", "track"}
  /\ client' = [client EXCEPT ![c] = NoClient]
  /\ UNCHANGED <<list, proc, life, conn>>

-----------------------------------------------------------------------------
(* The processes.  No two that run have the same pid.                      *)

Launch(p) ==
  /\ life[p].st = "none"
  /\ \E pid \in Pids \union {BadPid} :
       /\ \A q \in Procs : life[q].st = "run" => life[q].pid # pid
       /\ life' = [life EXCEPT ![p] = [NoLife EXCEPT !.st = "run", !.pid = pid, !.link = "waiting"]]
  /\ UNCHANGED <<list, proc, conn, client>>

Write(p) ==
  /\ life[p].st = "run" /\ life[p].link # "shut" /\ life[p].wrote < MaxPieces
  /\ life' = [life EXCEPT ![p].wrote = @ + 1, ![p].unread = @ + 1]
  /\ UNCHANGED <<list, proc, conn, client>>

Die(p) ==
  /\ life[p].st = "run"
  /\ life' = [life EXCEPT ![p].st = "dead"]
  /\ UNCHANGED <<list, proc, conn, client>>

-----------------------------------------------------------------------------
Event(p) == \E events \in SUBSET {"READ", "WRITE"} : jdwp_process_event(p, events)

Process(p) == Launch(p) \/ Write(p) \/ Die(p)

Next ==
  \/ \E p \in Procs : jdwp_control_event(p) \/ Event(p) \/ Process(p)
  \/ \E pid \in Pids \union {NoPid} : create_jdwp_connection_fd(pid)
  \/ \E c \in Clients : OpenClient(c, "list") \/ OpenClient(c, "track")
                          \/ ClientReady(c) \/ CloseClient(c)

Spec == Init /\ [][Next]_vars

\* The main loop serves every descriptor that poll reports.
FairSpec ==
  Spec /\ \A p \in Procs : WF_vars(jdwp_control_event(p) \/ Event(p))

-----------------------------------------------------------------------------
(* Properties.                                                             *)

\* Type correctness; a process never has more than MAX_OUT_FDS descriptors
\* waiting, out_fds is an array of that size.
TypeOK ==
  /\ list \in Seq(Procs)
  /\ \A p \in Procs :
       /\ proc[p].pid \in Pids \union {NoPid} /\ proc[p].in_len \in 0 .. PidLen
       /\ proc[p].out_fds \in Seq(Conns) /\ Len(proc[p].out_fds) <= MAX_OUT_FDS
       /\ proc[p].write \in BOOLEAN
       /\ life[p].st \in {"none", "run", "dead"}
       /\ life[p].pid \in Pids \union {NoPid, BadPid}
       /\ life[p].link \in {"none", "waiting", "accepted", "shut"}
       /\ life[p].wrote \in 0 .. MaxPieces /\ life[p].unread \in 0 .. MaxPieces
       /\ life[p].got \in Seq(Conns)
  /\ conn \in Seq([asked : Pids \union {NoPid}, st : {"queued", "passed", "closed"}])
  /\ Len(conn) <= MaxConns
  /\ \A c \in Clients :
       /\ client[c].kind \in {"none", "list", "track"}
       /\ client[c].shown \in Seq(Pids)

\* Where descriptor i waits.
Places(i) == {pj \in Procs \X (1 .. MAX_OUT_FDS + 1) :
                pj[2] <= Len(proc[pj[1]].out_fds) /\ proc[pj[1]].out_fds[pj[2]] = i}

\* Well typed, and the far end of a debugger's socket pair is waiting in exactly one queue, or
\* adbd has closed it, after passing it or with its process: none is closed twice,
\* and none is forgotten with the debugger waiting on the other end.
OwnedOnce ==
  TypeOK /\ \A i \in 1 .. Len(conn) :
    Cardinality(Places(i)) = IF conn[i].st = "queued" THEN 1 ELSE 0

\* A process is passed the descriptors that were asked for its pid, in the order
\* they were asked for; also when another process had the pid before, and when the
\* request came before the pid was known ("jdwp:-1" finds a transient connection).
PassedInOrder ==
  \A p \in Procs : LET got == life[p].got IN
    /\ \A k \in 1 .. Len(got) : conn[got[k]].asked \in {life[p].pid, NoPid}
    /\ \A k, m \in 1 .. Len(got) : k < m => got[k] < got[m]

\* A tracker was last shown the processes adbd knows of now: each change of the
\* list, a pid read or a process freed, was followed by an update.
TrackersAreCurrent ==
  \A c \in Clients : client[c].kind = "track" => client[c].shown = jdwp_process_list(list, proc)

\* Every queued descriptor is passed or closed once the debuggers stop asking:
\* FDE_WRITE stays asked for while a queue is not empty, and a process that died
\* is found out.
QueuesDrain == []<>(\A p \in Procs : proc[p].out_fds = <<>>)

\* Once the processes are quiet the list is right: one that has written its pid is
\* on it, however the pieces arrived, and one that has died is not.
ListFollowsLife ==
  []<>(\A p \in Procs :
         /\ (life[p].wrote >= PidLen /\ life[p].pid \in Pids /\ life[p].st = "run")
              => proc[p].pid = life[p].pid
         /\ life[p].st = "dead" => ~Listed(p))
=============================================================================
