--------------------------- MODULE ShellServiceProofs ---------------------------
(***************************************************************************)
(* Proofs about ShellService, for every set of shells and descriptors and  *)
(* every packet size.                                                      *)
(***************************************************************************)
EXTENDS ShellService, SequenceTheorems, TLAPS

USE ShellAssumption

SocketType == [st : {"none", "open", "ended", "closed", "failed"}, fd : Fds \union {0},
               read : BOOLEAN, force : BOOLEAN, sent : Nat]
TtyType == [proc : {"none", "run", "zombie", "reaped"}, opened : BOOLEAN, held : BOOLEAN,
            buf : 0 .. MaxOut, wrote : 0 .. MaxOut]

\* The types, with every function and record spelled out.
Types ==
  /\ sh \in [Shells -> SocketType]
  /\ tty \in [Shells -> TtyType]
  /\ waiter \in [Shells -> {"none", "wait", "any", "write", "spin", "done"}]
  /\ exits \in Seq(Fds \union {0})

\* A number belongs to one open terminal; its bytes were written to it; a stream
\* that ended has carried them, and nobody can write more.
Sockets ==
  /\ \A s, u \in Shells : Open(s) /\ Open(u) /\ sh[s].fd = sh[u].fd => s = u
  /\ \A s \in Shells : tty[s].buf <= tty[s].wrote
  /\ \A s \in Shells : sh[s].st = "ended" => tty[s].buf = 0 /\ ~Writers(s)

\* Events are pending only for sockets that are open, and for the socketpair while
\* there is a number in it; the shell to be read at once is not among them.
Events ==
  /\ pend \subseteq {s \in Shells : Open(s)} \union {None}
  /\ None \in pend => exits # <<>>
  /\ forced = None \/ (forced \in Shells /\ Open(forced) /\ forced \notin pend)

ShellInv == Types /\ Sockets /\ Events

-----------------------------------------------------------------------------
(* Assignments to fields keep the types.                                   *)

LEMMA SetSt ==
  ASSUME NEW f \in [Shells -> SocketType], NEW s \in Shells,
         NEW x \in {"none", "open", "ended", "closed", "failed"}
  PROVE  [f EXCEPT ![s].st = x] \in [Shells -> SocketType]
<1>1. [f[s] EXCEPT !.st = x] \in SocketType
  BY DEF SocketType
<1> QED
  BY <1>1

LEMMA SetProc ==
  ASSUME NEW f \in [Shells -> TtyType], NEW s \in Shells,
         NEW p \in {"none", "run", "zombie", "reaped"}
  PROVE  [f EXCEPT ![s].proc = p] \in [Shells -> TtyType]
<1>1. [f[s] EXCEPT !.proc = p] \in TtyType
  BY DEF TtyType
<1> QED
  BY <1>1

LEMMA SetHeld ==
  ASSUME NEW f \in [Shells -> TtyType], NEW s \in Shells,
         NEW b \in BOOLEAN
  PROVE  [f EXCEPT ![s].held = b] \in [Shells -> TtyType]
<1>1. [f[s] EXCEPT !.held = b] \in TtyType
  BY DEF TtyType
<1> QED
  BY <1>1

LEMMA SetBuf ==
  ASSUME NEW f \in [Shells -> TtyType], NEW s \in Shells,
         NEW m \in 0 .. MaxOut
  PROVE  [f EXCEPT ![s].buf = m] \in [Shells -> TtyType]
<1>1. [f[s] EXCEPT !.buf = m] \in TtyType
  BY DEF TtyType
<1> QED
  BY <1>1

LEMMA SetProcHeld ==
  ASSUME NEW f \in [Shells -> TtyType], NEW s \in Shells,
         NEW p \in {"none", "run", "zombie", "reaped"}, NEW b \in BOOLEAN
  PROVE  [f EXCEPT ![s].proc = p, ![s].held = b] \in [Shells -> TtyType]
<1>1. [f[s] EXCEPT !.proc = p, !.held = b] \in TtyType
  BY DEF TtyType
<1> QED
  BY <1>1

LEMMA SetProcOpened ==
  ASSUME NEW f \in [Shells -> TtyType], NEW s \in Shells,
         NEW p \in {"none", "run", "zombie", "reaped"}, NEW b \in BOOLEAN
  PROVE  [f EXCEPT ![s].proc = p, ![s].opened = b] \in [Shells -> TtyType]
<1>1. [f[s] EXCEPT !.proc = p, !.opened = b] \in TtyType
  BY DEF TtyType
<1> QED
  BY <1>1

\* What is left in the terminal after a read; at its end, nothing.
LEMMA ReadSizes ==
  ASSUME Types, NEW s \in Shells
  PROVE  /\ ReadSize(s) \in Nat /\ tty[s].buf - ReadSize(s) \in 0 .. MaxOut
         /\ tty[s].buf - ReadSize(s) <= tty[s].buf
         /\ AtEnd(s) => tty[s].buf - ReadSize(s) = 0 /\ ~Writers(s)
BY DEF Types, TtyType, ReadSize, AtEnd, HungUp

\* A read never ends with r = 0, so that force_eof decides nothing.
LEMMA ReadIsUnforced ==
  ASSUME NEW s \in Shells, event_read(s)
  PROVE  AfterRead(s, AtEnd(s))
<1>1. ReadResult(s) # 0
  BY DEF ReadResult
<1>2. (AtEnd(s) \/ (sh[s].force /\ ReadResult(s) = 0)) = AtEnd(s)
  BY <1>1 DEF AtEnd
<1> QED
  BY <1>2, Zenon DEF event_read

\* event_read types the two variables it writes.
LEMMA ReadTypes ==
  ASSUME Types, NEW s \in Shells, event_read(s)
  PROVE  sh' \in [Shells -> SocketType] /\ tty' \in [Shells -> TtyType]
<1> DEFINE b == sh[s].read /\ ReadResult(s) <= 0
           x == IF AtEnd(s) THEN "ended" ELSE sh[s].st
           n == IF ReadSize(s) > 0 THEN sh[s].sent + 1 ELSE sh[s].sent
<1>0. AfterRead(s, AtEnd(s))
  BY ReadIsUnforced
<1>1. b \in BOOLEAN /\ x \in {"none", "open", "ended", "closed", "failed"} /\ n \in Nat
  BY ReadSizes DEF Types, SocketType
<1>2. sh' = [sh EXCEPT ![s].st = x, ![s].read = b, ![s].sent = n]
  BY <1>0 DEF AfterRead, Types, SocketType
<1> HIDE DEF b, x, n
<1>3. sh' \in [Shells -> SocketType]
  <2>1. [sh[s] EXCEPT !.st = x, !.read = b, !.sent = n] \in SocketType
    BY ZenonT(30), <1>1 DEF Types, SocketType
  <2> QED
    BY <1>2, <2>1 DEF Types
<1>4. tty' \in [Shells -> TtyType]
  BY <1>0, ReadSizes, SetBuf DEF AfterRead, Types
<1> QED
  BY <1>3, <1>4

-----------------------------------------------------------------------------
(* The steps.                                                              *)

LEMMA ShellInit == Init => ShellInv
BY DEF Init, NoSocket, NoTty, ShellInv, Types, Sockets, Events, SocketType, TtyType, Open

LEMMA SelectKeeps ==
  ASSUME ShellInv, Select
  PROVE  ShellInv'
<1>1. Types'
  BY DEF Select, ShellInv, Types
<1>2. Sockets'
  BY
    DEF Select, Readable, ShellInv, Sockets, Events, Types, SocketType, TtyType, Open, Writers,
    Idle, fd_table
<1>3. Events'
  BY
    DEF Select, Readable, ShellInv, Sockets, Events, Types, SocketType, TtyType, Open, Writers,
    Idle, fd_table
<1> QED
  BY <1>1, <1>2, <1>3 DEF ShellInv

LEMMA ForcedReadKeeps ==
  ASSUME ShellInv, ForcedRead
  PROVE  ShellInv'
<1>0. forced \in Shells /\ AfterRead(forced, AtEnd(forced))
  BY ReadIsUnforced DEF ForcedRead, ShellInv, Events
<1>1. Types'
  BY ReadTypes DEF ForcedRead, ShellInv, Types, Events
<1>2. Sockets'
  <2>1. /\ tty' = [tty EXCEPT ![forced].buf = tty[forced].buf - ReadSize(forced)]
        /\ \A u \in Shells : sh'[u].fd = sh[u].fd
        /\ \A u \in Shells : sh'[u].st = IF u = forced /\ AtEnd(forced) THEN "ended" ELSE sh[u].st
    BY <1>0 DEF AfterRead, ShellInv, Types, SocketType, TtyType
  <2>2. \A u \in Shells : /\ tty'[u].buf = IF u = forced THEN tty[forced].buf - ReadSize(forced) ELSE tty[u].buf
                          /\ tty'[u].wrote = tty[u].wrote /\ Writers(u)' = Writers(u)
    BY <2>1 DEF ShellInv, Types, TtyType, Writers
  <2>3. \A u, v \in Shells : (Open(u) /\ Open(v) /\ sh[u].fd = sh[v].fd)' => u = v
    BY <2>1 DEF ShellInv, Sockets, Open
  <2>4. AtEnd(forced) => tty[forced].buf - ReadSize(forced) = 0 /\ ~Writers(forced)
    BY ReadSizes, <1>0 DEF ShellInv
  <2>5. \A u \in Shells : tty'[u].buf <= tty'[u].wrote
    BY <1>0, <2>2, ReadSizes DEF ShellInv, Sockets, Types, TtyType
  <2>6. \A u \in Shells : sh'[u].st = "ended" => tty'[u].buf = 0 /\ ~Writers(u)'
    <3>1. sh[forced].st # "ended"
      BY DEF ForcedRead, ShellInv, Events, Open
    <3>2. ASSUME NEW u \in Shells, u # forced, sh'[u].st = "ended"
          PROVE  tty'[u].buf = 0 /\ ~Writers(u)'
      BY <2>1, <2>2, <3>2 DEF ShellInv, Sockets
    <3>3. ASSUME NEW u \in Shells, u = forced, sh'[u].st = "ended"
          PROVE  tty'[u].buf = 0 /\ ~Writers(u)'
      BY <2>1, <2>2, <2>4, <3>1, <3>3
    <3> QED
      BY <3>2, <3>3
  <2> QED
    BY <2>3, <2>5, <2>6 DEF Sockets
<1>3. Events'
  BY <1>0
    DEF ForcedRead, AfterRead, AtEnd, HungUp, ReadSize, ShellInv, Sockets, Events, Types,
    SocketType, TtyType, Open, Writers, Idle, fd_table
<1> QED
  BY <1>1, <1>2, <1>3 DEF ShellInv

LEMMA ReadEventKeeps ==
  ASSUME ShellInv, NEW s \in Shells, ReadEvent(s)
  PROVE  ShellInv'
<1>0. s \in Shells /\ AfterRead(s, AtEnd(s))
  BY ReadIsUnforced DEF ReadEvent, ShellInv, Events
<1>1. Types'
  BY ReadTypes DEF ReadEvent, ShellInv, Types, Events
<1>2. Sockets'
  <2>1. /\ tty' = [tty EXCEPT ![s].buf = tty[s].buf - ReadSize(s)]
        /\ \A u \in Shells : sh'[u].fd = sh[u].fd
        /\ \A u \in Shells : sh'[u].st = IF u = s /\ AtEnd(s) THEN "ended" ELSE sh[u].st
    BY <1>0 DEF AfterRead, ShellInv, Types, SocketType, TtyType
  <2>2. \A u \in Shells : /\ tty'[u].buf = IF u = s THEN tty[s].buf - ReadSize(s) ELSE tty[u].buf
                          /\ tty'[u].wrote = tty[u].wrote /\ Writers(u)' = Writers(u)
    BY <2>1 DEF ShellInv, Types, TtyType, Writers
  <2>3. \A u, v \in Shells : (Open(u) /\ Open(v) /\ sh[u].fd = sh[v].fd)' => u = v
    BY <2>1 DEF ShellInv, Sockets, Open
  <2>4. AtEnd(s) => tty[s].buf - ReadSize(s) = 0 /\ ~Writers(s)
    BY ReadSizes, <1>0 DEF ShellInv
  <2>5. \A u \in Shells : tty'[u].buf <= tty'[u].wrote
    BY <1>0, <2>2, ReadSizes DEF ShellInv, Sockets, Types, TtyType
  <2>6. \A u \in Shells : sh'[u].st = "ended" => tty'[u].buf = 0 /\ ~Writers(u)'
    <3>1. sh[s].st # "ended"
      BY DEF ReadEvent, ShellInv, Events, Open
    <3>2. ASSUME NEW u \in Shells, u # s, sh'[u].st = "ended"
          PROVE  tty'[u].buf = 0 /\ ~Writers(u)'
      BY <2>1, <2>2, <3>2 DEF ShellInv, Sockets
    <3>3. ASSUME NEW u \in Shells, u = s, sh'[u].st = "ended"
          PROVE  tty'[u].buf = 0 /\ ~Writers(u)'
      BY <2>1, <2>2, <2>4, <3>1, <3>3
    <3> QED
      BY <3>2, <3>3
  <2> QED
    BY <2>3, <2>5, <2>6 DEF Sockets
<1>3. Events'
  BY <1>0
    DEF ReadEvent, AfterRead, AtEnd, HungUp, ReadSize, ShellInv, Sockets, Events, Types,
    SocketType, TtyType, Open, Writers, Idle, fd_table
<1> QED
  BY <1>1, <1>2, <1>3 DEF ShellInv

LEMMA WriteKeeps ==
  ASSUME ShellInv, NEW s \in Shells, Write(s)
  PROVE  ShellInv'
<1>1. Types'
  <2> DEFINE m == tty[s].buf + 1
             n == tty[s].wrote + 1
  <2>1. m \in 0 .. MaxOut /\ n \in 0 .. MaxOut /\ tty' = [tty EXCEPT ![s].buf = m, ![s].wrote = n]
    BY DEF Write, ShellInv, Sockets, Types, TtyType
  <2> HIDE DEF m, n
  <2>2. [tty[s] EXCEPT !.buf = m, !.wrote = n] \in TtyType
    BY <2>1 DEF ShellInv, Types, TtyType
  <2> QED
    BY ZenonT(30), <2>1, <2>2 DEF Write, ShellInv, Types
<1>2. Sockets'
  BY
    DEF Write, ShellInv, Sockets, Events, Types, SocketType, TtyType, Open, Writers, Idle,
    fd_table
<1>3. Events'
  BY
    DEF Write, ShellInv, Sockets, Events, Types, SocketType, TtyType, Open, Writers, Idle,
    fd_table
<1> QED
  BY <1>1, <1>2, <1>3 DEF ShellInv

LEMMA LetGoKeeps ==
  ASSUME ShellInv, NEW s \in Shells, LetGo(s)
  PROVE  ShellInv'
<1>1. Types'
  BY SetHeld, Zenon DEF LetGo, ShellInv, Types
<1>2. Sockets'
  BY
    DEF LetGo, ShellInv, Sockets, Events, Types, SocketType, TtyType, Open, Writers, Idle,
    fd_table
<1>3. Events'
  BY
    DEF LetGo, ShellInv, Sockets, Events, Types, SocketType, TtyType, Open, Writers, Idle,
    fd_table
<1> QED
  BY <1>1, <1>2, <1>3 DEF ShellInv

LEMMA ExitKeeps ==
  ASSUME ShellInv, NEW s \in Shells, NEW held \in BOOLEAN, Exit(s, held)
  PROVE  ShellInv'
<1>1. Types'
  BY SetProcHeld DEF Exit, ShellInv, Types
<1>2. Sockets'
  BY
    DEF Exit, ShellInv, Sockets, Events, Types, SocketType, TtyType, Open, Writers, Idle,
    fd_table
<1>3. Events'
  BY
    DEF Exit, ShellInv, Sockets, Events, Types, SocketType, TtyType, Open, Writers, Idle,
    fd_table
<1> QED
  BY <1>1, <1>2, <1>3 DEF ShellInv

LEMMA OpenFailsKeeps ==
  ASSUME ShellInv, NEW s \in Shells, OpenFails(s)
  PROVE  ShellInv'
<1>1. Types'
  <2>1. FALSE \in BOOLEAN /\ "zombie" \in {"none", "run", "zombie", "reaped"}
    OBVIOUS
  <2> QED
    BY <2>1, SetProcOpened, Zenon DEF OpenFails, ShellInv, Types
<1>2. Sockets'
  BY
    DEF OpenFails, ShellInv, Sockets, Events, Types, SocketType, TtyType, Open, Writers, Idle,
    fd_table
<1>3. Events'
  BY
    DEF OpenFails, ShellInv, Sockets, Events, Types, SocketType, TtyType, Open, Writers, Idle,
    fd_table
<1> QED
  BY <1>1, <1>2, <1>3 DEF ShellInv

LEMMA ReapKeeps ==
  ASSUME ShellInv, NEW s \in Shells, Reap(s)
  PROVE  ShellInv'
<1>1. Types'
  BY SetProc DEF Reap, ShellInv, Types
<1>2. Sockets'
  BY
    DEF Reap, ShellInv, Sockets, Events, Types, SocketType, TtyType, Open, Writers, Idle,
    fd_table
<1>3. Events'
  BY
    DEF Reap, ShellInv, Sockets, Events, Types, SocketType, TtyType, Open, Writers, Idle,
    fd_table
<1> QED
  BY <1>1, <1>2, <1>3 DEF ShellInv

LEMMA ReapAnyKeeps ==
  ASSUME ShellInv, NEW s \in Shells, ReapAny(s)
  PROVE  ShellInv'
<1>1. CASE \E u \in Shells : /\ tty[u].proc = "zombie"
                            /\ tty' = [tty EXCEPT ![u].proc = "reaped"] /\ UNCHANGED waiter
  <2>1. PICK u \in Shells : tty[u].proc = "zombie"
                            /\ tty' = [tty EXCEPT ![u].proc = "reaped"] /\ UNCHANGED waiter
    BY <1>1
  <2>2. Types'
    BY <2>1, SetProc DEF ReapAny, ShellInv, Types
  <2>3. Sockets' /\ Events'
    BY <2>1
      DEF ReapAny, ShellInv, Sockets, Events, Types, SocketType, TtyType, Open, Writers, Idle,
      fd_table
  <2> QED
    BY <2>2, <2>3 DEF ShellInv
<1>2. CASE waiter' = [waiter EXCEPT ![s] = "write"] /\ UNCHANGED tty
  BY <1>2
    DEF ReapAny, ShellInv, Sockets, Events, Types, SocketType, TtyType, Open, Writers, Idle,
    fd_table
<1> QED
  BY <1>1, <1>2 DEF ReapAny

LEMMA NotifyKeeps ==
  ASSUME ShellInv, NEW s \in Shells, Notify(s)
  PROVE  ShellInv'
<1>1. Types'
  BY DEF Notify, ShellInv, Types, SocketType
<1>2. Sockets'
  BY
    DEF Notify, ShellInv, Sockets, Events, Types, SocketType, TtyType, Open, Writers, Idle,
    fd_table
<1>3. Events'
  BY SMTT(30)
    DEF Notify, ShellInv, Sockets, Events, Types, SocketType, TtyType, Open, Writers, Idle,
    fd_table
<1> QED
  BY <1>1, <1>2, <1>3 DEF ShellInv

LEMMA OkayKeeps ==
  ASSUME ShellInv, NEW s \in Shells, Okay(s)
  PROVE  ShellInv'
<1>1. Types'
  <2> DEFINE n == sh[s].sent - 1
  <2>1. n \in Nat /\ sh \in [Shells -> SocketType] /\ TRUE \in BOOLEAN
        /\ sh' = [sh EXCEPT ![s].sent = n, ![s].read = TRUE]
    BY DEF Okay, ShellInv, Types, SocketType
  <2> HIDE DEF n
  <2>2. \A b \in BOOLEAN : [sh[s] EXCEPT !.sent = n, !.read = b] \in SocketType
    BY <2>1 DEF SocketType
  <2>3. sh' \in [Shells -> SocketType]
    BY <2>1, <2>2
  <2> QED
    BY <2>3 DEF Okay, ShellInv, Types
<1>2. Sockets'
  BY
    DEF Okay, ShellInv, Sockets, Events, Types, SocketType, TtyType, Open, Writers, Idle,
    fd_table
<1>3. Events'
  BY
    DEF Okay, ShellInv, Sockets, Events, Types, SocketType, TtyType, Open, Writers, Idle,
    fd_table
<1> QED
  BY <1>1, <1>2, <1>3 DEF ShellInv

LEMMA CloseKeeps ==
  ASSUME ShellInv, NEW s \in Shells, Close(s)
  PROVE  ShellInv'
<1>1. Types'
  BY SetSt DEF Close, ShellInv, Types
<1>2. Sockets'
  BY
    DEF Close, ShellInv, Sockets, Events, Types, SocketType, TtyType, Open, Writers, Idle,
    fd_table
<1>3. Events'
  BY
    DEF Close, ShellInv, Sockets, Events, Types, SocketType, TtyType, Open, Writers, Idle,
    fd_table
<1> QED
  BY <1>1, <1>2, <1>3 DEF ShellInv

LEMMA CreateKeeps ==
  ASSUME ShellInv, NEW s \in Shells, NEW n \in Fds, create_subproc_thread(s, n)
  PROVE  ShellInv'
<1>1. Types'
  BY SetProc DEF create_subproc_thread, ShellInv, Types, NoSocket, SocketType
<1>2. Sockets'
  BY
    DEF create_subproc_thread, NoSocket, ShellInv, Sockets, Events, Types, SocketType, TtyType,
    Open, Writers, Idle, fd_table
<1>3. Events'
  BY
    DEF create_subproc_thread, NoSocket, ShellInv, Sockets, Events, Types, SocketType, TtyType,
    Open, Writers, Idle, fd_table
<1> QED
  BY <1>1, <1>2, <1>3 DEF ShellInv

LEMMA StartFailsKeeps ==
  ASSUME ShellInv, NEW s \in Shells, NEW pid \in {-1, 0}, StartFails(s, pid)
  PROVE  ShellInv'
<1>1. Types'
  BY SetSt DEF StartFails, ShellInv, Types
<1>2. Sockets'
  BY
    DEF StartFails, ShellInv, Sockets, Events, Types, SocketType, TtyType, Open, Writers, Idle,
    fd_table
<1>3. Events'
  BY
    DEF StartFails, ShellInv, Sockets, Events, Types, SocketType, TtyType, Open, Writers, Idle,
    fd_table
<1> QED
  BY <1>1, <1>2, <1>3 DEF ShellInv

\* Whoever owns the number is marked; nothing else of the sockets changes.
LEMMA SubprocMarks ==
  ASSUME Types, SubprocEvent
  PROVE  /\ sh' \in [Shells -> SocketType]
         /\ \A s \in Shells : sh'[s].st = sh[s].st /\ sh'[s].fd = sh[s].fd
<1>1. ASSUME NEW s \in Shells
      PROVE  sh'[s] \in SocketType /\ sh'[s].st = sh[s].st /\ sh'[s].fd = sh[s].fd
  <2> DEFINE b == sh[s].force \/ s \in fd_table(Head(exits))
  <2>1. b \in BOOLEAN /\ sh'[s] = [sh[s] EXCEPT !.force = b] /\ sh[s] \in SocketType
    BY DEF SubprocEvent, Types
  <2> HIDE DEF b
  <2> QED
    BY <2>1 DEF SocketType
<1>2. sh' = [s \in Shells |-> sh'[s]]
  BY DEF SubprocEvent
<1> QED
  BY <1>1, <1>2

LEMMA SubprocEventKeeps ==
  ASSUME ShellInv, SubprocEvent
  PROVE  ShellInv'
<1>1. Types'
  BY SubprocMarks, HeadTailProperties DEF SubprocEvent, ShellInv, Types, Events
<1>2. Sockets'
  <2>1. tty' = tty /\ \A s \in Shells : sh'[s].st = sh[s].st /\ sh'[s].fd = sh[s].fd
    BY SubprocMarks DEF SubprocEvent, ShellInv
  <2> QED
    BY <2>1 DEF ShellInv, Sockets, Open, Writers
<1>3. forced' = None \/ (forced' \in Shells /\ Open(forced') /\ forced' \notin pend)
  <2>1. \A s, u \in fd_table(Head(exits)) : s = u
    BY DEF ShellInv, Sockets, fd_table
  <2>2. \A s \in fd_table(Head(exits)) : s \in Shells /\ Open(s)
    BY DEF fd_table
  <2> QED
    BY <2>1, <2>2 DEF SubprocEvent, Idle
<1>4. Events'
  BY <1>3, SubprocMarks DEF SubprocEvent, ShellInv, Events, Open
<1> QED
  BY <1>1, <1>2, <1>4 DEF ShellInv

-----------------------------------------------------------------------------
(* The theorem.                                                            *)

LEMMA ShellStep == ShellInv /\ [Next]_vars => ShellInv'
<1> SUFFICES ASSUME ShellInv, [Next]_vars PROVE ShellInv'
  OBVIOUS
<1>1. CASE MainLoop
  BY <1>1, SelectKeeps, SubprocEventKeeps, ForcedReadKeeps, ReadEventKeeps DEF MainLoop
<1>2. ASSUME NEW s \in Shells, subproc_waiter_service(s)
      PROVE  ShellInv'
  BY <1>2, ReapKeeps, ReapAnyKeeps, NotifyKeeps DEF subproc_waiter_service
<1>3. CASE UNCHANGED vars
  BY <1>3
    DEF vars, ShellInv, Sockets, Events, Types, SocketType, TtyType, Open, Writers, Idle,
    fd_table
<1> QED
  BY <1>1, <1>2, <1>3, WriteKeeps, OpenFailsKeeps, LetGoKeeps, ExitKeeps, CreateKeeps,
     StartFailsKeeps, OkayKeeps, CloseKeeps DEF Next

LEMMA ShellInvariant == Spec => []ShellInv
BY ShellInit, ShellStep, PTL DEF Spec

\* For every number of shells, every packet size and every reuse of descriptors: a
\* stream that adbd ends has carried all the output (local_socket_event_func,
\* sockets.c, and fdevent_subproc_event_func, fdevent.c).
THEOREM OutputIsWhole == Spec => []OutputWhole
<1>1. ShellInv => OutputWhole
  <2> SUFFICES ASSUME ShellInv PROVE OutputWhole
    OBVIOUS
  <2>1. TypeOK
    BY DEF ShellInv, Types, SocketType, TtyType, Events, TypeOK
  <2> QED
    BY <2>1 DEF ShellInv, Sockets, OutputWhole
<1> QED
  BY <1>1, ShellInvariant, PTL
=============================================================================
