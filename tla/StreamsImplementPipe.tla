-------------------------- MODULE StreamsImplementPipe --------------------------
(***************************************************************************)
(* The stream between the first socket of the host and the first of the    *)
(* device, as AdbStreams runs it, is a StreamPipe.  With one socket on     *)
(* each side (MaxId = 1) the two belong together.                          *)
(***************************************************************************)
EXTENDS AdbStreams

EndOf(so) ==
  [st   |-> CASE so.st = "none"  -> "none"
              [] so.st = "freed" -> "gone"
              [] OTHER           -> "open",
   shut |-> so.shut, put |-> so.src, got |-> so.got, out |-> so.out, took |-> so.took]

Pipe == INSTANCE StreamPipe WITH
  Window <- MAX_PAYLOAD,
  end    <- [s \in Side |-> EndOf(sock[s][1])],
  linked <- (link = "up")

\* AdbStreams implements StreamPipe: however packets, events and closes of the
\* two processes interleave, the clients see two byte pipes that end only for a
\* reason and, unless a client or the link gave up, not before all is delivered.
IsPipe == Pipe!Spec
=============================================================================
