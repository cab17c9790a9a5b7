------------------------------- MODULE StreamPipe -------------------------------
(***************************************************************************)
(* What adb promises the two clients of one stream: a pair of byte pipes   *)
(* between the opener's descriptor and the service's.  No packets, credits *)
(* or queues: only what the clients put in and what comes out.             *)
(*                                                                         *)
(* A descriptor is closed by adb only when there is a reason for it: one   *)
(* of the two clients ended its connection, the other end was never there  *)
(* or is gone, or the link broke.  A client that did not end anything, on  *)
(* a link that holds, has by then been given all that adb took from the    *)
(* other client.                                                           *)
(***************************************************************************)
EXTENDS Integers

CONSTANT Window   \* the bytes adb may hold for one direction of the stream

VARIABLES
  end,     \* end[s]: the descriptor of side s
  linked   \* the two sides are connected

vars == <<end, linked>>

Side == {"host", "device"}
Other(s) == IF s = "host" THEN "device" ELSE "host"

(*   st    "none" until the stream is opened there, "gone" once closed     *)
(*   shut  the client shut down writing ("half") or closed ("full")        *)
(*   put, got   bytes the client wrote, bytes adb took of them             *)
(*   out, took  bytes adb gave the client, bytes the client read of them   *)
End == [st : {"none", "open", "gone"}, shut : {"no", "half", "full"},
        put : Nat, got : Nat, out : Nat, took : Nat]

NoEnd == [st |-> "none", shut |-> "no", put |-> 0, got |-> 0, out |-> 0, took |-> 0]

Init == end = [s \in Side |-> NoEnd] /\ linked = TRUE

Becomes(s, e) == end' = [end EXCEPT ![s] = e] /\ UNCHANGED linked

\* The opener's client may have shut down writing with its request; it is then
\* told so and closed at once.
Open(s, e) ==
  /\ end[s].st = "none"
  /\ s = "device" => end["host"].st # "none"
  /\ \/ e = [NoEnd EXCEPT !.st = "open"]
     \/ s = "host" /\ e = [NoEnd EXCEPT !.st = "gone", !.shut = "half"]
  /\ Becomes(s, e)

\* The client writes, reads, or ends its connection.
Client(s, e) ==
  /\ end[s].st = "open" /\ end[s].shut # "full"
  /\ \/ end[s].shut = "no" /\ e = [end[s] EXCEPT !.put = @ + 1]
     \/ e = [end[s] EXCEPT !.took = end[s].out]
     \/ \E how \in {"half", "full"} : e = [end[s] EXCEPT !.shut = how]
  /\ Becomes(s, e)

Reason(s) ==
  \/ \E r \in Side : end[r].shut # "no"
  \/ end[Other(s)].st # "open"
  \/ ~linked

AllGiven(s, e) == e.out = end[Other(s)].got

\* adb takes bytes from the client of s, gives it bytes of the other client,
\* and closes its descriptor: any of these, in one step.
Adb(s, e) ==
  /\ end[s].st = "open"
  /\ e.st \in {"open", "gone"} /\ UNCHANGED linked
  /\ e.shut = end[s].shut /\ e.put = end[s].put /\ e.took = end[s].took
  /\ e.got \in end[s].got .. e.put
  /\ e.out \in end[s].out .. end[Other(s)].got
  /\ e.got > end[s].got /\ end[Other(s)].shut = "no" /\ linked
       => e.got - end[Other(s)].out <= Window
  /\ e.st = "gone" => /\ Reason(s)
                      /\ e.shut = "no" /\ linked => AllGiven(s, e)
  /\ end' = [end EXCEPT ![s] = e]

Break == linked /\ linked' = FALSE /\ UNCHANGED end

\* The step is determined by the new value of end[s].
Next ==
  \/ Break
  \/ \E s \in Side : LET e == end'[s] IN Open(s, e) \/ Client(s, e) \/ Adb(s, e)

Spec == Init /\ [][Next]_vars
=============================================================================
