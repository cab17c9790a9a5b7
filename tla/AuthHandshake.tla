----------------------------- MODULE AuthHandshake -----------------------------
(***************************************************************************)
(* Authentication of a host by adbd (adb.c, adb_auth_host.c,               *)
(* adb_auth_client.c) when ro.adb.secure is set.  The host tries its       *)
(* private keys one after the other, each on a new token; when none is     *)
(* accepted it sends its public key, which adbd passes to the framework,   *)
(* for the user to confirm.  adbd keeps one connection to the framework    *)
(* and the transport that waits for the user in global variables, and      *)
(* registers the framework's descriptor with an fdevent that is a field of *)
(* that transport.                                                         *)
(*                                                                         *)
(* Host and device are joined by one cable: a transport of adbd lives from *)
(* Attach to Detach, and the host process may be restarted in between,     *)
(* with packets of its predecessor still on the way in both directions.    *)
(* RSA and the user interface are external.                                *)
(***************************************************************************)
EXTENDS Integers, Sequences

CONSTANTS
  Keys,           \* the number of private keys of the host; the first is the user key
  MaxTransports,  \* bound: how often the cable is plugged in
  MaxFrameworks,  \* bound: how often the framework connects
  MaxRestarts     \* bound: how often the host process is restarted

ASSUME KeysAssumption == Keys \in Nat \ {0}
ASSUME BoundsAssumption == MaxTransports \in Nat /\ MaxFrameworks \in Nat /\ MaxRestarts \in Nat

VARIABLES
  host,      \* the host's transport: connection_state and key (0 is NULL)
  adbd,      \* adbd: its transport t (0 when the cable is out) with its
             \* connection_state, online and token; usb_transport, needs_retry
             \* and framework_fd (0 for NULL and -1)
  fdes,      \* fdes[t]: the fdevent auth_fde of the transport t
  fd_table,  \* fd_table[n]: the transport whose auth_fde is registered for the
             \* descriptor n (0: none); the n-th framework has the descriptor n
  crashed,   \* adbd called a function through freed memory
  toDevice, toHost,   \* packets on the cable
  frameworks,  \* the frameworks so far: is it up, for how many keys was it asked
               \* and has not answered, how many answers are on their way
  trusted,   \* the keys in adb_keys
  stored,    \* history: the user had a confirmed key stored
  plugged, restarts   \* counters, for the bounds

connVars == <<host, toDevice, toHost>>
frameworkVars == <<fdes, fd_table, crashed, frameworks, trusted, stored>>
vars == <<connVars, adbd, frameworkVars, plugged, restarts>>

Packet(type, key, token) == [type |-> type, key |-> key, token |-> token]
CNXN == Packet("CNXN", 0, 0)
TOKEN(token) == Packet("TOKEN", 0, token)
SIGNATURE(key, token) == Packet("SIGNATURE", key, token)
RSAPUBLICKEY == Packet("RSAPUBLICKEY", 1, 0)

\* A transport as calloc and the connection routines of the two sides leave it.
NewHost == [state |-> "offline", key |-> 0]
NoFde == [fd |-> 0, active |-> FALSE]

Init ==
  /\ host = NewHost
  /\ adbd = [t |-> 0, state |-> "offline", online |-> FALSE, token |-> 0,
             usb |-> 0, retry |-> FALSE, fd |-> 0]
  /\ fdes = [t \in 1 .. MaxTransports |-> NoFde]
  /\ fd_table = [n \in 1 .. MaxFrameworks |-> 0]
  /\ crashed = FALSE
  /\ toDevice = <<>> /\ toHost = <<>>
  /\ frameworks = <<>>
  /\ trusted \in SUBSET (1 .. Keys) /\ stored = FALSE
  /\ plugged = 0 /\ restarts = 0

-----------------------------------------------------------------------------
(* The host: handle_packet.                                                *)

adb_auth_nextkey_SkipsUserKey(current) ==
  IF current < 2 /\ Keys > 1 THEN 2 ELSE IF current = Keys THEN 0 ELSE current + 1

adb_auth_nextkey_RunsOff(current) == current + 1

adb_auth_nextkey(current) == IF current = Keys THEN 0 ELSE current + 1

HostTakes(type) == ~crashed /\ toHost # <<>> /\ Head(toHost).type = type

\* A_CNXN: the banner of adbd says "device".
HostConnected ==
  /\ HostTakes("CNXN")
  /\ host' = [host EXCEPT !.state = "device"]
  /\ toHost' = Tail(toHost)
  /\ UNCHANGED <<toDevice, adbd, frameworkVars, plugged, restarts>>

\* A_AUTH with a token: sign it with the next key, or send the public key.
HostAuth_KeepsState ==
  /\ HostTakes("TOKEN")
  /\ LET key == adb_auth_nextkey(host.key)
     IN  /\ host' = [host EXCEPT !.key = key]
         /\ toDevice' = Append(toDevice, IF key # 0 THEN SIGNATURE(key, Head(toHost).token)
                                                    ELSE RSAPUBLICKEY)
  /\ toHost' = Tail(toHost)
  /\ UNCHANGED <<adbd, frameworkVars, plugged, restarts>>

HostAuth ==
  /\ HostTakes("TOKEN")
  /\ LET key == adb_auth_nextkey(host.key)
     IN  /\ host' = [state |-> "unauthorized", key |-> key]
         /\ toDevice' = Append(toDevice, IF key # 0 THEN SIGNATURE(key, Head(toHost).token)
                                                    ELSE RSAPUBLICKEY)
  /\ toHost' = Tail(toHost)
  /\ UNCHANGED <<adbd, frameworkVars, plugged, restarts>>

-----------------------------------------------------------------------------
(* adbd: handle_packet.  The operators map adbd's variables, d, to their   *)
(* new values.                                                             *)

send_auth_request(d) == [d EXCEPT !.token = @ + 1]

adb_auth_verified(d) == [d EXCEPT !.online = TRUE]

usb_disconnected_KeepsRetry(d) == [d EXCEPT !.usb = 0]

usb_disconnected(d) == [d EXCEPT !.usb = 0, !.retry = FALSE]

\* handle_offline: run_transport_disconnects finds usb_disconnect on the list of
\* the transport that waits for the user.
handle_offline(d) ==
  LET off == [d EXCEPT !.state = "offline", !.online = FALSE]
  IN  IF d.usb = d.t THEN usb_disconnected(off) ELSE off

AdbdTakes(type) == ~crashed /\ toDevice # <<>> /\ Head(toDevice).type = type

AdbdStep(d) ==
  /\ adbd' = d
  /\ toDevice' = Tail(toDevice)
  /\ UNCHANGED <<host, plugged, restarts>>

\* A_CNXN.
AdbdConnect ==
  /\ AdbdTakes("CNXN")
  /\ LET off == IF adbd.state # "offline" THEN handle_offline(adbd) ELSE adbd
         d   == send_auth_request([off EXCEPT !.state = "host"])
     IN  AdbdStep(d) /\ toHost' = Append(toHost, TOKEN(d.token))
  /\ UNCHANGED frameworkVars

\* adb_auth_verify: one of the keys on file made the signature, of this token.
adb_auth_verify(p) == p.key \in trusted /\ p.token = adbd.token

\* A_AUTH with a signature.
AdbdSignature ==
  /\ AdbdTakes("SIGNATURE")
  /\ IF adb_auth_verify(Head(toDevice))
     THEN AdbdStep(adb_auth_verified(adbd)) /\ toHost' = Append(toHost, CNXN)
     ELSE LET d == send_auth_request(adbd)
          IN  AdbdStep(d) /\ toHost' = Append(toHost, TOKEN(d.token))
  /\ UNCHANGED frameworkVars

\* A_AUTH with a public key: adb_auth_confirm_key.  A framework that is gone
\* fails the write.
adb_auth_confirm_key ==
  /\ AdbdTakes("RSAPUBLICKEY")
  /\ UNCHANGED toHost
  /\ LET d == [adbd EXCEPT !.usb = IF @ = 0 THEN adbd.t ELSE @]
     IN  IF d.fd = 0
         THEN /\ AdbdStep([d EXCEPT !.retry = TRUE])
              /\ UNCHANGED frameworkVars
         ELSE /\ AdbdStep(d)
              /\ frameworks' = [frameworks EXCEPT ![d.fd].asked = @ + 1]
              /\ IF frameworks[d.fd].up
                 THEN /\ fdes' = [fdes EXCEPT ![d.t] = [fd |-> d.fd, active |-> TRUE]]
                      /\ fd_table' = [fd_table EXCEPT ![d.fd] = d.t]
                 ELSE UNCHANGED <<fdes, fd_table>>
              /\ UNCHANGED <<crashed, trusted, stored>>

-----------------------------------------------------------------------------
(* adbd and the framework.                                                 *)

\* The framework connects: adb_auth_listener.
adb_auth_listener_NoRetry ==
  /\ ~crashed /\ Len(frameworks) < MaxFrameworks
  /\ \A n \in DOMAIN frameworks : ~frameworks[n].up
  /\ frameworks' = Append(frameworks, [up |-> TRUE, asked |-> 0, answers |-> 0])
  /\ adbd' = [adbd EXCEPT !.fd = Len(frameworks) + 1, !.retry = FALSE]
  /\ UNCHANGED <<connVars, fdes, fd_table, crashed, trusted, stored, plugged, restarts>>

adb_auth_listener ==
  /\ ~crashed /\ Len(frameworks) < MaxFrameworks
  /\ \A n \in DOMAIN frameworks : ~frameworks[n].up
  /\ frameworks' = Append(frameworks, [up |-> TRUE, asked |-> 0, answers |-> 0])
  /\ LET d == [adbd EXCEPT !.fd = Len(frameworks) + 1]
     IN  IF d.retry
         THEN LET r == send_auth_request([d EXCEPT !.retry = FALSE])
              IN  adbd' = r /\ toHost' = Append(toHost, TOKEN(r.token))
         ELSE adbd' = d /\ UNCHANGED toHost
  /\ UNCHANGED <<host, toDevice, fdes, fd_table, crashed, trusted, stored, plugged, restarts>>

\* select() reports the descriptor n: an answer, or the end of file.
Readable(n) ==
  fd_table[n] # 0 /\ (frameworks[n].answers > 0 \/ ~frameworks[n].up)

\* The fdevent of fd_table[n] lies in a transport that was freed.
EventOnFreed(n) ==
  /\ ~crashed /\ Readable(n) /\ fd_table[n] # adbd.t
  /\ crashed' = TRUE
  /\ UNCHANGED <<connVars, adbd, fdes, fd_table, frameworks, trusted, stored, plugged, restarts>>

\* adb_auth_event reads from the descriptor its fdevent holds by now.
EventReads(n) == fdes[fd_table[n]].fd

\* "OK": usb_transport, if there is one, is verified.
EventOK(n) ==
  /\ ~crashed /\ Readable(n) /\ fd_table[n] = adbd.t
  /\ fdes[adbd.t].active /\ frameworks[EventReads(n)].answers > 0
  /\ frameworks' = [frameworks EXCEPT ![EventReads(n)].answers = @ - 1]
  /\ IF adbd.usb # 0
     THEN adbd' = adb_auth_verified(adbd) /\ toHost' = Append(toHost, CNXN)
     ELSE UNCHANGED <<adbd, toHost>>
  /\ UNCHANGED <<host, toDevice, fdes, fd_table, crashed, trusted, stored, plugged, restarts>>

\* The end of file (ret = 0) falls through both branches; select() will report
\* the descriptor again and again.
EventEOF(n) ==
  /\ ~crashed /\ Readable(n) /\ fd_table[n] = adbd.t
  /\ LET f == EventReads(n)
     IN  frameworks[f].answers = 0 /\ ~frameworks[f].up /\ fdes[adbd.t].active
  /\ UNCHANGED vars

\* Nothing to read (EAGAIN), or a descriptor that was closed.
EventError(n) ==
  /\ ~crashed /\ Readable(n) /\ fd_table[n] = adbd.t
  /\ LET f == EventReads(n)
     IN  /\ ~fdes[adbd.t].active \/ (frameworks[f].answers = 0 /\ frameworks[f].up)
         /\ IF adbd.usb # 0 /\ fdes[adbd.usb].active
            THEN /\ fd_table' = [fd_table EXCEPT ![fdes[adbd.usb].fd] = 0]
                 /\ fdes' = [fdes EXCEPT ![adbd.usb].active = FALSE]
            ELSE UNCHANGED <<fd_table, fdes>>
  /\ adbd' = [adbd EXCEPT !.fd = 0]
  /\ UNCHANGED <<connVars, crashed, frameworks, trusted, stored, plugged, restarts>>

adb_auth_event(n) == EventOnFreed(n) \/ EventOK(n) \/ EventEOF(n) \/ EventError(n)

-----------------------------------------------------------------------------
(* The cable, the host's user and the device's user.                       *)

\* Both sides register a transport; the host sends CNXN on its SYNC(1).
Attach ==
  /\ ~crashed /\ adbd.t = 0 /\ plugged < MaxTransports
  /\ plugged' = plugged + 1
  /\ host' = NewHost
  /\ adbd' = [adbd EXCEPT !.t = plugged + 1, !.state = "offline", !.online = FALSE]
  /\ toDevice' = <<CNXN>> /\ toHost' = <<>>
  /\ UNCHANGED <<frameworkVars, restarts>>

\* The cable is pulled out: SYNC(0), and the removal of the transport.
Detach ==
  /\ ~crashed /\ adbd.t # 0
  /\ adbd' = [handle_offline(adbd) EXCEPT !.t = 0]
  /\ host' = NewHost
  /\ toDevice' = <<>> /\ toHost' = <<>>
  /\ UNCHANGED <<frameworkVars, plugged, restarts>>

\* "adb kill-server", and a new server; what was sent stays on the cable.
HostRestarts ==
  /\ ~crashed /\ adbd.t # 0 /\ restarts < MaxRestarts
  /\ restarts' = restarts + 1
  /\ host' = NewHost
  /\ toDevice' = Append(toDevice, CNXN)
  /\ UNCHANGED <<toHost, adbd, frameworkVars, plugged>>

\* The user confirms a key, and may have it stored in adb_keys.
UserConfirms(n) ==
  /\ frameworks[n].up /\ frameworks[n].asked > 0
  /\ frameworks' = [frameworks EXCEPT ![n].asked = @ - 1, ![n].answers = @ + 1]
  /\ \/ UNCHANGED <<trusted, stored>>
     \/ trusted' = trusted \union {1} /\ stored' = TRUE
  /\ UNCHANGED <<connVars, adbd, fdes, fd_table, crashed, plugged, restarts>>

FrameworkDies(n) ==
  /\ frameworks[n].up /\ Len(frameworks) < MaxFrameworks
  /\ frameworks' = [frameworks EXCEPT ![n].up = FALSE]
  /\ UNCHANGED <<connVars, adbd, fdes, fd_table, crashed, trusted, stored, plugged, restarts>>

-----------------------------------------------------------------------------
Host == HostConnected \/ HostAuth

Adbd ==
  \/ AdbdConnect \/ AdbdSignature \/ adb_auth_confirm_key
  \/ \E n \in DOMAIN frameworks : adb_auth_event(n)

Next ==
  \/ Host \/ Adbd \/ adb_auth_listener
  \/ Attach \/ Detach \/ HostRestarts
  \/ \E n \in DOMAIN frameworks : UserConfirms(n) \/ FrameworkDies(n)

Spec == Init /\ [][Next]_vars

\* The two main loops run, the framework comes up, and the user answers.  The
\* cable and the host's user are not asked for anything.
FairSpec ==
  /\ Spec
  /\ WF_vars(Host) /\ WF_vars(Adbd) /\ WF_vars(adb_auth_listener)
  /\ WF_vars(\E n \in DOMAIN frameworks : UserConfirms(n))

-----------------------------------------------------------------------------
(* Properties.                                                             *)

Packets == [type : {"CNXN", "TOKEN", "SIGNATURE", "RSAPUBLICKEY"}, key : 0 .. Keys, token : Nat]

AdbdRecord ==
  [t : 0 .. MaxTransports, state : {"offline", "host"}, online : BOOLEAN, token : Nat,
   usb : 0 .. MaxTransports, retry : BOOLEAN, fd : 0 .. MaxFrameworks]

CableType ==
  /\ host \in [state : {"offline", "unauthorized", "device"}, key : 0 .. Keys]
  /\ toDevice \in Seq(Packets) /\ toHost \in Seq(Packets)
  /\ plugged \in 0 .. MaxTransports /\ restarts \in 0 .. MaxRestarts

FrameworkType ==
  /\ fdes \in [1 .. MaxTransports -> [fd : 0 .. MaxFrameworks, active : BOOLEAN]]
  /\ fd_table \in [1 .. MaxFrameworks -> 0 .. MaxTransports]
  /\ crashed \in BOOLEAN 
  /\ frameworks \in Seq([up : BOOLEAN, asked : Nat, answers : Nat])
  /\ Len(frameworks) <= MaxFrameworks
  /\ trusted \subseteq 1 .. Keys /\ stored \in BOOLEAN

\* Type correctness: the key of the host is one of its keys or NULL.
TypeOK == adbd \in AdbdRecord /\ CableType /\ FrameworkType

\* adb_auth_listener sends its request to usb_transport without a test: whenever
\* a retry is due, that is the transport that is there.
RetryHasTransport == adbd.retry => adbd.usb # 0 /\ adbd.usb = adbd.t

\* When nothing is on its way to the host, it shows the device as connected only
\* if adbd accepts its streams, whatever was on the cable when it was restarted.
ShownIsOnline == toHost = <<>> /\ host.state = "device" => adbd.online

\* protocol.txt:90: the public key is the last resort, for a host none of whose
\* keys is on file; a known host never makes adbd ask the user.  Up to the first
\* restart (a new host may be judged on what its predecessor sent) and until a
\* key is stored, which may be after the host tried it.
NoNeedlessPrompt ==
  restarts = 0 /\ ~stored /\ (\E n \in DOMAIN toDevice : toDevice[n].type = "RSAPUBLICKEY")
    => trusted = {}

\* A framework was asked for a key and ended, or had ended, without an answer; or
\* adbd forgot the one that is up, whose descriptor it read for the event of one that
\* had ended ("Framework disconnect").  Nothing asks for the key again then.
KeyForgotten ==
  \/ \E n \in DOMAIN frameworks : ~frameworks[n].up /\ frameworks[n].asked > 0
  \/ adbd.fd = 0 /\ \E n \in DOMAIN frameworks : frameworks[n].up

\* A host on the cable is connected in the end, with a stored key or with the
\* user's help, even when it comes before the framework does, or between two of
\* them; unless its key was forgotten.
ConnectedInTheEnd ==
  (adbd.t # 0) ~> (adbd.t = 0 \/ crashed \/ KeyForgotten
                     \/ (adbd.online /\ host.state = "device"))
=============================================================================
