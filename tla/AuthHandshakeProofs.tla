-------------------------- MODULE AuthHandshakeProofs --------------------------
(***************************************************************************)
(* Proofs about AuthHandshake, for every number of keys, restarts,         *)
(* reconnections and frameworks.                                           *)
(***************************************************************************)
EXTENDS AuthHandshake, SequenceTheorems, TLAPS

\* framework_fd and the registered fdevents name frameworks that have connected.
Connected ==
  /\ adbd.fd <= Len(frameworks)
  /\ \A t \in 1 .. MaxTransports : fdes[t].active => fdes[t].fd \in 1 .. Len(frameworks)

\* usb_transport, when it is set, is the transport that is there, and is set when
\* a retry is due; without a transport nothing is on the cable.
Waiting ==
  /\ adbd.usb \in {0, adbd.t}
  /\ adbd.retry => adbd.usb # 0
  /\ adbd.t = 0 => toDevice = <<>> /\ toHost = <<>>

\* The last word adbd gave, on the cable or at the host, is CNXN only while adbd
\* is online.
LastWord ==
  /\ toHost # <<>> /\ toHost[Len(toHost)].type = "CNXN" => adbd.online
  /\ ShownIsOnline

AuthInv == TypeOK /\ Connected /\ Waiting /\ LastWord

USE KeysAssumption, BoundsAssumption

-----------------------------------------------------------------------------
(* The cable: what a packet more or less means for LastWord.               *)

LEMMA PacketTypes ==
  /\ CNXN \in Packets
  /\ \A n \in Nat : TOKEN(n) \in Packets
  /\ \A k \in 0 .. Keys, n \in Nat : SIGNATURE(k, n) \in Packets
  /\ RSAPUBLICKEY \in Packets
  /\ CNXN.type = "CNXN"
  /\ \A n \in Nat : TOKEN(n).type = "TOKEN"
BY DEF CNXN, TOKEN, SIGNATURE, RSAPUBLICKEY, Packet, Packets

LEMMA SendPacket ==
  ASSUME NEW q \in Seq(Packets), NEW p \in Packets
  PROVE  /\ Append(q, p) \in Seq(Packets)
         /\ Append(q, p) # <<>>
         /\ Append(q, p)[Len(Append(q, p))] = p
OBVIOUS

LEMMA TakeHead ==
  ASSUME NEW q \in Seq(Packets), q # <<>>
  PROVE  /\ Head(q) \in Packets
         /\ Tail(q) \in Seq(Packets)
         /\ Tail(q) # <<>> => Tail(q)[Len(Tail(q))] = q[Len(q)]
         /\ Tail(q) = <<>> => Head(q) = q[Len(q)]
<1>1. /\ Head(q) \in Packets /\ Tail(q) \in Seq(Packets)
      /\ Len(Tail(q)) = Len(q) - 1
      /\ \A n \in 1 .. Len(Tail(q)) : Tail(q)[n] = q[n + 1]
  BY HeadTailProperties
<1>2. Len(q) \in Nat \ {0}
  BY EmptySeq
<1>3. CASE Tail(q) = <<>>
  <2>0. Len(Tail(q)) = Len(q) - 1
    BY <1>1
  <2> HIDE <1>1
  <2>1. Len(q) = 1
    BY <1>2, <1>3, <2>0, EmptySeq
  <2> QED  BY <1>1, <2>1, <1>3
<1>4. CASE Tail(q) # <<>>
  <2>1. Len(Tail(q)) \in Nat \ {0}
    BY <1>1, <1>4, EmptySeq
  <2> QED  BY <1>1, <1>2, <1>4, <2>1
<1> QED  BY <1>3, <1>4

-----------------------------------------------------------------------------
LEMMA AuthInit == Init => AuthInv
<1> SUFFICES ASSUME Init PROVE AuthInv
  OBVIOUS
<1>1. adbd \in AdbdRecord
  BY DEF Init, AdbdRecord
<1>2. CableType
  BY DEF Init, CableType, NewHost
<1>3. FrameworkType
  <2>1. fdes \in [1 .. MaxTransports -> [fd : 0 .. MaxFrameworks, active : BOOLEAN]]
    BY DEF Init, NoFde
  <2>2. fd_table \in [1 .. MaxFrameworks -> 0 .. MaxTransports]
    BY DEF Init
  <2>3. trusted \subseteq 1 .. Keys
    BY DEF Init
  <2>7. stored \in BOOLEAN
    BY Zenon DEF Init
  <2>4. frameworks \in Seq([up : BOOLEAN, asked : Nat, answers : Nat]) /\ Len(frameworks) = 0
    BY EmptySeq DEF Init
  <2>5. crashed \in BOOLEAN
    BY Zenon DEF Init
  <2> QED  BY <2>1, <2>2, <2>3, <2>4, <2>5, <2>7 DEF FrameworkType
<1>4. Connected /\ Waiting /\ LastWord
  BY DEF Init, NewHost, NoFde, Connected, Waiting, LastWord, ShownIsOnline
<1> QED  BY <1>1, <1>2, <1>3, <1>4 DEF AuthInv, TypeOK

LEMMA AuthHost ==
  ASSUME AuthInv, Host
  PROVE  AuthInv'
<1> USE DEF AuthInv, TypeOK
<1>0. toHost # <<>> /\ toHost \in Seq(Packets) /\ adbd.t # 0
  BY DEF Host, HostConnected, HostAuth, HostTakes, CableType, Waiting
<1>h. /\ Head(toHost) \in Packets /\ Tail(toHost) \in Seq(Packets)
      /\ Tail(toHost) # <<>> => Tail(toHost)[Len(Tail(toHost))] = toHost[Len(toHost)]
      /\ Tail(toHost) = <<>> => Head(toHost) = toHost[Len(toHost)]
  BY <1>0, TakeHead
<1>f. FrameworkType' /\ Connected' /\ adbd' = adbd
  BY DEF Host, HostConnected, HostAuth, frameworkVars, FrameworkType, Connected
<1>1. CASE HostConnected
  <2>1. CableType'
    BY <1>1, <1>h DEF HostConnected, CableType
  <2>2. Waiting' /\ LastWord'
    BY <1>1, <1>0, <1>h, <1>f DEF HostConnected, HostTakes, Waiting, LastWord, ShownIsOnline
  <2> QED  BY <1>f, <2>1, <2>2
<1>2. CASE HostAuth
  <2> DEFINE key == adb_auth_nextkey(host.key)
             p   == IF key # 0 THEN SIGNATURE(key, Head(toHost).token) ELSE RSAPUBLICKEY
  <2>k. key \in 0 .. Keys
    BY DEF adb_auth_nextkey, CableType
  <2>p. p \in Packets
    <3>1. Head(toHost).token \in Nat
      BY <1>h DEF Packets
    <3> QED  BY <2>k, <3>1, PacketTypes
  <2>s. /\ toDevice' = Append(toDevice, p)
        /\ host' = [state |-> "unauthorized", key |-> key]
        /\ toHost' = Tail(toHost)
        /\ UNCHANGED <<plugged, restarts>>
    BY <1>2 DEF HostAuth
  <2> HIDE DEF key, p
  <2>1. CableType'
    BY <1>h, <2>k, <2>p, <2>s, SendPacket DEF CableType
  <2>2. Waiting' /\ LastWord'
    BY <1>0, <1>h, <1>f, <2>s DEF Waiting, LastWord, ShownIsOnline
  <2> QED  BY <1>f, <2>1, <2>2
<1> QED  BY <1>1, <1>2 DEF Host

-----------------------------------------------------------------------------
\* adbd takes a packet: its transport is there, and is d.t again.
LEMMA AuthAdbdStep ==
  ASSUME AuthInv, toDevice # <<>>, NEW d \in AdbdRecord, AdbdStep(d),
         d.t = adbd.t, d.usb \in {0, d.t}, d.retry => d.usb # 0
  PROVE  /\ adbd' \in AdbdRecord /\ Waiting'
         /\ toHost' \in Seq(Packets) => CableType'
<1> USE DEF AuthInv, TypeOK
<1>1. adbd.t # 0 /\ toDevice \in Seq(Packets)
  BY DEF Waiting, CableType
<1>2. Tail(toDevice) \in Seq(Packets)
  BY <1>1, TakeHead
<1>3. toHost' \in Seq(Packets) => CableType'
  BY <1>2 DEF AdbdStep, CableType
<1> QED  BY <1>1, <1>3 DEF AdbdStep, Waiting

\* It answers with a token, or with CNXN when it is online.
LEMMA AuthReply ==
  ASSUME AuthInv, NEW p \in Packets, toHost' = Append(toHost, p),
         p.type = "CNXN" => adbd'.online
  PROVE  toHost' \in Seq(Packets) /\ LastWord'
<1>1. toHost \in Seq(Packets)
  BY DEF AuthInv, TypeOK, CableType
<1> QED  BY <1>1, SendPacket DEF LastWord, ShownIsOnline

LEMMA AuthOffline ==
  ASSUME NEW d \in AdbdRecord, d.usb \in {0, d.t}, d.retry => d.usb # 0
  PROVE  /\ handle_offline(d) \in AdbdRecord
         /\ handle_offline(d).t = d.t
         /\ handle_offline(d).fd = d.fd
         /\ handle_offline(d).usb = 0 /\ ~handle_offline(d).retry
<1> DEFINE off == [d EXCEPT !.state = "offline", !.online = FALSE]
<1>1. /\ off \in AdbdRecord
      /\ off.t = d.t /\ off.fd = d.fd /\ off.usb = d.usb /\ (off.retry => d.retry)
  BY DEF AdbdRecord
<1>2. handle_offline(d) = IF d.usb = d.t THEN usb_disconnected(off) ELSE off
  BY DEF handle_offline
<1> HIDE DEF off
<1>3. CASE d.usb = d.t
  <2>0. 0 \in 0 .. MaxTransports
    OBVIOUS
  <2>1. usb_disconnected(off) \in AdbdRecord
    BY <1>1, <2>0 DEF usb_disconnected, AdbdRecord
  <2>3. /\ usb_disconnected(off).t = off.t /\ usb_disconnected(off).fd = off.fd
        /\ usb_disconnected(off).usb = 0
    BY <1>1 DEF usb_disconnected, AdbdRecord
  <2>2. ~usb_disconnected(off).retry
    BY <1>1 DEF usb_disconnected, AdbdRecord
  <2> QED  BY <1>1, <1>2, <1>3, <2>1, <2>2, <2>3
<1>4. CASE d.usb # d.t
  <2>1. handle_offline(d) = off /\ d.usb = 0 /\ ~d.retry
    BY <1>2, <1>4
  <2> QED  BY <1>1, <2>1
<1> QED  BY <1>3, <1>4

\* send_auth_request and adb_auth_verified.
LEMMA AuthRequest ==
  ASSUME NEW d \in AdbdRecord
  PROVE  /\ send_auth_request(d) \in AdbdRecord
         /\ send_auth_request(d).token \in Nat
         /\ \A f \in {"t", "usb", "retry", "fd", "online"} : send_auth_request(d)[f] = d[f]
BY DEF send_auth_request, AdbdRecord

LEMMA AuthVerified ==
  ASSUME NEW d \in AdbdRecord
  PROVE  /\ adb_auth_verified(d) \in AdbdRecord
         /\ adb_auth_verified(d).online
         /\ \A f \in {"t", "usb", "retry", "fd"} : adb_auth_verified(d)[f] = d[f]
BY DEF adb_auth_verified, AdbdRecord

LEMMA AuthConnect ==
  ASSUME AuthInv, AdbdConnect
  PROVE  AuthInv'
<1> USE DEF AuthInv, TypeOK
<1> DEFINE off == IF adbd.state # "offline" THEN handle_offline(adbd) ELSE adbd
           h   == [off EXCEPT !.state = "host"]
           d   == send_auth_request(h)
<1>1. /\ toDevice # <<>> /\ AdbdStep(d) /\ toHost' = Append(toHost, TOKEN(d.token))
      /\ UNCHANGED frameworkVars
  BY DEF AdbdConnect, AdbdTakes
<1>2. off \in AdbdRecord /\ off.t = adbd.t /\ off.fd = adbd.fd
      /\ off.usb \in {0, adbd.t} /\ (off.retry => off.usb # 0)
  BY AuthOffline DEF Waiting
<1> HIDE DEF off
<1>3. h \in AdbdRecord /\ h.t = adbd.t /\ h.fd = adbd.fd
      /\ h.usb \in {0, adbd.t} /\ (h.retry => h.usb # 0)
  BY <1>2 DEF AdbdRecord
<1> HIDE DEF h
<1>4. d \in AdbdRecord /\ d.token \in Nat /\ d.t = adbd.t /\ d.fd = adbd.fd
      /\ d.usb \in {0, d.t} /\ (d.retry => d.usb # 0)
  BY <1>3, AuthRequest
<1> HIDE DEF d
<1>5. toHost' \in Seq(Packets) /\ LastWord'
  BY <1>1, <1>4, AuthReply, PacketTypes
<1>6. adbd' \in AdbdRecord /\ Waiting' /\ CableType'
  BY <1>1, <1>4, <1>5, AuthAdbdStep
<1>7. FrameworkType' /\ Connected'
  BY <1>1, <1>4 DEF frameworkVars, FrameworkType, Connected, AdbdStep
<1> QED  BY <1>5, <1>6, <1>7

LEMMA AuthSignature ==
  ASSUME AuthInv, AdbdSignature
  PROVE  AuthInv'
<1> USE DEF AuthInv, TypeOK
<1>1. toDevice # <<>> /\ UNCHANGED frameworkVars
  BY DEF AdbdSignature, AdbdTakes
<1>2. PICK d \in AdbdRecord, p \in Packets :
        /\ AdbdStep(d) /\ toHost' = Append(toHost, p)
        /\ d.t = adbd.t /\ d.fd = adbd.fd /\ d.usb = adbd.usb /\ d.retry = adbd.retry
        /\ p.type = "CNXN" => d.online
  <2>1. CASE adb_auth_verify(Head(toDevice))
    <3>1. /\ AdbdStep(adb_auth_verified(adbd)) /\ toHost' = Append(toHost, CNXN)
      BY <2>1 DEF AdbdSignature
    <3> QED  BY <3>1, AuthVerified, PacketTypes
  <2>2. CASE ~adb_auth_verify(Head(toDevice))
    <3>1. /\ AdbdStep(send_auth_request(adbd))
          /\ toHost' = Append(toHost, TOKEN(send_auth_request(adbd).token))
      BY <2>2 DEF AdbdSignature
    <3>2. TOKEN(send_auth_request(adbd).token) \in Packets
          /\ TOKEN(send_auth_request(adbd).token).type = "TOKEN"
      BY AuthRequest, PacketTypes
    <3> QED  BY <3>1, <3>2, AuthRequest
  <2> QED  BY <2>1, <2>2
<1>3. toHost' \in Seq(Packets) /\ LastWord'
  BY <1>2, AuthReply DEF AdbdStep
<1>4. adbd' \in AdbdRecord /\ Waiting' /\ CableType'
  BY <1>1, <1>2, <1>3, AuthAdbdStep DEF Waiting
<1>5. FrameworkType' /\ Connected'
  BY <1>1, <1>2 DEF frameworkVars, FrameworkType, Connected, AdbdStep
<1> QED  BY <1>3, <1>4, <1>5

-----------------------------------------------------------------------------
\* A framework's state may change as long as its type does not.
LEMMA FrameworkStep ==
  ASSUME AuthInv, NEW n \in 1 .. Len(frameworks),
         NEW f \in [up : BOOLEAN, asked : Nat, answers : Nat],
         frameworks' = [frameworks EXCEPT ![n] = f]
  PROVE  /\ frameworks' \in Seq([up : BOOLEAN, asked : Nat, answers : Nat])
         /\ Len(frameworks') = Len(frameworks)
BY ExceptSeq DEF AuthInv, TypeOK, FrameworkType

LEMMA AuthConfirm ==
  ASSUME AuthInv, adb_auth_confirm_key
  PROVE  AuthInv'
<1> USE DEF AuthInv, TypeOK
<1> DEFINE d == [adbd EXCEPT !.usb = IF @ = 0 THEN adbd.t ELSE @]
           e == IF d.fd = 0 THEN [d EXCEPT !.retry = TRUE] ELSE d
<1>1. toDevice # <<>> /\ AdbdStep(e) /\ toHost' = toHost
  BY DEF adb_auth_confirm_key, AdbdTakes
<1>2. adbd.t \in 1 .. MaxTransports
  BY <1>1 DEF Waiting, AdbdRecord
<1>3. /\ d \in AdbdRecord /\ d.t = adbd.t /\ d.fd = adbd.fd /\ d.usb = adbd.t
      /\ d.online = adbd.online
  BY DEF AdbdRecord, Waiting
<1>4. /\ e \in AdbdRecord /\ e.t = adbd.t /\ e.fd = adbd.fd /\ e.usb = adbd.t
      /\ e.online = adbd.online
  BY <1>3 DEF AdbdRecord
<1>5. CASE adbd.fd = 0
  <2>1. UNCHANGED frameworkVars
    BY <1>3, <1>5 DEF adb_auth_confirm_key
  <2> HIDE DEF d, e
  <2>2. FrameworkType' /\ Connected'
    BY <1>1, <1>4, <2>1 DEF frameworkVars, FrameworkType, Connected, AdbdStep
  <2>3. adbd' \in AdbdRecord /\ Waiting' /\ CableType' /\ LastWord'
    BY <1>1, <1>2, <1>4, AuthAdbdStep DEF CableType, AdbdStep, LastWord, ShownIsOnline
  <2> QED  BY <2>2, <2>3
<1>6. CASE adbd.fd # 0
  <2>1. e.retry => e.usb # 0
    BY <1>2, <1>4
  <2>2. adbd.fd \in 1 .. Len(frameworks) /\ adbd.fd \in 0 .. MaxFrameworks
    BY <1>6 DEF Connected, AdbdRecord, FrameworkType
  <2>3. UNCHANGED <<crashed, trusted, stored>>
    BY <1>3, <1>6 DEF adb_auth_confirm_key
  <2>4. /\ FrameworkType' /\ Len(frameworks') = Len(frameworks)
        /\ \A t \in 1 .. MaxTransports : fdes'[t].active => fdes'[t].fd \in 1 .. Len(frameworks')
    <3> DEFINE f == [frameworks[adbd.fd] EXCEPT !.asked = frameworks[adbd.fd].asked + 1]
    <3>1. frameworks' = [frameworks EXCEPT ![adbd.fd] = f]
      BY <1>3, <1>6 DEF adb_auth_confirm_key
    <3>2. f \in [up : BOOLEAN, asked : Nat, answers : Nat]
      <4>1. frameworks[adbd.fd] \in [up : BOOLEAN, asked : Nat, answers : Nat]
        BY <2>2, ElementOfSeq DEF FrameworkType
      <4> QED  BY <4>1
    <3> HIDE DEF f
    <3>3. /\ frameworks' \in Seq([up : BOOLEAN, asked : Nat, answers : Nat])
          /\ Len(frameworks') = Len(frameworks)
      BY <2>2, <3>1, <3>2, FrameworkStep
    <3>4. CASE frameworks[adbd.fd].up
      <4>1. /\ fdes' = [fdes EXCEPT ![adbd.t] = [fd |-> adbd.fd, active |-> TRUE]]
            /\ fd_table' = [fd_table EXCEPT ![adbd.fd] = adbd.t]
        BY <1>3, <1>6, <3>4 DEF adb_auth_confirm_key
      <4>2. fdes' \in [1 .. MaxTransports -> [fd : 0 .. MaxFrameworks, active : BOOLEAN]]
        BY <1>2, <2>2, <4>1 DEF FrameworkType
      <4>3. fd_table' \in [1 .. MaxFrameworks -> 0 .. MaxTransports]
        BY SMTT(30), <1>2, <2>2, <4>1 DEF FrameworkType
      <4>4. \A t \in 1 .. MaxTransports : fdes'[t].active => fdes'[t].fd \in 1 .. Len(frameworks')
        BY <1>2, <2>2, <3>3, <4>1 DEF FrameworkType, Connected
      <4> QED  BY <2>3, <3>3, <4>2, <4>3, <4>4 DEF FrameworkType
    <3>5. CASE ~frameworks[adbd.fd].up
      <4>1. UNCHANGED <<fdes, fd_table>>
        BY <1>3, <1>6, <3>5 DEF adb_auth_confirm_key
      <4> QED  BY <2>3, <3>3, <4>1 DEF FrameworkType, Connected
    <3> QED  BY <3>4, <3>5
  <2> HIDE DEF d, e
  <2>5. adbd' \in AdbdRecord /\ Waiting' /\ CableType' /\ LastWord' /\ Connected'
    BY <1>1, <1>2, <1>4, <2>1, <2>4, AuthAdbdStep
    DEF CableType, AdbdStep, LastWord, ShownIsOnline, Connected
  <2> QED  BY <2>4, <2>5
<1> QED  BY <1>5, <1>6

-----------------------------------------------------------------------------
Framework == [up : BOOLEAN, asked : Nat, answers : Nat]

LEMMA AuthListener ==
  ASSUME AuthInv, adb_auth_listener
  PROVE  AuthInv'
<1> USE DEF AuthInv, TypeOK
<1> DEFINE n == Len(frameworks) + 1
           d == [adbd EXCEPT !.fd = n]
           c == [d EXCEPT !.retry = FALSE]
           r == send_auth_request(c)
<1>1. /\ frameworks \in Seq(Framework) /\ Len(frameworks) \in Nat
      /\ n \in 1 .. MaxFrameworks
      /\ [up |-> TRUE, asked |-> 0, answers |-> 0] \in Framework
  BY LenProperties DEF adb_auth_listener, FrameworkType, Framework
<1>2. frameworks' \in Seq(Framework) /\ Len(frameworks') = n
  BY <1>1, AppendProperties DEF adb_auth_listener
<1>3. FrameworkType'
  BY <1>1, <1>2 DEF adb_auth_listener, FrameworkType, Framework
<1>4. \A t \in 1 .. MaxTransports : fdes'[t].active => fdes'[t].fd \in 1 .. Len(frameworks')
  BY <1>1, <1>2 DEF adb_auth_listener, Connected, FrameworkType
<1>5. d \in AdbdRecord /\ d.fd = n /\ d.t = adbd.t /\ d.usb = adbd.usb
      /\ d.retry = adbd.retry /\ d.online = adbd.online
  BY <1>1 DEF AdbdRecord
<1>6. CASE adbd.retry
  <2>1. /\ adbd' = r /\ toHost' = Append(toHost, TOKEN(r.token))
        /\ UNCHANGED <<host, toDevice, plugged, restarts>>
    BY <1>5, <1>6 DEF adb_auth_listener
  <2> HIDE DEF d, n
  <2>2. c \in AdbdRecord /\ c.fd = n /\ c.t = adbd.t /\ c.usb = adbd.usb
    BY <1>5 DEF AdbdRecord
  <2>3. ~c.retry
    BY <1>5 DEF AdbdRecord
  <2> HIDE DEF c
  <2>4. r \in AdbdRecord /\ r.token \in Nat /\ r.fd = n /\ r.t = adbd.t /\ r.usb = adbd.usb
        /\ r.retry = c.retry
    BY <2>2, AuthRequest
  <2> HIDE DEF r
  <2>5. toHost' \in Seq(Packets) /\ LastWord'
    BY <2>1, <2>4, AuthReply, PacketTypes
  <2>6. adbd.t # 0
    BY <1>6 DEF Waiting
  <2>7. CableType'
    BY <2>1, <2>5 DEF CableType
  <2>8. Waiting' /\ Connected' /\ adbd' \in AdbdRecord
    BY <1>2, <1>4, <2>1, <2>3, <2>4, <2>6 DEF Waiting, Connected
  <2> QED  BY <1>3, <2>5, <2>7, <2>8
<1>7. CASE ~adbd.retry
  <2>1. /\ adbd' = d /\ UNCHANGED <<host, toDevice, toHost, plugged, restarts>>
    BY <1>5, <1>7 DEF adb_auth_listener
  <2> HIDE DEF d, n
  <2>2. CableType' /\ LastWord'
    BY <1>5, <2>1 DEF CableType, LastWord, ShownIsOnline
  <2>3. Waiting' /\ Connected' /\ adbd' \in AdbdRecord
    BY <1>2, <1>4, <1>5, <2>1 DEF Waiting, Connected
  <2> QED  BY <1>3, <2>2, <2>3
<1> QED  BY <1>6, <1>7

LEMMA AuthEventOK ==
  ASSUME AuthInv, NEW n \in DOMAIN frameworks, EventOK(n)
  PROVE  AuthInv'
<1> USE DEF AuthInv, TypeOK
<1> DEFINE f == fdes[adbd.t].fd
           g == [frameworks[f] EXCEPT !.answers = frameworks[f].answers - 1]
<1>1. n \in 1 .. MaxFrameworks
  BY LenProperties DEF FrameworkType
<1>2. adbd.t \in 1 .. MaxTransports /\ fd_table[n] = adbd.t
  BY <1>1 DEF EventOK, Readable, FrameworkType, AdbdRecord
<1>3. f \in 1 .. Len(frameworks) /\ frameworks[f].answers > 0
      /\ frameworks' = [frameworks EXCEPT ![f] = g]
      /\ UNCHANGED <<host, toDevice, fdes, fd_table, crashed, trusted, stored, plugged, restarts>>
  BY <1>2 DEF EventOK, EventReads, Connected
<1>4. frameworks[f] \in Framework
  BY <1>3, ElementOfSeq DEF FrameworkType, Framework
<1>5. g \in [up : BOOLEAN, asked : Nat, answers : Nat]
  <2>1. frameworks[f].answers \in Nat /\ frameworks[f].answers > 0
    BY <1>3, <1>4 DEF Framework
  <2> HIDE DEF AuthInv, TypeOK
  <2>2. frameworks[f].answers - 1 \in Nat
    BY <2>1
  <2> HIDE DEF f
  <2> QED  BY <1>4, <2>2 DEF Framework
<1> HIDE DEF f, g
<1>6. /\ frameworks' \in Seq([up : BOOLEAN, asked : Nat, answers : Nat])
      /\ Len(frameworks') = Len(frameworks)
  BY <1>3, <1>5, FrameworkStep
<1>7. FrameworkType'
  BY <1>3, <1>6 DEF FrameworkType
<1>8. CASE adbd.usb # 0
  <2>1. adbd' = adb_auth_verified(adbd) /\ toHost' = Append(toHost, CNXN)
    BY <1>8 DEF EventOK
  <2>2. /\ adbd' \in AdbdRecord /\ adbd'.online /\ adbd'.t = adbd.t /\ adbd'.usb = adbd.usb
        /\ adbd'.fd = adbd.fd /\ adbd'.retry = adbd.retry
    BY <2>1, AuthVerified
  <2>3. toHost' \in Seq(Packets) /\ LastWord'
    BY <2>1, <2>2, AuthReply, PacketTypes
  <2>4. CableType' /\ Waiting'
    BY <1>2, <1>3, <2>2, <2>3 DEF CableType, Waiting
  <2>5. Connected'
    BY <1>3, <1>6, <2>2 DEF Connected
  <2> QED  BY <1>7, <2>2, <2>3, <2>4, <2>5
<1>9. CASE adbd.usb = 0
  <2>1. UNCHANGED <<adbd, toHost>>
    BY <1>9 DEF EventOK
  <2>2. CableType' /\ Waiting' /\ LastWord'
    BY <1>3, <2>1 DEF CableType, Waiting, LastWord, ShownIsOnline
  <2>3. Connected'
    BY <1>3, <1>6, <2>1 DEF Connected
  <2> QED  BY <1>7, <2>1, <2>2, <2>3
<1> QED  BY <1>8, <1>9

LEMMA AuthEventError ==
  ASSUME AuthInv, NEW n \in DOMAIN frameworks, EventError(n)
  PROVE  AuthInv'
<1> USE DEF AuthInv, TypeOK
<1>1. adbd' = [adbd EXCEPT !.fd = 0]
      /\ UNCHANGED <<connVars, crashed, frameworks, trusted, stored, plugged, restarts>>
  BY DEF EventError
<1>2. /\ adbd' \in AdbdRecord /\ adbd'.t = adbd.t /\ adbd'.usb = adbd.usb /\ adbd'.fd = 0
      /\ adbd'.retry = adbd.retry /\ adbd'.online = adbd.online
  BY <1>1 DEF AdbdRecord
<1>3. CableType' /\ Waiting' /\ LastWord'
  BY <1>1, <1>2 DEF connVars, CableType, Waiting, LastWord, ShownIsOnline
<1>4. FrameworkType' /\ Connected'
  <2>1. Len(frameworks) \in Nat
    BY LenProperties DEF FrameworkType
  <2>2. CASE adbd.usb # 0 /\ fdes[adbd.usb].active
    <3>1. adbd.usb \in 1 .. MaxTransports
      BY <2>2 DEF AdbdRecord
    <3>2. /\ fd_table' = [fd_table EXCEPT ![fdes[adbd.usb].fd] = 0]
          /\ fdes' = [fdes EXCEPT ![adbd.usb].active = FALSE]
      BY <2>2 DEF EventError
    <3>3. fd_table' \in [1 .. MaxFrameworks -> 0 .. MaxTransports]
      <4>1. 0 \in 0 .. MaxTransports
        OBVIOUS
      <4> QED  BY <3>2, <4>1 DEF FrameworkType
    <3>4. fdes' \in [1 .. MaxTransports -> [fd : 0 .. MaxFrameworks, active : BOOLEAN]]
      BY <3>1, <3>2 DEF FrameworkType
    <3>5. \A t \in 1 .. MaxTransports : fdes'[t].active => fdes[t].active /\ fdes'[t].fd = fdes[t].fd
      BY <3>1, <3>2 DEF FrameworkType
    <3>6. FrameworkType'
      BY <1>1, <3>3, <3>4 DEF FrameworkType
    <3>7. Connected'
      BY <1>1, <1>2, <2>1, <3>5 DEF Connected
    <3> QED  BY <3>6, <3>7
  <2>3. CASE ~(adbd.usb # 0 /\ fdes[adbd.usb].active)
    <3>1. UNCHANGED <<fd_table, fdes>>
      BY <2>3 DEF EventError
    <3> QED  BY <1>1, <1>2, <2>1, <3>1 DEF FrameworkType, Connected
  <2> QED  BY <2>2, <2>3
<1> QED  BY <1>2, <1>3, <1>4

LEMMA AuthEvent ==
  ASSUME AuthInv, NEW n \in DOMAIN frameworks, adb_auth_event(n)
  PROVE  AuthInv'
<1> USE DEF AuthInv, TypeOK
<1>1. CASE EventOnFreed(n)
  <2>1. crashed' \in BOOLEAN
    BY <1>1, Zenon DEF EventOnFreed
  <2>2. UNCHANGED <<connVars, adbd, fdes, fd_table, frameworks, trusted, stored, plugged, restarts>>
    BY <1>1 DEF EventOnFreed
  <2> QED
    BY <2>1, <2>2
    DEF connVars, CableType, FrameworkType, Connected, Waiting, LastWord, ShownIsOnline
<1>2. CASE EventEOF(n)
  BY <1>2
  DEF EventEOF, vars, connVars, frameworkVars, CableType, FrameworkType, Connected, Waiting, LastWord, ShownIsOnline
<1> QED  BY <1>1, <1>2, AuthEventOK, AuthEventError DEF adb_auth_event

-----------------------------------------------------------------------------
LEMMA AuthAttach ==
  ASSUME AuthInv, Attach
  PROVE  AuthInv'
<1> USE DEF AuthInv, TypeOK
<1>1. plugged + 1 \in 1 .. MaxTransports
  BY DEF Attach, CableType
<1>a. adbd' = [adbd EXCEPT !.t = plugged + 1, !.state = "offline", !.online = FALSE]
  BY DEF Attach
<1>b. plugged + 1 \in 0 .. MaxTransports
  BY <1>1
<1>c. adbd' \in AdbdRecord
  BY <1>a, <1>b DEF AdbdRecord
<1>d. /\ adbd'.t = plugged + 1 /\ adbd'.usb = adbd.usb /\ adbd'.fd = adbd.fd
      /\ adbd'.retry = adbd.retry
  BY <1>a DEF AdbdRecord
<1>2. /\ adbd' \in AdbdRecord /\ adbd'.t = plugged + 1 /\ adbd'.usb = adbd.usb
      /\ adbd'.retry = adbd.retry /\ adbd'.fd = adbd.fd
  BY <1>c, <1>d
<1>3. adbd.usb = 0
  BY DEF Attach, Waiting
<1>4. toDevice' \in Seq(Packets) /\ toHost' \in Seq(Packets)
  BY PacketTypes, EmptySeq DEF Attach
<1>5. CableType'
  BY <1>1, <1>4 DEF Attach, CableType, NewHost
<1>6. Waiting' /\ LastWord'
  BY <1>1, <1>2, <1>3 DEF Attach, Waiting, LastWord, ShownIsOnline, NewHost
<1>7. FrameworkType' /\ Connected'
  BY <1>2 DEF Attach, frameworkVars, FrameworkType, Connected
<1> QED  BY <1>2, <1>5, <1>6, <1>7

LEMMA AuthDetach ==
  ASSUME AuthInv, Detach
  PROVE  AuthInv'
<1> USE DEF AuthInv, TypeOK
<1>1. /\ handle_offline(adbd) \in AdbdRecord /\ handle_offline(adbd).fd = adbd.fd
      /\ handle_offline(adbd).usb = 0 /\ ~handle_offline(adbd).retry
  BY AuthOffline DEF Waiting
<1>2. adbd' = [handle_offline(adbd) EXCEPT !.t = 0]
  BY DEF Detach
<1>3. adbd' \in AdbdRecord /\ adbd'.t = 0 /\ adbd'.usb = 0 /\ adbd'.fd = adbd.fd
  BY <1>1, <1>2 DEF AdbdRecord
<1>4. ~adbd'.retry
  BY <1>1, <1>2 DEF AdbdRecord
<1>5. CableType' /\ LastWord'
  BY EmptySeq DEF Detach, CableType, LastWord, ShownIsOnline, NewHost
<1>6. Waiting'
  BY <1>3, <1>4 DEF Detach, Waiting
<1>7. FrameworkType' /\ Connected'
  BY <1>3 DEF Detach, frameworkVars, FrameworkType, Connected
<1> QED  BY <1>3, <1>5, <1>6, <1>7

LEMMA AuthRestart ==
  ASSUME AuthInv, HostRestarts
  PROVE  AuthInv'
<1> USE DEF AuthInv, TypeOK
<1>1. toDevice' \in Seq(Packets)
  BY PacketTypes, SendPacket DEF HostRestarts, CableType
<1>2. CableType' /\ Waiting' /\ LastWord'
  BY <1>1 DEF HostRestarts, CableType, Waiting, LastWord, ShownIsOnline, NewHost
<1>3. FrameworkType' /\ Connected' /\ adbd' \in AdbdRecord
  BY DEF HostRestarts, frameworkVars, FrameworkType, Connected
<1> QED  BY <1>2, <1>3

LEMMA AuthFrameworks ==
  ASSUME AuthInv, NEW n \in DOMAIN frameworks, UserConfirms(n) \/ FrameworkDies(n)
  PROVE  AuthInv'
<1> USE DEF AuthInv, TypeOK
<1>1. n \in 1 .. Len(frameworks) /\ frameworks[n] \in Framework
  BY LenProperties, ElementOfSeq DEF FrameworkType, Framework
<1>2. UNCHANGED <<connVars, adbd, fdes, fd_table, crashed, plugged, restarts>>
  BY DEF UserConfirms, FrameworkDies
<1>3. trusted' \subseteq 1 .. Keys
  BY DEF UserConfirms, FrameworkDies, FrameworkType
<1>8. stored' \in BOOLEAN
  BY Zenon DEF UserConfirms, FrameworkDies, FrameworkType
<1>4. PICK f \in Framework : frameworks' = [frameworks EXCEPT ![n] = f]
  <2>1. CASE UserConfirms(n)
    <3> DEFINE f == [frameworks[n] EXCEPT !.asked = frameworks[n].asked - 1,
                                          !.answers = frameworks[n].answers + 1]
    <3>1. f \in Framework
      BY <1>1, <2>1 DEF UserConfirms, Framework
    <3>2. frameworks' = [frameworks EXCEPT ![n] = f]
      BY <1>1, <2>1 DEF UserConfirms
    <3> QED  BY <3>1, <3>2
  <2>2. CASE FrameworkDies(n)
    <3> DEFINE f == [frameworks[n] EXCEPT !.up = FALSE]
    <3>1. f \in Framework
      BY <1>1 DEF Framework
    <3>2. frameworks' = [frameworks EXCEPT ![n] = f]
      BY <1>1, <2>2 DEF FrameworkDies
    <3> QED  BY <3>1, <3>2
  <2> QED  BY <2>1, <2>2
<1>5. frameworks' \in Seq(Framework) /\ Len(frameworks') = Len(frameworks)
  BY <1>1, <1>4, FrameworkStep DEF Framework
<1>6. FrameworkType' /\ Connected'
  BY <1>2, <1>3, <1>5, <1>8 DEF FrameworkType, Connected, Framework
<1>7. CableType' /\ Waiting' /\ LastWord' /\ adbd' \in AdbdRecord
  BY <1>2 DEF connVars, CableType, Waiting, LastWord, ShownIsOnline
<1> QED  BY <1>6, <1>7

LEMMA AuthNext == AuthInv /\ [Next]_vars => AuthInv'
<1> SUFFICES ASSUME AuthInv, [Next]_vars PROVE AuthInv'
  OBVIOUS
<1>1. CASE UNCHANGED vars
  BY <1>1
  DEF vars, connVars, frameworkVars, AuthInv, TypeOK, CableType, FrameworkType, Connected,
      Waiting, LastWord, ShownIsOnline
<1>2. CASE Adbd
  BY <1>2, AuthConnect, AuthSignature, AuthConfirm, AuthEvent DEF Adbd
<1>3. CASE Host \/ adb_auth_listener \/ Attach \/ Detach \/ HostRestarts
  BY <1>3, AuthHost, AuthListener, AuthAttach, AuthDetach, AuthRestart
<1>4. CASE \E n \in DOMAIN frameworks : UserConfirms(n) \/ FrameworkDies(n)
  BY <1>4, AuthFrameworks
<1> QED  BY <1>1, <1>2, <1>3, <1>4 DEF Next

\* The state stays well typed: the host's key is one of its keys or NULL, and
\* framework_fd and usb_transport name something that exists.
THEOREM AuthTyped == Spec => []TypeOK
<1>1. AuthInv => TypeOK
  BY DEF AuthInv
<1> QED  BY <1>1, AuthInit, AuthNext, PTL DEF Spec

\* A retry that adb_auth_listener has to make always has its transport: no
\* order of disconnections, restarts and frameworks makes it use a stale one.
THEOREM RetrySafe == Spec => []RetryHasTransport
<1>1. AuthInv => RetryHasTransport
  BY DEF AuthInv, Waiting, RetryHasTransport
<1> QED  BY <1>1, AuthInit, AuthNext, PTL DEF Spec

\* The host never shows a device as connected that does not accept its streams,
\* once it has heard everything adbd sent.
THEOREM ShownOnline == Spec => []ShownIsOnline
<1>1. AuthInv => ShownIsOnline
  BY DEF AuthInv, LastWord
<1> QED  BY <1>1, AuthInit, AuthNext, PTL DEF Spec

-----------------------------------------------------------------------------
(* A known host does not bother the user.                                  *)

\* One of the host's keys is on file, and no second host has spoken.
Known == restarts = 0 /\ ~stored /\ trusted # {}

\* Then one packet is on its way at most, it is about adbd's current token, and the
\* keys before the one on trial are not on file.
Conversation ==
  \/ toDevice = <<>> /\ toHost = <<>>
  \/ toDevice = <<CNXN>> /\ toHost = <<>> /\ host.key = 0
  \/ /\ toDevice = <<>> /\ toHost = <<TOKEN(adbd.token)>>
     /\ \A k \in 1 .. host.key : k \notin trusted
  \/ /\ toDevice = <<SIGNATURE(host.key, adbd.token)>> /\ toHost = <<>>
     /\ host.key \in 1 .. Keys /\ \A k \in 1 .. host.key - 1 : k \notin trusted
  \/ toDevice = <<>> /\ toHost = <<CNXN>>

\* The public key was not sent, so that adbd has no transport waiting for the user.
PromptInv == Known => adbd.usb = 0 /\ Conversation

LEMMA PacketFields ==
  /\ CNXN.type = "CNXN" /\ RSAPUBLICKEY.type = "RSAPUBLICKEY"
  /\ \A n \in Nat : TOKEN(n).type = "TOKEN" /\ TOKEN(n).token = n
  /\ \A k \in 0 .. Keys, n \in Nat :
       SIGNATURE(k, n).type = "SIGNATURE" /\ SIGNATURE(k, n).key = k /\ SIGNATURE(k, n).token = n
BY DEF CNXN, TOKEN, SIGNATURE, RSAPUBLICKEY, Packet

LEMMA PromptFields ==
  ASSUME AuthInv
  PROVE  /\ adbd.token \in Nat /\ host.key \in 0 .. Keys /\ trusted \subseteq 1 .. Keys
         /\ (adbd.usb = 0 => ~adbd.retry) /\ adbd \in AdbdRecord
BY DEF AuthInv, TypeOK, AdbdRecord, CableType, FrameworkType, Waiting

LEMMA PromptHost ==
  ASSUME AuthInv, PromptInv, Host
  PROVE  PromptInv'
<1> SUFFICES ASSUME Known' PROVE (adbd.usb = 0 /\ Conversation)'
  BY DEF PromptInv
<1>1. UNCHANGED <<adbd, trusted, stored, restarts>> /\ Known /\ toHost # <<>>
      /\ adbd.usb = 0 /\ Conversation /\ toHost' = Tail(toHost)
  BY DEF Host, HostConnected, HostAuth, HostTakes, frameworkVars, PromptInv, Known
<1>2. CASE HostConnected
  <2>1. toHost = <<CNXN>> /\ toDevice = <<>>
    BY <1>1, <1>2, PacketFields, PromptFields DEF HostConnected, HostTakes, Conversation
  <2>2. toHost' = <<>> /\ toDevice' = <<>>
    BY <1>1, <1>2, <2>1 DEF HostConnected
  <2> QED
    BY <1>1, <2>2 DEF Conversation
<1>3. CASE HostAuth
  <2>1. toHost = <<TOKEN(adbd.token)>> /\ toDevice = <<>> /\ \A k \in 1 .. host.key : k \notin trusted
    BY <1>1, <1>3, PacketFields, PromptFields DEF HostAuth, HostTakes, Conversation
  <2> DEFINE key == adb_auth_nextkey(host.key)
  <2>2. key = host.key + 1 /\ key \in 1 .. Keys
    BY <1>1, <2>1, PromptFields DEF adb_auth_nextkey, Known
  <2>3. Head(toHost).token = adbd.token
    BY <2>1, PacketFields, PromptFields
  <2>4. host' = [state |-> "unauthorized", key |-> key]
        /\ toDevice' = Append(toDevice, SIGNATURE(key, Head(toHost).token))
    BY <1>3, <2>2 DEF HostAuth
  <2> HIDE DEF key
  <2>5. host'.key = key /\ toDevice' = <<SIGNATURE(key, adbd.token)>> /\ toHost' = <<>>
    BY <1>1, <2>1, <2>3, <2>4
  <2> QED
    BY <1>1, <2>1, <2>2, <2>5, PromptFields DEF Conversation
<1> QED
  BY <1>2, <1>3 DEF Host

LEMMA PromptConnect ==
  ASSUME AuthInv, PromptInv, AdbdConnect
  PROVE  PromptInv'
<1> SUFFICES ASSUME Known' PROVE (adbd.usb = 0 /\ Conversation)'
  BY DEF PromptInv
<1> DEFINE off == IF adbd.state # "offline" THEN handle_offline(adbd) ELSE adbd
           h   == [off EXCEPT !.state = "host"]
           d   == send_auth_request(h)
<1>1. /\ AdbdTakes("CNXN") /\ adbd' = d /\ toDevice' = Tail(toDevice)
         /\ toHost' = Append(toHost, TOKEN(d.token))
      /\ UNCHANGED <<host, trusted, stored, restarts>>
  BY DEF AdbdConnect, AdbdStep, frameworkVars
<1>2. Known /\ adbd.usb = 0 /\ Conversation
  BY <1>1 DEF PromptInv, Known
<1>3. off \in AdbdRecord /\ off.usb = 0
  BY <1>2, AuthOffline, PromptFields
<1> HIDE DEF off
<1>4. h \in AdbdRecord /\ h.usb = 0
  BY <1>3 DEF AdbdRecord
<1> HIDE DEF h
<1>5. d.usb = 0 /\ d.token \in Nat
  BY <1>4, AuthRequest
<1>6. toDevice = <<CNXN>> /\ toHost = <<>> /\ host.key = 0
  BY <1>1, <1>2, PacketFields, PromptFields DEF AdbdTakes, Conversation
<1> HIDE DEF d
<1>7. toDevice' = <<>> /\ toHost' = <<TOKEN(adbd'.token)>> /\ host'.key = 0
  BY <1>1, <1>6
<1> QED
  BY <1>1, <1>5, <1>7 DEF Conversation

LEMMA PromptSignature ==
  ASSUME AuthInv, PromptInv, AdbdSignature
  PROVE  PromptInv'
<1> SUFFICES ASSUME Known' PROVE (adbd.usb = 0 /\ Conversation)'
  BY DEF PromptInv
<1>1. /\ AdbdTakes("SIGNATURE") /\ toDevice' = Tail(toDevice)
      /\ UNCHANGED <<host, trusted, stored, restarts>>
      /\ \/ /\ adb_auth_verify(Head(toDevice))
            /\ adbd' = adb_auth_verified(adbd) /\ toHost' = Append(toHost, CNXN)
         \/ /\ ~adb_auth_verify(Head(toDevice)) /\ adbd' = send_auth_request(adbd)
            /\ toHost' = Append(toHost, TOKEN(adbd'.token))
  BY DEF AdbdSignature, AdbdStep, frameworkVars
<1>2. Known /\ adbd.usb = 0 /\ Conversation
  BY <1>1 DEF PromptInv, Known
<1>3. /\ toDevice = <<SIGNATURE(host.key, adbd.token)>> /\ toHost = <<>>
      /\ host.key \in 1 .. Keys /\ \A k \in 1 .. host.key - 1 : k \notin trusted
  BY <1>1, <1>2, PacketFields, PromptFields DEF AdbdTakes, Conversation
<1>4. adb_auth_verify(Head(toDevice)) <=> host.key \in trusted
  BY <1>3, PacketFields, PromptFields DEF adb_auth_verify
<1>5. adbd'.usb = 0 /\ toDevice' = <<>>
  BY <1>1, <1>2, <1>3, AuthVerified, AuthRequest, PromptFields
<1>6. toHost' = <<CNXN>> \/ (toHost' = <<TOKEN(adbd'.token)>> /\ host.key \notin trusted)
  BY <1>1, <1>3, <1>4
<1>7. host.key \notin trusted => \A k \in 1 .. host.key : k \notin trusted
  BY <1>3
<1> QED
  BY <1>1, <1>5, <1>6, <1>7 DEF Conversation

LEMMA PromptStep ==
  ASSUME AuthInv, PromptInv, [Next]_vars
  PROVE  PromptInv'
<1>1. CASE adb_auth_confirm_key
  <2>1. Known' => Known
    BY <1>1 DEF adb_auth_confirm_key, AdbdStep, frameworkVars, Known
  <2>2. ~Known
    BY <1>1, PacketFields, PromptFields
      DEF adb_auth_confirm_key, AdbdTakes, PromptInv, Conversation
  <2> QED
    BY <2>1, <2>2 DEF PromptInv
<1>2. ASSUME NEW n \in DOMAIN frameworks, adb_auth_event(n)
      PROVE  PromptInv'
  <2> SUFFICES ASSUME Known' PROVE (adbd.usb = 0 /\ Conversation)'
    BY DEF PromptInv
  <2>1. UNCHANGED <<host, toDevice, trusted, stored, restarts>>
    BY <1>2
      DEF adb_auth_event, EventOnFreed, EventOK, EventEOF, EventError, vars, connVars,
      frameworkVars
  <2>2. adbd.usb = 0 /\ Conversation
    BY <2>1 DEF Known, PromptInv
  <2>3. toHost' = toHost /\ (adbd' = adbd \/ adbd' = [adbd EXCEPT !.fd = 0])
    BY <1>2, <2>2
      DEF adb_auth_event, EventOnFreed, EventOK, EventEOF, EventError, vars, connVars
  <2>4. adbd'.usb = 0 /\ adbd'.token = adbd.token
    BY <2>2, <2>3, PromptFields DEF AdbdRecord
  <2> QED
    BY <2>1, <2>2, <2>3, <2>4 DEF Conversation
<1>3. CASE adb_auth_listener
  <2> SUFFICES ASSUME Known' PROVE (adbd.usb = 0 /\ Conversation)'
    BY DEF PromptInv
  <2>1. UNCHANGED <<host, toDevice, trusted, stored, restarts>>
    BY <1>3 DEF adb_auth_listener
  <2>2. adbd.usb = 0 /\ Conversation /\ ~adbd.retry
    BY <2>1, PromptFields DEF Known, PromptInv
  <2> DEFINE d == [adbd EXCEPT !.fd = Len(frameworks) + 1]
  <2>3. d.usb = 0 /\ d.token = adbd.token /\ ~d.retry
    BY <2>2, PromptFields DEF AdbdRecord
  <2>4. adbd' = d /\ toHost' = toHost
    BY <1>3, <2>3 DEF adb_auth_listener
  <2> HIDE DEF d
  <2> QED
    BY <2>1, <2>2, <2>3, <2>4 DEF Conversation
<1>4. CASE Attach
  <2>1. toDevice' = <<CNXN>> /\ toHost' = <<>> /\ host'.key = 0 /\ (Known' => Known)
        /\ adbd' = [adbd EXCEPT !.t = plugged + 1, !.state = "offline", !.online = FALSE]
    BY <1>4 DEF Attach, NewHost, frameworkVars, Known
  <2>2. adbd'.usb = adbd.usb
    BY <2>1, PromptFields DEF AdbdRecord
  <2> QED
    BY <2>1, <2>2 DEF PromptInv, Conversation
<1>5. CASE Detach
  <2>1. toDevice' = <<>> /\ toHost' = <<>> /\ (Known' => Known)
        /\ adbd' = [handle_offline(adbd) EXCEPT !.t = 0]
    BY <1>5 DEF Detach, frameworkVars, Known
  <2>2. handle_offline(adbd) \in AdbdRecord /\ handle_offline(adbd).usb = 0
    BY AuthOffline, PromptFields DEF AuthInv, Waiting
  <2>3. adbd'.usb = 0
    BY <2>1, <2>2 DEF AdbdRecord
  <2> QED
    BY <2>1, <2>3 DEF PromptInv, Conversation
<1>6. CASE HostRestarts
  BY <1>6 DEF HostRestarts, PromptInv, Known, AuthInv, TypeOK, CableType
<1>7. CASE \E n \in DOMAIN frameworks : UserConfirms(n) \/ FrameworkDies(n)
  BY <1>7 DEF UserConfirms, FrameworkDies, connVars, PromptInv, Known, Conversation
<1>8. CASE UNCHANGED vars
  BY <1>8 DEF vars, connVars, frameworkVars, PromptInv, Known, Conversation
<1> QED
  BY <1>1, <1>2, <1>3, <1>4, <1>5, <1>6, <1>7, <1>8, PromptHost, PromptConnect, PromptSignature
     DEF Next, Adbd

\* For every number of keys: a host with a key on file never sends its public key,
\* so that the user is not asked (adb_auth_nextkey, adb_auth_host.c, and the A_AUTH
\* handler, adb.c); up to a restart of the host and until a key is stored.
THEOREM KnownHostIsNotPrompted == Spec => []NoNeedlessPrompt
<1>1. Init => PromptInv
  BY DEF Init, PromptInv, Conversation
<1>2. AuthInv /\ PromptInv => NoNeedlessPrompt
  <2> SUFFICES ASSUME AuthInv, PromptInv, restarts = 0, ~stored, NEW n \in DOMAIN toDevice,
                      toDevice[n].type = "RSAPUBLICKEY", trusted # {}
               PROVE  FALSE
    BY DEF NoNeedlessPrompt
  <2>1. Conversation
    BY DEF PromptInv, Known
  <2>2. toDevice = <<>> \/ toDevice = <<CNXN>> \/ toDevice = <<SIGNATURE(host.key, adbd.token)>>
    BY <2>1 DEF Conversation
  <2> QED
    BY <2>2, PacketFields, PromptFields
<1>3. AuthInv /\ PromptInv /\ [Next]_vars => PromptInv'
  BY PromptStep
<1> QED
  BY <1>1, <1>2, <1>3, AuthInit, AuthNext, PTL DEF Spec
=============================================================================
