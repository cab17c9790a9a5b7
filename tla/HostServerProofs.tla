--------------------------- MODULE HostServerProofs ---------------------------
(***************************************************************************)
(* Proofs about HostServer, for every number of devices, forwards and      *)
(* clients.                                                                *)
(***************************************************************************)
EXTENDS HostServer, TLAPS

USE HostAssumption

DevState == {"none", "offline", "unauthorized", "device", "noperm", "freed"}
DevType == [st : DevState, listed : BOOLEAN, ahead : SUBSET Devices]
ClState == [st : {"none", "smart", "track", "wait", "stream"},
            sel : Devices \union {None}, shown : SUBSET [t : Devices, st : DevState]]
WaitState == [pc : {"none", "scan", "check"}, match : SUBSET Devices, serial : BOOLEAN,
              pick : Devices \union {None}]

\* The types of what concerns forwards, with every function and record spelled out.
LinkTypes ==
  /\ dev \in [Devices -> DevType]
  /\ hooks \in [Devices -> SUBSET Local]
  /\ fwd \in [Local -> Devices \union {None, Smart}]

\* listener_list and the disconnect lists say the same.
Linked == \A n \in Local, t \in Devices : n \in hooks[t] <=> fwd[n] = t

\* What is listed has been registered and is not freed; what is forwarded to is up.
\* The first part is what makes the choice of a forward's device safe.
Alive ==
  /\ \A t \in Devices : dev[t].listed => dev[t].st \notin {"none", "freed"}
  /\ \A n \in Local, t \in Devices : fwd[n] = t => dev[t].st \in {"device", "unauthorized"}

LinkInv == LinkTypes /\ Linked /\ Alive

\* The types of clients and threads; a thread that looks at a device has one, and a
\* client that waits has a thread.
ClientInv ==
  /\ cl \in [Clients -> ClState]
  /\ wait \in [Clients -> WaitState]
  /\ fault \in BOOLEAN
  /\ \A c \in Clients :
       /\ wait[c].pc = "check" => wait[c].pick # None
       /\ cl[c].st = "wait" => wait[c].pc # "none"

-----------------------------------------------------------------------------
(* The listeners.                                                          *)

LEMMA LinkInit == Init => LinkInv
BY DEF Init, NoDevice, LinkInv, LinkTypes, Linked, Alive, Local, DevState, DevType

\* Listeners that are freed are on no disconnect list afterwards.
LEMMA FreeKeepsLinks ==
  ASSUME LinkTypes, Linked, NEW names \in SUBSET Local, free_listeners(names, Unhook(names))
  PROVE  /\ hooks' \in [Devices -> SUBSET Local]
         /\ fwd' \in [Local -> Devices \union {None, Smart}]
         /\ Linked'
         /\ \A n \in Local : fwd'[n] = IF n \in names THEN None ELSE fwd[n]
BY DEF LinkTypes, Linked, free_listeners, Unhook, Local

\* After t's list has run no listener leads to t.
LEMMA DisconnectsKeepLinks ==
  ASSUME LinkTypes, Linked, NEW t \in Devices, run_transport_disconnects(t)
  PROVE  /\ hooks' \in [Devices -> SUBSET Local]
         /\ fwd' \in [Local -> Devices \union {None, Smart}]
         /\ Linked'
         /\ \A n \in Local : fwd'[n] = IF fwd[n] = t THEN None ELSE fwd[n]
<1>1. hooks[t] \in SUBSET Local  BY DEF LinkTypes
<1>2. \A n \in Local : n \in hooks[t] <=> fwd[n] = t  BY DEF Linked
<1> QED  BY <1>1, <1>2, FreeKeepsLinks DEF run_transport_disconnects

LEMMA InstallKeepsLinks ==
  ASSUME LinkTypes, Linked, NEW n \in Local, NEW t \in Devices, install_listener(n, t)
  PROVE  /\ hooks' \in [Devices -> SUBSET Local]
         /\ fwd' \in [Local -> Devices \union {None, Smart}]
         /\ Linked'
         /\ \A m \in Local : fwd'[m] = IF m = n THEN t ELSE fwd[m]
<1>1. fwd' = [fwd EXCEPT ![n] = t] /\ hooks' = [Unhook({n}) EXCEPT ![t] = @ \union {n}]
  BY DEF install_listener
<1>2. \A u \in Devices : hooks'[u] = IF u = t THEN (hooks[u] \ {n}) \union {n} ELSE hooks[u] \ {n}
  BY <1>1 DEF Unhook
<1>3. hooks' \in [Devices -> SUBSET Local]
  BY <1>1 DEF Unhook, LinkTypes
<1>4. \A m \in Local : fwd'[m] = IF m = n THEN t ELSE fwd[m]
  BY <1>1 DEF LinkTypes
<1>5. fwd' \in [Local -> Devices \union {None, Smart}]
  BY <1>1 DEF LinkTypes
<1>6. Linked'
  <2>1. ASSUME NEW m \in Local, NEW u \in Devices
        PROVE  m \in hooks'[u] <=> fwd'[m] = u
    <3>1. hooks'[u] = IF u = t THEN (hooks[u] \ {n}) \union {n} ELSE hooks[u] \ {n}
      BY <1>2
    <3>2. fwd'[m] = IF m = n THEN t ELSE fwd[m]
      BY <1>4
    <3>3. m \in hooks[u] <=> fwd[m] = u
      BY DEF Linked
    <3> QED  BY <3>1, <3>2, <3>3
  <2> QED  BY <2>1 DEF Linked
<1> QED  BY <1>3, <1>4, <1>5, <1>6

-----------------------------------------------------------------------------
(* The devices.                                                            *)

LEMMA ListedCleared ==
  ASSUME NEW r \in DevType
  PROVE  [r EXCEPT !.listed = FALSE] = [st |-> r.st, listed |-> FALSE, ahead |-> r.ahead]
<1>1. ASSUME NEW b \in BOOLEAN
      PROVE  [r EXCEPT !.listed = b] = [st |-> r.st, listed |-> b, ahead |-> r.ahead]
  BY DEF DevType
<1> QED  BY <1>1, FALSE \in BOOLEAN, Zenon

\* Devices that are only taken off the list.
LEMMA UnlistKeepsLinks ==
  ASSUME LinkInv, UNCHANGED <<hooks, fwd>>,
         dev' \in [Devices -> DevType],
         \A u \in Devices : dev'[u].st = dev[u].st /\ (dev'[u].listed => dev[u].listed)
  PROVE  LinkInv'
BY DEF LinkInv, LinkTypes, Linked, Alive

LEMMA DeviceKeepsLinks ==
  ASSUME LinkInv, NEW t \in Devices, Device(t)
  PROVE  LinkInv'
<1> USE DEF LinkInv, DevState, DevType
<1>1. CASE \E st \in {"offline", "noperm"} : RegisterDevice(t, st)
  BY <1>1 DEF RegisterDevice, Listed, LinkTypes, Linked, Alive
<1>2. CASE DeviceOnline(t)
  <2>1. /\ dev' = [dev EXCEPT ![t].st = "device"]
        /\ dev' \in [Devices -> DevType]
    BY <1>2 DEF DeviceOnline, LinkTypes
  <2>2. /\ hooks' \in [Devices -> SUBSET Local]
        /\ fwd' \in [Local -> Devices \union {None, Smart}]
        /\ Linked'
        /\ \A n \in Local : fwd'[n] \in {None, fwd[n]}
    <3>1. CASE dev[t].st # "offline"
      BY <1>2, <3>1, DisconnectsKeepLinks DEF DeviceOnline
    <3>2. CASE dev[t].st = "offline"
      BY <1>2, <3>2 DEF DeviceOnline, LinkTypes, Linked
    <3> QED  BY <3>1, <3>2
  <2>3. Alive'
    BY <1>2, <2>1, <2>2 DEF Alive, LinkTypes
  <2> QED  BY <2>1, <2>2, <2>3 DEF LinkTypes
<1>3. CASE DeviceUnauthorized(t)
  BY <1>3 DEF DeviceUnauthorized, Connected, LinkTypes, Linked, Alive
<1>4. CASE DeviceOffline(t)
  <2>1. run_transport_disconnects(t) /\ dev' = [dev EXCEPT ![t].st = "offline"]
    BY <1>4 DEF DeviceOffline
  <2> QED  BY <2>1, DisconnectsKeepLinks DEF LinkTypes, Alive
<1>5. CASE RemoveDevice(t)
  <2> DEFINE x == [st |-> "freed", listed |-> FALSE, ahead |-> {}]
  <2>1. run_transport_disconnects(t) /\ dev' = [dev EXCEPT ![t] = x]
    BY <1>5 DEF RemoveDevice, Removed
  <2>2. x \in DevType /\ x.st = "freed" /\ ~x.listed
    OBVIOUS
  <2> HIDE DEF x
  <2>3. dev' \in [Devices -> DevType]
    BY <2>1, <2>2 DEF LinkTypes
  <2>4. \A u \in Devices : dev'[u] = IF u = t THEN x ELSE dev[u]
    BY <2>1 DEF LinkTypes
  <2>5. Alive'
    <3>1. \A u \in Devices : dev'[u].listed => dev'[u].st \notin {"none", "freed"}
      BY <2>2, <2>4 DEF Alive
    <3>2. \A n \in Local : fwd'[n] = IF fwd[n] = t THEN None ELSE fwd[n]
      BY <2>1, DisconnectsKeepLinks
    <3>3. \A n \in Local, u \in Devices : fwd'[n] = u => dev'[u].st \in {"device", "unauthorized"}
      BY <2>4, <3>2 DEF Alive
    <3> QED  BY <3>1, <3>3 DEF Alive
  <2> QED  BY <2>1, <2>3, <2>5, DisconnectsKeepLinks DEF LinkTypes
<1>6. CASE RemoveNoperm(t)
  <2>1. dev' = [dev EXCEPT ![t].listed = FALSE] /\ UNCHANGED <<hooks, fwd>>
    BY <1>6 DEF RemoveNoperm
  <2>2. dev' = [dev EXCEPT ![t] = [dev[t] EXCEPT !.listed = FALSE]]
    BY <2>1
  <2>3. dev[t] \in DevType
    BY DEF LinkTypes
  <2>4. [dev[t] EXCEPT !.listed = FALSE]
        = [st |-> dev[t].st, listed |-> FALSE, ahead |-> dev[t].ahead]
    BY <2>3, ListedCleared
  <2>5. dev' \in [Devices -> DevType]
    BY <2>2, <2>3, <2>4 DEF LinkTypes
  <2>6. \A u \in Devices : dev'[u].st = dev[u].st /\ (dev'[u].listed => dev[u].listed)
    BY <2>2, <2>4 DEF LinkTypes
  <2> QED  BY <2>1, <2>5, <2>6, UnlistKeepsLinks
<1> QED  BY <1>1, <1>2, <1>3, <1>4, <1>5, <1>6 DEF Device

\* What acquire_one_transport picks is a listed device with permissions, if anything.
LEMMA PickIsListed ==
  ASSUME NEW m \in Match, NEW t \in Picks(m), t # None
  PROVE  t \in Devices /\ dev[t].listed /\ dev[t].st # "noperm"
BY DEF Picks, Candidates, Match

-----------------------------------------------------------------------------
(* The requests.                                                           *)

LEMMA ForwardKeepsLinks ==
  ASSUME LinkInv, NEW c \in Clients, NEW m \in Match, NEW n \in Local,
         NEW norebind \in BOOLEAN, NEW bound \in BOOLEAN, Forward(c, m, n, norebind, bound)
  PROVE  LinkInv'
<1>1. dev' = dev  BY DEF Forward
<1>2. PICK t \in Picks(m) :
        IF Acquired(t) /\ CanInstall(n, norebind) /\ (fwd[n] = None => bound)
        THEN install_listener(n, t) ELSE UNCHANGED <<hooks, fwd>>
  BY DEF Forward
<1>3. CASE Acquired(t) /\ install_listener(n, t)
  <2>1. t \in Devices /\ dev[t].st = "device"
    BY <1>3, PickIsListed DEF Acquired, LinkInv, LinkTypes, Alive, DevState, DevType
  <2> QED  BY <1>1, <1>3, <2>1, InstallKeepsLinks DEF LinkInv, LinkTypes, Alive
<1>4. CASE UNCHANGED <<hooks, fwd>>
  BY <1>1, <1>4 DEF LinkInv, LinkTypes, Linked, Alive
<1> QED  BY <1>2, <1>3, <1>4

LEMMA KillKeepsLinks ==
  ASSUME LinkInv, dev' = dev, NEW names \in SUBSET Local,
         free_listeners(names, Unhook(names))
  PROVE  LinkInv'
<1>1. Alive'
  BY FreeKeepsLinks DEF LinkInv, Alive
<1> QED  BY <1>1, FreeKeepsLinks DEF LinkInv, LinkTypes

LEMMA RequestKeepsLinks ==
  ASSUME LinkInv, NEW c \in Clients, Request(c)
  PROVE  LinkInv'
<1>1. CASE TrackDevices(c) \/ OpenService(c)
  <2>1. UNCHANGED <<dev, hooks, fwd>>
    BY <1>1 DEF TrackDevices, OpenService
  <2> QED  BY <2>1 DEF LinkInv, LinkTypes, Linked, Alive
<1>2. CASE KillForwardAll(c)
  <2>1. dev' = dev /\ remove_all_listeners  BY <1>2 DEF KillForwardAll
  <2> QED  BY <2>1, KillKeepsLinks DEF remove_all_listeners
<1>3. CASE \E ts \in SUBSET Devices : Disconnect(c, ts)
  <2>1. PICK ts \in SUBSET Devices : Disconnect(c, ts)
    BY <1>3
  <2>2. /\ UNCHANGED <<hooks, fwd>>
        /\ dev' = [t \in Devices |-> [dev[t] EXCEPT !.listed = @ /\ t \notin ts]]
    BY <2>1 DEF Disconnect
  <2>3. ASSUME NEW t \in Devices
        PROVE  /\ dev'[t] \in DevType
               /\ dev'[t].st = dev[t].st
               /\ dev'[t].listed => dev[t].listed
    <3>1. dev[t] \in DevType
      BY DEF LinkInv, LinkTypes
    <3>2. dev'[t] = [st |-> dev[t].st, listed |-> dev[t].listed /\ t \notin ts,
                     ahead |-> dev[t].ahead]
      BY <2>2, <3>1 DEF DevType
    <3> QED  BY <3>1, <3>2 DEF DevType
  <2> QED  BY <2>2, <2>3, UnlistKeepsLinks
<1>4. ASSUME NEW m \in Match, SelectDevice(c, m) \/ \E serial \in BOOLEAN : WaitFor(c, m, serial)
      PROVE  LinkInv'
  BY <1>4 DEF SelectDevice, WaitFor, LinkInv, LinkTypes, Linked, Alive
<1>5. ASSUME NEW m \in Match, NEW n \in Local, KillForward(c, m, n)
      PROVE  LinkInv'
  <2>1. dev' = dev /\ (remove_listener(n) \/ UNCHANGED <<hooks, fwd>>)
    BY <1>5 DEF KillForward
  <2>2. CASE remove_listener(n)
    BY <2>1, <2>2, KillKeepsLinks DEF remove_listener
  <2>3. CASE UNCHANGED <<hooks, fwd>>
    BY <2>1, <2>3 DEF LinkInv, LinkTypes, Linked, Alive
  <2> QED  BY <2>1, <2>2, <2>3
<1>6. ASSUME NEW m \in Match, NEW n \in Local, NEW norebind \in BOOLEAN, NEW bound \in BOOLEAN,
             Forward(c, m, n, norebind, bound)
      PROVE  LinkInv'
  BY <1>6, ForwardKeepsLinks
<1> QED  BY <1>1, <1>2, <1>3, <1>4, <1>5, <1>6 DEF Request

LEMMA LinkNext == LinkInv /\ [Next]_vars => LinkInv'
<1> SUFFICES ASSUME LinkInv, [Next]_vars PROVE LinkInv'
  OBVIOUS
<1>1. ASSUME NEW t \in Devices, Device(t) PROVE LinkInv'
  BY <1>1, DeviceKeepsLinks
<1>2. ASSUME NEW c \in Clients, Request(c) PROVE LinkInv'
  BY <1>2, RequestKeepsLinks
<1>3. ASSUME NEW c \in Clients, Connect(c) \/ CloseSocket(c) \/ WaitScan(c) \/ WaitCheck(c)
      PROVE  LinkInv'
  <2>1. UNCHANGED <<dev, hooks, fwd>>
    BY <1>3 DEF Connect, CloseSocket, WaitScan, WaitCheck
  <2> QED  BY <2>1 DEF LinkInv, LinkTypes, Linked, Alive
<1>4. CASE UNCHANGED vars
  BY <1>4 DEF vars, LinkInv, LinkTypes, Linked, Alive
<1> QED  BY <1>1, <1>2, <1>3, <1>4 DEF Next

-----------------------------------------------------------------------------
(* Clients and threads.                                                    *)

LEMMA NoClientOK == NoClient \in ClState /\ NoClient.st # "wait"
BY DEF NoClient, ClState

LEMMA NoWaitOK == NoWait \in WaitState /\ NoWait.pc = "none"
BY DEF NoWait, WaitState

LEMMA ClientInit == Init => ClientInv
<1> SUFFICES ASSUME Init PROVE ClientInv
  OBVIOUS
<1>1. cl = [c \in Clients |-> NoClient] /\ wait = [c \in Clients |-> NoWait] /\ fault = FALSE
  BY DEF Init
<1> QED  BY <1>1, NoClientOK, NoWaitOK DEF ClientInv

LEMMA ShownTyped ==
  ASSUME NEW d \in [Devices -> DevType], NEW list \in list_transports(d)
  PROVE  list \in SUBSET [t : Devices, st : DevState]
BY DEF list_transports, Listed, DevType

\* The trackers are shown the new list, and nothing else changes about a client.
LEMMA UpdateKeepsClients ==
  ASSUME ClientInv, LinkTypes', update_transports(dev'), UNCHANGED <<wait, fault>>
  PROVE  ClientInv'
<1>1. PICK list \in list_transports(dev') :
        cl' = [c \in Clients |->
                 IF cl[c].st = "track" THEN [cl[c] EXCEPT !.shown = list] ELSE cl[c]]
  BY DEF update_transports
<1>2. list \in SUBSET [t : Devices, st : DevState]
  BY ShownTyped DEF LinkTypes
<1>3. cl' \in [Clients -> ClState] /\ \A c \in Clients : cl'[c].st = cl[c].st
  BY <1>1, <1>2 DEF ClientInv, ClState
<1> QED  BY <1>3 DEF ClientInv, ClState

\* One client and its thread change.
LEMMA OneClient ==
  ASSUME ClientInv, NEW c \in Clients, NEW x \in ClState, NEW w \in WaitState,
         cl' = [cl EXCEPT ![c] = x], wait' = [wait EXCEPT ![c] = w], fault' \in BOOLEAN,
         w.pc = "check" => w.pick # None, x.st = "wait" => w.pc # "none"
  PROVE  ClientInv'
BY DEF ClientInv, ClState

\* A client's socket changes and its thread does not: it does not begin to wait.
LEMMA SocketOnly ==
  ASSUME ClientInv, NEW c \in Clients, NEW x \in ClState, cl' = [cl EXCEPT ![c] = x],
         x.st # "wait", UNCHANGED wait, fault' \in BOOLEAN
  PROVE  ClientInv'
BY DEF ClientInv, ClState

LEMMA DeviceKeepsClients ==
  ASSUME ClientInv, LinkInv', NEW t \in Devices, Device(t)
  PROVE  ClientInv'
<1>1. CASE UNCHANGED <<cl, wait, fault>>
  BY <1>1 DEF ClientInv
<1>2. CASE update_transports(dev') /\ UNCHANGED <<wait, fault>>
  BY <1>2, UpdateKeepsClients DEF LinkInv
<1> QED
  BY <1>1, <1>2 DEF Device, RegisterDevice, DeviceOnline, DeviceUnauthorized, DeviceOffline,
     RemoveDevice, RemoveNoperm

LEMMA RequestKeepsClients ==
  ASSUME ClientInv, LinkInv, NEW c \in Clients, Request(c)
  PROVE  ClientInv'
<1>0. cl[c] \in ClState /\ wait[c] \in WaitState /\ fault \in BOOLEAN
  BY DEF ClientInv, ClState
<1>1. CASE Close(c) /\ UNCHANGED <<wait, fault>>
  BY <1>0, <1>1, NoClientOK, SocketOnly DEF Close
<1>2. CASE TrackDevices(c)
  <2>0. PICK list \in list_transports(dev) :
          cl' = [cl EXCEPT ![c] = [NoClient EXCEPT !.st = "track", !.shown = list]]
    BY <1>2 DEF TrackDevices
  <2> DEFINE x == [NoClient EXCEPT !.st = "track", !.shown = list]
  <2>1. list \in SUBSET [t : Devices, st : DevState]
    BY ShownTyped DEF LinkInv, LinkTypes
  <2>2. x \in ClState /\ x.st # "wait"
    BY <2>1 DEF ClState, NoClient
  <2>3. cl' = [cl EXCEPT ![c] = x] /\ UNCHANGED <<wait, fault>>
    BY <1>2, <2>0 DEF TrackDevices
  <2> QED  BY <1>0, <2>2, <2>3, SocketOnly
<1>3. CASE OpenService(c)
  <2> DEFINE x == [NoClient EXCEPT !.st = "stream"]
  <2>1. x \in ClState /\ x.st # "wait"
    BY DEF ClState, NoClient
  <2>2. UNCHANGED wait /\ fault' \in BOOLEAN
        /\ (cl' = [cl EXCEPT ![c] = NoClient] \/ cl' = [cl EXCEPT ![c] = x])
    BY <1>0, <1>3 DEF OpenService, Close
  <2> QED  BY <2>1, <2>2, NoClientOK, SocketOnly
<1>4. ASSUME NEW m \in Match, SelectDevice(c, m) PROVE ClientInv'
  <2>1. PICK t \in Picks(m) : cl' = [cl EXCEPT ![c].sel = IF Acquired(t) THEN t ELSE @]
    BY <1>4 DEF SelectDevice
  <2> DEFINE d == IF Acquired(t) THEN t ELSE cl[c].sel
             x == [cl[c] EXCEPT !.sel = d]
  <2>2. d \in Devices \union {None}
    BY <1>0, PickIsListed DEF Acquired, ClState
  <2>3. cl' = [cl EXCEPT ![c] = x]
    BY <2>1
  <2>4. cl[c].st = "smart" /\ UNCHANGED <<wait, fault>>
    BY <1>4 DEF SelectDevice
  <2> HIDE DEF d
  <2>5. x \in ClState /\ x.st # "wait"
    BY <1>0, <2>2, <2>4 DEF ClState
  <2> QED  BY <1>0, <2>3, <2>4, <2>5, SocketOnly
<1>5. ASSUME NEW m \in Match, NEW serial \in BOOLEAN, WaitFor(c, m, serial) PROVE ClientInv'
  <2> DEFINE x == [NoClient EXCEPT !.st = "wait"]
             w == [pc |-> "scan", match |-> m, serial |-> serial, pick |-> None]
  <2>1. x \in ClState /\ w \in WaitState /\ w.pc = "scan"
    BY DEF ClState, WaitState, NoClient, Match
  <2>2. cl' = [cl EXCEPT ![c] = x] /\ wait' = [wait EXCEPT ![c] = w] /\ UNCHANGED fault
    BY <1>5 DEF WaitFor
  <2> HIDE DEF x, w
  <2> QED  BY <1>0, <2>1, <2>2, OneClient
<1> QED
  BY <1>1, <1>2, <1>3, <1>4, <1>5
     DEF Request, KillForwardAll, Disconnect, KillForward, Forward

LEMMA WaitKeepsClients ==
  ASSUME ClientInv, NEW c \in Clients, WaitScan(c) \/ WaitCheck(c)
  PROVE  ClientInv'
<1>0. cl[c] \in ClState /\ wait[c] \in WaitState /\ fault \in BOOLEAN
  BY DEF ClientInv, ClState
<1>1. CASE WaitEnds(c) /\ fault' \in BOOLEAN
  <2> DEFINE x == IF cl[c].st = "wait" THEN NoClient ELSE cl[c]
  <2>1. x \in ClState /\ x.st # "wait"
    BY <1>0, NoClientOK
  <2>2. cl' = [cl EXCEPT ![c] = x] /\ wait' = [wait EXCEPT ![c] = NoWait]
    BY <1>1 DEF WaitEnds
  <2> HIDE DEF x
  <2> QED  BY <1>1, <2>1, <2>2, NoWaitOK, OneClient
<1>2. ASSUME NEW p \in {"scan", "check"}, NEW t \in Devices \union {None},
             p = "check" => t # None, UNCHANGED cl, fault' \in BOOLEAN,
             wait' = [wait EXCEPT ![c].pick = t, ![c].pc = p]
      PROVE  ClientInv'
  <2> DEFINE w == [wait[c] EXCEPT !.pick = t, !.pc = p]
  <2>1. wait' = [wait EXCEPT ![c] = w]
    BY <1>2
  <2>2. w \in WaitState /\ w.pc = p /\ w.pick = t
    BY <1>0 DEF WaitState
  <2> HIDE DEF w
  <2>3. cl' = [cl EXCEPT ![c] = cl[c]]
    BY <1>2 DEF ClientInv
  <2> QED  BY <1>0, <1>2, <2>1, <2>2, <2>3, OneClient
<1>3. CASE WaitScan(c)
  <2>1. UNCHANGED fault  BY <1>3 DEF WaitScan
  <2>2. CASE WaitEnds(c)  BY <1>0, <1>1, <2>1, <2>2
  <2>3. CASE ~WaitEnds(c)
    <3>1. PICK t \in Picks(wait[c].match) :
            wait' = [wait EXCEPT ![c].pick = t, ![c].pc = IF t = None THEN "scan" ELSE "check"]
      BY <1>3, <2>3 DEF WaitScan
    <3>2. t \in Devices \union {None}
      BY <1>0 DEF Picks, Candidates, WaitState
    <3>3. UNCHANGED cl  BY <1>3, <2>3 DEF WaitScan
    <3>4. CASE t = None
      BY <1>0, <1>2, <2>1, <3>1, <3>3, <3>4
    <3>5. CASE t # None
      BY <1>0, <1>2, <2>1, <3>1, <3>2, <3>3, <3>5
    <3> QED  BY <3>4, <3>5
  <2> QED  BY <2>2, <2>3
<1>4. CASE WaitCheck(c)
  <2>1. fault' \in BOOLEAN  BY <1>4 DEF WaitCheck
  <2>2. CASE WaitEnds(c)  BY <1>1, <2>1, <2>2
  <2>3. CASE ~WaitEnds(c)
    <3>1. wait' = [wait EXCEPT ![c].pc = "scan", ![c].pick = None] /\ UNCHANGED cl
      BY <1>4, <2>3 DEF WaitCheck
    <3>2. wait' = [wait EXCEPT ![c].pick = None, ![c].pc = "scan"]
      BY <1>0, <3>1 DEF ClientInv, WaitState
    <3> QED  BY <1>2, <2>1, <3>1, <3>2
  <2> QED  BY <2>2, <2>3
<1> QED  BY <1>3, <1>4

LEMMA ClientNext == LinkInv /\ LinkInv' /\ ClientInv /\ [Next]_vars => ClientInv'
<1> SUFFICES ASSUME LinkInv, LinkInv', ClientInv, [Next]_vars PROVE ClientInv'
  OBVIOUS
<1>1. ASSUME NEW t \in Devices, Device(t) PROVE ClientInv'
  BY <1>1, DeviceKeepsClients
<1>2. ASSUME NEW c \in Clients, Request(c) PROVE ClientInv'
  BY <1>2, RequestKeepsClients
<1>3. ASSUME NEW c \in Clients, WaitScan(c) \/ WaitCheck(c) PROVE ClientInv'
  BY <1>3, WaitKeepsClients
<1>4. ASSUME NEW c \in Clients, CloseSocket(c) PROVE ClientInv'
  <2>1. cl' = [cl EXCEPT ![c] = NoClient] /\ UNCHANGED <<wait, fault>>
    BY <1>4 DEF CloseSocket, Close
  <2> QED  BY <2>1, NoClientOK, SocketOnly DEF ClientInv
<1>5. ASSUME NEW c \in Clients, Connect(c) PROVE ClientInv'
  <2> DEFINE x == [cl[c] EXCEPT !.st = "smart"]
  <2>1. cl' = [cl EXCEPT ![c] = x] /\ UNCHANGED <<wait, fault>>
    BY <1>5 DEF Connect
  <2>2. x \in ClState /\ x.st # "wait"
    BY DEF ClientInv, ClState
  <2> HIDE DEF x
  <2> QED  BY <2>1, <2>2, SocketOnly DEF ClientInv
<1>6. CASE UNCHANGED vars
  BY <1>6 DEF vars, ClientInv
<1> QED  BY <1>1, <1>2, <1>3, <1>4, <1>5, <1>6 DEF Next

-----------------------------------------------------------------------------
(* The trackers.                                                           *)

\* The list that is current is enough.
LEMMA ListTells ==
  ASSUME NEW d, NEW list \in list_transports(d),
         \A t \in Devices : d[t].listed => d[t].st \notin {"none", "freed"}
  PROVE  Told(list, d)
<1>1. PICK s \in SUBSET Listed(d) :
        /\ list = {[t |-> t, st |-> d[t].st] : t \in s}
        /\ \A t \in s : d[t].ahead \intersect Listed(d) \subseteq s
        /\ (s = Listed(d) \/ Cardinality(s) >= Lines)
  BY DEF list_transports
<1>2. {e.t : e \in list} = s
  <2>1. ASSUME NEW t \in s
        PROVE  \E e \in list : e.t = t
    <3>1. [t |-> t, st |-> d[t].st] \in list
      BY <1>1
    <3> QED  BY <3>1
  <2>2. \A e \in list : e.t \in s
    BY <1>1
  <2> QED  BY <2>1, <2>2
<1>3. \A t \in Listed(d) \ s : Cardinality(s) >= Lines /\ \A u \in s : t \notin d[u].ahead
  BY <1>1
<1>4. \A e \in list : e.t \in s /\ e.st = d[e.t].st
  BY <1>1
<1>5. \A t \in s : t \in Devices /\ d[t].listed
  BY <1>1 DEF Listed
<1> QED  BY <1>2, <1>3, <1>4, <1>5 DEF Told

\* A list that was enough stays so while nothing changes that would be announced.
NoNews(d, e) ==
  \A t \in Devices : /\ e[t].listed => d[t].listed
                     /\ e[t].ahead = d[t].ahead
                     /\ e[t].st = d[t].st \/ e[t].st \in {"offline", "unauthorized"}

LEMMA StaysTold ==
  ASSUME NEW shown \in SUBSET [t : Devices, st : DevState], NEW d, NEW e, Told(shown, d),
         NoNews(d, e)
  PROVE  Told(shown, e)
<1> DEFINE known == {x.t : x \in shown}
<1>1. known \subseteq Devices /\ \A x \in shown : x.t \in Devices
  OBVIOUS
<1>2. \A x \in shown : /\ e[x.t].st \notin {"none", "freed"}
                       /\ x.st = e[x.t].st \/ Unannounced(e, x.t)
  BY <1>1 DEF Told, NoNews, Unannounced
<1>3. \A t \in Listed(d) \ known :
        Cardinality(known) >= Lines /\ \A u \in known : d[u].listed => t \notin d[u].ahead
  BY DEF Told
<1>4. Listed(e) \subseteq Listed(d)
  BY DEF NoNews, Listed
<1> HIDE DEF known
<1>5. \A t \in Listed(e) \ known :
        Cardinality(known) >= Lines /\ \A u \in known : e[u].listed => t \notin e[u].ahead
  BY <1>1, <1>3, <1>4 DEF NoNews
<1> QED  BY <1>2, <1>5 DEF Told, known

LEMMA AfterUpdate ==
  ASSUME TrackersTold, LinkInv', ClientInv, update_transports(dev')
  PROVE  TrackersTold'
<1>1. PICK list \in list_transports(dev') :
        cl' = [c \in Clients |->
                 IF cl[c].st = "track" THEN [cl[c] EXCEPT !.shown = list] ELSE cl[c]]
  BY DEF update_transports
<1>2. \A t \in Devices : dev'[t].listed => dev'[t].st \notin {"none", "freed"}
  BY DEF LinkInv, Alive
<1>3. Told(list, dev')
  BY <1>2, ListTells
<1>4. \A c \in Clients : cl'[c].st = "track" => cl'[c].shown = list
  BY <1>1 DEF ClientInv, ClState
<1> QED  BY <1>3, <1>4 DEF TrackersTold, Told

\* The clients are as before, but for one that is not a tracker now.
LEMMA OtherClients ==
  ASSUME TrackersTold, ClientInv, UNCHANGED dev, NEW c \in Clients, NEW x,
         cl' = [cl EXCEPT ![c] = x], x.st # "track"
  PROVE  TrackersTold'
BY DEF TrackersTold, ClientInv

\* The clients are as before.
LEMMA SameClients ==
  ASSUME TrackersTold, ClientInv, UNCHANGED cl, NoNews(dev, dev')
  PROVE  TrackersTold'
<1>1. \A c \in Clients : cl[c].shown \in SUBSET [t : Devices, st : DevState]
  BY DEF ClientInv, ClState
<1>2. \A c \in Clients : cl[c].st = "track" => Told(cl[c].shown, dev')
  BY <1>1, StaysTold DEF TrackersTold
<1> QED  BY <1>2 DEF TrackersTold, Told

LEMMA DeviceTells ==
  ASSUME TrackersTold, LinkInv, LinkInv', ClientInv, NEW t \in Devices, Device(t)
  PROVE  TrackersTold'
<1>1. CASE update_transports(dev')
  BY <1>1, AfterUpdate
<1>2. CASE DeviceUnauthorized(t) \/ DeviceOffline(t)
  <2>1. /\ UNCHANGED cl
        /\ \E st \in {"offline", "unauthorized"} : dev' = [dev EXCEPT ![t].st = st]
    BY <1>2 DEF DeviceUnauthorized, DeviceOffline
  <2>2. NoNews(dev, dev')
    BY <2>1 DEF LinkInv, LinkTypes, DevType, NoNews
  <2> QED  BY <2>1, <2>2, SameClients
<1>3. CASE RemoveNoperm(t)
  <2>1. UNCHANGED cl /\ dev' = [dev EXCEPT ![t].listed = FALSE]
    BY <1>3 DEF RemoveNoperm
  <2>2. NoNews(dev, dev')
    BY <2>1 DEF LinkInv, LinkTypes, DevType, NoNews
  <2> QED  BY <2>1, <2>2, SameClients
<1> QED
  BY <1>1, <1>2, <1>3 DEF Device, RegisterDevice, DeviceOnline, RemoveDevice

LEMMA NoTracker == NoClient.st # "track" /\ [NoClient EXCEPT !.st = "wait"].st # "track"
BY DEF NoClient

LEMMA RequestTells ==
  ASSUME TrackersTold, LinkInv, ClientInv, NEW c \in Clients, Request(c)
  PROVE  TrackersTold'
<1>1. CASE Close(c) /\ UNCHANGED dev
  BY <1>1, NoTracker, OtherClients DEF Close
<1>2. CASE TrackDevices(c)
  <2>0. PICK list \in list_transports(dev) :
          cl' = [cl EXCEPT ![c] = [NoClient EXCEPT !.st = "track", !.shown = list]]
    BY <1>2 DEF TrackDevices
  <2>1. dev' = dev
    BY <1>2 DEF TrackDevices
  <2>2. ASSUME NEW k \in Clients, cl'[k].st = "track"
        PROVE  Told(cl'[k].shown, dev)
    <3>1. CASE k = c
      <4>1. cl'[k].shown = list
        BY <2>0, <3>1 DEF NoClient, ClientInv
      <4>2. \A t \in Devices : dev[t].listed => dev[t].st \notin {"none", "freed"}
        BY DEF LinkInv, Alive
      <4> QED  BY <4>1, <4>2, ListTells
    <3>2. CASE k # c
      BY <2>0, <2>2, <3>2 DEF ClientInv, TrackersTold
    <3> QED  BY <3>1, <3>2
  <2> QED  BY <2>1, <2>2 DEF TrackersTold, Told
<1>3. CASE OpenService(c)
  <2> DEFINE x == [NoClient EXCEPT !.st = "stream"]
  <2>1. NoClient.st # "track" /\ x.st # "track"
    BY DEF NoClient
  <2>2. (cl' = [cl EXCEPT ![c] = NoClient] \/ cl' = [cl EXCEPT ![c] = x]) /\ UNCHANGED dev
    BY <1>3 DEF OpenService, Close
  <2> HIDE DEF x
  <2> QED  BY <2>1, <2>2, OtherClients
<1>4. ASSUME NEW m \in Match, SelectDevice(c, m) PROVE TrackersTold'
  <2>1. /\ cl[c].st = "smart" /\ UNCHANGED dev
        /\ \E d : cl' = [cl EXCEPT ![c].sel = d]
    BY <1>4 DEF SelectDevice
  <2>2. PICK d : cl' = [cl EXCEPT ![c] = [cl[c] EXCEPT !.sel = d]]
    BY <2>1
  <2>3. [cl[c] EXCEPT !.sel = d].st # "track"
    BY <2>1 DEF ClientInv, ClState
  <2> QED  BY <2>1, <2>2, <2>3, OtherClients
<1>5. ASSUME NEW m \in Match, NEW serial \in BOOLEAN, WaitFor(c, m, serial) PROVE TrackersTold'
  BY <1>5, NoTracker, OtherClients DEF WaitFor
<1>6. ASSUME NEW ts \in SUBSET Devices, Disconnect(c, ts) PROVE TrackersTold'
  <2>1. /\ cl' = [cl EXCEPT ![c] = NoClient]
        /\ dev' = [t \in Devices |-> [dev[t] EXCEPT !.listed = @ /\ t \notin ts]]
    BY <1>6 DEF Disconnect, Close
  <2>2. NoNews(dev, dev')
    <3>1. ASSUME NEW t \in Devices
          PROVE  dev'[t] = [st |-> dev[t].st, listed |-> dev[t].listed /\ t \notin ts,
                            ahead |-> dev[t].ahead]
      BY <2>1 DEF LinkInv, LinkTypes, DevType
    <3>2. ASSUME NEW t \in Devices
          PROVE  /\ dev'[t].st = dev[t].st /\ dev'[t].ahead = dev[t].ahead
                 /\ dev'[t].listed => dev[t].listed
      <4> DEFINE b == dev[t].listed /\ t \notin ts
      <4>1. dev'[t] = [st |-> dev[t].st, listed |-> b, ahead |-> dev[t].ahead] /\ (b => dev[t].listed)
        BY <3>1
      <4> HIDE DEF b
      <4> QED  BY <4>1
    <3> QED  BY <3>2 DEF NoNews
  <2>3. ASSUME NEW k \in Clients, cl'[k].st = "track"
        PROVE  Told(cl'[k].shown, dev')
    <3>1. k # c /\ cl'[k] = cl[k]
      BY <2>1, <2>3 DEF NoClient, ClientInv
    <3>2. Told(cl[k].shown, dev) /\ cl[k].shown \in SUBSET [t : Devices, st : DevState]
      BY <2>3, <3>1 DEF TrackersTold, ClientInv, ClState
    <3>3. Told(cl[k].shown, dev')
      BY <2>2, <3>2, StaysTold
    <3> QED  BY <3>1, <3>3
  <2> QED  BY <2>3 DEF TrackersTold, Told
<1> QED
  BY <1>1, <1>2, <1>3, <1>4, <1>5, <1>6 DEF Request, KillForwardAll, KillForward, Forward

LEMMA ToldNext ==
  TrackersTold /\ LinkInv /\ LinkInv' /\ ClientInv /\ [Next]_vars => TrackersTold'
<1> SUFFICES ASSUME TrackersTold, LinkInv, LinkInv', ClientInv, [Next]_vars PROVE TrackersTold'
  OBVIOUS
<1>1. ASSUME NEW t \in Devices, Device(t) PROVE TrackersTold'
  BY <1>1, DeviceTells
<1>2. ASSUME NEW c \in Clients, Request(c) PROVE TrackersTold'
  BY <1>2, RequestTells
<1>3. ASSUME NEW c \in Clients, Connect(c) PROVE TrackersTold'
  <2>1. cl' = [cl EXCEPT ![c] = [cl[c] EXCEPT !.st = "smart"]] /\ UNCHANGED dev
    BY <1>3 DEF Connect
  <2>2. [cl[c] EXCEPT !.st = "smart"].st # "track"
    BY DEF ClientInv, ClState
  <2> QED  BY <2>1, <2>2, OtherClients
<1>4. ASSUME NEW c \in Clients, CloseSocket(c) PROVE TrackersTold'
  BY <1>4, NoTracker, OtherClients DEF CloseSocket, Close
<1>5. ASSUME NEW c \in Clients, WaitScan(c) \/ WaitCheck(c) PROVE TrackersTold'
  <2>1. UNCHANGED dev /\ (UNCHANGED cl \/ WaitEnds(c))
    BY <1>5 DEF WaitScan, WaitCheck
  <2>2. CASE UNCHANGED cl
    BY <2>1, <2>2 DEF TrackersTold
  <2>3. CASE WaitEnds(c)
    <3>1. cl' = [cl EXCEPT ![c] = NoClient] \/ UNCHANGED cl
      BY <2>3 DEF WaitEnds, ClientInv
    <3> QED  BY <2>1, <2>2, <3>1, NoTracker, OtherClients
  <2> QED  BY <2>1, <2>2, <2>3
<1>6. CASE UNCHANGED vars
  BY <1>6 DEF vars, TrackersTold
<1> QED  BY <1>1, <1>2, <1>3, <1>4, <1>5, <1>6 DEF Next

-----------------------------------------------------------------------------
(* Results.                                                                *)

\* A listener that goes is named, or goes with all forwards, or with its device.
LEMMA GoesForAReason ==
  ASSUME LinkInv, [Next]_vars, NEW n \in Local, fwd[n] # None, fwd'[n] = None
  PROVE  \/ \E c \in Clients, m \in Match : KillForward(c, m, n)
         \/ fwd[n] # Smart /\ \E c \in Clients : KillForwardAll(c)
         \/ fwd[n] # Smart /\ Leaves(fwd[n])
<1> DEFINE Reason == \/ \E c \in Clients, m \in Match : KillForward(c, m, n)
                     \/ fwd[n] # Smart /\ \E c \in Clients : KillForwardAll(c)
                     \/ fwd[n] # Smart /\ Leaves(fwd[n])
<1>0. LinkTypes /\ Linked /\ fwd' # fwd  BY DEF LinkInv
<1>1. ASSUME NEW t \in Devices, Device(t) PROVE Reason
  <2>1. DeviceOnline(t) \/ DeviceOffline(t) \/ RemoveDevice(t)
    BY <1>0, <1>1 DEF Device, RegisterDevice, DeviceUnauthorized, RemoveNoperm
  <2>2. run_transport_disconnects(t)
    BY <1>0, <2>1 DEF DeviceOnline, DeviceOffline, RemoveDevice
  <2>3. fwd[n] = t
    BY <1>0, <2>2, DisconnectsKeepLinks
  <2> QED  BY <2>1, <2>3 DEF Leaves
<1>2. ASSUME NEW c \in Clients, Request(c) PROVE Reason
  <2>1. CASE KillForwardAll(c)
    <3>1. fwd' = [k \in Local |-> IF k \in {l \in Local : fwd[l] \in Devices} THEN None ELSE fwd[k]]
      BY <2>1 DEF KillForwardAll, remove_all_listeners, free_listeners
    <3>2. fwd[n] \in Devices
      BY <3>1
    <3> QED  BY <2>1, <3>2
  <2>2. ASSUME NEW m \in Match, NEW k \in Local, KillForward(c, m, k) PROVE Reason
    <3>1. remove_listener(k)
      BY <1>0, <2>2 DEF KillForward
    <3>2. fwd'[n] = IF n \in {k} THEN None ELSE fwd[n]
      BY <3>1 DEF remove_listener, free_listeners
    <3> QED  BY <2>2, <3>2
  <2>3. ASSUME NEW m \in Match, NEW k \in Local, NEW norebind \in BOOLEAN, NEW bound \in BOOLEAN,
               Forward(c, m, k, norebind, bound)
        PROVE  FALSE
    <3>1. PICK t \in Picks(m) : Acquired(t) /\ install_listener(k, t)
      BY <1>0, <2>3 DEF Forward
    <3>2. t \in Devices /\ fwd' = [fwd EXCEPT ![k] = t]
      BY <3>1, PickIsListed DEF Acquired, install_listener
    <3> QED  BY <1>0, <3>2 DEF LinkTypes
  <2>4. CASE \/ TrackDevices(c) \/ OpenService(c)
             \/ \E ts \in SUBSET Devices : Disconnect(c, ts)
             \/ \E m \in Match : SelectDevice(c, m) \/ \E serial \in BOOLEAN : WaitFor(c, m, serial)
    BY <1>0, <2>4 DEF TrackDevices, OpenService, Disconnect, SelectDevice, WaitFor
  <2> QED  BY <1>2, <2>1, <2>2, <2>3, <2>4 DEF Request
<1>3. ASSUME NEW c \in Clients, Connect(c) \/ CloseSocket(c) \/ WaitScan(c) \/ WaitCheck(c)
      PROVE  FALSE
  BY <1>0, <1>3 DEF Connect, CloseSocket, WaitScan, WaitCheck
<1>4. CASE UNCHANGED vars
  BY <1>0, <1>4 DEF vars
<1> QED  BY <1>1, <1>2, <1>3, <1>4 DEF Next

LEMMA HostInv == Spec => [](LinkInv /\ ClientInv)
BY LinkInit, LinkNext, ClientInit, ClientNext, PTL DEF Spec

\* Every forward is in the disconnect list of its device and in no other, and its
\* device is up: install_listener, its rebinding, both removals, "disconnect:" and
\* every way in which a device leaves keep the two lists together.
THEOREM ForwardsSafe == Spec => []ForwardsHooked
<1>1. LinkInv /\ ClientInv => ForwardsHooked
  BY DEF LinkInv, LinkTypes, Linked, Alive, ClientInv, ClState, WaitState, DevState, DevType,
     ForwardsHooked, TypeOK
<1> QED  BY <1>1, HostInv, PTL

\* A listener is taken away only when it is named, with all forwards, or with the
\* device it leads to; the server's own port only when it is named.
THEOREM ListenersStay == Spec => NotTakenAway
<1>1. LinkInv /\ [Next]_vars =>
        [\A n \in Local : (fwd[n] # None /\ fwd'[n] = None) =>
           \/ \E c \in Clients, m \in Match : KillForward(c, m, n)
           \/ fwd[n] # Smart /\ \E c \in Clients : KillForwardAll(c)
           \/ fwd[n] # Smart /\ Leaves(fwd[n])]_vars
  BY GoesForAReason
<1> QED  BY <1>1, HostInv, PTL DEF Spec, NotTakenAway

\* The list of a tracker is the current one, cut where its buffer is full, but for the
\* changes that are not announced: every handler that lists a device, brings it online
\* or frees it calls update_transports after it.
THEOREM TrackersKnow == Spec => []TrackersTold
<1>1. Init => TrackersTold
  BY DEF Init, TrackersTold, NoClient
<1> QED  BY <1>1, ToldNext, HostInv, PTL DEF Spec
=============================================================================
