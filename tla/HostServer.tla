------------------------------- MODULE HostServer -------------------------------
(***************************************************************************)
(* The adb server between its clients and its devices: the smart socket    *)
(* that takes requests (sockets.c), the requests it answers itself         *)
(* (handle_host_request, adb.c), the listeners that forward local ports    *)
(* (adb.c), the choice of a device and the device trackers (transport.c),  *)
(* and the threads of "wait-for" (services.c).                             *)
(*                                                                         *)
(* The main loop handles one request or one change of a device at a time.  *)
(* Only the wait-for threads run beside it: they pick a device under       *)
(* transport_lock and look at its state after they let go of the lock.     *)
(*                                                                         *)
(* A transport that is freed while somebody still uses it makes the server *)
(* crash (fault), and nothing happens any more.                            *)
(***************************************************************************)
EXTENDS Integers, FiniteSets

CONSTANTS
  Devices,   \* transports, each registered once
  Names,     \* local names of forwards
  Clients,   \* connections to the server, one after another
  Smart,     \* the name of the port the server itself listens on
  None,      \* no device, no listener
  Lines      \* lines of the device list that fit a tracker's buffer, however long

ASSUME HostAssumption ==
  Smart \notin Names /\ None \notin Devices /\ Smart \notin Devices /\ Lines \in Nat

VARIABLES
  dev,     \* dev[t]: connection_state, whether t is on transport_list, and which
           \* transports were there before it
  hooks,   \* hooks[t]: the listeners in t->disconnects
  fwd,     \* listener_list: fwd[n] is None, a device, or Smart
  cl,      \* cl[c]: the client's socket and what it has been shown
  wait,    \* wait[c]: the wait-for thread started for c
  fault    \* a freed transport was used

vars == <<dev, hooks, fwd, cl, wait, fault>>

Local == Names \union {Smart}
Match == SUBSET Devices \ {{}}   \* what a serial number, a product or a type can mean

NoClient == [st |-> "none", sel |-> None, shown |-> {}]
NoWait == [pc |-> "none", match |-> {}, serial |-> FALSE, pick |-> None]

NoDevice == [st |-> "none", listed |-> FALSE, ahead |-> {}]

Init ==
  /\ dev = [t \in Devices |-> NoDevice]
  /\ hooks = [t \in Devices |-> {}]
  /\ fwd = [n \in Local |-> IF n = Smart THEN Smart ELSE None]
  /\ cl = [c \in Clients |-> NoClient]
  /\ wait = [c \in Clients |-> NoWait]
  /\ fault = FALSE

-----------------------------------------------------------------------------
(* The list of devices, as the trackers show it.                           *)

Listed(d) == {t \in Devices : d[t].listed}

\* What list_transports may put into the buffer: a line for each listed device, in
\* the order of the list, up to the first one that does not fit.
list_transports(d) ==
  LET Fits(s) == /\ \A t \in s : d[t].ahead \intersect Listed(d) \subseteq s
                 /\ (s = Listed(d) \/ Cardinality(s) >= Lines)
  IN  {{[t |-> t, st |-> d[t].st] : t \in s} : s \in {r \in SUBSET Listed(d) : Fits(r)}}

\* One message to all trackers.
update_transports(d) ==
  \E list \in list_transports(d) :
    cl' = [c \in Clients |->
             IF cl[c].st = "track" THEN [cl[c] EXCEPT !.shown = list] ELSE cl[c]]

-----------------------------------------------------------------------------
(* acquire_one_transport.                                                  *)

\* Devices without permissions are passed over, offline ones are not.
Candidates(match) == {t \in match : dev[t].listed /\ dev[t].st # "noperm"}

\* The pick under transport_lock: None when there is no candidate or several.
Picks(match) ==
  IF Cardinality(Candidates(match)) = 1 THEN Candidates(match) ELSE {None}

\* In the main loop, any state but offline and unauthorized will do.
Acquired(t) == t # None /\ dev[t].st \notin {"offline", "unauthorized"}

-----------------------------------------------------------------------------
(* The listeners.                                                          *)

\* remove_transport_disconnect unlinks the hook from the list it is in.
Unhook(names) == [t \in Devices |-> hooks[t] \ names]

free_listeners(names, h) ==
  /\ fwd' = [n \in Local |-> IF n \in names THEN None ELSE fwd[n]]
  /\ hooks' = h

\* The name alone decides, whichever device the request was for.
remove_listener(n) == free_listeners({n}, Unhook({n}))

remove_all_listeners_SmartToo ==
  free_listeners(Local, Unhook(Local))

remove_all_listeners ==
  LET names == {n \in Local : fwd[n] \in Devices} IN free_listeners(names, Unhook(names))

\* install_listener; a new name may not be free to bind.
CanInstall(n, norebind) == fwd[n] = None \/ (fwd[n] \in Devices /\ ~norebind)

install_listener_KeepsHook(n, t) ==
  /\ fwd' = [fwd EXCEPT ![n] = t]
  /\ hooks' = IF fwd[n] = None THEN [hooks EXCEPT ![t] = @ \union {n}] ELSE hooks

install_listener(n, t) ==
  /\ fwd' = [fwd EXCEPT ![n] = t]
  /\ hooks' = [Unhook({n}) EXCEPT ![t] = @ \union {n}]

\* run_transport_disconnects: each hooked listener is freed.
run_transport_disconnects(t) == free_listeners(hooks[t], Unhook(hooks[t]))

-----------------------------------------------------------------------------
(* The devices, as the main loop hears of them.                            *)

\* transport_registration_func, action 1.
RegisterDevice(t, st) ==
  /\ dev[t].st = "none"
  /\ dev' = [dev EXCEPT ![t] = [st |-> st, listed |-> TRUE, ahead |-> Listed(dev)]]
  /\ update_transports(dev')
  /\ UNCHANGED <<hooks, fwd, wait, fault>>

Connected(t) == dev[t].st \in {"offline", "unauthorized", "device"}

\* CNXN: what the device had before is taken down, then it is online.
DeviceOnline(t) ==
  /\ Connected(t)
  /\ dev' = [dev EXCEPT ![t].st = "device"]
  /\ IF dev[t].st # "offline" THEN run_transport_disconnects(t) ELSE UNCHANGED <<hooks, fwd>>
  /\ update_transports(dev')
  /\ UNCHANGED <<wait, fault>>

\* AUTH(TOKEN).
DeviceUnauthorized(t) ==
  /\ Connected(t)
  /\ dev' = [dev EXCEPT ![t].st = "unauthorized"]
  /\ UNCHANGED <<hooks, fwd, cl, wait, fault>>

\* SYNC(0): handle_offline.
DeviceOffline(t) ==
  /\ Connected(t)
  /\ dev' = [dev EXCEPT ![t].st = "offline"]
  /\ run_transport_disconnects(t)
  /\ UNCHANGED <<cl, wait, fault>>

\* transport_registration_func, action 0, once the threads have let go of it: after
\* SYNC(0), or earlier when unregister_transport dropped a reference.
Removable(t) == dev[t].st = "offline" \/ (Connected(t) /\ ~dev[t].listed)
Removed(t) == [dev EXCEPT ![t] = [st |-> "freed", listed |-> FALSE, ahead |-> {}]]

RemoveDevice_UpdatesFirst(t) ==
  /\ Removable(t)
  /\ dev' = Removed(t)
  /\ run_transport_disconnects(t)
  /\ update_transports(dev)
  /\ UNCHANGED <<wait, fault>>

RemoveDevice(t) ==
  /\ Removable(t)
  /\ dev' = Removed(t)
  /\ run_transport_disconnects(t)
  /\ update_transports(dev')
  /\ UNCHANGED <<wait, fault>>

\* A device without permissions is only unlinked, by unregister_usb_transport.
RemoveNoperm(t) ==
  /\ dev[t].st = "noperm" /\ dev[t].listed
  /\ dev' = [dev EXCEPT ![t].listed = FALSE]
  /\ UNCHANGED <<hooks, fwd, cl, wait, fault>>

Device(t) ==
  \/ \E st \in {"offline", "noperm"} : RegisterDevice(t, st)
  \/ DeviceOnline(t) \/ DeviceUnauthorized(t) \/ DeviceOffline(t)
  \/ RemoveDevice(t) \/ RemoveNoperm(t)

-----------------------------------------------------------------------------
(* The smart socket of a client.  Pieces are kept until they make up a     *)
(* request.                                                                *)

\* ss_listener_event_func.
Connect(c) ==
  /\ fwd[Smart] = Smart /\ cl[c].st = "none"
  /\ cl' = [cl EXCEPT ![c].st = "smart"]
  /\ UNCHANGED <<dev, hooks, fwd, wait, fault>>

Close(c) == cl' = [cl EXCEPT ![c] = NoClient]

\* The client goes, or sends a length that is wrong or too much, or a request that
\* is answered and changes nothing: "devices", "version", "list-forward", "get-...".
\* A tracker closes when anything is written to it.
CloseSocket(c) ==
  /\ cl[c].st # "none"
  /\ Close(c)
  /\ UNCHANGED <<dev, hooks, fwd, wait, fault>>

\* "transport...": the socket stays open, also after FAIL, and forgets what came
\* behind the request.
SelectDevice(c, m) ==
  /\ cl[c].st = "smart"
  /\ \E t \in Picks(m) :
       cl' = [cl EXCEPT ![c].sel = IF Acquired(t) THEN t ELSE @]
  /\ UNCHANGED <<dev, hooks, fwd, wait, fault>>

\* A service of the device: the socket is connected to it, or FAIL and closed.
OpenService(c) ==
  /\ cl[c].st = "smart"
  /\ IF cl[c].sel = None \/ (cl[c].sel # None /\ dev[cl[c].sel].st = "offline")
     THEN Close(c) /\ UNCHANGED fault
     ELSE /\ fault' = (dev[cl[c].sel].st = "freed")
          /\ cl' = [cl EXCEPT ![c] = [NoClient EXCEPT !.st = "stream"]]
  /\ UNCHANGED <<dev, hooks, fwd, wait>>

\* "forward:", with or without norebind; bound: the system lets the port be bound.
Forward(c, m, n, norebind, bound) ==
  /\ cl[c].st = "smart" /\ Close(c)
  /\ \E t \in Picks(m) :
       IF Acquired(t) /\ CanInstall(n, norebind) /\ (fwd[n] = None => bound)
       THEN install_listener(n, t) ELSE UNCHANGED <<hooks, fwd>>
  /\ UNCHANGED <<dev, wait, fault>>

KillForward(c, m, n) ==
  /\ cl[c].st = "smart" /\ Close(c)
  /\ \E t \in Picks(m) :
       IF Acquired(t) /\ fwd[n] # None THEN remove_listener(n) ELSE UNCHANGED <<hooks, fwd>>
  /\ UNCHANGED <<dev, wait, fault>>

KillForwardAll(c) ==
  /\ cl[c].st = "smart" /\ Close(c)
  /\ remove_all_listeners
  /\ UNCHANGED <<dev, wait, fault>>

\* "disconnect:": the device named, or all TCP devices, are taken off the list; their
\* threads end later.
Disconnect(c, ts) ==
  /\ cl[c].st = "smart" /\ Close(c)
  /\ \A t \in ts : dev[t].listed /\ dev[t].st # "noperm"
  /\ dev' = [t \in Devices |-> [dev[t] EXCEPT !.listed = @ /\ t \notin ts]]
  /\ UNCHANGED <<hooks, fwd, wait, fault>>

\* "track-devices": the tracker is ready at once and shows the list.
TrackDevices(c) ==
  /\ cl[c].st = "smart"
  /\ \E list \in list_transports(dev) :
       cl' = [cl EXCEPT ![c] = [NoClient EXCEPT !.st = "track", !.shown = list]]
  /\ UNCHANGED <<dev, hooks, fwd, wait, fault>>

\* "wait-for-...": a thread waits for the device.
WaitFor(c, m, serial) ==
  /\ cl[c].st = "smart" /\ wait[c].pc = "none"
  /\ cl' = [cl EXCEPT ![c] = [NoClient EXCEPT !.st = "wait"]]
  /\ wait' = [wait EXCEPT ![c] = [pc |-> "scan", match |-> m, serial |-> serial, pick |-> None]]
  /\ UNCHANGED <<dev, hooks, fwd, fault>>

Request(c) ==
  \/ TrackDevices(c) \/ KillForwardAll(c) \/ OpenService(c)
  \/ \E ts \in SUBSET Devices : Disconnect(c, ts)
  \/ \E m \in Match :
       \/ SelectDevice(c, m)
       \/ \E serial \in BOOLEAN : WaitFor(c, m, serial)
       \/ \E n \in Local : KillForward(c, m, n)
                             \/ \E norebind, bound \in BOOLEAN : Forward(c, m, n, norebind, bound)

-----------------------------------------------------------------------------
(* wait_for_state: acquire_one_transport(CS_DEVICE, ...) in a thread.      *)

\* The thread answers and ends; the client may be gone by then.
WaitEnds(c) ==
  /\ wait' = [wait EXCEPT ![c] = NoWait]
  /\ cl' = [cl EXCEPT ![c] = IF @.st = "wait" THEN NoClient ELSE @]

\* An ambiguous choice fails, unless the request named the device.
WaitScan(c) ==
  /\ wait[c].pc = "scan"
  /\ IF Cardinality(Candidates(wait[c].match)) > 1 /\ ~wait[c].serial
     THEN WaitEnds(c)
     ELSE /\ \E t \in Picks(wait[c].match) :
               wait' = [wait EXCEPT ![c].pick = t, ![c].pc = IF t = None THEN "scan" ELSE "check"]
          /\ UNCHANGED cl
  /\ UNCHANGED <<dev, hooks, fwd, fault>>

\* The state is read without the lock.  Not "device": a second's sleep, and again.
WaitCheck_SameDevice(c) ==
  /\ wait[c].pc = "check"
  /\ IF dev[wait[c].pick].st = "device" /\ dev[wait[c].pick].listed THEN WaitEnds(c)
     ELSE UNCHANGED <<wait, cl>>
  /\ UNCHANGED <<dev, hooks, fwd, fault>>

WaitCheck(c) ==
  /\ wait[c].pc = "check"
  /\ fault' = (dev[wait[c].pick].st = "freed")
  /\ IF dev[wait[c].pick].st = "device" THEN WaitEnds(c)
     ELSE wait' = [wait EXCEPT ![c].pc = "scan", ![c].pick = None] /\ UNCHANGED cl
  /\ UNCHANGED <<dev, hooks, fwd>>

-----------------------------------------------------------------------------
Next ==
  /\ ~fault
  /\ \/ \E t \in Devices : Device(t)
     \/ \E c \in Clients : Connect(c) \/ CloseSocket(c) \/ Request(c)
     \/ \E c \in Clients : WaitScan(c) \/ WaitCheck(c)

Spec == Init /\ [][Next]_vars

\* A wait-for thread is scheduled.
FairSpec == Spec /\ \A c \in Clients : WF_vars(~fault /\ (WaitScan(c) \/ WaitCheck(c)))

-----------------------------------------------------------------------------
(* Properties.                                                             *)

\* Type correctness; a client that waits has a thread that will answer it.
TypeOK ==
  /\ \A t \in Devices :
       /\ dev[t].st \in {"none", "offline", "unauthorized", "device", "noperm", "freed"}
       /\ dev[t].listed \in BOOLEAN /\ dev[t].ahead \subseteq Devices /\ hooks[t] \subseteq Local
  /\ fwd \in [Local -> Devices \union {None, Smart}]
  /\ \A c \in Clients :
       /\ cl[c].st \in {"none", "smart", "track", "wait", "stream"}
       /\ cl[c].sel \in Devices \union {None}
       /\ wait[c].pc \in {"none", "scan", "check"} /\ wait[c].match \subseteq Devices
       /\ wait[c].serial \in BOOLEAN /\ wait[c].pick \in Devices \union {None}
       /\ wait[c].pc = "check" => wait[c].pick # None
       /\ cl[c].st = "wait" => wait[c].pc # "none"
  /\ fault \in BOOLEAN

\* Well typed, and a forward is hooked into the disconnect list of the device it
\* leads to and of no other, and that device is neither freed nor offline: a
\* connection to the port never uses a transport that is gone, and the list never
\* calls a listener that was freed (adb.c:668, 894, transport.c:95).
ForwardsHooked ==
  TypeOK /\ \A n \in Local, t \in Devices :
    /\ n \in hooks[t] <=> fwd[n] = t
    /\ fwd[n] = t => dev[t].st \in {"device", "unauthorized"}

Leaves(t) == DeviceOffline(t) \/ DeviceOnline(t) \/ RemoveDevice(t)

\* A listener is not taken away by what concerns another: it goes when it is named,
\* with all forwards, or with the device it leads to now, whatever it led to
\* before.  The port of the server goes only when it is named (remove_listener
\* does not look for '*', adb.c:835).
NotTakenAway ==
  [][\A n \in Local : (fwd[n] # None /\ fwd'[n] = None) =>
       \/ \E c \in Clients, m \in Match : KillForward(c, m, n)
       \/ fwd[n] # Smart /\ \E c \in Clients : KillForwardAll(c)
       \/ fwd[n] # Smart /\ Leaves(fwd[n])]_vars

\* Changes of which update_transports tells nobody: going offline (adb.c:517), having
\* to be authorized (adb.c:542), and leaving the list by "disconnect:" or as a device
\* without permissions (transport.c:1066, 1124).
Unannounced(d, t) == d[t].st \in {"offline", "unauthorized"} \/ ~d[t].listed

\* What a tracker with the list "shown" knows of the devices d.
Told(shown, d) ==
  LET known == {e.t : e \in shown}
  IN  /\ \A t \in Listed(d) \ known :
           /\ Cardinality(known) >= Lines
           /\ \A u \in known : d[u].listed => t \notin d[u].ahead
      /\ \A e \in shown :
           /\ d[e.t].st \notin {"none", "freed"}
           /\ e.st = d[e.t].st \/ Unannounced(d, e.t)

\* The list a tracker has is the current one, but for the changes that the code does
\* not announce, though SERVICES.TXT:30 promises a message for each of them: a listed
\* device is missing only when the buffer was full, and then it is one from the end
\* of the list; no device is shown that was freed; and one that is online is shown
\* so.
TrackersTold == \A c \in Clients : cl[c].st = "track" => Told(cl[c].shown, dev)

\* The one device that the request can mean is there and online.
Served(c) ==
  \E t \in Devices : Candidates(wait[c].match) = {t} /\ dev[t].st = "device"

\* wait-for returns when the device it waits for comes and stays, whatever it saw
\* before: devices that left, that were offline, or that were too many.
WaitReturns == \A c \in Clients : []<>~(~fault /\ wait[c].pc # "none" /\ Served(c))
=============================================================================
