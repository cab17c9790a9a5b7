------------------------------ MODULE FdEventOps ------------------------------
(***************************************************************************)
(* The part of an fdevent (adb/fdevent.c) that its users change: the       *)
(* events they want to hear of and the events that select() has already    *)
(* reported and the loop has not dispatched yet.  An fdevent is any record *)
(* with these two fields:                                                  *)
(*   want   fde->state & FDE_EVENTMASK                                     *)
(*   pend   fde->events, while FDE_PENDING is set; {} otherwise            *)
(* "R" is FDE_READ and "W" is FDE_WRITE.  FDE_ERROR is never added by the  *)
(* code (sockets.c:404) and its handlers ignore it.                        *)
(***************************************************************************)

FdeEvents == {"R", "W"}

\* fdevent_set(fde, events).  The pending events that are kept are the ones
\* that are NOT in the new mask: the code clears with (~events).
fdevent_set(fde, events) ==
  IF fde.want = events
  THEN fde
  ELSE [fde EXCEPT !.want = events, !.pend = @ \ events]

fdevent_add(fde, ev) == fdevent_set(fde, fde.want \union {ev})

fdevent_del(fde, ev) == fdevent_set(fde, fde.want \ {ev})

\* fdevent_remove(fde): off the pending list, out of the select() masks.
fdevent_remove(fde) == [fde EXCEPT !.want = {}, !.pend = {}]

\* fdevent_call_fdfunc(fde): the events are consumed before the handler runs.
fdevent_taken(fde) == [fde EXCEPT !.pend = {}]

=============================================================================
