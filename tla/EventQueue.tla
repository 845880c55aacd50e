----------------------------- MODULE EventQueue -----------------------------
(***************************************************************************)
(* The event queue and the progress status of the booking requests, kept by  *)
(* the SEvMgr library.  SEvMgr is not part of the repository: it is modelled *)
(* from what the code calls (addEvent, popEvent, isQueueDone, addStatus,     *)
(* updateStatus, reset and the status getters) and from what the comments at *)
(* those calls rely on: the date-time stamps of the queue are unique, and    *)
(* the stamp of an event that arrives on a taken stamp is altered.          *)
(*                                                                         *)
(* An event carries the key of its demand stream, the date-time of its       *)
(* booking request, which never changes, and its stamp in the queue.        *)
(***************************************************************************)
EXTENDS Integers, FiniteSets

VARIABLES
  queue,   \* the set of events waiting
  status   \* progress of the BKG_REQ events: expected, current and actual numbers

queueVars == <<queue, status>>

Stamps(q) == {e.stamp : e \in q}

MutFreeStamps(q, t) == {t}

(* The stamps an event with date-time t may get: its own if it is free, else a
   free one after it, no further than the queue's population makes necessary. *)
FreeStamps(q, t) ==
  IF t \notin Stamps(q) THEN {t} ELSE (t + 1 .. t + Cardinality(q)) \ Stamps(q)

AddEvent(k, t) ==
  \E x \in FreeStamps(queue, t) :
    queue' = queue \cup {[key |-> k, time |-> t, stamp |-> x]}

IsQueueDone == queue = {}

IsEarliest(e) == \A f \in queue : e.stamp <= f.stamp

MutPopEvent(e) ==
  /\ IsEarliest(e)
  /\ queue' = queue
  /\ status' = [status EXCEPT !.current = @ + 1]

MutPopEventAny(e) ==
  /\ queue' = queue \ {e}
  /\ status' = [status EXCEPT !.current = @ + 1]

(* The earliest event leaves the queue and is counted. *)
PopEvent(e) ==
  /\ IsEarliest(e)
  /\ queue' = queue \ {e}
  /\ status' = [status EXCEPT !.current = @ + 1]

(* updateStatus (BKG_REQ, n): n is the new actual number of events. *)
UpdateStatus(n) == status' = [status EXCEPT !.actual = n]

MutResetQueue == queue' = {} /\ UNCHANGED status

(* reset: the queue is emptied and the progress cleared, but not the
   expectation. *)
ResetQueue == queue' = {} /\ status' = [status EXCEPT !.current = 0, !.actual = 0]
=============================================================================
