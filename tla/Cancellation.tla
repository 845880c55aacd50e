---------------------------- MODULE Cancellation ----------------------------
(***************************************************************************)
(* Cancellations (generateCancellation of service/TRADEMGEN_Service.cpp and  *)
(* command/DemandManager.cpp), with the simulator that calls them.  The       *)
(* simulator is not part of the repository: like the batch program it pops    *)
(* the earliest event and asks for the next request of its stream; when it   *)
(* sold a request it also asks, once, for a cancellation of it, before or     *)
(* after the next request; and it may reset the service between two events.   *)
(*                                                                         *)
(* The queue holds two types of events.  A cancellation (CX) belongs to no    *)
(* demand stream.  The travel solution the simulator passes has a class for   *)
(* each segment, as two assertions of the code require.                     *)
(***************************************************************************)
EXTENDS DemandManager

CONSTANTS
  MsPerSecond,  \* milliseconds in a second
  Ratios,       \* grid of the uniform draw, once it is below 0.05 and divided by it
  NbRuns        \* runs of the simulator, separated by resets

ASSUME CancellationAssumption ==
  /\ MsPerSecond \in Nat \ {0} /\ Ratios \in Nat \ {0} /\ NbRuns \in Nat \ {0}
  /\ DayLength % MsPerSecond = 0

VARIABLES
  cx,         \* progress status of the CX events; "known" once addStatus was called
  pc,         \* "first": in generateFirstRequests; "loop": between two events;
              \* "handle": a request was popped, its next one is due
  event,      \* the event popped last, in this run
  sold,       \* a cancellation of the popped request may still be asked for
  run,
  popped,     \* history: requests popped in this run, per stream
  cancelled   \* history: cancellations popped in this run

cxVars == <<cx, pc, event, sold, run, popped, cancelled>>
vars == <<managerVars, cxVars>>

CancellationKey == 0
NoEvent == [key |-> CancellationKey, time |-> 0, stamp |-> 0]
NoStatus == [known |-> FALSE, expected |-> 0, current |-> 0, actual |-> 0]

-----------------------------------------------------------------------------
(* DemandManager::generateCancellation. *)

(* Conversion of a C++ number to a whole one: towards zero. *)
Truncated(a, b) == IF a >= 0 THEN a \div b ELSE -((-a) \div b)

MutCancellationTime(date, t, r) ==
  date * DayLength
    - MsPerSecond * Truncated((t - date * DayLength) * r, Ratios * MsPerSecond)

(* The cancellation of a request made at t falls a fraction r / Ratios of the
   whole seconds left, and again in whole seconds, before the first midnight
   of the departure date. *)
CancellationTime(date, t, r) ==
  date * DayLength
    - MsPerSecond * Truncated(Truncated(date * DayLength - t, MsPerSecond) * r, Ratios)

MutCancellationTimes(date, t) == {CancellationTime(date, t, r) : r \in 0 .. Ratios - 1}

(* The cancellation times generated for a request made at t; none when the
   time falls before the request, which was then made on the departure day. *)
CancellationTimes(date, t) ==
  {c \in {CancellationTime(date, t, r) : r \in 0 .. Ratios - 1} : c >= t}

-----------------------------------------------------------------------------
(* TRADEMGEN_Service::generateCancellation. *)

MutCountCancellation ==
  cx' = [known |-> TRUE, expected |-> 1, current |-> 0, actual |-> 1]

(* The first cancellation creates the status of its type (its expectation is
   one for ever); the others count one more. *)
CountCancellation ==
  cx' = IF cx.known THEN [cx EXCEPT !.actual = @ + 1]
        ELSE [known |-> TRUE, expected |-> 1, current |-> 0, actual |-> 1]

MutGenerateCancellation ==
  \/ /\ \E t \in CancellationTimes(DepartureDate[event.key], event.time) : AddEvent(event.key, t)
     /\ CountCancellation
  \/ UNCHANGED <<queue, cx>>

(* A cancellation of the popped request is generated, or none (the draw is
   0.05 or more, or the time is before the request). *)
GenerateCancellation ==
  \/ /\ \E t \in CancellationTimes(DepartureDate[event.key], event.time) :
          AddEvent(CancellationKey, t)
     /\ CountCancellation
  \/ UNCHANGED <<queue, cx>>

-----------------------------------------------------------------------------
(* The simulator. *)

Init ==
  /\ ManagerInit
  /\ cx = NoStatus /\ pc = "first" /\ event = NoEvent /\ sold = FALSE /\ run = 1
  /\ popped = [s \in Streams |-> 0] /\ cancelled = 0

FirstRequest == pc = "first" /\ FirstRequestOfStream /\ UNCHANGED cxVars

StartLoop ==
  /\ pc = "first" /\ FirstRequestsDone
  /\ pc' = "loop"
  /\ UNCHANGED <<cx, event, sold, run, popped, cancelled>>

(* popEvent counts an event under its own type. *)
PopRequest ==
  /\ pc = "loop"
  /\ \E e \in queue :
       /\ e.key # CancellationKey
       /\ PopEvent(e)
       /\ event' = e
       /\ popped' = [popped EXCEPT ![e.key] = @ + 1]
  /\ sold' \in BOOLEAN
  /\ pc' = "handle"
  /\ UNCHANGED <<stream, itStream, sumActual, dropped, forgotten, cx, run, cancelled>>

PopCancellation ==
  /\ pc = "loop"
  /\ \E e \in queue :
       /\ e.key = CancellationKey /\ IsEarliest(e)
       /\ queue' = queue \ {e}
       /\ event' = e
  /\ cx' = [cx EXCEPT !.current = @ + 1]
  /\ cancelled' = cancelled + 1
  /\ sold' = FALSE
  /\ UNCHANGED <<stream, status, itStream, sumActual, dropped, forgotten, pc, run, popped>>

NextRequest ==
  /\ pc = "handle"
  /\ IF StillHaving(stream[event.key])
     THEN \E d \in NextDraws(event.key, stream[event.key]) :
            ~RunsOffPattern(event.key, d) /\ GenerateNextRequest(event.key, stream[event.key], d)
     ELSE UNCHANGED <<stream, queue, status, dropped>>
  /\ pc' = "loop"
  /\ UNCHANGED <<itStream, sumActual, forgotten, cx, event, sold, run, popped, cancelled>>

Cancel ==
  /\ sold
  /\ GenerateCancellation
  /\ sold' = FALSE
  /\ UNCHANGED <<stream, status, itStream, sumActual, dropped, forgotten,
                 pc, event, run, popped, cancelled>>

(* reset between two events, the queue empty or not: the progress of both types
   is cleared, and both keep their expectation. *)
Reset ==
  /\ pc = "loop"
  /\ ManagerReset
  /\ cx' = [cx EXCEPT !.current = 0, !.actual = 0]
  /\ pc' = IF run = NbRuns THEN "done" ELSE "first"
  /\ run' = run + 1
  /\ event' = NoEvent /\ sold' = FALSE
  /\ popped' = [s \in Streams |-> 0] /\ cancelled' = 0

Terminating == pc = "done" /\ UNCHANGED vars

Next ==
  \/ FirstRequest \/ StartLoop \/ PopRequest \/ PopCancellation \/ NextRequest \/ Cancel
  \/ Reset \/ Terminating

(* The simulator handles the events as long as there are any; it may reset the
   service before the queue is empty. *)
Spec == Init /\ [][Next]_vars
-----------------------------------------------------------------------------
(* Properties. *)

Requests == {e \in queue : e.key # CancellationKey}
Cancellations == {e \in queue : e.key = CancellationKey}

TypeOK ==
  /\ stream \in [Streams -> StreamState]
  /\ queue \in SUBSET [key : Streams \cup {CancellationKey}, time : Int, stamp : Int]
  /\ IsFiniteSet(queue)
  /\ status \in [expected : Int, current : Nat, actual : Int]
  /\ itStream \in 1 .. NbStreams + 1 /\ sumActual \in Int
  /\ dropped \in [Streams -> Nat] /\ forgotten \in [Streams -> Nat]
  /\ cx \in [known : BOOLEAN, expected : Nat, current : Nat, actual : Nat]
  /\ pc \in {"first", "loop", "handle", "done"}
  /\ event \in [key : Streams \cup {CancellationKey}, time : Int, stamp : Int]
  /\ sold \in BOOLEAN /\ run \in 1 .. NbRuns + 1
  /\ popped \in [Streams -> Nat] /\ cancelled \in Nat

(* The progress of the cancellations is that of this run, whenever the first
   one came and however many runs and resets went before: the actual number
   counts the cancellations handled and waiting, the current number those
   handled, and no cancellation is waiting of which there is no status. *)
CancellationTally ==
  /\ cx.current = cancelled
  /\ cx.actual = cancelled + Cardinality(Cancellations)
  /\ cx.known = (cx.expected = 1)
  /\ ~cx.known => Cancellations = {}

(* Cancellations never disturb the demand: each request a stream counted was
   handled once, waits, or was dropped, and the progress of the requests counts
   requests only. *)
RequestsUndisturbed ==
  /\ \A s \in Streams :
       stream[s].soFar + (IF stream[s].still THEN 0 ELSE 1)
         = popped[s] + Cardinality({e \in Requests : e.key = s}) + dropped[s]
  /\ status.current = SumOver(popped)

(* An event was popped in this run. *)
HasClock == cancelled > 0 \/ \E s \in Streams : popped[s] > 0

(* No event is generated into the past of the simulator: whatever waits in the
   queue is due no earlier than the date-time of the event popped last in the run,
   although cancellations are generated in whole seconds, requests in
   milliseconds, and stamps are altered on a tie. *)
NothingBehindTheClock == HasClock => \A e \in queue : e.stamp >= event.time

(* A cancellation comes no earlier than its request and no later than the midnight
   that begins the departure date; so a request made after that midnight is never
   cancelled, and one made at it at that very time at most. *)
CancelledBeforeDeparture ==
  [][\A e \in Cancellations' \ Cancellations :
       LET midnight == DepartureDate[event.key] * DayLength
       IN  /\ event.time <= e.time /\ e.time <= midnight
           /\ event.time <= midnight]_vars

=============================================================================
