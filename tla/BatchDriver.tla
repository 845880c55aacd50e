----------------------------- MODULE BatchDriver -----------------------------
(***************************************************************************)
(* The batch program (batches/trademgen_generateDemand.cpp, generateDemand): *)
(* a number of independent runs over the same demand streams.  In a run the  *)
(* first request of every stream is queued; then, until the queue is empty,  *)
(* the earliest request is popped and the next request of its stream is      *)
(* generated.  Each call of the service is a step.  The Python wrapper       *)
(* (python/pytrademgen.cpp, Trademgener::trademgen) has the same loop.       *)
(***************************************************************************)
EXTENDS DemandManager

CONSTANT NbRuns
ASSUME RunsAssumption == NbRuns \in Nat \ {0}

VARIABLES
  pc,      \* "first": in generateFirstRequests; "loop": test of the main loop;
           \* "next": an event was popped; "done"; "aborted": an assertion failed
  run,     \* runIdx
  event,   \* lPoppedRequest, with the stamp of its event
  popped   \* history: events popped in this run, per stream

vars == <<managerVars, pc, run, event, popped>>

NoEvent == [key |-> 0, time |-> 0, stamp |-> 0]

Init ==
  /\ ManagerInit
  /\ pc = "first" /\ run = 1 /\ event = NoEvent
  /\ popped = [s \in Streams |-> 0]

FirstRequest ==
  /\ pc = "first"
  /\ FirstRequestOfStream
  /\ UNCHANGED <<pc, run, event, popped>>

StartMainLoop ==
  /\ pc = "first"
  /\ FirstRequestsDone
  /\ pc' = "loop"
  /\ UNCHANGED <<run, event, popped>>

Pop ==
  /\ pc = "loop"
  /\ \E e \in queue :
       /\ PopEvent(e)
       /\ event' = e
       /\ popped' = [popped EXCEPT ![e.key] = @ + 1]
  /\ pc' = "next"
  /\ UNCHANGED <<stream, itStream, sumActual, dropped, forgotten, run>>

(* The stream of the popped request still has requests: generate the next one,
   which must not be earlier than the popped one (an assertion checks it). *)
NextRequest ==
  /\ pc = "next"
  /\ StillHaving(stream[event.key])
  /\ \E d \in NextDraws(event.key, stream[event.key]) :
       /\ ~RunsOffPattern(event.key, d)
       /\ GenerateNextRequest(event.key, stream[event.key], d)
       /\ pc' = IF RequestTime(event.key, d) < event.time THEN "aborted" ELSE "loop"
  /\ UNCHANGED <<itStream, sumActual, forgotten, run, event, popped>>

MutStreamExhausted ==
  /\ pc = "next"
  /\ Remaining(stream[event.key]) <= 1
  /\ pc' = "loop"
  /\ UNCHANGED <<managerVars, run, event, popped>>

StreamExhausted ==
  /\ pc = "next"
  /\ ~StillHaving(stream[event.key])
  /\ pc' = "loop"
  /\ UNCHANGED <<managerVars, run, event, popped>>

MutEndRun ==
  /\ pc = "loop" /\ IsQueueDone
  /\ ManagerReset
  /\ popped' = [s \in Streams |-> 0]
  /\ pc' = IF run = NbRuns THEN "done" ELSE "first"
  /\ UNCHANGED <<run, event>>

(* The queue is empty: reset the service for the next run. *)
EndRun ==
  /\ pc = "loop" /\ IsQueueDone
  /\ ManagerReset
  /\ popped' = [s \in Streams |-> 0]
  /\ run' = run + 1
  /\ pc' = IF run = NbRuns THEN "done" ELSE "first"
  /\ UNCHANGED event

(* The stream about to generate a request, if any. *)
IsGenerating(s) ==
  \/ pc = "first" /\ itStream = s /\ StillHaving(SetFirst(stream[s]))
  \/ pc = "next" /\ event.key = s /\ StillHaving(stream[s])

(* A Poisson stream runs off its arrival pattern: assert (idx != _size). *)
AbortOnPattern ==
  /\ \E s \in Streams :
       /\ IsGenerating(s)
       /\ \E d \in NextDraws(s, IF pc = "first" THEN SetFirst(stream[s]) ELSE stream[s]) :
            RunsOffPattern(s, d)
  /\ pc' = "aborted"
  /\ UNCHANGED <<managerVars, run, event, popped>>

Terminating == pc \in {"done", "aborted"} /\ UNCHANGED vars

Step ==
  \/ FirstRequest \/ StartMainLoop \/ Pop \/ NextRequest \/ StreamExhausted \/ EndRun
  \/ AbortOnPattern

Next == Step \/ Terminating

(* The program is a single thread that never waits: it takes its next step
   whenever it has one. *)
Spec == Init /\ [][Next]_vars
FairSpec == Spec /\ WF_vars(Step)

-----------------------------------------------------------------------------
(* Types. *)
Event == [key : Streams, time : Int, stamp : Int]

TypeOK ==
  /\ stream \in [Streams -> StreamState]
  /\ queue \in SUBSET Event /\ IsFiniteSet(queue)
  /\ status \in [expected : Int, current : Nat, actual : Int]
  /\ itStream \in 1 .. NbStreams + 1 /\ sumActual \in Int
  /\ dropped \in [Streams -> Nat] /\ forgotten \in [Streams -> Nat]
  /\ pc \in {"first", "loop", "next", "done", "aborted"}
  /\ run \in 1 .. NbRuns + 1 /\ (run = NbRuns + 1 => pc = "done")
  /\ event \in Event \cup {NoEvent} /\ (pc = "next" => event # NoEvent)
  /\ popped \in [Streams -> Nat]

-----------------------------------------------------------------------------
(* Properties. *)

HasQueued(s) == \E e \in queue : e.key = s

(* The sequential generation keeps one request per stream: a stream never has
   two requests in the queue, and the stream whose request was just popped has
   none until its next request is generated.  The memory of a run, and the
   order of the requests of a stream, rest on it. *)
OneLiveRequest ==
  /\ \A e, f \in queue : e.key = f.key => e = f
  /\ pc = "next" => ~HasQueued(event.key)

(* Every request a stream counted as generated is in exactly one place: handled
   by the driver, waiting in the queue, or dropped.  Only the draw that stops a
   Poisson stream is dropped without having been counted. *)
RequestsAccounted ==
  \A s \in Streams :
    stream[s].soFar + (IF stream[s].still THEN 0 ELSE 1)
      = popped[s] + (IF HasQueued(s) THEN 1 ELSE 0) + dropped[s]

(* No stream is forgotten: in the main loop, a stream with nothing in the queue,
   other than the one being continued, has nothing left to generate or lost its
   chain of requests to a drop. *)
ChainUnbroken ==
  pc \in {"loop", "next"} =>
    \A s \in Streams :
      HasQueued(s) \/ (pc = "next" /\ event.key = s)
        \/ ~StillHaving(stream[s]) \/ dropped[s] > 0

(* Nothing is generated for a stream after a request of it was dropped: at most
   one request per stream and run is dropped, and none waits behind it. *)
DropEndsTheChain ==
  \A s \in Streams :
    /\ dropped[s] <= 1
    /\ dropped[s] = 1 => ~HasQueued(s) /\ ~(pc = "next" /\ event.key = s)

(* A run serves no stream beyond the number of requests drawn for it. *)
WithinTotal ==
  Method = StatisticsOrder =>
    \A s \in Streams : popped[s] + dropped[s] <= IF stream[s].total > 0 THEN stream[s].total ELSE 0

(* The sanity check of the main loop holds: the next request of a stream is
   never earlier than the one that was popped. *)
SanityCheckHolds == pc # "aborted"

(* Stamps identify the events, and the alteration of a stamp stays below the
   number of streams: an event waits at most NbStreams - 1 milliseconds late. *)
StampsCloseToTimes ==
  /\ \A e, f \in queue : e.stamp = f.stamp => e = f
  /\ \A e \in queue : e.time <= e.stamp /\ e.stamp <= e.time + NbStreams - 1

(* The driver handles the requests of all the streams in the order of their
   date-times, up to the alteration of the stamps: with two streams the order
   is exact, and each further stream may put a request one more millisecond
   out of order. *)
NearChronological ==
  [][pc = "loop" /\ pc' = "next" /\ run' = run /\ (\E s \in Streams : popped[s] > 0)
       => event'.time >= event.time - Max({0, NbStreams - 2})]_vars

(* The actual number of requests shown as the goal of the run is the sum of the
   totals less the requests dropped in the main loop; the requests dropped
   during generateFirstRequests are missing from the subtraction. *)
ActualTally ==
  pc \in {"loop", "next"} =>
    /\ status.actual = SumOver([s \in Streams |-> stream[s].total]) - SumOver(dropped) + SumOver(forgotten)
    /\ status.current = SumOver(popped)

(* The pattern has the point one day before departure, and starts no later. *)
ClosedPattern(s) == HasLastBound(s) /\ GetValue(Arrival[s], 0) <= LastLowerBound

(* A Poisson stream with such a pattern ends by one dropped draw, and only then:
   a stream that stopped is one with a drop, and when the queue is empty all of
   them have stopped. *)
PoissonEndsByDrop ==
  Method = PoissonProcess =>
    \A s \in Streams : ClosedPattern(s) =>
      /\ stream[s].still <=> dropped[s] = 0
      /\ pc = "loop" /\ IsQueueDone => dropped[s] = 1

(* The assertion of getUpperBound fails only for a stream whose pattern has no
   point one day before departure, or starts after it. *)
AbortOnlyWithoutLastBound ==
  [][pc # "aborted" /\ pc' = "aborted"
       => \E s \in Streams : IsGenerating(s) /\ ~ClosedPattern(s)]_vars

(* All the runs are carried out to their end. *)
AllRunsComplete == <>(pc = "done")

(* The batch driver implements the plan: the totals are the quotas, a request is
   served when it is popped, and a stream is abandoned when a request of it is
   dropped.  A run never ends with a stream that is neither complete nor
   abandoned, serves no stream beyond its total, and serves nothing more of a
   stream after a drop. *)
Plan ==
  INSTANCE DemandPlan WITH
    PlanStreams <- Streams, PlanQuotas <- Draws, PlanRuns <- NbRuns,
    quota <- [s \in Streams |-> stream[s].total],
    served <- popped,
    abandoned <- [s \in Streams |-> dropped[s] > 0],
    planRun <- run

ImplementsPlan == Plan!PlanSpec

-----------------------------------------------------------------------------
(* What comments and tests say of the program, and the runs refute. *)

(* DemandManager.hpp on a request that is not queued: "when it occurs, we know
   the demand stream into question has been fully generated". *)
DroppedIsFullyGenerated ==
  \A s \in Streams : dropped[s] > 0 => ~StillHaving(stream[s])

(* ContinuousAttributeLite.hpp, getUpperBound: assert (idx != _size). *)
PatternNeverOverrun == pc # "aborted"
=============================================================================
