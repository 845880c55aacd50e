---------------------------- MODULE PythonSession ----------------------------
(***************************************************************************)
(* A Python session (python/pytrademgen.cpp): calls of Trademgener.trademgen *)
(* one after the other on one service.  A call has a number of runs and a     *)
(* method of its own, and the loop of the batch program.  Unlike that        *)
(* program, it catches what a look-up of a request throws: the call returns,  *)
(* the service is not reset, and the next call starts on what is left.       *)
(***************************************************************************)
EXTENDS Integers, Sequences, FiniteSets, BookingRequest

CONSTANTS
  NbStreams, DepartureDate, Arrival, Mean, Draws, PrefTimes,
  DayLength, RefTime, TicksPerMs, One, MaxArrivals,   \* as in DemandStream
  Short,     \* per stream: the look-ups whose masses do not reach one
  NbCalls,   \* bound on the calls
  MaxRuns    \* bound on the runs of a call

VARIABLES stream, queue, status, itStream, sumActual, dropped, forgotten

(* The manager under each method of generation. *)
Order == INSTANCE DemandManager WITH Method <- "STA_ORD"
Poisson == INSTANCE DemandManager WITH Method <- "POI_PRO"

Streams == 1 .. NbStreams
managerVars == <<stream, queue, status, itStream, sumActual, dropped, forgotten>>

(* Those of DemandStream and DemandManager, under both methods: a call chooses. *)
ASSUME ManagerAssumption ==
  /\ NbStreams \in Nat \ {0}
  /\ DayLength \in Nat \ {0} /\ TicksPerMs \in Nat \ {0} /\ One \in Nat \ {0}
  /\ RefTime \in 0 .. DayLength - 1 /\ MaxArrivals \in Nat
  /\ DepartureDate \in [Streams -> Nat]
  /\ Mean \in [Streams -> Nat] /\ Order!SumOver(Mean) \in Nat
  /\ Draws \in [Streams -> SUBSET Int]
  /\ PrefTimes \in [Streams -> SUBSET (0 .. DayLength - 1)]
  /\ \A s \in Streams :
       /\ Arrival[s] \in Seq([value : Int, cum : Int]) /\ Len(Arrival[s]) > 0
       /\ \A i, j \in 1 .. Len(Arrival[s]) :
            i < j => /\ Arrival[s][i].value < Arrival[s][j].value
                     /\ Arrival[s][i].cum <= Arrival[s][j].cum
       /\ \A n \in Draws[s] : n < One

ASSUME SessionAssumption ==
  /\ NbCalls \in Nat /\ MaxRuns \in Nat
  /\ Short \in [Streams -> SUBSET Range(Lookups)]

VARIABLES
  pc,       \* "idle": between two calls; "first", "loop" and "next" as in the batch
            \* program; "aborted" by the sanity check or "overrun" by a Poisson
            \* stream: an assertion ended the interpreter
  method,   \* the method of the call
  run,      \* runs of the call still to carry out, this one included
  call,     \* calls made so far
  event,    \* the popped request
  popped,   \* history, since the last reset: requests popped, per stream
  lost,     \* history, since the last reset: requests a look-up lost, per stream
  failed,   \* history, since the last reset: calls that ended by an exception
  used      \* history, since the last reset: methods requests were generated with

callVars == <<pc, method, run, call, event>>
historyVars == <<popped, lost, failed, used>>
vars == <<managerVars, callVars, historyVars>>

NoEvent == [key |-> 0, time |-> 0, stamp |-> 0]

(* The operators of the manager that depend on the method. *)
StillHaving(st) == IF method = "STA_ORD" THEN Order!StillHaving(st) ELSE Poisson!StillHaving(st)
NextDraws(s, st) == IF method = "STA_ORD" THEN Order!NextDraws(s, st) ELSE Poisson!NextDraws(s, st)
RunsOffPattern(s, d) == method = "POI_PRO" /\ Poisson!RunsOffPattern(s, d)
AfterRequest(st, d) ==
  IF method = "STA_ORD" THEN Order!AfterRequest(st, d) ELSE Poisson!AfterRequest(st, d)
RequestTime(s, d) ==
  IF method = "STA_ORD" THEN Order!RequestTime(s, d) ELSE Poisson!RequestTime(s, d)
GenerateNextRequest(s, st, d) ==
  \/ method = "STA_ORD" /\ Order!GenerateNextRequest(s, st, d)
  \/ method = "POI_PRO" /\ Poisson!GenerateNextRequest(s, st, d)

-----------------------------------------------------------------------------
Init ==
  /\ Order!ManagerInit
  /\ pc = "idle" /\ method = "STA_ORD" /\ run = 0 /\ call = 0 /\ event = NoEvent
  /\ popped = [s \in Streams |-> 0] /\ lost = [s \in Streams |-> 0]
  /\ failed = 0 /\ used = {}

(* A method that is none of the two throws before anything else is done. *)
BadMethod ==
  /\ pc = "idle" /\ call < NbCalls
  /\ call' = call + 1
  /\ UNCHANGED <<managerVars, pc, method, run, event, historyVars>>

StartCall ==
  /\ pc = "idle" /\ call < NbCalls
  /\ call' = call + 1
  /\ method' \in {"STA_ORD", "POI_PRO"}
  /\ run' \in 0 .. MaxRuns
  /\ pc' = IF run' = 0 THEN "idle" ELSE "first"
  /\ UNCHANGED <<managerVars, event, historyVars>>

FirstRequest ==
  /\ pc = "first"
  /\ \/ method = "STA_ORD" /\ Order!FirstRequestOfStream
     \/ method = "POI_PRO" /\ Poisson!FirstRequestOfStream
  /\ used' = used \cup {method}
  /\ UNCHANGED <<callVars, popped, lost, failed>>

StartMainLoop ==
  /\ pc = "first"
  /\ Order!FirstRequestsDone
  /\ pc' = "loop"
  /\ UNCHANGED <<method, run, call, event, historyVars>>

Pop ==
  /\ pc = "loop"
  /\ \E e \in queue :
       /\ Order!PopEvent(e)
       /\ event' = e
       /\ popped' = [popped EXCEPT ![e.key] = @ + 1]
  /\ pc' = "next"
  /\ UNCHANGED <<stream, itStream, sumActual, dropped, forgotten, method, run, call,
                 lost, failed, used>>

(* The next request of the stream, and the sanity check on it. *)
NextRequest ==
  /\ pc = "next"
  /\ StillHaving(stream[event.key])
  /\ \E d \in NextDraws(event.key, stream[event.key]) :
       /\ ~RunsOffPattern(event.key, d)
       /\ GenerateNextRequest(event.key, stream[event.key], d)
       /\ pc' = IF RequestTime(event.key, d) < event.time THEN "aborted" ELSE "loop"
  /\ UNCHANGED <<itStream, sumActual, forgotten, method, run, call, event, historyVars>>

StreamExhausted ==
  /\ pc = "next"
  /\ ~StillHaving(stream[event.key])
  /\ pc' = "loop"
  /\ UNCHANGED <<managerVars, method, run, call, event, historyVars>>

MutEndRun ==
  /\ pc = "loop" /\ queue = {}
  /\ Order!ManagerReset
  /\ popped' = [s \in Streams |-> 0] /\ lost' = [s \in Streams |-> 0]
  /\ failed' = 0 /\ used' = {}
  /\ pc' = "first"
  /\ UNCHANGED <<run, method, call, event>>

EndRun ==
  /\ pc = "loop" /\ queue = {}
  /\ Order!ManagerReset
  /\ popped' = [s \in Streams |-> 0] /\ lost' = [s \in Streams |-> 0]
  /\ failed' = 0 /\ used' = {}
  /\ run' = run - 1
  /\ pc' = IF run = 1 THEN "idle" ELSE "first"
  /\ UNCHANGED <<method, call, event>>

-----------------------------------------------------------------------------
(* Failures. *)

(* The streams about to generate a request, with the state they are in. *)
Generating ==
  {g \in [s : Streams, st : {stream[s] : s \in Streams}
                              \cup {Order!SetFirst(stream[s]) : s \in Streams}] :
     \/ pc = "first" /\ itStream = g.s /\ g.st = Order!SetFirst(stream[g.s]) /\ StillHaving(g.st)
     \/ pc = "next" /\ event.key = g.s /\ g.st = stream[g.s] /\ StillHaving(g.st)}

MutFailedRequest(s, st) ==
  /\ \E d \in NextDraws(s, st) :
       ~RunsOffPattern(s, d) /\ stream' = [stream EXCEPT ![s] = AfterRequest(st, d)]
  /\ UNCHANGED lost

(* A look-up of generateNextRequest throws.  The point of sale comes before the
   date-time of the request; with any other look-up the date-time is drawn and
   counted, and the request is lost. *)
FailedRequest(s, st) ==
  \/ /\ "pos" \in Short[s]
     /\ stream' = [stream EXCEPT ![s] = st]
     /\ UNCHANGED lost
  \/ /\ Short[s] \ {"pos"} # {}
     /\ \E d \in NextDraws(s, st) :
          ~RunsOffPattern(s, d) /\ stream' = [stream EXCEPT ![s] = AfterRequest(st, d)]
     /\ lost' = [lost EXCEPT ![s] = @ + 1]

(* The exception ends the call: what the queue, the streams and the progress
   hold remains, and the iterator and the sum of generateFirstRequests go. *)
LookupThrows ==
  /\ \E g \in Generating : FailedRequest(g.s, g.st)
  /\ pc' = "idle"
  /\ itStream' = 1 /\ sumActual' = 0
  /\ failed' = failed + 1 /\ used' = used \cup {method}
  /\ UNCHANGED <<queue, status, dropped, forgotten, popped, method, run, call, event>>

(* A Poisson stream runs off its arrival pattern: assert (idx != _size). *)
AbortOnPattern ==
  /\ \E g \in Generating : \E d \in NextDraws(g.s, g.st) : RunsOffPattern(g.s, d)
  /\ pc' = "overrun"
  /\ UNCHANGED <<managerVars, method, run, call, event, historyVars>>

Terminating == (pc \in {"aborted", "overrun"} \/ (pc = "idle" /\ call = NbCalls)) /\ UNCHANGED vars

Step ==
  \/ FirstRequest \/ StartMainLoop \/ Pop \/ NextRequest \/ StreamExhausted \/ EndRun
  \/ LookupThrows \/ AbortOnPattern

Next == BadMethod \/ StartCall \/ Step \/ Terminating

Spec == Init /\ [][Next]_vars
-----------------------------------------------------------------------------
(* Properties. *)

Waiting(s) == {e \in queue : e.key = s}

(* Whatever calls failed, and whichever methods they had, every request a stream
   counted since the last reset was handled in some call, waits, was dropped as
   too late, or was lost by the exception of a look-up: none is lost otherwise
   and none is counted twice. *)
CallsAccounted ==
  \A s \in Streams :
    stream[s].soFar + (IF stream[s].still THEN 0 ELSE 1)
      = popped[s] + Cardinality(Waiting(s)) + dropped[s] + lost[s]

(* Each call that fails leaves at most one more chain of requests per stream to
   the next call; without a failure a stream has one live request. *)
LiveRequests ==
  \A s \in Streams :
    Cardinality(Waiting(s)) + (IF pc = "next" /\ event.key = s THEN 1 ELSE 0) <= 1 + failed

(* Between two calls, if no call failed since the service was reset, the next one
   starts afresh: no request waits, none counts as generated, and each stream is
   about to draw its first.  The actual number of requests is another matter: it
   is the sum of the means before any call, and zero after the reset. *)
CleanBetweenCalls ==
  pc = "idle" /\ failed = 0 =>
    /\ queue = {} /\ status.current = 0
    /\ \A s \in Streams : stream[s].soFar = 0 /\ stream[s].first /\ stream[s].still
                          /\ stream[s].cum = 0

(* The sanity check on the order of the requests, which ends the interpreter,
   bears the requests a failed call left as long as no call since the reset had
   a Poisson process: order statistics go on where that call stopped, a Poisson
   process starts again from the beginning. *)
SanityFailsOnlyOnLeftovers ==
  pc = "aborted" => failed > 0 /\ "POI_PRO" \in used
=============================================================================
