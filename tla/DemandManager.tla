--------------------------- MODULE DemandManager ---------------------------
(***************************************************************************)
(* DemandManager (command/DemandManager.cpp) and the methods of             *)
(* TRADEMGEN_Service that only delegate to it: the operations on the demand  *)
(* streams and on the event queue that every driver of the service calls.    *)
(* The random draws are the bound variables of the actions.                  *)
(***************************************************************************)
EXTENDS DemandStream, EventQueue

VARIABLES
  stream,      \* the DemandStream objects, in the order of their list
  itStream,    \* generateFirstRequests: the iterator on the list of streams
  sumActual,   \* generateFirstRequests: lActualTotalNbOfEvents
  dropped,     \* history: requests generated but not queued, per stream
  forgotten    \* history: the drops whose count an updateStatus overwrote, per stream

managerVars == <<stream, queue, status, itStream, sumActual, dropped, forgotten>>

SumOver(f) == SumFunction(f)

ASSUME MeanAssumption == SumOver(Mean) \in Nat

ManagerInit ==
  /\ \E n \in [Streams -> UNION {Draws[s] : s \in Streams}] :
       /\ \A s \in Streams : n[s] \in Draws[s]
       /\ stream = [s \in Streams |-> NewStream(n[s])]
  /\ queue = {}
  /\ status = [expected |-> SumOver(Mean), current |-> 0, actual |-> SumOver(Mean)]
  /\ itStream = 1 /\ sumActual = 0
  /\ dropped = [s \in Streams |-> 0] /\ forgotten = [s \in Streams |-> 0]

(* The condition under which a request of stream s is queued: it is made
   strictly before the preferred departure date and time. *)
IsBeforeDeparture(s, t, pref) ==
  \/ DepartureDate[s] > t \div DayLength
  \/ DepartureDate[s] = t \div DayLength /\ pref > t % DayLength

MutGenerateNextRequest(s, st, d) ==
  /\ stream' = [stream EXCEPT ![s] = AfterRequest(st, d)]
  /\ \E pref \in PrefTimes[s] :
       \/ /\ IsBeforeDeparture(s, RequestTime(s, d), pref)
          /\ AddEvent(s, RequestTime(s, d))
          /\ UNCHANGED <<status, dropped>>
       \/ /\ ~IsBeforeDeparture(s, RequestTime(s, d), pref)
          /\ dropped' = [dropped EXCEPT ![s] = @ + 1]
          /\ UNCHANGED <<queue, status>>

(* generateNextRequest on a stream in state st, with the draw d.  A request
   that is too late is not queued, and the actual number of requests is one
   less. *)
GenerateNextRequest(s, st, d) ==
  /\ stream' = [stream EXCEPT ![s] = AfterRequest(st, d)]
  /\ \E pref \in PrefTimes[s] :
       \/ /\ IsBeforeDeparture(s, RequestTime(s, d), pref)
          /\ AddEvent(s, RequestTime(s, d))
          /\ UNCHANGED <<status, dropped>>
       \/ /\ ~IsBeforeDeparture(s, RequestTime(s, d), pref)
          /\ UpdateStatus(status.actual - 1)
          /\ dropped' = [dropped EXCEPT ![s] = @ + 1]
          /\ UNCHANGED queue

(* One iteration of the loop of generateFirstRequests.  An iteration is a step
   of its own because a lookup can throw in the middle of the loop: what the
   earlier iterations did remains. *)
FirstRequestOfStream ==
  /\ itStream <= NbStreams
  /\ LET s == itStream
         st == SetFirst(stream[s])
     IN  /\ sumActual' = sumActual + st.total
         /\ \/ /\ StillHaving(st)
               /\ \E d \in NextDraws(s, st) :
                    ~RunsOffPattern(s, d) /\ GenerateNextRequest(s, st, d)
            \/ /\ ~StillHaving(st)
               /\ stream' = [stream EXCEPT ![s] = st]
               /\ UNCHANGED <<queue, status, dropped>>
  /\ itStream' = itStream + 1
  /\ UNCHANGED forgotten

(* After the loop the actual number becomes the sum of the totals; this
   overwrites what the requests dropped so far subtracted from it. *)
FirstRequestsDone ==
  /\ itStream = NbStreams + 1
  /\ UpdateStatus(sumActual)
  /\ itStream' = 1 /\ sumActual' = 0
  /\ forgotten' = dropped
  /\ UNCHANGED <<stream, queue, dropped>>

(* reset: every stream draws a new total and restarts, then the queue is
   reset. *)
ManagerReset ==
  /\ \E n \in [Streams -> UNION {Draws[s] : s \in Streams}] :
       /\ \A s \in Streams : n[s] \in Draws[s]
       /\ stream' = [s \in Streams |-> ResetStream(stream[s], n[s])]
  /\ ResetQueue
  /\ dropped' = [s \in Streams |-> 0] /\ forgotten' = [s \in Streams |-> 0]
  /\ UNCHANGED <<itStream, sumActual>>
=============================================================================
