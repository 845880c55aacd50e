------------------------ MODULE DemandManager_proofs ------------------------
(***************************************************************************)
(* Lemmas about the operations of the demand manager, for any streams, any   *)
(* patterns and both methods: their types, what they do to the balance of    *)
(* the requests, and the order of the date-times.  The proofs about the      *)
(* drivers of the manager rest on them.                                      *)
(***************************************************************************)
EXTENDS DemandManager, Operators_proofs

-----------------------------------------------------------------------------
(* The data of the demand streams. *)

(* The arrival patterns are lists of points, as the lookup theorems want them. *)
LEMMA ArrivalIsPointList ==
  ASSUME NEW s \in Streams
  PROVE  IsPointList(Arrival[s])
BY ArrivalAssumption DEF IsPointList, Point

(* The types of the units of time and probability. *)
LEMMA UnitsType ==
  /\ DayLength \in Nat \ {0} /\ TicksPerMs \in Nat \ {0} /\ One \in Nat \ {0}
  /\ RefTime \in Nat /\ LastLowerBound \in Int /\ NbStreams \in Nat \ {0}
  /\ \A s \in Streams : DepartureDate[s] \in Nat
BY UnitsAssumption, InputAssumption, StreamsAssumption, SMTT(30) DEF LastLowerBound

(* A lookup in an arrival pattern gives a whole number of ticks. *)
LEMMA GetValueType ==
  ASSUME NEW s \in Streams, NEW key \in Int
  PROVE  GetValue(Arrival[s], key) \in Int
<1>1. IsPointList(Arrival[s])
  BY ArrivalIsPointList
<1>2. GetValue(Arrival[s], key) \in Arrival[s][1].value .. Arrival[s][Len(Arrival[s])].value
  BY <1>1, GetValueInRange
<1>3. Arrival[s][1].value \in Int /\ Arrival[s][Len(Arrival[s])].value \in Int
  BY <1>1, PointListFacts
<1>4. QED BY <1>2, <1>3

(* The draws are integers, and an order statistic stays above the one before
   and below One. *)
LEMMA NextDrawsType ==
  ASSUME NEW s \in Streams, NEW st \in StreamState, NEW d \in NextDraws(s, st), StillHaving(st)
  PROVE  /\ d \in Int
         /\ Method = StatisticsOrder => st.cum < d /\ d \in 0 .. One - 1
<1>1. CASE Method = StatisticsOrder
  BY <1>1, UnitsType DEF NextDraws, NextCums, Remaining, StillHaving, StreamState
<1>2. CASE Method # StatisticsOrder
  <2>1. IsPointList(Arrival[s])
    BY ArrivalIsPointList
  <2>2. PatternEnd(s) \in Int
    BY <2>1, PointListFacts DEF PatternEnd
  <2>3. Horizon(s, st) \in Int
    BY <2>2, UnitsType DEF Horizon
  <2>4. ResumeAt(s, st) \in Int
    BY GetValueType DEF ResumeAt, StreamState
  <2>5. QED BY <1>2, <2>3, <2>4 DEF NextDraws, NextArrivals
<1>3. QED BY <1>1, <1>2

(* The date-time of a request is a whole number of milliseconds. *)
LEMMA RequestTimeType ==
  ASSUME NEW s \in Streams, NEW d \in Int
  PROVE  Offset(s, d) \in Int /\ RequestTime(s, d) \in Int
<1>1. Offset(s, d) \in Int
  BY GetValueType, UnitsType DEF Offset
<1>2. Convert(Offset(s, d)) \in Int
  BY <1>1, UnitsType DEF Convert
<1>3. DepartureDate[s] * DayLength \in Int
  BY UnitsType
<1>4. QED BY <1>1, <1>2, <1>3, UnitsType DEF RequestTime

(* A generation leaves a well-typed stream. *)
LEMMA AfterRequestType ==
  ASSUME NEW s \in Streams, NEW st \in StreamState, NEW d \in NextDraws(s, st), StillHaving(st)
  PROVE  AfterRequest(st, d) \in StreamState
<1>1. d \in Int /\ (Method = StatisticsOrder => d \in 0 .. One - 1)
  BY NextDrawsType
<1>2. CASE Method = StatisticsOrder
  <2>1. st.soFar + 1 \in Nat /\ d \in 0 .. One - 1
    BY <1>1, <1>2 DEF StreamState
  <2>2. [st EXCEPT !.cum = d] \in StreamState
    BY <2>1 DEF StreamState
  <2>3. [st EXCEPT !.cum = d, !.soFar = st.soFar + 1] \in StreamState
    BY <2>1, <2>2 DEF StreamState
  <2>4. QED BY <1>2, <2>3 DEF AfterRequest, AfterOrderStatistic
<1>3. CASE Method # StatisticsOrder
  <2>1. st.soFar + 1 \in Nat
    BY DEF StreamState
  <2>2. [st EXCEPT !.first = FALSE, !.last = d, !.still = FALSE] \in StreamState
    BY <1>1 DEF StreamState
  <2>3. [st EXCEPT !.first = FALSE, !.last = d, !.soFar = st.soFar + 1] \in StreamState
    BY <1>1, <2>1 DEF StreamState
  <2>4. QED BY <1>3, <2>2, <2>3 DEF AfterRequest, AfterPoisson
<1>4. QED BY <1>2, <1>3

(* setBoolFirstDateTimeRequest keeps the type of a stream. *)
LEMMA SetFirstType ==
  ASSUME NEW st \in StreamState
  PROVE  SetFirst(st) \in StreamState
BY DEF SetFirst, StreamState

(* reset keeps the type of a stream. *)
LEMMA ResetStreamType ==
  ASSUME NEW st \in StreamState, NEW n \in Int
  PROVE  ResetStream(st, n) \in StreamState
<1> DEFINE a == [st EXCEPT !.total = n, !.soFar = 0]
           b == [a EXCEPT !.cum = 0]
           c == [b EXCEPT !.first = TRUE, !.still = TRUE]
<1>1. a \in StreamState
  BY DEF StreamState
<1>2. b \in StreamState
  <2> HIDE DEF a
  <2> QED BY <1>1, UnitsType DEF StreamState
<1>3. c \in StreamState
  <2> HIDE DEF b
  <2> QED BY <1>2 DEF StreamState
<1>4. QED BY <1>3 DEF ResetStream

(* A stream just created is well typed. *)
LEMMA NewStreamType ==
  ASSUME NEW n \in Int
  PROVE  NewStream(n) \in StreamState
BY UnitsType DEF NewStream, StreamState

(* The totals that init draws are integers. *)
LEMMA DrawnTotals ==
  ASSUME NEW n, n \in [Streams -> UNION {Draws[s] : s \in Streams}],
         \A s \in Streams : n[s] \in Draws[s]
  PROVE  \A s \in Streams : n[s] \in Int
BY InputAssumption

(* A later probability never gives an earlier date-time: the inversion of the
   pattern and both roundings keep the order. *)
LEMMA RequestTimeMonotone ==
  ASSUME Method = StatisticsOrder, NEW s \in Streams, NEW c \in Int, NEW d \in Int, c <= d
  PROVE  RequestTime(s, c) <= RequestTime(s, d)
<1> DEFINE a == GetValue(Arrival[s], c)
           b == GetValue(Arrival[s], d)
<1>1. a \in Int /\ b \in Int
  BY GetValueType
<1>2. a <= b
  BY ArrivalIsPointList, GetValueMonotone
<1>3. Offset(s, c) = a /\ Offset(s, d) = b
  BY DEF Offset
<1> HIDE DEF a, b
<1>4. a \div TicksPerMs <= b \div TicksPerMs
  BY <1>1, <1>2, UnitsType, DivMonotone
<1>5. a \div TicksPerMs \in Int /\ b \div TicksPerMs \in Int
  BY <1>1, UnitsType
<1> DEFINE base == DepartureDate[s] * DayLength + RefTime
<1>6. base \in Int
  BY UnitsType
<1>7. /\ RequestTime(s, c) = base + (a \div TicksPerMs + 1)
      /\ RequestTime(s, d) = base + (b \div TicksPerMs + 1)
  BY <1>3 DEF RequestTime, Convert
<1> HIDE DEF base
<1>8. QED BY <1>4, <1>5, <1>6, <1>7

-----------------------------------------------------------------------------
(* The types of the manager; a key of the queue is a stream, or whatever key a
   driver gives to events of its own. *)
ManagerTyped ==
  /\ stream \in [Streams -> StreamState]
  /\ queue \in SUBSET [key : Int, time : Int, stamp : Int] /\ IsFiniteSet(queue)
  /\ status \in [expected : Int, current : Nat, actual : Int]
  /\ itStream \in 1 .. NbStreams + 1 /\ sumActual \in Int
  /\ dropped \in [Streams -> Nat] /\ forgotten \in [Streams -> Nat]

(* What generateNextRequest does to the queue and to the count of drops: the
   request is queued, under some stamp, or dropped. *)
LEMMA Generation ==
  ASSUME ManagerTyped, NEW s \in Streams, NEW st \in StreamState, StillHaving(st),
         NEW d \in NextDraws(s, st), GenerateNextRequest(s, st, d)
  PROVE  /\ AfterRequest(st, d) \in StreamState
         /\ stream' = [stream EXCEPT ![s] = AfterRequest(st, d)]
         /\ RequestTime(s, d) \in Int
         /\ status' \in [expected : Int, current : Nat, actual : Int]
         /\ \/ /\ dropped' = dropped
               /\ \E x \in Int :
                    queue' = queue \cup {[key |-> s, time |-> RequestTime(s, d), stamp |-> x]}
            \/ /\ dropped' = [dropped EXCEPT ![s] = @ + 1]
               /\ queue' = queue
<1>1. d \in Int
  BY NextDrawsType
<1>2. RequestTime(s, d) \in Int
  BY <1>1, RequestTimeType
<1>3. Cardinality(queue) \in Nat
  BY FS_CardinalityType DEF ManagerTyped
<1>4. ASSUME AddEvent(s, RequestTime(s, d))
      PROVE  \E x \in Int :
               queue' = queue \cup {[key |-> s, time |-> RequestTime(s, d), stamp |-> x]}
  <2>1. FreeStamps(queue, RequestTime(s, d)) \subseteq Int
    BY <1>2, <1>3 DEF FreeStamps
  <2>2. QED BY <1>4, <2>1 DEF AddEvent
<1>5. AfterRequest(st, d) \in StreamState
  BY AfterRequestType
<1>6. stream' = [stream EXCEPT ![s] = AfterRequest(st, d)]
  BY DEF GenerateNextRequest
<1>7. CASE AddEvent(s, RequestTime(s, d)) /\ UNCHANGED <<status, dropped>>
  BY <1>2, <1>4, <1>5, <1>6, <1>7 DEF ManagerTyped
<1>8. CASE /\ UpdateStatus(status.actual - 1)
           /\ dropped' = [dropped EXCEPT ![s] = @ + 1]
           /\ UNCHANGED queue
  <2>1. status' \in [expected : Int, current : Nat, actual : Int]
    BY <1>8 DEF UpdateStatus, ManagerTyped
  <2>2. QED BY <1>2, <1>5, <1>6, <1>8, <2>1
<1>9. QED BY <1>7, <1>8 DEF GenerateNextRequest

(* The requests a stream answers for: those it counted, and the draw that
   stopped it. *)
Counted(st) == st.soFar + (IF st.still THEN 0 ELSE 1)

(* One more request of a stream is answered for by each generation: a draw that
   is not counted stops the stream. *)
LEMMA AfterRequestCounted ==
  ASSUME NEW s \in Streams, NEW st \in StreamState, NEW d \in NextDraws(s, st), StillHaving(st)
  PROVE  Counted(AfterRequest(st, d)) = Counted(st) + 1
<1>1. st.soFar \in Nat /\ st.still \in BOOLEAN
  BY DEF StreamState
<1>2. CASE Method = StatisticsOrder
  <2>1. /\ AfterRequest(st, d).soFar = st.soFar + 1
        /\ AfterRequest(st, d).still = st.still
    BY <1>2 DEF AfterRequest, AfterOrderStatistic, StreamState
  <2>2. QED BY <1>1, <2>1 DEF Counted
<1>3. CASE Method # StatisticsOrder
  <2>1. st.still = TRUE
    BY <1>1, <1>3 DEF StillHaving
  <2>2. CASE d = LastLowerBound
    <3>1. /\ AfterRequest(st, d).soFar = st.soFar
          /\ AfterRequest(st, d).still = FALSE
      BY <1>3, <2>2 DEF AfterRequest, AfterPoisson, StreamState
    <3>2. QED BY <1>1, <2>1, <3>1 DEF Counted
  <2>3. CASE d # LastLowerBound
    <3>1. /\ AfterRequest(st, d).soFar = st.soFar + 1
          /\ AfterRequest(st, d).still = TRUE
      BY <1>3, <2>1, <2>3 DEF AfterRequest, AfterPoisson, StreamState
    <3>2. QED BY <1>1, <2>1, <3>1 DEF Counted
  <2>4. QED BY <2>2, <2>3
<1>4. QED BY <1>2, <1>3

-----------------------------------------------------------------------------
(* The balance of the requests. *)

WaitingOf(k) == Cardinality({e \in queue : e.key = k})

(* The requests of a stream that its driver must have taken out of the queue:
   those it answers for that neither wait nor were dropped. *)
Taken(s) == Counted(stream[s]) - WaitingOf(s) - dropped[s]

(* The types of the terms of the balance. *)
LEMMA BalanceTypes ==
  ASSUME ManagerTyped
  PROVE  /\ \A k : IsFiniteSet({e \in queue : e.key = k}) /\ WaitingOf(k) \in Nat
         /\ \A s \in Streams : Counted(stream[s]) \in Nat /\ Taken(s) \in Int
<1>1. \A k : IsFiniteSet({e \in queue : e.key = k}) /\ WaitingOf(k) \in Nat
  <2> TAKE k
  <2>1. {e \in queue : e.key = k} \subseteq queue
    OBVIOUS
  <2>2. IsFiniteSet({e \in queue : e.key = k})
    BY <2>1, FS_Subset DEF ManagerTyped
  <2>3. QED BY <2>2, FS_CardinalityType DEF WaitingOf
<1>2. \A s \in Streams : Counted(stream[s]) \in Nat
  BY DEF ManagerTyped, StreamState, Counted
<1>3. \A s \in Streams : Taken(s) \in Int
  <2> SUFFICES ASSUME NEW s \in Streams PROVE Taken(s) \in Int
    OBVIOUS
  <2>1. Counted(stream[s]) \in Nat /\ WaitingOf(s) \in Nat /\ dropped[s] \in Nat
    BY <1>1, <1>2 DEF ManagerTyped
  <2>2. QED BY <2>1 DEF Taken
<1>4. QED BY <1>1, <1>2, <1>3

(* An event is queued once, under a stamp of its own. *)
LEMMA AddEventWaits ==
  ASSUME ManagerTyped, NEW k \in Int, NEW t \in Int, AddEvent(k, t)
  PROVE  /\ \E x \in Int : queue' = queue \cup {[key |-> k, time |-> t, stamp |-> x]}
         /\ queue' \in SUBSET [key : Int, time : Int, stamp : Int] /\ IsFiniteSet(queue')
         /\ WaitingOf(k)' = WaitingOf(k) + 1
         /\ \A j : j # k => WaitingOf(j)' = WaitingOf(j)
<1>1. Cardinality(queue) \in Nat
  BY FS_CardinalityType DEF ManagerTyped
<1>2. PICK x \in FreeStamps(queue, t) :
        queue' = queue \cup {[key |-> k, time |-> t, stamp |-> x]}
  BY DEF AddEvent
<1>3. x \in Int /\ x \notin Stamps(queue)
  BY <1>1, <1>2 DEF FreeStamps
<1> DEFINE new == [key |-> k, time |-> t, stamp |-> x]
<1>4. new \notin queue
  BY <1>3 DEF Stamps
<1>5. new \in [key : Int, time : Int, stamp : Int] /\ new.key = k
  BY <1>3
<1>6. queue' = queue \cup {new}
  BY <1>2
<1>7. \E y \in Int : queue' = queue \cup {[key |-> k, time |-> t, stamp |-> y]}
  BY <1>2, <1>3
<1> HIDE DEF new
<1>8. queue' \in SUBSET [key : Int, time : Int, stamp : Int] /\ IsFiniteSet(queue')
  BY <1>5, <1>6, FS_AddElement DEF ManagerTyped
<1>9. WaitingOf(k)' = WaitingOf(k) + 1
  <2>1. {e \in queue' : e.key = k} = {e \in queue : e.key = k} \cup {new}
    BY <1>5, <1>6
  <2>2. new \notin {e \in queue : e.key = k}
    BY <1>4
  <2>3. IsFiniteSet({e \in queue : e.key = k})
    BY BalanceTypes
  <2>4. Cardinality({e \in queue : e.key = k} \cup {new}) = Cardinality({e \in queue : e.key = k}) + 1
    BY <2>2, <2>3, FS_AddElement
  <2>5. QED BY <2>1, <2>4 DEF WaitingOf
<1>10. \A j : j # k => WaitingOf(j)' = WaitingOf(j)
  <2> SUFFICES ASSUME NEW j, j # k PROVE WaitingOf(j)' = WaitingOf(j)
    OBVIOUS
  <2>1. {e \in queue' : e.key = j} = {e \in queue : e.key = j}
    BY <1>5, <1>6
  <2>2. QED BY <2>1 DEF WaitingOf
<1>11. QED BY <1>7, <1>8, <1>9, <1>10

(* An event that leaves the queue waits no more. *)
LEMMA RemovedEventWaits ==
  ASSUME ManagerTyped, NEW e \in queue, queue' = queue \ {e}
  PROVE  /\ queue' \in SUBSET [key : Int, time : Int, stamp : Int] /\ IsFiniteSet(queue')
         /\ WaitingOf(e.key)' = WaitingOf(e.key) - 1
         /\ \A j : j # e.key => WaitingOf(j)' = WaitingOf(j)
<1>1. queue' \in SUBSET [key : Int, time : Int, stamp : Int] /\ IsFiniteSet(queue')
  BY FS_RemoveElement DEF ManagerTyped
<1>2. WaitingOf(e.key)' = WaitingOf(e.key) - 1
  <2>1. {f \in queue' : f.key = e.key} = {f \in queue : f.key = e.key} \ {e}
    OBVIOUS
  <2>2. IsFiniteSet({f \in queue : f.key = e.key}) /\ e \in {f \in queue : f.key = e.key}
    BY BalanceTypes
  <2>3. Cardinality({f \in queue : f.key = e.key} \ {e}) = Cardinality({f \in queue : f.key = e.key}) - 1
    BY <2>2, FS_RemoveElement
  <2>4. QED BY <2>1, <2>3 DEF WaitingOf
<1>3. \A j : j # e.key => WaitingOf(j)' = WaitingOf(j)
  <2> SUFFICES ASSUME NEW j, j # e.key PROVE WaitingOf(j)' = WaitingOf(j)
    OBVIOUS
  <2>1. {f \in queue' : f.key = j} = {f \in queue : f.key = j}
    OBVIOUS
  <2>2. QED BY <2>1 DEF WaitingOf
<1>4. QED BY <1>1, <1>2, <1>3

(* A generation keeps the types, and its request waits or is dropped. *)
LEMMA GenerationBalance ==
  ASSUME ManagerTyped, NEW s \in Streams, NEW st \in StreamState, StillHaving(st),
         Counted(st) = Counted(stream[s]),
         NEW d \in NextDraws(s, st), GenerateNextRequest(s, st, d),
         itStream' \in 1 .. NbStreams + 1, sumActual' \in Int, forgotten' = forgotten
  PROVE  /\ ManagerTyped'
         /\ \A r \in Streams : Taken(r)' = Taken(r)
         /\ \A k : k \notin Streams => WaitingOf(k)' = WaitingOf(k)
<1>1. /\ AfterRequest(st, d) \in StreamState
      /\ stream' = [stream EXCEPT ![s] = AfterRequest(st, d)]
      /\ status' \in [expected : Int, current : Nat, actual : Int]
      /\ RequestTime(s, d) \in Int
  BY Generation
<1>2. /\ stream' \in [Streams -> StreamState]
      /\ stream'[s] = AfterRequest(st, d)
      /\ \A r \in Streams : r # s => stream'[r] = stream[r]
  BY <1>1 DEF ManagerTyped
<1>3. Counted(stream'[s]) = Counted(stream[s]) + 1
  BY <1>2, AfterRequestCounted
<1>4. s \in Int
  BY StreamsAssumption DEF Streams
<1>5. CASE AddEvent(s, RequestTime(s, d)) /\ UNCHANGED <<status, dropped>>
  <2>1. /\ queue' \in SUBSET [key : Int, time : Int, stamp : Int] /\ IsFiniteSet(queue')
        /\ WaitingOf(s)' = WaitingOf(s) + 1
        /\ \A j : j # s => WaitingOf(j)' = WaitingOf(j)
    BY <1>1, <1>4, <1>5, AddEventWaits
  <2>2. ManagerTyped'
    BY <1>1, <1>2, <1>5, <2>1 DEF ManagerTyped
  <2>3. \A r \in Streams : Taken(r)' = Taken(r)
    <3> SUFFICES ASSUME NEW r \in Streams PROVE Taken(r)' = Taken(r)
      OBVIOUS
    <3>1. Counted(stream[r]) \in Nat /\ WaitingOf(r) \in Nat /\ dropped'[r] = dropped[r]
      BY <1>5, BalanceTypes
    <3>2. dropped[r] \in Nat
      BY DEF ManagerTyped
    <3>3. CASE r = s
      <4>1. Counted(stream'[r]) = Counted(stream[r]) + 1 /\ WaitingOf(r)' = WaitingOf(r) + 1
        BY <1>3, <2>1, <3>3
      <4>2. QED BY <3>1, <3>2, <4>1 DEF Taken
    <3>4. CASE r # s
      <4>1. stream'[r] = stream[r] /\ WaitingOf(r)' = WaitingOf(r)
        BY <1>2, <2>1, <3>4
      <4>2. QED BY <3>1, <4>1 DEF Taken
    <3>5. QED BY <3>3, <3>4
  <2>4. QED BY <2>1, <2>2, <2>3
<1>6. CASE dropped' = [dropped EXCEPT ![s] = @ + 1] /\ queue' = queue
  <2>1. ManagerTyped'
    BY <1>1, <1>2, <1>6 DEF ManagerTyped
  <2>2. \A k : WaitingOf(k)' = WaitingOf(k)
    BY <1>6 DEF WaitingOf
  <2>3. \A r \in Streams : Taken(r)' = Taken(r)
    <3> SUFFICES ASSUME NEW r \in Streams PROVE Taken(r)' = Taken(r)
      OBVIOUS
    <3>1. Counted(stream[r]) \in Nat /\ WaitingOf(r) \in Nat /\ WaitingOf(r)' = WaitingOf(r)
      BY <2>2, BalanceTypes
    <3>2. dropped[r] \in Nat
      BY DEF ManagerTyped
    <3>3. CASE r = s
      <4>1. Counted(stream'[r]) = Counted(stream[r]) + 1 /\ dropped'[r] = dropped[r] + 1
        BY <1>3, <1>6, <3>3 DEF ManagerTyped
      <4>2. QED BY <3>1, <3>2, <4>1 DEF Taken
    <3>4. CASE r # s
      <4>1. stream'[r] = stream[r] /\ dropped'[r] = dropped[r]
        BY <1>2, <1>6, <3>4 DEF ManagerTyped
      <4>2. QED BY <3>1, <4>1 DEF Taken
    <3>5. QED BY <3>3, <3>4
  <2>4. QED BY <2>1, <2>2, <2>3
<1>7. QED BY <1>5, <1>6 DEF GenerateNextRequest

(* A first request keeps the types and the balance, whether one is generated or
   the stream has none. *)
LEMMA FirstRequestBalance ==
  ASSUME ManagerTyped, FirstRequestOfStream
  PROVE  /\ ManagerTyped'
         /\ \A r \in Streams : Taken(r)' = Taken(r)
         /\ \A k : k \notin Streams => WaitingOf(k)' = WaitingOf(k)
<1>1. PICK s \in Streams : s = itStream
  BY StreamsAssumption DEF FirstRequestOfStream, ManagerTyped, Streams
<1> DEFINE st == SetFirst(stream[s])
<1>2. stream[s] \in StreamState
  BY DEF ManagerTyped
<1>3. st \in StreamState
  BY <1>2, SetFirstType
<1>4. Counted(st) = Counted(stream[s]) /\ st.total \in Int
  BY <1>2, <1>3 DEF Counted, SetFirst, StreamState
<1>5. itStream' \in 1 .. NbStreams + 1 /\ forgotten' = forgotten
  BY StreamsAssumption DEF FirstRequestOfStream, ManagerTyped
<1>6. sumActual' = sumActual + st.total
  BY <1>1 DEF FirstRequestOfStream
<1>7. sumActual' \in Int
  <2>1. sumActual \in Int
    BY DEF ManagerTyped
  <2> HIDE DEF st
  <2>2. QED BY <1>4, <1>6, <2>1
<1>8. CASE StillHaving(st)
  <2>1. PICK d \in NextDraws(s, st) : GenerateNextRequest(s, st, d)
    BY <1>1, <1>8 DEF FirstRequestOfStream
  <2> HIDE DEF st
  <2>2. QED BY <1>3, <1>4, <1>5, <1>7, <1>8, <2>1, GenerationBalance
<1>9. CASE ~StillHaving(st)
  <2>1. stream' = [stream EXCEPT ![s] = st] /\ UNCHANGED <<queue, status, dropped>>
    BY <1>1, <1>9 DEF FirstRequestOfStream
  <2> HIDE DEF st
  <2>2. ManagerTyped'
    BY <1>3, <1>5, <1>7, <2>1 DEF ManagerTyped
  <2>3. \A k : WaitingOf(k)' = WaitingOf(k)
    BY <2>1 DEF WaitingOf
  <2>4. \A r \in Streams : Taken(r)' = Taken(r)
    <3> SUFFICES ASSUME NEW r \in Streams PROVE Taken(r)' = Taken(r)
      OBVIOUS
    <3>1. Counted(stream'[r]) = Counted(stream[r])
      BY <1>4, <2>1 DEF ManagerTyped
    <3>2. QED BY <2>1, <2>3, <3>1 DEF Taken
  <2>5. QED BY <2>2, <2>3, <2>4
<1>10. QED BY <1>8, <1>9

(* The end of the first requests changes the progress only. *)
LEMMA FirstRequestsDoneBalance ==
  ASSUME ManagerTyped, FirstRequestsDone
  PROVE  ManagerTyped' /\ UNCHANGED <<stream, queue, dropped>>
<1>1. status' \in [expected : Int, current : Nat, actual : Int]
  BY DEF FirstRequestsDone, UpdateStatus, ManagerTyped
<1>2. QED BY <1>1, StreamsAssumption DEF FirstRequestsDone, ManagerTyped

(* A popped request is taken by the driver. *)
LEMMA PopBalance ==
  ASSUME ManagerTyped, NEW e \in queue, e.key \in Streams, PopEvent(e),
         UNCHANGED <<stream, itStream, sumActual, dropped, forgotten>>
  PROVE  /\ ManagerTyped'
         /\ Taken(e.key)' = Taken(e.key) + 1
         /\ \A r \in Streams : r # e.key => Taken(r)' = Taken(r)
         /\ \A k : k \notin Streams => WaitingOf(k)' = WaitingOf(k)
<1>1. queue' = queue \ {e} /\ status' = [status EXCEPT !.current = @ + 1]
  BY DEF PopEvent
<1>2. status' \in [expected : Int, current : Nat, actual : Int]
  BY <1>1 DEF ManagerTyped
<1>3. /\ queue' \in SUBSET [key : Int, time : Int, stamp : Int] /\ IsFiniteSet(queue')
      /\ WaitingOf(e.key)' = WaitingOf(e.key) - 1
      /\ \A j : j # e.key => WaitingOf(j)' = WaitingOf(j)
  BY <1>1, RemovedEventWaits
<1>4. ManagerTyped'
  BY <1>2, <1>3 DEF ManagerTyped
<1>5. Taken(e.key)' = Taken(e.key) + 1
  <2>1. Counted(stream[e.key]) \in Nat /\ WaitingOf(e.key) \in Nat /\ dropped[e.key] \in Nat
    BY BalanceTypes DEF ManagerTyped
  <2>2. QED BY <1>3, <2>1 DEF Taken
<1>6. \A r \in Streams : r # e.key => Taken(r)' = Taken(r)
  BY <1>3 DEF Taken
<1>7. QED BY <1>3, <1>4, <1>5, <1>6

(* Nothing waits and nothing was taken when the program starts. *)
LEMMA InitBalance ==
  ASSUME ManagerInit
  PROVE  /\ ManagerTyped /\ queue = {}
         /\ \A s \in Streams : Taken(s) = 0 /\ stream[s].soFar = 0
         /\ \A k : WaitingOf(k) = 0
<1>1. PICK n \in [Streams -> UNION {Draws[s] : s \in Streams}] :
        /\ \A s \in Streams : n[s] \in Draws[s]
        /\ stream = [s \in Streams |-> NewStream(n[s])]
  BY DEF ManagerInit
<1>2. \A s \in Streams : NewStream(n[s]) \in StreamState
  BY <1>1, DrawnTotals, NewStreamType
<1>3. stream \in [Streams -> StreamState] /\ queue = {} /\ IsFiniteSet(queue)
  BY <1>1, <1>2, FS_EmptySet DEF ManagerInit
<1>4. status \in [expected : Int, current : Nat, actual : Int]
  BY MeanAssumption DEF ManagerInit
<1>5. ManagerTyped
  BY <1>3, <1>4, StreamsAssumption DEF ManagerInit, ManagerTyped
<1>6. \A k : WaitingOf(k) = 0
  <2> TAKE k
  <2>1. {e \in queue : e.key = k} = {}
    BY <1>3
  <2>2. QED BY <2>1, FS_EmptySet DEF WaitingOf
<1>7. \A s \in Streams : Taken(s) = 0 /\ stream[s].soFar = 0
  <2> SUFFICES ASSUME NEW s \in Streams PROVE Taken(s) = 0 /\ stream[s].soFar = 0
    OBVIOUS
  <2>1. stream[s].soFar = 0 /\ stream[s].still = TRUE
    BY <1>1 DEF NewStream
  <2>2. Counted(stream[s]) = 0 /\ dropped[s] = 0 /\ WaitingOf(s) = 0
    BY <1>6, <2>1 DEF Counted, ManagerInit
  <2>3. QED BY <2>1, <2>2 DEF Taken
<1>8. QED BY <1>3, <1>5, <1>6, <1>7

(* A reset leaves nothing waiting and nothing taken. *)
LEMMA ResetBalance ==
  ASSUME ManagerTyped, ManagerReset
  PROVE  /\ ManagerTyped' /\ queue' = {}
         /\ \A s \in Streams : Taken(s)' = 0 /\ stream'[s].soFar = 0
         /\ \A k : WaitingOf(k)' = 0
<1>1. PICK n \in [Streams -> UNION {Draws[s] : s \in Streams}] :
        /\ \A s \in Streams : n[s] \in Draws[s]
        /\ stream' = [s \in Streams |-> ResetStream(stream[s], n[s])]
  BY DEF ManagerReset
<1>2. \A s \in Streams : ResetStream(stream[s], n[s]) \in StreamState
  BY <1>1, DrawnTotals, ResetStreamType DEF ManagerTyped
<1>3. stream' \in [Streams -> StreamState] /\ queue' = {} /\ IsFiniteSet(queue')
  BY <1>1, <1>2, FS_EmptySet DEF ManagerReset, ResetQueue
<1>4. status' \in [expected : Int, current : Nat, actual : Int]
  <2> DEFINE S == [expected : Int, current : Nat, actual : Int]
             a == [status EXCEPT !.current = 0]
  <2>1. a \in S
    BY DEF ManagerTyped
  <2>2. [a EXCEPT !.actual = 0] \in S
    <3> HIDE DEF a
    <3> QED BY <2>1
  <2>3. status' = [a EXCEPT !.actual = 0]
    BY DEF ManagerReset, ResetQueue
  <2>4. QED BY <2>2, <2>3
<1>5. /\ dropped' = [s \in Streams |-> 0] /\ forgotten' = [s \in Streams |-> 0]
      /\ UNCHANGED <<itStream, sumActual>>
  BY DEF ManagerReset
<1>6. ManagerTyped'
  BY <1>3, <1>4, <1>5 DEF ManagerTyped
<1>7. \A k : WaitingOf(k)' = 0
  <2> TAKE k
  <2>1. {e \in queue' : e.key = k} = {}
    BY <1>3
  <2>2. QED BY <2>1, FS_EmptySet DEF WaitingOf
<1>8. \A s \in Streams : Taken(s)' = 0 /\ stream'[s].soFar = 0
  <2> SUFFICES ASSUME NEW s \in Streams PROVE Taken(s)' = 0 /\ stream'[s].soFar = 0
    OBVIOUS
  <2>1. stream'[s] = ResetStream(stream[s], n[s]) /\ stream[s] \in StreamState
    BY <1>1 DEF ManagerTyped
  <2>2. stream'[s].soFar = 0 /\ stream'[s].still = TRUE
    BY <2>1 DEF ResetStream, StreamState
  <2>3. Counted(stream'[s]) = 0 /\ dropped'[s] = 0 /\ WaitingOf(s)' = 0
    BY <1>5, <1>7, <2>2 DEF Counted
  <2>4. QED BY <2>2, <2>3 DEF Taken
<1>9. QED BY <1>3, <1>6, <1>7, <1>8

-----------------------------------------------------------------------------
(* The progress: the actual number of requests is a sum over the streams. *)

Totals == [s \in Streams |-> stream[s].total]

(* The sum of f over the first n streams. *)
SumUpTo(f, n) == SumFunctionOnSet(f, 1 .. n)

(* Sums over the streams are integers; the sum over all of them is SumOver. *)
LEMMA SumTypes ==
  ASSUME NEW f \in [Streams -> Int]
  PROVE  /\ SumOver(f) \in Int /\ SumUpTo(f, NbStreams) = SumOver(f) /\ SumUpTo(f, 0) = 0
         /\ \A n \in 1 .. NbStreams : /\ SumUpTo(f, n) = SumUpTo(f, n - 1) + f[n]
                                      /\ SumUpTo(f, n - 1) \in Int
<1>1. IsFiniteSet(Streams) /\ SumOver(f) = SumFunctionOnSet(f, Streams)
  BY FS_Interval, UnitsType DEF Streams, SumOver, SumFunction
<1>2. SumOver(f) \in Int
  BY <1>1, SumFunctionType DEF SumOver
<1>3. SumUpTo(f, 0) = 0
  <2>1. 1 .. 0 = {}
    OBVIOUS
  <2>2. QED BY <2>1, SumEmpty DEF SumUpTo
<1>4. ASSUME NEW n \in 1 .. NbStreams
      PROVE  SumUpTo(f, n) = SumUpTo(f, n - 1) + f[n] /\ SumUpTo(f, n - 1) \in Int
  <2>1. /\ 1 .. n = (1 .. n - 1) \cup {n} /\ n \notin 1 .. n - 1 /\ n \in Streams
        /\ 1 .. n - 1 \subseteq Streams
    BY UnitsType DEF Streams
  <2>2. IsFiniteSet(1 .. n - 1)
    BY <1>1, <2>1, FS_Subset
  <2>3. f[n] \in Int /\ \A x \in 1 .. n - 1 : f[x] \in Int
    BY <2>1
  <2>4. SumFunctionOnSet(f, (1 .. n - 1) \cup {n}) = SumFunctionOnSet(f, 1 .. n - 1) + f[n]
    BY <2>1, <2>2, <2>3, SumAdd
  <2>5. SumFunctionOnSet(f, 1 .. n - 1) \in Int
    BY <2>2, <2>3, SumType
  <2>6. QED BY <2>1, <2>4, <2>5 DEF SumUpTo
<1>5. QED BY <1>1, <1>2, <1>3, <1>4 DEF SumUpTo, Streams

(* One more for one stream is one more in the sum. *)
LEMMA SumOfOneMore ==
  ASSUME NEW f \in [Streams -> Int], NEW s \in Streams
  PROVE  SumOver([f EXCEPT ![s] = @ + 1]) = SumOver(f) + 1
<1> DEFINE g == [f EXCEPT ![s] = @ + 1]
<1>1. g \in [Streams -> Int] /\ g[s] = f[s] + 1 /\ \A r \in Streams \ {s} : g[r] = f[r]
  OBVIOUS
<1>2. IsFiniteSet(Streams)
  BY FS_Interval, UnitsType DEF Streams
<1> HIDE DEF g
<1>3. SumOver(g) = SumOver(f) - f[s] + g[s]
  BY <1>1, <1>2, SumFunctionUpdate DEF SumOver
<1>4. SumOver(f) \in Int /\ f[s] \in Int
  BY SumTypes
<1>5. SumOver(g) = SumOver(f) + 1
  BY <1>1, <1>3, <1>4
<1>6. QED BY <1>5 DEF g

(* Nothing counted sums to nothing. *)
LEMMA SumOfNothing == SumOver([s \in Streams |-> 0]) = 0
BY SumFunctionZero, FS_Interval, UnitsType DEF SumOver, Streams

(* A generation changes no total; a request it drops is one less in the actual
   number. *)
LEMMA GenerationTally ==
  ASSUME ManagerTyped, NEW s \in Streams, NEW st \in StreamState, StillHaving(st),
         st.total = stream[s].total, NEW d \in NextDraws(s, st), GenerateNextRequest(s, st, d)
  PROVE  /\ Totals' = Totals /\ status'.current = status.current
         /\ status'.actual = status.actual - (SumOver(dropped)' - SumOver(dropped))
<1>1. /\ stream \in [Streams -> StreamState] /\ stream' = [stream EXCEPT ![s] = AfterRequest(st, d)]
      /\ status \in [expected : Int, current : Nat, actual : Int] /\ dropped \in [Streams -> Int]
  BY DEF GenerateNextRequest, ManagerTyped
<1>2. AfterRequest(st, d).total = st.total
  BY DEF AfterRequest, AfterOrderStatistic, AfterPoisson, StreamState
<1>3. Totals' = Totals
  BY <1>1, <1>2 DEF Totals
<1>4. SumOver(dropped) \in Int
  BY <1>1, SumTypes
<1>5. CASE UNCHANGED <<status, dropped>>
  BY <1>1, <1>3, <1>4, <1>5
<1>6. CASE UpdateStatus(status.actual - 1) /\ dropped' = [dropped EXCEPT ![s] = @ + 1]
  <2>1. SumOver(dropped)' = SumOver(dropped) + 1
    BY <1>1, <1>6, SumOfOneMore DEF SumOver
  <2>2. status'.actual = status.actual - 1 /\ status'.current = status.current
    BY <1>1, <1>6 DEF UpdateStatus
  <2>3. QED BY <1>1, <1>3, <1>4, <2>1, <2>2
<1>7. QED BY <1>5, <1>6 DEF GenerateNextRequest

(* generateFirstRequests adds up the totals. *)
LEMMA FirstRequestTally ==
  ASSUME ManagerTyped, FirstRequestOfStream, sumActual = SumUpTo(Totals, itStream - 1)
  PROVE  /\ Totals' = Totals /\ status'.current = status.current
         /\ sumActual' = SumUpTo(Totals, itStream' - 1)
<1>1. PICK s \in Streams : s = itStream
  BY StreamsAssumption DEF FirstRequestOfStream, ManagerTyped, Streams
<1> DEFINE st == SetFirst(stream[s])
<1>2. stream[s] \in StreamState
  BY DEF ManagerTyped
<1>3. st \in StreamState /\ st.total = stream[s].total /\ st.total = Totals[s]
  BY <1>2, SetFirstType DEF SetFirst, StreamState, Totals
<1>4. sumActual' = sumActual + st.total /\ itStream' = s + 1
  BY <1>1 DEF FirstRequestOfStream
<1>5. Totals \in [Streams -> Int]
  BY DEF Totals, ManagerTyped, StreamState
<1>6. sumActual' = SumUpTo(Totals, itStream' - 1)
  <2>1. s \in 1 .. NbStreams /\ (s + 1) - 1 = s
    BY UnitsType DEF Streams
  <2>2. SumUpTo(Totals, s) = SumUpTo(Totals, s - 1) + Totals[s]
    BY <1>5, <2>1, SumTypes
  <2>3. QED BY <1>1, <1>3, <1>4, <2>1, <2>2
<1>7. CASE StillHaving(st)
  <2>1. PICK d \in NextDraws(s, st) : GenerateNextRequest(s, st, d)
    BY <1>1, <1>7 DEF FirstRequestOfStream
  <2> HIDE DEF st
  <2>2. QED BY <1>3, <1>6, <1>7, <2>1, GenerationTally
<1>8. CASE ~StillHaving(st)
  <2>1. stream' = [stream EXCEPT ![s] = st] /\ UNCHANGED status
    BY <1>1, <1>8 DEF FirstRequestOfStream
  <2>2. Totals' = Totals
    BY <1>3, <2>1 DEF Totals, ManagerTyped
  <2>3. QED BY <1>6, <2>1, <2>2
<1>9. QED BY <1>7, <1>8

-----------------------------------------------------------------------------
(* The order of the requests of a stream, with both methods and any pattern. *)

(* The point of its distribution a stream has reached. *)
HeadOf(st) == IF Method = StatisticsOrder THEN st.cum ELSE st.last

(* A Poisson stream has made its first request, and has not reached the end of its
   pattern unless it stopped. *)
Underway(s, st) ==
  Method = PoissonProcess =>
    /\ st.first = FALSE
    /\ st.still = TRUE => st.last # LastLowerBound /\ st.last < PatternEnd(s)

(* The walk of a Poisson stream goes from where it resumes to a horizon inside the
   pattern. *)
LEMMA HorizonBounds ==
  ASSUME Method = PoissonProcess, NEW s \in Streams, NEW st \in StreamState,
         NEW d \in NextDraws(s, st)
  PROVE  /\ d \in Int /\ ResumeAt(s, st) \in Int /\ PatternEnd(s) \in Int /\ LastLowerBound \in Int
         /\ HasLastBound(s) => LastLowerBound <= PatternEnd(s)
         /\ d = LastLowerBound \/ d <= PatternEnd(s)
         /\ \/ ResumeAt(s, st) <= d
            \/ d = LastLowerBound /\ ResumeAt(s, st) <= LastLowerBound
            \/ d = PatternEnd(s)
<1>1. LastLowerBound \in Int /\ PatternEnd(s) \in Int
  <2>1. IsPointList(Arrival[s])
    BY ArrivalIsPointList
  <2>2. Len(Arrival[s]) \in 1 .. Len(Arrival[s]) /\ Arrival[s][Len(Arrival[s])].value \in Int
    BY <2>1, PointListFacts
  <2>3. QED BY <2>2, UnitsType DEF PatternEnd
<1>2. ResumeAt(s, st) \in Int
  BY GetValueType DEF ResumeAt, StreamState
<1>3. HasLastBound(s) => LastLowerBound <= PatternEnd(s)
  <2> SUFFICES ASSUME HasLastBound(s) PROVE LastLowerBound <= PatternEnd(s)
    OBVIOUS
  <2>1. IsPointList(Arrival[s])
    BY ArrivalIsPointList
  <2>2. PICK i \in 1 .. Len(Arrival[s]) : Arrival[s][i].value = LastLowerBound
    BY DEF HasLastBound
  <2>3. Arrival[s][i].value <= Arrival[s][Len(Arrival[s])].value
    BY <2>1, PointListFacts
  <2>4. QED BY <2>2, <2>3 DEF PatternEnd
<1>4. d \in NextArrivals(s, st)
  BY DEF NextDraws, StatisticsOrder, PoissonProcess
<1>5. CASE HasLastBound(s) /\ ResumeAt(s, st) <= LastLowerBound
  <2>1. Horizon(s, st) = LastLowerBound
    BY <1>5 DEF Horizon
  <2>2. d \in Int /\ d <= LastLowerBound /\ (ResumeAt(s, st) <= d \/ d = LastLowerBound)
    BY <1>1, <1>2, <1>4, <2>1 DEF NextArrivals
  <2>3. QED BY <1>1, <1>2, <1>3, <1>5, <2>2
<1>6. CASE ~(HasLastBound(s) /\ ResumeAt(s, st) <= LastLowerBound)
  <2>1. Horizon(s, st) = PatternEnd(s)
    BY <1>6 DEF Horizon
  <2>2. d \in Int /\ d <= PatternEnd(s) /\ (ResumeAt(s, st) <= d \/ d = PatternEnd(s))
    BY <1>1, <1>2, <1>4, <2>1 DEF NextArrivals
  <2>3. QED BY <1>1, <1>2, <1>3, <2>2
<1>7. QED BY <1>5, <1>6

(* The offset of a later point of a pattern is no smaller; that of the stopping
   point is the largest. *)
LEMMA OffsetMonotone ==
  ASSUME Method = PoissonProcess, NEW s \in Streams, NEW c \in Int, NEW d \in Int,
         c # LastLowerBound, c <= Offset(s, d)
  PROVE  RequestTime(s, c) <= RequestTime(s, d)
<1> DEFINE base == DepartureDate[s] * DayLength + RefTime
           b == Offset(s, d)
<1>1. base \in Int /\ b \in Int /\ c <= b /\ Offset(s, c) = c
  BY UnitsType DEF Offset, StatisticsOrder, PoissonProcess
<1>2. /\ RequestTime(s, c) = base + (c \div TicksPerMs + 1)
      /\ RequestTime(s, d) = base + (b \div TicksPerMs + 1)
  BY <1>1 DEF RequestTime, Convert
<1> HIDE DEF base, b
<1>3. c \div TicksPerMs <= b \div TicksPerMs
  BY <1>1, UnitsType, DivMonotone
<1>4. c \div TicksPerMs \in Int /\ b \div TicksPerMs \in Int
  BY <1>1, UnitsType
<1>5. QED BY <1>1, <1>2, <1>3, <1>4

(* The next request of a stream is not earlier than its last one. *)
LEMMA NextNotEarlier ==
  ASSUME NEW s \in Streams, NEW st \in StreamState, StillHaving(st), Underway(s, st),
         NEW d \in NextDraws(s, st)
  PROVE  RequestTime(s, HeadOf(st)) <= RequestTime(s, d)
<1>1. CASE Method = StatisticsOrder
  <2>1. st.cum < d /\ d \in Int /\ st.cum \in Int
    BY <1>1, NextDrawsType, UnitsType DEF StreamState
  <2>2. st.cum <= d
    BY <2>1
  <2>3. QED BY <1>1, <2>1, <2>2, RequestTimeMonotone DEF HeadOf
<1>2. CASE Method # StatisticsOrder
  <2>0. Method = PoissonProcess
    BY <1>2, MethodAssumption
  <2>1. /\ st.first = FALSE /\ st.last # LastLowerBound /\ st.last < PatternEnd(s)
        /\ st.last \in Int
    BY <1>2, <2>0 DEF Underway, StillHaving, StreamState
  <2>2. ResumeAt(s, st) = st.last
    BY <2>1 DEF ResumeAt
  <2>3. /\ d \in Int /\ PatternEnd(s) \in Int /\ LastLowerBound \in Int
        /\ st.last <= d \/ (d = LastLowerBound /\ st.last <= LastLowerBound) \/ d = PatternEnd(s)
    BY <2>0, <2>2, HorizonBounds
  <2>4. st.last <= d
    BY <2>1, <2>3
  <2>5. st.last <= Offset(s, d)
    <3>1. LastLowerBound < 0
      BY UnitsType DEF LastLowerBound
    <3>2. QED BY <2>0, <2>1, <2>3, <2>4, <3>1 DEF Offset, StatisticsOrder, PoissonProcess
  <2>6. QED BY <1>2, <2>0, <2>1, <2>3, <2>5, OffsetMonotone DEF HeadOf
<1>3. QED BY <1>1, <1>2

(* After a generation that does not run off the pattern the stream is underway, at
   the point drawn. *)
LEMMA UnderwayAfter ==
  ASSUME NEW s \in Streams, NEW st \in StreamState, StillHaving(st),
         NEW d \in NextDraws(s, st), ~RunsOffPattern(s, d)
  PROVE  HeadOf(AfterRequest(st, d)) = d /\ Underway(s, AfterRequest(st, d))
<1>1. CASE Method = StatisticsOrder
  BY <1>1 DEF HeadOf, Underway, AfterRequest, AfterOrderStatistic, StreamState,
              StatisticsOrder, PoissonProcess
<1>2. CASE Method # StatisticsOrder
  <2>0. Method = PoissonProcess
    BY <1>2, MethodAssumption
  <2>1. /\ AfterRequest(st, d).first = FALSE /\ AfterRequest(st, d).last = d
        /\ d = LastLowerBound => AfterRequest(st, d).still = FALSE
    BY <1>2 DEF AfterRequest, AfterPoisson, StreamState
  <2>2. d # LastLowerBound => d < PatternEnd(s)
    <3>1. /\ d \in Int /\ PatternEnd(s) \in Int
          /\ d = LastLowerBound \/ d <= PatternEnd(s)
      BY <2>0, HorizonBounds
    <3>2. QED BY <2>0, <3>1 DEF RunsOffPattern
  <2>3. QED BY <1>2, <2>1, <2>2 DEF HeadOf, Underway
<1>3. QED BY <1>1, <1>2

(* An event with the key of a stream has the date-time of the point its stream has
   reached. *)
InStep(e) ==
  /\ e.time = RequestTime(e.key, HeadOf(stream[e.key]))
  /\ Underway(e.key, stream[e.key])

(* The requests in the queue: each is in step with its stream, which has no other,
   and none has a stamp before its date-time. *)
ChainsInStep ==
  /\ \A e \in queue : e.key \in Streams => InStep(e)
  /\ \A e, f \in queue : e.key \in Streams /\ e.key = f.key => e = f
  /\ \A e \in queue : e.time <= e.stamp

(* A generation for a stream with no request in the queue keeps the chains in
   step; what it queues is not earlier than its date-time. *)
LEMMA GenerationInStep ==
  ASSUME ManagerTyped, ChainsInStep, NEW s \in Streams, NEW st \in StreamState, StillHaving(st),
         NEW d \in NextDraws(s, st), ~RunsOffPattern(s, d), GenerateNextRequest(s, st, d),
         \A e \in queue : e.key # s
  PROVE  /\ ChainsInStep'
         /\ \A e \in queue' : e \in queue \/ (e.key = s /\ RequestTime(s, d) <= e.stamp)
<1>1. /\ stream' = [stream EXCEPT ![s] = AfterRequest(st, d)]
      /\ d \in Int /\ RequestTime(s, d) \in Int
  BY NextDrawsType, Generation
<1>2. stream'[s] = AfterRequest(st, d) /\ \A r \in Streams : r # s => stream'[r] = stream[r]
  BY <1>1 DEF ManagerTyped
<1>3. \A e \in queue : e.key \in Streams => InStep(e)'
  BY <1>2 DEF ChainsInStep, InStep
<1>4. CASE UNCHANGED queue
  BY <1>3, <1>4 DEF ChainsInStep
<1>5. CASE AddEvent(s, RequestTime(s, d))
  <2>1. PICK x \in FreeStamps(queue, RequestTime(s, d)) :
          queue' = queue \cup {[key |-> s, time |-> RequestTime(s, d), stamp |-> x]}
    BY <1>5 DEF AddEvent
  <2>2. Cardinality(queue) \in Nat
    BY FS_CardinalityType DEF ManagerTyped
  <2>3. x \in Int /\ RequestTime(s, d) <= x
    BY <1>1, <2>1, <2>2 DEF FreeStamps
  <2> DEFINE new == [key |-> s, time |-> RequestTime(s, d), stamp |-> x]
  <2>4. /\ queue' = queue \cup {new} /\ new.key = s /\ new.time = RequestTime(s, d)
        /\ new.stamp = x
    BY <2>1
  <2> HIDE DEF new
  <2>5. InStep(new)'
    BY <1>2, <2>4, UnderwayAfter DEF InStep
  <2>6. QED BY <1>3, <2>3, <2>4, <2>5 DEF ChainsInStep
<1>6. QED BY <1>4, <1>5 DEF GenerateNextRequest

-----------------------------------------------------------------------------
(* What is left to generate. *)

LeftOf(st) == IF Remaining(st) > 0 THEN Remaining(st) ELSE 0

(* The requests that the streams have still to generate, with order statistics. *)
RequestsLeft == SumOver([s \in Streams |-> LeftOf(stream[s])])

LEMMA LeftTypes ==
  ASSUME stream \in [Streams -> StreamState]
  PROVE  [s \in Streams |-> LeftOf(stream[s])] \in [Streams -> Nat] /\ RequestsLeft \in Nat
<1>1. \A st \in StreamState : LeftOf(st) \in Nat
  BY DEF StreamState, LeftOf, Remaining
<1>2. [s \in Streams |-> LeftOf(stream[s])] \in [Streams -> Nat]
  BY <1>1
<1>3. IsFiniteSet(Streams)
  BY FS_Interval, UnitsType DEF Streams
<1>4. QED BY <1>2, <1>3, SumNatural DEF RequestsLeft, SumOver

(* With order statistics each generation leaves one request less. *)
LEMMA GenerationLowersLeft ==
  ASSUME ManagerTyped, Method = StatisticsOrder, NEW s \in Streams, NEW st \in StreamState,
         StillHaving(st), st.total = stream[s].total, st.soFar = stream[s].soFar,
         NEW d \in NextDraws(s, st), GenerateNextRequest(s, st, d)
  PROVE  /\ RequestsLeft \in Nat /\ RequestsLeft' \in Nat /\ RequestsLeft' < RequestsLeft
         /\ Remaining(stream[s]) > 0 /\ Remaining(stream[s])' = Remaining(stream[s]) - 1
<1>1. /\ stream \in [Streams -> StreamState] /\ AfterRequest(st, d) \in StreamState
      /\ stream' = [stream EXCEPT ![s] = AfterRequest(st, d)]
  BY Generation DEF ManagerTyped
<1>2. /\ stream' \in [Streams -> StreamState] /\ stream'[s] = AfterRequest(st, d)
      /\ \A r \in Streams \ {s} : stream'[r] = stream[r]
  BY <1>1
<1>3. AfterRequest(st, d).total = st.total /\ AfterRequest(st, d).soFar = st.soFar + 1
  BY DEF AfterRequest, AfterOrderStatistic, StreamState
<1>4. st.total \in Int /\ st.soFar \in Nat /\ st.total - st.soFar > 0
  BY DEF StreamState, StillHaving, Remaining
<1>5. /\ Remaining(stream[s]) = st.total - st.soFar
      /\ Remaining(stream[s])' = st.total - (st.soFar + 1)
  BY <1>2, <1>3 DEF Remaining
<1> DEFINE f == [r \in Streams |-> LeftOf(stream[r])]
           g == [r \in Streams |-> LeftOf(stream'[r])]
<1>6. f \in [Streams -> Nat] /\ RequestsLeft \in Nat /\ RequestsLeft = SumFunction(f)
  BY <1>1, LeftTypes DEF RequestsLeft, SumOver
<1>7. \A x \in StreamState : LeftOf(x) \in Nat
  BY DEF StreamState, LeftOf, Remaining
<1>8. g \in [Streams -> Nat] /\ RequestsLeft' = SumFunction(g)
  BY <1>2, <1>7 DEF RequestsLeft, SumOver, LeftOf, Remaining
<1>9. g[s] = f[s] - 1 /\ \A r \in Streams \ {s} : g[r] = f[r]
  BY <1>2, <1>4, <1>5 DEF LeftOf, Remaining
<1>10. IsFiniteSet(Streams)
  BY FS_Interval, UnitsType DEF Streams
<1> HIDE DEF f, g
<1>11. SumFunction(g) = SumFunction(f) - f[s] + g[s] /\ f[s] \in Int
  BY <1>6, <1>8, <1>9, <1>10, SumFunctionUpdate
<1>12. SumFunction(g) \in Nat
  BY <1>8, <1>10, SumNatural
<1>13. RequestsLeft' = RequestsLeft - 1
  BY <1>6, <1>8, <1>9, <1>11
<1>14. QED BY <1>4, <1>5, <1>6, <1>8, <1>12, <1>13

-----------------------------------------------------------------------------
(* There is always a request to draw, and a stamp for it. *)

(* With order statistics the probabilities left hold the requests left. *)
HasRoom(st) == Method = StatisticsOrder /\ Remaining(st) > 0 => st.cum + Remaining(st) < One

Roomy == \A s \in Streams : HasRoom(stream[s])

(* A stream that still has requests has a draw to make. *)
LEMMA DrawsExist ==
  ASSUME NEW s \in Streams, NEW st \in StreamState, HasRoom(st), StillHaving(st)
  PROVE  NextDraws(s, st) # {}
<1>1. CASE Method = StatisticsOrder
  <2>1. st.cum \in Int /\ Remaining(st) \in Int /\ One \in Int /\ st.cum + Remaining(st) < One
    BY <1>1, UnitsType DEF HasRoom, StillHaving, StreamState, Remaining
  <2>2. st.cum + 1 \in NextCums(st)
    BY <2>1 DEF NextCums
  <2>3. QED BY <1>1, <2>2 DEF NextDraws
<1>2. CASE Method # StatisticsOrder
  BY <1>2 DEF NextDraws, NextArrivals
<1>3. QED BY <1>1, <1>2

(* A generation keeps room for the requests after it. *)
LEMMA RoomAfter ==
  ASSUME NEW s \in Streams, NEW st \in StreamState, HasRoom(st), StillHaving(st),
         NEW d \in NextDraws(s, st)
  PROVE  HasRoom(AfterRequest(st, d))
<1> SUFFICES ASSUME Method = StatisticsOrder
             PROVE  AfterRequest(st, d).cum + Remaining(AfterRequest(st, d)) < One
  BY DEF HasRoom
<1>1. /\ st.cum \in Int /\ st.total \in Int /\ st.soFar \in Nat /\ One \in Int
      /\ d \in st.cum + 1 .. One - (st.total - st.soFar)
  BY UnitsType DEF StreamState, NextDraws, NextCums, Remaining
<1>2. /\ AfterRequest(st, d).cum = d /\ AfterRequest(st, d).total = st.total
      /\ AfterRequest(st, d).soFar = st.soFar + 1
  BY DEF AfterRequest, AfterOrderStatistic, StreamState
<1>3. Remaining(AfterRequest(st, d)) = st.total - (st.soFar + 1)
  BY <1>2 DEF Remaining
<1>4. d + (st.total - (st.soFar + 1)) < One
  BY <1>1
<1>5. QED BY <1>2, <1>3, <1>4

(* There is room at the start of a run: the grid is fine enough. *)
LEMMA FreshRoom ==
  ASSUME NEW s \in Streams, NEW n \in Draws[s], NEW st, st.total = n, st.soFar = 0, st.cum = 0
  PROVE  HasRoom(st)
<1>1. n < One /\ n \in Int
  BY GridAssumption, InputAssumption
<1>2. QED BY <1>1 DEF HasRoom, Remaining

(* The streams as the service is initialised, and after a reset. *)
LEMMA InitGivesRoom ==
  ASSUME ManagerInit
  PROVE  Roomy
<1>1. PICK n \in [Streams -> UNION {Draws[s] : s \in Streams}] :
        /\ \A s \in Streams : n[s] \in Draws[s]
        /\ stream = [s \in Streams |-> NewStream(n[s])]
  BY DEF ManagerInit
<1>2. ASSUME NEW s \in Streams
      PROVE  HasRoom(stream[s])
  <2>1. stream[s].total = n[s] /\ stream[s].soFar = 0 /\ stream[s].cum = 0 /\ n[s] \in Draws[s]
    BY <1>1 DEF NewStream
  <2>2. QED BY <2>1, FreshRoom
<1>3. QED BY <1>2 DEF Roomy

LEMMA ResetGivesRoom ==
  ASSUME ManagerTyped, ManagerReset
  PROVE  Roomy'
<1>1. PICK n \in [Streams -> UNION {Draws[s] : s \in Streams}] :
        /\ \A s \in Streams : n[s] \in Draws[s]
        /\ stream' = [s \in Streams |-> ResetStream(stream[s], n[s])]
  BY DEF ManagerReset
<1>2. ASSUME NEW s \in Streams
      PROVE  HasRoom(stream'[s])
  <2>1. stream'[s] = ResetStream(stream[s], n[s]) /\ n[s] \in Draws[s] /\ stream[s] \in StreamState
    BY <1>1 DEF ManagerTyped
  <2>2. stream'[s].total = n[s] /\ stream'[s].soFar = 0 /\ stream'[s].cum = 0
    BY <2>1 DEF ResetStream, StreamState
  <2>3. QED BY <2>1, <2>2, FreshRoom
<1>3. QED BY <1>2 DEF Roomy, HasRoom, Remaining

(* A generation, from the state of its stream or the one marked as first. *)
LEMMA GenerationKeepsRoom ==
  ASSUME ManagerTyped, Roomy, NEW s \in Streams, NEW st \in StreamState, StillHaving(st),
         HasRoom(st), NEW d \in NextDraws(s, st), GenerateNextRequest(s, st, d)
  PROVE  Roomy'
<1>1. stream' = [stream EXCEPT ![s] = AfterRequest(st, d)]
  BY DEF GenerateNextRequest
<1>2. HasRoom(AfterRequest(st, d))
  BY RoomAfter
<1>3. \A r \in Streams : stream'[r] = IF r = s THEN AfterRequest(st, d) ELSE stream[r]
  BY <1>1 DEF ManagerTyped
<1>4. \A r \in Streams : HasRoom(stream'[r])
  BY <1>2, <1>3 DEF Roomy
<1>5. QED BY <1>4 DEF Roomy, HasRoom, Remaining

LEMMA SetFirstHasRoom ==
  ASSUME NEW st \in StreamState, HasRoom(st)
  PROVE  SetFirst(st) \in StreamState /\ HasRoom(SetFirst(st))
<1>1. /\ SetFirst(st) \in StreamState /\ SetFirst(st).total = st.total
      /\ SetFirst(st).soFar = st.soFar /\ SetFirst(st).cum = st.cum
  BY SetFirstType DEF SetFirst, StreamState
<1>2. QED BY <1>1 DEF HasRoom, Remaining

LEMMA FirstRequestKeepsRoom ==
  ASSUME ManagerTyped, Roomy, FirstRequestOfStream
  PROVE  Roomy'
<1>1. PICK s \in Streams : s = itStream
  BY UnitsType DEF FirstRequestOfStream, ManagerTyped, Streams
<1> DEFINE st == SetFirst(stream[s])
<1>2. st \in StreamState /\ HasRoom(st)
  BY SetFirstHasRoom DEF ManagerTyped, Roomy
<1>3. CASE StillHaving(st)
  <2>1. PICK d \in NextDraws(s, st) : GenerateNextRequest(s, st, d)
    BY <1>1, <1>3 DEF FirstRequestOfStream
  <2> HIDE DEF st
  <2>2. QED BY <1>2, <1>3, <2>1, GenerationKeepsRoom
<1>4. CASE ~StillHaving(st)
  <2>1. stream' = [stream EXCEPT ![s] = st]
    BY <1>1, <1>4 DEF FirstRequestOfStream
  <2> HIDE DEF st
  <2>2. \A r \in Streams : stream'[r] = IF r = s THEN st ELSE stream[r]
    BY <2>1 DEF ManagerTyped
  <2>3. \A r \in Streams : HasRoom(stream'[r])
    BY <1>2, <2>2 DEF Roomy
  <2>4. QED BY <2>3 DEF Roomy, HasRoom, Remaining
<1>5. QED BY <1>3, <1>4

(* Whichever state a stream generates from, it has a draw to make. *)
LEMMA DrawsExistForAll ==
  ASSUME ManagerTyped, Roomy, NEW s \in Streams
  PROVE  /\ NextDraws(s, stream[s]) # {} \/ ~StillHaving(stream[s])
         /\ NextDraws(s, SetFirst(stream[s])) # {} \/ ~StillHaving(SetFirst(stream[s]))
<1>1. stream[s] \in StreamState /\ HasRoom(stream[s])
  BY DEF ManagerTyped, Roomy
<1>2. SetFirst(stream[s]) \in StreamState /\ HasRoom(SetFirst(stream[s]))
  BY <1>1, SetFirstHasRoom
<1>3. QED BY <1>1, <1>2, DrawsExist

(* A taken stamp is altered to a free one: the events of the queue cannot take all
   the stamps that follow. *)
LEMMA StampsExist ==
  ASSUME IsFiniteSet(queue), NEW t \in Int
  PROVE  FreeStamps(queue, t) # {}
<1> DEFINE n == Cardinality(queue)
           f == [e \in queue |-> e.stamp]
<1>1. n \in Nat
  BY FS_CardinalityType
<1>2. IsFiniteSet(Stamps(queue)) /\ Cardinality(Stamps(queue)) <= n
  <2>1. f \in Surjection(queue, Stamps(queue))
    BY DEF Surjection, Stamps
  <2>2. QED BY <2>1, FS_Surjection
<1>3. ASSUME t \in Stamps(queue), (t + 1 .. t + n) \subseteq Stamps(queue)
      PROVE  FALSE
  <2> HIDE DEF n
  <2>1. t .. t + n \subseteq Stamps(queue)
    <3>1. \A x \in t .. t + n : x = t \/ x \in t + 1 .. t + n
      BY <1>1
    <3>2. QED BY <1>3, <3>1
  <2>2. Cardinality(t .. t + n) = n + 1
    BY <1>1, FS_Interval
  <2>3. Cardinality(t .. t + n) <= Cardinality(Stamps(queue))
    BY <1>2, <2>1, FS_Subset
  <2>4. Cardinality(Stamps(queue)) \in Nat
    BY <1>2, FS_CardinalityType
  <2>5. QED BY <1>1, <1>2, <2>2, <2>3, <2>4
<1>4. CASE t \notin Stamps(queue)
  BY <1>4 DEF FreeStamps
<1>5. CASE t \in Stamps(queue)
  <2>1. PICK x \in t + 1 .. t + n : x \notin Stamps(queue)
    BY <1>3, <1>5
  <2>2. QED BY <1>5, <2>1 DEF FreeStamps
<1>6. QED BY <1>4, <1>5

(* A queue that is not empty has an earliest event. *)
LEMMA EarliestExists ==
  ASSUME IsFiniteSet(queue), queue # {}, \A e \in queue : e.stamp \in Int
  PROVE  \E e \in queue : IsEarliest(e)
<1> DEFINE Before(e) == {f \in queue : f.stamp < e.stamp}
           T == {Cardinality(Before(e)) : e \in queue}
<1>1. \A e \in queue : IsFiniteSet(Before(e)) /\ Cardinality(Before(e)) \in Nat
  <2>1. \A e \in queue : Before(e) \in SUBSET queue
    OBVIOUS
  <2> HIDE DEF Before
  <2>2. QED BY <2>1, FS_Subset, FS_CardinalityType
<1>2. T \subseteq Nat /\ T # {}
  BY <1>1
<1>3. PICK m \in T : \A k \in T : m <= k
  <2> HIDE DEF T
  <2>1. QED BY <1>2, LeastElement
<1>4. PICK e \in queue : m = Cardinality(Before(e))
  OBVIOUS
<1>5. ASSUME NEW f \in queue, f.stamp < e.stamp
      PROVE  FALSE
  <2>1. f \in Before(e) /\ Before(f) \in SUBSET (Before(e) \ {f})
    BY <1>5
  <2>2. IsFiniteSet(Before(e)) /\ IsFiniteSet(Before(f))
        /\ Cardinality(Before(e)) \in Nat /\ Cardinality(Before(f)) \in Nat
    BY <1>1
  <2>3. m <= Cardinality(Before(f))
    BY <1>3
  <2> HIDE DEF Before
  <2>4. /\ IsFiniteSet(Before(e) \ {f})
        /\ Cardinality(Before(e) \ {f}) = Cardinality(Before(e)) - 1
    BY <2>1, <2>2, FS_RemoveElement
  <2>5. Cardinality(Before(f)) <= Cardinality(Before(e) \ {f})
    BY <2>1, <2>4, FS_Subset
  <2>6. QED BY <1>4, <2>2, <2>3, <2>4, <2>5
<1>6. QED BY <1>5 DEF IsEarliest
=============================================================================
