------------------------ MODULE PythonSession_proofs ------------------------
(***************************************************************************)
(* Proofs about a Python session, for any streams and patterns and any        *)
(* sequence of calls under either method: what a failed call leaves behind is *)
(* accounted for and bounded, nothing is left otherwise, and the sanity check *)
(* ends the interpreter only when a Poisson process meets such remains.       *)
(*                                                                         *)
(* The manager is used under both methods, so the lemmas about it are taken   *)
(* twice, with each method; what they assume of the constants is what        *)
(* ManagerAssumption says.                                                  *)
(***************************************************************************)
EXTENDS PythonSession, Operators_proofs

OrderLemmas == INSTANCE DemandManager_proofs WITH Method <- "STA_ORD"
PoissonLemmas == INSTANCE DemandManager_proofs WITH Method <- "POI_PRO"

-----------------------------------------------------------------------------
(* The operators of the manager in the two instances of it. *)

LEMMA CardinalityInstances ==
  \A S : /\ Order!Cardinality(S) = Cardinality(S) /\ OrderLemmas!Cardinality(S) = Cardinality(S)
         /\ Poisson!Cardinality(S) = Cardinality(S) /\ PoissonLemmas!Cardinality(S) = Cardinality(S)
         /\ OrderLemmas!IsFiniteSet(S) <=> IsFiniteSet(S)
         /\ PoissonLemmas!IsFiniteSet(S) <=> IsFiniteSet(S)
<1>1. \A S : Order!Cardinality(S) = Cardinality(S)
  BY DEF Order!Cardinality, Cardinality
<1>2. \A S : OrderLemmas!Cardinality(S) = Cardinality(S)
  BY DEF OrderLemmas!Cardinality, Cardinality
<1>3. \A S : Poisson!Cardinality(S) = Cardinality(S)
  BY DEF Poisson!Cardinality, Cardinality
<1>4. \A S : PoissonLemmas!Cardinality(S) = Cardinality(S)
  BY DEF PoissonLemmas!Cardinality, Cardinality
<1>5. \A S : OrderLemmas!IsFiniteSet(S) <=> IsFiniteSet(S)
  BY DEF OrderLemmas!IsFiniteSet, IsFiniteSet
<1>6. \A S : PoissonLemmas!IsFiniteSet(S) <=> IsFiniteSet(S)
  BY DEF PoissonLemmas!IsFiniteSet, IsFiniteSet
<1>7. QED BY <1>1, <1>2, <1>3, <1>4, <1>5, <1>6

LEMMA OrderOperators ==
  /\ Order!Streams = Streams /\ OrderLemmas!Streams = Streams
  /\ Order!StreamState = OrderLemmas!StreamState
  /\ Order!LastLowerBound = OrderLemmas!LastLowerBound
  /\ \A s : Order!PatternEnd(s) = OrderLemmas!PatternEnd(s)
  /\ \A st : Order!StillHaving(st) <=> OrderLemmas!StillHaving(st)
  /\ \A st : Order!SetFirst(st) = OrderLemmas!SetFirst(st)
  /\ \A s, st : Order!NextDraws(s, st) = OrderLemmas!NextDraws(s, st)
  /\ \A s, d : Order!RunsOffPattern(s, d) <=> OrderLemmas!RunsOffPattern(s, d)
  /\ \A s, d : Order!RequestTime(s, d) = OrderLemmas!RequestTime(s, d)
  /\ \A st, d : Order!AfterRequest(st, d) = OrderLemmas!AfterRequest(st, d)
  /\ \A s, st, d : Order!GenerateNextRequest(s, st, d) <=> OrderLemmas!GenerateNextRequest(s, st, d)
  /\ Order!FirstRequestOfStream <=> OrderLemmas!FirstRequestOfStream
<1>1. Order!Streams = Streams /\ OrderLemmas!Streams = Streams
  BY DEF Order!Streams, OrderLemmas!Streams, Streams
<1>2. Order!StreamState = OrderLemmas!StreamState
  BY DEF Order!StreamState, OrderLemmas!StreamState
<1>3. Order!LastLowerBound = OrderLemmas!LastLowerBound
  BY DEF Order!LastLowerBound, OrderLemmas!LastLowerBound
<1>4. \A s : Order!PatternEnd(s) = OrderLemmas!PatternEnd(s)
  BY DEF Order!PatternEnd, OrderLemmas!PatternEnd
<1>5. \A st : Order!StillHaving(st) <=> OrderLemmas!StillHaving(st)
  BY DEF Order!StillHaving, OrderLemmas!StillHaving, Order!StatisticsOrder, OrderLemmas!StatisticsOrder,
         Order!Remaining, OrderLemmas!Remaining
<1>6. \A st : Order!SetFirst(st) = OrderLemmas!SetFirst(st)
  BY DEF Order!SetFirst, OrderLemmas!SetFirst
<1>7. \A dist, key : Order!GetValue(dist, key) = OrderLemmas!GetValue(dist, key)
  BY DEF Order!GetValue, OrderLemmas!GetValue, Order!CumAbove, OrderLemmas!CumAbove, Order!Min, OrderLemmas!Min,
         Order!Interpolate, OrderLemmas!Interpolate
<1>8. \A s, st : Order!NextDraws(s, st) = OrderLemmas!NextDraws(s, st)
  <2>1. \A s, st : Order!ResumeAt(s, st) = OrderLemmas!ResumeAt(s, st)
    BY <1>7 DEF Order!ResumeAt, OrderLemmas!ResumeAt
  <2>2. \A s, st : Order!Horizon(s, st) = OrderLemmas!Horizon(s, st)
    BY <1>3, <1>4, <2>1 DEF Order!Horizon, OrderLemmas!Horizon, Order!HasLastBound, OrderLemmas!HasLastBound
  <2>3. \A dist, key : /\ Order!InSupport(dist, key) <=> OrderLemmas!InSupport(dist, key)
                       /\ Order!HasDensity(dist, key) <=> OrderLemmas!HasDensity(dist, key)
    BY DEF Order!InSupport, OrderLemmas!InSupport, Order!HasDensity, OrderLemmas!HasDensity,
           Order!ValueAbove, OrderLemmas!ValueAbove, Order!Min, OrderLemmas!Min
  <2>4. \A s, st : Order!NextArrivals(s, st) = OrderLemmas!NextArrivals(s, st)
    BY <1>3, <2>1, <2>2, <2>3 DEF Order!NextArrivals, OrderLemmas!NextArrivals
  <2>5. \A st : Order!NextCums(st) = OrderLemmas!NextCums(st)
    BY DEF Order!NextCums, OrderLemmas!NextCums, Order!Remaining, OrderLemmas!Remaining
  <2>6. QED BY <2>4, <2>5 DEF Order!NextDraws, OrderLemmas!NextDraws, Order!StatisticsOrder,
                              OrderLemmas!StatisticsOrder
<1>9. \A s, d : Order!RunsOffPattern(s, d) <=> OrderLemmas!RunsOffPattern(s, d)
  BY <1>3, <1>4 DEF Order!RunsOffPattern, OrderLemmas!RunsOffPattern, Order!PoissonProcess,
                    OrderLemmas!PoissonProcess
<1>10. \A s, d : Order!RequestTime(s, d) = OrderLemmas!RequestTime(s, d)
  BY <1>3, <1>7 DEF Order!RequestTime, OrderLemmas!RequestTime, Order!Convert, OrderLemmas!Convert,
                    Order!Offset, OrderLemmas!Offset, Order!StatisticsOrder, OrderLemmas!StatisticsOrder
<1>11. \A st, d : Order!AfterRequest(st, d) = OrderLemmas!AfterRequest(st, d)
  BY <1>3 DEF Order!AfterRequest, OrderLemmas!AfterRequest, Order!AfterOrderStatistic,
              OrderLemmas!AfterOrderStatistic, Order!AfterPoisson, OrderLemmas!AfterPoisson,
              Order!StatisticsOrder, OrderLemmas!StatisticsOrder
<1>12. \A s, st, d : Order!GenerateNextRequest(s, st, d) <=> OrderLemmas!GenerateNextRequest(s, st, d)
  <2>1. \A s, t, pref : Order!IsBeforeDeparture(s, t, pref) <=> OrderLemmas!IsBeforeDeparture(s, t, pref)
    BY DEF Order!IsBeforeDeparture, OrderLemmas!IsBeforeDeparture
  <2>2. \A k, t : Order!AddEvent(k, t) <=> OrderLemmas!AddEvent(k, t)
    <3>1. \A q : Order!Stamps(q) = OrderLemmas!Stamps(q)
      BY DEF Order!Stamps, OrderLemmas!Stamps
    <3>2. \A q, t : Order!FreeStamps(q, t) = OrderLemmas!FreeStamps(q, t)
      BY <3>1, CardinalityInstances DEF Order!FreeStamps, OrderLemmas!FreeStamps
    <3>3. QED BY <3>2 DEF Order!AddEvent, OrderLemmas!AddEvent
  <2>3. \A n : Order!UpdateStatus(n) <=> OrderLemmas!UpdateStatus(n)
    BY DEF Order!UpdateStatus, OrderLemmas!UpdateStatus
  <2>4. QED BY <1>10, <1>11, <2>1, <2>2, <2>3 DEF Order!GenerateNextRequest, OrderLemmas!GenerateNextRequest
<1>13. Order!FirstRequestOfStream <=> OrderLemmas!FirstRequestOfStream
  BY <1>5, <1>6, <1>8, <1>9, <1>12 DEF Order!FirstRequestOfStream, OrderLemmas!FirstRequestOfStream
<1>14. QED BY <1>1, <1>2, <1>3, <1>4, <1>5, <1>6, <1>8, <1>9, <1>10, <1>11, <1>12, <1>13

LEMMA PoissonOperators ==
  /\ Poisson!Streams = Streams /\ PoissonLemmas!Streams = Streams
  /\ Poisson!StreamState = PoissonLemmas!StreamState
  /\ Poisson!LastLowerBound = PoissonLemmas!LastLowerBound
  /\ \A s : Poisson!PatternEnd(s) = PoissonLemmas!PatternEnd(s)
  /\ \A st : Poisson!StillHaving(st) <=> PoissonLemmas!StillHaving(st)
  /\ \A st : Poisson!SetFirst(st) = PoissonLemmas!SetFirst(st)
  /\ \A s, st : Poisson!NextDraws(s, st) = PoissonLemmas!NextDraws(s, st)
  /\ \A s, d : Poisson!RunsOffPattern(s, d) <=> PoissonLemmas!RunsOffPattern(s, d)
  /\ \A s, d : Poisson!RequestTime(s, d) = PoissonLemmas!RequestTime(s, d)
  /\ \A st, d : Poisson!AfterRequest(st, d) = PoissonLemmas!AfterRequest(st, d)
  /\ \A s, st, d : Poisson!GenerateNextRequest(s, st, d) <=> PoissonLemmas!GenerateNextRequest(s, st, d)
  /\ Poisson!FirstRequestOfStream <=> PoissonLemmas!FirstRequestOfStream
<1>1. Poisson!Streams = Streams /\ PoissonLemmas!Streams = Streams
  BY DEF Poisson!Streams, PoissonLemmas!Streams, Streams
<1>2. Poisson!StreamState = PoissonLemmas!StreamState
  BY DEF Poisson!StreamState, PoissonLemmas!StreamState
<1>3. Poisson!LastLowerBound = PoissonLemmas!LastLowerBound
  BY DEF Poisson!LastLowerBound, PoissonLemmas!LastLowerBound
<1>4. \A s : Poisson!PatternEnd(s) = PoissonLemmas!PatternEnd(s)
  BY DEF Poisson!PatternEnd, PoissonLemmas!PatternEnd
<1>5. \A st : Poisson!StillHaving(st) <=> PoissonLemmas!StillHaving(st)
  BY DEF Poisson!StillHaving, PoissonLemmas!StillHaving, Poisson!StatisticsOrder, PoissonLemmas!StatisticsOrder,
         Poisson!Remaining, PoissonLemmas!Remaining
<1>6. \A st : Poisson!SetFirst(st) = PoissonLemmas!SetFirst(st)
  BY DEF Poisson!SetFirst, PoissonLemmas!SetFirst
<1>7. \A dist, key : Poisson!GetValue(dist, key) = PoissonLemmas!GetValue(dist, key)
  BY DEF Poisson!GetValue, PoissonLemmas!GetValue, Poisson!CumAbove, PoissonLemmas!CumAbove, Poisson!Min, PoissonLemmas!Min,
         Poisson!Interpolate, PoissonLemmas!Interpolate
<1>8. \A s, st : Poisson!NextDraws(s, st) = PoissonLemmas!NextDraws(s, st)
  <2>1. \A s, st : Poisson!ResumeAt(s, st) = PoissonLemmas!ResumeAt(s, st)
    BY <1>7 DEF Poisson!ResumeAt, PoissonLemmas!ResumeAt
  <2>2. \A s, st : Poisson!Horizon(s, st) = PoissonLemmas!Horizon(s, st)
    BY <1>3, <1>4, <2>1 DEF Poisson!Horizon, PoissonLemmas!Horizon, Poisson!HasLastBound, PoissonLemmas!HasLastBound
  <2>3. \A dist, key : /\ Poisson!InSupport(dist, key) <=> PoissonLemmas!InSupport(dist, key)
                       /\ Poisson!HasDensity(dist, key) <=> PoissonLemmas!HasDensity(dist, key)
    BY DEF Poisson!InSupport, PoissonLemmas!InSupport, Poisson!HasDensity, PoissonLemmas!HasDensity,
           Poisson!ValueAbove, PoissonLemmas!ValueAbove, Poisson!Min, PoissonLemmas!Min
  <2>4. \A s, st : Poisson!NextArrivals(s, st) = PoissonLemmas!NextArrivals(s, st)
    BY <1>3, <2>1, <2>2, <2>3 DEF Poisson!NextArrivals, PoissonLemmas!NextArrivals
  <2>5. \A st : Poisson!NextCums(st) = PoissonLemmas!NextCums(st)
    BY DEF Poisson!NextCums, PoissonLemmas!NextCums, Poisson!Remaining, PoissonLemmas!Remaining
  <2>6. QED BY <2>4, <2>5 DEF Poisson!NextDraws, PoissonLemmas!NextDraws, Poisson!StatisticsOrder,
                              PoissonLemmas!StatisticsOrder
<1>9. \A s, d : Poisson!RunsOffPattern(s, d) <=> PoissonLemmas!RunsOffPattern(s, d)
  BY <1>3, <1>4 DEF Poisson!RunsOffPattern, PoissonLemmas!RunsOffPattern, Poisson!PoissonProcess,
                    PoissonLemmas!PoissonProcess
<1>10. \A s, d : Poisson!RequestTime(s, d) = PoissonLemmas!RequestTime(s, d)
  BY <1>3, <1>7 DEF Poisson!RequestTime, PoissonLemmas!RequestTime, Poisson!Convert, PoissonLemmas!Convert,
                    Poisson!Offset, PoissonLemmas!Offset, Poisson!StatisticsOrder, PoissonLemmas!StatisticsOrder
<1>11. \A st, d : Poisson!AfterRequest(st, d) = PoissonLemmas!AfterRequest(st, d)
  BY <1>3 DEF Poisson!AfterRequest, PoissonLemmas!AfterRequest, Poisson!AfterOrderStatistic,
              PoissonLemmas!AfterOrderStatistic, Poisson!AfterPoisson, PoissonLemmas!AfterPoisson,
              Poisson!StatisticsOrder, PoissonLemmas!StatisticsOrder
<1>12. \A s, st, d : Poisson!GenerateNextRequest(s, st, d) <=> PoissonLemmas!GenerateNextRequest(s, st, d)
  <2>1. \A s, t, pref : Poisson!IsBeforeDeparture(s, t, pref) <=> PoissonLemmas!IsBeforeDeparture(s, t, pref)
    BY DEF Poisson!IsBeforeDeparture, PoissonLemmas!IsBeforeDeparture
  <2>2. \A k, t : Poisson!AddEvent(k, t) <=> PoissonLemmas!AddEvent(k, t)
    <3>1. \A q : Poisson!Stamps(q) = PoissonLemmas!Stamps(q)
      BY DEF Poisson!Stamps, PoissonLemmas!Stamps
    <3>2. \A q, t : Poisson!FreeStamps(q, t) = PoissonLemmas!FreeStamps(q, t)
      BY <3>1, CardinalityInstances DEF Poisson!FreeStamps, PoissonLemmas!FreeStamps
    <3>3. QED BY <3>2 DEF Poisson!AddEvent, PoissonLemmas!AddEvent
  <2>3. \A n : Poisson!UpdateStatus(n) <=> PoissonLemmas!UpdateStatus(n)
    BY DEF Poisson!UpdateStatus, PoissonLemmas!UpdateStatus
  <2>4. QED BY <1>10, <1>11, <2>1, <2>2, <2>3 DEF Poisson!GenerateNextRequest, PoissonLemmas!GenerateNextRequest
<1>13. Poisson!FirstRequestOfStream <=> PoissonLemmas!FirstRequestOfStream
  BY <1>5, <1>6, <1>8, <1>9, <1>12 DEF Poisson!FirstRequestOfStream, PoissonLemmas!FirstRequestOfStream
<1>14. QED BY <1>1, <1>2, <1>3, <1>4, <1>5, <1>6, <1>8, <1>9, <1>10, <1>11, <1>12, <1>13

(* What DemandManager assumes of the constants holds. *)
LEMMA OrderAssumptions ==
  /\ OrderLemmas!StreamsAssumption /\ OrderLemmas!MethodAssumption /\ OrderLemmas!UnitsAssumption
  /\ OrderLemmas!InputAssumption /\ OrderLemmas!ArrivalAssumption /\ OrderLemmas!GridAssumption
  /\ OrderLemmas!MeanAssumption
<1>1. OrderLemmas!StreamsAssumption /\ OrderLemmas!UnitsAssumption
  BY ManagerAssumption DEF OrderLemmas!StreamsAssumption, OrderLemmas!UnitsAssumption
<1>2. OrderLemmas!MethodAssumption
  BY DEF OrderLemmas!MethodAssumption, OrderLemmas!StatisticsOrder, OrderLemmas!PoissonProcess
<1>3. OrderLemmas!InputAssumption /\ OrderLemmas!GridAssumption
  BY ManagerAssumption, OrderOperators DEF OrderLemmas!InputAssumption, OrderLemmas!GridAssumption
<1>4. OrderLemmas!ArrivalAssumption
  BY ManagerAssumption, OrderOperators DEF OrderLemmas!ArrivalAssumption
<1>5. OrderLemmas!MeanAssumption
  <2>1. Order!SumOver(Mean) = OrderLemmas!SumOver(Mean)
    BY DEF Order!SumOver, OrderLemmas!SumOver, Order!SumFunction, OrderLemmas!SumFunction,
           Order!SumFunctionOnSet, OrderLemmas!SumFunctionOnSet, Order!FoldFunctionOnSet,
           OrderLemmas!FoldFunctionOnSet, Order!MapThenFoldSet, OrderLemmas!MapThenFoldSet
  <2>2. QED BY <2>1, ManagerAssumption DEF OrderLemmas!MeanAssumption
<1>6. QED BY <1>1, <1>2, <1>3, <1>4, <1>5

(* What DemandManager assumes of the constants holds. *)
LEMMA PoissonAssumptions ==
  /\ PoissonLemmas!StreamsAssumption /\ PoissonLemmas!MethodAssumption /\ PoissonLemmas!UnitsAssumption
  /\ PoissonLemmas!InputAssumption /\ PoissonLemmas!ArrivalAssumption /\ PoissonLemmas!GridAssumption
  /\ PoissonLemmas!MeanAssumption
<1>1. PoissonLemmas!StreamsAssumption /\ PoissonLemmas!UnitsAssumption
  BY ManagerAssumption DEF PoissonLemmas!StreamsAssumption, PoissonLemmas!UnitsAssumption
<1>2. PoissonLemmas!MethodAssumption
  BY DEF PoissonLemmas!MethodAssumption, PoissonLemmas!StatisticsOrder, PoissonLemmas!PoissonProcess
<1>3. PoissonLemmas!InputAssumption /\ PoissonLemmas!GridAssumption
  BY ManagerAssumption, PoissonOperators DEF PoissonLemmas!InputAssumption, PoissonLemmas!GridAssumption
<1>4. PoissonLemmas!ArrivalAssumption
  BY ManagerAssumption, PoissonOperators DEF PoissonLemmas!ArrivalAssumption
<1>5. PoissonLemmas!MeanAssumption
  <2>1. Order!SumOver(Mean) = PoissonLemmas!SumOver(Mean)
    BY DEF Order!SumOver, PoissonLemmas!SumOver, Order!SumFunction, PoissonLemmas!SumFunction,
           Order!SumFunctionOnSet, PoissonLemmas!SumFunctionOnSet, Order!FoldFunctionOnSet,
           PoissonLemmas!FoldFunctionOnSet, Order!MapThenFoldSet, PoissonLemmas!MapThenFoldSet
  <2>2. QED BY <2>1, ManagerAssumption DEF PoissonLemmas!MeanAssumption
<1>6. QED BY <1>1, <1>2, <1>3, <1>4, <1>5

(* The other operators of the manager, those that do not depend on the method. *)
LEMMA ManagerOperators ==
  /\ Order!StreamState = PoissonLemmas!StreamState
  /\ \A st : Order!SetFirst(st) = PoissonLemmas!SetFirst(st)
  /\ Order!ManagerInit <=> OrderLemmas!ManagerInit
  /\ Order!FirstRequestsDone <=> OrderLemmas!FirstRequestsDone
  /\ \A e : Order!PopEvent(e) <=> OrderLemmas!PopEvent(e)
  /\ Order!ManagerReset <=> OrderLemmas!ManagerReset
<1>1. Order!StreamState = PoissonLemmas!StreamState
  BY DEF Order!StreamState, PoissonLemmas!StreamState
<1>2. \A st : Order!SetFirst(st) = PoissonLemmas!SetFirst(st)
  BY DEF Order!SetFirst, PoissonLemmas!SetFirst
<1>3. Order!ManagerInit <=> OrderLemmas!ManagerInit
  <2>1. Order!SumOver(Mean) = OrderLemmas!SumOver(Mean)
    BY DEF Order!SumOver, OrderLemmas!SumOver, Order!SumFunction, OrderLemmas!SumFunction,
           Order!SumFunctionOnSet, OrderLemmas!SumFunctionOnSet, Order!FoldFunctionOnSet,
           OrderLemmas!FoldFunctionOnSet, Order!MapThenFoldSet, OrderLemmas!MapThenFoldSet
  <2>2. \A n : Order!NewStream(n) = OrderLemmas!NewStream(n)
    BY DEF Order!NewStream, OrderLemmas!NewStream
  <2>3. QED BY <2>1, <2>2, OrderOperators DEF Order!ManagerInit, OrderLemmas!ManagerInit
<1>4. Order!FirstRequestsDone <=> OrderLemmas!FirstRequestsDone
  BY DEF Order!FirstRequestsDone, OrderLemmas!FirstRequestsDone, Order!UpdateStatus,
         OrderLemmas!UpdateStatus
<1>5. \A e : Order!PopEvent(e) <=> OrderLemmas!PopEvent(e)
  BY DEF Order!PopEvent, OrderLemmas!PopEvent, Order!IsEarliest, OrderLemmas!IsEarliest
<1>6. Order!ManagerReset <=> OrderLemmas!ManagerReset
  BY OrderOperators DEF Order!ManagerReset, OrderLemmas!ManagerReset, Order!ResetStream,
                        OrderLemmas!ResetStream, Order!ResetQueue, OrderLemmas!ResetQueue
<1>7. QED BY <1>1, <1>2, <1>3, <1>4, <1>5, <1>6

-----------------------------------------------------------------------------
(* The types of the manager, and the balance of the requests of a stream. *)

ManagerTyped ==
  /\ stream \in [Streams -> Order!StreamState]
  /\ queue \in SUBSET [key : Int, time : Int, stamp : Int] /\ IsFiniteSet(queue)
  /\ status \in [expected : Int, current : Nat, actual : Int]
  /\ itStream \in 1 .. NbStreams + 1 /\ sumActual \in Int
  /\ dropped \in [Streams -> Nat] /\ forgotten \in [Streams -> Nat]

Counted(st) == st.soFar + (IF st.still THEN 0 ELSE 1)
Taken(s) == Counted(stream[s]) - Cardinality(Waiting(s)) - dropped[s]

LEMMA BalanceInstances ==
  /\ (ManagerTyped <=> OrderLemmas!ManagerTyped) /\ (ManagerTyped <=> PoissonLemmas!ManagerTyped)
  /\ (ManagerTyped' <=> OrderLemmas!ManagerTyped') /\ (ManagerTyped' <=> PoissonLemmas!ManagerTyped')
  /\ \A st : Counted(st) = OrderLemmas!Counted(st) /\ Counted(st) = PoissonLemmas!Counted(st)
  /\ \A s : Taken(s) = OrderLemmas!Taken(s) /\ Taken(s) = PoissonLemmas!Taken(s)
  /\ \A s : Taken(s)' = OrderLemmas!Taken(s)' /\ Taken(s)' = PoissonLemmas!Taken(s)'
<1>1. /\ OrderLemmas!StreamState = Order!StreamState /\ PoissonLemmas!StreamState = Order!StreamState
      /\ OrderLemmas!Streams = Streams /\ PoissonLemmas!Streams = Streams
  BY OrderOperators, PoissonOperators, ManagerOperators
<1>2. (ManagerTyped <=> OrderLemmas!ManagerTyped) /\ (ManagerTyped <=> PoissonLemmas!ManagerTyped)
  BY <1>1, CardinalityInstances
     DEF ManagerTyped, OrderLemmas!ManagerTyped, PoissonLemmas!ManagerTyped
<1>3. (ManagerTyped' <=> OrderLemmas!ManagerTyped') /\ (ManagerTyped' <=> PoissonLemmas!ManagerTyped')
  BY <1>1, CardinalityInstances
     DEF ManagerTyped, OrderLemmas!ManagerTyped, PoissonLemmas!ManagerTyped
<1>4. \A st : Counted(st) = OrderLemmas!Counted(st) /\ Counted(st) = PoissonLemmas!Counted(st)
  BY DEF Counted, OrderLemmas!Counted, PoissonLemmas!Counted
<1>5. \A s : Taken(s) = OrderLemmas!Taken(s) /\ Taken(s) = PoissonLemmas!Taken(s)
  BY <1>4, CardinalityInstances
     DEF Taken, OrderLemmas!Taken, PoissonLemmas!Taken, Waiting, OrderLemmas!WaitingOf,
         PoissonLemmas!WaitingOf
<1>6. \A s : Taken(s)' = OrderLemmas!Taken(s)' /\ Taken(s)' = PoissonLemmas!Taken(s)'
  BY <1>4, CardinalityInstances
     DEF Taken, OrderLemmas!Taken, PoissonLemmas!Taken, Waiting, OrderLemmas!WaitingOf,
         PoissonLemmas!WaitingOf
<1>7. QED BY <1>2, <1>3, <1>4, <1>5, <1>6

-----------------------------------------------------------------------------
(* The manager under the method of the call. *)

Methods == {"STA_ORD", "POI_PRO"}

(* A Poisson stream that was started and goes on has not reached the end of its
   pattern. *)
InPattern(s, st) ==
  st.first = FALSE /\ st.still = TRUE =>
    st.last # Order!LastLowerBound /\ st.last < Order!PatternEnd(s)

(* The date-time of the point a stream has reached, with either method. *)
OrderTime(s, st) == Order!RequestTime(s, st.cum)
PoissonTime(s, st) == Poisson!RequestTime(s, st.last)

LEMMA OrderRequest ==
  ASSUME NEW s \in Streams, NEW st \in Order!StreamState, Order!StillHaving(st),
         NEW d \in Order!NextDraws(s, st)
  PROVE  /\ d \in Int /\ Order!RequestTime(s, d) \in Int
         /\ Order!AfterRequest(st, d) \in Order!StreamState
         /\ Counted(Order!AfterRequest(st, d)) = Counted(st) + 1
         /\ Order!AfterRequest(st, d).last = st.last /\ Order!AfterRequest(st, d).first = st.first
         /\ Order!AfterRequest(st, d).still = st.still
         /\ OrderTime(s, Order!AfterRequest(st, d)) = Order!RequestTime(s, d)
         /\ OrderTime(s, st) <= Order!RequestTime(s, d)
<1>1. /\ s \in OrderLemmas!Streams /\ st \in OrderLemmas!StreamState
      /\ OrderLemmas!StillHaving(st) /\ d \in OrderLemmas!NextDraws(s, st)
  BY OrderOperators
<1>2. d \in Int /\ st.cum < d
  BY <1>1, OrderLemmas!NextDrawsType, OrderAssumptions DEF OrderLemmas!StatisticsOrder
<1>3. OrderLemmas!RequestTime(s, d) \in Int
  BY <1>1, <1>2, OrderLemmas!RequestTimeType, OrderAssumptions
<1>4. OrderLemmas!AfterRequest(st, d) \in OrderLemmas!StreamState
  BY <1>1, OrderLemmas!AfterRequestType, OrderAssumptions
<1>5. OrderLemmas!Counted(OrderLemmas!AfterRequest(st, d)) = OrderLemmas!Counted(st) + 1
  BY <1>1, OrderLemmas!AfterRequestCounted, OrderAssumptions
<1>6. /\ Order!AfterRequest(st, d).last = st.last /\ Order!AfterRequest(st, d).first = st.first
      /\ Order!AfterRequest(st, d).still = st.still /\ Order!AfterRequest(st, d).cum = d
  BY DEF Order!AfterRequest, Order!AfterOrderStatistic, Order!StatisticsOrder, Order!StreamState
<1>7. OrderLemmas!RequestTime(s, st.cum) <= OrderLemmas!RequestTime(s, d)
  <2>1. st.cum \in Int
    BY <1>1, ManagerAssumption, OrderOperators DEF Order!StreamState
  <2>2. st.cum <= d
    BY <1>2, <2>1
  <2>3. QED BY <1>1, <1>2, <2>1, <2>2, OrderLemmas!RequestTimeMonotone, OrderAssumptions
            DEF OrderLemmas!StatisticsOrder
<1>8. /\ Order!RequestTime(s, d) = OrderLemmas!RequestTime(s, d)
      /\ Order!RequestTime(s, st.cum) = OrderLemmas!RequestTime(s, st.cum)
      /\ Order!AfterRequest(st, d) = OrderLemmas!AfterRequest(st, d)
      /\ OrderLemmas!StreamState = Order!StreamState
  BY OrderOperators
<1>9. Counted(Order!AfterRequest(st, d)) = Counted(st) + 1
  BY <1>5, <1>8, BalanceInstances
<1>10. QED BY <1>2, <1>3, <1>4, <1>6, <1>7, <1>8, <1>9 DEF OrderTime

LEMMA PoissonRequest ==
  ASSUME NEW s \in Streams, NEW st \in Order!StreamState, Poisson!StillHaving(st),
         NEW d \in Poisson!NextDraws(s, st)
  PROVE  /\ d \in Int /\ Poisson!RequestTime(s, d) \in Int
         /\ Poisson!AfterRequest(st, d) \in Order!StreamState
         /\ Counted(Poisson!AfterRequest(st, d)) = Counted(st) + 1
         /\ Poisson!AfterRequest(st, d).cum = st.cum /\ Poisson!AfterRequest(st, d).first = FALSE
         /\ PoissonTime(s, Poisson!AfterRequest(st, d)) = Poisson!RequestTime(s, d)
         /\ ~Poisson!RunsOffPattern(s, d) => InPattern(s, Poisson!AfterRequest(st, d))
         /\ st.first = FALSE /\ InPattern(s, st) =>
              PoissonTime(s, st) <= Poisson!RequestTime(s, d)
<1>1. /\ s \in PoissonLemmas!Streams /\ st \in PoissonLemmas!StreamState
      /\ PoissonLemmas!StillHaving(st) /\ d \in PoissonLemmas!NextDraws(s, st)
  BY PoissonOperators, ManagerOperators
<1>2. d \in Int
  BY <1>1, PoissonLemmas!NextDrawsType, PoissonAssumptions
<1>3. PoissonLemmas!RequestTime(s, d) \in Int
  BY <1>1, <1>2, PoissonLemmas!RequestTimeType, PoissonAssumptions
<1>4. PoissonLemmas!AfterRequest(st, d) \in PoissonLemmas!StreamState
  BY <1>1, PoissonLemmas!AfterRequestType, PoissonAssumptions
<1>5. PoissonLemmas!Counted(PoissonLemmas!AfterRequest(st, d)) = PoissonLemmas!Counted(st) + 1
  BY <1>1, PoissonLemmas!AfterRequestCounted, PoissonAssumptions
<1>6. /\ Poisson!AfterRequest(st, d).cum = st.cum /\ Poisson!AfterRequest(st, d).first = FALSE
      /\ Poisson!AfterRequest(st, d).last = d
  BY DEF Poisson!AfterRequest, Poisson!AfterPoisson, Poisson!StatisticsOrder, Order!StreamState
<1>7. /\ Poisson!RequestTime(s, d) = PoissonLemmas!RequestTime(s, d)
      /\ Poisson!RequestTime(s, st.last) = PoissonLemmas!RequestTime(s, st.last)
      /\ Poisson!AfterRequest(st, d) = PoissonLemmas!AfterRequest(st, d)
      /\ PoissonLemmas!StreamState = Order!StreamState
      /\ Poisson!RunsOffPattern(s, d) <=> PoissonLemmas!RunsOffPattern(s, d)
  BY PoissonOperators, ManagerOperators
<1>8. Counted(Poisson!AfterRequest(st, d)) = Counted(st) + 1
  BY <1>5, <1>7, BalanceInstances
<1>9. /\ Order!LastLowerBound = PoissonLemmas!LastLowerBound
      /\ Order!PatternEnd(s) = PoissonLemmas!PatternEnd(s)
  BY DEF Order!LastLowerBound, PoissonLemmas!LastLowerBound, Order!PatternEnd,
         PoissonLemmas!PatternEnd
<1>10. ~Poisson!RunsOffPattern(s, d) => InPattern(s, Poisson!AfterRequest(st, d))
  <2> HAVE ~Poisson!RunsOffPattern(s, d)
  <2>1. PoissonLemmas!Underway(s, PoissonLemmas!AfterRequest(st, d))
    BY <1>1, <1>7, PoissonLemmas!UnderwayAfter, PoissonAssumptions
  <2>2. QED BY <1>7, <1>9, <2>1 DEF PoissonLemmas!Underway, PoissonLemmas!PoissonProcess, InPattern
<1>11. st.first = FALSE /\ InPattern(s, st) => PoissonTime(s, st) <= Poisson!RequestTime(s, d)
  <2> HAVE st.first = FALSE /\ InPattern(s, st)
  <2>1. PoissonLemmas!Underway(s, st)
    BY <1>9 DEF PoissonLemmas!Underway, InPattern
  <2>2. PoissonLemmas!RequestTime(s, PoissonLemmas!HeadOf(st)) <= PoissonLemmas!RequestTime(s, d)
    BY <1>1, <2>1, PoissonLemmas!NextNotEarlier, PoissonAssumptions
  <2>3. PoissonLemmas!HeadOf(st) = st.last
    BY DEF PoissonLemmas!HeadOf, PoissonLemmas!StatisticsOrder
  <2>4. QED BY <1>7, <2>2, <2>3 DEF PoissonTime
<1>12. QED BY <1>2, <1>3, <1>4, <1>6, <1>7, <1>8, <1>10, <1>11 DEF PoissonTime

(* A generation keeps the types and the balance; what it queues is the request
   drawn. *)
LEMMA SessionGeneration ==
  ASSUME ManagerTyped, method \in Methods, NEW s \in Streams, NEW st \in Order!StreamState,
         StillHaving(st), Counted(st) = Counted(stream[s]),
         NEW d \in NextDraws(s, st), GenerateNextRequest(s, st, d),
         itStream' \in 1 .. NbStreams + 1, sumActual' \in Int, forgotten' = forgotten
  PROVE  /\ ManagerTyped'
         /\ \A r \in Streams : Taken(r)' = Taken(r)
         /\ stream' = [stream EXCEPT ![s] = AfterRequest(st, d)]
         /\ RequestTime(s, d) \in Int
         /\ \/ queue' = queue
            \/ \E x \in Int :
                 queue' = queue \cup {[key |-> s, time |-> RequestTime(s, d), stamp |-> x]}
<1>1. CASE method = "STA_ORD"
  <2>1. /\ Order!StillHaving(st) /\ d \in Order!NextDraws(s, st)
        /\ Order!GenerateNextRequest(s, st, d)
        /\ RequestTime(s, d) = Order!RequestTime(s, d) /\ AfterRequest(st, d) = Order!AfterRequest(st, d)
    BY <1>1 DEF StillHaving, NextDraws, GenerateNextRequest, RequestTime, AfterRequest
  <2>2. /\ OrderLemmas!ManagerTyped /\ s \in OrderLemmas!Streams /\ st \in OrderLemmas!StreamState
        /\ OrderLemmas!StillHaving(st) /\ d \in OrderLemmas!NextDraws(s, st)
        /\ OrderLemmas!GenerateNextRequest(s, st, d)
        /\ OrderLemmas!Counted(st) = OrderLemmas!Counted(stream[s])
    BY <2>1, OrderOperators, BalanceInstances
  <2>3. /\ OrderLemmas!ManagerTyped'
        /\ \A r \in OrderLemmas!Streams : OrderLemmas!Taken(r)' = OrderLemmas!Taken(r)
    BY <2>2, OrderLemmas!GenerationBalance, OrderAssumptions
  <2>4. /\ stream' = [stream EXCEPT ![s] = OrderLemmas!AfterRequest(st, d)]
        /\ OrderLemmas!RequestTime(s, d) \in Int
        /\ \/ queue' = queue
           \/ \E x \in Int :
                queue' = queue \cup {[key |-> s, time |-> OrderLemmas!RequestTime(s, d), stamp |-> x]}
    BY <2>2, OrderLemmas!Generation, OrderAssumptions
  <2>5. \A r \in Streams : Taken(r)' = Taken(r)
    BY <2>3, OrderOperators, BalanceInstances
  <2>6. QED BY <2>1, <2>3, <2>4, <2>5, OrderOperators, BalanceInstances
<1>2. CASE method = "POI_PRO"
  <2>1. /\ Poisson!StillHaving(st) /\ d \in Poisson!NextDraws(s, st)
        /\ Poisson!GenerateNextRequest(s, st, d)
        /\ RequestTime(s, d) = Poisson!RequestTime(s, d)
        /\ AfterRequest(st, d) = Poisson!AfterRequest(st, d)
    BY <1>2 DEF StillHaving, NextDraws, GenerateNextRequest, RequestTime, AfterRequest
  <2>2. /\ PoissonLemmas!ManagerTyped /\ s \in PoissonLemmas!Streams
        /\ st \in PoissonLemmas!StreamState
        /\ PoissonLemmas!StillHaving(st) /\ d \in PoissonLemmas!NextDraws(s, st)
        /\ PoissonLemmas!GenerateNextRequest(s, st, d)
        /\ PoissonLemmas!Counted(st) = PoissonLemmas!Counted(stream[s])
    BY <2>1, PoissonOperators, ManagerOperators, BalanceInstances
  <2>3. /\ PoissonLemmas!ManagerTyped'
        /\ \A r \in PoissonLemmas!Streams : PoissonLemmas!Taken(r)' = PoissonLemmas!Taken(r)
    BY <2>2, PoissonLemmas!GenerationBalance, PoissonAssumptions
  <2>4. /\ stream' = [stream EXCEPT ![s] = PoissonLemmas!AfterRequest(st, d)]
        /\ PoissonLemmas!RequestTime(s, d) \in Int
        /\ \/ queue' = queue
           \/ \E x \in Int :
                queue' = queue \cup {[key |-> s, time |-> PoissonLemmas!RequestTime(s, d), stamp |-> x]}
    BY <2>2, PoissonLemmas!Generation, PoissonAssumptions
  <2>5. \A r \in Streams : Taken(r)' = Taken(r)
    BY <2>3, PoissonOperators, BalanceInstances
  <2>6. QED BY <2>1, <2>3, <2>4, <2>5, PoissonOperators, BalanceInstances
<1>3. QED BY <1>1, <1>2 DEF Methods

-----------------------------------------------------------------------------
(* The invariant of a session. *)

SessionTyped ==
  /\ ManagerTyped
  /\ method \in Methods
  /\ pc \in {"idle", "first", "loop", "next", "aborted", "overrun"}
  /\ pc \in {"idle", "loop", "next", "aborted"} => itStream = 1
  /\ event \in [key : Int, time : Int, stamp : Int]
  /\ pc = "next" => event.key \in Streams
  /\ \A e \in queue : e.key \in Streams
  /\ popped \in [Streams -> Nat] /\ lost \in [Streams -> Nat] /\ failed \in Nat
  /\ used \subseteq Methods

Accounts == \A s \in Streams : Taken(s) = popped[s] + lost[s]

(* The requests of a stream that are live, and how many each state of a call
   allows: one a failed call, and one more once the first requests of this call
   have been generated for the stream. *)
LiveOf(s) == Cardinality(Waiting(s)) + (IF pc = "next" /\ event.key = s THEN 1 ELSE 0)
LiveBound ==
  \A s \in Streams :
    /\ LiveOf(s) <= 1 + failed
    /\ pc = "idle" \/ (pc = "first" /\ s >= itStream) => LiveOf(s) <= failed

(* The methods requests were generated with: that of the call once it has begun
   and, if no call failed, no other. *)
MethodsUsed ==
  /\ pc \in {"loop", "next"} \/ (pc = "first" /\ itStream > 1) => method \in used
  /\ failed = 0 => /\ pc = "idle" => used = {}
                   /\ pc \in {"first", "loop", "next"} => used \subseteq {method}

(* If no call failed, generateFirstRequests finds no request of the streams it
   has not reached. *)
NotYetReached ==
  failed = 0 /\ pc = "first" => \A e \in queue : e.key < itStream

(* The live requests: those of the queue and the one popped. *)
Live == queue \cup (IF pc = "next" THEN {event} ELSE {})

(* As long as every request had order statistics, none is later than the point
   its stream has reached, whatever failed. *)
BehindOrderStatistics ==
  "POI_PRO" \notin used =>
    \A e \in Live : e.time <= OrderTime(e.key, stream[e.key])

(* The same for Poisson processes, as long as no call failed: after a failure the
   process of a stream starts again behind the requests that wait. *)
BehindPoisson ==
  failed = 0 /\ "STA_ORD" \notin used =>
    \A e \in Live : /\ stream[e.key].first = FALSE
                    /\ e.time <= PoissonTime(e.key, stream[e.key])

SessionInv ==
  /\ SessionTyped /\ Accounts /\ LiveBound /\ CleanBetweenCalls
  /\ MethodsUsed /\ NotYetReached
  /\ \A s \in Streams : InPattern(s, stream[s])
  /\ BehindOrderStatistics /\ BehindPoisson
  /\ SanityFailsOnlyOnLeftovers

-----------------------------------------------------------------------------
(* A step of a stream. *)

(* The state of a stream, restarted by generateFirstRequests or not. *)
LEMMA StreamTypes ==
  ASSUME ManagerTyped, NEW s \in Streams
  PROVE  /\ stream[s] \in Order!StreamState /\ Order!SetFirst(stream[s]) \in Order!StreamState
         /\ Counted(Order!SetFirst(stream[s])) = Counted(stream[s])
         /\ Counted(stream[s]) \in Nat /\ Cardinality(Waiting(s)) \in Nat /\ dropped[s] \in Nat
         /\ OrderTime(s, stream[s]) \in Int /\ PoissonTime(s, stream[s]) \in Int
         /\ OrderTime(s, Order!SetFirst(stream[s])) = OrderTime(s, stream[s])
         /\ Order!SetFirst(stream[s]).first = TRUE
         /\ InPattern(s, Order!SetFirst(stream[s]))
<1>1. stream[s] \in Order!StreamState /\ dropped[s] \in Nat
  BY DEF ManagerTyped
<1>2. /\ Order!SetFirst(stream[s]) \in Order!StreamState
      /\ Order!SetFirst(stream[s]).first = TRUE
      /\ Order!SetFirst(stream[s]).cum = stream[s].cum
      /\ Order!SetFirst(stream[s]).soFar = stream[s].soFar
      /\ Order!SetFirst(stream[s]).still = stream[s].still
  BY <1>1 DEF Order!SetFirst, Order!StreamState
<1>3. /\ Counted(stream[s]) \in Nat
      /\ Counted(Order!SetFirst(stream[s])) = Counted(stream[s])
  BY <1>1, <1>2 DEF Counted, Order!StreamState
<1>4. Cardinality(Waiting(s)) \in Nat
  BY FS_CardinalityType, FS_Subset DEF Waiting, ManagerTyped
<1>5. OrderTime(s, stream[s]) \in Int
  <2>1. stream[s].cum \in Int
    BY <1>1, ManagerAssumption DEF Order!StreamState
  <2>2. OrderLemmas!RequestTime(s, stream[s].cum) \in Int
    BY <2>1, OrderOperators, OrderLemmas!RequestTimeType, OrderAssumptions
  <2>3. QED BY <2>2, OrderOperators DEF OrderTime
<1>6. PoissonTime(s, stream[s]) \in Int
  <2>1. stream[s].last \in Int
    BY <1>1 DEF Order!StreamState
  <2>2. PoissonLemmas!RequestTime(s, stream[s].last) \in Int
    BY <2>1, PoissonOperators, PoissonLemmas!RequestTimeType, PoissonAssumptions
  <2>3. QED BY <2>2, PoissonOperators DEF PoissonTime
<1>7. QED BY <1>1, <1>2, <1>3, <1>4, <1>5, <1>6 DEF OrderTime, InPattern

(* A request drawn moves its stream on, and no other: under order statistics the
   point reached never goes back, even when the stream was restarted; a Poisson
   process never goes back unless it was. *)
LEMMA StreamStep ==
  ASSUME ManagerTyped, method \in Methods, NEW s \in Streams, NEW st,
         st = stream[s] \/ st = Order!SetFirst(stream[s]),
         StillHaving(st), NEW d \in NextDraws(s, st), ~RunsOffPattern(s, d),
         \A r \in Streams : InPattern(r, stream[r]),
         stream' = [stream EXCEPT ![s] = AfterRequest(st, d)]
  PROVE  /\ d \in Int /\ RequestTime(s, d) \in Int
         /\ AfterRequest(st, d) \in Order!StreamState
         /\ Counted(AfterRequest(st, d)) = Counted(stream[s]) + 1
         /\ \A r \in Streams : InPattern(r, stream'[r])
         /\ method = "STA_ORD" =>
              /\ OrderTime(s, stream[s]) <= RequestTime(s, d)
              /\ OrderTime(s, stream'[s]) = RequestTime(s, d)
         /\ method = "POI_PRO" =>
              /\ stream'[s].first = FALSE
              /\ PoissonTime(s, stream'[s]) = RequestTime(s, d)
              /\ st = stream[s] /\ stream[s].first = FALSE =>
                   PoissonTime(s, stream[s]) <= RequestTime(s, d)
<1>1. /\ st \in Order!StreamState /\ Counted(st) = Counted(stream[s])
      /\ OrderTime(s, st) = OrderTime(s, stream[s]) /\ InPattern(s, st)
  BY StreamTypes
<1>2. /\ stream'[s] = AfterRequest(st, d)
      /\ \A r \in Streams \ {s} : stream'[r] = stream[r]
  BY DEF ManagerTyped
<1>3. CASE method = "STA_ORD"
  <2>1. /\ Order!StillHaving(st) /\ d \in Order!NextDraws(s, st)
        /\ RequestTime(s, d) = Order!RequestTime(s, d)
        /\ AfterRequest(st, d) = Order!AfterRequest(st, d)
    BY <1>3 DEF StillHaving, NextDraws, RequestTime, AfterRequest
  <2>2. /\ d \in Int /\ RequestTime(s, d) \in Int
        /\ AfterRequest(st, d) \in Order!StreamState
        /\ Counted(AfterRequest(st, d)) = Counted(stream[s]) + 1
        /\ AfterRequest(st, d).last = st.last /\ AfterRequest(st, d).first = st.first
        /\ AfterRequest(st, d).still = st.still
        /\ OrderTime(s, AfterRequest(st, d)) = RequestTime(s, d)
        /\ OrderTime(s, stream[s]) <= RequestTime(s, d)
    BY <1>1, <2>1, OrderRequest
  <2>3. InPattern(s, stream'[s])
    BY <1>1, <1>2, <2>2 DEF InPattern
  <2>4. QED BY <1>2, <1>3, <2>2, <2>3
<1>4. CASE method = "POI_PRO"
  <2>1. /\ Poisson!StillHaving(st) /\ d \in Poisson!NextDraws(s, st)
        /\ RequestTime(s, d) = Poisson!RequestTime(s, d)
        /\ AfterRequest(st, d) = Poisson!AfterRequest(st, d)
        /\ ~Poisson!RunsOffPattern(s, d)
    BY <1>4 DEF StillHaving, NextDraws, RequestTime, AfterRequest, RunsOffPattern
  <2>2. /\ d \in Int /\ RequestTime(s, d) \in Int
        /\ AfterRequest(st, d) \in Order!StreamState
        /\ Counted(AfterRequest(st, d)) = Counted(stream[s]) + 1
        /\ AfterRequest(st, d).first = FALSE
        /\ PoissonTime(s, AfterRequest(st, d)) = RequestTime(s, d)
        /\ InPattern(s, AfterRequest(st, d))
        /\ st.first = FALSE => PoissonTime(s, st) <= RequestTime(s, d)
    BY <1>1, <2>1, PoissonRequest
  <2>3. QED BY <1>2, <1>4, <2>2
<1>5. QED BY <1>3, <1>4 DEF Methods

-----------------------------------------------------------------------------
(* Every step keeps the invariant. *)

(* A request queued is at most one more that waits, for its stream. *)
LEMMA WaitingAfterQueued ==
  ASSUME IsFiniteSet(queue), NEW e, queue' = queue \/ queue' = queue \cup {e}
  PROVE  \A r : /\ Cardinality(Waiting(r)) \in Nat /\ Cardinality(Waiting(r)') \in Nat
               /\ Cardinality(Waiting(r)') <= Cardinality(Waiting(r))
                                               + (IF r = e.key THEN 1 ELSE 0)
<1> SUFFICES ASSUME NEW r
             PROVE  /\ Cardinality(Waiting(r)) \in Nat /\ Cardinality(Waiting(r)') \in Nat
                    /\ Cardinality(Waiting(r)') <= Cardinality(Waiting(r))
                                                    + (IF r = e.key THEN 1 ELSE 0)
  OBVIOUS
<1>1. IsFiniteSet(Waiting(r)) /\ Cardinality(Waiting(r)) \in Nat
  BY FS_CardinalityType, FS_Subset DEF Waiting
<1>2. Waiting(r)' = Waiting(r) \/ (r = e.key /\ Waiting(r)' = Waiting(r) \cup {e})
  BY DEF Waiting
<1>3. Cardinality(Waiting(r) \cup {e}) \in {Cardinality(Waiting(r)), Cardinality(Waiting(r)) + 1}
  BY <1>1, FS_AddElement
<1>4. QED BY <1>1, <1>2, <1>3

(* The service as it is made satisfies the invariant. *)
LEMMA InitSession == Init => SessionInv
<1> SUFFICES ASSUME Init PROVE SessionInv
  OBVIOUS
<1>1. /\ ManagerTyped /\ queue = {}
      /\ \A s \in Streams : Taken(s) = 0
  <2>1. OrderLemmas!ManagerInit
    BY ManagerOperators DEF Init
  <2>2. /\ OrderLemmas!ManagerTyped /\ queue = {}
        /\ \A s \in OrderLemmas!Streams : OrderLemmas!Taken(s) = 0
    BY <2>1, OrderLemmas!InitBalance, OrderAssumptions
  <2>3. QED BY <2>2, BalanceInstances, OrderOperators
<1>2. SessionTyped
  <2>1. 1 \in 1 .. NbStreams + 1 /\ itStream = 1
    BY ManagerAssumption DEF Init, Order!ManagerInit
  <2>2. QED BY <1>1, <2>1 DEF SessionTyped, Init, NoEvent, Methods
<1>3. Accounts
  BY <1>1 DEF Accounts, Init
<1>4. LiveBound
  <2>1. \A s \in Streams : Cardinality(Waiting(s)) = 0
    BY <1>1, FS_EmptySet DEF Waiting
  <2>2. QED BY <2>1 DEF LiveBound, LiveOf, Init
<1>5. /\ status.current = 0
      /\ \A s \in Streams : /\ stream[s].soFar = 0 /\ stream[s].first = TRUE
                            /\ stream[s].still = TRUE /\ stream[s].cum = 0
  BY OrderOperators DEF Init, Order!ManagerInit, Order!NewStream
<1>6. CleanBetweenCalls
  BY <1>1, <1>5 DEF CleanBetweenCalls
<1>7. \A s \in Streams : InPattern(s, stream[s])
  BY <1>5 DEF InPattern
<1>8. Live = {}
  BY <1>1 DEF Live, Init
<1>9. QED
  BY <1>2, <1>3, <1>4, <1>6, <1>7, <1>8
     DEF SessionInv, MethodsUsed, NotYetReached, BehindOrderStatistics, BehindPoisson,
         SanityFailsOnlyOnLeftovers, Init

(* The steps that leave the manager as it is: those between two calls, the end of
   a stream and the assertion of a Poisson process. *)
LEMMA QuietStep ==
  ASSUME SessionInv, UNCHANGED managerVars, UNCHANGED historyVars,
         UNCHANGED <<pc, method, event>> \/ StartCall \/ StreamExhausted \/ AbortOnPattern
  PROVE  SessionInv'
<1>1. UNCHANGED <<stream, queue, status, dropped, itStream, popped, lost, failed, used>>
  BY DEF managerVars, historyVars
<1>2. ManagerTyped' /\ \A r : Waiting(r)' = Waiting(r) /\ Taken(r)' = Taken(r)
  <2>1. ManagerTyped'
    BY <1>1 DEF SessionInv, SessionTyped, ManagerTyped, managerVars
  <2>2. QED BY <1>1, <2>1 DEF Taken, Counted, Waiting
<1>3. \/ UNCHANGED <<pc, method, event>>
      \/ /\ pc = "idle" /\ pc' \in {"idle", "first"} /\ method' \in Methods
         /\ event' = event
      \/ pc = "next" /\ pc' = "loop" /\ UNCHANGED <<method, event>>
      \/ pc \in {"first", "next"} /\ pc' = "overrun" /\ UNCHANGED <<method, event>>
  BY DEF StartCall, StreamExhausted, AbortOnPattern, Generating, Methods
<1>4. SessionTyped'
  <2>1. SessionTyped
    BY DEF SessionInv
  <2>2. QED BY <1>1, <1>2, <1>3, <2>1 DEF SessionTyped
<1>5. Accounts'
  BY <1>1, <1>2 DEF SessionInv, Accounts
<1>6. LiveBound'
  <2> SUFFICES ASSUME NEW s \in Streams
               PROVE  /\ LiveOf(s)' <= 1 + failed
                      /\ pc' = "idle" \/ (pc' = "first" /\ s >= itStream) => LiveOf(s)' <= failed
    BY <1>1 DEF LiveBound
  <2>1. /\ LiveOf(s) <= 1 + failed /\ failed \in Nat /\ Cardinality(Waiting(s)) \in Nat
        /\ pc = "idle" \/ (pc = "first" /\ s >= itStream) => LiveOf(s) <= failed
    BY StreamTypes DEF SessionInv, LiveBound, SessionTyped
  <2>2. Cardinality(Waiting(s)') = Cardinality(Waiting(s))
    BY <1>2
  <2>3. LiveOf(s)' <= LiveOf(s) /\ LiveOf(s)' \in Nat /\ LiveOf(s) \in Nat
    BY <1>3, <2>1, <2>2 DEF LiveOf
  <2>4. QED BY <1>3, <2>1, <2>3
<1>7. CleanBetweenCalls'
  BY <1>1, <1>3 DEF SessionInv, CleanBetweenCalls
<1>8. MethodsUsed'
  <2>1. pc = "idle" => itStream = 1
    BY DEF SessionInv, SessionTyped
  <2>2. QED BY <1>1, <1>3, <2>1 DEF SessionInv, MethodsUsed
<1>9. NotYetReached'
  <2>1. failed = 0 /\ pc = "idle" => queue = {}
    BY DEF SessionInv, CleanBetweenCalls
  <2>2. QED BY <1>1, <1>3, <2>1 DEF SessionInv, NotYetReached
<1>10. \A s \in Streams : InPattern(s, stream'[s])
  BY <1>1 DEF SessionInv
<1>11. Live' \subseteq Live
  BY <1>1, <1>3 DEF Live
<1>12. BehindOrderStatistics' /\ BehindPoisson'
  BY <1>1, <1>11 DEF SessionInv, BehindOrderStatistics, BehindPoisson
<1>13. SanityFailsOnlyOnLeftovers'
  BY <1>1, <1>3 DEF SessionInv, SanityFailsOnlyOnLeftovers
<1>14. QED
  BY <1>4, <1>5, <1>6, <1>7, <1>8, <1>9, <1>10, <1>12, <1>13 DEF SessionInv

(* The end of generateFirstRequests. *)
LEMMA StartMainLoopStep ==
  ASSUME SessionInv, StartMainLoop
  PROVE  SessionInv'
<1>1. /\ pc = "first" /\ pc' = "loop" /\ itStream = NbStreams + 1 /\ itStream' = 1
      /\ UNCHANGED <<stream, queue, dropped, method, event, popped, lost, failed, used>>
  BY DEF StartMainLoop, Order!FirstRequestsDone, historyVars
<1>2. SessionTyped
  BY DEF SessionInv
<1>3. ManagerTyped'
  <2>1. OrderLemmas!ManagerTyped /\ OrderLemmas!FirstRequestsDone
    BY <1>2, ManagerOperators, BalanceInstances DEF StartMainLoop, SessionTyped
  <2>2. OrderLemmas!ManagerTyped'
    BY <2>1, OrderLemmas!FirstRequestsDoneBalance, OrderAssumptions
  <2>3. QED BY <2>2, BalanceInstances
<1>4. \A r : Waiting(r)' = Waiting(r) /\ Taken(r)' = Taken(r)
  BY <1>1 DEF Taken, Counted, Waiting
<1>5. SessionTyped'
  BY <1>1, <1>2, <1>3 DEF SessionTyped
<1>6. Accounts'
  BY <1>1, <1>4 DEF SessionInv, Accounts
<1>7. LiveBound'
  <2>1. \A s \in Streams : LiveOf(s)' = LiveOf(s)
    BY <1>1, <1>4 DEF LiveOf
  <2>2. QED BY <1>1, <2>1 DEF SessionInv, LiveBound
<1>8. MethodsUsed'
  <2>1. itStream > 1
    BY <1>1, ManagerAssumption
  <2>2. QED BY <1>1, <2>1 DEF SessionInv, MethodsUsed
<1>9. Live' = Live
  BY <1>1 DEF Live
<1>10. BehindOrderStatistics' /\ BehindPoisson'
  BY <1>1, <1>9 DEF SessionInv, BehindOrderStatistics, BehindPoisson
<1>11. QED
  BY <1>1, <1>5, <1>6, <1>7, <1>8, <1>10
     DEF SessionInv, CleanBetweenCalls, NotYetReached, SanityFailsOnlyOnLeftovers

(* A popped request is live until the next one of its stream is generated. *)
LEMMA PopStep ==
  ASSUME SessionInv, Pop
  PROVE  SessionInv'
<1>1. PICK e \in queue : /\ Order!PopEvent(e) /\ event' = e
                         /\ popped' = [popped EXCEPT ![e.key] = @ + 1]
  BY DEF Pop
<1>2. /\ pc = "loop" /\ pc' = "next" /\ queue' = queue \ {e}
      /\ UNCHANGED <<stream, itStream, sumActual, dropped, forgotten, method, lost, failed, used>>
  BY <1>1 DEF Pop, Order!PopEvent
<1>3. SessionTyped /\ e.key \in Streams
  BY DEF SessionInv, SessionTyped
<1>4. /\ ManagerTyped'
      /\ Taken(e.key)' = Taken(e.key) + 1
      /\ \A r \in Streams : r # e.key => Taken(r)' = Taken(r)
  <2>1. OrderLemmas!ManagerTyped /\ OrderLemmas!PopEvent(e) /\ e.key \in OrderLemmas!Streams
    BY <1>1, <1>3, ManagerOperators, BalanceInstances, OrderOperators DEF SessionTyped
  <2>2. /\ OrderLemmas!ManagerTyped'
        /\ OrderLemmas!Taken(e.key)' = OrderLemmas!Taken(e.key) + 1
        /\ \A r \in OrderLemmas!Streams :
             r # e.key => OrderLemmas!Taken(r)' = OrderLemmas!Taken(r)
    BY <1>2, <2>1, OrderLemmas!PopBalance, OrderAssumptions
  <2>3. QED BY <2>2, BalanceInstances, OrderOperators
<1>5. popped' \in [Streams -> Nat]
  BY <1>1, <1>3 DEF SessionTyped
<1>6. SessionTyped'
  <2>1. e \in [key : Int, time : Int, stamp : Int]
    BY <1>3 DEF SessionTyped, ManagerTyped
  <2>2. QED BY <1>1, <1>2, <1>3, <1>4, <1>5, <2>1 DEF SessionTyped
<1>7. Accounts'
  <2> SUFFICES ASSUME NEW s \in Streams PROVE Taken(s)' = popped'[s] + lost'[s]
    BY DEF Accounts
  <2>1. Taken(s) = popped[s] + lost[s] /\ popped[s] \in Nat /\ lost[s] \in Nat
    BY <1>3 DEF SessionInv, Accounts, SessionTyped
  <2>2. popped'[s] = popped[s] + (IF s = e.key THEN 1 ELSE 0)
    BY <1>1, <1>3 DEF SessionTyped
  <2>3. QED BY <1>2, <1>4, <2>1, <2>2
<1>8. LiveBound'
  <2> SUFFICES ASSUME NEW s \in Streams PROVE LiveOf(s)' <= 1 + failed
    BY <1>2 DEF LiveBound
  <2>1. LiveOf(s) <= 1 + failed /\ failed \in Nat
    BY <1>3 DEF SessionInv, LiveBound, SessionTyped
  <2>2. IsFiniteSet(Waiting(s)) /\ Cardinality(Waiting(s)) \in Nat
    BY <1>3, StreamTypes, FS_Subset DEF SessionTyped, ManagerTyped, Waiting
  <2>3. CASE s = e.key
    <3>1. e \in Waiting(s) /\ Waiting(s)' = Waiting(s) \ {e}
      BY <1>2, <2>3 DEF Waiting
    <3>2. Cardinality(Waiting(s)') = Cardinality(Waiting(s)) - 1
      BY <2>2, <3>1, FS_RemoveElement
    <3>3. QED BY <1>1, <1>2, <2>1, <2>2, <2>3, <3>2 DEF LiveOf
  <2>4. CASE s # e.key
    <3>1. Waiting(s)' = Waiting(s)
      BY <1>2, <2>4 DEF Waiting
    <3>2. QED BY <1>1, <1>2, <2>1, <2>4, <3>1 DEF LiveOf
  <2>5. QED BY <2>3, <2>4
<1>9. MethodsUsed'
  BY <1>2 DEF SessionInv, MethodsUsed
<1>10. Live' \subseteq Live
  BY <1>1, <1>2 DEF Live
<1>11. BehindOrderStatistics' /\ BehindPoisson'
  BY <1>2, <1>10 DEF SessionInv, BehindOrderStatistics, BehindPoisson
<1>12. QED
  BY <1>2, <1>6, <1>7, <1>8, <1>9, <1>11
     DEF SessionInv, CleanBetweenCalls, NotYetReached, SanityFailsOnlyOnLeftovers

(* The end of a run resets the service. *)
LEMMA EndRunStep ==
  ASSUME SessionInv, EndRun
  PROVE  SessionInv'
<1>1. /\ pc = "loop" /\ pc' \in {"idle", "first"} /\ queue' = {} /\ itStream' = itStream
      /\ popped' = [s \in Streams |-> 0] /\ lost' = [s \in Streams |-> 0]
      /\ failed' = 0 /\ used' = {} /\ UNCHANGED <<method, event>>
  BY DEF EndRun, Order!ManagerReset, Order!ResetQueue
<1>2. SessionTyped
  BY DEF SessionInv
<1>3. ManagerTyped' /\ \A s \in Streams : Taken(s)' = 0
  <2>1. OrderLemmas!ManagerTyped /\ OrderLemmas!ManagerReset
    BY <1>2, ManagerOperators, BalanceInstances DEF EndRun, SessionTyped
  <2>2. /\ OrderLemmas!ManagerTyped'
        /\ \A s \in OrderLemmas!Streams : OrderLemmas!Taken(s)' = 0
    BY <2>1, OrderLemmas!ResetBalance, OrderAssumptions
  <2>3. QED BY <2>2, BalanceInstances, OrderOperators
<1>4. SessionTyped'
  BY <1>1, <1>2, <1>3 DEF SessionTyped
<1>5. Accounts'
  BY <1>1, <1>3 DEF Accounts
<1>6. LiveBound'
  <2>1. \A s \in Streams : Cardinality(Waiting(s)') = 0
    BY <1>1, FS_EmptySet DEF Waiting
  <2>2. QED BY <1>1, <2>1 DEF LiveBound, LiveOf
<1>7. /\ status'.current = 0
      /\ \A s \in Streams : /\ stream'[s].soFar = 0 /\ stream'[s].first = TRUE
                            /\ stream'[s].still = TRUE /\ stream'[s].cum = 0
  <2>1. PICK n : stream' = [s \in Streams |-> Order!ResetStream(stream[s], n[s])]
    BY OrderOperators DEF EndRun, Order!ManagerReset
  <2>2. \A s \in Streams : stream[s] \in Order!StreamState
    BY <1>2 DEF SessionTyped, ManagerTyped
  <2>3. status'.current = 0
    BY <1>2 DEF EndRun, Order!ManagerReset, Order!ResetQueue, SessionTyped, ManagerTyped
  <2>4. QED BY <2>1, <2>2, <2>3 DEF Order!ResetStream, Order!StreamState
<1>8. CleanBetweenCalls'
  BY <1>1, <1>7 DEF CleanBetweenCalls
<1>9. MethodsUsed'
  <2>1. itStream = 1
    BY <1>1, <1>2 DEF SessionTyped
  <2>2. QED BY <1>1, <2>1 DEF MethodsUsed
<1>10. \A s \in Streams : InPattern(s, stream'[s])
  BY <1>7 DEF InPattern
<1>11. Live' = {}
  BY <1>1 DEF Live
<1>12. QED
  BY <1>1, <1>4, <1>5, <1>6, <1>8, <1>9, <1>10, <1>11
     DEF SessionInv, NotYetReached, BehindOrderStatistics, BehindPoisson,
         SanityFailsOnlyOnLeftovers

(* A request generated, first or next, keeps every live request behind the point
   its stream has reached. *)
LEMMA GeneratedStaysBehind ==
  ASSUME SessionInv, NEW s \in Streams, NEW st,
         st = stream[s] \/ st = Order!SetFirst(stream[s]),
         StillHaving(st), NEW d \in NextDraws(s, st), ~RunsOffPattern(s, d),
         stream' = [stream EXCEPT ![s] = AfterRequest(st, d)],
         \A e \in Live' : e \in Live \/ (e.key = s /\ e.time = RequestTime(s, d)),
         used' = used \cup {method}, failed' \in {failed, failed + 1},
         failed' = 0 /\ method = "POI_PRO" /\ (\E e \in Live : e.key = s) => st = stream[s]
  PROVE  /\ \A r \in Streams : InPattern(r, stream'[r])
         /\ BehindOrderStatistics' /\ BehindPoisson'
<1>1. SessionTyped /\ method \in Methods /\ \A r \in Streams : InPattern(r, stream[r])
  BY DEF SessionInv, SessionTyped
<1>2. /\ RequestTime(s, d) \in Int
      /\ \A r \in Streams : InPattern(r, stream'[r])
      /\ method = "STA_ORD" =>
           /\ OrderTime(s, stream[s]) <= RequestTime(s, d)
           /\ OrderTime(s, stream'[s]) = RequestTime(s, d)
      /\ method = "POI_PRO" =>
           /\ stream'[s].first = FALSE
           /\ PoissonTime(s, stream'[s]) = RequestTime(s, d)
           /\ st = stream[s] /\ stream[s].first = FALSE =>
                PoissonTime(s, stream[s]) <= RequestTime(s, d)
  BY <1>1, StreamStep DEF SessionTyped
<1>3. \A r \in Streams \ {s} : stream'[r] = stream[r]
  BY <1>1 DEF SessionTyped, ManagerTyped
<1>4. \A e \in Live : e.key \in Streams /\ e.time \in Int
  BY <1>1 DEF Live, SessionTyped, ManagerTyped
<1>5. /\ OrderTime(s, stream[s]) \in Int /\ PoissonTime(s, stream[s]) \in Int
  BY <1>1, StreamTypes DEF SessionTyped
<1>6. BehindOrderStatistics'
  <2> SUFFICES ASSUME "POI_PRO" \notin used', NEW e \in Live'
               PROVE  e.time <= OrderTime(e.key, stream'[e.key])
    BY DEF BehindOrderStatistics, OrderTime
  <2>1. method = "STA_ORD" /\ "POI_PRO" \notin used
    BY <1>1 DEF Methods
  <2>2. CASE e.key = s /\ e.time = RequestTime(s, d)
    BY <1>2, <2>1, <2>2
  <2>3. CASE e \in Live
    <3>1. e.time <= OrderTime(e.key, stream[e.key]) /\ e.key \in Streams /\ e.time \in Int
      BY <1>4, <2>1, <2>3 DEF SessionInv, BehindOrderStatistics
    <3>2. CASE e.key = s
      BY <1>2, <1>5, <2>1, <3>1, <3>2
    <3>3. CASE e.key # s
      BY <1>3, <3>1, <3>3
    <3>4. QED BY <3>2, <3>3
  <2>4. QED BY <2>2, <2>3
<1>7. BehindPoisson'
  <2> SUFFICES ASSUME failed' = 0, "STA_ORD" \notin used', NEW e \in Live'
               PROVE  /\ stream'[e.key].first = FALSE
                      /\ e.time <= PoissonTime(e.key, stream'[e.key])
    BY DEF BehindPoisson, PoissonTime
  <2>1. method = "POI_PRO" /\ "STA_ORD" \notin used /\ failed = 0
    BY <1>1 DEF Methods, SessionTyped
  <2>2. CASE e.key = s /\ e.time = RequestTime(s, d)
    BY <1>2, <2>1, <2>2
  <2>3. CASE e \in Live
    <3>1. /\ stream[e.key].first = FALSE
          /\ e.time <= PoissonTime(e.key, stream[e.key]) /\ e.key \in Streams /\ e.time \in Int
      BY <1>4, <2>1, <2>3 DEF SessionInv, BehindPoisson
    <3>2. CASE e.key = s
      <4>1. st = stream[s]
        BY <2>1, <2>3, <3>2
      <4>2. QED BY <1>2, <1>5, <2>1, <3>1, <3>2, <4>1
    <3>3. CASE e.key # s
      BY <1>3, <3>1, <3>3
    <3>4. QED BY <3>2, <3>3
  <2>4. QED BY <2>2, <2>3
<1>8. QED BY <1>2, <1>6, <1>7

(* The first request of a stream, or none if nothing remains of its total. *)
LEMMA FirstRequestStep ==
  ASSUME SessionInv, FirstRequest
  PROVE  SessionInv'
<1> DEFINE s == itStream
           st == Order!SetFirst(stream[s])
<1>1. SessionTyped
  BY DEF SessionInv
<1>2. /\ s \in Streams /\ itStream' = s + 1 /\ sumActual' = sumActual + st.total
      /\ pc = "first" /\ used' = used \cup {method} /\ forgotten' = forgotten
      /\ UNCHANGED <<pc, method, event, popped, lost, failed>>
  <2>1. /\ pc = "first" /\ used' = used \cup {method}
        /\ UNCHANGED <<pc, method, event, popped, lost, failed>>
        /\ (method = "STA_ORD" /\ Order!FirstRequestOfStream)
           \/ (method = "POI_PRO" /\ Poisson!FirstRequestOfStream)
    BY DEF FirstRequest, callVars
  <2>2. itStream <= NbStreams /\ itStream' = itStream + 1 /\ forgotten' = forgotten
    BY <2>1 DEF Order!FirstRequestOfStream, Poisson!FirstRequestOfStream
  <2>3. sumActual' = sumActual + st.total
    BY <2>1, ManagerOperators, PoissonOperators
       DEF Order!FirstRequestOfStream, Poisson!FirstRequestOfStream
  <2>4. s \in Streams
    BY <1>1, <2>2, ManagerAssumption DEF SessionTyped, ManagerTyped, Streams
  <2> HIDE DEF st
  <2>5. QED BY <2>1, <2>2, <2>3, <2>4
<1>3. \/ /\ StillHaving(st)
         /\ \E d \in NextDraws(s, st) : ~RunsOffPattern(s, d) /\ GenerateNextRequest(s, st, d)
      \/ /\ stream' = [stream EXCEPT ![s] = st]
         /\ UNCHANGED <<queue, status, dropped>>
  <2>1. CASE method = "STA_ORD" /\ Order!FirstRequestOfStream
    BY <2>1 DEF Order!FirstRequestOfStream, StillHaving, NextDraws, RunsOffPattern,
                GenerateNextRequest
  <2>2. CASE method = "POI_PRO" /\ Poisson!FirstRequestOfStream
    <3>1. Poisson!SetFirst(stream[s]) = st
      BY ManagerOperators, PoissonOperators
    <3> HIDE DEF st
    <3>2. \/ /\ Poisson!StillHaving(st)
             /\ \E d \in Poisson!NextDraws(s, st) :
                  ~Poisson!RunsOffPattern(s, d) /\ Poisson!GenerateNextRequest(s, st, d)
          \/ /\ stream' = [stream EXCEPT ![s] = st]
             /\ UNCHANGED <<queue, status, dropped>>
      BY <2>2, <3>1 DEF Poisson!FirstRequestOfStream
    <3>3. QED BY <2>2, <3>2 DEF StillHaving, NextDraws, RunsOffPattern, GenerateNextRequest
  <2>3. QED BY <2>1, <2>2 DEF FirstRequest
<1>4. /\ st \in Order!StreamState /\ Counted(st) = Counted(stream[s])
      /\ OrderTime(s, st) = OrderTime(s, stream[s]) /\ InPattern(s, st) /\ st.total \in Int
  <2>1. /\ st \in Order!StreamState /\ Counted(st) = Counted(stream[s])
        /\ OrderTime(s, st) = OrderTime(s, stream[s]) /\ InPattern(s, st)
    BY <1>1, <1>2, StreamTypes DEF SessionTyped
  <2>2. st.total \in Int
    BY <2>1 DEF Order!StreamState
  <2>3. QED BY <2>1, <2>2
<1>5. itStream' \in 1 .. NbStreams + 1 /\ sumActual' \in Int
  <2>1. sumActual \in Int
    BY <1>1 DEF SessionTyped, ManagerTyped
  <2> HIDE DEF st
  <2>2. QED BY <1>2, <1>4, <2>1, ManagerAssumption DEF Streams
<1>6. failed = 0 => \A e \in Live : e.key < s
  BY <1>2 DEF SessionInv, NotYetReached, Live
<1> HIDE DEF st
<1> DEFINE Kept ==
      /\ ManagerTyped'
      /\ \A r \in Streams : Taken(r)' = Taken(r)
      /\ \E x \in [key : {s}, time : Int, stamp : Int] :
           queue' = queue \/ queue' = queue \cup {x}
      /\ \A r \in Streams : InPattern(r, stream'[r])
      /\ BehindOrderStatistics' /\ BehindPoisson'
<1>7. Kept
  <2>1. ASSUME StillHaving(st), NEW d \in NextDraws(s, st), ~RunsOffPattern(s, d),
               GenerateNextRequest(s, st, d)
        PROVE  Kept
    <3>1. /\ ManagerTyped'
          /\ \A r \in Streams : Taken(r)' = Taken(r)
          /\ stream' = [stream EXCEPT ![s] = AfterRequest(st, d)]
          /\ RequestTime(s, d) \in Int
          /\ \/ queue' = queue
             \/ \E x \in Int :
                  queue' = queue \cup {[key |-> s, time |-> RequestTime(s, d), stamp |-> x]}
      BY <1>1, <1>2, <1>4, <1>5, <2>1, SessionGeneration DEF SessionTyped
    <3>2. PICK x \in Int :
            \/ queue' = queue
            \/ queue' = queue \cup {[key |-> s, time |-> RequestTime(s, d), stamp |-> x]}
      BY <3>1
    <3>3. \A e \in Live' : e \in Live \/ (e.key = s /\ e.time = RequestTime(s, d))
      BY <1>2, <3>2 DEF Live
    <3>4. failed = 0 => ~ \E e \in Live : e.key = s
      BY <1>2, <1>6, ManagerAssumption DEF Streams
    <3>5. /\ \A r \in Streams : InPattern(r, stream'[r])
          /\ BehindOrderStatistics' /\ BehindPoisson'
      BY <1>2, <2>1, <3>1, <3>3, <3>4, GeneratedStaysBehind DEF st
    <3>6. QED BY <3>1, <3>2, <3>5
  <2>2. ASSUME stream' = [stream EXCEPT ![s] = st], UNCHANGED <<queue, status, dropped>>
        PROVE  Kept
    <3>1. stream'[s] = st /\ \A r \in Streams \ {s} : stream'[r] = stream[r]
      BY <1>1, <1>2, <2>2 DEF SessionTyped, ManagerTyped
    <3>2. ManagerTyped'
      BY <1>1, <1>2, <1>4, <1>5, <2>2 DEF SessionTyped, ManagerTyped
    <3>3. \A r \in Streams : Taken(r)' = Taken(r)
      <4> SUFFICES ASSUME NEW r \in Streams PROVE Taken(r)' = Taken(r)
        OBVIOUS
      <4>1. Counted(stream'[r]) = Counted(stream[r])
        BY <1>4, <3>1
      <4>2. Waiting(r)' = Waiting(r)
        BY <2>2 DEF Waiting
      <4>3. QED BY <2>2, <4>1, <4>2 DEF Taken
    <3>4. \A r \in Streams : InPattern(r, stream'[r])
      BY <1>4, <3>1 DEF SessionInv
    <3>5. Live' = Live
      BY <1>2, <2>2 DEF Live
    <3>6. \A e \in Live : e.key \in Streams
      BY <1>1, <1>2 DEF Live, SessionTyped
    <3>7. BehindOrderStatistics'
      <4> SUFFICES ASSUME "POI_PRO" \notin used, NEW e \in Live
                   PROVE  e.time <= OrderTime(e.key, stream'[e.key])
        BY <1>2, <3>5 DEF BehindOrderStatistics, OrderTime
      <4>1. e.time <= OrderTime(e.key, stream[e.key])
        BY DEF SessionInv, BehindOrderStatistics
      <4>2. QED BY <1>4, <3>1, <3>6, <4>1
    <3>8. BehindPoisson'
      <4> SUFFICES ASSUME failed = 0, "STA_ORD" \notin used, NEW e \in Live
                   PROVE  /\ stream'[e.key].first = FALSE
                          /\ e.time <= PoissonTime(e.key, stream'[e.key])
        BY <1>2, <3>5 DEF BehindPoisson, PoissonTime
      <4>1. /\ stream[e.key].first = FALSE
            /\ e.time <= PoissonTime(e.key, stream[e.key])
        BY DEF SessionInv, BehindPoisson
      <4>2. e.key # s
        BY <1>2, <1>6, ManagerAssumption DEF Streams
      <4>3. QED BY <3>1, <3>6, <4>1, <4>2
    <3>9. queue' = queue /\ [key |-> s, time |-> 0, stamp |-> 0] \in [key : {s}, time : Int, stamp : Int]
      BY <2>2
    <3>10. QED BY <3>2, <3>3, <3>4, <3>7, <3>8, <3>9
  <2>3. QED BY <1>3, <2>1, <2>2
<1>8. PICK x \in [key : {s}, time : Int, stamp : Int] : queue' = queue \/ queue' = queue \cup {x}
  BY <1>7
<1>9. SessionTyped'
  <2>1. \A e \in queue' : e.key \in Streams
    BY <1>1, <1>2, <1>8 DEF SessionTyped
  <2>2. used' \subseteq Methods
    BY <1>1, <1>2 DEF SessionTyped
  <2>3. QED BY <1>1, <1>2, <1>7, <2>1, <2>2 DEF SessionTyped
<1>10. Accounts'
  BY <1>2, <1>7 DEF SessionInv, Accounts
<1>11. LiveBound'
  <2> SUFFICES ASSUME NEW r \in Streams
               PROVE  LiveOf(r)' <= 1 + failed /\ (r >= itStream' => LiveOf(r)' <= failed)
    BY <1>2 DEF LiveBound
  <2>1. /\ LiveOf(r) <= 1 + failed /\ failed \in Nat
        /\ r >= s => LiveOf(r) <= failed
    BY <1>1, <1>2 DEF SessionInv, LiveBound, SessionTyped
  <2>2. /\ Cardinality(Waiting(r)) \in Nat /\ Cardinality(Waiting(r)') \in Nat
        /\ Cardinality(Waiting(r)') <= Cardinality(Waiting(r)) + (IF r = s THEN 1 ELSE 0)
    BY <1>1, <1>8, WaitingAfterQueued DEF SessionTyped, ManagerTyped
  <2>3. LiveOf(r) = Cardinality(Waiting(r)) /\ LiveOf(r)' = Cardinality(Waiting(r)')
    BY <1>2, <2>2 DEF LiveOf
  <2>4. QED BY <1>2, <2>1, <2>2, <2>3, ManagerAssumption DEF Streams
<1>12. MethodsUsed'
  BY <1>2 DEF SessionInv, MethodsUsed
<1>13. NotYetReached'
  <2> SUFFICES ASSUME failed = 0, NEW e \in queue' PROVE e.key < itStream'
    BY <1>2 DEF NotYetReached
  <2>1. e \in Live \/ e.key = s
    BY <1>8 DEF Live
  <2>2. e.key \in Streams
    BY <1>9 DEF SessionTyped
  <2>3. QED BY <1>2, <1>6, <2>1, <2>2, ManagerAssumption DEF Streams
<1>14. QED
  BY <1>2, <1>7, <1>9, <1>10, <1>11, <1>12, <1>13
     DEF SessionInv, CleanBetweenCalls, SanityFailsOnlyOnLeftovers

(* The next request of the stream of the popped one, and the sanity check. *)
LEMMA NextRequestStep ==
  ASSUME SessionInv, NextRequest
  PROVE  SessionInv'
<1> DEFINE s == event.key
           st == stream[s]
<1>1. SessionTyped
  BY DEF SessionInv
<1>2. /\ pc = "next" /\ s \in Streams /\ itStream = 1 /\ event \in Live /\ method \in used
      /\ UNCHANGED <<itStream, sumActual, forgotten, method, event, popped, lost, failed, used>>
  BY <1>1 DEF NextRequest, SessionTyped, Live, SessionInv, MethodsUsed, historyVars
<1>3. PICK d \in NextDraws(s, st) :
        /\ ~RunsOffPattern(s, d)
        /\ GenerateNextRequest(s, st, d)
        /\ pc' = IF RequestTime(s, d) < event.time THEN "aborted" ELSE "loop"
  BY DEF NextRequest
<1>4. StillHaving(st)
  BY DEF NextRequest
<1>5. /\ itStream' \in 1 .. NbStreams + 1 /\ sumActual' \in Int
      /\ st \in Order!StreamState /\ Counted(st) = Counted(stream[s])
  BY <1>1, <1>2, StreamTypes DEF SessionTyped, ManagerTyped
<1>6. /\ ManagerTyped'
      /\ \A r \in Streams : Taken(r)' = Taken(r)
      /\ stream' = [stream EXCEPT ![s] = AfterRequest(st, d)]
      /\ RequestTime(s, d) \in Int
      /\ \/ queue' = queue
         \/ \E x \in Int :
              queue' = queue \cup {[key |-> s, time |-> RequestTime(s, d), stamp |-> x]}
  BY <1>1, <1>2, <1>3, <1>4, <1>5, SessionGeneration DEF SessionTyped
<1>7. PICK x \in Int :
        \/ queue' = queue
        \/ queue' = queue \cup {[key |-> s, time |-> RequestTime(s, d), stamp |-> x]}
  BY <1>6
<1>8. pc' \in {"loop", "aborted"}
  BY <1>3
<1>9. \A e \in Live' : e \in Live \/ (e.key = s /\ e.time = RequestTime(s, d))
  BY <1>7, <1>8 DEF Live
<1>10. /\ \A r \in Streams : InPattern(r, stream'[r])
       /\ BehindOrderStatistics' /\ BehindPoisson'
  <2>1. used' = used \cup {method}
    BY <1>2
  <2>2. QED BY <1>2, <1>3, <1>4, <1>6, <1>9, <2>1, GeneratedStaysBehind
<1>11. SessionTyped'
  <2>1. \A e \in queue' : e.key \in Streams
    BY <1>1, <1>2, <1>7 DEF SessionTyped
  <2>2. QED BY <1>1, <1>2, <1>6, <1>8, <2>1 DEF SessionTyped
<1>12. Accounts'
  BY <1>2, <1>6 DEF SessionInv, Accounts
<1>13. LiveBound'
  <2> SUFFICES ASSUME NEW r \in Streams PROVE LiveOf(r)' <= 1 + failed
    BY <1>2, <1>8 DEF LiveBound
  <2>1. LiveOf(r) <= 1 + failed /\ failed \in Nat
    BY <1>1 DEF SessionInv, LiveBound, SessionTyped
  <2> DEFINE e == [key |-> s, time |-> RequestTime(s, d), stamp |-> x]
  <2>2. /\ Cardinality(Waiting(r)) \in Nat /\ Cardinality(Waiting(r)') \in Nat
        /\ Cardinality(Waiting(r)') <= Cardinality(Waiting(r)) + (IF r = s THEN 1 ELSE 0)
    <3>1. IsFiniteSet(queue) /\ e.key = s /\ (queue' = queue \/ queue' = queue \cup {e})
      BY <1>1, <1>7 DEF SessionTyped, ManagerTyped
    <3> HIDE DEF e
    <3>2. QED BY <3>1, WaitingAfterQueued
  <2>3. /\ LiveOf(r) = Cardinality(Waiting(r)) + (IF r = s THEN 1 ELSE 0)
        /\ LiveOf(r)' = Cardinality(Waiting(r)')
    BY <1>2, <1>8, <2>2 DEF LiveOf
  <2>4. QED BY <2>1, <2>2, <2>3
<1>14. MethodsUsed'
  BY <1>2, <1>8 DEF SessionInv, MethodsUsed
<1>15. SanityFailsOnlyOnLeftovers'
  <2> SUFFICES ASSUME pc' = "aborted" PROVE failed > 0 /\ "POI_PRO" \in used
    BY <1>2 DEF SanityFailsOnlyOnLeftovers
  <2>1. RequestTime(s, d) < event.time /\ event.time \in Int /\ RequestTime(s, d) \in Int
    BY <1>1, <1>3, <1>6 DEF SessionTyped
  <2>2. /\ method = "STA_ORD" => OrderTime(s, stream[s]) <= RequestTime(s, d)
        /\ method = "POI_PRO" /\ stream[s].first = FALSE =>
             PoissonTime(s, stream[s]) <= RequestTime(s, d)
    BY <1>1, <1>2, <1>3, <1>4, <1>6, StreamStep DEF SessionInv, SessionTyped
  <2>3. OrderTime(s, stream[s]) \in Int /\ PoissonTime(s, stream[s]) \in Int
    BY <1>1, <1>2, StreamTypes DEF SessionTyped
  <2>4. "POI_PRO" \in used
    <3>1. "POI_PRO" \notin used => event.time <= OrderTime(s, stream[s])
      BY <1>2 DEF SessionInv, BehindOrderStatistics
    <3>2. method \in Methods
      BY <1>1 DEF SessionTyped
    <3>3. QED BY <1>2, <2>1, <2>2, <2>3, <3>1, <3>2 DEF Methods
  <2>5. failed # 0
    <3> SUFFICES ASSUME failed = 0 PROVE FALSE
      OBVIOUS
    <3>1. used \subseteq {method}
      BY <1>2 DEF SessionInv, MethodsUsed
    <3>2. method = "POI_PRO" /\ "STA_ORD" \notin used
      BY <2>4, <3>1
    <3>3. stream[s].first = FALSE /\ event.time <= PoissonTime(s, stream[s])
      BY <1>2, <3>2 DEF SessionInv, BehindPoisson
    <3>4. QED BY <2>1, <2>2, <2>3, <3>2, <3>3
  <2>6. failed \in Nat
    BY <1>1 DEF SessionTyped
  <2>7. QED BY <2>4, <2>5, <2>6
<1>16. QED
  BY <1>8, <1>10, <1>11, <1>12, <1>13, <1>14, <1>15
     DEF SessionInv, CleanBetweenCalls, NotYetReached

(* A look-up throws: the call is over, and the stream keeps what it had drawn. *)
LEMMA LookupThrowsStep ==
  ASSUME SessionInv, LookupThrows
  PROVE  SessionInv'
<1>1. SessionTyped /\ pc \in {"first", "next"}
  BY DEF SessionInv, LookupThrows, Generating
<1>2. PICK g \in Generating : FailedRequest(g.s, g.st)
  BY DEF LookupThrows
<1> DEFINE s == g.s
           st == g.st
<1>3. /\ s \in Streams /\ (st = stream[s] \/ st = Order!SetFirst(stream[s])) /\ StillHaving(st)
  BY <1>2 DEF Generating
<1>4. FailedRequest(s, st)
  BY <1>2
<1>5. /\ pc' = "idle" /\ itStream' = 1 /\ sumActual' = 0 /\ failed' = failed + 1
      /\ used' = used \cup {method}
      /\ UNCHANGED <<queue, status, dropped, forgotten, popped, method, event>>
  BY DEF LookupThrows
<1> HIDE DEF s, st
<1>6. /\ st \in Order!StreamState /\ Counted(st) = Counted(stream[s]) /\ Counted(stream[s]) \in Nat
      /\ OrderTime(s, st) = OrderTime(s, stream[s]) /\ InPattern(s, st)
  BY <1>1, <1>3, StreamTypes DEF SessionTyped, SessionInv
<1>7. Live' \subseteq Live
  BY <1>5 DEF Live
<1>8. failed \in Nat /\ failed' # 0
  BY <1>1, <1>5 DEF SessionTyped
<1>9. BehindPoisson'
  BY <1>8 DEF BehindPoisson
<1> DEFINE Kept(z) ==
      /\ stream' = [stream EXCEPT ![s] = z]
      /\ \A r \in Streams : InPattern(r, stream'[r])
      /\ BehindOrderStatistics'
<1>10. PICK z \in Order!StreamState, m \in {0, 1} :
         /\ Kept(z) /\ Counted(z) = Counted(stream[s]) + m
         /\ lost' = [lost EXCEPT ![s] = @ + m]
  <2>1. CASE stream' = [stream EXCEPT ![s] = st] /\ UNCHANGED lost
    <3>1. stream'[s] = st /\ \A r \in Streams \ {s} : stream'[r] = stream[r]
      BY <1>1, <1>3, <2>1 DEF SessionTyped, ManagerTyped
    <3>2. \A r \in Streams : InPattern(r, stream'[r])
      BY <1>6, <3>1 DEF SessionInv
    <3>3. BehindOrderStatistics'
      <4> SUFFICES ASSUME "POI_PRO" \notin used, NEW e \in Live
                   PROVE  e.time <= OrderTime(e.key, stream'[e.key])
        BY <1>5, <1>7 DEF BehindOrderStatistics, OrderTime
      <4>1. e.time <= OrderTime(e.key, stream[e.key]) /\ e.key \in Streams
        BY <1>1 DEF SessionInv, BehindOrderStatistics, Live, SessionTyped
      <4>2. QED BY <1>6, <3>1, <4>1
    <3>4. Counted(st) = Counted(stream[s]) + 0 /\ lost' = [lost EXCEPT ![s] = @ + 0]
      BY <1>1, <1>6, <2>1 DEF SessionTyped
    <3>5. QED BY <1>6, <2>1, <3>2, <3>3, <3>4
  <2>2. CASE /\ lost' = [lost EXCEPT ![s] = @ + 1]
             /\ \E d \in NextDraws(s, st) :
                  ~RunsOffPattern(s, d) /\ stream' = [stream EXCEPT ![s] = AfterRequest(st, d)]
    <3>1. PICK d \in NextDraws(s, st) :
            ~RunsOffPattern(s, d) /\ stream' = [stream EXCEPT ![s] = AfterRequest(st, d)]
      BY <2>2
    <3>2. /\ \A r \in Streams : InPattern(r, stream'[r])
          /\ BehindOrderStatistics'
      BY <1>3, <1>5, <1>7, <1>8, <3>1, GeneratedStaysBehind
    <3>3. /\ AfterRequest(st, d) \in Order!StreamState
          /\ Counted(AfterRequest(st, d)) = Counted(stream[s]) + 1
      BY <1>1, <1>3, <3>1, StreamStep DEF SessionInv, SessionTyped
    <3>4. QED BY <2>2, <3>1, <3>2, <3>3
  <2>3. QED BY <1>4, <2>1, <2>2 DEF FailedRequest
<1>11. /\ stream'[s] = z /\ \A r \in Streams \ {s} : stream'[r] = stream[r]
       /\ lost'[s] = lost[s] + m /\ \A r \in Streams \ {s} : lost'[r] = lost[r]
       /\ lost' \in [Streams -> Nat]
  BY <1>1, <1>3, <1>10 DEF SessionTyped, ManagerTyped
<1>12. SessionTyped'
  <2>1. ManagerTyped'
    BY <1>1, <1>3, <1>5, <1>10, ManagerAssumption DEF SessionTyped, ManagerTyped
  <2>2. QED BY <1>1, <1>5, <1>11, <2>1 DEF SessionTyped
<1>13. \A r \in Streams : Waiting(r)' = Waiting(r)
  BY <1>5 DEF Waiting
<1>14. Accounts'
  <2> SUFFICES ASSUME NEW r \in Streams PROVE Taken(r)' = popped[r] + lost'[r]
    BY <1>5 DEF Accounts
  <2>1. /\ Counted(stream[r]) \in Nat /\ Cardinality(Waiting(r)) \in Nat /\ dropped[r] \in Nat
        /\ popped[r] \in Nat /\ lost[r] \in Nat
    BY <1>1, StreamTypes DEF SessionTyped
  <2>2. Taken(r) = popped[r] + lost[r]
    BY DEF SessionInv, Accounts
  <2>3. Taken(r)' = Counted(stream'[r]) - Cardinality(Waiting(r)) - dropped[r]
    BY <1>5, <1>13 DEF Taken, Counted
  <2>4. CASE r = s
    BY <1>10, <1>11, <2>1, <2>2, <2>3, <2>4 DEF Taken
  <2>5. CASE r # s
    BY <1>11, <2>2, <2>3, <2>5 DEF Taken
  <2>6. QED BY <2>4, <2>5
<1>15. LiveBound'
  <2> SUFFICES ASSUME NEW r \in Streams PROVE LiveOf(r)' \in Nat /\ LiveOf(r)' <= failed'
    BY <1>5, <1>8 DEF LiveBound
  <2>1. LiveOf(r) <= 1 + failed /\ Cardinality(Waiting(r)) \in Nat
    BY <1>1, StreamTypes DEF SessionInv, LiveBound, SessionTyped
  <2>2. LiveOf(r)' = Cardinality(Waiting(r)) /\ LiveOf(r) >= Cardinality(Waiting(r))
        /\ LiveOf(r) \in Nat
    BY <1>5, <1>13, <2>1 DEF LiveOf
  <2>3. QED BY <1>5, <1>8, <2>1, <2>2
<1>16. QED
  BY <1>5, <1>8, <1>9, <1>10, <1>12, <1>14, <1>15
     DEF SessionInv, CleanBetweenCalls, MethodsUsed, NotYetReached, SanityFailsOnlyOnLeftovers

LEMMA SessionStep == SessionInv /\ [Next]_vars => SessionInv'
<1> SUFFICES ASSUME SessionInv, [Next]_vars PROVE SessionInv'
  OBVIOUS
<1>1. CASE UNCHANGED vars \/ BadMethod \/ StartCall \/ StreamExhausted \/ AbortOnPattern
  <2>1. /\ UNCHANGED managerVars /\ UNCHANGED historyVars
        /\ UNCHANGED <<pc, method, event>> \/ StartCall \/ StreamExhausted \/ AbortOnPattern
    BY <1>1 DEF vars, callVars, historyVars, managerVars, BadMethod, StartCall, StreamExhausted,
                AbortOnPattern
  <2>2. QED BY <2>1, QuietStep
<1>2. CASE FirstRequest
  BY <1>2, FirstRequestStep
<1>3. CASE StartMainLoop
  BY <1>3, StartMainLoopStep
<1>4. CASE Pop
  BY <1>4, PopStep
<1>5. CASE NextRequest
  BY <1>5, NextRequestStep
<1>6. CASE EndRun
  BY <1>6, EndRunStep
<1>7. CASE LookupThrows
  BY <1>7, LookupThrowsStep
<1>8. QED BY <1>1, <1>2, <1>3, <1>4, <1>5, <1>6, <1>7 DEF Next, Step, Terminating

LEMMA SessionInvariant == Spec => []SessionInv
<1>1. QED BY InitSession, SessionStep, PTL DEF Spec

(* Whatever calls failed and whichever methods they had, no request is lost but by
   the exception of a look-up, and none is counted twice: pytrademgen.cpp leaves a
   failed call without a reset. *)
THEOREM CallsAccountedHolds == Spec => []CallsAccounted
<1>1. SessionInv => CallsAccounted
  <2> SUFFICES ASSUME SessionInv, NEW s \in Streams
               PROVE  stream[s].soFar + (IF stream[s].still THEN 0 ELSE 1)
                        = popped[s] + Cardinality(Waiting(s)) + dropped[s] + lost[s]
    BY DEF CallsAccounted
  <2>1. /\ Counted(stream[s]) \in Nat /\ Cardinality(Waiting(s)) \in Nat /\ dropped[s] \in Nat
        /\ popped[s] \in Nat /\ lost[s] \in Nat
    BY StreamTypes DEF SessionInv, SessionTyped
  <2>2. Taken(s) = popped[s] + lost[s]
    BY DEF SessionInv, Accounts
  <2>3. Counted(stream[s]) = popped[s] + Cardinality(Waiting(s)) + dropped[s] + lost[s]
    BY <2>1, <2>2 DEF Taken
  <2>4. QED BY <2>3 DEF Counted
<1>2. QED BY <1>1, SessionInvariant, PTL

(* A failed call leaves at most one more chain of requests per stream: the next
   one generates first requests beside those that wait. *)
THEOREM LiveRequestsHolds == Spec => []LiveRequests
<1>1. SessionInv => LiveRequests
  BY DEF SessionInv, LiveBound, LiveOf, LiveRequests
<1>2. QED BY <1>1, SessionInvariant, PTL

(* Only a failed call leaves requests, counted ones or waiting ones, to the next:
   after the reset at the end of a run each stream starts afresh. *)
THEOREM CleanBetweenCallsHolds == Spec => []CleanBetweenCalls
<1>1. SessionInv => CleanBetweenCalls
  BY DEF SessionInv
<1>2. QED BY <1>1, SessionInvariant, PTL

(* The sanity check on the order of the requests ends the interpreter only after a
   failed call, and only when a Poisson process has generated requests. *)
THEOREM SanityFailsOnlyOnLeftoversHolds == Spec => []SanityFailsOnlyOnLeftovers
<1>1. SessionInv => SanityFailsOnlyOnLeftovers
  BY DEF SessionInv
<1>2. QED BY <1>1, SessionInvariant, PTL
=============================================================================
