---------------------------- MODULE DemandStream ----------------------------
(***************************************************************************)
(* One demand stream (bom/DemandStream.cpp): the generator of the booking    *)
(* requests of one origin, destination, departure date and cabin.  The      *)
(* state of a stream is a record, and every operation of the class is an     *)
(* operator from the state before, and the random draw it makes, to the      *)
(* state after.                                                             *)
(*                                                                         *)
(* Time.  Date-times are integers in milliseconds, as in the code.  The days *)
(* before departure that the generators draw are real numbers; they are      *)
(* integers in "ticks", TicksPerMs to a millisecond, so that two draws may    *)
(* fall in the same millisecond.  A day lasts DayLength milliseconds.        *)
(* Probabilities are integers out of One.                                   *)
(***************************************************************************)
EXTENDS ContinuousAttribute

CONSTANTS
  NbStreams,      \* the demand streams, numbered in the order of their list
  Method,         \* DemandGenerationMethod: "STA_ORD" or "POI_PRO"
  DepartureDate,  \* per stream: the preferred departure date of its key (a day)
  Arrival,        \* per stream: _arrivalPattern, values in ticks before departure
  Mean,           \* per stream: _meanNumberOfRequests
  Draws,          \* per stream: the total numbers of requests init() may draw
  PrefTimes,      \* per stream: preferred departure times, in ms of the day
  DayLength, RefTime, TicksPerMs, One,
  MaxArrivals     \* bound on the requests of one Poisson stream in a run

Streams == 1 .. NbStreams
StatisticsOrder == "STA_ORD"
PoissonProcess == "POI_PRO"

ASSUME StreamsAssumption == NbStreams \in Nat \ {0}
ASSUME MethodAssumption == Method \in {StatisticsOrder, PoissonProcess}
ASSUME UnitsAssumption ==
  /\ DayLength \in Nat \ {0} /\ TicksPerMs \in Nat \ {0} /\ One \in Nat \ {0}
  /\ RefTime \in 0 .. DayLength - 1 /\ MaxArrivals \in Nat
ASSUME InputAssumption ==
  /\ DepartureDate \in [Streams -> Nat]
  /\ Mean \in [Streams -> Nat]
  /\ Draws \in [Streams -> SUBSET Int]
  /\ PrefTimes \in [Streams -> SUBSET (0 .. DayLength - 1)]
ASSUME ArrivalAssumption ==
  \A s \in Streams :
    /\ Arrival[s] \in Seq([value : Int, cum : Int])
    /\ Len(Arrival[s]) > 0
    /\ \A i, j \in 1 .. Len(Arrival[s]) :
         i < j => /\ Arrival[s][i].value < Arrival[s][j].value
                  /\ Method = PoissonProcess => Arrival[s][i].cum <= Arrival[s][j].cum
(* The grid of probabilities is fine enough for the requests of a stream. *)
ASSUME GridAssumption == \A s \in Streams : \A n \in Draws[s] : n < One

(* DEFAULT_LAST_LOWER_BOUND_ARRIVAL_PATTERN: one day before departure. *)
LastLowerBound == -(DayLength * TicksPerMs)

-----------------------------------------------------------------------------
(* State: _totalNumberOfRequestsToBeGenerated, the two fields of
   _randomGenerationContext, _firstDateTimeRequest,
   _stillHavingRequestsToBeGenerated and _dateTimeLastRequest. *)
StreamState ==
  [total : Int, soFar : Nat, cum : 0 .. One - 1, first : BOOLEAN, still : BOOLEAN, last : Int]

(* A stream just created by setAll, which calls init; n is the number drawn
   from the normal distribution and rounded, which may be zero or negative.
   "last" is not initialised by the code, and not read while "first" holds. *)
NewStream(n) ==
  [total |-> n, soFar |-> 0, cum |-> 0, first |-> TRUE, still |-> TRUE, last |-> 0]

(* reset: a fresh random generation context, then init. *)
ResetStream(st, n) ==
  [st EXCEPT !.total = n, !.soFar = 0, !.cum = 0, !.first = TRUE, !.still = TRUE]

MutSetFirst(st) == [st EXCEPT !.first = TRUE, !.still = TRUE]

(* setBoolFirstDateTimeRequest (true). *)
SetFirst(st) == [st EXCEPT !.first = TRUE]

Remaining(st) == st.total - st.soFar

(* stillHavingRequestsToBeGenerated. *)
StillHaving(st) == IF Method = StatisticsOrder THEN Remaining(st) > 0 ELSE st.still

-----------------------------------------------------------------------------
(* generateTimeOfRequestStatisticsOrder. *)

MutNextCums(st) == 1 .. One - Remaining(st)

MutNextCumsUncapped(st) == st.cum + 1 .. One

(* The next order statistic: the factor applied to the complement of the
   probability so far is below 1 (it is capped at 1 - 1e-6) and positive, so
   that the probability grows and stays below One.  The real numbers always
   leave room for the remaining draws, and so does the grid. *)
NextCums(st) == st.cum + 1 .. One - Remaining(st)

MutAfterOrderStatistic(st, c) == [st EXCEPT !.cum = c]

AfterOrderStatistic(st, c) == [st EXCEPT !.cum = c, !.soFar = @ + 1]

-----------------------------------------------------------------------------
(* generateTimeOfRequestPoissonProcess. *)

(* Where the process resumes: the lower end of the pattern for a first request,
   the previous request otherwise. *)
ResumeAt(s, st) == IF st.first THEN GetValue(Arrival[s], 0) ELSE st.last

PatternEnd(s) == Arrival[s][Len(Arrival[s])].value

(* The code stops when the process reaches the point one day before departure;
   it gets there exactly only if the pattern has that point. *)
HasLastBound(s) == \E i \in 1 .. Len(Arrival[s]) : Arrival[s][i].value = LastLowerBound

Horizon(s, st) ==
  IF HasLastBound(s) /\ ResumeAt(s, st) <= LastLowerBound THEN LastLowerBound ELSE PatternEnd(s)

MutNextArrivals(s, st) ==
  {t \in GetValue(Arrival[s], 0) .. LastLowerBound - 1 : st.soFar < MaxArrivals}
  \cup {LastLowerBound}

(* The recursion over the intervals of the pattern, from one exponential draw
   to the next: the request falls anywhere from the previous one on, in an
   interval with a positive rate (the density times the mean number of
   requests; a null rate gives an infinite wait), or the process walks through all the
   remaining intervals and arrives at the horizon. *)
NextArrivals(s, st) ==
  {t \in ResumeAt(s, st) .. Horizon(s, st) - 1 :
     /\ st.soFar < MaxArrivals
     /\ t # LastLowerBound /\ Mean[s] > 0
     /\ InSupport(Arrival[s], t) /\ HasDensity(Arrival[s], t)}
  \cup {Horizon(s, st)}

MutAfterPoisson(st, t) ==
  [st EXCEPT !.first = FALSE, !.last = t, !.soFar = IF t = LastLowerBound THEN @ ELSE @ + 1]

AfterPoisson(st, t) ==
  IF t = LastLowerBound
  THEN [st EXCEPT !.first = FALSE, !.last = t, !.still = FALSE]
  ELSE [st EXCEPT !.first = FALSE, !.last = t, !.soFar = @ + 1]

-----------------------------------------------------------------------------
(* generateNextRequest: the draws it may make, the date-time of the request it
   returns and the state it leaves. *)

NextDraws(s, st) == IF Method = StatisticsOrder THEN NextCums(st) ELSE NextArrivals(s, st)

(* The assertion (idx != _size) of getUpperBound fails: the process runs off a
   pattern that has no point one day before departure. *)
RunsOffPattern(s, d) ==
  Method = PoissonProcess /\ d # LastLowerBound /\ d = PatternEnd(s)

(* convertFloatIntoDuration: whole seconds and whole milliseconds, rounded
   down, and one more millisecond. *)
Convert(ticks) == ticks \div TicksPerMs + 1

(* Days between the departure and the request; the request that ends a Poisson
   stream is one day after the departure. *)
Offset(s, d) ==
  IF Method = StatisticsOrder THEN GetValue(Arrival[s], d)
  ELSE IF d = LastLowerBound THEN -LastLowerBound ELSE d

(* The reference departure time is hard-coded (eight o'clock). *)
RequestTime(s, d) == DepartureDate[s] * DayLength + RefTime + Convert(Offset(s, d))

AfterRequest(st, d) ==
  IF Method = StatisticsOrder THEN AfterOrderStatistic(st, d) ELSE AfterPoisson(st, d)
=============================================================================
