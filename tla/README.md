# A formal model of TraDemGen

TraDemGen generates the travel demand of an airline network: booking requests,
at random date-times before a departure, for a set of *demand streams* (origin,
destination, departure date, cabin). This directory holds TLA+ modules that
model the program, TLC configurations that check them on small instances, and
proofs that TLAPS checks for every value of the parameters. `PROJECT.json` maps
every definition to the lines of code it stands for.

## 1. Inventory

| Component | State | Operations | Made correct by |
|---|---|---|---|
| `ContinuousAttributeLite` (arrival pattern, preferred departure time, value of time, FRAT5) | two parallel arrays built from a `std::map` | `getValue`, `getDerivativeValue`, `getUpperBound` | inverts the curve; monotone; walks the points one by one |
| `CategoricalAttributeLite` (point of sale, channel, trip, stay, frequent flyer) | values and cumulative masses | `getValue`, which throws when the draw is not reached | shares equal masses |
| `DemandStream` | total drawn, random context (number so far, cumulative probability), Poisson flags and last request | `setAll`/`init`, `stillHaving...`, `generateNextRequest` by order statistics or Poisson process, `reset` | requests in time order; never more than the total; a stopped stream stays stopped |
| Characteristics of a request | the distributions of the stream | the draws of `generateNextRequest`, the willingness to pay | complete for every draw; a later request never pays less |
| Sample demand | the tables of four built-in streams | `buildSampleBom`, `buildSampleBomStd` | they are distributions |
| `DemandManager` and the delegating methods of `TRADEMGEN_Service` | none of its own: works on the streams and on SEvMgr | first requests, next request, queueing test, reset | every counted request is queued or dropped; the progress agrees with the streams |
| Cancellations | progress status of the CX events | `generateCancellation` | status consistent with the queue; between the request and the midnight that begins the departure date; requests undisturbed |
| SEvMgr (external library) | event queue with unique stamps, progress status per event type | `addEvent`, `popEvent`, `isQueueDone`, `updateStatus`, `addStatus`, `reset` | stamps unique, close to the date-times |
| Batch program | run index, popped request | the main loop | one live request per stream; no stream forgotten; chronological; terminates |
| Interactive program | the running command | first, next, all, delete, reset, displays, quit | the same, under any mix of commands |
| Python wrapper | the service, the log, a call of `trademgen` | `init`, `trademgen`, destruction | a call that fails damages the next ones no more than it must |
| Demand parser | the row being parsed, the staging structure, the streams loaded | Spirit actions, `doEndDemand`, the streams of a row | rows do not leak into each other; a prefix is loaded; loading ends |
| Service life cycle | contexts, counted pointers to StdAir and SEvMgr services, the copy of the tree | constructors, `finalise`, `buildSampleBom`, `parseAndLoad`, destruction | a service finds what it loaded, whichever pointers it was given; nothing kept; copy in step |
| Options and life of the programs | options, stages of `main` | `readConfiguration`, `main` | no property of their own: the options decide how far a program goes and what it loads |
| Database access | the rows of the airline table | `displayAirlineListFromDB` | one line per row; the loop gives one more (see section 3) |
| Displays, build files, log tools | - | - | no state |

**How they interact.** Everything runs on one thread. A driver (batch, Python,
interactive, or a simulator outside the repository) calls the service; the service
delegates to `DemandManager`, which asks a `DemandStream` for its next request and
hands it to the event queue. There are no callbacks between components. The queue
holds the *next* request of each stream, and the driver, after popping one, asks
for the next one of the same stream. This protocol between driver, manager, stream
and queue is the core of the system. Before it runs, a `main` reads its options,
constructs a service, and loads a file or the built-in sample into it.

**What is hard.** The chain of requests is kept alive by one call per request,
and a request dropped on the day of departure breaks it. Date-times are rounded
to milliseconds, so requests tie and the queue alters their stamps. Cancellations
are in seconds, in the same queue. Totals come from a normal law and may be zero
or negative. The Poisson process ends on an exact floating-point comparison. The
progress figures are kept in two places and overwritten by one of them. A user may
mix the commands at will. A look-up may throw in the middle of a request; the
Python wrapper catches it and goes on with what is left. One structure stages
every row of a file. Services share objects through counted pointers, which a client
gives them in pairs that nothing checks. There is no
concurrency, no persistence and no network.

## 2. Modules

| Module | Models |
|---|---|
| `ContinuousAttribute` | `basic/ContinuousAttributeLite.hpp` as operators on a list of points |
| `CategoricalAttribute` | `basic/CategoricalAttributeLite.hpp` as operators on a list of masses |
| `BookingRequest` | the characteristics of a request: each draw, the FRAT5 pattern, the willingness to pay |
| `SampleDemand` | the built-in demand |
| `DemandStream` | `bom/DemandStream.cpp`: the state of a stream and its operations as functions from state and draw to state |
| `EventQueue` | SEvMgr: queue and status variables and the operations on them |
| `DemandManager` | `command/DemandManager.cpp`: actions over streams, queue and status (extends the two above) |
| `BatchDriver` | the loop of `batches/trademgen_generateDemand.cpp`: one action per call of the service |
| `DemandPlan` | the abstract specification of the batch program: quotas served, streams abandoned, runs ended; `BatchDriver` implements it through `INSTANCE DemandPlan WITH` |
| `InteractiveSession` | the commands of `ui/cmdline/trademgen.cpp` |
| `PythonSession` | calls of `python/pytrademgen.cpp`, each of either method: two instances of `DemandManager` on the same variables |
| `Cancellation` | `generateCancellation`, with the simulator that calls it |
| `DemandLoading` | the parser and the creation of the streams of a row |
| `ServiceLifeCycle` | the objects behind the services |
| `Programs` | the programs from their start to their end, the Python `init`, and a simulator, on those objects |
| `MC...` | instances for TLC; `MCDistributions` also holds the sweep over all distributions and its properties |
| `Operators_proofs` | theorems about the look-ups and the willingness to pay, and the lemmas on sums, ranks and integer division that all the others use |
| `DemandManager_proofs` | lemmas on the operations of the manager, shared by its four drivers |
| `BatchDriver_proofs` | theorems about the batch program under either method, under order statistics, and under the Poisson process |
| `InteractiveSession_proofs`, `PythonSession_proofs`, `Cancellation_proofs`, `Programs_proofs` | theorems about those modules |
| `DemandSources_proofs` | theorems about where the demand comes from: `DemandLoading`, and `SampleDemand` with the sweep of `MCDistributions` |

Operators named `Mut...` are plausible mistakes, used by nothing in the model;
`PROJECT.json` ("mutants") names the definition each replaces and the property
that then fails.

**From code to model.**

- *Date-times* are integer milliseconds; the real numbers of days before the
  departure are integers in a finer unit (`TicksPerMs` to a millisecond), so that
  `convertFloatIntoDuration` is a rounding down plus one, as in the code.
  A day is `DayLength` milliseconds, a second `MsPerSecond`.
- *Probabilities* are integers out of `One`. The draw of the next order statistic
  is any later point of the grid that leaves room for the remaining ones, as the
  real line always does. Which point is drawn is nondeterministic.
- *A Poisson draw* is any instant from the last one on, in an interval of positive
  rate, or the horizon. The real-valued process reaches a given breakpoint other
  than by walking there with probability zero, and so it does in the model.
- *The stamp of an event* is its date-time, or when that is taken a free later
  one (the comment at the call of `addEvent` is all the repository says of it).
- *A look-up that finds no value* is a draw beyond the masses. Where only the
  exception matters (`PythonSession`), a stream has a set of look-ups that may
  throw, before or after the date-time of the request is drawn.
- *A row of a file* is its fields and how many of them match before the text
  stops matching; the characters are left out, what the actions convert (time of
  day, days to departure, end of a date range) is not.
- *A counted pointer* is a number; an object lives as long as one that is
  reachable points at it. A client may give a service any two of its pointers, or
  null ones, as the constructor accepts them; a call that then goes through a null
  pointer fails an assertion.
- *An option* is a name with a value that is good, does not convert, or is not the
  character of a method. The command line is stored first; what it gives is skipped
  in the configuration file, value and all.
- *Uninitialised fields.* `_dateTimeLastRequest` has no value until the first
  Poisson draw; the code never reads it earlier, the model gives it an arbitrary one.
- *History variables* (`dropped`, `forgotten`, `popped`, `deleted`, `lost`,
  `failed`, `used`, `cancelled`, `loads`, `outOfStep`) record what happened and guard nothing
  (but for the bound on the number of loads).
- *Assertions* of the code are steps to a state in which the program stops.

## 3. Runs

| Run | Shows | Bounds |
|---|---|---|
| `distributions` | the look-ups invert every curve and follow every list of masses; the sample gives complete requests; a later request pays no less | up to 3 points with values 0..4 and any cumulative column out of 4, up to 3 masses out of 4, every draw; the sample with every hundredth and a year of advance |
| `batch_order` | the batch program with order statistics: its invariants, that it implements `DemandPlan`, that all runs complete | 3 streams, totals {1,3}, {-1,0,2} and 1, 2 runs, days of 3 ms of 2 ticks, 10 probabilities |
| `batch_poisson` | how a Poisson stream ends, and when the assertion fails | 2 streams, one with a plateau, one without a point one day before departure; 2 arrivals each, 2 runs |
| `session_order`, `session_poisson` | any mix of commands | 2 streams, 7 probabilities, one pattern without an end |
| `cancellation` | both types of events in one queue | 2 streams, 2 runs, days of 2 seconds of 2 ms, fractions out of 4 |
| `demand_loading` | rows, errors half way, the streams of a range of dates | about 200 files of up to three rows out of thirteen; weeks of 3 days, a calendar of 8 |
| `python_session` | calls that fail and those after them | 3 calls of 0 to 2 runs, 2 streams, either method |
| `programs` | the objects and the life of the programs | 2 services, 3 loads of 0 or 2 streams, 2 StdAir and 2 SEvMgr services of the simulator, which gives its services any pair of pointers; 3 calls of `init`; options given on a command line of up to two and a configuration file of up to one, with good and bad values; tables of up to 2 rows |

The bounds are chosen so that the cases above happen: the last two days hold six
milliseconds and up to five requests, so that draws fall in the same millisecond,
stamps collide and are altered onto each other, and requests fall on the day of
departure before and after the preferred times; negative, zero and larger totals
exist; the second run starts from a used state. `MaxArrivals` bounds the requests
of a Poisson stream, which has no bound of its own; at the bound the process can
only walk to its end. `NbRuns` and the number of runs of a Python call are
parameters of the program; `NbCalls`, `NbInits`, `MaxServices` and `MaxLoads` bound
what a client does. Cancellations tie with requests, fall in the same second, and
are asked for on the departure day. Three calls are enough for a call to start on
the leftovers of two, of either method. Two services, with two StdAir and two SEvMgr
services of the client, are enough for two that share a tree, two that do not, one
whose pointers do not belong together, and one that owns its tree; a third one would
multiply the states by the pairs of pointers, and the theorems of section 4 cover any
number. Three loads leave room for one that fails between two that do not.
`NearChronological` and `StampsCloseToTimes` are tight: one millisecond less is
violated.

Some outcomes that these properties state are not what a user would wish, and
hold all the same: requests dropped during the first loop stay in the actual
number (`ActualTally`), a Python call that failed leaves its requests to the next
one (`CallsAccounted`, `LiveRequests`), a failed load keeps the rows before it
(`PrefixLoaded`), a Python run may have the streams of a load that failed
(`PythonRunsOneInit`), and a service whose two pointers do not belong together
works on the tree its SEvMgr service points at, whatever its StdAir pointer is
(`LoadsFound`).
A request made at the midnight that begins the departure date may still be
cancelled, at that very time; one made later is not (`CancelledBeforeDeparture`).
Between two Python calls, if none failed, requests and streams are as they were
before any call, but the actual number is zero where it was the sum of the means
at first (`CleanBetweenCalls` does not compare it).

Three runs are expected to fail: each refutes a sentence of a comment or an
assertion of the code.

- `claim_dropped`: a stream with a dropped request is not fully generated.
- `claim_pattern`: without a point one day before departure, the Poisson process
  fails the assertion of `getUpperBound`.
- `claim_sample`: the preferred departure times of the built-in stream BKK-HKG
  are not a cumulative distribution.

Other comments are loose, without a run of their own: `getValue` and its kin look
for a point "greater or equal" and take the first strictly greater one
(`ContinuousAttributeLite.hpp:43`); the millisecond added to "strictly later"
requests (`DemandStream.cpp:415`) does not keep two from falling together;
the grammar in `DemandParserHelper.hpp` is not the one the parser builds;
`displayAirlineListFromDB`, said to display the list of airlines
(`TRADEMGEN_Service.hpp:245`), displays the last one twice, and one when there is
none, as `DisplayAirline` models it; and the Python wrapper answers that `init` was
not called correctly (`pytrademgen.cpp:107`) only when no service was ever
constructed, not after a load that failed.

**Fairness.** `BatchDriver!FairSpec` and `DemandLoading!FairSpec` are weak fairness
of the step of a single thread that never waits. `InteractiveSession!FairSpec` is
weak fairness of a running command only: nothing obliges the user to type. For the
Poisson process termination of a run is certain only with probability one, and no
fairness of the code implies it, so that `AllRunsComplete` is stated for order
statistics. The other modules state no liveness, hence no fairness.

**Deadlock** is checked wherever a program runs (a finished or aborted one stutters
explicitly); the run that sweeps the distributions stops at the end of its sweep.

## 4. Proofs

The theorems hold for any number of streams, runs, commands, calls, services and
loads, any files, patterns, totals, means and units that satisfy the assumptions
named in the modules (`UnitsAssumption`, `InputAssumption`, `ArrivalAssumption`,
`CancellationAssumption`, `FileAssumption`, `ManagerAssumption`, `SweepAssumption`,
`LifeCycleAssumption`...). TLC evaluates the assumptions in the runs. They say what
the constructors and the grammar make: a map sorted by value, a mean that is not
negative, a pair that has a code and a mass. The theorems about one method of
generation have it as a hypothesis; the others cover both.

Each inductive invariant below was checked by TLC before it was proved.

**Operators** (`Operators_proofs`). For every list of points with increasing
values: `GetValue` stays in the range of the values (`GetValueInRange`) and is
monotone in the probability (`GetValueMonotone`), even in a column that is not
cumulative; where it is, `GetValue` inverts the curve, whatever its plateaus and
jumps (`GetValueInverts`); `GetUpperBound` is the next point (`UpperBoundIsNext`).
For every list of masses, a value is drawn by as many of the random numbers as its
mass says (`DrawsFollowMasses`) and the look-up throws exactly above the sum of the
masses (`DrawFailsAboveTotal`). With the built-in FRAT5 pattern and any advance a
later request never pays less (`LaterRequestsPayMore`). The theorems rest on lemmas about integer division (which segment is
found, and that interpolating in it and rounding down keeps the order), and on sums.
A sum over the streams, or over a list, is a fold, which the library defines by
recursion over sets; that it solves its equations for every finite set
(`SumSolves`), and from there `SumSplit`, `SumAppend` and their kin, is proved with
the least counterexample (`LeastElement`): a smallest set for which it fails cannot
be. The same argument shows that lists of natural numbers, the most significant
first, do not descend for ever (`RanksWellFounded`).

**Built-in demand and the sweep** (`DemandSources_proofs`). A curve is entered pair by
pair into a map; whatever the order of the insertions the places of the keys are
the numbers from one on, by counting (`PlacesAreAll`), and the curve is a list of
points (`CurveIsPointList`). So are all the curves of the sample, the one with a
misplaced hour included, and all its lists of masses add up to one
(`SampleFacts`). The invariant of the sweep of `MCDistributions`, `SweepInv`, is
that the hits are the counts of the look-ups of the numbers so far. With the
theorems on the operators it gives the four invariants of the run `distributions`
(`SweepInvertsCurve`, `SweepSharesFollowMasses`, `SweepSampleRequestsComplete`,
`SweepLaterPaysMore`), for any bounds on its lists and any unit.

**The manager** (`DemandManager_proofs`). The operations keep the types
(`ManagerTyped`), the date-time of a request is monotone in the probability
(`RequestTimeMonotone`), and there is a balance: `Taken(s)` is what a stream answers
for, less what waits and what was dropped. A generation leaves it alone
(`GenerationBalance`: one more request is counted, or the stream stops, and one
more waits or is dropped), a pop adds one, a reset clears it. Each driver then only
has to show that the balance is its own count: of the requests handled, deleted or
popped. Two more groups of lemmas say what each operation does to the progress
figures, as sums over the streams, and to the order: where the request generated
stands with respect to the last one of its stream, under either method
(`NextNotEarlier`). The last two are about going on: a generation lowers what is
left to generate (`GenerationLowersLeft`), and `Roomy`, which every operation keeps,
says that above the probability a stream has reached the grid still holds the
requests it has left, so that there is a draw to make (`DrawsExistForAll`) and,
the queue being finite, a stamp to give (`StampsExist`).

**Batch program, either method** (`BatchDriver_proofs`). `TypeCorrect`, then
`OneLiveRequest`, `RequestsAccounted`, `ChainUnbroken` and `DropEndsTheChain` (which no
run lists) from one inductive invariant, `Bookkeeping`. Their conjunction alone is
not inductive: `ChainUnbroken` speaks only of the main loop, and nothing in it says
that the loop of the first requests leaves no stream behind. `Bookkeeping` adds that
the streams this loop has not reached are `Pristine` and those it has reached are
`Chained`, and that the iterator is back at the start in the main loop. The
argument at each generation: the stream has no request in the queue and no drop,
so the one request generated is its only one, queued or dropped
(`GenerationChains`). The order over all the streams follows: when a stream queues
a request each other stream has at most one waiting (`QueueHasRoom`, an injection
from the queue into the other streams), so a free stamp is at most `NbStreams - 1`
milliseconds away (`StampsCloseToTimesHolds`), and whatever waits behind the popped
request has a greater stamp (`NearlyOrdered`, hence `NearChronologicalHolds`).
`ActualTally` speaks of the main loop, after the sum of the totals has overwritten
the figure. `Tallied` adds what the loop of the first requests has summed so far
(`sumActual` is the sum of the totals of the streams it has passed); at its end it
is the sum over all, and the drops so far are those of `forgotten`
(`ActualTallyHolds`).

**Order statistics** (`BatchDriver_proofs`). `Bounded` (a stream counts no more
than its total) and `Timed` (the date-time of a waiting or popped request is that
of the probability its stream has reached) are added to the invariant. The draws
grow, the lookup is monotone, both roundings are monotone, so the next request is
never earlier: `SanityCheckNeverFails`. `WithinTotalHolds` follows from `Bounded`
and the books. `DriverImplementsPlan` maps each step to a step of `DemandPlan` or
to a stutter; the end of a run needs `ChainUnbroken`, a service needs `Bounded`.

**Poisson process** (`BatchDriver_proofs`), stream by stream, for those whose
pattern has the point one day before departure and does not start after it
(`ClosedPattern`; the runs `batch_poisson` and `claim_pattern` show what happens
otherwise). `PoissonInv` says where each such stream stands, that it has stopped
exactly when a request of it was dropped, and the date-time of its live request; it
says nothing of the other streams, which cannot disturb it. Every draw before the
stopping point falls before the day of departure, and is queued (`EarlyRequest`);
the stopping draw falls one day after it, and is dropped (`StopRequest`). Hence
`PoissonEndsByDropHolds`, that an assertion fails only for a stream without the
point (`AbortOnlyWithoutLastBoundHolds`), and none when all have it
(`PoissonNeverAborts`).

**Interactive program** (`InteractiveSession_proofs`). `SessionInv` is the types, the
balance, the bound by the total, and `WaitingBehind`: with order statistics nothing
that waits is later than the probability its stream has reached. The chains of the
batch program do not exist here, a user may ask for the next request of a stream
that has one waiting, and so the order of the requests (`StreamInOrderHolds`) needs
the last of these. Every command keeps `SessionInv`; each but the reset revives no
stream (`FinishedUntilResetHolds`).

**Python wrapper** (`PythonSession_proofs`). A call chooses its method, so the module
has the manager twice; the lemmas on the manager come with each
(`INSTANCE DemandManager_proofs WITH Method <- ...`), and their assumptions are
proved from those of the wrapper. The invariant `SessionInv` must say what is left
by calls that failed, of either method: the balance with the requests lost to
exceptions (`Accounts`); at most one live request per stream and failed call, and
one less before the call at hand has started the stream (`LiveBound`); that the
service is clean if no call failed (`CleanBetweenCalls`, `NotYetReached`,
`MethodsUsed`); that a Poisson stream that goes on is inside its pattern
(`InPattern`); and that what is live is not later than its stream: with order
statistics as long as no Poisson process was used, whatever failed
(`BehindOrderStatistics`), with the Poisson process only as long as nothing failed
(`BehindPoisson`). `SanityFailsOnlyOnLeftoversHolds` follows from the last two. The
property used to say also that a request of the stream that fails the check was
dropped. With two streams it was never violated; with three, TLC found a trace in
which altered stamps put two requests of a stream out of order by a millisecond, and
the check fails without a drop. The proof asked the question, and that part of the
property is gone.

**Cancellations** (`Cancellation_proofs`). `CancellationInv` is the types, the balance
of the requests, the books of the cancellations (`CancellationBooks`, which also
says that none is handled or waits before the status exists), that a cancellation
is asked for a request only, and that a run is left while the simulation goes on.
With the count of the progress, a sum over the streams, it gives
`RequestsUndisturbedHolds`. `CancelledBeforeDepartureHolds` rests on an arithmetic
lemma, `CancellationTimeBounded`: before the departure date both truncations round
the time left down, and after it, where they round towards zero from below, the
cancellation would fall before its request and is not generated.
`NothingBehindTheClockHolds` needs to know that a stream and its live request are in
step (`ClockInv`): what the stream generates next is not earlier than the request
being handled, by the draws or by the process, a cancellation is not earlier than
its request, and the stamp of either is not earlier than its date-time.

**Loading of files** (`DemandSources_proofs`). `LoadInv` says what is staged at each
point of a row (`Stage`): a list holds the pairs read of it so far and nothing else,
another field what the row says once it was read, no minutes are left, and of the
streams of the row there are those of the days before the one at hand. The actions
of the grammar are taken one by one, the lists pair by pair.
`RowsInv` says what the rows before the current one left, a stream for each active
day, and that the streams are in order. Hence `RowIsolatedHolds`,
`PrefixLoadedHolds` and `NoErrorIsSwallowedHolds`.
`ExpectationFollowsStreamsHolds` adds the mean of each stream as it is created.

**Objects and programs** (`Programs_proofs`). `ObjectsInv` has four parts. The types.
`PointersSet`: what the client and the SEvMgr services point at exists; the context
of an existing service points at a StdAir service or at none and at a SEvMgr service
or at none, and if it owns them, at both, the one over the other; that of a destroyed
service points at nothing. `CopyInStep`. And `StreamsHang`: a stream hangs on one
tree, belongs to a load that was made, and the service that made it finds it. The
last needs the others: a load adds streams that no tree has (`HangWithLoad`), and the
steps that only add contexts and trees or let them go disturb none
(`HangWithoutLoad`). It gives `LoadsFoundHolds`, whichever pointers a client gave,
the second part `NothingOutlivesItsUsersHolds`, and `CopyInStepHolds` is the third.
For the Python wrapper `HandleIsLast` says that the handle is the last service
constructed and that the last load is its own, which it finds alone
(`PythonRunsOneInitHolds`): every property of the run `programs` is a theorem. That
StdAir copies the demand streams with its tree is assumed: the copy is made in that
library.

**Termination, but for the fairness.** `AllRunsComplete`, `CommandsReturn` and
`LoadingEnds` are liveness, which TLC checks. What they rest on is proved, for every
value of the constants, in two halves. *No step is wasted*: each step of the batch
with order statistics lowers a rank of five natural numbers, the runs, the first
requests, the requests left, the events waiting and the popped one
(`BatchDescendsHolds`); each step of a command lowers what it has left
(`CommandsDescend`); each step of a load lowers the rank of its phase, rows, fields,
pairs and days, where a reversed range counts its days to the end of the calendar
(`LoadingDescends`). By `RanksWellFounded` none of them goes on for ever. *No step
is missing*: a stream about to generate has a draw to make, its request a free
stamp, and a queue that is not empty an earliest event (`DrawsAlwaysAvailable`,
`SessionDrawsAlwaysAvailable`, under either method); a load that has not ended has
a row, a field with a semantic action and a pair to go on with
(`LoadingNeverStuck`). There is no rank for the Poisson process, which may make any
number of draws before it stops: nothing in the code bounds them. The rank of the
batch has the order statistics as its hypothesis, the one of the commands holds for
`generate_first_br` under both methods.

**Only model-checked.** The liveness properties themselves, which need fairness and
ENABLED, out of the prover's reach. Every other property of the passing runs is a
theorem.

## 5. Not modelled

The displays, the statistics and output file of the batch program, the line editing
of the interactive one, the log tools and the build system hold no state that a
property could be about. The SQL statement of `DBManager` has no caller and its
body is commented out. What StdAir does with two demand streams of the same key is
a matter of that library, and the rows of a modelled file have keys of their own;
likewise the snapshots and break points of SEvMgr, which this repository does not
use. The characters of a demand file are abstracted to fields that match or do
not. Floating-point rounding inside a lookup is modelled only as the rounding of
its result, and the parser's conversion of probabilities not at all.
