------------------------- MODULE BatchDriver_proofs -------------------------
(***************************************************************************)
(* Proofs about the batch driver, for any number of streams and runs, any    *)
(* arrival patterns and any totals.  The first part holds with both methods   *)
(* of generation.  The second is about order statistics: requests in time     *)
(* order, no stream beyond its total, the implementation of the plan.  The    *)
(* third is about the Poisson process: a stream whose arrival pattern has a    *)
(* point one day before departure ends by one dropped draw, and no assertion  *)
(* fails because of it, whatever the patterns of the other streams.          *)
(***************************************************************************)
EXTENDS BatchDriver, DemandManager_proofs

-----------------------------------------------------------------------------
(* Types. *)

(* The state of the driver has the types the manager wants. *)
LEMMA DriverTyped == TypeOK => ManagerTyped
BY StreamsAssumption DEF TypeOK, ManagerTyped, Event, Streams

(* The types that a generation keeps. *)
LEMMA GenerationType ==
  ASSUME TypeOK, NEW s \in Streams, NEW st \in StreamState, StillHaving(st),
         NEW d \in NextDraws(s, st), GenerateNextRequest(s, st, d)
  PROVE  /\ stream' \in [Streams -> StreamState]
         /\ queue' \in SUBSET Event /\ IsFiniteSet(queue')
         /\ status' \in [expected : Int, current : Nat, actual : Int]
         /\ dropped' \in [Streams -> Nat]
<1>1. /\ AfterRequest(st, d) \in StreamState
      /\ stream' = [stream EXCEPT ![s] = AfterRequest(st, d)]
      /\ RequestTime(s, d) \in Int
      /\ status' \in [expected : Int, current : Nat, actual : Int]
  BY Generation, DriverTyped
<1>2. stream' \in [Streams -> StreamState]
  BY <1>1 DEF TypeOK
<1>3. CASE /\ dropped' = dropped
           /\ \E x \in Int :
                queue' = queue \cup {[key |-> s, time |-> RequestTime(s, d), stamp |-> x]}
  <2>1. PICK x \in Int :
          queue' = queue \cup {[key |-> s, time |-> RequestTime(s, d), stamp |-> x]}
    BY <1>3
  <2>2. queue' \in SUBSET Event
    BY <1>1, <2>1 DEF TypeOK, Event
  <2>3. IsFiniteSet(queue')
    BY <2>1, FS_AddElement DEF TypeOK
  <2>4. QED BY <1>1, <1>2, <1>3, <2>2, <2>3 DEF TypeOK
<1>4. CASE dropped' = [dropped EXCEPT ![s] = @ + 1] /\ queue' = queue
  BY <1>1, <1>2, <1>4 DEF TypeOK
<1>5. QED BY <1>3, <1>4, Generation, DriverTyped

(* The initial state is well typed. *)
LEMMA InitTyped == Init => TypeOK
<1> SUFFICES ASSUME Init PROVE TypeOK
  OBVIOUS
<1>1. stream \in [Streams -> StreamState]
  <2>1. PICK n \in [Streams -> UNION {Draws[s] : s \in Streams}] :
          /\ \A s \in Streams : n[s] \in Draws[s]
          /\ stream = [s \in Streams |-> NewStream(n[s])]
    BY DEF Init, ManagerInit
  <2>2. \A s \in Streams : NewStream(n[s]) \in StreamState
    BY <2>1, DrawnTotals, NewStreamType
  <2>3. QED BY <2>1, <2>2
<1>2. queue \in SUBSET Event /\ IsFiniteSet(queue)
  BY FS_EmptySet DEF Init, ManagerInit
<1>3. status \in [expected : Int, current : Nat, actual : Int]
  BY MeanAssumption DEF Init, ManagerInit
<1>4. itStream \in 1 .. NbStreams + 1 /\ run \in 1 .. NbRuns + 1 /\ run # NbRuns + 1
  BY StreamsAssumption, RunsAssumption DEF Init, ManagerInit
<1>5. QED BY <1>1, <1>2, <1>3, <1>4 DEF TypeOK, Init, ManagerInit

(* The state is well typed: the counters of the streams are natural numbers,
   a probability stays below one, and the keys in the queue are streams. *)
THEOREM TypeCorrect == Spec => []TypeOK
<1>1. Init => TypeOK
  BY InitTyped
<1>2. TypeOK /\ [Next]_vars => TypeOK'
  <2> SUFFICES ASSUME TypeOK, [Next]_vars PROVE TypeOK'
    OBVIOUS
  <2>1. CASE FirstRequest
    <3>1. PICK s \in Streams : s = itStream
      BY <2>1 DEF FirstRequest, FirstRequestOfStream, TypeOK, Streams
    <3>2. SetFirst(stream[s]) \in StreamState
      BY SetFirstType DEF TypeOK
    <3>3. /\ stream' \in [Streams -> StreamState]
          /\ queue' \in SUBSET Event /\ IsFiniteSet(queue')
          /\ status' \in [expected : Int, current : Nat, actual : Int]
          /\ dropped' \in [Streams -> Nat]
      <4>1. CASE StillHaving(SetFirst(stream[s]))
        <5>1. PICK d \in NextDraws(s, SetFirst(stream[s])) :
                GenerateNextRequest(s, SetFirst(stream[s]), d)
          BY <2>1, <3>1, <4>1 DEF FirstRequest, FirstRequestOfStream
        <5>2. QED BY <3>2, <4>1, <5>1, GenerationType
      <4>2. CASE ~StillHaving(SetFirst(stream[s]))
        <5>1. /\ stream' = [stream EXCEPT ![s] = SetFirst(stream[s])]
              /\ UNCHANGED <<queue, status, dropped>>
          BY <2>1, <3>1, <4>2 DEF FirstRequest, FirstRequestOfStream
        <5>2. QED BY <3>2, <5>1 DEF TypeOK
      <4>3. QED BY <4>1, <4>2
    <3>4. itStream' \in 1 .. NbStreams + 1
      BY <2>1, StreamsAssumption DEF FirstRequest, FirstRequestOfStream, TypeOK
    <3>5. sumActual' \in Int
      <4>1. sumActual' = sumActual + SetFirst(stream[s]).total
        BY <2>1, <3>1 DEF FirstRequest, FirstRequestOfStream
      <4>2. SetFirst(stream[s]).total \in Int
        BY <3>2 DEF StreamState
      <4>3. QED BY <4>1, <4>2 DEF TypeOK
    <3>6. QED BY <2>1, <3>3, <3>4, <3>5 DEF FirstRequest, FirstRequestOfStream, TypeOK, Event
  <2>2. CASE StartMainLoop
    <3>1. status' \in [expected : Int, current : Nat, actual : Int]
      BY <2>2 DEF StartMainLoop, FirstRequestsDone, UpdateStatus, TypeOK
    <3>2. itStream' \in 1 .. NbStreams + 1
      BY <2>2, StreamsAssumption DEF StartMainLoop, FirstRequestsDone
    <3>3. QED BY <2>2, <3>1, <3>2 DEF StartMainLoop, FirstRequestsDone, TypeOK, Event
  <2>3. CASE Pop
    <3>1. PICK e \in queue : PopEvent(e) /\ event' = e /\ popped' = [popped EXCEPT ![e.key] = @ + 1]
      BY <2>3 DEF Pop
    <3>2. e \in Event /\ e.key \in Streams
      BY <3>1 DEF TypeOK, Event
    <3>3. status' \in [expected : Int, current : Nat, actual : Int]
      BY <3>1 DEF PopEvent, TypeOK
    <3>4. queue' \in SUBSET Event /\ IsFiniteSet(queue')
      BY <3>1, FS_RemoveElement DEF PopEvent, TypeOK
    <3>5. popped' \in [Streams -> Nat]
      BY <3>1, <3>2 DEF TypeOK
    <3>6. event' \in Event /\ event' # NoEvent
      BY <3>1, <3>2, StreamsAssumption DEF Event, NoEvent, Streams
    <3>7. QED BY <2>3, <3>3, <3>4, <3>5, <3>6 DEF Pop, TypeOK
  <2>4. CASE NextRequest
    <3> DEFINE s == event.key
    <3>1. s \in Streams /\ StillHaving(stream[s])
      BY <2>4 DEF NextRequest, TypeOK, Event, NoEvent
    <3>2. PICK d \in NextDraws(s, stream[s]) : GenerateNextRequest(s, stream[s], d)
      BY <2>4 DEF NextRequest
    <3>3. /\ stream' \in [Streams -> StreamState]
          /\ queue' \in SUBSET Event /\ IsFiniteSet(queue')
          /\ status' \in [expected : Int, current : Nat, actual : Int]
          /\ dropped' \in [Streams -> Nat]
      <4>1. stream[s] \in StreamState
        BY <3>1 DEF TypeOK
      <4> HIDE DEF s
      <4>2. QED BY <3>1, <3>2, <4>1, GenerationType
    <3>4. QED BY <2>4, <3>3 DEF NextRequest, TypeOK, Event
  <2>5. CASE StreamExhausted
    BY <2>5 DEF StreamExhausted, managerVars, TypeOK, Event
  <2>6. CASE EndRun
    <3>1. stream' \in [Streams -> StreamState]
      <4>1. PICK n \in [Streams -> UNION {Draws[s] : s \in Streams}] :
              /\ \A s \in Streams : n[s] \in Draws[s]
              /\ stream' = [s \in Streams |-> ResetStream(stream[s], n[s])]
        BY <2>6 DEF EndRun, ManagerReset
      <4>2. \A s \in Streams : ResetStream(stream[s], n[s]) \in StreamState
        BY <4>1, DrawnTotals, ResetStreamType DEF TypeOK
      <4>3. QED BY <4>1, <4>2
    <3>2. queue' = {} /\ IsFiniteSet(queue')
      BY <2>6, FS_EmptySet DEF EndRun, ManagerReset, ResetQueue
    <3>3. status' \in [expected : Int, current : Nat, actual : Int]
      <4> DEFINE S == [expected : Int, current : Nat, actual : Int]
                 a == [status EXCEPT !.current = 0]
      <4>1. a \in S
        BY DEF TypeOK
      <4>2. [a EXCEPT !.actual = 0] \in S
        <5> HIDE DEF a
        <5> QED BY <4>1
      <4>3. status' = [a EXCEPT !.actual = 0]
        BY <2>6 DEF EndRun, ManagerReset, ResetQueue
      <4>4. QED BY <4>2, <4>3
    <3>4. run' \in 1 .. NbRuns + 1 /\ (run' = NbRuns + 1 => pc' = "done") /\ pc' # "next"
      BY <2>6, RunsAssumption DEF EndRun, TypeOK
    <3>5. /\ queue' \in SUBSET Event /\ IsFiniteSet(queue')
          /\ popped' \in [Streams -> Nat]
          /\ dropped' \in [Streams -> Nat] /\ forgotten' \in [Streams -> Nat]
          /\ pc' \in {"first", "done"} /\ event' = event
          /\ itStream' = itStream /\ sumActual' = sumActual
      BY <2>6, <3>2 DEF EndRun, ManagerReset
    <3>6. event' \in Event \cup {NoEvent} /\ (pc' = "next" => event' # NoEvent)
      BY <3>5 DEF TypeOK
    <3>7. pc' \in {"first", "loop", "next", "done", "aborted"}
      BY <3>5
    <3>8. itStream' \in 1 .. NbStreams + 1 /\ sumActual' \in Int
      BY <3>5 DEF TypeOK
    <3>9. QED BY <3>1, <3>3, <3>4, <3>5, <3>6, <3>7, <3>8 DEF TypeOK
  <2>7. CASE AbortOnPattern
    <3>1. run # NbRuns + 1
      BY <2>7 DEF AbortOnPattern, IsGenerating, TypeOK
    <3>2. pc' = "aborted" /\ UNCHANGED <<managerVars, run, event, popped>>
      BY <2>7 DEF AbortOnPattern
    <3>3. QED BY <3>1, <3>2 DEF managerVars, TypeOK
  <2>8. CASE UNCHANGED vars
    BY <2>8 DEF vars, managerVars, TypeOK, Event
  <2>9. QED
    BY <2>1, <2>2, <2>3, <2>4, <2>5, <2>6, <2>7, <2>8 DEF Next, Step, Terminating
<1>3. QED BY <1>1, <1>2, PTL DEF Spec

-----------------------------------------------------------------------------
(* The bookkeeping of the requests. *)

(* Nothing has happened yet to a stream that the loop of generateFirstRequests
   has not reached. *)
Pristine(s) ==
  /\ stream[s].soFar = 0 /\ stream[s].still = TRUE
  /\ ~HasQueued(s) /\ popped[s] = 0 /\ dropped[s] = 0

(* The chain of requests of a stream is alive, complete or broken by a drop. *)
Chained(s) == HasQueued(s) \/ ~StillHaving(stream[s]) \/ dropped[s] > 0

(* The inductive invariant: the properties of the main loop, and what holds
   while the first requests are generated. *)
Bookkeeping ==
  /\ OneLiveRequest /\ RequestsAccounted /\ DropEndsTheChain /\ ChainUnbroken
  /\ pc = "first" =>
       /\ \A s \in itStream .. NbStreams : Pristine(s)
       /\ \A s \in 1 .. itStream - 1 : Chained(s)
  /\ pc \in {"loop", "next"} => itStream = 1

(* What a generation does to the chain of its stream, and that it leaves the
   other streams alone. *)
LEMMA GenerationChains ==
  ASSUME TypeOK, NEW s \in Streams, NEW st \in StreamState, StillHaving(st),
         NEW d \in NextDraws(s, st), GenerateNextRequest(s, st, d),
         \A e, f \in queue : e.key = f.key => e = f,
         ~HasQueued(s), dropped[s] = 0
  PROVE  /\ \A e, f \in queue' : e.key = f.key => e = f
         /\ \A r \in Streams \ {s} :
              /\ stream'[r] = stream[r] /\ dropped'[r] = dropped[r]
              /\ HasQueued(r)' <=> HasQueued(r)
         /\ stream'[s] = AfterRequest(st, d)
         /\ \/ HasQueued(s)' /\ dropped'[s] = 0
            \/ ~HasQueued(s)' /\ dropped'[s] = 1
<1>1. /\ stream' = [stream EXCEPT ![s] = AfterRequest(st, d)]
      /\ \/ /\ dropped' = dropped
            /\ \E x \in Int :
                 queue' = queue \cup {[key |-> s, time |-> RequestTime(s, d), stamp |-> x]}
         \/ /\ dropped' = [dropped EXCEPT ![s] = @ + 1]
            /\ queue' = queue
  BY Generation, DriverTyped
<1>2. /\ stream'[s] = AfterRequest(st, d)
      /\ \A r \in Streams \ {s} : stream'[r] = stream[r]
  BY <1>1 DEF TypeOK
<1>3. CASE /\ dropped' = dropped
           /\ \E x \in Int :
                queue' = queue \cup {[key |-> s, time |-> RequestTime(s, d), stamp |-> x]}
  <2>1. PICK x \in Int :
          queue' = queue \cup {[key |-> s, time |-> RequestTime(s, d), stamp |-> x]}
    BY <1>3
  <2> DEFINE new == [key |-> s, time |-> RequestTime(s, d), stamp |-> x]
  <2>2. queue' = queue \cup {new} /\ new.key = s
    BY <2>1
  <2> HIDE DEF new
  <2>3. QED BY <1>2, <1>3, <2>2 DEF HasQueued
<1>4. CASE dropped' = [dropped EXCEPT ![s] = @ + 1] /\ queue' = queue
  BY <1>2, <1>4 DEF HasQueued, TypeOK
<1>5. QED BY <1>1, <1>3, <1>4

(* The generation of the next request of a stream whose chain is free keeps the
   books. *)
LEMMA GenerationKeepsBooks ==
  ASSUME TypeOK, OneLiveRequest, RequestsAccounted, DropEndsTheChain,
         NEW s \in Streams, NEW st \in StreamState, StillHaving(st),
         st.soFar = stream[s].soFar, st.still = stream[s].still,
         NEW d \in NextDraws(s, st), GenerateNextRequest(s, st, d),
         ~HasQueued(s), dropped[s] = 0,
         popped' = popped, pc' # "next"
  PROVE  /\ OneLiveRequest' /\ RequestsAccounted' /\ DropEndsTheChain'
         /\ Chained(s)'
         /\ \A r \in Streams \ {s} :
              /\ stream'[r] = stream[r] /\ dropped'[r] = dropped[r]
              /\ HasQueued(r)' <=> HasQueued(r)
<1>1. \A e, f \in queue : e.key = f.key => e = f
  BY DEF OneLiveRequest
<1>2. /\ \A e, f \in queue' : e.key = f.key => e = f
      /\ \A r \in Streams \ {s} :
           /\ stream'[r] = stream[r] /\ dropped'[r] = dropped[r]
           /\ HasQueued(r)' <=> HasQueued(r)
      /\ stream'[s] = AfterRequest(st, d)
      /\ \/ HasQueued(s)' /\ dropped'[s] = 0
         \/ ~HasQueued(s)' /\ dropped'[s] = 1
  BY <1>1, GenerationChains
<1>3. OneLiveRequest'
  BY <1>2 DEF OneLiveRequest
<1>4. RequestsAccounted'
  <2> SUFFICES ASSUME NEW r \in Streams
               PROVE  Counted(stream'[r]) = popped[r] + (IF HasQueued(r)' THEN 1 ELSE 0) + dropped'[r]
    BY DEF RequestsAccounted, Counted
  <2>1. Counted(stream[r]) = popped[r] + (IF HasQueued(r) THEN 1 ELSE 0) + dropped[r]
    BY DEF RequestsAccounted, Counted
  <2>2. CASE r # s
    BY <1>2, <2>1, <2>2
  <2>3. CASE r = s
    <3>1. Counted(stream'[s]) = Counted(stream[s]) + 1
      <4>1. Counted(AfterRequest(st, d)) = Counted(st) + 1
        BY AfterRequestCounted
      <4>2. Counted(st) = Counted(stream[s])
        BY DEF Counted
      <4>3. QED BY <1>2, <4>1, <4>2
    <3>2. popped[s] \in Nat
      BY DEF TypeOK
    <3>3. Counted(stream[s]) = popped[s]
      BY <2>1, <2>3, <3>2
    <3>4. QED BY <1>2, <2>3, <3>1, <3>2, <3>3
  <2>4. QED BY <2>2, <2>3
<1>5. DropEndsTheChain'
  BY <1>2 DEF DropEndsTheChain
<1>6. Chained(s)'
  BY <1>2 DEF Chained
<1>7. QED BY <1>2, <1>3, <1>4, <1>5, <1>6

(* The books are right when the program starts. *)
LEMMA InitBooks == Init => Bookkeeping
<1> SUFFICES ASSUME Init PROVE Bookkeeping
  OBVIOUS
<1>1. PICK n \in [Streams -> UNION {Draws[s] : s \in Streams}] :
        stream = [s \in Streams |-> NewStream(n[s])]
  BY DEF Init, ManagerInit
<1>2. \A s \in Streams : stream[s].soFar = 0 /\ stream[s].still = TRUE
  BY <1>1 DEF NewStream
<1>3. \A s \in Streams : ~HasQueued(s) /\ popped[s] = 0 /\ dropped[s] = 0
  BY DEF Init, ManagerInit, HasQueued
<1>4. queue = {} /\ pc = "first" /\ itStream = 1
  BY DEF Init, ManagerInit
<1>5. \A s \in Streams : Pristine(s)
  BY <1>2, <1>3 DEF Pristine
<1>6. RequestsAccounted
  BY <1>2, <1>3 DEF RequestsAccounted
<1>7. OneLiveRequest /\ DropEndsTheChain /\ ChainUnbroken
  BY <1>3, <1>4 DEF OneLiveRequest, DropEndsTheChain, ChainUnbroken
<1>8. QED
  BY <1>4, <1>5, <1>6, <1>7, StreamsAssumption DEF Bookkeeping, Streams

(* An iteration of generateFirstRequests keeps the books: the stream it reaches is
   pristine, and has its chain afterwards. *)
LEMMA FirstRequestBooks ==
  ASSUME TypeOK, Bookkeeping, FirstRequest
  PROVE  Bookkeeping'
<1>0. PICK s \in Streams : s = itStream
  BY DEF FirstRequest, FirstRequestOfStream, TypeOK, Streams
<1> DEFINE st == SetFirst(stream[s])
<1>1. /\ pc = "first" /\ pc' = "first" /\ itStream = s /\ itStream' = s + 1
      /\ popped' = popped /\ event' = event
  BY <1>0 DEF FirstRequest, FirstRequestOfStream
<1>2. Pristine(s)
  BY <1>1, StreamsAssumption DEF Bookkeeping, Streams
<1>3. st \in StreamState /\ st.soFar = stream[s].soFar /\ st.still = stream[s].still
  <2>1. stream[s] \in StreamState
    BY <1>1 DEF TypeOK
  <2>2. st \in StreamState
    BY <2>1, SetFirstType
  <2>3. QED BY <2>1, <2>2 DEF SetFirst, StreamState
<1>4. /\ OneLiveRequest' /\ RequestsAccounted' /\ DropEndsTheChain' /\ Chained(s)'
      /\ \A r \in Streams \ {s} :
           /\ stream'[r] = stream[r] /\ dropped'[r] = dropped[r]
           /\ HasQueued(r)' <=> HasQueued(r)
  <2>1. CASE StillHaving(st)
    <3>1. PICK d \in NextDraws(s, st) : GenerateNextRequest(s, st, d)
      BY <1>1, <2>1 DEF FirstRequest, FirstRequestOfStream
    <3>2. ~HasQueued(s) /\ dropped[s] = 0
      BY <1>2 DEF Pristine
    <3>3. OneLiveRequest /\ RequestsAccounted /\ DropEndsTheChain
      BY DEF Bookkeeping
    <3> HIDE DEF st
    <3>4. QED BY <1>1, <1>3, <2>1, <3>1, <3>2, <3>3, GenerationKeepsBooks
  <2>2. CASE ~StillHaving(st)
    <3>1. stream' = [stream EXCEPT ![s] = st] /\ UNCHANGED <<queue, status, dropped>>
      BY <1>1, <2>2 DEF FirstRequest, FirstRequestOfStream
    <3>2. stream'[s] = st /\ \A r \in Streams \ {s} : stream'[r] = stream[r]
      BY <1>1, <3>1 DEF TypeOK
    <3>3. \A r \in Streams : HasQueued(r)' <=> HasQueued(r)
      BY <3>1 DEF HasQueued
    <3>4. \A r \in Streams :
            stream'[r].soFar = stream[r].soFar /\ stream'[r].still = stream[r].still
      <4> HIDE DEF st
      <4>1. QED BY <1>3, <3>2
    <3>5. RequestsAccounted'
      BY <1>1, <3>1, <3>3, <3>4 DEF Bookkeeping, RequestsAccounted
    <3>6. OneLiveRequest' /\ DropEndsTheChain'
      BY <1>1, <3>1, <3>3 DEF Bookkeeping, OneLiveRequest, DropEndsTheChain
    <3>7. Chained(s)'
      BY <2>2, <3>2 DEF Chained
    <3>8. QED BY <3>1, <3>2, <3>3, <3>5, <3>6, <3>7
  <2>3. QED BY <2>1, <2>2
<1>5. \A r \in itStream' .. NbStreams : Pristine(r)'
  <2> SUFFICES ASSUME NEW r \in itStream' .. NbStreams PROVE Pristine(r)'
    OBVIOUS
  <2>1. r \in Streams \ {s} /\ r \in itStream .. NbStreams
    BY <1>1, StreamsAssumption DEF Streams
  <2>2. Pristine(r)
    BY <1>1, <2>1 DEF Bookkeeping
  <2> HIDE DEF st
  <2>3. QED BY <1>1, <1>4, <2>1, <2>2 DEF Pristine
<1>6. \A r \in 1 .. itStream' - 1 : Chained(r)'
  <2> SUFFICES ASSUME NEW r \in 1 .. itStream' - 1, r # s PROVE Chained(r)'
    BY <1>4
  <2>1. r \in Streams \ {s} /\ r \in 1 .. itStream - 1
    BY <1>1, StreamsAssumption DEF Streams
  <2>2. Chained(r)
    BY <1>1, <2>1 DEF Bookkeeping
  <2> HIDE DEF st
  <2>3. QED BY <1>4, <2>1, <2>2 DEF Chained
<1>7. QED
  <2>1. ChainUnbroken'
    BY <1>1 DEF ChainUnbroken
  <2> HIDE DEF st
  <2>2. QED BY <1>1, <1>4, <1>5, <1>6, <2>1 DEF Bookkeeping

(* When every stream has been reached, every chain is alive, complete or broken. *)
LEMMA StartMainLoopBooks ==
  ASSUME TypeOK, Bookkeeping, StartMainLoop
  PROVE  Bookkeeping'
<1>1. /\ pc = "first" /\ pc' = "loop" /\ itStream = NbStreams + 1 /\ itStream' = 1
      /\ UNCHANGED <<stream, queue, dropped, popped, event>>
  BY DEF StartMainLoop, FirstRequestsDone
<1>2. OneLiveRequest' /\ RequestsAccounted' /\ DropEndsTheChain'
  BY <1>1 DEF Bookkeeping, OneLiveRequest, RequestsAccounted, DropEndsTheChain, HasQueued
<1>3. \A s \in Streams : Chained(s)
  BY <1>1, StreamsAssumption DEF Bookkeeping, Streams
<1>4. ChainUnbroken'
  BY <1>1, <1>3 DEF ChainUnbroken, Chained, HasQueued
<1>5. QED BY <1>1, <1>2, <1>4 DEF Bookkeeping

(* A pop moves a request from the queue to the driver. *)
LEMMA PopBooks ==
  ASSUME TypeOK, Bookkeeping, Pop
  PROVE  Bookkeeping'
<1>1. PICK e \in queue :
        /\ queue' = queue \ {e} /\ event' = e
        /\ popped' = [popped EXCEPT ![e.key] = @ + 1]
  BY DEF Pop, PopEvent
<1>2. /\ pc = "loop" /\ pc' = "next" /\ itStream' = itStream
      /\ UNCHANGED <<stream, dropped>>
  BY DEF Pop
<1> DEFINE s == e.key
<1>3. s \in Streams /\ HasQueued(s)
  BY <1>1 DEF TypeOK, Event, HasQueued
<1>4. ~HasQueued(s)' /\ \A r \in Streams \ {s} : HasQueued(r)' <=> HasQueued(r)
  BY <1>1 DEF Bookkeeping, OneLiveRequest, HasQueued
<1>5. OneLiveRequest'
  BY <1>1, <1>4 DEF Bookkeeping, OneLiveRequest
<1>6. RequestsAccounted'
  <2> SUFFICES ASSUME NEW r \in Streams
               PROVE  Counted(stream[r]) = popped'[r] + (IF HasQueued(r)' THEN 1 ELSE 0) + dropped[r]
    BY <1>2 DEF RequestsAccounted, Counted
  <2>1. Counted(stream[r]) = popped[r] + (IF HasQueued(r) THEN 1 ELSE 0) + dropped[r]
    BY DEF Bookkeeping, RequestsAccounted, Counted
  <2>2. popped[r] \in Nat /\ dropped[r] \in Nat
    BY DEF TypeOK
  <2>3. CASE r # s
    <3>1. popped'[r] = popped[r]
      BY <1>1, <2>3 DEF TypeOK
    <3>2. HasQueued(r)' <=> HasQueued(r)
      BY <1>4, <2>3
    <3>3. QED BY <2>1, <3>1, <3>2
  <2>4. CASE r = s
    <3>1. popped'[r] = popped[r] + 1
      BY <1>1, <2>4 DEF TypeOK
    <3>2. HasQueued(r) /\ ~HasQueued(r)'
      BY <1>3, <1>4, <2>4
    <3>3. QED BY <2>1, <2>2, <3>1, <3>2
  <2>5. QED BY <2>3, <2>4
<1>7. DropEndsTheChain'
  <2>1. dropped[s] # 1
    BY <1>3 DEF Bookkeeping, DropEndsTheChain
  <2>2. QED BY <1>1, <1>2, <1>3, <1>4, <2>1 DEF Bookkeeping, DropEndsTheChain
<1>8. ChainUnbroken'
  BY <1>1, <1>2, <1>4 DEF Bookkeeping, ChainUnbroken
<1>9. QED BY <1>2, <1>5, <1>6, <1>7, <1>8 DEF Bookkeeping

(* The stream of the popped request is free: it has nothing queued and has lost
   nothing. *)
LEMMA PoppedIsFree ==
  ASSUME TypeOK, Bookkeeping, pc = "next"
  PROVE  event.key \in Streams /\ ~HasQueued(event.key) /\ dropped[event.key] = 0
<1>1. event.key \in Streams
  BY DEF TypeOK, Event, NoEvent
<1>2. dropped[event.key] \in Nat
  BY <1>1 DEF TypeOK
<1>3. QED BY <1>1, <1>2 DEF Bookkeeping, OneLiveRequest, DropEndsTheChain

(* The request that follows the popped one keeps the books. *)
LEMMA NextRequestBooks ==
  ASSUME TypeOK, Bookkeeping, NextRequest
  PROVE  Bookkeeping'
<1>1. pc = "next" /\ StillHaving(stream[event.key])
  BY DEF NextRequest
<1>2. PICK s \in Streams : s = event.key
  BY <1>1, PoppedIsFree
<1>3. /\ pc' \in {"loop", "aborted"} /\ itStream' = itStream
      /\ popped' = popped /\ event' = event
  BY DEF NextRequest
<1>4. PICK d \in NextDraws(s, stream[s]) : GenerateNextRequest(s, stream[s], d)
  BY <1>2 DEF NextRequest
<1>5. stream[s] \in StreamState /\ ~HasQueued(s) /\ dropped[s] = 0
  BY <1>1, <1>2, PoppedIsFree DEF TypeOK
<1>6. OneLiveRequest /\ RequestsAccounted /\ DropEndsTheChain
  BY DEF Bookkeeping
<1>7. /\ OneLiveRequest' /\ RequestsAccounted' /\ DropEndsTheChain' /\ Chained(s)'
      /\ \A r \in Streams \ {s} :
           /\ stream'[r] = stream[r] /\ dropped'[r] = dropped[r]
           /\ HasQueued(r)' <=> HasQueued(r)
  BY <1>1, <1>2, <1>3, <1>4, <1>5, <1>6, GenerationKeepsBooks
<1>8. ChainUnbroken'
  <2> SUFFICES ASSUME NEW r \in Streams, r # s PROVE Chained(r)'
    BY <1>7 DEF ChainUnbroken, Chained
  <2>1. Chained(r)
    BY <1>1, <1>2 DEF Bookkeeping, ChainUnbroken, Chained
  <2>2. QED BY <1>7, <2>1 DEF Chained
<1>9. QED BY <1>1, <1>3, <1>7, <1>8 DEF Bookkeeping

(* A complete stream leaves nothing to do. *)
LEMMA StreamExhaustedBooks ==
  ASSUME TypeOK, Bookkeeping, StreamExhausted
  PROVE  Bookkeeping'
<1>1. /\ pc = "next" /\ pc' = "loop" /\ ~StillHaving(stream[event.key])
      /\ UNCHANGED <<stream, queue, dropped, popped, event, itStream>>
  BY DEF StreamExhausted, managerVars
<1>2. OneLiveRequest' /\ RequestsAccounted' /\ DropEndsTheChain'
  BY <1>1 DEF Bookkeeping, OneLiveRequest, RequestsAccounted, DropEndsTheChain, HasQueued
<1>3. ChainUnbroken'
  BY <1>1 DEF Bookkeeping, ChainUnbroken, HasQueued
<1>4. QED BY <1>1, <1>2, <1>3 DEF Bookkeeping

(* A reset makes every stream pristine again. *)
LEMMA EndRunBooks ==
  ASSUME TypeOK, Bookkeeping, EndRun
  PROVE  Bookkeeping'
<1>1. /\ pc = "loop" /\ pc' \in {"first", "done"} /\ itStream = 1 /\ itStream' = 1
      /\ queue' = {} /\ dropped' = [s \in Streams |-> 0] /\ popped' = [s \in Streams |-> 0]
  BY DEF Bookkeeping, EndRun, ManagerReset, ResetQueue
<1>2. PICK n \in [Streams -> UNION {Draws[s] : s \in Streams}] :
        stream' = [s \in Streams |-> ResetStream(stream[s], n[s])]
  BY DEF EndRun, ManagerReset
<1>3. \A s \in Streams : stream'[s].soFar = 0 /\ stream'[s].still = TRUE
  <2> SUFFICES ASSUME NEW s \in Streams
               PROVE  stream'[s].soFar = 0 /\ stream'[s].still = TRUE
    OBVIOUS
  <2>1. stream'[s] = ResetStream(stream[s], n[s]) /\ stream[s] \in StreamState
    BY <1>2 DEF TypeOK
  <2>2. QED BY <2>1 DEF ResetStream, StreamState
<1>4. \A s \in Streams : ~HasQueued(s)' /\ popped'[s] = 0 /\ dropped'[s] = 0
  BY <1>1 DEF HasQueued
<1>5. \A s \in Streams : Pristine(s)'
  BY <1>3, <1>4 DEF Pristine
<1>6. RequestsAccounted'
  BY <1>3, <1>4 DEF RequestsAccounted
<1>7. OneLiveRequest' /\ DropEndsTheChain' /\ ChainUnbroken'
  BY <1>1, <1>4 DEF OneLiveRequest, DropEndsTheChain, ChainUnbroken
<1>8. QED
  BY <1>1, <1>5, <1>6, <1>7, StreamsAssumption DEF Bookkeeping, Streams

(* Steps that leave the streams, the queue and the counts alone, and do not go
   on in the loops, keep the books. *)
LEMMA StutterBooks ==
  ASSUME TypeOK, Bookkeeping, UNCHANGED <<stream, queue, dropped, popped, event, itStream>>,
         pc' = pc \/ pc' = "aborted"
  PROVE  Bookkeeping'
<1>1. OneLiveRequest' /\ RequestsAccounted' /\ DropEndsTheChain'
  BY DEF Bookkeeping, OneLiveRequest, RequestsAccounted, DropEndsTheChain, HasQueued
<1>2. ChainUnbroken'
  BY DEF Bookkeeping, ChainUnbroken, HasQueued
<1>3. pc' = "first" => /\ \A s \in itStream' .. NbStreams : Pristine(s)'
                       /\ \A s \in 1 .. itStream' - 1 : Chained(s)'
  BY DEF Bookkeeping, Pristine, Chained, HasQueued
<1>4. pc' \in {"loop", "next"} => itStream' = 1
  BY DEF Bookkeeping
<1>5. QED BY <1>1, <1>2, <1>3, <1>4 DEF Bookkeeping

(* The books are kept in every reachable state: one live request per stream,
   every counted request accounted for, no chain lost but by a drop, for any
   streams and by either method. *)
THEOREM BooksKept == Spec => []Bookkeeping
<1>1. TypeOK /\ Bookkeeping /\ [Next]_vars => Bookkeeping'
  <2> SUFFICES ASSUME TypeOK, Bookkeeping, [Next]_vars PROVE Bookkeeping'
    OBVIOUS
  <2>1. CASE AbortOnPattern
    BY <2>1, StutterBooks DEF AbortOnPattern, managerVars
  <2>2. CASE UNCHANGED vars
    BY <2>2, StutterBooks DEF vars, managerVars
  <2>3. QED
    BY <2>1, <2>2, FirstRequestBooks, StartMainLoopBooks, PopBooks, NextRequestBooks,
       StreamExhaustedBooks, EndRunBooks DEF Next, Step, Terminating
<1>2. QED BY <1>1, InitBooks, TypeCorrect, PTL DEF Spec

(* A stream never has two requests waiting. *)
THEOREM OneLiveRequestHolds == Spec => []OneLiveRequest
<1>1. Bookkeeping => OneLiveRequest
  BY DEF Bookkeeping
<1>2. QED BY <1>1, BooksKept, PTL

(* Every request that was counted is handled, waiting or dropped. *)
THEOREM RequestsAccountedHolds == Spec => []RequestsAccounted
<1>1. Bookkeeping => RequestsAccounted
  BY DEF Bookkeeping
<1>2. QED BY <1>1, BooksKept, PTL

(* No stream is forgotten in the main loop, except after a drop. *)
THEOREM ChainUnbrokenHolds == Spec => []ChainUnbroken
<1>1. Bookkeeping => ChainUnbroken
  BY DEF Bookkeeping
<1>2. QED BY <1>1, BooksKept, PTL

(* Nothing is generated for a stream after a request of it was dropped. *)
THEOREM DropEndsTheChainHolds == Spec => []DropEndsTheChain
<1>1. Bookkeeping => DropEndsTheChain
  BY DEF Bookkeeping
<1>2. QED BY <1>1, BooksKept, PTL

-----------------------------------------------------------------------------
(* The stamps and the order of the requests of all the streams. *)

(* While a stream with no request waiting is about to queue one, the other
   streams fill the queue with at most one request each. *)
LEMMA QueueHasRoom ==
  ASSUME TypeOK, OneLiveRequest, NEW s \in Streams, ~HasQueued(s)
  PROVE  Cardinality(queue) \in Nat /\ Cardinality(queue) <= NbStreams - 1
<1> DEFINE T == Streams \ {s}
           f == [e \in queue |-> e.key]
<1>1. \A e \in queue : e.key \in T
  BY DEF TypeOK, Event, HasQueued
<1>2. f \in [queue -> T]
  BY <1>1
<1>3. \A a, b \in queue : f[a] = f[b] => a = b
  BY DEF OneLiveRequest
<1>4. f \in Injection(queue, T)
  <2>1. DOMAIN f = queue
    OBVIOUS
  <2> HIDE DEF f, T
  <2>2. IsInjective(f)
    BY <1>3, <2>1 DEF IsInjective
  <2>3. QED BY <1>2, <2>2 DEF Injection
<1>5. IsFiniteSet(Streams) /\ Cardinality(Streams) = NbStreams
  BY FS_Interval, UnitsType DEF Streams
<1>6. IsFiniteSet(T) /\ Cardinality(T) = NbStreams - 1
  BY <1>5, FS_RemoveElement
<1> HIDE DEF f, T
<1>7. Cardinality(queue) <= Cardinality(T)
  BY <1>4, <1>6, FS_Injection
<1>8. QED BY <1>6, <1>7, FS_CardinalityType DEF TypeOK

(* An event that is queued when there is room gets a stamp of its own, less
   than NbStreams milliseconds after its date-time. *)
LEMMA AddEventCloseToTime ==
  ASSUME TypeOK, StampsCloseToTimes, NEW s \in Streams, NEW t \in Int,
         Cardinality(queue) \in Nat, Cardinality(queue) <= NbStreams - 1,
         AddEvent(s, t)
  PROVE  StampsCloseToTimes'
<1>1. PICK x \in FreeStamps(queue, t) :
        queue' = queue \cup {[key |-> s, time |-> t, stamp |-> x]}
  BY DEF AddEvent
<1> DEFINE new == [key |-> s, time |-> t, stamp |-> x]
<1>2. x \in Int /\ x \notin Stamps(queue) /\ t <= x /\ x <= t + NbStreams - 1
  BY <1>1, UnitsType DEF FreeStamps
<1>3. queue' = queue \cup {new} /\ new.time = t /\ new.stamp = x
  BY <1>1
<1>4. \A e \in queue : e.stamp # x
  BY <1>2 DEF Stamps
<1> HIDE DEF new
<1>5. \A e, f \in queue' : e.stamp = f.stamp => e = f
  BY <1>3, <1>4 DEF StampsCloseToTimes
<1>6. \A e \in queue' : e.time <= e.stamp /\ e.stamp <= e.time + NbStreams - 1
  BY <1>2, <1>3 DEF StampsCloseToTimes
<1>7. QED BY <1>5, <1>6 DEF StampsCloseToTimes

(* A generation for a stream with nothing waiting keeps the stamps close, and
   what it queues, if anything, is the request it drew. *)
LEMMA GenerationStamps ==
  ASSUME TypeOK, OneLiveRequest, StampsCloseToTimes, NEW s \in Streams, ~HasQueued(s),
         NEW st \in StreamState, StillHaving(st),
         NEW d \in NextDraws(s, st), GenerateNextRequest(s, st, d)
  PROVE  /\ StampsCloseToTimes'
         /\ RequestTime(s, d) \in Int
         /\ \A e \in queue' : e \in queue \/ e.time = RequestTime(s, d)
<1>1. RequestTime(s, d) \in Int
  BY NextDrawsType, RequestTimeType
<1>2. CASE AddEvent(s, RequestTime(s, d))
  <2>1. StampsCloseToTimes'
    BY <1>1, <1>2, QueueHasRoom, AddEventCloseToTime
  <2>2. \A e \in queue' : e \in queue \/ e.time = RequestTime(s, d)
    BY <1>2 DEF AddEvent
  <2>3. QED BY <1>1, <2>1, <2>2
<1>3. CASE queue' = queue
  BY <1>1, <1>3 DEF StampsCloseToTimes
<1>4. QED BY <1>2, <1>3 DEF GenerateNextRequest

(* Every step keeps the stamps close to the date-times. *)
LEMMA StampsStep ==
  ASSUME TypeOK, Bookkeeping, StampsCloseToTimes, [Next]_vars
  PROVE  StampsCloseToTimes'
<1>1. OneLiveRequest
  BY DEF Bookkeeping
<1>2. CASE FirstRequest
  <2>1. PICK s \in Streams : s = itStream
    BY <1>2 DEF FirstRequest, FirstRequestOfStream, TypeOK, Streams
  <2>2. ~HasQueued(s) /\ SetFirst(stream[s]) \in StreamState
    <3>1. Pristine(s)
      BY <1>2, <2>1, StreamsAssumption DEF FirstRequest, Bookkeeping, Streams
    <3>2. QED BY <3>1, SetFirstType DEF Pristine, TypeOK
  <2>3. CASE StillHaving(SetFirst(stream[s]))
    <3>1. PICK d \in NextDraws(s, SetFirst(stream[s])) :
            GenerateNextRequest(s, SetFirst(stream[s]), d)
      BY <1>2, <2>1, <2>3 DEF FirstRequest, FirstRequestOfStream
    <3>2. QED BY <1>1, <2>2, <2>3, <3>1, GenerationStamps
  <2>4. CASE ~StillHaving(SetFirst(stream[s]))
    <3>1. queue' = queue
      BY <1>2, <2>1, <2>4 DEF FirstRequest, FirstRequestOfStream
    <3>2. QED BY <3>1 DEF StampsCloseToTimes
  <2>5. QED BY <2>3, <2>4
<1>3. CASE Pop
  <2>1. queue' \subseteq queue
    BY <1>3 DEF Pop, PopEvent
  <2>2. QED BY <2>1 DEF StampsCloseToTimes
<1>4. CASE NextRequest
  <2>1. PICK s \in Streams : s = event.key /\ ~HasQueued(s)
    BY <1>4, PoppedIsFree DEF NextRequest
  <2>2. stream[s] \in StreamState /\ StillHaving(stream[s])
    BY <1>4, <2>1 DEF NextRequest, TypeOK
  <2>3. PICK d \in NextDraws(s, stream[s]) : GenerateNextRequest(s, stream[s], d)
    BY <1>4, <2>1 DEF NextRequest
  <2>4. QED BY <1>1, <2>1, <2>2, <2>3, GenerationStamps
<1>5. CASE EndRun
  <2>1. queue' = {}
    BY <1>5 DEF EndRun, ManagerReset, ResetQueue
  <2>2. QED BY <2>1 DEF StampsCloseToTimes
<1>6. CASE queue' = queue
  BY <1>6 DEF StampsCloseToTimes
<1>7. QED
  BY <1>2, <1>3, <1>4, <1>5, <1>6
     DEF Next, Step, StartMainLoop, FirstRequestsDone, StreamExhausted, AbortOnPattern,
         Terminating, vars, managerVars

(* The stamps identify the events, and each is less than NbStreams milliseconds
   after the date-time of its request. *)
THEOREM StampsCloseToTimesHolds == Spec => []StampsCloseToTimes
<1>1. Init => StampsCloseToTimes
  BY DEF Init, ManagerInit, StampsCloseToTimes
<1>2. QED BY <1>1, StampsStep, TypeCorrect, BooksKept, PTL DEF Spec

(* How far, in milliseconds, a request may be out of order. *)
Slack == Max({0, NbStreams - 2})

(* What waits is behind the last popped request by no more than the slack; no
   request has been popped before the main loop. *)
NearlyOrdered ==
  /\ pc = "first" => \A s \in Streams : popped[s] = 0
  /\ pc \in {"loop", "next"} /\ (\E s \in Streams : popped[s] > 0) =>
       \A e \in queue : e.time >= event.time - Slack

(* The larger of zero and a number is no less than either. *)
LEMMA SlackBounds == Slack \in Nat /\ Slack >= NbStreams - 2
<1>1. \E x \in {0, NbStreams - 2} : \A y \in {0, NbStreams - 2} : x >= y
  BY UnitsType
<1>2. /\ Slack \in {0, NbStreams - 2}
      /\ \A y \in {0, NbStreams - 2} : Slack >= y
  BY <1>1 DEF Slack, Max
<1>3. QED BY <1>2, UnitsType

(* The popped request has the least stamp, and the others have a greater one: a
   request that waits is later than it, but for the alteration of its stamp. *)
LEMMA PopNearlyOrdered ==
  ASSUME TypeOK, StampsCloseToTimes, NearlyOrdered, Pop
  PROVE  NearlyOrdered'
<1>1. PICK e \in queue : IsEarliest(e) /\ queue' = queue \ {e} /\ event' = e
  BY DEF Pop, PopEvent
<1>2. pc' = "next"
  BY DEF Pop
<1>3. \A f \in queue' : f.time >= e.time - Slack
  <2> SUFFICES ASSUME NEW f \in queue, f # e PROVE f.time >= e.time - Slack
    BY <1>1
  <2>1. e \in Event /\ f \in Event
    BY <1>1 DEF TypeOK
  <2>2. e.time \in Int /\ e.stamp \in Int /\ f.time \in Int /\ f.stamp \in Int
    BY <2>1 DEF Event
  <2>3. e.stamp < f.stamp
    BY <1>1, <2>2 DEF IsEarliest, StampsCloseToTimes
  <2>4. e.time <= e.stamp /\ f.stamp <= f.time + NbStreams - 1
    BY <1>1 DEF StampsCloseToTimes
  <2>5. QED BY <2>2, <2>3, <2>4, SlackBounds, UnitsType
<1>4. QED BY <1>1, <1>2, <1>3 DEF NearlyOrdered

(* The request that follows the popped one passed the sanity check, or the
   program has stopped. *)
LEMMA NextRequestNearlyOrdered ==
  ASSUME TypeOK, Bookkeeping, StampsCloseToTimes, NearlyOrdered, NextRequest
  PROVE  NearlyOrdered'
<1>1. PICK s \in Streams : s = event.key /\ ~HasQueued(s)
  BY PoppedIsFree DEF NextRequest
<1>2. PICK d \in NextDraws(s, stream[s]) :
        /\ GenerateNextRequest(s, stream[s], d)
        /\ pc' = IF RequestTime(s, d) < event.time THEN "aborted" ELSE "loop"
  BY <1>1 DEF NextRequest
<1>3. pc = "next" /\ event' = event /\ popped' = popped /\ StillHaving(stream[s])
  BY <1>1 DEF NextRequest
<1>4. stream[s] \in StreamState /\ OneLiveRequest
  BY DEF TypeOK, Bookkeeping
<1>5. /\ RequestTime(s, d) \in Int
      /\ \A e \in queue' : e \in queue \/ e.time = RequestTime(s, d)
  BY <1>1, <1>2, <1>3, <1>4, GenerationStamps
<1>6. SUFFICES ASSUME pc' = "loop", \E r \in Streams : popped[r] > 0, NEW e \in queue'
               PROVE  e.time >= event.time - Slack
  BY <1>2, <1>3 DEF NearlyOrdered
<1>7. event.time \in Int
  BY <1>3 DEF TypeOK, Event, NoEvent
<1>8. CASE e \in queue
  BY <1>3, <1>6, <1>8 DEF NearlyOrdered
<1>9. CASE e.time = RequestTime(s, d)
  BY <1>2, <1>5, <1>6, <1>7, <1>9, SlackBounds
<1>10. QED BY <1>5, <1>6, <1>8, <1>9

(* Every step keeps the requests in order up to the slack. *)
LEMMA NearlyOrderedStep ==
  ASSUME TypeOK, Bookkeeping, StampsCloseToTimes, NearlyOrdered, [Next]_vars
  PROVE  NearlyOrdered'
<1>1. CASE FirstRequest
  BY <1>1 DEF FirstRequest, NearlyOrdered
<1>2. CASE StartMainLoop
  BY <1>2 DEF StartMainLoop, NearlyOrdered
<1>3. CASE StreamExhausted
  BY <1>3 DEF StreamExhausted, managerVars, NearlyOrdered
<1>4. CASE EndRun
  BY <1>4 DEF EndRun, NearlyOrdered
<1>5. CASE AbortOnPattern
  BY <1>5 DEF AbortOnPattern, NearlyOrdered
<1>6. CASE UNCHANGED vars
  BY <1>6 DEF vars, managerVars, NearlyOrdered
<1>7. QED
  BY <1>1, <1>2, <1>3, <1>4, <1>5, <1>6, PopNearlyOrdered, NextRequestNearlyOrdered
     DEF Next, Step, Terminating

(* The requests of all the streams are handled in the order of their date-times
   up to the alteration of the stamps: exactly with one or two streams, and by
   one millisecond less exactly for each further stream. *)
THEOREM NearChronologicalHolds == Spec => NearChronological
<1>1. Init => NearlyOrdered
  BY DEF Init, NearlyOrdered
<1>2. NearlyOrdered /\ [Next]_vars =>
        [pc = "loop" /\ pc' = "next" /\ run' = run /\ (\E s \in Streams : popped[s] > 0)
           => event'.time >= event.time - Max({0, NbStreams - 2})]_vars
  <2> SUFFICES ASSUME NearlyOrdered, [Next]_vars,
                      pc = "loop", pc' = "next", \E s \in Streams : popped[s] > 0
               PROVE  event'.time >= event.time - Slack
    BY DEF Slack
  <2>1. Pop
    BY DEF Next, Step, Terminating, FirstRequest, StartMainLoop, NextRequest, StreamExhausted,
           EndRun, AbortOnPattern, vars
  <2>2. event' \in queue
    BY <2>1 DEF Pop
  <2>3. QED BY <2>2 DEF NearlyOrdered
<1>3. QED
  BY <1>1, <1>2, NearlyOrderedStep, TypeCorrect, BooksKept, StampsCloseToTimesHolds, PTL
     DEF Spec, NearChronological

-----------------------------------------------------------------------------
(* The progress of a run. *)

(* The inductive invariant: in the main loop the tally, before it the sum of the
   totals of the streams reached so far. *)
Tallied ==
  /\ ActualTally
  /\ status.current = SumOver(popped)
  /\ pc = "first" => sumActual = SumUpTo(Totals, itStream - 1)
  /\ pc \in {"loop", "next"} => itStream = 1 /\ sumActual = 0

(* The sums of the tally are integers, and the totals are what it sums. *)
LEMMA TallyTypes ==
  ASSUME TypeOK
  PROVE  /\ SumOver(Totals) \in Int /\ SumOver(dropped) \in Int /\ SumOver(forgotten) \in Int
         /\ SumOver(popped) \in Int
         /\ status.current \in Int /\ status.actual \in Int
<1>1. /\ Totals \in [Streams -> Int] /\ dropped \in [Streams -> Int]
      /\ forgotten \in [Streams -> Int] /\ popped \in [Streams -> Int]
  BY DEF Totals, TypeOK, StreamState
<1>2. QED BY <1>1, SumTypes DEF TypeOK

(* The tally is right when the program starts. *)
LEMMA InitTallied == Init => Tallied
<1> SUFFICES ASSUME Init PROVE Tallied
  OBVIOUS
<1>1. TypeOK
  BY InitTyped
<1>2. Totals \in [Streams -> Int]
  BY <1>1 DEF Totals, TypeOK, StreamState
<1>3. status.current = 0 /\ itStream = 1 /\ sumActual = 0 /\ pc = "first" /\ SumOver(popped) = 0
  BY SumOfNothing DEF Init, ManagerInit
<1>4. SumUpTo(Totals, 0) = 0
  BY <1>2, SumTypes
<1>5. QED BY <1>3, <1>4 DEF Tallied, ActualTally

(* Each step keeps it. *)
LEMMA TalliedStep ==
  ASSUME TypeOK, Tallied, [Next]_vars
  PROVE  Tallied'
<1>1. ManagerTyped
  BY DriverTyped
<1>2. CASE FirstRequest
  <2>1. /\ Totals' = Totals /\ status'.current = status.current
        /\ sumActual' = SumUpTo(Totals, itStream' - 1)
    BY <1>1, <1>2, FirstRequestTally DEF FirstRequest, Tallied
  <2>2. QED BY <1>2, <2>1 DEF FirstRequest, Tallied, ActualTally
<1>3. CASE StartMainLoop
  <2>1. /\ status' = [status EXCEPT !.actual = sumActual] /\ forgotten' = dropped
        /\ itStream = NbStreams + 1 /\ itStream' = 1 /\ sumActual' = 0
        /\ UNCHANGED <<stream, dropped, popped>> /\ pc = "first" /\ pc' = "loop"
    BY <1>3 DEF StartMainLoop, FirstRequestsDone, UpdateStatus
  <2>2. SumUpTo(Totals, NbStreams) = SumOver(Totals)
    BY SumTypes DEF Totals, TypeOK, StreamState
  <2>3. sumActual = SumOver(Totals)
    BY <2>1, <2>2, UnitsType DEF Tallied
  <2>4. status'.actual = sumActual /\ status'.current = status.current
    BY <2>1 DEF TypeOK
  <2>5. SumOver(Totals) \in Int /\ SumOver(dropped) \in Int
    BY TallyTypes
  <2>6. SumOver(Totals)' = SumOver(Totals) /\ SumOver(dropped)' = SumOver(dropped)
        /\ SumOver(forgotten)' = SumOver(dropped) /\ SumOver(popped)' = SumOver(popped)
    BY <2>1 DEF Totals, SumOver
  <2>7. QED BY <2>1, <2>3, <2>4, <2>5, <2>6 DEF Tallied, ActualTally, Totals
<1>4. CASE Pop
  <2>1. PICK e \in queue : PopEvent(e) /\ popped' = [popped EXCEPT ![e.key] = @ + 1]
    BY <1>4 DEF Pop
  <2>2. e.key \in Streams /\ popped \in [Streams -> Int]
    BY DEF TypeOK, Event
  <2>3. SumOver(popped)' = SumOver(popped) + 1
    BY <2>1, <2>2, SumOfOneMore DEF SumOver
  <2>4. status'.current = status.current + 1 /\ status'.actual = status.actual
    BY <2>1 DEF PopEvent, TypeOK
  <2>5. /\ pc = "loop" /\ pc' = "next"
        /\ UNCHANGED <<stream, itStream, sumActual, dropped, forgotten>>
    BY <1>4 DEF Pop
  <2>6. QED BY <2>3, <2>4, <2>5 DEF Tallied, ActualTally, SumOver
<1>5. CASE NextRequest
  <2> DEFINE s == event.key
  <2>1. s \in Streams /\ StillHaving(stream[s]) /\ stream[s] \in StreamState
    BY <1>5 DEF NextRequest, TypeOK, Event, NoEvent
  <2>2. PICK d \in NextDraws(s, stream[s]) : GenerateNextRequest(s, stream[s], d)
    BY <1>5 DEF NextRequest
  <2>3. /\ Totals' = Totals /\ status'.current = status.current
        /\ status'.actual = status.actual - (SumOver(dropped)' - SumOver(dropped))
    <3> HIDE DEF s
    <3>1. QED BY <1>1, <2>1, <2>2, GenerationTally
  <2>4. SumOver(dropped)' \in Int
    <3>1. dropped' \in [Streams -> Int]
      BY <2>2 DEF GenerateNextRequest, TypeOK
    <3>2. QED BY <3>1, SumTypes DEF SumOver
  <2>5. pc = "next" /\ pc' \in {"loop", "aborted"}
        /\ UNCHANGED <<itStream, sumActual, forgotten, popped>>
    BY <1>5 DEF NextRequest
  <2> HIDE DEF s
  <2>6. status.actual = SumOver(Totals) - SumOver(dropped) + SumOver(forgotten)
    BY <2>5 DEF Tallied, ActualTally, Totals
  <2>7. SumOver(Totals)' = SumOver(Totals) /\ SumOver(forgotten)' = SumOver(forgotten)
        /\ SumOver(popped)' = SumOver(popped)
    BY <2>3, <2>5 DEF SumOver
  <2>8. status'.actual = SumOver(Totals)' - SumOver(dropped)' + SumOver(forgotten)'
    BY <2>3, <2>4, <2>6, <2>7, TallyTypes
  <2>9. QED BY <2>3, <2>5, <2>7, <2>8 DEF Tallied, ActualTally, Totals
<1>6. CASE StreamExhausted
  BY <1>6 DEF StreamExhausted, managerVars, Tallied, ActualTally, Totals, SumOver, SumUpTo
<1>7. CASE EndRun
  <2>1. /\ status' = [status EXCEPT !.current = 0, !.actual = 0] /\ pc = "loop"
        /\ popped' = [s \in Streams |-> 0] /\ pc' \in {"first", "done"}
        /\ UNCHANGED <<itStream, sumActual>>
    BY <1>7 DEF EndRun, ManagerReset, ResetQueue
  <2>2. status'.current = 0 /\ SumOver(popped)' = 0
    BY <2>1, SumOfNothing DEF TypeOK, SumOver
  <2>3. itStream' = 1 /\ sumActual' = 0
    BY <2>1 DEF Tallied
  <2>4. SumUpTo(Totals, 0)' = 0
    <3>1. 1 .. 0 = {}
      OBVIOUS
    <3>2. QED BY <3>1, SumEmpty DEF SumUpTo
  <2>5. SumUpTo(Totals, itStream - 1)' = 0
    BY <2>3, <2>4 DEF SumUpTo
  <2>6. QED BY <2>1, <2>2, <2>3, <2>5 DEF Tallied, ActualTally
<1>8. CASE AbortOnPattern
  BY <1>8 DEF AbortOnPattern, managerVars, Tallied, ActualTally, SumOver
<1>9. CASE UNCHANGED vars
  BY <1>9 DEF vars, managerVars, Tallied, ActualTally, Totals, SumOver, SumUpTo
<1>10. QED
  BY <1>2, <1>3, <1>4, <1>5, <1>6, <1>7, <1>8, <1>9 DEF Next, Step, Terminating

(* The goal of a run is the sum of the totals less the requests dropped in the
   main loop, and its progress the requests handled. *)
THEOREM ActualTallyHolds == Spec => []ActualTally
<1>1. TypeOK /\ Tallied /\ [Next]_vars => Tallied'
  BY TalliedStep
<1>2. Tallied => ActualTally
  BY DEF Tallied
<1>3. QED BY <1>1, <1>2, InitTallied, TypeCorrect, PTL DEF Spec

-----------------------------------------------------------------------------
(* Order statistics: the inductive invariant. *)

(* With order statistics a stream never generates more than its total, and its
   Poisson flag is never lowered. *)
Bounded ==
  Method = StatisticsOrder =>
    \A s \in Streams :
      /\ stream[s].still = TRUE
      /\ stream[s].soFar = 0 \/ stream[s].soFar <= stream[s].total

(* With order statistics the date-time of a waiting or popped request is that of
   the probability its stream has reached. *)
Timed ==
  Method = StatisticsOrder =>
    /\ \A e \in queue : e.time = RequestTime(e.key, stream[e.key].cum)
    /\ pc = "next" => event.time = RequestTime(event.key, stream[event.key].cum)
    /\ pc # "aborted"

(* No stream has requests when the program starts. *)
LEMMA InitOrder == Init => Bounded /\ Timed
<1> SUFFICES ASSUME Init PROVE Bounded /\ Timed
  OBVIOUS
<1>1. PICK n \in [Streams -> UNION {Draws[s] : s \in Streams}] :
        stream = [s \in Streams |-> NewStream(n[s])]
  BY DEF Init, ManagerInit
<1>2. \A s \in Streams : stream[s].soFar = 0 /\ stream[s].still = TRUE
  BY <1>1 DEF NewStream
<1>3. queue = {} /\ pc = "first"
  BY DEF Init, ManagerInit
<1>4. QED BY <1>2, <1>3 DEF Bounded, Timed

(* What a generation does under the order statistics method. *)
LEMMA OrderGeneration ==
  ASSUME TypeOK, Bounded, Timed, Method = StatisticsOrder,
         NEW s \in Streams, NEW st \in StreamState, StillHaving(st),
         st.soFar = stream[s].soFar, st.still = stream[s].still, st.total = stream[s].total,
         NEW d \in NextDraws(s, st), GenerateNextRequest(s, st, d), ~HasQueued(s)
  PROVE  /\ Bounded'
         /\ \A e \in queue' : e.time = RequestTime(e.key, stream'[e.key].cum)
         /\ d \in Int /\ st.cum < d
         /\ \A r \in Streams : stream'[r].total = stream[r].total
<1>1. /\ stream' = [stream EXCEPT ![s] = AfterRequest(st, d)]
      /\ \/ \E x \in Int :
              queue' = queue \cup {[key |-> s, time |-> RequestTime(s, d), stamp |-> x]}
         \/ queue' = queue
  BY Generation, DriverTyped
<1>2. d \in Int /\ st.cum < d /\ d \in 0 .. One - 1
  BY NextDrawsType
<1>3. /\ AfterRequest(st, d).soFar = st.soFar + 1 /\ AfterRequest(st, d).cum = d
      /\ AfterRequest(st, d).still = st.still /\ AfterRequest(st, d).total = st.total
  BY DEF AfterRequest, AfterOrderStatistic, StreamState
<1>4. /\ stream'[s] = AfterRequest(st, d)
      /\ \A r \in Streams \ {s} : stream'[r] = stream[r]
  BY <1>1 DEF TypeOK
<1>5. st.soFar \in Nat /\ st.total \in Int /\ st.soFar + 1 <= st.total
  BY DEF StillHaving, Remaining, StreamState
<1>6. Bounded'
  <2> SUFFICES ASSUME NEW r \in Streams
               PROVE  /\ stream'[r].still = TRUE
                      /\ stream'[r].soFar = 0 \/ stream'[r].soFar <= stream'[r].total
    BY DEF Bounded
  <2>1. CASE r = s
    <3>1. stream[s].still = TRUE
      BY DEF Bounded
    <3>2. QED BY <2>1, <3>1, <1>3, <1>4, <1>5
  <2>2. CASE r # s
    BY <2>2, <1>4 DEF Bounded
  <2>3. QED BY <2>1, <2>2
<1>7. \A e \in queue' : e.time = RequestTime(e.key, stream'[e.key].cum)
  <2>1. \A e \in queue : e.key \in Streams \ {s}
    BY DEF TypeOK, Event, HasQueued
  <2>2. \A e \in queue : e.time = RequestTime(e.key, stream'[e.key].cum)
    BY <2>1, <1>4 DEF Timed
  <2>3. CASE \E x \in Int :
          queue' = queue \cup {[key |-> s, time |-> RequestTime(s, d), stamp |-> x]}
    <3>1. PICK x \in Int :
            queue' = queue \cup {[key |-> s, time |-> RequestTime(s, d), stamp |-> x]}
      BY <2>3
    <3> DEFINE new == [key |-> s, time |-> RequestTime(s, d), stamp |-> x]
    <3>2. queue' = queue \cup {new} /\ new.key = s /\ new.time = RequestTime(s, d)
      BY <3>1
    <3> HIDE DEF new
    <3>3. QED BY <2>2, <3>2, <1>3, <1>4
  <2>4. CASE queue' = queue
    BY <2>2, <2>4
  <2>5. QED BY <1>1, <2>3, <2>4
<1>8. \A r \in Streams : stream'[r].total = stream[r].total
  BY <1>3, <1>4
<1>9. QED BY <1>2, <1>6, <1>7, <1>8

(* With order statistics the assertions of the main loop never fail, and no
   stream generates more than its total. *)
LEMMA OrderInvariant ==
  ASSUME TypeOK, Bookkeeping, Bounded, Timed, [Next]_vars
  PROVE  Bounded' /\ Timed'
<1>1. CASE Method # StatisticsOrder
  BY <1>1 DEF Bounded, Timed
<1>2. CASE Method = StatisticsOrder
  <2>1. CASE FirstRequest
    <3>1. PICK s \in Streams : s = itStream
      BY <2>1 DEF FirstRequest, FirstRequestOfStream, TypeOK, Streams
    <3>2. pc = "first" /\ pc' = "first" /\ ~HasQueued(s)
      BY <2>1, <3>1, StreamsAssumption DEF FirstRequest, Bookkeeping, Pristine, Streams
    <3> DEFINE st == SetFirst(stream[s])
    <3>3. stream[s] \in StreamState
      BY DEF TypeOK
    <3>4. st \in StreamState
      BY <3>3, SetFirstType
    <3>5. /\ st.soFar = stream[s].soFar /\ st.still = stream[s].still
          /\ st.total = stream[s].total /\ st.cum = stream[s].cum
      BY <3>3 DEF SetFirst, StreamState
    <3>6. CASE StillHaving(st)
      <4>1. PICK d \in NextDraws(s, st) : GenerateNextRequest(s, st, d)
        BY <2>1, <3>1, <3>6 DEF FirstRequest, FirstRequestOfStream
      <4> HIDE DEF st
      <4>2. Bounded' /\ \A e \in queue' : e.time = RequestTime(e.key, stream'[e.key].cum)
        BY <1>2, <3>2, <3>4, <3>5, <3>6, <4>1, OrderGeneration
      <4>3. QED BY <3>2, <4>2 DEF Timed
    <3>7. CASE ~StillHaving(st)
      <4>1. stream' = [stream EXCEPT ![s] = st] /\ queue' = queue
        BY <2>1, <3>1, <3>7 DEF FirstRequest, FirstRequestOfStream
      <4>2. stream'[s] = st /\ \A r \in Streams \ {s} : stream'[r] = stream[r]
        BY <4>1 DEF TypeOK
      <4> HIDE DEF st
      <4>3. \A r \in Streams :
              /\ stream'[r].soFar = stream[r].soFar /\ stream'[r].still = stream[r].still
              /\ stream'[r].total = stream[r].total /\ stream'[r].cum = stream[r].cum
        BY <3>5, <4>2
      <4>4. \A e \in queue : e.key \in Streams
        BY DEF TypeOK, Event
      <4>5. QED BY <3>2, <4>1, <4>3, <4>4 DEF Bounded, Timed
    <3>8. QED BY <3>6, <3>7
  <2>2. CASE StartMainLoop
    BY <1>2, <2>2 DEF StartMainLoop, FirstRequestsDone, Bounded, Timed
  <2>3. CASE Pop
    <3>1. PICK e \in queue : queue' = queue \ {e} /\ event' = e
      BY <2>3 DEF Pop, PopEvent
    <3>2. stream' = stream /\ pc' = "next"
      BY <2>3 DEF Pop
    <3>3. QED BY <3>1, <3>2 DEF Bounded, Timed
  <2>4. CASE NextRequest
    <3>1. pc = "next" /\ StillHaving(stream[event.key])
      BY <2>4 DEF NextRequest
    <3>2. PICK s \in Streams : s = event.key
      BY <3>1, PoppedIsFree
    <3>3. PICK d \in NextDraws(s, stream[s]) :
            /\ GenerateNextRequest(s, stream[s], d)
            /\ pc' = IF RequestTime(s, d) < event.time THEN "aborted" ELSE "loop"
      BY <2>4, <3>2 DEF NextRequest
    <3>4. stream[s] \in StreamState /\ ~HasQueued(s) /\ StillHaving(stream[s])
      BY <3>1, <3>2, PoppedIsFree DEF TypeOK
    <3>5. /\ Bounded' /\ \A e \in queue' : e.time = RequestTime(e.key, stream'[e.key].cum)
          /\ d \in Int /\ stream[s].cum < d
      BY <1>2, <3>3, <3>4, OrderGeneration
    <3>6. stream[s].cum \in Int
      BY <3>4, UnitsType DEF StreamState
    <3>7. event.time = RequestTime(s, stream[s].cum)
      BY <1>2, <3>1, <3>2 DEF Timed
    <3>8. RequestTime(s, stream[s].cum) <= RequestTime(s, d)
      BY <1>2, <3>5, <3>6, RequestTimeMonotone
    <3>9. RequestTime(s, stream[s].cum) \in Int /\ RequestTime(s, d) \in Int
      BY <3>5, <3>6, RequestTimeType
    <3>10. pc' = "loop"
      BY <3>3, <3>7, <3>8, <3>9
    <3>11. QED BY <3>5, <3>10 DEF Timed
  <2>5. CASE StreamExhausted
    BY <2>5 DEF StreamExhausted, managerVars, Bounded, Timed
  <2>6. CASE EndRun
    <3>1. queue' = {} /\ pc' \in {"first", "done"}
      BY <2>6 DEF EndRun, ManagerReset, ResetQueue
    <3>2. PICK n \in [Streams -> UNION {Draws[s] : s \in Streams}] :
            stream' = [s \in Streams |-> ResetStream(stream[s], n[s])]
      BY <2>6 DEF EndRun, ManagerReset
    <3>3. \A s \in Streams : stream'[s].soFar = 0 /\ stream'[s].still = TRUE
      <4> SUFFICES ASSUME NEW s \in Streams
                   PROVE  stream'[s].soFar = 0 /\ stream'[s].still = TRUE
        OBVIOUS
      <4>1. stream'[s] = ResetStream(stream[s], n[s]) /\ stream[s] \in StreamState
        BY <3>2 DEF TypeOK
      <4>2. QED BY <4>1 DEF ResetStream, StreamState
    <3>4. QED BY <3>1, <3>3 DEF Bounded, Timed
  <2>7. CASE AbortOnPattern
    <3>1. \E s, d : RunsOffPattern(s, d)
      BY <2>7 DEF AbortOnPattern
    <3>2. Method = PoissonProcess
      BY <3>1 DEF RunsOffPattern
    <3>3. QED BY <1>2, <3>2 DEF StatisticsOrder, PoissonProcess
  <2>8. CASE UNCHANGED vars
    BY <2>8 DEF vars, managerVars, Bounded, Timed
  <2>9. QED
    BY <2>1, <2>2, <2>3, <2>4, <2>5, <2>6, <2>7, <2>8 DEF Next, Step, Terminating
<1>3. QED BY <1>1, <1>2

(* The invariant holds throughout, with the types and the books. *)
LEMMA OrderInvariantHolds == Spec => [](TypeOK /\ Bookkeeping /\ Bounded /\ Timed)
<1>1. TypeOK /\ Bookkeeping /\ Bounded /\ Timed /\ [Next]_vars => Bounded' /\ Timed'
  BY OrderInvariant
<1>2. QED BY <1>1, InitOrder, TypeCorrect, BooksKept, PTL DEF Spec

(* With order statistics the next request is never earlier than the popped one,
   whatever the patterns, the draws and the rounding: the sanity check of the
   main loop, and the assertions of the lookups, cannot fail. *)
THEOREM SanityCheckNeverFails ==
  ASSUME Method = StatisticsOrder
  PROVE  Spec => []SanityCheckHolds
<1>1. Timed => SanityCheckHolds
  BY DEF Timed, SanityCheckHolds
<1>2. QED BY <1>1, OrderInvariantHolds, PTL

(* No run serves a stream beyond the number of requests drawn for it. *)
THEOREM WithinTotalHolds == Spec => []WithinTotal
<1>1. TypeOK /\ Bookkeeping /\ Bounded => WithinTotal
  <2> SUFFICES ASSUME TypeOK, Bookkeeping, Bounded, Method = StatisticsOrder, NEW s \in Streams
               PROVE  popped[s] + dropped[s] <= IF stream[s].total > 0 THEN stream[s].total ELSE 0
    BY DEF WithinTotal
  <2>1. stream[s].soFar \in Nat /\ stream[s].total \in Int /\ popped[s] \in Nat /\ dropped[s] \in Nat
    BY DEF TypeOK, StreamState
  <2>2. stream[s].still = TRUE /\ (stream[s].soFar = 0 \/ stream[s].soFar <= stream[s].total)
    BY DEF Bounded
  <2>3. stream[s].soFar = popped[s] + (IF HasQueued(s) THEN 1 ELSE 0) + dropped[s]
    BY <2>1, <2>2 DEF Bookkeeping, RequestsAccounted
  <2> DEFINE n == stream[s].soFar
             t == stream[s].total
             p == popped[s]
             x == dropped[s]
  <2>4. p + x <= n /\ p + x \in Nat
    BY <2>1, <2>3
  <2>5. n \in Nat /\ t \in Int /\ (n = 0 \/ n <= t)
    BY <2>1, <2>2
  <2> HIDE DEF n, t, p, x
  <2>6. p + x <= IF t > 0 THEN t ELSE 0
    BY <2>4, <2>5
  <2>7. QED BY <2>6 DEF n, t, p, x
<1>2. QED BY <1>1, OrderInvariantHolds, PTL

-----------------------------------------------------------------------------
(* The batch driver implements the plan. *)

(* The initial states of the driver are initial states of the plan. *)
LEMMA PlanInitially == Init => Plan!PlanInit
<1> SUFFICES ASSUME Init PROVE Plan!PlanInit
  OBVIOUS
<1>1. PICK n \in [Streams -> UNION {Draws[s] : s \in Streams}] :
        /\ \A s \in Streams : n[s] \in Draws[s]
        /\ stream = [s \in Streams |-> NewStream(n[s])]
  BY DEF Init, ManagerInit
<1>2. \A s \in Streams : n[s] \in Int
  BY <1>1, DrawnTotals
<1>3. \A s \in Streams : stream[s].total = n[s]
  BY <1>1 DEF NewStream
<1>4. popped = [s \in Streams |-> 0] /\ run = 1 /\ \A s \in Streams : dropped[s] = 0
  BY DEF Init, ManagerInit
<1>5. [s \in Streams |-> stream[s].total] \in [Streams -> Int]
  BY <1>2, <1>3
<1>6. \A s \in Streams : [r \in Streams |-> stream[r].total][s] \in Draws[s]
  BY <1>1, <1>3
<1>7. [s \in Streams |-> dropped[s] > 0] = [s \in Streams |-> FALSE]
  <2>1. \A s \in Streams : (dropped[s] > 0) = FALSE
    BY <1>4
  <2>2. QED BY <2>1, Zenon
<1>8. QED BY <1>4, <1>5, <1>6, <1>7 DEF Plan!PlanInit, Plan!IsQuota

(* A generation is a step of the plan that abandons the stream, or none. *)
LEMMA PlanGeneration ==
  ASSUME TypeOK, Bookkeeping, Bounded, Timed, Method = StatisticsOrder,
         NEW s \in Streams, NEW st \in StreamState, StillHaving(st),
         st.soFar = stream[s].soFar, st.still = stream[s].still, st.total = stream[s].total,
         NEW d \in NextDraws(s, st), GenerateNextRequest(s, st, d),
         ~HasQueued(s), dropped[s] = 0, UNCHANGED <<popped, run>>
  PROVE  Plan!Abandon(s) \/ UNCHANGED Plan!planVars
<1>1. \A r \in Streams : stream'[r].total = stream[r].total
  BY OrderGeneration
<1>2. [r \in Streams |-> stream'[r].total] = [r \in Streams |-> stream[r].total]
  BY <1>1
<1>3. \/ dropped' = dropped
      \/ dropped' = [dropped EXCEPT ![s] = @ + 1]
  BY Generation, DriverTyped
<1>4. popped[s] < stream[s].total
  <2>1. stream[s].soFar \in Nat /\ stream[s].total \in Int /\ popped[s] \in Nat
    BY DEF TypeOK, StreamState
  <2>2. stream[s].soFar = popped[s]
    BY <2>1 DEF Bookkeeping, RequestsAccounted, Bounded
  <2>3. stream[s].soFar < stream[s].total
    BY <2>1 DEF StillHaving, Remaining
  <2>4. QED BY <2>1, <2>2, <2>3
<1>5. CASE dropped' = dropped
  <2>1. [r \in Streams |-> dropped'[r] > 0] = [r \in Streams |-> dropped[r] > 0]
    BY <1>5
  <2>2. QED BY <1>2, <2>1 DEF Plan!planVars
<1>6. CASE dropped' = [dropped EXCEPT ![s] = @ + 1]
  <2>1. dropped'[s] = 1 /\ \A r \in Streams \ {s} : dropped'[r] = dropped[r]
    BY <1>6 DEF TypeOK
  <2> DEFINE lost == [r \in Streams |-> dropped[r] > 0]
  <2>2. lost' = [lost EXCEPT ![s] = TRUE]
    <3>1. (dropped'[s] > 0) = TRUE
      BY <2>1
    <3>2. \A r \in Streams \ {s} : (dropped'[r] > 0) = (dropped[r] > 0)
      BY <2>1
    <3>3. QED BY <3>1, <3>2, Zenon
  <2>3. lost[s] = FALSE
    <3>1. (dropped[s] > 0) = FALSE
      OBVIOUS
    <3>2. QED BY <3>1, Zenon
  <2>4. QED BY <1>2, <1>4, <2>2, <2>3 DEF Plan!Abandon
<1>7. QED BY <1>3, <1>5, <1>6

(* A pop serves a request, a generation abandons its stream or is hidden from the
   plan, and the end of a run is the end of a run. *)
LEMMA PlanStep ==
  ASSUME TypeOK, Bookkeeping, Bounded, Timed, Method = StatisticsOrder, [Next]_vars
  PROVE  [Plan!PlanNext]_(Plan!planVars)
<1>1. CASE FirstRequest
  <2>1. PICK s \in Streams : s = itStream
    BY <1>1 DEF FirstRequest, FirstRequestOfStream, TypeOK, Streams
  <2>2. pc = "first" /\ UNCHANGED <<popped, run>>
    BY <1>1 DEF FirstRequest
  <2>3. ~HasQueued(s) /\ dropped[s] = 0
    BY <2>1, <2>2, StreamsAssumption DEF Bookkeeping, Pristine, Streams
  <2> DEFINE st == SetFirst(stream[s])
  <2>4. stream[s] \in StreamState
    BY DEF TypeOK
  <2>5. st \in StreamState
    BY <2>4, SetFirstType
  <2>6. /\ st.soFar = stream[s].soFar /\ st.still = stream[s].still
        /\ st.total = stream[s].total
    BY <2>4 DEF SetFirst, StreamState
  <2>7. CASE StillHaving(st)
    <3>1. PICK d \in NextDraws(s, st) : GenerateNextRequest(s, st, d)
      BY <1>1, <2>1, <2>7 DEF FirstRequest, FirstRequestOfStream
    <3> HIDE DEF st
    <3>2. Plan!Abandon(s) \/ UNCHANGED Plan!planVars
      BY <2>2, <2>3, <2>5, <2>6, <2>7, <3>1, PlanGeneration
    <3>3. QED BY <3>2 DEF Plan!PlanNext
  <2>8. CASE ~StillHaving(st)
    <3>1. stream' = [stream EXCEPT ![s] = st] /\ dropped' = dropped
      BY <1>1, <2>1, <2>8 DEF FirstRequest, FirstRequestOfStream
    <3> HIDE DEF st
    <3>2. \A r \in Streams : stream'[r].total = stream[r].total
      BY <2>6, <3>1 DEF TypeOK
    <3>3. [r \in Streams |-> stream'[r].total] = [r \in Streams |-> stream[r].total]
      BY <3>2
    <3>4. QED BY <2>2, <3>1, <3>3 DEF Plan!planVars
  <2>9. QED BY <2>7, <2>8
<1>2. CASE StartMainLoop
  BY <1>2 DEF StartMainLoop, FirstRequestsDone, Plan!planVars
<1>3. CASE Pop
  <2>1. PICK e \in queue :
          /\ event' = e /\ popped' = [popped EXCEPT ![e.key] = @ + 1]
    BY <1>3 DEF Pop, PopEvent
  <2>2. PICK s \in Streams : s = e.key
    BY <2>1 DEF TypeOK, Event
  <2>3. UNCHANGED <<stream, dropped, run>>
    BY <1>3 DEF Pop
  <2>4. HasQueued(s)
    BY <2>2 DEF HasQueued
  <2>5. dropped[s] = 0
    <3>1. dropped[s] \in Nat
      BY DEF TypeOK
    <3>2. QED BY <2>4, <3>1 DEF Bookkeeping, DropEndsTheChain
  <2>6. popped[s] < stream[s].total
    <3>1. stream[s].soFar \in Nat /\ stream[s].total \in Int /\ popped[s] \in Nat
      BY DEF TypeOK, StreamState
    <3>2. stream[s].soFar = popped[s] + 1
      BY <2>4, <2>5, <3>1 DEF Bookkeeping, RequestsAccounted, Bounded
    <3>3. stream[s].soFar <= stream[s].total
      BY <3>1, <3>2 DEF Bounded
    <3>4. QED BY <3>1, <3>2, <3>3
  <2>7. Plan!Serve(s)
    <3> DEFINE quotas == [r \in Streams |-> stream[r].total]
               lost == [r \in Streams |-> dropped[r] > 0]
    <3>1. lost[s] = FALSE
      <4>1. (dropped[s] > 0) = FALSE
        BY <2>5
      <4>2. QED BY <4>1, Zenon
    <3>2. quotas[s] = stream[s].total /\ quotas' = quotas /\ lost' = lost
      BY <2>3
    <3>3. popped' = [popped EXCEPT ![s] = @ + 1] /\ run' = run
      BY <2>1, <2>2, <2>3
    <3> HIDE DEF quotas, lost
    <3>4. ~lost[s] /\ popped[s] < quotas[s]
      BY <2>6, <3>1, <3>2
    <3>5. QED BY <3>2, <3>3, <3>4 DEF Plan!Serve, quotas, lost
  <2>8. QED BY <2>7 DEF Plan!PlanNext
<1>4. CASE NextRequest
  <2>1. pc = "next" /\ StillHaving(stream[event.key]) /\ UNCHANGED <<popped, run>>
    BY <1>4 DEF NextRequest
  <2>2. PICK s \in Streams : s = event.key
    BY <2>1, PoppedIsFree
  <2>3. PICK d \in NextDraws(s, stream[s]) : GenerateNextRequest(s, stream[s], d)
    BY <1>4, <2>2 DEF NextRequest
  <2>4. /\ stream[s] \in StreamState /\ ~HasQueued(s) /\ dropped[s] = 0
        /\ StillHaving(stream[s])
    BY <2>1, <2>2, PoppedIsFree DEF TypeOK
  <2>5. Plan!Abandon(s) \/ UNCHANGED Plan!planVars
    BY <2>1, <2>3, <2>4, PlanGeneration
  <2>6. QED BY <2>5 DEF Plan!PlanNext
<1>5. CASE StreamExhausted
  BY <1>5 DEF StreamExhausted, managerVars, Plan!planVars
<1>6. CASE EndRun
  <2>1. PICK n \in [Streams -> UNION {Draws[s] : s \in Streams}] :
          /\ \A s \in Streams : n[s] \in Draws[s]
          /\ stream' = [s \in Streams |-> ResetStream(stream[s], n[s])]
    BY <1>6 DEF EndRun, ManagerReset
  <2>2. /\ pc = "loop" /\ queue = {} /\ run' = run + 1
        /\ dropped' = [s \in Streams |-> 0] /\ popped' = [s \in Streams |-> 0]
    BY <1>6 DEF EndRun, ManagerReset, IsQueueDone
  <2>3. run <= NbRuns
    BY <2>2, RunsAssumption DEF TypeOK
  <2>4. \A s \in Streams : dropped[s] > 0 \/ popped[s] >= stream[s].total
    <3> SUFFICES ASSUME NEW s \in Streams, ~(dropped[s] > 0)
                 PROVE  popped[s] >= stream[s].total
      OBVIOUS
    <3>1. /\ stream[s].soFar \in Nat /\ stream[s].total \in Int
          /\ popped[s] \in Nat /\ dropped[s] \in Nat
      BY DEF TypeOK, StreamState
    <3>2. ~HasQueued(s)
      BY <2>2 DEF HasQueued
    <3>3. ~StillHaving(stream[s])
      BY <2>2, <3>2 DEF Bookkeeping, ChainUnbroken
    <3>4. stream[s].soFar = popped[s]
      BY <3>1, <3>2 DEF Bookkeeping, RequestsAccounted, Bounded
    <3>5. QED BY <3>1, <3>3, <3>4 DEF StillHaving, Remaining
  <2>5. \A s \in Streams : stream'[s].total = n[s]
    <3> SUFFICES ASSUME NEW s \in Streams PROVE stream'[s].total = n[s]
      OBVIOUS
    <3>1. stream'[s] = ResetStream(stream[s], n[s]) /\ stream[s] \in StreamState
      BY <2>1 DEF TypeOK
    <3>2. QED BY <3>1 DEF ResetStream, StreamState
  <2>6. \A s \in Streams : [r \in Streams |-> stream'[r].total][s] \in Draws[s]
    BY <2>1, <2>5
  <2>7. [s \in Streams |-> dropped'[s] > 0] = [s \in Streams |-> FALSE]
    <3>1. \A s \in Streams : (dropped'[s] > 0) = FALSE
      BY <2>2
    <3>2. QED BY <3>1, Zenon
  <2>8. Plan!EndOfRun
    BY <2>2, <2>3, <2>4, <2>6, <2>7 DEF Plan!EndOfRun, Plan!IsOver, Plan!IsQuota
  <2>9. QED BY <2>8 DEF Plan!PlanNext
<1>7. CASE AbortOnPattern
  BY <1>7 DEF AbortOnPattern, managerVars, Plan!planVars
<1>8. CASE UNCHANGED vars
  BY <1>8 DEF vars, managerVars, Plan!planVars
<1>9. QED
  BY <1>1, <1>2, <1>3, <1>4, <1>5, <1>6, <1>7, <1>8 DEF Next, Step, Terminating

(* With order statistics every behaviour of the batch driver is one of the plan:
   quotas served one request at a time and never exceeded, streams abandoned
   once and for all, no run ended before every stream is served or abandoned. *)
THEOREM DriverImplementsPlan ==
  ASSUME Method = StatisticsOrder
  PROVE  Spec => ImplementsPlan
<1>1. TypeOK /\ Bookkeeping /\ Bounded /\ Timed /\ [Next]_vars => [Plan!PlanNext]_(Plan!planVars)
  BY PlanStep
<1>2. QED
  BY <1>1, PlanInitially, OrderInvariantHolds, PTL DEF Spec, ImplementsPlan, Plan!PlanSpec

-----------------------------------------------------------------------------
(* The Poisson process: the inductive invariant. *)

(* A stream with a closed pattern that has started is not past the stopping
   point; it has stopped if and only if a request of it was dropped; the
   date-time of its waiting or popped request is that of the point it has
   reached.  Nothing is said of the other streams. *)
Arrived(s) ==
  ClosedPattern(s) =>
    /\ stream[s].still = TRUE <=> dropped[s] = 0
    /\ stream[s].first = FALSE => stream[s].last <= LastLowerBound

Reached(e) ==
  ClosedPattern(e.key) =>
    /\ stream[e.key].first = FALSE /\ stream[e.key].last < LastLowerBound
    /\ e.time = RequestTime(e.key, stream[e.key].last)

PoissonInv ==
  /\ \A s \in Streams : Arrived(s)
  /\ \A e \in queue : Reached(e)
  /\ pc = "next" => Reached(event)

-----------------------------------------------------------------------------
(* Where the requests fall. *)

(* A day of ticks, rounded to milliseconds, is a day. *)
LEMMA StopOffset == LastLowerBound \div TicksPerMs = -DayLength /\ (-LastLowerBound) \div TicksPerMs = DayLength
<1> DEFINE t == TicksPerMs
           D == DayLength
<1>1. t \in Nat \ {0} /\ D \in Nat \ {0} /\ LastLowerBound = -(D * t)
  BY UnitsType DEF LastLowerBound
<1> HIDE DEF t, D
<1>2. (D * t) \div t = D
  <2>1. D <= (D * t) \div t
    BY <1>1, DivLower
  <2>2. (D * t) < (D + 1) * t
    BY <1>1
  <2>3. (D * t) \div t <= D
    BY <1>1, <2>2, DivUpper
  <2>4. (D * t) \div t \in Int
    BY <1>1
  <2>5. QED BY <1>1, <2>1, <2>3, <2>4
<1>3. (-(D * t)) \div t = -D
  <2>1. -D \in Int /\ (-D) * t = -(D * t) /\ -(D * t) \in Int
    BY <1>1
  <2>2. -D <= (-(D * t)) \div t
    BY <1>1, <2>1, DivLower
  <2>3. -(D * t) < (-D + 1) * t
    BY <1>1, <2>1
  <2>4. (-(D * t)) \div t <= -D
    BY <1>1, <2>1, <2>3, DivUpper
  <2>5. (-(D * t)) \div t \in Int
    BY <1>1, <2>1
  <2>6. QED BY <1>1, <2>2, <2>4, <2>5
<1>4. -(-(D * t)) = D * t
  BY <1>1
<1>5. QED BY <1>1, <1>2, <1>3, <1>4 DEF t, D

(* A request before the stopping point is made before the day of departure. *)
LEMMA EarlyRequest ==
  ASSUME Method = PoissonProcess, NEW s \in Streams, NEW d \in Int, d < LastLowerBound
  PROVE  \A pref : IsBeforeDeparture(s, RequestTime(s, d), pref)
<1> DEFINE dep == DepartureDate[s]
           D == DayLength
           q == d \div TicksPerMs
           a == dep * D
<1>1. dep \in Nat /\ D \in Nat \ {0} /\ q \in Int /\ a \in Int /\ RefTime \in 0 .. D - 1
  BY UnitsType, UnitsAssumption
<1>2. q <= -D - 1
  <2> DEFINE k == -D - 1
  <2>1. k \in Int /\ k + 1 = -D
    BY <1>1
  <2>2. (k + 1) * TicksPerMs = LastLowerBound
    BY <2>1, <1>1, UnitsType DEF LastLowerBound
  <2>3. d < (k + 1) * TicksPerMs
    BY <2>2
  <2> HIDE DEF k
  <2>4. q <= k
    BY <2>1, <2>3, UnitsType, DivUpper
  <2>5. QED BY <2>4 DEF k
<1>3. RequestTime(s, d) = a + RefTime + (q + 1)
  BY DEF RequestTime, Convert, Offset, StatisticsOrder, PoissonProcess
<1> HIDE DEF q
<1>4. RequestTime(s, d) < a
  <2> HIDE DEF a
  <2>1. QED BY <1>1, <1>2, <1>3
<1>5. RequestTime(s, d) \in Int
  BY RequestTimeType
<1>6. RequestTime(s, d) \div D <= dep - 1
  <2>1. ((dep - 1) + 1) * D = a
    BY <1>1
  <2>2. QED BY <1>1, <1>4, <1>5, <2>1, DivUpper
<1>7. RequestTime(s, d) \div D \in Int
  BY <1>1, <1>5
<1>8. dep > RequestTime(s, d) \div D
  BY <1>1, <1>6, <1>7
<1>9. QED BY <1>8 DEF IsBeforeDeparture

(* The request that ends a stream is made after the day of departure. *)
LEMMA StopRequest ==
  ASSUME Method = PoissonProcess, NEW s \in Streams
  PROVE  \A pref : ~IsBeforeDeparture(s, RequestTime(s, LastLowerBound), pref)
<1> DEFINE dep == DepartureDate[s]
           D == DayLength
           a == dep * D
           t == RequestTime(s, LastLowerBound)
<1>1. dep \in Nat /\ D \in Nat \ {0} /\ a \in Int /\ RefTime \in Nat
  BY UnitsType
<1>2. t = a + RefTime + (D + 1)
  BY StopOffset DEF RequestTime, Convert, Offset, StatisticsOrder, PoissonProcess
<1>3. t \in Int /\ a + D <= t
  <2> HIDE DEF a, t
  <2>1. QED BY <1>1, <1>2
<1>4. (dep + 1) * D = a + D
  BY <1>1
<1>5. dep + 1 <= t \div D
  <2> HIDE DEF t
  <2>1. QED BY <1>1, <1>3, <1>4, DivLower
<1>6. t \div D \in Int
  BY <1>1, <1>3
<1>7. QED BY <1>1, <1>5, <1>6 DEF IsBeforeDeparture

(* Along a stream the date-times of the requests do not decrease, and the one
   that ends it is the last. *)
LEMMA ArrivalTimeMonotone ==
  ASSUME Method = PoissonProcess, NEW s \in Streams, NEW c \in Int, NEW d \in Int,
         c <= d, c < LastLowerBound
  PROVE  RequestTime(s, c) <= RequestTime(s, d)
<1> DEFINE base == DepartureDate[s] * DayLength + RefTime
           b == IF d = LastLowerBound THEN -LastLowerBound ELSE d
<1>1. base \in Int /\ b \in Int /\ c <= b
  <2>1. LastLowerBound < 0
    BY UnitsType DEF LastLowerBound
  <2>2. QED BY <2>1, UnitsType
<1>2. /\ RequestTime(s, c) = base + (c \div TicksPerMs + 1)
      /\ RequestTime(s, d) = base + (b \div TicksPerMs + 1)
  BY UnitsType DEF RequestTime, Convert, Offset, StatisticsOrder, PoissonProcess
<1> HIDE DEF base, b
<1>3. c \div TicksPerMs <= b \div TicksPerMs
  BY <1>1, UnitsType, DivMonotone
<1>4. c \div TicksPerMs \in Int /\ b \div TicksPerMs \in Int
  BY <1>1, UnitsType
<1>5. QED BY <1>1, <1>2, <1>3, <1>4

(* On a closed pattern the process goes from the point it has reached to the
   stopping point, and never runs off. *)
LEMMA ArrivalsInPattern ==
  ASSUME Method = PoissonProcess, NEW s \in Streams, ClosedPattern(s),
         NEW st \in StreamState, st.first = FALSE => st.last <= LastLowerBound,
         NEW d \in NextDraws(s, st)
  PROVE  /\ d \in Int /\ ResumeAt(s, st) <= d /\ d <= LastLowerBound
         /\ ~RunsOffPattern(s, d) \/ d = LastLowerBound
<1>1. ResumeAt(s, st) \in Int /\ ResumeAt(s, st) <= LastLowerBound
  BY GetValueType DEF ResumeAt, StreamState, ClosedPattern
<1>2. Horizon(s, st) = LastLowerBound
  BY <1>1 DEF Horizon, ClosedPattern
<1>3. d \in NextArrivals(s, st)
  BY DEF NextDraws, StatisticsOrder, PoissonProcess
<1>4. d \in Int /\ ResumeAt(s, st) <= d /\ d <= LastLowerBound
  BY <1>1, <1>2, <1>3, UnitsType DEF NextArrivals
<1>5. LastLowerBound <= PatternEnd(s)
  <2>1. IsPointList(Arrival[s])
    BY ArrivalIsPointList
  <2>2. PICK i \in 1 .. Len(Arrival[s]) : Arrival[s][i].value = LastLowerBound
    BY DEF ClosedPattern, HasLastBound
  <2>3. Arrival[s][i].value <= Arrival[s][Len(Arrival[s])].value
    BY <2>1, PointListFacts
  <2>4. QED BY <2>2, <2>3 DEF PatternEnd
<1>6. PatternEnd(s) \in Int
  BY ArrivalIsPointList, PointListFacts DEF PatternEnd
<1>7. QED BY <1>4, <1>5, <1>6, UnitsType DEF RunsOffPattern

-----------------------------------------------------------------------------
(* The invariant is inductive. *)

(* A generation queues a request before the stopping point, and drops the one
   that stops the stream: no other is dropped. *)
LEMMA ClosedGeneration ==
  ASSUME TypeOK, Method = PoissonProcess,
         \A r \in Streams : Arrived(r), \A e \in queue : Reached(e),
         NEW s \in Streams, ClosedPattern(s), NEW st \in StreamState, st.still = TRUE,
         st.first = FALSE => st.last <= LastLowerBound,
         NEW d \in NextDraws(s, st), GenerateNextRequest(s, st, d),
         ~HasQueued(s), dropped[s] = 0
  PROVE  (\A r \in Streams : Arrived(r))' /\ (\A e \in queue : Reached(e))'
<1>1. d \in Int /\ d <= LastLowerBound
  BY ArrivalsInPattern
<1>2. StillHaving(st)
  BY DEF StillHaving, StatisticsOrder, PoissonProcess
<1>3. /\ stream' = [stream EXCEPT ![s] = AfterRequest(st, d)]
      /\ \/ /\ dropped' = dropped
            /\ \E x \in Int :
                 queue' = queue \cup {[key |-> s, time |-> RequestTime(s, d), stamp |-> x]}
         \/ /\ dropped' = [dropped EXCEPT ![s] = @ + 1]
            /\ queue' = queue
  BY <1>2, Generation, DriverTyped
<1>4. /\ stream'[s] = AfterRequest(st, d)
      /\ \A r \in Streams \ {s} : stream'[r] = stream[r]
  BY <1>3 DEF TypeOK
<1>5. AfterRequest(st, d) = AfterPoisson(st, d)
  BY DEF AfterRequest, StatisticsOrder, PoissonProcess
<1>6. \A e \in queue : e.key \in Streams \ {s}
  BY DEF TypeOK, Event, HasQueued
<1>7. \A e \in queue : Reached(e)'
  BY <1>4, <1>6 DEF Reached
<1>8. [dropped EXCEPT ![s] = @ + 1][s] = 1 /\ dropped[s] = 0
  BY DEF TypeOK
<1>9. CASE d < LastLowerBound
  <2>1. dropped' = dropped
    BY <1>1, <1>9, EarlyRequest DEF GenerateNextRequest
  <2>2. PICK x \in Int :
          queue' = queue \cup {[key |-> s, time |-> RequestTime(s, d), stamp |-> x]}
    BY <1>3, <1>8, <2>1
  <2> DEFINE new == [key |-> s, time |-> RequestTime(s, d), stamp |-> x]
  <2>3. queue' = queue \cup {new} /\ new.key = s /\ new.time = RequestTime(s, d)
    BY <2>2
  <2> HIDE DEF new
  <2>4. d # LastLowerBound
    BY <1>1, <1>9, UnitsType
  <2>5. stream'[s].first = FALSE /\ stream'[s].last = d /\ stream'[s].still = TRUE
    BY <1>4, <1>5, <2>4 DEF AfterPoisson, StreamState
  <2>6. Reached(new)'
    BY <1>9, <2>3, <2>5 DEF Reached
  <2>7. Arrived(s)'
    BY <1>1, <2>1, <2>5 DEF Arrived
  <2>8. \A r \in Streams \ {s} : Arrived(r)'
    BY <1>4, <2>1 DEF Arrived
  <2>9. QED BY <1>7, <2>3, <2>6, <2>7, <2>8
<1>10. CASE d = LastLowerBound
  <2>1. dropped' = [dropped EXCEPT ![s] = @ + 1]
    BY <1>10, StopRequest DEF GenerateNextRequest
  <2>2. queue' = queue
    BY <1>3, <1>8, <2>1
  <2>3. dropped'[s] = 1 /\ \A r \in Streams \ {s} : dropped'[r] = dropped[r]
    BY <1>8, <2>1 DEF TypeOK
  <2>4. stream'[s].first = FALSE /\ stream'[s].last = d /\ stream'[s].still = FALSE
    BY <1>4, <1>5, <1>10 DEF AfterPoisson, StreamState
  <2>5. Arrived(s)'
    BY <1>1, <2>3, <2>4 DEF Arrived
  <2>6. \A r \in Streams \ {s} : Arrived(r)'
    BY <1>4, <2>3 DEF Arrived
  <2>7. QED BY <1>7, <2>2, <2>5, <2>6
<1>11. QED BY <1>1, <1>9, <1>10, UnitsType

(* A generation keeps the invariant: it leaves the other streams alone, and
   nothing is claimed of a stream whose pattern is not closed. *)
LEMMA PoissonGeneration ==
  ASSUME TypeOK, Method = PoissonProcess,
         \A r \in Streams : Arrived(r), \A e \in queue : Reached(e),
         NEW s \in Streams, NEW st \in StreamState, StillHaving(st),
         ClosedPattern(s) => (st.first = FALSE => st.last <= LastLowerBound),
         NEW d \in NextDraws(s, st), GenerateNextRequest(s, st, d),
         ~HasQueued(s), dropped[s] = 0
  PROVE  (\A r \in Streams : Arrived(r))' /\ (\A e \in queue : Reached(e))'
<1>1. st.still = TRUE
  BY DEF StillHaving, StatisticsOrder, PoissonProcess, StreamState
<1>2. CASE ClosedPattern(s)
  BY <1>1, <1>2, ClosedGeneration
<1>3. CASE ~ClosedPattern(s)
  <2>1. /\ stream' = [stream EXCEPT ![s] = AfterRequest(st, d)]
        /\ \/ /\ dropped' = dropped
              /\ \E x \in Int :
                   queue' = queue \cup {[key |-> s, time |-> RequestTime(s, d), stamp |-> x]}
           \/ /\ dropped' = [dropped EXCEPT ![s] = @ + 1]
              /\ queue' = queue
    BY Generation, DriverTyped
  <2>2. \A r \in Streams \ {s} : stream'[r] = stream[r] /\ dropped'[r] = dropped[r]
    BY <2>1 DEF TypeOK
  <2>3. \A r \in Streams : Arrived(r)'
    BY <1>3, <2>2 DEF Arrived
  <2>4. \A e \in queue : Reached(e)'
    <3>1. \A e \in queue : e.key \in Streams \ {s}
      BY DEF TypeOK, Event, HasQueued
    <3>2. QED BY <2>2, <3>1 DEF Reached
  <2>5. \A e \in queue' : e \in queue \/ e.key = s
    BY <2>1
  <2>6. \A e \in queue' : Reached(e)'
    BY <1>3, <2>4, <2>5 DEF Reached
  <2>7. QED BY <2>3, <2>6
<1>4. QED BY <1>2, <1>3

(* No stream has started, and nothing was dropped, in the initial states. *)
LEMMA InitPoisson == Init => PoissonInv
<1> SUFFICES ASSUME Init PROVE PoissonInv
  OBVIOUS
<1>1. PICK n \in [Streams -> UNION {Draws[s] : s \in Streams}] :
        stream = [s \in Streams |-> NewStream(n[s])]
  BY DEF Init, ManagerInit
<1>2. \A s \in Streams : stream[s].first = TRUE /\ stream[s].still = TRUE
  BY <1>1 DEF NewStream
<1>3. queue = {} /\ pc = "first" /\ \A s \in Streams : dropped[s] = 0
  BY DEF Init, ManagerInit
<1>4. QED BY <1>2, <1>3 DEF PoissonInv, Arrived

(* Every step of the driver keeps the invariant. *)
LEMMA PoissonInvariant ==
  ASSUME TypeOK, Bookkeeping, PoissonInv, Method = PoissonProcess, [Next]_vars
  PROVE  PoissonInv'
<1>1. CASE FirstRequest
  <2>1. PICK s \in Streams : s = itStream
    BY <1>1 DEF FirstRequest, FirstRequestOfStream, TypeOK, Streams
  <2>2. /\ pc' = "first" /\ ~HasQueued(s)
        /\ dropped[s] = 0 /\ stream[s].still = TRUE
    BY <1>1, <2>1, StreamsAssumption DEF FirstRequest, Bookkeeping, Pristine, Streams
  <2> DEFINE st == SetFirst(stream[s])
  <2>3. stream[s] \in StreamState
    BY DEF TypeOK
  <2>4. st \in StreamState /\ st.still = TRUE /\ st.first = TRUE
    BY <2>2, <2>3, SetFirstType DEF SetFirst, StreamState
  <2>5. StillHaving(st)
    BY <2>4 DEF StillHaving, StatisticsOrder, PoissonProcess
  <2>6. PICK d \in NextDraws(s, st) : GenerateNextRequest(s, st, d)
    BY <1>1, <2>1, <2>5 DEF FirstRequest, FirstRequestOfStream
  <2> HIDE DEF st
  <2>7. (\A r \in Streams : Arrived(r))' /\ (\A e \in queue : Reached(e))'
    BY <2>2, <2>4, <2>5, <2>6, PoissonGeneration DEF PoissonInv
  <2>8. QED BY <2>2, <2>7 DEF PoissonInv
<1>2. CASE StartMainLoop
  BY <1>2 DEF StartMainLoop, FirstRequestsDone, PoissonInv, Arrived, Reached
<1>3. CASE Pop
  <2>1. PICK e \in queue : queue' = queue \ {e} /\ event' = e
    BY <1>3 DEF Pop, PopEvent
  <2>2. UNCHANGED <<stream, dropped>> /\ pc' = "next"
    BY <1>3 DEF Pop
  <2>3. QED BY <2>1, <2>2 DEF PoissonInv, Arrived, Reached
<1>4. CASE NextRequest
  <2>1. pc = "next" /\ StillHaving(stream[event.key]) /\ pc' \in {"loop", "aborted"}
    BY <1>4 DEF NextRequest
  <2>2. PICK s \in Streams : s = event.key
    BY <2>1, PoppedIsFree
  <2>3. PICK d \in NextDraws(s, stream[s]) : GenerateNextRequest(s, stream[s], d)
    BY <1>4, <2>2 DEF NextRequest
  <2>4. stream[s] \in StreamState /\ ~HasQueued(s) /\ dropped[s] = 0
    BY <2>1, <2>2, PoppedIsFree DEF TypeOK
  <2>5. ClosedPattern(s) => (stream[s].first = FALSE => stream[s].last <= LastLowerBound)
    BY DEF PoissonInv, Arrived
  <2>6. (\A r \in Streams : Arrived(r))' /\ (\A e \in queue : Reached(e))'
    BY <2>1, <2>2, <2>3, <2>4, <2>5, PoissonGeneration DEF PoissonInv
  <2>7. QED BY <2>1, <2>6 DEF PoissonInv
<1>5. CASE StreamExhausted
  BY <1>5 DEF StreamExhausted, managerVars, PoissonInv, Arrived, Reached
<1>6. CASE EndRun
  <2>1. /\ queue' = {} /\ pc' \in {"first", "done"}
        /\ \A s \in Streams : dropped'[s] = 0
    BY <1>6 DEF EndRun, ManagerReset, ResetQueue
  <2>2. PICK n \in [Streams -> UNION {Draws[s] : s \in Streams}] :
          stream' = [s \in Streams |-> ResetStream(stream[s], n[s])]
    BY <1>6 DEF EndRun, ManagerReset
  <2>3. \A s \in Streams : stream'[s].first = TRUE /\ stream'[s].still = TRUE
    <3> SUFFICES ASSUME NEW s \in Streams
                 PROVE  stream'[s].first = TRUE /\ stream'[s].still = TRUE
      OBVIOUS
    <3>1. stream'[s] = ResetStream(stream[s], n[s]) /\ stream[s] \in StreamState
      BY <2>2 DEF TypeOK
    <3>2. QED BY <3>1 DEF ResetStream, StreamState
  <2>4. QED BY <2>1, <2>3 DEF PoissonInv, Arrived
<1>7. CASE AbortOnPattern
  BY <1>7 DEF AbortOnPattern, managerVars, PoissonInv, Arrived, Reached
<1>8. CASE UNCHANGED vars
  BY <1>8 DEF vars, managerVars, PoissonInv, Arrived, Reached
<1>9. QED
  BY <1>1, <1>2, <1>3, <1>4, <1>5, <1>6, <1>7, <1>8 DEF Next, Step, Terminating

(* The invariant holds throughout, with the types and the books. *)
LEMMA PoissonInvariantHolds ==
  ASSUME Method = PoissonProcess
  PROVE  Spec => [](TypeOK /\ Bookkeeping /\ PoissonInv)
<1>1. TypeOK /\ Bookkeeping /\ PoissonInv /\ [Next]_vars => PoissonInv'
  BY PoissonInvariant
<1>2. QED BY <1>1, InitPoisson, TypeCorrect, BooksKept, PTL DEF Spec

(* A Poisson stream whose pattern has a point one day before departure ends by
   one dropped draw, and only then: generateNextRequest never refuses another
   request of it, and no run ends with such a stream still open. *)
THEOREM PoissonEndsByDropHolds ==
  ASSUME Method = PoissonProcess
  PROVE  Spec => []PoissonEndsByDrop
<1>1. TypeOK /\ Bookkeeping /\ PoissonInv => PoissonEndsByDrop
  <2> SUFFICES ASSUME TypeOK, Bookkeeping, PoissonInv, NEW s \in Streams, ClosedPattern(s)
               PROVE  /\ stream[s].still <=> dropped[s] = 0
                      /\ pc = "loop" /\ IsQueueDone => dropped[s] = 1
    BY DEF PoissonEndsByDrop
  <2>1. /\ stream[s].still \in BOOLEAN /\ dropped[s] \in Nat /\ dropped[s] <= 1
        /\ stream[s].still = TRUE <=> dropped[s] = 0
    BY DEF TypeOK, StreamState, Bookkeeping, DropEndsTheChain, PoissonInv, Arrived
  <2>2. ASSUME pc = "loop", IsQueueDone
        PROVE  dropped[s] = 1
    <3>1. ~StillHaving(stream[s]) \/ dropped[s] > 0
      BY <2>2 DEF Bookkeeping, ChainUnbroken, HasQueued, IsQueueDone
    <3>2. StillHaving(stream[s]) = stream[s].still
      BY DEF StillHaving, StatisticsOrder, PoissonProcess
    <3>3. dropped[s] # 0
      BY <2>1, <3>1, <3>2
    <3>4. QED BY <2>1, <3>3
  <2>3. QED BY <2>1, <2>2
<1>2. QED BY <1>1, PoissonInvariantHolds, PTL

-----------------------------------------------------------------------------
(* The assertions of the main loop. *)

(* The next request of a stream with a closed pattern is never earlier than the
   popped one. *)
LEMMA ClosedNotEarlier ==
  ASSUME TypeOK, Bookkeeping, PoissonInv, Method = PoissonProcess, pc = "next",
         NEW s \in Streams, s = event.key, ClosedPattern(s),
         NEW d \in NextDraws(s, stream[s])
  PROVE  ~(RequestTime(s, d) < event.time)
<1>1. stream[s] \in StreamState
  BY DEF TypeOK
<1>2. /\ stream[s].first = FALSE /\ stream[s].last < LastLowerBound
      /\ event.time = RequestTime(s, stream[s].last)
  BY DEF PoissonInv, Reached
<1>3. stream[s].last \in Int /\ stream[s].last <= LastLowerBound
  BY <1>1, <1>2, UnitsType DEF StreamState
<1>4. d \in Int /\ stream[s].last <= d
  BY <1>1, <1>2, <1>3, ArrivalsInPattern DEF ResumeAt
<1>5. RequestTime(s, stream[s].last) <= RequestTime(s, d)
  BY <1>2, <1>3, <1>4, ArrivalTimeMonotone
<1>6. RequestTime(s, stream[s].last) \in Int /\ RequestTime(s, d) \in Int
  BY <1>3, <1>4, RequestTimeType
<1>7. QED BY <1>2, <1>5, <1>6

(* A stream with a closed pattern never runs off it. *)
LEMMA ClosedStaysInPattern ==
  ASSUME TypeOK, PoissonInv, Method = PoissonProcess,
         NEW s \in Streams, ClosedPattern(s),
         NEW d \in NextDraws(s, IF pc = "first" THEN SetFirst(stream[s]) ELSE stream[s])
  PROVE  ~RunsOffPattern(s, d)
<1> DEFINE st == IF pc = "first" THEN SetFirst(stream[s]) ELSE stream[s]
<1>1. stream[s] \in StreamState
  BY DEF TypeOK
<1>2. st \in StreamState /\ (st.first = FALSE => st.last <= LastLowerBound)
  <2>1. CASE pc = "first"
    <3>1. SetFirst(stream[s]) \in StreamState /\ SetFirst(stream[s]).first = TRUE
      BY <1>1, SetFirstType DEF SetFirst, StreamState
    <3>2. QED BY <2>1, <3>1
  <2>2. CASE pc # "first"
    BY <1>1, <2>2 DEF PoissonInv, Arrived
  <2>3. QED BY <2>1, <2>2
<1>3. d \in NextDraws(s, st)
  OBVIOUS
<1> HIDE DEF st
<1>4. ~RunsOffPattern(s, d) \/ d = LastLowerBound
  BY <1>2, <1>3, ArrivalsInPattern
<1>5. QED BY <1>4 DEF RunsOffPattern

(* Only a stream whose pattern is not closed makes an assertion fail. *)
LEMMA AbortStep ==
  ASSUME TypeOK, Bookkeeping, PoissonInv, Method = PoissonProcess, [Next]_vars,
         pc # "aborted", pc' = "aborted"
  PROVE  \E s \in Streams : IsGenerating(s) /\ ~ClosedPattern(s)
<1>1. NextRequest \/ AbortOnPattern
  BY DEF Next, Step, Terminating, FirstRequest, StartMainLoop, Pop, StreamExhausted, EndRun, vars
<1>2. CASE NextRequest
  <2>1. pc = "next" /\ StillHaving(stream[event.key])
    BY <1>2 DEF NextRequest
  <2>2. PICK s \in Streams : s = event.key
    BY <2>1, PoppedIsFree
  <2>3. PICK d \in NextDraws(s, stream[s]) : RequestTime(s, d) < event.time
    BY <1>2, <2>2 DEF NextRequest
  <2>4. ~ClosedPattern(s)
    BY <2>1, <2>2, <2>3, ClosedNotEarlier
  <2>5. IsGenerating(s)
    BY <2>1, <2>2 DEF IsGenerating
  <2>6. QED BY <2>4, <2>5
<1>3. CASE AbortOnPattern
  <2>1. PICK s \in Streams :
          /\ IsGenerating(s)
          /\ \E d \in NextDraws(s, IF pc = "first" THEN SetFirst(stream[s]) ELSE stream[s]) :
               RunsOffPattern(s, d)
    BY <1>3 DEF AbortOnPattern
  <2>2. ~ClosedPattern(s)
    BY <2>1, ClosedStaysInPattern
  <2>3. QED BY <2>1, <2>2
<1>4. QED BY <1>1, <1>2, <1>3

(* The assertions of the main loop, that of getUpperBound and the sanity check,
   fail only for a stream whose pattern has no point one day before departure
   or starts after it. *)
THEOREM AbortOnlyWithoutLastBoundHolds ==
  ASSUME Method = PoissonProcess
  PROVE  Spec => AbortOnlyWithoutLastBound
<1>1. TypeOK /\ Bookkeeping /\ PoissonInv /\ [Next]_vars =>
        [pc # "aborted" /\ pc' = "aborted"
           => \E s \in Streams : IsGenerating(s) /\ ~ClosedPattern(s)]_vars
  BY AbortStep
<1>2. QED BY <1>1, PoissonInvariantHolds, PTL DEF Spec, AbortOnlyWithoutLastBound

(* With such patterns in every stream the assertions never fail: a request is
   never earlier than the one before, and getUpperBound finds a point. *)
THEOREM PoissonNeverAborts ==
  ASSUME Method = PoissonProcess, \A s \in Streams : ClosedPattern(s)
  PROVE  Spec => []SanityCheckHolds
<1>1. Init => SanityCheckHolds
  BY DEF Init, SanityCheckHolds
<1>2. TypeOK /\ Bookkeeping /\ PoissonInv /\ SanityCheckHolds /\ [Next]_vars => SanityCheckHolds'
  BY AbortStep DEF SanityCheckHolds
<1>3. QED BY <1>1, <1>2, PoissonInvariantHolds, PTL DEF Spec

-----------------------------------------------------------------------------
(* Why the runs end: with order statistics each step lowers a rank. *)

(* The runs left, the first requests left to generate, the requests left, the
   events waiting and the popped one. *)
BatchRank ==
  <<NbRuns + 1 - run,
    IF pc = "first" THEN NbStreams + 2 - itStream ELSE 0,
    RequestsLeft,
    Cardinality(queue),
    IF pc = "next" THEN 1 ELSE 0>>

BatchDescends ==
  /\ \A i \in 1 .. 5 : BatchRank[i] \in Nat /\ BatchRank'[i] \in Nat
  /\ Below(5, BatchRank', BatchRank)

LEMMA BatchRankNatural ==
  TypeOK => \A i \in 1 .. 5 : BatchRank[i] \in Nat
<1> SUFFICES ASSUME TypeOK
             PROVE  \A i \in 1 .. 5 : BatchRank[i] \in Nat
  OBVIOUS
<1>1. /\ run \in 1 .. NbRuns + 1 /\ NbRuns \in Nat /\ itStream \in 1 .. NbStreams + 1
      /\ NbStreams \in Nat
  BY RunsAssumption, StreamsAssumption DEF TypeOK
<1>2. RequestsLeft \in Nat /\ Cardinality(queue) \in Nat
  BY LeftTypes, FS_CardinalityType DEF TypeOK
<1>3. BatchRank[1] \in Nat /\ BatchRank[2] \in Nat /\ BatchRank[5] \in Nat
  BY <1>1 DEF BatchRank
<1>4. BatchRank[3] \in Nat /\ BatchRank[4] \in Nat
  BY <1>2 DEF BatchRank
<1>5. QED BY <1>3, <1>4

LEMMA BatchLowers ==
  ASSUME TypeOK, Bookkeeping, Method = StatisticsOrder, Step
  PROVE  Below(5, BatchRank', BatchRank)
<1>1. /\ run \in 1 .. NbRuns + 1 /\ NbRuns \in Nat /\ itStream \in 1 .. NbStreams + 1
      /\ NbStreams \in Nat /\ stream \in [Streams -> StreamState]
  BY RunsAssumption, StreamsAssumption DEF TypeOK
<1>2. CASE FirstRequest
  <2>1. pc = "first" /\ pc' = "first" /\ run' = run /\ itStream' = itStream + 1
    BY <1>2 DEF FirstRequest, FirstRequestOfStream
  <2>2. BatchRank'[1] = BatchRank[1] /\ BatchRank'[2] < BatchRank[2]
    BY <1>1, <2>1 DEF BatchRank
  <2>3. QED BY <2>2 DEF Below
<1>3. CASE StartMainLoop
  <2>1. pc = "first" /\ pc' = "loop" /\ run' = run
    BY <1>3 DEF StartMainLoop
  <2>2. BatchRank'[1] = BatchRank[1] /\ BatchRank'[2] < BatchRank[2]
    BY <1>1, <2>1 DEF BatchRank
  <2>3. QED BY <2>2 DEF Below
<1>4. CASE Pop
  <2>1. /\ pc = "loop" /\ pc' = "next" /\ run' = run /\ stream' = stream
    BY <1>4 DEF Pop
  <2>2. PICK e \in queue : queue' = queue \ {e}
    BY <1>4 DEF Pop, PopEvent
  <2>3. Cardinality(queue') = Cardinality(queue) - 1 /\ Cardinality(queue) \in Nat
    BY <2>2, FS_RemoveElement, FS_CardinalityType DEF TypeOK
  <2>4. RequestsLeft' = RequestsLeft
    BY <2>1 DEF RequestsLeft, LeftOf, Remaining
  <2>5. /\ \A i \in 1 .. 3 : BatchRank'[i] = BatchRank[i]
        /\ BatchRank'[4] < BatchRank[4]
    BY <2>1, <2>3, <2>4 DEF BatchRank
  <2>6. QED BY <2>5 DEF Below
<1>5. CASE NextRequest
  <2>1. pc = "next" /\ pc' \in {"aborted", "loop"} /\ run' = run /\ StillHaving(stream[event.key])
    BY <1>5 DEF NextRequest
  <2>2. PICK s \in Streams : s = event.key
    BY <2>1, PoppedIsFree
  <2>3. PICK d \in NextDraws(s, stream[s]) : GenerateNextRequest(s, stream[s], d)
    BY <1>5, <2>2 DEF NextRequest
  <2>4. RequestsLeft' < RequestsLeft
    BY <1>1, <2>1, <2>2, <2>3, DriverTyped, GenerationLowersLeft
  <2>5. /\ BatchRank'[1] = BatchRank[1] /\ BatchRank'[2] = BatchRank[2]
        /\ BatchRank'[3] < BatchRank[3]
    BY <2>1, <2>4 DEF BatchRank
  <2>6. QED BY <2>5 DEF Below
<1>6. CASE StreamExhausted
  <2>1. pc = "next" /\ pc' = "loop" /\ run' = run /\ stream' = stream /\ queue' = queue
    BY <1>6 DEF StreamExhausted, managerVars
  <2>2. RequestsLeft' = RequestsLeft
    BY <2>1 DEF RequestsLeft, LeftOf, Remaining
  <2>3. /\ \A i \in 1 .. 4 : BatchRank'[i] = BatchRank[i]
        /\ BatchRank'[5] < BatchRank[5]
    BY <2>1, <2>2 DEF BatchRank
  <2>4. QED BY <2>3 DEF Below
<1>7. CASE EndRun
  <2>1. run' = run + 1
    BY <1>7 DEF EndRun
  <2>2. BatchRank'[1] < BatchRank[1]
    BY <1>1, <2>1 DEF BatchRank
  <2>3. QED BY <2>2 DEF Below
<1>8. CASE AbortOnPattern
  <2>1. \E s, d : RunsOffPattern(s, d)
    BY <1>8 DEF AbortOnPattern
  <2>2. QED BY <2>1 DEF RunsOffPattern, StatisticsOrder, PoissonProcess
<1>9. QED BY <1>2, <1>3, <1>4, <1>5, <1>6, <1>7, <1>8 DEF Step

(* With order statistics each step of the batch lowers its rank, which is never
   negative: whatever the draws, the stamps and the drops, the runs end. *)
THEOREM BatchDescendsHolds ==
  ASSUME Method = StatisticsOrder
  PROVE  Spec => [][BatchDescends]_vars
<1>1. TypeOK /\ Bookkeeping /\ TypeOK' /\ [Next]_vars => [BatchDescends]_vars
  <2> SUFFICES ASSUME TypeOK, Bookkeeping, TypeOK', Step
               PROVE  BatchDescends
    BY DEF Next, Terminating
  <2>1. \A i \in 1 .. 5 : BatchRank[i] \in Nat
    BY BatchRankNatural
  <2>2. (\A i \in 1 .. 5 : BatchRank[i] \in Nat)'
    BY BatchRankNatural, PTL
  <2>3. Below(5, BatchRank', BatchRank)
    BY BatchLowers
  <2>4. QED BY <2>1, <2>2, <2>3 DEF BatchDescends
<1>2. QED BY <1>1, BooksKept, TypeCorrect, PTL DEF Spec

-----------------------------------------------------------------------------
(* Why the batch never stops for want of a draw. *)

(* A stream about to generate has a draw to make, with either method, and its
   request a stamp to take, whatever its date-time. *)
DrawsAvailable ==
  /\ \A s \in Streams :
       IsGenerating(s) =>
         NextDraws(s, IF pc = "first" THEN SetFirst(stream[s]) ELSE stream[s]) # {}
  /\ \A t \in Int : FreeStamps(queue, t) # {}
  /\ pc = "loop" /\ ~IsQueueDone => \E e \in queue : IsEarliest(e)

LEMMA RoomyStep ==
  TypeOK /\ Bookkeeping /\ Roomy /\ [Next]_vars => Roomy'
<1> SUFFICES ASSUME TypeOK, Bookkeeping, Roomy, [Next]_vars
             PROVE  Roomy'
  OBVIOUS
<1>1. CASE FirstRequest
  BY <1>1, FirstRequestKeepsRoom, DriverTyped DEF FirstRequest
<1>2. CASE NextRequest
  <2>1. pc = "next" /\ StillHaving(stream[event.key])
    BY <1>2 DEF NextRequest
  <2>2. PICK s \in Streams : s = event.key
    BY <2>1, PoppedIsFree
  <2>3. PICK d \in NextDraws(s, stream[s]) : GenerateNextRequest(s, stream[s], d)
    BY <1>2, <2>2 DEF NextRequest
  <2>4. HasRoom(stream[s]) /\ stream[s] \in StreamState
    BY DEF Roomy, TypeOK
  <2>5. QED BY <2>1, <2>2, <2>3, <2>4, GenerationKeepsRoom, DriverTyped
<1>3. CASE EndRun
  BY <1>3, ResetGivesRoom, DriverTyped DEF EndRun
<1>4. CASE stream' = stream
  BY <1>4 DEF Roomy, HasRoom, Remaining
<1>5. QED
  BY <1>1, <1>2, <1>3, <1>4
     DEF Next, Step, Terminating, StartMainLoop, FirstRequestsDone, Pop, StreamExhausted,
         AbortOnPattern, managerVars, vars

(* The generation never stops for want of a draw: with order statistics the
   probabilities above the one a stream has reached always hold the requests it has
   left, and a Poisson stream can always arrive at its horizon; and a request whose
   stamp is taken always finds one that is free. *)
THEOREM DrawsAlwaysAvailable == Spec => []DrawsAvailable
<1>1. TypeOK /\ Roomy => DrawsAvailable
  <2> SUFFICES ASSUME TypeOK, Roomy
               PROVE  DrawsAvailable
    OBVIOUS
  <2>1. ASSUME NEW s \in Streams, IsGenerating(s)
        PROVE  NextDraws(s, IF pc = "first" THEN SetFirst(stream[s]) ELSE stream[s]) # {}
    <3>1. /\ NextDraws(s, stream[s]) # {} \/ ~StillHaving(stream[s])
          /\ NextDraws(s, SetFirst(stream[s])) # {} \/ ~StillHaving(SetFirst(stream[s]))
      BY DrawsExistForAll, DriverTyped
    <3>2. QED BY <2>1, <3>1 DEF IsGenerating
  <2>2. \A t \in Int : FreeStamps(queue, t) # {}
    BY StampsExist DEF TypeOK
  <2>3. ASSUME ~IsQueueDone
        PROVE  \E e \in queue : IsEarliest(e)
    BY <2>3, EarliestExists DEF TypeOK, IsQueueDone, Event
  <2>4. QED BY <2>1, <2>2, <2>3 DEF DrawsAvailable
<1>2. Init => Roomy
  BY InitGivesRoom DEF Init
<1>3. QED BY <1>1, <1>2, RoomyStep, TypeCorrect, BooksKept, PTL DEF Spec
=============================================================================
