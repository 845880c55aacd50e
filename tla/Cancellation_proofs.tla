------------------------ MODULE Cancellation_proofs ------------------------
(***************************************************************************)
(* Proofs about the cancellations, for any streams, any patterns, both        *)
(* methods, any length of a day and of a second, and any draw.               *)
(***************************************************************************)
EXTENDS Cancellation, DemandManager_proofs

-----------------------------------------------------------------------------
(* The time of a cancellation. *)

(* A fraction below one of a positive number, rounded down, is less than it. *)
LEMMA FractionBelow ==
  ASSUME NEW x \in Nat \ {0}, NEW r \in Nat, NEW n \in Nat \ {0}, r < n
  PROVE  (x * r) \div n <= x - 1 /\ (x * r) \div n >= 0
<1>1. x * r \in Nat
  BY SMTT(30)
<1>2. x * r < x * n
  BY SMTT(30)
<1>3. x * n = (x - 1 + 1) * n /\ x - 1 \in Int
  BY SMTT(30)
<1>4. (x * r) \div n <= x - 1
  BY <1>1, <1>2, <1>3, DivUpper
<1>5. (x * r) \div n >= 0
  BY <1>1, DivLower
<1>6. QED BY <1>4, <1>5

(* The whole part of a fraction times its denominator is no more than its
   numerator. *)
LEMMA WholePartBelow ==
  ASSUME NEW a \in Nat, NEW b \in Nat \ {0}
  PROVE  a \div b \in Nat /\ b * (a \div b) <= a
BY SMTT(30)

(* A cancellation that is not before its request is no later than the midnight
   that begins the departure date. *)
LEMMA CancellationTimeBounded ==
  ASSUME NEW date \in Nat, NEW t \in Int, NEW c \in CancellationTimes(date, t)
  PROVE  c \in Int /\ t <= c /\ c <= date * DayLength
<1> DEFINE midnight == date * DayLength
<1>1. midnight \in Int /\ MsPerSecond \in Nat \ {0} /\ Ratios \in Nat \ {0}
  BY UnitsType, CancellationAssumption
<1>2. PICK r \in 0 .. Ratios - 1 : c = CancellationTime(date, t, r) /\ c >= t
  BY DEF CancellationTimes
<1> DEFINE left == Truncated(midnight - t, MsPerSecond)
           part == Truncated(left * r, Ratios)
<1>3. c = midnight - MsPerSecond * part
  BY <1>2 DEF CancellationTime
<1>4. r \in Nat /\ r < Ratios
  BY <1>1, <1>2
<1> HIDE DEF midnight
<1>5. CASE midnight - t >= 0
  <2>1. left = (midnight - t) \div MsPerSecond
    BY <1>1, <1>5 DEF Truncated
  <2>2. left \in Nat
    BY <1>1, <1>5, <2>1, WholePartBelow
  <2> HIDE DEF left
  <2>3. left * r \in Nat
    BY <1>4, <2>2, SMTT(30)
  <2>4. part = (left * r) \div Ratios
    BY <2>3 DEF Truncated
  <2>5. part \in Nat
    BY <1>1, <2>3, <2>4, WholePartBelow
  <2> HIDE DEF part
  <2>6. MsPerSecond * part \in Nat
    BY <1>1, <2>5, SMTT(30)
  <2>7. c \in Int /\ c <= midnight
    BY <1>1, <1>3, <2>6
  <2>8. QED BY <1>2, <2>7 DEF midnight
<1>6. CASE ~(midnight - t >= 0)
  <2> DEFINE late == t - midnight
             x == late \div MsPerSecond
  <2>1. late \in Nat \ {0} /\ midnight + late = t
    BY <1>1, <1>6
  <2>2. left = -x
    BY <1>1, <1>6 DEF Truncated
  <2>3. x \in Nat /\ MsPerSecond * x <= late
    BY <1>1, <2>1, WholePartBelow
  <2> HIDE DEF x, late
  <2>4. CASE x = 0
    <3>1. left = 0
      BY <2>2, <2>4
    <3>2. part = 0
      BY <1>1, <1>4, <3>1, SMTT(30) DEF Truncated
    <3>3. c = midnight
      BY <1>1, <1>3, <3>2
    <3>4. QED BY <1>1, <1>2, <1>6, <3>3
  <2>5. CASE x # 0
    <3> DEFINE y == (x * r) \div Ratios
    <3>1. y \in Int /\ y <= x - 1 /\ y >= 0
      BY <1>1, <1>4, <2>3, <2>5, FractionBelow
    <3>2. part = -y
      <4>1. left * r = -(x * r) /\ x * r \in Nat
        BY <1>4, <2>2, <2>3, SMTT(30)
      <4>2. CASE x * r = 0
        <5>1. left * r = 0
          BY <4>1, <4>2
        <5>2. 0 \div Ratios = 0
          BY <1>1, SMTT(30)
        <5>3. QED BY <4>2, <5>1, <5>2 DEF Truncated
      <4>3. CASE x * r # 0
        <5>1. ~(left * r >= 0) /\ -(left * r) = x * r
          BY <4>1, <4>3
        <5>2. QED BY <5>1 DEF Truncated
      <4>4. QED BY <4>2, <4>3
    <3> HIDE DEF y, part
    <3>3. MsPerSecond * y <= MsPerSecond * (x - 1)
      BY <1>1, <2>3, <3>1, ProductMonotone
    <3>4. MsPerSecond * (x - 1) = MsPerSecond * x - MsPerSecond
      BY <1>1, <2>3, SMTT(30)
    <3>5. MsPerSecond * part = -(MsPerSecond * y)
      BY <1>1, <3>1, <3>2, SMTT(30)
    <3>6. MsPerSecond * y < late
      BY <1>1, <2>1, <2>3, <3>1, <3>3, <3>4
    <3>7. c \in Int /\ c < midnight + late
      <4>1. c = midnight + MsPerSecond * y /\ MsPerSecond * y \in Int
        BY <1>1, <1>3, <3>1, <3>5, SMTT(30)
      <4>2. QED BY <1>1, <2>1, <3>6, <4>1
    <3>8. QED BY <1>2, <2>1, <3>7
  <2>6. QED BY <2>4, <2>5
<1>7. QED BY <1>5, <1>6 DEF midnight

-----------------------------------------------------------------------------
(* The inductive invariant. *)

(* What the simulator took of a stream out of the queue is what it handled. *)
Books == \A s \in Streams : Taken(s) = popped[s]

(* The progress of the cancellations, and none handled or waiting before the
   first one. *)
CancellationBooks ==
  /\ cx.current = cancelled
  /\ cx.actual = cancelled + WaitingOf(CancellationKey)
  /\ cx.known = (cx.expected = 1)
  /\ ~cx.known => cancelled = 0 /\ WaitingOf(CancellationKey) = 0

(* A request is asked for, or cancelled, of a popped event of a stream only. *)
EventIsRequest == pc = "handle" \/ sold => event.key \in Streams

(* The last reset ends the simulation. *)
RunsLeft == pc # "done" => run <= NbRuns

CancellationInv == TypeOK /\ Books /\ CancellationBooks /\ EventIsRequest /\ RunsLeft

(* The key of the cancellations is not a stream, and both are integers. *)
LEMMA Keys ==
  /\ CancellationKey \notin Streams /\ CancellationKey \in Int
  /\ \A s \in Streams : s \in Int /\ s # CancellationKey
BY StreamsAssumption DEF Streams, CancellationKey

(* The state of the simulator has the types the manager wants. *)
LEMMA SimulatorTyped == TypeOK => ManagerTyped
BY Keys DEF TypeOK, ManagerTyped

(* The types of the variables of the simulator itself. *)
SimulatorTypes ==
  /\ \A e \in queue : e.key \in Streams \cup {CancellationKey}
  /\ cx \in [known : BOOLEAN, expected : Nat, current : Nat, actual : Nat]
  /\ pc \in {"first", "loop", "handle", "done"}
  /\ event \in [key : Streams \cup {CancellationKey}, time : Int, stamp : Int]
  /\ sold \in BOOLEAN /\ run \in 1 .. NbRuns + 1
  /\ popped \in [Streams -> Nat] /\ cancelled \in Nat

(* With the types of the manager they make those of the whole state. *)
LEMMA TypesTogether == (ManagerTyped /\ SimulatorTypes)' => TypeOK'
<1> SUFFICES ASSUME ManagerTyped', SimulatorTypes' PROVE TypeOK'
  OBVIOUS
<1>1. queue' \in SUBSET [key : Streams \cup {CancellationKey}, time : Int, stamp : Int]
  BY DEF ManagerTyped, SimulatorTypes
<1>2. QED BY <1>1 DEF ManagerTyped, SimulatorTypes, TypeOK

(* The types of the simulator follow from those of the state. *)
LEMMA TypesApart == TypeOK => SimulatorTypes
BY DEF TypeOK, SimulatorTypes

(* A step that takes nothing out of the queue and leaves the cancellations
   alone keeps the invariant. *)
LEMMA RequestStepKeeps ==
  ASSUME CancellationInv, ManagerTyped',
         \A s \in Streams : Taken(s)' = Taken(s),
         WaitingOf(CancellationKey)' = WaitingOf(CancellationKey),
         \A e \in queue' : e \in queue \/ e.key \in Streams,
         UNCHANGED <<cx, event, sold, run, popped, cancelled>>,
         pc # "done", pc' \in {"first", "loop"}
  PROVE  CancellationInv'
<1>1. SimulatorTypes'
  <2>1. \A e \in queue' : e.key \in Streams \cup {CancellationKey}
    BY TypesApart DEF CancellationInv, SimulatorTypes
  <2>2. QED BY <2>1, TypesApart DEF CancellationInv, SimulatorTypes
<1>2. TypeOK'
  BY <1>1, TypesTogether
<1>3. Books'
  BY DEF CancellationInv, Books
<1>4. CancellationBooks'
  BY DEF CancellationInv, CancellationBooks
<1>5. EventIsRequest' /\ RunsLeft'
  BY DEF CancellationInv, EventIsRequest, RunsLeft
<1>6. QED BY <1>2, <1>3, <1>4, <1>5 DEF CancellationInv

(* The simulation starts with nothing handled and nothing waiting. *)
LEMMA InitCancellation == Init => CancellationInv
<1> SUFFICES ASSUME Init PROVE CancellationInv
  OBVIOUS
<1>1. ManagerTyped /\ queue = {} /\ (\A s \in Streams : Taken(s) = 0) /\ WaitingOf(CancellationKey) = 0
  BY InitBalance DEF Init
<1>2. /\ cx = NoStatus /\ pc = "first" /\ event = NoEvent /\ sold = FALSE /\ run = 1
      /\ popped = [s \in Streams |-> 0] /\ cancelled = 0
  BY DEF Init
<1>3. SimulatorTypes
  <2>1. NoStatus \in [known : BOOLEAN, expected : Nat, current : Nat, actual : Nat]
    BY DEF NoStatus
  <2>2. NoEvent \in [key : Streams \cup {CancellationKey}, time : Int, stamp : Int]
    BY DEF NoEvent
  <2>3. 1 \in 1 .. NbRuns + 1
    BY CancellationAssumption
  <2>4. QED BY <1>1, <1>2, <2>1, <2>2, <2>3 DEF SimulatorTypes
<1>4. TypeOK
  <2>1. queue \in SUBSET [key : Streams \cup {CancellationKey}, time : Int, stamp : Int]
    BY <1>1
  <2>2. QED BY <1>1, <1>3, <2>1 DEF ManagerTyped, SimulatorTypes, TypeOK
<1>5. Books
  BY <1>1, <1>2 DEF Books
<1>6. CancellationBooks
  <2>1. cx.known = FALSE /\ cx.expected = 0 /\ cx.current = 0 /\ cx.actual = 0
    BY <1>2 DEF NoStatus
  <2>2. (cx.expected = 1) = FALSE
    BY <2>1
  <2>3. cx.known = (cx.expected = 1)
    BY <2>1, <2>2, Zenon
  <2>4. cx.current = cancelled /\ cx.actual = cancelled + WaitingOf(CancellationKey)
    BY <1>1, <1>2, <2>1
  <2>5. QED BY <1>1, <1>2, <2>3, <2>4 DEF CancellationBooks
<1>7. EventIsRequest /\ RunsLeft
  BY <1>2, CancellationAssumption DEF EventIsRequest, RunsLeft
<1>8. QED BY <1>4, <1>5, <1>6, <1>7 DEF CancellationInv

(* The first request of a stream. *)
LEMMA FirstRequestKeeps ==
  ASSUME CancellationInv, FirstRequest
  PROVE  CancellationInv'
<1>1. FirstRequestOfStream /\ UNCHANGED cxVars /\ pc = "first"
  BY DEF FirstRequest
<1>2. /\ ManagerTyped' /\ \A s \in Streams : Taken(s)' = Taken(s)
      /\ WaitingOf(CancellationKey)' = WaitingOf(CancellationKey)
  BY <1>1, Keys, SimulatorTyped, FirstRequestBalance DEF CancellationInv
<1>3. itStream \in Streams
  BY <1>1, StreamsAssumption DEF FirstRequestOfStream, CancellationInv, TypeOK, Streams
<1>4. \A e \in queue' : e \in queue \/ e.key \in Streams
  BY <1>1, <1>3 DEF FirstRequestOfStream, GenerateNextRequest, AddEvent
<1>5. QED BY <1>1, <1>2, <1>4, RequestStepKeeps DEF cxVars

(* The end of the first requests. *)
LEMMA StartLoopKeeps ==
  ASSUME CancellationInv, StartLoop
  PROVE  CancellationInv'
<1>1. ManagerTyped' /\ UNCHANGED <<stream, queue, dropped>>
  BY SimulatorTyped, FirstRequestsDoneBalance DEF CancellationInv, StartLoop
<1>2. /\ \A s \in Streams : Taken(s)' = Taken(s)
      /\ WaitingOf(CancellationKey)' = WaitingOf(CancellationKey)
  BY <1>1 DEF Taken, WaitingOf
<1>3. QED BY <1>1, <1>2, RequestStepKeeps DEF StartLoop

(* A popped request is handled, a cancellation stays where it is. *)
LEMMA PopRequestKeeps ==
  ASSUME CancellationInv, PopRequest
  PROVE  CancellationInv'
<1>1. PICK e \in queue : /\ e.key # CancellationKey /\ PopEvent(e) /\ event' = e
                         /\ popped' = [popped EXCEPT ![e.key] = @ + 1]
  BY DEF PopRequest
<1>2. /\ sold' \in BOOLEAN /\ pc' = "handle"
      /\ UNCHANGED <<stream, itStream, sumActual, dropped, forgotten, cx, run, cancelled>>
  BY DEF PopRequest
<1>3. e.key \in Streams /\ e \in [key : Streams \cup {CancellationKey}, time : Int, stamp : Int]
  BY <1>1 DEF CancellationInv, TypeOK
<1>4. /\ ManagerTyped' /\ Taken(e.key)' = Taken(e.key) + 1
      /\ \A r \in Streams : r # e.key => Taken(r)' = Taken(r)
      /\ WaitingOf(CancellationKey)' = WaitingOf(CancellationKey)
  BY <1>1, <1>2, <1>3, Keys, SimulatorTyped, PopBalance DEF CancellationInv
<1>5. popped' \in [Streams -> Nat]
  BY <1>1, <1>3 DEF CancellationInv, TypeOK
<1>6. SimulatorTypes'
  <2>1. queue' \subseteq queue
    BY <1>1 DEF PopEvent
  <2>2. QED BY <1>1, <1>2, <1>3, <1>5, <2>1, TypesApart DEF CancellationInv, SimulatorTypes
<1>7. TypeOK'
  BY <1>4, <1>6, TypesTogether
<1>8. Books'
  BY <1>1, <1>3, <1>4 DEF CancellationInv, Books, TypeOK
<1>9. CancellationBooks'
  BY <1>2, <1>4 DEF CancellationInv, CancellationBooks
<1>10. EventIsRequest' /\ RunsLeft'
  BY <1>1, <1>2, <1>3 DEF PopRequest, CancellationInv, EventIsRequest, RunsLeft
<1>11. QED BY <1>7, <1>8, <1>9, <1>10 DEF CancellationInv

(* A popped cancellation is handled, and no request is touched. *)
LEMMA PopCancellationKeeps ==
  ASSUME CancellationInv, PopCancellation
  PROVE  CancellationInv'
<1>1. PICK e \in queue : e.key = CancellationKey /\ queue' = queue \ {e} /\ event' = e
  BY DEF PopCancellation
<1>2. /\ cx' = [cx EXCEPT !.current = @ + 1] /\ cancelled' = cancelled + 1 /\ sold' = FALSE
      /\ pc = "loop"
      /\ UNCHANGED <<stream, status, itStream, sumActual, dropped, forgotten, pc, run, popped>>
  BY DEF PopCancellation
<1>3. /\ queue' \in SUBSET [key : Int, time : Int, stamp : Int] /\ IsFiniteSet(queue')
      /\ WaitingOf(CancellationKey)' = WaitingOf(CancellationKey) - 1
      /\ \A s \in Streams : WaitingOf(s)' = WaitingOf(s)
  BY <1>1, Keys, SimulatorTyped, RemovedEventWaits DEF CancellationInv
<1>4. ManagerTyped'
  BY <1>2, <1>3, SimulatorTyped DEF CancellationInv, ManagerTyped
<1>5. WaitingOf(CancellationKey) \in Nat /\ WaitingOf(CancellationKey)' \in Nat
  <2>1. \A k : WaitingOf(k) \in Nat
    BY SimulatorTyped, BalanceTypes DEF CancellationInv
  <2>2. IsFiniteSet({f \in queue' : f.key = CancellationKey})
    BY <1>3, FS_Subset
  <2>3. QED BY <2>1, <2>2, FS_CardinalityType DEF WaitingOf
<1>6. /\ cx' \in [known : BOOLEAN, expected : Nat, current : Nat, actual : Nat]
      /\ cx'.known = cx.known /\ cx'.expected = cx.expected
      /\ cx'.actual = cx.actual /\ cx'.current = cx.current + 1
  BY <1>2 DEF CancellationInv, TypeOK
<1>7. SimulatorTypes'
  <2>1. queue' \subseteq queue
    BY <1>1
  <2>2. event' \in [key : Streams \cup {CancellationKey}, time : Int, stamp : Int]
    BY <1>1 DEF CancellationInv, TypeOK
  <2>3. cancelled' \in Nat
    BY <1>2 DEF CancellationInv, TypeOK
  <2>4. QED BY <1>2, <1>6, <2>1, <2>2, <2>3, TypesApart DEF CancellationInv, SimulatorTypes
<1>8. TypeOK'
  BY <1>4, <1>7, TypesTogether
<1>9. Books'
  BY <1>2, <1>3 DEF CancellationInv, Books, Taken
<1>10. CancellationBooks'
  <2>1. cx.known
    BY <1>3, <1>5 DEF CancellationInv, CancellationBooks
  <2>2. cancelled \in Nat
    BY DEF CancellationInv, TypeOK
  <2>3. cx'.actual = cancelled' + WaitingOf(CancellationKey)'
    BY <1>2, <1>3, <1>5, <1>6, <2>2 DEF CancellationInv, CancellationBooks
  <2>4. QED BY <1>2, <1>6, <2>1, <2>3 DEF CancellationInv, CancellationBooks
<1>11. EventIsRequest' /\ RunsLeft'
  BY <1>2 DEF CancellationInv, EventIsRequest, RunsLeft
<1>12. QED BY <1>8, <1>9, <1>10, <1>11 DEF CancellationInv

(* The next request of the stream of the popped one. *)
LEMMA NextRequestKeeps ==
  ASSUME CancellationInv, NextRequest
  PROVE  CancellationInv'
<1>1. /\ pc = "handle" /\ pc' = "loop"
      /\ UNCHANGED <<itStream, sumActual, forgotten, cx, event, sold, run, popped, cancelled>>
  BY DEF NextRequest
<1>2. event.key \in Streams
  BY <1>1 DEF CancellationInv, EventIsRequest
<1> DEFINE s == event.key
<1>3. ManagerTyped /\ stream[s] \in StreamState
  BY <1>2, SimulatorTyped DEF CancellationInv, TypeOK
<1>4. CASE StillHaving(stream[s])
  <2>1. PICK d \in NextDraws(s, stream[s]) : GenerateNextRequest(s, stream[s], d)
    BY <1>4 DEF NextRequest
  <2>2. itStream' \in 1 .. NbStreams + 1 /\ sumActual' \in Int
    BY <1>1, <1>3 DEF ManagerTyped
  <2>3. \A e \in queue' : e \in queue \/ e.key \in Streams
    BY <1>2, <2>1 DEF GenerateNextRequest, AddEvent
  <2> HIDE DEF s
  <2>4. /\ ManagerTyped' /\ \A r \in Streams : Taken(r)' = Taken(r)
        /\ WaitingOf(CancellationKey)' = WaitingOf(CancellationKey)
    <3>1. s \in Streams
      BY <1>2 DEF s
    <3>2. QED BY <1>1, <1>3, <1>4, <2>1, <2>2, <3>1, Keys, GenerationBalance
  <2>5. QED BY <1>1, <2>3, <2>4, RequestStepKeeps
<1>5. CASE ~StillHaving(stream[s])
  <2>1. UNCHANGED <<stream, queue, status, dropped>>
    BY <1>5 DEF NextRequest
  <2>2. ManagerTyped'
    BY <1>1, <1>3, <2>1 DEF ManagerTyped
  <2>3. /\ \A r \in Streams : Taken(r)' = Taken(r)
        /\ WaitingOf(CancellationKey)' = WaitingOf(CancellationKey)
    BY <2>1 DEF Taken, WaitingOf
  <2>4. QED BY <1>1, <2>1, <2>2, <2>3, RequestStepKeeps
<1>6. QED BY <1>4, <1>5

(* The cancellation of the popped request is queued and counted, or there is
   none. *)
LEMMA CancelKeeps ==
  ASSUME CancellationInv, Cancel
  PROVE  CancellationInv'
<1>1. /\ sold /\ sold' = FALSE /\ GenerateCancellation
      /\ UNCHANGED <<stream, status, itStream, sumActual, dropped, forgotten,
                     pc, event, run, popped, cancelled>>
  BY DEF Cancel
<1>2. event.key \in Streams /\ event.time \in Int
  BY <1>1 DEF CancellationInv, EventIsRequest, TypeOK
<1>3. EventIsRequest' /\ RunsLeft'
  BY <1>1, <1>2 DEF CancellationInv, EventIsRequest, RunsLeft
<1>4. CASE UNCHANGED <<queue, cx>>
  <2>1. TypeOK'
    BY <1>1, <1>4 DEF CancellationInv, TypeOK
  <2>2. Books' /\ CancellationBooks'
    BY <1>1, <1>4 DEF CancellationInv, Books, CancellationBooks, Taken, WaitingOf
  <2>3. QED BY <1>3, <2>1, <2>2 DEF CancellationInv
<1>5. CASE /\ \E t \in CancellationTimes(DepartureDate[event.key], event.time) :
                AddEvent(CancellationKey, t)
           /\ CountCancellation
  <2>1. PICK t \in CancellationTimes(DepartureDate[event.key], event.time) :
          AddEvent(CancellationKey, t)
    BY <1>5
  <2>2. t \in Int
    BY <1>2, <2>1, UnitsType, CancellationTimeBounded
  <2>3. /\ \E x \in Int : queue' = queue \cup {[key |-> CancellationKey, time |-> t, stamp |-> x]}
        /\ queue' \in SUBSET [key : Int, time : Int, stamp : Int] /\ IsFiniteSet(queue')
        /\ WaitingOf(CancellationKey)' = WaitingOf(CancellationKey) + 1
        /\ \A j : j # CancellationKey => WaitingOf(j)' = WaitingOf(j)
    BY <2>1, <2>2, Keys, SimulatorTyped, AddEventWaits DEF CancellationInv
  <2>4. \A e \in queue' : e.key \in Streams \cup {CancellationKey}
    BY <2>3 DEF CancellationInv, TypeOK
  <2>5. ManagerTyped'
    BY <1>1, <2>3, SimulatorTyped DEF CancellationInv, ManagerTyped
  <2>6. WaitingOf(CancellationKey) \in Nat /\ cancelled \in Nat
    BY SimulatorTyped, BalanceTypes DEF CancellationInv, TypeOK
  <2>7. /\ cx \in [known : BOOLEAN, expected : Nat, current : Nat, actual : Nat]
        /\ CancellationBooks
    BY DEF CancellationInv, TypeOK
  <2>8. /\ cx' \in [known : BOOLEAN, expected : Nat, current : Nat, actual : Nat]
        /\ cx'.known = TRUE /\ cx'.expected = 1 /\ cx'.current = cancelled
        /\ cx'.actual = cancelled + WaitingOf(CancellationKey) + 1
    <3>1. CASE cx.known
      <4>1. cx' = [cx EXCEPT !.actual = @ + 1]
        BY <1>5, <3>1 DEF CountCancellation
      <4>2. QED BY <2>6, <2>7, <3>1, <4>1 DEF CancellationBooks
    <3>2. CASE ~cx.known
      <4>1. cx' = [known |-> TRUE, expected |-> 1, current |-> 0, actual |-> 1]
        BY <1>5, <3>2 DEF CountCancellation
      <4>2. cancelled = 0 /\ WaitingOf(CancellationKey) = 0
        BY <2>7, <3>2 DEF CancellationBooks
      <4>3. QED BY <4>1, <4>2
    <3>3. QED BY <3>1, <3>2
  <2>9. SimulatorTypes'
    BY <1>1, <2>4, <2>8, TypesApart DEF CancellationInv, SimulatorTypes
  <2>10. TypeOK'
    BY <2>5, <2>9, TypesTogether
  <2>11. Books'
    <3>1. \A s \in Streams : WaitingOf(s)' = WaitingOf(s)
      BY <2>3, Keys
    <3>2. QED BY <1>1, <3>1 DEF CancellationInv, Books, Taken
  <2>12. CancellationBooks'
    BY <1>1, <2>3, <2>6, <2>8 DEF CancellationBooks
  <2>13. QED BY <1>3, <2>10, <2>11, <2>12 DEF CancellationInv
<1>6. QED BY <1>1, <1>4, <1>5 DEF GenerateCancellation

(* A reset leaves nothing handled and nothing waiting. *)
LEMMA ResetKeeps ==
  ASSUME CancellationInv, Reset
  PROVE  CancellationInv'
<1>1. /\ ManagerReset /\ event' = NoEvent /\ sold' = FALSE /\ run' = run + 1
      /\ cx' = [cx EXCEPT !.current = 0, !.actual = 0]
      /\ pc = "loop" /\ pc' = IF run = NbRuns THEN "done" ELSE "first"
      /\ popped' = [s \in Streams |-> 0] /\ cancelled' = 0
  BY DEF Reset
<1>2. /\ ManagerTyped' /\ queue' = {} /\ (\A s \in Streams : Taken(s)' = 0)
      /\ WaitingOf(CancellationKey)' = 0
  BY <1>1, SimulatorTyped, ResetBalance DEF CancellationInv
<1>3. run \in 1 .. NbRuns
  BY <1>1 DEF CancellationInv, RunsLeft, TypeOK
<1>4. /\ cx' \in [known : BOOLEAN, expected : Nat, current : Nat, actual : Nat]
      /\ cx'.known = cx.known /\ cx'.expected = cx.expected
      /\ cx'.current = 0 /\ cx'.actual = 0
  <2> DEFINE S == [known : BOOLEAN, expected : Nat, current : Nat, actual : Nat]
             a == [cx EXCEPT !.current = 0]
  <2>1. cx \in S
    BY DEF CancellationInv, TypeOK
  <2>2. a \in S /\ a.known = cx.known /\ a.expected = cx.expected /\ a.current = 0
    BY <2>1
  <2>3. cx' = [a EXCEPT !.actual = 0]
    BY <1>1
  <2> HIDE DEF a
  <2>4. QED BY <2>2, <2>3
<1>5. SimulatorTypes'
  <2>1. NoEvent \in [key : Streams \cup {CancellationKey}, time : Int, stamp : Int]
    BY DEF NoEvent
  <2>2. run' \in 1 .. NbRuns + 1
    BY <1>1, <1>3, CancellationAssumption
  <2>3. pc' \in {"first", "loop", "handle", "done"}
    BY <1>1
  <2>4. QED BY <1>1, <1>2, <1>4, <2>1, <2>2, <2>3 DEF SimulatorTypes
<1>6. TypeOK'
  BY <1>2, <1>5, TypesTogether
<1>7. Books' /\ CancellationBooks'
  BY <1>1, <1>2, <1>4 DEF CancellationInv, Books, CancellationBooks
<1>8. EventIsRequest' /\ RunsLeft'
  BY <1>1, <1>3, CancellationAssumption DEF EventIsRequest, RunsLeft
<1>9. QED BY <1>6, <1>7, <1>8 DEF CancellationInv

(* Each step keeps the invariant. *)
LEMMA CancellationStep == CancellationInv /\ [Next]_vars => CancellationInv'
<1> SUFFICES ASSUME CancellationInv, [Next]_vars PROVE CancellationInv'
  OBVIOUS
<1>1. CASE UNCHANGED vars
  <2>1. TypeOK'
    BY <1>1 DEF CancellationInv, TypeOK, vars, managerVars, cxVars
  <2>2. Books' /\ CancellationBooks'
    BY <1>1 DEF CancellationInv, Books, CancellationBooks, Taken, WaitingOf, vars, managerVars, cxVars
  <2>3. EventIsRequest' /\ RunsLeft'
    BY <1>1 DEF CancellationInv, EventIsRequest, RunsLeft, vars, cxVars
  <2>4. QED BY <2>1, <2>2, <2>3 DEF CancellationInv
<1>2. CASE Terminating
  BY <1>1, <1>2 DEF Terminating
<1>3. QED
  BY <1>1, <1>2, FirstRequestKeeps, StartLoopKeeps, PopRequestKeeps, PopCancellationKeeps,
     NextRequestKeeps, CancelKeeps, ResetKeeps DEF Next

(* The invariant holds in every simulation. *)
LEMMA CancellationInvHolds == Spec => []CancellationInv
BY InitCancellation, CancellationStep, PTL DEF Spec

-----------------------------------------------------------------------------
(* The theorems. *)

(* The state of the simulation is well typed. *)
THEOREM CancellationTypeCorrect == Spec => []TypeOK
<1>1. CancellationInv => TypeOK
  BY DEF CancellationInv
<1>2. QED BY <1>1, CancellationInvHolds, PTL

(* The progress of the cancellations is that of this run: the status that
   generateCancellation creates at the first one, and reset clears, counts the
   cancellations handled and waiting and nothing else. *)
THEOREM CancellationTallyHolds == Spec => []CancellationTally
<1>1. CancellationInv => CancellationTally
  <2> SUFFICES ASSUME CancellationInv PROVE CancellationTally
    OBVIOUS
  <2>1. CancellationBooks
    BY DEF CancellationInv
  <2>2. Cardinality(Cancellations) = WaitingOf(CancellationKey)
    BY DEF Cancellations, WaitingOf
  <2>3. IsFiniteSet(Cancellations)
    BY SimulatorTyped, BalanceTypes DEF CancellationInv, Cancellations
  <2>4. ~cx.known => Cancellations = {}
    BY <2>1, <2>2, <2>3, FS_EmptySet DEF CancellationBooks
  <2>5. QED BY <2>1, <2>2, <2>4 DEF CancellationBooks, CancellationTally
<1>2. QED BY <1>1, CancellationInvHolds, PTL

(* The progress of the requests counts the requests handled. *)
Progress == status.current = SumOver(popped)

(* The progress starts at zero, and each step that handles a request, and no other,
   counts one more. *)
LEMMA ProgressStep ==
  /\ Init => Progress
  /\ CancellationInv /\ Progress /\ [Next]_vars => Progress'
<1>1. Init => Progress
  BY SumOfNothing DEF Init, ManagerInit, Progress
<1>2. ASSUME CancellationInv, Progress, [Next]_vars PROVE Progress'
  <2>0. status \in [expected : Int, current : Nat, actual : Int] /\ popped \in [Streams -> Int]
    BY <1>2 DEF CancellationInv, TypeOK
  <2>1. ASSUME popped' = popped, status'.current = status.current PROVE Progress'
    BY <1>2, <2>1 DEF Progress, SumOver
  <2>2. CASE FirstRequest
    BY <2>0, <2>1, <2>2 DEF FirstRequest, FirstRequestOfStream, GenerateNextRequest,
                            UpdateStatus, cxVars
  <2>3. CASE StartLoop
    BY <2>0, <2>1, <2>3 DEF StartLoop, FirstRequestsDone, UpdateStatus
  <2>4. CASE PopRequest
    <3>1. PICK e \in queue : /\ e.key # CancellationKey /\ PopEvent(e)
                             /\ popped' = [popped EXCEPT ![e.key] = @ + 1]
      BY <2>4 DEF PopRequest
    <3>2. e.key \in Streams
      BY <1>2, <3>1 DEF CancellationInv, TypeOK
    <3>3. SumOver(popped)' = SumOver(popped) + 1
      BY <2>0, <3>1, <3>2, SumOfOneMore DEF SumOver
    <3>4. status'.current = status.current + 1
      BY <2>0, <3>1 DEF PopEvent
    <3>5. QED BY <1>2, <3>3, <3>4 DEF Progress
  <2>5. CASE NextRequest
    BY <2>0, <2>1, <2>5 DEF NextRequest, GenerateNextRequest, UpdateStatus
  <2>6. CASE Reset
    <3>1. status'.current = 0 /\ popped' = [s \in Streams |-> 0]
      BY <2>0, <2>6 DEF Reset, ManagerReset, ResetQueue
    <3>2. QED BY <3>1, SumOfNothing DEF Progress, SumOver
  <2>7. CASE PopCancellation \/ Cancel \/ Terminating \/ UNCHANGED vars
    BY <2>1, <2>7 DEF PopCancellation, Cancel, Terminating, vars, managerVars, cxVars
  <2>8. QED BY <1>2, <2>2, <2>3, <2>4, <2>5, <2>6, <2>7 DEF Next
<1>3. QED BY <1>1, <1>2

(* The demand is not disturbed by the cancellations, wherever they are asked for and
   whenever the service is reset: each request a stream counted was handled once,
   waits, or was dropped, and the progress of the requests counts requests only. *)
THEOREM RequestsUndisturbedHolds == Spec => []RequestsUndisturbed
<1>1. CancellationInv /\ Progress => RequestsUndisturbed
  <2> SUFFICES ASSUME CancellationInv, NEW s \in Streams
               PROVE  stream[s].soFar + (IF stream[s].still THEN 0 ELSE 1)
                        = popped[s] + Cardinality({e \in Requests : e.key = s}) + dropped[s]
    BY DEF RequestsUndisturbed, Progress
  <2>1. Counted(stream[s]) \in Nat /\ WaitingOf(s) \in Nat
    BY SimulatorTyped, BalanceTypes DEF CancellationInv
  <2>2. dropped[s] \in Nat /\ popped[s] \in Nat
    BY DEF CancellationInv, TypeOK
  <2>3. Counted(stream[s]) - WaitingOf(s) - dropped[s] = popped[s]
    BY DEF CancellationInv, Books, Taken
  <2>4. {e \in Requests : e.key = s} = {e \in queue : e.key = s}
    BY Keys DEF Requests
  <2>5. Counted(stream[s]) = popped[s] + WaitingOf(s) + dropped[s]
    BY <2>1, <2>2, <2>3
  <2>6. QED BY <2>4, <2>5 DEF Counted, WaitingOf
<1>2. QED BY <1>1, CancellationInvHolds, ProgressStep, PTL DEF Spec

(* A cancellation falls between its request and the midnight that begins the
   departure date, so that no request made after that midnight is cancelled,
   whatever the lengths of a day and of a second, the draw and the request. *)
THEOREM CancelledBeforeDepartureHolds == Spec => CancelledBeforeDeparture
<1> DEFINE midnight == DepartureDate[event.key] * DayLength
           A == \A e \in Cancellations' \ Cancellations :
                  /\ event.time <= e.time /\ e.time <= midnight
                  /\ event.time <= midnight
<1>1. CancellationInv /\ [Next]_vars => [A]_vars
  <2> SUFFICES ASSUME CancellationInv, Next, NEW e \in Cancellations' \ Cancellations
               PROVE  /\ event.time <= e.time /\ e.time <= midnight
                      /\ event.time <= midnight
    OBVIOUS
  <2>1. e \in queue' /\ e \notin queue /\ e.key = CancellationKey
    BY DEF Cancellations
  <2>2. CASE Cancel
    <3>1. event.key \in Streams /\ event.time \in Int
      BY <2>2 DEF Cancel, CancellationInv, EventIsRequest, TypeOK
    <3>2. PICK t \in CancellationTimes(DepartureDate[event.key], event.time) :
            AddEvent(CancellationKey, t)
      BY <2>1, <2>2 DEF Cancel, GenerateCancellation
    <3>3. t \in Int /\ event.time <= t /\ t <= midnight
      BY <3>1, UnitsType, CancellationTimeBounded
    <3>4. midnight \in Int
      BY <3>1, UnitsType, StreamsAssumption
    <3>5. e.time = t
      BY <2>1, <3>2 DEF AddEvent
    <3> HIDE DEF midnight
    <3>6. QED BY <3>1, <3>3, <3>4, <3>5
  <2>3. CASE FirstRequest
    <3>1. itStream \in Streams
      BY <2>3, StreamsAssumption DEF FirstRequest, FirstRequestOfStream, CancellationInv, TypeOK, Streams
    <3>2. e.key = itStream
      BY <2>1, <2>3 DEF FirstRequest, FirstRequestOfStream, GenerateNextRequest, AddEvent
    <3>3. QED BY <2>1, <3>1, <3>2, Keys
  <2>4. CASE NextRequest
    <3>1. event.key \in Streams
      BY <2>4 DEF NextRequest, CancellationInv, EventIsRequest
    <3>2. e.key = event.key
      BY <2>1, <2>4 DEF NextRequest, GenerateNextRequest, AddEvent
    <3>3. QED BY <2>1, <3>1, <3>2, Keys
  <2>5. CASE StartLoop \/ PopRequest \/ PopCancellation \/ Reset \/ Terminating
    BY <2>1, <2>5 DEF StartLoop, FirstRequestsDone, PopRequest, PopEvent, PopCancellation,
                      Reset, ManagerReset, ResetQueue, Terminating, vars, managerVars
  <2>6. QED BY <2>2, <2>3, <2>4, <2>5 DEF Next
<1>2. QED BY <1>1, CancellationInvHolds, PTL DEF Spec, CancelledBeforeDeparture

-----------------------------------------------------------------------------
(* The clock of the simulator. *)

(* Each request in the queue is in step with its stream; so is the request being
   handled, whose stream has none in the queue; the loop of the first requests has
   not reached the streams without any; the queue holds nothing before the clock. *)
ClockInv ==
  /\ ChainsInStep
  /\ pc = "handle" => InStep(event) /\ \A e \in queue : e.key # event.key
  /\ pc = "first" => ~HasClock /\ \A e \in queue : e.key < itStream
  /\ NothingBehindTheClock

(* Nothing waits when the simulation starts. *)
LEMMA InitClock == Init => ClockInv
<1> SUFFICES ASSUME Init PROVE ClockInv
  OBVIOUS
<1>1. queue = {} /\ pc = "first" /\ cancelled = 0 /\ popped = [s \in Streams |-> 0]
  BY DEF Init, ManagerInit
<1>2. ~HasClock
  BY <1>1 DEF HasClock
<1>3. QED BY <1>1, <1>2 DEF ClockInv, ChainsInStep, NothingBehindTheClock

(* The first request of a stream: it has none in the queue, and nothing was handled
   yet. *)
LEMMA FirstRequestClock ==
  ASSUME CancellationInv, ClockInv, FirstRequest
  PROVE  ClockInv'
<1>1. PICK s \in Streams : s = itStream
  BY StreamsAssumption DEF FirstRequest, FirstRequestOfStream, CancellationInv, TypeOK, Streams
<1>2. /\ pc = "first" /\ pc' = "first" /\ itStream' = s + 1 /\ FirstRequestOfStream
      /\ UNCHANGED <<cancelled, popped, event>> /\ s \in Int
  BY <1>1, Keys DEF FirstRequest, FirstRequestOfStream, cxVars
<1> DEFINE st == SetFirst(stream[s])
<1>3. ManagerTyped /\ st \in StreamState
  BY SimulatorTyped, SetFirstType DEF CancellationInv, TypeOK
<1>4. ~HasClock' /\ \A e \in queue : e.key < s /\ e.key # s
  <2>1. \A e \in queue : e.key \in Int
    BY <1>3 DEF ManagerTyped
  <2>2. QED BY <1>1, <1>2, <2>1 DEF ClockInv, HasClock
<1>5. ChainsInStep' /\ \A e \in queue' : e \in queue \/ e.key = s
  <2>1. CASE StillHaving(st)
    <3>1. PICK d \in NextDraws(s, st) : ~RunsOffPattern(s, d) /\ GenerateNextRequest(s, st, d)
      BY <1>1, <1>2, <2>1 DEF FirstRequestOfStream
    <3> HIDE DEF st
    <3>2. QED BY <1>3, <1>4, <2>1, <3>1, GenerationInStep DEF ClockInv
  <2>2. CASE ~StillHaving(st)
    <3>1. queue' = queue /\ stream' = [stream EXCEPT ![s] = st]
      BY <1>1, <1>2, <2>2 DEF FirstRequestOfStream
    <3>2. \A e \in queue : e.key \in Streams => stream'[e.key] = stream[e.key]
      BY <1>3, <1>4, <3>1 DEF ManagerTyped
    <3>3. QED BY <3>1, <3>2 DEF ClockInv, ChainsInStep, InStep
  <2>3. QED BY <2>1, <2>2
<1>6. \A e \in queue' : e.key < itStream'
  <2>1. \A e \in queue : e.key \in Int
    BY <1>3 DEF ManagerTyped
  <2>2. QED BY <1>2, <1>4, <1>5, <2>1
<1>7. QED BY <1>2, <1>4, <1>5, <1>6 DEF ClockInv, NothingBehindTheClock

(* The earliest event becomes the clock: all the others are later. *)
LEMMA PopClock ==
  ASSUME CancellationInv, ClockInv, NEW e \in queue, IsEarliest(e), queue' = queue \ {e},
         event' = e, stream' = stream
  PROVE  /\ ChainsInStep' /\ NothingBehindTheClock'
         /\ e.key \in Streams => InStep(event)' /\ \A f \in queue' : f.key # e.key
<1>1. ManagerTyped
  BY SimulatorTyped DEF CancellationInv
<1>2. \A f \in queue' : f \in queue /\ f # e /\ f.stamp >= e.time
  <2> SUFFICES ASSUME NEW f \in queue', f \in queue PROVE f.stamp >= e.time
    OBVIOUS
  <2>1. e.stamp <= f.stamp /\ e.time <= e.stamp
    BY DEF IsEarliest, ClockInv, ChainsInStep
  <2>2. e.time \in Int /\ e.stamp \in Int /\ f.stamp \in Int
    BY <1>1 DEF ManagerTyped
  <2>3. QED BY <2>1, <2>2
<1>3. ChainsInStep'
  BY <1>2 DEF ClockInv, ChainsInStep, InStep
<1>4. QED BY <1>2, <1>3 DEF ClockInv, ChainsInStep, InStep, NothingBehindTheClock

(* The next request of the stream of the popped one is not before it. *)
LEMMA NextRequestClock ==
  ASSUME CancellationInv, ClockInv, NextRequest
  PROVE  ClockInv'
<1>1. /\ pc = "handle" /\ pc' = "loop"
      /\ UNCHANGED <<itStream, sumActual, forgotten, cx, event, sold, run, popped, cancelled>>
  BY DEF NextRequest
<1>2. event.key \in Streams
  BY <1>1 DEF CancellationInv, EventIsRequest
<1> DEFINE s == event.key
<1>3. ManagerTyped /\ stream[s] \in StreamState /\ event.time \in Int
  BY <1>2, SimulatorTyped DEF CancellationInv, TypeOK
<1>4. InStep(event) /\ \A e \in queue : e.key # s
  BY <1>1 DEF ClockInv
<1>5. CASE StillHaving(stream[s])
  <2>1. PICK d \in NextDraws(s, stream[s]) :
          ~RunsOffPattern(s, d) /\ GenerateNextRequest(s, stream[s], d)
    BY <1>5 DEF NextRequest
  <2>2. event.time <= RequestTime(s, d)
    BY <1>2, <1>3, <1>4, <1>5, NextNotEarlier DEF InStep
  <2>3. RequestTime(s, d) \in Int
    BY <1>2, <1>3, <1>5, <2>1, Generation
  <2>4. /\ ChainsInStep'
        /\ \A e \in queue' : e \in queue \/ RequestTime(s, d) <= e.stamp
    <3> HIDE DEF s
    <3>1. s \in Streams
      BY <1>2 DEF s
    <3>2. QED BY <1>3, <1>4, <1>5, <2>1, <3>1, GenerationInStep DEF ClockInv
  <2>5. \A e \in queue' : e.stamp \in Int
    <3>1. queue' \in SUBSET [key : Int, time : Int, stamp : Int]
      <4>1. itStream' \in 1 .. NbStreams + 1 /\ sumActual' \in Int /\ forgotten' = forgotten
        BY <1>1, <1>3 DEF ManagerTyped
      <4>2. s \in Streams
        BY <1>2
      <4> HIDE DEF s
      <4>3. ManagerTyped'
        BY <1>3, <1>5, <2>1, <4>1, <4>2, GenerationBalance
      <4>4. QED BY <4>3 DEF ManagerTyped
    <3>2. QED BY <3>1
  <2>6. NothingBehindTheClock'
    <3> SUFFICES ASSUME HasClock, NEW e \in queue' PROVE e.stamp >= event.time
      BY <1>1 DEF NothingBehindTheClock, HasClock
    <3>1. CASE e \in queue
      BY <3>1 DEF ClockInv, NothingBehindTheClock
    <3>2. CASE RequestTime(s, d) <= e.stamp
      BY <1>3, <2>2, <2>3, <2>5, <3>2
    <3>3. QED BY <2>4, <3>1, <3>2
  <2>7. QED BY <1>1, <2>4, <2>6 DEF ClockInv
<1>6. CASE ~StillHaving(stream[s])
  <2>1. UNCHANGED <<stream, queue>>
    BY <1>6 DEF NextRequest
  <2>2. QED
    BY <1>1, <2>1 DEF ClockInv, ChainsInStep, InStep, NothingBehindTheClock, HasClock
<1>7. QED BY <1>5, <1>6

(* A cancellation is not before the request it cancels. *)
LEMMA CancelClock ==
  ASSUME CancellationInv, ClockInv, Cancel
  PROVE  ClockInv'
<1>1. /\ GenerateCancellation /\ sold
      /\ UNCHANGED <<stream, itStream, pc, event, popped, cancelled>>
  BY DEF Cancel
<1>2. event.key \in Streams /\ event.time \in Int
  BY <1>1 DEF CancellationInv, EventIsRequest, TypeOK
<1>3. CASE UNCHANGED queue
  BY <1>1, <1>3 DEF ClockInv, ChainsInStep, InStep, NothingBehindTheClock, HasClock
<1>4. ASSUME NEW t \in CancellationTimes(DepartureDate[event.key], event.time),
             AddEvent(CancellationKey, t)
      PROVE  ClockInv'
  <2>1. t \in Int /\ event.time <= t
    BY <1>2, UnitsType, CancellationTimeBounded
  <2>2. PICK x \in FreeStamps(queue, t) :
          queue' = queue \cup {[key |-> CancellationKey, time |-> t, stamp |-> x]}
    BY <1>4 DEF AddEvent
  <2>3. Cardinality(queue) \in Nat
    BY FS_CardinalityType DEF CancellationInv, TypeOK
  <2>4. x \in Int /\ t <= x
    BY <2>1, <2>2, <2>3 DEF FreeStamps
  <2> DEFINE new == [key |-> CancellationKey, time |-> t, stamp |-> x]
  <2>5. /\ queue' = queue \cup {new} /\ new.key = CancellationKey /\ new.time = t
        /\ new.stamp = x
    BY <2>2
  <2> HIDE DEF new
  <2>6. ChainsInStep'
    BY <1>1, <2>4, <2>5, Keys DEF ClockInv, ChainsInStep, InStep
  <2>7. NothingBehindTheClock'
    BY <1>1, <1>2, <2>1, <2>4, <2>5 DEF ClockInv, NothingBehindTheClock, HasClock
  <2>8. pc = "first" => CancellationKey < itStream
    BY DEF CancellationInv, TypeOK, CancellationKey
  <2>9. InStep(event)' <=> InStep(event)
    BY <1>1 DEF InStep
  <2>10. HasClock' <=> HasClock
    BY <1>1 DEF HasClock
  <2>11. pc' = "handle" => InStep(event)' /\ \A e \in queue' : e.key # event'.key
    BY <1>1, <1>2, <2>5, <2>9, Keys DEF ClockInv
  <2>12. pc' = "first" => ~HasClock' /\ \A e \in queue' : e.key < itStream'
    BY <1>1, <2>5, <2>8, <2>10 DEF ClockInv
  <2>13. QED BY <2>6, <2>7, <2>11, <2>12 DEF ClockInv
<1>5. QED BY <1>1, <1>3, <1>4 DEF GenerateCancellation

(* Each step keeps the clock. *)
LEMMA ClockStep == CancellationInv /\ ClockInv /\ [Next]_vars => ClockInv'
<1> SUFFICES ASSUME CancellationInv, ClockInv, [Next]_vars PROVE ClockInv'
  OBVIOUS
<1>1. CASE StartLoop
  BY <1>1 DEF StartLoop, FirstRequestsDone, ClockInv, ChainsInStep, InStep,
              NothingBehindTheClock, HasClock
<1>2. CASE PopRequest
  <2>1. PICK e \in queue : e.key # CancellationKey /\ PopEvent(e) /\ event' = e
    BY <1>2 DEF PopRequest
  <2>2. stream' = stream /\ pc' = "handle" /\ IsEarliest(e) /\ queue' = queue \ {e}
    BY <1>2, <2>1 DEF PopRequest, PopEvent
  <2>3. e.key \in Streams
    BY <2>1 DEF CancellationInv, TypeOK
  <2>4. QED BY <2>1, <2>2, <2>3, PopClock DEF ClockInv
<1>3. CASE PopCancellation
  <2>1. PICK e \in queue : IsEarliest(e) /\ queue' = queue \ {e} /\ event' = e
    BY <1>3 DEF PopCancellation
  <2>2. stream' = stream /\ pc' = "loop"
    BY <1>3 DEF PopCancellation
  <2>3. QED BY <2>1, <2>2, PopClock DEF ClockInv
<1>4. CASE Reset
  <2>1. /\ queue' = {} /\ cancelled' = 0 /\ popped' = [s \in Streams |-> 0]
        /\ pc' \in {"first", "done"}
    BY <1>4 DEF Reset, ManagerReset, ResetQueue
  <2>2. ~HasClock'
    BY <2>1 DEF HasClock
  <2>3. QED BY <2>1, <2>2 DEF ClockInv, ChainsInStep, NothingBehindTheClock
<1>5. CASE Terminating \/ UNCHANGED vars
  BY <1>5 DEF Terminating, vars, managerVars, cxVars, ClockInv, ChainsInStep, InStep,
              NothingBehindTheClock, HasClock
<1>6. QED
  BY <1>1, <1>2, <1>3, <1>4, <1>5, FirstRequestClock, NextRequestClock, CancelClock DEF Next

(* No event is generated into the past of the simulator, with either method, any
   pattern, any lengths of a day and of a second, and any altered stamps. *)
THEOREM NothingBehindTheClockHolds == Spec => []NothingBehindTheClock
<1>1. ClockInv => NothingBehindTheClock
  BY DEF ClockInv
<1>2. QED BY <1>1, InitClock, ClockStep, CancellationInvHolds, PTL DEF Spec
=============================================================================
