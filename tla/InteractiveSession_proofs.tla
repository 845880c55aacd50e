---------------------- MODULE InteractiveSession_proofs ----------------------
(***************************************************************************)
(* Proofs about the interactive program, for any streams, any patterns, both *)
(* methods and any mix of commands.                                         *)
(***************************************************************************)
EXTENDS InteractiveSession, DemandManager_proofs

-----------------------------------------------------------------------------
(* The inductive invariant. *)

(* The books of the session: what was taken out of the queue is what the user
   deleted. *)
Books == \A s \in Streams : Taken(s) = deleted[s]

(* A stream never counts more than its total, if it has one. *)
CountedWithinTotal ==
  Method = StatisticsOrder =>
    \A s \in Streams : stream[s].soFar = 0 \/ stream[s].soFar <= stream[s].total

(* With order statistics no waiting request is later than the probability its
   stream has reached. *)
WaitingBehind ==
  Method = StatisticsOrder =>
    \A e \in queue : e.time <= RequestTime(e.key, stream[e.key].cum)

SessionInv == TypeOK /\ Books /\ CountedWithinTotal /\ WaitingBehind

(* The state of the session has the types the manager wants. *)
LEMMA SessionTyped == TypeOK => ManagerTyped
BY StreamsAssumption DEF TypeOK, ManagerTyped, Streams

(* With the types of the manager, those of the session are the keys of the queue
   and the variables of its own. *)
LEMMA SessionTypes ==
  ASSUME ManagerTyped', \A e \in queue' : e.key \in Streams, target' \in Streams,
         command' \in {"prompt", "first", "all", "ended", "aborted"},
         deleted' \in [Streams -> Nat]
  PROVE  TypeOK'
<1>1. queue' \in SUBSET [key : Streams, time : Int, stamp : Int]
  BY DEF ManagerTyped
<1>2. QED BY <1>1 DEF ManagerTyped, TypeOK

(* The larger of zero and a number. *)
LEMMA MaxWithZero ==
  ASSUME NEW n \in Int
  PROVE  Max({0, n}) = IF n >= 0 THEN n ELSE 0
<1> DEFINE m == IF n >= 0 THEN n ELSE 0
<1>1. m \in {0, n} /\ \A y \in {0, n} : m >= y
  OBVIOUS
<1>2. Max({0, n}) \in {0, n} /\ \A y \in {0, n} : Max({0, n}) >= y
  BY <1>1 DEF Max
<1>3. QED BY <1>1, <1>2

(* What the session may do to the streams in a step: nothing but the marks of
   the first request, or one request of a stream that has requests to come. *)
SameRequests(st, new) ==
  /\ new.soFar = st.soFar /\ new.still = st.still
  /\ new.total = st.total /\ new.cum = st.cum

(* A stream goes on from the state the manager generates in. *)
LEMMA SetFirstSame ==
  ASSUME NEW st \in StreamState
  PROVE  SetFirst(st) \in StreamState /\ SameRequests(st, SetFirst(st))
<1>1. SetFirst(st) \in StreamState
  BY SetFirstType
<1>2. QED BY <1>1 DEF SetFirst, SameRequests, StreamState

(* Streams in the same state have the same requests to come. *)
LEMMA SameStillHaving ==
  ASSUME NEW st, NEW new, SameRequests(st, new)
  PROVE  StillHaving(new) <=> StillHaving(st)
BY DEF SameRequests, StillHaving, Remaining

(* No stream that is finished goes on after the step. *)
NothingRevived == \A r \in Streams : StillHaving(stream'[r]) => StillHaving(stream[r])

(* The step queues nothing before what waits of the same stream. *)
QueuedInOrder ==
  Method = StatisticsOrder =>
    \A e \in queue' \ queue : \A f \in queue : f.key = e.key => f.time <= e.time

(* A generation keeps the bound and the order of the requests, and queues
   nothing before what waits of the same stream. *)
LEMMA GenerationInOrder ==
  ASSUME TypeOK, CountedWithinTotal, WaitingBehind,
         NEW s \in Streams, NEW st \in StreamState, StillHaving(st), SameRequests(stream[s], st),
         NEW d \in NextDraws(s, st), GenerateNextRequest(s, st, d)
  PROVE  /\ CountedWithinTotal' /\ WaitingBehind'
         /\ \A e \in queue' : e.key \in Streams
         /\ NothingRevived /\ QueuedInOrder
<1>1. /\ AfterRequest(st, d) \in StreamState
      /\ stream' = [stream EXCEPT ![s] = AfterRequest(st, d)]
      /\ RequestTime(s, d) \in Int
      /\ \/ \E x \in Int :
              queue' = queue \cup {[key |-> s, time |-> RequestTime(s, d), stamp |-> x]}
         \/ queue' = queue
  BY Generation, SessionTyped
<1>2. /\ stream'[s] = AfterRequest(st, d)
      /\ \A r \in Streams : r # s => stream'[r] = stream[r]
  BY <1>1 DEF TypeOK
<1>3. \A e \in queue' : e.key \in Streams
  BY <1>1 DEF TypeOK
<1>4. StillHaving(stream[s])
  BY SameStillHaving
<1>5. NothingRevived
  BY <1>2, <1>4 DEF NothingRevived
<1>6. CASE Method # StatisticsOrder
  BY <1>3, <1>5, <1>6 DEF CountedWithinTotal, WaitingBehind, QueuedInOrder
<1>7. CASE Method = StatisticsOrder
  <2>1. d \in Int /\ st.cum < d
    BY <1>7, NextDrawsType
  <2>2. /\ AfterRequest(st, d).soFar = st.soFar + 1 /\ AfterRequest(st, d).cum = d
        /\ AfterRequest(st, d).total = st.total
    BY <1>7 DEF AfterRequest, AfterOrderStatistic, StreamState
  <2>3. st.soFar \in Nat /\ st.total \in Int /\ st.cum \in Int /\ st.soFar + 1 <= st.total
    BY <1>7 DEF StillHaving, Remaining, StreamState
  <2>4. CountedWithinTotal'
    <3> SUFFICES ASSUME NEW r \in Streams
                 PROVE  stream'[r].soFar = 0 \/ stream'[r].soFar <= stream'[r].total
      BY DEF CountedWithinTotal
    <3>1. CASE r = s
      BY <1>2, <2>2, <2>3, <3>1
    <3>2. CASE r # s
      BY <1>2, <1>7, <3>2 DEF CountedWithinTotal
    <3>3. QED BY <3>1, <3>2
  <2>5. RequestTime(s, st.cum) <= RequestTime(s, d) /\ RequestTime(s, st.cum) \in Int
    <3>1. RequestTime(s, st.cum) \in Int
      BY <2>3, RequestTimeType
    <3>2. RequestTime(s, st.cum) <= RequestTime(s, d)
      BY <1>7, <2>1, <2>3, RequestTimeMonotone
    <3>3. QED BY <3>1, <3>2
  <2>6. \A f \in queue : f.key = s => f.time <= RequestTime(s, d)
    <3> SUFFICES ASSUME NEW f \in queue, f.key = s PROVE f.time <= RequestTime(s, d)
      OBVIOUS
    <3>1. f.time <= RequestTime(s, st.cum) /\ f.time \in Int
      BY <1>7 DEF WaitingBehind, SameRequests, TypeOK
    <3>2. QED BY <1>1, <2>5, <3>1
  <2>7. \A f \in queue : f.time <= RequestTime(f.key, stream'[f.key].cum)
    <3> SUFFICES ASSUME NEW f \in queue
                 PROVE  f.time <= RequestTime(f.key, stream'[f.key].cum)
      OBVIOUS
    <3>1. f.key \in Streams
      BY DEF TypeOK
    <3>2. CASE f.key = s
      BY <1>2, <2>2, <2>6, <3>2
    <3>3. CASE f.key # s
      BY <1>2, <1>7, <3>1, <3>3 DEF WaitingBehind
    <3>4. QED BY <3>2, <3>3
  <2>8. CASE queue' = queue
    BY <1>3, <1>5, <2>4, <2>7, <2>8 DEF WaitingBehind, QueuedInOrder
  <2>9. CASE \E x \in Int :
               queue' = queue \cup {[key |-> s, time |-> RequestTime(s, d), stamp |-> x]}
    <3>1. PICK x \in Int :
            queue' = queue \cup {[key |-> s, time |-> RequestTime(s, d), stamp |-> x]}
      BY <2>9
    <3> DEFINE new == [key |-> s, time |-> RequestTime(s, d), stamp |-> x]
    <3>2. queue' = queue \cup {new} /\ new.key = s /\ new.time = RequestTime(s, d)
      BY <3>1
    <3> HIDE DEF new
    <3>3. new.time <= RequestTime(new.key, stream'[new.key].cum)
      BY <1>1, <1>2, <2>2, <3>2
    <3>4. WaitingBehind'
      BY <2>7, <3>2, <3>3 DEF WaitingBehind
    <3>5. QueuedInOrder
      BY <2>6, <3>2 DEF QueuedInOrder
    <3>6. QED BY <1>3, <1>5, <2>4, <3>4, <3>5
  <2>10. QED BY <1>1, <2>8, <2>9
<1>8. QED BY <1>6, <1>7

(* The generation of a command keeps the invariant. *)
LEMMA GenerationKeeps ==
  ASSUME SessionInv, NEW s \in Streams, NEW st \in StreamState, StillHaving(st),
         SameRequests(stream[s], st),
         NEW d \in NextDraws(s, st), GenerateNextRequest(s, st, d),
         itStream' \in 1 .. NbStreams + 1, sumActual' \in Int, forgotten' = forgotten,
         UNCHANGED <<command, target, deleted>>
  PROVE  SessionInv' /\ NothingRevived /\ QueuedInOrder
<1>1. Counted(st) = Counted(stream[s])
  BY DEF SameRequests, Counted
<1>2. ManagerTyped' /\ \A r \in Streams : Taken(r)' = Taken(r)
  BY <1>1, SessionTyped, GenerationBalance DEF SessionInv
<1>3. /\ CountedWithinTotal' /\ WaitingBehind' /\ \A e \in queue' : e.key \in Streams
      /\ NothingRevived /\ QueuedInOrder
  BY GenerationInOrder DEF SessionInv
<1>4. TypeOK'
  BY <1>2, <1>3, SessionTypes DEF SessionInv, TypeOK
<1>5. Books'
  BY <1>2 DEF SessionInv, Books
<1>6. QED BY <1>3, <1>4, <1>5 DEF SessionInv

(* A step that leaves the streams, the queue and the deletions alone. *)
LEMMA IdleKeeps ==
  ASSUME SessionInv, UNCHANGED <<stream, queue, dropped, deleted>>, ManagerTyped',
         target' \in Streams, command' \in {"prompt", "first", "all", "ended", "aborted"}
  PROVE  SessionInv' /\ NothingRevived /\ QueuedInOrder
<1>1. TypeOK'
  BY SessionTypes DEF SessionInv, TypeOK
<1>2. Books'
  BY DEF SessionInv, Books, Taken, WaitingOf
<1>3. CountedWithinTotal' /\ WaitingBehind'
  BY DEF SessionInv, CountedWithinTotal, WaitingBehind
<1>4. QED BY <1>1, <1>2, <1>3 DEF SessionInv, NothingRevived, QueuedInOrder

(* generate_first_br: a stream of the loop. *)
LEMMA FirstKeeps ==
  ASSUME SessionInv, First
  PROVE  SessionInv' /\ NothingRevived /\ QueuedInOrder
<1>1. FirstRequestOfStream /\ UNCHANGED <<command, target, deleted>>
  BY DEF First
<1>2. PICK s \in Streams : s = itStream
  BY <1>1, StreamsAssumption DEF FirstRequestOfStream, SessionInv, TypeOK, Streams
<1> DEFINE st == SetFirst(stream[s])
<1>3. stream[s] \in StreamState
  BY DEF SessionInv, TypeOK
<1>4. st \in StreamState /\ SameRequests(stream[s], st)
  BY <1>3, SetFirstSame
<1>5. ManagerTyped' /\ forgotten' = forgotten /\ \A r \in Streams : Taken(r)' = Taken(r)
  <2>1. ManagerTyped' /\ \A r \in Streams : Taken(r)' = Taken(r)
    BY <1>1, SessionTyped, FirstRequestBalance DEF SessionInv
  <2>2. QED BY <1>1, <2>1 DEF FirstRequestOfStream
<1>6. itStream' \in 1 .. NbStreams + 1 /\ sumActual' \in Int
  BY <1>5 DEF ManagerTyped
<1>7. CASE StillHaving(st)
  <2>1. PICK d \in NextDraws(s, st) : GenerateNextRequest(s, st, d)
    BY <1>1, <1>2, <1>7 DEF FirstRequestOfStream
  <2> HIDE DEF st
  <2>2. QED BY <1>1, <1>4, <1>5, <1>6, <1>7, <2>1, GenerationKeeps
<1>8. CASE ~StillHaving(st)
  <2>1. stream' = [stream EXCEPT ![s] = st] /\ UNCHANGED <<queue, status, dropped>>
    BY <1>1, <1>2, <1>8 DEF FirstRequestOfStream
  <2> HIDE DEF st
  <2>2. stream'[s] = st /\ \A r \in Streams : r # s => stream'[r] = stream[r]
    BY <2>1 DEF SessionInv, TypeOK
  <2>3. TypeOK'
    BY <1>1, <1>5, <2>1, SessionTypes DEF SessionInv, TypeOK
  <2>4. Books'
    BY <1>1, <1>5 DEF SessionInv, Books
  <2>5. \A r \in Streams : SameRequests(stream[r], stream'[r])
    BY <1>4, <2>2 DEF SameRequests
  <2>6. CountedWithinTotal'
    BY <2>5 DEF SessionInv, CountedWithinTotal, SameRequests
  <2>7. WaitingBehind'
    <3>1. \A e \in queue : e.key \in Streams
      BY DEF SessionInv, TypeOK
    <3>2. QED BY <2>1, <2>5, <3>1 DEF SessionInv, WaitingBehind, SameRequests
  <2>8. NothingRevived
    BY <2>5, SameStillHaving DEF NothingRevived
  <2>9. QueuedInOrder
    BY <2>1 DEF QueuedInOrder
  <2>10. QED BY <2>3, <2>4, <2>6, <2>7, <2>8, <2>9 DEF SessionInv
<1>9. QED BY <1>7, <1>8

(* A request of generate_next_br or generate_all_br. *)
LEMMA GenerateOneKeeps ==
  ASSUME SessionInv, NEW s \in Streams, StillHaving(stream[s]), GenerateOne(s),
         UNCHANGED <<command, target, deleted>>
  PROVE  SessionInv' /\ NothingRevived /\ QueuedInOrder
<1>1. PICK d \in NextDraws(s, stream[s]) : GenerateNextRequest(s, stream[s], d)
  BY DEF GenerateOne
<1>2. stream[s] \in StreamState /\ SameRequests(stream[s], stream[s])
  BY DEF SessionInv, TypeOK, SameRequests
<1>3. itStream' \in 1 .. NbStreams + 1 /\ sumActual' \in Int /\ forgotten' = forgotten
  BY DEF GenerateOne, SessionInv, TypeOK
<1>4. QED BY <1>1, <1>2, <1>3, GenerationKeeps

(* delete_first moves a request from the queue to the deletions. *)
LEMMA DeleteFirstKeeps ==
  ASSUME SessionInv, DeleteFirst
  PROVE  SessionInv' /\ NothingRevived /\ QueuedInOrder
<1>1. PICK e \in queue : PopEvent(e) /\ deleted' = [deleted EXCEPT ![e.key] = @ + 1]
  BY DEF DeleteFirst
<1>2. UNCHANGED <<stream, itStream, sumActual, dropped, forgotten, command, target>>
  BY DEF DeleteFirst
<1>3. e.key \in Streams
  BY DEF SessionInv, TypeOK
<1>4. /\ ManagerTyped' /\ Taken(e.key)' = Taken(e.key) + 1
      /\ \A r \in Streams : r # e.key => Taken(r)' = Taken(r)
  BY <1>1, <1>2, <1>3, SessionTyped, PopBalance DEF SessionInv
<1>5. queue' \subseteq queue
  BY <1>1 DEF PopEvent
<1>6. deleted' \in [Streams -> Nat]
  BY <1>1, <1>3 DEF SessionInv, TypeOK
<1>7. TypeOK'
  BY <1>2, <1>4, <1>5, <1>6, SessionTypes DEF SessionInv, TypeOK
<1>8. Books'
  BY <1>1, <1>3, <1>4 DEF SessionInv, Books, TypeOK
<1>9. CountedWithinTotal' /\ WaitingBehind' /\ NothingRevived /\ QueuedInOrder
  BY <1>2, <1>5 DEF SessionInv, CountedWithinTotal, WaitingBehind, NothingRevived, QueuedInOrder
<1>10. QED BY <1>7, <1>8, <1>9 DEF SessionInv

(* reset clears the books. *)
LEMMA ResetKeeps ==
  ASSUME SessionInv, Reset
  PROVE  SessionInv'
<1>1. ManagerReset /\ deleted' = [s \in Streams |-> 0] /\ UNCHANGED <<command, target>>
  BY DEF Reset
<1>2. /\ ManagerTyped' /\ queue' = {}
      /\ \A s \in Streams : Taken(s)' = 0 /\ stream'[s].soFar = 0
  BY <1>1, SessionTyped, ResetBalance DEF SessionInv
<1>3. TypeOK'
  BY <1>1, <1>2, SessionTypes DEF SessionInv, TypeOK
<1>4. Books' /\ CountedWithinTotal' /\ WaitingBehind'
  BY <1>1, <1>2 DEF Books, CountedWithinTotal, WaitingBehind
<1>5. QED BY <1>3, <1>4 DEF SessionInv

(* The books are right when the session starts. *)
LEMMA InitSession == Init => SessionInv
<1> SUFFICES ASSUME Init PROVE SessionInv
  OBVIOUS
<1>1. /\ ManagerTyped /\ queue = {}
      /\ \A s \in Streams : Taken(s) = 0 /\ stream[s].soFar = 0
  BY InitBalance DEF Init
<1>2. command = "prompt" /\ target \in Streams /\ deleted = [s \in Streams |-> 0]
  BY StreamsAssumption DEF Init, Streams
<1>3. TypeOK
  BY <1>1, <1>2 DEF ManagerTyped, TypeOK
<1>4. Books /\ CountedWithinTotal /\ WaitingBehind
  BY <1>1, <1>2 DEF Books, CountedWithinTotal, WaitingBehind
<1>5. QED BY <1>3, <1>4 DEF SessionInv

(* A step keeps the invariant; but for a reset it revives no stream, and it
   queues in order. *)
LEMMA SessionStep ==
  ASSUME SessionInv, [Next]_vars
  PROVE  SessionInv' /\ QueuedInOrder /\ (Reset \/ NothingRevived)
<1>1. ManagerTyped
  BY SessionTyped DEF SessionInv
<1>2. target \in Streams /\ command \in {"prompt", "first", "all", "ended", "aborted"}
  BY DEF SessionInv, TypeOK
<1>3. ASSUME UNCHANGED <<managerVars, target, deleted>>,
             command' \in {"prompt", "first", "all", "ended", "aborted"}
      PROVE  SessionInv' /\ NothingRevived /\ QueuedInOrder
  <2>1. ManagerTyped'
    BY <1>1, <1>3 DEF ManagerTyped, managerVars
  <2>2. QED BY <1>2, <1>3, <2>1, IdleKeeps DEF managerVars
<1>4. CASE UNCHANGED vars
  BY <1>2, <1>3, <1>4 DEF vars
<1>5. CASE BeginFirst \/ Abort \/ Quit \/ EndAll
  BY <1>3, <1>5 DEF BeginFirst, Abort, Quit, EndAll
<1>6. CASE First
  BY <1>6, FirstKeeps
<1>7. CASE EndFirst
  <2>1. ManagerTyped' /\ UNCHANGED <<stream, queue, dropped>>
    BY <1>1, <1>7, FirstRequestsDoneBalance DEF EndFirst
  <2>2. QED BY <1>2, <1>7, <2>1, IdleKeeps DEF EndFirst
<1>8. CASE All
  BY <1>2, <1>8, GenerateOneKeeps DEF All
<1>9. CASE \E s \in Streams : GenerateNext(s)
  BY <1>9, GenerateOneKeeps DEF GenerateNext
<1>10. CASE \E s \in Streams : BeginAll(s)
  <2>1. /\ UNCHANGED <<managerVars, deleted>> /\ command' = "all" /\ target' \in Streams
    BY <1>10 DEF BeginAll
  <2>2. ManagerTyped'
    BY <1>1, <2>1 DEF ManagerTyped, managerVars
  <2>3. QED BY <2>1, <2>2, IdleKeeps DEF managerVars
<1>11. CASE DeleteFirst
  BY <1>11, DeleteFirstKeeps
<1>12. CASE Reset
  <2>1. queue' = {}
    BY <1>12 DEF Reset, ManagerReset, ResetQueue
  <2>2. QED BY <1>12, <2>1, ResetKeeps DEF QueuedInOrder
<1>13. CASE Display \/ NotUnderstood \/ NoMoreToGenerate \/ WrongKey \/ NothingToDelete \/ Terminating
  BY <1>4, <1>13 DEF Display, NotUnderstood, NoMoreToGenerate, WrongKey, NothingToDelete, Terminating
<1>14. QED
  BY <1>4, <1>5, <1>6, <1>7, <1>8, <1>9, <1>10, <1>11, <1>12, <1>13 DEF Next, Running

(* The invariant holds in every session. *)
LEMMA SessionInvHolds == Spec => []SessionInv
<1>1. SessionInv /\ [Next]_vars => SessionInv'
  BY SessionStep
<1>2. QED BY <1>1, InitSession, PTL DEF Spec

-----------------------------------------------------------------------------
(* The theorems. *)

(* The state of the session is well typed, whatever the commands. *)
THEOREM SessionTypeCorrect == Spec => []TypeOK
<1>1. SessionInv => TypeOK
  BY DEF SessionInv
<1>2. QED BY <1>1, SessionInvHolds, PTL

(* Each request a stream counted was deleted, waits or was dropped, whatever the
   commands and the method. *)
THEOREM SessionAccountedHolds == Spec => []SessionAccounted
<1>1. SessionInv => SessionAccounted
  <2> SUFFICES ASSUME SessionInv, NEW s \in Streams
               PROVE  stream[s].soFar + (IF stream[s].still THEN 0 ELSE 1)
                        = deleted[s] + QueuedOf(s) + dropped[s]
    BY DEF SessionAccounted
  <2>1. Counted(stream[s]) \in Nat /\ WaitingOf(s) \in Nat
    BY SessionTyped, BalanceTypes DEF SessionInv
  <2>2. dropped[s] \in Nat /\ deleted[s] \in Nat
    BY DEF SessionInv, TypeOK
  <2>3. Counted(stream[s]) - WaitingOf(s) - dropped[s] = deleted[s]
    BY DEF SessionInv, Books, Taken
  <2>4. QueuedOf(s) = WaitingOf(s)
    BY DEF QueuedOf, WaitingOf
  <2>5. Counted(stream[s]) = deleted[s] + QueuedOf(s) + dropped[s]
    BY <2>1, <2>2, <2>3, <2>4
  <2>6. QED BY <2>5 DEF Counted
<1>2. QED BY <1>1, SessionInvHolds, PTL

(* No mix of the generating commands passes the total of a stream. *)
THEOREM SessionWithinTotalHolds == Spec => []SessionWithinTotal
<1>1. SessionInv => SessionWithinTotal
  <2> SUFFICES ASSUME SessionInv, Method = StatisticsOrder, NEW s \in Streams
               PROVE  stream[s].soFar <= Max({0, stream[s].total})
    BY DEF SessionWithinTotal
  <2>1. stream[s].soFar \in Nat /\ stream[s].total \in Int
    BY DEF SessionInv, TypeOK, StreamState
  <2>2. stream[s].soFar = 0 \/ stream[s].soFar <= stream[s].total
    BY DEF SessionInv, CountedWithinTotal
  <2>3. Max({0, stream[s].total}) = IF stream[s].total >= 0 THEN stream[s].total ELSE 0
    BY <2>1, MaxWithZero
  <2>4. QED BY <2>1, <2>2, <2>3
<1>2. QED BY <1>1, SessionInvHolds, PTL

(* No command but the reset revives a stream that has generated everything. *)
THEOREM FinishedUntilResetHolds == Spec => FinishedUntilReset
<1>1. SessionInv /\ [Next]_vars =>
        [(\E s \in Streams : ~StillHaving(stream[s]) /\ StillHaving(stream'[s])) => Reset]_vars
  BY SessionStep DEF NothingRevived
<1>2. QED BY <1>1, SessionInvHolds, PTL DEF Spec, FinishedUntilReset

(* Requests of a stream are queued in the order of their date-times. *)
THEOREM StreamInOrderHolds == Spec => StreamInOrder
<1>1. SessionInv /\ [Next]_vars =>
        [Method = StatisticsOrder =>
           \A e \in queue' \ queue : \A f \in queue : f.key = e.key => f.time <= e.time]_vars
  BY SessionStep DEF QueuedInOrder
<1>2. QED BY <1>1, SessionInvHolds, PTL DEF Spec, StreamInOrder

-----------------------------------------------------------------------------
(* Why a command comes back to the prompt. *)

(* What the running command has still to do: the streams the loop of
   generate_first_br has not visited, or the requests of the stream of
   generate_all_br, and the step that ends either. *)
LoopLeft ==
  IF command = "first" THEN NbStreams + 2 - itStream
  ELSE IF command = "all" THEN LeftOf(stream[target]) + 1
  ELSE 0

(* A step of a running command leaves it less to do; nothing is left at the prompt. *)
LoopDescends ==
  command = "first" \/ (command = "all" /\ Method = StatisticsOrder) =>
    LoopLeft \in Nat /\ LoopLeft' \in Nat /\ LoopLeft' < LoopLeft

LEMMA LoopLowers ==
  ASSUME TypeOK, [Next]_vars, ~UNCHANGED vars
  PROVE  LoopDescends
<1>1. /\ stream \in [Streams -> StreamState] /\ itStream \in 1 .. NbStreams + 1
      /\ NbStreams \in Nat /\ target \in Streams
  BY StreamsAssumption DEF TypeOK
<1>2. CASE command = "first"
  <2>1. First \/ EndFirst \/ Abort
    BY <1>2 DEF Next, Running, BeginFirst, DeleteFirst, Reset, Display, NotUnderstood,
                NoMoreToGenerate, WrongKey, NothingToDelete, Quit, Terminating, GenerateNext,
                BeginAll, All, EndAll
  <2>2. LoopLeft = NbStreams + 2 - itStream
    BY <1>2 DEF LoopLeft
  <2>3. CASE First
    <3>1. command' = "first" /\ itStream' = itStream + 1 /\ itStream <= NbStreams
      BY <1>2, <2>3 DEF First, FirstRequestOfStream
    <3>2. LoopLeft' = NbStreams + 2 - (itStream + 1)
      BY <3>1 DEF LoopLeft
    <3>3. QED BY <1>1, <2>2, <3>1, <3>2 DEF LoopDescends
  <2>4. CASE EndFirst \/ Abort
    <3>1. command' \in {"prompt", "aborted"}
      BY <2>4 DEF EndFirst, Abort
    <3>2. LoopLeft' = 0
      BY <3>1 DEF LoopLeft
    <3>3. QED BY <1>1, <2>2, <3>2 DEF LoopDescends
  <2>5. QED BY <2>1, <2>3, <2>4
<1>3. CASE command = "all" /\ Method = StatisticsOrder
  <2>1. All \/ EndAll \/ Abort
    BY <1>3 DEF Next, Running, BeginFirst, DeleteFirst, Reset, Display, NotUnderstood,
                NoMoreToGenerate, WrongKey, NothingToDelete, Quit, Terminating, GenerateNext,
                BeginAll, First, EndFirst
  <2>2. LeftOf(stream[target]) \in Nat
    <3>1. \A st \in StreamState : LeftOf(st) \in Nat
      BY DEF LeftOf, Remaining, StreamState
    <3>2. QED BY <1>1, <3>1
  <2>3. LoopLeft = LeftOf(stream[target]) + 1
    BY <1>3 DEF LoopLeft
  <2>4. CASE All
    <3>1. command' = "all" /\ target' = target /\ StillHaving(stream[target])
      BY <1>3, <2>4 DEF All
    <3>2. PICK d \in NextDraws(target, stream[target]) :
            GenerateNextRequest(target, stream[target], d)
      BY <2>4 DEF All, GenerateOne
    <3>3. stream[target] \in StreamState
      BY <1>1
    <3>4. Remaining(stream[target]) > 0 /\ Remaining(stream'[target]) = Remaining(stream[target]) - 1
      <4>1. /\ Remaining(stream[target]) > 0
            /\ stream'[target] = AfterRequest(stream[target], d)
        BY <1>1, <1>3, <3>1, <3>2, <3>3, SessionTyped, GenerationLowersLeft DEF GenerateNextRequest
      <4>2. Remaining(AfterRequest(stream[target], d)) = Remaining(stream[target]) - 1
        BY <1>3, <3>3 DEF AfterRequest, AfterOrderStatistic, Remaining, StreamState
      <4>3. QED BY <4>1, <4>2
    <3>5. LoopLeft' = LeftOf(stream'[target]) + 1
      BY <3>1 DEF LoopLeft, LeftOf, Remaining
    <3>6. Remaining(stream[target]) \in Int
      BY <3>3 DEF Remaining, StreamState
    <3>7. QED BY <2>3, <3>4, <3>5, <3>6 DEF LeftOf, LoopDescends
  <2>5. CASE EndAll \/ Abort
    <3>1. command' \in {"prompt", "aborted"}
      BY <2>5 DEF EndAll, Abort
    <3>2. LoopLeft' = 0
      BY <3>1 DEF LoopLeft
    <3>3. QED BY <2>2, <2>3, <3>2 DEF LoopDescends
  <2>6. QED BY <2>1, <2>4, <2>5
<1>4. QED BY <1>2, <1>3 DEF LoopDescends

(* Each step of generate_first_br, and with order statistics of generate_all_br,
   leaves the command less to do, and a command with nothing left to do is back at
   the prompt: whatever was issued before, the user gets the prompt again. *)
THEOREM CommandsDescend == Spec => [][LoopDescends]_vars
<1>1. TypeOK /\ [Next]_vars => [LoopDescends]_vars
  BY LoopLowers
<1>2. QED BY <1>1, SessionTypeCorrect, PTL DEF Spec

-----------------------------------------------------------------------------
(* Why a generating command never stops for want of a draw. *)

(* However the commands were mixed, a stream that still has requests has a draw to
   make, be it marked as first or not, and a request finds a free stamp. *)
SessionDrawsAvailable ==
  /\ \A s \in Streams :
       /\ StillHaving(stream[s]) => NextDraws(s, stream[s]) # {}
       /\ StillHaving(SetFirst(stream[s])) => NextDraws(s, SetFirst(stream[s])) # {}
  /\ \A t \in Int : FreeStamps(queue, t) # {}
  /\ ~IsQueueDone => \E e \in queue : IsEarliest(e)

LEMMA SessionRoomyStep ==
  TypeOK /\ Roomy /\ [Next]_vars => Roomy'
<1> SUFFICES ASSUME TypeOK, Roomy, [Next]_vars
             PROVE  Roomy'
  OBVIOUS
<1>1. ASSUME NEW s \in Streams, StillHaving(stream[s]), GenerateOne(s)
      PROVE  Roomy'
  <2>1. PICK d \in NextDraws(s, stream[s]) : GenerateNextRequest(s, stream[s], d)
    BY <1>1 DEF GenerateOne
  <2>2. stream[s] \in StreamState /\ HasRoom(stream[s])
    BY DEF TypeOK, Roomy
  <2>3. QED BY <1>1, <2>1, <2>2, SessionTyped, GenerationKeepsRoom
<1>2. CASE First
  BY <1>2, SessionTyped, FirstRequestKeepsRoom DEF First
<1>3. CASE All
  BY <1>1, <1>3 DEF All, TypeOK
<1>4. CASE \E s \in Streams : GenerateNext(s)
  BY <1>1, <1>4 DEF GenerateNext
<1>5. CASE Reset
  BY <1>5, SessionTyped, ResetGivesRoom DEF Reset
<1>6. CASE stream' = stream
  BY <1>6 DEF Roomy, HasRoom, Remaining
<1>7. QED
  BY <1>2, <1>3, <1>4, <1>5, <1>6
     DEF Next, Running, BeginFirst, DeleteFirst, EndFirst, FirstRequestsDone, EndAll, Abort,
         Display, NotUnderstood, NoMoreToGenerate, WrongKey, NothingToDelete, Quit, Terminating,
         BeginAll, managerVars, vars

(* No mix of the commands uses up the probabilities that the requests left to a
   stream need: a generating command always has a draw to make and a stamp to give. *)
THEOREM SessionDrawsAlwaysAvailable == Spec => []SessionDrawsAvailable
<1>1. TypeOK /\ Roomy => SessionDrawsAvailable
  <2> SUFFICES ASSUME TypeOK, Roomy
               PROVE  SessionDrawsAvailable
    OBVIOUS
  <2>1. \A s \in Streams :
          /\ NextDraws(s, stream[s]) # {} \/ ~StillHaving(stream[s])
          /\ NextDraws(s, SetFirst(stream[s])) # {} \/ ~StillHaving(SetFirst(stream[s]))
    BY DrawsExistForAll, SessionTyped
  <2>2. \A t \in Int : FreeStamps(queue, t) # {}
    BY StampsExist DEF TypeOK
  <2>3. ~IsQueueDone => \E e \in queue : IsEarliest(e)
    BY EarliestExists DEF TypeOK, IsQueueDone
  <2>4. QED BY <2>1, <2>2, <2>3 DEF SessionDrawsAvailable
<1>2. Init => Roomy
  BY InitGivesRoom DEF Init
<1>3. QED BY <1>1, <1>2, SessionRoomyStep, SessionTypeCorrect, PTL DEF Spec
=============================================================================
