------------------------- MODULE InteractiveSession -------------------------
(***************************************************************************)
(* The command-line program (ui/cmdline/trademgen.cpp): a user issues the    *)
(* commands generate_first_br, generate_next_br, generate_all_br,            *)
(* delete_first and reset in any order, as often as wanted, among commands   *)
(* that only print and lines that are refused, until quit or the end of the  *)
(* input.  The program catches no exception: the assertion of a Poisson      *)
(* stream that runs off its pattern ends it.                                 *)
(***************************************************************************)
EXTENDS DemandManager

VARIABLES
  command,  \* "prompt", the command whose loop is running ("first", "all"), "ended" or "aborted"
  target,   \* the stream of the running generate_all_br
  deleted   \* history: events popped since the last reset, per stream

vars == <<managerVars, command, target, deleted>>

Init ==
  /\ ManagerInit
  /\ command = "prompt" /\ target = 1
  /\ deleted = [s \in Streams |-> 0]

GenerateOne(s) ==
  /\ \E d \in NextDraws(s, stream[s]) :
       ~RunsOffPattern(s, d) /\ GenerateNextRequest(s, stream[s], d)
  /\ UNCHANGED <<itStream, sumActual, forgotten>>

(* generate_first_br: the loop of generateFirstRequests. *)
BeginFirst ==
  /\ command = "prompt"
  /\ command' = "first"
  /\ UNCHANGED <<managerVars, target, deleted>>

First ==
  /\ command = "first"
  /\ FirstRequestOfStream
  /\ UNCHANGED <<command, target, deleted>>

MutEndFirst ==
  /\ command = "first"
  /\ FirstRequestsDone
  /\ UNCHANGED <<command, target, deleted>>

EndFirst ==
  /\ command = "first"
  /\ FirstRequestsDone
  /\ command' = "prompt"
  /\ UNCHANGED <<target, deleted>>

MutGenerateNext(s) ==
  /\ command = "prompt"
  /\ GenerateOne(s)
  /\ UNCHANGED <<command, target, deleted>>

(* generate_next_br, for a stream that still has requests. *)
GenerateNext(s) ==
  /\ command = "prompt"
  /\ StillHaving(stream[s])
  /\ GenerateOne(s)
  /\ UNCHANGED <<command, target, deleted>>

(* generate_all_br: the first test, then one request after the other until the
   stream has no more. *)
BeginAll(s) ==
  /\ command = "prompt"
  /\ StillHaving(stream[s])
  /\ command' = "all" /\ target' = s
  /\ UNCHANGED <<managerVars, deleted>>

All ==
  /\ command = "all"
  /\ StillHaving(stream[target])
  /\ GenerateOne(target)
  /\ UNCHANGED <<command, target, deleted>>

EndAll ==
  /\ command = "all"
  /\ ~StillHaving(stream[target])
  /\ command' = "prompt"
  /\ UNCHANGED <<managerVars, target, deleted>>

(* A generating command meets the end of the pattern of its stream. *)
Abort ==
  /\ \E s \in Streams :
       /\ \/ command = "prompt" /\ StillHaving(stream[s])
          \/ command = "all" /\ s = target /\ StillHaving(stream[s])
          \/ command = "first" /\ s = itStream /\ StillHaving(SetFirst(stream[s]))
       /\ \E d \in NextDraws(s, IF command = "first" THEN SetFirst(stream[s]) ELSE stream[s]) :
            RunsOffPattern(s, d)
  /\ command' = "aborted"
  /\ UNCHANGED <<managerVars, target, deleted>>

(* delete_first (the NEXT command of the code): pop the earliest event. *)
DeleteFirst ==
  /\ command = "prompt"
  /\ \E e \in queue :
       /\ PopEvent(e)
       /\ deleted' = [deleted EXCEPT ![e.key] = @ + 1]
  /\ UNCHANGED <<stream, itStream, sumActual, dropped, forgotten, command, target>>

Reset ==
  /\ command = "prompt"
  /\ ManagerReset
  /\ deleted' = [s \in Streams |-> 0]
  /\ UNCHANGED <<command, target>>

(* help, list_event, list_demand_stream and json_list only read. *)
Display == command = "prompt" /\ UNCHANGED vars

(* An empty line, or a word that is no command; among them "next", which the
   completion offers although the command is called delete_first. *)
NotUnderstood == command = "prompt" /\ UNCHANGED vars

(* generate_next_br and generate_all_br refuse a stream without requests to
   come. *)
NoMoreToGenerate ==
  /\ command = "prompt"
  /\ \E s \in Streams : ~StillHaving(stream[s])
  /\ UNCHANGED vars

(* They also refuse a key that is the key of no stream. *)
WrongKey == command = "prompt" /\ UNCHANGED vars

(* delete_first refuses when the queue is done. *)
NothingToDelete == command = "prompt" /\ IsQueueDone /\ UNCHANGED vars

(* quit, or the end of the input. *)
Quit ==
  /\ command = "prompt"
  /\ command' = "ended"
  /\ UNCHANGED <<managerVars, target, deleted>>

Terminating == command \in {"ended", "aborted"} /\ UNCHANGED vars

(* A command once issued runs to its end; whether the user issues another is
   up to the user. *)
Running == First \/ EndFirst \/ All \/ EndAll \/ (command # "prompt" /\ Abort)

Next ==
  \/ BeginFirst \/ DeleteFirst \/ Reset \/ Running \/ Abort
  \/ Display \/ NotUnderstood \/ NoMoreToGenerate \/ WrongKey \/ NothingToDelete
  \/ Quit \/ Terminating
  \/ \E s \in Streams : GenerateNext(s) \/ BeginAll(s)

Spec == Init /\ [][Next]_vars
FairSpec == Spec /\ WF_vars(Running)

-----------------------------------------------------------------------------
QueuedOf(s) == Cardinality({e \in queue : e.key = s})

(* Types. *)
TypeOK ==
  /\ stream \in [Streams -> StreamState]
  /\ queue \in SUBSET [key : Streams, time : Int, stamp : Int] /\ IsFiniteSet(queue)
  /\ status \in [expected : Int, current : Nat, actual : Int]
  /\ itStream \in 1 .. NbStreams + 1 /\ sumActual \in Int /\ target \in Streams
  /\ command \in {"prompt", "first", "all", "ended", "aborted"}
  /\ dropped \in [Streams -> Nat] /\ forgotten \in [Streams -> Nat] /\ deleted \in [Streams -> Nat]

(* Whatever the commands, no request is lost or duplicated: each one a stream
   counted was deleted by the user, is in the queue, or was dropped, and only
   the draw that stops a Poisson stream is dropped without being counted. *)
SessionAccounted ==
  \A s \in Streams :
    stream[s].soFar + (IF stream[s].still THEN 0 ELSE 1) = deleted[s] + QueuedOf(s) + dropped[s]

(* No mix of first, next and all commands makes a stream generate more requests
   than were drawn for it by the order statistics method. *)
SessionWithinTotal ==
  Method = StatisticsOrder =>
    \A s \in Streams : stream[s].soFar <= Max({0, stream[s].total})

(* A stream that has generated everything stays so until a reset, even when
   generate_first_br is issued again (which makes a Poisson stream forget that
   it had started). *)
FinishedUntilReset ==
  [][(\E s \in Streams : ~StillHaving(stream[s]) /\ StillHaving(stream'[s])) => Reset]_vars

(* Several requests of a stream may wait together, and order statistics keep
   them in the order of their generation, however the commands are mixed. *)
StreamInOrder ==
  [][Method = StatisticsOrder =>
       \A e \in queue' \ queue : \A f \in queue : f.key = e.key => f.time <= e.time]_vars

(* A command whose loop is running comes back to the prompt, unless it runs off
   the pattern of a stream. *)
CommandsReturn == command \in {"first", "all"} ~> command \in {"prompt", "aborted"}
=============================================================================
