----------------------------- MODULE DemandPlan -----------------------------
(***************************************************************************)
(* What the order statistics method promises to whoever consumes the         *)
(* requests, without a word on how they are generated: in each run every     *)
(* stream has a quota; its requests are served one at a time, never beyond   *)
(* the quota; a stream may be abandoned short of its quota, once and for     *)
(* all; and a run ends only when every stream was served in full or          *)
(* abandoned.                                                               *)
(***************************************************************************)
EXTENDS Integers

CONSTANTS PlanStreams, PlanQuotas, PlanRuns

VARIABLES quota, served, abandoned, planRun

planVars == <<quota, served, abandoned, planRun>>

IsQuota(q) == \A s \in PlanStreams : q[s] \in PlanQuotas[s]

PlanInit ==
  /\ quota \in [PlanStreams -> Int] /\ IsQuota(quota)
  /\ served = [s \in PlanStreams |-> 0]
  /\ abandoned = [s \in PlanStreams |-> FALSE]
  /\ planRun = 1

Serve(s) ==
  /\ ~abandoned[s] /\ served[s] < quota[s]
  /\ served' = [served EXCEPT ![s] = @ + 1]
  /\ UNCHANGED <<quota, abandoned, planRun>>

Abandon(s) ==
  /\ ~abandoned[s] /\ served[s] < quota[s]
  /\ abandoned' = [abandoned EXCEPT ![s] = TRUE]
  /\ UNCHANGED <<quota, served, planRun>>

IsOver(s) == abandoned[s] \/ served[s] >= quota[s]

EndOfRun ==
  /\ planRun <= PlanRuns
  /\ \A s \in PlanStreams : IsOver(s)
  /\ planRun' = planRun + 1
  /\ IsQuota(quota')
  /\ served' = [s \in PlanStreams |-> 0]
  /\ abandoned' = [s \in PlanStreams |-> FALSE]

PlanNext == (\E s \in PlanStreams : Serve(s) \/ Abandon(s)) \/ EndOfRun

PlanSpec == PlanInit /\ [][PlanNext]_planVars
=============================================================================
