-------------------------- MODULE MCPythonSession --------------------------
(***************************************************************************)
(* Two streams over days of three milliseconds.  The first never fails, but   *)
(* its arrival pattern has no point one day before the departure and goes on  *)
(* to the departure day, where its requests may be dropped.  The masses of    *)
(* the second are short for the point of sale and for the trip type, so that  *)
(* its requests fail before and after their date-time is drawn.              *)
(***************************************************************************)
EXTENDS PythonSession, TLC

MCDeparture == [s \in Streams |-> 3]
MCMean == [s \in Streams |-> 2]
MCPref == <<{0, 2}, {2}>>
MCArrival ==
  << << [value |-> -2, cum |-> 0], [value |-> 0, cum |-> 4] >>,
     << [value |-> -4, cum |-> 0], [value |-> -3, cum |-> 3], [value |-> 0, cum |-> 4] >> >>
MCDraws == <<{2}, {2}>>
MCShort == <<{}, {"pos", "trip"}>>
=============================================================================
