--------------------------- MODULE MCCancellation ---------------------------
(***************************************************************************)
(* A small instance of the simulation with cancellations: days of two        *)
(* seconds of two milliseconds of one tick, departures on day three,         *)
(* requests from two days before to the departure time, so that              *)
(* cancellations tie with requests, fall within the same second, and are     *)
(* asked for requests of the departure day.                                 *)
(***************************************************************************)
EXTENDS Cancellation, TLC

MCDeparture == [s \in Streams |-> 3]
MCMean == [s \in Streams |-> 2]
MCPref == [s \in Streams |-> {0, 3}]
MCArrival ==
  [s \in Streams |-> << [value |-> -8, cum |-> 0], [value |-> -4, cum |-> 2],
                        [value |-> 0, cum |-> 6] >>]
MCDraws == <<{2}, {1, 2}>>
=============================================================================
