------------------------------ MODULE MCSession ------------------------------
(***************************************************************************)
(* Small instances of the interactive session, with the days, the pattern    *)
(* and the departures of MCBatch.                                           *)
(***************************************************************************)
EXTENDS InteractiveSession, TLC

MCDeparture == [s \in Streams |-> 3]
MCMean == [s \in Streams |-> 2]
MCPref == [s \in Streams |-> {0, 2}]

MCArrival ==
  [s \in Streams |-> << [value |-> -8, cum |-> 0], [value |-> -6, cum |-> 2],
                        [value |-> 0, cum |-> 7] >>]
MCDraws == <<{2}, {-1, 1}>>

(* The first pattern has the point one day before departure, the second has
   not. *)
MCPoissonArrival ==
  << << [value |-> -9, cum |-> 0], [value |-> -6, cum |-> 4], [value |-> 0, cum |-> 7] >>,
     << [value |-> -8, cum |-> 0], [value |-> 0, cum |-> 7] >> >>
=============================================================================
