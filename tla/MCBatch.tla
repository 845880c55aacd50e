------------------------------- MODULE MCBatch -------------------------------
(***************************************************************************)
(* Small instances of the batch driver.  A day has three milliseconds of two *)
(* ticks, the reference departure time is the second millisecond, and the    *)
(* departures are on day three, so that the last two days hold six           *)
(* milliseconds of requests: two draws in the same millisecond, equal stamps *)
(* and requests on the day of the departure all happen.                      *)
(***************************************************************************)
EXTENDS BatchDriver, TLC

MCDeparture == [s \in Streams |-> 3]
MCMean == [s \in Streams |-> 2]
MCPref == [s \in Streams |-> IF s = 3 THEN {2} ELSE {0, 2}]

(* Two streams with a fifth of the mass two days to one day before departure
   and the rest on the last day, where requests are dropped; the third has all
   its mass earlier, so that it ties with them but is never dropped. *)
MCArrival ==
  [s \in Streams |->
     IF s = 3 THEN << [value |-> -15, cum |-> 0], [value |-> -9, cum |-> 10] >>
     ELSE << [value |-> -12, cum |-> 0], [value |-> -6, cum |-> 2], [value |-> 0, cum |-> 10] >>]
MCDraws == [s \in Streams |-> <<{1, 3}, {-1, 0, 2}, {1}>>[s]]

(* Poisson: the first stream has a plateau and stops at the usual point; the
   second has a pattern the parser accepts, without that point. *)
MCPoissonArrival ==
  << << [value |-> -12, cum |-> 0], [value |-> -10, cum |-> 4], [value |-> -8, cum |-> 4],
        [value |-> -6, cum |-> 9], [value |-> 0, cum |-> 12] >>,
     << [value |-> -9, cum |-> 0], [value |-> 0, cum |-> 12] >> >>
=============================================================================
