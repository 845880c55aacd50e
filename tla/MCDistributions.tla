--------------------------- MODULE MCDistributions ---------------------------
(***************************************************************************)
(* Sweeps a random number through distributions: every curve of up to        *)
(* MaxPoints points, whose cumulative column may be any sequence of numbers   *)
(* (the parser checks nothing), every list of up to MaxMasses masses, and    *)
(* all those of the sample demand.  The results of the look-ups are compared *)
(* with the definition of an inverse cumulative distribution.  "hits"        *)
(* counts, for each value of the list, the keys 1 .. key that drew it.        *)
(***************************************************************************)
EXTENDS BookingRequest, SampleDemand

CONSTANTS MaxPoints, MaxValue, MaxMasses, One

ASSUME SweepAssumption ==
  MaxPoints \in Nat /\ MaxValue \in Nat /\ MaxMasses \in Nat /\ One \in Nat

VARIABLES dist, masses, unit, key, hits
sweepVars == <<dist, masses, unit, key, hits>>

(* All the curves: values strictly increasing, cumulative column free. *)
Curves ==
  UNION {{d \in [1 .. n -> [value : 0 .. MaxValue, cum : 0 .. One]] :
            \A i \in 1 .. n - 1 : d[i].value < d[i + 1].value} : n \in 1 .. MaxPoints}

MassLists == UNION {[1 .. n -> 0 .. One] : n \in 1 .. MaxMasses}

SampleCurves == UNION {{c.arrival, c.prefDepTime, c.timeValue} : c \in SampleStreams}
SampleMasses == UNION {{c[Lookups[i]] : c \in SampleStreams} : i \in 1 .. Len(Lookups)}

(* Either family with one member of the other, or the samples together; a
   probability is out of "unit". *)
SweepInit ==
  /\ \/ dist \in Curves /\ masses = <<One>> /\ unit = One
     \/ dist = << [value |-> 0, cum |-> 0] >> /\ masses \in MassLists /\ unit = One
     \/ dist \in SampleCurves /\ masses \in SampleMasses /\ unit = 100
  /\ key = 0
  /\ hits = [i \in DOMAIN masses |-> 0]

(* One more draw, with the next larger random number. *)
SweepNext ==
  /\ key < unit
  /\ key' = key + 1
  /\ UNCHANGED <<dist, masses, unit>>
  /\ LET drawn == Draw(masses, key')
     IN  IF drawn = IndexOutOfRange THEN UNCHANGED hits ELSE hits' = [hits EXCEPT ![drawn] = @ + 1]

SweepSpec == SweepInit /\ [][SweepNext]_sweepVars

-----------------------------------------------------------------------------
(* getValue inverts the cumulative curve: see InvertsAt. *)
InvertsCurve ==
  IsCumulative(dist) /\ Len(dist) > 1 => InvertsAt(dist, key, GetValue(dist, key))

(* Over a full sweep of the random draw every value is drawn in proportion to
   its mass, as long as the masses do not exceed one; in particular a value of
   mass zero is never drawn. *)
SharesFollowMasses ==
  key = unit /\ Total(masses) <= unit => \A i \in DOMAIN masses : hits[i] = masses[i]

(* All the draws of a request give the same number, the key. *)
SameDraws ==
  [k \in {"pos", "channel", "trip", "stay", "ff", "changeFees", "nonRefundable",
          "prefDepTime", "timeValue"} |-> key]

(* The built-in demand gives every request all its characteristics: no look-up
   of a sample stream fails, whatever the draw, and a restriction is accepted
   by as many draws as its ratio says. *)
SampleRequestsComplete ==
  unit = 100 =>
    \A c \in SampleStreams :
      LET r == GenerateCharacteristics(c, SameDraws, 0, 0)
      IN  /\ FirstFailure(r) = 0
          /\ r.prefDepTime \in 0 .. 24 * 60 - 1
          /\ r.changeFees = (key < 50) /\ r.nonRefundable = (key < 50)

(* For the same draw, a request made a day later is never willing to pay less,
   from a year before the departure to the day after it, which is the date of
   the request that ends a Poisson stream. *)
LaterPaysMore ==
  unit = 100 =>
    \A c \in SampleStreams : \A x \in {0, 7, 10, 40} :
      \A advance \in {4 * key - 1, 4 * key, 4 * key + 1} :
        /\ GenerateWTP(c, advance, x) >= GenerateWTP(c, advance + 1, x)
        /\ GenerateWTP(c, advance, x) >= c.minWTP

(* DemandCharacteristics.hpp: every curve of a stream, the preferred departure
   time among them, is a "cumulative distribution".  The built-in demand has
   one that is not. *)
SampleCurvesCumulative == unit = 100 => IsCumulative(dist)
=============================================================================
