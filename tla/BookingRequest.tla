--------------------------- MODULE BookingRequest ---------------------------
(***************************************************************************)
(* The characteristics of a booking request (basic/DemandCharacteristics,    *)
(* and the generators of bom/DemandStream.cpp).  The characteristics of a    *)
(* stream are a record of distributions: "pos", "channel", "trip", "stay",   *)
(* "ff" are lists of masses, "prefDepTime" and "timeValue" are curves.  A     *)
(* generator takes the random number u it draws.                            *)
(***************************************************************************)
EXTENDS ContinuousAttribute, CategoricalAttribute

(* The five look-ups that may find no value, in the order of
   generateNextRequest.  The date-time of the request is drawn between the
   first and the second. *)
Lookups == <<"pos", "channel", "trip", "stay", "ff">>

GeneratePOS(c, u) == Draw(c.pos, u)
GenerateChannel(c, u) == Draw(c.channel, u)
GenerateTripType(c, u) == Draw(c.trip, u)
GenerateStayDuration(c, u) == Draw(c.stay, u)
GenerateFrequentFlyer(c, u) == Draw(c.ff, u)

GenerateChangeFees(c, u) == u < c.changeFeeProb
GenerateNonRefundable(c, u) == u < c.nonRefundableProb
GeneratePreferredDepartureTime(c, u) == GetValue(c.prefDepTime, u)
GenerateValueOfTime(c, u) == GetValue(c.timeValue, u)

-----------------------------------------------------------------------------
(* Willingness to pay.  The FRAT5 pattern is a curve whose "cumulative" column
   holds days relative to departure; its values are in thousandths, and the
   last, 2.500000001, is rounded up to stay above the one before. *)
FRAT5Pattern ==
  LET coef == <<1100, 1200, 1300, 1400, 1700, 2000, 2300, 2440, 2500, 2501>>
      day  == <<-365, -63, -49, -35, -23, -16, -10, -5, -1, 0>>
  IN  [i \in 1 .. 10 |-> [value |-> coef[i], cum |-> day[i]]]

MutFrat5(advance) == GetValue(FRAT5Pattern, advance)

(* The coefficient of a request made a number of days before the departure
   (a negative number for the request dated after it). *)
Frat5(advance) == GetValue(FRAT5Pattern, -advance)

(* x is the exponential draw log (u) / log (0.5), in tenths. *)
GenerateWTP(c, advance, x) ==
  (c.minWTP * (10000 + (Frat5(advance) - 1000) * x)) \div 10000

-----------------------------------------------------------------------------
(* The part of generateNextRequest that follows the characteristics: u gives
   the random number of each draw, "advance" and x those of the willingness to
   pay. *)
GenerateCharacteristics(c, u, advance, x) ==
  [pos |-> GeneratePOS(c, u.pos), channel |-> GenerateChannel(c, u.channel),
   trip |-> GenerateTripType(c, u.trip), stay |-> GenerateStayDuration(c, u.stay),
   ff |-> GenerateFrequentFlyer(c, u.ff),
   changeFees |-> GenerateChangeFees(c, u.changeFees),
   nonRefundable |-> GenerateNonRefundable(c, u.nonRefundable),
   prefDepTime |-> GeneratePreferredDepartureTime(c, u.prefDepTime),
   timeValue |-> GenerateValueOfTime(c, u.timeValue), wtp |-> GenerateWTP(c, advance, x)]

(* The first look-up of a request that threw, if any: 0 when none did. *)
FirstFailure(request) ==
  LET failed == {i \in 1 .. Len(Lookups) : request[Lookups[i]] = IndexOutOfRange}
  IN  IF failed = {} THEN 0 ELSE Min(failed)
=============================================================================
