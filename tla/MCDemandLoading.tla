-------------------------- MODULE MCDemandLoading --------------------------
(***************************************************************************)
(* Files of up to two of a dozen rows, and some of three: good rows with      *)
(* different contents, a comment, rows that stop matching at the first field, *)
(* in a list and before the final ';', impossible dates, a code given twice,  *)
(* points given twice, an empty and a reversed range of dates.  Weeks have    *)
(* three days and the calendar eight.                                       *)
(***************************************************************************)
EXTENDS DemandLoading, TLC

P(c, m) == [code |-> c, mass |-> m]
T(h, m) == [h |-> h, m |-> m]

Good ==
  [kind |-> "demand", matched |-> Len(Fields) + 1,
   start |-> 1, end |-> 4, dow |-> {0, 1}, key |-> "",
   pos |-> <<P("SIN", 7), P("BKK", 3)>>, channel |-> <<P("DF", 1)>>, trip |-> <<P("RO", 1)>>,
   stay |-> <<P(0, 1)>>, ff |-> <<P("P", 1)>>, fees |-> 1,
   prefDepTime |-> <<P(T(6, 30), 0), P(T(8, NoMinutes), 10)>>, minWTP |-> 1,
   timeValue |-> <<P(15, 0), P(60, 10)>>, dtd |-> <<P(20, 0), P(0, 10)>>,
   params |-> [mean |-> 2, stdDev |-> 1]]

Other ==
  [Good EXCEPT !.start = 3, !.end = 3, !.pos = <<P("BKK", 4), P("row", 6)>>,
               !.channel = <<P("IN", 1)>>, !.trip = <<P("OW", 1)>>, !.stay = <<P(5, 1)>>,
               !.ff = <<P("N", 1)>>, !.fees = 2,
               !.prefDepTime = <<P(T(7, NoMinutes), 0), P(T(8, NoMinutes), 10)>>,
               !.timeValue = <<P(10, 0), P(60, 10)>>, !.dtd = <<P(30, 0), P(1, 10)>>,
               !.params = [mean |-> 3, stdDev |-> 1]]

Comment == [kind |-> "comment"]

SomeRows ==
  {Good, Other, Comment,
   [Good EXCEPT !.matched = 0],
   [Other EXCEPT !.matched = 5],
   [Other EXCEPT !.matched = Len(Fields)],
   [Good EXCEPT !.start = NoDate],
   [Good EXCEPT !.end = NoDate],
   [Good EXCEPT !.pos = <<P("SIN", 7), P("BKK", 1), P("SIN", 2)>>],
   [Good EXCEPT !.matched = 6, !.channel = <<P("DF", 1), P("DF", 1)>>],
   [Good EXCEPT !.prefDepTime = <<P(T(6, 30), 0), P(T(7, NoMinutes), 2), P(T(7, 0), 3),
                                  P(T(8, NoMinutes), 10)>>,
                !.dtd = <<P(20, 0), P(3, 6), P(2, 8), P(0, 10)>>,
                !.timeValue = <<P(15, 0), P(15, 5), P(60, 10)>>],
   [Good EXCEPT !.start = 4, !.end = 3],
   [Good EXCEPT !.start = 5, !.end = 2]}

Keys == <<"SINBKK", "BKKHKG", "SINHKG">>
Keyed(f) ==
  [i \in DOMAIN f |-> IF f[i].kind = "demand" THEN [f[i] EXCEPT !.key = Keys[i]] ELSE f[i]]

MCFiles ==
  {<< >>, NoFile}
    \cup {Keyed(<<r>>) : r \in SomeRows} \cup {Keyed(<<r, s>>) : r, s \in SomeRows}
    \cup {Keyed(<<Other, r, Good>>) : r \in SomeRows}
=============================================================================
