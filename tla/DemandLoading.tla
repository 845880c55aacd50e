--------------------------- MODULE DemandLoading ---------------------------
(***************************************************************************)
(* Loading a demand file (command/DemandParser.cpp, DemandParserHelper.cpp,  *)
(* createDemandCharacteristics of DemandManager.cpp).  The semantic actions  *)
(* of the grammar fill one DemandStruct, field after field and pair after    *)
(* pair, as the text is matched; the end of a row creates a demand stream    *)
(* for each active day of its date range and clears the lists.  The same     *)
(* structure stages every row of the file.                                  *)
(*                                                                         *)
(* A file is a sequence of rows.  A row is a comment or an empty line, or a  *)
(* demand: its fields, and how many of them match their parsers before the   *)
(* text stops matching (all of them and the final ';' in a well-formed row).  *)
(* The pairs of the eight lists are records with a code and a mass; the code  *)
(* of a preferred departure time has hours and, optionally, minutes           *)
(* (seconds behave as minutes do).  The rows of a file have keys (origin,      *)
(* destination and cabin) of their own: what linking two streams with the     *)
(* same key does is a matter of StdAir.                                      *)
(***************************************************************************)
EXTENDS Integers, Sequences, FiniteSets, Functions

CONSTANTS
  Files,       \* the files that may be loaded; NoFile is one that cannot be read
  NoFile,
  LastDate,    \* last day of the calendar (in Boost, in the year 9999)
  WeekLength,  \* days in a week
  DtdUnit      \* grid of a day for the days to departure

Fields == <<"start", "end", "dow", "key", "pos", "channel", "trip", "stay", "ff", "fees",
            "prefDepTime", "minWTP", "timeValue", "dtd", "params">>

Categorical == {"pos", "channel", "trip", "stay", "ff"}
Continuous == {"prefDepTime", "timeValue", "dtd"}
Lists == Categorical \cup Continuous
Dates == {"start", "end"}
Scalars == {"dow", "key", "fees", "minWTP", "params"}

NoMinutes == -1   \* a time such as 8, without ".30"
NoDate == -1      \* a date such as 2010-02-30, that matches but does not exist

ASSUME LoadingAssumption ==
  /\ LastDate \in Nat /\ WeekLength \in Nat \ {0} /\ DtdUnit \in Nat \ {0}
  /\ \A f \in Files \ {NoFile} : \A r \in DOMAIN f :
       f[r].kind = "demand" =>
         /\ f[r].matched \in 0 .. Len(Fields) + 1
         /\ \A d \in Dates : f[r][d] \in (0 .. LastDate - 1) \cup {NoDate}
         /\ \A l \in Lists : f[r][l] # << >>
         /\ \A q \in DOMAIN f : f[q].kind = "demand" /\ f[q].key = f[r].key => q = r

(* What the grammar makes of a row: each pair of a list has a code and a mass. *)
ASSUME FileAssumption ==
  \A f \in Files \ {NoFile} :
    /\ f \in Seq(Range(f))
    /\ \A r \in DOMAIN f : f[r].kind \in {"comment", "demand"}
    /\ \A r \in DOMAIN f : f[r].kind = "demand" =>
         /\ f[r].params.mean \in Nat
         /\ \A l \in Lists :
              /\ f[r][l] \in Seq(Range(f[r][l]))
              /\ \A p \in Range(f[r][l]) : p = [code |-> p.code, mass |-> p.mass]

VARIABLES
  file,     \* the file to load
  pc,       \* "open", "row" (matching), "days" (creating streams), or how the load
            \* ended: "done" or "failed" (an exception left the parser)
  row,      \* the row being read
  field,    \* the field of the row to match next; the final ';' is the last one
  item,     \* the pair of a list to match next
  demand,   \* the staging structure
  day,      \* the iterator on the date range
  streams,  \* the demand streams created, in order, with the row each stems from
  expected  \* expected number of booking requests, raised by addStatus

vars == <<file, pc, row, field, item, demand, day, streams, expected>>

Current == file[row]
Name == Fields[field]

(* Whether the text of the next field matches its parser. *)
Matches == field <= Current.matched

-----------------------------------------------------------------------------
(* The semantic actions. *)

Advance == field' = field + 1 /\ item' = 1
Fail == pc' = "failed" /\ UNCHANGED <<row, field, item, day>>

MutStoredDate(name, date) == date

(* The date range ends one day after the end date, as a Boost period does. *)
StoredDate(name, date) == IF name = "end" THEN date + 1 ELSE date

StoreDate ==
  /\ Name \in Dates
  /\ IF Current[Name] = NoDate
     THEN Fail /\ UNCHANGED demand
     ELSE /\ demand' = [demand EXCEPT ![Name] = StoredDate(Name, Current[Name])]
          /\ Advance /\ UNCHANGED <<pc, row, day>>

StoreScalar ==
  /\ Name \in Scalars
  /\ demand' = [demand EXCEPT ![Name] = Current[Name]]
  /\ Advance /\ UNCHANGED <<pc, row, day>>

NextPair ==
  IF item = Len(Current[Name]) THEN Advance ELSE field' = field /\ item' = item + 1

Pair == Current[Name][item]

MutStoreMass ==
  /\ Name \in Categorical
  /\ demand' = [demand EXCEPT ![Name] = {p \in @ : p.code # Pair.code} \cup {Pair}]
  /\ NextPair /\ UNCHANGED <<pc, row, day>>

(* A code given twice in a list of masses is an error. *)
StoreMass ==
  /\ Name \in Categorical
  /\ IF \E p \in demand[Name] : p.code = Pair.code
     THEN Fail /\ UNCHANGED demand
     ELSE /\ demand' = [demand EXCEPT ![Name] = @ \cup {Pair}]
          /\ NextPair /\ UNCHANGED <<pc, row, day>>

(* A point inserted in the map of a continuous distribution: the point that has
   the value already, if any, is kept and the new one silently ignored. *)
Kept(points, code, mass) ==
  IF \E p \in points : p.code = code THEN points
  ELSE points \cup {[code |-> code, mass |-> mass]}

(* Minutes that are not given are those staged; these are cleared after each time. *)
StoreTime ==
  /\ Name = "prefDepTime"
  /\ LET m == IF Pair.code.m = NoMinutes THEN demand.itMinutes ELSE Pair.code.m IN
     demand' = [demand EXCEPT !.prefDepTime = Kept(@, 60 * Pair.code.h + m, Pair.mass),
                              !.itMinutes = 0]
  /\ NextPair /\ UNCHANGED <<pc, row, day>>

StoreTimeValue ==
  /\ Name = "timeValue"
  /\ demand' = [demand EXCEPT !.timeValue = Kept(@, Pair.code, Pair.mass)]
  /\ NextPair /\ UNCHANGED <<pc, row, day>>

(* The days to departure match as a real and are stored as an unsigned integer. *)
StoreDTD ==
  /\ Name = "dtd"
  /\ demand' = [demand EXCEPT !.dtd = Kept(@, -(Pair.code \div DtdUnit), Pair.mass)]
  /\ NextPair /\ UNCHANGED <<pc, row, day>>

-----------------------------------------------------------------------------
(* createDemandCharacteristics and createDemandStream. *)

IsDoWActive(d, dow) == d % WeekLength \in dow

ContentFields == Lists \cup (Scalars \ {"dow"})
Content(d) == [f \in ContentFields |-> d[f]]

MutCreateDay ==
  /\ pc = "days" /\ day # demand.end /\ day <= LastDate
  /\ streams' = IF IsDoWActive(day, demand.dow)
                THEN Append(streams, [from |-> row, date |-> day, content |-> Content(demand)])
                ELSE streams
  /\ expected' = expected + demand.params.mean
  /\ day' = day + 1
  /\ UNCHANGED <<file, pc, row, field, item, demand>>

(* The day's stream is created, with what the structure holds, and its mean
   number of requests is added to the expectation. *)
CreateDay ==
  /\ pc = "days" /\ day # demand.end /\ day <= LastDate
  /\ IF IsDoWActive(day, demand.dow)
     THEN /\ streams' = Append(streams,
                          [from |-> row, date |-> day, content |-> Content(demand)])
          /\ expected' = expected + demand.params.mean
     ELSE UNCHANGED <<streams, expected>>
  /\ day' = day + 1
  /\ UNCHANGED <<file, pc, row, field, item, demand>>

MutCalendarEnds ==
  /\ pc = "days" /\ day # demand.end /\ day > LastDate
  /\ UNCHANGED vars

(* The loop ends on equality only: from a start date after the end date it runs
   to the end of the calendar, where the date throws. *)
CalendarEnds ==
  /\ pc = "days" /\ day # demand.end /\ day > LastDate
  /\ Fail
  /\ UNCHANGED <<file, demand, streams, expected>>

MutClearLists ==
  /\ pc = "days" /\ day = demand.end
  /\ demand' = [f \in DOMAIN demand |-> IF f \in Lists \ {"dtd"} THEN {} ELSE demand[f]]
  /\ pc' = "row" /\ row' = row + 1 /\ field' = 1 /\ item' = 1
  /\ UNCHANGED <<file, day, streams, expected>>

(* doEndDemand, after the streams of the row were created. *)
ClearLists ==
  /\ pc = "days" /\ day = demand.end
  /\ demand' = [f \in DOMAIN demand |-> IF f \in Lists THEN {} ELSE demand[f]]
  /\ pc' = "row" /\ row' = row + 1 /\ field' = 1 /\ item' = 1
  /\ UNCHANGED <<file, day, streams, expected>>

-----------------------------------------------------------------------------
(* The file. *)

NoDemand ==
  [f \in Lists \cup Scalars \cup Dates \cup {"itMinutes"} |->
     IF f \in Lists THEN {} ELSE IF f = "dow" THEN {} ELSE 0]

Init ==
  /\ file \in Files /\ pc = "open" /\ row = 1 /\ field = 1 /\ item = 1
  /\ demand = NoDemand /\ day = 0 /\ streams = << >> /\ expected = 0

Open ==
  /\ pc = "open"
  /\ pc' = IF file = NoFile THEN "failed" ELSE "row"
  /\ UNCHANGED <<file, row, field, item, demand, day, streams, expected>>

SkipNotToBeParsed ==
  /\ pc = "row" /\ row <= Len(file) /\ Current.kind = "comment"
  /\ row' = row + 1
  /\ UNCHANGED <<file, pc, field, item, demand, day, streams, expected>>

MatchField ==
  /\ pc = "row" /\ row <= Len(file) /\ Current.kind = "demand"
  /\ field <= Len(Fields) /\ Matches
  /\ StoreDate \/ StoreScalar \/ StoreMass \/ StoreTime \/ StoreTimeValue \/ StoreDTD
  /\ UNCHANGED <<file, streams, expected>>

MatchEnd ==
  /\ pc = "row" /\ row <= Len(file) /\ Current.kind = "demand"
  /\ field = Len(Fields) + 1 /\ Matches
  /\ pc' = "days" /\ day' = demand.start
  /\ UNCHANGED <<file, row, field, item, demand, streams, expected>>

(* The list of rows matches as far as it does; that the file was not read to
   its end is only logged. *)
StopParsing ==
  /\ pc = "row"
  /\ row <= Len(file) => Current.kind = "demand" /\ ~Matches
  /\ pc' = "done"
  /\ UNCHANGED <<file, row, field, item, demand, day, streams, expected>>

Terminating == pc \in {"done", "failed"} /\ UNCHANGED vars

Step ==
  \/ Open \/ SkipNotToBeParsed \/ MatchField \/ MatchEnd \/ StopParsing
  \/ CreateDay \/ CalendarEnds \/ ClearLists

Next == Step \/ Terminating

(* Loading is a sequential call: it runs on until it returns or throws. *)
Spec == Init /\ [][Next]_vars
FairSpec == Spec /\ WF_vars(Step)

-----------------------------------------------------------------------------
(* What a row says by itself, whatever was read before it. *)

Demands == {r \in DOMAIN file : file[r].kind = "demand"}

(* The value a code of list f stands for. *)
ValueOf(f, code) ==
  CASE f = "prefDepTime" -> 60 * code.h + (IF code.m = NoMinutes THEN 0 ELSE code.m)
    [] f = "dtd" -> -(code \div DtdUnit)
    [] OTHER -> code

(* The first n pairs of a list, but for those with the value of an earlier one. *)
FirstPairs(f, seq, n) ==
  {[code |-> ValueOf(f, seq[i].code), mass |-> seq[i].mass] :
     i \in {j \in 1 .. n :
            \A k \in 1 .. j - 1 : ValueOf(f, seq[k].code) # ValueOf(f, seq[j].code)}}

OwnContent(r) ==
  [f \in ContentFields |-> IF f \in Lists THEN FirstPairs(f, r[f], Len(r[f])) ELSE r[f]]

(* The start date is more than a day after the end date. *)
IsReversed(r) == r.start > r.end + 1

(* The days a row stands for; they include the end date. *)
OwnDays(r) ==
  {d \in r.start .. (IF IsReversed(r) THEN LastDate ELSE r.end) : IsDoWActive(d, r.dow)}

HasNoDate(r) == r.start = NoDate \/ r.end = NoDate
RepeatsACode(r) ==
  \E f \in Categorical : \E i, j \in DOMAIN r[f] : i # j /\ r[f][i].code = r[f][j].code

-----------------------------------------------------------------------------
(* Properties. *)

(* Each stream carries the content of its own row and nothing a row before it
   left in the shared structure: no mass, no point and no minutes. *)
RowIsolated ==
  \A i \in DOMAIN streams : streams[i].content = OwnContent(file[streams[i].from])

DatesOfRow(r) == {streams[i].date : i \in {j \in DOMAIN streams : streams[j].from = r}}

(* When the load ends, with or without an exception, there is one stream for each
   active day, end date included, of each row before the one where it ended, in
   the order of the rows and the days, and none of a later row; of that row there
   are none, unless its date range is reversed. *)
PrefixLoaded ==
  pc \in {"done", "failed"} /\ file # NoFile =>
    /\ \A r \in Demands :
         DatesOfRow(r) =
           IF r < row \/ (r = row /\ pc = "failed" /\ ~HasNoDate(file[r])
                            /\ ~RepeatsACode(file[r]) /\ IsReversed(file[r]))
           THEN OwnDays(file[r]) ELSE {}
    /\ \A i, j \in DOMAIN streams : i < j =>
         \/ streams[i].from < streams[j].from
         \/ streams[i].from = streams[j].from /\ streams[i].date < streams[j].date

(* A load that returns met no row with an impossible date, a repeated code or a
   reversed range in what it read: these always throw. *)
NoErrorIsSwallowed ==
  pc = "done" => \A r \in Demands : r < row =>
    ~HasNoDate(file[r]) /\ ~RepeatsACode(file[r]) /\ ~IsReversed(file[r])

(* The expectation of the service is the sum of the means of the streams it has,
   at every point of the load, so also after a failed one. *)
ExpectationFollowsStreams ==
  expected = SumFunction([i \in DOMAIN streams |-> streams[i].content["params"].mean])

(* Whatever the file, the load ends, even for a reversed range of dates. *)
LoadingEnds == <>(pc \in {"done", "failed"})
=============================================================================
