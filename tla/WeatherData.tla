---------------------------- MODULE WeatherData ----------------------------
(***************************************************************************)
(* WeatherBusiHandler (wqa_busi_handler.cc): the timer's thread reloads    *)
(* its tables every hour from the day's files, while the request thread    *)
(* searches them and puts answers into words; there is no lock.            *)
(*                                                                         *)
(* Days are numbered.  A line of weather.dat is its area, its number of    *)
(* fields, and for today (0) and each day ahead the two temperatures and   *)
(* the words that its statuses and winds contain; <<>> is a temperature    *)
(* field without a '/'.  A line of at most 10 bytes has no fields.         *)
(* weather_indices.dat is the set of the areas it lists, {} if none.       *)
(***************************************************************************)
EXTENDS Integers, Sequences, FiniteSets, Places

CONSTANTS
  Area,
  Alike,      \* pairs <<asked, listed>>, one within the other and long enough
  NoArea,     \* the empty string; also the default area that is not set
  m_default_area,
  Contents,   \* what weather.dat may hold: sequences of lines
  IndexFiles, \* what weather_indices.dat may hold: sets of areas
  Missing,    \* no such file
  Start,      \* the days from now a question may name
  Target,     \* what a question may be about
  MaxDay,     \* bound on days
  MaxFetches  \* bound on the files written

SkyWords == {"rain", "snow", "wind", "typhoon"}

(* Today's temperatures are two fields, which are always there. *)
Line ==
  {line \in [area : Area, fields : Nat, temps : [0..7 -> {<<>>} \cup (Int \X Int)],
             sky : [0..7 -> SUBSET SkyWords]] : line.temps[0] # <<>>}

ASSUME WeatherDataAssumption ==
  /\ NoArea \notin Area /\ m_default_area \in Area \cup {NoArea}
  /\ Alike \subseteq Area \X Area
  /\ Contents \subseteq Seq(Line)
  /\ Missing \notin Contents /\ IndexFiles \subseteq SUBSET Area
  /\ Start \subseteq Int /\ Target \subseteq STRING
  /\ MaxDay \in Nat \ {0} /\ MaxFetches \in Nat

VARIABLES
  day, dat, idx, fetches,    \* today, and today's two files
  real_time, last_time,      \* rows [line, date, slip]
  indices,                   \* area_indices_map: area -> date
  loader,                    \* [pc, date, lines, at]
  serving,                   \* the constructor has returned
  req,                       \* the request under way (day, fresh: history)
  answer,                    \* what it got
  current, previous,         \* what the last two loads read (history)
  listed                     \* <<area, day>>: had indices that day (history)

fileVars == <<day, dat, idx, fetches>>
tables == <<real_time, last_time, indices>>
history == <<current, previous, listed>>
vars == <<fileVars, tables, history, loader, serving, req, answer>>

NoLoad == [date |-> 0, lines |-> <<>>]
Waiting == [pc |-> "wait", date |-> 0, lines |-> <<>>, at |-> 1]
NoRow == [line |-> <<>>, date |-> 0, slip |-> <<>>]

(* A Weather of the response: none, or one with nothing in it, which reads  *)
(* as zeros and empty texts.                                                *)
Unmatched == [size |-> 0, date |-> 0, max |-> 0, min |-> 0, sky |-> {}]
Blank == [Unmatched EXCEPT !.size = 1]

Idle == [pc |-> "idle", area |-> NoArea, start |-> 0, dated |-> FALSE, day |-> 0,
         fresh |-> FALSE, row |-> NoRow, source |-> "none", w |-> Unmatched,
         now |-> 0, tm |-> 0]
Silent == [kind |-> "none", about |-> "none", date |-> 0, low |-> 0, high |-> 0]

NewProcess ==
  /\ real_time' = <<>> /\ last_time' = <<>> /\ indices' = <<>>
  /\ loader' = Waiting /\ serving' = FALSE /\ req' = Idle /\ answer' = Silent
  /\ current' = NoLoad /\ previous' = NoLoad /\ listed' = {}

Init ==
  /\ day = 1 /\ dat \in Contents \cup {Missing} /\ fetches = 0
  /\ idx \in IndexFiles \cup {{}}
  /\ real_time = <<>> /\ last_time = <<>> /\ indices = <<>>
  /\ loader = Waiting /\ serving = FALSE /\ req = Idle /\ answer = Silent
  /\ current = NoLoad /\ previous = NoLoad /\ listed = {}
-----------------------------------------------------------------------------
(* A new day's directory is empty until its files are fetched.  A load is   *)
(* over by the second midnight after it began.                              *)
Midnight ==
  /\ day < MaxDay /\ day' = day + 1
  /\ loader.pc = "wait" \/ loader.date = day
  /\ dat' = Missing /\ idx' = {}
  /\ UNCHANGED <<fetches, tables, history, loader, serving, req, answer>>

Fetch ==
  /\ fetches < MaxFetches /\ fetches' = fetches + 1
  /\ \/ dat' \in Contents /\ UNCHANGED idx
     \/ idx' \in IndexFiles /\ UNCHANGED dat
  /\ UNCHANGED <<day, tables, history, loader, serving, req, answer>>
-----------------------------------------------------------------------------
(* localtime() has one struct tm for all threads: the loader's calls may    *)
(* overwrite what FormatDayStr is about to print, and the other way round.  *)
Overwrite(dates) ==
  req' \in IF req.pc = "format"
           THEN {req} \cup {[req EXCEPT !.tm = d] : d \in dates} ELSE {req}

(* The constructor goes on without a file. *)
NoData ==
  /\ ~serving /\ loader.pc = "wait" /\ dat = Missing
  /\ serving' = TRUE
  /\ UNCHANGED <<fileVars, tables, history, loader, req, answer>>

(* The time is read once, at the start of LoadData. *)
OpenData ==
  /\ loader.pc = "wait" /\ dat # Missing
  /\ loader' = [pc |-> "copy", date |-> day, lines |-> dat, at |-> 1]
  /\ Overwrite({day})
  /\ UNCHANGED <<fileVars, tables, history, serving, answer>>

(* Mutant: the table is cleared before it is copied. *)
Cleared == <<>>
Copied == real_time

CopyAndClear ==
  /\ loader.pc = "copy"
  /\ last_time' = Copied /\ real_time' = <<>>
  /\ loader' = [loader EXCEPT !.pc = "read"]
  /\ UNCHANGED <<fileVars, indices, history, serving, req, answer>>

Usable(line) == line.fields > 8

(* The days ahead a line has all three fields of, at most seven.            *)
Ahead(line) == Cardinality({i \in 0..6 : 12 + i * 3 + 2 < line.fields})

(* erase(npos) throws. *)
Throws(line) == Usable(line) /\ \E k \in 1..Ahead(line) : line.temps[k] = <<>>

(* Mutant: the last line is not read. *)
AllButLast == loader.at < Len(loader.lines)
HasLine == loader.at <= Len(loader.lines) /\ loader.lines[loader.at].fields # 0

(* A row, or one in which FormatDayStr's localtime() came before the        *)
(* strftime() of one of the days ahead, among those anybody asks for: slip  *)
(* is that day and its date.                                                *)
RowsOf(line, date) ==
  {[line |-> line, date |-> date, slip |-> slip] :
     slip \in {<<>>} \cup IF req.pc # "format" THEN {}
                          ELSE {<<k, req.now>> : k \in Start \cap (1..Ahead(line))}}

LoadArea ==
  /\ loader.pc = "read" /\ HasLine
  /\ LET line == loader.lines[loader.at] IN
     /\ ~Throws(line)
     /\ IF Usable(line)
        THEN /\ \E row \in RowsOf(line, loader.date) : real_time' = Append(real_time, row)
             /\ Overwrite({loader.date + k : k \in 1..Ahead(line)})
        ELSE UNCHANGED <<real_time, req>>
  /\ loader' = [loader EXCEPT !.at = @ + 1]
  /\ UNCHANGED <<fileVars, last_time, indices, history, serving, answer>>

(* Nobody catches the exception: the process dies, and is started again.    *)
Die ==
  /\ loader.pc = "read" /\ HasLine /\ Throws(loader.lines[loader.at])
  /\ NewProcess
  /\ UNCHANGED fileVars

EndOfData ==
  /\ loader.pc = "read" /\ ~HasLine
  /\ loader' = [loader EXCEPT !.pc = "indices"]
  /\ current' = [date |-> loader.date, lines |-> loader.lines] /\ previous' = current
  /\ UNCHANGED <<fileVars, tables, listed, serving, req, answer>>

(* Mutant: the entry an area has is replaced. *)
InsertOver(area) == day
(* map::insert leaves the entry an area has. *)
Insert(area) == IF area \in DOMAIN indices THEN indices[area] ELSE day

(* LoadIndices reads the clock again. *)
LoadIndices ==
  /\ loader.pc = "indices"
  /\ loader' = Waiting /\ serving' = TRUE
  /\ indices' = [area \in DOMAIN indices \cup idx |->
                IF area \in idx THEN Insert(area) ELSE indices[area]]
  /\ listed' = listed \cup (idx \X {day})
  /\ Overwrite({day})
  /\ UNCHANGED <<fileVars, real_time, last_time, current, previous, answer>>

LoadData == NoData \/ OpenData \/ CopyAndClear \/ LoadArea \/ Die \/ EndOfData \/ LoadIndices

Writes(v) == \/ v = "real_time" /\ loader.pc \in {"copy", "read"}
             \/ v = "last_time" /\ loader.pc = "copy"
             \/ v = "indices" /\ loader.pc = "indices"
-----------------------------------------------------------------------------
Answer(kind, about, date) ==
  /\ answer' = [Silent EXCEPT !.kind = kind, !.about = about, !.date = date]
  /\ UNCHANGED <<fileVars, tables, history, loader, serving>>

(* The request's response, or the lack of one, goes back to the caller.     *)
Done == req' = [Idle EXCEPT !.pc = "release"]

(* Undefined behaviour: the thread goes on with anything, or is lost.       *)
Undefined ==
  /\ Done \/ req' = [Idle EXCEPT !.pc = "lost"]
  /\ Answer("undefined", "none", 0)

(* TimeUtils: whole days, both times at midnight. *)
compareNowDays(date) == date - day

(* The question's area and date; a date condition that is no range, or that *)
(* compareNowDays cannot read, counts as today.  Without an area the        *)
(* response has no weather.                                                 *)
HandleRequest(area, date, dated) ==
  /\ serving /\ req.pc = "idle" /\ (dated \/ date = day)
  /\ LET start == compareNowDays(date)
         asked == IF area = NoArea THEN m_default_area ELSE area
         r == [Idle EXCEPT !.area = asked, !.start = start, !.dated = dated, !.day = day,
                           !.fresh = current.date = day]
     IN IF asked = NoArea
        THEN req' = [r EXCEPT !.pc = "text"] /\ Answer("WFB_NO_AREA", "none", 0)
        ELSE req' = [r EXCEPT !.pc = "find", !.source = "real_time"] /\ Answer("none", "none", 0)

Matches(row) ==
  \/ row.line.area = req.area
  \/ req.source = "real_time" /\ <<req.area, row.line.area>> \in Alike

Table == IF req.source = "real_time" THEN real_time ELSE last_time

First(rows) == LET hits == {k \in DOMAIN rows : Matches(rows[k])} IN
               IF hits = {} THEN NoRow
               ELSE rows[CHOOSE k \in hits : \A j \in hits : k <= j]

(* FindAreaWeather looks at one table, then at the other. *)
FindAreaWeather ==
  /\ req.pc = "find" /\ ~Writes(req.source)
  /\ LET row == First(Table) IN
     \/ /\ row # NoRow /\ req' = [req EXCEPT !.pc = "fill", !.row = row]
        /\ Answer("none", "none", 0)
     \/ /\ row = NoRow /\ req.source = "real_time"
        /\ req' = [req EXCEPT !.source = "last_time"] /\ Answer("none", "none", 0)
     \/ /\ row = NoRow /\ req.source = "last_time"
        /\ Done /\ Answer("NoSuchArea", "none", 0)

(* The table is being written: the search is undefined, it may copy a row   *)
(* of it that is half there, find none, or not return.                      *)
FindUndefined ==
  /\ req.pc = "find" /\ Writes(req.source)
  /\ \/ /\ req.source = "real_time" /\ req' = [req EXCEPT !.source = "last_time"]
        /\ Answer("none", "none", 0)
     \/ Undefined

(* Mutant: the temperatures of today are taken as they stand. *)
AsListed(pair, k) == pair
(* Only today's temperatures are put in order. *)
Ordered(pair, k) == IF k = 0 /\ pair[1] < pair[2] THEN <<pair[2], pair[1]>> ELSE pair

(* Mutant: the entry after the one for the day. *)
NextForecast(row, k) == row.date + k + 1
Forecast(row, k) == IF row.slip # <<>> /\ row.slip[1] = k THEN row.slip[2] ELSE row.date + k

FillPB(row, k) ==
  LET pair == Ordered(row.line.temps[k], k) IN
  [size |-> 1, date |-> Forecast(row, k), max |-> pair[1], min |-> pair[2],
   sky |-> row.line.sky[k]]

(* Mutant: one day further. *)
IsNear(start) == start >= 1 /\ start < 9
IsFuture(start) == start >= 1 /\ start < 8

(* The weather of the day asked for; for a day in the past, or too far      *)
(* ahead, a Weather with nothing in it.  The entry is not checked to exist. *)
Fill ==
  LET k == req.start IN
  /\ req.pc = "fill"
  /\ \/ /\ k = 0 \/ (IsFuture(k) /\ k <= Ahead(req.row.line))
        /\ req' = [req EXCEPT !.pc = "text", !.w = FillPB(req.row, k),
                              !.source = "none", !.fresh = FALSE]
        /\ Answer("WFB_OK", "none", Forecast(req.row, k))
     \/ IsFuture(k) /\ k > Ahead(req.row.line) /\ Undefined
     \/ /\ k # 0 /\ ~IsFuture(k)
        /\ req' = [req EXCEPT !.pc = "text", !.w = Blank] /\ Answer("blank", "none", 0)
-----------------------------------------------------------------------------
(* What is said of a Weather; a typhoon's wind contains the word wind.      *)
YesIf(condition) == IF condition THEN "yes" ELSE "no"

TextOf(target, w) ==
  CASE w.size = 0 -> ""
    [] target = "TARGET_TEMPERATURE" -> "range"
    [] target = "TARGET_IS_COLD" -> YesIf(w.min < 15)
    [] target = "TARGET_IS_HOT" -> YesIf(w.max > 30)
    [] target = "TARGET_IS_RAINY" -> YesIf("rain" \in w.sky)
    [] target = "TARGET_IS_SNOWY" -> YesIf("snow" \in w.sky)
    [] target = "TARGET_IS_WINDY" -> YesIf(w.sky \cap {"wind", "typhoon"} # {})
    [] target = "TARGET_IS_TYPHOON" -> YesIf("typhoon" \in w.sky)
    [] target = "TARGET_WEATHER" -> "statuses"
    [] OTHER -> ""

GetAnsText(target) ==
  /\ req.pc = "text" /\ target # "TARGET_INDEX" /\ Done
  /\ answer' = [kind |-> TextOf(target, req.w), about |-> target, date |-> req.w.date,
                low |-> req.w.min, high |-> req.w.max]
  /\ UNCHANGED <<fileVars, tables, history, loader, serving>>

(* Up to localtime(); strftime() is to come. *)
FormatDayStr(r) == [r EXCEPT !.pc = "format", !.now = day, !.tm = day]

(* An index question; one with a date gets nothing. *)
AskIndex ==
  /\ req.pc = "text" /\ "TARGET_INDEX" \in Target
  /\ IF req.dated THEN Done /\ Answer("", "TARGET_INDEX", 0)
     ELSE /\ req' = FormatDayStr([Idle EXCEPT !.area = req.area, !.day = req.day])
          /\ UNCHANGED <<fileVars, tables, history, loader, serving, answer>>

(* The entry has to be of the day, and the index asked for (known) in it.   *)
FindIndex(known) ==
  /\ req.pc = "format" /\ ~Writes("indices") /\ Done
  /\ IF req.area \in DOMAIN indices /\ indices[req.area] = req.tm /\ known
     THEN Answer("hint", "TARGET_INDEX", indices[req.area])
     ELSE Answer("", "TARGET_INDEX", 0)

(* The map is being written while it is searched. *)
IndexUndefined == req.pc = "format" /\ Writes("indices") /\ Undefined

ReleaseMessage ==
  /\ req.pc = "release" /\ req' = Idle /\ answer' = Silent
  /\ UNCHANGED <<fileVars, tables, history, loader, serving>>

Ask == \E area \in Area \cup {NoArea}, start \in Start, dated \in BOOLEAN :
          HandleRequest(area, day + start, dated)

Request ==
  \/ FindAreaWeather \/ FindUndefined \/ Fill
  \/ (\E target \in Target : GetAnsText(target))
  \/ AskIndex \/ (\E known \in BOOLEAN : FindIndex(known)) \/ IndexUndefined
  \/ ReleaseMessage

Next == Midnight \/ Fetch \/ LoadData \/ Ask \/ Request

(* The timer fires again and again. *)
Fairness == WF_vars(LoadData)

Spec == Init /\ [][Next]_vars /\ Fairness
-----------------------------------------------------------------------------
LinesTaken == {line \in UNION {{c[k] : k \in DOMAIN c} : c \in Contents} :
                 Usable(line) /\ ~Throws(line)}
RowType == [line : LinesTaken, date : 1..MaxDay,
            slip : {<<>>} \cup ((1..7) \X (1..MaxDay))]
Kinds == {"none", "undefined", "NoSuchArea", "WFB_NO_AREA", "WFB_OK", "blank", "hint",
          "range", "yes", "no", "statuses", ""}
Load == [date : 0..MaxDay, lines : Contents \cup {<<>>}]

(* Type invariant. *)
TypeOK ==
  /\ day \in 1..MaxDay /\ fetches \in 0..MaxFetches
  /\ dat \in Contents \cup {Missing} /\ idx \in IndexFiles \cup {{}}
  /\ real_time \in Seq(RowType) /\ last_time \in Seq(RowType)
  /\ DOMAIN indices \subseteq Area /\ \A area \in DOMAIN indices : indices[area] \in 1..day
  /\ loader \in [pc : {"wait", "copy", "read", "indices"}, date : 0..day,
                 lines : Contents \cup {<<>>}, at : Nat \ {0}]
  /\ serving \in BOOLEAN
  /\ req \in [pc : {"idle", "find", "fill", "text", "format", "release", "lost"},
              area : Area \cup {NoArea}, start : Int, dated : BOOLEAN, day : 0..day,
              fresh : BOOLEAN, row : RowType \cup {NoRow},
              source : {"none", "real_time", "last_time"},
              w : [size : {0, 1}, date : 0..(MaxDay + 7), max : Int, min : Int,
                   sky : SUBSET SkyWords],
              now : 0..day, tm : 0..(MaxDay + 7)]
  /\ answer \in [kind : Kinds, about : Target \cup {"none"}, date : 0..(MaxDay + 7),
                 low : Int, high : Int]
  /\ current \in Load /\ previous \in Load /\ listed \subseteq Area \X (1..day)

(* The rows a load of these lines has to leave: those that have enough      *)
(* fields, before the first short line, whatever their dates slipped to.    *)
BeforeShort(lines) == {k \in DOMAIN lines : \A j \in 1..k : lines[j].fields # 0}

Rows(load) ==
  LET kept == AtPlaces(load.lines, {k \in BeforeShort(load.lines) : Usable(load.lines[k])})
  IN  [k \in DOMAIN kept |-> [line |-> kept[k], date |-> load.date]]

Plain(rows) == [k \in DOMAIN rows |-> [line |-> rows[k].line, date |-> rows[k].date]]

(* Between loads the two tables are the last load's and the one before it,  *)
(* all of each, whatever day they are of; while the new one is read, what   *)
(* was current can be searched already (wqa_busi_handler.cc:446-521).       *)
FallbackIsPreviousLoad ==
  /\ loader.pc \in {"wait", "copy", "indices"} =>
       /\ Plain(real_time) = Rows(current)
       /\ loader.pc = "copy" \/ Plain(last_time) = Rows(previous)
  /\ loader.pc = "read" => Plain(last_time) = Rows(current)

(* Types, and both tables as the loads left them                            *)
(* (wqa_busi_handler.cc:446-521).                                           *)
TablesInv == TypeOK /\ FallbackIsPreviousLoad

(* A question asked when today's file had been loaded, and answered from    *)
(* the current table, gets the day it names, or as many days later as have  *)
(* begun since the days were counted (the table may be replaced in          *)
(* between), unless an index question was being answered while the row was  *)
(* read (wqa_busi_handler.cc:74-75, 388-400 against 446-521, 737).          *)
DatesDriftWithTheClock ==
  [][req.pc = "fill" /\ answer'.kind = "WFB_OK" /\ req.fresh /\ req.source = "real_time"
       /\ (req.row.slip = <<>> \/ req.row.slip[1] # req.start) =>
         /\ req.day + req.start <= answer'.date
         /\ answer'.date <= day + req.start]_vars

(* A hint is of a day since it was asked for, even if the struct tm was     *)
(* overwritten, and is given only on the first day the area had indices: on *)
(* later days the map keeps the old entry and index questions get nothing   *)
(* (wqa_busi_handler.cc:291, 511, 611, 737).                                *)
HintsOfTheFirstDay ==
  [][req.pc = "format" /\ answer'.kind = "hint" =>
       /\ answer'.date \in req.day..day
       /\ \A d \in 1..(answer'.date - 1) : <<req.area, d>> \notin listed]_vars

(* A request goes astray only while a load is under way, or when it asks    *)
(* for a day its row, of a line with fewer than seven, does not have: with  *)
(* full lines and between loads the two unlocked threads and the unchecked  *)
(* index do no harm (wqa_busi_handler.cc:112, 283, 390-412 against 448).    *)
UndefinedForCause ==
  [][answer'.kind = "undefined" /\ answer.kind # "undefined" =>
       \/ loader.pc # "wait"
       \/ req.pc = "fill" /\ req.start \in (Ahead(req.row.line) + 1)..7]_vars

(* Of today, "no" to cold and to hot means what the line says, whichever of *)
(* its two temperatures is the higher; of a day in the past or beyond the   *)
(* week every question is answered as of a day of 0 degrees and clear: cold *)
(* and nothing else (wqa_busi_handler.cc:106-114, 155-254, 481-486).        *)
TextsFitTheDay ==
  [][req.pc = "text" /\ req'.pc = "release" /\ req.row # NoRow =>
       /\ req.start = 0 /\ answer'.kind = "no" =>
            \A k \in 1..2 :
              /\ answer'.about = "TARGET_IS_COLD" => req.row.line.temps[0][k] >= 15
              /\ answer'.about = "TARGET_IS_HOT" => req.row.line.temps[0][k] <= 30
       /\ req.start \notin 0..7 =>
            /\ answer'.kind = "yes" <=> answer'.about = "TARGET_IS_COLD"
            /\ answer'.low = 0 /\ answer'.high = 0]_vars

(* A line before the end of the file that stops the loader.                 *)
Poisoned(lines) == lines # Missing /\ \E k \in BeforeShort(lines) : Throws(lines[k])

(* Today's file gets into the table, after it is fetched and again after    *)
(* each rewriting of it; but one temperature without its '/' keeps the      *)
(* handler down for as long as the file stands, start it as often as one    *)
(* may (wqa_busi_handler.cc:16, 20-21, 418-521).                            *)
TodaysFileIsLoaded ==
  /\ []<>(dat = Missing \/ Poisoned(dat)
            \/ Plain(real_time) = Rows([date |-> day, lines |-> dat]))
  /\ <>[]Poisoned(dat) => <>[]~serving
=============================================================================
