------------------------- MODULE WeatherDataProofs -------------------------
(***************************************************************************)
(* The weather handler, for any areas, files, questions and number of      *)
(* days: its two tables, the dates its answers are of, and what its texts  *)
(* mean.                                                                   *)
(***************************************************************************)
EXTENDS WeatherData, DataLemmas

Weather == [size : {0, 1}, date : 0..(MaxDay + 7), max : Int, min : Int,
            sky : SUBSET SkyWords]
Requests(today) ==
  [pc : {"idle", "find", "fill", "text", "format", "release", "lost"},
   area : Area \cup {NoArea}, start : Int, dated : BOOLEAN, day : 0..today,
   fresh : BOOLEAN, row : RowType \cup {NoRow},
   source : {"none", "real_time", "last_time"}, w : Weather,
   now : 0..today, tm : 0..(MaxDay + 7)]
Answers == [kind : Kinds, about : Target \cup {"none"}, date : 0..(MaxDay + 7),
            low : Int, high : Int]
Loaders(today) == [pc : {"wait", "copy", "read", "indices"}, date : 0..today,
                   lines : Contents \cup {<<>>}, at : Nat \ {0}]

(* The parts of the type invariant. *)
FilesOK ==
  /\ day \in 1..MaxDay /\ fetches \in 0..MaxFetches
  /\ dat \in Contents \cup {Missing} /\ idx \in IndexFiles \cup {{}}
TablesOK ==
  /\ real_time \in Seq(RowType) /\ last_time \in Seq(RowType)
  /\ DOMAIN indices \subseteq Area /\ \A area \in DOMAIN indices : indices[area] \in 1..day
ThreadsOK ==
  /\ loader \in Loaders(day) /\ serving \in BOOLEAN
  /\ req \in Requests(day) /\ answer \in Answers
HistoryOK == current \in Load /\ previous \in Load /\ listed \subseteq Area \X (1..day)

(* A load under way is of its own day, which is today or yesterday; what    *)
(* was loaded before is not of a later day.                                 *)
Underway ==
  /\ loader.pc # "wait" => /\ loader.lines \in Contents
                           /\ loader.date \in 1..day /\ day <= loader.date + 1
                           /\ current.date <= loader.date
  /\ current.date <= day
  /\ loader.pc = "indices" => current.date = loader.date

(* localtime() is called while a date is printed, for the index's question. *)
Printing == req.pc = "format" => req.now \in 1..day /\ "TARGET_INDEX" \in Target

Types == FilesOK /\ TablesOK /\ ThreadsOK /\ HistoryOK /\ Underway /\ Printing
-----------------------------------------------------------------------------
(* Lines, rows and weathers *)

LEMMA ATypeIsItsParts == Types => TypeOK
BY DEF Types, TypeOK, FilesOK, TablesOK, ThreadsOK, HistoryOK, Weather, Requests, Answers,
       Loaders

(* At most seven days ahead. *)
LEMMA AheadIsAWeek == ASSUME NEW line \in Line PROVE Ahead(line) \in 0..7
<1> DEFINE D == {i \in 0..6 : 12 + i * 3 + 2 < line.fields}
<1>1. IsFiniteSet(0..6) /\ Cardinality(0..6) = 7
  <2> DEFINE last == 6
  <2>1. 0 \in Int /\ last \in Int
    OBVIOUS
  <2> HIDE DEF last
  <2>2. IsFiniteSet(0..last) /\ Cardinality(0..last) = IF 0 > last THEN 0 ELSE last - 0 + 1
    BY <2>1, FS_Interval
  <2> QED
    BY <2>2 DEF last
<1>2. IsFiniteSet(D) /\ Cardinality(D) <= 7
  BY <1>1, FS_Subset
<1>3. Cardinality(D) \in Nat
  BY <1>2, FS_CardinalityType
<1> QED
  BY <1>2, <1>3 DEF Ahead

LEMMA ContentsAreLines ==
  ASSUME NEW c \in Contents
  PROVE  c \in Seq(Line) /\ \A k \in DOMAIN c : c[k] \in Line
BY WeatherDataAssumption

LEMMA TakenAreLines == LinesTaken \subseteq {line \in Line : Usable(line) /\ ~Throws(line)}
BY ContentsAreLines DEF LinesTaken

(* The weather of a day the row has. *)
LEMMA FilledWeather ==
  ASSUME NEW r \in RowType, NEW k \in 0..7, k <= Ahead(r.line)
  PROVE  FillPB(r, k) \in Weather
<1>1. r.line \in Line /\ Usable(r.line) /\ ~Throws(r.line)
  BY TakenAreLines DEF RowType
<1>2. r.line.temps[k] \in Int \X Int
  <2>1. r.line.temps[k] \in {<<>>} \cup (Int \X Int) /\ r.line.temps[0] # <<>>
    BY <1>1 DEF Line
  <2>2. k # 0 => k \in 1..Ahead(r.line)
    BY <1>1, AheadIsAWeek
  <2> QED
    BY <1>1, <2>1, <2>2 DEF Throws
<1>3. Ordered(r.line.temps[k], k) \in Int \X Int
  BY <1>2 DEF Ordered
<1>4. Forecast(r, k) \in 0..(MaxDay + 7)
  BY WeatherDataAssumption DEF Forecast, RowType
<1>5. r.line.sky[k] \in SUBSET SkyWords
  BY <1>1 DEF Line
<1> QED
  BY <1>3, <1>4, <1>5 DEF FillPB, Weather
-----------------------------------------------------------------------------
(* Types *)

LEMMA IdleTypes ==
  ASSUME NEW today \in Nat
  PROVE  /\ Unmatched \in Weather /\ Blank \in Weather /\ Idle \in Requests(today)
         /\ Silent \in Answers
<1>1. 0 \in 0..(MaxDay + 7) /\ 0 \in 0..today
  BY WeatherDataAssumption
<1>2. Unmatched \in Weather /\ Blank \in Weather
  BY <1>1 DEF Unmatched, Blank, Weather
<1>3. Idle \in Requests(today)
  BY <1>1, <1>2 DEF Idle, Requests
<1>4. Silent \in Answers
  BY <1>1 DEF Silent, Answers, Kinds
<1> QED
  BY <1>2, <1>3, <1>4

LEMMA DayTypes ==
  ASSUME Types
  PROVE  /\ MaxDay \in Nat \ {0} /\ day \in 1..MaxDay /\ day \in Nat
         /\ loader.pc # "wait" => loader.date \in 1..MaxDay
         /\ req.pc = "format" => req.now \in 1..MaxDay
<1>1. MaxDay \in Nat \ {0} /\ day \in 1..MaxDay
  BY WeatherDataAssumption DEF Types, FilesOK
<1> QED
  BY <1>1 DEF Types, Underway, Printing

LEMMA InitTypes == Init => Types
<1> SUFFICES ASSUME Init PROVE Types
  OBVIOUS
<1>1. FilesOK /\ TablesOK /\ HistoryOK
  BY WeatherDataAssumption DEF Init, FilesOK, TablesOK, HistoryOK, NoLoad, Load
<1>2. ThreadsOK
  <2>1. day = 1 /\ serving = FALSE
    BY DEF Init
  <2>2. loader \in Loaders(day)
    BY <2>1 DEF Init, Waiting, Loaders
  <2> QED
    BY <2>1, <2>2, IdleTypes DEF Init, ThreadsOK
<1>3. Underway /\ Printing
  BY WeatherDataAssumption DEF Init, Underway, Printing, Waiting, Idle, NoLoad
<1> QED
  BY <1>1, <1>2, <1>3 DEF Types

(* The request may have got a new date from the loader's localtime().       *)
LEMMA OverwriteTypes ==
  ASSUME Types, NEW dates, dates \subseteq 0..(MaxDay + 7), Overwrite(dates)
  PROVE  /\ req' \in Requests(day)
         /\ req' \in {req} \cup {[req EXCEPT !.tm = d] : d \in dates}
         /\ req' # req => req.pc = "format"
BY DEF Types, ThreadsOK, Overwrite, Requests

LEMMA MidnightTypes == Types /\ Midnight => Types'
<1> SUFFICES ASSUME Types, Midnight PROVE Types'
  OBVIOUS
<1>1. day \in 1..MaxDay /\ day' = day + 1 /\ day' \in 1..MaxDay
  BY WeatherDataAssumption DEF Types, FilesOK, Midnight
<1>2. FilesOK' /\ TablesOK' /\ HistoryOK'
  BY <1>1 DEF Types, FilesOK, TablesOK, HistoryOK, Midnight, tables, history
<1>3. ThreadsOK'
  <2>1. 0..day \subseteq 0..day'
    BY <1>1
  <2>2. loader \in Loaders(day)'
    BY <2>1 DEF Types, ThreadsOK, Loaders
  <2>3. req \in Requests(day)'
    BY <2>1 DEF Types, ThreadsOK, Requests
  <2> QED
    BY <2>2, <2>3 DEF Types, ThreadsOK, Midnight
<1>4. Underway' /\ Printing'
  BY <1>1 DEF Types, ThreadsOK, Loaders, Requests, HistoryOK, Load, Underway, Printing,
              Midnight, history
<1> QED
  BY <1>2, <1>3, <1>4 DEF Types

LEMMA FetchTypes == Types /\ Fetch => Types'
<1> SUFFICES ASSUME Types, Fetch PROVE Types'
  OBVIOUS
<1>1. FilesOK' /\ TablesOK' /\ HistoryOK'
  BY WeatherDataAssumption
     DEF Types, FilesOK, TablesOK, HistoryOK, Fetch, tables, history
<1>2. ThreadsOK' /\ Underway' /\ Printing'
  BY DEF Types, ThreadsOK, Underway, Printing, Fetch, history
<1> QED
  BY <1>1, <1>2 DEF Types

LEMMA NoDataTypes == Types /\ NoData => Types'
BY DEF Types, FilesOK, TablesOK, HistoryOK, ThreadsOK, Underway, Printing, NoData,
       fileVars, tables, history

LEMMA OpenDataTypes == Types /\ OpenData => Types'
<1> SUFFICES ASSUME Types, OpenData PROVE Types'
  OBVIOUS
<1>1. FilesOK' /\ TablesOK' /\ HistoryOK'
  BY DEF Types, FilesOK, TablesOK, HistoryOK, OpenData, fileVars, tables, history
<1>2. /\ req' \in Requests(day)
      /\ req' \in {req} \cup {[req EXCEPT !.tm = d] : d \in {day}}
  <2>1. {day} \subseteq 0..(MaxDay + 7)
    BY WeatherDataAssumption DEF Types, FilesOK
  <2> QED
    BY <2>1, OverwriteTypes DEF OpenData
<1>3. loader' \in Loaders(day) /\ loader'.lines \in Contents /\ loader'.date = day
  BY DEF Types, FilesOK, Loaders, OpenData
<1>4. ThreadsOK'
  BY <1>2, <1>3 DEF Types, ThreadsOK, OpenData, fileVars
<1>5. Underway'
  BY <1>3 DEF Types, FilesOK, HistoryOK, Load, Underway, OpenData, fileVars, history
<1>6. Printing'
  BY <1>2 DEF Types, ThreadsOK, Requests, Printing, OpenData, fileVars
<1> QED
  BY <1>1, <1>4, <1>5, <1>6 DEF Types

LEMMA CopyAndClearTypes == Types /\ CopyAndClear => Types'
<1> SUFFICES ASSUME Types, CopyAndClear PROVE Types'
  OBVIOUS
<1>1. FilesOK' /\ TablesOK' /\ HistoryOK'
  BY DEF Types, FilesOK, TablesOK, HistoryOK, CopyAndClear, Copied, fileVars, history
<1>2. loader' \in Loaders(day) /\ loader' = [loader EXCEPT !.pc = "read"]
  BY DEF Types, ThreadsOK, Loaders, CopyAndClear
<1>3. ThreadsOK' /\ Printing'
  BY <1>2 DEF Types, ThreadsOK, Printing, CopyAndClear, fileVars
<1>4. Underway'
  BY <1>2 DEF Types, ThreadsOK, Loaders, Underway, CopyAndClear, fileVars, history
<1> QED
  BY <1>1, <1>3, <1>4 DEF Types

(* The line in hand is one of the file's. *)
LEMMA TheLine ==
  ASSUME Types, loader.pc = "read", HasLine
  PROVE  /\ loader.at \in DOMAIN loader.lines
         /\ loader.lines[loader.at] \in Line
         /\ ~Throws(loader.lines[loader.at]) /\ Usable(loader.lines[loader.at]) =>
              loader.lines[loader.at] \in LinesTaken
<1>1. loader.lines \in Contents /\ loader.at \in Nat \ {0}
  BY DEF Types, ThreadsOK, Loaders, Underway
<1>2. loader.lines \in Seq(Line)
  BY <1>1, ContentsAreLines
<1>3. loader.at \in DOMAIN loader.lines
  BY <1>1, <1>2 DEF HasLine
<1> QED
  BY <1>1, <1>2, <1>3 DEF LinesTaken

LEMMA RowsOfTypes ==
  ASSUME Types, NEW line \in LinesTaken, NEW r \in RowsOf(line, loader.date),
         loader.pc = "read"
  PROVE  r \in RowType /\ r.line = line /\ r.date = loader.date
<1>1. loader.date \in 1..MaxDay
  BY DayTypes
<1>2. Ahead(line) \in 0..7
  BY TakenAreLines, AheadIsAWeek
<1>3. r.slip \in {<<>>} \cup ((1..7) \X (1..MaxDay))
  <2>1. req.pc = "format" => req.now \in 1..MaxDay
    BY DayTypes
  <2> QED
    BY <1>2, <2>1 DEF RowsOf
<1> QED
  BY <1>1, <1>3 DEF RowsOf, RowType

LEMMA LoadAreaTypes == Types /\ LoadArea => Types'
<1> SUFFICES ASSUME Types, LoadArea PROVE Types'
  OBVIOUS
<1> DEFINE line == loader.lines[loader.at]
<1>1. line \in Line /\ ~Throws(line) /\ (Usable(line) => line \in LinesTaken)
  BY TheLine DEF LoadArea
<1> HIDE DEF line
<1>2. loader.pc = "read" /\ loader.date \in 1..MaxDay /\ loader' = [loader EXCEPT !.at = @ + 1]
  BY DayTypes DEF LoadArea
<1>3. real_time' \in Seq(RowType)
  <2>1. CASE Usable(line)
    <3>1. PICK r \in RowsOf(line, loader.date) : real_time' = Append(real_time, r)
      BY <2>1 DEF LoadArea, line
    <3>2. r \in RowType
      BY <1>1, <1>2, <2>1, RowsOfTypes
    <3> QED
      BY <3>1, <3>2 DEF Types, TablesOK
  <2>2. CASE ~Usable(line)
    BY <2>2 DEF LoadArea, line, Types, TablesOK
  <2> QED
    BY <2>1, <2>2
<1>4. req' \in Requests(day) /\ (req'.pc = "format" => req.pc = "format" /\ req'.now = req.now)
  <2>1. CASE Usable(line)
    <3> DEFINE D == {loader.date + k : k \in 1..Ahead(line)}
    <3>1. D \subseteq 0..(MaxDay + 7)
      BY <1>1, <1>2, AheadIsAWeek, WeatherDataAssumption
    <3>2. Overwrite(D)
      BY <2>1 DEF LoadArea, line
    <3> HIDE DEF D
    <3>3. req' \in Requests(day) /\ req' \in {req} \cup {[req EXCEPT !.tm = d] : d \in D}
      BY <3>1, <3>2, OverwriteTypes
    <3> QED
      BY <3>3 DEF Types, ThreadsOK, Requests
  <2>2. CASE ~Usable(line)
    BY <2>2 DEF LoadArea, line, Types, ThreadsOK
  <2> QED
    BY <2>1, <2>2
<1>5. loader' \in Loaders(day)
  BY <1>2 DEF Types, ThreadsOK, Loaders
<1>6. FilesOK' /\ TablesOK' /\ HistoryOK'
  BY <1>3 DEF Types, FilesOK, TablesOK, HistoryOK, LoadArea, fileVars, history
<1>7. ThreadsOK' /\ Printing'
  BY <1>4, <1>5 DEF Types, ThreadsOK, Printing, LoadArea, fileVars
<1>8. Underway'
  BY <1>2 DEF Types, ThreadsOK, Loaders, Underway, LoadArea, fileVars, history
<1> QED
  BY <1>6, <1>7, <1>8 DEF Types

LEMMA DieTypes == Types /\ Die => Types'
<1> SUFFICES ASSUME Types, Die PROVE Types'
  OBVIOUS
<1>1. FilesOK' /\ TablesOK' /\ HistoryOK'
  BY WeatherDataAssumption
     DEF Types, FilesOK, TablesOK, HistoryOK, Die, NewProcess, NoLoad, Load, fileVars
<1>2. ThreadsOK'
  <2>1. day' = day /\ day \in Nat
    BY DayTypes DEF Die, fileVars
  <2>2. loader' \in Loaders(day)
    BY <2>1 DEF Die, NewProcess, Waiting, Loaders
  <2> QED
    BY <2>1, <2>2, IdleTypes DEF Die, NewProcess, ThreadsOK
<1>3. Underway' /\ Printing'
  BY DEF Types, FilesOK, Die, NewProcess, Underway, Printing, Waiting, Idle, NoLoad, fileVars
<1> QED
  BY <1>1, <1>2, <1>3 DEF Types

LEMMA EndOfDataTypes == Types /\ EndOfData => Types'
<1> SUFFICES ASSUME Types, EndOfData PROVE Types'
  OBVIOUS
<1>1. /\ loader \in Loaders(day) /\ loader.lines \in Contents /\ loader.date \in 1..day
      /\ day \in 1..MaxDay /\ loader' = [loader EXCEPT !.pc = "indices"] /\ day' = day
      /\ MaxDay \in Nat /\ current' = [date |-> loader.date, lines |-> loader.lines]
  BY DayTypes DEF Types, FilesOK, ThreadsOK, Underway, EndOfData, fileVars
<1>2. current' \in Load
  BY <1>1 DEF Load
<1>3. FilesOK' /\ TablesOK' /\ HistoryOK'
  BY <1>2 DEF Types, FilesOK, TablesOK, HistoryOK, EndOfData, fileVars, tables
<1>4. loader' \in Loaders(day)
  BY <1>1 DEF Loaders
<1>5. ThreadsOK' /\ Printing'
  BY <1>1, <1>4 DEF Types, ThreadsOK, Printing, EndOfData
<1>6. Underway'
  BY <1>1 DEF Types, Underway, Loaders, EndOfData
<1> QED
  BY <1>3, <1>5, <1>6 DEF Types

LEMMA LoadIndicesTypes == Types /\ LoadIndices => Types'
<1> SUFFICES ASSUME Types, LoadIndices PROVE Types'
  OBVIOUS
<1>1. day \in 1..MaxDay /\ idx \subseteq Area /\ day' = day
  BY WeatherDataAssumption DEF Types, FilesOK, LoadIndices, fileVars
<1>2. FilesOK' /\ TablesOK'
  BY <1>1 DEF Types, FilesOK, TablesOK, LoadIndices, Insert, fileVars
<1>3. HistoryOK'
  BY <1>1 DEF Types, HistoryOK, LoadIndices
<1>4. /\ req' \in Requests(day)
      /\ req' \in {req} \cup {[req EXCEPT !.tm = d] : d \in {day}}
  <2>1. {day} \subseteq 0..(MaxDay + 7)
    BY <1>1, WeatherDataAssumption
  <2> QED
    BY <2>1, OverwriteTypes DEF LoadIndices
<1>5. loader' \in Loaders(day)
  BY <1>1 DEF LoadIndices, Loaders, Waiting
<1>6. ThreadsOK'
  BY <1>1, <1>4, <1>5 DEF Types, ThreadsOK, LoadIndices
<1>7. Underway' /\ Printing'
  BY <1>1, <1>4 DEF Types, ThreadsOK, Requests, Underway, Printing, LoadIndices, Waiting
<1> QED
  BY <1>2, <1>3, <1>6, <1>7 DEF Types

LEMMA AnswerTypes ==
  ASSUME Types, NEW kind \in Kinds, NEW about \in Target \cup {"none"},
         NEW date \in 0..(MaxDay + 7), Answer(kind, about, date)
  PROVE  answer' \in Answers
<1>1. Silent \in Answers
  BY DayTypes, IdleTypes
<1> QED
  BY <1>1 DEF Answer, Answers

(* Most answers are of no date. *)
LEMMA UndatedTypes ==
  ASSUME Types, NEW kind \in Kinds, NEW about \in Target \cup {"none"},
         Answer(kind, about, 0)
  PROVE  answer' \in Answers
<1>1. 0 \in 0..(MaxDay + 7)
  BY DayTypes
<1> QED
  BY <1>1, AnswerTypes

LEMMA DoneTypes ==
  ASSUME Types
  PROVE  /\ [Idle EXCEPT !.pc = "release"] \in Requests(day)
         /\ [Idle EXCEPT !.pc = "lost"] \in Requests(day)
BY DayTypes, IdleTypes DEF Requests

(* What a step of the request's thread leaves alone. *)
LEMMA RequestTypes ==
  ASSUME Types, UNCHANGED <<fileVars, tables, history, loader, serving>>,
         req' \in Requests(day), answer' \in Answers, req'.pc # "format"
  PROVE  Types'
BY DEF Types, FilesOK, TablesOK, HistoryOK, ThreadsOK, Underway, Printing, fileVars, tables,
       history

LEMMA HandleRequestTypes ==
  ASSUME Types, NEW area \in Area \cup {NoArea}, NEW start \in Int, NEW dated \in BOOLEAN,
         HandleRequest(area, day + start, dated)
  PROVE  Types'
<1> DEFINE asked == IF area = NoArea THEN m_default_area ELSE area
           r == [Idle EXCEPT !.area = asked, !.start = start, !.dated = dated, !.day = day,
                             !.fresh = current.date = day]
<1>1. asked \in Area \cup {NoArea} /\ day \in Nat /\ compareNowDays(day + start) = start
  BY DayTypes, WeatherDataAssumption DEF compareNowDays
<1>2. r \in Requests(day)
  <2>1. (current.date = day) \in BOOLEAN
    OBVIOUS
  <2>2. Idle \in Requests(day) /\ day \in 0..day
    BY <1>1, IdleTypes
  <2> HIDE DEF asked
  <2> QED
    BY <1>1, <2>1, <2>2 DEF Requests
<1>3. CASE asked = NoArea
  <2>1. req' = [r EXCEPT !.pc = "text"] /\ Answer("WFB_NO_AREA", "none", 0)
    BY <1>1, <1>3 DEF HandleRequest
  <2> HIDE DEF r
  <2>2. req' \in Requests(day) /\ req'.pc # "format"
    BY <1>2, <2>1 DEF Requests
  <2>3. answer' \in Answers
    BY <2>1, UndatedTypes DEF Kinds
  <2> QED
    BY <2>1, <2>2, <2>3, RequestTypes DEF Answer
<1>4. CASE asked # NoArea
  <2>1. req' = [r EXCEPT !.pc = "find", !.source = "real_time"] /\ Answer("none", "none", 0)
    BY <1>1, <1>4 DEF HandleRequest
  <2> HIDE DEF r
  <2>2. req' \in Requests(day) /\ req'.pc # "format"
    BY <1>2, <2>1 DEF Requests
  <2>3. answer' \in Answers
    BY <2>1, UndatedTypes DEF Kinds
  <2> QED
    BY <2>1, <2>2, <2>3, RequestTypes DEF Answer
<1> QED
  BY <1>3, <1>4

(* What First finds is a row of the table, or none. *)
LEMMA FirstIsARow ==
  ASSUME Types, NEW rows \in Seq(RowType)
  PROVE  First(rows) = NoRow \/ \E k \in DOMAIN rows : First(rows) = rows[k] /\ rows[k] \in RowType
<1> DEFINE hits == {k \in DOMAIN rows : Matches(rows[k])}
<1>1. SUFFICES ASSUME hits # {}
               PROVE  \E k \in hits : \A j \in hits : k <= j
  BY DEF First
<1>2. hits \in SUBSET Nat
  OBVIOUS
<1> HIDE DEF hits
<1> QED
  BY <1>1, <1>2, LeastNumber

LEMMA FindAreaWeatherTypes == Types /\ FindAreaWeather => Types'
<1> SUFFICES ASSUME Types, FindAreaWeather PROVE Types'
  OBVIOUS
<1>1. Table \in Seq(RowType) /\ req \in Requests(day)
  BY DEF Types, TablesOK, ThreadsOK, Table
<1>2. First(Table) \in RowType \cup {NoRow}
  BY <1>1, FirstIsARow
<1>3. req' \in Requests(day) /\ req'.pc # "format"
  <2> DEFINE r == First(Table)
  <2>1. CASE req' = [req EXCEPT !.pc = "fill", !.row = r]
    BY <1>1, <1>2, <2>1 DEF Requests
  <2>2. CASE req' = [req EXCEPT !.source = "last_time"]
    BY <1>1, <2>2 DEF Requests, FindAreaWeather
  <2>3. CASE Done
    BY <2>3, DoneTypes DEF Done, Idle
  <2> QED
    BY <2>1, <2>2, <2>3 DEF FindAreaWeather
<1>4. answer' \in Answers
  BY UndatedTypes DEF Kinds, FindAreaWeather
<1> QED
  BY <1>3, <1>4, RequestTypes DEF FindAreaWeather, Answer

LEMMA UndefinedTypes ==
  ASSUME Types, Undefined
  PROVE  req' \in Requests(day) /\ req'.pc # "format" /\ answer' \in Answers
<1>1. req' \in Requests(day) /\ req'.pc # "format"
  BY DoneTypes DEF Undefined, Done, Idle
<1>2. answer' \in Answers
  BY UndatedTypes DEF Kinds, Undefined
<1> QED
  BY <1>1, <1>2

LEMMA FindUndefinedTypes == Types /\ FindUndefined => Types'
<1> SUFFICES ASSUME Types, FindUndefined PROVE Types'
  OBVIOUS
<1>1. CASE Undefined
  BY <1>1, UndefinedTypes, RequestTypes DEF Undefined, Answer
<1>2. CASE ~Undefined
  <2>1. req' = [req EXCEPT !.source = "last_time"] /\ Answer("none", "none", 0)
        /\ req.pc = "find"
    BY <1>2 DEF FindUndefined
  <2>2. req' \in Requests(day) /\ req'.pc # "format"
    BY <2>1 DEF Types, ThreadsOK, Requests
  <2>3. answer' \in Answers
    BY <2>1, UndatedTypes DEF Kinds
  <2> QED
    BY <2>1, <2>2, <2>3, RequestTypes DEF Answer
<1> QED
  BY <1>1, <1>2

LEMMA FillTypes ==
  ASSUME Types, Fill, req.row # NoRow
  PROVE  Types'
<1> DEFINE k == req.start
<1>1. req \in Requests(day) /\ req.row \in RowType /\ k \in Int
  BY DEF Types, ThreadsOK, Requests
<1>2. CASE /\ k = 0 \/ (IsFuture(k) /\ k <= Ahead(req.row.line))
           /\ req' = [req EXCEPT !.pc = "text", !.w = FillPB(req.row, k),
                                 !.source = "none", !.fresh = FALSE]
           /\ Answer("WFB_OK", "none", Forecast(req.row, k))
  <2>1. k \in 0..7 /\ k <= Ahead(req.row.line)
    <3>1. Ahead(req.row.line) \in 0..7
      BY <1>1, TakenAreLines, AheadIsAWeek DEF RowType
    <3> QED
      BY <1>1, <1>2, <3>1 DEF IsFuture
  <2>2. FillPB(req.row, k) \in Weather
    BY <1>1, <2>1, FilledWeather
  <2>3. req' \in Requests(day) /\ req'.pc # "format"
    BY <1>1, <1>2, <2>2 DEF Requests
  <2>4. Forecast(req.row, k) \in 0..(MaxDay + 7)
    BY <2>2 DEF FillPB, Weather
  <2>5. answer' \in Answers
    BY <1>2, <2>4, AnswerTypes DEF Kinds
  <2> QED
    BY <1>2, <2>3, <2>5, RequestTypes DEF Answer
<1>3. CASE Undefined
  BY <1>3, UndefinedTypes, RequestTypes DEF Undefined, Answer
<1>4. CASE req' = [req EXCEPT !.pc = "text", !.w = Blank] /\ Answer("blank", "none", 0)
  <2>1. req' \in Requests(day) /\ req'.pc # "format"
    BY <1>1, <1>4, DayTypes, IdleTypes DEF Requests
  <2>2. answer' \in Answers
    BY <1>4, UndatedTypes DEF Kinds
  <2> QED
    BY <1>4, <2>1, <2>2, RequestTypes DEF Answer
<1> QED
  BY <1>2, <1>3, <1>4 DEF Fill

LEMMA TextIsAKind == ASSUME NEW target, NEW w PROVE TextOf(target, w) \in Kinds
BY DEF TextOf, YesIf, Kinds

LEMMA GetAnsTextTypes ==
  ASSUME Types, NEW target \in Target, GetAnsText(target)
  PROVE  Types'
<1>1. req' \in Requests(day) /\ req'.pc # "format"
  BY DoneTypes DEF GetAnsText, Done, Idle
<1>2. req.w \in Weather
  BY DEF Types, ThreadsOK, Requests
<1>3. answer' \in Answers
  BY <1>2, TextIsAKind DEF GetAnsText, Answers, Weather
<1> QED
  BY <1>1, <1>3, RequestTypes DEF GetAnsText

LEMMA AskIndexTypes == Types /\ AskIndex => Types'
<1> SUFFICES ASSUME Types, AskIndex PROVE Types'
  OBVIOUS
<1>1. CASE req.dated
  <2>1. req' \in Requests(day) /\ req'.pc # "format"
    BY <1>1, DoneTypes DEF AskIndex, Done, Idle
  <2>2. answer' \in Answers
    BY <1>1, UndatedTypes DEF Kinds, AskIndex
  <2> QED
    BY <1>1, <2>1, <2>2, RequestTypes DEF AskIndex, Answer
<1>2. CASE ~req.dated
  <2> DEFINE r == [Idle EXCEPT !.area = req.area, !.day = req.day]
  <2>1. /\ day \in 1..day /\ day \in 0..day /\ day \in 0..(MaxDay + 7)
        /\ Idle \in Requests(day) /\ req \in Requests(day)
    BY DayTypes, IdleTypes DEF Types, ThreadsOK
  <2>2. r \in Requests(day)
    BY <2>1 DEF Requests
  <2>3. req' = [r EXCEPT !.pc = "format", !.now = day, !.tm = day]
    BY <1>2 DEF AskIndex, FormatDayStr
  <2> HIDE DEF r
  <2>4. req' \in Requests(day) /\ req'.now = day
    BY <2>1, <2>2, <2>3 DEF Requests
  <2>5. Printing'
    BY <1>2, <2>1, <2>4 DEF Printing, AskIndex, fileVars
  <2> QED
    BY <1>2, <2>4, <2>5
       DEF AskIndex, Types, FilesOK, TablesOK, HistoryOK, ThreadsOK, Underway, fileVars, tables,
           history
<1> QED
  BY <1>1, <1>2

LEMMA FindIndexTypes ==
  ASSUME Types, NEW known \in BOOLEAN, FindIndex(known)
  PROVE  Types'
<1>1. req' \in Requests(day) /\ req'.pc # "format"
  BY DoneTypes DEF FindIndex, Done, Idle
<1>2. "TARGET_INDEX" \in Target /\ MaxDay \in Nat /\ req \in Requests(day)
  BY DayTypes DEF Types, ThreadsOK, Printing, FindIndex
<1>3. answer' \in Answers
  <2>1. CASE Answer("hint", "TARGET_INDEX", indices[req.area]) /\ indices[req.area] = req.tm
    <3>1. indices[req.area] \in 0..(MaxDay + 7)
      BY <1>2, <2>1 DEF Requests
    <3> QED
      BY <1>2, <2>1, <3>1, AnswerTypes DEF Kinds
  <2>2. CASE Answer("", "TARGET_INDEX", 0)
    BY <1>2, <2>2, UndatedTypes DEF Kinds
  <2> QED
    BY <2>1, <2>2 DEF FindIndex
<1> QED
  BY <1>1, <1>3, RequestTypes DEF FindIndex, Answer

LEMMA IndexUndefinedTypes == Types /\ IndexUndefined => Types'
BY UndefinedTypes, RequestTypes DEF IndexUndefined, Undefined, Answer

LEMMA ReleaseMessageTypes == Types /\ ReleaseMessage => Types'
<1> SUFFICES ASSUME Types, ReleaseMessage PROVE Types'
  OBVIOUS
<1>1. req' \in Requests(day) /\ req'.pc # "format" /\ answer' \in Answers
  BY DayTypes, IdleTypes DEF ReleaseMessage, Idle
<1> QED
  BY <1>1, RequestTypes DEF ReleaseMessage
-----------------------------------------------------------------------------
(* The request *)

(* Where a request is, what it holds and what it has got belong together.   *)
Stages ==
  /\ req.pc \in {"find", "fill"} => answer.kind = "none"
  /\ req.pc \in {"text", "format"} => answer.kind \in {"WFB_OK", "blank", "WFB_NO_AREA"}
  /\ req.pc \notin {"fill", "text"} => req.row = NoRow
  /\ req.pc = "fill" => req.row # NoRow
  /\ req.pc = "text" /\ req.row # NoRow =>
       /\ req.start = 0 => req.w = FillPB(req.row, 0)
       /\ req.start \notin 0..7 => req.w = Blank

LEMMA InitStages == Init => Stages
BY DEF Init, Idle, Stages

LEMMA FillStages == ASSUME Types, Stages, Fill PROVE Stages'
<1> DEFINE k == req.start
<1>1. req \in Requests(day) /\ k \in Int /\ req.row # NoRow
  BY DEF Types, ThreadsOK, Requests, Stages, Fill
<1>2. CASE /\ k = 0 \/ (IsFuture(k) /\ k <= Ahead(req.row.line))
           /\ req' = [req EXCEPT !.pc = "text", !.w = FillPB(req.row, k),
                                 !.source = "none", !.fresh = FALSE]
           /\ Answer("WFB_OK", "none", Forecast(req.row, k))
  <2>1. /\ req'.pc = "text" /\ req'.start = k /\ req'.row = req.row
        /\ req'.w = FillPB(req.row, k) /\ answer'.kind = "WFB_OK"
    BY <1>1, <1>2 DEF Requests, Answer, Silent
  <2>2. k \in 0..7
    BY <1>1, <1>2 DEF IsFuture
  <2> QED
    BY <2>1, <2>2 DEF Stages, FillPB, Ordered, Forecast
<1>3. CASE Undefined
  BY <1>3 DEF Undefined, Done, Idle, Stages
<1>4. CASE /\ k # 0 /\ req' = [req EXCEPT !.pc = "text", !.w = Blank]
           /\ Answer("blank", "none", 0)
  <2>1. /\ req'.pc = "text" /\ req'.start = k /\ req'.w = Blank /\ answer'.kind = "blank"
    BY <1>1, <1>4 DEF Requests, Answer, Silent
  <2> QED
    BY <1>4, <2>1 DEF Stages
<1> QED
  BY <1>2, <1>3, <1>4 DEF Fill

LEMMA RequestStages == ASSUME Types, Stages, Ask \/ Request PROVE Stages'
<1> USE DEF Stages
<1>1. req \in Requests(day)
  BY DEF Types, ThreadsOK
<1>2. ASSUME NEW area \in Area \cup {NoArea}, NEW start \in Start, NEW dated \in BOOLEAN,
             HandleRequest(area, day + start, dated)
      PROVE  Stages'
  <2> DEFINE asked == IF area = NoArea THEN m_default_area ELSE area
             days == compareNowDays(day + start)
             r == [Idle EXCEPT !.area = asked, !.start = days, !.dated = dated,
                               !.day = day, !.fresh = current.date = day]
  <2>1. r.row = NoRow
    BY DEF Idle
  <2>2. \/ /\ req' = [r EXCEPT !.pc = "text"]
           /\ answer' = [Silent EXCEPT !.kind = "WFB_NO_AREA", !.about = "none", !.date = 0]
        \/ /\ req' = [r EXCEPT !.pc = "find", !.source = "real_time"]
           /\ answer' = [Silent EXCEPT !.kind = "none", !.about = "none", !.date = 0]
    BY <1>2 DEF HandleRequest, Answer
  <2>3. req'.row = NoRow /\ req'.pc \in {"text", "find"}
        /\ answer'.kind = IF req'.pc = "text" THEN "WFB_NO_AREA" ELSE "none"
    BY <2>1, <2>2 DEF Idle, Silent
  <2> QED
    BY <2>3
<1>3. CASE FindAreaWeather
  <2> DEFINE r == First(Table)
  <2>1. CASE r # NoRow /\ req' = [req EXCEPT !.pc = "fill", !.row = r]
             /\ Answer("none", "none", 0)
    <3>1. req'.pc = "fill" /\ req'.row # NoRow /\ answer'.kind = "none"
      BY <1>1, <2>1 DEF Answer, Silent, Requests
    <3> QED
      BY <3>1
  <2>2. CASE req' = [req EXCEPT !.source = "last_time"] /\ Answer("none", "none", 0)
    <3>1. /\ req.pc = "find" /\ req'.pc = "find" /\ req'.row = req.row
          /\ answer'.kind = "none"
      BY <1>1, <1>3, <2>2 DEF FindAreaWeather, Answer, Silent, Requests
    <3> QED
      BY <3>1
  <2>3. CASE Done
    BY <2>3 DEF Done, Idle
  <2> QED
    BY <1>3, <2>1, <2>2, <2>3 DEF FindAreaWeather
<1>4. CASE FindUndefined
  <2>1. CASE Undefined
    BY <2>1 DEF Undefined, Done, Idle
  <2>2. CASE ~Undefined
    <3>1. /\ req.pc = "find" /\ req'.pc = "find" /\ req'.row = req.row
          /\ answer'.kind = "none"
      BY <1>1, <1>4, <2>2 DEF FindUndefined, Answer, Silent, Requests
    <3> QED
      BY <3>1
  <2> QED
    BY <2>1, <2>2
<1>5. CASE Fill
  BY <1>5, FillStages
<1>6. ASSUME NEW target \in Target, GetAnsText(target) PROVE Stages'
  BY <1>6 DEF GetAnsText, Done, Idle
<1>7. CASE AskIndex
  <2>1. CASE req.dated
    BY <1>7, <2>1 DEF AskIndex, Done, Idle
  <2>2. CASE ~req.dated
    <3>1. req'.row = NoRow /\ req'.pc = "format" /\ answer' = answer
      BY <1>7, <2>2 DEF AskIndex, FormatDayStr, Idle
    <3>2. req.pc = "text"
      BY <1>7 DEF AskIndex
    <3> QED
      BY <3>1, <3>2
  <2> QED
    BY <2>1, <2>2
<1>8. ASSUME NEW known \in BOOLEAN, FindIndex(known) PROVE Stages'
  BY <1>8 DEF FindIndex, Done, Idle
<1>9. CASE IndexUndefined
  BY <1>9 DEF IndexUndefined, Undefined, Done, Idle
<1>10. CASE ReleaseMessage
  BY <1>10 DEF ReleaseMessage, Idle
<1> QED
  BY <1>2, <1>3, <1>4, <1>5, <1>6, <1>7, <1>8, <1>9, <1>10 DEF Ask, Request

(* What the clock, the files and the loader may do to a request.            *)
LEMMA OthersLeaveTheRequest ==
  ASSUME Types, Midnight \/ Fetch \/ LoadData
  PROVE  \/ req' = Idle /\ answer' = Silent /\ Die
         \/ req' = req /\ answer' = answer
         \/ /\ req.pc = "format" /\ answer' = answer
            /\ \E d \in Nat : d >= day /\ req' = [req EXCEPT !.tm = d]
<1>1. CASE Midnight \/ Fetch \/ NoData \/ CopyAndClear \/ EndOfData
  BY <1>1 DEF Midnight, Fetch, NoData, CopyAndClear, EndOfData
<1>2. CASE OpenData \/ LoadIndices
  BY <1>2, DayTypes DEF OpenData, LoadIndices, Overwrite
<1>3. CASE LoadArea
  <2> DEFINE line == loader.lines[loader.at]
  <2>1. CASE Usable(line)
    <3>1. /\ loader.date \in Nat /\ day <= loader.date + 1 /\ day \in Nat
          /\ Ahead(line) \in 0..7
      BY <1>3, DayTypes, TheLine, AheadIsAWeek DEF Types, Underway, LoadArea
    <3>2. Overwrite({loader.date + k : k \in 1..Ahead(line)}) /\ answer' = answer
      BY <1>3, <2>1 DEF LoadArea
    <3>3. \A k \in 1..Ahead(line) : loader.date + k \in Nat /\ loader.date + k >= day
      BY <3>1
    <3> HIDE DEF line
    <3> QED
      BY <3>2, <3>3 DEF Overwrite
  <2>2. CASE ~Usable(line)
    BY <1>3, <2>2 DEF LoadArea
  <2> QED
    BY <2>1, <2>2
<1>4. CASE Die
  BY <1>4 DEF Die, NewProcess
<1> QED
  BY <1>1, <1>2, <1>3, <1>4 DEF LoadData

LEMMA OtherStages ==
  ASSUME Types, Stages, Midnight \/ Fetch \/ LoadData
  PROVE  Stages'
<1>1. req \in Requests(day)
  BY DEF Types, ThreadsOK
<1>2. CASE req' = Idle /\ answer' = Silent
  BY <1>2 DEF Stages, Idle
<1>3. CASE req' = req /\ answer' = answer
  BY <1>3 DEF Stages, FillPB, Ordered, Forecast
<1>4. CASE /\ req.pc = "format" /\ answer' = answer
           /\ \E d \in Nat : d >= day /\ req' = [req EXCEPT !.tm = d]
  BY <1>1, <1>4 DEF Stages, Requests
<1> QED
  BY <1>2, <1>3, <1>4, OthersLeaveTheRequest

LEMMA TypesKept == ASSUME Types, Stages, [Next]_vars PROVE Types'
<1>1. CASE Midnight \/ Fetch
  BY <1>1, MidnightTypes, FetchTypes
<1>2. CASE LoadData
  BY <1>2, NoDataTypes, OpenDataTypes, CopyAndClearTypes, LoadAreaTypes, DieTypes,
     EndOfDataTypes, LoadIndicesTypes DEF LoadData
<1>3. CASE Ask
  BY <1>3, HandleRequestTypes, WeatherDataAssumption DEF Ask
<1>4. CASE Request
  <2>1. req.pc = "fill" => req.row # NoRow
    BY DEF Stages
  <2>2. CASE Fill
    BY <2>1, <2>2, FillTypes DEF Fill
  <2> QED
    BY <1>4, <2>2, FindAreaWeatherTypes, FindUndefinedTypes, GetAnsTextTypes,
       AskIndexTypes, FindIndexTypes, IndexUndefinedTypes, ReleaseMessageTypes DEF Request
<1>5. CASE UNCHANGED vars
  BY <1>5 DEF vars, fileVars, tables, history, Types, FilesOK, TablesOK, ThreadsOK, HistoryOK,
              Underway, Printing
<1> QED
  BY <1>1, <1>2, <1>3, <1>4, <1>5 DEF Next

LEMMA StagesKept == ASSUME Types, Stages, [Next]_vars PROVE Stages'
<1>1. CASE UNCHANGED vars
  BY <1>1 DEF vars, Stages, FillPB, Ordered, Forecast
<1> QED
  BY <1>1, OtherStages, RequestStages DEF Next
-----------------------------------------------------------------------------
(* The tables *)

(* What a load has to leave of the first n lines. *)
RowsUpTo(lines, n, date) ==
  LET kept == AtPlaces(lines, {k \in 1..n : Usable(lines[k])})
  IN  [k \in DOMAIN kept |-> [line |-> kept[k], date |-> date]]

(* While the file is read, the table holds the rows of the lines so far,    *)
(* none of which was short.                                                 *)
Reading ==
  /\ loader.pc = "copy" => loader.at = 1
  /\ loader.pc = "read" =>
       /\ loader.at - 1 \in 0..Len(loader.lines)
       /\ \A k \in 1..(loader.at - 1) : loader.lines[k].fields # 0
       /\ Plain(real_time) = RowsUpTo(loader.lines, loader.at - 1, loader.date)

Tables == FallbackIsPreviousLoad /\ Reading

LEMMA PlainAppended ==
  ASSUME NEW rows \in Seq(RowType), NEW r \in RowType
  PROVE  Plain(Append(rows, r)) = Append(Plain(rows), [line |-> r.line, date |-> r.date])
<1> DEFINE more == Append(rows, r)
           plain == Append(Plain(rows), [line |-> r.line, date |-> r.date])
<1>1. /\ DOMAIN more = 1..(Len(rows) + 1) /\ more[Len(rows) + 1] = r
      /\ \A k \in 1..Len(rows) : more[k] = rows[k]
  OBVIOUS
<1>2. /\ Plain(rows) \in Seq([line : LinesTaken, date : 1..MaxDay])
      /\ Len(Plain(rows)) = Len(rows)
  <2>1. /\ Plain(rows) = [k \in 1..Len(rows) |-> [line |-> rows[k].line, date |-> rows[k].date]]
        /\ Len(rows) \in Nat
    BY DEF Plain
  <2>2. \A k \in 1..Len(rows) : [line |-> rows[k].line, date |-> rows[k].date]
                                  \in [line : LinesTaken, date : 1..MaxDay]
    <3> SUFFICES ASSUME NEW k \in 1..Len(rows)
                 PROVE  [line |-> rows[k].line, date |-> rows[k].date]
                          \in [line : LinesTaken, date : 1..MaxDay]
      OBVIOUS
    <3>1. rows[k] \in RowType
      OBVIOUS
    <3> QED
      BY <3>1 DEF RowType
  <2> QED
    BY <2>1, <2>2
<1>3. /\ DOMAIN plain = 1..(Len(rows) + 1)
      /\ plain[Len(rows) + 1] = [line |-> r.line, date |-> r.date]
      /\ \A k \in 1..Len(rows) : plain[k] = [line |-> rows[k].line, date |-> rows[k].date]
  BY <1>2 DEF Plain
<1>4. \A k \in 1..(Len(rows) + 1) : plain[k] = [line |-> more[k].line, date |-> more[k].date]
  BY <1>1, <1>3
<1>5. plain = [k \in 1..(Len(rows) + 1) |-> [line |-> more[k].line, date |-> more[k].date]]
  <2>1. plain \in Seq([line : LinesTaken, date : 1..MaxDay])
    BY <1>2 DEF RowType
  <2> HIDE DEF plain, more
  <2> QED
    BY <1>3, <1>4, <2>1
<1> QED
  BY <1>1, <1>5 DEF Plain

(* One more line adds its row, or none. *)
LEMMA OneMoreRow ==
  ASSUME NEW lines \in Seq(Line), NEW n \in 0..(Len(lines) - 1), NEW date
  PROVE  RowsUpTo(lines, n + 1, date) =
           IF Usable(lines[n + 1])
           THEN Append(RowsUpTo(lines, n, date), [line |-> lines[n + 1], date |-> date])
           ELSE RowsUpTo(lines, n, date)
<1> DEFINE P == {k \in 1..n : Usable(lines[k])}
           Q == {k \in 1..(n + 1) : Usable(lines[k])}
           kept == AtPlaces(lines, P)
<1>1. n \in Nat /\ n + 1 \in 1..Len(lines) /\ lines[n + 1] \in Line
  OBVIOUS
<1>2. CASE ~Usable(lines[n + 1])
  <2>1. Q = P
    BY <1>1, <1>2
  <2> QED
    BY <1>2, <2>1 DEF RowsUpTo
<1>3. CASE Usable(lines[n + 1])
  <2>1. Q = P \cup {n + 1}
    BY <1>1, <1>3
  <2>2. P \in SUBSET (1..n) /\ \A k \in P \cup {n + 1} : lines[k] \in Line
    BY <1>1
  <2> HIDE DEF P, Q
  <2>3. AtPlaces(lines, Q) = Append(kept, lines[n + 1]) /\ kept \in Seq(Line)
    BY <1>1, <2>1, <2>2, AtOneMorePlace, AtPlacesType
  <2> HIDE DEF kept
  <2> DEFINE more == Append(kept, lines[n + 1])
             rows == [k \in DOMAIN kept |-> [line |-> kept[k], date |-> date]]
             next == [k \in DOMAIN more |-> [line |-> more[k], date |-> date]]
  <2>4. rows \in Seq([line : Line, date : {date}]) /\ Len(rows) = Len(kept)
    <3>1. \A k \in DOMAIN kept : [line |-> kept[k], date |-> date]
                                   \in [line : Line, date : {date}]
      BY <2>3
    <3>2. DOMAIN kept = 1..Len(kept) /\ Len(kept) \in Nat
      BY <2>3
    <3> QED
      BY <3>1, <3>2
  <2>5. next = Append(rows, [line |-> lines[n + 1], date |-> date])
    <3>1. /\ DOMAIN more = 1..(Len(kept) + 1) /\ more[Len(kept) + 1] = lines[n + 1]
          /\ \A k \in 1..Len(kept) : more[k] = kept[k]
      BY <1>1, <2>3
    <3>2. next \in Seq([line : Line, date : {date}]) /\ Len(next) = Len(kept) + 1
      BY <1>1, <2>3, <3>1
    <3> HIDE DEF more
    <3> QED
      BY <1>1, <2>3, <2>4, <3>1, <3>2
  <2> QED
    BY <1>3, <2>3, <2>5 DEF RowsUpTo, P, Q, kept
<1> QED
  BY <1>2, <1>3

(* At the end of the file's lines, or at a short one, all rows are there.   *)
LEMMA AllRows ==
  ASSUME NEW lines \in Seq(Line), NEW n \in 0..Len(lines), NEW date,
         \A k \in 1..n : lines[k].fields # 0,
         n = Len(lines) \/ lines[n + 1].fields = 0
  PROVE  RowsUpTo(lines, n, date) = Rows([date |-> date, lines |-> lines])
<1>1. {k \in BeforeShort(lines) : Usable(lines[k])} = {k \in 1..n : Usable(lines[k])}
  <2>1. BeforeShort(lines) = 1..n
    <3>1. \A k \in 1..n : k \in BeforeShort(lines)
      BY DEF BeforeShort
    <3>2. \A k \in BeforeShort(lines) : k \in 1..n
      BY DEF BeforeShort
    <3> QED
      BY <3>1, <3>2
  <2> QED
    BY <2>1
<1> QED
  BY <1>1 DEF RowsUpTo, Rows

LEMMA NoRows == Rows(NoLoad) = <<>> /\ Plain(<<>>) = <<>>
<1>1. {k \in BeforeShort(<<>>) : Usable(<<>>[k])} = {}
  BY DEF BeforeShort
<1>2. AtPlaces(<<>>, {k \in BeforeShort(<<>>) : Usable(<<>>[k])}) = <<>>
  BY <1>1, AtNoPlace
<1> HIDE DEF BeforeShort
<1>3. NoLoad.lines = <<>>
  BY DEF NoLoad
<1> DEFINE kept == AtPlaces(NoLoad.lines,
                            {k \in BeforeShort(NoLoad.lines) : Usable(NoLoad.lines[k])})
<1>5. Rows(NoLoad) = [k \in DOMAIN kept |-> [line |-> kept[k], date |-> NoLoad.date]]
  BY DEF Rows
<1>6. kept = <<>>
  BY <1>2, <1>3
<1> HIDE DEF kept
<1>4. Rows(NoLoad) = <<>>
  BY <1>5, <1>6
<1> QED
  BY <1>4 DEF Plain

LEMMA InitTables == Init => Tables
<1> SUFFICES ASSUME Init PROVE Tables
  OBVIOUS
<1> QED
  BY NoRows DEF Init, Tables, FallbackIsPreviousLoad, Reading, Waiting

LEMMA TablesKept == ASSUME Types, Tables, [Next]_vars PROVE Tables'
<1> USE DEF Tables, FallbackIsPreviousLoad, Reading
<1>1. loader \in Loaders(day)
  BY DEF Types, ThreadsOK
<1>2. CASE UNCHANGED <<tables, history, loader>>
  <2>1. /\ Plain(real_time)' = Plain(real_time) /\ Plain(last_time)' = Plain(last_time)
        /\ Rows(current)' = Rows(current) /\ Rows(previous)' = Rows(previous)
        /\ loader' = loader
    BY <1>2 DEF tables, history, Plain
  <2>2. RowsUpTo(loader.lines, loader.at - 1, loader.date)' =
          RowsUpTo(loader.lines, loader.at - 1, loader.date)
    BY <2>1
  <2> QED
    BY <2>1, <2>2
<1>3. CASE OpenData
  <2>1. loader'.pc = "copy" /\ loader'.at = 1 /\ loader.pc = "wait"
    BY <1>3 DEF OpenData
  <2> QED
    BY <1>3, <2>1 DEF OpenData, tables, history, Plain, Rows
<1>4. CASE CopyAndClear
  <2>1. /\ loader'.pc = "read" /\ loader'.at = 1 /\ loader.pc = "copy"
        /\ loader'.lines = loader.lines /\ loader'.date = loader.date
    BY <1>1, <1>4 DEF CopyAndClear, Loaders
  <2>2. loader.lines \in Seq(Line)
    BY <2>1, ContentsAreLines DEF Types, Underway
  <2>3. RowsUpTo(loader.lines, 0, loader.date) = <<>> /\ Plain(<<>>) = <<>>
    <3>1. {k \in 1..0 : Usable(loader.lines[k])} = {}
      OBVIOUS
    <3> QED
      BY <3>1, AtNoPlace DEF RowsUpTo, Plain
  <2>4. Plain(last_time)' = Plain(real_time) /\ Plain(real_time)' = Plain(<<>>)
    BY <1>4 DEF CopyAndClear, Copied, Plain
  <2>5. Rows(current)' = Rows(current)
    BY <1>4 DEF CopyAndClear, history
  <2>6. Len(loader.lines) \in Nat /\ 1 - 1 = 0
    BY <2>2
  <2> QED
    BY <2>1, <2>3, <2>4, <2>5, <2>6
<1>5. CASE LoadArea
  <2> DEFINE n == loader.at - 1
             line == loader.lines[loader.at]
  <2>1. /\ loader'.pc = "read" /\ loader.pc = "read" /\ loader'.at = loader.at + 1
        /\ loader'.lines = loader.lines /\ loader'.date = loader.date
        /\ HasLine /\ ~Throws(line) /\ last_time' = last_time /\ current' = current
    BY <1>1, <1>5 DEF LoadArea, Loaders, history
  <2>2. loader.lines \in Seq(Line)
    BY <2>1, ContentsAreLines DEF Types, Underway
  <2>3. n \in 0..(Len(loader.lines) - 1) /\ n + 1 = loader.at /\ loader'.at - 1 = n + 1
    BY <1>1, <2>1, <2>2 DEF HasLine, Loaders
  <2>4. line.fields # 0
    BY <2>1 DEF HasLine
  <2>5. \A k \in 1..(n + 1) : loader.lines[k].fields # 0
    BY <2>1, <2>3, <2>4
  <2>6. n + 1 \in 0..Len(loader.lines)
    BY <2>2, <2>3
  <2>7. Plain(real_time)' = RowsUpTo(loader.lines, n + 1, loader.date)
    <3>1. CASE Usable(line)
      <4>1. line \in LinesTaken
        BY <2>1, <3>1, TheLine
      <4>2. PICK r \in RowsOf(line, loader.date) : real_time' = Append(real_time, r)
        BY <1>5, <3>1 DEF LoadArea
      <4>3. r \in RowType /\ r.line = line /\ r.date = loader.date
        BY <2>1, <4>1, RowsOfTypes
      <4>4. real_time \in Seq(RowType)
        BY DEF Types, TablesOK
      <4> HIDE DEF line, n
      <4>5. Plain(Append(real_time, r)) =
              Append(Plain(real_time), [line |-> line, date |-> loader.date])
        BY <4>3, <4>4, PlainAppended
      <4>6. Plain(real_time)' = Plain(Append(real_time, r))
        BY <4>2 DEF Plain
      <4>7. Plain(real_time) = RowsUpTo(loader.lines, n, loader.date)
        BY <2>1 DEF n
      <4>8. loader.lines[n + 1] = line
        BY <2>3 DEF line
      <4> QED
        BY <2>2, <2>3, <3>1, <4>5, <4>6, <4>7, <4>8, OneMoreRow
    <3>2. CASE ~Usable(line)
      <4>1. Plain(real_time)' = Plain(real_time)
        BY <1>5, <3>2 DEF LoadArea, Plain
      <4>2. Plain(real_time) = RowsUpTo(loader.lines, n, loader.date)
        BY <2>1
      <4>3. loader.lines[n + 1] = line
        BY <2>3
      <4> HIDE DEF line, n
      <4> QED
        BY <2>2, <2>3, <3>2, <4>1, <4>2, <4>3, OneMoreRow
    <3> QED
      BY <3>1, <3>2
  <2>8. Plain(last_time)' = Plain(last_time) /\ Rows(current)' = Rows(current)
    BY <2>1 DEF Plain
  <2>9. Plain(real_time)' = RowsUpTo(loader.lines, loader.at - 1, loader.date)'
    BY <2>1, <2>3, <2>7 DEF RowsUpTo
  <2> QED
    BY <2>1, <2>3, <2>5, <2>6, <2>8, <2>9
<1>6. CASE Die
  <2>1. loader' = Waiting /\ current' = NoLoad /\ previous' = NoLoad
        /\ real_time' = <<>> /\ last_time' = <<>>
    BY <1>6 DEF Die, NewProcess
  <2>2. Rows(NoLoad) = <<>>
    BY NoRows
  <2>3. Plain(real_time)' = <<>> /\ Plain(last_time)' = <<>>
    BY <2>1 DEF Plain
  <2> QED
    BY <2>1, <2>2, <2>3 DEF Waiting
<1>7. CASE EndOfData
  <2> DEFINE n == loader.at - 1
  <2>1. /\ loader'.pc = "indices" /\ loader.pc = "read" /\ ~HasLine
        /\ current' = [date |-> loader.date, lines |-> loader.lines] /\ previous' = current
        /\ real_time' = real_time /\ last_time' = last_time
    BY <1>1, <1>7 DEF EndOfData, tables, Loaders
  <2>2. loader.lines \in Seq(Line)
    BY <2>1, ContentsAreLines DEF Types, Underway
  <2>3. n \in 0..Len(loader.lines) /\ n + 1 = loader.at
    BY <1>1, <2>1 DEF Loaders
  <2>4. n = Len(loader.lines) \/ loader.lines[n + 1].fields = 0
    BY <2>1, <2>2, <2>3 DEF HasLine
  <2>5. \A k \in 1..n : loader.lines[k].fields # 0
    BY <2>1
  <2>6. Plain(real_time) = RowsUpTo(loader.lines, n, loader.date)
    BY <2>1
  <2> HIDE DEF n
  <2>7. Plain(real_time) = Rows([date |-> loader.date, lines |-> loader.lines])
    BY <2>2, <2>3, <2>4, <2>5, <2>6, AllRows
  <2>8. /\ Plain(real_time)' = Plain(real_time) /\ Plain(last_time)' = Plain(last_time)
        /\ Rows(current)' = Rows([date |-> loader.date, lines |-> loader.lines])
        /\ Rows(previous)' = Rows(current)
    BY <2>1 DEF Plain
  <2> QED
    BY <2>1, <2>7, <2>8
<1>8. CASE LoadIndices
  <2>1. loader'.pc = "wait" /\ loader.pc = "indices"
    BY <1>8 DEF LoadIndices, Waiting
  <2>2. /\ Plain(real_time)' = Plain(real_time) /\ Plain(last_time)' = Plain(last_time)
        /\ Rows(current)' = Rows(current) /\ Rows(previous)' = Rows(previous)
    BY <1>8 DEF LoadIndices, Plain
  <2> QED
    BY <2>1, <2>2
<1>9. CASE Midnight \/ Fetch \/ NoData \/ Ask \/ Request
  BY <1>2, <1>9
     DEF Midnight, Fetch, NoData, Ask, HandleRequest, Request, FindAreaWeather, FindUndefined,
         Fill, GetAnsText, AskIndex, FindIndex, IndexUndefined, ReleaseMessage, Undefined, Answer
<1>10. CASE UNCHANGED vars
  BY <1>2, <1>10 DEF vars
<1> QED
  BY <1>3, <1>4, <1>5, <1>6, <1>7, <1>8, <1>9, <1>10 DEF Next, LoadData
-----------------------------------------------------------------------------
(* Dates *)

(* A question asked when today's file had been loaded is of no later day    *)
(* than the table, and the row it was given is of a day since then.         *)
Fresh ==
  /\ req.fresh => req.day <= current.date
  /\ req.fresh /\ req.pc = "fill" /\ req.source = "real_time" =>
       req.day <= req.row.date /\ req.row.date <= day

(* The date of an index question is of no day before it was asked, and an   *)
(* area's entry is of the first day it was listed.                          *)
Hints ==
  /\ req.pc = "format" => req.day <= req.tm
  /\ \A area \in Area, d \in 1..day :
       <<area, d>> \in listed => area \in DOMAIN indices /\ indices[area] <= d

LEMMA InitDates == Init => Fresh /\ Hints
BY DEF Init, Idle, Fresh, Hints

(* Between loads, all rows of the table are of the current load's date.     *)
LEMMA RowsAreOfTheLoad ==
  ASSUME Types, Tables, loader.pc \in {"wait", "indices"}, NEW k \in DOMAIN real_time
  PROVE  real_time[k].date = current.date
<1>1. Plain(real_time) = Rows(current)
  BY DEF Tables, FallbackIsPreviousLoad
<1>2. k \in DOMAIN Plain(real_time) /\ Plain(real_time)[k].date = real_time[k].date
  BY DEF Plain
<1>3. \A j \in DOMAIN Rows(current) : Rows(current)[j].date = current.date
  <2> DEFINE kept == AtPlaces(current.lines,
                              {j \in BeforeShort(current.lines) : Usable(current.lines[j])})
  <2>1. Rows(current) = [j \in DOMAIN kept |-> [line |-> kept[j], date |-> current.date]]
    BY DEF Rows
  <2> HIDE DEF kept
  <2> QED
    BY <2>1
<1> QED
  BY <1>1, <1>2, <1>3

(* The request is over. *)
LEMMA RequestEnds ==
  ASSUME \/ \E target \in Target : GetAnsText(target)
         \/ \E known \in BOOLEAN : FindIndex(known)
         \/ IndexUndefined \/ ReleaseMessage \/ Undefined
  PROVE  req'.fresh = FALSE /\ req'.pc \in {"release", "lost", "idle"}
<1>1. CASE Done \/ req' = [Idle EXCEPT !.pc = "lost"] \/ req' = Idle
  BY <1>1 DEF Done, Idle
<1> QED
  BY <1>1 DEF GetAnsText, FindIndex, IndexUndefined, ReleaseMessage, Undefined

LEMMA RequestFresh ==
  ASSUME Types, Tables, Fresh, Ask \/ Request
  PROVE  Fresh'
<1> USE DEF Fresh
<1>1. req \in Requests(day) /\ day \in Nat /\ current \in Load
  BY DayTypes DEF Types, ThreadsOK, HistoryOK
<1>2. current' = current /\ day' = day
  BY DEF Ask, HandleRequest, Request, FindAreaWeather, FindUndefined, Fill, GetAnsText,
         AskIndex, FindIndex, IndexUndefined, ReleaseMessage, Undefined, Answer, fileVars,
         history
<1>3. ASSUME NEW area \in Area \cup {NoArea}, NEW start \in Start, NEW dated \in BOOLEAN,
             HandleRequest(area, day + start, dated)
      PROVE  Fresh'
  <2> DEFINE asked == IF area = NoArea THEN m_default_area ELSE area
             days == compareNowDays(day + start)
             r == [Idle EXCEPT !.area = asked, !.start = days, !.dated = dated,
                               !.day = day, !.fresh = current.date = day]
  <2>1. r.day = day /\ (r.fresh => current.date = day)
    BY DEF Idle
  <2>2. req' = [r EXCEPT !.pc = "text"]
        \/ req' = [r EXCEPT !.pc = "find", !.source = "real_time"]
    BY <1>3 DEF HandleRequest
  <2>3. req'.day = r.day /\ req'.fresh = r.fresh /\ req'.pc # "fill"
    BY <2>2 DEF Idle
  <2> HIDE DEF r
  <2> QED
    BY <1>1, <1>2, <2>1, <2>3
<1>4. CASE FindAreaWeather
  <2> DEFINE r == First(Table)
  <2>1. CASE r # NoRow /\ req' = [req EXCEPT !.pc = "fill", !.row = r]
    <3>1. /\ req'.fresh = req.fresh /\ req'.day = req.day /\ req'.source = req.source
          /\ req'.row = r
      BY <1>1, <2>1 DEF Requests
    <3>2. CASE req.source = "real_time" /\ req.fresh
      <4>1. loader.pc \in {"wait", "indices"}
        BY <1>4, <3>2 DEF FindAreaWeather, Writes, Types, ThreadsOK, Loaders
      <4>2. real_time \in Seq(RowType) /\ Table = real_time
        BY <3>2 DEF Types, TablesOK, Table
      <4>3. PICK k \in DOMAIN real_time : r = real_time[k]
        BY <2>1, <4>2, FirstIsARow
      <4>4. r.date = current.date
        BY <4>1, <4>3, RowsAreOfTheLoad
      <4>5. current.date <= day
        BY DEF Types, Underway
      <4> QED
        BY <1>2, <3>1, <3>2, <4>4, <4>5
    <3>3. CASE ~(req.source = "real_time" /\ req.fresh)
      BY <1>2, <3>1, <3>3
    <3> QED
      BY <3>2, <3>3
  <2>2. CASE req' = [req EXCEPT !.source = "last_time"]
    BY <1>1, <1>2, <2>2 DEF Requests
  <2>3. CASE Done
    BY <2>3 DEF Done, Idle
  <2> QED
    BY <1>4, <2>1, <2>2, <2>3 DEF FindAreaWeather
<1>5. CASE FindUndefined
  <2>1. CASE Undefined
    BY <2>1 DEF Undefined, Done, Idle
  <2>2. CASE req' = [req EXCEPT !.source = "last_time"]
    BY <1>1, <1>2, <2>2 DEF Requests
  <2> QED
    BY <1>5, <2>1, <2>2 DEF FindUndefined
<1>6. CASE Fill
  <2>1. CASE Undefined
    BY <2>1 DEF Undefined, Done, Idle
  <2>2. CASE ~Undefined
    <3>1. /\ req'.pc = "text" /\ req'.day = req.day
          /\ req'.fresh = req.fresh \/ req'.fresh = FALSE
      BY <1>1, <1>6, <2>2 DEF Fill, Requests
    <3> QED
      BY <1>2, <3>1
  <2> QED
    BY <2>1, <2>2
<1>7. CASE AskIndex
  <2>1. req'.fresh = FALSE
    BY <1>7 DEF AskIndex, FormatDayStr, Done, Idle
  <2> QED
    BY <2>1
<1>8. CASE \/ (\E target \in Target : GetAnsText(target))
           \/ (\E known \in BOOLEAN : FindIndex(known)) \/ IndexUndefined \/ ReleaseMessage
  BY <1>8, RequestEnds
<1> QED
  BY <1>3, <1>4, <1>5, <1>6, <1>7, <1>8 DEF Ask, Request

LEMMA OtherFresh ==
  ASSUME Types, Stages, Fresh, Midnight \/ Fetch \/ LoadData
  PROVE  Fresh'
<1>1. req \in Requests(day) /\ day \in Nat /\ loader.date \in Nat /\ current \in Load
  BY DayTypes DEF Types, ThreadsOK, HistoryOK, Loaders
<1>2. CASE req' = Idle
  BY <1>2 DEF Fresh, Idle
<1>3. CASE req' # Idle
  <2>1. /\ req'.fresh = req.fresh /\ req'.day = req.day /\ req'.row = req.row
        /\ req'.source = req.source /\ req'.pc = req.pc
    BY <1>1, <1>3, OthersLeaveTheRequest DEF Requests
  <2>2. day <= day' /\ day' \in Nat
    BY <1>1 DEF Midnight, Fetch, LoadData, NoData, OpenData, CopyAndClear, LoadArea, Die,
                EndOfData, LoadIndices, fileVars
  <2>3. current'.date \in Nat /\ current.date <= current'.date
    <3>1. CASE current' = current
      BY <1>1, <3>1, DayTypes DEF Load
    <3>2. CASE current' # current
      <4>1. EndOfData
        BY <1>3, <3>2, OthersLeaveTheRequest
           DEF Midnight, Fetch, LoadData, NoData, OpenData, CopyAndClear, LoadArea,
               LoadIndices, history, Die, NewProcess
      <4>2. current'.date = loader.date /\ current.date <= loader.date
        BY <4>1 DEF EndOfData, Types, Underway
      <4> QED
        BY <1>1, <4>2
    <3> QED
      BY <3>1, <3>2
  <2>4. current.date \in Nat /\ req.day \in Nat
    BY <1>1, DayTypes DEF Load, Requests
  <2>5. req.row # NoRow => req.row.date \in Nat
    BY <1>1, DayTypes DEF Requests, RowType
  <2>6. req.pc = "fill" => req.row # NoRow
    BY DEF Stages
  <2> QED
    BY <1>1, <2>1, <2>2, <2>3, <2>4, <2>5, <2>6 DEF Fresh
<1> QED
  BY <1>2, <1>3

LEMMA FreshKept == ASSUME Types, Stages, Tables, Fresh, [Next]_vars PROVE Fresh'
<1>1. CASE UNCHANGED vars
  BY <1>1 DEF vars, fileVars, history, Fresh
<1> QED
  BY <1>1, RequestFresh, OtherFresh DEF Next

LEMMA HintsKept == ASSUME Types, Hints, [Next]_vars PROVE Hints'
<1>1. /\ req \in Requests(day) /\ day \in Nat /\ listed \subseteq Area \X (1..day)
      /\ \A area \in DOMAIN indices : indices[area] \in 1..day
  BY DayTypes DEF Types, TablesOK, ThreadsOK, HistoryOK
<1>2. req'.pc = "format" => req'.day <= req'.tm
  <2>1. CASE Midnight \/ Fetch \/ LoadData
    <3>1. CASE req' = Idle
      BY <3>1 DEF Idle
    <3>2. CASE req' = req
      BY <3>2 DEF Hints
    <3>3. CASE \E d \in Nat : d >= day /\ req' = [req EXCEPT !.tm = d]
      BY <1>1, <3>3 DEF Requests
    <3> QED
      BY <2>1, <3>1, <3>2, <3>3, OthersLeaveTheRequest
  <2>2. CASE Ask
    BY <2>2 DEF Ask, HandleRequest, Idle
  <2>3. CASE AskIndex
    <3>1. CASE req.dated
      BY <2>3, <3>1 DEF AskIndex, Done, Idle
    <3>2. CASE ~req.dated
      <4>1. req'.tm = day /\ req'.day = req.day
        BY <2>3, <3>2 DEF AskIndex, FormatDayStr, Idle
      <4> QED
        BY <1>1, <4>1 DEF Requests
    <3> QED
      BY <3>1, <3>2
  <2>4. CASE Request /\ ~AskIndex
    <3>1. req'.pc # "format"
      <4>1. CASE FindAreaWeather
        BY <1>1, <4>1 DEF FindAreaWeather, Done, Idle, Requests
      <4>2. CASE Undefined
        BY <4>2, RequestEnds
      <4>3. CASE FindUndefined /\ ~Undefined
        BY <1>1, <4>3 DEF FindUndefined, Requests
      <4>4. CASE Fill /\ ~Undefined
        BY <1>1, <4>4 DEF Fill, Requests
      <4> QED
        BY <2>4, <4>1, <4>2, <4>3, <4>4, RequestEnds DEF Request
    <3> QED
      BY <3>1
  <2>5. CASE UNCHANGED vars
    BY <2>5 DEF vars, Hints
  <2> QED
    BY <2>1, <2>2, <2>3, <2>4, <2>5 DEF Next
<1>3. ASSUME NEW area \in Area, NEW d \in 1..day', <<area, d>> \in listed'
      PROVE  area \in DOMAIN indices' /\ indices'[area] <= d
  <2>1. CASE LoadIndices
    <3>1. /\ listed' = listed \cup (idx \X {day})
          /\ indices' = [a \in DOMAIN indices \cup idx |->
                          IF a \in idx THEN Insert(a) ELSE indices[a]]
          /\ day' = day
      BY <2>1 DEF LoadIndices, fileVars
    <3>2. CASE <<area, d>> \in listed
      BY <1>1, <3>1, <3>2 DEF Hints, Insert
    <3>3. CASE area \in idx /\ d = day
      BY <1>1, <3>1, <3>3 DEF Insert
    <3> QED
      BY <1>3, <3>1, <3>2, <3>3
  <2>2. CASE Die
    BY <1>3, <2>2 DEF Die, NewProcess
  <2>3. CASE ~LoadIndices /\ ~Die
    <3>1. listed' = listed /\ indices' = indices
      BY <2>3
         DEF Next, Midnight, Fetch, LoadData, NoData, OpenData, CopyAndClear, LoadArea, EndOfData,
             Ask, HandleRequest, Request, FindAreaWeather, FindUndefined, Fill, GetAnsText,
             AskIndex, FindIndex, IndexUndefined, ReleaseMessage, Undefined, Answer, vars, tables,
             history
    <3>2. <<area, d>> \in listed /\ d \in 1..day
      BY <1>1, <1>3, <3>1
    <3> QED
      BY <3>1, <3>2 DEF Hints
  <2> QED
    BY <2>1, <2>2, <2>3
<1> QED
  BY <1>2, <1>3 DEF Hints
-----------------------------------------------------------------------------
(* What holds of the handler *)

WeatherInv == Types /\ Stages /\ Tables /\ Fresh /\ Hints

LEMMA WeatherInvariant == Spec => []WeatherInv
<1>1. Init => WeatherInv
  BY InitTypes, InitStages, InitTables, InitDates DEF WeatherInv
<1>2. WeatherInv /\ [Next]_vars => WeatherInv'
  BY TypesKept, StagesKept, TablesKept, FreshKept, HintsKept DEF WeatherInv
<1> QED
  BY <1>1, <1>2, PTL DEF Spec

(* Between loads the two tables are the last load's and the one before it,  *)
(* for any files, and whatever localtime() did to the dates in them         *)
(* (wqa_busi_handler.cc:446-521).                                           *)
THEOREM TablesCorrect == Spec => []TablesInv
<1>1. WeatherInv => TablesInv
  BY ATypeIsItsParts DEF WeatherInv, Tables, TablesInv
<1> QED
  BY <1>1, WeatherInvariant, PTL

(* A forecast from a table that was today's when the question came is of    *)
(* the day it names, or of as many days later as have begun since, for any  *)
(* interleaving of loads and midnights (wqa_busi_handler.cc:74-75, 388-400  *)
(* against 446-521).                                                        *)
THEOREM DatesCorrect == Spec => DatesDriftWithTheClock
<1> DEFINE L == req.pc = "fill" /\ answer'.kind = "WFB_OK" /\ req.fresh
                  /\ req.source = "real_time"
                  /\ (req.row.slip = <<>> \/ req.row.slip[1] # req.start) =>
                /\ req.day + req.start <= answer'.date
                /\ answer'.date <= day + req.start
<1>1. WeatherInv /\ [Next]_vars => L
  <2> SUFFICES ASSUME WeatherInv, [Next]_vars, req.pc = "fill", answer'.kind = "WFB_OK",
                      req.fresh, req.source = "real_time",
                      req.row.slip = <<>> \/ req.row.slip[1] # req.start
               PROVE  /\ req.day + req.start <= answer'.date
                      /\ answer'.date <= day + req.start
    OBVIOUS
  <2>1. /\ req \in Requests(day) /\ req.row \in RowType /\ req.day <= req.row.date
        /\ req.row.date <= day /\ day \in Nat /\ answer.kind = "none" /\ Types /\ MaxDay \in Nat
    BY DayTypes DEF WeatherInv, Types, ThreadsOK, Stages, Fresh, Requests
  <2>2. Fill
    <3>1. CASE Midnight \/ Fetch \/ LoadData
      BY <2>1, <3>1, OthersLeaveTheRequest DEF Silent
    <3>2. CASE UNCHANGED vars
      BY <2>1, <3>2 DEF vars
    <3> QED
      BY <2>1, <3>1, <3>2
         DEF Next, Ask, HandleRequest, Request, FindAreaWeather, FindUndefined, GetAnsText,
             AskIndex, FindIndex, IndexUndefined, ReleaseMessage
  <2>3. CASE Answer("WFB_OK", "none", Forecast(req.row, req.start))
    <3>1. answer'.date = Forecast(req.row, req.start)
      BY <2>3 DEF Answer, Silent
    <3>2. Forecast(req.row, req.start) = req.row.date + req.start
      BY DEF Forecast
    <3>3. req.row.date \in Nat /\ req.start \in Int /\ req.day \in Nat
      BY <2>1 DEF RowType, Requests
    <3> QED
      BY <2>1, <3>1, <3>2, <3>3
  <2>4. CASE Undefined \/ Answer("blank", "none", 0)
    BY <2>4 DEF Undefined, Answer, Silent
  <2> QED
    BY <2>2, <2>3, <2>4 DEF Fill
<1>2. DatesDriftWithTheClock <=> [][L]_vars
  BY DEF DatesDriftWithTheClock
<1> HIDE DEF L
<1> QED
  BY <1>1, <1>2, WeatherInvariant, PTL DEF Spec

(* A hint is of a day since it was asked for, and of the first day the area *)
(* had indices, for any files, whatever the loader's localtime() does       *)
(* (wqa_busi_handler.cc:291, 511, 611, 737).                                *)
THEOREM HintsCorrect == Spec => HintsOfTheFirstDay
<1> DEFINE L == req.pc = "format" /\ answer'.kind = "hint" =>
                /\ answer'.date \in req.day..day
                /\ \A d \in 1..(answer'.date - 1) : <<req.area, d>> \notin listed
<1>1. WeatherInv /\ [Next]_vars => L
  <2> SUFFICES ASSUME WeatherInv, [Next]_vars, req.pc = "format", answer'.kind = "hint"
               PROVE  /\ answer'.date \in req.day..day
                      /\ \A d \in 1..(answer'.date - 1) : <<req.area, d>> \notin listed
    OBVIOUS
  <2>1. /\ req \in Requests(day) /\ day \in Nat /\ Types /\ req.day <= req.tm
        /\ answer.kind # "hint" /\ req.day \in Nat
        /\ \A area \in DOMAIN indices : area \in Area /\ indices[area] \in 1..day
    BY DayTypes DEF WeatherInv, Types, TablesOK, ThreadsOK, Stages, Hints, Requests
  <2>2. PICK known \in BOOLEAN : FindIndex(known)
    <3>1. CASE Midnight \/ Fetch \/ LoadData
      BY <2>1, <3>1, OthersLeaveTheRequest DEF Silent
    <3>2. CASE UNCHANGED vars
      BY <2>1, <3>2 DEF vars
    <3>3. CASE IndexUndefined
      BY <3>3 DEF IndexUndefined, Undefined, Answer, Silent
    <3> QED
      BY <2>1, <3>1, <3>2, <3>3
         DEF Next, Ask, HandleRequest, Request, FindAreaWeather, FindUndefined, Fill, GetAnsText,
             AskIndex, ReleaseMessage
  <2>3. /\ req.area \in DOMAIN indices /\ indices[req.area] = req.tm
        /\ answer'.date = indices[req.area]
    <3>1. ~Answer("", "TARGET_INDEX", 0)
      BY DEF Answer, Silent
    <3>2. /\ req.area \in DOMAIN indices /\ indices[req.area] = req.tm
          /\ Answer("hint", "TARGET_INDEX", indices[req.area])
      BY <2>2, <3>1 DEF FindIndex
    <3> QED
      BY <3>2 DEF Answer, Silent
  <2>4. answer'.date \in req.day..day
    BY <2>1, <2>3
  <2>5. ASSUME NEW d \in 1..(answer'.date - 1), <<req.area, d>> \in listed PROVE FALSE
    <3>1. d \in 1..day /\ d < indices[req.area] /\ req.area \in Area
      BY <2>1, <2>3
    <3>2. indices[req.area] <= d
      BY <2>5, <3>1 DEF WeatherInv, Hints
    <3> QED
      BY <2>1, <2>3, <3>1, <3>2
  <2> QED
    BY <2>4, <2>5
<1>2. HintsOfTheFirstDay <=> [][L]_vars
  BY DEF HintsOfTheFirstDay
<1> HIDE DEF L
<1> QED
  BY <1>1, <1>2, WeatherInvariant, PTL DEF Spec

(* Between loads, and for a day its row has, no request goes astray, for    *)
(* any files and interleaving (wqa_busi_handler.cc:112, 283, 390-412        *)
(* against 448).                                                            *)
THEOREM UndefinedForCauseCorrect == Spec => UndefinedForCause
<1> DEFINE L == answer'.kind = "undefined" /\ answer.kind # "undefined" =>
                \/ loader.pc # "wait"
                \/ req.pc = "fill" /\ req.start \in (Ahead(req.row.line) + 1)..7
<1>1. WeatherInv /\ [Next]_vars => L
  <2> SUFFICES ASSUME WeatherInv, [Next]_vars, answer'.kind = "undefined",
                      answer.kind # "undefined", loader.pc = "wait"
               PROVE  req.pc = "fill" /\ req.start \in (Ahead(req.row.line) + 1)..7
    OBVIOUS
  <2>1. ~Writes("real_time") /\ ~Writes("last_time") /\ ~Writes("indices")
    BY DEF Writes
  <2>2. Types /\ req \in Requests(day)
    BY DEF WeatherInv, Types, ThreadsOK
  <2>3. Fill
    <3>1. CASE Midnight \/ Fetch \/ LoadData
      BY <2>2, <3>1, OthersLeaveTheRequest DEF Silent
    <3>2. CASE UNCHANGED vars
      BY <3>2 DEF vars
    <3>3. ASSUME NEW target \in Target, GetAnsText(target) PROVE FALSE
      <4>1. answer'.kind = TextOf(target, req.w)
        BY <3>3 DEF GetAnsText
      <4> QED
        BY <4>1 DEF TextOf, YesIf
    <3>4. CASE FindUndefined
      <4>1. req.source = "none" \/ req.source \in {"real_time", "last_time"}
        BY <2>2 DEF Requests
      <4>2. ~Writes("none")
        BY DEF Writes
      <4> QED
        BY <2>1, <3>4, <4>1, <4>2 DEF FindUndefined
    <3>5. CASE IndexUndefined
      BY <2>1, <3>5 DEF IndexUndefined
    <3>6. CASE FindAreaWeather
      BY <3>6 DEF FindAreaWeather, Answer, Silent
    <3>7. CASE AskIndex \/ \E known \in BOOLEAN : FindIndex(known)
      BY <3>7 DEF AskIndex, FindIndex, Answer, Silent
    <3>8. CASE Ask
      <4>1. Answer("WFB_NO_AREA", "none", 0) \/ Answer("none", "none", 0)
        BY <3>8 DEF Ask, HandleRequest
      <4> QED
        BY <4>1 DEF Answer, Silent
    <3>9. CASE ReleaseMessage
      BY <3>9 DEF ReleaseMessage, Silent
    <3> QED
      BY <3>9, <3>1, <3>2, <3>3, <3>4, <3>5, <3>6, <3>7, <3>8 DEF Next, Request
  <2>4. IsFuture(req.start) /\ req.start > Ahead(req.row.line)
    <3>1. CASE Answer("WFB_OK", "none", Forecast(req.row, req.start))
      BY <3>1 DEF Answer, Silent
    <3>2. CASE Answer("blank", "none", 0)
      BY <3>2 DEF Answer, Silent
    <3> QED
      BY <2>3, <3>1, <3>2 DEF Fill
  <2>5. Ahead(req.row.line) \in 0..7 /\ req.start \in Int
    <3>1. req.row \in RowType
      BY <2>2, <2>3 DEF WeatherInv, Stages, Requests, Fill
    <3> QED
      BY <2>2, <3>1, TakenAreLines, AheadIsAWeek DEF RowType, Requests
  <2> QED
    BY <2>3, <2>4, <2>5 DEF Fill, IsFuture
<1>2. UndefinedForCause <=> [][L]_vars
  BY DEF UndefinedForCause
<1> HIDE DEF L
<1> QED
  BY <1>1, <1>2, WeatherInvariant, PTL DEF Spec

(* "No" means of today what the line says, and a day out of the week is     *)
(* answered as cold and clear, for any lines and questions                  *)
(* (wqa_busi_handler.cc:106-114, 155-254, 481-486).                         *)
THEOREM TextsCorrect == Spec => TextsFitTheDay
<1> DEFINE L == req.pc = "text" /\ req'.pc = "release" /\ req.row # NoRow =>
       /\ req.start = 0 /\ answer'.kind = "no" =>
            \A k \in 1..2 :
              /\ answer'.about = "TARGET_IS_COLD" => req.row.line.temps[0][k] >= 15
              /\ answer'.about = "TARGET_IS_HOT" => req.row.line.temps[0][k] <= 30
       /\ req.start \notin 0..7 =>
            /\ answer'.kind = "yes" <=> answer'.about = "TARGET_IS_COLD"
            /\ answer'.low = 0 /\ answer'.high = 0
<1>1. WeatherInv /\ [Next]_vars => L
  <2> SUFFICES ASSUME WeatherInv, [Next]_vars, req.pc = "text", req'.pc = "release",
                      req.row # NoRow
               PROVE  L
    OBVIOUS
  <2>1. /\ Types /\ req \in Requests(day) /\ req.row \in RowType
        /\ req.start = 0 => req.w = FillPB(req.row, 0)
        /\ req.start \notin 0..7 => req.w = Blank
    BY DEF WeatherInv, Types, ThreadsOK, Stages, Requests
  <2>2. AskIndex \/ \E target \in Target : GetAnsText(target)
    <3>1. CASE Midnight \/ Fetch \/ LoadData
      BY <2>1, <3>1, OthersLeaveTheRequest DEF Idle
    <3>2. CASE UNCHANGED vars
      BY <3>2 DEF vars
    <3> QED
      BY <3>1, <3>2
         DEF Next, Ask, HandleRequest, Request, FindAreaWeather, FindUndefined, Fill, FindIndex,
             IndexUndefined, ReleaseMessage
  <2>3. CASE AskIndex
    <3>1. req.dated
      BY <2>3 DEF AskIndex, FormatDayStr, Idle
    <3>2. /\ answer'.kind = "" /\ answer'.about = "TARGET_INDEX"
          /\ answer'.low = 0 /\ answer'.high = 0
      BY <2>3, <3>1 DEF AskIndex, Answer, Silent
    <3> QED
      BY <3>2
  <2>4. ASSUME NEW target \in Target, GetAnsText(target) PROVE L
    <3>1. /\ answer'.kind = TextOf(target, req.w) /\ answer'.about = target
          /\ answer'.low = req.w.min /\ answer'.high = req.w.max
      BY <2>4 DEF GetAnsText
    <3>2. ASSUME req.start = 0, answer'.kind = "no", NEW k \in 1..2
          PROVE  /\ target = "TARGET_IS_COLD" => req.row.line.temps[0][k] >= 15
                 /\ target = "TARGET_IS_HOT" => req.row.line.temps[0][k] <= 30
      <4> DEFINE temps == req.row.line.temps[0]
                 pair == Ordered(temps, 0)
      <4>1. temps \in Int \X Int
        <5>1. req.row.line \in Line
          BY <2>1, TakenAreLines DEF RowType
        <5>2. temps \in {<<>>} \cup (Int \X Int) /\ temps # <<>>
          BY <5>1 DEF Line
        <5> QED
          BY <5>2
      <4>2. req.w.size = 1 /\ req.w.max = pair[1] /\ req.w.min = pair[2]
        BY <2>1, <3>2 DEF FillPB
      <4> HIDE DEF temps
      <4>3. pair[2] <= temps[k] /\ temps[k] <= pair[1] /\ pair \in Int \X Int
        BY <4>1 DEF Ordered
      <4>4. target = "TARGET_IS_COLD" => ~(req.w.min < 15)
        BY <3>1, <3>2, <4>2 DEF TextOf, YesIf
      <4>5. target = "TARGET_IS_HOT" => ~(req.w.max > 30)
        BY <3>1, <3>2, <4>2 DEF TextOf, YesIf
      <4> HIDE DEF pair
      <4>6. /\ target = "TARGET_IS_COLD" => temps[k] >= 15
            /\ target = "TARGET_IS_HOT" => temps[k] <= 30
        BY <4>1, <4>2, <4>3, <4>4, <4>5
      <4> QED
        BY <4>6 DEF temps
    <3>3. ASSUME req.start \notin 0..7
          PROVE  /\ answer'.kind = "yes" <=> target = "TARGET_IS_COLD"
                 /\ req.w.min = 0 /\ req.w.max = 0
      <4>1. /\ req.w.size = 1 /\ req.w.min = 0 /\ req.w.max = 0 /\ req.w.sky = {}
        BY <2>1, <3>3 DEF Blank, Unmatched
      <4>2. CASE target = "TARGET_IS_COLD"
        BY <3>1, <4>1, <4>2 DEF TextOf, YesIf
      <4>3. CASE target # "TARGET_IS_COLD"
        <5>1. /\ ~(req.w.max > 30) /\ "rain" \notin req.w.sky /\ "snow" \notin req.w.sky
              /\ "typhoon" \notin req.w.sky /\ req.w.sky \cap {"wind", "typhoon"} = {}
          BY <4>1
        <5>2. TextOf(target, req.w) \in {"", "range", "no", "statuses"}
          BY <4>1, <4>3, <5>1 DEF TextOf, YesIf
        <5> QED
          BY <3>1, <4>1, <4>3, <5>2
      <4> QED
        BY <4>1, <4>2, <4>3
    <3> QED
      BY <3>1, <3>2, <3>3
  <2> QED
    BY <2>2, <2>3, <2>4
<1>2. TextsFitTheDay <=> [][L]_vars
  BY DEF TextsFitTheDay
<1> HIDE DEF L
<1> QED
  BY <1>1, <1>2, WeatherInvariant, PTL DEF Spec
=============================================================================
