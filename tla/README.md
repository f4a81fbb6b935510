# A verification project for the joke server

This directory holds TLA+ models of the joke question-answering server in
`src/` (an mcp++ plugin: the `mcd` process answers questions that the `ccd`
process receives from clients), the TLC runs that check them on small
instances, and proofs, checked by TLAPS, of the theorems that matter most for
every value of the constants. It is read beside the code: every definition that
models code is listed in `PROJECT.json` under `map` with the lines it stands
for.

Contents: [inventory](#1-inventory), [modules](#2-modules-and-the-code),
[runs](#3-what-the-runs-check), [bounds](#4-bounds), [fairness](#5-fairness),
[proofs](#6-what-is-proved), [disagreements](#7-where-code-and-text-disagree),
[what is left out](#8-what-is-not-modelled), [plan](#9-plan).

To repeat a run: `tlc -config CQAServ.cfg MCCQAServ` (the module is the one of
the run in `PROJECT.json`); a proof: `tlapm JokeLibraryProofs.tla`.

## 1. Inventory

```
 clients --bytes--> ccd --mq_ccd_2_mcd--> mcd: CQAServ ---> JokeInfo (dictionary)
            |  ^                            |      |   \--> CQAStat -> CStatistic
  NetComplete  +-------mq_mcd_2_ccd---------+      |            ^  (timer thread)
  (plugin in ccd)                          NLP patterns    log files, rotated
 operator, cron --start.sh, stop.sh, check.sh ...--> ccd, mcd, shared queues
```

| Component | State it keeps | Operations | What makes it correct |
|---|---|---|---|
| Joke dictionary (`joke.cc`, class `JokeInfo`) | `m_jokes` (style → jokes), `m_joke_style_num`, `m_joke_num`, `m_joke_types` | `Init` (`LoadJokeData`, `LodaTypes`), `GetJokeTypeId`, `GetJokes` | every usable line is loaded once, under its style; an answer has different jokes of the style asked for; a call returns, and does not kill the process |
| Joke server (`wqa_mcd_proc.cc`, class `CQAServ`) | locals of the batch loop (`i`, `ret`, `pack_len`), members the steps of one request leave to each other (`m_recv_buf`, `m_seq_no`), the counters | `Run`, `HandleCcdRequest`, `DecodeQuery`, `DoQuery`, `TokenByNlpTool`, `EncodeResult`, `Enqueue2Ccd` | a reply carries its own request's number and goes to its own connection; its jokes answer its own question; no request is answered twice or dropped silently; the queue is drained |
| Statistics table (`common_stat.cc`, `qa_stat.cc`) | up to 256 rows sorted by name, `m_iTypeNum`, an optional mutex | `AddStat` (mcd thread), `WriteToFile`, `ClearStat` (timer thread) | no call is lost or reported twice; the table stays usable for `bsearch`; neither thread is stuck |
| Times of calls (`_AddTime`) | seconds and microseconds, maximum, minimum, three columns | `_AddTime` | the sum, the extremes and the columns are those of the calls |
| Statistics log (`_WriteLog`, `_ShiftFiles`) | the log files | append, rotate | reports are lost oldest first, whatever fails |
| Framing (`longconn_complete.cpp`) | the round-robin index; ccd's cache of each connection | `net_complete_func`, `mcd_route_func` | frames are cut exactly, whatever pieces they come in; routing is balanced |
| Operation scripts (`deploy_dir/op`) | processes, pid files, queues in shared memory, the crontab | `start.sh`, `stop.sh`, `restart.sh`, `force_stop.sh`, `check.sh`, `clear_mq.sh` | no server is left without its pid file; ccd and mcd use the same queues; a dead server comes back |
| Regex question doctor: patterns (`regex_question_doctor.cc`) | `pattern_vec`, a mutex | `LoadRegexPattern` (notifier's thread), `MatchQuery`, `Tokenizer` | a question is matched against one whole table; edits of the file take effect |
| Regex question doctor: reverse index | `rind_map` (word → question numbers) | `LoadRind`, `CheckPid`, `SplitAndCheck` | the index is of whole tables, whatever the database does; a lookup finds what the question's parts list |
| Database access (`comm_db.cc`, class `CommDB`) | one MySQL handle | `Connect`, `ReConnect`, `SelectData`, `Close` | one failing call is made good |
| Weather handler (`wqa_busi_handler.cc`) | today's and the last table, the indices | `LoadData`, `LoadIndices` (timer's thread), `HandleRequest`, `GetAnsText` | the forecast given is of the day asked for, and the text fits it; today's file is loaded |
| Word classification (`util.cc`, `util.h`) | none | `Split`, `ToLower`, `TranToLower`, `Strcmpcase`, `Is...Word`, `Is...GBK` | parts and text correspond; the kinds of words, of two-byte codes and of addresses are consistent |
| Others | | character conversion, time comparison, packaging | see [what is left out](#8-what-is-not-modelled) |

**Interactions.** ccd and mcd share two bounded queues in shared memory; the
queues outlive either process, everything else of a process is lost with it.
`CQAServ::HandleCcdRequest` calls `JokeInfo` and `CQAStat` on mcd's only
thread. `CQAStat` registers `ReportCommonStat` with a timer, whose callback runs
on a thread of its own and shares the table. The pattern and weather files are
reloaded on the threads of a file notifier and of a timer; the reverse index is
read from a database by the constructor, before either exists. Scripts talk to
processes by signals and pid files, and cron starts `check.sh` every minute.

**What is hard here.** mcd is one loop, but every request leaves values behind
that the next one meets (`ans_vec`, `m_seq_no`, `pack_len`); a matched question
ends the batch; both queues can be full; the process may be stopped, killed or
crash between any two steps and starts again over the same queues. `GetJokes`
draws at random until it has enough and may never return, or divide by zero.
The statistics table is used by two threads with its mutex switched off, and
its report and its clearing are two critical sections. The weather handler has
two threads and no lock at all, not even around `localtime()`'s one buffer, and a
line it cannot parse kills the process that will load it again. Log rotation is a
sequence of system calls, any of which may fail. Scripts do not wait for what they
start or stop. `PROJECT.json` lists these under `hazards`, each at its line,
with the properties aimed at it.

The build (`src/BUILD`) at present leaves out `regex_question_doctor.cc`,
`wqa_busi_handler.cc`, `comm_db.cc` and `time_utils.cpp`. The first two are
modelled all the same, and of the others what they call: they hold the
repository's only other reloading tables and its only retries.

## 2. Modules and the code

| Module | Models | Correspondence |
|---|---|---|
| `JokeDictionary` | the members both `JokeInfo` modules share | `m_jokes` maps a style to the set of its jokes' numbers |
| `JokeInfo` | loading (`joke.cc` 19–135, 206–212) | one action per pass of the two `getline` loops; a line is a style, a pair word/style, or `Skip` |
| `GetJokes` | drawing (`joke.cc` 138–203) | one action per `rand()`; a draw already in the history is a stuttering step |
| `JokeLibrary` | both, as mcd uses them | composes `JokeInfo` and `GetJokes`: calls begin once `Init` has returned true |
| `RequestService` | *abstract*: what the service promises | each request goes unsent → queued → handling → answered → delivered, or is gone, in order |
| `CQAServ` | the mcd process between its queues | one action per step of `HandleCcdRequest` that something can come between; an instance of `GetJokes` for the draws; `Service == INSTANCE RequestService WITH status <- ...` is the refinement mapping |
| `CStatistic` | the table and its two threads | one action per access to `m_iTypeNum` or to a row, those of `qsort` (which moves the rows within the table, in any order, holding aside what it overwrites) and of `memset` included; `m_bUseMutex` is chosen at the start; where a build may keep a value in a register or read it again, both are allowed |
| `StatTime` | `_AddTime` | the widths of the fields are constants |
| `LogRotation` | `_WriteLog`, `_ShiftFiles` | one action per `fopen`, `stat`, `access`, `remove` and `rename`, each of which may fail or be the last; an `access` that fails passes its file by |
| `NetComplete` | `net_complete_func`, `longconn_complete_func`, `mcd_route_func` | the functions are operators; ccd's receive loop around them is external |
| `OpScripts` | the scripts and the processes | a script is the sequence of its commands, one action each |
| `RegexDoctor` | the pattern table | one action per line read, and per pattern tried; the unlocked scan that meets a reload is undefined, any outcome |
| `ReverseIndex` | `LoadRind` over `CommDB`; `CheckPid`, `SplitAndCheck` | one action per call to the database, each of which may fail; the lookups are operators on byte sequences |
| `RegexQuestionDoctor` | the whole doctor | composes `RegexDoctor` and `ReverseIndex`: the threads begin when the constructor has read the index, or the process dies in it and starts again |
| `WeatherData` | tables, indices, requests and their texts | one action per line loaded and per stage of a request; the unlocked search that meets a load is undefined, and either side's `localtime()` may change the other's date |
| `Words` | `Split`, lower-casing and the word kinds | characters are classes (lower, upper, digit, dot, punctuation, blank, first byte of two) |
| `GBK`, `Addresses` | the kinds of two-byte codes; the URL and e-mail tests | a code is its two bytes, with the ranges and the table of the code; an address is its pieces (scheme, domain, at sign, ...) |
| `MC...` | | values of the constants for TLC |
| `Places`, `Sums` | what the loops that skip some elements of a file leave (`AtPlaces`); sums of a row of numbers | an element kept stays in the order of the file |
| `JokeLibraryProofs`, `RequestServiceProofs`, `CQAServProofs`, `StatisticsProofs`, `RegexDoctorProofs`, `WeatherDataProofs`, `CcdProofs` | | theorems and proofs, see [section 6](#6-what-is-proved) |
| `DataLemmas` | | facts about numbers and sequences that the proofs share |

Data is abstracted to what the properties tell apart: a joke is its number, a
text is its absence, a question is the list of tags the patterns find in it, a
frame is its length and its length field, a log file is the set of its reports,
a line of weather is its area, its number of fields, its temperatures and the
words the texts look for.
All control is kept: guards, early returns, error paths and their order. An
operator with a comment "Mutant" above it is a plausible bug of the definition
below it; nothing uses it but the mutant checks listed in `PROJECT.json`.

## 3. What the runs check

| Run | Shows |
|---|---|
| `JokeLibrary` | For every small pair of files: the loop computes the grouping of the file (`LoadsTheFile`). For every question and every sequence of `rand()`: no joke twice, and only jokes of the style asked for (`AnswersAreRight`), a crash only for "any style" over a gap or nothing (`CrashOnlyOnGap`), no return when the style is scarce (`NoReturnWhenScarce`) and a return otherwise (`CallReturns`). The last three state exactly which dictionaries are dangerous: a maintainer of `joke_info.dat` can check for them. |
| `CQAServ` | `ReplyToOwnFlow`, `AnswersFitTheQuestion`: no value left by another request reaches a reply. `CountersInv`: the three counters add up over exceptions and skipped messages. `NoSilentLoss`: a request in hand is given up only to a full response queue, a fault or death. `ImplementsService`: seen from outside this is `RequestService` — in order, one at a time, at most one answer — across stops, kills and restarts. `EveryRequestConcludes`: the queue is drained, although a matched question ends the batch and a batch ends at its limit with a request still queued. |
| `CStatistic` | Without the mutex (as the server runs): no index past the table in any race (`TableInv`), a call is missing from the reports only if it overlapped one, or was not yet reported when a report met a `qsort`, which moves everybody's rows (`ReportsAreExact`), reports and calls end (`NoThreadIsStuck`). With it: the table is in order whenever it is free (`TableInv`), nothing is reported twice and `qsort` loses nothing (`ReportsAreExact`) — and calls are still lost between `WriteToFile` and `ClearStat`. |
| `StatTime` | The sum is right modulo 2^64 although a negative microsecond part wraps and the carry then goes the wrong way (`SumInv`); the extremes are those of the calls, and the columns count the slow ones (`SpansAreCounted`). |
| `LogRotation` | Over gaps left by failed or interrupted rotations: files stay in order and lose the oldest reports first, but for those in a file that a failing `access()` passed by and the next rename may replace (`OldestLostFirst`), a log of `m_iLogMaxNum - 1` files is kept if nothing failed (`EnoughIsKept`), each failure costs at most one report of extra growth (`GrowthIsBounded`). |
| `NetComplete` | Every fragmentation of every stream gives the same frames, and the queues are served in turn, but for the wrap of the counter (`FramingInv`); a connection is closed only for a length field nobody may send, or for a frame so near the limit that the bytes behind it fill the cache (`ClosedForCause`); every good frame is cut in the end (`EveryFrameIsCut`). |
| `OpScripts` | If scripts do not overlap, no server runs without its pid file (`PidInv`) and ccd and mcd run on the same queues (`SameQueues`); overlapping or not, check.sh brings both servers back (`ServersComeBack`). The first two need the condition: a check.sh that starts mcd while start.sh does leaves two. |
| `RegexDoctor` | (The whole `RegexQuestionDoctor`.) The index holds whole tables, each word with the numbers of its first row and none of its later ones, and one failing call to the database, other than the one that fetches a result, loses no table (`IndexInv`); which beginnings and endings of a question decide what a lookup finds, among them when an ending hides a beginning (`LookupsGoByBeginnings`). `MatchQuery`, which holds the mutex, answers from one whole table, and so does `Tokenizer`, which does not, as long as no load touches the table meanwhile (`MatchesAWholeTable`); a load leaves one version of the file unless it was written to while being read (`LoadInv`); an edit made during a load is still taken (`EditsTakeEffect`). |
| `WeatherData` | The fallback table is the load before (`TablesInv`); how far a forecast can be off when midnight and a load come between counting the days and searching (`DatesDriftWithTheClock`); hints are given only on an area's first day (`HintsOfTheFirstDay`); the unlocked threads and the unchecked index do no harm between loads and with full lines (`UndefinedForCause`); what "no" means of today, and that a day out of the week is answered as cold and clear (`TextsFitTheDay`); today's file is loaded, late or rewritten — but one with a temperature it cannot parse keeps the handler down as long as it stands (`TodaysFileIsLoaded`). |
| `Words` | The parts of `Split` with the delimiter between them are the text (`SplitInv`); the two lower-casings agree, a character cut in half included (`LowerCasingsAgree`); the kinds of words, of codes and of addresses exclude or contain each other as they should (`KindsAgree`). |
| `DroppedReplyReported`, `FoundJokesAreAnswered` | *Expected violations*, see [section 7](#7-where-code-and-text-disagree). |

An invariant named `...Inv` is the conjunction of its module's `TypeOK` and of
the named safety properties defined just above it, and `ReportsAreExact` and `KindsAgree` are
conjunctions too; for `LogRotation`, types are proved instead (`LogTypeCorrect`).

## 4. Bounds

Each bound is a constant, and the instance is chosen so that the case a
property is about happens (the mutants show that: each property fails when the
code it is about is changed).

- `JokeLibrary`: files of up to 4 lines over styles 0, 1, 2 and a skipped line;
  type files of up to 2 lines over 2 words; answers of 2 jokes. This has dense,
  gapped, scarce and empty dictionaries, and a style 0, which cannot be asked for. `W32` is 16
  and is reached by no file but the empty one, whose `idx - 1` wraps.
- `CQAServ`: 2 connections, 2 requests of 4 kinds with 5 questions (no match; a
  type with jokes; only other tags; a type with jokes, then one without; a type
  without, then an unknown word), a dense and a gapped dictionary, batches of
  2, queues of 2 and 1, one fault at any point. Two requests are enough for one
  to meet what another left; a third, for which `MCRequest` asks that all come on
  one connection and match one type or nothing, is enough for a batch to end at
  its limit with a request behind it; a response queue of 1 to be full; one fault
  (exception, failed encoding, failed `try_dequeue`, SIGTERM, SIGKILL) for a restart in any state.
  Crashes of the code itself (a gap) are not bounded. `CHECK_DEADLOCK` is off
  here, as in the other runs that end when their inputs do.
- `CStatistic`: 3 names for a table of 2, 3 calls, 2 reports: a full table, a
  call between a report's two halves, a row cleared under a call, one held aside
  by `qsort` while a report passes.
- `StatTime`: 4 microseconds to a second, 64 and 16 for the widths, limits 1, 3
  and 6, four calls of nine differences, of no time and of negative time included.
- `LogRotation`: 4 files of 2 reports, 14 reports, 3 faults: the oldest file is
  removed several times, over every gap two failures leave, and a file passed by is replaced.
- `NetComplete`: a length field of 2 bytes, limits 6 and 20, reads of up to 3
  bytes, 2 connections, 2 queues, a counter that wraps at 3.
- `OpScripts`: from all stopped and from all running: one script of the
  operator, one crash, any number of check.sh, 4 process ids. With these no
  process id is ever lacking.
- `RegexDoctor`: 2 questions at once, 1 edit (so a load can be overtaken), files
  with malformed and short lines; 3 tables, one of the wrong shape, with words of 1,
  2 and 4 bytes, some in several rows and tables; 2 failing calls, as many as one
  statement is tried; lookups of all questions of up to 7 bytes in characters of 2 —
  short ones, split ones and ragged ones.
- `WeatherData`: 2 days, 1 fetch besides the files there are at first, 2 areas one
  of which contains the other's name, a date past, dates 0, 1 and 8 days ahead, lines with no,
  one and seven days ahead, a short one, one of no fields and one that throws. A
  date that slips through `localtime()` is followed for the days that may be asked for.
- `Words`: all texts of up to 5 characters, a delimiter of one character and one
  that overlaps itself; all 65536 two-byte codes; all addresses of up to 5 of 8 pieces.

## 5. Fairness

Fairness is assumed only of what runs by itself; clients, signals, failures,
editors and operators owe nothing.

- mcd's one thread: weak fairness of its next step while it is alive. ccd reads
  the response queue, cron starts check.sh every minute (in `CQAServ`, `Restart`;
  in `OpScripts`, `Minute`): weak fairness each. This covers the restart only
  while the crontab entry is there, which start.sh sees to.
- `rand()` reaches every value: weak fairness of "a new joke is drawn, or the
  process dies". A draw of a joke already taken is a stuttering step, so this says
  that a draw that can succeed does in the end, and nothing when none can.
- `CStatistic`: both threads run; strong fairness of the three lock calls, for
  the other thread takes and gives back the mutex any number of times and the
  kernel wakes waiters.
- `NetComplete`: strong fairness of a connection's receive, for ccd serves
  connections in turn. `RegexDoctor`, `WeatherData`: the notifier's and the
  timer's thread, and a question being matched, get on.
- `RegexQuestionDoctor` and `WeatherData` after a crash: the process is started
  again (by check.sh, as in `OpScripts`): weak fairness of `StartAgain` in the one, part of
  `Die` in the other. Failing calls to the database are bounded, and owe nothing.

## 6. What is proved

All theorems hold for every value of the constants under the assumptions their
modules name (`JokeInfoAssumption`, ..., `OpScriptsAssumption`: one module, one
assumption). These say what the constants are — a file is a sequence of lines,
a width is a positive number, a marker is not a value — but for four: that a
dictionary is one (`GetJokesAssumption`, `DictionaryAssumption`), which
`JokeLibraryProofs` shows of the loader; that the columns' limits ascend and a
second is shorter than the sum can count (`StatTimeAssumption`), which the
constants of `common_stat.h` do; that a log has at least two files
(`LogRotationAssumption`), without which the code never rotates; and that there
are the two processes a running system starts with. The listed results are in
`PROJECT.json` under `theorems`.

- **`JokeLibraryProofs`**: the loader, for every file: `JokesPartitioned` is
  inductive with `LoadTypeOK` (the step that counts is `PushBackPartitions`: a
  new number goes to one style). `LoadsTheFile` speaks only of the end of the
  loop, so it is strengthened by `GroupedSoFar` — the styles hold the grouping
  of the lines read so far, and `idx` is their number. `DictionaryCorrect`
  concludes that what is loaded satisfies `IsDictionary`. The sampler, for every
  dictionary and sequence of calls: `SamplingInv` adds `Bookkeeping` — the
  history is the set of the numbers in the answer, it has as many elements as
  the answer has places, and the branch a call is on follows from its style.
  Without it that an answer has no joke twice is not inductive, nor can
  `NoReturnWhenScarce` be derived: an answer of `MAX_JOKE_NUM` different jokes
  out of the stock needs that many there. The composition: `LibraryInv` joins
  both; while loading, no call runs; once ready, `SamplingInv` holds. What
  `GetJokes` assumes of its dictionaries is discharged here
  (`CallsFindADictionary`), so the `Library...` theorems rest on no assumption
  about dictionaries. Then the text helpers of `Words`, for texts, codes and
  addresses of any length. `Split`: `SplitInv` speaks of the last step, so `SplittingInv` says
  what holds before it, that the parts so far, each with the delimiter behind it, are what has
  been read, and that none of them holds the delimiter (`NotWithinAPart`: what is within a part
  is within the text, at a place before the first one found). The lower-casings:
  one works on the whole text and forwards, the other on what is left; that they
  agree (`LowerCasingsDoTheSame`) goes backwards from the end of the text, and
  needs that what the first does behind a place leaves everything before it alone
  (`OnlyCasesChange`). The kinds: for a number, the dots that count are those
  between digits, so two beside each other are two that do not count; for an
  address, slashes at its end change nothing (`OneMoreSlash`).
- **`RequestServiceProofs`**: of the abstract service, for any number of
  requests: requests keep their order at every stage, one is handled at a time,
  a concluded one stays so. `OrderInv` is the inductive invariant (order alone
  is not: two requests being handled could conclude in either order).
- **`CQAServProofs`**: the mcd process, for any number of connections, requests,
  questions and faults, any room in the queues, any dictionaries. `OwnInv`
  strengthens `ReplyToOwnFlow` by: what is queued or in hand was sent with that
  number, and while a reply is being made `m_seq_no` is the number of what is in
  `m_recv_buf`. `AnswerInv` strengthens `AnswersFitTheQuestion` by what
  `TokenByNlpTool` knows between two tags: a style asked for that has jokes is
  still to come in `rv`, or `ans_size` is not 0 — so the call for any style
  happens only when no style asked for has jokes. `CountersInv` is inductive as
  it is; `NoSilentLoss` needs types only. The refinement: `SeqInv` adds that all
  requests stand in one line (`LineInv`): delivered, reply waiting, in hand,
  queued, not yet sent, their numbers growing along it. One lemma for each of
  the four moves of the line shows it to be an action of the service, and one
  per step of the code shows which move it makes, or that it makes none.
  `ProcessedInOrder` carries the service's order over to the code's model.
- **`StatisticsProofs`**: three modules. *The log*: types; no rename replaces a
  file but one that `access()` failed to see just before (`OnlyUnseenAreReplacedCorrect`: in the
  middle of a rotation what stands above the next file to move is `unseen`); but for
  those, reports are lost oldest first; growth is bounded. `OrderInv` is inductive with
  that; `SizeInv` adds that a completed rotation leaves no newest file, so that
  only a failure lets a large one grow; `PackedInv` that, as long as no call
  failed, a file behind the newest is large enough, or it and all older ones are
  yet to come, with one place free in the middle of a rotation. What the files
  hold adds up (`FullFilesAddUp`) because they are in order. *The times*: `SumInv` and
  `SpansAreCounted` for all widths, limits and times; the sum is right modulo
  2^64 although a microsecond field that wraps carries the wrong way, for what leaves
  one field is in the other, or a multiple of 2^64. *The table*
  (`TableCorrect`): in every interleaving no index is past the table, with the
  mutex one thread is within at a time and the rows are in order whenever it is
  free. Without the mutex types and `RoomIsLeft` are inductive: only the mcd thread adds
  rows, the timer thread only takes all away. With it, `RowsInOrder` follows a
  row from the end of the table, under a name the others have not, to its place
  (`SortingOrders`, `EverySlotGetsARow`: sorting by rank neither loses nor doubles a
  row). *What is reported* (`ReportsCorrect`), with the mutex and without: `AccountsInv` says between any two steps what
  `ReportsAreExact` says when both threads rest. To what has been reported it adds what is `Due`:
  the calls counted in the rows the log has yet to get, none of them while the table is being
  cleared, and without a new row until it is sorted in. With the mutex that is never more than the
  calls made (`AtMost`). With it or without, as long as the call in hand has no
  `qsort` that a report met (`torn`), it is never less than the calls made and not `excused` (`AtLeast`): those that a report
  overlapped and, at the end of a torn `qsort`, all that were not yet reported. While `qsort`
  moves the rows one by one, the table is taken to be what it found: `Table`, which reads the
  places already written from what was held aside (`SortInv`, `MovingKeepsTable`), and in the end
  the rows are that table sorted (`SortedInTheEnd`), so that no mark is lost or doubled
  (`SortKeepsAllMarks`). What a call finds that has the table for itself is `Undisturbed`, and
  what holds in any race `InAnyRace`.
- **`RegexDoctorProofs`**: for any number of threads, patterns and files, and of
  the whole doctor (a step of the constructor is a stutter of the patterns).
  `ScanInv`: the mutex belongs to the thread within it, outside a load the
  vector is the table the last load left, and behind a valid iterator nothing
  matches. `MatchesAWholeTable` speaks of one step and follows: the step that
  returns is the thread's own, the vector is the table, what the iterator stands
  on is the first match. `LoadsOneVersionCorrect`: the patterns taken so far are
  those of the lines read so far. `IndexCorrect`: the index is that of the rows
  inserted so far, each word with the numbers of its first row; that one
  failing call loses no table — the retry of `SelectData` — needs in the
  invariant that a handle that is not connected, or a retry, has a failed call behind it. `LookupsCorrect` is about the
  code's splitting of a question: for every index, question and width.
- **`WeatherDataProofs`**: for any files, areas, days and interleaving of loads,
  deaths, midnights and requests. `WeatherInv` is the types (`Types`), what each
  stage of the loader and of a request knows (`Stages`), what the tables are
  (`Tables`: the table being loaded holds the rows of the lines taken so far,
  the fallback those of the file loaded before), that a request made
  when today's file had been loaded is given a row of a day since then (`Fresh`), and that
  an area's index is of the first day it was listed (`Hints`). The four action properties
  are each a lemma about one step in such a state.
- **`CcdProofs`**: what is around ccd. *The scripts*, for any number of processes, commands and crashes.
  `NoOrphan` and `SameQueues` speak of states in which nothing is under way, and
  are far from inductive: in the middle of a script a process may run on old
  queues, or have a successor about to be started. `ScriptsInv` says why that
  comes right, from two sides. What is left of a script is `Orderly`: a server
  is started right after its predecessor is told to stop, and left alone from
  then on; after the queues are cleared, both are stopped. And as long as no
  script has begun over another (`Follows`): where a server is about to be
  started none of its kind goes on, while one starts nothing is done to it,
  everyone past that is named by its pid file, and who uses old queues is still
  to be stopped. One lemma per command, on any orderly script, so that the
  operator's scripts and `check.sh` share them. *The plug-in*, for any streams,
  limits, sizes of reads and numbers of queues. `CutInv` adds where the cache
  begins: as long as all frames so far were well-formed, at the next one, and
  no length field is read where none is, for frames lie one behind the other
  (`FramesAreInARow`). `CacheInv` says why nobody is closed without cause: a
  cache that has been looked at has less than a frame, and one that is being
  looked at is within the limit. `RouteInv` counts the rounds and the wraps: what
  the queues got differs by one within a round, and each wrap can add one, for
  2^32 need not be a multiple of the number of queues.
- **`DataLemmas`**: induction over numbers, stated for a set in place of a
  predicate (`UpToInduction`, `DownwardInduction`; `LeastNumber`); that a function
  defined by a recursion that goes down in some rank has a value everywhere
  (`SolutionByRank`); and the facts about sequences and
  `AtPlaces` the others rest on. What a recursive function or a loop leaves of a
  file of any length is proved with these: the set is that of the lengths for
  which the claim holds.

Checked by TLC only: everything under fairness (`CallReturns`,
`EveryRequestConcludes`, `NoThreadIsStuck`, `EveryFrameIsCut`, `ServersComeBack`,
`EditsTakeEffect`, `TodaysFileIsLoaded`), for TLAPS proves no liveness here.

## 7. Where code and text disagree

- **A dropped reply is counted as sent** (`DroppedReplyReported`). `Enqueue2Ccd`
  returns 0 whatever the queue said (`wqa_mcd_proc.cc` 395–400); the branch that
  logs "Failed To Enqueue Data To CCD" and counts -1 (362–365) is dead.
- **Jokes found and not sent** (`FoundJokesAreAnswered`). Every `GetJokes` clears
  the answers while `ans_size` adds up (`wqa_mcd_proc.cc` 284–294, `joke.cc` 140): a
  question whose last type tag has no jokes logs that some were found and is
  answered with none.

Smaller ones are visible in the conditions of properties that hold: the
report's columns are headed ">" and count with ">=", each call in one column,
and a call of exactly the highest limit in none; its minimum treats 0 as "none
yet" (both in `SpansAreCounted`); rows are in name order, which
`bsearch` needs, only with the mutex the server does not use (`TableInv`);
stop.sh leaves the crontab entry, so what it stopped starts again within a
minute; `util.h` 38–41 draws the reserved codes as part of the GBK codes, but A2FF, A4FF
and A5FF are reserved and not GBK (`CodesAreNested`); the later rows of a word are
added to a copy of its list, which is dropped (`FirstRowsOnly`); a listed ending after
an unlisted beginning finds nothing and can hide a listed beginning, and a question of three characters or more is
never looked up whole if its bytes are not a whole number of characters
(`FindsByBeginnings`).

## 8. What is not modelled

- mcp++ (ccd, epoll, shared-memory queues, timers), protobuf, the long-connection
  protocol and the NLP pattern library are not in this repository: external
  actions model how this code uses them.
- `CQAServ`: reading the configuration in `Init`, and `ReloadNlpPattern`, whose
  subscription is commented out. A `try_dequeue` that fails is taken to leave `data_len` 0, as
  one that finds nothing does; the queue is not in this repository, and were it to leave another value
  the loop would go on with the request it had.
- `RegexDoctor`: a `ReadLine` that returns an error. `rsize` is unsigned (`regex_question_doctor.cc`
  306, 321), so the loop would not end, with the mutex held.
- `ReverseIndex`: an SQL NULL in a row's second or third column, which would kill the process
  (215–233) in every start, as a missing handle does in the model.
- `WeatherData`: the loader's own file name and `cur_date` come from `localtime()`
  (426–428), and a request's call across midnight could change them, too; the model takes the day it is.
- `RegexQuestionDoctor`: its reverse index is modelled as if it were switched on;
  as committed, `m_allow_token` is 0, nothing sets it, and nothing calls the lookups. Its
  leak of `Regex` objects, and its destructor, whose loop never advances the iterator,
  are plain from one line each.
- `CommDB`: `UpdateData`, `Commit` and the getters have no caller; the retries are
  those of `SelectData`.
- `WeatherBusiHandler`: `PreHandle`, `ConvertDate` (which has eight entries for the nine
  names of days), `CountBaseIndex`, `GetWeight` and `DebugPB` keep no state or have no
  caller; the wording of the answers is left out.
- `util.cc`: `IsReservedWord`, `IsValidWord` and `IsIgnoreWord`, which have no caller.
- Time comparison but for `compareNowDays`, and character conversion: wrappers around
  libraries that are not here.
- Scripts that nothing starts in this deployment (watchdog, dcc, `reload_mcd.sh`),
  packaging and data fetching; the released copy of the deployment.

## 9. Plan

Done, in this order: `RequestService` and `CQAServ`, the core; `JokeInfo`,
`GetJokes` and their composition `JokeLibrary`; `CStatistic`, `StatTime` and
`LogRotation`; `NetComplete`; `OpScripts`; `RegexDoctor`, `WeatherData`,
`Words`; proofs of the library, the service and the rotation; then `ReverseIndex`
and its composition with `RegexDoctor`, the texts, faults and `localtime()` races
of `WeatherData`, the codes and addresses of `Words`, and the proofs of the pattern
table, of `CQAServ` and of its refinement;
then the proofs of the statistics, of the index and the loads of the doctor, of
`WeatherData`, of `OpScripts`, of `NetComplete` and of `Words`.

Every invariant and action property the runs check is now stated by a theorem; liveness is
left to TLC. What can still be added are theorems of what the compositions promise together.
