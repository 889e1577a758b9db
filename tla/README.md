# Rocket Watcher: TLA+ specifications

Rocket Watcher polls a launch schedule (Launch Library 2), decides who should
be told what about which launch, and sends Pushover notifications. It is a
small sequential program whose correctness lies in time: what it sends now
depends on a file written by earlier cycles, by processes that may have died
half way, about launches whose time, precision and status keep changing.
These specifications model the program's control (every state change, guard,
early return and error path), check it with TLC on small instances, and prove
what matters most with TLAPS for every value of the constants.

Line numbers without a directory refer to `src/` (`core.cpp:171` is
`src/core.cpp`) or `include/rocket_watcher/`.

## 1. The system and its parts

| Part | State it keeps | Operations | What makes it correct |
|---|---|---|---|
| Decision core (`core.cpp`, `domain.hpp`) | none; works on a map of Alert Records | `decideForLaunch`, `updatedRecord`, `decideCycle` with its retention loop | no alert twice, no less urgent alert after a more urgent one, no correction the rules call for left over or repeated |
| Cycle (`orchestration.cpp`) | locals of one `runCycle` call | fetch, load, decide, dry-run return, save, deliver | what is sent is remembered first; a failed fetch, load or save sends nothing; everybody is attempted |
| Alert Record store (`storage.cpp`) | `<path>` and `<path>.tmp` | `load`, `save` (temporary file, rename, cleanup) | the file is one whole saved text at every instant; save and load are atomic |
| Launch Library source (`launch_library.cpp`) | none | `fetch`, mapping of one item | what it reports satisfies what the core relies on; nothing lost, nothing unreadable goes unmentioned |
| Pushover channel (`pushover.cpp`) | token and user keys | `send`, `interpretResponse` | one request per message and recipient; ok exactly when the service accepted |
| Commands (`cli.cpp`) | exit code; `g_stop_requested` for `watch` | `once [--dry-run]`, `watch`, `test-notification` | exit codes tell the truth; `watch` keeps polling and stops promptly |
| Arguments, configuration, secrets (`cli.cpp`, `config.cpp`) | `ParsedArgs`, `Config`, `PushoverSecrets`, the environment | `parseArgs`, `loadDotenv`, `loadConfig`, `resolveSecrets` | a command runs with a sound policy and every recipient's own secret, or not at all |
| Relevance (`relevance.cpp`, `strings.cpp`) | none | `evaluateRelevance`, `toLower`, `trim`, `searchableFields` | a launch is judged by everything the source says of it, and by nothing else |
| Time codec (`time_utils.cpp`) | none | `parseIso8601`, `formatIso8601Utc`, `formatDisplay`, `formatDisplayHour` | a text and the instant it is read as are the same time, and what is written is read back |
| Record text (`storage.cpp:17-89`, `domain.cpp`) | none | `recordToJson`, `recordFromJson`, the enumerators' names | `load` returns what `save` was given |
| Message formatting (`formatting.cpp`) | none | `formatAlert` | every alert has a message; its times are those people can compare |
| HTTP transport (`curl_http.cpp`) | none | `perform`, `curlHttpGet`, `curlHttpPostForm` | a failed request is not taken for an answer |

How they interact: `runMain` parses, loads and resolves, then runs a command.
`once` calls `runCycle` once, `watch` in a loop with an interruptible sleep in
between. `runCycle` calls the source, the store, the core (which asks the
relevance test first), the formatting, the store again and the channel, in that
order, synchronously. Source and channel call the transport; source and store
share the time codec. There are no threads. Concurrency comes from outside:
several processes may share one record file (a `watch` in its container, a
`once` or a dry run started by hand), a signal handler sets a flag at any
instruction, and a process may be killed and restarted between any two steps.

What is hard here:

* **crashes** between save and send, between two deliveries, and between the
  system calls of a save;
* **interleaving** of processes on one file, and of the signal with the sleep;
* **stale data**: the cycle's clock reading and its copy of the records grow
  old while requests run; the save is skipped on the strength of a size
  comparison;
* **deletion of memory**: records expire, and with them the knowledge of what
  was sent;
* **long sequences**: hold, slip, loss of precision and back, over many cycles;
* **partial failure** of one item, one delivery, one write; a request whose
  reply is lost;
* **time**: a clock that steps back, cycles that last, an interval between two
  looks at a window, times written and read back across offsets and zones.

`PROJECT.json` lists these hazards one by one, at their lines, with the
properties that cover them.

## 2. Modules

| Module | Models | Code |
|---|---|---|
| `AlertCore` | the decision core as operators: domain sets, the rules of `decideForLaunch` as named conditions, `updatedRecord`, `retained` | `core.cpp`, `domain.hpp` |
| `Watcher` | any number of processes running `runCycle` against one record file and one clock; extends `AlertCore` | `orchestration.cpp`, `decideCycle`, `cli.cpp:63-102` |
| `AtomicCycle` | abstract specification of `Watcher`: a cycle takes effect at one instant | |
| `WatcherInvariants`, `WatcherProofs` | two inductive invariants (what was sent, what a cycle knows), the proofs and the refinement | |
| `Store` | `save` and `load` as system calls on directory entries and inodes | `storage.cpp` |
| `AtomicStore` | abstract specification of `Store` | `storage.hpp` |
| `StoreProofs` | invariant and refinement proofs | |
| `WatchLoop`, `WatchLoopProofs` | the `watch` loop, sliced sleep, stop flag, aborts and container restarts | `cli.cpp:19-102` |
| `Punctuality`, `PunctualityProofs` | one watch with durations: the poll interval, the length of a cycle, failures in a row, against the alert windows | `cli.cpp:84-102`, `orchestration.cpp`, with `AlertCore` |
| `Http` | what the transports make of a request | `curl_http.cpp` |
| `Delivery`, `DeliveryProofs` | the one-shot commands and the delivery loop down to the reply of the service, up to the exit code | `cli.cpp`, `orchestration.cpp:90-98`, `pushover.cpp` |
| `LaunchLibrary`, `LaunchLibraryProofs` | one `fetch`: the request, then item by item | `launch_library.cpp` |
| `Relevance` | the relevance test as operators on texts of letters | `relevance.cpp`, `strings.cpp`, `domain.cpp:96-103` |
| `RelevantLaunches` | composition: the launches of one fetch put to the test in turn (proofs in `LaunchLibraryProofs`) | `core.cpp:167-174` |
| `TimeCodec` | the time formats over the calendar of `std::chrono`, as operators | `time_utils.cpp` |
| `RecordText` | a record's fields as text, and back | `storage.cpp:17-89`, `domain.cpp:11-94` |
| `Formatting` | what a message says | `formatting.cpp` |
| `DataPath`, `DataPathProofs` | composition: one launch's times from the source's text through decision, message and file, cycle after cycle | `core.cpp:21-67`, `orchestration.cpp`, with the three above |
| `Startup`, `StartupProofs` | from the command line to a command about to run | `cli.cpp:144-229`, `config.cpp` |
| `MC*` | values of the constants for TLC | |

The modules are joined by what one promises and another assumes:

* `Watcher` reads and writes the file in one step each. `Store` shows that this
  is justified: with one saver, `save` and `load` are atomic
  (`RefinesAtomicStore`).
* The launches of `Watcher`'s source are those `LaunchLibrary` can report: no
  time implies precision `unknown` (`SourceContract`).
* `AlertCore`'s assumption on the policy (positive durations, imminent before
  soon) is what `Startup` guarantees (`PolicyIsSound`), except for the narrowing
  of wide integers described in section 6. `PolicyIsReliable` proves that the
  narrowing is the only exception.
* `Delivery` takes for granted that every recipient has a key; `Startup`
  guarantees it (`EveryRecipientHasOwnKey`).
* `WatchLoop` treats a cycle as one step; `Watcher` shows its inside.
* `Watcher` and `Punctuality` take from the source a launch with its relevance;
  `RelevantLaunches` shows what the judgement rests on.
* The records of `Watcher` are decisions' memory; `DataPath` shows that their
  full form survives the file (`LoadReturnsSaved`).
* `LaunchLibrary` and `Delivery` extend `Http`: both see the same transport.

### How the states correspond

*Watcher.* `pc[p]` is the line of `runCycle` process `p` is at: `fetch` (22-27),
`load` (37-39), `decide` (the loop `core.cpp:168-183`, one launch per step),
`save` (76-88), `send` (90-98, one delivery per step), `done` (returned). The
other variables carry the names of the code's locals: `now`, `launches`,
`loaded` (`records`), `recordMap` (`record_map`, then `updatedRecords`),
`alerts`, `outcome`. `todo` and `next` are the positions of the two loops.
`disk` is the record file. `notified` is a history variable. It collects the
once-only alerts handed to the channel; no guard reads it. A record keeps the
last facts, the set of kinds sent (the code reads the list only as that set,
`core.cpp:49-52`) and the time of the last alert.

*Store.* `path` and `tmp` are the inodes the two names refer to, `content` the
pieces written to each inode, `handle` the inode a process has open. Texts differ
in `Length`, so what one save leaves behind may be longer than the next text. A reader
that opened the file before a rename goes on reading the old inode.

*WatchLoop.* `check` is the head of the loop in `interruptibleSleep`, `slice`
its one-second sleep, `stop` is `g_stop_requested`. `told` (history) says whether a
signal was sent and whether it was heard: before the handlers stand it kills the
process, or, where the process is the container's first, is ignored and the loop
goes on.

*Startup.* `pc` follows `runMain`; fields of the configuration file are chosen
where the code first reads them. `Narrow` is the `static_cast<int>` of
`config.cpp:35`.

*LaunchLibrary.* `answer` (history) is what became of the request: completed or
not, its status, the class of its body. An item is a record of the fields the
core's behaviour depends on, each with a value for "missing or unusable"; texts
are sequences of letters, so that `Relevance` can search them. `matched`, in
`RelevantLaunches`, grows by one entry for each turn of `decideCycle`'s loop.

*Delivery.* An outcome is a transfer (completed, HTTP status, class of the body's
`status`) and whether the service took the message in, which it may do although
its reply is lost. `posted` and `accepted` are histories of the requests made
and of the deliveries taken in.

*DataPath.* One step for each part of a cycle that touches a time. `net` is the
source's text, `file` the record's text, `record` (history) what the last save
was given, `shown` (history) the time the last message gave. The record is that
of `domain.hpp` in full, with its list of alerts; `CoreRecord` is the part the
decision reads.

*Punctuality.* `elapsed` is the time since the cycle or the sleep began. `since`,
`failures`, `told` and `spent` are histories: when the source last changed its mind,
how many cycles failed in a row, what time people believe and whether they were
counted down, and whether they were when the source last changed its mind. Fetch, decision and delivery take any time, `MaxCycle` together.

## 3. Runs

`tlc -config <cfg> <module>`; every passing run completes without error.

| Run | Module / cfg | Checks | Bounds and why they are enough |
|---|---|---|---|
| `one_launch` | `MCWatcher` / `MCWatcherOneLaunch` | `TypeOK`, `IInv`, `RecordedBeforeNotified`, `NoRepeat`, `UrgencyNeverDrops`, `DiskIsDecision`, `CorrectionsSettled`, `RecordsRemember`, `CycleInv`, `RefinesAtomicCycle` | One `watch`, one launch that may be reported with two times two units apart (exactly the correction shift), at the earlier one also on hold or precise to the hour, without a time and with unknown precision, irrelevant, or not at all. (A vague precision with a time, and a hold at a later one, are in `punctual`.) Clock 0..6, and it may step back by `MaxStepBack` = 1: first alerts, updates, corrections and skipped saves occur, and a record of the first windows can expire while the launch is still listed. `Retention` = 4 = `LaunchSoon + 2 * MaxStepBack` = `2 * HourWindow + 2 * MaxStepBack` is the tightest retention the proof allows. |
| `two_launches` | `MCWatcher` / `MCWatcherTwoLaunches` | `EveryoneAttempted`, `CycleInv`, `RefinesAtomicCycle`, `DryRunIsPure`, `DeliveriesComplete` | One `once` process run again and again beside a dry run of the same file; two launches, so that a cycle decides and sends several alerts in either order, and two recipients, so that one delivery can fail between others. Launch time 1 and clock 0..1: the alerts are the imminent ones of the two launches and nothing else; corrections, updates and expiry are the run `one_launch`'s. Fair steps (section 4). |
| `store` | `MCStore` / `MCStore` | `PathWhole`, `IInv`, `RefinesAtomicStore` | A saver and a reader, a text of two pieces and one of one: a failed save can leave behind more than the next one writes. Three inodes: the record file, the temporary file, and a replaced file still open for reading. |
| `launch_library` | `MCLaunchLibrary` / `MCLaunchLibrary` | `SourceContract`, `NothingLost`, `UnknownIsWarned`, `SearchesEveryField` | Every outcome of the request: not completed, a status of each class, a body of each class. Up to two items, so that one stands before or after a broken one; one name of every class the tables distinguish; a text in each searched field or not, terms spelled in another case, inside a field, and on the comma that joins pad and location. |
| `data_path` | `MCDataPath` / `MCDataPath` | `LoadReturnsSaved`, `TimeMeansWhatWasSent`, `EveryAlertRenders`, `ChangeIsVisible`, `WasIsWhatWasShown` | Real months and leap years, with days of four hours of three minutes of two seconds so that the policy's spans are few seconds. Source texts with offsets on either side of UTC: the last minutes of a year and an hour later, a leap second that is a leap day in UTC, a minute of the year 9999 that is the year 10000 in UTC, and one that does not parse; a display zone set back by an hour between the first two. `MaxAlerts` = 3 alerts in a record. |
| `startup` | `MCStartup` / `MCStartup` | `EveryRecipientHasOwnKey`, `GivenSecretsUsed`, `RunsComplete`, `PolicyIsSound` | Command lines of up to three arguments, two recipients, two variables with every value in environment and `.env`; each integer absent, 0, or 60, the default of the soon threshold. |
| `watch_loop` | `MCWatchLoop` / `MCWatchLoop` | `IInv`, `StopsPromptly`, `PollsAtInterval`, `StopEndsWatch`, `KeepsPolling` | The shortest interval the configuration accepts, one minute, in its real sixty slices. |
| `punctual` | `MCPunctuality` / `MCPunctuality` | `IInv`, `ToldInTime` | Interval 1, cycles of up to 1, one failure in a row: a reaction (4) and one more cycle are exactly the window of 5. (With a window of 4, TLC finds `ToldInTime` violated.) An early launch time that spends both countdown kinds before the launch slips to a late one; two late times closer than a correction asks for, a hold, two ways to be vague. Clock 0..14: the promise can be made at any time up to `Reaction + Window` = 9 before the late times 12 and 13, and both pass. |
| `delivery` | `MCDelivery` / `MCDelivery` | `ExitCodeTells`, `EachPostedOnce` | Three recipients, up to two alerts, every outcome of every request. |
| `relevance_loss`, `startup_wide`, `delivery_throws` | | one statement of the documents or the code each, which TLC refutes | section 6 |

What the properties say, in short:

* `RecordedBeforeNotified`: nothing is sent that the file does not already
  remember with the facts it was based on. `NoRepeat`: no recipient gets the
  same countdown or hour alert for the same launch time twice.
  `UrgencyNeverDrops`: no "soon" after an "imminent". `CorrectionsSettled`:
  after a finished cycle no record differs from the listing in what the correction
  rules compare, and deciding again gives no correction, so none is left over or
  repeated. That is by the code's own rules: there is none for a hold that is
  lifted (section 6), and the property does not say that people know of it.
  `DiskIsDecision`: skipping the save when "nothing changed" is right.
  `RecordsRemember`: the file forgets a record only after the retention and
  never loses a kind from one it keeps. `EveryoneAttempted`: a failed delivery
  does not keep the others from being attempted. `RefinesAtomicCycle`: with one
  writer, all the steps and failures of a cycle amount to one atomic decision
  about one listing, one state of the file and one clock reading.
* `PathWhole`, `RefinesAtomicStore`: whatever fails and whoever dies, the file
  is one saved text and a load returns the text of one instant or fails.
* `StopsPromptly`: after a stop request only the cycle or slice under way comes
  to its end. `PollsAtInterval`: between two cycles lies exactly the interval.
* `NothingLost`: every usable item of an answer is reported, as the launch at
  its place (`Place`, the usable items up to it), the others are warned of, and
  only a completed answer with a status below 400, the line the code draws, is
  taken for one. `UnknownIsWarned`: a status or precision the source sent and that
  is mapped to unknown has its warning (the speculative statuses, unknown on
  purpose, apart), the precision of a launch without a time
  included; a good precision is given up only for want of a time, silently when the
  source gave none and with a warning when it could not be read.
  `SearchesEveryField`: a launch is judged by everything the source says of it,
  whatever is missing and whatever stands before it.
* `ExitCodeTells`: exit 0 only if the service took everything in, exit 1 only if
  something failed or was not acknowledged. `EachPostedOnce`: a lost reply leads
  to no second request and keeps nobody from the first.
* `LoadReturnsSaved`: a cycle decides with the records the cycle before saved,
  field by field; the exception, a launch time in a year of five digits, is
  stated in the property. `TimeMeansWhatWasSent`: a clock at the offset of the
  source's text shows, at the instant read, what the text says.
  `EveryAlertRenders`: formatting throws for no alert the core creates.
  `ChangeIsVisible`: a message of a changed time never gives one time twice,
  also when summer time ends between the two. `WasIsWhatWasShown`: the earlier
  time a correction gives is the one people were last shown; excepted is a
  correction after one that withdrew the time, when people hold none and the
  earlier time may be one they never saw.
* `ToldInTime`: take a launch that was promised (go, precise, unchanged since) a
  reaction and an imminent window ahead: early enough for two cycles, one that may
  have a correction to send and one inside the window. When its time comes, people
  have been counted down, and hold no time that a correction would still change,
  although the countdown kinds may have been spent on an earlier time and records
  may have expired. Two things it does not say: the countdown may have been for that
  earlier time, as the code sends one only once; and people counted down *before*
  the promise (`spent`) may be left without a time if the last they were told was a
  hold or a vague time, since no kind of alert is left that would tell them.

Bounds: `MaxTime` bounds the clock and with it the run of a `Watcher` and of
`Punctuality`; `MaxStepBack` how far the system clock steps back;
`MaxCycle` and `MaxFailures` how long a cycle takes and how many fail in a row;
`MaxItems`, `MaxArgs`, `MaxRecipients`, `MaxAlerts` bound lists; `Inode` and
`Chunks` bound the store. `Status` in `Http` is one status of each class the
callers tell apart (200, another below 400, one from 400). `IntWidth` is 8 in
`Startup`'s runs for the real 32, so that integers too wide for it are small
numbers. `CHECK_DEADLOCK FALSE` appears only where the program ends (`Startup`,
`LaunchLibrary`, `Delivery`, and `WatchLoop` after its exit) or a bound ends the model: `DataPath` at
`MaxAlerts`, `Punctuality` at `MaxTime`.

## 4. Fairness

Safety needs none. The liveness properties assume:

* `Watcher!FairSpec`: a process in a cycle takes its next step. Every call of a
  cycle returns: HTTP requests carry a timeout (`CURLOPT_TIMEOUT`,
  `curl_http.cpp:44`) and the file is local. A sleeping `watch` wakes (the
  sleep is bounded) and a dead one is restarted (`docker-compose.yml:6`,
  `restart: unless-stopped`). Crashes, signals, and the success of any call are
  not fair.
* `WatchLoop!FairSpec`: the same for the loop's steps and for restarts. A
  signal is never assumed to arrive.

`DeliveriesComplete` excepts the death of the process, and `KeepsPolling` a
process that dies over and over: nothing in the code excludes either.

## 5. Proofs

TLAPS checks these for every value of the constants that satisfies the
modules' assumptions (`Punctuality`'s say that the interval, the failures in a row
and one more cycle fit the imminent window: `Reaction + MaxCycle <= Window`):

| Module | Theorem | States | Further assumptions |
|---|---|---|---|
| `WatcherProofs` | `TypeCorrect` | `Spec => []TypeOK` | none |
| | `Invariance`, `NotifiedIsRecorded`, `NeverRepeats`, `NeverLessUrgent` | `IInv`, `RecordedBeforeNotified`, `NoRepeat`, `UrgencyNeverDrops` | `SingleWriter`, `RetentionCovers` |
| | `CycleInvariance`, `SkippedSaveLosesNothing`, `NothingLeftToCorrect`, `RecordsAreRemembered` | `CycleInv`, `DiskIsDecision`, `CorrectionsSettled`, `RecordsRemember` | `SingleWriter` |
| | `ImplementsAtomicCycle` | `Spec => RefinesAtomicCycle` | `SingleWriter` |
| | `EveryDeliveryAttempted`, `DryRunsArePure` | `EveryoneAttempted`, `DryRunIsPure` | none: any number of writers |
| `StoreProofs` | `StoreInvariance`, `FileAlwaysWhole`, `ImplementsAtomicStore` | `IInv`, `PathWhole`, `RefinesAtomicStore` | `SingleSaver` |
| `PunctualityProofs` | `PunctualityInvariance`, `AlwaysToldInTime` | `IInv`, `ToldInTime` | none |
| `WatchLoopProofs` | `WatchLoopInvariance`, `AlwaysStopsPromptly`, `AlwaysPollsAtInterval` | `IInv`, `StopsPromptly`, `PollsAtInterval` | none |
| `DeliveryProofs` | `DeliveryInvariance`, `ExitCodeIsTrue`, `OneRequestEach` | `IInv`, `ExitCodeTells`, `EachPostedOnce` | none |
| `LaunchLibraryProofs` | `FetchInvariance`, `LaunchesAreSound`, `FetchLosesNothing`, `UnknownNeverSilent`; `ListingInvariance`, `EveryFieldIsSearched` | `IInv`, `SourceContract`, `NothingLost`, `UnknownIsWarned`; `IInv /\ MatchedInv`, `SearchesEveryField` | none; for the last two that texts are sequences of letters (`ListingAssumption`), that provider and terms are trimmed and not empty (`RelevanceAssumption`) |
| `StartupProofs` | `StartupInvariance`, `KeysAreTheirOwn`, `EnvironmentWins`, `SecretsOrDryRun` | `IInv`, `EveryRecipientHasOwnKey`, `GivenSecretsUsed`, `RunsComplete` | none |
| | `IntsStayPositive`, `AcceptedAsPromised`, `PolicyIsReliable` | `PositiveInv`, `AcceptedIntsPositive`, `PolicyIsSound` | `IntsFit` |
| `DataPathProofs` | `TimeRoundTrip`, `RecordRoundTrip` | what is written is read back: times, records | none |
| | `PathInvariance`, `AlertsAlwaysRender`, `WhatIsSavedIsLoaded`, `EarlierTimeWasShown` | `IInv`, `EveryAlertRenders`, `LoadReturnsSaved`, `WasIsWhatWasShown` | `ZoneKnown` |
| | `TimesAreRight` | `TimeMeansWhatWasSent` | `ZoneKnown`, `NoNegativeFields` |
| | `ChangesAreVisible` | `ChangeIsVisible` | `ZoneKnown`, `AbbrevTellsOffset` |

**Why `NoRepeat` needs more than itself.** It speaks of what is about to be
sent; nothing in it says why the next cycle will not decide the same again. The
only memory is the record, and retention deletes it. The argument, which is
`WatcherInvariants!IInv`, is about time:

1. `MemoryInv`: for every notification ever sent, either the records a writer
   will decide with remember its kind and will do so until the alert is of no
   use any more (`Covered`), or the last clock reading at which it could be due
   has passed (`Safe`). A later alert only prolongs the record's life; a
   retention pass at `now` removes a record only when `LastUseful < now`.
2. `QueueInv`: every alert created and not yet sent is in those records with
   its facts, was due when it was created, and is the only one for its launch.
3. `FreshInv`: no alert still to be sent equals, or is less urgent than, one
   that was sent.
4. `ClockInv`, `FreshStart`, `DryNeverSends` tie the clock readings, which may
   be older or younger than one another by up to `MaxStepBack`, and the locals
   of a cycle to the global state.

`RetentionCovers` (`LaunchSoon + 2 * MaxStepBack <= Retention` and
`2 * HourWindow + 2 * MaxStepBack <= Retention`) is what step 1 needs: an alert
is due for at most that long, and the clock may have been set back before the
record was written and again before it is judged. The defaults satisfy it by
far (one hour against thirty days), but `loadConfig` does not enforce it: with
a retention shorter than the launch-soon window, `NoRepeat` fails.
`SingleWriter` is needed because load, decide and save are not atomic between
processes: a `once` beside a `watch` sends the same alert again. The code keeps
a second writer away by nothing but its documented use.

**The cycle.** `DiskIsDecision`, `CorrectionsSettled` and the refinement speak of
the end of a cycle and of what it started from, many steps earlier.
`WatcherInvariants!CycleInv` carries the beginning along: at every step, what
a writer has is a function of the records it loaded, the listing and its clock
reading (`DecisionOf`, `RecordOf`, `AlertOf`). `MapIsDecided` says so of the
launches the loop has passed, whatever order it takes them in; `AlertsAreDecided`
of the alerts, one for each decision that is not silent; `MapIsRetained` and
`Stored` of the file. That the comparison of sizes suffices
to skip a save is an argument about finite sets (without alerts the map can
only shrink; `Size(retained(m, t)) = Size(m)` leaves nothing out), and
`CorrectionsSettled` follows because a correction is a difference between a launch
and its record, which a decided launch no longer has: one the loop passed over
in silence has none the rules look at (`NoCorrectionSettles`), and one it alerted of
has a record with its own facts (`NoCorrectionWithinItself`).
`Stamps` bounds how far a clock set back may leave a record in the future, which
`RecordsRemember` needs. In the refinement the step `SaveOk` is the
abstract cycle, a delivery the abstract attempt, a crash while sending the
abstract loss; every other step of the writer is a stutter (a cycle that
skips its save has nothing to send and leaves the file as it was), and so is
all of a dry run. None of it needs
`RetentionCovers`.

**Store.** The invariant says that a saver works on the inode named `tmp` and
nobody else has it open, that pieces up to `done` are the saver's own and none
follow (which is what truncating is for), and that
every inode that is or was the record file is whole. The refinement maps a
reader's progress to the version its inode holds, which no step can change.
`SingleSaver` is needed because the temporary file's name is a constant of the
path: two savers write and rename the same file. (Give `Saver` two elements and
TLC finds `PathWhole` violated within seconds.)

**Punctuality.** `ToldInTime` speaks of the moment the launch comes; what makes it
true happened one or more cycles before. `LastGood` is a time before which no
start of the last cycle that succeeded lies; `Believed` is what people will
believe once the messages under way are out. `RecordInv`: after a good cycle that
began after the source's last change, the record says nothing a correction would
still change. `BeliefInv`: what a record says is what people heard, or that was
withdrawn. `SpentInv`: a message that withdraws a time is never a countdown, so that
people who were counted down and have no time were counted down before the
source's last word. `ToldInv`: the first good cycle inside the window finds the record
settled, so that the imminent alert is due or was sent; and no later cycle
misleads. The alert is out one cycle after the last good start, which is why the
window has to hold `Reaction + MaxCycle` and not `Reaction` alone. `ClockInv` bounds the distance between two good starts by `Reaction`;
the products this needs are in `OwedFacts`.

**WatchLoop.** `slept + remaining = Interval` throughout the sleep, and
`late > 0` only on the way out of the loop. What ends the loop besides a stop request
is an exception no handler takes (`ExceptionEscapes`, section 6); no property says
otherwise.

**Delivery.** The two loops of `orchestration.cpp:90-98` are taken together: the
requests made are the slots `1 .. Attempts` of the matrix of alerts and
recipients in reading order, and each delivery counted as a success is among
those the service took in (`RequestInv`). The exit code is then a statement about
`deliveries`; the inequality `i <= alerts * Len(Recipients)` that the last request
needs is `DeliveryProofs`' lemma on division.

**LaunchLibrary.** The loop skips items, so that the n-th launch is not the n-th
item. `Place(i)`, the number of mappable items up to `i`, is where item `i` has
gone (`DoneInv`); one more item adds one to it or nothing.

**RelevantLaunches.** The loop of relevance tests adds one verdict at a time
(`MatchedInv`), so what is left is one item: `JudgedByItem`. A term is found in
the lower-cased field exactly if it stands in the text, letter by letter and in
whatever case (`OccursIsContained`); what stands in the pad or in the location
stands in the two joined (`ContainedInPart`), and the joined text is itself one the
source is held to have said. That the configured provider has nothing to trim is
what `requireString` sees to (`ProviderIsTrimmed`). Which of the configured terms
are reported is stated with `InOrder`, the selection of a set of terms from the
configured list, on both sides: that the selection keeps the order is the meaning
of `SelectSeq`, and is not proved from its recursion.

**Startup.** Each stage of `loadConfig` leaves one conjunct behind that the later
ones do not disturb. `IntsFit` says that no integer of the file is too large
for an `int`; without it `PositiveInv` is false, which is what the run
`startup_wide` shows. So these theorems say how far the message of
`optionalPositiveInt` is right.

**DataPath.** Three layers. The calendar: every day lies in exactly one year and
one month (`YearOfExists`, `YearOfUnique`, `MonthOfExists`, `MonthOfUnique`), from
the lengths of years and months alone; every second of the day has one hour,
minute and second (`ClockOfDay`, `ClockReadsBack`). So the civil time of an instant
and the instant of a civil time are inverse to each other (`SplitIsCivil`,
`CivilIsSplit`), for all years. The codec: `TimeRoundTrip` for the record file,
`TextMeansItsTime` for a text with any offset and a leap second, `RecordRoundTrip`
for the record with its list of alerts. The cycles: `IInv` says that the file is
the text of `record`, that a cycle decides with `record`, and that people were
last shown its time. `ChangesAreVisible` puts the first and the last together: the
policy's shift is a whole number of minutes, and two times whose displays are
equal, abbreviation included, have one offset and differ by less than a minute.

Its hypotheses are properties of the surroundings. `ZoneKnown`: the zone
database gives an offset and an abbreviation for every instant.
`AbbrevTellsOffset`: two different offsets of the zone have different abbreviations;
a zone that reused one could show a change of exactly the difference twice alike,
which the mutant without abbreviations shows. `NoNegativeFields`: `%d` would scan
a negative hour, and `parseIso8601` lets it through; the instant is then right but
no clock shows the text. The assumptions of the module say that `Reading` holds
clock readings of years that can be written, and that the sentinels (`Null`,
`Throws`, ...) are none of the values they are told from.

Only model-checked: liveness (`DeliveriesComplete`, `StopEndsWatch`,
`KeepsPolling`), since fairness and `ENABLED` are out of the prover's reach.

## 6. Where code and documents differ

Three runs refute a statement of the documents, or of the code about itself, on
the model of the code:

* `relevance_loss`: `CONTEXT.md:112` names a loss of relevance among the causes
  of a correction. `core.cpp:171` skips an irrelevant launch before looking at
  its record; a launch people were alerted of disappears in silence.
* `startup_wide`: `config.cpp:32` checks the sign of a 64-bit integer,
  `config.cpp:35` narrows it to `int`; 4294967296 is accepted and becomes 0,
  although the message says the value "must be a positive integer".
* `delivery_throws`: `channel.hpp:23` says that a channel never throws;
  `pushover.cpp:40` throws when the reply's `status` is present and no number,
  and the recipients after it are never told.

Also met while modelling, and most of it listed as hazards:

* a lifted hold has no correction, and if the countdown kinds are spent nobody
  is told that the launch is on again; if its time moved meanwhile, they are
  told of the changed time. `CONTEXT.md:112` can be read to ask for a correction;
  `CorrectionsSettled` and `ToldInTime` hold without one, because they are stated
  by the rules the code has;
* the time-changed rule applies to imprecise timing as well, which `README.md:56`
  calls silent;
* a launch time in the year 10000, one offset away from a text the source can
  send, is saved and can never be loaded again, and with it the whole file;
* `http.hpp:22` speaks of any non-2xx status, the code throws from 400 on, so that
  an answer below 400 that is no 2xx but carries a list would be taken for a
  listing (`NothingLost` states what the code does);
* `launch_library.cpp:175` may throw another exception than `SourceError`;
* an exception from the logger ends a `watch`, which `README.md:95-96` says "logs
  failures and keeps polling";
* nothing keeps a `once` from writing beside a `watch`.

## 7. What is not modelled, and why

* **Program entry, tests and build**: no state, or not part of the program.
* **Wording**: the text of messages, log lines and explanations, `join`,
  `startsWith`, `formatUtcSeconds`, `formatDisplayShort`. A message is what it
  announces and the times it gives.
* **Syntax**: JSON and TOML are their libraries', `.env` quoting, form encoding and
  the characters of a time are abstracted to fields that are there, missing or
  garbled.
* **libcurl**: external; a request completes with a status and a body, or does
  not, within its timeout.
* **A second writer**: an assumption (`SingleWriter`, `SingleSaver`), not a model;
  dry runs and readers beside the writer are modelled.
* **A recipient without a key** in the channel: `Startup` excludes it.
* **Power loss**: `save` does not sync, and what a disk keeps is not modelled.
  Only the death of processes is.
* **Duplicate keys in one listing** (two items without identifier): a listing
  has each key once.

## 8. Plan

Done: decision core and cycle with the refinement to `AtomicCycle`, on a clock that
may step back; store with the refinement to `AtomicStore`; watch loop; timing of
the watch; transports; source adapter with the relevance test; delivery and exit
codes; the path of the times through text, message and file; startup; the
theorems of section 5, which state every safety property the passing runs
check.

Next, in order of importance:

1. Power loss in `Store`: what the name refers to after a restart.
2. Duplicate keys in a listing, in `Watcher`.
