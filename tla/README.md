# Ninjaduino in TLA+

This directory is a verification development for the program in `seabeagle/`, the
daemon that runs on a Ninja Block.  An Arduino samples three sensor sockets and
prints a line of JSON for every round; the daemon publishes the readings inside
the process, lets rules and monitors follow them, and offers its services to a
majordomo broker.  The models are written from the C code, the sketch on the
Arduino included.  Line numbers refer to `src/seabeagle/`, those of `ninja.ino` and
`Sensor.cpp` to `src/arduino/`.

Contents: the system, its modules, what the runs show, what is proved, what is
left out, what comes next.

## 1. The system

### Components

| component | code | state it keeps | operations |
|---|---|---|---|
| program start | `main.c`, `utils.c` | how many children have answered | fork a child, handshake; relay, dispatcher, three workers in that order; the camera is a process of its own |
| serial relay | `serial_relay.c` | the feed, one PUB socket | drop the first line, handshake, bind, publish every line |
| line dispatcher | `filter.c` | which lines it has forked | parse a feed line, fork a listener for a new port, publish each port's reading, handshake after the first good line |
| line listener | `line.c` | `channel_memory_t`: current and next channel, rounds | debounce the channel of a reading, publish `CHANNEL_CHANGE` and `VALUE` |
| trigger thread | `trigger.c` | configuration, `triggermemory_t`, one subscription | start or reject, evaluate, go dormant, wake up, be destroyed |
| monitor | `monitor.c` | channel, deadline | forward readings to the portwatcher, quit on a change of channel or after a minute |
| generic worker | `worker.c` | a hash of rules, a table of rules on disk | reload, `AddTrigger`, `RemoveRule`, `AddMonitor` |
| worker protocol | `mdwrkapi.c` | liveness, time of the next heartbeat, socket | register, receive, heartbeat, reconnect |
| camera worker | `camera.c` | the session, the reply to come, the last picture on disk | open a session while a camera is plugged in, `TakePicture`, close it when the camera has gone |
| configuration | `config.c` | a row in the database | from the row if there is one, else from the file, which is then written to the row |
| board | `arduino/ninja/ninja.ino` | mode bits of the accelerometer, a buffer for colour commands | set up the accelerometer; in turn: sample each socket, print the sample, look for a command |
| sensors | `arduino/sensors/Sensor.cpp` | none | type from the identifying resistor, value from the data pin, temperature from two bytes |

### How they interact

```
 board --serial--> relay ==raw_serial==> dispatcher ==inproc==> line 1..3
                                             |  forks                ||
                                             +------> line           ||  lineNNNN (VALUE, CHANNEL_CHANGE)
                                                                     vv
 broker <--mdwrk--> worker --control pipe--> trigger threads      monitors
                      |  \__forks_____________________________________^
                      +-- rules table (SQLite)
```

* Threads share no data; they talk through PUB/SUB sockets (`==`) and through
  the pipe a fork creates.
* Every fork is followed by a blocking handshake without a timeout.  The order
  of the whole start-up rests on those handshakes.
* A worker serves one request at a time.  It blocks while the thread of a rule
  is created and while it is destroyed.
* A trigger polls its control pipe and its line together, and handles the control
  pipe first.  It saves work by subscribing to either `VALUE` or `CHANNEL_CHANGE`.
* Replies leave with the next `mdwrk_recv`, not when they are made.

### What is hard

1. *Dormancy.* The trigger swaps its subscription in two calls while the line
   keeps publishing.  A change published around the swap could be filtered out
   and leave the rule asleep for good, and readings of an earlier stay on the
   channel can still be in its queue.
2. *Handshakes without timeouts.* The thread answers on three different paths,
   two of them without having read the question, and returns; the worker answers nobody
   until its question is sent and it has heard the answer.
3. *Debouncing.* Rounds are counted across candidates and survive them.
4. *Deadlines read before a blocking receive*: a monitor outlives its minute.
5. *Crashes* between the start of a thread, its database row and the reply; a
   table from which nothing is ever deleted.
6. *Start-up order*: a rule that connects to a line nobody has bound.
7. *Time*: heartbeats are only looked at when a poll ends, and lives are counted
   on one path and reset on another.
8. *A camera that comes and goes* between the look at its device, a wait of any
   length and the picture; replies left over from a session that has ended.
9. *Restarts*: what the configuration is, and what the accelerometer is set to, may
   stem from an earlier life.
10. *Measurements taken one after the other* of a sensor that may be changed in
   between; bytes of a command that arrive over several rounds.

`PROJECT.json` lists the hazards at their lines, with the properties that cover
them or the reason why none does.

### What makes each component correct

| component | properties (definition) |
|---|---|
| line | it changes channel on evidence only (`EnoughEvidence`) and settles on a steady channel (`LineSettles`); its rounds stay in range (`TypeOK`) |
| trigger | it neither misses its wake-up (`NoMissedWakeup`, `WakesUp`) nor loses a reading of its channel (`NoValueLost`, `FeedsTrigger`); it is armed only by a reading at its reset level or beyond (`ArmedOnlyAfterReset`, and the finding `boundary_reset`); it acts at most once after its destruction was asked for (`AtMostOneActionAfterDestroy`) |
| worker and trigger | they wait in vain for one another in one case only, a rule that is refused before the ping is sent (`ControlProtocol`, `HandshakesEnd`, `HashedRuleHasThread`, and the finding `refused_rule`) |
| monitor | it shows one uninterrupted stay on its channel (`MonitorStaysInOneEpoch`) and ends (`AtMostOneOvertime`, `ExpiredMonitorEnds`) |
| worker | what its users were told survives a crash (`AcceptedRuleRuns`, `AcceptedRuleIsStored`, `ImplementsRuleStore`), every request that comes back from its handshake is answered (`RequestAnswered`), and unreachable threads are bounded (`NoStrayThreads`) |
| start-up | nobody connects to a line that is not there (`LinesBeforeRules`), no reading is published unheard (`ReadingsAreHeard`), the program comes up (`ComesUp`) |
| worker protocol | `IdleWorkerIsHeard`, `DeadBrokerIsNoticed`, `NoHastyReconnect` |
| camera | a picture is taken for its request (`PictureIsFresh`), replies stay in step with sessions (`RepliesMatchSession`), a camera that has gone is noticed (`AtMostOneRequestWithoutCamera`) and one that is back is served (`ServesAgain`) |
| configuration | the workers keep their name across restarts (`ServesUnderItsName`) |
| board | a changed sensor makes one false reading at most (`FewFalseReadings`), the accelerometer is in the mode it is read in (`AccelerometerIsReady`), a colour is one that was sent (`PaintedColourWasSent`), numbers keep their sign (`AccelerationIsRead`, `TemperatureIsDecoded`) |

## 2. The modules

| module | models | how it corresponds to the code |
|---|---|---|
| `Debounce` | `port_changed` | pure: the return value is `PortChanged`, the memory afterwards `Remember`; channel names are model values, the null pointer is `NoChannel` |
| `Line` | `line_listener` | `Reading` is one turn of the loop: debounce, then the publications in their order.  Each subscriber has a queue |
| `LevelTrigger` | `find_trigger`, `parse_addins`, `falls_below`, `rises_above` | pure; the addins are a function from keys to levels, an uninitialised field is any value |
| `TriggerThread` | `trigger`, and `create_trigger` and `RemoveRule` as seen from its pipe | one action per blocking step: the fork (`CreateTrigger`) and the ping (`SendPing`) are two, and `Reject` may come between them; `Poll` records what `zmq_poll` reported, `HandleControl` and `HandleLine` act on that record |
| `MonitorThread` | `watch_port` | the test of the deadline and the blocking receive are separate steps |
| `LineBus` | one line with all its subscribers | composes the four above, states their joint properties and the inductive invariant |
| `ValueFeed` | *abstract*: a rule's readings without subscriptions | its queue holds the readings of one channel |
| `FeedRefinement` | the mapping from a trigger thread to `ValueFeed` | `ReadingsOf` (of `Line`) takes the readings of a channel out of a thread's queue |
| `Worker` | `generic_worker`, `reload_rules`, `load_rule` | `pc` is the place in the loop; the hash, the threads and the rows are counted for each id; a handshake is its outcome: `AddStarted`, `AddRejected`, or `AddAbandoned` for the send that does not return; `Crash` may come at any point |
| `RuleStore` | *abstract*: accepted rules survive restarts | `Worker` implements it |
| `Startup` | `main`, `read_serial`, `line_dispatcher`, and the handshakes of listeners and workers | one action between two blocking calls; a feed line is clean, noise or a fragment |
| `Config` | `get_config`, `parse_config`, `config_callback` | a start takes the row, the file, or neither if the database fails; a file is the last value it gives for each key |
| `Program` | the process from start to start | composes `Startup` and `Config`; a worker without a configuration takes the process with it (`strlen` of a null) |
| `Mdwrk` | `mdwrkapi.c` | discrete time: `left` is the rest of the poll or the sleep, `due` the time to the next heartbeat |
| `Camera` | `camera` | extends `Mdwrk`: its two loops call `mdwrk_new`, `mdwrk_recv` and `mdwrk_destroy`, whose steps are `Mdwrk`'s; the camera is plugged and unplugged at any time |
| `Sensor` | `Sensor.cpp`, `getAccXYZ` | pure; `Int16` is the board's `int`; the encodings of the chips are external |
| `Board` | `ninja.ino`, `tolower` of `filter.c` | one action for each measurement, each mode of the accelerometer and each read of the serial port, and `OutOfMemory` for the early returns of `testObjects`; extends `Debounce`, so that a false reading is one a line publishes |
| `LineProofs`, `LineBusProofs`, `SubscriberProofs`, `WorkerProofs`, `MdwrkProofs`, `CameraProofs`, `ProgramProofs`, `BoardProofs` | | theorems and their lemmas |
| `MCLineBus`, `MCWorker`, `MCProgram`, `MCBoard` | | instances for TLC |

Definitions called "a slip" in their comment are not part of a specification.
They are plausible mistakes in the code next to them, and each property is shown
to fail when the real definition is replaced by one of them.

### Decisions that matter

* **Queues and filters.**  The library is external.  It is taken to queue every
  publication for every connected subscriber and to filter at the receiver, as
  ZeroMQ 2 does; so a subscription decides about a message when it is looked at.  Under
  a library that filters at the publisher, the swap of subscriptions would be
  seen by the line with a delay, and neither the invariants nor the refinement
  follow from what is here.
* **Control pipes** are ZeroMQ's PAIR sockets, external as well: a send blocks as long as nobody is at
  the other end, and what has been sent can be read after the sender is gone.  Hence `SendPing` needs a
  live thread, while a refusal waits for the worker.  `Reject` sends the refusal and returns in one step: a ping
  that is sent between the two is lost with the thread's end of the pipe, just as one that is sent before.
  `Start` joins the connection to the line, the subscription and the receipt of the ping: nothing but the
  first readings it might miss depends on their distance, and `Reading` may come before or after.
* **One reading is one step** in `Line`, although it may be published as a `CHANNEL_CHANGE` and a `VALUE`.  Only
  a subscriber that connects between the two could tell, and each begins with a subscription to `VALUE` alone: it
  gets what it would have got had it connected just before both.
* **History variables** (`epoch`, `doubt`, `late`, `swung`, `source`, `overtime`,
  `book`, `silence`, `quiet`) are read by no guard, except where a bound is put on
  one (`PatienceBound` on `silence`).
* **Uninitialised memory.**  `trigger_memory` (`trigger.c:230`) is a choice over all
  its values.
* **A missing return value.**  `load_rule` returns nothing although SQLite stops a
  query when its callback returns non-zero.  Compiled as the `Makefile` says, the
  value that is found there is `create_trigger`'s null, and the model goes on with
  the next row; the slip `LoadRuleAndAbort` shows what is lost otherwise.
* **Numeric affinity.**  The column `rule_id` has the type `string`, for which
  SQLite converts what looks like a number.  `Stored` says what comes back.
* **The feed.**  Besides its JSON, the board prints debugging text and echoes
  its input; hence noise, and hence fragments: lines that are JSON (a number, a
  string) and have no `ports`.
* **Addins** reach `msgpack_unpack` as a C string (`msgpack_wrapper.c:9`).  A level whose
  encoding holds a zero byte cuts them short, and what is read after the cut is
  memory nobody has written; `Packable` leaves such levels out; a level is
  encoded in one, two or four bytes (`Width`), so that 0, 256 and 65537 are among them.
* **Malformed requests.**  An `AddTrigger` with a wrong number of frames leaves its
  configuration uninitialised (`worker.c:225`, `trigger.c:193-197`).  For the worker it is
  an `AddBadTrigger`, like a rule without a line or with an unknown name: the thread is taken to find no addins there, or to crash.
* **The data pin** of a socket is taken to measure the identifying level of its sensor,
  so that a value tells which sensor it comes from; an unidentified sensor's value is
  zero, as in the code.
* **Strings compared by address** in `getSensorValue` are equal as their texts are: the
  literals are in one file, and the compiler keeps one of each.
* **Addresses and payloads** of broker messages, log texts and JSON are left out.

## 3. The runs

| run | instance | distinct states | question |
|---|---|---|---|
| `line_bus` | one rule, three channels, three values, several kinds of request | 697 000 | do dormancy, control protocol and hysteresis hold in every interleaving, and does the thread implement `ValueFeed`? |
| `line_bus_live` | one rule, one monitor, three epochs, one value | 314 000 | what must happen, does it?  Is what a monitor forwards one stay on its channel, and does the monitor end? |
| `worker` | three ids, one of which the database changes | 66 000 | do users get what they were told, across crashes? |
| `program` | three ports, every kind of line, four files | 65 000 | is everything there when it is needed, in every life of the program, and under which name? |
| `camera` | three ticks, three lives | 16 000 | do pictures, replies, sessions and the camera stay together, and how long may each end of a session be silent? |
| `board` | three sensors, two colours of two bytes | 2 480 000 | what can a change of sensor, a reset, a failed allocation or a slow serial line do? |
| `fresh_trigger`, `boundary_reset`, `refused_rule`, `removed_rule`, `early_connect`, `unclean_feed` | | | the six findings below |

### Bounds, and why they are enough

* `LIMIT = 1` is the code's own value (`line.c:22`): the counter passes through zero,
  its limit and the value past it.  The theorems hold for every `LIMIT`.
* `QueueBound = 3` (`2` where liveness is checked): a reading publishes two
  messages at most, so three hold a change, a reading and something stale in front.
  The bound disables readings, never a receive.  The safety theorems hold for every
  bound.
* One trigger: threads of different rules share only the line, which does not look at
  them, and the worker, which the handshake blocks.  Several triggers are in the theorems.
* `EpochModulus = 3`: an epoch and its two neighbours are told apart; queues
  are too short to hold messages of epochs three apart.
* `RowBound = 3` limits `AddTrigger` requests only: a rule may be added, removed
  and added again twice, which is where surplus rows and threads come from.
* `FeedBound = 1` with `Ports = 3`: a line may wait while one is walked through.
* `Files` in `program`: two identities that are kept, one that comes back as another, and
  a file that is not complete; so the file may change before, between and after the starts
  that matter.
* `HEARTBEAT = RECONNECT = 3`, as in the code the two are equal; three ticks put a
  message before, at and after the end of a poll.  `QueueBound = 2` lets a message end
  a poll and another one follow at once; `PatienceBound = 9` makes a request outlast three
  heartbeats.  Three lives let a session survive two silent polls and end with the third.  The
  camera's session is `Mdwrk`'s own (`CameraKeepsSessions`), so what `camera` shows of silence it shows of `Mdwrk`.
* `SLEN = 3` instead of 7 in `board`: what matters is the mark, and that a colour has
  more than one byte to be torn in; the theorems hold for every length.  `RxBound = 4` is one more than a command, so that the
  next one's mark can be read with it, or be dropped.
* `Ids` in `board`: the levels on either side of a type's limit, and another type.  `Forces`: the ends of the range and the numbers around
  zero; the theorem has all of them.

Deadlock is checked in every passing run but `camera`, whose process may crash over a
missing picture.

### Fairness

Threads are scheduled by the operating system, and a thread that can go on does so in the
end, so weak fairness for each thread's own steps is justified:
`TriggerStep` and `MonitorStep` for each thread, the worker's side of a
handshake (`SendPing`, `TriggerCreated` and `RuleRemoved` for each rule), `Load`, `Handle` and `SendReply` for a worker, in `Program` each thread of
`Startup` by itself (`ProgramFairness`), and for the camera its process and the passing of time
(`CameraFairSpec`).  Nothing is promised of the outside: no reading, request,
restart, end of a minute, camera or clean line is fair.  Where a property needs input, it
says so itself (`LineSettles`, `ComesUp`, `ExpiredMonitorEnds`, `ServesAgain`).  No strong fairness is used.
A thread that returns may take the worker's `SendPing` away for good, which weak fairness allows (`refused_rule`).

### Findings

* `fresh_trigger`: nothing calls `init_memory` in the program, only in its tests;
  a new rule's `ready` flag is whatever its stack holds (`trigger.c:230`).
* `removed_rule`: no statement deletes a row, so a removed rule is back after the
  next restart (`worker.c:255`).
* `early_connect`: the relay shakes hands before it binds (`serial_relay.c:18`), so
  the dispatcher may connect to an endpoint that is not there.
* `unclean_feed`: a line that is JSON without `ports` is dereferenced as if it had
  them (`filter.c:41`), four lines after the comment that calls the feed unclean.
* `boundary_reset`: a reading equal to the reset level arms a rule (`trigger.c:132`, `153`), which
  `spec/trigger_spec.rb:22-26` says it does not.  The models follow the code, and `ArmedOnlyAfterReset` counts
  such a reading as a reset.
* `refused_rule`: a thread that refuses its rule may have returned before the worker sends its ping
  (`worker.c:124-125`); the worker then stays in that send, and its service is lost until the program is
  restarted.  The run assumes every thread scheduled fairly.

Two more disagreements were met and are not run, as each is one comparison.  The addins' key for the line is
`line` (`trigger.c:59`), while `trigger.c:30`, `worker.c:60` and `test_msgpack_parser.c:5` know it as `line_id`: a
rule written by them is a bad trigger, as in the instances of `MCLineBus`.  And a rule fires on a reading equal to its
trigger level (`trigger.c:124`, `144`), while `spec/trigger_spec.rb:12` expects it not to.

## 4. The proofs

Every safety property that a passing run checks, and both refinements, are theorems: they hold for any sets
of channels, values, triggers, monitors, requests, ids, ports, files, sensors and colours and for any bounds, as
far as the named assumptions of the modules allow (`LineAssumption`, `TriggerAssumption`, `BusAssumption`,
`MdwrkAssumption` and so on), which TLC evaluates in the runs.  Where a theorem assumes more,
that is said below.  Inductive invariants of several parts were checked by TLC on a run's instance before they were proved.

| module | theorem | states |
|---|---|---|
| `LineBusProofs` | `TypeCorrectness`, `ControlProtocolHolds`, `WakeupIsNeverMissed`, `ValueIsNeverLost` | `TypeOK`, `ControlProtocol`, `NoMissedWakeup`, `NoValueLost` |
| `SubscriberProofs` | `ChangeNeedsEvidence`, `OneActionAfterDestroy`, `ResetArms` | `EnoughEvidence`, `AtMostOneActionAfterDestroy`, `ArmedOnlyAfterReset` |
| | `MonitorMeetsDeadline`, `OneStayPerMonitor` | `AtMostOneOvertime`, `MonitorStaysInOneEpoch` |
| | `TriggerIsFed` | `FeedsTrigger`: the refinement of `ValueFeed` |
| `WorkerProofs` | `WorkerTypes`, `HashedRulesHaveThreads`, `StrayThreadsAreRows` | `TypeOK`, `HashedRuleHasThread`, `NoStrayThreads` |
| | `AcceptedRulesAreStored`, `AcceptedRulesRun` | `AcceptedRuleIsStored`, `AcceptedRuleRuns` |
| | `WorkerImplementsRuleStore` | `ImplementsRuleStore`: the refinement of `RuleStore` |
| `MdwrkProofs` | `SessionTypes`, `HeardInTime`, `NoticedInTime`, `NotHasty` | `TypeOK`, `IdleWorkerIsHeard`, `DeadBrokerIsNoticed`, `NoHastyReconnect` |
| `CameraProofs` | `CameraKeepsSessions`, `CameraTypesHold` | `Mdwrk`'s `Spec`, `CameraTypeOK` |
| | `PicturesAreFresh`, `RepliesFitSessions`, `OneRequestIsBlind` | `PictureIsFresh`, `RepliesMatchSession`, `AtMostOneRequestWithoutCamera` |
| `ProgramProofs` | `ProgramTypes`, `WorkersFindLines`, `ListenersHearAll`, `NameSurvives` (for any ports and files, and the three workers of `main.c`) | `ProgramTypeOK`, `LinesBeforeRules`, `ReadingsAreHeard`, `ServesUnderItsName` |
| `BoardProofs` | `BoardTypes`, `FalseReadingsAreFew`, `AccelerometerReady` | `TypeOK`, `FewFalseReadings`, `AccelerometerIsReady` |
| | `AccelerationRead`, `ColourWasSent` | `AccelerationIsRead`, `PaintedColourWasSent` |
| | `TemperatureDecoded`, `AccelerationDecoded` | `TemperatureIsDecoded`, `AccelerationIsDecoded` (of `Sensor`) |

**`LineBusProofs`: dormancy and the control protocol.**
None of its last three is inductive alone.  `NoMissedWakeup` and `NoValueLost` speak of dormant
triggers, and whether they hold when a trigger *goes* dormant depends on what is
then in its queue.  The strengthening is `QueuesConsistent`: in each queue, read
from its head, the channel changes only where a `CHANNEL_CHANGE` says so
(`Announced`), and the queue's last word is the line's current channel
(`UpToDate`).  A trigger goes dormant on a reading of another channel; if the line
is back on the rule's channel, or one of its readings follows, the queue must say so in between.
`SubscriptionOK` ties what a poll reported to the queue and to the pipe.  `IInv`
is their conjunction with the properties.  `ControlProtocol` lists the states worker and thread can be in together,
the one in which the worker waits for ever among them (`Abandoned`): a state only a refused rule leads to.  `LineProofs` has the lemmas about
queues: what `Announced` and `UpToDate` say of a queue's tail and of a queue with a
reading's publications at its end.  `IInv` is proved inductive with a lemma for each action.

**`SubscriberProofs`: what is remembered of the subscribers.**

* `ChangeNeedsEvidence` rests on `Evidence`: while the line has a candidate, the readings that doubt its
  channel are at least one more than the confirmed rounds, so that the round past the limit
  comes after `LIMIT + 2` of them.  It assumes `DoubtBound >= LIMIT + 2`, since the history
  variable cannot show more than its bound.
* `OneActionAfterDestroy` and `ResetArms` share `ThreadHistory`: after a late `DoAction` the thread has no reading in
  hand, and every later poll reports the waiting `Destroy` too, which is handled first.
* `MonitorMeetsDeadline`: a monitor that has forwarded a reading too many is at the place where it
  reads the clock (`MonitorHistory`).
* `OneStayPerMonitor` needs `StayInv`.  In a monitor's queue a reading of another channel lies between the readings of two stays on
  one channel (`Parted`), behind every reading of a stay that is over (`PartedBefore`), and in front of
  every reading of another stay than the one forwarded last (`PartedAfter`); and a
  monitor stops at that other reading.  The line settles with a reading that it publishes, which is why every
  stay has one.  The theorem holds for every `EpochModulus`; the run's three tell a stay from its neighbours.
* `TriggerIsFed` proves the refinement step by step for `aTrigger`, any one rule: a reading of the line is one
  `Publish` or none, `Start` is `Open`, `HandleControl` is `Close`, `HandleLine` is `Evaluate` for a reading of
  the rule's channel and otherwise nothing, and everything else is nothing.  `Poll` is the
  case that is not obvious: it throws messages away, and `NoValueLost` is why none of them is a reading the feed is
  waiting for.  The queue of the feed is defined by recursion over the thread's (`ReadingsOf`); what appending,
  dropping and taking a message do to it is proved in `LineProofs` by induction (`InductionUpTo`, over a set of numbers,
  since the library's induction over predicates is out of reach).  `MemoryFreed` is the one invariant it adds.

**`WorkerProofs`: rules, threads and rows.**  `WorkerInv` says for each place in the loop how the hash, the threads
and the rows of every id are related; it holds with a database that refuses rows and changes ids.  `BookInv`
adds what users were told, and the last three theorems rest on it.  They assume
`InsertFails = {FALSE}`, as the run does: the worker does not look at the result of
`sqlite3_step` (`worker.c:234`), and promises what a refused row cannot keep.

**`MdwrkProofs`: silence.**  The strengthening `Pace` names two
sums that time keeps constant: while a heartbeat is not due, silence and the time
to it add up to at most one delay, afterwards silence and the rest of the poll to
at most two; and the broker's silence and the rest of the poll add up to the polls
the lost lives stand for, and one more.  The products in it are why its arithmetic is
in one lemma, `MissedPolls`.

**`CameraProofs`: sessions.**  `CameraKeepsSessions` shows every behaviour of the camera to be one of `Mdwrk`, so `MdwrkProofs`
applies to it.  `CameraInv` ties the camera's place in its two loops to its session (`SessionInv`): nothing is left of a request
whose reply is gone, and a picture about to be read for a request was taken for it (`PictureInv`); a
worker that has taken a request without a camera looks for the camera before it takes the next (`BlindInv`).

**`ProgramProofs`: the order of start-up.**  The chain of handshakes is spread over three invariants: `main` forks a
worker only when the dispatcher has answered (`ForkInv`); the dispatcher walks through the ports with a line for each one behind it,
and answers only when all have theirs (`WalkInv`); it knows all listeners but one that it waits for, and those it knows
have answered, which they do after they are bound (`ListenerInv`).  `NameInv` and `LifeInv` carry the configuration
from one life to the next: what the process runs with is the row, or the file the row was written
from, or a file of which no row could be written.

**`BoardProofs`: the sketch.**

* `TemperatureDecoded` and `AccelerationDecoded` are arithmetic over all numbers the chips can send.
* `FalseReadingsAreFew`.  One false reading is possible because a sample may be half
  taken when the sensor changes; the strengthening `FalseInv` says that after it the sample at hand
  agrees with the sensor (`Agrees`) as far as it has been taken.
* `AccelerometerReady`, with `SetupInv`: what each step of `setup` has achieved.
* `AccelerationRead`, from `SetupInv` and `AccelerationDecoded`.
* `ColourWasSent`, with `PaintInv`: in what has been received and not read, followed by what the host has
  still to send, every mark is followed by the rest of its command (`Framed`); so a full read that begins
  with a mark is one command.
* `BoardTypes`, with `TypeInv`: the dispatcher has a channel for what is in a sample (`ChannelAssumption`: the
  line's channels include those of the sensors that are put in).

**Model-checked only**: liveness (`RequestAnswered`, `HandshakesEnd`, `WakesUp`, `ExpiredMonitorEnds`,
`LineSettles`, `ComesUp`, `ServesAgain`), which is out of the prover's reach; and the six findings, each of which is
a counterexample.

## 5. What is not modelled

* `mdcliapi2.c`: triggers create a client and send through it, which `send_trigger` counts.
  `mdcli_recv`, with all the protocol's time-outs, and the destructor are never called.
* `cJSON.c` and the msgpack library: third-party code.  What the dispatcher tells apart in a parsed
  line is in `Startup`; what `parse_addins` makes of a decoded map is in `LevelTrigger`.
* `identity.c`, `serial_listener.c`, `zhelpers.h`: not reached from `main`.
* In `ninja.ino`: the second and third socket, which repeat the first; the text of the JSON;
  free memory, other than that an allocation may fail; `lowResMode`, which nothing calls.  `strtol` reads past the buffer's end when a
  command has no byte after it that is not a digit (`ninja.ino:356`): a colour is the bytes that were
  sent, not the number that is shown.
* What a thread does with a configuration nobody has written (`worker.c:225`), or with addins cut short at a zero byte:
  undefined behaviour without a useful set of outcomes.
* The shutdown of the whole context, at which every thread stops, the dispatcher by an
  assertion (`filter.c:26`).
* A rule for a line the board does not have connects to an endpoint nobody binds (`trigger.c:259`) and stays
  silent; requests name lines that exist.
* Resources that are never given back: the client of a trigger thread (`trigger.c:228`), the file of a picture
  (`camera.c:58`), the pipe of a refused rule (`worker.c:135`), the objects of a sample that is given up
  (`ninja.ino:272-275`).

## 6. Plan

The order was: the bus of one line first, as it is where the program's threads really race;
then the worker and its database; start-up; the session with the broker; then the camera,
the configuration with the program's restarts, and the board.  Still to come:

1. Proofs: what the worker's session with the broker and the bus have in common, so that a rule's request is followed
   from the broker to its thread; a closed form of the debouncer (how many readings settle a line).
2. A variant of `Line` with filters at the publisher, to see which properties of dormancy survive a
   subscription that arrives late.
