# Verification of the CME market-by-order client and its tools

This directory holds TLA+ models of the parts of the repository whose
correctness depends on order, concurrency and failure, the TLC configurations
that check them on small instances, and proofs checked by TLAPS. Line numbers
refer to the source tree at the modelled commit; `PROJECT.json` gives, for every
definition, the lines it stands for.

The centre of the project is the live path: `rithmic-client` keeps one order book
per instrument in step with the exchange through sequence gaps, snapshot reloads,
a second quote feed and reconnections. Around it stands the book itself
(`book-builder`), which the live and the batch programs share.

## 1. The system

### Components of a live session

| component | source | state | operations | talks to |
|---|---|---|---|---|
| Router | `client.rs` 201-262 | what is left to hand over of one message | read, demultiplex by template id, send | two raw channels: dispatcher, BBO reader |
| DBO dispatcher | `dispatcher.rs` | global sequence tracker and streak; per instrument a snapshot state and a buffer | handlers of 160, 116, 161, 118, logout; gap recovery; snapshot completion and replay | command channel of each pipeline; write task |
| BBO reader | `bbo_reader.rs` | none between messages | quotes, trades, logout | BBO channel and a clone of the command channel of each pipeline |
| Pipeline, one per instrument | `pipeline.rs` | book, recovery gating, ring of recent BBOs, count of recoveries | select over BBOs and commands; validation at batch ends; giving up | shared output channel |
| Output task | `client.rs` 362-379 | none | print | standard output |
| Write task and heartbeat | `client.rs` 168-199, `heartbeat.rs` | time of the last inbound message | write requests, heartbeat, declare the connection dead | socket |
| Authentication and discovery | `auth.rs`, `connection.rs`, `config.rs`, `client.rs` 105-142 | system and plant chosen; the requests sent | system names, gateway list, login, market, update and snapshot requests of every instrument | server, three connections |
| `run()` and watchdog | `client.rs` 405-516, `rithmic-live/main.rs` | join handles; attempt count | first task to end decides; back-off; exit code | all tasks |
| Book builder and flow | `book-builder/src/lib.rs`, `flow.rs` | orders, levels, top at the last commit, mask of causes, averages | add, modify, fill, cancel, clear, commit | pipeline; `databento-ingest` |
| Raw capture uploader | `capture.rs` | batch, part number | append, flush, retry once, drop | object store |

All tasks are tokio tasks. Every channel is bounded, and every send but the
capture's `try_send` is awaited, so a handler is a sequence of steps: the task
can be suspended inside a loop over instruments, events or buffered updates.
A receiver learns that its senders are gone when the channel is drained; a
sender learns that the receiver is gone at its next send. No memory is shared
but atomic counters and the time of the last inbound message.

What is hard here:

- the snapshot and the stream race: an update may be in the snapshot, in the
  buffer, in both, or in neither;
- one sequence tracker serves several instruments and is also written by
  snapshot messages;
- a recovery is a loop of awaited sends, and it can fail half-way;
- a pipeline hears over two channels, in any relative order;
- back-pressure runs from the printer to the socket;
- tasks end one by one, and `run()` sees join handles in random order.

### Components of a cloud run

`tools/cloud-run` is the other concurrent part. One experiment has

| component | source | state | operations | talks to |
|---|---|---|---|---|
| Image | `build.rs`, `main.rs` 100-180, 391-450 | none | build and push on this machine, or pack the sources and launch a builder | registry, bucket |
| Launch | `launch.rs`, `main.rs` 391-649, `runpod.rs` | the machine's identifier | start an EC2 instance (spot, else on demand) or a pod and wait for it | cloud interface |
| Machine and boot script | `userdata.rs`, `runpod_bootstrap.rs`, `build.rs` 440-606 | place in the script, exit code, a heartbeat in the background | stage, run, push the image it built, upload, `status.json`, shut down | bucket, registry |
| Monitor | `monitor.rs` | `booted`, time of the last heartbeat, `poll_count`, `consecutive_idle_checks` | poll: completion, heartbeat, running, time limits, idle CPU | bucket, cloud interface |
| User | `main.rs` 263-386 | none | stop, cleanup, interrupt the monitor | cloud interface |

They share nothing but the bucket and the machine itself, and each may fail alone: a
spot instance is reclaimed, a script under `set -e` dies without a signal, a call of a
poll fails, the monitor is killed. A poll is four calls, and the machine may
signal and stop between any two.

### A distributed cross-validation

`ec2-launch-imbalance-cpcv-distributed.sh` divides the folds of `event-backtest`
over spot machines. Each runs its range with the tool, which leaves
`fold-results-partial.json` and uploads it, then its boot script copies the result
directory to the bucket, writes an exit code and shuts down. The operator fetches
whatever is in the bucket and aggregates it (`main.rs` 690-760, `statistics.rs`
84-198). Machines share nothing but the bucket; each may be reclaimed, lose an
upload or stop in its script at any point, and nobody waits for anybody. The same
tool without a range runs the folds on a pool of threads.

### The batch tools

Single passes over files. `mbo-tokenize` turns each record of a day into tokens
that describe it against the book before it, and updates the book. `event-export`
labels the committed states of a day; `event-backtest` splits the days into folds
(`cpcv.rs`) and for each fold loads, trains with early stopping, predicts and
executes trades one at a time, in total and for each geometry by itself.

`PROJECT.json` lists every part with its status and reason. Feature formulas,
training, statistics, the Markov baseline, the verifier, generated protobuf code and
foreign function wrappers are not modelled: they are numeric or have no state of
their own.

### What makes each part correct

- Dispatcher: a loading book gets snapshot entries only; updates reach a book in
  order and once; a load is completed once per clear; a gap leaves no book streaming.
- With a server: a completed book is a whole snapshot plus exactly the later updates;
  every load completes.
- Pipeline: the halves of a recovery join in either order; the ring never hides a
  matching quote; giving up happens exactly at the limit.
- Session: tasks start only when the session is logged in to the right system and
  every instrument is subscribed before its snapshot is asked for; no cycle of full
  channels; when a task's feeders are gone it ends; the exit code of a
  configured process tells the truth; silence is noticed.
- Cloud run: a result that is reported is real, a completion is not missed, and no
  machine is left running for ever.
- Distributed cross-validation: a report has all of a machine's folds or none; when
  every machine is done it is the report of a single machine; threads change nothing.
- Backtest: labels of one state do not contradict each other, no training day is
  near a tested bar, the model used is the best one seen, trades never overlap, and
  the breakdown by geometry differs from the total for one reason only.
- Book and tokens: levels are the sum of live orders; the reported cause explains the
  move; a record can be read back from its tokens; the numbers reported are those of
  the stream.

## 2. Modules

| module | models | state and actions in the code |
|---|---|---|
| `Dispatcher` | `run_dispatcher`, `complete_snapshot` | `lastSeq`, `streak`, `mode`, `buffer`, `overflowed` are the task's locals; `pc`, `cur`, `msg`, `part`, `todo`, `endSeq` are its position at an await; one action per handler branch and per awaited send; `cmdq`, `wsq` are the channels |
| `DispatcherFeed` | the dispatcher under any feed | `Deliver` is any message a server with increasing numbers can send; consumers take or end; properties and the inductive invariant `IInv` |
| `DispatcherProofs` | | the proofs about `DispatcherFeed` |
| `BookFollower` | abstract: a book is stale, or a whole snapshot and a prefix of the updates published after it | |
| `SnapshotSync` | dispatcher + external server + book | `owner` the published updates, `job` the snapshots being served, `book` what the commands build |
| `SyncProofs` | | the proofs about `SnapshotSync`, and that it implements `BookFollower` |
| `Pipeline` | `run_pipeline`, BBO ring, gating | `gate` is `in_recovery` and its companions; `ring`; `ppc` the await; one action per select arm |
| `PipelineFeed` | pipelines under any feed | history variables `recent`, `fresh`, `clears`, `open`; properties and the inductive invariant `IInv` |
| `PipelineProofs` | | the proofs about `PipelineFeed` |
| `TaskLife` | abstract: which task may end and which must, given the others | |
| `LiveFeed` | router, BBO reader, output and write tasks with `Dispatcher` and `Pipeline` | `rpc`/`route` the router, `bpc`/`bmsg` the BBO reader |
| `LiveProofs` | | the proofs about `LiveFeed`, and that it implements `TaskLife` |
| `Authentication` | `authenticate`, the requests at the head of `run()` | `phase` the answer waited for; `system`, `plant`, `paced`, `sent` what was chosen and sent; one action per answer and per send, `AuthError` at any of them |
| `Session` | command line, authentication, `run()`, watchdog, heartbeat, leaving | `link`, `heard`, `queued`, `silence` the connection; `wpc`, `attempt`, `delay` the watchdog; `handler`, `sigint` the signal |
| `SessionProofs` | | the proofs about `Session` with its authentication |
| `BookBuilder` | orders, levels, top, cause, imbalance, committed state | `orders`, `levels`, `mask`, `prev`, `flow`; one action, `ProcessEvent`, as in the code |
| `Tokenizer` | `mbo-tokenize` on that book | `stage` the tool's place, `tokens` what a step appends, `stats` the numbers it reports; one action per record and per event of a file |
| `BookProofs` | | the proofs about `BookBuilder`, alone and under `Tokenizer`, and about the tokens and statistics |
| `CloudRun` | image, launch, machine, boot scripts of both back-ends and of the builder, monitor, stop and cleanup | `job`, `pushed` the image; `machine`, `age`, `box`, `beating`, `code` the machine and its script; `beat`, `signal` the bucket; `mpc` the process at a call or asleep; `elapsed`, `booted`, `quiet`, `polls`, `idle` the monitor's locals; one action per call |
| `CloudRunProofs` | | the proofs about `CloudRun` |
| `Cpcv` | groups, day offsets, test blocks, purge and embargo | operators, one per function of `cpcv.rs` |
| `Labels` | `simulate_barrier`, the rows `event-export` writes | operators; prices in ticks, mids and moves in half ticks |
| `FoldRun` | `run_fold`, `run_imbalance_fold`, `train_xgboost`, `compute_serial_pnl` | `data`, `mode`, `filter`, `config`, `split` the input of a fold; `bestLoss`, `bestIter`, `stale` the locals of the training; `events`, `nextTs`, `trades` those of the execution, `own` those of each geometry by itself; one action per evaluated round and per event |
| `FoldProofs` | | the proofs about `FoldRun` with its labels and splits, and about `Shards` |
| `Shards` | the launch script, its machines, the bucket, aggregation; the folds of a run without a range on its threads | `stage`, `next`, `results`, `disk` a machine; `bucket`; `report`; `local` the run without a range |
| `MC...` | | the instances: model values, symmetry, views |

How they fit together:

```
BookFollower <== SnapshotSync --EXTENDS--> Dispatcher <--EXTENDS-- DispatcherFeed
                                               ^
                      TaskLife <== LiveFeed ---+   (LiveFeed: INSTANCE Pipeline)
                          ^
                          +--EXTENDS-- Session --EXTENDS--> Authentication
PipelineFeed --EXTENDS--> Pipeline          CloudRun            Shards
Tokenizer --EXTENDS--> BookBuilder          FoldRun --EXTENDS--> Cpcv, Labels
```

`<==` reads "is implemented by", checked as a property of the detailed module's run
and proved. Each `XProofs` module extends the modules that its row names.
Two layers of assumption are thereby discharged: `Session` takes the life of the
tasks from `TaskLife`, which `LiveFeed` implements with channels and handlers; and
`PipelineFeed` assumes that a clear is completed once, which is the theorem
`CompletionOnce` about the dispatcher.

### Conventions of the models

- A step ends at an await. Whatever a handler does between two awaits belongs to
  the step that ends in the send, because no other task can see the difference.
- A message keeps its template id, symbol, sequence number, sentinel mark, and the
  number of order events it converts to; an event keeps the message it came from,
  its position and the `F_LAST` flag.
- The order of a `HashMap` iteration is a nondeterministic choice.
- `streak` saturates at `MinStreak`, `attempt` at 5 and `silence` just past the dead
  line: the code only compares them there.
- Time in `CloudRun` is counted in poll intervals; it passes while the monitor sleeps,
  or when there is no monitor. The ages and times saturate just past every limit they
  are compared with.
- In `FoldRun` the model is external: a validation loss and the edge of a prediction
  are any choice, and the hash that samples rows is any set of times. A row is named by
  its day and its place in the day's file; what is still to be walked, what was traded
  and what was passed over are sets of such names, taken in their order.
- The server of `Authentication` is external: which names and gateways it answers
  with, whether it answers at all, and the heartbeat interval are any choice.
- In `Shards` a fold is its number, and its trades are their count: what the report
  computes, it computes from the results one by one in their order.
- Variables called history (`sent` in `Dispatcher`, `wire` in `DispatcherFeed`;
  `recent`, `fresh`, `clears`, `open`; `interrupted`, `configured`; `batch`, `record`;
  `synced`, `fault`; `losses`, `skipped`) record the past for the properties; no code
  reads them.
- A definition marked `mutant` is a plausible bug in the definition after it; the
  mutant list pairs each property with one that breaks it.

## 3. Runs

Passing runs:

| run | question | properties |
|---|---|---|
| `dispatcher_safety` | Does the dispatcher keep its promises to pipelines under any feed, with channels that fill up and close? | `TypeOK`, `LoadingBookIsSnapshotOnly`, `CompletionClosesAClear`, `UpdatesInOrder`, `GapRecoversAll` |
| `sync` | Is the book of a completed load the exchange's book, and does every load complete? | `BookIsCurrent`, `CompletionMeansLoaded`, `FollowsExchange` (refinement), `EveryLoadCompletes` |
| `pipeline` | Do gating, ring, validation verdict and giving up hold for any order of commands and quotes? | `GateJoins`, `RingHoldsRecent`, `CheckIsRight`, `Degradation` |
| `livefeed` | Do the tasks on bounded channels always make progress, and do ends propagate? | `LoadingIsGated`, `RouterReturns`, `LogoutReaches`, `ImplementsTaskLife` (refinement), `NewsArrives` |
| `session` | From the command line to the exit, do authentication, supervision, exit codes, heartbeat and back-off do what they say? | `ExitCodeIsHonest`, `StartsPrepared`, `SilenceIsNoticed`, `ClosedSessionEnds` |
| `book` | After any records over any number of files, do the levels equal the orders, does the cause explain the move, and do tokens and statistics describe the records? | `LevelsAggregateOrders`, `CauseExplainsMove`, `EventRecovered`, `StatsDescribeStream` |
| `cloud` | Does a run in the cloud report the truth and leave nothing running, whatever fails and in whatever order? | `TypeOK`, `ResultIsReal`, `NoLostCompletion`, `FollowedIsYoung`, `MonitorReturns`, `MachineIsFreed` |
| `backtest` | Do labels, splits, early stopping, execution and its breakdown fit together, for any day of three states and any model? | `LabelsNest`, `NoLeak`, `StopsAtTheBest`, `Serial`, `BreakdownExplained` |
| `shards` | Is the report of a distributed run, whenever it is made and whatever failed, made of whole machines, and does it equal that of one machine on any number of threads? | `ReportIsLocal`, `WholeShards`, `OrderIsOfSplits` |

Runs that end in a counterexample, each to a sentence of the source (section 5):
`dispatcher_masked_gap`, `book_bbo_changed`, `shards_twice`.

### Bounds, and why they suffice

- `dispatcher_safety`: two instruments (symmetric), sequence numbers to 4, a streak of
  1 instead of 50, buffers of 2 instead of 100000, channels of 1. Two instruments are
  enough for one to load while the other streams, and for a recovery loop that is
  suspended between them; four numbers fit an armed detector, a hole, an overflowing
  buffer and a replay that both discards and applies. The five properties are proved
  for all values of these constants.
- `sync`: two instruments, four updates, snapshots of two entries, so that a snapshot
  can be cut by updates of either instrument and by the other's snapshot. The buffer
  holds every update here: an overflow is a documented loss. The three safety
  properties are proved for all values of these constants while no buffer overflows,
  and that none does while a feed is no longer than a buffer.
- `pipeline`: one instrument (pipelines share only the output channel), a ring of 2
  (code: 8) so that it wraps, limit 2 (code: 10), two tops, two timestamps, four
  clears: one more than are needed to reach the limit.
  The four properties are proved for all values of the constants.
- `livefeed`: one instrument, every capacity 1, which makes back-pressure as tight as
  it can be, and three messages from the socket, enough to fill every stage, to start
  a load and to log out. `LoadingIsGated` and the refinement are proved for any
  instruments, capacities and number of messages.
- `session`: one pipeline, one session past authentication, two systems, and answers
  that name none, one or both, with a gateway of the right kind behind another or absent.
  The attempt count runs freely, through failed authentications, to the cap of the
  back-off. One message at a time may be queued behind the router: the dispatcher and
  the BBO reader record it anew when they take it, after the socket fell silent or the
  router ended. A longer queue puts off the dead line again, a finite number of times.
  With one instrument `StartsPrepared` is about the order of its three requests; for
  more instruments it is proved, as is `ExitCodeIsHonest`.
- `book`: two orders, prices 2, 4 and 6 in fixed-point units with ticks of 2, sizes 1
  and 2, one tick of vocabulary on either side of the mid. Three prices let the top
  move forward and back in one batch with a level behind it, put a mid between two
  ticks, and reach beyond the vocabulary; two orders may share a level or stand on
  either side. A cancel, fill or modify may name no live order. The view leaves out the
  last verdict, the last tokens and what has been counted so far: the properties are
  about one step or about the book, and what a step does depends only on what the view
  keeps. Sizes from 0 to 300 are decoded in an assumption of the instance.
- `cloud`: a maximum runtime of 6 polls with an idle check at every second one, so
  that two idle checks, the heartbeat timeout of one poll and the maximum runtime all
  can be the first to end a run; the time to live is then 9, three polls beyond.
  Two exit codes tell the experiment's apart from another. One job, an
  experiment on either back-end or a build of its image: jobs have their own machine and
  their own part of the bucket.
- `backtest`: every day of three states with prices 0 to 3, either side and one of three
  spacings of time (two states at once, a step at and one past the horizon) for the
  labels; three days of four kinds, one without rows, for splits and folds; four days,
  two of them tested, for trades that follow each other over days. The tools run with
  no purge and no embargo; the library's are checked with zero and with a purge of 4
  and an embargo of 7 rows, less and more than a short day. Five evaluations and a
  patience of two let training stop early, late and not at all. Three geometries, so
  that a trade of one may keep another's from being taken.
- `shards`: three folds on one to four machines, so that ranges are equal, unequal and
  empty; the directories sort as the names of more than ten machines do, not as their
  numbers; every fold has its own number of trades. Without machines, one to three
  threads. The view leaves out the last report: the properties compute it anew from
  the bucket, in every state. The three properties are proved for any number of folds,
  machines and threads.

### Fairness

tokio polls every task whose await is ready: weak fairness on each task's steps.
`select!` polls ready branches in random order, so a pipeline that is ready again
and again on a branch eventually takes it: strong fairness on its two branches. In
`sync` the external server serves a request it could serve again and again (strong
fairness), whatever else it publishes. Nothing is assumed of the network, of
authentication (it has no timeout) or of the user. In `cloud` time passes, the
operator's process goes on until it returns, and a script whose command has ended
runs to its end; a machine need never boot and its command never end. `shards` and
`backtest` have no liveness property and state no fairness. Standard output is assumed to
take what is printed, or to break; standard error is assumed not to break, which would
panic the main task. Of the signals only SIGINT is modelled.

### What `sync` assumes of the server

Three constants, all `FALSE` in the run, switch off an assumption each. The
repository does not say which behaviour the vendor guarantees; these are the
conditions under which the client is right:

- `ColdLag`: a first snapshot may be captured before its first entry is sent. Updates
  in between are streamed, then wiped by the `ClearBook` of the first entry
  (`dispatcher.rs` 346). With `TRUE`, `BookIsCurrent` fails.
- `EndAnyTime`: a 161 may be sent while another instrument loads. The handler
  completes every loading instrument (`dispatcher.rs` 388). With `TRUE`,
  `CompletionMeansLoaded` fails.
- `LoseAnyTime`: updates may be lost before the detector is armed or during a load.
  With `TRUE`, `FollowsExchange` fails.

## 4. Proofs

### The dispatcher

`DispatcherProofs` proves, for every set of instruments, every channel and buffer
capacity, every streak threshold and every bound on sequence numbers:

| theorem | states |
|---|---|
| `Invariance` | `Spec => []IInv` |
| `TypeCorrect` | types, and no channel or buffer exceeds its capacity |
| `LoadingBook` | a loading pipeline has been cleared and sent no update since |
| `CompletionOnce` | at most one completion per clear |
| `UpdateOrder` | between two clears, numbered updates in increasing order, none twice |
| `GapRecovery` | when a recovery loop ends, every instrument is loading |

Assumptions: `DispatcherAssumption` and `NoneAssumption` (types of the constants,
`None` is no message, capacities are positive) and `FeedAssumption` (the bounds on
what is delivered are subsets of the types). Server numbers increase, by `Deliver`.

The argument. None of the properties is inductive. `UpdatesInOrder` compares an
update with what the pipeline has got, but what is sent may come from the wire, from
the buffer, or from a handler suspended in its event loop. `OrderInv` therefore
orders all of them: sent < being sent < buffered (increasing) <= highest on the wire,
and says that the buffer of a streaming instrument is empty unless it is being
replayed (`Drained`). `HandlerInv` says what a suspended handler still owes:
during a recovery everything outside `todo` already loads; during a completion
everything in `todo` still loads, and the instrument being replayed streams and is still cleared.
`IInv` is the conjunction of these with `TypeOK` and `LoadingBookIsSnapshotOnly`.
The proof shows `Init => IInv` (`InitIInv`) and `IInv /\ [Next]_vars => IInv'`
(`StepIInv`, one lemma per group of actions and conjunct), and each action property
from `IInv` and the step.

### The cloud run

`CloudRunProofs` proves, for any exit codes, time limits and idle interval allowed by
`CloudAssumption` (a maximum runtime of at least two polls):

| theorem | states |
|---|---|
| `Invariance` | `Spec => []IInv` |
| `TypeCorrect` | types and the bounds of the counts |
| `RealResult` | a reported exit code is the experiment's, and the upload came first |
| `CompletionIsFound` | without a failing call a run that signalled is not reported as gone |
| `CleanupSparesFollowed` | a followed instance is within its time to live |

The argument. A result is real because of what the script did before it wrote
`status.json` (`SignalInv`), not because of anything the monitor looks at; the
monitor only has to have read it (`OutcomeInv`). A completion is found because the
second look at the status comes after the machine was seen to be down, and a machine
that is down signals no more. The time to live holds because both clocks start at the
launch (`AgeInv`): the monitor overshoots its limit by at most one poll, and
one and a half times a limit of two or more leaves at least one. `TypeOK` is not
inductive alone: that the count of idle checks stays at two needs that the loop is
left there.

### Snapshot and stream

`SyncProofs` proves, for every set of instruments, every feed and interleaving, every
size of a snapshot and every capacity of the channels, under two hypotheses: the server
is `Regular` (the three constants of section 3 are `FALSE`) and `[]Fits` (no replay
buffer overflows):

| theorem | states |
|---|---|
| `Invariance` | `Regular => (Spec /\ []Fits => []IInv)` |
| `LoadsAreWhole` | a completed load holds every entry of one snapshot and of no other |
| `BooksAreCurrent` | when the dispatcher is idle and the pipeline has caught up, a streaming instrument's book is the exchange's |
| `ClientFollows` | the client implements `BookFollower`: a book never has a hole, a duplicate or an update out of order |
| `BuffersHoldTheFeed` | `[]Fits` holds of any feed of at most `BufferLimit` updates |

Assumptions: those of the dispatcher and `SyncAssumption` (a snapshot has entries, the
bodies of messages include what the server sends). `BuffersHoldTheFeed` discharges
`[]Fits` for the feeds of the run; for a longer one it says what the documented loss of
`dispatcher.rs` 266-277 costs.

The argument. A property of the book says nothing of the commands that are on their way
to it. The invariant therefore speaks of the whole `Trail`: the books the
pipeline goes through as it takes what is queued. Every one of them that is complete is
a whole snapshot and the updates after it up to some number (`Sound`), and the last of
them is what the dispatcher's phase says it should be (`Phase`): the entries delivered
so far while it loads; the snapshot while it completes; the snapshot and the replayed
updates while it replays; everything seen while it streams. That the replay fits the
snapshot needs what the buffer holds, all of the instrument's updates from some number
at most one past the snapshot's (`BuffersFrom`); that needs that the request of a
snapshot is in one place at a time (`Requests`), and that the detector sees every loss
(`Tracking`). A step changes the last book of the trail when a command is queued and
drops the first one when it is taken.

### The pipelines

`PipelineProofs` proves, for any instruments, prices and times, any size of the ring,
any limit of recoveries and any capacity of the channels:

| theorem | states |
|---|---|
| `Invariance` | `Spec => []IInv` |
| `GateIsJoined` | a pipeline is out of a recovery exactly when the completion and a BBO after the clear are both there |
| `RingIsRight` | the ring holds exactly the last BBOs, across every wrap-around |
| `VerdictIsRight` | a check is a match if and only if one of those BBOs shows the book's prices |
| `GivesUpInTime` | a pipeline gives up at the limit, and then it was cleared more often than that |

Assumptions: `PipelineAssumption` (`None` is no price pair and no BBO, times are
numbers, sizes are positive) and `FeedAssumption`.

The argument. `GateJoins` speaks of the history `fresh`; the code remembers it in
`recovery_bbo_received`, and `IInv` says that the two agree while the pipeline runs.
The ring is related to the sequence of BBOs through `Slot`, the place of the k-th
newest one: `Wraps` says where the remainder leads and `PushRemembers` that a push
moves every BBO one place back and drops the oldest of a full ring. `CheckIsRight`
needs that the `CHOOSE` in `Closest` has a value (`ClosestIsOne`, from the
well-foundedness of the numbers), that every slot is the place of some BBO, and that a
pipeline takes no BBO between its check and its send. `Degradation` compares the
recoveries that were counted with the clears the dispatcher sent, between which there
is a channel: `Tally` says that a running count, from what the pipeline has done through
every command that is queued (`Tallies`), never passes the clears that were completed.

### The tasks of a session

`LiveProofs` proves, for any instruments, messages and channel capacities:

| theorem | states |
|---|---|
| `LoadsAreGated` | while a snapshot loads its pipeline is in a recovery or will be, and when the load is done the completion is the last word |
| `TasksLiveAsSaid` | the tasks implement `TaskLife`: one ends at a time, and a pipeline that did not give up ends only after those it depends on |

The argument. The dispatcher's invariant says where a clear is open (`Loads`), the
pipeline's gate says where it got to, and between them is a queue into which the BBO
reader puts trades: `GateAfter` is the gate after all that is queued, and `Gated` says that it
is shut while a clear is open. The refinement goes step by step: each action changes the
status of at most one task (`Lives`), and the change is one that `TaskLife` allows.
`LiveAssumption` says that no instrument has a worker task's name and that the wire
carries messages.

### Sessions

`SessionProofs` proves, for any finite set of instruments, any systems, answers and
number of sessions:

| theorem | states |
|---|---|
| `ExitsAreHonest` | once there was a configuration, exit code 2 is a pipeline that gave up in the session under way, 0 a user who asked, and 1 is not used; without one a process has tried nothing |
| `SessionsStartPrepared` | tasks start only after a login to the right system and, for every instrument, its three requests in order |

The argument. The requests sent are those of distinct instruments one after the other,
three for each but the last (`Script`), so when there are three for each instrument all
were served: an injection of a finite set into itself is onto. What a task ended with is
never taken back (`Causes`), so the exit finds the reason that the select saw.

### The order book

`BookProofs` proves, for any finite set of identifiers, any prices and sizes, and
any sequence of records an exchange can send (`Feed`):

| theorem | states |
|---|---|
| `LevelsAreTheOrders` | the levels are what the live orders add up to, in `BookBuilder` alone and through all files of `Tokenizer` |
| `CausesExplainMoves` | the cause of a commit explains how the best prices moved since the last one |
| `RecordsAreRecovered` | a reader who knows the book before a record gets the record back from its tokens, the price to the tick or the side of the vocabulary it is on |
| `NumbersDescribeStream` | the numbers reported at the end describe the stream written: every order in one bucket of sizes, in one of prices or without reference, four tokens for it, and one for each clear and commit |

Assumptions: `BookAssumption`, and `TokenizerAssumption`, which says that prices are whole
ticks: an off-tick price shares its token with its neighbours, as `TickDelta` rounds
(`compute_tick_delta`, `mbo-tokenizer` `lib.rs` 122-125).

The argument. A sum over orders is the cardinality of the set of their contracts, so no
induction over a sum is needed: an order that comes adds a set disjoint from the rest
(`ContractsWith`), one that goes takes its own away (`ContractsWithout`). The best price
exists because a finite set of prices has ends, by a least counterexample. The cause
needs what the mask remembers (`Marks`): with only adds in it no side is worse than at
the last commit, with only cancels or only trades none is better, and
with none the prices are the same. The mid may lie between ticks, so a price is
recovered because rounding is at most half a tick off (`RoundedIsNear`) and two
prices a tick or more apart are rounded apart, halves included (`RoundedApart`); a price
off the vocabulary is then further from the mid than the range. A size is in the last
bucket that begins no later, and buckets rise. The statistics are inductive as they
stand (`StatsInv`): a record adds as many tokens as it adds to the counts
(`EmittedLength`), and one of nine or one of six counts grows (`SizedAdds`,
`ActedAdds`).

### The backtest

`FoldProofs` proves, for any data sorted by time, any geometries, purge, embargo,
losses and predictions:

| theorem | states |
|---|---|
| `LabelsAgree` | the labels of one state agree with each other |
| `SplitsDoNotLeak` | a training day is neither tested nor has a bar within the purge or the embargo of a tested one, and no day is left out without need |
| `BestModelPredicts` | the model used is the first of the best ones seen, and training did not stop too early |
| `TradesAreSerial` | trades never overlap, and only an open one keeps an event from being looked at |
| `BreakdownIsExplained` | the breakdown by geometry differs from the total only by the positions of other geometries |

Assumptions: `LabelAssumption` (barriers are at least a tick away) and `FoldAssumption`.
The latter says that each day's states are in the order of their times, which
`simulate_barrier` asks for (`event-labels` `lib.rs` 81) and `event-export` relies on
(`main.rs` 371), and that the files are in the order of their dates (`data.rs` 117).

The argument. The input of a fold never changes, so labels and splits are questions about
any input (`InputInv`). Labels agree because a wide barrier is not touched before a
narrow one, so the first exit of one bounds the other's (`BarriersNest`). For splits,
the bars of the days follow each other (`MetasInOrder`); every test day is in the block
from the first to the last test day joined with it (`InABlock`), which exists by a least
counterexample; a day is then on one side of that block, and purge and embargo compare
the right ends (`Apart`, `Exact`). Early stopping keeps a round that is best so far and
counts those after it (`BestInv`). The walk's lock is the exit of a trade, and no trade
ends later (`Locks`); since events come in order of time, a trade that begins after the
lock begins after them all.

### The distributed cross-validation

`FoldProofs` also proves, for any number of folds, machines and threads, any order of
the directories' names and any trades of the folds:

| theorem | states |
|---|---|
| `ReportsMatch` | a report made once every machine has its exit code is that of one machine, but for folds counted twice: no fold missing, all in the order of the splits |
| `NoPartOfAMachine` | whatever failed and whenever it is made, a report has all results of a machine or none, and none that was not computed |
| `FoldsInOrder` | the report of a run without a range does not depend on how many folds run at once and in what order they end, and its partial file aggregates to the same |

Assumptions: `ShardsAssumption` (there is a fold and a machine, directories have
different names, a fold's trades are a number, and there is at least one thread).

The argument has three parts. The ranges: the first fold of machine i is
i * q + min(i, r), with the quotient and the remainder of folds by machines (`StartIs`),
so ranges follow each other without a gap and cover all folds (`RangesAre`). The
results: what a machine has in memory lies in its range and below the fold it runs next,
its file has all of it from the moment the range is run, and so has every copy, which
is never made earlier (`ShardInv`); an exit code means that the boot script's copy is
there, although the tool's own may be missing. None of the three invariants is inductive
without these: a bucket alone does not say that a file in it is finished. The report:
`Sorted` puts a result where its rank says, and the ranks of the places of a sequence
are a permutation of them (`Ranks`, by counting), so sorting keeps the elements and
their copies; a sorted sequence without repetitions in a row is that of its set
(`OnceIs`), whatever the files' order and number of copies were. Concatenation is a
recursive function whose existence and elements follow by a least counterexample
(`ChainExists`, `ConcatenatedIs`). For the run without a range, one thread keeps results
in increasing order since it takes the least fold left (`OneByOne` of `LocalInv`), several
collect them by place, and what the report has is what was kept when all had ended
(`Gathered`). TLC found both invariants to hold of the run's instance before they were
proved.

### Only model-checked

- Liveness: `EveryLoadCompletes`, `RouterReturns`, `LogoutReaches`, `NewsArrives`,
  `SilenceIsNoticed`, `ClosedSessionEnds`, `MonitorReturns`, `MachineIsFreed`. Fairness
  and `ENABLED` are out of the prover's reach; the refinements of `BookFollower` and
  `TaskLife` are of their safety parts.

Every invariant and every safety property of a step that a passing run checks has its
theorem.

## 5. Disagreements with the source's own words

Each is a run that ends in a counterexample.

1. `dispatcher_masked_gap`: the header of `dispatcher.rs` (14-16) promises one global
   tracker and a recovery of all on a gap. A 116 or 161 of one instrument overwrites
   the tracker, so a hole in another instrument's updates that ends there is not seen.
2. `book_bbo_changed`: `commit` overwrites the previous prices before
   `current_committed_state` compares with them, so `bbo_changed` is never set for a
   caller that reads it after the commit (`databento-ingest` 124).
3. `shards_twice`: the tool and the boot script each leave a copy of the partial
   results below the machine's prefix; the recipe fetches both, and the aggregation
   counts every fold of such a machine twice. The ranges are said to be disjoint
   (`README.md` 85 of the research), and the number of folds, the pooled trades and
   the confidence interval of the report are computed from copies.

Seen while reading, without a run:

- `main.rs` 6 says that a degraded pipeline is never retried. Its receivers are dropped
  as it returns; the dispatcher or the BBO reader may fail its next send before the
  join handle is looked at (`client.rs` 424), and the watchdog retries. What holds is
  the converse: exit code 2 of a process that had a configuration means that a pipeline
  degraded (`ExitCodeIsHonest`).
- Nothing but the message tells a degraded book from a usage error: `Args::parse`
  (`main.rs` 83) also ends with 2, as it ends with 0 for `--help`, the code of a Ctrl+C.
- `main.rs` 7 says that Ctrl+C ends the process with 0. Once a select installed a
  handler, a signal during a later authentication is swallowed, and without a handler
  it kills.
- `compute_side_ofi` (`flow.rs` 319) treats asks like bids, where the comment above it
  (305-310) says that an ask that falls has improved.
- The tokenizer's documentation (`lib.rs` 362-367) gives every `F_LAST` a `COMMIT`; a
  record with an action it does not know returns before it emits one. Its
  `price_in_range_pct` counts clears and unknown records, which have no price.
- The distributed launch script means to terminate the machines it started when a
  later request fails (317-325); under `set -e` it ends before it gets there. With more
  machines than folds it passes ranges the tool rejects. An aggregated report always
  has `n_days` 0 (`main.rs` 735).
- The builder's boot script reads `PUSH_EXIT` under `set -eo pipefail` (`build.rs`
  581-585): a push that fails ends the script before the branch for it.
  `build-remote --no-follow --output json` prints "pushed" before anything is pushed
  (`main.rs` 137-145), and the registry login is spawned and not awaited before the
  push (`build.rs` 84-97). The image's tag is the experiment's name, so two runs of
  one experiment may use each other's image.
- A pod whose creation was made but not answered is known to nobody and, unlike an
  instance, has no time to live.
- The breakdown by geometry walks each geometry by itself (`fold_runner.rs` 554), so
  its trades do not add up to the total; `BreakdownExplained` says what differs.
- Validation is said to be re-enabled after a completion (`dispatcher.rs` 69-70), but
  nothing suspends it: `pipeline.rs` 341 looks at `initial_snapshot_done`, not at
  `in_recovery`, and the partial book of a reload is compared.
- `client.rs` 406 says the first failure triggers shutdown; returning from `run()`
  detaches the other tasks, and those of a silent connection live on with it.
- `heartbeat.rs` 4 says heartbeats are skipped when other messages flow; one is sent
  at every interval.
- A clear that empties the top has no bit in the mask, so a commit with a moved top
  reports the cause `None`; `CauseExplainsMove` excludes batches with a clear.
- The heartbeat timeout (`config.rs` 99: "Terminate if no heartbeat received within this
  many minutes") never fires once there was a heartbeat: `monitor.rs` 75 asks whether
  `heartbeat.json` exists, not how old it is. A dead script is left to the idle check,
  which only EC2 has, or to the maximum runtime.
- A call that fails counts as a machine that is gone: the monitor returns an error and
  leaves the machine running. Likewise a pod that is not ready in time stays.
- `status.json` reports the pricing model of the configuration (`userdata.rs` 13-17),
  also for an instance that fell back to on-demand.
- Pod names keep 28 characters of a run identifier (`main.rs` 459): long experiment
  names share a prefix, and stop may take another run's pod.
- `event-backtest` takes `--purge-seconds` and `--embargo-seconds` (`main.rs` 55-59) and
  uses neither: the purge and the embargo of every split are 0 (`main.rs` 203-211).
- A tested day without rows makes a block of its own in `cpcv.rs` and purges or
  embargoes the days around it; `NoLeak` states exactness without such days.
- With fewer than 50 rounds and a validation set no loss is ever looked at:
  `best_iter` stays 0 and one tree predicts (`fold_runner.rs` 466-512).

## 6. Hazards without a property

`PROJECT.json` lists every hazard with the line where it bites. Five have no property:

- updates of unknown symbols are skipped before the sequence check (`dispatcher.rs` 171):
  the next known one looks like a gap and costs a needless reload, which is a recovery
  like any other;
- trades that the BBO reader puts into a depth batch (`client.rs` 165): `LiveFeed` has
  the interleaving, but its book is abstract; with the book of `BookBuilder` the
  product is beyond a run of this size;
- validation during a recovery (`pipeline.rs` 341): modelled as it is, and the source's
  own words disagree (section 5);
- a batch of captured messages that is dropped after a second failure (`capture.rs` 52):
  a documented loss of a component that gives nothing back;
- a pod that is not ready in time stays (`cloud-run/main.rs` 479): a behaviour of
  `CloudRun` that nothing in the code forbids.

## 7. Not modelled, and what is left

Not modelled: the capture uploader, the state enum (used by its own tests only),
counters and the health log, protobuf types, feature formulas, the Markov baseline and
the verifier, the XGBoost bindings, and the shared types. Partly: the book builder
without exponential averages and ten-level snapshots; the wire adapter without its map
of identifiers and conversions of prices and times; labels without profits; the
backtest without trees, calibration and formulas of statistics; `cloud-run` without
status, list, dry runs, security groups and the truncated names of several pods; image
builds without the steps inside docker; of the research scripts only the distributed
cross-validation.

Done, in this order: dispatcher, synchronisation, pipeline, composition, session,
book, cloud run, backtest; then the tokenizer on the book, the distributed
cross-validation, authentication, image builds, execution by geometry; proofs about
the dispatcher, the cloud run, the pipelines, the synchronisation, the book, sessions,
the tasks, the backtest and the distributed cross-validation.

What could follow: the identifier map of the adapter; the capture uploader with its
key sequence; the age of a heartbeat in `CloudRun`, to show the timeout that does not
fire.
