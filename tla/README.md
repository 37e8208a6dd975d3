# A verification model of ios-ble-capture

TLA+ modules, TLC configurations and TLAPS proofs kept beside
`ios-ble-capture`.  Paths below are relative to the repository; `run.py`,
`executor.py` and so on mean `src/ios_ble_capture/...`.  Every definition names
the lines it models in `PROJECT.json` ("map").

## The system

A recipe run captures Bluetooth traffic of an iPhone: it checks preconditions,
takes ownership of the device away from other software (a hook), starts packet
loggers as child processes, drives the phone, stops the loggers and gives the
ownership back (another hook).  Captures are imported, attributed to one
connection and decoded afterwards.

| Component | State it keeps | Operations | Talks to |
|---|---|---|---|
| run lifecycle (`run.py`) | signal handlers, pending exception, which hooks ran | `execute_with_hooks`, `interrupt_as_error`, hook runner | calls the executor; launches hooks; receives signals |
| process supervisor (`ios/process.py`) | registry of owned processes in start order | `start`, `require_running`, `stop`, `close` | signals process groups, waits with a grace period |
| recipe executor (`executor.py`) | step index, started captures, outputs | `execute` and one method per step kind | supervisor, WDA client, Kaitai, storage |
| command line (`cli.py`) | none beyond one command | one handler per sub-command | everything |
| capture import (`capture.py`) | active connection per handle, pending L2CAP fragment per handle, epoch counter | `import_capture` | storage |
| attribution (`attribution.py`) | none | catalogue, resolve, select a source | import command |
| storage (`storage.py`) | files of a run directory | private writes, `append_action_mark` | all commands |
| Kaitai cache (`kaitai.py`) | content-addressed directories | `compile_kaitai`, `load_parser` | external compiler, other processes using the cache |
| BLE helpers (`ble.py`) | one session and its connection | `connect`, `read`, `write`, `notify`, `close` | an asynchronous backend |
| WebDriverAgent client (`ios/wda.py`) | session id | `open`, `tap_named`, `slide_named`, ... | an HTTP server that serves a changing screen |
| segmentation, reporting, redaction | none | pure functions of events, marks and JSON | import and report commands |
| recipes, models, errors, capture configuration | none | parsing and immutable records | all |

Behaviours that are hard here:

- signals: SIGINT and SIGTERM are turned into an exception raised wherever the
  main thread is, so every statement of the lifecycle, of the supervisor and of
  the executor's `finally` can be the last one executed;
- processes nobody schedules: loggers exit early, ignore SIGTERM, survive
  SIGKILL for a while, leave descendants behind, and create their output files
  late;
- failures of one step of several: a hook, a step and a teardown can all fail
  in one run, and each error must stay visible;
- order: teardown, then private outputs, then handlers, then ownership;
- outside the core: handle reuse in captures, two processes compiling the same
  schema, two writers of a mark file, notifications racing their timeout, a
  screen that changes between a lookup and a tap.

What makes each component correct:

- lifecycle: the restoration hook runs exactly once after an attempted run, not
  at all after a refused one; an interrupted run fails; no error hides the one
  before it; the handlers found are put back;
- supervisor: leaving the `with` statement in silence means every process is
  gone; otherwise the failure is reported, and it never prevents the teardown
  of another process; teardown is in reverse order and takes bounded time;
- executor: success means all steps, all loggers alive when last checked, all
  outputs private; ownership is restored after the loggers stopped;
- capture import: every event belongs to the connection it came from and is a
  whole ATT message; attribution never mixes peers;
- storage: a completed write is durable against later crashes, no mark is lost;
- Kaitai cache: an entry is complete and is what its key says;
- BLE: no connection outlives its session, no wait is unbounded;
- analysis: a diff replays to the later value, segments partition the events.

## The modules

`RunLifecycle` is `execute_with_hooks`.  `pc` is the program point, `exc` the
exception in flight, `saved` the dict `previous` of `interrupt_as_error`.  There
is one action per statement that matters: the optional preflight callable, the
two loops of the guard (`Install`, `Restore`, one signal at a time, SIGINT
first), the hooks (skipped, launched, failing to launch, ending well or badly),
the caller's action, the `except` clause, and the arrival of a signal.
`Landing` says where an exception raised at a program point is caught next: it
is the shape of the nested `with`, `try`, `except` and `finally`.  A hook that is
running when its wait is interrupted is killed by `subprocess.run`.
`attempted` says that line 138 was reached; `interrupted` and `unguarded` are
history variables of signals that raised `RunInterruptedError` and of signals
that arrived outside the two guarded windows.

`ProcessSupervisor` is a `with ProcessSupervisor(...)` statement: any body that
starts, checks, waits for and stops processes, followed by `__exit__`.
Processes are numbered in start order, which is the order of the registry dict,
so `reversed(self._processes)` is "greatest number first".  `_stop` is split at
each system call, `close` at the pop, so that an asynchronous exception can land
at every point the code distinguishes: before registration, in the loop, between
the pop and the inner `try`, inside `_stop`.  `failures` is the list of `close`,
`raised` the exception leaving the statement.  Leaders and descendants are the
operating system's: they exit whenever they like or never; `forced` records
which groups were sent SIGKILL.

`RecipeRun` composes both: `RecipeExecutor.execute` is the action of
`execute_with_hooks`, its `with` statement is the supervisor, its `finally`
makes the outputs private.  It adds the step loop (a capture step starts a
logger and records its output first; any other step just succeeds or fails), the
check of every logger after every step, the files, two history variables
(`lost`, loggers that exited while a step was executing; `cut`, whether a signal
cut the start of a logger, the teardown or the `finally` clause short), and one
signal handler for the whole thread: a signal during the action is an interrupt
of the supervisor's statement, or of the `finally` clause, at the point
execution has reached. Its actions call those of the two modules through `L ==
INSTANCE RunLifecycle` and `S == INSTANCE ProcessSupervisor`; leaving the action
is written out from `executor.py`, so that `KeepsLifecycle` (the composition
implements `RunLifecycle`'s specification) checks what `RunLifecycle` takes for
granted: an interrupted action does not return.

`HciImport` is `import_capture` beside the links it reconstructs.  Its world is
the Bluetooth controller: connections open and close on reused handles and move
ATT messages cut into packets.  Every packet is logged, missed, or cut short by
the logger; the importer's action for a logged packet is the body of its loop,
and since the importer is a fold over the capture it reads along.
`active_connections`, `fragments`, `next_epoch`, `att_events` and
`connection_events` are variables of those names; an epoch of 0 is an absent
entry.  An event carries the connection it really came from (`conn`) for the
properties to compare with.  Messages may belong to a channel other than ATT
(`other`), which `Record` leaves out, and a start packet may be cut within its
L2CAP header (`ImportHalfHeader`).  Payloads are counted in units of one packet.
The capture may begin with connections already open, whose peers the importer
cannot know.

`Attribution` holds the operators of `attribution.py` over a sequence of
events: names of sources, the catalogue, the resolution of a selector (an
address tail is the set of peers it is the end of) and the refusals of
`select_source`.  `ImportCommand` composes both: after the import, `Store` takes
any pair of selectors and either refuses or keeps the selected events and the
connection records of their epochs.

`MarkStore` is `_write_private` under the mark and segment commands of several
processes on one run directory.  A command reads (`ExtendMarks`,
`ComputeSegments`), then opens its file with `O_TRUNC` (`Truncate`), makes the
descriptor private (`Protect`), writes (`Write`) and checks the mode
(`Confirm`); other processes run between any two of these, and a command may end
at each of them (`Abandon`).  `content` and `mode` are the two files: a line for
each mark, and for a list of segments its text (`Text`), cut into pieces of
which a list has the more, the more segments, ends and events it holds.  A write
covers the start of what another process has written meanwhile, as `write(2)` at
offset 0 does; what is longer stays behind it.  Segmentation is the operators
`Refused`, `Window` and `Segments`; an instant is a number, an event its place
in `events.jsonl`. `acked`, `known`, `disturbed` and `torn` are history
variables: the marks whose command succeeded, those of them a segmentation must
show, whether mark commands overlapped or one was cut off in mid-write, and
whether `segments.json` was truncated by one command while another was writing
it.

`KaitaiCache` is `compile_kaitai` and `load_parser` in several processes over
one cache directory, while somebody edits the schemas, compilers fail and
processes die.  A cache key is the pair of what the hash is taken of; a directory
records what it was compiled from (`built`), so that the key and the contents can
be compared.  Staging, compiling, writing `result.json` and the rename are
actions of their own.

`Reporting` holds `diff_decoded_json` and the two renderings of an event under a
`RedactionPolicy`; its actions are the two commands, one step each from every
input.  The JSON values are a constant, a set of finite trees closed under parts
(`JsonAssumption`: a part is smaller by `Size`); `MCReporting` gives TLC those
that are two levels deep.  `_diff_json` and the two functions it calls are one
recursive function, `DiffJson`, which puts the differences of a part `Under` its
key or index, where the code hands the path down.  `Patched` applies a diff to a
value and is the reference the diff is compared with.  `AnalysisCommands`
composes the three modules as the commands on what is already on disk; a
behaviour runs one of the three families, since they share nothing.

`BleSession` is one `ble` command: the task awaits one request of the backend
at a time (`step`, `request`), `Return` and `Raise` go to the next await by the
control flow of the command, of `connect` and of `__aexit__` (`AfterReturn`,
`AfterRaise`), `Deadline` and `TimeOut` are `_within_timeout`, `Interrupt` is
the cancellation that SIGINT causes under `asyncio.run`.  The device serves a
request in time, fails it, serves it after it was given up (`late`) or goes out
of range.

`WdaClient` is the launch, tap, type and swipe steps of a recipe, one HTTP
request per action, over a phone whose screen (`ScreenChanges`) and front
application (`AppSwitches`) change between any two requests.  `clients` is the
executor's dictionary of clients, `session` the one session WebDriverAgent
serves.  `touch` and `keyed` record what the gesture and the text of the step
really reached.

`RunLifecycleProofs`, `ProcessSupervisorProofs`, `RecipeRunProofs`,
`MarkStoreProofs`, `AnalysisProofs`, `BleSessionProofs`, `WdaClientProofs` and
`ImportProofs` hold the theorems.

Operators whose comment starts with "Wrong:" are plausible bugs of the
definition below them; each shows that some property would notice.

## What is checked

| Run | Question | Bounds |
|---|---|---|
| `lifecycle` | does the restoration hook run exactly once, is a refusal clean, are errors and handlers kept? | 3 signals, every subset of hooks |
| `supervisor` | what does the end of the `with` statement say about the processes? | 3 processes, 2 names, 2 interrupts, descendants |
| `recipe` | do teardown, private files and restoration follow in order, for the whole command? | 2 steps, 2 signals, every subset of hooks, every recipe |
| `import` | do epochs and peers stay those of the real connections, is an import without losses exact, is what is stored the traffic of one peer, all of it, with its connection records? | 2 connections, 2 handles, 2 peers, 2 messages of 1 to 3 packets on ATT or another channel, 2 packets missed or cut short, every selector |
| `analysis` | are marks kept and private, do segments follow them, are cache entries complete, right and shared by all who decode, does a diff replay, do the reports agree? | 2 processes, 3 commands, 1 of them cut off, 3 instants, 2 events; 3 processes, 2 requests, 2 versions, 3 decodes, 2 edits; JSON values two levels deep with 2 fields and lists of up to 2; every policy |
| `ble` | is the connection released, is success real, are notifications stopped, does the command come to close? | every command, 2 interrupts |
| `wda` | does a touch hit the one named element, and text follow it, in the right application? | 3 steps, 2 applications, 3 elements, 7 appearances, slides that start at each quarter (`Scale` = 4), 2 changes |
| `post_run_skipped` | expected violation of `docs/recipes.md:33` | 1 signal |
| `teardown_interrupted` | expected violation of `ios/process.py:174` | 1 process, 1 interrupt |
| `descendants` | expected violation of `ios/process.py:89` | 1 process, no interrupt |
| `duplex_fragments` | expected violation of `capture.py:459` | 1 connection, 2 messages, no miss |
| `diff_lengths` | expected violation of `reporting.py:110` | the values of `analysis` |

Why the bounds suffice: the lifecycle is straight-line code, so three signals
reach each of its windows (one in a guarded window, one in the restoring loop
that leaks handlers, one after it).  Three processes give a first, a middle and
a last in the teardown order; two names allow a name to be reused after `stop`;
two interrupts allow one to end the body and another to hit `close`.  Two
connections reuse one handle or hold two; two messages of three packets
interleave on two handles, and one of them can lose its start or its end while
the other fits into the gap; two connections are also enough for two that nobody
can name, on one handle or on two, and for one with a peer beside one without.
Handles, peers and directions are interchangeable (`Interchangeable`). In
`analysis` two processes and three commands let one command run between any two
steps of another and a third see the result; three decodes give a winner, a
loser and a later hit; lists whose lengths differ by 0, 1 and 2 are the cases
`_diff_lists` tells apart.  In `ble` one interrupt can end the command's request
and the second one the request that cleans up after it.  In `wda` three steps
open a session, let another application take it and come back; two changes put a
second element of the name on the screen and take it away again; on elements two
points wide the quarters round down, up, and, three quarters, to the far edge.
Two steps give a capture that must survive a later step and two outputs of which
one may never appear.  Runs end, so `CHECK_DEADLOCK FALSE` is set in all of
them.

Fairness.  `FairSupSpec` has weak fairness of the teardown steps only, and
`RunSpec` of the steps the main thread takes without waiting for a hook, a
recipe step or the end of a logger: both are a thread executing its own code,
with waits bounded by the grace period.  Hooks, recipe steps, loggers and signals
have no fairness, because nothing in the code bounds them: `CloseTerminates` and
`InterruptReachesRestore` hold although no process ever needs to exit.  `Spec`
of `BleSession` has weak fairness of `Task`: the event loop resumes a task whose
request is done and runs its timers.  The device has none, so `ComesToClose`
holds for a device that never answers; it ends at the disconnect, which
`ble.py:124` awaits without a limit.

## What was found

- `run.py:151`: the `finally` clause that promises the restoration hook runs
  after the default handlers are back.  One SIGINT between the end of the second
  `interrupt_as_error` and the launch of the hook ends the run without it; so
  does a SIGTERM, which ends the process.  `PostRunExactlyOnce` therefore
  excludes signals outside the guarded windows.
- `ios/process.py:149` and `:177`: an interrupt between `Popen` and the registry
  entry, or between the pop and the inner `try`, loses a process; one inside
  `_stop` is reported but the process is not killed.
- `ios/process.py:192`: a leader that ends within the grace period takes the
  supervisor's attention away from its descendants.
- `reporting.py:183`: `_diff_lists` compares the index with each length by
  equality, so lists whose lengths differ by two or more raise `IndexError`;
  `DifferencesReplay` therefore speaks of the diffs that return.
- `capture.py:475`: pending L2CAP fragments are kept per handle, for both
  directions together.  When a message is cut in each direction at the same
  time, a continuation is appended to the other direction's message: the event
  mixes two messages and nothing is reported.  The `import` run therefore
  assumes that at most one direction of a handle is within a cut message
  (`Duplex = FALSE`).

Seen while modelling and described by the properties, without a run of their own:

- `storage.py:108`: of two mark commands that overlap, one may lose its mark, and
  both may write a file with two equal marks, which no command can read any more.
  A command killed between truncation and write loses every mark.  `MarksKept`
  names exactly these exceptions.
- `storage.py:156`: of two segment commands that both truncate the file before
  either writes, the one that writes the shorter JSON last leaves the tail of
  the longer one behind it: `segments.json` is no JSON value and both commands
  succeed. `SegmentsFollowMarks` excludes such files (`torn`) from its second
  half; its first half says that even their pieces come from right lists.
- `executor.py:114`: a signal in the loop of the `finally` clause, in the
  teardown or between `Popen` and the registry leaves outputs with the mode
  their loggers gave them, where `README.md:95` says "contained files use
  `0600`"; `OutputsEndPrivate` excludes these (`cut`), and no other signal.
- `kaitai.py:98`: the schemas are hashed before the compiler reads them; an edit
  in between leaves a parser of the new schemas under the key of the old ones, and
  every later decode of the old ones uses it (`calm` in `ParserMatchesSchemas`).
  `kaitai.py:90` calls the cache content-addressed; with such an edit it is not.
- `kaitai.py:136`: renaming a directory over one that has entries is `ENOTEMPTY`
  on Linux and macOS, an `OSError` but no `FileExistsError`, so the loser of the
  race fails instead of using the winner's entry.  `Publish` and `UseWinner` are
  guarded by the rename, `Fail` covers that error.
- `ble.py:82`: discovery lasts exactly as long as its time limit, so that a scan
  may end in a timeout although the device did nothing wrong.
- `ios/wda.py:326`: the offset of a slide is rounded, so a slide whose `start` is
  close enough to 1 begins on the first point beyond the element: 0.9 on a width of 4
  does, as 1 does on every width.  `TouchIsExact` speaks of the starts that are more
  than half a point short of the far edge (`ClearOfTheEdge`).

## What is proved

Proved by TLAPS for every value of the constants, from the assumptions
`MaxSignalsAssumption`, `SupervisorAssumption`, `RecipeAssumption`,
`StoreAssumption`, `CacheAssumption`, `JsonAssumption`, `BleAssumption`,
`WdaAssumption` and `ImportAssumption` (JSON values are finite trees, bounds are
natural numbers, a recipe has at least one step and a message one packet, sets
of names are not empty, elements have an application and an appearance a
rectangle, slides start at fractions of a positive `Scale`, "none" is no peer),
and the hypotheses named below:

- `RunLifecycleProofs`: `TypeCorrect`, then `InvHolds` for the strengthening
  `Inv`, and from it `PostRunOnce`, `RefusalIsClean`, `InterruptsFailTheRun`,
  `PrimaryIsKept` and `HandlersAreRestored`.  None of the properties is
  inductive alone.  `Inv` says, per program point, what the past must have
  been: the ownership hooks are untouched before line 138, the restoration hook
  is idle until its own point, a preflight hook that failed leaves an exception
  in flight, `primary` is still empty inside the windows and equals the
  exception in flight at the restoration hook, and inside a window every unsaved
  signal still has its default handler.
- `ProcessSupervisorProofs`: `SupTypeCorrect`, then `SupInvHolds` for `SupInv`,
  and from it `CleanExitStopsAll`, `OnlyForcedSurvive` and `ClosesInReverse`.
  `SupInv` accounts for every process that was not reaped: it is registered, or
  is the one in the hands of `_stop`, or was just started, or an exception or
  failure is on record (and without interrupts it was sent SIGKILL).
  `CloseShrinks` and `CloseIsNeverStuck` are the argument behind
  `CloseTerminates`, which TLC checks: `StepsLeft`, six steps for each process in
  the registry and a rank of the place in `_stop`, is lowered by every step of
  close and every interrupt and left alone by the processes, and wherever close is
  one of its steps has its guard, since a process that is waited for was born
  (`BornInv`) and a registry that is not empty has a last entry.
- `RecipeRunProofs`: the run command implements the two modules it is made of.
  `LifecycleKept` needs `RefInv`: until the action begins `execute` is untouched,
  and an interrupt delivered during it is on record as the exception leaving the
  `with` statement, as a failure of the teardown, or as a `finally` clause that
  was abandoned; so `execute` cannot return.  `SupervisorKept` needs the types
  (`TypeInv`, whence `RunTypeCorrect`): a logger checked by its step is one the
  supervisor was given.
- `RecipeRunProofs` also says what a run leaves behind, from `OutcomeInvariant`.
  `HoldInv` is the supervisor's account of its loggers in this composition,
  where only the teardown stops one: an interrupt of a step leaves it whole, one
  anywhere else is a cut (`CutKept`).  `WindowInv` says that the action runs
  under the handlers of its window, so that no signal takes the call out of
  `execute`.  `OutInv` adds that nothing was started before the action
  (`StartInv`), that only a cut abandons the `finally` clause (`SignalInv`),
  where `execute` is when the call has left it (`PlaceInv`), that a call without
  an exception has seen it return (`ResultInv`), that each step starts at most
  one logger (`NameInv`), that the loop over the loggers cannot finish past a
  lost one (`LostInv`), and that the `finally` clause has no loose output behind
  it (`ModeInv`).  From them `SuccessCompletes`, `LostCaptureReported`,
  `RestoreFollowsTeardown` and `OutputsMadePrivate`.
- `LifecyclePromises` and `SupervisorPromises` put the refinements to use: the
  theorems about `execute_with_hooks` and about the supervisor's statement hold
  of the run command.  They are taken from the two proof modules by
  instantiation (`LP` and `SP`), with `RunLifecycle` and `ProcessSupervisor`
  written over the variables of the run; `SameLifecycle` and `SameSupervisor`
  say that these instances are the ones the run is composed of.
- `HookNearer` and `HookAhead` are the argument behind
  `InterruptReachesRestore`, which TLC checks.  `HookDistance` is what the main
  thread can still do before the restoration hook, `StepsToHook`, plus the
  signals that may still arrive.  From the end of the action to the hook each
  step of the thread and each signal lowers it and no logger raises it, and
  wherever the thread is one of its steps has its guard: nothing there waits for
  a logger.  It rests on the supervisor's `CloseStep` for the teardown, on the
  outputs being finitely many, and on the saved handlers, which only get fewer.
- `AnalysisProofs`, the cache: `CacheInv` adds to the types that a staged
  directory has its output once the compiler ran and its record once it was
  written (`BuildInv`), that published directories are complete and were built
  from their own key unless an edit intervened (`EntryInv`), and the same of the
  parser loaded (`ParserInv`), which is the one its entry holds, whence
  `DecodersShare`: two processes that load a parser for one key load the same.
  The keys of the stage and of the process must agree from the hashing to the
  rename, which no single property says.
- `AnalysisProofs`, the diff: for values of any depth and size.  The induction
  is by the least counterexample in `Size` (`LeastNumber`).  First the recursive
  functions are what their definitions say (`DiffUnfolds`, `PatchUnfolds`):
  tables up to a size exist (`RowsExist`) and agree (`RowsAgree`), so the whole
  table does (`TableExists`).  Then `AllReplay`: if the diffs of the parts
  replay, so does that of the whole, key by key (`FieldsReplay`) and index by
  index (`ItemsReplay`), since differences put under different steps do not
  touch each other (`WholeDiff`, `PartKept`).  `DiffsReplay` follows.
  `DiffRaisesWhere` is the extent of the finding at `reporting.py:183`: a diff
  raises exactly when at some common path it compares two lists whose lengths
  differ by two or more.
- `AnalysisProofs`, the commands: `RenderingsAgree` is by the cases of the
  policy, and `CommandsPromise` says that the composition keeps what the run
  directory, the cache and the reports promise each.
- `BleSessionProofs`: `SessionInv` says, per await, what the past must have been:
  which requests can still be late, that a link needs a connect that was issued
  and no disconnect that succeeded, on which paths a command has not failed, and
  whether notifications can be on.  `ClosingIsNear` and `NoAwaitIsStuck` are the
  argument behind `ComesToClose`: two steps for each await still ahead, its
  deadline and its end, are a bound that the device cannot raise, and each of
  these awaits has a way out without the device.
- `MarkStoreProofs`: `StoreInv` says which bytes a command in each of its steps
  may have left in its file (`PrivateInv`) and that, as long as nothing was
  disturbed, the one updating mark command carries every acknowledged mark in
  its hands (`KeptInv`).  `SegmentsFollow` adds `SegmentsInv`: what is in
  segments.json and what a command is about to write there is made of texts of
  lists that partition the events; unless two commands were writing at once
  there is only one that has truncated the file, so what it writes is all there
  is: one whole text, of a list that starts at every mark acknowledged when it
  was computed.  That the windows of `Segments` are a partition
  (`MarksPartition`) needs an order of all marks, where the code compares
  neighbours; `StrictOrder` gets it from the least mark that would be out of
  order (`LeastNumber`), which takes the place of an induction.
- `WdaClientProofs`: `WdaInv` ties `found`, `spot` and `screen` together while
  the screen is steady, and the front application to the client whose session is
  served.  The arithmetic is that a slide that is clear of the far edge begins
  within its rectangle, for every width and every start: `RoundBelow`, about
  Python's rounding of a half to the even side, from `DivMod`, what division
  leaves.

- `ImportProofs`: the importer and the import command.  `TypeInv` adds to the
  types that a message under way belongs to the connection of its handle.  From
  `EpochInv` (no two handles active under one epoch, a pending fragment only of
  the active epoch) follows `EpochLivesOnce`, whatever is lost.
  `EpochsKeepConnections` needs to say what the importer has ever said of a
  connection, in its events, its records and its table (`Sightings`): the
  connection determines all of it and so does the epoch (`SightedOnce`), and a
  connection the importer has not noticed has none (`UnsightedInv`).  It has the
  hypothesis `LossesApart`: no one logger misses connections and disconnections
  both.  Without it the statement is false, see "Not modelled".  `LosslessExact`
  has the hypothesis `~Duplex`, without which it is false as `duplex_fragments`
  shows; `ExactInv` says that the pending fragment of a handle is exactly what
  was sent of its cut message, and nothing if there is none.
- The command, under `LossesApart`: `StoredOnePeer`, `StoredComplete` and
  `RecordsOfTheEvents` follow from those and `StoredInv`, that what was written
  is a selection of the finished import.  `NameIsSource` is the lemma about
  `Attribution` they rest on: a name stands for one peer or for one epoch.  For
  unattributed sources that is an argument about ranks (`LabelIsEpoch`): of two
  epochs on a handle the one that begins later has the larger set of epochs
  begun so far.  `Selected` says what a selection that is not refused means: it
  is the only source that matches.

Only model-checked:

- the liveness properties `CloseTerminates`, `InterruptReachesRestore` and
  `ComesToClose`, which are out of the prover's reach, and ENABLED with them;
  what is proved of each is the bound that its steps lower, and that a step has
  its guard;
- the five properties that are violated, by the runs that expect it; of
  `DiffReturns`, `DiffRaisesWhere` says how far the violation goes.

## Not modelled

- Signals are delivered between the modelled steps: the few byte codes between
  entering a `with` statement and its body count as part of the guard.
- The contents of recipes, hook environments, commands and files; validation of
  arguments; dry runs, which start nothing.
- An error of `killpg` other than "no such process".
- JSON values deeper than two levels, in the runs; the theorems cover any depth
  that Python's own recursion limit does.
- A write that stops half way: the text of a file is written whole or not at all.
  The lines of `marks.jsonl` have one length, so that a rewritten line ends where
  the next one begins.
- The binary fractions behind the starts of slides: `round(width * start)` is
  taken of exact fractions, of any `Scale` in the theorem.
- A disk that loses what was written after a power failure: the code never calls
  `fsync`, and a crash is the end of a process.
- `tap_point` and `screenshot` of the WDA client, which nothing checks before they
  act; the screenshot is written with the umask of the process and made private
  afterwards (`executor.py:152`).
- Notification callbacks: a frame of the wrong size raises in the backend's own
  task.
- Captures that miss connections as well as disconnections (`LossModes`): when a
  disconnection and the next connection on its handle are both lost, nothing in
  the capture tells the two connections apart.
- pcap and pcapng containers, timestamps and the fields of ATT messages; the
  three writes of the import command are one step of `Store`.
- Reuse of process numbers by the operating system, and with it the capture
  command, which waits for its logger before it signals it (`cli.py:211`).
- The components marked `not_modelled` in `PROJECT.json`: `recipes.py`,
  `models.py`, `ios/capture.py` and `ios/config.py` parse their input and keep
  no state.

## Plan

`CaptureCommand`: the capture sub-command as a second client of
`ProcessSupervisor`, with reuse of process numbers.  It is the one command that
reaps a process behind the supervisor's back.
