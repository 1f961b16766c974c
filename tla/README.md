# A TLA+ model of the Ouroboros workspace bridge

The Ouroboros workspace bridge lets an assistant act on a user's workspace through an MCP
server. Unless its direct tools are switched on (`MCP_EXPOSE_DIRECT_MUTATION_TOOLS=1`) the
assistant does not change anything itself: it submits a *command bundle*, the
bundle waits in a review page, and a runner process applies it after the user (or an approval
mode the user has chosen) has approved it. Nothing but the file system connects the processes:
JSON records in status directories, lock directories, pointer files and directory times. What
can go wrong is therefore mostly an order of file-system calls by several processes, some of
which are killed on the way, and that is what these modules model.

References to lines are to the repository this directory stands beside, under `src/`. "The
plan" in a comment of a module is `docs/project/bundle-runtime-simplification-plan.md`.

## Inventory

| Component | State it keeps | Operations | What is hard | What makes it correct | Status |
|---|---|---|---|---|---|
| Bundle store (`bundles.py`, `storage.py`, `handoffs.py`) | a record per bundle in one of six status directories, a claim lock directory per bundle, a handoff file per bundle | stage, claim, finalize, reject, cancel, stale sweep | several movers, kills between two file-system calls, a lock nobody ages, reused pids, a cancel that does not take the lock | nobody executes a bundle twice; one canonical record; a rejected bundle was not executed; the sweep spares live owners | `BundleStore`, `BundleLifecycle` |
| Request-key index (`bundles.py`) | a slot file and a lock directory per request key | look up, stage under the key lock, publish a move | bundles that move during the lookup, stale locks broken by several waiters, half-done publications | at most one active bundle per request, answers name bundles that exist | `RequestKeyIndex` |
| Generation signal and review long poll (`bundles.py`, review server) | the token file, the last observation, the cached state, what each tab shows | bump on each move, reconcile with directory times, `/api/events` | lost token writes, requests that overtake each other in the cache | every move reaches every tab | `GenerationSignal` |
| Bundle service (`bundle_service.py`) | none of its own | stage, cancel, find, status, wait, list | it checks a status and acts later; a search misses a bundle that moves | cancel only what is pending; a stored bundle is answered for | stage in `RequestKeyIndex`, cancel in `BundleStore`, what a client sees of stage and wait in `Submissions`; list only reads |
| Runner (`command_bundle_runner.py`) | target files, snapshots, backups | execute the steps, roll back | failing file operations, interrupts, kills, two runners on one file | a failed file-action bundle leaves the files as they were | `ActionExecution` (steps), `BundleStore` (claim to verdict) |
| Approval watcher (`bundle_watcher.py`) | a set of seen bundles per watcher process | start, poll, launch a runner, fall back to the user | modes that change under it, restarts, two watchers | nothing automatic without a mode that says so; nothing pending is passed over in silence | `ApprovalWatcher` |
| Approval modes (`approval_modes.py`) | a mode file per scope | save in place, delete, effective mode | saves and deletes that overlap without a lock, readers in the middle of a rewrite | the most specific mode wins | `ApprovalWatcher` |
| Review server (`command_bundle_review_server.py`) | the embedded watcher, the long poll's cache | approve, reject, set a mode, long poll, start and stop services, clean up, import an intent | concurrent request threads, timeouts that kill what they started | see the components it acts on | partly: in `ApprovalWatcher`, `GenerationSignal`, `SessionSupervisor`, `Submissions` |
| Operation ledger (`operations.py`) | a record per `operation_id` | begin, complete, fail | a server that dies between an effect and its record | a repeated call has no second effect and gets a true answer | `DirectTools` |
| Direct mutation tools (`server.py`, `patches.py`) | the workspace | write, append, replace, create, delete, restore, patch, run, git add, git commit | failures half-way, edits in between | nothing that a file tool overwrote is lost | `DirectTools` |
| Trash and backups (`trash.py`, `backups.py`) | trash entries with manifests, backup copies | move to trash, back up, two restores | a crash between the move and the manifest, between the removal and the move back | every text that a tool replaced or moved is there, in a backup or in the trash | `DirectTools` (the runner's backups in `ActionExecution`) |
| Text payloads (`payloads.py`) | chunk files and a manifest per payload | stage a chunk, validate and load a reference | a server that dies in a write, a cleanup in the middle, two texts for one chunk | a complete manifest stands for whole chunks, and what runs is what was referred to | `PayloadStore`, `Submissions` |
| Runtime storage cleanup (`runtime_storage.py`, review server) | what lies under the runtime root | list candidates, remove them one file at a time, clear history | it runs next to readers of what it removes | it never makes a bundle run something else, or twice without cause | partly: `Submissions` |
| Session supervisor and operator CLI (`session_supervisor.py`, `operator_cli.py`) | a pid file per service, connector metadata, a pause file | start, stop, restart, supervise | several commands at once without a lock, reused pids, services that die or bind late, processes that outlive the wait of a stop | what is wanted comes back, strangers are left alone, commands end | partly: `SessionSupervisor` |
| Intent import (`server.py`, `mcp_intents.py`, `review_intents.py`) | an import record per nonce | import a signed intent from a link | two clicks on one link, a death between bundle and record | one bundle per intent | `Submissions` |
| Proposal tools (`mcp_tools/proposals.py`, `mcp_tools/bundles.py`) | none | build a step, submit it, wait for its end | a client that repeats what it lost the answer of | what a client asks for runs once | `Submissions` |
| Tool-call journal, MCP runtime (`tool_calls.py`, `mcp_runtime.py`) | a record per call | write it before and after the call | the record is cleaned up while the call waits, or a file operation fails when the bundle is stored | a client whose bundle is stored gets an answer, or gets it when it repeats the proposal | partly: `Submissions` |
| Read-only tools, path and command policy, setup page, public access, pages, configuration | none that matters here | - | - | - | not modelled |

How they interact. A *submission* (MCP server) looks the request key up and, if there is no
bundle for it, writes a record to `pending/` under the key lock. The *watcher* and the *review
page* see it, through the generation token or the directory times. An approval, by hand or by
the watcher, starts a *runner* process, which takes the bundle's claim lock, renames the record
from `pending/` to `running/`, writes itself into it as its owner, executes the steps, writes
the verdict, renames to the final directory and leaves a *handoff* file that tells the
assistant. A watcher that starts sweeps `running/` for records whose owner is dead. Every
mover also publishes the request-key slot and the generation token; these are derived data, and
their writes may fail without stopping the move.

The tools a client calls run in one event loop: a call is undisturbed until it sleeps between
two polls of the bundle it waits for. Each is journalled before and after. The *direct tools*
are the exception to review: where they are enabled they change the workspace at once, under an
operation record if the client gives an `operation_id`. The *review server* imports signed
intents, cleans up, and runs the commands of the *session supervisor*, which knows the
services only by their pid files and ports.

## Modules

| Module | Models | Composes with |
|---|---|---|
| `BundleLifecycle` | what a bundle promises: its status moves along the arrows of a fixed graph and leaves a final state never; side effects start at most once and only while it runs | implemented by `BundleStore` (`ImplementsLifecycle`); assumed by `RequestKeyIndex`, `ApprovalWatcher`, `Submissions` |
| `BundleStore` | the status directories, claim locks and handoffs, one file-system call per step | refines `BundleLifecycle` |
| `BundleStoreProofs` | the proofs about `BundleStore` | |
| `RequestKeyIndex` | submissions of one request key against moving bundles | the bundles move as `BundleLifecycle` allows |
| `RequestKeyIndexProofs` | the proofs about `RequestKeyIndex` | |
| `ActionExecution` | what a runner does to files between claim and verdict | stands for `BeginExecution` ... `EndExecution` of `BundleStore` |
| `ActionExecutionProofs` | the proofs about `ActionExecution` | |
| `ApprovalWatcher` | who sends a pending bundle to a runner, and under which mode | a runner's claim is `BundleLifecycle`'s |
| `ApprovalWatcherProofs` | the proofs about `ApprovalWatcher` | |
| `GenerationSignal` | how the review page hears of a move | a move is one `MoveFile` of `BundleStore` and its publication |
| `GenerationSignalProofs` | the proofs about `GenerationSignal` | |
| `PayloadStore` | the chunks and the manifest of one text payload | |
| `Submissions` | tool calls and intent imports from the client's side, the runner that executes what they stored, and cleanups under all of them | extends `PayloadStore`; a search takes what `RequestKeyIndex` shows it may miss |
| `SubmissionsProofs` | the proofs about `Submissions` and `PayloadStore` | |
| `DirectTools` | the tools that change the workspace without review, with ledger, trash and backups | |
| `DirectToolsProofs` | the proofs about `DirectTools` | |
| `SessionSupervisor` | commands and the supervisor against processes, ports, pid files and the pause file | |
| `SessionSupervisorProofs` | the proofs about `SessionSupervisor` | |
| `MC...` | small sets for TLC | |

Correspondence. In every module `pc` says between which two observable calls of its function a
process is, so an action is one such call with the reads and early returns that decide it. An
exception is a jump to what the `except`/`finally` of the code does. Operators marked `MUTANT`
are not part of the models: each is what an action would be with a plausible bug, and shows
that the property named beside it in `PROJECT.json` notices.

- **`BundleStore`.** `file[b][d]` is `<d>/<b>.json`; `lock[b]` is the directory
  `running/.<b>.claim`. A runner goes `AcquireLock` (mkdir), `CheckClaim`,
  `MovePendingToRunning` (os.replace), `RecordClaim` (the write of the owner), `BeginExecution`,
  `EndExecution`, `CheckFinal`, `WriteFinal`, `MoveRunningToFinal`, `WriteHandoff`,
  `ReleaseLock`. A canceller (`BundleService.cancel`) checks the status and then runs
  `_move_command_bundle`, which looks the bundle up again (`FindAgain`) and takes no lock. A
  watcher's start is `StartSweep`, `SweepOne` per listed record, `EndSweep`. `Crash` is a kill
  at any step, `FileError` an `OSError` at any step, with the lock released or not as the code's
  `finally` blocks have it. `Age` makes a staged record older than 24 hours.
- **`RequestKeyIndex`.** A submission is named by the bundle it would create. The search through
  the directories is a step per directory, and there is a step between `exists()` and the read.
  `trouble` remembers which of five things has happened: `"moved"`, a bundle moved; `"robbed"`, the
  lock of a live submission was broken; `"unpublished"`, there was no slot and none was written after
  a record; `"lost"`, a lookup that failed removed the slot of a bundle; `"unlinked"`, it did so
  while a bundle was pending.
- **`ActionExecution`.** A text is a sequence of marks, one per step that wrote to the file, so
  that what a step or a rollback loses can be told. `write_text` is `Truncate` and `Fill`.
  `RunCommand` leaves its file alone, adds to it, rewrites, empties or deletes it, and makes no
  backup; `taken` remembers the files whose first text a command destroyed. `stopped` remembers at
  which step a run gave up.
- **`ApprovalWatcher`.** `rows` are the records a poll read before it handled the first; `seen`
  is the watcher's `seen` set. A save of a mode is one of the `Savers`, a request thread of the
  review server: `OpenModeFile` (the file is empty), then `WriteModeFile`, or `FailSave`. Nothing
  keeps two saves, or a save and `DeleteMode`, apart, so a file has a size as well as a mode: a
  shorter text written over a longer one leaves no JSON, and the text of a deleted file is lost. A
  watcher reads the task's file in `TakeUp` and, if that says no mode, the global one in `ReadGlobal`;
  `Spare`, `HandleManual` or `Launch` follow. `permitted` and `disturbed` remember whether the
  modes allowed the bundle at some moment of the reads, and whether the task's file was changed or no
  JSON during them.
- **`GenerationSignal`.** `moves` stands for the directory times, `token` for the token file,
  `observed` for the last observation the process keeps under its lock, `cache` for the cached
  state of the review server.
- **`PayloadStore`, `Submissions`.** `chunk[i]` is `chunk_<i>.txt`: gone, created and still empty,
  or a text. A call goes `Begin` (the journal record, the checks and the request key),
  `StageExisting` or `StageNew`, and then `Find`, a sleep, `Wake` and so on until its bundle is
  final or its deadline has passed. `CallFails` is the file error (or the key lock that is not got) which ends a call
  before its bundle is stored, after it, or in the journal. `Message[t]` is the commit message of an
  intent, a part of the request key. `busy` is the call the event loop is in: only one is, and none while
  a chunk is staged. An import is a thread of the review server and runs beside it. `moved[c]` says that a bundle has moved
  while `c` was searching, which is what may make the search miss it. `ReadChunk` and
  `Execute` are the runner's, in a process of its own; `ListCandidates`, `DeletePayload`,
  `DeleteFile` and `Delete` the cleanup's.
- **`DirectTools`.** The server runs one tool at a time, so there is one `pc`. A tool goes
  `BeginFresh` (or is answered by `BeginReuse`, `BeginRefuse`), `FillStarted`, `Check...`, `Backup`, its
  effect, `Complete`, `FillCompleted`; the record is written in place, so it is torn in between.
  `Raise` is an exception at any step, which `_fail_operation` records; the `Unaudited` actions are
  an audit line that fails after its record was written; `Kill` ends the server. `Run` is whatever a
  command does to a path, before its exit, its timeout or its answer (`Report`). `known` remembers
  every text there has been at a path, but those that a command or the user has replaced.
- **`SessionSupervisor`.** A command is the list of the tasks its function calls, `todo[a]`; a
  task is a handful of steps (`ReadPid`, `Reuse` or `Clear`, `Spawn`, `WritePid` ...). A stop sends
  the signal (`Terminate`) and ends with a dead process (`Stopped`), with one that is still alive when the
  wait is over (`MayStillRun`: the command fails, the pid file stays) or with one that
  cannot be signalled (`Unsignalled`). `proc[p]`
  is what runs as pid `p`, a service or some other program, `bound[s]` who listens on a port.

## Runs

| Run | Question | Instance |
|---|---|---|
| `StoreSafety` | Is there one canonical record of a bundle at all times, and does the store do what `BundleLifecycle` promises? Do rejections and handoffs match what was executed? Does a sweep spare a live owner? | 1 bundle, 2 runners, 1 rejecter, 1 watcher; every process may be killed and may meet file errors; pids are reused |
| `StoreEverything` | Is a bundle executed at most once even with a canceller that takes no lock, and with records that grow old? Does a claim end, and does a sweep clear what a dead runner left? | 1 bundle, 2 runners (one may be killed), 1 canceller, 1 watcher, the bundle may age |
| `CancelRace` | *(violated)* Is a rejected bundle never executed, with a canceller? | 1 bundle, 1 runner, 1 canceller |
| `Key` | When may a request have two bundles, active or finished, and when two active ones? Do all submissions end? | 2 submissions, moves, stalls of more than 30 s, one kill, failing writes |
| `KeyRace` | *(violated)* Are submissions deduplicated "strongly" when nothing fails? | 4 submissions, moves, no fault; a claimed bundle stays running |
| `Exec` | Does a completed rollback restore files and directories, is no text lost but by commands, and does "applied" mean every step had its effect? | 1 runner with every file-action bundle of at most two steps, patches and commands, which may fail, be interrupted and be killed, and 1 without faults, on different files of one directory |
| `WatchSafety` | Is everything a watcher no longer looks at accounted for, and nothing approved that the modes did not allow while they were read, the task's before the global one? | 2 watchers, 1 bundle of a task with its own mode, 3 modes, 2 requests that save modes next to one that deletes, kills |
| `WatchLive` | Is what a watcher polls noticed, and does YOLO resume what was pending before a restart? | 1 watcher that restarts, 1 bundle, task and global mode, saves that may fail half-way, both buttons, kills |
| `Signal` | Does every move reach every tab, and is a waiting tab never stale? | 1 move whose token may not be written, 2 tabs |
| `Tools` | Has an operation its effect at most once, are its answers true, does its record close, and is no text lost by a file tool? | 2 operations (the first sets the scene, the second is any tool), 2 calls of each, 2 files and a directory, kills everywhere, failures in the second, one edit |
| `Supervisor` | Do services come back, commands end and strangers live? | `cloudflare` mode, the MCP service and the connector, a supervisor and one terminal that starts or stops everything or restarts the service; two events in all, one pid file left over |
| `Submissions` | Is the patch that runs the one proposed, does a repeated request run once, is a client that lost its answer told of the stored bundle when it asks again, is a complete payload whole? | 2 calls (a repeated command, intent or wait, or any one proposal), a payload of 2 chunks of which one has two texts, 3 stagings, 1 cleanup, 1 fault (a server dies or a call fails), 2 changes of the tree |

Why the bounds are enough. The store treats bundles independently: no operation on one reads a
record of another, so one bundle shows every interaction; two runners are needed for a race of
claims, and a third meets the lock or the missing pending file exactly as the second does. The
theorems below hold for any number of each. A race on the key lock needs two submissions, and so
does every exception of the properties of `Key` but one: that a failed lookup removes the slot
of another submission's bundle, and a third submission then misses that bundle, takes four
(`KeyRace`); with every fault switched on, three are more than 25 million states. That
`AtMostOneActive` and `OneBundlePerRequest` have no further exception, for any number of submissions,
is proved and not only checked. An
execution's properties relate a step to the rollback of it and of an earlier one, so two steps;
four files let a step be refused because of a file no step of the program touches and keep the
second runner apart. In `WatchSafety` two
watchers let one wait for a runner while the other goes on, and two savers write one file
or two; another bundle has nothing in common with the first but the watcher that reads it
first or second, and the theorems below hold for any number. `MaxTokens` in `GenerationSignal` is above the number of tokens
the moves and reconciliations of the instance can write; TLC never reaches it. A direct tool meets
what earlier ones left through one path, and the retry of an operation is one more call, so
two operations with two calls each; `MaxEdits = 1` puts a stranger's text under either. In `Submissions`
every property is about two calls at most; two chunks are what a manifest can
miscount, the third staging repeats one of them, and a second cleanup or death finds what
the first has left. `MaxEvents = 2` in `SessionSupervisor` is any two of: the supervisor starts, a command is given, a
service dies, a command or the supervisor is killed or stopped; so a command and a mishap in its
middle, the supervisor and a mishap, or both at once; six pids are never used up. Symmetry is used only in runs without liveness properties.

Deadlock is checked in the runs of the store, the watchers and the signal, where something can
always go on. The other runs say `CHECK_DEADLOCK FALSE`: every submission, execution, call and
command ends, and then nothing is left to do.

## Fairness

A process that has been started runs on by itself: weak fairness of its steps, because its
loops are bounded and its commands have timeouts (`command_bundle_runner.py`, the 300 s timeout of the
review server, the 5 s deadline of the key lock). Nothing makes anyone submit, approve, click, save, kill,
restart or age: those actions have no fairness. `ApprovalWatcher` assumes that a watcher that is
down is started again (the review server starts its own), and that a save that has opened a
file writes it or fails (it is one call). `GenerationSignal` assumes that a move is published (or the publication fails) and gives strong fairness
to the step that enters the reconciliation: its lock is an OS lock that polling threads take for a
moment each, so one that asks again and again gets it. `SessionSupervisor` assumes that a signalled service
dies (by the SIGTERM, or by the SIGKILL after 3 s: services lead a process group of their own,
`session_supervisor.py:751`), that a service binds its port or
exits because it is taken, and that the supervisor wakes up (every 30 s). Of other programs it assumes nothing:
one may ignore the signal for ever, and that commands end all the same is due to the bounded wait of
`terminate_pid_tree` (`MayStillRun`), which is a step of the command's own. `DirectTools` and `Submissions` state no
liveness: a call that is cut short simply stays that way.

## Proofs

`BundleStoreProofs` proves, for every set of bundles and processes and every choice of who may
be killed, may fail, may age and may reuse pids:

- `TypeCorrect`, `TypesCorrect`: the type invariant. `TypeOK` is not inductive: that a claim
  writes a runner as the owner, and a finalization a final status, depends on what the process
  has in memory. `TypeInv` adds what each label promises about `job` and `held`.
- `ExecutedAtMostOnce`: `AtMostOnceExecution`. The inductive invariant `ConsumeInv` says that
  the rename to `running` consumes the pending file: once a runner has claimed a bundle, or the
  bundle has been executed, no pending file is there, no other runner is past its own rename,
  and nothing that writes or moves a record later can put one back into `pending`. The proof
  does not use the claim lock at all: what excludes a second execution is that `os.replace` fails for the
  second runner.
- `RejectedIsUnexecuted`: `RejectedNeverExecuted`, assuming `Cancellers = {}`. `RejectInv` adds
  that a record in `rejected` or on the way there was taken from `pending`. The run `CancelRace`
  shows that the assumption is needed.
- `OneRecordAtATime` (`OneCanonicalRecord`), `HandoffTells` (`HandoffAgrees`), `SweepSparesOwners`
  (the action property `SweepSparesLiveOwner`) and `StoreImplementsLifecycle` (the refinement of
  `BundleLifecycle`, `ImplementsLifecycle`), assuming `OneSweeper`: no canceller, no record that ages and
  at most one watcher. Each part is needed (divergences, below), and it is what there is while nobody
  cancels through MCP, no bundle waits for a day and one review server runs. `RecordsKept` carries them: a
  running record has one writer at any time, the runner that claimed it until that runner is gone, and then
  the watcher that read its name. The refinement maps each file-system call to a step of the lifecycle or
  to a stutter.

`RequestKeyIndexProofs` proves, for every set of submissions and every choice of faults, without
assumptions: `TypesCorrect` (`TypeOK`), `OneActive` (`AtMostOneActive`) and `OneBundle`
(`OneBundlePerRequest`). The inductive invariant is that of `KeyGuarded`: as long as no lock of a live
submission was broken, one submission at a time is inside the key lock; as long as nothing else
excuses it either, a pending bundle without a slot is about to get one, so a submission that finds no slot under the
lock knows that nothing is pending, and after its scan of `running/` that nothing is
active. For `OneBundle` the bundles that are finished count as well, and of those the scan under the lock sees none: the
invariant says that, unless a slot was lost or never written, a bundle without a slot is about to get one, wherever
it moves, so a submission that finds no slot under the lock knows that no bundle was ever made. The attempt to prove `AtMostOneActive` without the trouble `"unlinked"` failed for a
reason that TLC then showed with four submissions: `KeyRace`.

`ActionExecutionProofs` proves, for any number of runners and files, bundles of any length and
every choice of faults:

- `TypesCorrect`, `TypeCorrect`: the type invariant, strengthened per label of a runner.
- `NothingLostBySteps`: `StepsLoseNothing`, without assumptions: commands may rewrite, empty or
  delete any file between any two steps. `KeepInv` adds that whoever is
  about to overwrite a file that was there at first has its first text in a backup, even if another
  bundle has written to the file since, unless a command has destroyed that text itself (`taken`).
- `CompletedRollbackRestores`: `RollbackRestores`, assuming `TargetsApart`, that no bundle names a target of
  another one. `RestoreInv` says that snapshots hold what was there before, that all of them are
  taken when the first step begins, and that a file which is no longer `left` is as it was. The
  code does nothing to keep bundles apart, and without the assumption a rollback also takes back what another
  bundle wrote (`RollbackOnlyOwn`, divergences).
- `AppliedHasAllEffects`: `AppliedMeansAll`, assuming `TargetsApart`. The property is about the targets on
  which no command of the bundle works (what a command does to a file is not the bundle's to
  promise). `AppliedInv` says that before step `i` each such target is what the first `i - 1` steps make
  of it, and that a draft is what step `i` makes of it. What the steps make of a file is a
  recursive function; its equations are proved through a least counterexample (`TextsAfterUnfold`).
- `RolledBackFolders`: `FoldersRestored`, assuming `TargetsApart`, that commands write in the
  bundle's own directory and that no directory is empty at first. `FolderInv` says of every
  directory that was not there before that a file is in it or some runner answers for it (`Owes`).

`ApprovalWatcherProofs` proves, for any number of watchers, bundles, savers and restarts, and any set of
scoped bundles: `TypeCorrect`, `TypesCorrect` (`TypeOK`, with what each label of a watcher and a save under
way promise); `NothingPassedOver` (`SeenAccounted`), where `WatchInv` says what a watcher
knows of the bundles it has read but not yet handled; and `AutoAsConfigured` (`AutoOnlyAsConfigured`),
where `AutoInv` says of a watcher between its two reads that the task's file has said nothing so
far or was disturbed, and of one that has read a mode that the mode was permitted or the reads were disturbed.

`GenerationSignalProofs` proves, for any number of tabs, moves and tokens: `TypesCorrect` (`TypeOK`)
and `CurrentIsCurrent` (`CurrentTokenMeansCurrent`). The invariant of `SignalOrdered` says that one
request at a time reconciles, that tokens grow, and that whatever was read under the observed token, in the
cache, in a tab or on its way there, is no older than the directory times it was observed with.

`DirectToolsProofs` proves, for every set of paths, operations and requests, any number of calls
and every choice of who may be killed or fail:

- `TypeCorrect`, `TypesCorrect`: the type invariant, strengthened with what each label promises
  about the request that is served and the paths that are still to do.
- `OneEffect`: `EffectAtMostOnce`. `OnceInv` says that an operation without a record has had no
  effect, and that its effect comes only on the way from a fresh record to its completion;
  no later call passes a record, whether it says started, completed, failed or is torn.
- `NoTextLost`: `NothingLost`, for the texts that are not a command's or the user's to lose, assuming that no restore overwrites a directory
  (`DirectoriesSpared`: `rmtree` has no backup) and that nobody edits a file while a tool runs.
  `KeepInv` says of every step which of the place, the backups and the trash holds a text that
  is about to be overwritten. Both assumptions are needed (divergences, below).
- `RecordsClose`: `OpenOnlyAfterFault`. `OpenInv` says that a record that is open or torn belongs to
  the call that is served, unless writing it or its audit line has met a fault.
- `AnswersAreTrue`: `AnswersTrue`. `TruthInv` says at each step of a tool whether the operation has
  had its effect yet, and that what its record and its answer say agrees with that.

`SubmissionsProofs` proves, for any number of calls, scripts of what they ask, chunks,
stagings, deaths and cleanups, all the invariants that `Submissions` checks. Beside
the types of the constants they assume that a nonce belongs to one intent (`NonceAssumption`).

- `TypesCorrect`: the type invariant.
- `CompleteIsWhole`: `CompleteMeansWhole`. `WholeInv` says which chunk may be empty, that no
  chunk is created after all were counted, and that what a call was told stays.
- `PatchesAsProposed`: `PatchAsProposed`. A bundle's patch text is fixed before it is staged
  (`FreshInv`), and only a staged bundle runs.
- `AsksRunOnce`: `RunsOnce`. For a proposal the request key is a function of what is asked and
  of the patch (`KeyInv`), so a search either sees the first bundle or is excused
  (`ProposalsOnce`). For an intent the key need not be the same twice, and what excludes a
  second bundle is the import record: `IntentsOnce` says that imports nothing excuses do not
  overlap, and that once one of them has staged its bundle the record names it, or the same
  import is about to write it, and no other import is on the way to stage.
- `AnswersFoundAgain`: `LostAnswersFoundAgain`. `AnswerInv` and `RecordInv` say that a
  call and an import record name only bundles that were staged, and that a call under way has
  its journal record unless a cleanup took it; what is staged leaves the searched directories
  only by a cleanup. `ToldInv` says that a proposal knows no bundle but one that was stored under
  its own request key, so with `ProposalsOnce` two calls that repeat a proposal know the
  same one, however the first of them ended.

`SessionSupervisorProofs` proves, for every list of local services, operator mode and set of
commands, any number of shells, pids and events, however slowly services bind their ports and end:

- `TypeCorrect`, `TypesCorrect`: the type invariant. `TypeInv` adds that the tasks of a command are
  those the code calls and that only starts, stops and recoveries name a service.
- `OthersSpared`: `SparesOthers`, that while commands run one after the other and nothing
  supervises, a pid file from an earlier boot makes no command terminate a stranger, but for
  ngrok's. The invariant follows the pid from hand to hand (`HandInv`: what a command has read is what the
  file says, what it has started is no stranger) and says that a port whose pid file names a
  stranger has no service behind it (`StaleInv`), so that "reachable" is enough to tell.
  It fails for two shells or a supervisor next to one (divergences, below), which the property excludes.

Only model-checked: all liveness (TLAPS proves none under fairness). Every invariant and action property
of a passing run is a theorem; where a theorem assumes more than the types of the constants, its
entry above says what.

## Divergences between the code and what is said of it

Two are runs of the project, `CancelRace` and `KeyRace`; `PROJECT.json` quotes the texts. The
following were seen with the same modules on the instance named; each is a property stated in
the module, a property of a run that fails on the wider instance, or an exception a property names.

| What | Property, instance |
|---|---|
| A runner or rejecter killed between taking the claim lock and the move leaves a lock nothing ages: the pending bundle answers "already claimed" (`bundles.py:317`) for good. | `LockedPendingHasHolder` with `MayCrash` = the runners |
| A bundle staged more than a day ago is swept as stale between its rename to `running` and the write of its owner, although "provably old" (`bundles.py:547`) is about running records; the owner then writes it to `running` again. | `SweepSparesLiveOwner`, `OneCanonicalRecord` with `MayAge` = the bundle |
| Two watchers that sweep one orphan at the same time: the slower one writes the record back to `running`. | `OneCanonicalRecord` with two watchers and a runner that may be killed |
| A lookup that loses its bundle in mid-move removes the slot (or the slot was never written), and the locked lookup does not look at finished bundles: a repeated request makes a second bundle (`docs/en/workflow.md:84` promises the replay of the final result). | the exception `"moved"` with `"lost"` or `"unpublished"` of `OneBundlePerRequest` |
| A lock older than 30 s is broken although its holder is alive, or is by then the fresh lock of another waiter: both create a bundle. | the exception `"robbed"` of `AtMostOneActive` |
| A lookup that lost its bundle in mid-move removes the slot file by its name (`bundles.py:774`), whatever is in it by now: the slot of a bundle that was just staged goes, and the next submission may make a second active one. | the run `KeyRace`; the exception `"unlinked"` of `AtMostOneActive` |
| The slot of a bundle was not written (or the submission was killed before it was), and the bundle moves past the scan of the next submission, which creates another active one. | the exception `"unpublished"` of `AtMostOneActive` |
| A rollback writes whole files back, also what another bundle wrote to them in the meantime. | `RollbackOnlyOwn` with `SharedPrograms` |
| A rollback removes a directory that was empty before the bundle, and leaves one behind that was made for a file which was then not written. | `FoldersRestored` with `EmptyFolders`; its exception `MadeOnlyFolder` |
| A rollback rewrites targets that no step had touched and of which there is no backup; an error in the middle loses their text. | `NothingLost` of `ActionExecution` with `MayFail` |
| YOLO "sends every valid pending bundle to the runner" (`docs/en/pending-review-ui.md:53`), but not one the watcher has already seen, or spared at its start, under another mode: that one waits for a click or a restart (`bundle_watcher.py:238`). | `YoloSendsAll` with one watcher, one bundle and the modes normal and yolo |
| A watcher that reads a task's mode file during its rewrite, or after two overlapping saves have garbled it (nothing repairs it but the next save), falls through to the global mode, and approves automatically in a task whose mode is manual. | the exception `disturbed` of `AutoOnlyAsConfigured` |
| A manual bundle staged while no watcher runs is marked as seen at the next start, and its user is never notified. | `SparedWereTold` with `MayRestart` |
| A direct tool whose server was killed after `begin` stays "started" for good, so the call that is "retry-safe" (`server.py:1093`) can never be repeated under its id, whether it had its effect or not. | `OpenOnlyAfterFault` without its exception |
| `git diff` fails after `git apply` succeeded: the operation is recorded as failed although it had its effect. | `AnswersTrue` without `faults[o] = {}` |
| A restore over a directory removes it without a backup (`backups.py:28` backs up files only), and the move back may fail. | `NothingLost` with a forced `restore_deleted` of `pd` |
| An edit between the check of `expected_sha256` and the write is overwritten without a trace. | `NothingLost` with `EditsDuring = TRUE` |
| A cleanup removes the payload of a bundle that is still pending; the bundle then fails. | no property: `Finish` of `Submissions` allows it |
| A server that dies between creating a chunk file and writing it leaves an empty chunk: the right text is refused from then on ("already exists with different content"), and staging the empty text, or another chunk, makes the manifest complete. | the exception `spoiled` of `CompleteMeansWhole` |
| A wait is told that an existing bundle is not found, because it moved during the search, or fails because the journal record of the call was cleaned up. | the exceptions of `LostAnswersFoundAgain` |
| A tool call fails, although its bundle is stored and may run, because a line of the audit log or the journal record could not be written (`server.py:2410`, `tool_calls.py:196`). | `CallFails` of `Submissions`: what `LostAnswersFoundAgain` says of the next call |
| An operation that completed is recorded as failed because the audit line after its record could not be written (`operations.py:122`), and one that was only started stays so (`operations.py:106`). | `CompleteUnaudited`, `StartUnaudited` of `DirectTools`; the exceptions of `AnswersTrue` and `OpenOnlyAfterFault` |
| A command may destroy a text of which there is no backup, in a bundle as in a direct tool; a rollback restores only what file actions of the same bundle name. | `taken` in `StepsLoseNothing`; `known` in `NothingLost` |
| One commit intent makes two commit bundles, if two imports overlap, the server dies before it writes the import record or that record is cleaned up: the key of a commit has no nonce, so other paths are another request. | the exceptions of `RunsOnce` |
| A repeated proposal runs again once the record of the finished first bundle was cleaned up. | the exception `"deleted"` of `RunsOnce` |
| `start` and a supervisor that both find no connector each spawn one; the pid file names the later, and nothing will stop the other. | at most one `Running("cloudflared")`, as in `Supervisor` with `start` among the commands |
| `stop` "explicitly pauses managed children" (`docs/en/public-access.md:19`), but a supervisor in the middle of a round has read the pause file already (`operator_cli.py:588`) and starts what was just stopped; `restart` does not pause until its second half. | `Up(s)` stays false after a stop: fails in `Supervisor` |
| `stop` of a service that has not yet bound its port takes its pid for a stale one and forgets it; the service stays up, unmanaged. | the same, with `Binding = "slow"` |
| A live pid in a pid file is taken for the service whatever runs under it, so the supervisor leaves a dead service down. | the exception `Taken` of `Recovers` |
| Of `ngrok` nothing but the pid is checked: the program that has it now is terminated. A supervisor and a command together may do the same to any service's pid. | the exceptions of `SparesOthers` |
| Where that program does not end, or may not be signalled, the pid file is kept and every stop of ngrok returns 1; a supervisor in another mode then leaves as soon as it has started (`operator_cli.py:577`), at each start. | the disjunct `phase # "up"` of `Recovers` |
| `restart` goes on after a stop that gave up: the start finds the pid alive and its port bound, takes the dying service for the running one and reports success. | `MayStillRun`, then `Reuse`, of `SessionSupervisor` |
| A `start` that is killed before its end leaves the pause file, and the supervisor idle, until the next command. | the disjunct `paused` of `Recovers` |

## Limits

- File system: a rename is atomic and a completed write is visible at once; power loss and `fsync` are not
  modelled. Directory times are exact: two moves within the granularity of the clock would look
  like one, which the model does not show.
- `ActionExecution`: a patch step changes one file; text limits and the command sandbox are data; parent directories are
  one level deep. A command works on one file and makes no directory; one that outlives its killed
  runner is not modelled.
- `RequestKeyIndex`: the bounded window of recent finished bundles (64 per directory) is larger
  than the number of bundles of an instance.
- `ApprovalWatcher`: the client and project scopes behave as the task scope does and are folded into it,
  so a fall through several scopes is one step; what makes a bundle low-risk is the set `Low`. How long the text
  of a save is depends on its mode only: the times in it are taken to have the same number of digits. The page that the standalone watcher can open by itself, its mode
  that skips the scan at the start (`scripts/command_bundle_watcher.py:113`), and a record that is not ready yet are left
  out. `SeenAccounted` says nothing where notifications are off (`Notifies`).
- `Submissions`: there is one payload id; which arguments are acceptable and what is old enough for a
  cleanup is a choice; a cleanup by policy removes one kind of record at a time, clear history
  everything. Commands, file writes and replacements carry their texts themselves (a file write by
  `content_ref` is offered only by the internal tools). The tools that stage without waiting take
  the first half of the same path. An error before a call has its journal record, or in a refusal, stores
  nothing and is left out. A proposed commit and a commit intent of the same paths and message
  are one request in the code and two in the model.
- `DirectTools`: an `operation_id` is used for one request only; only a patch has several paths, and a command
  changes one path at most. The server's tools do not overlap, as they are plain functions of one event loop; what
  a command leaves running in the background when it times out is not modelled.
- `SessionSupervisor`: the operator mode does not change; settings are read once; a port is
  local, and the public endpoint is not waited for. At first no service runs: a review server in the
  foreground (`session_supervisor.py:911`) next to a stale pid file, whose port would make `stop_service` believe
  the pid and terminate a stranger, is not an initial state. A pid is not given to another process
  while somebody remembers it (`FreePids`), so a reuse between a read and its signal does not happen. That the command
  line of the connector's metadata may differ from the running process is not modelled.

## Not modelled

The read-only tools change nothing. The command and path policy (`commands.py`, `safety.py`) classifies
the characters of its arguments and has neither state nor steps; a model of it would be a copy. The
setup page, `cli.py`, the public-access settings, the pages and notifications and the version scripts have no
order of events that could go wrong. Of `session_supervisor.py` the interactive configuration, `doctor`,
`update` and the listings are left out for the same reason.

## Plan

Done: the store, `RequestKeyIndex`, `ActionExecution`, `ApprovalWatcher`, `GenerationSignal`,
`DirectTools`, `PayloadStore`, `Submissions` and `SessionSupervisor`, all with their theorems; every property of a passing run but the liveness ones is proved.
Next: abstract specifications of what the direct tools (one effect and one answer per operation) and
the request-key index promise, and that these modules implement them.
