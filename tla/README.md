# Verification of ax

`ax` runs a team of coding agents, each in its own tmux session, around one daemon.
Agents (through an MCP server each) and the operator (through the CLI and the
terminal panel) talk to the daemon over a Unix socket: they register under a
workspace name, send messages, hand out tasks and read their inboxes. The daemon
persists inboxes, tasks, shared values and memories, prompts idle agents that have
something to read, puts idle sessions to sleep and brings them back. Beside it,
`ax up` and the reconciler bring sessions and generated files in line with a tree of
config files.

This directory holds TLA+ models of that system, TLC configurations that check them
on small instances, and TLAPS proofs for every size. `PROJECT.json` maps every
definition to the source lines it models and lists the hazards the properties are
for.

## 1. Inventory

| Component | State | Operations | What makes it correct | Modules |
|---|---|---|---|---|
| Task store (`task_store.rs`) | map from id to task behind one mutex; `tasks-state.json` | create, update_with_confirm, cancel, remove, retry, recover_stale_in_progress, mark_tool_activity, record_dispatch, load | links and child lists agree; rollups are current; finished is final; the version is a sound guard; an acknowledged change is in the file | TaskStore, TaskPersistence |
| Task tools (MCP server, `ax tasks`) | the call in flight, the operator's screen | one request each, or a read and a later write | a decision on a stale read does no harm; what was reported closed stays closed | TaskTools |
| Message queue (`queue.rs`) | inbox per workspace, dirty flag, `queue.json`, flusher | enqueue with a cap, dequeue, remove_task_messages, flush, shutdown, load | nothing lost or doubled, order per sender, clean means saved | MessageQueue |
| Wake scheduler (`wake_scheduler.rs`) | one pending wake per workspace | schedule, cancel, process, advance_attempt | an unread message is prompted for; retries end | WakeDelivery |
| Handlers (`handlers.rs`, `pure_decisions.rs`) | none; they call the stores one after the other | send, start/create/update/cancel/remove/intervene task, read_messages, … | several stores stay in step although no lock spans them | WakeDelivery, TaskDispatch |
| Session manager and loops (`session_manager.rs`, `server.rs`) | none; reads tmux and the stores | should_sleep/stop_idle, ensure_pending_wake_target, reconcile_once | no session is stopped that has work; stranded tasks come back | WakeDelivery, TaskDispatch |
| Registry and connections (`registry.rs`, `server.rs`), clients (`daemon_client.rs`) | name → generation and push channel; per connection its name, requests and answers | register, unregister_if, connection loop, forwarder, request/response matching | the last one to register is reachable; a late disconnect harms nobody; a reply answers its question | Registry, DaemonLink |
| Team reconfigure (`team_reconfigure.rs`, `team_state_store.rs`) | overlay and revision per team, leases | plan, apply, finish | one apply at a time; config and overlay agree | TeamReconfigure |
| Shared values, memories, history, atomic file | maps, ring, their files | set, remember/recall, append, write_file_atomic | a failed write leaves no trace; the ring is what was logged; the file is the old or the new content | StateFiles, MemoryLedger |
| Workspaces (`ax-workspace`, `refresh.rs`) | sessions, generated files, runtime state file | reconcile, dispatch, lifecycle, refresh | an undisturbed pass converges; busy sessions are left alone; the user's lines survive | Workspace, Artifacts |
| Agent launcher (`ax-agent`) | Codex home, Claude conversations, window title | prepare, launch, status reports | a runtime starts fully prepared and, when asked to, from scratch | AgentLaunch |
| Configuration tree (`ax-config`) | the files, a walk | validate, merge | exactly the faulty trees are refused; the two walks agree | ConfigTree |
| Usage (`ax-usage`, `usage_trends.rs`) | transcripts | scan, bucket, attribute | every turn counts once, for one workspace | UsageHistory |
| Git status (`git_status.rs`) | cache | collect, parse | counts are right and recent | GitStatus |
| Terminal panel (`ax-tui`) | lists, cursors, menus, jobs | keys, refresh, worker threads | it acts on what it showed; every request settles | TuiLists, TuiLoop |
| Protocol types, socket path, prompt texts, rendering, init | | formatting | | not modelled |

**Interaction.** Every connection is a tokio task, and so are the wake loop, the
idle-sleep loop, the reconciler and the queue flusher. They share the stores through
`Arc`s. Each store has its own mutex and no operation holds two stores' locks, with
one exception: the wake scheduler calls its refill and ensure hooks, which use the
queue, the task store and tmux. So whatever a handler does across two stores can be
interleaved with everybody else. The other processes (MCP servers, CLI, panel,
launcher, reconcile passes) share files, tmux and the socket, and any of them may
be killed.

**What is hard.** Decisions taken under one lock, or in one process, and acted on
later (`read_messages` and its cancel, `should_sleep` and its stop, the wake loop's
copy of an entry, `report_task_progress`, the operator's screen, a menu over a
refreshed list); hand-maintained redundancy (rollups, child lists, versions, claims,
supersede marks); writes outside the lock (queue, shared values) or failing under it
(tasks, memories); restarts that reload some of the state (queue, tasks) and not the
rest (wakes, registry); retries with resets; a connection replaced before it is gone;
files that others edit while they are read. The full list, with lines, is `hazards`
in `PROJECT.json`.

## 2. The modules

An action is one critical section, one system call or one message: the grain at which
others can get in between. A rejected call that changes nothing is no step. Texts,
time stamps and layout are left out; where a time decides something (staleness, a
lease, a retry that is due) the decision is an input or a step of its own.

**TaskStore.** One variable, `tasks`, the `BTreeMap`; an id not in the map has status
`absent`. One action per method: `Create`, `Update`, `Cancel`, `Remove`, `Retry`,
`RecoverStale`, `MarkToolActivity`, `RecordDispatch`. The guards
(`ValidateTaskUpdate`, `ValidateTaskControl`, `IsAllowedTransition`) keep the code's
names. Every action that ends in `refresh_parent_rollup` ends in `RefreshParent` or
`RefreshAll`. A result is `empty`, `bare` or `declared` (it has the leftover marker).
Ids are never reused: removal is a tombstone. `RollupInv` speaks of
`needs_reconciliation` for open parents only, since a parent's own status change does
not refresh its own rollup.

**TaskPersistence** adds the file. `persist_locked` runs under the mutex, so an
operation is still one step, with the write succeeding or failing:
`PersistAndReply` for the methods that report a failure, `PersistBestEffort` for those
that swallow it, `ReplyUnchanged` for an update that finds nothing to do, `Restart`
for `load`. `acked` records what callers were told.

**TaskTools** puts the tools of agents and the operator's terminal on top. Three are
more than one request: `report_task_progress` reads and then updates by what it read,
`report_task_blocked` updates and then asks a peer, `ax tasks recover` prints
commands with the version it read, which the operator runs later (`shown`).

**MessageQueue.** Inboxes, the dirty flag, the flusher and the file. `flush` is split
where it releases the mutex (`FlushBegin` takes the snapshot and clears the flag,
`FlushWrite` or `FlushFail` ends it), so any operation can overtake a write.
`Shutdown` and `FinalFlush` are the flusher's stop protocol, `Drop` the abort in
`FlusherHandle`'s destructor, `Crash` a restart from the file. What a read or a purge
picks from an inbox is defined by counting (`Rank`, `Nth`, `Those`) rather than by
recursion, so that it can be reasoned about.

**WakeDelivery.** One workspace and everything that acts on it, one call on one store
per step: senders (`SendEnqueue`, `StartCreate`, `TaskEnqueue`, `TaskRecord`,
`SendSchedule`, `SendDispatch`), the reconciler (`Nudge`, `Recover`), the agent's
connection (`ReadBegin` to `ReadCancel`, `Claim`, `Close`, `Purge`, `Remind`), the
wake loop (`WakeTick` to `WakeAdvance`), the idle-sleep loop (`SleepProbe` to
`SleepStop`), and faults. The stores are keyed by workspace, so one is enough; the
inbox is two counters, because order is MessageQueue's subject. `excused` is a history
variable that names the known gaps.

**TaskDispatch.** The message and task handlers as programs of calls (`prog`) on
TaskStore, inboxes, wakes and sessions; other connections, the wake loop's refill and
the reconciler act between any two calls. What a handler of the store does depends on its
write: with `SavedThen` it goes on, with `WriteFails` the change stays in memory and the
handler answers the error, before it queues, purges or tells anybody (`StartTask`,
`HandleCreateTask`, `HandleUpdateTask`, `CancelTask`, `RemoveTask`, `RetryTask`). An inbox
is a count per task, because order is MessageQueue's subject; over the cap one of the
messages that are there goes, whichever was the oldest (`Push`). Seven history variables
(`note`) record what became of a task's messages: whether one was `read`; `lost`, in one
of the three ways that `HandedOutIsDelivered` names; or queued `late`, after the end; how
many were `asked` for; where two threads filled the same gap (`overlap`); which statuses
the creator was `told`; and whose end was `cut` off from its follow-up by a failed write.
The recipients of a broadcast and the tasks of a refill are taken in any order (`Orders`).
The interrupt of a pane, which changes no store, is left out.

**Registry** has the steps of the registry and the connection loop; `entries[w]` is
the generation registered under `w` and identifies the push channel made with it.
**DaemonLink** composes it with the clients: MCP servers that run calls side by side
with one reader task, and blocking clients (CLI, panel, status reporter) that read
only while they wait. A call is a program of requests; channels are bounded, answers
may be late, processes are killed. `FlushQueue` copies the inboxes to the file at any
time, as the flusher does, and `DaemonRestarts` goes back to that copy: what was queued
after it is `missing`, what was read after it will be handed out `again`. An inbox over
its cap drops one of its messages (`Enqueue`). The explicit unregister request, which no
client sends, is left out.

**TeamReconfigure.** One team. `begin_apply` is split at its locks: `Plan` reads the
store, `Refuse` or `Save` is what happens under the lease lock up to writing the
effective config, `Commit` stores the state and inserts the lease. `finish_apply` is
`FinishTake` (or `FinishUnknown`), `FinishGet` and `FinishPut`, because it gives the
lock up before it reads and writes the state. `Expire` is the passing of the lease's
two minutes, `Restart` forgets the leases while the clients keep their tickets. The
overlay algebra is `ApplyEntryChange`, `ApplySingleChange`, `ApplyChanges` and
`Materialize`.

**StateFiles.** Three stores, three ways to save: shared values (snapshot written
after the unlock, nothing undone), memories (written under the lock, everything
undone on failure), history (a ring and an appended line). `write_file_atomic` is a
temporary file and a rename with crashes between. **MemoryLedger** is what the memory
store promises: a memory and the marks it sets appear together or not at all, and the
answer tells which. `LedgerSpec` states the refinement.

**Workspace** and **Artifacts.** A process works off a job, the calls it still has to
make with the configuration it loaded when it decided on them; tmux and the file
system change in between. The reconcile pass loads state and sessions once, visits
every target, and writes the state file at the end. Artifacts is the effect of the
generators on `.mcp.json` and on the marked section of instruction files. Those are
rewritten in place: `ReadFiles` takes what is there into the process's `draft`,
`OpenFiles` is the truncation by `fs::write`, `WriteFiles` the bytes, and `RewriteFails` a
failure or a kill at either, which leaves an emptied file behind. Users edit and other
processes rewrite the same files between these steps; `lossy` collects the directories
where that happened. The files of one directory that a call touches are read together and
written together. `RefreshDisabledRoot` is the cleanup by `ax refresh` of a root
orchestrator that the config has turned off.

**AgentLaunch.** Preparation of the two runtimes, beside others that prepare the same
home, edits of the project and kills. The settings for a Codex home are read when its
config is rendered; where no project config is named, or it does not load, that is
`Default`, and which entries ax sets depends on what the provider gives (`Given`,
`AxKeys`). config.toml is truncated and written in two steps. Claude's conversations are
found by the encoded directory (`TalksDir`, from the constant `ProjectKey`), so two
directories may share them. A status report may be refused or time out, and its answer
may come while a later report waits (`LateAfter`). Renaming a tmux window is assumed to
succeed while the window is there.

**ConfigTree.** `Config::load` and then `Config::load_tree`, as the callers make them: two
calls, each a validating and a merging walk that reads every file when it gets there.
`NextCall` passes on what the first returned (`cfg`); files are deleted and rewritten
between any two reads.

**UsageHistory** reads transcripts while they grow. A transcript lies in the folder that
Claude names after the directory its session ran in (`FolderOf`); workspaces' directories
are told apart by their own names, as query_history does, and each one's folder is read,
so two directories written alike have their transcripts counted twice. A line may name no
model.

**GitStatus** is a cache whose lock is released while git runs, with the parser of git's
output. MCInputs checks these four readers of what others write side by side.

**TuiLists** are the panel's lists and cursors, **TuiLoop** its event loop with the
worker threads. A `scene` bounds what one behaviour does: the parts of the world that
change and the keys in use.

## 3. What the runs check

| Run | Instance | Shows |
|---|---|---|
| `task_store` | 2 tasks, 2 agents and the operator, every kind of request, versions up to 4 | links, rollups and claims right; finished is final; a change raises the version |
| `task_tools` | 2 tasks, 1 agent and the operator, versions up to 4, 5 changes in all, 1 failed write, restarts | the file is a consistent map with every acknowledged change; a task is parked by a race only; the screen's version stands for what it shows; reported closed stays closed |
| `message_queue` | 3 messages, 2 senders, cap 2, 1 fault | order, conservation, clean means saved, eventual saving |
| `wake_delivery` | a sender and the reconciler, 1 send, 2 attempts, 1 fault | the only ways in which an unread message loses its wake; bounded prompting; every wake ends; an idle agent is prompted |
| `task_dispatch` | 1 task, 3 requests, a cap of 2 messages, 1 fault (a failed write or dispatch) | what was handed out is delivered, or lost in a named way; an ended task whose end was saved leaves nothing behind; copies need a race; the creator is told |
| `team_reconfigure` | 2 clients, 2 names, every single change and a remove-add pair, 3 tickets, 1 fault | one apply at a time; config and overlay part only in named ways; changes take effect |
| `daemon_link` | 2 MCP servers and a CLI client sharing a name, channels of capacity 1, a cap of 2 messages, 3 calls, 2 at once of which 1 polls, 1 fault | names are held by the last to register; answers go to their question and nothing is lost quietly; every call ends without a timeout |
| `state_files` | 2 callers, 4 calls, 2 faults, a ring of 2 | the ledger is implemented; memories, sets and log agree with the disk |
| `workspace` | a workspace that moves and changes runtime, an orchestrator and the root, cap 1, 2 processes, 2 calls beside a pass, 1 upset (an edit, a failure, a session's change) | an undisturbed pass converges; sessions a pass saw busy stay; the cap is overshot by concurrent checks only; the user's lines survive where rewrites do not overlap |
| `tui` | 2 workspaces, 2 tasks, 2 changes of the world, 2 requests | actions hit what was shown; a refresh keeps the place; requests settle |
| `inputs` | every `config.toml` of up to 3 lines; some 3000 small trees, loaded by two calls, with 2 edits; 3 transcripts; 2 connections asking for git status | launches, loads, reports and statuses are right while files change |
| `team_race` (expected to fail) | 2 clients, no fault | two clients plan from one revision; the second commits after the first is done and overwrites its change under the same revision number |

**Bounds.** `MaxVersion` stops operations on a task after that many changes; four
allow create, claim, finish, remove, or a retry in the middle. Two tasks give a parent
and a child; trees of any shape are covered by the proofs. Three messages over a cap
of two overflow it, with one left to be read in between. `MaxAttempts` is 2 instead of
`WAKE_MAX_ATTEMPTS`, so the counter, its limit and a reset between them all occur.
Three requests on one task allow an end and a retry around an unfinished follow-up.
Three tickets let a client be overtaken by a whole apply and its successor. Five
generations over three connections allow a replacement, its late disconnect and a
restart. Capacity 1 fills a channel with one push. Tools
that poll run beside other calls, but not beside each other; the theorem covers those. Four calls on two stores let a
failed write meet a success and a restart. One fault reaches every single-fault
hazard; StateFiles has two because a crash after a failed write is its subject. A cap of
two is met by the messages of one task and its creator's notices.

`CHECK_DEADLOCK FALSE` is given where a model stops when its bounds on versions,
messages, calls or sends are used up; the panel's loop never stops and is checked for
deadlock.

**Symmetry** is used in runs without liveness properties, for sets whose members no
definition tells apart. `state_files` uses it with a refinement: `LedgerSpec` is a
safety property and symmetric in callers and keys.

**Fairness.** MessageQueue: weak fairness of the flusher, a tokio task on an interval;
messages are bounded, so there is a last change to save. WakeDelivery: weak fairness
of handlers that were begun, of the wake loop and of time passing; strong fairness of
the end of an agent's turn, since an agent may read any number of times before it ends
one but every turn of a coding agent ends. The last is an assumption on the agent;
nothing is assumed about senders, the idle-sleep loop or faults. DaemonLink: weak
fairness of the tasks of the daemon and its clients, never of a timeout or of a peer
that ought to answer. TuiLoop: weak fairness of the loop and of a worker thread, whose
wait for the daemon is cut off after 5 seconds.

**Mutants.** Each property has an operator marked `Mutant of …` that changes the
definition it names the way a plausible bug would (a refresh left out, a generation
not compared, a flag cleared late); with it the property fails.

## 4. What is proved

All theorems hold for every choice of the constants that satisfies the named
assumptions of the component's module: any number of tasks, agents, clients,
messages, faults and restarts. None assumes fairness, and none follows from the bounds.

| Module | Theorems | Inductive invariant |
|---|---|---|
| TaskDispatchProofs | on the store: `StoreInvariant` (`TypeOK`, `LinksInv`, `RollupInv`, `ClaimInv`), `LinksHold`, `ClaimsHold`, `FinishedStaysFinished`, `VersionIsSound` | `Good` |
| | on the store and its file: `FileIsConsistent`, `RepliesAreDurable`, `MemoryIsAhead` | `DurableInv` |
| | on the tools: `ToolsKeepTheFile`, `ToolsAreDurable`, `ParkedByARace`, `PreviewIsCurrent`, `PrintedStepsAreTaken`, `ClosedStaysClosed` | `ToolsInv` |
| | on the handlers: `CreatorsAreTold`, `HandedOutIsThere`, `QueuedTasksAreWanted` | `DispatchInv` |
| MessageQueueProofs | `OrderHolds`, `NothingVanishes`, `CleanHolds` | `QueueInv` |
| WakeDeliveryProofs | `UnreadHasAWake`, `PromptsRunOut` | `WakeInv` |
| | on the usage reports: `UsageHolds` | `UsageInv` |
| TeamReconfigureProofs | `LeaseExcludes`, `ConfigFollowsState` | `LeaseInv`, `ConfigInv` |
| | on plans: `ChangesHold`, `OverlaysHold` | `OverlaysInv` |
| | on the launcher: `LaunchesHold` | `LaunchInv` |
| StateFilesProofs | `ImplementsLedger`, `MemoriesHold`, `FilesHold` | `StoresInv` |
| | on the git status: `GitHolds` | `GitInv` |
| | on loads of the configuration: `LoadsHold` | `LoadsInv` |
| DaemonLinkProofs | `NamesHold` | `RegistryInv` |
| | `AnswersHold` | `LinkInv` |
| WorkspaceProofs | `SessionsHold` | `SafeInv` |
| | `LinesAreKept`, where no orchestrator shares a workspace's directory | `LinesInv` |
| | `PassesConverge`, where no two targets share a directory | `ConvInv` |
| TuiLoopProofs | `PanelActsOnTheShown`, `RefreshesKeepThePlace` | `PanelInv` |

**Task store.** `Good` is the conjunction of the four invariants; none is inductive
alone. A change of one child's status affects every task that lists it, while the code
refreshes only the task the child names as its parent: without `LinksInv` the rollup
of a third task could go stale. `LinksInv` and the counts need `TypeOK`, and
`ClaimInv` needs it to know that a claim raises a number. `SummarizeCongruence` says
that a rollup depends on statuses and child list only, `RefreshFrame` what a refresh
may touch, and `EditPreserves` puts them together for any edit that keeps links and is
followed by a refresh of the parents of what it changed; all operations but create are
instances of it. The action properties come from the relation `Monotone`, proved along
the way.

**The file.** `DurableInv` says that the map in memory and the map in the file are both
`Good`, that a version tells the task it belongs to, and the stated properties.
`OperationCases` reduces every operation to a step of the store whose write succeeds
whole or leaves the file alone. `AckedIsDurable` needs memory never to be behind the
file: a write replaces the whole file, tasks the call was not about included.

**The tools.** `ToolsInv` adds what a call in flight knows (`GoodCall`), that a parked
task was loose when it was parked (`AsideIsLoose`), and that as long as the screen's
version is in memory or in the file, the task there is the one shown (`ShownInv`).
Every tool's step is reduced to one of three kinds: it serves a call and is one step of
the store (`ServedKeeps`), it touches no task (`QuietKeeps`), or it is a restart
(`RestartKeeps`). `PrintedStepsAreTaken` says that the two copies of the rules, the
CLI's and the daemon's, agree.

**The queue.** `QueueInv` has the type, that memory, the file and the snapshot between
them hold inboxes in order and within the cap (`Copies`), that what was read or dropped
had been sent (`Past`), that until a fault every message is in one place and what one
sender's reader has comes before what waits (`Account`), and that a clean map is saved
or about to be (`Saved`). What a read takes from an inbox
is usually argued by induction over the queue, which is out of the prover's reach. The
models count instead: `Rank` is the number of picked places up to one, `Ranks` and
`NthPlace` show that rank and place are inverse and monotone, and `Picked` concludes
that the picked subsequence keeps order, distinctness and elements. Every operation is
then one lemma on one inbox.

**Wakes.** `UnreadIsCovered` is not inductive because a reader's cancel comes after its
emptiness check. `Covered` lets a sender be between queueing and scheduling, and
`CancelSawEmpty` says that whoever is about to drop the entry saw an empty inbox, so
that what is in it now came in between and is excused. `PromptsAreBounded` needs
`Budget`: the prompts sent are paid for by the attempts on the entry, even when the
loop works on a copy of an entry that is gone.

**Handlers.** The three properties of TaskDispatch speak of moments when no handler is
under way, so what has to be invariant is what the handlers still owe. `DispatchInv` has
the store's `Good`, the types, the shape of every program, and five facts per task. The
shape (`Shape`) says that a call is about a task that exists and a purge, a lookup or a
record about its assignee's inbox; that a purge, and a message somebody queues because it
found none, come first in what is left of a program; that a dispatch is recorded right
after its message; and that a purge has a reason (the task was closed or removed, or its
new message follows). Per task: the creator was told its status, or the notice stands in
a program behind calls that cannot fail (`Told`); nothing is queued for an ended task, or
it came late, or its purge is next (`Left`); a task handed out has its message, was read,
or somebody is about to queue it (`Handed`); as long as no two threads looked at once,
one thread at most is about to fill the gap, and the inbox holds at most one copy more
than was asked for (`Once`); nobody has queued anything for a task that does not exist
(`Unheard`). `Told` is where the order of apply_task_state_followup matters: a dispatch
that fails drops the rest of its handler's program, and the notice survives because no
dispatch comes before it. `ShapeMoves`, `NoticeMoves` and `ShapeJoin` say what replacing
the first call of a program keeps, `CalmKeeps` that a step which is not about a task
keeps what is owed for it, and `UpdateMoves` to `RecoverMoves` what the methods of the
store do to the fields the handlers look at; each action is then one lemma.

**Team reconfigure.** `LeaseInv`: tokens are never reused, a begin_apply between
writing the config and storing the lease holds the lock while nobody has a lease, and a
ticket that is not late is the one the lease is for. `CopyInv`: the file holds the
config of the plan about to be stored, and a finish_apply that was not overtaken holds
a copy of the stored state. Neither proof looks into a plan, so they hold whatever
`apply_changes` computes. What it computes is the subject of `ChangesShow`, an induction
over the list of changes: one change shows in the overlay it makes and leaves what the
overlay says of every other name (`ChangeShows`), so the last change to a name is still
seen at the end. Enabling a removed name of the base config shows only because no
overlay has a name both removed and disabled; `OverlaysInv` therefore carries coherence
through plans, the store and the file.

**State files.** `StoresInv` ties every stage of a call to what it holds (`Stages`,
`Held`), makes the memories on both sides of a write sound (`Sound`: supersede marks are
mutual, and an unmarked memory has its own stamp, which is why undoing restores it), and says which set or log line is where (`Sets`,
`Lines`). `ImplementsLedger` is the refinement, step by step (`LedgerStep`): the rename
of a remember is the ledger's `Store`, the undoing of a failed one its refusal, and all
else stutters. `RecallCutsTheLast` shows that a limited recall keeps the latest matches.

**Registry.** `RegistryInv` adds to `NamesAreHeld` that a connection with a name has a
generation it was granted and drains that channel (`Consistent`) and that generations
are distinct
(`Distinct`), without which a late disconnect's comparison would prove nothing.

**The link.** `AnswersAreKept` says where every message is, so the invariant follows
each one through requests, the daemon's inboxes, answers and the tools that returned it. `LinkInv` has
`RegistryInv` and the types, that a live call is at a place of its tool's program
(`CallsInv`), that a call and a place name one request or one answer that is not ahead
of its call (`ItemsInv`, `KeysInv`), that nothing stands in line twice (`LinesInv`),
that a message is in one place (`PlacesInv`) and was sent by one call (`AuthorInv`), and
what an outcome tells: a send that succeeded has sent, a call whose answer is lost gets
no other (`FateInv`). The steps are abstracted to four events, `Shed`, `Begin`, `Move`
and `Answered`, each shown to keep the flow (`FlowInv`) once; every action is then one
of the four. The proof found a gap in the model: a client that exited while the
daemon restarted left the messages of its answer unrecorded. It also showed that the
reply a polling tool returns is the one to its question even when somebody else reads
the same inbox, so `RepliesAreToTheQuestion` no longer excludes that.

**Workspaces.** `SafeInv` gives every job what its calls rely on (`JobOK`: a call that
writes has a configuration, one that cleans up a directory of the target's own, a
session is made last but for the wake), every pass its report (`PassInv`), and counts
the cap as sessions made plus sessions about to be made: a check adds at most one per
process, making the session moves it from one side to the other. For the files a text is
taken as two pieces of the user's lines around one section or none (`Pieces`);
`StripLeaves` and `SpliceHolds` say that stripping gives back exactly the lines and
splicing keeps both pieces. This needs `OrchestratorsApart`, because an orchestrator's
prompt replaces the whole file. `QuietInv` says of a pass that nobody disturbs: a
target visited and not blocked has all it is owed (`Done`), or is the one being worked
on, and then what it lacks is what the calls that are left will do, and none of
them undoes what no later one does again (`UnderWay`). Each call is one lemma that
passes `UnderWay` on and leaves the other targets alone (`Apart`), which is where
`DirectoriesApart` is used; without it the property is false (`OverlapIsSafe`, section
5). The root orchestrator's directory is fixed, since the code derives it from the home
and writes it without a cleanup. Two of the model's CASE expressions had overlapping
guards, which TLC takes in order and the prover does not; they are now disjoint.

**The panel.** `PanelInv` adds to `ActsOnTheShown` what a menu, a waiting request and a
running job still say. A menu of a workspace is on that workspace's row as long as it has
not been off the list (`MenuInv`), because rebuild_agents looks for the name first; so the
code may act on the row under the cursor. Whatever waits or runs carries the target of
its menu (`WorkInv`), and its kind of form, and no other, is shut (`FormInv`). That the
loop enters a drain only when it has work (`PhaseInv`) is what makes the answer of a
message find the form it was sent from. `RefreshesKeepThePlace` follows from
the lemmas on a rebuilt list (`AgentsFit`, `MessagesFit`). The lists are sorted and
filtered by counting what comes before (`InOrder`, `Kept`), with `Ranks` for what that
returns; it needs an order without ties, so the model now has the tie-break by id of
sort_tasks_for_display.

**Git status.** `Fields` and `Parse` are recursive functions over the entries. They are
reasoned about by induction over a range of numbers in the form "the set of positions
where the claim fails has no smallest member" (`Upwards`, `Downwards`), which needs no
operator as a parameter. `FieldsSolved` and `ParseSolved` show that the recursive
equations have a solution, `ParseAt` where the parser stands after each entry, one field
too far after a rename of the work tree included. From it come `ParsedRight` (the counts
are those of the entries) and `FilesCover` (the diffs name at least as many paths as were
counted). `GitInv` carries this through the cache: a collection keeps what it saw and how
long ago (`Collecting`), one that nobody overlaps is the only one (`Unshared`), and the
last answer is the one the cache holds (`AnswerInv`), which is why an answer from the
cache cannot go back. The proof found an exception that the instances had missed: a copy
in the work tree, which git reports only when `status.renames` asks for copies, is
counted twice and named once, so `NumbersBelongTogether` leaves those trees out. The
instances now have renames of the work tree.

**Launcher.** Two arguments meet. The first is about config.toml: `SectionsKept` says that
a line stays in its section when lines are put between others without a new header above
them, `OneEntry` that a file changed at one line, in the right section, says what it said
but for one entry. `UpsertTopSays` and `UpsertInSays` show that each way in which an entry
is replaced, inserted or appended, with a new section or without, is of that kind, and
`RenderedSays` goes by induction over the entries that ax sets. They need the user's file
to be one that Codex takes (`Toml`: no key and no section twice), which is assumed of
`Worlds`. The second is about the steps: a launch that nobody joined is alone until
somebody does, so what each stage of the preparation left in the home is still there
(`HomeFits`), whatever a kill had left before; a conversation kept in a directory of one
workspace is no older than its last fresh launch (`TalksFit`), which needs that the number
of a launch that runs is not below it; and `ShownFits` keeps the reporter's last state
beside the window's.

**Usage.** The reports are sums over lines, buckets, files, agents and workspaces.
`SumRec` shows that the recursion behind a sum has a solution on every finite set, by
taking a smallest subset where it fails, and `SumAny`, `SumSwap` and `SumSplit` that the
order of summing does not matter and that a sum may be cut along a partition. Three
arguments use them. `Counting` says that the record of a request is its line that stands,
so a repeated line replaces exactly one and, when the model changed, moves its share
(`CountStep`, by induction over the lines). What a line adds is the difference of the
totals around it (`AddedIs`), the lines of a window are a range because times do not go
back (`WindowIsARange`), so the buckets of a window telescope (`Telescope`,
`WindowHolds`). A file has one owner and one agent (`OwnerIs`), so the workspaces' shares
add up to the owned files (`TrendSum`, `NothingTwice`); a Codex file left out for its age
holds no line of the window because it was written no earlier than its last line, which
is the part of `UsageInv` about `rollouts`.

**Configuration.** `LoadsAreRight` compares a walk, one file at a time, with what a tree of
files is without a walk (`Mounts`, `Faulty`). `Mounts` is built level by level;
`MountsAreClosed` and `MountsAreLeast` show that it is the least set that has the root and
the children of all it has but those below themselves. The levels suffice because every
path on a way was set out from at its first project as many levels up as it is long
(`SetsOut`), so two places with the same first project and the same length are one, and
there are no more of them than projects times `MaxPath`. `LoadsInv` then has two
halves. Whatever is edited: the types; the prefixes on the stack lengthen one another
(`TreeChain`); claims are of what was read (`TreeClaims`); a frame's names are rows of the
tree view and the other way round, which a return carries from child to parent
(`TreeViews`); nothing is read twice by the same names (`TreeOrder`). As long as nobody
edits: every frame is at a mount, with what its file says (`TreePlaces`); a child of what
was read is read, about to be, or still to be looked for (`TreeCover`); what was read is
without fault and the claims are exactly its own (`TreeClean`); what was marked is a mount
(`TreeMarks`). So a refusal has found a fault (`StopsAtFaults`), in whichever order the
walk meets the two sides, and a walk that returns from the root has read everything
(`AllIsRead`). `CapsStopCycles` takes a path that holds a project twice and goes on along
its own cycle until it is deeper than the cap. The proof found four faults of the
reference that the instances had not shown, and now do but for the second: two children
of one project with one prefix were a single mount, so mounts are told by their names;
mounts deeper than twice `MaxPath` were left out; a root without a file counted as no
fault; and `NoProjectHoldsItself` was stated for one depth too many, where the cycle no
longer fits the bound on paths.

**Only model-checked.** Liveness (`EventuallySaved`, `EveryWakeEnds`, `IdleIsPrompted`,
`EveryCallEnds`, `EveryRequestSettles`), which TLAPS does not do. Every safety property
that a run checks is also the subject of a theorem.

## 5. Disagreements with the repository's own words

`team_race` is the one kept as a run, against `team_reconfigure.rs`: "parallel clients
cannot race on the same team". The following are definitions in the modules that TLC
refutes when they are put in place of a run's properties; each states a sentence of
the repository.

| Definition | Sentence | What happens |
|---|---|---|
| `MessageQueue!ShutdownLosesNothing` | `server.rs`: no pending enqueue is lost on clean shutdown | an open connection enqueues after the final flush |
| `WakeDelivery!UnreadIsRetried` | developer guide: retries go on while messages are unread | a message sent between `read_messages`' emptiness check and its cancel loses its wake |
| `WakeDelivery!SleepTakesNoWork` | `docs/architecture.md`: only workspaces without queued messages sleep | a message arrives after `should_sleep` looked and before the stop |
| `TeamReconfigure!DisabledIsAbsent` | `team_reconfigure.rs`: a disabled entry is an absent one | disabling a workspace an earlier change added leaves it in the effective config |
| `DaemonLink!ActiveIsListed` (with `Uses <- SendUse`) | `server.rs`: list all active workspace agents | `ax send` registers as the orchestrator and unlists the running one when it leaves |
| `Workspace!OverlapIsSafe` (with `SpecsOf <- SharedDir`, `Order <- SharedOrder`) | `validate.rs`: directory overlap is safe | two workspaces share the one `ax` entry of `.mcp.json` |
| `TuiLoop!LifecycleHitsTheShown` | `actions.rs`: the confirmed workspace | the menu acts on the row under the cursor, which a refresh may have changed |

Smaller ones, without a definition:

- *Tasks.* The leftover declaration is checked on the step to `completed` only. An
  update whose write failed is answered Ok when repeated, and a restart loses it;
  version numbers lost this way are used again. The creator can clear the assignee's
  result with an empty one. `ax tasks recover` prints "task is terminal" for a blocked
  task although the daemon accepts its retry and cancel. A log-only update on a closed
  task is accepted although a comment says terminal statuses reject, and repeats the
  follow-up. The follow-up of an update to blocked that a retry overtook purges the
  retry's message and cancels its wake. The developer guide calls the life cycle
  one-way although `blocked` and `retry` lead back to `pending`.
- *Delivery.* Dropping `FlusherHandle` aborts the flusher although its comment promises
  a final flush. A send whose dispatch fails answers with an error after the message is
  queued. A read that times out loses the messages it took.
- *State files.* A failed shared set leaves the value in memory; of two overlapping
  sets the older snapshot may be the one on disk. A torn line in the history log makes
  every later start fail.
- *Workspaces.* Reconcile, refresh and the start of the lifecycle call never enforce
  `max_concurrent_agents`. Sessions and files made by a dispatch stay when the config
  moves its target. `.mcp.json` loses other servers' extra fields and is replaced when
  it does not parse. The runtime state file is written in place.
- *Readers.* A work-tree rename after `git add -N` takes two fields, the parser skips
  one, and a work-tree copy is counted twice and named once; a slower, older collection overwrites a newer one. A hint that names a workspace
  of another directory leaves a transcript unassigned. A cycle of projects through
  relative directories is caught by the depth limit only. Claude's conversations are
  keyed by directory, so a fresh launch deletes those of another workspace there.
- *Panel.* Without a config, rows go by the last part of a name only (the instance has
  no two names that end alike). A third task action silently replaces one that waits
  behind a running job. A full history buffer moves a parked selection.

## 6. Not modelled

Protocol types and the socket path are serialisation and formatting. Rendering, screen
captures, prompt texts, `ax init` and command output only show or write text. The
daemon's pid file and socket are set up once at start. Yaml and json syntax are read as
records. tmux, git and the coding agents are external and appear by their outcomes. The
wake scheduler's `retry_after_successful` hook is never installed.

## 7. Plan

The safety properties of the runs are proved. What could be added to the model:

1. The calls named as left out in the inventory's partly modelled components: `broadcast`,
   lifecycle calls on named targets, the explicit `unregister`.
2. A run of `ConfigTree` on trees with more projects, for mounts deeper than a path is long.
