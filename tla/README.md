# A TLA+ model of MiQroForge Desktop

MiQroForge Desktop is an Electron application in front of a Python agent runtime (`src/miqi`).  The
desktop writes JSON requests to the bridge (`miqi/bridge/loop.py`), the bridge submits them to a
`RuntimeSession` (`miqi/runtime/session.py`), whose dispatch loop runs agent turns as tasks
(`miqi/runtime/task_runner.py`).  A turn alternates between the model and tools
(`miqi/runtime/turn_runner.py`, `tool_runtime.py`); tools are called through the orchestrator
(`miqi/execution/orchestrator.py`), which may ask the user for approval, may show confirmation cards
(`miqi/kun_runtime/user_input_gate.py`), may start sub-agents (`runtime/agent_control.py`) and run
commands in sandboxes (`miqi/sandbox/manager.py`).  Jobs on a schedule (`miqi/cron/service.py`)
start turns as well.  Nearly all of this is asyncio: what is hard about it is what happens at the
awaits.  A turn is aborted while it persists its result, an answer arrives together with a timeout,
a request takes a lock that another one has just released, a sandbox is evicted while it is made.
This project models that part.

## 1. The parts of the system

| Part | State | Operations | Talks to | What makes it correct |
|---|---|---|---|---|
| Dispatch loop (`session.py`, `task_runner.py`) | submission queue, `_pending`, `_active_turn_task`, auxiliary tasks, `_active_turn_ids`, event queue | `submit`, `_run`, `TaskRunner.handle` | bridge (submissions, events), orchestrator (abort) | no message dropped, one turn at a time and in order, one end per turn, every turn ends |
| Bridge chat (`bridge/loop.py`) | turn lock, released drains, sent terminals | `chat.send`, `chat.abort`, drain task, stale-turn guard | session (submissions, events), desktop (terminal messages) | one terminal per request, of its own turn; one reader of the events; drains end |
| Agent turn and plan gate (`turn_runner.py`, `collaborative_turn_runner.py`, `tool_runtime.py`, `plan_boundary.py`) | rounds, messages, ledger, confirmed plan, steer queue | run, replan, `execute_many`, `inject_steer` | tools, cards, dispatch loop | no mutating tool against the user's word, the user asked once, nothing done is forgotten, the turn ends |
| Approvals (`orchestrator.py`) | futures, metadata, thread index, allowlist | `execute`, `resolve_approval`, `cancel_approvals_for_thread` | turn (cancellation), handlers (answers), ledger | nothing runs unless allowed, a confirmed answer decides, nothing left over |
| User input gate (`user_input_gate.py`) | pending cards, slot per turn | `request`, `resolve`, `cancel_all` | tools that ask, bridge (answers, aborts) | one card per turn, first answer stands, nobody starves |
| Agent control (`agent_control.py`, `agent_jobs.py`, `agent_graph_store.py`) | live agents, job tasks, `agent_graph.db` | spawn, kill, completion, eviction, restart | tools, bridge, database | the cap holds and frees its places, rows and reports agree, every agent reports |
| Cron service (`cron/service.py`) | job list in memory, `jobs.json`, timer | `start`, timer, add, update, remove, enable, run | gateway, desktop handlers and CLI over one file | due jobs run, one-shot jobs once |
| Sandboxes (`sandbox/manager.py`, `bwrap.py`) | `_sandboxes`, `_creating`, directories, state file | `get_or_create`, eviction, destroy, `initialize`, shutdown | bridge, tools, the next process | one sandbox per key, the cap, nothing left that no process knows of |
| Turn reservation (`turn_app_handlers.py`, `shell_command_app_handlers.py`) | reserved threads | `turn/start`, `thread/shellCommand` | dispatch loop | one owner per thread |
| Session registry (`app_server.py`) | sessions by client | create, stop, evict | bridge | one live runtime per session |
| Permission engine, history and ledger, providers, MCP, channels, stores, UI | see `PROJECT.json` | | | mostly data and I/O |

`PROJECT.json` lists every component, with what is left out of it or why it is not modelled, and
every hazard at its line with the properties that are about it.

## 2. The modules

| Module | Models | Proofs |
|---|---|---|
| `TurnStream` | what a session promises: turns are accepted, started one at a time in order, and finished | |
| `SessionDispatch` | the dispatch loop and its tasks; implements `TurnStream` | `SessionDispatchProofs` |
| `BridgeChat` | chat.send, chat.abort and the drains over an abstract session | `BridgeChatProofs` |
| `ToolApproval` | approvals of tool calls | `ToolApprovalProofs` |
| `UserInputGate` | confirmation cards | `UserInputGateProofs` |
| `AgentTurn` | one turn: rounds of model and tools, plan gate, re-planning, steering | `AgentTurnProofs` |
| `AgentControl` | sub-agents, their jobs and their rows in the database | `AgentControlProofs` |
| `CronService` | several processes over one `jobs.json` | `CronServiceProofs` |
| `SandboxManager` | the sandboxes, their directories and the state file; `MCSandboxManager` adds the symmetry of keys and calls | `SandboxManagerProofs` |

**How they compose.**  `SessionDispatch` implements the abstract `TurnStream`, which is what the
second half of `BridgeChat` takes of a session.  `AgentTurn` is the inside of one turn that
`SessionDispatch` has as a task with suspension points; `ToolApproval` and `UserInputGate` are the
waits inside a tool call of it.  The larger products are not checked: each module gives its
neighbour every behaviour that the neighbour's own module allows, and more.

**Atomicity.**  An asyncio coroutine runs until it awaits something that is not ready.  An action is
such a stretch; a state between two stretches is a phase of the coroutine.  Locks that are never
held across a suspension are not modelled.  An await of the database or the ledger is a suspension;
the operation itself takes effect even if the caller is cancelled, because `RuntimeDb.run` shields
it (`db_util.py:379`).

**Cancellation.**  `task.cancel()` sets a flag that is delivered at the task's next resumption, so
every phase has an action for its delivery, and a task may finish before it.  `asyncio.wait_for` is
that of Python 3.11, with which the releases are built (`.github/workflows/release.yml`): when the
awaited future is already done, the result wins over both the timeout and the cancellation.

### SessionDispatch

Submissions are numbered; the number stands for the turn id and the task.  `sub`, `taken`,
`getting`, `held` and `pending` are the queue, `get_task` and `_pending`; `active`, `aux`, `pc` and
`todo` are the loop with the rest of the `done` set it works through; `ph` and `cancel` are the
tasks, with the suspension points of `_handle_user_message` and the shell handler; `activeIds` is
`_active_turn_ids`.  `Wake` takes the `done` set of `asyncio.wait`, and one action handles each of
its members in any order: `TurnOver`, `ReapAux`, `QueueMessage`, `SpawnAux`, `AbortActive` and
`AbortOver`, `AbortNothing`.  The set iteration order of the code is arbitrary, and so is the
model's. A standalone shell command pops the active-turn entry of its thread without looking whose
it is (`task_runner.py:485`); that is part of the model.  `StageOf` maps a submission to
`TurnStream`'s states.

### BridgeChat

`phase` is where a request and its drain are, `lock` is `_session_drain_tasks`, `released` is
`_released_drain_tasks`, `pred` the drain that `_await_released_predecessor` found.  `ready` holds
the drains that were created and have not taken their first step: asyncio starts tasks in the order
of their creation.  Clocks are replaced by choices: `IdleTimeout` may happen whenever the queue is
empty, `GoesQuiet` says that the drain with the lock showed no activity for `STALE_TURN_TIMEOUT`,
`Stirs` that it did again.  `Modal` is the set of requests that carry a reasoning mode, whose
handler awaits the database between the check of the lock and taking it.  The second half of the
module is the session as `SessionDispatch` has it: submissions in order, one turn, events on one
queue.

### ToolApproval

`phase` is where the task of a call is in `execute` and `_request_approval`; `future`, `registered`,
`index` are the maps of the orchestrator; `confirmed` is the answer that `resolve_approval` reported
as resolved; `told` and `ledger` are the terminal events and the ledger items of each approval.
`Sweep` is one iteration of `cancel_approvals_for_thread` up to the await of its ledger item,
`SweepEnd` its last line.  Calls of sub-agents are not cancelled with the active turn, so the sweep
is all that reaches them.  A cancellation is a flag of the call, its delivery is `Cancelled`, and
`Answered` swallows it when the future is done.

### UserInputGate

`entries`, `held`, `dead` are the slots (a dropped entry is a fresh slot), `pending` the live cards,
`phase` the coroutine of each request.  `woken` separates the wake-up by `Event.set` from the moment
the coroutine runs: in between a new request may take the slot.  The docstring calls the slot FIFO;
a newcomer that finds it free goes ahead of those who were woken.  A task may be cancelled in each
phase (`CancelQueued`, `CancelAnnouncing`, `CancelWaiting`).  Requests that were cancelled in the
queue or in `on_pending` are remembered in `abandoned`, because the code leaves their slot entry or
their card behind; `NothingLeaks` says that nothing else is.

### AgentTurn

`pc` goes from `top` (the head of an iteration) over `stream` (the model answers), `boundary` (the
plan card that the runtime itself asks for before the first tool of a complex task), `confirm` (the
cards of the batch, one after the other) and `tools` (the others, at once) back to `top`, or to one
of the ends. A call is its kind, as far as the code tells kinds apart, and whether the output limit
cut it. `started`, `completed` are the ledger, `memory` what `messages` and `messages_delta` hold,
`ran` the calls that reached their tool: the model keeps them apart because the code records and
drops them in different places. A call is named by its planning, round and place, so the ledger and
`ran` keep those of every planning. `blocked` and `done` are `_plan_gate_blocked` and
`_plan_confirm_done`; `rejected`, `nod` and `cut` remember what the user said of the plan at hand
and what he was not shown, whatever the code makes of it. `Replan` restarts the loop as
`CollaborativeTurnRunner` does, with the gate reset (`collaborative_turn_runner.py:57`) and the
messages built anew from the history; `rejected`, `nod` and `cut` begin again with it, for they are
about a plan that is gone, while the ledger and what the tools did stay.

The following of the code is in the model and worth knowing:

* The fast mode skips calls beyond its budget after their ledger items were started; the items stay
  open and the echo has no result.  `NothingIsForgotten` says that nothing else does.
* Tools that ran before the user sent the plan back have run and are in the ledger, but the model
  plans anew without their results, and the next turns do not see them either: the delta was
  dropped (`turn_runner.py:789-796`).  `NothingIsForgotten` compares the ledger with everything that
  ran in the turn, and the memory with the planning at hand only.
* After "adjust", a simple batch with a mutating tool runs without a new confirmation.
* Re-planning and cancellation drop also the tools used and the drained steers of the rounds before;
  the search budget and the 30 s fuse of the fast mode start again.  A steer accepted after
  the last drain is lost.
* A card confirmed in the response that holds a rejected plan marks the plan as confirmed while the
  gate is shut.  A truncated `ask_user_plan_confirm` counts as shown.
* "modify" without words ends the turn with an empty answer; an abort during a card of the model is
  swallowed by the orchestrator and the turn goes on to its next suspension.
* Confirm cards and unknown tools have risk 2, like tools that write.

### AgentControl

Jobs are numbered in the order in which they are started; `owner` tells which session started a job,
for an eviction makes a new `AgentControl` while the jobs of the old one go on.  `ph` and `cancel`
are the task, `spawner` the `spawn()` call (which may be suspended in a hook after the job has
started), `state` and `agents` the `LiveAgent`s, `job`, `row` and `loaded` the status in the object
the task works on, in the database and in the object a later session read from it.  `Kill` cancels
the task and tells the desktop at once; the job may have ended meanwhile, in which case the two say
different things (`ToldIsStored` allows for it).

### CronService

Schedulers (the gateway, an interactive agent) read `jobs.json` when they start and write all jobs
back after each tick, also one whose sleep ended too early and that finds nothing due (`TickEarly`);
editors (the `cron.*` handlers, `miqi cron`) live for one operation. A save is two steps,
`SaveOpens` and `SaveEnds`, with the file truncated in between; it may fail before and after the
truncation (`SaveFails`), and `Dies` may come at any point. The id of a new job is some unused one
(`FreshId`), which halves the states and loses nothing. What follows from this, and the model
contains: a stale copy written back removes or resurrects jobs; a torn file loads as no jobs; two
schedulers each run every job; `cron.run` of the desktop has no `on_job` and runs nothing; a
one-shot job in the past never runs; a scheduler started without jobs arms no timer and stays idle,
and one whose save failed has no timer left (`deaf`).

### SandboxManager

`dirs` are the directories below the sandbox root, `file` the keys in the state file, `boxes`
`_sandboxes` with its order, `creating` `_creating`; `pc` has each call in `get_or_create` or
`destroy`, `boot` the bridge in `initialize()`, running or shutting down.  `_rm_rf_retry` is one
step that may fail; saves are assumed to succeed; distinct keys are assumed to have distinct
directories (the code replaces ':' by '_').  Nothing calls `activate`, so the eviction that spares
the active sandbox is first in, first out.  In the model as in the code:

* `get_or_create` creates before `initialize()` is over, although `bridge/loop.py:194,211` say that
  it returns None; `cleanup_stale` then removes the directory of the live sandbox, and at its end
  the file that lists it.  `Listed` excludes those (`early`).
* Two calls for different keys each check the cap before either is registered, so the cap is
  exceeded, and stays so until something is destroyed: an eviction takes one for one.
* destroy and eviction unregister first and remove after an await: a sandbox of the same key made
  meanwhile loses its directory (`bwrap.py:1531` makes it anew for the next command).
* A file that `cleanup_stale` keeps because a removal failed (`manager.py:689`) is overwritten by
  the first save; a missing file is not scanned (`manager.py:644`), a failed or cancelled creation
  and a failed removal leave directories that no file lists; shutdown clears the file even then.

## 3. The runs

| Run | Question | Bounds |
|---|---|---|
| `SD_stream` | no dropped message, one end per turn, no entry of a dead turn, refinement of `TurnStream`, every turn ends | 4 submissions of all five kinds, 1 thread |
| `SD_shell_lost` (violation) | are shell commands always run? | 3 submissions: messages, inline shell commands |
| `SD_cleanup` (violation) | does the cleanup of an aborted turn always complete? | 3 submissions: messages, aborts |
| `BC_drains` | one reader, own terminal, settled exactly once when done, never all drains waiting, every drain ends | 3 requests, 1 with a reasoning mode, 2 aborts, both outcomes, both timeouts |
| `BC_selfwait` (violation) | is a released drain bounded by its timeout? | 1 request, 1 abort |
| `BC_stale` (violation) | can a stale terminal event settle a new request? | 2 requests, no abort |
| `TA_approval` | allowed, decided, recorded, cleaned up, ended | 2 calls, 2 threads, 2 patterns, 2 aborts |
| `UG_cards` | one card, choice kept, no card after cancel, no leak, no starvation | 3 requests, 2 turns, 2 choices |
| `AT_turn` | gate, confirmation of complex work, one confirmation, complete records, end | 2 rounds of 2 calls, 1 nudge, 1 re-planning, 1 steer, all modes |
| `AC_agents` | places freed, rows and reports true, every agent reports | 3 agents, cap 1, 1 eviction or crash |
| `CR_jobs` | one-shot jobs once, due jobs run | 2 jobs, 2 schedulers, 1 editor, 2 units of time, 2 edits, 2 starts |
| `SM_sandboxes` | no key twice, cap, everything listed | 3 keys, 2 calls, cap 1, 2 starts |

**Why the bounds are enough.**  Four submissions hold a running turn, a queued one, a shell command
and an abort at once, and a turn started after it.  Three requests hold a draining one, one that
waits for it and one that takes the lock from the second; two aborts release twice.  Two calls are
one that is cancelled with its turn and one that only the sweep reaches, in one thread or two. Three
requests of a turn are the holder, a sleeper and a newcomer that is faster.  Two rounds with two
calls have a card and a tool in one response, and a response after what the user said; with one
re-planning both happen on either side of a reset.  Three agents under a cap of one are one at work,
one that takes its place and one after a restart.  Two schedulers and an editor are all that can
overwrite each other; two units of time with a period of one make a job due, run and due again, and
a one-shot job due before, at and after the restart.  Three keys with a cap of one have two calls
create beyond the cap and one more to evict; two starts have a process clean up after another.  The
proofs of section 5 need none of these bounds.

The constants `MaxSubs`, `MaxAborts`, `MaxSteers`, `MaxAgents`, `MaxRestarts`, `MaxNow`, `MaxEdits`,
`MaxStarts` and `MaxBatch` bound what clients, users, models and time do; `Rounds`, `FastRounds`,
`MaxNudges`, `MaxReplans`, `MaxConcurrent` and `MaxSandboxes` are limits of the code, made small.
`CHECK_DEADLOCK FALSE` is set everywhere, since a system whose clients have made all their requests
stops.

**Fairness.**  All of it is weak.  `SessionDispatch`: of the loop and of every task, for asyncio
runs what is ready and provider calls, tools and the database have time limits; not of clients.
`BridgeChat`: of the drains and of the chat.send handler only; the session may hang, which is what
the timeouts are for.  `ToolApproval`: of the steps of a call (its wait has a timeout) and of the
sweep; the user need not answer.  `UserInputGate`: of a request's own steps including its timeout,
which the tools that show cards always pass (`ask_user_confirm.py` clamps it to 5..600 s); the user
need not answer and nobody need cancel.  `AgentTurn`: of the turn's own steps, whose waits are all
bounded; steers and the abort need not come.  `AgentControl`: of the task of each job; kills,
evictions and crashes need not come.  `CronService`: of a scheduler that lives, for `on_job` ends
within `job_timeout`; time need not pass.  `SandboxManager`: none, its properties are about safety.

## 4. What the runs show

The properties of the passing runs hold.  Four statements of comments and docstrings do not:

* `SD_shell_lost`: a shell command that is dequeued in the same batch as the end of a turn is
  cancelled before its first step and vanishes, although the loop promises "FIFO, no silent drops".
* `SD_cleanup`: an abort that hits the error handler of a turn while it persists the error leaves
  the turn without any terminal event.
* `BC_selfwait`: when `chat.abort` releases the lock between the creation of a drain and its first
  step, the drain finds itself in `_released_drain_tasks` and waits for itself; its idle timeout,
  said to bound it, is never reached.
* `BC_stale`: a drain stops at an `ErrorEvent`, and the `TurnCompleteEvent` that a failed turn puts
  after it settles the next request with an empty answer.

Some properties carry a condition because the code does not give more.  Each condition is a hazard
of `PROJECT.json`:

| Property | Says nothing of |
|---|---|
| `SingleReader`, `OwnTerminal` | what follows once a request with a reasoning mode has checked the lock: two such requests can both pass the check before either takes it; `OwnTerminal` also ends at the first abort, eviction, timeout or failed turn |
| `DrainsEnd`, `SomeDrainGoes` | runs in which some drain waits for itself (`BC_selfwait`); `SomeDrainGoes` also what follows once a request with a reasoning mode has checked the lock |
| `DoneIsSettled` (exactly one terminal) | a drain evicted while it waits for its predecessor (`bridge/loop.py:1215` is outside the try) |
| `EntriesAreLive` | a resumed turn's own entry, left by an abort during the lookup of its snapshot (`task_runner.py:782`) |
| `LedgerAgrees` | swept approvals: the sweep records "abort", then the waiting call records "deny" |
| `NothingLeaks` | requests cancelled in the queue or in `on_pending` |
| `GateHolds` | a plan turned down after which a card of the same response was confirmed; a plan sent back with a wish, once planning has started over |
| `ComplexWorkIsConfirmed` | a plan card lost to truncation, which the code takes for shown; the tools of plannings the user sent back, which no longer count towards complexity |
| `NothingIsForgotten` | calls skipped by the budget of the fast mode; the model's memory of plannings the user sent back, whose rounds are in the ledger only; the memory at an end that is neither an answer nor exhaustion; aborted turns |
| `NoPlaceLeaks` | a job that ended while its `spawn()` was suspended in a hook |
| `ToldIsStored` | agents that were killed, which are told of once but perhaps not what is stored |
| `DueJobsRun` | a scheduler that ended or has lost its timer to a failed save |
| `Listed` | sandboxes registered before `initialize()` was over; a crash inside a save, between the unlink and the rename (`manager.py:484`) |

## 5. What is proved

Every invariant and action property of the passing runs is also a theorem, for every value of the
constants, under the assumptions named in the modules: numbers are natural numbers, the caps of the
code are at least one, the set of concurrent calls is finite, schedulers are not editors.  Each
proofs module has the same plan: an inductive invariant (`InvariantHolds`), one lemma per action or
group of actions that it is preserved, and the properties from it.

* `SessionDispatchProofs`: `TypeCorrect`, `MessagesAreKept`, `TurnsEndOnce`, `NoEntryLeaks`, and
  `DispatchIsSerial`: the loop implements the safety part of `TurnStream` under the refinement
  mapping. They rest on `IInv`: `NothingDropped` is not inductive, because that a message is in one
  place depends on what the loop holds (`HeldInv`: the held submission was the last taken;
  `PendingInv`: what is pending is a message, in order, not begun) and on the tasks (`TaskInv`:
  which tasks exist, that only the active turn may be alive among messages, that what the loop is
  about to await was cancelled).  `EndsInv` adds that an end was announced by a finished task only,
  `EntryInv` that an entry belongs to a live one.
* `BridgeChatProofs`: `OneTerminalEach`, `EndedDrainsHaveSettled` (exactly one terminal message)
  from `SettleInv` (nothing is settled before its drain reads, and only a drain that has begun can
  be evicted);
  `SettledByOwnTurn` from `OwnInv`, which says as long as nothing went wrong whose events the queue
  holds; `OneReader` from `ChainInv`: there is a sequence of drains of which each waits for the one
  before it, beginning with the one that reads and ending with the lock, and the drains outside it
  are stuck.  The sequence is not a variable: the proof carries it in an existential and extends or
  shortens it in each step.
* `ToolApprovalProofs`: `AllowedOnly`, `AnswersDecide`, `NothingIsLeft` from `AInv`, and
  `RecordsAgree` from an invariant that ties events and ledger to it.  A future is pending only
  while its call waits; it says allow exactly when an answer that allows was confirmed, and a
  confirmed denial leaves it at deny; a call that expires never had an answer; and the maps mention
  a call only while it is between `Register` and `CleanUp`.  The second part is what makes the race
  of answer, timeout and abort come out right: whoever sets the future first decides, and every path
  to `running` reads it.
* `UserInputGateProofs`: `CardsTakeTurns`, `LeavesNothing`, `ChoicesStand`,
  `CancelledCardsStayHidden` from `GInv`: a slot is held exactly while one card of its turn is live,
  and a request that can no longer be answered is on its way out.
* `AgentTurnProofs`: `OnePlanConfirmation`, `RoundsAreRecorded`, `RejectedPlansBlock`,
  `ComplexWorkWaits` from `TInv`, which ties what the code remembers (`done`, `blocked`, `seen`) to
  what the user said (`rejected`, `nod`, `cut`) and, within a response, to the cards behind it.  Of
  the records it has two parts: `LedgerInv`, that what ran is completed in the ledger or kept in the
  batch at hand, over all plannings, and `MemoryInv`, that the memory is this planning's part of the
  ledger and that plannings to come have none.
* `AgentControlProofs`: `PlacesAreFreed`, `RowsAreTrue`, `ToldOnce`, and `CapIsRespected`, from
  `AInv`: an agent that takes a place has told nothing yet and its task is alive, a cancellation is
  pending only for an agent that was removed.
* `CronServiceProofs`: `OneShotsAreRunOnce` from `CInv`: a one-shot job that a scheduler's memory
  has as enabled waits for the time that is set, which it has not used up unless it is being run.
* `SandboxManagerProofs`: `CapIsNearlyKept`, `RegisteredIsListed`, and `OneCreation`, from `SInv`:
  `_creating` holds exactly the keys of the calls that create, each once.  The cap is counted with
  `FewKeys`: calls hold at most one key each, so keys in creation are no more than calls.

### The safety half of the liveness properties

The seven liveness properties are checked by TLC; the prover does not reach fairness and ENABLED.
What fairness has to work on is safety, though, and it is where the code could go wrong: a wait that
nothing ends, a wake-up that is lost, a step that undoes another.  For each property this half is
proved.  That somebody has a step to take is stated by its guards; that a step that may be taken is
taken is what the fairness of section 3 adds, and that it leads to the end, that the orders named
here have no infinite ascent under the caps, is left to the reader.  The definitions are at the end
of the modules, under "Why ...".

| Liveness | Somebody can go on | and does not go back |
|---|---|---|
| `EveryTurnEnds` | `SessionIsNeverStuck`, from `CancellationsAreAwaited` | `TurnsEndOnce`, `DispatchIsSerial` |
| `DrainsEnd` | `DrainsAreNotDeadlocked`, from `LockIsYoungest` | |
| `EveryCallEnds` | `WaitsCanEnd` | `CallsMoveOn`, `FutureIsSettledOnce` |
| `NobodyStarves` | `NoWakeUpIsLost`, `SlotsKeepTheirEntry` | `RoundsUseUpRequests` |
| `EveryAgentReports` | `NobodyEndsInSilence` | `WorkTakesTwoSteps` |
| `TurnEnds` | `TurnIsNeverStuck` | `TurnNeverGoesBack` |
| `DueJobsRun` | `NoTimerIsLost` | `DueJobsStay` |

* `SessionIsNeverStuck`: the loop waits only for tasks.  `CancelledOnce` says that a task whose
  cancellation is under way is one that the loop awaits at this moment, and that none is cancelled
  again while it records its abort: there the second cancellation would leave it without an end.
* `DrainsAreNotDeadlocked`: the drains outside the chain of `ChainInv` are stuck, and `Cause` tells
  why there are any: a drain was released before its first step, and this step is still to come, or
  a drain waits for itself.  First steps are taken in the order of creation, and the drain that has
  the lock was created last (`ReadyInv`), so that none is waiting for one that comes after it.
  Either the head of the chain can go on, or a first step is due, or there is the cycle of length
  one that `BC_selfwait` shows.  There is no longer cycle.
* `FutureIsSettledOnce`: answer, timeout, cancellation and sweep each look at the future before they
  set it; whoever is second changes neither the result nor the answer that was reported.
* `NoWakeUpIsLost`: a sleeper's slot is held and its turn not cancelled (`SleepInv`), hence somebody
  has a card (`HeldInv`), and every way from a card leads through `release()`, which wakes all.  A
  woken request that finds the slot taken goes back to sleep, but each such round needs a request
  that ends, and there are no more rounds than requests.
* `TurnNeverGoesBack`: the order is lexicographic, of plannings, rounds, parts of a round and
  confirmations of the batch.  Steers add to a queue and move nothing.
* `NobodyEndsInSilence`: an agent is taken from the list by a kill only, which reports it in the
  same step; and since the cancellation of a kill is the only one, the task of an agent that is
  still listed ends by itself, and its agent is then in a state in which the end is reported.
* `NoTimerIsLost`: a scheduler that rests has no job to wake up for (`ArmInv`): its memory changes
  only in its own ticks, at whose end the timer is set even for a time that has passed.

## 6. What is not modelled

Left out of the modelled parts on purpose: what a turn computes, texts and formats, time as a
number, the bounds of the event queue (4096) and of the message bus, start and stop of a session. In
detail:

* `SessionDispatch`: steering, approval, configuration and compaction submissions, which the loop
  handles in place or queues like messages.
* `BridgeChat`: progress events, billing, heartbeats, the handlers beside chat.send and chat.abort.
* `ToolApproval`: hooks, the retry loop of the sandbox, redaction.  `UserInputGate`: the remembered
  choices; note that a second answer with `remember` stores a choice although the first stands
  (`user_input_gate.py:284`).
* `AgentTurn`: the snapshot buffer (the snapshot is deleted before the delta it protects is
  persisted), `todo_write` and the automatic timeline, reasoning, the families of
  `request_action_confirmation`, pruning by `trim_for_model`, and the branch of `execute_many` for a
  pending adjustment (`tool_runtime.py:148-173`), which `CollaborativeTurnRunner` never reaches.
* `AgentControl`: the path without `AgentJobRuntime`, fork and parent edges, which no caller uses.
* `CronService`: names, delivery and status texts, cron expressions, the agent's cron tool, to which
  no caller passes a service.
* `SandboxManager`: `sandbox.setEnabled`, which replaces the manager; SIGTERM, whose handler calls
  `run_until_complete` inside the running loop and so clears the file before anything is destroyed;
  the watchdog of the parent process, which clears the file and removes nothing; failing saves, and
  that a save unlinks the file before it renames the new one.

Components without a module, in the order in which they would be worth one: turn reservation as a
second client of `SessionDispatch`; the session registry with its concurrent creation, stop and TTL
eviction; the session store with its compaction; retry and circuit breaker of the providers.  The
bulk of the repository by lines is not of this kind: tools over files, shells, documents and
downloads, command-line guards, prompt building, configuration and the user interface are sequential
code over strings and files, where a test says more than a model.
