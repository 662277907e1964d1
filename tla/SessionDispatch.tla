--------------------------- MODULE SessionDispatch ---------------------------
(***************************************************************************)
(* The dispatch loop of a RuntimeSession (miqi/runtime/session.py, _run)   *)
(* together with the tasks it creates, which run TaskRunner.handle         *)
(* (miqi/runtime/task_runner.py).  All of it is one asyncio event loop: a  *)
(* coroutine runs until it awaits something that is not ready, so the unit *)
(* of interleaving is the stretch between two suspensions.                 *)
(*                                                                         *)
(* Submissions are numbered in the order they are put on _submissions;     *)
(* the number also stands for the turn id and for the task created for it. *)
(***************************************************************************)
EXTENDS Naturals, Sequences, SequencesExt

CONSTANTS Threads,     \* thread ids that submissions name
          Kinds,       \* kinds of submission clients make
          MaxSubs      \* bound on the number of submissions

AllKinds == {"message",   \* UserMessage
             "resume",    \* UserMessage carrying a resume_turn_id
             "shell",     \* RunUserShellCommand, standalone
             "inline",    \* RunUserShellCommand inside the active turn
             "abort"}     \* AbortTurn

ASSUME DispatchAssumption ==
  /\ Threads # {}
  /\ Kinds \subseteq AllKinds
  /\ MaxSubs \in Nat \ {0}

Ids == 1..MaxSubs
None == 0

VARIABLES
  sub,        \* everything ever submitted, in order; sub[i] is submission i
  taken,      \* how many have left _submissions: the queue is sub from taken+1
  getting,    \* get_task exists and waits for a submission
  held,       \* the submission get_task returned and _run has not looked at
  pending,    \* _pending
  active,     \* _active_turn_task: the submission it runs, or None
  aux,        \* _pending_aux_tasks
  pc,         \* where _run is
  todo,       \* the rest of the `done` set of asyncio.wait; None is get_task
  ph,         \* how far each task is
  cancel,     \* task.cancel() was called and not yet delivered
  activeIds,  \* TaskRunner._active_turn_ids
  ends        \* terminal events (TurnComplete, TurnAborted) put per turn id

queueVars == <<sub, taken, getting, held, pending>>
loopVars  == <<active, aux, pc, todo>>
taskVars  == <<ph, cancel, activeIds, ends>>
vars      == <<queueVars, loopVars, taskVars>>

Submission == [kind : Kinds, thread : Threads]

(***************************************************************************)
(* Phases of a task:                                                       *)
(*   none     no task was created                                          *)
(*   new      create_task was called, the coroutine has not run            *)
(*   prelude  registered, waiting for the resume snapshot, before the try  *)
(*   begin    a standalone shell command recording turn_started            *)
(*   work     inside the try: the turn (or the shell command) runs         *)
(*   commit   its result is being persisted                                *)
(*   fail     the handler of an exception is persisting the error          *)
(*   unwind   the handler of CancelledError is persisting the abort        *)
(*   done     finished                                                     *)
(*   unborn   cancelled before its first step: the coroutine never ran     *)
(***************************************************************************)
Phases == {"none", "new", "prelude", "begin", "work", "commit", "fail",
           "unwind", "done", "unborn"}

Over == {"done", "unborn"}

Kind(i)      == sub[i].kind
IsMessage(i) == Kind(i) \in {"message", "resume"}
IsShell(i)   == Kind(i) \in {"shell", "inline"}
IsAbort(i)   == Kind(i) = "abort"
Finished(i)  == ph[i] \in Over
Live(i)      == ph[i] \notin Over \cup {"none"}
Begun(i)     == ph[i] # "none"

Init ==
  /\ sub = <<>> /\ taken = 0 /\ getting = FALSE /\ held = None
  /\ pending = <<>> /\ active = None /\ aux = {}
  /\ pc = "idle" /\ todo = {}
  /\ ph = [i \in Ids |-> "none"]
  /\ cancel = [i \in Ids |-> FALSE]
  /\ activeIds = [t \in Threads |-> None]
  /\ ends = [i \in Ids |-> 0]

(* _run is not between two suspensions, so other coroutines may run. *)
Suspended == pc # "batch"

(* A created task takes its first step before anything scheduled later. *)
NoUnstartedTask == \A i \in Ids : ph[i] # "new"

-----------------------------------------------------------------------------
(* Clients *)

Unfinished(t, kinds) ==
  \E i \in 1..Len(sub) : sub[i].thread = t /\ Kind(i) \in kinds /\ ~Finished(i)

(* thread/shellCommand submits an inline command if the thread has an      *)
(* active or reserved turn.  Otherwise it reserves the thread and submits  *)
(* a standalone one; chat.send reserves nothing, so a queued message does  *)
(* not show.  Messages and aborts are submitted at any time.               *)
MaySubmit(s) ==
  /\ s.kind = "inline" =>
       activeIds[s.thread] # None \/ Unfinished(s.thread, {"message", "resume", "shell"})
  /\ s.kind = "shell" =>
       activeIds[s.thread] = None /\ ~Unfinished(s.thread, {"shell"})

Submit(s) ==
  /\ Suspended
  /\ Len(sub) < MaxSubs
  /\ MaySubmit(s)
  /\ sub' = Append(sub, s)
  /\ UNCHANGED <<taken, getting, held, pending, loopVars, taskVars>>

-----------------------------------------------------------------------------
(* The dispatch loop *)

CreateTurnTask(i) ==
  /\ active' = i
  /\ ph' = [ph EXCEPT ![i] = "new"]
  /\ pc' = "wait"
  /\ getting' = TRUE

(* An idle loop pops _pending before _submissions.  An AbortTurn (only in  *)
(* _submissions: it is never put on _pending) is handled at once: there is *)
(* no turn to cancel and one warning ErrorEvent is all it leaves.          *)
DequeuePending ==
  /\ pc = "idle"
  /\ pending # <<>>
  /\ CreateTurnTask(Head(pending))
  /\ pending' = Tail(pending)
  /\ UNCHANGED <<sub, taken, held, aux, todo, cancel, activeIds, ends>>

DequeueSubmission ==
  /\ pc = "idle"
  /\ pending = <<>>
  /\ taken < Len(sub)
  /\ taken' = taken + 1
  /\ IF IsAbort(taken + 1)
     THEN UNCHANGED <<active, ph, pc, getting>>
     ELSE CreateTurnTask(taken + 1)
  /\ UNCHANGED <<sub, held, pending, aux, todo, cancel, activeIds, ends>>

(* Mutant: the waiter does not wait for a submission. *)
GetTaskTooEarly ==
  /\ Suspended /\ NoUnstartedTask
  /\ getting
  /\ taken' = taken + 1
  /\ held' = taken + 1
  /\ getting' = FALSE
  /\ UNCHANGED <<sub, pending, loopVars, taskVars>>

(* get_task's step: it takes the oldest submission. *)
GetTask ==
  /\ Suspended /\ NoUnstartedTask
  /\ getting
  /\ taken < Len(sub)
  /\ taken' = taken + 1
  /\ held' = taken + 1
  /\ getting' = FALSE
  /\ UNCHANGED <<sub, pending, loopVars, taskVars>>

(* asyncio.wait returns every waitable that is done by then. *)
Completed == { i \in aux \cup {active} : Finished(i) }
             \cup { i \in {None} : held # None }

Wake ==
  /\ pc = "wait" /\ NoUnstartedTask
  /\ Completed # {}
  /\ todo' = Completed
  /\ pc' = "batch"
  /\ UNCHANGED <<queueVars, active, aux, taskVars>>

(* task.cancel() on every task of S that is not done. *)
Cancel(S) ==
  cancel' = [i \in Ids |-> cancel[i] \/ (i \in S /\ Live(i))]

(* Mutant: the slot of a finished turn is not freed. *)
TurnOverKeepsSlot ==
  /\ pc = "batch" /\ active # None /\ active \in todo
  /\ todo' = todo \ {active}
  /\ getting' = FALSE
  /\ Cancel(aux)
  /\ pc' = IF aux = {} THEN "batch" ELSE "reap"
  /\ UNCHANGED <<sub, taken, held, pending, active, aux, ph, activeIds, ends>>

(* The active turn is over: the slot is freed, the waiter cancelled, and   *)
(* every auxiliary task is cancelled and awaited, whatever its thread.     *)
TurnOver ==
  /\ pc = "batch" /\ active # None /\ active \in todo
  /\ active' = None
  /\ todo' = todo \ {active}
  /\ getting' = FALSE
  /\ Cancel(aux)
  /\ pc' = IF aux = {} THEN "batch" ELSE "reap"
  /\ UNCHANGED <<sub, taken, held, pending, aux, ph, activeIds, ends>>

ReapAux ==
  /\ pc = "reap"
  /\ \A i \in aux : Finished(i)
  /\ aux' = {}
  /\ pc' = "batch"
  /\ UNCHANGED <<queueVars, active, todo, taskVars>>

(* Mutant: what arrives during a turn is taken from the queue and let go. *)
QueueMessageDropped ==
  /\ pc = "batch" /\ None \in todo
  /\ IsMessage(held)
  /\ todo' = todo \ {None} /\ held' = None
  /\ UNCHANGED <<sub, taken, getting, pending, active, aux, pc, taskVars>>

(* The submission get_task returned, by kind. *)
QueueMessage ==
  /\ pc = "batch" /\ None \in todo
  /\ IsMessage(held)
  /\ pending' = Append(pending, held)
  /\ todo' = todo \ {None} /\ held' = None
  /\ UNCHANGED <<sub, taken, getting, active, aux, pc, taskVars>>

SpawnAux ==
  /\ pc = "batch" /\ None \in todo
  /\ IsShell(held)
  /\ aux' = aux \cup {held}
  /\ ph' = [ph EXCEPT ![held] = "new"]
  /\ todo' = todo \ {None} /\ held' = None
  /\ UNCHANGED <<sub, taken, getting, pending, active, pc, cancel, activeIds, ends>>

(* AbortTurn cancels the active task and every auxiliary task. *)
AbortActive ==
  /\ pc = "batch" /\ None \in todo
  /\ IsAbort(held) /\ active # None
  /\ Cancel(aux \cup {active})
  /\ pc' = "abort"
  /\ todo' = todo \ {None} /\ held' = None
  /\ UNCHANGED <<sub, taken, getting, pending, active, aux, ph, activeIds, ends>>

(* Mutant: the cancelled turn is not awaited (_await_cancelled_turn_task). *)
AbortOverAtOnce ==
  /\ pc = "abort"
  /\ \A i \in aux : Finished(i)
  /\ active' = None /\ aux' = {}
  /\ pc' = "batch"
  /\ UNCHANGED <<queueVars, todo, taskVars>>

(* ... and waits for all of them before it frees the slot. *)
AbortOver ==
  /\ pc = "abort"
  /\ \A i \in aux \cup {active} : Finished(i)
  /\ active' = None /\ aux' = {}
  /\ pc' = "batch"
  /\ UNCHANGED <<queueVars, todo, taskVars>>

(* The turn of this very batch was freed first: only the ErrorEvent. *)
AbortNothing ==
  /\ pc = "batch" /\ None \in todo
  /\ IsAbort(held) /\ active = None
  /\ todo' = todo \ {None} /\ held' = None
  /\ UNCHANGED <<sub, taken, getting, pending, active, aux, pc, taskVars>>

(* An auxiliary task is over, or a task freed earlier in this batch. *)
AuxOver(i) ==
  /\ pc = "batch" /\ i \in todo \ {None, active}
  /\ todo' = todo \ {i}
  /\ aux' = aux \ {i}
  /\ UNCHANGED <<queueVars, active, pc, taskVars>>

(* End of the `for d in done` loop: a get_task that is still waiting is    *)
(* cancelled, and the next iteration creates a new one if a turn runs.     *)
EndBatch ==
  /\ pc = "batch" /\ todo = {}
  /\ getting' = (active # None)
  /\ pc' = IF active = None THEN "idle" ELSE "wait"
  /\ UNCHANGED <<sub, taken, held, pending, active, aux, todo, taskVars>>

Loop ==
  \/ DequeuePending \/ DequeueSubmission \/ GetTask \/ Wake
  \/ TurnOver \/ ReapAux \/ QueueMessage \/ SpawnAux
  \/ AbortActive \/ AbortOver \/ AbortNothing \/ EndBatch
  \/ \E i \in Ids : AuxOver(i)

-----------------------------------------------------------------------------
(* The tasks: _handle_user_message and _handle_user_shell_command *)

InPhase(i, p) == Suspended /\ ph[i] = p

To(i, p) == ph' = [ph EXCEPT ![i] = p]

Delivered(i) == cancel[i] /\ cancel' = [cancel EXCEPT ![i] = FALSE]
Undisturbed(i) == ~cancel[i] /\ UNCHANGED cancel

Announce(i) == ends' = [ends EXCEPT ![i] = @ + 1]

(* The finally blocks: a message clears the entry of its thread if it      *)
(* still owns it, a standalone shell command clears it in any case, an     *)
(* inline one has none.                                                    *)
Release(i) ==
  activeIds' =
    [t \in Threads |->
       IF \/ IsMessage(i) /\ t = sub[i].thread /\ activeIds[t] = i
          \/ Kind(i) = "shell" /\ t = sub[i].thread
       THEN None ELSE activeIds[t]]

FirstStep(i) ==
  /\ InPhase(i, "new") /\ Undisturbed(i)
  /\ To(i, CASE Kind(i) = "resume" -> "prelude"
             [] Kind(i) = "shell"  -> "begin"
             [] OTHER              -> "work")
  /\ activeIds' = IF Kind(i) = "inline" THEN activeIds
                  ELSE [activeIds EXCEPT ![sub[i].thread] = i]
  /\ UNCHANGED <<queueVars, loopVars, ends>>

CancelledUnstarted(i) ==
  /\ InPhase(i, "new") /\ Delivered(i)
  /\ To(i, "unborn")
  /\ UNCHANGED <<queueVars, loopVars, activeIds, ends>>

PreludeDone(i) ==
  /\ \E p \in {"prelude", "begin"} : InPhase(i, p)
  /\ Undisturbed(i)
  /\ To(i, "work")
  /\ UNCHANGED <<queueVars, loopVars, activeIds, ends>>

(* The snapshot lookup guards against Exception only and comes before the  *)
(* try: its cancellation skips the handlers and the finally block.         *)
PreludeCancelled(i) ==
  /\ InPhase(i, "prelude") /\ Delivered(i)
  /\ To(i, "done")
  /\ UNCHANGED <<queueVars, loopVars, activeIds, ends>>

(* The turn's work returns (an inline command has nothing to persist) or raises. *)
WorkDone(i) ==
  /\ InPhase(i, "work") /\ Undisturbed(i)
  /\ IF Kind(i) = "inline" THEN To(i, "done") ELSE To(i, "commit")
  /\ UNCHANGED <<queueVars, loopVars, activeIds, ends>>

WorkFails(i) ==
  /\ InPhase(i, "work") /\ Undisturbed(i)
  /\ IF Kind(i) = "inline" THEN To(i, "done") ELSE To(i, "fail")
  /\ UNCHANGED <<queueVars, loopVars, activeIds, ends>>

(* A cancellation that reaches the turn outside a tool call, or inside     *)
(* tool calls run together, raises CancelledError ...                      *)
WorkCancelled(i) ==
  /\ InPhase(i, "work") /\ IsMessage(i) /\ Delivered(i)
  /\ To(i, "unwind")
  /\ UNCHANGED <<queueVars, loopVars, activeIds, ends>>

(* ... one that reaches a tool call awaited directly is turned into a      *)
(* CANCELLED result by ToolOrchestrator.execute: a turn in a confirmation  *)
(* card works on, a shell command reports its result.                      *)
CancelSwallowed(i) ==
  /\ InPhase(i, "work") /\ Delivered(i)
  /\ To(i, CASE IsMessage(i)       -> "work"
             [] Kind(i) = "shell"  -> "commit"
             [] Kind(i) = "inline" -> "done")
  /\ UNCHANGED <<queueVars, loopVars, activeIds, ends>>

(* Persisted: the end of the turn is announced and its entry released. *)
PersistDone(i) ==
  /\ \E p \in {"commit", "fail"} : InPhase(i, p)
  /\ Undisturbed(i)
  /\ Announce(i) /\ Release(i) /\ To(i, "done")
  /\ UNCHANGED <<queueVars, loopVars>>

(* Mutant: the result is announced before it is persisted. *)
PersistCancelledAnnounced(i) ==
  /\ \E p \in {"begin", "commit"} : InPhase(i, p)
  /\ Delivered(i)
  /\ Announce(i) /\ To(i, "unwind")
  /\ UNCHANGED <<queueVars, loopVars, activeIds>>

(* Cancelled while recording the start or the result: the handler of       *)
(* CancelledError runs.                                                    *)
PersistCancelled(i) ==
  /\ \E p \in {"begin", "commit"} : InPhase(i, p)
  /\ Delivered(i)
  /\ To(i, "unwind")
  /\ UNCHANGED <<queueVars, loopVars, activeIds, ends>>

(* Mutant: the entry is cleared in the handlers, not in the finally block. *)
FailCancelledLeaks(i) ==
  /\ InPhase(i, "fail") /\ Delivered(i)
  /\ To(i, "done")
  /\ UNCHANGED <<queueVars, loopVars, activeIds, ends>>

(* An exception handler is not covered by its sibling: a cancellation that *)
(* lands in it leaves through the finally block without any event.         *)
FailCancelled(i) ==
  /\ InPhase(i, "fail") /\ Delivered(i)
  /\ Release(i) /\ To(i, "done")
  /\ UNCHANGED <<queueVars, loopVars, ends>>

(* The abort is recorded; a message announces it, a shell command does not. *)
UnwindDone(i) ==
  /\ InPhase(i, "unwind") /\ Undisturbed(i)
  /\ IF IsMessage(i) THEN Announce(i) ELSE UNCHANGED ends
  /\ Release(i) /\ To(i, "done")
  /\ UNCHANGED <<queueVars, loopVars>>

Task(i) ==
  \/ FirstStep(i) \/ CancelledUnstarted(i)
  \/ PreludeDone(i) \/ PreludeCancelled(i)
  \/ WorkDone(i) \/ WorkFails(i) \/ WorkCancelled(i) \/ CancelSwallowed(i)
  \/ PersistDone(i) \/ PersistCancelled(i) \/ FailCancelled(i) \/ UnwindDone(i)

-----------------------------------------------------------------------------
Next ==
  \/ \E s \in Submission : Submit(s)
  \/ Loop
  \/ \E i \in Ids : Task(i)

Spec == Init /\ [][Next]_vars

(* The event loop serves every runnable coroutine, and the work of a turn  *)
(* ends: its iterations are capped and its tool calls, its approvals and   *)
(* its provider requests time out.  Clients need not submit anything.      *)
Fairness == WF_vars(Loop) /\ \A i \in Ids : WF_vars(Task(i))

FairSpec == Spec /\ Fairness

-----------------------------------------------------------------------------
(* Types *)

TypeOK ==
  /\ sub \in Seq(Submission) /\ Len(sub) \in 0..MaxSubs
  /\ taken \in 0..Len(sub)
  /\ getting \in BOOLEAN
  /\ held \in 0..taken
  /\ pending \in Seq(1..taken)
  /\ active \in 0..taken
  /\ aux \subseteq 1..taken
  /\ pc \in {"idle", "wait", "batch", "reap", "abort"}
  /\ todo \subseteq 0..taken
  /\ ph \in [Ids -> Phases]
  /\ cancel \in [Ids -> BOOLEAN]
  /\ activeIds \in [Threads -> 0..taken]
  /\ ends \in [Ids -> Nat]

-----------------------------------------------------------------------------
(* Properties *)

(* No silent drop: a user message that has left _submissions is a turn, is *)
(* waiting in _pending, or is in get_task's hands, in every interleaving   *)
(* of the loop with the tasks it cancels and awaits (_run's docstring:     *)
(* "FIFO, no silent drops").                                               *)
NothingDropped ==
  \A i \in 1..taken :
    IsMessage(i) => Begun(i) \/ i = held \/ i \in ToSet(pending)

(* A turn announces its end to the event queue at most once, however an    *)
(* abort races with the commit of its result or with its error handler:    *)
(* the drains stop at the first terminal event and leave a second one to   *)
(* the next request.                                                       *)
AtMostOneEnd == \A i \in Ids : ends[i] <= 1

(* A thread is reported active (and so refuses turn/start, which asks      *)
(* active_turn_id) only while the task of that turn is alive, because a    *)
(* leaked entry would lock the thread: no interleaving of aborts, errors   *)
(* and shell commands leaks one, except a resumed turn its own.            *)
EntriesAreLive ==
  \A t \in Threads :
    activeIds[t] # None => Live(activeIds[t]) \/ Kind(activeIds[t]) = "resume"

(* What became of each submitted message, as TurnStream sees it. *)
StageOf ==
  [i \in Ids |->
     IF i \notin 1..Len(sub) THEN "none"
     ELSE IF ~IsMessage(i) THEN "none"
     ELSE IF ph[i] = "none" THEN "waiting"
     ELSE IF Finished(i) THEN "ended" ELSE "running"]

(* What the runtime session promises of its messages. *)
Stream == INSTANCE TurnStream WITH st <- StageOf

(* Messages become turns in submission order and one at a time: the next   *)
(* turn starts only when the one before it, aborted or not, has finished   *)
(* its clean-up (_await_cancelled_turn_task).                              *)
TurnsAreSerial == Stream!Safe

(* ... and every message becomes a turn and every turn ends, aborts or not. *)
EveryTurnEnds == Stream!Spec

-----------------------------------------------------------------------------
(* The inductive invariant behind NothingDropped and TurnsAreSerial, in    *)
(* the parts the proofs cite.                                              *)

(* Where the submission that get_task returned can be. *)
HeldInv ==
  /\ getting => held = None /\ pc \in {"wait", "batch"}
  /\ held # None => pc = "wait" \/ None \in todo
  /\ None \in todo => held # None
  /\ pc \in {"idle", "wait"} => todo = {}

(* _pending holds unstarted messages in submission order, below held. *)
PendingInv ==
  /\ \A k \in DOMAIN pending : IsMessage(pending[k]) /\ ~Begun(pending[k])
  /\ \A k, l \in DOMAIN pending : k < l => pending[k] < pending[l]
  /\ held # None => /\ ~Begun(held)
                    /\ \A k \in DOMAIN pending : pending[k] < held

(* Which tasks exist: a live message task is the one in the slot, and what *)
(* asyncio.wait reported is finished.                                      *)
TaskInv ==
  /\ \A i \in Ids : Begun(i) => i <= taken /\ ~IsAbort(i)
  /\ \A i \in Ids : Live(i) => IsShell(i) \/ i = active
  /\ \A i \in todo \ {None} : Finished(i)
  /\ \A i \in aux : Begun(i)
  /\ active # None => Begun(active)
  /\ pc = "idle" => active = None
  /\ pc \in {"wait", "abort"} => active # None

(* All of it: no step of the loop or of a task, in any order, breaks it. *)
IInv == TypeOK /\ HeldInv /\ PendingInv /\ TaskInv /\ NothingDropped

(* A terminal event is the last thing a task does. *)
EndsInv == \A i \in Ids : ends[i] # 0 => ends[i] = 1 /\ ph[i] = "done"

(* The entry of a thread is a turn of that thread, and it runs, unless it  *)
(* is a resumed one (which PreludeCancelled can end without its release).  *)
EntryInv ==
  /\ \A t \in Threads : activeIds[t] # None =>
       /\ ph[activeIds[t]] \notin {"none", "new"}
       /\ Kind(activeIds[t]) \in {"message", "resume", "shell"}
       /\ Live(activeIds[t]) \/ Kind(activeIds[t]) = "resume"
       /\ sub[activeIds[t]].thread = t
  /\ \A i \in Ids : ph[i] = "prelude" => Kind(i) = "resume"

-----------------------------------------------------------------------------
(* Why every turn ends                                                     *)

(* Whom the loop cancels it awaits before it does anything else, and no    *)
(* task is cancelled again while it records that it was aborted: that      *)
(* second cancellation no handler would catch.                             *)
CancelledOnce ==
  \A i \in Ids :
    cancel[i] \/ ph[i] = "unwind" =>
      /\ (pc \in {"abort", "reap"} /\ i \in aux) \/ (pc = "abort" /\ i = active)
      /\ Live(i) /\ ~(cancel[i] /\ ph[i] = "unwind")

(* A task that lives goes on by itself, unless its abort handler were hit. *)
TaskCanGo(i) == Suspended /\ Live(i) /\ ~(cancel[i] /\ ph[i] = "unwind")

LoopCanGo ==
  \/ pc = "idle" /\ (pending # <<>> \/ taken < Len(sub))
  \/ pc = "wait" /\ NoUnstartedTask /\ Completed # {}
  \/ pc = "batch" /\ (None \in todo => held # None)
  \/ pc = "reap" /\ \A i \in aux : Finished(i)
  \/ pc = "abort" /\ \A i \in aux \cup {active} : Finished(i)

(* The session never hangs with a message to serve: the loop can go on, or *)
(* one of the tasks it waits for can, whatever was cancelled meanwhile.    *)
NeverStuck ==
  (\E i \in 1..Len(sub) : IsMessage(i) /\ ~Finished(i))
    => LoopCanGo \/ \E i \in Ids : TaskCanGo(i)

-----------------------------------------------------------------------------
(* What docs, comments and tests say and the code does not do *)

(* tests/runtime/test_runtime_session.py:294: "Non-AbortTurn submissions   *)
(* during an active turn MUST NOT be dropped."                             *)
ShellsAreRun == \A i \in Ids : ph[i] # "unborn"

(* session.py: awaiting the cancelled task is "to guarantee cleanup        *)
(* (history completion, ledger append, event emission)".                   *)
CleanupIsComplete ==
  \A i \in Ids : (ph[i] = "done" /\ IsMessage(i)) => ends[i] = 1
=============================================================================
