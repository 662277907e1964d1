----------------------------- MODULE BridgeChat -----------------------------
(***************************************************************************)
(* chat.send and chat.abort of the desktop bridge (miqi/bridge/loop.py,    *)
(* _chat_abort of miqi/runtime/app_server.py) for one session: the turn    *)
(* lock, the drain task of each request, which reads the events of the     *)
(* RuntimeSession and sends the request's terminal message, and the lock   *)
(* release on abort.  Each line of stdin is handled by a task of its own.  *)
(*                                                                         *)
(* The RuntimeSession appears as SessionDispatch shows it: it takes        *)
(* submissions in order, runs one turn at a time, and puts events on one   *)
(* queue that every drain of the session reads.                            *)
(***************************************************************************)
EXTENDS Naturals, Sequences, FiniteSets

CONSTANTS Requests,    \* chat.send requests
          Outcomes,    \* how turns end by themselves: "ok", "error"
          MaxAborts,   \* bound on the chat.abort requests
          Slow,        \* turns may be silent for longer than the timeouts
          Modal        \* the requests that carry a reasoning mode to persist

None == "none"
Abort == "abort"

ASSUME BridgeAssumption ==
  /\ Outcomes \subseteq {"ok", "error"}
  /\ None \notin Requests /\ Abort \notin Requests
  /\ MaxAborts \in Nat /\ Slow \in BOOLEAN /\ Modal \subseteq Requests

VARIABLES
  phase,      \* where each request and its drain task are
  lock,       \* _session_drain_tasks[session]
  released,   \* _released_drain_tasks[session]
  pred,       \* the drain that a waiting drain waits for
  cancelled,  \* drains on which cancel() was called
  quiet,      \* the locking drain had no activity for STALE_TURN_TIMEOUT
  terminal,   \* terminal messages sent for each request
  aborts,     \* chat.abort requests handled
  ready,      \* drains created that have not taken their first step, in order
  inbox,      \* submissions the runtime has not taken
  backlog,    \* messages it queued during a turn
  turn,       \* the request whose turn runs
  aborting,   \* that turn was cancelled
  events      \* the event queue of the session

bridgeVars == <<phase, lock, released, pred, cancelled, quiet, terminal, aborts, ready>>
runtimeVars == <<inbox, backlog, turn, aborting, events>>
vars == <<bridgeVars, runtimeVars>>

Phases == {"unsent", "rejected", "checked", "new", "waiting", "draining", "done"}
EventKinds == {"message", "complete", "error", "aborted"}
Event == [kind : EventKinds, turn : Requests \cup {None}]
Terminal == [kind : {"final", "error", "aborted"}, turn : Requests \cup {None}]

(* The drain task of r exists and is not done. *)
Live(r) == phase[r] \in {"new", "waiting", "draining"}

Init ==
  /\ phase = [r \in Requests |-> "unsent"]
  /\ lock = None /\ released = None
  /\ pred = [r \in Requests |-> None]
  /\ cancelled = {} /\ quiet = FALSE
  /\ terminal = [r \in Requests |-> <<>>]
  /\ aborts = 0 /\ ready = <<>>
  /\ inbox = <<>> /\ backlog = <<>> /\ turn = None /\ aborting = FALSE
  /\ events = <<>>

-----------------------------------------------------------------------------
(* chat.send *)

(* The session is free, or its drain has shown no activity for too long. *)
Free == lock = None \/ quiet

(* A drain that lost the lock to the stale-turn guard is cancelled. *)
EvictStale == cancelled' = cancelled \cup ({lock} \ {None})

(* The rest of the handler: submit the message, create the drain, lock. *)
Launch(r) ==
  /\ inbox' = Append(inbox, r)
  /\ phase' = [phase EXCEPT ![r] = "new"]
  /\ lock' = r /\ quiet' = FALSE
  /\ ready' = Append(ready, r)

(* TURN_IN_PROGRESS; what fails earlier in the handler (parameters, the    *)
(* provider, the attachments) leaves no trace here and is left out.        *)
Reject(r) ==
  /\ phase[r] = "unsent" /\ ~Free
  /\ phase' = [phase EXCEPT ![r] = "rejected"]
  /\ UNCHANGED <<lock, released, pred, cancelled, quiet, terminal, aborts, ready, runtimeVars>>

Send(r) ==
  /\ r \notin Modal
  /\ phase[r] = "unsent" /\ Free
  /\ EvictStale
  /\ Launch(r)
  /\ UNCHANGED <<released, pred, terminal, aborts, backlog, turn, aborting, events>>

(* With a reasoning mode the handler awaits up to three database calls     *)
(* between the check of the lock and the submission.                       *)
Check(r) ==
  /\ r \in Modal
  /\ phase[r] = "unsent" /\ Free
  /\ EvictStale
  /\ lock' = None /\ quiet' = FALSE
  /\ phase' = [phase EXCEPT ![r] = "checked"]
  /\ UNCHANGED <<released, pred, terminal, aborts, ready, runtimeVars>>

SendChecked(r) ==
  /\ phase[r] = "checked"
  /\ Launch(r)
  /\ UNCHANGED <<released, pred, cancelled, terminal, aborts, backlog, turn, aborting, events>>

-----------------------------------------------------------------------------
(* release_turn_lock: the locking drain, if any, becomes the released one  *)
(* and goes on in the background.                                          *)
ReleaseTurnLock ==
  /\ lock' = None /\ quiet' = FALSE
  /\ released' = IF lock = None THEN released ELSE lock

(* chat.abort: submit AbortTurn whether or not a turn runs, then release   *)
(* the lock.                                                               *)
ChatAbort ==
  /\ aborts < MaxAborts
  /\ \E r \in Requests : phase[r] # "unsent"    \* the session exists
  /\ aborts' = aborts + 1
  /\ inbox' = Append(inbox, Abort)
  /\ ReleaseTurnLock
  /\ UNCHANGED <<phase, pred, cancelled, terminal, ready, backlog, turn, aborting, events>>

-----------------------------------------------------------------------------
(* The drain task *)

Goto(r, p) == phase' = [phase EXCEPT ![r] = p]

(* The done callbacks clear what still refers to the drain. *)
Finish(r) ==
  /\ Goto(r, "done")
  /\ lock' = IF lock = r THEN None ELSE lock
  /\ quiet' = (quiet /\ lock # r)
  /\ released' = IF released = r THEN None ELSE released

(* Mutant: the drain ends without a terminal message. *)
SettleNothing(r, k, t) == UNCHANGED terminal

(* _emit_terminal sends nothing for a request that had its terminal. *)
Settle(r, k, t) ==
  terminal' = [terminal EXCEPT
                 ![r] = IF @ = <<>> THEN <<[kind |-> k, turn |-> t]>> ELSE @]

(* The loop runs the first steps in the order in which it got the tasks.   *)
Begins(r) == phase[r] = "new" /\ ready # <<>> /\ r = Head(ready) /\ ready' = Tail(ready)

(* Mutant: the released predecessor is not awaited. *)
FirstStepAtOnce(r) ==
  /\ Begins(r) /\ r \notin cancelled
  /\ Goto(r, "draining") /\ UNCHANGED pred
  /\ UNCHANGED <<lock, released, cancelled, quiet, terminal, aborts, runtimeVars>>

(* Mutant: the drain waits for the one that has the lock, if it is another. *)
FirstStepAsksLock(r) ==
  /\ Begins(r) /\ r \notin cancelled
  /\ LET p == IF lock \in {None, r} THEN released ELSE lock
     IN  IF p = None
         THEN Goto(r, "draining") /\ UNCHANGED pred
         ELSE Goto(r, "waiting") /\ pred' = [pred EXCEPT ![r] = p]
  /\ UNCHANGED <<lock, released, cancelled, quiet, terminal, aborts, runtimeVars>>

(* The first step looks up the drain released last, if it still runs. *)
FirstStep(r) ==
  /\ Begins(r) /\ r \notin cancelled
  /\ IF released = None
     THEN Goto(r, "draining") /\ UNCHANGED pred
     ELSE Goto(r, "waiting") /\ pred' = [pred EXCEPT ![r] = released]
  /\ UNCHANGED <<lock, released, cancelled, quiet, terminal, aborts, runtimeVars>>

PredecessorDone(r) ==
  /\ phase[r] = "waiting" /\ r \notin cancelled
  /\ phase[pred[r]] = "done"
  /\ Goto(r, "draining")
  /\ UNCHANGED <<lock, released, pred, cancelled, quiet, terminal, aborts, ready, runtimeVars>>

(* The predecessor is awaited before the try: no handler, no terminal. *)
CancelledEarly(r) ==
  /\ Begins(r) \/ (phase[r] = "waiting" /\ UNCHANGED ready)
  /\ r \in cancelled
  /\ Finish(r)
  /\ UNCHANGED <<pred, cancelled, terminal, aborts, runtimeVars>>

CancelledDraining(r) ==
  /\ phase[r] = "draining" /\ r \in cancelled
  /\ Settle(r, "aborted", r)
  /\ Finish(r)
  /\ UNCHANGED <<pred, cancelled, aborts, ready, runtimeVars>>

(* Mutant: the drain stops at the message and leaves the TurnComplete. *)
TakeMessageAndStop(r) ==
  /\ phase[r] = "draining" /\ r \notin cancelled
  /\ events # <<>> /\ Head(events).kind = "message"
  /\ events' = Tail(events)
  /\ Settle(r, "final", Head(events).turn)
  /\ Finish(r)
  /\ UNCHANGED <<pred, cancelled, aborts, ready, inbox, backlog, turn, aborting>>

(* AgentMessageEvent: the answer; the drain goes on to the TurnComplete. *)
TakeMessage(r) ==
  /\ phase[r] = "draining" /\ r \notin cancelled
  /\ events # <<>> /\ Head(events).kind = "message"
  /\ events' = Tail(events)
  /\ Settle(r, "final", Head(events).turn)
  /\ UNCHANGED <<phase, lock, released, pred, cancelled, quiet, aborts, ready, inbox, backlog, turn, aborting>>

(* Mutant: the kind of the event is the kind of the terminal message. *)
TakeEndRaw(r) ==
  /\ phase[r] = "draining" /\ r \notin cancelled
  /\ events # <<>> /\ Head(events).kind # "message"
  /\ events' = Tail(events)
  /\ Settle(r, Head(events).kind, Head(events).turn)
  /\ Finish(r)
  /\ UNCHANGED <<pred, cancelled, aborts, ready, inbox, backlog, turn, aborting>>

(* The events that end the drain; a TurnComplete is an empty answer if no  *)
(* answer was sent, and every ErrorEvent ends it, a warning too.           *)
TakeEnd(r) ==
  /\ phase[r] = "draining" /\ r \notin cancelled
  /\ events # <<>> /\ Head(events).kind # "message"
  /\ events' = Tail(events)
  /\ LET e == Head(events)
     IN  Settle(r, IF e.kind = "complete" THEN "final" ELSE e.kind, e.turn)
  /\ Finish(r)
  /\ UNCHANGED <<pred, cancelled, aborts, ready, inbox, backlog, turn, aborting>>

(* Mutant: the timeout is reported and the drain goes on. *)
IdleTimeoutContinues(r) ==
  /\ Slow
  /\ phase[r] = "draining" /\ r \notin cancelled
  /\ events = <<>>
  /\ Settle(r, "error", r)
  /\ UNCHANGED <<phase, lock, released, pred, cancelled, quiet, aborts, ready, runtimeVars>>

(* No event for CHAT_DRAIN_IDLE_TIMEOUT_SECONDS. *)
IdleTimeout(r) ==
  /\ Slow
  /\ phase[r] = "draining" /\ r \notin cancelled
  /\ events = <<>>
  /\ Settle(r, "error", r)
  /\ Finish(r)
  /\ UNCHANGED <<pred, cancelled, aborts, ready, runtimeVars>>

(* No activity for STALE_TURN_TIMEOUT (a drain takes its first step long   *)
(* before that); a progress event of any drain of the session renews the   *)
(* activity of the drain that has the lock, a terminal message does not.   *)
GoesQuiet ==
  /\ Slow
  /\ lock # None /\ phase[lock] \in {"waiting", "draining"}
  /\ quiet' = TRUE
  /\ UNCHANGED <<phase, lock, released, pred, cancelled, terminal, aborts, ready, runtimeVars>>

(* The turn makes progress and a drain forwards it.                        *)
Stirs ==
  /\ quiet /\ turn # None
  /\ \E r \in Requests : phase[r] = "draining" /\ r \notin cancelled
  /\ quiet' = FALSE
  /\ UNCHANGED <<phase, lock, released, pred, cancelled, terminal, aborts, ready, runtimeVars>>

Drain(r) ==
  \/ FirstStep(r) \/ PredecessorDone(r) \/ CancelledEarly(r) \/ CancelledDraining(r)
  \/ TakeMessage(r) \/ TakeEnd(r) \/ IdleTimeout(r)

-----------------------------------------------------------------------------
(* The runtime session *)

Put(es) == events' = events \o es
Ev(k, t) == [kind |-> k, turn |-> t]

StartTurn ==
  /\ turn = None
  /\ \/ /\ backlog # <<>>
        /\ turn' = Head(backlog) /\ backlog' = Tail(backlog) /\ UNCHANGED inbox
     \/ /\ backlog = <<>> /\ inbox # <<>> /\ Head(inbox) # Abort
        /\ turn' = Head(inbox) /\ inbox' = Tail(inbox) /\ UNCHANGED backlog
  /\ UNCHANGED <<aborting, events, bridgeVars>>

(* An AbortTurn that finds no turn leaves a warning ErrorEvent behind. *)
AbortIdle ==
  /\ turn = None /\ backlog = <<>> /\ inbox # <<>> /\ Head(inbox) = Abort
  /\ inbox' = Tail(inbox)
  /\ Put(<<Ev("error", None)>>)
  /\ UNCHANGED <<backlog, turn, aborting, bridgeVars>>

DuringTurn ==
  /\ turn # None /\ ~aborting /\ inbox # <<>>
  /\ inbox' = Tail(inbox)
  /\ IF Head(inbox) = Abort
     THEN aborting' = TRUE /\ UNCHANGED backlog
     ELSE backlog' = Append(backlog, Head(inbox)) /\ UNCHANGED aborting
  /\ UNCHANGED <<turn, events, bridgeVars>>

TurnOver == turn' = None /\ aborting' = FALSE /\ UNCHANGED <<inbox, backlog, bridgeVars>>

(* Also the end of a cancelled turn whose tool call took the cancellation. *)
TurnSucceeds ==
  /\ turn # None /\ "ok" \in Outcomes
  /\ Put(<<Ev("message", turn), Ev("complete", turn)>>)
  /\ TurnOver

TurnFails ==
  /\ turn # None /\ "error" \in Outcomes
  /\ Put(<<Ev("error", turn), Ev("complete", turn)>>)
  /\ TurnOver

TurnAborted ==
  /\ turn # None /\ aborting
  /\ Put(<<Ev("aborted", turn)>>)
  /\ TurnOver

(* The cancellation hit the error handler of the turn. *)
TurnVanishes ==
  /\ turn # None /\ aborting /\ "error" \in Outcomes
  /\ UNCHANGED events
  /\ TurnOver

Runtime ==
  \/ StartTurn \/ AbortIdle \/ DuringTurn
  \/ TurnSucceeds \/ TurnFails \/ TurnAborted \/ TurnVanishes

-----------------------------------------------------------------------------
Client(r) == Reject(r) \/ Send(r) \/ Check(r)

Next ==
  \/ \E r \in Requests : Client(r) \/ SendChecked(r) \/ Drain(r)
  \/ ChatAbort \/ GoesQuiet \/ Stirs
  \/ Runtime

Spec == Init /\ [][Next]_vars

(* Drains are tasks of the loop and next_event has a timeout.  The runtime *)
(* need not finish a turn: a blocked tool call may hold it for ever.       *)
FairSpec == Spec /\ \A r \in Requests : WF_vars(SendChecked(r)) /\ WF_vars(Drain(r))

-----------------------------------------------------------------------------
TypeOK ==
  /\ phase \in [Requests -> Phases] /\ ready \in Seq(Requests)
  /\ lock \in Requests \cup {None} /\ released \in Requests \cup {None}
  /\ pred \in [Requests -> Requests \cup {None}]
  /\ cancelled \subseteq Requests /\ quiet \in BOOLEAN
  /\ terminal \in [Requests -> Seq(Terminal)]
  /\ aborts \in 0..MaxAborts
  /\ inbox \in Seq(Requests \cup {Abort}) /\ backlog \in Seq(Requests)
  /\ turn \in Requests \cup {None} /\ aborting \in BOOLEAN
  /\ events \in Seq(Event)

(* A request is settled at most once (the _terminal_sent guard): the       *)
(* desktop resolves its pending call with the first terminal message.      *)
AtMostOneTerminal == \A r \in Requests : Len(terminal[r]) <= 1

(* No request that awaits between the check of the lock and taking it has  *)
(* got that far.                                                           *)
Plain == \A m \in Modal : phase[m] \in {"unsent", "rejected"}

(* Two drains that are not cancelled never read the event queue at the     *)
(* same time, however aborts release the lock and new requests take it     *)
(* (_await_released_predecessor): the second reader would steal events.    *)
(* It needs the lock to be checked and taken in one stretch.               *)
SingleReader ==
  Plain =>
    \A r, s \in Requests :
      (phase[r] = "draining" /\ phase[s] = "draining" /\ r # s)
        => r \in cancelled \/ s \in cancelled

Sent(r) == { terminal[r][k] : k \in DOMAIN terminal[r] }

(* As long as every request was answered, none aborted and no drain        *)
(* evicted, a request is settled by the events of its own turn: a drain    *)
(* goes on after the answer to consume the TurnCompleteEvent, "so the next *)
(* drain task starts with a clean queue" (loop.py:1375).                   *)
OwnTerminal ==
  (/\ Plain /\ aborts = 0 /\ cancelled = {}
   /\ \A r \in Requests : \A m \in Sent(r) : m.kind = "final")
    => \A r \in Requests : \A m \in Sent(r) : m.turn = r

(* When a drain ends its request has got one terminal message and no more, *)
(* whichever way the turn ended and whoever released the lock meanwhile    *)
(* (the except blocks of _drain_chat_events, _terminal_sent); the one      *)
(* exception is a drain evicted while it waits for its predecessor, which  *)
(* is outside the try.                                                     *)
DoneIsSettled ==
  \A r \in Requests :
    phase[r] = "done" => \/ Len(terminal[r]) = 1
                         \/ r \in cancelled /\ pred[r] # None

(* The drain can take a step by itself: it is the next to be started, what *)
(* it waits for is over, or it reads (next_event has a timeout).           *)
CanGo(r) ==
  \/ phase[r] = "new" /\ ready # <<>> /\ r = Head(ready)
  \/ phase[r] = "waiting" /\ (r \in cancelled \/ phase[pred[r]] = "done")
  \/ phase[r] = "draining"

SelfWait(r) == phase[r] = "waiting" /\ pred[r] = r

(* Drains wait for one another but never all of them, however many aborts  *)
(* and new requests come between the creation of a drain and its first     *)
(* step: as long as some live, one of them can go on, or one waits for     *)
(* itself (see EveryDrainEnds).  There is no other deadlock.  It needs the *)
(* lock to be checked and taken in one stretch.                            *)
SomeDrainGoes ==
  Plain /\ (\E r \in Requests : Live(r)) => \E r \in Requests : CanGo(r) \/ SelfWait(r)

(* Whatever the runtime does, a drain ends: by an event, by its timeout or *)
(* after its predecessor.  The one exception is a drain that waits for     *)
(* itself (see EveryDrainEnds).                                            *)
DrainsEnd ==
  <>[](\A r \in Requests : ~Live(r)) \/ <>(\E s \in Requests : pred[s] = s)

-----------------------------------------------------------------------------
(* The inductive invariants behind the safety properties *)

(* Only a drain that has begun can be found stale, only such a drain is    *)
(* cancelled, and nothing is settled before it reads.                      *)
SettleInv ==
  /\ quiet => lock # None /\ phase[lock] \in {"waiting", "draining"}
  /\ \A r \in Requests :
       /\ phase[r] \in {"unsent", "rejected", "checked", "new"} => r \notin cancelled
       /\ phase[r] = "waiting" => pred[r] # None
       /\ phase[r] \in Phases \ {"draining", "done"} => terminal[r] = <<>>
       /\ phase[r] = "done" => terminal[r] # <<>> \/ (r \in cancelled /\ pred[r] # None)
  /\ AtMostOneTerminal

Clean ==
  /\ Plain /\ aborts = 0 /\ cancelled = {}
  /\ \A r \in Requests : \A m \in Sent(r) : m.kind = "final"

(* Where the one request is that has the lock while nothing went wrong.    *)
InFlight(r) ==
  \/ inbox = <<r>> /\ turn = None /\ events = <<>> /\ terminal[r] = <<>>
  \/ inbox = <<>> /\ turn = r /\ events = <<>> /\ terminal[r] = <<>>
  \/ /\ inbox = <<>> /\ turn = None /\ terminal[r] = <<>>
     /\ \E k \in {"message", "error"} : events = <<Ev(k, r), Ev("complete", r)>>
  \/ inbox = <<>> /\ turn = None /\ events = <<Ev("complete", r)>>

OwnInv ==
  Clean =>
    /\ released = None /\ ~aborting /\ backlog = <<>>
    /\ \A r \in Requests : \A m \in Sent(r) : m.turn = r
    /\ \A r \in Requests : phase[r] # "checked" /\ (Live(r) <=> r = lock)
    /\ IF lock = None
       THEN inbox = <<>> /\ turn = None /\ events = <<>>
       ELSE InFlight(lock)

(* The drains that are not cancelled, as the order in which they read: a   *)
(* queue c[lo..hi], whose head may read and whose every other member waits *)
(* for the one before it, and the drains that never read: those released   *)
(* before their first step, which wait for themselves or for one another,  *)
(* and whoever waits for them.                                             *)
Waiting == { r \in Requests : Live(r) /\ r \notin cancelled }

Queue(c, lo, hi, stuck) ==
  /\ lo <= hi + 1
  /\ \A i, j \in lo..hi : c[i] = c[j] => i = j
  /\ Waiting = { c[i] : i \in lo..hi } \cup stuck
  /\ \A i \in lo..hi : c[i] \notin stuck
  /\ \A i \in (lo + 1)..hi :
       \/ phase[c[i]] = "waiting" /\ pred[c[i]] = c[i - 1]
       \/ phase[c[i]] = "new" /\ i = hi /\ lock = c[i]
  /\ lo <= hi =>
       \/ phase[c[lo]] = "draining"
       \/ phase[c[lo]] = "waiting" /\ phase[pred[c[lo]]] = "done"
       \/ phase[c[lo]] = "new" /\ lo = hi /\ lock = c[lo]

Stuck(stuck) ==
  \A r \in stuck :
    \/ phase[r] = "new"
    \/ phase[r] = "waiting" /\ pred[r] \in stuck \ {lock}

(* They exist only because a drain was released before its first step: it  *)
(* is the one released last, or a drain waits for itself by now.           *)
Cause(stuck) ==
  stuck # {} => phase[released] = "new" \/ \E r \in stuck : SelfWait(r)

(* The lock is at the end of the queue, the drain released last before it. *)
Ends(c, lo, hi, stuck) ==
  IF stuck # {}
  THEN released \in stuck /\ lock \in stuck \cup {None}
  ELSE LET last == IF lock = None THEN hi ELSE hi - 1
       IN  /\ lock # None => lo <= hi /\ lock = c[hi]
           /\ released = IF lo <= last THEN c[last] ELSE None

(* Drains take their first steps in the order of their creation, and the   *)
(* one that has the lock was created last.                                 *)
ReadyInv ==
  /\ \A i, j \in DOMAIN ready : ready[i] = ready[j] => i = j
  /\ \A r \in Requests : phase[r] = "new" <=> \E i \in DOMAIN ready : ready[i] = r
  /\ lock # None /\ ready # <<>> => ready[Len(ready)] = lock

LockInv ==
  /\ lock \notin cancelled /\ released \notin cancelled
  /\ lock # None => lock # released

-----------------------------------------------------------------------------
(* What comments say and the code does not do *)

(* loop.py:759: a released drain is "Bounded: the drain's own 600s idle    *)
(* timeout terminates it".                                                 *)
EveryDrainEnds == \A r \in Requests : phase[r] = "new" ~> phase[r] = "done"

(* loop.py:91-92: "a stale terminal event can never be misread as the new  *)
(* request's terminal".                                                    *)
NoStaleTerminal == \A r \in Requests : \A m \in Sent(r) : m.turn = r
=============================================================================
