---------------------------- MODULE UserInputGate ----------------------------
(***************************************************************************)
(* The gate behind the confirmation cards                                  *)
(* (miqi/kun_runtime/user_input_gate.py): requests of one turn take the    *)
(* turn's slot one after the other, the holder's card is pending until it  *)
(* is answered, times out or is cancelled, and the slot passes on.         *)
(* Requests are coroutines of one event loop.  A request's task may be     *)
(* cancelled at any await; asyncio.wait_for is that of Python 3.11, which  *)
(* prefers an answer that is there to the cancellation.                    *)
(***************************************************************************)
EXTENDS Naturals, FiniteSets

CONSTANTS Requests, Turns, Choices

None == "none"

ASSUME GateAssumption == Turns # {} /\ Choices # {} /\ Choices \cap {None, "cancelled"} = {}

VARIABLES
  turn,        \* the turn of each request (fixed)
  phase,       \* where each request is
  result,      \* what request() returned
  resolution,  \* UserInputRequest._resolution
  pending,     \* keys of _pending
  entries,     \* keys of _turn_slots
  held,        \* _TurnSlot._held, by turn
  dead,        \* _TurnSlot._cancelled, by turn
  abandoned    \* requests whose task was cancelled in the queue or in on_pending

slotVars == <<entries, held, dead>>
vars == <<turn, phase, result, resolution, pending, slotVars, abandoned>>

(***************************************************************************)
(*   new         request() not called                                      *)
(*   queued      asleep in _free.wait()                                    *)
(*   woken       _free was set, the coroutine has not run                  *)
(*   announcing  pending, in on_pending()                                  *)
(*   waiting     pending, in req.wait()                                    *)
(***************************************************************************)
Phases == {"new", "queued", "woken", "announcing", "waiting", "over"}
Results == {"none", "submitted", "cancelled", "raised"}

(* The requests of t that use its slot, and those in acquire(). *)
Of(t) == { r \in Requests : turn[r] = t }
Waiters(t) == { r \in Of(t) : phase[r] \in {"queued", "woken"} }

Init ==
  /\ turn \in [Requests -> Turns]
  /\ phase = [r \in Requests |-> "new"]
  /\ result = [r \in Requests |-> "none"]
  /\ resolution = [r \in Requests |-> None]
  /\ pending = {} /\ entries = {} /\ abandoned = {}
  /\ held = [t \in Turns |-> FALSE] /\ dead = [t \in Turns |-> FALSE]

-----------------------------------------------------------------------------
(* The slot of a turn.  A dropped entry is a slot of its initial state.    *)

Idle(t, waiters, holding) == waiters = {} /\ ~holding

(* The entry is dropped if nobody uses the slot: the next request makes a new one. *)
DropIfIdle(t, waiters, holding) ==
  IF Idle(t, waiters, holding)
  THEN entries' = entries \ {t} /\ dead' = [dead EXCEPT ![t] = FALSE]
  ELSE UNCHANGED <<entries, dead>>

(* phase after r moved to p and, if `wake`, every sleeper of t was woken. *)
Move(r, p, wake) ==
  phase' = [q \in Requests |->
              IF q = r THEN p
              ELSE IF wake /\ turn[q] = turn[r] /\ phase[q] = "queued" THEN "woken"
              ELSE phase[q]]

Return(r, v) == result' = [result EXCEPT ![r] = v]

(* acquire() succeeds: the card becomes pending and is announced. *)
Take(r) ==
  /\ held' = [held EXCEPT ![turn[r]] = TRUE]
  /\ pending' = pending \cup {r}
  /\ Move(r, "announcing", FALSE)
  /\ UNCHANGED result

(* acquire() returns False: the request never had a card. *)
Refused(r) ==
  /\ Move(r, "over", FALSE) /\ Return(r, "cancelled")
  /\ UNCHANGED <<held, pending>>

Sleep(r) ==
  /\ Move(r, "queued", FALSE)
  /\ UNCHANGED <<held, pending, result>>

(* request(): a free slot is taken at once, ahead of requests that were    *)
(* woken but have not run.                                                 *)
Request(r) ==
  /\ phase[r] = "new"
  /\ IF dead[turn[r]]
     THEN /\ Refused(r)
          /\ DropIfIdle(turn[r], Waiters(turn[r]), held[turn[r]])
     ELSE /\ entries' = entries \cup {turn[r]} /\ UNCHANGED dead
          /\ IF held[turn[r]] THEN Sleep(r) ELSE Take(r)
  /\ UNCHANGED <<turn, resolution, abandoned>>

(* Mutant: a woken waiter takes the slot without looking again. *)
WakeTakes(r) ==
  /\ phase[r] = "woken"
  /\ ~dead[turn[r]]
  /\ Take(r)
  /\ UNCHANGED <<turn, resolution, entries, dead, abandoned>>

(* Mutant: a woken waiter does not look at _cancelled again. *)
WakeIgnoresCancel(r) ==
  /\ phase[r] = "woken"
  /\ IF held[turn[r]] THEN Sleep(r) ELSE Take(r)
  /\ UNCHANGED <<turn, resolution, entries, dead, abandoned>>

(* A woken waiter looks again: cancelled, free, or taken by another. *)
Wake(r) ==
  /\ phase[r] = "woken"
  /\ IF dead[turn[r]]
     THEN /\ Refused(r)
          /\ DropIfIdle(turn[r], Waiters(turn[r]) \ {r}, held[turn[r]])
     ELSE /\ IF held[turn[r]] THEN Sleep(r) ELSE Take(r)
          /\ UNCHANGED <<entries, dead>>
  /\ UNCHANGED <<turn, resolution, abandoned>>

Announced(r) ==
  /\ phase[r] = "announcing"
  /\ Move(r, "waiting", FALSE)
  /\ UNCHANGED <<turn, result, resolution, pending, slotVars, abandoned>>

(* Mutant: the slot is free but the sleepers are not woken. *)
ReleaseQuietly(r) ==
  /\ Move(r, "over", FALSE)
  /\ held' = [held EXCEPT ![turn[r]] = FALSE]
  /\ DropIfIdle(turn[r], Waiters(turn[r]), FALSE)

(* Mutant: the entry of the turn is kept. *)
ReleaseKeepsEntry(r) ==
  /\ Move(r, "over", TRUE)
  /\ held' = [held EXCEPT ![turn[r]] = FALSE]
  /\ UNCHANGED <<entries, dead>>

(* The outer finally block of request(): release() and the entry. *)
Release(r) ==
  /\ Move(r, "over", TRUE)
  /\ held' = [held EXCEPT ![turn[r]] = FALSE]
  /\ DropIfIdle(turn[r], Waiters(turn[r]), FALSE)

(* ... after the inner one, which encloses req.wait() only. *)
Leave(r) == pending' = pending \ {r} /\ Release(r)

(* Mutant: the choice itself is returned for the status. *)
AnsweredRaw(r) ==
  /\ phase[r] = "waiting" /\ resolution[r] # None
  /\ Return(r, resolution[r])
  /\ Leave(r)
  /\ UNCHANGED <<turn, resolution, abandoned>>

(* req.wait() returns the resolution. *)
Answered(r) ==
  /\ phase[r] = "waiting" /\ resolution[r] # None
  /\ Return(r, IF resolution[r] = "cancelled" THEN "cancelled" ELSE "submitted")
  /\ Leave(r)
  /\ UNCHANGED <<turn, resolution, abandoned>>

(* Mutant: the timeout overwrites a resolution that is there. *)
TimeoutOverwrites(r) ==
  /\ phase[r] = "waiting"
  /\ resolution' = [resolution EXCEPT ![r] = "cancelled"]
  /\ Return(r, "cancelled")
  /\ Leave(r)
  /\ UNCHANGED <<turn, abandoned>>

(* The timer expires: a choice submitted just before is kept. *)
Timeout(r) ==
  /\ phase[r] = "waiting"
  /\ resolution' = [resolution EXCEPT ![r] = IF @ = None THEN "cancelled" ELSE @]
  /\ Return(r, IF resolution[r] \in Choices THEN "submitted" ELSE "cancelled")
  /\ Leave(r)
  /\ UNCHANGED <<turn, abandoned>>

(* The task of the request is cancelled with its turn: in the queue it     *)
(* only stops being a waiter.                                              *)
CancelQueued(r) ==
  /\ phase[r] \in {"queued", "woken"}
  /\ Move(r, "over", FALSE) /\ Return(r, "raised")
  /\ abandoned' = abandoned \cup {r}
  /\ UNCHANGED <<turn, resolution, pending, slotVars>>

(* ... and in on_pending() its card stays in _pending. *)
CancelAnnouncing(r) ==
  /\ phase[r] = "announcing"
  /\ Return(r, "raised")
  /\ Release(r)
  /\ abandoned' = abandoned \cup {r}
  /\ UNCHANGED <<turn, resolution, pending>>

CancelWaiting(r) ==
  /\ phase[r] = "waiting"
  /\ Return(r, "raised")
  /\ Leave(r)
  /\ UNCHANGED <<turn, resolution, abandoned>>

-----------------------------------------------------------------------------
(* resolve(): the first resolution stands. *)
Resolve(r, c) ==
  /\ r \in pending
  /\ resolution' = [resolution EXCEPT ![r] = IF @ = None THEN c ELSE @]
  /\ UNCHANGED <<turn, phase, result, pending, slotVars, abandoned>>

(* cancel_all(): the pending card and every queued request of the turn. *)
CancelAll(t) ==
  /\ resolution' = [r \in Requests |->
                      IF r \in pending /\ turn[r] = t /\ resolution[r] = None
                      THEN "cancelled" ELSE resolution[r]]
  /\ pending' = pending \ Of(t)
  /\ IF t \in entries /\ ~Idle(t, Waiters(t), held[t])
     THEN dead' = [dead EXCEPT ![t] = TRUE] /\ UNCHANGED entries
     ELSE dead' = [dead EXCEPT ![t] = FALSE] /\ entries' = entries \ {t}
  /\ phase' = [r \in Requests |->
                 IF turn[r] = t /\ phase[r] = "queued" THEN "woken" ELSE phase[r]]
  /\ UNCHANGED <<turn, result, held, abandoned>>

-----------------------------------------------------------------------------
Step(r) == Wake(r) \/ Announced(r) \/ Answered(r) \/ Timeout(r)

Next ==
  \/ \E r \in Requests :
       \/ Request(r) \/ Step(r)
       \/ CancelQueued(r) \/ CancelAnnouncing(r) \/ CancelWaiting(r)
       \/ \E c \in Choices : Resolve(r, c)
  \/ \E t \in Turns : CancelAll(t)

Spec == Init /\ [][Next]_vars

(* Cards of the desktop carry a timeout; the loop runs what is runnable. *)
FairSpec == Spec /\ \A r \in Requests : WF_vars(Step(r))

-----------------------------------------------------------------------------
TypeOK ==
  /\ turn \in [Requests -> Turns]
  /\ phase \in [Requests -> Phases] /\ result \in [Requests -> Results]
  /\ resolution \in [Requests -> Choices \cup {None, "cancelled"}]
  /\ pending \subseteq Requests /\ abandoned \subseteq Requests
  /\ entries \subseteq Turns
  /\ held \in [Turns -> BOOLEAN] /\ dead \in [Turns -> BOOLEAN]

HasCard(r) == phase[r] \in {"announcing", "waiting"}

(* A turn shows at most one card, although every release wakes all the     *)
(* waiters and a new request may be faster than any of them ("exactly one  *)
(* interactive card at a time").                                           *)
OneCardPerTurn ==
  \A r, s \in Requests : HasCard(r) /\ HasCard(s) /\ turn[r] = turn[s] => r = s

(* A choice that was submitted stands and is returned (or the task of the *)
(* request is cancelled): no second answer, no timeout and no cancel_all   *)
(* that comes later replaces it.                                           *)
ChoiceIsKept ==
  [][\A r \in Requests :
       resolution[r] \in Choices =>
         resolution'[r] = resolution[r] /\ result'[r] # "cancelled"]_vars

(* A turn that nobody uses has no entry ("so long-lived gate instances     *)
(* don't accumulate one slot per finished turn") and a request that is     *)
(* over no pending card; the exceptions are the requests whose task was    *)
(* cancelled in the queue or while their card was being announced.         *)
NothingLeaks ==
  /\ \A t \in entries :
       \/ \E r \in Of(t) : phase[r] \notin {"new", "over"}
       \/ abandoned \cap Of(t) # {}
  /\ \A r \in pending : HasCard(r) \/ r \in abandoned

(* What is queued when a turn is cancelled never shows a card ("a turn     *)
(* abort never leaves a card to surface after termination").               *)
NoCardAfterCancel ==
  [][\A r \in Requests : (phase[r] \in {"queued", "woken"} /\ dead[turn[r]]) => ~HasCard(r)']_vars

(* A queued request gets its card or is cancelled: no wake-up is lost,     *)
(* whoever is cancelled, refused or faster.                                *)
NobodyStarves == \A r \in Requests : phase[r] = "queued" ~> phase[r] = "over"

-----------------------------------------------------------------------------
(* The inductive invariant behind the safety properties *)

(* The slot is held for as long as somebody has a card. *)
HeldInv ==
  /\ \A r \in Requests : HasCard(r) => held[turn[r]]
  /\ \A t \in Turns : held[t] => \E r \in Of(t) : HasCard(r)

(* A request that cannot be answered any more was not answered, or was     *)
(* not told that it is cancelled.                                          *)
RequestInv ==
  \A r \in Requests :
    /\ phase[r] \in {"new", "queued", "woken"} => r \notin pending /\ resolution[r] = None
    /\ phase[r] # "over" => result[r] = "none" /\ r \notin abandoned
    /\ resolution[r] \in Choices \/ r \in pending => result[r] # "cancelled"
    /\ r \in abandoned => result[r] = "raised"

GInv == TypeOK /\ OneCardPerTurn /\ HeldInv /\ RequestInv /\ NothingLeaks

-----------------------------------------------------------------------------
(* Why nobody starves: what fairness has to work on *)

(* A slot in use has its entry: what sleeps or shows a card is found by    *)
(* cancel_all() and by the requests that come later.                       *)
InUse(t) == held[t] \/ Waiters(t) # {}
SlotHasEntry == \A t \in Turns : InUse(t) => t \in entries

(* Whoever sleeps has somebody to wake him: a request of his turn, which   *)
(* was not cancelled, has its card, and leaving it ends in a release.      *)
SleeperHasHolder ==
  \A r \in Requests :
    phase[r] = "queued" =>
      /\ ~dead[turn[r]]
      /\ \E s \in Requests : turn[s] = turn[r] /\ HasCard(s)

(* A request goes forward only, except that a woken one may go back to     *)
(* sleep, and that only to somebody's card.  It is woken when a request of *)
(* its turn, which had the card, is over, or else its turn is cancelled:   *)
(* every round of waking and sleeping uses up a request.                   *)
Place(p) ==
  CASE p = "new" -> 0 [] p \in {"queued", "woken"} -> 1
    [] p = "announcing" -> 2 [] p = "waiting" -> 3 [] p = "over" -> 4

Woken(r) == phase[r] = "queued" /\ phase'[r] = "woken"
AsleepAgain(r) == phase[r] = "woken" /\ phase'[r] = "queued"

OneRoundEach ==
  [][\A r \in Requests :
       /\ Place(phase[r]) <= Place(phase'[r])
       /\ AsleepAgain(r) => \E s \in Requests : turn[s] = turn[r] /\ HasCard(s)
       /\ Woken(r) =>
            \/ dead'[turn[r]]
            \/ \E s \in Requests : turn[s] = turn[r] /\ HasCard(s) /\ phase'[s] = "over"]_vars
=============================================================================
