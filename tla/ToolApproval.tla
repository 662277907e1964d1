---------------------------- MODULE ToolApproval ----------------------------
(***************************************************************************)
(* The approval of tool calls (miqi/execution/orchestrator.py): execute    *)
(* asks the user, _request_approval waits for the answer, resolve_approval *)
(* delivers it, cancel_approvals_for_thread sweeps the approvals of an     *)
(* aborted thread.  Each call is a task of its own; all of them, the       *)
(* handlers and the dispatch loop share one event loop, and the ledger     *)
(* appends (asyncio.shield, so they take effect even when the caller is    *)
(* cancelled) are where a task is suspended in between.                    *)
(*                                                                         *)
(* asyncio.wait_for is that of the Python the releases are built with      *)
(* (3.11): an answer that is there wins over the timeout and over a        *)
(* cancellation, which it swallows.                                        *)
(***************************************************************************)
EXTENDS Naturals, Sequences, FiniteSets

CONSTANTS Calls,       \* tool calls that the user has to approve
          Subagent,    \* those made by sub-agents, not by the active turn
          Threads, Patterns,
          MaxAborts    \* bound on the AbortTurns

None == "none"

ASSUME ApprovalAssumption ==
  /\ Subagent \subseteq Calls
  /\ None \notin Threads /\ Threads # {} /\ Patterns # {}
  /\ MaxAborts \in Nat

VARIABLES
  thread, pattern,  \* of each call (fixed)
  phase,       \* where the task of each call is
  outcome,     \* ctx.status
  cancel,      \* cancelled, and not yet delivered
  future,      \* the future of each approval
  registered,  \* keys of _pending_approvals and _approval_meta
  index,       \* _thread_approvals
  confirmed,   \* the answer resolve_approval reported as resolved
  allowlist,   \* patterns approved for the session or for good
  told,        \* ApprovalResolvedEvents of each approval
  ledger,      \* approval_resolved items of each approval
  sweeping,    \* the thread cancel_approvals_for_thread works on
  fresh,       \* it has not taken its snapshot of the thread's approvals
  todo,        \* what is left of the snapshot
  aborts

fixedVars == <<thread, pattern>>
callVars  == <<phase, outcome, cancel>>
approvalVars == <<future, registered, index, confirmed, allowlist>>
recordVars == <<told, ledger>>
sweepVars == <<sweeping, fresh, todo, aborts>>
vars == <<fixedVars, callVars, approvalVars, recordVars, sweepVars>>

(***************************************************************************)
(*   idle       not made yet                                               *)
(*   asking     the request event is out, its ledger item being written    *)
(*   waiting    in wait_for                                                *)
(*   recording  the answer is there, its ledger item being written         *)
(*   expiring   timed out, the ledger item being written                   *)
(*   running    the tool runs                                              *)
(***************************************************************************)
Phases == {"idle", "asking", "waiting", "recording", "expiring", "running", "over"}
Answers == {"once", "session", "deny"}   \* "always" differs only in what it persists
Resolutions == Answers \cup {"timeout", "abort"}

Init ==
  /\ thread \in [Calls -> Threads]
  /\ \A c, d \in Calls \ Subagent : thread[c] = thread[d]
  /\ pattern \in [Calls -> Patterns]
  /\ phase = [c \in Calls |-> "idle"]
  /\ outcome = [c \in Calls |-> "none"]
  /\ cancel = [c \in Calls |-> FALSE]
  /\ future = [c \in Calls |-> "none"]
  /\ registered = {} /\ index = [t \in Threads |-> {}]
  /\ confirmed = [c \in Calls |-> None]
  /\ allowlist = {}
  /\ told = [c \in Calls |-> <<>>] /\ ledger = [c \in Calls |-> <<>>]
  /\ sweeping = None /\ fresh = FALSE /\ todo = {} /\ aborts = 0

-----------------------------------------------------------------------------
(* The task of a call: execute and _request_approval *)

To(c, p) == phase' = [phase EXCEPT ![c] = p]
End(c, o) == To(c, "over") /\ outcome' = [outcome EXCEPT ![c] = o]
Delivered(c) == cancel[c] /\ cancel' = [cancel EXCEPT ![c] = FALSE]
Undisturbed(c) == ~cancel[c] /\ UNCHANGED cancel
Tell(c, d) == told' = [told EXCEPT ![c] = Append(@, d)]
Record(c, d) == ledger' = [ledger EXCEPT ![c] = Append(@, d)]

(* Mutant: the finally block leaves the call in _thread_approvals. *)
CleanUpKeepsIndex(c) ==
  /\ registered' = registered \ {c}
  /\ UNCHANGED index

(* The finally block of _request_approval. *)
CleanUp(c) ==
  /\ registered' = registered \ {c}
  /\ index' = [index EXCEPT ![thread[c]] = @ \ {c}]

(* An allowlisted call runs at once; the others ask.  The event is out     *)
(* before anything is registered.                                          *)
Begin(c) ==
  /\ phase[c] = "idle" /\ Undisturbed(c)
  /\ To(c, IF pattern[c] \in allowlist THEN "running" ELSE "asking")
  /\ UNCHANGED <<fixedVars, outcome, approvalVars, recordVars, sweepVars>>

Register(c) ==
  /\ phase[c] = "asking" /\ Undisturbed(c)
  /\ future' = [future EXCEPT ![c] = "pending"]
  /\ registered' = registered \cup {c}
  /\ index' = [index EXCEPT ![thread[c]] = @ \cup {c}]
  /\ To(c, "waiting")
  /\ UNCHANGED <<fixedVars, outcome, confirmed, allowlist, recordVars, sweepVars>>

(* Mutant: the verdict is recorded for the decision. *)
AnsweredVerdict(c) ==
  /\ phase[c] = "waiting" /\ future[c] \in {"allow", "deny"}
  /\ cancel' = [cancel EXCEPT ![c] = FALSE]
  /\ Record(c, future[c])
  /\ To(c, "recording")
  /\ UNCHANGED <<fixedVars, outcome, approvalVars, told, sweepVars>>

(* Mutant: the ledger item is written without the answer in the metadata. *)
AnsweredUnread(c) ==
  /\ phase[c] = "waiting" /\ future[c] \in {"allow", "deny"}
  /\ cancel' = [cancel EXCEPT ![c] = FALSE]
  /\ Record(c, "deny")
  /\ To(c, "recording")
  /\ UNCHANGED <<fixedVars, outcome, approvalVars, told, sweepVars>>

(* The future is done: wait_for returns, a cancellation of the task or     *)
(* not.  The decision recorded is the one in the metadata, or "deny" when  *)
(* a sweep has removed it.                                                 *)
Answered(c) ==
  /\ phase[c] = "waiting" /\ future[c] \in {"allow", "deny"}
  /\ cancel' = [cancel EXCEPT ![c] = FALSE]
  /\ Record(c, IF c \in registered /\ confirmed[c] # None THEN confirmed[c] ELSE "deny")
  /\ To(c, "recording")
  /\ UNCHANGED <<fixedVars, outcome, approvalVars, told, sweepVars>>

Decided(c) ==
  /\ phase[c] = "recording" /\ Undisturbed(c)
  /\ CleanUp(c)
  /\ IF future[c] = "allow" THEN To(c, "running") /\ UNCHANGED outcome
                            ELSE End(c, "denied")
  /\ UNCHANGED <<fixedVars, future, confirmed, allowlist, recordVars, sweepVars>>

(* Mutant: nothing bounds the wait. *)
ExpireNever(c) == phase[c] = "waiting" /\ FALSE /\ UNCHANGED vars

(* approval_timeout_ms passed without an answer. *)
Expire(c) ==
  /\ phase[c] = "waiting" /\ future[c] = "pending" /\ Undisturbed(c)
  /\ future' = [future EXCEPT ![c] = "cancelled"]
  /\ Tell(c, "timeout") /\ Record(c, "timeout")
  /\ To(c, "expiring")
  /\ UNCHANGED <<fixedVars, outcome, registered, index, confirmed, allowlist, sweepVars>>

Expired(c) ==
  /\ phase[c] = "expiring" /\ Undisturbed(c)
  /\ CleanUp(c)
  /\ End(c, "denied")
  /\ UNCHANGED <<fixedVars, future, confirmed, allowlist, recordVars, sweepVars>>

(* CancelledError leaves _request_approval through its finally block (or,  *)
(* while asking, from before the try) and is a CANCELLED result of execute. *)
Cancelled(c) ==
  /\ phase[c] \in {"asking", "waiting", "recording", "expiring", "running"}
  /\ phase[c] = "waiting" => future[c] = "pending"
  /\ Delivered(c)
  /\ CleanUp(c)
  /\ End(c, "cancelled")
  /\ future' = [future EXCEPT ![c] = IF @ = "pending" THEN "cancelled" ELSE @]
  /\ UNCHANGED <<fixedVars, confirmed, allowlist, recordVars, sweepVars>>

Return(c) ==
  /\ phase[c] = "running" /\ Undisturbed(c)
  /\ End(c, "ran")
  /\ UNCHANGED <<fixedVars, approvalVars, recordVars, sweepVars>>

Step(c) ==
  \/ Register(c) \/ Answered(c) \/ Decided(c) \/ Expire(c) \/ Expired(c)
  \/ Cancelled(c) \/ Return(c)

-----------------------------------------------------------------------------
(* resolve_approval: an answer to an approval that is not registered, or   *)
(* whose future is done, is refused and changes nothing.                   *)
Answer(c, a) ==
  /\ c \in registered /\ future[c] = "pending"
  /\ future' = [future EXCEPT ![c] = IF a = "deny" THEN "deny" ELSE "allow"]
  /\ confirmed' = [confirmed EXCEPT ![c] = a]
  /\ allowlist' = IF a = "session" THEN allowlist \cup {pattern[c]} ELSE allowlist
  /\ Tell(c, a)
  /\ UNCHANGED <<fixedVars, callVars, registered, index, ledger, sweepVars>>

-----------------------------------------------------------------------------
(* AbortTurn: the calls of the active turn are cancelled with it, and the  *)
(* approvals of the thread that the abort names are swept, at once or      *)
(* after the auxiliary tasks have been awaited.                            *)
AbortTurn(t) ==
  /\ aborts < MaxAborts /\ sweeping = None
  /\ aborts' = aborts + 1
  /\ cancel' = [c \in Calls |->
                  cancel[c] \/ (c \notin Subagent /\ phase[c] \notin {"idle", "over"})]
  /\ sweeping' = t /\ fresh' = TRUE /\ todo' = {}
  /\ UNCHANGED <<fixedVars, phase, outcome, approvalVars, recordVars>>

(* The approvals still to sweep. *)
Left == IF fresh THEN index[sweeping] ELSE todo

(* Mutant: an answer that is there already is overwritten. *)
SweepOverrides(c) ==
  /\ sweeping # None /\ c \in Left
  /\ fresh' = FALSE /\ todo' = Left \ {c}
  /\ future' = [future EXCEPT ![c] = "deny"]
  /\ registered' = registered \ {c}
  /\ Tell(c, "abort") /\ Record(c, "abort")
  /\ UNCHANGED <<fixedVars, callVars, index, confirmed, allowlist, sweeping, aborts>>

(* One approval, up to the await of its ledger item. *)
Sweep(c) ==
  /\ sweeping # None /\ c \in Left
  /\ fresh' = FALSE /\ todo' = Left \ {c}
  /\ future' = [future EXCEPT ![c] = IF c \in registered /\ @ = "pending" THEN "deny" ELSE @]
  /\ registered' = registered \ {c}
  /\ Tell(c, "abort") /\ Record(c, "abort")
  /\ UNCHANGED <<fixedVars, callVars, index, confirmed, allowlist, sweeping, aborts>>

SweepEnd ==
  /\ sweeping # None /\ Left = {}
  /\ index' = [index EXCEPT ![sweeping] = {}]
  /\ sweeping' = None /\ fresh' = FALSE
  /\ UNCHANGED <<fixedVars, callVars, future, registered, confirmed, allowlist, recordVars, todo, aborts>>

Sweeper == SweepEnd \/ \E c \in Calls : Sweep(c)

-----------------------------------------------------------------------------
Next ==
  \/ \E c \in Calls : Begin(c) \/ Step(c) \/ \E a \in Answers : Answer(c, a)
  \/ \E t \in Threads : AbortTurn(t)
  \/ Sweeper

Spec == Init /\ [][Next]_vars

(* wait_for has a timeout, the ledger answers and tools have time limits.  *)
(* The user need not answer.                                               *)
FairSpec == Spec /\ WF_vars(Sweeper) /\ \A c \in Calls : WF_vars(Step(c))

-----------------------------------------------------------------------------
TypeOK ==
  /\ thread \in [Calls -> Threads] /\ pattern \in [Calls -> Patterns]
  /\ phase \in [Calls -> Phases]
  /\ outcome \in [Calls -> {"none", "ran", "denied", "cancelled"}]
  /\ cancel \in [Calls -> BOOLEAN]
  /\ future \in [Calls -> {"none", "pending", "allow", "deny", "cancelled"}]
  /\ registered \subseteq Calls /\ index \in [Threads -> SUBSET Calls]
  /\ confirmed \in [Calls -> Answers \cup {None}]
  /\ allowlist \subseteq Patterns
  /\ told \in [Calls -> Seq(Resolutions)] /\ ledger \in [Calls -> Seq(Resolutions)]
  /\ sweeping \in Threads \cup {None} /\ fresh \in BOOLEAN
  /\ todo \subseteq Calls /\ aborts \in 0..MaxAborts

Ran(c) == phase[c] = "running" \/ outcome[c] = "ran"

(* A tool runs only if the user allowed this very call or its pattern.     *)
RunsOnlyIfAllowed ==
  \A c \in Calls : Ran(c) => confirmed[c] \in {"once", "session"} \/ pattern[c] \in allowlist

(* What the user answered is what happens, whatever timeout, abort or late *)
(* answer the approval meets: nothing runs without an answer that allows   *)
(* it, a call whose denial was reported as resolved does not run, and an   *)
(* allowed one is not denied by a timeout or a sweep that comes later.     *)
AnswerDecides ==
  /\ RunsOnlyIfAllowed
  /\ \A c \in Calls :
       /\ confirmed[c] = "deny" => ~Ran(c)
       /\ confirmed[c] \in {"once", "session"} => outcome[c] # "denied"

(* Unless it was aborted, the approval of a call that is over has one      *)
(* ApprovalResolvedEvent and one ledger item, and they agree: what replay  *)
(* shows is what the user saw.                                             *)
LedgerAgrees ==
  \A c \in Calls :
    (/\ phase[c] = "over" /\ outcome[c] # "cancelled"
     /\ ~\E k \in DOMAIN told[c] : told[c][k] = "abort")
      => /\ ledger[c] = told[c]
         /\ future[c] # "none" => Len(told[c]) = 1

(* A call that is over leaves nothing in the maps of the orchestrator      *)
(* ("no orphan approvals remain in the pending set").                      *)
NothingLeft ==
  \A c \in Calls :
    phase[c] = "over" => c \notin registered /\ \A t \in Threads : c \notin index[t]

(***************************************************************************)
(* The inductive invariant behind the safety properties, call by call.     *)
(***************************************************************************)

(* The future of a call follows its phase: it is pending only while the    *)
(* call waits, and "cancelled" from the moment the wait times out.         *)
FutureInv(c) ==
  /\ phase[c] \in {"idle", "asking"} => future[c] = "none"
  /\ phase[c] = "waiting" => future[c] \in {"pending", "allow", "deny"}
  /\ phase[c] = "recording" => future[c] \in {"allow", "deny"}
  /\ phase[c] = "expiring" => future[c] = "cancelled"
  /\ future[c] = "pending" => phase[c] = "waiting"

(* The future has the verdict of the confirmed answer, and what became of  *)
(* the call has the verdict of the future; without a future the pattern    *)
(* was on the allowlist.                                                   *)
VerdictInv(c) ==
  /\ future[c] = "allow" <=> confirmed[c] \in {"once", "session"}
  /\ confirmed[c] = "deny" => future[c] = "deny"
  /\ Ran(c) => \/ future[c] = "allow"
               \/ future[c] = "none" /\ pattern[c] \in allowlist
  /\ outcome[c] = "denied" => future[c] \in {"deny", "cancelled"}
  /\ outcome[c] # "none" => phase[c] = "over"

(* The maps hold a call between Register and CleanUp, under its thread.    *)
MapInv(c) ==
  /\ c \in registered => phase[c] \in {"waiting", "recording", "expiring"}
  /\ \A t \in Threads :
       c \in index[t] => t = thread[c] /\ phase[c] \in {"waiting", "recording", "expiring"}

AInv == TypeOK /\ \A c \in Calls : FutureInv(c) /\ VerdictInv(c) /\ MapInv(c)

(* What the user was told and what the ledger has, until a sweep takes the *)
(* call: nothing before the answer, and the answer in the ledger as soon   *)
(* as the call has read it.  A sweep also is the only one to unregister a  *)
(* call that waits.                                                        *)
Swept(c) == \E k \in DOMAIN told[c] : told[c][k] = "abort"

RecordInv(c) ==
  \/ Swept(c)
  \/ /\ future[c] \in {"none", "pending"} /\ told[c] = <<>> /\ ledger[c] = <<>>
     /\ phase[c] = "waiting" => c \in registered
  \/ /\ future[c] \in {"allow", "deny"} /\ confirmed[c] # None /\ told[c] = <<confirmed[c]>>
     /\ IF phase[c] = "waiting" THEN c \in registered /\ ledger[c] = <<>>
                                ELSE ledger[c] = told[c]
  \/ future[c] = "cancelled" /\ told[c] = <<"timeout">> /\ ledger[c] = told[c]
  \/ outcome[c] = "cancelled" /\ future[c] = "cancelled"

(* Every call that asks comes to an end, even if the answer was sent       *)
(* before the approval was registered and refused.                         *)
EveryCallEnds == \A c \in Calls : phase[c] = "asking" ~> phase[c] = "over"

-----------------------------------------------------------------------------
(* Why every call ends: what fairness has to work on *)

(* A future is settled once: whichever of the answer, the timeout, the     *)
(* cancellation and the sweep is first, those that come later leave the    *)
(* result and the answer that was reported alone.                          *)
SettledOnce ==
  [][\A c \in Calls :
       future[c] \in {"allow", "deny", "cancelled"} =>
         future'[c] = future[c] /\ confirmed'[c] = confirmed[c]]_vars

(* A call that waits has a future that can still be settled or is settled  *)
(* with a verdict: it never waits for one that is gone.                    *)
CanGoOn(c) ==
  \/ phase[c] \in {"asking", "recording", "expiring", "running"}
  \/ phase[c] = "waiting" /\ future[c] \in {"pending", "allow", "deny"}

WaitCanEnd == \A c \in Calls : phase[c] \in {"idle", "over"} \/ CanGoOn(c)

(* Nothing takes a call back, and every step of its own takes it further.  *)
Place(p) ==
  CASE p = "idle" -> 0 [] p = "asking" -> 1 [] p = "waiting" -> 2
    [] p \in {"recording", "expiring"} -> 3 [] p = "running" -> 4 [] p = "over" -> 5

StepsGoForward ==
  [][\A c \in Calls :
       /\ phase[c] = phase'[c] \/ Place(phase[c]) < Place(phase'[c])
       /\ Step(c) => phase[c] # phase'[c]]_vars
=============================================================================
