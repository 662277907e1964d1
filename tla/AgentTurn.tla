------------------------------ MODULE AgentTurn ------------------------------
(***************************************************************************)
(* One turn of the agent: the model-and-tool rounds of TurnRunner, the     *)
(* plan boundary before the first tool of a complex task, the confirmation *)
(* cards and the mutation gate of ToolRuntime.execute_many, the budget of  *)
(* the fast mode, and the re-planning loop of CollaborativeTurnRunner.     *)
(*                                                                         *)
(* A tool call is its kind and whether the output limit truncated it.  The *)
(* kinds are those the code treats differently: "search" reads, "write"    *)
(* mutates (risk 2 or more), "plan" is ask_user_plan_confirm and "card" is *)
(* ask_user_confirm_card.  A call is named by its planning, its round and  *)
(* its place in the response.  What the model answers, how long it takes   *)
(* and what the user decides are nondeterministic.                         *)
(***************************************************************************)
EXTENDS Naturals, FiniteSets, Sequences

CONSTANTS Rounds,      \* TurnRunner._max_iterations
          FastRounds,  \* the cap of the fast mode (3 in the code)
          MaxBatch,    \* bound on the calls of one response
          MaxNudges,   \* _EMPTY_RESPONSE_NUDGE_LIMIT
          MaxReplans,  \* _MAX_REPLANS_PER_TURN
          MaxSteers    \* bound on the steering messages accepted

ASSUME TurnAssumption ==
  /\ Rounds \in Nat \ {0} /\ FastRounds \in Nat \ {0} /\ MaxBatch \in Nat \ {0}
  /\ MaxNudges \in Nat /\ MaxReplans \in Nat /\ MaxSteers \in Nat

Kinds == {"search", "write", "plan", "card"}
Calls == [kind : Kinds, truncated : BOOLEAN]
(* The output limit cuts the last call of a response.                      *)
Batches ==
  { b \in UNION { [1..n -> Calls] : n \in 1..MaxBatch } :
      \A i \in 1..(Len(b) - 1) : ~b[i].truncated }
Ids == (0..MaxReplans) \X (1..Rounds) \X (1..MaxBatch)

VARIABLES
  mode,       \* "edit" or "auto"; "headless" is edit without a card channel
  fast,       \* reasoning_mode is "fast"
  pc,         \* where the turn is, or how it ended
  plans,      \* how often planning was restarted
  round,      \* iterations begun by this run of the loop
  nudges,     \* empty_response_nudges
  finalizing, \* _finalizing
  searches,   \* _search_phases
  batch,      \* the tool calls of the response of this round
  kept,       \* those of them that are neither truncated nor skipped
  at,         \* the confirmations of the batch that are behind us
  allOk,      \* all_confirmed
  cardOk,     \* some confirm card of the batch was confirmed
  done,       \* _plan_confirm_done
  blocked,    \* _plan_gate_blocked
  pending,    \* _plan_adjustment_pending is not empty
  seen,       \* _plan_seen_tools
  calls,      \* length of _plan_calls
  started,    \* calls with a tool_call_started item in the ledger
  completed,  \* calls with a tool_call_completed item
  memory,     \* calls with both echo and result in messages and messages_delta
  ran,        \* calls that reached their tool
  steers,     \* steering messages accepted
  queued,     \* those in the steer queue
  rejected,   \* the user's last word on this planning's plan is no
  nod,        \* the user confirmed some card of this planning
  cut,        \* a truncated response lost a plan card of this planning
  approvals   \* plan cards the user confirmed in this turn

budgetVars == <<fast, finalizing, searches>>
batchVars  == <<batch, kept, at, allOk, cardOk>>
roundVars  == <<round, nudges, batchVars>>
gateVars   == <<done, blocked, pending, seen, calls>>
recordVars == <<started, completed, memory, ran>>
userVars   == <<steers, queued>>
cardVars   == <<rejected, nod, cut, approvals>>
vars == <<mode, pc, plans, budgetVars, roundVars, gateVars, recordVars, userVars, cardVars>>

Ended == {"answered", "exhausted", "empty", "declined", "failed", "aborted"}
Active == {"top", "stream", "boundary", "confirm", "tools", "replan"}

Init ==
  /\ mode \in {"edit", "auto", "headless"} /\ fast \in BOOLEAN
  /\ pc = "top" /\ plans = 0
  /\ round = 0 /\ nudges = 0 /\ finalizing = FALSE /\ searches = 0
  /\ batch = <<>> /\ kept = {} /\ at = {} /\ allOk = TRUE /\ cardOk = FALSE
  /\ done = FALSE /\ blocked = FALSE /\ pending = FALSE /\ seen = {} /\ calls = 0
  /\ started = {} /\ completed = {} /\ memory = {} /\ ran = {}
  /\ steers = 0 /\ queued = 0
  /\ rejected = FALSE /\ nod = FALSE /\ cut = FALSE /\ approvals = 0

-----------------------------------------------------------------------------
(* Helpers *)

(* Mutant: one round too many. *)
LimitIncluded == Rounds + 1

Limit == IF fast /\ FastRounds < Rounds THEN FastRounds ELSE Rounds

(* should_plan_confirm over the tools named so far in this planning: the   *)
(* cards are unknown to TOOL_RISK and so count as mutating.                *)
Warranted(names, n) ==
  LET Points(condition, p) == IF condition THEN p ELSE 0 IN
  Points(n >= 3, 1) + Points(n >= 6, 1) + Points({"search", "write"} \subseteq names, 2)
    + Points(names \cap {"write", "plan", "card"} # {}, 2) >= 4

KindsOf(b, S) == { b[i].kind : i \in S }

(* The calls the truncation gate lets through. *)
Complete(b) == { i \in DOMAIN b : ~b[i].truncated }

(* _budget_skip_reason: what the fast mode refuses of them. *)
Skipped(b) ==
  { i \in Complete(b) :
      /\ fast
      /\ \/ finalizing
         \/ /\ b[i].kind = "search"
            /\ searches >= 1 \/ \E j \in Complete(b) : j < i /\ b[j].kind = "search" }

Kept(b) == Complete(b) \ Skipped(b)

Mutating(kind) == kind # "search"

(* Mutant: any card of the batch opens the gate. *)
ShutUnlessCard(b, K) == blocked /\ {"plan", "card"} \cap KindsOf(b, K) = {}

(* The mutation gate is closed, and no new plan is among the calls. *)
GateShut(b, K) == blocked /\ "plan" \notin KindsOf(b, K)

(* The calls execute_many asks the user about, one after the other. *)
Confirmations(b, K) ==
  IF GateShut(b, K) THEN {} ELSE { i \in K : b[i].kind \in {"plan", "card"} }

(* The calls execute_many hands to the orchestrator together. *)
Executed(b, K) ==
  IF GateShut(b, K) THEN { i \in K : ~Mutating(b[i].kind) }
  ELSE IF allOk THEN K \ Confirmations(b, K) ELSE {}

Name(S) == { <<plans, round, i>> : i \in S }

(* _prune_unpaired_tool_messages: a group of calls stays in what the model *)
(* is sent only if every one of them is answered; other results go.        *)
Paired(echo, results) == IF echo \subseteq results THEN echo ELSE {}

-----------------------------------------------------------------------------
(* The decision loop of _run_impl *)

(* The head of an iteration: in the fast mode finalize_at may have passed. *)
NextRound ==
  /\ pc = "top"
  /\ round < Limit
  /\ round' = round + 1
  /\ finalizing' \in { finalizing, fast }
  /\ pc' = "stream"
  /\ UNCHANGED <<mode, plans, fast, searches, nudges, batchVars, gateVars, recordVars, userVars, cardVars>>

(* The rounds are used up, or hard_stop_at has passed. *)
OutOfRounds ==
  /\ pc = "top"
  /\ round = Limit \/ fast
  /\ pc' = "exhausted"
  /\ UNCHANGED <<mode, plans, budgetVars, roundVars, gateVars, recordVars, userVars, cardVars>>

(* The request fails for good, or a nudged model stays silent. *)
ModelFails ==
  /\ pc = "stream"
  /\ pc' = "failed"
  /\ UNCHANGED <<mode, plans, budgetVars, roundVars, gateVars, recordVars, userVars, cardVars>>

(* A response without tool calls: what the user sent meanwhile continues   *)
(* the turn ...                                                            *)
Steered ==
  /\ pc = "stream" /\ queued > 0
  /\ queued' = 0
  /\ pc' = "top"
  /\ UNCHANGED <<mode, plans, budgetVars, roundVars, gateVars, recordVars, steers, cardVars>>

(* ... an empty one is nudged, a bounded number of times ... *)
Nudge ==
  /\ pc = "stream" /\ queued = 0
  /\ nudges < MaxNudges
  /\ nudges' = nudges + 1
  /\ pc' = "top"
  /\ UNCHANGED <<mode, plans, round, batchVars, budgetVars, gateVars, recordVars, userVars, cardVars>>

(* ... a tool call written as text is fed back ... *)
LeakedCall ==
  /\ pc = "stream" /\ queued = 0
  /\ pc' = "top"
  /\ UNCHANGED <<mode, plans, budgetVars, roundVars, gateVars, recordVars, userVars, cardVars>>

(* ... and anything else is the answer. *)
Answer ==
  /\ pc = "stream" /\ queued = 0
  /\ pc' = "answered"
  /\ UNCHANGED <<mode, plans, budgetVars, roundVars, gateVars, recordVars, userVars, cardVars>>

-----------------------------------------------------------------------------
(* A response with tool calls *)

(* The tools the plan is about: those of every round of this planning. *)
SeenSoFar(b) == seen \cup KindsOf(b, DOMAIN b)

(* Mutant: only the calls of this response are weighed. *)
WeighsResponse(b) ==
  /\ ~done
  /\ mode # "auto"
  /\ "plan" \notin SeenSoFar(b)
  /\ Warranted(KindsOf(b, DOMAIN b), Len(b))

(* The boundary before the first tool: the work is complex, and the model  *)
(* has not asked about a plan itself.                                      *)
NeedsCard(b) ==
  /\ ~done
  /\ mode # "auto"
  /\ "plan" \notin SeenSoFar(b)
  /\ Warranted(SeenSoFar(b), calls + Len(b))

(* All calls are noted as started; the truncated ones and those over the   *)
(* budget are set aside, and the others begin.                             *)
Dispatch(b) ==
  /\ kept' = Kept(b)
  /\ at' = {} /\ allOk' = TRUE /\ cardOk' = FALSE
  /\ started' = started \cup Name(DOMAIN b)
  /\ searches' = IF fast /\ "search" \in KindsOf(b, Kept(b)) THEN 1 ELSE searches
  /\ pc' = IF Confirmations(b, Kept(b)) = {} THEN "tools" ELSE "confirm"

(* The response is weighed and, unless a card is needed, dispatched; when  *)
(* no channel can show the card the plan counts as confirmed.              *)
ToolCalls(b) ==
  /\ pc = "stream"
  /\ batch' = b
  /\ seen' = IF done THEN seen ELSE SeenSoFar(b)
  /\ calls' = IF done THEN calls ELSE calls + Len(b)
  /\ cut' = (cut \/ [kind |-> "plan", truncated |-> TRUE] \in { b[i] : i \in DOMAIN b })
  /\ \/ /\ NeedsCard(b) /\ mode = "edit"
        /\ pc' = "boundary"
        /\ UNCHANGED <<done, searches, kept, at, allOk, cardOk, started>>
     \/ /\ ~(NeedsCard(b) /\ mode = "edit")
        /\ done' = (done \/ NeedsCard(b))
        /\ Dispatch(b)
  /\ UNCHANGED <<mode, plans, fast, finalizing, round, nudges, blocked, pending,
                 completed, memory, ran, userVars, rejected, nod, approvals>>

(* The user confirms the card of the boundary ... *)
BoundaryConfirmed ==
  /\ pc = "boundary"
  /\ done' = TRUE
  /\ approvals' = approvals + 1 /\ rejected' = FALSE /\ nod' = TRUE
  /\ Dispatch(batch)
  /\ UNCHANGED <<mode, plans, fast, finalizing, round, nudges, batch, blocked, pending, seen, calls,
                 completed, memory, ran, userVars, cut>>

(* ... or asks for another plan: with the wish in words planning starts    *)
(* over, without them the turn ends with nothing; its rounds are dropped   *)
(* either way ...                                                          *)
BoundaryModified(worded) ==
  /\ pc = "boundary"
  /\ rejected' = TRUE
  /\ IF worded THEN pc' = "replan" /\ pending' = TRUE /\ blocked' = TRUE
               ELSE pc' = "empty" /\ UNCHANGED <<pending, blocked>>
  /\ memory' = {}
  /\ UNCHANGED <<mode, plans, budgetVars, roundVars, done, seen, calls, started, completed, ran, userVars,
                 nod, cut, approvals>>

(* ... or says no, or nothing for 300 seconds: all that is kept of the     *)
(* turn is the note that it was cancelled.                                 *)
BoundaryDeclined ==
  /\ pc = "boundary"
  /\ rejected' = TRUE
  /\ memory' = {}
  /\ pc' = "declined"
  /\ UNCHANGED <<mode, plans, budgetVars, roundVars, gateVars, started, completed, ran, userVars,
                 nod, cut, approvals>>

-----------------------------------------------------------------------------
(* ToolRuntime.execute_many *)

(* The confirmation whose turn it is. *)
IsNext(i) == /\ i \in Confirmations(batch, kept) \ at
             /\ \A j \in Confirmations(batch, kept) \ at : i <= j

Passed(i) ==
  /\ at' = at \cup {i}
  /\ pc' = IF Confirmations(batch, kept) \ at = {i} THEN "tools" ELSE "confirm"

(* Mutant: a plan card is shown whether or not the plan was confirmed. *)
NeverShort(i) == FALSE

(* _plan_confirm_short_circuit *)
Short(i) == batch[i].kind = "plan" /\ done

AlreadyConfirmed(i) ==
  /\ pc = "confirm" /\ IsNext(i) /\ Short(i)
  /\ Passed(i)
  /\ UNCHANGED <<mode, plans, budgetVars, round, nudges, batch, kept, allOk, cardOk, gateVars, recordVars, userVars, cardVars>>

(* The orchestrator answers a card: the user's yes, or anything else.  A   *)
(* cancellation of the turn that arrives meanwhile is swallowed there.     *)
CardAnswered(i, yes) ==
  /\ pc = "confirm" /\ IsNext(i) /\ ~Short(i)
  /\ yes => mode # "headless"
  /\ Passed(i)
  /\ allOk' = (allOk /\ yes)
  /\ nod' = (nod \/ yes)
  /\ ran' = ran \cup Name({i})
  /\ IF batch[i].kind = "plan"
     THEN /\ blocked' = ~yes /\ done' = yes
          /\ pending' = (pending /\ ~yes)
          /\ rejected' = ~yes
          /\ approvals' = IF yes THEN approvals + 1 ELSE approvals
          /\ cardOk' = cardOk
     ELSE /\ cardOk' = (cardOk \/ yes)
          /\ UNCHANGED <<blocked, done, pending, rejected, approvals>>
  /\ UNCHANGED <<mode, plans, budgetVars, round, nudges, batch, kept, seen, calls,
                 started, completed, memory, userVars, cut>>

(* Mutant: truncated calls are not echoed. *)
EchoKept(b, K) == K

(* The calls the assistant message repeats. *)
Echo(b, K) == K \cup (DOMAIN b \ Complete(b))

(* The tools end, all of them, and the round is recorded. *)
ToolsEnd ==
  /\ pc = "tools"
  /\ ran' = ran \cup Name(Executed(batch, kept))
  /\ completed' = completed \cup Name(kept) \cup Name(DOMAIN batch \ Complete(batch))
  /\ memory' = memory \cup Name(Paired(Echo(batch, kept), DOMAIN batch))
  /\ done' = (done \/ cardOk)
  /\ rejected' = (rejected /\ ~cardOk)
  /\ pc' = "top"
  /\ batch' = <<>> /\ kept' = {} /\ at' = {} /\ allOk' = TRUE /\ cardOk' = FALSE
  /\ UNCHANGED <<mode, plans, budgetVars, round, nudges, blocked, pending, seen, calls, started, userVars,
                 nod, cut, approvals>>

(* A cancellation reaches the tools; those that were done stay done. *)
ToolsAborted(S) ==
  /\ pc = "tools"
  /\ S \subseteq Executed(batch, kept)
  /\ ran' = ran \cup Name(S)
  /\ pc' = "aborted"
  /\ UNCHANGED <<mode, plans, budgetVars, roundVars, gateVars, started, completed, memory, userVars, cardVars>>

-----------------------------------------------------------------------------
(* CollaborativeTurnRunner.run, and what comes from outside *)

(* Mutant: plannings are not counted. *)
PlansUncounted == plans

PlansCounted == plans + 1

(* The turn is run again from the history, with the wish added: what the   *)
(* model is shown and what the gate knows start afresh, the ledger and     *)
(* what the tools have done stay ...                                       *)
Replan ==
  /\ pc = "replan" /\ plans < MaxReplans
  /\ plans' = PlansCounted
  /\ pc' = "top"
  /\ round' = 0 /\ nudges' = 0 /\ finalizing' = FALSE /\ searches' = 0
  /\ batch' = <<>> /\ kept' = {} /\ at' = {} /\ allOk' = TRUE /\ cardOk' = FALSE
  /\ pending' = FALSE /\ blocked' = FALSE /\ done' = FALSE /\ seen' = {} /\ calls' = 0
  /\ memory' = {}
  /\ rejected' = FALSE /\ nod' = FALSE /\ cut' = FALSE
  /\ UNCHANGED <<mode, fast, started, completed, ran, userVars, approvals>>

(* ... a bounded number of times. *)
NoMorePlans ==
  /\ pc = "replan" /\ plans = MaxReplans
  /\ pc' = "empty"
  /\ pending' = FALSE /\ blocked' = FALSE /\ done' = FALSE /\ seen' = {} /\ calls' = 0
  /\ UNCHANGED <<mode, plans, budgetVars, roundVars, recordVars, userVars, cardVars>>

(* AbortTurn cancels the task of the turn, which is waiting somewhere. *)
Aborted ==
  /\ pc \in {"stream", "boundary", "replan"}
  /\ pc' = "aborted"
  /\ UNCHANGED <<mode, plans, budgetVars, roundVars, gateVars, recordVars, userVars, cardVars>>

(* TaskRunner.steer_turn *)
Steer ==
  /\ pc \in Active /\ steers < MaxSteers
  /\ steers' = steers + 1 /\ queued' = queued + 1
  /\ UNCHANGED <<mode, pc, plans, budgetVars, roundVars, gateVars, recordVars, cardVars>>

-----------------------------------------------------------------------------
(* What the turn does by itself, and what others decide within their time. *)
TurnStep ==
  \/ NextRound \/ OutOfRounds
  \/ ModelFails \/ Steered \/ Nudge \/ LeakedCall \/ Answer
  \/ \E b \in Batches : ToolCalls(b)
  \/ BoundaryConfirmed \/ BoundaryDeclined
  \/ \E worded \in BOOLEAN : BoundaryModified(worded)
  \/ \E i \in 1..MaxBatch : AlreadyConfirmed(i) \/ \E yes \in BOOLEAN : CardAnswered(i, yes)
  \/ ToolsEnd \/ Replan \/ NoMorePlans

Next ==
  \/ TurnStep \/ Steer
  \/ Aborted \/ \E S \in SUBSET (1..MaxBatch) : ToolsAborted(S)

Spec == Init /\ [][Next]_vars

FairSpec == Spec /\ WF_vars(TurnStep)

-----------------------------------------------------------------------------
(* Properties *)

ControlType ==
  /\ mode \in {"edit", "auto", "headless"} /\ fast \in BOOLEAN
  /\ pc \in Active \cup Ended /\ plans \in 0..MaxReplans
  /\ round \in 0..Rounds /\ nudges \in 0..MaxNudges
  /\ finalizing \in BOOLEAN /\ searches \in 0..1

BatchType ==
  /\ batch \in Batches \cup {<<>>}
  /\ kept \subseteq DOMAIN batch /\ at \subseteq kept
  /\ allOk \in BOOLEAN /\ cardOk \in BOOLEAN

GateType ==
  /\ done \in BOOLEAN /\ blocked \in BOOLEAN /\ pending \in BOOLEAN
  /\ seen \subseteq Kinds /\ calls \in Nat
  /\ rejected \in BOOLEAN /\ nod \in BOOLEAN /\ cut \in BOOLEAN /\ approvals \in Nat

RecordType ==
  started \subseteq Ids /\ completed \subseteq Ids /\ memory \subseteq Ids /\ ran \subseteq Ids

UserType == steers \in 0..MaxSteers /\ queued \in 0..steers

(* Every variable keeps its type. *)
TypeOK == ControlType /\ BatchType /\ GateType /\ RecordType /\ UserType

(* This step runs a mutating tool. *)
Wrote == \E i \in DOMAIN batch : batch[i].kind = "write" /\ <<plans, round, i>> \in ran' \ ran

(* No mutating tool runs while the user's last word on the plan is no; a   *)
(* yes to a confirm card of the same response counts, in execute_many as   *)
(* here, as a later word.  A wish for another plan is a no only until the  *)
(* planning starts over: of the new one the user has not yet been asked.   *)
GateHolds == [][Wrote => ~rejected]_vars

(* A mutating tool of a task complex enough for a plan card runs only      *)
(* after the user confirmed a card, whichever rounds of this planning made *)
(* the task complex and whoever asked, except that a plan card lost to     *)
(* truncation is taken for one that was shown.                             *)
ComplexWorkIsConfirmed ==
  [][Wrote /\ mode = "edit" /\ Warranted(seen, calls) => nod \/ cut]_vars

(* The user is never asked to confirm a plan again after confirming one,   *)
(* over all rounds, both kinds of plan card and every re-planning, and     *)
(* nothing takes the confirmation back.                                    *)
ApprovedOnce == approvals <= 1 /\ (approvals = 1 => done)

(* Where calls may have run that are not yet, or will not be, completed.   *)
InExecution == {"confirm", "tools", "aborted"}

(* The calls of this planning. *)
OfThisPlanning(S) == { x \in S : x[1] = plans }

(* Between rounds, and however the turn ends unless it is aborted, every   *)
(* call that ran, in this planning or in one the user sent back, is        *)
(* completed in the ledger, and no call is left open there but those the   *)
(* fast mode skipped.  Of this planning the model's memory then holds just *)
(* what the ledger completed; the earlier plannings are forgotten there.   *)
NothingIsForgotten ==
  /\ pc \notin InExecution =>
       /\ ran \subseteq completed
       /\ ~fast => started = completed
  /\ pc \in {"top", "answered", "exhausted"} => memory = OfThisPlanning(completed)

(* The turn ends, however often the model is steered, nudged, refused or   *)
(* sent back to plan.                                                      *)
TurnEnds == <>(pc \in Ended)

-----------------------------------------------------------------------------
(* Why it ends                                                             *)

(* The parts of a round in their order; the head of the loop comes last,   *)
(* for the round it begins is the next one.                                *)
Stage == [stream |-> 1, boundary |-> 2, confirm |-> 3, tools |-> 4, top |-> 5, replan |-> 6]

(* A step ends the turn, or starts the next planning, the next round of    *)
(* this planning, a later part of this round or the next confirmation.     *)
GoesForward ==
  \/ pc' \in Ended
  \/ plans' > plans
  \/ plans' = plans /\ round' > round
  \/ /\ plans' = plans /\ round' = round /\ pc' \in Active
     /\ Stage[pc'] > Stage[pc] \/ (pc' = pc /\ at \subseteq at' /\ at' # at)

(* Every step is one forward in an order that the caps make finite, except *)
(* that the user may add a steering message; no step of the model, of the  *)
(* user or of an abort sends the turn back, and none follows its end.      *)
NeverBack ==
  [][/\ pc \in Active
     /\ GoesForward \/ (queued' > queued /\ UNCHANGED <<pc, plans, round, at>>)]_vars

(* As long as it has not ended the turn can go on by itself: the rounds    *)
(* and the plannings are not past their caps, where the loops would not    *)
(* stop, and execute_many has a confirmation to ask for while it asks.     *)
CanGoOn ==
  pc \in Active =>
    \/ pc \in {"stream", "boundary", "tools"}
    \/ pc = "top" /\ round <= Limit
    \/ pc = "confirm" /\ \E i \in 1..MaxBatch : IsNext(i)
    \/ pc = "replan" /\ plans <= MaxReplans
=============================================================================
