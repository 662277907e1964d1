--------------------------- MODULE AgentTurnProofs ---------------------------
(***************************************************************************)
(* Proofs about AgentTurn for every cap on rounds, responses, nudges and   *)
(* re-plannings.                                                           *)
(***************************************************************************)
EXTENDS AgentTurn, WellFoundedInduction, TLAPS

InBatch == {"confirm", "tools"}
Rolling == {"top", "stream", "boundary"} \cup InBatch

(* A plan card of the batch is behind us. *)
PlanAsked == \E i \in at : batch[i].kind = "plan"

(* A round is numbered before its calls are named, and none of them is     *)
(* kept before they are dispatched.                                        *)
CountInv ==
  /\ pc \in {"stream", "boundary"} \cup InBatch => round >= 1
  /\ pc \in {"top", "stream", "boundary"} => kept = {} /\ at = {}
  /\ finalizing => fast

(* What the ledger holds, of the rounds before and of the round at hand.   *)
LedgerInv ==
  /\ pc \notin InExecution =>
       /\ ran \subseteq completed
       /\ ~fast => started = completed
  /\ pc \in InBatch =>
       /\ ran \subseteq completed \cup Name(kept)
       /\ kept \subseteq Complete(batch)
       /\ ~fast => started = completed \cup Name(DOMAIN batch) /\ kept = Complete(batch)

(* As long as its rounds are not dropped, this planning's part of the      *)
(* ledger is what the model remembers; plannings to come have no part yet. *)
Remembers == {"top", "stream", "boundary", "answered", "exhausted"} \cup InBatch

MemoryInv ==
  /\ \A x \in completed : x[1] \in 0..plans
  /\ pc \in Remembers => memory = OfThisPlanning(completed)

(* A plan that was turned down keeps the gate shut, unless a new card of   *)
(* the batch is being asked.                                               *)
GateInv ==
  /\ pc \in {"boundary", "replan"} => ~done
  /\ pc \in Rolling /\ rejected => blocked /\ ~done /\ "plan" \in seen
  /\ pc \in InBatch /\ ~done => KindsOf(batch, kept) \subseteq seen
  /\ pc \in InBatch /\ PlanAsked /\ rejected => ~allOk
  /\ pc = "tools" => Confirmations(batch, kept) \subseteq at

(* Complex work has been confirmed, or waits for a plan card. *)
PlanInv ==
  mode = "edit" =>
    /\ done => nod
    /\ cardOk => nod
    /\ pc \in InBatch /\ PlanAsked /\ ~nod => blocked /\ ~allOk
    /\ pc \in Rolling \ {"boundary"} /\ ~done /\ "plan" \notin seen => ~Warranted(seen, calls)
    /\ pc \in InBatch /\ finalizing => kept = {}
    /\ pc \in {"top", "stream", "boundary"} /\ "plan" \in seen =>
         cut \/ nod \/ finalizing \/ blocked
    /\ pc \in InBatch /\ "plan" \in seen =>
         cut \/ nod \/ finalizing \/ blocked \/ "plan" \in KindsOf(batch, kept)

TInv == TypeOK /\ CountInv /\ LedgerInv /\ MemoryInv /\ ApprovedOnce /\ GateInv /\ PlanInv

-----------------------------------------------------------------------------
(* Responses *)

LEMMA BatchFacts ==
  ASSUME NEW b \in Batches
  PROVE  /\ Len(b) \in Nat /\ DOMAIN b \subseteq 1..MaxBatch
         /\ \A i \in DOMAIN b : b[i] \in Calls /\ b[i].kind \in Kinds /\ b[i].truncated \in BOOLEAN
<1>1. PICK n \in 1..MaxBatch : b \in [1..n -> Calls]
  BY DEF Batches
<1>2. Len(b) = n /\ n \in Nat /\ n <= MaxBatch
  BY <1>1, TurnAssumption
<1>3. DOMAIN b \subseteq 1..MaxBatch
  BY <1>1, <1>2, TurnAssumption
<1>. QED BY <1>1, <1>2, <1>3 DEF Calls

LEMMA KeptFacts ==
  ASSUME TypeOK, NEW b \in Batches
  PROVE  /\ Kept(b) \subseteq Complete(b) /\ Complete(b) \subseteq DOMAIN b
         /\ ~fast => Kept(b) = Complete(b)
         /\ fast /\ finalizing => Kept(b) = {}
         /\ \A i \in DOMAIN b : i \notin Kept(b) =>
              b[i].truncated \/ finalizing \/ b[i].kind = "search"
BY DEF Kept, Skipped, Complete

(* The calls of a round that has begun can be named. *)
LEMMA NameType ==
  ASSUME TypeOK, round >= 1, NEW S, S \subseteq 1..MaxBatch
  PROVE  Name(S) \subseteq Ids
<1>1. round \in 1..Rounds /\ plans \in 0..MaxReplans
  BY TurnAssumption DEF TypeOK, ControlType
<1>. QED BY <1>1 DEF Name, Ids

LEMMA LimitType == Limit \in Nat /\ Limit <= Rounds
BY TurnAssumption DEF Limit

LEMMA InitHolds == Init => TInv
<1> SUFFICES ASSUME Init PROVE TInv
  OBVIOUS
<1> USE TurnAssumption DEF Init
<1>1. TypeOK
  <2>1. DOMAIN batch = {}
    OBVIOUS
  <2>2. ControlType /\ UserType
    <3>1. mode \in {"edit", "auto", "headless"} /\ fast \in BOOLEAN /\ pc \in Active \cup Ended /\ finalizing \in BOOLEAN
      BY DEF Active
    <3>2. plans \in 0..MaxReplans /\ round \in 0..Rounds /\ nudges \in 0..MaxNudges /\ searches \in 0..1
      OBVIOUS
    <3>3. steers \in 0..MaxSteers /\ queued \in 0..steers
      OBVIOUS
    <3>. QED BY <3>1, <3>2, <3>3 DEF ControlType, UserType
  <2>3. BatchType
    BY <2>1 DEF BatchType
  <2>4. GateType /\ RecordType
    BY DEF GateType, RecordType
  <2>. QED BY <2>2, <2>3, <2>4 DEF TypeOK
<1>2. CountInv /\ LedgerInv /\ MemoryInv /\ ApprovedOnce /\ GateInv
  BY DEF CountInv, LedgerInv, MemoryInv, OfThisPlanning, InExecution, ApprovedOnce, GateInv, InBatch, Rolling
<1>3. ~Warranted({}, 0)
  BY DEF Warranted
<1>4. PlanInv
  BY <1>3 DEF PlanInv, InBatch, Rolling
<1>. QED BY <1>1, <1>2, <1>4 DEF TInv

-----------------------------------------------------------------------------
(* Types *)

LEMMA DispatchType ==
  ASSUME TypeOK, round >= 1, NEW b \in Batches, Dispatch(b), batch' = b
  PROVE  /\ kept' = Kept(b) /\ at' = {} /\ allOk' = TRUE /\ cardOk' = FALSE
         /\ kept' \subseteq DOMAIN batch' /\ at' \subseteq kept'
         /\ started' \subseteq Ids /\ searches' \in 0..1 /\ pc' \in InBatch
<1>1. Name(DOMAIN b) \subseteq Ids
  BY BatchFacts, NameType
<1>2. started' \subseteq Ids
  BY <1>1 DEF Dispatch, TypeOK, RecordType
<1>3. searches' \in 0..1
  BY DEF Dispatch, TypeOK, ControlType
<1>4. kept' = Kept(b) /\ kept' \subseteq DOMAIN batch'
  BY KeptFacts DEF Dispatch
<1>. QED BY <1>2, <1>3, <1>4 DEF Dispatch, InBatch

LEMMA TypeStep ==
  ASSUME TypeOK, CountInv, [Next]_vars
  PROVE  TypeOK' /\ CountInv'
<1> USE TurnAssumption
<1>1. CASE NextRound
  <2>1. round' \in 0..Rounds /\ round' >= 1
    BY <1>1, LimitType DEF NextRound, TypeOK, ControlType
  <2>2. finalizing' \in BOOLEAN
    BY <1>1 DEF NextRound, TypeOK, ControlType
  <2>C. ControlType'
    BY <1>1, <2>1, <2>2 DEF TypeOK, ControlType, NextRound, Active, Ended, InBatch, budgetVars, roundVars, batchVars, gateVars, recordVars, userVars, cardVars
  <2>B. BatchType'
    BY <1>1 DEF TypeOK, BatchType, NextRound, Active, Ended, InBatch, budgetVars, roundVars, batchVars, gateVars, recordVars, userVars, cardVars
  <2>G. GateType'
    BY <1>1 DEF TypeOK, GateType, NextRound, Active, Ended, InBatch, budgetVars, roundVars, batchVars, gateVars, recordVars, userVars, cardVars
  <2>R. RecordType'
    BY <1>1 DEF TypeOK, RecordType, NextRound, Active, Ended, InBatch, budgetVars, roundVars, batchVars, gateVars, recordVars, userVars, cardVars
  <2>U. UserType'
    BY <1>1 DEF TypeOK, UserType, NextRound, Active, Ended, InBatch, budgetVars, roundVars, batchVars, gateVars, recordVars, userVars, cardVars
  <2>N. CountInv'
    BY <1>1, <2>1 DEF CountInv, NextRound, InBatch, budgetVars, roundVars, batchVars, gateVars, recordVars, userVars, cardVars
  <2>. QED BY <2>C, <2>B, <2>G, <2>R, <2>U, <2>N DEF TypeOK
<1>2. CASE OutOfRounds
  <2>C. ControlType'
    BY <1>2 DEF TypeOK, ControlType, OutOfRounds, Active, Ended, InBatch, budgetVars, roundVars, batchVars, gateVars, recordVars, userVars, cardVars
  <2>B. BatchType'
    BY <1>2 DEF TypeOK, BatchType, OutOfRounds, Active, Ended, InBatch, budgetVars, roundVars, batchVars, gateVars, recordVars, userVars, cardVars
  <2>G. GateType'
    BY <1>2 DEF TypeOK, GateType, OutOfRounds, Active, Ended, InBatch, budgetVars, roundVars, batchVars, gateVars, recordVars, userVars, cardVars
  <2>R. RecordType'
    BY <1>2 DEF TypeOK, RecordType, OutOfRounds, Active, Ended, InBatch, budgetVars, roundVars, batchVars, gateVars, recordVars, userVars, cardVars
  <2>U. UserType'
    BY <1>2 DEF TypeOK, UserType, OutOfRounds, Active, Ended, InBatch, budgetVars, roundVars, batchVars, gateVars, recordVars, userVars, cardVars
  <2>N. CountInv'
    BY <1>2 DEF CountInv, OutOfRounds, InBatch, budgetVars, roundVars, batchVars, gateVars, recordVars, userVars, cardVars
  <2>. QED BY <2>C, <2>B, <2>G, <2>R, <2>U, <2>N DEF TypeOK
<1>3. CASE ModelFails
  <2>C. ControlType'
    BY <1>3 DEF TypeOK, ControlType, ModelFails, Active, Ended, InBatch, budgetVars, roundVars, batchVars, gateVars, recordVars, userVars, cardVars
  <2>B. BatchType'
    BY <1>3 DEF TypeOK, BatchType, ModelFails, Active, Ended, InBatch, budgetVars, roundVars, batchVars, gateVars, recordVars, userVars, cardVars
  <2>G. GateType'
    BY <1>3 DEF TypeOK, GateType, ModelFails, Active, Ended, InBatch, budgetVars, roundVars, batchVars, gateVars, recordVars, userVars, cardVars
  <2>R. RecordType'
    BY <1>3 DEF TypeOK, RecordType, ModelFails, Active, Ended, InBatch, budgetVars, roundVars, batchVars, gateVars, recordVars, userVars, cardVars
  <2>U. UserType'
    BY <1>3 DEF TypeOK, UserType, ModelFails, Active, Ended, InBatch, budgetVars, roundVars, batchVars, gateVars, recordVars, userVars, cardVars
  <2>N. CountInv'
    BY <1>3 DEF CountInv, ModelFails, InBatch, budgetVars, roundVars, batchVars, gateVars, recordVars, userVars, cardVars
  <2>. QED BY <2>C, <2>B, <2>G, <2>R, <2>U, <2>N DEF TypeOK
<1>4. CASE Steered
  <2>C. ControlType'
    BY <1>4 DEF TypeOK, ControlType, Steered, Active, Ended, InBatch, budgetVars, roundVars, batchVars, gateVars, recordVars, userVars, cardVars
  <2>B. BatchType'
    BY <1>4 DEF TypeOK, BatchType, Steered, Active, Ended, InBatch, budgetVars, roundVars, batchVars, gateVars, recordVars, userVars, cardVars
  <2>G. GateType'
    BY <1>4 DEF TypeOK, GateType, Steered, Active, Ended, InBatch, budgetVars, roundVars, batchVars, gateVars, recordVars, userVars, cardVars
  <2>R. RecordType'
    BY <1>4 DEF TypeOK, RecordType, Steered, Active, Ended, InBatch, budgetVars, roundVars, batchVars, gateVars, recordVars, userVars, cardVars
  <2>U. UserType'
    BY <1>4 DEF TypeOK, UserType, Steered, Active, Ended, InBatch, budgetVars, roundVars, batchVars, gateVars, recordVars, userVars, cardVars
  <2>N. CountInv'
    BY <1>4 DEF CountInv, Steered, InBatch, budgetVars, roundVars, batchVars, gateVars, recordVars, userVars, cardVars
  <2>. QED BY <2>C, <2>B, <2>G, <2>R, <2>U, <2>N DEF TypeOK
<1>5. CASE Nudge
  <2>C. ControlType'
    BY <1>5 DEF TypeOK, ControlType, Nudge, Active, Ended, InBatch, budgetVars, roundVars, batchVars, gateVars, recordVars, userVars, cardVars
  <2>B. BatchType'
    BY <1>5 DEF TypeOK, BatchType, Nudge, Active, Ended, InBatch, budgetVars, roundVars, batchVars, gateVars, recordVars, userVars, cardVars
  <2>G. GateType'
    BY <1>5 DEF TypeOK, GateType, Nudge, Active, Ended, InBatch, budgetVars, roundVars, batchVars, gateVars, recordVars, userVars, cardVars
  <2>R. RecordType'
    BY <1>5 DEF TypeOK, RecordType, Nudge, Active, Ended, InBatch, budgetVars, roundVars, batchVars, gateVars, recordVars, userVars, cardVars
  <2>U. UserType'
    BY <1>5 DEF TypeOK, UserType, Nudge, Active, Ended, InBatch, budgetVars, roundVars, batchVars, gateVars, recordVars, userVars, cardVars
  <2>N. CountInv'
    BY <1>5 DEF CountInv, Nudge, InBatch, budgetVars, roundVars, batchVars, gateVars, recordVars, userVars, cardVars
  <2>. QED BY <2>C, <2>B, <2>G, <2>R, <2>U, <2>N DEF TypeOK
<1>6. CASE LeakedCall
  <2>C. ControlType'
    BY <1>6 DEF TypeOK, ControlType, LeakedCall, Active, Ended, InBatch, budgetVars, roundVars, batchVars, gateVars, recordVars, userVars, cardVars
  <2>B. BatchType'
    BY <1>6 DEF TypeOK, BatchType, LeakedCall, Active, Ended, InBatch, budgetVars, roundVars, batchVars, gateVars, recordVars, userVars, cardVars
  <2>G. GateType'
    BY <1>6 DEF TypeOK, GateType, LeakedCall, Active, Ended, InBatch, budgetVars, roundVars, batchVars, gateVars, recordVars, userVars, cardVars
  <2>R. RecordType'
    BY <1>6 DEF TypeOK, RecordType, LeakedCall, Active, Ended, InBatch, budgetVars, roundVars, batchVars, gateVars, recordVars, userVars, cardVars
  <2>U. UserType'
    BY <1>6 DEF TypeOK, UserType, LeakedCall, Active, Ended, InBatch, budgetVars, roundVars, batchVars, gateVars, recordVars, userVars, cardVars
  <2>N. CountInv'
    BY <1>6 DEF CountInv, LeakedCall, InBatch, budgetVars, roundVars, batchVars, gateVars, recordVars, userVars, cardVars
  <2>. QED BY <2>C, <2>B, <2>G, <2>R, <2>U, <2>N DEF TypeOK
<1>7. CASE Answer
  <2>C. ControlType'
    BY <1>7 DEF TypeOK, ControlType, Answer, Active, Ended, InBatch, budgetVars, roundVars, batchVars, gateVars, recordVars, userVars, cardVars
  <2>B. BatchType'
    BY <1>7 DEF TypeOK, BatchType, Answer, Active, Ended, InBatch, budgetVars, roundVars, batchVars, gateVars, recordVars, userVars, cardVars
  <2>G. GateType'
    BY <1>7 DEF TypeOK, GateType, Answer, Active, Ended, InBatch, budgetVars, roundVars, batchVars, gateVars, recordVars, userVars, cardVars
  <2>R. RecordType'
    BY <1>7 DEF TypeOK, RecordType, Answer, Active, Ended, InBatch, budgetVars, roundVars, batchVars, gateVars, recordVars, userVars, cardVars
  <2>U. UserType'
    BY <1>7 DEF TypeOK, UserType, Answer, Active, Ended, InBatch, budgetVars, roundVars, batchVars, gateVars, recordVars, userVars, cardVars
  <2>N. CountInv'
    BY <1>7 DEF CountInv, Answer, InBatch, budgetVars, roundVars, batchVars, gateVars, recordVars, userVars, cardVars
  <2>. QED BY <2>C, <2>B, <2>G, <2>R, <2>U, <2>N DEF TypeOK
<1>8. ASSUME NEW b \in Batches, ToolCalls(b) PROVE TypeOK' /\ CountInv'
  <2>1. round >= 1 /\ round' = round
    BY <1>8 DEF ToolCalls, CountInv
  <2>2. /\ seen' \subseteq Kinds /\ calls' \in Nat /\ done' \in BOOLEAN
    <3>1. seen' \subseteq Kinds
      BY <1>8, BatchFacts DEF ToolCalls, TypeOK, GateType, SeenSoFar, KindsOf
    <3>2. calls' \in Nat
      BY <1>8, BatchFacts DEF ToolCalls, TypeOK, GateType
    <3>3. done' \in BOOLEAN
      BY <1>8 DEF ToolCalls, TypeOK, GateType
    <3>. QED BY <3>1, <3>2, <3>3
  <2>3. /\ batch' \in Batches /\ kept' \subseteq DOMAIN batch' /\ at' \subseteq kept' /\ allOk' \in BOOLEAN /\ cardOk' \in BOOLEAN
        /\ started' \subseteq Ids /\ searches' \in 0..1 /\ pc' \in InBatch \cup {"boundary"}
        /\ pc' = "boundary" => kept' = {} /\ at' = {}
    <3>1. CASE NeedsCard(b) /\ mode = "edit"
      <4>1. kept' = {} /\ at' = {} /\ batch' = b
        BY <1>8, <3>1 DEF ToolCalls, CountInv
      <4>. QED BY <1>8, <3>1, <4>1 DEF ToolCalls, TypeOK, BatchType, RecordType, ControlType
    <3>2. CASE ~(NeedsCard(b) /\ mode = "edit")
      BY <1>8, <3>2, <2>1, DispatchType DEF ToolCalls, InBatch
    <3>. QED BY <3>1, <3>2
  <2>C. ControlType'
    BY <1>8, <2>3 DEF TypeOK, ControlType, ToolCalls, Active, Ended, InBatch, budgetVars, roundVars, batchVars, gateVars, recordVars, userVars, cardVars
  <2>B. BatchType'
    BY <1>8, <2>3 DEF TypeOK, BatchType, ToolCalls, Active, Ended, InBatch, budgetVars, roundVars, batchVars, gateVars, recordVars, userVars, cardVars
  <2>G. GateType'
    BY <1>8, <2>2 DEF TypeOK, GateType, ToolCalls, Active, Ended, InBatch, budgetVars, roundVars, batchVars, gateVars, recordVars, userVars, cardVars
  <2>R. RecordType'
    BY <1>8, <2>3 DEF TypeOK, RecordType, ToolCalls, Active, Ended, InBatch, budgetVars, roundVars, batchVars, gateVars, recordVars, userVars, cardVars
  <2>U. UserType'
    BY <1>8 DEF TypeOK, UserType, ToolCalls, Active, Ended, InBatch, budgetVars, roundVars, batchVars, gateVars, recordVars, userVars, cardVars
  <2>N. CountInv'
    BY <1>8, <2>1, <2>3 DEF CountInv, ToolCalls, InBatch, budgetVars, roundVars, batchVars, gateVars, recordVars, userVars, cardVars
  <2>. QED BY <2>C, <2>B, <2>G, <2>R, <2>U, <2>N DEF TypeOK
<1>9. CASE BoundaryConfirmed
  <2>1. round >= 1 /\ batch' = batch
    BY <1>9 DEF BoundaryConfirmed, CountInv
  <2>3. /\ kept' \subseteq DOMAIN batch' /\ at' \subseteq kept' /\ allOk' \in BOOLEAN /\ cardOk' \in BOOLEAN
        /\ started' \subseteq Ids /\ searches' \in 0..1 /\ pc' \in InBatch
    <3>1. CASE batch \in Batches
      BY <1>9, <3>1, <2>1, DispatchType DEF BoundaryConfirmed
    <3>2. CASE batch = <<>>
      <4>1. DOMAIN batch = {}
        BY <3>2
      <4>2. Kept(batch) = {} /\ Name(DOMAIN batch) = {}
        BY <4>1 DEF Kept, Complete, Skipped, Name
      <4>3. kept' = {} /\ at' = {} /\ allOk' = TRUE /\ cardOk' = FALSE /\ started' = started
        BY <1>9, <4>2 DEF BoundaryConfirmed, Dispatch
      <4>4. searches' \in 0..1 /\ pc' \in InBatch
        BY <1>9 DEF BoundaryConfirmed, Dispatch, TypeOK, ControlType, InBatch
      <4>. QED BY <4>3, <4>4 DEF TypeOK, RecordType
    <3>. QED BY <3>1, <3>2 DEF TypeOK, BatchType
  <2>C. ControlType'
    BY <1>9, <2>3 DEF TypeOK, ControlType, BoundaryConfirmed, Active, Ended, InBatch, budgetVars, roundVars, batchVars, gateVars, recordVars, userVars, cardVars
  <2>B. BatchType'
    BY <1>9, <2>1, <2>3 DEF TypeOK, BatchType, BoundaryConfirmed, Active, Ended, InBatch, budgetVars, roundVars, batchVars, gateVars, recordVars, userVars, cardVars
  <2>G. GateType'
    <3>1. approvals' \in Nat /\ calls' \in Nat /\ seen' \subseteq Kinds
      BY <1>9 DEF TypeOK, GateType, BoundaryConfirmed
    <3>2. done' \in BOOLEAN /\ blocked' \in BOOLEAN /\ pending' \in BOOLEAN
      BY <1>9 DEF TypeOK, GateType, BoundaryConfirmed
    <3>3. rejected' \in BOOLEAN /\ nod' \in BOOLEAN /\ cut' \in BOOLEAN
      BY <1>9 DEF TypeOK, GateType, BoundaryConfirmed
    <3>. QED BY <3>1, <3>2, <3>3 DEF GateType
  <2>R. RecordType'
    BY <1>9, <2>3 DEF TypeOK, RecordType, BoundaryConfirmed, Active, Ended, InBatch, budgetVars, roundVars, batchVars, gateVars, recordVars, userVars, cardVars
  <2>U. UserType'
    BY <1>9 DEF TypeOK, UserType, BoundaryConfirmed, Active, Ended, InBatch, budgetVars, roundVars, batchVars, gateVars, recordVars, userVars, cardVars
  <2>N. CountInv'
    BY <1>9, <2>1, <2>3 DEF CountInv, BoundaryConfirmed, InBatch, budgetVars, roundVars, batchVars, gateVars, recordVars, userVars, cardVars
  <2>. QED BY <2>C, <2>B, <2>G, <2>R, <2>U, <2>N DEF TypeOK
<1>10. ASSUME NEW w \in BOOLEAN, BoundaryModified(w) PROVE TypeOK' /\ CountInv'
  <2>C. ControlType'
    BY <1>10 DEF TypeOK, ControlType, BoundaryModified, Active, Ended, InBatch, budgetVars, roundVars, batchVars, gateVars, recordVars, userVars, cardVars
  <2>B. BatchType'
    BY <1>10 DEF TypeOK, BatchType, BoundaryModified, Active, Ended, InBatch, budgetVars, roundVars, batchVars, gateVars, recordVars, userVars, cardVars
  <2>G. GateType'
    BY <1>10 DEF TypeOK, GateType, BoundaryModified, Active, Ended, InBatch, budgetVars, roundVars, batchVars, gateVars, recordVars, userVars, cardVars
  <2>R. RecordType'
    BY <1>10 DEF TypeOK, RecordType, BoundaryModified, Active, Ended, InBatch, budgetVars, roundVars, batchVars, gateVars, recordVars, userVars, cardVars
  <2>U. UserType'
    BY <1>10 DEF TypeOK, UserType, BoundaryModified, Active, Ended, InBatch, budgetVars, roundVars, batchVars, gateVars, recordVars, userVars, cardVars
  <2>N. CountInv'
    BY <1>10 DEF CountInv, BoundaryModified, InBatch, budgetVars, roundVars, batchVars, gateVars, recordVars, userVars, cardVars
  <2>. QED BY <2>C, <2>B, <2>G, <2>R, <2>U, <2>N DEF TypeOK
<1>11. CASE BoundaryDeclined
  <2>C. ControlType'
    BY <1>11 DEF TypeOK, ControlType, BoundaryDeclined, Active, Ended, InBatch, budgetVars, roundVars, batchVars, gateVars, recordVars, userVars, cardVars
  <2>B. BatchType'
    BY <1>11 DEF TypeOK, BatchType, BoundaryDeclined, Active, Ended, InBatch, budgetVars, roundVars, batchVars, gateVars, recordVars, userVars, cardVars
  <2>G. GateType'
    BY <1>11 DEF TypeOK, GateType, BoundaryDeclined, Active, Ended, InBatch, budgetVars, roundVars, batchVars, gateVars, recordVars, userVars, cardVars
  <2>R. RecordType'
    BY <1>11 DEF TypeOK, RecordType, BoundaryDeclined, Active, Ended, InBatch, budgetVars, roundVars, batchVars, gateVars, recordVars, userVars, cardVars
  <2>U. UserType'
    BY <1>11 DEF TypeOK, UserType, BoundaryDeclined, Active, Ended, InBatch, budgetVars, roundVars, batchVars, gateVars, recordVars, userVars, cardVars
  <2>N. CountInv'
    BY <1>11 DEF CountInv, BoundaryDeclined, InBatch, budgetVars, roundVars, batchVars, gateVars, recordVars, userVars, cardVars
  <2>. QED BY <2>C, <2>B, <2>G, <2>R, <2>U, <2>N DEF TypeOK
<1>12. ASSUME NEW i \in 1..MaxBatch, AlreadyConfirmed(i) PROVE TypeOK' /\ CountInv'
  <2>1. i \in kept
    BY <1>12 DEF AlreadyConfirmed, IsNext, Confirmations
  <2>C. ControlType'
    BY <1>12 DEF TypeOK, ControlType, AlreadyConfirmed, Passed, Active, Ended, InBatch, budgetVars, roundVars, batchVars, gateVars, recordVars, userVars, cardVars
  <2>B. BatchType'
    BY <1>12, <2>1 DEF TypeOK, BatchType, AlreadyConfirmed, Passed, Active, Ended, InBatch, budgetVars, roundVars, batchVars, gateVars, recordVars, userVars, cardVars
  <2>G. GateType'
    BY <1>12 DEF TypeOK, GateType, AlreadyConfirmed, Passed, Active, Ended, InBatch, budgetVars, roundVars, batchVars, gateVars, recordVars, userVars, cardVars
  <2>R. RecordType'
    BY <1>12 DEF TypeOK, RecordType, AlreadyConfirmed, Passed, Active, Ended, InBatch, budgetVars, roundVars, batchVars, gateVars, recordVars, userVars, cardVars
  <2>U. UserType'
    BY <1>12 DEF TypeOK, UserType, AlreadyConfirmed, Passed, Active, Ended, InBatch, budgetVars, roundVars, batchVars, gateVars, recordVars, userVars, cardVars
  <2>N. CountInv'
    BY <1>12 DEF CountInv, AlreadyConfirmed, Passed, InBatch, budgetVars, roundVars, batchVars, gateVars, recordVars, userVars, cardVars
  <2>. QED BY <2>C, <2>B, <2>G, <2>R, <2>U, <2>N DEF TypeOK
<1>13. ASSUME NEW i \in 1..MaxBatch, NEW yes \in BOOLEAN, CardAnswered(i, yes) PROVE TypeOK' /\ CountInv'
  <2>1. i \in kept /\ round >= 1
    BY <1>13 DEF CardAnswered, IsNext, Confirmations, CountInv, InBatch
  <2>2. Name({i}) \subseteq Ids
    BY <2>1, NameType
  <2>C. ControlType'
    BY <1>13 DEF TypeOK, ControlType, CardAnswered, Passed, Active, Ended, InBatch, budgetVars, roundVars, batchVars, gateVars, recordVars, userVars, cardVars
  <2>B. BatchType'
    BY <1>13, <2>1 DEF TypeOK, BatchType, CardAnswered, Passed, Active, Ended, InBatch, budgetVars, roundVars, batchVars, gateVars, recordVars, userVars, cardVars
  <2>G. GateType'
    <3>1. approvals' \in Nat /\ calls' \in Nat /\ seen' \subseteq Kinds
      BY <1>13 DEF TypeOK, GateType, CardAnswered, Passed
    <3>2. done' \in BOOLEAN /\ blocked' \in BOOLEAN /\ pending' \in BOOLEAN
      BY <1>13 DEF TypeOK, GateType, CardAnswered, Passed
    <3>3. rejected' \in BOOLEAN /\ nod' \in BOOLEAN /\ cut' \in BOOLEAN
      BY <1>13 DEF TypeOK, GateType, CardAnswered, Passed
    <3>. QED BY <3>1, <3>2, <3>3 DEF GateType
  <2>R. RecordType'
    BY <1>13, <2>2 DEF TypeOK, RecordType, CardAnswered, Passed, Active, Ended, InBatch, budgetVars, roundVars, batchVars, gateVars, recordVars, userVars, cardVars
  <2>U. UserType'
    BY <1>13 DEF TypeOK, UserType, CardAnswered, Passed, Active, Ended, InBatch, budgetVars, roundVars, batchVars, gateVars, recordVars, userVars, cardVars
  <2>N. CountInv'
    BY <1>13 DEF CountInv, CardAnswered, Passed, InBatch, budgetVars, roundVars, batchVars, gateVars, recordVars, userVars, cardVars
  <2>. QED BY <2>C, <2>B, <2>G, <2>R, <2>U, <2>N DEF TypeOK
<1>14. CASE ToolsEnd
  <2>1. round >= 1 /\ DOMAIN batch \subseteq 1..MaxBatch
    <3>1. CASE batch \in Batches
      BY <1>14, <3>1, BatchFacts DEF ToolsEnd, CountInv, InBatch
    <3>2. CASE batch = <<>>
      BY <1>14, <3>2 DEF ToolsEnd, CountInv, InBatch
    <3>. QED BY <3>1, <3>2 DEF TypeOK, BatchType
  <2>2. /\ Executed(batch, kept) \subseteq 1..MaxBatch /\ kept \subseteq 1..MaxBatch
        /\ DOMAIN batch \ Complete(batch) \subseteq 1..MaxBatch
        /\ Paired(Echo(batch, kept), DOMAIN batch) \subseteq 1..MaxBatch
    BY <2>1 DEF Executed, TypeOK, BatchType, Paired, Echo
  <2>3. /\ Name(Executed(batch, kept)) \subseteq Ids /\ Name(kept) \subseteq Ids
        /\ Name(DOMAIN batch \ Complete(batch)) \subseteq Ids
        /\ Name(Paired(Echo(batch, kept), DOMAIN batch)) \subseteq Ids
    BY <2>1, <2>2, NameType
  <2>4. DOMAIN batch' = {}
    BY <1>14 DEF ToolsEnd
  <2>C. ControlType'
    BY <1>14 DEF TypeOK, ControlType, ToolsEnd, Active, Ended, InBatch, budgetVars, roundVars, batchVars, gateVars, recordVars, userVars, cardVars
  <2>B. BatchType'
    BY <1>14, <2>4 DEF TypeOK, BatchType, ToolsEnd, Active, Ended, InBatch, budgetVars, roundVars, batchVars, gateVars, recordVars, userVars, cardVars
  <2>G. GateType'
    BY <1>14 DEF TypeOK, GateType, ToolsEnd, Active, Ended, InBatch, budgetVars, roundVars, batchVars, gateVars, recordVars, userVars, cardVars
  <2>R. RecordType'
    BY <1>14, <2>3 DEF TypeOK, RecordType, ToolsEnd, Active, Ended, InBatch, budgetVars, roundVars, batchVars, gateVars, recordVars, userVars, cardVars
  <2>U. UserType'
    BY <1>14 DEF TypeOK, UserType, ToolsEnd, Active, Ended, InBatch, budgetVars, roundVars, batchVars, gateVars, recordVars, userVars, cardVars
  <2>N. CountInv'
    BY <1>14 DEF CountInv, ToolsEnd, InBatch, budgetVars, roundVars, batchVars, gateVars, recordVars, userVars, cardVars
  <2>. QED BY <2>C, <2>B, <2>G, <2>R, <2>U, <2>N DEF TypeOK
<1>15. CASE Replan
  <2>1. DOMAIN batch' = {} /\ plans' \in 0..MaxReplans
    BY <1>15 DEF Replan, PlansCounted, TypeOK, ControlType
  <2>C. ControlType'
    <3>1. round' \in 0..Rounds /\ nudges' \in 0..MaxNudges /\ searches' \in 0..1
      BY <1>15 DEF Replan
    <3>. QED BY <1>15, <2>1, <3>1 DEF TypeOK, ControlType, Replan, Active
  <2>B. BatchType'
    BY <1>15, <2>1 DEF TypeOK, BatchType, Replan, Active, Ended, InBatch, budgetVars, roundVars, batchVars, gateVars, recordVars, userVars, cardVars
  <2>G. GateType'
    BY <1>15 DEF TypeOK, GateType, Replan, Active, Ended, InBatch, budgetVars, roundVars, batchVars, gateVars, recordVars, userVars, cardVars
  <2>R. RecordType'
    BY <1>15 DEF TypeOK, RecordType, Replan, Active, Ended, InBatch, budgetVars, roundVars, batchVars, gateVars, recordVars, userVars, cardVars
  <2>U. UserType'
    BY <1>15 DEF TypeOK, UserType, Replan, Active, Ended, InBatch, budgetVars, roundVars, batchVars, gateVars, recordVars, userVars, cardVars
  <2>N. CountInv'
    BY <1>15 DEF CountInv, Replan, InBatch, budgetVars, roundVars, batchVars, gateVars, recordVars, userVars, cardVars
  <2>. QED BY <2>C, <2>B, <2>G, <2>R, <2>U, <2>N DEF TypeOK
<1>16. CASE NoMorePlans
  <2>C. ControlType'
    BY <1>16 DEF TypeOK, ControlType, NoMorePlans, Active, Ended, InBatch, budgetVars, roundVars, batchVars, gateVars, recordVars, userVars, cardVars
  <2>B. BatchType'
    BY <1>16 DEF TypeOK, BatchType, NoMorePlans, Active, Ended, InBatch, budgetVars, roundVars, batchVars, gateVars, recordVars, userVars, cardVars
  <2>G. GateType'
    BY <1>16 DEF TypeOK, GateType, NoMorePlans, Active, Ended, InBatch, budgetVars, roundVars, batchVars, gateVars, recordVars, userVars, cardVars
  <2>R. RecordType'
    BY <1>16 DEF TypeOK, RecordType, NoMorePlans, Active, Ended, InBatch, budgetVars, roundVars, batchVars, gateVars, recordVars, userVars, cardVars
  <2>U. UserType'
    BY <1>16 DEF TypeOK, UserType, NoMorePlans, Active, Ended, InBatch, budgetVars, roundVars, batchVars, gateVars, recordVars, userVars, cardVars
  <2>N. CountInv'
    BY <1>16 DEF CountInv, NoMorePlans, InBatch, budgetVars, roundVars, batchVars, gateVars, recordVars, userVars, cardVars
  <2>. QED BY <2>C, <2>B, <2>G, <2>R, <2>U, <2>N DEF TypeOK
<1>17. CASE Steer
  <2>C. ControlType'
    BY <1>17 DEF TypeOK, ControlType, Steer, Active, Ended, InBatch, budgetVars, roundVars, batchVars, gateVars, recordVars, userVars, cardVars
  <2>B. BatchType'
    BY <1>17 DEF TypeOK, BatchType, Steer, Active, Ended, InBatch, budgetVars, roundVars, batchVars, gateVars, recordVars, userVars, cardVars
  <2>G. GateType'
    BY <1>17 DEF TypeOK, GateType, Steer, Active, Ended, InBatch, budgetVars, roundVars, batchVars, gateVars, recordVars, userVars, cardVars
  <2>R. RecordType'
    BY <1>17 DEF TypeOK, RecordType, Steer, Active, Ended, InBatch, budgetVars, roundVars, batchVars, gateVars, recordVars, userVars, cardVars
  <2>U. UserType'
    BY <1>17 DEF TypeOK, UserType, Steer, Active, Ended, InBatch, budgetVars, roundVars, batchVars, gateVars, recordVars, userVars, cardVars
  <2>N. CountInv'
    BY <1>17 DEF CountInv, Steer, InBatch, budgetVars, roundVars, batchVars, gateVars, recordVars, userVars, cardVars
  <2>. QED BY <2>C, <2>B, <2>G, <2>R, <2>U, <2>N DEF TypeOK
<1>18. CASE Aborted
  <2>C. ControlType'
    BY <1>18 DEF TypeOK, ControlType, Aborted, Active, Ended, InBatch, budgetVars, roundVars, batchVars, gateVars, recordVars, userVars, cardVars
  <2>B. BatchType'
    BY <1>18 DEF TypeOK, BatchType, Aborted, Active, Ended, InBatch, budgetVars, roundVars, batchVars, gateVars, recordVars, userVars, cardVars
  <2>G. GateType'
    BY <1>18 DEF TypeOK, GateType, Aborted, Active, Ended, InBatch, budgetVars, roundVars, batchVars, gateVars, recordVars, userVars, cardVars
  <2>R. RecordType'
    BY <1>18 DEF TypeOK, RecordType, Aborted, Active, Ended, InBatch, budgetVars, roundVars, batchVars, gateVars, recordVars, userVars, cardVars
  <2>U. UserType'
    BY <1>18 DEF TypeOK, UserType, Aborted, Active, Ended, InBatch, budgetVars, roundVars, batchVars, gateVars, recordVars, userVars, cardVars
  <2>N. CountInv'
    BY <1>18 DEF CountInv, Aborted, InBatch, budgetVars, roundVars, batchVars, gateVars, recordVars, userVars, cardVars
  <2>. QED BY <2>C, <2>B, <2>G, <2>R, <2>U, <2>N DEF TypeOK
<1>19. ASSUME NEW S \in SUBSET (1..MaxBatch), ToolsAborted(S) PROVE TypeOK' /\ CountInv'
  <2>1. Name(S) \subseteq Ids
    BY <1>19, NameType DEF ToolsAborted, CountInv, InBatch
  <2>C. ControlType'
    BY <1>19 DEF TypeOK, ControlType, ToolsAborted, Active, Ended, InBatch, budgetVars, roundVars, batchVars, gateVars, recordVars, userVars, cardVars
  <2>B. BatchType'
    BY <1>19 DEF TypeOK, BatchType, ToolsAborted, Active, Ended, InBatch, budgetVars, roundVars, batchVars, gateVars, recordVars, userVars, cardVars
  <2>G. GateType'
    BY <1>19 DEF TypeOK, GateType, ToolsAborted, Active, Ended, InBatch, budgetVars, roundVars, batchVars, gateVars, recordVars, userVars, cardVars
  <2>R. RecordType'
    BY <1>19, <2>1 DEF TypeOK, RecordType, ToolsAborted, Active, Ended, InBatch, budgetVars, roundVars, batchVars, gateVars, recordVars, userVars, cardVars
  <2>U. UserType'
    BY <1>19 DEF TypeOK, UserType, ToolsAborted, Active, Ended, InBatch, budgetVars, roundVars, batchVars, gateVars, recordVars, userVars, cardVars
  <2>N. CountInv'
    BY <1>19 DEF CountInv, ToolsAborted, InBatch, budgetVars, roundVars, batchVars, gateVars, recordVars, userVars, cardVars
  <2>. QED BY <2>C, <2>B, <2>G, <2>R, <2>U, <2>N DEF TypeOK
<1>20. CASE UNCHANGED vars
  <2>C. ControlType'
    BY <1>20 DEF TypeOK, ControlType, vars, Active, Ended, InBatch, budgetVars, roundVars, batchVars, gateVars, recordVars, userVars, cardVars
  <2>B. BatchType'
    BY <1>20 DEF TypeOK, BatchType, vars, Active, Ended, InBatch, budgetVars, roundVars, batchVars, gateVars, recordVars, userVars, cardVars
  <2>G. GateType'
    BY <1>20 DEF TypeOK, GateType, vars, Active, Ended, InBatch, budgetVars, roundVars, batchVars, gateVars, recordVars, userVars, cardVars
  <2>R. RecordType'
    BY <1>20 DEF TypeOK, RecordType, vars, Active, Ended, InBatch, budgetVars, roundVars, batchVars, gateVars, recordVars, userVars, cardVars
  <2>U. UserType'
    BY <1>20 DEF TypeOK, UserType, vars, Active, Ended, InBatch, budgetVars, roundVars, batchVars, gateVars, recordVars, userVars, cardVars
  <2>N. CountInv'
    BY <1>20 DEF CountInv, vars, InBatch, budgetVars, roundVars, batchVars, gateVars, recordVars, userVars, cardVars
  <2>. QED BY <2>C, <2>B, <2>G, <2>R, <2>U, <2>N DEF TypeOK
<1>. QED BY <1>1, <1>2, <1>3, <1>4, <1>5, <1>6, <1>7, <1>8, <1>9, <1>10, <1>11, <1>12, <1>13, <1>14, <1>15, <1>16, <1>17, <1>18, <1>19, <1>20 DEF Next, TurnStep

(* What ran, what the model is told and what the ledger holds agree. *)
LEMMA LedgerStep ==
  ASSUME TypeOK, CountInv, LedgerInv, [Next]_vars
  PROVE  LedgerInv'
<1> USE DEF LedgerInv, InExecution, InBatch
<1>1. CASE NextRound
  BY <1>1 DEF NextRound, budgetVars, roundVars, batchVars, gateVars, recordVars, userVars, cardVars
<1>2. CASE OutOfRounds
  BY <1>2 DEF OutOfRounds, budgetVars, roundVars, batchVars, gateVars, recordVars, userVars, cardVars
<1>3. CASE ModelFails
  BY <1>3 DEF ModelFails, budgetVars, roundVars, batchVars, gateVars, recordVars, userVars, cardVars
<1>4. CASE Steered
  BY <1>4 DEF Steered, budgetVars, roundVars, batchVars, gateVars, recordVars, userVars, cardVars
<1>5. CASE Nudge
  BY <1>5 DEF Nudge, budgetVars, roundVars, batchVars, gateVars, recordVars, userVars, cardVars
<1>6. CASE LeakedCall
  BY <1>6 DEF LeakedCall, budgetVars, roundVars, batchVars, gateVars, recordVars, userVars, cardVars
<1>7. CASE Answer
  BY <1>7 DEF Answer, budgetVars, roundVars, batchVars, gateVars, recordVars, userVars, cardVars
<1>8. ASSUME NEW b \in Batches, ToolCalls(b) PROVE LedgerInv'
  <2>1. CASE NeedsCard(b) /\ mode = "edit"
    BY <1>8, <2>1 DEF ToolCalls, userVars
  <2>2. CASE ~(NeedsCard(b) /\ mode = "edit")
    <3>1. Dispatch(b) /\ batch' = b /\ round' = round /\ plans' = plans /\ fast' = fast /\ pc = "stream"
          /\ completed' = completed /\ memory' = memory /\ ran' = ran /\ round >= 1
      BY <1>8, <2>2 DEF ToolCalls, CountInv
    <3>2. kept' \subseteq Complete(b) /\ (~fast => kept' = Complete(b)) /\ pc' \in InBatch
      BY <3>1, DispatchType, KeptFacts
    <3>3. started' = started \cup Name(DOMAIN b) /\ Name(DOMAIN b)' = Name(DOMAIN b) /\ Complete(b)' = Complete(b)
      BY <3>1 DEF Dispatch, Name, Complete
    <3>. QED BY <3>1, <3>2, <3>3 DEF Name
  <2>. QED BY <2>1, <2>2
<1>9. CASE BoundaryConfirmed
  <2>1. batch' = batch /\ round' = round /\ plans' = plans /\ fast' = fast /\ pc = "boundary" /\ Dispatch(batch)
        /\ completed' = completed /\ memory' = memory /\ ran' = ran
    BY <1>9 DEF BoundaryConfirmed
  <2>2. kept' = Kept(batch) /\ pc' \in InBatch /\ started' = started \cup Name(DOMAIN batch)
    BY <2>1 DEF Dispatch
  <2>3. kept' \subseteq Complete(batch) /\ (~fast => kept' = Complete(batch))
    BY <2>2 DEF Kept, Skipped
  <2>. QED BY <2>1, <2>2, <2>3 DEF Name, Complete
<1>10. ASSUME NEW w \in BOOLEAN, BoundaryModified(w) PROVE LedgerInv'
  BY <1>10 DEF BoundaryModified, budgetVars, roundVars, batchVars, gateVars, recordVars, userVars, cardVars
<1>11. CASE BoundaryDeclined
  BY <1>11 DEF BoundaryDeclined, budgetVars, roundVars, batchVars, gateVars, recordVars, userVars, cardVars
<1>12. ASSUME NEW i \in 1..MaxBatch, AlreadyConfirmed(i) PROVE LedgerInv'
  BY <1>12 DEF AlreadyConfirmed, Passed, Name, Complete, budgetVars, recordVars
<1>13. ASSUME NEW i \in 1..MaxBatch, NEW yes \in BOOLEAN, CardAnswered(i, yes) PROVE LedgerInv'
  <2>1. i \in kept
    BY <1>13 DEF CardAnswered, IsNext, Confirmations
  <2>2. /\ pc \in InBatch /\ pc' \in InBatch /\ ran' = ran \cup Name({i}) /\ batch' = batch /\ kept' = kept
        /\ round' = round /\ plans' = plans /\ fast' = fast /\ started' = started /\ completed' = completed /\ memory' = memory
    BY <1>13 DEF CardAnswered, Passed, budgetVars
  <2>3. Name({i}) \subseteq Name(kept)
    BY <2>1 DEF Name
  <2>. QED BY <2>2, <2>3 DEF Name, Complete
<1>14. CASE ToolsEnd
  <2>1. /\ kept \subseteq Complete(batch) /\ Complete(batch) \subseteq DOMAIN batch
        /\ Executed(batch, kept) \subseteq kept
    BY <1>14 DEF ToolsEnd, Complete, Executed
  <2>2. Name(Executed(batch, kept)) \subseteq Name(kept)
    BY <2>1 DEF Name
  <2>3. ran' \subseteq completed'
    BY <1>14, <2>2 DEF ToolsEnd
  <2>4. ~fast => Name(DOMAIN batch) = Name(kept) \cup Name(DOMAIN batch \ Complete(batch))
    BY <1>14, <2>1 DEF ToolsEnd, Name
  <2>5. ~fast => started' = completed'
    BY <1>14, <2>4 DEF ToolsEnd
  <2>. QED BY <1>14, <2>3, <2>5 DEF ToolsEnd, budgetVars
<1>15. CASE Replan
  BY <1>15 DEF Replan, budgetVars, roundVars, batchVars, gateVars, recordVars, userVars, cardVars
<1>16. CASE NoMorePlans
  BY <1>16 DEF NoMorePlans, budgetVars, roundVars, batchVars, gateVars, recordVars, userVars, cardVars
<1>17. CASE Steer
  BY <1>17 DEF Steer, budgetVars, roundVars, batchVars, recordVars, Name, Complete
<1>18. CASE Aborted
  BY <1>18 DEF Aborted, budgetVars, roundVars, batchVars, gateVars, recordVars, userVars, cardVars
<1>19. ASSUME NEW S \in SUBSET (1..MaxBatch), ToolsAborted(S) PROVE LedgerInv'
  BY <1>19 DEF ToolsAborted, budgetVars, roundVars, batchVars, gateVars, recordVars, userVars, cardVars
<1>20. CASE UNCHANGED vars
  BY <1>20 DEF vars, budgetVars, roundVars, batchVars, recordVars, Name, Complete
<1>. QED BY <1>1, <1>2, <1>3, <1>4, <1>5, <1>6, <1>7, <1>8, <1>9, <1>10, <1>11, <1>12, <1>13, <1>14, <1>15, <1>16, <1>17, <1>18, <1>19, <1>20 DEF Next, TurnStep

(* The memory follows the ledger round by round, and a new planning starts *)
(* with neither.                                                           *)
LEMMA MemoryStep ==
  ASSUME TypeOK, LedgerInv, MemoryInv, [Next]_vars
  PROVE  MemoryInv'
<1> USE DEF MemoryInv, OfThisPlanning
<1>1. ASSUME UNCHANGED <<plans, completed, memory>>, pc' \in Remembers => pc \in Remembers
      PROVE  MemoryInv'
  BY <1>1 DEF Remembers, InBatch
<1>2. \/ NextRound \/ OutOfRounds \/ ModelFails \/ Steered \/ Nudge \/ LeakedCall \/ Answer
      \/ NoMorePlans \/ Aborted \/ Steer \/ UNCHANGED vars
      => MemoryInv'
  BY <1>1 DEF NextRound, OutOfRounds, ModelFails, Steered, Nudge, LeakedCall, Answer, NoMorePlans, Aborted,
              Steer, vars, recordVars, Remembers, InBatch
<1>3. ASSUME NEW b \in Batches, ToolCalls(b) PROVE MemoryInv'
  BY <1>1, <1>3 DEF ToolCalls, Remembers
<1>4. CASE BoundaryConfirmed
  BY <1>1, <1>4 DEF BoundaryConfirmed, Remembers
<1>5. ASSUME BoundaryDeclined \/ \E w \in BOOLEAN : BoundaryModified(w) PROVE MemoryInv'
  BY <1>5 DEF BoundaryDeclined, BoundaryModified, Remembers, InBatch
<1>6. ASSUME NEW i \in 1..MaxBatch, AlreadyConfirmed(i) \/ \E yes \in BOOLEAN : CardAnswered(i, yes)
      PROVE  MemoryInv'
  BY <1>1, <1>6 DEF AlreadyConfirmed, CardAnswered, recordVars, Remembers, InBatch
<1>7. CASE ToolsEnd
  <2>1. kept \subseteq Complete(batch) /\ Complete(batch) \subseteq DOMAIN batch /\ memory = OfThisPlanning(completed)
    BY <1>7 DEF ToolsEnd, LedgerInv, Complete, Remembers, InBatch
  <2>2. Paired(Echo(batch, kept), DOMAIN batch) = kept \cup (DOMAIN batch \ Complete(batch))
    BY <2>1 DEF Paired, Echo
  <2> DEFINE new == Name(kept) \cup Name(DOMAIN batch \ Complete(batch))
  <2>3. completed' = completed \cup new /\ memory' = memory \cup new /\ plans' = plans
    BY <1>7, <2>2 DEF ToolsEnd, Name
  <2>4. \A x \in new : x[1] = plans /\ x[1] \in 0..plans
    BY DEF Name, TypeOK, ControlType
  <2> HIDE DEF new
  <2>. QED BY <2>1, <2>3, <2>4
<1>8. CASE Replan
  <2>1. completed' = completed /\ memory' = {} /\ plans' = plans + 1 /\ plans \in Nat
    BY <1>8 DEF Replan, PlansCounted, TypeOK, ControlType
  <2>. QED BY <2>1
<1>9. ASSUME NEW S \in SUBSET (1..MaxBatch), ToolsAborted(S) PROVE MemoryInv'
  BY <1>1, <1>9 DEF ToolsAborted, Remembers, InBatch
<1>. QED BY <1>2, <1>3, <1>4, <1>5, <1>6, <1>7, <1>8, <1>9 DEF Next, TurnStep

(* A plan is confirmed at most once. *)
LEMMA ApprovedStep ==
  ASSUME TypeOK, GateInv, ApprovedOnce, [Next]_vars
  PROVE  ApprovedOnce'
<1> USE DEF ApprovedOnce
<1>1. CASE NextRound
  BY <1>1 DEF NextRound, budgetVars, roundVars, batchVars, gateVars, recordVars, userVars, cardVars
<1>2. CASE OutOfRounds
  BY <1>2 DEF OutOfRounds, budgetVars, roundVars, batchVars, gateVars, recordVars, userVars, cardVars
<1>3. CASE ModelFails
  BY <1>3 DEF ModelFails, budgetVars, roundVars, batchVars, gateVars, recordVars, userVars, cardVars
<1>4. CASE Steered
  BY <1>4 DEF Steered, budgetVars, roundVars, batchVars, gateVars, recordVars, userVars, cardVars
<1>5. CASE Nudge
  BY <1>5 DEF Nudge, budgetVars, roundVars, batchVars, gateVars, recordVars, userVars, cardVars
<1>6. CASE LeakedCall
  BY <1>6 DEF LeakedCall, budgetVars, roundVars, batchVars, gateVars, recordVars, userVars, cardVars
<1>7. CASE Answer
  BY <1>7 DEF Answer, budgetVars, roundVars, batchVars, gateVars, recordVars, userVars, cardVars
<1>8. ASSUME NEW b \in Batches, ToolCalls(b) PROVE ApprovedOnce'
  BY <1>8 DEF ToolCalls, budgetVars, roundVars, batchVars, gateVars, recordVars, userVars, cardVars
<1>9. CASE BoundaryConfirmed
  <2>1. ~done /\ approvals = 0
    BY <1>9 DEF BoundaryConfirmed, GateInv, TypeOK, GateType
  <2>. QED BY <1>9, <2>1 DEF BoundaryConfirmed
<1>10. ASSUME NEW w \in BOOLEAN, BoundaryModified(w) PROVE ApprovedOnce'
  BY <1>10 DEF BoundaryModified, budgetVars, roundVars, batchVars, gateVars, recordVars, userVars, cardVars
<1>11. CASE BoundaryDeclined
  BY <1>11 DEF BoundaryDeclined, budgetVars, roundVars, batchVars, gateVars, recordVars, userVars, cardVars
<1>12. ASSUME NEW i \in 1..MaxBatch, AlreadyConfirmed(i) PROVE ApprovedOnce'
  BY <1>12 DEF AlreadyConfirmed, budgetVars, roundVars, batchVars, gateVars, recordVars, userVars, cardVars
<1>13. ASSUME NEW i \in 1..MaxBatch, NEW yes \in BOOLEAN, CardAnswered(i, yes) PROVE ApprovedOnce'
  <2>1. CASE batch[i].kind = "plan"
    <3>1. ~done /\ approvals = 0
      BY <1>13, <2>1 DEF CardAnswered, Short, TypeOK, GateType
    <3>. QED BY <1>13, <2>1, <3>1 DEF CardAnswered
  <2>2. CASE batch[i].kind # "plan"
    BY <1>13, <2>2 DEF CardAnswered
  <2>. QED BY <2>1, <2>2
<1>14. CASE ToolsEnd
  BY <1>14 DEF ToolsEnd, budgetVars, roundVars, batchVars, gateVars, recordVars, userVars, cardVars
<1>15. CASE Replan
  <2>1. ~done /\ approvals = 0
    BY <1>15 DEF Replan, GateInv, TypeOK, GateType
  <2>. QED BY <1>15, <2>1 DEF Replan
<1>16. CASE NoMorePlans
  <2>1. ~done /\ approvals = 0
    BY <1>16 DEF NoMorePlans, GateInv, TypeOK, GateType
  <2>. QED BY <1>16, <2>1 DEF NoMorePlans, cardVars
<1>17. CASE Steer
  BY <1>17 DEF Steer, budgetVars, roundVars, batchVars, gateVars, recordVars, userVars, cardVars
<1>18. CASE Aborted
  BY <1>18 DEF Aborted, budgetVars, roundVars, batchVars, gateVars, recordVars, userVars, cardVars
<1>19. ASSUME NEW S \in SUBSET (1..MaxBatch), ToolsAborted(S) PROVE ApprovedOnce'
  BY <1>19 DEF ToolsAborted, budgetVars, roundVars, batchVars, gateVars, recordVars, userVars, cardVars
<1>20. CASE UNCHANGED vars
  BY <1>20 DEF vars, budgetVars, roundVars, batchVars, gateVars, recordVars, userVars, cardVars
<1>. QED BY <1>1, <1>2, <1>3, <1>4, <1>5, <1>6, <1>7, <1>8, <1>9, <1>10, <1>11, <1>12, <1>13, <1>14, <1>15, <1>16, <1>17, <1>18, <1>19, <1>20 DEF Next, TurnStep

(* A rejection keeps the gate shut until the next confirmation. *)
LEMMA GateStep ==
  ASSUME TypeOK, CountInv, GateInv, [Next]_vars
  PROVE  GateInv'
<1> USE DEF GateInv, InBatch, Rolling, PlanAsked
<1>1. CASE NextRound
  BY <1>1 DEF NextRound, KindsOf, Confirmations, GateShut, budgetVars, roundVars, batchVars, gateVars, recordVars, userVars, cardVars
<1>2. CASE OutOfRounds
  BY <1>2 DEF OutOfRounds, KindsOf, Confirmations, GateShut, budgetVars, roundVars, batchVars, gateVars, recordVars, userVars, cardVars
<1>3. CASE ModelFails
  BY <1>3 DEF ModelFails, KindsOf, Confirmations, GateShut, budgetVars, roundVars, batchVars, gateVars, recordVars, userVars, cardVars
<1>4. CASE Steered
  BY <1>4 DEF Steered, KindsOf, Confirmations, GateShut, budgetVars, roundVars, batchVars, gateVars, recordVars, userVars, cardVars
<1>5. CASE Nudge
  BY <1>5 DEF Nudge, KindsOf, Confirmations, GateShut, budgetVars, roundVars, batchVars, gateVars, recordVars, userVars, cardVars
<1>6. CASE LeakedCall
  BY <1>6 DEF LeakedCall, KindsOf, Confirmations, GateShut, budgetVars, roundVars, batchVars, gateVars, recordVars, userVars, cardVars
<1>7. CASE Answer
  BY <1>7 DEF Answer, KindsOf, Confirmations, GateShut, budgetVars, roundVars, batchVars, gateVars, recordVars, userVars, cardVars
<1>8. ASSUME NEW b \in Batches, ToolCalls(b) PROVE GateInv'
  <2>1. /\ pc = "stream" /\ batch' = b /\ blocked' = blocked /\ rejected' = rejected
        /\ rejected => ~NeedsCard(b)
        /\ (~done => seen' = SeenSoFar(b)) /\ (done => seen' = seen)
    BY <1>8 DEF ToolCalls, NeedsCard, SeenSoFar
  <2>2. CASE NeedsCard(b) /\ mode = "edit"
    BY <1>8, <2>1, <2>2 DEF ToolCalls, NeedsCard
  <2>3. CASE ~(NeedsCard(b) /\ mode = "edit")
    <3>1. Dispatch(b) /\ done' = (done \/ NeedsCard(b)) /\ kept' = Kept(b) /\ at' = {}
      BY <1>8, <2>3 DEF ToolCalls, Dispatch
    <3>3. pc' \in InBatch /\ (pc' = "tools" => Confirmations(batch', kept') = {})
      BY <2>1, <3>1 DEF Dispatch
    <3>4. KindsOf(b, Kept(b)) \subseteq SeenSoFar(b)
      BY DEF KindsOf, SeenSoFar, Kept, Complete
    <3>. QED BY <2>1, <3>1, <3>3, <3>4 DEF KindsOf, Confirmations, GateShut, SeenSoFar
  <2>. QED BY <2>2, <2>3
<1>9. CASE BoundaryConfirmed
  <2>1. /\ done' = TRUE /\ rejected' = FALSE /\ at' = {} /\ pc' \in InBatch
        /\ batch' = batch /\ blocked' = blocked /\ kept' = Kept(batch)
        /\ pc' = "tools" => Confirmations(batch, Kept(batch)) = {}
    BY <1>9 DEF BoundaryConfirmed, Dispatch
  <2>. QED BY <2>1 DEF Confirmations, GateShut, KindsOf
<1>10. ASSUME NEW w \in BOOLEAN, BoundaryModified(w) PROVE GateInv'
  BY <1>10 DEF BoundaryModified, KindsOf, Confirmations, GateShut, budgetVars, roundVars, batchVars, gateVars, recordVars, userVars, cardVars
<1>11. CASE BoundaryDeclined
  BY <1>11 DEF BoundaryDeclined, KindsOf, Confirmations, GateShut, budgetVars, roundVars, batchVars, gateVars, recordVars, userVars, cardVars
<1>12. ASSUME NEW i \in 1..MaxBatch, AlreadyConfirmed(i) PROVE GateInv'
  <2>1. /\ done /\ done' = done /\ rejected' = rejected /\ blocked' = blocked /\ batch' = batch /\ kept' = kept
        /\ pc = "confirm" /\ at' = at \cup {i} /\ pc' \in InBatch
        /\ pc' = "tools" => Confirmations(batch, kept) \ at = {i}
    BY <1>12 DEF AlreadyConfirmed, Short, Passed, gateVars, cardVars
  <2>. QED BY <2>1 DEF Confirmations, GateShut, KindsOf
<1>13. ASSUME NEW i \in 1..MaxBatch, NEW yes \in BOOLEAN, CardAnswered(i, yes) PROVE GateInv'
  <2>1. /\ batch' = batch /\ kept' = kept /\ seen' = seen /\ allOk' = (allOk /\ yes)
        /\ pc = "confirm" /\ at' = at \cup {i} /\ pc' \in InBatch /\ i \in kept
        /\ pc' = "tools" => Confirmations(batch, kept) \ at = {i}
    BY <1>13 DEF CardAnswered, Passed, IsNext, Confirmations
  <2>2. CASE batch[i].kind = "plan"
    <3>1. /\ ~done /\ blocked' = ~yes /\ done' = yes /\ rejected' = ~yes
      BY <1>13, <2>2 DEF CardAnswered, Short
    <3>2. "plan" \in KindsOf(batch, kept)
      BY <2>1, <2>2 DEF KindsOf
    <3>3. Confirmations(batch, kept)' = Confirmations(batch, kept) /\ KindsOf(batch, kept)' = KindsOf(batch, kept)
      BY <2>1, <3>2 DEF Confirmations, GateShut, KindsOf
    <3>. QED BY <2>1, <3>1, <3>2, <3>3
  <2>3. CASE batch[i].kind # "plan"
    <3>1. blocked' = blocked /\ done' = done /\ rejected' = rejected
      BY <1>13, <2>3 DEF CardAnswered
    <3>2. Confirmations(batch, kept)' = Confirmations(batch, kept) /\ KindsOf(batch, kept)' = KindsOf(batch, kept)
      BY <2>1, <3>1 DEF Confirmations, GateShut, KindsOf
    <3>3. PlanAsked' => PlanAsked
      BY <2>1, <2>3
    <3>. QED BY <2>1, <3>1, <3>2, <3>3
  <2>. QED BY <2>2, <2>3
<1>14. CASE ToolsEnd
  BY <1>14 DEF ToolsEnd, KindsOf, Confirmations, GateShut, budgetVars, roundVars, batchVars, gateVars, recordVars, userVars, cardVars
<1>15. CASE Replan
  BY <1>15 DEF Replan, KindsOf, Confirmations, GateShut, budgetVars, roundVars, batchVars, gateVars, recordVars, userVars, cardVars
<1>16. CASE NoMorePlans
  BY <1>16 DEF NoMorePlans, KindsOf, Confirmations, GateShut, budgetVars, roundVars, batchVars, gateVars, recordVars, userVars, cardVars
<1>17. CASE Steer
  BY <1>17 DEF Steer, KindsOf, Confirmations, GateShut, budgetVars, roundVars, batchVars, gateVars, recordVars, userVars, cardVars
<1>18. CASE Aborted
  BY <1>18 DEF Aborted, KindsOf, Confirmations, GateShut, budgetVars, roundVars, batchVars, gateVars, recordVars, userVars, cardVars
<1>19. ASSUME NEW S \in SUBSET (1..MaxBatch), ToolsAborted(S) PROVE GateInv'
  BY <1>19 DEF ToolsAborted, KindsOf, Confirmations, GateShut, budgetVars, roundVars, batchVars, gateVars, recordVars, userVars, cardVars
<1>20. CASE UNCHANGED vars
  BY <1>20 DEF vars, KindsOf, Confirmations, GateShut, budgetVars, roundVars, batchVars, gateVars, recordVars, userVars, cardVars
<1>. QED BY <1>1, <1>2, <1>3, <1>4, <1>5, <1>6, <1>7, <1>8, <1>9, <1>10, <1>11, <1>12, <1>13, <1>14, <1>15, <1>16, <1>17, <1>18, <1>19, <1>20 DEF Next, TurnStep

(* Complex work is confirmed or waits. *)
LEMMA PlanStep ==
  ASSUME TypeOK, CountInv, GateInv, PlanInv, [Next]_vars
  PROVE  PlanInv'
<1> USE DEF PlanInv, InBatch, Rolling, PlanAsked
<1>1. CASE NextRound
  BY <1>1 DEF NextRound, CountInv, KindsOf, budgetVars, roundVars, batchVars, gateVars, recordVars, userVars, cardVars
<1>2. CASE OutOfRounds
  BY <1>2 DEF OutOfRounds, KindsOf, budgetVars, roundVars, batchVars, gateVars, recordVars, userVars, cardVars
<1>3. CASE ModelFails
  BY <1>3 DEF ModelFails, KindsOf, budgetVars, roundVars, batchVars, gateVars, recordVars, userVars, cardVars
<1>4. CASE Steered
  BY <1>4 DEF Steered, KindsOf, budgetVars, roundVars, batchVars, gateVars, recordVars, userVars, cardVars
<1>5. CASE Nudge
  BY <1>5 DEF Nudge, KindsOf, budgetVars, roundVars, batchVars, gateVars, recordVars, userVars, cardVars
<1>6. CASE LeakedCall
  BY <1>6 DEF LeakedCall, KindsOf, budgetVars, roundVars, batchVars, gateVars, recordVars, userVars, cardVars
<1>7. CASE Answer
  BY <1>7 DEF Answer, KindsOf, budgetVars, roundVars, batchVars, gateVars, recordVars, userVars, cardVars
<1>8. ASSUME NEW b \in Batches, ToolCalls(b) PROVE PlanInv'
  <2> SUFFICES ASSUME mode = "edit" PROVE PlanInv'
    BY <1>8 DEF ToolCalls
  <2>1. /\ pc = "stream" /\ mode' = mode /\ batch' = b /\ blocked' = blocked /\ nod' = nod /\ finalizing' = finalizing
        /\ (~done => seen' = SeenSoFar(b) /\ calls' = calls + Len(b)) /\ (done => seen' = seen)
        /\ cut => cut'
    BY <1>8 DEF ToolCalls
  <2>2. CASE NeedsCard(b)
    BY <1>8, <2>1, <2>2 DEF ToolCalls, NeedsCard
  <2>3. CASE ~NeedsCard(b)
    <3>1. done' = done /\ kept' = Kept(b) /\ at' = {} /\ cardOk' = FALSE /\ pc' \in InBatch
      BY <1>8, <2>3 DEF ToolCalls, Dispatch, TypeOK, GateType
    <3>2. ~done /\ "plan" \notin seen' => ~Warranted(seen', calls')
      BY <2>1, <2>3 DEF NeedsCard
    <3>3. finalizing => Kept(b) = {}
      BY KeptFacts DEF CountInv
    <3>4. "plan" \in seen' => cut' \/ nod \/ finalizing \/ blocked \/ "plan" \in KindsOf(b, Kept(b))
      <4>1. CASE done \/ "plan" \in seen
        BY <2>1, <4>1
      <4>2. ASSUME NEW i \in DOMAIN b, b[i].kind = "plan", i \notin Kept(b), ~finalizing PROVE cut'
        <5>1. b[i] \in Calls /\ b[i].truncated = TRUE
          BY <4>2, BatchFacts, KeptFacts
        <5>2. b[i] = [kind |-> "plan", truncated |-> TRUE]
          BY <4>2, <5>1 DEF Calls
        <5>. QED BY <1>8, <5>2 DEF ToolCalls
      <4>3. CASE ~done /\ "plan" \notin seen
        BY <2>1, <4>2, <4>3 DEF SeenSoFar, KindsOf
      <4>. QED BY <4>1, <4>3
    <3>. QED BY <2>1, <3>1, <3>2, <3>3, <3>4
  <2>. QED BY <2>2, <2>3
<1>9. CASE BoundaryConfirmed
  <2>1. /\ done' = TRUE /\ nod' = TRUE /\ mode' = mode /\ finalizing' = finalizing
        /\ kept' = Kept(batch) /\ pc' \in InBatch
    BY <1>9 DEF BoundaryConfirmed, Dispatch
  <2>2. finalizing => Kept(batch) = {}
    BY DEF Kept, Skipped, CountInv
  <2>. QED BY <2>1, <2>2
<1>10. ASSUME NEW w \in BOOLEAN, BoundaryModified(w) PROVE PlanInv'
  BY <1>10 DEF BoundaryModified, KindsOf, budgetVars, roundVars, batchVars, gateVars, recordVars, userVars, cardVars
<1>11. CASE BoundaryDeclined
  BY <1>11 DEF BoundaryDeclined, KindsOf, budgetVars, roundVars, batchVars, gateVars, recordVars, userVars, cardVars
<1>12. ASSUME NEW i \in 1..MaxBatch, AlreadyConfirmed(i) PROVE PlanInv'
  <2>1. /\ done /\ done' = done /\ nod' = nod /\ cardOk' = cardOk /\ kept' = kept
        /\ mode' = mode /\ finalizing' = finalizing /\ pc = "confirm" /\ pc' \in InBatch
    BY <1>12 DEF AlreadyConfirmed, Short, Passed, budgetVars, gateVars, cardVars
  <2>. QED BY <2>1
<1>13. ASSUME NEW i \in 1..MaxBatch, NEW yes \in BOOLEAN, CardAnswered(i, yes) PROVE PlanInv'
  <2>1. /\ mode' = mode /\ batch' = batch /\ kept' = kept /\ seen' = seen /\ calls' = calls /\ cut' = cut
        /\ finalizing' = finalizing /\ allOk' = (allOk /\ yes) /\ nod' = (nod \/ yes)
        /\ pc = "confirm" /\ at' = at \cup {i} /\ pc' \in InBatch /\ i \in kept
    BY <1>13 DEF CardAnswered, Passed, IsNext, Confirmations, budgetVars
  <2>2. CASE batch[i].kind = "plan"
    <3>1. ~done /\ blocked' = ~yes /\ done' = yes /\ cardOk' = cardOk
      BY <1>13, <2>2 DEF CardAnswered, Short
    <3>2. "plan" \in KindsOf(batch, kept) /\ "plan" \in seen
      BY <2>1, <2>2, <3>1 DEF KindsOf, GateInv
    <3>. QED BY <2>1, <3>1, <3>2
  <2>3. CASE batch[i].kind # "plan"
    <3>1. blocked' = blocked /\ done' = done /\ cardOk' = (cardOk \/ yes)
      BY <1>13, <2>3 DEF CardAnswered
    <3>2. PlanAsked' => PlanAsked
      BY <2>1, <2>3
    <3>. QED BY <2>1, <3>1, <3>2
  <2>. QED BY <2>2, <2>3
<1>14. CASE ToolsEnd
  <2>1. /\ pc = "tools" /\ pc' = "top" /\ mode' = mode /\ done' = (done \/ cardOk) /\ cardOk' = FALSE
        /\ seen' = seen /\ calls' = calls /\ cut' = cut /\ nod' = nod /\ blocked' = blocked /\ finalizing' = finalizing
    BY <1>14 DEF ToolsEnd, budgetVars
  <2>2. "plan" \in KindsOf(batch, kept) => PlanAsked
    BY <2>1 DEF GateInv, KindsOf, Confirmations, GateShut
  <2>. QED BY <2>1, <2>2
<1>15. CASE Replan
  <2>1. ~Warranted({}, 0)
    BY DEF Warranted
  <2>. QED BY <1>15, <2>1 DEF Replan
<1>16. CASE NoMorePlans
  BY <1>16 DEF NoMorePlans, KindsOf, budgetVars, roundVars, batchVars, gateVars, recordVars, userVars, cardVars
<1>17. CASE Steer
  BY <1>17 DEF Steer, KindsOf, budgetVars, roundVars, batchVars, gateVars, recordVars, userVars, cardVars
<1>18. CASE Aborted
  BY <1>18 DEF Aborted, KindsOf, budgetVars, roundVars, batchVars, gateVars, recordVars, userVars, cardVars
<1>19. ASSUME NEW S \in SUBSET (1..MaxBatch), ToolsAborted(S) PROVE PlanInv'
  BY <1>19 DEF ToolsAborted, KindsOf, budgetVars, roundVars, batchVars, gateVars, recordVars, userVars, cardVars
<1>20. CASE UNCHANGED vars
  BY <1>20 DEF vars, KindsOf, budgetVars, roundVars, batchVars, gateVars, recordVars, userVars, cardVars
<1>. QED BY <1>1, <1>2, <1>3, <1>4, <1>5, <1>6, <1>7, <1>8, <1>9, <1>10, <1>11, <1>12, <1>13, <1>14, <1>15, <1>16, <1>17, <1>18, <1>19, <1>20 DEF Next, TurnStep

-----------------------------------------------------------------------------
(* What a mutating tool finds when it runs *)

(* Only the parallel tools of a response write. *)
LEMMA WritersAreTools ==
  ASSUME [Next]_vars, Wrote
  PROVE  pc = "tools" /\ \E i \in Executed(batch, kept) : batch[i].kind = "write"
<1>1. PICK i \in DOMAIN batch : batch[i].kind = "write" /\ <<plans, round, i>> \in ran' \ ran
  BY DEF Wrote
<1>2. ASSUME NEW S, ran' = ran \cup Name(S) PROVE i \in S
  BY <1>1, <1>2 DEF Name
<1>3. ran' # ran /\ ran' # {}
  BY <1>1
<1>4. ASSUME NEW j \in 1..MaxBatch, NEW yes \in BOOLEAN, CardAnswered(j, yes) PROVE FALSE
  <2>1. j \in Confirmations(batch, kept)
    BY <1>4 DEF CardAnswered, IsNext
  <2>2. batch[j].kind \in {"plan", "card"}
    BY <2>1 DEF Confirmations
  <2>. QED BY <1>1, <1>2, <1>4, <2>2 DEF CardAnswered
<1>5. CASE ToolsEnd
  BY <1>1, <1>2, <1>5 DEF ToolsEnd
<1>6. ASSUME NEW S \in SUBSET (1..MaxBatch), ToolsAborted(S)
      PROVE  pc = "tools" /\ i \in Executed(batch, kept)
  BY <1>2, <1>6 DEF ToolsAborted
<1>. QED
  BY <1>1, <1>3, <1>4, <1>5, <1>6
  DEF Next, TurnStep, vars, recordVars, NextRound, OutOfRounds, ModelFails, Steered, Nudge, LeakedCall, Answer,
      ToolCalls, BoundaryConfirmed, BoundaryDeclined, BoundaryModified, AlreadyConfirmed, Replan, NoMorePlans,
      Steer, Aborted

(* When it runs, the gate is open, and no plan card of its response was    *)
(* refused.                                                                *)
LEMMA GateWasOpen ==
  ASSUME TypeOK, GateInv, pc = "tools",
         NEW i \in Executed(batch, kept), batch[i].kind = "write"
  PROVE  /\ ~GateShut(batch, kept) /\ allOk /\ kept # {}
         /\ "plan" \in KindsOf(batch, kept) => PlanAsked
<1>1. ~GateShut(batch, kept)
  BY DEF Executed, Mutating
<1>2. allOk /\ i \in kept
  BY <1>1 DEF Executed
<1>3. "plan" \in KindsOf(batch, kept) => PlanAsked
  BY <1>1 DEF GateInv, InBatch, Confirmations, KindsOf, PlanAsked
<1>. QED BY <1>1, <1>2, <1>3

-----------------------------------------------------------------------------
(* Theorems *)

(* The strengthened invariant is inductive. *)
THEOREM InvariantHolds == Spec => []TInv
<1>1. TInv /\ [Next]_vars => TInv'
  BY TypeStep, LedgerStep, MemoryStep, ApprovedStep, GateStep, PlanStep DEF TInv
<1>. QED BY InitHolds, <1>1, PTL DEF Spec

(* Every variable keeps its type: the rounds, the nudges, the plannings    *)
(* and the search phases never pass their caps.                            *)
THEOREM TypeCorrect == Spec => []TypeOK
<1>1. TInv => TypeOK
  BY DEF TInv
<1>. QED BY InvariantHolds, <1>1, PTL

(* A plan that was confirmed is never asked about again, and the           *)
(* confirmation stands to the end of the turn.                             *)
THEOREM OnePlanConfirmation == Spec => []ApprovedOnce
<1>1. TInv => ApprovedOnce
  BY DEF TInv
<1>. QED BY InvariantHolds, <1>1, PTL

(* What ran is completed in the ledger, in every planning of the turn; of  *)
(* this planning the memory holds what the ledger completed, after every   *)
(* round and at the end of an answered or exhausted turn.                  *)
THEOREM RoundsAreRecorded == Spec => []NothingIsForgotten
<1>1. TInv => NothingIsForgotten
  BY DEF TInv, LedgerInv, MemoryInv, Remembers, NothingIsForgotten
<1>. QED BY InvariantHolds, <1>1, PTL

(* A plan the user turned down keeps every mutating tool from running,     *)
(* over all rounds, until the user confirms.                               *)
THEOREM RejectedPlansBlock == Spec => GateHolds
<1>1. TInv /\ [Next]_vars => [Wrote => ~rejected]_vars
  <2> SUFFICES ASSUME TInv, [Next]_vars, Wrote, rejected PROVE FALSE
    OBVIOUS
  <2>1. PICK i \in Executed(batch, kept) : pc = "tools" /\ batch[i].kind = "write"
    BY WritersAreTools
  <2>2. /\ ~GateShut(batch, kept) /\ allOk /\ ("plan" \in KindsOf(batch, kept) => PlanAsked)
    BY <2>1, GateWasOpen DEF TInv
  <2>3. blocked /\ (PlanAsked => ~allOk)
    BY <2>1 DEF TInv, GateInv, Rolling, InBatch
  <2>. QED BY <2>2, <2>3 DEF GateShut
<1>. QED BY InvariantHolds, <1>1, PTL DEF Spec, GateHolds

(* No mutating tool of a complex task runs before the user confirmed a     *)
(* card of this planning, the truncated plan card aside.                   *)
THEOREM ComplexWorkWaits == Spec => ComplexWorkIsConfirmed
<1>1. TInv /\ [Next]_vars => [Wrote /\ mode = "edit" /\ Warranted(seen, calls) => nod \/ cut]_vars
  <2> SUFFICES ASSUME TInv, [Next]_vars, Wrote, mode = "edit", Warranted(seen, calls), ~nod, ~cut PROVE FALSE
    OBVIOUS
  <2>1. PICK i \in Executed(batch, kept) : pc = "tools" /\ batch[i].kind = "write"
    BY WritersAreTools
  <2>2. /\ ~GateShut(batch, kept) /\ allOk /\ kept # {}
        /\ "plan" \in KindsOf(batch, kept) => PlanAsked
    BY <2>1, GateWasOpen DEF TInv
  <2>3. ~done /\ "plan" \in seen /\ ~finalizing
    BY <2>1, <2>2 DEF TInv, PlanInv, Rolling, InBatch
  <2>4. ~PlanAsked
    BY <2>1, <2>2 DEF TInv, PlanInv, InBatch
  <2>5. blocked
    BY <2>1, <2>2, <2>3, <2>4 DEF TInv, PlanInv, InBatch
  <2>. QED BY <2>2, <2>4, <2>5 DEF GateShut
<1>. QED BY InvariantHolds, <1>1, PTL DEF Spec, ComplexWorkIsConfirmed

-----------------------------------------------------------------------------
(* Why a turn ends *)

(* Every step of the turn by itself goes forward.                          *)
LEMMA StepsGoForward ==
  ASSUME TypeOK, TurnStep
  PROVE  pc \in Active /\ GoesForward
<1> USE DEF Active, Ended
<1>1. CASE NextRound
  <2>1. round' = round + 1 /\ round \in Nat
    BY <1>1 DEF NextRound, TypeOK, ControlType
  <2>. QED BY <1>1, <2>1 DEF NextRound, GoesForward
<1>2. CASE OutOfRounds \/ ModelFails \/ Answer \/ NoMorePlans
  BY <1>2 DEF OutOfRounds, ModelFails, Answer, NoMorePlans, GoesForward
<1>3. CASE Steered \/ Nudge \/ LeakedCall
  BY <1>3 DEF Steered, Nudge, LeakedCall, roundVars, GoesForward, Stage
<1>4. ASSUME NEW b \in Batches, ToolCalls(b) PROVE pc \in Active /\ GoesForward
  <2>1. pc = "stream" /\ pc' \in {"boundary", "confirm", "tools"}
    BY <1>4 DEF ToolCalls, Dispatch
  <2>. QED BY <1>4, <2>1 DEF ToolCalls, GoesForward, Stage
<1>5. CASE BoundaryConfirmed
  <2>1. pc = "boundary" /\ pc' \in {"confirm", "tools"}
    BY <1>5 DEF BoundaryConfirmed, Dispatch
  <2>. QED BY <1>5, <2>1 DEF BoundaryConfirmed, GoesForward, Stage
<1>6. CASE BoundaryDeclined
  BY <1>6 DEF BoundaryDeclined, GoesForward
<1>7. ASSUME NEW worded \in BOOLEAN, BoundaryModified(worded) PROVE pc \in Active /\ GoesForward
  BY <1>7 DEF BoundaryModified, roundVars, GoesForward, Stage
<1>8. ASSUME NEW i \in 1..MaxBatch,
             AlreadyConfirmed(i) \/ \E yes \in BOOLEAN : CardAnswered(i, yes)
      PROVE  pc \in Active /\ GoesForward
  <2>1. /\ pc = "confirm" /\ i \notin at /\ Passed(i)
        /\ plans' = plans /\ round' = round
    BY <1>8 DEF AlreadyConfirmed, CardAnswered, IsNext
  <2>. QED BY <2>1 DEF Passed, GoesForward, Stage
<1>9. CASE ToolsEnd
  BY <1>9 DEF ToolsEnd, GoesForward, Stage
<1>10. CASE Replan
  <2>1. plans' = plans + 1 /\ plans \in Nat
    BY <1>10, TurnAssumption DEF Replan, PlansCounted, TypeOK, ControlType
  <2>. QED BY <1>10, <2>1 DEF Replan, GoesForward
<1>. QED BY <1>1, <1>2, <1>3, <1>4, <1>5, <1>6, <1>7, <1>8, <1>9, <1>10 DEF TurnStep

(* No step of the turn, of the model, of the user or of an abort takes it  *)
(* back: plannings, rounds, parts of a round and confirmations only go up, *)
(* and after the end nothing happens.                                      *)
THEOREM TurnNeverGoesBack == Spec => NeverBack
<1> DEFINE Step == /\ pc \in Active
                   /\ GoesForward \/ (queued' > queued /\ UNCHANGED <<pc, plans, round, at>>)
<1>1. TypeOK /\ [Next]_vars => [Step]_vars
  <2> SUFFICES ASSUME TypeOK, Next PROVE Step
    OBVIOUS
  <2>1. CASE TurnStep
    BY <2>1, StepsGoForward
  <2>2. CASE Steer
    <3>1. queued \in Nat /\ queued' = queued + 1
      BY <2>2, TurnAssumption DEF Steer, TypeOK, UserType
    <3>. QED BY <2>2, <3>1 DEF Steer, roundVars, batchVars
  <2>3. CASE Aborted
    BY <2>3 DEF Aborted, GoesForward, Active, Ended
  <2>4. ASSUME NEW S \in SUBSET (1..MaxBatch), ToolsAborted(S) PROVE Step
    BY <2>4 DEF ToolsAborted, GoesForward, Active, Ended
  <2>. QED BY <2>1, <2>2, <2>3, <2>4 DEF Next
<1>. QED BY TypeCorrect, <1>1, PTL DEF Spec, NeverBack

(* The rounds stay within the cap of the mode, and execute_many asks only  *)
(* while it has something to ask.                                          *)
GoInv ==
  /\ round <= Limit
  /\ pc = "confirm" => Confirmations(batch, kept) \ at # {}

LEMMA GoStep ==
  ASSUME TypeOK, GoInv, [Next]_vars
  PROVE  GoInv'
<1>0. Limit' = Limit /\ Limit \in Nat
  <2>1. fast' = fast
    BY DEF Next, TurnStep, NextRound, OutOfRounds, ModelFails, Steered, Nudge, LeakedCall, Answer, ToolCalls,
       BoundaryConfirmed, BoundaryDeclined, BoundaryModified, AlreadyConfirmed, CardAnswered, ToolsEnd, Replan,
       NoMorePlans, Steer, Aborted, ToolsAborted, budgetVars, vars
  <2>. QED BY <2>1, LimitType DEF Limit
<1>1. CASE NextRound
  <2>1. round \in Nat /\ round < Limit /\ round' = round + 1
    BY <1>1 DEF NextRound, TypeOK, ControlType
  <2>. QED BY <1>0, <1>1, <2>1 DEF NextRound, GoInv
<1>2. CASE OutOfRounds \/ ModelFails \/ Steered \/ Nudge \/ LeakedCall \/ Answer \/ BoundaryDeclined \/ NoMorePlans
           \/ Aborted
  <2>1. round' = round /\ pc' # "confirm"
    BY <1>2 DEF OutOfRounds, ModelFails, Steered, Nudge, LeakedCall, Answer, BoundaryDeclined, NoMorePlans, Aborted,
       roundVars
  <2>. QED BY <1>0, <2>1 DEF GoInv
<1>3. ASSUME NEW worded \in BOOLEAN, BoundaryModified(worded) PROVE GoInv'
  <2>1. round' = round /\ pc' # "confirm"
    BY <1>3 DEF BoundaryModified, roundVars
  <2>. QED BY <1>0, <2>1 DEF GoInv
<1>4. ASSUME NEW S \in SUBSET (1..MaxBatch), ToolsAborted(S) PROVE GoInv'
  <2>1. round' = round /\ pc' # "confirm"
    BY <1>4 DEF ToolsAborted, roundVars
  <2>. QED BY <1>0, <2>1 DEF GoInv
<1>5. CASE ToolsEnd
  <2>1. round' = round /\ pc' # "confirm"
    BY <1>5 DEF ToolsEnd
  <2>. QED BY <1>0, <2>1 DEF GoInv
<1>6. CASE Replan
  <2>1. round' = 0 /\ pc' # "confirm"
    BY <1>6 DEF Replan
  <2>. QED BY <1>0, <2>1 DEF GoInv
<1>7. ASSUME NEW b, blocked' = blocked, Dispatch(b), batch' = b, round' = round PROVE GoInv'
  <2>1. pc' = "confirm" => Confirmations(b, Kept(b)) # {}
    BY <1>7 DEF Dispatch
  <2>2. PICK K : K = Kept(b)
    OBVIOUS
  <2>3. batch' = b /\ kept' = K /\ at' = {}
    BY <1>7, <2>2 DEF Dispatch
  <2>4. Confirmations(batch, kept)' = Confirmations(b, K)
    BY <1>7, <2>3 DEF Confirmations, GateShut, KindsOf
  <2>. QED BY <1>0, <1>7, <2>1, <2>2, <2>3, <2>4 DEF GoInv
<1>8. ASSUME NEW b \in Batches, ToolCalls(b) PROVE GoInv'
  <2>1. CASE pc' = "boundary"
    BY <1>0, <1>8, <2>1 DEF ToolCalls, GoInv
  <2>2. CASE pc' # "boundary"
    BY <1>7, <1>8, <2>2 DEF ToolCalls
  <2>. QED BY <2>1, <2>2
<1>9. CASE BoundaryConfirmed
  BY <1>7, <1>9 DEF BoundaryConfirmed
<1>10. ASSUME NEW i \in 1..MaxBatch,
              AlreadyConfirmed(i) \/ \E yes \in BOOLEAN : CardAnswered(i, yes)
       PROVE  GoInv'
  <2>1. /\ i \in Confirmations(batch, kept) \ at /\ Passed(i)
        /\ UNCHANGED <<round, batch, kept>>
        /\ blocked' = blocked \/ batch[i].kind = "plan"
    BY <1>10 DEF AlreadyConfirmed, CardAnswered, IsNext, gateVars
  <2>2. i \in kept /\ (batch[i].kind = "plan" => "plan" \in KindsOf(batch, kept))
    BY <2>1 DEF Confirmations, KindsOf
  <2>3. Confirmations(batch, kept)' = Confirmations(batch, kept)
    BY <2>1, <2>2 DEF Confirmations, GateShut, KindsOf
  <2>. QED BY <1>0, <2>1, <2>3 DEF Passed, GoInv
<1>11. CASE Steer \/ UNCHANGED vars
  <2>1. UNCHANGED <<pc, round, batch, kept, at, blocked>>
    BY <1>11 DEF Steer, roundVars, batchVars, gateVars, vars
  <2>2. Confirmations(batch, kept)' = Confirmations(batch, kept)
    BY <2>1 DEF Confirmations, GateShut, KindsOf
  <2>. QED BY <1>0, <2>1, <2>2 DEF GoInv
<1>. QED BY <1>1, <1>2, <1>3, <1>4, <1>5, <1>6, <1>8, <1>9, <1>10, <1>11 DEF Next, TurnStep

(* Of the confirmations that are left one comes first.                     *)
LEMMA FirstIsNext ==
  ASSUME TypeOK, Confirmations(batch, kept) \ at # {}
  PROVE  \E i \in 1..MaxBatch : IsNext(i)
<1> DEFINE C == Confirmations(batch, kept) \ at
           R == OpToRel(<, Nat)
<1>1. C \subseteq DOMAIN batch
  BY DEF Confirmations, TypeOK, BatchType
<1>2. batch # <<>>
  BY <1>1
<1>3. C \subseteq 1..MaxBatch /\ C \subseteq Nat
  BY <1>1, <1>2, BatchFacts, TurnAssumption DEF TypeOK, BatchType
<1>4. IsWellFoundedOn(R, Nat)
  BY NatLessThanWellFounded
<1>5. PICK i \in C : \A j \in C : ~(<<j, i>> \in R)
  <2> HIDE DEF C, R
  <2>. QED BY <1>3, <1>4, WFMin DEF C
<1>6. \A j \in C : ~(j < i)
  BY <1>3, <1>5 DEF OpToRel
<1>7. \A j \in C : i <= j
  BY <1>3, <1>6
<1>. QED BY <1>3, <1>7 DEF IsNext

(* Until it has ended the turn is never stuck: no loop has passed its cap  *)
(* and execute_many always finds the next card to ask about.               *)
THEOREM TurnIsNeverStuck == Spec => []CanGoOn
<1>1. Init => GoInv
  BY LimitType DEF Init, GoInv
<1>2. GoInv /\ TypeOK /\ [Next]_vars => GoInv'
  BY GoStep
<1>3. TypeOK /\ GoInv => CanGoOn
  BY FirstIsNext DEF TypeOK, ControlType, GoInv, CanGoOn, Active
<1>. QED BY TypeCorrect, <1>1, <1>2, <1>3, PTL DEF Spec
=============================================================================
