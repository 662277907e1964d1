------------------------- MODULE ToolApprovalProofs -------------------------
(***************************************************************************)
(* Proofs about ToolApproval for every set of calls, threads and patterns  *)
(* and any number of aborts.                                               *)
(***************************************************************************)
EXTENDS ToolApproval, TLAPS

CallInv(c) == FutureInv(c) /\ VerdictInv(c) /\ MapInv(c)

LEMMA InitInv == Init => AInv
<1> SUFFICES ASSUME Init PROVE AInv
  OBVIOUS
<1>1. TypeOK
  <2>1. told \in [Calls -> Seq(Resolutions)] /\ ledger \in [Calls -> Seq(Resolutions)]
    BY DEF Init
  <2>2. phase \in [Calls -> Phases] /\ confirmed \in [Calls -> Answers \cup {None}]
    BY DEF Init, Phases
  <2>3. /\ outcome \in [Calls -> {"none", "ran", "denied", "cancelled"}]
        /\ cancel \in [Calls -> BOOLEAN]
        /\ future \in [Calls -> {"none", "pending", "allow", "deny", "cancelled"}]
        /\ index \in [Threads -> SUBSET Calls]
    BY DEF Init
  <2>4. aborts \in 0..MaxAborts
    BY ApprovalAssumption DEF Init
  <2>. QED BY <2>1, <2>2, <2>3, <2>4 DEF Init, TypeOK
<1>2. ASSUME NEW c \in Calls PROVE CallInv(c)
  BY DEF Init, CallInv, FutureInv, VerdictInv, MapInv, Ran, None
<1>. QED BY <1>1, <1>2 DEF AInv, CallInv

-----------------------------------------------------------------------------
(* Types *)

(* What Tell and Record do to a function of sequences. *)
LEMMA LogGrows ==
  ASSUME NEW S, NEW f \in [Calls -> Seq(S)], NEW c \in Calls, NEW d \in S
  PROVE  [f EXCEPT ![c] = Append(@, d)] \in [Calls -> Seq(S)]
<1>1. Append(f[c], d) \in Seq(S)
  OBVIOUS
<1>. QED BY <1>1

LEMMA TypeStep == TypeOK /\ [Next]_vars => TypeOK'
<1> SUFFICES ASSUME TypeOK, [Next]_vars PROVE TypeOK'
  OBVIOUS
<1> USE ApprovalAssumption DEF TypeOK, Phases, fixedVars, callVars, approvalVars, recordVars, sweepVars
<1>1. ASSUME NEW c \in Calls, Begin(c) PROVE TypeOK'
  BY <1>1 DEF Begin, To, Undisturbed
<1>2. ASSUME NEW c \in Calls, Register(c) PROVE TypeOK'
  BY <1>2 DEF Register, To, Undisturbed
<1>3. ASSUME NEW c \in Calls, Answered(c) PROVE TypeOK'
  <2>1. PICK d \in Resolutions : Record(c, d)
    BY <1>3 DEF Answered, Resolutions, Answers, None
  <2>2. ledger' \in [Calls -> Seq(Resolutions)]
    BY <2>1, LogGrows DEF Record
  <2>. QED BY <1>3, <2>2 DEF Answered, To
<1>4. ASSUME NEW c \in Calls, Decided(c) PROVE TypeOK'
  BY <1>4 DEF Decided, To, End, CleanUp, Undisturbed
<1>5. ASSUME NEW c \in Calls, Expire(c) PROVE TypeOK'
  <2>1. told' \in [Calls -> Seq(Resolutions)] /\ ledger' \in [Calls -> Seq(Resolutions)]
    BY <1>5, LogGrows DEF Expire, Tell, Record, Resolutions
  <2>. QED BY <1>5, <2>1 DEF Expire, To, Undisturbed
<1>6. ASSUME NEW c \in Calls, Expired(c) PROVE TypeOK'
  BY <1>6 DEF Expired, To, End, CleanUp, Undisturbed
<1>7. ASSUME NEW c \in Calls, Cancelled(c) PROVE TypeOK'
  BY <1>7 DEF Cancelled, To, End, CleanUp, Delivered
<1>8. ASSUME NEW c \in Calls, Return(c) PROVE TypeOK'
  BY <1>8 DEF Return, To, End, Undisturbed
<1>9. ASSUME NEW c \in Calls, NEW a \in Answers, Answer(c, a) PROVE TypeOK'
  <2>1. told' \in [Calls -> Seq(Resolutions)]
    BY <1>9, LogGrows DEF Answer, Tell, Resolutions
  <2>. QED BY <1>9, <2>1 DEF Answer
<1>10. ASSUME NEW t \in Threads, AbortTurn(t) PROVE TypeOK'
  BY <1>10 DEF AbortTurn
<1>11. ASSUME NEW c \in Calls, Sweep(c) PROVE TypeOK'
  <2>1. told' \in [Calls -> Seq(Resolutions)] /\ ledger' \in [Calls -> Seq(Resolutions)]
    BY <1>11, LogGrows DEF Sweep, Tell, Record, Resolutions
  <2>2. Left \subseteq Calls
    BY <1>11 DEF Sweep, Left
  <2>. QED BY <1>11, <2>1, <2>2 DEF Sweep
<1>12. ASSUME SweepEnd PROVE TypeOK'
  BY <1>12 DEF SweepEnd
<1>13. CASE UNCHANGED vars
  BY <1>13 DEF vars
<1>. QED BY <1>1, <1>2, <1>3, <1>4, <1>5, <1>6, <1>7, <1>8, <1>9, <1>10, <1>11, <1>12, <1>13
     DEF Next, Step, Sweeper

(* Every variable keeps its type. *)
THEOREM TypeCorrect == Spec => []TypeOK
<1>1. Init => TypeOK
  BY InitInv DEF AInv
<1>. QED BY <1>1, TypeStep, PTL DEF Spec

-----------------------------------------------------------------------------
(* A step that concerns one call leaves the invariant of the others: they  *)
(* can only gain a pattern on the allowlist.                               *)
LEMMA OneCall ==
  ASSUME AInv, NEW c \in Calls,
         UNCHANGED fixedVars, allowlist \subseteq allowlist',
         \A d \in Calls \ {c} :
           /\ phase'[d] = phase[d] /\ outcome'[d] = outcome[d]
           /\ future'[d] = future[d] /\ confirmed'[d] = confirmed[d]
           /\ d \in registered' => d \in registered
           /\ \A t \in Threads : d \in index'[t] => d \in index[t],
         CallInv(c)'
  PROVE  \A d \in Calls : CallInv(d)'
<1> SUFFICES ASSUME NEW d \in Calls, d # c PROVE CallInv(d)'
  OBVIOUS
<1>1. FutureInv(d) /\ VerdictInv(d) /\ MapInv(d)
  BY DEF AInv
<1>2. FutureInv(d)'
  BY <1>1 DEF FutureInv
<1>3. VerdictInv(d)'
  BY <1>1 DEF VerdictInv, Ran, fixedVars
<1>4. MapInv(d)'
  BY <1>1 DEF MapInv, fixedVars
<1>. QED BY <1>2, <1>3, <1>4 DEF CallInv

LEMMA CallStep ==
  ASSUME AInv, [Next]_vars
  PROVE  \A c \in Calls : CallInv(c)'
<1> USE DEF AInv, TypeOK, fixedVars, callVars, approvalVars, recordVars, sweepVars
<1> DEFINE Rest(c) ==
      /\ UNCHANGED fixedVars /\ allowlist \subseteq allowlist'
      /\ \A d \in Calls \ {c} :
           /\ phase'[d] = phase[d] /\ outcome'[d] = outcome[d]
           /\ future'[d] = future[d] /\ confirmed'[d] = confirmed[d]
           /\ d \in registered' => d \in registered
           /\ \A t \in Threads : d \in index'[t] => d \in index[t]
<1>0. ASSUME NEW c \in Calls, Rest(c), CallInv(c)' PROVE \A d \in Calls : CallInv(d)'
  BY <1>0, OneCall
<1> HIDE DEF AInv
<1>t. TypeOK
  BY DEF AInv
<1>i. \A c \in Calls : FutureInv(c) /\ VerdictInv(c) /\ MapInv(c)
  BY DEF AInv
<1>1. ASSUME NEW c \in Calls, Begin(c) PROVE \A d \in Calls : CallInv(d)'
  <2>1. Rest(c)
    BY <1>1, <1>t DEF Begin, To
  <2>2. CallInv(c)'
    BY <1>1, <1>t, <1>i DEF Begin, To, CallInv, FutureInv, VerdictInv, MapInv, Ran
  <2>. QED BY <2>1, <2>2, <1>0
<1>2. ASSUME NEW c \in Calls, Register(c) PROVE \A d \in Calls : CallInv(d)'
  <2>1. Rest(c)
    BY <1>2, <1>t DEF Register, To
  <2>2. CallInv(c)'
    BY <1>2, <1>t, <1>i DEF Register, To, CallInv, FutureInv, VerdictInv, MapInv, Ran
  <2>. QED BY <2>1, <2>2, <1>0
<1>3. ASSUME NEW c \in Calls, Answered(c) PROVE \A d \in Calls : CallInv(d)'
  <2>1. Rest(c)
    BY <1>3, <1>t DEF Answered, To
  <2>2. CallInv(c)'
    BY <1>3, <1>t, <1>i DEF Answered, To, CallInv, FutureInv, VerdictInv, MapInv, Ran
  <2>. QED BY <2>1, <2>2, <1>0
<1>4. ASSUME NEW c \in Calls, Decided(c) PROVE \A d \in Calls : CallInv(d)'
  <2>1. Rest(c)
    BY <1>4, <1>t DEF Decided, To, End, CleanUp
  <2>2. CallInv(c)'
    BY <1>4, <1>t, <1>i DEF Decided, To, End, CleanUp, CallInv, FutureInv, VerdictInv, MapInv, Ran
  <2>. QED BY <2>1, <2>2, <1>0
<1>5. ASSUME NEW c \in Calls, Expire(c) PROVE \A d \in Calls : CallInv(d)'
  <2>1. Rest(c)
    BY <1>5, <1>t DEF Expire, To
  <2>2. CallInv(c)'
    BY <1>5, <1>t, <1>i DEF Expire, To, CallInv, FutureInv, VerdictInv, MapInv, Ran
  <2>. QED BY <2>1, <2>2, <1>0
<1>6. ASSUME NEW c \in Calls, Expired(c) PROVE \A d \in Calls : CallInv(d)'
  <2>1. Rest(c)
    BY <1>6, <1>t DEF Expired, To, End, CleanUp
  <2>2. CallInv(c)'
    BY <1>6, <1>t, <1>i DEF Expired, To, End, CleanUp, CallInv, FutureInv, VerdictInv, MapInv, Ran
  <2>. QED BY <2>1, <2>2, <1>0
<1>7. ASSUME NEW c \in Calls, Cancelled(c) PROVE \A d \in Calls : CallInv(d)'
  <2>1. Rest(c)
    BY <1>7, <1>t DEF Cancelled, To, End, CleanUp
  <2>2. CallInv(c)'
    BY <1>7, <1>t, <1>i DEF Cancelled, To, End, CleanUp, CallInv, FutureInv, VerdictInv, MapInv, Ran
  <2>. QED BY <2>1, <2>2, <1>0
<1>8. ASSUME NEW c \in Calls, Return(c) PROVE \A d \in Calls : CallInv(d)'
  <2>1. Rest(c)
    BY <1>8, <1>t DEF Return, To, End
  <2>2. CallInv(c)'
    BY <1>8, <1>t, <1>i DEF Return, To, End, CallInv, FutureInv, VerdictInv, MapInv, Ran
  <2>. QED BY <2>1, <2>2, <1>0
<1>9. ASSUME NEW c \in Calls, NEW a \in Answers, Answer(c, a) PROVE \A d \in Calls : CallInv(d)'
  <2>1. Rest(c)
    BY <1>9, <1>t DEF Answer
  <2>2. CallInv(c)'
    BY <1>9, <1>t, <1>i DEF Answer, Answers, CallInv, FutureInv, VerdictInv, MapInv, Ran
  <2>. QED BY <2>1, <2>2, <1>0
<1>10. ASSUME NEW t \in Threads, AbortTurn(t) PROVE \A d \in Calls : CallInv(d)'
  BY <1>10, <1>i DEF AbortTurn, CallInv, FutureInv, VerdictInv, MapInv, Ran
<1>11. ASSUME NEW c \in Calls, Sweep(c) PROVE \A d \in Calls : CallInv(d)'
  <2>1. Rest(c)
    BY <1>11, <1>t DEF Sweep
  <2>2. CallInv(c)'
    BY <1>11, <1>t, <1>i DEF Sweep, Answers, CallInv, FutureInv, VerdictInv, MapInv, Ran
  <2>. QED BY <2>1, <2>2, <1>0
<1>12. ASSUME SweepEnd PROVE \A d \in Calls : CallInv(d)'
  BY <1>12, <1>t, <1>i DEF SweepEnd, CallInv, FutureInv, VerdictInv, MapInv, Ran
<1>13. CASE UNCHANGED vars
  BY <1>13, <1>i DEF vars, CallInv, FutureInv, VerdictInv, MapInv, Ran
<1>. QED BY <1>1, <1>2, <1>3, <1>4, <1>5, <1>6, <1>7, <1>8, <1>9, <1>10, <1>11, <1>12, <1>13
     DEF Next, Step, Sweeper

(* The inductive invariant: the future of a call is pending only while it  *)
(* waits, has the verdict of the confirmed answer, and what became of the  *)
(* call has the verdict of the future.                                     *)
THEOREM InvariantHolds == Spec => []AInv
<1>1. AInv /\ [Next]_vars => AInv'
  BY TypeStep, CallStep DEF AInv, CallInv
<1>. QED BY <1>1, InitInv, PTL DEF Spec

-----------------------------------------------------------------------------
(* A tool runs only if the user allowed the call or its pattern: every     *)
(* path of execute to the tool goes through the verdict of the future.     *)
THEOREM AllowedOnly == Spec => []RunsOnlyIfAllowed
<1>1. AInv => RunsOnlyIfAllowed
  BY DEF AInv, VerdictInv, RunsOnlyIfAllowed
<1>. QED BY <1>1, InvariantHolds, PTL

(* An answer that resolve_approval reported as resolved is what happens,   *)
(* whatever timeout, sweep or cancellation comes with it.                  *)
THEOREM AnswersDecide == Spec => []AnswerDecides
<1>1. AInv => AnswerDecides
  BY DEF AInv, VerdictInv, AnswerDecides, RunsOnlyIfAllowed
<1>. QED BY <1>1, InvariantHolds, PTL

(* A call that is over is in none of the maps of the orchestrator.         *)
THEOREM NothingIsLeft == Spec => []NothingLeft
<1>1. AInv => NothingLeft
  BY DEF AInv, MapInv, NothingLeft
<1>. QED BY <1>1, InvariantHolds, PTL

-----------------------------------------------------------------------------
(* Events and ledger items *)

LEMMA OneMore ==
  ASSUME NEW S, NEW d \in S
  PROVE  /\ Append(<<>>, d) = <<d>> /\ DOMAIN <<d>> = {1} /\ <<d>>[1] = d
         /\ \A s \in Seq(S) : LET u == Append(s, d)
                              IN  /\ \A k \in DOMAIN s : k \in DOMAIN u /\ u[k] = s[k]
                                  /\ \E k \in DOMAIN u : u[k] = d
<1>1. Append(<<>>, d) = <<d>> /\ DOMAIN <<d>> = {1} /\ <<d>>[1] = d
  OBVIOUS
<1>2. ASSUME NEW s \in Seq(S)
      PROVE  /\ \A k \in DOMAIN s : k \in DOMAIN Append(s, d) /\ Append(s, d)[k] = s[k]
             /\ \E k \in DOMAIN Append(s, d) : Append(s, d)[k] = d
  <2>1. DOMAIN s = 1..Len(s) /\ DOMAIN Append(s, d) = 1..(Len(s) + 1) /\ Len(s) \in Nat
    OBVIOUS
  <2>2. Append(s, d)[Len(s) + 1] = d /\ \A k \in 1..Len(s) : Append(s, d)[k] = s[k]
    OBVIOUS
  <2>. QED BY <2>1, <2>2
<1>. QED BY <1>1, <1>2

(* A step tells at most about one call, and what it told stays told.       *)
LEMMA RecordStep ==
  ASSUME AInv, \A c \in Calls : RecordInv(c), [Next]_vars
  PROVE  \A c \in Calls : RecordInv(c)'
<1> USE DEF fixedVars, callVars, approvalVars, recordVars, sweepVars
<1>t. TypeOK
  BY DEF AInv
<1>i. \A c \in Calls : FutureInv(c) /\ VerdictInv(c) /\ MapInv(c)
  BY DEF AInv
<1> DEFINE Same(c) == /\ phase'[c] = phase[c] /\ outcome'[c] = outcome[c] /\ future'[c] = future[c]
                      /\ confirmed'[c] = confirmed[c] /\ told'[c] = told[c] /\ ledger'[c] = ledger[c]
                      /\ c \in registered => c \in registered'
<1>0. ASSUME NEW c \in Calls, Same(c) PROVE RecordInv(c)'
  BY <1>0 DEF RecordInv, Swept
<1>1. ASSUME NEW c \in Calls, Begin(c) \/ Register(c) \/ Answered(c) \/ Decided(c) \/ Expired(c) \/ Cancelled(c) \/ Return(c)
      PROVE  \A d \in Calls : RecordInv(d)'
  <2>1. told' = told
    BY <1>1 DEF Begin, Register, Answered, Decided, Expired, Cancelled, Return
  <2>2. \A d \in Calls \ {c} : Same(d)
    BY <1>1, <1>t DEF TypeOK, Begin, Register, Answered, Decided, Expired, Cancelled, Return, To, End, CleanUp, Record
  <2>3. CASE Swept(c)
    BY <2>1, <2>2, <2>3, <1>0 DEF RecordInv, Swept
  <2>4. CASE Begin(c)
    BY <1>0, <2>1, <2>2, <2>4, <1>t, <1>i DEF Begin, To, RecordInv, Swept, FutureInv, TypeOK
  <2>5. CASE Register(c)
    BY <1>0, <2>1, <2>2, <2>5, <1>t, <1>i DEF Register, To, RecordInv, Swept, FutureInv, TypeOK
  <2>6. CASE Answered(c) /\ ~Swept(c)
    <3>1. /\ phase[c] = "waiting" /\ future[c] \in {"allow", "deny"} /\ c \in registered
          /\ confirmed[c] # None /\ told[c] = <<confirmed[c]>> /\ ledger[c] = <<>>
      BY <2>6, <1>i DEF Answered, RecordInv
    <3>2. ledger'[c] = <<confirmed[c]>>
      <4>1. ledger'[c] = Append(<<>>, confirmed[c])
        BY <2>6, <3>1, <1>t DEF Answered, Record, TypeOK
      <4>. QED BY <4>1, OneMore
    <3>3. phase'[c] = "recording" /\ UNCHANGED <<future, confirmed>>
      BY <2>6, <1>t DEF Answered, To, TypeOK
    <3>4. RecordInv(c)'
      BY <2>1, <3>1, <3>2, <3>3 DEF RecordInv
    <3>. QED BY <1>0, <2>2, <3>4
  <2>7. CASE (Decided(c) \/ Expired(c) \/ Return(c)) /\ ~Swept(c)
    <3>1. /\ phase[c] \in {"recording", "expiring", "running"} /\ phase'[c] # "waiting"
          /\ UNCHANGED <<future, confirmed, ledger>>
      BY <2>7, <1>t DEF Decided, Expired, Return, To, End, TypeOK
    <3>2. outcome[c] # "cancelled"
      BY <3>1, <1>i DEF VerdictInv
    <3>3. RecordInv(c)'
      BY <2>1, <2>7, <3>1, <3>2 DEF RecordInv
    <3>. QED BY <1>0, <2>2, <3>3
  <2>8. CASE Cancelled(c) /\ ~Swept(c)
    <3>1. /\ phase'[c] = "over" /\ outcome'[c] = "cancelled" /\ phase[c] # "idle"
          /\ future'[c] = IF future[c] = "pending" THEN "cancelled" ELSE future[c]
          /\ phase[c] = "waiting" => future[c] = "pending"
          /\ UNCHANGED <<confirmed, ledger>>
      BY <2>8, <1>t DEF Cancelled, To, End, TypeOK
    <3>2. RecordInv(c)'
      BY <2>1, <2>8, <3>1 DEF RecordInv
    <3>. QED BY <1>0, <2>2, <3>2
  <2>. QED BY <1>1, <2>3, <2>4, <2>5, <2>6, <2>7, <2>8
<1>2. ASSUME NEW c \in Calls, Expire(c)
      PROVE  \A d \in Calls : RecordInv(d)'
  <2>1. \A d \in Calls \ {c} : Same(d)
    BY <1>2, <1>t DEF TypeOK, Expire, To, Tell, Record
  <2>2. told'[c] = Append(told[c], "timeout") /\ ledger'[c] = Append(ledger[c], "timeout") /\ future'[c] = "cancelled"
    BY <1>2, <1>t DEF TypeOK, Expire, Tell, Record
  <2>3. CASE Swept(c)
    <3>1. told[c] \in Seq(Resolutions) /\ "timeout" \in Resolutions
      BY <1>t DEF TypeOK, Resolutions
    <3>2. Swept(c)'
      BY <2>2, <2>3, <3>1, OneMore DEF Swept
    <3>. QED BY <1>0, <2>1, <3>2 DEF RecordInv
  <2>4. CASE ~Swept(c)
    <3>1. told[c] = <<>> /\ ledger[c] = <<>>
      BY <1>2, <2>4 DEF Expire, RecordInv
    <3>2. RecordInv(c)'
      BY <2>2, <3>1, OneMore DEF RecordInv
    <3>. QED BY <1>0, <2>1, <3>2
  <2>. QED BY <2>3, <2>4
<1>3. ASSUME NEW c \in Calls, NEW a \in Answers, Answer(c, a)
      PROVE  \A d \in Calls : RecordInv(d)'
  <2>1. \A d \in Calls \ {c} : Same(d)
    BY <1>3, <1>t DEF TypeOK, Answer, Tell
  <2>2. /\ told'[c] = Append(told[c], a) /\ confirmed'[c] = a /\ a # None
        /\ future'[c] \in {"allow", "deny"} /\ UNCHANGED <<phase, ledger, registered>>
    BY <1>3, <1>t DEF TypeOK, Answer, Tell, Answers, None
  <2>3. CASE Swept(c)
    <3>1. told[c] \in Seq(Resolutions) /\ a \in Resolutions
      BY <1>t DEF TypeOK, Resolutions
    <3>2. Swept(c)'
      BY <2>2, <2>3, <3>1, OneMore DEF Swept
    <3>. QED BY <1>0, <2>1, <3>2 DEF RecordInv
  <2>4. CASE ~Swept(c)
    <3>1. phase[c] = "waiting" /\ c \in registered /\ told[c] = <<>> /\ ledger[c] = <<>>
      BY <1>3, <1>i, <2>4 DEF Answer, RecordInv, FutureInv
    <3>2. told'[c] = <<a>>
      BY <2>2, <3>1, OneMore
    <3>3. RecordInv(c)'
      BY <2>2, <3>1, <3>2 DEF RecordInv
    <3>. QED BY <1>0, <2>1, <3>3
  <2>. QED BY <2>3, <2>4
<1>4. ASSUME NEW c \in Calls, Sweep(c)
      PROVE  \A d \in Calls : RecordInv(d)'
  <2>1. \A d \in Calls \ {c} : Same(d)
    BY <1>4, <1>t DEF TypeOK, Sweep, Tell, Record
  <2>2. told'[c] = Append(told[c], "abort") /\ told[c] \in Seq(Resolutions) /\ "abort" \in Resolutions
    BY <1>4, <1>t DEF TypeOK, Sweep, Tell, Resolutions
  <2>3. Swept(c)'
    BY <2>2, OneMore DEF Swept
  <2>. QED BY <1>0, <2>1, <2>3 DEF RecordInv
<1>5. ASSUME \/ SweepEnd \/ \E t \in Threads : AbortTurn(t)
             \/ UNCHANGED vars
      PROVE  \A d \in Calls : RecordInv(d)'
  BY <1>0, <1>5 DEF SweepEnd, AbortTurn, vars
<1>. QED BY <1>1, <1>2, <1>3, <1>4, <1>5 DEF Next, Step, Sweeper

(* Unless a sweep took it, what replay shows of a call is what the user    *)
(* was told: one resolution, the same one.                                 *)
THEOREM RecordsAgree == Spec => []LedgerAgrees
<1> DEFINE Both == AInv /\ \A c \in Calls : RecordInv(c)
<1>1. Init => Both
  <2>1. Init => \A c \in Calls : RecordInv(c)
    BY DEF Init, RecordInv
  <2>. QED BY <2>1, InitInv
<1>2. Both /\ [Next]_vars => Both'
  <2>1. AInv /\ [Next]_vars => AInv'
    BY TypeStep, CallStep DEF AInv, CallInv
  <2>. QED BY <2>1, RecordStep
<1>3. Both => LedgerAgrees
  <2> SUFFICES ASSUME Both, NEW c \in Calls, phase[c] = "over", outcome[c] # "cancelled", ~Swept(c)
               PROVE  ledger[c] = told[c] /\ (future[c] # "none" => Len(told[c]) = 1)
    BY DEF LedgerAgrees, Swept
  <2>1. RecordInv(c) /\ FutureInv(c)
    BY DEF AInv
  <2>2. CASE future[c] = "none"
    BY <2>1, <2>2 DEF RecordInv
  <2>3. CASE future[c] # "none"
    <3>1. PICK d : told[c] = <<d>> /\ ledger[c] = told[c]
      BY <2>1, <2>3 DEF RecordInv, FutureInv
    <3>. QED BY <3>1
  <2>. QED BY <2>2, <2>3
<1> HIDE DEF Both
<1>. QED BY <1>1, <1>2, <1>3, PTL DEF Spec
-----------------------------------------------------------------------------
(* Why every call ends *)

(* What each step makes of the call c: the steps that move it move it on,  *)
(* and none of them settles a future that is settled.                      *)
Onward(c) ==
  /\ \/ phase'[c] = phase[c]
     \/ phase[c] = "idle" /\ phase'[c] \in {"asking", "running"}
     \/ phase[c] = "asking" /\ phase'[c] \in {"waiting", "over"}
     \/ phase[c] = "waiting" /\ phase'[c] \in {"recording", "expiring", "over"}
     \/ phase[c] \in {"recording", "expiring"} /\ phase'[c] \in {"running", "over"}
     \/ phase[c] = "running" /\ phase'[c] = "over"
  /\ future[c] \in {"allow", "deny", "cancelled"} =>
       future'[c] = future[c] /\ confirmed'[c] = confirmed[c]

LEMMA EachStep ==
  ASSUME AInv, [Next]_vars, NEW c \in Calls
  PROVE  Onward(c)
<1> USE DEF TypeOK, fixedVars, callVars, approvalVars, recordVars, sweepVars, Onward
<1>t. TypeOK /\ FutureInv(c)
  BY DEF AInv
<1>1. ASSUME NEW d \in Calls, Begin(d) PROVE Onward(c)
  BY <1>1, <1>t DEF Begin, To
<1>2. ASSUME NEW d \in Calls, Register(d) PROVE Onward(c)
  BY <1>2, <1>t DEF Register, To, FutureInv
<1>3. ASSUME NEW d \in Calls, Answered(d) PROVE Onward(c)
  BY <1>3, <1>t DEF Answered, To
<1>4. ASSUME NEW d \in Calls, Decided(d) PROVE Onward(c)
  BY <1>4, <1>t DEF Decided, To, End
<1>5. ASSUME NEW d \in Calls, Expire(d) PROVE Onward(c)
  BY <1>5, <1>t DEF Expire, To
<1>6. ASSUME NEW d \in Calls, Expired(d) PROVE Onward(c)
  BY <1>6, <1>t DEF Expired, To, End
<1>7. ASSUME NEW d \in Calls, Cancelled(d) PROVE Onward(c)
  BY <1>7, <1>t DEF Cancelled, To, End
<1>8. ASSUME NEW d \in Calls, Return(d) PROVE Onward(c)
  BY <1>8, <1>t DEF Return, To, End
<1>9. ASSUME NEW d \in Calls, NEW a \in Answers, Answer(d, a) PROVE Onward(c)
  BY <1>9, <1>t DEF Answer
<1>10. ASSUME NEW t \in Threads, AbortTurn(t) PROVE Onward(c)
  BY <1>10 DEF AbortTurn
<1>11. ASSUME NEW d \in Calls, Sweep(d) PROVE Onward(c)
  BY <1>11, <1>t DEF Sweep
<1>12. CASE SweepEnd
  BY <1>12 DEF SweepEnd
<1>13. CASE UNCHANGED vars
  BY <1>13 DEF vars
<1>. QED BY <1>1, <1>2, <1>3, <1>4, <1>5, <1>6, <1>7, <1>8, <1>9, <1>10, <1>11, <1>12, <1>13
     DEF Next, Step, Sweeper

(* The first of the answer, the timeout, the cancellation and the sweep    *)
(* settles an approval for good.                                           *)
THEOREM FutureIsSettledOnce == Spec => SettledOnce
<1>1. AInv /\ [Next]_vars =>
        [\A c \in Calls :
           future[c] \in {"allow", "deny", "cancelled"} =>
             future'[c] = future[c] /\ confirmed'[c] = confirmed[c]]_vars
  BY EachStep DEF Onward
<1>. QED BY <1>1, InvariantHolds, PTL DEF Spec, SettledOnce

(* No call waits for a future that nothing will settle.                    *)
THEOREM WaitsCanEnd == Spec => []WaitCanEnd
<1>1. AInv => WaitCanEnd
  BY DEF AInv, TypeOK, Phases, FutureInv, WaitCanEnd, CanGoOn
<1>. QED BY <1>1, InvariantHolds, PTL

(* A call only moves on, and does so with every step of its own: once it   *)
(* asks it takes four of them at the most.                                 *)
THEOREM CallsMoveOn == Spec => StepsGoForward
<1>1. ASSUME AInv, [Next]_vars, NEW c \in Calls
      PROVE  phase[c] = phase'[c] \/ Place(phase[c]) < Place(phase'[c])
  BY <1>1, EachStep DEF Onward, Place
<1>2. ASSUME AInv, NEW c \in Calls, Step(c)
      PROVE  phase[c] # phase'[c]
  BY <1>2 DEF AInv, TypeOK, Step, Register, Answered, Decided, Expire, Expired, Cancelled, Return, To, End
<1>3. AInv /\ [Next]_vars =>
        [\A c \in Calls :
           /\ phase[c] = phase'[c] \/ Place(phase[c]) < Place(phase'[c])
           /\ Step(c) => phase[c] # phase'[c]]_vars
  BY <1>1, <1>2
<1>. QED BY <1>3, InvariantHolds, PTL DEF Spec, StepsGoForward
=============================================================================
