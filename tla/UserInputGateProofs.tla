------------------------ MODULE UserInputGateProofs ------------------------
(***************************************************************************)
(* Proofs about UserInputGate for every set of requests, turns and choices.*)
(***************************************************************************)
EXTENDS UserInputGate, TLAPS

(* The actions of one request, grouped by what they do to its slot.        *)
Leaves(r) == Answered(r) \/ Timeout(r) \/ CancelWaiting(r) \/ CancelAnnouncing(r)

LEMMA NextCases ==
  ASSUME [Next]_vars, NEW P,
         UNCHANGED vars => P,
         \A r \in Requests : Request(r) => P,
         \A r \in Requests : Wake(r) => P,
         \A r \in Requests : Announced(r) => P,
         \A r \in Requests : Leaves(r) => P,
         \A r \in Requests : CancelQueued(r) => P,
         \A r \in Requests, c \in Choices : Resolve(r, c) => P,
         \A t \in Turns : CancelAll(t) => P
  PROVE  P
  BY DEF Next, Step, Leaves

LEMMA InitInv == Init => GInv
  BY DEF Init, GInv, TypeOK, OneCardPerTurn, HeldInv, RequestInv, NothingLeaks, HasCard, Phases, Results, Of

(* The pieces that the actions are made of keep the types.                 *)
LEMMA PieceTypes ==
  ASSUME TypeOK, NEW r \in Requests
  PROVE  /\ \A p \in Phases, wake \in BOOLEAN : Move(r, p, wake) => phase' \in [Requests -> Phases]
         /\ \A v \in Results : Return(r, v) => result' \in [Requests -> Results]
         /\ \A t \in Turns, h \in BOOLEAN : \A W :
              DropIfIdle(t, W, h) => entries' \subseteq Turns /\ dead' \in [Turns -> BOOLEAN]
<1>1. \A p \in Phases, wake \in BOOLEAN : Move(r, p, wake) => phase' \in [Requests -> Phases]
  BY DEF TypeOK, Move, Phases
<1>2. \A v \in Results : Return(r, v) => result' \in [Requests -> Results]
  BY DEF TypeOK, Return
<1>3. ASSUME NEW t \in Turns, NEW W, NEW h \in BOOLEAN, DropIfIdle(t, W, h)
      PROVE  entries' \subseteq Turns /\ dead' \in [Turns -> BOOLEAN]
  BY <1>3 DEF TypeOK, DropIfIdle
<1>. QED BY <1>1, <1>2, <1>3

LEMMA TypeStep == TypeOK /\ [Next]_vars => TypeOK'
<1> SUFFICES ASSUME TypeOK, [Next]_vars PROVE TypeOK'
  OBVIOUS
<1> USE DEF TypeOK, Phases, Results
<1>1. UNCHANGED vars => TypeOK'
  BY DEF vars, slotVars
<1>2. ASSUME NEW r \in Requests, Sleep(r) \/ Take(r) \/ Refused(r), UNCHANGED <<turn, resolution, abandoned>>,
             entries' \subseteq Turns, dead' \in [Turns -> BOOLEAN]
      PROVE  TypeOK'
  <2>1. phase' \in [Requests -> Phases] /\ result' \in [Requests -> Results]
    BY <1>2, PieceTypes DEF Sleep, Take, Refused
  <2>. QED BY <1>2, <2>1 DEF Sleep, Take, Refused
<1>3. ASSUME NEW r \in Requests, Request(r) \/ Wake(r) PROVE TypeOK'
  <2>1. turn[r] \in Turns /\ held[turn[r]] \in BOOLEAN
    OBVIOUS
  <2>2. entries' \subseteq Turns /\ dead' \in [Turns -> BOOLEAN]
    BY <1>3, <2>1, PieceTypes DEF Request, Wake
  <2>. QED BY <1>2, <1>3, <2>2 DEF Request, Wake
<1>4. ASSUME NEW r \in Requests, Announced(r) PROVE TypeOK'
  BY <1>4 DEF Announced, Move, slotVars
<1>5. ASSUME NEW r \in Requests, Leaves(r) PROVE TypeOK'
  <2>1. turn[r] \in Turns
    OBVIOUS
  <2>2. Release(r)
    BY <1>5 DEF Leaves, Answered, Timeout, CancelWaiting, CancelAnnouncing, Leave
  <2>3. /\ phase' \in [Requests -> Phases] /\ held' \in [Turns -> BOOLEAN]
        /\ entries' \subseteq Turns /\ dead' \in [Turns -> BOOLEAN]
    BY <2>1, <2>2, PieceTypes DEF Release
  <2>4. result' \in [Requests -> Results]
    BY <1>5, PieceTypes DEF Leaves, Answered, Timeout, CancelWaiting, CancelAnnouncing
  <2>5. /\ turn' = turn /\ pending' \subseteq Requests /\ abandoned' \subseteq Requests
        /\ resolution' \in [Requests -> Choices \cup {None, "cancelled"}]
    BY <1>5 DEF Leaves, Answered, Timeout, CancelWaiting, CancelAnnouncing, Leave
  <2>. QED BY <2>3, <2>4, <2>5
<1>6. ASSUME NEW r \in Requests, CancelQueued(r) PROVE TypeOK'
  BY <1>6 DEF CancelQueued, Move, Return, slotVars
<1>7. ASSUME NEW r \in Requests, NEW c \in Choices, Resolve(r, c) PROVE TypeOK'
  BY <1>7 DEF Resolve, slotVars
<1>8. ASSUME NEW t \in Turns, CancelAll(t) PROVE TypeOK'
  BY <1>8 DEF CancelAll
<1>. QED BY <1>1, <1>3, <1>4, <1>5, <1>6, <1>7, <1>8, NextCases

-----------------------------------------------------------------------------
(* The slot *)

(* What an action does to the slots as seen from the cards: r takes the    *)
(* free slot of its turn, r with its card leaves it, or neither changes.   *)
Takes(r) ==
  /\ ~held[turn[r]] /\ held' = [held EXCEPT ![turn[r]] = TRUE]
  /\ \A q \in Requests : HasCard(q)' <=> HasCard(q) \/ q = r

GivesUp(r) ==
  /\ HasCard(r) /\ held' = [held EXCEPT ![turn[r]] = FALSE]
  /\ \A q \in Requests : HasCard(q)' <=> HasCard(q) /\ q # r

SlotsStay == held' = held /\ \A q \in Requests : HasCard(q)' <=> HasCard(q)

LEMMA SlotCases ==
  ASSUME TypeOK, [Next]_vars
  PROVE  /\ turn' = turn
         /\ \/ \E r \in Requests : Takes(r) \/ GivesUp(r)
            \/ SlotsStay
<1> DEFINE P == turn' = turn /\ ((\E r \in Requests : Takes(r) \/ GivesUp(r)) \/ SlotsStay)
<1> USE DEF TypeOK, Takes, GivesUp, SlotsStay, HasCard
<1>1. UNCHANGED vars => P
  BY DEF vars, slotVars
<1>2. ASSUME NEW r \in Requests, Request(r) PROVE P
  BY <1>2 DEF Request, Refused, Sleep, Take, Move
<1>3. ASSUME NEW r \in Requests, Wake(r) PROVE P
  BY <1>3 DEF Wake, Refused, Sleep, Take, Move
<1>4. ASSUME NEW r \in Requests, Announced(r) PROVE P
  BY <1>4 DEF Announced, Move, slotVars
<1>5. ASSUME NEW r \in Requests, Leaves(r) PROVE P
  <2>1. HasCard(r) /\ Release(r) /\ turn' = turn
    BY <1>5 DEF Leaves, Answered, Timeout, CancelWaiting, CancelAnnouncing, Leave
  <2>. QED BY <2>1 DEF Release, Move
<1>6. ASSUME NEW r \in Requests, CancelQueued(r) PROVE P
  BY <1>6 DEF CancelQueued, Move, slotVars
<1>7. ASSUME NEW r \in Requests, NEW c \in Choices, Resolve(r, c) PROVE P
  BY <1>7 DEF Resolve, slotVars
<1>8. ASSUME NEW t \in Turns, CancelAll(t) PROVE P
  BY <1>8 DEF CancelAll
<1> HIDE DEF P
<1>9. P
  BY <1>1, <1>2, <1>3, <1>4, <1>5, <1>6, <1>7, <1>8, NextCases
<1>. QED BY <1>9 DEF P

(* The slot is what keeps the cards of a turn apart. *)
LEMMA SlotStep ==
  ASSUME TypeOK, OneCardPerTurn, HeldInv, [Next]_vars
  PROVE  OneCardPerTurn' /\ HeldInv'
<1>0. turn' = turn /\ turn \in [Requests -> Turns] /\ held \in [Turns -> BOOLEAN]
  BY SlotCases DEF TypeOK
<1>1. ASSUME NEW r \in Requests, Takes(r) PROVE OneCardPerTurn' /\ HeldInv'
  BY <1>0, <1>1 DEF Takes, OneCardPerTurn, HeldInv, Of
<1>2. ASSUME NEW r \in Requests, GivesUp(r) PROVE OneCardPerTurn' /\ HeldInv'
  BY <1>0, <1>2 DEF GivesUp, OneCardPerTurn, HeldInv, Of
<1>3. ASSUME SlotsStay PROVE OneCardPerTurn' /\ HeldInv'
  BY <1>0, <1>3 DEF SlotsStay, OneCardPerTurn, HeldInv, Of
<1>. QED BY <1>1, <1>2, <1>3, SlotCases

-----------------------------------------------------------------------------
(* What becomes of the answer *)

LEMMA RequestStep ==
  ASSUME TypeOK, RequestInv, [Next]_vars
  PROVE  RequestInv'
<1> USE GateAssumption DEF TypeOK, RequestInv, None
<1>1. UNCHANGED vars => RequestInv'
  BY DEF vars, slotVars
<1>2. ASSUME NEW r \in Requests, Request(r) PROVE RequestInv'
  BY <1>2 DEF Request, Refused, Sleep, Take, Move, Return
<1>3. ASSUME NEW r \in Requests, Wake(r) PROVE RequestInv'
  BY <1>3 DEF Wake, Refused, Sleep, Take, Move, Return
<1>4. ASSUME NEW r \in Requests, Announced(r) PROVE RequestInv'
  BY <1>4 DEF Announced, Move
<1>5. ASSUME NEW r \in Requests, Leaves(r) PROVE RequestInv'
  <2>1. CASE Answered(r)
    BY <2>1 DEF Answered, Leave, Release, Move, Return
  <2>2. CASE Timeout(r)
    BY <2>2 DEF Timeout, Leave, Release, Move, Return
  <2>3. CASE CancelWaiting(r)
    BY <2>3 DEF CancelWaiting, Leave, Release, Move, Return
  <2>4. CASE CancelAnnouncing(r)
    BY <2>4 DEF CancelAnnouncing, Release, Move, Return
  <2>. QED BY <1>5, <2>1, <2>2, <2>3, <2>4 DEF Leaves
<1>6. ASSUME NEW r \in Requests, CancelQueued(r) PROVE RequestInv'
  BY <1>6 DEF CancelQueued, Move, Return
<1>7. ASSUME NEW r \in Requests, NEW c \in Choices, Resolve(r, c) PROVE RequestInv'
  BY <1>7 DEF Resolve
<1>8. ASSUME NEW t \in Turns, CancelAll(t) PROVE RequestInv'
  BY <1>8 DEF CancelAll
<1>. QED BY <1>1, <1>2, <1>3, <1>4, <1>5, <1>6, <1>7, <1>8, NextCases

(* What is left behind *)

(* A turn that is in use: somebody runs in it or was abandoned in it.      *)
Used(t) == (\E r \in Of(t) : phase[r] \notin {"new", "over"}) \/ abandoned \cap Of(t) # {}

(* The entry of a turn that nobody uses is dropped.                        *)
LEMMA EntryStep ==
  ASSUME TypeOK, HeldInv, OneCardPerTurn, NothingLeaks, [Next]_vars
  PROVE  \A t \in entries' : Used(t)'
<1> USE DEF TypeOK, Used, Of
<1>0. \A t \in entries : Used(t)
  BY DEF NothingLeaks
<1> DEFINE P == \A t \in entries' : Used(t)'
<1>1. UNCHANGED vars => P
  BY <1>0 DEF vars, slotVars
<1>2. ASSUME NEW r \in Requests, Request(r) \/ Wake(r) PROVE P
  <2>1. CASE ~dead[turn[r]]
    <3>1. phase'[r] \in {"queued", "announcing"} /\ abandoned' = abandoned /\ turn' = turn
      BY <1>2, <2>1 DEF Request, Wake, Sleep, Take, Move
    <3>2. \A q \in Requests : q # r => phase'[q] = phase[q]
      BY <1>2, <2>1 DEF Request, Wake, Sleep, Take, Move
    <3>3. entries' \subseteq entries \cup {turn[r]}
      BY <1>2, <2>1 DEF Request, Wake
    <3>. QED BY <1>0, <3>1, <3>2, <3>3
  <2>2. CASE dead[turn[r]]
    <3>1. /\ \A q \in Requests : q # r => phase'[q] = phase[q]
          /\ abandoned' = abandoned /\ turn' = turn
          /\ DropIfIdle(turn[r], Waiters(turn[r]) \ {r}, held[turn[r]])
          /\ ~HasCard(r)
      BY <1>2, <2>2 DEF Request, Wake, Refused, Move, Waiters, HasCard
    <3>2. CASE Idle(turn[r], Waiters(turn[r]) \ {r}, held[turn[r]])
      BY <1>0, <3>1, <3>2 DEF DropIfIdle
    <3>3. CASE ~Idle(turn[r], Waiters(turn[r]) \ {r}, held[turn[r]])
      <4>1. \E q \in Of(turn[r]) : q # r /\ phase[q] \notin {"new", "over"}
        BY <3>1, <3>3 DEF Idle, Waiters, HeldInv, HasCard
      <4>. QED BY <1>0, <3>1, <3>3, <4>1 DEF DropIfIdle
    <3>. QED BY <3>2, <3>3
  <2>. QED BY <2>1, <2>2
<1>4. ASSUME NEW r \in Requests, Announced(r) PROVE P
  BY <1>0, <1>4 DEF Announced, Move, slotVars
<1>5. ASSUME NEW r \in Requests, Leaves(r) PROVE P
  <2>1. HasCard(r) /\ Release(r) /\ turn' = turn /\ abandoned \subseteq abandoned'
    BY <1>5 DEF Leaves, Answered, Timeout, CancelWaiting, CancelAnnouncing, Leave, HasCard
  <2>2. \A q \in Requests : q # r /\ phase[q] \notin {"new", "over"} => phase'[q] \notin {"new", "over"}
    BY <2>1 DEF Release, Move
  <2>3. CASE Waiters(turn[r]) = {}
    BY <1>0, <2>1, <2>2, <2>3 DEF Release, DropIfIdle, Idle
  <2>4. CASE Waiters(turn[r]) # {}
    <3>1. PICK q \in Waiters(turn[r]) : TRUE
      BY <2>4
    <3>2. q # r /\ q \in Of(turn[r]) /\ phase[q] \notin {"new", "over"}
      BY <2>1, <3>1 DEF Waiters, HasCard
    <3>3. entries' = entries
      BY <2>1, <2>4 DEF Release, DropIfIdle, Idle
    <3>. QED BY <1>0, <2>1, <2>2, <3>2, <3>3
  <2>. QED BY <2>3, <2>4
<1>6. ASSUME NEW r \in Requests, CancelQueued(r) PROVE P
  BY <1>0, <1>6 DEF CancelQueued, Move, slotVars
<1>7. ASSUME NEW r \in Requests, NEW c \in Choices, Resolve(r, c) PROVE P
  BY <1>0, <1>7 DEF Resolve, slotVars
<1>8. ASSUME NEW t \in Turns, CancelAll(t) PROVE P
  BY <1>0, <1>8 DEF CancelAll
<1> HIDE DEF P
<1>9. P
  BY <1>1, <1>2, <1>4, <1>5, <1>6, <1>7, <1>8, NextCases
<1>. QED BY <1>9 DEF P

(* So is the card of a request that is over.                               *)
LEMMA CardStep ==
  ASSUME TypeOK, NothingLeaks, [Next]_vars
  PROVE  \A r \in pending' : HasCard(r)' \/ r \in abandoned'
<1> USE DEF TypeOK, HasCard
<1>0. \A r \in pending : HasCard(r) \/ r \in abandoned
  BY DEF NothingLeaks
<1> DEFINE P == \A r \in pending' : HasCard(r)' \/ r \in abandoned'
<1>1. UNCHANGED vars => P
  BY <1>0 DEF vars, slotVars
<1>2. ASSUME NEW r \in Requests, Request(r) PROVE P
  BY <1>0, <1>2 DEF Request, Refused, Sleep, Take, Move
<1>3. ASSUME NEW r \in Requests, Wake(r) PROVE P
  BY <1>0, <1>3 DEF Wake, Refused, Sleep, Take, Move
<1>4. ASSUME NEW r \in Requests, Announced(r) PROVE P
  BY <1>0, <1>4 DEF Announced, Move
<1>5. ASSUME NEW r \in Requests, Leaves(r) PROVE P
  <2>1. Release(r) /\ (pending' = pending \ {r} \/ r \in abandoned') /\ pending' \subseteq pending /\ abandoned \subseteq abandoned'
    BY <1>5 DEF Leaves, Answered, Timeout, CancelWaiting, CancelAnnouncing, Leave
  <2>. QED BY <1>0, <2>1 DEF Release, Move
<1>6. ASSUME NEW r \in Requests, CancelQueued(r) PROVE P
  BY <1>0, <1>6 DEF CancelQueued, Move
<1>7. ASSUME NEW r \in Requests, NEW c \in Choices, Resolve(r, c) PROVE P
  BY <1>0, <1>7 DEF Resolve
<1>8. ASSUME NEW t \in Turns, CancelAll(t) PROVE P
  BY <1>0, <1>8 DEF CancelAll
<1> HIDE DEF P
<1>9. P
  BY <1>1, <1>2, <1>3, <1>4, <1>5, <1>6, <1>7, <1>8, NextCases
<1>. QED BY <1>9 DEF P

-----------------------------------------------------------------------------
(* The theorems *)

LEMMA InvStep == GInv /\ [Next]_vars => GInv'
<1> SUFFICES ASSUME GInv, [Next]_vars PROVE GInv'
  OBVIOUS
<1>1. NothingLeaks'
  BY EntryStep, CardStep DEF GInv, NothingLeaks, Used
<1>. QED BY <1>1, TypeStep, SlotStep, RequestStep DEF GInv

(* Every reachable state of the gate satisfies its inductive invariant:    *)
(* the slot of a turn is held exactly while a card of the turn is live.    *)
THEOREM InvariantHolds == Spec => []GInv
  BY InitInv, InvStep, PTL DEF Spec

(* Every variable of the gate keeps its type.                              *)
THEOREM TypeCorrect == Spec => []TypeOK
<1>1. GInv => TypeOK
  BY DEF GInv
<1>. QED BY <1>1, InvariantHolds, PTL

(* A turn shows at most one card, whatever the order of releases, wake-ups *)
(* and new requests.                                                       *)
THEOREM CardsTakeTurns == Spec => []OneCardPerTurn
<1>1. GInv => OneCardPerTurn
  BY DEF GInv
<1>. QED BY <1>1, InvariantHolds, PTL

(* Slots and cards are dropped on every way out of request(), the two      *)
(* cancellations outside its try blocks aside.                             *)
THEOREM LeavesNothing == Spec => []NothingLeaks
<1>1. GInv => NothingLeaks
  BY DEF GInv
<1>. QED BY <1>1, InvariantHolds, PTL

(* A choice that was submitted stands.                                     *)
THEOREM ChoicesStand == Spec => ChoiceIsKept
<1> DEFINE A == \A r \in Requests :
       resolution[r] \in Choices => resolution'[r] = resolution[r] /\ result'[r] # "cancelled"
<1>1. GInv /\ GInv' /\ [Next]_vars => A
  <2> SUFFICES ASSUME GInv, GInv', [Next]_vars, NEW q \in Requests, resolution[q] \in Choices
               PROVE  resolution'[q] = resolution[q] /\ result'[q] # "cancelled"
    OBVIOUS
  <2> DEFINE P == resolution'[q] = resolution[q]
  <2> USE GateAssumption DEF GInv, TypeOK, None
  <2>1. UNCHANGED vars => P
    BY DEF vars
  <2>2. ASSUME NEW r \in Requests, Request(r) \/ Wake(r) \/ Announced(r) \/ Leaves(r) \/ CancelQueued(r) PROVE P
    BY <2>2 DEF Request, Wake, Announced, Leaves, Answered, Timeout, CancelWaiting, CancelAnnouncing, CancelQueued
  <2>3. ASSUME NEW r \in Requests, NEW c \in Choices, Resolve(r, c) PROVE P
    BY <2>3 DEF Resolve
  <2>4. ASSUME NEW t \in Turns, CancelAll(t) PROVE P
    BY <2>4 DEF CancelAll
  <2> HIDE DEF P
  <2>5. P
    BY <2>1, <2>2, <2>3, <2>4, NextCases
  <2>. QED BY <2>5 DEF P, RequestInv
<1>2. GInv /\ GInv' /\ [Next]_vars => [A]_vars
  BY <1>1
<1>. QED BY <1>2, InvariantHolds, PTL DEF Spec, ChoiceIsKept

(* What is queued when its turn is cancelled never shows a card.           *)
THEOREM CancelledCardsStayHidden == Spec => NoCardAfterCancel
<1> DEFINE A == \A r \in Requests : (phase[r] \in {"queued", "woken"} /\ dead[turn[r]]) => ~HasCard(r)'
<1>1. TypeOK /\ [Next]_vars => A
  <2> SUFFICES ASSUME TypeOK, [Next]_vars, NEW q \in Requests, phase[q] \in {"queued", "woken"}, dead[turn[q]]
               PROVE  ~HasCard(q)'
    OBVIOUS
  <2> DEFINE P == ~HasCard(q)'
  <2> USE DEF TypeOK, HasCard
  <2>1. UNCHANGED vars => P
    BY DEF vars
  <2>2. ASSUME NEW r \in Requests, Request(r) \/ Wake(r) PROVE P
    BY <2>2 DEF Request, Wake, Refused, Sleep, Take, Move
  <2>3. ASSUME NEW r \in Requests, Announced(r) \/ CancelQueued(r) PROVE P
    BY <2>3 DEF Announced, CancelQueued, Move
  <2>4. ASSUME NEW r \in Requests, Leaves(r) PROVE P
    <3>1. Release(r)
      BY <2>4 DEF Leaves, Answered, Timeout, CancelWaiting, CancelAnnouncing, Leave
    <3>. QED BY <3>1 DEF Release, Move
  <2>5. ASSUME NEW r \in Requests, NEW c \in Choices, Resolve(r, c) PROVE P
    BY <2>5 DEF Resolve
  <2>6. ASSUME NEW t \in Turns, CancelAll(t) PROVE P
    BY <2>6 DEF CancelAll
  <2> HIDE DEF P
  <2>7. P
    BY <2>1, <2>2, <2>3, <2>4, <2>5, <2>6, NextCases
  <2>. QED BY <2>7 DEF P
<1>2. TypeOK /\ [Next]_vars => [A]_vars
  BY <1>1
<1>. QED BY <1>2, TypeCorrect, PTL DEF Spec, NoCardAfterCancel
-----------------------------------------------------------------------------
(* Why nobody starves *)

(* What release() does to the requests of its turn.                        *)
LEMMA ReleaseWakes ==
  ASSUME TypeOK, NEW r \in Requests, Leaves(r)
  PROVE  /\ HasCard(r) /\ Release(r) /\ turn' = turn
         /\ \A q \in Requests :
              phase'[q] = IF q = r THEN "over"
                          ELSE IF turn[q] = turn[r] /\ phase[q] = "queued" THEN "woken" ELSE phase[q]
<1>1. HasCard(r) /\ Release(r) /\ turn' = turn
  BY DEF Leaves, Answered, Timeout, CancelWaiting, CancelAnnouncing, Leave, HasCard
<1>. QED BY <1>1 DEF Release, Move

(* A sleeper's slot is held and its turn is alive.                         *)
SleepInv == \A q \in Requests : phase[q] = "queued" => held[turn[q]] /\ ~dead[turn[q]]

LEMMA SleepStep ==
  ASSUME TypeOK, SleepInv, [Next]_vars
  PROVE  SleepInv'
<1> USE DEF TypeOK, SleepInv
<1>1. UNCHANGED vars => SleepInv'
  BY DEF vars, slotVars
<1>2. ASSUME NEW r \in Requests, Request(r) PROVE SleepInv'
  BY <1>2 DEF Request, Refused, Sleep, Take, Move, DropIfIdle
<1>3. ASSUME NEW r \in Requests, Wake(r) PROVE SleepInv'
  BY <1>3 DEF Wake, Refused, Sleep, Take, Move, DropIfIdle
<1>4. ASSUME NEW r \in Requests, Announced(r) PROVE SleepInv'
  BY <1>4 DEF Announced, Move, slotVars
<1>5. ASSUME NEW r \in Requests, Leaves(r) PROVE SleepInv'
  <2>1. held' = [held EXCEPT ![turn[r]] = FALSE] /\ turn' = turn
    BY <1>5, ReleaseWakes DEF Release
  <2>2. \A t \in Turns : ~dead[t] => ~dead'[t]
    <3>1. DropIfIdle(turn[r], Waiters(turn[r]), FALSE)
      BY <1>5, ReleaseWakes DEF Release
    <3>2. dead' = dead \/ dead' = [dead EXCEPT ![turn[r]] = FALSE]
      BY <3>1 DEF DropIfIdle
    <3>. QED BY <3>2
  <2>3. \A q \in Requests : phase'[q] = "queued" => phase[q] = "queued" /\ turn[q] # turn[r]
    BY <1>5, ReleaseWakes
  <2>. QED BY <2>1, <2>2, <2>3
<1>6. ASSUME NEW r \in Requests, CancelQueued(r) PROVE SleepInv'
  BY <1>6 DEF CancelQueued, Move, slotVars
<1>7. ASSUME NEW r \in Requests, NEW c \in Choices, Resolve(r, c) PROVE SleepInv'
  BY <1>7 DEF Resolve, slotVars
<1>8. ASSUME NEW t \in Turns, CancelAll(t) PROVE SleepInv'
  BY <1>8 DEF CancelAll
<1>. QED BY <1>1, <1>2, <1>3, <1>4, <1>5, <1>6, <1>7, <1>8, NextCases

(* A slot keeps its entry for as long as it is in use.                     *)
LEMMA InUseStep ==
  ASSUME TypeOK, SlotHasEntry, [Next]_vars
  PROVE  SlotHasEntry'
<1> USE DEF TypeOK, SlotHasEntry, InUse, Waiters, Of
<1>1. UNCHANGED vars => SlotHasEntry'
  BY DEF vars, slotVars
<1>2. ASSUME NEW r \in Requests, Request(r) PROVE SlotHasEntry'
  <2>1. CASE dead[turn[r]]
    BY <1>2, <2>1 DEF Request, Refused, Move, DropIfIdle, Idle
  <2>2. CASE ~dead[turn[r]]
    BY <1>2, <2>2 DEF Request, Sleep, Take, Move
  <2>. QED BY <2>1, <2>2
<1>3. ASSUME NEW r \in Requests, Wake(r) PROVE SlotHasEntry'
  <2>1. CASE dead[turn[r]]
    BY <1>3, <2>1 DEF Wake, Refused, Move, DropIfIdle, Idle
  <2>2. CASE ~dead[turn[r]]
    BY <1>3, <2>2 DEF Wake, Sleep, Take, Move
  <2>. QED BY <2>1, <2>2
<1>4. ASSUME NEW r \in Requests, Announced(r) PROVE SlotHasEntry'
  BY <1>4 DEF Announced, Move, slotVars
<1>5. ASSUME NEW r \in Requests, Leaves(r) PROVE SlotHasEntry'
  <2>1. \A t \in Turns : Waiters(t)' = Waiters(t)
    BY <1>5, ReleaseWakes DEF HasCard
  <2>2. held' = [held EXCEPT ![turn[r]] = FALSE] /\ DropIfIdle(turn[r], Waiters(turn[r]), FALSE)
    BY <1>5, ReleaseWakes DEF Release
  <2>. QED BY <2>1, <2>2 DEF DropIfIdle, Idle
<1>6. ASSUME NEW r \in Requests, CancelQueued(r) PROVE SlotHasEntry'
  BY <1>6 DEF CancelQueued, Move, slotVars
<1>7. ASSUME NEW r \in Requests, NEW c \in Choices, Resolve(r, c) PROVE SlotHasEntry'
  BY <1>7 DEF Resolve, slotVars
<1>8. ASSUME NEW t \in Turns, CancelAll(t) PROVE SlotHasEntry'
  <2>1. \A s \in Turns : Waiters(s)' = Waiters(s)
    BY <1>8 DEF CancelAll
  <2>2. held' = held /\ (entries' = entries \/ (~InUse(t) /\ entries' = entries \ {t}))
    BY <1>8 DEF CancelAll, Idle
  <2>. QED BY <2>1, <2>2
<1>. QED BY <1>1, <1>2, <1>3, <1>4, <1>5, <1>6, <1>7, <1>8, NextCases

(* No slot is dropped under the requests that use it.                      *)
THEOREM SlotsKeepTheirEntry == Spec => []SlotHasEntry
<1>1. Init => SlotHasEntry
  BY DEF Init, SlotHasEntry, InUse, Waiters, Of
<1>2. TypeOK /\ SlotHasEntry /\ [Next]_vars => SlotHasEntry'
  BY InUseStep
<1>. QED BY <1>1, <1>2, TypeCorrect, PTL DEF Spec

(* No wake-up is lost: whoever sleeps has a live card of his turn to wake  *)
(* him, whatever was released, refused, cancelled or faster before.        *)
THEOREM NoWakeUpIsLost == Spec => []SleeperHasHolder
<1>1. Init => SleepInv
  BY DEF Init, SleepInv
<1>2. TypeOK /\ SleepInv /\ [Next]_vars => SleepInv'
  BY SleepStep
<1>3. GInv /\ SleepInv => SleeperHasHolder
  BY DEF GInv, TypeOK, HeldInv, SleepInv, SleeperHasHolder, Of
<1>. QED BY <1>1, <1>2, <1>3, TypeCorrect, InvariantHolds, PTL DEF Spec

(* Every round of waking and going back to sleep uses up a request.        *)
THEOREM RoundsUseUpRequests == Spec => OneRoundEach
<1> DEFINE A == \A r \in Requests :
       /\ Place(phase[r]) <= Place(phase'[r])
       /\ AsleepAgain(r) => \E s \in Requests : turn[s] = turn[r] /\ HasCard(s)
       /\ Woken(r) =>
            \/ dead'[turn[r]]
            \/ \E s \in Requests : turn[s] = turn[r] /\ HasCard(s) /\ phase'[s] = "over"
<1>1. GInv /\ SlotHasEntry /\ [Next]_vars => A
  <2> SUFFICES ASSUME GInv, SlotHasEntry, [Next]_vars, NEW q \in Requests
               PROVE  /\ Place(phase[q]) <= Place(phase'[q])
                      /\ AsleepAgain(q) => \E s \in Requests : turn[s] = turn[q] /\ HasCard(s)
                      /\ Woken(q) =>
                           \/ dead'[turn[q]]
                           \/ \E s \in Requests : turn[s] = turn[q] /\ HasCard(s) /\ phase'[s] = "over"
    OBVIOUS
  <2> DEFINE Stays == phase'[q] = phase[q]
             Sleeps == phase[q] \in {"new", "woken"} /\ phase'[q] = "queued" /\ held[turn[q]]
             Goes == /\ ~Woken(q) /\ ~AsleepAgain(q)
                     /\ Place(phase[q]) <= Place(phase'[q])
             Wakes == /\ Woken(q)
                      /\ \/ dead'[turn[q]]
                         \/ \E s \in Requests : turn[s] = turn[q] /\ HasCard(s) /\ phase'[s] = "over"
             P == Stays \/ Sleeps \/ Goes \/ Wakes
  <2> USE DEF GInv, TypeOK, Phases, HasCard, Place, Woken, AsleepAgain
  <2>1. UNCHANGED vars => P
    BY DEF vars
  <2>2. ASSUME NEW r \in Requests, Request(r) PROVE P
    BY <2>2 DEF Request, Refused, Sleep, Take, Move
  <2>3. ASSUME NEW r \in Requests, Wake(r) PROVE P
    BY <2>3 DEF Wake, Refused, Sleep, Take, Move
  <2>4. ASSUME NEW r \in Requests, Announced(r) \/ CancelQueued(r) PROVE P
    BY <2>4 DEF Announced, CancelQueued, Move
  <2>5. ASSUME NEW r \in Requests, Leaves(r) PROVE P
    BY <2>5, ReleaseWakes
  <2>6. ASSUME NEW r \in Requests, NEW c \in Choices, Resolve(r, c) PROVE P
    BY <2>6 DEF Resolve
  <2>7. ASSUME NEW t \in Turns, CancelAll(t) PROVE P
    <3>1. CASE phase[q] = "queued" /\ turn[q] = t
      <4>1. t \in entries /\ ~Idle(t, Waiters(t), held[t])
        BY <3>1 DEF SlotHasEntry, InUse, Waiters, Of, Idle
      <4>. QED BY <2>7, <3>1, <4>1 DEF CancelAll
    <3>2. CASE ~(phase[q] = "queued" /\ turn[q] = t)
      BY <2>7, <3>2 DEF CancelAll
    <3>. QED BY <3>1, <3>2
  <2> HIDE DEF P
  <2>8. P
    BY <2>1, <2>2, <2>3, <2>4, <2>5, <2>6, <2>7, NextCases
  <2>9. Sleeps => \E s \in Requests : turn[s] = turn[q] /\ HasCard(s)
    BY DEF HeldInv, Of
  <2>10. phase[q] \in Phases /\ phase'[q] = phase[q] => Place(phase[q]) <= Place(phase'[q])
    OBVIOUS
  <2>11. CASE Stays
    BY <2>10, <2>11
  <2>12. CASE Sleeps
    BY <2>9, <2>12
  <2>13. CASE Goes
    BY <2>13
  <2>14. CASE Wakes
    BY <2>14
  <2>. QED BY <2>8, <2>11, <2>12, <2>13, <2>14 DEF P
<1>2. GInv /\ SlotHasEntry /\ [Next]_vars => [A]_vars
  BY <1>1
<1>. QED BY <1>2, InvariantHolds, SlotsKeepTheirEntry, PTL DEF Spec, OneRoundEach
=============================================================================
