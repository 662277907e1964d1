-------------------------- MODULE BridgeChatProofs --------------------------
(***************************************************************************)
(* Proofs about BridgeChat for every set of requests, every bound on the   *)
(* aborts and every outcome of the turns.                                  *)
(***************************************************************************)
EXTENDS BridgeChat, SequenceTheorems, TLAPS

-----------------------------------------------------------------------------
(* Types *)

(* Put, Settle and Finish keep the types.                                  *)
LEMMA PieceTypes ==
  ASSUME TypeOK
  PROVE  /\ \A es \in Seq(Event) : Put(es) => events' \in Seq(Event)
         /\ \A r \in Requests, k \in {"final", "error", "aborted"}, t \in Requests \cup {None} :
              Settle(r, k, t) => terminal' \in [Requests -> Seq(Terminal)]
         /\ \A r \in Requests :
              Finish(r) => /\ phase' \in [Requests -> Phases]
                           /\ lock' \in Requests \cup {None} /\ released' \in Requests \cup {None}
                           /\ quiet' \in BOOLEAN
<1>1. \A es \in Seq(Event) : Put(es) => events' \in Seq(Event)
  BY DEF TypeOK, Put
<1>2. ASSUME NEW r \in Requests, NEW k \in {"final", "error", "aborted"}, NEW t \in Requests \cup {None},
             Settle(r, k, t)
      PROVE  terminal' \in [Requests -> Seq(Terminal)]
  <2>1. [kind |-> k, turn |-> t] \in Terminal
    BY DEF Terminal
  <2>2. <<[kind |-> k, turn |-> t]>> \in Seq(Terminal)
    BY <2>1
  <2>. QED BY <1>2, <2>2 DEF TypeOK, Settle
<1>3. ASSUME NEW r \in Requests, Finish(r)
      PROVE  /\ phase' \in [Requests -> Phases]
             /\ lock' \in Requests \cup {None} /\ released' \in Requests \cup {None}
             /\ quiet' \in BOOLEAN
  BY <1>3 DEF TypeOK, Finish, Goto, Phases
<1>. QED BY <1>1, <1>2, <1>3

LEMMA InitTypes == Init => TypeOK
<1> SUFFICES ASSUME Init PROVE TypeOK
  OBVIOUS
<1>1. terminal \in [Requests -> Seq(Terminal)]
  BY DEF Init
<1>2. inbox \in Seq(Requests \cup {Abort}) /\ backlog \in Seq(Requests) /\ events \in Seq(Event)
  BY DEF Init
<1>3. phase \in [Requests -> Phases] /\ pred \in [Requests -> Requests \cup {None}]
  BY DEF Init, Phases
<1>4. aborts \in 0..MaxAborts
  BY BridgeAssumption DEF Init
<1>. QED BY <1>1, <1>2, <1>3, <1>4 DEF Init, TypeOK

(* Launch and EvictStale keep the types.                                   *)
LEMMA LaunchTypes ==
  ASSUME TypeOK, NEW r \in Requests
  PROVE  /\ Launch(r) => /\ inbox' \in Seq(Requests \cup {Abort}) /\ phase' \in [Requests -> Phases]
                         /\ lock' \in Requests /\ quiet' \in BOOLEAN
                         /\ ready' \in Seq(Requests)
         /\ EvictStale => cancelled' \subseteq Requests
<1>1. Append(inbox, r) \in Seq(Requests \cup {Abort})
  BY DEF TypeOK
<1>2. [phase EXCEPT ![r] = "new"] \in [Requests -> Phases]
  BY DEF TypeOK, Phases
<1>3. EvictStale => cancelled' \subseteq Requests
  BY DEF TypeOK, EvictStale
<1>4. Append(ready, r) \in Seq(Requests)
  BY DEF TypeOK
<1>. QED BY <1>1, <1>2, <1>3, <1>4 DEF Launch

(* A drain takes its first step.                                           *)
LEMMA BeginsTypes ==
  ASSUME TypeOK, NEW r \in Requests, Begins(r)
  PROVE  phase[r] = "new" /\ ready' \in Seq(Requests)
<1>1. ready \in Seq(Requests) /\ ready # <<>> /\ ready' = Tail(ready)
  BY DEF TypeOK, Begins
<1>2. Tail(ready) \in Seq(Requests)
  BY <1>1
<1>. QED BY <1>1, <1>2 DEF Begins

LEMMA ClientTypes ==
  ASSUME TypeOK, NEW r \in Requests, Client(r) \/ SendChecked(r)
  PROVE  TypeOK'
<1> USE DEF TypeOK, Phases, runtimeVars
<1>1. CASE Reject(r)
  BY <1>1 DEF Reject
<1>2. CASE Send(r)
  BY <1>2, LaunchTypes DEF Send
<1>3. CASE Check(r)
  BY <1>3, LaunchTypes DEF Check
<1>4. CASE SendChecked(r)
  BY <1>4, LaunchTypes DEF SendChecked
<1>. QED BY <1>1, <1>2, <1>3, <1>4 DEF Client

LEMMA DrainTypes ==
  ASSUME TypeOK, NEW r \in Requests, Drain(r)
  PROVE  TypeOK'
<1>1. CASE FirstStep(r)
  BY <1>1, BeginsTypes DEF TypeOK, Phases, runtimeVars, FirstStep, Goto
<1>2. CASE PredecessorDone(r)
  BY <1>2 DEF TypeOK, Phases, runtimeVars, PredecessorDone, Goto
<1>3. CASE CancelledEarly(r)
  BY <1>3, PieceTypes, BeginsTypes DEF TypeOK, runtimeVars, CancelledEarly
<1>4. CASE CancelledDraining(r)
  <2>1. terminal' \in [Requests -> Seq(Terminal)]
    BY <1>4, PieceTypes DEF CancelledDraining
  <2>. QED BY <1>4, <2>1, PieceTypes DEF TypeOK, runtimeVars, CancelledDraining
<1>5. CASE TakeMessage(r) \/ TakeEnd(r)
  <2>1. events # <<>> /\ events \in Seq(Event) /\ events' = Tail(events)
    BY <1>5 DEF TypeOK, TakeMessage, TakeEnd
  <2>2. Head(events) \in Event /\ events' \in Seq(Event)
    BY <2>1
  <2>3. /\ Head(events).turn \in Requests \cup {None}
        /\ Head(events).kind \in EventKinds
    BY <2>2 DEF Event
  <2>4. terminal' \in [Requests -> Seq(Terminal)]
    BY <1>5, <2>3, PieceTypes DEF TakeMessage, TakeEnd, EventKinds
  <2>. QED BY <1>5, <2>2, <2>4, PieceTypes DEF TypeOK, TakeMessage, TakeEnd
<1>6. CASE IdleTimeout(r)
  <2>1. terminal' \in [Requests -> Seq(Terminal)]
    BY <1>6, PieceTypes DEF IdleTimeout
  <2>. QED BY <1>6, <2>1, PieceTypes DEF TypeOK, runtimeVars, IdleTimeout
<1>. QED BY <1>1, <1>2, <1>3, <1>4, <1>5, <1>6 DEF Drain

LEMMA RuntimeTypes ==
  ASSUME TypeOK, Runtime
  PROVE  TypeOK'
<1> USE DEF TypeOK, bridgeVars
<1>1. CASE StartTurn
  <2>1. CASE backlog # <<>>
    <3>1. Head(backlog) \in Requests /\ Tail(backlog) \in Seq(Requests)
      BY <2>1
    <3>. QED BY <1>1, <2>1, <3>1 DEF StartTurn
  <2>2. CASE backlog = <<>>
    <3>1. inbox # <<>> /\ inbox \in Seq(Requests \cup {Abort}) /\ Head(inbox) # Abort
      BY <1>1, <2>2 DEF StartTurn
    <3>2. Head(inbox) \in Requests \cup {Abort} /\ Tail(inbox) \in Seq(Requests \cup {Abort})
      BY <3>1
    <3>. QED BY <1>1, <2>2, <3>1, <3>2 DEF StartTurn
  <2>. QED BY <2>1, <2>2
<1>2. CASE AbortIdle
  <2>1. Ev("error", None) \in Event
    BY DEF Ev, Event, EventKinds
  <2>2. <<Ev("error", None)>> \in Seq(Event)
    BY <2>1
  <2>3. events' \in Seq(Event)
    BY <1>2, <2>2, PieceTypes DEF AbortIdle
  <2>4. inbox' \in Seq(Requests \cup {Abort})
    BY <1>2 DEF AbortIdle
  <2>. QED BY <1>2, <2>3, <2>4 DEF AbortIdle
<1>3. CASE DuringTurn
  <2>1. inbox # <<>> /\ inbox \in Seq(Requests \cup {Abort})
    BY <1>3 DEF DuringTurn
  <2>2. Head(inbox) \in Requests \cup {Abort} /\ Tail(inbox) \in Seq(Requests \cup {Abort})
    BY <2>1
  <2>3. Head(inbox) # Abort => Append(backlog, Head(inbox)) \in Seq(Requests)
    BY <2>2
  <2>. QED BY <1>3, <2>2, <2>3 DEF DuringTurn
<1>4. CASE TurnSucceeds \/ TurnFails \/ TurnAborted \/ TurnVanishes
  <2>1. turn \in Requests
    BY <1>4 DEF TurnSucceeds, TurnFails, TurnAborted, TurnVanishes
  <2>2. \A k \in EventKinds : Ev(k, turn) \in Event
    BY <2>1 DEF Ev, Event
  <2>3. events' \in Seq(Event)
    <3>1. /\ <<Ev("message", turn), Ev("complete", turn)>> \in Seq(Event)
          /\ <<Ev("error", turn), Ev("complete", turn)>> \in Seq(Event)
          /\ <<Ev("aborted", turn)>> \in Seq(Event)
      BY <2>2 DEF EventKinds
    <3>. QED BY <1>4, <3>1, PieceTypes DEF TurnSucceeds, TurnFails, TurnAborted, TurnVanishes
  <2>. QED BY <1>4, <2>3 DEF TurnSucceeds, TurnFails, TurnAborted, TurnVanishes, TurnOver
<1>. QED BY <1>1, <1>2, <1>3, <1>4 DEF Runtime

LEMMA TypeStep == TypeOK /\ [Next]_vars => TypeOK'
<1> SUFFICES ASSUME TypeOK, [Next]_vars PROVE TypeOK'
  OBVIOUS
<1>1. CASE UNCHANGED vars
  BY <1>1 DEF TypeOK, vars, bridgeVars, runtimeVars
<1>2. CASE ChatAbort
  <2>1. Append(inbox, Abort) \in Seq(Requests \cup {Abort})
    BY DEF TypeOK
  <2>2. aborts + 1 \in 0..MaxAborts
    BY <1>2, BridgeAssumption DEF TypeOK, ChatAbort
  <2>. QED BY <1>2, <2>1, <2>2 DEF TypeOK, ChatAbort, ReleaseTurnLock
<1>3. CASE GoesQuiet \/ Stirs
  BY <1>3 DEF TypeOK, GoesQuiet, Stirs, runtimeVars
<1>. QED BY <1>1, <1>2, <1>3, ClientTypes, DrainTypes, RuntimeTypes DEF Next

(* Every variable of the bridge and of the session behind it keeps its     *)
(* type.                                                                   *)
THEOREM TypeCorrect == Spec => []TypeOK
  BY InitTypes, TypeStep, PTL DEF Spec

-----------------------------------------------------------------------------
(* Terminal messages *)

(* A step that leaves the bridge as it is, for the others say otherwise.   *)
LEMMA RuntimeLeavesBridge == Runtime => UNCHANGED bridgeVars
  BY DEF Runtime, StartTurn, AbortIdle, DuringTurn, TurnSucceeds, TurnFails, TurnAborted, TurnVanishes, TurnOver

(* Settle sends one message, and none to who has one.                      *)
LEMMA SettleOnce ==
  ASSUME TypeOK, AtMostOneTerminal, NEW r \in Requests, NEW k, NEW t, Settle(r, k, t)
  PROVE  /\ AtMostOneTerminal' /\ terminal'[r] # <<>>
         /\ \A q \in Requests : q # r => terminal'[q] = terminal[q]
<1>1. terminal' = [terminal EXCEPT ![r] = IF @ = <<>> THEN <<[kind |-> k, turn |-> t]>> ELSE @]
  BY DEF Settle
<1>2. terminal \in [Requests -> Seq(Terminal)]
  BY DEF TypeOK
<1>3. \A q \in Requests : q # r => terminal'[q] = terminal[q]
  BY <1>1, <1>2
<1>4. terminal'[r] = IF terminal[r] = <<>> THEN <<[kind |-> k, turn |-> t]>> ELSE terminal[r]
  BY <1>1, <1>2
<1>5. Len(terminal'[r]) <= 1 /\ terminal'[r] # <<>>
  BY <1>4 DEF AtMostOneTerminal
<1>. QED BY <1>3, <1>5 DEF AtMostOneTerminal

SettlePart(r) ==
  /\ phase[r] \in {"unsent", "rejected", "checked", "new"} => r \notin cancelled
  /\ phase[r] = "waiting" => pred[r] # None
  /\ phase[r] \in Phases \ {"draining", "done"} => terminal[r] = <<>>
  /\ phase[r] = "done" => terminal[r] # <<>> \/ (r \in cancelled /\ pred[r] # None)

QuietInv == quiet => lock # None /\ phase[lock] \in {"waiting", "draining"}

LEMMA SettleParts ==
  SettleInv <=> QuietInv /\ AtMostOneTerminal /\ \A r \in Requests : SettlePart(r)
  BY DEF SettleInv, QuietInv, SettlePart

LEMMA InitSettle == Init => SettleInv
  BY DEF Init, SettleInv, AtMostOneTerminal, Phases

LEMMA SettleClient ==
  ASSUME TypeOK, QuietInv, AtMostOneTerminal, \A q \in Requests : SettlePart(q),
         NEW r \in Requests, Client(r) \/ SendChecked(r)
  PROVE  QuietInv' /\ AtMostOneTerminal' /\ \A q \in Requests : SettlePart(q)'
<1> USE BridgeAssumption DEF TypeOK, QuietInv, AtMostOneTerminal, SettlePart, Phases
<1>1. CASE Reject(r)
  BY <1>1 DEF Reject
<1>2. CASE Send(r)
  BY <1>2 DEF Send, Free, EvictStale, Launch
<1>3. CASE Check(r)
  BY <1>3 DEF Check, Free, EvictStale
<1>4. CASE SendChecked(r)
  BY <1>4 DEF SendChecked, Launch
<1>. QED BY <1>1, <1>2, <1>3, <1>4 DEF Client

LEMMA SettleDrain ==
  ASSUME TypeOK, QuietInv, AtMostOneTerminal, \A q \in Requests : SettlePart(q),
         NEW r \in Requests, Drain(r)
  PROVE  QuietInv' /\ AtMostOneTerminal' /\ \A q \in Requests : SettlePart(q)'
<1>1. CASE FirstStep(r)
  BY <1>1 DEF TypeOK, QuietInv, AtMostOneTerminal, SettlePart, Phases, FirstStep, Begins, Goto
<1>2. CASE PredecessorDone(r)
  BY <1>2 DEF TypeOK, QuietInv, AtMostOneTerminal, SettlePart, Phases, PredecessorDone, Goto
<1>3. CASE CancelledEarly(r)
  BY <1>3 DEF TypeOK, QuietInv, AtMostOneTerminal, SettlePart, Phases, CancelledEarly, Begins, Finish, Goto
<1>4. CASE CancelledDraining(r) \/ TakeEnd(r) \/ IdleTimeout(r)
  <2>1. /\ phase[r] = "draining" /\ Finish(r)
        /\ pred' = pred /\ cancelled' = cancelled
        /\ \E k, t : Settle(r, k, t)
    BY <1>4 DEF CancelledDraining, TakeEnd, IdleTimeout
  <2>2. /\ AtMostOneTerminal' /\ terminal'[r] # <<>>
        /\ \A q \in Requests : q # r => terminal'[q] = terminal[q]
    BY <2>1, SettleOnce
  <2>. QED BY <2>1, <2>2 DEF TypeOK, QuietInv, SettlePart, Phases, Finish, Goto
<1>5. CASE TakeMessage(r)
  <2>1. /\ phase[r] = "draining" /\ UNCHANGED <<phase, lock, quiet, pred, cancelled>>
        /\ \E k, t : Settle(r, k, t)
    BY <1>5 DEF TakeMessage
  <2>2. /\ AtMostOneTerminal'
        /\ \A q \in Requests : q # r => terminal'[q] = terminal[q]
    BY <2>1, SettleOnce
  <2>. QED BY <2>1, <2>2 DEF TypeOK, QuietInv, SettlePart, Phases
<1>. QED BY <1>1, <1>2, <1>3, <1>4, <1>5 DEF Drain

LEMMA SettleStep == TypeOK /\ SettleInv /\ [Next]_vars => SettleInv'
<1> SUFFICES ASSUME TypeOK, QuietInv, AtMostOneTerminal, \A q \in Requests : SettlePart(q), [Next]_vars
             PROVE  QuietInv' /\ AtMostOneTerminal' /\ \A q \in Requests : SettlePart(q)'
  BY SettleParts DEF SettleInv, QuietInv, SettlePart
<1>1. CASE UNCHANGED vars \/ Runtime
  <2>1. UNCHANGED bridgeVars
    BY <1>1, RuntimeLeavesBridge DEF vars
  <2>. QED BY <2>1 DEF bridgeVars, QuietInv, AtMostOneTerminal, SettlePart
<1>2. CASE ChatAbort
  BY <1>2 DEF ChatAbort, ReleaseTurnLock, QuietInv, AtMostOneTerminal, SettlePart
<1>3. CASE GoesQuiet \/ Stirs
  BY <1>3 DEF GoesQuiet, Stirs, QuietInv, AtMostOneTerminal, SettlePart
<1>. QED BY <1>1, <1>2, <1>3, SettleClient, SettleDrain DEF Next

(* Whatever the settings: each request has at most one terminal message,   *)
(* and a drain that ended has sent it, unless it was evicted early.        *)
THEOREM SettlesOnce == Spec => []SettleInv
<1>1. Init => TypeOK /\ SettleInv
  BY InitTypes, InitSettle
<1>2. (TypeOK /\ SettleInv) /\ [Next]_vars => (TypeOK /\ SettleInv)'
  BY TypeStep, SettleStep
<1>. QED BY <1>1, <1>2, PTL DEF Spec

(* A request is settled at most once.                                      *)
THEOREM OneTerminalEach == Spec => []AtMostOneTerminal
<1>1. SettleInv => AtMostOneTerminal
  BY DEF SettleInv
<1>. QED BY <1>1, SettlesOnce, PTL

(* A drain that is over has settled its request, exactly once, or was      *)
(* evicted while it waited for its predecessor.                            *)
THEOREM EndedDrainsHaveSettled == Spec => []DoneIsSettled
<1>1. ASSUME TypeOK, SettleInv PROVE DoneIsSettled
  <2> SUFFICES ASSUME NEW r \in Requests, terminal[r] # <<>> PROVE Len(terminal[r]) = 1
    BY <1>1 DEF SettleInv, DoneIsSettled
  <2>1. terminal[r] \in Seq(Terminal) /\ Len(terminal[r]) <= 1
    BY <1>1 DEF TypeOK, SettleInv, AtMostOneTerminal
  <2>2. Len(terminal[r]) \in Nat \ {0}
    BY <2>1, EmptySeq
  <2>3. \A n \in Nat \ {0} : n <= 1 => n = 1
    OBVIOUS
  <2>. QED BY <2>1, <2>2, <2>3, Zenon
<1>. QED BY <1>1, TypeCorrect, SettlesOnce, PTL

-----------------------------------------------------------------------------
(* The events of a request that nothing disturbs                           *)

LEMMA ShortSequences ==
  /\ \A a : Head(<<a>>) = a /\ Tail(<<a>>) = <<>> /\ <<a>> # <<>>
  /\ \A a, b : Head(<<a, b>>) = a /\ Tail(<<a, b>>) = <<b>> /\ <<a, b>> # <<>>
  /\ \A a, b : <<>> \o <<a, b>> = <<a, b>>
  /\ \A a : Append(<<>>, a) = <<a>>
<1>1. \A a : Head(<<a>>) = a /\ Tail(<<a>>) = <<>> /\ <<a>> # <<>>
  OBVIOUS
<1>2. \A a, b : Head(<<a, b>>) = a /\ Tail(<<a, b>>) = <<b>> /\ <<a, b>> # <<>>
  OBVIOUS
<1>3. \A a, b : <<>> \o <<a, b>> = <<a, b>>
  OBVIOUS
<1>4. \A a : Append(<<>>, a) = <<a>>
  OBVIOUS
<1>. QED BY <1>1, <1>2, <1>3, <1>4

(* What was sent, before and after Settle.                                 *)
LEMMA SentBySettle ==
  ASSUME TypeOK, NEW r \in Requests, NEW k, NEW t, Settle(r, k, t)
  PROVE  /\ terminal[r] = <<>> => Sent(r) = {} /\ Sent(r)' = {[kind |-> k, turn |-> t]}
         /\ terminal[r] # <<>> => Sent(r)' = Sent(r)
         /\ \A q \in Requests : q # r => Sent(q)' = Sent(q) /\ terminal'[q] = terminal[q]
<1>1. terminal' = [terminal EXCEPT ![r] = IF @ = <<>> THEN <<[kind |-> k, turn |-> t]>> ELSE @]
  BY DEF Settle
<1>2. terminal \in [Requests -> Seq(Terminal)]
  BY DEF TypeOK
<1>3. \A q \in Requests : q # r => terminal'[q] = terminal[q]
  BY <1>1, <1>2
<1>4. terminal'[r] = IF terminal[r] = <<>> THEN <<[kind |-> k, turn |-> t]>> ELSE terminal[r]
  BY <1>1, <1>2
<1>5. terminal[r] = <<>> => Sent(r) = {} /\ Sent(r)' = {[kind |-> k, turn |-> t]}
  BY <1>4 DEF Sent
<1>6. terminal[r] # <<>> => Sent(r)' = Sent(r)
  BY <1>4 DEF Sent
<1>7. \A q \in Requests : q # r => Sent(q)' = Sent(q)
  BY <1>3 DEF Sent
<1>. QED BY <1>3, <1>5, <1>6, <1>7

(* Nobody sends a terminal message but a drain that settles.               *)
LEMMA WhoSends ==
  ASSUME [Next]_vars
  PROVE  terminal' = terminal \/ \E r \in Requests : \E k, t : Settle(r, k, t)
<1>1. CASE UNCHANGED vars \/ Runtime
  BY <1>1, RuntimeLeavesBridge DEF vars, bridgeVars
<1>2. CASE ChatAbort \/ GoesQuiet \/ Stirs
  BY <1>2 DEF ChatAbort, GoesQuiet, Stirs
<1>3. ASSUME NEW r \in Requests, Client(r) \/ SendChecked(r)
      PROVE  terminal' = terminal
  BY <1>3 DEF Client, Reject, Send, Check, SendChecked
<1>4. ASSUME NEW r \in Requests, Drain(r)
      PROVE  terminal' = terminal \/ \E k, t : Settle(r, k, t)
  BY <1>4 DEF Drain, FirstStep, PredecessorDone, CancelledEarly, CancelledDraining, TakeMessage, TakeEnd, IdleTimeout
<1>. QED BY <1>1, <1>2, <1>3, <1>4 DEF Next

(* Who has checked the lock has checked it.                                *)
LEMMA PlainBefore ==
  ASSUME TypeOK, [Next]_vars, Plain'
  PROVE  Plain /\ \A r \in Requests : ~Check(r)
<1>1. \A q \in Requests : phase'[q] \in {"unsent", "rejected"} => phase[q] \in {"unsent", "rejected"}
  BY RuntimeLeavesBridge DEF Next, Client, Drain, Reject, Send, Check, SendChecked, Launch, Finish, Goto, Begins,
     FirstStep, PredecessorDone, CancelledEarly, CancelledDraining, TakeMessage, TakeEnd, IdleTimeout,
     ChatAbort, GoesQuiet, Stirs, TypeOK, vars, bridgeVars
<1>2. Plain
  BY <1>1, BridgeAssumption DEF Plain
<1>3. ASSUME NEW r \in Requests, Check(r)
      PROVE  FALSE
  <2>1. r \in Modal /\ phase'[r] = "checked"
    BY <1>3 DEF Check, TypeOK
  <2>. QED BY <2>1 DEF Plain
<1>. QED BY <1>2, <1>3

(* What went wrong stays wrong.                                            *)
LEMMA CleanBefore ==
  ASSUME TypeOK, [Next]_vars, Clean'
  PROVE  Clean /\ aborts' = 0 /\ cancelled' = {}
<1>1. aborts' = 0 /\ cancelled' = {}
  BY DEF Clean
<1>4. Plain
  BY PlainBefore DEF Clean
<1>2. aborts = 0 /\ cancelled = {}
  <2>1. CASE UNCHANGED vars \/ Runtime
    BY <1>1, <2>1, RuntimeLeavesBridge DEF vars, bridgeVars
  <2>2. CASE ChatAbort \/ GoesQuiet \/ Stirs
    BY <1>1, <2>2 DEF TypeOK, ChatAbort, GoesQuiet, Stirs
  <2>3. ASSUME NEW r \in Requests, Client(r) \/ SendChecked(r)
        PROVE  aborts = 0 /\ cancelled = {}
    BY <1>1, <2>3 DEF Client, Reject, Send, Check, SendChecked, EvictStale, runtimeVars
  <2>4. ASSUME NEW r \in Requests, Drain(r)
        PROVE  aborts = 0 /\ cancelled = {}
    BY <1>1, <2>4 DEF Drain, FirstStep, PredecessorDone, CancelledEarly, CancelledDraining, TakeMessage, TakeEnd, IdleTimeout
  <2>. QED BY <2>1, <2>2, <2>3, <2>4 DEF Next
<1>3. \A r \in Requests : Sent(r) \subseteq Sent(r)'
  <2>1. CASE terminal' = terminal
    BY <2>1 DEF Sent
  <2>2. ASSUME NEW r \in Requests, NEW k, NEW t, Settle(r, k, t)
        PROVE  \A q \in Requests : Sent(q) \subseteq Sent(q)'
    BY <2>2, SentBySettle
  <2>. QED BY <2>1, <2>2, WhoSends
<1>. QED BY <1>1, <1>2, <1>3, <1>4 DEF Clean

LEMMA ErrorsShow ==
  ASSUME Clean', NEW r \in Requests, Sent(r)' = {[kind |-> "error", turn |-> r]}
  PROVE  FALSE
<1>1. \A m \in Sent(r)' : m.kind = "final"
  BY DEF Clean
<1>2. [kind |-> "error", turn |-> r] \in Sent(r)'
  OBVIOUS
<1>3. [kind |-> "error", turn |-> r].kind = "error"
  OBVIOUS
<1>. QED BY <1>1, <1>2, <1>3

OwnState ==
  /\ released = None /\ ~aborting /\ backlog = <<>>
  /\ \A r \in Requests : \A m \in Sent(r) : m.turn = r
  /\ \A r \in Requests : phase[r] # "checked" /\ (Live(r) <=> r = lock)
  /\ IF lock = None
     THEN inbox = <<>> /\ turn = None /\ events = <<>>
     ELSE InFlight(lock)

LEMMA InitOwn == Init => OwnInv
<1> SUFFICES ASSUME Init PROVE OwnState
  BY DEF OwnInv, OwnState
<1>1. \A r \in Requests : Sent(r) = {}
  <2>1. DOMAIN <<>> = {}
    OBVIOUS
  <2>. QED BY <2>1 DEF Init, Sent
<1>2. \A r \in Requests : phase[r] = "unsent" /\ r # lock
  BY BridgeAssumption DEF Init
<1>. QED BY <1>1, <1>2 DEF Init, OwnState, Live

LEMMA OwnClient ==
  ASSUME TypeOK, SettleInv, Clean, Clean', OwnState, NEW r \in Requests, Client(r) \/ SendChecked(r)
  PROVE  OwnState'
<1>1. CASE Reject(r)
  <2>1. UNCHANGED <<lock, released, terminal, runtimeVars>>
    BY <1>1 DEF Reject
  <2>2. \A q \in Requests : phase'[q] # "checked" /\ (Live(q)' <=> q = lock)
    BY <1>1 DEF Reject, TypeOK, OwnState, Live
  <2>. QED BY <2>1, <2>2 DEF OwnState, InFlight, Sent, runtimeVars
<1>2. CASE Send(r)
  <2>1. lock = None
    BY <1>2 DEF Send, EvictStale, Clean, TypeOK
  <2>2. inbox' = <<r>> /\ UNCHANGED <<released, terminal, backlog, turn, aborting, events>> /\ lock' = r
    BY <1>2, <2>1, ShortSequences DEF Send, Launch, OwnState
  <2>3. \A q \in Requests : phase'[q] # "checked" /\ (Live(q)' <=> q = r)
    BY <1>2, <2>1, BridgeAssumption DEF Send, Launch, TypeOK, OwnState, Live
  <2>4. terminal[r] = <<>>
    BY <1>2 DEF Send, SettleInv, Phases
  <2>5. InFlight(r)'
    BY <2>1, <2>2, <2>4 DEF InFlight, OwnState
  <2>. QED BY <2>1, <2>2, <2>3, <2>5, BridgeAssumption DEF OwnState, Sent
<1>3. CASE Check(r)
  <2>1. r \in Modal /\ phase'[r] = "checked"
    BY <1>3 DEF Check, TypeOK
  <2>. QED BY <2>1 DEF Clean, Plain
<1>4. CASE SendChecked(r)
  BY <1>4 DEF SendChecked, OwnState
<1>. QED BY <1>1, <1>2, <1>3, <1>4 DEF Client

LEMMA OwnDrain ==
  ASSUME TypeOK, SettleInv, Clean, Clean', OwnState, NEW r \in Requests, Drain(r)
  PROVE  OwnState'
<1>0. r = lock /\ lock # None /\ InFlight(r)
  BY BridgeAssumption DEF Drain, FirstStep, Begins, PredecessorDone, CancelledEarly, CancelledDraining,
     TakeMessage, TakeEnd, IdleTimeout, OwnState, Live
<1>1. CASE FirstStep(r) \/ PredecessorDone(r)
  <2>1. UNCHANGED <<lock, released, terminal, runtimeVars>>
    BY <1>1 DEF FirstStep, PredecessorDone
  <2>2. \A q \in Requests : phase'[q] # "checked" /\ (Live(q)' <=> q = lock)
    BY <1>1 DEF FirstStep, PredecessorDone, Begins, Goto, TypeOK, OwnState, Live
  <2>. QED BY <2>1, <2>2 DEF OwnState, InFlight, Sent, runtimeVars
<1>2. CASE CancelledEarly(r) \/ CancelledDraining(r)
  BY <1>2 DEF CancelledEarly, CancelledDraining, Clean
<1>3. CASE TakeMessage(r)
  <2>1. /\ events = <<Ev("message", r), Ev("complete", r)>>
        /\ inbox = <<>> /\ turn = None /\ terminal[r] = <<>>
    BY <1>0, <1>3, ShortSequences DEF TakeMessage, InFlight, Ev
  <2>2. Settle(r, "final", r) /\ events' = <<Ev("complete", r)>>
    BY <1>3, <2>1, ShortSequences DEF TakeMessage, Ev
  <2>3. UNCHANGED <<phase, lock, released, inbox, backlog, turn, aborting>>
    BY <1>3 DEF TakeMessage
  <2>4. \A q \in Requests : \A m \in Sent(q)' : m.turn = q
    BY <2>1, <2>2, SentBySettle DEF OwnState
  <2>5. InFlight(r)'
    BY <2>1, <2>2, <2>3 DEF InFlight
  <2>. QED BY <1>0, <2>3, <2>4, <2>5 DEF OwnState, Live
<1>4. CASE TakeEnd(r)
  <2>1. CASE events = <<Ev("error", r), Ev("complete", r)>> /\ terminal[r] = <<>>
    <3>1. Settle(r, "error", r)
      BY <1>4, <2>1, ShortSequences DEF TakeEnd, Ev
    <3>2. Sent(r)' = {[kind |-> "error", turn |-> r]}
      BY <2>1, <3>1, SentBySettle
    <3>. QED BY <3>2, ErrorsShow
  <2>2. CASE inbox = <<>> /\ turn = None /\ events = <<Ev("complete", r)>>
    <3>1. Settle(r, "final", r) /\ events' = <<>>
      BY <1>4, <2>2, ShortSequences DEF TakeEnd, Ev
    <3>2. Finish(r) /\ UNCHANGED <<inbox, backlog, turn, aborting>>
      BY <1>4 DEF TakeEnd
    <3>3. \A q \in Requests : \A m \in Sent(q)' : m.turn = q
      BY <3>1, SentBySettle DEF OwnState
    <3>4. lock' = None /\ released' = None
      BY <1>0, <3>2 DEF Finish, OwnState
    <3>5. \A q \in Requests : phase'[q] # "checked" /\ ~Live(q)'
      BY <1>0, <3>2 DEF Finish, Goto, TypeOK, OwnState, Live
    <3>. QED BY <2>2, <3>1, <3>2, <3>3, <3>4, <3>5, BridgeAssumption DEF OwnState
  <2>. QED BY <1>0, <1>4, <2>1, <2>2, ShortSequences DEF TakeEnd, InFlight, Ev
<1>5. CASE IdleTimeout(r)
  <2>1. terminal[r] = <<>>
    BY <1>0, <1>5, ShortSequences DEF IdleTimeout, InFlight
  <2>2. Sent(r)' = {[kind |-> "error", turn |-> r]}
    BY <1>5, <2>1, SentBySettle DEF IdleTimeout
  <2>. QED BY <2>2, ErrorsShow
<1>. QED BY <1>1, <1>2, <1>3, <1>4, <1>5 DEF Drain

LEMMA OwnRuntime ==
  ASSUME TypeOK, Clean, OwnState, Runtime
  PROVE  OwnState'
<1>0. UNCHANGED <<phase, lock, released, terminal>>
  BY RuntimeLeavesBridge DEF bridgeVars
<1>1. lock \in Requests /\ lock # None /\ InFlight(lock) /\ backlog = <<>> /\ ~aborting
  BY BridgeAssumption DEF TypeOK, Runtime, StartTurn, AbortIdle, DuringTurn, TurnSucceeds, TurnFails, TurnAborted, TurnVanishes, OwnState
<1>2. CASE StartTurn
  <2>1. inbox = <<lock>> /\ events = <<>> /\ terminal[lock] = <<>>
    BY <1>1, <1>2 DEF StartTurn, InFlight
  <2>2. turn' = lock /\ inbox' = <<>> /\ UNCHANGED <<aborting, events, backlog>>
    BY <1>1, <1>2, <2>1, ShortSequences DEF StartTurn
  <2>. QED BY <1>0, <1>1, <2>1, <2>2 DEF OwnState, InFlight, Live, Sent
<1>3. CASE AbortIdle
  BY <1>1, <1>3, ShortSequences, BridgeAssumption DEF AbortIdle, InFlight
<1>4. CASE DuringTurn
  BY <1>1, <1>4 DEF DuringTurn, InFlight
<1>5. CASE TurnSucceeds \/ TurnFails
  <2>1. inbox = <<>> /\ turn = lock /\ events = <<>> /\ terminal[lock] = <<>>
    BY <1>1, <1>5 DEF TurnSucceeds, TurnFails, InFlight
  <2>2. \E k \in {"message", "error"} : events' = <<Ev(k, lock), Ev("complete", lock)>>
    BY <1>5, <2>1, ShortSequences DEF TurnSucceeds, TurnFails, Put
  <2>3. turn' = None /\ aborting' = FALSE /\ UNCHANGED <<inbox, backlog>>
    BY <1>5 DEF TurnSucceeds, TurnFails, TurnOver
  <2>. QED BY <1>0, <1>1, <2>1, <2>2, <2>3 DEF OwnState, InFlight, Live, Sent
<1>6. CASE TurnAborted \/ TurnVanishes
  BY <1>1, <1>6 DEF TurnAborted, TurnVanishes
<1>. QED BY <1>2, <1>3, <1>4, <1>5, <1>6 DEF Runtime

LEMMA OwnStep == TypeOK /\ SettleInv /\ OwnInv /\ [Next]_vars => OwnInv'
<1> SUFFICES ASSUME TypeOK, SettleInv, OwnInv, [Next]_vars, Clean' PROVE OwnState'
  BY DEF OwnInv, OwnState
<1>1. Clean /\ aborts' = 0
  BY CleanBefore
<1>2. OwnState
  BY <1>1 DEF OwnInv, OwnState
<1>3. CASE UNCHANGED vars
  BY <1>2, <1>3 DEF OwnState, InFlight, Live, Sent, vars, bridgeVars, runtimeVars
<1>4. CASE ChatAbort
  BY <1>1, <1>4 DEF ChatAbort, Clean, TypeOK
<1>5. CASE GoesQuiet \/ Stirs
  BY <1>2, <1>5 DEF GoesQuiet, Stirs, OwnState, InFlight, Live, Sent, runtimeVars
<1>. QED BY <1>1, <1>2, <1>3, <1>4, <1>5, OwnClient, OwnDrain, OwnRuntime DEF Next

(* As long as nothing went wrong, a request is settled by its own turn: no *)
(* drain leaves an event for the next one.                                 *)
THEOREM SettledByOwnTurn == Spec => []OwnTerminal
<1>1. Init => TypeOK /\ SettleInv /\ OwnInv
  BY InitTypes, InitSettle, InitOwn
<1>2. (TypeOK /\ SettleInv /\ OwnInv) /\ [Next]_vars => (TypeOK /\ SettleInv /\ OwnInv)'
  BY TypeStep, SettleStep, OwnStep
<1>3. OwnInv => OwnTerminal
  BY DEF OwnInv, OwnTerminal, Clean
<1>. QED BY <1>1, <1>2, <1>3, PTL DEF Spec

-----------------------------------------------------------------------------
(* The drains that have not begun                                          *)

LEMMA InitReady == Init => ReadyInv
  BY DEF Init, ReadyInv

(* A drain is created: it is the last to begin.                            *)
LEMMA ReadyLaunch ==
  ASSUME TypeOK, ReadyInv, NEW r \in Requests, phase[r] # "new", Launch(r)
  PROVE  ReadyInv'
<1>1. /\ phase' = [phase EXCEPT ![r] = "new"] /\ lock' = r
      /\ ready \in Seq(Requests) /\ ready' = Append(ready, r)
  BY DEF Launch, TypeOK
<1>2. /\ Len(ready') = Len(ready) + 1 /\ DOMAIN ready' = 1..(Len(ready) + 1)
      /\ ready'[Len(ready) + 1] = r
      /\ \A i \in DOMAIN ready : i \in DOMAIN ready' /\ i # Len(ready) + 1 /\ ready'[i] = ready[i]
      /\ \A i \in DOMAIN ready' : i = Len(ready) + 1 \/ i \in DOMAIN ready
  BY <1>1
<1>3. \A i \in DOMAIN ready : ready[i] # r
  BY DEF ReadyInv
<1>4. \A i, j \in DOMAIN ready' : ready'[i] = ready'[j] => i = j
  BY <1>2, <1>3 DEF ReadyInv
<1>5. \A q \in Requests : phase'[q] = "new" <=> \E i \in DOMAIN ready' : ready'[i] = q
  <2> TAKE q \in Requests
  <2>1. CASE q = r
    <3>1. phase'[q] = "new" /\ Len(ready) + 1 \in DOMAIN ready'
      BY <1>1, <1>2, <2>1 DEF TypeOK
    <3>. QED BY <1>2, <2>1, <3>1
  <2>2. CASE q # r
    <3>1. phase'[q] = phase[q]
      BY <1>1, <2>2 DEF TypeOK
    <3>. QED BY <1>2, <2>2, <3>1 DEF ReadyInv
  <2>. QED BY <2>1, <2>2
<1>. QED BY <1>1, <1>2, <1>4, <1>5 DEF ReadyInv

(* The drain that was created first takes its first step.                  *)
LEMMA ReadyBegins ==
  ASSUME TypeOK, ReadyInv, NEW r \in Requests, Begins(r),
         NEW p \in Phases \ {"new"}, phase' = [phase EXCEPT ![r] = p], lock' \in {lock, None}
  PROVE  ReadyInv'
<1>1. /\ ready \in Seq(Requests) /\ ready # <<>>
      /\ r = ready[1] /\ ready' = Tail(ready)
  BY DEF Begins, TypeOK
<1>2. /\ Len(ready) \in Nat /\ Len(ready) >= 1 /\ Len(ready') = Len(ready) - 1
      /\ DOMAIN ready = 1..Len(ready) /\ DOMAIN ready' = 1..(Len(ready) - 1)
      /\ \A i \in DOMAIN ready' : i + 1 \in DOMAIN ready /\ i + 1 # 1 /\ ready'[i] = ready[i + 1]
  BY <1>1
<1>3. \A i \in DOMAIN ready : i = 1 \/ (i - 1 \in DOMAIN ready' /\ ready'[i - 1] = ready[i])
  BY <1>2
<1>4. 1 \in DOMAIN ready /\ \A i \in DOMAIN ready' : ready'[i] # r
  BY <1>1, <1>2 DEF ReadyInv
<1>5. \A i, j \in DOMAIN ready' : ready'[i] = ready'[j] => i = j
  <2> SUFFICES ASSUME NEW i \in DOMAIN ready', NEW j \in DOMAIN ready', ready'[i] = ready'[j]
               PROVE  i = j
    OBVIOUS
  <2>1. i + 1 = j + 1
    BY <1>2 DEF ReadyInv
  <2>2. i \in Nat /\ j \in Nat
    BY <1>2
  <2>. QED BY <2>1, <2>2
<1>6. \A q \in Requests : phase'[q] = "new" <=> \E i \in DOMAIN ready' : ready'[i] = q
  <2> TAKE q \in Requests
  <2>1. CASE q = r
    <3>1. phase'[q] # "new"
      BY <2>1 DEF TypeOK
    <3>. QED BY <1>4, <2>1, <3>1
  <2>2. CASE q # r
    <3>1. phase'[q] = phase[q]
      BY <2>2 DEF TypeOK
    <3>2. phase[q] = "new" => \E i \in DOMAIN ready' : ready'[i] = q
      <4>1. SUFFICES ASSUME NEW i \in DOMAIN ready, ready[i] = q PROVE \E j \in DOMAIN ready' : ready'[j] = q
        BY DEF ReadyInv
      <4>. QED BY <1>1, <1>3, <2>2, <4>1
    <3>3. (\E i \in DOMAIN ready' : ready'[i] = q) => phase[q] = "new"
      BY <1>2 DEF ReadyInv
    <3>. QED BY <3>1, <3>2, <3>3
  <2>. QED BY <2>1, <2>2
<1>7. lock' # None /\ ready' # <<>> => ready'[Len(ready')] = lock'
  <2> HAVE lock' # None /\ ready' # <<>>
  <2>1. lock # None /\ lock' = lock /\ ready[Len(ready)] = lock
    BY <1>1 DEF ReadyInv
  <2>2. ready' \in Seq(Requests) /\ Len(ready') # 0
    BY <1>1
  <2>3. Len(ready') \in DOMAIN ready' /\ Len(ready') + 1 = Len(ready)
    BY <1>2, <2>2
  <2>. QED BY <1>2, <2>1, <2>3
<1>. QED BY <1>5, <1>6, <1>7 DEF ReadyInv

LEMMA ReadyKept ==
  ASSUME ReadyInv, ready' = ready, lock' \in {lock, None},
         \A q \in Requests : phase'[q] = "new" <=> phase[q] = "new"
  PROVE  ReadyInv'
  BY DEF ReadyInv

LEMMA ReadyDrain ==
  ASSUME TypeOK, ReadyInv, NEW r \in Requests, Drain(r)
  PROVE  ReadyInv'
<1>1. CASE FirstStep(r)
  <2>1. Begins(r) /\ lock' = lock
    BY <1>1 DEF FirstStep
  <2>2. phase' = [phase EXCEPT ![r] = "draining"] \/ phase' = [phase EXCEPT ![r] = "waiting"]
    BY <1>1 DEF FirstStep, Goto
  <2>. QED BY <2>1, <2>2, ReadyBegins DEF Phases
<1>2. CASE CancelledEarly(r) /\ Begins(r)
  <2>1. phase' = [phase EXCEPT ![r] = "done"] /\ lock' \in {lock, None}
    BY <1>2 DEF CancelledEarly, Finish, Goto
  <2>. QED BY <1>2, <2>1, ReadyBegins DEF Phases
<1>3. CASE \/ PredecessorDone(r) \/ CancelledDraining(r) \/ TakeMessage(r) \/ TakeEnd(r) \/ IdleTimeout(r)
           \/ (CancelledEarly(r) /\ ~Begins(r))
  <2>1. ready' = ready /\ lock' \in {lock, None}
    BY <1>3 DEF PredecessorDone, CancelledDraining, TakeMessage, TakeEnd, IdleTimeout, CancelledEarly, Finish
  <2>2. /\ phase[r] \in {"waiting", "draining"}
        /\ phase' = phase \/ \E p \in {"done", "draining"} : phase' = [phase EXCEPT ![r] = p]
    BY <1>3 DEF PredecessorDone, CancelledDraining, TakeMessage, TakeEnd, IdleTimeout, CancelledEarly, Finish, Goto
  <2>3. \A q \in Requests : phase'[q] = "new" <=> phase[q] = "new"
    BY <2>2 DEF TypeOK
  <2>. QED BY <2>1, <2>3, ReadyKept
<1>. QED BY <1>1, <1>2, <1>3 DEF Drain

LEMMA ReadyStep == TypeOK /\ ReadyInv /\ [Next]_vars => ReadyInv'
<1> SUFFICES ASSUME TypeOK, ReadyInv, [Next]_vars PROVE ReadyInv'
  OBVIOUS
<1>1. ASSUME NEW r \in Requests, Send(r) \/ SendChecked(r)
      PROVE  ReadyInv'
  <2>1. phase[r] # "new" /\ Launch(r)
    BY <1>1 DEF Send, SendChecked
  <2>. QED BY <2>1, ReadyLaunch
<1>2. ASSUME NEW r \in Requests, Reject(r) \/ Check(r)
      PROVE  ReadyInv'
  <2>1. ready' = ready /\ lock' \in {lock, None}
    BY <1>2 DEF Reject, Check
  <2>2. /\ phase[r] = "unsent"
        /\ \E p \in {"rejected", "checked"} : phase' = [phase EXCEPT ![r] = p]
    BY <1>2 DEF Reject, Check
  <2>3. \A q \in Requests : phase'[q] = "new" <=> phase[q] = "new"
    BY <2>2 DEF TypeOK
  <2>. QED BY <2>1, <2>3, ReadyKept
<1>3. CASE ChatAbort \/ GoesQuiet \/ Stirs
  <2>1. ready' = ready /\ lock' \in {lock, None} /\ phase' = phase
    BY <1>3 DEF ChatAbort, ReleaseTurnLock, GoesQuiet, Stirs
  <2>. QED BY <2>1, ReadyKept
<1>4. CASE Runtime \/ UNCHANGED vars
  <2>1. ready' = ready /\ lock' = lock /\ phase' = phase
    BY <1>4, RuntimeLeavesBridge DEF bridgeVars, vars
  <2>. QED BY <2>1, ReadyKept
<1>. QED BY <1>1, <1>2, <1>3, <1>4, ReadyDrain DEF Next, Client

(* Whatever else happens, drains begin in the order of their creation, and *)
(* the one that has the lock is the youngest of all.                       *)
THEOREM LockIsYoungest == Spec => []ReadyInv
<1>1. Init => TypeOK /\ ReadyInv
  BY InitTypes, InitReady
<1>2. (TypeOK /\ ReadyInv) /\ [Next]_vars => (TypeOK /\ ReadyInv)'
  BY TypeStep, ReadyStep
<1>. QED BY <1>1, <1>2, PTL DEF Spec

-----------------------------------------------------------------------------
(* The order of the readers, as long as no request has awaited anything    *)
(* between the check of the lock and taking it.                            *)

Orders == [Nat -> Requests \cup {None}]

Chain(c, lo, hi, stuck) ==
  Queue(c, lo, hi, stuck) /\ Stuck(stuck) /\ Cause(stuck) /\ Ends(c, lo, hi, stuck)

SomeChain ==
  \E c \in Orders, lo \in Nat \ {0}, hi \in Nat, stuck \in SUBSET Requests : Chain(c, lo, hi, stuck)

ChainInv == Plain => LockInv /\ (\A r \in Requests : phase[r] # "checked") /\ SomeChain

LEMMA InitChain == Init => ChainInv
<1> SUFFICES ASSUME Init PROVE LockInv /\ (\A r \in Requests : phase[r] # "checked") /\ SomeChain
  BY DEF ChainInv
<1>1. Waiting = {}
  BY DEF Init, Waiting, Live
<1>2. Chain([n \in Nat |-> None], 1, 0, {})
  <2>1. \A i : i \notin 1..0 /\ i \notin (1 + 1)..0
    OBVIOUS
  <2>. QED BY <1>1, <2>1 DEF Init, Chain, Queue, Stuck, Cause, Ends
<1>3. SomeChain
  BY <1>2 DEF SomeChain, Orders
<1>4. LockInv /\ \A r \in Requests : phase[r] # "checked"
  BY DEF Init, LockInv
<1>. QED BY <1>3, <1>4

(* Who is who in a chain.                                                  *)
Members(c, lo, hi, stuck) ==
  /\ \A q : q \in Waiting <=> q \in stuck \/ \E i \in lo..hi : q = c[i]
  /\ \A q \in Waiting : q \in Requests /\ Live(q) /\ q \notin cancelled
  /\ \A i \in lo..hi : c[i] \in Waiting /\ c[i] \in Requests /\ c[i] \notin stuck
  /\ lock # None => lock \in Waiting
  /\ released # None => released \in Waiting
  /\ None \notin Requests

LEMMA ChainFacts ==
  ASSUME TypeOK, NEW c \in Orders, NEW lo \in Nat \ {0}, NEW hi \in Nat, NEW stuck \in SUBSET Requests,
         Chain(c, lo, hi, stuck)
  PROVE  Members(c, lo, hi, stuck)
<1>1. Waiting = { c[i] : i \in lo..hi } \cup stuck
  BY DEF Chain, Queue
<1>2. \A q : q \in Waiting <=> q \in stuck \/ \E i \in lo..hi : q = c[i]
  BY <1>1
<1>3. \A q \in Waiting : q \in Requests /\ Live(q) /\ q \notin cancelled
  BY DEF Waiting
<1>4. \A i \in lo..hi : c[i] \in Waiting /\ c[i] \in Requests /\ c[i] \notin stuck
  BY <1>2, <1>3 DEF Chain, Queue
<1>5. lock # None => lock \in Waiting
  <2>1. CASE stuck # {}
    BY <1>2, <2>1 DEF Chain, Ends
  <2>2. CASE stuck = {} /\ lock # None
    <3>1. lo <= hi /\ lock = c[hi]
      BY <2>2 DEF Chain, Ends
    <3>. QED BY <1>4, <3>1
  <2>. QED BY <2>1, <2>2
<1>6. released # None => released \in Waiting
  <2>1. CASE stuck # {}
    BY <1>2, <2>1 DEF Chain, Ends
  <2>2. CASE stuck = {} /\ released # None
    <3> DEFINE last == IF lock = None THEN hi ELSE hi - 1
    <3>1. lo <= last /\ released = c[last]
      BY <2>2 DEF Chain, Ends
    <3>2. last \in lo..hi
      BY <3>1
    <3>. QED BY <1>4, <3>1, <3>2
  <2>. QED BY <2>1, <2>2
<1>. QED BY <1>2, <1>3, <1>4, <1>5, <1>6, BridgeAssumption DEF Members

(* Where a drain is that may read, or is about to begin.                   *)
LEMMA ChainPlaces ==
  ASSUME TypeOK, NEW c \in Orders, NEW lo \in Nat \ {0}, NEW hi \in Nat, NEW stuck \in SUBSET Requests,
         Chain(c, lo, hi, stuck), NEW r \in Waiting
  PROVE  /\ phase[r] = "draining" => lo <= hi /\ r = c[lo]
         /\ phase[r] = "waiting" /\ phase[pred[r]] = "done" => lo <= hi /\ r = c[lo]
         /\ phase[r] = "new" /\ r \notin stuck => lo <= hi /\ r = c[hi] /\ lock = r /\ stuck = {}
<1>0. /\ \A q \in Waiting : phase[q] # "done"
      /\ r \in stuck \/ \E i \in lo..hi : r = c[i]
      /\ \A i \in lo..hi : c[i] \in Waiting /\ c[i] \notin stuck
      /\ stuck \subseteq Waiting
  BY ChainFacts DEF Members, Live
<1>1. CASE r \in stuck
  BY <1>0, <1>1 DEF Chain, Stuck
<1>2. ASSUME NEW i \in lo..hi, r = c[i], i # lo
      PROVE  /\ phase[r] # "draining"
             /\ phase[r] = "waiting" => phase[pred[r]] # "done"
             /\ phase[r] = "new" => i = hi /\ lock = r
  <2>1. i \in (lo + 1)..hi /\ i - 1 \in lo..hi
    BY <1>2
  <2>2. \/ phase[c[i]] = "waiting" /\ pred[c[i]] = c[i - 1]
        \/ phase[c[i]] = "new" /\ i = hi /\ lock = c[i]
    BY <2>1 DEF Chain, Queue
  <2>3. phase[c[i - 1]] # "done"
    BY <1>0, <2>1
  <2>. QED BY <1>2, <2>2, <2>3
<1>3. ASSUME NEW i \in lo..hi, r = c[i], i = lo, phase[r] = "new"
      PROVE  i = hi /\ lock = r
  <2>1. lo <= hi
    BY <1>3
  <2>. QED BY <1>3, <2>1 DEF Chain, Queue
<1>4. ASSUME NEW i \in lo..hi, r = c[i], lock = r
      PROVE  stuck = {}
  BY <1>0, <1>4, BridgeAssumption DEF Chain, Ends, Waiting
<1>. QED BY <1>0, <1>1, <1>2, <1>3, <1>4

(* A message is submitted: its drain is the last, in place of an evicted   *)
(* one if the lock was taken.                                              *)
LEMMA ChainSend ==
  ASSUME TypeOK, SettleInv, LockInv, SomeChain, NEW r \in Requests, Send(r)
  PROVE  LockInv' /\ SomeChain'
<1>1. PICK c \in Orders, lo \in Nat \ {0}, hi \in Nat, stuck \in SUBSET Requests : Chain(c, lo, hi, stuck)
  BY DEF SomeChain
<1>2. /\ phase[r] = "unsent" /\ phase' = [phase EXCEPT ![r] = "new"]
      /\ lock' = r /\ cancelled' = cancelled \cup ({lock} \ {None})
      /\ UNCHANGED <<released, pred>>
  BY DEF Send, EvictStale, Launch
<1>3. r \notin Waiting /\ r \notin cancelled
  BY <1>2 DEF Waiting, Live, SettleInv
<1>m. Members(c, lo, hi, stuck)
  BY <1>1, ChainFacts
<1>4. /\ \A q : q \in Waiting <=> q \in stuck \/ \E i \in lo..hi : q = c[i]
      /\ \A q \in Waiting : q \in Requests /\ Live(q) /\ q \notin cancelled
      /\ \A i \in lo..hi : c[i] \in Waiting /\ c[i] \in Requests /\ c[i] \notin stuck
      /\ lock # None => lock \in Waiting
      /\ released # None => released \in Waiting
      /\ None \notin Requests
  BY <1>m DEF Members
<1>5. LockInv'
  BY <1>2, <1>3, <1>4 DEF LockInv
<1>6. Waiting' = (Waiting \ {lock}) \cup {r}
  BY <1>2, <1>3, <1>4 DEF Waiting, Live, TypeOK
<1>7. CASE stuck # {}
  <2>0. PICK S \in SUBSET Requests : S = (stuck \ {lock}) \cup {r}
    OBVIOUS
  <2>1. released \in stuck /\ lock \in stuck \cup {None} /\ released # lock
    BY <1>1, <1>4, <1>7 DEF Chain, Ends, LockInv
  <2>2. Queue(c, lo, hi, S)'
    <3>1. \A i \in lo..hi : c[i] # r /\ c[i] # lock /\ phase'[c[i]] = phase[c[i]]
      BY <1>2, <1>3, <1>4, <2>1 DEF TypeOK
    <3>2. Waiting' = { c[i] : i \in lo..hi } \cup S
      BY <1>4, <1>6, <2>0, <3>1
    <3>3. \A i \in (lo + 1)..hi : i \in lo..hi /\ i - 1 \in lo..hi
      OBVIOUS
    <3>4. \A q \in Requests : phase[q] = "done" => phase'[q] = "done"
      BY <1>2 DEF TypeOK
    <3>5. lo <= hi => phase[c[lo]] = "draining" \/ (phase[c[lo]] = "waiting" /\ phase[pred[c[lo]]] = "done")
      BY <1>1, <3>1 DEF Chain, Queue
    <3>6. \A i \in (lo + 1)..hi : phase[c[i]] = "waiting" /\ pred[c[i]] = c[i - 1]
      BY <1>1, <3>1, <3>3 DEF Chain, Queue
    <3>7. \A i \in lo..hi : c[i] \notin S
      BY <1>4, <2>0, <3>1
    <3>8. lo <= hi /\ phase[c[lo]] = "waiting" => pred[c[lo]] \in Requests
      BY <1>4 DEF SettleInv, TypeOK
    <3>9. \A i, j \in lo..hi : c[i] = c[j] => i = j
      BY <1>1 DEF Chain, Queue
    <3>10. lo <= hi =>
             \/ phase'[c[lo]] = "draining"
             \/ phase'[c[lo]] = "waiting" /\ phase'[pred'[c[lo]]] = "done"
      BY <1>2, <3>1, <3>4, <3>5, <3>8
    <3>11. \A i \in (lo + 1)..hi : phase'[c[i]] = "waiting" /\ pred'[c[i]] = c[i - 1]
      BY <1>2, <3>1, <3>3, <3>6
    <3>12. lo <= hi + 1
      BY <1>1 DEF Chain, Queue
    <3>. QED BY <3>2, <3>7, <3>9, <3>10, <3>11, <3>12 DEF Queue
  <2>3. Stuck(S)'
    BY <1>1, <1>2, <1>3, <1>4, <2>0, <2>1 DEF Chain, Stuck, TypeOK
  <2>4. Ends(c, lo, hi, S)'
    BY <1>2, <2>0, <2>1 DEF Ends
  <2>5. Cause(S)'
    <3>1. CASE phase[released] = "new"
      <4>1. released # r /\ released \in Requests
        BY <1>3, <1>4, <2>1
      <4>. QED BY <1>2, <3>1, <4>1 DEF Cause, TypeOK
    <3>2. CASE \E q \in stuck : SelfWait(q)
      <4>1. PICK q \in stuck : SelfWait(q)
        BY <3>2
      <4>2. q # r /\ q # lock
        BY <1>1, <1>2, <4>1 DEF Chain, Stuck, SelfWait
      <4>3. q \in S /\ SelfWait(q)'
        BY <1>2, <2>0, <4>1, <4>2 DEF SelfWait, TypeOK
      <4>. QED BY <4>3 DEF Cause
    <3>. QED BY <1>1, <1>7, <3>1, <3>2 DEF Chain, Cause
  <2>. QED BY <1>5, <2>2, <2>3, <2>4, <2>5 DEF SomeChain, Chain
<1>8. CASE stuck = {}
  <2>0. PICK end \in Nat : end = IF lock = None THEN hi + 1 ELSE hi
    OBVIOUS
  <2> DEFINE d == [c EXCEPT ![end] = r]
  <2>1. /\ lo <= hi + 1
        /\ lock # None => lo <= hi /\ lock = c[hi]
        /\ released = IF lo <= end - 1 THEN c[end - 1] ELSE None
        /\ \A i, j \in lo..hi : c[i] = c[j] => i = j
    <3>1. end - 1 = IF lock = None THEN hi ELSE hi - 1
      BY <2>0
    <3>. QED BY <1>1, <1>8, <2>0, <3>1 DEF Chain, Queue, Ends
  <2>2. /\ end \in Nat /\ lo <= end /\ end - 1 <= hi
        /\ \A i \in lo..(end - 1) : i \in lo..hi /\ i # end /\ i \in lo..end
        /\ \A i \in lo..end : i = end \/ i \in lo..(end - 1)
    BY <2>0, <2>1
  <2>3. d \in Orders /\ d[end] = r /\ \A i \in lo..(end - 1) : d[i] = c[i]
    <3>1. \A i \in lo..(end - 1) : i \in Nat /\ i # end
      BY <2>2
    <3>. QED BY <2>2, <3>1 DEF Orders
  <2> HIDE DEF d
  <2>4. \A i \in lo..(end - 1) : c[i] # r /\ c[i] # lock /\ c[i] \in Waiting /\ c[i] \in Requests /\ phase'[c[i]] = phase[c[i]]
    <3>1. \A i \in lo..(end - 1) : c[i] # lock
      BY <1>4, <2>0, <2>1, <2>2
    <3>2. \A i \in lo..(end - 1) : c[i] \in Waiting /\ c[i] \in Requests
      BY <1>4, <2>2
    <3>. QED BY <1>2, <1>3, <3>1, <3>2 DEF TypeOK
  <2>5. Waiting \ {lock} = { c[i] : i \in lo..(end - 1) }
    <3>1. \A q : q \in Waiting /\ q # lock <=> \E i \in lo..(end - 1) : q = c[i]
      <4>1. \A i \in lo..hi : i \in lo..(end - 1) \/ (lock # None /\ i = hi)
        BY <2>0
      <4>. QED BY <1>4, <1>8, <2>1, <2>2, <2>4, <4>1
    <3>. QED BY <3>1
  <2>6. \A i \in (lo + 1)..(end - 1) :
          i \in lo..(end - 1) /\ i - 1 \in lo..(end - 1) /\ phase[c[i]] = "waiting" /\ pred[c[i]] = c[i - 1]
    <3>1. \A i \in (lo + 1)..(end - 1) : i \in (lo + 1)..hi /\ i \in lo..(end - 1) /\ i - 1 \in lo..(end - 1)
      BY <2>2
    <3>. QED BY <1>1, <2>0, <2>4, <3>1 DEF Chain, Queue
  <2>7. lo <= end - 1 => phase[c[lo]] = "draining" \/ (phase[c[lo]] = "waiting" /\ phase[pred[c[lo]]] = "done")
    <3>1. lo <= end - 1 => lo \in lo..(end - 1) /\ lo <= hi
      BY <2>2
    <3>. QED BY <1>1, <2>0, <2>4, <3>1 DEF Chain, Queue
  <2>8. phase'[r] = "new" /\ lock' = r
    BY <1>2 DEF TypeOK
  <2>9. Queue(d, lo, end, {})'
    <3>1. \A i, j \in lo..end : d[i] = d[j] => i = j
      BY <2>1, <2>2, <2>3, <2>4
    <3>2. Waiting' = { d[i] : i \in lo..end } \cup {}
      <4>1. \A q : q \in Waiting' <=> q = r \/ \E i \in lo..(end - 1) : q = c[i]
        BY <1>6, <2>5
      <4>2. end \in lo..end
        BY <2>2
      <4>3. \A q : q \in Waiting' <=> \E i \in lo..end : q = d[i]
        BY <2>2, <2>3, <4>1, <4>2
      <4>. QED BY <4>3
    <3>3. \A i \in (lo + 1)..end :
            \/ phase'[d[i]] = "waiting" /\ pred'[d[i]] = d[i - 1]
            \/ phase'[d[i]] = "new" /\ i = end /\ lock' = d[i]
      <4> TAKE i \in (lo + 1)..end
      <4>1. CASE i = end
        BY <2>3, <2>8, <4>1
      <4>2. CASE i # end
        <5>1. i \in (lo + 1)..(end - 1)
          BY <2>2, <4>2
        <5>. QED BY <1>2, <2>3, <2>4, <2>6, <5>1
      <4>. QED BY <4>1, <4>2
    <3>4. \/ phase'[d[lo]] = "draining"
          \/ phase'[d[lo]] = "waiting" /\ phase'[pred'[d[lo]]] = "done"
          \/ phase'[d[lo]] = "new" /\ lo = end /\ lock' = d[lo]
      <4>1. CASE lo = end
        BY <2>3, <2>8, <4>1
      <4>2. CASE lo <= end - 1
        <5>1. lo \in lo..(end - 1)
          BY <4>2
        <5>2. \A q \in Requests : phase[q] = "done" => phase'[q] = "done"
          BY <1>2 DEF TypeOK
        <5>3. phase[c[lo]] = "waiting" => pred[c[lo]] \in Requests
          BY <2>4, <5>1 DEF SettleInv, TypeOK
        <5>. QED BY <1>2, <2>3, <2>4, <2>7, <4>2, <5>1, <5>2, <5>3
      <4>. QED BY <2>2, <4>1, <4>2
    <3>. QED BY <2>2, <3>1, <3>2, <3>3, <3>4 DEF Queue
  <2>10. Ends(d, lo, end, {})'
    <3>1. lo <= end - 1 => end - 1 \in lo..(end - 1)
      BY <2>2
    <3>. QED BY <1>2, <1>4, <2>1, <2>2, <2>3, <3>1 DEF Ends
  <2>. QED BY <1>5, <2>2, <2>3, <2>9, <2>10 DEF SomeChain, Chain, Stuck, Cause
<1>. QED BY <1>7, <1>8

(* What leaves the lock and the drains of the chain alone keeps the chain. *)
LEMMA ChainKept ==
  ASSUME TypeOK, SettleInv, NEW c \in Orders, NEW lo \in Nat \ {0}, NEW hi \in Nat,
         NEW stuck \in SUBSET Requests, Chain(c, lo, hi, stuck),
         UNCHANGED <<lock, released, pred>>, Waiting' = Waiting,
         \A q \in Waiting : phase'[q] = phase[q],
         \A q \in Requests : phase[q] = "done" => phase'[q] = "done"
  PROVE  Chain(c, lo, hi, stuck)'
<1>1. \A i \in lo..hi : c[i] \in Waiting /\ c[i] \in Requests
  BY ChainFacts DEF Members
<1>2. \A q \in stuck : q \in Waiting
  BY ChainFacts DEF Members
<1>3. \A i \in (lo + 1)..hi : i \in lo..hi
  OBVIOUS
<1>4. lo <= hi => lo \in lo..hi
  OBVIOUS
<1>5. \A q \in Waiting : phase[q] = "waiting" => pred[q] \in Requests
  BY DEF SettleInv, TypeOK, Waiting
<1>6. Queue(c, lo, hi, stuck)'
  BY <1>1, <1>3, <1>4, <1>5 DEF Chain, Queue
<1>7. Stuck(stuck)'
  BY <1>2 DEF Chain, Stuck
<1>8. Ends(c, lo, hi, stuck)'
  BY DEF Chain, Ends
<1>9. Cause(stuck)'
  <2>1. stuck # {} => released \in stuck
    BY DEF Chain, Ends
  <2>. QED BY <1>2, <2>1 DEF Chain, Cause, SelfWait
<1>. QED BY <1>6, <1>7, <1>8, <1>9 DEF Chain

LEMMA SomeChainKept ==
  ASSUME TypeOK, SettleInv, SomeChain,
         UNCHANGED <<lock, released, pred>>, Waiting' = Waiting,
         \A q \in Waiting : phase'[q] = phase[q],
         \A q \in Requests : phase[q] = "done" => phase'[q] = "done"
  PROVE  SomeChain'
<1>1. PICK c \in Orders, lo \in Nat \ {0}, hi \in Nat, stuck \in SUBSET Requests : Chain(c, lo, hi, stuck)
  BY DEF SomeChain
<1>2. Chain(c, lo, hi, stuck)'
  BY <1>1, ChainKept
<1>. QED BY <1>2 DEF SomeChain

(* If any drain has not begun, the one that has the lock has not.          *)
LEMMA NewestIsNew ==
  ASSUME TypeOK, ReadyInv, lock \in Requests, lock # None, NEW r \in Requests, phase[r] = "new"
  PROVE  phase[lock] = "new"
<1>1. ready # <<>> /\ ready \in Seq(Requests)
  BY DEF ReadyInv, TypeOK
<1>2. Len(ready) \in DOMAIN ready
  BY <1>1
<1>. QED BY <1>1, <1>2 DEF ReadyInv

(* The lock is released: its drain is the one released last, and one that  *)
(* has not begun will find itself as the drain to wait for.                *)
LEMMA ChainAbort ==
  ASSUME TypeOK, SettleInv, ReadyInv, LockInv, SomeChain, ChatAbort
  PROVE  LockInv' /\ SomeChain'
<1>1. PICK c \in Orders, lo \in Nat \ {0}, hi \in Nat, stuck \in SUBSET Requests : Chain(c, lo, hi, stuck)
  BY DEF SomeChain
<1>2. /\ lock' = None /\ released' = IF lock = None THEN released ELSE lock
      /\ UNCHANGED <<phase, pred, cancelled>>
  BY DEF ChatAbort, ReleaseTurnLock
<1>3. Waiting' = Waiting
  BY <1>2 DEF Waiting, Live
<1>m. Members(c, lo, hi, stuck)
  BY <1>1, ChainFacts
<1>4. /\ \A q : q \in Waiting <=> q \in stuck \/ \E i \in lo..hi : q = c[i]
      /\ \A q \in Waiting : q \in Requests /\ Live(q) /\ q \notin cancelled
      /\ \A i \in lo..hi : c[i] \in Waiting /\ c[i] \in Requests /\ c[i] \notin stuck
      /\ None \notin Requests
  BY <1>m DEF Members
<1>5. LockInv'
  BY <1>2, <1>4 DEF LockInv, TypeOK
<1>6. CASE lock = None
  BY <1>2, <1>3, <1>5, <1>6, SomeChainKept
<1>7. CASE lock # None /\ stuck # {}
  <2>1. lock \in stuck
    BY <1>1, <1>7 DEF Chain, Ends
  <2>2. \A i \in (lo + 1)..hi : i \in lo..hi
    OBVIOUS
  <2>3. Queue(c, lo, hi, stuck)'
    BY <1>1, <1>2, <1>3, <1>4, <2>1, <2>2 DEF Chain, Queue
  <2>4. Stuck(stuck)'
    BY <1>1, <1>2, <1>4 DEF Chain, Stuck
  <2>5. Ends(c, lo, hi, stuck)'
    BY <1>2, <1>7, <2>1 DEF Ends
  <2>6. Cause(stuck)'
    <3>1. phase[released] = "new" => phase[lock] = "new"
      BY <1>1, <1>4, <1>7, <2>1, NewestIsNew DEF Chain, Ends
    <3>. QED BY <1>1, <1>2, <1>7, <3>1 DEF Chain, Cause, SelfWait
  <2>. QED BY <1>5, <2>3, <2>4, <2>5, <2>6 DEF SomeChain, Chain
<1>8. CASE lock # None /\ stuck = {} /\ phase[lock] # "new"
  <2>1. lo <= hi /\ lock = c[hi]
    BY <1>1, <1>8 DEF Chain, Ends
  <2>2. Queue(c, lo, hi, stuck)'
    BY <1>1, <1>2, <1>3, <1>8 DEF Chain, Queue
  <2>3. Ends(c, lo, hi, stuck)'
    BY <1>2, <1>8, <2>1 DEF Ends
  <2>. QED BY <1>5, <1>8, <2>2, <2>3 DEF SomeChain, Chain, Stuck, Cause
<1>9. CASE lock # None /\ stuck = {} /\ phase[lock] = "new"
  <2>1. lo <= hi /\ lock = c[hi] /\ lock \in Requests
    BY <1>1, <1>4, <1>9 DEF Chain, Ends, TypeOK
  <2>2. PICK m \in Nat : m = hi - 1
    BY <2>1
  <2>0. PICK S \in SUBSET Requests : S = {lock}
    BY <2>1
  <2>3. /\ \A i \in lo..m : i \in lo..hi /\ c[i] # lock
        /\ \A i \in lo..hi : i = hi \/ i \in lo..m
        /\ \A i \in (lo + 1)..m : i \in (lo + 1)..hi /\ i # hi
    BY <1>1, <2>1, <2>2 DEF Chain, Queue
  <2>4. Queue(c, lo, m, S)'
    <3>1. lo <= m + 1
      BY <2>1, <2>2
    <3>2. \A i, j \in lo..m : c[i] = c[j] => i = j
      BY <1>1, <2>3 DEF Chain, Queue
    <3>3. Waiting = { c[i] : i \in lo..m } \cup {lock}
      <4>1. hi \in lo..hi
        BY <2>1
      <4>2. \A q : q \in Waiting <=> q = lock \/ \E i \in lo..m : q = c[i]
        BY <1>4, <1>9, <2>1, <2>3, <4>1
      <4>. QED BY <4>2
    <3>4. \A i \in (lo + 1)..m : phase[c[i]] = "waiting" /\ pred[c[i]] = c[i - 1]
      BY <1>1, <2>3 DEF Chain, Queue
    <3>5. lo <= m => phase[c[lo]] = "draining" \/ (phase[c[lo]] = "waiting" /\ phase[pred[c[lo]]] = "done")
      <4>1. lo <= m => lo \in lo..m
        OBVIOUS
      <4>. QED BY <1>1, <2>1, <2>3, <4>1 DEF Chain, Queue
    <3>. QED BY <1>2, <1>3, <2>0, <2>3, <3>1, <3>2, <3>3, <3>4, <3>5 DEF Queue
  <2>5. Stuck(S)' /\ Cause(S)' /\ Ends(c, lo, m, S)'
    BY <1>2, <1>9, <2>0 DEF Stuck, Cause, Ends
  <2>. QED BY <1>5, <2>4, <2>5 DEF SomeChain, Chain
<1>. QED BY <1>6, <1>7, <1>8, <1>9

(* The first step of a drain: it may read if none was released before it.  *)
LEMMA ChainFirstStep ==
  ASSUME TypeOK, SettleInv, LockInv, SomeChain, NEW r \in Requests, FirstStep(r)
  PROVE  SomeChain'
<1>1. PICK c \in Orders, lo \in Nat \ {0}, hi \in Nat, stuck \in SUBSET Requests : Chain(c, lo, hi, stuck)
  BY DEF SomeChain
<1>2. /\ phase[r] = "new" /\ r \notin cancelled
      /\ IF released = None
         THEN phase' = [phase EXCEPT ![r] = "draining"] /\ pred' = pred
         ELSE phase' = [phase EXCEPT ![r] = "waiting"] /\ pred' = [pred EXCEPT ![r] = released]
      /\ UNCHANGED <<lock, released, cancelled>>
  BY DEF FirstStep, Begins, Goto
<1>3. r \in Waiting
  BY <1>2 DEF Waiting, Live
<1>m. Members(c, lo, hi, stuck)
  BY <1>1, ChainFacts
<1>4. /\ \A q : q \in Waiting <=> q \in stuck \/ \E i \in lo..hi : q = c[i]
      /\ \A q \in Waiting : q \in Requests /\ Live(q) /\ q \notin cancelled
      /\ \A i \in lo..hi : c[i] \in Waiting /\ c[i] \in Requests /\ c[i] \notin stuck
      /\ lock # None => lock \in Waiting
      /\ released # None => released \in Waiting
      /\ None \notin Requests
  BY <1>m DEF Members
<1>5. Waiting' = Waiting
  BY <1>2 DEF Waiting, Live, TypeOK
<1>6. \A q \in Requests : /\ q # r => phase'[q] = phase[q] /\ pred'[q] = pred[q]
                          /\ phase[q] = "done" => phase'[q] = "done"
  BY <1>2 DEF TypeOK
<1>7. Ends(c, lo, hi, stuck)'
  BY <1>1, <1>2 DEF Chain, Ends
<1>8. CASE r \in stuck
  <2>1. released \in stuck /\ lock \in stuck \cup {None} /\ released # lock /\ released # None
    BY <1>1, <1>4, <1>8 DEF Chain, Ends, LockInv
  <2>2. phase'[r] = "waiting" /\ pred'[r] \in stuck \ {lock}
    BY <1>2, <2>1 DEF TypeOK
  <2>3. Stuck(stuck)'
    BY <1>1, <1>2, <1>6, <2>2 DEF Chain, Stuck
  <2>4. \A i \in lo..hi : phase'[c[i]] = phase[c[i]] /\ pred'[c[i]] = pred[c[i]]
    BY <1>4, <1>6, <1>8
  <2>5. \A i \in (lo + 1)..hi : i \in lo..hi
    OBVIOUS
  <2>6. lo <= hi => lo \in lo..hi
    OBVIOUS
  <2>7. \A q \in Waiting : phase[q] = "waiting" => pred[q] \in Requests
    BY DEF SettleInv, TypeOK, Waiting
  <2>8. Queue(c, lo, hi, stuck)'
    BY <1>1, <1>2, <1>4, <1>5, <1>6, <2>4, <2>5, <2>6, <2>7 DEF Chain, Queue
  <2>9. Cause(stuck)'
    <3>1. CASE phase[released] = "new" /\ released # r
      BY <1>2, <1>4, <1>6, <2>1, <3>1 DEF Cause
    <3>2. CASE released = r
      BY <1>2, <1>8, <2>1, <2>2, <3>2 DEF Cause, SelfWait, TypeOK
    <3>3. CASE \E q \in stuck : SelfWait(q)
      <4>1. PICK q \in stuck : SelfWait(q)
        BY <3>3
      <4>2. q # r /\ q \in Requests
        BY <1>2, <4>1 DEF SelfWait
      <4>. QED BY <1>6, <4>1, <4>2 DEF Cause, SelfWait
    <3>. QED BY <1>1, <1>8, <3>1, <3>2, <3>3 DEF Chain, Cause
  <2>. QED BY <1>7, <2>3, <2>8, <2>9 DEF SomeChain, Chain
<1>9. CASE r \notin stuck
  <2>1. lo <= hi /\ r = c[hi] /\ lock = r /\ stuck = {}
    BY <1>1, <1>2, <1>3, <1>9, ChainPlaces
  <2>2. released = IF lo <= hi - 1 THEN c[hi - 1] ELSE None
    BY <1>1, <1>4, <2>1 DEF Chain, Ends
  <2>3. \A i \in lo..hi : i # hi => phase'[c[i]] = phase[c[i]] /\ pred'[c[i]] = pred[c[i]]
    <3>1. hi \in lo..hi
      BY <2>1
    <3>2. \A i \in lo..hi : i # hi => c[i] # r
      BY <1>1, <2>1, <3>1 DEF Chain, Queue
    <3>. QED BY <1>4, <1>6, <3>2
  <2>4. lo < hi => phase'[r] = "waiting" /\ pred'[r] = c[hi - 1]
    <3>1. lo < hi => hi - 1 \in lo..hi /\ lo <= hi - 1
      OBVIOUS
    <3>2. lo < hi => released = c[hi - 1] /\ released # None
      BY <1>4, <2>2, <3>1
    <3>. QED BY <1>2, <3>2 DEF TypeOK
  <2>5. lo = hi => phase'[r] = "draining"
    BY <1>2, <2>2 DEF TypeOK
  <2>6. \A i \in (lo + 1)..hi : phase'[c[i]] = "waiting" /\ pred'[c[i]] = c[i - 1]
    <3> TAKE i \in (lo + 1)..hi
    <3>1. i \in lo..hi /\ lo < hi
      OBVIOUS
    <3>2. CASE i = hi
      BY <2>1, <2>4, <3>1, <3>2
    <3>3. CASE i # hi
      BY <1>1, <2>3, <3>1, <3>3 DEF Chain, Queue
    <3>. QED BY <3>2, <3>3
  <2>7. \/ phase'[c[lo]] = "draining"
        \/ phase'[c[lo]] = "waiting" /\ phase'[pred'[c[lo]]] = "done"
    <3>1. CASE lo = hi
      BY <2>1, <2>5, <3>1
    <3>2. CASE lo # hi
      <4>1. lo \in lo..hi
        BY <2>1
      <4>2. phase[c[lo]] = "draining" \/ (phase[c[lo]] = "waiting" /\ phase[pred[c[lo]]] = "done")
        BY <1>1, <2>1, <3>2 DEF Chain, Queue
      <4>3. phase[c[lo]] = "waiting" => pred[c[lo]] \in Requests
        BY <1>4, <4>1 DEF SettleInv, TypeOK
      <4>. QED BY <1>6, <2>3, <3>2, <4>1, <4>2, <4>3
    <3>. QED BY <3>1, <3>2
  <2>8. Queue(c, lo, hi, stuck)'
    BY <1>1, <1>5, <2>6, <2>7 DEF Chain, Queue
  <2>9. Stuck(stuck)' /\ Cause(stuck)'
    BY <2>1 DEF Stuck, Cause
  <2>. QED BY <1>7, <2>8, <2>9 DEF SomeChain, Chain
<1>. QED BY <1>8, <1>9

(* The predecessor is done: only the head of the queue waits for such one. *)
LEMMA ChainPredecessorDone ==
  ASSUME TypeOK, SettleInv, SomeChain, NEW r \in Requests, PredecessorDone(r)
  PROVE  SomeChain'
<1>1. PICK c \in Orders, lo \in Nat \ {0}, hi \in Nat, stuck \in SUBSET Requests : Chain(c, lo, hi, stuck)
  BY DEF SomeChain
<1>2. /\ phase[r] = "waiting" /\ r \notin cancelled /\ phase[pred[r]] = "done"
      /\ phase' = [phase EXCEPT ![r] = "draining"]
      /\ UNCHANGED <<lock, released, pred, cancelled>>
  BY DEF PredecessorDone, Goto
<1>3. r \in Waiting /\ Waiting' = Waiting
  BY <1>2 DEF Waiting, Live, TypeOK
<1>4. lo <= hi /\ r = c[lo]
  BY <1>1, <1>2, <1>3, ChainPlaces
<1>5. /\ \A q \in Waiting : q \in Requests
      /\ \A q \in stuck : q \in Waiting
      /\ \A i \in lo..hi : c[i] \in Waiting /\ c[i] \notin stuck
  BY <1>1, ChainFacts DEF Members
<1>6. lo \in lo..hi /\ \A i \in (lo + 1)..hi : i \in lo..hi /\ i # lo
  BY <1>4
<1>7. \A i \in (lo + 1)..hi : phase'[c[i]] = phase[c[i]]
  <2>1. \A i \in (lo + 1)..hi : c[i] # c[lo]
    BY <1>1, <1>6 DEF Chain, Queue
  <2>. QED BY <1>2, <1>4, <1>5, <1>6, <2>1 DEF TypeOK
<1>8. phase'[c[lo]] = "draining"
  BY <1>2, <1>4 DEF TypeOK
<1>9. Queue(c, lo, hi, stuck)'
  BY <1>1, <1>2, <1>3, <1>7, <1>8 DEF Chain, Queue
<1>10. Stuck(stuck)' /\ Cause(stuck)'
  <2>1. \A q \in stuck : q # r /\ q \in Requests
    BY <1>4, <1>5, <1>6
  <2>2. \A q \in stuck : phase'[q] = phase[q]
    BY <1>2, <2>1 DEF TypeOK
  <2>3. stuck # {} => released \in stuck
    BY <1>1 DEF Chain, Ends
  <2>4. Cause(stuck)'
    BY <1>1, <1>2, <2>2, <2>3 DEF Chain, Cause, SelfWait
  <2>. QED BY <1>1, <1>2, <2>2, <2>4 DEF Chain, Stuck
<1>11. Ends(c, lo, hi, stuck)'
  BY <1>1, <1>2 DEF Chain, Ends
<1>. QED BY <1>9, <1>10, <1>11 DEF SomeChain, Chain

(* A drain that ends by itself is the head of the queue.                   *)
LEMMA ChainFinish ==
  ASSUME TypeOK, SettleInv, LockInv, SomeChain, NEW r \in Requests,
         phase[r] = "draining", r \notin cancelled, Finish(r), UNCHANGED <<pred, cancelled>>
  PROVE  LockInv' /\ SomeChain'
<1>1. PICK c \in Orders, lo \in Nat \ {0}, hi \in Nat, stuck \in SUBSET Requests : Chain(c, lo, hi, stuck)
  BY DEF SomeChain
<1>2. /\ phase' = [phase EXCEPT ![r] = "done"]
      /\ lock' = IF lock = r THEN None ELSE lock
      /\ released' = IF released = r THEN None ELSE released
  BY DEF Finish, Goto
<1>3. r \in Waiting
  BY DEF Waiting, Live
<1>m. Members(c, lo, hi, stuck)
  BY <1>1, ChainFacts
<1>4. /\ \A q : q \in Waiting <=> q \in stuck \/ \E i \in lo..hi : q = c[i]
      /\ \A q \in Waiting : q \in Requests /\ Live(q) /\ q \notin cancelled
      /\ \A i \in lo..hi : c[i] \in Waiting /\ c[i] \in Requests /\ c[i] \notin stuck
      /\ lock # None => lock \in Waiting
      /\ released # None => released \in Waiting
      /\ None \notin Requests
  BY <1>m DEF Members
<1>5. lo <= hi /\ r = c[lo]
  BY <1>1, <1>3, ChainPlaces
<1>6. /\ lo \in lo..hi /\ hi \in lo..hi /\ lo + 1 \in Nat \ {0}
      /\ \A i \in (lo + 1)..hi : i \in lo..hi /\ i # lo
      /\ \A i \in lo..hi : i = lo \/ i \in (lo + 1)..hi
  BY <1>5
<1>7. r \notin stuck /\ \A i \in (lo + 1)..hi : c[i] # r
  BY <1>1, <1>4, <1>5, <1>6 DEF Chain, Queue
<1>8. LockInv'
  BY <1>2, <1>4 DEF LockInv, TypeOK
<1>9. Waiting' = Waiting \ {r}
  BY <1>2, <1>3 DEF Waiting, Live, TypeOK
<1>10. /\ phase'[r] = "done"
       /\ \A q \in Requests : q # r => phase'[q] = phase[q]
  BY <1>2 DEF TypeOK
<1>11. Queue(c, lo + 1, hi, stuck)'
  <2>1. (lo + 1) <= hi + 1
    BY <1>5
  <2>2. \A i, j \in (lo + 1)..hi : c[i] = c[j] => i = j
    BY <1>1, <1>6 DEF Chain, Queue
  <2>3. Waiting' = { c[i] : i \in (lo + 1)..hi } \cup stuck
    <3>1. \A q : q \in Waiting' <=> q \in stuck \/ \E i \in (lo + 1)..hi : q = c[i]
      BY <1>4, <1>5, <1>6, <1>7, <1>9
    <3>. QED BY <3>1
  <2>4. \A i \in (lo + 1)..hi :
          \/ phase'[c[i]] = "waiting" /\ pred[c[i]] = c[i - 1]
          \/ phase'[c[i]] = "new" /\ i = hi /\ lock' = c[i]
    BY <1>1, <1>2, <1>4, <1>6, <1>7, <1>10 DEF Chain, Queue
  <2>5. \A i \in ((lo + 1) + 1)..hi : i \in (lo + 1)..hi
    OBVIOUS
  <2>6. lo + 1 <= hi =>
          \/ phase'[c[lo + 1]] = "waiting" /\ phase'[pred[c[lo + 1]]] = "done"
          \/ phase'[c[lo + 1]] = "new" /\ lo + 1 = hi /\ lock' = c[lo + 1]
    <3> HAVE lo + 1 <= hi
    <3>1. lo + 1 \in (lo + 1)..hi /\ (lo + 1) - 1 = lo
      OBVIOUS
    <3>. QED BY <1>5, <1>10, <2>4, <3>1
  <2>. QED BY <1>4, <1>6, <2>1, <2>2, <2>3, <2>4, <2>5, <2>6 DEF Queue
<1>12. Stuck(stuck)' /\ Cause(stuck)'
  <2>1. \A q \in stuck : phase'[q] = phase[q]
    BY <1>7, <1>10
  <2>2. \A q \in stuck : q \in stuck \ {lock} => q \in stuck \ {lock'}
    BY <1>2, <1>4, <1>7
  <2>3. stuck # {} => released \in stuck /\ released' = released
    BY <1>1, <1>2, <1>7 DEF Chain, Ends
  <2>4. Cause(stuck)'
    BY <1>1, <2>1, <2>3 DEF Chain, Cause, SelfWait
  <2>. QED BY <1>1, <2>1, <2>2, <2>4 DEF Chain, Stuck
<1>13. Ends(c, lo + 1, hi, stuck)'
  <2>1. CASE stuck # {}
    <3>1. released \in stuck /\ lock \in stuck \cup {None}
      BY <1>1, <2>1 DEF Chain, Ends
    <3>. QED BY <1>2, <1>4, <1>7, <2>1, <3>1 DEF Ends
  <2>2. CASE stuck = {} /\ lock = None
    <3>1. released = c[hi]
      BY <1>1, <1>5, <2>2 DEF Chain, Ends
    <3>2. lock' = None
      BY <1>2, <2>2
    <3>3. CASE lo = hi
      BY <1>2, <1>5, <2>2, <3>1, <3>2, <3>3 DEF Ends
    <3>4. CASE lo # hi
      <4>1. hi \in (lo + 1)..hi /\ lo + 1 <= hi
        BY <1>5, <3>4
      <4>. QED BY <1>2, <1>7, <2>2, <3>1, <3>2, <4>1 DEF Ends
    <3>. QED BY <3>3, <3>4
  <2>3. CASE stuck = {} /\ lock # None
    <3>1. lock = c[hi] /\ released = IF lo <= hi - 1 THEN c[hi - 1] ELSE None
      BY <1>1, <2>3 DEF Chain, Ends
    <3>2. CASE lo = hi
      <4>1. lock' = None /\ released' = None
        BY <1>2, <1>5, <3>1, <3>2
      <4>. QED BY <2>3, <3>2, <4>1 DEF Ends
    <3>3. CASE lo = hi - 1
      <4>1. hi \in (lo + 1)..hi
        BY <3>3
      <4>2. lock' = lock /\ released' = None
        BY <1>2, <1>5, <1>7, <3>1, <3>3, <4>1
      <4>. QED BY <2>3, <3>1, <3>3, <4>2 DEF Ends
    <3>4. CASE lo < hi - 1
      <4>1. hi \in (lo + 1)..hi /\ hi - 1 \in (lo + 1)..hi /\ lo <= hi - 1 /\ lo + 1 <= hi - 1
        BY <3>4
      <4>2. lock' = lock /\ released' = c[hi - 1]
        BY <1>2, <1>7, <3>1, <4>1
      <4>. QED BY <2>3, <3>1, <4>1, <4>2 DEF Ends
    <3>. QED BY <1>5, <3>2, <3>3, <3>4
  <2>. QED BY <2>1, <2>2, <2>3
<1>. QED BY <1>6, <1>8, <1>11, <1>12, <1>13 DEF SomeChain, Chain

LEMMA ChainDrain ==
  ASSUME TypeOK, SettleInv, LockInv, SomeChain, NEW r \in Requests, Drain(r)
  PROVE  LockInv' /\ SomeChain'
<1>1. CASE FirstStep(r)
  <2>1. LockInv'
    BY <1>1 DEF FirstStep, LockInv
  <2>. QED BY <1>1, <2>1, ChainFirstStep
<1>2. CASE PredecessorDone(r)
  <2>1. LockInv'
    BY <1>2 DEF PredecessorDone, LockInv
  <2>. QED BY <1>2, <2>1, ChainPredecessorDone
<1>3. CASE CancelledEarly(r) \/ CancelledDraining(r)
  <2>1. r \in cancelled /\ Finish(r) /\ UNCHANGED <<pred, cancelled>>
    BY <1>3 DEF CancelledEarly, CancelledDraining
  <2>2. UNCHANGED <<lock, released>>
    BY <2>1 DEF Finish, LockInv
  <2>3. LockInv'
    BY <2>1, <2>2 DEF LockInv
  <2>4. Waiting' = Waiting /\ \A q \in Waiting : phase'[q] = phase[q]
    BY <2>1 DEF Finish, Goto, Waiting, Live, TypeOK
  <2>5. \A q \in Requests : phase[q] = "done" => phase'[q] = "done"
    BY <2>1 DEF Finish, Goto, TypeOK
  <2>. QED BY <2>1, <2>2, <2>3, <2>4, <2>5, SomeChainKept
<1>4. CASE TakeMessage(r)
  <2>1. UNCHANGED <<phase, lock, released, pred, cancelled>>
    BY <1>4 DEF TakeMessage
  <2>2. Waiting' = Waiting /\ LockInv'
    BY <2>1 DEF Waiting, Live, LockInv
  <2>. QED BY <2>1, <2>2, SomeChainKept
<1>5. CASE TakeEnd(r) \/ IdleTimeout(r)
  <2>1. phase[r] = "draining" /\ r \notin cancelled /\ Finish(r) /\ UNCHANGED <<pred, cancelled>>
    BY <1>5 DEF TakeEnd, IdleTimeout
  <2>. QED BY <2>1, ChainFinish
<1>. QED BY <1>1, <1>2, <1>3, <1>4, <1>5 DEF Drain

LEMMA ChainStep == TypeOK /\ SettleInv /\ ReadyInv /\ ChainInv /\ [Next]_vars => ChainInv'
<1> SUFFICES ASSUME TypeOK, SettleInv, ReadyInv, ChainInv, [Next]_vars, Plain'
             PROVE  LockInv' /\ (\A r \in Requests : phase'[r] # "checked") /\ SomeChain'
  BY DEF ChainInv
<1>0. Plain /\ \A r \in Requests : ~Check(r)
  BY PlainBefore
<1>1. LockInv /\ SomeChain /\ \A r \in Requests : phase[r] # "checked"
  BY <1>0 DEF ChainInv
<1>2. \A r \in Requests : phase'[r] # "checked"
  BY <1>0, <1>1, RuntimeLeavesBridge DEF Next, Client, Drain, Reject, Send, SendChecked, Launch, Finish, Goto, Begins,
     FirstStep, PredecessorDone, CancelledEarly, CancelledDraining, TakeMessage, TakeEnd, IdleTimeout,
     ChatAbort, GoesQuiet, Stirs, TypeOK, vars, bridgeVars
<1>3. ASSUME UNCHANGED <<phase, lock, released, pred, cancelled>>
      PROVE  LockInv' /\ SomeChain'
  <2>1. Waiting' = Waiting /\ LockInv'
    BY <1>1, <1>3 DEF Waiting, Live, LockInv
  <2>. QED BY <1>1, <1>3, <2>1, SomeChainKept
<1>4. CASE UNCHANGED vars
  BY <1>2, <1>3, <1>4 DEF vars, bridgeVars
<1>5. CASE GoesQuiet \/ Stirs
  BY <1>2, <1>3, <1>5 DEF GoesQuiet, Stirs
<1>6. CASE Runtime
  BY <1>2, <1>3, <1>6, RuntimeLeavesBridge DEF bridgeVars
<1>7. CASE ChatAbort
  BY <1>1, <1>2, <1>7, ChainAbort
<1>8. ASSUME NEW r \in Requests, Reject(r)
      PROVE  LockInv' /\ SomeChain'
  <2>1. UNCHANGED <<lock, released, pred, cancelled>> /\ phase[r] = "unsent" /\ phase' = [phase EXCEPT ![r] = "rejected"]
    BY <1>8 DEF Reject
  <2>2. LockInv' /\ Waiting' = Waiting /\ \A q \in Waiting : phase'[q] = phase[q]
    BY <1>1, <2>1 DEF Waiting, Live, LockInv, TypeOK
  <2>3. \A q \in Requests : phase[q] = "done" => phase'[q] = "done"
    BY <2>1 DEF TypeOK
  <2>. QED BY <1>1, <2>1, <2>2, <2>3, SomeChainKept
<1>9. ASSUME NEW r \in Requests, Send(r)
      PROVE  LockInv' /\ SomeChain'
  BY <1>1, <1>9, ChainSend
<1>10. ASSUME NEW r \in Requests, Check(r) \/ SendChecked(r)
       PROVE  FALSE
  BY <1>0, <1>1, <1>10 DEF SendChecked
<1>11. ASSUME NEW r \in Requests, Drain(r)
       PROVE  LockInv' /\ SomeChain'
  BY <1>1, <1>11, ChainDrain
<1>. QED BY <1>2, <1>4, <1>5, <1>6, <1>7, <1>8, <1>9, <1>10, <1>11 DEF Next, Client

LEMMA ReaderIsHead == TypeOK /\ ChainInv => SingleReader
<1> SUFFICES ASSUME TypeOK, ChainInv, Plain, NEW r \in Requests, NEW s \in Requests,
                    phase[r] = "draining", phase[s] = "draining", r \notin cancelled, s \notin cancelled
             PROVE  r = s
  BY DEF SingleReader
<1>1. PICK c \in Orders, lo \in Nat \ {0}, hi \in Nat, stuck \in SUBSET Requests : Chain(c, lo, hi, stuck)
  BY DEF ChainInv, SomeChain
<1>2. r \in Waiting /\ s \in Waiting
  BY DEF Waiting, Live
<1>3. r = c[lo]
  BY <1>1, <1>2, ChainPlaces
<1>4. s = c[lo]
  BY <1>1, <1>2, ChainPlaces
<1>. QED BY <1>3, <1>4

LEMMA SomeoneGoes == TypeOK /\ SettleInv /\ ReadyInv /\ ChainInv => SomeDrainGoes
<1> SUFFICES ASSUME TypeOK, SettleInv, ReadyInv, ChainInv, Plain, NEW r \in Requests, Live(r)
             PROVE  \E q \in Requests : CanGo(q) \/ SelfWait(q)
  BY DEF SomeDrainGoes
<1>1. PICK c \in Orders, lo \in Nat \ {0}, hi \in Nat, stuck \in SUBSET Requests : Chain(c, lo, hi, stuck)
  BY DEF ChainInv, SomeChain
<1>2. Members(c, lo, hi, stuck)
  BY <1>1, ChainFacts
<1>3. ASSUME NEW q \in Requests, phase[q] = "new"
      PROVE  \E h \in Requests : CanGo(h)
  <2>1. ready # <<>> /\ ready \in Seq(Requests)
    BY <1>3 DEF ReadyInv, TypeOK
  <2>2. 1 \in DOMAIN ready /\ Head(ready) = ready[1] /\ Head(ready) \in Requests
    BY <2>1
  <2>3. phase[Head(ready)] = "new"
    BY <2>2 DEF ReadyInv
  <2>. QED BY <2>1, <2>2, <2>3 DEF CanGo
<1>4. CASE r \in cancelled
  BY <1>4 DEF SettleInv, Live, CanGo
<1>5. CASE stuck # {}
  <2>1. released \in Requests
    BY <1>1, <1>5 DEF Chain, Ends
  <2>. QED BY <1>1, <1>3, <1>5, <2>1 DEF Chain, Cause
<1>6. CASE r \notin cancelled /\ stuck = {}
  <2>1. r \in Waiting
    BY <1>6 DEF Waiting
  <2>2. PICK i \in lo..hi : r = c[i]
    BY <1>2, <1>6, <2>1 DEF Members
  <2>3. lo <= hi /\ lo \in lo..hi
    BY <2>2
  <2>4. c[lo] \in Requests
    BY <1>2, <2>3 DEF Members
  <2>5. \/ phase[c[lo]] = "draining"
        \/ phase[c[lo]] = "waiting" /\ phase[pred[c[lo]]] = "done"
        \/ phase[c[lo]] = "new"
    BY <1>1, <2>3 DEF Chain, Queue
  <2>. QED BY <1>3, <2>4, <2>5 DEF CanGo
<1>. QED BY <1>4, <1>5, <1>6

DrainInv == TypeOK /\ SettleInv /\ ReadyInv /\ ChainInv

LEMMA DrainsKept == Spec => []DrainInv
<1>1. Init => DrainInv
  BY InitTypes, InitSettle, InitReady, InitChain DEF DrainInv
<1>2. DrainInv /\ [Next]_vars => DrainInv'
  BY TypeStep, SettleStep, ReadyStep, ChainStep DEF DrainInv
<1>. QED BY <1>1, <1>2, PTL DEF Spec

(* However aborts release the lock and requests take it, only the head of  *)
(* the queue of drains reads the events of the session.                    *)
THEOREM OneReader == Spec => []SingleReader
<1>1. DrainInv => SingleReader
  BY ReaderIsHead DEF DrainInv
<1>. QED BY <1>1, DrainsKept, PTL

(* Drains never all wait for one another: the head of their queue can go   *)
(* on, or the next to begin can, unless one of them waits for itself.      *)
THEOREM DrainsAreNotDeadlocked == Spec => []SomeDrainGoes
<1>1. DrainInv => SomeDrainGoes
  BY SomeoneGoes DEF DrainInv
<1>. QED BY <1>1, DrainsKept, PTL
=============================================================================
