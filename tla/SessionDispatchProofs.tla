------------------------ MODULE SessionDispatchProofs ------------------------
(***************************************************************************)
(* Proofs about SessionDispatch for every set of threads, every set of     *)
(* kinds and every bound on the submissions.                               *)
(***************************************************************************)
EXTENDS SessionDispatch, TLAPS

(* A sequence stays one when the set of its elements grows. *)
LEMMA SeqGrows ==
  ASSUME NEW S, NEW T, S \subseteq T, NEW s \in Seq(S)
  PROVE  s \in Seq(T)
OBVIOUS

(* What _pending.pop(0) leaves. *)
LEMMA TailOf ==
  ASSUME NEW S, NEW s \in Seq(S), s # <<>>
  PROVE  /\ Tail(s) \in Seq(S)
         /\ Len(s) \in Nat \ {0} /\ Len(Tail(s)) = Len(s) - 1
         /\ \A k \in 1..Len(Tail(s)) : Tail(s)[k] = s[k + 1]
         /\ Head(s) = s[1] /\ Head(s) \in S
OBVIOUS

(* What _pending.append(x) makes. *)
LEMMA AppendOf ==
  ASSUME NEW S, NEW s \in Seq(S), NEW x \in S
  PROVE  /\ Append(s, x) \in Seq(S)
         /\ Len(s) \in Nat /\ Len(Append(s, x)) = Len(s) + 1
         /\ \A k \in 1..Len(s) : Append(s, x)[k] = s[k]
         /\ Append(s, x)[Len(s) + 1] = x
OBVIOUS

LEMMA InitInv == Init => IInv
<1> SUFFICES ASSUME Init PROVE IInv
  OBVIOUS
<1> USE DispatchAssumption DEF Init
<1>1. TypeOK
  <2>1. sub \in Seq(Submission) /\ Len(sub) \in 0..MaxSubs /\ taken \in 0..Len(sub)
    OBVIOUS
  <2>2. pending \in Seq(1..taken)
    OBVIOUS
  <2>3. ph \in [Ids -> Phases] /\ ends \in [Ids -> Nat] /\ cancel \in [Ids -> BOOLEAN]
    BY DEF Phases
  <2>. QED BY <2>1, <2>2, <2>3 DEF TypeOK, None
<1>2. HeldInv /\ PendingInv /\ TaskInv /\ NothingDropped
  BY DEF HeldInv, PendingInv, TaskInv, NothingDropped, Ids, None, Begun, Live,
         Finished, Over
<1>. QED BY <1>1, <1>2 DEF IInv

-----------------------------------------------------------------------------
(* The steps of a task touch the queue and the loop not at all: whatever   *)
(* phase the task goes to, the invariant of the loop stays.                *)
LEMMA TaskKeepsQueue ==
  ASSUME IInv, TypeOK', UNCHANGED <<queueVars, loopVars>>,
         NEW i \in Ids, Live(i), NEW p \in Phases \ {"none"}, To(i, p)
  PROVE  IInv'
<1>0. /\ sub' = sub /\ taken' = taken /\ getting' = getting /\ held' = held
      /\ pending' = pending /\ active' = active /\ aux' = aux /\ pc' = pc /\ todo' = todo
  BY DEF queueVars, loopVars
<1>1. \A j \in Ids : /\ ph'[j] = "none" <=> ph[j] = "none"
                     /\ ph[j] \in Over => ph'[j] \in Over
                     /\ ph'[j] \notin Over \cup {"none"} => ph[j] \notin Over \cup {"none"}
  BY DEF IInv, TypeOK, To, Live, Over
<1>t. TypeOK
  BY DEF IInv
<1>2. HeldInv'
  BY <1>0 DEF IInv, HeldInv
<1>b. \A j \in 1..taken : j \in Ids
  BY <1>t, DispatchAssumption DEF TypeOK, Ids
<1>3. PendingInv'
  <2>1. PendingInv /\ \A k \in DOMAIN pending : pending[k] \in 1..taken
    BY <1>t DEF IInv, TypeOK
  <2>2. \A k \in DOMAIN pending : IsMessage(pending[k])' /\ ~Begun(pending[k])'
    BY <2>1, <1>0, <1>1, <1>b DEF PendingInv, IsMessage, Kind, Begun
  <2>3. held # None => ~Begun(held)'
    BY <2>1, <1>0, <1>1, <1>b, <1>t DEF PendingInv, Begun, TypeOK, None
  <2>. QED BY <2>1, <2>2, <2>3, <1>0 DEF PendingInv
<1>4. TaskInv'
  BY <1>0, <1>1, <1>b, <1>t DEF IInv, TypeOK, TaskInv, IsShell, IsAbort, Kind, None, Begun, Live, Finished
<1>5. NothingDropped'
  BY <1>0, <1>1, <1>b DEF IInv, NothingDropped, IsMessage, Kind, Begun
<1>. QED BY <1>2, <1>3, <1>4, <1>5 DEF IInv

-----------------------------------------------------------------------------
(* The steps of the loop, one lemma each. *)

(* What the types of the variables say in the terms the steps use. *)
LEMMA Ranges ==
  ASSUME TypeOK
  PROVE  /\ taken \in Nat /\ Len(sub) \in Nat /\ MaxSubs \in Nat /\ taken <= Len(sub)
         /\ 1..taken \subseteq Ids /\ 1..Len(sub) \subseteq Ids
         /\ DOMAIN pending = 1..Len(pending)
         /\ \A k \in DOMAIN pending : pending[k] \in 1..taken
         /\ \A i \in Ids : i \in Nat /\ i # None
         /\ \A i \in 1..Len(sub) : sub[i] \in Submission /\ Kind(i) \in AllKinds
<1>1. sub \in Seq(Submission) /\ \A s \in Submission : s.kind \in AllKinds
  BY DispatchAssumption DEF TypeOK, Submission
<1>2. \A i \in 1..Len(sub) : sub[i] \in Submission /\ Kind(i) \in AllKinds
  BY <1>1 DEF Kind
<1>3. pending \in Seq(1..taken)
  BY DEF TypeOK
<1>4. DOMAIN pending = 1..Len(pending) /\ \A k \in DOMAIN pending : pending[k] \in 1..taken
  <2>1. ASSUME NEW S, NEW q \in Seq(S) PROVE DOMAIN q = 1..Len(q) /\ \A k \in DOMAIN q : q[k] \in S
    OBVIOUS
  <2>. QED BY <1>3, <2>1
<1>5. taken \in 0..Len(sub) /\ Len(sub) \in 0..MaxSubs
  BY DEF TypeOK
<1>. QED BY <1>2, <1>4, <1>5, DispatchAssumption DEF Ids, None

LEMMA SubmitStep ==
  ASSUME IInv, NEW s \in Submission, Submit(s)
  PROVE  IInv'
<1>1. TypeOK /\ HeldInv /\ PendingInv /\ TaskInv /\ NothingDropped
  BY DEF IInv
<1>0. /\ taken' = taken /\ getting' = getting /\ held' = held /\ pending' = pending
      /\ active' = active /\ aux' = aux /\ pc' = pc /\ todo' = todo
      /\ ph' = ph /\ cancel' = cancel /\ activeIds' = activeIds /\ ends' = ends
  BY DEF Submit, loopVars, taskVars
<1>2. /\ sub' \in Seq(Submission) /\ Len(sub') = Len(sub) + 1 /\ Len(sub) < MaxSubs
      /\ \A k \in 1..Len(sub) : sub'[k] = sub[k]
  BY <1>1, AppendOf DEF Submit, TypeOK
<1>3. TypeOK'
  BY <1>0, <1>1, <1>2, Ranges DEF TypeOK
<1>4. \A i \in 1..taken : sub'[i] = sub[i]
  BY <1>1, <1>2, Ranges
<1>5. HeldInv'
  BY <1>0, <1>1 DEF HeldInv
<1>6. PendingInv'
  BY <1>0, <1>1, <1>4, Ranges DEF PendingInv, IsMessage, Kind, Begun
<1>7. TaskInv'
  <2>1. \A i \in Ids : Begun(i)' => i <= taken' /\ ~IsAbort(i)'
    BY <1>0, <1>1, <1>4, Ranges DEF TaskInv, Begun, IsAbort, Kind, Ids
  <2>2. \A i \in Ids : Live(i)' => IsShell(i)' \/ i = active'
    BY <1>0, <1>1, <1>4, Ranges DEF TaskInv, Live, Begun, IsShell, Kind, Ids
  <2>. QED BY <2>1, <2>2, <1>0, <1>1 DEF TaskInv, Finished, Begun
<1>8. NothingDropped'
  BY <1>0, <1>1, <1>4 DEF NothingDropped, IsMessage, Kind, Begun
<1>. QED BY <1>3, <1>5, <1>6, <1>7, <1>8 DEF IInv

LEMMA DequeuePendingStep ==
  ASSUME IInv, DequeuePending
  PROVE  IInv'
<1>1. TypeOK /\ HeldInv /\ PendingInv /\ TaskInv /\ NothingDropped
  BY DEF IInv
<1>h. PICK h : h = Head(pending)
  OBVIOUS
<1>0. /\ sub' = sub /\ taken' = taken /\ held' = held /\ aux' = aux /\ todo' = todo
      /\ cancel' = cancel /\ activeIds' = activeIds /\ ends' = ends
      /\ pc = "idle" /\ pending # <<>> /\ pending' = Tail(pending)
      /\ active' = h /\ ph' = [ph EXCEPT ![h] = "new"] /\ pc' = "wait" /\ getting' = TRUE
  BY <1>h DEF DequeuePending, CreateTurnTask
<1>2. /\ pending' \in Seq(1..taken)
      /\ Len(pending) \in Nat \ {0} /\ Len(pending') = Len(pending) - 1
      /\ \A k \in 1..Len(pending') : pending'[k] = pending[k + 1]
      /\ h = pending[1] /\ h \in 1..taken
  BY <1>0, <1>1, <1>h, TailOf DEF TypeOK
<1>d. /\ DOMAIN pending = 1..Len(pending) /\ 1 \in DOMAIN pending
      /\ \A k \in DOMAIN pending : pending[k] \in 1..taken
  BY <1>1, <1>2, Ranges
<1>p. /\ \A k \in DOMAIN pending : IsMessage(pending[k]) /\ ph[pending[k]] = "none"
      /\ \A k, l \in DOMAIN pending : k < l => pending[k] < pending[l]
  BY <1>1 DEF PendingInv, Begun
<1>r. taken \in Nat /\ 1..taken \subseteq Ids
  BY <1>1, Ranges
<1>3. h \in Ids /\ IsMessage(h) /\ ph[h] = "none"
  BY <1>2, <1>d, <1>p, <1>r
<1>4. TypeOK'
  BY <1>0, <1>1, <1>2, <1>3 DEF TypeOK, Phases
<1>5. held = None /\ todo = {}
  BY <1>0, <1>1 DEF HeldInv
<1>6. HeldInv'
  BY <1>0, <1>5 DEF HeldInv
<1>7. PendingInv'
  <2>1. \A k \in DOMAIN pending' : k \in 1..Len(pending') /\ k + 1 \in DOMAIN pending
    BY <1>2, <1>d
  <2>2. \A k \in DOMAIN pending' : pending'[k] \in 1..taken /\ pending'[k] = pending[k + 1]
    BY <2>1, <1>2, <1>d
  <2>3. \A k \in DOMAIN pending' : h < pending'[k]
    <3>1. ASSUME NEW k \in DOMAIN pending' PROVE pending[1] < pending[k + 1]
      <4>1. k + 1 \in DOMAIN pending /\ 1 < k + 1
        BY <2>1, <1>2
      <4>. QED BY <4>1, <1>d, <1>p
    <3>. QED BY <3>1, <2>2, <1>2
  <2>4. \A k \in DOMAIN pending' : IsMessage(pending[k])' /\ ~Begun(pending[k])'
    <3>1. SUFFICES ASSUME NEW k \in DOMAIN pending'
                   PROVE  IsMessage(pending'[k]) /\ ph'[pending'[k]] = "none"
      BY <1>0 DEF IsMessage, Kind, Begun
    <3>2. IsMessage(pending'[k]) /\ ph[pending'[k]] = "none"
      BY <2>1, <2>2, <1>p
    <3>3. pending'[k] # h /\ h \in Nat /\ pending'[k] \in Nat
      BY <2>2, <2>3, <1>2, <1>r
    <3>. QED BY <3>2, <3>3, <1>0, <1>1 DEF TypeOK
  <2>5. \A k, l \in DOMAIN pending' : k < l => pending'[k] < pending'[l]
    <3>1. ASSUME NEW k \in DOMAIN pending', NEW l \in DOMAIN pending', k < l
          PROVE  pending[k + 1] < pending[l + 1]
      BY <3>1, <2>1, <1>d, <1>p, <1>2
    <3>. QED BY <3>1, <2>2
  <2>. QED BY <2>4, <2>5, <1>0, <1>5 DEF PendingInv
<1>8. TaskInv'
  <2>1. \A i \in Ids : i # h => ph'[i] = ph[i]
    BY <1>0, <1>1 DEF TypeOK
  <2>2. ph'[h] = "new" /\ ~IsAbort(h)
    BY <1>0, <1>1, <1>3 DEF TypeOK, IsMessage, IsAbort
  <2>3. active = None
    BY <1>0, <1>1 DEF TaskInv
  <2>4. \A i \in Ids : Begun(i)' => i <= taken' /\ ~IsAbort(i)'
    BY <2>1, <2>2, <1>0, <1>1, <1>2 DEF TaskInv, Begun, IsAbort, Kind
  <2>5. \A i \in Ids : Live(i)' => IsShell(i)' \/ i = active'
    BY <2>1, <2>3, <1>0, <1>1, Ranges DEF TaskInv, Live, IsShell, Kind
  <2>6. \A i \in aux' : Begun(i)'
    BY <2>1, <2>2, <1>0, <1>1, Ranges DEF TaskInv, Begun, TypeOK
  <2>7. active' \in Ids /\ Begun(active)'
    BY <2>2, <1>0, <1>3 DEF Begun
  <2>8. None \notin Ids
    BY <1>1, Ranges
  <2>. QED BY <2>4, <2>5, <2>6, <2>7, <2>8, <1>0, <1>5 DEF TaskInv
<1>9. NothingDropped'
  <2>1. \A i \in ToSet(pending) : i = h \/ i \in ToSet(pending')
    <3>1. SUFFICES ASSUME NEW k \in DOMAIN pending PROVE pending[k] = h \/ pending[k] \in ToSet(pending')
      BY DEF ToSet
    <3>2. CASE k = 1
      BY <3>2, <1>2
    <3>3. CASE k # 1
      <4>1. k - 1 \in DOMAIN pending' /\ pending'[k - 1] = pending[k]
        BY <3>3, <1>1, <1>2, Ranges
      <4>. QED BY <4>1 DEF ToSet
    <3>. QED BY <3>2, <3>3
  <2>2. \A i \in 1..taken : Begun(i) => Begun(i)'
    BY <1>0, <1>1, <1>3, Ranges DEF Begun, TypeOK
  <2>3. Begun(h)'
    BY <1>0, <1>1, <1>3 DEF Begun, TypeOK
  <2>. QED BY <2>1, <2>2, <2>3, <1>0, <1>1 DEF NothingDropped, IsMessage, Kind, Begun
<1>. QED BY <1>4, <1>6, <1>7, <1>8, <1>9 DEF IInv

LEMMA DequeueSubmissionStep ==
  ASSUME IInv, DequeueSubmission
  PROVE  IInv'
<1>1. TypeOK /\ HeldInv /\ PendingInv /\ TaskInv /\ NothingDropped
  BY DEF IInv
<1>h. PICK h : h = taken + 1
  OBVIOUS
<1>0. /\ sub' = sub /\ held' = held /\ pending' = pending /\ aux' = aux /\ todo' = todo
      /\ cancel' = cancel /\ activeIds' = activeIds /\ ends' = ends
      /\ pc = "idle" /\ pending = <<>> /\ taken < Len(sub) /\ taken' = h
      /\ \/ IsAbort(h) /\ UNCHANGED <<active, ph, pc, getting>>
         \/ ~IsAbort(h) /\ active' = h /\ ph' = [ph EXCEPT ![h] = "new"]
                        /\ pc' = "wait" /\ getting' = TRUE
  BY <1>h DEF DequeueSubmission, CreateTurnTask
<1>2. /\ taken \in Nat /\ 1..taken \subseteq Ids /\ h \in Ids /\ h \notin 1..taken
      /\ h \in 1..h /\ 0..taken \subseteq 0..h /\ 1..taken \subseteq 1..h
      /\ \A i \in 1..h : i = h \/ i \in 1..taken
      /\ None \notin Ids /\ h \in Nat /\ taken < h
  BY <1>0, <1>1, <1>h, Ranges
<1>3. held = None /\ todo = {} /\ active = None /\ ~getting
  BY <1>0, <1>1 DEF HeldInv, TaskInv
<1>4. ph[h] = "none"
  BY <1>1, <1>2 DEF TaskInv, Begun
<1>5. TypeOK'
  <2>1. sub' \in Seq(Submission) /\ Len(sub') \in 0..MaxSubs /\ taken' \in 0..Len(sub')
    BY <1>0, <1>1, <1>2, <1>h DEF TypeOK
  <2>2. held' \in 0..taken' /\ aux' \subseteq 1..taken' /\ todo' \subseteq 0..taken'
    BY <1>0, <1>1, <1>2 DEF TypeOK
  <2>3. pending' \in Seq(1..taken')
    BY <1>0
  <2>4. active' \in 0..taken' /\ getting' \in BOOLEAN
    <3>1. None \in 0..h /\ h \in 0..h
      BY <1>2 DEF None
    <3>2. getting \in BOOLEAN
      BY <1>1 DEF TypeOK
    <3>. QED BY <3>1, <3>2, <1>0, <1>3
  <2>5. ph' \in [Ids -> Phases] /\ pc' \in {"idle", "wait", "batch", "reap", "abort"}
    BY <1>0, <1>1, <1>2 DEF TypeOK, Phases
  <2>6. activeIds' \in [Threads -> 0..taken'] /\ cancel' \in [Ids -> BOOLEAN] /\ ends' \in [Ids -> Nat]
    BY <1>0, <1>1, <1>2 DEF TypeOK
  <2>. QED BY <2>1, <2>2, <2>3, <2>4, <2>5, <2>6 DEF TypeOK
<1>6. HeldInv'
  BY <1>0, <1>3 DEF HeldInv
<1>7. PendingInv'
  BY <1>0, <1>3 DEF PendingInv
<1>8. \A i \in Ids : i # h => ph'[i] = ph[i]
  BY <1>0, <1>1 DEF TypeOK
<1>9. ph'[h] = IF IsAbort(h) THEN "none" ELSE "new"
  BY <1>0, <1>1, <1>2, <1>4 DEF TypeOK
<1>10. TaskInv'
  <2>1. \A i \in Ids : Begun(i)' => i <= taken' /\ ~IsAbort(i)'
    BY <1>0, <1>1, <1>2, <1>8, <1>9 DEF TaskInv, Begun, IsAbort, Kind, Ids
  <2>2. \A i \in Ids : Live(i)' => IsShell(i)' \/ i = active'
    <3>1. SUFFICES ASSUME NEW i \in Ids, Live(i)'
                   PROVE  IsShell(i)' \/ i = active'
      OBVIOUS
    <3>2. CASE i = h
      BY <3>1, <3>2, <1>0, <1>9 DEF Live
    <3>3. CASE i # h
      <4>1. Live(i) /\ i \in Ids /\ i # None
        BY <3>1, <3>3, <1>2, <1>8 DEF Live
      <4>. QED BY <4>1, <1>0, <1>1, <1>3 DEF TaskInv, IsShell, Kind
    <3>. QED BY <3>2, <3>3
  <2>3. \A i \in aux' : Begun(i)'
    BY <1>0, <1>1, <1>2, <1>8 DEF TaskInv, Begun, TypeOK
  <2>4. active' # None => Begun(active)'
    BY <1>0, <1>3, <1>9 DEF Begun
  <2>5. (pc' = "idle" => active' = None) /\ (pc' \in {"wait", "abort"} => active' # None)
    BY <1>0, <1>2, <1>3
  <2>. QED BY <2>1, <2>2, <2>3, <2>4, <2>5, <1>0, <1>3 DEF TaskInv
<1>11. NothingDropped'
  <2>1. SUFFICES ASSUME NEW i \in 1..h, IsMessage(i)
                 PROVE  ph'[i] # "none" \/ i = held \/ i \in ToSet(pending)
    BY <1>0 DEF NothingDropped, IsMessage, Kind, Begun
  <2>2. CASE i = h
    BY <2>1, <2>2, <1>9 DEF IsMessage, IsAbort
  <2>3. CASE i \in 1..taken
    BY <2>1, <2>3, <1>1, <1>2, <1>8 DEF NothingDropped, Begun
  <2>. QED BY <2>2, <2>3, <1>2
<1>. QED BY <1>5, <1>6, <1>7, <1>10, <1>11 DEF IInv

LEMMA GetTaskStep ==
  ASSUME IInv, GetTask
  PROVE  IInv'
<1>1. TypeOK /\ HeldInv /\ PendingInv /\ TaskInv /\ NothingDropped
  BY DEF IInv
<1>h. PICK h : h = taken + 1
  OBVIOUS
<1>0. /\ sub' = sub /\ pending' = pending /\ active' = active /\ aux' = aux /\ pc' = pc
      /\ todo' = todo /\ ph' = ph /\ cancel' = cancel /\ activeIds' = activeIds /\ ends' = ends
      /\ pc # "batch" /\ getting /\ taken < Len(sub) /\ taken' = h /\ held' = h /\ getting' = FALSE
  BY <1>h DEF GetTask, loopVars, taskVars, Suspended
<1>2. /\ taken \in Nat /\ 1..taken \subseteq Ids /\ h \in Ids /\ h \notin 1..taken
      /\ h \in 1..h /\ 0..taken \subseteq 0..h /\ 1..taken \subseteq 1..h /\ h \in 0..h
      /\ \A i \in 1..h : i = h \/ i \in 1..taken
      /\ h # None /\ h \in Nat /\ taken < h
  BY <1>0, <1>1, <1>h, Ranges DEF None
<1>3. held = None /\ pc = "wait" /\ None \notin todo
  BY <1>0, <1>1 DEF HeldInv
<1>4. ~Begun(h)
  BY <1>1, <1>2 DEF TaskInv
<1>5. TypeOK'
  <2>1. pending' \in Seq(1..taken')
    BY <1>0, <1>1, <1>2, SeqGrows DEF TypeOK
  <2>2. taken' \in 0..Len(sub')
    BY <1>0, <1>1, <1>h DEF TypeOK
  <2>3. activeIds' \in [Threads -> 0..taken'] /\ active' \in 0..taken' /\ aux' \subseteq 1..taken'
        /\ todo' \subseteq 0..taken'
    BY <1>0, <1>1, <1>2 DEF TypeOK
  <2>. QED BY <2>1, <2>2, <2>3, <1>0, <1>1, <1>2 DEF TypeOK
<1>6. HeldInv'
  BY <1>0, <1>1, <1>2, <1>3 DEF HeldInv
<1>7. PendingInv'
  <2>1. \A k \in DOMAIN pending : pending[k] < h
    BY <1>1, <1>2, Ranges
  <2>. QED BY <2>1, <1>0, <1>1, <1>4 DEF PendingInv, IsMessage, Kind, Begun
<1>8. TaskInv'
  BY <1>0, <1>1, <1>2 DEF TaskInv, Begun, IsAbort, IsShell, Live, Finished, Kind, Ids
<1>9. NothingDropped'
  BY <1>0, <1>1, <1>2, <1>3 DEF NothingDropped, IsMessage, Kind, Begun, None
<1>. QED BY <1>5, <1>6, <1>7, <1>8, <1>9 DEF IInv

(* The other steps of the loop start no message and lose none: held is     *)
(* kept, or it was not a message.                                          *)
LEMMA LoopKeepsMessages ==
  ASSUME IInv, sub' = sub, taken' = taken, pending' = pending,
         \A i \in Ids : ph[i] # "none" => ph'[i] # "none",
         \A k \in DOMAIN pending : ph'[pending[k]] = "none",
         \/ held' = held /\ (held # None => ph'[held] = "none")
         \/ held' = None /\ held # None /\ ~IsMessage(held)
  PROVE  PendingInv' /\ NothingDropped'
<1>1. TypeOK /\ PendingInv /\ NothingDropped
  BY DEF IInv
<1>2. PendingInv'
  <2>1. \A k \in DOMAIN pending : IsMessage(pending[k])' /\ ~Begun(pending[k])'
    BY <1>1 DEF PendingInv, IsMessage, Kind, Begun
  <2>2. held' # None => ~Begun(held)' /\ \A k \in DOMAIN pending : pending[k] < held'
    BY <1>1 DEF PendingInv, Begun
  <2>. QED BY <2>1, <2>2, <1>1 DEF PendingInv
<1>3. NothingDropped'
  <2>1. SUFFICES ASSUME NEW i \in 1..taken, IsMessage(i)
                 PROVE  ph'[i] # "none" \/ i = held' \/ i \in ToSet(pending)
    BY DEF NothingDropped, IsMessage, Kind, Begun
  <2>2. i \in Ids
    BY <2>1, <1>1, Ranges
  <2>3. ph[i] # "none" \/ i = held \/ i \in ToSet(pending)
    BY <2>1, <1>1 DEF NothingDropped, Begun
  <2>. QED BY <2>1, <2>2, <2>3
<1>. QED BY <1>2, <1>3

LEMMA QuietLoop ==
  ASSUME IInv, sub' = sub, taken' = taken, pending' = pending, ph' = ph,
         held' = held \/ (held' = None /\ held # None /\ ~IsMessage(held))
  PROVE  PendingInv' /\ NothingDropped'
<1>1. PendingInv
  BY DEF IInv
<1>2. /\ \A k \in DOMAIN pending : ph'[pending[k]] = "none"
      /\ held # None => ph'[held] = "none"
  BY <1>1 DEF PendingInv, Begun
<1>. QED BY <1>2, LoopKeepsMessages

LEMMA WakeStep ==
  ASSUME IInv, Wake
  PROVE  IInv'
<1>1. TypeOK /\ HeldInv /\ TaskInv
  BY DEF IInv
<1>0. /\ sub' = sub /\ taken' = taken /\ getting' = getting /\ held' = held /\ pending' = pending
      /\ active' = active /\ aux' = aux /\ pc = "wait" /\ pc' = "batch" /\ todo' = Completed
      /\ ph' = ph /\ cancel' = cancel /\ activeIds' = activeIds /\ ends' = ends
  BY DEF Wake, queueVars, taskVars
<1>2. Completed \subseteq 0..taken
  <2>1. None \in 0..taken
    BY <1>1, Ranges DEF None
  <2>2. active \in 0..taken /\ aux \subseteq 0..taken
    BY <1>1 DEF TypeOK
  <2>. QED BY <2>1, <2>2 DEF Completed
<1>3. TypeOK'
  BY <1>0, <1>1, <1>2 DEF TypeOK
<1>4. HeldInv'
  BY <1>0, <1>1, Ranges DEF HeldInv, Completed, TypeOK, TaskInv, None
<1>5. TaskInv'
  BY <1>0, <1>1 DEF TaskInv, Completed, Begun, IsAbort, IsShell, Live, Finished, Kind
<1>. QED BY <1>0, <1>3, <1>4, <1>5, QuietLoop DEF IInv

LEMMA TurnOverStep ==
  ASSUME IInv, TurnOver
  PROVE  IInv'
<1>1. TypeOK /\ HeldInv /\ TaskInv
  BY DEF IInv
<1>0. /\ sub' = sub /\ taken' = taken /\ getting' = FALSE /\ held' = held /\ pending' = pending
      /\ active' = None /\ aux' = aux /\ todo' = todo \ {active} /\ pc' \in {"batch", "reap"}
      /\ ph' = ph /\ activeIds' = activeIds /\ ends' = ends
      /\ cancel' \in [Ids -> BOOLEAN] /\ active # None /\ active \in todo /\ pc = "batch"
  BY <1>1 DEF TurnOver, Cancel, TypeOK
<1>2. TypeOK'
  <2>1. None \in 0..taken
    BY <1>1, Ranges DEF None
  <2>. QED BY <2>1, <1>0, <1>1 DEF TypeOK
<1>3. HeldInv'
  BY <1>0, <1>1 DEF HeldInv
<1>4. Finished(active)
  BY <1>0, <1>1 DEF TaskInv
<1>5. TaskInv'
  BY <1>0, <1>1, <1>4 DEF TaskInv, Begun, IsAbort, IsShell, Live, Finished, Kind
<1>. QED BY <1>0, <1>2, <1>3, <1>5, QuietLoop DEF IInv

LEMMA ReapAuxStep ==
  ASSUME IInv, ReapAux
  PROVE  IInv'
<1>1. TypeOK /\ HeldInv /\ TaskInv
  BY DEF IInv
<1>0. /\ sub' = sub /\ taken' = taken /\ getting' = getting /\ held' = held /\ pending' = pending
      /\ active' = active /\ aux' = {} /\ pc = "reap" /\ pc' = "batch" /\ todo' = todo
      /\ ph' = ph /\ cancel' = cancel /\ activeIds' = activeIds /\ ends' = ends
  BY DEF ReapAux, queueVars, taskVars
<1>2. TypeOK' /\ HeldInv'
  BY <1>0, <1>1 DEF TypeOK, HeldInv
<1>3. TaskInv'
  BY <1>0, <1>1 DEF TaskInv, Begun, IsAbort, IsShell, Live, Finished, Kind
<1>. QED BY <1>0, <1>2, <1>3, QuietLoop DEF IInv

LEMMA QueueMessageStep ==
  ASSUME IInv, QueueMessage
  PROVE  IInv'
<1>1. TypeOK /\ HeldInv /\ PendingInv /\ TaskInv /\ NothingDropped
  BY DEF IInv
<1>h. PICK h : h = held
  OBVIOUS
<1>0. /\ sub' = sub /\ taken' = taken /\ getting' = getting /\ held' = None
      /\ pending' = Append(pending, h) /\ active' = active /\ aux' = aux /\ pc' = pc
      /\ todo' = todo \ {None} /\ ph' = ph /\ cancel' = cancel
      /\ activeIds' = activeIds /\ ends' = ends
      /\ pc = "batch" /\ None \in todo /\ IsMessage(h)
  BY <1>h DEF QueueMessage, taskVars
<1>2. h # None /\ h \in 1..taken /\ ph[h] = "none" /\ taken \in Nat
  BY <1>0, <1>1, <1>h, Ranges DEF HeldInv, TypeOK, PendingInv, Begun, None
<1>3. /\ pending' \in Seq(1..taken) /\ Len(pending) \in Nat
      /\ DOMAIN pending = 1..Len(pending) /\ DOMAIN pending' = 1..(Len(pending) + 1)
      /\ \A k \in DOMAIN pending : pending'[k] = pending[k] /\ pending'[k] < h
      /\ \A k \in DOMAIN pending' : k \in DOMAIN pending \/ k = Len(pending) + 1
      /\ pending'[Len(pending) + 1] = h
  <2>1. pending \in Seq(1..taken)
    BY <1>1 DEF TypeOK
  <2>2. /\ pending' \in Seq(1..taken) /\ Len(pending) \in Nat
        /\ Len(pending') = Len(pending) + 1
        /\ \A k \in 1..Len(pending) : pending'[k] = pending[k]
        /\ pending'[Len(pending) + 1] = h
    BY <2>1, <1>0, <1>2, AppendOf
  <2>3. DOMAIN pending = 1..Len(pending) /\ DOMAIN pending' = 1..Len(pending')
    BY <2>1, <2>2
  <2>4. \A k \in DOMAIN pending : pending[k] < h
    BY <1>1, <1>2, <1>h DEF PendingInv
  <2>. QED BY <2>2, <2>3, <2>4
<1>4. TypeOK'
  <2>1. None \in 0..taken
    BY <1>2 DEF None
  <2>. QED BY <2>1, <1>0, <1>1, <1>3 DEF TypeOK
<1>5. HeldInv'
  BY <1>0, <1>1 DEF HeldInv
<1>6. PendingInv'
  <2>1. \A k \in DOMAIN pending' : IsMessage(pending[k])' /\ ~Begun(pending[k])'
    BY <1>0, <1>1, <1>2, <1>3 DEF PendingInv, IsMessage, Kind, Begun
  <2>2. ASSUME NEW k \in DOMAIN pending', NEW l \in DOMAIN pending', k < l
        PROVE  pending'[k] < pending'[l]
    <3>1. k \in DOMAIN pending
      BY <2>2, <1>3
    <3>2. CASE l \in DOMAIN pending
      BY <3>1, <3>2, <2>2, <1>1, <1>3 DEF PendingInv
    <3>3. CASE l = Len(pending) + 1
      BY <3>1, <3>3, <1>3
    <3>. QED BY <3>2, <3>3, <1>3
  <2>. QED BY <2>1, <2>2, <1>0 DEF PendingInv
<1>7. TaskInv'
  BY <1>0, <1>1 DEF TaskInv, Begun, IsAbort, IsShell, Live, Finished, Kind
<1>8. NothingDropped'
  <2>1. ToSet(pending) \subseteq ToSet(pending') /\ h \in ToSet(pending')
    BY <1>3 DEF ToSet
  <2>. QED BY <2>1, <1>0, <1>1, <1>h DEF NothingDropped, IsMessage, Kind, Begun
<1>. QED BY <1>4, <1>5, <1>6, <1>7, <1>8 DEF IInv

LEMMA SpawnAuxStep ==
  ASSUME IInv, SpawnAux
  PROVE  IInv'
<1>1. TypeOK /\ HeldInv /\ PendingInv /\ TaskInv /\ NothingDropped
  BY DEF IInv
<1>h. PICK h : h = held
  OBVIOUS
<1>0. /\ sub' = sub /\ taken' = taken /\ getting' = getting /\ held' = None
      /\ pending' = pending /\ active' = active /\ aux' = aux \cup {h} /\ pc' = pc
      /\ todo' = todo \ {None} /\ ph' = [ph EXCEPT ![h] = "new"] /\ cancel' = cancel
      /\ activeIds' = activeIds /\ ends' = ends
      /\ pc = "batch" /\ None \in todo /\ IsShell(h)
  BY <1>h DEF SpawnAux
<1>2. h # None /\ h \in 1..taken /\ h \in Ids /\ ph[h] = "none" /\ taken \in Nat
  BY <1>0, <1>1, <1>h, Ranges DEF HeldInv, TypeOK, PendingInv, Begun, None
<1>3. ph'[h] = "new" /\ \A i \in Ids : i # h => ph'[i] = ph[i]
  BY <1>0, <1>1, <1>2 DEF TypeOK
<1>4. TypeOK'
  <2>1. None \in 0..taken
    BY <1>2 DEF None
  <2>2. ph' \in [Ids -> Phases]
    BY <1>0, <1>1 DEF TypeOK, Phases
  <2>. QED BY <2>1, <2>2, <1>0, <1>1, <1>2 DEF TypeOK
<1>5. HeldInv'
  BY <1>0, <1>1 DEF HeldInv
<1>6. ~IsMessage(h) /\ ~IsAbort(h)
  BY <1>0 DEF IsMessage, IsShell, IsAbort
<1>7. PendingInv' /\ NothingDropped'
  <2>1. \A k \in DOMAIN pending : pending[k] \in Ids /\ pending[k] # h /\ ph[pending[k]] = "none"
    BY <1>1, <1>6, Ranges DEF PendingInv, Begun
  <2>2. \A k \in DOMAIN pending : ph'[pending[k]] = "none"
    BY <2>1, <1>3
  <2>3. \A i \in Ids : ph[i] # "none" => ph'[i] # "none"
    BY <1>3
  <2>. QED BY <2>2, <2>3, <1>0, <1>2, <1>6, <1>h, LoopKeepsMessages
<1>8. TaskInv'
  <2>1. \A i \in Ids : Begun(i)' => i <= taken' /\ ~IsAbort(i)'
    <3>1. \A i \in Ids : ph'[i] # "none" => ph[i] # "none" \/ i = h
      BY <1>3
    <3>2. \A i \in Ids : ph[i] # "none" => i <= taken /\ ~IsAbort(i)
      BY <1>1 DEF TaskInv, Begun
    <3>3. h <= taken
      BY <1>2
    <3>. QED BY <3>1, <3>2, <3>3, <1>0, <1>6 DEF Begun, IsAbort, Kind
  <2>2. \A i \in Ids : Live(i)' => IsShell(i)' \/ i = active'
    BY <1>0, <1>1, <1>3 DEF TaskInv, Live, IsShell, Kind
  <2>3. \A i \in todo' \ {None} : Finished(i)'
    <3>1. SUFFICES ASSUME NEW i \in todo \ {None} PROVE ph'[i] \in Over
      BY <1>0 DEF Finished
    <3>2. ph[i] \in Over /\ i \in Ids
      BY <1>1, Ranges DEF TaskInv, Finished, TypeOK, None
    <3>. QED BY <3>2, <1>2, <1>3 DEF Over
  <2>4. \A i \in aux' : Begun(i)'
    BY <1>0, <1>1, <1>3, Ranges DEF TaskInv, Begun, TypeOK
  <2>5. active' # None => Begun(active)'
    <3>1. active # None => active \in Ids /\ ph[active] # "none"
      BY <1>1, Ranges DEF TaskInv, Begun, TypeOK, None
    <3>. QED BY <3>1, <1>0, <1>3 DEF Begun
  <2>. QED BY <2>1, <2>2, <2>3, <2>4, <2>5, <1>0, <1>1 DEF TaskInv
<1>. QED BY <1>4, <1>5, <1>7, <1>8 DEF IInv

LEMMA AbortStep ==
  ASSUME IInv, AbortActive \/ AbortNothing
  PROVE  IInv'
<1>1. TypeOK /\ HeldInv /\ TaskInv
  BY DEF IInv
<1>0. /\ sub' = sub /\ taken' = taken /\ getting' = getting /\ held' = None /\ pending' = pending
      /\ active' = active /\ aux' = aux /\ todo' = todo \ {None}
      /\ pc = "batch" /\ None \in todo
      /\ (pc' = "abort" /\ active # None) \/ pc' = "batch"
      /\ ph' = ph /\ activeIds' = activeIds /\ ends' = ends
      /\ cancel' \in [Ids -> BOOLEAN] /\ IsAbort(held)
  BY <1>1 DEF AbortActive, AbortNothing, Cancel, TypeOK, taskVars
<1>2. TypeOK'
  <2>1. None \in 0..taken
    BY <1>1, Ranges DEF None
  <2>. QED BY <2>1, <1>0, <1>1 DEF TypeOK
<1>3. held # None /\ ~IsMessage(held)
  BY <1>0, <1>1 DEF HeldInv, IsAbort, IsMessage
<1>4. HeldInv'
  BY <1>0, <1>1, <1>3 DEF HeldInv
<1>5. TaskInv'
  BY <1>0, <1>1 DEF TaskInv, Begun, IsAbort, IsShell, Live, Finished, Kind
<1>. QED BY <1>0, <1>2, <1>3, <1>4, <1>5, QuietLoop DEF IInv

LEMMA AbortOverStep ==
  ASSUME IInv, AbortOver
  PROVE  IInv'
<1>1. TypeOK /\ HeldInv /\ TaskInv
  BY DEF IInv
<1>0. /\ sub' = sub /\ taken' = taken /\ getting' = getting /\ held' = held /\ pending' = pending
      /\ active' = None /\ aux' = {} /\ pc = "abort" /\ pc' = "batch" /\ todo' = todo
      /\ ph' = ph /\ cancel' = cancel /\ activeIds' = activeIds /\ ends' = ends
      /\ Finished(active)
  BY DEF AbortOver, queueVars, taskVars
<1>2. TypeOK' /\ HeldInv'
  <2>1. None \in 0..taken
    BY <1>1, Ranges DEF None
  <2>. QED BY <2>1, <1>0, <1>1 DEF TypeOK, HeldInv
<1>3. TaskInv'
  BY <1>0, <1>1 DEF TaskInv, Begun, IsAbort, IsShell, Live, Finished, Kind
<1>. QED BY <1>0, <1>2, <1>3, QuietLoop DEF IInv

LEMMA AuxOverStep ==
  ASSUME IInv, NEW i \in Ids, AuxOver(i)
  PROVE  IInv'
<1>1. TypeOK /\ HeldInv /\ TaskInv
  BY DEF IInv
<1>0. /\ sub' = sub /\ taken' = taken /\ getting' = getting /\ held' = held /\ pending' = pending
      /\ active' = active /\ aux' = aux \ {i} /\ pc = "batch" /\ pc' = pc /\ todo' = todo \ {i}
      /\ ph' = ph /\ cancel' = cancel /\ activeIds' = activeIds /\ ends' = ends /\ i # None
  BY DEF AuxOver, queueVars, taskVars
<1>2. TypeOK' /\ HeldInv'
  BY <1>0, <1>1 DEF TypeOK, HeldInv
<1>3. TaskInv'
  BY <1>0, <1>1 DEF TaskInv, Begun, IsAbort, IsShell, Live, Finished, Kind
<1>. QED BY <1>0, <1>2, <1>3, QuietLoop DEF IInv

LEMMA EndBatchStep ==
  ASSUME IInv, EndBatch
  PROVE  IInv'
<1>1. TypeOK /\ HeldInv /\ TaskInv
  BY DEF IInv
<1>0. /\ sub' = sub /\ taken' = taken /\ getting' = (active # None) /\ held' = held /\ pending' = pending
      /\ active' = active /\ aux' = aux /\ pc = "batch" /\ todo' = todo /\ todo = {}
      /\ pc' = IF active = None THEN "idle" ELSE "wait"
      /\ ph' = ph /\ cancel' = cancel /\ activeIds' = activeIds /\ ends' = ends
  BY DEF EndBatch, taskVars
<1>2. TypeOK'
  BY <1>0, <1>1 DEF TypeOK
<1>3. HeldInv'
  BY <1>0, <1>1 DEF HeldInv
<1>4. TaskInv'
  BY <1>0, <1>1 DEF TaskInv, Begun, IsAbort, IsShell, Live, Finished, Kind
<1>. QED BY <1>0, <1>2, <1>3, <1>4, QuietLoop DEF IInv

LEMMA LoopStep ==
  ASSUME IInv, Loop
  PROVE  IInv'
BY DequeuePendingStep, DequeueSubmissionStep, GetTaskStep, WakeStep, TurnOverStep,
   ReapAuxStep, QueueMessageStep, SpawnAuxStep, AbortStep, AbortOverStep,
   AuxOverStep, EndBatchStep DEF Loop

-----------------------------------------------------------------------------
(* The steps of the tasks. *)

(* Only a live task takes a step, and it goes to a phase of the list. *)
LEMMA TaskPhase ==
  ASSUME IInv, NEW i \in Ids, Task(i)
  PROVE  /\ UNCHANGED <<queueVars, loopVars>>
         /\ Live(i) /\ i \in 1..taken /\ i # None
         /\ \E p \in Phases \ {"none"} : To(i, p)
         /\ cancel' \in [Ids -> BOOLEAN]
<1>1. TypeOK /\ TaskInv
  BY DEF IInv
<1>2. UNCHANGED <<queueVars, loopVars>>
  BY DEF Task, FirstStep, CancelledUnstarted, PreludeDone, PreludeCancelled, WorkDone, WorkFails,
         WorkCancelled, CancelSwallowed, PersistDone, PersistCancelled, FailCancelled, UnwindDone
<1>3. \E p \in {"new", "prelude", "begin", "work", "commit", "fail", "unwind"} : ph[i] = p
  BY DEF Task, FirstStep, CancelledUnstarted, PreludeDone, PreludeCancelled, WorkDone, WorkFails,
         WorkCancelled, CancelSwallowed, PersistDone, PersistCancelled, FailCancelled, UnwindDone,
         InPhase
<1>4. Live(i) /\ i \in 1..taken /\ i # None
  BY <1>1, <1>3, Ranges DEF Live, Over, TaskInv, Begun, None, Ids
<1>5. Kind(i) \in {"message", "resume", "shell", "inline"}
  BY <1>1, <1>3, <1>4, Ranges DEF TaskInv, Begun, IsAbort, AllKinds
<1>6. \E p \in Phases \ {"none"} : To(i, p)
  BY <1>5 DEF Task, FirstStep, CancelledUnstarted, PreludeDone, PreludeCancelled, WorkDone, WorkFails,
         WorkCancelled, CancelSwallowed, PersistDone, PersistCancelled, FailCancelled, UnwindDone,
         Phases, IsMessage
<1>7. cancel' \in [Ids -> BOOLEAN]
  BY <1>1 DEF TypeOK, Task, FirstStep, CancelledUnstarted, PreludeDone, PreludeCancelled, WorkDone, WorkFails,
         WorkCancelled, CancelSwallowed, PersistDone, PersistCancelled, FailCancelled, UnwindDone,
         Delivered, Undisturbed
<1>. QED BY <1>2, <1>4, <1>6, <1>7

LEMMA TaskStep ==
  ASSUME IInv, NEW i \in Ids, Task(i)
  PROVE  IInv'
<1>1. TypeOK /\ TaskInv
  BY DEF IInv
<1>0. /\ sub' = sub /\ taken' = taken /\ getting' = getting /\ held' = held
      /\ pending' = pending /\ active' = active /\ aux' = aux /\ pc' = pc /\ todo' = todo
  BY TaskPhase DEF queueVars, loopVars
<1>2. PICK p \in Phases \ {"none"} : To(i, p)
  BY TaskPhase
<1>3. activeIds' \in [Threads -> 0..taken]
  <2>1. sub[i].thread \in Threads /\ i \in 0..taken /\ None \in 0..taken
    <3>1. i \in 1..taken /\ taken \in Nat /\ Len(sub) \in Nat /\ taken <= Len(sub)
      BY <1>1, TaskPhase, Ranges
    <3>2. sub[i] \in Submission
      BY <3>1, <1>1, Ranges
    <3>. QED BY <3>1, <3>2 DEF Submission, None
  <2>2. CASE FirstStep(i)
    BY <2>1, <2>2, <1>1 DEF FirstStep, TypeOK
  <2>3. CASE activeIds' = activeIds
    BY <2>3, <1>1 DEF TypeOK
  <2>4. CASE Release(i)
    BY <2>1, <2>4, <1>1 DEF Release, TypeOK
  <2>. QED
    BY <2>2, <2>3, <2>4
    DEF Task, CancelledUnstarted, PreludeDone, PreludeCancelled, WorkDone, WorkFails,
        WorkCancelled, CancelSwallowed, PersistDone, PersistCancelled, FailCancelled, UnwindDone
<1>4. ends' \in [Ids -> Nat]
  <2>1. CASE ends' = ends
    BY <2>1, <1>1 DEF TypeOK
  <2>2. CASE Announce(i)
    BY <2>2, <1>1 DEF TypeOK, Announce
  <2>. QED
    BY <2>1, <2>2
    DEF Task, FirstStep, CancelledUnstarted, PreludeDone, PreludeCancelled, WorkDone, WorkFails,
        WorkCancelled, CancelSwallowed, PersistDone, PersistCancelled, FailCancelled, UnwindDone
<1>5. TypeOK'
  <2>1. ph' \in [Ids -> Phases]
    BY <1>1, <1>2 DEF To, TypeOK
  <2>. QED BY <2>1, <1>0, <1>1, <1>3, <1>4, TaskPhase DEF TypeOK
<1>. QED BY <1>2, <1>5, TaskPhase, TaskKeepsQueue

-----------------------------------------------------------------------------
(* The invariant is inductive. *)
THEOREM InvariantHolds == Spec => []IInv
<1>1. IInv /\ [Next]_vars => IInv'
  <2>1. ASSUME IInv, Next PROVE IInv'
    BY <2>1, SubmitStep, LoopStep, TaskStep DEF Next
  <2>2. ASSUME IInv, UNCHANGED vars PROVE IInv'
    BY <2>2 DEF IInv, TypeOK, HeldInv, PendingInv, TaskInv, NothingDropped, vars, queueVars,
                loopVars, taskVars, Begun, Live, Finished, IsMessage, IsShell, IsAbort, Kind
  <2>. QED BY <2>1, <2>2
<1>. QED BY <1>1, InitInv, PTL DEF Spec

(* Every variable keeps its type in every behaviour. *)
THEOREM TypeCorrect == Spec => []TypeOK
BY InvariantHolds, PTL DEF IInv

(* No user message taken from the queue is ever lost, for any number of    *)
(* messages, threads, shell commands and aborts.                           *)
THEOREM MessagesAreKept == Spec => []NothingDropped
BY InvariantHolds, PTL DEF IInv

-----------------------------------------------------------------------------
(* SessionDispatch implements TurnStream: which step is which. *)

LEMMA SubmitIsAccept ==
  ASSUME IInv, NEW s \in Submission, Submit(s)
  PROVE  [Stream!Next]_StageOf
<1>1. TypeOK /\ TaskInv
  BY DEF IInv
<1>2. PICK n : n = Len(sub) + 1
  OBVIOUS
<1>3. /\ Len(sub) \in Nat /\ n \in Ids /\ Len(sub') = n /\ sub'[n] = s
      /\ \A k \in 1..Len(sub) : sub'[k] = sub[k]
      /\ ph' = ph /\ ph[n] = "none"
  <2>1. /\ sub \in Seq(Submission) /\ Len(sub) \in Nat /\ Len(sub) < MaxSubs
        /\ sub' = Append(sub, s) /\ ph' = ph
    BY <1>1, Ranges DEF Submit, taskVars, TypeOK
  <2>2. n \in Ids
    BY <2>1, <1>2, DispatchAssumption DEF Ids
  <2>3. ph[n] = "none"
    BY <2>1, <2>2, <1>1, <1>2, Ranges DEF TaskInv, Begun
  <2>. QED BY <2>1, <2>2, <2>3, <1>2, AppendOf
<1>4. \A i \in Ids : /\ StageOf[i] # "none" => i < n
                     /\ i # n => StageOf'[i] = StageOf[i]
  <2>1. SUFFICES ASSUME NEW i \in Ids
                 PROVE  /\ StageOf[i] # "none" => i < n
                        /\ i # n => StageOf'[i] = StageOf[i]
    OBVIOUS
  <2>2. i \in Nat /\ (i \in 1..Len(sub) => i < n) /\ (i # n => (i \in 1..n <=> i \in 1..Len(sub)))
    BY <1>1, <1>2, <1>3, Ranges
  <2>. QED BY <2>2, <1>3 DEF StageOf, IsMessage, Kind, Finished
<1>5. StageOf'[n] = (IF s.kind \in {"message", "resume"} THEN "waiting" ELSE "none")
  <2>1. n \in 1..n
    BY <1>2, <1>3
  <2>. QED BY <2>1, <1>3 DEF StageOf, IsMessage, Kind
<1>6. StageOf[n] = "none"
  BY <1>2, <1>3 DEF StageOf
<1>7. StageOf = [i \in Ids |-> StageOf[i]] /\ StageOf' = [i \in Ids |-> StageOf'[i]]
  BY DEF StageOf
<1>8. CASE s.kind \in {"message", "resume"}
  <2>1. StageOf' = [StageOf EXCEPT ![n] = "waiting"]
    BY <1>3, <1>4, <1>5, <1>7, <1>8
  <2>2. Stream!Accept(n)
    BY <2>1, <1>3, <1>4 DEF Stream!Accept, Stream!Numbers, Ids
  <2>. QED BY <2>2, <1>3 DEF Stream!Next, Stream!Numbers, Ids
<1>9. CASE s.kind \notin {"message", "resume"}
  BY <1>3, <1>4, <1>5, <1>6, <1>7, <1>9
<1>. QED BY <1>8, <1>9

(* The stages depend on the submissions and on the phases only. *)
LEMMA SameStages ==
  ASSUME TypeOK, sub' = sub,
         \A i \in 1..Len(sub) : IsMessage(i) => ph'[i] = ph[i]
  PROVE  StageOf' = StageOf
BY DEF StageOf, IsMessage, Kind, Finished

(* A message that gets the slot begins its turn. *)
LEMMA CreateIsBegin ==
  ASSUME IInv, pc = "idle", sub' = sub, NEW h \in 1..Len(sub), IsMessage(h),
         ph[h] = "none", ph' = [ph EXCEPT ![h] = "new"],
         \A j \in 1..Len(sub) : IsMessage(j) /\ j < h => ph[j] # "none"
  PROVE  Stream!Next
<1>1. TypeOK /\ TaskInv
  BY DEF IInv
<1>2. h \in Ids
  BY <1>1, Ranges
<1>3. \A j \in Ids : j # h => ph'[j] = ph[j]
  BY <1>1 DEF TypeOK
<1>4. ph'[h] = "new"
  BY <1>1, <1>2 DEF TypeOK
<1>5. StageOf[h] = "waiting" /\ StageOf'[h] = "running"
  BY <1>2, <1>4 DEF StageOf, IsMessage, Kind, Finished, Over
<1>6. \A j \in Ids : j # h => StageOf'[j] = StageOf[j]
  BY <1>3 DEF StageOf, IsMessage, Kind, Finished
<1>7. StageOf' = [StageOf EXCEPT ![h] = "running"]
  BY <1>5, <1>6 DEF StageOf
<1>8. \A j \in Ids : StageOf[j] # "running"
  <2>1. active = None
    BY <1>1 DEF TaskInv
  <2>2. SUFFICES ASSUME NEW j \in Ids, StageOf[j] = "running" PROVE FALSE
    OBVIOUS
  <2>3. j \in 1..Len(sub) /\ IsMessage(j) /\ Live(j)
    BY <2>2 DEF StageOf, Live, Finished
  <2>4. IsShell(j)
    BY <2>1, <2>3, <1>1, Ranges DEF TaskInv
  <2>. QED BY <2>3, <2>4 DEF IsMessage, IsShell
<1>9. \A j \in Ids : j < h => StageOf[j] # "waiting"
  BY DEF StageOf
<1>10. Stream!Begin(h)
  BY <1>5, <1>7, <1>8, <1>9 DEF Stream!Begin, Stream!Numbers, Ids
<1>. QED BY <1>2, <1>10 DEF Stream!Next, Stream!Numbers, Ids

LEMMA LoopImplements ==
  ASSUME IInv, Loop
  PROVE  [Stream!Next]_StageOf
<1>1. TypeOK /\ HeldInv /\ PendingInv /\ TaskInv /\ NothingDropped
  BY DEF IInv
<1>2. CASE DequeuePending
  <2>1. PICK h : h = Head(pending)
    OBVIOUS
  <2>2. /\ sub' = sub /\ pc = "idle" /\ pending # <<>>
        /\ ph' = [ph EXCEPT ![h] = "new"]
    BY <1>2, <2>1 DEF DequeuePending, CreateTurnTask
  <2>3. /\ DOMAIN pending = 1..Len(pending) /\ Len(pending) \in Nat \ {0} /\ h = pending[1]
    BY <1>1, <2>1, <2>2, TailOf, Ranges DEF TypeOK
  <2>4. 1 \in DOMAIN pending /\ IsMessage(h) /\ ph[h] = "none" /\ h \in 1..taken
    BY <2>3, <1>1, Ranges DEF PendingInv, Begun
  <2>5. h \in 1..Len(sub)
    BY <2>4, <1>1, Ranges
  <2>6. ASSUME NEW j \in 1..Len(sub), IsMessage(j), j < h PROVE ph[j] # "none"
    <3>1. j \in 1..taken
      BY <2>4, <2>6, <1>1, Ranges
    <3>2. held = None /\ j # None
      BY <1>1, <2>2, <3>1 DEF HeldInv, None
    <3>3. j \notin ToSet(pending)
      <4>1. SUFFICES ASSUME NEW k \in DOMAIN pending, pending[k] = j PROVE FALSE
        BY DEF ToSet
      <4>2. CASE k = 1
        BY <4>1, <4>2, <2>3, <2>4, <2>6
      <4>3. CASE k # 1
        <5>1. 1 < k
          BY <4>3, <2>3
        <5>2. pending[1] < pending[k]
          BY <5>1, <2>4, <1>1 DEF PendingInv
        <5>. QED BY <5>2, <4>1, <2>3, <2>4, <2>6
      <4>. QED BY <4>2, <4>3
    <3>. QED BY <3>1, <3>2, <3>3, <2>6, <1>1 DEF NothingDropped, Begun
  <2>. QED BY <2>2, <2>4, <2>5, <2>6, CreateIsBegin
<1>3. CASE DequeueSubmission
  <2>1. PICK h : h = taken + 1
    OBVIOUS
  <2>2. /\ sub' = sub /\ pc = "idle" /\ pending = <<>> /\ taken < Len(sub)
        /\ (IsAbort(h) /\ ph' = ph) \/ ph' = [ph EXCEPT ![h] = "new"]
    BY <1>3, <2>1 DEF DequeueSubmission, CreateTurnTask
  <2>3. /\ h \in 1..Len(sub) /\ h \in Ids /\ h \notin 1..taken /\ taken < h /\ taken \in Nat
        /\ \A j \in 1..Len(sub) : j < h => j \in 1..taken
    BY <2>1, <2>2, <1>1, Ranges
  <2>4. ph[h] = "none"
    BY <2>3, <1>1 DEF TaskInv, Begun
  <2>5. CASE ph' = ph
    BY <2>2, <2>5, <1>1, SameStages
  <2>6. CASE ~IsMessage(h) /\ ph' = [ph EXCEPT ![h] = "new"]
    <3>1. \A i \in 1..Len(sub) : IsMessage(i) => ph'[i] = ph[i]
      BY <2>6, <1>1, Ranges DEF TypeOK
    <3>. QED BY <3>1, <2>2, <1>1, SameStages
  <2>7. CASE IsMessage(h) /\ ph' = [ph EXCEPT ![h] = "new"]
    <3>1. held = None /\ ToSet(pending) = {} /\ \A j \in 1..taken : j # None
      BY <1>1, <2>2, <2>3 DEF HeldInv, ToSet, None
    <3>2. \A j \in 1..Len(sub) : IsMessage(j) /\ j < h => ph[j] # "none"
      BY <3>1, <2>3, <1>1 DEF NothingDropped, Begun
    <3>. QED BY <3>2, <2>2, <2>3, <2>4, <2>7, CreateIsBegin
  <2>. QED BY <2>2, <2>5, <2>6, <2>7
<1>4. CASE SpawnAux
  <2>1. PICK h : h = held
    OBVIOUS
  <2>2. sub' = sub /\ IsShell(h) /\ ph' = [ph EXCEPT ![h] = "new"]
    BY <1>4, <2>1 DEF SpawnAux
  <2>3. ~IsMessage(h)
    BY <2>2 DEF IsShell, IsMessage
  <2>4. \A i \in 1..Len(sub) : IsMessage(i) => ph'[i] = ph[i]
    BY <2>2, <2>3, <1>1, Ranges DEF TypeOK
  <2>. QED BY <2>2, <2>4, <1>1, SameStages
<1>5. CASE sub' = sub /\ ph' = ph
  BY <1>1, <1>5, SameStages
<1>. QED
  BY <1>2, <1>3, <1>4, <1>5
  DEF Loop, GetTask, Wake, TurnOver, ReapAux, QueueMessage, AbortActive, AbortOver, AbortNothing,
      AuxOver, EndBatch, queueVars, taskVars

LEMMA TaskImplements ==
  ASSUME IInv, NEW i \in Ids, Task(i)
  PROVE  [Stream!Next]_StageOf
<1>1. TypeOK /\ TaskInv
  BY DEF IInv
<1>2. PICK p \in Phases \ {"none"} : To(i, p)
  BY TaskPhase
<1>3. sub' = sub /\ Live(i) /\ i \in 1..Len(sub)
  BY TaskPhase, <1>1, Ranges DEF queueVars
<1>4. ph'[i] = p /\ \A j \in Ids : j # i => ph'[j] = ph[j]
  BY <1>1, <1>2 DEF To, TypeOK
<1>5. \A j \in Ids : j # i => StageOf'[j] = StageOf[j]
  BY <1>3, <1>4 DEF StageOf, IsMessage, Kind, Finished
<1>6. CASE ~IsMessage(i)
  <2>1. \A j \in 1..Len(sub) : IsMessage(j) => ph'[j] = ph[j]
    BY <1>4, <1>6, <1>1, Ranges
  <2>. QED BY <2>1, <1>1, <1>3, SameStages
<1>7. CASE IsMessage(i)
  <2>1. StageOf[i] = "running"
    BY <1>3, <1>7 DEF StageOf, Live, Finished
  <2>2. StageOf'[i] = (IF p \in Over THEN "ended" ELSE "running")
    BY <1>2, <1>3, <1>4, <1>7 DEF StageOf, IsMessage, Kind, Finished
  <2>3. CASE p \in Over
    <3>1. StageOf' = [StageOf EXCEPT ![i] = "ended"]
      BY <2>2, <2>3, <1>5 DEF StageOf
    <3>2. Stream!End(i)
      BY <2>1, <3>1 DEF Stream!End
    <3>. QED BY <3>2 DEF Stream!Next, Stream!Numbers, Ids
  <2>4. CASE p \notin Over
    BY <2>1, <2>2, <2>4, <1>5 DEF StageOf
  <2>. QED BY <2>3, <2>4
<1>. QED BY <1>6, <1>7

(* Messages become turns in submission order, one at a time, the next only *)
(* after the clean-up of the one before: the dispatch loop implements      *)
(* TurnStream step by step, whatever is aborted and whenever.              *)
THEOREM DispatchIsSerial == Spec => TurnsAreSerial
<1>1. Init => Stream!Init
  BY DEF Init, Stream!Init, Stream!Numbers, StageOf, Ids
<1>2. IInv /\ [Next]_vars => [Stream!Next]_StageOf
  <2>1. ASSUME IInv, Next PROVE [Stream!Next]_StageOf
    BY <2>1, SubmitIsAccept, LoopImplements, TaskImplements DEF Next
  <2>2. ASSUME IInv, UNCHANGED vars PROVE StageOf' = StageOf
    <3>1. sub' = sub /\ ph' = ph
      BY <2>2 DEF vars, queueVars, taskVars
    <3>. QED BY <3>1, <2>2, SameStages DEF IInv
  <2>. QED BY <2>1, <2>2
<1>. QED BY <1>1, <1>2, InvariantHolds, PTL DEF Spec, TurnsAreSerial, Stream!Safe

-----------------------------------------------------------------------------
(* What turns announce and what threads report. *)

(* Clients and the loop only create tasks. *)
LEMMA LoopOnlyCreates ==
  ASSUME IInv, (\E s \in Submission : Submit(s)) \/ Loop
  PROVE  /\ ends' = ends /\ activeIds' = activeIds
         /\ \A i \in 1..taken : sub'[i] = sub[i]
         /\ \A i \in Ids : ph'[i] = ph[i] \/ (ph[i] = "none" /\ ph'[i] = "new")
<1>1. TypeOK /\ HeldInv /\ PendingInv /\ TaskInv
  BY DEF IInv
<1>2. CASE \E s \in Submission : Submit(s)
  <2>1. PICK s \in Submission : Submit(s)
    BY <1>2
  <2>2. sub \in Seq(Submission) /\ sub' = Append(sub, s) /\ 1..taken \subseteq 1..Len(sub)
    BY <2>1, <1>1, Ranges DEF Submit, TypeOK
  <2>3. \A i \in 1..taken : sub'[i] = sub[i]
    BY <2>2, AppendOf
  <2>. QED BY <2>1, <2>3 DEF Submit, taskVars
<1>3. CASE DequeuePending
  <2>1. pending \in Seq(1..taken) /\ pending # <<>>
    BY <1>3, <1>1 DEF DequeuePending, TypeOK
  <2>2. Head(pending) = pending[1] /\ 1 \in DOMAIN pending
    BY <2>1, TailOf, <1>1, Ranges
  <2>3. ph[Head(pending)] = "none"
    BY <2>2, <1>1 DEF PendingInv, Begun
  <2>. QED BY <1>1, <1>3, <2>3 DEF DequeuePending, CreateTurnTask, TypeOK
<1>4. CASE DequeueSubmission
  <2>1. PICK h : h = taken + 1
    OBVIOUS
  <2>2. ph' = ph \/ ph' = [ph EXCEPT ![h] = "new"]
    BY <1>4, <2>1 DEF DequeueSubmission, CreateTurnTask
  <2>3. h \in Ids /\ h \notin 1..taken /\ ~(h <= taken)
    BY <1>1, <1>4, <2>1, Ranges DEF DequeueSubmission
  <2>4. ph[h] = "none"
    BY <2>3, <1>1 DEF TaskInv, Begun
  <2>. QED BY <1>1, <1>4, <2>2, <2>4 DEF DequeueSubmission, TypeOK
<1>5. CASE SpawnAux
  <2>1. ph[held] = "none"
    BY <1>1, <1>5 DEF SpawnAux, HeldInv, PendingInv, Begun
  <2>. QED BY <1>1, <1>5, <2>1 DEF SpawnAux, TypeOK
<1>6. CASE sub' = sub /\ ph' = ph /\ ends' = ends /\ activeIds' = activeIds
  BY <1>6
<1>. QED
  BY <1>2, <1>3, <1>4, <1>5, <1>6
  DEF Loop, GetTask, Wake, TurnOver, ReapAux, QueueMessage, AbortActive, AbortOver, AbortNothing,
      AuxOver, EndBatch, queueVars, taskVars

(* A turn puts at most one terminal event on the queue, although an abort  *)
(* can reach it in its work, while its result is persisted and in its      *)
(* error handler.                                                          *)
THEOREM TurnsEndOnce == Spec => []AtMostOneEnd
<1>1. Init => EndsInv
  BY DEF Init, EndsInv, Ids
<1>2. IInv /\ EndsInv /\ [Next]_vars => EndsInv'
  <2>1. ASSUME IInv, EndsInv, (\E s \in Submission : Submit(s)) \/ Loop PROVE EndsInv'
    BY <2>1, LoopOnlyCreates DEF EndsInv
  <2>2. ASSUME IInv, EndsInv, NEW i \in Ids, Task(i) PROVE EndsInv'
    <3>1. TypeOK /\ Live(i)
      BY <2>2, TaskPhase DEF IInv
    <3>2. ends[i] = 0
      BY <2>2, <3>1 DEF EndsInv, Live, Over
    <3>3. PICK p \in Phases \ {"none"} : To(i, p)
      BY <2>2, TaskPhase
    <3>4. ph'[i] = p /\ \A j \in Ids : j # i => ph'[j] = ph[j]
      BY <3>1, <3>3 DEF To, TypeOK
    <3>5. CASE ends' = ends
      BY <2>2, <3>2, <3>4, <3>5 DEF EndsInv
    <3>6. CASE Announce(i) /\ To(i, "done")
      <4>1. ph'[i] = "done"
        BY <3>1, <3>6 DEF To, TypeOK
      <4>2. ends'[i] = 1 /\ \A j \in Ids : j # i => ends'[j] = ends[j]
        BY <3>1, <3>2, <3>6 DEF Announce, TypeOK
      <4>. QED BY <4>1, <4>2, <2>2, <3>4 DEF EndsInv
    <3>. QED
      BY <2>2, <3>5, <3>6
      DEF Task, FirstStep, CancelledUnstarted, PreludeDone, PreludeCancelled, WorkDone, WorkFails,
          WorkCancelled, CancelSwallowed, PersistDone, PersistCancelled, FailCancelled, UnwindDone
  <2>3. ASSUME EndsInv, UNCHANGED vars PROVE EndsInv'
    BY <2>3 DEF EndsInv, vars, taskVars
  <2>. QED BY <2>1, <2>2, <2>3 DEF Next
<1>3. EndsInv => AtMostOneEnd
  BY DEF EndsInv, AtMostOneEnd
<1>. QED BY <1>1, <1>2, <1>3, InvariantHolds, PTL DEF Spec

(* A thread is reported active only while the task of its turn is alive:   *)
(* no abort, at any point of any turn, leaves an entry behind, a resumed   *)
(* turn's own excepted.                                                    *)
THEOREM NoEntryLeaks == Spec => []EntriesAreLive
<1>1. Init => EntryInv
  BY DEF Init, EntryInv, None, Ids
<1>2. IInv /\ EntryInv /\ [Next]_vars => EntryInv'
  <2>1. ASSUME IInv, EntryInv, (\E s \in Submission : Submit(s)) \/ Loop PROVE EntryInv'
    <3>1. \A t \in Threads : activeIds[t] # None => activeIds[t] \in 1..taken
      BY <2>1 DEF IInv, TypeOK, None
    <3>2. \A t \in Threads : activeIds[t] # None => activeIds[t] \in Ids
      BY <2>1, <3>1, Ranges DEF IInv
    <3>3. \A i \in Ids : ph[i] # "none" => i \in 1..taken
      BY <2>1, Ranges DEF IInv, TaskInv, Begun, Ids
    <3>4. ASSUME NEW i \in Ids, ph'[i] = "prelude" PROVE sub'[i].kind = "resume"
      <4>1. ph[i] = "prelude" /\ i \in 1..taken
        BY <2>1, <3>3, <3>4, LoopOnlyCreates
      <4>. QED BY <2>1, <4>1, LoopOnlyCreates DEF EntryInv, Kind
    <3>. QED BY <2>1, <3>1, <3>2, <3>4, LoopOnlyCreates DEF EntryInv, Live, Kind
  <2>2. ASSUME IInv, EntryInv, NEW i \in Ids, Task(i) PROVE EntryInv'
    <3>1. TypeOK /\ Live(i) /\ i \in 1..taken /\ sub' = sub /\ i # None
      BY <2>2, TaskPhase DEF IInv, queueVars
    <3>2. PICK p \in Phases \ {"none"} : To(i, p)
      BY <2>2, TaskPhase
    <3>3. ph'[i] = p /\ \A j \in Ids : j # i => ph'[j] = ph[j]
      BY <3>1, <3>2 DEF To, TypeOK
    <3>4. \A t \in Threads : activeIds[t] # None => activeIds[t] \in Ids
      BY <3>1, Ranges DEF TypeOK, None
    <3>5. Kind(i) \in {"message", "resume", "shell", "inline"} /\ sub[i].thread \in Threads
      <4>1. sub[i] \in Submission /\ ~IsAbort(i)
        BY <2>2, <3>1, Ranges DEF IInv, TaskInv, Begun, Live
      <4>2. Kind(i) \in Kinds /\ Kind(i) \in AllKinds
        BY <4>1, DispatchAssumption DEF Submission, Kind
      <4>. QED BY <4>1, <4>2 DEF Submission, AllKinds, IsAbort
    <3>6. CASE FirstStep(i)
      <4>1. ph[i] = "new" /\ p \in {"prelude", "begin", "work"} /\ (p = "prelude" => Kind(i) = "resume")
        BY <3>1, <3>3, <3>5, <3>6 DEF FirstStep, InPhase, To, TypeOK
      <4>2. \A j \in Ids : ph'[j] = "prelude" => Kind(j) = "resume"
        BY <2>2, <3>3, <4>1 DEF EntryInv
      <4>3. CASE Kind(i) = "inline"
        BY <4>1, <4>2, <4>3, <2>2, <3>1, <3>3, <3>4, <3>6 DEF FirstStep, EntryInv, Live, Kind
      <4>4. CASE Kind(i) # "inline"
        <5>1. activeIds' = [activeIds EXCEPT ![sub[i].thread] = i]
          BY <3>6, <4>4 DEF FirstStep
        <5>2. \A t \in Threads : activeIds'[t] = IF t = sub[i].thread THEN i ELSE activeIds[t]
          BY <5>1, <3>1 DEF TypeOK
        <5>3. p \notin Over \cup {"none", "new"} /\ Kind(i) \in {"message", "resume", "shell"}
          BY <4>1, <4>4, <3>5 DEF Over
        <5>4. ASSUME NEW t \in Threads, activeIds'[t] # None
              PROVE  /\ ph'[activeIds'[t]] \notin {"none", "new"}
                     /\ \/ ph'[activeIds'[t]] \notin Over \cup {"none"}
                        \/ sub[activeIds'[t]].kind = "resume"
                     /\ sub[activeIds'[t]].kind \in {"message", "resume", "shell"}
                     /\ sub[activeIds'[t]].thread = t
          <6>1. CASE t = sub[i].thread
            BY <6>1, <5>2, <5>3, <3>3 DEF Kind
          <6>2. CASE t # sub[i].thread
            <7>1. activeIds'[t] = activeIds[t] /\ activeIds[t] # None /\ activeIds[t] \in Ids
              BY <6>2, <5>2, <5>4, <3>4
            <7>2. activeIds[t] # i
              BY <7>1, <4>1, <2>2 DEF EntryInv
            <7>. QED BY <7>1, <7>2, <2>2, <3>3 DEF EntryInv, Live, Kind
          <6>. QED BY <6>1, <6>2
        <5>. QED BY <5>4, <4>2, <3>1 DEF EntryInv, Live, Kind
      <4>. QED BY <4>3, <4>4
    <3>7. CASE /\ activeIds' = activeIds
               /\ \/ p \in {"work", "commit", "fail", "unwind"}
                  \/ ph[i] = "new" /\ p = "unborn"
                  \/ Kind(i) \in {"inline", "resume"} /\ p = "done"
      <4>1. \A j \in Ids : ph'[j] = "prelude" => Kind(j) = "resume"
        BY <2>2, <3>3, <3>7 DEF EntryInv
      <4>2. ASSUME NEW t \in Threads, activeIds[t] # None
            PROVE  /\ ph'[activeIds[t]] \notin {"none", "new"}
                   /\ ph'[activeIds[t]] \notin Over \cup {"none"} \/ Kind(activeIds[t]) = "resume"
        <5>1. CASE activeIds[t] = i
          BY <5>1, <4>2, <2>2, <3>3, <3>7 DEF EntryInv, Over
        <5>2. CASE activeIds[t] # i
          BY <5>2, <4>2, <2>2, <3>3, <3>4 DEF EntryInv, Live
        <5>. QED BY <5>1, <5>2
      <4>. QED BY <4>1, <4>2, <2>2, <3>1, <3>7 DEF EntryInv, Live, Kind
    <3>8. CASE Release(i) /\ p = "done"
      <4>1. \A j \in Ids : ph'[j] = "prelude" => Kind(j) = "resume"
        BY <2>2, <3>3, <3>8 DEF EntryInv
      <4>2. ASSUME NEW t \in Threads, activeIds'[t] # None
            PROVE  activeIds'[t] = activeIds[t] /\ activeIds[t] # i
        <5>1. activeIds'[t] = activeIds[t]
          BY <4>2, <3>8 DEF Release
        <5>2. ASSUME activeIds[t] = i PROVE FALSE
          <6>1. sub[i].thread = t /\ Kind(i) \in {"message", "resume", "shell"}
            BY <5>2, <2>2, <3>1 DEF EntryInv
          <6>2. activeIds'[t] = None
            BY <6>1, <5>2, <3>8 DEF Release, IsMessage
          <6>. QED BY <6>2, <4>2
        <5>. QED BY <5>1, <5>2
      <4>3. ASSUME NEW t \in Threads, activeIds'[t] # None
            PROVE  /\ ph'[activeIds'[t]] \notin {"none", "new"}
                   /\ \/ ph'[activeIds'[t]] \notin Over \cup {"none"}
                      \/ sub[activeIds'[t]].kind = "resume"
                   /\ sub[activeIds'[t]].kind \in {"message", "resume", "shell"}
                   /\ sub[activeIds'[t]].thread = t
        <5>1. activeIds'[t] = activeIds[t] /\ activeIds[t] \in Ids /\ activeIds[t] # i
          BY <4>2, <4>3, <3>4
        <5>. QED BY <5>1, <4>3, <2>2, <3>3 DEF EntryInv, Live, Kind
      <4>. QED BY <4>1, <4>3, <3>1 DEF EntryInv, Live, Kind
    <3>9. ph[i] = "prelude" => Kind(i) = "resume"
      BY <2>2 DEF EntryInv
    <3>. QED
      <4>1. CASE CancelledUnstarted(i) \/ PreludeDone(i) \/ PreludeCancelled(i)
        BY <4>1, <3>1, <3>3, <3>7, <3>9
        DEF CancelledUnstarted, PreludeDone, PreludeCancelled, InPhase, To, TypeOK
      <4>2. CASE WorkDone(i) \/ WorkFails(i) \/ WorkCancelled(i) \/ CancelSwallowed(i) \/ PersistCancelled(i)
        BY <4>2, <3>1, <3>3, <3>5, <3>7
        DEF WorkDone, WorkFails, WorkCancelled, CancelSwallowed, PersistCancelled, IsMessage, To, TypeOK
      <4>3. CASE PersistDone(i) \/ FailCancelled(i) \/ UnwindDone(i)
        BY <4>3, <3>1, <3>3, <3>8 DEF PersistDone, FailCancelled, UnwindDone, To, TypeOK
      <4>. QED BY <2>2, <3>6, <4>1, <4>2, <4>3 DEF Task
  <2>3. ASSUME EntryInv, UNCHANGED vars PROVE EntryInv'
    BY <2>3 DEF EntryInv, Live, Kind, vars, queueVars, taskVars
  <2>. QED BY <2>1, <2>2, <2>3 DEF Next
<1>3. EntryInv => EntriesAreLive
  BY DEF EntryInv, EntriesAreLive
<1>. QED BY <1>1, <1>2, <1>3, InvariantHolds, PTL DEF Spec

-----------------------------------------------------------------------------
(* Why every turn ends *)

(* Cancelling is what AbortActive and TurnOver do, in a batch: nobody is   *)
(* cancelled or unwinding then.                                            *)
LEMMA CancelledLoop ==
  ASSUME IInv, CancelledOnce, (\E s \in Submission : Submit(s)) \/ Loop
  PROVE  CancelledOnce'
<1>0. TypeOK /\ TaskInv
  BY DEF IInv
<1>1. \A i \in Ids : /\ ph'[i] = "unwind" => ph[i] = "unwind"
                     /\ Live(i) => Live(i)'
                     /\ ph[i] \in Over => ph'[i] \in Over
  BY LoopOnlyCreates DEF Live, Over
<1>2. pc \notin {"abort", "reap"} => \A i \in Ids : ~cancel[i] /\ ph[i] # "unwind"
  BY DEF CancelledOnce
<1>3. ASSUME cancel' = cancel, UNCHANGED <<pc, aux, active>> \/ pc \notin {"abort", "reap"}
      PROVE  CancelledOnce'
  BY <1>1, <1>2, <1>3 DEF CancelledOnce
<1>4. CASE \E s \in Submission : Submit(s)
  BY <1>3, <1>4 DEF Submit, loopVars, taskVars
<1>5. CASE DequeuePending \/ DequeueSubmission \/ Wake \/ QueueMessage \/ SpawnAux \/ AbortNothing \/ EndBatch
           \/ \E i \in Ids : AuxOver(i)
  BY <1>3, <1>5 DEF DequeuePending, DequeueSubmission, Wake, QueueMessage, SpawnAux, AbortNothing, EndBatch, AuxOver,
     taskVars
<1>6. CASE GetTask
  BY <1>3, <1>6 DEF GetTask, loopVars, taskVars
<1>7. ASSUME NEW S, Cancel(S), pc = "batch", ph' = ph, NEW i \in Ids, cancel'[i] \/ ph'[i] = "unwind"
      PROVE  i \in S /\ Live(i)' /\ ph'[i] # "unwind"
  BY <1>1, <1>2, <1>7 DEF Cancel
<1>8. CASE TurnOver
  <2>1. pc = "batch" /\ Cancel(aux) /\ ph' = ph /\ aux' = aux /\ pc' = IF aux = {} THEN "batch" ELSE "reap"
    BY <1>8 DEF TurnOver
  <2>. QED BY <1>7, <2>1 DEF CancelledOnce
<1>9. CASE AbortActive
  <2>1. pc = "batch" /\ Cancel(aux \cup {active}) /\ ph' = ph /\ aux' = aux /\ active' = active /\ pc' = "abort"
    BY <1>9 DEF AbortActive
  <2>. QED BY <1>7, <2>1 DEF CancelledOnce
<1>10. CASE ReapAux \/ AbortOver
  <2>1. \A i \in Ids : ~cancel[i] /\ ph[i] # "unwind"
    BY <1>10 DEF ReapAux, AbortOver, CancelledOnce, Live, Finished
  <2>2. cancel' = cancel /\ ph' = ph
    BY <1>10 DEF ReapAux, AbortOver, taskVars
  <2>. QED BY <2>1, <2>2 DEF CancelledOnce
<1>. QED BY <1>4, <1>5, <1>6, <1>8, <1>9, <1>10 DEF Loop

(* A task takes its cancellation at most once: it is over, works on, or    *)
(* unwinds while the loop still waits for it.                              *)
LEMMA CancelledTask ==
  ASSUME IInv, CancelledOnce, NEW i \in Ids, Task(i)
  PROVE  CancelledOnce'
<1>0. TypeOK /\ UNCHANGED <<pc, aux, active>>
  BY TaskPhase DEF IInv, loopVars
<1>1. PICK p \in Phases \ {"none"} : To(i, p)
  BY TaskPhase
<1>2. ph'[i] = p /\ \A j \in Ids : j # i => ph'[j] = ph[j]
  BY <1>0, <1>1 DEF To, TypeOK
<1>3. /\ ~cancel'[i]
      /\ \A j \in Ids : j # i => cancel'[j] = cancel[j]
  BY <1>0 DEF TypeOK, Task, FirstStep, CancelledUnstarted, PreludeDone, PreludeCancelled, WorkDone, WorkFails,
         WorkCancelled, CancelSwallowed, PersistDone, PersistCancelled, FailCancelled, UnwindDone,
         Delivered, Undisturbed
<1>4. p = "unwind" => cancel[i]
  <2>1. Kind(i) \in {"message", "resume", "shell", "inline"}
    <3>1. Begun(i) /\ i \in 1..taken
      BY TaskPhase DEF Live, Begun
    <3>. QED BY <3>1, Ranges DEF IInv, TaskInv, Begun, IsAbort, AllKinds
  <2>. QED BY <1>0, <1>2, <2>1 DEF TypeOK, To, IsMessage, Task, FirstStep, CancelledUnstarted, PreludeDone,
           PreludeCancelled, WorkDone, WorkFails, WorkCancelled, CancelSwallowed, PersistDone, PersistCancelled,
           FailCancelled, UnwindDone, Delivered, Undisturbed
<1>. QED BY <1>0, <1>2, <1>3, <1>4 DEF CancelledOnce, Live, Over

(* A task that was cancelled is awaited until it is over, and never hit by *)
(* a second cancellation while its handler records the abort.              *)
THEOREM CancellationsAreAwaited == Spec => []CancelledOnce
<1>1. Init => CancelledOnce
  BY DEF Init, CancelledOnce, Ids
<1>2. IInv /\ CancelledOnce /\ [Next]_vars => CancelledOnce'
  <2>1. ASSUME CancelledOnce, UNCHANGED vars PROVE CancelledOnce'
    BY <2>1 DEF CancelledOnce, Live, vars, loopVars, taskVars
  <2>. QED BY <2>1, CancelledLoop, CancelledTask DEF Next
<1>. QED BY <1>1, <1>2, InvariantHolds, PTL DEF Spec

(* The session never hangs with a message to serve: whoever the loop waits *)
(* for can go on or is over, whatever aborts and failures came before.     *)
THEOREM SessionIsNeverStuck == Spec => []NeverStuck
<1>1. ASSUME IInv, CancelledOnce, NEW m \in 1..Len(sub), IsMessage(m), ~Finished(m)
      PROVE  LoopCanGo \/ \E i \in Ids : TaskCanGo(i)
  <2>0. TypeOK /\ HeldInv /\ PendingInv /\ TaskInv /\ NothingDropped
    BY <1>1 DEF IInv
  <2>1. ASSUME NEW i \in Ids, Live(i), Suspended PROVE TaskCanGo(i)
    BY <1>1, <2>1 DEF CancelledOnce, TaskCanGo
  <2>2. CASE pc = "idle"
    <3>1. held = None /\ active = None
      BY <2>0, <2>2 DEF HeldInv, TaskInv
    <3>2. m \in Ids /\ taken \in Nat /\ Len(sub) \in Nat
      BY <2>0, Ranges
    <3>3. CASE m <= taken
      <4>1. Begun(m) \/ m = held \/ m \in ToSet(pending)
        BY <1>1, <2>0, <3>2, <3>3 DEF NothingDropped
      <4>2. m # held /\ ~Begun(m)
        <5>1. m # None
          BY DEF None
        <5>2. ~IsShell(m)
          BY <1>1 DEF IsMessage, IsShell
        <5>. QED BY <1>1, <2>0, <3>1, <3>2, <5>1, <5>2 DEF TaskInv, Live, Begun, Finished
      <4>3. ToSet(pending) = {} \/ pending # <<>>
        BY DEF ToSet
      <4>. QED BY <2>2, <4>1, <4>2, <4>3 DEF LoopCanGo
    <3>4. CASE ~(m <= taken)
      BY <2>2, <3>2, <3>4 DEF LoopCanGo
    <3>. QED BY <3>3, <3>4
  <2>3. CASE pc = "wait"
    <3>1. active \in Ids /\ Begun(active)
      BY <2>0, <2>3, Ranges DEF TaskInv, TypeOK, None
    <3>2. CASE \E i \in Ids : Live(i)
      BY <2>1, <2>3, <3>2 DEF Suspended
    <3>3. CASE ~\E i \in Ids : Live(i)
      <4>1. Finished(active) /\ NoUnstartedTask
        BY <3>1, <3>3 DEF Live, Begun, Finished, NoUnstartedTask, Over
      <4>. QED BY <2>3, <4>1 DEF LoopCanGo, Completed
    <3>. QED BY <3>2, <3>3
  <2>4. CASE pc = "batch"
    BY <2>0, <2>4 DEF HeldInv, LoopCanGo
  <2>5. CASE pc = "reap"
    <3>1. \A i \in aux : i \in Ids /\ (Finished(i) \/ Live(i))
      BY <2>0, Ranges DEF TaskInv, TypeOK, Live, Begun, Finished
    <3>. QED BY <2>1, <2>5, <3>1 DEF LoopCanGo, Suspended
  <2>6. CASE pc = "abort"
    <3>1. \A i \in aux \cup {active} : i \in Ids /\ (Finished(i) \/ Live(i))
      BY <2>0, <2>6, Ranges DEF TaskInv, TypeOK, Live, Begun, Finished, None
    <3>. QED BY <2>1, <2>6, <3>1 DEF LoopCanGo, Suspended
  <2>. QED BY <2>0, <2>2, <2>3, <2>4, <2>5, <2>6 DEF TypeOK
<1>2. IInv /\ CancelledOnce => NeverStuck
  BY <1>1 DEF NeverStuck
<1>. QED BY <1>2, InvariantHolds, CancellationsAreAwaited, PTL

=============================================================================
