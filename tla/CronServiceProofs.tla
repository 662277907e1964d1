-------------------------- MODULE CronServiceProofs --------------------------
(***************************************************************************)
(* Proofs about CronService for any sets of jobs, schedulers and editors   *)
(* and every bound.                                                        *)
(***************************************************************************)
EXTENDS CronService, TLAPS

(* Only a tick has jobs to run, and only a run has a job in hand. *)
IdleInv ==
  /\ \A s \in Schedulers : pc[s] # "ticking" => due[s] = {}
  /\ \A e \in Editors : pc[e] # "running" => exec[e] = NoJob

(* One-shot jobs that a scheduler means to run wait for the time that is   *)
(* set, which has not been used up unless the job is being run.            *)
RanInv ==
  /\ \A r \in ran : r[3] <= now
  /\ \A s \in Schedulers : \A j \in due[s] :
       mem[s][j].enabled /\ mem[s][j].next # 0 /\ mem[s][j].next <= now
  /\ \A s \in Schedulers : \A j \in DOMAIN mem[s] :
       mem[s][j].enabled /\ mem[s][j].next # 0 /\ mem[s][j].at # 0 =>
         /\ mem[s][j].next = mem[s][j].at
         /\ <<s, j, mem[s][j].at>> \in ran => exec[s] = j

CInv == TypeOK /\ IdleInv /\ RanInv

-----------------------------------------------------------------------------
(* Stores *)

LEMMA WithStore ==
  ASSUME NEW x, IsStore(x), NEW j \in Jobs, NEW job \in Job
  PROVE  IsStore(With(x, j, job))
BY DEF IsStore, With

LEMMA WithoutStore ==
  ASSUME NEW x, IsStore(x), NEW j
  PROVE  IsStore(Without(x, j))
BY DEF IsStore, Without

LEMMA EmptyStore == IsStore(Empty) /\ DOMAIN Empty = {}
BY DEF IsStore, Empty

LEMMA LoadStore == ASSUME TypeOK PROVE IsStore(Load)
BY EmptyStore DEF TypeOK, Load

LEMMA NextRunType ==
  ASSUME now \in 1..MaxNow, NEW at \in 0..MaxNow, NEW last \in 0..MaxNow
  PROVE  NextRun(at, last) \in Times
BY CronAssumption DEF NextRun, Times

LEMMA RecomputedStore ==
  ASSUME now \in 1..MaxNow, NEW x, IsStore(x)
  PROVE  IsStore(Recomputed(x)) /\ DOMAIN Recomputed(x) = DOMAIN x
<1>1. ASSUME NEW j \in DOMAIN x PROVE Recomputed(x)[j] \in Job
  <2>1. x[j] \in Job
    BY DEF IsStore
  <2>2. NextRun(x[j].at, x[j].last) \in Times
    BY <2>1, NextRunType DEF Job
  <2>. QED BY <2>1, <2>2 DEF Recomputed, Job
<1>2. DOMAIN Recomputed(x) = DOMAIN x /\ Recomputed(x) = [j \in DOMAIN x |-> Recomputed(x)[j]]
  BY DEF Recomputed
<1>. QED BY <1>1, <1>2 DEF IsStore

LEMMA ExecutedStore ==
  ASSUME now \in 1..MaxNow, NEW x, IsStore(x), NEW j \in DOMAIN x, NEW start \in 0..MaxNow
  PROVE  /\ IsStore(Executed(x, j, start))
         /\ \A k \in DOMAIN x \ {j} : k \in DOMAIN Executed(x, j, start) /\ Executed(x, j, start)[k] = x[k]
         /\ \A k \in DOMAIN Executed(x, j, start) :
              k # j => k \in DOMAIN x
         /\ j \in DOMAIN Executed(x, j, start) =>
              Executed(x, j, start)[j].at = 0 \/ ~Executed(x, j, start)[j].enabled
<1>1. x[j] \in Job /\ j \in Jobs
  BY DEF IsStore
<1>2. NextRun(0, 0) \in Times /\ 0 \in Times
  BY NextRunType, CronAssumption DEF Times
<1>3. CASE x[j].at = 0
  <2> DEFINE job == [x[j] EXCEPT !.last = start, !.next = NextRun(0, 0)]
  <2>1. job \in Job /\ job.at = 0
    BY <1>1, <1>2, <1>3 DEF Job
  <2>2. Executed(x, j, start) = With(x, j, job)
    BY <1>3 DEF Executed
  <2>. HIDE DEF job
  <2>. QED BY <1>1, <2>1, <2>2, WithStore DEF With
<1>4. CASE x[j].at # 0 /\ x[j].once
  BY <1>4, WithoutStore DEF Executed, Without
<1>5. CASE x[j].at # 0 /\ ~x[j].once
  <2> DEFINE job == [x[j] EXCEPT !.last = start, !.enabled = FALSE, !.next = 0]
  <2>1. job \in Job /\ ~job.enabled
    BY <1>1, <1>2 DEF Job
  <2>2. Executed(x, j, start) = With(x, j, job)
    BY <1>5 DEF Executed
  <2>. HIDE DEF job
  <2>. QED BY <1>1, <2>1, <2>2, WithStore DEF With
<1>. QED BY <1>3, <1>4, <1>5

-----------------------------------------------------------------------------
(* Types *)

LEMMA InitHolds == Init => CInv
<1> SUFFICES ASSUME Init PROVE CInv
  OBVIOUS
<1>1. TypeOK
  BY EmptyStore, CronAssumption DEF Init, TypeOK, Procs
<1>2. IdleInv /\ RanInv
  BY EmptyStore DEF Init, IdleInv, RanInv, Procs
<1>. QED BY <1>1, <1>2 DEF CInv

(* An operation of an editor leaves a store behind. *)
LEMMA EditType ==
  ASSUME TypeOK, IdleInv, NEW e \in Editors, NEW store, IsStore(store), Edit(e, store),
         used' \subseteq Jobs
  PROVE  TypeOK' /\ IdleInv'
<1>1. exec[e] = NoJob /\ e \notin Schedulers
  BY CronAssumption DEF Edit, Begins, IdleInv
<1>2. /\ DOMAIN mem' = Procs /\ \A p \in Procs : IsStore(mem'[p])
      /\ \A s \in Schedulers : mem'[s] = mem[s] /\ pc'[s] = pc[s]
  BY <1>1 DEF Edit, TypeOK, Procs
<1>3. edits' \in 0..MaxEdits /\ pc'[e] = "edited" /\ \A f \in Editors \ {e} : mem'[f] = mem[f] /\ pc'[f] = pc[f]
  BY CronAssumption DEF Edit, Begins, TypeOK, Procs
<1>. QED BY <1>1, <1>2, <1>3 DEF Edit, Begins, TypeOK, IdleInv

LEMMA TypeStep ==
  ASSUME TypeOK, IdleInv, [Next]_vars
  PROVE  TypeOK' /\ IdleInv'
<1> USE CronAssumption
<1>1. ASSUME NEW s \in Schedulers, Start(s) PROVE TypeOK' /\ IdleInv'
  <2>1. IsStore(Recomputed(Load))
    BY LoadStore, RecomputedStore DEF TypeOK
  <2>2. due[s] = {} /\ exec[s] = NoJob /\ s \notin Editors
    BY <1>1 DEF Start, IdleInv, TypeOK
  <2>3. DOMAIN mem' = Procs /\ \A p \in Procs : IsStore(mem'[p])
    BY <1>1, <2>1 DEF Start, TypeOK
  <2>4. \A p \in Procs \ {s} : mem'[p] = mem[p] /\ pc'[p] = pc[p]
    BY <1>1 DEF Start, TypeOK
  <2>5. starts' \in 0..MaxStarts
    BY <1>1 DEF Start, TypeOK
  <2>. QED BY <1>1, <2>2, <2>3, <2>4, <2>5 DEF Start, TypeOK, IdleInv, tickVars, Procs
<1>2. ASSUME NEW p \in Procs, SaveOpens(p) PROVE TypeOK' /\ IdleInv'
  BY <1>2 DEF SaveOpens, TypeOK, IdleInv, tickVars, Procs
<1>3. ASSUME NEW p \in Procs, SaveEnds(p) PROVE TypeOK' /\ IdleInv'
  <2>1. CASE p \in Schedulers
    BY <1>3, <2>1 DEF SaveEnds, Armed, TypeOK, IdleInv, tickVars, Procs
  <2>2. CASE p \notin Schedulers
    <3>1. p \in Editors /\ exec[p] = NoJob
      BY <1>3, <2>2 DEF Procs, SaveEnds, IdleInv
    <3>2. DOMAIN mem' = Procs /\ \A q \in Procs : IsStore(mem'[q])
      BY <1>3, <2>2, EmptyStore DEF SaveEnds, TypeOK
    <3>3. \A q \in Procs \ {p} : mem'[q] = mem[q] /\ pc'[q] = pc[q]
      BY <1>3, <2>2 DEF SaveEnds, TypeOK
    <3>. QED BY <1>3, <2>2, <3>1, <3>2, <3>3 DEF SaveEnds, TypeOK, IdleInv, tickVars, Procs
  <2>. QED BY <2>1, <2>2
<1>4. ASSUME NEW p \in Procs, SaveFails(p) PROVE TypeOK' /\ IdleInv'
  <2>1. /\ p \in Schedulers => due[p] = {} /\ exec[p] = NoJob
        /\ p \in Editors => exec[p] = NoJob
    BY <1>4 DEF SaveFails, IdleInv, TypeOK
  <2>2. DOMAIN mem' = Procs /\ \A q \in Procs : IsStore(mem'[q])
    BY <1>4, EmptyStore DEF SaveFails, TypeOK
  <2>3. \A q \in Procs \ {p} : mem'[q] = mem[q] /\ pc'[q] = pc[q]
    BY <1>4 DEF SaveFails, TypeOK
  <2>4. pc'[p] \in {"deaf", "down"} /\ pc' \in [Procs -> {"down", "starting", "ticking", "ticked", "writing",
                                    "saving", "armed", "idle", "deaf", "running", "edited"}]
    BY <1>4 DEF SaveFails, TypeOK
  <2>. QED BY <1>4, <2>1, <2>2, <2>3, <2>4 DEF SaveFails, TypeOK, IdleInv, tickVars, Procs
<1>5. ASSUME NEW p \in Procs, Dies(p) PROVE TypeOK' /\ IdleInv'
  <2>1. DOMAIN mem' = Procs /\ \A q \in Procs : IsStore(mem'[q])
    BY <1>5, EmptyStore DEF Dies, TypeOK
  <2>2. /\ \A q \in Procs \ {p} : mem'[q] = mem[q] /\ pc'[q] = pc[q] /\ exec'[q] = exec[q]
        /\ pc'[p] = "down" /\ exec'[p] = NoJob
    BY <1>5 DEF Dies, TypeOK
  <2>3. /\ due' \in [Schedulers -> SUBSET Jobs]
        /\ \A s \in Schedulers : due'[s] = IF s = p THEN {} ELSE due[s]
    BY <1>5 DEF Dies, TypeOK
  <2>. QED BY <1>5, <2>1, <2>2, <2>3 DEF Dies, TypeOK, IdleInv, Procs
<1>6. ASSUME NEW s \in Schedulers, Tick(s) PROVE TypeOK' /\ IdleInv'
  <2>1. Due(mem[s]) \subseteq DOMAIN mem[s] /\ DOMAIN mem[s] \subseteq Jobs /\ due[s] = {}
    BY <1>6 DEF Due, Wakes, TypeOK, IsStore, Tick, IdleInv, Procs
  <2>. QED BY <1>6, <2>1 DEF Tick, TypeOK, IdleInv, Procs
<1>7. ASSUME NEW s \in Schedulers, NEW j \in Jobs, JobStarts(s, j) PROVE TypeOK' /\ IdleInv'
  <2>1. mem[s][j].at \in 0..MaxNow
    BY <1>7 DEF JobStarts, TypeOK, IsStore, Job, Procs
  <2>2. ran' \subseteq Schedulers \X Jobs \X (0..MaxNow)
    BY <1>7, <2>1 DEF JobStarts, TypeOK
  <2>3. begun' \in [Procs -> 0..MaxNow] /\ exec' \in [Procs -> Jobs \cup {NoJob}]
    <3>1. now \in 0..MaxNow
      BY DEF TypeOK
    <3>2. begun' = [begun EXCEPT ![s] = now] /\ exec' = [exec EXCEPT ![s] = j]
      BY <1>7 DEF JobStarts
    <3>. QED BY <3>1, <3>2 DEF TypeOK
  <2>4. exec'[s] = j /\ \A q \in Procs \ {s} : exec'[q] = exec[q]
    BY <1>7 DEF JobStarts, TypeOK, Procs
  <2>. QED BY <1>7, <2>2, <2>3, <2>4 DEF JobStarts, TypeOK, IdleInv, Procs
<1>8. ASSUME NEW s \in Schedulers, JobEnds(s) PROVE TypeOK' /\ IdleInv'
  <2>1. exec[s] \in due[s] /\ exec[s] \in DOMAIN mem[s]
    BY <1>8 DEF JobEnds, TypeOK
  <2> DEFINE x == Executed(mem[s], exec[s], begun[s])
  <2>2. IsStore(x) /\ \A k \in DOMAIN mem[s] \ {exec[s]} : k \in DOMAIN x
    BY <2>1, ExecutedStore DEF TypeOK, Procs
  <2>3. DOMAIN mem' = Procs /\ mem'[s] = x /\ \A q \in Procs \ {s} : mem'[q] = mem[q] /\ pc'[q] = pc[q] /\ exec'[q] = exec[q]
    BY <1>8 DEF JobEnds, TypeOK, Procs
  <2>. HIDE DEF x
  <2>4. \A q \in Procs : IsStore(mem'[q])
    BY <2>2, <2>3 DEF TypeOK
  <2>5. /\ due' \in [Schedulers -> SUBSET Jobs] /\ due'[s] = due[s] \ {exec[s]}
        /\ \A t \in Schedulers \ {s} : due'[t] = due[t]
    BY <1>8 DEF JobEnds, TypeOK
  <2>6. due'[s] \subseteq DOMAIN mem'[s]
    BY <2>2, <2>3, <2>5 DEF TypeOK
  <2>7. /\ exec' \in [Procs -> Jobs \cup {NoJob}] /\ begun' \in [Procs -> 0..MaxNow] /\ exec'[s] = NoJob
        /\ pc' \in [Procs -> {"down", "starting", "ticking", "ticked", "writing",
                              "saving", "armed", "idle", "deaf", "running", "edited"}]
        /\ pc'[s] # "ticking" => due'[s] = {}
    BY <1>8, <2>1, <2>5 DEF JobEnds, TypeOK, Procs
  <2>8. s \notin Editors
    OBVIOUS
  <2>9. TypeOK'
    BY <1>8, <2>3, <2>4, <2>5, <2>6, <2>7, <2>8 DEF JobEnds, TypeOK, Procs
  <2>10. IdleInv'
    BY <2>3, <2>5, <2>7, <2>8 DEF IdleInv, Procs
  <2>. QED BY <2>9, <2>10
<1>9. ASSUME NEW e \in Editors, Add(e) PROVE TypeOK' /\ IdleInv'
  <2> DEFINE j == FreshId
  <2>1. PICK at \in 0..MaxNow, once \in BOOLEAN :
          used # Jobs /\ used' = used \cup {j} /\ Edit(e, AddJob(j, at, once))
    BY <1>9 DEF Add
  <2>5. j \in Jobs
    <3>1. \E k \in Jobs : k \notin used
      BY <2>1 DEF TypeOK
    <3>. QED BY <3>1 DEF FreshId
  <2>. HIDE DEF j
  <2>2. NextRun(at, 0) \in Times
    BY NextRunType DEF TypeOK
  <2>3. [at |-> at, once |-> once, enabled |-> TRUE, next |-> NextRun(at, 0), last |-> 0] \in Job
    BY <2>2 DEF Job
  <2>4. IsStore(AddJob(j, at, once))
    BY <2>3, <2>5, LoadStore, WithStore DEF AddJob
  <2>. QED BY <2>1, <2>4, <2>5, EditType DEF TypeOK
<1>10. ASSUME NEW e \in Editors, Update(e) PROVE TypeOK' /\ IdleInv'
  <2>1. used' \subseteq Jobs
    BY <1>10 DEF Update, TypeOK
  <2>2. CASE Edit(e, Load)
    BY <2>1, <2>2, LoadStore, EditType
  <2>3. ASSUME NEW j \in DOMAIN Load, NEW at \in 0..MaxNow, Edit(e, UpdateJob(j, at))
        PROVE  TypeOK' /\ IdleInv'
    <3>1. NextRun(at, 0) \in Times /\ j \in Jobs /\ Load[j] \in Job
      BY NextRunType, LoadStore DEF TypeOK, IsStore
    <3>2. IsStore(UpdateJob(j, at))
      BY <3>1, LoadStore, WithStore DEF UpdateJob, Job
    <3>. QED BY <2>1, <2>3, <3>2, EditType
  <2>. QED BY <1>10, <2>2, <2>3 DEF Update
<1>11. ASSUME NEW e \in Editors, Enable(e) PROVE TypeOK' /\ IdleInv'
  <2>1. PICK j \in DOMAIN Load, enabled \in BOOLEAN : Edit(e, EnableJob(j, enabled)) /\ used' = used
    BY <1>11 DEF Enable
  <2>2. j \in Jobs /\ Load[j] \in Job
    BY LoadStore DEF IsStore
  <2>3. NextRun(Load[j].at, 0) \in Times /\ 0 \in Times
    BY <2>2, NextRunType DEF TypeOK, Job, Times
  <2>4. IsStore(EnableJob(j, enabled))
    BY <2>2, <2>3, LoadStore, WithStore DEF EnableJob, Job
  <2>. QED BY <2>1, <2>4, EditType DEF TypeOK
<1>12. ASSUME NEW e \in Editors, Remove(e) PROVE TypeOK' /\ IdleInv'
  <2>1. PICK j \in DOMAIN Load : Edit(e, Without(Load, j)) /\ used' = used
    BY <1>12 DEF Remove
  <2>. QED BY <2>1, LoadStore, WithoutStore, EditType DEF TypeOK
<1>13. ASSUME NEW e \in Editors, RunJob(e) PROVE TypeOK' /\ IdleInv'
  <2>1. PICK j \in DOMAIN Load :
          /\ Begins(e) /\ mem' = [mem EXCEPT ![e] = Load] /\ exec' = [exec EXCEPT ![e] = j]
          /\ begun' = [begun EXCEPT ![e] = now] /\ pc' = [pc EXCEPT ![e] = "running"] /\ used' = used
    BY <1>13 DEF RunJob
  <2>2. IsStore(Load) /\ j \in Jobs /\ e \notin Schedulers /\ edits' \in 0..MaxEdits
    BY <2>1, LoadStore DEF IsStore, Begins, TypeOK
  <2>3. DOMAIN mem' = Procs /\ \A p \in Procs : IsStore(mem'[p])
    BY <2>1, <2>2 DEF TypeOK
  <2>4. /\ \A p \in Procs \ {e} : mem'[p] = mem[p] /\ exec'[p] = exec[p] /\ pc'[p] = pc[p]
        /\ mem'[e] = Load /\ exec'[e] = j /\ pc'[e] = "running"
    BY <2>1 DEF TypeOK, Procs
  <2>. QED BY <2>1, <2>2, <2>3, <2>4 DEF Begins, TypeOK, IdleInv, Procs
<1>14. ASSUME NEW e \in Editors, RunEnds(e) PROVE TypeOK' /\ IdleInv'
  <2>1. exec[e] \in DOMAIN mem[e] /\ e \notin Schedulers
    BY <1>14 DEF RunEnds, TypeOK
  <2>2. IsStore(Executed(mem[e], exec[e], begun[e]))
    BY <2>1, ExecutedStore DEF TypeOK, Procs
  <2>3. DOMAIN mem' = Procs /\ \A p \in Procs : IsStore(mem'[p])
    BY <1>14, <2>2 DEF RunEnds, TypeOK
  <2>4. /\ \A p \in Procs \ {e} : mem'[p] = mem[p] /\ exec'[p] = exec[p] /\ pc'[p] = pc[p]
        /\ exec'[e] = NoJob /\ pc'[e] = "edited"
    BY <1>14 DEF RunEnds, TypeOK, Procs
  <2>. QED BY <1>14, <2>1, <2>3, <2>4 DEF RunEnds, TypeOK, IdleInv, Procs
<1>15. CASE Passes
  BY <1>15 DEF Passes, TypeOK, IdleInv, tickVars
<1>16. CASE UNCHANGED vars
  BY <1>16 DEF vars, tickVars, TypeOK, IdleInv
<1>17. ASSUME NEW s \in Schedulers, TickEarly(s) PROVE TypeOK' /\ IdleInv'
  <2>1. due[s] = {} /\ s \notin Editors
    BY <1>17 DEF TickEarly, IdleInv
  <2>2. pc'[s] = "ticked" /\ \A p \in Procs \ {s} : pc'[p] = pc[p]
    BY <1>17 DEF TickEarly, TypeOK, Procs
  <2>. QED BY <1>17, <2>1, <2>2 DEF TickEarly, TypeOK, IdleInv, tickVars, Procs
<1>. QED BY <1>17, <1>1, <1>2, <1>3, <1>4, <1>5, <1>6, <1>7, <1>8, <1>9, <1>10, <1>11, <1>12, <1>13, <1>14, <1>15, <1>16
         DEF Next, Works, Procs

-----------------------------------------------------------------------------
(* What has been run *)

(* Starting takes only times to come into memory, and the end of a job     *)
(* takes its time out of it.                                               *)
LEMMA RanStep ==
  ASSUME CInv, TypeOK', IdleInv', [Next]_vars
  PROVE  RanInv'
<1> USE CronAssumption DEF CInv
<1>1. ASSUME NEW s \in Schedulers, Start(s) PROVE RanInv'
  <2>1. due[s] = {} /\ mem'[s] = Recomputed(Load)
    BY <1>1 DEF Start, IdleInv, TypeOK, Procs
  <2>2. \A t \in Schedulers \ {s} : mem'[t] = mem[t]
    BY <1>1 DEF Start, TypeOK, Procs
  <2>3. ASSUME NEW j \in DOMAIN mem'[s], mem'[s][j].enabled, mem'[s][j].next # 0, mem'[s][j].at # 0
        PROVE  mem'[s][j].next = mem'[s][j].at /\ <<s, j, mem'[s][j].at>> \notin ran
    <3>1. j \in DOMAIN Load /\ Load[j] \in Job
      BY <2>1, LoadStore, RecomputedStore DEF TypeOK, IsStore
    <3>2. mem'[s][j] = [Load[j] EXCEPT !.next = NextRun(Load[j].at, Load[j].last)]
      BY <2>1, <2>3, <3>1 DEF Recomputed
    <3>3. mem'[s][j].at = Load[j].at /\ mem'[s][j].next = NextRun(Load[j].at, Load[j].last)
      BY <3>1, <3>2 DEF Job
    <3>4. mem'[s][j].next = mem'[s][j].at /\ mem'[s][j].at > now
      BY <2>3, <3>3 DEF NextRun
    <3>. QED BY <3>4 DEF RanInv, TypeOK
  <2>. QED BY <1>1, <2>1, <2>2, <2>3 DEF Start, RanInv, tickVars
<1>2. ASSUME NEW p \in Procs, SaveOpens(p) \/ SaveEnds(p) \/ SaveFails(p) PROVE RanInv'
  <2>1. now' = now /\ UNCHANGED tickVars
    BY <1>2 DEF SaveOpens, SaveEnds, SaveFails
  <2>2. \A s \in Schedulers : mem'[s] = mem[s] \/ (mem'[s] = Empty /\ due[s] = {})
    BY <1>2 DEF SaveOpens, SaveEnds, SaveFails, TypeOK, IdleInv, Procs
  <2>. QED BY <2>1, <2>2, EmptyStore DEF RanInv, tickVars
<1>3. ASSUME NEW p \in Procs, Dies(p) PROVE RanInv'
  <2>1. /\ now' = now /\ ran' = ran
        /\ \A s \in Schedulers \ {p} : mem'[s] = mem[s] /\ due'[s] = due[s] /\ exec'[s] = exec[s]
        /\ p \in Schedulers => mem'[p] = Empty /\ due'[p] = {}
    BY <1>3 DEF Dies, TypeOK, Procs
  <2>. QED BY <2>1, EmptyStore DEF RanInv
<1>4. ASSUME NEW s \in Schedulers, Tick(s) PROVE RanInv'
  <2>1. /\ UNCHANGED <<now, mem, exec, ran>> /\ due'[s] = Due(mem[s])
        /\ \A t \in Schedulers \ {s} : due'[t] = due[t]
    BY <1>4 DEF Tick, TypeOK
  <2>2. \A j \in Due(mem[s]) : mem[s][j].enabled /\ mem[s][j].next # 0 /\ mem[s][j].next <= now
    BY DEF Due, Wakes, TypeOK, IsStore, Job, Times, Procs
  <2>. QED BY <2>1, <2>2 DEF RanInv
<1>5. ASSUME NEW s \in Schedulers, NEW j \in Jobs, JobStarts(s, j) PROVE RanInv'
  <2>1. /\ UNCHANGED <<now, mem, due>> /\ j \in due[s] /\ exec[s] = NoJob /\ exec'[s] = j
        /\ \A t \in Schedulers \ {s} : exec'[t] = exec[t]
    BY <1>5 DEF JobStarts, TypeOK, Procs
  <2>2. j \in DOMAIN mem[s]
    BY <2>1 DEF TypeOK
  <2>3. mem[s][j].at # 0 => mem[s][j].at <= now
    BY <2>1, <2>2 DEF RanInv
  <2>4. ran' = ran \/ (ran' = ran \cup {<<s, j, mem[s][j].at>>} /\ mem[s][j].at # 0)
    BY <1>5 DEF JobStarts
  <2>5. \A r \in ran' : r[3] <= now
    BY <2>3, <2>4 DEF RanInv
  <2>6. \A t \in Schedulers : exec[t] # NoJob => exec'[t] = exec[t]
    BY <2>1
  <2>7. ASSUME NEW t \in Schedulers, NEW k \in DOMAIN mem[t], mem[t][k].enabled, mem[t][k].next # 0,
               mem[t][k].at # 0, <<t, k, mem[t][k].at>> \in ran'
        PROVE  exec'[t] = k
    <3>1. CASE <<t, k, mem[t][k].at>> \in ran
      <4>1. exec[t] = k /\ k # NoJob
        BY <2>7, <3>1 DEF RanInv, TypeOK, IsStore, Procs
      <4>. QED BY <4>1, <2>6
    <3>2. CASE <<t, k, mem[t][k].at>> = <<s, j, mem[s][j].at>>
      BY <2>1, <3>2
    <3>. QED BY <2>4, <2>7, <3>1, <3>2
  <2>. QED BY <2>1, <2>5, <2>7 DEF RanInv
<1>6. ASSUME NEW s \in Schedulers, JobEnds(s) PROVE RanInv'
  <2> DEFINE j == exec[s]
             x == Executed(mem[s], j, begun[s])
  <2>1. j \in due[s] /\ j \in DOMAIN mem[s] /\ IsStore(mem[s]) /\ begun[s] \in 0..MaxNow
    BY <1>6 DEF JobEnds, TypeOK, Procs
  <2>2. /\ \A k \in DOMAIN mem[s] \ {j} : x[k] = mem[s][k]
        /\ \A k \in DOMAIN x : k # j => k \in DOMAIN mem[s]
        /\ j \in DOMAIN x => x[j].at = 0 \/ ~x[j].enabled
    BY <2>1, ExecutedStore DEF TypeOK
  <2>3. /\ now' = now /\ ran' = ran /\ mem'[s] = x /\ due'[s] = due[s] \ {j}
        /\ \A t \in Schedulers \ {s} : mem'[t] = mem[t] /\ due'[t] = due[t] /\ exec'[t] = exec[t]
    BY <1>6 DEF JobEnds, TypeOK, Procs
  <2>. HIDE DEF x
  <2>4. \A k \in due'[s] : mem'[s][k] = mem[s][k] /\ k \in due[s]
    BY <2>2, <2>3 DEF TypeOK
  <2>5. \A k \in DOMAIN x :
          x[k].enabled /\ x[k].next # 0 /\ x[k].at # 0 =>
            x[k].next = x[k].at /\ <<s, k, x[k].at>> \notin ran
    BY <2>2 DEF RanInv
  <2>. QED BY <2>3, <2>4, <2>5 DEF RanInv
<1>7. ASSUME NEW e \in Editors, Add(e) \/ Update(e) \/ Enable(e) \/ Remove(e) \/ RunJob(e) \/ RunEnds(e)
      PROVE  RanInv'
  <2>1. UNCHANGED <<now, due, ran>> /\ \A s \in Schedulers : mem'[s] = mem[s] /\ exec'[s] = exec[s]
    BY <1>7 DEF Add, Update, Enable, Remove, RunJob, RunEnds, Edit, Begins, TypeOK, Procs
  <2>. QED BY <2>1 DEF RanInv
<1>8. CASE Passes
  <2>1. now' >= now /\ UNCHANGED <<mem, tickVars>> /\ now' \in Nat /\ now \in Nat
    BY <1>8 DEF Passes, TypeOK
  <2>2. \A r \in ran : r[3] \in Nat
    BY DEF TypeOK
  <2>3. \A s \in Schedulers : \A j \in due[s] : mem[s][j].next \in Nat
    BY DEF TypeOK, IsStore, Job, Times, Procs
  <2>4. /\ \A r \in ran' : r[3] <= now'
        /\ \A s \in Schedulers : \A j \in due'[s] : mem[s][j].next <= now'
    BY <2>1, <2>2, <2>3 DEF RanInv, tickVars
  <2>. QED BY <2>1, <2>4 DEF RanInv, tickVars
<1>9. CASE UNCHANGED vars
  BY <1>9 DEF vars, tickVars, RanInv
<1>10. ASSUME NEW s \in Schedulers, TickEarly(s) PROVE RanInv'
  BY <1>10 DEF TickEarly, RanInv, tickVars
<1>. QED BY <1>10, <1>1, <1>2, <1>3, <1>4, <1>5, <1>6, <1>7, <1>8, <1>9 DEF Next, Works, Procs

-----------------------------------------------------------------------------
(* Theorems *)

(* The strengthened invariant is inductive. *)
THEOREM InvariantHolds == Spec => []CInv
<1>1. CInv /\ [Next]_vars => CInv'
  BY TypeStep, RanStep DEF CInv
<1>. QED BY InitHolds, <1>1, PTL DEF Spec

(* Every variable keeps its type; a scheduler runs a job of its tick.      *)
THEOREM TypeCorrect == Spec => []TypeOK
<1>1. CInv => TypeOK
  BY DEF CInv
<1>. QED BY InvariantHolds, <1>1, PTL

(* No scheduler runs a one-shot job twice for the same time.               *)
THEOREM OneShotsAreRunOnce == Spec => OneShotOnce
<1>1. CInv /\ [Next]_vars =>
        [\A s \in Schedulers, j \in Jobs :
           exec[s] # j /\ exec'[s] = j /\ mem[s][j].at # 0 => <<s, j, mem[s][j].at>> \notin ran]_vars
  <2> SUFFICES ASSUME CInv, [Next]_vars, NEW s \in Schedulers, NEW j \in Jobs,
                      exec[s] # j, exec'[s] = j, mem[s][j].at # 0
               PROVE  <<s, j, mem[s][j].at>> \notin ran
    OBVIOUS
  <2>1. JobStarts(s, j)
    <3>1. j # NoJob /\ s \notin Editors
      BY CronAssumption
    <3>2. exec \in [Procs -> Jobs \cup {NoJob}]
      BY DEF CInv, TypeOK
    <3>3. \A t \in Schedulers, k \in Jobs : JobStarts(t, k) => t = s /\ k = j
      BY <3>1, <3>2 DEF JobStarts, Procs
    <3>4. \A e \in Editors : ~(Add(e) \/ Update(e) \/ Enable(e) \/ Remove(e) \/ RunJob(e) \/ RunEnds(e))
      BY <3>1, <3>2 DEF Add, Update, Enable, Remove, RunJob, RunEnds, Edit, Procs
    <3>5. /\ \A t \in Schedulers : ~(Start(t) \/ TickEarly(t) \/ Tick(t) \/ JobEnds(t))
          /\ \A p \in Procs : ~(SaveOpens(p) \/ SaveEnds(p) \/ SaveFails(p) \/ Dies(p))
          /\ ~Passes /\ ~(UNCHANGED vars)
      BY <3>1, <3>2 DEF Start, TickEarly, Tick, JobEnds, SaveOpens, SaveEnds, SaveFails, Dies, Passes,
                         vars, tickVars, Procs
    <3>. QED BY <3>3, <3>4, <3>5 DEF Next, Works, Procs
  <2>2. j \in due[s] /\ j \in DOMAIN mem[s]
    BY <2>1 DEF JobStarts, CInv, TypeOK
  <2>3. mem[s][j].enabled /\ mem[s][j].next # 0
    BY <2>2 DEF CInv, RanInv
  <2>. QED BY <2>2, <2>3 DEF CInv, RanInv
<1>. QED BY InvariantHolds, <1>1, PTL DEF Spec, OneShotOnce
-----------------------------------------------------------------------------
(* Why due jobs run *)

(* A scheduler that rests has nothing to wake up for, and a tick something *)
(* to run.                                                                 *)
ArmInv ==
  \A s \in Schedulers :
    /\ pc[s] = "down" => mem[s] = Empty
    /\ pc[s] = "idle" => Wakes(mem[s]) = {}
    /\ pc[s] = "ticking" => due[s] # {}
    /\ pc[s] \notin {"running", "edited"}

(* What an editor does is nothing to a scheduler.                          *)
LEMMA EditorsKeep ==
  ASSUME TypeOK, NEW e \in Editors, NEW s \in Schedulers,
         \/ Add(e) \/ Update(e) \/ Enable(e) \/ Remove(e) \/ RunJob(e) \/ RunEnds(e)
         \/ SaveOpens(e) \/ SaveEnds(e) \/ SaveFails(e) \/ Dies(e)
  PROVE  mem'[s] = mem[s] /\ pc'[s] = pc[s] /\ due'[s] = due[s] /\ now' = now
<1>1. e # s
  BY CronAssumption
<1>. QED BY <1>1 DEF Add, Update, Enable, Remove, RunJob, RunEnds, Edit, Begins, SaveOpens, SaveEnds, SaveFails,
               Dies, TypeOK, tickVars, Procs

(* A step as one scheduler sees it: its own, or nothing but time.          *)
LEMMA SchedulerCases ==
  ASSUME TypeOK, [Next]_vars, NEW s \in Schedulers, NEW P,
         (mem'[s] = mem[s] /\ pc'[s] = pc[s] /\ due'[s] = due[s] /\ now' \in {now, now + 1}) => P,
         Start(s) => P, SaveOpens(s) => P, SaveEnds(s) => P, SaveFails(s) => P, Dies(s) => P,
         Tick(s) => P, TickEarly(s) => P, \A j \in Jobs : JobStarts(s, j) => P, JobEnds(s) => P
  PROVE  P
<1> DEFINE Apart == mem'[s] = mem[s] /\ pc'[s] = pc[s] /\ due'[s] = due[s] /\ now' \in {now, now + 1}
<1>1. ASSUME NEW e \in Editors,
             \/ Add(e) \/ Update(e) \/ Enable(e) \/ Remove(e) \/ RunJob(e) \/ RunEnds(e)
             \/ SaveOpens(e) \/ SaveEnds(e) \/ SaveFails(e) \/ Dies(e)
      PROVE  Apart
  BY <1>1, EditorsKeep
<1>2. ASSUME NEW t \in Schedulers, t # s,
             \/ Start(t) \/ SaveOpens(t) \/ SaveEnds(t) \/ SaveFails(t) \/ Dies(t)
             \/ Tick(t) \/ TickEarly(t) \/ JobEnds(t) \/ \E j \in Jobs : JobStarts(t, j)
      PROVE  Apart
  BY <1>2 DEF Start, SaveOpens, SaveEnds, SaveFails, Dies, Tick, TickEarly, JobEnds, JobStarts,
                tickVars, TypeOK, Procs
<1>3. CASE Passes
  BY <1>3 DEF Passes, tickVars
<1>4. CASE UNCHANGED vars
  BY <1>4 DEF vars, tickVars
<1> HIDE DEF Apart
<1>5. Apart => P
  BY DEF Apart
<1>. QED BY <1>1, <1>2, <1>3, <1>4, <1>5 DEF Next, Works, Procs

LEMMA ArmStep ==
  ASSUME TypeOK, IdleInv, ArmInv, [Next]_vars
  PROVE  ArmInv'
<1> SUFFICES ASSUME NEW s \in Schedulers
             PROVE  /\ pc'[s] = "down" => mem'[s] = Empty
                    /\ pc'[s] = "idle" => Wakes(mem'[s]) = {}
                    /\ pc'[s] = "ticking" => due'[s] # {}
                    /\ pc'[s] \notin {"running", "edited"}
  BY DEF ArmInv, Wakes
<1> DEFINE P == /\ pc'[s] = "down" => mem'[s] = Empty
                /\ pc'[s] = "idle" => Wakes(mem'[s]) = {}
                /\ pc'[s] = "ticking" => due'[s] # {}
                /\ pc'[s] \notin {"running", "edited"}
<1> USE DEF TypeOK, Procs
<1>1. (mem'[s] = mem[s] /\ pc'[s] = pc[s] /\ due'[s] = due[s]) => P
  BY DEF ArmInv
<1>2. Start(s) \/ SaveOpens(s) \/ SaveFails(s) \/ Dies(s) => P
  BY DEF Start, SaveOpens, SaveFails, Dies
<1>3. SaveEnds(s) => P
  BY DEF SaveEnds, Armed
<1>4. Tick(s) \/ TickEarly(s) => P
  BY DEF Tick, TickEarly
<1>5. \A j \in Jobs : JobStarts(s, j) => P
  BY DEF JobStarts, ArmInv
<1>6. ASSUME JobEnds(s) PROVE P
  <2>1. /\ due'[s] = due[s] \ {exec[s]} /\ exec[s] \in due[s]
        /\ pc'[s] = IF due[s] = {exec[s]} THEN "ticked" ELSE "ticking"
    BY <1>6 DEF JobEnds
  <2>. QED BY <2>1
<1> HIDE DEF P
<1>7. P
  BY <1>1, <1>2, <1>3, <1>4, <1>5, <1>6, SchedulerCases
<1>. QED BY <1>7 DEF P

(* A job that is due always finds its scheduler with a step to take, be it *)
(* late, in a tick or between two of them.                                 *)
THEOREM NoTimerIsLost == Spec => []TimerStands
<1>1. Init => ArmInv
  BY DEF Init, ArmInv, Procs
<1>2. CInv /\ ArmInv /\ [Next]_vars => ArmInv'
  BY ArmStep DEF CInv
<1>3. TypeOK /\ ArmInv => TimerStands
  <2> SUFFICES ASSUME TypeOK, ArmInv, NEW s \in Schedulers, Due(mem[s]) # {}
               PROVE  CanWork(s) \/ pc[s] = "deaf"
    BY DEF TimerStands
  <2>1. pc[s] \notin {"down", "idle"}
    BY EmptyStore DEF ArmInv, Due, Wakes
  <2>. QED BY <2>1 DEF ArmInv, CanWork, TypeOK, Procs
<1>. QED BY <1>1, <1>2, <1>3, InvariantHolds, TypeCorrect, PTL DEF Spec

(* No due job is dropped on the way through a tick, and a tick ends: it    *)
(* takes in nothing more until it is through.                              *)
THEOREM DueJobsStay == Spec => DueIsKept
<1> DEFINE A(s) ==
       pc'[s] # "down" =>
         /\ \A j \in Due(mem[s]) : exec[s] = j \/ j \in Due(mem[s])'
         /\ \A j \in due[s] : exec[s] = j \/ j \in due'[s]
         /\ due[s] = {} /\ due'[s] # {} => due'[s] = Due(mem[s])
         /\ due[s] # {} => due'[s] \subseteq due[s]
<1>1. CInv /\ ArmInv /\ [Next]_vars => \A s \in Schedulers : A(s)
  <2> SUFFICES ASSUME CInv, ArmInv, [Next]_vars, NEW s \in Schedulers PROVE A(s)
    OBVIOUS
  <2> USE DEF TypeOK, Procs, CInv
  <2>1. \A j \in Wakes(mem[s]) : mem[s][j].next \in Nat
    BY DEF Wakes, IsStore, Job, Times
  <2>2. now \in Nat
    OBVIOUS
  <2>3. mem'[s] = mem[s] /\ now' \in {now, now + 1} => \A j \in Due(mem[s]) : j \in Due(mem[s])'
    BY <2>1, <2>2 DEF Due, Wakes
  <2>4. (mem'[s] = mem[s] /\ pc'[s] = pc[s] /\ due'[s] = due[s] /\ now' \in {now, now + 1}) => A(s)
    BY <2>3
  <2>5. Start(s) => A(s)
    <3>1. Start(s) => Due(mem[s]) = {} /\ due[s] = {} /\ due'[s] = {}
      BY EmptyStore DEF Start, ArmInv, IdleInv, Due, Wakes, tickVars
    <3>. QED BY <3>1
  <2>6. SaveOpens(s) \/ SaveEnds(s) => A(s)
    BY <2>3 DEF SaveOpens, SaveEnds, tickVars
  <2>7. SaveFails(s) => A(s)
    BY <2>3 DEF SaveFails, tickVars
  <2>8. Dies(s) => A(s)
    BY DEF Dies
  <2>9. Tick(s) => A(s)
    BY <2>3 DEF Tick, IdleInv
  <2>12. TickEarly(s) => A(s)
    BY <2>3 DEF TickEarly, tickVars
  <2>10. ASSUME NEW j \in Jobs, JobStarts(s, j) PROVE A(s)
    BY <2>3, <2>10 DEF JobStarts
  <2>11. ASSUME JobEnds(s) PROVE A(s)
    <3> DEFINE x == Executed(mem[s], exec[s], begun[s])
    <3>1. exec[s] \in due[s] /\ exec[s] \in DOMAIN mem[s]
      BY <2>11 DEF JobEnds
    <3>2. mem'[s] = x /\ now' = now /\ due'[s] = due[s] \ {exec[s]}
      BY <2>11 DEF JobEnds
    <3>3. \A k \in DOMAIN mem[s] \ {exec[s]} : k \in DOMAIN x /\ x[k] = mem[s][k]
      BY <3>1, ExecutedStore
    <3> HIDE DEF x
    <3>4. \A j \in Due(mem[s]) : exec[s] = j \/ j \in Due(mem[s])'
      BY <3>2, <3>3 DEF Due, Wakes
    <3>. QED BY <3>1, <3>2, <3>4
  <2> HIDE DEF A
  <2>. QED BY <2>4, <2>5, <2>6, <2>7, <2>8, <2>9, <2>10, <2>11, <2>12, SchedulerCases
<1>2. Init => ArmInv
  BY DEF Init, ArmInv, Procs
<1>3. CInv /\ ArmInv /\ [Next]_vars => ArmInv'
  BY ArmStep DEF CInv
<1>4. CInv /\ ArmInv /\ [Next]_vars => [\A s \in Schedulers : A(s)]_vars
  BY <1>1
<1>. QED BY <1>2, <1>3, <1>4, InvariantHolds, PTL DEF Spec, DueIsKept
=============================================================================
