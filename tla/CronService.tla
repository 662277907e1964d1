----------------------------- MODULE CronService -----------------------------
(***************************************************************************)
(* The scheduled jobs: several instances of CronService over one jobs.json *)
(* that nothing locks.  A scheduler (the gateway, an interactive agent)    *)
(* reads the file once, when it starts, keeps the jobs in memory, runs     *)
(* those that are due and writes all of them back.  An editor (a cron.*    *)
(* handler of the desktop, a "miqi cron" command) is an instance that      *)
(* lives for one operation: it reads the file, changes a job and writes    *)
(* the file.                                                               *)
(*                                                                         *)
(* A job is its schedule and its state.  Time is counted in units; 0       *)
(* stands for None.  A recurring job ("every" or "cron") has a period of   *)
(* Every units.  Names, messages, delivery and results are left out.       *)
(***************************************************************************)
EXTENDS Naturals, FiniteSets

CONSTANTS Jobs,        \* the ids that uuid4 will give
          Schedulers,  \* the processes that call start()
          Editors,     \* the others
          Every,       \* the period of the recurring jobs
          MaxNow,      \* bound on the clock
          MaxEdits,    \* bound on the operations of the editors
          MaxStarts,   \* bound on the starts of the schedulers
          NoJob,       \* "no job is being run"
          Torn         \* what write_text leaves between truncating and writing

ASSUME CronAssumption ==
  /\ Every \in Nat \ {0} /\ MaxNow \in Nat \ {0}
  /\ MaxEdits \in Nat /\ MaxStarts \in Nat
  /\ Schedulers \cap Editors = {} /\ NoJob \notin Jobs

Procs == Schedulers \cup Editors
Times == 0..(MaxNow + Every)

(* at is 0 for a recurring job; once is delete_after_run.                  *)
Job == [at : 0..MaxNow, once : BOOLEAN, enabled : BOOLEAN, next : Times, last : 0..MaxNow]
IsStore(x) == DOMAIN x \subseteq Jobs /\ x \in [DOMAIN x -> Job]
Empty == [j \in {} |-> NoJob]

VARIABLES
  now,     \* the clock
  file,    \* jobs.json
  mem,     \* _store of each instance, Empty when there is no instance
  pc,      \* where each instance is
  due,     \* due_jobs of the tick of each scheduler, those not yet run
  exec,    \* the job each instance is executing
  begun,   \* start_ms of that job
  used,    \* ids given so far
  edits,   \* operations of the editors
  starts,  \* starts of the schedulers
  ran      \* history: the times at which a scheduler ran one-shot jobs

tickVars == <<due, exec, begun, ran>>
vars == <<now, file, mem, pc, tickVars, used, edits, starts>>

Init ==
  /\ now = 1 /\ file = Empty
  /\ mem = [p \in Procs |-> Empty] /\ pc = [p \in Procs |-> "down"]
  /\ due = [s \in Schedulers |-> {}]
  /\ exec = [p \in Procs |-> NoJob] /\ begun = [p \in Procs |-> 0]
  /\ used = {} /\ edits = 0 /\ starts = 0 /\ ran = {}

-----------------------------------------------------------------------------
(* Helpers *)

(* _compute_next_run *)
NextRun(at, last) ==
  IF at # 0 THEN (IF at > now THEN at ELSE 0)
  ELSE IF last # 0 /\ last + Every > now THEN last + Every
  ELSE now + Every

(* _load_store: a file that cannot be parsed is an empty one. *)
Load == IF file = Torn THEN Empty ELSE file

Without(store, j) == [k \in DOMAIN store \ {j} |-> store[k]]
With(store, j, job) == [k \in DOMAIN store \cup {j} |-> IF k = j THEN job ELSE store[k]]

(* Mutant: a next run that is stored is trusted. *)
RecomputedIfMissing(store) ==
  [j \in DOMAIN store |->
     IF store[j].enabled /\ store[j].next = 0
     THEN [store[j] EXCEPT !.next = NextRun(store[j].at, store[j].last)]
     ELSE store[j]]

(* _recompute_next_runs *)
Recomputed(store) ==
  [j \in DOMAIN store |->
     IF store[j].enabled
     THEN [store[j] EXCEPT !.next = NextRun(store[j].at, store[j].last)]
     ELSE store[j]]

(* The end of _execute_job, for a job that began at "start". *)
Executed(store, j, start) ==
  LET job == store[j] IN
  IF job.at = 0 THEN With(store, j, [job EXCEPT !.last = start, !.next = NextRun(0, 0)])
  ELSE IF job.once THEN Without(store, j)
  ELSE With(store, j, [job EXCEPT !.last = start, !.enabled = FALSE, !.next = 0])

Wakes(store) == { j \in DOMAIN store : store[j].enabled /\ store[j].next # 0 }
Due(store) == { j \in Wakes(store) : now >= store[j].next }

(* Mutant: a wake-up time that has passed arms no timer. *)
ArmedIfFuture(store) == IF \E j \in Wakes(store) : store[j].next > now THEN "armed" ELSE "idle"

(* _arm_timer: the timer is set to the earliest next run, if there is one. *)
Armed(store) == IF Wakes(store) # {} THEN "armed" ELSE "idle"

-----------------------------------------------------------------------------
(* _save_store: write_text truncates the file before it writes; "saving"   *)
(* is the write at the end of a tick                                       *)

SaveOpens(p) ==
  /\ pc[p] \in {"starting", "ticked", "edited"}
  /\ file' = Torn
  /\ pc' = [pc EXCEPT ![p] = IF @ = "ticked" THEN "saving" ELSE "writing"]
  /\ UNCHANGED <<now, mem, tickVars, used, edits, starts>>

SaveEnds(p) ==
  /\ pc[p] \in {"writing", "saving"}
  /\ file' = mem[p]
  /\ IF p \in Schedulers
     THEN /\ pc' = [pc EXCEPT ![p] = Armed(mem[p])] /\ UNCHANGED mem
     ELSE /\ pc' = [pc EXCEPT ![p] = "down"] /\ mem' = [mem EXCEPT ![p] = Empty]
  /\ UNCHANGED <<now, tickVars, used, edits, starts>>

(* The file cannot be opened or the write fails: the tick is over without  *)
(* a new timer; a start or an edit fails.                                  *)
SaveFails(p) ==
  /\ \/ /\ pc[p] \in {"ticked", "saving"}
        /\ pc' = [pc EXCEPT ![p] = "deaf"] /\ UNCHANGED mem
     \/ /\ pc[p] \in {"starting", "edited", "writing"}
        /\ pc' = [pc EXCEPT ![p] = "down"] /\ mem' = [mem EXCEPT ![p] = Empty]
  /\ UNCHANGED <<now, file, tickVars, used, edits, starts>>

(* A process dies, or cron.stop() cancels the timer: nothing is saved.     *)
Dies(p) ==
  /\ pc[p] # "down"
  /\ pc' = [pc EXCEPT ![p] = "down"] /\ mem' = [mem EXCEPT ![p] = Empty]
  /\ due' = [s \in Schedulers |-> IF s = p THEN {} ELSE due[s]]
  /\ exec' = [exec EXCEPT ![p] = NoJob] /\ begun' = [begun EXCEPT ![p] = 0]
  /\ UNCHANGED <<now, file, used, edits, starts, ran>>

-----------------------------------------------------------------------------
(* The schedulers *)

Start(s) ==
  /\ pc[s] = "down" /\ starts < MaxStarts
  /\ starts' = starts + 1
  /\ mem' = [mem EXCEPT ![s] = Recomputed(Load)]
  /\ pc' = [pc EXCEPT ![s] = "starting"]
  /\ UNCHANGED <<now, file, tickVars, used, edits>>

(* The timer goes off: _on_timer collects the jobs that are due ... *)
Tick(s) ==
  /\ pc[s] = "armed" /\ Due(mem[s]) # {}
  /\ due' = [due EXCEPT ![s] = Due(mem[s])]
  /\ pc' = [pc EXCEPT ![s] = "ticking"]
  /\ UNCHANGED <<now, file, mem, exec, begun, ran, used, edits, starts>>

(* (the sleep may end before the time it was set to: then nothing is due,  *)
(* and the jobs are saved as they are) ...                                 *)
TickEarly(s) ==
  /\ pc[s] = "armed" /\ Due(mem[s]) = {}
  /\ pc' = [pc EXCEPT ![s] = "ticked"]
  /\ UNCHANGED <<now, file, mem, tickVars, used, edits, starts>>

(* ... and runs them one after the other ... *)
JobStarts(s, j) ==
  /\ pc[s] = "ticking" /\ exec[s] = NoJob /\ j \in due[s]
  /\ exec' = [exec EXCEPT ![s] = j]
  /\ begun' = [begun EXCEPT ![s] = now]
  /\ ran' = IF mem[s][j].at # 0 THEN ran \cup {<<s, j, mem[s][j].at>>} ELSE ran
  /\ UNCHANGED <<now, file, mem, pc, due, used, edits, starts>>

(* Mutant: the job that is over stays the one that is run. *)
JobEndsBusy(s) ==
  /\ pc[s] = "ticking" /\ exec[s] # NoJob
  /\ mem' = [mem EXCEPT ![s] = Executed(mem[s], exec[s], begun[s])]
  /\ due' = [due EXCEPT ![s] = due[s] \ {exec[s]}]
  /\ pc' = [pc EXCEPT ![s] = IF due[s] = {exec[s]} THEN "ticked" ELSE "ticking"]
  /\ UNCHANGED <<now, file, exec, begun, ran, used, edits, starts>>

(* ... each to its end, its error or its timeout; then they are saved.     *)
JobEnds(s) ==
  /\ pc[s] = "ticking" /\ exec[s] # NoJob
  /\ mem' = [mem EXCEPT ![s] = Executed(mem[s], exec[s], begun[s])]
  /\ due' = [due EXCEPT ![s] = due[s] \ {exec[s]}]
  /\ exec' = [exec EXCEPT ![s] = NoJob]
  /\ begun' = [begun EXCEPT ![s] = 0]
  /\ pc' = [pc EXCEPT ![s] = IF due[s] = {exec[s]} THEN "ticked" ELSE "ticking"]
  /\ UNCHANGED <<now, file, ran, used, edits, starts>>

-----------------------------------------------------------------------------
(* The editors: what each operation makes of the store it has loaded.      *)

AddJob(j, at, once) ==
  With(Load, j, [at |-> at, once |-> once, enabled |-> TRUE, next |-> NextRun(at, 0), last |-> 0])

UpdateJob(j, at) ==
  With(Load, j, [Load[j] EXCEPT !.at = at, !.next = NextRun(at, 0)])

EnableJob(j, enabled) ==
  With(Load, j, [Load[j] EXCEPT !.enabled = enabled,
                                !.next = IF enabled THEN NextRun(Load[j].at, 0) ELSE 0])

Begins(e) ==
  /\ pc[e] = "down" /\ edits < MaxEdits
  /\ edits' = edits + 1
  /\ UNCHANGED <<now, file, due, ran, starts>>

Edit(e, store) ==
  /\ Begins(e)
  /\ mem' = [mem EXCEPT ![e] = store]
  /\ pc' = [pc EXCEPT ![e] = "edited"]
  /\ UNCHANGED <<exec, begun>>

(* What uuid4 gives: any unused id will do, for nothing depends on which.  *)
FreshId == CHOOSE j \in Jobs : j \notin used

Add(e) ==
  \E at \in 0..MaxNow, once \in BOOLEAN :
    /\ used # Jobs
    /\ once => at # 0
    /\ used' = used \cup {FreshId}
    /\ Edit(e, AddJob(FreshId, at, once))

(* An update that names no schedule leaves it as it is. *)
Update(e) ==
  \E j \in DOMAIN Load :
    /\ Edit(e, Load) \/ \E at \in 0..MaxNow : Edit(e, UpdateJob(j, at))
    /\ UNCHANGED used

Enable(e) ==
  \E j \in DOMAIN Load, enabled \in BOOLEAN : Edit(e, EnableJob(j, enabled)) /\ UNCHANGED used

Remove(e) ==
  \E j \in DOMAIN Load : Edit(e, Without(Load, j)) /\ UNCHANGED used

(* run_job: the command runs the job for as long as it takes, with the     *)
(* jobs it has loaded; the desktop's instance has no on_job and only notes *)
(* that the job was run.                                                   *)
RunJob(e) ==
  \E j \in DOMAIN Load :
    /\ Begins(e)
    /\ mem' = [mem EXCEPT ![e] = Load]
    /\ exec' = [exec EXCEPT ![e] = j] /\ begun' = [begun EXCEPT ![e] = now]
    /\ pc' = [pc EXCEPT ![e] = "running"]
    /\ UNCHANGED used

RunEnds(e) ==
  /\ pc[e] = "running"
  /\ mem' = [mem EXCEPT ![e] = Executed(mem[e], exec[e], begun[e])]
  /\ exec' = [exec EXCEPT ![e] = NoJob] /\ begun' = [begun EXCEPT ![e] = 0]
  /\ pc' = [pc EXCEPT ![e] = "edited"]
  /\ UNCHANGED <<now, file, due, ran, used, edits, starts>>

-----------------------------------------------------------------------------
Passes ==
  /\ now < MaxNow
  /\ now' = now + 1
  /\ UNCHANGED <<file, mem, pc, tickVars, used, edits, starts>>

(* What a live scheduler does by itself; on_job ends within job_timeout.   *)
Works(s) ==
  \/ SaveOpens(s) \/ SaveEnds(s)
  \/ Tick(s) \/ JobEnds(s) \/ \E j \in Jobs : JobStarts(s, j)

Next ==
  \/ \E s \in Schedulers : Start(s) \/ TickEarly(s) \/ Works(s)
  \/ \E e \in Editors : Add(e) \/ Update(e) \/ Enable(e) \/ Remove(e) \/ RunJob(e) \/ RunEnds(e)
                        \/ SaveOpens(e) \/ SaveEnds(e)
  \/ \E p \in Procs : SaveFails(p) \/ Dies(p)
  \/ Passes

Spec == Init /\ [][Next]_vars

FairSpec == Spec /\ \A s \in Schedulers : WF_vars(Works(s))

-----------------------------------------------------------------------------
(* Properties *)

(* Every variable keeps its type; a scheduler runs a job of its tick.      *)
TypeOK ==
  /\ now \in 1..MaxNow /\ (file = Torn \/ IsStore(file))
  /\ DOMAIN mem = Procs /\ \A p \in Procs : IsStore(mem[p])
  /\ pc \in [Procs -> {"down", "starting", "ticking", "ticked", "writing", "saving",
                       "armed", "idle", "deaf", "running", "edited"}]
  /\ due \in [Schedulers -> SUBSET Jobs]
  /\ exec \in [Procs -> Jobs \cup {NoJob}] /\ begun \in [Procs -> 0..MaxNow]
  /\ \A s \in Schedulers : due[s] \subseteq DOMAIN mem[s] /\ exec[s] \in due[s] \cup {NoJob}
  /\ \A e \in Editors : exec[e] \in DOMAIN mem[e] \cup {NoJob} /\ (pc[e] = "running" => exec[e] # NoJob)
  /\ used \subseteq Jobs /\ edits \in 0..MaxEdits /\ starts \in 0..MaxStarts
  /\ ran \subseteq Schedulers \X Jobs \X (0..MaxNow)

(* A scheduler never runs a one-shot job a second time for the same time,  *)
(* whatever crash comes between running and saving it, and whichever older *)
(* copies of the job editors and other schedulers write back to the file.  *)
OneShotOnce ==
  [][\A s \in Schedulers, j \in Jobs :
       exec[s] # j /\ exec'[s] = j /\ mem[s][j].at # 0 => <<s, j, mem[s][j].at>> \notin ran]_vars

(* A job that is due in a scheduler's memory is run, overdue or not, and   *)
(* however long the jobs before it take, unless the scheduler ends or has  *)
(* lost its timer to a failed save.                                        *)
DueJobsRun ==
  \A s \in Schedulers, j \in Jobs :
    j \in Due(mem[s]) ~> exec[s] = j \/ pc[s] \in {"down", "deaf"}

-----------------------------------------------------------------------------
(* Why due jobs run: what fairness has to work on *)

(* A job that is due never waits for a timer that nobody sets: its         *)
(* scheduler has a step to take, however late it is (the one whose timer   *)
(* went with a failed save has none).                                      *)
CanWork(s) ==
  \/ pc[s] \in {"starting", "ticked", "writing", "saving", "armed"}
  \/ pc[s] = "ticking" /\ due[s] # {}

TimerStands == \A s \in Schedulers : Due(mem[s]) # {} => CanWork(s) \/ pc[s] = "deaf"

(* What is due stays due, a tick that begins takes all of it and nothing   *)
(* else before it is over, and what it has taken stays taken until it was  *)
(* run: every job of a tick that ends makes the rest smaller.              *)
DueIsKept ==
  [][\A s \in Schedulers :
       pc'[s] # "down" =>
         /\ \A j \in Due(mem[s]) : exec[s] = j \/ j \in Due(mem[s])'
         /\ \A j \in due[s] : exec[s] = j \/ j \in due'[s]
         /\ due[s] = {} /\ due'[s] # {} => due'[s] = Due(mem[s])
         /\ due[s] # {} => due'[s] \subseteq due[s]]_vars
=============================================================================
