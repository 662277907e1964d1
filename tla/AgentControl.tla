---------------------------- MODULE AgentControl ----------------------------
(***************************************************************************)
(* The sub-agents of one desktop session: AgentControl (_agents, the state *)
(* machine of each LiveAgent, the completion callback), the jobs of        *)
(* AgentJobRuntime behind them and their rows in agent_graph.db, over      *)
(* evictions of the idle session and restarts of the process.              *)
(*                                                                         *)
(* All of it runs on one event loop.  Job ids are numbered in the order in *)
(* which the jobs are started.  The desktop's event sink writes without    *)
(* suspending, so delivering a completion is part of the step that causes  *)
(* it.  No caller passes a parent_agent_id, so no edges are stored.        *)
(***************************************************************************)
EXTENDS Naturals, FiniteSets, Sequences

CONSTANTS MaxAgents,      \* bound on the jobs ever started
          MaxConcurrent,  \* AgentControl.max_concurrent
          MaxRestarts     \* bound on evictions and process restarts

ASSUME AgentAssumption ==
  /\ MaxAgents \in Nat \ {0}
  /\ MaxConcurrent \in Nat \ {0}
  /\ MaxRestarts \in Nat

Ids == 1..MaxAgents
Ended == {"completed", "error", "aborted"}
States == {"none", "idle", "thinking"} \cup Ended
Statuses == {"none", "queued", "running", "interrupted"} \cup Ended

VARIABLES
  spawned,   \* how many jobs were started
  session,   \* how often the session was made anew
  owner,     \* the session a job was started in
  ph,        \* the task of a job
  cancel,    \* task.cancel() was called and not yet delivered
  spawner,   \* where the spawn() call of a job is
  agents,    \* jobs whose LiveAgent is in _agents of their AgentControl
  state,     \* LiveAgent.state
  emitted,   \* LiveAgent.completion_emitted
  told,      \* the completions sent to the desktop
  job,       \* AgentJob.status of the object the task works on
  row,       \* status in agent_graph.db
  loaded     \* status of the AgentJob that a later session read from row

jobVars   == <<job, row, loaded>>
agentVars == <<agents, state, emitted, told>>
vars == <<spawned, session, owner, ph, cancel, spawner, agentVars, jobVars>>

Init ==
  /\ spawned = 0 /\ session = 0 /\ agents = {}
  /\ owner = [i \in Ids |-> 0]
  /\ ph = [i \in Ids |-> "none"]
  /\ cancel = [i \in Ids |-> FALSE]
  /\ spawner = [i \in Ids |-> "none"]
  /\ state = [i \in Ids |-> "none"]
  /\ emitted = [i \in Ids |-> FALSE]
  /\ told = [i \in Ids |-> <<>>]
  /\ job = [i \in Ids |-> "none"]
  /\ row = [i \in Ids |-> "none"]
  /\ loaded = [i \in Ids |-> "none"]

(* The task of job i exists and is not done. *)
Live(i) == ph[i] \in {"new", "run"}

(* VALID_TRANSITIONS of the states an agent with a job reaches. *)
Valid(from, to) ==
  \/ from = "idle" /\ to \in {"thinking", "aborted"}
  \/ from = "thinking" /\ to \in Ended

(* The agents that spawn() counts against the cap. *)
Running == { i \in agents : owner[i] = session /\ state[i] \notin Ended }

-----------------------------------------------------------------------------
(* AgentControl.spawn *)

(* Everything up to the registration is one stretch: the cap is checked,   *)
(* the job started and its agent registered.                               *)
Register(i) ==
  /\ i = spawned + 1
  /\ Cardinality(Running) < MaxConcurrent
  /\ spawned' = i
  /\ owner' = [owner EXCEPT ![i] = session]
  /\ ph' = [ph EXCEPT ![i] = "new"]
  /\ agents' = agents \cup {i}
  /\ job' = [job EXCEPT ![i] = "queued"]
  /\ row' = [row EXCEPT ![i] = "queued"]
  /\ UNCHANGED <<session, cancel, emitted, told, loaded>>

Spawn(i) ==
  /\ Register(i)
  /\ state' = [state EXCEPT ![i] = "thinking"]
  /\ spawner' = [spawner EXCEPT ![i] = "back"]

(* A plugin's SUBAGENT_START hook, or a full event queue, suspends the     *)
(* call before the agent is set to THINKING ...                            *)
SpawnSuspended(i) ==
  /\ Register(i)
  /\ state' = [state EXCEPT ![i] = "idle"]
  /\ spawner' = [spawner EXCEPT ![i] = "hook"]

(* ... which raises if the agent was killed meanwhile ...                  *)
SpawnResumes(i) ==
  /\ spawner[i] = "hook"
  /\ spawner' = [spawner EXCEPT ![i] = "late"]
  /\ state' = IF Valid(state[i], "thinking")
              THEN [state EXCEPT ![i] = "thinking"] ELSE state
  /\ UNCHANGED <<spawned, session, owner, ph, cancel, agents, emitted, told, jobVars>>

(* ... and never happens if the calling turn is aborted. *)
SpawnCancelled(i) ==
  /\ spawner[i] = "hook"
  /\ spawner' = [spawner EXCEPT ![i] = "late"]
  /\ UNCHANGED <<spawned, session, owner, ph, cancel, agentVars, jobVars>>

-----------------------------------------------------------------------------
(* Completions *)

(* Mutant: every end of a job is reported as a success. *)
EmitOk(i, status) ==
  /\ emitted' = [emitted EXCEPT ![i] = TRUE]
  /\ told' = IF emitted[i] THEN told ELSE [told EXCEPT ![i] = Append(@, "completed")]

(* _emit_completed *)
Emit(i, status) ==
  /\ emitted' = [emitted EXCEPT ![i] = TRUE]
  /\ told' = IF emitted[i] THEN told ELSE [told EXCEPT ![i] = Append(@, status)]

(* Mutant: the state machine is not told how the job ended. *)
NotifyOnly(i, status) ==
  /\ agents' = agents /\ state' = state
  /\ IF i \in agents THEN Emit(i, status) ELSE UNCHANGED <<emitted, told>>

(* notify_completed: nothing if the agent was killed; if its state does    *)
(* not allow the end of the job, the ValueError is logged by the job.      *)
Notify(i, status) ==
  /\ agents' = agents
  /\ \/ /\ i \in agents
        /\ state[i] \in Ended \/ Valid(state[i], status)
        /\ state' = [state EXCEPT ![i] = IF @ \in Ended THEN @ ELSE status]
        /\ Emit(i, status)
     \/ /\ i \notin agents \/ ~(state[i] \in Ended \/ Valid(state[i], status))
        /\ UNCHANGED <<state, emitted, told>>

-----------------------------------------------------------------------------
(* AgentJobRuntime._run *)

JobStarts(i) ==
  /\ ph[i] = "new" /\ ~cancel[i]
  /\ ph' = [ph EXCEPT ![i] = "run"]
  /\ job' = [job EXCEPT ![i] = "running"]
  /\ row' = [row EXCEPT ![i] = "running"]
  /\ UNCHANGED <<spawned, session, owner, cancel, spawner, agentVars, loaded>>

(* Cancelled before its first step: the coroutine never runs. *)
JobUnborn(i) ==
  /\ ph[i] = "new" /\ cancel[i]
  /\ ph' = [ph EXCEPT ![i] = "over"]
  /\ cancel' = [cancel EXCEPT ![i] = FALSE]
  /\ UNCHANGED <<spawned, session, owner, spawner, agentVars, jobVars>>

(* A cancellation that reaches a tool call becomes a result of the tool    *)
(* (ToolOrchestrator.execute): the job goes on.                            *)
CancelSwallowed(i) ==
  /\ ph[i] = "run" /\ cancel[i]
  /\ cancel' = [cancel EXCEPT ![i] = FALSE]
  /\ UNCHANGED <<spawned, session, owner, ph, spawner, agentVars, jobVars>>

(* The turn returns or raises; a delivered cancellation makes it abort.    *)
JobEnds(i, status) ==
  /\ ph[i] = "run"
  /\ cancel[i] <=> status = "aborted"
  /\ ph' = [ph EXCEPT ![i] = "over"]
  /\ cancel' = [cancel EXCEPT ![i] = FALSE]
  /\ job' = [job EXCEPT ![i] = status]
  /\ row' = [row EXCEPT ![i] = status]
  /\ Notify(i, status)
  /\ UNCHANGED <<spawned, session, owner, spawner, loaded>>

Job(i) ==
  \/ JobStarts(i) \/ JobUnborn(i) \/ CancelSwallowed(i)
  \/ \E status \in Ended : JobEnds(i, status)

-----------------------------------------------------------------------------
(* AgentControl.kill *)

(* Mutant: a killed agent is removed and nobody is told. *)
ForgetSilently(i) ==
  /\ agents' = IF owner[i] = session THEN agents \ {i} ELSE agents
  /\ state' = IF owner[i] = session /\ i \in agents /\ state[i] \notin Ended
              THEN [state EXCEPT ![i] = "aborted"] ELSE state
  /\ UNCHANGED <<emitted, told>>

(* The agent leaves _agents; the transition of one that has ended raises   *)
(* and the call fails after that, otherwise the desktop is told.           *)
Forget(i) ==
  /\ agents' = IF owner[i] = session THEN agents \ {i} ELSE agents
  /\ IF owner[i] = session /\ i \in agents /\ state[i] \notin Ended
     THEN /\ state' = [state EXCEPT ![i] = "aborted"]
          /\ Emit(i, "aborted")
     ELSE UNCHANGED <<state, emitted, told>>

(* Mutant: only the record in memory is updated. *)
KillInMemory(i) ==
  /\ i <= spawned
  /\ IF owner[i] = session
     THEN /\ cancel' = [cancel EXCEPT ![i] = @ \/ Live(i)]
          /\ job' = [job EXCEPT ![i] = "aborted"]
          /\ UNCHANGED loaded
     ELSE /\ loaded' = [loaded EXCEPT ![i] = "aborted"]
          /\ UNCHANGED <<cancel, job>>
  /\ Forget(i)
  /\ UNCHANGED <<spawned, session, owner, ph, spawner, row>>

(* A job of the session is cancelled; one that the session read from the   *)
(* database has no task here.  Either way its record becomes "aborted".    *)
Kill(i) ==
  /\ i <= spawned
  /\ IF owner[i] = session
     THEN /\ cancel' = [cancel EXCEPT ![i] = @ \/ Live(i)]
          /\ job' = [job EXCEPT ![i] = "aborted"]
          /\ UNCHANGED loaded
     ELSE /\ loaded' = [loaded EXCEPT ![i] = "aborted"]
          /\ UNCHANGED <<cancel, job>>
  /\ row' = [row EXCEPT ![i] = "aborted"]
  /\ Forget(i)
  /\ UNCHANGED <<spawned, session, owner, ph, spawner>>

-----------------------------------------------------------------------------
(* The session is made anew *)

(* Mutant: only the rows found are entered. *)
LoadRows ==
  loaded' = [i \in 1..spawned |-> IF row[i] = "running" THEN "interrupted" ELSE row[i]]

(* _load_jobs *)
LoadJobs ==
  loaded' = [i \in Ids |-> IF row[i] = "running" THEN "interrupted" ELSE row[i]]

(* stop() of an idle session leaves the tasks of its jobs running. *)
Evict ==
  /\ session < MaxRestarts
  /\ session' = session + 1
  /\ LoadJobs
  /\ UNCHANGED <<spawned, owner, ph, cancel, spawner, agentVars, job, row>>

Crash ==
  /\ session < MaxRestarts
  /\ session' = session + 1
  /\ ph' = [i \in Ids |-> IF Live(i) THEN "lost" ELSE ph[i]]
  /\ cancel' = [i \in Ids |-> FALSE]
  /\ spawner' = [i \in Ids |-> IF spawner[i] = "hook" THEN "late" ELSE spawner[i]]
  /\ LoadJobs
  /\ UNCHANGED <<spawned, owner, agentVars, job, row>>

-----------------------------------------------------------------------------
Agent(i) ==
  \/ Spawn(i) \/ SpawnSuspended(i) \/ SpawnResumes(i) \/ SpawnCancelled(i)
  \/ Job(i) \/ Kill(i)

Next == (\E i \in Ids : Agent(i)) \/ Evict \/ Crash

Spec == Init /\ [][Next]_vars

(* A job's turn ends: its 15 iterations and their tool calls are bounded,  *)
(* and an undisturbed task is served by the event loop.                    *)
FairSpec == Spec /\ \A i \in Ids : WF_vars(Job(i))

-----------------------------------------------------------------------------
(* Types and properties *)

TypeOK ==
  /\ spawned \in 0..MaxAgents /\ session \in 0..MaxRestarts
  /\ agents \subseteq 1..spawned
  /\ owner \in [Ids -> 0..session]
  /\ ph \in [Ids -> {"none", "new", "run", "over", "lost"}]
  /\ cancel \in [Ids -> BOOLEAN]
  /\ spawner \in [Ids -> {"none", "hook", "back", "late"}]
  /\ state \in [Ids -> States]
  /\ emitted \in [Ids -> BOOLEAN]
  /\ told \in [Ids -> Seq(Ended)]
  /\ job \in [Ids -> Statuses] /\ row \in [Ids -> Statuses] /\ loaded \in [Ids -> Statuses]

(* No more than max_concurrent jobs that the session knows of work at the  *)
(* same time, whatever ends, is killed or is suspended in a hook between   *)
(* the check and the next spawn (issue #246).  Killed agents are not       *)
(* counted, even while their cancellation is on its way.                   *)
CapHolds ==
  Cardinality({ i \in agents : owner[i] = session /\ Live(i) }) <= MaxConcurrent

(* An agent that takes one of the places has a task that can still free    *)
(* it: no end of a job and no kill leaks a place, provided that spawn()    *)
(* was not suspended (a job that ends under a suspended spawn() leaks).    *)
NoPlaceLeaks ==
  \A i \in Running : Live(i) \/ spawner[i] \in {"hook", "late"}

(* The database tells who is at work across kills, evictions and crashes:  *)
(* a row "queued" or "running" is a job whose task is alive or died with   *)
(* its process, a row "completed" or "error" one whose task is over.       *)
RowsTellTheTruth ==
  \A i \in 1..spawned :
    /\ row[i] \in {"queued", "running"} => Live(i) \/ ph[i] = "lost"
    /\ row[i] \in {"completed", "error"} => ph[i] = "over"

(* The desktop hears of a completion what the database holds, unless the   *)
(* agent was killed: a kill overtaken by the end of the job, or one that   *)
(* comes after it, leaves the two apart.                                   *)
ToldIsStored ==
  \A i \in 1..spawned :
    told[i] # <<>> =>
      /\ Len(told[i]) = 1
      /\ told[i][1] # row[i] => "aborted" \in {told[i][1], row[i]}

(* Whoever is at work in the desktop's list is reported to it in the end   *)
(* (chat:subagent_result), however kill, eviction and the end of the job   *)
(* race: only the end of the process loses a completion.                   *)
EveryAgentReports ==
  \A i \in Ids :
    (i \in agents /\ state[i] = "thinking" /\ Live(i))
      ~> (Len(told[i]) = 1 /\ state[i] \in Ended) \/ ph[i] = "lost"

-----------------------------------------------------------------------------
(* Why every agent reports: what fairness has to work on *)

AtWork(i) == i \in agents /\ state[i] = "thinking" /\ Live(i)
Reported(i) == Len(told[i]) = 1 /\ state[i] \in Ended

(* An agent at work stays listed and at work, with its task alive, until   *)
(* the very step that reports its end or the end of the process: no kill,  *)
(* no eviction and no end of the job takes it away in silence ...          *)
NoSilentEnd ==
  [][\A i \in Ids : AtWork(i) => AtWork(i)' \/ Reported(i)' \/ ph'[i] = "lost"]_vars

(* ... and its task gets there in two steps of its own, since nothing      *)
(* cancels the task of an agent that is still listed.                      *)
TwoStepsOfWork ==
  [][\A i \in Ids :
       AtWork(i) /\ Job(i) => (ph[i] = "new" /\ ph'[i] = "run" /\ AtWork(i)') \/ Reported(i)']_vars

-----------------------------------------------------------------------------
(* The inductive invariant behind the safety properties *)

(* A place is taken by an agent that has told nothing yet. *)
PlaceInv ==
  /\ Cardinality(Running) <= MaxConcurrent
  /\ \A i \in agents : Live(i) => state[i] \in {"idle", "thinking"} /\ told[i] = <<>>
  /\ \A i \in agents : state[i] \notin Ended =>
       Live(i) \/ ph[i] = "lost" \/ spawner[i] \in {"hook", "late"}
  /\ \A i \in agents : state[i] = "idle" => spawner[i] \in {"hook", "late"}

(* What a task's phase says of its job and of what was told. *)
TaskInv ==
  \A i \in Ids :
    /\ ph[i] = "none" <=> i > spawned
    /\ ph[i] = "lost" => owner[i] < session
    /\ cancel[i] => Live(i) /\ i \notin agents
    /\ cancel[i] /\ ph[i] = "new" => row[i] = "aborted"
    /\ emitted[i] <=> told[i] # <<>>
    /\ i > spawned => ~emitted[i]
    /\ told[i] # <<>> =>
         /\ Len(told[i]) = 1
         /\ told[i][1] # "aborted" => ph[i] = "over" /\ row[i] \in {told[i][1], "aborted"}

(* Together with RowsTellTheTruth they are inductive. *)
AInv == TypeOK /\ PlaceInv /\ TaskInv /\ RowsTellTheTruth
=============================================================================
