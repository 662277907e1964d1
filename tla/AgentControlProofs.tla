------------------------- MODULE AgentControlProofs -------------------------
(***************************************************************************)
(* Proofs about AgentControl for every number of jobs, every cap and every *)
(* number of evictions and restarts.                                       *)
(***************************************************************************)
EXTENDS AgentControl, FiniteSetTheorems, TLAPS

LEMMA Bounds ==
  ASSUME TypeOK
  PROVE  /\ spawned \in Nat /\ session \in Nat /\ MaxAgents \in Nat
         /\ 1..spawned \subseteq Ids /\ \A i \in agents : i \in Ids /\ i <= spawned
         /\ \A i \in Ids : i \in Nat /\ owner[i] \in Nat /\ owner[i] <= session
         /\ IsFiniteSet(agents) /\ IsFiniteSet(Running) /\ Cardinality(Running) \in Nat
<1>1. spawned \in Nat /\ session \in Nat /\ MaxAgents \in Nat /\ 1..spawned \subseteq Ids
  BY AgentAssumption DEF TypeOK, Ids
<1>2. \A i \in agents : i \in Ids /\ i <= spawned
  BY <1>1 DEF TypeOK
<1>3. \A i \in Ids : i \in Nat /\ owner[i] \in Nat /\ owner[i] <= session
  BY <1>1 DEF TypeOK, Ids
<1>4. IsFiniteSet(1..spawned)
  BY <1>1, FS_Interval
<1>5. IsFiniteSet(agents)
  BY <1>4, FS_Subset DEF TypeOK
<1>6. IsFiniteSet(Running)
  BY <1>5, FS_Subset DEF Running
<1>. QED BY <1>1, <1>2, <1>3, <1>5, <1>6, FS_CardinalityType

(* A step that gives no place away leaves the cap respected. *)
LEMMA NoNewPlace ==
  ASSUME TypeOK, Cardinality(Running) <= MaxConcurrent, Running' \subseteq Running
  PROVE  Cardinality(Running)' <= MaxConcurrent
<1>1. Cardinality(Running') <= Cardinality(Running) /\ Cardinality(Running') \in Nat
  BY Bounds, FS_Subset, FS_CardinalityType
<1>. QED BY <1>1, Bounds, AgentAssumption

(* The agent that spawn() registers takes one place. *)
LEMMA OneNewPlace ==
  ASSUME TypeOK, Cardinality(Running) < MaxConcurrent, NEW i, Running' \subseteq Running \cup {i}
  PROVE  Cardinality(Running)' <= MaxConcurrent
<1>1. /\ IsFiniteSet(Running \cup {i})
      /\ Cardinality(Running \cup {i}) \in Nat
      /\ Cardinality(Running \cup {i}) <= Cardinality(Running) + 1
  <2>1. IsFiniteSet(Running) /\ Cardinality(Running) \in Nat
    BY Bounds
  <2>2. /\ IsFiniteSet(Running \cup {i})
        /\ \/ Cardinality(Running \cup {i}) = Cardinality(Running)
           \/ Cardinality(Running \cup {i}) = Cardinality(Running) + 1
    BY <2>1, FS_AddElement
  <2>. QED BY <2>1, <2>2
<1>2. Cardinality(Running') <= Cardinality(Running \cup {i}) /\ Cardinality(Running') \in Nat
  BY <1>1, FS_Subset, FS_CardinalityType
<1>. QED BY <1>1, <1>2, Bounds, AgentAssumption

(* What a completion appends to is empty, so it becomes the only one. *)
LEMMA FirstWord ==
  ASSUME NEW S, NEW x \in S
  PROVE  /\ Append(<<>>, x) \in Seq(S) /\ Append(<<>>, x) # <<>>
         /\ Len(Append(<<>>, x)) = 1 /\ Append(<<>>, x)[1] = x
OBVIOUS

LEMMA InitHolds == Init => AInv
<1> SUFFICES ASSUME Init PROVE AInv
  OBVIOUS
<1> USE AgentAssumption DEF Init
<1>1. TypeOK
  BY DEF TypeOK, States, Statuses, Ids
<1>2. PlaceInv
  <2>1. Running = {}
    BY DEF Running
  <2>2. Cardinality(Running) = 0
    BY <2>1, FS_EmptySet
  <2>. QED BY <2>2 DEF PlaceInv
<1>3. TaskInv /\ RowsTellTheTruth
  BY DEF TaskInv, RowsTellTheTruth, Ids, Live
<1>. QED BY <1>1, <1>2, <1>3 DEF AInv

-----------------------------------------------------------------------------
(* A registration, suspended after it or not. *)
LEMMA RegisterStep ==
  ASSUME AInv, NEW i \in Ids, Register(i), NEW w \in {"thinking", "idle"}, NEW b \in {"back", "hook"},
         state' = [state EXCEPT ![i] = w], spawner' = [spawner EXCEPT ![i] = b],
         w = "idle" => b = "hook"
  PROVE  AInv'
<1>0. TypeOK /\ PlaceInv /\ TaskInv /\ RowsTellTheTruth
  BY DEF AInv
<1>1. i = spawned + 1 /\ i \notin agents /\ ~(i <= spawned) /\ i > spawned /\ i \in Nat
  BY <1>0, Bounds DEF Register
<1>2. TypeOK'
  <2>1. spawned' \in 0..MaxAgents /\ agents' \subseteq 1..spawned'
    BY <1>0, <1>1, Bounds, AgentAssumption DEF Register, TypeOK, Ids
  <2>2. owner' \in [Ids -> 0..session'] /\ ph' \in [Ids -> {"none", "new", "run", "over", "lost"}]
    BY <1>0, Bounds DEF Register, TypeOK
  <2>3. state' \in [Ids -> States] /\ spawner' \in [Ids -> {"none", "hook", "back", "late"}]
    BY <1>0 DEF TypeOK, States
  <2>4. job' \in [Ids -> Statuses] /\ row' \in [Ids -> Statuses]
    BY <1>0 DEF Register, TypeOK, Statuses
  <2>. QED BY <1>0, <2>1, <2>2, <2>3, <2>4 DEF Register, TypeOK
<1>3. \A j \in Ids : j # i =>
        /\ ph'[j] = ph[j] /\ owner'[j] = owner[j] /\ state'[j] = state[j] /\ spawner'[j] = spawner[j]
        /\ row'[j] = row[j]
  BY <1>0 DEF Register, TypeOK
<1>4. /\ ph'[i] = "new" /\ owner'[i] = session /\ state'[i] = w /\ spawner'[i] = b /\ row'[i] = "queued"
      /\ session' = session /\ cancel' = cancel /\ emitted' = emitted /\ told' = told
      /\ agents' = agents \cup {i} /\ spawned' = i
  BY <1>0 DEF Register, TypeOK
<1>5. ~emitted[i] /\ ~cancel[i] /\ told[i] = <<>>
  BY <1>0, <1>1 DEF TaskInv, Live
<1>6. PlaceInv'
  <2>1. Running' \subseteq Running \cup {i}
    BY <1>3, <1>4, <1>0, Bounds DEF Running
  <2>2. Cardinality(Running)' <= MaxConcurrent
    BY <2>1, <1>0, OneNewPlace DEF Register
  <2>3. \A j \in agents' : j \in Ids
    BY <1>0, <1>4, Bounds
  <2>4. ASSUME NEW j \in agents'
        PROVE  /\ Live(j)' => state'[j] \in {"idle", "thinking"} /\ told'[j] = <<>>
               /\ state'[j] \notin Ended =>
                    Live(j)' \/ ph'[j] = "lost" \/ spawner'[j] \in {"hook", "late"}
               /\ state'[j] = "idle" => spawner'[j] \in {"hook", "late"}
    <3>1. CASE j = i
      BY <3>1, <1>4, <1>5 DEF Live
    <3>2. CASE j # i
      BY <3>2, <2>3, <2>4, <1>3, <1>4, <1>0 DEF PlaceInv, Live
    <3>. QED BY <3>1, <3>2
  <2>. QED BY <2>2, <2>4 DEF PlaceInv
<1>7. TaskInv'
  <2>1. \A j \in Ids : j # i => (j > spawned <=> j > spawned')
    BY <1>0, <1>1, <1>4, Bounds
  <2>2. ~(i > spawned')
    BY <1>1, <1>4
  <2>. QED BY <2>1, <2>2, <1>0, <1>3, <1>4, <1>5 DEF TaskInv, Live
<1>8. RowsTellTheTruth'
  <2>1. \A j \in 1..spawned' : j \in Ids /\ (j # i => j \in 1..spawned)
    BY <1>0, <1>1, <1>2, <1>4, Bounds DEF TypeOK, Ids
  <2>. QED BY <2>1, <1>0, <1>3, <1>4 DEF RowsTellTheTruth, Live
<1>. QED BY <1>2, <1>6, <1>7, <1>8 DEF AInv

(* What a suspended spawn() does when it is resumed or cancelled. *)
LEMMA SpawnerStep ==
  ASSUME AInv, NEW i \in Ids, SpawnResumes(i) \/ SpawnCancelled(i)
  PROVE  AInv'
<1>0. TypeOK /\ PlaceInv /\ TaskInv /\ RowsTellTheTruth
  BY DEF AInv
<1>1. /\ UNCHANGED <<spawned, session, owner, ph, cancel, agents, emitted, told, job, row, loaded>>
      /\ spawner[i] = "hook" /\ spawner' = [spawner EXCEPT ![i] = "late"]
      /\ \/ state' = state
         \/ state' = [state EXCEPT ![i] = "thinking"] /\ state[i] \in {"idle", "thinking"}
  BY DEF SpawnResumes, SpawnCancelled, Valid, Ended, agentVars, jobVars
<1>2. TypeOK'
  <2>1. state' \in [Ids -> States] /\ spawner' \in [Ids -> {"none", "hook", "back", "late"}]
    BY <1>0, <1>1 DEF TypeOK, States
  <2>. QED BY <1>0, <1>1, <2>1 DEF TypeOK
<1>3. \A j \in Ids : /\ j # i => state'[j] = state[j] /\ spawner'[j] = spawner[j]
                     /\ state'[j] = state[j] \/ (state[j] \in {"idle", "thinking"} /\ state'[j] = "thinking")
  BY <1>0, <1>1 DEF TypeOK
<1>4. spawner'[i] = "late"
  BY <1>0, <1>1 DEF TypeOK
<1>5. PlaceInv'
  <2>1. Running' \subseteq Running
    BY <1>0, <1>1, <1>3, Bounds DEF Running, Ended
  <2>2. Cardinality(Running)' <= MaxConcurrent
    BY <2>1, <1>0, NoNewPlace DEF PlaceInv
  <2>. QED BY <2>2, <1>0, <1>1, <1>3, <1>4, Bounds DEF PlaceInv, Live, Ended
<1>6. TaskInv' /\ RowsTellTheTruth'
  BY <1>0, <1>1 DEF TaskInv, RowsTellTheTruth, Live
<1>. QED BY <1>2, <1>5, <1>6 DEF AInv

(* The steps of a task that end nothing. *)
LEMMA TaskMoves ==
  ASSUME AInv, NEW i \in Ids, JobStarts(i) \/ JobUnborn(i) \/ CancelSwallowed(i)
  PROVE  AInv'
<1>0. TypeOK /\ PlaceInv /\ TaskInv /\ RowsTellTheTruth
  BY DEF AInv
<1>1. UNCHANGED <<spawned, session, owner, spawner, agents, state, emitted, told, loaded>>
  BY DEF JobStarts, JobUnborn, CancelSwallowed, agentVars, jobVars
<1>c. Cardinality(Running)' <= MaxConcurrent
  <2>1. Running' = Running
    BY <1>1 DEF Running
  <2>. QED BY <2>1, <1>0, NoNewPlace DEF PlaceInv
<1>2. CASE JobStarts(i)
  <2>1. /\ ph' = [ph EXCEPT ![i] = "run"] /\ row' = [row EXCEPT ![i] = "running"]
        /\ job' = [job EXCEPT ![i] = "running"] /\ cancel' = cancel /\ ph[i] = "new" /\ ~cancel[i]
    BY <1>2 DEF JobStarts
  <2>2. TypeOK'
    BY <1>0, <1>1, <2>1 DEF TypeOK, Statuses
  <2>3. /\ ph'[i] = "run" /\ row'[i] = "running"
        /\ \A j \in Ids : j # i => ph'[j] = ph[j] /\ row'[j] = row[j]
    BY <1>0, <2>1 DEF TypeOK
  <2>4. PlaceInv'
    BY <1>0, <1>1, <1>c, <2>1, <2>3, Bounds DEF PlaceInv, Live
  <2>5. TaskInv' /\ RowsTellTheTruth'
    BY <1>0, <1>1, <2>1, <2>3, Bounds DEF TaskInv, RowsTellTheTruth, Live
  <2>. QED BY <2>2, <2>4, <2>5 DEF AInv
<1>3. CASE JobUnborn(i)
  <2>1. /\ ph' = [ph EXCEPT ![i] = "over"] /\ cancel' = [cancel EXCEPT ![i] = FALSE]
        /\ job' = job /\ row' = row /\ ph[i] = "new" /\ cancel[i]
    BY <1>3 DEF JobUnborn, jobVars
  <2>2. TypeOK'
    BY <1>0, <1>1, <2>1 DEF TypeOK
  <2>3. /\ ph'[i] = "over" /\ cancel'[i] = FALSE /\ row[i] = "aborted" /\ i \notin agents
        /\ \A j \in Ids : j # i => ph'[j] = ph[j] /\ cancel'[j] = cancel[j]
    BY <1>0, <2>1 DEF TypeOK, TaskInv
  <2>4. PlaceInv'
    BY <1>0, <1>1, <1>c, <2>1, <2>3, Bounds DEF PlaceInv, Live
  <2>5. TaskInv' /\ RowsTellTheTruth'
    BY <1>0, <1>1, <2>1, <2>3, Bounds DEF TaskInv, RowsTellTheTruth, Live
  <2>. QED BY <2>2, <2>4, <2>5 DEF AInv
<1>4. CASE CancelSwallowed(i)
  <2>1. cancel' = [cancel EXCEPT ![i] = FALSE] /\ job' = job /\ row' = row /\ ph' = ph
    BY <1>4 DEF CancelSwallowed, jobVars
  <2>2. TypeOK' /\ \A j \in Ids : cancel'[j] => cancel[j]
    BY <1>0, <1>1, <2>1 DEF TypeOK
  <2>3. PlaceInv'
    BY <1>0, <1>1, <1>c, <2>1 DEF PlaceInv, Live
  <2>4. TaskInv' /\ RowsTellTheTruth'
    BY <1>0, <1>1, <2>1, <2>2 DEF TaskInv, RowsTellTheTruth, Live
  <2>. QED BY <2>2, <2>3, <2>4 DEF AInv
<1>. QED BY <1>2, <1>3, <1>4

(* The end of a job, whether or not its agent hears of it. *)
LEMMA JobEnd ==
  ASSUME AInv, NEW i \in Ids, NEW s \in Ended, JobEnds(i, s)
  PROVE  AInv'
<1>0. TypeOK /\ PlaceInv /\ TaskInv /\ RowsTellTheTruth
  BY DEF AInv
<1>1. /\ UNCHANGED <<spawned, session, owner, spawner, agents, loaded>>
      /\ ph[i] = "run" /\ (cancel[i] <=> s = "aborted")
      /\ ph' = [ph EXCEPT ![i] = "over"] /\ cancel' = [cancel EXCEPT ![i] = FALSE]
      /\ job' = [job EXCEPT ![i] = s] /\ row' = [row EXCEPT ![i] = s]
  BY DEF JobEnds, Notify
<1>2. /\ ph'[i] = "over" /\ cancel'[i] = FALSE /\ row'[i] = s
      /\ \A j \in Ids : j # i => ph'[j] = ph[j] /\ cancel'[j] = cancel[j] /\ row'[j] = row[j]
  BY <1>0, <1>1 DEF TypeOK
<1>3. /\ i \in agents => /\ state[i] \in {"idle", "thinking"} /\ told[i] = <<>> /\ ~emitted[i]
                         /\ s # "aborted"
      /\ told[i] # <<>> => told[i][1] = "aborted" /\ Len(told[i]) = 1
  BY <1>0, <1>1 DEF PlaceInv, TaskInv, Live
<1>r. RowsTellTheTruth'
  BY <1>0, <1>1, <1>2, Bounds DEF RowsTellTheTruth, Live, Ended
<1>4. CASE i \in agents /\ state[i] = "thinking"
  <2>1. /\ state' = [state EXCEPT ![i] = s]
        /\ emitted' = [emitted EXCEPT ![i] = TRUE] /\ told' = [told EXCEPT ![i] = Append(@, s)]
    BY <1>3, <1>4 DEF JobEnds, Notify, Emit, Valid, Ended
  <2>2. told' = [told EXCEPT ![i] = Append(<<>>, s)]
    BY <2>1, <1>3, <1>4, <1>0 DEF TypeOK
  <2>3. PICK t \in Seq(Ended) : /\ told' = [told EXCEPT ![i] = t]
                               /\ t # <<>> /\ Len(t) = 1 /\ t[1] = s
    BY <2>2, FirstWord
  <2>4. TypeOK'
    BY <1>0, <1>1, <2>1, <2>3 DEF TypeOK, States, Statuses
  <2>5. /\ state'[i] = s /\ emitted'[i] = TRUE /\ told'[i] = t
        /\ \A j \in Ids : j # i => state'[j] = state[j] /\ emitted'[j] = emitted[j] /\ told'[j] = told[j]
    BY <1>0, <2>1, <2>3 DEF TypeOK
  <2>6. PlaceInv'
    <3>1. Running' \subseteq Running
      BY <1>0, <1>1, <2>5, Bounds DEF Running
    <3>2. Cardinality(Running)' <= MaxConcurrent
      BY <3>1, <1>0, NoNewPlace DEF PlaceInv
    <3>3. ASSUME NEW j \in agents'
          PROVE  /\ Live(j)' => state'[j] \in {"idle", "thinking"} /\ told'[j] = <<>>
                 /\ state'[j] \notin Ended =>
                      Live(j)' \/ ph'[j] = "lost" \/ spawner'[j] \in {"hook", "late"}
                 /\ state'[j] = "idle" => spawner'[j] \in {"hook", "late"}
      <4>1. CASE j = i
        BY <4>1, <1>2, <2>5 DEF Live, Ended
      <4>2. CASE j # i
        <5>1. j \in agents /\ j \in Ids
          BY <3>3, <1>0, <1>1, Bounds
        <5>. QED BY <5>1, <4>2, <1>0, <1>1, <1>2, <2>5 DEF PlaceInv, Live
      <4>. QED BY <4>1, <4>2
    <3>. QED BY <3>2, <3>3 DEF PlaceInv
  <2>7. i <= spawned /\ ~(i > spawned)
    BY <1>0, <1>4, Bounds
  <2>8. TaskInv'
    <3>1. \A j \in Ids : (ph'[j] = "none" <=> j > spawned) /\ (ph'[j] = "lost" => owner'[j] < session')
      BY <1>0, <1>1, <1>2, <2>7 DEF TaskInv
    <3>2. \A j \in Ids : /\ cancel'[j] => Live(j)' /\ j \notin agents'
                         /\ cancel'[j] /\ ph'[j] = "new" => row'[j] = "aborted"
      BY <1>0, <1>1, <1>2 DEF TaskInv, Live
    <3>3. \A j \in Ids : /\ emitted'[j] <=> told'[j] # <<>>
                         /\ j > spawned => ~emitted'[j]
      BY <1>0, <2>3, <2>5, <2>7 DEF TaskInv
    <3>4. \A j \in Ids : told'[j] # <<>> =>
            /\ Len(told'[j]) = 1
            /\ told'[j][1] # "aborted" => ph'[j] = "over" /\ row'[j] \in {told'[j][1], "aborted"}
      BY <1>0, <1>2, <2>3, <2>5 DEF TaskInv
    <3>. QED BY <3>1, <3>2, <3>3, <3>4, <1>1 DEF TaskInv
  <2>. QED BY <1>r, <2>4, <2>6, <2>8 DEF AInv
<1>5. CASE ~(i \in agents /\ state[i] = "thinking")
  <2>1. UNCHANGED <<state, emitted, told>>
    BY <1>3, <1>5 DEF JobEnds, Notify, Emit, Valid, Ended
  <2>2. TypeOK'
    BY <1>0, <1>1, <2>1 DEF TypeOK, Statuses
  <2>3. PlaceInv'
    <3>1. Running' = Running
      BY <1>1, <2>1 DEF Running
    <3>2. Cardinality(Running)' <= MaxConcurrent
      BY <3>1, <1>0, NoNewPlace DEF PlaceInv
    <3>. QED BY <3>2, <1>0, <1>1, <1>2, <1>3, <1>5, <2>1, Bounds DEF PlaceInv, Live, Ended
  <2>4. TaskInv'
    BY <1>0, <1>1, <1>2, <1>3, <2>1 DEF TaskInv, Live
  <2>. QED BY <1>r, <2>2, <2>3, <2>4 DEF AInv
<1>. QED BY <1>4, <1>5

-----------------------------------------------------------------------------
(* A kill, of a job of the session or of one that it read. *)
LEMMA KillStep ==
  ASSUME AInv, NEW i \in Ids, Kill(i)
  PROVE  AInv'
<1>0. TypeOK /\ PlaceInv /\ TaskInv /\ RowsTellTheTruth
  BY DEF AInv
<1>1. /\ UNCHANGED <<spawned, session, owner, ph, spawner>>
      /\ row' = [row EXCEPT ![i] = "aborted"] /\ i <= spawned
      /\ agents' \subseteq agents /\ \A j \in agents : j # i => j \in agents'
  BY DEF Kill, Forget
<1>2. row'[i] = "aborted" /\ \A j \in Ids : j # i => row'[j] = row[j]
  BY <1>0, <1>1 DEF TypeOK
<1>3. /\ cancel' \in [Ids -> BOOLEAN]
      /\ \A j \in Ids : cancel'[j] => cancel[j] \/ (j = i /\ Live(i) /\ i \notin agents')
  BY <1>0 DEF Kill, Forget, TypeOK, Live
<1>4. job' \in [Ids -> Statuses] /\ loaded' \in [Ids -> Statuses] /\ row' \in [Ids -> Statuses]
  BY <1>0 DEF Kill, TypeOK, Statuses, Ended
<1>5. \/ UNCHANGED <<state, emitted, told>>
      \/ /\ state' = [state EXCEPT ![i] = "aborted"] /\ i \notin agents'
         /\ emitted' = [emitted EXCEPT ![i] = TRUE]
         /\ \/ told' = told
            \/ told' = [told EXCEPT ![i] = Append(@, "aborted")] /\ ~emitted[i]
         /\ emitted[i] => told' = told
  BY DEF Kill, Forget, Emit
<1>6. /\ state' \in [Ids -> States] /\ emitted' \in [Ids -> BOOLEAN]
      /\ \A j \in Ids : j # i => state'[j] = state[j] /\ emitted'[j] = emitted[j]
      /\ i \in agents' => state' = state
  BY <1>0, <1>5 DEF TypeOK, States, Ended
<1>7. told' \in [Ids -> Seq(Ended)]
      /\ (\A j \in Ids : j # i => told'[j] = told[j])
      /\ (i \in agents' => told' = told)
      /\ (emitted'[i] <=> told'[i] # <<>>)
      /\ (told'[i] # <<>> => Len(told'[i]) = 1)
  <2>1. "aborted" \in Ended /\ (emitted[i] <=> told[i] # <<>>) /\ (told[i] # <<>> => Len(told[i]) = 1)
    BY <1>0 DEF Ended, TaskInv
  <2>2. CASE UNCHANGED <<emitted, told>>
    BY <1>0, <2>1, <2>2 DEF TypeOK
  <2>3. CASE /\ i \notin agents' /\ emitted' = [emitted EXCEPT ![i] = TRUE] /\ told' = told /\ emitted[i]
    BY <1>0, <2>1, <2>3 DEF TypeOK
  <2>4. CASE /\ i \notin agents' /\ emitted' = [emitted EXCEPT ![i] = TRUE] /\ ~emitted[i]
             /\ told' = [told EXCEPT ![i] = Append(@, "aborted")]
    <3>1. told' = [told EXCEPT ![i] = Append(<<>>, "aborted")]
      BY <1>0, <2>1, <2>4 DEF TypeOK
    <3>2. Append(<<>>, "aborted") \in Seq(Ended) /\ Append(<<>>, "aborted") # <<>>
          /\ Len(Append(<<>>, "aborted")) = 1
      BY <2>1, FirstWord
    <3>. QED BY <3>1, <3>2, <2>4, <1>0 DEF TypeOK
  <2>. QED BY <2>2, <2>3, <2>4 DEF Kill, Forget, Emit
<1>8. TypeOK'
  BY <1>0, <1>1, <1>3, <1>4, <1>6, <1>7 DEF TypeOK
<1>9. PlaceInv'
  <2>1. Running' \subseteq Running
    <3>. SUFFICES ASSUME NEW j \in agents', owner'[j] = session', state'[j] \notin Ended
                  PROVE  j \in agents /\ owner[j] = session /\ state[j] \notin Ended
      BY DEF Running
    <3>1. j \in agents /\ j \in Ids
      BY <1>0, <1>1, Bounds
    <3>2. state'[j] = state[j]
      BY <3>1, <1>6
    <3>. QED BY <3>1, <3>2, <1>1
  <2>2. Cardinality(Running)' <= MaxConcurrent
    BY <2>1, <1>0, NoNewPlace DEF PlaceInv
  <2>3. \A j \in agents' : j \in agents /\ state'[j] = state[j] /\ told'[j] = told[j]
    BY <1>0, <1>1, <1>6, <1>7, Bounds
  <2>. QED BY <2>2, <2>3, <1>0, <1>1 DEF PlaceInv, Live
<1>10. TaskInv'
  <2>1. \A j \in Ids : cancel'[j] => Live(j)' /\ j \notin agents'
    BY <1>0, <1>1, <1>3 DEF TaskInv, Live
  <2>2. told'[i] # <<>> /\ told'[i][1] # "aborted" => told'[i] = told[i]
    <3>1. "aborted" \in Ended /\ (told[i] = <<>> <=> ~emitted[i])
      BY <1>0 DEF Ended, TaskInv
    <3>2. Append(<<>>, "aborted")[1] = "aborted"
      BY <3>1, FirstWord
    <3>3. CASE told' = [told EXCEPT ![i] = Append(@, "aborted")] /\ ~emitted[i]
      BY <3>1, <3>2, <3>3, <1>0 DEF TypeOK
    <3>4. CASE told' = told
      BY <3>4
    <3>. QED BY <3>3, <3>4, <1>5
  <2>3. \A j \in Ids : cancel'[j] /\ ph'[j] = "new" => row'[j] = "aborted"
    BY <1>0, <1>1, <1>2, <1>3 DEF TaskInv
  <2>4. \A j \in Ids : j > spawned => j # i
    BY <1>1, <1>0, Bounds
  <2>. QED BY <2>1, <2>2, <2>3, <2>4, <1>0, <1>1, <1>2, <1>6, <1>7 DEF TaskInv
<1>11. RowsTellTheTruth'
  BY <1>0, <1>1, <1>2, Bounds DEF RowsTellTheTruth, Live
<1>. QED BY <1>8, <1>9, <1>10, <1>11 DEF AInv

(* The session made anew starts with no agent, crash or not. *)
LEMMA RestartStep ==
  ASSUME AInv, Evict \/ Crash
  PROVE  AInv'
<1>0. TypeOK /\ PlaceInv /\ TaskInv /\ RowsTellTheTruth
  BY DEF AInv
<1>1. /\ UNCHANGED <<spawned, owner, agents, state, emitted, told, job, row>>
      /\ session' = session + 1 /\ session' \in 0..MaxRestarts /\ LoadJobs
  BY <1>0, Bounds, AgentAssumption DEF Evict, Crash, agentVars, TypeOK
<1>2. /\ ph' \in [Ids -> {"none", "new", "run", "over", "lost"}] /\ cancel' \in [Ids -> BOOLEAN]
      /\ spawner' \in [Ids -> {"none", "hook", "back", "late"}]
      /\ \A j \in Ids :
           /\ ph'[j] = ph[j] \/ (Live(j) /\ ph'[j] = "lost")
           /\ cancel'[j] => cancel[j] /\ ph'[j] = ph[j]
           /\ spawner'[j] = spawner[j] \/ (spawner[j] = "hook" /\ spawner'[j] = "late")
  BY <1>0 DEF Evict, Crash, TypeOK, Live
<1>3. TypeOK'
  <2>1. owner' \in [Ids -> 0..session']
    BY <1>0, <1>1, Bounds DEF TypeOK
  <2>2. loaded' \in [Ids -> Statuses]
    BY <1>0, <1>1 DEF LoadJobs, TypeOK, Statuses
  <2>. QED BY <1>0, <1>1, <1>2, <2>1, <2>2 DEF TypeOK
<1>4. PlaceInv'
  <2>1. Running' \subseteq Running
    BY <1>0, <1>1, Bounds DEF Running
  <2>2. Cardinality(Running)' <= MaxConcurrent
    BY <2>1, <1>0, NoNewPlace DEF PlaceInv
  <2>. QED BY <2>2, <1>0, <1>1, <1>2, Bounds DEF PlaceInv, Live
<1>5. TaskInv'
  <2>1. \A j \in Ids : owner'[j] < session'
    BY <1>0, <1>1, Bounds
  <2>2. \A j \in Ids : /\ ph'[j] = "none" <=> ph[j] = "none"
                       /\ ph[j] = "over" => ph'[j] = "over"
                       /\ cancel'[j] => Live(j)' /\ cancel[j]
                       /\ ph'[j] = "new" => ph[j] = "new"
    BY <1>0, <1>2 DEF Live, TaskInv
  <2>. QED BY <2>1, <2>2, <1>0, <1>1 DEF TaskInv
<1>6. RowsTellTheTruth'
  BY <1>0, <1>1, <1>2, Bounds DEF RowsTellTheTruth, Live
<1>. QED BY <1>3, <1>4, <1>5, <1>6 DEF AInv

-----------------------------------------------------------------------------
(* The invariant: places, tasks, rows and completions agree in every       *)
(* interleaving of spawns, kills, jobs, evictions and crashes.             *)
THEOREM InvariantHolds == Spec => []AInv
<1>1. AInv /\ [Next]_vars => AInv'
  <2>1. ASSUME AInv, NEW i \in Ids, Agent(i) PROVE AInv'
    <3>1. CASE Spawn(i)
      BY <2>1, <3>1, RegisterStep DEF Spawn
    <3>2. CASE SpawnSuspended(i)
      BY <2>1, <3>2, RegisterStep DEF SpawnSuspended
    <3>3. CASE SpawnResumes(i) \/ SpawnCancelled(i)
      BY <2>1, <3>3, SpawnerStep
    <3>4. CASE JobStarts(i) \/ JobUnborn(i) \/ CancelSwallowed(i)
      BY <2>1, <3>4, TaskMoves
    <3>5. CASE \E s \in Ended : JobEnds(i, s)
      BY <2>1, <3>5, JobEnd
    <3>6. CASE Kill(i)
      BY <2>1, <3>6, KillStep
    <3>. QED BY <2>1, <3>1, <3>2, <3>3, <3>4, <3>5, <3>6 DEF Agent, Job
  <2>2. ASSUME AInv, UNCHANGED vars PROVE AInv'
    BY <2>2 DEF AInv, TypeOK, PlaceInv, TaskInv, RowsTellTheTruth, Running, Live, vars, agentVars, jobVars
  <2>. QED BY <2>1, <2>2, RestartStep DEF Next
<1>. QED BY <1>1, InitHolds, PTL DEF Spec

(* Every variable of the agents keeps its type. *)
THEOREM TypeCorrect == Spec => []TypeOK
<1>1. AInv => TypeOK
  BY DEF AInv
<1>. QED BY <1>1, InvariantHolds, PTL

(* The cap of issue #246 holds for every cap: no interleaving of ends,     *)
(* kills and suspended spawns lets one job too many in.                    *)
THEOREM CapIsRespected == Spec => []CapHolds
<1>1. AInv => CapHolds
  <2>. SUFFICES ASSUME AInv PROVE CapHolds
    OBVIOUS
  <2>1. TypeOK /\ PlaceInv
    BY DEF AInv
  <2>2. { i \in agents : owner[i] = session /\ Live(i) } \subseteq Running
    BY <2>1 DEF PlaceInv, Running, Ended
  <2>3. /\ Cardinality({ i \in agents : owner[i] = session /\ Live(i) }) <= Cardinality(Running)
        /\ Cardinality({ i \in agents : owner[i] = session /\ Live(i) }) \in Nat
    <3>1. IsFiniteSet(Running)
      BY <2>1, Bounds
    <3>. QED BY <3>1, <2>2, FS_Subset, FS_CardinalityType
  <2>. QED BY <2>1, <2>3, Bounds, AgentAssumption DEF PlaceInv, CapHolds
<1>. QED BY <1>1, InvariantHolds, PTL

(* No end of a job and no kill leaks a place, unless it came while spawn() *)
(* was suspended.                                                          *)
THEOREM PlacesAreFreed == Spec => []NoPlaceLeaks
<1>1. AInv => NoPlaceLeaks
  BY Bounds DEF AInv, PlaceInv, TaskInv, NoPlaceLeaks, Running
<1>. QED BY <1>1, InvariantHolds, PTL

(* The rows of agent_graph.db say who is at work, over evictions and       *)
(* crashes.                                                                *)
THEOREM RowsAreTrue == Spec => []RowsTellTheTruth
<1>1. AInv => RowsTellTheTruth
  BY DEF AInv
<1>. QED BY <1>1, InvariantHolds, PTL

(* The desktop hears of each agent once, and what the database holds,      *)
(* unless the agent was killed.                                            *)
THEOREM ToldOnce == Spec => []ToldIsStored
<1>1. AInv => ToldIsStored
  BY Bounds DEF AInv, TaskInv, ToldIsStored
<1>. QED BY <1>1, InvariantHolds, PTL

-----------------------------------------------------------------------------
(* Why every agent reports *)

(* What an agent at work may be told: nothing yet, and not by its task     *)
(* that it was cancelled.                                                  *)
LEMMA WorkersAreFree ==
  ASSUME AInv, NEW i \in Ids, AtWork(i)
  PROVE  told[i] = <<>> /\ ~emitted[i] /\ ~cancel[i] /\ i <= spawned /\ i \in Nat /\ spawned \in Nat
<1>1. i <= spawned /\ i \in Nat /\ spawned \in Nat
  BY Bounds DEF AInv, AtWork
<1>. QED BY <1>1 DEF AInv, AtWork, PlaceInv, TaskInv

(* The word that ends its work is the only one.                            *)
LEMMA EmitReports ==
  ASSUME AInv, NEW i \in Ids, AtWork(i), NEW s \in Ended, Emit(i, s), state' = [state EXCEPT ![i] = s]
  PROVE  Reported(i)'
<1>1. told[i] = <<>> /\ ~emitted[i]
  BY WorkersAreFree
<1>2. told' = [told EXCEPT ![i] = Append(<<>>, s)]
  BY <1>1 DEF Emit, AInv, TypeOK
<1>3. told'[i] = Append(<<>>, s) /\ state'[i] = s
  BY <1>2 DEF AInv, TypeOK
<1>. QED BY <1>3, FirstWord DEF Reported

LEMMA OwnSteps ==
  ASSUME AInv, NEW i \in Ids, AtWork(i), Job(i)
  PROVE  (ph[i] = "new" /\ ph'[i] = "run" /\ AtWork(i)') \/ Reported(i)'
<1>1. ~cancel[i]
  BY WorkersAreFree
<1>2. CASE JobStarts(i)
  BY <1>2 DEF JobStarts, agentVars, AtWork, Live, AInv, TypeOK
<1>3. ASSUME NEW s \in Ended, JobEnds(i, s) PROVE Reported(i)'
  <2>1. s \in {"completed", "error"} /\ i \in agents /\ state[i] = "thinking"
    BY <1>1, <1>3 DEF JobEnds, AtWork, Ended
  <2>2. Emit(i, s) /\ state' = [state EXCEPT ![i] = s]
    BY <1>3, <2>1 DEF JobEnds, Notify, Valid, Ended
  <2>. QED BY <2>2, EmitReports
<1>. QED BY <1>1, <1>2, <1>3 DEF Job, JobUnborn, CancelSwallowed

LEMMA OtherSteps ==
  ASSUME AInv, NEW i \in Ids, AtWork(i), [Next]_vars, ~Job(i)
  PROVE  AtWork(i)' \/ Reported(i)' \/ ph'[i] = "lost"
<1> USE DEF AInv, TypeOK
<1>1. i <= spawned /\ i \in Nat /\ spawned \in Nat
  BY WorkersAreFree
<1>2. ASSUME NEW j \in Ids, Spawn(j) \/ SpawnSuspended(j) PROVE AtWork(i)'
  <2>1. j # i
    BY <1>1, <1>2 DEF Spawn, SpawnSuspended, Register
  <2>. QED BY <1>2, <2>1 DEF Spawn, SpawnSuspended, Register, AtWork, Live
<1>3. ASSUME NEW j \in Ids, SpawnResumes(j) \/ SpawnCancelled(j) PROVE AtWork(i)'
  BY <1>3 DEF SpawnResumes, SpawnCancelled, agentVars, AtWork, Live
<1>4. ASSUME NEW j \in Ids, Job(j) PROVE AtWork(i)'
  <2>1. j # i
    BY <1>4
  <2>2. ph'[i] = ph[i] /\ agents' = agents /\ state'[i] = state[i]
    BY <1>4, <2>1 DEF Job, JobStarts, JobUnborn, CancelSwallowed, JobEnds, Notify, agentVars
  <2>. QED BY <2>2 DEF AtWork, Live
<1>5. ASSUME NEW j \in Ids, Kill(j) PROVE AtWork(i)' \/ Reported(i)'
  <2>1. CASE j = i /\ owner[i] = session
    <3>1. Emit(i, "aborted") /\ state' = [state EXCEPT ![i] = "aborted"]
      BY <1>5, <2>1 DEF Kill, Forget, AtWork, Ended
    <3>. QED BY <3>1, EmitReports DEF Ended
  <2>2. CASE ~(j = i /\ owner[i] = session)
    BY <1>5, <2>2 DEF Kill, Forget, AtWork, Live
  <2>. QED BY <2>1, <2>2
<1>6. CASE Evict
  BY <1>6 DEF Evict, agentVars, AtWork, Live
<1>7. CASE Crash
  BY <1>7 DEF Crash, AtWork
<1>8. CASE UNCHANGED vars
  BY <1>8 DEF vars, agentVars, AtWork, Live
<1>. QED BY <1>2, <1>3, <1>4, <1>5, <1>6, <1>7, <1>8 DEF Next, Agent

(* Nothing takes an agent at work out of the list, or its task away, but   *)
(* the step that reports its end, or the end of the process.               *)
THEOREM NobodyEndsInSilence == Spec => NoSilentEnd
<1>1. AInv /\ [Next]_vars =>
        [\A i \in Ids : AtWork(i) => AtWork(i)' \/ Reported(i)' \/ ph'[i] = "lost"]_vars
  BY OwnSteps, OtherSteps
<1>. QED BY <1>1, InvariantHolds, PTL DEF Spec, NoSilentEnd

(* The task of an agent at work reports in its second step at the latest.  *)
THEOREM WorkTakesTwoSteps == Spec => TwoStepsOfWork
<1>1. AInv /\ [Next]_vars =>
        [\A i \in Ids :
           AtWork(i) /\ Job(i) => (ph[i] = "new" /\ ph'[i] = "run" /\ AtWork(i)') \/ Reported(i)']_vars
  BY OwnSteps
<1>. QED BY <1>1, InvariantHolds, PTL DEF Spec, TwoStepsOfWork
=============================================================================
