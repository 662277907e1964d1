------------------------ MODULE SandboxManagerProofs ------------------------
(***************************************************************************)
(* Proofs about SandboxManager for every set of keys, every finite set of  *)
(* concurrent calls, every cap and any number of starts.                   *)
(***************************************************************************)
EXTENDS SandboxManager, FiniteSetTheorems, FunctionTheorems, TLAPS

(* Calls hold at most one key each. *)
LEMMA FewKeys ==
  ASSUME NEW f \in [Calls -> Keys], NEW S \in SUBSET Calls
  PROVE  LET T == { f[c] : c \in S }
         IN  IsFiniteSet(T) /\ Cardinality(T) \in Nat /\ Cardinality(T) <= Cardinality(Calls)
<1> DEFINE T == { f[c] : c \in S }
           g == [k \in T |-> CHOOSE c \in S : f[c] = k]
<1>1. \A k \in T : g[k] \in S /\ f[g[k]] = k
  OBVIOUS
<1>2. g \in [T -> Calls]
  <2>1. \A k \in T : g[k] \in Calls
    BY <1>1
  <2>. QED BY <2>1
<1>3. \A j, k \in T : g[j] = g[k] => j = k
  BY <1>1
<1> HIDE DEF g, T
<1>4. g \in Injection(T, Calls)
  BY <1>2, <1>3, Fun_IsInj
<1>5. IsFiniteSet(T) /\ Cardinality(T) <= Cardinality(Calls)
  BY <1>4, SandboxAssumption, FS_Injection
<1>6. Cardinality(T) \in Nat
  BY <1>5, FS_CardinalityType
<1>. QED BY <1>5, <1>6 DEF T

LEMMA CallsCounted == Cardinality(Calls) \in Nat /\ Cardinality(Calls) > 0
<1>1. Cardinality(Calls) \in Nat
  BY SandboxAssumption, FS_CardinalityType
<1>2. Cardinality(Calls) # 0
  BY SandboxAssumption, FS_EmptySet
<1>. QED BY <1>1, <1>2

-----------------------------------------------------------------------------
(* What happens to _sandboxes                                              *)

Distinct == \A i, j \in DOMAIN boxes : boxes[i] = boxes[j] => i = j

LEMMA SeqOfFunction ==
  ASSUME NEW S, NEW n \in Nat, NEW f \in [1..n -> S]
  PROVE  f \in Seq(S) /\ Len(f) = n
  OBVIOUS

LEMMA PopFacts ==
  ASSUME TypeOK, NEW i \in DOMAIN boxes, Pop(i)
  PROVE  /\ boxes' \in Seq(Keys) /\ Distinct' /\ boxes[i] \in Keys
         /\ Len(boxes') = Len(boxes) - 1 /\ Len(boxes) > 0
         /\ Registered' = Registered \ {boxes[i]}
         /\ early' = early \ {boxes[i]}
<1> DEFINE n == Len(boxes) - 1
<1>1. boxes \in Seq(Keys) /\ Distinct /\ i \in 1..Len(boxes) /\ DOMAIN boxes = 1..Len(boxes)
  BY DEF TypeOK, Distinct
<1>2. n \in Nat /\ Len(boxes) = n + 1
  BY <1>1
<1>3. /\ DOMAIN boxes' = 1..n
      /\ \A j \in 1..n : boxes'[j] = IF j < i THEN boxes[j] ELSE boxes[j + 1]
  BY DEF Pop
<1>4. \A j \in 1..n : boxes'[j] \in Keys
  BY <1>1, <1>2, <1>3
<1>5. boxes' \in [1..n -> Keys]
  BY <1>4 DEF Pop
<1>6. boxes' \in Seq(Keys) /\ Len(boxes') = n
  BY <1>2, <1>5, SeqOfFunction
<1>7. Distinct'
  <2>1. SUFFICES ASSUME NEW a \in 1..n, NEW b \in 1..n, boxes'[a] = boxes'[b] PROVE a = b
    BY <1>3 DEF Distinct
  <2> DEFINE at(j) == IF j < i THEN j ELSE j + 1
  <2>2. at(a) \in DOMAIN boxes /\ at(b) \in DOMAIN boxes /\ boxes[at(a)] = boxes[at(b)]
    BY <1>1, <1>2, <1>3, <2>1
  <2>3. at(a) = at(b)
    BY <1>1, <2>2 DEF Distinct
  <2>. QED BY <1>1, <1>2, <2>3
<1>8. Registered' = Registered \ {boxes[i]}
  <2>1. ASSUME NEW k \in Registered' PROVE k \in Registered \ {boxes[i]}
    <3>1. PICK j \in 1..n : boxes'[j] = k
      BY <1>3, <2>1 DEF Registered
    <3>2. CASE j < i
      BY <1>1, <1>2, <1>3, <3>1, <3>2 DEF Registered, Distinct
    <3>3. CASE ~(j < i)
      <4>1. j + 1 \in DOMAIN boxes /\ boxes[j + 1] = k /\ j + 1 # i
        BY <1>1, <1>2, <1>3, <3>1, <3>3
      <4>. QED BY <1>1, <4>1 DEF Registered, Distinct
    <3>. QED BY <3>2, <3>3
  <2>2. ASSUME NEW k \in Registered \ {boxes[i]} PROVE k \in Registered'
    <3>1. PICK j \in 1..(n + 1) : boxes[j] = k
      BY <1>1, <1>2, <2>2 DEF Registered
    <3>2. CASE j < i
      <4>1. j \in 1..n /\ boxes'[j] = k
        BY <1>1, <1>2, <1>3, <3>1, <3>2
      <4>. QED BY <1>3, <4>1 DEF Registered
    <3>3. CASE ~(j < i)
      <4>1. j # i
        BY <2>2, <3>1
      <4>2. j - 1 \in 1..n /\ boxes'[j - 1] = k
        BY <1>1, <1>2, <1>3, <3>1, <3>3, <4>1
      <4>. QED BY <1>3, <4>2 DEF Registered
    <3>. QED BY <3>2, <3>3
  <2>. QED BY <2>1, <2>2
<1>9. boxes[i] \in Keys
  BY <1>1
<1>. QED BY <1>2, <1>6, <1>7, <1>8, <1>9 DEF Pop

LEMMA AppendFacts ==
  ASSUME TypeOK, NEW k \in Keys, k \notin Registered, boxes' = Append(boxes, k)
  PROVE  /\ boxes' \in Seq(Keys) /\ Distinct'
         /\ Len(boxes') = Len(boxes) + 1
         /\ Registered' = Registered \cup {k}
<1>1. boxes \in Seq(Keys) /\ Distinct /\ DOMAIN boxes = 1..Len(boxes) /\ Len(boxes) \in Nat
  BY DEF TypeOK, Distinct
<1>2. boxes' \in Seq(Keys) /\ Len(boxes') = Len(boxes) + 1 /\ DOMAIN boxes' = 1..(Len(boxes) + 1)
  BY <1>1
<1>3. (\A j \in 1..Len(boxes) : boxes'[j] = boxes[j]) /\ boxes'[Len(boxes) + 1] = k
  BY <1>1
<1>4. Registered' = Registered \cup {k}
  <2>1. \A x \in Registered' : x \in Registered \cup {k}
    <3> SUFFICES ASSUME NEW j \in 1..(Len(boxes) + 1) PROVE boxes'[j] \in Registered \cup {k}
      BY <1>2 DEF Registered
    <3>1. j \in 1..Len(boxes) \/ j = Len(boxes) + 1
      BY <1>1
    <3>. QED BY <1>1, <1>3, <3>1 DEF Registered
  <2>2. \A x \in Registered : x \in Registered'
    <3> SUFFICES ASSUME NEW j \in 1..Len(boxes) PROVE boxes[j] \in Registered'
      BY <1>1 DEF Registered
    <3>1. j \in DOMAIN boxes' /\ boxes'[j] = boxes[j]
      BY <1>1, <1>2, <1>3
    <3>. QED BY <3>1 DEF Registered
  <2>3. k \in Registered'
    <3>1. Len(boxes) + 1 \in DOMAIN boxes'
      BY <1>1, <1>2
    <3>. QED BY <1>3, <3>1 DEF Registered
  <2>. QED BY <2>1, <2>2, <2>3
<1>5. Distinct'
  <2>1. SUFFICES ASSUME NEW a \in 1..(Len(boxes) + 1), NEW b \in 1..(Len(boxes) + 1), boxes'[a] = boxes'[b]
                 PROVE  a = b
    BY <1>2 DEF Distinct
  <2>2. \A j \in 1..Len(boxes) : boxes'[j] # k
    BY <1>1, <1>3 DEF Registered
  <2>3. CASE a \in 1..Len(boxes) /\ b \in 1..Len(boxes)
    BY <1>1, <1>3, <2>1, <2>3 DEF Distinct
  <2>4. CASE a = Len(boxes) + 1 \/ b = Len(boxes) + 1
    BY <1>1, <1>3, <2>1, <2>2, <2>4
  <2>. QED BY <1>1, <2>3, <2>4
<1>. QED BY <1>2, <1>4, <1>5

LEMMA EmptyFacts ==
  ASSUME boxes' = <<>>
  PROVE  boxes' \in Seq(Keys) /\ Distinct' /\ Registered' = {} /\ Len(boxes') = 0
  BY DEF Distinct, Registered

-----------------------------------------------------------------------------
(* What happens to _creating                                               *)

LEMMA Moved ==
  ASSUME TypeOK, NEW c \in Calls, NEW p \in Places, Goto(c, p)
  PROVE  /\ pc' \in [Calls -> Places] /\ pc'[c] = p
         /\ \A d \in Calls \ {c} : pc'[d] = pc[d]
         /\ Creators' = IF p \in Creation THEN Creators \cup {c} ELSE Creators \ {c}
  BY DEF TypeOK, Goto, Creators

(* A call that has claimed a new key. *)
LEMMA ClaimKeys ==
  ASSUME SInv, NEW c \in Calls, pc[c] \notin Creation, key' \in [Calls -> Keys],
         \A d \in Calls \ {c} : key'[d] = key[d],
         key'[c] \notin Registered \cup creating,
         Creators' = Creators \cup {c}, creating' = creating \cup {key'[c]},
         Registered' \subseteq Registered
  PROVE  CreatedOnce'
<1>1. c \notin Creators /\ Creators \subseteq Calls
  BY DEF Creators
<1>2. \A d \in Creators : key'[d] = key[d] /\ key[d] # key'[c]
  BY <1>1 DEF SInv, CreatedOnce
<1>3. creating' = { key'[d] : d \in Creators' }
  BY <1>1, <1>2 DEF SInv, CreatedOnce
<1>4. creating' \cap Registered' = {}
  BY DEF SInv, CreatedOnce
<1>5. ASSUME NEW a \in Creators', NEW b \in Creators', key'[a] = key'[b] PROVE a = b
  BY <1>1, <1>2, <1>5 DEF SInv, CreatedOnce
<1>. QED BY <1>3, <1>4, <1>5 DEF CreatedOnce

(* A call that leaves the creation. *)
LEMMA ReleaseKeys ==
  ASSUME SInv, NEW c \in Creators, key' = key,
         Creators' = Creators \ {c}, creating' = creating \ {key[c]},
         Registered' \subseteq Registered \cup {key[c]}
  PROVE  CreatedOnce'
<1>1. creating' = { key'[d] : d \in Creators' }
  BY DEF SInv, CreatedOnce
<1>2. creating' \cap Registered' = {}
  BY DEF SInv, CreatedOnce
<1>. QED BY <1>1, <1>2 DEF SInv, CreatedOnce

LEMMA KeepKeys ==
  ASSUME SInv, key' = key \/ (\E c \in Calls \ Creators : \A d \in Calls \ {c} : key'[d] = key[d]),
         Creators' = Creators, creating' = creating, Registered' \subseteq Registered
  PROVE  CreatedOnce'
<1>1. \A d \in Creators : key'[d] = key[d]
  BY DEF Creators
<1>. QED BY <1>1 DEF SInv, CreatedOnce

(* The size of _creating. *)
LEMMA FewCreating ==
  /\ TypeOK /\ CreatedOnce => /\ IsFiniteSet(creating) /\ Cardinality(creating) \in Nat
                              /\ Cardinality(creating) <= Cardinality(Calls)
  /\ (TypeOK /\ CreatedOnce)' => /\ IsFiniteSet(creating') /\ Cardinality(creating') \in Nat
                                 /\ Cardinality(creating') <= Cardinality(Calls)
<1>1. TypeOK => Creators \subseteq Calls /\ key \in [Calls -> Keys]
  BY DEF TypeOK, Creators
<1>2. TypeOK' => Creators' \subseteq Calls /\ key' \in [Calls -> Keys]
  BY DEF TypeOK, Creators
<1>. QED BY <1>1, <1>2, FewKeys DEF CreatedOnce

LEMMA OneLess ==
  ASSUME TypeOK, CreatedOnce, NEW c \in Creators
  PROVE  Cardinality(creating \ {key[c]}) = Cardinality(creating) - 1
<1>1. key[c] \in creating
  BY DEF CreatedOnce
<1>. QED BY <1>1, FewCreating, FS_RemoveElement

LEMMA OneMore ==
  ASSUME TypeOK, CreatedOnce, NEW k, k \notin creating
  PROVE  Cardinality(creating \cup {k}) = Cardinality(creating) + 1
  BY FewCreating, FS_AddElement

-----------------------------------------------------------------------------
LEMMA InitInv == Init => SInv
<1> SUFFICES ASSUME Init PROVE SInv
  OBVIOUS
<1>1. Registered = {} /\ Creators = {} /\ Len(boxes) = 0
  BY DEF Init, Registered, Creators, Creation
<1>2. TypeOK
  <2>1. boxes \in Seq(Keys) /\ DOMAIN boxes = {}
    BY DEF Init
  <2>2. pc \in [Calls -> Places] /\ starts \in 0..MaxStarts
    BY SandboxAssumption DEF Init, Places
  <2>. QED BY <2>1, <2>2 DEF Init, TypeOK, Boots
<1>3. CreatedOnce
  BY <1>1 DEF Init, CreatedOnce
<1>4. CapByCallers
  BY <1>1, CallsCounted, FS_EmptySet, SandboxAssumption DEF Init, CapByCallers
<1>. QED BY <1>1, <1>2, <1>3, <1>4 DEF Init, SInv, Listed, EarlyInv, Starting, Up

(* Steps of the bridge process that leave the manager's memory alone: the  *)
(* file is removed only while every registered sandbox is an early one.    *)
LEMMA QuietStep ==
  ASSUME SInv,
         Boot \/ NotAvailable \/ ReadState \/ Scan \/ ScanEnds
           \/ \E k \in Keys : CleanOne(k) \/ DestroyOne(k)
  PROVE  SInv'
<1>1. UNCHANGED <<memVars, callVars>>
  BY DEF Boot, NotAvailable, ReadState, Scan, ScanEnds, CleanOne, DestroyOne
<1>2. /\ boxes' = boxes /\ creating' = creating /\ early' = early /\ pc' = pc /\ key' = key /\ victim' = victim
      /\ Registered' = Registered /\ Creators' = Creators
  BY <1>1 DEF memVars, callVars, Registered, Creators
<1>3. /\ dirs' \subseteq Keys /\ file' \subseteq Keys /\ damaged' \in BOOLEAN
      /\ boot' \in Boots /\ stale' \subseteq Keys /\ failed' \in BOOLEAN /\ starts' \in 0..MaxStarts
  <2> USE DEF SInv, TypeOK, Boots, disk
  <2>1. CASE Boot
    BY <2>1, SandboxAssumption DEF Boot
  <2>2. CASE NotAvailable \/ ReadState \/ Scan \/ ScanEnds
    BY <2>2 DEF NotAvailable, ReadState, Scan, ScanEnds, ClearFile
  <2>3. ASSUME NEW k \in Keys, CleanOne(k) PROVE <1>3!:
    BY <2>3 DEF CleanOne, ClearFile, Removed, Remove
  <2>4. ASSUME NEW k \in Keys, DestroyOne(k) PROVE <1>3!:
    BY <2>4 DEF DestroyOne, ClearFile, Removed, Remove
  <2>. QED BY <2>1, <2>2, <2>3, <2>4
<1>4. TypeOK'
  BY <1>2, <1>3 DEF SInv, TypeOK
<1>5. CreatedOnce' /\ CapByCallers'
  BY <1>2 DEF SInv, CreatedOnce, CapByCallers
<1>6. Listed'
  <2>1. file' = file \/ boot \in Starting \cup {"closing"}
    BY DEF Boot, NotAvailable, ReadState, Scan, ScanEnds, CleanOne, DestroyOne, disk, Starting
  <2>2. boot \in Starting \cup {"closing"} => Registered \subseteq early
    BY DEF SInv, EarlyInv, Up, Registered
  <2>. QED BY <1>2, <2>1, <2>2 DEF SInv, Listed
<1>7. EarlyInv'
  <2>1. boot' \in Starting => boot \in Starting \cup {"down"}
    BY DEF Boot, NotAvailable, ReadState, Scan, ScanEnds, CleanOne, DestroyOne, Starting
  <2>2. ~Up' => ~Up
    BY DEF Boot, NotAvailable, ReadState, Scan, ScanEnds, CleanOne, DestroyOne, Up
  <2>3. boot = "down" => Registered = {}
    BY DEF SInv, EarlyInv, Up, Registered
  <2>. QED BY <1>2, <2>1, <2>2, <2>3 DEF SInv, EarlyInv
<1>. QED BY <1>4, <1>5, <1>6, <1>7 DEF SInv

(* The end of the process, in good order or not: the memory is gone. *)
LEMMA EndStep == SInv /\ (Shutdown \/ Crash) => SInv'
<1> SUFFICES ASSUME SInv, Shutdown \/ Crash PROVE SInv'
  OBVIOUS
<1>1. /\ boxes' = <<>> /\ creating' = {} /\ early' = {}
      /\ pc' = [c \in Calls |-> "idle"] /\ UNCHANGED <<key, victim, starts, failed, dirs>>
  BY DEF Shutdown, Crash, Forget
<1>2. Registered' = {} /\ Creators' = {} /\ Len(boxes') = 0 /\ boxes' \in Seq(Keys) /\ Distinct'
  BY <1>1, EmptyFacts DEF Creators, Creation
<1>3. Registered \subseteq Keys
  BY DEF SInv, TypeOK, Registered
<1>4. TypeOK'
  BY <1>1, <1>2, <1>3 DEF SInv, TypeOK, Shutdown, Crash, ClearFile, Boots, Places, Distinct
<1>5. CreatedOnce'
  BY <1>1, <1>2 DEF CreatedOnce
<1>6. CapByCallers'
  BY <1>1, <1>2, CallsCounted, FS_EmptySet, SandboxAssumption DEF CapByCallers
<1>7. boot' \notin Starting
  BY DEF Shutdown, Crash, Starting
<1>. QED BY <1>1, <1>2, <1>4, <1>5, <1>6, <1>7 DEF SInv, Listed, EarlyInv

(* The part of get_or_create under the first lock. *)
LEMMA ClaimStep ==
  ASSUME SInv, NEW c \in Calls, pc[c] \in {"idle", "asking"}, Up,
         key' \in [Calls -> Keys], \A d \in Calls \ {c} : key'[d] = key[d],
         Claim(c, key'[c]), UNCHANGED <<disk, bootVars>>
  PROVE  SInv'
<1> DEFINE k == key'[c]
<1> USE DEF SInv
<1>1. k \in Keys /\ k \notin Registered /\ k \notin creating /\ creating' = creating \cup {k}
  BY DEF Claim
<1>2. UNCHANGED <<dirs, file, damaged, boot, stale, failed, starts>>
  BY DEF disk, bootVars
<1>3. c \notin Creators /\ pc[c] \notin Creation
  BY DEF Creators, Creation
<1>4. ASSUME Len(boxes) >= MaxSandboxes
      PROVE  /\ boxes' \in Seq(Keys) /\ Distinct' /\ Len(boxes') = Len(boxes) - 1
             /\ Registered' \subseteq Registered /\ Registered' \ early' \subseteq Registered \ early
             /\ early' \subseteq Keys /\ Goto(c, "evict") /\ victim' \in [Calls -> Keys]
             /\ (Registered \subseteq early => Registered' \subseteq early')
  <2>1. Pop(1) /\ victim' = [victim EXCEPT ![c] = boxes[1]] /\ Goto(c, "evict")
    BY <1>4 DEF Claim, Oldest
  <2>2. boxes \in Seq(Keys) /\ 1 \in DOMAIN boxes
    BY <1>4, SandboxAssumption DEF TypeOK
  <2>3. /\ boxes' \in Seq(Keys) /\ Distinct' /\ Len(boxes') = Len(boxes) - 1
        /\ Registered' = Registered \ {boxes[1]} /\ early' = early \ {boxes[1]} /\ boxes[1] \in Keys
    BY <2>1, <2>2, PopFacts
  <2>. QED BY <2>1, <2>3 DEF TypeOK
<1>5. ASSUME ~(Len(boxes) >= MaxSandboxes)
      PROVE  UNCHANGED <<boxes, early, victim>> /\ Goto(c, "mkdir")
  BY <1>5 DEF Claim
<1>6. /\ boxes' \in Seq(Keys) /\ Distinct' /\ early' \subseteq Keys /\ victim' \in [Calls -> Keys]
      /\ Registered' \subseteq Registered /\ Registered' \ early' \subseteq Registered \ early
      /\ (Registered \subseteq early => Registered' \subseteq early')
  BY <1>4, <1>5 DEF TypeOK, Distinct, Registered
<1>7. \E p \in {"evict", "mkdir"} : Goto(c, p)
  BY <1>4, <1>5
<1>8. pc' \in [Calls -> Places] /\ Creators' = Creators \cup {c}
  BY <1>7, Moved DEF Places, Creation
<1>9. TypeOK'
  BY <1>1, <1>2, <1>6, <1>8 DEF TypeOK, Distinct
<1>10. CreatedOnce'
  BY <1>1, <1>3, <1>6, <1>8, ClaimKeys
<1>11. CapByCallers'
  <2>1. Len(boxes) \in Nat /\ Len(boxes') \in Nat /\ MaxSandboxes \in Nat
    BY <1>9, SandboxAssumption DEF TypeOK
  <2>2. Cardinality(creating') = Cardinality(creating) + 1 /\ Cardinality(creating) \in Nat
    BY <1>1, OneMore, FewCreating
  <2>3. Cardinality(creating') <= Cardinality(Calls) /\ Cardinality(Calls) \in Nat
    BY <1>9, <1>10, FewCreating, CallsCounted
  <2>4. CASE Len(boxes) >= MaxSandboxes
    BY <1>4, <2>1, <2>2, <2>3, <2>4 DEF CapByCallers
  <2>5. CASE ~(Len(boxes) >= MaxSandboxes)
    <3>1. Len(boxes') = Len(boxes) /\ Len(boxes) <= MaxSandboxes - 1
      BY <1>5, <2>1, <2>5
    <3>. QED BY <2>1, <2>2, <2>3, <3>1 DEF CapByCallers
  <2>. QED BY <2>4, <2>5
<1>12. Listed' /\ EarlyInv'
  BY <1>2, <1>6 DEF Listed, EarlyInv, Up
<1>. QED BY <1>9, <1>10, <1>11, <1>12

(* A step of one call that leaves _sandboxes alone. *)
LEMMA CallTypes ==
  ASSUME SInv, NEW c \in Calls, NEW p \in Places, Goto(c, p), UNCHANGED <<bootVars, boxes, early, victim>>,
         dirs' \subseteq Keys, damaged' \in BOOLEAN, file' = file \/ file' = Registered,
         creating' \subseteq creating, key' \in [Calls -> Keys], Up
  PROVE  TypeOK' /\ Listed' /\ EarlyInv' /\ Registered' = Registered
<1>1. pc' \in [Calls -> Places]
  BY Moved DEF SInv
<1>2. Registered' = Registered /\ Registered \subseteq Keys
  BY DEF Registered, SInv, TypeOK
<1>3. TypeOK'
  BY <1>1, <1>2 DEF SInv, TypeOK, bootVars
<1>4. Listed' /\ EarlyInv'
  BY <1>2 DEF SInv, Listed, EarlyInv, Up, bootVars
<1>. QED BY <1>2, <1>3, <1>4

(* A call moves on without touching _creating. *)
LEMMA MoveStep ==
  ASSUME SInv, NEW c \in Calls, NEW p \in Places, Goto(c, p), UNCHANGED <<bootVars, boxes, early, victim>>,
         dirs' \subseteq Keys, damaged' \in BOOLEAN, file' = file \/ file' = Registered,
         creating' = creating, key' \in [Calls -> Keys], Up,
         pc[c] \in Creation <=> p \in Creation,
         key' = key \/ (pc[c] \notin Creation /\ \A d \in Calls \ {c} : key'[d] = key[d])
  PROVE  SInv'
<1>1. TypeOK' /\ Listed' /\ EarlyInv' /\ Registered' = Registered
  BY CallTypes
<1>2. Creators' = Creators
  BY Moved DEF SInv, Creators
<1>3. CreatedOnce'
  BY <1>1, <1>2, KeepKeys DEF Creators
<1>4. CapByCallers'
  BY DEF SInv, CapByCallers
<1>. QED BY <1>1, <1>3, <1>4 DEF SInv

(* A call gives its key back without a sandbox. *)
LEMMA ReleaseStep ==
  ASSUME SInv, NEW c \in Calls, Goto(c, "idle"), UNCHANGED <<bootVars, boxes, early, key, victim>>,
         dirs' \subseteq Keys, damaged' \in BOOLEAN, file' = file \/ file' = Registered,
         pc[c] \in Creation, creating' = creating \ {key[c]}, Up
  PROVE  SInv'
<1>1. "idle" \in Places /\ "idle" \notin Creation /\ c \in Creators
  BY DEF Places, Creation, Creators
<1>2. TypeOK' /\ Listed' /\ EarlyInv' /\ Registered' = Registered
  BY <1>1, CallTypes DEF SInv, TypeOK
<1>3. Creators' = Creators \ {c}
  BY <1>1, Moved DEF SInv
<1>4. CreatedOnce'
  BY <1>1, <1>2, <1>3, ReleaseKeys
<1>5. CapByCallers'
  <2>1. Cardinality(creating') = Cardinality(creating) - 1 /\ Cardinality(creating) \in Nat
    BY <1>1, OneLess, FewCreating DEF SInv
  <2>2. Len(boxes) \in Nat /\ MaxSandboxes \in Nat /\ Cardinality(Calls) \in Nat
    BY CallsCounted, SandboxAssumption DEF SInv, TypeOK
  <2>. QED BY <2>1, <2>2 DEF SInv, CapByCallers
<1>. QED BY <1>2, <1>4, <1>5 DEF SInv

LEMMA RegisterStep ==
  ASSUME SInv, NEW c \in Calls, Register(c), Up PROVE SInv'
<1> DEFINE k == key[c]
<1> USE DEF SInv
<1>1. c \in Creators /\ k \in Keys /\ k \notin Registered /\ pc[c] \in Creation
  BY DEF Register, Creators, Creation, CreatedOnce, TypeOK
<1>2. /\ boxes' \in Seq(Keys) /\ Distinct' /\ Len(boxes') = Len(boxes) + 1
      /\ Registered' = Registered \cup {k}
  BY <1>1, AppendFacts DEF Register
<1>3. "idle" \in Places /\ "idle" \notin Creation /\ Goto(c, "idle")
  BY DEF Places, Creation, Register
<1>4. pc' \in [Calls -> Places] /\ Creators' = Creators \ {c}
  BY <1>3, Moved
<1>5. /\ file' = Registered' /\ damaged' = FALSE /\ UNCHANGED <<dirs, bootVars, key, victim>>
      /\ creating' = creating \ {k}
      /\ early' = IF boot \in Starting THEN early \cup {k} ELSE early
  BY DEF Register, Save, Registered
<1>6. TypeOK'
  <2>1. Registered' \subseteq Keys
    BY <1>1, <1>2 DEF Registered, TypeOK
  <2>. QED BY <1>1, <1>2, <1>4, <1>5, <2>1 DEF TypeOK, Distinct, bootVars
<1>7. CreatedOnce'
  BY <1>1, <1>2, <1>4, <1>5, ReleaseKeys
<1>8. CapByCallers'
  <2>1. Cardinality(creating') = Cardinality(creating) - 1 /\ Cardinality(creating) \in Nat
    BY <1>1, <1>5, OneLess, FewCreating
  <2>2. Len(boxes) \in Nat /\ MaxSandboxes \in Nat /\ Cardinality(Calls) \in Nat
    BY CallsCounted, SandboxAssumption DEF TypeOK
  <2>. QED BY <1>2, <2>1, <2>2 DEF CapByCallers
<1>9. Listed' /\ EarlyInv'
  BY <1>2, <1>5 DEF Listed, EarlyInv, Up, bootVars
<1>. QED BY <1>6, <1>7, <1>8, <1>9

LEMMA DestroyStep ==
  ASSUME SInv, NEW c \in Calls, NEW i \in DOMAIN boxes, Destroy(c, i) PROVE SInv'
<1> USE DEF SInv
<1>1. /\ boxes' \in Seq(Keys) /\ Distinct' /\ boxes[i] \in Keys
      /\ Len(boxes') = Len(boxes) - 1
      /\ Registered' = Registered \ {boxes[i]} /\ early' = early \ {boxes[i]}
  BY PopFacts DEF Destroy
<1>2. Up /\ pc[c] = "idle" /\ Goto(c, "stop") /\ victim' = [victim EXCEPT ![c] = boxes[i]]
      /\ UNCHANGED <<dirs, file, damaged, boot, stale, failed, starts, creating, key>>
  BY DEF Destroy, disk, bootVars
<1>3. "stop" \in Places /\ "stop" \notin Creation /\ c \notin Creators
  BY <1>2 DEF Places, Creation, Creators
<1>4. pc' \in [Calls -> Places] /\ Creators' = Creators
  BY <1>2, <1>3, Moved
<1>5. TypeOK'
  BY <1>1, <1>2, <1>4 DEF TypeOK, Distinct
<1>6. CreatedOnce'
  BY <1>1, <1>2, <1>4, KeepKeys
<1>7. CapByCallers'
  <2>1. Len(boxes) \in Nat /\ MaxSandboxes \in Nat /\ Cardinality(Calls) \in Nat /\ Cardinality(creating) \in Nat
    BY CallsCounted, FewCreating, SandboxAssumption DEF TypeOK
  <2>. QED BY <1>1, <1>2, <2>1 DEF CapByCallers
<1>8. Listed' /\ EarlyInv'
  BY <1>1, <1>2 DEF Listed, EarlyInv, Up
<1>. QED BY <1>5, <1>6, <1>7, <1>8

LEMMA CallStep == ASSUME SInv, NEW c \in Calls, Call(c) PROVE SInv'
<1> USE DEF SInv
<1>1. pc[c] # "idle" => Up
  BY DEF EarlyInv
<1>2. /\ key \in [Calls -> Keys] /\ victim[c] \in Keys /\ key[c] \in Keys
      /\ dirs \subseteq Keys /\ damaged \in BOOLEAN
  BY DEF TypeOK
<1>3. {"idle", "asking", "stop", "evict", "mkdir", "verify", "prepare"} \subseteq Places
  BY DEF Places, Creation
<1>4. Enabled => Up
  BY DEF Enabled, Up, Starting
<1>5. ASSUME NEW k \in Keys, Get(c, k) PROVE SInv'
  <2>1. /\ pc[c] = "idle" /\ Up /\ pc[c] \notin Creation
        /\ key' = [key EXCEPT ![c] = k] /\ UNCHANGED <<disk, bootVars>>
    BY <1>4, <1>5 DEF Get, Creation
  <2>2. /\ key' \in [Calls -> Keys] /\ key'[c] = k
        /\ \A d \in Calls \ {c} : key'[d] = key[d]
    BY <1>2, <2>1
  <2>3. CASE Claim(c, k)
    BY <2>1, <2>2, <2>3, ClaimStep
  <2>4. CASE Found(c, k) \/ (Goto(c, "asking") /\ UNCHANGED <<memVars, victim>>)
    <3>1. \E p \in {"idle", "asking"} : Goto(c, p) /\ UNCHANGED <<memVars, victim>>
      BY <2>4 DEF Found
    <3>2. {"idle", "asking"} \cap Creation = {}
      BY DEF Creation
    <3>3. /\ UNCHANGED <<bootVars, boxes, early, victim>> /\ creating' = creating
          /\ dirs' \subseteq Keys /\ damaged' \in BOOLEAN /\ file' = file
      BY <1>2, <2>1, <3>1 DEF memVars, disk
    <3>. QED BY <1>3, <2>1, <2>2, <3>1, <3>2, <3>3, MoveStep
  <2>. QED BY <1>5, <2>3, <2>4 DEF Get, Enter
<1>6. CASE Asked(c)
  <2>1. pc[c] = "asking" /\ Up /\ UNCHANGED <<disk, bootVars, key>> /\ pc[c] \notin Creation
    BY <1>6 DEF Asked, Creation
  <2>2. CASE Claim(c, key[c])
    BY <1>2, <2>1, <2>2, ClaimStep
  <2>3. CASE Found(c, key[c])
    <3>1. /\ UNCHANGED <<bootVars, boxes, early, victim>> /\ creating' = creating /\ Goto(c, "idle")
          /\ dirs' \subseteq Keys /\ damaged' \in BOOLEAN /\ file' = file /\ "idle" \notin Creation
      BY <1>2, <2>1, <2>3 DEF Found, memVars, disk, Creation
    <3>. QED BY <1>2, <1>3, <2>1, <3>1, MoveStep
  <2>. QED BY <1>6, <2>2, <2>3 DEF Asked, Enter
<1>7. CASE Evicted(c)
  <2>1. /\ pc[c] = "evict" /\ Up /\ pc[c] \in Creation /\ UNCHANGED <<bootVars, boxes, early, key, victim>>
        /\ dirs' \subseteq Keys /\ damaged' \in BOOLEAN /\ file' = Registered
    BY <1>1, <1>2, <1>7 DEF Evicted, Creation, Remove, Removed, Save, Registered
  <2>2. CASE Goto(c, "idle") /\ creating' = creating \ {key[c]}
    BY <2>1, <2>2, ReleaseStep
  <2>3. CASE Goto(c, "mkdir") /\ UNCHANGED creating
    <3>1. "mkdir" \in Creation
      BY DEF Creation
    <3>. QED BY <1>2, <1>3, <2>1, <2>3, <3>1, MoveStep
  <2>. QED BY <1>7, <2>2, <2>3 DEF Evicted
<1>8. CASE Mkdir(c) \/ Verified(c)
  <2>1. /\ pc[c] \in Creation /\ Up /\ UNCHANGED <<file, damaged, bootVars, memVars, key, victim>>
        /\ dirs' \subseteq Keys
        /\ \E p \in {"verify", "prepare"} : Goto(c, p)
    BY <1>1, <1>2, <1>8 DEF Mkdir, Verified, Creation, disk
  <2>2. {"verify", "prepare"} \subseteq Creation
    BY DEF Creation
  <2>. QED BY <1>2, <1>3, <2>1, <2>2, MoveStep DEF memVars
<1>9. CASE Register(c)
  BY <1>1, <1>9, RegisterStep DEF Register
<1>10. CASE GiveUp(c)
  <2>1. /\ Goto(c, "idle") /\ Up /\ UNCHANGED <<file, damaged, bootVars, boxes, early, key, victim>>
        /\ dirs' \subseteq Keys
    BY <1>1, <1>2, <1>10 DEF GiveUp, Removed
  <2>2. "idle" \notin Creation
    BY DEF Creation
  <2>3. CASE pc[c] \in Creation
    <3>1. creating' = creating \ {key[c]}
      BY <1>10, <2>3 DEF GiveUp
    <3>. QED BY <1>2, <2>1, <2>3, <3>1, ReleaseStep
  <2>4. CASE pc[c] \notin Creation
    <3>1. creating' = creating
      BY <1>10, <2>4 DEF GiveUp
    <3>. QED BY <1>2, <1>3, <2>1, <2>2, <2>4, <3>1, MoveStep
  <2>. QED BY <2>3, <2>4
<1>11. CASE Stopped(c)
  <2>1. /\ Goto(c, "idle") /\ Up /\ UNCHANGED <<bootVars, memVars, key, victim>>
        /\ dirs' \subseteq Keys /\ damaged' \in BOOLEAN /\ file' = Registered
        /\ pc[c] \notin Creation /\ "idle" \notin Creation
    BY <1>1, <1>2, <1>11 DEF Stopped, Remove, Removed, Save, Registered, Creation
  <2>. QED BY <1>2, <1>3, <2>1, MoveStep DEF memVars
<1>12. ASSUME NEW i \in DOMAIN boxes, Destroy(c, i) PROVE SInv'
  BY <1>12, DestroyStep
<1>. QED BY <1>5, <1>6, <1>7, <1>8, <1>9, <1>10, <1>11, <1>12 DEF Call

LEMMA StutterStep == SInv /\ UNCHANGED vars => SInv'
<1> SUFFICES ASSUME SInv, UNCHANGED vars PROVE SInv'
  OBVIOUS
<1>1. UNCHANGED <<dirs, file, damaged, boot, stale, failed, starts, boxes, creating, early, pc, key, victim>>
  BY DEF vars, disk, bootVars, memVars, callVars
<1>2. Registered' = Registered /\ Creators' = Creators
  BY <1>1 DEF Registered, Creators
<1>. QED BY <1>1, <1>2 DEF SInv, TypeOK, CreatedOnce, CapByCallers, Listed, EarlyInv, Up

(* The inductive invariant of the sandbox manager. *)
THEOREM InvariantHolds == Spec => []SInv
<1>1. SInv /\ [Next]_vars => SInv'
  BY QuietStep, EndStep, CallStep, StutterStep DEF Next, Process
<1>. QED BY <1>1, InitInv, PTL DEF Spec

(* The state has its types; _sandboxes never holds a key twice. *)
THEOREM TypeCorrect == Spec => []TypeOK
<1>1. SInv => TypeOK
  BY DEF SInv
<1>. QED BY <1>1, InvariantHolds, PTL

(* One creation per key at a time, none for a registered one, and no key   *)
(* is left in _creating by a call that is over (issue #221).               *)
THEOREM OneCreation == Spec => []CreatedOnce
<1>1. SInv => CreatedOnce
  BY DEF SInv
<1>. QED BY <1>1, InvariantHolds, PTL

(* However many calls create at once, the cap is exceeded by less than     *)
(* their number.                                                           *)
THEOREM CapIsNearlyKept == Spec => []CapByCallers
<1>1. SInv => CapByCallers
  BY DEF SInv
<1>. QED BY <1>1, InvariantHolds, PTL

(* After a crash at any point the state file names every sandbox that was  *)
(* registered after initialize().                                          *)
THEOREM RegisteredIsListed == Spec => []Listed
<1>1. SInv => Listed
  BY DEF SInv
<1>. QED BY <1>1, InvariantHolds, PTL
=============================================================================
