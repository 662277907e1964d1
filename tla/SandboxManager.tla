--------------------------- MODULE SandboxManager ---------------------------
(***************************************************************************)
(* The sandboxes of the sessions (miqi/sandbox/manager.py): one directory  *)
(* and one entry of the manager per sandbox key, and a state file from     *)
(* which the next bridge process removes what this one leaves behind.      *)
(* Calls are coroutines of one event loop: a step is the code between two  *)
(* awaits.  rm -rf with its retries is one step that may fail.             *)
(* initialize() runs in the background and calls do not wait for it.       *)
(***************************************************************************)
EXTENDS Naturals, Sequences, FiniteSets

CONSTANTS Keys,          \* sandbox keys; each names its own directory
          Calls,         \* calls that may be under way at once
          MaxSandboxes,
          MaxStarts      \* bound on the starts of the bridge

ASSUME SandboxAssumption ==
  /\ MaxSandboxes \in Nat \ {0} /\ MaxStarts \in Nat
  /\ IsFiniteSet(Calls) /\ Calls # {}

VARIABLES
  dirs,      \* directories below the sandbox root
  file,      \* keys listed in the state file; {} also if there is none
  damaged,   \* the state file cannot be read
  boot,      \* where the bridge and its initialize() are
  stale,     \* directories that cleanup_stale or destroy_all still has to remove
  failed,    \* a removal of cleanup_stale has failed
  starts,
  boxes,     \* keys of _sandboxes, oldest first
  creating,  \* _creating
  early,     \* history: keys in boxes that were registered before initialize() was over
  pc,        \* where each call is
  key,       \* the sandbox key of each call
  victim     \* the sandbox that a call is stopping

disk == <<dirs, file, damaged>>
bootVars == <<boot, stale, failed, starts>>
memVars == <<boxes, creating, early>>
callVars == <<pc, key, victim>>
vars == <<disk, bootVars, memVars, callVars>>

(***************************************************************************)
(*   asking     in BwrapSandbox.is_available()                             *)
(*   scanning   reading a damaged file's directories with `find`           *)
(*   cleaning   in cleanup_stale, removing one directory after the other   *)
(*   off        bwrap is not available, enabled is FALSE                   *)
(*   closing    stdin is closed, destroy_all of the graceful shutdown      *)
(***************************************************************************)
Boots == {"down", "asking", "scanning", "cleaning", "done", "off", "closing"}
Starting == {"asking", "scanning", "cleaning"}
Enabled == boot \in Starting \cup {"done"}
Up == boot \notin {"down", "closing"}

(* evict and stop: in stop() of the victim; mkdir to prepare: in start(). *)
Creation == {"evict", "mkdir", "verify", "prepare"}
Places == {"idle", "asking", "stop"} \cup Creation

Registered == { boxes[i] : i \in DOMAIN boxes }
Oldest == boxes[1]

Init ==
  /\ dirs = {} /\ file = {} /\ damaged = FALSE
  /\ boot = "down" /\ stale = {} /\ failed = FALSE /\ starts = 0
  /\ boxes = <<>> /\ creating = {} /\ early = {}
  /\ pc = [c \in Calls |-> "idle"]
  /\ key \in [Calls -> Keys] /\ victim = key

Goto(c, p) == pc' = [pc EXCEPT ![c] = p]

(* _save_state: the file lists what _sandboxes holds now. *)
Save(b) == file' = { b[i] : i \in DOMAIN b } /\ damaged' = FALSE
ClearFile == file' = {} /\ damaged' = FALSE

(* _rm_rf_retry: gone, or given up after three attempts. *)
Removed(k) == dirs' = dirs \ {k}
Remove(k) == Removed(k) \/ UNCHANGED dirs

(* _sandboxes.pop of the i-th oldest. *)
Pop(i) ==
  /\ boxes' = [j \in 1..(Len(boxes) - 1) |-> IF j < i THEN boxes[j] ELSE boxes[j + 1]]
  /\ early' = early \ {boxes[i]}

-----------------------------------------------------------------------------
(* The bridge process: start, initialize(), shutdown, crash.               *)

(* The manager is created and enabled, initialize() asks for bwrap. *)
Boot ==
  /\ boot = "down" /\ starts < MaxStarts
  /\ boot' = "asking" /\ starts' = starts + 1
  /\ UNCHANGED <<disk, stale, failed, memVars, callVars>>

NotAvailable ==
  /\ boot = "asking"
  /\ boot' = "off"
  /\ UNCHANGED <<disk, stale, failed, starts, memVars, callVars>>

(* cleanup_stale reads the file; a damaged one is replaced by a scan. *)
ReadState ==
  /\ boot = "asking"
  /\ stale' = file /\ failed' = FALSE
  /\ boot' = IF damaged THEN "scanning" ELSE IF file = {} THEN "done" ELSE "cleaning"
  /\ UNCHANGED <<disk, starts, memVars, callVars>>

Scan ==
  /\ boot = "scanning" /\ dirs # {}
  /\ boot' = "cleaning" /\ stale' = dirs
  /\ UNCHANGED <<disk, failed, starts, memVars, callVars>>

(* Nothing was found, or the scan itself failed and the file is kept. *)
ScanEnds ==
  /\ boot = "scanning"
  /\ boot' = "done"
  /\ \/ dirs = {} /\ ClearFile
     \/ UNCHANGED <<file, damaged>>
  /\ UNCHANGED <<dirs, stale, failed, starts, memVars, callVars>>

(* One directory; the file goes with the last one, unless a removal failed. *)
CleanOne(k) ==
  /\ boot = "cleaning" /\ k \in stale
  /\ \/ Removed(k) /\ UNCHANGED failed
     \/ Remove(k) /\ failed' = TRUE
  /\ stale' = stale \ {k}
  /\ IF stale' # {}
     THEN UNCHANGED <<boot, file, damaged>>
     ELSE /\ boot' = "done"
          /\ IF failed' THEN UNCHANGED <<file, damaged>> ELSE ClearFile
  /\ UNCHANGED <<starts, memVars, callVars>>

(* The calls die with their loop. *)
Forget ==
  /\ boxes' = <<>> /\ creating' = {} /\ early' = {}
  /\ pc' = [c \in Calls |-> "idle"]
  /\ UNCHANGED <<key, victim, starts, failed>>

(* stdin is closed: destroy_all, after which the file is always removed. *)
Shutdown ==
  /\ Up
  /\ Forget /\ UNCHANGED dirs
  /\ stale' = Registered
  /\ IF boxes = <<>>
     THEN boot' = "down" /\ ClearFile
     ELSE boot' = "closing" /\ UNCHANGED <<file, damaged>>

DestroyOne(k) ==
  /\ boot = "closing" /\ k \in stale
  /\ Remove(k)
  /\ stale' = stale \ {k}
  /\ IF stale' # {}
     THEN UNCHANGED <<boot, file, damaged>>
     ELSE boot' = "down" /\ ClearFile
  /\ UNCHANGED <<failed, starts, memVars, callVars>>

(* The process ends without a word: the file stays, is gone (the watchdog  *)
(* of a dead parent clears it; a save unlinks it before the rename) or is  *)
(* damaged (a save is not synced).                                         *)
Crash ==
  /\ boot # "down"
  /\ boot' = "down" /\ stale' = {}
  /\ Forget /\ UNCHANGED dirs
  /\ \/ UNCHANGED <<file, damaged>>
     \/ ClearFile
     \/ file' = {} /\ damaged' = TRUE

-----------------------------------------------------------------------------
(* get_or_create                                                           *)

(* The part under the first lock.  A key that another call is creating     *)
(* gives None: the tool falls back to the host.                            *)
Found(c, k) ==
  /\ k \in Registered \cup creating
  /\ Goto(c, "idle")
  /\ UNCHANGED <<memVars, victim>>

(* Mutant: nobody looks at _creating (issue #221). *)
ClaimTwice(c, k) ==
  /\ k \notin Registered
  /\ creating' = creating \cup {k}
  /\ IF Len(boxes) >= MaxSandboxes
     THEN Pop(1) /\ victim' = [victim EXCEPT ![c] = Oldest] /\ Goto(c, "evict")
     ELSE Goto(c, "mkdir") /\ UNCHANGED <<boxes, early, victim>>

(* Mutant: one sandbox more than the cap before one is evicted. *)
ClaimOneMore(c, k) ==
  /\ k \notin Registered \cup creating
  /\ creating' = creating \cup {k}
  /\ IF Len(boxes) > MaxSandboxes
     THEN Pop(1) /\ victim' = [victim EXCEPT ![c] = Oldest] /\ Goto(c, "evict")
     ELSE Goto(c, "mkdir") /\ UNCHANGED <<boxes, early, victim>>

Claim(c, k) ==
  /\ k \notin Registered \cup creating
  /\ creating' = creating \cup {k}
  /\ IF Len(boxes) >= MaxSandboxes
     THEN Pop(1) /\ victim' = [victim EXCEPT ![c] = Oldest] /\ Goto(c, "evict")
     ELSE Goto(c, "mkdir") /\ UNCHANGED <<boxes, early, victim>>

Enter(c, k) == Found(c, k) \/ Claim(c, k)

(* Before initialize() has set _initialized the call asks for bwrap itself. *)
Get(c, k) ==
  /\ Enabled /\ pc[c] = "idle"
  /\ key' = [key EXCEPT ![c] = k]
  /\ IF boot = "asking"
     THEN Goto(c, "asking") /\ UNCHANGED <<memVars, victim>>
     ELSE Enter(c, k)
  /\ UNCHANGED <<disk, bootVars>>

Asked(c) ==
  /\ Up /\ pc[c] = "asking"
  /\ Enter(c, key[c])
  /\ UNCHANGED <<disk, bootVars, key>>

(* The victim is stopped, the file saved, and the new sandbox is started. *)
Evicted(c) ==
  /\ pc[c] = "evict"
  /\ Remove(victim[c]) /\ Save(boxes)
  /\ IF key[c] \in Registered
     THEN Goto(c, "idle") /\ creating' = creating \ {key[c]}
     ELSE Goto(c, "mkdir") /\ UNCHANGED creating
  /\ UNCHANGED <<bootVars, boxes, early, key, victim>>

Mkdir(c) ==
  /\ pc[c] = "mkdir"
  /\ dirs' = dirs \cup {key[c]}
  /\ Goto(c, "verify")
  /\ UNCHANGED <<file, damaged, bootVars, memVars, key, victim>>

Verified(c) ==
  /\ pc[c] = "verify" /\ key[c] \in dirs
  /\ Goto(c, "prepare")
  /\ UNCHANGED <<disk, bootVars, memVars, key, victim>>

(* Mutant: the file is saved before the sandbox is entered. *)
RegisterSavesFirst(c) ==
  /\ pc[c] = "prepare"
  /\ boxes' = Append(boxes, key[c]) /\ Save(boxes)
  /\ early' = IF boot \in Starting THEN early \cup {key[c]} ELSE early
  /\ creating' = creating \ {key[c]}
  /\ Goto(c, "idle")
  /\ UNCHANGED <<dirs, bootVars, key, victim>>

Register(c) ==
  /\ pc[c] = "prepare"
  /\ boxes' = Append(boxes, key[c]) /\ Save(boxes')
  /\ early' = IF boot \in Starting THEN early \cup {key[c]} ELSE early
  /\ creating' = creating \ {key[c]}
  /\ Goto(c, "idle")
  /\ UNCHANGED <<dirs, bootVars, key, victim>>

(* An await fails or the task is cancelled.  What was made on the disk     *)
(* stays, and nothing is saved; a victim is gone from _sandboxes.          *)
GiveUp(c) ==
  /\ pc[c] # "idle"
  /\ Goto(c, "idle")
  /\ creating' = IF pc[c] \in Creation THEN creating \ {key[c]} ELSE creating
  /\ \/ UNCHANGED dirs
     \/ pc[c] = "mkdir" /\ dirs' = dirs \cup {key[c]}
     \/ pc[c] \in {"evict", "stop"} /\ Removed(victim[c])
  /\ UNCHANGED <<file, damaged, bootVars, boxes, early, key, victim>>

-----------------------------------------------------------------------------
(* destroy: the session is deleted or archived.                            *)

Destroy(c, i) ==
  /\ Up /\ pc[c] = "idle" /\ i \in DOMAIN boxes
  /\ victim' = [victim EXCEPT ![c] = boxes[i]]
  /\ Pop(i)
  /\ Goto(c, "stop")
  /\ UNCHANGED <<disk, bootVars, creating, key>>

Stopped(c) ==
  /\ pc[c] = "stop"
  /\ Remove(victim[c]) /\ Save(boxes)
  /\ Goto(c, "idle")
  /\ UNCHANGED <<bootVars, memVars, key, victim>>

-----------------------------------------------------------------------------
Process ==
  \/ Boot \/ NotAvailable \/ ReadState \/ Scan \/ ScanEnds \/ Shutdown \/ Crash
  \/ \E k \in Keys : CleanOne(k) \/ DestroyOne(k)

Call(c) ==
  \/ \E k \in Keys : Get(c, k)
  \/ \E i \in DOMAIN boxes : Destroy(c, i)
  \/ Asked(c) \/ Evicted(c) \/ Mkdir(c) \/ Verified(c) \/ Register(c)
  \/ GiveUp(c) \/ Stopped(c)

Next == Process \/ \E c \in Calls : Call(c)

Spec == Init /\ [][Next]_vars

-----------------------------------------------------------------------------
TypeOK ==
  /\ dirs \subseteq Keys /\ file \subseteq Keys /\ damaged \in BOOLEAN
  /\ boot \in Boots /\ stale \subseteq Keys /\ failed \in BOOLEAN /\ starts \in 0..MaxStarts
  /\ boxes \in Seq(Keys) /\ \A i, j \in DOMAIN boxes : boxes[i] = boxes[j] => i = j
  /\ creating \subseteq Keys /\ early \subseteq Keys
  /\ pc \in [Calls -> Places] /\ key \in [Calls -> Keys] /\ victim \in [Calls -> Keys]

(* The calls that hold an entry of _creating. *)
Creators == { c \in Calls : pc[c] \in Creation }

(* A sandbox is created by one call at a time, never again while it is     *)
(* registered (issue #221), and _creating holds the keys of the calls that *)
(* are creating: none is left behind that would send the tools of its      *)
(* session to the host for ever.                                           *)
CreatedOnce ==
  /\ creating = { key[c] : c \in Creators }
  /\ creating \cap Registered = {}
  /\ \A c, d \in Creators : key[c] = key[d] => c = d

(* The cap is checked once and a call evicts one sandbox at most, so calls *)
(* that create at the same time exceed max_sandboxes, and no later         *)
(* eviction brings the number down again, only destroy does: it stays      *)
(* within one per concurrent call.                                         *)
CapByCallers ==
  Len(boxes) + Cardinality(creating) <= MaxSandboxes - 1 + Cardinality(Calls)

(* A sandbox that is registered is listed in the state file, so that the   *)
(* next process finds it after a crash between any two steps, whatever     *)
(* evictions, deletions and creations of others save in between (a crash   *)
(* inside a save, which unlinks the file before it renames the new one, is *)
(* not a step here and loses the file).  Sandboxes created before          *)
(* initialize() is over are not covered: cleanup_stale ends by removing    *)
(* the file, their entries with it.                                        *)
Listed == Registered \ early \subseteq file

(* While initialize() runs, every registered sandbox is an early one. *)
EarlyInv ==
  /\ boot \in Starting => Registered \subseteq early
  /\ ~Up => boxes = <<>> /\ \A c \in Calls : pc[c] = "idle"

SInv == TypeOK /\ CreatedOnce /\ CapByCallers /\ Listed /\ EarlyInv
=============================================================================
