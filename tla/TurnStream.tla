----------------------------- MODULE TurnStream -----------------------------
(***************************************************************************)
(* What a RuntimeSession promises about the user messages submitted to it: *)
(* they are accepted in an order, and each one becomes a turn that runs    *)
(* alone, after every message accepted before it, and ends.  How the       *)
(* dispatch loop, its queues and the abort path achieve this is            *)
(* SessionDispatch, which implements this specification.                   *)
(***************************************************************************)
EXTENDS Naturals

CONSTANT MaxSubs        \* bound on the submissions of one behaviour

VARIABLE st             \* what became of each submission number

Stages == {"none", "waiting", "running", "ended"}

Numbers == 1..MaxSubs

Init == st = [i \in Numbers |-> "none"]

(* A message is accepted: its number is above every number accepted so far. *)
Accept(i) ==
  /\ \A j \in Numbers : st[j] # "none" => j < i
  /\ st' = [st EXCEPT ![i] = "waiting"]

(* The oldest waiting message becomes a turn; no other turn is running. *)
Begin(i) ==
  /\ st[i] = "waiting"
  /\ \A j \in Numbers : st[j] # "running"
  /\ \A j \in Numbers : j < i => st[j] # "waiting"
  /\ st' = [st EXCEPT ![i] = "running"]

End(i) ==
  /\ st[i] = "running"
  /\ st' = [st EXCEPT ![i] = "ended"]

Next == \E i \in Numbers : Accept(i) \/ Begin(i) \/ End(i)

Safe == Init /\ [][Next]_st

(* Everything accepted is begun and everything begun is ended. *)
Spec == Safe /\ \A i \in Numbers : WF_st(Begin(i)) /\ WF_st(End(i))

=============================================================================
