------------------------------- MODULE FencedLog -------------------------------
(* What a fencing lease promises, without owners, clocks or heartbeats: every *)
(* fenced record is written under the newest epoch granted so far.            *)
EXTENDS Naturals, Sequences

VARIABLES granted,  \* how many epochs have been granted
          log       \* the epoch of every record, 0 for an unfenced one

Init == granted = 0 /\ log = <<>>

Grant == granted' = granted + 1 /\ UNCHANGED log

\* One record, or two in one atomic admission.
Write ==
  /\ granted > 0
  /\ log' \in {Append(log, granted), log \o <<granted, granted>>}
  /\ UNCHANGED granted

WriteUnfenced == log' = Append(log, 0) /\ UNCHANGED granted

Delete == log' = <<>> /\ UNCHANGED granted

Next == Grant \/ Write \/ WriteUnfenced \/ Delete

Spec == Init /\ [][Next]_<<granted, log>>
=============================================================================
