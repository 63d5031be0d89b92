----------------------------- MODULE RunLedger -----------------------------
(***************************************************************************)
(* What a measurement campaign promises of its results: a ledger of runs   *)
(* that only grows, one planned run at a time, and never holds a run       *)
(* twice, however the campaign is split by pauses, resumes and crashes.    *)
(***************************************************************************)
EXTENDS Naturals, Sequences

CONSTANT Runs   \* the planned (task_id, repetition) pairs

VARIABLE ledger

Recorded == {ledger[i] : i \in DOMAIN ledger}

Init == ledger = <<>>

Record(r) == /\ r \notin Recorded
             /\ ledger' = Append(ledger, r)

Next == \E r \in Runs : Record(r)

Spec == Init /\ [][Next]_ledger
=============================================================================
