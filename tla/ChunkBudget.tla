----------------------------- MODULE ChunkBudget -----------------------------
(***************************************************************************)
(* What the chunk budget promises, without connections, transactions or    *)
(* locks: a counter per API key and hourly window that only grows by       *)
(* charges that fit under the cap, in a window that is open or only just   *)
(* over, and that only the pruner resets, once the window is out of        *)
(* retention.                                                              *)
(***************************************************************************)
EXTENDS Integers

CONSTANTS Keys, HourlyCap, Retention, MaxHour

VARIABLES count, hour

Windows == 0..MaxHour
vars == <<count, hour>>

Init ==
    /\ count = [k \in Keys |-> [w \in Windows |-> 0]]
    /\ hour = 0

Kept(w) == hour - Retention < w /\ w <= hour

Charge(k, w, n) ==
    /\ Kept(w)
    /\ count[k][w] + n <= HourlyCap
    /\ count' = [count EXCEPT ![k][w] = @ + n]
    /\ UNCHANGED hour

Prune ==
    /\ count' = [k \in Keys |-> [w \in Windows |->
                    IF w <= hour - Retention THEN 0 ELSE count[k][w]]]
    /\ UNCHANGED hour

NextHour == hour < MaxHour /\ hour' = hour + 1 /\ UNCHANGED count

Next == \/ \E k \in Keys, w \in Windows, n \in 0..HourlyCap : Charge(k, w, n)
        \/ Prune
        \/ NextHour

Spec == Init /\ [][Next]_vars

TypeOK == count \in [Keys -> [Windows -> Nat]] /\ hour \in Windows

\* ChunkBudgetEnforcer and the cap: no window's counter ever exceeds it.
CountWithinCap ==
    \A k \in Keys, w \in Windows : count[k][w] <= HourlyCap
=============================================================================
