---------------------------- MODULE RetryProofs ----------------------------
(***************************************************************************)
(* Proof that utils.Retry keeps its bounds for every attempts argument,   *)
(* zero and negative ones included.                                       *)
(***************************************************************************)
EXTENDS Retry, TLAPS

USE AttemptValuesAssumption

(* The inductive strengthening: every failed turn of the loop slept once  *)
(* and moved the counter, so the counter counts the sleeps and, with the  *)
(* last call, the calls; the loop stops at attempts - 1 (or at once for   *)
(* an argument below one), and Retry gives up only there.                *)
RetryInv ==
    /\ TypeOK
    /\ sleeps = i
    /\ calls = IF returned THEN i + 1 ELSE i
    /\ i <= MaxCalls - 1
    /\ returned /\ err = "failed" => i = MaxCalls - 1
    /\ ~returned => err = "none"
    /\ returned => err \in {"nil", "failed"}

LEMMA RetryInvStep == RetryInv /\ [Next]_vars => RetryInv'
<1> SUFFICES ASSUME RetryInv, [Next]_vars PROVE RetryInv'
  OBVIOUS
<1>1. CASE LoopCall
  <2>1. PICK ok \in BOOLEAN :
          IF ok
            THEN err' = "nil" /\ returned' = TRUE /\ UNCHANGED <<i, sleeps>>
            ELSE sleeps' = sleeps + 1 /\ i' = i + 1 /\ UNCHANGED <<err, returned>>
    BY <1>1 DEF LoopCall
  <2>2. CASE ok
    BY <1>1, <2>1, <2>2 DEF LoopCall, RetryInv, TypeOK, MaxCalls
  <2>3. CASE ~ok
    BY <1>1, <2>1, <2>3 DEF LoopCall, RetryInv, TypeOK, MaxCalls
  <2>4. QED
    BY <2>2, <2>3
<1>2. CASE LastCall
  BY <1>2 DEF LastCall, RetryInv, TypeOK, MaxCalls
<1>3. CASE Returned \/ UNCHANGED vars
  BY <1>3 DEF Returned, vars, RetryInv, TypeOK, MaxCalls
<1>4. QED
  BY <1>1, <1>2, <1>3 DEF Next

(* utils.Retry calls f at least once and at most attempts times (once    *)
(* for an argument below one), sleeps only between calls, and returns    *)
(* its error only after the last allowed call, for every argument.        *)
THEOREM RetryBoundedCorrect == Spec => []RetryBounded
<1>1. Init => RetryInv
  <2> SUFFICES ASSUME Init PROVE RetryInv
    OBVIOUS
  <2>1. attempts \in Int
    BY DEF Init
  <2>2. 0 <= MaxCalls - 1
    BY <2>1 DEF MaxCalls
  <2>3. QED
    BY <2>1, <2>2 DEF Init, RetryInv, TypeOK
<1>2. RetryInv => RetryBounded
  BY DEF RetryInv, TypeOK, RetryBounded, MaxCalls
<1>3. QED
  BY <1>1, <1>2, RetryInvStep, PTL DEF Spec
=============================================================================
