------------------------------- MODULE Retry -------------------------------
(***************************************************************************)
(* utils.Retry (src/src/installer/installer.go, utils part): call f up to *)
(* attempts times, sleeping between calls, and return nil on the first    *)
(* success or an error after the last failure.  writeImageToDisk calls it *)
(* with attempts = 3.  The specification enumerates the attempts argument *)
(* and every sequence of results of f.                                    *)
(***************************************************************************)
EXTENDS Integers

CONSTANT
    AttemptValues   \* the attempts arguments enumerated (integers)

ASSUME AttemptValuesAssumption == AttemptValues \subseteq Int

VARIABLES
    attempts,   \* the argument
    i,          \* the loop counter
    calls,      \* the calls of f so far
    sleeps,     \* the time.Sleep calls so far
    err,        \* the error Retry returns: "nil" or "failed"
    returned    \* Retry has returned

vars == <<attempts, i, calls, sleeps, err, returned>>

Init ==
    /\ attempts \in AttemptValues
    /\ i = 0
    /\ calls = 0
    /\ sleeps = 0
    /\ err = "none"
    /\ returned = FALSE

(* Mutant: the loop runs attempts times before the last call.             *)
LoopCallOffByOne ==
    /\ ~returned
    /\ i < attempts
    /\ calls' = calls + 1
    /\ \E ok \in BOOLEAN :
         IF ok
           THEN err' = "nil" /\ returned' = TRUE /\ UNCHANGED <<i, sleeps>>
           ELSE sleeps' = sleeps + 1 /\ i' = i + 1 /\ UNCHANGED <<err, returned>>
    /\ UNCHANGED attempts

(* One turn of the loop: call f; return on success, else sleep.           *)
LoopCall ==
    /\ ~returned
    /\ i < attempts - 1
    /\ calls' = calls + 1
    /\ \E ok \in BOOLEAN :
         IF ok
           THEN err' = "nil" /\ returned' = TRUE /\ UNCHANGED <<i, sleeps>>
           ELSE sleeps' = sleeps + 1 /\ i' = i + 1 /\ UNCHANGED <<err, returned>>
    /\ UNCHANGED attempts

(* After the loop, the last call, with no sleep after it.                 *)
LastCall ==
    /\ ~returned
    /\ i >= attempts - 1
    /\ calls' = calls + 1
    /\ returned' = TRUE
    /\ \E ok \in BOOLEAN : err' = IF ok THEN "nil" ELSE "failed"
    /\ UNCHANGED <<attempts, i, sleeps>>

(* Retry has returned; nothing more happens.                              *)
Returned ==
    /\ returned
    /\ UNCHANGED vars

Next == LoopCall \/ LastCall \/ Returned

Spec == Init /\ [][Next]_vars

-----------------------------------------------------------------------------
(* Every variable holds a value of its type.                               *)
TypeOK ==
    /\ attempts \in AttemptValues
    /\ i \in Nat /\ calls \in Nat /\ sleeps \in Nat
    /\ err \in {"none", "nil", "failed"}
    /\ returned \in BOOLEAN

(* The number of calls Retry makes when every call fails: attempts, and  *)
(* one for an attempts argument below one.                                *)
MaxCalls == IF attempts < 1 THEN 1 ELSE attempts

(* The spec (section 4.3, image write: "retry up to 3 attempts with a 1s *)
(* gap"; section 7, bounded retry): Retry calls f at least once and at    *)
(* most MaxCalls times, sleeps only between two calls, and gives up only  *)
(* after MaxCalls failed calls.                                            *)
RetryBounded ==
    /\ calls <= MaxCalls
    /\ returned =>
         /\ calls >= 1
         /\ sleeps = calls - 1
         /\ (err = "failed" => calls = MaxCalls)
=============================================================================
