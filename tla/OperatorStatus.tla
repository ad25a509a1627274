--------------------------- MODULE OperatorStatus ---------------------------
(***************************************************************************)
(* The conversions of cluster-API operator state into the monitored       *)
(* operator status the controller reports to the inventory (utils part of *)
(* src/src/installer/installer.go): ClusterOperatorConditionsToMonitored- *)
(* OperatorStatus for built-in operators and CsvStatusToOperatorStatus    *)
(* for OLM operators.  Both are pure functions; the specification         *)
(* enumerates their inputs, one per state, and the properties relate      *)
(* each input to the status returned for it.                              *)
(*                                                                         *)
(* A condition's message is abstracted to its position in the list; the  *)
(* empty message is 0.                                                    *)
(***************************************************************************)
EXTENDS Naturals, Sequences

CONSTANTS
    MaxConditions,   \* the longest conditions list enumerated
    CsvPhases        \* the CSV phases enumerated (strings)

ASSUME OperatorStatusAssumption ==
    /\ MaxConditions \in Nat
    /\ {"Succeeded", "Failed"} \subseteq CsvPhases

(* configv1.ClusterStatusConditionType values and ConditionStatus values. *)
ConditionTypes == {"Available", "Progressing", "Degraded", "Upgradeable"}
ConditionStatuses == {"True", "False", "Unknown"}
Conditions == [type : ConditionTypes, status : ConditionStatuses]

(* Every conditions list of at most MaxConditions entries.                *)
ConditionLists == UNION {[1..n -> Conditions] : n \in 0..MaxConditions}

(* models.OperatorStatus values.                                          *)
OperatorStatuses == {"available", "progressing", "failed"}

VARIABLES
    conds,   \* the Status.Conditions of a ClusterOperator
    phase    \* the Status.Phase of an OLM ClusterServiceVersion

vars == <<conds, phase>>

-----------------------------------------------------------------------------
(* The status a deciding condition of each type returns.                  *)
Verdict == [Available |-> "available", Progressing |-> "progressing",
            Degraded |-> "failed"]

(* Mutant of the three tests of the loop: the Progressing test does not   *)
(* check the condition's status.                                          *)
DecidesAnyProgressing(c) ==
    \/ c.type = "Progressing"
    \/ c.type \in DOMAIN Verdict /\ c.status = "True"

(* The three tests of the loop body: a condition that is Available=True,  *)
(* Progressing=True or Degraded=True makes the loop return.               *)
Decides(c) == c.type \in DOMAIN Verdict /\ c.status = "True"

(* The positions at which the loop would return.                          *)
Deciding(cs) == {i \in DOMAIN cs : Decides(cs[i])}

(* The loop runs in list order, so it returns at the first of them.       *)
FirstDeciding(cs) == CHOOSE i \in Deciding(cs) : \A j \in Deciding(cs) : i <= j

(* ClusterOperatorConditionsToMonitoredOperatorStatus: the verdict and    *)
(* message of the first deciding condition; with none, progressing with  *)
(* an empty message.                                                      *)
ClusterOperatorConditionsToMonitoredOperatorStatus(cs) ==
    IF Deciding(cs) = {}
    THEN [status |-> "progressing", message |-> 0]
    ELSE [status |-> Verdict[cs[FirstDeciding(cs)].type],
          message |-> FirstDeciding(cs)]

(* CsvStatusToOperatorStatus: Succeeded is available, Failed is failed,   *)
(* every other phase is progressing.                                      *)
CsvStatusToOperatorStatus(p) ==
    CASE p = "Succeeded" -> "available"
      [] p = "Failed" -> "failed"
      [] OTHER -> "progressing"

-----------------------------------------------------------------------------
(* Any conditions list and any CSV phase may be observed; each state is  *)
(* one input, which the conversion does not change.                       *)
Init ==
    /\ conds \in ConditionLists
    /\ phase \in CsvPhases

Next == UNCHANGED vars

Spec == Init /\ [][Next]_vars

-----------------------------------------------------------------------------
(* Whether the list has a condition of type t with status True.           *)
HasTrue(cs, t) == \E i \in DOMAIN cs : cs[i].type = t /\ cs[i].status = "True"

(* Every input and result has its type.                                   *)
TypeOK ==
    /\ conds \in ConditionLists
    /\ phase \in CsvPhases
    /\ ClusterOperatorConditionsToMonitoredOperatorStatus(conds).status \in OperatorStatuses
    /\ ClusterOperatorConditionsToMonitoredOperatorStatus(conds).message \in 0..Len(conds)

(* A healthy built-in operator (Available=True, neither Progressing=True  *)
(* nor Degraded=True) is reported available, whatever the order of its    *)
(* conditions and whatever other conditions it has.                        *)
HealthyIsAvailable ==
    HasTrue(conds, "Available") /\ ~HasTrue(conds, "Progressing")
    /\ ~HasTrue(conds, "Degraded")
        => ClusterOperatorConditionsToMonitoredOperatorStatus(conds).status = "available"

(* The spec (sections 3 and 8): an operator is reported available only    *)
(* when Available=True and neither Degraded=True nor Progressing=True.    *)
(* The code returns on the first matching condition in list order.        *)
AvailableOnlyWhenHealthy ==
    ClusterOperatorConditionsToMonitoredOperatorStatus(conds).status = "available" =>
        /\ HasTrue(conds, "Available")
        /\ ~HasTrue(conds, "Degraded")
        /\ ~HasTrue(conds, "Progressing")
=============================================================================
