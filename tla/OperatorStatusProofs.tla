------------------------- MODULE OperatorStatusProofs -------------------------
(***************************************************************************)
(* Proofs that the operator-status conversion always reports a healthy   *)
(* operator available, and returns a well-typed result, for conditions    *)
(* lists of every length (TLC enumerates those of at most MaxConditions   *)
(* entries; here MaxConditions is any natural).                           *)
(***************************************************************************)
EXTENDS OperatorStatus, WellFoundedInduction, TLAPS

USE OperatorStatusAssumption

(* A conditions list is a function on the positions 1..n.                 *)
LEMMA ConditionListShape ==
    ASSUME NEW cs \in ConditionLists
    PROVE  \E n \in Nat : cs \in [1..n -> Conditions] /\ DOMAIN cs = 1..n
                          /\ Len(cs) = n /\ cs \in Seq(Conditions)
BY DEF ConditionLists

(* When some condition decides, the loop has a first one to return at:   *)
(* the positions are naturals, and < is well founded on them.            *)
LEMMA FirstDecidingIsFirst ==
    ASSUME NEW cs \in ConditionLists, Deciding(cs) # {}
    PROVE  /\ FirstDeciding(cs) \in Deciding(cs)
           /\ \A j \in Deciding(cs) : FirstDeciding(cs) <= j
<1>1. Deciding(cs) \subseteq Nat
  BY ConditionListShape DEF Deciding
<1>2. \E x \in Deciding(cs) : \A y \in Deciding(cs) : ~(<<y, x>> \in OpToRel(<, Nat))
  BY <1>1, NatLessThanWellFounded, WFMin
<1>3. \E x \in Deciding(cs) : \A y \in Deciding(cs) : x <= y
  <2>1. PICK x \in Deciding(cs) : \A y \in Deciding(cs) : ~(<<y, x>> \in OpToRel(<, Nat))
    BY <1>2
  <2>2. ASSUME NEW y \in Deciding(cs) PROVE ~(y < x)
    BY <1>1, <2>1 DEF OpToRel
  <2>3. \A y \in Deciding(cs) : x <= y
    BY <1>1, <2>2
  <2>4. QED
    BY <2>3
<1>4. QED
  BY <1>3 DEF FirstDeciding

(* The conversion returns a monitored status, and a message that is a    *)
(* position of the list or empty.                                         *)
LEMMA ResultType ==
    ASSUME NEW cs \in ConditionLists
    PROVE  /\ ClusterOperatorConditionsToMonitoredOperatorStatus(cs).status \in OperatorStatuses
           /\ ClusterOperatorConditionsToMonitoredOperatorStatus(cs).message \in 0..Len(cs)
<1>1. CASE Deciding(cs) = {}
  BY <1>1, ConditionListShape
     DEF ClusterOperatorConditionsToMonitoredOperatorStatus, OperatorStatuses
<1>2. CASE Deciding(cs) # {}
  <2>1. FirstDeciding(cs) \in Deciding(cs)
    BY <1>2, FirstDecidingIsFirst
  <2>2. cs[FirstDeciding(cs)].type \in DOMAIN Verdict
    BY <2>1 DEF Deciding, Decides
  <2>3. QED
    BY <1>2, <2>1, <2>2, ConditionListShape
       DEF ClusterOperatorConditionsToMonitoredOperatorStatus, OperatorStatuses,
           Verdict, Deciding
<1>3. QED
  BY <1>1, <1>2

(* With Available=True and neither Progressing=True nor Degraded=True,    *)
(* the only conditions that decide are Available=True ones, so the first  *)
(* of them decides available.                                              *)
LEMMA HealthyGivesAvailable ==
    ASSUME NEW cs \in ConditionLists, HasTrue(cs, "Available"),
           ~HasTrue(cs, "Progressing"), ~HasTrue(cs, "Degraded")
    PROVE  ClusterOperatorConditionsToMonitoredOperatorStatus(cs).status = "available"
<1>1. Deciding(cs) # {}
  BY DEF HasTrue, Deciding, Decides, Verdict
<1>2. FirstDeciding(cs) \in Deciding(cs)
  BY <1>1, FirstDecidingIsFirst
<1>3. cs[FirstDeciding(cs)].type = "Available"
  BY <1>2 DEF Deciding, Decides, Verdict, HasTrue
<1>4. QED
  BY <1>1, <1>3 DEF ClusterOperatorConditionsToMonitoredOperatorStatus, Verdict
(* Every state holds one observed input, and no step changes it.          *)
InputOK == conds \in ConditionLists /\ phase \in CsvPhases

LEMMA InputAlways == Spec => []InputOK
<1>1. Init => InputOK
  BY DEF Init, InputOK
<1>2. InputOK /\ [Next]_vars => InputOK'
  BY DEF InputOK, Next, vars
<1>3. QED
  BY <1>1, <1>2, PTL DEF Spec

(* The conversions return a monitored status and a position of the list  *)
(* as message, for every conditions list and CSV phase.                   *)
THEOREM TypeCorrect == Spec => []TypeOK
<1>1. InputOK => TypeOK
  BY ResultType DEF InputOK, TypeOK
<1>2. QED
  BY <1>1, InputAlways, PTL

(* ClusterOperatorConditionsToMonitoredOperatorStatus reports a healthy   *)
(* operator available whatever the order and number of its conditions.   *)
THEOREM HealthyIsAvailableCorrect == Spec => []HealthyIsAvailable
<1>1. InputOK => HealthyIsAvailable
  BY HealthyGivesAvailable DEF InputOK, HealthyIsAvailable
<1>2. QED
  BY <1>1, InputAlways, PTL
=============================================================================
