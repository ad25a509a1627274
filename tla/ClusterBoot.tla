---------------------------- MODULE ClusterBoot -----------------------------
(***************************************************************************)
(* What the node installers of one highly-available cluster promise       *)
(* (spec, sections 3 and 4.1), with nothing of how: every host installs,  *)
(* then either fails or reboots into the cluster, once; masters reboot    *)
(* freely, the bootstrap only after two other masters rebooted, and a     *)
(* worker only after two control-plane hosts rebooted, unless hosts are  *)
(* added to an installed cluster.                                         *)
(***************************************************************************)
EXTENDS TLAPS

CONSTANTS
    Hosts,            \* the hosts of the cluster
    Bootstrap,        \* the bootstrap host
    Masters,          \* the other control-plane hosts
    AddHostsCluster   \* hosts are added to an installed cluster

VARIABLE
    phase             \* per host: installing, rebooted or failed

ControlPlane == {Bootstrap} \cup Masters
Workers == Hosts \ ControlPlane

(* Two distinct hosts of S have rebooted.                                 *)
TwoRebootedIn(S) ==
    \E a, b \in S : a # b /\ phase[a] = "rebooted" /\ phase[b] = "rebooted"

Init == phase = [h \in Hosts |-> "installing"]

(* A host reboots into the cluster, once.                                  *)
Reboot(h) ==
    /\ phase[h] = "installing"
    /\ phase' = [phase EXCEPT ![h] = "rebooted"]

RebootMaster(m) ==
    /\ m \in Masters
    /\ Reboot(m)

RebootBootstrap ==
    /\ TwoRebootedIn(Masters)
    /\ Reboot(Bootstrap)

RebootWorker(w) ==
    /\ w \in Workers
    /\ AddHostsCluster \/ TwoRebootedIn(ControlPlane)
    /\ Reboot(w)

(* A host's installation fails, once.                                      *)
FailHost(h) ==
    /\ phase[h] = "installing"
    /\ phase' = [phase EXCEPT ![h] = "failed"]

Next ==
    \/ \E h \in Hosts : RebootMaster(h) \/ RebootWorker(h) \/ FailHost(h)
    \/ RebootBootstrap

Spec == Init /\ [][Next]_phase
-----------------------------------------------------------------------------
(* The phases a host can be in.                                           *)
PhaseTypeOK == phase \in [Hosts -> {"installing", "rebooted", "failed"}]

(* The reboot order the cluster promises: the bootstrap has rebooted only *)
(* if two other masters have, and a worker only if two control-plane     *)
(* hosts have, unless hosts are added to an installed cluster.            *)
RebootOrder ==
    /\ phase[Bootstrap] = "rebooted" => TwoRebootedIn(Masters)
    /\ ~AddHostsCluster =>
           \A w \in Workers : phase[w] = "rebooted" => TwoRebootedIn(ControlPlane)

(* The reboot order with the phases' type: inductive as it stands.        *)
RebootOrderInv == PhaseTypeOK /\ RebootOrder

(* A step changes at most host h, and only from installing: every host   *)
(* that had rebooted still has.                                           *)
LEMMA RebootedStays ==
    ASSUME PhaseTypeOK, NEW h \in Hosts, NEW v \in {"rebooted", "failed"},
           phase[h] = "installing", phase' = [phase EXCEPT ![h] = v],
           NEW S, S \subseteq Hosts, TwoRebootedIn(S)
    PROVE  TwoRebootedIn(S)'
BY DEF TwoRebootedIn, PhaseTypeOK

(* Every cluster whose bootstrap and masters are among its hosts, the    *)
(* bootstrap not one of the masters, keeps the reboot order.             *)
THEOREM RebootOrderCorrect ==
    ASSUME Bootstrap \in Hosts, Masters \subseteq Hosts, Bootstrap \notin Masters
    PROVE  Spec => [](PhaseTypeOK /\ RebootOrder)
<1>1. Init => RebootOrderInv
  BY DEF Init, RebootOrderInv, PhaseTypeOK, RebootOrder, TwoRebootedIn, Workers
<1>2. RebootOrderInv /\ [Next]_phase => RebootOrderInv'
  <2> SUFFICES ASSUME RebootOrderInv, [Next]_phase PROVE RebootOrderInv'
    OBVIOUS
  <2>1. ControlPlane \subseteq Hosts
    BY DEF ControlPlane
  <2>2. ASSUME NEW h \in Hosts, NEW v \in {"rebooted", "failed"},
               phase[h] = "installing", phase' = [phase EXCEPT ![h] = v],
               h = Bootstrap /\ v = "rebooted" => TwoRebootedIn(Masters),
               h \in Workers /\ v = "rebooted" /\ ~AddHostsCluster
                   => TwoRebootedIn(ControlPlane)
        PROVE  RebootOrderInv'
    <3>1. PhaseTypeOK'
      BY <2>2 DEF RebootOrderInv, PhaseTypeOK
    <3>2. TwoRebootedIn(Masters) => TwoRebootedIn(Masters)'
      BY <2>2, RebootedStays DEF RebootOrderInv
    <3>3. TwoRebootedIn(ControlPlane) => TwoRebootedIn(ControlPlane)'
      BY <2>1, <2>2, RebootedStays DEF RebootOrderInv
    <3>4. (phase[Bootstrap] = "rebooted" => TwoRebootedIn(Masters))'
      BY <2>2, <3>2 DEF RebootOrderInv, PhaseTypeOK, RebootOrder
    <3>5. (~AddHostsCluster =>
             \A w \in Workers : phase[w] = "rebooted" => TwoRebootedIn(ControlPlane))'
      BY <2>2, <3>3 DEF RebootOrderInv, PhaseTypeOK, RebootOrder, Workers
    <3>6. QED
      BY <3>1, <3>4, <3>5 DEF RebootOrderInv, RebootOrder
  <2>3. ASSUME NEW h \in Hosts, RebootMaster(h) PROVE RebootOrderInv'
    <3>1. h # Bootstrap /\ h \notin Workers
      BY <2>3 DEF RebootMaster, Workers, ControlPlane
    <3>2. phase[h] = "installing" /\ phase' = [phase EXCEPT ![h] = "rebooted"]
      BY <2>3 DEF RebootMaster, Reboot
    <3>3. QED
      BY <3>1, <3>2, <2>2
  <2>4. ASSUME NEW h \in Hosts, RebootWorker(h) PROVE RebootOrderInv'
    <3>1. h # Bootstrap /\ h \in Workers /\ (AddHostsCluster \/ TwoRebootedIn(ControlPlane))
      BY <2>4 DEF RebootWorker, Workers, ControlPlane
    <3>2. phase[h] = "installing" /\ phase' = [phase EXCEPT ![h] = "rebooted"]
      BY <2>4 DEF RebootWorker, Reboot
    <3>3. QED
      BY <3>1, <3>2, <2>2
  <2>5. ASSUME NEW h \in Hosts, FailHost(h) PROVE RebootOrderInv'
    BY <2>5, <2>2 DEF FailHost
  <2>6. CASE RebootBootstrap
    <3>1. Bootstrap \notin Workers
      BY DEF Workers, ControlPlane
    <3>2. phase[Bootstrap] = "installing" /\ phase' = [phase EXCEPT ![Bootstrap] = "rebooted"]
      BY <2>6 DEF RebootBootstrap, Reboot
    <3>3. QED
      BY <2>6, <3>1, <3>2, <2>2 DEF RebootBootstrap
  <2>7. CASE UNCHANGED phase
    BY <2>7 DEF RebootOrderInv, PhaseTypeOK, RebootOrder, TwoRebootedIn
  <2>8. QED
    BY <2>3, <2>4, <2>5, <2>6, <2>7 DEF Next
<1>3. QED
  BY <1>1, <1>2, PTL DEF Spec, RebootOrderInv
(* A host's reboot or failure is final: no step changes the phase of a    *)
(* host that has left installing.                                          *)
ExitIsFinal ==
    \A h \in Hosts : phase[h] # "installing" => phase'[h] = phase[h]

(* Every step, and every stutter, keeps the phase of a host that left     *)
(* installing.                                                             *)
LEMMA ExitIsFinalStep == PhaseTypeOK /\ [Next]_phase => ExitIsFinal
<1> SUFFICES ASSUME PhaseTypeOK, [Next]_phase, NEW x \in Hosts,
                    phase[x] # "installing"
             PROVE  phase'[x] = phase[x]
  BY DEF ExitIsFinal
<1>1. ASSUME NEW h, NEW v, phase[h] = "installing",
             phase' = [phase EXCEPT ![h] = v]
      PROVE  phase'[x] = phase[x]
  BY <1>1 DEF PhaseTypeOK
<1>2. ASSUME NEW h \in Hosts, RebootMaster(h) \/ RebootWorker(h) \/ FailHost(h)
      PROVE  phase'[x] = phase[x]
  BY <1>1, <1>2 DEF RebootMaster, RebootWorker, Reboot, FailHost
<1>3. CASE RebootBootstrap
  BY <1>1, <1>3 DEF RebootBootstrap, Reboot
<1>4. CASE UNCHANGED phase
  BY <1>4
<1>5. QED
  BY <1>2, <1>3, <1>4 DEF Next

(* Every cluster whose bootstrap and masters are among its hosts takes    *)
(* each host's reboot or failure once and for all.                        *)
THEOREM ExitIsFinalCorrect ==
    ASSUME Bootstrap \in Hosts, Masters \subseteq Hosts, Bootstrap \notin Masters
    PROVE  Spec => [][ExitIsFinal]_phase
<1>1. Spec => []PhaseTypeOK
  BY RebootOrderCorrect, PTL
<1>2. QED
  BY <1>1, ExitIsFinalStep, PTL DEF Spec
=============================================================================
