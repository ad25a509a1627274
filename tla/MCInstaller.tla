---------------------------- MODULE MCInstaller ----------------------------
(* Model-checking instance of Installer: one bootstrap, two more masters   *)
(* and one worker, the OCP < 4.7 / OVNKubernetes case in which the         *)
(* replicas patch is applied.                                              *)
EXTENDS Installer

CONSTANTS b, m1, m2, w1

MCHosts == {b, m1, m2, w1}
MCMasters == {m1, m2}

(* The control plane alone, for the liveness run.                          *)
MCControlPlane == {b, m1, m2}
====
