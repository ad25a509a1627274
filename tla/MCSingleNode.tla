--------------------------- MODULE MCSingleNode ---------------------------
(* Model-checking instance of SingleNode: one master-ignition file and    *)
(* one host-specific file.                                                *)
EXTENDS SingleNode
CONSTANTS f1, f2, d1, d2
MCDisks == <<d1, d2>>
====
