------------------------------ MODULE MCRetry ------------------------------
(* Model-checking instance of Retry: the attempts arguments -1 to 10, the *)
(* ones below one included, and 3 as writeImageToDisk passes it.          *)
EXTENDS Retry
MCAttemptValues == -1..10
====
