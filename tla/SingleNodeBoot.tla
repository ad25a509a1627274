--------------------------- MODULE SingleNodeBoot ---------------------------
(***************************************************************************)
(* What the installer of a single-node cluster promises (spec, sections   *)
(* 4.1 and 8, single-node mode), with nothing of how: the host writes one *)
(* image, the expected ignition, to its disk, and only then reboots; the  *)
(* installation may fail before or after the write, and ends there.       *)
(***************************************************************************)
EXTENDS TLAPS

CONSTANTS
    Blank,      \* the install device's ignition before the write
    Expected    \* the ignition the image must carry

VARIABLES
    phase,      \* installing, written, rebooted or failed
    image       \* the ignition written to the install device

Init ==
    /\ phase = "installing"
    /\ image = Blank

(* The image is written, once, with the expected ignition.                *)
WriteImage ==
    /\ phase = "installing"
    /\ phase' = "written"
    /\ image' = Expected

(* The host reboots from the written image.                               *)
Reboot ==
    /\ phase = "written"
    /\ phase' = "rebooted"
    /\ UNCHANGED image

(* The installation fails; the disk keeps what was written.               *)
Fail ==
    /\ phase \in {"installing", "written"}
    /\ phase' = "failed"
    /\ UNCHANGED image

Next == WriteImage \/ Reboot \/ Fail

Spec == Init /\ [][Next]_<<phase, image>>
-----------------------------------------------------------------------------
(* A host that rebooted boots from the expected image: the disk carries   *)
(* the expected ignition from the write on, whatever happens after it.    *)
RebootsIntoExpected ==
    phase \in {"written", "rebooted"} => image = Expected

(* The image on disk is the expected one in every state past the write.   *)
THEOREM RebootsIntoExpectedCorrect == Spec => []RebootsIntoExpected
<1>1. Init => RebootsIntoExpected
  BY DEF Init, RebootsIntoExpected
<1>2. RebootsIntoExpected /\ [Next]_<<phase, image>> => RebootsIntoExpected'
  BY DEF RebootsIntoExpected, Next, WriteImage, Reboot, Fail
<1>3. QED
  BY <1>1, <1>2, PTL DEF Spec
=============================================================================
