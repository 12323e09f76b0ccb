----------------------- MODULE MCAcquisitionRuntime -------------------------
(***************************************************************************)
(* AcquisitionRuntime for TLC.                                             *)
(***************************************************************************)
EXTENDS AcquisitionFrames

AllCommands == LockedCommands \cup UnlockedCommands
=============================================================================
