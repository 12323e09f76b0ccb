------------------------------- MODULE MCAgent ------------------------------
(***************************************************************************)
(* The agent under failures, for TLC: its threads, and the inside of its   *)
(* divider commands, which AcquisitionRuntime takes for one step.  A       *)
(* behaviour exercises one of the two and leaves the other in one of its   *)
(* initial states.                                                         *)
(***************************************************************************)
EXTENDS MCAcquisitionRuntime, ClockDivider

VARIABLE exercised

processVars == <<exercised, vars, dividerVars>>

ProcessInit ==
  /\ exercised \in {"AcquisitionRuntime", "ClockDivider"}
  /\ Init /\ ClockDividerInit
  /\ IF exercised = "ClockDivider" THEN clockSafe ELSE mounted = "root"

\* The dividers may rest; the threads must not be stuck.
ProcessNext ==
  /\ UNCHANGED exercised
  /\ \/ /\ exercised = "AcquisitionRuntime" /\ Next /\ UNCHANGED dividerVars
     \/ /\ exercised = "ClockDivider" /\ (ClockDividerNext \/ UNCHANGED dividerVars)
        /\ UNCHANGED vars

ProcessSpec == ProcessInit /\ [][ProcessNext]_processVars

-----------------------------------------------------------------------------
\* Two outputs on Pdiv1, one on each of the others; Pdiv1 takes two registers.
MCPowerUp == [r02 |-> 0, r03 |-> 1, r26 |-> 1, r37 |-> 1]
ApplyRequest(outputs, divider, reference) ==
  [outputs |-> outputs, divider |-> divider, reference |-> reference]
MCApplyRequests ==
  { ApplyRequest({0}, 2, 0), ApplyRequest({1, 3, 6}, 3, 2) }
=============================================================================
