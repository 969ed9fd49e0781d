------------------------------ MODULE Commands ------------------------------
(***************************************************************************)
(* What a command line does to the shared state, under the mutex           *)
(* (comm_handle_command_line).  cmdMode is a mailbox of one slot: a        *)
(* command overwrites one the algorithm thread has not consumed yet.       *)
(***************************************************************************)
EXTENDS SharedState

Request(c) ==
    /\ cmdMode' = c
    /\ UNCHANGED <<mode, emergencyStop, velocity, readings>>

CmdStart == Request("START")
CmdStop == Request("STOP")
CmdManual == Request("MANUAL")

CmdEstop ==
    /\ emergencyStop' = TRUE
    /\ UNCHANGED <<mode, cmdMode, velocity, readings>>

CmdClearEstopKeepsMode ==
    /\ emergencyStop' = FALSE
    /\ cmdMode' = "NONE"
    /\ SetCmd(0, 0)
    /\ UNCHANGED <<mode, readings>>

CmdClearEstopKeepsRequest ==
    /\ emergencyStop' = FALSE
    /\ mode' = "IDLE"
    /\ SetCmd(0, 0)
    /\ UNCHANGED <<cmdMode, readings>>

CmdClearEstop ==
    /\ emergencyStop' = FALSE
    /\ mode' = "IDLE"
    /\ cmdMode' = "NONE"
    /\ SetCmd(0, 0)
    /\ UNCHANGED readings

\* EXIT and QUIT; the caller's shutdown flag is FireDroneCar's business.
CmdExit == Request("STOP")

Command == CmdStart \/ CmdStop \/ CmdManual \/ CmdEstop \/ CmdClearEstop \/ CmdExit
=============================================================================
