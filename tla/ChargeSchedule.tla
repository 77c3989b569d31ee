--------------------------- MODULE ChargeSchedule ---------------------------
(***************************************************************************)
(* What the conditioning engine promises its caller, without clocks,       *)
(* telemetry or timers: the life cycle of a session and the order of its   *)
(* three constant-voltage stages.  Engine implements this specification,   *)
(* and ChargeTransaction drives a device with nothing more than it.        *)
(***************************************************************************)
EXTENDS Naturals

VARIABLES
  state,   \* Engine.state
  stage,   \* Engine.stage, 0 for StageNone
  target   \* lastStatus.TargetVoltageVolts as the stage it belongs to, 0 for 0 V

schedule == <<state, stage, target>>

Terminal == {"completed", "faulted", "timed_out", "stopped"}
States   == {"idle", "running"} \cup Terminal

TypeOK ==
  /\ state \in States
  /\ stage \in 0 .. 3
  /\ target \in 0 .. 3

Init == state = "idle" /\ stage = 0 /\ target = 0

\* Start on an input that passes every gate, and on one that does not.
Begin ==
  /\ state # "running"
  /\ state' = "running" /\ stage' = 1 /\ target' = 1

Refuse ==
  /\ state # "running"
  /\ state' = "faulted" /\ stage' = 1 /\ target' = 0

Advance ==
  /\ state = "running"
  /\ stage < 3
  /\ stage' = stage + 1 /\ target' = stage + 1
  /\ UNCHANGED state

\* A session ends in the state its cause asks for and asks for 0 V.
End(final) ==
  /\ state' = final /\ target' = 0
  /\ UNCHANGED stage

Complete == state = "running" /\ stage = 3 /\ End("completed")
Fault    == state = "running" /\ End("faulted")
TimeOut  == state = "running" /\ End("timed_out")
Stop     == state \notin Terminal /\ End("stopped")
Abort    == state \notin Terminal /\ End("faulted")

Reset == state' = "idle" /\ stage' = 0 /\ target' = 0

Next == Begin \/ Refuse \/ Advance \/ Complete \/ Fault \/ TimeOut \/ Stop \/ Abort \/ Reset

Spec == Init /\ [][Next]_schedule
=============================================================================
