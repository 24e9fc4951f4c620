------------------------------ MODULE MCSensing ------------------------------
(***************************************************************************)
(* Configurations for model checking Sensing.                              *)
(***************************************************************************)
EXTENDS Sensing, TLC

Cpu == [kind |-> "ipmi", sources |-> {"p1"}, auto |-> FALSE, how |-> "max"]
Drives == [kind |-> "smart", sources |-> {"sda", "sdb"}, auto |-> TRUE, how |-> "mean"]

Sensors(s) == [sensors |-> s, action |-> "hold_last", hold |-> 1]

Both == Sensors(("cpu" :> Cpu) @@ ("drives" :> Drives))
JustCpu == [Sensors("cpu" :> Cpu) EXCEPT !.action = "fixed"]
ListedDrives == [Sensors("drives" :> [Drives EXCEPT !.auto = FALSE, !.how = "max"]) EXCEPT !.hold = 2]

AllThree == {Both, JustCpu, ListedDrives}
=============================================================================
