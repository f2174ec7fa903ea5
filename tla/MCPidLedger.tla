---------------------------- MODULE MCPidLedger ----------------------------
(* Instances of PidLedger for TLC. *)
EXTENDS PidLedger

CONSTANTS t1

(* One thread makes children in every way and exits, the other waits for any
   child, kills and forks. *)
ParentOps == {"fork", "spawn", "system", "popen", "pclose", "exit"}
OtherOps == {"fork", "wait", "waitnull", "KILL", "TERM"}

EveryOp == [t \in Threads |-> IF t = t1 THEN ParentOps ELSE OtherOps]
=============================================================================
