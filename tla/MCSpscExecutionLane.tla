------------------------ MODULE MCSpscExecutionLane ------------------------
(* SpscExecutionLane for TLC: a lane fed by two threads of one adapter,    *)
(* with a flush and a destructor at any moment.                            *)
EXTENDS SpscExecutionLane
=============================================================================
