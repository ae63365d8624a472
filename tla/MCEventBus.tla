------------------------------ MODULE MCEventBus ------------------------------
(* Two threads and two event types.                                        *)
EXTENDS EventBus, TLC

CONSTANTS t1, t2, Started, Completed
MCThreads == {t1, t2}
MCEventTypes == {Started, Completed}
=============================================================================
