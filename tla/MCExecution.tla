---------------------------- MODULE MCExecution ----------------------------
(* One tool id that two different tools may hold in turn, one of which     *)
(* needs a permission, and one provider name: enough for an authorizer to  *)
(* have looked at a tool that is not the one the dispatcher finds.         *)
EXTENDS ExecutionEngine

CONSTANTS free, guarded

MCTools == {free, guarded}
MCIdOf == [t \in MCTools |-> "id"]
MCNeeds == [t \in MCTools |-> IF t = guarded THEN {"permission"} ELSE {}]
=============================================================================
