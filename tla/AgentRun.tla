------------------------------- MODULE AgentRun -------------------------------
(***************************************************************************)
(* A workflow as an AIEngine runs it (ai_engine/builder.py, engine.py):    *)
(* directly, or on behalf of an agent.  AgentEngine.execute                *)
(* (agents/engine.py) starts a workflow of its own, on the same event bus  *)
(* and memory store the workflow engine has, and adds its own events and   *)
(* its own entry around it.  It hands over no options: what an agent runs  *)
(* has no parallel group.                                                  *)
(***************************************************************************)
EXTENDS WorkflowEngine

VARIABLES viaAgent,     \* the run is an AgentEngine.execute call
          blankAgent,   \* Agent.agent_id is blank: nothing validates it
          agentPc,      \* where AgentEngine.execute is
          trace,        \* every event published on the bus, in order
          agentStored   \* the agent's own MemoryEntry is in the store

agentVars == <<viaAgent, blankAgent, agentPc, agentStored>>
allVars == <<vars, agentVars, trace>>

(* The agent makes a Workflow with an id of its own, which is never blank. *)
AgentInit ==
  /\ Init
  /\ viaAgent \in BOOLEAN
  /\ viaAgent => groups = <<>> /\ ~blankId
  /\ blankAgent \in IF viaAgent THEN BOOLEAN ELSE {FALSE}
  /\ agentPc = IF viaAgent THEN "new" ELSE "direct"
  /\ trace = <<>>
  /\ agentStored = FALSE

AgentStarts ==
  /\ agentPc = "new"
  /\ agentPc' = "running"
  /\ trace' = Append(trace, "agent started")
  /\ UNCHANGED <<vars, viaAgent, blankAgent, agentStored>>

(* A step of WorkflowEngine.run, whose events reach the same bus.          *)
Engine(A) ==
  /\ agentPc \in {"direct", "running"}
  /\ A
  /\ trace' = trace \o SubSeq(events', Len(events) + 1, Len(events'))
  /\ UNCHANGED agentVars

(* A bug: a run that raised is taken for one that failed.                  *)
MutAgentEnds ==
  /\ agentPc = "running"
  /\ Ended
  /\ agentPc' = "remember"
  /\ trace' = Append(trace, IF pc = "returned" /\ stoppedAt = 0
                            THEN "agent completed" ELSE "agent failed")
  /\ UNCHANGED <<vars, viaAgent, blankAgent, agentStored>>

(* The result mirrors the workflow's.  What run() raises passes through,   *)
(* and then the agent's start is all that was published of it.             *)
AgentEnds ==
  /\ agentPc = "running"
  /\ Ended
  /\ IF pc = "returned"
     THEN /\ agentPc' = "remember"
          /\ trace' = Append(trace, IF stoppedAt = 0 THEN "agent completed"
                                    ELSE "agent failed")
     ELSE agentPc' = "raised" /\ UNCHANGED trace
  /\ UNCHANGED <<vars, viaAgent, blankAgent, agentStored>>

(* AgentEngine._remember, as the workflow's: a blank id is refused outside *)
(* the try, and an exception of MemoryStore.add is swallowed.              *)
AgentRemembers ==
  /\ agentPc = "remember"
  /\ IF memory /\ blankAgent
     THEN agentPc' = "raised" /\ UNCHANGED agentStored
     ELSE /\ agentPc' = "returned"
          /\ agentStored' \in IF memory THEN BOOLEAN ELSE {FALSE}
  /\ UNCHANGED <<vars, viaAgent, blankAgent, trace>>

AgentStep == AgentStarts \/ AgentEnds \/ AgentRemembers

CallEnded == Ended /\ agentPc \in {"direct", "returned", "raised"}

AgentNext ==
  \/ AgentStep
  \/ Engine(MainStep)
  \/ \E s \in Steps : Engine(Worker(s))
  \/ CallEnded /\ UNCHANGED allVars

AgentSpec == AgentInit /\ [][AgentNext]_allVars

AgentFairSpec ==
  /\ AgentSpec
  /\ WF_allVars(AgentStep)
  /\ WF_allVars(Engine(MainStep))
  /\ \A s \in Steps : WF_allVars(Engine(Worker(s)))

---------------------------------------------------------------------------
(* What a listener on the shared bus hears of an agent run that returned:  *)
(* the workflow's two events inside the agent's two, with one outcome.     *)
Told(outcome) ==
  <<"agent started", "started", outcome,
    IF outcome = "completed" THEN "agent completed" ELSE "agent failed">>

(* The agent's events enclose its workflow's and tell the same outcome,    *)
(* which is that of the steps; a run cut short by an exception has told a  *)
(* proper beginning of it, unless only its own record was refused.  The    *)
(* agent's record is never in the store of a run that did not return.      *)
AgentTellsItsWorkflow ==
  viaAgent =>
    /\ \E outcome \in {"completed", "failed"} :
         trace = SubSeq(Told(outcome), 1, Len(trace))
    /\ agentPc \in {"remember", "returned"} =>
         trace = Told(IF \E s \in Steps : Stops(out, cont, s) THEN "failed" ELSE "completed")
    /\ agentPc = "raised" /\ Len(trace) = 4 => memory /\ blankAgent
    /\ agentStored => agentPc = "returned"

(* execute() comes back, and so does run(), alone or under an agent:       *)
(* as_completed is handed every future, however few workers there are.     *)
CallEnds == <>CallEnded
=============================================================================
