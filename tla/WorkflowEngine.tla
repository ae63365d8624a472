--------------------------- MODULE WorkflowEngine ---------------------------
(***************************************************************************)
(* WorkflowEngine.run (workflow/engine.py): one calling thread walks the   *)
(* units of a definition; a unit that options.parallel_groups names runs   *)
(* on the worker threads of a ThreadPoolExecutor.                          *)
(*                                                                         *)
(* A step is its declared position.  What ExecutionEngine.execute answers  *)
(* is chosen freely, and so is which step is not yet due or has a resolver *)
(* that fails.                                                             *)
(*                                                                         *)
(* An operator MutX is a plausible wrong version of the X below it.  No    *)
(* definition uses it; it shows that some property would notice.           *)
(***************************************************************************)
EXTENDS WorkflowOptions, FiniteSets

CONSTANT Limits   \* the max_concurrency values to try; 0 stands for None

ASSUME LimitsAssumption == Limits \subseteq Nat

VARIABLES groups,     \* parallel_groups of this run
          cont,       \* the steps with continue_on_failure
          limit,      \* max_concurrency of this engine
          memory,     \* a MemoryStore is configured
          blankId,    \* Workflow.workflow_id is blank: nothing validates it
          pc,         \* where the calling thread is
          past,       \* the steps of the units already folded in
          results,    \* step_results; "none" for a key that is missing
          first,      \* first step of the unit being run, 0 between units
          fut,        \* state of each step's Future
          out,        \* how each step's body ended
          seen,       \* keys of the context.step_results a body was given
          waiting,    \* futures as_completed has not handed over yet
          completed,  \* steps of the unit collected with a result
          raised,     \* steps of the unit collected with an exception
          stopped,    \* the unit's local flag of that name
          cancelq,    \* siblings the cancel loop has yet to visit
          stoppedAt,  \* WorkflowResult.stopped_at, 0 for None
          events,     \* lifecycle events published
          stored      \* the run's own MemoryEntry is in the store

config == <<groups, cont, limit, memory, blankId>>
unitVars == <<first, fut, out, seen, waiting, completed, raised, stopped, cancelq>>
endVars == <<stoppedAt, events, stored>>
vars == <<config, pc, past, results, unitVars, endVars>>

EventNames == {"started", "failed", "completed"}

Outcomes == Successes \cup Failures

(* seen of a step whose body never started; no set of steps.               *)
Unseen == {0}

Unit == IF first = 0 THEN {} ELSE UnitFrom(groups, first)

(* _is_explicitly_parallel: otherwise the caller runs the step itself.     *)
Pooled == first # 0 /\ GroupOf(groups, first) # 0

Workers == IF limit = 0 THEN Cardinality(Unit) ELSE limit

Running == {s \in Steps : fut[s] = "running"}
Queued  == {s \in Steps : fut[s] \in {"pending", "cancelled"}}

(* as_completed yields a cancelled future only after a worker has taken it *)
(* off the queue and notified its waiters.                                 *)
MutDone(s) == fut[s] = "finished"

Done(s) == fut[s] \in {"finished", "notified"}

NextStep(done) == {s \in Steps : Opens(done, s)}

MutStopsIn(r, S) == {s \in S : r[s] = "fail" /\ s \notin cont}

StopsIn(r, S) == {s \in S : Stops(r, cont, s)}

(* _first_stopping_failure, in declared order; 0 for None.                 *)
MutFirstStoppingFailure(r, S) ==
  IF StopsIn(r, S) = {} THEN 0
  ELSE CHOOSE s \in StopsIn(r, S) : \A t \in StopsIn(r, S) : t <= s

MutIndexFromOne(r, S) ==
  IF StopsIn(r, S) = {} THEN 0
  ELSE 1 + CHOOSE s \in StopsIn(r, S) : \A t \in StopsIn(r, S) : s <= t

FirstStoppingFailure(r, S) ==
  IF StopsIn(r, S) = {} THEN 0
  ELSE CHOOSE s \in StopsIn(r, S) : \A t \in StopsIn(r, S) : s <= t

MutFolded ==
  [s \in Steps |-> IF s \in completed /\ StopsIn(out, Unit \cap 1..(s - 1)) = {}
                  THEN out[s] ELSE results[s]]

(* step_results after a unit.  Steps cancelled have no entry.              *)
Folded == [s \in Steps |-> IF s \in completed THEN out[s] ELSE results[s]]

MutContext == {s \in Steps : results[s] # "none"} \cup completed

(* The step_results of running_context.                                    *)
Context == {s \in Steps : results[s] # "none"}

---------------------------------------------------------------------------
Init ==
  /\ groups \in {gs \in GroupOptions : WellFormed(gs)}
  /\ cont \in SUBSET Steps
  /\ limit \in Limits
  /\ memory \in BOOLEAN
  /\ blankId \in BOOLEAN
  /\ pc = "new"
  /\ past = {}
  /\ results = [s \in Steps |-> "none"]
  /\ first = 0
  /\ fut = [s \in Steps |-> "none"]
  /\ out = [s \in Steps |-> "none"]
  /\ seen = [s \in Steps |-> Unseen]
  /\ waiting = {} /\ completed = {} /\ raised = {} /\ cancelq = {}
  /\ stopped = FALSE
  /\ stoppedAt = 0
  /\ events = <<>>
  /\ stored = FALSE

(* _validate_options raises before anything is published or executed.      *)
Start ==
  /\ pc = "new"
  /\ IF Accepted(groups)
     THEN pc' = "units" /\ events' = Append(events, "started")
     ELSE pc' = "rejected" /\ UNCHANGED events
  /\ UNCHANGED <<config, past, results, unitVars, stoppedAt, stored>>

(* The submit loop creates every future of the group before any worker's   *)
(* answer is looked at; a step in no group starts at once, inline.         *)
BeginUnit(s) ==
  /\ pc = "units"
  /\ s \in NextStep(past)
  /\ pc' = "group"
  /\ first' = s
  /\ LET unit == UnitFrom(groups, s)
         inline == GroupOf(groups, s) = 0
     IN  /\ fut' = [i \in Steps |-> IF i \notin unit THEN fut[i]
                                    ELSE IF inline THEN "running" ELSE "pending"]
         /\ seen' = IF inline THEN [seen EXCEPT ![s] = Context] ELSE seen
         /\ waiting' = unit
  /\ completed' = {} /\ raised' = {} /\ cancelq' = {}
  /\ stopped' = FALSE
  /\ UNCHANGED <<config, past, results, out, endVars>>

(* An idle worker takes the future at the head of the work queue.          *)
Dequeue(s) ==
  /\ s \in Queued
  /\ \A t \in Queued : s <= t
  /\ Cardinality(Running) < Workers
  /\ IF fut[s] = "pending"
     THEN /\ fut' = [fut EXCEPT ![s] = "running"]
          /\ seen' = [seen EXCEPT ![s] = Context]
     ELSE /\ fut' = [fut EXCEPT ![s] = "notified"]
          /\ UNCHANGED seen
  /\ UNCHANGED <<config, pc, past, results, first, out, waiting, completed,
                 raised, stopped, cancelq, endVars>>

(* _resolve_and_execute_step returns or raises; "skipped" stands for the   *)
(* scheduling and dynamic_request failures, which never reach the engine.  *)
StepEnds(s, o) ==
  /\ s \in Running
  /\ fut' = [fut EXCEPT ![s] = "finished"]
  /\ out' = [out EXCEPT ![s] = o]
  /\ UNCHANGED <<config, pc, past, results, first, seen, waiting, completed,
                 raised, stopped, cancelq, endVars>>

MutStopsUnit(s) == Pooled /\ ~stopped /\ out[s] \in Failures

StopsUnit(s) == Pooled /\ ~stopped /\ Stops(out, cont, s)

(* One turn of the as_completed loop, which may hand over any future that  *)
(* is done.  The first stopping failure starts the cancel loop.            *)
Collect(s) ==
  /\ pc = "group"
  /\ cancelq = {}
  /\ s \in waiting
  /\ Done(s)
  /\ waiting' = waiting \ {s}
  /\ raised' = IF out[s] = "raise" THEN raised \cup {s} ELSE raised
  /\ completed' = IF out[s] \in Outcomes THEN completed \cup {s} ELSE completed
  /\ stopped' = (stopped \/ StopsUnit(s))
  /\ cancelq' = IF StopsUnit(s) THEN Unit \ {s} ELSE {}
  /\ UNCHANGED <<config, pc, past, results, first, fut, out, seen, endVars>>

(* other_future.cancel(), one future at a time in submission order: it     *)
(* succeeds only on a future no worker has taken yet.                      *)
CancelNext(s) ==
  /\ s \in cancelq
  /\ \A t \in cancelq : s <= t
  /\ cancelq' = cancelq \ {s}
  /\ fut' = IF fut[s] = "pending" THEN [fut EXCEPT ![s] = "cancelled"] ELSE fut
  /\ UNCHANGED <<config, pc, past, results, first, out, seen, waiting,
                 completed, raised, stopped, endVars>>

UnitCollected == pc = "group" /\ waiting = {} /\ cancelq = {}

(* A bug: a run that is about to raise announces that it failed.           *)
MutUnitRaises ==
  /\ UnitCollected
  /\ raised # {}
  /\ pc' = "raised"
  /\ events' = Append(events, "failed")
  /\ UNCHANGED <<config, past, results, unitVars, stoppedAt, stored>>

(* An exception of any step leaves run() at once: the results its siblings *)
(* returned are dropped with it.                                           *)
UnitRaises ==
  /\ UnitCollected
  /\ raised # {}
  /\ pc' = "raised"
  /\ UNCHANGED <<config, past, results, unitVars, endVars>>

FoldUnit ==
  /\ UnitCollected
  /\ raised = {}
  /\ results' = Folded
  /\ past' = past \cup Unit
  /\ first' = 0
  /\ stoppedAt' = FirstStoppingFailure(Folded, Unit)
  /\ IF stoppedAt' # 0
     THEN pc' = "remember" /\ events' = Append(events, "failed")
     ELSE pc' = "units" /\ UNCHANGED events
  /\ UNCHANGED <<config, fut, out, seen, waiting, completed, raised, stopped,
                 cancelq, stored>>

Complete ==
  /\ pc = "units"
  /\ past = Steps
  /\ pc' = "remember"
  /\ events' = Append(events, "completed")
  /\ UNCHANGED <<config, past, results, unitVars, stoppedAt, stored>>

(* _remember.  MemoryEntry refuses a blank id outside the try; an exception *)
(* of MemoryStore.add is swallowed.                                        *)
Remember ==
  /\ pc = "remember"
  /\ IF memory /\ blankId
     THEN pc' = "raised" /\ UNCHANGED stored
     ELSE /\ pc' = "returned"
          /\ stored' \in IF memory THEN BOOLEAN ELSE {FALSE}
  /\ UNCHANGED <<config, past, results, unitVars, stoppedAt, events>>

Ended == pc \in {"returned", "raised", "rejected"}

Terminated == Ended /\ UNCHANGED vars

MainStep ==
  \/ Start
  \/ \E s \in Steps : BeginUnit(s)
  \/ \E s \in Steps : Collect(s)
  \/ \E s \in Steps : CancelNext(s)
  \/ UnitRaises
  \/ FoldUnit
  \/ Complete
  \/ Remember

Worker(s) == Dequeue(s) \/ \E o \in Outcomes \cup {"raise"} : StepEnds(s, o)

Next ==
  \/ MainStep
  \/ \E s \in Steps : Worker(s)
  \/ Terminated

(* The scheduler runs every thread that can run, and step bodies end.      *)
Fairness == WF_vars(MainStep) /\ \A s \in Steps : WF_vars(Worker(s))

Spec == Init /\ [][Next]_vars

FairSpec == Spec /\ Fairness

---------------------------------------------------------------------------
(* The values each variable can take.                                      *)
TypeOK ==
  /\ groups \in GroupOptions
  /\ cont \in SUBSET Steps
  /\ limit \in Limits
  /\ memory \in BOOLEAN
  /\ blankId \in BOOLEAN
  /\ pc \in {"new", "units", "group", "remember", "returned", "raised", "rejected"}
  /\ past \in SUBSET Steps
  /\ results \in [Steps -> {"none"} \cup Outcomes]
  /\ first \in 0..N
  /\ fut \in [Steps -> {"none", "pending", "running", "cancelled", "notified", "finished"}]
  /\ out \in [Steps -> {"none", "raise"} \cup Outcomes]
  /\ seen \in [Steps -> (SUBSET Steps) \cup {Unseen}]
  /\ waiting \in SUBSET Steps
  /\ completed \in SUBSET Steps
  /\ raised \in SUBSET Steps
  /\ stopped \in BOOLEAN
  /\ cancelq \in SUBSET Steps
  /\ stoppedAt \in 0..N
  /\ events \in Seq(EventNames)
  /\ stored \in BOOLEAN

Started(s) == seen[s] # Unseen

(* No step starts before every step of every earlier unit has ended, and   *)
(* none starts behind a unit that stopped the workflow.                    *)
UnitBarrier ==
  \A i, j \in Steps :
    i < j /\ ~SameUnit(groups, i, j) /\ Started(j) =>
      fut[i] = "finished" /\ out[i] \in Outcomes /\ ~Stops(out, cont, i)

(* Whatever order a parallel unit runs in, each of its steps is given the  *)
(* results of exactly the earlier units, and never a sibling's.            *)
SiblingsShareContext ==
  \A s \in Steps :
    Started(s) => seen[s] = {i \in 1..(s - 1) : ~SameUnit(groups, i, s)}

(* A result is returned only if no step raised, and then it reports every  *)
(* step that was executed, those that finished after the unit was stopped  *)
(* included, with what that step answered.                                 *)
NothingExecutedIsLost ==
  pc = "returned" =>
    /\ \A s \in Steps : results[s] = out[s]
    /\ \A s \in Steps : Started(s) => results[s] # "none"

(* WorkflowResult.stopped_at names the first stopping failure in declared  *)
(* order whichever thread failed first; without one the run succeeded, and *)
(* then no step was left out.                                              *)
OutcomeIsFirstDeclaredFailure ==
  pc \in {"remember", "returned"} =>
    IF stoppedAt = 0
    THEN \A s \in Steps : results[s] # "none" /\ ~Stops(results, cont, s)
    ELSE /\ Stops(results, cont, stoppedAt)
         /\ \A s \in 1..(stoppedAt - 1) : ~Stops(results, cont, s)

(* A queued step is cancelled only because a sibling of its own unit       *)
(* failed without continue_on_failure; no cancelled step was ever started. *)
CancelledOnlyForAReason ==
  \A s \in Steps : fut[s] \in {"cancelled", "notified"} =>
    /\ ~Started(s)
    /\ \E t \in Steps : SameGroup(groups, s, t) /\ Stops(out, cont, t)

(* What a run that ended has published, to the letter.  Refused options    *)
(* publish nothing.  A run one of whose steps raised ends in that          *)
(* exception and has announced its start alone, no terminal event, whatever*)
(* its siblings and the other units answered (engine.py 254).  Every other *)
(* run has announced its own outcome behind its start, also when _remember *)
(* then refused the record and it was raised out of run() (engine.py 338). *)
EventsMatchOutcome ==
  /\ pc = "rejected" => events = <<>>
  /\ pc \in {"returned", "raised"} =>
       IF \E s \in Steps : out[s] = "raise"
       THEN pc = "raised" /\ events = <<"started">>
       ELSE /\ events = <<"started", IF stoppedAt = 0 THEN "completed" ELSE "failed">>
            /\ pc = "raised" => memory /\ blankId

---------------------------------------------------------------------------
(* The run implements WorkflowRun: settling a unit is what folding it in   *)
(* does, and everything the pool does before is hidden.                    *)
Status ==
  CASE pc \in {"new", "rejected", "raised"} -> pc
    [] pc \in {"units", "group"} -> "running"
    [] OTHER -> IF stoppedAt = 0 THEN "succeeded" ELSE "failed"

Run == INSTANCE WorkflowRun WITH status <- Status

RefinesRun == Run!RunSpec
=============================================================================
