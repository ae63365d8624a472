--------------------------- MODULE WorkflowOptions ---------------------------
(***************************************************************************)
(* The static half of a workflow run: the options a caller may hand to     *)
(* WorkflowEngine.run, which of them are refused, and the units the steps  *)
(* of an accepted definition fall into.  A step is its declared position.  *)
(***************************************************************************)
EXTENDS Integers, Sequences

CONSTANTS N,             \* number of steps in the workflow definition
          GroupOptions   \* the parallel_groups values a caller may supply

Steps == 1..N

(* A caller may also name a step that the definition does not have.        *)
Names == 1..(N + 1)

ASSUME NAssumption == N \in Nat
ASSUME GroupOptionsAssumption ==
  \A gs \in GroupOptions : gs \in Seq(Seq(Names))

NamedIn(g) == {g[k] : k \in DOMAIN g}

(***************************************************************************)
(* WorkflowExecutionOptions.__post_init__: no empty group, and no name in  *)
(* two places.  Options that fail this never reach the engine.             *)
(***************************************************************************)
WellFormed(gs) ==
  /\ \A g \in DOMAIN gs : gs[g] # <<>>
  /\ \A g, h \in DOMAIN gs : \A k \in DOMAIN gs[g], l \in DOMAIN gs[h] :
       gs[g][k] = gs[h][l] => g = h /\ k = l

(***************************************************************************)
(* _validate_options: every name is a step, and each group lists           *)
(* contiguous steps in their declared order.                               *)
(***************************************************************************)
KnownNames(gs) == \A g \in DOMAIN gs : NamedIn(gs[g]) \subseteq Steps

InDeclaredOrder(g) == \A k, l \in DOMAIN g : k < l => g[k] < g[l]

Contiguous(g) ==
  \E lo, hi \in NamedIn(g) : NamedIn(g) = lo..hi /\ hi - lo + 1 = Len(g)

Accepted(gs) ==
  /\ KnownNames(gs)
  /\ \A g \in DOMAIN gs : InDeclaredOrder(gs[g]) /\ Contiguous(gs[g])

(* group_by_name in _group_into_units; 0 stands for a step in no group.    *)
GroupOf(gs, s) ==
  IF \E g \in DOMAIN gs : s \in NamedIn(gs[g])
  THEN CHOOSE g \in DOMAIN gs : s \in NamedIn(gs[g])
  ELSE 0

SameGroup(gs, i, j) == GroupOf(gs, i) # 0 /\ GroupOf(gs, j) = GroupOf(gs, i)

SameUnit(gs, i, j) == i = j \/ SameGroup(gs, i, j)

(* The unit _group_into_units builds when it opens one at step s: later    *)
(* steps join it for as long as they belong to the group of its first.     *)
UnitFrom(gs, s) == {j \in s..N : \A k \in (s + 1)..j : SameGroup(gs, s, k)}

Opens(done, s) == s \in Steps \ done /\ 1..(s - 1) \subseteq done

(* A step's outcome stops the run unless it has continue_on_failure.       *)
Successes == {"ok"}
Failures  == {"fail", "skipped"}

Stops(r, c, s) == r[s] \in Failures /\ s \notin c
=============================================================================
