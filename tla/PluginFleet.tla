---------------------------- MODULE PluginFleet ----------------------------
(***************************************************************************)
(* One PluginRegistry and the AIEngines built on it in turn: who owns it,  *)
(* the PluginLifecycle each engine keeps per plugin id, and the fail-fast  *)
(* sweeps start_plugins, stop_plugins and dispose_plugins, one call of a   *)
(* plugin at a time.  Plugins come and go at any time: from the code that  *)
(* holds the registry, from plugins under way, and from the discovery that *)
(* a build runs before it asks who owns the registry.                      *)
(*                                                                         *)
(* One thread drives an engine; the bodies of plugins answer or raise.     *)
(*                                                                         *)
(* MutX is a wrong version of the X below it; no definition uses it.       *)
(***************************************************************************)
EXTENDS Naturals, Sequences

CONSTANTS Plugins,      \* plugin instances; several may have one id
          PluginIds,
          IdOf,         \* metadata.id of each
          Engines,      \* AIEngine objects; one that was collected may recur
          Directories,  \* what a discovery may find, in its order
          None

ASSUME IdOfAssumption == IdOf \in [Plugins -> PluginIds]
ASSUME DirectoriesAssumption == Directories \subseteq Seq(Plugins)
ASSUME NoneAssumption == None \notin Engines \cup Plugins

VARIABLES registry,    \* PluginRegistry._plugins, in registration order
          building,    \* plugins a build has still to load; None when none is under way
          alive,       \* engines that are not garbage collected
          owner,       \* referent of the entry in _registry_owners
          lifecycles,  \* AIEngine._plugin_lifecycles of each
          sweep,       \* its start_plugins, stop_plugins or dispose_plugins under way
          condition    \* what the last call of each plugin made of it

vars == <<registry, building, alive, owner, lifecycles, sweep, condition>>

States == {"registered", "initialized", "running", "stopped", "disposed", "failed"}

Lifecycles == [plugin : Plugins, state : States]

Untracked == [plugin |-> None, state |-> "registered"]

Sweeps == [op : {"none", "start", "stop", "dispose"}, rest : Seq(PluginIds),
           swept : Seq(PluginIds)]

NoSweep == [op |-> "none", rest |-> <<>>, swept |-> <<>>]

Registered == {registry[i] : i \in DOMAIN registry}

Sweeping(e) == sweep[e].op # "none"

Holds(id) == \E p \in Registered : IdOf[p] = id

(* PluginRegistry.lookup, of an id it holds.                               *)
PluginOf(id) == CHOOSE p \in Registered : IdOf[p] = id

---------------------------------------------------------------------------
Init ==
  /\ registry = <<>> /\ building = None
  /\ alive = {} /\ owner = None
  /\ lifecycles = [e \in Engines |-> [id \in PluginIds |-> Untracked]]
  /\ sweep = [e \in Engines |-> NoSweep]
  /\ condition = [p \in Plugins |-> "registered"]

Register(p) ==
  /\ ~Holds(IdOf[p])
  /\ registry' = Append(registry, p)
  /\ UNCHANGED <<building, alive, owner, lifecycles, sweep, condition>>

Unregister(id) ==
  /\ \E i \in DOMAIN registry :
       /\ IdOf[registry[i]] = id
       /\ registry' = SubSeq(registry, 1, i - 1) \o SubSeq(registry, i + 1, Len(registry))
  /\ UNCHANGED <<building, alive, owner, lifecycles, sweep, condition>>

---------------------------------------------------------------------------
(* AIEngineBuilder.build                                                   *)

Build(found) ==
  /\ building = None
  /\ building' = found
  /\ UNCHANGED <<registry, alive, owner, lifecycles, sweep, condition>>

(* PluginDiscovery.discover_and_register, one plugin.                      *)
Discover ==
  /\ building # None /\ building # <<>>
  /\ ~Holds(IdOf[Head(building)])
  /\ registry' = Append(registry, Head(building))
  /\ building' = Tail(building)
  /\ UNCHANGED <<alive, owner, lifecycles, sweep, condition>>

(* A manifest, an entry point, the loader or the registry raised; what was *)
(* registered by then stays registered.                                    *)
DiscoveryFails ==
  /\ building # None /\ building # <<>>
  /\ building' = None
  /\ UNCHANGED <<registry, alive, owner, lifecycles, sweep, condition>>

MutVacant == TRUE

(* The weak reference to the owner is dead or was never made.              *)
Vacant == owner \notin alive

(* AIEngine.__init__                                                       *)
Claim(e) ==
  /\ building = <<>> /\ Vacant
  /\ e \notin alive
  /\ building' = None
  /\ alive' = alive \cup {e}
  /\ owner' = e
  /\ UNCHANGED <<registry, lifecycles, sweep, condition>>

Refuse ==
  /\ building = <<>> /\ ~Vacant
  /\ building' = None
  /\ UNCHANGED <<registry, alive, owner, lifecycles, sweep, condition>>

(* The last reference is dropped; a method under way holds one.            *)
Collect(e) ==
  /\ e \in alive /\ ~Sweeping(e)
  /\ alive' = alive \ {e}
  /\ lifecycles' = [lifecycles EXCEPT ![e] = [id \in PluginIds |-> Untracked]]
  /\ UNCHANGED <<registry, building, owner, sweep, condition>>

---------------------------------------------------------------------------
(* The sweeps.  enumerate() is read once, the registry again per plugin.   *)

Ids(plugins) == [i \in DOMAIN plugins |-> IdOf[plugins[i]]]

Begin(e, op) ==
  /\ e \in alive /\ ~Sweeping(e)
  /\ sweep' = [sweep EXCEPT ![e] =
       [op |-> op, rest |-> Ids(registry), swept |-> Ids(registry)]]
  /\ UNCHANGED <<registry, building, alive, owner, lifecycles, condition>>

(* The sweep is over: it returns, or an exception leaves it.               *)
End(e) == sweep' = [sweep EXCEPT ![e] = NoSweep]

MutLifecycleFor(e, id) == lifecycles[e][id]

(* _lifecycle_for, when there is one or the id is registered.              *)
LifecycleFor(e, id) ==
  IF lifecycles[e][id] = Untracked THEN [plugin |-> PluginOf(id), state |-> "registered"]
  ELSE lifecycles[e][id]

Found(e, id) == lifecycles[e][id] # Untracked \/ Holds(id)

(* The call the sweep makes next on a plugin in this state.                *)
Call(op, state) ==
  CASE op = "start" /\ state = "registered" -> "initialize"
    [] op = "dispose" /\ state = "disposed" -> "none"
    [] OTHER -> op

MutAllowed(call) ==
  CASE call = "initialize" -> {"registered"}
    [] call = "start" -> {"initialized", "stopped"}
    [] call = "stop" -> {"running"}
    [] call = "dispose" -> {"registered", "initialized", "stopped", "failed", "running"}
    [] OTHER -> {"disposed"}

(* The states PluginLifecycle takes the call in ...                        *)
Allowed(call) ==
  CASE call = "initialize" -> {"registered"}
    [] call = "start" -> {"initialized", "stopped"}
    [] call = "stop" -> {"running"}
    [] call = "dispose" -> {"registered", "initialized", "stopped", "failed"}
    [] OTHER -> {"disposed"}

(* ... and where the call leads when the plugin does not raise.            *)
Target(call) ==
  CASE call = "initialize" -> "initialized"
    [] call = "start" -> "running"
    [] call = "stop" -> "stopped"
    [] OTHER -> "disposed"

Track(e, id, lifecycle) == lifecycles' = [lifecycles EXCEPT ![e][id] = lifecycle]

MutMoveOn(e, call) == sweep' = [sweep EXCEPT ![e].rest = Tail(@)]

(* The sweep goes on with the next plugin; one that it has just            *)
(* initialized it starts first.                                            *)
MoveOn(e, call) ==
  IF call = "initialize" THEN UNCHANGED sweep
  ELSE sweep' = [sweep EXCEPT ![e].rest = Tail(@)]

(* A call of the plugin at the head of the sweep, and how it ends.         *)
Step(e, succeeds) ==
  /\ Sweeping(e) /\ sweep[e].rest # <<>>
  /\ LET id == Head(sweep[e].rest)
         lifecycle == LifecycleFor(e, id)
         call == Call(sweep[e].op, lifecycle.state)
         state == IF succeeds THEN Target(call) ELSE "failed"
     IN  /\ Found(e, id) /\ lifecycle.state \in Allowed(call)
         /\ call = "none" => succeeds
         /\ Track(e, id, [lifecycle EXCEPT !.state = state])
         /\ condition' = [condition EXCEPT ![lifecycle.plugin] =
              IF call = "none" THEN @ ELSE state]
         /\ IF succeeds THEN MoveOn(e, call) ELSE End(e)
  /\ UNCHANGED <<registry, building, alive, owner>>

(* The lifecycle refuses the call; it was made and is kept all the same.   *)
OutOfOrder(e) ==
  /\ Sweeping(e) /\ sweep[e].rest # <<>>
  /\ LET id == Head(sweep[e].rest)
         lifecycle == LifecycleFor(e, id)
     IN  /\ Found(e, id)
         /\ lifecycle.state \notin Allowed(Call(sweep[e].op, lifecycle.state))
         /\ Track(e, id, lifecycle)
  /\ End(e)
  /\ UNCHANGED <<registry, building, alive, owner, condition>>

(* Unregistered since enumerate(), and never seen before.                  *)
Vanished(e) ==
  /\ Sweeping(e) /\ sweep[e].rest # <<>>
  /\ ~Found(e, Head(sweep[e].rest))
  /\ End(e)
  /\ UNCHANGED <<registry, building, alive, owner, lifecycles, condition>>

Return(e) ==
  /\ Sweeping(e) /\ sweep[e].rest = <<>>
  /\ End(e)
  /\ UNCHANGED <<registry, building, alive, owner, lifecycles, condition>>

Next ==
  \/ \E p \in Plugins : Register(p)
  \/ \E id \in PluginIds : Unregister(id)
  \/ \E found \in Directories : Build(found)
  \/ Discover
  \/ DiscoveryFails
  \/ Refuse
  \/ \E e \in Engines :
       \/ Claim(e)
       \/ Collect(e)
       \/ \E op \in {"start", "stop", "dispose"} : Begin(e, op)
       \/ \E succeeds \in BOOLEAN : Step(e, succeeds)
       \/ OutOfOrder(e)
       \/ Vanished(e)
       \/ Return(e)

Spec == Init /\ [][Next]_vars

---------------------------------------------------------------------------
(* The values each variable can take.                                      *)
TypeOK ==
  /\ registry \in Seq(Plugins)
  /\ building = None \/ building \in Seq(Plugins)
  /\ alive \in SUBSET Engines
  /\ owner \in Engines \cup {None}
  /\ lifecycles \in [Engines -> [PluginIds -> Lifecycles \cup {Untracked}]]
  /\ sweep \in [Engines -> Sweeps]
  /\ condition \in [Plugins -> States]

(* Once an engine has called a plugin, what its PluginLifecycle says is    *)
(* what the plugin went through: no other engine drives it behind its      *)
(* back, whatever is unregistered, registered again or discovered.         *)
LifecycleTellsPlugin ==
  \A e \in alive, id \in PluginIds :
    LET lifecycle == lifecycles[e][id]
    IN  lifecycle.state # "registered" =>
          IdOf[lifecycle.plugin] = id /\ condition[lifecycle.plugin] = lifecycle.state

(* When a sweep returns, it brought every plugin it began with where it    *)
(* should be: none that failed or was refused is passed over in silence.   *)
SweepIsComplete ==
  \A e \in Engines :
    Sweeping(e) /\ sweep[e].rest = <<>> =>
      \A i \in DOMAIN sweep[e].swept :
        lifecycles[e][sweep[e].swept[i]].state = Target(sweep[e].op)

(* The calls a plugin may see: initialize, then start and stop in turn,    *)
(* and after dispose nothing; a failed plugin can only be disposed.        *)
Orderly ==
  {<<"registered", "initialized">>, <<"initialized", "running">>,
   <<"running", "stopped">>, <<"stopped", "running">>,
   <<"registered", "disposed">>, <<"initialized", "disposed">>,
   <<"stopped", "disposed">>, <<"failed", "disposed">>}
  \cup (States \ {"disposed"}) \X {"failed"}

(* A live engine has called the plugin before.                             *)
Driven(p) ==
  \E e \in alive, id \in PluginIds :
    lifecycles[e][id].plugin = p /\ lifecycles[e][id].state # "registered"

(* From its first call by an engine to the end of that engine, a plugin    *)
(* sees its calls in the order the Plugin contract promises.               *)
CallsAreOrderly ==
  [][\A p \in Plugins :
       condition'[p] # condition[p] /\ Driven(p) =>
         <<condition[p], condition'[p]>> \in Orderly]_vars

(* Plugin.initialize is called "exactly once" (plugins/base.py): no call   *)
(* of it reaches a plugin that is running or was stopped, which only a     *)
(* plugin initialized before can be.                                       *)
InitializedOnce ==
  [][\A p \in Plugins :
       condition'[p] = "initialized" => condition[p] \notin {"running", "stopped"}]_vars

(* start_plugins starts "every plugin currently in plugin_registry".       *)
EveryRegisteredPluginStarts ==
  \A e \in Engines :
    /\ sweep[e].op = "start" /\ sweep[e].rest = <<>>
    /\ sweep[e].swept = Ids(registry)
    => \A p \in Registered : condition[p] = "running"
=============================================================================
