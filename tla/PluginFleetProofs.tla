------------------------- MODULE PluginFleetProofs -------------------------
(***************************************************************************)
(* Proofs that the lifecycles of an engine tell what its plugins went      *)
(* through and that the calls a plugin sees are in order, for any number   *)
(* of plugins, ids and engines and whatever a discovery finds.             *)
(***************************************************************************)
EXTENDS PluginFleet, TLAPS, SequenceTheorems

(* The registry has one live owner, and only the owner keeps lifecycles    *)
(* and drives plugins.                                                     *)
Ownership ==
  /\ \A e \in alive : e = owner
  /\ \A e \in Engines \ alive :
       ~Sweeping(e) /\ lifecycles[e] = [id \in PluginIds |-> Untracked]

Tracks ==
  \A e \in Engines, id \in PluginIds :
    LET lifecycle == lifecycles[e][id]
    IN  lifecycle # Untracked =>
          /\ lifecycle.plugin \in Plugins /\ IdOf[lifecycle.plugin] = id
          /\ lifecycle.state # "registered" => condition[lifecycle.plugin] = lifecycle.state

(* A sweep is a suffix of what it began with; the plugins before it are    *)
(* where the sweep brings them.                                            *)
SweepInv(e) ==
  /\ ~Sweeping(e) => sweep[e].swept = <<>>
  /\ Len(sweep[e].rest) <= Len(sweep[e].swept)
  /\ \A i \in DOMAIN sweep[e].swept :
       i <= Len(sweep[e].swept) - Len(sweep[e].rest) =>
         lifecycles[e][sweep[e].swept[i]].state = Target(sweep[e].op)
  /\ \A i \in DOMAIN sweep[e].rest :
       sweep[e].rest[i] = sweep[e].swept[Len(sweep[e].swept) - Len(sweep[e].rest) + i]

IInv ==
  /\ TypeOK
  /\ Ownership
  /\ Tracks
  /\ \A e \in Engines : SweepInv(e)

---------------------------------------------------------------------------
(* The lifecycle a sweep step works on is one of an actual plugin.         *)
LEMMA LifecycleForType ==
  ASSUME IInv, NEW e \in Engines, NEW id \in PluginIds, Found(e, id)
  PROVE  /\ LifecycleFor(e, id) \in Lifecycles
         /\ IdOf[LifecycleFor(e, id).plugin] = id
         /\ LifecycleFor(e, id) # Untracked
         /\ lifecycles[e][id] = Untracked => LifecycleFor(e, id).state = "registered"
         /\ lifecycles[e][id] # Untracked => LifecycleFor(e, id) = lifecycles[e][id]
<1>1. CASE lifecycles[e][id] = Untracked
  <2>1. PICK p \in Registered : IdOf[p] = id
    BY <1>1 DEF Found, Holds
  <2>2. PluginOf(id) \in Registered /\ IdOf[PluginOf(id)] = id
    BY <2>1 DEF PluginOf
  <2>3. PluginOf(id) \in Plugins
    BY <2>2 DEF IInv, TypeOK, Registered
  <2> QED
    BY <1>1, <2>2, <2>3, NoneAssumption DEF LifecycleFor, Lifecycles, States, Untracked
<1>2. CASE lifecycles[e][id] # Untracked
  BY <1>2 DEF LifecycleFor, IInv, TypeOK, Tracks
<1> QED
  BY <1>1, <1>2

LEMMA IdsType ==
  ASSUME TypeOK
  PROVE  Ids(registry) \in Seq(PluginIds)
BY IdOfAssumption DEF TypeOK, Ids

(* What each way to go on leaves of the sweep.                             *)
LEMMA SweepType ==
  ASSUME TypeOK, NEW e \in Engines
  PROVE  /\ End(e) => sweep' \in [Engines -> Sweeps] /\ sweep'[e] = NoSweep
                      /\ \A f \in Engines \ {e} : sweep'[f] = sweep[f]
         /\ \A call : MoveOn(e, call) /\ sweep[e].rest # <<>> =>
              /\ sweep' \in [Engines -> Sweeps]
              /\ \A f \in Engines \ {e} : sweep'[f] = sweep[f]
              /\ sweep'[e].op = sweep[e].op /\ sweep'[e].swept = sweep[e].swept
              /\ sweep'[e].rest = IF call = "initialize" THEN sweep[e].rest
                                  ELSE Tail(sweep[e].rest)
<1>1. NoSweep \in Sweeps
  BY EmptySeq DEF NoSweep, Sweeps
<1>2. \A s \in Seq(PluginIds) : s # <<>> => Tail(s) \in Seq(PluginIds)
  OBVIOUS
<1>3. sweep[e] \in Sweeps
  BY DEF TypeOK
<1>4. sweep[e].rest # <<>> => [sweep[e] EXCEPT !.rest = Tail(@)] \in Sweeps
  BY <1>2, <1>3 DEF Sweeps
<1>5. ASSUME End(e)
      PROVE  sweep' \in [Engines -> Sweeps] /\ sweep'[e] = NoSweep
             /\ \A f \in Engines \ {e} : sweep'[f] = sweep[f]
  BY <1>1, <1>5 DEF TypeOK, End
<1>6. ASSUME NEW call, MoveOn(e, call), sweep[e].rest # <<>>
      PROVE  /\ sweep' \in [Engines -> Sweeps]
             /\ \A f \in Engines \ {e} : sweep'[f] = sweep[f]
             /\ sweep'[e].op = sweep[e].op /\ sweep'[e].swept = sweep[e].swept
             /\ sweep'[e].rest = IF call = "initialize" THEN sweep[e].rest
                                 ELSE Tail(sweep[e].rest)
  <2>1. CASE call = "initialize"
    BY <1>6, <2>1 DEF TypeOK, MoveOn
  <2>2. CASE call # "initialize"
    <3>1. sweep' = [sweep EXCEPT ![e] = [sweep[e] EXCEPT !.rest = Tail(@)]]
      BY <1>6, <2>2 DEF MoveOn
    <3>2. sweep'[e] = [sweep[e] EXCEPT !.rest = Tail(@)]
      BY <3>1 DEF TypeOK
    <3> QED
      BY <1>3, <1>4, <1>6, <2>2, <3>1, <3>2 DEF TypeOK, Sweeps
  <2> QED
    BY <2>1, <2>2
<1> QED
  BY <1>5, <1>6

LEMMA InitIInv == Init => IInv
<1> SUFFICES ASSUME Init PROVE IInv
  OBVIOUS
<1> USE DEF Init
<1>1. TypeOK
  BY EmptySeq DEF TypeOK, NoSweep, Sweeps, States
<1>2. Ownership /\ Tracks
  BY DEF Ownership, Tracks, Sweeping, NoSweep
<1>3. \A e \in Engines : SweepInv(e)
  BY DEF SweepInv, Sweeping, NoSweep
<1> QED
  BY <1>1, <1>2, <1>3 DEF IInv

---------------------------------------------------------------------------
(* Steps that call no plugin.                                              *)

LEMMA RegistrySteps ==
  ASSUME IInv, registry' \in Seq(Plugins),
         building' = None \/ building' \in Seq(Plugins),
         UNCHANGED <<alive, owner, lifecycles, sweep, condition>>
  PROVE  IInv'
<1>1. TypeOK'
  BY DEF IInv, TypeOK
<1>2. Ownership' /\ Tracks'
  BY DEF IInv, Ownership, Tracks, Sweeping
<1>3. \A e \in Engines : SweepInv(e)'
  BY DEF IInv, SweepInv, Sweeping
<1> QED
  BY <1>1, <1>2, <1>3 DEF IInv

LEMMA RegisterStep ==
  ASSUME IInv, NEW p \in Plugins, Register(p)
  PROVE  IInv'
BY RegistrySteps DEF Register, IInv, TypeOK

LEMMA UnregisterStep ==
  ASSUME IInv, NEW id \in PluginIds, Unregister(id)
  PROVE  IInv'
<1>1. PICK i \in DOMAIN registry :
        registry' = SubSeq(registry, 1, i - 1) \o SubSeq(registry, i + 1, Len(registry))
  BY DEF Unregister
<1>2. registry' \in Seq(Plugins)
  BY <1>1 DEF IInv, TypeOK
<1> QED
  BY <1>2, RegistrySteps DEF Unregister, IInv, TypeOK

LEMMA BuildSteps ==
  ASSUME IInv,
         (\E found \in Directories : Build(found)) \/ Discover \/ DiscoveryFails \/ Refuse
  PROVE  IInv'
<1> registry \in Seq(Plugins)
  BY DEF IInv, TypeOK
<1>1. registry' \in Seq(Plugins)
  <2>1. CASE Discover
    <3>1. Head(building) \in Plugins
      BY <2>1 DEF Discover, IInv, TypeOK
    <3> QED
      BY <2>1, <3>1 DEF Discover
  <2>2. CASE ~Discover
    <3>1. registry' = registry
      BY <2>2 DEF Build, DiscoveryFails, Refuse
    <3> QED
      BY <3>1
  <2> QED
    BY <2>1, <2>2
<1>2. building' = None \/ building' \in Seq(Plugins)
  <2>1. CASE \E found \in Directories : Build(found)
    BY <2>1, DirectoriesAssumption DEF Build
  <2>2. CASE Discover
    <3>1. building \in Seq(Plugins) /\ building # <<>> /\ building' = Tail(building)
      BY <2>2 DEF Discover, IInv, TypeOK
    <3> QED
      BY <3>1
  <2>3. CASE DiscoveryFails \/ Refuse
    BY <2>3 DEF DiscoveryFails, Refuse
  <2> QED
    BY <2>1, <2>2, <2>3
<1> QED
  BY <1>1, <1>2, RegistrySteps DEF Build, Discover, DiscoveryFails, Refuse

LEMMA ClaimStep ==
  ASSUME IInv, NEW e \in Engines, Claim(e)
  PROVE  IInv'
<1> USE DEF Claim
<1>1. TypeOK'
  BY DEF IInv, TypeOK
<1>2. alive' = {e}
  BY DEF IInv, Ownership, Vacant
<1>3. Ownership' /\ Tracks'
  BY <1>2 DEF IInv, Ownership, Tracks, Sweeping
<1>4. \A f \in Engines : SweepInv(f)'
  BY DEF IInv, SweepInv, Sweeping
<1> QED
  BY <1>1, <1>3, <1>4 DEF IInv

LEMMA CollectStep ==
  ASSUME IInv, NEW e \in Engines, Collect(e)
  PROVE  IInv'
<1> USE DEF Collect
<1>1. lifecycles'[e] = [id \in PluginIds |-> Untracked]
      /\ \A f \in Engines \ {e} : lifecycles'[f] = lifecycles[f]
  BY DEF IInv, TypeOK
<1>2. TypeOK'
  BY DEF IInv, TypeOK
<1>3. Ownership'
  BY <1>1 DEF IInv, Ownership, Sweeping
<1>4. Tracks'
  BY <1>1 DEF IInv, Tracks
<1>5. \A f \in Engines : SweepInv(f)'
  <2>1. ASSUME NEW f \in Engines \ {e} PROVE SweepInv(f)'
    <3>1. SweepInv(f) /\ sweep' = sweep /\ lifecycles'[f] = lifecycles[f]
      BY <1>1 DEF IInv
    <3> HIDE DEF Collect
    <3> QED
      BY <3>1 DEF SweepInv, Sweeping
  <2>2. SweepInv(e)'
    <3>1. SweepInv(e) /\ sweep' = sweep /\ ~Sweeping(e) /\ sweep[e] \in Sweeps
      BY DEF IInv, TypeOK
    <3> HIDE DEF Collect
    <3>2. sweep[e].swept = <<>> /\ sweep[e].rest \in Seq(PluginIds)
      BY <3>1 DEF SweepInv, Sweeps
    <3>3. DOMAIN sweep[e].swept = {} /\ DOMAIN sweep[e].rest = {}
      BY <3>1, <3>2 DEF SweepInv
    <3> QED
      BY <3>1, <3>2, <3>3 DEF SweepInv, Sweeping
  <2> QED
    BY <2>1, <2>2
<1> QED
  BY <1>2, <1>3, <1>4, <1>5 DEF IInv

---------------------------------------------------------------------------
(* Steps of a sweep.                                                       *)

(* An engine that moves one of its lifecycles along with the plugin in it  *)
(* disturbs no other.                                                      *)
LEMMA TrackKeeps ==
  ASSUME IInv, NEW e \in Engines, Sweeping(e), NEW id \in PluginIds,
         NEW lifecycle \in Lifecycles, IdOf[lifecycle.plugin] = id,
         Track(e, id, lifecycle),
         condition' \in [Plugins -> States],
         \A p \in Plugins \ {lifecycle.plugin} : condition'[p] = condition[p],
         lifecycle.state # "registered" => condition'[lifecycle.plugin] = lifecycle.state,
         \A f \in Engines \ {e} : sweep'[f] = sweep[f],
         UNCHANGED <<alive, owner>>
  PROVE  /\ lifecycles' \in [Engines -> [PluginIds -> Lifecycles \cup {Untracked}]]
         /\ Ownership' /\ Tracks'
         /\ \A f \in Engines \ {e} : SweepInv(f)'
         /\ lifecycles'[e][id] = lifecycle
         /\ \A other \in PluginIds \ {id} : lifecycles'[e][other] = lifecycles[e][other]
<1>1. e \in alive
  BY DEF IInv, Ownership
<1>2. lifecycles' \in [Engines -> [PluginIds -> Lifecycles \cup {Untracked}]]
  BY DEF IInv, TypeOK, Track
<1>3. /\ lifecycles'[e][id] = lifecycle
      /\ \A other \in PluginIds \ {id} : lifecycles'[e][other] = lifecycles[e][other]
      /\ \A f \in Engines \ {e} : lifecycles'[f] = lifecycles[f]
  BY DEF IInv, TypeOK, Track
<1>4. Ownership'
  BY <1>1, <1>3 DEF IInv, Ownership, Sweeping
<1>5. Tracks'
  <2> SUFFICES ASSUME NEW f \in Engines, NEW other \in PluginIds,
                      lifecycles'[f][other] # Untracked
               PROVE  LET kept == lifecycles'[f][other]
                      IN  /\ kept.plugin \in Plugins /\ IdOf[kept.plugin] = other
                          /\ kept.state # "registered" => condition'[kept.plugin] = kept.state
    BY DEF Tracks
  <2>1. f = e
    BY <1>1, <1>3 DEF IInv, Ownership
  <2>2. CASE other = id
    BY <2>1, <2>2, <1>3 DEF Lifecycles
  <2>3. CASE other # id
    <3>1. lifecycles[e][other] # Untracked /\ lifecycles'[e][other] = lifecycles[e][other]
      BY <2>1, <2>3, <1>3
    <3>2. /\ lifecycles[e][other].plugin \in Plugins
          /\ IdOf[lifecycles[e][other].plugin] = other
          /\ lifecycles[e][other].state # "registered" =>
               condition[lifecycles[e][other].plugin] = lifecycles[e][other].state
      BY <3>1 DEF IInv, Tracks
    <3>3. lifecycles[e][other].plugin # lifecycle.plugin
      BY <3>2, <2>3
    <3> QED
      BY <2>1, <3>1, <3>2, <3>3
  <2> QED
    BY <2>2, <2>3
<1>6. ASSUME NEW f \in Engines \ {e} PROVE SweepInv(f)'
  <2>1. SweepInv(f) /\ sweep'[f] = sweep[f] /\ lifecycles'[f] = lifecycles[f]
    BY <1>3 DEF IInv
  <2> QED
    BY <2>1 DEF SweepInv, Sweeping
<1> QED
  BY <1>2, <1>3, <1>4, <1>5, <1>6

LEMMA NoSweepInv ==
  ASSUME NEW e \in Engines, sweep'[e] = NoSweep
  PROVE  SweepInv(e)'
<1>1. DOMAIN <<>> = {} /\ Len(<<>>) = 0
  OBVIOUS
<1> QED
  BY <1>1 DEF SweepInv, NoSweep

LEMMA BeginStep ==
  ASSUME IInv, NEW e \in Engines, NEW op \in {"start", "stop", "dispose"}, Begin(e, op)
  PROVE  IInv'
<1> DEFINE begun == [op |-> op, rest |-> Ids(registry), swept |-> Ids(registry)]
<1>1. begun \in Sweeps
  BY IdsType DEF Sweeps, IInv
<1>2. /\ sweep'[e] = begun
      /\ \A f \in Engines \ {e} : sweep'[f] = sweep[f]
      /\ sweep' \in [Engines -> Sweeps]
  BY <1>1 DEF Begin, IInv, TypeOK
<1>3. UNCHANGED <<registry, building, alive, owner, lifecycles, condition>> /\ e \in alive
  BY DEF Begin
<1>4. TypeOK'
  BY <1>2, <1>3 DEF IInv, TypeOK
<1>5. Ownership' /\ Tracks'
  BY <1>2, <1>3 DEF IInv, Ownership, Tracks, Sweeping
<1>6. ASSUME NEW f \in Engines \ {e} PROVE SweepInv(f)'
  <2>1. SweepInv(f) /\ sweep'[f] = sweep[f] /\ lifecycles'[f] = lifecycles[f]
    BY <1>2, <1>3 DEF IInv
  <2> QED
    BY <2>1 DEF SweepInv, Sweeping
<1>7. SweepInv(e)'
  <2>1. Ids(registry) \in Seq(PluginIds)
    BY IdsType DEF IInv
  <2>2. /\ sweep'[e].op = op /\ sweep'[e].rest = Ids(registry)
        /\ sweep'[e].swept = Ids(registry)
    BY <1>2
  <2> HIDE DEF begun
  <2> QED
    BY <2>1, <2>2 DEF SweepInv, Sweeping
<1> QED
  BY <1>4, <1>5, <1>6, <1>7 DEF IInv

LEMMA OutOfOrderStep ==
  ASSUME IInv, NEW e \in Engines, OutOfOrder(e)
  PROVE  IInv'
<1> DEFINE id == Head(sweep[e].rest)
           lifecycle == LifecycleFor(e, id)
<1>1. id \in PluginIds
  BY DEF OutOfOrder, IInv, TypeOK, Sweeps
<1>2. Found(e, id) /\ Track(e, id, lifecycle) /\ Sweeping(e) /\ End(e)
      /\ UNCHANGED <<registry, building, alive, owner, condition>>
  BY DEF OutOfOrder
<1>3. /\ lifecycle \in Lifecycles /\ IdOf[lifecycle.plugin] = id
      /\ lifecycles[e][id] = Untracked => lifecycle.state = "registered"
      /\ lifecycles[e][id] # Untracked => lifecycle = lifecycles[e][id]
  BY <1>1, <1>2, LifecycleForType
<1>4. lifecycle.state # "registered" => condition'[lifecycle.plugin] = lifecycle.state
  BY <1>1, <1>2, <1>3 DEF IInv, Tracks
<1>5. /\ sweep' \in [Engines -> Sweeps] /\ sweep'[e] = NoSweep
      /\ \A f \in Engines \ {e} : sweep'[f] = sweep[f]
  BY <1>2, SweepType DEF IInv
<1>6. condition' \in [Plugins -> States]
  BY <1>2 DEF IInv, TypeOK
<1> HIDE DEF lifecycle, id
<1>7. /\ lifecycles' \in [Engines -> [PluginIds -> Lifecycles \cup {Untracked}]]
      /\ Ownership' /\ Tracks'
      /\ \A f \in Engines \ {e} : SweepInv(f)'
  BY <1>1, <1>2, <1>3, <1>4, <1>5, <1>6, TrackKeeps
<1>8. TypeOK'
  BY <1>2, <1>5, <1>6, <1>7 DEF IInv, TypeOK
<1> QED
  BY <1>5, <1>7, <1>8, NoSweepInv DEF IInv

LEMMA EndingSteps ==
  ASSUME IInv, NEW e \in Engines, Vanished(e) \/ Return(e)
  PROVE  IInv'
<1>1. End(e) /\ UNCHANGED <<registry, building, alive, owner, lifecycles, condition>>
  BY DEF Vanished, Return
<1>2. /\ sweep' \in [Engines -> Sweeps] /\ sweep'[e] = NoSweep
      /\ \A f \in Engines \ {e} : sweep'[f] = sweep[f]
  BY <1>1, SweepType DEF IInv
<1>3. TypeOK'
  BY <1>1, <1>2 DEF IInv, TypeOK
<1>4. Ownership' /\ Tracks'
  BY <1>1, <1>2 DEF IInv, Ownership, Tracks, Sweeping, NoSweep
<1>5. ASSUME NEW f \in Engines \ {e} PROVE SweepInv(f)'
  <2>1. SweepInv(f) /\ sweep'[f] = sweep[f] /\ lifecycles'[f] = lifecycles[f]
    BY <1>1, <1>2 DEF IInv
  <2> QED
    BY <2>1 DEF SweepInv, Sweeping
<1> QED
  BY <1>2, <1>3, <1>4, <1>5, NoSweepInv DEF IInv

(* A call that the lifecycle takes is the one of the sweep, a first        *)
(* initialize, or the skipped dispose of a disposed plugin.                *)
LEMMA CallFacts ==
  ASSUME NEW op \in {"start", "stop", "dispose"}, NEW state \in States,
         state \in Allowed(Call(op, state))
  PROVE  LET call == Call(op, state)
         IN  /\ Target(call) \in States \ {"registered"}
             /\ call = "initialize" => op = "start" /\ state = "registered"
             /\ call = "none" => op = "dispose" /\ state = "disposed"
             /\ call # "initialize" => Target(call) = Target(op)
             /\ call # "none" =>
                  <<state, Target(call)>> \in Orderly /\ <<state, "failed">> \in Orderly
BY DEF Call, Allowed, Target, States, Orderly

LEMMA StepStep ==
  ASSUME IInv, NEW e \in Engines, NEW succeeds \in BOOLEAN, Step(e, succeeds)
  PROVE  IInv'
<1> DEFINE id == Head(sweep[e].rest)
           lifecycle == LifecycleFor(e, id)
           op == sweep[e].op
           call == Call(op, lifecycle.state)
           state == IF succeeds THEN Target(call) ELSE "failed"
           moved == [lifecycle EXCEPT !.state = state]
<1>1. /\ sweep[e] \in Sweeps /\ Sweeping(e) /\ sweep[e].rest # <<>>
      /\ op \in {"start", "stop", "dispose"}
      /\ id \in PluginIds
  BY DEF Step, IInv, TypeOK, Sweeps, Sweeping
<1>2. /\ Found(e, id) /\ lifecycle.state \in Allowed(call)
      /\ call = "none" => succeeds
      /\ Track(e, id, moved)
      /\ condition' = [condition EXCEPT ![lifecycle.plugin] = IF call = "none" THEN @ ELSE state]
      /\ IF succeeds THEN MoveOn(e, call) ELSE End(e)
      /\ UNCHANGED <<registry, building, alive, owner>>
  BY DEF Step
<1>3. /\ lifecycle \in Lifecycles /\ IdOf[lifecycle.plugin] = id
      /\ lifecycles[e][id] = Untracked => lifecycle.state = "registered"
      /\ lifecycles[e][id] # Untracked => lifecycle = lifecycles[e][id]
  BY <1>1, <1>2, LifecycleForType
<1>4. /\ Target(call) \in States \ {"registered"}
      /\ call = "initialize" => op = "start" /\ lifecycle.state = "registered"
      /\ call = "none" => op = "dispose" /\ lifecycle.state = "disposed"
      /\ call # "initialize" => Target(call) = Target(op)
  <2>1. lifecycle.state \in States
    BY <1>3 DEF Lifecycles
  <2> HIDE DEF lifecycle, op
  <2> QED
    BY <2>1, <1>1, <1>2, CallFacts
<1>5. lifecycle.state # "registered" => condition[lifecycle.plugin] = lifecycle.state
  BY <1>1, <1>3 DEF IInv, Tracks
<1>6. state \in States \ {"registered"}
  BY <1>4 DEF States
<1> HIDE DEF lifecycle, op, id, call
<1>7. /\ moved \in Lifecycles /\ moved.plugin = lifecycle.plugin /\ moved.state = state
  BY <1>3, <1>6 DEF Lifecycles
<1>8. condition' \in [Plugins -> States] /\ condition'[moved.plugin] = moved.state
      /\ \A p \in Plugins \ {moved.plugin} : condition'[p] = condition[p]
  <2>1. condition \in [Plugins -> States] /\ lifecycle.plugin \in Plugins
    BY <1>3 DEF IInv, TypeOK, Lifecycles
  <2>2. CASE call = "none"
    <3>1. condition' = condition /\ state = "disposed"
      BY <2>1, <2>2, <1>2, <1>4 DEF Target
    <3> QED
      BY <3>1, <2>1, <2>2, <1>4, <1>5, <1>7
  <2>3. CASE call # "none"
    BY <2>1, <2>3, <1>2, <1>6, <1>7
  <2> QED
    BY <2>2, <2>3
<1>9. /\ sweep' \in [Engines -> Sweeps]
      /\ \A f \in Engines \ {e} : sweep'[f] = sweep[f]
      /\ ~succeeds => sweep'[e] = NoSweep
      /\ succeeds =>
           /\ sweep'[e].op = op /\ sweep'[e].swept = sweep[e].swept
           /\ sweep'[e].rest = IF call = "initialize" THEN sweep[e].rest ELSE Tail(sweep[e].rest)
  BY <1>1, <1>2, SweepType DEF IInv, op
<1> HIDE DEF moved, state
<1>10. /\ lifecycles' \in [Engines -> [PluginIds -> Lifecycles \cup {Untracked}]]
       /\ Ownership' /\ Tracks'
       /\ \A f \in Engines \ {e} : SweepInv(f)'
       /\ lifecycles'[e][id] = moved
       /\ \A other \in PluginIds \ {id} : lifecycles'[e][other] = lifecycles[e][other]
  BY <1>1, <1>2, <1>3, <1>7, <1>8, <1>9, TrackKeeps
<1>11. TypeOK'
  BY <1>2, <1>8, <1>9, <1>10 DEF IInv, TypeOK
<1>12. SweepInv(e)'
  <2> DEFINE rest == sweep[e].rest
             swept == sweep[e].swept
  <2>1. /\ rest \in Seq(PluginIds) /\ swept \in Seq(PluginIds)
        /\ Len(rest) <= Len(swept)
        /\ \A i \in DOMAIN swept : i <= Len(swept) - Len(rest) =>
             lifecycles[e][swept[i]].state = Target(op)
        /\ \A i \in DOMAIN rest : rest[i] = swept[Len(swept) - Len(rest) + i]
    BY <1>1 DEF IInv, SweepInv, op, Sweeps
  <2>2. rest # <<>> /\ id = rest[1] /\ 1 \in DOMAIN rest
    BY <1>1, <2>1 DEF id
  <2> HIDE DEF rest, swept
  <2>3. CASE ~succeeds
    BY <2>3, <1>9, NoSweepInv
  <2>4. CASE succeeds /\ call = "initialize"
    <3>1. sweep'[e].op = op /\ sweep'[e].swept = swept /\ sweep'[e].rest = rest
      BY <2>4, <1>9 DEF rest, swept
    <3>2. lifecycles[e][id].state = "registered" /\ Target(op) = "running"
      BY <2>4, <1>3, <1>4 DEF Untracked, Target
    <3>3. ASSUME NEW i \in DOMAIN swept, i <= Len(swept) - Len(rest)
          PROVE  lifecycles'[e][swept[i]].state = Target(op)
      <4>1. lifecycles[e][swept[i]].state = "running"
        BY <2>1, <3>2, <3>3
      <4>2. swept[i] \in PluginIds \ {id}
        BY <2>1, <3>2, <4>1
      <4> QED
        BY <4>1, <4>2, <3>2, <1>10
    <3>4. Sweeping(e)'
      BY <3>1, <1>1 DEF Sweeping
    <3> QED
      BY <2>1, <3>1, <3>3, <3>4 DEF SweepInv
  <2>5. CASE succeeds /\ call # "initialize"
    <3>1. sweep'[e].op = op /\ sweep'[e].swept = swept /\ sweep'[e].rest = Tail(rest)
      BY <2>5, <1>9 DEF rest, swept
    <3>2. moved.state = Target(op)
      BY <2>5, <1>4, <1>7 DEF state
    <3>3. /\ Len(Tail(rest)) = Len(rest) - 1
          /\ \A i \in DOMAIN Tail(rest) : Tail(rest)[i] = rest[i + 1] /\ i + 1 \in DOMAIN rest
      BY <2>1, <2>2
    <3>4. id = swept[Len(swept) - Len(rest) + 1]
      BY <2>1, <2>2
    <3>5. ASSUME NEW i \in DOMAIN swept, i <= Len(swept) - Len(Tail(rest))
          PROVE  lifecycles'[e][swept[i]].state = Target(op)
      <4>1. swept[i] \in PluginIds
        BY <2>1
      <4>2. CASE swept[i] = id
        BY <4>2, <1>10, <3>2
      <4>3. CASE swept[i] # id
        <5>1. i \in Nat /\ Len(swept) \in Nat /\ Len(rest) \in Nat
          BY <2>1
        <5>2. i # Len(swept) - Len(rest) + 1
          BY <3>4, <4>3
        <5>3. i <= Len(swept) - Len(rest)
          BY <5>1, <5>2, <3>3, <3>5
        <5> QED
          BY <5>3, <4>1, <4>3, <2>1, <1>10
      <4> QED
        BY <4>2, <4>3
    <3>6. Sweeping(e)'
      BY <3>1, <1>1 DEF Sweeping
    <3>7. \A i \in DOMAIN Tail(rest) :
            Tail(rest)[i] = swept[Len(swept) - Len(Tail(rest)) + i]
      <4> SUFFICES ASSUME NEW i \in DOMAIN Tail(rest)
                   PROVE  Tail(rest)[i] = swept[Len(swept) - Len(Tail(rest)) + i]
        OBVIOUS
      <4>1. Tail(rest)[i] = swept[Len(swept) - Len(rest) + (i + 1)]
        BY <2>1, <3>3
      <4>2. i \in Nat /\ Len(swept) \in Nat /\ Len(rest) \in Nat
        BY <2>1, <3>3
      <4>3. Len(swept) - Len(rest) + (i + 1) = Len(swept) - Len(Tail(rest)) + i
        BY <4>2, <3>3
      <4> QED
        BY <4>1, <4>3
    <3>8. Len(Tail(rest)) <= Len(swept)
      BY <2>1, <3>3
    <3> QED
      BY <3>1, <3>5, <3>6, <3>7, <3>8 DEF SweepInv
  <2> QED
    BY <2>3, <2>4, <2>5
<1> QED
  BY <1>10, <1>11, <1>12 DEF IInv

LEMMA NextIInv == IInv /\ [Next]_vars => IInv'
<1> SUFFICES ASSUME IInv, [Next]_vars PROVE IInv'
  OBVIOUS
<1>1. CASE \E p \in Plugins : Register(p)
  BY <1>1, RegisterStep
<1>2. CASE \E id \in PluginIds : Unregister(id)
  BY <1>2, UnregisterStep
<1>3. CASE (\E found \in Directories : Build(found)) \/ Discover \/ DiscoveryFails \/ Refuse
  BY <1>3, BuildSteps
<1>4. ASSUME NEW e \in Engines, Claim(e) \/ Collect(e)
      PROVE  IInv'
  BY <1>4, ClaimStep, CollectStep
<1>5. ASSUME NEW e \in Engines, NEW op \in {"start", "stop", "dispose"}, Begin(e, op)
      PROVE  IInv'
  BY <1>5, BeginStep
<1>6. ASSUME NEW e \in Engines, NEW succeeds \in BOOLEAN, Step(e, succeeds)
      PROVE  IInv'
  BY <1>6, StepStep
<1>7. ASSUME NEW e \in Engines, OutOfOrder(e) \/ Vanished(e) \/ Return(e)
      PROVE  IInv'
  BY <1>7, OutOfOrderStep, EndingSteps
<1>8. CASE UNCHANGED vars
  <2>1. registry' \in Seq(Plugins) /\ (building' = None \/ building' \in Seq(Plugins))
    BY <1>8 DEF vars, IInv, TypeOK
  <2> QED
    BY <1>8, <2>1, RegistrySteps DEF vars
<1> QED
  BY <1>1, <1>2, <1>3, <1>4, <1>5, <1>6, <1>7, <1>8 DEF Next

(* The invariant behind the theorems below holds in every reachable state. *)
THEOREM InvAlways == Spec => []IInv
BY InitIInv, NextIInv, PTL DEF Spec

(* Type correctness for any plugins, ids, engines and discoveries.         *)
THEOREM TypeCorrect == Spec => []TypeOK
<1>1. IInv => TypeOK
  BY DEF IInv
<1> QED
  BY <1>1, InvAlways, PTL

(* The PluginLifecycle of a live engine says what its plugin went through. *)
THEOREM LifecyclesAreRight == Spec => []LifecycleTellsPlugin
<1>1. IInv => LifecycleTellsPlugin
  BY DEF IInv, TypeOK, Tracks, LifecycleTellsPlugin, Untracked
<1> QED
  BY <1>1, InvAlways, PTL

(* start_plugins, stop_plugins and dispose_plugins pass over no plugin     *)
(* they began with when they return.                                       *)
THEOREM SweepsAreComplete == Spec => []SweepIsComplete
<1>1. IInv => SweepIsComplete
  <2> SUFFICES ASSUME IInv, NEW e \in Engines, Sweeping(e), sweep[e].rest = <<>>,
                      NEW i \in DOMAIN sweep[e].swept
               PROVE  lifecycles[e][sweep[e].swept[i]].state = Target(sweep[e].op)
    BY DEF SweepIsComplete
  <2>1. sweep[e].swept \in Seq(PluginIds) /\ SweepInv(e)
    BY DEF IInv, TypeOK, Sweeps
  <2>2. i \in Nat /\ i <= Len(sweep[e].swept) /\ Len(sweep[e].rest) = 0
    BY <2>1
  <2> QED
    BY <2>1, <2>2 DEF SweepInv
<1> QED
  BY <1>1, InvAlways, PTL

(* A step of a sweep calls a plugin that this engine called before only in *)
(* the order the Plugin contract allows.                                   *)
LEMMA StepIsOrderly ==
  ASSUME IInv, NEW e \in Engines, NEW succeeds \in BOOLEAN, Step(e, succeeds),
         NEW p \in Plugins, condition'[p] # condition[p], Driven(p)
  PROVE  <<condition[p], condition'[p]>> \in Orderly
<1> DEFINE id == Head(sweep[e].rest)
           lifecycle == LifecycleFor(e, id)
           op == sweep[e].op
           call == Call(op, lifecycle.state)
           state == IF succeeds THEN Target(call) ELSE "failed"
<1>1. /\ e \in alive /\ op \in {"start", "stop", "dispose"} /\ id \in PluginIds
      /\ Found(e, id) /\ lifecycle.state \in Allowed(call)
      /\ condition' = [condition EXCEPT ![lifecycle.plugin] = IF call = "none" THEN @ ELSE state]
  BY DEF Step, IInv, TypeOK, Sweeps, Sweeping, Ownership
<1>2. /\ lifecycle \in Lifecycles /\ IdOf[lifecycle.plugin] = id
      /\ lifecycles[e][id] # Untracked => lifecycle = lifecycles[e][id]
  BY <1>1, LifecycleForType
<1> HIDE DEF lifecycle, op, id, call
<1>3. p = lifecycle.plugin /\ call # "none" /\ condition'[p] = state
  BY <1>1, <1>2 DEF IInv, TypeOK, Lifecycles
<1>4. PICK f \in alive, other \in PluginIds :
        lifecycles[f][other].plugin = p /\ lifecycles[f][other].state # "registered"
  BY DEF Driven
<1>5. f = e
  BY <1>1, <1>4 DEF IInv, Ownership
<1>6. lifecycles[e][other] # Untracked /\ other = id
  BY <1>1, <1>2, <1>3, <1>4, <1>5 DEF IInv, TypeOK, Tracks, Untracked
<1>7. condition[p] = lifecycle.state
  BY <1>1, <1>2, <1>3, <1>4, <1>5, <1>6 DEF IInv, TypeOK, Tracks
<1>8. lifecycle.state \in States
  BY <1>2 DEF Lifecycles
<1>9. <<lifecycle.state, Target(call)>> \in Orderly /\ <<lifecycle.state, "failed">> \in Orderly
  BY <1>1, <1>3, <1>8, CallFacts DEF call
<1> QED
  BY <1>3, <1>7, <1>9

(* From its first call by an engine to the end of that engine, every       *)
(* plugin sees its calls in order, whatever is registered meanwhile.       *)
THEOREM CallsInOrder == Spec => CallsAreOrderly
<1> DEFINE Ordered ==
      \A p \in Plugins :
        condition'[p] # condition[p] /\ Driven(p) =>
          <<condition[p], condition'[p]>> \in Orderly
<1>1. IInv /\ [Next]_vars => [Ordered]_vars
  <2> SUFFICES ASSUME IInv, Next, NEW p \in Plugins,
                      condition'[p] # condition[p], Driven(p)
               PROVE  <<condition[p], condition'[p]>> \in Orderly
    OBVIOUS
  <2>1. PICK e \in Engines, succeeds \in BOOLEAN : Step(e, succeeds)
    BY DEF Next, Register, Unregister, Build, Discover, DiscoveryFails, Refuse, Claim,
           Collect, Begin, OutOfOrder, Vanished, Return
  <2> QED
    BY <2>1, StepIsOrderly
<1> QED
  BY <1>1, InvAlways, PTL DEF Spec, CallsAreOrderly
=============================================================================
