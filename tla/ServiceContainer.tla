--------------------------- MODULE ServiceContainer ---------------------------
(***************************************************************************)
(* The kernel's dependency-injection container (core/container.py): three  *)
(* dictionaries keyed by the service type, read and written without a      *)
(* lock.  A container is shared by every thread that holds a tool,         *)
(* workflow or plugin context (ToolContext.services), so its methods are   *)
(* modelled in the steps another thread can see: register() and            *)
(* register_instance() check that the key is free, write the factory or    *)
(* the instance, and write the kind; resolve() looks for an instance, then *)
(* for the factory, the factory does what it does, and what it returned is *)
(* written.                                                                *)
(*                                                                         *)
(* Factories belong to the application.  One may resolve the types Deps    *)
(* gives it from the same container, one after the other, and at any       *)
(* point raise instead of returning; it registers nothing itself.          *)
(***************************************************************************)
EXTENDS Naturals, Sequences, FiniteSets

CONSTANTS Containers,   \* the containers of the application
          Types,        \* the service types used as keys
          Threads,      \* the threads of the process
          Deps,         \* Deps[t]: the types a factory of t resolves itself
          MaxMade,      \* bound: instances the factories make, over a run
          None,         \* the absence of an instance
          Unregistered  \* ServiceRegistrationError instead of an instance

VARIABLES
    factories,    \* [Containers -> SUBSET Types]: keys of _factories
    singletons,   \* [Containers -> [Types -> ...]]: _singletons, or "unset"
    instances,    \* [Containers -> [Types -> Instance or None]]: _instances
    adding,       \* [Threads -> Registration or None]: the registration under way
    calls,        \* [Threads -> Seq(Frame)]: resolve()s that found no
                  \* instance, innermost last
    made,         \* number of instances the factories have made
    built,        \* history: what the factory of each key returned
    raced,        \* history: <<c, t>> two resolve()s found no instance of
    contested,    \* history: <<c, t>> two registrations found free
    lost          \* history: <<c, t>> whose kind resolve() did not find

histories == <<made, built, raced, lost>>
containerVars == <<factories, singletons, instances, adding, calls, contested, histories>>

(* What identifies an instance: who constructed it, and which it is; one   *)
(* the application registers, by the thread that does.                     *)
Instance == [by : {"factory", "boot"}, n : Nat] \cup [by : {"application"}, n : Threads]

(* register() of a factory, value None, or register_instance() of a value, *)
(* which has passed the check and is about to write the value or the kind. *)
Registration == [c : Containers, t : Types, value : Instance \cup {None},
                 at : {"value", "kind"}]

ASSUME ContainerAssumption ==
    /\ MaxMade \in Nat
    /\ Deps \in [Types -> SUBSET Types]
    /\ {None, Unregistered} \cap Instance = {}
    /\ None \notin Registration

Frame == [c : Containers, t : Types, left : SUBSET Types]

ContainerTypeOK ==
    /\ factories \in [Containers -> SUBSET Types]
    /\ singletons \in [Containers -> [Types -> {"unset", "yes", "no"}]]
    /\ instances \in [Containers -> [Types -> Instance \cup {None}]]
    /\ adding \in [Threads -> Registration \cup {None}]
    /\ calls \in [Threads -> Seq(Frame)]
    /\ made \in 0..MaxMade
    /\ built \in [Containers -> [Types -> SUBSET Instance]]
    /\ {raced, contested, lost} \subseteq SUBSET (Containers \X Types)

ContainerInit ==
    /\ factories = [c \in Containers |-> {}]
    /\ singletons = [c \in Containers |-> [t \in Types |-> "unset"]]
    /\ instances = [c \in Containers |-> [t \in Types |-> None]]
    /\ adding = [th \in Threads |-> None]
    /\ calls = [th \in Threads |-> <<>>]
    /\ made = 0
    /\ built = [c \in Containers |-> [t \in Types |-> {}]]
    /\ raced = {} /\ contested = {} /\ lost = {}

-----------------------------------------------------------------------------
(* A bug: only the factories are asked.                                    *)
MutIsRegistered(c, t) == t \in factories[c]

(* is_registered.                                                          *)
IsRegistered(c, t) == t \in factories[c] \/ instances[c][t] # None

(* The threads in a resolve() of t in c that found no instance: they are   *)
(* about to look for the factory or inside a call of it.                   *)
Calling(c, t) ==
    {th \in Threads : \E i \in DOMAIN calls[th] :
                          calls[th][i].c = c /\ calls[th][i].t = t}

(* The threads that found the key free and have not written it yet.        *)
Registering(c, t) ==
    {th \in Threads : adding[th] # None /\ adding[th].at = "value"
                        /\ adding[th].c = c /\ adding[th].t = t}

(* The check of register() and register_instance().  No key is ever        *)
(* removed: the one that finds the key free does so at the first look-up   *)
(* of is_registered or later, the one that finds it taken at the look-up   *)
(* that did, and this step stands for that moment.                         *)
RegisterBegins(th, c, t, value) ==
    /\ adding[th] = None
    /\ ~IsRegistered(c, t)
    /\ adding' = [adding EXCEPT ![th] = [c |-> c, t |-> t, value |-> value, at |-> "value"]]
    /\ contested' = IF Registering(c, t) = {} THEN contested
                    ELSE contested \cup {<<c, t>>}
    /\ UNCHANGED <<factories, singletons, instances, calls, histories>>

(* The factory or the instance is written whatever happened meanwhile ...  *)
RegisterWrites(th) ==
    /\ adding[th] # None /\ adding[th].at = "value"
    /\ LET c == adding[th].c
           t == adding[th].t
           value == adding[th].value
       IN  /\ factories' = IF value = None THEN [factories EXCEPT ![c] = @ \cup {t}]
                           ELSE factories
           /\ instances' = IF value = None THEN instances
                           ELSE [instances EXCEPT ![c][t] = value]
    /\ adding' = [adding EXCEPT ![th].at = "kind"]
    /\ UNCHANGED <<singletons, calls, contested, histories>>

(* ... and then the kind, which a thread that resolves can outrun.  An     *)
(* instance is a singleton, a factory makes one or is called each time.    *)
RegisterEnds(th, kind) ==
    /\ adding[th] # None /\ adding[th].at = "kind"
    /\ adding[th].value # None => kind = "yes"
    /\ singletons' = [singletons EXCEPT ![adding[th].c][adding[th].t] = kind]
    /\ adding' = [adding EXCEPT ![th] = None]
    /\ UNCHANGED <<factories, instances, calls, contested, histories>>

(* resolve() up to its check of the instances, made by a thread whose      *)
(* other resolve()s are then "stack".  It gives the instance at once, or   *)
(* goes on to the factory.                                                 *)
LookUp(th, c, t, stack) ==
    LET missed == instances[c][t] = None
    IN  /\ calls' = [calls EXCEPT ![th] =
                       IF missed THEN Append(stack, [c |-> c, t |-> t, left |-> Deps[t]])
                       ELSE stack]
        /\ raced' = IF missed /\ Calling(c, t) # {}
                    THEN raced \cup {<<c, t>>} ELSE raced
        /\ UNCHANGED <<factories, singletons, instances, adding, contested, made, built, lost>>

-----------------------------------------------------------------------------
(* The steps of the innermost resolve() of a thread that found no instance.*)
Inner(th) == calls[th][Len(calls[th])]
Outer(th) == SubSeq(calls[th], 1, Len(calls[th]) - 1)

(* There is no factory either: ServiceRegistrationError.                   *)
FactoryMissing(th) ==
    /\ calls[th] # <<>>
    /\ Inner(th).t \notin factories[Inner(th).c]
    /\ calls' = [calls EXCEPT ![th] = Outer(th)]
    /\ UNCHANGED <<factories, singletons, instances, adding, contested, histories>>

(* The factory is found, and called; no factory is ever removed.           *)
InFactoryOf(th) == calls[th] # <<>> /\ Inner(th).t \in factories[Inner(th).c]

(* The factory resolves one of the types it depends on.                    *)
FactoryResolves(th) ==
    /\ InFactoryOf(th)
    /\ \E d \in Inner(th).left :
          LookUp(th, Inner(th).c, d,
                 Append(Outer(th), [Inner(th) EXCEPT !.left = @ \ {d}]))

NewInstance == [by |-> "factory", n |-> made + 1]

(* What resolve() gives when the factory has returned; None for KeyError.  *)
Result(th) ==
    IF singletons[Inner(th).c][Inner(th).t] = "unset" THEN None ELSE NewInstance

(* A bug: the instance of a singleton is not kept.                         *)
MutFactoryReturns(th) ==
    /\ InFactoryOf(th) /\ Inner(th).left = {} /\ made < MaxMade
    /\ made' = made + 1
    /\ built' = [built EXCEPT ![Inner(th).c][Inner(th).t] = @ \cup {NewInstance}]
    /\ lost' = IF Result(th) = None THEN lost \cup {<<Inner(th).c, Inner(th).t>>} ELSE lost
    /\ calls' = [calls EXCEPT ![th] = Outer(th)]
    /\ UNCHANGED <<factories, singletons, instances, adding, contested, raced>>

(* The factory returns a new instance, and resolve() asks for the kind of  *)
(* the key only now: a key whose kind is not yet written raises KeyError   *)
(* and the instance is lost; a singleton is stored whatever another thread *)
(* stored meanwhile.  (The kind is read together with the write: between   *)
(* the two only the registration of a contested key could change it.)      *)
FactoryReturns(th) ==
    /\ InFactoryOf(th)
    /\ Inner(th).left = {}
    /\ made < MaxMade
    /\ made' = made + 1
    /\ LET c == Inner(th).c
           t == Inner(th).t
       IN  /\ instances' = IF singletons[c][t] = "yes"
                           THEN [instances EXCEPT ![c][t] = NewInstance] ELSE instances
           /\ built' = [built EXCEPT ![c][t] = @ \cup {NewInstance}]
           /\ lost' = IF Result(th) = None THEN lost \cup {<<c, t>>} ELSE lost
    /\ calls' = [calls EXCEPT ![th] = Outer(th)]
    /\ UNCHANGED <<factories, singletons, adding, contested, raced>>

(* The factory raises: nothing is stored and resolve() passes it on.  A    *)
(* factory that called it may go on or raise in its turn.                  *)
FactoryRaises(th) ==
    /\ InFactoryOf(th)
    /\ calls' = [calls EXCEPT ![th] = Outer(th)]
    /\ UNCHANGED <<factories, singletons, instances, adding, contested, histories>>

-----------------------------------------------------------------------------
(* "factory is invoked at most once and the result is cached and reused"   *)
(* (container.py 40-43), as far as the code keeps it.  Unless two          *)
(* registrations of the key both found it free, two resolve()s at once     *)
(* found no instance, or an instance was lost, the factory of a singleton  *)
(* returned one instance, which the container holds while nobody replaces  *)
(* it by calling the factory again.  One can only be lost, in the KeyError *)
(* of resolve() 95, while a register() of the key is unfinished.           *)
Undisturbed(c, t) == <<c, t>> \notin raced \cup contested \cup lost

SingletonUnlessDisturbed ==
    \A c \in Containers, t \in Types :
        /\ singletons[c][t] = "yes" /\ Undisturbed(c, t)
              => built[c][t] \subseteq {instances[c][t]}
        /\ singletons[c][t] = "unset" /\ t \in factories[c]
              => \E th \in Threads : /\ adding[th] # None /\ adding[th].at = "kind"
                                     /\ adding[th].c = c /\ adding[th].t = t

(* What a container holds is settled once nobody is in a resolve() that    *)
(* missed it or about to write the key: neither a later resolve() nor a    *)
(* later register() or register_instance(), on whatever threads and in     *)
(* whatever runtimes, replaces it or could come to.                        *)
Settled(c, t) ==
    instances[c][t] # None /\ Calling(c, t) = {} /\ Registering(c, t) = {}

ServicesSettle ==
    \A c \in Containers, t \in Types :
        Settled(c, t) => Settled(c, t)' /\ instances'[c][t] = instances[c][t]

ServicesStaySettled == [][ServicesSettle]_containerVars
=============================================================================
