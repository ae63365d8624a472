----------------------------- MODULE KernelRuntime -----------------------------
(***************************************************************************)
(* Kernels and how they are assembled: Kernel (core/runtime.py), the       *)
(* bootstrap sequence (bootstrap/bootstrap.py, builder.py), the read-only  *)
(* RuntimeContext it delivers and the plugin that reports on a runtime     *)
(* (plugins_builtin/system_info.py), over the containers of                *)
(* ServiceContainer.                                                       *)
(*                                                                         *)
(* The application's Main thread assembles runtimes one after the other.   *)
(* Once one is delivered, every thread that got a tool, workflow or plugin *)
(* context from it holds the Kernel itself and its container, and may      *)
(* start, stop and ask the kernel or resolve and register services at any  *)
(* time, also while Main assembles the next one: no method takes a lock.   *)
(***************************************************************************)
EXTENDS ServiceContainer

CONSTANTS Main,          \* the thread that assembles runtimes
          MaxBoots,      \* bound: runtimes assembled
          Registries,    \* tool registries of the application
          ToolIds,       \* the built-in tools, in order
          Defaults,      \* the default services, in order of registration
          ProvidersT, ToolsT,   \* the keys ProviderRegistry and ToolRegistry
          Lazy,          \* <<container, type>>: the factories the application registers
          Choices        \* the configurations a boot may have

Boots == 1..MaxBoots

(* What is assembled, as the caller of BootstrapBuilder.build chose it: the*)
(* container, the tool registry, whether to register the built-in tools,   *)
(* the extra services.  Without by_bootstrap it is a Kernel the application*)
(* constructs itself around any object with a log_level.  "uses" are the   *)
(* calls that the threads holding one of its contexts make on it.          *)
Calls == {"start", "shutdown", "health", "collect", "resolve", "register"}
Choice == [by_bootstrap : BOOLEAN, home : Containers, tools : Registries,
           builtin : BOOLEAN, extra : Seq(Types), uses : SUBSET Calls]

ASSUME KernelAssumption ==
    /\ Main \in Threads
    /\ MaxBoots \in Nat
    /\ Defaults \in Seq(Types)
    /\ \E i \in DOMAIN Defaults : Defaults[i] = ProvidersT
    /\ \E i \in DOMAIN Defaults : Defaults[i] = ToolsT
    /\ ToolIds \in Seq(STRING)
    /\ Choices \subseteq Choice
    /\ Lazy \subseteq Containers \X Types

VARIABLES
    boot,        \* [Boots -> Choices], never changed
    stage,       \* [Boots -> ...]: how far the assembly got
    todo,        \* what the assembly in progress still registers
    toolIds,     \* [Registries -> set of tool ids]
    state,       \* [Boots -> ...]: Kernel._state
    detail,      \* [Boots -> BOOLEAN]: _failure_detail is set
    op           \* [Threads -> Op]: the call the thread is in

kernelVars == <<boot, stage, todo, toolIds, state, detail, op>>
vars == <<containerVars, kernelVars>>

Startable == {"not_started", "stopped", "failed"}
States == Startable \cup {"starting", "running", "stopping"}

(* A call: its name, the runtime it is about (0 for none), the step it is  *)
(* at, what health() and collect() have read, and whether another thread   *)
(* wrote the kernel's state meanwhile (history).                           *)
NoReport == [branch |-> "none", state |-> "none",
             providers |-> None, tools |-> None]
Entering(name, b, pc) ==
    [name |-> name, on |-> b, pc |-> pc, got |-> NoReport, moved |-> FALSE]
Idle == Entering("none", 0, "none")
IsIdle(th) == op[th] = Idle /\ calls[th] = <<>> /\ adding[th] = None

KernelTypeOK ==
    /\ boot \in [Boots -> Choices]
    /\ stage \in [Boots -> {"waiting", "registering", "starting", "delivered", "failed"}]
    /\ todo \in Seq({"tool", "service"} \X (Types \cup STRING))
    /\ toolIds \in [Registries -> SUBSET {ToolIds[i] : i \in DOMAIN ToolIds}]
    /\ state \in [Boots -> States]
    /\ detail \in [Boots -> BOOLEAN]
    /\ \A th \in Threads :
          /\ op[th].name \in {"none", "boot", "start", "shutdown", "health", "collect"}
          /\ op[th].on \in {0} \cup Boots
          /\ op[th].got.providers \in Instance \cup {None, Unregistered}
          /\ op[th].got.tools \in Instance \cup {None, Unregistered}

TypeOK == ContainerTypeOK /\ KernelTypeOK

(* A call reaches a kernel through the contexts of a delivered runtime.    *)
Reachable(call, b) == call \in boot[b].uses /\ stage[b] = "delivered"

(* The value boot b registers for a default service, or an extra one, and  *)
(* the one the application registers on thread th.                         *)
Own(b) == [by |-> "boot", n |-> b]
Given(th) == [by |-> "application", n |-> th]

Init ==
    /\ ContainerInit
    /\ boot \in [Boots -> Choices]
    /\ stage = [b \in Boots |-> "waiting"]
    /\ todo = <<>>
    /\ toolIds = [r \in Registries |-> {}]
    /\ state = [b \in Boots |-> "not_started"]
    /\ detail = [b \in Boots |-> FALSE]
    /\ op = [th \in Threads |-> Idle]

Set(th, entry) == op' = [op EXCEPT ![th] = entry]
At(th, name, pc) == op[th].name = name /\ op[th].pc = pc

(* A write of the state of the kernel of b, in the middle of which a       *)
(* health() of another thread may be; the writer goes on at "entry".       *)
WriteState(th, b, value, entry) ==
    /\ state' = [state EXCEPT ![b] = value]
    /\ op' = [x \in Threads |->
                 IF x = th THEN entry
                 ELSE IF op[x].on = b /\ op[x].name \in {"health", "collect"}
                      THEN [op[x] EXCEPT !.moved = TRUE] ELSE op[x]]

-----------------------------------------------------------------------------
(* Registration of a service by the application, as a factory or as an     *)
(* instance: on the main thread before a boot or between two, and on every *)
(* thread that reached the container through a delivered runtime.          *)
Register(th, c, t) ==
    /\ IsIdle(th)
    /\ <<c, t>> \in Lazy
    /\ \/ th = Main
       \/ \E b \in Boots : Reachable("register", b) /\ boot[b].home = c
    /\ \E value \in {None, Given(th)} : RegisterBegins(th, c, t, value)
    /\ UNCHANGED kernelVars

GoOnRegistering(th) ==
    /\ \/ RegisterWrites(th) /\ op[th].name # "boot"
       \/ \E kind \in {"yes", "no"} : RegisterEnds(th, kind)
    /\ UNCHANGED kernelVars

(* KernelBootstrap.run up to its first registration: what it will register,*)
(* in its order.  A kernel made directly is ready, and not started.        *)
Tagged(kind, seq) == [i \in DOMAIN seq |-> <<kind, seq[i]>>]
Registrations(cfg) ==
    (IF cfg.builtin THEN Tagged("tool", ToolIds) ELSE <<>>)
        \o Tagged("service", Defaults) \o Tagged("service", cfg.extra)

BootBegins(b) ==
    /\ IsIdle(Main)
    /\ stage[b] = "waiting"
    /\ \A x \in 1..(b - 1) : stage[x] # "waiting"
    /\ IF boot[b].by_bootstrap
       THEN /\ stage' = [stage EXCEPT ![b] = "registering"]
            /\ todo' = Registrations(boot[b])
            /\ Set(Main, Entering("boot", b, "register"))
       ELSE /\ stage' = [stage EXCEPT ![b] = "delivered"]
            /\ UNCHANGED <<todo, op>>
    /\ UNCHANGED <<containerVars, boot, toolIds, state, detail>>

(* A step of the sequence raises a KernelError: BootstrapError, and what   *)
(* was registered before stays where it is.                                *)
BootFails(b) ==
    /\ stage' = [stage EXCEPT ![b] = "failed"]
    /\ todo' = <<>>
    /\ Set(Main, Idle)

BootRegistersTool(b) ==
    /\ At(Main, "boot", "register") /\ op[Main].on = b
    /\ adding[Main] = None /\ todo # <<>> /\ Head(todo)[1] = "tool"
    /\ LET r == boot[b].tools
           id == Head(todo)[2]
       IN  IF id \in toolIds[r] THEN BootFails(b) /\ UNCHANGED toolIds
           ELSE /\ toolIds' = [toolIds EXCEPT ![r] = @ \cup {id}]
                /\ todo' = Tail(todo)
                /\ UNCHANGED <<stage, op>>
    /\ UNCHANGED <<containerVars, boot, state, detail>>

(* A bug: a service that is already registered is passed over.             *)
MutBootChecksService(b) ==
    /\ At(Main, "boot", "register") /\ op[Main].on = b
    /\ adding[Main] = None /\ todo # <<>> /\ Head(todo)[1] = "service"
    /\ LET t == Head(todo)[2]
       IN  IF IsRegistered(boot[b].home, t) THEN todo' = Tail(todo) /\ UNCHANGED containerVars
           ELSE RegisterBegins(Main, boot[b].home, t, Own(b)) /\ UNCHANGED todo
    /\ UNCHANGED <<stage, op, boot, toolIds, state, detail>>

(* register_instance() of the next service; RegisterEnds ends it.          *)
BootChecksService(b) ==
    /\ At(Main, "boot", "register") /\ op[Main].on = b
    /\ adding[Main] = None /\ todo # <<>> /\ Head(todo)[1] = "service"
    /\ LET t == Head(todo)[2]
       IN  IF IsRegistered(boot[b].home, t)
           THEN BootFails(b) /\ UNCHANGED containerVars
           ELSE RegisterBegins(Main, boot[b].home, t, Own(b)) /\ UNCHANGED <<stage, todo, op>>
    /\ UNCHANGED <<boot, toolIds, state, detail>>

BootWritesService ==
    /\ At(Main, "boot", "register")
    /\ RegisterWrites(Main)
    /\ todo' = Tail(todo)
    /\ UNCHANGED <<boot, stage, op, toolIds, state, detail>>

(* Everything is registered: the kernel is constructed, and start() passes *)
(* its check, since nobody else holds the kernel yet.                      *)
BootStarts(b) ==
    /\ At(Main, "boot", "register") /\ op[Main].on = b
    /\ adding[Main] = None /\ todo = <<>>
    /\ stage' = [stage EXCEPT ![b] = "starting"]
    /\ Set(Main, Entering("start", b, "claim"))
    /\ UNCHANGED <<containerVars, boot, todo, toolIds, state, detail>>

-----------------------------------------------------------------------------
(* Kernel.start.  The check of the state and the write that follows it are *)
(* two steps; a kernel that is not startable raises StartupError.          *)
CallStart(th, b) ==
    /\ IsIdle(th) /\ Reachable("start", b)
    /\ state[b] \in Startable
    /\ Set(th, Entering("start", b, "claim"))
    /\ UNCHANGED <<containerVars, boot, stage, todo, toolIds, state, detail>>

StartClaims(th, b) ==
    /\ At(th, "start", "claim") /\ op[th].on = b
    /\ WriteState(th, b, "starting", Entering("start", b, "clear"))
    /\ UNCHANGED <<containerVars, boot, stage, todo, toolIds, detail>>

StartClears(th, b) ==
    /\ At(th, "start", "clear") /\ op[th].on = b
    /\ detail' = [detail EXCEPT ![b] = FALSE]
    /\ Set(th, Entering("start", b, "configure"))
    /\ UNCHANGED <<containerVars, boot, stage, todo, toolIds, state>>

(* configure_logging reads the settings' log_level at each start.  The one *)
(* of a KernelConfig was validated when it was made and never changes.     *)
LevelIsValid(b, valid) == boot[b].by_bootstrap => valid

(* A bug: a start that fails keeps no detail of the failure.               *)
MutStartConfigures(th, b) ==
    /\ At(th, "start", "configure") /\ op[th].on = b
    /\ \E valid \in BOOLEAN :
          LevelIsValid(b, valid)
            /\ WriteState(th, b, IF valid THEN "running" ELSE "failed", Idle)
    /\ stage' = [stage EXCEPT ![b] = "delivered"]
    /\ UNCHANGED <<containerVars, boot, todo, toolIds, detail>>

StartConfigures(th, b) ==
    /\ At(th, "start", "configure") /\ op[th].on = b
    /\ \E valid \in BOOLEAN :
          /\ LevelIsValid(b, valid)
          /\ IF valid THEN WriteState(th, b, "running", Idle)
             ELSE WriteState(th, b, "failed", Entering("start", b, "explain"))
    /\ stage' = [stage EXCEPT ![b] = "delivered"]
    /\ UNCHANGED <<containerVars, boot, todo, toolIds, detail>>

StartExplains(th, b) ==
    /\ At(th, "start", "explain") /\ op[th].on = b
    /\ detail' = [detail EXCEPT ![b] = TRUE]
    /\ Set(th, Idle)
    /\ UNCHANGED <<containerVars, boot, stage, todo, toolIds, state>>

(* Kernel.shutdown: nothing unless the kernel is running.                  *)
CallShutdown(th, b) ==
    /\ IsIdle(th) /\ Reachable("shutdown", b)
    /\ state[b] = "running"
    /\ Set(th, Entering("shutdown", b, "stop"))
    /\ UNCHANGED <<containerVars, boot, stage, todo, toolIds, state, detail>>

ShutdownStops(th, b) ==
    /\ At(th, "shutdown", "stop") /\ op[th].on = b
    /\ WriteState(th, b, "stopping", Entering("shutdown", b, "stopped"))
    /\ UNCHANGED <<containerVars, boot, stage, todo, toolIds, detail>>

(* A bug: a state the enumeration does not have.                           *)
MutShutdownEnds(th, b) ==
    /\ At(th, "shutdown", "stopped") /\ op[th].on = b
    /\ WriteState(th, b, "shut_down", Idle)
    /\ UNCHANGED <<containerVars, boot, stage, todo, toolIds, detail>>

ShutdownEnds(th, b) ==
    /\ At(th, "shutdown", "stopped") /\ op[th].on = b
    /\ WriteState(th, b, "stopped", Idle)
    /\ UNCHANGED <<containerVars, boot, stage, todo, toolIds, detail>>

-----------------------------------------------------------------------------
(* Kernel.health reads the state for each branch it tries and once more    *)
(* for the report.  "branch" is what the report's healthy and detail say.  *)
HealthTests(th, b, value, otherwise) ==
    op[th].on = b /\
    Set(th, IF state[b] = value
            THEN [op[th] EXCEPT !.pc = "report", !.got.branch = value]
            ELSE [op[th] EXCEPT !.pc = otherwise,
                                !.got.branch = IF otherwise = "report" THEN "other" ELSE @])

CallHealth(th, b) ==
    /\ IsIdle(th) /\ Reachable("health", b)
    /\ Set(th, Entering("health", b, "running?"))
    /\ UNCHANGED <<containerVars, boot, stage, todo, toolIds, state, detail>>

(* A bug: a kernel that is not running is reported as failed.              *)
MutHealthStep(th, b) ==
    /\ op[th].on = b
    /\ \/ op[th].pc = "running?" /\ HealthTests(th, b, "running", "failed?")
       \/ op[th].pc = "failed?"
             /\ Set(th, [op[th] EXCEPT !.pc = "report", !.got.branch = "failed"])
       \/ op[th].pc = "report"
             /\ Set(th, [op[th] EXCEPT !.pc = "done", !.got.state = state[b]])
    /\ UNCHANGED <<containerVars, boot, stage, todo, toolIds, state, detail>>

HealthStep(th, b) ==
    /\ op[th].on = b
    /\ \/ op[th].pc = "running?" /\ HealthTests(th, b, "running", "failed?")
       \/ op[th].pc = "failed?" /\ HealthTests(th, b, "failed", "report")
       \/ op[th].pc = "report"
             /\ Set(th, [op[th] EXCEPT !.pc = "done", !.got.state = state[b]])
    /\ UNCHANGED <<containerVars, boot, stage, todo, toolIds, state, detail>>

(* SystemInfoPlugin.collect: the provider registry and the tool registry   *)
(* the container resolves, each () when it is not registered, and then the *)
(* kernel's health.  Any other error of a resolve() ends it; what one gave *)
(* is None while it is under way.                                          *)
CallCollect(th, b) ==
    /\ IsIdle(th) /\ Reachable("collect", b)
    /\ LookUp(th, boot[b].home, ProvidersT, <<>>)
    /\ Set(th, [Entering("collect", b, "providers")
                   EXCEPT !.got.providers = instances[boot[b].home][ProvidersT]])
    /\ UNCHANGED <<boot, stage, todo, toolIds, state, detail>>

CollectProviders(th, b) ==
    /\ At(th, "collect", "providers") /\ op[th].on = b /\ calls[th] = <<>>
    /\ IF op[th].got.providers = None THEN Set(th, Idle) /\ UNCHANGED containerVars
       ELSE /\ LookUp(th, boot[b].home, ToolsT, <<>>)
            /\ Set(th, [op[th] EXCEPT !.pc = "tools",
                                      !.got.tools = instances[boot[b].home][ToolsT]])
    /\ UNCHANGED <<boot, stage, todo, toolIds, state, detail>>

CollectTools(th, b) ==
    /\ At(th, "collect", "tools") /\ op[th].on = b /\ calls[th] = <<>>
    /\ Set(th, IF op[th].got.tools = None THEN Idle
               ELSE [op[th] EXCEPT !.pc = "running?", !.moved = FALSE])
    /\ UNCHANGED <<containerVars, boot, stage, todo, toolIds, state, detail>>

(* The caller has its report.                                              *)
ReportRead(th) ==
    /\ op[th].pc = "done"
    /\ Set(th, Idle)
    /\ UNCHANGED <<containerVars, boot, stage, todo, toolIds, state, detail>>

-----------------------------------------------------------------------------
(* ServiceContainer.resolve, on the container of a delivered runtime.      *)
Resolve(th, c, t) ==
    /\ IsIdle(th)
    /\ \E b \in Boots : Reachable("resolve", b) /\ boot[b].home = c
    /\ LookUp(th, c, t, <<>>)
    /\ UNCHANGED kernelVars

(* The rest of a resolve().  collect() takes what its own came to: an      *)
(* instance, ServiceRegistrationError, which a factory may raise as well,  *)
(* or None for any other error.                                            *)
Came(th, got) ==
    op' = IF op[th].name = "collect" /\ calls'[th] = <<>>
          THEN [op EXCEPT ![th].got[op[th].pc] = got] ELSE op

GoOnResolving(th) ==
    /\ \/ FactoryResolves(th) /\ op' = op
       \/ FactoryMissing(th) /\ Came(th, Unregistered)
       \/ FactoryReturns(th) /\ Came(th, Result(th))
       \/ FactoryRaises(th) /\ \E got \in {None, Unregistered} : Came(th, got)
    /\ UNCHANGED <<boot, stage, todo, toolIds, state, detail>>

Assemble ==
    \/ \E b \in Boots : \/ BootBegins(b) \/ BootRegistersTool(b)
                        \/ BootChecksService(b) \/ BootStarts(b)
    \/ BootWritesService

Lifecycle(th, b) ==
    \/ CallStart(th, b) \/ StartClaims(th, b) \/ StartClears(th, b)
    \/ StartConfigures(th, b) \/ StartExplains(th, b)
    \/ CallShutdown(th, b) \/ ShutdownStops(th, b) \/ ShutdownEnds(th, b)

Report(th, b) ==
    \/ CallHealth(th, b) \/ HealthStep(th, b)
    \/ CallCollect(th, b) \/ CollectProviders(th, b) \/ CollectTools(th, b)

Next ==
    \/ Assemble
    \/ \E th \in Threads :
          \/ \E b \in Boots : Lifecycle(th, b) \/ Report(th, b)
          \/ \E c \in Containers, t \in Types : Resolve(th, c, t) \/ Register(th, c, t)
          \/ GoOnRegistering(th)
          \/ GoOnResolving(th)
          \/ ReportRead(th)

Spec == Init /\ [][Next]_vars

-----------------------------------------------------------------------------
(* A runtime that bootstrap delivered keeps what it was assembled with: in *)
(* its container every default and extra service is still the one its boot *)
(* registered, whatever other boots on the same container did, failed or   *)
(* not (bootstrap.py 80-84), and its tool registry has the built-in tools. *)
(* Only a registration of the application that found the key free together *)
(* with the boot can have put another instance in its place.               *)
Its(b, t, found) ==
    found = Own(b) \/ (<<boot[b].home, t>> \in contested /\ found \in Instance)

InPlace(b, item) ==
    IF item[1] = "tool" THEN item[2] \in toolIds[boot[b].tools]
    ELSE Its(b, item[2], instances[boot[b].home][item[2]])

RuntimeServicesStay ==
    \A b \in Boots :
        boot[b].by_bootstrap /\ stage[b] = "delivered" =>
            LET items == Registrations(boot[b])
            IN  \A i \in DOMAIN items : InPlace(b, items[i])

(* What the system-info plugin collects on a bootstrapped runtime are the  *)
(* registries of that runtime, never (), and its health is of one moment   *)
(* unless another thread moved the kernel while it was read (runtime.py    *)
(* 127: health() reads the state again for the report); a registry whose   *)
(* registration was contested may be another.                              *)
ReportsTellOneRuntime ==
    \A th \in Threads : op[th].pc = "done" =>
        LET got == op[th].got
        IN  /\ ~op[th].moved =>
                  got.branch = IF got.state \in {"running", "failed"}
                               THEN got.state ELSE "other"
            /\ op[th].name = "collect" /\ boot[op[th].on].by_bootstrap =>
                  /\ Its(op[th].on, ProvidersT, got.providers)
                  /\ Its(op[th].on, ToolsT, got.tools)

(* When no thread is inside start() or shutdown() of a kernel, its state   *)
(* is none of the transient ones, however many such calls overlapped, and  *)
(* a kernel left failed has the detail health() reports (runtime.py 86-121)*)
QuietKernel ==
    \A b \in Boots :
        (\A th \in Threads : op[th].on = b => op[th].name \notin {"start", "shutdown"})
            => /\ state[b] \in Startable \cup {"running"}
               /\ state[b] = "failed" => detail[b]
=============================================================================
