---------------------------- MODULE MCKernelRuntime ----------------------------
(***************************************************************************)
(* Two runtimes assembled one after the other by the main thread, which a  *)
(* worker thread uses meanwhile.  c1 is shared by both or only by the one; *)
(* the application may register the key of the tool registry, whose        *)
(* factory resolves a service S, and S itself, before a boot comes to them *)
(* or while it does: S is also the extra service of a boot.                *)
(***************************************************************************)
EXTENDS KernelRuntime, TLC

CONSTANTS main, worker, c1, c2, r1, Config, Providers, Tools, S

MCContainers == {c1, c2}
MCTypes == {Config, Providers, Tools, S}
MCThreads == {main, worker}
MCDeps == [t \in MCTypes |-> IF t = Tools THEN {S} ELSE {}]
MCRegistries == {r1}
MCToolIds == <<"echo", "health">>
MCDefaults == <<Config, Providers, Tools>>
MCLazy == {c1} \X {Tools, S}

BootChoice(home, builtin, extra, uses) ==
    [by_bootstrap |-> TRUE, home |-> home, tools |-> r1, builtin |-> builtin,
     extra |-> extra, uses |-> uses]
DirectChoice(uses) ==
    [BootChoice(c1, FALSE, <<>>, uses) EXCEPT !.by_bootstrap = FALSE]

MCChoices ==
    {BootChoice(c1, TRUE, <<S>>, {"resolve", "collect"}),
     BootChoice(c1, FALSE, <<>>, {"resolve"}),
     BootChoice(c2, TRUE, <<>>, {"collect", "shutdown"}),
     DirectChoice({"start", "shutdown", "health"}),
     DirectChoice({"collect"}),
     DirectChoice({"register"})}

(* Kernels share nothing but their containers and registries: the other    *)
(* runtime of one made directly, which brings neither services nor tools,  *)
(* is bootstrapped, on the same container.                                 *)
MCInit ==
    /\ Init
    /\ \A b, d \in Boots :
          b # d /\ ~boot[b].by_bootstrap =>
             boot[d].by_bootstrap /\ boot[d].home = boot[b].home
MCSpec == MCInit /\ [][Next]_vars
=============================================================================
