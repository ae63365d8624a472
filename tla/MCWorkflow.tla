----------------------------- MODULE MCWorkflow -----------------------------
(* Three steps, and every shape of parallel_groups the validation tells    *)
(* apart: none, all, a prefix, a suffix next to a group of one, a gap, a   *)
(* wrong order, an unknown name, a repeated name and an empty group.       *)
EXTENDS AgentRun

MCGroupOptions ==
  { <<>>,
    << <<1, 2, 3>> >>,
    << <<1, 2>> >>,
    << <<1>>, <<2, 3>> >>,
    << <<1, 3>> >>,
    << <<2, 1>> >>,
    << <<3, 4>> >>,
    << <<1, 2>>, <<2, 3>> >>,
    << <<1, 2>>, <<>> >> }
=============================================================================
