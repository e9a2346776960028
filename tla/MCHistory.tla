----------------------------- MODULE MCHistory -----------------------------
(* Instances of History for TLC. *)
EXTENDS History

(* One transaction with a matching log, or two of which the first has a    *)
(* larger receipt, a trace and a log the filter skips.                     *)
MCShapes == {
    << [logs |-> <<TRUE>>, traced |-> FALSE, class |-> 1] >>,
    << [logs |-> <<FALSE, TRUE>>, traced |-> TRUE, class |-> 2],
       [logs |-> <<TRUE>>, traced |-> FALSE, class |-> 1] >> }

Policy(target, days, kept, ops) ==
    [target |-> target, retain_days |-> days, retain_blocks |-> kept, max_ops |-> ops]
(* By age, by age and number with the budget of one block, by size. *)
MCPolicies == {Policy(0, 2, 0, 100), Policy(0, 1, 2, 20), Policy(10, 2, 0, 100)}
MCManual == {<<2, 20>>}
=============================================================================
