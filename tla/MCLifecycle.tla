---------------------------- MODULE MCLifecycle ----------------------------
(***************************************************************************)
(* Small instances of Lifecycle: two controllers of one daemon, two        *)
(* daemons after or over one another, an app with a daemon of its own.     *)
(***************************************************************************)
EXTENDS Lifecycle, TLC

CONSTANTS d1, d2, d3, app, cli, cli2, old, s1, s2

Overlapping == [daemons |-> {d1}, controllers |-> {cli, cli2}, sessions |-> {s1, s2}]
Succeeding == [daemons |-> {d1, d2}, controllers |-> {cli}, sessions |-> {s1}]
Watching == [daemons |-> {d3}, controllers |-> {app}, sessions |-> {s1, s2}]
Foreigner == [daemons |-> {d1}, controllers |-> {old}, sessions |-> {s1}]
\* An app and a CLI command meet over the app's spare daemon (MCLifecycleSpare).
Sharing == {[daemons |-> {d1, d3}, controllers |-> {app, cli}, sessions |-> {s1, s2}]}
Scenes == {Overlapping, Succeeding, Watching, Foreigner}
=============================================================================
