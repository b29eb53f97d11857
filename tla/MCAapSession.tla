---------------------------- MODULE MCAapSession ----------------------------
(* The watcher and the activator share only the lifecycle, so no instance  *)
(* has both; the watcher runs with and without the key filter.             *)
EXTENDS AapSession

MCConfigs ==
    {[mute |-> TRUE, block |-> b, v16 |-> FALSE] : b \in BOOLEAN}
    \cup {[mute |-> FALSE, block |-> FALSE, v16 |-> TRUE]}
=============================================================================
