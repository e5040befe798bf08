----------------------------- MODULE MCUpgrades -----------------------------
(* MCDlcServer with the requests to upgrade counted.                       *)
EXTENDS MCDlcServer

VARIABLE upgrades  \* requests for tdr_run that were started

\* A thread is started for a request of tdr_run.
UpgradeAsked == \E w \in Workers : api[w] # "tdr_run" /\ api'[w] = "tdr_run"

UInit == MCInit /\ upgrades = 0

UNext == MCNext /\ upgrades' = IF UpgradeAsked THEN upgrades + 1 ELSE upgrades

USpec == UInit /\ [][UNext]_<<vars, manifests, upgrades>>

\* Each START_UPGRADE that finds a package ready asks the orchestrator for one upgrade at
\* most (line 527): neither the manifests and replies that overlap with it, nor the lock
\* that times out, make two of one. So in the optimised build.
UpgradesAsAsked == upgrades <= starts
=============================================================================
