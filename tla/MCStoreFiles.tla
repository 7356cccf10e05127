----------------------------- MODULE MCStoreFiles -----------------------------
(* One process for each operation; a valid and a broken user document.  The *)
(* run is also the one that evaluates the assumptions of Computations.      *)
EXTENDS StoreFiles, Computations

CONSTANTS updater, saver, creator, repairer

Operations ==
    [p \in Procs |-> CASE p = updater -> "update" [] p = saver -> "save"
                       [] p = creator -> "create" [] p = repairer -> "repair"]
===============================================================================
