---------------------------- MODULE CryptoLifecycle ----------------------------
(***************************************************************************)
(* From the inventory to its repair: what is scanned, rated and compared   *)
(* (CryptoInventory), how far the code reaches into its dependencies       *)
(* (DependencyReach), and changes that are approved, patched and planned   *)
(* (RemediationLifecycle).  The scanners, the correlators, the approval    *)
(* engine and the patch tool share no state; a behaviour exercises one of  *)
(* them, its workload.                                                     *)
(***************************************************************************)
EXTENDS CryptoInventory, DependencyReach, RemediationLifecycle

VARIABLE workload

vars == <<workload, inventoryVars, reachVars, approvals, patchVars>>

Init ==
    /\ workload \in {"code", "feeds", "dependencies", "approvals", "patches"}
    /\ InventoryInit
    /\ ReachInit
    /\ ApprovalInit
    /\ PatchInit /\ (workload # "patches" => \A f \in Files : files[f] = CHOOSE c \in Contents[f] : TRUE)

Next ==
    /\ UNCHANGED workload
    /\ \/ workload = "code" /\ CodeNext /\ UNCHANGED <<reachVars, approvals, patchVars>>
       \/ workload = "feeds" /\ FeedNext /\ UNCHANGED <<reachVars, approvals, patchVars>>
       \/ workload = "dependencies" /\ ReachNext /\ UNCHANGED <<inventoryVars, approvals, patchVars>>
       \/ workload = "approvals" /\ ApprovalNext /\ UNCHANGED <<inventoryVars, reachVars, patchVars>>
       \/ workload = "patches" /\ PatchNext /\ UNCHANGED <<inventoryVars, reachVars, approvals>>

Spec == Init /\ [][Next]_vars

\* What an inventory says is so: what is rated high risk, compliant, ready, reachable or
\* severe is so by every path that says it, and on evidence; and a comparison of two
\* inventories tells what changed in the code.
InventorySaysTrue == InventoryRatingsAreEarned /\ ReachIsEarned /\ DiffTellsWhatChanged

================================================================================
