------------------------------ MODULE TenantPool ------------------------------
(***************************************************************************)
(* What an admission governor promises: clients take and give back slots   *)
(* of a pool, one slot each, and neither a tenant nor the whole server     *)
(* ever has more slots taken than its limit.  Both governors of the        *)
(* backend, ConcurrencyGovernor and NetworkScanGuard, are shown to         *)
(* implement it in ScanAdmission.                                          *)
(***************************************************************************)
EXTENDS Naturals, FiniteSets

CONSTANTS Tenants, Clients,
          PerTenant,  \* the most slots one tenant holds
          Global      \* the most slots all tenants hold

VARIABLE holders  \* holders[t]: the clients of tenant t that hold a slot

AllHolders == UNION {holders[t] : t \in Tenants}

Init == holders = [t \in Tenants |-> {}]

Take(t, c) ==
  /\ c \notin AllHolders
  /\ Cardinality(holders[t]) < PerTenant
  /\ Cardinality(AllHolders) < Global
  /\ holders' = [holders EXCEPT ![t] = @ \cup {c}]

Give(t, c) ==
  /\ c \in holders[t]
  /\ holders' = [holders EXCEPT ![t] = @ \ {c}]

Next == \E t \in Tenants, c \in Clients : Take(t, c) \/ Give(t, c)

Spec == Init /\ [][Next]_holders

===============================================================================
