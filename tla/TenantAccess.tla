------------------------------ MODULE TenantAccess ------------------------------
(***************************************************************************)
(* Who may do what in whose data (identity/rbac.py,                        *)
(* identity/multi_tenancy.py, identity/object_auth.py): the permissions of *)
(* roles, the matrix of capabilities, the stores that are shared by        *)
(* tenants, and the audit chain each tenant has.                           *)
(***************************************************************************)
EXTENDS Integers, Sequences, FiniteSets, SequencesExt

CONSTANTS
    Callers,        \* [tenant, user, role]
    Names,          \* names that callers give to rows, objects, cache entries and channels
    MaxOps,         \* bound on the operations of a behaviour
    CacheName,      \* <<name, tenant>> -> the text a cache entry is stored under
    Beginning       \* tenant -> the tenants whose names begin with its name

\* No two tenants' entries have the same text: tenants' names have no colon.
ASSUME TenantsAssumption ==
    /\ \A c \in Callers : c.tenant \in DOMAIN Beginning
    /\ \A m, n \in Names, t, u \in DOMAIN Beginning : CacheName[<<m, t>>] = CacheName[<<n, u>>] => t = u

VARIABLES
    store,          \* the database, the object storage, jobs, cache, queues, registry
    trail,          \* TenantScopedAuditLogger: events, in order
    heads,          \* tenant -> the hash of its last event
    last,           \* what the last operation showed or changed, and for whom
    decision,       \* the last question that both tables answered
    ops

accessVars == <<store, trail, heads, last, decision, ops>>

(***************************************************************************)
(* Roles.  Every spelling has a canonical role, and viewer otherwise.      *)
(***************************************************************************)
Aliases ==
    [platform |-> {"platform administrator", "platform_admin", "platform-admin", "platformadmin", "admin", "superuser"},
     security |-> {"security administrator", "security_admin", "security-admin", "securityadmin", "secops", "security_engineer"},
     analyst |-> {"analyst", "threat_analyst", "crypto_analyst"},
     developer |-> {"developer", "dev", "engineer", "devops"},
     auditor |-> {"auditor", "compliance", "compliance_officer"},
     viewer |-> {"viewer", "read_only", "reader"}]

Spellings == UNION {Aliases[r] : r \in DOMAIN Aliases}

NormalizeRole(role) ==
    IF role \in Spellings THEN CHOOSE r \in DOMAIN Aliases : role \in Aliases[r] ELSE "viewer"

Seen == {"assets:read", "cbom:read", "findings:read", "scans:read", "compliance:read", "remediation:read", "ci:read"}

Worked == {"assets:write", "cbom:generate", "scans:trigger", "findings:suppress", "remediation:propose"}

RolePermissions ==
    [viewer |-> Seen,
     auditor |-> Seen \cup {"audit:read", "audit:verify", "compliance:export", "policy:read", "findings:export",
                            "ticketing:read", "kms:read"},
     developer |-> Seen \cup Worked \cup {"ci:execute", "ticketing:read", "policy:read"},
     analyst |-> Seen \cup Worked \cup {"findings:export", "policy:read", "compliance:export", "ticketing:read",
                                        "ticketing:create", "kms:read"},
     security |-> Seen \cup Worked \cup {"policy:read", "policy:create", "policy:approve", "policy:delete",
                    "remediation:approve", "remediation:apply", "assets:delete", "scans:delete", "findings:export",
                    "compliance:export", "audit:read", "audit:verify", "ci:execute", "ticketing:read",
                    "ticketing:create", "kms:read", "kms:sync", "users:manage"},
     platform |-> {"*"}]

HasPermission(role, permission) ==
    LET granted == RolePermissions[NormalizeRole(role)] IN "*" \in granted \/ permission \in granted

(***************************************************************************)
(* The matrix, by the column a spelling falls into.                        *)
(***************************************************************************)
Column(role) ==
    CASE role \in {"anonymous"} -> "anonymous"
      [] role \in {"platform_admin", "platform-admin", "platform administrator", "superuser"} -> "platform"
      [] role \in {"admin", "security_admin", "security-admin", "security administrator", "secops"} -> "admin"
      [] role \in {"analyst", "threat_analyst", "crypto_analyst"} -> "analyst"
      [] role \in {"developer", "dev", "engineer"} -> "developer"
      [] role \in {"auditor", "compliance", "compliance_officer"} -> "auditor"
      [] OTHER -> "viewer"

People == {"viewer", "analyst", "developer", "auditor", "admin", "platform"}

\* Who is answered YES and who only within his tenant; the others are answered NO.
Matrix ==
    [read_own_data |-> [yes |-> People, scoped |-> {}],
     read_tenant_data |-> [yes |-> {"platform"}, scoped |-> People \ {"platform"}],
     trigger_scans |-> [yes |-> People \ {"viewer", "auditor"}, scoped |-> {}],
     triage_findings |-> [yes |-> People \ {"viewer", "auditor"}, scoped |-> {}],
     propose_remediation |-> [yes |-> People \ {"viewer", "auditor"}, scoped |-> {}],
     approve_remediation |-> [yes |-> {"admin", "platform"}, scoped |-> {}],
     manage_policies |-> [yes |-> {"admin", "platform"}, scoped |-> {}],
     read_compliance_audit |-> [yes |-> {"platform"}, scoped |-> People \ {"platform"}],
     manage_users |-> [yes |-> {"platform"}, scoped |-> {"admin"}],
     rotate_secrets |-> [yes |-> {"platform"}, scoped |-> {}],
     cross_tenant_access |-> [yes |-> {"platform"}, scoped |-> {}]]

EvaluateCapability(role, capability, crossTenant, master) ==
    \/ Column(role) \in Matrix[capability].yes
    \/ Column(role) \in Matrix[capability].scoped /\ (crossTenant => NormalizeRole(role) = "platform")
    \/ capability = "rotate_secrets" /\ Column(role) = "admin" /\ ~master

(***************************************************************************)
(* Callers and what they may see.                                          *)
(***************************************************************************)
\* A context takes some spellings of the platform's role for it, the roles others.
PlatformContext(caller) == caller.role \in {"platform administrator", "admin", "platform_admin", "platform-admin"}

PlatformRole(caller) == NormalizeRole(caller.role) = "platform"

\* Mutation: rows are seen by whoever knows their table.
EveryRowVisible(caller, row) == TRUE

Visible(caller, row) == PlatformContext(caller) \/ row.tenant = caller.tenant

Quiet == [caller |-> "none"]

AccessInit ==
    /\ store = [rows |-> <<>>, objects |-> {}, jobs |-> {}, cache |-> <<>>, queues |-> <<>>, registry |-> <<>>]
    /\ trail = <<>>
    /\ heads = [t \in DOMAIN Beginning |-> 0]
    /\ last = Quiet
    /\ decision = [asked |-> FALSE]
    /\ ops = 0

\* One operation of a caller: what becomes of the store, whose data it showed or changed.
Operation(caller, after, tenants) ==
    /\ ops < MaxOps
    /\ ops' = ops + 1
    /\ store' = after
    /\ last' = [caller |-> caller, tenants |-> tenants]
    /\ UNCHANGED <<trail, heads, decision>>

TenantsOf(rows) == {r.tenant : r \in rows}

Insert(c, id) ==
    Operation(c, [store EXCEPT !.rows = Append(@, [id |-> id, tenant |-> c.tenant])], {c.tenant})

Find(c) == Operation(c, store, TenantsOf({r \in ToSet(store.rows) : Visible(c, r)}))

\* Ids are unique within a tenant at most: the first visible row with the id is meant.
Matching(c, id) == {i \in DOMAIN store.rows : store.rows[i].id = id /\ Visible(c, store.rows[i])}

FirstOf(s) == CHOOSE i \in s : \A j \in s : i <= j

\* An update keeps the row's tenant.
FindByIdOrUpdate(c, id) ==
    /\ Matching(c, id) # {}
    /\ Operation(c, store, {store.rows[FirstOf(Matching(c, id))].tenant})

DeleteRow(c, id) ==
    /\ Matching(c, id) # {}
    /\ Operation(c, [store EXCEPT !.rows = RemoveAt(@, FirstOf(Matching(c, id)))],
                 {store.rows[FirstOf(Matching(c, id))].tenant})

\* Objects live under their tenant's prefix: an object of another tenant cannot be named.
ObjectAt(c, id) == [tenant |-> c.tenant, key |-> id]

PutObject(c, id) == Operation(c, [store EXCEPT !.objects = @ \cup {ObjectAt(c, id)}], {c.tenant})

GetObject(c, id) ==
    /\ ObjectAt(c, id) \in store.objects
    /\ Operation(c, store, {c.tenant})

DeleteObject(c, id) ==
    /\ ObjectAt(c, id) \in store.objects
    /\ Operation(c, [store EXCEPT !.objects = @ \ {ObjectAt(c, id)}], {c.tenant})

\* The prefix loses its last slash, so that it is also the beginning of other tenants'.
ListObjects(c) ==
    Operation(c, store, TenantsOf({o \in store.objects : o.tenant \in Beginning[c.tenant] /\ Visible(c, o)}))

\* A worker runs under the tenant of the job, whoever starts it.
Enqueue(c) == Operation(c, [store EXCEPT !.jobs = @ \cup {[tenant |-> c.tenant, done |-> FALSE]}], {c.tenant})

ExecuteWorker(c) ==
    \E j \in store.jobs :
        /\ ~j.done
        /\ j.tenant = c.tenant
        /\ Operation(c, [store EXCEPT !.jobs = (@ \ {j}) \cup {[j EXCEPT !.done = TRUE]}], {j.tenant})

GetJobs(c) == Operation(c, store, TenantsOf({j \in store.jobs : Visible(c, j)}))

\* An entry is found by its text alone; nobody compares its tenant.
CacheKey(name, tenant) == CacheName[<<name, tenant>>]

SetCache(c, id) ==
    LET k == CacheKey(id, c.tenant) IN
    Operation(c, [store EXCEPT !.cache = [j \in DOMAIN @ \cup {k} |-> IF j = k THEN c.tenant ELSE @[j]]], {c.tenant})

GetCache(c, id) ==
    LET k == CacheKey(id, c.tenant) IN
    /\ k \in DOMAIN store.cache
    /\ Operation(c, store, {store.cache[k]})

\* An entry that is deleted, flushed with its tenant, or found too old.
DropCache(c, id) ==
    LET k == CacheKey(id, c.tenant) IN
    /\ k \in DOMAIN store.cache
    /\ Operation(c, [store EXCEPT !.cache = [j \in DOMAIN @ \ {k} |-> @[j]]], {store.cache[k]})

Channel(c, id) == <<c.tenant, id>>

Publish(c, id) ==
    LET q == Channel(c, id) IN
    Operation(c, [store EXCEPT !.queues =
        [j \in DOMAIN @ \cup {q} |-> IF j # q THEN @[j] ELSE IF q \in DOMAIN @ THEN Append(@[q], c.tenant) ELSE <<c.tenant>>]],
        {c.tenant})

Consume(c, id) ==
    LET q == Channel(c, id) IN
    /\ q \in DOMAIN store.queues
    /\ store.queues[q] # <<>>
    /\ Operation(c, [store EXCEPT !.queues[q] = Tail(@)], {Head(store.queues[q])})

\* Ids are global here: a second registration takes the first one's place.
Register(c, id) ==
    Operation(c, [store EXCEPT !.registry =
        [i \in DOMAIN @ \cup {id} |-> IF i = id THEN [tenant |-> c.tenant, owner |-> c.user] ELSE @[i]]], {c.tenant})

TenantAdmin(c) == PlatformContext(c) \/ c.role \in {"admin", "security administrator", "secops"}

VerifyObjectAuthorization(c, id) ==
    /\ id \in DOMAIN store.registry
    /\ LET r == store.registry[id] IN
       /\ Visible(c, r)
       /\ r.owner = c.user \/ TenantAdmin(c)
       /\ Operation(c, store, {r.tenant})

\* The routes ask for a permission, the tenant and the owner of the target.
VerifyAuthorization(c, id, permission) ==
    /\ id \in DOMAIN store.registry
    /\ LET r == store.registry[id] IN
       /\ HasPermission(c.role, permission)
       /\ PlatformRole(c) \/ r.tenant = c.tenant
       /\ r.owner = c.user \/ PlatformRole(c) \/ NormalizeRole(c.role) = "security"
       /\ Operation(c, store, {r.tenant})

\* A tenant that the client names himself must be his own, or he is of the platform;
\* either way the context's tenant is used.
ValidateRequest(c, named) ==
    /\ named = c.tenant \/ PlatformContext(c)
    /\ Operation(c, store, {c.tenant})

\* An export reads a tenant's rows and leaves an object.
Export(c) ==
    Operation(c, [store EXCEPT !.objects = @ \cup {[tenant |-> c.tenant, key |-> "export"]}],
              {c.tenant} \cup TenantsOf({r \in ToSet(store.rows) : Visible(c, r)}))

(***************************************************************************)
(* The audit chain.  The hash of an event is its number; each event holds  *)
(* the hash of its tenant's event before it.                               *)
(***************************************************************************)
LogEvent(c) ==
    LET hash == Len(trail) + 1 IN
    /\ ops < MaxOps
    /\ ops' = ops + 1
    /\ trail' = Append(trail, [tenant |-> c.tenant, prev |-> heads[c.tenant], hash |-> hash])
    /\ heads' = [heads EXCEPT ![c.tenant] = hash]
    /\ last' = [caller |-> c, tenants |-> {c.tenant}]
    /\ UNCHANGED <<store, decision>>

\* The hash of a tenant's last event among the first n.
HashAfter(tenant, n) ==
    LET own == {i \in 1 .. n : trail[i].tenant = tenant} IN IF own = {} THEN 0 ELSE trail[Max(own)].hash

\* Every event of the tenant holds the hash of the one before it among the tenant's.
VerifyTenantChain(tenant) ==
    \A i \in DOMAIN trail : trail[i].tenant = tenant => trail[i].prev = HashAfter(tenant, i - 1)

GetRecentEvents(c) == Operation(c, store, TenantsOf({e \in ToSet(trail) : Visible(c, e)}))

\* The capability and the permission that stand for the same thing.
SamePower ==
    {<<"trigger_scans", "scans:trigger">>, <<"triage_findings", "findings:suppress">>,
     <<"propose_remediation", "remediation:propose">>, <<"approve_remediation", "remediation:approve">>,
     <<"manage_policies", "policy:create">>, <<"manage_users", "users:manage">>,
     <<"read_compliance_audit", "compliance:read">>}

\* Two parts of the program decide on the same question, each by its own table.
Decide ==
    /\ \E role \in Spellings, pair \in SamePower :
          decision' = [asked |-> TRUE, role |-> role,
                       capability |-> EvaluateCapability(role, pair[1], FALSE, FALSE),
                       permission |-> HasPermission(role, pair[2])]
    /\ UNCHANGED <<store, trail, heads, last, ops>>

AccessNext ==
    \E c \in Callers :
        \/ Find(c) \/ ListObjects(c) \/ Enqueue(c) \/ ExecuteWorker(c) \/ GetJobs(c) \/ Export(c)
        \/ LogEvent(c) \/ GetRecentEvents(c)
        \/ \E named \in DOMAIN Beginning : ValidateRequest(c, named)
        \/ \E id \in Names :
            \/ Insert(c, id) \/ FindByIdOrUpdate(c, id) \/ DeleteRow(c, id)
            \/ PutObject(c, id) \/ GetObject(c, id) \/ DeleteObject(c, id)
            \/ SetCache(c, id) \/ GetCache(c, id) \/ DropCache(c, id)
            \/ Publish(c, id) \/ Consume(c, id)
            \/ Register(c, id) \/ VerifyObjectAuthorization(c, id)
            \/ \E permission \in {"scans:read", "scans:delete"} : VerifyAuthorization(c, id, permission)

AccessSpec == AccessInit /\ [][AccessNext \/ Decide]_accessVars

-------------------------------------------------------------------------------
\* Whatever the tenants stored before, under the same names or not: an operation shows
\* or changes data of the caller's tenant alone, unless one of the two readings of his
\* role makes him an administrator of the platform.
DataStaysApart ==
    last # Quiet =>
        \/ last.tenants \subseteq {last.caller.tenant}
        \/ PlatformContext(last.caller) \/ PlatformRole(last.caller)

\* However the events of the tenants mix, every tenant's own chain verifies.
EveryTenantsChainVerifies == \A c \in Callers : VerifyTenantChain(c.tenant)

\* The two tables that are kept by hand never grant by a capability what the permissions
\* refuse, however the role is spelled; for the canonical names they agree.
TheTwoTablesAgree ==
    decision.asked =>
        /\ decision.capability => decision.permission
        /\ decision.role \in {"platform administrator", "security administrator", "analyst", "developer",
                              "auditor", "viewer"} =>
              (decision.permission => decision.capability)

\* What a caller sees and changes is his tenant's, in the stores and in the audit trail,
\* and both tables of roles give him the same power.
TenantsStayApart == DataStaysApart /\ EveryTenantsChainVerifies /\ TheTwoTablesAgree

===============================================================================
