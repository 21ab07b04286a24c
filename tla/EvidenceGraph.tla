----------------------------- MODULE EvidenceGraph -----------------------------
(***************************************************************************)
(* The graph of cryptographic assets that evidence of every scanner is     *)
(* correlated into (domain/correlation_engine.py, domain/identity.py,      *)
(* domain/canonical_model.py).                                             *)
(*                                                                         *)
(* A piece of evidence is a record [origin, type, name, locator, tenant,   *)
(* app, size, mode, fingerprint, at, legal]; "none" (for size, 0) is what  *)
(* it does not tell.  "at" is the process or the endpoint it was seen at.  *)
(***************************************************************************)
EXTENDS Integers, FiniteSets

CONSTANTS
    Evidence,       \* what scanners may deliver, in any order and more than once
    Near,           \* pairs of locators of which one is part of the other
    Tenant,         \* the tenant of the engine
    Actors          \* who asks: [tenant, roles]

VARIABLES
    graph,          \* CorrelationEngine and its inventory
    asked           \* the last entry of its audit log

graphVars == <<graph, asked>>

GraphInit ==
    /\ graph = [entities |-> <<>>, byLocator |-> <<>>, byFingerprint |-> <<>>, relationships |-> {}]
    /\ asked = [actor |-> "none"]

\* The hash of the descriptor is injective.  All attributes are part of it, the process or
\* host among them; a fingerprint is not.
GenerateAssetId(e) == <<e.tenant, e.app, e.type, e.origin, e.locator, e.name, e.size, e.mode, e.at>>

AssetId(e) == GenerateAssetId(e)

Indexed(index, key, id) ==
    IF key = "none" THEN index
    ELSE [k \in DOMAIN index \cup {key} |-> IF k = key THEN id ELSE index[k]]

\* An entity of the same identity is replaced, and what was correlated with it is gone.
IngestEntity(g, e) ==
    LET id == AssetId(e)
        entity == [made |-> e, backing |-> {}]
    IN  [g EXCEPT
            !.entities = [i \in DOMAIN @ \cup {id} |-> IF i = id THEN entity ELSE @[i]],
            !.byLocator = Indexed(@, e.locator, id),
            !.byFingerprint = Indexed(@, e.fingerprint, id)]

(***************************************************************************)
(* Which entity the evidence is about.  A fingerprint decides alone,       *)
(* whatever the types; a locator decides when the entity it names last is  *)
(* of the evidence's type; else what is known in common is scored.         *)
(***************************************************************************)
FingerprintMatch(e) == IF e.fingerprint \in DOMAIN graph.byFingerprint THEN {graph.byFingerprint[e.fingerprint]} ELSE {}

\* Mutation: the type of the entity at the locator is not looked at.
AnyLocatorMatch(e) == IF e.locator \in DOMAIN graph.byLocator THEN {graph.byLocator[e.locator]} ELSE {}

LocatorMatch(e) ==
    IF e.locator \in DOMAIN graph.byLocator
      THEN {id \in {graph.byLocator[e.locator]} : graph.entities[id].made.type = e.type}
      ELSE {}

Score(e, c) ==
    (IF e.size # 0 /\ e.size = c.size THEN 30 ELSE 0)
        + (IF e.mode # "none" /\ e.mode = c.mode THEN 25 ELSE 0)
        + (IF e.app # "default" /\ e.app = c.app THEN 25 ELSE 0)
        + (IF e.locator = c.locator \/ {e.locator, c.locator} \in Near THEN 20 ELSE 0)

Contradicts(e, c) == e.size # 0 /\ c.size # 0 /\ e.size # c.size

Candidates(e) ==
    {id \in DOMAIN graph.entities :
        LET c == graph.entities[id].made IN
        /\ c.name = e.name
        /\ c.type = e.type
        /\ ~Contradicts(e, c)
        /\ Score(e, c) >= 65}

\* Of several that score best, any may come first.
ContextualMatch(e) ==
    {id \in Candidates(e) :
        \A other \in Candidates(e) : Score(e, graph.entities[other].made) <= Score(e, graph.entities[id].made)}

\* Runtime evidence of an algorithm and network evidence of a certificate tell who
\* uses it; neither the process nor the endpoint is an entity of its own.
InferredRelationships(e, id, type) ==
    IF e.at = "none" THEN {}
    ELSE IF e.origin = "runtime" /\ type = "algorithm" THEN {[from |-> <<e.app, e.at>>, to |-> id, kind |-> "uses"]}
    ELSE IF e.origin = "network" /\ type = "certificate" THEN {[from |-> id, to |-> <<e.app, e.at>>, kind |-> "protects"]}
    ELSE {}

Correlated(g, e, id, why) ==
    [g EXCEPT !.entities[id].backing = @ \cup {[evidence |-> e, why |-> why]},
              !.relationships = @ \cup InferredRelationships(e, id, g.entities[id].made.type)]

CorrelateEvidence ==
    /\ \E e \in Evidence, create \in BOOLEAN :
        /\ e.tenant = Tenant
        /\ \/ \E id \in FingerprintMatch(e) : graph' = Correlated(graph, e, id, "fingerprint")
           \/ /\ FingerprintMatch(e) = {}
              /\ \E id \in LocatorMatch(e) : graph' = Correlated(graph, e, id, "locator")
           \/ /\ FingerprintMatch(e) \cup LocatorMatch(e) = {}
              /\ \E id \in ContextualMatch(e) : graph' = Correlated(graph, e, id, "context")
           \/ /\ FingerprintMatch(e) \cup LocatorMatch(e) \cup ContextualMatch(e) = {}
              /\ create
              /\ e.legal
              /\ graph' = [IngestEntity(graph, e) EXCEPT
                              !.relationships = @ \cup InferredRelationships(e, AssetId(e), e.type)]
    /\ UNCHANGED asked

ExecuteAuthorizedQuery ==
    /\ \E a \in Actors, sensitive \in BOOLEAN :
          asked' = [actor |-> a, sensitive |-> sensitive, authorized |->
                        /\ a.tenant = Tenant
                        /\ sensitive => a.roles \cap {"security_analyst", "admin", "auditor"} # {}]
    /\ UNCHANGED graph

GraphSpec == GraphInit /\ [][CorrelateEvidence \/ ExecuteAuthorizedQuery]_graphVars

-------------------------------------------------------------------------------
\* In whatever order evidence arrives: what is merged into an entity for its locator has
\* that locator and its type (any name and key size, see EntitiesAreOfOneThing), and what
\* is merged for what is known in common has its name and type and no other key size;
\* what is told of a process or an endpoint is told of an entity of the right type.
MergesAreJustified ==
    /\ \A id \in DOMAIN graph.entities :
          LET c == graph.entities[id].made IN
          \A b \in graph.entities[id].backing :
              /\ b.why # "fingerprint" => b.evidence.type = c.type
              /\ b.why = "locator" => b.evidence.locator = c.locator
              /\ b.why = "context" => b.evidence.name = c.name /\ ~Contradicts(b.evidence, c)
    /\ \A r \in graph.relationships :
          IF r.kind = "uses" THEN graph.entities[r.to].made.type = "algorithm"
          ELSE graph.entities[r.from].made.type = "certificate"

\* However often evidence is delivered again and whatever comes in between: no two
\* entities were made of the same evidence, share a fingerprint, or have so much in
\* common that evidence of one would be merged into the other.
NothingIsTwice ==
    \A id, other \in DOMAIN graph.entities :
        LET c == graph.entities[id].made
            d == graph.entities[other].made
        IN  id # other =>
            /\ c # d
            /\ c.fingerprint # "none" => c.fingerprint # d.fingerprint
            /\ c.name = d.name /\ c.type = d.type /\ ~Contradicts(c, d) => Score(c, d) < 65

\* No evidence is behind an entity that none of the three rules gives it to, and no two
\* entities are alike enough for a rule to merge them.
EntitiesAreDistinct == MergesAreJustified /\ NothingIsTwice

\* An exact locator is one of path and symbol, and conflicting key sizes strictly reject a
\* merge (the words of domain/correlation_engine.py:18 and 309): what is behind an entity
\* has its name, no other key size and no other fingerprint.
EntitiesAreOfOneThing ==
    \A id \in DOMAIN graph.entities : \A b \in graph.entities[id].backing :
        LET c == graph.entities[id].made IN
        /\ b.evidence.name = c.name
        /\ ~Contradicts(b.evidence, c)
        /\ b.evidence.fingerprint \in {c.fingerprint, "none"} \/ c.fingerprint = "none"

===============================================================================
