--------------------------- MODULE RBACGenerator ----------------------------
(***************************************************************************)
(* pkg/rbac: the rules of the operator's ClusterRole, derived from the     *)
(* documents of the catalog.  AllRules collects the rules of the roles the *)
(* operator hands out, then walks the active documents, then the           *)
(* tombstones; one action per document, in any order, for the walk follows *)
(* file names.  StaticRules do not depend on the catalog and are left out. *)
(***************************************************************************)
EXTENDS FiniteSets, Integers, Sequences, Functions

CONSTANTS APIs,            \* apiVersions, group and version
          GroupOf,         \* the group of each
          Kinds,
          SensitiveKinds,  \* their objects are granted by name
          RoleKinds,       \* ClusterRole and Role
          Plural,          \* the resource name of each kind
          Names,
          NoName,          \* the name is a template, known only once rendered
          Rendered,        \* what such a name becomes
          Catalogs         \* pairs of sets of documents

\* Whether the objects of a sensitive kind have literal names is the same for all
\* documents of the kind.
NamedAlike(d, e) ==
    d.kind \in SensitiveKinds /\ Plural[d.kind] = Plural[e.kind] /\ GroupOf[d.api] = GroupOf[e.api]
      => (d.name = NoName <=> e.name = NoName)

PolicyRules == [groups : SUBSET {GroupOf[a] : a \in APIs}, resources : SUBSET {Plural[k] : k \in Kinds},
                names : SUBSET (Names \cup {Rendered}), verbs : SUBSET STRING]

IsDocument(d) ==
    /\ d.api \in APIs /\ d.kind \in Kinds /\ d.name \in Names \cup {NoName}
    /\ \A r \in d.rules : r \in PolicyRules

ASSUME RBACAssumption ==
    /\ DOMAIN GroupOf = APIs /\ DOMAIN Plural = Kinds
    /\ \A k, l \in Kinds : Plural[k] = Plural[l] => k = l
    /\ SensitiveKinds \subseteq Kinds /\ RoleKinds \subseteq Kinds
    /\ NoName \notin Names /\ Rendered \notin Names
    /\ \A c \in Catalogs : \A d, e \in c.active \cup c.tombstones : IsDocument(d) /\ NamedAlike(d, e)

VARIABLES catalog,     \* the documents: [active, tombstones]
          walked,      \* those that were processed, and whether the roles were
          seen,        \* deduplication keys
          resources,   \* []Resource: [api, kind, name, needsDelete]
          collected    \* policy rules of the roles

rbacVars == <<catalog, walked, seen, resources, collected>>

-----------------------------------------------------------------------------
(* TransitiveRules *)

CollectRoles ==
    /\ ~walked.roles /\ walked' = [walked EXCEPT !.roles = TRUE]
    /\ collected' = UNION {d.rules : d \in {e \in catalog.active : e.kind \in RoleKinds}}
    /\ UNCHANGED <<catalog, seen, resources>>

\* One rule per group and set of names, with all their resources and verbs.
MergeTransitiveRules(rules) ==
    LET Merged(g, ns) == LET same == {r \in rules : g \in r.groups /\ r.names = ns} IN
            [groups |-> {g}, names |-> ns,
             resources |-> UNION {r.resources : r \in same}, verbs |-> UNION {r.verbs : r \in same}]
    IN  UNION {{Merged(g, r.names) : g \in r.groups} : r \in rules}

-----------------------------------------------------------------------------
(* extractResources *)

ByName(d) == d.kind \in SensitiveKinds /\ d.name # NoName

DeduplicationKey(d) == <<d.api, d.kind, IF ByName(d) THEN d.name ELSE NoName>>

Matches(r, d) == r.api = d.api /\ r.kind = d.kind /\ (ByName(d) => r.name = d.name)

\* The first resource that matches is marked.
UpgradeNeedsDelete(d) ==
    LET hits  == {i \in DOMAIN resources : Matches(resources[i], d)}
        first == CHOOSE i \in hits : \A j \in hits : i <= j
    IN  IF hits = {} THEN resources ELSE [resources EXCEPT ![first].needsDelete = TRUE]

\* A tombstone of something that was seen before adds nothing.
ProcessDocument_NoUpgrade(d, needsDelete) ==
    /\ seen' = seen \cup {DeduplicationKey(d)}
    /\ resources' =
         IF DeduplicationKey(d) \notin seen
         THEN Append(resources, [api |-> d.api, kind |-> d.kind, name |-> d.name, needsDelete |-> needsDelete])
         ELSE resources

\* processAssetFile, for one document.
ProcessDocument(d, needsDelete) ==
    /\ seen' = seen \cup {DeduplicationKey(d)}
    /\ resources' =
         CASE DeduplicationKey(d) \notin seen ->
                Append(resources, [api |-> d.api, kind |-> d.kind, name |-> d.name, needsDelete |-> needsDelete])
           [] DeduplicationKey(d) \in seen /\ needsDelete -> UpgradeNeedsDelete(d)
           [] OTHER -> resources

ScanActive(d) ==
    /\ walked.roles /\ d \in catalog.active \ walked.active
    /\ ProcessDocument(d, FALSE) /\ walked' = [walked EXCEPT !.active = @ \cup {d}]
    /\ UNCHANGED <<catalog, collected>>

ScanTombstone(d) ==
    /\ walked.roles /\ walked.active = catalog.active
    /\ d \in catalog.tombstones \ walked.tombstones
    /\ ProcessDocument(d, TRUE) /\ walked' = [walked EXCEPT !.tombstones = @ \cup {d}]
    /\ UNCHANGED <<catalog, collected>>

RBACInit(c) ==
    /\ catalog = c /\ walked = [roles |-> FALSE, active |-> {}, tombstones |-> {}]
    /\ seen = {} /\ resources = <<>> /\ collected = {}

RBACStep ==
    \/ CollectRoles
    \/ \E d \in catalog.active : ScanActive(d)
    \/ \E d \in catalog.tombstones : ScanTombstone(d)

Generated == walked.roles /\ walked.active = catalog.active /\ walked.tombstones = catalog.tombstones

-----------------------------------------------------------------------------
(* generateDynamicRules *)

Management == {"create", "get", "list", "patch", "update", "watch"}

ManagementVerbs(needsDelete) == Management \cup IF needsDelete THEN {"delete"} ELSE {}

Rule(g, rs, ns, vs) == [groups |-> {g}, resources |-> rs, names |-> ns, verbs |-> vs]

\* All verbs are granted for the kind.
ScopedSensitiveRules_Unscoped(g, resource, ns, needsDelete) ==
    {Rule(g, {resource}, {}, ManagementVerbs(needsDelete))}

\* create, list and watch cannot be granted by name.
ScopedSensitiveRules(g, resource, ns, needsDelete) ==
    IF ns = {} THEN {Rule(g, {resource}, {}, ManagementVerbs(needsDelete))}
    ELSE {Rule(g, {resource}, {}, {"create", "list", "watch"}),
          Rule(g, {resource}, ns, ManagementVerbs(needsDelete) \ {"create", "list", "watch"})}

\* Resources of a group whose kinds are not sensitive, and those of one that is.
Ordinary(g)     == {r \in Range(resources) : GroupOf[r.api] = g /\ r.kind \notin SensitiveKinds}
Sensitive(g, p) == {r \in Range(resources) : GroupOf[r.api] = g /\ r.kind \in SensitiveKinds /\ Plural[r.kind] = p}

AnyDelete(rs) == \E r \in rs : r.needsDelete

\* One rule for all ordinary resources of a group; sensitive ones have their own.
OrdinaryRule(g) == Rule(g, {Plural[r.kind] : r \in Ordinary(g)}, {}, ManagementVerbs(AnyDelete(Ordinary(g))))

SensitiveRules(g, p) ==
    ScopedSensitiveRules(g, p, {r.name : r \in Sensitive(g, p)} \ {NoName}, AnyDelete(Sensitive(g, p)))

DynamicRules ==
    {OrdinaryRule(GroupOf[r.api]) : r \in {x \in Range(resources) : x.kind \notin SensitiveKinds}}
      \cup UNION {SensitiveRules(GroupOf[r.api], Plural[r.kind]) :
                    r \in {x \in Range(resources) : x.kind \in SensitiveKinds}}

AllRules == MergeTransitiveRules(collected) \cup DynamicRules

-----------------------------------------------------------------------------
(* Properties *)

\* The API server's check of a request.
Allows(rules, g, resource, name, verb) ==
    \E r \in rules : /\ g \in r.groups /\ resource \in r.resources /\ verb \in r.verbs
                     /\ r.names = {} \/ (name \in r.names /\ verb \notin {"create", "list", "watch"})

ActualName(d) == IF d.name = NoName THEN Rendered ELSE d.name

Permits(rules, d, verbs) ==
    \A v \in verbs : Allows(rules, GroupOf[d.api], Plural[d.kind], ActualName(d), v)

RequestsAllowed ==
    /\ \A d \in catalog.active : Permits(DynamicRules, d, Management)
    /\ \A d \in catalog.tombstones : Permits(DynamicRules, d, {"get", "delete"})

GrantsHeld ==
    \A d \in {e \in catalog.active : e.kind \in RoleKinds} : \A r \in d.rules :
      \A g \in r.groups, p \in r.resources, v \in r.verbs :
        \A n \in IF r.names = {} THEN {NoName} ELSE r.names :
          \E s \in AllRules : /\ g \in s.groups /\ p \in s.resources /\ v \in s.verbs
                              /\ s.names = {} \/ n \in s.names

\* The operator may do all it does with an object of the catalog, watch and apply
\* active ones, read and delete tombstoned ones, in whatever order the files were
\* walked and whichever of them share a kind or an object; and it holds every
\* permission of every role it creates, or the API server would refuse the role
\* (rbac.go 195-324, 471-542).
PermissionsSuffice == Generated => RequestsAllowed /\ GrantsHeld

\* The rules for a sensitive kind whose objects have names let the operator write
\* only objects of these names, and delete only if one of them is tombstoned
\* (rbac.go 567-598).
SensitiveWritesAreScoped ==
    \A d \in {e \in catalog.active \cup catalog.tombstones : ByName(e)} :
      \A n \in Names \cup {Rendered}, v \in {"patch", "update", "delete"} :
        LET same == {e \in catalog.active \cup catalog.tombstones :
                       GroupOf[e.api] = GroupOf[d.api] /\ e.kind = d.kind}
        IN  Allows(DynamicRules, GroupOf[d.api], Plural[d.kind], n, v) =>
              /\ n \in {e.name : e \in same}
              /\ v = "delete" => catalog.tombstones \cap same # {}
=============================================================================
