--------------------------- MODULE CatalogProofs ----------------------------
(***************************************************************************)
(* Proofs about what is computed from the catalog, for every catalog and   *)
(* every list.  Each rests on an invariant that says what a loop has       *)
(* reached after any part of its list, in whatever order it was taken.     *)
(***************************************************************************)
EXTENDS Catalog, InductionProofs

-----------------------------------------------------------------------------
(* The generator of the operator's ClusterRole, for every catalog whose      *)
(* sensitive objects are named alike.  After any part of the walk the        *)
(* resources stand for the documents walked, one per key, and those of       *)
(* tombstones are marked for deletion.                                       *)

AllDocuments == catalog.active \cup catalog.tombstones
Walked       == walked.active \cup walked.tombstones
ResourceType == [api : APIs, kind : Kinds, name : Names \cup {NoName}, needsDelete : BOOLEAN]

SameKind(r, d) == r.api = d.api /\ r.kind = d.kind

WalkOK ==
    /\ catalog \in Catalogs \cup {NoDocuments}
    /\ walked \in [roles : BOOLEAN, active : SUBSET catalog.active, tombstones : SUBSET catalog.tombstones]

RolesOK ==
    /\ walked.roles => collected = UNION {d.rules : d \in {e \in catalog.active : e.kind \in RoleKinds}}
    /\ ~walked.roles => collected = {}

ResourcesOK ==
    /\ resources \in Seq(ResourceType)
    /\ seen = {DeduplicationKey(d) : d \in Walked}
    /\ \A i, j \in DOMAIN resources :
         DeduplicationKey(resources[i]) = DeduplicationKey(resources[j]) => i = j
    /\ \A d \in Walked : \E i \in DOMAIN resources : Matches(resources[i], d)
    /\ \A d \in walked.tombstones : \E i \in DOMAIN resources : Matches(resources[i], d) /\ resources[i].needsDelete
    /\ \A i \in DOMAIN resources : \E d \in Walked : SameKind(resources[i], d) /\ resources[i].name = d.name
    /\ \A i \in DOMAIN resources : resources[i].needsDelete => \E d \in walked.tombstones : SameKind(resources[i], d)

RBACInv == WalkOK /\ RolesOK /\ ResourcesOK

LEMMA Documents ==
    ASSUME WalkOK, NEW d \in AllDocuments, NEW e \in AllDocuments
    PROVE  IsDocument(d) /\ NamedAlike(d, e)
  BY RBACAssumption DEF WalkOK, AllDocuments, NoDocuments

\* What was seen before has a resource, and only one.
LEMMA SeenHasResource ==
    ASSUME WalkOK, ResourcesOK, NEW d \in AllDocuments, DeduplicationKey(d) \in seen
    PROVE  \E i \in DOMAIN resources :
             Matches(resources[i], d) /\ \A j \in DOMAIN resources : Matches(resources[j], d) => j = i
<1>1. PICK e \in Walked : DeduplicationKey(d) = DeduplicationKey(e)
  BY DEF ResourcesOK
<1>2. Walked \subseteq AllDocuments
  BY DEF WalkOK, Walked, AllDocuments
<1>3. IsDocument(d) /\ IsDocument(e)
  BY <1>2, Documents
<1>4. d.api = e.api /\ d.kind = e.kind /\ (ByName(d) <=> ByName(e)) /\ (ByName(d) => d.name = e.name)
  BY <1>1, <1>3 DEF DeduplicationKey, ByName, IsDocument
<1>5. PICK i \in DOMAIN resources : Matches(resources[i], e)
  BY DEF ResourcesOK
<1>6. Matches(resources[i], d)
  BY <1>4, <1>5 DEF Matches
<1>7. ASSUME NEW j \in DOMAIN resources, Matches(resources[j], d) PROVE j = i
  <2>1. PICK f \in Walked : SameKind(resources[i], f) /\ resources[i].name = f.name
    BY DEF ResourcesOK
  <2>2. PICK g \in Walked : SameKind(resources[j], g) /\ resources[j].name = g.name
    BY DEF ResourcesOK
  <2>3. f.kind = d.kind /\ f.api = d.api /\ g.kind = d.kind /\ g.api = d.api
    BY <1>6, <1>7, <2>1, <2>2 DEF Matches, SameKind
  <2>4. NamedAlike(d, f) /\ NamedAlike(d, g)
    BY <1>2, Documents
  <2>5. resources[i].api = resources[j].api /\ resources[i].kind = resources[j].kind /\ resources[i].kind = d.kind
    BY <1>6, <1>7 DEF Matches
  <2>6. d.kind \in SensitiveKinds => resources[i].name = resources[j].name
    <3>1. CASE d.kind \in SensitiveKinds /\ d.name = NoName
      BY <2>1, <2>2, <2>3, <2>4, <3>1 DEF NamedAlike
    <3>2. CASE ByName(d)
      BY <1>6, <1>7, <3>2 DEF Matches
    <3> QED
      BY <3>1, <3>2 DEF ByName
  <2>7. DeduplicationKey(resources[i]) = DeduplicationKey(resources[j])
    BY <2>5, <2>6 DEF DeduplicationKey, ByName
  <2> QED
    BY <2>7 DEF ResourcesOK
<1> QED
  BY <1>6, <1>7

\* One document more.
LEMMA ProcessKeeps ==
    ASSUME WalkOK, ResourcesOK, NEW d \in AllDocuments, NEW nd \in BOOLEAN, ProcessDocument(d, nd),
           Walked' = Walked \cup {d},
           walked.tombstones' = walked.tombstones \cup (IF nd THEN {d} ELSE {})
    PROVE  ResourcesOK'
<1> DEFINE key == DeduplicationKey(d)
           new == [api |-> d.api, kind |-> d.kind, name |-> d.name, needsDelete |-> nd]
<1>1. seen' = seen \cup {key} /\ seen' = {DeduplicationKey(e) : e \in Walked'}
  BY DEF ProcessDocument, ResourcesOK
<1>2. IsDocument(d)
  BY Documents
<1>3. resources \in Seq(ResourceType)
  BY DEF ResourcesOK
<1>4. CASE key \notin seen
  <2>1. resources' = Append(resources, new) /\ new \in ResourceType
    BY <1>2, <1>4 DEF ProcessDocument, ResourceType, IsDocument
  <2>2. /\ resources' \in Seq(ResourceType) /\ Len(resources') = Len(resources) + 1
        /\ DOMAIN resources' = DOMAIN resources \cup {Len(resources) + 1}
        /\ \A i \in DOMAIN resources : resources'[i] = resources[i] /\ i # Len(resources) + 1
        /\ resources'[Len(resources) + 1] = new
    BY <1>3, <2>1
  <2> DEFINE n == Len(resources) + 1
  <2>3. DeduplicationKey(new) = key
    BY DEF DeduplicationKey, ByName
  <2>4. \A i \in DOMAIN resources : DeduplicationKey(resources[i]) \in seen
    <3>1. SUFFICES ASSUME NEW i \in DOMAIN resources PROVE DeduplicationKey(resources[i]) \in seen
      OBVIOUS
    <3>2. PICK e \in Walked : SameKind(resources[i], e) /\ resources[i].name = e.name
      BY DEF ResourcesOK
    <3>3. DeduplicationKey(resources[i]) = DeduplicationKey(e)
      BY <3>2 DEF DeduplicationKey, SameKind, ByName
    <3> QED
      BY <3>3 DEF ResourcesOK
  <2> HIDE DEF new, key, n
  <2>5. \A i, j \in DOMAIN resources' : DeduplicationKey(resources'[i]) = DeduplicationKey(resources'[j]) => i = j
    <3>1. \A i \in DOMAIN resources : DeduplicationKey(resources'[i]) = DeduplicationKey(resources[i])
      BY <2>2
    <3>2. \A i \in DOMAIN resources : DeduplicationKey(resources'[i]) # key
      BY <1>4, <2>4, <3>1
    <3>3. DeduplicationKey(resources'[n]) = key
      BY <2>2, <2>3 DEF n
    <3>4. \A i \in DOMAIN resources' : i = n \/ i \in DOMAIN resources
      BY <2>2 DEF n
    <3>5. \A i, j \in DOMAIN resources : DeduplicationKey(resources'[i]) = DeduplicationKey(resources'[j]) => i = j
      BY <3>1 DEF ResourcesOK
    <3> QED
      BY <3>2, <3>3, <3>4, <3>5
  <2>6. SameKind(new, d) /\ new.name = d.name /\ new.needsDelete = nd /\ Matches(new, d)
    BY DEF new, SameKind, Matches
  <2>7. \A e \in Walked' : \E i \in DOMAIN resources' : Matches(resources'[i], e)
    BY <2>2, <2>6 DEF ResourcesOK
  <2>8. \A e \in walked.tombstones' : \E i \in DOMAIN resources' : Matches(resources'[i], e) /\ resources'[i].needsDelete
    BY <2>2, <2>6 DEF ResourcesOK
  <2>9. \A i \in DOMAIN resources' : \E e \in Walked' : SameKind(resources'[i], e) /\ resources'[i].name = e.name
    BY <2>2, <2>6 DEF ResourcesOK
  <2>10. \A i \in DOMAIN resources' : resources'[i].needsDelete => \E e \in walked.tombstones' : SameKind(resources'[i], e)
    BY <2>2, <2>6 DEF ResourcesOK
  <2> QED
    BY <1>1, <2>2, <2>5, <2>7, <2>8, <2>9, <2>10 DEF ResourcesOK
<1>5. CASE key \in seen /\ ~nd
  <2>1. resources' = resources
    BY <1>5 DEF ProcessDocument
  <2>2. \E i \in DOMAIN resources : Matches(resources[i], d)
    BY <1>5, SeenHasResource
  <2> QED
    BY <1>1, <1>5, <2>1, <2>2 DEF ResourcesOK
<1>6. CASE key \in seen /\ nd
  <2>1. PICK h \in DOMAIN resources :
          Matches(resources[h], d) /\ \A j \in DOMAIN resources : Matches(resources[j], d) => j = h
    BY <1>6, SeenHasResource
  <2>2. UpgradeNeedsDelete(d) = [resources EXCEPT ![h].needsDelete = TRUE]
    <3> DEFINE hits == {i \in DOMAIN resources : Matches(resources[i], d)}
               first == CHOOSE i \in hits : \A j \in hits : i <= j
    <3>1. hits = {h}
      BY <2>1
    <3>2. h \in Nat
      BY <1>3
    <3>3. first = h
      BY <3>1, <3>2
    <3> HIDE DEF hits, first
    <3>4. UpgradeNeedsDelete(d) = IF hits = {} THEN resources ELSE [resources EXCEPT ![first].needsDelete = TRUE]
      BY DEF UpgradeNeedsDelete, hits, first
    <3> QED
      BY <3>1, <3>3, <3>4
  <2>3. resources' = [resources EXCEPT ![h].needsDelete = TRUE]
    BY <1>6, <2>2 DEF ProcessDocument
  <2> DEFINE marked == [resources[h] EXCEPT !.needsDelete = TRUE]
  <2>4. resources[h] \in ResourceType /\ DOMAIN resources = 1..Len(resources)
    BY <1>3, <2>1
  <2>5. /\ marked \in ResourceType /\ marked.needsDelete = TRUE
        /\ marked.api = resources[h].api /\ marked.kind = resources[h].kind /\ marked.name = resources[h].name
    BY <2>4 DEF ResourceType
  <2>6. resources' = [resources EXCEPT ![h] = marked]
    BY <2>3
  <2> HIDE DEF marked
  <2>7. /\ DOMAIN resources' = DOMAIN resources
        /\ \A i \in DOMAIN resources : i # h => resources'[i] = resources[i]
        /\ resources'[h] = marked
    BY <2>1, <2>6, <2>4
  <2>8. /\ DOMAIN resources' = DOMAIN resources
        /\ \A i \in DOMAIN resources : /\ resources'[i].api = resources[i].api /\ resources'[i].kind = resources[i].kind
                                       /\ resources'[i].name = resources[i].name
                                       /\ i # h => resources'[i] = resources[i]
        /\ resources'[h].needsDelete = TRUE
    <3>1. \A i \in DOMAIN resources :
            /\ resources'[i].api = resources[i].api /\ resources'[i].kind = resources[i].kind
            /\ resources'[i].name = resources[i].name
      BY <2>5, <2>7
    <3>2. resources'[h].needsDelete = TRUE
      BY <2>5, <2>7, Zenon
    <3> QED
      BY <2>7, <3>1, <3>2, Zenon
  <2>9. resources' \in Seq(ResourceType)
    BY <1>3, <2>1, <2>5, <2>6
  <2>10. \A i \in DOMAIN resources : DeduplicationKey(resources'[i]) = DeduplicationKey(resources[i])
    BY <2>8 DEF DeduplicationKey, ByName
  <2>11. \A i \in DOMAIN resources : \A e : Matches(resources'[i], e) <=> Matches(resources[i], e)
    BY <2>8 DEF Matches
  <2>12. \A i \in DOMAIN resources : \A e : SameKind(resources'[i], e) <=> SameKind(resources[i], e)
    BY <2>8 DEF SameKind
  <2>13. \A i, j \in DOMAIN resources' : DeduplicationKey(resources'[i]) = DeduplicationKey(resources'[j]) => i = j
    BY <2>8, <2>10 DEF ResourcesOK
  <2>14. \A e \in Walked' : \E i \in DOMAIN resources' : Matches(resources'[i], e)
    BY <2>1, <2>8, <2>11 DEF ResourcesOK
  <2>15. \A e \in walked.tombstones' : \E i \in DOMAIN resources' : Matches(resources'[i], e) /\ resources'[i].needsDelete
    <3>1. SUFFICES ASSUME NEW e \in walked.tombstones'
                   PROVE  \E i \in DOMAIN resources' : Matches(resources'[i], e) /\ resources'[i].needsDelete
      OBVIOUS
    <3>2. CASE e = d
      BY <2>1, <2>8, <2>11, <3>2
    <3>3. CASE e \in walked.tombstones
      <4>1. PICK i \in DOMAIN resources : Matches(resources[i], e) /\ resources[i].needsDelete
        BY <3>3 DEF ResourcesOK
      <4>2. resources'[i].needsDelete
        BY <2>8, <4>1
      <4> QED
        BY <2>8, <2>11, <4>1, <4>2
    <3> QED
      BY <3>1, <3>2, <3>3
  <2>16. \A i \in DOMAIN resources' : \E e \in Walked' : SameKind(resources'[i], e) /\ resources'[i].name = e.name
    BY <2>8, <2>12 DEF ResourcesOK
  <2>17. d \in walked.tombstones' /\ SameKind(resources[h], d)
    BY <1>6, <2>1 DEF Matches, SameKind
  <2>18. \A i \in DOMAIN resources' : resources'[i].needsDelete => \E e \in walked.tombstones' : SameKind(resources'[i], e)
    BY <2>8, <2>12, <2>17 DEF ResourcesOK
  <2> QED
    BY <1>1, <2>9, <2>13, <2>14, <2>15, <2>16, <2>18 DEF ResourcesOK
<1> QED
  BY <1>4, <1>5, <1>6

LEMMA RBACInvariant == Spec => []RBACInv
<1>1. Init => RBACInv
  <2> SUFFICES ASSUME NEW c \in Catalogs \cup {NoDocuments}, RBACInit(c) PROVE RBACInv
    BY DEF Init
  <2>1. WalkOK /\ RolesOK
    BY DEF RBACInit, WalkOK, RolesOK
  <2>2. resources = <<>> /\ DOMAIN resources = {} /\ Walked = {} /\ walked.tombstones = {} /\ seen = {}
    BY DEF RBACInit, Walked
  <2>3. resources \in Seq(ResourceType)
    BY <2>2
  <2> QED
    BY <2>1, <2>2, <2>3 DEF RBACInv, ResourcesOK
<1>2. RBACInv /\ [Next]_vars => RBACInv'
  <2> SUFFICES ASSUME RBACInv, [Next]_vars PROVE RBACInv'
    OBVIOUS
  <2> USE DEF RBACInv
  <2>1. CASE UNCHANGED rbacVars
    BY <2>1 DEF rbacVars, WalkOK, RolesOK, ResourcesOK, Walked
  <2>2. CASE CollectRoles
    <3>1. /\ walked' = [walked EXCEPT !.roles = TRUE] /\ UNCHANGED <<catalog, seen, resources>>
          /\ collected' = UNION {d.rules : d \in {e \in catalog.active : e.kind \in RoleKinds}}
      BY <2>2 DEF CollectRoles
    <3>2. walked'.active = walked.active /\ walked'.tombstones = walked.tombstones /\ WalkOK' /\ RolesOK'
      BY <3>1 DEF WalkOK, RolesOK
    <3> QED
      BY <3>1, <3>2 DEF ResourcesOK, Walked
  <2>3. ASSUME NEW d \in catalog.active, ScanActive(d) PROVE RBACInv'
    <3>1. walked' = [walked EXCEPT !.active = @ \cup {d}] /\ ProcessDocument(d, FALSE) /\ UNCHANGED <<catalog, collected>>
      BY <2>3 DEF ScanActive
    <3>2. /\ WalkOK' /\ RolesOK' /\ walked'.active = walked.active \cup {d} /\ walked'.tombstones = walked.tombstones
      BY <3>1 DEF WalkOK, RolesOK
    <3>3. ResourcesOK'
      BY <3>1, <3>2, ProcessKeeps DEF Walked, AllDocuments
    <3> QED
      BY <3>2, <3>3
  <2>4. ASSUME NEW d \in catalog.tombstones, ScanTombstone(d) PROVE RBACInv'
    <3>1. walked' = [walked EXCEPT !.tombstones = @ \cup {d}] /\ ProcessDocument(d, TRUE) /\ UNCHANGED <<catalog, collected>>
      BY <2>4 DEF ScanTombstone
    <3>2. /\ WalkOK' /\ RolesOK' /\ walked'.active = walked.active /\ walked'.tombstones = walked.tombstones \cup {d}
      BY <3>1 DEF WalkOK, RolesOK
    <3>3. ResourcesOK'
      BY <3>1, <3>2, ProcessKeeps DEF Walked, AllDocuments
    <3> QED
      BY <3>2, <3>3
  <2> QED
    BY <2>1, <2>2, <2>3, <2>4 DEF Next, RBACStep, vars, rbacVars
<1> QED
  BY <1>1, <1>2, PTL DEF Spec

\* What the resource of a document is granted.
LEMMA Granted ==
    ASSUME WalkOK, ResourcesOK, NEW d \in Walked, NEW i \in DOMAIN resources, Matches(resources[i], d),
           NEW v \in Management \cup {"delete"}, v = "delete" => resources[i].needsDelete
    PROVE  Allows(DynamicRules, GroupOf[d.api], Plural[d.kind], ActualName(d), v)
<1> DEFINE r == resources[i]
           g == GroupOf[d.api]
           p == Plural[d.kind]
<1>1. r \in Range(resources) /\ r.api = d.api /\ r.kind = d.kind
  BY DEF Matches, Range
<1>2. CASE d.kind \notin SensitiveKinds
  <2>1. OrdinaryRule(g) \in DynamicRules /\ r \in Ordinary(g)
    BY <1>1, <1>2 DEF DynamicRules, Ordinary
  <2>2. v \in ManagementVerbs(AnyDelete(Ordinary(g)))
    BY <2>1 DEF ManagementVerbs, AnyDelete
  <2>3. /\ g \in OrdinaryRule(g).groups /\ p \in OrdinaryRule(g).resources
        /\ v \in OrdinaryRule(g).verbs /\ OrdinaryRule(g).names = {}
    BY <1>1, <2>1, <2>2 DEF OrdinaryRule, Rule
  <2> QED
    BY <2>1, <2>3 DEF Allows
<1>3. CASE d.kind \in SensitiveKinds
  <2> DEFINE ns  == {x.name : x \in Sensitive(g, p)} \ {NoName}
             del == AnyDelete(Sensitive(g, p))
  <2>1. SensitiveRules(g, p) \subseteq DynamicRules /\ r \in Sensitive(g, p)
    BY <1>1, <1>3 DEF DynamicRules, Sensitive
  <2>2. v \in ManagementVerbs(del)
    BY <2>1 DEF ManagementVerbs, AnyDelete
  <2>3. SensitiveRules(g, p) = ScopedSensitiveRules(g, p, ns, del)
    BY DEF SensitiveRules
  <2>4. PICK e \in Walked : SameKind(r, e) /\ r.name = e.name
    BY DEF ResourcesOK
  <2>5. NamedAlike(d, e) /\ IsDocument(d)
    BY Documents DEF WalkOK, Walked, AllDocuments
  <2>6. r.name = NoName <=> d.name = NoName
    BY <1>1, <1>3, <2>4, <2>5 DEF NamedAlike, SameKind
  <2>7. d.name # NoName => r.name = d.name
    BY <1>3 DEF Matches, ByName
  <2>8. CASE ns = {}
    <3>1. Rule(g, {p}, {}, ManagementVerbs(del)) \in DynamicRules
      BY <2>1, <2>3, <2>8 DEF ScopedSensitiveRules
    <3> QED
      BY <2>2, <3>1 DEF Allows, Rule
  <2>9. CASE ns # {}
    <3>1. /\ Rule(g, {p}, {}, {"create", "list", "watch"}) \in DynamicRules
          /\ Rule(g, {p}, ns, ManagementVerbs(del) \ {"create", "list", "watch"}) \in DynamicRules
      BY <2>1, <2>3, <2>9 DEF ScopedSensitiveRules
    <3>2. d.name # NoName
      <4>1. PICK x \in Sensitive(g, p) : x.name # NoName
        BY <2>9
      <4>2. PICK j \in DOMAIN resources : x = resources[j]
        BY <4>1 DEF Sensitive, Range
      <4>3. PICK f \in Walked : SameKind(x, f) /\ x.name = f.name
        BY <4>2 DEF ResourcesOK
      <4>4. NamedAlike(d, f)
        BY Documents DEF WalkOK, Walked, AllDocuments
      <4> QED
        BY <1>3, <4>1, <4>3, <4>4 DEF NamedAlike, Sensitive, SameKind
    <3>3. ActualName(d) = d.name /\ d.name \in ns
      BY <2>1, <2>7, <3>2 DEF ActualName
    <3>4. CASE v \in {"create", "list", "watch"}
      BY <3>1, <3>4 DEF Allows, Rule
    <3>5. CASE v \notin {"create", "list", "watch"}
      BY <2>2, <3>1, <3>3, <3>5 DEF Allows, Rule
    <3> QED
      BY <3>4, <3>5
  <2> QED
    BY <2>8, <2>9
<1> QED
  BY <1>2, <1>3

\* Merging by group and names loses no permission of a role.
LEMMA MergeKeepsGrants ==
    ASSUME NEW rules, NEW r \in rules, NEW g \in r.groups, NEW p \in r.resources, NEW v \in r.verbs
    PROVE  \E s \in MergeTransitiveRules(rules) :
             g \in s.groups /\ p \in s.resources /\ v \in s.verbs /\ s.names = r.names
<1> DEFINE Same(h, ns) == {q \in rules : h \in q.groups /\ q.names = ns}
           Merged(h, ns) == [groups |-> {h}, names |-> ns,
                             resources |-> UNION {q.resources : q \in Same(h, ns)},
                             verbs |-> UNION {q.verbs : q \in Same(h, ns)}]
<1>1. MergeTransitiveRules(rules) = UNION {{Merged(h, q.names) : h \in q.groups} : q \in rules}
  BY DEF MergeTransitiveRules
<1>2. g \in Merged(g, r.names).groups /\ Merged(g, r.names).names = r.names
  OBVIOUS
<1>3. p \in Merged(g, r.names).resources /\ v \in Merged(g, r.names).verbs
  OBVIOUS
<1> HIDE DEF Merged
<1>4. Merged(g, r.names) \in {Merged(h, r.names) : h \in r.groups}
  OBVIOUS
<1>5. Merged(g, r.names) \in MergeTransitiveRules(rules)
  BY <1>1, <1>4
<1> QED
  BY <1>2, <1>3, <1>5

\* For every catalog with sensitive objects named alike, the generated ClusterRole
\* suffices for the requests about its documents and for the roles handed out.
THEOREM PermissionsAlwaysSuffice == Spec => []PermissionsSuffice
<1>1. RBACInv => PermissionsSuffice
  <2> SUFFICES ASSUME RBACInv, Generated PROVE RequestsAllowed /\ GrantsHeld
    BY DEF PermissionsSuffice
  <2> USE DEF RBACInv
  <2>1. \A d \in catalog.active : Permits(DynamicRules, d, Management)
    <3> SUFFICES ASSUME NEW d \in catalog.active, NEW v \in Management
                 PROVE  Allows(DynamicRules, GroupOf[d.api], Plural[d.kind], ActualName(d), v)
      BY DEF Permits
    <3>1. d \in Walked
      BY DEF Generated, Walked
    <3>2. PICK i \in DOMAIN resources : Matches(resources[i], d)
      BY <3>1 DEF ResourcesOK
    <3>3. v # "delete"
      BY DEF Management
    <3> QED
      BY <3>1, <3>2, <3>3, Granted
  <2>2. \A d \in catalog.tombstones : Permits(DynamicRules, d, {"get", "delete"})
    <3> SUFFICES ASSUME NEW d \in catalog.tombstones, NEW v \in {"get", "delete"}
                 PROVE  Allows(DynamicRules, GroupOf[d.api], Plural[d.kind], ActualName(d), v)
      BY DEF Permits
    <3>1. d \in Walked /\ d \in walked.tombstones
      BY DEF Generated, Walked
    <3>2. PICK i \in DOMAIN resources : Matches(resources[i], d) /\ resources[i].needsDelete
      BY <3>1 DEF ResourcesOK
    <3>3. v \in Management \cup {"delete"}
      BY DEF Management
    <3> QED
      BY <3>1, <3>2, <3>3, Granted
  <2>3. GrantsHeld
    <3> SUFFICES ASSUME NEW d \in catalog.active, d.kind \in RoleKinds, NEW r \in d.rules,
                        NEW g \in r.groups, NEW p \in r.resources, NEW v \in r.verbs,
                        NEW n \in IF r.names = {} THEN {NoName} ELSE r.names
                 PROVE  \E s \in AllRules : /\ g \in s.groups /\ p \in s.resources /\ v \in s.verbs
                                            /\ s.names = {} \/ n \in s.names
      BY DEF GrantsHeld
    <3>1. r \in collected
      BY DEF RolesOK, Generated
    <3>2. PICK s \in MergeTransitiveRules(collected) :
            g \in s.groups /\ p \in s.resources /\ v \in s.verbs /\ s.names = r.names
      BY <3>1, MergeKeepsGrants
    <3> QED
      BY <3>2 DEF AllRules
  <2> QED
    BY <2>1, <2>2, <2>3 DEF RequestsAllowed
<1> QED
  BY <1>1, RBACInvariant, PTL

\* For every such catalog, writes to sensitive objects are granted by name only.
THEOREM SensitiveWritesAreAlwaysScoped == Spec => []SensitiveWritesAreScoped
<1>1. RBACInv => SensitiveWritesAreScoped
  <2> DEFINE Same(d) == {e \in AllDocuments : GroupOf[e.api] = GroupOf[d.api] /\ e.kind = d.kind}
  <2> SUFFICES ASSUME RBACInv, NEW d \in AllDocuments, ByName(d), NEW n \in Names \cup {Rendered},
                      NEW v \in {"patch", "update", "delete"},
                      Allows(DynamicRules, GroupOf[d.api], Plural[d.kind], n, v)
               PROVE  n \in {e.name : e \in Same(d)} /\ (v = "delete" => catalog.tombstones \cap Same(d) # {})
    BY DEF SensitiveWritesAreScoped, AllDocuments
  <2> USE DEF RBACInv
  <2> DEFINE g   == GroupOf[d.api]
             p   == Plural[d.kind]
             ns  == {x.name : x \in Sensitive(g, p)} \ {NoName}
             del == AnyDelete(Sensitive(g, p))
  <2>1. PICK q \in DynamicRules : /\ g \in q.groups /\ p \in q.resources /\ v \in q.verbs
                                  /\ q.names = {} \/ n \in q.names
    BY DEF Allows
  <2>2. IsDocument(d) /\ d.kind \in SensitiveKinds /\ d.name # NoName
    BY Documents DEF ByName
  <2>3. \A x \in Range(resources) : \E e \in AllDocuments : SameKind(x, e) /\ x.name = e.name /\ x.kind \in Kinds
    <3> SUFFICES ASSUME NEW i \in DOMAIN resources
                 PROVE  \E e \in AllDocuments : /\ SameKind(resources[i], e) /\ resources[i].name = e.name
                                                /\ resources[i].kind \in Kinds
      BY DEF Range
    <3>1. PICK e \in Walked : SameKind(resources[i], e) /\ resources[i].name = e.name
      BY DEF ResourcesOK
    <3>2. e \in AllDocuments
      BY DEF WalkOK, Walked, AllDocuments
    <3> QED
      BY <3>1, <3>2, Documents DEF IsDocument, SameKind
  <2>4. \A x \in Sensitive(g, p) : x.kind = d.kind /\ \E e \in Same(d) : x.name = e.name
    <3> SUFFICES ASSUME NEW x \in Sensitive(g, p) PROVE x.kind = d.kind /\ \E e \in Same(d) : x.name = e.name
      OBVIOUS
    <3>1. x \in Range(resources) /\ GroupOf[x.api] = g /\ Plural[x.kind] = p
      BY DEF Sensitive
    <3>2. PICK e \in AllDocuments : SameKind(x, e) /\ x.name = e.name /\ x.kind \in Kinds
      BY <2>3, <3>1
    <3>3. x.kind = d.kind
      BY <2>2, <3>1, <3>2, RBACAssumption DEF IsDocument
    <3>4. e \in Same(d)
      BY <3>1, <3>2, <3>3 DEF SameKind
    <3> QED
      BY <3>2, <3>3, <3>4
  <2>5. \A x \in Sensitive(g, p) : x.name # NoName
    <3> SUFFICES ASSUME NEW x \in Sensitive(g, p) PROVE x.name # NoName
      OBVIOUS
    <3>1. PICK e \in Same(d) : x.name = e.name
      BY <2>4
    <3>2. NamedAlike(d, e)
      BY Documents
    <3> QED
      BY <2>2, <3>1, <3>2 DEF NamedAlike
  <2>6. del => catalog.tombstones \cap Same(d) # {}
    <3> SUFFICES ASSUME NEW x \in Sensitive(g, p), x.needsDelete PROVE catalog.tombstones \cap Same(d) # {}
      BY DEF AnyDelete
    <3>1. PICK i \in DOMAIN resources : x = resources[i]
      BY DEF Sensitive, Range
    <3>2. PICK t \in walked.tombstones : SameKind(x, t)
      BY <3>1 DEF ResourcesOK
    <3>3. GroupOf[t.api] = g /\ t.kind = d.kind
      BY <2>4, <3>2 DEF SameKind, Sensitive
    <3>4. t \in catalog.tombstones /\ t \in AllDocuments
      BY DEF WalkOK, AllDocuments
    <3> QED
      BY <3>3, <3>4
  <2>7. q \in SensitiveRules(g, p) /\ Sensitive(g, p) # {}
    <3>1. CASE \E x \in Range(resources) : x.kind \notin SensitiveKinds /\ q = OrdinaryRule(GroupOf[x.api])
      <4>1. PICK x \in Range(resources) : q = OrdinaryRule(GroupOf[x.api])
        BY <3>1
      <4>2. PICK y \in Ordinary(GroupOf[x.api]) : p = Plural[y.kind]
        BY <2>1, <4>1 DEF OrdinaryRule, Rule
      <4>3. y.kind \in Kinds /\ y.kind \notin SensitiveKinds
        BY <2>3 DEF Ordinary
      <4> QED
        BY <2>2, <4>2, <4>3, RBACAssumption DEF IsDocument
    <3>2. CASE \E x \in Range(resources) : x.kind \in SensitiveKinds /\ q \in SensitiveRules(GroupOf[x.api], Plural[x.kind])
      <4>1. PICK x \in Range(resources) : x.kind \in SensitiveKinds /\ q \in SensitiveRules(GroupOf[x.api], Plural[x.kind])
        BY <3>2
      <4>2. q.groups = {GroupOf[x.api]} /\ q.resources = {Plural[x.kind]}
        <5>1. PICK ks, vs : q = Rule(GroupOf[x.api], {Plural[x.kind]}, ks, vs)
          <6> DEFINE xs == {y.name : y \in Sensitive(GroupOf[x.api], Plural[x.kind])} \ {NoName}
                     dl == AnyDelete(Sensitive(GroupOf[x.api], Plural[x.kind]))
          <6>1. q \in ScopedSensitiveRules(GroupOf[x.api], Plural[x.kind], xs, dl)
            BY <4>1, Zenon DEF SensitiveRules
          <6> HIDE DEF xs, dl
          <6> QED
            BY <6>1, Zenon DEF ScopedSensitiveRules
        <5> QED
          BY <5>1 DEF Rule
      <4>3. GroupOf[x.api] = g /\ Plural[x.kind] = p
        BY <2>1, <4>2
      <4> QED
        BY <4>1, <4>3 DEF Sensitive
    <3> QED
      BY <3>1, <3>2 DEF DynamicRules
  <2>8. ns # {}
    <3>1. PICK x \in Sensitive(g, p) : TRUE
      BY <2>7
    <3>2. x.name \in ns
      BY <2>5, <3>1
    <3> QED
      BY <3>2
  <2>9. SensitiveRules(g, p) = {Rule(g, {p}, {}, {"create", "list", "watch"}),
                                Rule(g, {p}, ns, ManagementVerbs(del) \ {"create", "list", "watch"})}
    BY <2>8 DEF SensitiveRules, ScopedSensitiveRules
  <2>10. q = Rule(g, {p}, ns, ManagementVerbs(del) \ {"create", "list", "watch"})
    <3>1. q = Rule(g, {p}, {}, {"create", "list", "watch"})
            \/ q = Rule(g, {p}, ns, ManagementVerbs(del) \ {"create", "list", "watch"})
      BY <2>7, <2>9, Zenon
    <3>2. Rule(g, {p}, {}, {"create", "list", "watch"}).verbs = {"create", "list", "watch"}
      BY DEF Rule
    <3>3. v \in q.verbs
      BY <2>1
    <3>4. v \notin {"create", "list", "watch"}
      OBVIOUS
    <3> QED
      BY <3>1, <3>2, <3>3, <3>4, Zenon
  <2>11. n \in ns /\ v \in ManagementVerbs(del)
    BY <2>1, <2>8, <2>10 DEF Rule
  <2>12. v = "delete" => del
    BY <2>11 DEF ManagementVerbs, Management
  <2> QED
    BY <2>4, <2>6, <2>11, <2>12
<1> QED
  BY <1>1, RBACInvariant, PTL

-----------------------------------------------------------------------------
(* The default storage class *)

\* The loop of defaultStorageClass, over a list of the universe or none.
ClassInv ==
    /\ classes \in ClassSets \cup {{}} /\ passed \subseteq classes
    /\ NewestDefaultIsSelected

LEMMA ClassStepKeeps ==
    ASSUME ClassInv, NEW c \in classes, ConsiderClass(c)
    PROVE  ClassInv'
<1>1. passed' = passed \cup {c} /\ classes' = classes /\ c \notin passed
  BY DEF ConsiderClass
<1>2. c.name \in Nat /\ c.created \in Nat /\ c.isDefault \in BOOLEAN /\ NoClass # c
  BY ClassAssumption DEF ClassInv
<1>3. \A d \in passed : d.name \in Nat /\ d.created \in Nat /\ d.isDefault \in BOOLEAN /\ NoClass # d
                        /\ (d.name = c.name => d = c)
  BY ClassAssumption DEF ClassInv
<1>4. CASE ~c.isDefault
  <2>1. selected' = selected /\ Defaults' = Defaults
    BY <1>1, <1>4 DEF ConsiderClass, Defaults
  <2> QED
    BY <1>1, <2>1 DEF ClassInv, NewestDefaultIsSelected
<1>5. CASE c.isDefault /\ selected = NoClass
  <2>1. Defaults = {}
    BY <1>3, <1>5 DEF ClassInv, NewestDefaultIsSelected, Defaults
  <2>2. selected' = c /\ Defaults' = {c}
    BY <1>1, <1>5, <2>1 DEF ConsiderClass, Defaults
  <2> QED
    BY <1>1, <2>2 DEF ClassInv, NewestDefaultIsSelected
<1>6. CASE c.isDefault /\ selected # NoClass
  <2>1. Defaults # {} /\ selected \in Defaults
    BY <1>6 DEF ClassInv, NewestDefaultIsSelected
  <2>2. Defaults' = Defaults \cup {c}
    BY <1>1, <1>6 DEF Defaults
  <2>3. \A d \in Defaults \ {selected} :
          d.created < selected.created \/ (d.created = selected.created /\ selected.name < d.name)
    BY <2>1 DEF ClassInv, NewestDefaultIsSelected
  <2>4. selected' = IF Better(c, selected) THEN c ELSE selected
    BY <1>6 DEF ConsiderClass
  <2>5. selected.name \in Nat /\ selected.created \in Nat /\ selected.name # c.name /\ selected # c
    BY <1>1, <1>3, <2>1 DEF Defaults
  <2>6. \A d \in Defaults : d.name \in Nat /\ d.created \in Nat
    BY <1>3 DEF Defaults
  <2>7. selected' \in Defaults'
    BY <2>1, <2>2, <2>4
  <2>8. \A d \in Defaults' \ {selected'} :
          d.created < selected'.created \/ (d.created = selected'.created /\ selected'.name < d.name)
    BY <1>2, <2>2, <2>3, <2>4, <2>5, <2>6, SMT DEF Better
  <2> QED
    BY <1>1, <2>2, <2>7, <2>8 DEF ClassInv, NewestDefaultIsSelected
<1> QED
  BY <1>2, <1>4, <1>5, <1>6

LEMMA ClassInvariant == Spec => []ClassInv
<1>1. Init => ClassInv
  BY DEF Init, ClassInit, ClassInv, NewestDefaultIsSelected, Defaults
<1>2. ClassInv /\ [Next]_vars => ClassInv'
  <2> SUFFICES ASSUME ClassInv, [Next]_vars PROVE ClassInv'
    OBVIOUS
  <2>1. CASE UNCHANGED classVars
    BY <2>1 DEF classVars, ClassInv, NewestDefaultIsSelected, Defaults
  <2>2. CASE ClassStep
    BY <2>2, ClassStepKeeps DEF ClassStep
  <2> QED
    BY <2>1, <2>2 DEF Next, vars, classVars
<1> QED
  BY <1>1, <1>2, PTL DEF Spec

\* For every list of StorageClasses, and every order of it, the class that the
\* templates get is the newest default, and of several of one second the first in
\* the alphabet (renderer_storage.go 43-59).
THEOREM StorageClassIsDetermined == Spec => []NewestDefaultIsSelected
<1>1. ClassInv => NewestDefaultIsSelected
  BY DEF ClassInv
<1> QED
  BY <1>1, ClassInvariant, PTL

-----------------------------------------------------------------------------
(* Opt-in states *)

Enables(a) == a.install = "always" \/ ShouldApply(a, context) = "yes"

\* Both loops have only looked at assets under one evaluator, which is the one of
\* the cluster as it is, and the first was through before the second began.
ActivationInv ==
    /\ assets \in AssetSets \cup {{}} /\ (assets # {} => world \in Worlds)
    /\ context \in {NoContext, Build(world)}
    /\ context = NoContext => counted = {} /\ considered = {}
    /\ counted \subseteq assets /\ considered \subseteq assets /\ (considered # {} => counted = assets)
    /\ taken = {a \in considered : CRDsOf(a) \subseteq world.crds /\ ShouldApply(a, context) = "yes"}
    /\ \A a \in counted : Enables(a) => \A c \in CRDsOf(a) : c \in DOMAIN optedIn /\ optedIn[c]

LEMMA CountKeeps ==
    ASSUME ActivationInv, NEW a \in assets, CountOptIn(a)
    PROVE  ActivationInv'
<1>1. /\ counted' = counted \cup {a} /\ a \notin counted
      /\ UNCHANGED <<world, assets, context, taken, considered>>
      /\ optedIn' = OptInAfter(optedIn, a, context) /\ context # NoContext
  BY DEF CountOptIn
<1>2. considered = {}
  BY <1>1 DEF ActivationInv
<1>3. ASSUME NEW b \in counted', Enables(b), NEW c \in CRDsOf(b)
      PROVE  c \in DOMAIN optedIn' /\ optedIn'[c]
  <2>1. CASE b \in counted
    <3>1. c \in DOMAIN optedIn /\ optedIn[c]
      BY <1>3, <2>1 DEF ActivationInv
    <3> QED
      BY <1>1, <3>1, Zenon DEF OptInAfter
  <2>2. CASE b = a
    <3>1. (IF a.install = "always" THEN "yes" ELSE ShouldApply(a, context)) = "yes"
      BY <1>3, <2>2 DEF Enables
    <3>2. c \in CRDsOf(a)
      BY <1>3, <2>2
    <3> QED
      BY <1>1, <3>1, <3>2, Zenon DEF OptInAfter
  <2> QED
    BY <1>1, <2>1, <2>2
<1>4. \A b : Enables(b)' = Enables(b)
  BY <1>1 DEF Enables
<1> QED
  BY <1>1, <1>2, <1>3, <1>4 DEF ActivationInv

LEMMA ConsiderKeeps ==
    ASSUME ActivationInv, NEW a \in assets, ConsiderAsset(a)
    PROVE  ActivationInv'
<1>1. /\ considered' = considered \cup {a} /\ a \notin considered /\ counted = assets /\ context # NoContext
      /\ UNCHANGED <<world, assets, context, counted, optedIn>>
      /\ taken' = IF CRDsOf(a) \subseteq world.crds /\ ShouldApply(a, context) = "yes"
                  THEN taken \cup {a} ELSE taken
  BY DEF ConsiderAsset
<1> DEFINE Take(b) == CRDsOf(b) \subseteq world.crds /\ ShouldApply(b, context) = "yes"
<1>2. taken = {b \in considered : Take(b)}
  BY DEF ActivationInv
<1>3. taken' = {b \in considered' : Take(b)}
  <2>1. taken' = IF Take(a) THEN taken \cup {a} ELSE taken
    BY <1>1
  <2> HIDE DEF Take
  <2> QED
    BY <1>1, <1>2, <2>1
<1>4. \A b : Enables(b)' = Enables(b)
  BY <1>1 DEF Enables
<1> QED
  BY <1>1, <1>3, <1>4 DEF ActivationInv

LEMMA ActivationInvariant == Spec => []ActivationInv
<1>1. Init => ActivationInv
  BY DEF Init, ActivationInit, ActivationInv
<1>2. ActivationInv /\ [Next]_vars => ActivationInv'
  <2> SUFFICES ASSUME ActivationInv, [Next]_vars PROVE ActivationInv'
    OBVIOUS
  <2>1. CASE UNCHANGED activationVars
    BY <2>1 DEF activationVars, ActivationInv, Enables
  <2>2. CASE BuildEvaluator
    BY <2>2 DEF BuildEvaluator, ActivationInv, Enables
  <2>3. ASSUME NEW a \in assets, CountOptIn(a) PROVE ActivationInv'
    BY <2>3, CountKeeps
  <2>4. ASSUME NEW a \in assets, ConsiderAsset(a) PROVE ActivationInv'
    BY <2>4, ConsiderKeeps
  <2> QED
    BY <2>1, <2>2, <2>3, <2>4 DEF Next, vars, activationVars, ActivationStep
<1> QED
  BY <1>1, <1>2, PTL DEF Spec

\* For every catalog, cluster and order of the assets: an asset that is taken up
\* has opted in to its CRDs (registry.go 307-337).
THEOREM TakenAssetsAreOptedIn == Spec => []TakenAreOptedIn
<1>1. ActivationInv => TakenAreOptedIn
  BY DEF ActivationInv, TakenAreOptedIn, Chosen, Enables
<1> QED
  BY <1>1, ActivationInvariant, PTL

-----------------------------------------------------------------------------
(* Conditions *)

LEMMA ShouldApplyAlways ==
    ASSUME NEW a, a.conditions = <<>>, NEW e
    PROVE  ShouldApply(a, e) = "yes" <=> a.install # "opt-in"
BY DEF ShouldApply, YesOrNo

\* The conditions of an asset are a list, so if one fails there is a first that does.
LEMMA ShouldApplyAll ==
    ASSUME NEW a, a.conditions \in Seq(Range(a.conditions)), a.conditions # <<>>, NEW e
    PROVE  ShouldApply(a, e) = "yes" <=>
             \A i \in DOMAIN a.conditions : EvaluateCondition(a.conditions[i], e) = "yes"
<1> DEFINE Answer(i) == EvaluateCondition(a.conditions[i], e)
           failing   == {i \in DOMAIN a.conditions : Answer(i) # "yes"}
<1>1. CASE failing = {}
  BY <1>1 DEF ShouldApply
<1>2. CASE failing # {}
  <2>1. failing \subseteq Nat
    OBVIOUS
  <2>2. Min(failing) \in failing
    <3> HIDE DEF failing
    <3>1. \E i \in failing : \A j \in failing : i <= j
      BY <1>2, <2>1, LeastNumber, Zenon
    <3> QED
      BY <3>1 DEF Min
  <2>3. ShouldApply(a, e) = Answer(Min(failing))
    BY <1>2 DEF ShouldApply
  <2>4. Answer(Min(failing)) # "yes"
    BY <2>2
  <2> QED
    BY <1>2, <2>3, <2>4
<1> QED
  BY <1>1, <1>2

\* What the evaluator would be if every read of the cluster succeeded.
Readable(w) == [w EXCEPT !.fails = {}]

\* A failing read that does not end the pass costs topology flags, and nothing else.
LEMMA ReadableContext ==
    ASSUME NEW w \in Worlds, Build(w) # NoContext
    PROVE  /\ Build(w).topology \subseteq Build(Readable(w)).topology
           /\ \A f \in {"hardware", "gates", "kvGates", "annotations", "images", "configured"} :
                Build(w)[f] = Build(Readable(w))[f]
<1> DEFINE v == Readable(w)
<1>1. DOMAIN w = WorldFields
  BY ActivationAssumption
<1>2. v.fails = {} /\ \A f \in WorldFields \ {"fails"} : v[f] = w[f]
  BY <1>1 DEF Readable, WorldFields
<1> HIDE DEF v
<1>3. /\ v.nodes = w.nodes /\ v.infra = w.infra /\ v.provider = w.provider /\ v.scheduler = w.scheduler
      /\ v.annotations = w.annotations /\ v.gates = w.gates /\ v.kubevirt = w.kubevirt
      /\ v.kvGates = w.kvGates /\ v.images = w.images /\ v.configured = w.configured
  BY <1>2 DEF WorldFields
<1>4. DetectTopology(w) \subseteq DetectTopology(v)
  BY <1>2, <1>3 DEF DetectTopology, NoTopology
<1>5. KubeVirtGates(v) = KubeVirtGates(w)
  BY <1>3 DEF KubeVirtGates
<1>6. Build(w) = [hardware |-> DetectHardware(w.nodes), topology |-> DetectTopology(w),
                  gates |-> ExtractFeatureGates(w.gates), kvGates |-> KubeVirtGates(w),
                  annotations |-> w.annotations, images |-> w.images, configured |-> w.configured]
  BY DEF Build
<1>7. Build(v) = [hardware |-> DetectHardware(w.nodes), topology |-> DetectTopology(v),
                  gates |-> ExtractFeatureGates(w.gates), kvGates |-> KubeVirtGates(w),
                  annotations |-> w.annotations, images |-> w.images, configured |-> w.configured]
  BY <1>2, <1>3, <1>5 DEF Build
<1>8. Build(w).topology \subseteq Build(v).topology
  BY <1>4, <1>6, <1>7
<1>9. /\ Build(w).hardware = Build(v).hardware /\ Build(w).gates = Build(v).gates
      /\ Build(w).kvGates = Build(v).kvGates /\ Build(w).annotations = Build(v).annotations
      /\ Build(w).images = Build(v).images /\ Build(w).configured = Build(v).configured
  BY <1>6, <1>7
<1> QED
  BY <1>8, <1>9 DEF v

\* A condition that does not ask for a flag to be false stays satisfied.
LEMMA ReadableCondition ==
    ASSUME NEW w \in Worlds, Build(w) # NoContext, NEW c, c.type = "topology" => c.value # "false",
           EvaluateCondition(c, Build(w)) = "yes"
    PROVE  EvaluateCondition(c, Build(Readable(w))) = "yes"
<1> DEFINE e == Build(w)
           r == Build(Readable(w))
<1>1. /\ e.topology \subseteq r.topology /\ e.hardware = r.hardware /\ e.gates = r.gates
      /\ e.kvGates = r.kvGates /\ e.annotations = r.annotations /\ e.images = r.images
      /\ e.configured = r.configured
  BY ReadableContext
<1> HIDE DEF e, r
<1>2. EvaluateTopology(c, e) = "yes" /\ c.value # "false" => EvaluateTopology(c, r) = "yes"
  BY <1>1 DEF EvaluateTopology, YesOrNo
<1>3. YesOrNo(EvaluateAnnotation(c, e)) = YesOrNo(EvaluateAnnotation(c, r))
  BY <1>1 DEF EvaluateAnnotation
<1>4. EvaluateCondition(c, e) = "yes"
  BY DEF e
<1>5. EvaluateCondition(c, r) = "yes"
  <2> HIDE <1>4
  <2>1. CASE c.type = "topology"
    BY <1>2, <1>4, <2>1 DEF EvaluateCondition
  <2>2. CASE c.type = "annotation"
    BY <1>3, <1>4, <2>2 DEF EvaluateCondition
  <2>3. CASE c.type \notin {"topology", "annotation"}
    BY <1>1, <1>4, <2>3 DEF EvaluateCondition
  <2> QED
    BY <2>1, <2>2, <2>3
<1> QED
  BY <1>5 DEF r

\* For every cluster, every set of failing reads and every catalog without a
\* condition on a flag being false: what is taken up would also be taken up if all
\* reads succeeded (hco_context.go 93-104).
THEOREM FailingReadsOnlyWithhold == Spec => []TopologyErrorsWithhold
<1>1. ActivationInv => TopologyErrorsWithhold
  <2> SUFFICES ASSUME ActivationInv, Chosen, NEW a \in taken
               PROVE  ShouldApply(a, Build(Readable(world))) = "yes"
    BY DEF TopologyErrorsWithhold, Readable
  <2>1. context = Build(world) /\ context # NoContext /\ a \in assets /\ ShouldApply(a, context) = "yes"
    BY DEF ActivationInv, Chosen
  <2>2. assets \in AssetSets /\ world \in Worlds
    BY <2>1 DEF ActivationInv
  <2>3. a.conditions \in Seq(Range(a.conditions))
    BY <2>1, <2>2, ActivationAssumption
  <2>4. CASE a.conditions = <<>>
    BY <2>1, <2>4, ShouldApplyAlways
  <2>5. CASE a.conditions # <<>>
    <3>1. \A i \in DOMAIN a.conditions : EvaluateCondition(a.conditions[i], Build(world)) = "yes"
      BY <2>1, <2>3, <2>5, ShouldApplyAll
    <3>2. \A i \in DOMAIN a.conditions : a.conditions[i].type = "topology" => a.conditions[i].value # "false"
      BY <2>1, <2>2, ActivationAssumption
    <3>3. \A i \in DOMAIN a.conditions : EvaluateCondition(a.conditions[i], Build(Readable(world))) = "yes"
      BY <2>1, <2>2, <3>1, <3>2, ReadableCondition
    <3> QED
      BY <2>3, <2>5, <3>3, ShouldApplyAll
  <2> QED
    BY <2>4, <2>5
<1> QED
  BY <1>1, ActivationInvariant, PTL

-----------------------------------------------------------------------------
(* The preview *)

\* On conditions that both judge, the two evaluators agree one by one.
LEMMA JudgedAlike ==
    ASSUME NEW w, Build(w) # NoContext, NEW a, Previewable(a), NEW i \in DOMAIN a.conditions
    PROVE  EvaluateCondition(a.conditions[i], Build(w)) = "yes" <=>
             LET c == a.conditions[i]
             IN  CASE c.type = "annotation" ->
                        IF c.arg \in DOMAIN w.annotations THEN w.annotations[c.arg] = c.value ELSE c.value = NoArg
                   [] c.type = "feature-gate" -> c.arg \in ExtractFeatureGates(w.gates)
                   [] OTHER -> c.type \notin {"hardware-detection", "kubevirt-feature-gate"}
<1> DEFINE c == a.conditions[i]
<1>1. /\ c.type \in {"annotation", "feature-gate"} /\ c.arg # NoArg
      /\ c.type = "annotation" => c.value # NoArg
  BY DEF Previewable
<1>2. Build(w).annotations = w.annotations /\ Build(w).gates = ExtractFeatureGates(w.gates)
  BY DEF Build
<1> HIDE DEF c
<1>3. CASE c.type = "annotation"
  <2>1. EvaluateCondition(c, Build(w)) = "yes" <=> EvaluateAnnotation(c, Build(w))
    BY <1>1, <1>3 DEF EvaluateCondition, YesOrNo
  <2>2. EvaluateAnnotation(c, Build(w)) <=> c.arg \in DOMAIN w.annotations /\ w.annotations[c.arg] = c.value
    BY <1>1, <1>2, <1>3 DEF EvaluateAnnotation
  <2> QED
    BY <1>1, <1>3, <2>1, <2>2 DEF c
<1>4. CASE c.type = "feature-gate"
  <2>1. EvaluateCondition(c, Build(w)) = "yes" <=> c.arg \in ExtractFeatureGates(w.gates)
    BY <1>1, <1>2, <1>4 DEF EvaluateCondition, YesOrNo
  <2> QED
    BY <1>4, <2>1 DEF c
<1> QED
  BY <1>1, <1>3, <1>4

LEMMA ConditionsJudgedAlike ==
    ASSUME NEW w, Build(w) # NoContext, NEW a, a.conditions \in Seq(Range(a.conditions)), Previewable(a)
    PROVE  ShouldApply(a, Build(w)) = "yes" <=> CheckConditions(a, w)
<1>1. CASE a.conditions = <<>>
  <2>1. a.install # "opt-in"
    BY <1>1 DEF Previewable
  <2>2. DOMAIN a.conditions = {}
    BY <1>1
  <2> QED
    BY <1>1, <2>1, <2>2, ShouldApplyAlways DEF CheckConditions
<1>2. CASE a.conditions # <<>>
  <2>1. ShouldApply(a, Build(w)) = "yes" <=>
          \A i \in DOMAIN a.conditions : EvaluateCondition(a.conditions[i], Build(w)) = "yes"
    BY <1>2, ShouldApplyAll
  <2> QED
    BY <2>1, JudgedAlike DEF CheckConditions
<1> QED
  BY <1>1, <1>2

\* For every cluster, catalog and set of exclusions: of the assets the debug server
\* can judge, whose template comes to the same without a client, it includes exactly
\* those that a pass sends (output.go 48-150, handlers.go 401-423).
THEOREM PreviewShowsWhatIsSent == Spec => []PreviewIsWhatIsSent
<1>1. ActivationInv => PreviewIsWhatIsSent
  <2> SUFFICES ASSUME ActivationInv, Chosen, NEW a \in assets, Previewable(a)
               PROVE  a \in Previewed <=> a \in Sent
    BY DEF PreviewIsWhatIsSent
  <2>1. context = Build(world) /\ context # NoContext /\ considered = assets
    BY DEF ActivationInv, Chosen
  <2>2. a.conditions \in Seq(Range(a.conditions)) /\ a.previews \in {"object", "empty", "error"}
    BY ActivationAssumption DEF ActivationInv
  <2>3. a \in taken <=> CRDsOf(a) \subseteq world.crds /\ CheckConditions(a, world)
    <3>1. a \in taken <=> CRDsOf(a) \subseteq world.crds /\ ShouldApply(a, context) = "yes"
      BY <2>1 DEF ActivationInv
    <3> QED
      BY <2>1, <2>2, <3>1, ConditionsJudgedAlike
  <2>4. CRDsOf(a) \subseteq world.crds <=> a.group = "core" \/ a.required \in world.crds
    BY DEF Previewable, CRDsOf
  <2>5. OutputStatus(a, world) = "INCLUDED" <=>
          CheckConditions(a, world) /\ a.previews = "object" /\ ~Excluded(a, world)
    BY <2>2 DEF OutputStatus
  <2>6. a.previews = a.renders
    BY DEF Previewable
  <2> QED
    BY <2>3, <2>4, <2>5, <2>6 DEF Previewed, Sent, ShownWhenInstalled
<1> QED
  BY <1>1, ActivationInvariant, PTL

-----------------------------------------------------------------------------
(* The aggregate policy *)

LEMMA MergeEntriesIs ==
    ASSUME NEW to \in Sections, NEW section \in Sections \cup {Absent}
    PROVE  /\ MergeEntries(to, section) = Absent <=>
                section # Absent /\ \E k \in DOMAIN section \cap DOMAIN to : section[k] # to[k]
           /\ MergeEntries(to, section) # Absent =>
                /\ MergeEntries(to, section) \in Sections
                /\ DOMAIN MergeEntries(to, section) = DOMAIN to \cup Keys(section)
                /\ \A k \in DOMAIN to : MergeEntries(to, section)[k] = to[k]
                /\ \A k \in Keys(section) : MergeEntries(to, section)[k] = section[k]
<1> DEFINE clash == section # Absent /\ \E k \in DOMAIN section \cap DOMAIN to : section[k] # to[k]
<1>0. Absent \notin Sections
  BY PolicyAssumption
<1>1. CASE section = Absent
  BY <1>0, <1>1 DEF MergeEntries, Keys
<1>2. CASE section # Absent /\ clash
  BY <1>0, <1>2 DEF MergeEntries
<1>3. CASE section # Absent /\ ~clash
  <2>1. MergeEntries(to, section) = Overlay(section, to)
    BY <1>3 DEF MergeEntries
  <2>2. section \in Sections /\ Keys(section) = DOMAIN section
    BY <1>3 DEF Keys
  <2>3. PICK K \in SUBSET PolicyKeys : to \in [K -> PolicyActions]
    BY DEF Sections
  <2>4. PICK L \in SUBSET PolicyKeys : section \in [L -> PolicyActions]
    BY <2>2 DEF Sections
  <2>5. Overlay(section, to) \in [K \cup L -> PolicyActions]
    BY <2>3, <2>4 DEF Overlay
  <2>6. Overlay(section, to) \in Sections
    BY <2>5 DEF Sections
  <2> QED
    BY <1>0, <1>3, <2>1, <2>2, <2>3, <2>4, <2>5, <2>6 DEF Overlay
<1> QED
  BY <1>1, <1>2, <1>3

\* What the aggregate e owes to the policy p, and where its entries come from.
Holds(e, p) ==
    /\ \A s \in KeyedSections : \A k \in Keys(p[s]) : k \in DOMAIN e[s] /\ e[s][k] = p[s][k]
    /\ p.sshkey # Absent => e.sshkey = p.sshkey

Sourced(e, D) ==
    /\ \A s \in KeyedSections : \A k \in DOMAIN e[s] : \E d \in D : k \in Keys(d.policy[s])
    /\ e.sshkey # Absent => \E d \in D : d.policy.sshkey = e.sshkey

\* e is refused over a conflict within D, or holds the policies of D and no others.
Stands(e, D) ==
    /\ e \in Merges \cup {Absent}
    /\ e = Absent => Conflicting(D)
    /\ e # Absent =>
         /\ \A d \in Included(D) : ~Faulty(d) /\ Holds(e, d.policy)
         /\ Sourced(e, Included(D))

PolicyInv ==
    dependents \in DependentSets \cup {{}} /\ merged \subseteq dependents /\ Stands(aggregate, merged)

IsDependent(d) ==
    /\ d.active \in BOOLEAN /\ d.rendered \in BOOLEAN /\ d.excluded \in BOOLEAN
    /\ d.policy \in Policies \cup {Absent}
    /\ d.mc \in [files : SUBSET PolicyKeys, units : SUBSET PolicyKeys, ssh : BOOLEAN, other : BOOLEAN]

LEMMA DependentTypes == ASSUME PolicyInv, NEW d \in dependents PROVE IsDependent(d)
  BY PolicyAssumption DEF PolicyInv, IsDependent

LEMMA CoversIsActsOn ==
    ASSUME NEW p \in Policies,
           NEW mc \in [files : SUBSET PolicyKeys, units : SUBSET PolicyKeys, ssh : BOOLEAN, other : BOOLEAN]
    PROVE  Covers(p, mc) <=> ActsOn(p, mc)
  BY DEF Covers, ActsOn, KeyedSections, Keys, Policies

\* The same with the clash stated over Keys, which are none of an absent section.
LEMMA MergeSectionIs ==
    ASSUME NEW to \in Sections, NEW section \in Sections \cup {Absent}
    PROVE  /\ MergeEntries(to, section) = Absent <=>
                \E k \in Keys(section) \cap DOMAIN to : section[k] # to[k]
           /\ MergeEntries(to, section) # Absent =>
                /\ MergeEntries(to, section) \in Sections
                /\ DOMAIN MergeEntries(to, section) = DOMAIN to \cup Keys(section)
                /\ \A k \in DOMAIN to : MergeEntries(to, section)[k] = to[k]
                /\ \A k \in Keys(section) : MergeEntries(to, section)[k] = section[k]
<1>1. (section # Absent /\ \E k \in DOMAIN section \cap DOMAIN to : section[k] # to[k])
        <=> \E k \in Keys(section) \cap DOMAIN to : section[k] # to[k]
  <2>1. CASE section = Absent
    BY <2>1 DEF Keys
  <2>2. CASE section # Absent
    <3>1. Keys(section) = DOMAIN section
      BY <2>2 DEF Keys
    <3> QED
      BY <2>2, <3>1, Zenon
  <2> QED
    BY <2>1, <2>2
<1> QED
  BY <1>1, MergeEntriesIs, Zenon

\* A policy that does not fit in with what has been merged.
Clashes(e, p) ==
    \/ \E s \in KeyedSections : \E k \in Keys(p[s]) \cap DOMAIN e[s] : p[s][k] # e[s][k]
    \/ e.sshkey # Absent /\ p.sshkey # Absent /\ e.sshkey # p.sshkey

\* What a policy that fits in is merged to.
MergesTo(m, e, p) ==
    /\ m \in Merges /\ Holds(m, p)
    /\ \A s \in KeyedSections : /\ DOMAIN m[s] = DOMAIN e[s] \cup Keys(p[s])
                                /\ \A k \in DOMAIN e[s] : m[s][k] = e[s][k]
    /\ m.sshkey = IF p.sshkey = Absent THEN e.sshkey ELSE p.sshkey

LEMMA MergePolicyIs ==
    ASSUME NEW e \in Merges, NEW p \in Policies
    PROVE  /\ MergePolicy(e, p) = Absent <=> Clashes(e, p)
           /\ MergePolicy(e, p) # Absent => MergesTo(MergePolicy(e, p), e, p)
<1> DEFINE f == MergeEntries(e.files, p.files)
           u == MergeEntries(e.units, p.units)
           k == MergeSSHKey(e.sshkey, p.sshkey)
           m == [files |-> f, units |-> u, sshkey |-> k]
           bad == f = Absent \/ u = Absent \/ SSHKeyConflict(e.sshkey, p.sshkey)
<1>1. /\ e.files \in Sections /\ e.units \in Sections /\ e.sshkey \in PolicyActions \cup {Absent}
      /\ p.files \in Sections \cup {Absent} /\ p.units \in Sections \cup {Absent}
      /\ p.sshkey \in PolicyActions \cup {Absent}
  BY DEF Merges, Policies
<1>2. MergePolicy(e, p) = IF bad THEN Absent ELSE m
  BY DEF MergePolicy
<1>3. /\ f = Absent <=> \E x \in Keys(p.files) \cap DOMAIN e.files : p.files[x] # e.files[x]
      /\ f # Absent =>
           /\ f \in Sections /\ DOMAIN f = DOMAIN e.files \cup Keys(p.files)
           /\ \A x \in DOMAIN e.files : f[x] = e.files[x]
           /\ \A x \in Keys(p.files) : f[x] = p.files[x]
  <2>1. e.files \in Sections /\ p.files \in Sections \cup {Absent}
    BY <1>1
  <2> QED
    BY <2>1, MergeSectionIs, ZenonT(60)
<1>4. /\ u = Absent <=> \E x \in Keys(p.units) \cap DOMAIN e.units : p.units[x] # e.units[x]
      /\ u # Absent =>
           /\ u \in Sections /\ DOMAIN u = DOMAIN e.units \cup Keys(p.units)
           /\ \A x \in DOMAIN e.units : u[x] = e.units[x]
           /\ \A x \in Keys(p.units) : u[x] = p.units[x]
  <2>1. e.units \in Sections /\ p.units \in Sections \cup {Absent}
    BY <1>1
  <2> QED
    BY <2>1, MergeSectionIs, ZenonT(60)
<1> HIDE DEF f, u
<1>5. k \in PolicyActions \cup {Absent} /\ k = IF p.sshkey = Absent THEN e.sshkey ELSE p.sshkey
  BY <1>1 DEF MergeSSHKey
<1>6. SSHKeyConflict(e.sshkey, p.sshkey) <=> e.sshkey # Absent /\ p.sshkey # Absent /\ e.sshkey # p.sshkey
  BY DEF SSHKeyConflict
<1> HIDE DEF k
<1>7. ~bad => m \in Merges
  BY <1>3, <1>4, <1>5 DEF Merges
<1>8. MergePolicy(e, p) = Absent <=> bad
  BY <1>2, <1>7, PolicyAssumption
<1>9. bad <=> Clashes(e, p)
  BY <1>3, <1>4, <1>6 DEF KeyedSections, Clashes
<1>10. ~bad => /\ \A s \in KeyedSections :
                    /\ DOMAIN m[s] = DOMAIN e[s] \cup Keys(p[s])
                    /\ \A x \in DOMAIN e[s] : m[s][x] = e[s][x]
               /\ Holds(m, p)
  <2> SUFFICES ASSUME ~bad
               PROVE  /\ \A s \in KeyedSections :
                           /\ DOMAIN m[s] = DOMAIN e[s] \cup Keys(p[s])
                           /\ \A x \in DOMAIN e[s] : m[s][x] = e[s][x]
                      /\ Holds(m, p)
    OBVIOUS
  <2>1. f # Absent /\ u # Absent
    OBVIOUS
  <2>2. m.files = f /\ m.units = u /\ m.sshkey = k
    OBVIOUS
  <2> HIDE DEF m
  <2>3. /\ DOMAIN m.files = DOMAIN e.files \cup Keys(p.files) /\ DOMAIN m.units = DOMAIN e.units \cup Keys(p.units)
        /\ \A x \in DOMAIN e.files : m.files[x] = e.files[x]
        /\ \A x \in DOMAIN e.units : m.units[x] = e.units[x]
    BY <1>3, <1>4, <2>1, <2>2
  <2>4. /\ \A x \in Keys(p.files) : m.files[x] = p.files[x]
        /\ \A x \in Keys(p.units) : m.units[x] = p.units[x]
    BY <1>3, <1>4, <2>1, <2>2
  <2>5. p.sshkey # Absent => m.sshkey = p.sshkey
    BY <1>5, <2>2
  <2>6. \A s \in KeyedSections : s = "files" \/ s = "units"
    BY DEF KeyedSections
  <2>7. ASSUME NEW s \in KeyedSections
        PROVE  /\ DOMAIN m[s] = DOMAIN e[s] \cup Keys(p[s])
               /\ \A x \in DOMAIN e[s] : m[s][x] = e[s][x]
               /\ \A x \in Keys(p[s]) : m[s][x] = p[s][x]
    <3>1. CASE s = "files"
      BY <2>3, <2>4, <3>1
    <3>2. CASE s = "units"
      BY <2>3, <2>4, <3>2
    <3> QED
      BY <2>6, <3>1, <3>2
  <2> QED
    BY <2>5, <2>7 DEF Holds
<1>11. ~bad => MergesTo(m, e, p)
  BY <1>5, <1>7, <1>10 DEF MergesTo
<1> HIDE DEF bad, m
<1> QED
  BY <1>2, <1>8, <1>9, <1>11

\* A dependent that takes part, and has no fault of its own.
LEMMA MergeStands ==
    ASSUME NEW e, NEW D, Stands(e, D), e # Absent, NEW d, IsDependent(d),
           d.active, d.rendered, ~d.excluded, ~Faulty(d)
    PROVE  Stands(MergePolicy(e, d.policy), D \cup {d})
<1> DEFINE p == d.policy
           m == MergePolicy(e, p)
           I == Included(D)
<1>1. e \in Merges /\ p \in Policies /\ p # Absent
  BY DEF Stands, IsDependent, Faulty
<1>2. Included(D \cup {d}) = I \cup {d}
  BY DEF Included
<1>3. (\A c \in I : ~Faulty(c) /\ Holds(e, c.policy)) /\ Sourced(e, I)
  BY DEF Stands
<1> HIDE DEF I
<1>4. CASE m = Absent
  <2>1. PICK c \in I : Disagree(p, c.policy)
    <3>1. CASE \E s \in KeyedSections : \E k \in Keys(p[s]) \cap DOMAIN e[s] : p[s][k] # e[s][k]
      <4>1. PICK s \in KeyedSections : \E k \in Keys(p[s]) \cap DOMAIN e[s] : p[s][k] # e[s][k]
        BY <3>1
      <4>2. PICK k \in Keys(p[s]) \cap DOMAIN e[s] : p[s][k] # e[s][k]
        BY <4>1
      <4>3. PICK c \in I : k \in Keys(c.policy[s])
        BY <1>3, <4>2 DEF Sourced
      <4>4. e[s][k] = c.policy[s][k]
        BY <1>3, <4>3 DEF Holds
      <4> QED
        BY <4>2, <4>3, <4>4 DEF Disagree
    <3>2. CASE e.sshkey # Absent /\ p.sshkey # Absent /\ e.sshkey # p.sshkey
      <4>1. PICK c \in I : c.policy.sshkey = e.sshkey
        BY <1>3, <3>2 DEF Sourced
      <4> QED
        BY <3>2, <4>1 DEF Disagree
    <3>3. Clashes(e, p)
      BY <1>1, <1>4, MergePolicyIs
    <3> QED
      BY <3>1, <3>2, <3>3 DEF Clashes
  <2>2. ~Faulty(c) /\ ~Faulty(d) /\ c \in Included(D \cup {d}) /\ d \in Included(D \cup {d})
    BY <1>2, <1>3
  <2>3. Conflicting(D \cup {d})
    BY <2>1, <2>2 DEF Conflicting
  <2> QED
    BY <1>4, <2>3 DEF Stands
<1>5. CASE m # Absent
  <2>0. MergesTo(m, e, p) /\ ~Clashes(e, p)
    BY <1>1, <1>5, MergePolicyIs
  <2> HIDE DEF m
  <2>1. /\ m \in Merges /\ Holds(m, p)
        /\ \A s \in KeyedSections : /\ DOMAIN m[s] = DOMAIN e[s] \cup Keys(p[s])
                                     /\ \A k \in DOMAIN e[s] : m[s][k] = e[s][k]
        /\ m.sshkey = IF p.sshkey = Absent THEN e.sshkey ELSE p.sshkey
        /\ e.sshkey = Absent \/ p.sshkey = Absent \/ e.sshkey = p.sshkey
    BY <2>0 DEF MergesTo, Clashes
  <2>2. ASSUME NEW c \in I PROVE ~Faulty(c) /\ Holds(m, c.policy)
    <3>1. ~Faulty(c) /\ Holds(e, c.policy)
      BY <1>3
    <3>2. ASSUME NEW s \in KeyedSections, NEW k \in Keys(c.policy[s])
          PROVE  k \in DOMAIN m[s] /\ m[s][k] = c.policy[s][k]
      <4>1. k \in DOMAIN e[s] /\ e[s][k] = c.policy[s][k]
        BY <3>1 DEF Holds
      <4> QED
        BY <2>1, <4>1
    <3>3. c.policy.sshkey # Absent => m.sshkey = c.policy.sshkey
      BY <2>1, <3>1 DEF Holds
    <3> QED
      BY <3>1, <3>2, <3>3 DEF Holds
  <2>3. Sourced(m, I \cup {d})
    <3>1. Sourced(e, I)
      BY <1>3
    <3>2. ASSUME NEW s \in KeyedSections, NEW k \in DOMAIN m[s]
          PROVE  \E c \in I \cup {d} : k \in Keys(c.policy[s])
      BY <2>1, <3>1 DEF Sourced
    <3>3. m.sshkey # Absent => \E c \in I \cup {d} : c.policy.sshkey = m.sshkey
      BY <2>1, <3>1 DEF Sourced
    <3> QED
      BY <3>2, <3>3 DEF Sourced
  <2>4. \A c \in I \cup {d} : ~Faulty(c) /\ Holds(m, c.policy)
    BY <2>1, <2>2
  <2>5. Stands(m, D \cup {d})
    BY <1>2, <1>5, <2>1, <2>3, <2>4 DEF Stands
  <2> QED
    BY <2>5 DEF m
<1> QED
  BY <1>4, <1>5

LEMMA AddStands ==
    ASSUME NEW e, NEW D, Stands(e, D), NEW d, IsDependent(d)
    PROVE  Stands(AddDependent(e, d), D \cup {d})
<1>1. CASE e = Absent
  <2>1. AddDependent(e, d) = Absent
    BY <1>1 DEF AddDependent
  <2>2. Conflicting(D)
    BY <1>1 DEF Stands
  <2>3. Included(D) \subseteq Included(D \cup {d})
    BY DEF Included
  <2>4. Conflicting(D \cup {d})
    BY <2>2, <2>3 DEF Conflicting
  <2> QED
    BY <2>1, <2>4 DEF Stands
<1>2. CASE e # Absent /\ ~(d.active /\ d.rendered /\ ~d.excluded)
  <2>1. AddDependent(e, d) = e /\ Included(D \cup {d}) = Included(D)
    BY <1>2 DEF AddDependent, Included
  <2> QED
    BY <1>2, <2>1 DEF Stands
<1>3. CASE e # Absent /\ d.active /\ d.rendered /\ ~d.excluded /\ Faulty(d)
  <2>1. AddDependent(e, d) = Absent
    BY <1>3, CoversIsActsOn DEF AddDependent, Faulty, IsDependent
  <2>2. d \in Included(D \cup {d})
    BY <1>3 DEF Included
  <2>3. Conflicting(D \cup {d})
    BY <1>3, <2>2 DEF Conflicting
  <2> QED
    BY <2>1, <2>3 DEF Stands
<1>4. CASE e # Absent /\ d.active /\ d.rendered /\ ~d.excluded /\ ~Faulty(d)
  <2>1. AddDependent(e, d) = MergePolicy(e, d.policy)
    BY <1>4, CoversIsActsOn DEF AddDependent, Faulty, IsDependent
  <2> QED
    BY <1>4, <2>1, MergeStands
<1> QED
  BY <1>1, <1>2, <1>3, <1>4

LEMMA NothingStands == Stands(NoEntries, {})
<1>1. <<>> \in [{} -> PolicyActions] /\ DOMAIN <<>> = {}
  OBVIOUS
<1>2. <<>> \in Sections
  BY <1>1 DEF Sections
<1>3. NoEntries \in Merges /\ NoEntries # Absent
  BY <1>2, PolicyAssumption DEF NoEntries, Merges
<1>4. Sourced(NoEntries, {})
  <2>1. NoEntries.files = <<>> /\ NoEntries.units = <<>> /\ NoEntries.sshkey = Absent
    BY DEF NoEntries
  <2>2. \A s \in KeyedSections : NoEntries[s] = <<>>
    BY <2>1 DEF KeyedSections
  <2> QED
    BY <1>1, <2>1, <2>2 DEF Sourced
<1> QED
  BY <1>3, <1>4 DEF Stands, Included

\* What stands for D is refused exactly if D has a conflict ...
LEMMA RefusedIfConflicting == ASSUME NEW e, NEW D, Stands(e, D) PROVE e = Absent <=> Conflicting(D)
<1>1. CASE e # Absent
  <2>1. \A d \in Included(D) : ~Faulty(d) /\ Holds(e, d.policy)
    BY <1>1 DEF Stands
  <2>2. ASSUME NEW d \in Included(D), NEW c \in Included(D) PROVE ~Disagree(d.policy, c.policy)
    BY <2>1 DEF Holds, Disagree
  <2> QED
    BY <1>1, <2>1, <2>2 DEF Conflicting
<1> QED
  BY <1>1 DEF Stands

\* ... and there is only one aggregate that does.
LEMMA StandsAlone == ASSUME NEW e, NEW f, NEW D, Stands(e, D), Stands(f, D) PROVE e = f
<1>1. CASE Conflicting(D)
  BY <1>1, RefusedIfConflicting
<1>2. CASE ~Conflicting(D)
  <2>1. e \in Merges /\ f \in Merges /\ e # Absent /\ f # Absent
    BY <1>2, RefusedIfConflicting DEF Stands
  <2> DEFINE I == Included(D)
  <2>2. /\ \A d \in I : Holds(e, d.policy) /\ Holds(f, d.policy)
        /\ Sourced(e, I) /\ Sourced(f, I)
    BY <2>1 DEF Stands
  <2> HIDE DEF I
  <2>3. ASSUME NEW s \in KeyedSections PROVE e[s] = f[s]
    <3>1. e[s] \in Sections /\ f[s] \in Sections
      BY <2>1 DEF Merges, KeyedSections
    <3>2. ASSUME NEW k \in DOMAIN e[s] PROVE k \in DOMAIN f[s] /\ e[s][k] = f[s][k]
      <4>1. PICK d \in I : k \in Keys(d.policy[s])
        BY <2>2 DEF Sourced
      <4> QED
        BY <2>2, <4>1 DEF Holds
    <3>3. ASSUME NEW k \in DOMAIN f[s] PROVE k \in DOMAIN e[s]
      <4>1. PICK d \in I : k \in Keys(d.policy[s])
        BY <2>2 DEF Sourced
      <4> QED
        BY <2>2, <4>1 DEF Holds
    <3>4. PICK K : e[s] \in [K -> PolicyActions]
      BY <3>1 DEF Sections
    <3>5. PICK L : f[s] \in [L -> PolicyActions]
      BY <3>1 DEF Sections
    <3>6. K = L
      <4>1. DOMAIN e[s] = K /\ DOMAIN f[s] = L
        BY <3>4, <3>5
      <4> QED
        BY <3>2, <3>3, <4>1
    <3> QED
      BY <3>2, <3>4, <3>5, <3>6
  <2>4. e.sshkey = f.sshkey
    <3>1. \A d \in I : d.policy.sshkey # Absent => e.sshkey = d.policy.sshkey /\ f.sshkey = d.policy.sshkey
      BY <2>2 DEF Holds
    <3>2. e.sshkey # Absent => \E d \in I : d.policy.sshkey = e.sshkey
      BY <2>2 DEF Sourced
    <3>3. f.sshkey # Absent => \E d \in I : d.policy.sshkey = f.sshkey
      BY <2>2 DEF Sourced
    <3> QED
      BY <3>1, <3>2, <3>3
  <2>5. e.files = f.files /\ e.units = f.units
    BY <2>3 DEF KeyedSections
  <2>6. /\ e = [files |-> e.files, units |-> e.units, sshkey |-> e.sshkey]
        /\ f = [files |-> f.files, units |-> f.units, sshkey |-> f.sshkey]
    BY <2>1 DEF Merges
  <2> QED
    BY <2>4, <2>5, <2>6, Zenon
<1> QED
  BY <1>1, <1>2

LEMMA PolicyStepKeeps ==
    ASSUME PolicyInv, NEW d \in dependents, MergeDependent(d)
    PROVE  PolicyInv'
<1>1. /\ merged' = merged \cup {d} /\ aggregate' = AddDependent(aggregate, d) /\ dependents' = dependents
  BY DEF MergeDependent
<1>2. Stands(AddDependent(aggregate, d), merged \cup {d})
  BY DependentTypes, AddStands DEF PolicyInv
<1> QED
  BY <1>1, <1>2 DEF PolicyInv

LEMMA PolicyInvariant == Spec => []PolicyInv
<1>1. Init => PolicyInv
  <2> SUFFICES ASSUME Init PROVE PolicyInv
    OBVIOUS
  <2>1. dependents \in DependentSets \cup {{}} /\ merged = {} /\ aggregate = NoEntries
    BY DEF Init, PolicyInit
  <2> QED
    BY <2>1, NothingStands DEF PolicyInv
<1>2. PolicyInv /\ [Next]_vars => PolicyInv'
  <2> SUFFICES ASSUME PolicyInv, [Next]_vars PROVE PolicyInv'
    OBVIOUS
  <2>1. CASE UNCHANGED policyVars
    BY <2>1 DEF policyVars, PolicyInv
  <2>2. CASE PolicyStep
    BY <2>2, PolicyStepKeeps DEF PolicyStep
  <2> QED
    BY <2>1, <2>2 DEF Next, vars, policyVars
<1> QED
  BY <1>1, <1>2, PTL DEF Spec

\* For all catalogs of dependents and every order of them: the aggregate is refused
\* exactly if there is a conflict (node_disruption_policy.go 212-302).
THEOREM ConflictsAreRefusedAlways == Spec => []ConflictsAreRefused
<1>1. PolicyInv => ConflictsAreRefused
  <2> SUFFICES ASSUME PolicyInv, merged = dependents \/ aggregate = Absent
               PROVE  aggregate = Absent <=> Conflicting(dependents)
    BY DEF ConflictsAreRefused
  <2>1. aggregate = Absent <=> Conflicting(merged)
    BY RefusedIfConflicting DEF PolicyInv
  <2>2. Included(merged) \subseteq Included(dependents)
    BY DEF PolicyInv, Included
  <2>3. Conflicting(merged) => Conflicting(dependents)
    BY <2>2 DEF Conflicting
  <2> QED
    BY <2>1, <2>3
<1> QED
  BY <1>1, PolicyInvariant, PTL

\* For all catalogs of dependents: once MCO's status holds the aggregate, no
\* dependent has to wait, and all it changes has an action
\* (node_disruption_policy.go 317-342, 537-609).
THEOREM AggregateServesAllAlways == Spec => []AggregateServesAll
<1>1. PolicyInv => AggregateServesAll
  <2> SUFFICES ASSUME PolicyInv, aggregate # Absent PROVE AggregateServesAll
    BY DEF AggregateServesAll
  <2>1. /\ \A d \in Included(merged) : ~Faulty(d) /\ Holds(aggregate, d.policy)
        /\ Sourced(aggregate, Included(merged)) /\ aggregate \in Merges
    BY DEF PolicyInv, Stands
  <2>2. aggregate.files # Absent /\ aggregate.units # Absent
    BY <2>1, PolicyAssumption DEF Merges
  <2>3. ASSUME NEW d \in Included(merged) PROVE ActsOn(aggregate, d.mc)
    <3>1. d.policy # Absent /\ ActsOn(d.policy, d.mc) /\ Holds(aggregate, d.policy)
      BY <2>1 DEF Faulty
    <3> QED
      BY <2>2, <3>1 DEF ActsOn, Holds, Keys, KeyedSections
  <2>4. ASSUME NEW d \in Included(merged), WellFormed(d.policy)
        PROVE  EntriesMatch(aggregate, d.policy) = "yes"
    <3>1. Holds(aggregate, d.policy)
      BY <2>1
    <3> QED
      BY <2>2, <2>4, <3>1 DEF EntriesMatch, NamedEntriesMatch, Holds, WellFormed, Keys, KeyedSections
  <2> QED
    BY <2>1, <2>3, <2>4 DEF AggregateServesAll, Sourced
<1> QED
  BY <1>1, PolicyInvariant, PTL

-----------------------------------------------------------------------------
(* The aggregate as a function of the list of dependents *)

\* What AggregateEntries computes, step by step.
LEMMA AggregateUnfolds ==
    ASSUME NEW ds, Len(ds) \in Nat, \A n \in 1 .. Len(ds) : IsDependent(ds[n])
    PROVE  \E h : /\ h[0] = NoEntries /\ \A n \in 1 .. Len(ds) : h[n] = AddDependent(h[n - 1], ds[n])
                  /\ AggregateEntries(ds) = h[Len(ds)]
<1> DEFINE N == Len(ds)
           V == {e \in Merges \cup {Absent} : \E D : Stands(e, D)}
           R == [n \in 1 .. N |-> [e \in V |-> AddDependent(e, ds[n])]]
           Is(g) == g = [n \in 0 .. N |-> IF n = 0 THEN NoEntries ELSE AddDependent(g[n - 1], ds[n])]
<1>1. ASSUME NEW e \in V, NEW n \in 1 .. N PROVE AddDependent(e, ds[n]) \in V
  <2>1. PICK D : Stands(e, D)
    OBVIOUS
  <2>2. Stands(AddDependent(e, ds[n]), D \cup {ds[n]})
    BY <2>1, AddStands
  <2> QED
    BY <2>2 DEF Stands
<1>2. NoEntries \in V
  BY NothingStands DEF Stands
<1> HIDE DEF V
<1>3. R \in [1 .. N -> [V -> V]]
  BY <1>1
<1>4. \A n \in 1 .. N, e \in V : R[n][e] = AddDependent(e, ds[n])
  OBVIOUS
<1> HIDE DEF R
<1>5. PICK f : Computes(f, N, NoEntries, R, V)
  BY <1>2, <1>3, RecursionExists
<1>6. Is(f)
  <2>1. f \in [0 .. N -> V] /\ f[0] = NoEntries /\ \A n \in 1 .. N : f[n] = R[n][f[n - 1]]
    BY <1>5 DEF Computes
  <2>2. \A n \in 1 .. N : n - 1 \in 0 .. N
    OBVIOUS
  <2>3. \A n \in 1 .. N : f[n] = AddDependent(f[n - 1], ds[n])
    BY <1>4, <2>1, <2>2
  <2>4. \A n \in 0 .. N : f[n] = IF n = 0 THEN NoEntries ELSE AddDependent(f[n - 1], ds[n])
    BY <2>1, <2>3
  <2> QED
    BY <2>1, <2>4
<1> DEFINE h == CHOOSE g : Is(g)
<1>7. Is(h)
  <2> HIDE DEF Is
  <2> QED
    BY <1>6
<1>8. AggregateEntries(ds) = h[N]
  BY DEF AggregateEntries
<1> HIDE DEF h
<1>9. h[0] = NoEntries /\ \A n \in 1 .. N : h[n] = AddDependent(h[n - 1], ds[n])
  BY <1>7
<1> QED
  BY <1>8, <1>9

\* For every list of dependents, of any length: nodeDisruptionPolicyAggregateEntries
\* is an error exactly if two of their policies disagree or one is missing or does
\* not cover its MachineConfig, and holds all their policies and no others if not
\* (node_disruption_policy.go 212-302).
THEOREM AggregateOfAnyList ==
    ASSUME NEW D, \A d \in D : IsDependent(d), NEW ds \in Seq(D), Range(ds) = D
    PROVE  /\ AggregateEntries(ds) = Absent <=> Conflicting(D)
           /\ Stands(AggregateEntries(ds), D)
<1> DEFINE N == Len(ds)
           Part(n) == {ds[i] : i \in 1 .. n}
<1>1. N \in Nat /\ DOMAIN ds = 1 .. N
  OBVIOUS
<1>2. \A n \in 1 .. N : IsDependent(ds[n])
  BY <1>1
<1>3. PICK h : /\ h[0] = NoEntries /\ \A n \in 1 .. N : h[n] = AddDependent(h[n - 1], ds[n])
               /\ AggregateEntries(ds) = h[N]
  BY <1>1, <1>2, AggregateUnfolds
<1>0. N \in Nat
  BY <1>1
<1> HIDE DEF N
<1> DEFINE S == {n \in 0 .. N : Stands(h[n], Part(n))}
<1>4. 0 \in S
  <2>1. Part(0) = {} /\ 0 \in 0 .. N
    BY <1>0
  <2> QED
    BY <1>3, <2>1, NothingStands, Zenon
<1>5. ASSUME NEW n \in 0 .. N, n \in S, n # N PROVE n + 1 \in S
  <2>1. Stands(h[n], Part(n))
    BY <1>5, Zenon
  <2>2. n # N
    BY <1>5, Zenon
  <2> HIDE DEF S
  <2>3. n + 1 \in 1 .. N /\ n + 1 \in 0 .. N /\ (n + 1) - 1 = n
    BY <1>0, <2>2
  <2>4. Part(n + 1) = Part(n) \cup {ds[n + 1]}
    BY <1>0, <2>2
  <2>5. h[n + 1] = AddDependent(h[n], ds[n + 1]) /\ IsDependent(ds[n + 1])
    BY <1>2, <1>3, <2>3
  <2> HIDE DEF Part
  <2>6. Stands(h[n + 1], Part(n + 1))
    <3>1. Stands(AddDependent(h[n], ds[n + 1]), Part(n) \cup {ds[n + 1]})
      BY <2>1, <2>5, AddStands
    <3> QED
      BY <2>4, <2>5, <3>1, Zenon
  <2> QED
    BY <2>3, <2>6, Zenon DEF S
<1>6. N \in S
  <2> HIDE DEF S
  <2>1. \A n \in 0 .. N : n \in S
    BY <1>0, <1>4, <1>5, UpToInduction, Zenon
  <2> QED
    BY <1>0, <2>1
<1>7. Part(N) = D
  BY <1>1 DEF Range
<1>8. Stands(AggregateEntries(ds), D)
  BY <1>3, <1>6, <1>7, Zenon
<1> QED
  BY <1>8, RefusedIfConflicting

\* The aggregate does not depend on the order of the list nor on repetitions, so the
\* unstable sort of the catalog cannot make MCO's policy change from pass to pass
\* (registry.go 266-283, node_disruption_policy.go 212-302).
THEOREM OrderMakesNoDifference ==
    ASSUME NEW D, \A d \in D : IsDependent(d),
           NEW ds \in Seq(D), Range(ds) = D, NEW es \in Seq(D), Range(es) = D
    PROVE  AggregateEntries(ds) = AggregateEntries(es)
<1>1. Stands(AggregateEntries(ds), D) /\ Stands(AggregateEntries(es), D)
  BY AggregateOfAnyList
<1> QED
  BY <1>1, StandsAlone

\* The loop over the dependents, when it is through or has returned an error, has
\* computed what AggregateEntries says of any list of them.
LoopIsAggregate ==
    merged = dependents \/ aggregate = Absent =>
      \A ds \in Seq(dependents) : Range(ds) = dependents => aggregate = AggregateEntries(ds)

\* For all catalogs and every order in which the loop takes the dependents, it ends
\* with the same result as any other order (node_disruption_policy.go 212-302).
THEOREM LoopComputesAggregate == Spec => []LoopIsAggregate
<1>1. PolicyInv => LoopIsAggregate
  <2> SUFFICES ASSUME PolicyInv, merged = dependents \/ aggregate = Absent,
                      NEW ds \in Seq(dependents), Range(ds) = dependents
               PROVE  aggregate = AggregateEntries(ds)
    BY DEF LoopIsAggregate
  <2>1. \A d \in dependents : IsDependent(d)
    BY DependentTypes
  <2>2. /\ AggregateEntries(ds) = Absent <=> Conflicting(dependents)
        /\ Stands(AggregateEntries(ds), dependents)
    BY <2>1, AggregateOfAnyList
  <2>3. CASE aggregate = Absent
    <3>1. Conflicting(merged)
      BY <2>3 DEF PolicyInv, Stands
    <3>2. Included(merged) \subseteq Included(dependents)
      BY DEF PolicyInv, Included
    <3>3. Conflicting(dependents)
      BY <3>1, <3>2 DEF Conflicting
    <3> QED
      BY <2>2, <2>3, <3>3
  <2>4. CASE merged = dependents
    BY <2>2, <2>4, StandsAlone DEF PolicyInv
  <2> QED
    BY <2>3, <2>4
<1> QED
  BY <1>1, PolicyInvariant, PTL

-----------------------------------------------------------------------------
(* Types *)

\* For every catalog and list, the variables of the four loops stay within their
\* types, and every loop within its list.
THEOREM CatalogTypeCorrect == Spec => []CatalogTypeOK
<1>1. RBACInv => /\ walked.active \subseteq catalog.active /\ walked.tombstones \subseteq catalog.tombstones
                 /\ walked.roles \in BOOLEAN /\ seen \subseteq APIs \X Kinds \X (Names \cup {NoName})
                 /\ resources \in Seq([api : APIs, kind : Kinds, name : Names \cup {NoName}, needsDelete : BOOLEAN])
                 /\ collected \subseteq PolicyRules
  <2> SUFFICES ASSUME RBACInv
               PROVE  /\ walked.active \subseteq catalog.active /\ walked.tombstones \subseteq catalog.tombstones
                      /\ walked.roles \in BOOLEAN /\ seen \subseteq APIs \X Kinds \X (Names \cup {NoName})
                      /\ resources \in Seq([api : APIs, kind : Kinds, name : Names \cup {NoName}, needsDelete : BOOLEAN])
                      /\ collected \subseteq PolicyRules
    OBVIOUS
  <2>1. \A d \in AllDocuments : IsDocument(d)
    BY Documents DEF RBACInv
  <2>2. Walked \subseteq AllDocuments
    BY DEF RBACInv, WalkOK, Walked, AllDocuments
  <2>3. \A d \in AllDocuments : DeduplicationKey(d) \in APIs \X Kinds \X (Names \cup {NoName})
    BY <2>1 DEF DeduplicationKey, ByName, IsDocument
  <2>4. seen \subseteq APIs \X Kinds \X (Names \cup {NoName})
    <3>1. seen = {DeduplicationKey(d) : d \in Walked}
      BY DEF RBACInv, ResourcesOK
    <3> QED
      BY <2>2, <2>3, <3>1
  <2>5. collected \subseteq PolicyRules
    <3>1. \A d \in catalog.active : d.rules \subseteq PolicyRules
      BY <2>1 DEF IsDocument, AllDocuments
    <3>2. walked.roles \in BOOLEAN
      BY DEF RBACInv, WalkOK
    <3>3. CASE walked.roles
      <4>1. collected = UNION {d.rules : d \in {e \in catalog.active : e.kind \in RoleKinds}}
        BY <3>3 DEF RBACInv, RolesOK
      <4> QED
        BY <3>1, <4>1
    <3>4. CASE ~walked.roles
      BY <3>4 DEF RBACInv, RolesOK
    <3> QED
      BY <3>2, <3>3, <3>4
  <2> QED
    BY <2>4, <2>5 DEF RBACInv, WalkOK, ResourcesOK, ResourceType
<1>2. ActivationInv => /\ taken \subseteq considered /\ considered \subseteq counted /\ counted \subseteq assets
                       /\ considered # {} => counted = assets
  BY DEF ActivationInv
<1>3. PolicyInv => merged \subseteq dependents /\ aggregate \in Merges \cup {Absent}
  BY DEF PolicyInv, Stands
<1>4. ClassInv => passed \subseteq classes /\ selected \in passed \cup {NoClass}
  BY DEF ClassInv, NewestDefaultIsSelected, Defaults
<1>5. RBACInv /\ ActivationInv /\ PolicyInv /\ ClassInv => CatalogTypeOK
  BY <1>1, <1>2, <1>3, <1>4 DEF CatalogTypeOK
<1> QED
  BY <1>5, RBACInvariant, ActivationInvariant, PolicyInvariant, ClassInvariant, PTL
=============================================================================
