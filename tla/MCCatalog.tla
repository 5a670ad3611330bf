----------------------------- MODULE MCCatalog ------------------------------
(* Small documents, clusters, policies and storage classes for Catalog.      *)
EXTENDS Catalog

UpTo(n, S) == {T \in SUBSET S : Cardinality(T) <= n}

-----------------------------------------------------------------------------
(* Documents: two groups with a sensitive kind and others, and three roles   *)
(* whose rules overlap in group, resources and names.                        *)

MCGroupOf == [a \in APIs |-> CASE a = "v1" -> "core" [] a \in {"rbac/v1", "rbac/v1beta1"} -> "rbac"]
MCPlural  == [k \in Kinds |-> CASE k = "ConfigMap" -> "configmaps" [] k = "Service" -> "services"
                                [] k = "ClusterRole" -> "clusterroles" [] k = "Role" -> "roles"
                                [] k = "SCC" -> "sccs"]

Doc(a, k, n, rs) == [api |-> a, kind |-> k, name |-> n, rules |-> rs]
Perm(rs, ns, vs) == [groups |-> {"core"}, resources |-> rs, names |-> ns, verbs |-> vs]

ActiveDocs ==
    {Doc("v1", "ConfigMap", "a", {}), Doc("v1", "ConfigMap", NoName, {}),
     Doc("rbac/v1", "SCC", NoName, {}),
     Doc("rbac/v1", "ClusterRole", "a", {Perm({"configmaps"}, {}, {"get"})}),
     Doc("rbac/v1", "ClusterRole", "b", {Perm({"services"}, {"a"}, {"get", "delete"}), Perm({"services"}, {"b"}, {"patch"})}),
     Doc("rbac/v1", "Role", "a", {Perm({"services"}, {}, {"list"})})}

Tombstones ==
    {Doc("v1", "ConfigMap", "b", {}), Doc("v1", "Service", "a", {}), Doc("rbac/v1", "SCC", NoName, {}),
     Doc("rbac/v1", "ClusterRole", "a", {}), Doc("rbac/v1beta1", "ClusterRole", "b", {})}

MCCatalogs == {[active |-> A, tombstones |-> T] : A \in UpTo(3, ActiveDocs), T \in UpTo(2, Tombstones)}

-----------------------------------------------------------------------------
(* Assets and clusters.  Exporter is the CRD that assets share.              *)

Cond(t, a, v) == [type |-> t, arg |-> a, value |-> v]
OptIn    == Cond("annotation", "enable", "true")
Gate     == Cond("feature-gate", "gate", NoArg)
Masters  == Cond("topology", "hasSchedulableMasters", NoArg)

Asset(i, cs, r, g, grp) ==
    [install |-> i, conditions |-> cs, required |-> r, gate |-> g, group |-> grp,
     renders |-> "object", previews |-> "object", object |-> [kind |-> grp, name |-> "asset", namespace |-> "ns"]]

AssetPool ==
    {Asset("always", <<>>, "exporters", NoArg, "custom"),
     Asset("always", <<OptIn>>, NoArg, NoArg, "core"),
     Asset("opt-in", <<>>, NoArg, "exporters", "core"),
     Asset("opt-in", <<OptIn, Gate>>, "exporters", NoArg, "custom"),
     Asset("opt-in", <<Gate>>, "exporters", "others", "custom"),
     Asset("opt-in", <<Gate, Masters>>, "exporters", NoArg, "custom"),
     Asset("opt-in", <<Cond("annotation", "enable", NoArg), Cond("topology", "isCompact", NoArg), Cond("topology", "isBareMetal", NoArg)>>, NoArg, NoArg, "core"),
     Asset("opt-in", <<Cond("image", "exporter", NoArg), Cond("hco-field-unconfigured", "spec.tuning", NoArg)>>, NoArg, NoArg, "core"),
     Asset("opt-in", <<Cond("hardware-detection", "pci", NoArg), Cond("kubevirt-feature-gate", "kv", NoArg)>>, "exporters", NoArg, "custom"),
     Asset("opt-in", <<Cond("topology", "masterCount", NoArg)>>, "exporters", NoArg, "custom"),
     [Asset("opt-in", <<Gate>>, NoArg, NoArg, "core") EXCEPT !.renders = "empty", !.previews = "empty"],
     [Asset("opt-in", <<OptIn>>, "exporters", NoArg, "custom") EXCEPT !.renders = "error"],
     [Asset("always", <<Gate>>, NoArg, NoArg, "core") EXCEPT !.previews = "empty"],
     [Asset("opt-in", <<Cond("feature-gate", NoArg, NoArg)>>, "exporters", NoArg, "custom") EXCEPT !.renders = "error", !.previews = "error"]}

MCAssetSets == {S \in UpTo(2, AssetPool) : S # {}}

Node(m, w, ds) == [master |-> m, worker |-> w, devices |-> ds]
Compact  == <<Node(TRUE, TRUE, {"pci"}), Node(TRUE, TRUE, {})>>
Standard == <<Node(TRUE, FALSE, {}), Node(FALSE, TRUE, {})>>

Setting(v)  == [k \in {"enable"} |-> v]
GateIs(s)   == [name |-> "gate", state |-> s]
ExcludeCore == [kind |-> "core", names |-> {"asset"}, namespaces |-> NoArg]
BadRule     == [kind |-> "core", names |-> NoArg, namespaces |-> NoArg]

MCWorlds ==
    {[nodes |-> n, infra |-> "HighlyAvailable", provider |-> IF n = Compact THEN "BareMetal" ELSE "AWS", scheduler |-> IF n = Compact THEN "yes" ELSE "no", fails |-> f,
      annotations |-> a, gates |-> g, kubevirt |-> IF f = {} THEN "found" ELSE "absent", kvGates |-> {"kv"},
      images |-> {"exporter"}, configured |-> {}, crds |-> {"exporters"}, rules |-> r] :
        n \in {Compact, Standard}, f \in {{}, {"scheduler"}, {"nodes"}},
        a \in {<<>>, Setting("true"), Setting("false")},
        g \in {<<>>, <<GateIs("Enabled")>>, <<GateIs("Enabled"), GateIs("Disabled")>>},
        r \in {{}, {ExcludeCore}, {ExcludeCore, BadRule}}}

-----------------------------------------------------------------------------
(* Policies of MachineConfigs with the files f and g, a unit and SSH keys    *)

Entry(k, act) == [x \in {k} |-> act]
Dep(p, fs, us, ssh) ==
    [active |-> TRUE, excluded |-> FALSE, rendered |-> TRUE, policy |-> p,
     mc |-> [files |-> fs, units |-> us, ssh |-> ssh, other |-> FALSE]]
Policy(fs, us, key) == [files |-> fs, units |-> us, sshkey |-> key]

DependentPool ==
    {Dep(Policy(Entry("f", "restart"), Absent, Absent), {"f"}, {}, FALSE),
     Dep(Policy(Entry("f", "restart"), Entry("u", "reload"), Absent), {"f"}, {"u"}, FALSE),
     Dep(Policy(Entry("f", "none"), Absent, Absent), {"f"}, {}, FALSE),
     Dep(Policy(Entry("g", "none"), Entry("u", "reload"), "restart"), {}, {"u"}, TRUE),
     Dep(Policy(Absent, Absent, "none"), {}, {}, TRUE),
     Dep(Policy(Absent, Entry("v", "restart"), Absent), {}, {"u"}, FALSE),
     Dep(Policy(<<>>, Absent, Absent), {}, {}, FALSE),
     Dep(Absent, {"f"}, {}, FALSE),
     [Dep(Policy(Entry("f", "none"), Absent, Absent), {"f"}, {}, FALSE) EXCEPT !.excluded = TRUE]}

MCDependentSets == {D \in UpTo(3, DependentPool) : D # {}}

-----------------------------------------------------------------------------
(* Storage classes *)

ClassPool == [name : 1 .. 3, created : 0 .. 1, isDefault : BOOLEAN]

MCClassSets == {C \in UpTo(3, ClassPool) : C # {} /\ \A c, d \in C : c.name = d.name => c = d}
=============================================================================
