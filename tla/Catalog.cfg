\* Up to three active documents and two tombstones, two assets, three dependents,
\* and three storage classes.
CONSTANTS
    APIs = {"v1", "rbac/v1", "rbac/v1beta1"}
    GroupOf <- MCGroupOf
    Kinds = {"ConfigMap", "Service", "ClusterRole", "Role", "SCC"}
    SensitiveKinds = {"ClusterRole", "SCC"}
    RoleKinds = {"ClusterRole", "Role"}
    Plural <- MCPlural
    Names = {"a", "b"}
    NoName = NoName
    Rendered = Rendered
    Catalogs <- MCCatalogs
    NoArg = NoArg
    NoContext = NoContext
    Worlds <- MCWorlds
    AssetSets <- MCAssetSets
    Absent = Absent
    PolicyKeys = {"f", "g", "u", "v"}
    PolicyActions = {"restart", "reload", "none"}
    DependentSets <- MCDependentSets
    ClassSets <- MCClassSets
    NoClass = NoClass
SPECIFICATION Spec
INVARIANTS CatalogTypeOK PermissionsSuffice SensitiveWritesAreScoped
           TakenAreOptedIn TopologyErrorsWithhold PreviewIsWhatIsSent
           ConflictsAreRefused AggregateServesAll NewestDefaultIsSelected
CHECK_DEADLOCK FALSE
