----------------------------- MODULE MetricsTLS -----------------------------
(***************************************************************************)
(* The TLS policy of the metrics endpoint and of the assets that render    *)
(* it: the two caches of pkg/tlsprofile, the pool of client CAs of         *)
(* pkg/metricstls, and MetricsTLSReconciler, one action per access to the  *)
(* API server or to state that other threads read.                         *)
(***************************************************************************)
EXTENDS Integers

CONSTANTS Profiles,      \* usable TLS profiles
          Hollow,        \* a Custom profile without ciphers
          Default,       \* the Intermediate profile
          NoProfile,     \* the field is not set
          NoObject,      \* the APIServer or the ConfigMap is not there
          CAs,           \* valid bundles of client CAs
          BadCA,         \* a bundle without a certificate
          APIServers, HCOs, Bundles,   \* what the cluster may hold of each
          MaxTLSMoves    \* bound on disturbances

ASSUME TLSAssumption ==
    /\ {Hollow, Default, NoProfile, NoObject} \cap Profiles = {}
    /\ Hollow # Default /\ NoProfile \notin {Hollow, Default} /\ NoObject \notin {Hollow, Default, NoProfile}
    /\ {NoObject, BadCA} \cap CAs = {} /\ NoObject # BadCA
    /\ APIServers \subseteq Profiles \cup {Hollow, NoProfile, NoObject}
    /\ HCOs \subseteq Profiles \cup {Hollow, NoProfile}
    /\ Bundles \subseteq CAs \cup {BadCA, NoObject}
    /\ MaxTLSMoves \in Nat

VARIABLES
    \* the cluster
    apiServer,    \* the profile of the APIServer CR, or NoObject
    hcoProfile,   \* the profile of the HCO
    configMap,    \* the bundle of the client-CA ConfigMap
    cert,         \* the serving certificate is mounted
    rendered,     \* the profile in the assets last rendered
    \* the process
    hcCache,      \* hyperConvergedProfile
    apiCache,     \* apiServerProfile
    pool,         \* ClientCAPool: a bundle, or NoObject while it is nil
    secure,       \* secureMetrics
    watching,     \* watchAPIServer
    channel,      \* an event is in tlsProfileEvents
    tlsPending,   \* a request is in the work queue of metrics-tls
    tlsPc,        \* where its Reconcile is
    read,         \* what it has read
    tlsMoves

clusterTLS == <<apiServer, hcoProfile, configMap, cert>>
tlsVars == <<apiServer, hcoProfile, configMap, cert, rendered, hcCache, apiCache, pool,
             secure, watching, channel, tlsPending, tlsPc, read, tlsMoves>>

TLSDisturb == tlsMoves < MaxTLSMoves /\ tlsMoves' = tlsMoves + 1
TLSCalm    == tlsMoves' = tlsMoves

-----------------------------------------------------------------------------
(* pkg/tlsprofile *)

\* An override that cannot be used gives way to the APIServer's profile.
Resolve_FallThrough(hc, api) ==
    IF hc \notin {NoProfile, Hollow} THEN hc
    ELSE IF api \notin {NoProfile, Hollow} THEN api ELSE Default

\* The override of the HCO, the profile of the APIServer, the default; a Custom
\* profile without ciphers stands for the default.
Resolve(hc, api) ==
    LET profile == CASE hc # NoProfile -> hc
                     [] hc = NoProfile /\ api # NoProfile -> api
                     [] OTHER -> Default
    IN  IF profile = Hollow THEN Default ELSE profile

\* ResolvedGoConfig, on every connection to the metrics endpoint.
Served == Resolve(hcCache, apiCache)

\* SetHyperConvergedProfileFromUnstructured, at the start of every pass.
TrackHCO == hcCache' = hcoProfile

\* resolvedTLS* of the renderer pass no override.
RenderTLS == rendered' = Resolve(NoProfile, apiCache)

-----------------------------------------------------------------------------
(* pkg/metricstls *)

\* Any bundle replaces the pool.
PoolAfter_AnyBundle(bundle) == IF bundle = BadCA THEN NoObject ELSE bundle

\* ClientCAPool.Set keeps the pool if the bundle has no certificate.
PoolAfter(bundle) == IF bundle = BadCA THEN pool ELSE bundle

-----------------------------------------------------------------------------
(* MetricsTLSReconciler.Reconcile *)

At(label) == tlsPc = label

\* An error is retried with backoff.
Retried == tlsPc' = "idle" /\ tlsPending' = TRUE /\ read' = NoObject

TLSBegin(label) == /\ At("idle") /\ secure /\ tlsPending /\ tlsPending' = FALSE /\ tlsPc' = label

\* RefreshAPIServer, if there is anything to watch, reads the CR.  No CR is no
\* reason to forget its profile; another error puts the request back, and nothing
\* has changed.
ReadAPIServer ==
    /\ \/ watching /\ apiServer # NoObject /\ TLSBegin("setProfile") /\ read' = apiServer /\ TLSCalm
       \/ (~watching \/ apiServer = NoObject) /\ TLSBegin("readCA") /\ read' = read /\ TLSCalm
    /\ UNCHANGED <<clusterTLS, rendered, hcCache, apiCache, pool, secure, watching, channel>>

\* The change goes unnoticed.
SetProfile_Unnoticed ==
    /\ At("setProfile")
    /\ apiCache' = read /\ read' = NoObject /\ tlsPc' = "readCA"
    /\ UNCHANGED <<clusterTLS, rendered, hcCache, pool, secure, watching, channel, tlsPending, tlsMoves>>

\* The cache is set, and tells whether that changed it.
SetProfile ==
    /\ At("setProfile")
    /\ apiCache' = read /\ read' = NoObject
    /\ tlsPc' = IF apiCache # read THEN "notify" ELSE "readCA"
    /\ UNCHANGED <<clusterTLS, rendered, hcCache, pool, secure, watching, channel, tlsPending, tlsMoves>>

\* notifyPolicyChanged: the event is dropped if one is in the channel.
Notify ==
    /\ At("notify")
    /\ channel' = TRUE /\ tlsPc' = "readCA"
    /\ UNCHANGED <<clusterTLS, rendered, hcCache, apiCache, pool, secure, watching, tlsPending, read, tlsMoves>>

\* RefreshClientCA.  No ConfigMap: wait for the next event.
ReadCA ==
    /\ At("readCA")
    /\ \/ /\ configMap # NoObject /\ read' = configMap /\ tlsPc' = "setCA"
          /\ UNCHANGED <<tlsPending, tlsMoves>>
       \/ /\ configMap = NoObject /\ tlsPc' = "idle" /\ UNCHANGED <<read, tlsPending, tlsMoves>>
       \/ TLSDisturb /\ Retried
    /\ UNCHANGED <<clusterTLS, rendered, hcCache, apiCache, pool, secure, watching, channel>>

\* What was read is kept for the next time.
SetCA_KeepsRead ==
    /\ At("setCA")
    /\ pool' = PoolAfter(read)
    /\ IF read = BadCA THEN Retried ELSE tlsPc' = "idle" /\ UNCHANGED <<read, tlsPending>>
    /\ UNCHANGED <<clusterTLS, rendered, hcCache, apiCache, secure, watching, channel, tlsMoves>>

\* A bundle without a certificate is an error.
SetCA ==
    /\ At("setCA")
    /\ pool' = PoolAfter(read)
    /\ IF read = BadCA THEN Retried ELSE tlsPc' = "idle" /\ read' = NoObject /\ tlsPending' = tlsPending
    /\ UNCHANGED <<clusterTLS, rendered, hcCache, apiCache, secure, watching, channel, tlsMoves>>

TLSStep == ReadAPIServer \/ SetProfile \/ Notify \/ ReadCA \/ SetCA

-----------------------------------------------------------------------------
(* The cluster.  A change of a watched object is a request. *)

TLSChanges ==
    /\ TLSDisturb
    /\ \/ /\ apiServer' \in APIServers \ {apiServer}
          /\ tlsPending' = (tlsPending \/ (secure /\ watching)) /\ UNCHANGED <<hcoProfile, configMap>>
       \/ /\ hcoProfile' \in HCOs \ {hcoProfile}
          /\ UNCHANGED <<tlsPending, apiServer, configMap>>
       \/ /\ configMap' \in Bundles \ {configMap}
          /\ tlsPending' = (tlsPending \/ secure) /\ UNCHANGED <<hcoProfile, apiServer>>
    /\ UNCHANGED <<cert, rendered, hcCache, apiCache, pool, secure, watching, channel, tlsPc, read>>

\* service-ca mounts the serving certificate.
CertMounted ==
    /\ ~cert /\ cert' = TRUE /\ TLSDisturb
    /\ UNCHANGED <<apiServer, hcoProfile, configMap, rendered, hcCache, apiCache, pool,
                   secure, watching, channel, tlsPending, tlsPc, read>>

-----------------------------------------------------------------------------
(* Start and end of the process *)

\* seedTLSState, either read of which may fail; whether the certificate is there;
\* whether there is an APIServer to watch, which a failed check denies for the
\* life of the process.  The lists of the informers are the first request.
TLSStart ==
    /\ \/ /\ TLSCalm /\ watching' = TRUE
          /\ apiCache' = IF apiServer = NoObject THEN NoProfile ELSE apiServer
          /\ pool' = IF configMap \in CAs THEN configMap ELSE NoObject
       \/ TLSDisturb /\ watching' \in BOOLEAN /\ apiCache' = NoProfile /\ pool' = NoObject
    /\ secure' = cert /\ tlsPending' = cert
    /\ UNCHANGED <<clusterTLS, rendered, hcCache, channel, tlsPc, read>>

TLSStop ==
    /\ hcCache' = NoProfile /\ apiCache' = NoProfile /\ pool' = NoObject
    /\ secure' = FALSE /\ watching' = FALSE /\ channel' = FALSE
    /\ tlsPending' = FALSE /\ tlsPc' = "idle" /\ read' = NoObject
    /\ UNCHANGED <<clusterTLS, rendered>>

TLSInit ==
    /\ apiServer = NoProfile /\ hcoProfile = NoProfile /\ configMap \in CAs /\ cert \in BOOLEAN
    /\ rendered = Default /\ hcCache = NoProfile /\ apiCache = NoProfile /\ pool = NoObject
    /\ secure = FALSE /\ watching = FALSE /\ channel = FALSE
    /\ tlsPending = FALSE /\ tlsPc = "idle" /\ read = NoObject
    /\ tlsMoves \in 0 .. MaxTLSMoves

-----------------------------------------------------------------------------
(* Properties *)

AnyProfile == Profiles \cup {Hollow, NoProfile}

TLSTypeOK ==
    /\ apiServer \in AnyProfile \cup {NoObject} /\ hcoProfile \in AnyProfile
    /\ configMap \in CAs \cup {BadCA, NoObject} /\ cert \in BOOLEAN
    /\ rendered \in Profiles \cup {Default}
    /\ hcCache \in AnyProfile /\ apiCache \in AnyProfile /\ pool \in CAs \cup {NoObject}
    /\ secure \in BOOLEAN /\ watching \in BOOLEAN /\ channel \in BOOLEAN
    /\ tlsPending \in BOOLEAN /\ tlsMoves \in 0 .. MaxTLSMoves
    /\ CASE tlsPc = "setProfile" -> read \in AnyProfile
         [] tlsPc = "setCA" -> read \in CAs \cup {BadCA}
         [] OTHER -> tlsPc \in {"idle", "notify", "readCA"} /\ read = NoObject

\* What the policy is meant to be.
Wanted(hc, api) ==
    IF hc # NoProfile THEN IF hc \in Profiles THEN hc ELSE Default
    ELSE IF api \in Profiles THEN api ELSE Default
=============================================================================
