-------------------------- MODULE OperatorProcess ---------------------------
(***************************************************************************)
(* The process of cmd/main.go: what a start sets up, the threads that run  *)
(* until the manager's context is cancelled, and the restarts that CRDs    *)
(* (CRDLifecycle) and the serving certificate bring about.  A restart      *)
(* forgets the TLS state (MetricsTLS), and the platform controller's       *)
(* passes carry the TLS policy into the cluster.                           *)
(***************************************************************************)
EXTENDS CRDLifecycle, MetricsTLS

vars == <<installed, since, phase, stopping, known, watched, listed, cache, plan, flight,
          pending, pass, skipped, retry, active, missing, crdMoves,
          apiServer, hcoProfile, configMap, cert, rendered, hcCache, apiCache, pool,
          secure, watching, channel, tlsPending, tlsPc, read, tlsMoves>>

CONSTANT MaxMoves   \* bound on the disturbances of both

\* Every way to share out the disturbances.
Init == CRDInit /\ TLSInit /\ crdMoves + tlsMoves = MaxCRDMoves + MaxTLSMoves - MaxMoves

-----------------------------------------------------------------------------
(* The threads *)

\* The informers, and so the reconciler of metrics-tls, run on every replica.
TLSSteps == Informed /\ TLSStep /\ UNCHANGED crdVars

\* runController
Start == CRDStart /\ TLSStart

Stop  == CRDStop /\ TLSStop /\ TLSCalm
Crash == CRDCrash /\ TLSStop /\ ((Disturb /\ TLSCalm) \/ (Calm /\ TLSDisturb))

\* waitForServingCertThenRestart
CertRestart ==
    /\ Informed /\ ~secure /\ cert /\ ~stopping /\ stopping' = TRUE
    /\ UNCHANGED <<installed, since, phase, known, watched, listed, cache, plan, flight,
                   pending, pass, skipped, retry, active, missing, crdMoves, tlsVars>>

\* Reconcile tracks the HCO's override before anything else, and renders the
\* assets after it has chosen them.
Pass == \/ PassBegin /\ TrackHCO
           /\ UNCHANGED <<clusterTLS, rendered, apiCache, pool, secure, watching, channel, tlsPending, tlsPc, read, tlsMoves>>
        \/ PassEnd /\ RenderTLS
           /\ UNCHANGED <<clusterTLS, hcCache, apiCache, pool, secure, watching, channel, tlsPending, tlsPc, read, tlsMoves>>

\* The channel source turns the event into a request of the platform controller.
ChannelEvent ==
    /\ Informed /\ channel /\ channel' = FALSE /\ pending' = TRUE
    /\ UNCHANGED <<installed, since, phase, stopping, known, watched, listed, cache, plan, flight,
                   pass, skipped, retry, active, missing, crdMoves>>
    /\ UNCHANGED <<clusterTLS, rendered, hcCache, apiCache, pool, secure, watching, tlsPending, tlsPc, read, tlsMoves>>

Controller ==
    \/ (CacheHit \/ LookupGet \/ LookupSet \/ Fetch \/ SetupDone \/ Synced) /\ UNCHANGED tlsVars
    \/ Pass

Events  == (CRDEvent \/ \E c \in CRDs : ListKind(c)) /\ UNCHANGED tlsVars
Timer   == Requeue /\ UNCHANGED tlsVars
Clock   == Tick /\ UNCHANGED tlsVars
Process == Start \/ Stop \/ CertRestart

Disturbance ==
    \/ (WatchEvent \/ \E c \in CRDs : CRDUpdated(c) \/ CRDChanges(c)) /\ UNCHANGED tlsVars
    \/ (TLSChanges \/ CertMounted) /\ UNCHANGED crdVars
    \/ Crash

Next == Controller \/ Events \/ Timer \/ Clock \/ Process \/ TLSSteps \/ ChannelEvent \/ Disturbance

\* Every goroutine runs, time passes, and the deployment starts the process again.
\* Neither the certificate nor any change of the cluster is assumed.
Fairness ==
    /\ WF_vars(Controller) /\ WF_vars(Events) /\ WF_vars(Timer) /\ WF_vars(Clock)
    /\ WF_vars(Process) /\ WF_vars(TLSSteps) /\ WF_vars(ChannelEvent)

Spec == Init /\ [][Next]_vars /\ Fairness

-----------------------------------------------------------------------------
(* Properties *)

\* Values of the variables.
OperatorTypeOK == CRDTypeOK /\ TLSTypeOK

\* The channel may drop events, and still no change of the cached profile is
\* forgotten: while the rendered profile is another one, a pass is running,
\* requested, or about to be (metrics_tls_controller.go 119-127).
ChangesReachPasses ==
    phase = "up" /\ rendered # Resolve(NoProfile, apiCache)
      => pending \/ pass \/ channel \/ At("notify")

\* While the process lives, its pool is never emptied and never changes to
\* anything but a valid bundle (metricstls.go 89-96).
PoolStaysUsable == [][pool # NoObject /\ phase' # "down" => pool' \in CAs]_vars

\* Once the cluster's TLS settings change no more, connections are served with
\* the HCO's profile, or else the APIServer's, or else the default, and with the
\* current CAs (profile.go 76-83).
TLSSettles ==
    <>[](phase = "up" /\ secure /\ watching =>
           /\ apiServer # NoObject => Served = Wanted(hcoProfile, apiServer)
           /\ configMap \in CAs => pool = configMap)

\* renderer.go lines 223-225: the template functions "expose the effective HCO >
\* APIServer > Intermediate TLS policy to managed workloads".
WorkloadsGetHCOPolicy ==
    <>[](phase = "up" /\ secure /\ watching /\ apiServer # NoObject
           => rendered = Wanted(hcoProfile, apiServer))
=============================================================================
