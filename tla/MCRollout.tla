------------------------------ MODULE MCRollout ------------------------------
(***************************************************************************)
(* One resource and a few edits for TLC.                                   *)
(***************************************************************************)
EXTENDS Rollout

TlsOf(enabled, secret) == [enabled |-> enabled, certSecret |-> secret,
                           min |-> Unset, max |-> Unset, ciphers |-> Unset]

MCOriginal ==
  [namespace |-> "ns", name |-> "authorino", labels |-> [app |-> "a"],
   spec |->
     [tag |-> <<"v0", "11", "0">>, imagePullPolicy |-> Unset, replicas |-> Unset, volumes |-> <<>>,
      authConfigLabelSelectors |-> Unset, secretLabelSelectors |-> Unset,
      supersedingHostSubsets |-> FALSE, clusterWide |-> FALSE,
      logLevel |-> Unset, logMode |-> Unset, timeout |-> Unset,
      port |-> Unset, grpc |-> Unset, http |-> Unset, maxHttpRequestBodySize |-> Unset,
      oidcPort |-> Unset, tls |-> TlsOf(Unset, "cert"), oidcTls |-> TlsOf(FALSE, Unset),
      evaluatorCacheSize |-> Unset, endpoint |-> "url", tags |-> {"t1"}, insecure |-> FALSE,
      metricsPort |-> Unset, deep |-> Unset, healthzPort |-> Unset]]

\* Edits that change the Deployment only: an older version, no TLS.
DeploymentValues == [tag |-> {<<"v0", "9", "0">>}, tls |-> {TlsOf(FALSE, Unset)}]

\* Edits of ports.
PortValues == [grpc |-> {50052}]

MCUserFields == <<"container", "sidecar">> :> "v" @@ <<"single", "replicas">> :> 5

NoFields == <<>>
MCDefaultTag == <<"latest">>
=============================================================================
