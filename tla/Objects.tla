------------------------------- MODULE Objects -------------------------------
(***************************************************************************)
(* What the operator builds from an Authorino resource: the arguments, the *)
(* environment, the mounts and the volumes of its Deployment, and the      *)
(* ports of its Services.                                                  *)
(*                                                                         *)
(* A setting is known by the name of its command-line flag in camel case;  *)
(* an environment variable of older versions by the name of the flag that  *)
(* replaced it.  Label keys are written in camel case without prefix.      *)
(* The code lists settings in a fixed order, so the settings given stand   *)
(* for that list; only tracing tags come in any order.                     *)
(***************************************************************************)
EXTENDS Integers, Sequences, FiniteSets

CONSTANTS
  Unset,      \* an optional field that is nil or empty; a setting not given
  DefaultTag  \* the tag of the image deployed when the spec names none

Given(v)       == v # Unset
Or(v, default) == IF Given(v) THEN v ELSE default
Switch(on)     == IF on THEN TRUE ELSE Unset

(***************************************************************************)
(* Versions.  The tag of an image is the sequence of its parts between     *)
(* dots; NumberOf gives the value of those that are numbers.               *)
(***************************************************************************)
NumberOf == [k \in {"0", "9", "10", "11"} |->
               CASE k = "0" -> 0 [] k = "9" -> 9 [] k = "10" -> 10 [] OTHER -> 11]
IsNumber(part) == part \in DOMAIN NumberOf

\* v0\.(\d)+\..+ anywhere in the tag: "v0" ends a part, a number is the next,
\* and something follows the dot after it.
LooksLikeV0(tag) ==
  \E k \in 1 .. Len(tag) - 2 : /\ tag[k] = "v0" /\ IsNumber(tag[k + 1])
                               /\ tag[k + 2] # "" \/ Len(tag) > k + 2

DetectEnvVarAuthorinoVersion(tag) ==
  LooksLikeV0(tag) /\ IsNumber(tag[2]) /\ NumberOf[tag[2]] <= 10

(***************************************************************************)
(* Settings.                                                               *)
(***************************************************************************)

\* TLS is on unless it is switched off.
TlsOn(tls)        == tls.enabled # FALSE
WithTls(tls, v)   == IF TlsOn(tls) THEN v ELSE Unset

CertPath == [tls |-> "/etc/ssl/certs/tls.crt", oidcTls |-> "/etc/ssl/certs/oidc.crt"]
KeyPath  == [tls |-> "/etc/ssl/private/tls.key", oidcTls |-> "/etc/ssl/private/oidc.key"]

\* Mutant: the deprecated field wins.
GrpcPortDeprecatedFirst(spec) == Or(spec.port, spec.grpc)

\* The deprecated `port' counts only where `ports.grpc' is not given.
GrpcPort(spec) == Or(spec.grpc, spec.port)

BuildAuthorinoArgs(cr) ==
  LET spec == cr.spec
  IN  [watchNamespace        |-> IF spec.clusterWide THEN Unset ELSE cr.namespace,
       authConfigLabelSelector |-> spec.authConfigLabelSelectors,
       secretLabelSelector   |-> spec.secretLabelSelectors,
       allowSupersedingHostSubsets |-> Switch(spec.supersedingHostSubsets),
       logLevel              |-> spec.logLevel,
       logMode               |-> spec.logMode,
       timeout               |-> spec.timeout,
       extAuthGrpcPort       |-> GrpcPort(spec),
       extAuthHttpPort       |-> spec.http,
       tlsCert               |-> WithTls(spec.tls, CertPath.tls),
       tlsCertKey            |-> WithTls(spec.tls, KeyPath.tls),
       tlsMinVersion         |-> WithTls(spec.tls, spec.tls.min),
       tlsMaxVersion         |-> WithTls(spec.tls, spec.tls.max),
       tlsCipherSuites       |-> WithTls(spec.tls, spec.tls.ciphers),
       oidcHttpPort          |-> spec.oidcPort,
       oidcTlsCert           |-> WithTls(spec.oidcTls, CertPath.oidcTls),
       oidcTlsCertKey        |-> WithTls(spec.oidcTls, KeyPath.oidcTls),
       oidcTlsMinVersion     |-> WithTls(spec.oidcTls, spec.oidcTls.min),
       oidcTlsMaxVersion     |-> WithTls(spec.oidcTls, spec.oidcTls.max),
       oidcTlsCipherSuites   |-> WithTls(spec.oidcTls, spec.oidcTls.ciphers),
       evaluatorCacheSize    |-> spec.evaluatorCacheSize,
       tracingServiceEndpoint |-> spec.endpoint,
       tracingServiceInsecure |-> Switch(Given(spec.endpoint) /\ spec.insecure),
       deepMetricsEnabled    |-> Switch(spec.deep = TRUE),
       metricsAddr           |-> spec.metricsPort,
       healthProbeAddr       |-> spec.healthzPort,
       enableLeaderElection  |-> Switch(Given(spec.replicas) /\ spec.replicas > 1),
       maxHttpRequestBodySize |-> spec.maxHttpRequestBodySize]

\* The tags come from a map, which Go enumerates in any order.
TagOrders(spec) ==
  IF ~Given(spec.endpoint) THEN {<<>>}
  ELSE {order \in [1 .. Cardinality(spec.tags) -> spec.tags] :
          \A t \in spec.tags : \E k \in DOMAIN order : order[k] = t}

\* Mutant: the deprecated field is forgotten.
EnvGrpcPortNewOnly(spec) == spec.grpc

EnvGrpcPort(spec) == Or(spec.grpc, spec.port)

BuildAuthorinoEnv(cr) ==
  LET spec == cr.spec
  IN  [watchNamespace        |-> IF spec.clusterWide THEN Unset ELSE cr.namespace,
       authConfigLabelSelector |-> spec.authConfigLabelSelectors,
       secretLabelSelector   |-> spec.secretLabelSelectors,
       evaluatorCacheSize    |-> spec.evaluatorCacheSize,
       deepMetricsEnabled    |-> spec.deep,
       logLevel              |-> spec.logLevel,
       logMode               |-> spec.logMode,
       extAuthGrpcPort       |-> EnvGrpcPort(spec),
       extAuthHttpPort       |-> spec.http,
       tlsCert               |-> WithTls(spec.tls, CertPath.tls),
       tlsCertKey            |-> WithTls(spec.tls, KeyPath.tls),
       timeout               |-> spec.timeout,
       maxHttpRequestBodySize |-> spec.maxHttpRequestBodySize,
       oidcHttpPort          |-> spec.oidcPort,
       oidcTlsCert           |-> WithTls(spec.oidcTls, CertPath.oidcTls),
       oidcTlsCertKey        |-> WithTls(spec.oidcTls, KeyPath.oidcTls)]

NoEnv(cr) == [name \in DOMAIN BuildAuthorinoEnv(cr) |-> Unset]

\* The flags that older versions know.
CompatibleArgs == {"metricsAddr", "enableLeaderElection"}

(***************************************************************************)
(* The Deployment.                                                         *)
(***************************************************************************)
VolumeName == [tls |-> "tls-cert", oidcTls |-> "oidc-cert"]

GetTlsVolumeMount(server) ==
  <<[volume |-> VolumeName[server], path |-> CertPath[server], file |-> "tls.crt"],
    [volume |-> VolumeName[server], path |-> KeyPath[server], file |-> "tls.key"]>>

GetTlsVolume(server, tls) ==
  [name |-> VolumeName[server], configMaps |-> <<>>, secrets |-> <<tls.certSecret>>]

\* Mutant: the secret of the listener is mounted for both servers.
TlsVolumesOfListener(spec) ==
  (IF TlsOn(spec.tls) THEN <<GetTlsVolume("tls", spec.tls)>> ELSE <<>>) \o
  (IF TlsOn(spec.oidcTls) THEN <<GetTlsVolume("oidcTls", spec.tls)>> ELSE <<>>)

TlsVolumes(spec) ==
  (IF TlsOn(spec.tls) THEN <<GetTlsVolume("tls", spec.tls)>> ELSE <<>>) \o
  (IF TlsOn(spec.oidcTls) THEN <<GetTlsVolume("oidcTls", spec.oidcTls)>> ELSE <<>>)

\* The volumes of the spec are projected ones, of ConfigMaps and Secrets.
Volumes(spec) ==
  [k \in DOMAIN spec.volumes |->
     [name |-> spec.volumes[k].name, configMaps |-> spec.volumes[k].configMaps,
      secrets |-> spec.volumes[k].secrets]] \o TlsVolumes(spec)

VolumeMounts(spec) ==
  [k \in DOMAIN spec.volumes |->
     [volume |-> spec.volumes[k].name, path |-> spec.volumes[k].mountPath, file |-> Unset]] \o
  (IF TlsOn(spec.tls) THEN GetTlsVolumeMount("tls") ELSE <<>>) \o
  (IF TlsOn(spec.oidcTls) THEN GetTlsVolumeMount("oidcTls") ELSE <<>>)

\* Mutant: the instance is not named.
LabelsOfAnyInstance(name) == [controlPlane |-> "controller-manager"]

DefaultAuthorinoLabels(name) ==
  [controlPlane |-> "controller-manager", authorinoResource |-> name]

\* Without a single argument the container has no list of them, not an empty one.
GetContainer(tag, pull, args, tags, env, mounts) ==
  [tag |-> tag, pull |-> Or(pull, "Always"),
   args |-> args, tags |-> tags,
   listed |-> tags # <<>> \/ \E flag \in DOMAIN args : Given(args[flag]),
   env |-> env, mounts |-> mounts]

GetDeployment(name, replicas, container, volumes, labels) ==
  [labels    |-> labels,
   selector  |-> DefaultAuthorinoLabels(name),
   podLabels |-> DefaultAuthorinoLabels(name),
   replicas  |-> replicas,
   container |-> container,
   volumes   |-> volumes]

\* The Deployment, for one order of the tracing tags.
AuthorinoDeployment(cr, tagOrder) ==
  LET spec  == cr.spec
      tag   == Or(spec.tag, DefaultTag)
      old   == DetectEnvVarAuthorinoVersion(tag)
      given == BuildAuthorinoArgs(cr)
      args  == IF ~old THEN given
               ELSE [flag \in DOMAIN given |-> IF flag \in CompatibleArgs THEN given[flag] ELSE Unset]
      tags  == IF old THEN <<>> ELSE tagOrder
      env   == IF old THEN BuildAuthorinoEnv(cr) ELSE NoEnv(cr)
  IN  GetDeployment(cr.name, Or(spec.replicas, 1),
                    GetContainer(tag, spec.imagePullPolicy, args, tags, env, VolumeMounts(spec)),
                    Volumes(spec), cr.labels)

(***************************************************************************)
(* The Services.                                                           *)
(***************************************************************************)
NewServicePort(name, number) ==
  IF number = 0 THEN {} ELSE {[name |-> name, port |-> number, target |-> number]}

NewService(cr, labels, ports) ==
  [labels |-> labels, selector |-> DefaultAuthorinoLabels(cr.name), ports |-> ports]

ServiceGrpcPort(spec) == IF Given(spec.grpc) THEN spec.grpc ELSE Or(spec.port, 50051)

NewAuthService(cr) ==
  NewService(cr, cr.labels, NewServicePort("grpc", ServiceGrpcPort(cr.spec)) \cup
                            NewServicePort("http", Or(cr.spec.http, 5001)))

NewOIDCService(cr) ==
  NewService(cr, cr.labels, NewServicePort("http", Or(cr.spec.oidcPort, 8083)))

\* What is desired wins, the rest is kept.
MergeMapStringString(existing, desired) ==
  [l \in DOMAIN existing \cup DOMAIN desired |->
     IF l \in DOMAIN desired THEN desired[l] ELSE existing[l]]

\* The labels a Prometheus monitor selects on win over those of the resource.
MetricsLabels(cr) ==
  MergeMapStringString(
    MergeMapStringString(cr.labels, DefaultAuthorinoLabels(cr.name)),
    [component |-> "metrics", partOf |-> "authorino", managedBy |-> "authorino-operator"])

NewMetricsService(cr) ==
  NewService(cr, MetricsLabels(cr), NewServicePort("http", Or(cr.spec.metricsPort, 8080)))

\* The Services, in the order in which they are reconciled.
AuthorinoServices(cr) == <<NewAuthService(cr), NewOIDCService(cr), NewMetricsService(cr)>>

\* The TLS secrets whose presence installationPreflightCheck requires.
CheckedSecrets(spec) ==
  (IF TlsOn(spec.tls) THEN {spec.tls.certSecret} ELSE {}) \cup
  (IF TlsOn(spec.oidcTls) THEN {spec.oidcTls.certSecret} ELSE {})
=============================================================================
