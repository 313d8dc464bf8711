------------------------------- MODULE Builders -------------------------------
(***************************************************************************)
(* Two Authorino resources as users may write them, and what has to hold   *)
(* between the objects that the operator builds from them.  Names are      *)
(* tried on resources with the default spec, and edits on one resource     *)
(* only: neither has a say in the other.                                   *)
(***************************************************************************)
EXTENDS Objects, BindingNames

CONSTANTS
  Default,     \* the spec that sets nothing but TLS
  Values,      \* what users may set each field of a spec to
  Labels,      \* the labels they may give to a resource
  Plain,       \* the ids of two resources, the first of which is edited
  MaxEdits     \* bound: fields of a spec that differ from the default

Settable(field) == {Default[field]} \cup IF field \in DOMAIN Values THEN Values[field] ELSE {}

\* Volumes that the API server accepts beside those of the operator: it refuses a
\* second volume of the same name, and a second mount at the same path.
Volume == [name : STRING \ {VolumeName.tls, VolumeName.oidcTls},
           mountPath : STRING \ {CertPath.tls, CertPath.oidcTls, KeyPath.tls, KeyPath.oidcTls},
           configMaps : Seq(STRING), secrets : Seq(STRING)]

ASSUME BuildersAssumption == /\ DOMAIN Values \subseteq DOMAIN Default
                             /\ {"volumes", "deep"} \subseteq DOMAIN Default
                             /\ MaxEdits \in Nat

ASSUME SettableAssumption == /\ Settable("volumes") \subseteq Seq(Volume)
                             /\ Settable("deep") \subseteq BOOLEAN \cup {Unset}

VARIABLES first, second
bvars == <<first, second>>

Resource(id) == [namespace |-> id[1], name |-> id[2], labels |-> <<>>, spec |-> Default]
Id(cr)       == <<cr.namespace, cr.name>>

Edits(spec) == {field \in DOMAIN Values : spec[field] # Default[field]}

Init == \E a, b \in Namespaces \X Names :
          /\ a # b
          /\ first = Resource(a)
          /\ second = Resource(b)

EditSpec(field, value) ==
  /\ first' = [first EXCEPT !.spec[field] = value]
  /\ Cardinality(Edits(first'.spec)) <= MaxEdits
  /\ UNCHANGED second

EditLabels(labels) == /\ first' = [first EXCEPT !.labels = labels]
                      /\ UNCHANGED second

Next == /\ <<Id(first), Id(second)>> = Plain
        /\ \/ \E field \in DOMAIN Values : \E value \in Values[field] : EditSpec(field, value)
           \/ \E labels \in Labels : EditLabels(labels)

Spec == Init /\ [][Next]_bvars

IdsOK == /\ Id(first) \in Namespaces \X Names
         /\ Id(second) \in Namespaces \X Names
         /\ Id(first) # Id(second)

(***************************************************************************)
(* The Deployment and its pods.  It is built once the preflight check has  *)
(* passed, which requires a secret for every server that has TLS on.       *)
(***************************************************************************)
Buildable == Unset \notin CheckedSecrets(first.spec)

Deployed == AuthorinoDeployment(first, CHOOSE order \in TagOrders(first.spec) : TRUE)

\* What a container is told of a setting, one way or the other.
Told(container, setting) ==
  IF Given(container.args[setting]) \/ setting \notin DOMAIN container.env
  THEN container.args[setting] ELSE container.env[setting]

\* Interfaces of Authorino: the Service and its port, the setting of the port,
\* and the port Authorino takes when it is told none.
Interfaces ==
  {[service |-> 1, port |-> "grpc", setting |-> "extAuthGrpcPort", default |-> 50051],
   [service |-> 1, port |-> "http", setting |-> "extAuthHttpPort", default |-> 5001],
   [service |-> 2, port |-> "http", setting |-> "oidcHttpPort",    default |-> 8083],
   [service |-> 3, port |-> "http", setting |-> "metricsAddr",     default |-> 8080]}

\* Every port that a Service offers is the one the container listens on for that
\* interface, and an interface that is switched off is not offered: the port is
\* worked out in three places, for the flag, the variable and the Service.
PortsServed ==
  Buildable => \A i \in Interfaces :
    LET listening == Or(Told(Deployed.container, i.setting), i.default)
        offered   == {p \in AuthorinoServices(first)[i.service].ports : p.name = i.port}
    IN  {p.target : p \in offered} = IF listening = 0 THEN {} ELSE {listening}

\* Servers that can use TLS: the spec of it, the settings of the files, the volume.
Servers(spec) ==
  {[tls |-> spec.tls, cert |-> "tlsCert", key |-> "tlsCertKey", volume |-> VolumeName.tls],
   [tls |-> spec.oidcTls, cert |-> "oidcTlsCert", key |-> "oidcTlsCertKey",
    volume |-> VolumeName.oidcTls]}

\* The file is mounted at the path, once, from a volume that is there once and
\* holds nothing but the secret.
Served(d, path, file, secret) ==
  \E k \in DOMAIN d.container.mounts, v \in DOMAIN d.volumes :
    LET mounts == d.container.mounts
    IN  /\ {j \in DOMAIN mounts : mounts[j].path = path} = {k}
        /\ {j \in DOMAIN d.volumes : d.volumes[j].name = mounts[k].volume} = {v}
        /\ mounts[k].file = file
        /\ d.volumes[v].secrets = <<secret>>

\* A server is told of certificates exactly if it is to use TLS, and then each
\* file it is told of is mounted, once, from the secret its spec names, whose
\* presence was checked: for flags, variables, mounts, volumes and the preflight
\* check, TLS is worked out separately.
TlsComplete ==
  Buildable => \A server \in Servers(first.spec) :
    LET d    == Deployed
        cert == Told(d.container, server.cert)
        key  == Told(d.container, server.key)
    IN  IF TlsOn(server.tls)
        THEN /\ Served(d, cert, "tls.crt", server.tls.certSecret)
             /\ Served(d, key, "tls.key", server.tls.certSecret)
             /\ server.tls.certSecret \in CheckedSecrets(first.spec)
        ELSE /\ ~Given(cert) /\ ~Given(key)
             /\ \A k \in DOMAIN d.volumes : d.volumes[k].name # server.volume

\* The settings that every version understands in one form or the other.
Understood == DOMAIN NoEnv(first) \cup {"metricsAddr", "enableLeaderElection"}

\* A container made for any version is told the settings of its spec, once: v0.10
\* changes how they are passed, not what they are.  That is so of the settings that
\* have a variable or are compatible; the others older versions are never told:
\* tracing, the health probe, superseding host subsets and the restrictions of TLS.
SettingsKept ==
  Buildable => \A setting \in Understood :
    LET wanted == BuildAuthorinoArgs(first)[setting]
        c      == Deployed.container
        told   == Told(c, setting)
    IN  /\ told = wanted \/ (told = FALSE /\ ~Given(wanted))
        /\ setting \in DOMAIN c.env => ~(Given(c.args[setting]) /\ Given(c.env[setting]))

\* Whether a selector picks pods with these labels.
Selects(selector, labels) ==
  \A l \in DOMAIN selector : l \in DOMAIN labels /\ labels[l] = selector[l]

\* The Services and the Deployment of a resource select its own pods and never
\* those of another in the same namespace, whatever labels users give.
PodsApart ==
  LET d     == AuthorinoDeployment(first, <<>>)
      other == AuthorinoDeployment(second, <<>>)
      selectors == {d.selector} \cup {AuthorinoServices(first)[k].selector : k \in 1 .. 3}
  IN  \A selector \in selectors :
        /\ Selects(selector, d.podLabels)
        /\ first.namespace = second.namespace => ~Selects(selector, other.podLabels)

(***************************************************************************)
(* The names of ClusterRoleBindings.                                       *)
(***************************************************************************)

\* No name is longer than the API server accepts.
NamesWithinLimit ==
  \A e \in Endings : Len(AuthorinoClusterRoleBindingName(first.namespace, first.name, e)) <= Limit

\* Two resources have a binding name in common only if they are in one namespace,
\* for the same role, and either their digests collide or exactly one of the
\* names had to be cut; so no resource gets at the access of another namespace.
NamesApart ==
  \A e, f \in Endings :
    AuthorinoClusterRoleBindingName(first.namespace, first.name, e)
      = AuthorinoClusterRoleBindingName(second.namespace, second.name, f)
    => /\ e = f
       /\ first.namespace = second.namespace
       /\ \/ Fits(first.namespace, first.name, e) # Fits(second.namespace, second.name, e)
          \/ /\ ~Fits(first.namespace, first.name, e)
             /\ Hash[first.name] = Hash[second.name]
=============================================================================
