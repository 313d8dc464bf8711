---------------------------- MODULE BuildersProofs ----------------------------
(***************************************************************************)
(* The Deployment, its pods and the Services fit together, for all specs,  *)
(* versions, labels and names.                                             *)
(***************************************************************************)
EXTENDS BindingNamesProofs

(***************************************************************************)
(* What the container is told.                                             *)
(***************************************************************************)

\* The container of a resource's Deployment, whatever the order of the tags.
LEMMA Containers ==
  ASSUME NEW cr, NEW order
  PROVE  LET c    == AuthorinoDeployment(cr, order).container
             args == BuildAuthorinoArgs(cr)
             env  == BuildAuthorinoEnv(cr)
         IN  \/ c.args = args /\ c.env = [n \in DOMAIN env |-> Unset]
             \/ /\ c.args = [f \in DOMAIN args |->
                               IF f \in CompatibleArgs THEN args[f] ELSE Unset]
                /\ c.env = env
<1> DEFINE args == BuildAuthorinoArgs(cr)
<1>1. CASE DetectEnvVarAuthorinoVersion(Or(cr.spec.tag, DefaultTag))
  BY <1>1 DEF AuthorinoDeployment, GetDeployment, GetContainer
<1>2. CASE ~DetectEnvVarAuthorinoVersion(Or(cr.spec.tag, DefaultTag))
  BY <1>2 DEF AuthorinoDeployment, GetDeployment, GetContainer, NoEnv
<1> QED BY <1>1, <1>2

\* Every setting that has a variable has a flag, of the same value, except that
\* the flag of deep metrics is only given to switch them on; and no flag that is
\* kept for old versions has a variable.
LEMMA VariablesAreFlags ==
  ASSUME NEW cr
  PROVE  LET args == BuildAuthorinoArgs(cr)
             env  == BuildAuthorinoEnv(cr)
         IN  /\ DOMAIN env \subseteq DOMAIN args \ CompatibleArgs
             /\ CompatibleArgs \subseteq DOMAIN args
             /\ \A n \in DOMAIN env \ {"deepMetricsEnabled"} : env[n] = args[n]
             /\ env["deepMetricsEnabled"] = cr.spec.deep
             /\ args["deepMetricsEnabled"] = IF cr.spec.deep = TRUE THEN TRUE ELSE Unset
BY DEF BuildAuthorinoArgs, BuildAuthorinoEnv, CompatibleArgs, GrpcPort, EnvGrpcPort, Switch
LEMMA ToldAsAsked ==
  ASSUME NEW cr, NEW order,
         NEW n \in (DOMAIN BuildAuthorinoEnv(cr) \cup CompatibleArgs) \ {"deepMetricsEnabled"}
  PROVE  Told(AuthorinoDeployment(cr, order).container, n) = BuildAuthorinoArgs(cr)[n]
<1> DEFINE c    == AuthorinoDeployment(cr, order).container
           args == BuildAuthorinoArgs(cr)
           env  == BuildAuthorinoEnv(cr)
<1>1. \/ c.args = args /\ c.env = [m \in DOMAIN env |-> Unset]
      \/ /\ c.args = [f \in DOMAIN args |-> IF f \in CompatibleArgs THEN args[f] ELSE Unset]
         /\ c.env = env
  BY Containers
<1>2. /\ DOMAIN env \subseteq DOMAIN args \ CompatibleArgs
      /\ CompatibleArgs \subseteq DOMAIN args
      /\ \A m \in DOMAIN env \ {"deepMetricsEnabled"} : env[m] = args[m]
  BY VariablesAreFlags
<1> HIDE DEF c, args, env
<1>3. n \in DOMAIN env \/ n \in CompatibleArgs
  BY DEF env
<1>4. Told(c, n) = args[n]
  BY <1>1, <1>2, <1>3 DEF Told, Given
<1> QED BY <1>4 DEF c, args

\* The port that a container listens on is the one of the spec, however it is told.
LEMMA PortsTold ==
  ASSUME NEW cr, NEW order
  PROVE  LET c == AuthorinoDeployment(cr, order).container
         IN  /\ Told(c, "extAuthGrpcPort") = GrpcPort(cr.spec)
             /\ Told(c, "extAuthHttpPort") = cr.spec.http
             /\ Told(c, "oidcHttpPort") = cr.spec.oidcPort
             /\ Told(c, "metricsAddr") = cr.spec.metricsPort
<1>1. /\ {"extAuthGrpcPort", "extAuthHttpPort", "oidcHttpPort"}
           \subseteq DOMAIN BuildAuthorinoEnv(cr)
      /\ "metricsAddr" \in CompatibleArgs
  BY DEF BuildAuthorinoEnv, CompatibleArgs
<1>2. \A n \in {"extAuthGrpcPort", "extAuthHttpPort", "oidcHttpPort", "metricsAddr"} :
        Told(AuthorinoDeployment(cr, order).container, n) = BuildAuthorinoArgs(cr)[n]
  BY <1>1, ToldAsAsked
<1>3. /\ BuildAuthorinoArgs(cr)["extAuthGrpcPort"] = GrpcPort(cr.spec)
      /\ BuildAuthorinoArgs(cr)["extAuthHttpPort"] = cr.spec.http
      /\ BuildAuthorinoArgs(cr)["oidcHttpPort"] = cr.spec.oidcPort
      /\ BuildAuthorinoArgs(cr)["metricsAddr"] = cr.spec.metricsPort
  BY DEF BuildAuthorinoArgs
<1> QED BY <1>2, <1>3

\* The ports of that name that a Service offers for a number.
Targets(ports, name) == {p.target : p \in {q \in ports : q.name = name}}

Offer(number) == IF number = 0 THEN {} ELSE {number}

LEMMA PortTargets ==
  ASSUME NEW a, NEW m, NEW b, NEW n, a # b
  PROVE  /\ Targets(NewServicePort(a, m), a) = Offer(m)
         /\ Targets(NewServicePort(a, m) \cup NewServicePort(b, n), a) = Offer(m)
         /\ Targets(NewServicePort(b, n) \cup NewServicePort(a, m), a) = Offer(m)
<1> DEFINE P == [name |-> a, port |-> m, target |-> m]
<1>1. P.name = a /\ P.target = m
  OBVIOUS
<1>2. NewServicePort(a, m) = IF m = 0 THEN {} ELSE {P}
  BY DEF NewServicePort
<1>3. \A p \in NewServicePort(b, n) : p.name = b
  BY DEF NewServicePort
<1> HIDE DEF P
<1>4. ASSUME NEW ports, \A p : p \in ports /\ p.name = a <=> p \in NewServicePort(a, m)
      PROVE  Targets(ports, a) = Offer(m)
  <2>1. CASE m = 0
    BY <1>2, <1>4, <2>1 DEF Targets, Offer
  <2>2. CASE m # 0
    <3>1. {q \in ports : q.name = a} = {P}
      BY <1>2, <1>4, <2>2
    <3> QED BY <1>1, <2>2, <3>1 DEF Targets, Offer
  <2> QED BY <2>1, <2>2
<1>5. \A p \in NewServicePort(a, m) : p.name = a
  BY <1>1, <1>2
<1>6. Targets(NewServicePort(a, m), a) = Offer(m)
  BY <1>4, <1>5
<1>7. Targets(NewServicePort(a, m) \cup NewServicePort(b, n), a) = Offer(m)
  BY <1>3, <1>4, <1>5
<1>8. Targets(NewServicePort(b, n) \cup NewServicePort(a, m), a) = Offer(m)
  BY <1>3, <1>4, <1>5
<1> QED BY <1>6, <1>7, <1>8

LEMMA PortsOffered ==
  ASSUME NEW cr
  PROVE  /\ Targets(AuthorinoServices(cr)[1].ports, "grpc") = Offer(ServiceGrpcPort(cr.spec))
         /\ Targets(AuthorinoServices(cr)[1].ports, "http") = Offer(Or(cr.spec.http, 5001))
         /\ Targets(AuthorinoServices(cr)[2].ports, "http") = Offer(Or(cr.spec.oidcPort, 8083))
         /\ Targets(AuthorinoServices(cr)[3].ports, "http") = Offer(Or(cr.spec.metricsPort, 8080))
<1>1. /\ AuthorinoServices(cr)[1].ports = NewServicePort("grpc", ServiceGrpcPort(cr.spec)) \cup
                                           NewServicePort("http", Or(cr.spec.http, 5001))
      /\ AuthorinoServices(cr)[2].ports = NewServicePort("http", Or(cr.spec.oidcPort, 8083))
      /\ AuthorinoServices(cr)[3].ports = NewServicePort("http", Or(cr.spec.metricsPort, 8080))
  BY DEF AuthorinoServices, NewAuthService, NewOIDCService, NewMetricsService, NewService
<1> DEFINE g == ServiceGrpcPort(cr.spec)
           h == Or(cr.spec.http, 5001)
           o == Or(cr.spec.oidcPort, 8083)
           m == Or(cr.spec.metricsPort, 8080)
<1> HIDE DEF g, h, o, m
<1>2. "grpc" # "http"
  OBVIOUS
<1>3. Targets(NewServicePort("grpc", g) \cup NewServicePort("http", h), "grpc") = Offer(g)
  BY <1>2, PortTargets
<1>4. \A k : /\ Targets(NewServicePort("grpc", g) \cup NewServicePort("http", k), "http") = Offer(k)
             /\ Targets(NewServicePort("http", k), "http") = Offer(k)
  BY <1>2, PortTargets
<1> QED BY <1>1, <1>3, <1>4 DEF g, h, o, m

\* Whatever the ports of a spec, and for every version, the Services offer exactly
\* the ports that the container listens on.
THEOREM PortsAlwaysServed == Spec => []PortsServed
<1>1. PortsServed
  <2> SUFFICES ASSUME NEW i \in Interfaces
               PROVE  Targets(AuthorinoServices(first)[i.service].ports, i.port)
                        = Offer(Or(Told(Deployed.container, i.setting), i.default))
    BY DEF PortsServed, Targets, Offer
  <2>1. /\ Told(Deployed.container, "extAuthGrpcPort") = GrpcPort(first.spec)
        /\ Told(Deployed.container, "extAuthHttpPort") = first.spec.http
        /\ Told(Deployed.container, "oidcHttpPort") = first.spec.oidcPort
        /\ Told(Deployed.container, "metricsAddr") = first.spec.metricsPort
    BY PortsTold DEF Deployed
  <2>2. ServiceGrpcPort(first.spec) = Or(GrpcPort(first.spec), 50051)
    BY DEF ServiceGrpcPort, GrpcPort, Or, Given
  <2>3. /\ Targets(AuthorinoServices(first)[1].ports, "grpc")
             = Offer(Or(GrpcPort(first.spec), 50051))
        /\ Targets(AuthorinoServices(first)[1].ports, "http") = Offer(Or(first.spec.http, 5001))
        /\ Targets(AuthorinoServices(first)[2].ports, "http") = Offer(Or(first.spec.oidcPort, 8083))
        /\ Targets(AuthorinoServices(first)[3].ports, "http")
             = Offer(Or(first.spec.metricsPort, 8080))
    BY <2>2, PortsOffered
  <2>4. CASE i.setting = "extAuthGrpcPort"
    <3>1. i.service = 1 /\ i.port = "grpc" /\ i.default = 50051
      BY <2>4 DEF Interfaces
    <3> QED BY <2>1, <2>2, <2>3, <2>4, <3>1
  <2>5. CASE i.setting = "extAuthHttpPort"
    <3>1. i.service = 1 /\ i.port = "http" /\ i.default = 5001
      BY <2>5 DEF Interfaces
    <3> QED BY <2>1, <2>2, <2>3, <2>5, <3>1
  <2>6. CASE i.setting = "oidcHttpPort"
    <3>1. i.service = 2 /\ i.port = "http" /\ i.default = 8083
      BY <2>6 DEF Interfaces
    <3> QED BY <2>1, <2>2, <2>3, <2>6, <3>1
  <2>7. CASE i.setting = "metricsAddr"
    <3>1. i.service = 3 /\ i.port = "http" /\ i.default = 8080
      BY <2>7 DEF Interfaces
    <3> QED BY <2>1, <2>2, <2>3, <2>7, <3>1
  <2> QED BY <2>4, <2>5, <2>6, <2>7 DEF Interfaces
<1> QED BY <1>1, PTL

(***************************************************************************)
(* Specs as users may write them.                                          *)
(***************************************************************************)
SpecOK == /\ DOMAIN first = {"namespace", "name", "labels", "spec"}
          /\ DOMAIN first.spec = DOMAIN Default
          /\ \A field \in DOMAIN Default : first.spec[field] \in Settable(field)

LEMMA SpecsKept == Spec => []SpecOK
<1>1. Init => SpecOK
  BY DEF Init, SpecOK, Resource, Settable
<1>2. SpecOK /\ [Next]_bvars => SpecOK'
  <2> SUFFICES ASSUME SpecOK, [Next]_bvars PROVE SpecOK'
    OBVIOUS
  <2>1. ASSUME NEW field \in DOMAIN Values, NEW value \in Values[field], EditSpec(field, value)
        PROVE  SpecOK'
    <3>1. first' = [first EXCEPT !.spec[field] = value]
      BY <2>1 DEF EditSpec
    <3>2. first' = [first EXCEPT !.spec = [first.spec EXCEPT ![field] = value]]
      BY <3>1
    <3>3. DOMAIN first' = DOMAIN first /\ first'.spec = [first.spec EXCEPT ![field] = value]
      BY <3>2 DEF SpecOK
    <3>4. value \in Settable(field)
      BY <2>1 DEF Settable
    <3> QED BY <3>3, <3>4 DEF SpecOK
  <2>2. ASSUME NEW labels, EditLabels(labels) PROVE SpecOK'
    BY <2>2 DEF EditLabels, SpecOK
  <2>3. CASE UNCHANGED bvars
    BY <2>3 DEF bvars, SpecOK
  <2> QED BY <2>1, <2>2, <2>3 DEF Next
<1> QED BY <1>1, <1>2, PTL DEF Spec

LEMMA SpecTypes ==
  ASSUME SpecOK
  PROVE  first.spec.volumes \in Seq(Volume) /\ first.spec.deep \in BOOLEAN \cup {Unset}
BY BuildersAssumption, SettableAssumption DEF SpecOK

(***************************************************************************)
(* Settings.                                                               *)
(***************************************************************************)

\* Whatever the version and the spec, the container is told the settings of the
\* spec, and none of them twice.
THEOREM SettingsAlwaysKept == Spec => []SettingsKept
<1>1. SpecOK => SettingsKept
  <2> SUFFICES ASSUME SpecOK, NEW n \in Understood
               PROVE  LET wanted == BuildAuthorinoArgs(first)[n]
                          c      == Deployed.container
                          told   == Told(c, n)
                      IN  /\ told = wanted \/ (told = FALSE /\ ~Given(wanted))
                          /\ n \in DOMAIN c.env => ~(Given(c.args[n]) /\ Given(c.env[n]))
    BY DEF SettingsKept
  <2> DEFINE c    == Deployed.container
             args == BuildAuthorinoArgs(first)
             env  == BuildAuthorinoEnv(first)
  <2>1. \/ c.args = args /\ c.env = [m \in DOMAIN env |-> Unset]
        \/ /\ c.args = [f \in DOMAIN args |-> IF f \in CompatibleArgs THEN args[f] ELSE Unset]
           /\ c.env = env
    BY Containers DEF Deployed
  <2>2. /\ DOMAIN env \subseteq DOMAIN args \ CompatibleArgs
        /\ env["deepMetricsEnabled"] = first.spec.deep
        /\ args["deepMetricsEnabled"] = IF first.spec.deep = TRUE THEN TRUE ELSE Unset
    BY VariablesAreFlags
  <2>3. n \in DOMAIN env \cup CompatibleArgs
    BY DEF Understood, NoEnv, CompatibleArgs
  <2>4. n \in DOMAIN c.env => ~(Given(c.args[n]) /\ Given(c.env[n]))
    <3> HIDE DEF c, args, env
    <3> QED BY <2>1, <2>2 DEF Given
  <2>5. CASE n # "deepMetricsEnabled"
    <3>1. Told(c, n) = args[n]
      BY <2>3, <2>5, ToldAsAsked DEF Deployed
    <3> QED BY <2>4, <3>1
  <2>6. CASE n = "deepMetricsEnabled"
    <3>1. first.spec.deep \in BOOLEAN \cup {Unset}
      BY SpecTypes
    <3>2. n \in DOMAIN env
      BY <2>6 DEF BuildAuthorinoEnv
    <3> HIDE DEF c, args, env
    <3>3. Told(c, n) = args[n] \/ (Told(c, n) = FALSE /\ ~Given(args[n]))
      BY <2>1, <2>2, <2>6, <3>1, <3>2 DEF Told, Given
    <3> QED BY <2>4, <3>3 DEF c, args
  <2> QED BY <2>5, <2>6
<1> QED BY <1>1, SpecsKept, PTL

(***************************************************************************)
(* Pods.                                                                   *)
(***************************************************************************)

\* Whatever labels users give, selectors pick the pods of their own resource and
\* never those of another in its namespace.
THEOREM PodsStayApart == Spec => []PodsApart
<1>1. IdsInv => PodsApart
  <2> SUFFICES ASSUME IdsInv PROVE PodsApart
    OBVIOUS
  <2>1. \A cr : /\ AuthorinoDeployment(cr, <<>>).selector = DefaultAuthorinoLabels(cr.name)
               /\ AuthorinoDeployment(cr, <<>>).podLabels = DefaultAuthorinoLabels(cr.name)
    BY DEF AuthorinoDeployment, GetDeployment
  <2>2. \A k \in 1 .. 3 : AuthorinoServices(first)[k].selector = DefaultAuthorinoLabels(first.name)
    BY DEF AuthorinoServices, NewAuthService, NewOIDCService, NewMetricsService, NewService
  <2>3. first.namespace = second.namespace => first.name # second.name
    BY DEF IdsInv, IdsOK, Id
  <2>4. \A a, b : Selects(DefaultAuthorinoLabels(a), DefaultAuthorinoLabels(b)) <=> a = b
    BY DEF Selects, DefaultAuthorinoLabels
  <2> QED BY <2>1, <2>2, <2>3, <2>4 DEF PodsApart
<1> QED BY <1>1, IdsKept, PTL

(***************************************************************************)
(* Certificates.                                                           *)
(***************************************************************************)

\* Of the items in a list, exactly one is in the set, and it is this one.
Once(list, set, item) ==
  \E k \in DOMAIN list : list[k] = item /\ {j \in DOMAIN list : list[j] \in set} = {k}

Nowhere(list, set) == \A j \in DOMAIN list : list[j] \notin set

LEMMA OnceInConcat ==
  ASSUME NEW S, NEW s \in Seq(S), NEW t \in Seq(S), NEW set, NEW item
  PROVE  /\ Once(s, set, item) /\ Nowhere(t, set) => Once(s \o t, set, item)
         /\ Nowhere(s, set) /\ Once(t, set, item) => Once(s \o t, set, item)
         /\ Nowhere(s, set) /\ Nowhere(t, set) => Nowhere(s \o t, set)
<1> DEFINE u == s \o t
<1>1. /\ u \in Seq(S) /\ Len(u) = Len(s) + Len(t)
      /\ \A k \in 1 .. Len(s) : u[k] = s[k]
      /\ \A k \in 1 .. Len(t) : u[Len(s) + k] = t[k]
  BY ConcatProperties
<1>2. /\ Len(s) \in Nat /\ Len(t) \in Nat
      /\ DOMAIN s = 1 .. Len(s) /\ DOMAIN t = 1 .. Len(t) /\ DOMAIN u = 1 .. (Len(s) + Len(t))
  BY <1>1, LenProperties
<1> HIDE DEF u
<1>3. \A k \in DOMAIN u : \/ k \in DOMAIN s /\ u[k] = s[k]
                         \/ /\ k - Len(s) \in DOMAIN t /\ u[k] = t[k - Len(s)]
                            /\ k \notin DOMAIN s
  <2> SUFFICES ASSUME NEW k \in DOMAIN u, k \notin DOMAIN s
               PROVE  k - Len(s) \in DOMAIN t /\ u[k] = t[k - Len(s)]
    BY <1>1, <1>2
  <2>1. k - Len(s) \in 1 .. Len(t) /\ Len(s) + (k - Len(s)) = k
    BY <1>2
  <2> QED BY <1>1, <1>2, <2>1
<1>4. ASSUME Once(s, set, item), Nowhere(t, set) PROVE Once(u, set, item)
  <2>1. PICK k \in DOMAIN s : s[k] = item /\ {j \in DOMAIN s : s[j] \in set} = {k}
    BY <1>4 DEF Once
  <2>2. k \in DOMAIN u /\ u[k] = item
    BY <1>1, <1>2, <2>1
  <2>3. \A j \in DOMAIN u : u[j] \in set <=> j = k
    BY <1>3, <1>4, <2>1, <2>2 DEF Nowhere
  <2> QED BY <2>2, <2>3 DEF Once
<1>5. ASSUME Nowhere(s, set), Once(t, set, item) PROVE Once(u, set, item)
  <2>1. PICK k \in DOMAIN t : t[k] = item /\ {j \in DOMAIN t : t[j] \in set} = {k}
    BY <1>5 DEF Once
  <2>2. /\ Len(s) + k \in DOMAIN u /\ u[Len(s) + k] = item
        /\ Len(s) + k \notin DOMAIN s /\ (Len(s) + k) - Len(s) = k
    BY <1>1, <1>2, <2>1
  <2>3. \A j \in DOMAIN u : u[j] \in set => j = Len(s) + k
    <3> SUFFICES ASSUME NEW j \in DOMAIN u, u[j] \in set PROVE j = Len(s) + k
      OBVIOUS
    <3>1. j - Len(s) \in DOMAIN t /\ t[j - Len(s)] \in set
      BY <1>3, <1>5 DEF Nowhere
    <3>2. j - Len(s) = k
      BY <2>1, <3>1
    <3> QED BY <1>2, <3>2
  <2>4. item \in set
    BY <2>1
  <2>5. {j \in DOMAIN u : u[j] \in set} = {Len(s) + k}
    BY <2>2, <2>3, <2>4
  <2> QED BY <2>2, <2>5 DEF Once
<1>6. ASSUME Nowhere(s, set), Nowhere(t, set) PROVE Nowhere(u, set)
  BY <1>3, <1>6 DEF Nowhere
<1> QED BY <1>4, <1>5, <1>6 DEF u

VolumeNames == STRING \cup {"tls-cert", "oidc-cert"}
Paths       == STRING \cup {CertPath.tls, KeyPath.tls, CertPath.oidcTls, KeyPath.oidcTls}

MountItem == [volume : VolumeNames, path : Paths, file : {Unset, "tls.crt", "tls.key"}]
AtPath(p) == {m \in MountItem : m.path = p}

\* In a list of two mounts at different paths, each is there once.
LEMMA OnceInPair ==
  ASSUME NEW a \in MountItem, NEW b \in MountItem, a.path # b.path
  PROVE  /\ <<a, b>> \in Seq(MountItem)
         /\ Once(<<a, b>>, AtPath(a.path), a) /\ Once(<<a, b>>, AtPath(b.path), b)
         /\ \A p : p # a.path /\ p # b.path => Nowhere(<<a, b>>, AtPath(p))
<1> DEFINE l == <<a, b>>
<1>1. l \in Seq(MountItem) /\ DOMAIN l = {1, 2} /\ l[1] = a /\ l[2] = b
  OBVIOUS
<1> HIDE DEF l
<1>2. a \in AtPath(a.path) /\ a \notin AtPath(b.path)
      /\ b \in AtPath(b.path) /\ b \notin AtPath(a.path)
  BY DEF AtPath
<1>3. Once(l, AtPath(a.path), a)
  <2>1. {j \in DOMAIN l : l[j] \in AtPath(a.path)} = {1}
    BY <1>1, <1>2
  <2> QED BY <1>1, <2>1 DEF Once
<1>4. Once(l, AtPath(b.path), b)
  <2>1. {j \in DOMAIN l : l[j] \in AtPath(b.path)} = {2}
    BY <1>1, <1>2
  <2> QED BY <1>1, <2>1 DEF Once
<1>5. \A p : p # a.path /\ p # b.path => Nowhere(l, AtPath(p))
  BY <1>1 DEF Nowhere, AtPath
<1> QED BY <1>1, <1>3, <1>4, <1>5 DEF l

CertMount(server) == [volume |-> VolumeName[server], path |-> CertPath[server], file |-> "tls.crt"]
KeyMount(server)  == [volume |-> VolumeName[server], path |-> KeyPath[server], file |-> "tls.key"]

\* The files of a server that uses TLS are mounted once each, beside volumes of
\* users and those of the other server.
LEMMA MountsOnce ==
  ASSUME NEW spec, spec.volumes \in Seq(Volume)
  PROVE  /\ TlsOn(spec.tls) => /\ Once(VolumeMounts(spec), AtPath(CertPath.tls), CertMount("tls"))
                               /\ Once(VolumeMounts(spec), AtPath(KeyPath.tls), KeyMount("tls"))
         /\ TlsOn(spec.oidcTls) =>
              /\ Once(VolumeMounts(spec), AtPath(CertPath.oidcTls), CertMount("oidcTls"))
              /\ Once(VolumeMounts(spec), AtPath(KeyPath.oidcTls), KeyMount("oidcTls"))
         /\ VolumeMounts(spec) \in Seq(MountItem)
<1> DEFINE users == [k \in DOMAIN spec.volumes |->
                       [volume |-> spec.volumes[k].name, path |-> spec.volumes[k].mountPath,
                        file |-> Unset]]
           own   == {CertPath.tls, KeyPath.tls, CertPath.oidcTls, KeyPath.oidcTls}
           one   == IF TlsOn(spec.tls) THEN GetTlsVolumeMount("tls") ELSE <<>>
           two   == IF TlsOn(spec.oidcTls) THEN GetTlsVolumeMount("oidcTls") ELSE <<>>
<1>1. users \in Seq(MountItem) /\ \A p \in own : Nowhere(users, AtPath(p))
  <2>1. /\ DOMAIN spec.volumes = 1 .. Len(spec.volumes) /\ Len(spec.volumes) \in Nat
        /\ \A k \in 1 .. Len(spec.volumes) : spec.volumes[k] \in Volume
    BY ElementOfSeq, LenProperties
  <2>2. \A k \in DOMAIN users : users[k] \in MountItem /\ users[k].path \notin own
    BY <2>1 DEF Volume, MountItem, VolumeNames, Paths
  <2>3. users \in Seq(MountItem)
    <3>1. users \in [1 .. Len(spec.volumes) -> MountItem]
      BY <2>1, <2>2
    <3> HIDE DEF users
    <3> QED BY <2>1, <3>1, SeqDef
  <2>4. \A p \in own : Nowhere(users, AtPath(p))
    BY <2>2 DEF Nowhere, AtPath
  <2> QED BY <2>3, <2>4
<1>2. /\ CertPath.tls = "/etc/ssl/certs/tls.crt" /\ CertPath.oidcTls = "/etc/ssl/certs/oidc.crt"
      /\ KeyPath.tls = "/etc/ssl/private/tls.key" /\ KeyPath.oidcTls = "/etc/ssl/private/oidc.key"
  BY DEF CertPath, KeyPath
<1>3. /\ CertMount("tls") \in MountItem /\ KeyMount("tls") \in MountItem
      /\ CertMount("oidcTls") \in MountItem /\ KeyMount("oidcTls") \in MountItem
      /\ CertMount("tls").path = CertPath.tls /\ KeyMount("tls").path = KeyPath.tls
      /\ CertMount("oidcTls").path = CertPath.oidcTls /\ KeyMount("oidcTls").path = KeyPath.oidcTls
  <2>1. /\ CertMount("tls") = [volume |-> "tls-cert", path |-> CertPath.tls, file |-> "tls.crt"]
        /\ KeyMount("tls") = [volume |-> "tls-cert", path |-> KeyPath.tls, file |-> "tls.key"]
        /\ CertMount("oidcTls")
             = [volume |-> "oidc-cert", path |-> CertPath.oidcTls, file |-> "tls.crt"]
        /\ KeyMount("oidcTls")
             = [volume |-> "oidc-cert", path |-> KeyPath.oidcTls, file |-> "tls.key"]
    BY DEF CertMount, KeyMount, VolumeName
  <2>2. \A a \in VolumeNames, b \in Paths, c \in {"tls.crt", "tls.key"} :
          [volume |-> a, path |-> b, file |-> c] \in MountItem
    BY DEF MountItem
  <2>3. "tls-cert" \in VolumeNames /\ "oidc-cert" \in VolumeNames
    BY DEF VolumeNames
  <2>4. CertPath.tls \in Paths /\ KeyPath.tls \in Paths /\ CertPath.oidcTls \in Paths
        /\ KeyPath.oidcTls \in Paths
    BY DEF Paths
  <2>5. /\ [volume |-> "tls-cert", path |-> CertPath.tls, file |-> "tls.crt"] \in MountItem
        /\ [volume |-> "tls-cert", path |-> KeyPath.tls, file |-> "tls.key"] \in MountItem
        /\ [volume |-> "oidc-cert", path |-> CertPath.oidcTls, file |-> "tls.crt"] \in MountItem
        /\ [volume |-> "oidc-cert", path |-> KeyPath.oidcTls, file |-> "tls.key"] \in MountItem
    BY <2>2, <2>3, <2>4
  <2> QED BY <2>1, <2>5
<1>4. /\ GetTlsVolumeMount("tls") = <<CertMount("tls"), KeyMount("tls")>>
      /\ GetTlsVolumeMount("oidcTls") = <<CertMount("oidcTls"), KeyMount("oidcTls")>>
  BY DEF GetTlsVolumeMount, CertMount, KeyMount
<1>5. /\ one \in Seq(MountItem)
      /\ TlsOn(spec.tls) => /\ Once(one, AtPath(CertPath.tls), CertMount("tls"))
                            /\ Once(one, AtPath(KeyPath.tls), KeyMount("tls"))
      /\ Nowhere(one, AtPath(CertPath.oidcTls)) /\ Nowhere(one, AtPath(KeyPath.oidcTls))
  <2>1. CASE TlsOn(spec.tls)
    BY <1>2, <1>3, <1>4, <2>1, OnceInPair
  <2>2. CASE ~TlsOn(spec.tls)
    BY <2>2 DEF Nowhere
  <2> QED BY <2>1, <2>2
<1>6. /\ two \in Seq(MountItem)
      /\ TlsOn(spec.oidcTls) => /\ Once(two, AtPath(CertPath.oidcTls), CertMount("oidcTls"))
                                /\ Once(two, AtPath(KeyPath.oidcTls), KeyMount("oidcTls"))
      /\ Nowhere(two, AtPath(CertPath.tls)) /\ Nowhere(two, AtPath(KeyPath.tls))
  <2>1. CASE TlsOn(spec.oidcTls)
    BY <1>2, <1>3, <1>4, <2>1, OnceInPair
  <2>2. CASE ~TlsOn(spec.oidcTls)
    BY <2>2 DEF Nowhere
  <2> QED BY <2>1, <2>2
<1>7. VolumeMounts(spec) = (users \o one) \o two
  BY DEF VolumeMounts
<1> HIDE DEF users, one, two
<1>8. users \o one \in Seq(MountItem) /\ (users \o one) \o two \in Seq(MountItem)
  BY <1>1, <1>5, <1>6, ConcatProperties
<1>9. /\ TlsOn(spec.tls) => /\ Once(users \o one, AtPath(CertPath.tls), CertMount("tls"))
                            /\ Once(users \o one, AtPath(KeyPath.tls), KeyMount("tls"))
      /\ Nowhere(users \o one, AtPath(CertPath.oidcTls))
      /\ Nowhere(users \o one, AtPath(KeyPath.oidcTls))
  BY <1>1, <1>5, OnceInConcat
<1> QED BY <1>6, <1>7, <1>8, <1>9, OnceInConcat

(***************************************************************************)
(* The volumes of the certificates.                                        *)
(***************************************************************************)
VolumeItem(spec) ==
  [name : VolumeNames, configMaps : Seq(STRING),
   secrets : Seq(STRING \cup {spec.tls.certSecret, spec.oidcTls.certSecret})]
Named(spec, name) == {v \in VolumeItem(spec) : v.name = name}

\* The volume of a server that uses TLS is there once, and that of one that does
\* not is not there, whatever volumes users add.
LEMMA VolumesOnce ==
  ASSUME NEW spec, spec.volumes \in Seq(Volume)
  PROVE  /\ IF TlsOn(spec.tls)
            THEN Once(Volumes(spec), Named(spec, VolumeName.tls), GetTlsVolume("tls", spec.tls))
            ELSE Nowhere(Volumes(spec), Named(spec, VolumeName.tls))
         /\ IF TlsOn(spec.oidcTls)
            THEN Once(Volumes(spec), Named(spec, VolumeName.oidcTls),
                      GetTlsVolume("oidcTls", spec.oidcTls))
            ELSE Nowhere(Volumes(spec), Named(spec, VolumeName.oidcTls))
         /\ Volumes(spec) \in Seq(VolumeItem(spec))
<1> DEFINE S     == VolumeItem(spec)
           users == [k \in DOMAIN spec.volumes |->
                       [name |-> spec.volumes[k].name, configMaps |-> spec.volumes[k].configMaps,
                        secrets |-> spec.volumes[k].secrets]]
           v     == GetTlsVolume("tls", spec.tls)
           w     == GetTlsVolume("oidcTls", spec.oidcTls)
           one   == IF TlsOn(spec.tls) THEN <<v>> ELSE <<>>
           two   == IF TlsOn(spec.oidcTls) THEN <<w>> ELSE <<>>
           A     == Named(spec, VolumeName.tls)
           B     == Named(spec, VolumeName.oidcTls)
<1>1. users \in Seq(S) /\ Nowhere(users, A) /\ Nowhere(users, B)
  <2>1. /\ DOMAIN spec.volumes = 1 .. Len(spec.volumes) /\ Len(spec.volumes) \in Nat
        /\ \A k \in 1 .. Len(spec.volumes) : spec.volumes[k] \in Volume
    BY ElementOfSeq, LenProperties
  <2>2. \A x \in Seq(STRING) : x \in Seq(STRING \cup {spec.tls.certSecret, spec.oidcTls.certSecret})
    BY SeqMonotonic
  <2>3. \A k \in DOMAIN users :
          users[k] \in S /\ users[k].name \notin {VolumeName.tls, VolumeName.oidcTls}
    BY <2>1, <2>2 DEF Volume, VolumeItem, VolumeNames
  <2>4. users \in Seq(S)
    <3>1. users \in [1 .. Len(spec.volumes) -> S]
      BY <2>1, <2>3
    <3> HIDE DEF users, S
    <3> QED BY <2>1, <3>1, SeqDef
  <2> QED BY <2>3, <2>4 DEF Nowhere, Named
<1>2. v \in A /\ v \notin B /\ w \in B /\ w \notin A /\ v \in S /\ w \in S
  <2>1. /\ v = [name |-> "tls-cert", configMaps |-> <<>>, secrets |-> <<spec.tls.certSecret>>]
        /\ w = [name |-> "oidc-cert", configMaps |-> <<>>, secrets |-> <<spec.oidcTls.certSecret>>]
        /\ VolumeName.tls = "tls-cert" /\ VolumeName.oidcTls = "oidc-cert"
    BY DEF GetTlsVolume, VolumeName
  <2>2. \A T : \A x \in T : <<x>> \in Seq(T)
    OBVIOUS
  <2> DEFINE T == STRING \cup {spec.tls.certSecret, spec.oidcTls.certSecret}
  <2>3. <<spec.tls.certSecret>> \in Seq(T) /\ <<spec.oidcTls.certSecret>> \in Seq(T)
        /\ <<>> \in Seq(STRING)
    BY <2>2
  <2> HIDE DEF v, w
  <2>4. v \in S /\ w \in S
    <3> HIDE DEF T
    <3>1. S = [name : VolumeNames, configMaps : Seq(STRING), secrets : Seq(T)]
      BY DEF VolumeItem, T
    <3> HIDE DEF S
    <3>2. \A a \in VolumeNames, b \in Seq(STRING), c \in Seq(T) :
            [name |-> a, configMaps |-> b, secrets |-> c] \in S
      BY <3>1
    <3>3. "tls-cert" \in VolumeNames /\ "oidc-cert" \in VolumeNames
      BY DEF VolumeNames
    <3> QED BY <2>1, <2>3, <3>2, <3>3
  <2>5. v.name = "tls-cert" /\ w.name = "oidc-cert"
    BY <2>1
  <2> QED BY <2>1, <2>4, <2>5 DEF Named
<1> HIDE DEF S, v, w, A, B
<1>3. \A x \in S : <<x>> \in Seq(S) /\ DOMAIN <<x>> = {1} /\ <<x>>[1] = x
  OBVIOUS
<1>4. /\ one \in Seq(S) /\ Nowhere(one, B)
      /\ IF TlsOn(spec.tls) THEN Once(one, A, v) ELSE Nowhere(one, A)
  BY <1>2, <1>3 DEF Once, Nowhere
<1>5. /\ two \in Seq(S) /\ Nowhere(two, A)
      /\ IF TlsOn(spec.oidcTls) THEN Once(two, B, w) ELSE Nowhere(two, B)
  BY <1>2, <1>3 DEF Once, Nowhere
<1>6. Volumes(spec) = users \o (one \o two)
  BY DEF Volumes, TlsVolumes, v, w
<1> HIDE DEF users, one, two
<1>7. one \o two \in Seq(S) /\ users \o (one \o two) \in Seq(S)
  BY <1>1, <1>4, <1>5, ConcatProperties
<1>8. /\ IF TlsOn(spec.tls) THEN Once(one \o two, A, v) ELSE Nowhere(one \o two, A)
      /\ IF TlsOn(spec.oidcTls) THEN Once(one \o two, B, w) ELSE Nowhere(one \o two, B)
  BY <1>4, <1>5, OnceInConcat
<1>9. /\ IF TlsOn(spec.tls) THEN Once(Volumes(spec), A, v) ELSE Nowhere(Volumes(spec), A)
      /\ IF TlsOn(spec.oidcTls) THEN Once(Volumes(spec), B, w) ELSE Nowhere(Volumes(spec), B)
  BY <1>1, <1>6, <1>7, <1>8, OnceInConcat
<1> QED BY <1>6, <1>7, <1>9 DEF S, v, w, A, B

\* A file that is mounted once, from a volume that is there once, is served.
LEMMA OnceServed ==
  ASSUME NEW d, NEW spec, NEW mount \in MountItem, NEW volume,
         d.container.mounts \in Seq(MountItem), d.volumes \in Seq(VolumeItem(spec)),
         Once(d.container.mounts, AtPath(mount.path), mount),
         Once(d.volumes, Named(spec, mount.volume), volume)
  PROVE  \A secret : volume.secrets = <<secret>> => Served(d, mount.path, mount.file, secret)
<1> DEFINE mounts  == d.container.mounts
           volumes == d.volumes
<1>1. /\ \A j \in DOMAIN mounts : mounts[j] \in MountItem
      /\ \A j \in DOMAIN volumes : volumes[j] \in VolumeItem(spec)
  BY ElementOfSeq, LenProperties
<1>2. PICK k \in DOMAIN mounts :
        mounts[k] = mount /\ {j \in DOMAIN mounts : mounts[j] \in AtPath(mount.path)} = {k}
  BY DEF Once
<1>3. PICK v \in DOMAIN volumes :
        /\ volumes[v] = volume
        /\ {j \in DOMAIN volumes : volumes[j] \in Named(spec, mount.volume)} = {v}
  BY DEF Once
<1>4. {j \in DOMAIN mounts : mounts[j].path = mount.path} = {k}
  BY <1>1, <1>2 DEF AtPath
<1>5. {j \in DOMAIN volumes : volumes[j].name = mounts[k].volume} = {v}
  BY <1>1, <1>2, <1>3 DEF Named
<1> QED BY <1>2, <1>3, <1>4, <1>5 DEF Served

\* A server that uses TLS finds its certificate and key where it is told they are,
\* in the secret that was checked; one that does not is told of none and has none.
THEOREM TlsAlwaysComplete == Spec => []TlsComplete
<1>1. SpecOK => TlsComplete
  <2> SUFFICES ASSUME SpecOK PROVE TlsComplete
    OBVIOUS
  <2> DEFINE spec == first.spec
             d    == Deployed
  <2>1. spec.volumes \in Seq(Volume)
    BY SpecTypes
  <2>2. d.container.mounts = VolumeMounts(spec) /\ d.volumes = Volumes(spec)
    BY DEF Deployed, AuthorinoDeployment, GetDeployment, GetContainer
  <2>3. /\ Told(d.container, "tlsCert") = WithTls(spec.tls, CertPath.tls)
        /\ Told(d.container, "tlsCertKey") = WithTls(spec.tls, KeyPath.tls)
        /\ Told(d.container, "oidcTlsCert") = WithTls(spec.oidcTls, CertPath.oidcTls)
        /\ Told(d.container, "oidcTlsCertKey") = WithTls(spec.oidcTls, KeyPath.oidcTls)
    <3>1. {"tlsCert", "tlsCertKey", "oidcTlsCert", "oidcTlsCertKey"} \subseteq
            DOMAIN BuildAuthorinoEnv(first)
      BY DEF BuildAuthorinoEnv
    <3>2. \A n \in {"tlsCert", "tlsCertKey", "oidcTlsCert", "oidcTlsCertKey"} :
            Told(d.container, n) = BuildAuthorinoArgs(first)[n]
      BY <3>1, ToldAsAsked DEF Deployed
    <3>3. /\ BuildAuthorinoArgs(first)["tlsCert"] = WithTls(spec.tls, CertPath.tls)
          /\ BuildAuthorinoArgs(first)["tlsCertKey"] = WithTls(spec.tls, KeyPath.tls)
          /\ BuildAuthorinoArgs(first)["oidcTlsCert"] = WithTls(spec.oidcTls, CertPath.oidcTls)
          /\ BuildAuthorinoArgs(first)["oidcTlsCertKey"] = WithTls(spec.oidcTls, KeyPath.oidcTls)
      BY DEF BuildAuthorinoArgs
    <3> QED BY <3>2, <3>3
  <2>4. /\ d.container.mounts \in Seq(MountItem)
        /\ d.volumes \in Seq(VolumeItem(spec))
    BY <2>1, <2>2, MountsOnce, VolumesOnce
  <2> HIDE DEF d, spec
  <2>5. /\ CertMount("tls").path = CertPath.tls /\ CertMount("tls").file = "tls.crt"
        /\ KeyMount("tls").path = KeyPath.tls /\ KeyMount("tls").file = "tls.key"
        /\ CertMount("oidcTls").path = CertPath.oidcTls /\ CertMount("oidcTls").file = "tls.crt"
        /\ KeyMount("oidcTls").path = KeyPath.oidcTls /\ KeyMount("oidcTls").file = "tls.key"
        /\ CertMount("tls").volume = VolumeName.tls /\ KeyMount("tls").volume = VolumeName.tls
        /\ CertMount("oidcTls").volume = VolumeName.oidcTls
        /\ KeyMount("oidcTls").volume = VolumeName.oidcTls
    BY DEF CertMount, KeyMount, VolumeName, CertPath, KeyPath
  <2>6. GetTlsVolume("tls", spec.tls).secrets = <<spec.tls.certSecret>>
        /\ GetTlsVolume("oidcTls", spec.oidcTls).secrets = <<spec.oidcTls.certSecret>>
    BY DEF GetTlsVolume
  <2>7. ASSUME TlsOn(spec.tls)
        PROVE  /\ Served(d, CertPath.tls, "tls.crt", spec.tls.certSecret)
               /\ Served(d, KeyPath.tls, "tls.key", spec.tls.certSecret)
               /\ spec.tls.certSecret \in CheckedSecrets(spec)
    <3>1. /\ Once(d.container.mounts, AtPath(CertPath.tls), CertMount("tls"))
          /\ Once(d.container.mounts, AtPath(KeyPath.tls), KeyMount("tls"))
          /\ Once(d.volumes, Named(spec, VolumeName.tls), GetTlsVolume("tls", spec.tls))
      BY <2>1, <2>2, <2>7, MountsOnce, VolumesOnce
    <3>2. CertMount("tls") \in MountItem /\ KeyMount("tls") \in MountItem
      BY <3>1, <2>4, ElementOfSeq, LenProperties DEF Once
    <3>3. Served(d, CertPath.tls, "tls.crt", spec.tls.certSecret)
      BY <2>4, <2>5, <2>6, <3>1, <3>2, OnceServed
    <3>4. Served(d, KeyPath.tls, "tls.key", spec.tls.certSecret)
      BY <2>4, <2>5, <2>6, <3>1, <3>2, OnceServed
    <3> QED BY <2>7, <3>3, <3>4 DEF CheckedSecrets
  <2>8. ASSUME TlsOn(spec.oidcTls)
        PROVE  /\ Served(d, CertPath.oidcTls, "tls.crt", spec.oidcTls.certSecret)
               /\ Served(d, KeyPath.oidcTls, "tls.key", spec.oidcTls.certSecret)
               /\ spec.oidcTls.certSecret \in CheckedSecrets(spec)
    <3>1. /\ Once(d.container.mounts, AtPath(CertPath.oidcTls), CertMount("oidcTls"))
          /\ Once(d.container.mounts, AtPath(KeyPath.oidcTls), KeyMount("oidcTls"))
          /\ Once(d.volumes, Named(spec, VolumeName.oidcTls), GetTlsVolume("oidcTls", spec.oidcTls))
      BY <2>1, <2>2, <2>8, MountsOnce, VolumesOnce
    <3>2. CertMount("oidcTls") \in MountItem /\ KeyMount("oidcTls") \in MountItem
      BY <3>1, <2>4, ElementOfSeq, LenProperties DEF Once
    <3>3. Served(d, CertPath.oidcTls, "tls.crt", spec.oidcTls.certSecret)
      BY <2>4, <2>5, <2>6, <3>1, <3>2, OnceServed
    <3>4. Served(d, KeyPath.oidcTls, "tls.key", spec.oidcTls.certSecret)
      BY <2>4, <2>5, <2>6, <3>1, <3>2, OnceServed
    <3> QED BY <2>8, <3>3, <3>4 DEF CheckedSecrets
  <2>9. \A name : Nowhere(Volumes(spec), Named(spec, name))
                 => \A k \in DOMAIN d.volumes : d.volumes[k].name # name
    BY <2>2, <2>4, ElementOfSeq, LenProperties DEF Nowhere, Named
  <2>10. /\ ~TlsOn(spec.tls) => \A k \in DOMAIN d.volumes : d.volumes[k].name # VolumeName.tls
         /\ ~TlsOn(spec.oidcTls) =>
              \A k \in DOMAIN d.volumes : d.volumes[k].name # VolumeName.oidcTls
    BY <2>1, <2>9, VolumesOnce
  <2>11. ASSUME NEW server \in Servers(spec)
         PROVE  IF TlsOn(server.tls)
                THEN /\ Served(d, Told(d.container, server.cert), "tls.crt", server.tls.certSecret)
                     /\ Served(d, Told(d.container, server.key), "tls.key", server.tls.certSecret)
                     /\ server.tls.certSecret \in CheckedSecrets(spec)
                ELSE /\ ~Given(Told(d.container, server.cert))
                     /\ ~Given(Told(d.container, server.key))
                     /\ \A k \in DOMAIN d.volumes : d.volumes[k].name # server.volume
    <3>1. CASE /\ server.tls = spec.tls /\ server.cert = "tlsCert" /\ server.key = "tlsCertKey"
               /\ server.volume = VolumeName.tls
      BY <2>3, <2>7, <2>10, <3>1 DEF WithTls, Given
    <3>2. CASE /\ server.tls = spec.oidcTls /\ server.cert = "oidcTlsCert"
               /\ server.key = "oidcTlsCertKey" /\ server.volume = VolumeName.oidcTls
      BY <2>3, <2>8, <2>10, <3>2 DEF WithTls, Given
    <3> QED BY <3>1, <3>2 DEF Servers
  <2> QED BY <2>11 DEF TlsComplete, d, spec
<1> QED BY <1>1, SpecsKept, PTL
=============================================================================
