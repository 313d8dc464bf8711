------------------------- MODULE MCAuthorinoReconcile -------------------------
(***************************************************************************)
(* Small clusters for TLC.                                                 *)
(***************************************************************************)
EXTENDS AuthorinoReconcile, TLC

CONSTANTS i1, i2,  \* instances
          n1, n2,  \* namespaces
          tls      \* a TLS secret

\* One instance.
OneInstance  == {i1}
OneNamespace == {n1}
OneNamespaceOf == i1 :> n1
OneBindings    == {"q1", "l1"}
OneBindingName == i1 :> "q1"
OneLegacyName  == i1 :> "l1"

\* Two instances, in one namespace or in two.
Pair           == {i1, i2}
TwoNamespaces  == {n1, n2}
PairTogether   == i1 :> n1 @@ i2 :> n1
PairApart      == i1 :> n1 @@ i2 :> n2
PairBindingName == i1 :> "q1" @@ i2 :> "q2"

\* Every instance has a legacy name to itself.
OwnBindings   == {"q1", "q2", "l1", "l2"}
OwnLegacyName == i1 :> "l1" @@ i2 :> "l2"

\* The pair shares one legacy name: same name, different namespaces.
SharedBindings   == {"q1", "q2", "l"}
SharedLegacyName == i1 :> "l" @@ i2 :> "l"

\* The legacy name of i1 is the qualified name of i2.
CollidingBindings   == {"q1", "q2", "l2"}
CollidingLegacyName == i1 :> "q2" @@ i2 :> "l2"

Untied == {{}}
Tied   == {{}, {tls}}
Late   == {tls}
=============================================================================
