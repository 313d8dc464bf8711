------------------------------ MODULE MCBuilders ------------------------------
(***************************************************************************)
(* Small names and a few values per field for TLC.                         *)
(***************************************************************************)
EXTENDS Builders

MCChars == {"x", "y", ".", "-"}
Ends    == {"x", "y"}

\* Names of one to four characters, that begin and end in a letter.
MCNames == {<<a>> : a \in Ends} \cup {<<"x", b>> : b \in Ends}
           \cup {<<a, c, "x">> : a \in Ends, c \in MCChars}
           \cup {<<"x", c, d, "x">> : c, d \in MCChars \ {"y"}}
MCNamespaces == {<<"x">>, <<"y">>, <<"x", "-", "x">>}

\* As in "authorino" and "authorino-k8s-auth".
MCEndings == {<<"x">>, <<"x", "-", "y">>}

\* A digest with collisions: the first letter but one.
MCHash == [n \in MCNames |-> IF Len(n) = 1 THEN n ELSE <<n[2]>>]

MCPlain == <<<<<<"x">>, <<"x">>>>, <<<<"x">>, <<"y">>>>>>

TlsOf(enabled, secret) == [enabled |-> enabled, certSecret |-> secret,
                           min |-> Unset, max |-> Unset, ciphers |-> Unset]

MCDefault ==
  [tag |-> Unset, imagePullPolicy |-> Unset, replicas |-> Unset, volumes |-> <<>>,
   authConfigLabelSelectors |-> Unset, secretLabelSelectors |-> Unset,
   supersedingHostSubsets |-> FALSE, clusterWide |-> FALSE,
   logLevel |-> Unset, logMode |-> Unset, timeout |-> Unset,
   port |-> Unset, grpc |-> Unset, http |-> Unset, maxHttpRequestBodySize |-> Unset,
   oidcPort |-> Unset, tls |-> TlsOf(Unset, "cert"), oidcTls |-> TlsOf(Unset, "oidc"),
   evaluatorCacheSize |-> Unset, endpoint |-> Unset, tags |-> {}, insecure |-> FALSE,
   metricsPort |-> Unset, deep |-> Unset, healthzPort |-> Unset]

TlsValues == {TlsOf(FALSE, Unset), TlsOf(FALSE, "cert"), TlsOf(TRUE, "own"), TlsOf(TRUE, Unset),
              [TlsOf(Unset, "own") EXCEPT !.min = "1.2", !.max = "1.3", !.ciphers = "c1,c2"]}
Ports     == {0, 50051, 5001, 9000}

MCValues ==
  [tag |-> {<<"v0", "9", "0">>, <<"v0", "10", "0-rc">>, <<"v0", "11", "0">>, <<"v0", "10">>,
            <<"v1", "0", "0">>, <<"v1", "v0", "9", "0">>},
   replicas |-> {1, 2},
   volumes  |-> {<<[name |-> "extra", mountPath |-> "/extra", configMaps |-> <<"m">>,
                    secrets |-> <<"s">>]>>},
   clusterWide |-> {TRUE}, supersedingHostSubsets |-> {TRUE},
   authConfigLabelSelectors |-> {"sel"}, logLevel |-> {"debug"}, timeout |-> {100},
   port |-> Ports, grpc |-> Ports, http |-> Ports, oidcPort |-> Ports, metricsPort |-> Ports,
   tls |-> TlsValues, oidcTls |-> TlsValues,
   endpoint |-> {"url"}, tags |-> {{"t1", "t2"}}, insecure |-> {TRUE}, deep |-> {TRUE, FALSE}]

MCLabels == {[authorinoResource |-> <<"y">>, app |-> "a"]}
MCDefaultTag == <<"latest">>
=============================================================================
