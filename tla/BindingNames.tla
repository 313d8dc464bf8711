----------------------------- MODULE BindingNames -----------------------------
(***************************************************************************)
(* The names of ClusterRoleBindings, which are not namespaced.  A name is  *)
(* a sequence of characters; a long one is cut and given a hash.           *)
(***************************************************************************)
EXTENDS Naturals, Sequences

CONSTANTS
  Chars,      \* characters of names
  Dot, Dash,  \* two of them
  Names,      \* names of Authorino resources
  Namespaces, \* names of namespaces
  Endings,    \* the suffixes, one per ClusterRole
  Hash,       \* the digest of a name
  HashLen,    \* its length
  Limit       \* the length allowed to a name

\* A namespace is a DNS label and has no dot; a resource's name may have some.
ASSUME CharsAssumption == /\ Dot \in Chars /\ Dash \in Chars
                          /\ Namespaces \subseteq Seq(Chars \ {Dot})
                          /\ Names \subseteq Seq(Chars)
                          /\ Endings \subseteq Seq(Chars)

ASSUME HashAssumption == /\ HashLen \in Nat
                         /\ Hash \in [Names -> {h \in Seq(Chars) : Len(h) = HashLen}]

\* Neither suffix ends in the other: "authorino", "authorino-k8s-auth".
ASSUME EndingsAssumption ==
  \A e, f \in Endings :
    e # f /\ Len(e) <= Len(f) => SubSeq(f, Len(f) - Len(e) + 1, Len(f)) # e

\* All but the resource's name fits, as it does with at most 63 characters of a
\* namespace, 16 of a hash and 18 of a suffix in 253.
ASSUME RoomAssumption ==
  /\ Limit \in Nat
  /\ \A ns \in Namespaces, e \in Endings : Len(ns) + HashLen + Len(e) + 2 <= Limit

Qualified(ns, part, e) == ns \o <<Dot>> \o part \o <<Dash>> \o e

Fits(ns, name, e) == Len(Qualified(ns, name, e)) <= Limit

\* Mutant: the room is counted without the hash.
AvailableWithoutHash(ns, e) == Limit - (Len(ns) + Len(e) + 2)

\* What is left for the name beside namespace, hash, suffix and separators: by
\* RoomAssumption never less than 0, and less than the length of a name that
\* does not fit.
Available(ns, e) == Limit - (Len(ns) + HashLen + Len(e) + 2)

CutAndHashed(ns, name, e) == SubSeq(name, 1, Available(ns, e)) \o Hash[name]

\* Mutant: namespace and name are separated by a dash.
DashSeparated(ns, name, e) ==
  IF Fits(ns, name, e) THEN ns \o <<Dash>> \o name \o <<Dash>> \o e
  ELSE ns \o <<Dash>> \o CutAndHashed(ns, name, e) \o <<Dash>> \o e

AuthorinoClusterRoleBindingName(ns, name, e) ==
  IF Fits(ns, name, e) THEN Qualified(ns, name, e)
                       ELSE Qualified(ns, CutAndHashed(ns, name, e), e)
=============================================================================
