-------------------------- MODULE BindingNamesProofs --------------------------
(***************************************************************************)
(* The names of ClusterRoleBindings stay within the limit and are told     *)
(* apart, for all names, namespaces, endings and digests.                  *)
(***************************************************************************)
EXTENDS Builders, SequenceTheorems, TLAPS

\* Sequences of equal length that begin equal concatenations are equal.
LEMMA EqualParts ==
  ASSUME NEW S, NEW s \in Seq(S), NEW t \in Seq(S), NEW u \in Seq(S), NEW v \in Seq(S),
         Len(s) = Len(t), s \o u = t \o v
  PROVE  s = t /\ u = v
<1>1. \A i \in 1 .. Len(s) : s[i] = t[i]
  <2>1. \A i \in 1 .. Len(s) : (s \o u)[i] = s[i] /\ (t \o v)[i] = t[i]
    BY ConcatProperties, LenProperties
  <2> QED BY <2>1
<1>2. s = t
  BY <1>1, SeqEqual
<1>3. u = v
  BY <1>2, ConcatSimplifications
<1> QED BY <1>2, <1>3

\* The first dot of a name ends the namespace.
LEMMA DotAfter ==
  ASSUME NEW n \in Seq(Chars \ {Dot}), NEW m \in Seq(Chars \ {Dot}),
         NEW a \in Seq(Chars), NEW b \in Seq(Chars),
         (n \o <<Dot>>) \o a = (m \o <<Dot>>) \o b
  PROVE  Len(n) >= Len(m)
<1> SUFFICES ASSUME Len(n) < Len(m) PROVE FALSE
  BY LenProperties
<1> DEFINE k == Len(n) + 1
<1>1. n \in Seq(Chars) /\ m \in Seq(Chars) /\ <<Dot>> \in Seq(Chars) /\ Len(<<Dot>>) = 1
      /\ <<Dot>>[1] = Dot
  BY SeqMonotonic, CharsAssumption
<1>2. k \in 1 .. Len(m) /\ Len(n) \in Nat /\ Len(m) \in Nat
  BY LenProperties
<1>3. ((n \o <<Dot>>) \o a)[k] = Dot
  <2>1. /\ n \o <<Dot>> \in Seq(Chars)
        /\ Len(n \o <<Dot>>) = k
        /\ (n \o <<Dot>>)[k] = Dot
    BY <1>1, <1>2, ConcatProperties
  <2> QED BY <1>2, <2>1, ConcatProperties, LenProperties
<1>4. ((m \o <<Dot>>) \o b)[k] = m[k]
  <2>1. /\ m \o <<Dot>> \in Seq(Chars)
        /\ Len(m \o <<Dot>>) = Len(m) + 1
        /\ (m \o <<Dot>>)[k] = m[k]
    BY <1>1, <1>2, ConcatProperties
  <2> QED BY <1>2, <2>1, ConcatProperties, LenProperties
<1>5. m[k] \in Chars \ {Dot}
  BY <1>2, ElementOfSeq
<1> QED BY <1>3, <1>4, <1>5

LEMMA DotSplits ==
  ASSUME NEW n \in Seq(Chars \ {Dot}), NEW m \in Seq(Chars \ {Dot}),
         NEW a \in Seq(Chars), NEW b \in Seq(Chars),
         (n \o <<Dot>>) \o a = (m \o <<Dot>>) \o b
  PROVE  n = m /\ a = b
<1>1. n \in Seq(Chars) /\ m \in Seq(Chars) /\ <<Dot>> \in Seq(Chars) /\ Len(<<Dot>>) = 1
  BY SeqMonotonic, CharsAssumption
<1>2. Len(n) = Len(m)
  <2>1. Len(n) >= Len(m)
    BY DotAfter
  <2>2. Len(m) >= Len(n)
    BY DotAfter
  <2> QED BY <1>1, <2>1, <2>2, LenProperties
<1>3. /\ n \o <<Dot>> \in Seq(Chars) /\ Len(n \o <<Dot>>) = Len(n) + 1
      /\ m \o <<Dot>> \in Seq(Chars) /\ Len(m \o <<Dot>>) = Len(m) + 1
  BY <1>1, ConcatProperties
<1>4. n \o <<Dot>> = m \o <<Dot>> /\ a = b
  <2> DEFINE s == n \o <<Dot>>
             t == m \o <<Dot>>
  <2>1. s \in Seq(Chars) /\ t \in Seq(Chars) /\ Len(s) = Len(t) /\ s \o a = t \o b
    BY <1>2, <1>3
  <2> HIDE DEF s, t
  <2>2. s = t /\ a = b
    BY <2>1, EqualParts
  <2> QED BY <2>2 DEF s, t
<1>5. n = m
  BY <1>1, <1>4, ConcatSimplifications
<1> QED BY <1>4, <1>5

\* A name does not end in two of the endings.
LEMMA EndingFound ==
  ASSUME NEW a \in Seq(Chars), NEW b \in Seq(Chars), NEW e \in Endings, NEW f \in Endings,
         a \o e = b \o f, Len(e) <= Len(f)
  PROVE  e = f
<1>1. e \in Seq(Chars) /\ f \in Seq(Chars)
  BY CharsAssumption
<1>2. Len(a) \in Nat /\ Len(b) \in Nat /\ Len(e) \in Nat /\ Len(f) \in Nat
      /\ Len(a) + Len(e) = Len(b) + Len(f)
  BY <1>1, ConcatProperties, LenProperties
<1> DEFINE d == Len(f) - Len(e)
           tail == SubSeq(f, d + 1, Len(f))
<1>3. d \in Nat /\ Len(a) = Len(b) + d
  BY <1>2
<1>4. \A i \in d + 1 .. Len(f) : f[i] \in Chars
  BY <1>1, <1>2, <1>3, ElementOfSeq
<1>5. /\ tail \in Seq(Chars)
      /\ Len(tail) = Len(e)
      /\ \A i \in 1 .. Len(e) : tail[i] = f[d + i]
  <2>1. d + 1 \in Int /\ Len(f) \in Int /\ Len(f) - (d + 1) + 1 = Len(e)
    BY <1>2, <1>3
  <2> HIDE DEF d
  <2>2. /\ SubSeq(f, d + 1, Len(f)) \in Seq(Chars)
        /\ Len(SubSeq(f, d + 1, Len(f))) = IF d + 1 <= Len(f) THEN Len(f) - (d + 1) + 1 ELSE 0
        /\ \A i \in 1 .. Len(f) - (d + 1) + 1 : SubSeq(f, d + 1, Len(f))[i] = f[d + 1 + i - 1]
    BY <1>4, <2>1, SubSeqProperties
  <2>3. \A i \in 1 .. Len(e) : d + 1 + i - 1 = d + i
    BY <1>2, <1>3
  <2> QED BY <1>2, <1>3, <2>1, <2>2, <2>3
<1>6. \A i \in 1 .. Len(e) : e[i] = f[d + i]
  <2> TAKE i \in 1 .. Len(e)
  <2>1. (a \o e)[Len(a) + i] = e[i]
    BY <1>1, <1>2, ConcatProperties
  <2>2. (b \o f)[Len(b) + (d + i)] = f[d + i]
    BY <1>1, <1>2, <1>3, ConcatProperties
  <2>3. Len(a) + i = Len(b) + (d + i)
    BY <1>2, <1>3
  <2> QED BY <2>1, <2>2, <2>3
<1>7. tail = e
  BY <1>1, <1>5, <1>6, SeqEqual
<1>8. SubSeq(f, Len(f) - Len(e) + 1, Len(f)) = e
  BY <1>7
<1> HIDE DEF d, tail
<1> QED BY <1>8, EndingsAssumption

LEMMA EndingsSplit ==
  ASSUME NEW a \in Seq(Chars), NEW b \in Seq(Chars), NEW e \in Endings, NEW f \in Endings,
         (a \o <<Dash>>) \o e = (b \o <<Dash>>) \o f
  PROVE  a = b /\ e = f
<1>1. /\ e \in Seq(Chars) /\ f \in Seq(Chars) /\ <<Dash>> \in Seq(Chars)
      /\ a \o <<Dash>> \in Seq(Chars) /\ b \o <<Dash>> \in Seq(Chars)
  BY CharsAssumption, ConcatProperties
<1>2. e = f
  <2> DEFINE s == a \o <<Dash>>
             t == b \o <<Dash>>
  <2>1. s \in Seq(Chars) /\ t \in Seq(Chars) /\ s \o e = t \o f
    BY <1>1
  <2>2. Len(e) \in Nat /\ Len(f) \in Nat
    BY <1>1, LenProperties
  <2> HIDE DEF s, t
  <2>3. CASE Len(e) <= Len(f)
    BY <2>1, <2>3, EndingFound
  <2>4. CASE Len(f) <= Len(e)
    <3>1. f = e
      BY <2>1, <2>4, EndingFound
    <3> QED BY <3>1
  <2> QED BY <2>2, <2>3, <2>4
<1>3. a \o <<Dash>> = b \o <<Dash>>
  BY <1>1, <1>2, ConcatSimplifications
<1> QED BY <1>1, <1>2, <1>3, ConcatSimplifications

(***************************************************************************)
(* The parts of a name.                                                    *)
(***************************************************************************)
LEMMA NameTypes ==
  ASSUME NEW ns \in Namespaces, NEW name \in Names, NEW e \in Endings
  PROVE  /\ ns \in Seq(Chars \ {Dot}) /\ ns \in Seq(Chars) /\ name \in Seq(Chars)
         /\ e \in Seq(Chars)
         /\ Hash[name] \in Seq(Chars) /\ Len(Hash[name]) = HashLen
         /\ <<Dot>> \in Seq(Chars) /\ <<Dash>> \in Seq(Chars)
         /\ Len(<<Dot>>) = 1 /\ Len(<<Dash>>) = 1
<1>1. ns \in Seq(Chars \ {Dot}) /\ name \in Seq(Chars) /\ e \in Seq(Chars)
  BY CharsAssumption
<1>2. ns \in Seq(Chars)
  BY <1>1, SeqMonotonic
<1> QED BY <1>1, <1>2, CharsAssumption, HashAssumption

LEMMA QualifiedLength ==
  ASSUME NEW ns \in Namespaces, NEW e \in Endings, NEW part \in Seq(Chars)
  PROVE  /\ Qualified(ns, part, e) \in Seq(Chars)
         /\ Len(Qualified(ns, part, e)) = Len(ns) + Len(part) + Len(e) + 2
<1>1. /\ ns \in Seq(Chars) /\ e \in Seq(Chars)
      /\ <<Dot>> \in Seq(Chars) /\ <<Dash>> \in Seq(Chars)
      /\ Len(<<Dot>>) = 1 /\ Len(<<Dash>>) = 1
  BY CharsAssumption, SeqMonotonic
<1> DEFINE p == ns \o <<Dot>>
           q == p \o part
           r == q \o <<Dash>>
<1>2. p \in Seq(Chars) /\ Len(p) = Len(ns) + 1
  BY <1>1, ConcatProperties
<1>3. q \in Seq(Chars) /\ Len(q) = Len(p) + Len(part)
  BY <1>2, ConcatProperties
<1>4. r \in Seq(Chars) /\ Len(r) = Len(q) + 1
  BY <1>1, <1>3, ConcatProperties
<1>5. r \o e \in Seq(Chars) /\ Len(r \o e) = Len(r) + Len(e)
  BY <1>1, <1>4, ConcatProperties
<1>6. Qualified(ns, part, e) = r \o e
  BY DEF Qualified
<1>7. Len(ns) \in Nat /\ Len(part) \in Nat /\ Len(e) \in Nat
  BY <1>1, LenProperties
<1> HIDE DEF p, q, r
<1> QED BY <1>2, <1>3, <1>4, <1>5, <1>6, <1>7

\* Qualified names have their parts in common, whatever stands between the dot
\* and the ending.
LEMMA QualifiedSplits ==
  ASSUME NEW ns \in Namespaces, NEW ms \in Namespaces, NEW e \in Endings, NEW f \in Endings,
         NEW part \in Seq(Chars), NEW other \in Seq(Chars),
         Qualified(ns, part, e) = Qualified(ms, other, f)
  PROVE  ns = ms /\ part = other /\ e = f
<1>1. /\ ns \in Seq(Chars \ {Dot}) /\ ms \in Seq(Chars \ {Dot})
      /\ ns \in Seq(Chars) /\ ms \in Seq(Chars)
      /\ <<Dot>> \in Seq(Chars)
  BY CharsAssumption, SeqMonotonic
<1> DEFINE s == (ns \o <<Dot>>) \o part
           t == (ms \o <<Dot>>) \o other
<1>2. s \in Seq(Chars) /\ t \in Seq(Chars)
  BY <1>1, ConcatProperties
<1>3. (s \o <<Dash>>) \o e = (t \o <<Dash>>) \o f
  BY DEF Qualified
<1>4. s = t
  <2> HIDE DEF s, t
  <2> QED BY <1>2, <1>3, EndingsSplit, Zenon
<1>5. e = f
  <2> DEFINE r == s \o <<Dash>>
  <2>1. r \in Seq(Chars)
    BY <1>2, CharsAssumption, ConcatProperties
  <2>2. r \o e = r \o f
    BY <1>3, <1>4
  <2> HIDE DEF r
  <2> QED BY <2>1, <2>2, CharsAssumption, ConcatSimplifications
<1>6. ns = ms
  <2>1. (ns \o <<Dot>>) \o part = (ms \o <<Dot>>) \o other
    BY <1>4
  <2> QED BY <1>1, <2>1, DotSplits, Zenon
<1>7. part = other
  <2> DEFINE p == ns \o <<Dot>>
  <2>1. p \in Seq(Chars)
    BY <1>1, ConcatProperties
  <2>2. p \o part = p \o other
    BY <1>4, <1>6
  <2> HIDE DEF p
  <2> QED BY <2>1, <2>2, ConcatSimplifications
<1> QED BY <1>5, <1>6, <1>7

\* What is left of a name that does not fit, with its digest, takes the room there is.
LEMMA CutLength ==
  ASSUME NEW ns \in Namespaces, NEW name \in Names, NEW e \in Endings, ~Fits(ns, name, e)
  PROVE  LET head == SubSeq(name, 1, Available(ns, e))
         IN  /\ head \in Seq(Chars) /\ Available(ns, e) \in Nat
             /\ Len(head) = Available(ns, e)
             /\ CutAndHashed(ns, name, e) \in Seq(Chars)
             /\ Len(CutAndHashed(ns, name, e)) = Available(ns, e) + HashLen
<1> DEFINE k == Available(ns, e)
           head == SubSeq(name, 1, k)
<1>1. /\ name \in Seq(Chars) /\ Hash[name] \in Seq(Chars) /\ Len(Hash[name]) = HashLen
      /\ Len(ns) \in Nat /\ Len(name) \in Nat /\ Len(e) \in Nat
      /\ HashLen \in Nat /\ Limit \in Nat
  BY NameTypes, LenProperties, HashAssumption, RoomAssumption
<1>2. k \in Nat /\ k <= Len(name)
  <2>1. Len(ns) + HashLen + Len(e) + 2 <= Limit
    BY RoomAssumption
  <2>2. Len(ns) + Len(name) + Len(e) + 2 > Limit
    BY <1>1, QualifiedLength DEF Fits
  <2> QED BY <1>1, <2>1, <2>2 DEF Available
<1> HIDE DEF k
<1>3. head \in Seq(Chars) /\ Len(head) = k
  <2>1. \A i \in 1 .. k : name[i] \in Chars
    BY <1>1, <1>2, ElementOfSeq
  <2>2. /\ head \in Seq(Chars)
        /\ Len(head) = IF 1 <= k THEN k - 1 + 1 ELSE 0
    BY <1>2, <2>1, SubSeqProperties
  <2> QED BY <1>2, <2>2
<1>4. CutAndHashed(ns, name, e) = head \o Hash[name]
  BY DEF CutAndHashed, k
<1>5. head \o Hash[name] \in Seq(Chars) /\ Len(head \o Hash[name]) = k + HashLen
  <2> HIDE DEF head
  <2> QED BY <1>1, <1>3, ConcatProperties
<1> QED BY <1>2, <1>3, <1>4, <1>5 DEF k

LEMMA WithinLimit ==
  ASSUME NEW ns \in Namespaces, NEW name \in Names, NEW e \in Endings
  PROVE  Len(AuthorinoClusterRoleBindingName(ns, name, e)) <= Limit
<1>1. CASE Fits(ns, name, e)
  BY <1>1 DEF AuthorinoClusterRoleBindingName, Fits
<1>2. CASE ~Fits(ns, name, e)
  <2> DEFINE c == CutAndHashed(ns, name, e)
  <2>1. c \in Seq(Chars) /\ Len(c) = Available(ns, e) + HashLen
    BY <1>2, CutLength
  <2>2. Len(Qualified(ns, c, e)) = Len(ns) + Len(c) + Len(e) + 2
    <3> HIDE DEF c
    <3> QED BY <2>1, QualifiedLength
  <2>3. Len(ns) \in Nat /\ Len(e) \in Nat /\ HashLen \in Nat /\ Limit \in Nat
    BY NameTypes, LenProperties, HashAssumption, RoomAssumption
  <2>4. Len(Qualified(ns, c, e)) = Limit
    <3> HIDE DEF c
    <3> QED BY <2>1, <2>2, <2>3 DEF Available
  <2> QED BY <1>2, <2>3, <2>4 DEF AuthorinoClusterRoleBindingName
<1> QED BY <1>1, <1>2

\* One name for two resources: one namespace, one ending, and a collision of
\* digests, unless just one of the two was cut.
LEMMA Apart ==
  ASSUME NEW ns \in Namespaces, NEW ms \in Namespaces, NEW n \in Names, NEW m \in Names,
         NEW e \in Endings, NEW f \in Endings, <<ns, n>> # <<ms, m>>,
         AuthorinoClusterRoleBindingName(ns, n, e) = AuthorinoClusterRoleBindingName(ms, m, f)
  PROVE  /\ e = f /\ ns = ms
         /\ \/ Fits(ns, n, e) # Fits(ms, m, f)
            \/ ~Fits(ns, n, e) /\ Hash[n] = Hash[m]
<1> DEFINE x == IF Fits(ns, n, e) THEN n ELSE CutAndHashed(ns, n, e)
           y == IF Fits(ms, m, f) THEN m ELSE CutAndHashed(ms, m, f)
<1>1. Qualified(ns, x, e) = Qualified(ms, y, f)
  BY DEF AuthorinoClusterRoleBindingName
<1>2. x \in Seq(Chars) /\ y \in Seq(Chars)
  BY CutLength, NameTypes
<1>3. ns = ms /\ x = y /\ e = f
  <2> HIDE DEF x, y
  <2> QED BY <1>1, <1>2, QualifiedSplits
<1>4. CASE Fits(ns, n, e) /\ Fits(ms, m, f)
  BY <1>3, <1>4
<1>5. CASE ~Fits(ns, n, e) /\ ~Fits(ms, m, f)
  <2> DEFINE s == SubSeq(n, 1, Available(ns, e))
             t == SubSeq(m, 1, Available(ns, e))
  <2>1. s \o Hash[n] = t \o Hash[m]
    BY <1>3, <1>5 DEF CutAndHashed
  <2>2. s \in Seq(Chars) /\ t \in Seq(Chars) /\ Len(s) = Len(t)
    BY <1>3, <1>5, CutLength
  <2>3. Hash[n] \in Seq(Chars) /\ Hash[m] \in Seq(Chars)
    BY NameTypes
  <2>4. Hash[n] = Hash[m]
    <3> HIDE DEF s, t
    <3> QED BY <2>1, <2>2, <2>3, EqualParts
  <2> QED BY <1>3, <1>5, <2>4
<1> QED BY <1>3, <1>4, <1>5

(***************************************************************************)
(* The properties of Builders.                                             *)
(***************************************************************************)

\* Edits change neither namespace nor name.
IdsInv == IdsOK /\ DOMAIN first = {"namespace", "name", "labels", "spec"}

LEMMA IdsKept == Spec => []IdsInv
<1>1. Init => IdsInv
  BY DEF Init, IdsInv, IdsOK, Id, Resource
<1>2. IdsInv /\ [Next]_bvars => IdsInv'
  <2> SUFFICES ASSUME IdsInv, [Next]_bvars PROVE IdsInv'
    OBVIOUS
  <2>1. ASSUME NEW field, NEW value, EditSpec(field, value) PROVE IdsInv'
    BY <2>1 DEF EditSpec, IdsInv, IdsOK, Id
  <2>2. ASSUME NEW labels, EditLabels(labels) PROVE IdsInv'
    BY <2>2 DEF EditLabels, IdsInv, IdsOK, Id
  <2>3. CASE UNCHANGED bvars
    BY <2>3 DEF bvars, IdsInv, IdsOK, Id
  <2> QED BY <2>1, <2>2, <2>3 DEF Next
<1> QED BY <1>1, <1>2, PTL DEF Spec

\* No name of a ClusterRoleBinding is longer than the limit.
THEOREM NamesFit == Spec => []NamesWithinLimit
<1>1. IdsInv => NamesWithinLimit
  BY WithinLimit DEF IdsInv, IdsOK, Id, NamesWithinLimit
<1> QED BY <1>1, IdsKept, PTL

\* Names of bindings tell resources of different namespaces and different roles
\* apart, and those of one namespace up to digests and cutting.
THEOREM NamesDiffer == Spec => []NamesApart
<1>1. IdsInv => NamesApart
  <2> SUFFICES ASSUME IdsOK, NEW e \in Endings, NEW f \in Endings,
                      AuthorinoClusterRoleBindingName(first.namespace, first.name, e)
                        = AuthorinoClusterRoleBindingName(second.namespace, second.name, f)
               PROVE  /\ e = f /\ first.namespace = second.namespace
                      /\ \/ Fits(first.namespace, first.name, e)
                              # Fits(second.namespace, second.name, e)
                         \/ /\ ~Fits(first.namespace, first.name, e)
                            /\ Hash[first.name] = Hash[second.name]
    BY DEF IdsInv, NamesApart
  <2>1. /\ first.namespace \in Namespaces /\ first.name \in Names
        /\ second.namespace \in Namespaces /\ second.name \in Names
        /\ <<first.namespace, first.name>> # <<second.namespace, second.name>>
    BY DEF IdsOK, Id
  <2> QED BY <2>1, Apart
<1> QED BY <1>1, IdsKept, PTL
=============================================================================
