---------------------------- MODULE FieldOwnership ----------------------------
(***************************************************************************)
(* Server-side apply as the operator uses it.  An object is a function     *)
(* from fields to their value and the managers that own them.  Objects are *)
(* made with Create, under one manager, and applied by force under         *)
(* another; users own what they set themselves.                            *)
(***************************************************************************)
CONSTANTS
  Creator,   \* the manager of what Create sets
  Operator,  \* "authorino-operator", the manager of what is applied
  User       \* anybody else

ASSUME ManagersAssumption == User # Operator /\ Creator # Operator

Owned(value, managers) == [val |-> value, by |-> managers]

Created(conf) == [f \in DOMAIN conf |-> Owned(conf[f], {Creator})]

\* Fields that no longer are applied go only if nobody else owns them.
Kept(object) == {f \in DOMAIN object : object[f].by # {Operator}}

\* A field that already has the value applied gets one more owner; one that has
\* another value is taken over.
Applied(object, conf) ==
  [f \in DOMAIN conf \cup Kept(object) |->
     IF f \notin DOMAIN conf THEN Owned(object[f].val, object[f].by \ {Operator})
     ELSE IF f \in DOMAIN object /\ object[f].val = conf[f]
     THEN Owned(conf[f], object[f].by \cup {Operator})
     ELSE Owned(conf[f], {Operator})]

\* Users update single fields.
SetByUser(object, field, value) ==
  [f \in DOMAIN object \cup {field} |->
     IF f = field THEN Owned(value, {User}) ELSE object[f]]

\* The object has everything a configuration asks for.
Has(object, conf) == \A f \in DOMAIN conf : f \in DOMAIN object /\ object[f].val = conf[f]

\* And whatever else it has belongs to somebody else.
Exactly(object, conf) ==
  /\ Has(object, conf)
  /\ \A f \in DOMAIN object \ DOMAIN conf : \E m \in object[f].by : m # Operator
=============================================================================
