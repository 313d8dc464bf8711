-------------------------------- MODULE Grants --------------------------------
(***************************************************************************)
(* What the operator promises of cluster-wide access: a principal gets     *)
(* access only under a guard, a withdrawn scope is one it may do without   *)
(* or that of a principal on its way out, and the guard is lifted only     *)
(* from one that is leaving and has no access left.  How grants are        *)
(* stored, cached, named and retried is left to the specification that     *)
(* implements this one.                                                    *)
(***************************************************************************)
CONSTANTS
  Principals,  \* who may be given access
  Scopes,      \* the kinds of access
  Optional     \* scopes that a live principal may lose

VARIABLES
  life,     \* absent, live or leaving
  guarded,  \* whether a principal can go away only through Release
  granted   \* the grants made and not revoked

gvars == <<life, guarded, granted>>

Lives == {"absent", "live", "leaving"}

Init == /\ life \in [Principals -> {"absent", "live"}]
        /\ guarded = [p \in Principals |-> life[p] = "live"]
        /\ granted = {}

Create(p) == /\ life[p] = "absent"
             /\ life' = [life EXCEPT ![p] = "live"]
             /\ UNCHANGED <<guarded, granted>>

\* Only a live principal is put under guard, not one that has begun to leave.
Guard(p) == /\ life[p] = "live"
            /\ guarded' = [guarded EXCEPT ![p] = TRUE]
            /\ UNCHANGED <<life, granted>>

Grant(p, s) == /\ guarded[p]
               /\ granted' = granted \cup {<<p, s>>}
               /\ UNCHANGED <<life, guarded>>

Revoke(p, s) == /\ s \in Optional \/ life[p] = "leaving"
                /\ granted' = granted \ {<<p, s>>}
                /\ UNCHANGED <<life, guarded>>

Leave(p) == /\ life[p] = "live"
            /\ life' = [life EXCEPT ![p] = "leaving"]
            /\ UNCHANGED <<guarded, granted>>

Release(p) == /\ life[p] = "leaving"
              /\ guarded[p]
              /\ \A s \in Scopes : <<p, s>> \notin granted
              /\ guarded' = [guarded EXCEPT ![p] = FALSE]
              /\ \E l \in {"leaving", "absent"} : life' = [life EXCEPT ![p] = l]
              /\ UNCHANGED granted

Vanish(p) == /\ life[p] # "absent"
             /\ ~guarded[p]
             /\ life' = [life EXCEPT ![p] = "absent"]
             /\ UNCHANGED <<guarded, granted>>

Next == \E p \in Principals :
          \/ Create(p) \/ Guard(p) \/ Leave(p) \/ Release(p) \/ Vanish(p)
          \/ \E s \in Scopes : Grant(p, s) \/ Revoke(p, s)

Spec == Init /\ [][Next]_gvars
=============================================================================
