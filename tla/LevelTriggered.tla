--------------------------- MODULE LevelTriggered ---------------------------
(***************************************************************************)
(* What a reconcile loop promises, whatever its source, queue and retry    *)
(* policy: the state of every parent key that the loop holds but has not   *)
(* acted on is remembered until a reconcile has acted on it.               *)
(*                                                                         *)
(* ReconcileLoop implements this specification.                            *)
(***************************************************************************)
CONSTANTS
    Keys,        \* parent keys
    Views,       \* what the store can hold of one key
    NoMembers    \* the view of a key without objects

VARIABLES
    view,     \* the state the loop holds of every key
    acted,    \* the state the last successful reconcile of the key read
    dirty     \* the keys a reconcile is still owed to

vars == <<view, acted, dirty>>

Init ==
    /\ view = [k \in Keys |-> NoMembers]
    /\ acted = [k \in Keys |-> NoMembers]
    /\ dirty = {}

\* Events reach the store: every key they change becomes dirty.
Observe ==
    /\ view' \in [Keys -> Views]
    /\ dirty' \in SUBSET Keys
    /\ dirty \subseteq dirty'
    /\ {k \in Keys : view'[k] # view[k]} \subseteq dirty'
    /\ UNCHANGED acted

\* A reconcile of a dirty key succeeds.  One that read what has changed since
\* leaves the key dirty.
Act(k) ==
    /\ k \in dirty
    /\ \E v \in Views :
          /\ acted' = [acted EXCEPT ![k] = v]
          /\ \/ dirty' = dirty
             \/ v = view[k] /\ dirty' = dirty \ {k}
    /\ UNCHANGED view

Next == Observe \/ \E k \in Keys : Act(k)

Spec == Init /\ [][Next]_vars

\* Every variable has its type.
TypeOK ==
    /\ view \in [Keys -> Views]
    /\ acted \in [Keys -> Views]
    /\ dirty \in SUBSET Keys

\* A key whose state was not acted on is dirty.
NothingForgotten == \A k \in Keys : acted[k] # view[k] => k \in dirty
=============================================================================
