----------------------------- MODULE MCPostgres -----------------------------
(***************************************************************************)
(* Two relationships of the new-enemy tests, granted, revoked and replaced *)
(* by writes that name them in both orders.                                *)
(***************************************************************************)
EXTENDS PostgresStore

CONSTANTS w1, w2         \* connections

Mallory == Concrete(Object("user", "mallory"))

Viewer == Tuple(Object("folder", "eng"), "viewer", Mallory)
Editor == Tuple(Object("folder", "eng"), "editor", Mallory)

MCTuples == {Viewer, Editor}

Grant   == [add |-> <<Viewer, Editor>>, remove |-> << >>]
Revoke  == [add |-> << >>, remove |-> <<Editor, Viewer>>]
Promote == [add |-> <<Editor>>, remove |-> <<Viewer>>]
Demote  == [add |-> <<Viewer>>, remove |-> <<Editor>>]
Renew   == [add |-> <<Viewer, Viewer>>, remove |-> <<Viewer>>]

MCWrites == {Grant, Revoke, Promote, Demote, Renew}

=============================================================================
