------------------------------- MODULE Engine -------------------------------
(***************************************************************************)
(* type Engine of internal/check/check.go: what Check, Expand and          *)
(* ListObjects share, above a store that keeps the promise of              *)
(* VersionedStore.                                                         *)
(***************************************************************************)
EXTENDS VersionedStore, FiniteSets

CONSTANTS Schema,        \* the schema the server was started with
          MaxDepth       \* Engine.MaxDepth (32 unless it is set)

ASSUME EngineAssumption == MaxDepth \in Nat \ {0}

(* What grants a relation on an object.  A nil rewrite means This.         *)
RewriteOf(key) ==
    LET rewrite == Lookup(Schema, key.object.type, key.relation)
    IN IF rewrite = NoRewrite THEN This ELSE rewrite

=============================================================================
