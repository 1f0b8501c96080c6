------------------------------ MODULE Parsers -------------------------------
(***************************************************************************)
(* What the parser of schemas promises, alone for the expression of one    *)
(* permission and for whole schemas.  (The parsers of names: Texts.)       *)
(***************************************************************************)
EXTENDS SchemaParser, Texts

Source == form.opening \o Text \o form.closing \o <<EndOfInput>>

----------------------------------------------------------------------------
(* What an expression means, from its tokens alone: the operator that is   *)
(* applied last is the last one outside all parentheses, and & only if     *)
(* there is no + or -.                                                     *)

Nesting(expr, i) ==
    Cardinality({j \in 1..i : expr[j] = "("}) - Cardinality({j \in 1..i : expr[j] = ")"})

Outermost(expr, operators) ==
    {i \in DOMAIN expr : expr[i] \in operators /\ Nesting(expr, i) = 0}

(* The operator that is applied last; 0 if there is none.                  *)
Split(expr) ==
    LET loose == Outermost(expr, {"+", "-"})
        tight == Outermost(expr, {"&"})
    IN IF loose # {} THEN Max(loose) ELSE IF tight # {} THEN Max(tight) ELSE 0

Left(expr) == SubSeq(expr, 1, Split(expr) - 1)

Right(expr) == SubSeq(expr, Split(expr) + 1, Len(expr))

IsParenthesised(expr) ==
    Len(expr) > 2 /\ Head(expr) = "(" /\ expr[Len(expr)] = ")"

Inner(expr) == SubSeq(expr, 2, Len(expr) - 1)

(* A name, or a walk from a name to a name.                                *)
IsAtom(expr) ==
    \/ /\ Len(expr) = 1
       /\ IsName(expr[1])
    \/ /\ Len(expr) = 3
       /\ IsName(expr[1]) /\ expr[2] = "->" /\ IsName(expr[3])

RECURSIVE WellFormed(_)
WellFormed(expr) ==
    IF Split(expr) # 0
      THEN WellFormed(Left(expr)) /\ WellFormed(Right(expr))
      ELSE IsAtom(expr) \/ (IsParenthesised(expr) /\ WellFormed(Inner(expr)))

(* The expression grants if these atoms do.                                *)
RECURSIVE Means(_, _)
Means(expr, atoms) ==
    LET operator == expr[Split(expr)]
    IN IF Split(expr) # 0
         THEN CASE operator = "+" -> Means(Left(expr), atoms) \/ Means(Right(expr), atoms)
                [] operator = "&" -> Means(Left(expr), atoms) /\ Means(Right(expr), atoms)
                [] operator = "-" -> Means(Left(expr), atoms) /\ ~ Means(Right(expr), atoms)
         ELSE IF IsAtom(expr) THEN expr \in atoms ELSE Means(Inner(expr), atoms)

(* What the engine makes of a tree.                                        *)
RECURSIVE Decides(_, _)
Decides(rewrite, atoms) ==
    CASE rewrite.op = "computed" -> <<rewrite.relation>> \in atoms
      [] rewrite.op = "tupleToUserset" ->
           <<rewrite.tupleset, "->", rewrite.computed>> \in atoms
      [] rewrite.op = "union" ->
           \E i \in DOMAIN rewrite.children : Decides(rewrite.children[i], atoms)
      [] rewrite.op = "intersection" ->
           \A i \in DOMAIN rewrite.children : Decides(rewrite.children[i], atoms)
      [] rewrite.op = "exclusion" ->
           Decides(rewrite.base, atoms) /\ ~ Decides(rewrite.subtract, atoms)

AtomsOf(expr) ==
    {atom \in {<<name>> : name \in ToSet(expr)}
                \cup {SubSeq(expr, i, i + 2) : i \in 1..(Len(expr) - 2)} : IsAtom(atom)}

----------------------------------------------------------------------------
(* Properties.                                                             *)

(* "`+` and `-` bind loosest and associate left, so a + b - c is           *)
(* (a + b) - c": the parser accepts exactly the well-formed expressions,   *)
(* and the tree it builds, chains flattened, grants exactly what the       *)
(* expression says, whatever its atoms grant.                              *)
ExpressionsExact ==
    LET result == Parse(Source)
        type == form.opening[2]
        permission == form.opening[Len(form.opening) - 1]
    IN form.kind = "expression" =>
         /\ result.ok = WellFormed(Text)
         /\ result.ok =>
              \A atoms \in SUBSET AtomsOf(Text) :
                Decides(Lookup(result.value, type, permission), atoms) = Means(Text, atoms)

(* The number of the definition that a token of the source belongs to.     *)
BlockOf(toks, i) == Cardinality({j \in 1..i : toks[j] = "definition"})

IsDeclared(toks, name, block) ==
    \E i \in DOMAIN toks : /\ toks[i] \in {"relation", "permission"}
                           /\ toks[i + 1] = name
                           /\ BlockOf(toks, i) = block

(* "A schema that names a relation nobody defined is a bug the author      *)
(* should hear about at load": in a source that is accepted, each name in  *)
(* an expression, the far ends of walks apart, is declared somewhere in    *)
(* the same definition, earlier or later.                                  *)
NamesResolve ==
    LET toks == Source
    IN form.kind = "schema" /\ Parse(toks).ok =>
         \A i \in DOMAIN toks \ {1} :
            IsName(toks[i]) /\ toks[i - 1] \in {"=", "+", "-", "&", "("}
              => IsDeclared(toks, toks[i], BlockOf(toks, i))

Declarations(toks) ==
    Cardinality({i \in DOMAIN toks : toks[i] \in {"definition", "relation", "permission"}})

(* Nothing that is declared gets lost: an accepted schema has as many      *)
(* types and relations as its source has declarations, so none has         *)
(* overwritten another.                                                    *)
NothingOverwritten ==
    LET result == Parse(Source)
        members == UNION {{<<type, name>> : name \in DOMAIN result.value[type]} :
                          type \in DOMAIN result.value}
    IN form.kind = "schema" /\ result.ok =>
         Cardinality(DOMAIN result.value) + Cardinality(members) = Declarations(Source)

=============================================================================
