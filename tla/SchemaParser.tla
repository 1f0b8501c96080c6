---------------------------- MODULE SchemaParser ----------------------------
(***************************************************************************)
(* The parser of schemas (internal/schema/parse.go), from tokens to a      *)
(* schema.  A token is its text; the lexer, line numbers and messages are  *)
(* left out.  The parser is a recursive descent without backtracking; a    *)
(* result holds the position of the next token.                            *)
(***************************************************************************)
EXTENDS Relationships, SequencesExt

EndOfInput == ""

Punctuation == {"{", "}", ":", "|", "=", "+", "&", "-", "->", "(", ")", "#"}

(* tokIdent.  The keywords are names like any other.                       *)
IsName(token) == token \notin Punctuation \cup {EndOfInput}

Parsed(value, pos) == [ok |-> TRUE, value |-> value, pos |-> pos]

Rejected == [ok |-> FALSE, value |-> NoRewrite, pos |-> 0]

----------------------------------------------------------------------------
(* Expressions.                                                            *)

(* One more operand of a chain of unions or intersections: a chain is one  *)
(* node.                                                                   *)
Chained(op, left, right) ==
    IF left.op = op THEN [left EXCEPT !.children = Append(@, right)]
                    ELSE [op |-> op, children |-> <<left, right>>]

Combined(operator, left, right) ==
    CASE operator = "+" -> Chained("union", left, right)
      [] operator = "&" -> Chained("intersection", left, right)
      [] operator = "-" -> Exclusion(left, right)

RECURSIVE ParseExpr(_, _)

ParsePrimary(toks, pos) ==
    IF toks[pos] = "("
      THEN LET inner == ParseExpr(toks, pos + 1)
           IN IF inner.ok /\ toks[inner.pos] = ")"
                THEN Parsed(inner.value, inner.pos + 1) ELSE Rejected
      ELSE IF ~ IsName(toks[pos])
        THEN Rejected
        ELSE IF toks[pos + 1] # "->"
          THEN Parsed(ComputedUserset(toks[pos]), pos + 1)
          ELSE IF IsName(toks[pos + 2])
            THEN Parsed(TupleToUserset(toks[pos], toks[pos + 2]), pos + 3)
            ELSE Rejected

(* The loops of parseIntersection and parseExpr, after their first operand *)
RECURSIVE MoreFactors(_, _)
MoreFactors(toks, left) ==
    IF ~ left.ok \/ toks[left.pos] # "&"
      THEN left
      ELSE LET right == ParsePrimary(toks, left.pos + 1)
           IN IF right.ok
                THEN MoreFactors(toks, Parsed(Combined("&", left.value, right.value),
                                              right.pos))
                ELSE Rejected

ParseIntersection(toks, pos) == MoreFactors(toks, ParsePrimary(toks, pos))

(* Variant: the right operand is a whole expression: operators associate   *)
(* to the right.                                                           *)
RightOperandExpr(toks, pos) == ParseExpr(toks, pos)

RightOperand(toks, pos) == ParseIntersection(toks, pos)

RECURSIVE MoreTerms(_, _)
MoreTerms(toks, left) ==
    IF ~ left.ok \/ toks[left.pos] \notin {"+", "-"}
      THEN left
      ELSE LET right == RightOperand(toks, left.pos + 1)
           IN IF right.ok
                THEN MoreTerms(toks, Parsed(Combined(toks[left.pos], left.value, right.value),
                                            right.pos))
                ELSE Rejected

ParseExpr(toks, pos) == MoreTerms(toks, ParseIntersection(toks, pos))

----------------------------------------------------------------------------
(* Members.  The value is the function from names to rewrites that         *)
(* Definition.Relations holds.                                             *)

Empty == [name \in {} |-> NoRewrite]

Declare(f, name, value) ==
    [n \in DOMAIN f \cup {name} |-> IF n = name THEN value ELSE f[n]]

(* user | group#member, which is read and forgotten.                       *)
RECURSIVE ParseTypeList(_, _)
ParseTypeList(toks, pos) ==
    LET named == IsName(toks[pos])
        userset == named /\ toks[pos + 1] = "#"
        after == IF userset THEN pos + 3 ELSE pos + 1
    IN IF ~ named \/ (userset /\ ~ IsName(toks[pos + 2]))
         THEN Rejected
         ELSE IF toks[after] = "|" THEN ParseTypeList(toks, after + 1)
                                   ELSE Parsed(NoRewrite, after)

(* Variant: a name may be declared again.                                  *)
NeverTaken(relations, name) == FALSE

IsTaken(relations, name) == name \in DOMAIN relations

ParseRelation(toks, pos, relations) ==
    LET types == IF toks[pos + 1] = ":" THEN ParseTypeList(toks, pos + 2)
                                        ELSE Parsed(NoRewrite, pos + 1)
    IN IF types.ok THEN Parsed(Declare(relations, toks[pos], NoRewrite), types.pos)
                   ELSE Rejected

ParsePermission(toks, pos, relations) ==
    LET expr == ParseExpr(toks, pos + 2)
    IN IF toks[pos + 1] = "=" /\ expr.ok
         THEN Parsed(Declare(relations, toks[pos], expr.value), expr.pos)
         ELSE Rejected

ParseMember(toks, pos, relations) ==
    IF /\ toks[pos] \in {"relation", "permission"}
       /\ IsName(toks[pos + 1])
       /\ ~ IsTaken(relations, toks[pos + 1])
      THEN IF toks[pos] = "relation" THEN ParseRelation(toks, pos + 1, relations)
                                     ELSE ParsePermission(toks, pos + 1, relations)
      ELSE Rejected

(* Up to the closing brace; the end of the input is no member.             *)
RECURSIVE ParseMembers(_, _, _)
ParseMembers(toks, pos, relations) ==
    IF toks[pos] = "}"
      THEN Parsed(relations, pos + 1)
      ELSE LET member == ParseMember(toks, pos, relations)
           IN IF member.ok THEN ParseMembers(toks, member.pos, member.value) ELSE Rejected

----------------------------------------------------------------------------
(* Variant: validateRewrite forgets the subtracted side.                   *)
RECURSIVE GrantingReferences(_)
GrantingReferences(rewrite) ==
    CASE rewrite.op = "computed" -> {rewrite.relation}
      [] rewrite.op = "tupleToUserset" -> {rewrite.tupleset}
      [] rewrite.op \in {"union", "intersection"} ->
           UNION {GrantingReferences(rewrite.children[i]) : i \in DOMAIN rewrite.children}
      [] rewrite.op = "exclusion" -> GrantingReferences(rewrite.base)
      [] OTHER -> {}

(* The relations of the same definition that validateRewrite looks up.     *)
RECURSIVE References(_)
References(rewrite) ==
    CASE rewrite.op = "computed" -> {rewrite.relation}
      [] rewrite.op = "tupleToUserset" -> {rewrite.tupleset}
      [] rewrite.op \in {"union", "intersection"} ->
           UNION {References(rewrite.children[i]) : i \in DOMAIN rewrite.children}
      [] rewrite.op = "exclusion" ->
           References(rewrite.base) \cup References(rewrite.subtract)
      [] OTHER -> {}

Validated(schema) ==
    \A type \in DOMAIN schema : \A name \in DOMAIN schema[type] :
        References(schema[type][name]) \subseteq DOMAIN schema[type]

RECURSIVE ParseDefinitions(_, _, _)
ParseDefinitions(toks, pos, schema) ==
    IF toks[pos] = EndOfInput
      THEN IF Validated(schema) THEN Parsed(schema, pos) ELSE Rejected
      ELSE IF /\ toks[pos] = "definition"
              /\ IsName(toks[pos + 1])
              /\ ~ IsTaken(schema, toks[pos + 1])
              /\ toks[pos + 2] = "{"
        THEN LET members == ParseMembers(toks, pos + 3, Empty)
             IN IF members.ok
                  THEN ParseDefinitions(toks, members.pos,
                                        Declare(schema, toks[pos + 1], members.value))
                  ELSE Rejected
        ELSE Rejected

Parse(toks) == ParseDefinitions(toks, 1, Empty)

=============================================================================
