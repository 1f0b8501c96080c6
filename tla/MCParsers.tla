----------------------------- MODULE MCParsers ------------------------------
(***************************************************************************)
(* Expressions over two relations, schemas of up to two types, and names   *)
(* with separators in any place.  Names of schemas are never keywords.     *)
(***************************************************************************)
EXTENDS Parsers

(* With groups of seven tokens such as (b + b) - a.                        *)
Expressions ==
    [kind |-> "expression",
     opening |-> <<"definition", "d", "{", "relation", "a", "relation", "b",
                   "permission", "p", "=">>,
     fragments |-> {<<"a">>, <<"+">>, <<"-">>, <<"&">>, <<"(", "b">>,
                    <<"b", ")">>, <<"b", "->", "a">>},
     closing |-> <<"}">>,
     size |-> 7]

Schemas ==
    [kind |-> "schema",
     opening |-> << >>,
     fragments |->
       {<<"definition", "d", "{">>, <<"definition", "e", "{">>, <<"}">>, <<"|">>,
        <<"relation", "a">>,
        <<"relation", "b", ":", "d", "|", "e", "#", "a">>,
        <<"permission", "a", "=", "b">>,
        <<"permission", "p", "=", "a", "-", "b">>,
        <<"permission", "q", "=", "(", "b", "->", "z", "+", "p", ")", "&", "a">>},
     closing |-> << >>,
     size |-> 6]

Names ==
    [kind |-> "name", opening |-> << >>, fragments |-> {<<"x">>, <<":">>, <<"#">>},
     closing |-> << >>, size |-> 7]

MCForms == {Expressions, Schemas, Names}

=============================================================================
