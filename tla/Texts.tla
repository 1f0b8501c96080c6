------------------------------- MODULE Texts --------------------------------
(***************************************************************************)
(* The texts that are parsed, and what the parsers of names promise.       *)
(*                                                                         *)
(* The state is a text that grows by one fragment at a time, so that TLC   *)
(* parses every text of up to so many fragments, well-formed or not.       *)
(***************************************************************************)
EXTENDS Naming

CONSTANTS Forms          \* the texts to parse: [kind, opening, fragments, closing, size]

ASSUME FormsAssumption ==
    \A form \in Forms : /\ form.kind \in {"expression", "schema", "name"}
                        /\ form.fragments \subseteq Seq(STRING)
                        /\ form.size \in Nat

VARIABLES form,          \* the kind of text
          body           \* its fragments so far, between opening and closing

vars == <<form, body>>

Init == form \in Forms /\ body = << >>

Next ==
    /\ Len(body) < form.size
    /\ \E fragment \in form.fragments : body' = Append(body, fragment)
    /\ UNCHANGED form

Spec == Init /\ [][Next]_vars

(* The tokens of a source, or the letters of a name.                       *)
Text == FlattenSeq(body)

----------------------------------------------------------------------------
(* Properties.                                                             *)

(* A subject is rendered as the text it was parsed from, separators in     *)
(* odd places included, and what is rendered is parsed as what it was: the *)
(* reverse index, whose keys are rendered subjects, keeps the subjects     *)
(* that requests name apart.                                               *)
SubjectsRoundTrip ==
    LET subject == ParseSubject(Text)
    IN form.kind = "name" /\ subject # Malformed =>
         /\ SubjectString(subject) = Text
         /\ "#" \notin ToSet(subject.object.type) \cup ToSet(subject.object.id)

(* The objects and relations whose key in the forward index is the text.   *)
(* A request may name any object that is parsed and any relation that is   *)
(* not empty, and is held against no schema when it writes.                *)
Owners ==
    {owner \in {RelationKey(ParseObject(Before(Text, i)), After(Text, i)) : i \in DOMAIN Text} :
       /\ owner.object # Malformed.object
       /\ owner.relation # NoName
       /\ Joined(owner.object, owner.relation) = Text}

(* Two relations of objects have one key of the forward index only if they *)
(* name the same type, the relation of one holds a "#", and the identifier *)
(* of the object of the other holds one.  Relations without a "#", such as *)
(* all that a schema can have, keep their keys apart whatever separators   *)
(* the identifiers of objects hold.                                        *)
KeysDistinct ==
    form.kind = "name" =>
      \A one, other \in Owners : one # other =>
        /\ one.object.type = other.object.type
        /\ \/ "#" \in ToSet(one.relation) \cap ToSet(other.object.id)
           \/ "#" \in ToSet(other.relation) \cap ToSet(one.object.id)

=============================================================================
