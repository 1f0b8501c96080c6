------------------------------- MODULE Naming -------------------------------
(***************************************************************************)
(* The names of objects and subjects (internal/storage/storage.go): how    *)
(* they are parsed, rendered, and joined to the keys of the indexes.  A    *)
(* name is a sequence of letters; what matters is where the separators     *)
(* are, for no parser restricts what an identifier may hold.               *)
(***************************************************************************)
EXTENDS Relationships, SequencesExt

(* The relation of a subject that is no userset.                           *)
NoName == << >>

Malformed == Userset(Object(NoName, NoName), NoName)

(* Variant: strings.LastIndex.                                             *)
LastIndex(s, letter) ==
    IF letter \in ToSet(s) THEN Max({i \in DOMAIN s : s[i] = letter}) ELSE 0

(* strings.Index, counted from 1; 0 if there is none.                      *)
Index(s, letter) ==
    IF letter \in ToSet(s) THEN Min({i \in DOMAIN s : s[i] = letter}) ELSE 0

Before(s, i) == SubSeq(s, 1, i - 1)

After(s, i) == SubSeq(s, i + 1, Len(s))

(* type:id, neither of them empty. *)
IsObjectName(s) == Index(s, ":") \in 2..(Len(s) - 1)

ParseObject(s) ==
    LET i == Index(s, ":")
    IN IF IsObjectName(s) THEN Object(Before(s, i), After(s, i)) ELSE Malformed.object

(* type:id or type:id#relation. *)
ParseSubject(s) ==
    LET i == Index(s, "#")
        ref == IF i = 0 THEN s ELSE Before(s, i)
    IN IF IsObjectName(ref) /\ i # Len(s)
         THEN Userset(ParseObject(ref), IF i = 0 THEN NoName ELSE After(s, i))
         ELSE Malformed

ObjectString(object) == object.type \o <<":">> \o object.id

(* Variant: the key has no separator of its own.                           *)
RunTogether(object, relation) == ObjectString(object) \o <<":">> \o relation

(* key(), and String of a userset. *)
Joined(object, relation) == ObjectString(object) \o <<"#">> \o relation

SubjectString(subject) ==
    IF subject.relation = NoName THEN ObjectString(subject.object)
                                 ELSE Joined(subject.object, subject.relation)

=============================================================================
