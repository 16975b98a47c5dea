--------------------------- MODULE MCPetAggregate ---------------------------
(* PetAggregate on names that differ in case, a blank one and an empty     *)
(* one.                                                                    *)
EXTENDS PetAggregate, TLC

ToTrim  == [w \in Words |-> IF w = " " THEN "" ELSE w]
ToLower == [w \in Words |-> IF w = "A" THEN "a" ELSE w]

NoneGiven == [name |-> Absent, photos |-> Absent, category |-> [id |-> 0, name |-> " "],
              tags |-> Absent, status |-> Absent, hair |-> Absent,
              ref |-> [provider |-> "", id |-> "", attributes |-> NoLabels]]
Minimal == [NoneGiven EXCEPT !.name = "a", !.photos = <<"u">>, !.tags = <<>>,
                             !.status = "", !.hair = 0]

Tag(id, name) == [id |-> id, name |-> name]
TagLists == {<<>>, <<Tag(1, "a"), Tag(2, "A"), Tag(3, "b")>>, <<Tag(1, "b"), Tag(2, " ")>>,
             <<Tag(1, ""), Tag(2, "a")>>, <<Tag(1, " "), Tag(-1, ""), Tag(0, "b")>>,
             <<Tag(2, "b"), Tag(1, "A")>>}
Refs == {[provider |-> "p", id |-> "", attributes |-> NoLabels],
         [provider |-> "", id |-> "", attributes |-> [k \in {"a"} |-> "x"]],
         [provider |-> "p", id |-> "i", attributes |-> [k \in {"k"} |-> "x"]]}

SomeCreates ==
    {Minimal, [Minimal EXCEPT !.photos = <<>>], [Minimal EXCEPT !.name = " "]}
        \cup {[Minimal EXCEPT !.tags = tags, !.ref = ref, !.hair = 1] : tags \in TagLists, ref \in Refs}
SomeUpdates ==
    {[NoneGiven EXCEPT !.name = w] : w \in Words}
        \cup {[NoneGiven EXCEPT !.photos = photos] : photos \in {<<>>, <<"u", "u">>}}
        \cup {[NoneGiven EXCEPT !.tags = tags] : tags \in TagLists}
        \cup {[NoneGiven EXCEPT !.status = s] : s \in {"", "sold", "pending", "lost"}}
        \cup {[NoneGiven EXCEPT !.hair = h] : h \in {-1, 0}}
        \cup {[NoneGiven EXCEPT !.ref = ref] : ref \in Refs}
        \cup {[NoneGiven EXCEPT !.category = c] : c \in {Tag(1, " "), Tag(0, "b")}}
SomeForms == {[name |-> w, status |-> s] : w \in {"", " ", "b"}, s \in {"", "sold", "lost"}}
SomeGrooms == {[initial |-> 1, trim |-> 1], [initial |-> 1, trim |-> 2], [initial |-> 2, trim |-> 0]}
=============================================================================
