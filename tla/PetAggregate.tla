---------------------------- MODULE PetAggregate ----------------------------
(***************************************************************************)
(* What becomes of the fields of one pet on the way from a request to a    *)
(* store and back: presence of fields on the wire, the aggregate's rules,  *)
(* the columns of the pets table, tag queries, the partner's payload and   *)
(* its hash.  The same calls go to a memory deployment and to a Postgres   *)
(* one, so that the two adapters of one port can be compared.              *)
(*                                                                         *)
(* Calls come one after the other here: PetService has their races.        *)
(***************************************************************************)
EXTENDS Integers, Sequences, SequencesExt

CONSTANTS Words,       \* names of pets, categories and tags
          Trim, Lower, \* strings.TrimSpace and strings.ToLower on them
          Absent,      \* a field the request leaves out
          NoCategory, NoRef, NoId, \* nil pointers
          NoPet,       \* no pet stored
          Creates,     \* payloads of POST /pet (a bound)
          Updates,     \* payloads of PUT /pet (a bound)
          Forms,       \* fields of POST /pet/{petId} (a bound)
          Grooms       \* grooming operations (a bound)

Clean(w)   == Lower[Trim[w]]
Statuses   == {"available", "pending", "sold"}
Tags       == Seq([id : Int, name : Words])
Categories == [id : Int, name : Words]
NoLabels   == [k \in {} |-> ""]

(* A stored pet's reference is one that was sent, or none.                 *)
EmptyOfRef == [provider |-> "", id |-> "", attributes |-> NoLabels]
References == {p.ref : p \in Creates \cup Updates} \cup {NoRef, EmptyOfRef}
Pets == [name : Words, photos : Seq(STRING), category : Categories \cup {NoCategory}, tags : Tags,
         status : Statuses, hair : Nat, ref : References]
Rows == [name : Words, photos : Seq(STRING), status : Statuses, hair : Nat,
         category : Categories \cup {[id |-> NoId, name |-> ""]},
         tagIds : Seq(Int), tagNames : Seq(Words), ref : References]

(* Trimming and folding again changes nothing, and folding leaves letters. *)
(* On creation, name and photos are no pointers, and never absent.         *)
ASSUME AggregateAssumption ==
    /\ Trim \in [Words -> Words] /\ Lower \in [Words -> Words] /\ "" \in Words
    /\ Trim[""] = "" /\ \A w \in Words : Lower[w] = "" <=> w = ""
    /\ \A w \in Words : Clean(Clean(w)) = Clean(w) /\ Trim[Trim[w]] = Trim[w]
    /\ NoPet \notin Pets \cup Rows /\ NoCategory \notin Categories /\ NoId \notin Int
    /\ \A f \in Forms : f.name \in Words
    /\ \A g \in Grooms : g.initial \in Int /\ g.trim \in Int
    /\ \A p \in Creates \cup Updates :
         /\ p.name = Absent \/ p.name \in Words
         /\ p.photos = Absent \/ p.photos \in Seq(STRING)
         /\ p.hair = Absent \/ p.hair \in Int
         /\ p.tags = Absent \/ p.tags \in Tags
         /\ p.category \in Categories
    /\ \A p \in Creates : p.name # Absent /\ p.photos # Absent

VARIABLES memory, \* the pet in the memory store's map
          row     \* the pet's row in the pets table

vars == <<memory, row>>

Init == memory = NoPet /\ row = NoPet

-----------------------------------------------------------------------------
(* From a payload to a mutation                                            *)

(* Categories and references are no pointers on the wire: an empty one is  *)
(* an absent one.                                                          *)
EmptyOfCategory == [id |-> 0, name |-> ""]
EmptyCategory(c) == c.id = 0 /\ Trim[c.name] = ""
EmptyRef(r) == r.provider = "" /\ r.id = "" /\ r.attributes = NoLabels

(* On creation nor are tags, status and hair length.                       *)
FromCreate(p) ==
    [name |-> p.name, photos |-> p.photos, category |-> p.category, ref |-> p.ref,
     tags   |-> IF p.tags = <<>> THEN Absent ELSE p.tags,
     status |-> IF p.status = "" THEN Absent ELSE p.status,
     hair   |-> IF p.hair = 0 THEN Absent ELSE p.hair]

-----------------------------------------------------------------------------
(* The aggregate                                                           *)

(* Mutant: pets without photos.                                            *)
RefusesNames(m) == m.name # Absent /\ Trim[m.name] = ""
Refuses(m) ==
    \/ m.name # Absent /\ Trim[m.name] = ""
    \/ m.photos # Absent /\ m.photos = <<>>
    \/ m.status \notin Statuses \cup {"", Absent}
    \/ m.hair # Absent /\ m.hair < 0

(* Mutant: names are compared before they are cleaned.                     *)
SeenRaw(kept, tag) == tag.name # "" /\ \E i \in DOMAIN kept : kept[i].name = tag.name
Seen(kept, tag) == Clean(tag.name) # "" /\ \E i \in DOMAIN kept : kept[i].name = Clean(tag.name)

(* The first tag of each name stays; tags without one all do.              *)
KeepFirst(kept, tag) ==
    IF Seen(kept, tag) THEN kept ELSE Append(kept, [id |-> tag.id, name |-> Clean(tag.name)])
ReplaceTags(tags) == FoldLeft(KeepFirst, <<>>, tags)

Or(field, old) == IF field = Absent THEN old ELSE field

UpdatedCategory(old, c) == IF EmptyCategory(c) THEN old ELSE [c EXCEPT !.name = Trim[@]]
UpdatedReference(old, r) == IF EmptyRef(r) THEN old ELSE r

Applied(pet, m) ==
    [name     |-> Or(m.name, pet.name),
     photos   |-> Or(m.photos, pet.photos),
     category |-> UpdatedCategory(pet.category, m.category),
     tags     |-> IF m.tags = Absent THEN pet.tags ELSE ReplaceTags(m.tags),
     status   |-> IF m.status = "" THEN "available" ELSE Or(m.status, pet.status),
     hair     |-> Or(m.hair, pet.hair),
     ref      |-> UpdatedReference(pet.ref, m.ref)]

(* An empty field of a form is an absent one.                              *)
WithForm(f) ==
    [name     |-> IF f.name = "" THEN Absent ELSE f.name,
     status   |-> IF f.status = "" THEN Absent ELSE f.status,
     photos   |-> Absent, tags |-> Absent, hair |-> Absent,
     category |-> EmptyOfCategory, ref |-> EmptyOfRef]

Groomed(pet, g) == [pet EXCEPT !.hair = g.initial - g.trim]

Fresh == [name |-> "", photos |-> <<>>, category |-> NoCategory, tags |-> <<>>,
          status |-> "available", hair |-> 0, ref |-> NoRef]

-----------------------------------------------------------------------------
(* The table                                                               *)

KeepNamed(kept, tag) == IF tag.name = "" THEN kept ELSE Append(kept, tag)
Named(tags) == FoldLeft(KeepNamed, <<>>, tags)
TagNames(tags) == [i \in DOMAIN Named(tags) |-> Named(tags)[i].name]

(* Mutant: ids of tags without a name are left out as the names are.       *)
NamedTagIds(tags) == [i \in DOMAIN Named(tags) |-> Named(tags)[i].id]
TagIds(tags) == [i \in DOMAIN tags |-> tags[i].id]

ToRecord(pet) ==
    [name     |-> pet.name, photos |-> pet.photos, status |-> pet.status, hair |-> pet.hair,
     category |-> IF pet.category = NoCategory THEN [id |-> NoId, name |-> ""] ELSE pet.category,
     tagIds   |-> TagIds(pet.tags), tagNames |-> TagNames(pet.tags),
     ref      |-> IF pet.ref = NoRef THEN EmptyOfRef ELSE pet.ref]

(* Ids and names are paired by position.                                   *)
RowTags(r) ==
    [i \in 1 .. Max({Len(r.tagIds), Len(r.tagNames)}) |->
        [id   |-> IF i <= Len(r.tagIds) THEN r.tagIds[i] ELSE 0,
         name |-> IF i <= Len(r.tagNames) THEN r.tagNames[i] ELSE ""]]

ToDomain(r) ==
    [name     |-> r.name, photos |-> r.photos, status |-> r.status, hair |-> r.hair,
     category |-> IF r.category.id = NoId /\ r.category.name = "" THEN NoCategory ELSE r.category,
     tags     |-> RowTags(r),
     ref      |-> IF EmptyRef(r.ref) THEN NoRef ELSE r.ref]

-----------------------------------------------------------------------------
(* The use cases, on both deployments                                      *)

Save(inMemory, inPostgres) == memory' = inMemory /\ row' = ToRecord(inPostgres)

AddPet ==
    \E p \in Creates :
      /\ ~Refuses(FromCreate(p))
      /\ Save(Applied(Fresh, FromCreate(p)), Applied(Fresh, FromCreate(p)))

UpdatePet ==
    /\ memory # NoPet
    /\ \E m \in Updates :
         ~Refuses(m) /\ Save(Applied(memory, m), Applied(ToDomain(row), m))

UpdatePetWithForm ==
    /\ memory # NoPet
    /\ \E f \in Forms :
         /\ ~Refuses(WithForm(f))
         /\ Save(Applied(memory, WithForm(f)), Applied(ToDomain(row), WithForm(f)))

GroomPet ==
    /\ memory # NoPet
    /\ \E g \in Grooms :
         /\ g.initial >= 0 /\ g.trim >= 0 /\ g.trim <= g.initial
         /\ Save(Groomed(memory, g), Groomed(ToDomain(row), g))

DeletePet ==
    /\ memory # NoPet
    /\ memory' = NoPet /\ row' = NoPet

Next == AddPet \/ UpdatePet \/ UpdatePetWithForm \/ GroomPet \/ DeletePet
Spec == Init /\ [][Next]_vars

-----------------------------------------------------------------------------
(* Queries, answers and the partner                                        *)

FoundInMemory(q) == \E i \in DOMAIN memory.tags : Lower[memory.tags[i].name] = Lower[q]

(* Mutant: the query is taken as it is spelled.                            *)
FoundAsSpelled(q) == \E i \in DOMAIN row.tagNames : Lower[row.tagNames[i]] = q
FoundInPostgres(q) == \E i \in DOMAIN row.tagNames : Lower[row.tagNames[i]] = Lower[q]

(* Mutant: an answer lists no tags without a name.                         *)
AnsweredNamed(tags) == Named(tags)
AnsweredTags(tags) == tags

(* No status asked for is available; Postgres takes a list, memory a set.  *)
Asked(statuses) == IF statuses = <<>> THEN <<"available">> ELSE statuses
ListedInMemory(statuses) == memory.status \in Range(Asked(statuses))
ListedInPostgres(statuses) ==
    \E i \in DOMAIN Asked(statuses) : row.status = Asked(statuses)[i]

(* The answer, read as the payload of an update.                           *)
Answer(pet) ==
    [name     |-> pet.name, photos |-> pet.photos, status |-> pet.status,
     category |-> IF pet.category = NoCategory THEN EmptyOfCategory ELSE pet.category,
     tags     |-> IF AnsweredTags(pet.tags) = <<>> THEN Absent ELSE AnsweredTags(pet.tags),
     hair     |-> IF pet.hair > 0 THEN pet.hair ELSE Absent,
     ref      |-> IF pet.ref = NoRef THEN EmptyOfRef ELSE pet.ref]

Attributes(pet) == IF pet.ref = NoRef THEN NoLabels ELSE pet.ref.attributes

(* Tags are labels, and attributes go over them.                           *)
ToPayload(pet) ==
    LET names == {pet.tags[i].name : i \in DOMAIN pet.tags}
        attributes == Attributes(pet) IN
    [title |-> pet.name, photos |-> pet.photos, availability |-> pet.status,
     labels |-> [k \in names \cup DOMAIN attributes |->
                    IF k \in DOMAIN attributes THEN attributes[k] ELSE "true"]]

(* The hash sorts tags, so that it is of their bag.                        *)
SortedTags(tags) ==
    [t \in {tags[i] : i \in DOMAIN tags} |-> Len(SelectSeq(tags, LAMBDA u : u = t))]

(* Mutant: attributes are left out, and the hash among them.               *)
HashWithoutAttributes(pet) ==
    <<pet.name, pet.status, pet.category, pet.photos, SortedTags(pet.tags)>>
SyncHash(pet) ==
    <<pet.name, pet.status, pet.category, pet.photos, SortedTags(pet.tags), Attributes(pet)>>

-----------------------------------------------------------------------------
(* What is checked                                                         *)

(* A stored pet has a name, a photo, a known status and no negative hair   *)
(* length, whatever was asked for.                                         *)
TypeOK ==
    /\ memory # NoPet => memory \in Pets /\ Trim[memory.name] # "" /\ memory.photos # <<>>
    /\ row # NoPet => row \in Rows

(* The two stores hold the same pet, through the columns and back, however *)
(* many times it was loaded and saved.  Tags agree unless one without a    *)
(* name comes before one with a name: the columns then shift the names.    *)
Aligned(tags) == \A i, j \in DOMAIN tags : i < j /\ tags[j].name # "" => tags[i].name # ""
BackendsAgree ==
    /\ memory = NoPet <=> row = NoPet
    /\ memory # NoPet =>
         /\ [ToDomain(row) EXCEPT !.tags = memory.tags] = memory
         /\ Aligned(memory.tags) => ToDomain(row).tags = memory.tags

(* A query by a tag's name or by status finds the pet in both stores or in *)
(* neither, shifted tags or not.                                           *)
QueriesAgree ==
    memory # NoPet =>
      /\ \A q \in Words \ {""} : FoundInMemory(q) <=> FoundInPostgres(q)
      /\ \A s \in {<<>>} \cup {<<"sold", t>> : t \in Statuses} :
            ListedInMemory(s) <=> ListedInPostgres(s)

(* No two tags of a pet have the same name, in either store.               *)
UniqueNames(tags) ==
    \A i, j \in DOMAIN tags :
        i # j /\ tags[i].name # "" => Clean(tags[i].name) # Clean(tags[j].name)
NamedTagsAreUnique ==
    memory # NoPet => UniqueNames(memory.tags) /\ UniqueNames(ToDomain(row).tags)

(* An answer sent back as an update is accepted and changes nothing.       *)
Restored(pet) == ~Refuses(Answer(pet)) /\ Applied(pet, Answer(pet)) = pet
PutBackChangesNothing ==
    memory # NoPet => Restored(memory) /\ Restored(ToDomain(row))

(* A change the partner would see changes the hash: it would be enough to  *)
(* tell an unchanged pet by.  (The comparison that asks so never succeeds, *)
(* see IdenticalPayloadIsNotResent of PetWorkflow: the stored hash is part *)
(* of what is hashed.)                                                     *)
HashCoversPayload ==
    [][memory # NoPet /\ memory' # NoPet /\ SyncHash(memory') = SyncHash(memory)
         => ToPayload(memory') = ToPayload(memory)]_vars

=============================================================================
