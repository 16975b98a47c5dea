------------------------- MODULE PetAggregateProofs -------------------------
(***************************************************************************)
(* Theorems about PetAggregate, for any words with any trimming and        *)
(* folding, any payloads and any sequence of calls.  The two folds over    *)
(* tags are taken step by step, by induction over the prefixes of a list;  *)
(* then one invariant relates the two stores: the row is the record of the *)
(* pet in memory.                                                          *)
(***************************************************************************)
EXTENDS PetAggregate, TLAPS, SequenceTheorems, FiniteSetTheorems

TagSet == [id : Int, name : Words]

LEMMA TagsAreSeqs == \A tags \in Tags : Len(tags) \in Nat /\ tags \in [1 .. Len(tags) -> TagSet]
  BY LenProperties DEF Tags, TagSet

LEMMA Cleaned ==
    ASSUME NEW w \in Words
    PROVE  /\ Trim[w] \in Words /\ Lower[w] \in Words /\ Clean(w) \in Words
           /\ Clean(Clean(w)) = Clean(w) /\ Trim[Trim[w]] = Trim[w]
  BY AggregateAssumption DEF Clean

-----------------------------------------------------------------------------
(* Folds over a list, from the left                                        *)

At(tags, i) == tags[i]
KeepTag(tag, kept) == KeepFirst(kept, tag)
NameTag(tag, kept) == KeepNamed(kept, tag)
Keeping == INSTANCE SetFolds WITH Op <- KeepTag, Base <- <<>>, Value <- At, Pick <- Max
Naming  == INSTANCE SetFolds WITH Op <- NameTag, Base <- <<>>, Value <- At, Pick <- Max

(* What is left of the first k tags.                                       *)
Kept(tags, k)      == Keeping!Fold(tags, 1 .. k)
NamedUpTo(tags, k) == Naming!Fold(tags, 1 .. k)

LEMMA KeptTags == \A tags \in Tags : ReplaceTags(tags) = Kept(tags, Len(tags))
  <1> SUFFICES ASSUME NEW tags \in Tags PROVE ReplaceTags(tags) = Kept(tags, Len(tags))
    OBVIOUS
  <1>1. ReplaceTags(tags) = Keeping!Fold(tags, DOMAIN tags)
    BY Zenon DEF ReplaceTags, FoldLeft, MapThenFoldSet, Keeping!Fold, Keeping!MapThenFoldSet, KeepTag, At
  <1> QED BY <1>1, TagsAreSeqs DEF Kept

LEMMA NamedTags == \A tags \in Tags : Named(tags) = NamedUpTo(tags, Len(tags))
  <1> SUFFICES ASSUME NEW tags \in Tags PROVE Named(tags) = NamedUpTo(tags, Len(tags))
    OBVIOUS
  <1>1. Named(tags) = Naming!Fold(tags, DOMAIN tags)
    BY Zenon DEF Named, FoldLeft, MapThenFoldSet, Naming!Fold, Naming!MapThenFoldSet, NameTag, At
  <1> QED BY <1>1, TagsAreSeqs DEF NamedUpTo

LEMMA FiniteAlike ==
    \A S : IsFiniteSet(S) => Keeping!IsFiniteSet(S) /\ Naming!IsFiniteSet(S)
  BY Zenon DEF IsFiniteSet, Keeping!IsFiniteSet, Naming!IsFiniteSet

LEMMA SmallestOf ==
    ASSUME NEW S, IsFiniteSet(S), NEW T, T \subseteq SUBSET S, T # {}
    PROVE  \E x \in T : \A y \in T : y \subseteq x => y = x
  <1>1. Keeping!IsFiniteSet(S)
    BY FiniteAlike
  <1> QED BY <1>1, Keeping!SmallestSubset

LEMMA MaxIsIn ==
    ASSUME NEW n \in Nat, NEW S \in SUBSET (1 .. n), S # {}
    PROVE  Max(S) \in S /\ \A i \in S : Max(S) >= i
  <1> DEFINE T == {i .. n : i \in S}
  <1>1. PICK D : D = 1 .. n
    OBVIOUS
  <1>2. IsFiniteSet(D)
    BY <1>1, FS_Interval
  <1>3. T \subseteq SUBSET D
    <2>1. \A i \in 1 .. n : i .. n \subseteq 1 .. n
      OBVIOUS
    <2> QED BY <1>1, <2>1
  <1>4. T # {}
    OBVIOUS
  <1>5. PICK t \in T : \A u \in T : u \subseteq t => u = t
    <2> HIDE DEF T
    <2> QED BY <1>2, <1>3, <1>4, SmallestOf
  <1>6. PICK m \in S : t = m .. n
    OBVIOUS
  <1>7. ASSUME NEW i \in S PROVE m >= i
    <2>1. i .. n \in T /\ i \in 1 .. n /\ m \in 1 .. n
      OBVIOUS
    <2>2. CASE i > m
      <3>1. i .. n \subseteq t
        BY <1>6, <2>1, <2>2
      <3>2. i .. n = t
        <4> HIDE DEF T
        <4> QED BY <1>5, <2>1, <3>1
      <3>3. m \in m .. n /\ m \notin i .. n
        BY <2>1, <2>2
      <3> QED BY <1>6, <3>2, <3>3
    <2> QED BY <2>1, <2>2
  <1>8. \E x \in S : \A y \in S : x >= y
    BY <1>7
  <1> QED BY <1>8 DEF Max

LEMMA MaxOfPrefix ==
    ASSUME NEW n \in Nat
    PROVE  /\ IsFiniteSet(1 .. n) /\ Keeping!Picks(1 .. n) /\ Naming!Picks(1 .. n)
           /\ n # 0 => Max(1 .. n) = n
  <1>1. IsFiniteSet(1 .. n)
    BY FS_Interval
  <1>2. Keeping!Picks(1 .. n) /\ Naming!Picks(1 .. n)
    BY MaxIsIn DEF Keeping!Picks, Naming!Picks
  <1>3. ASSUME n # 0 PROVE Max(1 .. n) = n
    <2>1. n \in 1 .. n /\ 1 .. n \in SUBSET (1 .. n)
      BY <1>3
    <2>2. Max(1 .. n) \in 1 .. n /\ \A i \in 1 .. n : Max(1 .. n) >= i
      BY <2>1, MaxIsIn
    <2> QED BY <2>1, <2>2
  <1> QED BY <1>1, <1>2, <1>3

(* The two equations of each fold.                                         *)
LEMMA KeptSteps ==
    ASSUME NEW tags, NEW k \in Nat
    PROVE  /\ Kept(tags, 0) = <<>>
           /\ Kept(tags, k + 1) = KeepFirst(Kept(tags, k), tags[k + 1])
  <1>1. Kept(tags, 0) = <<>>
    <2>1. 1 .. 0 = {}
      OBVIOUS
    <2> QED BY <2>1, Keeping!FoldOfNone DEF Kept
  <1>2. PICK D : D = 1 .. (k + 1)
    OBVIOUS
  <1>3. Keeping!IsFiniteSet(D) /\ Keeping!Picks(D) /\ Max(D) = k + 1
    BY <1>2, MaxOfPrefix, FiniteAlike
  <1>4. D # {} /\ D \ {k + 1} = 1 .. k
    <2>1. k + 1 \in 1 .. (k + 1) /\ (1 .. (k + 1)) \ {k + 1} = 1 .. k
      OBVIOUS
    <2> QED BY <1>2, <2>1
  <1>5. Keeping!Fold(tags, D) = KeepTag(At(tags, Max(D)), Keeping!Fold(tags, D \ {Max(D)}))
    BY <1>3, <1>4, Keeping!FoldOfMore
  <1>6. Keeping!Fold(tags, D) = KeepTag(At(tags, k + 1), Keeping!Fold(tags, 1 .. k))
    BY <1>3, <1>4, <1>5
  <1> QED BY <1>1, <1>2, <1>6 DEF Kept, KeepTag, At

LEMMA NamedSteps ==
    ASSUME NEW tags, NEW k \in Nat
    PROVE  /\ NamedUpTo(tags, 0) = <<>>
           /\ NamedUpTo(tags, k + 1) = KeepNamed(NamedUpTo(tags, k), tags[k + 1])
  <1>1. NamedUpTo(tags, 0) = <<>>
    <2>1. 1 .. 0 = {}
      OBVIOUS
    <2> QED BY <2>1, Naming!FoldOfNone DEF NamedUpTo
  <1>2. PICK D : D = 1 .. (k + 1)
    OBVIOUS
  <1>3. Naming!IsFiniteSet(D) /\ Naming!Picks(D) /\ Max(D) = k + 1
    BY <1>2, MaxOfPrefix, FiniteAlike
  <1>4. D # {} /\ D \ {k + 1} = 1 .. k
    <2>1. k + 1 \in 1 .. (k + 1) /\ (1 .. (k + 1)) \ {k + 1} = 1 .. k
      OBVIOUS
    <2> QED BY <1>2, <2>1
  <1>5. Naming!Fold(tags, D) = NameTag(At(tags, Max(D)), Naming!Fold(tags, D \ {Max(D)}))
    BY <1>3, <1>4, Naming!FoldOfMore
  <1>6. Naming!Fold(tags, D) = NameTag(At(tags, k + 1), Naming!Fold(tags, 1 .. k))
    BY <1>3, <1>4, <1>5
  <1> QED BY <1>1, <1>2, <1>6 DEF NamedUpTo, NameTag, At
-----------------------------------------------------------------------------
(* Induction, as a smallest number of any set of them                      *)

LEMMA SmallestNumber ==
    ASSUME NEW T \in SUBSET Nat, T # {}
    PROVE  \E m \in T : \A i \in T : m <= i
  <1>1. PICK n \in T : TRUE
    OBVIOUS
  <1> DEFINE D == 1 .. n
             P == {1 .. i : i \in {j \in T : j <= n}}
  <1>2. IsFiniteSet(D)
    BY <1>1, FS_Interval
  <1>3. P \subseteq SUBSET D
    <2>1. \A i \in Nat : i <= n => 1 .. i \subseteq D
      OBVIOUS
    <2> QED BY <2>1
  <1>4. P # {}
    BY <1>1
  <1>5. PICK s \in P : \A t \in P : t \subseteq s => t = s
    <2> HIDE DEF P, D
    <2> QED BY <1>2, <1>3, <1>4, SmallestOf
  <1>6. PICK m \in T : s = 1 .. m /\ m <= n
    OBVIOUS
  <1>7. ASSUME NEW i \in T, i < m PROVE FALSE
    <2>1. 1 .. i \in P /\ 1 .. i \subseteq s
      BY <1>6, <1>7
    <2>2. 1 .. i = s
      <3> HIDE DEF P
      <3> QED BY <1>5, <2>1
    <2>3. m \in 1 .. m /\ m \notin 1 .. i
      BY <1>7
    <2> QED BY <1>6, <2>2, <2>3
  <1> QED BY <1>7

-----------------------------------------------------------------------------
(* What ReplaceTags leaves                                                 *)

CleanTags(tags)  == \A i \in DOMAIN tags : Clean(tags[i].name) = tags[i].name
NormalTags(tags) == CleanTags(tags) /\ UniqueNames(tags)

(* The first k of the tags, normalized: of tags that are, all of them.     *)
Normalized(tags, k, kept) ==
    /\ kept \in Tags /\ NormalTags(kept)
    /\ NormalTags(tags) => Len(kept) = k /\ \A i \in 1 .. k : kept[i] = tags[i]

LEMMA AppendTag ==
    ASSUME NEW tags \in Tags, NEW tag \in TagSet
    PROVE  /\ Append(tags, tag) \in Tags /\ Len(Append(tags, tag)) = Len(tags) + 1
           /\ DOMAIN Append(tags, tag) = 1 .. (Len(tags) + 1) /\ DOMAIN tags = 1 .. Len(tags)
           /\ Append(tags, tag)[Len(tags) + 1] = tag
           /\ \A i \in 1 .. Len(tags) : Append(tags, tag)[i] = tags[i]
  BY DEF Tags, TagSet

LEMMA KeepsNormal ==
    ASSUME NEW tags \in Tags, NEW k \in 0 .. Len(tags) - 1, NEW kept, Normalized(tags, k, kept)
    PROVE  Normalized(tags, k + 1, KeepFirst(kept, tags[k + 1]))
  <1>0. /\ kept \in Tags /\ Len(kept) \in Nat /\ DOMAIN kept = 1 .. Len(kept)
        /\ \A i \in DOMAIN kept : kept[i] \in TagSet
    BY TagsAreSeqs DEF Normalized
  <1>1. /\ Len(tags) \in Nat /\ k + 1 \in 1 .. Len(tags) /\ DOMAIN tags = 1 .. Len(tags)
        /\ \A i \in DOMAIN tags : tags[i] \in TagSet
    BY TagsAreSeqs
  <1>2. PICK tag \in TagSet : tag = tags[k + 1]
    BY <1>1
  <1>3. tag.name \in Words /\ tag.id \in Int /\ Clean(tag.name) \in Words
        /\ Clean(Clean(tag.name)) = Clean(tag.name)
    BY Cleaned DEF TagSet
  <1>4. CASE Seen(kept, tag)
    <2>1. KeepFirst(kept, tag) = kept
      BY <1>4 DEF KeepFirst
    <2>2. ~NormalTags(tags)
      <3> SUFFICES ASSUME NormalTags(tags) PROVE FALSE
        OBVIOUS
      <3>1. Len(kept) = k /\ \A i \in 1 .. k : kept[i] = tags[i]
        BY DEF Normalized
      <3>2. PICK i \in DOMAIN kept : kept[i].name = Clean(tag.name) /\ Clean(tag.name) # ""
        BY <1>4 DEF Seen
      <3>3. i \in DOMAIN tags /\ k + 1 \in DOMAIN tags /\ i # k + 1
        BY <1>0, <1>1, <3>1
      <3>4. tags[i].name = Clean(tag.name) /\ tags[i].name # "" /\ Clean(tags[i].name) = tags[i].name
        BY <1>0, <3>1, <3>2, <3>3 DEF NormalTags, CleanTags
      <3>5. Clean(tags[i].name) # Clean(tags[k + 1].name)
        BY <3>3, <3>4 DEF NormalTags, UniqueNames
      <3> QED BY <1>2, <3>4, <3>5
    <2> QED BY <1>2, <2>1, <2>2 DEF Normalized
  <1>5. CASE ~Seen(kept, tag)
    <2>1. PICK new \in TagSet : new = [id |-> tag.id, name |-> Clean(tag.name)]
      BY <1>3 DEF TagSet
    <2>2. PICK more \in Tags : more = Append(kept, new)
      BY <1>0, AppendTag
    <2>3. KeepFirst(kept, tag) = more
      BY <1>5, <2>1, <2>2 DEF KeepFirst
    <2>4. /\ Len(more) = Len(kept) + 1 /\ DOMAIN more = 1 .. (Len(kept) + 1)
          /\ more[Len(kept) + 1] = new /\ \A i \in 1 .. Len(kept) : more[i] = kept[i]
      BY <1>0, <2>2, AppendTag
    <2>a. \A i \in DOMAIN more : i \in 1 .. Len(kept) \/ i = Len(kept) + 1
      BY <1>0, <2>4
    <2>5. new.name = Clean(tag.name) /\ new.id = tag.id
      BY <2>1
    <2>6. CleanTags(more)
      <3> SUFFICES ASSUME NEW i \in DOMAIN more PROVE Clean(more[i].name) = more[i].name
        BY DEF CleanTags
      <3>1. CASE i \in 1 .. Len(kept)
        BY <1>0, <2>4, <3>1 DEF Normalized, NormalTags, CleanTags
      <3>2. CASE i = Len(kept) + 1
        BY <1>3, <2>4, <2>5, <3>2
      <3> QED BY <2>a, <3>1, <3>2
    <2>7. UniqueNames(more)
      <3> SUFFICES ASSUME NEW i \in DOMAIN more, NEW j \in DOMAIN more, i # j, more[i].name # ""
                   PROVE  Clean(more[i].name) # Clean(more[j].name)
        BY DEF UniqueNames
      <3>1. Clean(more[i].name) = more[i].name /\ Clean(more[j].name) = more[j].name
        BY <2>6 DEF CleanTags
      <3>2. CASE i \in 1 .. Len(kept) /\ j \in 1 .. Len(kept)
        BY <1>0, <2>4, <3>2 DEF Normalized, NormalTags, UniqueNames
      <3>3. CASE i = Len(kept) + 1
        <4>1. j \in 1 .. Len(kept)
          BY <2>a, <3>3
        <4>2. more[i].name = Clean(tag.name) /\ more[j].name = kept[j].name /\ Clean(tag.name) # ""
          BY <2>4, <2>5, <3>3, <4>1
        <4>3. kept[j].name # Clean(tag.name)
          BY <1>0, <1>5, <4>1, <4>2 DEF Seen
        <4> QED BY <3>1, <4>2, <4>3
      <3>4. CASE j = Len(kept) + 1
        <4>1. i \in 1 .. Len(kept)
          BY <2>a, <3>4
        <4>2. more[j].name = Clean(tag.name) /\ more[i].name = kept[i].name
          BY <2>4, <2>5, <3>4, <4>1
        <4>3. CASE Clean(tag.name) # ""
          BY <1>0, <1>5, <3>1, <4>1, <4>2, <4>3 DEF Seen
        <4>4. CASE Clean(tag.name) = ""
          BY <3>1, <4>2, <4>4
        <4> QED BY <4>3, <4>4
      <3> QED BY <2>a, <3>2, <3>3, <3>4
    <2>8. ASSUME NormalTags(tags) PROVE Len(more) = k + 1 /\ \A i \in 1 .. k + 1 : more[i] = tags[i]
      <3>1. Len(kept) = k /\ \A i \in 1 .. k : kept[i] = tags[i]
        BY <2>8 DEF Normalized
      <3>2. Clean(tag.name) = tag.name
        BY <1>1, <1>2, <2>8 DEF NormalTags, CleanTags
      <3>3. new = tag
        BY <2>1, <3>2 DEF TagSet
      <3> QED BY <1>0, <1>2, <2>4, <3>1, <3>3
    <2> QED BY <1>2, <2>3, <2>6, <2>7, <2>8 DEF Normalized, NormalTags
  <1> QED BY <1>4, <1>5

LEMMA AllNormalized ==
    ASSUME NEW tags \in Tags, NEW k \in 0 .. Len(tags)
    PROVE  Normalized(tags, k, Kept(tags, k))
  <1> DEFINE T == {i \in 0 .. Len(tags) : ~Normalized(tags, i, Kept(tags, i))}
  <1>0. Len(tags) \in Nat
    BY TagsAreSeqs
  <1>1. SUFFICES ASSUME T # {} PROVE FALSE
    OBVIOUS
  <1>2. PICK m \in T : \A i \in T : m <= i
    <2>1. T \in SUBSET Nat
      BY <1>0
    <2> HIDE DEF T
    <2> QED BY <1>1, <2>1, SmallestNumber
  <1>3. m \in 0 .. Len(tags) /\ ~Normalized(tags, m, Kept(tags, m))
    OBVIOUS
  <1>4. CASE m = 0
    <2>1. PICK none \in Tags : none = <<>>
      BY EmptySeq DEF Tags
    <2>2. Len(none) = 0 /\ DOMAIN none = {}
      BY <2>1, TagsAreSeqs
    <2>3. Normalized(tags, 0, none)
      <3>1. NormalTags(none)
        BY <2>2 DEF NormalTags, CleanTags, UniqueNames
      <3>2. \A i \in 1 .. 0 : none[i] = tags[i]
        OBVIOUS
      <3> QED BY <2>2, <3>1, <3>2 DEF Normalized
    <2> QED BY <1>3, <1>4, <2>1, <2>3, KeptSteps
  <1>5. CASE m # 0
    <2>1. PICK i \in 0 .. Len(tags) - 1 : m = i + 1
      BY <1>0, <1>3, <1>5
    <2>2. Normalized(tags, i, Kept(tags, i))
      BY <1>0, <1>2, <2>1
    <2>3. Normalized(tags, m, KeepFirst(Kept(tags, i), tags[m]))
      BY <2>1, <2>2, KeepsNormal
    <2> QED BY <1>0, <1>3, <2>1, <2>3, KeptSteps
  <1> QED BY <1>4, <1>5

(* Replaced tags are typed and normal, and normal ones stay as they are.   *)
LEMMA ReplacedTags ==
    ASSUME NEW tags \in Tags
    PROVE  /\ ReplaceTags(tags) \in Tags /\ NormalTags(ReplaceTags(tags))
           /\ NormalTags(tags) => ReplaceTags(tags) = tags
  <1>1. PICK kept : kept = ReplaceTags(tags)
    OBVIOUS
  <1>2. Len(tags) \in 0 .. Len(tags)
    BY TagsAreSeqs
  <1>3. Normalized(tags, Len(tags), kept)
    BY <1>1, <1>2, KeptTags, AllNormalized
  <1>4. ASSUME NormalTags(tags) PROVE kept = tags
    <2>1. kept \in Seq(TagSet) /\ tags \in Seq(TagSet)
      BY <1>3 DEF Normalized, Tags, TagSet
    <2>2. Len(kept) = Len(tags) /\ \A i \in 1 .. Len(tags) : kept[i] = tags[i]
      BY <1>3, <1>4 DEF Normalized
    <2> QED BY <2>1, <2>2, SeqEqual
  <1> QED BY <1>1, <1>3, <1>4 DEF Normalized

-----------------------------------------------------------------------------
(* What the columns keep                                                   *)

(* The named ones of the first k tags: each of them, in their order, and   *)
(* of aligned tags the ones at the front.                                  *)
OnlyNamed(tags, k, named) ==
    \A j \in DOMAIN named : named[j].name # "" /\ \E i \in 1 .. k : named[j] = tags[i]
AllNamed(tags, k, named) ==
    \A i \in 1 .. k : tags[i].name # "" => \E j \in DOMAIN named : named[j] = tags[i]
InFront(tags, k, named) ==
    /\ \A j \in DOMAIN named : named[j] = tags[j]
    /\ \A i \in 1 .. k : tags[i].name # "" => i <= Len(named)
NamesOf(tags, k, named) ==
    /\ named \in Tags /\ Len(named) <= k
    /\ OnlyNamed(tags, k, named) /\ AllNamed(tags, k, named)
    /\ UniqueNames(tags) => UniqueNames(named)
    /\ Aligned(tags) => InFront(tags, k, named)

LEMMA KeepsNamesOf ==
    ASSUME NEW tags \in Tags, NEW k \in 0 .. Len(tags) - 1, NEW named, NamesOf(tags, k, named)
    PROVE  NamesOf(tags, k + 1, KeepNamed(named, tags[k + 1]))
  <1>0. /\ named \in Tags /\ Len(named) \in Nat /\ DOMAIN named = 1 .. Len(named)
        /\ Len(named) <= k /\ k \in Nat
        /\ \A j \in DOMAIN named : named[j] \in TagSet
    <2>1. named \in Tags /\ Len(named) <= k
      BY DEF NamesOf
    <2>2. Len(tags) \in Nat
      BY TagsAreSeqs
    <2> QED BY <2>1, <2>2, TagsAreSeqs
  <1>1. /\ Len(tags) \in Nat /\ k + 1 \in DOMAIN tags /\ DOMAIN tags = 1 .. Len(tags)
        /\ \A i \in 1 .. k : i \in DOMAIN tags /\ i # k + 1
        /\ \A i \in DOMAIN tags : tags[i] \in TagSet
    BY TagsAreSeqs
  <1>2. PICK tag \in TagSet : tag = tags[k + 1]
    BY <1>1
  <1>3. \A i \in 1 .. k + 1 : i \in 1 .. k \/ i = k + 1
    BY <1>0
  <1>4. CASE tag.name = ""
    <2>1. KeepNamed(named, tag) = named
      BY <1>4 DEF KeepNamed
    <2>2. OnlyNamed(tags, k + 1, named)
      <3>1. OnlyNamed(tags, k, named)
        BY DEF NamesOf
      <3>2. \A i \in 1 .. k : i \in 1 .. k + 1
        BY <1>0
      <3> QED BY <3>1, <3>2 DEF OnlyNamed
    <2>3. \A i \in 1 .. k + 1 : tags[i].name # "" => i \in 1 .. k
      BY <1>2, <1>3, <1>4
    <2>4. AllNamed(tags, k + 1, named)
      BY <2>3 DEF NamesOf, AllNamed
    <2>5. Aligned(tags) => InFront(tags, k + 1, named)
      BY <2>3 DEF NamesOf, InFront
    <2>6. Len(named) <= k + 1
      BY <1>0
    <2> QED BY <1>0, <1>2, <2>1, <2>2, <2>4, <2>5, <2>6 DEF NamesOf
  <1>5. CASE tag.name # ""
    <2>1. PICK more \in Tags : more = Append(named, tag)
      BY <1>0, AppendTag
    <2>2. KeepNamed(named, tag) = more
      BY <1>5, <2>1 DEF KeepNamed
    <2>3. /\ Len(more) = Len(named) + 1 /\ DOMAIN more = 1 .. (Len(named) + 1)
          /\ more[Len(named) + 1] = tag /\ \A j \in 1 .. Len(named) : more[j] = named[j]
      BY <1>0, <2>1, AppendTag
    <2>4. /\ \A j \in DOMAIN more : j \in 1 .. Len(named) \/ j = Len(named) + 1
          /\ Len(named) + 1 \in DOMAIN more /\ \A j \in 1 .. Len(named) : j \in DOMAIN more
      BY <1>0, <2>3
    <2>5. ASSUME NEW j \in DOMAIN more
          PROVE  more[j].name # "" /\ \E i \in 1 .. k + 1 : more[j] = tags[i]
      <3>1. CASE j \in 1 .. Len(named)
        <4>1. more[j] = named[j] /\ named[j].name # ""
          BY <1>0, <2>3, <3>1 DEF NamesOf, OnlyNamed
        <4>2. PICK i \in 1 .. k : named[j] = tags[i]
          BY <1>0, <3>1 DEF NamesOf, OnlyNamed
        <4>3. i \in 1 .. k + 1
          BY <1>0
        <4> QED BY <4>1, <4>2, <4>3
      <3>2. CASE j = Len(named) + 1
        <4>1. k + 1 \in 1 .. k + 1
          BY <1>0
        <4> QED BY <1>2, <1>5, <2>3, <3>2, <4>1
      <3> QED BY <2>4, <3>1, <3>2
    <2>6. ASSUME NEW i \in 1 .. k + 1, tags[i].name # ""
          PROVE  \E j \in DOMAIN more : more[j] = tags[i]
      <3>1. CASE i \in 1 .. k
        <4>1. PICK j \in DOMAIN named : named[j] = tags[i]
          BY <2>6, <3>1 DEF NamesOf, AllNamed
        <4> QED BY <1>0, <2>3, <2>4, <4>1
      <3>2. CASE i = k + 1
        BY <1>2, <2>3, <2>4, <3>2
      <3> QED BY <1>3, <3>1, <3>2
    <2>7. ASSUME UniqueNames(tags) PROVE UniqueNames(more)
      <3>0. ASSUME NEW j \in 1 .. Len(named) PROVE Clean(named[j].name) # Clean(tag.name)
        <4>1. PICK i \in 1 .. k : named[j] = tags[i] /\ tags[i].name # ""
          BY <1>0 DEF NamesOf, OnlyNamed
        <4> QED BY <1>1, <1>2, <2>7, <4>1 DEF UniqueNames
      <3> SUFFICES ASSUME NEW i \in DOMAIN more, NEW j \in DOMAIN more, i # j, more[i].name # ""
                   PROVE  Clean(more[i].name) # Clean(more[j].name)
        BY DEF UniqueNames
      <3>1. CASE i \in 1 .. Len(named) /\ j \in 1 .. Len(named)
        BY <1>0, <2>3, <2>7, <3>1 DEF NamesOf, UniqueNames
      <3>2. CASE i = Len(named) + 1
        <4>1. j \in 1 .. Len(named)
          BY <2>4, <3>2
        <4> QED BY <2>3, <3>0, <3>2, <4>1
      <3>3. CASE j = Len(named) + 1
        <4>1. i \in 1 .. Len(named)
          BY <2>4, <3>3
        <4> QED BY <2>3, <3>0, <3>3, <4>1
      <3> QED BY <2>4, <3>1, <3>2, <3>3
    <2>8. ASSUME Aligned(tags) PROVE InFront(tags, k + 1, more)
      <3>1. \A i \in 1 .. k : tags[i].name # ""
        <4> SUFFICES ASSUME NEW i \in 1 .. k PROVE tags[i].name # ""
          OBVIOUS
        <4>1. i \in DOMAIN tags /\ k + 1 \in DOMAIN tags /\ i < k + 1
          BY <1>0, <1>1
        <4> QED BY <1>2, <1>5, <2>8, <4>1 DEF Aligned
      <3>2. Len(named) = k
        <4>1. CASE k = 0
          BY <1>0, <4>1
        <4>2. CASE k # 0
          <5>1. k \in 1 .. k
            BY <1>0, <4>2
          <5>2. k <= Len(named)
            BY <2>8, <3>1, <5>1 DEF NamesOf, InFront
          <5>3. Len(named) \in Nat /\ Len(named) <= k /\ k \in Nat
            BY <1>0
          <5> QED BY <5>2, <5>3
        <4> QED BY <4>1, <4>2
      <3>3. \A j \in 1 .. Len(named) : named[j] = tags[j]
        BY <1>0, <2>8 DEF NamesOf, InFront
      <3>4. \A j \in DOMAIN more : more[j] = tags[j]
        BY <1>2, <2>3, <2>4, <3>2, <3>3
      <3>5. Len(more) = k + 1
        BY <2>3, <3>2
      <3>6. \A i \in 1 .. k + 1 : i <= k + 1
        BY <1>0
      <3> QED BY <3>4, <3>5, <3>6 DEF InFront
    <2>9. Len(more) <= k + 1
      BY <1>0, <2>3
    <2> QED BY <1>2, <2>2, <2>5, <2>6, <2>7, <2>8, <2>9 DEF NamesOf, OnlyNamed, AllNamed
  <1> QED BY <1>4, <1>5

LEMMA AllNamesOf ==
    ASSUME NEW tags \in Tags, NEW k \in 0 .. Len(tags)
    PROVE  NamesOf(tags, k, NamedUpTo(tags, k))
  <1> DEFINE T == {i \in 0 .. Len(tags) : ~NamesOf(tags, i, NamedUpTo(tags, i))}
  <1>0. Len(tags) \in Nat
    BY TagsAreSeqs
  <1>1. SUFFICES ASSUME T # {} PROVE FALSE
    OBVIOUS
  <1>2. PICK m \in T : \A i \in T : m <= i
    <2>1. T \in SUBSET Nat
      BY <1>0
    <2> HIDE DEF T
    <2> QED BY <1>1, <2>1, SmallestNumber
  <1>3. m \in 0 .. Len(tags) /\ ~NamesOf(tags, m, NamedUpTo(tags, m))
    OBVIOUS
  <1>4. CASE m = 0
    <2>1. PICK none \in Tags : none = <<>>
      BY EmptySeq DEF Tags
    <2>2. Len(none) = 0 /\ DOMAIN none = {} /\ 1 .. 0 = {}
      BY <2>1, TagsAreSeqs
    <2>3. UniqueNames(none)
      BY <2>2 DEF UniqueNames
    <2>4. OnlyNamed(tags, 0, none) /\ AllNamed(tags, 0, none) /\ InFront(tags, 0, none)
      BY <2>2 DEF OnlyNamed, AllNamed, InFront
    <2>5. NamesOf(tags, 0, none)
      BY <2>2, <2>3, <2>4 DEF NamesOf
    <2> QED BY <1>3, <1>4, <2>1, <2>5, NamedSteps
  <1>5. CASE m # 0
    <2>1. PICK i \in 0 .. Len(tags) - 1 : m = i + 1
      BY <1>0, <1>3, <1>5
    <2>2. NamesOf(tags, i, NamedUpTo(tags, i))
      BY <1>0, <1>2, <2>1
    <2>3. NamesOf(tags, m, KeepNamed(NamedUpTo(tags, i), tags[m]))
      BY <2>1, <2>2, KeepsNamesOf
    <2> QED BY <1>0, <1>3, <2>1, <2>3, NamedSteps
  <1> QED BY <1>4, <1>5

LEMMA NamesKept == \A tags \in Tags : NamesOf(tags, Len(tags), Named(tags))
  <1> SUFFICES ASSUME NEW tags \in Tags PROVE NamesOf(tags, Len(tags), Named(tags))
    OBVIOUS
  <1>1. Len(tags) \in 0 .. Len(tags)
    BY TagsAreSeqs
  <1> QED BY <1>1, NamedTags, AllNamesOf

-----------------------------------------------------------------------------
(* Tags through the columns and back                                       *)

Loaded(pet) == ToDomain(ToRecord(pet))

LEMMA FieldsOfTag ==
    ASSUME NEW tag, NEW id, NEW name, tag = [id |-> id, name |-> name]
    PROVE  tag.id = id /\ tag.name = name
  OBVIOUS

LEMMA Below ==
    ASSUME NEW l \in Nat, NEW n \in Nat, NEW i \in 1 .. l, NEW j \in 1 .. n, i < j
    PROVE  i \in 1 .. n
  OBVIOUS

LEMMA MaxOfTwo ==
    ASSUME NEW n \in Nat, NEW m \in Nat, m <= n
    PROVE  Max({n, m}) = n
  <1>1. \E x \in {n, m} : \A y \in {n, m} : x >= y
    OBVIOUS
  <1>2. Max({n, m}) \in {n, m} /\ \A y \in {n, m} : Max({n, m}) >= y
    BY <1>1 DEF Max
  <1> QED BY <1>2

LEMMA ColumnsTyped ==
    ASSUME NEW tags \in Tags
    PROVE  /\ TagIds(tags) \in Seq(Int) /\ Len(TagIds(tags)) = Len(tags)
           /\ TagNames(tags) \in Seq(Words) /\ Len(TagNames(tags)) = Len(Named(tags))
           /\ Len(Named(tags)) <= Len(tags) /\ Len(tags) \in Nat /\ Len(Named(tags)) \in Nat
           /\ \A i \in 1 .. Len(tags) : TagIds(tags)[i] = tags[i].id
           /\ \A i \in 1 .. Len(Named(tags)) : TagNames(tags)[i] = Named(tags)[i].name
  <1>1. Named(tags) \in Tags /\ Len(Named(tags)) <= Len(tags)
    BY NamesKept DEF NamesOf
  <1>2. \A t \in Tags : /\ Len(t) \in Nat /\ DOMAIN t = 1 .. Len(t)
                        /\ \A i \in 1 .. Len(t) : t[i].id \in Int /\ t[i].name \in Words
    BY TagsAreSeqs DEF TagSet
  <1>3. TagIds(tags) = [i \in 1 .. Len(tags) |-> tags[i].id]
    BY <1>2 DEF TagIds
  <1>4. TagNames(tags) = [i \in 1 .. Len(Named(tags)) |-> Named(tags)[i].name]
    BY <1>1, <1>2 DEF TagNames
  <1>5. TagIds(tags) \in Seq(Int) /\ Len(TagIds(tags)) = Len(tags)
    BY <1>2, <1>3
  <1>6. TagNames(tags) \in Seq(Words) /\ Len(TagNames(tags)) = Len(Named(tags))
    BY <1>1, <1>2, <1>4
  <1> QED BY <1>1, <1>2, <1>3, <1>4, <1>5, <1>6

(* The tags of a loaded pet: the ids in their places, the names in front.  *)
LEMMA LoadedTags ==
    ASSUME NEW pet, pet.tags \in Tags, NEW tags, tags = RowTags(ToRecord(pet))
    PROVE  /\ tags \in Tags /\ Len(tags) = Len(pet.tags)
           /\ \A i \in 1 .. Len(tags) :
                tags[i] = [id   |-> pet.tags[i].id,
                           name |-> IF i <= Len(Named(pet.tags)) THEN Named(pet.tags)[i].name ELSE ""]
  <1> DEFINE n == Len(pet.tags)
             m == Len(Named(pet.tags))
             at(i) == [id   |-> pet.tags[i].id,
                       name |-> IF i <= m THEN Named(pet.tags)[i].name ELSE ""]
  <1>1. n \in Nat /\ m \in Nat /\ m <= n
    BY ColumnsTyped
  <1>2. Max({Len(TagIds(pet.tags)), Len(TagNames(pet.tags))}) = n
    BY <1>1, ColumnsTyped, MaxOfTwo
  <1>3. ToRecord(pet).tagIds = TagIds(pet.tags) /\ ToRecord(pet).tagNames = TagNames(pet.tags)
    BY DEF ToRecord
  <1>4. tags = [i \in 1 .. n |->
                  [id   |-> IF i <= n THEN TagIds(pet.tags)[i] ELSE 0,
                   name |-> IF i <= m THEN TagNames(pet.tags)[i] ELSE ""]]
    BY <1>2, <1>3, ColumnsTyped DEF RowTags
  <1>5. ASSUME NEW i \in 1 .. n PROVE tags[i] = at(i)
    <2>1. i <= n /\ TagIds(pet.tags)[i] = pet.tags[i].id
      BY <1>1, ColumnsTyped
    <2>2. i <= m => TagNames(pet.tags)[i] = Named(pet.tags)[i].name
      BY <1>1, ColumnsTyped
    <2> QED BY <1>4, <2>1, <2>2
  <1>6. ASSUME NEW i \in 1 .. n PROVE at(i) \in TagSet
    <2>1. pet.tags[i].id \in Int
      BY TagsAreSeqs DEF TagSet
    <2>2. CASE i <= m
      <3>1. Named(pet.tags) \in Tags /\ i \in 1 .. m
        BY <1>1, <2>2, NamesKept DEF NamesOf
      <3>2. Named(pet.tags)[i].name \in Words
        BY <3>1, TagsAreSeqs DEF TagSet
      <3> QED BY <2>1, <2>2, <3>2 DEF TagSet
    <2>3. CASE ~(i <= m)
      BY <2>1, <2>3, AggregateAssumption DEF TagSet
    <2> QED BY <2>2, <2>3
  <1> HIDE DEF at
  <1>7. tags = [i \in 1 .. n |-> at(i)]
    BY <1>4, <1>5
  <1>8. tags \in Seq(TagSet) /\ Len(tags) = n
    BY <1>1, <1>6, <1>7
  <1> QED BY <1>5, <1>8 DEF Tags, TagSet, at

(* Aligned tags come back as they were.                                    *)
LEMMA AlignedComeBack ==
    ASSUME NEW pet, pet.tags \in Tags, Aligned(pet.tags)
    PROVE  RowTags(ToRecord(pet)) = pet.tags
  <1>1. PICK tags : tags = RowTags(ToRecord(pet))
    OBVIOUS
  <1>2. PICK named \in Tags : named = Named(pet.tags) /\ InFront(pet.tags, Len(pet.tags), named)
    BY NamesKept DEF NamesOf
  <1>3. tags \in Tags /\ Len(tags) = Len(pet.tags)
    BY <1>1, LoadedTags
  <1>4. ASSUME NEW i \in 1 .. Len(tags) PROVE tags[i] = pet.tags[i]
    <2>1. tags[i] = [id |-> pet.tags[i].id, name |-> IF i <= Len(named) THEN named[i].name ELSE ""]
      BY <1>1, <1>2, LoadedTags
    <2>2. (IF i <= Len(named) THEN named[i].name ELSE "") = pet.tags[i].name
      <3>1. CASE i <= Len(named)
        <4>1. i \in DOMAIN named
          BY <1>2, <3>1, TagsAreSeqs
        <4> QED BY <1>2, <3>1, <4>1 DEF InFront
      <3>2. CASE ~(i <= Len(named))
        BY <1>2, <1>3, <3>2 DEF InFront
      <3> QED BY <3>1, <3>2
    <2>3. PICK tag \in TagSet : tag = pet.tags[i]
      BY <1>3, TagsAreSeqs
    <2>4. tag = [id |-> tag.id, name |-> tag.name]
      BY DEF TagSet
    <2> QED BY <2>1, <2>2, <2>3, <2>4
  <1> QED BY <1>1, <1>3, <1>4, SeqEqual DEF Tags

(* The columns of a loaded pet are the columns it was loaded from.         *)
LEMMA ColumnsComeBack ==
    ASSUME NEW pet, pet.tags \in Tags, NEW tags, tags = RowTags(ToRecord(pet))
    PROVE  /\ TagIds(tags) = TagIds(pet.tags) /\ TagNames(tags) = TagNames(pet.tags)
           /\ NormalTags(pet.tags) => NormalTags(tags)
  <1>1. PICK n \in Nat, l \in Nat, old \in Tags, named \in Tags :
           /\ old = pet.tags /\ named = Named(old) /\ n = Len(named) /\ l = Len(old) /\ n <= l
           /\ NamesOf(old, l, named)
    BY ColumnsTyped, NamesKept DEF NamesOf
  <1>2. /\ tags \in Tags /\ Len(tags) = l
        /\ DOMAIN tags = 1 .. l /\ DOMAIN old = 1 .. l /\ DOMAIN named = 1 .. n
        /\ \A i \in 1 .. l : tags[i].id = old[i].id
        /\ \A i \in 1 .. n : tags[i].name = named[i].name
        /\ \A i \in 1 .. l : i \in 1 .. n \/ tags[i].name = ""
    <2>1. tags \in Tags /\ Len(tags) = l
      BY <1>1, LoadedTags
    <2>2. DOMAIN tags = 1 .. l /\ DOMAIN old = 1 .. l /\ DOMAIN named = 1 .. n
      BY <1>1, <2>1, TagsAreSeqs
    <2>3. \A i \in 1 .. l :
             tags[i] = [id |-> old[i].id, name |-> IF i <= n THEN named[i].name ELSE ""]
      BY <1>1, <2>1, LoadedTags
    <2>4. \A i \in 1 .. l : /\ tags[i].id = old[i].id
                            /\ tags[i].name = IF i <= n THEN named[i].name ELSE ""
      <3> SUFFICES ASSUME NEW i \in 1 .. l
                   PROVE  /\ tags[i].id = old[i].id
                          /\ tags[i].name = IF i <= n THEN named[i].name ELSE ""
        OBVIOUS
      <3>1. PICK w : w = IF i <= n THEN named[i].name ELSE ""
        OBVIOUS
      <3>2. tags[i] = [id |-> old[i].id, name |-> w]
        BY <2>3, <3>1
      <3>3. tags[i].id = old[i].id /\ tags[i].name = w
        BY <3>2, FieldsOfTag, Zenon
      <3> QED BY <3>1, <3>3
    <2>5. /\ \A i \in 1 .. n : i \in 1 .. l /\ i <= n
          /\ \A i \in 1 .. l : i <= n => i \in 1 .. n
      BY <1>1
    <2> QED BY <2>1, <2>2, <2>4, <2>5
  <1>3. \A i \in 1 .. n : i \in DOMAIN tags /\ tags[i].name = named[i].name /\ tags[i].name # ""
    <2>1. \A i \in 1 .. n : i \in 1 .. l
      BY <1>1
    <2>2. \A i \in 1 .. n : named[i].name # ""
      BY <1>1, <1>2 DEF NamesOf, OnlyNamed
    <2> QED BY <1>2, <2>1, <2>2
  <1>4. \A i \in DOMAIN tags : tags[i].name # "" => i \in 1 .. n
    BY <1>2
  <1>5. TagIds(tags) = TagIds(old)
    BY <1>2 DEF TagIds
  <1>6. Aligned(tags)
    <2> SUFFICES ASSUME NEW i \in DOMAIN tags, NEW j \in DOMAIN tags, i < j, tags[j].name # ""
                 PROVE  tags[i].name # ""
      BY DEF Aligned
    <2>1. j \in 1 .. n
      BY <1>4
    <2>2. i \in 1 .. l
      BY <1>2
    <2>3. i \in 1 .. n
      BY <2>1, <2>2, Below
    <2> QED BY <1>3, <2>3
  <1>7. PICK again \in Tags, m \in Nat : /\ again = Named(tags) /\ NamesOf(tags, l, again)
                                         /\ m = Len(again) /\ DOMAIN again = 1 .. m
    BY <1>2, NamesKept, TagsAreSeqs DEF NamesOf
  <1>8. \A j \in DOMAIN again : again[j] = tags[j] /\ tags[j].name # ""
    BY <1>6, <1>7 DEF NamesOf, OnlyNamed, InFront
  <1>9. m = n
    <2>1. m <= n
      <3>1. CASE m # 0
        <4>1. m \in 1 .. m
          BY <3>1
        <4>2. m \in DOMAIN again
          BY <1>7, <4>1
        <4>3. m <= l
          BY <1>7 DEF NamesOf
        <4>4. m \in DOMAIN tags
          <5>1. m \in 1 .. l
            BY <4>1, <4>3
          <5> QED BY <1>2, <5>1
        <4>5. m \in 1 .. n
          BY <1>4, <1>8, <4>2, <4>4
        <4> QED BY <4>5
      <3> QED BY <3>1
    <2>2. n <= m
      <3>1. CASE n # 0
        <4>1. n \in 1 .. n /\ n \in 1 .. l
          BY <1>1, <3>1
        <4>2. InFront(tags, l, again)
          BY <1>6, <1>7 DEF NamesOf
        <4> QED BY <1>3, <1>7, <4>1, <4>2 DEF InFront
      <3> QED BY <3>1
    <2> QED BY <2>1, <2>2
  <1>10. TagNames(tags) = TagNames(old)
    <2>1. DOMAIN again = 1 .. n /\ \A i \in 1 .. n : again[i].name = named[i].name
      BY <1>3, <1>7, <1>8, <1>9
    <2> QED BY <1>1, <1>2, <1>7, <2>1 DEF TagNames
  <1>11. ASSUME NormalTags(old) PROVE NormalTags(tags)
    <2>0. Clean("") = ""
      BY AggregateAssumption DEF Clean
    <2>1. ASSUME NEW i \in 1 .. n PROVE Clean(named[i].name) = named[i].name
      <3>1. PICK j \in 1 .. l : named[i] = old[j]
        BY <1>1, <1>2 DEF NamesOf, OnlyNamed
      <3> QED BY <1>2, <1>11, <3>1 DEF NormalTags, CleanTags
    <2>2. CleanTags(tags)
      BY <1>2, <1>3, <1>4, <2>0, <2>1 DEF CleanTags
    <2>3. UniqueNames(named)
      BY <1>1, <1>11 DEF NamesOf, NormalTags
    <2>4. UniqueNames(tags)
      <3> SUFFICES ASSUME NEW i \in DOMAIN tags, NEW j \in DOMAIN tags, i # j, tags[i].name # ""
                   PROVE  Clean(tags[i].name) # Clean(tags[j].name)
        BY DEF UniqueNames
      <3>1. i \in 1 .. n
        BY <1>4
      <3>2. CASE j \in 1 .. n
        <4>1. /\ i \in DOMAIN named /\ j \in DOMAIN named
              /\ tags[i].name = named[i].name /\ tags[j].name = named[j].name
          BY <1>2, <1>3, <3>1, <3>2
        <4>2. Clean(named[i].name) # Clean(named[j].name)
          BY <2>3, <4>1 DEF UniqueNames
        <4> QED BY <4>1, <4>2
      <3>3. CASE j \notin 1 .. n
        BY <1>4, <2>2, <3>3 DEF CleanTags
      <3> QED BY <3>2, <3>3
    <2> QED BY <2>2, <2>4 DEF NormalTags
  <1> QED BY <1>1, <1>5, <1>10, <1>11

-----------------------------------------------------------------------------
(* The invariant: a pet in memory is well formed, and the row is its       *)
(* record.  It is the record that loading and saving preserves, and not    *)
(* the tags, whose names the columns may shift.                            *)

CategoryOK(c)  == c # NoCategory => c.name = Trim[c.name] /\ ~EmptyCategory(c)
ReferenceOK(r) == r # NoRef => ~EmptyRef(r)
PetOK(pet) ==
    /\ pet \in Pets /\ Trim[pet.name] # "" /\ pet.photos # <<>>
    /\ CategoryOK(pet.category) /\ ReferenceOK(pet.ref) /\ NormalTags(pet.tags)
FieldsInv ==
    \/ memory = NoPet /\ row = NoPet
    \/ PetOK(memory) /\ row = ToRecord(memory)

(* Two pets of the same record, but for the places of the names.           *)
Alike(p, q) ==
    /\ p.name = q.name /\ p.photos = q.photos /\ p.category = q.category
    /\ p.status = q.status /\ p.hair = q.hair /\ p.ref = q.ref
    /\ TagIds(p.tags) = TagIds(q.tags) /\ TagNames(p.tags) = TagNames(q.tags)

LEMMA AlikeRecords == ASSUME NEW p, NEW q, Alike(p, q) PROVE ToRecord(p) = ToRecord(q)
  BY DEF Alike, ToRecord

LEMMA PetFields ==
    ASSUME NEW pet \in Pets
    PROVE  /\ pet.name \in Words /\ pet.photos \in Seq(STRING)
           /\ pet.category \in Categories \cup {NoCategory} /\ pet.tags \in Tags
           /\ pet.status \in Statuses /\ pet.hair \in Nat /\ pet.ref \in References
  BY DEF Pets

LEMMA RecordsAreRows == ASSUME NEW pet \in Pets PROVE ToRecord(pet) \in Rows
  <1> DEFINE r == ToRecord(pet)
             category == IF pet.category = NoCategory THEN [id |-> NoId, name |-> ""] ELSE pet.category
             ref == IF pet.ref = NoRef THEN EmptyOfRef ELSE pet.ref
  <1>1. category \in Categories \cup {[id |-> NoId, name |-> ""]}
    BY PetFields
  <1>2. ref \in References
    BY PetFields DEF References
  <1>3. TagIds(pet.tags) \in Seq(Int) /\ TagNames(pet.tags) \in Seq(Words)
    BY PetFields, ColumnsTyped
  <1>4. r = [name |-> pet.name, photos |-> pet.photos, status |-> pet.status, hair |-> pet.hair,
             category |-> category, tagIds |-> TagIds(pet.tags), tagNames |-> TagNames(pet.tags),
             ref |-> ref]
    BY DEF ToRecord
  <1> HIDE DEF r, category, ref
  <1>5. r \in Rows
    BY <1>1, <1>2, <1>3, <1>4, PetFields DEF Rows
  <1> QED BY <1>5 DEF r

(* A loaded pet is the saved one, but for the places of its names.         *)
LEMMA LoadedPets ==
    ASSUME NEW pet, PetOK(pet)
    PROVE  /\ PetOK(Loaded(pet)) /\ Alike(Loaded(pet), pet)
           /\ Aligned(pet.tags) => Loaded(pet).tags = pet.tags
           /\ Loaded(pet).tags = RowTags(ToRecord(pet))
  <1> DEFINE q == Loaded(pet)
             r == ToRecord(pet)
  <1>0. /\ pet \in Pets /\ CategoryOK(pet.category) /\ ReferenceOK(pet.ref) /\ NormalTags(pet.tags)
        /\ pet.tags \in Tags
    BY PetFields DEF PetOK
  <1>1. /\ r.name = pet.name /\ r.photos = pet.photos /\ r.status = pet.status /\ r.hair = pet.hair
        /\ r.category = IF pet.category = NoCategory THEN [id |-> NoId, name |-> ""] ELSE pet.category
        /\ r.ref = IF pet.ref = NoRef THEN EmptyOfRef ELSE pet.ref
    BY DEF ToRecord
  <1>2. (IF r.category.id = NoId /\ r.category.name = "" THEN NoCategory ELSE r.category) = pet.category
    <2> HIDE DEF r
    <2>1. CASE pet.category = NoCategory
      <3>1. PICK c : c = r.category
        OBVIOUS
      <3>2. c = [id |-> NoId, name |-> ""]
        BY <1>1, <2>1, <3>1
      <3>3. c.id = NoId /\ c.name = ""
        BY <3>2, FieldsOfTag
      <3> QED BY <2>1, <3>1, <3>3
    <2>2. CASE pet.category # NoCategory
      <3>1. pet.category \in Categories
        BY <1>0, <2>2, PetFields
      <3>2. pet.category.id # NoId
        BY <3>1, AggregateAssumption DEF Categories
      <3> QED BY <1>1, <2>2, <3>2
    <2> QED BY <2>1, <2>2
  <1>3. (IF EmptyRef(r.ref) THEN NoRef ELSE r.ref) = pet.ref
    <2>1. EmptyRef(EmptyOfRef)
      BY DEF EmptyRef, EmptyOfRef
    <2> QED BY <1>0, <1>1, <2>1 DEF ReferenceOK
  <1>4. q = [name |-> pet.name, photos |-> pet.photos, status |-> pet.status, hair |-> pet.hair,
             category |-> pet.category, tags |-> RowTags(r), ref |-> pet.ref]
    <2> HIDE DEF r
    <2>1. q = ToDomain(r)
      BY DEF Loaded, r
    <2> QED BY <1>1, <1>2, <1>3, <2>1 DEF ToDomain
  <1> HIDE DEF q
  <1>5. RowTags(r) \in Tags
    BY <1>0, LoadedTags
  <1>6. /\ TagIds(RowTags(r)) = TagIds(pet.tags) /\ TagNames(RowTags(r)) = TagNames(pet.tags)
        /\ NormalTags(RowTags(r))
    BY <1>0, ColumnsComeBack
  <1>7. Aligned(pet.tags) => RowTags(r) = pet.tags
    BY <1>0, AlignedComeBack
  <1> HIDE DEF r
  <1>8. /\ q.name = pet.name /\ q.photos = pet.photos /\ q.status = pet.status /\ q.hair = pet.hair
        /\ q.category = pet.category /\ q.tags = RowTags(r) /\ q.ref = pet.ref
    BY <1>4
  <1>9. q \in Pets
    BY <1>0, <1>4, <1>5, PetFields DEF Pets
  <1>10. PetOK(q)
    BY <1>0, <1>6, <1>8, <1>9 DEF PetOK
  <1>11. Alike(q, pet)
    BY <1>6, <1>8 DEF Alike
  <1> QED BY <1>7, <1>8, <1>10, <1>11 DEF q, r

-----------------------------------------------------------------------------
(* What the use cases leave                                                *)

(* What a request asks to change, once it is read.                         *)
Mutation(m) ==
    /\ m.name = Absent \/ m.name \in Words
    /\ m.photos = Absent \/ m.photos \in Seq(STRING)
    /\ m.hair = Absent \/ m.hair \in Int
    /\ m.tags = Absent \/ m.tags \in Tags
    /\ m.category \in Categories /\ m.ref \in References

LEMMA AllMutations ==
    /\ \A p \in Creates : /\ Mutation(FromCreate(p))
                          /\ FromCreate(p).name # Absent /\ FromCreate(p).photos # Absent
    /\ \A p \in Updates : Mutation(p)
    /\ \A f \in Forms : Mutation(WithForm(f))
  <1>1. ASSUME NEW p \in Creates
        PROVE  /\ Mutation(FromCreate(p))
               /\ FromCreate(p).name # Absent /\ FromCreate(p).photos # Absent
    <2>1. PICK m : m = FromCreate(p)
      OBVIOUS
    <2>2. /\ m.name = p.name /\ m.photos = p.photos /\ m.category = p.category /\ m.ref = p.ref
          /\ m.tags = IF p.tags = <<>> THEN Absent ELSE p.tags
          /\ m.hair = IF p.hair = 0 THEN Absent ELSE p.hair
      BY <2>1 DEF FromCreate
    <2>3. p.ref \in References
      BY DEF References
    <2> QED BY <2>1, <2>2, <2>3, AggregateAssumption DEF Mutation
  <1>2. ASSUME NEW p \in Updates PROVE Mutation(p)
    <2>1. p.ref \in References
      BY DEF References
    <2> QED BY <2>1, AggregateAssumption DEF Mutation
  <1>3. ASSUME NEW f \in Forms PROVE Mutation(WithForm(f))
    <2>1. PICK m : m = WithForm(f)
      OBVIOUS
    <2>2. /\ m.name = IF f.name = "" THEN Absent ELSE f.name
          /\ m.photos = Absent /\ m.hair = Absent /\ m.tags = Absent
          /\ m.category = EmptyOfCategory /\ m.ref = EmptyOfRef
      BY <2>1 DEF WithForm
    <2>3. EmptyOfCategory \in Categories /\ EmptyOfRef \in References
      <3>1. "" \in Words
        BY AggregateAssumption
      <3>2. EmptyOfCategory \in Categories
        <4>1. \A i \in Int, w \in Words : [id |-> i, name |-> w] \in Categories
          BY DEF Categories
        <4>2. 0 \in Int
          OBVIOUS
        <4> QED BY <3>1, <4>1, <4>2, Zenon DEF EmptyOfCategory
      <3>3. EmptyOfRef \in References
        BY Zenon DEF References
      <3> QED BY <3>2, <3>3
    <2>4. f.name \in Words
      BY AggregateAssumption
    <2> QED BY <2>1, <2>2, <2>3, <2>4 DEF Mutation
  <1> QED BY <1>1, <1>2, <1>3

LEMMA CategoriesUpdated ==
    ASSUME NEW old \in Categories \cup {NoCategory}, CategoryOK(old), NEW c \in Categories
    PROVE  /\ UpdatedCategory(old, c) \in Categories \cup {NoCategory}
           /\ CategoryOK(UpdatedCategory(old, c))
  <1>1. CASE EmptyCategory(c)
    BY <1>1 DEF UpdatedCategory
  <1>2. CASE ~EmptyCategory(c)
    <2>1. PICK d : d = [c EXCEPT !.name = Trim[@]]
      OBVIOUS
    <2>2. c.name \in Words /\ c.id \in Int
      BY DEF Categories
    <2>3. Trim[c.name] \in Words /\ Trim[Trim[c.name]] = Trim[c.name]
      BY <2>2, Cleaned
    <2>4. d \in Categories /\ d.id = c.id /\ d.name = Trim[c.name]
      BY <2>1, <2>3 DEF Categories
    <2>5. CategoryOK(d)
      BY <1>2, <2>3, <2>4 DEF CategoryOK, EmptyCategory
    <2> QED BY <1>2, <2>1, <2>4, <2>5 DEF UpdatedCategory
  <1> QED BY <1>1, <1>2

LEMMA NotNegative == ASSUME NEW h \in Int, ~(h < 0) PROVE h \in Nat
  OBVIOUS

(* An accepted change leaves a well-formed pet, if it or the pet has a     *)
(* name and photos.                                                        *)
LEMMA AppliedOK ==
    ASSUME NEW pet \in Pets, CategoryOK(pet.category), ReferenceOK(pet.ref), NormalTags(pet.tags),
           NEW m, Mutation(m), ~Refuses(m),
           m.name # Absent \/ Trim[pet.name] # "", m.photos # Absent \/ pet.photos # <<>>
    PROVE  PetOK(Applied(pet, m))
  <1>1. PICK name \in Words : name = Or(m.name, pet.name) /\ Trim[name] # ""
    BY PetFields DEF Mutation, Refuses, Or
  <1>2. PICK photos \in Seq(STRING) : photos = Or(m.photos, pet.photos) /\ photos # <<>>
    BY PetFields DEF Mutation, Refuses, Or
  <1>3. PICK category \in Categories \cup {NoCategory} :
           category = UpdatedCategory(pet.category, m.category) /\ CategoryOK(category)
    BY PetFields, CategoriesUpdated DEF Mutation
  <1>4. PICK tags \in Tags :
           /\ tags = IF m.tags = Absent THEN pet.tags ELSE ReplaceTags(m.tags)
           /\ NormalTags(tags)
    BY PetFields, ReplacedTags DEF Mutation
  <1>5. PICK status \in Statuses :
           status = IF m.status = "" THEN "available" ELSE Or(m.status, pet.status)
    <2>1. "available" \in Statuses /\ pet.status \in Statuses
      BY PetFields DEF Statuses
    <2>2. m.status \in Statuses \cup {"", Absent}
      BY DEF Refuses
    <2> HIDE DEF Statuses
    <2> QED BY <2>1, <2>2 DEF Or
  <1>6. PICK hair \in Nat : hair = Or(m.hair, pet.hair)
    <2>1. pet.hair \in Nat
      BY PetFields
    <2>2. CASE m.hair # Absent
      <3>1. PICK h \in Int : h = m.hair
        BY <2>2 DEF Mutation
      <3>2. ~(h < 0)
        <4>1. ~(m.hair < 0)
          BY <2>2, Zenon DEF Refuses
        <4> QED BY <3>1, <4>1
      <3>3. h \in Nat
        BY <3>2, NotNegative
      <3> QED BY <2>2, <3>1, <3>3 DEF Or
    <2> QED BY <2>1, <2>2 DEF Or
  <1>7. PICK ref \in References : ref = UpdatedReference(pet.ref, m.ref) /\ ReferenceOK(ref)
    BY PetFields DEF Mutation, UpdatedReference, ReferenceOK
  <1>8. PICK q : q = [name |-> name, photos |-> photos, category |-> category, tags |-> tags,
                      status |-> status, hair |-> hair, ref |-> ref]
    OBVIOUS
  <1>9. q = Applied(pet, m)
    BY <1>1, <1>2, <1>3, <1>4, <1>5, <1>6, <1>7, <1>8 DEF Applied
  <1>10. /\ q.name = name /\ q.photos = photos /\ q.category = category
         /\ q.tags = tags /\ q.ref = ref
    BY <1>8
  <1>11. q \in Pets
    BY <1>8 DEF Pets
  <1>12. PetOK(q)
    BY <1>1, <1>2, <1>3, <1>4, <1>7, <1>10, <1>11 DEF PetOK
  <1> QED BY <1>9, <1>12

LEMMA FreshOK ==
    /\ Fresh \in Pets /\ CategoryOK(Fresh.category) /\ ReferenceOK(Fresh.ref)
    /\ NormalTags(Fresh.tags)
  <1>0. PICK none \in Tags : none = <<>>
    BY EmptySeq DEF Tags
  <1>1. none = <<>> /\ DOMAIN none = {}
    BY <1>0, TagsAreSeqs
  <1>2. NormalTags(none)
    BY <1>1 DEF NormalTags, CleanTags, UniqueNames
  <1>3. PICK q : q = [name |-> "", photos |-> <<>>, category |-> NoCategory, tags |-> none,
                      status |-> "available", hair |-> 0, ref |-> NoRef]
    OBVIOUS
  <1>4. q = Fresh
    BY <1>1, <1>3 DEF Fresh
  <1>5. q.category = NoCategory /\ q.ref = NoRef /\ q.tags = none
    BY <1>3
  <1>6. q \in Pets
    <2>1. "available" \in Statuses /\ NoRef \in References /\ "" \in Words
      BY AggregateAssumption DEF Statuses, References
    <2>2. PICK photos \in Seq(STRING) : photos = <<>>
      BY EmptySeq
    <2> QED BY <1>3, <2>1, <2>2 DEF Pets
  <1> QED BY <1>2, <1>4, <1>5, <1>6 DEF CategoryOK, ReferenceOK

(* The same change to two pets of the same record leaves two such pets.    *)
LEMMA AppliedAlike ==
    ASSUME NEW p, NEW q, Alike(p, q), NEW m PROVE Alike(Applied(p, m), Applied(q, m))
  <1>1. PICK x, y : x = Applied(p, m) /\ y = Applied(q, m)
    OBVIOUS
  <1>2. /\ x.name = Or(m.name, p.name) /\ y.name = Or(m.name, q.name)
        /\ x.photos = Or(m.photos, p.photos) /\ y.photos = Or(m.photos, q.photos)
        /\ x.category = UpdatedCategory(p.category, m.category)
        /\ y.category = UpdatedCategory(q.category, m.category)
        /\ x.status = IF m.status = "" THEN "available" ELSE Or(m.status, p.status)
        /\ y.status = IF m.status = "" THEN "available" ELSE Or(m.status, q.status)
        /\ x.hair = Or(m.hair, p.hair) /\ y.hair = Or(m.hair, q.hair)
        /\ x.ref = UpdatedReference(p.ref, m.ref) /\ y.ref = UpdatedReference(q.ref, m.ref)
    BY <1>1 DEF Applied
  <1>3. /\ x.tags = IF m.tags = Absent THEN p.tags ELSE ReplaceTags(m.tags)
        /\ y.tags = IF m.tags = Absent THEN q.tags ELSE ReplaceTags(m.tags)
    BY <1>1 DEF Applied
  <1>4. TagIds(x.tags) = TagIds(y.tags) /\ TagNames(x.tags) = TagNames(y.tags)
    BY <1>3 DEF Alike
  <1> QED BY <1>1, <1>2, <1>4 DEF Alike

LEMMA GroomedOK ==
    ASSUME NEW p, PetOK(p), NEW q, PetOK(q), Alike(q, p),
           NEW g \in Grooms, g.initial >= 0, g.trim >= 0, g.trim <= g.initial
    PROVE  PetOK(Groomed(p, g)) /\ Alike(Groomed(q, g), Groomed(p, g))
  <1>1. PICK x, y : x = Groomed(p, g) /\ y = Groomed(q, g)
    OBVIOUS
  <1>2. p \in Pets /\ q \in Pets
    BY DEF PetOK
  <1>3. g.initial - g.trim \in Nat
    <2>1. g.initial \in Int /\ g.trim \in Int
      BY AggregateAssumption
    <2> QED BY <2>1
  <1>4. PICK h \in Nat : h = g.initial - g.trim
    BY <1>3
  <1>5. x = [p EXCEPT !.hair = h] /\ y = [q EXCEPT !.hair = h]
    BY <1>1, <1>4 DEF Groomed
  <1>6. /\ x.name = p.name /\ x.photos = p.photos /\ x.category = p.category /\ x.tags = p.tags
        /\ x.status = p.status /\ x.hair = h /\ x.ref = p.ref /\ x \in Pets
    BY <1>2, <1>5 DEF Pets
  <1>7. /\ y.name = q.name /\ y.photos = q.photos /\ y.category = q.category /\ y.tags = q.tags
        /\ y.status = q.status /\ y.hair = h /\ y.ref = q.ref
    BY <1>2, <1>5 DEF Pets
  <1>8. PetOK(x)
    BY <1>6 DEF PetOK
  <1>9. Alike(y, x)
    BY <1>6, <1>7 DEF Alike
  <1> QED BY <1>1, <1>8, <1>9

LEMMA LoadedFrom ==
    ASSUME FieldsInv, memory # NoPet
    PROVE  /\ PetOK(memory) /\ row = ToRecord(memory) /\ ToDomain(row) = Loaded(memory)
           /\ PetOK(Loaded(memory)) /\ Alike(Loaded(memory), memory)
  <1>1. PetOK(memory) /\ row = ToRecord(memory)
    BY DEF FieldsInv
  <1>2. ToDomain(row) = Loaded(memory)
    BY <1>1, Zenon DEF Loaded
  <1> QED BY <1>1, <1>2, LoadedPets

(* Every request leaves both stores with the same record.                  *)
LEMMA SavedInv ==
    ASSUME NEW p, PetOK(p), NEW q, Alike(q, p), Save(p, q)
    PROVE  FieldsInv'
  <1>1. ToRecord(q) = ToRecord(p)
    BY AlikeRecords
  <1>2. memory' = p /\ row' = ToRecord(p)
    BY <1>1 DEF Save
  <1>3. PetOK(memory)' /\ (row = ToRecord(memory))'
    BY <1>2
  <1> QED BY <1>3 DEF FieldsInv

LEMMA InvariantStep == FieldsInv /\ [Next]_vars => FieldsInv'
  <1> SUFFICES ASSUME FieldsInv, [Next]_vars PROVE FieldsInv'
    OBVIOUS
  <1>1. CASE AddPet
    <2>1. PICK p \in Creates : /\ ~Refuses(FromCreate(p))
                               /\ Save(Applied(Fresh, FromCreate(p)), Applied(Fresh, FromCreate(p)))
      BY <1>1 DEF AddPet
    <2>2. PetOK(Applied(Fresh, FromCreate(p)))
      BY <2>1, AllMutations, FreshOK, AppliedOK
    <2>3. Alike(Applied(Fresh, FromCreate(p)), Applied(Fresh, FromCreate(p)))
      BY DEF Alike
    <2> QED BY <2>1, <2>2, <2>3, SavedInv
  <1>2. ASSUME memory # NoPet, NEW m, Mutation(m), ~Refuses(m),
               Save(Applied(memory, m), Applied(ToDomain(row), m))
        PROVE  FieldsInv'
    <2>1. /\ memory \in Pets /\ Trim[memory.name] # "" /\ memory.photos # <<>>
          /\ CategoryOK(memory.category) /\ ReferenceOK(memory.ref) /\ NormalTags(memory.tags)
      BY <1>2, LoadedFrom DEF PetOK
    <2>2. PetOK(Applied(memory, m))
      BY <1>2, <2>1, AppliedOK
    <2>3. Alike(Applied(ToDomain(row), m), Applied(memory, m))
      BY <1>2, LoadedFrom, AppliedAlike
    <2> QED BY <1>2, <2>2, <2>3, SavedInv
  <1>3. CASE UpdatePet
    BY <1>2, <1>3, AllMutations DEF UpdatePet
  <1>4. CASE UpdatePetWithForm
    BY <1>2, <1>4, AllMutations DEF UpdatePetWithForm
  <1>5. CASE GroomPet
    <2>1. PICK g \in Grooms : /\ g.initial >= 0 /\ g.trim >= 0 /\ g.trim <= g.initial
                              /\ Save(Groomed(memory, g), Groomed(ToDomain(row), g))
      BY <1>5 DEF GroomPet
    <2>2. /\ PetOK(memory) /\ PetOK(ToDomain(row)) /\ Alike(ToDomain(row), memory)
      BY <1>5, LoadedFrom DEF GroomPet
    <2>3. PetOK(Groomed(memory, g)) /\ Alike(Groomed(ToDomain(row), g), Groomed(memory, g))
      BY <2>1, <2>2, GroomedOK
    <2> QED BY <2>1, <2>3, SavedInv
  <1>6. CASE DeletePet
    BY <1>6 DEF DeletePet, FieldsInv
  <1>7. CASE UNCHANGED vars
    BY <1>7 DEF vars, FieldsInv
  <1> QED BY <1>1, <1>3, <1>4, <1>5, <1>6, <1>7 DEF Next

LEMMA Invariant == Spec => []FieldsInv
  <1>1. Init => FieldsInv
    BY DEF Init, FieldsInv
  <1> QED BY <1>1, InvariantStep, PTL DEF Spec

LEMMA FoundPets == ASSUME FieldsInv PROVE memory = NoPet <=> row = NoPet
  <1>1. CASE memory = NoPet /\ row = NoPet
    BY <1>1
  <1>2. CASE PetOK(memory) /\ row = ToRecord(memory)
    <2>1. memory \in Pets
      BY <1>2 DEF PetOK
    <2>2. row \in Rows
      BY <1>2, <2>1, RecordsAreRows
    <2> QED BY <2>1, <2>2, AggregateAssumption
  <1> QED BY <1>1, <1>2 DEF FieldsInv

-----------------------------------------------------------------------------
(* The theorems                                                            *)

(* Whatever is sent, a stored pet has a name that is not blank, a photo, a *)
(* known status and no negative hair length, and its row has the columns'  *)
(* types: the rules of the aggregate hold on every path that changes it.   *)
THEOREM TypeCorrect == Spec => []TypeOK
  <1>1. ASSUME FieldsInv PROVE TypeOK
    <2>1. memory # NoPet => memory \in Pets /\ Trim[memory.name] # "" /\ memory.photos # <<>>
      BY <1>1 DEF FieldsInv, PetOK
    <2>2. row # NoPet => row \in Rows
      BY <1>1, <2>1, FoundPets, RecordsAreRows DEF FieldsInv
    <2> QED BY <2>1, <2>2 DEF TypeOK
  <1> QED BY <1>1, Invariant, PTL

(* A memory deployment and a Postgres one that are sent the same requests  *)
(* hold the same pet, however often it went through the columns, tags      *)
(* behind one without a name excepted.                                     *)
THEOREM BackendsInAgreement == Spec => []BackendsAgree
  <1>1. ASSUME FieldsInv PROVE BackendsAgree
    <2>1. memory = NoPet <=> row = NoPet
      BY <1>1, FoundPets
    <2>2. ASSUME memory # NoPet
          PROVE  /\ [ToDomain(row) EXCEPT !.tags = memory.tags] = memory
                 /\ Aligned(memory.tags) => ToDomain(row).tags = memory.tags
      <3>1. PICK p, q : p = memory /\ q = ToDomain(row)
        OBVIOUS
      <3>2. q = Loaded(p) /\ PetOK(p) /\ PetOK(q) /\ Alike(q, p)
        BY <1>1, <2>2, <3>1, LoadedFrom
      <3>3. Aligned(p.tags) => q.tags = p.tags
        BY <3>2, LoadedPets
      <3>4. p \in Pets /\ q \in Pets
        BY <3>2 DEF PetOK
      <3>5. [q EXCEPT !.tags = p.tags] = p
        BY <3>2, <3>4 DEF Alike, Pets
      <3> QED BY <3>1, <3>3, <3>5
    <2> QED BY <2>1, <2>2 DEF BackendsAgree
  <1> QED BY <1>1, Invariant, PTL

(* A query by tag or by status answers the same on both deployments: the   *)
(* columns may move a name to another tag, but never lose one.             *)
THEOREM QueriesInAgreement == Spec => []QueriesAgree
  <1>1. ASSUME FieldsInv PROVE QueriesAgree
    <2> SUFFICES ASSUME memory # NoPet
                 PROVE  /\ \A q \in Words \ {""} : FoundInMemory(q) <=> FoundInPostgres(q)
                        /\ \A s \in {<<>>} \cup {<<"sold", t>> : t \in Statuses} :
                              ListedInMemory(s) <=> ListedInPostgres(s)
      BY DEF QueriesAgree
    <2>1. PICK tags \in Tags, l \in Nat, named \in Tags, n \in Nat :
             /\ tags = memory.tags /\ l = Len(tags) /\ named = Named(tags) /\ n = Len(named)
             /\ NamesOf(tags, l, named)
      <3>1. memory.tags \in Tags
        BY <1>1, LoadedFrom, PetFields DEF PetOK
      <3> QED BY <3>1, NamesKept, TagsAreSeqs DEF NamesOf
    <2>2. row.tagNames = TagNames(memory.tags) /\ row.status = memory.status
      <3>1. row = ToRecord(memory)
        BY <1>1, LoadedFrom
      <3> QED BY <3>1 DEF ToRecord
    <2>3. DOMAIN named = 1 .. n /\ DOMAIN tags = 1 .. l
      BY <2>1, TagsAreSeqs
    <2>4. /\ DOMAIN row.tagNames = 1 .. n
          /\ \A j \in 1 .. n : row.tagNames[j] = named[j].name
      BY <2>1, <2>2, <2>3 DEF TagNames
    <2>5. ASSUME NEW q \in Words \ {""} PROVE FoundInMemory(q) <=> FoundInPostgres(q)
      <3>1. ASSUME FoundInMemory(q) PROVE FoundInPostgres(q)
        <4>1. PICK i \in 1 .. l : Lower[tags[i].name] = Lower[q]
          BY <2>1, <2>3, <3>1 DEF FoundInMemory
        <4>2. tags[i].name # ""
          BY <4>1, AggregateAssumption
        <4>3. PICK j \in 1 .. n : named[j] = tags[i]
          BY <2>1, <2>3, <4>2 DEF NamesOf, AllNamed
        <4> QED BY <2>4, <4>1, <4>3 DEF FoundInPostgres
      <3>2. ASSUME FoundInPostgres(q) PROVE FoundInMemory(q)
        <4>1. PICK j \in 1 .. n : Lower[named[j].name] = Lower[q]
          BY <2>4, <3>2 DEF FoundInPostgres
        <4>2. PICK i \in 1 .. l : named[j] = tags[i]
          BY <2>1, <2>3 DEF NamesOf, OnlyNamed
        <4> QED BY <2>1, <2>3, <4>1, <4>2 DEF FoundInMemory
      <3> QED BY <3>1, <3>2
    <2>6. ASSUME NEW s PROVE ListedInMemory(s) <=> ListedInPostgres(s)
      BY <2>2 DEF ListedInMemory, ListedInPostgres, Range
    <2> QED BY <2>5, <2>6
  <1> QED BY <1>1, Invariant, PTL

(* No two tags of a pet have the same name in either store, in whatever    *)
(* case or with whatever blanks they were sent.                            *)
THEOREM TagsStayUnique == Spec => []NamedTagsAreUnique
  <1>1. ASSUME FieldsInv, memory # NoPet
        PROVE  UniqueNames(memory.tags) /\ UniqueNames(ToDomain(row).tags)
    <2>1. PetOK(memory) /\ PetOK(ToDomain(row))
      BY <1>1, LoadedFrom
    <2> QED BY <2>1 DEF PetOK, NormalTags
  <1>2. FieldsInv => NamedTagsAreUnique
    BY <1>1 DEF NamedTagsAreUnique
  <1> QED BY <1>2, Invariant, PTL

LEMMA AnswersRestore == ASSUME NEW pet, PetOK(pet) PROVE Restored(pet)
  <1>0. /\ pet \in Pets /\ Trim[pet.name] # "" /\ pet.photos # <<>>
        /\ CategoryOK(pet.category) /\ ReferenceOK(pet.ref) /\ NormalTags(pet.tags)
    BY DEF PetOK
  <1>1. PICK m : m = Answer(pet)
    OBVIOUS
  <1>2. /\ m.name = pet.name /\ m.photos = pet.photos /\ m.status = pet.status
        /\ m.category = IF pet.category = NoCategory THEN EmptyOfCategory ELSE pet.category
        /\ m.tags = IF pet.tags = <<>> THEN Absent ELSE pet.tags
        /\ m.hair = IF pet.hair > 0 THEN pet.hair ELSE Absent
        /\ m.ref = IF pet.ref = NoRef THEN EmptyOfRef ELSE pet.ref
    BY <1>1 DEF Answer, AnsweredTags
  <1>3. ~Refuses(m)
    <2>1. ~(m.hair # Absent /\ m.hair < 0)
      <3>1. PICK h \in Nat : h = pet.hair
        BY <1>0, PetFields
      <3>2. h > 0 => ~(h < 0)
        BY <3>1
      <3>3. m.hair = IF h > 0 THEN h ELSE Absent
        BY <1>2, <3>1, Zenon
      <3> QED BY <3>2, <3>3, Zenon
    <2>2. m.status \in Statuses \cup {"", Absent}
      BY <1>0, <1>2, PetFields
    <2> QED BY <1>0, <1>2, <2>1, <2>2 DEF Refuses
  <1>4. Or(m.name, pet.name) = pet.name /\ Or(m.photos, pet.photos) = pet.photos
    BY <1>2 DEF Or
  <1>5. Or(m.hair, pet.hair) = pet.hair
    BY <1>2, Zenon DEF Or
  <1>6. (IF m.status = "" THEN "available" ELSE Or(m.status, pet.status)) = pet.status
    BY <1>0, <1>2, PetFields DEF Or, Statuses
  <1>7. (IF m.tags = Absent THEN pet.tags ELSE ReplaceTags(m.tags)) = pet.tags
    <2>1. ReplaceTags(pet.tags) = pet.tags
      BY <1>0, PetFields, ReplacedTags
    <2> QED BY <1>2, <2>1
  <1>8. UpdatedCategory(pet.category, m.category) = pet.category
    <2>1. CASE pet.category = NoCategory
      <3>1. PICK c : c = m.category
        OBVIOUS
      <3>2. c = [id |-> 0, name |-> ""]
        BY <1>2, <2>1, <3>1 DEF EmptyOfCategory
      <3>3. EmptyCategory(c)
        BY <3>2, FieldsOfTag, AggregateAssumption DEF EmptyCategory
      <3> QED BY <3>1, <3>3 DEF UpdatedCategory
    <2>2. CASE pet.category # NoCategory
      <3>1. PICK c \in Categories : c = pet.category /\ c.name = Trim[c.name]
        BY <1>0, <2>2, PetFields DEF CategoryOK
      <3>2. [c EXCEPT !.name = Trim[c.name]] = c
        BY <3>1 DEF Categories
      <3> QED BY <1>2, <2>2, <3>1, <3>2 DEF UpdatedCategory
    <2> QED BY <2>1, <2>2
  <1>9. UpdatedReference(pet.ref, m.ref) = pet.ref
    <2>1. EmptyRef(EmptyOfRef)
      BY DEF EmptyRef, EmptyOfRef
    <2> QED BY <1>0, <1>2, <2>1 DEF UpdatedReference, ReferenceOK
  <1>10. Applied(pet, m) =
            [name |-> pet.name, photos |-> pet.photos, category |-> pet.category,
             tags |-> pet.tags, status |-> pet.status, hair |-> pet.hair, ref |-> pet.ref]
    BY <1>4, <1>5, <1>6, <1>7, <1>8, <1>9 DEF Applied
  <1>11. Applied(pet, m) = pet
    BY <1>0, <1>10 DEF Pets
  <1> QED BY <1>1, <1>3, <1>11 DEF Restored

(* An answer sent back as an update is accepted and changes nothing, from  *)
(* either deployment: what is left out of an answer is what an update      *)
(* takes for absent, and cleaned tags are not cleaned further.             *)
THEOREM PutBackIsIdentity == Spec => []PutBackChangesNothing
  <1>1. ASSUME FieldsInv, memory # NoPet PROVE Restored(memory) /\ Restored(ToDomain(row))
    <2>1. PetOK(memory) /\ PetOK(ToDomain(row))
      BY <1>1, LoadedFrom
    <2> QED BY <2>1, AnswersRestore
  <1>2. FieldsInv => PutBackChangesNothing
    BY <1>1 DEF PutBackChangesNothing
  <1> QED BY <1>2, Invariant, PTL

LEMMA SortedTagsKeep ==
    ASSUME NEW s, NEW t, SortedTags(s) = SortedTags(t), NEW n \in DOMAIN s
    PROVE  \E j \in DOMAIN t : s[n] = t[j]
  <1>1. /\ DOMAIN SortedTags(s) = {s[i] : i \in DOMAIN s}
        /\ DOMAIN SortedTags(t) = {t[i] : i \in DOMAIN t}
    BY Zenon DEF SortedTags
  <1> QED BY <1>1

LEMMA HashesCover ==
    ASSUME NEW p, NEW q, SyncHash(p) = SyncHash(q) PROVE ToPayload(p) = ToPayload(q)
  <1>1. /\ p.name = q.name /\ p.status = q.status /\ p.photos = q.photos
        /\ SortedTags(p.tags) = SortedTags(q.tags) /\ Attributes(p) = Attributes(q)
    <2>1. ASSUME NEW a, NEW b, NEW c, NEW d, NEW e, NEW f,
                 NEW u, NEW v, NEW w, NEW x, NEW y, NEW z,
                 <<a, b, c, d, e, f>> = <<u, v, w, x, y, z>>
          PROVE  a = u /\ b = v /\ d = x /\ e = y /\ f = z
      BY <2>1
    <2>2. <<p.name, p.status, p.category, p.photos, SortedTags(p.tags), Attributes(p)>> =
          <<q.name, q.status, q.category, q.photos, SortedTags(q.tags), Attributes(q)>>
      BY Zenon DEF SyncHash
    <2> QED BY <2>1, <2>2
  <1>2. {p.tags[i].name : i \in DOMAIN p.tags} = {q.tags[i].name : i \in DOMAIN q.tags}
    <2>1. ASSUME NEW k \in DOMAIN p.tags PROVE \E j \in DOMAIN q.tags : p.tags[k] = q.tags[j]
      BY <1>1, SortedTagsKeep
    <2>2. ASSUME NEW k \in DOMAIN q.tags PROVE \E j \in DOMAIN p.tags : q.tags[k] = p.tags[j]
      BY <1>1, SortedTagsKeep
    <2> QED BY <2>1, <2>2
  <1> QED BY <1>1, <1>2, Zenon DEF ToPayload

(* A change that the partner would see changes the hash, whichever call    *)
(* made it.                                                                *)
THEOREM HashesCoverPayloads == Spec => HashCoversPayload
  <1>1. SyncHash(memory') = SyncHash(memory) => ToPayload(memory') = ToPayload(memory)
    BY HashesCover
  <1> QED BY <1>1, PTL DEF Spec, HashCoversPayload
=============================================================================
