-------------------------- MODULE EntityResolution --------------------------
(***************************************************************************)
(* What a name in a request refers to among the user's wallets, categories *)
(* or merchants.  A text is a sequence of words and how they are joined:   *)
(* its comparison form keeps the punctuation, its normalized form is the   *)
(* words alone.  A text of punctuation only has no words.                  *)
(***************************************************************************)
EXTENDS Integers, Sequences, FiniteSets, FiniteSetsExt, SequencesExt, Ordering

CONSTANTS
  Texts,           \* names and references
  MaxCandidates,   \* ENTITY_RESOLUTION_LIMITS.candidates
  MaxOptions,      \* ENTITY_RESOLUTION_LIMITS.ambiguityOptions
  MaxAliases,      \* ENTITY_RESOLUTION_LIMITS.aliasesPerCandidate
  MaxNames,        \* names the user has, over the limit too
  Place,           \* of a word: where the order of the characters puts it
  Unfit            \* words of one letter, and whatever is over aliasBytes

VARIABLES owned, reference, kind   \* the user's names by id, and what is asked

resolveVars == <<owned, reference, kind>>

Threshold == 900
Margin == 50
Plain(words) == [words |-> words, dashed |-> FALSE]

ASSUME ResolutionAssumption ==
  /\ \A t \in Texts : t \in [words : Seq(STRING), dashed : BOOLEAN]
  /\ {MaxCandidates, MaxNames, MaxAliases} \subseteq Nat \ {0} /\ MaxOptions \in Nat \ {0, 1}

---------------------------------------------------------------------------
(* Candidates and their scores *)

(* The words of a name are its aliases, and for a category or a merchant   *)
(* so is the whole name without its punctuation; for a wallet it is not,   *)
(* even when it is a single word.                                          *)
Nicknames(name, of) ==
  LET words == {<<name.words[i]>> : i \in DOMAIN name.words}
  IN (IF of = "wallet" THEN words \ {name.words} ELSE words \cup {name.words}) \ Unfit

ComesFirst(a, b) == Place[a[1]] < Place[b[1]] \/ (a[1] = b[1] /\ Len(a) < Len(b))

(* Only the first of them, in the order of the characters, are kept.       *)
Aliases(name, of) ==
  {Plain(a) : a \in {w \in Nicknames(name, of) :
                      Cardinality({v \in Nicknames(name, of) : ComesFirst(v, w)}) < MaxAliases}}

(* matchEntityCandidate and confidenceFromEvidence.                        *)
Score(ref, name, of) ==
  CASE ref = name -> 1000
    [] ref # name /\ ref \in Aliases(name, of) -> 950
    [] ref # name /\ ref \notin Aliases(name, of)
         /\ ref.words \in {a.words : a \in Aliases(name, of)} \cup {name.words} -> 900
    [] OTHER -> 0

---------------------------------------------------------------------------
(* The resolution *)

Usable(name) == name.words # <<>>   \* createEntityCandidate refuses the others

Eligible(all, ref, of) == {i \in DOMAIN all : Score(ref, all[i], of) >= Threshold}

(* Mutant: a rival exactly the margin behind is no rival.                  *)
CompetingStrictly(all, top, ref, of) ==
  {i \in Eligible(all, ref, of) \ {top} :
     Score(ref, all[top], of) - Score(ref, all[i], of) < Margin}

(* Who comes close enough to the best match.                               *)
Competing(all, top, ref, of) ==
  {i \in Eligible(all, ref, of) \ {top} :
     Score(ref, all[top], of) - Score(ref, all[i], of) <= Margin}

(* By score, then by id.                                                   *)
Better(all, ref, of) ==
  {p \in (DOMAIN all) \X (DOMAIN all) :
     LET a == Score(ref, all[p[1]], of) b == Score(ref, all[p[2]], of)
     IN a > b \/ (a = b /\ p[1] < p[2])}

(* One name that cannot be a candidate fails every resolution, and so does *)
(* one more candidate than the limit.                                      *)
Resolve(all, ref, of) ==
  LET better == Better(all, ref, of)
      ranked == InOrder(Eligible(all, ref, of), better)
      close == Competing(all, ranked[1], ref, of)
      options == InOrder({ranked[1]} \cup close, better)
  IN CASE ~Usable(ref) -> [kind |-> "invalid_reference"]
       [] Usable(ref) /\ (Len(all) > MaxCandidates \/ \E i \in DOMAIN all : ~Usable(all[i])) ->
            [kind |-> "error"]
       [] OTHER ->
            IF ranked = <<>> THEN [kind |-> "not_found"]
            ELSE IF close = {} THEN [kind |-> "resolved", id |-> ranked[1]]
            ELSE [kind |-> "ambiguous",
                  options |-> SubSeq(options, 1, Min({Len(options), MaxOptions}))]

---------------------------------------------------------------------------
ResolveInit == owned = <<>> /\ reference = Plain(<<>>) /\ kind = "none"

Refer == \E n \in 1..MaxNames : \E all \in [1..n -> Texts], ref \in Texts,
            of \in {"wallet", "category"} :
           owned' = all /\ reference' = ref /\ kind' = of
ResolveNext == kind = "none" /\ Refer

ResolveSpec == ResolveInit /\ [][ResolveNext]_resolveVars

---------------------------------------------------------------------------
(* What a reference can mean: the name whose words it is, and each name    *)
(* that is known by that word.  Nobody is known by a word that is no alias:*)
(* one of a single letter, or one after the first MaxAliases.              *)
Means(ref, name, of) ==
  ref.words = name.words \/ (Len(ref.words) = 1 /\ Plain(ref.words) \in Aliases(name, of))

(* NamesAreUnrivalled: a name is settled on without asking only when the   *)
(* reference can mean nothing else, or is that very name and differs from  *)
(* the others it can mean by punctuation.  A question offers what was      *)
(* meant unless it is full of better matches, and whoever is named exactly *)
(* is never answered "not found".                                          *)
NamesAreUnrivalled ==
  LET found == Resolve(owned, reference, kind)
      meant == {i \in DOMAIN owned : Means(reference, owned[i], kind)}
  IN kind # "none" =>
     /\ found.kind = "resolved" =>
          /\ found.id \in meant
          /\ \/ meant = {found.id}
             \/ /\ reference = owned[found.id]
                /\ \A i \in meant \ {found.id} :
                     reference # owned[i] /\ (reference.dashed \/ owned[i].dashed)
     /\ found.kind = "ambiguous" =>
          /\ ToSet(found.options) \subseteq meant /\ Cardinality(ToSet(found.options)) > 1
          /\ \A i \in meant \ ToSet(found.options) :
               \/ Len(found.options) = MaxOptions
               \/ reference = owned[found.options[1]] /\ reference # owned[i]
     /\ found.kind = "not_found" => meant = {}
     /\ found.kind = "error" =>
          Len(owned) > MaxCandidates \/ \E i \in DOMAIN owned : ~Usable(owned[i])

(* CategoriesHaveNoAliases, which is not so: "Category.name is both        *)
(* canonical and safe display text; there are no aliases" (docs/api/       *)
(* assistant-conversations.md:113).  A word of the name is enough.         *)
CategoriesHaveNoAliases ==
  kind = "category" =>
    LET found == Resolve(owned, reference, kind)
    IN found.kind = "resolved" => owned[found.id].words = reference.words
=============================================================================
