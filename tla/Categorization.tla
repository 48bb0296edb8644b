--------------------------- MODULE Categorization ---------------------------
(***************************************************************************)
(* The category suggested for a description: the user's own merchant       *)
(* mapping first, else keywords of the category names the program knows,   *)
(* and the category the Assistant puts on a draft.  A description is a     *)
(* sequence of words; Inside tells which keywords a word contains and      *)
(* Spells the keyword a word becomes without its symbols.  The few         *)
(* keywords with a space in them ("tv kabel") are left out.                *)
(***************************************************************************)
EXTENDS EntityResolution

CONSTANTS
  PaymentPrefixes,   \* PAYMENT_PREFIXES, in the order they are stripped
  Numbers,        \* words of two or more digits
  Keywords,       \* CATEGORY_KEYWORDS: of a name, its keywords
  Inside, Spells,
  MaxSuggestions, \* suggestions shown (the code's 5)
  Descriptions,
  Mine,           \* sets of categories the user may have, by name and type
  Mapped          \* merchant mappings the user may have

VARIABLES text, categories, mappings
suggestVars == <<text, categories, mappings>>

Fallback == "Lainnya"
Tiers == <<"EXACT", "CONTAINS", "TOKEN">>   \* HIGH, MEDIUM and LOW

---------------------------------------------------------------------------
(* Normalization *)

(* Each prefix is tried once, in the order of the list.                    *)
Strip(words) ==
  FoldLeft(LAMBDA w, p : IF Len(w) > 1 /\ w[1] = p THEN Tail(w) ELSE w, words, PaymentPrefixes)

NormalizeMerchant(words) ==
  LET bare == Strip(words)
  IN IF Len(bare) > 1 /\ bare[Len(bare)] \in Numbers THEN Front(bare) ELSE bare

(* A user's categories of one type have different names, ordered by rank,  *)
(* and there is one mapping for a normalized name.                         *)
ASSUME CategorizationAssumption ==
  /\ MaxSuggestions \in Nat \ {0} /\ PaymentPrefixes \in Seq(STRING)
  /\ \A d \in Descriptions : d \in Seq(STRING)
  /\ \A cats \in Mine : IsFiniteSet(cats) /\ \A c, d \in cats :
       /\ c.name \in STRING /\ c.type \in {"INCOME", "EXPENSE"}
       /\ c.rank \in Nat /\ (c.type = d.type /\ c.rank = d.rank => c = d)
  /\ \A mapped \in Mapped : \A m, n \in mapped :
       NormalizeMerchant(m.merchant) = NormalizeMerchant(n.merchant) => m = n

---------------------------------------------------------------------------
(* Keyword matching *)

MatchKind(keyword, words) ==
  CASE words = <<keyword>> -> "EXACT"
    [] words # <<keyword>> /\ \E w \in ToSet(words) : keyword \in Inside[w] -> "CONTAINS"
    [] words # <<keyword>> /\ (\A w \in ToSet(words) : keyword \notin Inside[w])
         /\ \E w \in ToSet(words) : Spells[w] = keyword -> "TOKEN"
    [] OTHER -> "none"

KeywordsOf(category) ==
  IF category.name \in DOMAIN Keywords THEN Keywords[category.name] ELSE {}

Tier(category, words) ==
  LET found == {t \in DOMAIN Tiers : \E k \in KeywordsOf(category) : MatchKind(k, words) = Tiers[t]}
  IN IF found = {} THEN 0 ELSE Min(found)

---------------------------------------------------------------------------
(* Suggestions *)

(* Best tier first, then by name.                                          *)
Ranked(words, cats) ==
  InOrder({c \in cats : Tier(c, words) # 0},
          {p \in cats \X cats :
             \/ Tier(p[1], words) < Tier(p[2], words)
             \/ Tier(p[1], words) = Tier(p[2], words) /\ p[1].rank < p[2].rank})

Mapping(words, type, mapped) ==
  {m \in mapped : NormalizeMerchant(m.merchant) = words /\ m.category.type = type}

GetSuggestions(description, type, cats, mapped) ==
  LET words == NormalizeMerchant(description)
      mine == {c \in cats : c.type = type}
      found == Mapping(words, type, mapped)
      ranked == Ranked(words, mine)
  IN IF words = <<>> THEN <<>>
     ELSE IF found # {}
     THEN <<[category |-> (CHOOSE m \in found : TRUE).category, tier |-> 1]>>
     ELSE [i \in 1..Min({Len(ranked), MaxSuggestions}) |->
             [category |-> ranked[i], tier |-> Tier(ranked[i], words)]]

(* inferCategoryId: the best suggestion unless it is a LOW one, else the   *)
(* catch-all category found by its name.                                   *)
InferCategory(description, type, cats, mapped) ==
  LET best == GetSuggestions(description, type, cats, mapped)
      all == InOrder({c \in cats : c.type = type}, {p \in cats \X cats : p[1].rank < p[2].rank})
      fallback == Resolve([i \in DOMAIN all |-> Plain(<<all[i].name>>)],
                          Plain(<<Fallback>>), "category")
  IN IF best # <<>> /\ best[1].tier < 3 THEN {best[1].category}
     ELSE IF fallback.kind = "resolved" THEN {all[fallback.id]} ELSE {}

---------------------------------------------------------------------------
SuggestInit == text = <<>> /\ categories = {} /\ mappings = {}

Describe == \E d \in Descriptions, cats \in Mine, mapped \in Mapped :
              /\ {m.category : m \in mapped} \subseteq cats
              /\ text' = d /\ categories' = cats /\ mappings' = mapped
SuggestNext == text = <<>> /\ Describe

SuggestSpec == SuggestInit /\ [][SuggestNext]_suggestVars

---------------------------------------------------------------------------
(* What the user told of the merchant.                                     *)
Remembered(d, mapped) == {m \in mapped : NormalizeMerchant(m.merchant) = NormalizeMerchant(d)}

Suited(d, cats, mapped, type) ==
  LET shown == GetSuggestions(d, type, cats, mapped)
      of == {shown[i].category : i \in DOMAIN shown}
  IN /\ of \subseteq {c \in cats : c.type = type} /\ Cardinality(of) = Len(shown)
     /\ \A i, j \in DOMAIN shown : i < j => shown[i].tier <= shown[j].tier
     /\ \A m \in Remembered(d, mapped) : m.category.type = type => of = {m.category}
     /\ (\A m \in Remembered(d, mapped) : m.category.type # type) =>
          \A c \in {x \in cats : x.type = type} \ of :
            Tier(c, NormalizeMerchant(d)) # 0 =>
              /\ Len(shown) = MaxSuggestions
              /\ shown[MaxSuggestions].tier <= Tier(c, NormalizeMerchant(d))

(* One of the category's keywords stands in the description as it is.      *)
IsWritten(c, words) ==
  \E k \in KeywordsOf(c) : words = <<k>> \/ \E i \in DOMAIN words : k \in Inside[words[i]]

InferenceIsFounded(d, cats, mapped, type) ==
  \A c \in InferCategory(d, type, cats, mapped) :
    /\ c \in cats /\ c.type = type
    /\ \/ c.name = Fallback \/ \E m \in Remembered(d, mapped) : m.category = c
       \/ IsWritten(c, NormalizeMerchant(d))

SameBehindPayment(d, cats, mapped, type) ==
  \A p \in ToSet(PaymentPrefixes), n \in Numbers :
    d[1] \notin ToSet(PaymentPrefixes) /\ d[Len(d)] \notin Numbers =>
      GetSuggestions(<<p>> \o Append(d, n), type, cats, mapped)
        = GetSuggestions(d, type, cats, mapped)

(* CategoriesAreUnrivalled: whatever is suggested is a category of the     *)
(* user and of the kind asked for, each once, the better match first and   *)
(* none left out for a worse one; what the user mapped is never outvoted   *)
(* by a keyword.  A category put on a draft without asking is the          *)
(* catch-all, or the merchant's, or has a keyword that stands in the       *)
(* description as it is (how little one word may say is SingleWordsAreLow),*)
(* and the same merchant behind a payment word and a reference number is   *)
(* the same merchant.                                                      *)
CategoriesAreUnrivalled ==
  \A type \in {"INCOME", "EXPENSE"} :
    /\ Suited(text, categories, mappings, type)
    /\ InferenceIsFounded(text, categories, mappings, type)
    /\ SameBehindPayment(text, categories, mappings, type)

(* GuessesAreUnrivalled: what is filled in without asking the user has no  *)
(* rival the rules can see.                                                *)
GuessesAreUnrivalled == NamesAreUnrivalled /\ (text # <<>> => CategoriesAreUnrivalled)

(* SingleWordsAreLow, which is not so: "LOW confidence: Single token match *)
(* (e.g. "bakso" in "makan bakso enak" matching "makan")", because "the    *)
(* description may refer to something else" (confidenceCalculator.ts:22-27).*)
(* When all that speaks for a category is that one of three words is its   *)
(* keyword, it is still rated MEDIUM, and put on a draft without asking.   *)
SingleWordsAreLow ==
  LET words == NormalizeMerchant(text)
      speaks(c) == {k \in KeywordsOf(c) : MatchKind(k, words) # "none"}
  IN text # <<>> /\ Remembered(text, mappings) = {} => \A type \in {"INCOME", "EXPENSE"} :
       LET shown == GetSuggestions(text, type, categories, mappings)
       IN \A i \in DOMAIN shown :
            Len(words) > 2 /\ Cardinality(speaks(shown[i].category)) = 1
                /\ speaks(shown[i].category) \subseteq ToSet(words)
              => Tiers[shown[i].tier] = "TOKEN"
=============================================================================
