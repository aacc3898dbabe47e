----------------------------- MODULE InboxSlug -----------------------------
(***************************************************************************)
(* The slug of an inbox agent: which texts a registration may give as its  *)
(* slug, and which texts a query finds it by.  A text is a sequence of     *)
(* characters, and a character is one of a few that stand for all that the *)
(* normalisation treats like them.                                         *)
(*                                                                         *)
(* stored is the slug of a registration, asked what a client types.        *)
(***************************************************************************)
EXTENDS Naturals, Sequences

CONSTANTS
    Reserved,       \* RESERVED_INBOX_SLUGS
    SlugLength,     \* the longest slug (80)
    TypedLength     \* the longest text that is typed (a bound, not in the code)

VARIABLES stored, asked

slugVars == <<stored, asked>>

(* Two letters, one of them also with an accent and as a capital; an accent*)
(* of its own; white space; the hyphen; any other character.               *)
Letters    == {"a", "b"}
Characters == Letters \cup {"A", "a with accent", "accent", " ", "-", "other"}

ASSUME ReservedAssumption == Reserved \subseteq Seq(Characters)
ASSUME LengthsAssumption  == {SlugLength, TypedLength} \subseteq Nat

---------------------------------------------------------------------------
(* normalizeInboxSlug, one replacement after the other.                    *)

(* The compatible decomposition, and the accents dropped.                  *)
StripDiacritics(t) ==
    LET out[n \in 0 .. Len(t)] ==
            IF n = 0 THEN <<>>
            ELSE IF t[n] = "accent" THEN out[n - 1]
            ELSE Append(out[n - 1], IF t[n] = "a with accent" THEN "a" ELSE t[n])
    IN out[Len(t)]

ToLowerCase(t) == [i \in DOMAIN t |-> IF t[i] = "A" THEN "a" ELSE t[i]]

(* t without what is in S at both of its ends.                             *)
TrimOf(t, S) ==
    LET kept == {i \in DOMAIN t : t[i] \notin S} IN
    IF kept = {} THEN <<>>
    ELSE SubSeq(t, CHOOSE i \in kept : \A j \in kept : i <= j,
                   CHOOSE i \in kept : \A j \in kept : j <= i)

(* Every run of characters that are not in S becomes one hyphen.           *)
HyphenateRuns(t, S) ==
    LET out[n \in 0 .. Len(t)] ==
            IF n = 0 THEN <<>>
            ELSE IF t[n] \in S THEN Append(out[n - 1], t[n])
            ELSE IF n > 1 /\ t[n - 1] \notin S THEN out[n - 1]
            ELSE Append(out[n - 1], "-")
    IN out[Len(t)]

(* Mutants: accents are not dropped; the ends are trimmed too early.       *)
SlugWithAccents(t) ==
    TrimOf(HyphenateRuns(ToLowerCase(TrimOf(t, {" "})), Letters), {"-"})

SlugTrimmedFirst(t) ==
    HyphenateRuns(TrimOf(ToLowerCase(TrimOf(StripDiacritics(t), {" "})), {"-"}), Letters)

(* The last replacement, of two hyphens or more by one, finds none left.   *)
Slug(t) ==
    TrimOf(HyphenateRuns(ToLowerCase(TrimOf(StripDiacritics(t), {" "})), Letters), {"-"})

---------------------------------------------------------------------------
(* Mutant: a slug is compared with the reserved texts as they are listed.  *)
IsReservedAsListed(slug) == slug \in Reserved

IsReserved(slug) == Slug(slug) \in {Slug(r) : r \in Reserved}

(* normalizeAgentSlug: what does not throw.                                *)
Accepted(t) ==
    /\ TrimOf(t, {" "}) = t
    /\ Len(t) \in 1 .. SlugLength
    /\ Slug(t) # <<>>
    /\ ~IsReserved(Slug(t))
    /\ Slug(t) = t

(* What a query compares stored slugs with: a slug, or the text            *)
(* __invalid__, which is none.  A query's text is not empty: the schema    *)
(* refuses that, and without a text no slug is compared.                   *)
AgentSlugFilter(t) == IF Slug(t) = <<>> THEN <<"other", "a", "other">> ELSE Slug(t)

Finds(t) == AgentSlugFilter(t) = stored

---------------------------------------------------------------------------
SlugInit ==
    /\ stored \in {t \in UNION {[1 .. n -> Characters] : n \in 0 .. SlugLength} : Accepted(t)}
    /\ asked = <<>>

Type(c) ==
    /\ Len(asked) < TypedLength
    /\ asked' = Append(asked, c)
    /\ UNCHANGED stored

Clear == asked # <<>> /\ asked' = <<>> /\ UNCHANGED stored

SlugNext == Clear \/ \E c \in Characters : Type(c)

SlugSpec == SlugInit /\ [][SlugNext]_slugVars

---------------------------------------------------------------------------
(* Properties.                                                             *)

(* The words of a text, as they are read: its letters without accents and  *)
(* capitals, each with whether a word begins with it.  An accent of its own*)
(* belongs to the letter before it; any other character ends a word.       *)
LetterOf(c) == IF c \in {"A", "a with accent"} THEN "a" ELSE c

Reading(t) ==
    LET read[n \in 0 .. Len(t)] ==
            IF n = 0 THEN [letters |-> <<>>, inWord |-> FALSE]
            ELSE IF t[n] = "accent" THEN read[n - 1]
            ELSE IF LetterOf(t[n]) \notin Letters
                 THEN [letters |-> read[n - 1].letters, inWord |-> FALSE]
            ELSE [letters |-> Append(read[n - 1].letters,
                                     [letter |-> LetterOf(t[n]), first |-> ~read[n - 1].inWord]),
                  inWord  |-> TRUE]
    IN read[Len(t)]

Words(t) == Reading(t).letters

(* A query without a slug in it finds nothing, and any other finds the     *)
(* registration whose slug has the same words, however it is spelled.      *)
FoundByItsWords ==
    asked # <<>> => (Finds(asked) <=> Words(asked) = Words(stored))

(* What is made of a text is a slug that may be stored, unless it is empty,*)
(* too long or reserved: what a query returns can be asked for again.      *)
SlugsAreCanonical ==
    LET s == Slug(asked) IN
    s # <<>> /\ Len(s) <= SlugLength /\ ~IsReserved(s) => Accepted(s)

(* No registration is found by a reserved name, however it is spelled.     *)
ReservedNamesAreFree ==
    \A r \in Reserved : Words(asked) = Words(r) => ~Finds(asked)
=============================================================================
