-------------------------- MODULE InboxSlugProofs --------------------------
(***************************************************************************)
(* Proofs about InboxSlug, for texts, slugs and reserved names of any      *)
(* length: a slug is what is left of a text when only its words count.     *)
(***************************************************************************)
EXTENDS InboxSlug, SequenceTheorems, WellFoundedInduction, TLAPS

---------------------------------------------------------------------------
(* Induction, stated for sets: the provers cannot use the library's.       *)

(* A set of natural numbers that is not empty has a least one.             *)
LEMMA LeastNatural ==
  ASSUME NEW T \in SUBSET Nat, T # {}
  PROVE  \E x \in T : \A y \in T : x <= y
<1> DEFINE R == {p \in Nat \X Nat : p[1] < p[2]}
<1>1. IsWellFoundedOn(R, Nat)
  BY NatLessThanWellFounded, Zenon DEF OpToRel
<1>2. PICK x \in T : \A y \in T : ~(<<y, x>> \in R)
  <2> HIDE DEF R
  <2> QED BY <1>1, WFMin
<1>3. ASSUME NEW y \in T PROVE x <= y
  <2>1. <<y, x>> \in Nat \X Nat /\ ~(<<y, x>> \in R)
    BY <1>2
  <2>2. ~(y < x)
    BY <2>1
  <2> QED BY <2>1, <2>2
<1> QED BY <1>3

(* Induction on an interval, of a property given as a set.                 *)
LEMMA IntervalInduction ==
  ASSUME NEW N \in Nat, NEW P, 0 \in P,
         \A n \in 0 .. N - 1 : n \in P => n + 1 \in P
  PROVE  0 .. N \subseteq P
<1> DEFINE bad == {n \in 0 .. N : n \notin P}
<1> SUFFICES ASSUME bad # {} PROVE FALSE
  OBVIOUS
<1>1. PICK x \in bad : \A y \in bad : x <= y
  <2>1. bad \in SUBSET Nat
    OBVIOUS
  <2> HIDE DEF bad
  <2> QED BY <2>1, LeastNatural
<1>2. x \in 1 .. N
  BY <1>1
<1>3. x - 1 \in P
  BY <1>1, <1>2
<1> QED BY <1>1, <1>2, <1>3

(* Induction on a text, of a property given as the set of what has it.     *)
LEMMA SequenceInduction ==
  ASSUME NEW C, NEW P, <<>> \in P,
         \A t \in Seq(C), c \in C : t \in P => Append(t, c) \in P
  PROVE  Seq(C) \subseteq P
<1> SUFFICES ASSUME NEW u \in Seq(C) PROVE u \in P
  OBVIOUS
<1> DEFINE good == {n \in 0 .. Len(u) : SubSeq(u, 1, n) \in P}
<1>0. Len(u) \in Nat
  BY LenProperties
<1>1. 0 \in good
  <2>1. SubSeq(u, 1, 0) = <<>>
    BY SubSeqEmpty
  <2>2. SubSeq(u, 1, 0) \in P
    BY <2>1, Zenon
  <2>3. 0 \in 0 .. Len(u)
    BY <1>0
  <2> QED BY <2>2, <2>3
<1>2. ASSUME NEW n \in 0 .. Len(u) - 1, n \in good PROVE n + 1 \in good
  <2>1. SubSeq(u, 1, n) \in Seq(C) /\ u[n + 1] \in C
    BY <1>0, SubSeqProperties, ElementOfSeq
  <2>2. SubSeq(u, 1, n + 1) = SubSeq(u, 1, n) \o <<u[n + 1]>>
    BY <1>0, SubSeqRecursiveSecond
  <2>3. SubSeq(u, 1, n + 1) = Append(SubSeq(u, 1, n), u[n + 1])
    BY <2>1, <2>2, AppendIsConcat
  <2>4. SubSeq(u, 1, n) \in P
    BY <1>2
  <2>5. SubSeq(u, 1, n + 1) \in P
    BY <2>1, <2>3, <2>4
  <2> QED BY <2>5, <1>0
<1>3. 0 .. Len(u) \subseteq good
  <2> HIDE DEF good
  <2> QED BY <1>0, <1>1, <1>2, IntervalInduction
<1>4. SubSeq(u, 1, Len(u)) \in P
  BY <1>0, <1>3
<1> QED BY <1>4, SubSeqFull

(* What is computed from one position to the next exists ...               *)
IsRun(f, N, S, b, G) ==
    /\ f \in [0 .. N -> S]
    /\ f[0] = b
    /\ \A n \in 1 .. N : f[n] = G[<<n, f[n - 1]>>]

LEMMA RunExists ==
  ASSUME NEW N \in Nat, NEW S, NEW b \in S, NEW G \in [(1 .. N) \X S -> S]
  PROVE  \E f : IsRun(f, N, S, b, G)
<1> DEFINE Run(m) == {f \in [0 .. m -> S] : f[0] = b /\ \A n \in 1 .. m : f[n] = G[<<n, f[n - 1]>>]}
           good == {m \in 0 .. N : Run(m) # {}}
<1>1. 0 \in good
  <2>1. [n \in 0 .. 0 |-> b] \in Run(0)
    OBVIOUS
  <2> QED BY <2>1
<1>2. ASSUME NEW m \in 0 .. N - 1, m \in good PROVE m + 1 \in good
  <2>1. PICK f \in [0 .. m -> S] : f[0] = b /\ \A n \in 1 .. m : f[n] = G[<<n, f[n - 1]>>]
    BY <1>2
  <2> DEFINE g == [n \in 0 .. m + 1 |-> IF n = m + 1 THEN G[<<m + 1, f[m]>>] ELSE f[n]]
  <2>2. G[<<m + 1, f[m]>>] \in S
    BY <2>1
  <2>3. g \in [0 .. m + 1 -> S]
    BY <2>1, <2>2
  <2>4. g[0] = b
    BY <2>1
  <2>5. ASSUME NEW n \in 1 .. m + 1 PROVE g[n] = G[<<n, g[n - 1]>>]
    <3>1. CASE n = m + 1
      BY <3>1
    <3>2. CASE n # m + 1
      BY <3>2, <2>1
    <3> QED BY <3>1, <3>2
  <2>6. g \in Run(m + 1)
    BY <2>3, <2>4, <2>5
  <2>7. m + 1 \in 0 .. N /\ Run(m + 1) # {}
    <3> HIDE DEF g, Run
    <3> QED BY <2>6
  <2> QED BY <2>7
<1>3. 0 .. N \subseteq good
  <2> HIDE DEF good
  <2> QED BY <1>1, <1>2, IntervalInduction
<1>4. Run(N) # {}
  BY <1>3
<1> QED BY <1>4 DEF IsRun

(* ... and is what the same steps give from the same start.                *)
LEMMA RunUnique ==
  ASSUME NEW N \in Nat, NEW f, NEW g, f[0] = g[0],
         \A n \in 1 .. N : f[n - 1] = g[n - 1] => f[n] = g[n]
  PROVE  \A n \in 0 .. N : f[n] = g[n]
<1> DEFINE good == {n \in 0 .. N : f[n] = g[n]}
<1>1. 0 \in good
  OBVIOUS
<1>2. \A n \in 0 .. N - 1 : n \in good => n + 1 \in good
  <2> SUFFICES ASSUME NEW n \in 0 .. N - 1, f[n] = g[n] PROVE f[n + 1] = g[n + 1]
    OBVIOUS
  <2>1. n + 1 \in 1 .. N /\ (n + 1) - 1 = n
    OBVIOUS
  <2> QED BY <2>1
<1>3. 0 .. N \subseteq good
  <2> HIDE DEF good
  <2> QED BY <1>1, <1>2, IntervalInduction
<1> QED BY <1>3

---------------------------------------------------------------------------
(* The three replacements that go through a text, one character at a time. *)

Plain == Characters \ {"accent", "a with accent"}

SlugCharacters == Letters \cup {"-"}

(* Each of them as what it makes of one character more: of a text, of a    *)
(* slug (where it is the character before that decides) and of the words.  *)
Decomposed(c) == IF c = "a with accent" THEN "a" ELSE c

Stripped(s, c) == IF c = "accent" THEN s ELSE Append(s, Decomposed(c))

Read == [letters : Seq([letter : Letters, first : BOOLEAN]), inWord : BOOLEAN]

Unread == [letters |-> <<>>, inWord |-> FALSE]

ReadOn(r, c) ==
    IF c = "accent" THEN r
    ELSE IF LetterOf(c) \notin Letters THEN [letters |-> r.letters, inWord |-> FALSE]
    ELSE [letters |-> Append(r.letters, [letter |-> LetterOf(c), first |-> ~r.inWord]),
          inWord  |-> TRUE]

LEMMA ReadOnType ==
  ASSUME NEW r \in Read, NEW c
  PROVE  ReadOn(r, c) \in Read
<1>1. CASE c = "accent"
  BY <1>1 DEF ReadOn
<1>2. CASE c # "accent" /\ LetterOf(c) \notin Letters
  BY <1>2 DEF ReadOn, Read
<1>3. CASE c # "accent" /\ LetterOf(c) \in Letters
  <2> DEFINE e == [letter |-> LetterOf(c), first |-> ~r.inWord]
             E == [letter : Letters, first : BOOLEAN]
  <2>1. e \in E /\ r.letters \in Seq(E)
    BY <1>3 DEF Read
  <2>2. ReadOn(r, c) = [letters |-> Append(r.letters, e), inWord |-> TRUE]
    BY <1>3 DEF ReadOn
  <2>3. Append(r.letters, e) \in Seq(E)
    <3> HIDE DEF e, E
    <3> QED BY <2>1, AppendProperties
  <2> HIDE DEF e
  <2> QED BY <2>2, <2>3 DEF Read
<1> QED BY <1>1, <1>2, <1>3

LEMMA StripRun ==
  ASSUME NEW t \in Seq(Characters)
  PROVE  \E f \in [0 .. Len(t) -> Seq(Plain)] :
            /\ f[0] = <<>>
            /\ \A n \in 1 .. Len(t) : f[n] = Stripped(f[n - 1], t[n])
            /\ StripDiacritics(t) = f[Len(t)]
<1> DEFINE N == Len(t)
           S == Seq(Plain)
           step(n, s) == IF t[n] = "accent" THEN s ELSE Append(s, Decomposed(t[n]))
           G == [p \in (1 .. N) \X S |-> step(p[1], p[2])]
           body(f, n) == IF n = 0 THEN <<>>
                         ELSE IF t[n] = "accent" THEN f[n - 1]
                         ELSE Append(f[n - 1], IF t[n] = "a with accent" THEN "a" ELSE t[n])
           Is(f) == f = [n \in 0 .. N |-> body(f, n)]
<1>0. N \in Nat
  BY LenProperties
<1>1. ASSUME NEW n \in 1 .. N, NEW s \in S PROVE step(n, s) \in S
  <2>1. t[n] \in Characters
    BY ElementOfSeq
  <2>2. t[n] # "accent" => Decomposed(t[n]) \in Plain
    BY <2>1 DEF Decomposed, Plain, Characters, Letters
  <2> QED BY <2>2, AppendProperties
<1>2. G \in [(1 .. N) \X S -> S]
  <2> HIDE DEF step, S, N
  <2> QED BY <1>1
<1>3. <<>> \in S
  BY EmptySeq
<1> PICK f : IsRun(f, N, S, <<>>, G)
  <2> HIDE DEF G, S, N
  <2> QED BY <1>0, <1>2, <1>3, RunExists
<1>4. f \in [0 .. N -> S] /\ f[0] = <<>> /\ \A n \in 1 .. N : f[n] = G[<<n, f[n - 1]>>]
  <2> HIDE DEF G, S, N
  <2> QED BY DEF IsRun
<1>5. ASSUME NEW n \in 1 .. N PROVE f[n] = step(n, f[n - 1])
  <2>1. n - 1 \in 0 .. N /\ f \in [0 .. N -> S]
    BY <1>0, <1>4
  <2>2. f[n - 1] \in S
    <3> HIDE DEF S, N
    <3> QED BY <2>1
  <2>3. G[<<n, f[n - 1]>>] = step(n, f[n - 1])
    <3> HIDE DEF step, S, N
    <3> QED BY <2>2
  <2> QED BY <2>3, <1>4
<1>6. ASSUME NEW h, NEW n \in 1 .. N PROVE body(h, n) = step(n, h[n - 1])
  <2>1. n # 0
    BY <1>0
  <2> QED BY <2>1, Zenon DEF Decomposed
<1>7. Is(f)
  <2> HIDE DEF body, step, S, N, G
  <2>1. ASSUME NEW n \in 0 .. N PROVE f[n] = body(f, n)
    <3>1. CASE n = 0
      <4>1. body(f, 0) = <<>>
        BY DEF body
      <4> QED BY <3>1, <4>1, <1>4
    <3>2. CASE n \in 1 .. N
      BY <3>2, <1>5, <1>6
    <3> QED BY <1>0, <3>1, <3>2
  <2> QED BY <2>1, <1>4
<1> DEFINE g == CHOOSE h : Is(h)
<1>8. Is(g)
  <2> HIDE DEF Is
  <2> QED BY <1>7
<1>9. StripDiacritics(t) = g[N]
  BY DEF StripDiacritics
<1>10. \A n \in 0 .. N : g[n] = f[n]
  <2> HIDE DEF g, body, step, S, N, G
  <2>1. \A n \in 0 .. N : g[n] = body(g, n)
    BY <1>8
  <2>2. g[0] = f[0]
    <3>1. body(g, 0) = <<>>
      BY DEF body
    <3> QED BY <1>0, <2>1, <3>1, <1>4
  <2>3. ASSUME NEW n \in 1 .. N, g[n - 1] = f[n - 1] PROVE g[n] = f[n]
    BY <1>0, <2>1, <2>3, <1>5, <1>6
  <2> QED BY <1>0, <2>2, <2>3, RunUnique
<1>11. StripDiacritics(t) = f[N]
  <2> HIDE DEF g, N
  <2> QED BY <1>0, <1>9, <1>10
<1>12. \A n \in 1 .. Len(t) : f[n] = Stripped(f[n - 1], t[n])
  BY <1>5, Zenon DEF Stripped
<1> QED BY <1>0, <1>4, <1>12, <1>11

LEMMA HyphenateRun ==
  ASSUME NEW t \in Seq(Characters)
  PROVE  \E f \in [0 .. Len(t) -> Seq(SlugCharacters)] :
            /\ f[0] = <<>>
            /\ \A n \in 1 .. Len(t) : 
                  f[n] = IF t[n] \in Letters THEN Append(f[n - 1], t[n])
                         ELSE IF n > 1 /\ t[n - 1] \notin Letters THEN f[n - 1]
                         ELSE Append(f[n - 1], "-")
            /\ HyphenateRuns(t, Letters) = f[Len(t)]
<1> DEFINE N == Len(t)
           S == Seq(SlugCharacters)
           step(n, s) == IF t[n] \in Letters THEN Append(s, t[n])
                         ELSE IF n > 1 /\ t[n - 1] \notin Letters THEN s
                         ELSE Append(s, "-")
           G == [p \in (1 .. N) \X S |-> step(p[1], p[2])]
           body(f, n) == IF n = 0 THEN <<>>
                         ELSE IF t[n] \in Letters THEN Append(f[n - 1], t[n])
                         ELSE IF n > 1 /\ t[n - 1] \notin Letters THEN f[n - 1]
                         ELSE Append(f[n - 1], "-")
           Is(f) == f = [n \in 0 .. N |-> body(f, n)]
<1>0. N \in Nat
  BY LenProperties
<1>1. ASSUME NEW n \in 1 .. N, NEW s \in S PROVE step(n, s) \in S
  <2>1. Append(s, "-") \in S
    BY AppendProperties DEF SlugCharacters
  <2>2. t[n] \in Letters => Append(s, t[n]) \in S
    BY AppendProperties DEF SlugCharacters
  <2> QED BY <2>1, <2>2
<1>2. G \in [(1 .. N) \X S -> S]
  <2> HIDE DEF step, S, N
  <2> QED BY <1>1
<1>3. <<>> \in S
  BY EmptySeq
<1> PICK f : IsRun(f, N, S, <<>>, G)
  <2> HIDE DEF G, S, N
  <2> QED BY <1>0, <1>2, <1>3, RunExists
<1>4. f \in [0 .. N -> S] /\ f[0] = <<>> /\ \A n \in 1 .. N : f[n] = G[<<n, f[n - 1]>>]
  <2> HIDE DEF G, S, N
  <2> QED BY DEF IsRun
<1>5. ASSUME NEW n \in 1 .. N PROVE f[n] = step(n, f[n - 1])
  <2>1. n - 1 \in 0 .. N /\ f \in [0 .. N -> S]
    BY <1>0, <1>4
  <2>2. f[n - 1] \in S
    <3> HIDE DEF S, N
    <3> QED BY <2>1
  <2>3. G[<<n, f[n - 1]>>] = step(n, f[n - 1])
    <3> HIDE DEF step, S, N
    <3> QED BY <2>2
  <2> QED BY <2>3, <1>4
<1>6. ASSUME NEW h, NEW n \in 1 .. N PROVE body(h, n) = step(n, h[n - 1])
  <2>1. n # 0
    BY <1>0
  <2> QED BY <2>1, Zenon
<1>7. Is(f)
  <2> HIDE DEF body, step, S, N, G
  <2>1. ASSUME NEW n \in 0 .. N PROVE f[n] = body(f, n)
    <3>1. CASE n = 0
      <4>1. body(f, 0) = <<>>
        BY DEF body
      <4> QED BY <3>1, <4>1, <1>4
    <3>2. CASE n \in 1 .. N
      BY <3>2, <1>5, <1>6
    <3> QED BY <1>0, <3>1, <3>2
  <2> QED BY <2>1, <1>4
<1> DEFINE g == CHOOSE h : Is(h)
<1>8. Is(g)
  <2> HIDE DEF Is
  <2> QED BY <1>7
<1>9. HyphenateRuns(t, Letters) = g[N]
  BY DEF HyphenateRuns
<1>10. \A n \in 0 .. N : g[n] = f[n]
  <2> HIDE DEF g, body, step, S, N, G
  <2>1. \A n \in 0 .. N : g[n] = body(g, n)
    BY <1>8
  <2>2. g[0] = f[0]
    <3>1. body(g, 0) = <<>>
      BY DEF body
    <3> QED BY <1>0, <2>1, <3>1, <1>4
  <2>3. ASSUME NEW n \in 1 .. N, g[n - 1] = f[n - 1] PROVE g[n] = f[n]
    BY <1>0, <2>1, <2>3, <1>5, <1>6
  <2> QED BY <1>0, <2>2, <2>3, RunUnique
<1>11. HyphenateRuns(t, Letters) = f[N]
  <2> HIDE DEF g, N
  <2> QED BY <1>0, <1>9, <1>10
<1>12. \A n \in 1 .. Len(t) : 
                  f[n] = IF t[n] \in Letters THEN Append(f[n - 1], t[n])
                         ELSE IF n > 1 /\ t[n - 1] \notin Letters THEN f[n - 1]
                         ELSE Append(f[n - 1], "-")
  BY <1>5
<1> QED BY <1>0, <1>4, <1>12, <1>11

LEMMA ReadingRun ==
  ASSUME NEW t \in Seq(Characters)
  PROVE  \E f \in [0 .. Len(t) -> Read] :
            /\ f[0] = Unread
            /\ \A n \in 1 .. Len(t) : f[n] = ReadOn(f[n - 1], t[n])
            /\ Reading(t) = f[Len(t)]
<1> DEFINE N == Len(t)
           S == Read
           step(n, s) == ReadOn(s, t[n])
           G == [p \in (1 .. N) \X S |-> step(p[1], p[2])]
           body(f, n) == IF n = 0 THEN Unread
                         ELSE IF t[n] = "accent" THEN f[n - 1]
                         ELSE IF LetterOf(t[n]) \notin Letters
                              THEN [letters |-> f[n - 1].letters, inWord |-> FALSE]
                         ELSE [letters |-> Append(f[n - 1].letters,
                                                  [letter |-> LetterOf(t[n]), first |-> ~f[n - 1].inWord]),
                               inWord  |-> TRUE]
           Is(f) == f = [n \in 0 .. N |-> body(f, n)]
<1>0. N \in Nat
  BY LenProperties
<1>1. ASSUME NEW n \in 1 .. N, NEW s \in S PROVE step(n, s) \in S
  BY ReadOnType
<1>2. G \in [(1 .. N) \X S -> S]
  <2> HIDE DEF step, S, N
  <2> QED BY <1>1
<1>3. Unread \in S
  BY EmptySeq DEF Read, Unread
<1> PICK f : IsRun(f, N, S, Unread, G)
  <2> HIDE DEF G, S, N
  <2> QED BY <1>0, <1>2, <1>3, RunExists
<1>4. f \in [0 .. N -> S] /\ f[0] = Unread /\ \A n \in 1 .. N : f[n] = G[<<n, f[n - 1]>>]
  <2> HIDE DEF G, S, N
  <2> QED BY DEF IsRun
<1>5. ASSUME NEW n \in 1 .. N PROVE f[n] = step(n, f[n - 1])
  <2>1. n - 1 \in 0 .. N /\ f \in [0 .. N -> S]
    BY <1>0, <1>4
  <2>2. f[n - 1] \in S
    <3> HIDE DEF S, N
    <3> QED BY <2>1
  <2>3. G[<<n, f[n - 1]>>] = step(n, f[n - 1])
    <3> HIDE DEF step, S, N
    <3> QED BY <2>2
  <2> QED BY <2>3, <1>4
<1>6. ASSUME NEW h, NEW n \in 1 .. N PROVE body(h, n) = step(n, h[n - 1])
  <2>1. n # 0
    BY <1>0
  <2> QED BY <2>1, Zenon DEF ReadOn
<1>7. Is(f)
  <2> HIDE DEF body, step, S, N, G
  <2>1. ASSUME NEW n \in 0 .. N PROVE f[n] = body(f, n)
    <3>1. CASE n = 0
      <4>1. body(f, 0) = Unread
        BY DEF body
      <4> QED BY <3>1, <4>1, <1>4
    <3>2. CASE n \in 1 .. N
      BY <3>2, <1>5, <1>6
    <3> QED BY <1>0, <3>1, <3>2
  <2> QED BY <2>1, <1>4
<1> DEFINE g == CHOOSE h : Is(h)
<1>8. Is(g)
  <2> HIDE DEF Is
  <2> QED BY <1>7
<1>9. Reading(t) = g[N]
  BY DEF Reading, Unread
<1>10. \A n \in 0 .. N : g[n] = f[n]
  <2> HIDE DEF g, body, step, S, N, G
  <2>1. \A n \in 0 .. N : g[n] = body(g, n)
    BY <1>8
  <2>2. g[0] = f[0]
    <3>1. body(g, 0) = Unread
      BY DEF body
    <3> QED BY <1>0, <2>1, <3>1, <1>4
  <2>3. ASSUME NEW n \in 1 .. N, g[n - 1] = f[n - 1] PROVE g[n] = f[n]
    BY <1>0, <2>1, <2>3, <1>5, <1>6
  <2> QED BY <1>0, <2>2, <2>3, RunUnique
<1>11. Reading(t) = f[N]
  <2> HIDE DEF g, N
  <2> QED BY <1>0, <1>9, <1>10
<1>12. \A n \in 1 .. Len(t) : f[n] = ReadOn(f[n - 1], t[n])
  BY <1>5
<1> QED BY <1>0, <1>4, <1>12, <1>11

---------------------------------------------------------------------------
LEMMA StripType ==
  ASSUME NEW t \in Seq(Characters)
  PROVE  StripDiacritics(t) \in Seq(Plain)
<1>1. PICK f \in [0 .. Len(t) -> Seq(Plain)] : StripDiacritics(t) = f[Len(t)]
  BY StripRun
<1> QED BY <1>1, LenProperties

LEMMA StripEmpty == StripDiacritics(<<>>) = <<>>
<1>1. <<>> \in Seq(Characters) /\ Len(<<>>) = 0
  BY EmptySeq
<1> QED BY <1>1, StripRun

LEMMA StripAppend ==
  ASSUME NEW t \in Seq(Characters), NEW c \in Characters
  PROVE  StripDiacritics(Append(t, c)) = Stripped(StripDiacritics(t), c)
<1> DEFINE u == Append(t, c)
           N == Len(t)
<1>0. N \in Nat /\ u \in Seq(Characters) /\ Len(u) = N + 1 /\ u[N + 1] = c
      /\ \A n \in 1 .. N : u[n] = t[n]
  BY LenProperties, AppendProperties
<1> HIDE DEF u, N
<1>1. PICK f : /\ f[0] = <<>>
               /\ \A n \in 1 .. N : f[n] = Stripped(f[n - 1], t[n])
               /\ StripDiacritics(t) = f[N]
  BY StripRun DEF N
<1>2. PICK g : /\ g[0] = <<>>
               /\ \A n \in 1 .. Len(u) : g[n] = Stripped(g[n - 1], u[n])
               /\ StripDiacritics(u) = g[Len(u)]
  BY <1>0, StripRun
<1>3. \A n \in 1 .. N : f[n - 1] = g[n - 1] => f[n] = g[n]
  BY <1>0, <1>1, <1>2
<1>4. f[N] = g[N]
  <2>1. N \in Nat /\ f[0] = g[0]
    BY <1>0, <1>1, <1>2
  <2>2. \A n \in 0 .. N : f[n] = g[n]
    BY <2>1, <1>3, RunUnique
  <2> QED BY <2>1, <2>2
<1> QED BY <1>0, <1>1, <1>2, <1>4 DEF u, N

LEMMA HyphenateType ==
  ASSUME NEW t \in Seq(Characters)
  PROVE  HyphenateRuns(t, Letters) \in Seq(SlugCharacters)
<1>1. PICK f \in [0 .. Len(t) -> Seq(SlugCharacters)] : HyphenateRuns(t, Letters) = f[Len(t)]
  BY HyphenateRun
<1> QED BY <1>1, LenProperties

LEMMA HyphenateEmpty == HyphenateRuns(<<>>, Letters) = <<>>
<1>1. <<>> \in Seq(Characters) /\ Len(<<>>) = 0
  BY EmptySeq
<1> QED BY <1>1, HyphenateRun

LEMMA HyphenateAppend ==
  ASSUME NEW t \in Seq(Characters), NEW c \in Characters
  PROVE  HyphenateRuns(Append(t, c), Letters) = 
            IF c \in Letters THEN Append(HyphenateRuns(t, Letters), c)
            ELSE IF t # <<>> /\ t[Len(t)] \notin Letters THEN HyphenateRuns(t, Letters)
            ELSE Append(HyphenateRuns(t, Letters), "-")
<1> DEFINE u == Append(t, c)
           N == Len(t)
<1>0. N \in Nat /\ u \in Seq(Characters) /\ Len(u) = N + 1 /\ u[N + 1] = c
      /\ \A n \in 1 .. N : u[n] = t[n]
  BY LenProperties, AppendProperties
<1> HIDE DEF u, N
<1>1. PICK f : /\ f[0] = <<>>
               /\ \A n \in 1 .. N : 
                     f[n] = IF t[n] \in Letters THEN Append(f[n - 1], t[n])
                            ELSE IF n > 1 /\ t[n - 1] \notin Letters THEN f[n - 1]
                            ELSE Append(f[n - 1], "-")
               /\ HyphenateRuns(t, Letters) = f[N]
  BY HyphenateRun DEF N
<1>2. PICK g : /\ g[0] = <<>>
               /\ \A n \in 1 .. Len(u) : 
                     g[n] = IF u[n] \in Letters THEN Append(g[n - 1], u[n])
                            ELSE IF n > 1 /\ u[n - 1] \notin Letters THEN g[n - 1]
                            ELSE Append(g[n - 1], "-")
               /\ HyphenateRuns(u, Letters) = g[Len(u)]
  BY <1>0, HyphenateRun
<1>3. \A n \in 1 .. N : f[n - 1] = g[n - 1] => f[n] = g[n]
  BY <1>0, <1>1, <1>2
<1>4. f[N] = g[N]
  <2>1. N \in Nat /\ f[0] = g[0]
    BY <1>0, <1>1, <1>2
  <2>2. \A n \in 0 .. N : f[n] = g[n]
    BY <2>1, <1>3, RunUnique
  <2> QED BY <2>1, <2>2
<1> QED BY <1>0, <1>1, <1>2, <1>4 DEF u, N

LEMMA ReadingType ==
  ASSUME NEW t \in Seq(Characters)
  PROVE  Reading(t) \in Read
<1>1. PICK f \in [0 .. Len(t) -> Read] : Reading(t) = f[Len(t)]
  BY ReadingRun
<1> QED BY <1>1, LenProperties

LEMMA ReadingEmpty == Reading(<<>>) = Unread
<1>1. <<>> \in Seq(Characters) /\ Len(<<>>) = 0
  BY EmptySeq
<1> QED BY <1>1, ReadingRun

LEMMA ReadingAppend ==
  ASSUME NEW t \in Seq(Characters), NEW c \in Characters
  PROVE  Reading(Append(t, c)) = ReadOn(Reading(t), c)
<1> DEFINE u == Append(t, c)
           N == Len(t)
<1>0. N \in Nat /\ u \in Seq(Characters) /\ Len(u) = N + 1 /\ u[N + 1] = c
      /\ \A n \in 1 .. N : u[n] = t[n]
  BY LenProperties, AppendProperties
<1> HIDE DEF u, N
<1>1. PICK f : /\ f[0] = Unread
               /\ \A n \in 1 .. N : f[n] = ReadOn(f[n - 1], t[n])
               /\ Reading(t) = f[N]
  BY ReadingRun DEF N
<1>2. PICK g : /\ g[0] = Unread
               /\ \A n \in 1 .. Len(u) : g[n] = ReadOn(g[n - 1], u[n])
               /\ Reading(u) = g[Len(u)]
  BY <1>0, ReadingRun
<1>3. \A n \in 1 .. N : f[n - 1] = g[n - 1] => f[n] = g[n]
  BY <1>0, <1>1, <1>2
<1>4. f[N] = g[N]
  <2>1. N \in Nat /\ f[0] = g[0]
    BY <1>0, <1>1, <1>2
  <2>2. \A n \in 0 .. N : f[n] = g[n]
    BY <2>1, <1>3, RunUnique
  <2> QED BY <2>1, <2>2
<1> QED BY <1>0, <1>1, <1>2, <1>4 DEF u, N

---------------------------------------------------------------------------
(* Each replacement leaves the words as they are.                          *)

Separators == {" ", "-", "other"}
LowerCase  == Letters \cup Separators

LEMMA TextsOfFewer ==
  /\ Seq(Plain) \subseteq Seq(Characters)
  /\ Seq(LowerCase) \subseteq Seq(Characters)
  /\ Seq(SlugCharacters) \subseteq Seq(LowerCase)
<1>1. Plain \subseteq Characters /\ LowerCase \subseteq Characters /\ SlugCharacters \subseteq LowerCase
  BY DEF Plain, LowerCase, Separators, SlugCharacters, Characters, Letters
<1> QED BY <1>1, SeqMonotonic

(* A separator ends a word; twice is once.                                 *)
LEMMA ReadSeparator ==
  ASSUME NEW r \in Read, NEW c \in Separators
  PROVE  /\ ReadOn(r, c) = [letters |-> r.letters, inWord |-> FALSE]
         /\ ~r.inWord => ReadOn(r, c) = r
<1>1. c # "accent" /\ LetterOf(c) \notin Letters
  BY DEF Separators, LetterOf, Letters
<1>2. ReadOn(r, c) = [letters |-> r.letters, inWord |-> FALSE]
  BY <1>1 DEF ReadOn
<1>3. ASSUME ~r.inWord PROVE r = [letters |-> r.letters, inWord |-> FALSE]
  BY <1>3 DEF Read
<1> QED BY <1>2, <1>3

LEMMA ReadLetter ==
  ASSUME NEW r \in Read, NEW c \in Letters
  PROVE  /\ [letter |-> c, first |-> ~r.inWord] \in [letter : Letters, first : BOOLEAN]
         /\ ReadOn(r, c) = [letters |-> Append(r.letters, [letter |-> c, first |-> ~r.inWord]),
                            inWord  |-> TRUE]
<1>1. c # "accent" /\ LetterOf(c) = c
  BY DEF LetterOf, Letters
<1> QED BY <1>1 DEF ReadOn

LEMMA StripKeepsWords ==
  ASSUME NEW t \in Seq(Characters)
  PROVE  Reading(StripDiacritics(t)) = Reading(t)
<1> DEFINE P == {u \in Seq(Characters) : Reading(StripDiacritics(u)) = Reading(u)}
<1>1. <<>> \in P
  BY StripEmpty, EmptySeq
<1>2. ASSUME NEW u \in Seq(Characters), NEW c \in Characters, u \in P PROVE Append(u, c) \in P
  <2>1. Append(u, c) \in Seq(Characters) /\ Reading(Append(u, c)) = ReadOn(Reading(u), c)
    BY AppendProperties, ReadingAppend
  <2>2. StripDiacritics(Append(u, c)) = Stripped(StripDiacritics(u), c)
    BY StripAppend
  <2>3. StripDiacritics(u) \in Seq(Characters) /\ Reading(StripDiacritics(u)) = Reading(u)
    BY <1>2, StripType, TextsOfFewer
  <2>4. CASE c = "accent"
    <3>1. StripDiacritics(Append(u, c)) = StripDiacritics(u)
      BY <2>2, <2>4 DEF Stripped
    <3>2. Reading(Append(u, c)) = Reading(u)
      BY <2>1, <2>4 DEF ReadOn
    <3> QED BY <2>1, <2>3, <3>1, <3>2
  <2>5. CASE c # "accent"
    <3>1. Decomposed(c) \in Characters /\ Decomposed(c) # "accent" /\ LetterOf(Decomposed(c)) = LetterOf(c)
      BY <2>5 DEF Decomposed, Characters, Letters, LetterOf
    <3>2. StripDiacritics(Append(u, c)) = Append(StripDiacritics(u), Decomposed(c))
      BY <2>2, <2>5 DEF Stripped
    <3>3. Reading(StripDiacritics(Append(u, c))) = ReadOn(Reading(u), Decomposed(c))
      BY <2>3, <3>1, <3>2, ReadingAppend
    <3>4. ReadOn(Reading(u), Decomposed(c)) = ReadOn(Reading(u), c)
      BY <2>5, <3>1, Zenon DEF ReadOn
    <3> QED BY <2>1, <3>3, <3>4
  <2> QED BY <2>4, <2>5
<1>3. Seq(Characters) \subseteq P
  <2> HIDE DEF P
  <2> QED BY <1>1, <1>2, SequenceInduction
<1> QED BY <1>3

LEMMA LowerCaseType ==
  ASSUME NEW t \in Seq(Plain)
  PROVE  /\ ToLowerCase(t) \in Seq(LowerCase)
         /\ Len(ToLowerCase(t)) = Len(t)
         /\ \A n \in 1 .. Len(t) : ToLowerCase(t)[n] = IF t[n] = "A" THEN "a" ELSE t[n]
<1> DEFINE u == ToLowerCase(t)
<1>1. Len(t) \in Nat /\ DOMAIN t = 1 .. Len(t)
  BY LenProperties
<1>2. ASSUME NEW n \in 1 .. Len(t) PROVE (IF t[n] = "A" THEN "a" ELSE t[n]) \in LowerCase
  <2>1. t[n] \in Plain
    BY ElementOfSeq
  <2> QED BY <2>1 DEF Plain, LowerCase, Separators, Characters, Letters
<1>3. u = [n \in 1 .. Len(t) |-> IF t[n] = "A" THEN "a" ELSE t[n]]
  BY <1>1 DEF ToLowerCase
<1>4. u \in [1 .. Len(t) -> LowerCase]
  BY <1>2, <1>3
<1>5. u \in Seq(LowerCase)
  BY <1>1, <1>4, SeqDef
<1>6. Len(u) = Len(t)
  <2>1. DOMAIN u = 1 .. Len(t) /\ DOMAIN u = 1 .. Len(u) /\ Len(u) \in Nat
    BY <1>4, <1>5, LenProperties
  <2> QED BY <1>1, <2>1
<1> QED BY <1>3, <1>5, <1>6

LEMMA LowerCaseKeepsWords ==
  ASSUME NEW t \in Seq(Plain)
  PROVE  Reading(ToLowerCase(t)) = Reading(t)
<1> DEFINE N == Len(t)
           u == ToLowerCase(t)
<1>1. N \in Nat /\ t \in Seq(Characters) /\ u \in Seq(Characters) /\ Len(u) = N
  BY LowerCaseType, LenProperties, TextsOfFewer
<1>2. ASSUME NEW r, NEW n \in 1 .. N PROVE ReadOn(r, u[n]) = ReadOn(r, t[n])
  <2>1. t[n] \in Plain /\ u[n] = IF t[n] = "A" THEN "a" ELSE t[n]
    BY ElementOfSeq, LowerCaseType
  <2>2. u[n] # "accent" /\ t[n] # "accent" /\ LetterOf(u[n]) = LetterOf(t[n])
    BY <2>1 DEF Plain, Characters, Letters, LetterOf
  <2> QED BY <2>2, Zenon DEF ReadOn
<1> HIDE DEF u, N
<1>3. PICK f : /\ f[0] = Unread
               /\ \A n \in 1 .. N : f[n] = ReadOn(f[n - 1], t[n])
               /\ Reading(t) = f[N]
  BY <1>1, ReadingRun DEF N
<1>4. PICK g : /\ g[0] = Unread
               /\ \A n \in 1 .. Len(u) : g[n] = ReadOn(g[n - 1], u[n])
               /\ Reading(u) = g[Len(u)]
  BY <1>1, ReadingRun
<1>5. \A n \in 1 .. N : f[n - 1] = g[n - 1] => f[n] = g[n]
  BY <1>1, <1>2, <1>3, <1>4
<1>6. \A n \in 0 .. N : f[n] = g[n]
  <2>1. N \in Nat /\ f[0] = g[0]
    BY <1>1, <1>3, <1>4
  <2> QED BY <2>1, <1>5, RunUnique
<1> QED BY <1>1, <1>3, <1>4, <1>6 DEF u

LEMMA HyphenateKeepsWords ==
  ASSUME NEW t \in Seq(LowerCase)
  PROVE  Reading(HyphenateRuns(t, Letters)) = Reading(t)
<1> DEFINE H(u) == HyphenateRuns(u, Letters)
           P == {u \in Seq(LowerCase) : Reading(H(u)) = Reading(u)}
<1>1. <<>> \in P
  BY HyphenateEmpty, EmptySeq
<1>2. ASSUME NEW u \in Seq(LowerCase), NEW c \in LowerCase, u \in P PROVE Append(u, c) \in P
  <2>1. u \in Seq(Characters) /\ c \in Characters /\ Append(u, c) \in Seq(LowerCase)
    BY TextsOfFewer, AppendProperties DEF LowerCase, Separators, Characters, Letters
  <2>2. Reading(Append(u, c)) = ReadOn(Reading(u), c) /\ Reading(u) \in Read
    BY <2>1, ReadingAppend, ReadingType
  <2>3. H(u) \in Seq(Characters) /\ Reading(H(u)) = Reading(u)
    BY <1>2, <2>1, HyphenateType, TextsOfFewer
  <2>4. H(Append(u, c)) = IF c \in Letters THEN Append(H(u), c)
                          ELSE IF u # <<>> /\ u[Len(u)] \notin Letters THEN H(u)
                          ELSE Append(H(u), "-")
    BY <2>1, HyphenateAppend
  <2>5. \A d \in Characters : Reading(Append(H(u), d)) = ReadOn(Reading(u), d)
    BY <2>3, ReadingAppend
  <2> HIDE DEF H
  <2>6. CASE c \in Letters
    BY <2>1, <2>2, <2>4, <2>5, <2>6
  <2>7. CASE c \notin Letters /\ u # <<>> /\ u[Len(u)] \notin Letters
    <3>1. PICK v \in Seq(LowerCase), d \in LowerCase : u = Append(v, d)
      BY <2>7, SequenceEmptyOrAppend
    <3>2. Len(u) = Len(v) + 1 /\ u[Len(v) + 1] = d
      BY <3>1, AppendProperties
    <3>3. d \in Separators /\ c \in Separators /\ v \in Seq(Characters) /\ d \in Characters
      BY <2>7, <3>2, TextsOfFewer DEF LowerCase, Separators, Characters
    <3>4. ~Reading(u).inWord
      BY <3>1, <3>3, ReadingAppend, ReadingType, ReadSeparator
    <3>5. Reading(Append(u, c)) = Reading(u)
      BY <2>2, <3>3, <3>4, ReadSeparator
    <3> QED BY <2>1, <2>3, <2>4, <2>7, <3>5
  <2>8. CASE c \notin Letters /\ ~(u # <<>> /\ u[Len(u)] \notin Letters)
    <3>1. c \in Separators /\ "-" \in Separators /\ "-" \in Characters
      BY <2>8 DEF LowerCase, Separators, Characters
    <3>2. ReadOn(Reading(u), "-") = ReadOn(Reading(u), c)
      BY <2>2, <3>1, ReadSeparator
    <3> QED BY <2>1, <2>2, <2>4, <2>5, <2>8, <3>1, <3>2
  <2> QED BY <2>6, <2>7, <2>8
<1>3. Seq(LowerCase) \subseteq P
  <2> HIDE DEF P
  <2> QED BY <1>1, <1>2, SequenceInduction
<1> QED BY <1>3

---------------------------------------------------------------------------
(* Trimming: what is left, and that no word is lost at either end.         *)

LEMMA GreatestExists ==
  ASSUME NEW N \in Nat, NEW T \in SUBSET (1 .. N), T # {}
  PROVE  \E x \in T : \A y \in T : y <= x
<1> DEFINE U == {n \in 0 .. N : N - n \in T}
<1>1. U \in SUBSET Nat /\ U # {}
  <2>1. PICK x \in T : TRUE
    OBVIOUS
  <2>2. N - x \in 0 .. N /\ N - (N - x) = x
    OBVIOUS
  <2>3. N - x \in U
    BY <2>2, <2>1
  <2>4. U \in SUBSET Nat
    OBVIOUS
  <2> HIDE DEF U
  <2> QED BY <2>3, <2>4
<1>2. PICK n \in U : \A m \in U : n <= m
  <2> HIDE DEF U
  <2> QED BY <1>1, LeastNatural
<1>3. ASSUME NEW y \in T PROVE y <= N - n
  <2>1. N - y \in 0 .. N /\ N - (N - y) = y
    OBVIOUS
  <2>2. n <= N - y
    BY <2>1, <1>2
  <2> QED BY <2>2, <1>2
<1> QED BY <1>2, <1>3

LEMMA TrimShape ==
  ASSUME NEW C, NEW t \in Seq(C), NEW S
  PROVE  \/ TrimOf(t, S) = <<>> /\ \A i \in 1 .. Len(t) : t[i] \in S
         \/ \E a \in 1 .. Len(t), b \in 1 .. Len(t) :
               /\ a <= b
               /\ TrimOf(t, S) = SubSeq(t, a, b)
               /\ t[a] \notin S /\ t[b] \notin S
               /\ \A i \in 1 .. a - 1 : t[i] \in S
               /\ \A i \in b + 1 .. Len(t) : t[i] \in S
<1> DEFINE N == Len(t)
           kept == {i \in DOMAIN t : t[i] \notin S}
           a == CHOOSE i \in kept : \A j \in kept : i <= j
           b == CHOOSE i \in kept : \A j \in kept : j <= i
<1>0. N \in Nat /\ DOMAIN t = 1 .. N
  BY LenProperties
<1>1. TrimOf(t, S) = IF kept = {} THEN <<>> ELSE SubSeq(t, a, b)
  BY DEF TrimOf
<1>2. CASE kept = {}
  <2>1. \A i \in 1 .. N : t[i] \in S
    BY <1>0, <1>2
  <2> HIDE DEF kept, a, b
  <2> QED BY <1>1, <1>2, <2>1
<1>3. CASE kept # {}
  <2>1. kept \in SUBSET Nat /\ kept \in SUBSET (1 .. N)
    BY <1>0
  <2>2. \E i \in kept : \A j \in kept : i <= j
    <3> HIDE DEF kept
    <3> QED BY <1>3, <2>1, LeastNatural
  <2>3. \E i \in kept : \A j \in kept : j <= i
    <3> HIDE DEF kept, N
    <3> QED BY <1>0, <1>3, <2>1, GreatestExists
  <2>4. a \in kept /\ \A j \in kept : a <= j
    <3> HIDE DEF kept
    <3> QED BY <2>2
  <2>5. b \in kept /\ \A j \in kept : j <= b
    <3> HIDE DEF kept
    <3> QED BY <2>3
  <2> HIDE DEF a, b
  <2>6. a \in 1 .. N /\ b \in 1 .. N /\ a <= b /\ t[a] \notin S /\ t[b] \notin S
    BY <1>0, <2>4, <2>5
  <2>7. ASSUME NEW i \in 1 .. N, i < a \/ i > b PROVE t[i] \in S
    <3>1. i \notin kept
      <4> HIDE DEF kept
      <4> QED BY <2>4, <2>5, <2>6, <2>7
    <3> QED BY <3>1, <1>0
  <2>8. (\A i \in 1 .. a - 1 : t[i] \in S) /\ (\A i \in b + 1 .. N : t[i] \in S)
    BY <2>6, <2>7, <1>0
  <2>9. TrimOf(t, S) = SubSeq(t, a, b)
    BY <1>1, <1>3
  <2> HIDE DEF kept, N
  <2> QED BY <2>6, <2>8, <2>9 DEF N
<1> QED BY <1>2, <1>3

LEMMA TrimType ==
  ASSUME NEW C, NEW t \in Seq(C), NEW S
  PROVE  TrimOf(t, S) \in Seq(C)
<1>1. CASE TrimOf(t, S) = <<>>
  BY <1>1, EmptySeq
<1>2. ASSUME NEW a \in 1 .. Len(t), NEW b \in 1 .. Len(t) PROVE SubSeq(t, a, b) \in Seq(C)
  <2>1. Len(t) \in Nat /\ \A i \in a .. b : t[i] \in C
    BY LenProperties, ElementOfSeq
  <2> QED BY <2>1, SubSeqProperties
<1>3. CASE \E a \in 1 .. Len(t), b \in 1 .. Len(t) : TrimOf(t, S) = SubSeq(t, a, b)
  BY <1>2, <1>3
<1>4. TrimOf(t, S) = <<>> \/ \E a \in 1 .. Len(t), b \in 1 .. Len(t) : TrimOf(t, S) = SubSeq(t, a, b)
  BY TrimShape
<1> QED BY <1>1, <1>3, <1>4

LEMMA TrimKeepsWords ==
  ASSUME NEW t \in Seq(Characters), NEW S \in SUBSET Separators
  PROVE  Words(TrimOf(t, S)) = Words(t)
<1> DEFINE N == Len(t)
<1>0. N \in Nat /\ \A n \in 1 .. N : t[n] \in Characters
  BY LenProperties, ElementOfSeq
<1>1. PICK f \in [0 .. N -> Read] :
         /\ f[0] = Unread
         /\ \A n \in 1 .. N : f[n] = ReadOn(f[n - 1], t[n])
         /\ Reading(t) = f[N]
  BY ReadingRun
<1> HIDE DEF N
<1>2. Unread \in Read /\ ~Unread.inWord
  BY EmptySeq DEF Read, Unread
\* What is skipped at the start leaves nothing read.
<1>3. ASSUME NEW k \in 0 .. N, \A i \in 1 .. k : t[i] \in S
      PROVE  f[k] = Unread
  <2> DEFINE P == {n \in 0 .. k : f[n] = Unread}
  <2>1. 0 \in P
    BY <1>0, <1>1
  <2>2. ASSUME NEW n \in 0 .. k - 1, n \in P PROVE n + 1 \in P
    <3>1. n + 1 \in 1 .. N /\ n + 1 \in 1 .. k /\ (n + 1) - 1 = n /\ f[n] = Unread
      BY <1>0, <2>2
    <3>2. f[n + 1] = ReadOn(Unread, t[n + 1]) /\ t[n + 1] \in Separators
      BY <1>1, <1>3, <3>1
    <3>3. f[n + 1] = Unread
      BY <3>2, <1>2, ReadSeparator
    <3> QED BY <3>1, <3>3
  <2>3. 0 .. k \subseteq P
    <3>1. k \in Nat
      BY <1>0
    <3> HIDE DEF P
    <3> QED BY <2>1, <2>2, <3>1, IntervalInduction
  <2> QED BY <2>3, <1>0
\* What is skipped at the end adds nothing.
<1>4. ASSUME NEW k \in 0 .. N, \A i \in k + 1 .. N : t[i] \in S
      PROVE  f[N].letters = f[k].letters
  <2> DEFINE K == N - k
             P == {n \in 0 .. K : f[k + n].letters = f[k].letters}
  <2>1. 0 \in P
    BY <1>0
  <2>2. ASSUME NEW n \in 0 .. K - 1, n \in P PROVE n + 1 \in P
    <3>1. /\ k + n \in 0 .. N /\ k + (n + 1) \in 1 .. N /\ (k + (n + 1)) - 1 = k + n
          /\ k + (n + 1) \in k + 1 .. N /\ n + 1 \in 0 .. K
          /\ f[k + n].letters = f[k].letters
      BY <1>0, <2>2
    <3>2. f[k + (n + 1)] = ReadOn(f[k + n], t[k + (n + 1)]) /\ f[k + n] \in Read
          /\ t[k + (n + 1)] \in Separators
      BY <1>1, <1>4, <3>1
    <3>3. f[k + (n + 1)].letters = f[k + n].letters
      BY <3>2, ReadSeparator
    <3> QED BY <3>1, <3>3
  <2>3. K \in Nat /\ k + K = N
    BY <1>0
  <2>4. 0 .. K \subseteq P
    <3> HIDE DEF P, K
    <3> QED BY <2>1, <2>2, <2>3, IntervalInduction
  <2>5. f[k + K].letters = f[k].letters
    <3> HIDE DEF K
    <3> QED BY <2>3, <2>4
  <2> QED BY <2>3, <2>5
<1>5. CASE TrimOf(t, S) = <<>> /\ \A i \in 1 .. N : t[i] \in S
  <2>1. Reading(t) = Unread
    BY <1>0, <1>1, <1>3, <1>5
  <2>2. Reading(TrimOf(t, S)) = Unread
    BY <1>5, ReadingEmpty
  <2> QED BY <2>1, <2>2 DEF Words
<1>6. ASSUME NEW a \in 1 .. N, NEW b \in 1 .. N, a <= b,
             \A i \in 1 .. a - 1 : t[i] \in S, \A i \in b + 1 .. N : t[i] \in S
      PROVE  Words(SubSeq(t, a, b)) = Words(t)
  <2> DEFINE u == SubSeq(t, a, b)
             M == Len(u)
  <2>1. u \in Seq(Characters) /\ M = (b - a) + 1 /\ \A n \in 1 .. M : u[n] = t[(a - 1) + n]
    <3>1. \A i \in a .. b : t[i] \in Characters
      BY <1>0
    <3>2. /\ u \in Seq(Characters) /\ M = (b - a) + 1
          /\ \A i \in 1 .. (b - a) + 1 : u[i] = t[a + i - 1]
      BY <1>0, <1>6, <3>1, SubSeqProperties
    <3>3. \A i \in 1 .. M : a + i - 1 = (a - 1) + i
      BY <1>0, <3>2
    <3> QED BY <3>2, <3>3
  <2>2. PICK g : /\ g[0] = Unread
                 /\ \A n \in 1 .. M : g[n] = ReadOn(g[n - 1], u[n])
                 /\ Reading(u) = g[M]
    BY <2>1, ReadingRun
  <2> DEFINE Q == {n \in 0 .. M : f[(a - 1) + n] = g[n]}
  <2> HIDE DEF u, M
  <2>3. M \in Nat /\ M = (b - a) + 1
    BY <2>1, <1>0, <1>6
  <2>4. f[a - 1] = Unread
    BY <1>0, <1>3, <1>6
  <2>5. 0 \in Q
    BY <2>2, <2>3, <2>4, <1>0
  <2>6. ASSUME NEW n \in 0 .. M - 1, n \in Q PROVE n + 1 \in Q
    <3>1. /\ n + 1 \in 0 .. M /\ n + 1 \in 1 .. M /\ (a - 1) + (n + 1) \in 1 .. N
          /\ ((a - 1) + (n + 1)) - 1 = (a - 1) + n /\ (n + 1) - 1 = n
      BY <1>0, <2>3
    <3>2. f[(a - 1) + (n + 1)] = ReadOn(f[(a - 1) + n], t[(a - 1) + (n + 1)])
      BY <1>1, <3>1
    <3>3. g[n + 1] = ReadOn(g[n], t[(a - 1) + (n + 1)])
      BY <2>1, <2>2, <3>1
    <3> QED BY <2>6, <3>1, <3>2, <3>3
  <2>7. 0 .. M \subseteq Q
    <3>1. M \in Nat
      BY <2>3
    <3> HIDE DEF Q
    <3> QED BY <3>1, <2>5, <2>6, IntervalInduction
  <2>8. g[M] = f[b]
    <3>1. M \in 0 .. M /\ (a - 1) + M = b
      BY <2>3, <1>0
    <3> QED BY <2>7, <3>1
  <2>9. f[N].letters = f[b].letters
    BY <1>0, <1>4, <1>6
  <2> QED BY <1>1, <2>2, <2>8, <2>9 DEF Words, u
<1>7. CASE \E a \in 1 .. N, b \in 1 .. N :
             /\ a <= b
             /\ TrimOf(t, S) = SubSeq(t, a, b)
             /\ \A i \in 1 .. a - 1 : t[i] \in S
             /\ \A i \in b + 1 .. N : t[i] \in S
  BY <1>6, <1>7
<1>8. \/ TrimOf(t, S) = <<>> /\ \A i \in 1 .. N : t[i] \in S
      \/ \E a \in 1 .. N, b \in 1 .. N :
             /\ a <= b
             /\ TrimOf(t, S) = SubSeq(t, a, b)
             /\ \A i \in 1 .. a - 1 : t[i] \in S
             /\ \A i \in b + 1 .. N : t[i] \in S
  BY TrimShape, Zenon DEF N
<1> QED BY <1>5, <1>7, <1>8

---------------------------------------------------------------------------
(* A slug is canonical: its words, one hyphen between them.                *)

NoTwoHyphens(s) == \A i \in 1 .. Len(s) - 1 : s[i] \in Letters \/ s[i + 1] \in Letters

Opens(s) ==
    /\ s \in Seq(SlugCharacters)
    /\ s # <<>> => s[1] \in Letters
    /\ NoTwoHyphens(s)

Canonical(s) == Opens(s) /\ (s # <<>> => s[Len(s)] \in Letters)

LEMMA HyphenatedOnce ==
  ASSUME NEW t \in Seq(Characters)
  PROVE  NoTwoHyphens(HyphenateRuns(t, Letters))
<1> DEFINE H(u) == HyphenateRuns(u, Letters)
           Ends(s) == s # <<>> /\ s[Len(s)] \in Letters
           P == {u \in Seq(Characters) :
                   NoTwoHyphens(H(u)) /\ (u = <<>> => H(u) = <<>>) /\ (Ends(u) => Ends(H(u)))}
<1>1. <<>> \in P
  BY HyphenateEmpty, EmptySeq DEF NoTwoHyphens
<1>2. ASSUME NEW u \in Seq(Characters), NEW c \in Characters, u \in P PROVE Append(u, c) \in P
  <2> DEFINE w == Append(u, c)
             s == H(u)
  <2>1. w \in Seq(Characters) /\ w # <<>> /\ w[Len(w)] = c
    BY AppendProperties, LenProperties
  <2>2. s \in Seq(SlugCharacters) /\ Len(s) \in Nat
    BY HyphenateType, LenProperties
  <2>3. H(w) = IF c \in Letters THEN Append(s, c) ELSE IF u # <<>> /\ u[Len(u)] \notin Letters THEN s
               ELSE Append(s, "-")
    BY HyphenateAppend
  <2>4. NoTwoHyphens(s) /\ (u = <<>> => s = <<>>) /\ (Ends(u) => Ends(s))
    BY <1>2
  <2> HIDE DEF H, s, w, P
  <2>5. ASSUME NEW d \in SlugCharacters, d \in Letters \/ s = <<>> \/ Ends(s)
        PROVE  NoTwoHyphens(Append(s, d)) /\ Append(s, d) # <<>>
               /\ Append(s, d)[Len(Append(s, d))] = d
    <3>1. /\ Len(Append(s, d)) = Len(s) + 1 /\ Append(s, d)[Len(s) + 1] = d /\ Append(s, d) # <<>>
          /\ \A i \in 1 .. Len(s) : Append(s, d)[i] = s[i]
      BY <2>2, AppendProperties
    <3>2. s = <<>> => Len(s) = 0
      BY EmptySeq
    <3>3. ASSUME NEW i \in 1 .. Len(s) PROVE Append(s, d)[i] \in Letters \/ Append(s, d)[i + 1] \in Letters
      <4>1. CASE i = Len(s)
        BY <2>2, <2>5, <3>1, <3>2, <4>1
      <4>2. CASE i \in 1 .. Len(s) - 1
        BY <2>2, <2>4, <3>1, <4>2 DEF NoTwoHyphens
      <4> QED BY <2>2, <4>1, <4>2
    <3>4. Len(Append(s, d)) - 1 = Len(s)
      BY <2>2, <3>1
    <3> QED BY <3>1, <3>3, <3>4 DEF NoTwoHyphens
  <2>6. CASE c \in Letters
    <3>1. c \in SlugCharacters /\ H(w) = Append(s, c)
      BY <2>3, <2>6 DEF SlugCharacters
    <3>2. NoTwoHyphens(H(w)) /\ Ends(H(w))
      BY <2>5, <2>6, <3>1
    <3> QED BY <2>1, <3>2 DEF P, w
  <2>7. CASE c \notin Letters /\ u # <<>> /\ u[Len(u)] \notin Letters
    BY <2>1, <2>3, <2>4, <2>7 DEF P, w
  <2>8. CASE c \notin Letters /\ ~(u # <<>> /\ u[Len(u)] \notin Letters)
    <3>1. "-" \in SlugCharacters /\ H(w) = Append(s, "-")
      BY <2>3, <2>8 DEF SlugCharacters
    <3>2. NoTwoHyphens(H(w))
      BY <2>4, <2>5, <2>8, <3>1
    <3> QED BY <2>1, <2>8, <3>2 DEF P, w
  <2> QED BY <2>6, <2>7, <2>8
<1>3. Seq(Characters) \subseteq P
  <2> HIDE DEF P
  <2> QED BY <1>1, <1>2, SequenceInduction
<1> QED BY <1>3

LEMMA SlugPhases ==
  ASSUME NEW t \in Seq(Characters)
  PROVE  \E v \in Seq(LowerCase) :
            /\ Words(v) = Words(t)
            /\ Slug(t) = TrimOf(HyphenateRuns(v, Letters), {"-"})
<1> DEFINE p == StripDiacritics(t)
           q == TrimOf(p, {" "})
           v == ToLowerCase(q)
<1>1. p \in Seq(Plain) /\ Words(p) = Words(t)
  BY StripType, StripKeepsWords DEF Words
<1> HIDE DEF p
<1>2. q \in Seq(Plain) /\ Words(q) = Words(p)
  <2>1. {" "} \in SUBSET Separators /\ p \in Seq(Characters)
    BY <1>1, TextsOfFewer DEF Separators
  <2> QED BY <1>1, <2>1, TrimType, TrimKeepsWords
<1> HIDE DEF q
<1>3. v \in Seq(LowerCase) /\ Words(v) = Words(q)
  BY <1>2, LowerCaseType, LowerCaseKeepsWords DEF Words
<1>4. Slug(t) = TrimOf(HyphenateRuns(v, Letters), {"-"})
  BY DEF Slug, v, q, p
<1> HIDE DEF v
<1> QED BY <1>1, <1>2, <1>3, <1>4

(* The slug of a text has the words of the text.                           *)
LEMMA SlugKeepsWords ==
  ASSUME NEW t \in Seq(Characters)
  PROVE  Words(Slug(t)) = Words(t)
<1>1. PICK v \in Seq(LowerCase) : /\ Words(v) = Words(t)
                                  /\ Slug(t) = TrimOf(HyphenateRuns(v, Letters), {"-"})
  BY SlugPhases
<1> DEFINE s == HyphenateRuns(v, Letters)
<1>2. s \in Seq(Characters) /\ Words(s) = Words(v)
  BY HyphenateType, HyphenateKeepsWords, TextsOfFewer DEF Words
<1> HIDE DEF s
<1>3. {"-"} \in SUBSET Separators
  BY DEF Separators
<1>4. Words(TrimOf(s, {"-"})) = Words(s)
  BY <1>2, <1>3, TrimKeepsWords
<1> QED BY <1>1, <1>2, <1>4 DEF s

LEMMA SlugIsCanonical ==
  ASSUME NEW t \in Seq(Characters)
  PROVE  Canonical(Slug(t))
<1>1. PICK v \in Seq(LowerCase) : Slug(t) = TrimOf(HyphenateRuns(v, Letters), {"-"})
  BY SlugPhases
<1> DEFINE s == HyphenateRuns(v, Letters)
<1>2. s \in Seq(SlugCharacters) /\ NoTwoHyphens(s)
  BY HyphenateType, HyphenatedOnce, TextsOfFewer
<1>3. Slug(t) = TrimOf(s, {"-"})
  BY <1>1
<1> HIDE DEF s
<1>4. Len(s) \in Nat /\ \A i \in 1 .. Len(s) : s[i] \in SlugCharacters
  BY <1>2, LenProperties, ElementOfSeq
<1>5. CASE TrimOf(s, {"-"}) = <<>>
  BY <1>3, <1>5, EmptySeq DEF Canonical, Opens, NoTwoHyphens
<1>6. ASSUME NEW a \in 1 .. Len(s), NEW b \in 1 .. Len(s), a <= b,
             s[a] \notin {"-"}, s[b] \notin {"-"}
      PROVE  Canonical(SubSeq(s, a, b))
  <2> DEFINE u == SubSeq(s, a, b)
  <2>0. \A i \in a .. b : s[i] \in SlugCharacters
    BY <1>4
  <2>1. /\ u \in Seq(SlugCharacters) /\ Len(u) = (b - a) + 1
        /\ \A i \in 1 .. (b - a) + 1 : u[i] = s[a + i - 1]
    BY <1>4, <1>6, <2>0, SubSeqProperties
  <2> HIDE DEF u
  <2>2. u[1] \in Letters /\ u[Len(u)] \in Letters
    <3>1. u[1] = s[a] /\ u[Len(u)] = s[b]
      BY <2>1, <1>4, <1>6
    <3> QED BY <3>1, <1>4, <1>6 DEF SlugCharacters
  <2>3. NoTwoHyphens(u)
    <3> SUFFICES ASSUME NEW i \in 1 .. Len(u) - 1 PROVE u[i] \in Letters \/ u[i + 1] \in Letters
      BY DEF NoTwoHyphens
    <3>1. /\ a + i - 1 \in 1 .. Len(s) - 1 /\ a + (i + 1) - 1 = (a + i - 1) + 1
          /\ i \in 1 .. (b - a) + 1 /\ i + 1 \in 1 .. (b - a) + 1
      BY <2>1, <1>4, <1>6
    <3>2. u[i] = s[a + i - 1] /\ u[i + 1] = s[(a + i - 1) + 1]
      BY <2>1, <3>1
    <3> QED BY <1>2, <3>1, <3>2 DEF NoTwoHyphens
  <2> QED BY <2>1, <2>2, <2>3 DEF Canonical, Opens, u
<1>7. CASE \E a \in 1 .. Len(s), b \in 1 .. Len(s) :
             /\ a <= b /\ TrimOf(s, {"-"}) = SubSeq(s, a, b)
             /\ s[a] \notin {"-"} /\ s[b] \notin {"-"}
  BY <1>3, <1>6, <1>7
<1>8. \/ TrimOf(s, {"-"}) = <<>>
      \/ \E a \in 1 .. Len(s), b \in 1 .. Len(s) :
             /\ a <= b /\ TrimOf(s, {"-"}) = SubSeq(s, a, b)
             /\ s[a] \notin {"-"} /\ s[b] \notin {"-"}
  BY <1>2, TrimShape
<1> QED BY <1>5, <1>7, <1>8

---------------------------------------------------------------------------
(* What opens with a letter and has no two hyphens is all in its reading.  *)

LEMMA OpensAppend ==
  ASSUME NEW x \in Seq(SlugCharacters), NEW c \in SlugCharacters, Opens(Append(x, c))
  PROVE  Opens(x) /\ (c \notin Letters => x # <<>> /\ x[Len(x)] \in Letters)
<1> DEFINE u == Append(x, c)
<1>1. /\ Len(x) \in Nat /\ Len(u) = Len(x) + 1 /\ u # <<>> /\ u[Len(x) + 1] = c
      /\ \A i \in 1 .. Len(x) : u[i] = x[i]
  BY AppendProperties, LenProperties
<1>2. (x = <<>> => Len(x) = 0) /\ (x # <<>> => Len(x) # 0)
  BY EmptySeq
<1>3. u[1] \in Letters /\ \A i \in 1 .. Len(x) : u[i] \in Letters \/ u[i + 1] \in Letters
  <2>1. Len(u) - 1 = Len(x)
    BY <1>1
  <2> QED BY <1>1, <2>1 DEF Opens, NoTwoHyphens
<1> HIDE DEF u
<1>4. NoTwoHyphens(x)
  <2> SUFFICES ASSUME NEW i \in 1 .. Len(x) - 1 PROVE x[i] \in Letters \/ x[i + 1] \in Letters
    BY DEF NoTwoHyphens
  <2> QED BY <1>1, <1>3
<1>5. x # <<>> => x[1] \in Letters
  BY <1>1, <1>2, <1>3
<1>6. ASSUME c \notin Letters PROVE x # <<>> /\ x[Len(x)] \in Letters
  <2>1. x # <<>>
    BY <1>1, <1>2, <1>3, <1>6
  <2>2. Len(x) \in 1 .. Len(x)
    BY <1>1, <1>2, <2>1
  <2> QED BY <1>1, <1>3, <1>6, <2>1, <2>2
<1> QED BY <1>4, <1>5, <1>6 DEF Opens

(* What has been read when the last character was a letter or a hyphen.    *)
ReadLetters == [letter : Letters, first : BOOLEAN]

WordLetter(x, c) == [letter |-> c, first |-> ~Reading(x).inWord]

LEMMA ReadingOfAppend ==
  ASSUME NEW x \in Seq(SlugCharacters), NEW c \in SlugCharacters
  PROVE  /\ Reading(x) \in Read /\ Reading(x).letters \in Seq(ReadLetters)
         /\ c \in Letters =>
               /\ WordLetter(x, c) \in ReadLetters
               /\ Reading(Append(x, c)).letters = Append(Reading(x).letters, WordLetter(x, c))
               /\ Reading(Append(x, c)).inWord = TRUE
         /\ c \notin Letters =>
               /\ Reading(Append(x, c)).letters = Reading(x).letters
               /\ Reading(Append(x, c)).inWord = FALSE
<1>1. x \in Seq(Characters) /\ c \in Characters
  BY TextsOfFewer DEF SlugCharacters, Characters
<1>2. Reading(x) \in Read /\ Reading(Append(x, c)) = ReadOn(Reading(x), c)
  BY <1>1, ReadingType, ReadingAppend
<1>3. Reading(x).letters \in Seq(ReadLetters)
  BY <1>2 DEF Read, ReadLetters
<1>4. CASE c \in Letters
  <2>1. WordLetter(x, c) \in ReadLetters
    BY <1>2, <1>4, ReadLetter DEF WordLetter, ReadLetters
  <2>2. ReadOn(Reading(x), c) = [letters |-> Append(Reading(x).letters, WordLetter(x, c)), inWord |-> TRUE]
    BY <1>2, <1>4, ReadLetter DEF WordLetter
  <2> QED BY <1>2, <1>3, <1>4, <2>1, <2>2
<1>5. CASE c \notin Letters
  <2>1. c \in Separators
    BY <1>5 DEF SlugCharacters, Separators
  <2>2. ReadOn(Reading(x), c) = [letters |-> Reading(x).letters, inWord |-> FALSE]
    BY <1>2, <2>1, ReadSeparator
  <2> QED BY <1>2, <1>3, <1>5, <2>2
<1> QED BY <1>4, <1>5

LEMMA InWordAfterLetter ==
  ASSUME NEW x \in Seq(SlugCharacters), x # <<>>, x[Len(x)] \in Letters
  PROVE  Reading(x).inWord = TRUE /\ Reading(x).letters # <<>>
<1>1. PICK y \in Seq(SlugCharacters), d \in SlugCharacters : x = Append(y, d)
  BY SequenceEmptyOrAppend
<1>2. d \in Letters
  BY <1>1, AppendProperties
<1>3. /\ Reading(y).letters \in Seq(ReadLetters) /\ WordLetter(y, d) \in ReadLetters
      /\ Reading(x).inWord = TRUE
      /\ Reading(x).letters = Append(Reading(y).letters, WordLetter(y, d))
  BY <1>1, <1>2, ReadingOfAppend
<1> QED BY <1>3, AppendProperties

LEMMA OpensHasWords ==
  ASSUME NEW x, Opens(x), x # <<>>
  PROVE  Reading(x).letters # <<>>
<1>1. PICK y \in Seq(SlugCharacters), d \in SlugCharacters : x = Append(y, d)
  BY SequenceEmptyOrAppend DEF Opens
<1>2. CASE d \in Letters
  <2>1. x \in Seq(SlugCharacters) /\ x[Len(x)] \in Letters
    BY <1>1, <1>2, AppendProperties DEF Opens
  <2> QED BY <2>1, InWordAfterLetter
<1>3. CASE d \notin Letters
  <2>1. y # <<>> /\ y[Len(y)] \in Letters
    BY <1>1, <1>3, OpensAppend
  <2>2. Reading(y).letters # <<>>
    BY <2>1, InWordAfterLetter
  <2>3. Reading(x).letters = Reading(y).letters
    BY <1>1, <1>3, ReadingOfAppend
  <2> QED BY <2>2, <2>3
<1> QED BY <1>2, <1>3

LEMMA SameRead ==
  ASSUME NEW r \in Read, NEW q \in Read, r.letters = q.letters, r.inWord = q.inWord
  PROVE  r = q
  BY DEF Read

LEMMA OpensByReading ==
  ASSUME NEW s, NEW w, Opens(s), Opens(w), Reading(s) = Reading(w)
  PROVE  s = w
<1> DEFINE P == {u \in Seq(SlugCharacters) :
                   Opens(u) => \A v \in Seq(SlugCharacters) :
                                  Opens(v) /\ Reading(v) = Reading(u) => v = u}
<1>1. <<>> \in P
  <2>1. Reading(<<>>).letters = <<>>
    BY ReadingEmpty DEF Unread
  <2>2. ASSUME NEW v, Opens(v), Reading(v) = Reading(<<>>) PROVE v = <<>>
    BY <2>1, <2>2, OpensHasWords
  <2> QED BY <2>2, EmptySeq
<1>2. ASSUME NEW x \in Seq(SlugCharacters), NEW c \in SlugCharacters, x \in P
      PROVE  Append(x, c) \in P
  <2> DEFINE u == Append(x, c)
  <2>0. u \in Seq(SlugCharacters) /\ u # <<>>
    BY AppendProperties
  <2> SUFFICES ASSUME Opens(u), NEW v \in Seq(SlugCharacters), Opens(v), Reading(v) = Reading(u)
               PROVE  v = u
    BY <2>0
  <2>1. v # <<>>
    <3>1. Reading(<<>>).letters = <<>>
      BY ReadingEmpty DEF Unread
    <3>2. Reading(u).letters # <<>>
      <4> HIDE DEF u
      <4> QED BY <2>0, OpensHasWords
    <3> QED BY <3>1, <3>2
  <2>2. PICK y \in Seq(SlugCharacters), d \in SlugCharacters : v = Append(y, d)
    BY <2>1, SequenceEmptyOrAppend
  <2>3. Opens(x) /\ Opens(y)
    BY <2>2, OpensAppend
  <2>4. Reading(x) \in Read /\ Reading(y) \in Read
    BY ReadingOfAppend
  <2>5. Reading(u).inWord = TRUE <=> c \in Letters
    BY ReadingOfAppend
  <2>6. Reading(v).inWord = TRUE <=> d \in Letters
    BY <2>2, ReadingOfAppend
  <2>7. CASE c \in Letters /\ d \in Letters
    <3>1. /\ WordLetter(x, c) \in ReadLetters /\ WordLetter(y, d) \in ReadLetters
          /\ Reading(x).letters \in Seq(ReadLetters) /\ Reading(y).letters \in Seq(ReadLetters)
          /\ Reading(u).letters = Append(Reading(x).letters, WordLetter(x, c))
          /\ Reading(v).letters = Append(Reading(y).letters, WordLetter(y, d))
      BY <2>2, <2>7, ReadingOfAppend
    <3>2. Reading(x).letters = Reading(y).letters /\ WordLetter(x, c) = WordLetter(y, d)
      <4> HIDE DEF u
      <4>1. Append(Reading(x).letters, WordLetter(x, c)) = Append(Reading(y).letters, WordLetter(y, d))
        BY <3>1
      <4> QED BY <3>1, <4>1, AppendInjective
    <3>3. c = d /\ (~Reading(x).inWord) = (~Reading(y).inWord)
      BY <3>2 DEF WordLetter
    <3>4. Reading(x).inWord = Reading(y).inWord
      BY <2>4, <3>3 DEF Read
    <3>5. Reading(x) = Reading(y)
      BY <2>4, <3>2, <3>4, SameRead
    <3>6. x = y
      BY <1>2, <2>3, <3>5
    <3> QED BY <2>2, <3>3, <3>6
  <2>8. CASE c \notin Letters /\ d \notin Letters
    <3>1. c = d
      BY <2>8 DEF SlugCharacters
    <3>2. Reading(x).inWord = TRUE /\ Reading(y).inWord = TRUE
      BY <2>2, <2>8, OpensAppend, InWordAfterLetter
    <3>3. Reading(x).letters = Reading(y).letters
      <4>1. Reading(u).letters = Reading(x).letters /\ Reading(v).letters = Reading(y).letters
        BY <2>2, <2>8, ReadingOfAppend
      <4> QED BY <4>1
    <3>4. Reading(x) = Reading(y)
      BY <2>4, <3>2, <3>3, SameRead
    <3>5. x = y
      BY <1>2, <2>3, <3>4
    <3> QED BY <2>2, <3>1, <3>5
  <2> QED BY <2>5, <2>6, <2>7, <2>8
<1>3. Seq(SlugCharacters) \subseteq P
  <2> HIDE DEF P
  <2> QED BY <1>1, <1>2, SequenceInduction
<1>4. s \in P /\ w \in Seq(SlugCharacters)
  BY <1>3 DEF Opens
<1> QED BY <1>4

LEMMA CanonicalByWords ==
  ASSUME NEW s, NEW w, Canonical(s), Canonical(w), Words(s) = Words(w)
  PROVE  s = w
<1>1. Reading(<<>>).letters = <<>>
  BY ReadingEmpty DEF Unread
<1>2. CASE s = <<>> \/ w = <<>>
  BY <1>1, <1>2, OpensHasWords DEF Canonical, Words
<1>3. CASE s # <<>> /\ w # <<>>
  <2>1. /\ s \in Seq(SlugCharacters) /\ w \in Seq(SlugCharacters)
        /\ s[Len(s)] \in Letters /\ w[Len(w)] \in Letters
    BY <1>3 DEF Canonical, Opens
  <2>2. Reading(s).inWord = TRUE /\ Reading(w).inWord = TRUE
    BY <1>3, <2>1, InWordAfterLetter
  <2>3. Reading(s) \in Read /\ Reading(w) \in Read
    BY <2>1, TextsOfFewer, ReadingType
  <2>4. Reading(s) = Reading(w)
    BY <2>2, <2>3, SameRead DEF Words
  <2> QED BY <2>4, OpensByReading DEF Canonical
<1> QED BY <1>2, <1>3

---------------------------------------------------------------------------
(* Texts and their slugs.                                                  *)

(* Two texts, of any length, are normalised to the same slug exactly when  *)
(* they have the same words.                                               *)
THEOREM SlugIsByWords ==
  ASSUME NEW t \in Seq(Characters), NEW u \in Seq(Characters)
  PROVE  Slug(t) = Slug(u) <=> Words(t) = Words(u)
<1>1. Words(Slug(t)) = Words(t) /\ Words(Slug(u)) = Words(u)
  BY SlugKeepsWords
<1>2. Canonical(Slug(t)) /\ Canonical(Slug(u))
  BY SlugIsCanonical
<1> QED BY <1>1, <1>2, CanonicalByWords

LEMMA CanonicalIsText ==
  ASSUME NEW s, Canonical(s)
  PROVE  s \in Seq(Characters) /\ s \in Seq(SlugCharacters)
  BY TextsOfFewer DEF Canonical, Opens

(* Normalising what is normalised already changes nothing.                 *)
THEOREM SlugOfCanonical ==
  ASSUME NEW s, Canonical(s)
  PROVE  Slug(s) = s
<1>1. s \in Seq(Characters)
  BY CanonicalIsText
<1> QED BY <1>1, SlugKeepsWords, SlugIsCanonical, CanonicalByWords

LEMMA NoSlugNoWords ==
  ASSUME NEW t \in Seq(Characters)
  PROVE  Slug(t) = <<>> <=> Words(t) = <<>>
<1>1. Canonical(<<>>) /\ Words(<<>>) = <<>>
  BY EmptySeq, ReadingEmpty DEF Canonical, Opens, NoTwoHyphens, Words, Unread
<1>2. Words(Slug(t)) = Words(t) /\ Canonical(Slug(t))
  BY SlugKeepsWords, SlugIsCanonical
<1> QED BY <1>1, <1>2, CanonicalByWords

(* White space is not trimmed from what has none.                          *)
LEMMA CanonicalIsTrimmed ==
  ASSUME NEW s, Canonical(s)
  PROVE  TrimOf(s, {" "}) = s
<1>1. s \in Seq(SlugCharacters) /\ Len(s) \in Nat /\ \A i \in 1 .. Len(s) : s[i] \notin {" "}
  <2>1. s \in Seq(SlugCharacters)
    BY CanonicalIsText
  <2>2. Len(s) \in Nat /\ \A i \in 1 .. Len(s) : s[i] \in SlugCharacters
    BY <2>1, LenProperties, ElementOfSeq
  <2> QED BY <2>1, <2>2 DEF SlugCharacters, Letters
<1>0. Len(s) \in Nat
  BY <1>1
<1>2. CASE TrimOf(s, {" "}) = <<>> /\ \A i \in 1 .. Len(s) : s[i] \in {" "}
  <2>1. Len(s) = 0
    <3>1. \A i \in 1 .. Len(s) : FALSE
      BY <1>1, <1>2
    <3> QED BY <1>0, <3>1
  <2>2. s = <<>>
    BY <1>1, <2>1, EmptySeq
  <2> QED BY <1>2, <2>2
<1>3. ASSUME NEW a \in 1 .. Len(s), NEW b \in 1 .. Len(s), TrimOf(s, {" "}) = SubSeq(s, a, b),
             \A i \in 1 .. a - 1 : s[i] \in {" "}, \A i \in b + 1 .. Len(s) : s[i] \in {" "}
      PROVE  TrimOf(s, {" "}) = s
  <2>1. a = 1
    <3>1. a # 1 => 1 \in 1 .. a - 1 /\ 1 \in 1 .. Len(s)
      BY <1>0
    <3> QED BY <1>1, <1>3, <3>1
  <2>2. b = Len(s)
    <3>1. b # Len(s) => b + 1 \in b + 1 .. Len(s) /\ b + 1 \in 1 .. Len(s)
      BY <1>0
    <3> QED BY <1>1, <1>3, <3>1
  <2> QED BY <1>1, <1>3, <2>1, <2>2, SubSeqFull
<1>4. CASE \E a \in 1 .. Len(s), b \in 1 .. Len(s) :
             /\ TrimOf(s, {" "}) = SubSeq(s, a, b)
             /\ \A i \in 1 .. a - 1 : s[i] \in {" "}
             /\ \A i \in b + 1 .. Len(s) : s[i] \in {" "}
  BY <1>3, <1>4
<1>5. \/ TrimOf(s, {" "}) = <<>> /\ \A i \in 1 .. Len(s) : s[i] \in {" "}
      \/ \E a \in 1 .. Len(s), b \in 1 .. Len(s) :
             /\ TrimOf(s, {" "}) = SubSeq(s, a, b)
             /\ \A i \in 1 .. a - 1 : s[i] \in {" "}
             /\ \A i \in b + 1 .. Len(s) : s[i] \in {" "}
  BY <1>1, TrimShape
<1> QED BY <1>2, <1>4, <1>5

---------------------------------------------------------------------------
SlugInv == stored \in Seq(Characters) /\ Accepted(stored) /\ asked \in Seq(Characters)

LEMMA SlugInvariant == SlugSpec => []SlugInv
<1>1. SlugInit => SlugInv
  <2> SUFFICES ASSUME SlugInit PROVE SlugInv
    OBVIOUS
  <2>1. SlugLength \in Nat
    BY LengthsAssumption
  <2>2. PICK n \in 0 .. SlugLength : stored \in [1 .. n -> Characters]
    BY DEF SlugInit
  <2>3. stored \in Seq(Characters)
    BY <2>1, <2>2, SeqDef
  <2> QED BY <2>3, EmptySeq DEF SlugInit, SlugInv
<1>2. SlugInv /\ [SlugNext]_slugVars => SlugInv'
  <2> SUFFICES ASSUME SlugInv, [SlugNext]_slugVars PROVE SlugInv'
    OBVIOUS
  <2>1. CASE Clear
    BY <2>1, EmptySeq DEF Clear, SlugInv
  <2>2. ASSUME NEW c \in Characters, Type(c) PROVE SlugInv'
    BY <2>2, AppendProperties DEF Type, SlugInv
  <2>3. CASE UNCHANGED slugVars
    BY <2>3 DEF slugVars, SlugInv
  <2> QED BY <2>1, <2>2, <2>3 DEF SlugNext
<1> QED BY <1>1, <1>2, PTL DEF SlugSpec

(* The registration's slug is canonical; what a query finds it by is a     *)
(* text with its words, and the text __invalid__ is no slug.               *)
LEMMA StoredIsCanonical ==
  ASSUME SlugInv
  PROVE  stored # <<>> /\ Slug(stored) = stored /\ Canonical(stored)
  BY SlugIsCanonical DEF SlugInv, Accepted

LEMMA FindsByWords ==
  ASSUME SlugInv, NEW t \in Seq(Characters)
  PROVE  (AgentSlugFilter(t) = stored) <=> Words(t) = Words(stored)
<1>1. stored # <<>> /\ Slug(stored) = stored /\ Canonical(stored) /\ stored \in Seq(Characters)
  BY StoredIsCanonical DEF SlugInv
<1>2. Words(stored) # <<>>
  BY <1>1, NoSlugNoWords
<1>3. CASE Slug(t) = <<>>
  <2>1. Words(t) = <<>>
    BY <1>3, NoSlugNoWords
  <2>2. AgentSlugFilter(t) = <<"other", "a", "other">>
    BY <1>3 DEF AgentSlugFilter
  <2>3. ~Canonical(<<"other", "a", "other">>)
    BY DEF Canonical, Opens, Letters
  <2> QED BY <1>1, <1>2, <2>1, <2>2, <2>3
<1>4. CASE Slug(t) # <<>>
  <2>1. AgentSlugFilter(t) = Slug(t)
    BY <1>4 DEF AgentSlugFilter
  <2> QED BY <1>1, <2>1, SlugIsByWords
<1> QED BY <1>3, <1>4

---------------------------------------------------------------------------
(* FoundByItsWords: what is asked for finds the registration exactly when  *)
(* it has the words of its slug.                                           *)
THEOREM FoundByWords == SlugSpec => []FoundByItsWords
<1>1. SlugInv => FoundByItsWords
  BY FindsByWords DEF SlugInv, FoundByItsWords, Finds
<1> QED BY <1>1, SlugInvariant, PTL

(* SlugsAreCanonical: what the normalisation makes of a text passes it     *)
(* again unchanged.                                                        *)
THEOREM SlugsCanBeStored == SlugSpec => []SlugsAreCanonical
<1>1. SlugInv => SlugsAreCanonical
  <2> DEFINE s == Slug(asked)
  <2> SUFFICES ASSUME SlugInv, s # <<>>, Len(s) <= SlugLength, ~IsReserved(s) PROVE Accepted(s)
    BY DEF SlugsAreCanonical
  <2>1. Canonical(s)
    BY SlugIsCanonical DEF SlugInv
  <2> HIDE DEF s
  <2>2. Slug(s) = s /\ TrimOf(s, {" "}) = s /\ s \in Seq(Characters)
    BY <2>1, SlugOfCanonical, CanonicalIsTrimmed, CanonicalIsText
  <2>3. Len(s) \in 1 .. SlugLength
    <3>1. Len(s) \in Nat \ {0} /\ SlugLength \in Nat
      BY <2>2, EmptySeq, LengthsAssumption
    <3> QED BY <3>1
  <2> QED BY <2>2, <2>3 DEF Accepted
<1> QED BY <1>1, SlugInvariant, PTL

(* ReservedNamesAreFree: no spelling of a reserved name finds anything.    *)
THEOREM ReservedFindNothing == SlugSpec => []ReservedNamesAreFree
<1>1. SlugInv => ReservedNamesAreFree
  <2> SUFFICES ASSUME SlugInv, NEW r \in Reserved, Words(asked) = Words(r), Finds(asked) PROVE FALSE
    BY DEF ReservedNamesAreFree
  <2>1. asked \in Seq(Characters) /\ stored \in Seq(Characters) /\ r \in Seq(Characters)
    BY ReservedAssumption DEF SlugInv
  <2>2. Words(asked) = Words(stored)
    BY <2>1, FindsByWords DEF Finds
  <2>3. Slug(stored) = Slug(r)
    BY <2>1, <2>2, SlugIsByWords
  <2>4. IsReserved(Slug(stored))
    BY <2>3, StoredIsCanonical DEF IsReserved
  <2> QED BY <2>4 DEF SlugInv, Accepted
<1> QED BY <1>1, SlugInvariant, PTL
=============================================================================
