----------------------- MODULE ChainSyncFaultProofs -----------------------
(***************************************************************************)
(* Theorems about ChainSync under every fault, with a chain that moves     *)
(* while a pass reads it: types, mutual exclusion of passes, what is left  *)
(* of a removed source, the order in which transactions are applied and    *)
(* the states entries can be in, for any number of callers, sources and    *)
(* assets, any page size and any chain.                                    *)
(***************************************************************************)
EXTENDS ChainSync, SequenceTheorems, TLAPS

---------------------------------------------------------------------------
(* Facts about OnChain, for every chain that is ChainOK.                   *)

(* The types of what a chain holds.                                        *)
LEMMA ChainTypes ==
    ASSUME NEW ch \in Seq(Redeemer)
    PROVE  /\ Len(ch) \in Nat
           /\ DOMAIN ch = 1..Len(ch)
           /\ \A i \in DOMAIN ch : /\ i \in Int
                                   /\ ch[i].tx \in Nat
                                   /\ 0 < ch[i].tx
<1>1. Len(ch) \in Nat /\ DOMAIN ch = 1..Len(ch)
  OBVIOUS
<1>2. ASSUME NEW i \in DOMAIN ch PROVE ch[i] \in Redeemer
  BY <1>1, <1>2
<1> QED BY <1>1, <1>2 DEF Redeemer

LEMMA MintTypes ==
    ASSUME NEW ch \in Seq(Redeemer)
    PROVE  \A i \in Mints(ch) : /\ i \in DOMAIN ch
                               /\ i \in Nat
                               /\ i <= Len(ch)
                               /\ ch[i].tx \in Nat
  BY ChainTypes DEF Mints

(* The list is in transaction order.                                       *)
LEMMA ChainOrder ==
    ASSUME NEW ch \in Seq(Redeemer), ChainOK(ch)
    PROVE  \A i, j \in DOMAIN ch : i <= j => ch[i].tx <= ch[j].tx
  BY ChainTypes DEF ChainOK

(* Of two mint redeemers, the one of the earlier transaction comes first.  *)
LEMMA MintOrder ==
    ASSUME NEW ch \in Seq(Redeemer), ChainOK(ch),
           NEW i \in Mints(ch), NEW j \in Mints(ch)
    PROVE  ch[i].tx < ch[j].tx <=> i < j
  BY ChainTypes DEF ChainOK, Mints

(* Whatever mints or burns is a mint redeemer.                             *)
LEMMA MoverIsMint ==
    ASSUME NEW ch \in Seq(Redeemer), ChainOK(ch), NEW i \in DOMAIN ch, NEW a,
           a \in ch[i].minted \cup ch[i].burned
    PROVE  i \in Mints(ch)
  BY DEF ChainOK

(* No redeemer is of a later transaction than the last.                    *)
LEMMA LastIsLatest ==
    ASSUME NEW ch \in Seq(Redeemer), ChainOK(ch)
    PROVE  /\ LastTx(ch) \in Nat
           /\ \A i \in DOMAIN ch : ch[i].tx <= LastTx(ch)
<1>1. CASE ch = <<>>
  BY <1>1 DEF LastTx
<1>2. CASE ch # <<>>
  <2>1. Len(ch) \in DOMAIN ch
    BY <1>2, ChainTypes, EmptySeq
  <2> QED BY <2>1, <1>2, ChainTypes DEF ChainOK, LastTx
<1> QED BY <1>1, <1>2

(* After a transaction that mints it, an asset whose metadata parses is    *)
(* listed.                                                                 *)
LEMMA MintLists ==
    ASSUME NEW ch \in Seq(Redeemer), ChainOK(ch), NEW i \in Mints(ch),
           NEW a \in ch[i].minted
    PROVE  OnChain(ch, ch[i].tx, a) = IF a \in Parsable THEN "listed" ELSE "absent"
<1>1. ASSUME NEW j \in DOMAIN ch, i < j, ch[j].tx <= ch[i].tx
      PROVE  a \notin ch[j].burned
  BY <1>1, MoverIsMint, MintOrder, ChainTypes DEF Mints
<1> QED BY <1>1, ChainTypes DEF OnChain, EverListed, Live, Mints

(* After a transaction that burns it, an asset whose metadata parses is    *)
(* deregistered.                                                           *)
LEMMA BurnDeregisters ==
    ASSUME NEW ch \in Seq(Redeemer), ChainOK(ch), NEW i \in Mints(ch),
           NEW a \in ch[i].burned
    PROVE  OnChain(ch, ch[i].tx, a) =
             IF a \in Parsable THEN "deregistered" ELSE "absent"
<1>1. ~Live(ch, ch[i].tx, a)
  <2>1. SUFFICES ASSUME NEW k \in DOMAIN ch, ch[k].tx <= ch[i].tx,
                        a \in ch[k].minted
                 PROVE  k < i
    BY <2>1, ChainTypes DEF Live, Mints
  <2>2. k # i
    BY <2>1 DEF ChainOK, Mints
  <2>3. k \in Mints(ch)
    BY <2>1, MoverIsMint
  <2> QED BY <2>1, <2>2, <2>3, MintOrder, ChainTypes DEF Mints
<1>2. PICK j \in DOMAIN ch : j < i /\ a \in ch[j].minted
  BY DEF ChainOK, Mints
<1>3. ch[j].tx <= ch[i].tx
  BY <1>2 DEF ChainOK, Mints
<1> QED BY <1>1, <1>2, <1>3 DEF OnChain, EverListed

(* An asset that the next mint or burn does not move is as it was.         *)
LEMMA UntouchedKept ==
    ASSUME NEW ch \in Seq(Redeemer), ChainOK(ch), NEW t \in Nat, NEW i,
           IsNext(ch, t, i), NEW a, a \notin ch[i].minted \cup ch[i].burned
    PROVE  OnChain(ch, ch[i].tx, a) = OnChain(ch, t, a)
<1>1. ASSUME NEW k \in DOMAIN ch, a \in ch[k].minted \cup ch[k].burned
      PROVE  ch[k].tx <= ch[i].tx <=> ch[k].tx <= t
  <2>1. k \in Mints(ch) /\ k # i
    BY <1>1, MoverIsMint
  <2>2. i \in Mints(ch) /\ t < ch[i].tx
    BY DEF IsNext
  <2>3. ch[k].tx # ch[i].tx
    BY <2>1, <2>2, MintOrder DEF Mints
  <2> QED BY <2>1, <2>2, <2>3, ChainTypes DEF IsNext, Mints
<1>2. EverListed(ch, ch[i].tx, a) <=> EverListed(ch, t, a)
  BY <1>1 DEF EverListed
<1>3. Live(ch, ch[i].tx, a) <=> Live(ch, t, a)
  BY <1>1 DEF Live
<1> QED BY <1>2, <1>3 DEF OnChain

(* Between transactions that neither mint nor burn, nothing changes.       *)
LEMMA NothingBetween ==
    ASSUME NEW ch \in Seq(Redeemer), ChainOK(ch), NEW t \in Nat,
           \A i \in Mints(ch) : ch[i].tx <= t, NEW a
    PROVE  OnChain(ch, LastTx(ch), a) = OnChain(ch, t, a)
<1>1. ASSUME NEW k \in DOMAIN ch, a \in ch[k].minted \cup ch[k].burned
      PROVE  ch[k].tx <= LastTx(ch) /\ ch[k].tx <= t
  BY <1>1, MoverIsMint, LastIsLatest
<1>2. EverListed(ch, LastTx(ch), a) <=> EverListed(ch, t, a)
  BY <1>1 DEF EverListed
<1>3. Live(ch, LastTx(ch), a) <=> Live(ch, t, a)
  BY <1>1 DEF Live
<1> QED BY <1>2, <1>3 DEF OnChain

(* What the chain said of a transaction it goes on saying as it grows.     *)
LEMMA GrowthKeeps ==
    ASSUME NEW old \in Seq(Redeemer), NEW new \in Seq(Redeemer), ChainOK(old),
           Extended(old, new), NEW t \in Nat, t <= LastTx(old)
    PROVE  /\ \A a : OnChain(new, t, a) = OnChain(old, t, a)
           /\ \A i : IsNext(old, t, i) => IsNext(new, t, i) /\ new[i] = old[i]
<1>1. DOMAIN old \subseteq DOMAIN new /\ \A i \in DOMAIN old : new[i] = old[i]
  BY DEF Extended
<1>2. ASSUME NEW i \in DOMAIN new, new[i].tx <= t PROVE i \in DOMAIN old
  BY <1>2, LastIsLatest, ChainTypes DEF Extended
<1>3. ASSUME NEW a PROVE EverListed(new, t, a) <=> EverListed(old, t, a)
  BY <1>1, <1>2 DEF EverListed
<1>4. ASSUME NEW a PROVE Live(new, t, a) <=> Live(old, t, a)
  BY <1>1, <1>2 DEF Live
<1>5. ASSUME NEW i, IsNext(old, t, i) PROVE IsNext(new, t, i)
  <2>1. i \in Mints(new) /\ new[i] = old[i] /\ t < new[i].tx
    BY <1>1, <1>5 DEF IsNext, Mints
  <2>2. ASSUME NEW j \in Mints(new), t < new[j].tx PROVE new[i].tx <= new[j].tx
    <3>1. CASE j \in DOMAIN old
      BY <1>1, <1>5, <2>1, <2>2, <3>1 DEF IsNext, Mints
    <3>2. CASE j \notin DOMAIN old
      <4>1. LastTx(old) < new[j].tx
        BY <2>2, <3>2 DEF Extended, Mints
      <4>2. old[i].tx <= LastTx(old)
        BY <1>5, LastIsLatest DEF IsNext, Mints
      <4> QED BY <1>5, <2>1, <2>2, <4>1, <4>2, LastIsLatest, ChainTypes DEF IsNext, Mints
    <3> QED BY <3>1, <3>2
  <2> QED BY <2>1, <2>2 DEF IsNext
<1> QED BY <1>1, <1>3, <1>4, <1>5 DEF OnChain, IsNext, Mints

---------------------------------------------------------------------------
(* Pages.                                                                  *)

LEMMA PageArithmetic ==
    ASSUME NEW p \in Nat \ {0}
    PROVE  /\ FirstOn(p) \in Nat \ {0}
           /\ LastOn(p) \in Nat
           /\ FirstOn(p) <= LastOn(p)
           /\ FirstOn(p + 1) = LastOn(p) + 1
  BY PageSizeAssumption, SMT DEF FirstOn, LastOn

LEMMA FirstPage == FirstOn(1) = 1
  BY PageSizeAssumption, SMT DEF FirstOn

---------------------------------------------------------------------------
(* Types.                                                                  *)

LEMMA ShortSequences ==
    ASSUME NEW S, NEW x \in S, NEW y \in S
    PROVE  <<x>> \in Seq(S) /\ <<x, y>> \in Seq(S)
  OBVIOUS

LEMMA TransactionType ==
    ASSUME NEW t \in Nat \ {0}, NEW m \in SUBSET Assets, NEW b \in SUBSET Assets
    PROVE  \A n \in {<<Spend(t)>>} \cup Transactions(t, m, b) :
              /\ n \in Seq(Redeemer)
              /\ \A i \in DOMAIN n : n[i].tx = t
<1> SUFFICES ASSUME NEW n \in {<<Spend(t)>>} \cup Transactions(t, m, b)
             PROVE  n \in Seq(Redeemer) /\ \A i \in DOMAIN n : n[i].tx = t
  OBVIOUS
<1>1. Spend(t) \in Redeemer /\ Mint(t, m, b) \in Redeemer
  BY DEF Spend, Mint, Redeemer
<1>2. n \in Seq(Redeemer)
  BY <1>1, ShortSequences DEF Transactions
<1>3. \A i \in DOMAIN n : n[i] \in {Spend(t), Mint(t, m, b)}
  BY DEF Transactions
<1> QED BY <1>2, <1>3 DEF Spend, Mint

LEMMA LastTxType ==
    ASSUME NEW ch \in Seq(Redeemer)
    PROVE  LastTx(ch) \in Nat
<1>1. CASE ch = <<>>
  BY <1>1 DEF LastTx
<1>2. CASE ch # <<>>
  BY <1>2, ChainTypes, EmptySeq DEF LastTx
<1> QED BY <1>1, <1>2

(* A pass looks only at redeemers that exist, and writes entries only for a *)
(* mint redeemer.                                                          *)
InRange(s) ==
    /\ worker[s].at \in {"scan", "assets"} =>
          1 <= worker[s].pos /\ worker[s].upto <= Len(chain[s])
    /\ worker[s].at = "assets" =>
          worker[s].pos <= worker[s].upto /\ Current(s).purpose = "mint"

TypeInv == TypeOK /\ \A s \in Sources : InRange(s)

LEMMA CurrentType ==
    ASSUME TypeInv, NEW s \in Sources,
           Scanning(s) \/ worker[s].at = "assets"
    PROVE  /\ worker[s].pos \in DOMAIN chain[s]
           /\ Current(s) \in Redeemer
<1>1. worker[s] \in Progress /\ chain[s] \in Seq(Redeemer)
  BY DEF TypeInv, TypeOK
<1>2. worker[s].pos \in 1..Len(chain[s])
  BY <1>1 DEF TypeInv, InRange, Scanning, Progress
<1> QED BY <1>1, <1>2 DEF Current

LEMMA OffType ==
    /\ Off \in Progress
    /\ \A h \in BOOLEAN : [Off EXCEPT !.at = "done", !.held = h] \in Progress
    /\ [Off EXCEPT !.at = "failed"] \in Progress
    /\ Start \in Position
<1>1. Off \in Progress
  BY DEF Off, Progress
<1>2. ASSUME NEW h \in BOOLEAN
      PROVE  [Off EXCEPT !.at = "done", !.held = h] \in Progress
  BY <1>1 DEF Progress
<1>3. [Off EXCEPT !.at = "failed"] \in Progress
  BY <1>1 DEF Progress
<1>4. Start \in Position
  BY DEF Start, Position
<1> QED BY <1>1, <1>2, <1>3, <1>4

LEMMA ProgressUpdates ==
    ASSUME NEW w \in Progress
    PROVE  /\ [w EXCEPT !.pos = @ + 1] \in Progress
           /\ [w EXCEPT !.at = "fetch", !.page = @ + 1] \in Progress
           /\ [w EXCEPT !.at = "scan", !.pos = @ + 1] \in Progress
           /\ \A a : [w EXCEPT !.todo = @ \ {a}] \in Progress
           /\ [w EXCEPT !.held = FALSE] \in Progress
<1>1. w.pos + 1 \in Nat /\ w.page + 1 \in Nat \ {0}
  BY DEF Progress
<1>2. \A a : w.todo \ {a} \in SUBSET Assets
  BY DEF Progress
<1>3. [w EXCEPT !.pos = @ + 1] \in Progress
  BY <1>1 DEF Progress
<1>4. [w EXCEPT !.at = "fetch", !.page = @ + 1] \in Progress
  BY <1>1 DEF Progress
<1>5. [w EXCEPT !.at = "scan", !.pos = @ + 1] \in Progress
  BY <1>1 DEF Progress
<1>6. ASSUME NEW a PROVE [w EXCEPT !.todo = @ \ {a}] \in Progress
  BY <1>2 DEF Progress
<1>7. [w EXCEPT !.held = FALSE] \in Progress
  BY DEF Progress
<1> QED BY <1>3, <1>4, <1>5, <1>6, <1>7

LEMMA TypeInit == Init => TypeInv
<1> SUFFICES ASSUME Init PROVE TypeInv
  OBVIOUS
<1>1. chain \in [Sources -> Seq(Redeemer)]
  BY EmptySeq DEF Init
<1>2. cursor \in [Sources -> Position]
  BY OffType DEF Init
<1>3. registry \in [Sources -> [Assets -> EntryStates]]
  BY DEF Init, EntryStates
<1>4. TypeOK
  BY OffType, <1>1, <1>2, <1>3 DEF Init, TypeOK
<1>5. \A s \in Sources : InRange(s)
  BY DEF Init, InRange, Off
<1> QED BY <1>4, <1>5 DEF TypeInv

LEMMA TypeStep == TypeInv /\ [Next]_vars => TypeOK'
<1> SUFFICES ASSUME TypeInv, [Next]_vars PROVE TypeOK'
  OBVIOUS
<1>0. TypeOK
  BY DEF TypeInv
<1> USE <1>0 DEF TypeOK
<1>1. ASSUME NEW s \in Sources, Grow(s) PROVE TypeOK'
  <2>1. PICK m \in SUBSET Assets, b \in SUBSET Assets :
          \E n \in {<<Spend(LastTx(chain[s]) + 1)>>}
                     \cup Transactions(LastTx(chain[s]) + 1, m, b) :
            chain' = [chain EXCEPT ![s] = @ \o n]
    BY <1>1 DEF Grow, InCirculation
  <2>2. LastTx(chain[s]) + 1 \in Nat \ {0}
    BY LastTxType
  <2>3. PICK n \in Seq(Redeemer) : chain' = [chain EXCEPT ![s] = @ \o n]
    BY <2>1, <2>2, TransactionType
  <2>4. chain[s] \o n \in Seq(Redeemer)
    BY <2>3
  <2> QED BY <1>1, <2>3, <2>4 DEF Grow
<1>2. ASSUME NEW c \in Callers,
             Call(c) \/ Refused(c) \/ Acquire(c) \/ NoSources(c) \/ RereadFails(c) \/ Finish(c)
      PROVE  TypeOK'
  BY <1>2, OffType DEF Call, Refused, Acquire, NoSources, RereadFails, Finish
<1>3. ASSUME NEW c \in Callers, ReadSources(c) PROVE TypeOK'
  <2>1. ASSUME NEW s \in Sources
        PROVE  [Off EXCEPT !.at = "fetch", !.held = TRUE, !.page = cursor[s].page,
                           !.from = cursor[s].tx] \in Progress
    <3>1. cursor[s] \in Position
      OBVIOUS
    <3> QED BY <3>1 DEF Off, Progress, Position
  <2> QED BY <1>3, <2>1, OffType DEF ReadSources
<1>4. ASSUME NEW s \in Sources, FetchPage(s) PROVE TypeOK'
  <2>1. worker[s] \in Progress /\ Len(chain[s]) \in Nat
    OBVIOUS
  <2>2. FirstOn(worker[s].page) \in Nat /\ PageEnd(s, worker[s].page) \in Nat
    BY <2>1, PageArithmetic DEF Progress, PageEnd
  <2>3. \E w \in Progress : worker' = [worker EXCEPT ![s] = w]
    <3>1. CASE FirstOn(worker[s].page) > Len(chain[s])
      <4>1. worker[s].held \in BOOLEAN
        BY <2>1 DEF Progress
      <4> QED BY <1>4, <3>1, <4>1, OffType DEF FetchPage
    <3>2. CASE ~(FirstOn(worker[s].page) > Len(chain[s]))
      <4>1. PICK p \in FirstOn(worker[s].page)..(PageEnd(s, worker[s].page) + 1) :
              worker' = [worker EXCEPT ![s].at = "scan", ![s].pos = p,
                                       ![s].upto = PageEnd(s, worker[s].page)]
        BY <1>4, <3>2 DEF FetchPage
      <4>2. p \in Nat
        BY <2>2
      <4>3. [worker[s] EXCEPT !.at = "scan", !.pos = p,
                              !.upto = PageEnd(s, worker[s].page)] \in Progress
        BY <2>1, <2>2, <4>2 DEF Progress
      <4> QED BY <4>1, <4>3
    <3> QED BY <3>1, <3>2
  <2> QED BY <1>4, <2>3 DEF FetchPage
<1>5. ASSUME NEW s \in Sources, SkipSpend(s) \/ NextPage(s) PROVE TypeOK'
  <2>1. worker[s] \in Progress
    OBVIOUS
  <2>2. /\ [worker[s] EXCEPT !.pos = @ + 1] \in Progress
        /\ [worker[s] EXCEPT !.at = "fetch", !.page = @ + 1] \in Progress
    BY <2>1, ProgressUpdates
  <2> QED BY <1>5, <2>2 DEF SkipSpend, NextPage
<1>6. ASSUME NEW s \in Sources, ReadTx(s) PROVE TypeOK'
  <2>1. worker[s] \in Progress
    OBVIOUS
  <2>2. Current(s).minted \cup Current(s).burned \in SUBSET Assets
    BY <1>6, CurrentType DEF ReadTx, Redeemer
  <2>3. [worker[s] EXCEPT !.at = "assets",
                          !.todo = Current(s).minted \cup Current(s).burned]
          \in Progress
    BY <2>1, <2>2 DEF Progress
  <2> QED BY <1>6, <2>3 DEF ReadTx
<1>7. ASSUME NEW s \in Sources, SaveCursor(s) PROVE TypeOK'
  <2>1. worker[s] \in Progress
    OBVIOUS
  <2>2. Current(s).tx \in Nat
    BY <1>7, CurrentType DEF SaveCursor, Redeemer
  <2>3. [page |-> worker[s].page, tx |-> Current(s).tx] \in Position
    BY <2>1, <2>2 DEF Progress, Position
  <2>4. [worker[s] EXCEPT !.at = "scan", !.pos = @ + 1] \in Progress
    BY <2>1, ProgressUpdates
  <2> QED BY <1>7, <2>3, <2>4 DEF SaveCursor
<1>8. ASSUME NEW s \in Sources, NEW a \in Assets,
             SyncMint(s, a) \/ LookupFails(s, a) \/ SyncBurn(s, a)
      PROVE  TypeOK'
  <2>1. worker[s] \in Progress /\ registry[s] \in [Assets -> EntryStates]
    OBVIOUS
  <2>2. [worker[s] EXCEPT !.todo = @ \ {a}] \in Progress
    BY <2>1, ProgressUpdates
  <2>3. /\ [registry[s] EXCEPT ![a] = "listed"] \in [Assets -> EntryStates]
        /\ [registry[s] EXCEPT ![a] = "deregistered"] \in [Assets -> EntryStates]
    BY <2>1 DEF EntryStates
  <2> QED BY <1>8, <2>2, <2>3 DEF SyncMint, LookupFails, SyncBurn
<1>9. ASSUME NEW s \in Sources, SourceGone(s) \/ Fail(s) PROVE TypeOK'
  BY <1>9, OffType DEF SourceGone, Fail
<1>10. CASE Crash
  BY <1>10, OffType DEF Crash
<1>11. ASSUME NEW s \in Sources, AddSource(s) PROVE TypeOK'
  BY <1>11, OffType DEF AddSource
<1>12. ASSUME NEW s \in Sources, RemoveSource(s) PROVE TypeOK'
  <2>1. worker[s] \in Progress /\ [worker[s] EXCEPT !.held = FALSE] \in Progress
    BY ProgressUpdates
  <2>2. [a \in Assets |-> "absent"] \in [Assets -> EntryStates]
    BY DEF EntryStates
  <2> QED BY <1>12, <2>1, <2>2, OffType DEF RemoveSource
<1>13. CASE UNCHANGED vars
  BY <1>13 DEF vars
<1> QED BY <1>1, <1>2, <1>3, <1>4, <1>5, <1>6, <1>7, <1>8, <1>9, <1>10, <1>11, <1>12,
           <1>13
        DEF Next, SourceStep, PassStep

(* A new transaction extends the chain of its source and leaves the others.*)
LEMMA GrowExtends ==
    ASSUME TypeOK, NEW s \in Sources, Grow(s), NEW r \in Sources
    PROVE  Extended(chain[r], chain'[r])
<1>1. chain[r] \in Seq(Redeemer) /\ chain[s] \in Seq(Redeemer)
  BY DEF TypeOK
<1>2. CASE r # s
  <2>1. chain'[r] = chain[r]
    BY <1>2 DEF Grow, TypeOK
  <2> QED BY <1>1, <2>1, ChainTypes DEF Extended
<1>3. CASE r = s
  <2>1. PICK m \in SUBSET Assets, b \in SUBSET Assets :
          \E n \in {<<Spend(LastTx(chain[s]) + 1)>>}
                     \cup Transactions(LastTx(chain[s]) + 1, m, b) :
            chain' = [chain EXCEPT ![s] = @ \o n]
    BY DEF Grow, InCirculation
  <2>2. LastTx(chain[s]) \in Nat
    BY <1>1, LastTxType
  <2>a. PICK n \in {<<Spend(LastTx(chain[s]) + 1)>>}
                    \cup Transactions(LastTx(chain[s]) + 1, m, b) :
          chain' = [chain EXCEPT ![s] = @ \o n]
    BY <2>1
  <2>3. /\ n \in Seq(Redeemer)
        /\ \A i \in DOMAIN n : n[i].tx = LastTx(chain[s]) + 1
        /\ chain' = [chain EXCEPT ![s] = @ \o n]
    <3>1. LastTx(chain[s]) + 1 \in Nat \ {0}
      BY <2>2
    <3>2. \A k \in {<<Spend(LastTx(chain[s]) + 1)>>}
                    \cup Transactions(LastTx(chain[s]) + 1, m, b) :
            k \in Seq(Redeemer) /\ \A i \in DOMAIN k : k[i].tx = LastTx(chain[s]) + 1
      BY <3>1, TransactionType, Zenon
    <3> QED BY <2>a, <3>2, Zenon
  <2>4. chain'[s] = chain[s] \o n
    BY <2>3 DEF TypeOK
  <2>5. /\ Len(chain'[s]) = Len(chain[s]) + Len(n)
        /\ \A i \in 1..(Len(chain[s]) + Len(n)) :
              chain'[s][i] = IF i <= Len(chain[s]) THEN chain[s][i] ELSE n[i - Len(chain[s])]
    BY <1>1, <2>3, <2>4, ConcatProperties
  <2> QED BY <1>1, <1>3, <2>2, <2>3, <2>4, <2>5, ChainTypes DEF Extended
<1> QED BY <1>2, <1>3

LEMMA RangeStep == TypeInv /\ TypeOK' /\ [Next]_vars => \A s \in Sources : InRange(s)'
<1> SUFFICES ASSUME TypeInv, TypeOK', [Next]_vars, NEW r \in Sources
             PROVE  InRange(r)'
  OBVIOUS
<1> USE DEF InRange
<1>1. /\ worker[r] \in Progress /\ chain[r] \in Seq(Redeemer)
      /\ worker'[r] \in Progress /\ chain'[r] \in Seq(Redeemer)
      /\ InRange(r)
  BY DEF TypeInv, TypeOK
<1>2. CASE UNCHANGED <<worker[r], chain[r]>>
  BY <1>1, <1>2 DEF Current
<1>3. ASSUME NEW s \in Sources, Grow(s) PROVE InRange(r)'
  <2>1. UNCHANGED worker
    BY <1>3 DEF Grow
  <2>2. Len(chain[r]) <= Len(chain'[r])
        /\ \A i \in 1..Len(chain[r]) : chain'[r][i] = chain[r][i]
    <3>1. Extended(chain[r], chain'[r])
      BY <1>3, GrowExtends DEF TypeInv
    <3>2. DOMAIN chain[r] = 1..Len(chain[r])
      BY <1>1, ChainTypes
    <3> QED BY <3>1, <3>2 DEF Extended
  <2> QED BY <1>1, <2>1, <2>2 DEF Current, Progress
<1>4. ASSUME NEW c \in Callers, PassStep(c) PROVE InRange(r)'
  <2>1. CASE Refused(c) \/ Acquire(c) \/ NoSources(c) \/ RereadFails(c)
    BY <2>1, <1>2 DEF Refused, Acquire, NoSources, RereadFails
  <2>2. CASE ReadSources(c) \/ Finish(c)
    <3>1. worker'[r].at \in {"off", "fetch"}
      <4>1. CASE ReadSources(c)
        BY <4>1 DEF ReadSources, Off
      <4>2. CASE Finish(c)
        BY <4>2 DEF Finish, Off
      <4> QED BY <2>2, <4>1, <4>2
    <3> QED BY <3>1
  <2> QED BY <2>1, <2>2, <1>4 DEF PassStep
<1>5. ASSUME NEW s \in Sources, SourceStep(s) PROVE InRange(r)'
  <2>1. UNCHANGED chain
    BY <1>5 DEF SourceStep, FetchPage, SkipSpend, ReadTx, NextPage, SaveCursor,
                SyncMint, LookupFails, SyncBurn, SourceGone, Fail
  <2>2. CASE s # r
    <3>1. UNCHANGED worker[r]
      BY <1>5, <2>2 DEF SourceStep, FetchPage, SkipSpend, ReadTx, NextPage, SaveCursor,
                SyncMint, LookupFails, SyncBurn, SourceGone, Fail, TypeInv, TypeOK
    <3> QED BY <2>1, <3>1, <1>2
  <2>3. CASE s = r
    <3>0. worker \in [Sources -> Progress]
      BY DEF TypeInv, TypeOK
    <3>1. CASE FetchPage(r)
      <4>0. worker[r].page \in Nat \ {0}
        BY <1>1 DEF Progress
      <4>1. /\ FirstOn(worker[r].page) \in Nat \ {0} /\ LastOn(worker[r].page) \in Nat
            /\ Len(chain[r]) \in Nat
        BY <1>1, <4>0, PageArithmetic, ChainTypes
      <4>2. PageEnd(r, worker[r].page) <= Len(chain[r])
        BY <4>1 DEF PageEnd
      <4>3. CASE worker'[r].at = "done"
        BY <4>3
      <4>4. CASE worker'[r].at # "done"
        <5>1. PICK p \in FirstOn(worker[r].page)..(PageEnd(r, worker[r].page) + 1) :
                worker' = [worker EXCEPT ![r].at = "scan", ![r].pos = p,
                                         ![r].upto = PageEnd(r, worker[r].page)]
          BY <3>0, <3>1, <4>4 DEF FetchPage, Off
        <5>2. worker'[r].at = "scan" /\ worker'[r].pos = p
              /\ worker'[r].upto = PageEnd(r, worker[r].page)
          BY <1>1, <3>0, <5>1 DEF Progress
        <5> QED BY <2>1, <4>1, <4>2, <5>1, <5>2
      <4> QED BY <4>3, <4>4
    <3>2. CASE SkipSpend(r)
      BY <1>1, <3>0, <3>2 DEF SkipSpend, Scanning, Progress
    <3>3. CASE ReadTx(r)
      BY <1>1, <2>1, <3>0, <3>3 DEF ReadTx, Scanning, Current, Progress
    <3>4. CASE NextPage(r)
      BY <1>1, <3>0, <3>4 DEF NextPage, Progress
    <3>5. CASE SaveCursor(r)
      BY <1>1, <2>1, <3>0, <3>5 DEF SaveCursor, Progress
    <3>6. CASE \E a \in Assets : SyncMint(r, a) \/ LookupFails(r, a) \/ SyncBurn(r, a)
      <4>1. PICK a \in Assets : worker' = [worker EXCEPT ![r].todo = @ \ {a}]
        BY <3>6 DEF SyncMint, LookupFails, SyncBurn
      <4>2. UNCHANGED <<worker[r].at, worker[r].pos, worker[r].upto>>
        BY <1>1, <3>0, <4>1 DEF Progress
      <4> QED BY <1>1, <2>1, <4>2 DEF Current
    <3>7. CASE SourceGone(r) \/ Fail(r)
      BY <1>1, <3>0, <3>7 DEF SourceGone, Fail, Off
    <3> QED BY <1>5, <2>3, <3>1, <3>2, <3>3, <3>4, <3>5, <3>6, <3>7 DEF SourceStep
  <2> QED BY <2>2, <2>3
<1>6. ASSUME NEW c \in Callers, Call(c) PROVE InRange(r)'
  BY <1>2, <1>6 DEF Call
<1>7. CASE Crash
  BY <1>1, <1>7 DEF Crash, Off
<1>8. ASSUME NEW s \in Sources, AddSource(s) \/ RemoveSource(s) PROVE InRange(r)'
  <2>1. UNCHANGED <<chain, worker[r].at, worker[r].pos, worker[r].upto>>
    <3>1. CASE AddSource(s)
      BY <3>1 DEF AddSource
    <3>2. CASE RemoveSource(s)
      <4>1. worker \in [Sources -> Progress] /\ UNCHANGED chain
            /\ worker' = [worker EXCEPT ![s].held = FALSE]
        BY <3>2 DEF RemoveSource, TypeInv, TypeOK
      <4> QED BY <1>1, <4>1 DEF Progress
    <3> QED BY <1>8, <3>1, <3>2
  <2> QED BY <1>1, <2>1 DEF Current
<1>9. CASE UNCHANGED vars
  BY <1>2, <1>9 DEF vars
<1> QED BY <1>3, <1>4, <1>5, <1>6, <1>7, <1>8, <1>9 DEF Next

(* The variables hold values of their types, whatever the faults.          *)
THEOREM TypeCorrect == Spec => []TypeOK
<1>1. TypeInv /\ [Next]_vars => TypeInv'
  BY TypeStep, RangeStep DEF TypeInv
<1>2. TypeInv => TypeOK
  BY DEF TypeInv
<1> QED BY TypeInit, <1>1, <1>2, PTL DEF Spec

---------------------------------------------------------------------------
(* Mutual exclusion: what the mutex is for.                                *)

LockInv ==
    /\ \A c \in Callers : caller[c] \in {"reading", "syncing"} => locked
    /\ SinglePass

LEMMA LockInit == Init => LockInv
  BY DEF Init, LockInv, SinglePass, Off

LEMMA LockStep == TypeInv /\ LockInv /\ [Next]_vars => LockInv'
<1> SUFFICES ASSUME TypeInv, LockInv, [Next]_vars PROVE LockInv'
  OBVIOUS
<1>0. /\ caller \in [Callers -> {"idle", "called", "reading", "syncing"}]
      /\ worker \in [Sources -> Progress]
  BY DEF TypeInv, TypeOK
<1> USE <1>0 DEF LockInv, SinglePass
<1>1. ASSUME NEW s \in Sources, Grow(s) PROVE LockInv'
  BY <1>1 DEF Grow
<1>2. ASSUME NEW c \in Callers, Call(c) \/ Refused(c) PROVE LockInv'
  BY <1>2 DEF Call, Refused
<1>3. ASSUME NEW c \in Callers, Acquire(c) PROVE LockInv'
  BY <1>3 DEF Acquire
<1>4. ASSUME NEW c \in Callers, ReadSources(c) PROVE LockInv'
  <2>1. /\ caller[c] = "reading" /\ caller' = [caller EXCEPT ![c] = "syncing"]
        /\ UNCHANGED locked
    BY <1>4 DEF ReadSources
  <2>2. caller'[c] = "syncing" /\ \A d \in Callers \ {c} : caller'[d] = caller[d]
    BY <2>1
  <2> QED BY <2>1, <2>2
<1>5. ASSUME NEW c \in Callers, RereadFails(c) PROVE LockInv'
  BY <1>5 DEF RereadFails
<1>6. ASSUME NEW c \in Callers, NoSources(c) \/ Finish(c) PROVE LockInv'
  BY <1>6 DEF NoSources, Finish, Off
<1>7. ASSUME NEW s \in Sources, SourceStep(s) PROVE LockInv'
  <2>1. UNCHANGED <<locked, caller>>
    BY <1>7 DEF SourceStep, FetchPage, SkipSpend, ReadTx, NextPage, SaveCursor,
                SyncMint, LookupFails, SyncBurn, SourceGone, Fail
  <2>2. worker[s].at # "off" /\ \A r \in Sources \ {s} : worker'[r] = worker[r]
    BY <1>7 DEF SourceStep, FetchPage, SkipSpend, ReadTx, NextPage, SaveCursor,
                SyncMint, LookupFails, SyncBurn, SourceGone, Fail, Scanning, Pending
  <2> QED BY <2>1, <2>2
<1>8. CASE Crash
  BY <1>8 DEF Crash, Off
<1>9. ASSUME NEW s \in Sources, AddSource(s) \/ RemoveSource(s) PROVE LockInv'
  <2>1. UNCHANGED <<locked, caller>> /\ \A r \in Sources : worker'[r].at = worker[r].at
    BY <1>9 DEF AddSource, RemoveSource, Progress
  <2> QED BY <2>1
<1>10. CASE UNCHANGED vars
  BY <1>10 DEF vars
<1> QED BY <1>1, <1>2, <1>3, <1>4, <1>5, <1>6, <1>7, <1>8, <1>9, <1>10
        DEF Next, PassStep

(* Of all the calls of the scheduler and of queries, at most one is inside *)
(* the pass, and sources are worked on only while one is.                  *)
THEOREM MutualExclusion == Spec => []SinglePass
<1>1. TypeInv /\ [Next]_vars => TypeInv'
  BY TypeStep, RangeStep DEF TypeInv
<1>2. LockInv => SinglePass
  BY DEF LockInv
<1> QED BY TypeInit, LockInit, LockStep, <1>1, <1>2, PTL DEF Spec

(* When the second read of the sources never throws, a taken mutex always  *)
(* has a pass that will release it.                                        *)
THEOREM LockNotLeaked ==
    ASSUME "reread" \notin Faults
    PROVE  Spec => []LockHeldByPass
<1> USE DEF LockHeldByPass
<1>1. Init => LockHeldByPass
  BY DEF Init
<1>2. TypeInv /\ LockHeldByPass /\ [Next]_vars => LockHeldByPass'
  <2> SUFFICES ASSUME TypeInv, LockHeldByPass, [Next]_vars PROVE LockHeldByPass'
    OBVIOUS
  <2>0. caller \in [Callers -> {"idle", "called", "reading", "syncing"}]
    BY DEF TypeInv, TypeOK
  <2>1. ASSUME NEW s \in Sources, Grow(s) \/ AddSource(s) \/ RemoveSource(s) \/ SourceStep(s)
        PROVE  LockHeldByPass'
    <3>1. UNCHANGED <<locked, caller>>
      BY <2>1 DEF Grow, AddSource, RemoveSource, SourceStep, FetchPage, SkipSpend, ReadTx,
                  NextPage, SaveCursor, SyncMint, LookupFails, SyncBurn, SourceGone, Fail
    <3> QED BY <3>1
  <2>2. ASSUME NEW c \in Callers, Call(c) PROVE LockHeldByPass'
    BY <2>0, <2>2 DEF Call
  <2>3. ASSUME NEW c \in Callers, Refused(c) PROVE LockHeldByPass'
    BY <2>0, <2>3 DEF Refused
  <2>4. ASSUME NEW c \in Callers, Acquire(c) PROVE LockHeldByPass'
    BY <2>0, <2>4 DEF Acquire
  <2>5. ASSUME NEW c \in Callers, ReadSources(c) PROVE LockHeldByPass'
    BY <2>0, <2>5 DEF ReadSources
  <2>6. ASSUME NEW c \in Callers, NoSources(c) \/ RereadFails(c) \/ Finish(c)
        PROVE  LockHeldByPass'
    BY <2>6 DEF NoSources, RereadFails, Finish
  <2>7. CASE Crash
    BY <2>7 DEF Crash
  <2>8. CASE UNCHANGED vars
    BY <2>8 DEF vars
  <2> QED BY <2>1, <2>2, <2>3, <2>4, <2>5, <2>6, <2>7, <2>8 DEF Next, PassStep
<1>3. TypeInv /\ [Next]_vars => TypeInv'
  BY TypeStep, RangeStep DEF TypeInv
<1> QED BY TypeInit, <1>1, <1>2, <1>3, PTL DEF Spec

---------------------------------------------------------------------------
(* Sources come and go.                                                    *)

Busy(s) == worker[s].at \in {"fetch", "scan", "assets"}

RowOK(s) ==
    /\ worker[s].held => source[s] /\ (Busy(s) \/ worker[s].at = "done")
    /\ ~source[s] => Fresh(s)
    /\ Busy(s) /\ ~worker[s].held => Fresh(s)

LEMMA RowInit == Init => \A s \in Sources : RowOK(s)
  BY DEF Init, RowOK, Fresh, Off

(* Only the source of the row and its pass matter to a row.                *)
LEMMA RowFrame ==
    ASSUME NEW s \in Sources, RowOK(s),
           UNCHANGED <<source[s], cursor[s], registry[s], worker[s]>>
    PROVE  RowOK(s)'
  BY DEF RowOK, Fresh, Busy

(* A step of a pass that writes neither the row nor an entry.              *)
LEMMA RowQuiet ==
    ASSUME NEW s \in Sources, RowOK(s),
           UNCHANGED <<source[s], cursor[s], registry[s]>>,
           \/ ~Busy(s)' /\ worker'[s].at # "done" /\ worker'[s].held = FALSE
           \/ Busy(s) /\ (Busy(s)' \/ worker'[s].at = "done") /\ worker'[s].held = worker[s].held
    PROVE  RowOK(s)'
  BY DEF RowOK, Fresh

LEMMA RowSourceStep ==
    ASSUME TypeInv, NEW s \in Sources, RowOK(s), SourceStep(s)
    PROVE  RowOK(s)'
<1>0. /\ worker \in [Sources -> Progress] /\ worker[s] \in Progress
      /\ registry \in [Sources -> [Assets -> EntryStates]]
      /\ cursor \in [Sources -> Position]
  BY DEF TypeInv, TypeOK
<1>1. CASE FetchPage(s)
  <2>1. UNCHANGED <<source[s], cursor[s], registry[s]>> /\ Busy(s)
    BY <1>1 DEF FetchPage, Busy
  <2>2. (Busy(s)' \/ worker'[s].at = "done") /\ worker'[s].held = worker[s].held
    <3>1. CASE FirstOn(worker[s].page) > Len(chain[s])
      <4>1. worker'[s] = [Off EXCEPT !.at = "done", !.held = worker[s].held]
        BY <1>0, <1>1, <3>1 DEF FetchPage
      <4> QED BY <4>1 DEF Off
    <3>2. CASE ~(FirstOn(worker[s].page) > Len(chain[s]))
      <4>1. PICK p : worker' = [worker EXCEPT ![s].at = "scan", ![s].pos = p,
                                  ![s].upto = PageEnd(s, worker[s].page)]
        BY <1>1, <3>2 DEF FetchPage
      <4> QED BY <1>0, <4>1 DEF Busy, Progress
    <3> QED BY <3>1, <3>2
  <2> QED BY <2>1, <2>2, RowQuiet
<1>2. CASE SkipSpend(s) \/ ReadTx(s) \/ NextPage(s)
  <2>1. UNCHANGED <<source[s], cursor[s], registry[s]>> /\ Busy(s)
    BY <1>2 DEF SkipSpend, ReadTx, NextPage, Scanning, Busy
  <2>2. Busy(s)' /\ worker'[s].held = worker[s].held
    BY <1>0, <1>2 DEF SkipSpend, ReadTx, NextPage, Scanning, Busy, Progress
  <2> QED BY <2>1, <2>2, RowQuiet
<1>3. CASE SourceGone(s) \/ Fail(s)
  <2>1. UNCHANGED <<source[s], cursor[s], registry[s]>>
    BY <1>3 DEF SourceGone, Fail
  <2>2. worker'[s].at = "failed" /\ worker'[s].held = FALSE
    BY <1>0, <1>3 DEF SourceGone, Fail, Off
  <2> QED BY <2>1, <2>2, RowQuiet DEF Busy
<1>4. CASE SaveCursor(s)
  <2>1. worker[s].held /\ source'[s] = source[s] /\ worker[s].at = "assets"
    BY <1>4 DEF SaveCursor
  <2>2. worker'[s].at = "scan" /\ worker'[s].held = worker[s].held
    BY <1>0, <1>4 DEF SaveCursor, Progress
  <2> QED BY <2>1, <2>2 DEF RowOK, Busy
<1>5. ASSUME NEW a \in Assets, SyncMint(s, a) \/ LookupFails(s, a) \/ SyncBurn(s, a)
      PROVE  RowOK(s)'
  <2>1. /\ worker[s].at = "assets" /\ UNCHANGED <<source, cursor>>
        /\ worker' = [worker EXCEPT ![s].todo = @ \ {a}]
    BY <1>5 DEF SyncMint, LookupFails, SyncBurn, Pending
  <2>2. worker'[s].at = "assets" /\ worker'[s].held = worker[s].held
    BY <1>0, <2>1 DEF Progress
  <2>3. CASE worker[s].held
    BY <2>1, <2>2, <2>3 DEF RowOK, Busy
  <2>4. CASE ~worker[s].held
    <3>1. Fresh(s)
      BY <2>1, <2>4 DEF RowOK, Busy
    <3>2. UNCHANGED registry
      BY <1>5, <2>4, <3>1 DEF SyncMint, LookupFails, SyncBurn, Fresh
    <3> QED BY <2>1, <2>2, <3>2, RowQuiet DEF Busy
  <2> QED BY <2>3, <2>4
<1> QED BY <1>1, <1>2, <1>3, <1>4, <1>5 DEF SourceStep

(* A pass whose row is gone writes nothing any more.                       *)
LEMMA WithoutRow ==
    ASSUME TypeInv, TypeOK', NEW s \in Sources, RowOK(s), ~worker[s].held, SourceStep(s)
    PROVE  UNCHANGED <<chain, source, cursor, registry>> /\ worker'[s].held = FALSE
<1>0. /\ worker \in [Sources -> Progress] /\ worker[s] \in Progress
      /\ worker[s].held = FALSE /\ worker'[s].held \in BOOLEAN
  BY DEF TypeInv, TypeOK, Progress
<1>1. CASE FetchPage(s)
  <2>1. CASE FirstOn(worker[s].page) > Len(chain[s])
    <3>1. worker'[s] = [Off EXCEPT !.at = "done", !.held = worker[s].held]
      BY <1>0, <1>1, <2>1 DEF FetchPage
    <3> QED BY <1>0, <1>1, <3>1 DEF Off, FetchPage
  <2>2. CASE ~(FirstOn(worker[s].page) > Len(chain[s]))
    <3>1. PICK p : worker' = [worker EXCEPT ![s].at = "scan", ![s].pos = p,
                                ![s].upto = PageEnd(s, worker[s].page)]
      BY <1>1, <2>2 DEF FetchPage
    <3> QED BY <1>0, <1>1, <3>1 DEF Progress, FetchPage
  <2> QED BY <2>1, <2>2
<1>2. CASE SkipSpend(s) \/ ReadTx(s) \/ NextPage(s)
  BY <1>0, <1>2 DEF SkipSpend, ReadTx, NextPage, Progress
<1>3. ASSUME NEW a \in Assets, SyncMint(s, a) \/ LookupFails(s, a) \/ SyncBurn(s, a)
      PROVE  UNCHANGED <<chain, source, cursor, registry>> /\ worker'[s].held = FALSE
  <2>1. /\ worker' = [worker EXCEPT ![s].todo = @ \ {a}] /\ worker[s].at = "assets"
        /\ UNCHANGED <<chain, source, cursor>>
    BY <1>3 DEF SyncMint, LookupFails, SyncBurn, Pending
  <2>2. registry[s][a] = "absent"
    BY <1>0, <2>1 DEF RowOK, Busy, Fresh
  <2>3. UNCHANGED registry
    BY <1>0, <1>3, <2>2 DEF SyncMint, LookupFails, SyncBurn
  <2> QED BY <1>0, <2>1, <2>3 DEF Progress
<1>4. CASE SourceGone(s) \/ Fail(s)
  BY <1>0, <1>4 DEF SourceGone, Fail, Off
<1> QED BY <1>0, <1>1, <1>2, <1>3, <1>4 DEF SourceStep, SaveCursor

LEMMA RowStep ==
    TypeInv /\ (\A s \in Sources : RowOK(s)) /\ [Next]_vars => \A s \in Sources : RowOK(s)'
<1> SUFFICES ASSUME TypeInv, \A s \in Sources : RowOK(s), [Next]_vars, NEW r \in Sources
             PROVE  RowOK(r)'
  OBVIOUS
<1>0. /\ worker \in [Sources -> Progress] /\ worker[r] \in Progress /\ RowOK(r)
      /\ registry \in [Sources -> [Assets -> EntryStates]]
      /\ cursor \in [Sources -> Position] /\ source \in [Sources -> BOOLEAN]
  BY DEF TypeInv, TypeOK
<1>1. CASE UNCHANGED <<source[r], cursor[r], registry[r], worker[r]>>
  BY <1>0, <1>1, RowFrame
<1>2. ASSUME NEW s \in Sources, Grow(s) PROVE RowOK(r)'
  BY <1>1, <1>2 DEF Grow
<1>3. ASSUME NEW s \in Sources, AddSource(s) PROVE RowOK(r)'
  <2>1. CASE s # r
    BY <1>0, <1>1, <1>3, <2>1 DEF AddSource
  <2>2. CASE s = r
    <3>1. Fresh(r) /\ ~worker[r].held
      BY <1>0, <1>3, <2>2 DEF AddSource, RowOK
    <3>2. /\ source'[r] = TRUE /\ cursor'[r] = Start
          /\ UNCHANGED <<registry, worker>>
      BY <1>0, <1>3, <2>2 DEF AddSource
    <3> QED BY <3>1, <3>2 DEF RowOK, Fresh, Busy
  <2> QED BY <2>1, <2>2
<1>4. ASSUME NEW s \in Sources, RemoveSource(s) PROVE RowOK(r)'
  <2>1. CASE s # r
    BY <1>0, <1>1, <1>4, <2>1 DEF RemoveSource
  <2>2. CASE s = r
    <3>1. /\ cursor'[r] = Start /\ registry'[r] = [a \in Assets |-> "absent"]
      BY <1>0, <1>4, <2>2 DEF RemoveSource
    <3>2. worker'[r].held = FALSE
      BY <1>0, <1>4, <2>2 DEF RemoveSource, Progress
    <3> QED BY <3>1, <3>2 DEF RowOK, Fresh
  <2> QED BY <2>1, <2>2
<1>5. ASSUME NEW s \in Sources, SourceStep(s) PROVE RowOK(r)'
  <2>1. CASE s = r
    BY <1>0, <1>5, <2>1, RowSourceStep
  <2>2. CASE s # r
    <3>1. UNCHANGED <<source[r], cursor[r], registry[r], worker[r]>>
      BY <1>0, <1>5, <2>2 DEF SourceStep, FetchPage, SkipSpend, ReadTx, NextPage,
         SaveCursor, SyncMint, LookupFails, SyncBurn, SourceGone, Fail
    <3> QED BY <1>1, <3>1
  <2> QED BY <2>1, <2>2
<1>6. ASSUME NEW c \in Callers,
             Call(c) \/ Refused(c) \/ Acquire(c) \/ NoSources(c) \/ RereadFails(c)
      PROVE  RowOK(r)'
  BY <1>1, <1>6 DEF Call, Refused, Acquire, NoSources, RereadFails
<1>7. ASSUME NEW c \in Callers, ReadSources(c) PROVE RowOK(r)'
  <2>1. UNCHANGED <<source, cursor, registry>>
    BY <1>7 DEF ReadSources
  <2>2. CASE source[r]
    <3>1. worker'[r].at = "fetch" /\ worker'[r].held = TRUE
      BY <1>7, <2>2 DEF ReadSources, Off
    <3> QED BY <2>1, <2>2, <3>1 DEF RowOK, Busy
  <2>3. CASE ~source[r]
    <3>1. worker'[r].at = "off" /\ worker'[r].held = FALSE
      BY <1>7, <2>3 DEF ReadSources, Off
    <3> QED BY <1>0, <2>1, <3>1, RowQuiet DEF Busy
  <2> QED BY <2>2, <2>3
<1>8. CASE Crash \/ \E c \in Callers : Finish(c)
  <2>1. UNCHANGED <<source, cursor, registry>>
    BY <1>8 DEF Crash, Finish
  <2>2. worker'[r].at = "off" /\ worker'[r].held = FALSE
    BY <1>8 DEF Crash, Finish, Off
  <2> QED BY <1>0, <2>1, <2>2, RowQuiet DEF Busy
<1>9. CASE UNCHANGED vars
  BY <1>1, <1>9 DEF vars
<1> QED BY <1>2, <1>3, <1>4, <1>5, <1>6, <1>7, <1>8, <1>9 DEF Next, PassStep

(* Nothing of a removed source is left or comes back, whatever pass is     *)
(* still at work on it.                                                    *)
THEOREM RemovedIsGone == Spec => []RemovedLeavesNothing
<1>1. (\A s \in Sources : RowOK(s)) => RemovedLeavesNothing
  BY DEF RowOK, RemovedLeavesNothing, Busy
<1>2. TypeInv /\ [Next]_vars => TypeInv'
  BY TypeStep, RangeStep DEF TypeInv
<1>3. TypeInv /\ (\A s \in Sources : RowOK(s)) /\ [Next]_vars
        => (\A s \in Sources : RowOK(s))'
  BY RowStep
<1> QED BY TypeInit, RowInit, <1>1, <1>2, <1>3, PTL DEF Spec

---------------------------------------------------------------------------
(* Where a pass is on its pages.                                           *)

Place(s) == ChainOK(chain[s]) /\ CursorOK(s) /\ PlaceOK(s)

(* What the steps of one source work with.                                 *)
LEMMA SourceTypes ==
    ASSUME TypeInv, NEW s \in Sources
    PROVE  /\ chain[s] \in Seq(Redeemer)
           /\ cursor[s] \in Position
           /\ registry[s] \in [Assets -> EntryStates]
           /\ worker[s] \in Progress
           /\ FirstOn(worker[s].page) \in Nat \ {0}
           /\ LastOn(worker[s].page) \in Nat
           /\ FirstOn(worker[s].page) <= LastOn(worker[s].page)
           /\ FirstOn(worker[s].page + 1) = LastOn(worker[s].page) + 1
           /\ cursor[s].tx \in Nat
           /\ cursor[s].page \in Nat \ {0}
           /\ worker[s].page \in Nat \ {0}
           /\ worker[s].from \in Nat
           /\ worker[s].pos \in Nat
           /\ worker[s].upto \in Nat
<1>1. /\ chain[s] \in Seq(Redeemer)
      /\ cursor[s] \in Position
      /\ registry[s] \in [Assets -> EntryStates]
      /\ worker[s] \in Progress
  BY DEF TypeInv, TypeOK
<1>2. /\ cursor[s].tx \in Nat
      /\ cursor[s].page \in Nat \ {0}
  BY <1>1 DEF Position
<1>3. /\ worker[s].page \in Nat \ {0}
      /\ worker[s].from \in Nat
      /\ worker[s].pos \in Nat
      /\ worker[s].upto \in Nat
  BY <1>1 DEF Progress
<1> QED BY <1>1, <1>2, <1>3, PageArithmetic

(* A new transaction has one mint redeemer of the policy at most.          *)
LEMMA TransactionShape ==
    ASSUME NEW t \in Nat \ {0}, NEW m \in SUBSET Assets, NEW b \in SUBSET Assets
    PROVE  \A n \in {<<Spend(t)>>} \cup Transactions(t, m, b) :
              /\ \A i \in DOMAIN n : n[i] \in {Spend(t), Mint(t, m, b)}
              /\ \A i, j \in DOMAIN n :
                    n[i].purpose = "mint" /\ n[j].purpose = "mint" => i = j
<1> SUFFICES ASSUME NEW n \in {<<Spend(t)>>} \cup Transactions(t, m, b)
             PROVE  /\ \A i \in DOMAIN n : n[i] \in {Spend(t), Mint(t, m, b)}
                    /\ \A i, j \in DOMAIN n :
                          n[i].purpose = "mint" /\ n[j].purpose = "mint" => i = j
  OBVIOUS
<1>1. \A i \in DOMAIN n : n[i] \in {Spend(t), Mint(t, m, b)}
  BY DEF Transactions
<1>2. n \in {<<Spend(t)>>, <<Mint(t, m, b)>>, <<Spend(t), Mint(t, m, b)>>,
             <<Mint(t, m, b), Spend(t)>>}
  BY DEF Transactions
<1>3. Spend(t).purpose # "mint"
  BY DEF Spend
<1>4. \A i, j \in DOMAIN n : n[i].purpose = "mint" /\ n[j].purpose = "mint" => i = j
  BY <1>2, <1>3
<1> QED BY <1>1, <1>4

LEMMA GrowChainOK ==
    ASSUME TypeInv, NEW s \in Sources, ChainOK(chain[s]), Grow(s)
    PROVE  ChainOK(chain'[s])
<1> DEFINE ch == chain[s]
           L  == Len(chain[s])
           t  == LastTx(chain[s]) + 1
<1>1. ch \in Seq(Redeemer) /\ chain \in [Sources -> Seq(Redeemer)]
  BY DEF TypeInv, TypeOK
<1>2. LastTx(ch) \in Nat /\ \A i \in DOMAIN ch : ch[i].tx <= LastTx(ch)
  BY <1>1, LastIsLatest
<1>3. t \in Nat \ {0} /\ L \in Nat /\ DOMAIN ch = 1..L
  BY <1>1, <1>2, ChainTypes
<1>4. PICK m \in SUBSET (Assets \ InCirculation(s)), b \in SUBSET InCirculation(s) :
        \E n \in {<<Spend(t)>>} \cup Transactions(t, m, b) :
          chain' = [chain EXCEPT ![s] = @ \o n]
  BY DEF Grow
<1>5. m \in SUBSET Assets /\ b \in SUBSET Assets /\ m \cap b = {}
  BY <1>4 DEF InCirculation
<1>6. \A a \in b : \E j \in DOMAIN ch : a \in ch[j].minted
  BY <1>4 DEF InCirculation, Live
<1>7. PICK n \in {<<Spend(t)>>} \cup Transactions(t, m, b) :
        chain' = [chain EXCEPT ![s] = @ \o n]
  BY <1>4
<1>8. /\ \A i \in DOMAIN n : n[i] \in {Spend(t), Mint(t, m, b)}
      /\ \A i, j \in DOMAIN n : n[i].purpose = "mint" /\ n[j].purpose = "mint" => i = j
  <2> HIDE DEF t
  <2>1. \A k \in {<<Spend(t)>>} \cup Transactions(t, m, b) :
          /\ \A i \in DOMAIN k : k[i] \in {Spend(t), Mint(t, m, b)}
          /\ \A i, j \in DOMAIN k :
                k[i].purpose = "mint" /\ k[j].purpose = "mint" => i = j
    BY <1>3, <1>5, TransactionShape, Zenon
  <2> QED BY <2>1, Zenon
<1>9. n \in Seq(Redeemer)
  <2> HIDE DEF t
  <2>1. \A k \in {<<Spend(t)>>} \cup Transactions(t, m, b) : k \in Seq(Redeemer)
    BY <1>3, <1>5, TransactionType, Zenon
  <2> QED BY <2>1, Zenon
<1> DEFINE new == chain'[s]
<1>10. /\ new \in Seq(Redeemer)
       /\ Len(new) = L + Len(n) /\ Len(n) \in Nat
       /\ DOMAIN new = 1..(L + Len(n)) /\ DOMAIN n = 1..Len(n)
       /\ \A i \in 1..(L + Len(n)) : new[i] = IF i <= L THEN ch[i] ELSE n[i - L]
  <2>1. new = ch \o n
    BY <1>1, <1>7
  <2> QED BY <1>1, <1>9, <2>1, ConcatProperties, ChainTypes
<1>11. \A i \in DOMAIN new :
         \/ i \in DOMAIN ch /\ new[i] = ch[i]
         \/ /\ L < i /\ i - L \in DOMAIN n /\ new[i] = n[i - L]
            /\ new[i] \in {Spend(t), Mint(t, m, b)}
  <2> HIDE DEF new, ch, L
  <2> SUFFICES ASSUME NEW i \in DOMAIN new
               PROVE  \/ i \in DOMAIN ch /\ new[i] = ch[i]
                      \/ /\ L < i /\ i - L \in DOMAIN n /\ new[i] = n[i - L]
                         /\ new[i] \in {Spend(t), Mint(t, m, b)}
    OBVIOUS
  <2>1. CASE i <= L
    BY <1>3, <1>10, <2>1
  <2>2. CASE ~(i <= L)
    <3>1. L < i /\ i - L \in DOMAIN n /\ new[i] = n[i - L]
      BY <1>3, <1>10, <2>2
    <3> QED BY <1>8, <3>1
  <2> QED BY <2>1, <2>2
<1>12. \A i \in DOMAIN new : i \notin DOMAIN ch =>
         /\ new[i].tx = t /\ new[i].minted \subseteq m /\ new[i].burned \subseteq b
         /\ new[i].purpose # "mint" => new[i].minted = {} /\ new[i].burned = {}
  BY <1>11 DEF Spend, Mint
<1>13. \A i \in DOMAIN ch : i \in DOMAIN new /\ new[i] = ch[i] /\ i \in Nat /\ i <= L
  BY <1>3, <1>10
<1>14. \A i \in DOMAIN new : i \in Nat /\ (i \notin DOMAIN ch <=> L < i)
  BY <1>3, <1>10
<1> HIDE DEF new, t, ch, L
<1>15. \A i, j \in DOMAIN new : i < j => new[i].tx <= new[j].tx
  BY <1>2, <1>3, <1>12, <1>13, <1>14, ChainTypes, <1>1 DEF ChainOK, ch, t, L
<1>16. \A i, j \in Mints(new) : i < j => new[i].tx < new[j].tx
  <2> SUFFICES ASSUME NEW i \in Mints(new), NEW j \in Mints(new), i < j
               PROVE  new[i].tx < new[j].tx
    OBVIOUS
  <2>1. i \in DOMAIN new /\ j \in DOMAIN new
    BY DEF Mints
  <2>2. CASE j \in DOMAIN ch
    <3>1. i \in DOMAIN ch
      BY <1>13, <1>14, <2>1, <2>2, <1>3 DEF L
    <3> QED BY <1>13, <2>2, <3>1 DEF ChainOK, Mints, ch
  <2>3. CASE j \notin DOMAIN ch /\ i \in DOMAIN ch
    BY <1>2, <1>3, <1>12, <1>13, <2>1, <2>3, ChainTypes, <1>1 DEF t, ch
  <2>4. CASE j \notin DOMAIN ch /\ i \notin DOMAIN ch
    <3>1. i - L = j - L
      BY <1>8, <1>11, <2>1, <2>4 DEF Mints
    <3> QED BY <1>3, <1>14, <2>1, <3>1 DEF L
  <2> QED BY <2>2, <2>3, <2>4
<1>17. \A i \in DOMAIN new \ Mints(new) : new[i].minted = {} /\ new[i].burned = {}
  BY <1>12, <1>13 DEF ChainOK, Mints, ch
<1>18. \A i \in DOMAIN new : new[i].minted \cap new[i].burned = {}
  BY <1>5, <1>12, <1>13 DEF ChainOK, ch
<1>19. \A i \in DOMAIN new : \A a \in new[i].burned :
         \E j \in DOMAIN new : j < i /\ a \in new[j].minted
  <2> SUFFICES ASSUME NEW i \in DOMAIN new, NEW a \in new[i].burned
               PROVE  \E j \in DOMAIN new : j < i /\ a \in new[j].minted
    OBVIOUS
  <2>1. CASE i \in DOMAIN ch
    BY <1>13, <2>1 DEF ChainOK, ch
  <2>2. CASE i \notin DOMAIN ch
    <3>1. PICK j \in DOMAIN ch : a \in ch[j].minted
      BY <1>6, <1>12, <2>2 DEF ch
    <3> QED BY <1>3, <1>13, <1>14, <2>2, <3>1 DEF L
  <2> QED BY <2>1, <2>2
<1> QED BY <1>15, <1>16, <1>17, <1>18, <1>19 DEF ChainOK, new

LEMMA PlaceInit == Init => \A s \in Sources : Place(s)
<1> SUFFICES ASSUME Init, NEW s \in Sources PROVE Place(s)
  OBVIOUS
<1>1. chain[s] = <<>> /\ cursor[s] = Start /\ worker[s] = Off
  BY DEF Init
<1>2. ChainOK(chain[s])
  BY <1>1, EmptySeq DEF ChainOK, Mints
<1> QED BY <1>1, <1>2 DEF Place, CursorOK, PlaceOK, Off

LEMMA PlaceFrame ==
    ASSUME NEW s \in Sources, Place(s), UNCHANGED <<chain[s], cursor[s]>>,
           worker'[s] = worker[s] \/ worker'[s].held = FALSE
    PROVE  Place(s)'
  BY DEF Place, CursorOK, PlaceOK, NothingOlder

LEMMA PlaceGrow ==
    ASSUME TypeInv, TypeOK', NEW s \in Sources, NEW r \in Sources, Place(r), Grow(s)
    PROVE  Place(r)'
<1>1. UNCHANGED <<cursor, worker>>
  BY DEF Grow
<1>2. /\ chain[r] \in Seq(Redeemer) /\ chain'[r] \in Seq(Redeemer)
      /\ ChainOK(chain[r]) /\ CursorOK(r)
  BY DEF TypeInv, TypeOK, Place
<1>3. Extended(chain[r], chain'[r])
  BY GrowExtends DEF TypeInv
<1>4. ChainOK(chain'[r])
  <2>1. CASE r = s
    BY <1>2, <2>1, GrowChainOK
  <2>2. CASE r # s
    <3>1. chain'[r] = chain[r]
      BY <2>2 DEF Grow, TypeInv, TypeOK
    <3> QED BY <1>2, <3>1
  <2> QED BY <2>1, <2>2
<1>5. \A i \in Mints(chain[r]) : i \in Mints(chain'[r]) /\ chain'[r][i] = chain[r][i]
  BY <1>2, <1>3, ChainTypes DEF Extended, Mints
<1>6. CursorOK(r)'
  BY <1>1, <1>2, <1>5 DEF CursorOK
<1>7. cursor[r].tx \in Nat /\ cursor[r].tx <= LastTx(chain[r]) /\ LastTx(chain[r]) \in Nat
  BY <1>2, SourceTypes, LastIsLatest, MintTypes, LastTxType DEF CursorOK, Start
<1>8. ASSUME NEW p, NothingOlder(r, p) PROVE NothingOlder(r, p)'
  <2> SUFFICES ASSUME NEW i \in Mints(chain'[r]), p <= i
               PROVE  cursor[r].tx <= chain'[r][i].tx
    BY <1>1 DEF NothingOlder
  <2>1. CASE i \in DOMAIN chain[r]
    <3>1. i \in Mints(chain[r]) /\ chain'[r][i] = chain[r][i]
      BY <1>3, <2>1 DEF Extended, Mints
    <3> QED BY <1>8, <3>1 DEF NothingOlder
  <2>2. CASE i \notin DOMAIN chain[r]
    <3>1. LastTx(chain[r]) < chain'[r][i].tx /\ chain'[r][i].tx \in Nat
      BY <1>2, <1>3, <2>2, ChainTypes DEF Extended, Mints
    <3> QED BY <1>7, <3>1
  <2> QED BY <2>1, <2>2
<1>9. PlaceOK(r)'
  BY <1>1, <1>8 DEF Place, PlaceOK
<1> QED BY <1>4, <1>6, <1>9 DEF Place

(* The redeemer a page's processing starts at: nothing older is left in,   *)
(* and what is cut off is not newer than where the pass started.           *)
LEMMA FetchCut ==
    ASSUME TypeInv, NEW s \in Sources, Place(s), worker[s].held, FetchPage(s),
           ~(FirstOn(worker[s].page) > Len(chain[s]))
    PROVE  \E p \in FirstOn(worker[s].page)..(PageEnd(s, worker[s].page) + 1) :
              /\ worker'[s] = [worker[s] EXCEPT !.at = "scan", !.pos = p,
                                                !.upto = PageEnd(s, worker[s].page)]
              /\ NothingOlder(s, p)
              /\ \/ p = FirstOn(worker[s].page)
                 \/ \A i \in DOMAIN chain[s] : i < p => chain[s][i].tx <= worker[s].from
<1> DEFINE ch == chain[s]
           c  == cursor[s]
           w  == worker[s]
           lo == FirstOn(w.page)
<1>1. /\ w.at = "fetch"
      /\ worker \in [Sources -> Progress]
  BY DEF FetchPage, TypeInv, TypeOK
<1>2. /\ [page |-> w.page, tx |-> w.from] = c \/ NothingOlder(s, lo)
      /\ ChainOK(ch) /\ CursorOK(s)
  BY <1>1 DEF Place, PlaceOK
<1>3. PICK p \in lo..(PageEnd(s, w.page) + 1) :
        /\ \/ p > lo /\ IsFirstOf(s, w.page, w.from, p - 1)
           \/ p = lo /\ \A i \in p..PageEnd(s, w.page) : ch[i].tx # w.from
        /\ worker' = [worker EXCEPT ![s].at = "scan", ![s].pos = p,
                                    ![s].upto = PageEnd(s, w.page)]
  BY DEF FetchPage
<1>4. p \in Nat
  BY SourceTypes, ChainTypes DEF PageEnd
<1>5. ASSUME IsFirstOf(s, w.page, w.from, p - 1)
      PROVE  /\ \A i \in DOMAIN ch : i < p => ch[i].tx <= w.from
             /\ \A i \in DOMAIN ch : p <= i => w.from <= ch[i].tx
  <2>1. p - 1 \in lo..PageEnd(s, w.page) /\ ch[p - 1].tx = w.from
    BY <1>5 DEF IsFirstOf
  <2>2. PageEnd(s, w.page) <= Len(ch) /\ PageEnd(s, w.page) \in Nat
    BY SourceTypes, ChainTypes DEF PageEnd
  <2>3. p - 1 \in DOMAIN ch /\ p \in Nat
    BY <2>1, <2>2, SourceTypes, ChainTypes
  <2>4. \A i, j \in DOMAIN ch : i <= j => ch[i].tx <= ch[j].tx
    BY <1>2, SourceTypes, ChainOrder
  <2>5. \A i \in DOMAIN ch : i \in Nat /\ (i < p => i <= p - 1) /\ (p <= i => p - 1 <= i)
    BY <2>3, SourceTypes, ChainTypes
  <2> QED BY <2>1, <2>3, <2>4, <2>5
<1>6. NothingOlder(s, p)
  <2>1. CASE NothingOlder(s, lo)
    BY <1>3, <2>1, SourceTypes, ChainTypes DEF NothingOlder, Mints, PageEnd
  <2>2. CASE w.page = c.page /\ w.from = c.tx
    <3>1. CASE c.tx = 0
      BY <3>1, SourceTypes, ChainTypes DEF NothingOlder, Mints
    <3>2. CASE c.tx # 0
      <4>1. PICK k \in Mints(ch) :
              ch[k].tx = c.tx /\ k \in FirstOn(c.page)..LastOn(c.page)
        BY <1>2, <3>2 DEF CursorOK, Start
      <4>2. k \in lo..PageEnd(s, w.page)
        BY <2>2, <4>1, SourceTypes, ChainTypes DEF PageEnd, Mints
      <4>3. IsFirstOf(s, w.page, w.from, p - 1)
        BY <1>3, <2>2, <4>1, <4>2
      <4> QED BY <1>5, <2>2, <4>3 DEF NothingOlder, Mints
    <3> QED BY <3>1, <3>2
  <2> QED BY <1>2, <2>1, <2>2, SourceTypes DEF Position
<1> QED BY <1>1, <1>3, <1>5, <1>6

LEMMA PlaceFetch ==
    ASSUME TypeInv, NEW s \in Sources, Place(s), worker[s].held, FetchPage(s)
    PROVE  Place(s)'
<1>1. /\ UNCHANGED <<chain[s], cursor[s]>> /\ worker[s].at = "fetch"
      /\ worker \in [Sources -> Progress]
  BY DEF FetchPage, TypeInv, TypeOK
<1>2. CASE FirstOn(worker[s].page) > Len(chain[s])
  <2>1. worker'[s] = [Off EXCEPT !.at = "done", !.held = worker[s].held]
    BY <1>1, <1>2 DEF FetchPage
  <2>2. worker'[s].at = "done"
    BY <2>1 DEF Off
  <2> QED BY <1>1, <2>2 DEF Place, CursorOK, PlaceOK
<1>3. CASE ~(FirstOn(worker[s].page) > Len(chain[s]))
  <2>1. PICK p \in FirstOn(worker[s].page)..(PageEnd(s, worker[s].page) + 1) :
          /\ worker'[s] = [worker[s] EXCEPT !.at = "scan", !.pos = p,
                                            !.upto = PageEnd(s, worker[s].page)]
          /\ NothingOlder(s, p)
    BY <1>3, FetchCut
  <2>2. /\ worker'[s].at = "scan" /\ worker'[s].pos = p
        /\ worker'[s].upto = PageEnd(s, worker[s].page)
        /\ worker'[s].page = worker[s].page /\ worker'[s].from = worker[s].from
    BY <1>1, <2>1, SourceTypes DEF Progress
  <2>3. PageEnd(s, worker[s].page) <= LastOn(worker[s].page)
    BY SourceTypes, ChainTypes DEF PageEnd
  <2>4. worker[s].from <= cursor[s].tx /\ cursor[s].page <= worker[s].page
    BY <1>1 DEF Place, PlaceOK
  <2> QED BY <1>1, <2>1, <2>2, <2>3, <2>4 DEF Place, CursorOK, PlaceOK, NothingOlder
<1> QED BY <1>2, <1>3

(* Past a redeemer, to the entries of a transaction, past an entry, or to  *)
(* the next page.                                                          *)
LEMMA PlaceMove ==
    ASSUME TypeInv, NEW s \in Sources, Place(s), worker[s].held,
           \/ SkipSpend(s) \/ ReadTx(s) \/ NextPage(s)
           \/ \E a \in Assets : SyncMint(s, a) \/ LookupFails(s, a) \/ SyncBurn(s, a)
    PROVE  Place(s)'
<1>1. /\ UNCHANGED <<chain[s], cursor[s]>> /\ worker[s].at \in {"scan", "assets"}
      /\ worker \in [Sources -> Progress]
  BY DEF SkipSpend, ReadTx, NextPage, SyncMint, LookupFails, SyncBurn, Scanning, Pending,
         TypeInv, TypeOK
<1>2. /\ worker[s].from <= cursor[s].tx /\ cursor[s].page <= worker[s].page
      /\ worker[s].pos \in FirstOn(worker[s].page)..(worker[s].upto + 1)
      /\ worker[s].upto <= LastOn(worker[s].page)
      /\ NothingOlder(s, worker[s].pos)
      /\ ChainOK(chain[s]) /\ CursorOK(s)
  BY <1>1 DEF Place, PlaceOK
<1>3. NothingOlder(s, worker[s].pos + 1)
  <2>1. \A i \in Mints(chain[s]) : worker[s].pos + 1 <= i => worker[s].pos <= i
    BY SourceTypes, ChainTypes DEF Mints
  <2> QED BY <1>2, <2>1 DEF NothingOlder
<1>4. ASSUME worker'[s].upto = worker[s].upto, worker'[s].page = worker[s].page,
             worker'[s].from = worker[s].from, worker'[s].at \in {"scan", "assets"},
             \/ worker'[s].pos = worker[s].pos
             \/ worker'[s].pos = worker[s].pos + 1 /\ worker[s].pos <= worker[s].upto
      PROVE  Place(s)'
  <2>1. worker'[s].pos \in FirstOn(worker[s].page)..(worker[s].upto + 1)
    BY <1>2, <1>4, SourceTypes
  <2> QED BY <1>1, <1>2, <1>3, <1>4, <2>1 DEF Place, CursorOK, PlaceOK, NothingOlder
<1>5. CASE SkipSpend(s)
  BY <1>1, <1>4, <1>5, SourceTypes DEF SkipSpend, Scanning, Progress
<1>6. CASE ReadTx(s)
  <2>1. worker' = [worker EXCEPT ![s].at = "assets",
                     ![s].todo = Current(s).minted \cup Current(s).burned]
    BY <1>6 DEF ReadTx
  <2>2. /\ worker'[s].upto = worker[s].upto /\ worker'[s].page = worker[s].page
        /\ worker'[s].from = worker[s].from /\ worker'[s].pos = worker[s].pos
        /\ worker'[s].at = "assets"
    BY <1>1, <2>1, SourceTypes DEF Progress
  <2> QED BY <1>4, <2>2
<1>7. CASE \E a \in Assets : SyncMint(s, a) \/ LookupFails(s, a) \/ SyncBurn(s, a)
  <2>1. PICK a \in Assets : worker' = [worker EXCEPT ![s].todo = @ \ {a}]
    BY <1>7 DEF SyncMint, LookupFails, SyncBurn
  <2>2. /\ worker'[s].upto = worker[s].upto /\ worker'[s].page = worker[s].page
        /\ worker'[s].from = worker[s].from /\ worker'[s].pos = worker[s].pos
        /\ worker'[s].at = worker[s].at
    BY <1>1, <2>1, SourceTypes DEF Progress
  <2> QED BY <1>1, <1>4, <2>2
<1>8. CASE NextPage(s)
  <2>1. /\ worker'[s].at = "fetch" /\ worker'[s].page = worker[s].page + 1
        /\ worker'[s].from = worker[s].from
    BY <1>1, <1>8, SourceTypes DEF NextPage, Progress
  <2>2. worker[s].pos <= FirstOn(worker[s].page + 1)
    BY <1>2, SourceTypes
  <2>3. \A i \in Mints(chain[s]) : FirstOn(worker[s].page + 1) <= i => worker[s].pos <= i
    BY <2>2, SourceTypes, ChainTypes DEF Mints
  <2>4. NothingOlder(s, FirstOn(worker[s].page + 1))
    BY <1>2, <2>3 DEF NothingOlder
  <2>5. cursor[s].page <= worker[s].page + 1
    BY <1>2, SourceTypes
  <2> QED BY <1>1, <1>2, <2>1, <2>4, <2>5 DEF Place, CursorOK, PlaceOK, NothingOlder
<1> QED BY <1>5, <1>6, <1>7, <1>8

(* The cursor moves to the transaction just applied, which is not older.   *)
LEMMA SaveMoves ==
    ASSUME TypeInv, NEW s \in Sources, Place(s), SaveCursor(s)
    PROVE  /\ worker[s].pos \in Mints(chain[s])
           /\ cursor'[s] = [page |-> worker[s].page, tx |-> Current(s).tx]
           /\ cursor'[s].page = worker[s].page
           /\ cursor'[s].tx = Current(s).tx /\ Current(s).tx \in Nat
           /\ cursor[s].tx <= Current(s).tx
           /\ cursor[s].page <= worker[s].page
<1>1. worker[s].at = "assets" /\ worker[s].held
  BY DEF SaveCursor
<1>2. worker[s].pos \in Mints(chain[s])
  <2>1. worker[s].pos \in DOMAIN chain[s]
    BY <1>1, CurrentType
  <2>2. chain[s][worker[s].pos].purpose = "mint"
    BY <1>1 DEF TypeInv, InRange, Current
  <2> QED BY <2>1, <2>2 DEF Mints
<1>3. cursor'[s] = [page |-> worker[s].page, tx |-> Current(s).tx]
  BY DEF SaveCursor, TypeInv, TypeOK
<1>4. NothingOlder(s, worker[s].pos) /\ cursor[s].page <= worker[s].page
  BY <1>1 DEF Place, PlaceOK
<1>5. Current(s).tx \in Nat /\ cursor[s].tx <= Current(s).tx
  BY <1>2, <1>4, SourceTypes, MintTypes DEF NothingOlder, Current
<1> QED BY <1>2, <1>3, <1>4, <1>5

LEMMA PlaceSave ==
    ASSUME TypeInv, NEW s \in Sources, Place(s), SaveCursor(s)
    PROVE  Place(s)'
<1> DEFINE ch == chain[s]
           w  == worker[s]
<1>1. /\ w.at = "assets" /\ w.held /\ UNCHANGED chain[s]
      /\ worker'[s] = [w EXCEPT !.at = "scan", !.pos = @ + 1]
  BY DEF SaveCursor, TypeInv, TypeOK
<1>2. /\ worker'[s].at = "scan" /\ worker'[s].pos = w.pos + 1
      /\ worker'[s].upto = w.upto
      /\ worker'[s].page = w.page /\ worker'[s].from = w.from
  BY <1>1, SourceTypes DEF Progress
<1>3. /\ w.pos \in FirstOn(w.page)..(w.upto + 1) /\ w.upto <= LastOn(w.page)
      /\ w.from <= cursor[s].tx /\ ChainOK(ch)
      /\ w.pos <= w.upto
  BY <1>1 DEF Place, PlaceOK, TypeInv, InRange
<1>4. /\ w.pos \in Mints(ch) /\ cursor'[s].tx = ch[w.pos].tx /\ cursor'[s].page = w.page
      /\ cursor[s].tx <= cursor'[s].tx /\ cursor'[s].tx \in Nat
  BY SaveMoves DEF Current
<1>5. CursorOK(s)'
  <2>1. w.pos \in FirstOn(w.page)..LastOn(w.page)
    BY <1>3, SourceTypes
  <2> QED BY <1>1, <1>4, <2>1 DEF CursorOK
<1>6. \A i \in Mints(ch) : w.pos + 1 <= i => ch[w.pos].tx <= ch[i].tx
  <2>1. \A i, j \in DOMAIN ch : i <= j => ch[i].tx <= ch[j].tx
    BY <1>3, SourceTypes, ChainOrder
  <2>2. \A i \in Mints(ch) : i \in DOMAIN ch /\ i \in Nat
    BY SourceTypes, MintTypes
  <2>3. \A i \in Mints(ch) : w.pos + 1 <= i => w.pos <= i
    BY <1>4, <2>2
  <2> QED BY <1>4, <2>1, <2>2, <2>3
<1>7. PlaceOK(s)'
  <2>1. w.from <= cursor'[s].tx
    BY <1>3, <1>4, SourceTypes
  <2>2. NothingOlder(s, worker[s].pos)'
    BY <1>1, <1>2, <1>4, <1>6 DEF NothingOlder
  <2>3. w.pos + 1 \in FirstOn(w.page)..(w.upto + 1)
    BY <1>3, SourceTypes
  <2> QED BY <1>2, <1>3, <1>4, <2>1, <2>2, <2>3, SourceTypes DEF PlaceOK
<1> QED BY <1>1, <1>3, <1>5, <1>7 DEF Place

LEMMA PlaceStep ==
    ASSUME TypeInv, TypeOK', \A s \in Sources : RowOK(s) /\ Place(s), [Next]_vars
    PROVE  \A s \in Sources : Place(s)'
<1> SUFFICES ASSUME NEW r \in Sources PROVE Place(r)'
  OBVIOUS
<1>0. /\ worker \in [Sources -> Progress] /\ cursor \in [Sources -> Position]
      /\ source \in [Sources -> BOOLEAN] /\ Place(r) /\ RowOK(r)
  BY DEF TypeInv, TypeOK
<1>1. ASSUME NEW s \in Sources, Grow(s) PROVE Place(r)'
  BY <1>0, <1>1, PlaceGrow
<1>2. ASSUME NEW s \in Sources, AddSource(s) PROVE Place(r)'
  <2>1. UNCHANGED <<chain, worker>>
    BY <1>2 DEF AddSource
  <2>2. cursor'[r] = cursor[r]
    <3>1. cursor[s] = Start
      BY <1>2 DEF AddSource, RowOK, Fresh
    <3> QED BY <1>0, <1>2, <3>1 DEF AddSource
  <2> QED BY <1>0, <2>1, <2>2, PlaceFrame
<1>3. ASSUME NEW s \in Sources, RemoveSource(s) PROVE Place(r)'
  <2>1. CASE s # r
    <3>1. UNCHANGED <<chain[r], cursor[r], worker[r]>>
      BY <1>0, <1>3, <2>1 DEF RemoveSource
    <3> QED BY <1>0, <3>1, PlaceFrame
  <2>2. CASE s = r
    <3>1. UNCHANGED chain /\ cursor'[r] = Start
      BY <1>0, <1>3, <2>2 DEF RemoveSource
    <3>2. worker'[r].held = FALSE
      BY <1>0, <1>3, <2>2 DEF RemoveSource, Progress
    <3> QED BY <1>0, <3>1, <3>2 DEF Place, CursorOK, PlaceOK
  <2> QED BY <2>1, <2>2
<1>4. ASSUME NEW c \in Callers,
             Call(c) \/ Refused(c) \/ Acquire(c) \/ NoSources(c) \/ RereadFails(c)
      PROVE  Place(r)'
  <2>1. UNCHANGED <<chain, cursor, worker>>
    BY <1>4 DEF Call, Refused, Acquire, NoSources, RereadFails
  <2> QED BY <1>0, <2>1, PlaceFrame
<1>5. ASSUME NEW c \in Callers, ReadSources(c) PROVE Place(r)'
  <2>1. UNCHANGED <<chain, cursor>>
    BY <1>5 DEF ReadSources
  <2>2. CASE source[r]
    <3>1. worker'[r] = [Off EXCEPT !.at = "fetch", !.held = TRUE,
                                   !.page = cursor[r].page, !.from = cursor[r].tx]
      BY <1>5, <2>2 DEF ReadSources
    <3>2. /\ worker'[r].at = "fetch" /\ worker'[r].page = cursor[r].page
          /\ worker'[r].from = cursor[r].tx
      BY <3>1 DEF Off
    <3>3. [page |-> cursor[r].page, tx |-> cursor[r].tx] = cursor[r]
      BY SourceTypes DEF Position
    <3>4. cursor[r].tx <= cursor[r].tx /\ cursor[r].page <= cursor[r].page
      BY SourceTypes
    <3> QED BY <1>0, <2>1, <3>2, <3>3, <3>4 DEF Place, CursorOK, PlaceOK
  <2>3. CASE ~source[r]
    <3>1. worker'[r].held = FALSE
      BY <1>5, <2>3 DEF ReadSources, Off
    <3> QED BY <1>0, <2>1, <3>1, PlaceFrame
  <2> QED BY <2>2, <2>3
<1>6. CASE Crash \/ \E c \in Callers : Finish(c)
  <2>1. UNCHANGED <<chain, cursor>> /\ worker'[r].held = FALSE
    BY <1>6 DEF Crash, Finish, Off
  <2> QED BY <1>0, <2>1, PlaceFrame
<1>7. ASSUME NEW s \in Sources, SourceStep(s) PROVE Place(r)'
  <2>1. CASE s # r
    <3>1. UNCHANGED <<chain[r], cursor[r], worker[r]>>
      BY <1>0, <1>7, <2>1 DEF SourceStep, FetchPage, SkipSpend, ReadTx, NextPage,
         SaveCursor, SyncMint, LookupFails, SyncBurn, SourceGone, Fail
    <3> QED BY <1>0, <3>1, PlaceFrame
  <2>2. CASE SourceGone(r) \/ Fail(r)
    <3>1. UNCHANGED <<chain, cursor>> /\ worker'[r].held = FALSE
      BY <1>0, <2>2 DEF SourceGone, Fail, Off
    <3> QED BY <1>0, <3>1, PlaceFrame
  <2>3. CASE SaveCursor(r)
    BY <1>0, <2>3, PlaceSave
  <2>4. CASE worker[r].held /\ ~SaveCursor(r) /\ ~SourceGone(r) /\ ~Fail(r) /\ s = r
    BY <1>0, <1>7, <2>4, PlaceFetch, PlaceMove DEF SourceStep
  <2>5. CASE ~worker[r].held /\ s = r
    <3>1. UNCHANGED <<chain, cursor>> /\ worker'[r].held = FALSE
      BY <1>0, <1>7, <2>5, WithoutRow
    <3> QED BY <1>0, <3>1, PlaceFrame
  <2> QED BY <2>1, <2>2, <2>3, <2>4, <2>5
<1>8. CASE UNCHANGED vars
  BY <1>0, <1>8, PlaceFrame DEF vars
<1> QED BY <1>1, <1>2, <1>3, <1>4, <1>5, <1>6, <1>7, <1>8 DEF Next, PassStep

(* The invariant under every fault.                                        *)
FaultInv == TypeInv /\ \A s \in Sources : RowOK(s) /\ Place(s)

LEMMA FaultInduction == Spec => []FaultInv
<1>1. Init => FaultInv
  BY TypeInit, RowInit, PlaceInit DEF FaultInv
<1>2. FaultInv /\ [Next]_vars => FaultInv'
  <2> SUFFICES ASSUME FaultInv, [Next]_vars PROVE FaultInv'
    OBVIOUS
  <2>1. TypeInv /\ \A s \in Sources : RowOK(s) /\ Place(s)
    BY DEF FaultInv
  <2>2. TypeInv'
    BY <2>1, TypeStep, RangeStep DEF TypeInv
  <2>3. \A s \in Sources : RowOK(s)'
    BY <2>1, RowStep
  <2>4. \A s \in Sources : Place(s)'
    BY <2>1, <2>2, PlaceStep DEF TypeInv
  <2> QED BY <2>2, <2>3, <2>4 DEF FaultInv
<1> QED BY <1>1, <1>2, PTL DEF Spec

(* The persisted cursor of a source never moves back while its row exists, *)
(* not even when lookups fail or pages fill up while they are read.        *)
THEOREM CursorAdvances == Spec => CursorNeverMovesBack
<1>1. FaultInv /\ [Next]_vars =>
        [\A s \in Sources : source'[s] => /\ cursor[s].tx  <= cursor'[s].tx
                                          /\ cursor[s].page <= cursor'[s].page]_vars
  <2> SUFFICES ASSUME FaultInv, [Next]_vars, NEW s \in Sources, source'[s]
               PROVE  cursor[s].tx <= cursor'[s].tx /\ cursor[s].page <= cursor'[s].page
    OBVIOUS
  <2>1. /\ TypeInv /\ Place(s) /\ \A r \in Sources : RowOK(r)
        /\ cursor \in [Sources -> Position] /\ source \in [Sources -> BOOLEAN]
    BY DEF FaultInv, TypeInv, TypeOK
  <2>2. CASE cursor'[s] = cursor[s]
    BY <2>1, <2>2, SourceTypes
  <2>3. CASE SaveCursor(s)
    BY <2>1, <2>3, SaveMoves
  <2>4. ASSUME NEW r \in Sources, AddSource(r) PROVE cursor'[s] = cursor[s]
    <3>1. cursor[r] = Start
      BY <2>1, <2>4 DEF AddSource, RowOK, Fresh
    <3> QED BY <2>1, <2>4, <3>1 DEF AddSource
  <2>5. ASSUME NEW r \in Sources, RemoveSource(r) PROVE cursor'[s] = cursor[s]
    BY <2>1, <2>5 DEF RemoveSource
  <2>6. ASSUME NEW r \in Sources, SourceStep(r)
        PROVE  cursor'[s] = cursor[s] \/ SaveCursor(s)
    BY <2>1, <2>6 DEF SourceStep, FetchPage, SkipSpend, ReadTx, NextPage, SaveCursor,
       SyncMint, LookupFails, SyncBurn, SourceGone, Fail
  <2>7. ASSUME NEW c \in Callers, Call(c) \/ PassStep(c) PROVE cursor'[s] = cursor[s]
    BY <2>7 DEF Call, PassStep, Refused, Acquire, ReadSources, NoSources, RereadFails,
       Finish
  <2>8. ASSUME NEW r \in Sources, Grow(r) PROVE cursor'[s] = cursor[s]
    BY <2>8 DEF Grow
  <2>9. CASE Crash \/ UNCHANGED vars
    BY <2>2, <2>9 DEF Crash, vars
  <2> QED BY <2>2, <2>3, <2>4, <2>5, <2>6, <2>7, <2>8, <2>9 DEF Next
<1> QED BY <1>1, FaultInduction, PTL DEF Spec, CursorNeverMovesBack

---------------------------------------------------------------------------
(* The states entries can be in.                                           *)

Caused(s) ==
    \A a \in Assets :
        \E t \in 0..LastTx(chain[s]) : registry[s][a] = OnChain(chain[s], t, a)

LEMMA AbsentIsCaused ==
    ASSUME TypeInv, NEW s \in Sources, ChainOK(chain[s]), \A a \in Assets : registry[s][a] = "absent"
    PROVE  Caused(s)
<1>1. \A a : OnChain(chain[s], 0, a) = "absent"
  <2>1. \A i \in DOMAIN chain[s] : ~(chain[s][i].tx <= 0)
    BY SourceTypes, ChainTypes
  <2> QED BY <2>1 DEF OnChain, EverListed
<1>2. 0 \in 0..LastTx(chain[s])
  BY SourceTypes, LastIsLatest
<1> QED BY <1>1, <1>2 DEF Caused

LEMMA CausedGrow ==
    ASSUME TypeInv, TypeOK', NEW s \in Sources, NEW r \in Sources, Place(r), Caused(r), Grow(s)
    PROVE  Caused(r)'
<1>1. /\ chain[r] \in Seq(Redeemer) /\ chain'[r] \in Seq(Redeemer) /\ ChainOK(chain[r])
      /\ UNCHANGED registry
  BY DEF TypeInv, TypeOK, Place, Grow
<1>2. Extended(chain[r], chain'[r])
  BY GrowExtends DEF TypeInv
<1>3. LastTx(chain[r]) \in Nat /\ LastTx(chain'[r]) \in Nat
  BY <1>1, LastTxType
<1>4. LastTx(chain[r]) <= LastTx(chain'[r])
  <2>1. CASE chain[r] = <<>>
    BY <1>3, <2>1 DEF LastTx
  <2>2. CASE chain[r] # <<>>
    <3>1. Len(chain[r]) \in DOMAIN chain[r] /\ Len(chain[r]) \in Nat
          /\ LastTx(chain[r]) = chain[r][Len(chain[r])].tx
      BY <1>1, <2>2, ChainTypes, EmptySeq DEF LastTx
    <3>2. /\ chain'[r] # <<>> /\ Len(chain[r]) <= Len(chain'[r])
          /\ Len(chain'[r]) \in DOMAIN chain'[r] /\ Len(chain'[r]) \in Nat
          /\ LastTx(chain'[r]) = chain'[r][Len(chain'[r])].tx
      BY <1>1, <1>2, <3>1, ChainTypes, EmptySeq DEF LastTx, Extended
    <3>3. CASE Len(chain'[r]) = Len(chain[r])
      BY <1>2, <1>3, <3>1, <3>2, <3>3 DEF Extended
    <3>4. CASE Len(chain[r]) < Len(chain'[r])
      BY <1>2, <1>3, <3>2, <3>4 DEF Extended
    <3> QED BY <3>1, <3>2, <3>3, <3>4
  <2> QED BY <2>1, <2>2
<1>5. ASSUME NEW a \in Assets
      PROVE  \E t \in 0..LastTx(chain'[r]) : registry[r][a] = OnChain(chain'[r], t, a)
  <2>1. PICK t \in 0..LastTx(chain[r]) : registry[r][a] = OnChain(chain[r], t, a)
    BY DEF Caused
  <2>2. t \in Nat /\ t <= LastTx(chain[r]) /\ t \in 0..LastTx(chain'[r])
    BY <1>3, <1>4
  <2>3. OnChain(chain'[r], t, a) = OnChain(chain[r], t, a)
    BY <1>1, <1>2, <2>2, GrowthKeeps
  <2> QED BY <2>1, <2>2, <2>3
<1> QED BY <1>1, <1>5 DEF Caused

(* A mint or burn gives an entry the state the chain gave it there.        *)
LEMMA CausedWrite ==
    ASSUME TypeInv, NEW s \in Sources, Place(s), Caused(s), NEW a \in Assets,
           SyncMint(s, a) \/ SyncBurn(s, a)
    PROVE  Caused(s)'
<1> DEFINE ch == chain[s]
           p  == worker[s].pos
<1>1. /\ worker[s].at = "assets" /\ UNCHANGED chain /\ ChainOK(ch)
      /\ registry[s] \in [Assets -> EntryStates]
      /\ registry \in [Sources -> [Assets -> EntryStates]]
  BY DEF SyncMint, SyncBurn, Pending, Place, TypeInv, TypeOK
<1>2. p \in DOMAIN ch /\ ch[p].purpose = "mint" /\ Current(s) = ch[p]
  BY <1>1, CurrentType DEF TypeInv, InRange, Current
<1>3. p \in Mints(ch) /\ ch[p].tx \in 0..LastTx(ch)
  BY <1>1, <1>2, SourceTypes, MintTypes, LastIsLatest DEF Mints
<1>4. CASE registry' = registry
  BY <1>1, <1>4 DEF Caused
<1>5. CASE registry' # registry
  <2>1. PICK e : registry' = [registry EXCEPT ![s][a] = e] /\ e = OnChain(ch, ch[p].tx, a)
    <3>1. CASE SyncMint(s, a)
      <4>1. /\ a \in ch[p].minted /\ a \in Parsable
            /\ registry' = [registry EXCEPT ![s][a] = "listed"]
        BY <1>2, <1>5, <3>1 DEF SyncMint
      <4>2. OnChain(ch, ch[p].tx, a) = "listed"
        BY <1>1, <1>3, <4>1, SourceTypes, MintLists
      <4> QED BY <4>1, <4>2
    <3>2. CASE SyncBurn(s, a)
      <4>1. /\ a \in ch[p].burned /\ registry[s][a] # "absent"
            /\ registry' = [registry EXCEPT ![s][a] = "deregistered"]
        BY <1>2, <1>5, <3>2 DEF SyncBurn
      <4>2. a \in Parsable
        BY <4>1 DEF Caused, OnChain, EverListed
      <4>3. OnChain(ch, ch[p].tx, a) = "deregistered"
        BY <1>1, <1>3, <4>1, <4>2, SourceTypes, BurnDeregisters
      <4> QED BY <4>1, <4>3
    <3> QED BY <3>1, <3>2
  <2>2. /\ registry'[s][a] = OnChain(ch, ch[p].tx, a)
        /\ \A b \in Assets \ {a} : registry'[s][b] = registry[s][b]
    BY <1>1, <2>1
  <2>3. ASSUME NEW b \in Assets
        PROVE  \E t \in 0..LastTx(ch) : registry'[s][b] = OnChain(ch, t, b)
    <3>1. CASE b = a
      BY <1>3, <2>2, <3>1
    <3>2. CASE b # a
      BY <2>2, <3>2 DEF Caused
    <3> QED BY <3>1, <3>2
  <2> QED BY <1>1, <2>3 DEF Caused
<1> QED BY <1>4, <1>5

LEMMA CausedStep ==
    ASSUME FaultInv, TypeInv', \A s \in Sources : Caused(s), [Next]_vars
    PROVE  \A s \in Sources : Caused(s)'
<1> SUFFICES ASSUME NEW r \in Sources PROVE Caused(r)'
  OBVIOUS
<1>0. /\ TypeInv /\ Place(r) /\ Caused(r) /\ registry \in [Sources -> [Assets -> EntryStates]]
  BY DEF FaultInv, TypeInv, TypeOK
<1>1. CASE UNCHANGED <<chain[r], registry[r]>>
  BY <1>0, <1>1 DEF Caused
<1>2. ASSUME NEW s \in Sources, Grow(s) PROVE Caused(r)'
  BY <1>0, <1>2, CausedGrow DEF TypeInv
<1>3. ASSUME NEW s \in Sources, RemoveSource(s) PROVE Caused(r)'
  <2>1. UNCHANGED chain
    BY <1>3 DEF RemoveSource
  <2>2. CASE s # r
    BY <1>0, <1>1, <1>3, <2>1, <2>2 DEF RemoveSource
  <2>3. CASE s = r
    <3>1. registry'[r] = [a \in Assets |-> "absent"]
      BY <1>0, <1>3, <2>3 DEF RemoveSource
    <3>2. \A a : OnChain(chain[r], 0, a) = "absent"
      <4>1. \A i \in DOMAIN chain[r] : ~(chain[r][i].tx <= 0)
        BY <1>0, SourceTypes, ChainTypes
      <4> QED BY <4>1 DEF OnChain, EverListed
    <3>3. 0 \in 0..LastTx(chain[r])
      BY <1>0, SourceTypes, LastIsLatest DEF Place
    <3> QED BY <2>1, <3>1, <3>2, <3>3 DEF Caused
  <2> QED BY <2>2, <2>3
<1>4. ASSUME NEW s \in Sources, NEW a \in Assets, SyncMint(s, a) \/ SyncBurn(s, a)
      PROVE  Caused(r)'
  <2>1. CASE s = r
    BY <1>0, <1>4, <2>1, CausedWrite
  <2>2. CASE s # r
    BY <1>0, <1>1, <1>4, <2>2 DEF SyncMint, SyncBurn
  <2> QED BY <2>1, <2>2
<1>5. ASSUME NEW s \in Sources,
             \/ FetchPage(s) \/ SkipSpend(s) \/ ReadTx(s) \/ NextPage(s) \/ SaveCursor(s)
             \/ SourceGone(s) \/ Fail(s) \/ \E a \in Assets : LookupFails(s, a)
      PROVE  Caused(r)'
  BY <1>1, <1>5 DEF FetchPage, SkipSpend, ReadTx, NextPage, SaveCursor, SourceGone, Fail,
                    LookupFails
<1>6. ASSUME NEW c \in Callers, Call(c) \/ PassStep(c) PROVE Caused(r)'
  BY <1>1, <1>6 DEF Call, PassStep, Refused, Acquire, ReadSources, NoSources, RereadFails,
                    Finish
<1>7. CASE Crash \/ UNCHANGED vars \/ \E s \in Sources : AddSource(s)
  BY <1>1, <1>7 DEF Crash, vars, AddSource
<1> QED BY <1>2, <1>3, <1>4, <1>5, <1>6, <1>7 DEF Next, SourceStep

(* No entry is ever in a state that the chain has not once given it.       *)
THEOREM EntriesAreCaused == Spec => []EntriesHaveCause
<1>1. Init => \A s \in Sources : Caused(s)
  <2> SUFFICES ASSUME Init, NEW s \in Sources PROVE Caused(s)
    OBVIOUS
  <2>1. TypeInv /\ ChainOK(chain[s])
    BY TypeInit, PlaceInit DEF Place
  <2>2. \A a \in Assets : registry[s][a] = "absent"
    BY DEF Init
  <2> QED BY <2>1, <2>2, AbsentIsCaused
<1>2. FaultInv /\ TypeInv' /\ (\A s \in Sources : Caused(s)) /\ [Next]_vars
        => (\A s \in Sources : Caused(s))'
  BY CausedStep
<1>3. FaultInv => TypeInv
  BY DEF FaultInv
<1>4. (\A s \in Sources : Caused(s)) => EntriesHaveCause
  BY DEF Caused, EntriesHaveCause
<1> QED BY FaultInduction, <1>1, <1>2, <1>3, <1>4, PTL DEF Spec
=============================================================================
