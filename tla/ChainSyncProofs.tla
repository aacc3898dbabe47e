-------------------------- MODULE ChainSyncProofs --------------------------
(***************************************************************************)
(* Theorems about ChainSync when metadata lookups do not fail and the      *)
(* chain stands still during a pass, whatever else fails or crashes.  The  *)
(* run ChainSyncGap shows that the second condition is needed.             *)
(***************************************************************************)
EXTENDS ChainSyncFaultProofs

SourceInv(s) ==
    /\ Place(s)
    /\ WorkerOK(s)
    /\ \A a \in Assets : Follows(s, a)

(* A source that nothing of changes keeps its invariant.                   *)
LEMMA Frame ==
    ASSUME NEW s \in Sources, SourceInv(s),
           UNCHANGED <<chain[s], cursor[s], registry[s], worker[s]>>
    PROVE  SourceInv(s)'
<1>1. Place(s)'
  BY PlaceFrame DEF SourceInv
<1> QED BY <1>1 DEF SourceInv, WorkerOK, Follows, NothingBehind, Current, PageEnd

(* Nothing is asked of a pass that does not hold the row.                  *)
LEMMA Settle ==
    ASSUME NEW s \in Sources, SourceInv(s),
           UNCHANGED <<chain[s], cursor[s], registry[s]>>,
           worker'[s].held = FALSE
    PROVE  SourceInv(s)'
<1>1. Place(s)'
  BY PlaceFrame DEF SourceInv
<1> QED BY <1>1 DEF SourceInv, WorkerOK, Follows

---------------------------------------------------------------------------
(* The steps of a source.                                                  *)

(* Nothing that counts is cut off a page.                                  *)
LEMMA FetchInv ==
    ASSUME TypeInv, NEW s \in Sources, SourceInv(s), worker[s].held, FetchPage(s)
    PROVE  SourceInv(s)'
<1> DEFINE ch == chain[s]
           c  == cursor[s]
           w  == worker[s]
           lo == FirstOn(w.page)
<1>1. /\ UNCHANGED <<chain[s], cursor[s], registry[s]>>
      /\ w.at = "fetch"
      /\ worker \in [Sources -> Progress]
  BY DEF FetchPage, TypeInv, TypeOK
<1>2. NothingBehind(s, lo) /\ w.from <= c.tx
  BY <1>1 DEF SourceInv, WorkerOK, Place, PlaceOK
<1>3. Place(s)'
  BY PlaceFetch DEF SourceInv
<1>4. CASE lo > Len(ch)
  <2>1. worker'[s] = [Off EXCEPT !.at = "done", !.held = w.held]
    BY <1>1, <1>4 DEF FetchPage
  <2>2. \A i \in Mints(ch) : ch[i].tx <= c.tx
    BY <1>2, <1>4, SourceTypes, ChainTypes DEF NothingBehind, Mints
  <2>3. worker'[s].at = "done"
    BY <2>1 DEF Off
  <2> QED BY <1>1, <1>3, <2>2, <2>3 DEF SourceInv, WorkerOK, Follows
<1>5. CASE ~(lo > Len(ch))
  <2>1. PICK p \in lo..(PageEnd(s, w.page) + 1) :
          /\ worker'[s] = [w EXCEPT !.at = "scan", !.pos = p, !.upto = PageEnd(s, w.page)]
          /\ p = lo \/ \A i \in DOMAIN ch : i < p => ch[i].tx <= w.from
    BY <1>5, FetchCut DEF SourceInv
  <2>2. /\ worker'[s].at = "scan" /\ worker'[s].pos = p
        /\ worker'[s].upto = PageEnd(s, w.page) /\ worker'[s].page = w.page
    BY <1>1, <2>1, SourceTypes DEF Progress
  <2>3. p \in Nat
    BY SourceTypes, ChainTypes DEF PageEnd
  <2>4. NothingBehind(s, p)
    <3> SUFFICES ASSUME NEW i \in Mints(ch), c.tx < ch[i].tx PROVE p <= i
      BY DEF NothingBehind
    <3>1. i \in DOMAIN ch /\ i \in Nat /\ ch[i].tx \in Nat
      BY SourceTypes, ChainTypes DEF Mints
    <3>2. CASE p = lo
      BY <1>2, <3>2 DEF NothingBehind
    <3>3. CASE \A k \in DOMAIN ch : k < p => ch[k].tx <= w.from
      <4>1. ~(ch[i].tx <= w.from)
        BY <1>2, <3>1, SourceTypes
      <4> QED BY <2>3, <3>1, <3>3, <4>1
    <3> QED BY <2>1, <3>2, <3>3
  <2> QED BY <1>1, <1>3, <2>2, <2>4 DEF SourceInv, WorkerOK, Follows, NothingBehind, PageEnd
<1> QED BY <1>4, <1>5

(* Past a redeemer that neither mints nor burns.                           *)
LEMMA SkipInv ==
    ASSUME TypeInv, NEW s \in Sources, SourceInv(s), worker[s].held, SkipSpend(s)
    PROVE  SourceInv(s)'
<1>1. /\ UNCHANGED <<chain[s], cursor[s], registry[s]>>
      /\ worker'[s] = [worker[s] EXCEPT !.pos = @ + 1]
      /\ worker[s].at = "scan"
      /\ worker[s].pos \notin Mints(chain[s])
  BY DEF SkipSpend, Scanning, Current, Mints, TypeInv, TypeOK
<1>2. /\ worker'[s].at = "scan" /\ worker'[s].pos = worker[s].pos + 1
      /\ worker'[s].upto = worker[s].upto
      /\ worker'[s].page = worker[s].page
  BY <1>1, SourceTypes DEF Progress
<1>3. /\ NothingBehind(s, worker[s].pos) /\ worker[s].upto = PageEnd(s, worker[s].page)
      /\ Place(s)'
  BY <1>1, PlaceMove DEF SourceInv, WorkerOK
<1>4. NothingBehind(s, worker[s].pos + 1)
  <2>1. \A i \in Mints(chain[s]) : i \in Nat /\ i # worker[s].pos
    BY <1>1, SourceTypes, ChainTypes DEF Mints
  <2> QED BY <1>3, <2>1, SourceTypes DEF NothingBehind
<1> QED BY <1>1, <1>2, <1>3, <1>4
        DEF SourceInv, WorkerOK, Follows, NothingBehind, PageEnd

(* Before any of a transaction's entries is written.                       *)
LEMMA ReadTxInv ==
    ASSUME TypeInv, NEW s \in Sources, SourceInv(s), worker[s].held, ReadTx(s)
    PROVE  SourceInv(s)'
<1>1. /\ UNCHANGED <<chain[s], cursor[s], registry[s]>>
      /\ worker'[s] = [worker[s] EXCEPT !.at = "assets",
                         !.todo = Current(s).minted \cup Current(s).burned]
      /\ worker[s].at = "scan"
  BY DEF ReadTx, Scanning, TypeInv, TypeOK
<1>2. /\ worker'[s].at = "assets" /\ worker'[s].pos = worker[s].pos
      /\ worker'[s].todo = Current(s).minted \cup Current(s).burned
      /\ worker'[s].upto = worker[s].upto
      /\ worker'[s].page = worker[s].page
  BY <1>1, SourceTypes DEF Progress
<1>3. Current(s)' = Current(s)
  BY <1>1, <1>2 DEF Current
<1>4. Place(s)'
  BY PlaceMove DEF SourceInv
<1> QED BY <1>1, <1>2, <1>3, <1>4
        DEF SourceInv, WorkerOK, Follows, NothingBehind, PageEnd

(* From the end of a page to the next page, when the page was full, or to  *)
(* the end of the chain.                                                   *)
LEMMA NextPageInv ==
    ASSUME TypeInv, NEW s \in Sources, SourceInv(s), worker[s].held, NextPage(s)
    PROVE  SourceInv(s)'
<1> DEFINE w == worker[s]
<1>1. /\ UNCHANGED <<chain[s], cursor[s], registry[s]>>
      /\ worker'[s] = [w EXCEPT !.at = "fetch", !.page = @ + 1]
      /\ w.at = "scan" /\ w.pos > w.upto
  BY DEF NextPage, TypeInv, TypeOK
<1>2. worker'[s].at = "fetch" /\ worker'[s].page = w.page + 1
  BY <1>1, SourceTypes DEF Progress
<1>3. /\ NothingBehind(s, w.pos)
      /\ w.upto = PageEnd(s, w.page) /\ w.pos = w.upto + 1
      /\ Place(s)'
  <2>1. NothingBehind(s, w.pos) /\ w.upto = PageEnd(s, w.page)
    BY <1>1 DEF SourceInv, WorkerOK
  <2>2. w.pos \in FirstOn(w.page)..(w.upto + 1)
    BY <1>1 DEF SourceInv, Place, PlaceOK
  <2>3. Place(s)'
    BY PlaceMove DEF SourceInv
  <2> QED BY <1>1, <2>1, <2>2, <2>3, SourceTypes
<1>4. \A i \in Mints(chain[s]) : w.pos <= i <=> FirstOn(w.page + 1) <= i
  <2>1. \A i \in Mints(chain[s]) : i \in Nat /\ i <= Len(chain[s])
    BY SourceTypes, ChainTypes DEF Mints
  <2> QED BY <1>3, <2>1, SourceTypes, ChainTypes DEF PageEnd
<1>5. NothingBehind(s, FirstOn(w.page + 1))
  BY <1>3, <1>4 DEF NothingBehind
<1> QED BY <1>1, <1>2, <1>3, <1>5
        DEF SourceInv, WorkerOK, Follows, NothingBehind

(* The transaction whose entries are written is the cursor's own or the    *)
(* next one.                                                               *)
LEMMA CurrentIsDue ==
    ASSUME TypeInv, NEW s \in Sources, SourceInv(s), worker[s].held,
           worker[s].at = "assets"
    PROVE  /\ worker[s].pos \in Mints(chain[s])
           /\ Current(s).tx = cursor[s].tx \/ IsNext(chain[s], cursor[s].tx, worker[s].pos)
<1>1. worker[s].pos \in Mints(chain[s])
  <2>1. worker[s].pos \in DOMAIN chain[s]
    BY CurrentType
  <2>2. chain[s][worker[s].pos].purpose = "mint"
    BY DEF TypeInv, InRange, Current
  <2> QED BY <2>1, <2>2 DEF Mints
<1>2. NothingBehind(s, worker[s].pos) /\ NothingOlder(s, worker[s].pos)
  BY DEF SourceInv, WorkerOK, Place, PlaceOK
<1>3. \A j \in Mints(chain[s]) : j \in Nat /\ chain[s][j].tx \in Nat
  BY SourceTypes, ChainTypes DEF Mints
<1>4. cursor[s].tx <= chain[s][worker[s].pos].tx
  BY <1>1, <1>2, <1>3 DEF NothingOlder
<1>5. \A j \in Mints(chain[s]) :
        cursor[s].tx < chain[s][j].tx => chain[s][worker[s].pos].tx <= chain[s][j].tx
  <2>1. ChainOK(chain[s])
    BY DEF SourceInv, Place
  <2> QED BY <1>1, <1>2, <1>3, <2>1, SourceTypes, ChainOrder DEF NothingBehind, Mints
<1> QED BY <1>1, <1>3, <1>4, <1>5, SourceTypes DEF IsNext, Current

(* Writing one entry: it takes the state the chain gives it at the         *)
(* transaction, and the others keep theirs.                                *)
LEMMA WriteInv ==
    ASSUME TypeInv, NEW s \in Sources, SourceInv(s), NEW a \in Assets,
           worker[s].held, worker[s].at = "assets", Place(s)',
           UNCHANGED <<chain[s], cursor[s]>>,
           worker'[s] = [worker[s] EXCEPT !.todo = @ \ {a}],
           registry'[s] = [registry[s] EXCEPT ![a] = OnChain(chain[s], Current(s).tx, a)]
    PROVE  SourceInv(s)'
<1>1. /\ worker'[s].at = "assets" /\ worker'[s].pos = worker[s].pos
      /\ worker'[s].todo = worker[s].todo \ {a}
      /\ worker'[s].upto = worker[s].upto
      /\ worker'[s].page = worker[s].page
  BY SourceTypes DEF Progress
<1>2. Current(s)' = Current(s) /\ Current(s) = chain[s][worker[s].pos]
  BY <1>1 DEF Current
<1>3. /\ registry'[s][a] = OnChain(chain[s], Current(s).tx, a)
      /\ \A b \in Assets \ {a} : registry'[s][b] = registry[s][b]
  BY SourceTypes
<1>4. \A b \in Assets : Follows(s, b)'
  <2>1. Follows(s, a)'
    BY <1>2, <1>3, CurrentIsDue DEF Follows
  <2>2. ASSUME NEW b \in Assets \ {a} PROVE Follows(s, b)'
    BY <1>3 DEF Follows, SourceInv
  <2> QED BY <2>1, <2>2
<1>5. ASSUME NEW b \in (Current(s).minted \cup Current(s).burned) \ (worker[s].todo \ {a})
      PROVE  registry'[s][b] = OnChain(chain[s], Current(s).tx, b)
  <2>1. b \in Assets
    BY CurrentType DEF Redeemer
  <2> QED BY <1>3, <2>1 DEF SourceInv, WorkerOK
<1>6. WorkerOK(s)'
  <2>1. NothingBehind(s, worker[s].pos)' /\ worker'[s].upto = PageEnd(s, worker[s].page)'
    BY <1>1 DEF SourceInv, WorkerOK, NothingBehind, PageEnd
  <2> QED BY <1>1, <1>2, <1>5, <2>1 DEF WorkerOK
<1> QED BY <1>4, <1>6 DEF SourceInv

LEMMA MintWrites ==
    ASSUME TypeInv, NEW s \in Sources, SourceInv(s), worker[s].held, NEW a \in Assets, SyncMint(s, a)
    PROVE  registry' = [registry EXCEPT ![s][a] = OnChain(chain[s], Current(s).tx, a)]
<1>1. /\ worker[s].at = "assets" /\ a \in Current(s).minted
  BY DEF SyncMint, Pending
<1>2. /\ Current(s) = chain[s][worker[s].pos] /\ worker[s].pos \in Mints(chain[s])
      /\ ChainOK(chain[s])
  BY <1>1, CurrentIsDue DEF Current, SourceInv, Place
<1>3. OnChain(chain[s], Current(s).tx, a) = IF a \in Parsable THEN "listed" ELSE "absent"
  BY <1>1, <1>2, SourceTypes, MintLists
<1>4. CASE a \in Parsable
  BY <1>3, <1>4 DEF SyncMint
<1>5. CASE a \notin Parsable
  <2>1. registry[s][a] = "absent"
    BY <1>5 DEF SourceInv, Follows, OnChain, EverListed
  <2>2. registry' = registry
    BY <1>5 DEF SyncMint
  <2> QED BY <1>3, <1>5, <2>1, <2>2, SourceTypes DEF TypeInv, TypeOK
<1> QED BY <1>4, <1>5

LEMMA BurnWrites ==
    ASSUME TypeInv, NEW s \in Sources, SourceInv(s), worker[s].held, NEW a \in Assets, SyncBurn(s, a)
    PROVE  registry' = [registry EXCEPT ![s][a] = OnChain(chain[s], Current(s).tx, a)]
<1> DEFINE ch == chain[s]
           p  == worker[s].pos
<1>1. /\ worker[s].at = "assets" /\ a \in Current(s).burned
  BY DEF SyncBurn, Pending
<1>2. /\ Current(s) = ch[p] /\ p \in Mints(ch) /\ ChainOK(ch)
      /\ ch[p].tx = cursor[s].tx \/ IsNext(ch, cursor[s].tx, p)
  BY <1>1, CurrentIsDue DEF Current, SourceInv, Place
<1>3. OnChain(ch, Current(s).tx, a) = IF a \in Parsable THEN "deregistered" ELSE "absent"
  BY <1>1, <1>2, SourceTypes, BurnDeregisters
<1>4. registry[s][a] = "absent" <=> a \notin Parsable
  <2>1. CASE a \notin Parsable
    BY <2>1 DEF SourceInv, Follows, OnChain, EverListed
  <2>2. CASE a \in Parsable
    <3>1. PICK j \in DOMAIN ch : j < p /\ a \in ch[j].minted
      BY <1>1, <1>2 DEF ChainOK, Mints
    <3>2. ch[j].tx <= cursor[s].tx
      <4>1. j \in Mints(ch)
        BY <1>2, <3>1, SourceTypes, MoverIsMint
      <4>2. ch[j].tx < ch[p].tx
        BY <1>2, <3>1, <4>1, SourceTypes, MintOrder
      <4>3. ch[j].tx \in Nat /\ ch[p].tx \in Nat /\ cursor[s].tx \in Nat
        BY <1>2, SourceTypes, ChainTypes DEF Mints
      <4>4. CASE ch[p].tx = cursor[s].tx
        BY <4>2, <4>3, <4>4
      <4>5. CASE IsNext(ch, cursor[s].tx, p)
        BY <4>1, <4>2, <4>3, <4>5 DEF IsNext
      <4> QED BY <1>2, <4>4, <4>5
    <3>3. EverListed(ch, cursor[s].tx, a)
      BY <2>2, <3>1, <3>2 DEF EverListed
    <3>4. ASSUME NEW i \in Mints(ch), IsNext(ch, cursor[s].tx, i)
          PROVE  EverListed(ch, ch[i].tx, a)
      <4>1. ch[j].tx <= ch[i].tx
        BY <3>2, <3>4, SourceTypes, ChainTypes DEF IsNext, Mints
      <4> QED BY <2>2, <3>1, <4>1 DEF EverListed
    <3> QED BY <2>2, <3>3, <3>4 DEF SourceInv, Follows, OnChain
  <2> QED BY <2>1, <2>2
<1>5. CASE a \in Parsable
  BY <1>3, <1>4, <1>5 DEF SyncBurn
<1>6. CASE a \notin Parsable
  BY <1>3, <1>4, <1>6, SourceTypes DEF SyncBurn, TypeInv, TypeOK
<1> QED BY <1>5, <1>6

LEMMA EntryInv ==
    ASSUME TypeInv, NEW s \in Sources, SourceInv(s), worker[s].held, NEW a \in Assets,
           SyncMint(s, a) \/ SyncBurn(s, a)
    PROVE  SourceInv(s)'
<1>1. /\ worker[s].at = "assets"
      /\ UNCHANGED <<chain[s], cursor[s]>>
      /\ worker'[s] = [worker[s] EXCEPT !.todo = @ \ {a}]
  BY DEF SyncMint, SyncBurn, Pending, TypeInv, TypeOK
<1>2. registry' = [registry EXCEPT ![s][a] = OnChain(chain[s], Current(s).tx, a)]
  BY MintWrites, BurnWrites
<1>3. registry'[s] = [registry[s] EXCEPT ![a] = OnChain(chain[s], Current(s).tx, a)]
  BY <1>2 DEF TypeInv, TypeOK
<1>4. Place(s)'
  BY PlaceMove DEF SourceInv
<1> QED BY <1>1, <1>3, <1>4, WriteInv

(* The cursor is moved when all entries are in: the registry is then the   *)
(* chain's state after the transaction.                                    *)
LEMMA SaveCursorFact ==
    ASSUME TypeInv, NEW s \in Sources, SourceInv(s), SaveCursor(s),
           Current(s).tx # cursor[s].tx, NEW a \in Assets
    PROVE  registry[s][a] = OnChain(chain[s], Current(s).tx, a)
<1>1. worker[s].at = "assets" /\ worker[s].todo = {} /\ worker[s].held
  BY DEF SaveCursor
<1>2. /\ Current(s) = chain[s][worker[s].pos] /\ worker[s].pos \in Mints(chain[s])
      /\ ChainOK(chain[s])
  BY <1>1, CurrentIsDue DEF Current, SourceInv, Place
<1>3. IsNext(chain[s], cursor[s].tx, worker[s].pos)
  BY <1>1, CurrentIsDue
<1>4. CASE a \in Current(s).minted \cup Current(s).burned
  BY <1>1, <1>4 DEF SourceInv, WorkerOK
<1>5. CASE a \notin Current(s).minted \cup Current(s).burned
  <2>1. OnChain(chain[s], Current(s).tx, a) = OnChain(chain[s], cursor[s].tx, a)
    BY <1>2, <1>3, <1>5, SourceTypes, UntouchedKept
  <2>2. ASSUME NEW i \in Mints(chain[s]), IsNext(chain[s], cursor[s].tx, i)
        PROVE  chain[s][i].tx = Current(s).tx
    BY <1>2, <1>3, <2>2, SourceTypes, MintTypes DEF IsNext
  <2> QED BY <2>1, <2>2 DEF SourceInv, Follows
<1> QED BY <1>4, <1>5

LEMMA SaveInv ==
    ASSUME TypeInv, NEW s \in Sources, SourceInv(s), SaveCursor(s)
    PROVE  SourceInv(s)'
<1> DEFINE ch == chain[s]
           w  == worker[s]
<1>1. /\ w.at = "assets" /\ w.todo = {} /\ w.held
      /\ UNCHANGED <<chain[s], registry[s]>>
      /\ worker'[s] = [w EXCEPT !.at = "scan", !.pos = @ + 1]
  BY DEF SaveCursor, TypeInv, TypeOK
<1>2. /\ worker'[s].at = "scan" /\ worker'[s].pos = w.pos + 1
      /\ worker'[s].upto = w.upto /\ worker'[s].page = w.page
  BY <1>1, SourceTypes DEF Progress
<1>3. /\ w.pos \in Mints(ch) /\ ChainOK(ch) /\ Current(s) = ch[w.pos]
      /\ cursor'[s].tx = ch[w.pos].tx /\ w.upto = PageEnd(s, w.page)
      /\ Place(s)'
  BY <1>1, SaveMoves, PlaceSave DEF Current, SourceInv, WorkerOK, Place
<1>4. ASSUME NEW a \in Assets PROVE Follows(s, a)'
  <2>1. CASE Current(s).tx = cursor[s].tx
    BY <1>1, <1>3, <2>1 DEF Follows, SourceInv
  <2>2. CASE Current(s).tx # cursor[s].tx
    BY <1>1, <1>3, <2>2, SaveCursorFact DEF Follows
  <2> QED BY <2>1, <2>2
<1>5. NothingBehind(s, worker[s].pos)'
  <2>1. \A i \in Mints(ch) : ch[w.pos].tx < ch[i].tx => w.pos + 1 <= i
    BY <1>3, SourceTypes, MintTypes, MintOrder
  <2> QED BY <1>1, <1>2, <1>3, <2>1 DEF NothingBehind
<1> QED BY <1>1, <1>2, <1>3, <1>4, <1>5 DEF SourceInv, WorkerOK, PageEnd

---------------------------------------------------------------------------
(* The chain grows.                                                        *)

(* Growth happens while no pass runs, so no worker is on the move.         *)
LEMMA GrowInv ==
    ASSUME TypeInv, TypeOK', LockInv, ~ChainMovesDuringPass,
           NEW s \in Sources, NEW r \in Sources, RowOK(r), SourceInv(r), Grow(s)
    PROVE  SourceInv(r)'
<1>1. /\ UNCHANGED <<cursor, registry, worker>>
      /\ worker[r].at = "off" /\ ~worker[r].held
  BY DEF Grow, LockInv, SinglePass, RowOK, Busy
<1>2. /\ chain[r] \in Seq(Redeemer) /\ chain'[r] \in Seq(Redeemer)
      /\ ChainOK(chain[r]) /\ CursorOK(r) /\ Place(r)'
  BY PlaceGrow DEF TypeInv, TypeOK, SourceInv, Place
<1>3. Extended(chain[r], chain'[r])
  BY GrowExtends DEF TypeInv
<1>4. \A i \in Mints(chain[r]) : i \in Mints(chain'[r]) /\ chain'[r][i] = chain[r][i]
  BY <1>2, <1>3, ChainTypes DEF Extended, Mints
<1>5. cursor[r].tx \in Nat /\ cursor[r].tx <= LastTx(chain[r])
  BY <1>2, SourceTypes, LastIsLatest, MintTypes DEF CursorOK, Start
<1>6. ASSUME NEW a \in Assets PROVE Follows(r, a)'
  <2>1. OnChain(chain'[r], cursor[r].tx, a) = OnChain(chain[r], cursor[r].tx, a)
    BY <1>2, <1>3, <1>5, GrowthKeeps
  <2>2. ASSUME NEW i \in Mints(chain[r]), IsNext(chain[r], cursor[r].tx, i)
        PROVE  /\ IsNext(chain'[r], cursor[r].tx, i)
               /\ OnChain(chain'[r], chain'[r][i].tx, a) = OnChain(chain[r], chain[r][i].tx, a)
    <3>1. chain[r][i].tx \in Nat /\ chain[r][i].tx <= LastTx(chain[r])
      BY <1>2, MintTypes, LastIsLatest
    <3>2. IsNext(chain'[r], cursor[r].tx, i)
      BY <1>2, <1>3, <1>5, <2>2, GrowthKeeps
    <3>3. OnChain(chain'[r], chain[r][i].tx, a) = OnChain(chain[r], chain[r][i].tx, a)
      BY <1>2, <1>3, <3>1, GrowthKeeps
    <3> QED BY <1>4, <3>2, <3>3
  <2>3. CASE registry[r][a] = OnChain(chain[r], cursor[r].tx, a)
    BY <1>1, <2>1, <2>3 DEF Follows
  <2>4. CASE \E i \in Mints(chain[r]) :
               /\ IsNext(chain[r], cursor[r].tx, i)
               /\ registry[r][a] = OnChain(chain[r], chain[r][i].tx, a)
    BY <1>1, <1>4, <2>2, <2>4 DEF Follows
  <2> QED BY <2>3, <2>4 DEF SourceInv, Follows
<1> QED BY <1>1, <1>2, <1>6 DEF SourceInv, WorkerOK

(* A removed source is as before its first pass.                           *)
LEMMA RemoveInv ==
    ASSUME TypeInv, NEW s \in Sources, SourceInv(s), Place(s)', RemoveSource(s)
    PROVE  SourceInv(s)'
<1>1. /\ UNCHANGED chain /\ cursor'[s] = Start
      /\ registry'[s] = [a \in Assets |-> "absent"]
      /\ worker'[s] = [worker[s] EXCEPT !.held = FALSE]
  BY DEF RemoveSource, TypeInv, TypeOK
<1>2. worker'[s].held = FALSE
  BY <1>1, SourceTypes DEF Progress
<1>3. cursor'[s].tx = 0
  BY <1>1 DEF Start
<1>4. \A a : OnChain(chain[s], 0, a) = "absent"
  <2>1. \A i \in DOMAIN chain[s] : ~(chain[s][i].tx <= 0)
    BY SourceTypes, ChainTypes
  <2> QED BY <2>1 DEF OnChain, EverListed
<1>5. \A a \in Assets : Follows(s, a)'
  BY <1>1, <1>3, <1>4 DEF Follows
<1> QED BY <1>2, <1>5 DEF SourceInv, WorkerOK

(* A pass starts from the cursor.                                          *)
LEMMA ReadSourcesInv ==
    ASSUME TypeInv, NEW c \in Callers, NEW s \in Sources, SourceInv(s), Place(s)',
           ReadSources(c)
    PROVE  SourceInv(s)'
<1>1. UNCHANGED <<chain[s], cursor[s], registry[s]>>
  BY DEF ReadSources
<1>2. CASE ~source[s]
  BY <1>1, <1>2, Settle DEF ReadSources, Off
<1>3. CASE source[s]
  <2>1. worker'[s].at = "fetch" /\ worker'[s].page = cursor[s].page
    BY <1>3 DEF ReadSources, Off
  <2>2. ChainOK(chain[s]) /\ CursorOK(s)
    BY DEF SourceInv, Place
  <2>3. NothingBehind(s, FirstOn(cursor[s].page))
    <3>1. FirstOn(cursor[s].page) \in Nat
      BY SourceTypes, PageArithmetic
    <3>2. CASE cursor[s] = Start
      BY <3>2, SourceTypes, ChainTypes, FirstPage DEF NothingBehind, Mints, Start
    <3>3. CASE cursor[s] # Start
      <4>1. PICK k \in Mints(chain[s]) :
              /\ chain[s][k].tx = cursor[s].tx
              /\ k \in FirstOn(cursor[s].page)..LastOn(cursor[s].page)
        BY <2>2, <3>3 DEF CursorOK
      <4>2. \A i \in Mints(chain[s]) : chain[s][k].tx < chain[s][i].tx => k < i
        BY <2>2, <4>1, SourceTypes, MintOrder
      <4> QED BY <3>1, <4>1, <4>2, SourceTypes, MintTypes DEF NothingBehind
    <3> QED BY <3>2, <3>3
  <2> QED BY <1>1, <2>1, <2>3 DEF SourceInv, WorkerOK, Follows, NothingBehind
<1> QED BY <1>2, <1>3

---------------------------------------------------------------------------
(* All steps.                                                              *)

LEMMA SourcesInit == Init => \A s \in Sources : SourceInv(s)
<1> SUFFICES ASSUME Init, NEW s \in Sources PROVE SourceInv(s)
  OBVIOUS
<1>1. chain[s] = <<>> /\ worker[s] = Off
  BY DEF Init
<1>2. \A a \in Assets : Follows(s, a)
  BY <1>1, EmptySeq DEF Init, Follows, OnChain, EverListed
<1> QED BY <1>1, <1>2, PlaceInit DEF SourceInv, WorkerOK, Off

LEMMA SourcesStep ==
    ASSUME "lookup" \notin Faults, ~ChainMovesDuringPass, FaultInv, FaultInv', LockInv,
           \A s \in Sources : SourceInv(s), [Next]_vars
    PROVE  \A s \in Sources : SourceInv(s)'
<1> SUFFICES ASSUME NEW r \in Sources PROVE SourceInv(r)'
  OBVIOUS
<1>0. /\ TypeInv /\ TypeOK' /\ RowOK(r) /\ Place(r)' /\ SourceInv(r)
      /\ worker \in [Sources -> Progress] /\ cursor \in [Sources -> Position]
      /\ registry \in [Sources -> [Assets -> EntryStates]]
  BY DEF FaultInv, TypeInv, TypeOK
<1>1. ASSUME NEW s \in Sources, Grow(s) PROVE SourceInv(r)'
  BY <1>0, <1>1, GrowInv
<1>2. ASSUME NEW s \in Sources, AddSource(s) PROVE SourceInv(r)'
  <2>1. UNCHANGED <<chain, registry, worker>>
    BY <1>2 DEF AddSource
  <2>2. cursor'[r] = cursor[r]
    <3>1. cursor[s] = Start
      BY <1>2 DEF AddSource, FaultInv, RowOK, Fresh
    <3> QED BY <1>0, <1>2, <3>1 DEF AddSource
  <2> QED BY <1>0, <2>1, <2>2, Frame
<1>3. ASSUME NEW s \in Sources, RemoveSource(s) PROVE SourceInv(r)'
  <2>1. CASE s # r
    <3>1. UNCHANGED <<chain[r], cursor[r], registry[r], worker[r]>>
      BY <1>0, <1>3, <2>1 DEF RemoveSource
    <3> QED BY <1>0, <3>1, Frame
  <2>2. CASE s = r
    BY <1>0, <1>3, <2>2, RemoveInv
  <2> QED BY <2>1, <2>2
<1>4. ASSUME NEW c \in Callers,
             Call(c) \/ Refused(c) \/ Acquire(c) \/ NoSources(c) \/ RereadFails(c)
      PROVE  SourceInv(r)'
  <2>1. UNCHANGED <<chain, cursor, registry, worker>>
    BY <1>4 DEF Call, Refused, Acquire, NoSources, RereadFails
  <2> QED BY <1>0, <2>1, Frame
<1>5. ASSUME NEW c \in Callers, ReadSources(c) PROVE SourceInv(r)'
  BY <1>0, <1>5, ReadSourcesInv
<1>6. CASE Crash \/ \E c \in Callers : Finish(c)
  <2>1. UNCHANGED <<chain, cursor, registry>> /\ worker'[r].held = FALSE
    BY <1>6 DEF Crash, Finish, Off
  <2> QED BY <1>0, <2>1, Settle
<1>7. ASSUME NEW s \in Sources, SourceStep(s) PROVE SourceInv(r)'
  <2>1. CASE s # r
    <3>1. UNCHANGED <<chain[r], cursor[r], registry[r], worker[r]>>
      BY <1>0, <1>7, <2>1 DEF SourceStep, FetchPage, SkipSpend, ReadTx, NextPage,
         SaveCursor, SyncMint, LookupFails, SyncBurn, SourceGone, Fail
    <3> QED BY <1>0, <3>1, Frame
  <2>2. CASE ~worker[r].held /\ s = r
    <3>1. UNCHANGED <<chain, cursor, registry>> /\ worker'[r].held = FALSE
      BY <1>0, <1>7, <2>2, WithoutRow
    <3> QED BY <1>0, <3>1, Settle
  <2>3. CASE SourceGone(r) \/ Fail(r)
    <3>1. UNCHANGED <<chain, cursor, registry>> /\ worker'[r].held = FALSE
      BY <1>0, <2>3 DEF SourceGone, Fail, Off
    <3> QED BY <1>0, <3>1, Settle
  <2>4. CASE worker[r].held /\ s = r /\ ~SourceGone(r) /\ ~Fail(r)
    <3>1. CASE FetchPage(r)
      BY <1>0, <2>4, <3>1, FetchInv
    <3>2. CASE SkipSpend(r)
      BY <1>0, <2>4, <3>2, SkipInv
    <3>3. CASE ReadTx(r)
      BY <1>0, <2>4, <3>3, ReadTxInv
    <3>4. CASE NextPage(r)
      BY <1>0, <2>4, <3>4, NextPageInv
    <3>5. CASE SaveCursor(r)
      BY <1>0, <3>5, SaveInv
    <3>6. ASSUME NEW a \in Assets, SyncMint(r, a) \/ SyncBurn(r, a) PROVE SourceInv(r)'
      BY <1>0, <2>4, <3>6, EntryInv
    <3> QED BY <1>7, <2>4, <3>1, <3>2, <3>3, <3>4, <3>5, <3>6 DEF SourceStep, LookupFails
  <2> QED BY <2>1, <2>2, <2>3, <2>4
<1>8. CASE UNCHANGED vars
  BY <1>0, <1>8, Frame DEF vars
<1> QED BY <1>1, <1>2, <1>3, <1>4, <1>5, <1>6, <1>7, <1>8 DEF Next, PassStep

(* The invariants together.                                                *)
IInv == FaultInv /\ LockInv /\ \A s \in Sources : SourceInv(s)

LEMMA Induction ==
    ASSUME "lookup" \notin Faults, ~ChainMovesDuringPass
    PROVE  Spec => []IInv
<1>1. Init => LockInv /\ \A s \in Sources : SourceInv(s)
  BY LockInit, SourcesInit
<1>2. ASSUME FaultInv, FaultInv', LockInv, \A s \in Sources : SourceInv(s), [Next]_vars
      PROVE  LockInv' /\ (\A s \in Sources : SourceInv(s))'
  <2>1. LockInv'
    BY <1>2, LockStep DEF FaultInv
  <2>2. \A s \in Sources : SourceInv(s)'
    BY <1>2, SourcesStep
  <2> QED BY <2>1, <2>2
<1>3. FaultInv /\ LockInv /\ (\A s \in Sources : SourceInv(s)) => IInv
  BY DEF IInv
<1> QED BY <1>1, <1>2, <1>3, FaultInduction, PTL DEF Spec

(* Every registry is the chain's state at its cursor, but for entries of   *)
(* the next mint or burn.                                                  *)
THEOREM FollowsCursor ==
    ASSUME "lookup" \notin Faults, ~ChainMovesDuringPass
    PROVE  Spec => []RegistryFollowsCursor
<1>1. IInv => RegistryFollowsCursor
  BY DEF IInv, SourceInv, RegistryFollowsCursor
<1> QED BY <1>1, Induction, PTL

(* The cursor, the page, the place on it and the entries agree: the        *)
(* invariant that a run checks, whole.                                     *)
THEOREM PlacesAgree ==
    ASSUME "lookup" \notin Faults, ~ChainMovesDuringPass
    PROVE  Spec => []SyncInv
<1>1. IInv => SyncInv
  <2> SUFFICES ASSUME IInv PROVE SyncInv
    OBVIOUS
  <2>1. \A s \in Sources : ChainOK(chain[s]) /\ CursorOK(s) /\ PlaceOK(s) /\ WorkerOK(s)
    BY DEF IInv, SourceInv, Place
  <2>2. RegistryFollowsCursor
    BY DEF IInv, SourceInv, RegistryFollowsCursor
  <2>3. RemovedLeavesNothing
    BY DEF IInv, FaultInv, RowOK, Busy, RemovedLeavesNothing
  <2> QED BY <2>1, <2>2, <2>3 DEF SyncInv
<1> QED BY <1>1, Induction, PTL

(* A source that ended on an empty page has its whole chain.               *)
THEOREM DoneIsCaughtUp ==
    ASSUME "lookup" \notin Faults, ~ChainMovesDuringPass
    PROVE  Spec => []DoneMeansCaughtUp
<1>1. IInv => DoneMeansCaughtUp
  <2> SUFFICES ASSUME IInv, NEW s \in Sources, worker[s].at = "done", worker[s].held,
                      NEW a \in Assets
               PROVE  registry[s][a] = OnChain(chain[s], LastTx(chain[s]), a)
    BY DEF DoneMeansCaughtUp
  <2>1. TypeInv /\ SourceInv(s)
    BY DEF IInv, FaultInv
  <2>2. ChainOK(chain[s]) /\ \A i \in Mints(chain[s]) : chain[s][i].tx <= cursor[s].tx
    BY <2>1 DEF SourceInv, WorkerOK, Place
  <2>3. OnChain(chain[s], LastTx(chain[s]), a) = OnChain(chain[s], cursor[s].tx, a)
    BY <2>1, <2>2, SourceTypes, NothingBetween
  <2>4. \A i \in Mints(chain[s]) : ~IsNext(chain[s], cursor[s].tx, i)
    BY <2>1, <2>2, SourceTypes, MintTypes DEF IsNext
  <2> QED BY <2>1, <2>3, <2>4 DEF SourceInv, Follows
<1> QED BY <1>1, Induction, PTL

---------------------------------------------------------------------------
(* The pass implements the ledger.                                         *)

(* The ledger's notions of the chain are those of the pass.                *)
LEMMA SameChain ==
    /\ \A ch : Ledger!Mints(ch) = Mints(ch) /\ Ledger!LastTx(ch) = LastTx(ch)
    /\ \A old, new : Ledger!Extended(old, new) = Extended(old, new)
    /\ \A ch, t, a : Ledger!OnChain(ch, t, a) = OnChain(ch, t, a)
    /\ \A ch, t, i : Ledger!IsNext(ch, t, i) = IsNext(ch, t, i)
  BY DEF Ledger!Mints, Mints, Ledger!LastTx, LastTx, Ledger!Extended, Extended,
         Ledger!OnChain, OnChain, Ledger!EverListed, EverListed, Ledger!Live, Live,
         Ledger!IsNext, IsNext

LEMMA LedgerGrow ==
    ASSUME TypeInv, NEW s \in Sources, Grow(s)
    PROVE  Ledger!Grow(s)
<1>1. \A r \in Sources \ {s} : chain'[r] = chain[r]
  BY DEF Grow, TypeInv, TypeOK
<1>2. Extended(chain[s], chain'[s])
  BY GrowExtends DEF TypeInv
<1>3. UNCHANGED <<source, cursor, registry>>
  BY DEF Grow
<1> QED BY <1>1, <1>2, <1>3, SameChain DEF Ledger!Grow

(* A row that is added has no progress, and a removed one keeps none.      *)
LEMMA LedgerAdmin ==
    ASSUME FaultInv, NEW s \in Sources
    PROVE  /\ AddSource(s) => Ledger!Add(s)
           /\ RemoveSource(s) => Ledger!Remove(s)
<1> DEFINE applied == [r \in Sources |-> cursor[r].tx]
<1>0. cursor \in [Sources -> Position]
  BY DEF FaultInv, TypeInv, TypeOK
<1>1. ASSUME AddSource(s) PROVE Ledger!Add(s)
  <2>1. cursor[s] = Start /\ cursor' = [cursor EXCEPT ![s] = Start]
    BY <1>1 DEF AddSource, FaultInv, RowOK, Fresh
  <2>2. cursor' = cursor
    BY <1>0, <2>1
  <2> QED BY <1>1, <2>2 DEF AddSource, Ledger!Add
<1>2. ASSUME RemoveSource(s) PROVE Ledger!Remove(s)
  <2>1. applied' = [applied EXCEPT ![s] = 0]
    BY <1>0, <1>2 DEF RemoveSource, Start
  <2> QED BY <1>2, <2>1 DEF RemoveSource, Ledger!Remove
<1> QED BY <1>1, <1>2

LEMMA LedgerWrite ==
    ASSUME FaultInv, NEW s \in Sources, SourceInv(s), worker[s].held, NEW a \in Assets,
           SyncMint(s, a) \/ SyncBurn(s, a)
    PROVE  Ledger!Write(s, a)
<1>1. /\ worker[s].at = "assets" /\ UNCHANGED <<chain, source, cursor>>
      /\ source[s] /\ TypeInv
  BY DEF SyncMint, SyncBurn, Pending, FaultInv, RowOK
<1>2. registry' = [registry EXCEPT ![s][a] = OnChain(chain[s], Current(s).tx, a)]
  BY <1>1, MintWrites, BurnWrites
<1>3. /\ worker[s].pos \in Mints(chain[s]) /\ Current(s).tx = chain[s][worker[s].pos].tx
      /\ Current(s).tx = cursor[s].tx \/ IsNext(chain[s], cursor[s].tx, worker[s].pos)
  BY <1>1, CurrentIsDue DEF Current
<1>4. Current(s).tx \in {cursor[s].tx} \cup
        {chain[s][i].tx : i \in {j \in Mints(chain[s]) : IsNext(chain[s], cursor[s].tx, j)}}
  BY <1>3
<1> QED BY <1>1, <1>2, <1>4, SameChain DEF Ledger!Write

LEMMA LedgerCommit ==
    ASSUME FaultInv, NEW s \in Sources, SourceInv(s), SaveCursor(s)
    PROVE  Ledger!Commit(s) \/ UNCHANGED Ledger!vars
<1>1. /\ worker[s].at = "assets" /\ worker[s].held
      /\ UNCHANGED <<chain, source, registry>>
      /\ cursor' = [cursor EXCEPT ![s] = [page |-> worker[s].page, tx |-> Current(s).tx]]
      /\ cursor \in [Sources -> Position] /\ TypeInv /\ source[s]
  BY DEF SaveCursor, FaultInv, TypeInv, TypeOK, RowOK
<1>2. /\ worker[s].pos \in Mints(chain[s]) /\ Current(s).tx = chain[s][worker[s].pos].tx
      /\ Current(s).tx = cursor[s].tx \/ IsNext(chain[s], cursor[s].tx, worker[s].pos)
  BY <1>1, CurrentIsDue DEF Current
<1>3. [r \in Sources |-> cursor'[r].tx] =
        [[r \in Sources |-> cursor[r].tx] EXCEPT ![s] = Current(s).tx]
  BY <1>1
<1>4. CASE Current(s).tx = cursor[s].tx
  <2>1. [r \in Sources |-> cursor'[r].tx] = [r \in Sources |-> cursor[r].tx]
    BY <1>3, <1>4
  <2> QED BY <1>1, <2>1 DEF Ledger!vars
<1>5. CASE Current(s).tx # cursor[s].tx
  <2>1. IsNext(chain[s], cursor[s].tx, worker[s].pos)
    BY <1>2, <1>5
  <2>2. \A a \in Assets : registry[s][a] = OnChain(chain[s], chain[s][worker[s].pos].tx, a)
    BY <1>1, <1>2, <1>5, SaveCursorFact
  <2> QED BY <1>1, <1>2, <1>3, <2>1, <2>2, SameChain DEF Ledger!Commit
<1> QED BY <1>4, <1>5

(* Every step of the pass and of the administration is a step of the ledger*)
(* or none: no mint or burn is skipped and none is applied out of order,   *)
(* whatever fails or crashes and whatever sources come and go.             *)
THEOREM ImplementsLedger ==
    ASSUME "lookup" \notin Faults, ~ChainMovesDuringPass
    PROVE  Spec => FollowsLedger
<1>1. Init => Ledger!Init
  <2> SUFFICES ASSUME Init PROVE Ledger!Init
    OBVIOUS
  <2>1. [s \in Sources |-> cursor[s].tx] = [s \in Sources |-> 0]
    BY DEF Init, Start
  <2> QED BY <2>1 DEF Init, Ledger!Init
<1>2. IInv /\ TypeInv' /\ [Next]_vars => [Ledger!Next]_(Ledger!vars)
  <2> SUFFICES ASSUME IInv, TypeInv', [Next]_vars
               PROVE  Ledger!Next \/ UNCHANGED Ledger!vars
    OBVIOUS
  <2>0. /\ FaultInv /\ TypeInv /\ TypeOK' /\ \A s \in Sources : RowOK(s) /\ SourceInv(s)
    BY DEF IInv, FaultInv, TypeInv
  <2>1. ASSUME NEW s \in Sources, Grow(s) PROVE Ledger!Next
    BY <2>0, <2>1, LedgerGrow DEF Ledger!Next
  <2>2. ASSUME NEW s \in Sources, AddSource(s) \/ RemoveSource(s) PROVE Ledger!Next
    BY <2>0, <2>2, LedgerAdmin DEF Ledger!Next
  <2>3. CASE UNCHANGED <<chain, source, cursor, registry>>
    BY <2>3 DEF Ledger!vars
  <2>4. ASSUME NEW s \in Sources, SourceStep(s)
        PROVE  Ledger!Next \/ UNCHANGED Ledger!vars
    <3>1. CASE ~worker[s].held
      BY <2>0, <2>3, <2>4, <3>1, WithoutRow
    <3>2. ASSUME NEW a \in Assets, SyncMint(s, a) \/ SyncBurn(s, a), worker[s].held
          PROVE  Ledger!Next
      BY <2>0, <3>2, LedgerWrite DEF Ledger!Next
    <3>3. CASE SaveCursor(s)
      BY <2>0, <3>3, LedgerCommit DEF Ledger!Next
    <3>4. CASE FetchPage(s) \/ SkipSpend(s) \/ ReadTx(s) \/ NextPage(s) \/ SourceGone(s)
               \/ Fail(s)
      BY <2>3, <3>4 DEF FetchPage, SkipSpend, ReadTx, NextPage, SourceGone, Fail
    <3> QED BY <2>4, <3>1, <3>2, <3>3, <3>4 DEF SourceStep, LookupFails
  <2>5. ASSUME NEW c \in Callers, Call(c) \/ PassStep(c)
        PROVE  UNCHANGED <<chain, source, cursor, registry>>
    BY <2>5 DEF Call, PassStep, Refused, Acquire, ReadSources, NoSources, RereadFails, Finish
  <2>6. CASE Crash \/ UNCHANGED vars
    BY <2>3, <2>6 DEF Crash, vars
  <2> QED BY <2>1, <2>2, <2>3, <2>4, <2>5, <2>6 DEF Next
<1>3. IInv => TypeInv
  BY DEF IInv, FaultInv
<1> QED BY <1>1, <1>2, <1>3, Induction, PTL DEF Spec, FollowsLedger, Ledger!Spec
=============================================================================
