----------------------------- MODULE ChainSync -----------------------------
(***************************************************************************)
(* updateLatestCardanoRegistryEntries: the pass that brings the registry   *)
(* up to the chain.  The scheduler calls it on an interval and every       *)
(* registry query calls it before it reads, so that calls overlap; a mutex *)
(* admits one pass, which works on all registry sources concurrently.  Per *)
(* source it pages through the redeemers from the persisted cursor, writes *)
(* an entry per minted or burned asset and persists the cursor after each  *)
(* transaction.                                                            *)
(*                                                                         *)
(* Administrators add and remove registry sources at any time, also while  *)
(* a pass works on them: the row of a source holds its cursor, and its     *)
(* entries go with it.                                                     *)
(*                                                                         *)
(* chain is the environment; source, cursor and registry are database      *)
(* rows; lock, caller and worker are lost when the process restarts.       *)
(***************************************************************************)
EXTENDS RegistryChain

CONSTANTS
    Callers,        \* the activities that call the pass
    Scheduler,      \* the one on the interval timer; the others are queries
    Sources,        \* the registry policies that can be followed
    PageSize,       \* redeemers per page (100 in the code)
    MaxChain,       \* bound: redeemers per source
    Faults,         \* which faults happen
    ChainMovesDuringPass    \* whether the chain grows while a pass runs

ASSUME SchedulerAssumption == Scheduler \in Callers
ASSUME PageSizeAssumption  == PageSize \in Nat \ {0}
ASSUME MaxChainAssumption  == MaxChain \in Nat
ASSUME FaultsAssumption    == Faults \subseteq {"error", "lookup", "reread", "crash"}
ASSUME ChainMovesAssumption == ChainMovesDuringPass \in BOOLEAN

VARIABLES
    chain,      \* chain[s]: the redeemers of the policy of s
    source,     \* source[s]: whether there is a RegistrySource row for s
    cursor,     \* cursor[s]: lastCheckedPage and lastTxId (0 for null)
    registry,   \* registry[s][a]: the entry of asset a
    locked,     \* updateMutex
    caller,     \* caller[c]: where activity c is
    worker      \* worker[s]: where the pass is with source s

vars == <<chain, source, cursor, registry, locked, caller, worker>>

---------------------------------------------------------------------------
(* Pages.  The first redeemer of page p has index FirstOn(p).              *)

FirstOn(p) == (p - 1) * PageSize + 1
LastOn(p)  == p * PageSize

(* The last redeemer page p holds now.                                     *)
PageEnd(s, p) == IF Len(chain[s]) < LastOn(p) THEN Len(chain[s]) ELSE LastOn(p)

IsFirstOf(s, p, t, i) ==
    /\ i \in FirstOn(p)..PageEnd(s, p)
    /\ chain[s][i].tx = t
    /\ \A j \in FirstOn(p)..(i - 1) : chain[s][j].tx # t

---------------------------------------------------------------------------
Start == [page |-> 1, tx |-> 0]

(* held: the row whose id the pass has read still exists.  Ids are not used*)
(* again, so a row added later for the same policy is not this one.        *)
Off == [at |-> "off", held |-> FALSE, page |-> 1, from |-> 0, pos |-> 0, upto |-> 0,
        todo |-> {}]

Settled(s) == worker[s].at \in {"off", "done", "failed"}

Position  == [page : Nat \ {0}, tx : Nat]
Progress  == [at   : {"off", "fetch", "scan", "assets", "done", "failed"},
              held : BOOLEAN, page : Nat \ {0}, from : Nat, pos : Nat, upto : Nat,
              todo : SUBSET Assets]

TypeOK ==
    /\ chain \in [Sources -> Seq(Redeemer)]
    /\ source \in [Sources -> BOOLEAN]
    /\ cursor \in [Sources -> Position]
    /\ registry \in [Sources -> [Assets -> EntryStates]]
    /\ locked \in BOOLEAN
    /\ caller \in [Callers -> {"idle", "called", "reading", "syncing"}]
    /\ worker \in [Sources -> Progress]

Init ==
    /\ chain = [s \in Sources |-> <<>>]
    /\ source = [s \in Sources |-> FALSE]
    /\ cursor = [s \in Sources |-> Start]
    /\ registry = [s \in Sources |-> [a \in Assets |-> "absent"]]
    /\ locked = FALSE
    /\ caller = [c \in Callers |-> "idle"]
    /\ worker = [s \in Sources |-> Off]

---------------------------------------------------------------------------
(* The chain (external).  A transaction mints assets that are not in       *)
(* circulation and burns assets that are, or only spends from the script.  *)

InCirculation(s) ==
    {a \in Assets : Live(chain[s], LastTx(chain[s]), a)}

Grow(s) ==
    /\ ChainMovesDuringPass \/ ~locked
    /\ LET t == LastTx(chain[s]) + 1
       IN \E m \in SUBSET (Assets \ InCirculation(s)), b \in SUBSET InCirculation(s) :
          \E n \in IF m \cup b = {} THEN {<<Spend(t)>>} ELSE Transactions(t, m, b) :
             /\ Len(chain[s]) + Len(n) <= MaxChain
             /\ chain' = [chain EXCEPT ![s] = @ \o n]
    /\ UNCHANGED <<source, cursor, registry, locked, caller, worker>>

---------------------------------------------------------------------------
(* The administration of sources.  (A PATCH changes the note and the key of*)
(* the provider only.)                                                     *)

(* One row per policy; it starts with page 1 and without a transaction.    *)
AddSource(s) ==
    /\ ~source[s]
    /\ source' = [source EXCEPT ![s] = TRUE]
    /\ cursor' = [cursor EXCEPT ![s] = Start]
    /\ UNCHANGED <<chain, registry, locked, caller, worker>>

(* The row is deleted and with it, by the foreign keys, all its entries.   *)
RemoveSource(s) ==
    /\ source[s]
    /\ source' = [source EXCEPT ![s] = FALSE]
    /\ cursor' = [cursor EXCEPT ![s] = Start]
    /\ registry' = [registry EXCEPT ![s] = [a \in Assets |-> "absent"]]
    /\ worker' = [worker EXCEPT ![s].held = FALSE]
    /\ UNCHANGED <<chain, locked, caller>>

---------------------------------------------------------------------------
(* A call: the sources are read once without the mutex (not empty, or the  *)
(* call returns), then the mutex is tried, never awaited.                  *)

Call(c) ==
    /\ caller[c] = "idle"
    /\ \E s \in Sources : source[s]
    /\ caller' = [caller EXCEPT ![c] = "called"]
    /\ UNCHANGED <<chain, source, cursor, registry, locked, worker>>

(* tryAcquire rejects at once when the mutex is taken; the call returns.   *)
Refused(c) ==
    /\ caller[c] = "called"
    /\ locked
    /\ caller' = [caller EXCEPT ![c] = "idle"]
    /\ UNCHANGED <<chain, source, cursor, registry, locked, worker>>

(* Mutant: the mutex is not looked at.                                     *)
AcquireAnyway(c) ==
    /\ caller[c] = "called"
    /\ locked' = TRUE
    /\ caller' = [caller EXCEPT ![c] = "reading"]
    /\ UNCHANGED <<chain, source, cursor, registry, worker>>

Acquire(c) ==
    /\ caller[c] = "called"
    /\ ~locked
    /\ locked' = TRUE
    /\ caller' = [caller EXCEPT ![c] = "reading"]
    /\ UNCHANGED <<chain, source, cursor, registry, worker>>

(* Mutant: every pass starts at the first page.                            *)
ReadFromFirstPage(c) ==
    /\ caller[c] = "reading"
    /\ caller' = [caller EXCEPT ![c] = "syncing"]
    /\ worker' = [s \in Sources |->
                    IF source[s] THEN [Off EXCEPT !.at = "fetch", !.held = TRUE,
                                                  !.from = cursor[s].tx]
                    ELSE Off]
    /\ UNCHANGED <<chain, source, cursor, registry, locked>>

(* The second read of the sources, under the mutex: the pass works from    *)
(* this copy of the cursors.                                               *)
ReadSources(c) ==
    /\ caller[c] = "reading"
    /\ caller' = [caller EXCEPT ![c] = "syncing"]
    /\ \E s \in Sources : source[s]
    /\ worker' = [s \in Sources |->
                    IF source[s]
                    THEN [Off EXCEPT !.at = "fetch", !.held = TRUE,
                                     !.page = cursor[s].page, !.from = cursor[s].tx]
                    ELSE Off]
    /\ UNCHANGED <<chain, source, cursor, registry, locked>>

(* All sources were removed since the first read: an early return.         *)
NoSources(c) ==
    /\ caller[c] = "reading"
    /\ \A s \in Sources : ~source[s]
    /\ locked' = FALSE
    /\ caller' = [caller EXCEPT ![c] = "idle"]
    /\ UNCHANGED <<chain, source, cursor, registry, worker>>

(* That read precedes the try block: if it throws, the error leaves the    *)
(* function and nothing releases the mutex.                                *)
RereadFails(c) ==
    /\ "reread" \in Faults
    /\ caller[c] = "reading"
    /\ caller' = [caller EXCEPT ![c] = "idle"]
    /\ UNCHANGED <<chain, source, cursor, registry, locked, worker>>

(* Mutant: no release.                                                     *)
FinishKeepsLock(c) ==
    /\ caller[c] = "syncing"
    /\ \A s \in Sources : Settled(s)
    /\ caller' = [caller EXCEPT ![c] = "idle"]
    /\ worker' = [s \in Sources |-> Off]
    /\ UNCHANGED <<chain, source, cursor, registry, locked>>

(* Promise.all over the sources, each of which catches its own errors;     *)
(* then the finally block.                                                 *)
Finish(c) ==
    /\ caller[c] = "syncing"
    /\ \A s \in Sources : Settled(s)
    /\ locked' = FALSE
    /\ caller' = [caller EXCEPT ![c] = "idle"]
    /\ worker' = [s \in Sources |-> Off]
    /\ UNCHANGED <<chain, source, cursor, registry>>

---------------------------------------------------------------------------
(* One source in a pass.                                                   *)

(* Mutant: the loop ends when nothing new is left on a page.               *)
FetchPageStopsEarly(s) ==
    LET w == worker[s]
        fresh == {i \in FirstOn(w.page)..PageEnd(s, w.page) : chain[s][i].tx > w.from}
    IN
    /\ w.at = "fetch"
    /\ worker' = IF fresh = {}
                 THEN [worker EXCEPT ![s] = [Off EXCEPT !.at = "done", !.held = w.held]]
                 ELSE [worker EXCEPT ![s].at = "scan", ![s].upto = PageEnd(s, w.page),
                         ![s].pos = CHOOSE i \in fresh : \A j \in fresh : i <= j]
    /\ UNCHANGED <<chain, source, cursor, registry, locked, caller>>

(* getScriptsRedeemers: an empty page ends the loop.  Otherwise what is up *)
(* to and including the first redeemer of the transaction the pass started *)
(* from, when the page has one, is cut off.                                *)
FetchPage(s) ==
    LET w == worker[s] IN
    /\ w.at = "fetch"
    /\ IF FirstOn(w.page) > Len(chain[s])
       THEN worker' = [worker EXCEPT ![s] = [Off EXCEPT !.at = "done", !.held = w.held]]
       ELSE \E p \in FirstOn(w.page)..(PageEnd(s, w.page) + 1) :
              /\ \/ p > FirstOn(w.page) /\ IsFirstOf(s, w.page, w.from, p - 1)
                 \/ /\ p = FirstOn(w.page)
                    /\ \A i \in p..PageEnd(s, w.page) : chain[s][i].tx # w.from
              /\ worker' = [worker EXCEPT ![s].at = "scan", ![s].pos = p,
                                          ![s].upto = PageEnd(s, w.page)]
    /\ UNCHANGED <<chain, source, cursor, registry, locked, caller>>

Scanning(s) == worker[s].at = "scan" /\ worker[s].pos <= worker[s].upto
Current(s)  == chain[s][worker[s].pos]

SkipSpend(s) ==
    /\ Scanning(s)
    /\ Current(s).purpose # "mint"
    /\ worker' = [worker EXCEPT ![s].pos = @ + 1]
    /\ UNCHANGED <<chain, source, cursor, registry, locked, caller>>

(* txsUtxos: which assets of the policy the transaction moved.             *)
ReadTx(s) ==
    /\ Scanning(s)
    /\ Current(s).purpose = "mint"
    /\ worker' = [worker EXCEPT ![s].at = "assets",
                                ![s].todo = Current(s).minted \cup Current(s).burned]
    /\ UNCHANGED <<chain, source, cursor, registry, locked, caller>>

(* Mutant: a page is skipped.                                              *)
NextPageButOne(s) ==
    /\ worker[s].at = "scan"
    /\ worker[s].pos > worker[s].upto
    /\ worker' = [worker EXCEPT ![s].at = "fetch", ![s].page = @ + 2]
    /\ UNCHANGED <<chain, source, cursor, registry, locked, caller>>

NextPage(s) ==
    /\ worker[s].at = "scan"
    /\ worker[s].pos > worker[s].upto
    /\ worker' = [worker EXCEPT ![s].at = "fetch", ![s].page = @ + 1]
    /\ UNCHANGED <<chain, source, cursor, registry, locked, caller>>

Pending(s, a) == worker[s].at = "assets" /\ a \in worker[s].todo

(* Mutant: the entry is written without a source.                          *)
SyncMintOrphan(s, a) ==
    /\ Pending(s, a)
    /\ a \in Current(s).minted
    /\ registry' = IF a \in Parsable
                   THEN [registry EXCEPT ![s][a] = "listed"] ELSE registry
    /\ worker' = [worker EXCEPT ![s].todo = @ \ {a}]
    /\ UNCHANGED <<chain, source, cursor, locked, caller>>

(* quantity > 0: the metadata is looked up and the entry upserted when it  *)
(* parses, connected to the source.                                        *)
SyncMint(s, a) ==
    /\ Pending(s, a)
    /\ a \in Current(s).minted
    /\ a \in Parsable => worker[s].held
    /\ registry' = IF a \in Parsable
                   THEN [registry EXCEPT ![s][a] = "listed"] ELSE registry
    /\ worker' = [worker EXCEPT ![s].todo = @ \ {a}]
    /\ UNCHANGED <<chain, source, cursor, locked, caller>>

(* assetsById throws: logged, and the loop goes on with the next asset.    *)
LookupFails(s, a) ==
    /\ "lookup" \in Faults
    /\ Pending(s, a)
    /\ a \in Current(s).minted
    /\ worker' = [worker EXCEPT ![s].todo = @ \ {a}]
    /\ UNCHANGED <<chain, source, cursor, registry, locked, caller>>

(* Mutant: upsert instead of updateMany.                                   *)
SyncBurnUpserts(s, a) ==
    /\ Pending(s, a)
    /\ a \in Current(s).burned
    /\ registry' = [registry EXCEPT ![s][a] = "deregistered"]
    /\ worker' = [worker EXCEPT ![s].todo = @ \ {a}]
    /\ UNCHANGED <<chain, source, cursor, locked, caller>>

(* quantity < 0: updateMany, which touches an entry only if there is one.  *)
SyncBurn(s, a) ==
    /\ Pending(s, a)
    /\ a \in Current(s).burned
    /\ registry' = IF registry[s][a] = "absent" THEN registry
                   ELSE [registry EXCEPT ![s][a] = "deregistered"]
    /\ worker' = [worker EXCEPT ![s].todo = @ \ {a}]
    /\ UNCHANGED <<chain, source, cursor, locked, caller>>

(* Mutants: the cursor is saved before the entries; the page is one less.  *)
SaveCursorFirst(s) ==
    /\ worker[s].at = "assets"
    /\ cursor' = [cursor EXCEPT ![s] = [page |-> worker[s].page, tx |-> Current(s).tx]]
    /\ worker' = IF worker[s].todo = {}
                 THEN [worker EXCEPT ![s].at = "scan", ![s].pos = @ + 1] ELSE worker
    /\ UNCHANGED <<chain, source, registry, locked, caller>>

SaveCursorPageBefore(s) ==
    /\ worker[s].at = "assets"
    /\ worker[s].todo = {}
    /\ cursor' = [cursor EXCEPT ![s] = [page |-> worker[s].page - 1, tx |-> Current(s).tx]]
    /\ worker' = [worker EXCEPT ![s].at = "scan", ![s].pos = @ + 1]
    /\ UNCHANGED <<chain, source, registry, locked, caller>>

(* Mutant: the row is found by its policy, not by its id.                  *)
SaveCursorByPolicy(s) ==
    /\ worker[s].at = "assets"
    /\ worker[s].todo = {}
    /\ source[s]
    /\ cursor' = [cursor EXCEPT ![s] = [page |-> worker[s].page, tx |-> Current(s).tx]]
    /\ worker' = [worker EXCEPT ![s].at = "scan", ![s].pos = @ + 1]
    /\ UNCHANGED <<chain, source, registry, locked, caller>>

SaveCursor(s) ==
    /\ worker[s].at = "assets"
    /\ worker[s].todo = {}
    /\ worker[s].held
    /\ cursor' = [cursor EXCEPT ![s] = [page |-> worker[s].page, tx |-> Current(s).tx]]
    /\ worker' = [worker EXCEPT ![s].at = "scan", ![s].pos = @ + 1]
    /\ UNCHANGED <<chain, source, registry, locked, caller>>

(* An entry cannot be connected to a row that is gone, and a cursor cannot *)
(* be saved in it: the statement throws, as in Fail, whatever the faults.  *)
SourceGone(s) ==
    /\ worker[s].at = "assets"
    /\ ~worker[s].held
    /\ worker[s].todo = {} \/ worker[s].todo \cap Current(s).minted \cap Parsable # {}
    /\ worker' = [worker EXCEPT ![s] = [Off EXCEPT !.at = "failed"]]
    /\ UNCHANGED <<chain, source, cursor, registry, locked, caller>>

(* Mutant: a failure is tried again within the pass, without end.          *)
FailRetries(s) ==
    /\ "error" \in Faults
    /\ \/ worker[s].at \in {"fetch", "assets"}
       \/ Scanning(s) /\ Current(s).purpose = "mint"
    /\ worker' = [worker EXCEPT ![s].at = "fetch", ![s].todo = {}]
    /\ UNCHANGED <<chain, source, cursor, registry, locked, caller>>

(* Any awaited request or statement of the loop throws: the source's       *)
(* handler logs it and the pass is over for this source.                   *)
Fail(s) ==
    /\ "error" \in Faults
    /\ \/ worker[s].at \in {"fetch", "assets"}
       \/ Scanning(s) /\ Current(s).purpose = "mint"
    /\ worker' = [worker EXCEPT ![s] = [Off EXCEPT !.at = "failed"]]
    /\ UNCHANGED <<chain, source, cursor, registry, locked, caller>>

(* The process stops at any point and starts again.                        *)
Crash ==
    /\ "crash" \in Faults
    /\ locked' = FALSE
    /\ caller' = [c \in Callers |-> "idle"]
    /\ worker' = [s \in Sources |-> Off]
    /\ UNCHANGED <<chain, source, cursor, registry>>

---------------------------------------------------------------------------
PassStep(c) ==
    \/ Refused(c) \/ Acquire(c) \/ ReadSources(c) \/ NoSources(c) \/ RereadFails(c)
    \/ Finish(c)

SourceStep(s) ==
    \/ FetchPage(s) \/ SkipSpend(s) \/ ReadTx(s) \/ NextPage(s) \/ SaveCursor(s)
    \/ \E a \in Assets : SyncMint(s, a) \/ LookupFails(s, a) \/ SyncBurn(s, a)
    \/ SourceGone(s) \/ Fail(s)

Next ==
    \/ \E s \in Sources : Grow(s) \/ AddSource(s) \/ RemoveSource(s) \/ SourceStep(s)
    \/ \E c \in Callers : Call(c) \/ PassStep(c)
    \/ Crash

Spec == Init /\ [][Next]_vars

(* The interval timer keeps calling, and every request and statement that  *)
(* is awaited is answered or fails.                                        *)
Fairness ==
    /\ WF_vars(Call(Scheduler))
    /\ \A c \in Callers : WF_vars(PassStep(c))
    /\ \A s \in Sources : WF_vars(SourceStep(s))

FairSpec == Spec /\ Fairness

---------------------------------------------------------------------------
(* Properties.                                                             *)

(* Every registry is the chain's state after the transaction the cursor    *)
(* names, entry by entry, but for entries of the very next mint or burn    *)
(* already written: a crash, a failure or an overlapping call between the  *)
(* entry's write and the cursor's leaves nothing else behind.              *)
Follows(s, a) ==
    \/ registry[s][a] = OnChain(chain[s], cursor[s].tx, a)
    \/ \E i \in Mints(chain[s]) :
          /\ IsNext(chain[s], cursor[s].tx, i)
          /\ registry[s][a] = OnChain(chain[s], chain[s][i].tx, a)

RegistryFollowsCursor == \A s \in Sources, a \in Assets : Follows(s, a)

(* A source whose loop ended on an empty page has its whole chain in the   *)
(* registry, unless it was removed meanwhile.                              *)
DoneMeansCaughtUp ==
    \A s \in Sources :
        worker[s].at = "done" /\ worker[s].held =>
            \A a \in Assets :
                registry[s][a] = OnChain(chain[s], LastTx(chain[s]), a)

(* Whatever happens, lost pages included, no entry is in a state that the  *)
(* chain has not once given it.                                            *)
EntriesHaveCause ==
    \A s \in Sources, a \in Assets :
        \E t \in 0..LastTx(chain[s]) : registry[s][a] = OnChain(chain[s], t, a)

(* Sources are worked on inside one pass only, the one that holds the      *)
(* mutex, whatever calls overlap.                                          *)
SinglePass ==
    /\ \A c, d \in Callers :
          {caller[c], caller[d]} \subseteq {"reading", "syncing"} => c = d
    /\ \A s \in Sources :
          worker[s].at # "off" => \E c \in Callers : caller[c] = "syncing"

(* The mutex is taken only while some call is inside the pass; a taken     *)
(* mutex nobody will release would refuse every later call.                *)
LockHeldByPass ==
    locked => \E c \in Callers : caller[c] \in {"reading", "syncing"}

(* A source that was removed has no entry and no progress left, not even   *)
(* while a pass still works on it: one added again for its policy starts   *)
(* from nothing.                                                           *)
Fresh(s) == cursor[s] = Start /\ \A a \in Assets : registry[s][a] = "absent"

RemovedLeavesNothing ==
    \A s \in Sources :
        ~source[s] \/ (worker[s].at \in {"fetch", "scan", "assets"} /\ ~worker[s].held)
            => Fresh(s)

(* The persisted cursor of a row never moves back to an earlier transaction*)
(* or page, even when a transaction is applied again or a pass starts from *)
(* a copy.                                                                 *)
CursorNeverMovesBack ==
    [][\A s \in Sources :
          source'[s] => /\ cursor[s].tx  <= cursor'[s].tx
                        /\ cursor[s].page <= cursor'[s].page]_vars

(* The pass implements the ledger: nothing skipped, nothing out of order.  *)
Ledger == INSTANCE RegistryLedger WITH applied <- [s \in Sources |-> cursor[s].tx]
FollowsLedger == Ledger!Spec

(* (The end of a pass that nobody waits for looks like a crash.)           *)
Crashes == Crash /\ ~\E c \in Callers : Finish(c)

(* If the process stops crashing and a source stays and stops failing, its *)
(* registry reaches the chain's state and stays there, however the other   *)
(* sources fail, come and go, and however queries compete for the mutex.   *)
Converges ==
    \A s \in Sources :
        <>[]source[s] /\ <>[][~Crashes /\ ~Fail(s)]_vars =>
            <>[](\A a \in Assets :
                    registry[s][a] = OnChain(chain[s], LastTx(chain[s]), a))

---------------------------------------------------------------------------
(* Why RegistryFollowsCursor holds when metadata lookups do not fail and   *)
(* the chain stands still during a pass: the inductive invariant.          *)

(* The cursor's transaction is on the cursor's page.                       *)
CursorOK(s) ==
    \/ cursor[s] = Start
    \/ \E i \in Mints(chain[s]) :
          /\ chain[s][i].tx = cursor[s].tx
          /\ i \in FirstOn(cursor[s].page)..LastOn(cursor[s].page)

(* From index p on: every mint or burn after the cursor, and none before.  *)
NothingBehind(s, p) ==
    \A i \in Mints(chain[s]) : cursor[s].tx < chain[s][i].tx => p <= i
NothingOlder(s, p) ==
    \A i \in Mints(chain[s]) : p <= i => cursor[s].tx <= chain[s][i].tx

(* Where a pass is: what it does again is harmless, only the cursor's own  *)
(* transaction can be applied again.                                       *)
PlaceOK(s) ==
    LET w == worker[s] IN
    /\ w.held /\ w.at \in {"fetch", "scan", "assets"} =>
          w.from <= cursor[s].tx /\ cursor[s].page <= w.page
    /\ w.held /\ w.at = "fetch" =>
          \/ [page |-> w.page, tx |-> w.from] = cursor[s]
          \/ NothingOlder(s, FirstOn(w.page))
    /\ w.held /\ w.at \in {"scan", "assets"} =>
          /\ w.pos \in FirstOn(w.page)..(w.upto + 1)
          /\ w.upto <= LastOn(w.page)
          /\ NothingOlder(s, w.pos)

(* What is left to do suffices.                                            *)
WorkerOK(s) ==
    LET w == worker[s] IN
    /\ w.held /\ w.at = "fetch" => NothingBehind(s, FirstOn(w.page))
    /\ w.held /\ w.at \in {"scan", "assets"} =>
          w.upto = PageEnd(s, w.page) /\ NothingBehind(s, w.pos)
    /\ w.held /\ w.at = "assets" =>
          \A a \in (Current(s).minted \cup Current(s).burned) \ w.todo :
              registry[s][a] = OnChain(chain[s], Current(s).tx, a)
    /\ w.held /\ w.at = "done" =>
          \A i \in Mints(chain[s]) : chain[s][i].tx <= cursor[s].tx

(* The cursor, the page and the place on it, and the entries agree at every*)
(* moment of a pass, also of one that starts after a crash or a failure    *)
(* between the writes of an earlier one.                                   *)
SyncInv ==
    /\ \A s \in Sources : ChainOK(chain[s]) /\ CursorOK(s) /\ PlaceOK(s) /\ WorkerOK(s)
    /\ RegistryFollowsCursor
    /\ RemovedLeavesNothing

---------------------------------------------------------------------------
(* What comments and documents of the repository say of it.                *)

(* "The registry is updated every 2 minutes": unless the process keeps     *)
(* crashing or has no source, passes keep being made.                      *)
KeepsUpdating ==
    <>[][~Crashes]_vars /\ <>[](\E s \in Sources : source[s]) => []<>(\E c \in Callers : caller[c] = "syncing")
=============================================================================
