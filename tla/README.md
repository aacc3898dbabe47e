# A formal model of the registry service

This directory holds TLA+ specifications of the Masumi registry service, the TLC
configurations that check them on small instances, and proofs, checked by TLAPS, that
the most important properties hold for every instance. It covers the parts of the
service in which several activities work on the same rows, in which a step can fail
between two others, or in which a list is read while it changes; most string and address
work is left to the unit tests.

Paths below are relative to the repository. Short names:

| name | file |
| --- | --- |
| sync | `src/services/cardano-registry/cardano-registry.service.ts` |
| health | `src/services/health-check/health-check.service.ts` |
| inbox | `src/services/cardano-registry/inbox-agent-registration.ts` |
| entries | `src/repositories/registry-entry/registry-entry.repository.ts` |
| credit | `src/repositories/creditTokens/credit.repository.ts` |

## 1. The system

The service follows registry policies on the Cardano chain, keeps one row per agent in a
PostgreSQL database, checks whether the agents can be reached, and serves the rows over
an HTTP API to holders of API keys. It is one Node.js process; "at the same time" below
means interleaved at every `await`.

```
   Blockfrost (chain)                       agents' endpoints
        |                                        ^      ^
        v                                        |      |
  +-------------+   mint: asks the agent   +-----------------+
  | chain sync  |------------------------->| verification of |
  | updateMutex |                          | web3 and inbox  |<---+
  +-------------+                          +-----------------+    |
     ^       |                                ^        |          | query with
     | every |  upsert, deregister, cursor    | load   | update   | minHealthCheckDate
     | query |                                |        v          |
     |       v                              +-----------------+   |
     |   +----------------------------------| database        |   |
     |   |  RegistrySource, RegistryEntry,  | trigger stamps  |   |
     |   |  InboxAgentRegistration, ApiKey  | status changes  |   |
     |   +----------------------------------+-----------------+   |
     |            ^                  ^               |            |
     |            | health pass      | charge        | diff feed  |
     |      (healthMutex)            |               v            |
  +------------------------------------------------------------------+
  |  HTTP API: authentication, credits, queries, diffs, admin        |
  +------------------------------------------------------------------+
```

### Components

| component | state it keeps | operations | what makes it correct |
| --- | --- | --- | --- |
| chain sync (sync 641-810) | per source `lastCheckedPage`, `lastTxId`; `updateMutex`; in flight: page, position, assets still to write | a call (scheduler or query), a pass over all sources, per source: fetch a page, cut off what is known, per transaction: read it, write each asset, save the cursor | no mint or burn lost or out of order, through failures and restarts; one pass at a time; a failing source neither blocks nor stops others; passes go on |
| registration of inbox agents (sync 524-639, inbox) | rows with status, content, verification data | on a mint: read, upsert, verify at once if new or changed; on a burn: deregister | verification data is there exactly when the present content was verified; burned agents have none |
| inbox health check (health 459-714) | rows loaded, answers | load, one request per endpoint, update by id | nothing is listed as verified, and no key attributed, that its endpoint did not publish; nothing but a mint, or a pass that loaded it before the burn, revives a burned one; the status ends up what the endpoint says |
| registration of web3 agents (sync 381-522, 619-639) | rows with status, URL, uptime counters | on a mint: ask the agent, upsert; on a burn: deregister | counters add up |
| web3 health check (health 194-457, sync 153-339) | rows loaded, answers; `healthMutex` | load the rows that are due, one request per URL, update; the same by a query | as above; every entry is checked again |
| diff feeds (entries, inbox repository, migration `20251220221738`) | `statusUpdatedAt`, set by a trigger | page forward from (time, id) | a reader that follows the feed misses no status |
| API keys and credits (auth middleware, credit, api-key repository) | keys, limit, credits used, usage entries; pool of connections | authenticate, check, charge; add, change, delete | never beyond the limit; never an unrecorded charge; every call ends |
| queries (registry-entry service) | none | start a sync, load a page, check it, return what is left | every entry of the answer set is returned |
| source administration, capability query, payment information | sources; none | create, update, delete; read | - |
| schedules, `AsyncInterval` | timer | call again after the previous call ended | keeps calling |
| metadata normalisation, public URL validation, HTTP headers, OpenAPI, logging | none | pure functions | - |

### How they interact

* The scheduler and every registry query call the **sync**. It takes `updateMutex` by
  `tryAcquire`: a call that finds it taken returns at once.
* The **sync** calls the verification of one agent within a mint. The **health pass**
  takes a mutex of its own. **Queries** verify without any. So three activities write the
  same rows, each from what it read before its requests.
* The **database trigger** stamps every change of status, whoever makes it; the
  **diff feeds** are ordered by the stamps.
* Every route takes connections from one pool; the **charge** takes two at once.

### What is hard

* *Interleaving:* calls of a pass overlap; sync, health pass and queries read a row,
  wait for an endpoint, and write the row by key, whatever it has become.
* *Failure and restart:* the entries of a transaction and the cursor are written in
  separate statements; any request can fail; one source can fail in the middle of a
  page; the process can stop anywhere.
* *Ordering:* the chain's order must survive replays; the feed's order is the order of
  stamps, not of commits, and many rows share one millisecond.
* *Limits:* page boundaries, a page of one row, 20 failed checks, a pool of connections
  that all wait for one more.
* *Eventually:* passes must be made again, a source must catch up, a status must become
  what the endpoint says, a call must be answered.

The hazards, each at its line and with the properties that cover it, are in
`PROJECT.json`.

## 2. The modules

| module | is | refines or uses |
| --- | --- | --- |
| `RegistryChain` | the redeemers of one policy, and what a registry that followed them should hold | |
| `RegistryLedger` | abstract specification of following the chain | `RegistryChain` |
| `ChainSync` | the pass, in full, and the administration of sources | implements `RegistryLedger` |
| `MintDelta` | how inputs and outputs of a transaction become mints and burns | |
| `InboxRules` | what a mint, a burn and an answer make of one inbox registration | |
| `InboxLedger` | abstract specification: each of them applied at once | `InboxRules` |
| `InboxVerification` | sync and health pass on inbox registrations, interleaved | implements `InboxLedger` when they do not overlap |
| `RegistryHealth` | sync, health pass and queries on web3 entries, interleaved | |
| `HealthSchedule` | the queues of entries a health pass takes from | |
| `InboxHistory` | `InboxVerification` with the history of what the endpoints have named | extends `InboxVerification` |
| `InboxSlug` | the spelling of slugs: what may be stored, what finds it | |
| `DiffFeed` | table, trigger, open transactions and a reader | |
| `ListWalk` | a query over several pages, and a client that walks through a list | |
| `ApiAccess` | keys, limits, charges and the pool | |
| `MC*` | model values, symmetry and answers for TLC | |
| `*Proofs` | theorems about the module they are named after; of `ChainSync` there are two: `ChainSyncFaultProofs` with every fault, `ChainSyncProofs` without the two that lose transactions. `RegistryHealthProofs` is also about `HealthSchedule`, and `ReadersProofs` about `DiffFeed` and `ListWalk` | |

Definitions marked `Mutant:` in the modules are not part of the specifications. Each is
a plausible error in the code (a dropped guard, a missing reset, a wrong order); put in
the place of the definition that follows it, it violates a property of a run
(`PROJECT.json`, "mutants"). They show that the properties can fail.

Four modules are instances of two specifications each: `MCChainReading`, `MCInboxQuiet`,
`MCRegistryHealth` and `MCReaders`. A variable `subject`, set by `Init` and never changed,
says which of the two a behaviour is of; the variables of the other stand still, and
fairness of an action counts in its own behaviours only. The state space is the sum of
the two, not their product, and nothing is claimed about them together: it puts two
questions about one part of the program in one run. `InboxHistory` is checked as it is.

### ChainSync

| model | code |
| --- | --- |
| `chain[s]` | the list Blockfrost returns for `/scripts/{policyId}/redeemers?order=asc`; a transaction may have several redeemers, of which at most one is a mint of the policy |
| `cursor[s]` | `RegistrySourceConfig.lastCheckedPage`, `lastTxId` |
| `registry[s][a]` | whether there is a row for the asset, and whether it is deregistered |
| `locked` | `updateMutex` |
| `caller[c]` | a call: before the mutex, in the second read of the sources (658), in the pass |
| `worker[s]` | one iteration of the `Promise.all` over the sources: the page, the transaction it started from (`latestIdentifier`), the place on the page and the assets still to write |
| `Call`, `Refused`, `Acquire` | 643-656 |
| `ReadSources`, `RereadFails` | the read that follows, outside the `try` |
| `FetchPage` | `getScriptsRedeemers`, the empty page that ends the loop, and the cut after the known transaction |
| `SkipSpend`, `ReadTx` | the redeemers that are no mint; `txsUtxos` and the sums of inputs and outputs |
| `SyncMint`, `LookupFails`, `SyncBurn` | one asset: upsert, a look-up that is logged and skipped, `updateMany` |
| `SaveCursor`, `NextPage`, `Fail`, `Finish` | the update of the source, the next page, the handler of a source, the `finally` |
| `source[s]`, `AddSource`, `RemoveSource` | the rows of `RegistrySource`: an administrator adds one, with page 1 and no transaction, or deletes one, with all its entries (`onDelete: Cascade`) |
| `worker[s].held`, `SourceGone` | the row the pass read is identified by an id that is not used again; an entry cannot be connected to a row that is gone, nor a cursor saved in it, so the pass over this source fails at the next such statement |
| `NoSources` | the early return after the second read |
| `Crash` | the process stops and starts again: mutex and passes are gone, rows are not |
| `Grow` | the chain (environment) |

Transactions are numbered in chain order where the code holds hashes, which it only
compares for equality: `FetchPage` cuts after the first redeemer *equal* to the one the
pass started from, or not at all. How a transaction's inputs and outputs give what was
minted and burned is `MintDelta`; `ChainSync` takes it as the `minted` and `burned` of a
redeemer.

The promise is `RegistryLedger`: every registry is the chain's state after some
transaction, but for entries of the very next mint or burn which may already be written,
and that transaction advances only when all its entries are in. The refinement mapping
takes the transaction of the cursor for the ledger's. Removing a source is a step of the
ledger too: it forgets everything about the source, and nothing more is written until the
source is added again.

### MintDelta

One transaction after the other, an input or output at a time (sync 726-786). `delta` is
`mintedOrBurnedAssetsOfPolicy`. `AfterInput` *sets* the number of what the input carries,
`AfterOutput` adds, as in the code, so an asset that two inputs carry keeps only the last
one's quantity; `consumed`, `produced` and `carriers` record what the transaction really
does, and the properties compare. The verdict is the sign of the number.

The API lists more than what is spent and made: reference inputs and collateral among the
inputs, the collateral return among the outputs. It marks them, and the code does not look.
So in the model an input or output that is read may be one of these: it moves `delta` and
counts among the `carriers`, as in the code, but not in `consumed` or `produced`. `unspent`
and `unmade` remember whose amounts these were, and the properties say what they are
excepted from: an asset in an unspent input can be taken for burned, or its mint be missed;
one in an output that is not made can be taken for minted. An asset that is both spent and
referenced is in `unspent` too.

### InboxRules, InboxVerification

A registration's metadata (name, description, slug, provider URL) is one value, its
content; the endpoint follows from it. `keys` is the verification data; the model
remembers *whose* they are, the content they were published for, where the code holds the
data itself. `Upserted`, `VerifiesAtOnce` and `NextStatus` are what a mint makes of a row
(inbox 181-228, sync 524-592), decided on the row that was read and written over the row
that is there; `Verdict` and `Verified` are the same for an endpoint's answer
(health 535-690); `Deregistered` for a burn.

`InboxVerification` interleaves: the sync reads (`ReadExisting`), upserts, and verifies
at once; it is one activity, as `updateMutex` admits one pass, and it works on one asset
of a source after the other. The health pass notes the time (`HealthBegin`), checks web3
entries first, then loads the rows last updated before that time (`touched` stands for
the comparison), asks (`Lookup`, one request per endpoint), and writes each row by id
(`Write`). `Overlap` says whether the two may be active together. In the code they may:
there are two timers and two mutexes. What is checked and proved with `Overlap` off is
what each of the two does by itself, through failures and crashes; a row that changes
between its read and its write is the business of the modules with `Overlap` on.

`InboxHistory` adds `published`, the pairs of a content and an asset that the content's
endpoint has ever named. With it one can say what a verification is worth that was written
over a row that had changed: `OnlyPublishedVerified`.

### RegistryHealth

Sync, health pass and any number of queries on the rows of web3 agents. The sync asks
before it writes the row; the health pass loads entries that are online or offline, and
invalid ones that have at most `CheckLimit` checks (20 in the code); a query loads a page
of rows of any status. Both counters are counted up to `CountTo`, a bound of the model that
is above `CheckLimit`. `Verdict` compares the identifier an
agent returns with the asset.

It lets every entry be due in every pass; `HealthSchedule` says which are.

Two paths of health 293-457 are never taken: the look-up of an entry whose URL got no
answer (371-386), and `failedIds` (399-413). Every URL of the batch is asked and
`checkAndVerifyEndpoint` turns every failure into a status. The model leaves them out.

### HealthSchedule

The entries of one source as two queues, `live` and `invalid`: online and offline ones by
their last check, invalid ones by their last update. The times are modelled by the order
they give (`earlier`), and what a read with `orderBy` and `take` returns is the entries with
fewer than that many ahead of them. `PassBegins` notes the time that becomes
`onlyEntriesAfter` (sync 158-160). `LoadLive` and `LoadInvalid` are the two reads of sync
193-248, the filters that follow and the slice of ten; both leave out what was checked after
that time (`lastUptimeCheck <= onlyEntriesAfter`), which is `fresh`: the entries that a query
or a mint has checked since the pass began. A wait is judged by the time the pass noted, so
the waits that were over then are kept in `pass.renew` until the invalid ones are loaded.
`Renew` is the update of `updatedAt` (273-282), which the code gives those whose wait is
*over*; `Check` the update of one
entry by the health check, whose outcome is arbitrary (`CheckWritten`). `waited` is the
entries whose waiting time is over: ten minutes for each failed check, two days at most,
abstracted to a wait that ends at some time. `NotGivenUp` is `uptimeCheckCount <= 20`.
`CheckedElsewhere` and `Deregistered` are queries, mints and burns, which move entries
between and within the queues meanwhile.

The list of inbox registrations (296-322) is one more queue of 50, by the last update,
which every check renews: the first queue without a status that leaves it.

### InboxSlug

`normalizeInboxSlug` as one operator per replacement, over an alphabet of characters of
which each stands for all that the replacements treat alike. `Accepted` is what
`normalizeAgentSlug` (inbox 92-121) does not throw on, `AgentSlugFilter` and `Finds` the
filter of a query. A behaviour is a client typing a text, a character at a time, at each
slug that can be stored.

### DiffFeed

Both feeds at once: a page is the rows from the cursor's time on, those of that very
time from the cursor's id on, in order of (time, id), `Limit` of them. `Begin` fixes the
time of a transaction (`NOW()` is when it began), `Commit` applies the trigger. The inbox
check sends a time of its own (health 672); `Restamps` switches this. `late` records
rows whose last change appeared behind the reader, by a late commit or with an earlier time
of its own. Such a change is never read, which no property can deny of this code:
`PassedIsCopied` leaves these rows out, and says that nothing else is missed. A tick is a
millisecond.

### ListWalk

A client of one of the four lists (entries and registrations, and the searches in both),
which are newest first. `Ask` sends a request with the last row of the answer before as
`cursorId`; `ReadPage` is one turn of the loop of the registry-entry service (49-86):
load twice the limit, check, keep the rows whose update did not fail, go on from the last
row *loaded* while too little was found. For registrations it is the one read of the
repository. A page begins with its cursor's row, so rows can be found twice in one request
(`request.twice`), and an answer can have a row twice. `Answer` is the cut to the limit,
`Respond` the client's step: it goes on from the last row it was given unless the answer
was short. `RequestFails` is an error on either side.

`SourceDeleted` takes away the rows of a source (`onDelete: Cascade`). A page that should
begin at a row that is `gone` is empty (`PageFrom`): Prisma compares the rows with those of
the cursor's, which it looks up by a subquery. So an answer can be short although rows are
left, and a walk stop there.

`steady` is the rows that were selected ever since the walk began and were left out by no
failed update; each read finds these and any others. So filters, searches, burns, mints
and changes of status are all one arbitrary selection.

### ApiAccess

`Call` is authentication with the first check of the limit; `Begin` the transaction with
its second check; `Charge` the update, which uses the pool and not the transaction
(credit 12); `Expire` the end Prisma puts to a transaction after its timeout; the update
may still go through after it. The first key is the one the seed writes. All routes pass
a cost of zero today; the charge takes any cost, and the model gives it zero and one. A
limit of null counts as zero, as in the code.

## 3. The runs

Run one with `tlc -workers 2 -config <name>.cfg <module>`.

| run | instance | asks | result |
| --- | --- | --- | --- |
| `ChainSync` (`MCChainReading`) | 1 source that is added and removed at any time, 2 calls, 3 assets (one with metadata that does not parse), pages of 2, 4 redeemers, requests fail, process crashes. And transactions of up to 2 inputs and 2 outputs, 2 assets, quantities 1 and 2 | do registry and cursor stay in step at every moment; does anything of a removed source survive; is the ledger implemented. Which assets are taken for minted or burned, with inputs that are listed and not spent | holds |
| `ChainSyncFaults` | as before with 2 assets, also failing look-ups and re-reads, and a chain that grows during a pass | what remains when transactions can be skipped | at most one pass, no uncaused entry, no cursor moved back |
| `ChainSyncLive` | 2 sources that come and go, 2 calls, 1 asset, pages of 1 | does a source that stays and stops failing catch up and stay so, whatever the other does | holds |
| `ChainSyncReread` | the re-read of the sources may fail | are passes made for ever | **no** (finding 1) |
| `ChainSyncGap` | a chain that grows during a pass, no fault at all | is any redeemer lost | **yes** (finding 2) |
| `InboxQuiet` (`MCInboxQuiet`) | 2 registrations, 2 contents, failing writes, crashes; sync and health pass not together. And every slug of up to 3 characters against every text of up to 4, one reserved name | does each of the two keep keys and status in step, through failures and crashes, and is the ledger implemented. Which texts find which slug | holds |
| `InboxOverlap` (`InboxHistory`) | 1 registration, 2 contents, every interleaving, failing writes, crashes | no keys of burned agents, ever; is all that is verified published; who may bring a burned one back; does the status end up right | holds |
| `InboxRevived` | the same without faults | does only a mint revive | **no** (finding 3) |
| `Health` (`MCRegistryHealth`) | 1 entry, 2 URLs, a wrong identifier, 1 query, `CheckLimit` 1, counters up to 2. And 3 entries in the queues of a pass that loads 2 and checks 1 invalid one, given up after more than 1 check | do counters add up; who revives a burned entry; does the status end up right. Is every entry checked again and again, in its turn, and none that is given up | holds |
| `Readers` (`MCReaders`) | 3 rows, 3 statuses of which the reader asks for 2, pages of 2, 1 open transaction, 2 ticks. And a list of 7 rows, of which 2 may be deleted with their source, in answers of 2 | does the reader of the feed see everything that does not appear behind it. Is a client that walks through a list given every row that stays, or where does it stop short, and does it arrive | holds |
| `DiffFeedLimitOne` | pages of 1 | the same | **no** (finding 4) |
| `ApiAccess` | 2 keys, 2 calls, 2 connections | limits under overlap; does every call end | holds |

### Properties

* `RegistryFollowsCursor`: each entry is as the chain has it at the cursor, or as the
  very next mint or burn leaves it. Violated by any lost, repeated or reordered write
  that a crash can expose.
* `DoneMeansCaughtUp`: a loop that ended on an empty page has its whole chain.
* `SyncInv`: the inductive invariant (section 5).
* `SinglePass`, `LockHeldByPass`: one pass at a time; a taken mutex is held by someone who
  will release it.
* `CursorNeverMovesBack`, `FollowsLedger`: action property and refinement.
* `RemovedLeavesNothing`: a source that was removed has no entry and no cursor left, not even
  while a pass that read it still works, and its policy added again starts from nothing.
* `ErrsTowardsMints`, `SingletonsAreExact`: the sums of a transaction err on one side only,
  and not at all for assets that one input at most carries, as those of which one exists.
  The first excepts what an input carries that is not spent; the second also what an output
  carries that is not made. For those assets both are false of the code (section 4).
* `EntriesHaveCause`: even with lost transactions, an entry is in a state the chain once
  gave it.
* `Converges` (three modules): a source catches up; a registration or entry ends up with
  the verdict on its endpoint's lasting answer, whatever stale write happened before.
* `KeysFollowStatus`, `DeregisteredHasNoKeys`: verification data is there exactly when
  verified, while sync and health pass do not overlap; never on a burned agent, and that
  under every interleaving.
* `OnlyPublishedVerified`: under every interleaving, verification data was published for that
  asset by the endpoint of the content it is attributed to, and no registration is listed as
  verified that no endpoint ever named. The health pass writes back the status it *loaded*
  when an endpoint is silent, and the sync decides on the row it *read*; this is what
  remains true when the row has changed since.
* `OnlyMintRevives` (finding 3), `RevivedByMintOrPass`, `RevivedByLoadOnly`: what may bring a
  burned agent back when everything overlaps.
* `UptimeAddsUp`: successes are among the checks, an online entry has one, each row has a
  check, and one that is offline or invalid has failed one: the waiting time grows with the
  difference.
* `QueuesMoveUp`: in its queue an entry is overtaken by nobody but for its own check or its
  renewal by the pass; and a pass that does not load it loads as many of those ahead as it
  ever loads, or finds a full page of them, unless the entry was checked since the pass
  noted its time. It is the safe half of the next but one.
* `GivenUpIsLeft`: what is given up is checked by no later pass, only by a query or a mint.
* `LiveStaysWatched`, `InvalidIsRetried`: an entry that stays online or offline, and one that
  stays invalid and is not given up, is checked again and again, whatever the others in
  its queue do. The second would fail if entries were not given up: those that must wait
  keep the first places of the page.
* `FoundByItsWords`, `SlugsAreCanonical`, `ReservedNamesAreFree`: a text finds exactly the
  slug with the same words in it, whatever its accents, capitals and separators; what the
  normalisation returns may be stored; no agent is found by a reserved name.
* `PassedIsCopied`, `FullPagesMoveOn`, `EveryStatusArrives`: the feed. What the reader passed it
  has seen; a full page has a last row and takes the reader on, however many rows share a
  stamp; and every status that lasts arrives.
* `WalkIsComplete`, `AnswersMoveOn`, `WalkEnds`: the lists. A client that has arrived was
  given every row that stayed, but for those behind a row that was deleted when a page should
  begin at it; each full answer takes it on, each page after which a request reads another
  takes the request on, and it arrives.
* `WithinGranted`, `UsedIsBacked`, `EveryCallEnds`: the credits and the calls.

The type invariants of the modules are `TypeOK`, `WalkTypeOK`, `ScheduleTypeOK` and
`DeltaTypeOK`. All are proved (section 5; the last as a part of `DeltaInv`), and the runs check
`TypeOK` of `ChainSync`, `DiffFeed` and `ApiAccess` besides.

### Bounds, and why they are enough

* *`MaxChain` 4, `PageSize` 2*: two full pages; a transaction with two redeemers lies
  across the page boundary, before, on or after it; the known transaction is first, last
  or absent on its page; a mint can be followed by a burn and a new mint of the asset. A
  third page adds no case, as the loop treats each page from its number alone.
  `ChainSyncLive` needs temporal checking and takes pages of one.
* *Two calls*: the mutex distinguishes only who holds it and who does not.
* *Three assets* in `ChainSync`: two that one transaction can move in both directions,
  and one whose metadata does not parse.
* *Two registrations and two contents*: an endpoint can resolve to one, the other, both
  or neither; content can change and change back.
* *`CheckLimit` 1, `GiveUpAfter` 1* stand for 20: the one comparison is reached after two
  checks.
* *`CountTo` 2*: both counters can be 0, 1 and 2, so a second success can be counted with and
  without its check.
* *3 entries, `PageLength` 2, `BatchLength` 1*: one entry does not fit the page, and of two
  that are due one is not checked.
* *2 inputs, 2 outputs, quantities 1 and 2*: an asset can be in both inputs, and be
  produced less, as much or more.
* *Slugs of 3, texts of 4, 8 kinds of characters*: every pair of neighbours, at both ends and
  inside, and one more character than fits a slug.
* *7 rows, answers of 2*: a request of the entries list reads pages of 4, so two pages fill
  it and one row is in both; the walk takes several requests. `SourceRows` is one source with
  two rows in the middle, so a cursor's row can go away between two requests and between two
  pages of one. A limit of 1, which the
  schema admits, is excluded by an assumption: the walk would stay where it is, as in
  finding 4.
* *`MaxClock` 2, 3 rows, `Limit` 2*: all rows can change in one tick, so a page ends in
  the middle of a tick; a transaction can be begun in the first tick and commit in the
  second. `Rows` is also the number of ids.
* *`MaxCredits`, `MaxSpent` 1, costs 0 and 1*: the limit is reached by one call and passed
  by two. `MaxSpent` stops calls of a key that has spent more.
* *Two connections, two requests*: all connections can be held by calls that wait.

Symmetry is used in safety runs only: over the calls in `ChainSync` (they differ in
fairness only), over assets and contents in `InboxQuiet`.

Deadlock is checked in every run but `ApiAccess`: when the key of the last
administrator is deleted no call is possible any more, which is what the program does.

### Fairness

* *What is awaited is answered or fails* (`PassStep`, `SourceStep`, `VerifyStep`, ...,
  weakly fair). Endpoint requests have timeouts; the Blockfrost requests have those of the
  runtime. A pass waits for all its sources, so a slow one delays the others; the hazard
  is listed, and the liveness of the sync assumes that the wait ends.
* *The scheduler calls again* (`Call(Scheduler)`, `HealthBegin`, weakly fair):
  `AsyncInterval` starts the next call when the last has ended, also when it threw.
  Nothing is assumed about queries.
* *Every web3 entry is due in some pass* (`HealthLoad`, strongly fair per entry): this is what
  `LiveStaysWatched` and `InvalidIsRetried` show of the queues, from no more than that
  passes go on and that waits end (`PassMoves`, `WaitEnds`, weakly fair).
* *A call goes on* (`CallStep`): pool and transactions have timeouts. Administrators and
  failures have no fairness.
* *The readers go on asking* (`Fetch`, `WalkMoves`).
* Crashes, failures, mints, burns and changes of endpoints are never assumed to happen.
  The liveness properties ask that crashes, and failures of the source or row in
  question, end; not that others do. They subtract look-alikes from these
  (`Crashes`, `Disturbed`, `PassDisturbed`): a step that ends a pass can have the same effect as a crash.

## 4. Where the code disagrees with what is said of it

1. **A failed read leaves the mutex taken** (`ChainSyncReread`, `KeepsUpdating`).
   The sources are read again between `tryAcquire` (sync 651) and the `try` (664). If
   this read throws, nothing releases the mutex; every later call is refused until the
   process restarts. `docs/configuration.md:19` says "The registry is updated every 2
   minutes". The health pass has the same gap (178).
2. **Redeemers are lost when a page fills up** (`ChainSyncGap`, `RegistryFollowsCursor`).
   The loop goes to the next page whether or not the last one was full. Redeemers
   that arrive on the old page between its fetch and the fetch of the next are not read,
   and the next transaction found moves the cursor past them. The comment at sync 644 says
   "no data loss".
3. **A health check undoes a burn** (`InboxRevived`, `OnlyMintRevives`). The update of
   health 650 is by id, with a status decided from the row before its requests. A burn in
   between is overwritten and not replayed, as the cursor has passed it. The comment at
   sync 162 says "worst case we have a few duplicate checks".
   `DeregisteredHasNoKeys` and `RevivedByMintOrPass` show what still holds: while a
   registration counts as deregistered it carries no keys, and nothing else than a pass
   that loaded it before the burn undoes one.
4. **A feed read one row at a time stands still** (`DiffFeedLimitOne`,
   `EveryStatusArrives`). The page begins with the last row of the page before; the schema
   admits a limit of 1 (`src/routes/api/registry-entry/schemas.ts:54` promises that all
   items are included).

Smaller observations, not run:

* The comment at sync 656 says that a second call waits; it is refused, and its query
  answers from a registry that is still being written.
* A mint that lists another agent's token in an input it does not spend (a reference input,
  or collateral) deregisters that agent: the input counts -1 and no output gives it back
  (sync 728-741). A token that only the collateral return carries is taken for minted.
  `ErrsTowardsMints` and `SingletonsAreExact` except these assets. No document or test says
  what should happen.
* Under overlap a registration can be listed as verified with the data of a content it no
  longer has, until it is next checked. `OnlyPublishedVerified` says what holds meanwhile.
* A query checks a page and writes it while the health pass checks the same rows; both
  count, so `uptimeCheckCount` may grow twice for one availability (`UptimeAddsUp` holds).
* A walk whose next page should begin at a row that was deleted with its source is given an
  empty page and stops, though other sources' rows are left (`WalkIsComplete` excepts
  them). The same holds of a request that reads several pages.
* A metadata look-up that fails is logged and its mint skipped for good (sync 765), under
  the same "no data loss" comment; `ChainSyncFaults` leaves `RegistryFollowsCursor` out
  for this reason.
* A query with a date that asks for deregistered entries revives them
  (`RevivedByLoadOnly` has the case), and one that asks for online entries returns those
  that its own check has just found offline.
* A change that commits after the reader passed its stamp is never read
  (`late` in `DiffFeed`).
* Overlapping charges are lost, and a charge may go through although its call failed;
  `UsedIsBacked` and `WithinGranted` show what still holds. With a pool of one connection
  every charged call fails.
* A query over several pages can answer a row twice, as each page begins with the last row of
  the one before; with a limit of 1 a walk through a list stays at its second request.
* The renewal of `updatedAt` (sync 265-282) is for "excluded" entries by its names, and goes
  to those that are due. `InvalidIsRetried` shows that none is forgotten for that.
* A PATCH of an API key that leaves out its status activates it.

## 5. What is proved

TLAPS checks these for every value of the constants that satisfies the named
assumptions of the modules. Run `tlapm <module>.tla`.

| theorem | states | assumes beyond the modules |
| --- | --- | --- |
| `ChainSyncFaultProofs!TypeCorrect`, `MutualExclusion` | `TypeOK`, `SinglePass` | nothing: every fault, a leaked mutex included |
| `ChainSyncFaultProofs!RemovedIsGone`, `CursorAdvances`, `EntriesAreCaused` | `RemovedLeavesNothing`, `CursorNeverMovesBack`, `EntriesHaveCause` | nothing: every fault, and a chain that grows during a pass |
| `ChainSyncFaultProofs!LockNotLeaked` | `LockHeldByPass` | the second read of the sources does not fail |
| `ChainSyncProofs!FollowsCursor`, `DoneIsCaughtUp`, `PlacesAgree` | `RegistryFollowsCursor`, `DoneMeansCaughtUp`, `SyncInv` | look-ups do not fail; the chain does not grow during a pass |
| `ChainSyncProofs!ImplementsLedger` | `FollowsLedger` | the same |
| `MintDeltaProofs!MintsAreNotMissed`, `VerdictIsRight` | `ErrsTowardsMints`, `SingletonsAreExact` | nothing: any number of inputs and outputs, listed and not spent or made among them |
| `InboxVerificationProofs!TypeCorrect`, `BurnedHasNoKeys`, `RevivedOnlyByLoaded` | `TypeOK`, `DeregisteredHasNoKeys`, `RevivedByMintOrPass` | nothing: every interleaving, every fault |
| `InboxVerificationProofs!VerifiedWasPublished` | `OnlyPublishedVerified` | nothing: every interleaving, every fault |
| `InboxVerificationProofs!KeysMatchStatus`, `ImplementsInboxLedger` | `KeysFollowStatus`, `FollowsInboxLedger` | `~Overlap` |
| `InboxSlugProofs!FoundByWords`, `SlugsCanBeStored`, `ReservedFindNothing` | `FoundByItsWords`, `SlugsAreCanonical`, `ReservedNamesAreFree` | nothing: texts of any length |
| `InboxSlugProofs!SlugIsByWords`, `SlugOfCanonical` | two texts have the same slug exactly if they have the same words; a slug is its own slug | |
| `RegistryHealthProofs!TypeCorrect`, `UptimeIsConsistent`, `RevivedOnlyByLoad` | `TypeOK`, `UptimeAddsUp`, `RevivedByLoadOnly` | |
| `RegistryHealthProofs!ScheduleTypeCorrect`, `PlacesImprove`, `GivenUpIsNotRetried` | `ScheduleTypeOK`, `QueuesMoveUp`, `GivenUpIsLeft` | finitely many entries (`EntriesAssumption`) |
| `ReadersProofs!TypeCorrect`, `PassedRowsAreCopied`, `FeedMovesOn` | `TypeOK`, `PassedIsCopied`, `FullPagesMoveOn` of `DiffFeed` | the last: a limit above one, in its statement |
| `ReadersProofs!WalkTypeCorrect`, `WalksAreComplete`, `EveryAnswerMovesOn` | `WalkTypeOK`, `WalkIsComplete`, `AnswersMoveOn` | limit above one (`AnswerLimitAssumption`) |
| `ApiAccessProofs!TypeCorrect`, `CreditsWithinGranted`, `CreditsAreBacked` | `TypeOK`, `WithinGranted`, `UsedIsBacked` | |

The assumptions on the sync are exactly what findings 1 and 2 and the skipped look-up
say: without them `LockHeldByPass` and `RegistryFollowsCursor` are false. `~Overlap` likewise (finding 3).

### The arguments

*Sync, under every fault.* `FaultInv` is `TypeOK` with the bounds of pages and places, what
holds of a row that is gone (`RowOK`: a pass that does not hold its row finds nothing but
a fresh one), and `Place`: the chain is well formed, the cursor's transaction is on the
cursor's page, and what a pass that holds its row has yet to do is at most the cursor's
own transaction again (`CursorOK`, `PlaceOK`). So a cursor that is saved is never an
earlier one, whatever pages or look-ups were lost. An entry is in a state the chain once
gave it because each write gives it the state after its own transaction, which is a lemma
about `OnChain`. `LockInv` says that whoever is in the pass holds the mutex, and no one
else is.

*Sync, without lost transactions.* `RegistryFollowsCursor` is not inductive: it says
nothing of where the worker is. `SyncInv`, checked by TLC first, adds that every mint or
burn after the cursor is at or behind the place the worker has reached (`NothingBehind`),
and that the assets of the current transaction that are no longer to do are as the chain
has them (`WorkerOK`). A failure, a crash or the start of a pass from the persisted
cursor re-establish it, because applying the cursor's own transaction again changes
nothing: that is a lemma about `OnChain`, which knows nothing of the sync. Removing a
source makes all of it true at once, since `SyncInv` asks nothing of a pass that does not
hold its row. The growth of the chain is harmless while no pass runs, for which the proof
needs `LockInv`. The refinement follows step by step: an entry's write is the ledger's
`Write` at the cursor's or the next transaction, the save of the cursor its `Commit` or a
stutter.

*Mints and burns.* `DeltaInv` adds that the number of an asset in no unspent input is at
least what was produced less what was consumed, and equal to it when one input at most
carries the asset and no output that is not made does.

*Inbox.* For every interleaving, a deregistered row carries no keys because no write but a
burn's gives that status: not a mint, and not a verdict, since no loaded row has it. That
is `BurnInv`: `TypeOK`, `LoadedAreChecked` and the property. `MintedIsListed` adds that the
row the sync verifies is listed as long as it does, as its own burns wait for it; so the
verdict that brings a burned row back is one of the health pass. When sync and health pass do
not overlap, `QuietInv` adds that one of the two is idle (`Apart`), that the sync's mint
and its verification follow one another (`MintThenCheck`), that who is not verifying
holds no rows (`OnlyCheckingHasBatch`), and that every row that is held is the row of
the database (`LoadedIsPresent`): then each decision is taken on the row it is written
over, which is what the ledger does in one step.

*What is verified was published.* `PublishedInv` follows the names through every place they
are kept in: what the endpoints name now, what the two activities have been told and not
yet written, and the rows, stored or only read, is all in `published`, which only grows. A
row that was read as verified is founded on a pair that is there for good, so writing its
status over whatever the row has become keeps the property.

*Web3.* `HealthInv` adds to `TypeOK` and `UptimeAddsUp` that whatever the health pass has
in its batch it loaded alive (`LoadedAlive`). The counters are about the one operator that
changes them: each verdict counts one check and at most one success, also when it is written
over a row that another activity has counted meanwhile (`CountsOn`, `RecordedEntry`).

*Queues of the health pass.* `ScheduleTypeOK` is inductive by itself: a write takes one entry
out of the order and puts it behind the others of one queue, which keeps both queues
totally ordered (`EndOrders`) and puts nobody ahead of any other entry (`KeepPlaces`). A page
is taken among those that are not `fresh`, whose order is that of the queue. That
a page is full when an entry is left out rests on `FirstAreAsMany`: the numbers of entries
ahead are a bijection from a queue to the numbers below its length. What is left out is then
behind all that is loaded (`FirstAreAhead`).

*Slugs.* A text has any length, so what the normalisation makes of it is a matter of
induction. The replacements are recursive functions over the prefixes of a text, and the
induction is stated for sets: a set of naturals that has 0 and every successor is all of
them, and a set of texts with the empty one and every one-character extension is all texts
(`IntervalInduction`, `SequenceInduction`, from the well-foundedness of the naturals). Each
replacement keeps the words of a text (`StripKeepsWords` and its like), so a slug has the
words of its text; the last two make it canonical, letters with single hyphens between them
(`SlugIsCanonical`); and canonical texts with the same words are equal (`CanonicalByWords`).
The rest follows: a stored slug is canonical, as it is its own slug, and so are the slug of
a query and those of the reserved names.

*Feed.* `TypeOK` and `PassedIsCopied` are inductive together; the proof is about the order
of (time, id), and that a page which ends at a row has every row before it. At most one row
of a page, the cursor's own, is not beyond the cursor, so a full page of two or more ends
beyond it (`FeedMovesOn`).

*Lists.* `WalkInv` adds that the client was given every steady row above its cursor
(`PassedIsGiven`), that a request has found every steady row between the client's cursor
and its own (`ReadIsFound`), and that findings too few for an answer are all there is
(`ShortIsAll`), or all above the deleted row at which the request stopped. The row a request
begins with is the one row it cannot find twice, so a page or an answer of two rows or more
has one below it: that is why each moves on, and why the limit must be above one.

*Credits.* `AccessInv` adds that a key's present limit is within what it was given
(`LimitGranted`), and that what an open transaction has read is backed by usage and, with
its cost, within what the key was given (`ReadBounded`): the second is what the
overlapping charges need, since each writes the sum of what *it* read.

### What is model-checked only

Every liveness property (`Converges` three times, `LiveStaysWatched`, `InvalidIsRetried`,
`EveryStatusArrives`, `WalkEnds`, `EveryCallEnds`): they need reasoning about `ENABLED`,
which TLAPS does not support. Four of them have a safe half that is proved: `QueuesMoveUp`
for `LiveStaysWatched` and `InvalidIsRetried`, `FullPagesMoveOn` for `EveryStatusArrives`,
`AnswersMoveOn` for `WalkEnds`.

## 6. What is not modelled

* *The waiting time* of an invalid entry: its formula is abstracted to a wait that ends.
* *Filters and search texts of queries*: an arbitrary selection, but for the slug.
* *Rollbacks of the chain*. A hash that is on no page any more has its page read again
  from the start; what the registry should hold then is not said anywhere.
* *Changing a source* (its note and its Blockfrost key) and listing sources.
* *Prices, capabilities, example outputs, tags*: columns nothing decides on. Two sources
  that create one capability at once fail one pass, as any failure does. A mint that is
  applied again adds the example outputs of its entry again (sync 458).
* *Normalisation of names, descriptions and provider URLs, joined metadata strings*: a text
  is trimmed, joined or refused, and no later decision depends on how.
* *Validation of public URLs*: its refusal is one way for an endpoint not to answer; which
  addresses it refuses is left to its unit tests.
* *HTTP headers, CORS*: pure functions of configuration and request.
* *Payment information, capability query, OpenAPI, logging, health route*: reads, without
  state of their own.

## 7. Plan

The order was: the sync first, as everything else is about rows it writes; then the
verification, whose writers share no lock; then what readers see; then access; then the
queues of the health pass, the lists, the sums of a transaction and the slugs. What could
come next:

1. `RegistryService`: sync, health pass and feed on the same rows, so that a burn is seen
   by a reader of the feed whatever health checks overlap. The parts are `RegistryHealth`
   and `DiffFeed`; their product is large, and needs a coarser sync.
2. Rollbacks: a chain that drops its last transactions, with a ledger that may go back.
3. The creation of capabilities by two sources at once, as a failure of just one of them.
