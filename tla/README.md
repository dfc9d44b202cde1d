# A TLA+ verification of week3-redis

week3-redis is a small Redis-like store (FastAPI, one process, state in memory)
with a snapshot and an append-only file (AOF), and a product shop that uses the
store as its cache. This directory holds TLA+ models of it, the TLC runs that
check them and the proofs TLAPS checks. Line numbers are those of the
repository at the commit the models were written from; `PROJECT.json` maps
every definition to its lines.

How to run: `tlc -config MCStoreEngine.cfg MCStoreEngine.tla` (likewise the
other `.cfg` files; `MCRewriteRace`, `MCTornTail` and `MCTwoSaves` use
`MCPersistence.tla`, `MCStorefrontSerial`, `MCOversell` and `MCStaleCache` use
`MCStorefront.tla`, `Durability` and `PersistenceDemo` the module of that name),
and `tlapm M.tla` for each of the seven modules named `*Proofs` and for
`Iteration`.

## 1. The system

| Component | State | Operations | Talks to |
|---|---|---|---|
| Hash table (`app/core/hash_table.py`) | buckets with chains of nodes, size | put, get, delete, items, resize | used by the engine, under its lock |
| Engine (`app/engine/store.py`) | table, version of each namespace, number of the last event | set, get, delete, incr, decr, invalidate_namespace, cleanup_expired, export, import | calls the mutation logger inside its lock |
| AOF (`app/persistence/aof.py`) | one file of JSON lines | append, iter_events (two recovery modes), rewrite, rewrite_after, replay_into | called by the engine and by saves |
| Snapshots (`app/persistence/service.py`, `repository.py`, `serialization.py`) | one file, one temporary file | save_from, load_into | a finished save calls rewrite_after |
| Lifespan (`app/persistence/lifespan.py`, `app/main.py`) | - | startup: load, replay; shutdown: save | all of the above |
| HTTP API (`app/api/*`) | - | the handlers; all but two are plain functions and run on a pool of threads | engine, snapshots, storefront |
| Storefront (`app/storefront/service.py`) | none of its own: products cached in the store | cached and direct read, reserve, purchase, restock, invalidate | store, catalog |
| Catalog (`app/storefront/catalog.py`) | stock of each product, in MongoDB or, as a fallback, in memory | get_product, update_stock, seeding | MongoDB |
| Front end (`frontend/app.js`) | phase of the persistence demo in the browser | write, crash, poll | HTTP API |
| Benchmarks (`scripts/bench.py`) | - | - | HTTP API |

What is hard about it:

- **Lazy removal.** Expired and invalidated records stay in the table until an
  operation trips over them, and their removal is never logged. Memory, log and
  snapshot therefore differ almost always; what clients see must not.
- **Files without locks.** The engine has a lock; a save has none. It exports a
  snapshot, writes it, reads the AOF and writes that anew, while clients append
  and other saves do the same with the same temporary files.
- **Death at any step**, also in the middle of an append, and restarts that
  number events on from what they find.
- **Failing appends and lost power.** The engine changes its memory before it
  logs the change, and what is logged is not yet on the disk.
- **Read, think, write.** Every storefront request makes several calls to store
  and catalog with nothing that spans them.
- **Late answers.** The demo page kills the process that answers it and judges
  what comes back by values alone; answers come in any order, or never.

What makes each component correct: the hash table is a map; the engine is a map
whose entries disappear exactly when they expire or are invalidated; the files
start a process that shows what was seen last; the shop's stock is what it had
plus restocks minus sales; the cache shows true stocks; what the demo page says
of a restart is true. `PROJECT.json` lists
the hazards line by line with the properties that cover them, and says of each
uncovered one why it is.

## 2. Modules

    Records ----- Store ----- StoreEngine ----- StoreEngineProofs
       |            |              : implements       (both use StoreProofs)
       |            |         DurableStore   <- promise of the store
       |            |              : implements
       +- AofFile --+-------- Persistence ----- PersistenceProofs
       |
       +- Storefront (uses DurableStore as its store) -- StorefrontProofs

    Durability ------ DurabilityProofs          files when the power may fail
    PersistenceDemo - PersistenceDemoProofs     page against dying process
    HashTable : implements KeyMap -- HashTableProofs (uses Iteration)

- **Records**: records, which of them are visible (`IsLive`), snapshots, AOF
  events and what replaying one does. A record's key and namespace are its
  index; `updated_at_ms` and `saved_at_ms` are left out, since no decision
  reads them. A value is an integer n (for the text str(n) that counters write)
  or one of `Texts`; `IntOf` says what Python's `int()` makes of each text
  ("07" is 7, "word" raises `ValueError`). Values are unbounded integers, like
  Python's.
  A storage key is the text `len(ns):ns` followed by `len(key):key`
  (store.py:176-178). The length before each part tells where it ends, so two
  pairs never share a key, and the models use the pair.
- **Store**: the engine's operations as *outcomes*: the table and versions an
  operation leaves and the events it logs. `Perform` takes one. A method runs
  under one re-entrant lock from start to end, the logger call included, so an
  outcome is one step.
- **StoreEngine**: the engine, and a history variable `replica`: the snapshot
  one gets by replaying everything logged. `AppendFails` is any logging
  operation whose append raises (store.py:57 and its like): memory has the
  change, the log has not. `unsureKeys` and `unsureNamespaces` remember where,
  and `SettledKeys`, `SettledNamespaces` say which later events make good what
  the log missed.
- **DurableStore**: what clients are promised, without tables, versions, dead
  records, logs or processes: a map that only their operations and the clock
  change.
- **AofFile**: the AOF as chunks, one per write that reached the file: whole
  lines, lines cut short, objects without their newline, and the rest of a
  longer file that was overwritten. `Readable` and `ReadEvents` are
  `iter_events`, which sees lines and not chunks.
- **Persistence**: the same operations, each appending to the AOF, with saves
  broken into their file operations (`OpenTemp`, `WriteTemp`, `Replace`,
  `ReadAof`), the shutdown and its save, crashes between any two steps and
  inside an append, and restarts (`CanStart`, `Base`, `Replayed`, `Imported`,
  `RestoredSeq` are load_into and replay_into). A thread writes to the file it
  *opened*, wherever another save has renamed that (`handle`). While the
  process is down, table and versions keep what it held when it died.
- **Storefront**: the requests of several threads, each call to catalog and
  store a step of its own: `ReadCached`, `Discard`, `Load`, `Lookup`,
  `Remaining`, `Write` are get_cached_product and _write_detail_cache; `Reserve`,
  `Purchase`, `Restock`, `Update` the other handlers. The store is used by its
  promise (`INSTANCE DurableStore`), so a restart leaves the cache alone. The
  catalog is MongoDB or the seed in memory, chosen at each start as
  `build_product_catalog` does: a start seeds the products that have no stock
  yet (`Seeded`), and falls back to the memory when a call of this fails, after
  any of the products (`SeedingsBefore`); `DatabaseError` is an uncaught `PyMongoError`,
  with or without the update done. `balance` and `past` are history variables.
- **Durability**: the same files for the machine instead of the process. Here an
  AOF is only the range of events in it and how many of them the disk has for
  certain, a snapshot only the last event in it: `FsyncDue` is
  `_flush_for_policy`, `RewriteAof` syncs the new file and not its name,
  `SaveSnapshot` syncs nothing, `Restart` forgets `_last_fsync_at`. A loss of
  power is not an action; `Recoveries` is what a start could find if it
  happened now, and the properties are about that set in every state.
- **PersistenceDemo**: `state.persistenceDemo` of the page, its requests, the
  handlers of admin.py with the timer that kills the process, and the process.
  Requests are served and answered in any order; those a dying process has not
  answered fail, answered ones may be lost; a reload forgets everything but the
  value in localStorage, and what the old page asked for is still served.
  `Judged` is what an answer to fetchPersistenceDemoStatus does.
- **HashTable**, **KeyMap**: the chained table, for every hash function, and
  the map it should be. The loops of items() and of a resize are functions of
  the number of rounds done (`Iterated`, `Filled`).
- **StoreProofs**: lemmas about the engine's operations as outcomes, for the
  proofs about both modules that perform them.
- **Iteration**: lemmas about loops that `HashTableProofs` and
  `PersistenceProofs` use.
- **MC\*** modules give the constants of the runs.

## 3. Runs

| Run | States | Question |
|---|---|---|
| `engine` | 180,996 | Does the log always replay to what clients see, but where an append has failed (`ReplicaAgrees`), and do clients see the promised map (`KeepsPromise`)? |
| `persistence` | 1,021,337 | Do the files, in every state, start a process that shows what was seen last (`Recoverable`)? Are events numbered in order (`NumberedInOrder`)? Do crash, save and restart stay invisible (`KeepsPromise`)? |
| `durability` | 355,081 | What can a loss of power take: nothing with `always` (`AlwaysKeeps`), a second's unsynced events with `everysec` (`LossBounded`), never what was safe before (`SafeStaysSafe`)? |
| `persistence_demo` | 274,037 | Does the page report only true recoveries and losses (`RecoveredMeansSurvived`, `NoFalseAlarm`), and does it reach a verdict (`AwaitingResolved`)? |
| `hash_table` | 711 | Is the table a map (`IsKeyMap`), each key in one node in the right chain (`WellPlaced`), counted and not crowded (`SizeAndLoad`)? |
| `storefront` | 469,684 | Does the stock add up with one seller (`StockAddsUp`), and is every cached stock one the origin has had (`NoPhantomStock`)? |
| `storefront_serial` | 4,740 | With one request at a time, do cached and direct reads agree (`CacheAgrees`) and do cached products keep their deadlines (`DeadlineKept`)? |
| `rewrite_race`, `torn_tail`, `two_saves`, `oversell`, `stale_cache` | - | Five disagreements of code and documentation, as counterexamples; see below. |

**Bounds, and why they are enough.**

- *engine*: two namespaces (an invalidation must leave the other alone), two
  keys in each (a write to one settles an invalidation the log missed, which
  the other one shows), two texts of which one is an integer to Python, at most
  three numbered events (`MaxSeq`; an append that fails uses up its number) and
  two clock ticks (`MaxNow`), so that one record can be written, die, be met by
  a read and be written again. Reads and sweeps are not bounded. `SYMMETRY`
  over namespaces and keys, which no definition tells apart. The theorems below
  remove all of these bounds.
- *persistence*: one key, two logged operations, one tick, one snapshot request
  next to the shutdown's save, two real restarts. `Recoverable` is evaluated in
  *every* state, also in those before a restart, and says what a restart
  there would show, so real restarts are needed only for what comes after
  them (numbering, a second save, a file recovered twice, a death in the save
  that follows a recovery). Two events are the fewest that can be on both sides
  of a snapshot; with three of them, or two ticks, or both two ticks and two
  restarts the properties hold as well (up to 2.5 million states).
  `CHECK_DEADLOCK FALSE`: a process that is down and has used up its restarts
  really stops.
- *durability*: a second of two ticks, so that an append can come within it;
  three events, one on each side of a save and one more; two saves; six ticks,
  which is an fsync, a whole window and an append in the next one. When the
  bounds are used up the system stops (`CHECK_DEADLOCK FALSE`).
- *persistence_demo*: two values (the page's and another), two crashes (an
  answer from before the first can meet the second), one reload, two requests
  at once. `CHECK_DEADLOCK FALSE`: a dead process that nobody starts really
  stops.
- *hash_table*: four keys and three hash values that collide under capacities
  2, 4 and 8, two resizes, both values symmetric (`SYMMETRY` over keys and
  values: no definition tells them apart, and the hash function is a variable
  that is permuted with them).
- *storefront*: one product (no step reaches from one to another, and whether a
  failing seeding got to a product is a choice for each), two threads,
  stocks up to two, two ticks, reservations of one and two. Quantities are one;
  a larger one is several at once and adds no interleaving. Other clients store
  two texts, one that is discarded and one that is not, for one tick, for two,
  or for good.

**Assumptions of the passing runs.** `Persistence` has two settings about the
environment. With `WritesDuringRewrite = FALSE` nobody writes between a save's
read of the AOF and its replacement; with `WritesOnTornTail = FALSE` nobody
writes after a recovery from a torn tail until a save has rewritten the file.
The code guarantees neither, and without them `Recoverable` does not hold:

- `rewrite_race`: an event appended between aof.py:152 and the rename at 95 goes
  to the file that is replaced. The client has its answer; no file has the
  write. The comment at aof.py:150-151 says this is what the marker prevents.
- `torn_tail`: in truncate mode the broken tail is skipped and stays; the next
  append is glued to it, and the recovery after that drops an answered write
  or, one write later, fails.
- `two_saves`: a save empties the temporary file another is about to rename.
  A good snapshot is replaced by an empty file, and startup fails.

`Storefront` has the settings `Writers` (threads that sell or restock),
`Interruptions` and `Catalogs`. `storefront` has one writer and everything
else; `storefront_serial` has one thread, no interruptions and the database.
The code guarantees neither:

- `oversell`: two purchases both pass the check of service.py:105 with the last
  piece in stock.
- `stale_cache`: a reservation that read the product before a sale writes it
  over what the sale cached, and an integration test's claim that both reads
  show the same stock does not hold.

What clients store under a product's key (`ClientSet`) has a deadline or none,
like any PUT (kv.py:31-36). It is assumed never to be a product, which nothing
prevents, so that a cached product is one that a request has put there.
`DeadlineKept` speaks of these only. Of a client's text it would be false, even
with one thread: a cached read that has found nothing to keep writes without a
deadline, also over a text with one that has come since. With several threads
it does not hold of products either: the same read makes a reservation
permanent that another thread has cached in between. Nothing in the code
prevents this, and nothing in the repository claims otherwise.

Interrupted requests (a crash or a database error between service.py:108 and
109) and a fallback to the seed break `CacheAgrees` as well; the run without
them is the strongest that holds.

`Durability` assumes a file system that keeps renames in order, makes the
earlier ones permanent with an fsync, has the data of a replacing file on the
disk before its name, and of an appended file keeps a prefix (the recovery
truncates, aof.py:76). Saves come one at a time and nothing is appended between
reading and renaming the AOF; what happens otherwise is `two_saves` and
`rewrite_race`.

`PersistenceDemo` assumes three things about people and timers, each a guard or
the numbering of the values, and none ensured by the code:

- nobody clicks on crash while an answer is outstanding or a look is still to
  come (`PatientCrasher`), nor on write while a crash is answered
  (`PatientWriter`). Otherwise a status answered before a write, say that of
  the page's first look, is judged after the crash and reads as a loss;
- the look comes after the death (`Look`; the code has 450 ms for that).
  Otherwise the process that is still to die answers, and the page reports a
  recovery of a value that was never through a restart;
- each write has a value of its own. The text contains the time in
  milliseconds, so two writes within one could not be told apart.

**Fairness and liveness.** Only `PersistenceDemo` states fairness: weak fairness
of serving and of delivering each request (the event loop and the network
answer or fail every request), of the timer that kills the process, and of the
page's look and its polling interval. Clicks and `Restart` have none:
docker-compose.yml has no restart policy, so that the process comes back
depends on an operator. `AwaitingResolved` therefore says what happens once the
process stays up (`<>[]up`): a page that waits for a recovery learns how it
went. In `Persistence`, likewise, what is checked is that the state *can* come
back, in every state. Requests to the storefront have no loops and hold no lock
across steps.

**Mutants.** Each property of a passing run has a mutant, a definition in the
modules marked `Mutant:` that changes the model as a plausible bug would (a
restart that forgets the sequence number, a resize that keeps the old bucket
index, a swallowed database error, a write that does not end the page's wait for
a recovery). TLC finds the property violated with it.

## 4. Proofs

`StoreEngineProofs` proves for all keys, namespaces, values, times to live and
any number of operations:

- `TypeCorrect`, `NoFuture`, `LogIsComplete`: `TypeOK`,
  `NoRecordFromTheFuture` and `ReplicaAgrees` are invariants;
- `EngineKeepsPromise`: `StoreEngine` implements `DurableStore`.

The inductive invariant `IInv` (theorem `Invariant`) says that memory and
replica have the same versions and that, under every key, a record live in
memory is the replica's record too, while a key with no live record in memory
has none in the replica either: only dead records may differ. Dead stays dead:
time and versions only grow. This is why silent removals do no harm, and why the
theorem needs `NoRecordFromTheFuture`: the replay of an upsert takes its
namespace's version *up* to the record's, so a record ahead of its namespace
would let log and memory disagree about everything else in it. Where an append has
failed this is claimed only of the other keys and namespaces: of the versions
it keeps only that the log's is not ahead, which is what lets the next logged
upsert settle the whole namespace. Each operation
has a lemma for this step and a second one for the refinement, where a silent
step must change nothing clients see, an upsert exactly one entry, an
invalidation exactly one namespace and a tick exactly what is due.

`PersistenceProofs` proves of `Persistence`, for any number of keys, namespaces,
values, logged operations, ticks and restarts:

- `TypeCorrect` (`TypeOK`), in every mode, with any number of requests that save
  at once and writes at any time: also the garbled files this leaves are among
  the contents the model has;
- under the hypothesis `Supported`: `FilesRecover` (`Recoverable`),
  `EventsStayNumbered` (`NumberedInOrder`) and `ProcessKeepsPromise`
  (`KeepsPromise`, the refinement of `DurableStore` by engine, files, crashes and
  restarts).

`Supported` is what the run `persistence` assumes: truncate mode (the default of
config.py:34), at most one request that saves, nobody who writes between the
reading and the renaming of the AOF, and nobody who writes behind a torn tail.
The last three are needed, as `two_saves`, `rewrite_race` and `torn_tail` show;
in strict mode a torn tail is meant to keep the process from starting.

`Recoverable` alone is not inductive: that the files recover what clients see
now says nothing of the next rename. The invariant (theorem `Invariant`)
therefore says it of everything that may become a file:

- `FilesAgree`: the snapshot is whole, the AOF is lines up to at most a torn
  tail, its events are numbered upwards, and replaying them on the snapshot
  gives the records clients see and, besides, dead records only (`Faithful`).
  Restart, crash and a crash inside an append (which leaves either the whole
  event or a tail that is skipped) need no more;
- `SavesSnapshot`: a snapshot under way would recover the same with the AOF as
  it is now, and has all its events up to its marker in it (`Covers`): replaying
  those again brings back dead records only. So it may replace the old one at
  any moment, and what a save wrote before the rename is all there
  (`BytesInPlace`);
- `HasSnapshot`, `RewritesAof`: after the rename the events up to the marker
  are superfluous, and the file that is to replace the AOF recovers the same
  without them;
- `OneSaver`: one thread at a time is at this, a request while the process is
  up and the shutdown while it stops.

An append keeps all of this by one lemma for each operation: memory after the
operation and a snapshot after the replay of its event agree if they agreed
before. What `ReadEvents`, `ApplyEvents` and `EventsAfter` compute is proved by
induction on the chunks or events done, as for the loops of HashTable. `IInv`
was checked by TLC with the bounds of `persistence`, in all of its states,
before it was proved.

`StoreProofs` has the lemmas about the engine's operations that
`StoreEngineProofs` and `PersistenceProofs` share: types, that a record is never
ahead of its namespace, and that every outcome is one operation of
`DurableStore`, the clock, or invisible.

`StorefrontProofs` proves for any number of products, threads and clients:

- `StorefrontTypeCorrect`;
- `OneSellerAddsUp`: if at most one thread sells or restocks, `StockAddsUp` is
  an invariant. The strengthening follows the number a request holds between
  its read and its update: it still fits, because nobody else can have changed
  the stock; of a product that has not been seeded nothing has been sold.
  `oversell` shows that the hypothesis is needed;
- `NothingInvented`: `NoPhantomStock` is an invariant with any number of
  sellers. The strengthening is that catalogs and requests hold past stocks.

and of requests that do not overlap, again for any number of products and other
clients:

- `OneAtATimeAgrees`: with one worker, no interruptions and the database,
  `CacheAgrees` is an invariant. The strengthening says that the stock a request
  is about to write is the origin's, and that the cache is right about every
  product it is not about to write;
- `OneAtATimeKeepsDeadlines`: with one worker, `DeadlineKept` holds,
  interruptions and fallbacks included, and whatever deadlines other clients
  give. The strengthening says that no cached product has passed its deadline;
  that while a request is about to write without one, no product with a
  deadline is cached; and that a deadline it carries is the cached product's,
  if there is one. Clients and the clock only take products away.

`stale_cache` shows that the first needs its hypothesis; for the second see the
assumptions of section 3.

`HashTableProofs` proves for every hash function, load factor and initial
capacity with room for one node, and any number of keys: `TypeCorrect`,
`NothingMisplaced` (`WellPlaced`),
`LoadIsBounded` (`SizeAndLoad`) and `TableIsKeyMap`, the refinement to KeyMap.
The inductive invariant `TableInv` says that every node is in the chain its key
hashes to, that no key has two nodes, that size counts the items and that
doubling the capacity makes room for one more; the last is what
`TableAssumption` is for, which demands that room of the initial capacity (with
the code's defaults it has room for six). What the loops
of items() and of a resize compute is proved by induction on the rounds done:
`Iteration` derives from the well-foundedness of < that a set with 0 and the
successor of each of its members has every number up to N, and that a function
defined round by round exists.

`DurabilityProofs` proves for any number of events and saves, any clock and any
length of the second: `TypeCorrect`, `NothingLostWithAlways` (`AlwaysKeeps`),
`LittleLostWithEverysec` (`LossBounded`) and `SaveGivesNothingAway`
(`SafeStaysSafe`). The inductive invariant says that the AOF and the file a
rewrite has replaced both keep every event an append has synced, that every
snapshot the name may lead to reaches to where the AOF begins, that no process
believes in a later fsync than there was, and that under everysec an unsynced
event was logged within a second of the last one. The action property compares the recoveries possible before
and after each step: each one after is at least as good as one before.

`PersistenceDemoProofs` proves for any number of writes, crashes, reloads and
requests under way: `RecoveriesAreReal` (`RecoveredMeansSurvived`) and
`AlarmsAreReal` (`NoFalseAlarm`), and `TypeCorrect`. The argument follows the
page from the click on crash to its verdict (`Committed`): in that time its last
value does not change, its looks are for the death of a process at least as late
as the one that stored it (`LooksLate`), and so all it may judge was answered
after that death, with another value only if some request has replaced the last
one (`AnswersLate`). The assumptions are used in the lemmas about `ClickCrash`,
`ClickWrite` and `Look`. The types take an invariant of their own (`Limits`):
that no process dies more often than somebody has asked for it, and that no
value is stored which was not sent, holds because each request under way, and
the timer a served crash leaves, count for one until they are used up.

The proofs assume what the modules' `ASSUME`s say of the constants: the special
values differ from the others, times to live and quantities are positive (the
API validates that), payload texts of different stocks differ and other clients
do not write product payloads themselves.

Only model-checked: `AwaitingResolved`, since liveness under fairness is out of
the prover's reach, and the five counterexamples. Every other property of the
runs is stated by a theorem.

## 5. What is not modelled

- *A failing append in Persistence*: one that leaves nothing in the file is
  `AppendFails` of StoreEngine; in Persistence every append succeeds, or is cut
  by a crash. With it memory would be ahead of the files; for which keys and
  namespaces, and until when, is what `ReplicaAgrees` says.
- *An append that fails half-way* while the process stays up: it leaves part of
  a line, on which the next append is glued. `torn_tail` shows what that does.
- *File systems* that rename before they write the data: `SaveSnapshot` syncs
  nothing (repository.py:30-33), and on such a one the snapshot could be empty
  when the events in it are gone.
- *A clock that is set back*: the clock only advances. With a clock that does
  not, an expired record that is still in the table comes back.
- *Reading the AOF while it grows*: a read is one step.
- *Bytes*: a JSON text is whole, cut or garbled; encodings, paths and formats
  are not modelled. Records of a malformed but parsable snapshot are not either.
- *HTTP*: status codes, response bodies and validation, apart from what it says
  about the ranges of inputs.
- *Another seed file*: the seeding deletes products that are not in the seed
  (catalog.py:173); the models keep one seed.
- *get_state, list and direct reads* of the storefront: they change nothing.
- *The async demo endpoint* (api/demo.py): what it caches is a function of the
  item, so its races change how often it is computed and nothing else.
- *Front end*: the buttons of the shop send one request each and render its
  answer. Of the demo, what is only rendered: among it the text that the page
  checks by itself, which it also shows after an outage it met without awaiting
  a recovery (app.js:334, 436), and then does not.
- *Benchmarks*: they keep no state.

## 6. Plan

Done, in this order: Records, Store, StoreEngine with DurableStore; the proofs
about them; AofFile, Persistence; HashTable with KeyMap; Storefront and the
proofs about it; failing appends in StoreEngine and in its proofs;
PersistenceDemo, with liveness; Durability; the proofs about the last two, about
the serial storefront and about HashTable; the proofs about Persistence, for
which `ReadEvents` and `ApplyEvents` became recursive functions of the number of
chunks read and events replayed; the types of PersistenceDemo.

Next:

1. Proofs about `Persistence` with weaker hypotheses: what strict mode keeps
   when no append is torn, and what several requests that save one after the
   other, never at once, keep.
2. `Durability` and `Persistence` together: that the ranges of events of the
   former are what the files of the latter hold.
