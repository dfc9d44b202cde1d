------------------------------ MODULE Storefront ------------------------------
(***************************************************************************)
(* The product pages of app/storefront/service.py: an origin that owns the *)
(* stock (catalog.py), a cached copy of each product in the store, and     *)
(* requests served by several threads at once.                             *)
(*                                                                         *)
(* No lock and no transaction spans two calls of a request, so every call  *)
(* to the catalog or the store is a step of its own.  The store is used by *)
(* its promise, DurableStore; StoreEngine and Persistence are about how it *)
(* is kept, also across restarts.                                          *)
(*                                                                         *)
(* Of a product only its stock changes.  A cached value is the JSON text   *)
(* of a product with that stock; the store's other clients can leave other *)
(* texts under the same key.                                               *)
(***************************************************************************)
EXTENDS Records

CONSTANTS
    Workers,            \* threads of the server's pool
    Writers,            \* those that serve purchases and restocks
    Detail,             \* DETAIL_KEY, the only key
    SeedStock,          \* the stock of each product in seed_products.json
    NoStock,            \* MongoDB has no stock of a product
    MaxStock,           \* bound on the stock restocks reach
    Payload,            \* the text to_cache_payload becomes, for each stock
    Partial,            \* a JSON object that lacks a field of a product
    ClientTexts,        \* what other clients store under the key ...
    ClientTTLs,         \* ... and the ttl_ms they give, Never for none
    ReserveTTLs,        \* the ttl_ms of reservations
    Quantities,         \* the quantities of purchases and restocks
    Catalogs,           \* what build_product_catalog can return at a start
    Interruptions,      \* do crashes and database errors cut requests short?
    MaxNow              \* bound on the clock

Products == Namespaces

ASSUME StorefrontAssumption ==
    /\ MaxStock \in Nat /\ MaxNow \in Nat
    /\ Writers \subseteq Workers
    /\ Keys = {Detail}
    /\ SeedStock \in [Products -> 0 .. MaxStock]
    /\ NoStock \notin Int
    /\ Payload \in [0 .. MaxStock -> Texts]
    /\ \A m, n \in 0 .. MaxStock : Payload[m] = Payload[n] => m = n
    /\ \A n \in 0 .. MaxStock : Payload[n] # Partial
    /\ ClientTexts \subseteq Texts /\ \A n \in 0 .. MaxStock : Payload[n] \notin ClientTexts
    /\ ClientTTLs \subseteq (Nat \ {0}) \cup {Never}
    /\ ReserveTTLs \subseteq Nat \ {0} /\ Quantities \subseteq Nat \ {0}
    /\ Catalogs \subseteq {"database", "seed"}
    /\ Interruptions \in BOOLEAN

VARIABLES
    catalog,    \* which catalog this process uses
    database,   \* the stock of each product in MongoDB, if it has one
    memory,     \* the stock of each product in a SeedProductCatalog
    cache,      \* what the store shows under each product's detail key
    now,        \* the wall clock
    request,    \* what each worker is doing
    balance,    \* history: the database's first stock, plus restocks, minus sales
    past        \* history: the stocks the origin has had

vars == <<catalog, database, memory, cache, now, request, balance, past>>

originVars == <<catalog, database, memory, balance, past>>

DetailKey(p) == <<p, Detail>>

Cached(p) == cache[DetailKey(p)]

\* The catalog's get_product; also what a direct read answers.
Stock(p) == IF catalog = "database" THEN database[p] ELSE memory[p]

\* _product_from_cache_payload makes a product of the text.
IsPayload(text) == \E n \in DOMAIN Payload : Payload[n] = text

StockIn(text) == CHOOSE n \in DOMAIN Payload : Payload[n] = text

\* A request: its next step and what it carries to it.
Idle == [pc |-> "idle", stock |-> 0, change |-> 0, deadline |-> Never, ttl |-> Never]

\* The record of a request that is at a step, with the product it is for.
At(step, p) == [pc |-> step, product |-> p,
                stock |-> 0, change |-> 0, deadline |-> Never, ttl |-> Never]

Steps == {"discard", "load", "update", "lookup", "remaining", "write"}

RequestsAtWork == [pc : Steps, product : Products, stock : 0 .. MaxStock, change : Int,
                   deadline : Int \cup {Never}, ttl : Int \cup {Never}]

Store == INSTANCE DurableStore WITH
            view <- cache, clock <- now, InputValues <- Texts, TTLs <- {}, Amounts <- {}

\* Type correctness of origin, cache and requests.
TypeOK ==
    /\ catalog \in {"database", "seed"}
    /\ database \in [Products -> 0 .. MaxStock \cup {NoStock}]
    /\ catalog = "database" => \A p \in Products : database[p] # NoStock
    /\ memory \in [Products -> 0 .. MaxStock]
    /\ cache \in [StorageKeys -> Store!Entry \cup {Missing}]
    /\ now \in 0 .. MaxNow
    /\ request \in [Workers -> RequestsAtWork \cup {Idle}]
    /\ \A w \in Workers : request[w].pc = "remaining" => request[w].deadline # Never
    /\ balance \in [Products -> Int]
    /\ past \in [Products -> SUBSET (0 .. MaxStock)]

\* Mutant: a product that has a stock gets that of the seed.
SeededAnew(stocks, done) ==
    [p \in Products |-> IF p \in done THEN SeedStock[p] ELSE stocks[p]]

\* What _ensure_seeded makes of the stocks in MongoDB when it comes as far as
\* the products `done`: those that have none get that of the seed.
Seeded(stocks, done) ==
    [p \in Products |-> IF p \in done /\ stocks[p] = NoStock THEN SeedStock[p] ELSE stocks[p]]

\* A process uses MongoDB once it has seeded it to the end, and the seed in
\* memory when a call of the seeding has failed, or MONGO_URI is not set.
SeedingsBefore(source) == IF source = "database" THEN {Products} ELSE SUBSET Products

\* The first start of the application, with an empty database.
Init ==
    /\ catalog \in Catalogs
    /\ \E done \in SeedingsBefore(catalog) :
          database = Seeded([p \in Products |-> NoStock], done)
    /\ memory = SeedStock
    /\ cache = [sk \in StorageKeys |-> Missing]
    /\ now = 0
    /\ request = [w \in Workers |-> Idle]
    /\ balance = SeedStock
    /\ past = [p \in Products |-> {SeedStock[p]}]

------------------------------------------------------------------------------
(***************************************************************************)
(* Steps of requests.                                                      *)
(***************************************************************************)

Go(w, next) == request' = [request EXCEPT ![w] = next]

Done(w) == Go(w, Idle)

\* get_cached_product, store.get.  A hit answers at once and changes nothing,
\* and so does a partial payload: its KeyError is not caught.  A text that is
\* no product is deleted first.
ReadCached(w, p) ==
    /\ request[w] = Idle
    /\ \/ /\ Cached(p) = Missing
          /\ Go(w, At("load", p))
       \/ /\ Cached(p) # Missing
          /\ ~IsPayload(Cached(p).value) /\ Cached(p).value # Partial
          /\ Go(w, At("discard", p))
    /\ UNCHANGED <<originVars, cache, now>>

\* store.delete, of whatever is there by now
Discard(w) ==
    LET sk == DetailKey(request[w].product)
    IN  /\ request[w].pc = "discard"
        /\ IF cache[sk] = Missing THEN UNCHANGED <<cache, now>> ELSE Store!Remove(sk)
        /\ Go(w, [request[w] EXCEPT !.pc = "load"])
        /\ UNCHANGED originVars

\* _load_from_origin, after its delay
Load(w) ==
    /\ request[w].pc = "load"
    /\ Go(w, [request[w] EXCEPT !.pc = "lookup", !.stock = Stock(request[w].product)])
    /\ UNCHANGED <<originVars, cache, now>>

\* reserve_product, up to the product it will write
Reserve(w, p) ==
    /\ request[w] = Idle
    /\ \E ttl \in ReserveTTLs : Go(w, [At("write", p) EXCEPT !.stock = Stock(p), !.ttl = ttl])
    /\ UNCHANGED <<originVars, cache, now>>

\* Mutant: nothing compares the quantity with the stock.
PurchaseUnchecked(w, p) ==
    /\ request[w] = Idle
    /\ \E q \in Quantities :
          Go(w, [At("update", p) EXCEPT !.stock = Stock(p) - q, !.change = -q])
    /\ UNCHANGED <<originVars, cache, now>>

\* purchase_product reads the stock; it is refused, and changes nothing, when
\* there is not enough.
Purchase(w, p) ==
    /\ request[w] = Idle
    /\ \E q \in Quantities :
          /\ q <= Stock(p)
          /\ Go(w, [At("update", p) EXCEPT !.stock = Stock(p) - q, !.change = -q])
    /\ UNCHANGED <<originVars, cache, now>>

\* restock_product reads the stock.
Restock(w, p) ==
    /\ request[w] = Idle
    /\ \E q \in Quantities :
          /\ Stock(p) + q <= MaxStock
          /\ Go(w, [At("update", p) EXCEPT !.stock = Stock(p) + q, !.change = q])
    /\ UNCHANGED <<originVars, cache, now>>

\* update_stock stores a number, whatever the stock has become meanwhile.
InDatabase(p, stock, change) ==
    /\ database' = [database EXCEPT ![p] = stock]
    /\ balance' = [balance EXCEPT ![p] = @ + change]
    /\ UNCHANGED memory

InMemory(p, stock) ==
    /\ memory' = [memory EXCEPT ![p] = stock]
    /\ UNCHANGED <<database, balance>>

StoreStock(w) ==
    LET p == request[w].product
        stock == request[w].stock
    IN  /\ IF catalog = "database"
           THEN InDatabase(p, stock, request[w].change)
           ELSE InMemory(p, stock)
        /\ past' = [past EXCEPT ![p] = @ \cup {stock}]
        /\ UNCHANGED catalog

\* Mutant: a sale does not refresh the cached product.
UpdateOnly(w) ==
    /\ request[w].pc = "update"
    /\ StoreStock(w)
    /\ Done(w)
    /\ UNCHANGED <<cache, now>>

Update(w) ==
    /\ request[w].pc = "update"
    /\ StoreStock(w)
    /\ Go(w, [request[w] EXCEPT !.pc = "lookup", !.change = 0])
    /\ UNCHANGED <<cache, now>>

\* Mutant: the deadline of the cached product is not looked up.
LookupNothing(w) ==
    /\ request[w].pc = "lookup"
    /\ Go(w, [request[w] EXCEPT !.pc = "write"])
    /\ UNCHANGED <<originVars, cache, now>>

\* _write_detail_cache looks for a deadline to keep.
Lookup(w) ==
    LET entry == Cached(request[w].product)
    IN  /\ request[w].pc = "lookup"
        /\ IF entry # Missing /\ entry.expires # Never
           THEN Go(w, [request[w] EXCEPT !.pc = "remaining", !.deadline = entry.expires])
           ELSE Go(w, [request[w] EXCEPT !.pc = "write"])
        /\ UNCHANGED <<originVars, cache, now>>

\* It makes a time to live of it, unless the deadline has passed since.
Remaining(w) ==
    LET left == request[w].deadline - now
    IN  /\ request[w].pc = "remaining"
        /\ Go(w, [request[w] EXCEPT !.pc = "write", !.deadline = Never,
                                   !.ttl = IF left > 0 THEN left ELSE Never])
        /\ UNCHANGED <<originVars, cache, now>>

\* store.set
Write(w) ==
    /\ request[w].pc = "write"
    /\ Store!Set(DetailKey(request[w].product), Payload[request[w].stock], request[w].ttl)
    /\ Done(w)
    /\ UNCHANGED originVars

\* invalidate_product
Invalidate(p) ==
    /\ Store!Invalidate(p)
    /\ UNCHANGED <<originVars, request>>

------------------------------------------------------------------------------
(***************************************************************************)
(* What happens around them.                                               *)
(***************************************************************************)

\* PUT /kv/detail in the namespace of the product, with a ttl_ms or without.
\* (A DELETE of the key does what Invalidate does, and a counter is one more
\* text that is no product.)
ClientSet(p) ==
    /\ \E text \in ClientTexts, ttl \in ClientTTLs : Store!Set(DetailKey(p), text, ttl)
    /\ UNCHANGED <<originVars, request>>

\* Mutant: an error of update_stock is swallowed and the product cached.
ErrorSwallowed(w) ==
    /\ Interruptions
    /\ catalog = "database"
    /\ request[w].pc = "update"
    /\ Go(w, [request[w] EXCEPT !.pc = "lookup", !.change = 0])
    /\ UNCHANGED <<originVars, cache, now>>

\* A call to MongoDB raises PyMongoError, which nothing catches: the request
\* ends, and an update may have been done all the same.
DatabaseError(w) ==
    /\ Interruptions
    /\ catalog = "database"
    /\ request[w].pc \in {"load", "update"}
    /\ \/ UNCHANGED originVars
       \/ request[w].pc = "update" /\ StoreStock(w)
    /\ Done(w)
    /\ UNCHANGED <<cache, now>>

\* The process stops and is started again.  The store's files bring the cache
\* back (Persistence); a catalog in memory starts from the seed.  What a start
\* has seeded before MongoDB failed it, or before it was killed, is there.
Restart ==
    /\ ~Interruptions => \A w \in Workers : request[w] = Idle
    /\ catalog' \in Catalogs
    /\ \E done \in SeedingsBefore(catalog') : database' = Seeded(database, done)
    /\ memory' = SeedStock
    /\ request' = [w \in Workers |-> Idle]
    /\ UNCHANGED <<cache, now, balance, past>>

Tick ==
    /\ now < MaxNow
    /\ Store!Pass
    /\ UNCHANGED <<originVars, request>>

Next ==
    \/ \E w \in Workers, p \in Products : ReadCached(w, p) \/ Reserve(w, p)
    \/ \E w \in Writers, p \in Products : Purchase(w, p) \/ Restock(w, p)
    \/ \E w \in Workers :
          \/ Discard(w) \/ Load(w) \/ Update(w) \/ Lookup(w) \/ Remaining(w) \/ Write(w)
          \/ DatabaseError(w)
    \/ \E p \in Products : Invalidate(p) \/ ClientSet(p)
    \/ Restart
    \/ Tick

Spec == Init /\ [][Next]_vars

------------------------------------------------------------------------------
(***************************************************************************)
(* Properties.                                                             *)
(***************************************************************************)

\* The database's stock is what it started with, plus every restock, minus
\* every sale, with cached reads, reservations, invalidations, crashes,
\* database errors, starts that fail half-way through the seeding and fall
\* back to the seed in between, as long as one thread at a time sells and
\* restocks.
StockAddsUp == \A p \in Products : database[p] \in {balance[p], NoStock}

\* "Not enough stock remaining for this drop.": no more is sold than there
\* was.
NothingOversold == \A p \in Products : balance[p] >= 0

\* A cached product shows a stock the origin has really had: a request that is
\* cut short, or overtaken by others, leaves no number in the cache that was
\* never true.
NoPhantomStock ==
    \A p \in Products :
        Cached(p) # Missing /\ IsPayload(Cached(p).value) => StockIn(Cached(p).value) \in past[p]

\* Once a product's requests are answered, a cached read of it and a direct
\* read show the same stock.
CacheAgrees ==
    \A p \in Products :
        /\ \A w \in Workers : request[w] = Idle
        /\ Cached(p) # Missing /\ IsPayload(Cached(p).value)
        => StockIn(Cached(p).value) = Stock(p)

\* A cached product that is to expire is not made permanent by a sale, a
\* restock or a cached read, whatever the clock, clients and errors do between
\* the request's looking for a deadline and its write: _write_detail_cache takes
\* it over, or it has passed and the product with it.  Of what clients store
\* nothing is said: a cached read writes over their texts as it finds them, and
\* over one that came after it had looked.
DeadlineKept ==
    [][\A p \in Products :
          /\ Cached(p) # Missing /\ IsPayload(Cached(p).value) /\ Cached(p).expires # Never
          /\ Cached(p)' # Missing /\ IsPayload(Cached(p).value')
          => Cached(p).expires' # Never]_vars
==============================================================================
