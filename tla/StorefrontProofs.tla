--------------------------- MODULE StorefrontProofs ---------------------------
(***************************************************************************)
(* Proofs about Storefront for any number of products, threads and other   *)
(* clients: type correctness, that one seller at a time keeps the stock    *)
(* right, and that the cache never shows a stock the origin has not had.   *)
(***************************************************************************)
EXTENDS Storefront, TLAPS

------------------------------------------------------------------------------
(***************************************************************************)
(* Type correctness.                                                       *)
(***************************************************************************)

\* A start leaves the stocks that MongoDB has; a process that uses MongoDB
\* finds a stock of every product.
LEMMA StartSeeds ==
    ASSUME NEW stocks \in [Products -> 0 .. MaxStock \cup {NoStock}],
           NEW source, NEW done \in SeedingsBefore(source)
    PROVE  /\ Seeded(stocks, done) \in [Products -> 0 .. MaxStock \cup {NoStock}]
           /\ \A p \in Products :
                 \/ Seeded(stocks, done)[p] = stocks[p]
                 \/ stocks[p] = NoStock /\ Seeded(stocks, done)[p] = SeedStock[p]
           /\ source = "database" => \A p \in Products : Seeded(stocks, done)[p] # NoStock
BY StorefrontAssumption DEF Seeded, SeedingsBefore

\* The stock a process works with is a stock.
LEMMA StockType ==
    ASSUME TypeOK, NEW p \in Products
    PROVE  Stock(p) \in 0 .. MaxStock
BY DEF TypeOK, Stock

\* The part of TypeOK about the requests.
RequestsTyped ==
    /\ request \in [Workers -> RequestsAtWork \cup {Idle}]
    /\ \A w \in Workers : request[w].pc = "remaining" => request[w].deadline # Never

\* A worker that goes to another step leaves the requests well typed.
LEMMA GoType ==
    ASSUME TypeOK, NEW w \in Workers, NEW next \in RequestsAtWork \cup {Idle}, Go(w, next),
           next.pc = "remaining" => next.deadline # Never
    PROVE  RequestsTyped'
BY DEF TypeOK, RequestsTyped, Go

\* A request starts with all its fields.
LEMMA AtType ==
    ASSUME NEW step \in Steps, NEW p \in Products
    PROVE  At(step, p) \in RequestsAtWork /\ At(step, p).pc = step
<1>1. 0 \in 0 .. MaxStock
  BY StorefrontAssumption
<1> QED
  BY <1>1 DEF At, RequestsAtWork

\* A worker that is not idle has a request with all its fields.
LEMMA AtWork ==
    ASSUME TypeOK, NEW w \in Workers, request[w].pc # "idle"
    PROVE  request[w] \in RequestsAtWork
BY DEF TypeOK, Idle

\* What steps write into a request keeps it well typed.
LEMMA EditType ==
    ASSUME NEW r \in RequestsAtWork, NEW step \in Steps, NEW stock \in 0 .. MaxStock,
           NEW change \in Int, NEW ttl \in Int \cup {Never}
    PROVE  /\ [r EXCEPT !.pc = step, !.change = change] \in RequestsAtWork
           /\ [r EXCEPT !.stock = stock, !.change = change] \in RequestsAtWork
           /\ [r EXCEPT !.stock = stock, !.ttl = ttl] \in RequestsAtWork
<1>1. ASSUME NEW s \in RequestsAtWork
      PROVE  [s EXCEPT !.change = change] \in RequestsAtWork
  BY DEF RequestsAtWork
<1>2. [r EXCEPT !.pc = step] \in RequestsAtWork
  BY DEF RequestsAtWork
<1>3. [r EXCEPT !.stock = stock] \in RequestsAtWork
  BY DEF RequestsAtWork
<1>4. ASSUME NEW s \in RequestsAtWork
      PROVE  [s EXCEPT !.ttl = ttl] \in RequestsAtWork
  BY DEF RequestsAtWork
<1>5. /\ [r EXCEPT !.pc = step, !.change = change] = [[r EXCEPT !.pc = step] EXCEPT !.change = change]
      /\ [r EXCEPT !.stock = stock, !.change = change]
            = [[r EXCEPT !.stock = stock] EXCEPT !.change = change]
      /\ [r EXCEPT !.stock = stock, !.ttl = ttl] = [[r EXCEPT !.stock = stock] EXCEPT !.ttl = ttl]
  BY Zenon
<1> QED
  BY <1>1, <1>2, <1>3, <1>4, <1>5

\* A key of the cache belongs to one product.
LEMMA KeyOfProduct ==
    ASSUME NEW p \in Products
    PROVE  DetailKey(p) \in StorageKeys
BY StorefrontAssumption DEF DetailKey, StorageKeys, Products

\* Writing a product to the cache leaves an entry.
LEMMA SetType ==
    ASSUME TypeOK, NEW p \in Products, NEW text \in Texts, NEW ttl \in Int \cup {Never},
           Store!Set(DetailKey(p), text, ttl)
    PROVE  /\ cache' \in [StorageKeys -> Store!Entry \cup {Missing}]
           /\ now' = now
<1> DEFINE sk == DetailKey(p)
<1>1. sk \in StorageKeys
  BY KeyOfProduct
<1>2. now \in Int
  BY StorefrontAssumption DEF TypeOK
<1> DEFINE expires == IF ttl = Never THEN Never ELSE now + ttl
           created == IF cache[sk] = Missing THEN now ELSE cache[sk].created
<1>3. expires \in Int \cup {Never}
  BY <1>2
<1>4. created \in Int
  BY <1>1, <1>2 DEF TypeOK, Store!Entry
<1>5. cache' = [cache EXCEPT ![sk] = [value |-> text, expires |-> expires, created |-> created]]
  BY DEF Store!Set
<1>6. text \in Values
  BY DEF Values
<1> HIDE DEF expires, created, sk
<1>7. [value |-> text, expires |-> expires, created |-> created] \in Store!Entry
  BY <1>3, <1>4, <1>6 DEF Store!Entry, Store!Values, Values
<1>8. cache \in [StorageKeys -> Store!Entry \cup {Missing}]
  BY DEF TypeOK
<1>9. now' = now
  BY DEF Store!Set
<1> DEFINE entry == [value |-> text, expires |-> expires, created |-> created]
<1> HIDE DEF entry
<1>10. entry \in Store!Entry \cup {Missing} /\ cache' = [cache EXCEPT ![sk] = entry]
  BY <1>5, <1>7 DEF entry
<1> QED
  BY <1>1, <1>8, <1>9, <1>10

\* Every step keeps the types.
LEMMA NextType ==
    ASSUME TypeOK, [Next]_vars
    PROVE  TypeOK'
<1> USE StorefrontAssumption
<1>1. ASSUME NEW w \in Workers, NEW p \in Products, ReadCached(w, p)
      PROVE  TypeOK'
  <2>1. /\ At("load", p) \in RequestsAtWork /\ At("load", p).pc = "load"
        /\ At("discard", p) \in RequestsAtWork /\ At("discard", p).pc = "discard"
    BY AtType DEF Steps
  <2>2. RequestsTyped'
    BY <1>1, <2>1, GoType DEF ReadCached
  <2> QED
    BY <1>1, <2>2 DEF ReadCached, originVars, TypeOK, RequestsTyped
<1>2. ASSUME NEW w \in Workers, NEW p \in Products, Reserve(w, p)
      PROVE  TypeOK'
  <2>1. PICK ttl \in ReserveTTLs :
            Go(w, [At("write", p) EXCEPT !.stock = Stock(p), !.ttl = ttl])
    BY <1>2 DEF Reserve
  <2>2. [At("write", p) EXCEPT !.stock = Stock(p), !.ttl = ttl] \in RequestsAtWork
    <3>1. Stock(p) \in 0 .. MaxStock /\ ttl \in Int \cup {Never} /\ 0 \in Int
      BY StockType
    <3>2. At("write", p) \in RequestsAtWork /\ "write" \in Steps
      BY AtType DEF Steps
    <3> QED
      BY <3>1, <3>2, EditType
  <2>3. [At("write", p) EXCEPT !.stock = Stock(p), !.ttl = ttl].pc = "write"
    BY DEF At
  <2>4. RequestsTyped'
    BY <2>1, <2>2, <2>3, GoType
  <2> QED
    BY <1>2, <2>4 DEF Reserve, originVars, TypeOK, RequestsTyped
<1>3. ASSUME NEW w \in Writers, NEW p \in Products, Purchase(w, p)
      PROVE  TypeOK'
  <2>1. PICK q \in Quantities :
            /\ q <= Stock(p)
            /\ Go(w, [At("update", p) EXCEPT !.stock = Stock(p) - q, !.change = -q])
    BY <1>3 DEF Purchase
  <2>2. Stock(p) - q \in 0 .. MaxStock /\ -q \in Int
    BY <2>1, StockType
  <2>3. [At("update", p) EXCEPT !.stock = Stock(p) - q, !.change = -q] \in RequestsAtWork
    BY <2>2, StockType, AtType, EditType DEF Steps
  <2>4. [At("update", p) EXCEPT !.stock = Stock(p) - q, !.change = -q].pc = "update"
    BY DEF At
  <2>5. RequestsTyped'
    BY <2>1, <2>3, <2>4, GoType
  <2> QED
    BY <1>3, <2>5 DEF Purchase, originVars, TypeOK, RequestsTyped
<1>4. ASSUME NEW w \in Writers, NEW p \in Products, Restock(w, p)
      PROVE  TypeOK'
  <2>1. PICK q \in Quantities :
            /\ Stock(p) + q <= MaxStock
            /\ Go(w, [At("update", p) EXCEPT !.stock = Stock(p) + q, !.change = q])
    BY <1>4 DEF Restock
  <2>2. Stock(p) + q \in 0 .. MaxStock /\ q \in Int
    BY <2>1, StockType
  <2>3. [At("update", p) EXCEPT !.stock = Stock(p) + q, !.change = q] \in RequestsAtWork
    BY <2>2, StockType, AtType, EditType DEF Steps
  <2>4. [At("update", p) EXCEPT !.stock = Stock(p) + q, !.change = q].pc = "update"
    BY DEF At
  <2>5. RequestsTyped'
    BY <2>1, <2>3, <2>4, GoType
  <2> QED
    BY <1>4, <2>5 DEF Restock, originVars, TypeOK, RequestsTyped
<1>5. ASSUME NEW w \in Workers, Discard(w)
      PROVE  TypeOK'
  <2>1. request[w] \in RequestsAtWork
    BY <1>5, AtWork DEF Discard
  <2>2. /\ [request[w] EXCEPT !.pc = "load"] \in RequestsAtWork
        /\ [request[w] EXCEPT !.pc = "load"].pc = "load"
    BY <2>1 DEF RequestsAtWork, Steps
  <2>3. RequestsTyped'
    BY <1>5, <2>2, GoType DEF Discard
  <2>4. cache' \in [StorageKeys -> Store!Entry \cup {Missing}] /\ now' = now
    <3> DEFINE sk == DetailKey(request[w].product)
    <3>1. sk \in StorageKeys
      BY <2>1, KeyOfProduct DEF RequestsAtWork
    <3>2. \/ UNCHANGED <<cache, now>>
          \/ cache' = [cache EXCEPT ![sk] = Missing] /\ now' = now
      BY <1>5 DEF Discard, Store!Remove
    <3> QED
      BY <3>1, <3>2 DEF TypeOK
  <2> QED
    BY <1>5, <2>3, <2>4 DEF Discard, originVars, TypeOK, RequestsTyped
<1>6. ASSUME NEW w \in Workers, Load(w)
      PROVE  TypeOK'
  <2>1. request[w] \in RequestsAtWork
    BY <1>6, AtWork DEF Load
  <2>2. Stock(request[w].product) \in 0 .. MaxStock
    BY <2>1, StockType DEF RequestsAtWork
  <2> DEFINE next == [request[w] EXCEPT !.pc = "lookup", !.stock = Stock(request[w].product)]
  <2>3. next \in RequestsAtWork /\ next.pc = "lookup"
    BY <2>1, <2>2 DEF RequestsAtWork, Steps
  <2>4. RequestsTyped'
    BY <1>6, <2>3, GoType DEF Load
  <2> QED
    BY <1>6, <2>4 DEF Load, originVars, TypeOK, RequestsTyped
<1>7. ASSUME NEW w \in Workers, StoreStock(w), request[w] \in RequestsAtWork
      PROVE  /\ catalog' = catalog
             /\ database' \in [Products -> 0 .. MaxStock \cup {NoStock}]
             /\ catalog' = "database" => \A p \in Products : database'[p] # NoStock
             /\ memory' \in [Products -> 0 .. MaxStock]
             /\ balance' \in [Products -> Int]
             /\ past' \in [Products -> SUBSET (0 .. MaxStock)]
  <2> DEFINE p == request[w].product
  <2>1. /\ p \in Products
        /\ request[w].stock \in 0 .. MaxStock
        /\ request[w].change \in Int
    BY <1>7 DEF RequestsAtWork
  <2>2. /\ database' \in [Products -> 0 .. MaxStock \cup {NoStock}]
        /\ catalog' = "database" => \A q \in Products : database'[q] # NoStock
        /\ memory' \in [Products -> 0 .. MaxStock]
        /\ catalog' = catalog
    <3>1. /\ database \in [Products -> 0 .. MaxStock \cup {NoStock}]
          /\ catalog = "database" => \A q \in Products : database[q] # NoStock
          /\ memory \in [Products -> 0 .. MaxStock]
      BY DEF TypeOK
    <3>2. request[w].stock # NoStock /\ catalog' = catalog
      BY <1>7, <2>1 DEF StoreStock
    <3>3. \/ /\ catalog = "database" /\ memory' = memory
             /\ database' = [database EXCEPT ![p] = request[w].stock]
          \/ /\ catalog # "database" /\ database' = database
             /\ memory' = [memory EXCEPT ![p] = request[w].stock]
      BY <1>7 DEF StoreStock, InDatabase, InMemory
    <3> QED
      BY <2>1, <3>1, <3>2, <3>3
  <2>3. balance' \in [Products -> Int]
    <3>1. balance \in [Products -> Int]
      BY DEF TypeOK
    <3>2. \/ balance' = [balance EXCEPT ![p] = @ + request[w].change]
          \/ balance' = balance
      BY <1>7 DEF StoreStock, InDatabase, InMemory
    <3> QED
      BY <2>1, <3>1, <3>2
  <2>4. past' = [past EXCEPT ![p] = @ \cup {request[w].stock}]
    BY <1>7 DEF StoreStock, InDatabase, InMemory
  <2>5. past' \in [Products -> SUBSET (0 .. MaxStock)]
    BY <2>1, <2>4 DEF TypeOK
  <2> QED
    BY <2>2, <2>3, <2>5
<1>8. ASSUME NEW w \in Workers, Update(w)
      PROVE  TypeOK'
  <2>1. request[w] \in RequestsAtWork
    BY <1>8, AtWork DEF Update
  <2> DEFINE next == [request[w] EXCEPT !.pc = "lookup", !.change = 0]
  <2>2. next \in RequestsAtWork /\ next.pc = "lookup"
    <3>1. request[w].stock \in 0 .. MaxStock /\ 0 \in Int /\ "lookup" \in Steps
      BY <2>1 DEF RequestsAtWork, Steps
    <3>2. next \in RequestsAtWork
      BY <2>1, <3>1, EditType
    <3> QED
      BY <2>1, <3>2 DEF RequestsAtWork
  <2>3. RequestsTyped'
    BY <1>8, <2>2, GoType DEF Update
  <2> QED
    BY <1>7, <1>8, <2>1, <2>3 DEF Update, TypeOK, RequestsTyped
<1>9. ASSUME NEW w \in Workers, Lookup(w)
      PROVE  TypeOK'
  <2>1. request[w] \in RequestsAtWork
    BY <1>9, AtWork DEF Lookup
  <2>2. DetailKey(request[w].product) \in StorageKeys
    BY <2>1, KeyOfProduct DEF RequestsAtWork
  <2>3. Cached(request[w].product) \in Store!Entry \cup {Missing}
    BY <2>2 DEF Cached, TypeOK
  <2>4. PICK next \in RequestsAtWork :
            Go(w, next) /\ (next.pc = "remaining" => next.deadline # Never)
    <3> DEFINE entry == Cached(request[w].product)
    <3>1. CASE entry # Missing /\ entry.expires # Never
      <4> DEFINE held == [request[w] EXCEPT !.pc = "remaining", !.deadline = entry.expires]
      <4>1. entry.expires \in Int
        BY <2>3, <3>1 DEF Store!Entry
      <4>2. held \in RequestsAtWork /\ held.deadline = entry.expires
        BY <2>1, <4>1 DEF RequestsAtWork, Steps
      <4> QED
        BY <1>9, <3>1, <4>2 DEF Lookup
    <3>2. CASE ~(entry # Missing /\ entry.expires # Never)
      <4> DEFINE free == [request[w] EXCEPT !.pc = "write"]
      <4>1. free \in RequestsAtWork /\ free.pc = "write"
        BY <2>1 DEF RequestsAtWork, Steps
      <4> QED
        BY <1>9, <3>2, <4>1 DEF Lookup
    <3> QED
      BY <3>1, <3>2
  <2>5. RequestsTyped'
    BY <2>4, GoType
  <2> QED
    BY <1>9, <2>5 DEF Lookup, originVars, TypeOK, RequestsTyped
<1>10. ASSUME NEW w \in Workers, Remaining(w)
       PROVE  TypeOK'
  <2> DEFINE left == request[w].deadline - now
             ttl == IF left > 0 THEN left ELSE Never
  <2>1. request[w] \in RequestsAtWork
    BY <1>10, AtWork DEF Remaining
  <2>2. ttl \in Int \cup {Never}
    <3>1. request[w].deadline \in Int
      BY <1>10, <2>1 DEF Remaining, RequestsAtWork, TypeOK
    <3>2. now \in Int
      BY DEF TypeOK
    <3> QED
      BY <3>1, <3>2
  <2>3. Go(w, [request[w] EXCEPT !.pc = "write", !.deadline = Never, !.ttl = ttl])
    BY <1>10 DEF Remaining
  <2> HIDE DEF ttl
  <2> DEFINE next == [request[w] EXCEPT !.pc = "write", !.deadline = Never, !.ttl = ttl]
  <2>4. next \in RequestsAtWork /\ next.pc = "write"
    BY <2>1, <2>2 DEF RequestsAtWork, Steps
  <2>5. RequestsTyped'
    BY <2>3, <2>4, GoType
  <2> QED
    BY <1>10, <2>5 DEF Remaining, originVars, TypeOK, RequestsTyped
<1>11. ASSUME NEW w \in Workers, Write(w)
       PROVE  TypeOK'
  <2>1. request[w] \in RequestsAtWork
    BY <1>11, AtWork DEF Write
  <2>2. /\ request[w].product \in Products
        /\ Payload[request[w].stock] \in Texts
        /\ request[w].ttl \in Int \cup {Never}
    BY <2>1 DEF RequestsAtWork
  <2>3. /\ cache' \in [StorageKeys -> Store!Entry \cup {Missing}]
        /\ now' = now
    BY <1>11, <2>2, SetType DEF Write
  <2>4. RequestsTyped'
    BY <1>11, GoType DEF Write, Done, Idle
  <2> QED
    BY <1>11, <2>3, <2>4 DEF Write, originVars, TypeOK, RequestsTyped
<1>12. ASSUME NEW w \in Workers, DatabaseError(w)
       PROVE  TypeOK'
  <2>1. request[w] \in RequestsAtWork
    BY <1>12, AtWork DEF DatabaseError
  <2>2. RequestsTyped'
    BY <1>12, GoType DEF DatabaseError, Done, Idle
  <2>3. CASE UNCHANGED originVars
    BY <1>12, <2>2, <2>3 DEF DatabaseError, originVars, TypeOK, RequestsTyped
  <2>4. CASE StoreStock(w)
    BY <1>7, <1>12, <2>1, <2>2, <2>4 DEF DatabaseError, TypeOK, RequestsTyped
  <2> QED
    BY <1>12, <2>3, <2>4 DEF DatabaseError
<1>13. ASSUME NEW p \in Products, Invalidate(p)
       PROVE  TypeOK'
  BY <1>13 DEF Invalidate, Store!Invalidate, Store!StorageKeys, StorageKeys, originVars, TypeOK
<1>14. ASSUME NEW p \in Products, ClientSet(p)
       PROVE  TypeOK'
  <2>1. PICK text \in ClientTexts, ttl \in ClientTTLs : Store!Set(DetailKey(p), text, ttl)
    BY <1>14 DEF ClientSet
  <2>2. /\ cache' \in [StorageKeys -> Store!Entry \cup {Missing}]
        /\ now' = now
    BY <2>1, SetType
  <2> QED
    BY <1>14, <2>2 DEF ClientSet, originVars, TypeOK, RequestsTyped
<1>15. CASE Restart
  <2>1. PICK done \in SeedingsBefore(catalog') : database' = Seeded(database, done)
    BY <1>15 DEF Restart
  <2>2. /\ database' \in [Products -> 0 .. MaxStock \cup {NoStock}]
        /\ catalog' = "database" => \A p \in Products : database'[p] # NoStock
    <3>1. database \in [Products -> 0 .. MaxStock \cup {NoStock}]
      BY DEF TypeOK
    <3> QED
      BY <2>1, <3>1, StartSeeds
  <2> QED
    BY <1>15, <2>2 DEF Restart, TypeOK, Idle
<1>16. CASE Tick
  <2>1. now' \in 0 .. MaxNow
    BY <1>16 DEF Tick, Store!Pass, TypeOK
  <2>2. cache' \in [StorageKeys -> Store!Entry \cup {Missing}]
    BY <1>16 DEF Tick, Store!Pass, Store!StorageKeys, StorageKeys, TypeOK
  <2> QED
    BY <1>16, <2>1, <2>2 DEF Tick, originVars, TypeOK, RequestsTyped
<1>17. CASE UNCHANGED vars
  BY <1>17 DEF vars, TypeOK
<1> QED
  BY <1>1, <1>2, <1>3, <1>4, <1>5, <1>6, <1>8, <1>9, <1>10, <1>11, <1>12, <1>13, <1>14,
     <1>15, <1>16, <1>17 DEF Next

\* The first state is well typed.
LEMMA InitType == Init => TypeOK
<1> SUFFICES ASSUME Init PROVE TypeOK
  OBVIOUS
<1> DEFINE none == [p \in Products |-> NoStock]
<1>1. PICK done \in SeedingsBefore(catalog) : database = Seeded(none, done)
  BY DEF Init
<1>2. none \in [Products -> 0 .. MaxStock \cup {NoStock}]
  OBVIOUS
<1>3. /\ database \in [Products -> 0 .. MaxStock \cup {NoStock}]
      /\ catalog = "database" => \A p \in Products : database[p] # NoStock
  <2> HIDE DEF none
  <2> QED
    BY <1>1, <1>2, StartSeeds
<1> QED
  BY <1>3, StorefrontAssumption DEF Init, TypeOK, Products, Idle

\* Type correctness, for any number of products, threads and clients.
THEOREM StorefrontTypeCorrect == Spec => []TypeOK
BY InitType, NextType, PTL DEF Spec

------------------------------------------------------------------------------
(***************************************************************************)
(* One seller at a time keeps the stock right.  What purchase or restock   *)
(* will store is computed when it reads the stock, so the invariant says   *)
(* that the number still fits: only a request of a writer can change the   *)
(* stock, and the only writer is the one that holds the number.            *)
(***************************************************************************)

OneSeller == \A v, w \in Writers : v = w

PendingFits ==
    \A w \in Workers :
        request[w].pc = "update" =>
            /\ w \in Writers
            /\ catalog = "database" =>
                  request[w].stock = database[request[w].product] + request[w].change

\* What MongoDB has of a product adds up; of one it has no stock of, nothing
\* has been sold there.
StocksFit ==
    \A p \in Products :
        \/ database[p] = balance[p]
        \/ database[p] = NoStock /\ balance[p] = SeedStock[p]

SellerInv == TypeOK /\ StocksFit /\ PendingFits

\* A step that leaves the origin alone and sends nobody to update_stock.
LEMMA QuietStep ==
    ASSUME SellerInv, UNCHANGED originVars,
           \A w \in Workers : request'[w] = request[w] \/ request'[w].pc # "update"
    PROVE  StocksFit' /\ PendingFits'
BY DEF SellerInv, StocksFit, PendingFits, originVars

\* A worker that goes to a step other than update_stock.
LEMMA GoQuietly ==
    ASSUME SellerInv, UNCHANGED originVars, NEW w \in Workers, NEW next, Go(w, next),
           next.pc # "update"
    PROVE  StocksFit' /\ PendingFits'
<1>1. \A v \in Workers : request'[v] = request[v] \/ request'[v].pc # "update"
  BY DEF SellerInv, TypeOK, Go
<1> QED
  BY <1>1, QuietStep

\* A request computes the number it will store, from the stock it reads.
LEMMA SellerReads ==
    ASSUME SellerInv, OneSeller, UNCHANGED originVars,
           NEW w \in Writers, request[w] = Idle, NEW p \in Products, NEW change \in Int,
           Stock(p) + change \in 0 .. MaxStock,
           Go(w, [At("update", p) EXCEPT !.stock = Stock(p) + change, !.change = change])
    PROVE  StocksFit' /\ PendingFits'
<1> DEFINE next == [At("update", p) EXCEPT !.stock = Stock(p) + change, !.change = change]
<1>1. w \in Workers
  BY StorefrontAssumption
<1>2. next.product = p /\ next.stock = Stock(p) + change /\ next.change = change
  BY DEF At
<1>3. catalog = "database" => Stock(p) = database[p]
  BY DEF Stock
<1> HIDE DEF next
<1>4. request' = [request EXCEPT ![w] = next]
  BY DEF Go, next
<1>5. \A v \in Workers : v # w => request'[v] = request[v]
  BY <1>4 DEF SellerInv, TypeOK
<1>6. request'[w] = next
  BY <1>1, <1>4 DEF SellerInv, TypeOK
<1>7. \A v \in Workers : v # w => request[v].pc # "update"
  BY DEF SellerInv, PendingFits, OneSeller
<1>8. PendingFits'
  BY <1>2, <1>3, <1>5, <1>6, <1>7 DEF PendingFits, originVars
<1>9. StocksFit'
  BY DEF SellerInv, StocksFit, originVars
<1> QED
  BY <1>8, <1>9

\* update_stock, after which the request goes on or ends.
LEMMA SellerStores ==
    ASSUME SellerInv, OneSeller, NEW w \in Workers, request[w].pc = "update", StoreStock(w),
           NEW next, Go(w, next), next.pc # "update"
    PROVE  StocksFit' /\ PendingFits'
<1> DEFINE p == request[w].product
<1>1. request[w] \in RequestsAtWork
  BY AtWork DEF SellerInv
<1>2. p \in Products /\ request[w].stock \in Int /\ request[w].change \in Int
  BY <1>1, StorefrontAssumption DEF RequestsAtWork
<1>3. w \in Writers
  BY DEF SellerInv, PendingFits
<1>4. \A v \in Workers : request'[v].pc # "update"
  <2>1. \A v \in Workers : v # w => request[v].pc # "update"
    BY <1>3 DEF SellerInv, PendingFits, OneSeller
  <2> QED
    BY <2>1 DEF Go, SellerInv, TypeOK
<1>5. StocksFit'
  <2>1. CASE catalog = "database"
    <3>1. request[w].stock = database[p] + request[w].change
      BY <2>1 DEF SellerInv, PendingFits
    <3>2. /\ database' = [database EXCEPT ![p] = request[w].stock]
          /\ balance' = [balance EXCEPT ![p] = @ + request[w].change]
      BY <2>1 DEF StoreStock, InDatabase, InMemory
    <3>3. database[p] # NoStock /\ request[w].stock # NoStock
      BY <1>2, <2>1, StorefrontAssumption DEF SellerInv, TypeOK
    <3> QED
      BY <1>2, <3>1, <3>2, <3>3 DEF SellerInv, TypeOK, StocksFit
  <2>2. CASE catalog # "database"
    BY <2>2 DEF StoreStock, InDatabase, InMemory, SellerInv, StocksFit
  <2> QED
    BY <2>1, <2>2
<1> QED
  BY <1>4, <1>5 DEF PendingFits

\* Every step keeps the stock right and the pending numbers fitting.
LEMMA NextSeller ==
    ASSUME SellerInv, OneSeller, [Next]_vars
    PROVE  StocksFit' /\ PendingFits'
<1> USE StorefrontAssumption
<1>1. ASSUME NEW w \in Workers, NEW p \in Products, ReadCached(w, p)
      PROVE  StocksFit' /\ PendingFits'
  <2>1. At("load", p).pc # "update" /\ At("discard", p).pc # "update"
    BY DEF At
  <2> QED
    BY <1>1, <2>1, GoQuietly DEF ReadCached
<1>2. ASSUME NEW w \in Workers, NEW p \in Products, Reserve(w, p)
      PROVE  StocksFit' /\ PendingFits'
  <2>1. PICK ttl \in ReserveTTLs :
            Go(w, [At("write", p) EXCEPT !.stock = Stock(p), !.ttl = ttl])
    BY <1>2 DEF Reserve
  <2>2. [At("write", p) EXCEPT !.stock = Stock(p), !.ttl = ttl].pc # "update"
    BY DEF At
  <2> QED
    BY <1>2, <2>1, <2>2, GoQuietly DEF Reserve
<1>3. ASSUME NEW w \in Writers, NEW p \in Products, Purchase(w, p)
      PROVE  StocksFit' /\ PendingFits'
  <2>1. PICK q \in Quantities :
            /\ q <= Stock(p)
            /\ Go(w, [At("update", p) EXCEPT !.stock = Stock(p) - q, !.change = -q])
    BY <1>3 DEF Purchase
  <2>2. Stock(p) \in 0 .. MaxStock
    BY StockType DEF SellerInv
  <2>3. Stock(p) - q = Stock(p) + (-q) /\ Stock(p) + (-q) \in 0 .. MaxStock /\ -q \in Int
    BY <2>1, <2>2
  <2>4. Go(w, [At("update", p) EXCEPT !.stock = Stock(p) + (-q), !.change = -q])
    BY <2>1, <2>3
  <2> QED
    BY <1>3, <2>3, <2>4, SellerReads DEF Purchase
<1>4. ASSUME NEW w \in Writers, NEW p \in Products, Restock(w, p)
      PROVE  StocksFit' /\ PendingFits'
  <2>1. PICK q \in Quantities :
            /\ Stock(p) + q <= MaxStock
            /\ Go(w, [At("update", p) EXCEPT !.stock = Stock(p) + q, !.change = q])
    BY <1>4 DEF Restock
  <2>2. Stock(p) + q \in 0 .. MaxStock /\ q \in Int
    BY <2>1, StockType DEF SellerInv
  <2> QED
    BY <1>4, <2>1, <2>2, SellerReads DEF Restock
<1>5. ASSUME NEW w \in Workers, Discard(w) \/ Load(w) \/ Remaining(w) \/ Lookup(w) \/ Write(w)
      PROVE  StocksFit' /\ PendingFits'
  <2>1. request[w] \in RequestsAtWork
    BY <1>5, AtWork DEF SellerInv, Discard, Load, Remaining, Lookup, Write
  <2>2. \A change :
            /\ [request[w] EXCEPT !.pc = "load"].pc = "load"
            /\ [request[w] EXCEPT !.pc = "write"].pc = "write"
            /\ [request[w] EXCEPT !.pc = "lookup", !.stock = change].pc = "lookup"
            /\ [request[w] EXCEPT !.pc = "remaining", !.deadline = change].pc = "remaining"
            /\ [request[w] EXCEPT !.pc = "write", !.deadline = Never, !.ttl = change].pc = "write"
    BY <2>1 DEF RequestsAtWork
  <2>3. CASE Discard(w)
    BY <2>2, <2>3, GoQuietly DEF Discard
  <2>4. CASE Load(w)
    BY <2>2, <2>4, GoQuietly DEF Load
  <2>5. CASE Remaining(w)
    BY <2>2, <2>5, GoQuietly DEF Remaining
  <2>6. CASE Lookup(w)
    BY <2>2, <2>6, GoQuietly DEF Lookup
  <2>7. CASE Write(w)
    BY <2>7, GoQuietly DEF Write, Done, Idle
  <2> QED
    BY <1>5, <2>3, <2>4, <2>5, <2>6, <2>7
<1>6. ASSUME NEW w \in Workers, Update(w)
      PROVE  StocksFit' /\ PendingFits'
  <2>1. request[w] \in RequestsAtWork
    BY <1>6, AtWork DEF SellerInv, Update
  <2>2. [request[w] EXCEPT !.pc = "lookup", !.change = 0].pc # "update"
    BY <2>1 DEF RequestsAtWork
  <2> QED
    BY <1>6, <2>2, SellerStores DEF Update
<1>7. ASSUME NEW w \in Workers, DatabaseError(w)
      PROVE  StocksFit' /\ PendingFits'
  BY <1>7, GoQuietly, SellerStores DEF DatabaseError, Done, Idle
<1>8. ASSUME NEW p \in Products, Invalidate(p) \/ ClientSet(p)
      PROVE  StocksFit' /\ PendingFits'
  BY <1>8, QuietStep DEF Invalidate, ClientSet
<1>9. CASE Restart
  <2>1. PICK done \in SeedingsBefore(catalog') : database' = Seeded(database, done)
    BY <1>9 DEF Restart
  <2>2. \A p \in Products :
           \/ database'[p] = database[p]
           \/ database[p] = NoStock /\ database'[p] = SeedStock[p]
    BY <2>1 DEF Seeded
  <2>3. StocksFit'
    <3>1. balance' = balance /\ \A p \in Products : balance[p] # NoStock
      BY <1>9, StorefrontAssumption DEF Restart, SellerInv, TypeOK
    <3> QED
      BY <2>2, <3>1 DEF SellerInv, StocksFit
  <2>4. PendingFits'
    BY <1>9 DEF Restart, Idle, PendingFits
  <2> QED
    BY <2>3, <2>4
<1>10. CASE Tick
  BY <1>10, QuietStep DEF Tick
<1>11. CASE UNCHANGED vars
  BY <1>11, QuietStep DEF vars, originVars
<1> QED
  BY <1>1, <1>2, <1>3, <1>4, <1>5, <1>6, <1>7, <1>8, <1>9, <1>10, <1>11 DEF Next

\* With one seller at a time the database's stock is the first one, plus the
\* restocks, minus the sales, whatever readers, other clients, crashes,
\* database errors and fallbacks to the seed come in between.
THEOREM OneSellerAddsUp ==
    ASSUME OneSeller
    PROVE  Spec => []StockAddsUp
<1>1. Init => SellerInv
  <2> SUFFICES ASSUME Init PROVE SellerInv
    OBVIOUS
  <2>1. TypeOK
    BY InitType
  <2>2. StocksFit
    BY DEF Init, Seeded, StocksFit
  <2>3. PendingFits
    BY DEF Init, Idle, PendingFits
  <2> QED
    BY <2>1, <2>2, <2>3 DEF SellerInv
<1>2. SellerInv /\ [Next]_vars => SellerInv'
  BY NextType, NextSeller DEF SellerInv
<1>3. SellerInv => StockAddsUp
  BY DEF SellerInv, StocksFit, StockAddsUp
<1> QED
  BY <1>1, <1>2, <1>3, PTL DEF Spec

------------------------------------------------------------------------------
(***************************************************************************)
(* The cache shows no stock the origin has not had, for any number of      *)
(* sellers.  A request writes to the cache what it read from the origin or *)
(* stored there, so the invariant follows the number from there: the       *)
(* catalogs hold past stocks, and so do the requests past their update.    *)
(***************************************************************************)

CatalogsHoldPast ==
    \A p \in Products :
        /\ database[p] \in past[p] \cup {NoStock}
        /\ memory[p] \in past[p] /\ SeedStock[p] \in past[p]

RequestsHoldPast ==
    \A w \in Workers :
        request[w].pc \in {"lookup", "remaining", "write"} =>
            request[w].stock \in past[request[w].product]

PhantomInv == TypeOK /\ CatalogsHoldPast /\ RequestsHoldPast /\ NoPhantomStock

\* The text of a product tells its stock.
LEMMA StockOfPayload ==
    ASSUME NEW n \in 0 .. MaxStock
    PROVE  IsPayload(Payload[n]) /\ StockIn(Payload[n]) = n
BY StorefrontAssumption DEF IsPayload, StockIn

\* A step that leaves the origin alone and puts no product into the cache that
\* was not there.
LEMMA CacheShrinks ==
    ASSUME PhantomInv, UNCHANGED past,
           \A p \in Products : \/ Cached(p)' = Cached(p)
                               \/ Cached(p)' = Missing
                               \/ ~IsPayload(Cached(p)'.value)
    PROVE  NoPhantomStock'
BY DEF PhantomInv, NoPhantomStock

\* A worker whose next step is none that needs a past stock, or that has one.
LEMMA GoWithPast ==
    ASSUME PhantomInv, UNCHANGED past, NEW w \in Workers, NEW next, Go(w, next),
           next.pc \in {"lookup", "remaining", "write"} => next.stock \in past[next.product]
    PROVE  RequestsHoldPast'
BY DEF PhantomInv, RequestsHoldPast, TypeOK, Go

\* The stock a process works with is one the origin has had.
LEMMA StockIsPast ==
    ASSUME PhantomInv, NEW p \in Products
    PROVE  Stock(p) \in past[p]
BY DEF PhantomInv, TypeOK, CatalogsHoldPast, Stock

\* update_stock adds its stock to the past, and nothing leaves the past.
LEMMA StoringAddsToPast ==
    ASSUME PhantomInv, NEW w \in Workers, request[w] \in RequestsAtWork, StoreStock(w),
           UNCHANGED cache
    PROVE  /\ \A p \in Products : past[p] \subseteq past'[p]
           /\ request[w].stock \in past'[request[w].product]
           /\ CatalogsHoldPast'
           /\ NoPhantomStock'
<1> DEFINE p == request[w].product
<1>1. p \in Products /\ request[w].stock \in 0 .. MaxStock
  BY DEF RequestsAtWork
<1>2. past' = [past EXCEPT ![p] = @ \cup {request[w].stock}]
  BY DEF StoreStock, InDatabase, InMemory
<1>3. /\ \A q \in Products : past[q] \subseteq past'[q]
      /\ request[w].stock \in past'[p]
  BY <1>1, <1>2 DEF PhantomInv, TypeOK
<1>4. \A q \in Products :
          /\ q # p => (database'[q] = database[q] /\ memory'[q] = memory[q])
          /\ database'[q] \in {database[q], request[w].stock}
          /\ memory'[q] \in {memory[q], request[w].stock}
  <2>1. CASE catalog = "database"
    BY <1>1, <2>1 DEF StoreStock, InDatabase, InMemory, PhantomInv, TypeOK
  <2>2. CASE catalog # "database"
    BY <1>1, <2>2 DEF StoreStock, InDatabase, InMemory, PhantomInv, TypeOK
  <2> QED
    BY <2>1, <2>2
<1>5. CatalogsHoldPast'
  BY <1>3, <1>4 DEF PhantomInv, CatalogsHoldPast
<1>6. NoPhantomStock'
  BY <1>3 DEF PhantomInv, NoPhantomStock, Cached
<1> QED
  BY <1>3, <1>5, <1>6

\* Every step keeps the numbers in catalogs, requests and cache past stocks.
LEMMA NextPhantom ==
    ASSUME PhantomInv, [Next]_vars
    PROVE  CatalogsHoldPast' /\ RequestsHoldPast' /\ NoPhantomStock'
<1> USE StorefrontAssumption
<1>1. ASSUME UNCHANGED originVars
      PROVE  CatalogsHoldPast'
  BY <1>1 DEF originVars, PhantomInv, CatalogsHoldPast
<1>2. ASSUME UNCHANGED <<originVars, cache>>
      PROVE  NoPhantomStock'
  BY <1>2 DEF originVars, PhantomInv, NoPhantomStock, Cached
<1>3. ASSUME NEW w \in Workers, NEW p \in Products, ReadCached(w, p)
      PROVE  CatalogsHoldPast' /\ RequestsHoldPast' /\ NoPhantomStock'
  <2>1. At("load", p).pc = "load" /\ At("discard", p).pc = "discard"
    BY DEF At
  <2>2. RequestsHoldPast'
    BY <1>3, <2>1, GoWithPast DEF ReadCached, originVars
  <2> QED
    BY <1>1, <1>2, <1>3, <2>2 DEF ReadCached
<1>4. ASSUME NEW w \in Workers, NEW p \in Products, Reserve(w, p)
      PROVE  CatalogsHoldPast' /\ RequestsHoldPast' /\ NoPhantomStock'
  <2>1. PICK ttl \in ReserveTTLs :
            Go(w, [At("write", p) EXCEPT !.stock = Stock(p), !.ttl = ttl])
    BY <1>4 DEF Reserve
  <2> DEFINE next == [At("write", p) EXCEPT !.stock = Stock(p), !.ttl = ttl]
  <2>2. next.stock = Stock(p) /\ next.product = p
    BY DEF At
  <2>3. RequestsHoldPast'
    BY <1>4, <2>1, <2>2, GoWithPast, StockIsPast DEF Reserve, originVars
  <2> QED
    BY <1>1, <1>2, <1>4, <2>3 DEF Reserve
<1>5. ASSUME NEW w \in Writers, NEW p \in Products, Purchase(w, p) \/ Restock(w, p)
      PROVE  CatalogsHoldPast' /\ RequestsHoldPast' /\ NoPhantomStock'
  <2>1. \A stock, change : [At("update", p) EXCEPT !.stock = stock, !.change = change].pc = "update"
    BY DEF At
  <2>2. PICK stock, change : Go(w, [At("update", p) EXCEPT !.stock = stock, !.change = change])
    BY <1>5 DEF Purchase, Restock
  <2>3. RequestsHoldPast'
    BY <1>5, <2>1, <2>2, GoWithPast DEF Purchase, Restock, originVars
  <2> QED
    BY <1>1, <1>2, <1>5, <2>3 DEF Purchase, Restock
<1>6. ASSUME NEW w \in Workers, Discard(w)
      PROVE  CatalogsHoldPast' /\ RequestsHoldPast' /\ NoPhantomStock'
  <2>1. request[w] \in RequestsAtWork
    BY <1>6, AtWork DEF Discard, PhantomInv
  <2>2. [request[w] EXCEPT !.pc = "load"].pc = "load"
    BY <2>1 DEF RequestsAtWork
  <2>3. RequestsHoldPast'
    BY <1>6, <2>2, GoWithPast DEF Discard, originVars
  <2>4. \A p \in Products : Cached(p)' = Cached(p) \/ Cached(p)' = Missing
    <3> DEFINE sk == DetailKey(request[w].product)
    <3>1. \/ UNCHANGED <<cache, now>>
          \/ cache' = [cache EXCEPT ![sk] = Missing]
      BY <1>6 DEF Discard, Store!Remove
    <3>2. \A p \in Products : DetailKey(p) \in DOMAIN cache
      BY KeyOfProduct DEF PhantomInv, TypeOK
    <3> QED
      BY <3>1, <3>2 DEF Cached
  <2>5. NoPhantomStock'
    BY <1>6, <2>4, CacheShrinks DEF Discard, originVars
  <2> QED
    BY <1>1, <1>6, <2>3, <2>5 DEF Discard
<1>7. ASSUME NEW w \in Workers, Load(w)
      PROVE  CatalogsHoldPast' /\ RequestsHoldPast' /\ NoPhantomStock'
  <2> DEFINE next == [request[w] EXCEPT !.pc = "lookup", !.stock = Stock(request[w].product)]
  <2>1. request[w] \in RequestsAtWork
    BY <1>7, AtWork DEF Load, PhantomInv
  <2>2. /\ next.stock = Stock(request[w].product)
        /\ next.product = request[w].product
        /\ request[w].product \in Products
    BY <2>1 DEF RequestsAtWork
  <2>3. Go(w, next) /\ UNCHANGED past
    BY <1>7 DEF Load, originVars
  <2>4. next.stock \in past[next.product]
    BY <2>2, StockIsPast
  <2> HIDE DEF next
  <2>5. RequestsHoldPast'
    BY <2>3, <2>4, GoWithPast
  <2> QED
    BY <1>1, <1>2, <1>7, <2>5 DEF Load
<1>8. ASSUME NEW w \in Workers, Update(w)
      PROVE  CatalogsHoldPast' /\ RequestsHoldPast' /\ NoPhantomStock'
  <2> DEFINE next == [request[w] EXCEPT !.pc = "lookup", !.change = 0]
  <2>1. request[w] \in RequestsAtWork
    BY <1>8, AtWork DEF Update, PhantomInv
  <2>2. next.stock = request[w].stock /\ next.product = request[w].product
    BY <2>1 DEF RequestsAtWork
  <2>3. /\ \A p \in Products : past[p] \subseteq past'[p]
        /\ request[w].stock \in past'[request[w].product]
        /\ CatalogsHoldPast' /\ NoPhantomStock'
    BY <1>8, <2>1, StoringAddsToPast DEF Update
  <2>4. \A v \in Workers : v # w => request'[v] = request[v]
    BY <1>8 DEF Update, Go, PhantomInv, TypeOK
  <2>5. request'[w] = next
    BY <1>8 DEF Update, Go, PhantomInv, TypeOK
  <2>6. ASSUME NEW v \in Workers, request'[v].pc \in {"lookup", "remaining", "write"}
        PROVE  request'[v].stock \in past'[request'[v].product]
    <3>1. CASE v = w
      BY <2>2, <2>3, <2>5, <3>1
    <3>2. CASE v # w
      <4>1. request[v].pc # "idle" /\ request[v].pc \in {"lookup", "remaining", "write"}
        BY <2>4, <2>6, <3>2
      <4>2. request[v].product \in Products
        BY <4>1, AtWork DEF PhantomInv, RequestsAtWork
      <4> QED
        BY <2>3, <2>4, <3>2, <4>1, <4>2 DEF PhantomInv, RequestsHoldPast
    <3> QED
      BY <3>1, <3>2
  <2> QED
    BY <2>3, <2>6 DEF RequestsHoldPast
<1>9. ASSUME NEW w \in Workers, Lookup(w) \/ Remaining(w)
      PROVE  CatalogsHoldPast' /\ RequestsHoldPast' /\ NoPhantomStock'
  <2>1. request[w] \in RequestsAtWork
    BY <1>9, AtWork DEF Lookup, Remaining, PhantomInv
  <2>2. PICK next : Go(w, next) /\ next.stock = request[w].stock /\ next.product = request[w].product
    <3>1. \A other :
              /\ [request[w] EXCEPT !.pc = "write"].stock = request[w].stock
              /\ [request[w] EXCEPT !.pc = "write"].product = request[w].product
              /\ [request[w] EXCEPT !.pc = "remaining", !.deadline = other].stock = request[w].stock
              /\ [request[w] EXCEPT !.pc = "remaining", !.deadline = other].product
                    = request[w].product
              /\ [request[w] EXCEPT !.pc = "write", !.deadline = Never, !.ttl = other].stock
                    = request[w].stock
              /\ [request[w] EXCEPT !.pc = "write", !.deadline = Never, !.ttl = other].product
                    = request[w].product
      BY <2>1 DEF RequestsAtWork
    <3>2. CASE Lookup(w)
      <4>1. \/ Go(w, [request[w] EXCEPT !.pc = "write"])
            \/ \E other : Go(w, [request[w] EXCEPT !.pc = "remaining", !.deadline = other])
        BY <3>2 DEF Lookup
      <4> QED
        BY <3>1, <4>1
    <3>3. CASE Remaining(w)
      <4>1. \E other : Go(w, [request[w] EXCEPT !.pc = "write", !.deadline = Never, !.ttl = other])
        BY <3>3 DEF Remaining
      <4> QED
        BY <3>1, <4>1
    <3> QED
      BY <1>9, <3>2, <3>3
  <2>3. request[w].pc \in {"lookup", "remaining", "write"}
    BY <1>9 DEF Lookup, Remaining
  <2>4. next.stock \in past[next.product]
    BY <2>2, <2>3 DEF PhantomInv, RequestsHoldPast
  <2>5. UNCHANGED <<originVars, cache>>
    BY <1>9 DEF Lookup, Remaining
  <2>6. RequestsHoldPast'
    BY <2>2, <2>4, <2>5, GoWithPast DEF originVars
  <2> QED
    BY <1>1, <1>2, <2>5, <2>6
<1>10. ASSUME NEW w \in Workers, Write(w)
       PROVE  CatalogsHoldPast' /\ RequestsHoldPast' /\ NoPhantomStock'
  <2>1. request[w] \in RequestsAtWork
    BY <1>10, AtWork DEF Write, PhantomInv
  <2>2. PICK p \in Products, n \in 0 .. MaxStock : p = request[w].product /\ n = request[w].stock
    BY <2>1 DEF RequestsAtWork
  <2>3. n \in past[p]
    BY <1>10, <2>2 DEF Write, PhantomInv, RequestsHoldPast
  <2>4. RequestsHoldPast'
    BY <1>10, GoWithPast DEF Write, Done, Idle, originVars
  <2>5. PICK expires, created :
            cache' = [cache EXCEPT ![DetailKey(p)] =
                        [value |-> Payload[n], expires |-> expires, created |-> created]]
    BY <1>10, <2>2 DEF Write, Store!Set
  <2>6. \A q \in Products : DetailKey(q) \in DOMAIN cache /\ (DetailKey(q) = DetailKey(p) => q = p)
    BY KeyOfProduct DEF PhantomInv, TypeOK, DetailKey
  <2>7. Cached(p)'.value = Payload[n]
    BY <2>2, <2>5, <2>6 DEF Cached
  <2>8. \A q \in Products : q # p => Cached(q)' = Cached(q)
    BY <2>2, <2>5, <2>6 DEF Cached
  <2>9. IsPayload(Payload[n]) /\ StockIn(Payload[n]) = n
    BY <2>2, StockOfPayload
  <2>10. UNCHANGED past
    BY <1>10 DEF Write, originVars
  <2>11. NoPhantomStock'
    BY <2>3, <2>7, <2>8, <2>9, <2>10 DEF PhantomInv, NoPhantomStock
  <2> QED
    BY <1>1, <1>10, <2>4, <2>11 DEF Write
<1>11. ASSUME NEW w \in Workers, DatabaseError(w)
       PROVE  CatalogsHoldPast' /\ RequestsHoldPast' /\ NoPhantomStock'
  <2>1. request[w] \in RequestsAtWork
    BY <1>11, AtWork DEF DatabaseError, PhantomInv
  <2>2. CASE UNCHANGED originVars
    <3>1. RequestsHoldPast'
      BY <1>11, <2>2, GoWithPast DEF DatabaseError, Done, Idle, originVars
    <3> QED
      BY <1>1, <1>2, <1>11, <2>2, <3>1 DEF DatabaseError
  <2>3. CASE StoreStock(w)
    <3>1. /\ \A p \in Products : past[p] \subseteq past'[p]
          /\ CatalogsHoldPast' /\ NoPhantomStock'
      BY <1>11, <2>1, <2>3, StoringAddsToPast DEF DatabaseError
    <3>2. ASSUME NEW v \in Workers, request'[v].pc \in {"lookup", "remaining", "write"}
          PROVE  request'[v].stock \in past'[request'[v].product]
      <4>1. request'[v] = request[v]
        BY <1>11, <3>2 DEF DatabaseError, Done, Go, Idle, PhantomInv, TypeOK
      <4>2. request[v].product \in Products
        BY <3>2, <4>1, AtWork DEF PhantomInv, RequestsAtWork
      <4> QED
        BY <3>1, <3>2, <4>1, <4>2 DEF PhantomInv, RequestsHoldPast
    <3> QED
      BY <3>1, <3>2 DEF RequestsHoldPast
  <2> QED
    BY <1>11, <2>2, <2>3 DEF DatabaseError
<1>12. ASSUME NEW r \in Products, Invalidate(r)
       PROVE  CatalogsHoldPast' /\ RequestsHoldPast' /\ NoPhantomStock'
  <2>1. \A p \in Products : Cached(p)' = Cached(p) \/ Cached(p)' = Missing
    BY <1>12, KeyOfProduct
       DEF Invalidate, Store!Invalidate, Store!StorageKeys, StorageKeys, Cached
  <2>2. NoPhantomStock'
    BY <1>12, <2>1, CacheShrinks DEF Invalidate, originVars
  <2>3. RequestsHoldPast'
    BY <1>12 DEF Invalidate, originVars, PhantomInv, RequestsHoldPast
  <2> QED
    BY <1>1, <1>12, <2>2, <2>3 DEF Invalidate
<1>13. ASSUME NEW r \in Products, ClientSet(r)
       PROVE  CatalogsHoldPast' /\ RequestsHoldPast' /\ NoPhantomStock'
  <2>1. PICK text \in ClientTexts, ttl \in ClientTTLs : Store!Set(DetailKey(r), text, ttl)
    BY <1>13 DEF ClientSet
  <2>2. ~IsPayload(text)
    BY DEF IsPayload
  <2>3. PICK expires, created :
            cache' = [cache EXCEPT ![DetailKey(r)] =
                        [value |-> text, expires |-> expires, created |-> created]]
    BY <2>1 DEF Store!Set
  <2>4. \A p \in Products : DetailKey(p) \in DOMAIN cache
    BY KeyOfProduct DEF PhantomInv, TypeOK
  <2>5. \A p \in Products : Cached(p)' = Cached(p) \/ ~IsPayload(Cached(p)'.value)
    BY <2>2, <2>3, <2>4 DEF Cached
  <2>6. NoPhantomStock'
    BY <1>13, <2>5, CacheShrinks DEF ClientSet, originVars
  <2>7. RequestsHoldPast'
    BY <1>13 DEF ClientSet, originVars, PhantomInv, RequestsHoldPast
  <2> QED
    BY <1>1, <1>13, <2>6, <2>7 DEF ClientSet
<1>14. CASE Restart
  <2>1. CatalogsHoldPast'
    <3>1. PICK done \in SeedingsBefore(catalog') : database' = Seeded(database, done)
      BY <1>14 DEF Restart
    <3>2. database \in [Products -> 0 .. MaxStock \cup {NoStock}]
      BY DEF PhantomInv, TypeOK
    <3>3. \A p \in Products : database'[p] \in {database[p], SeedStock[p]}
      BY <3>1, <3>2, StartSeeds
    <3>4. memory' = SeedStock /\ past' = past
      BY <1>14 DEF Restart
    <3> QED
      BY <3>3, <3>4 DEF PhantomInv, CatalogsHoldPast
  <2>2. RequestsHoldPast'
    BY <1>14 DEF Restart, Idle, RequestsHoldPast
  <2>3. NoPhantomStock'
    BY <1>14 DEF Restart, PhantomInv, NoPhantomStock, Cached
  <2> QED
    BY <2>1, <2>2, <2>3
<1>15. CASE Tick
  <2>1. \A p \in Products : Cached(p)' = Cached(p) \/ Cached(p)' = Missing
    BY <1>15, KeyOfProduct DEF Tick, Store!Pass, Store!StorageKeys, StorageKeys, Cached
  <2>2. NoPhantomStock'
    BY <1>15, <2>1, CacheShrinks DEF Tick, originVars
  <2>3. RequestsHoldPast'
    BY <1>15 DEF Tick, originVars, PhantomInv, RequestsHoldPast
  <2> QED
    BY <1>1, <1>15, <2>2, <2>3 DEF Tick
<1>16. CASE UNCHANGED vars
  BY <1>16 DEF vars, PhantomInv, CatalogsHoldPast, RequestsHoldPast, NoPhantomStock, Cached
<1> QED
  BY <1>3, <1>4, <1>5, <1>6, <1>7, <1>8, <1>9, <1>10, <1>11, <1>12, <1>13, <1>14, <1>15, <1>16
     DEF Next

\* A cached product shows a stock the origin has really had, for any number of
\* sellers, readers, crashes and database errors.
THEOREM NothingInvented == Spec => []NoPhantomStock
<1>1. Init => PhantomInv
  <2> SUFFICES ASSUME Init PROVE PhantomInv
    OBVIOUS
  <2>1. TypeOK
    BY InitType
  <2>2. CatalogsHoldPast
    <3>1. \A p \in Products : database[p] \in {NoStock, SeedStock[p]}
      BY DEF Init, Seeded
    <3> QED
      BY <3>1 DEF Init, CatalogsHoldPast
  <2>3. RequestsHoldPast
    BY DEF Init, Idle, RequestsHoldPast
  <2>4. NoPhantomStock
    BY KeyOfProduct DEF Init, NoPhantomStock, Cached
  <2> QED
    BY <2>1, <2>2, <2>3, <2>4 DEF PhantomInv
<1>2. PhantomInv /\ [Next]_vars => PhantomInv'
  BY NextType, NextPhantom DEF PhantomInv
<1>3. PhantomInv => NoPhantomStock
  BY DEF PhantomInv
<1> QED
  BY <1>1, <1>2, <1>3, PTL DEF Spec

------------------------------------------------------------------------------
(***************************************************************************)
(* One request at a time: the cache agrees with the database between       *)
(* requests, and no request takes a deadline from what is cached.  Both    *)
(* follow what the request carries from the step that read it to the one   *)
(* that writes it; nobody else gets in between.                            *)
(***************************************************************************)
OneAtATime == \A v, w \in Workers : v = w

\* What the cache shows of a product in a step that is not a Write: the same,
\* nothing any more, or a text of a client's that is no product.
Forgets(p) ==
    \/ Cached(p)' = Cached(p)
    \/ Cached(p)' = Missing
    \/ Cached(p)' # Missing /\ ~IsPayload(Cached(p)'.value)

------------------------------------------------------------------------------
(***************************************************************************)
(* What steps do to the cache.                                             *)
(***************************************************************************)

LEMMA EntryIsThere ==
  ASSUME NEW e \in Store!Entry
  PROVE  e # Missing
BY MissingAssumption DEF Store!Entry, Store!Values, Values

\* store.set under a product's key.
LEMMA SetShape ==
  ASSUME TypeOK, NEW p \in Products, NEW text \in Texts, NEW ttl \in Int \cup {Never},
         Store!Set(DetailKey(p), text, ttl)
  PROVE  /\ Cached(p)' # Missing
         /\ Cached(p)'.value = text
         /\ Cached(p)'.expires = IF ttl = Never THEN Never ELSE now + ttl
         /\ \A q \in Products \ {p} : Cached(q)' = Cached(q)
<1>1. \A q \in Products : DetailKey(q) \in StorageKeys /\ (DetailKey(q) = DetailKey(p) => q = p)
  BY KeyOfProduct DEF DetailKey
<1>2. /\ cache \in [StorageKeys -> Store!Entry \cup {Missing}]
      /\ cache' \in [StorageKeys -> Store!Entry \cup {Missing}]
  BY SetType DEF TypeOK
<1>3. PICK created :
         cache' = [cache EXCEPT ![DetailKey(p)] =
                     [value |-> text, expires |-> IF ttl = Never THEN Never ELSE now + ttl,
                      created |-> created]]
  BY DEF Store!Set
<1>4. Cached(p)' = [value |-> text, expires |-> IF ttl = Never THEN Never ELSE now + ttl,
                    created |-> created]
  BY <1>1, <1>2, <1>3 DEF Cached
<1>5. created \in Int
  <2>1. now \in Int
    BY StorefrontAssumption DEF TypeOK
  <2>2. \/ created = now
        \/ cache[DetailKey(p)] # Missing /\ created = cache[DetailKey(p)].created
    <3>1. cache'[DetailKey(p)].created =
             IF cache[DetailKey(p)] = Missing THEN now ELSE cache[DetailKey(p)].created
      BY <1>1, <1>2 DEF Store!Set
    <3> QED
      BY <1>4, <3>1 DEF Cached
  <2> QED
    BY <1>1, <1>2, <2>1, <2>2 DEF Store!Entry
<1>6. Cached(p)' \in Store!Entry
  <2>1. now \in Int /\ text \in Values
    BY StorefrontAssumption DEF TypeOK, Values
  <2> QED
    BY <1>4, <1>5, <2>1 DEF Store!Entry, Store!Values, Values
<1>7. \A q \in Products \ {p} : Cached(q)' = Cached(q)
  BY <1>1, <1>2, <1>3 DEF Cached
<1> QED
  BY <1>4, <1>6, <1>7, EntryIsThere

\* Nothing but a Write puts a product into the cache, and only time passes
\* otherwise.
LEMMA CacheStep ==
  ASSUME TypeOK, [Next]_vars
  PROVE  \/ \E w \in Workers : Write(w)
         \/ \A p \in Products : Forgets(p)
<1>1. ASSUME UNCHANGED cache
      PROVE  \A p \in Products : Forgets(p)
  BY <1>1 DEF Forgets, Cached
<1>2. ASSUME NEW w \in Workers, Discard(w)
      PROVE  \A p \in Products : Forgets(p)
  <2> DEFINE sk == DetailKey(request[w].product)
  <2>1. \/ UNCHANGED cache
        \/ cache' = [cache EXCEPT ![sk] = Missing]
    BY <1>2 DEF Discard, Store!Remove
  <2>2. \A p \in Products : DetailKey(p) \in DOMAIN cache
    BY KeyOfProduct DEF TypeOK
  <2> QED
    BY <2>1, <2>2 DEF Forgets, Cached
<1>3. ASSUME NEW r \in Products, Invalidate(r)
      PROVE  \A p \in Products : Forgets(p)
  BY <1>3, KeyOfProduct DEF Invalidate, Store!Invalidate, Store!StorageKeys, StorageKeys,
                            Forgets, Cached
<1>4. ASSUME NEW r \in Products, ClientSet(r)
      PROVE  \A p \in Products : Forgets(p)
  <2>1. PICK text \in ClientTexts, ttl \in ClientTTLs : Store!Set(DetailKey(r), text, ttl)
    BY <1>4 DEF ClientSet
  <2>2. text \in Texts /\ ~IsPayload(text) /\ ttl \in Int \cup {Never}
    BY StorefrontAssumption DEF IsPayload
  <2> QED
    BY <2>1, <2>2, SetShape DEF Forgets
<1>5. CASE Tick
  BY <1>5, KeyOfProduct DEF Tick, Store!Pass, Store!StorageKeys, StorageKeys, Forgets, Cached
<1>6. CASE UNCHANGED vars
  BY <1>1, <1>6 DEF vars
<1>7. CASE Restart
  BY <1>1, <1>7 DEF Restart
<1>8. ASSUME NEW w \in Workers,
             \/ Load(w) \/ Update(w) \/ Lookup(w) \/ Remaining(w) \/ DatabaseError(w)
             \/ \E p \in Products : ReadCached(w, p) \/ Reserve(w, p) \/ Purchase(w, p)
                                    \/ Restock(w, p)
      PROVE  \A p \in Products : Forgets(p)
  BY <1>1, <1>8 DEF Load, Update, Lookup, Remaining, DatabaseError, ReadCached, Reserve,
                    Purchase, Restock
<1>9. Writers \subseteq Workers
  BY StorefrontAssumption
<1> QED
  BY <1>2, <1>3, <1>4, <1>5, <1>6, <1>7, <1>8, <1>9 DEF Next

------------------------------------------------------------------------------
(***************************************************************************)
(* Cache and database agree.                                               *)
(***************************************************************************)

\* The steps after which a request writes its stock to the cache.
Writing == {"lookup", "remaining", "write"}

Refreshing(p) == \E w \in Workers : request[w].pc \in Writing /\ request[w].product = p

Agrees(p) ==
    Cached(p) # Missing /\ IsPayload(Cached(p).value) => StockIn(Cached(p).value) = database[p]

\* What a request is going to write is true, ...
Truthful ==
    \A w \in Workers : request[w].pc \in Writing => request[w].stock = database[request[w].product]

\* ... and the cache shows the truth of every product it is not going to write.
UpToDate == \A p \in Products : Refreshing(p) \/ Agrees(p)

AgreeInv == TypeOK /\ catalog = "database" /\ Truthful /\ UpToDate

\* The run storefront_serial.
Serial == OneAtATime /\ ~Interruptions /\ Catalogs = {"database"}

\* Steps of a request that reads: the origin stays, the cache only forgets.
LEMMA ReadingStep ==
  ASSUME AgreeInv, Serial, UNCHANGED originVars, NEW w \in Workers,
         request[w].pc \notin Writing, NEW next, Go(w, next),
         next.pc \in Writing => next.stock = database[next.product],
         \A p \in Products : Forgets(p)
  PROVE  Truthful' /\ UpToDate'
<1>1. \A v \in Workers : v = w /\ request'[v] = next
  BY DEF AgreeInv, TypeOK, Serial, OneAtATime, Go
<1>2. UNCHANGED database
  BY DEF originVars
<1>3. \A p \in Products : Agrees(p)
  BY <1>1 DEF AgreeInv, UpToDate, Refreshing
<1>4. \A p \in Products : Agrees(p)'
  BY <1>2, <1>3 DEF Agrees, Forgets
<1> QED
  BY <1>1, <1>2, <1>4 DEF Truthful, UpToDate

\* Steps that no request makes.
LEMMA OtherStep ==
  ASSUME AgreeInv, UNCHANGED <<originVars, request>>, \A p \in Products : Forgets(p)
  PROVE  Truthful' /\ UpToDate'
<1>1. UNCHANGED <<request, database>>
  BY DEF originVars
<1>2. \A p \in Products : Agrees(p) => Agrees(p)'
  BY <1>1 DEF Agrees, Forgets
<1> QED
  BY <1>1, <1>2 DEF AgreeInv, Truthful, UpToDate, Refreshing

LEMMA NextAgrees ==
  ASSUME AgreeInv, Serial, [Next]_vars
  PROVE  /\ catalog' = "database"
         /\ Truthful' /\ UpToDate'
<1> DEFINE Goal == Truthful' /\ UpToDate'
<1>0. TypeOK /\ catalog = "database" /\ ~Interruptions /\ Catalogs = {"database"}
      /\ \A v, w \in Workers : v = w
      /\ \A p : Stock(p) = database[p]
  BY DEF AgreeInv, Serial, OneAtATime, Stock
<1>1. catalog' = "database"
  BY <1>0 DEF Next, ReadCached, Reserve, Purchase, Restock, Discard, Load, Update, Lookup, Remaining,
              Write, DatabaseError, Invalidate, ClientSet, Restart, Tick, StoreStock, originVars, vars
<1>2. ASSUME NEW w \in Workers, NEW p \in Products, ReadCached(w, p)
      PROVE  Goal
  <2>1. PICK next : Go(w, next) /\ next.pc \notin Writing
    BY <1>2 DEF ReadCached, At, Writing
  <2>2. UNCHANGED originVars /\ request[w].pc \notin Writing /\ \A q \in Products : Forgets(q)
    BY <1>2 DEF ReadCached, Idle, Writing, Forgets, Cached
  <2> QED
    BY <2>1, <2>2, ReadingStep
<1>3. ASSUME NEW w \in Workers, NEW p \in Products, Reserve(w, p)
      PROVE  Goal
  <2>1. PICK ttl \in ReserveTTLs :
            Go(w, [At("write", p) EXCEPT !.stock = Stock(p), !.ttl = ttl])
    BY <1>3 DEF Reserve
  <2> DEFINE next == [At("write", p) EXCEPT !.stock = Stock(p), !.ttl = ttl]
  <2>2. Go(w, next) /\ next.stock = database[p] /\ next.product = p
    BY <1>0, <2>1 DEF At
  <2>3. UNCHANGED originVars /\ request[w].pc \notin Writing /\ \A q \in Products : Forgets(q)
    BY <1>3 DEF Reserve, Idle, Writing, Forgets, Cached
  <2> QED
    BY <2>2, <2>3, ReadingStep
<1>4. ASSUME NEW w \in Workers, NEW p \in Products, Purchase(w, p) \/ Restock(w, p)
      PROVE  Goal
  <2>1. PICK stock, change : Go(w, [At("update", p) EXCEPT !.stock = stock, !.change = change])
    BY <1>4 DEF Purchase, Restock
  <2> DEFINE next == [At("update", p) EXCEPT !.stock = stock, !.change = change]
  <2>2. Go(w, next) /\ next.pc \notin Writing
    BY <2>1 DEF At, Writing
  <2> HIDE DEF next
  <2>3. UNCHANGED <<originVars, cache>> /\ request[w] = Idle
    BY <1>4 DEF Purchase, Restock
  <2>4. request[w].pc \notin Writing /\ \A q \in Products : Forgets(q)
    BY <2>3 DEF Idle, Writing, Forgets, Cached
  <2> QED
    BY <2>2, <2>3, <2>4, ReadingStep
<1>5. ASSUME NEW w \in Workers, Discard(w), \A p \in Products : Forgets(p)
      PROVE  Goal
  <2>1. request[w] \in RequestsAtWork
    BY <1>0, <1>5, AtWork DEF Discard
  <2>2. PICK next : Go(w, next) /\ next.pc \notin Writing
    BY <1>5, <2>1 DEF Discard, RequestsAtWork, Writing
  <2>3. UNCHANGED originVars /\ request[w].pc \notin Writing
    BY <1>5 DEF Discard, Writing
  <2> QED
    BY <1>5, <2>2, <2>3, ReadingStep
<1>6. ASSUME NEW w \in Workers, Load(w)
      PROVE  Goal
  <2>1. request[w] \in RequestsAtWork
    BY <1>0, <1>6, AtWork DEF Load
  <2> DEFINE next == [request[w] EXCEPT !.pc = "lookup", !.stock = Stock(request[w].product)]
  <2>2. Go(w, next) /\ next.stock = database[next.product]
    BY <1>0, <1>6, <2>1 DEF Load, RequestsAtWork
  <2>3. UNCHANGED originVars /\ request[w].pc \notin Writing /\ \A q \in Products : Forgets(q)
    BY <1>6 DEF Load, Writing, Forgets, Cached
  <2> QED
    BY <2>2, <2>3, ReadingStep
<1>7. ASSUME NEW w \in Workers, Update(w)
      PROVE  Goal
  <2> DEFINE p == request[w].product
             next == [request[w] EXCEPT !.pc = "lookup", !.change = 0]
  <2>1. request[w] \in RequestsAtWork
    BY <1>0, <1>7, AtWork DEF Update
  <2>2. /\ next.stock = request[w].stock /\ next.product = p /\ next.pc = "lookup" /\ p \in Products
    BY <2>1 DEF RequestsAtWork
  <2>3. \A v \in Workers : v = w /\ request'[v] = next
    BY <1>0, <1>7 DEF Update, Go, TypeOK
  <2>4. database' = [database EXCEPT ![p] = request[w].stock]
    BY <1>0, <1>7 DEF Update, StoreStock, InDatabase
  <2>5. database'[p] = request[w].stock /\ \A q \in Products \ {p} : database'[q] = database[q]
    BY <1>0, <2>2, <2>4 DEF TypeOK
  <2>6. \A q \in Products : Agrees(q)
    <3>1. request[w].pc \notin Writing
      BY <1>7 DEF Update, Writing
    <3> QED
      BY <2>3, <3>1 DEF AgreeInv, UpToDate, Refreshing
  <2>7. \A q \in Products \ {p} : Agrees(q)'
    BY <1>7, <2>5, <2>6 DEF Update, Agrees, Cached
  <2> HIDE DEF next
  <2>8. Refreshing(p)'
    BY <2>2, <2>3 DEF Refreshing, Writing
  <2> QED
    BY <2>2, <2>3, <2>5, <2>7, <2>8 DEF Truthful, UpToDate
<1>8. ASSUME NEW w \in Workers, Lookup(w) \/ Remaining(w)
      PROVE  Goal
  <2>1. request[w] \in RequestsAtWork
    BY <1>0, <1>8, AtWork DEF Lookup, Remaining
  <2>2. PICK next : /\ Go(w, next) /\ next.pc \in Writing
                    /\ next.stock = request[w].stock /\ next.product = request[w].product
    <3> DEFINE write == [request[w] EXCEPT !.pc = "write"]
               keep(other) == [request[w] EXCEPT !.pc = "remaining", !.deadline = other]
               left(other) == [request[w] EXCEPT !.pc = "write", !.deadline = Never, !.ttl = other]
    <3>1. \/ Go(w, write)
          \/ \E other : Go(w, keep(other)) \/ Go(w, left(other))
      BY <1>8 DEF Lookup, Remaining
    <3>2. /\ write.stock = request[w].stock /\ write.product = request[w].product
          /\ write.pc \in Writing
      BY <2>1 DEF RequestsAtWork, Writing
    <3>3. \A other : /\ keep(other).stock = request[w].stock
                     /\ keep(other).product = request[w].product
                     /\ keep(other).pc \in Writing
      BY <2>1 DEF RequestsAtWork, Writing
    <3>4. \A other : /\ left(other).stock = request[w].stock
                     /\ left(other).product = request[w].product
                     /\ left(other).pc \in Writing
      BY <2>1 DEF RequestsAtWork, Writing
    <3> HIDE DEF write, keep, left
    <3> QED
      BY <3>1, <3>2, <3>3, <3>4
  <2>3. UNCHANGED <<originVars, cache>> /\ request[w].pc \in Writing
    BY <1>8 DEF Lookup, Remaining, Writing
  <2>4. \A v \in Workers : v = w /\ request'[v] = next
    BY <1>0, <2>2 DEF Go, TypeOK
  <2>5. UNCHANGED database
    BY <2>3 DEF originVars
  <2>6. \A q \in Products : /\ Refreshing(q) => Refreshing(q)'
                            /\ Agrees(q) => Agrees(q)'
    BY <2>2, <2>3, <2>4, <2>5 DEF Refreshing, Agrees, Cached
  <2> QED
    BY <2>2, <2>3, <2>4, <2>5, <2>6 DEF AgreeInv, Truthful, UpToDate
<1>9. ASSUME NEW w \in Workers, Write(w)
      PROVE  Goal
  <2>1. request[w] \in RequestsAtWork
    BY <1>0, <1>9, AtWork DEF Write
  <2>2. PICK p \in Products, n \in 0 .. MaxStock, ttl \in Int \cup {Never} :
            p = request[w].product /\ n = request[w].stock /\ ttl = request[w].ttl
    BY <2>1 DEF RequestsAtWork
  <2>3. n = database[p]
    BY <1>9, <2>2 DEF Write, AgreeInv, Truthful, Writing
  <2>4. Payload[n] \in Texts /\ Store!Set(DetailKey(p), Payload[n], ttl)
    BY <1>9, <2>2, StorefrontAssumption DEF Write
  <2>5. Cached(p)'.value = Payload[n] /\ \A q \in Products \ {p} : Cached(q)' = Cached(q)
    BY <1>0, <2>4, SetShape
  <2>6. UNCHANGED database
    BY <1>9 DEF Write, originVars
  <2>7. \A q \in Products \ {p} : ~Refreshing(q)
    BY <1>0, <2>2 DEF Refreshing
  <2>8. \A q \in Products : Agrees(q)'
    <3>1. StockIn(Payload[n]) = n
      BY StockOfPayload
    <3> QED
      BY <2>3, <2>5, <2>6, <2>7, <3>1 DEF AgreeInv, UpToDate, Agrees
  <2>9. \A v \in Workers : request'[v].pc = "idle"
    BY <1>0, <1>9 DEF Write, Done, Go, TypeOK, Idle
  <2> QED
    BY <2>8, <2>9 DEF Truthful, UpToDate, Writing
<1>10. ASSUME Restart
       PROVE  Goal
  <2>1. \A v \in Workers : request[v].pc = "idle" /\ request'[v].pc = "idle"
    BY <1>0, <1>10 DEF Restart, Idle
  <2>2. UNCHANGED database
    <3>1. PICK done \in SeedingsBefore(catalog') : database' = Seeded(database, done)
      BY <1>10 DEF Restart
    <3>2. database \in [Products -> 0 .. MaxStock \cup {NoStock}]
      BY <1>0 DEF TypeOK
    <3>3. \A p \in Products : database'[p] = database[p]
      BY <1>0, <3>1, <3>2, StartSeeds DEF TypeOK
    <3>4. database' \in [Products -> 0 .. MaxStock \cup {NoStock}]
      BY <3>1, <3>2, StartSeeds
    <3> QED
      BY <3>2, <3>3, <3>4
  <2>3. \A q \in Products : Agrees(q)'
    BY <1>10, <2>1, <2>2 DEF Restart, AgreeInv, UpToDate, Refreshing, Agrees, Cached, Writing
  <2>4. Truthful'
    BY <2>1 DEF Truthful, Writing
  <2> QED
    BY <2>3, <2>4 DEF UpToDate
<1>11. ASSUME \/ \E r \in Products : Invalidate(r) \/ ClientSet(r)
              \/ Tick
              \/ UNCHANGED vars
       PROVE  Goal
  <2>1. UNCHANGED <<originVars, request>>
    BY <1>11 DEF Invalidate, ClientSet, Tick, vars, originVars
  <2>2. (\A p \in Products : Forgets(p)) \/ (\E w \in Workers : Write(w))
    BY <1>0, CacheStep
  <2> QED
    BY <1>9, <2>1, <2>2, OtherStep
<1>12. ASSUME NEW w \in Workers, Discard(w)
       PROVE  Goal
  <2>1. (\A p \in Products : Forgets(p)) \/ (\E v \in Workers : Write(v))
    BY <1>0, CacheStep
  <2> QED
    BY <1>5, <1>9, <1>12, <2>1
<1>13. \A w \in Workers : ~DatabaseError(w)
  BY <1>0 DEF DatabaseError
<1>14. Writers \subseteq Workers
  BY StorefrontAssumption
<1> HIDE DEF Goal
<1>15. ASSUME \E w \in Workers, p \in Products : ReadCached(w, p) \/ Reserve(w, p)
       PROVE  Goal
  BY <1>2, <1>3, <1>15
<1>16. ASSUME \E w \in Writers, p \in Products : Purchase(w, p) \/ Restock(w, p)
       PROVE  Goal
  BY <1>4, <1>14, <1>16
<1>17. ASSUME \E w \in Workers : \/ Discard(w) \/ Load(w) \/ Update(w) \/ Lookup(w)
                                \/ Remaining(w) \/ Write(w) \/ DatabaseError(w)
       PROVE  Goal
  BY <1>6, <1>7, <1>8, <1>9, <1>12, <1>13, <1>17
<1>18. Goal
  BY <1>10, <1>11, <1>15, <1>16, <1>17 DEF Next
<1> QED
  BY <1>1, <1>18 DEF Goal

\* With one request at a time, none cut short, a cached and a direct read of a
\* product show the same stock between requests, for any number of products and
\* whatever other clients put into the cache (service.py:199-228).
THEOREM OneAtATimeAgrees ==
    ASSUME Serial
    PROVE  Spec => []CacheAgrees
<1>1. Init => AgreeInv
  <2> SUFFICES ASSUME Init PROVE AgreeInv
    OBVIOUS
  <2>1. TypeOK /\ catalog = "database"
    BY InitType DEF Init, Serial
  <2>2. \A w \in Workers : request[w].pc = "idle"
    BY DEF Init, Idle
  <2>3. \A p \in Products : Cached(p) = Missing
    BY KeyOfProduct DEF Init, Cached
  <2> QED
    BY <2>1, <2>2, <2>3 DEF AgreeInv, Truthful, UpToDate, Writing, Agrees
<1>2. AgreeInv /\ [Next]_vars => AgreeInv'
  <2> SUFFICES ASSUME AgreeInv, [Next]_vars PROVE AgreeInv'
    OBVIOUS
  <2>1. TypeOK'
    BY NextType DEF AgreeInv
  <2> QED
    BY <2>1, NextAgrees DEF AgreeInv
<1>3. AgreeInv => CacheAgrees
  BY DEF AgreeInv, UpToDate, CacheAgrees, Refreshing, Agrees, Writing, Idle, Stock
<1> QED
  BY <1>1, <1>2, <1>3, PTL DEF Spec

------------------------------------------------------------------------------
(***************************************************************************)
(* Deadlines are kept.                                                     *)
(***************************************************************************)

\* If p is cached it has no deadline; of a client's text nothing is said.
Permanent(p) ==
    Cached(p) # Missing /\ IsPayload(Cached(p).value) => Cached(p).expires = Never

\* The cache shows no product that has expired.
Unexpired == \A p \in Products : Permanent(p) \/ now < Cached(p).expires

\* A request that is going to write without a deadline has seen that there is
\* none to keep, and the one it carries is that of the cache, if it has one.
Carries(w) ==
    /\ request[w].pc \in Steps \ {"remaining", "write"} => request[w].ttl = Never
    /\ request[w].pc = "remaining" =>
          \/ Permanent(request[w].product)
          \/ Cached(request[w].product).expires = request[w].deadline
    /\ request[w].pc = "write" =>
          IF request[w].ttl = Never THEN Permanent(request[w].product) ELSE request[w].ttl > 0

DeadlineInv == TypeOK /\ Unexpired /\ \A w \in Workers : Carries(w)

LEMMA DeadlineType ==
  ASSUME TypeOK, NEW p \in Products, ~Permanent(p)
  PROVE  Cached(p).expires \in Int
BY KeyOfProduct DEF TypeOK, Permanent, Cached, Store!Entry

\* A request goes to a step that carries what it should, and the cache stays.
LEMMA CarryingStep ==
  ASSUME DeadlineInv, OneAtATime, NEW w \in Workers, NEW next, Go(w, next), UNCHANGED <<cache, now>>,
         next.pc \in Steps \ {"remaining", "write"} => next.ttl = Never,
         next.pc = "remaining" => \/ Permanent(next.product)
                                  \/ Cached(next.product).expires = next.deadline,
         next.pc = "write" => IF next.ttl = Never THEN Permanent(next.product) ELSE next.ttl > 0
  PROVE  Unexpired' /\ \A v \in Workers : Carries(v)'
<1>1. \A v \in Workers : v = w /\ request'[v] = next
  BY DEF DeadlineInv, TypeOK, OneAtATime, Go
<1>2. Unexpired'
  BY DEF DeadlineInv, Unexpired, Permanent, Cached
<1> QED
  BY <1>1, <1>2 DEF Carries, Permanent, Cached

\* The request stays, or is done, and the cache forgets.
LEMMA ForgettingStep ==
  ASSUME DeadlineInv, \A p \in Products : Forgets(p),
         \A w \in Workers : \/ request'[w] = request[w]
                            \/ request'[w].pc = "idle"
                            \/ request'[w].pc \in Steps \ {"remaining", "write"} /\ request'[w].ttl = Never
  PROVE  /\ \A w \in Workers : Carries(w)'
         /\ UNCHANGED now => Unexpired'
<1>1. \A p \in Products : /\ Permanent(p) => Permanent(p)'
                          /\ Permanent(p)' \/ Cached(p)' = Cached(p)
  BY DEF Forgets, Permanent
<1>2. UNCHANGED now => Unexpired'
  BY <1>1 DEF DeadlineInv, Unexpired
<1>3. ASSUME NEW w \in Workers, request'[w] = request[w], request[w].pc \in {"remaining", "write"}
      PROVE  request[w].product \in Products
  <2>1. request[w] \in RequestsAtWork
    BY <1>3, AtWork DEF DeadlineInv
  <2> QED
    BY <2>1 DEF RequestsAtWork
<1>4. ASSUME NEW w \in Workers
      PROVE  Carries(w)'
  <2>1. CASE request'[w] # request[w]
    BY <2>1 DEF Carries, Steps
  <2>2. CASE request'[w] = request[w] /\ request[w].pc \in {"remaining", "write"}
    <3>1. PICK p \in Products : p = request[w].product
      BY <1>3, <2>2
    <3>2. /\ Permanent(p) => Permanent(p)'
          /\ Permanent(p)' \/ Cached(p)' = Cached(p)
      BY <1>1
    <3>3. Carries(w)
      BY DEF DeadlineInv
    <3> QED
      BY <2>2, <3>1, <3>2, <3>3 DEF Carries, Permanent, Cached
  <2>3. CASE request'[w] = request[w] /\ request[w].pc \notin {"remaining", "write"}
    BY <2>3 DEF DeadlineInv, Carries
  <2> QED
    BY <2>1, <2>2, <2>3
<1> QED
  BY <1>2, <1>4

LEMMA NextDeadlines ==
  ASSUME DeadlineInv, OneAtATime, [Next]_vars
  PROVE  Unexpired' /\ \A w \in Workers : Carries(w)'
<1> DEFINE Goal == Unexpired' /\ \A w \in Workers : Carries(w)'
<1>0. TypeOK /\ \A v, w \in Workers : v = w
  BY DEF DeadlineInv, OneAtATime
<1>1. ASSUME NEW w \in Workers, Write(w)
      PROVE  Goal
  <2>1. request[w] \in RequestsAtWork
    BY <1>0, <1>1, AtWork DEF Write
  <2>2. PICK p \in Products, n \in 0 .. MaxStock, ttl \in Int \cup {Never} :
            p = request[w].product /\ n = request[w].stock /\ ttl = request[w].ttl
    BY <2>1 DEF RequestsAtWork
  <2>3. Payload[n] \in Texts /\ Store!Set(DetailKey(p), Payload[n], ttl)
    BY <1>1, <2>2, StorefrontAssumption DEF Write
  <2>4. /\ Cached(p)'.expires = IF ttl = Never THEN Never ELSE now + ttl
        /\ \A q \in Products \ {p} : Cached(q)' = Cached(q)
        /\ now' = now /\ now \in Int
    BY <1>0, <2>3, SetShape, SetType, StorefrontAssumption DEF TypeOK
  <2>5. ttl # Never => ttl > 0
    BY <1>1, <2>2 DEF Write, DeadlineInv, Carries
  <2>6. ASSUME NEW q \in Products
        PROVE  Permanent(q)' \/ now' < Cached(q)'.expires
    <3>1. CASE q = p
      BY <2>4, <2>5, <3>1 DEF Permanent
    <3>2. CASE q # p
      BY <2>4, <3>2 DEF DeadlineInv, Unexpired, Permanent
    <3> QED
      BY <3>1, <3>2
  <2>7. \A v \in Workers : request'[v].pc = "idle"
    BY <1>0, <1>1 DEF Write, Done, Go, TypeOK, Idle
  <2> QED
    BY <2>6, <2>7 DEF Unexpired, Carries, Steps
<1>2. ASSUME NEW w \in Workers, NEW p \in Products, Reserve(w, p)
      PROVE  Goal
  <2>1. PICK ttl \in ReserveTTLs :
            Go(w, [At("write", p) EXCEPT !.stock = Stock(p), !.ttl = ttl])
    BY <1>2 DEF Reserve
  <2> DEFINE next == [At("write", p) EXCEPT !.stock = Stock(p), !.ttl = ttl]
  <2>2. Go(w, next) /\ next.pc = "write" /\ next.ttl = ttl
    BY <2>1 DEF At
  <2>3. ttl # Never /\ ttl > 0
    BY StorefrontAssumption, NeverAssumption
  <2>4. UNCHANGED <<cache, now>>
    BY <1>2 DEF Reserve
  <2> QED
    BY <2>2, <2>3, <2>4, CarryingStep
<1>3. ASSUME NEW w \in Workers, NEW p \in Products,
             ReadCached(w, p) \/ Purchase(w, p) \/ Restock(w, p)
      PROVE  Goal
  <2>1. UNCHANGED <<cache, now>>
    BY <1>3 DEF ReadCached, Purchase, Restock
  <2>2. \A step, stock, change :
            /\ At(step, p).pc = step /\ At(step, p).ttl = Never
            /\ [At(step, p) EXCEPT !.stock = stock, !.change = change].pc = step
            /\ [At(step, p) EXCEPT !.stock = stock, !.change = change].ttl = Never
    BY DEF At
  <2>3. PICK next : Go(w, next) /\ next.ttl = Never /\ next.pc \in {"load", "discard", "update"}
    <3>1. CASE ReadCached(w, p)
      BY <2>2, <3>1 DEF ReadCached
    <3>2. CASE Purchase(w, p) \/ Restock(w, p)
      <4>1. PICK stock, change :
                Go(w, [At("update", p) EXCEPT !.stock = stock, !.change = change])
        BY <3>2 DEF Purchase, Restock
      <4> DEFINE next == [At("update", p) EXCEPT !.stock = stock, !.change = change]
      <4>2. next.ttl = Never /\ next.pc = "update"
        BY <2>2
      <4> QED
        BY <4>1, <4>2
    <3> QED
      BY <1>3, <3>1, <3>2
  <2> QED
    BY <2>1, <2>3, CarryingStep
<1>4. ASSUME NEW w \in Workers, Load(w) \/ Update(w)
      PROVE  Goal
  <2>1. request[w] \in RequestsAtWork /\ request[w].ttl = Never
    <3>1. request[w] \in RequestsAtWork
      BY <1>0, <1>4, AtWork DEF Load, Update
    <3> QED
      BY <1>4, <3>1 DEF Load, Update, DeadlineInv, Carries, Steps
  <2>2. PICK next : Go(w, next) /\ next.ttl = Never /\ next.pc = "lookup"
    <3>1. \A stock : /\ [request[w] EXCEPT !.pc = "lookup", !.stock = stock].pc = "lookup"
                     /\ [request[w] EXCEPT !.pc = "lookup", !.stock = stock].ttl = Never
      BY <2>1 DEF RequestsAtWork
    <3>2. /\ [request[w] EXCEPT !.pc = "lookup", !.change = 0].pc = "lookup"
          /\ [request[w] EXCEPT !.pc = "lookup", !.change = 0].ttl = Never
      BY <2>1 DEF RequestsAtWork
    <3> QED
      BY <1>4, <3>1, <3>2 DEF Load, Update
  <2>3. UNCHANGED <<cache, now>>
    BY <1>4 DEF Load, Update
  <2> QED
    BY <2>2, <2>3, CarryingStep
<1>5. ASSUME NEW w \in Workers, Lookup(w)
      PROVE  Goal
  <2> DEFINE r == request[w]
             entry == Cached(r.product)
             keep == [r EXCEPT !.pc = "remaining", !.deadline = entry.expires]
             write == [r EXCEPT !.pc = "write"]
  <2>1. r \in RequestsAtWork /\ r.ttl = Never
    <3>1. r \in RequestsAtWork
      BY <1>0, <1>5, AtWork DEF Lookup
    <3> QED
      BY <1>5, <3>1 DEF Lookup, DeadlineInv, Carries, Steps
  <2>2. UNCHANGED <<cache, now>>
    BY <1>5 DEF Lookup
  <2>3. CASE entry # Missing /\ entry.expires # Never
    <3>1. Go(w, keep)
      BY <1>5, <2>3 DEF Lookup
    <3>2. keep.pc = "remaining" /\ keep.product = r.product /\ keep.deadline = entry.expires
      BY <2>1 DEF RequestsAtWork
    <3> QED
      BY <2>2, <3>1, <3>2, CarryingStep
  <2>4. CASE ~(entry # Missing /\ entry.expires # Never)
    <3>1. Go(w, write)
      BY <1>5, <2>4 DEF Lookup
    <3>2. write.pc = "write" /\ write.product = r.product /\ write.ttl = Never
      BY <2>1 DEF RequestsAtWork
    <3>3. Permanent(write.product)
      BY <2>4, <3>2 DEF Permanent
    <3> QED
      BY <2>2, <3>1, <3>2, <3>3, CarryingStep
  <2> QED
    BY <2>3, <2>4
<1>6. ASSUME NEW w \in Workers, Remaining(w)
      PROVE  Goal
  <2> DEFINE r == request[w]
             left == r.deadline - now
             next == [r EXCEPT !.pc = "write", !.deadline = Never,
                               !.ttl = IF left > 0 THEN left ELSE Never]
  <2>1. r \in RequestsAtWork /\ r.deadline \in Int /\ now \in Int /\ r.product \in Products
    <3>1. r \in RequestsAtWork /\ r.deadline # Never
      BY <1>0, <1>6, AtWork DEF Remaining, TypeOK
    <3> QED
      BY <1>0, <3>1, StorefrontAssumption DEF RequestsAtWork, TypeOK
  <2>2. UNCHANGED <<cache, now>> /\ Go(w, next)
    BY <1>6 DEF Remaining
  <2>3. /\ next.pc = "write" /\ next.product = r.product
        /\ next.ttl = IF left > 0 THEN left ELSE Never
    BY <2>1 DEF RequestsAtWork
  <2>4. left <= 0 => Permanent(r.product)
    <3>1. Permanent(r.product) \/ Cached(r.product).expires = r.deadline
      BY <1>6 DEF Remaining, DeadlineInv, Carries
    <3>2. Permanent(r.product) \/ now < Cached(r.product).expires
      BY <2>1 DEF DeadlineInv, Unexpired
    <3> QED
      BY <2>1, <3>1, <3>2
  <2>5. left \in Int /\ (left > 0 => left # Never)
    BY <2>1, NeverAssumption
  <2> HIDE DEF next, left, r
  <2>6. IF next.ttl = Never THEN Permanent(next.product) ELSE next.ttl > 0
    BY <2>3, <2>4, <2>5
  <2> QED
    BY <2>2, <2>3, <2>6, CarryingStep
<1>7. ASSUME \A p \in Products : Forgets(p), UNCHANGED now,
             \/ \E w \in Workers : Discard(w)
             \/ \E w \in Workers : DatabaseError(w)
             \/ \E p \in Products : Invalidate(p) \/ ClientSet(p)
             \/ Restart
             \/ UNCHANGED vars
      PROVE  Goal
  <2>1. ASSUME NEW w \in Workers, Discard(w)
        PROVE  request'[w].pc \in Steps \ {"remaining", "write"} /\ request'[w].ttl = Never
    <3>1. request[w] \in RequestsAtWork
      BY <1>0, <2>1, AtWork DEF Discard
    <3>2. request[w].ttl = Never
      BY <2>1 DEF Discard, DeadlineInv, Carries, Steps
    <3>3. request'[w] = [request[w] EXCEPT !.pc = "load"]
      BY <1>0, <2>1 DEF Discard, Go, TypeOK
    <3> QED
      BY <3>1, <3>2, <3>3 DEF RequestsAtWork, Steps
  <2>2. ASSUME NEW w \in Workers, DatabaseError(w)
        PROVE  request'[w].pc = "idle"
    BY <1>0, <2>2 DEF DatabaseError, Done, Go, TypeOK, Idle
  <2>3. Restart => \A w \in Workers : request'[w].pc = "idle"
    BY DEF Restart, Idle
  <2>4. \A w \in Workers : \/ request'[w] = request[w]
                           \/ request'[w].pc = "idle"
                           \/ request'[w].pc \in Steps \ {"remaining", "write"} /\ request'[w].ttl = Never
    BY <1>0, <1>7, <2>1, <2>2, <2>3 DEF Invalidate, ClientSet, vars
  <2> QED
    BY <1>7, <2>4, ForgettingStep
<1>8. ASSUME Tick, \A p \in Products : Forgets(p)
      PROVE  Goal
  <2>1. \A w \in Workers : Carries(w)'
    <3>1. request' = request
      BY <1>8 DEF Tick
    <3> QED
      BY <1>8, <3>1, ForgettingStep
  <2>2. now \in Int /\ now' = now + 1
    BY <1>0, <1>8, StorefrontAssumption DEF Tick, Store!Pass, TypeOK
  <2>3. ASSUME NEW p \in Products, ~Permanent(p)'
        PROVE  now' < Cached(p)'.expires
    <3> DEFINE sk == DetailKey(p)
    <3>1. cache'[sk] = IF cache[sk] # Missing /\ Store!IsExpired(cache[sk], now')
                       THEN Missing ELSE cache[sk]
      BY <1>8, KeyOfProduct DEF Tick, Store!Pass, Store!StorageKeys, StorageKeys
    <3>2. /\ cache'[sk] = cache[sk] /\ cache[sk] # Missing
          /\ IsPayload(cache[sk].value) /\ cache[sk].expires # Never
      BY <2>3, <3>1 DEF Permanent, Cached
    <3>3. ~(cache[sk].expires <= now')
      BY <3>1, <3>2 DEF Store!IsExpired
    <3>4. cache[sk].expires \in Int
      BY <1>0, <3>2, DeadlineType DEF Permanent, Cached
    <3> QED
      BY <2>2, <3>2, <3>3, <3>4 DEF Cached
  <2> QED
    BY <2>1, <2>3 DEF Unexpired
<1>9. (\A p \in Products : Forgets(p)) \/ \E w \in Workers : Write(w)
  BY <1>0, CacheStep
<1>10. ASSUME \/ \E w \in Workers : Discard(w) \/ DatabaseError(w)
              \/ \E p \in Products : Invalidate(p) \/ ClientSet(p)
              \/ Restart
              \/ UNCHANGED vars
       PROVE  Goal
  <2>1. UNCHANGED now
    BY <1>10 DEF Discard, DatabaseError, Invalidate, ClientSet, Restart, vars,
                 Store!Remove, Store!Invalidate, Store!Set
  <2> HIDE DEF Goal
  <2> QED
    BY <1>1, <1>7, <1>9, <1>10, <2>1
<1>11. Writers \subseteq Workers
  BY StorefrontAssumption
<1> HIDE DEF Goal
<1>12. ASSUME \/ \E w \in Workers, p \in Products : ReadCached(w, p) \/ Reserve(w, p)
              \/ \E w \in Writers, p \in Products : Purchase(w, p) \/ Restock(w, p)
       PROVE  Goal
  BY <1>2, <1>3, <1>11, <1>12
<1>13. ASSUME \E w \in Workers : \/ Discard(w) \/ Load(w) \/ Update(w) \/ Lookup(w)
                                \/ Remaining(w) \/ Write(w) \/ DatabaseError(w)
       PROVE  Goal
  BY <1>1, <1>4, <1>5, <1>6, <1>10, <1>13
<1>14. Goal
  BY <1>1, <1>8, <1>9, <1>10, <1>12, <1>13 DEF Next
<1> QED
  BY <1>14 DEF Goal

\* A cached product keeps its deadline through the write of a request.
LEMMA DeadlineStep ==
  ASSUME DeadlineInv, [Next]_vars,
         NEW p \in Products,
         Cached(p) # Missing, IsPayload(Cached(p).value), Cached(p).expires # Never,
         Cached(p)' # Missing, IsPayload(Cached(p)'.value)
  PROVE  Cached(p)'.expires # Never
<1>1. CASE Forgets(p)
  BY <1>1 DEF Forgets
<1>2. ASSUME NEW w \in Workers, Write(w)
      PROVE  Cached(p)'.expires # Never
  <2>1. request[w] \in RequestsAtWork
    BY <1>2, AtWork DEF Write, DeadlineInv
  <2>2. PICK q \in Products, n \in 0 .. MaxStock, ttl \in Int \cup {Never} :
            q = request[w].product /\ n = request[w].stock /\ ttl = request[w].ttl
    BY <2>1 DEF RequestsAtWork
  <2>3. Payload[n] \in Texts /\ Store!Set(DetailKey(q), Payload[n], ttl)
    BY <1>2, <2>2, StorefrontAssumption DEF Write
  <2>4. /\ Cached(q)'.expires = IF ttl = Never THEN Never ELSE now + ttl
        /\ \A other \in Products \ {q} : Cached(other)' = Cached(other)
    BY <2>3, SetShape DEF DeadlineInv
  <2>5. CASE p = q
    <3>1. ttl # Never
      BY <1>2, <2>2, <2>5 DEF Write, DeadlineInv, Carries, Permanent
    <3>2. now \in Int
      BY StorefrontAssumption DEF DeadlineInv, TypeOK
    <3> QED
      BY <2>2, <2>4, <2>5, <3>1, <3>2, NeverAssumption
  <2>6. CASE p # q
    BY <2>4, <2>6
  <2> QED
    BY <2>5, <2>6
<1> QED
  BY <1>1, <1>2, CacheStep DEF DeadlineInv

\* With one request at a time no sale, restock or cached read makes a cached
\* product permanent that is to expire, whatever errors and restarts cut the
\* requests short, whatever clients store, with a deadline or without, and
\* however the clock moves between a request's reading of the deadline and its
\* write (service.py:207-228).
THEOREM OneAtATimeKeepsDeadlines ==
    ASSUME OneAtATime
    PROVE  Spec => DeadlineKept
<1>1. Init => DeadlineInv
  <2> SUFFICES ASSUME Init PROVE DeadlineInv
    OBVIOUS
  <2>1. TypeOK
    BY InitType
  <2>2. \A w \in Workers : request[w].pc = "idle"
    BY DEF Init, Idle
  <2>3. \A p \in Products : Cached(p) = Missing
    BY KeyOfProduct DEF Init, Cached
  <2> QED
    BY <2>1, <2>2, <2>3 DEF DeadlineInv, Carries, Unexpired, Permanent, Steps
<1>2. DeadlineInv /\ [Next]_vars => DeadlineInv'
  BY NextType, NextDeadlines DEF DeadlineInv
<1>3. DeadlineInv /\ [Next]_vars =>
         [\A p \in Products :
             /\ Cached(p) # Missing /\ IsPayload(Cached(p).value) /\ Cached(p).expires # Never
             /\ Cached(p)' # Missing /\ IsPayload(Cached(p).value')
             => Cached(p).expires' # Never]_vars
  BY DeadlineStep
<1> QED
  BY <1>1, <1>2, <1>3, PTL DEF Spec, DeadlineKept
==============================================================================
