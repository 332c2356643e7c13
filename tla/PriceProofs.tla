----------------------------- MODULE PriceProofs -----------------------------
(***************************************************************************)
(* Proofs about PriceProviders, for every set of types and menus: what a   *)
(* check at the start of a process is worth once the caches, the list and  *)
(* the kit's records have moved on (NeverFree), what the pinned table of   *)
(* sizes is worth (CapacityKnown), and that no step of a serving process   *)
(* loses the last price it was told (LastKnownKept).                       *)
(***************************************************************************)
EXTENDS PriceProviders, TLAPS

\* The providers NeverFree is about, and the offerings it is about.
Charging == {"aws", "azure", "gcp", "oracle-cloud", "ovhcloud"}
Billed(o) == o[2] # "bare-metal" /\ ~(o[2] = "spot" /\ cloud = "aws")

Quotes == {NoQuote, 0, 10, 20}
SpotQuotes == {NoQuote, 1, 2}
Loops == IF cloud \in {"aws", "azure"} THEN {"spot", "onDemand"} ELSE {"prices"}
Refresh == [stage : {"idle", "asking", "answered"}, todo : SUBSET Types, got : [Types -> Quotes]]
Pinned == [price : [Types -> {NoQuote, TablePrice}], override : [Types -> {NoQuote, OverridePrice}],
           sizes : SUBSET Types]
Listings == [listed : BOOLEAN, price : [Types -> Quotes]]
Records == [price : Int, sized : BOOLEAN]

PriceType ==
    /\ cloud \in {"aws", "azure", "gcp", "oracle-cloud", "hetzner", "latitude",
                  "digitalocean", "scaleway", "ovhcloud", "upcloud"}
    /\ offered \in Menus
    /\ quote \in [Types -> Quotes] /\ spotQuote \in [Types -> SpotQuotes]
    /\ pinned \in Pinned
    /\ live \in [Types -> Quotes] /\ liveSpot \in [Types -> SpotQuotes]
    /\ listing \in Listings
    /\ loop \in [Loops -> Refresh]
    /\ published \in [UNION Menus -> Records]
    /\ reading \in [taken : BOOLEAN, records : {<<>>} \union [offered -> Records]]
    /\ reading.taken => reading.records \in [offered -> Records]

\* Only OVHcloud and UpCloud take overrides; a quote of 0 enters no charging cache,
\* and OVHcloud drops it from the answer already.
NoZeros ==
    /\ cloud \notin {"ovhcloud", "upcloud"} => \A t \in Types : pinned.override[t] = NoQuote
    /\ cloud \in Charging => \A t \in Types : live[t] # 0
    /\ cloud = "ovhcloud" => \A t \in Types : loop["prices"].got[t] # 0

\* Past the check, every billed offering has a price that only a restart can take away.
PastGate == \/ stage \in {"sizes", "seed", "serving"}
            \/ stage = "warm" /\ cloud \in {"azure", "gcp", "ovhcloud"}
Secured(o) == \/ live[o[1]] # NoQuote
              \/ pinned.price[o[1]] # NoQuote
              \/ pinned.override[o[1]] # NoQuote
GateHolds == cloud \in Charging /\ PastGate => \A o \in offered : Billed(o) => Secured(o)

\* The kit's record of a billed offering was never written, or has a price, also when
\* it is of an earlier life; so has the answer of a Describe on its way to the kit.
FairRecords ==
    cloud \in Charging => \A o \in offered : Billed(o) =>
        /\ published[o].price = NoQuote \/ published[o].price > 0
        /\ stage = "serving" => published[o].price # NoQuote
        /\ reading.taken => reading.records[o].price > 0

\* The pinned sizes stay known, and a record once written has them.
SizedRecords ==
    /\ pinned.sizes \subseteq sizes
    /\ \A o \in offered : o[1] \in pinned.sizes =>
          /\ stage = "serving" \/ published[o].price # NoQuote => published[o].sized
          /\ reading.taken => reading.records[o].sized

PriceInv == PriceType /\ NoZeros /\ GateHolds /\ FairRecords /\ SizedRecords

\* No cache loses a quote.
CachesFill == \A t \in Types : /\ live[t] # NoQuote => live'[t] # NoQuote
                               /\ liveSpot[t] # NoQuote => liveSpot'[t] # NoQuote

\* The records a Describe may return.
FairAnswer(records) ==
    /\ records \in [offered -> Records]
    /\ cloud \in Charging => \A o \in offered : Billed(o) => records[o].price > 0
    /\ \A o \in offered : records[o].sized = (o[1] \in sizes)

-----------------------------------------------------------------------------
(* The kinds of steps the providers share. *)

LEMMA OfferedHaveTypes ==
    ASSUME PriceType
    PROVE  /\ \A o \in offered : o[1] \in Types /\ o \in UNION Menus /\ o[1] \in AllTypes
           /\ AllTypes \subseteq Types
  BY MenusAssumption DEF PriceType, AllTypes, Sold

\* The cloud changes a quote.
LEMMA CloudMoves ==
    ASSUME PriceInv, UNCHANGED cloud, Requote
    PROVE  PriceInv' /\ CachesFill
  <1>1. quote' \in [Types -> Quotes] /\ spotQuote' \in [Types -> SpotQuotes]
    <2>1. AllTypes \subseteq Types
      BY OfferedHaveTypes DEF PriceInv
    <2>2. quote \in [Types -> Quotes] /\ spotQuote \in [Types -> SpotQuotes]
      BY DEF PriceInv, PriceType
    <2>3. CASE \E t \in AllTypes, q \in {NoQuote, 0, 20} :
                  quote' = [quote EXCEPT ![t] = q] /\ UNCHANGED spotQuote
      BY <2>1, <2>2, <2>3 DEF Quotes, NoQuote
    <2>4. CASE \E t \in {u \in AllTypes : spotQuote[u] # NoQuote} :
                  spotQuote' = [spotQuote EXCEPT ![t] = 2] /\ UNCHANGED quote
      BY <2>1, <2>2, <2>4 DEF SpotQuotes, NoQuote
    <2> QED
      BY <2>3, <2>4 DEF Requote
  <1>2. UNCHANGED <<startVars, cacheVars, kitVars, cloud>>
    BY DEF Requote
  <1>3. PriceType'
    BY <1>1, <1>2 DEF PriceInv, PriceType, Loops, startVars, cacheVars, kitVars
  <1>4. NoZeros' /\ GateHolds' /\ FairRecords' /\ SizedRecords'
    BY <1>2 DEF PriceInv, NoZeros, GateHolds, PastGate, Secured, FairRecords, SizedRecords, Billed,
                startVars, cacheVars, kitVars
  <1> QED
    BY <1>2, <1>3, <1>4 DEF PriceInv, CachesFill, cacheVars

\* A refresh asks, is answered, writes a cache, or is begun anew.
LEMMA RefreshMoves ==
    ASSUME PriceInv, UNCHANGED <<cloudVars, startVars, sizes, kitVars, cloud>>,
           live' \in [Types -> Quotes], liveSpot' \in [Types -> SpotQuotes],
           listing' \in Listings, loop' \in [Loops -> Refresh], CachesFill,
           cloud \in Charging => \A t \in Types : live'[t] # 0,
           cloud = "ovhcloud" => \A t \in Types : loop'["prices"].got[t] # 0
    PROVE  PriceInv'
  <1>1. PriceType'
    BY DEF PriceInv, PriceType, Loops, cloudVars, startVars, kitVars
  <1>2. NoZeros'
    BY DEF PriceInv, NoZeros, startVars
  <1>3. GateHolds'
    <2>1. \A o \in offered : o[1] \in Types
      BY OfferedHaveTypes DEF PriceInv
    <2> QED
      BY <2>1 DEF PriceInv, GateHolds, PastGate, Secured, Billed, CachesFill, startVars
  <1>4. FairRecords' /\ SizedRecords'
    BY DEF PriceInv, FairRecords, SizedRecords, Billed, startVars, kitVars
  <1> QED
    BY <1>1, <1>2, <1>3, <1>4 DEF PriceInv

\* main takes a step before it serves: what it checked holds where it goes.
LEMMA StageMoves ==
    ASSUME PriceInv, UNCHANGED <<cloudVars, offered, pinned, live, liveSpot, loop, kitVars, cloud>>,
           stage' # "serving", sizes \subseteq sizes', listing' \in Listings,
           cloud \in Charging /\ PastGate' => \A o \in offered : Billed(o) => Secured(o)
    PROVE  PriceInv' /\ CachesFill
  <1>1. PriceType'
    BY DEF PriceInv, PriceType, Loops, cloudVars, kitVars
  <1>2. NoZeros' /\ GateHolds'
    BY DEF PriceInv, NoZeros, GateHolds, Secured, Billed
  <1>3. FairRecords' /\ SizedRecords'
    BY DEF PriceInv, FairRecords, SizedRecords, Billed, kitVars
  <1> QED
    BY <1>1, <1>2, <1>3 DEF PriceInv, CachesFill

\* The process dies, or is started again.
LEMMA LifeEnds ==
    ASSUME PriceInv, UNCHANGED cloud, NEW first, NEW wanted,
           Died(first, wanted), first \in {"warm", "gate", "sizes"},
           cloud \in {"aws", "oracle-cloud"} => first = "warm",
           cloud \in {"azure", "gcp", "ovhcloud"} => first = "gate",
           \A l \in Loops : wanted[l] \in SUBSET Types
    PROVE  PriceInv' /\ stage' # "serving"
  <1>1. Unquoted \in [Types -> Quotes] /\ Unquoted \in [Types -> SpotQuotes]
    BY DEF Unquoted, Quotes, SpotQuotes
  <1>2. loop' \in [Loops -> Refresh] /\ \A l \in Loops : loop'[l].got = Unquoted
    BY <1>1 DEF Died, Asking, Refresh, PriceInv, PriceType
  <1>3. NoListing \in Listings /\ NoReading \in [taken : BOOLEAN, records : {<<>>}]
    BY <1>1 DEF NoListing, Listings, NoReading
  <1>4. /\ stage' = first /\ live' = Unquoted /\ liveSpot' = Unquoted /\ sizes' = pinned.sizes
        /\ listing' = NoListing /\ reading' = NoReading
        /\ UNCHANGED <<cloudVars, offered, pinned, published>>
    BY DEF Died
  <1>5. PriceType'
    <2>1. reading' \in [taken : BOOLEAN, records : {<<>>} \union [offered' -> Records]] /\ ~reading'.taken
      BY <1>4 DEF NoReading
    <2> QED
      BY <1>1, <1>2, <1>3, <1>4, <2>1 DEF PriceInv, PriceType, Loops, cloudVars
  <1>6. NoZeros'
    <2>1. \A t \in Types : Unquoted[t] # 0
      BY DEF Unquoted, NoQuote
    <2>2. cloud = "ovhcloud" => "prices" \in Loops
      BY DEF Loops
    <2> QED
      BY <1>2, <1>4, <2>1, <2>2 DEF PriceInv, NoZeros
  <1>7. GateHolds'
    BY <1>4 DEF GateHolds, PastGate, Charging
  <1>8. FairRecords' /\ SizedRecords'
    <2>1. ~reading'.taken /\ stage' # "serving"
      BY <1>4 DEF NoReading
    <2> QED
      BY <1>4, <2>1 DEF PriceInv, FairRecords, SizedRecords, Billed
  <1> QED
    BY <1>4, <1>5, <1>6, <1>7, <1>8 DEF PriceInv

\* New fills the store from Describe, or takes the snapshot of an earlier life.
LEMMA StoreIsSeeded ==
    ASSUME PriceInv, UNCHANGED cloud, NEW records, Seeded(records), FairAnswer(records)
    PROVE  PriceInv' /\ CachesFill
  <1>1. /\ stage = "seed" /\ stage' = "serving"
        /\ UNCHANGED <<cloudVars, cacheVars, reading, offered, pinned, cloud>>
    BY DEF Seeded, Goes
  <1>2. \A o \in offered : o \in UNION Menus /\ o[1] \in Types
    BY OfferedHaveTypes DEF PriceInv
  <1>3. /\ published' \in [UNION Menus -> Records]
        /\ \A o \in offered : \/ published'[o] = records[o]
                              \/ published'[o] = published[o] /\ published[o].price # NoQuote
    <2>1. CASE published' = [o \in UNION Menus |-> IF o \in offered THEN records[o] ELSE published[o]]
      BY <1>2, <2>1 DEF FairAnswer, PriceInv, PriceType
    <2>2. CASE UNCHANGED published /\ \A o \in offered : published[o].price # NoQuote
      BY <1>2, <2>2 DEF PriceInv, PriceType
    <2> QED
      BY <2>1, <2>2 DEF Seeded
  <1>4. PriceType'
    BY <1>1, <1>3 DEF PriceInv, PriceType, Loops, cloudVars, cacheVars
  <1>5. NoZeros' /\ GateHolds'
    BY <1>1 DEF PriceInv, NoZeros, GateHolds, PastGate, Secured, Billed, cacheVars
  <1>6. FairRecords'
    BY <1>1, <1>3 DEF PriceInv, FairRecords, FairAnswer, Billed, NoQuote
  <1>7. SizedRecords'
    BY <1>1, <1>3 DEF PriceInv, SizedRecords, FairAnswer, cacheVars
  <1> QED
    BY <1>1, <1>4, <1>5, <1>6, <1>7 DEF PriceInv, CachesFill, cacheVars

\* Describe reads the caches.
LEMMA RecordsAreRead ==
    ASSUME PriceInv, UNCHANGED cloud, NEW records, Described(records), FairAnswer(records)
    PROVE  PriceInv' /\ CachesFill
  <1>1. /\ reading' = [taken |-> TRUE, records |-> records]
        /\ UNCHANGED <<cloudVars, startVars, cacheVars, published, cloud>>
    BY DEF Described
  <1>2. PriceType'
    BY <1>1 DEF PriceInv, PriceType, Loops, FairAnswer, cloudVars, startVars, cacheVars
  <1>3. NoZeros' /\ GateHolds'
    BY <1>1 DEF PriceInv, NoZeros, GateHolds, PastGate, Secured, Billed, startVars, cacheVars
  <1>4. FairRecords' /\ SizedRecords'
    BY <1>1 DEF PriceInv, FairRecords, SizedRecords, FairAnswer, Billed, startVars, cacheVars
  <1> QED
    BY <1>1, <1>2, <1>3, <1>4 DEF PriceInv, CachesFill, cacheVars

\* The kit takes what a Describe read, however long ago.
LEMMA RecordsAreTaken ==
    ASSUME PriceInv, UNCHANGED cloud, Refreshed
    PROVE  PriceInv' /\ CachesFill
  <1>1. /\ reading.taken /\ reading' = NoReading
        /\ published' = [o \in UNION Menus |-> IF o \in offered THEN reading.records[o] ELSE published[o]]
        /\ UNCHANGED <<cloudVars, startVars, cacheVars, cloud>>
    BY DEF Refreshed
  <1>2. reading.records \in [offered -> Records] /\ published \in [UNION Menus -> Records]
    BY <1>1 DEF PriceInv, PriceType
  <1>3. /\ published' \in [UNION Menus -> Records]
        /\ \A o \in offered : published'[o] = reading.records[o]
    <2>1. \A o \in offered : o \in UNION Menus
      BY OfferedHaveTypes DEF PriceInv
    <2> QED
      BY <1>1, <1>2, <2>1
  <1>4. PriceType'
    <2>1. reading' \in [taken : BOOLEAN, records : {<<>>} \union [offered' -> Records]] /\ ~reading'.taken
      BY <1>1 DEF NoReading
    <2> QED
      BY <1>1, <1>3, <2>1 DEF PriceInv, PriceType, Loops, cloudVars, startVars, cacheVars
  <1>5. NoZeros' /\ GateHolds'
    BY <1>1 DEF PriceInv, NoZeros, GateHolds, PastGate, Secured, Billed, startVars, cacheVars
  <1>6. FairRecords' /\ SizedRecords'
    <2>1. ~reading'.taken
      BY <1>1 DEF NoReading
    <2>2. FairRecords'
      <3>1. UNCHANGED <<cloud, offered, stage>> /\ \A o : Billed(o)' = Billed(o)
        BY <1>1 DEF startVars, Billed
      <3>2. ASSUME cloud \in Charging, NEW o \in offered, Billed(o)
            PROVE  published'[o].price # NoQuote /\ published'[o].price > 0
        <4>1. reading.records[o].price \in Int /\ reading.records[o].price > 0
          BY <1>1, <1>2, <3>2 DEF PriceInv, FairRecords, Records
        <4> QED
          BY <1>3, <4>1 DEF NoQuote
      <3> QED
        BY <2>1, <3>1, <3>2 DEF FairRecords
    <2>3. SizedRecords'
      BY <1>1, <1>3, <2>1 DEF PriceInv, SizedRecords, startVars, cacheVars
    <2> QED
      BY <2>2, <2>3
  <1> QED
    BY <1>1, <1>4, <1>5, <1>6 DEF PriceInv, CachesFill, cacheVars

\* The tickers begin a refresh anew.
LEMMA TickerFires ==
    ASSUME PriceInv, UNCHANGED cloud, NEW loops, NEW wanted, Ticked(loops, wanted),
           \A l \in loops : wanted[l] \in SUBSET Types
    PROVE  PriceInv' /\ CachesFill
  <1>1. /\ UNCHANGED <<cloudVars, startVars, live, liveSpot, sizes, listing, kitVars, cloud>>
        /\ loop' = [l \in DOMAIN loop |-> IF l \in loops THEN Asking(wanted[l]) ELSE loop[l]]
    BY DEF Ticked
  <1>2. Unquoted \in [Types -> Quotes] /\ \A t \in Types : Unquoted[t] # 0
    BY DEF Unquoted, Quotes, NoQuote
  <1>3. loop \in [Loops -> Refresh] /\ (cloud = "ovhcloud" => "prices" \in Loops)
    BY DEF PriceInv, PriceType, Loops
  <1>4. loop' \in [Loops -> Refresh]
    BY <1>1, <1>2, <1>3 DEF Asking, Refresh
  <1>5. cloud = "ovhcloud" => \A t \in Types : loop'["prices"].got[t] # 0
    BY <1>1, <1>2, <1>3 DEF Asking, PriceInv, NoZeros
  <1>6. CachesFill
    BY <1>1 DEF CachesFill
  <1>7. PriceInv'
    BY <1>1, <1>4, <1>5, <1>6, RefreshMoves DEF PriceInv, PriceType, NoZeros
  <1> QED
    BY <1>6, <1>7

\* A list is answered.
LEMMA ListIsAnswered ==
    ASSUME PriceInv, UNCHANGED cloud, NEW l \in Loops, NEW answer \in [Types -> Quotes],
           Listed(l, answer), cloud = "ovhcloud" => \A t \in Types : answer[t] # 0
    PROVE  PriceInv' /\ CachesFill
  <1>1. /\ UNCHANGED <<cloudVars, startVars, live, liveSpot, sizes, listing, kitVars, cloud>>
        /\ loop' = [loop EXCEPT ![l].stage = "answered", ![l].got = answer]
    BY DEF Listed
  <1>2. loop \in [Loops -> Refresh] /\ (cloud = "ovhcloud" => l = "prices")
    BY DEF PriceInv, PriceType, Loops
  <1>3. loop' \in [Loops -> Refresh] /\ loop'[l].got = answer
    BY <1>1, <1>2 DEF Refresh
  <1>4. CachesFill
    BY <1>1 DEF CachesFill
  <1>5. PriceInv'
    BY <1>1, <1>2, <1>3, <1>4, RefreshMoves DEF PriceInv, PriceType, NoZeros
  <1> QED
    BY <1>4, <1>5

\* A list is not answered.
LEMMA ListFails ==
    ASSUME PriceInv, UNCHANGED cloud, NEW l \in Loops, Unanswered(l)
    PROVE  PriceInv' /\ CachesFill
  <1>1. /\ UNCHANGED <<cloudVars, startVars, live, liveSpot, sizes, listing, kitVars, cloud>>
        /\ loop' = [loop EXCEPT ![l] = Idle]
    BY DEF Unanswered
  <1>2. loop \in [Loops -> Refresh] /\ (cloud = "ovhcloud" => l = "prices")
    BY DEF PriceInv, PriceType, Loops
  <1>3. Idle \in Refresh /\ \A t \in Types : Idle.got[t] # 0
    BY DEF Idle, Refresh, Unquoted, Quotes, NoQuote
  <1>4. loop' \in [Loops -> Refresh] /\ loop'[l] = Idle
    BY <1>1, <1>2, <1>3
  <1>5. CachesFill
    BY <1>1 DEF CachesFill
  <1>6. PriceInv'
    BY <1>1, <1>2, <1>3, <1>4, <1>5, RefreshMoves DEF PriceInv, PriceType, NoZeros
  <1> QED
    BY <1>5, <1>6

\* The quotes that were answered go over the cache.
LEMMA ListGoesOver ==
    ASSUME PriceInv, UNCHANGED cloud, NEW l \in Loops, NEW accepted, Overlaid(l, accepted),
           \A t \in accepted : loop[l].got[t] # NoQuote,
           cloud \in Charging => \A t \in accepted : loop[l].got[t] # 0
    PROVE  PriceInv' /\ CachesFill
  <1>1. /\ UNCHANGED <<cloudVars, startVars, liveSpot, sizes, listing, kitVars, cloud>>
        /\ live' = [t \in Types |-> IF t \in accepted THEN loop[l].got[t] ELSE live[t]]
        /\ loop' = [loop EXCEPT ![l] = Idle]
    BY DEF Overlaid
  <1>2. /\ loop \in [Loops -> Refresh] /\ (cloud = "ovhcloud" => l = "prices")
        /\ loop[l].got \in [Types -> Quotes] /\ live \in [Types -> Quotes]
    BY DEF PriceInv, PriceType, Loops, Refresh
  <1>3. Idle \in Refresh /\ \A t \in Types : Idle.got[t] # 0
    BY DEF Idle, Refresh, Unquoted, Quotes, NoQuote
  <1>4. loop' \in [Loops -> Refresh] /\ loop'[l] = Idle
    BY <1>1, <1>2, <1>3
  <1>5. CachesFill
    BY <1>1 DEF CachesFill
  <1>6. live' \in [Types -> Quotes] /\ (cloud \in Charging => \A t \in Types : live'[t] # 0)
    BY <1>1, <1>2 DEF PriceInv, NoZeros
  <1>7. PriceInv'
    BY <1>1, <1>2, <1>3, <1>4, <1>5, <1>6, RefreshMoves DEF PriceInv, PriceType, NoZeros
  <1> QED
    BY <1>5, <1>7

\* One type is asked for; what is cached of the answer is no loss.
LEMMA TypeIsAsked ==
    ASSUME PriceInv, UNCHANGED cloud, NEW l \in Loops, NEW t, Asked(l, t),
           live' \in [Types -> Quotes], liveSpot' \in [Types -> SpotQuotes],
           listing' \in Listings, CachesFill,
           cloud \in Charging => \A u \in Types : live'[u] # 0
    PROVE  PriceInv'
  <1>1. /\ UNCHANGED <<cloudVars, startVars, sizes, kitVars, cloud>>
        /\ loop' = [loop EXCEPT ![l] = Asking(loop[l].todo \ {t})]
    BY DEF Asked
  <1>2. loop \in [Loops -> Refresh] /\ (cloud = "ovhcloud" => l = "prices")
    BY DEF PriceInv, PriceType, Loops
  <1>3. /\ Asking(loop[l].todo \ {t}) \in Refresh
        /\ \A u \in Types : Asking(loop[l].todo \ {t}).got[u] # 0
    <2>1. loop[l].todo \ {t} \in SUBSET Types
      BY <1>2 DEF Refresh
    <2> QED
      BY <2>1 DEF Asking, Refresh, Unquoted, Quotes, NoQuote
  <1>4. loop' \in [Loops -> Refresh] /\ loop'[l] = Asking(loop[l].todo \ {t})
    BY <1>1, <1>2, <1>3
  <1> QED
    BY <1>1, <1>2, <1>3, <1>4, RefreshMoves

\* The type asked for is one on offer.
LEMMA AskedIsOffered ==
    ASSUME PriceInv, NEW l \in Loops, NEW t, Asked(l, t)
    PROVE  t \in Types
  BY DEF Asked, PriceInv, PriceType, Refresh

\* An answer that is a quote goes over the cache.
LEMMA QuoteIsCached ==
    ASSUME PriceInv, NEW t \in Types, NEW q \in Quotes, Cache(t, q), UNCHANGED liveSpot
    PROVE  /\ live' \in [Types -> Quotes] /\ CachesFill
           /\ q # 0 => \A u \in Types : live[u] # 0 => live'[u] # 0
  <1>1. live \in [Types -> Quotes]
    BY DEF PriceInv, PriceType
  <1> QED
    BY <1>1 DEF Cache, CachesFill

\* What a client answers from is a list of quotes.
LEMMA ListsAreOfQuotes ==
    ASSUME PriceInv
    PROVE  PriceList \in Listings /\ \A t \in Types : PriceList.price[t] \in Quotes
  BY DEF PriceInv, PriceType, PriceList, Listings

\* The client's own list goes stale.
LEMMA ListGoesStale ==
    ASSUME PriceInv, UNCHANGED cloud, Expires
    PROVE  PriceInv' /\ CachesFill
  <1>1. /\ UNCHANGED <<cloudVars, startVars, live, liveSpot, sizes, loop, kitVars, cloud>>
        /\ listing' = NoListing
    BY DEF Expires
  <1>2. NoListing \in Listings
    BY DEF NoListing, Listings, Unquoted, Quotes
  <1>3. CachesFill
    BY <1>1 DEF CachesFill
  <1>4. PriceInv'
    BY <1>1, <1>2, <1>3, RefreshMoves DEF PriceInv, PriceType, NoZeros
  <1> QED
    BY <1>3, <1>4

\* The warm-up is over.
LEMMA WarmUpEnds ==
    ASSUME PriceInv, UNCHANGED cloud, NEW to, Warmed(to), to # "serving",
           cloud \in {"aws", "oracle-cloud"} => to = "gate"
    PROVE  PriceInv' /\ CachesFill
  <1>1. /\ stage = "warm" /\ stage' = to
        /\ UNCHANGED <<cloudVars, cacheVars, kitVars, offered, pinned, cloud>>
    BY DEF Warmed, Goes
  <1>2. cloud \in Charging /\ PastGate' => \A o \in offered : Billed(o) => Secured(o)
    BY <1>1 DEF PriceInv, GateHolds, PastGate, Charging
  <1>3. sizes \subseteq sizes' /\ listing' \in Listings
    BY <1>1 DEF cacheVars, PriceInv, PriceType
  <1> QED
    BY <1>1, <1>2, <1>3, StageMoves DEF cacheVars

\* The sizes are looked up.
LEMMA SizesAreLookedUp ==
    ASSUME PriceInv, UNCHANGED cloud, NEW to, NEW answers, Resolved(to, answers), to # "serving",
           listing' \in Listings
    PROVE  PriceInv' /\ CachesFill
  <1>1. /\ stage = "sizes" /\ stage' = to /\ sizes \subseteq sizes'
        /\ UNCHANGED <<cloudVars, live, liveSpot, loop, kitVars, offered, pinned, cloud>>
    BY DEF Resolved, Goes
  <1>2. cloud \in Charging /\ PastGate' => \A o \in offered : Billed(o) => Secured(o)
    BY <1>1 DEF PriceInv, GateHolds, PastGate
  <1> QED
    BY <1>1, <1>2, StageMoves

\* The check lets a process on in which the billed offerings have a price.
LEMMA GateOpens ==
    ASSUME PriceInv, UNCHANGED cloud, stage' # "serving", UNCHANGED <<offered, pinned>>,
           UNCHANGED <<cloudVars, cacheVars, kitVars>>,
           stage' # "refused" => \A o \in offered : Billed(o) => Secured(o)
    PROVE  PriceInv' /\ CachesFill
  <1>1. sizes \subseteq sizes' /\ listing' \in Listings
    BY DEF cacheVars, PriceInv, PriceType
  <1>2. PastGate' => stage' # "refused"
    BY DEF PastGate
  <1> QED
    BY <1>1, <1>2, StageMoves DEF cacheVars

\* What is kept of a type's price is an integer.
LEMMA PricesAreNumbers ==
    ASSUME PriceInv, NEW t \in Types
    PROVE  /\ live[t] \in {NoQuote, 0, 10, 20} /\ liveSpot[t] \in {NoQuote, 1, 2}
           /\ pinned.price[t] \in {NoQuote, TablePrice}
           /\ pinned.override[t] \in {NoQuote, OverridePrice}
           /\ cloud \in Charging => live[t] # 0
           /\ cloud \notin {"ovhcloud", "upcloud"} => pinned.override[t] = NoQuote
  BY DEF PriceInv, PriceType, NoZeros, Quotes, SpotQuotes, Pinned

\* A cached quote or else the pinned price, in a charging provider.
LEMMA LiveOrTableIsFair ==
    ASSUME PriceInv, NEW t \in Types
    PROVE  /\ LiveOrTable(t) \in {0, 10, 20, 30}
           /\ (cloud \in Charging /\ (live[t] # NoQuote \/ pinned.price[t] # NoQuote)) <=>
              (cloud \in Charging /\ LiveOrTable(t) > 0)
  <1>1. /\ live[t] \in {-1, 0, 10, 20} /\ pinned.price[t] \in {-1, 30}
        /\ cloud \in Charging => live[t] # 0
    BY PricesAreNumbers DEF NoQuote, TablePrice
  <1> QED
    BY <1>1 DEF LiveOrTable, Table, NoQuote

\* All that the providers with one loop ask for.
LEMMA AllTypesAreAsked ==
    ASSUME PriceInv
    PROVE  \A l \in {"prices"} : [k \in {"prices"} |-> AllTypes][l] \in SUBSET Types
  BY OfferedHaveTypes DEF PriceInv

\* One type is asked for, and its quote goes over the cache.
LEMMA TypeIsAnswered ==
    ASSUME PriceInv, UNCHANGED cloud, NEW l \in Loops, NEW t, NEW q \in Quotes, Asked(l, t),
           Cache(t, q), UNCHANGED liveSpot, listing' \in Listings, cloud \in Charging => q # 0
    PROVE  PriceInv' /\ CachesFill
  <1>1. t \in Types
    BY AskedIsOffered
  <1>2. /\ live' \in [Types -> Quotes] /\ CachesFill
        /\ cloud \in Charging => \A u \in Types : live'[u] # 0
    BY <1>1, QuoteIsCached DEF PriceInv, NoZeros
  <1>3. liveSpot' \in [Types -> SpotQuotes]
    BY DEF PriceInv, PriceType
  <1> QED
    BY <1>2, <1>3, TypeIsAsked

\* One type is asked for in vain.
LEMMA TypeIsNotAnswered ==
    ASSUME PriceInv, UNCHANGED cloud, NEW l \in Loops, NEW t, Asked(l, t),
           UNCHANGED <<live, liveSpot>>, listing' \in Listings
    PROVE  PriceInv' /\ CachesFill
  <1>1. CachesFill
    BY DEF CachesFill
  <1> QED
    BY <1>1, TypeIsAsked DEF PriceInv, PriceType, NoZeros

-----------------------------------------------------------------------------
(* Each provider's steps. *)

\* AWS: what it publishes.
LEMMA AwsAnswers ==
    ASSUME PriceInv, cloud = "aws", PastGate
    PROVE  FairAnswer(AwsSpeculativeSlots)
  <1>1. \A o \in offered : /\ o[1] \in Types /\ AwsPrice(o) \in Int
                           /\ Billed(o) => AwsPrice(o) > 0
    <2> SUFFICES ASSUME NEW o \in offered
                 PROVE  /\ o[1] \in Types /\ AwsPrice(o) \in Int
                        /\ Billed(o) => AwsPrice(o) > 0
      OBVIOUS
    <2>1. o[1] \in Types
      BY OfferedHaveTypes DEF PriceInv
    <2>2. /\ LiveOrTable(o[1]) \in {0, 10, 20, 30}
          /\ Secured(o) => LiveOrTable(o[1]) > 0
      BY <2>1, LiveOrTableIsFair, PricesAreNumbers DEF Secured, Charging
    <2>3. liveSpot[o[1]] \in {-1, 1, 2}
      BY <2>1, PricesAreNumbers DEF NoQuote
    <2>4. AwsPrice(o) \in Int
      BY <2>2, <2>3 DEF AwsPrice, AwsOnDemandPrice, Share
    <2>5. Billed(o) => AwsPrice(o) = LiveOrTable(o[1])
      BY DEF Billed, AwsPrice, AwsOnDemandPrice
    <2>6. Billed(o) => Secured(o)
      BY DEF PriceInv, GateHolds, Charging
    <2> QED
      BY <2>1, <2>2, <2>4, <2>5, <2>6
  <1>2. AwsSpeculativeSlots \in [offered -> Records]
    BY <1>1 DEF AwsSpeculativeSlots, Records
  <1>3. \A o \in offered : /\ AwsSpeculativeSlots[o].price = AwsPrice(o)
                           /\ AwsSpeculativeSlots[o].sized = (o[1] \in sizes)
    BY DEF AwsSpeculativeSlots
  <1> QED
    BY <1>1, <1>2, <1>3 DEF FairAnswer

LEMMA AwsSteps ==
    ASSUME PriceInv, cloud = "aws", UNCHANGED cloud, AwsNext
    PROVE  PriceInv' /\ (CachesFill \/ stage' # "serving")
  <1>1. "spot" \in Loops /\ "onDemand" \in Loops /\ Loops = {"spot", "onDemand"}
    BY DEF Loops
  <1>2. \A l \in Loops : AwsWanted[l] \in SUBSET Types
    <2>1. Sold({"spot"}) \subseteq Types /\ AllTypes \subseteq Types
      BY OfferedHaveTypes DEF PriceInv, Sold
    <2> QED
      BY <1>1, <2>1 DEF AwsWanted
  <1>3. CASE Requote
    BY <1>3, CloudMoves
  <1>4. CASE Warmed("gate")
    BY <1>4, WarmUpEnds
  <1>5. CASE AwsGate
    <2>1. /\ stage' # "serving" /\ UNCHANGED <<offered, pinned>>
          /\ UNCHANGED <<cloudVars, cacheVars, kitVars>>
          /\ stage' # "refused" => AwsUnpricedOnDemand = {}
      BY <1>5 DEF AwsGate, Gated, Goes
    <2>2. AwsUnpricedOnDemand = {} => \A o \in offered : Billed(o) => Secured(o)
      <3> SUFFICES ASSUME AwsUnpricedOnDemand = {}, NEW o \in offered, Billed(o)
                   PROVE  Secured(o)
        OBVIOUS
      <3>1. o[1] \in Types /\ o[2] = "on-demand"
        BY OfferedHaveTypes, MenusAssumption DEF PriceInv, PriceType, Billed
      <3>2. AwsPrice(o) = LiveOrTable(o[1])
        BY <3>1 DEF AwsPrice, AwsOnDemandPrice
      <3>3. ~(LiveOrTable(o[1]) <= 0)
        BY <3>1, <3>2 DEF AwsUnpricedOnDemand
      <3> QED
        BY <3>1, <3>3, LiveOrTableIsFair DEF Secured, Charging
    <2> QED
      BY <2>1, <2>2, GateOpens
  <1>6. CASE AwsRefreshInstanceTypes
    BY <1>6, SizesAreLookedUp DEF AwsRefreshInstanceTypes, PriceInv, PriceType
  <1>7. CASE Seeded(AwsSpeculativeSlots)
    BY <1>7, AwsAnswers, StoreIsSeeded DEF Seeded, PastGate
  <1>8. CASE AwsRestart
    BY <1>1, <1>2, <1>8, LifeEnds DEF AwsRestart
  <1>9. ASSUME NEW t \in Types, AwsSpotPriceUSD(t)
        PROVE  PriceInv' /\ CachesFill
    <2>1. Asked("spot", t) /\ UNCHANGED <<live, listing>>
      BY <1>9 DEF AwsSpotPriceUSD
    <2>2. /\ liveSpot' \in [Types -> SpotQuotes]
          /\ \A u \in Types : liveSpot[u] # NoQuote => liveSpot'[u] # NoQuote
      <3>1. liveSpot \in [Types -> SpotQuotes] /\ spotQuote \in [Types -> SpotQuotes]
        BY DEF PriceInv, PriceType
      <3> QED
        BY <1>9, <3>1 DEF AwsSpotPriceUSD
    <2>3. CachesFill
      BY <2>1, <2>2 DEF CachesFill
    <2> QED
      BY <1>1, <2>1, <2>2, <2>3, TypeIsAsked DEF PriceInv, PriceType, NoZeros
  <1>10. CASE AwsOnDemandPricesUSD
    BY <1>1, <1>10, ListIsAnswered DEF AwsOnDemandPricesUSD, PriceInv, PriceType
  <1>11. CASE Unanswered("onDemand")
    BY <1>1, <1>11, ListFails
  <1>12. CASE AwsRefreshOnDemand
    <2> DEFINE accepted == {t \in Types : loop["onDemand"].got[t] > 0}
    <2>1. \A t \in accepted : loop["onDemand"].got[t] # NoQuote /\ loop["onDemand"].got[t] # 0
      BY DEF NoQuote
    <2>2. Overlaid("onDemand", accepted)
      BY <1>12 DEF AwsRefreshOnDemand
    <2> HIDE DEF accepted
    <2> QED
      BY <1>1, <2>1, <2>2, ListGoesOver
  <1>13. CASE AwsRunSpotRefresher
    BY <1>1, <1>2, <1>13, TickerFires DEF AwsRunSpotRefresher
  <1>14. CASE AwsRunOnDemandRefresher
    BY <1>1, <1>2, <1>14, TickerFires DEF AwsRunOnDemandRefresher
  <1>15. CASE AwsDescribe
    BY <1>15, AwsAnswers, RecordsAreRead DEF AwsDescribe, Described, PastGate
  <1>16. CASE Refreshed
    BY <1>16, RecordsAreTaken
  <1> QED
    BY <1>3, <1>4, <1>5, <1>6, <1>7, <1>8, <1>9, <1>10, <1>11, <1>12, <1>13, <1>14, <1>15, <1>16
       DEF AwsNext, AwsStart
\* Azure: a type without any price is published at more than any other.
LEMMA AzureAnswers ==
    ASSUME PriceInv, cloud = "azure"
    PROVE  FairAnswer(AzureSpeculativeSlots)
  <1>1. ASSUME NEW o \in offered
        PROVE  /\ AzurePrice(o) \in Int
               /\ cloud \in Charging /\ Billed(o) => AzurePrice(o) > 0
    <2>1. o[1] \in Types
      BY OfferedHaveTypes DEF PriceInv
    <2>2. /\ live[o[1]] \in {-1, 10, 20} /\ liveSpot[o[1]] \in {-1, 1, 2}
          /\ pinned.price[o[1]] \in {-1, 30}
      BY <2>1, PricesAreNumbers DEF NoQuote, TablePrice, Charging
    <2>3. AzureOnDemand(o[1]) \in {10, 20, 30, 10000}
      BY <2>2 DEF AzureOnDemand, AzureUnknownSizePrice, NoQuote
    <2>4. Share(4, AzureOnDemand(o[1])) \in {4, 8, 12, 4000}
      BY <2>3 DEF Share
    <2> QED
      BY <2>2, <2>3, <2>4 DEF AzurePrice, NoQuote
  <1>2. AzureSpeculativeSlots \in [offered -> Records]
    BY <1>1 DEF AzureSpeculativeSlots, Records
  <1>3. \A o \in offered : /\ AzureSpeculativeSlots[o].price = AzurePrice(o)
                           /\ AzureSpeculativeSlots[o].sized = (o[1] \in sizes)
    BY DEF AzureSpeculativeSlots
  <1> QED
    BY <1>1, <1>2, <1>3 DEF FairAnswer

LEMMA AzureSteps ==
    ASSUME PriceInv, cloud = "azure", UNCHANGED cloud, AzureNext
    PROVE  PriceInv' /\ (CachesFill \/ stage' # "serving")
  <1>1. "spot" \in Loops /\ "onDemand" \in Loops /\ Loops = {"spot", "onDemand"}
    BY DEF Loops
  <1>2. \A l \in Loops : AzureWanted[l] \in SUBSET Types
    <2>1. Sold({"spot"}) \subseteq Types /\ AllTypes \subseteq Types
      BY OfferedHaveTypes DEF PriceInv, Sold
    <2> QED
      BY <1>1, <2>1 DEF AzureWanted
  <1>3. CASE Requote
    BY <1>3, CloudMoves
  <1>4. CASE Warmed("sizes")
    BY <1>4, WarmUpEnds
  <1>5. CASE AzureRefreshVMSizes
    BY <1>5, SizesAreLookedUp DEF AzureRefreshVMSizes, PriceInv, PriceType
  <1>6. CASE Seeded(AzureSpeculativeSlots)
    BY <1>6, AzureAnswers, StoreIsSeeded
  <1>7. CASE AzureRestart
    BY <1>1, <1>2, <1>7, LifeEnds DEF AzureRestart
  <1>8. CASE AzureDescribe
    BY <1>8, AzureAnswers, RecordsAreRead DEF AzureDescribe
  <1>9. CASE Refreshed
    BY <1>9, RecordsAreTaken
  <1>10. CASE AzureGate
    <2>1. /\ stage' # "serving" /\ UNCHANGED <<offered, pinned>>
          /\ UNCHANGED <<cloudVars, cacheVars, kitVars>>
          /\ stage' # "refused" => \A t \in AllTypes : pinned.price[t] # NoQuote
      BY <1>10 DEF AzureGate, Gated, Goes
    <2>2. stage' # "refused" => \A o \in offered : Billed(o) => Secured(o)
      BY <2>1, OfferedHaveTypes DEF Secured, PriceInv
    <2> QED
      BY <2>1, <2>2, GateOpens
  <1>11. ASSUME NEW t \in Types, AzureOnDemandPriceUSD(t)
        PROVE  PriceInv' /\ CachesFill
    <2>1. /\ Asked("onDemand", t) /\ UNCHANGED <<liveSpot, listing>>
          /\ (quote[t] > 0 /\ Cache(t, quote[t])) \/ UNCHANGED live
      BY <1>11 DEF AzureOnDemandPriceUSD
    <2>2. listing' \in Listings /\ quote[t] \in Quotes
      BY <2>1 DEF PriceInv, PriceType
    <2>3. quote[t] > 0 => quote[t] # 0
      BY <2>2 DEF Quotes, NoQuote
    <2> QED
      BY <1>1, <2>1, <2>2, <2>3, TypeIsAnswered, TypeIsNotAnswered
  <1>12. ASSUME NEW t \in Types, AzureSpotPriceUSD(t)
        PROVE  PriceInv' /\ CachesFill
    <2>1. Asked("spot", t) /\ UNCHANGED <<live, listing>>
      BY <1>12 DEF AzureSpotPriceUSD
    <2>2. /\ liveSpot' \in [Types -> SpotQuotes]
          /\ \A u \in Types : liveSpot[u] # NoQuote => liveSpot'[u] # NoQuote
      <3>1. liveSpot \in [Types -> SpotQuotes] /\ spotQuote \in [Types -> SpotQuotes]
        BY DEF PriceInv, PriceType
      <3> QED
        BY <1>12, <3>1 DEF AzureSpotPriceUSD, NoQuote
    <2>3. CachesFill
      BY <2>1, <2>2 DEF CachesFill
    <2> QED
      BY <1>1, <2>1, <2>2, <2>3, TypeIsAsked DEF PriceInv, PriceType, NoZeros
  <1>13. CASE AzureRunPriceRefresher
    <2>1. DOMAIN AzureWanted = Loops
      BY <1>1 DEF AzureWanted
    <2>2. Ticked(Loops, AzureWanted)
      BY <1>13, <2>1 DEF AzureRunPriceRefresher
    <2> QED
      BY <1>2, <2>2, TickerFires
  <1> QED
    BY <1>3, <1>4, <1>5, <1>6, <1>7, <1>8, <1>9, <1>10, <1>11, <1>12, <1>13
       DEF AzureNext, AzureStart

\* GCP: a cached rate or else the pinned price.
LEMMA GcpAnswers ==
    ASSUME PriceInv, cloud = "gcp", PastGate
    PROVE  FairAnswer(GcpSpeculativeSlots)
  <1>1. ASSUME NEW o \in offered
        PROVE  /\ GcpPrice(o) \in Int
               /\ cloud \in Charging /\ Billed(o) => GcpPrice(o) > 0
    <2>1. o[1] \in Types
      BY OfferedHaveTypes DEF PriceInv
    <2>2. Billed(o) => Secured(o)
      BY DEF PriceInv, GateHolds, Charging
    <2>3. /\ live[o[1]] \in {-1, 10, 20} /\ pinned.price[o[1]] \in {-1, 30}
          /\ pinned.override[o[1]] = -1
      BY <2>1, PricesAreNumbers DEF NoQuote, TablePrice, Charging
    <2>4. /\ GcpOnDemand(o[1]) \in {0, 10, 20, 30}
          /\ Secured(o) => GcpOnDemand(o[1]) > 0
      BY <2>3 DEF GcpOnDemand, Table, Secured, NoQuote
    <2>5. /\ Share(4, GcpOnDemand(o[1])) \in Int
          /\ GcpOnDemand(o[1]) > 0 => Share(4, GcpOnDemand(o[1])) > 0
      BY <2>4 DEF Share
    <2> QED
      BY <2>2, <2>4, <2>5 DEF GcpPrice
  <1>2. GcpSpeculativeSlots \in [offered -> Records]
    BY <1>1 DEF GcpSpeculativeSlots, Records
  <1>3. \A o \in offered : /\ GcpSpeculativeSlots[o].price = GcpPrice(o)
                           /\ GcpSpeculativeSlots[o].sized = (o[1] \in sizes)
    BY DEF GcpSpeculativeSlots
  <1> QED
    BY <1>1, <1>2, <1>3 DEF FairAnswer

LEMMA GcpSteps ==
    ASSUME PriceInv, cloud = "gcp", UNCHANGED cloud, GcpNext
    PROVE  PriceInv' /\ (CachesFill \/ stage' # "serving")
  <1>1. "prices" \in Loops /\ Loops = {"prices"}
    BY DEF Loops
  <1>2. \A l \in Loops : GcpWanted[l] \in SUBSET Types
    BY <1>1, AllTypesAreAsked DEF GcpWanted
  <1>3. CASE Requote
    BY <1>3, CloudMoves
  <1>4. CASE Warmed("sizes")
    BY <1>4, WarmUpEnds
  <1>5. CASE GcpRefreshMachineTypes
    BY <1>5, SizesAreLookedUp DEF GcpRefreshMachineTypes, PriceInv, PriceType
  <1>6. CASE Seeded(GcpSpeculativeSlots)
    BY <1>6, GcpAnswers, StoreIsSeeded DEF Seeded, PastGate
  <1>7. CASE GcpRestart
    BY <1>1, <1>2, <1>7, LifeEnds DEF GcpRestart
  <1>8. CASE GcpDescribe
    BY <1>8, GcpAnswers, RecordsAreRead DEF GcpDescribe, Described, PastGate
  <1>9. CASE Refreshed
    BY <1>9, RecordsAreTaken
  <1>10. CASE Expires
    BY <1>10, ListGoesStale
  <1>11. CASE GcpGate
    <2>1. /\ stage' # "serving" /\ UNCHANGED <<offered, pinned>>
          /\ UNCHANGED <<cloudVars, cacheVars, kitVars>>
          /\ stage' # "refused" => \A t \in AllTypes : Table(t) > 0
      BY <1>11 DEF GcpGate, Gated, Goes
    <2>2. \A t : Table(t) > 0 => pinned.price[t] # NoQuote
      BY DEF Table
    <2>3. stage' # "refused" => \A o \in offered : Billed(o) => Secured(o)
      BY <2>1, <2>2, OfferedHaveTypes DEF Secured, PriceInv
    <2> QED
      BY <2>1, <2>3, GateOpens
  <1>12. ASSUME NEW t \in Types, GcpOnDemandPriceUSD(t)
        PROVE  PriceInv' /\ CachesFill
    <2>1. /\ UNCHANGED <<cloudVars, startVars, live, liveSpot, sizes, kitVars, cloud>>
          /\ \/ listing' = PriceList /\ GcpAnswered(t, PriceList.price[t])
             \/ UNCHANGED listing /\ GcpAnswered(t, NoQuote)
      BY <1>12 DEF GcpOnDemandPriceUSD
    <2>2. PriceList \in Listings /\ PriceList.price[t] \in Quotes /\ listing \in Listings
      BY ListsAreOfQuotes DEF PriceInv, PriceType
    <2>3. loop \in [Loops -> Refresh]
      BY DEF PriceInv, PriceType
    <2>4. ASSUME NEW q \in Quotes, GcpAnswered(t, q)
          PROVE  loop' \in [Loops -> Refresh]
      <3> DEFINE new == [stage |-> IF loop["prices"].todo = {t} THEN "answered" ELSE "asking",
                         todo |-> loop["prices"].todo \ {t},
                         got |-> [loop["prices"].got EXCEPT ![t] = q]]
      <3>1. new \in Refresh
        BY <1>1, <2>3 DEF Refresh
      <3>2. loop' = [loop EXCEPT !["prices"] = new]
        BY <2>4 DEF GcpAnswered
      <3> HIDE DEF new
      <3> QED
        BY <1>1, <2>3, <3>1, <3>2
    <2>5. loop' \in [Loops -> Refresh] /\ listing' \in Listings
      BY <2>1, <2>2, <2>4 DEF Quotes
    <2>6. CachesFill
      BY <2>1 DEF CachesFill
    <2>7. PriceInv'
      BY <2>1, <2>5, <2>6, RefreshMoves DEF PriceInv, PriceType, NoZeros
    <2> QED
      BY <2>6, <2>7
  <1>13. CASE GcpRefresh
    <2> DEFINE accepted == {t \in Types : loop["prices"].got[t] > 0}
    <2>1. \A t \in accepted : loop["prices"].got[t] # NoQuote
      BY DEF NoQuote
    <2>2. Overlaid("prices", accepted)
      BY <1>13 DEF GcpRefresh
    <2>3. cloud \in Charging => \A t \in accepted : loop["prices"].got[t] # 0
      BY DEF NoQuote
    <2> HIDE DEF accepted
    <2> QED
      BY <1>1, <2>1, <2>2, <2>3, ListGoesOver
  <1>14. CASE GcpRunPriceRefresher
    BY <1>1, <1>2, <1>14, TickerFires DEF GcpRunPriceRefresher
  <1> QED
    BY <1>3, <1>4, <1>5, <1>6, <1>7, <1>8, <1>9, <1>10, <1>11, <1>12, <1>13, <1>14
       DEF GcpNext, GcpStart

\* Hetzner: any price, 0 included.
LEMMA HetznerAnswers ==
    ASSUME PriceInv, cloud = "hetzner"
    PROVE  FairAnswer(HetznerSpeculativeSlots)
  <1>1. ASSUME NEW o \in offered
        PROVE  /\ HetznerPrice(o) \in Int
               /\ cloud \in Charging /\ Billed(o) => HetznerPrice(o) > 0
    <2>1. o[1] \in Types
      BY OfferedHaveTypes DEF PriceInv
    <2> QED
      BY <2>1, LiveOrTableIsFair DEF HetznerPrice, Charging
  <1>2. HetznerSpeculativeSlots \in [offered -> Records]
    BY <1>1 DEF HetznerSpeculativeSlots, Records
  <1>3. \A o \in offered : /\ HetznerSpeculativeSlots[o].price = HetznerPrice(o)
                           /\ HetznerSpeculativeSlots[o].sized = (o[1] \in sizes)
    BY DEF HetznerSpeculativeSlots
  <1> QED
    BY <1>1, <1>2, <1>3 DEF FairAnswer

LEMMA HetznerSteps ==
    ASSUME PriceInv, cloud = "hetzner", UNCHANGED cloud, HetznerNext
    PROVE  PriceInv' /\ (CachesFill \/ stage' # "serving")
  <1>1. "prices" \in Loops /\ Loops = {"prices"}
    BY DEF Loops
  <1>2. \A l \in Loops : HetznerWanted[l] \in SUBSET Types
    BY <1>1, AllTypesAreAsked DEF HetznerWanted
  <1>3. CASE Requote
    BY <1>3, CloudMoves
  <1>4. CASE Warmed("sizes")
    BY <1>4, WarmUpEnds
  <1>5. CASE HetznerRefreshServerTypes
    BY <1>5, SizesAreLookedUp DEF HetznerRefreshServerTypes, PriceInv, PriceType
  <1>6. CASE Seeded(HetznerSpeculativeSlots)
    BY <1>6, HetznerAnswers, StoreIsSeeded
  <1>7. CASE HetznerRestart
    BY <1>1, <1>2, <1>7, LifeEnds DEF HetznerRestart
  <1>8. CASE HetznerDescribe
    BY <1>8, HetznerAnswers, RecordsAreRead DEF HetznerDescribe
  <1>9. CASE Refreshed
    BY <1>9, RecordsAreTaken
  <1>10. ASSUME NEW t \in Types, HetznerPriceUSD(t)
        PROVE  PriceInv' /\ CachesFill
    <2>1. /\ Asked("prices", t) /\ UNCHANGED <<liveSpot, listing>>
          /\ Cache(t, quote[t]) \/ UNCHANGED live
      BY <1>10 DEF HetznerPriceUSD
    <2>2. listing' \in Listings /\ quote[t] \in Quotes
      BY <2>1 DEF PriceInv, PriceType
    <2> QED
      BY <1>1, <2>1, <2>2, TypeIsAnswered, TypeIsNotAnswered DEF Charging
  <1>11. CASE HetznerRunPriceRefresher
    BY <1>1, <1>2, <1>11, TickerFires DEF HetznerRunPriceRefresher
  <1> QED
    BY <1>3, <1>4, <1>5, <1>6, <1>7, <1>8, <1>9, <1>10, <1>11
       DEF HetznerNext, HetznerStart

\* Latitude: any price, 0 included.
LEMMA LatitudeAnswers ==
    ASSUME PriceInv, cloud = "latitude"
    PROVE  FairAnswer(LatitudeSpeculativeSlots)
  <1>1. ASSUME NEW o \in offered
        PROVE  /\ LatitudePrice(o) \in Int
               /\ cloud \in Charging /\ Billed(o) => LatitudePrice(o) > 0
    <2>1. o[1] \in Types
      BY OfferedHaveTypes DEF PriceInv
    <2> QED
      BY <2>1, LiveOrTableIsFair DEF LatitudePrice, Charging
  <1>2. LatitudeSpeculativeSlots \in [offered -> Records]
    BY <1>1 DEF LatitudeSpeculativeSlots, Records
  <1>3. \A o \in offered : /\ LatitudeSpeculativeSlots[o].price = LatitudePrice(o)
                           /\ LatitudeSpeculativeSlots[o].sized = (o[1] \in sizes)
    BY DEF LatitudeSpeculativeSlots
  <1> QED
    BY <1>1, <1>2, <1>3 DEF FairAnswer

LEMMA LatitudeSteps ==
    ASSUME PriceInv, cloud = "latitude", UNCHANGED cloud, LatitudeNext
    PROVE  PriceInv' /\ (CachesFill \/ stage' # "serving")
  <1>1. "prices" \in Loops /\ Loops = {"prices"}
    BY DEF Loops
  <1>2. \A l \in Loops : LatitudeWanted[l] \in SUBSET Types
    BY <1>1, AllTypesAreAsked DEF LatitudeWanted
  <1>3. CASE Requote
    BY <1>3, CloudMoves
  <1>4. CASE Warmed("sizes")
    BY <1>4, WarmUpEnds
  <1>5. CASE LatitudeRefreshPlans
    BY <1>5, SizesAreLookedUp DEF LatitudeRefreshPlans, PriceInv, PriceType
  <1>6. CASE Seeded(LatitudeSpeculativeSlots)
    BY <1>6, LatitudeAnswers, StoreIsSeeded
  <1>7. CASE LatitudeRestart
    BY <1>1, <1>2, <1>7, LifeEnds DEF LatitudeRestart
  <1>8. CASE LatitudeDescribe
    BY <1>8, LatitudeAnswers, RecordsAreRead DEF LatitudeDescribe
  <1>9. CASE Refreshed
    BY <1>9, RecordsAreTaken
  <1>10. ASSUME NEW t \in Types, LatitudePriceUSD(t)
        PROVE  PriceInv' /\ CachesFill
    <2>1. /\ Asked("prices", t) /\ UNCHANGED <<liveSpot, listing>>
          /\ Cache(t, quote[t]) \/ UNCHANGED live
      BY <1>10 DEF LatitudePriceUSD
    <2>2. listing' \in Listings /\ quote[t] \in Quotes
      BY <2>1 DEF PriceInv, PriceType
    <2> QED
      BY <1>1, <2>1, <2>2, TypeIsAnswered, TypeIsNotAnswered DEF Charging
  <1>11. CASE LatitudeRunPriceRefresher
    BY <1>1, <1>2, <1>11, TickerFires DEF LatitudeRunPriceRefresher
  <1> QED
    BY <1>3, <1>4, <1>5, <1>6, <1>7, <1>8, <1>9, <1>10, <1>11
       DEF LatitudeNext, LatitudeStart

\* DigitalOcean: any price, 0 included.
LEMMA DigitalOceanAnswers ==
    ASSUME PriceInv, cloud = "digitalocean"
    PROVE  FairAnswer(DigitalOceanSpeculativeSlots)
  <1>1. ASSUME NEW o \in offered
        PROVE  /\ DigitalOceanPrice(o) \in Int
               /\ cloud \in Charging /\ Billed(o) => DigitalOceanPrice(o) > 0
    <2>1. o[1] \in Types
      BY OfferedHaveTypes DEF PriceInv
    <2> QED
      BY <2>1, LiveOrTableIsFair DEF DigitalOceanPrice, Charging
  <1>2. DigitalOceanSpeculativeSlots \in [offered -> Records]
    BY <1>1 DEF DigitalOceanSpeculativeSlots, Records
  <1>3. \A o \in offered : /\ DigitalOceanSpeculativeSlots[o].price = DigitalOceanPrice(o)
                           /\ DigitalOceanSpeculativeSlots[o].sized = (o[1] \in sizes)
    BY DEF DigitalOceanSpeculativeSlots
  <1> QED
    BY <1>1, <1>2, <1>3 DEF FairAnswer

LEMMA DigitalOceanSteps ==
    ASSUME PriceInv, cloud = "digitalocean", UNCHANGED cloud, DigitalOceanNext
    PROVE  PriceInv' /\ (CachesFill \/ stage' # "serving")
  <1>1. "prices" \in Loops /\ Loops = {"prices"}
    BY DEF Loops
  <1>2. \A l \in Loops : DigitalOceanWanted[l] \in SUBSET Types
    BY <1>1, AllTypesAreAsked DEF DigitalOceanWanted
  <1>3. CASE Requote
    BY <1>3, CloudMoves
  <1>4. CASE Warmed("sizes")
    BY <1>4, WarmUpEnds
  <1>5. CASE DigitalOceanRefreshSizes
    <2>1. listing' \in Listings
      BY <1>5, ListsAreOfQuotes DEF DigitalOceanRefreshSizes, DigitalOceanDescribeSizeCapacities, PriceInv, PriceType
    <2> QED
      BY <1>5, <2>1, SizesAreLookedUp DEF DigitalOceanRefreshSizes
  <1>6. CASE Seeded(DigitalOceanSpeculativeSlots)
    BY <1>6, DigitalOceanAnswers, StoreIsSeeded
  <1>7. CASE DigitalOceanRestart
    BY <1>1, <1>2, <1>7, LifeEnds DEF DigitalOceanRestart
  <1>8. CASE DigitalOceanDescribe
    BY <1>8, DigitalOceanAnswers, RecordsAreRead DEF DigitalOceanDescribe
  <1>9. CASE Refreshed
    BY <1>9, RecordsAreTaken
  <1>10. CASE Expires
    BY <1>10, ListGoesStale
  <1>11. ASSUME NEW t \in Types, DigitalOceanPriceUSD(t)
        PROVE  PriceInv' /\ CachesFill
    <2>1. /\ Asked("prices", t) /\ UNCHANGED liveSpot
          /\ \/ listing' = PriceList /\ Cache(t, PriceList.price[t])
             \/ UNCHANGED <<live, listing>>
      BY <1>11 DEF DigitalOceanPriceUSD
    <2>2. PriceList \in Listings /\ PriceList.price[t] \in Quotes /\ listing \in Listings
      BY ListsAreOfQuotes DEF PriceInv, PriceType
    <2> QED
      BY <1>1, <2>1, <2>2, TypeIsAnswered, TypeIsNotAnswered DEF Charging
  <1>12. CASE DigitalOceanRunPriceRefresher
    BY <1>1, <1>2, <1>12, TickerFires DEF DigitalOceanRunPriceRefresher
  <1> QED
    BY <1>3, <1>4, <1>5, <1>6, <1>7, <1>8, <1>9, <1>10, <1>11, <1>12
       DEF DigitalOceanNext, DigitalOceanStart

\* Scaleway: any price, 0 included.
LEMMA ScalewayAnswers ==
    ASSUME PriceInv, cloud = "scaleway"
    PROVE  FairAnswer(ScalewaySpeculativeSlots)
  <1>1. ASSUME NEW o \in offered
        PROVE  /\ ScalewayPrice(o) \in Int
               /\ cloud \in Charging /\ Billed(o) => ScalewayPrice(o) > 0
    <2>1. o[1] \in Types
      BY OfferedHaveTypes DEF PriceInv
    <2> QED
      BY <2>1, LiveOrTableIsFair DEF ScalewayPrice, Charging
  <1>2. ScalewaySpeculativeSlots \in [offered -> Records]
    BY <1>1 DEF ScalewaySpeculativeSlots, Records
  <1>3. \A o \in offered : /\ ScalewaySpeculativeSlots[o].price = ScalewayPrice(o)
                           /\ ScalewaySpeculativeSlots[o].sized = (o[1] \in sizes)
    BY DEF ScalewaySpeculativeSlots
  <1> QED
    BY <1>1, <1>2, <1>3 DEF FairAnswer

LEMMA ScalewaySteps ==
    ASSUME PriceInv, cloud = "scaleway", UNCHANGED cloud, ScalewayNext
    PROVE  PriceInv' /\ (CachesFill \/ stage' # "serving")
  <1>1. "prices" \in Loops /\ Loops = {"prices"}
    BY DEF Loops
  <1>2. \A l \in Loops : ScalewayWanted[l] \in SUBSET Types
    BY <1>1, AllTypesAreAsked DEF ScalewayWanted
  <1>3. CASE Requote
    BY <1>3, CloudMoves
  <1>4. CASE Warmed("sizes")
    BY <1>4, WarmUpEnds
  <1>5. CASE ScalewayRefreshTypes
    <2>1. listing' \in Listings
      BY <1>5, ListsAreOfQuotes DEF ScalewayRefreshTypes, ScalewayDescribeCommercialTypeCapacities, PriceInv, PriceType
    <2> QED
      BY <1>5, <2>1, SizesAreLookedUp DEF ScalewayRefreshTypes
  <1>6. CASE Seeded(ScalewaySpeculativeSlots)
    BY <1>6, ScalewayAnswers, StoreIsSeeded
  <1>7. CASE ScalewayRestart
    BY <1>1, <1>2, <1>7, LifeEnds DEF ScalewayRestart
  <1>8. CASE ScalewayDescribe
    BY <1>8, ScalewayAnswers, RecordsAreRead DEF ScalewayDescribe
  <1>9. CASE Refreshed
    BY <1>9, RecordsAreTaken
  <1>10. CASE Expires
    BY <1>10, ListGoesStale
  <1>11. CASE ScalewayGate
    <2>1. /\ stage' # "serving" /\ UNCHANGED <<offered, pinned>>
          /\ UNCHANGED <<cloudVars, cacheVars, kitVars>>
          /\ stage' # "refused" => \A t \in AllTypes : pinned.price[t] # NoQuote
      BY <1>11 DEF ScalewayGate, Gated, Goes
    <2>2. stage' # "refused" => \A o \in offered : Billed(o) => Secured(o)
      BY <2>1, OfferedHaveTypes DEF Secured, PriceInv
    <2> QED
      BY <2>1, <2>2, GateOpens
  <1>12. ASSUME NEW t \in Types, ScalewayPriceUSD(t)
        PROVE  PriceInv' /\ CachesFill
    <2>1. /\ Asked("prices", t) /\ UNCHANGED liveSpot
          /\ \/ listing' = PriceList /\ Cache(t, PriceList.price[t])
             \/ UNCHANGED <<live, listing>>
      BY <1>12 DEF ScalewayPriceUSD
    <2>2. PriceList \in Listings /\ PriceList.price[t] \in Quotes /\ listing \in Listings
      BY ListsAreOfQuotes DEF PriceInv, PriceType
    <2> QED
      BY <1>1, <2>1, <2>2, TypeIsAnswered, TypeIsNotAnswered DEF Charging
  <1>13. CASE ScalewayRunPriceRefresher
    BY <1>1, <1>2, <1>13, TickerFires DEF ScalewayRunPriceRefresher
  <1> QED
    BY <1>3, <1>4, <1>5, <1>6, <1>7, <1>8, <1>9, <1>10, <1>11, <1>12, <1>13
       DEF ScalewayNext, ScalewayStart

\* Oracle Cloud: a cached rate or else the pinned price.
LEMMA OciAnswers ==
    ASSUME PriceInv, cloud = "oracle-cloud", PastGate
    PROVE  FairAnswer(OciSpeculativeSlots)
  <1>1. ASSUME NEW o \in offered
        PROVE  /\ OciPrice(o) \in Int
               /\ cloud \in Charging /\ Billed(o) => OciPrice(o) > 0
    <2>1. o[1] \in Types
      BY OfferedHaveTypes DEF PriceInv
    <2>2. Billed(o) => Secured(o)
      BY DEF PriceInv, GateHolds, Charging
    <2>3. /\ OciOnDemand(o[1]) \in {0, 10, 20, 30}
          /\ Secured(o) => OciOnDemand(o[1]) > 0
      BY <2>1, LiveOrTableIsFair, PricesAreNumbers DEF OciOnDemand, Secured, Charging
    <2>4. /\ Share(5, OciOnDemand(o[1])) \in Int
          /\ OciOnDemand(o[1]) > 0 => Share(5, OciOnDemand(o[1])) > 0
      BY <2>3 DEF Share
    <2> QED
      BY <2>2, <2>3, <2>4 DEF OciPrice, Billed
  <1>2. OciSpeculativeSlots \in [offered -> Records]
    BY <1>1 DEF OciSpeculativeSlots, Records
  <1>3. \A o \in offered : /\ OciSpeculativeSlots[o].price = OciPrice(o)
                           /\ OciSpeculativeSlots[o].sized = (o[1] \in sizes)
    BY DEF OciSpeculativeSlots
  <1> QED
    BY <1>1, <1>2, <1>3 DEF FairAnswer

LEMMA OciSteps ==
    ASSUME PriceInv, cloud = "oracle-cloud", UNCHANGED cloud, OciNext
    PROVE  PriceInv' /\ (CachesFill \/ stage' # "serving")
  <1>1. "prices" \in Loops /\ Loops = {"prices"}
    BY DEF Loops
  <1>2. \A l \in Loops : OciWanted[l] \in SUBSET Types
    BY <1>1, AllTypesAreAsked DEF OciWanted
  <1>3. CASE Requote
    BY <1>3, CloudMoves
  <1>4. CASE Warmed("gate")
    BY <1>4, WarmUpEnds
  <1>5. CASE Seeded(OciSpeculativeSlots)
    BY <1>5, OciAnswers, StoreIsSeeded DEF Seeded, PastGate
  <1>6. CASE OciRestart
    BY <1>1, <1>2, <1>6, LifeEnds DEF OciRestart
  <1>7. CASE OciDescribe
    BY <1>7, OciAnswers, RecordsAreRead DEF OciDescribe, Described, PastGate
  <1>8. CASE Refreshed
    BY <1>8, RecordsAreTaken
  <1>9. CASE OciValidatePricing
    <2>1. /\ stage' # "serving" /\ UNCHANGED <<offered, pinned>>
          /\ UNCHANGED <<cloudVars, cacheVars, kitVars>>
          /\ stage' # "refused" => \A o \in offered : o[2] = "bare-metal" \/ OciPrice(o) > 0
      BY <1>9 DEF OciValidatePricing, Gated, Goes
    <2>2. ASSUME NEW o \in offered, o[2] # "bare-metal", OciPrice(o) > 0
          PROVE  Secured(o)
      <3>1. o[1] \in Types
        BY OfferedHaveTypes DEF PriceInv
      <3>2. LiveOrTable(o[1]) \in {0, 10, 20, 30}
        BY <3>1, LiveOrTableIsFair
      <3>3. LiveOrTable(o[1]) > 0
        BY <2>2, <3>2 DEF OciPrice, OciOnDemand, Share
      <3> QED
        BY <3>1, <3>3, LiveOrTableIsFair DEF Secured, Charging
    <2>3. stage' # "refused" => \A o \in offered : Billed(o) => Secured(o)
      BY <2>1, <2>2 DEF Billed
    <2> QED
      BY <2>1, <2>3, GateOpens
  <1>10. CASE OciFetch
    BY <1>1, <1>10, ListIsAnswered DEF OciFetch, PriceInv, PriceType
  <1>11. CASE Unanswered("prices")
    BY <1>1, <1>11, ListFails
  <1>12. CASE OciRefresh
    <2> DEFINE accepted == {t \in Types : loop["prices"].got[t] > 0}
    <2>1. \A t \in accepted : loop["prices"].got[t] # NoQuote
      BY DEF NoQuote
    <2>2. Overlaid("prices", accepted)
      BY <1>12 DEF OciRefresh
    <2>3. cloud \in Charging => \A t \in accepted : loop["prices"].got[t] # 0
      BY DEF NoQuote
    <2> HIDE DEF accepted
    <2> QED
      BY <1>1, <2>1, <2>2, <2>3, ListGoesOver
  <1>13. CASE OciRunPriceRefresher
    BY <1>1, <1>2, <1>13, TickerFires DEF OciRunPriceRefresher
  <1> QED
    BY <1>3, <1>4, <1>5, <1>6, <1>7, <1>8, <1>9, <1>10, <1>11, <1>12, <1>13
       DEF OciNext, OciStart

\* OVHcloud: the operator's price, or else a cached or the pinned one.
LEMMA OvhAnswers ==
    ASSUME PriceInv, cloud = "ovhcloud", PastGate
    PROVE  FairAnswer(OvhSpeculativeSlots)
  <1>1. ASSUME NEW o \in offered
        PROVE  /\ OvhPrice(o) \in Int
               /\ cloud \in Charging /\ Billed(o) => OvhPrice(o) > 0
    <2>1. o[1] \in Types
      BY OfferedHaveTypes DEF PriceInv
    <2>2. Billed(o) => Secured(o)
      BY DEF PriceInv, GateHolds, Charging
    <2>3. /\ LiveOrTable(o[1]) \in {0, 10, 20, 30}
          /\ live[o[1]] # NoQuote \/ pinned.price[o[1]] # NoQuote => LiveOrTable(o[1]) > 0
          /\ pinned.override[o[1]] \in {-1, 50}
      BY <2>1, LiveOrTableIsFair, PricesAreNumbers DEF NoQuote, OverridePrice, Charging
    <2> QED
      BY <2>2, <2>3 DEF OvhPrice, Secured, NoQuote
  <1>2. OvhSpeculativeSlots \in [offered -> Records]
    BY <1>1 DEF OvhSpeculativeSlots, Records
  <1>3. \A o \in offered : /\ OvhSpeculativeSlots[o].price = OvhPrice(o)
                           /\ OvhSpeculativeSlots[o].sized = (o[1] \in sizes)
    BY DEF OvhSpeculativeSlots
  <1> QED
    BY <1>1, <1>2, <1>3 DEF FairAnswer

LEMMA OvhSteps ==
    ASSUME PriceInv, cloud = "ovhcloud", UNCHANGED cloud, OvhNext
    PROVE  PriceInv' /\ (CachesFill \/ stage' # "serving")
  <1>1. "prices" \in Loops /\ Loops = {"prices"}
    BY DEF Loops
  <1>2. \A l \in Loops : OvhWanted[l] \in SUBSET Types
    BY <1>1, AllTypesAreAsked DEF OvhWanted
  <1>3. CASE Requote
    BY <1>3, CloudMoves
  <1>4. CASE Warmed("sizes")
    BY <1>4, WarmUpEnds
  <1>5. CASE OvhRefreshFlavors
    BY <1>5, SizesAreLookedUp DEF OvhRefreshFlavors, PriceInv, PriceType
  <1>6. CASE Seeded(OvhSpeculativeSlots)
    BY <1>6, OvhAnswers, StoreIsSeeded DEF Seeded, PastGate
  <1>7. CASE OvhRestart
    BY <1>1, <1>2, <1>7, LifeEnds DEF OvhRestart
  <1>8. CASE OvhDescribe
    BY <1>8, OvhAnswers, RecordsAreRead DEF OvhDescribe, Described, PastGate
  <1>9. CASE Refreshed
    BY <1>9, RecordsAreTaken
  <1>10. CASE OvhGate
    <2>1. /\ stage' # "serving" /\ UNCHANGED <<offered, pinned>>
          /\ UNCHANGED <<cloudVars, cacheVars, kitVars>>
          /\ stage' # "refused" => \A t \in AllTypes : OvhKnown(t)
      BY <1>10 DEF OvhGate, Gated, Goes
    <2>2. stage' # "refused" => \A o \in offered : Billed(o) => Secured(o)
      BY <2>1, OfferedHaveTypes DEF OvhKnown, Secured, PriceInv
    <2> QED
      BY <2>1, <2>2, GateOpens
  <1>11. CASE OvhHourlyEUR
    <2> DEFINE answer == [t \in Types |-> IF quote[t] > 0 THEN quote[t] ELSE NoQuote]
    <2>1. answer \in [Types -> Quotes] /\ \A t \in Types : answer[t] # 0
      BY DEF PriceInv, PriceType, Quotes, NoQuote
    <2>2. Listed("prices", answer)
      BY <1>11 DEF OvhHourlyEUR
    <2> HIDE DEF answer
    <2> QED
      BY <1>1, <2>1, <2>2, ListIsAnswered
  <1>12. CASE Unanswered("prices")
    BY <1>1, <1>12, ListFails
  <1>13. CASE OvhRefresh
    <2> DEFINE accepted == {t \in Types : loop["prices"].got[t] # NoQuote}
    <2>1. \A t \in accepted : loop["prices"].got[t] # NoQuote
      BY DEF NoQuote
    <2>2. Overlaid("prices", accepted)
      BY <1>13 DEF OvhRefresh
    <2>3. cloud \in Charging => \A t \in accepted : loop["prices"].got[t] # 0
      BY DEF PriceInv, NoZeros
    <2> HIDE DEF accepted
    <2> QED
      BY <1>1, <2>1, <2>2, <2>3, ListGoesOver
  <1>14. CASE OvhRunPriceRefresher
    BY <1>1, <1>2, <1>14, TickerFires DEF OvhRunPriceRefresher
  <1> QED
    BY <1>3, <1>4, <1>5, <1>6, <1>7, <1>8, <1>9, <1>10, <1>11, <1>12, <1>13, <1>14
       DEF OvhNext, OvhStart

\* UpCloud: the operator's price, or else a cached or the pinned one.
LEMMA UpCloudAnswers ==
    ASSUME PriceInv, cloud = "upcloud"
    PROVE  FairAnswer(UpCloudSpeculativeSlots)
  <1>1. ASSUME NEW o \in offered
        PROVE  /\ UpCloudPrice(o) \in Int
               /\ cloud \in Charging /\ Billed(o) => UpCloudPrice(o) > 0
    <2>1. o[1] \in Types
      BY OfferedHaveTypes DEF PriceInv
    <2>2. LiveOrTable(o[1]) \in {0, 10, 20, 30} /\ pinned.override[o[1]] \in {-1, 50}
      BY <2>1, LiveOrTableIsFair, PricesAreNumbers DEF NoQuote, OverridePrice
    <2> QED
      BY <2>2 DEF UpCloudPrice, Charging
  <1>2. UpCloudSpeculativeSlots \in [offered -> Records]
    BY <1>1 DEF UpCloudSpeculativeSlots, Records
  <1>3. \A o \in offered : /\ UpCloudSpeculativeSlots[o].price = UpCloudPrice(o)
                           /\ UpCloudSpeculativeSlots[o].sized = (o[1] \in sizes)
    BY DEF UpCloudSpeculativeSlots
  <1> QED
    BY <1>1, <1>2, <1>3 DEF FairAnswer

LEMMA UpCloudSteps ==
    ASSUME PriceInv, cloud = "upcloud", UNCHANGED cloud, UpCloudNext
    PROVE  PriceInv' /\ (CachesFill \/ stage' # "serving")
  <1>1. "prices" \in Loops /\ Loops = {"prices"}
    BY DEF Loops
  <1>2. \A l \in Loops : UpCloudWanted[l] \in SUBSET Types
    BY <1>1, AllTypesAreAsked DEF UpCloudWanted
  <1>3. CASE Requote
    BY <1>3, CloudMoves
  <1>4. CASE Warmed("gate")
    BY <1>4, WarmUpEnds
  <1>5. CASE UpCloudRefreshPlans
    BY <1>5, SizesAreLookedUp DEF UpCloudRefreshPlans, PriceInv, PriceType
  <1>6. CASE Seeded(UpCloudSpeculativeSlots)
    BY <1>6, UpCloudAnswers, StoreIsSeeded
  <1>7. CASE UpCloudRestart
    BY <1>1, <1>2, <1>7, LifeEnds DEF UpCloudRestart
  <1>8. CASE UpCloudDescribe
    BY <1>8, UpCloudAnswers, RecordsAreRead DEF UpCloudDescribe
  <1>9. CASE Refreshed
    BY <1>9, RecordsAreTaken
  <1>10. CASE UpCloudRequirePrices
    <2>1. /\ stage' # "serving" /\ UNCHANGED <<offered, pinned>>
          /\ UNCHANGED <<cloudVars, cacheVars, kitVars>>
      BY <1>10 DEF UpCloudRequirePrices, Gated, Goes
    <2>2. sizes \subseteq sizes' /\ listing' \in Listings
      BY <2>1 DEF cacheVars, PriceInv, PriceType
    <2> QED
      BY <2>1, <2>2, StageMoves DEF cacheVars, Charging
  <1>11. CASE UpCloudDescribePlanPrices
    BY <1>1, <1>11, ListIsAnswered DEF UpCloudDescribePlanPrices, PriceInv, PriceType
  <1>12. CASE Unanswered("prices")
    BY <1>1, <1>12, ListFails
  <1>13. CASE UpCloudRefresh
    <2> DEFINE accepted == {t \in Types : loop["prices"].got[t] # NoQuote}
    <2>1. \A t \in accepted : loop["prices"].got[t] # NoQuote
      BY DEF NoQuote
    <2>2. Overlaid("prices", accepted)
      BY <1>13 DEF UpCloudRefresh
    <2>3. cloud \in Charging => \A t \in accepted : loop["prices"].got[t] # 0
      BY DEF Charging
    <2> HIDE DEF accepted
    <2> QED
      BY <1>1, <2>1, <2>2, <2>3, ListGoesOver
  <1>14. CASE UpCloudRunPriceRefresher
    BY <1>1, <1>2, <1>14, TickerFires DEF UpCloudRunPriceRefresher
  <1> QED
    BY <1>3, <1>4, <1>5, <1>6, <1>7, <1>8, <1>9, <1>10, <1>11, <1>12, <1>13, <1>14
       DEF UpCloudNext, UpCloudStart

-----------------------------------------------------------------------------
(* The invariant. *)

\* The state main begins in.
LEMMA FleetStarts ==
    ASSUME NEW capacities, NEW overrides, NEW spots, NEW first,
           FleetInit(capacities, overrides, spots, first),
           spots \subseteq {NoQuote, 1}, overrides \subseteq {OverridePrice},
           cloud \notin {"ovhcloud", "upcloud"} => overrides = {},
           cloud \in {"aws", "azure", "gcp", "oracle-cloud", "hetzner", "latitude",
                     "digitalocean", "scaleway", "ovhcloud", "upcloud"},
           first \in {"warm", "gate", "sizes"},
           cloud \in {"aws", "oracle-cloud"} => first = "warm",
           cloud \in {"azure", "gcp", "ovhcloud"} => first = "gate",
           NEW wanted, \A l \in Loops : wanted[l] \in SUBSET Types,
           loop = [l \in Loops |-> Asking(wanted[l])]
    PROVE  PriceInv
  <1>1. Unquoted \in [Types -> Quotes] /\ Unquoted \in [Types -> SpotQuotes]
        /\ \A t \in Types : Unquoted[t] # 0
    BY DEF Unquoted, Quotes, SpotQuotes, NoQuote
  <1>2. loop \in [Loops -> Refresh] /\ \A l \in Loops : loop[l].got = Unquoted
    BY <1>1 DEF Asking, Refresh
  <1>3. quote \in [Types -> Quotes] /\ spotQuote \in [Types -> SpotQuotes]
    BY DEF FleetInit, Quotes, SpotQuotes
  <1>4. /\ pinned \in Pinned /\ sizes = pinned.sizes
        /\ overrides = {} => \A t \in Types : pinned.override[t] = NoQuote
    BY DEF FleetInit, Pins, Pinned
  <1>5. /\ live = Unquoted /\ liveSpot = Unquoted /\ listing = NoListing /\ reading = NoReading
        /\ offered \in Menus /\ stage = first
        /\ published = [o \in UNION Menus |-> [price |-> NoQuote, sized |-> FALSE]]
    BY DEF FleetInit
  <1>6. ~reading.taken /\ reading \in [taken : BOOLEAN, records : {<<>>} \union [offered -> Records]]
    BY <1>5 DEF NoReading
  <1>7. listing \in Listings /\ published \in [UNION Menus -> Records]
    BY <1>1, <1>5 DEF NoListing, Listings, Records, NoQuote
  <1>8. PriceType
    BY <1>1, <1>2, <1>3, <1>4, <1>5, <1>6, <1>7 DEF PriceType
  <1>9. NoZeros
    BY <1>1, <1>2, <1>4, <1>5 DEF NoZeros, Loops
  <1>10. GateHolds
    BY <1>5 DEF GateHolds, PastGate, Charging
  <1>11. FairRecords /\ SizedRecords
    <2>1. \A o \in offered : published[o].price = NoQuote
      BY <1>5, <1>8, OfferedHaveTypes
    <2> QED
      BY <1>4, <1>5, <1>6, <2>1 DEF FairRecords, SizedRecords
  <1> QED
    BY <1>8, <1>9, <1>10, <1>11 DEF PriceInv

LEMMA PriceStarts == PriceInit => PriceInv
  <1> SUFFICES ASSUME PriceInit PROVE PriceInv
    OBVIOUS
  <1>1. AllTypes \subseteq Types /\ Sold({"spot"}) \subseteq Types
    <2>1. offered \in Menus
      BY DEF PriceInit, FleetInit, AwsInit, AzureInit, GcpInit, OciInit, HetznerInit, LatitudeInit, DigitalOceanInit, ScalewayInit, OvhInit, UpCloudInit
    <2> QED
      BY <2>1, MenusAssumption DEF AllTypes, Sold
  <1>2. CASE cloud = "aws" /\ AwsInit
    <2>1. DOMAIN AwsWanted = Loops /\ \A l \in Loops : AwsWanted[l] \in SUBSET Types
      BY <1>1, <1>2 DEF AwsWanted, Loops
    <2> QED
      BY <1>2, <2>1, FleetStarts DEF AwsInit
  <1>3. CASE cloud = "azure" /\ AzureInit
    <2>1. DOMAIN AzureWanted = Loops /\ \A l \in Loops : AzureWanted[l] \in SUBSET Types
      BY <1>1, <1>3 DEF AzureWanted, Loops
    <2> QED
      BY <1>3, <2>1, FleetStarts DEF AzureInit
  <1>4. CASE cloud = "gcp" /\ GcpInit
    <2>1. DOMAIN GcpWanted = Loops /\ \A l \in Loops : GcpWanted[l] \in SUBSET Types
      BY <1>1, <1>4 DEF GcpWanted, Loops
    <2> QED
      BY <1>4, <2>1, FleetStarts DEF GcpInit
  <1>5. CASE cloud = "oracle-cloud" /\ OciInit
    <2>1. DOMAIN OciWanted = Loops /\ \A l \in Loops : OciWanted[l] \in SUBSET Types
      BY <1>1, <1>5 DEF OciWanted, Loops
    <2> QED
      BY <1>5, <2>1, FleetStarts DEF OciInit
  <1>6. CASE cloud = "hetzner" /\ HetznerInit
    <2>1. DOMAIN HetznerWanted = Loops /\ \A l \in Loops : HetznerWanted[l] \in SUBSET Types
      BY <1>1, <1>6 DEF HetznerWanted, Loops
    <2> QED
      BY <1>6, <2>1, FleetStarts DEF HetznerInit
  <1>7. CASE cloud = "latitude" /\ LatitudeInit
    <2>1. DOMAIN LatitudeWanted = Loops /\ \A l \in Loops : LatitudeWanted[l] \in SUBSET Types
      BY <1>1, <1>7 DEF LatitudeWanted, Loops
    <2> QED
      BY <1>7, <2>1, FleetStarts DEF LatitudeInit
  <1>8. CASE cloud = "digitalocean" /\ DigitalOceanInit
    <2>1. DOMAIN DigitalOceanWanted = Loops /\ \A l \in Loops : DigitalOceanWanted[l] \in SUBSET Types
      BY <1>1, <1>8 DEF DigitalOceanWanted, Loops
    <2> QED
      BY <1>8, <2>1, FleetStarts DEF DigitalOceanInit
  <1>9. CASE cloud = "scaleway" /\ ScalewayInit
    <2>1. DOMAIN ScalewayWanted = Loops /\ \A l \in Loops : ScalewayWanted[l] \in SUBSET Types
      BY <1>1, <1>9 DEF ScalewayWanted, Loops
    <2> QED
      BY <1>9, <2>1, FleetStarts DEF ScalewayInit
  <1>10. CASE cloud = "ovhcloud" /\ OvhInit
    <2>1. DOMAIN OvhWanted = Loops /\ \A l \in Loops : OvhWanted[l] \in SUBSET Types
      BY <1>1, <1>10 DEF OvhWanted, Loops
    <2> QED
      BY <1>10, <2>1, FleetStarts DEF OvhInit
  <1>11. CASE cloud = "upcloud" /\ UpCloudInit
    <2>1. DOMAIN UpCloudWanted = Loops /\ \A l \in Loops : UpCloudWanted[l] \in SUBSET Types
      BY <1>1, <1>11 DEF UpCloudWanted, Loops
    <2> QED
      BY <1>11, <2>1, FleetStarts DEF UpCloudInit
  <1> QED
    BY <1>2, <1>3, <1>4, <1>5, <1>6, <1>7, <1>8, <1>9, <1>10, <1>11
       DEF PriceInit

LEMMA PriceSteps ==
    ASSUME PriceInv, PriceNext
    PROVE  PriceInv' /\ UNCHANGED cloud /\ (CachesFill \/ stage' # "serving")
  <1>1. UNCHANGED cloud
    BY DEF PriceNext
  <1> QED
    BY <1>1, AwsSteps, AzureSteps, GcpSteps, OciSteps, HetznerSteps,
       LatitudeSteps, DigitalOceanSteps, ScalewaySteps, OvhSteps, UpCloudSteps
       DEF PriceNext

LEMMA PriceStutters ==
    ASSUME PriceInv, UNCHANGED priceVars
    PROVE  PriceInv' /\ UNCHANGED cloud /\ CachesFill
  <1>1. UNCHANGED <<offered, quote, spotQuote, pinned, live, liveSpot, sizes, listing, loop,
                    reading, published, stage, cloud>>
    BY DEF priceVars, pricingVars, cloudVars, startVars, cacheVars, kitVars
  <1>2. PriceType' /\ NoZeros' /\ GateHolds'
    BY <1>1 DEF PriceInv, PriceType, Loops, NoZeros, GateHolds, PastGate, Secured, Billed
  <1>3. FairRecords' /\ SizedRecords'
    BY <1>1 DEF PriceInv, FairRecords, SizedRecords, Billed
  <1> QED
    BY <1>1, <1>2, <1>3 DEF PriceInv, CachesFill

\* What is published is the answer of a gate that has held ever since it was asked:
\* through lists that drop a type or price it at 0, stale Describes and old snapshots.
THEOREM PricesAreKept == PriceSpec => []PriceInv
  <1>1. PriceInv /\ [PriceNext]_priceVars => PriceInv'
    BY PriceSteps, PriceStutters
  <1> QED
    BY PriceStarts, <1>1, PTL DEF PriceSpec

\* A provider with a check at its start never serves a billed machine as free, for every
\* fleet, table, list and interleaving of the loops, the reconciler and restarts.
THEOREM PricesAreCharged == PriceSpec => []NeverFree
  <1>1. PriceInv => NeverFree
    <2> SUFFICES ASSUME PriceInv, stage = "serving", cloud \in Charging, NEW o \in offered, Billed(o)
                 PROVE  published[o].price > 0
      BY DEF NeverFree, Charging, Billed
    <2> QED
      BY DEF PriceInv, FairRecords
  <1> QED
    BY PricesAreKept, <1>1, PTL

\* A slot of a type in the build's table of sizes is published with its size, whatever
\* the lookup answers, in every life.
THEOREM SizesAreKnown == PriceSpec => []CapacityKnown
  <1>1. PriceInv => CapacityKnown
    BY DEF PriceInv, SizedRecords, CapacityKnown
  <1> QED
    BY PricesAreKept, <1>1, PTL

-----------------------------------------------------------------------------
(* The last known price. *)

\* No product of a quote by a share is that of the pinned price.
LEMMA SharesDiffer ==
    /\ Share(3, 10) = 3 /\ Share(3, 20) = 6 /\ Share(3, 30) = 9
    /\ Share(4, 10) = 4 /\ Share(4, 20) = 8 /\ Share(4, 30) = 12
    /\ Share(5, 0) = 0 /\ Share(5, 10) = 5 /\ Share(5, 20) = 10 /\ Share(5, 30) = 15
  BY DEF Share

\* What a step of a serving process may do to what is known of a type.
QuoteStays(t) ==
    /\ live[t] \in {-1, 0, 10, 20} /\ live'[t] \in {-1, 0, 10, 20}
    /\ liveSpot[t] \in {-1, 1, 2} /\ liveSpot'[t] \in {-1, 1, 2}
    /\ live[t] # -1 => live'[t] # -1
    /\ liveSpot[t] # -1 => liveSpot'[t] # -1
    /\ cloud \in Charging => live[t] # 0 /\ live'[t] # 0
    /\ pinned.price[t] = 30 /\ pinned' = pinned
    /\ pinned.override[t] \in {-1, 50}

LEMMA QuotesStay ==
    ASSUME PriceInv, PriceInv', UNCHANGED <<cloud, pinned>>, CachesFill, NEW o \in offered,
           pinned.price[o[1]] # NoQuote
    PROVE  QuoteStays(o[1])
  <1>1. o[1] \in Types
    BY OfferedHaveTypes DEF PriceInv
  <1>2. /\ live[o[1]] \in {-1, 0, 10, 20} /\ liveSpot[o[1]] \in {-1, 1, 2}
        /\ pinned.price[o[1]] = 30 /\ pinned.override[o[1]] \in {-1, 50}
        /\ cloud \in Charging => live[o[1]] # 0
    BY <1>1, PricesAreNumbers DEF NoQuote, TablePrice, OverridePrice
  <1>3. /\ live' \in [Types -> Quotes] /\ liveSpot' \in [Types -> SpotQuotes]
        /\ cloud \in Charging => \A t \in Types : live'[t] # 0
    BY DEF PriceInv, PriceType, NoZeros
  <1>4. /\ live'[o[1]] \in {-1, 0, 10, 20} /\ liveSpot'[o[1]] \in {-1, 1, 2}
        /\ cloud \in Charging => live'[o[1]] # 0
    BY <1>1, <1>3 DEF Quotes, SpotQuotes, NoQuote
  <1> QED
    BY <1>1, <1>2, <1>4 DEF QuoteStays, CachesFill, NoQuote

\* What the build and the flags pin is never written.
LEMMA PinnedStays ==
    ASSUME PriceNext
    PROVE  UNCHANGED pinned
  <1>1. Requote \/ Expires \/ Refreshed => UNCHANGED pinned
    BY DEF Requote, Expires, Refreshed, startVars
  <1>2. AwsNext => UNCHANGED pinned
    BY <1>1
       DEF AwsNext, AwsStart, AwsRestart, AwsSpotPriceUSD, AwsOnDemandPricesUSD, AwsRefreshOnDemand,
           AwsRunSpotRefresher, AwsRunOnDemandRefresher, AwsDescribe, AwsGate,
           AwsRefreshInstanceTypes, Asked, Described, Died, Gated, Goes, Listed, Overlaid, Resolved,
           Seeded, Ticked, Unanswered, Warmed, startVars
  <1>3. AzureNext => UNCHANGED pinned
    BY <1>1
       DEF AzureNext, AzureStart, AzureRestart, AzureOnDemandPriceUSD, AzureSpotPriceUSD,
           AzureRunPriceRefresher, AzureDescribe, AzureGate, AzureRefreshVMSizes, Asked, Described,
           Died, Gated, Goes, Resolved, Seeded, Ticked, Warmed, startVars
  <1>4. GcpNext => UNCHANGED pinned
    BY <1>1
       DEF GcpNext, GcpStart, GcpRestart, GcpOnDemandPriceUSD, GcpRunPriceRefresher, GcpRefresh,
           GcpDescribe, GcpGate, GcpRefreshMachineTypes, Described, Died, Gated, Goes, Overlaid,
           Resolved, Seeded, Ticked, Warmed, startVars
  <1>5. OciNext => UNCHANGED pinned
    BY <1>1
       DEF OciNext, OciStart, OciRestart, OciFetch, OciRefresh, OciRunPriceRefresher, OciDescribe,
           OciValidatePricing, Described, Died, Gated, Goes, Listed, Overlaid, Seeded, Ticked,
           Unanswered, Warmed, startVars
  <1>6. HetznerNext => UNCHANGED pinned
    BY <1>1
       DEF HetznerNext, HetznerStart, HetznerRestart, HetznerPriceUSD, HetznerRunPriceRefresher,
           HetznerDescribe, HetznerRefreshServerTypes, Asked, Described, Died, Goes, Resolved,
           Seeded, Ticked, Warmed, startVars
  <1>7. LatitudeNext => UNCHANGED pinned
    BY <1>1
       DEF LatitudeNext, LatitudeStart, LatitudeRestart, LatitudePriceUSD,
           LatitudeRunPriceRefresher, LatitudeDescribe, LatitudeRefreshPlans, Asked, Described,
           Died, Goes, Resolved, Seeded, Ticked, Warmed, startVars
  <1>8. DigitalOceanNext => UNCHANGED pinned
    BY <1>1
       DEF DigitalOceanNext, DigitalOceanStart, DigitalOceanRestart, DigitalOceanPriceUSD,
           DigitalOceanRunPriceRefresher, DigitalOceanDescribe, DigitalOceanRefreshSizes, Asked,
           Described, Died, Goes, Resolved, Seeded, Ticked, Warmed, startVars
  <1>9. ScalewayNext => UNCHANGED pinned
    BY <1>1
       DEF ScalewayNext, ScalewayStart, ScalewayRestart, ScalewayPriceUSD,
           ScalewayRunPriceRefresher, ScalewayDescribe, ScalewayGate, ScalewayRefreshTypes, Asked,
           Described, Died, Gated, Goes, Resolved, Seeded, Ticked, Warmed, startVars
  <1>10. OvhNext => UNCHANGED pinned
    BY <1>1
       DEF OvhNext, OvhStart, OvhRestart, OvhHourlyEUR, OvhRefresh, OvhRunPriceRefresher,
           OvhDescribe, OvhGate, OvhRefreshFlavors, Described, Died, Gated, Goes, Listed, Overlaid,
           Resolved, Seeded, Ticked, Unanswered, Warmed, startVars
  <1>11. UpCloudNext => UNCHANGED pinned
    BY <1>1
       DEF UpCloudNext, UpCloudStart, UpCloudRestart, UpCloudDescribePlanPrices, UpCloudRefresh,
           UpCloudRunPriceRefresher, UpCloudDescribe, UpCloudRefreshPlans, UpCloudRequirePrices,
           Described, Died, Gated, Goes, Listed, Overlaid, Resolved, Seeded, Ticked, Unanswered,
           Warmed, startVars
  <1> QED
    BY <1>1, <1>2, <1>3, <1>4, <1>5, <1>6, <1>7, <1>8, <1>9, <1>10, <1>11 DEF PriceNext

\* A price other than the pinned one is other after the step too.
LEMMA PricesStay ==
    ASSUME NEW o, QuoteStays(o[1]), UNCHANGED cloud,
           cloud \in {"aws", "azure", "gcp", "oracle-cloud", "hetzner", "latitude",
                     "digitalocean", "scaleway", "ovhcloud", "upcloud"},
           PriceOf(o) # Priced(o, TablePrice)
    PROVE  PriceOf(o)' # Priced(o, TablePrice)
  <1>1. CASE cloud = "aws"
    <2>1. PriceOf(o) = AwsPrice(o) /\ PriceOf(o)' = AwsPrice(o)'
      BY <1>1 DEF PriceOf
    <2> QED
      BY <1>1, <2>1, SharesDiffer
         DEF QuoteStays, AwsPrice, AwsOnDemandPrice, LiveOrTable, Table, Priced, SpotShare, NoQuote, TablePrice, Charging
  <1>2. CASE cloud = "azure"
    <2>1. PriceOf(o) = AzurePrice(o) /\ PriceOf(o)' = AzurePrice(o)'
      BY <1>2 DEF PriceOf
    <2> QED
      BY <1>2, <2>1, SharesDiffer
         DEF QuoteStays, AzurePrice, AzureOnDemand, Priced, SpotShare, NoQuote, TablePrice, Charging
  <1>3. CASE cloud = "gcp"
    <2>1. PriceOf(o) = GcpPrice(o) /\ PriceOf(o)' = GcpPrice(o)'
      BY <1>3 DEF PriceOf
    <2> QED
      BY <1>3, <2>1, SharesDiffer
         DEF QuoteStays, GcpPrice, GcpOnDemand, Table, Priced, SpotShare, NoQuote, TablePrice, Charging
  <1>4. CASE cloud = "oracle-cloud"
    <2>1. PriceOf(o) = OciPrice(o) /\ PriceOf(o)' = OciPrice(o)'
      BY <1>4 DEF PriceOf
    <2> QED
      BY <1>4, <2>1, SharesDiffer
         DEF QuoteStays, OciPrice, OciOnDemand, LiveOrTable, Table, Priced, SpotShare, NoQuote, TablePrice, Charging
  <1>5. CASE cloud = "hetzner"
    <2>1. PriceOf(o) = HetznerPrice(o) /\ PriceOf(o)' = HetznerPrice(o)'
      BY <1>5 DEF PriceOf
    <2> QED
      BY <1>5, <2>1, SharesDiffer
         DEF QuoteStays, HetznerPrice, LiveOrTable, Table, Priced, SpotShare, NoQuote, TablePrice, Charging
  <1>6. CASE cloud = "latitude"
    <2>1. PriceOf(o) = LatitudePrice(o) /\ PriceOf(o)' = LatitudePrice(o)'
      BY <1>6 DEF PriceOf
    <2> QED
      BY <1>6, <2>1, SharesDiffer
         DEF QuoteStays, LatitudePrice, LiveOrTable, Table, Priced, SpotShare, NoQuote, TablePrice, Charging
  <1>7. CASE cloud = "digitalocean"
    <2>1. PriceOf(o) = DigitalOceanPrice(o) /\ PriceOf(o)' = DigitalOceanPrice(o)'
      BY <1>7 DEF PriceOf
    <2> QED
      BY <1>7, <2>1, SharesDiffer
         DEF QuoteStays, DigitalOceanPrice, LiveOrTable, Table, Priced, SpotShare, NoQuote, TablePrice, Charging
  <1>8. CASE cloud = "scaleway"
    <2>1. PriceOf(o) = ScalewayPrice(o) /\ PriceOf(o)' = ScalewayPrice(o)'
      BY <1>8 DEF PriceOf
    <2> QED
      BY <1>8, <2>1, SharesDiffer
         DEF QuoteStays, ScalewayPrice, LiveOrTable, Table, Priced, SpotShare, NoQuote, TablePrice, Charging
  <1>9. CASE cloud = "ovhcloud"
    <2>1. PriceOf(o) = OvhPrice(o) /\ PriceOf(o)' = OvhPrice(o)'
      BY <1>9 DEF PriceOf
    <2> QED
      BY <1>9, <2>1, SharesDiffer
         DEF QuoteStays, OvhPrice, LiveOrTable, Table, Priced, SpotShare, NoQuote, TablePrice, Charging
  <1>10. CASE cloud = "upcloud"
    <2>1. PriceOf(o) = UpCloudPrice(o) /\ PriceOf(o)' = UpCloudPrice(o)'
      BY <1>10 DEF PriceOf
    <2> QED
      BY <1>10, <2>1, SharesDiffer
         DEF QuoteStays, UpCloudPrice, LiveOrTable, Table, Priced, SpotShare, NoQuote, TablePrice, Charging
  <1> QED
    BY <1>1, <1>2, <1>3, <1>4, <1>5, <1>6, <1>7, <1>8, <1>9, <1>10

\* No step of a serving process, and no order of the refreshes and their failures, brings
\* a price back to the build's table once the cloud has told it.
THEOREM LastKnownIsKept == PriceSpec => LastKnownKept
  <1> DEFINE Step ==
        \A o \in offered :
          LET pin == Priced(o, TablePrice)
          IN /\ pinned.price[o[1]] # NoQuote
             /\ stage = "serving" /\ stage' = "serving"
             /\ PriceOf(o) # pin
             => PriceOf(o)' # pin
  <1>1. PriceInv /\ PriceInv' /\ [PriceNext]_priceVars => [Step]_priceVars
    <2> SUFFICES ASSUME PriceInv, PriceInv', PriceNext
                 PROVE  Step
      OBVIOUS
    <2> SUFFICES ASSUME NEW o \in offered, pinned.price[o[1]] # NoQuote,
                        stage = "serving", stage' = "serving",
                        PriceOf(o) # Priced(o, TablePrice)
                 PROVE  PriceOf(o)' # Priced(o, TablePrice)
      OBVIOUS
    <2>1. UNCHANGED cloud /\ CachesFill
      BY PriceSteps
    <2>2. UNCHANGED pinned
      BY PinnedStays
    <2>3. QuoteStays(o[1])
      BY <2>1, <2>2, QuotesStay
    <2> QED
      BY <2>1, <2>3, PricesStay DEF PriceInv, PriceType
  <1>2. PriceSpec => [][Step]_priceVars
    BY PricesAreKept, <1>1, PTL DEF PriceSpec
  <1> QED
    BY <1>2 DEF LastKnownKept
=============================================================================
