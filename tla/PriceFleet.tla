----------------------------- MODULE PriceFleet -----------------------------
(***************************************************************************)
(* What the providers with a live price list share: the cloud's quotes,    *)
(* the tables pinned in the build, the caches the refresh loops fill, the  *)
(* sizes looked up once, and the way of a price from a cache through       *)
(* Describe into the kit's records.  main warms the caches before it       *)
(* serves; `stage' says how far it has come.  Prices are in tenths.        *)
(***************************************************************************)
EXTENDS Integers

CONSTANTS
    Types,         \* instance types
    Menus,         \* offerings a provider may be given: sets of <<type, capacity>>
    MaxRequotes,   \* bound on the changes of the cloud's quotes
    MaxLives       \* bound on the restarts of the provider

ASSUME MenusAssumption == Menus \subseteq SUBSET (Types \X {"on-demand", "spot", "bare-metal"})

VARIABLES
    offered,          \* the offerings of this provider
    quote, spotQuote, \* the cloud: what it quotes for a type, NoQuote if nothing
    pinned,           \* the build and the flags: price table, overrides, table of sizes
    live, liveSpot,   \* the provider's caches of quotes
    sizes,            \* the types whose vCPUs and memory the provider knows
    listing,          \* the client's own cache of the price list, NoListing if stale
    loop,             \* each refresh: its stage, the types to ask for, the answers
    reading,          \* the records that a Describe in progress returned
    published,        \* the kit's record of each offering: its price, whether it is sized
    stage, requotes, lives

cloudVars == <<quote, spotQuote, requotes>>
startVars == <<offered, pinned, stage, lives>>
cacheVars == <<live, liveSpot, sizes, listing, loop>>
kitVars == <<reading, published>>
pricingVars == <<cloudVars, startVars, cacheVars, kitVars>>

NoQuote == -1
TablePrice == 30
OverridePrice == 50
Unquoted == [t \in Types |-> NoQuote]
NoListing == [listed |-> FALSE, price |-> Unquoted]
NoReading == [taken |-> FALSE, records |-> <<>>]

Sold(capacities) == {o[1] : o \in {p \in offered : p[2] \in capacities}}
AllTypes == Sold({"on-demand", "spot", "bare-metal"})
Idle == [stage |-> "idle", todo |-> {}, got |-> Unquoted]
Asking(todo) ==
    [stage |-> IF todo = {} THEN "idle" ELSE "asking", todo |-> todo, got |-> Unquoted]

\* A share, in tenths, of a price.
Share(tenths, price) == (tenths * price) \div 10

\* The pinned price, 0 where there is none, and a cached quote that goes before it.
Table(t) == IF pinned.price[t] = NoQuote THEN 0 ELSE pinned.price[t]
LiveOrTable(t) == IF live[t] = NoQuote THEN Table(t) ELSE live[t]
Cache(t, q) == live' = IF q = NoQuote THEN live ELSE [live EXCEPT ![t] = q]

\* The price list a client answers from: its own copy while that is fresh.
PriceList == IF listing.listed THEN listing ELSE [listed |-> TRUE, price |-> quote]
Expires ==
    /\ listing.listed
    /\ listing' = NoListing
    /\ UNCHANGED <<cloudVars, startVars, live, liveSpot, sizes, loop, kitVars>>

\* Tables over the types on offer.
Pins(prices) ==
    {f \in [Types -> prices \union {NoQuote}] : \A t \in Types \ AllTypes : f[t] = NoQuote}

\* A provider of these capacities, before main warms its caches.
FleetInit(capacities, overrides, spots, first) ==
    /\ offered \in {menu \in Menus : \A o \in menu : o[2] \in capacities}
    /\ quote = [t \in Types |-> IF t \in AllTypes THEN 10 ELSE NoQuote]
    /\ \E spot \in spots :
         spotQuote = [t \in Types |-> IF t \in Sold({"spot"}) THEN spot ELSE NoQuote]
    /\ pinned \in [price : Pins({TablePrice}), override : Pins(overrides),
                   sizes : {{}, Types}]
    /\ live = Unquoted /\ liveSpot = Unquoted
    /\ sizes = pinned.sizes
    /\ listing = NoListing
    /\ reading = NoReading
    /\ published = [o \in UNION Menus |-> [price |-> NoQuote, sized |-> FALSE]]
    /\ stage = first
    /\ requotes = 0 /\ lives = 0

-----------------------------------------------------------------------------
(* main: its steps before it serves, and its death at any of them. *)

Goes(to) == stage' = to /\ UNCHANGED <<offered, pinned, lives>>

\* The warm-up is over: its loops have nothing more to ask.
Warmed(to) ==
    /\ stage = "warm"
    /\ \A l \in DOMAIN loop : loop[l].stage = "idle"
    /\ Goes(to)
    /\ UNCHANGED <<cloudVars, cacheVars, kitVars>>

\* The process refuses to start unless every offering is priced.
Gated(priced, to) ==
    /\ stage = "gate"
    /\ Goes(IF priced THEN to ELSE "refused")
    /\ UNCHANGED <<cloudVars, cacheVars, kitVars>>

\* Mutant: what the cloud answers takes the place of the pinned table.
ResolvedAnew(to, answers) ==
    /\ stage = "sizes"
    /\ \E found \in answers : sizes' = found
    /\ Goes(to)
    /\ UNCHANGED <<cloudVars, live, liveSpot, loop, kitVars>>

\* The sizes the cloud answers are added to the pinned ones.
Resolved(to, answers) ==
    /\ stage = "sizes"
    /\ \E found \in answers : sizes' = sizes \union found
    /\ Goes(to)
    /\ UNCHANGED <<cloudVars, live, liveSpot, loop, kitVars>>

\* New: a fresh store is filled from Describe, a stored snapshot is taken as it is.
Seeded(records) ==
    /\ stage = "seed"
    /\ \/ published' = [o \in UNION Menus |-> IF o \in offered THEN records[o] ELSE published[o]]
       \/ /\ \A o \in offered : published[o].price # NoQuote
          /\ UNCHANGED published
    /\ Goes("serving")
    /\ UNCHANGED <<cloudVars, cacheVars, reading>>

\* A process that would not start is started again, like one that died.
Died(first, wanted) ==
    /\ \/ stage = "refused" /\ UNCHANGED lives
       \/ lives < MaxLives /\ lives' = lives + 1
    /\ stage' = first
    /\ live' = Unquoted /\ liveSpot' = Unquoted
    /\ sizes' = pinned.sizes
    /\ listing' = NoListing
    /\ loop' = [l \in DOMAIN loop |-> Asking(wanted[l])]
    /\ reading' = NoReading
    /\ UNCHANGED <<cloudVars, offered, pinned, published>>

-----------------------------------------------------------------------------
(* The refresh loops and the reconciler. *)

Ticked(loops, wanted) ==
    /\ stage = "serving"
    /\ \A l \in loops : loop[l] = Idle
    /\ loop' = [l \in DOMAIN loop |-> IF l \in loops THEN Asking(wanted[l]) ELSE loop[l]]
    /\ UNCHANGED <<cloudVars, startVars, live, liveSpot, sizes, listing, kitVars>>

Refreshing(l) == stage \in {"warm", "serving"} /\ loop[l].stage = "asking"

\* One type of the loop is done with, whether or not it was answered.
Asked(l, t) ==
    /\ Refreshing(l) /\ t \in loop[l].todo
    /\ loop' = [loop EXCEPT ![l] = Asking(loop[l].todo \ {t})]
    /\ UNCHANGED <<cloudVars, startVars, sizes, kitVars>>

\* A whole list is answered, or not; it is looked at later, under the lock.
Listed(l, answer) ==
    /\ Refreshing(l)
    /\ loop' = [loop EXCEPT ![l].stage = "answered", ![l].got = answer]
    /\ UNCHANGED <<cloudVars, startVars, live, liveSpot, sizes, listing, kitVars>>

Unanswered(l) ==
    /\ Refreshing(l)
    /\ loop' = [loop EXCEPT ![l] = Idle]
    /\ UNCHANGED <<cloudVars, startVars, live, liveSpot, sizes, listing, kitVars>>

\* Mutant: the cache is exchanged for the answer.
OverlaidAnew(l, accepted) ==
    /\ loop[l].stage = "answered"
    /\ live' = [t \in Types |-> IF t \in accepted THEN loop[l].got[t] ELSE NoQuote]
    /\ loop' = [loop EXCEPT ![l] = Idle]
    /\ UNCHANGED <<cloudVars, startVars, liveSpot, sizes, listing, kitVars>>

\* Of the answer, the accepted types go over the cache.
Overlaid(l, accepted) ==
    /\ loop[l].stage = "answered"
    /\ live' = [t \in Types |-> IF t \in accepted THEN loop[l].got[t] ELSE live[t]]
    /\ loop' = [loop EXCEPT ![l] = Idle]
    /\ UNCHANGED <<cloudVars, startVars, liveSpot, sizes, listing, kitVars>>

\* Describe reads the caches, and the kit refreshes its records later.
Described(records) ==
    /\ stage = "serving" /\ ~reading.taken
    /\ reading' = [taken |-> TRUE, records |-> records]
    /\ UNCHANGED <<cloudVars, startVars, cacheVars, published>>

Refreshed ==
    /\ reading.taken
    /\ published' = [o \in UNION Menus |->
                        IF o \in offered THEN reading.records[o] ELSE published[o]]
    /\ reading' = NoReading
    /\ UNCHANGED <<cloudVars, startVars, cacheVars>>

-----------------------------------------------------------------------------
(* The cloud. *)

Requote ==
    /\ requotes < MaxRequotes
    /\ requotes' = requotes + 1
    /\ \/ \E t \in AllTypes, q \in {NoQuote, 0, 20} :
            quote' = [quote EXCEPT ![t] = q] /\ UNCHANGED spotQuote
       \/ \E t \in {u \in AllTypes : spotQuote[u] # NoQuote} :
            spotQuote' = [spotQuote EXCEPT ![t] = 2] /\ UNCHANGED quote
    /\ UNCHANGED <<startVars, cacheVars, kitVars>>
=============================================================================
