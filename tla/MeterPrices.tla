----------------------------- MODULE MeterPrices ----------------------------
(***************************************************************************)
(* The providers that bill by meters: AWS (an offer file and a spot        *)
(* market), Azure (a meter for each size) and GCP (a SKU for the cores and *)
(* the memory of a family).                                                *)
(***************************************************************************)
EXTENDS PriceFleet

-----------------------------------------------------------------------------
(***************************************************************************)
(* AWS: spot prices are asked for pair by pair, on-demand prices from one  *)
(* offer file, each by a loop of its own; a process in which an on-demand  *)
(* offering has no price does not start.                                   *)
(***************************************************************************)
\* The capacity types an offering may have. A reservation is priced as on-demand.
AwsCapacityTypes == {"on-demand", "spot", "bare-metal"}

AwsWanted == [l \in {"spot", "onDemand"} |-> IF l = "spot" THEN Sold({"spot"}) ELSE AllTypes]

AwsOnDemandPrice(t) == LiveOrTable(t)
AwsPrice(o) == CASE o[2] = "bare-metal" -> 0
                 [] o[2] = "spot" -> IF liveSpot[o[1]] # NoQuote THEN liveSpot[o[1]]
                                     ELSE Share(3, AwsOnDemandPrice(o[1]))
                 [] OTHER -> AwsOnDemandPrice(o[1])
AwsSpeculativeSlots == [o \in offered |-> [price |-> AwsPrice(o), sized |-> o[1] \in sizes]]

AwsUnpricedOnDemand == {o \in offered : o[2] = "on-demand" /\ AwsPrice(o) <= 0}
AwsGate == Gated(AwsUnpricedOnDemand = {}, "sizes")
\* The types whose size the cloud gives; none, if a request fails.
AwsDescribeInstanceCapacities == SUBSET AllTypes
AwsRefreshInstanceTypes == Resolved("seed", AwsDescribeInstanceCapacities) /\ UNCHANGED listing
AwsStart == Warmed("gate") \/ AwsGate \/ AwsRefreshInstanceTypes \/ Seeded(AwsSpeculativeSlots)
AwsRestart == Died("warm", AwsWanted)

AwsSpotPriceUSD(t) ==
    /\ Asked("spot", t)
    /\ \/ spotQuote[t] # NoQuote /\ liveSpot' = [liveSpot EXCEPT ![t] = spotQuote[t]]
       \/ UNCHANGED liveSpot
    /\ UNCHANGED <<live, listing>>

AwsOnDemandPricesUSD == Listed("onDemand", quote)

\* Mutant: a type that the offer file prices at 0 is taken at that.
AwsRefreshOnDemandUnchecked ==
    Overlaid("onDemand", {t \in Types : loop["onDemand"].got[t] # NoQuote})

AwsRefreshOnDemand == Overlaid("onDemand", {t \in Types : loop["onDemand"].got[t] > 0})

AwsRunSpotRefresher == Ticked({"spot"}, AwsWanted)
AwsRunOnDemandRefresher == Ticked({"onDemand"}, AwsWanted)
AwsDescribe == Described(AwsSpeculativeSlots)

AwsInit ==
    /\ FleetInit(AwsCapacityTypes, {}, {NoQuote, 1}, "warm")
    /\ loop = [l \in DOMAIN AwsWanted |-> Asking(AwsWanted[l])]

AwsNext ==
    \/ Requote
    \/ AwsStart \/ AwsRestart
    \/ \E t \in Types : AwsSpotPriceUSD(t)
    \/ AwsOnDemandPricesUSD \/ Unanswered("onDemand") \/ AwsRefreshOnDemand
    \/ AwsRunSpotRefresher \/ AwsRunOnDemandRefresher
    \/ AwsDescribe \/ Refreshed

-----------------------------------------------------------------------------
(***************************************************************************)
(* Azure: on-demand and then spot prices are asked for size by size, where *)
(* a meter of 0 is no answer; only sizes with a seed price are offered.    *)
(***************************************************************************)
\* The capacity types an offering may have. A reservation is priced as on-demand.
AzureCapacityTypes == {"on-demand", "spot"}

AzureWanted == [l \in {"spot", "onDemand"} |-> IF l = "spot" THEN Sold({"spot"}) ELSE AllTypes]

AzureUnknownSizePrice == 10000
AzureOnDemand(t) == IF live[t] # NoQuote THEN live[t]
                    ELSE IF pinned.price[t] # NoQuote THEN pinned.price[t] ELSE AzureUnknownSizePrice
AzurePrice(o) == IF o[2] = "spot"
                 THEN IF liveSpot[o[1]] # NoQuote THEN liveSpot[o[1]] ELSE Share(4, AzureOnDemand(o[1]))
                 ELSE AzureOnDemand(o[1])
AzureSpeculativeSlots == [o \in offered |-> [price |-> AzurePrice(o), sized |-> o[1] \in sizes]]

AzureGate == Gated(\A t \in AllTypes : pinned.price[t] # NoQuote, "warm")
\* The types whose size the cloud gives; none, if a request fails.
AzureDescribeVMSizeCapacities == SUBSET AllTypes
AzureRefreshVMSizes == Resolved("seed", AzureDescribeVMSizeCapacities) /\ UNCHANGED listing
AzureStart == AzureGate \/ Warmed("sizes") \/ AzureRefreshVMSizes \/ Seeded(AzureSpeculativeSlots)
AzureRestart == Died("gate", AzureWanted)

AzureOnDemandPriceUSD(t) ==
    /\ Asked("onDemand", t)
    /\ \/ quote[t] > 0 /\ Cache(t, quote[t])
       \/ UNCHANGED live
    /\ UNCHANGED <<liveSpot, listing>>

AzureSpotPriceUSD(t) ==
    /\ loop["onDemand"].stage = "idle"
    /\ Asked("spot", t)
    /\ \/ spotQuote[t] > 0 /\ liveSpot' = [liveSpot EXCEPT ![t] = spotQuote[t]]
       \/ UNCHANGED liveSpot
    /\ UNCHANGED <<live, listing>>

AzureRunPriceRefresher == Ticked(DOMAIN AzureWanted, AzureWanted)
AzureDescribe == Described(AzureSpeculativeSlots)

AzureInit ==
    /\ FleetInit(AzureCapacityTypes, {}, {NoQuote, 1}, "gate")
    /\ loop = [l \in DOMAIN AzureWanted |-> Asking(AzureWanted[l])]

AzureNext ==
    \/ Requote
    \/ AzureStart \/ AzureRestart
    \/ \E t \in Types : AzureOnDemandPriceUSD(t) \/ AzureSpotPriceUSD(t)
    \/ AzureRunPriceRefresher
    \/ AzureDescribe \/ Refreshed

-----------------------------------------------------------------------------
(***************************************************************************)
(* GCP: only types with a pinned price are offered; a price is made of the *)
(* family's core and memory rates and the pinned size of the type, and the *)
(* answers are kept together once every type was asked for.                *)
(***************************************************************************)
\* The capacity types an offering may have. A reservation is priced as on-demand.
GcpCapacityTypes == {"on-demand", "spot"}

GcpWanted == [l \in {"prices"} |-> AllTypes]
GcpOnDemand(t) == IF live[t] > 0 THEN live[t] ELSE Table(t)
GcpPrice(o) == IF o[2] = "spot" THEN Share(4, GcpOnDemand(o[1])) ELSE GcpOnDemand(o[1])
GcpSpeculativeSlots == [o \in offered |-> [price |-> GcpPrice(o), sized |-> o[1] \in sizes]]

GcpGate == Gated(\A t \in AllTypes : Table(t) > 0, "warm")
\* The types whose size the cloud gives; none, if a request fails.
GcpDescribeMachineTypeCapacities == SUBSET AllTypes
GcpRefreshMachineTypes == Resolved("seed", GcpDescribeMachineTypeCapacities) /\ UNCHANGED listing
GcpStart == GcpGate \/ Warmed("sizes") \/ GcpRefreshMachineTypes \/ Seeded(GcpSpeculativeSlots)
GcpRestart == Died("gate", GcpWanted)

\* The type is done with, at this price or none.
GcpAnswered(t, q) ==
    loop' = [loop EXCEPT !["prices"] = [stage |-> IF @.todo = {t} THEN "answered" ELSE "asking",
                                        todo |-> @.todo \ {t},
                                        got |-> [@.got EXCEPT ![t] = q]]]

GcpOnDemandPriceUSD(t) ==
    /\ Refreshing("prices") /\ t \in loop["prices"].todo
    /\ \/ t \in pinned.sizes /\ listing' = PriceList /\ GcpAnswered(t, PriceList.price[t])
       \/ (listing.listed => t \notin pinned.sizes) /\ UNCHANGED listing /\ GcpAnswered(t, NoQuote)
    /\ UNCHANGED <<cloudVars, startVars, live, liveSpot, sizes, kitVars>>

GcpRefresh == Overlaid("prices", {t \in Types : loop["prices"].got[t] > 0})

GcpRunPriceRefresher == Ticked({"prices"}, GcpWanted)
GcpDescribe == Described(GcpSpeculativeSlots)

GcpInit ==
    /\ FleetInit(GcpCapacityTypes, {}, {NoQuote}, "gate")
    /\ loop = [l \in DOMAIN GcpWanted |-> Asking(GcpWanted[l])]

GcpNext ==
    \/ Requote
    \/ GcpStart \/ GcpRestart
    \/ \E t \in Types : GcpOnDemandPriceUSD(t)
    \/ GcpRunPriceRefresher
    \/ GcpRefresh \/ Expires
    \/ GcpDescribe \/ Refreshed
=============================================================================
