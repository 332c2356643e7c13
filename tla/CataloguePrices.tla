-------------------------- MODULE CataloguePrices --------------------------
(***************************************************************************)
(* The providers with a price for each type in a catalogue.  Hetzner,      *)
(* Latitude, DigitalOcean and Scaleway ask for the price of one type at a  *)
(* time; Oracle Cloud, OVHcloud and UpCloud read one list for all they     *)
(* sell.                                                                   *)
(***************************************************************************)
EXTENDS PriceFleet

-----------------------------------------------------------------------------
(***************************************************************************)
(* Hetzner: each pair of server type and location is asked for on its own; *)
(* a type without any price is offered at 0.                               *)
(***************************************************************************)
\* The capacity types an offering may have.
HetznerCapacityTypes == {"on-demand"}

HetznerWanted == [l \in {"prices"} |-> AllTypes]
HetznerPrice(o) == LiveOrTable(o[1])
HetznerSpeculativeSlots == [o \in offered |-> [price |-> HetznerPrice(o), sized |-> o[1] \in sizes]]

\* The types whose size the cloud gives; none, if a request fails.
HetznerDescribeServerTypeCapacities == SUBSET AllTypes
HetznerRefreshServerTypes == Resolved("seed", HetznerDescribeServerTypeCapacities) /\ UNCHANGED listing
HetznerStart == Warmed("sizes") \/ HetznerRefreshServerTypes \/ Seeded(HetznerSpeculativeSlots)
HetznerRestart == Died("warm", HetznerWanted)

HetznerPriceUSD(t) ==
    /\ Asked("prices", t)
    /\ \/ Cache(t, quote[t])
       \/ UNCHANGED live
    /\ UNCHANGED <<liveSpot, listing>>

HetznerRunPriceRefresher == Ticked({"prices"}, HetznerWanted)
HetznerDescribe == Described(HetznerSpeculativeSlots)

HetznerInit ==
    /\ FleetInit(HetznerCapacityTypes, {}, {NoQuote}, "warm")
    /\ loop = [l \in DOMAIN HetznerWanted |-> Asking(HetznerWanted[l])]

HetznerNext ==
    \/ Requote
    \/ HetznerStart \/ HetznerRestart
    \/ \E t \in Types : HetznerPriceUSD(t)
    \/ HetznerRunPriceRefresher
    \/ HetznerDescribe \/ Refreshed

-----------------------------------------------------------------------------
(***************************************************************************)
(* Latitude: each pair of plan and site is asked for on its own; a plan    *)
(* without any price is offered at 0.                                      *)
(***************************************************************************)
\* The capacity types an offering may have.
LatitudeCapacityTypes == {"on-demand"}

LatitudeWanted == [l \in {"prices"} |-> AllTypes]
LatitudePrice(o) == LiveOrTable(o[1])
LatitudeSpeculativeSlots == [o \in offered |-> [price |-> LatitudePrice(o), sized |-> o[1] \in sizes]]

\* The types whose size the cloud gives; none, if a request fails.
LatitudeDescribePlanCapacities == SUBSET AllTypes
LatitudeRefreshPlans == Resolved("seed", LatitudeDescribePlanCapacities) /\ UNCHANGED listing
LatitudeStart == Warmed("sizes") \/ LatitudeRefreshPlans \/ Seeded(LatitudeSpeculativeSlots)
LatitudeRestart == Died("warm", LatitudeWanted)

LatitudePriceUSD(t) ==
    /\ Asked("prices", t)
    /\ \/ Cache(t, quote[t])
       \/ UNCHANGED live
    /\ UNCHANGED <<liveSpot, listing>>

LatitudeRunPriceRefresher == Ticked({"prices"}, LatitudeWanted)
LatitudeDescribe == Described(LatitudeSpeculativeSlots)

LatitudeInit ==
    /\ FleetInit(LatitudeCapacityTypes, {}, {NoQuote}, "warm")
    /\ loop = [l \in DOMAIN LatitudeWanted |-> Asking(LatitudeWanted[l])]

LatitudeNext ==
    \/ Requote
    \/ LatitudeStart \/ LatitudeRestart
    \/ \E t \in Types : LatitudePriceUSD(t)
    \/ LatitudeRunPriceRefresher
    \/ LatitudeDescribe \/ Refreshed

-----------------------------------------------------------------------------
(***************************************************************************)
(* DigitalOcean: each size is asked for on its own, from a list of all     *)
(* sizes that the client keeps for a while; a size without any price is    *)
(* offered at 0.                                                           *)
(***************************************************************************)
\* The capacity types an offering may have.
DigitalOceanCapacityTypes == {"on-demand"}

DigitalOceanWanted == [l \in {"prices"} |-> AllTypes]
DigitalOceanPrice(o) == LiveOrTable(o[1])
DigitalOceanSpeculativeSlots == [o \in offered |-> [price |-> DigitalOceanPrice(o), sized |-> o[1] \in sizes]]

\* The sizes are read from the list of prices.
DigitalOceanDescribeSizeCapacities == listing' \in {listing, PriceList}
DigitalOceanRefreshSizes == Resolved("seed", SUBSET AllTypes) /\ DigitalOceanDescribeSizeCapacities
DigitalOceanStart == Warmed("sizes") \/ DigitalOceanRefreshSizes \/ Seeded(DigitalOceanSpeculativeSlots)
DigitalOceanRestart == Died("warm", DigitalOceanWanted)

\* A listing that fails is tried again for the next size; no part of it is kept.
DigitalOceanPriceUSD(t) ==
    /\ Asked("prices", t)
    /\ \/ listing' = PriceList /\ Cache(t, PriceList.price[t])
       \/ ~listing.listed /\ UNCHANGED <<live, listing>>
    /\ UNCHANGED liveSpot

DigitalOceanRunPriceRefresher == Ticked({"prices"}, DigitalOceanWanted)
DigitalOceanDescribe == Described(DigitalOceanSpeculativeSlots)

DigitalOceanInit ==
    /\ FleetInit(DigitalOceanCapacityTypes, {}, {NoQuote}, "warm")
    /\ loop = [l \in DOMAIN DigitalOceanWanted |-> Asking(DigitalOceanWanted[l])]

DigitalOceanNext ==
    \/ Requote
    \/ DigitalOceanStart \/ DigitalOceanRestart
    \/ \E t \in Types : DigitalOceanPriceUSD(t)
    \/ DigitalOceanRunPriceRefresher
    \/ Expires
    \/ DigitalOceanDescribe \/ Refreshed

-----------------------------------------------------------------------------
(***************************************************************************)
(* Scaleway's Instances: only types with a pinned price are offered; each  *)
(* is asked for on its own, from a catalogue that the client keeps for a   *)
(* while.                                                                  *)
(***************************************************************************)
\* The capacity types an offering may have.
ScalewayCapacityTypes == {"on-demand"}

ScalewayWanted == [l \in {"prices"} |-> AllTypes]
ScalewayPrice(o) == LiveOrTable(o[1])
ScalewaySpeculativeSlots == [o \in offered |-> [price |-> ScalewayPrice(o), sized |-> o[1] \in sizes]]

\* The sizes are read from the list of prices.
ScalewayDescribeCommercialTypeCapacities == listing' \in {listing, PriceList}
ScalewayRefreshTypes == Resolved("seed", SUBSET AllTypes) /\ ScalewayDescribeCommercialTypeCapacities
ScalewayGate == Gated(\A t \in AllTypes : pinned.price[t] # NoQuote, "warm")
ScalewayStart == ScalewayGate \/ Warmed("sizes") \/ ScalewayRefreshTypes \/ Seeded(ScalewaySpeculativeSlots)
ScalewayRestart == Died("gate", ScalewayWanted)

\* The catalogue gives any price it lists, 0 included.
ScalewayPriceUSD(t) ==
    /\ Asked("prices", t)
    /\ \/ listing' = PriceList /\ Cache(t, PriceList.price[t])
       \/ ~listing.listed /\ UNCHANGED <<live, listing>>
    /\ UNCHANGED liveSpot

ScalewayRunPriceRefresher == Ticked({"prices"}, ScalewayWanted)
ScalewayDescribe == Described(ScalewaySpeculativeSlots)

ScalewayInit ==
    /\ FleetInit(ScalewayCapacityTypes, {}, {NoQuote}, "gate")
    /\ loop = [l \in DOMAIN ScalewayWanted |-> Asking(ScalewayWanted[l])]

ScalewayNext ==
    \/ Requote
    \/ ScalewayStart \/ ScalewayRestart
    \/ \E t \in Types : ScalewayPriceUSD(t)
    \/ ScalewayRunPriceRefresher
    \/ Expires
    \/ ScalewayDescribe \/ Refreshed

-----------------------------------------------------------------------------
(***************************************************************************)
(* Oracle Cloud: one price list for all shapes, of which rates of 0 are    *)
(* ignored; a process in which a billed offering has no price does not     *)
(* start.                                                                  *)
(***************************************************************************)
\* The capacity types an offering may have.
OciCapacityTypes == {"on-demand", "spot", "bare-metal"}

OciWanted == [l \in {"prices"} |-> AllTypes]
OciOnDemand(t) == LiveOrTable(t)
OciPrice(o) == CASE o[2] = "bare-metal" -> 0
                 [] o[2] = "spot" -> Share(5, OciOnDemand(o[1]))
                 [] OTHER -> OciOnDemand(o[1])
OciSpeculativeSlots == [o \in offered |-> [price |-> OciPrice(o), sized |-> o[1] \in sizes]]

OciValidatePricing == Gated(\A o \in offered : o[2] = "bare-metal" \/ OciPrice(o) > 0, "seed")
OciStart == Warmed("gate") \/ OciValidatePricing \/ Seeded(OciSpeculativeSlots)
OciRestart == Died("warm", OciWanted)

\* A shape's quote is what its OCPU and memory SKUs in the list add up to: a list with
\* one of the two missing quotes it lower, and one without both does not quote it.
OciFetch == Listed("prices", quote)

OciRefresh == Overlaid("prices", {t \in Types : loop["prices"].got[t] > 0})

OciRunPriceRefresher == Ticked({"prices"}, OciWanted)
OciDescribe == Described(OciSpeculativeSlots)

OciInit ==
    /\ FleetInit(OciCapacityTypes, {}, {NoQuote}, "warm")
    /\ loop = [l \in DOMAIN OciWanted |-> Asking(OciWanted[l])]

OciNext ==
    \/ Requote
    \/ OciStart \/ OciRestart
    \/ OciFetch \/ Unanswered("prices") \/ OciRefresh
    \/ OciRunPriceRefresher
    \/ OciDescribe \/ Refreshed

-----------------------------------------------------------------------------
(***************************************************************************)
(* OVHcloud: one catalogue for all flavors, in which a price of 0 is no    *)
(* price; an operator's override goes before it, and only flavors with an  *)
(* override or a seed price are offered.                                   *)
(***************************************************************************)
\* The capacity types an offering may have.
OvhCapacityTypes == {"on-demand"}

OvhWanted == [l \in {"prices"} |-> AllTypes]
OvhPrice(o) == IF pinned.override[o[1]] # NoQuote THEN pinned.override[o[1]] ELSE LiveOrTable(o[1])
OvhSpeculativeSlots == [o \in offered |-> [price |-> OvhPrice(o), sized |-> o[1] \in sizes]]

OvhKnown(t) == pinned.override[t] # NoQuote \/ pinned.price[t] # NoQuote
OvhGate == Gated(\A t \in AllTypes : OvhKnown(t), "warm")
\* The types whose size the cloud gives; none, if a request fails.
OvhDescribeFlavorCapacities == SUBSET AllTypes
OvhRefreshFlavors == Resolved("seed", OvhDescribeFlavorCapacities) /\ UNCHANGED listing
OvhStart == OvhGate \/ Warmed("sizes") \/ OvhRefreshFlavors \/ Seeded(OvhSpeculativeSlots)
OvhRestart == Died("gate", OvhWanted)

OvhHourlyEUR == Listed("prices", [t \in Types |-> IF quote[t] > 0 THEN quote[t] ELSE NoQuote])

\* Mutant: only a flavor without a live price gets one.
OvhRefreshOnce ==
    Overlaid("prices", {t \in Types : loop["prices"].got[t] # NoQuote /\ live[t] = NoQuote})

OvhRefresh == Overlaid("prices", {t \in Types : loop["prices"].got[t] # NoQuote})

OvhRunPriceRefresher == Ticked({"prices"}, OvhWanted)
OvhDescribe == Described(OvhSpeculativeSlots)

OvhInit ==
    /\ FleetInit(OvhCapacityTypes, {OverridePrice}, {NoQuote}, "gate")
    /\ loop = [l \in DOMAIN OvhWanted |-> Asking(OvhWanted[l])]

OvhNext ==
    \/ Requote
    \/ OvhStart \/ OvhRestart
    \/ OvhHourlyEUR \/ Unanswered("prices") \/ OvhRefresh
    \/ OvhRunPriceRefresher
    \/ OvhDescribe \/ Refreshed

-----------------------------------------------------------------------------
(***************************************************************************)
(* UpCloud: one price list for all plans; a price declared with the        *)
(* offering goes before it, and a process in which an offering has no      *)
(* price does not start.                                                   *)
(***************************************************************************)
\* The capacity types an offering may have.
UpCloudCapacityTypes == {"on-demand"}

UpCloudWanted == [l \in {"prices"} |-> AllTypes]
UpCloudPrice(o) == IF pinned.override[o[1]] # NoQuote THEN pinned.override[o[1]] ELSE LiveOrTable(o[1])
UpCloudSpeculativeSlots == [o \in offered |-> [price |-> UpCloudPrice(o), sized |-> o[1] \in sizes]]

\* The types whose size the cloud gives; none, if a request fails.
UpCloudDescribePlanCapacities == SUBSET AllTypes
UpCloudRefreshPlans == Resolved("warm", UpCloudDescribePlanCapacities) /\ UNCHANGED listing
UpCloudRequirePrices == Gated(\A o \in offered : UpCloudPrice(o) > 0, "seed")
UpCloudStart == UpCloudRefreshPlans \/ Warmed("gate") \/ UpCloudRequirePrices \/ Seeded(UpCloudSpeculativeSlots)
UpCloudRestart == Died("sizes", UpCloudWanted)

UpCloudDescribePlanPrices == Listed("prices", quote)

UpCloudRefresh == Overlaid("prices", {t \in Types : loop["prices"].got[t] # NoQuote})

UpCloudRunPriceRefresher == Ticked({"prices"}, UpCloudWanted)
UpCloudDescribe == Described(UpCloudSpeculativeSlots)

UpCloudInit ==
    /\ FleetInit(UpCloudCapacityTypes, {OverridePrice}, {NoQuote}, "sizes")
    /\ loop = [l \in DOMAIN UpCloudWanted |-> Asking(UpCloudWanted[l])]

UpCloudNext ==
    \/ Requote
    \/ UpCloudStart \/ UpCloudRestart
    \/ UpCloudDescribePlanPrices \/ Unanswered("prices") \/ UpCloudRefresh
    \/ UpCloudRunPriceRefresher
    \/ UpCloudDescribe \/ Refreshed
=============================================================================
