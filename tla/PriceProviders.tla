---------------------------- MODULE PriceProviders ----------------------------
(***************************************************************************)
(* Every provider with a live price list, and what it promises of the      *)
(* prices and sizes it publishes.  The first state picks the provider.     *)
(***************************************************************************)
EXTENDS MeterPrices, CataloguePrices

CONSTANT Clouds

VARIABLE cloud

priceVars == <<pricingVars, cloud>>

\* No provider at all.
Off ==
    /\ cloud = "none" /\ stage = "off"
    /\ offered = {} /\ pinned = <<>> /\ quote = <<>> /\ spotQuote = <<>>
    /\ live = <<>> /\ liveSpot = <<>> /\ sizes = {} /\ listing = NoListing /\ loop = <<>>
    /\ reading = NoReading /\ published = <<>>
    /\ requotes = 0 /\ lives = 0

PriceInit ==
    /\ cloud \in Clouds
    /\ \/ cloud = "aws" /\ AwsInit
       \/ cloud = "azure" /\ AzureInit
       \/ cloud = "gcp" /\ GcpInit
       \/ cloud = "oracle-cloud" /\ OciInit
       \/ cloud = "hetzner" /\ HetznerInit
       \/ cloud = "latitude" /\ LatitudeInit
       \/ cloud = "digitalocean" /\ DigitalOceanInit
       \/ cloud = "scaleway" /\ ScalewayInit
       \/ cloud = "ovhcloud" /\ OvhInit
       \/ cloud = "upcloud" /\ UpCloudInit

PriceNext ==
    /\ UNCHANGED cloud
    /\ \/ cloud = "aws" /\ AwsNext
       \/ cloud = "azure" /\ AzureNext
       \/ cloud = "gcp" /\ GcpNext
       \/ cloud = "oracle-cloud" /\ OciNext
       \/ cloud = "hetzner" /\ HetznerNext
       \/ cloud = "latitude" /\ LatitudeNext
       \/ cloud = "digitalocean" /\ DigitalOceanNext
       \/ cloud = "scaleway" /\ ScalewayNext
       \/ cloud = "ovhcloud" /\ OvhNext
       \/ cloud = "upcloud" /\ UpCloudNext

PriceSpec == PriceInit /\ [][PriceNext]_priceVars

\* What the provider's lookup makes of an offering now.
PriceOf(o) == CASE cloud = "aws" -> AwsPrice(o)
          [] cloud = "azure" -> AzurePrice(o)
          [] cloud = "gcp" -> GcpPrice(o)
          [] cloud = "oracle-cloud" -> OciPrice(o)
          [] cloud = "hetzner" -> HetznerPrice(o)
          [] cloud = "latitude" -> LatitudePrice(o)
          [] cloud = "digitalocean" -> DigitalOceanPrice(o)
          [] cloud = "scaleway" -> ScalewayPrice(o)
          [] cloud = "ovhcloud" -> OvhPrice(o)
          [] cloud = "upcloud" -> UpCloudPrice(o)

-----------------------------------------------------------------------------
(* Fairness: main, the tickers' goroutines and the reconciler run on, and a    *)
(* cloud that is asked again and again answers at some time.                   *)

Starting == /\ \/ cloud = "aws" /\ AwsStart
               \/ cloud = "azure" /\ AzureStart
               \/ cloud = "gcp" /\ GcpStart
               \/ cloud = "oracle-cloud" /\ OciStart
               \/ cloud = "hetzner" /\ HetznerStart
               \/ cloud = "latitude" /\ LatitudeStart
               \/ cloud = "digitalocean" /\ DigitalOceanStart
               \/ cloud = "scaleway" /\ ScalewayStart
               \/ cloud = "ovhcloud" /\ OvhStart
               \/ cloud = "upcloud" /\ UpCloudStart
            /\ UNCHANGED cloud

Ticking == /\ \/ cloud = "aws" /\ AwsRunOnDemandRefresher
              \/ cloud = "azure" /\ AzureRunPriceRefresher
              \/ /\ cloud \notin {"aws", "azure", "none"}
                 /\ Ticked({"prices"}, [l \in {"prices"} |-> AllTypes])
           /\ UNCHANGED cloud

\* The requests of the loops that ask for one type at a time, and for a whole list.
Requested(t) == /\ \/ cloud = "azure" /\ AzureOnDemandPriceUSD(t)
                   \/ cloud = "gcp" /\ GcpOnDemandPriceUSD(t)
                   \/ cloud = "hetzner" /\ HetznerPriceUSD(t)
                   \/ cloud = "latitude" /\ LatitudePriceUSD(t)
                   \/ cloud = "digitalocean" /\ DigitalOceanPriceUSD(t)
                   \/ cloud = "scaleway" /\ ScalewayPriceUSD(t)
                /\ UNCHANGED cloud
SpotRequested(t) == /\ \/ cloud = "aws" /\ AwsSpotPriceUSD(t)
                       \/ cloud = "azure" /\ AzureSpotPriceUSD(t)
                    /\ UNCHANGED cloud
ListRequested == /\ \/ cloud = "aws" /\ AwsOnDemandPricesUSD
                    \/ cloud = "oracle-cloud" /\ OciFetch
                    \/ cloud = "ovhcloud" /\ OvhHourlyEUR
                    \/ cloud = "upcloud" /\ UpCloudDescribePlanPrices
                 /\ UNCHANGED cloud

\* An answered list goes over the cache; a kept list goes stale.
Overlaying == /\ \/ cloud = "aws" /\ AwsRefreshOnDemand
                 \/ cloud = "gcp" /\ GcpRefresh
                 \/ cloud = "oracle-cloud" /\ OciRefresh
                 \/ cloud = "ovhcloud" /\ OvhRefresh
                 \/ cloud = "upcloud" /\ UpCloudRefresh
              /\ UNCHANGED cloud
Staling == cloud \in {"gcp", "digitalocean", "scaleway"} /\ Expires /\ UNCHANGED cloud

\* The steps of main and then of the refresher, of AWS's spot refresher, and of the
\* reconciler: each a goroutine with one step to take at a time.
RefresherSteps ==
    \/ Starting \/ Ticking \/ ListRequested \/ Overlaying
    \/ \E t \in Types : Requested(t)
    \/ cloud = "azure" /\ \E t \in Types : SpotRequested(t)
SpotRefresherSteps == /\ cloud = "aws"
               /\ \/ AwsRunSpotRefresher
                  \/ \E t \in Types : AwsSpotPriceUSD(t)
               /\ UNCHANGED cloud
Reconciling ==
    /\ cloud # "none"
    /\ \/ Described([o \in offered |-> [price |-> PriceOf(o), sized |-> o[1] \in sizes]])
       \/ Refreshed
    /\ UNCHANGED cloud

\* The cloud answers what it quotes for t, or lists its prices.
Answered(t) ==
    \/ ListRequested
    \/ /\ Requested(t)
       /\ IF cloud \in {"gcp", "digitalocean", "scaleway"} THEN listing'.listed
          ELSE live'[t] = quote[t]
SpotAnswered(t) == SpotRequested(t) /\ liveSpot'[t] = spotQuote[t]

PriceFairness ==
    /\ WF_priceVars(RefresherSteps) /\ WF_priceVars(SpotRefresherSteps)
    /\ WF_priceVars(Staling) /\ WF_priceVars(Reconciling)
    /\ \A t \in Types : SF_priceVars(Answered(t)) /\ SF_priceVars(SpotAnswered(t))

-----------------------------------------------------------------------------
\* A share of the on-demand price that a spot slot costs where the cloud lists none.
SpotShare(c) == CASE c = "aws" -> 3 [] c \in {"azure", "gcp"} -> 4 [] OTHER -> 5
Priced(o, price) == IF o[2] = "spot" THEN Share(SpotShare(cloud), price) ELSE price

\* A provider with a check at its start never serves a billed machine as free, whatever
\* the cloud lists afterwards: a list that stops naming a type, or names it at 0.  (AWS
\* checks its on-demand offerings only; Scaleway and UpCloud take a 0 from the cloud.)
NeverFree ==
    stage = "serving" /\ cloud \in {"aws", "azure", "gcp", "oracle-cloud", "ovhcloud"} =>
        \A o \in offered :
            \/ o[2] = "bare-metal"
            \/ o[2] = "spot" /\ cloud = "aws"
            \/ published[o].price > 0

\* A lookup that once gave the cloud's price does not fall back on the table pinned in
\* the build when a later refresh fails or leaves the type out.
LastKnownKept ==
    [][\A o \in offered :
         LET pin == Priced(o, TablePrice)
         IN /\ pinned.price[o[1]] # NoQuote
            /\ stage = "serving" /\ stage' = "serving"
            /\ PriceOf(o) # pin
            => PriceOf(o)' # pin]_priceVars

\* A slot whose type is in the size table of the build is published with its vCPUs and
\* memory, whatever becomes of the lookup that is to add to the table.
CapacityKnown ==
    stage = "serving" =>
        \A o \in offered : o[1] \in pinned.sizes => published[o].sized

\* What an offering costs when the cloud's quotes no longer change; NoQuote if that is
\* the pinned table's affair.
Due(o) ==
    CASE o[2] = "bare-metal" /\ cloud \in {"aws", "oracle-cloud"} -> 0
      [] pinned.override[o[1]] # NoQuote -> pinned.override[o[1]]
      [] o[2] = "spot" /\ spotQuote[o[1]] # NoQuote -> spotQuote[o[1]]
      [] quote[o[1]] <= 0 -> NoQuote
      [] cloud = "gcp" /\ o[1] \notin pinned.sizes -> NoQuote
      [] OTHER -> Priced(o, quote[o[1]])

\* The published prices follow the cloud's: past the client's own list, the caches of
\* the refreshes, the answers that failed, the Describes that read before a refresh and
\* the snapshots of an earlier life.
PriceFollows ==
    <>[](stage = "serving" => \A o \in offered : Due(o) \in {NoQuote, published[o].price})
=============================================================================
