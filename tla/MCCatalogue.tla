----------------------------- MODULE MCCatalogue -----------------------------
(***************************************************************************)
(* Instances, for TLC, of the two halves of what a shard knows of a        *)
(* machine's price: that the published record is right (PriceProviders)    *)
(* and that a change of it reaches the shard (ListPolling).  The halves    *)
(* meet only in the number a Describe returns, which ListPolling leaves    *)
(* open, so that a behavior is one of the one half or of the other.        *)
(***************************************************************************)
EXTENDS ListPolling, PriceProviders

CONSTANT t1

AllClouds == {"aws", "azure", "gcp", "oracle-cloud", "hetzner", "latitude",
              "digitalocean", "scaleway", "ovhcloud", "upcloud"}
SomeMenus == {{<<t1, "on-demand">>},
              {<<t1, "on-demand">>, <<t1, "spot">>},
              {<<t1, "bare-metal">>}}

CatalogueInit == PollInit /\ (Off \/ PriceInit)
CatalogueNext == \/ cloud = "none" /\ PollNext /\ UNCHANGED priceVars
                 \/ PriceNext /\ UNCHANGED pollVars
CatalogueSpec == /\ CatalogueInit
                 /\ [][CatalogueNext]_<<pollVars, priceVars>>
                 /\ PriceFairness
                 /\ WF_pollVars(cloud = "none" /\ Boot /\ UNCHANGED poller)
                 /\ WF_pollVars(cloud = "none" /\ List)
=============================================================================
