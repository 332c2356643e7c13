--------------------------- MODULE SpotProviders ---------------------------
(***************************************************************************)
(* The providers that publish an observed interruption risk, and what they *)
(* promise of it.  The first state picks the provider.                     *)
(***************************************************************************)
EXTENDS SpotFleet

CONSTANT Providers

VARIABLES
    provider,
    preempted   \* GcpPreemption's, idle in the others

allVars == <<vars, provider, preempted>>

Aws == INSTANCE AwsInterruption
Azure == INSTANCE AzureEviction
Oci == INSTANCE OciPreemption
Gcp == INSTANCE GcpPreemption

Init ==
    /\ provider \in Providers
    /\ \/ provider = "aws" /\ Aws!Init /\ preempted = {}
       \/ provider = "azure" /\ Azure!Init /\ preempted = {}
       \/ provider = "oracle" /\ Oci!Init /\ preempted = {}
       \/ provider = "gcp" /\ Gcp!Init

Next ==
    /\ UNCHANGED provider
    /\ \/ provider = "aws" /\ Aws!Next /\ UNCHANGED preempted
       \/ provider = "azure" /\ Azure!Next /\ UNCHANGED preempted
       \/ provider = "oracle" /\ Oci!Next /\ UNCHANGED preempted
       \/ provider = "gcp" /\ Gcp!Next

Spec == Init /\ [][Next]_allVars

\* The provider's goroutines run on.
Scanning == \/ provider = "aws" /\ Aws!Reconcile /\ UNCHANGED <<provider, preempted>>
            \/ provider = "azure" /\ Azure!Reconcile /\ UNCHANGED <<provider, preempted>>
            \/ provider = "oracle" /\ Oci!Reconcile /\ UNCHANGED <<provider, preempted>>
            \/ provider = "gcp" /\ Gcp!Ticking /\ UNCHANGED provider

Polling == /\ \/ provider = "aws" /\ Aws!Polling
              \/ provider = "azure" /\ Azure!Polling
              \/ provider = "oracle" /\ Oci!Polling
           /\ UNCHANGED <<provider, preempted>>

\* An agent reports as long as the event is listed.
Sending == provider = "azure" /\ Azure!Sending /\ UNCHANGED <<provider, preempted>>

\* A call to the cloud, or to the provider, does not fail every time it is made.
Answer == /\ \/ provider = "aws" /\ Aws!Answer /\ UNCHANGED preempted
             \/ provider = "azure" /\ Azure!Answer /\ UNCHANGED preempted
             \/ provider = "gcp" /\ Gcp!ListPreempted
          /\ UNCHANGED provider

Describes == provider = "gcp" /\ Gcp!Reconcile /\ Described("ticker") /\ UNCHANGED provider

FairSpec ==
    /\ Spec
    /\ WF_allVars(Scanning) /\ WF_allVars(Polling) /\ WF_allVars(Sending)
    /\ SF_allVars(Answer) /\ SF_allVars(Describes)

-----------------------------------------------------------------------------
Holds(s, i) == record[s].vm = i /\ record[s].state \in {"held", "failed"}

\* The cloud has told the provider that it wants i back, and i is there yet.
Threatened(i) ==
    IF provider = "gcp" THEN vm[i].state = "stopped"
    ELSE Alive(i) /\ \E n \in issued : n.vm = i

\* A notice for a live VM is on its way, in the poller's hands or in the tracker,
\* and a Delete that failed keeps what the tracker knew.  The excused ones, which
\* may be lost, are those whose lookup failed, those a restart caught on their way
\* through the provider and, at OCI, those given before the consumer group first
\* existed or committed by a read whose answer was lost.  (Azure's agents report
\* again and need no such care.)
NoticeHeld ==
    provider \in {"aws", "oracle"} =>
      \A n \in issued :
        Alive(n.vm) => \/ n \in channel \union excused
                       \/ poller.notice = n
                       \/ observed[vm[n.vm].slot] > 0

\* A threatened VM's slot is published as such, and from then on until the VM is
\* gone: what the tracker knows reaches the kit's records whatever Reconciles and
\* restarts come between, unless the notice was lost in one of NoticeHeld's ways or
\* OCI's poller returned for want of a cursor.
ThreatReported ==
    \A i \in VMs :
      Threatened(i) ~>
        [](\/ ~Threatened(i)
           \/ record[vm[i].slot].risk > 0
           \/ \E n \in excused : n.vm = i
           \/ poller.stage \in {"off", "stopped"})

\* "Cleared only once a Delete actuates, so a machine about to be reclaimed keeps
\* its raised probability until it is gone" (aws/docs/pricing-and-interruption.md).
RaisedUntilGone ==
    [][\A s \in Slots, i \in VMs :
         /\ Holds(s, i) /\ record[s].risk > 0
         /\ Threatened(i) /\ vm'[i].state = "alive"
         => record'[s].risk > 0]_allVars

\* "The reconcile loop notices a VM that has been evicted-and-deleted out from under
\* the provider and returns its slot to Speculative" (azure/docs, same page).
EvictedSlotReturns ==
    \A s \in Slots :
      record[s].state = "held" /\ ~Alive(record[s].vm) ~> record[s].state # "held"
=============================================================================
