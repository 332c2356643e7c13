----------------------------- MODULE ListPolling -----------------------------
(***************************************************************************)
(* A shard that follows the inventory by List (server.go:467-498): each    *)
(* call sends back the revision of the last answer as since_revision and   *)
(* merges the machines it gets into its copy. The kit below it may crash,  *)
(* restart and reconcile at any point between two polls.                   *)
(***************************************************************************)
EXTENDS ProviderKit

CONSTANTS
    MaxResults,  \* max_results of every call; 0 imposes no cap
    NoCursor     \* no List was answered yet

ASSUME PollerAssumption == MaxResults \in Nat /\ NoCursor \notin Nat

VARIABLES
    cursor,  \* external: the revision the poller sends back
    copy     \* external: the poller's copy of the inventory

poller == <<cursor, copy>>
pollVars == <<vars, poller>>

\* Mutant: the cursor comparison is strict.
QualifiesStrictly(m) == Known(m) /\ (cursor # NoCursor => lastMod[m] > cursor + 1)

\* The records List may return: those modified after the cursor.
Qualifies(m) == Known(m) /\ (cursor # NoCursor => lastMod[m] > cursor)

\* Map iteration order: a capped answer is any subset of that size.
Pages(changed) ==
    IF MaxResults = 0 \/ Cardinality(changed) <= MaxResults THEN {changed}
    ELSE {page \in SUBSET changed : Cardinality(page) = MaxResults}

\* The answer carries the head revision, also when it was cut short.
List ==
    /\ up
    /\ \E page \in Pages({m \in Machines : Qualifies(m)}) :
          copy' = [m \in Machines |-> IF m \in page THEN machines[m] ELSE copy[m]]
    /\ cursor' = rev
    /\ UNCHANGED vars

PollInit == Init /\ cursor = NoCursor /\ copy = [m \in Machines |-> NoMachine]

PollNext == (Next /\ UNCHANGED poller) \/ List

PollSpec == PollInit /\ [][PollNext]_pollVars

FairPollSpec == PollSpec /\ WF_pollVars(Boot /\ UNCHANGED poller) /\ WF_pollVars(List)

-----------------------------------------------------------------------------
\* What the poller will not be sent again it already has: a record not modified
\* since the cursor is the poller's copy of it. This holds across restarts, where
\* every record's modification revision is reset and the cursor outlives it, as
\* long as no write was lost.
NothingMissed ==
    up /\ ~lost /\ cursor # NoCursor =>
      \A m \in Machines : lastMod[m] <= cursor => copy[m] = machines[m]

\* The revision never falls behind a cursor the poller holds, so no revision is
\* handed out twice for two states of the inventory.
CursorNotAhead ==
    ~lost /\ cursor # NoCursor => cursor <= IF up THEN rev ELSE disk.rev

\* Once the provider stays up, a poller learns of every machine that failed, the
\* ones a restart cut short included.
FailuresAreSeen ==
    <>[]up => \A m \in Machines :
                (up /\ machines[m].state = "Failed") ~> copy[m].state = "Failed"

\* A poller that pages with max_results skips no machine (conformance B907).
PagingSkipsNothing == NothingMissed
=============================================================================
