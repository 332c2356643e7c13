--------------------------- MODULE ScriptDelivery ---------------------------
(***************************************************************************)
(* The providers without a vault hand a bootstrap or a drain to the host   *)
(* themselves: as a script in an SSH session (hetzner, upcloud, ovhcloud,  *)
(* gcp, latitude) or through the QEMU guest agent (libvirt, proxmox).  The *)
(* call blocks until the script has exited or the transition's deadline    *)
(* passes.  SSH verifies the host's key against the fingerprint recorded   *)
(* with the server, or records the key it meets first.  One machine; the   *)
(* kit that drives it, its host and the network are external.              *)
(***************************************************************************)
EXTENDS Naturals, FiniteSets

CONSTANTS
    MaxDeliveries,  \* bound on the number of calls
    Keys,           \* host keys
    NoKey,
    NoEntry         \* the substrate index does not have the server (latitude)

Deliveries == 1..MaxDeliveries

VARIABLES
    delivery,   \* each ApplyBootstrap or DrainNode call
    pin,        \* the fingerprint recorded with the server, as the provider reads it
    savedPin,   \* the same as a restarted provider will read it
    answering,  \* external: the key of the host that answers at the address
    running,    \* external: the calls whose script is running on the host
    exited,     \* external: how each call's script exited
    restarted

deliveryVars == <<delivery, pin, savedPin, answering, running, exited, restarted>>
pins == <<pin, savedPin>>
host == <<answering, running, exited>>

\* view: serverInstance.HostKeyFP; peer: who was dialed; key: who was accepted;
\* kept: the accepted key is on record, where a restart finds it.
Unsent == [stage |-> "unsent", view |-> NoKey, peer |-> NoKey, key |-> NoKey,
           kept |-> FALSE, expired |-> FALSE, result |-> "none"]

At(d, stage) == delivery[d].stage = stage
InFlight(d) == delivery[d].stage \notin {"unsent", "ended", "killed"}
Becomes(d, new) == delivery' = [delivery EXCEPT ![d] = new]
Goes(d, stage) == Becomes(d, [delivery[d] EXCEPT !.stage = stage])

\* A call given up at its deadline has its result already.
Ends(d, result) ==
    Becomes(d, [delivery[d] EXCEPT !.stage = "ended",
                                   !.result = IF @ = "none" THEN result ELSE @])

\* external: the provider stops listening to a script, which may go on.
LetGo(d) == running' \in {running, running \ {d}} /\ UNCHANGED <<answering, exited>>

-----------------------------------------------------------------------------
(* External: the kit, the host and the process.                             *)

\* A transition that failed leaves the machine Failed, and is its last; so does one
\* a restart cut short, as a kit with a state file remembers.
Deliver(d) ==
    /\ At(d, "unsent")
    /\ \A b \in 1..(d - 1) : delivery[b].result = "ok"
    /\ Goes(d, "called")
    /\ UNCHANGED <<pins, host, restarted>>

Expire(d) ==
    /\ InFlight(d) /\ ~delivery[d].expired
    /\ Becomes(d, [delivery[d] EXCEPT !.expired = TRUE])
    /\ UNCHANGED <<pins, host, restarted>>

Exits(d) ==
    /\ d \in running
    /\ running' = running \ {d}
    /\ \E code \in {"zero", "nonzero"} : exited' = [exited EXCEPT ![d] = code]
    /\ UNCHANGED <<delivery, pins, answering, restarted>>

\* The server is rebuilt, or its address is another's.
Rekey ==
    /\ \E k \in Keys \ {answering} : answering' = k
    /\ UNCHANGED <<delivery, pins, running, exited, restarted>>

\* The calls die with the process; what is on the host does not.
Restart ==
    /\ ~restarted
    /\ restarted' = TRUE
    /\ delivery' = [d \in Deliveries |->
                      IF InFlight(d) THEN [delivery[d] EXCEPT !.stage = "killed"]
                      ELSE delivery[d]]
    /\ pin' = savedPin
    /\ UNCHANGED <<savedPin, host>>

\* generateHostKey: a server the provider created has its key on record and, if
\* its image honours the injected key, presents it; another has none.  The index
\* may have failed to save its entry.
Init(fps) ==
    /\ delivery = [d \in Deliveries |-> Unsent]
    /\ pin \in fps /\ savedPin \in {pin} \union (fps \intersect {NoEntry})
    /\ answering \in Keys
    /\ running = {}
    /\ exited = [d \in Deliveries |-> "no"]
    /\ restarted = FALSE

Outside ==
    \/ \E d \in Deliveries : Deliver(d) \/ Expire(d) \/ Exits(d)
    \/ Rekey
    \/ Restart

-----------------------------------------------------------------------------
(* SSH.                                                                     *)

\* ensureIPv4: the server as listed or, where that lacks an address, looked up
\* again; the fingerprint is among its labels or metadata.
View(d) ==
    /\ At(d, "called")
    /\ Becomes(d, [delivery[d] EXCEPT !.stage = "viewed", !.view = pin])
    /\ UNCHANGED <<pins, host, restarted>>

\* withPin: the fingerprint is the index's, if it has the server.
LatitudeWithPin(d) ==
    /\ At(d, "called")
    /\ Becomes(d, [delivery[d] EXCEPT !.stage = "viewed",
                                      !.view = IF pin = NoEntry THEN NoKey ELSE pin])
    /\ UNCHANGED <<pins, host, restarted>>

\* The lookup and the dial fail by themselves or by the deadline.
Errs(d) ==
    /\ At(d, "called") \/ At(d, "viewed")
    /\ Ends(d, "error")
    /\ UNCHANGED <<pins, host, restarted>>

Dial(d) ==
    /\ At(d, "viewed")
    /\ ~delivery[d].expired
    /\ Becomes(d, [delivery[d] EXCEPT !.stage = "dialed", !.peer = answering])
    /\ UNCHANGED <<pins, host, restarted>>

\* Mutant: the key is not compared.
AcceptAnyKey(expectedFP, got) == TRUE

HostKeyCallback(expectedFP, got) == expectedFP = NoKey \/ got = expectedFP

\* The handshake runs on the dialed connection and knows nothing of the deadline.
Handshake(d) ==
    /\ At(d, "dialed")
    /\ LET it == delivery[d] IN
         IF HostKeyCallback(it.view, it.peer)
         THEN Becomes(d, [it EXCEPT !.stage = IF it.view = NoKey THEN "firstUse" ELSE "ready",
                                    !.key = it.peer,
                                    !.kept = it.view # NoKey /\ it.view = savedPin])
         ELSE Ends(d, "error")
    /\ UNCHANGED <<pins, host, restarted>>

FirstUse(d, kept) ==
    /\ At(d, "firstUse")
    /\ Becomes(d, [delivery[d] EXCEPT !.stage = "ready", !.kept = kept])
    /\ UNCHANGED <<host, restarted>>

\* A key that cannot be recorded is logged, and the session goes on.
Unrecorded(d) == FirstUse(d, FALSE) /\ UNCHANGED pins

\* setLabel, setMetadatum and setHostKeyFP, under the call's context.
Recorded(d) ==
    /\ ~delivery[d].expired
    /\ FirstUse(d, TRUE)
    /\ pin' = delivery[d].key /\ savedPin' = delivery[d].key

\* The index is changed in memory first and then saved; a save that fails is logged.
LatitudeOnTOFU(d) ==
    /\ pin # NoEntry
    /\ pin' = delivery[d].key
    /\ savedPin' \in {savedPin, delivery[d].key}
    /\ FirstUse(d, savedPin' = delivery[d].key)

LatitudeOrphan(d) == pin = NoEntry /\ Unrecorded(d)

\* Saves are not ordered: one that was begun for another machine before this one's
\* key or entry was in the index may replace the file last.
LatitudeOlderSave ==
    /\ pin # NoEntry
    /\ savedPin' \in {NoKey, NoEntry}
    /\ delivery' = [d \in Deliveries |-> [delivery[d] EXCEPT !.kept = FALSE]]
    /\ UNCHANGED <<pin, host, restarted>>

StartScript(d) ==
    /\ At(d, "ready")
    /\ Goes(d, "waiting")
    /\ running' = running \union {d}
    /\ UNCHANGED <<pins, answering, exited, restarted>>

Finishes(d) ==
    /\ At(d, "waiting")
    /\ exited[d] # "no"
    /\ Ends(d, IF exited[d] = "zero" THEN "ok" ELSE "error")
    /\ UNCHANGED <<pin, host, restarted>>

Done(d) == Finishes(d) /\ UNCHANGED savedPin

\* setCluster saves the whole index, with a key an earlier save failed to keep.
LatitudeDone(d) ==
    /\ Finishes(d)
    /\ savedPin' \in {savedPin} \union (IF exited[d] = "zero" THEN {pin} ELSE {})

\* Mutant: a script that was started counts as delivered.
DeadlineForgives(d) ==
    /\ At(d, "waiting")
    /\ delivery[d].expired
    /\ Ends(d, "ok")
    /\ LetGo(d)
    /\ UNCHANGED <<pins, restarted>>

\* The script is sent a signal, which nobody answers for.
Deadline(d) ==
    /\ At(d, "waiting")
    /\ delivery[d].expired
    /\ Ends(d, "error")
    /\ LetGo(d)
    /\ UNCHANGED <<pins, restarted>>

\* external: the connection breaks.
Drops(d) ==
    /\ At(d, "dialed") \/ At(d, "ready") \/ At(d, "waiting")
    /\ Ends(d, "error")
    /\ LetGo(d)
    /\ UNCHANGED <<pins, restarted>>

RunSSH(d) ==
    \/ Errs(d) \/ Dial(d) \/ Handshake(d) \/ StartScript(d)
    \/ Deadline(d) \/ Drops(d)

-----------------------------------------------------------------------------
(* Each provider's own: where the address and the fingerprint come from, and  *)
(* where a fingerprint met first goes.                                        *)

HetznerEnsureIPv4(d) == View(d)
HetznerSetLabel(d) == Recorded(d) \/ Unrecorded(d)
HetznerRunSSH(d) == HetznerEnsureIPv4(d) \/ HetznerSetLabel(d) \/ RunSSH(d) \/ Done(d)

UpCloudEnsureIPv4(d) == View(d)
UpCloudSetLabel(d) == Recorded(d) \/ Unrecorded(d)
UpCloudRunSSH(d) == UpCloudEnsureIPv4(d) \/ UpCloudSetLabel(d) \/ RunSSH(d) \/ Done(d)

\* One metadata key is written, where the labels are read and written back.
OvhEnsureIPv4(d) == View(d)
OvhSetMetadatum(d) == Recorded(d) \/ Unrecorded(d)
OvhRunSSH(d) == OvhEnsureIPv4(d) \/ OvhSetMetadatum(d) \/ RunSSH(d) \/ Done(d)

\* The metadata is read and written back, four times at most if it changes between.
GcpEnsureReachable(d) == View(d)
GcpSetHostKeyFP(d) == Recorded(d) \/ Unrecorded(d)
GcpRunSSH(d) == GcpEnsureReachable(d) \/ GcpSetHostKeyFP(d) \/ RunSSH(d) \/ Done(d)

LatitudeRun(d) ==
    \/ LatitudeWithPin(d) \/ LatitudeOnTOFU(d) \/ LatitudeOrphan(d)
    \/ RunSSH(d) \/ LatitudeDone(d)

-----------------------------------------------------------------------------
(* The guest agent: a command starts the script and answers its pid, further *)
(* ones ask whether that process has exited.                                 *)

\* guest-exec: the script starts and its pid is answered, or the answer is lost,
\* or the agent refuses.
Exec(d) ==
    /\ At(d, "ready")
    /\ \/ Goes(d, "waiting") /\ running' = running \union {d}
       \/ Ends(d, "error") /\ running' \in {running, running \union {d}}
    /\ UNCHANGED <<pins, answering, exited, restarted>>

\* The process goes on when nobody asks for it any more.
StopsAsking(d) == Ends(d, "error") /\ UNCHANGED <<pins, host, restarted>>

-----------------------------------------------------------------------------
\* waitGuestAgentReady: a ping is answered; the deadline counts after a failed one.
LibvirtWaitGuestAgentReady(d) ==
    /\ At(d, "called")
    /\ \/ Goes(d, "ready")
       \/ delivery[d].expired /\ Ends(d, "error")
    /\ UNCHANGED <<pins, host, restarted>>

\* guest-exec-status, every two seconds, until the process has exited, a request
\* fails, or the deadline has passed.
LibvirtStatus(d) ==
    /\ At(d, "waiting")
    /\ Done(d) \/ StopsAsking(d)

\* callCtx: the deadline ends the call, and its worker goes on for itself.
LibvirtCallCtx(d) ==
    /\ InFlight(d)
    /\ delivery[d].expired /\ delivery[d].result = "none"
    /\ Becomes(d, [delivery[d] EXCEPT !.result = "error"])
    /\ UNCHANGED <<pins, host, restarted>>

LibvirtGuestExec(d) ==
    LibvirtWaitGuestAgentReady(d) \/ Exec(d) \/ LibvirtStatus(d) \/ LibvirtCallCtx(d)

-----------------------------------------------------------------------------
\* The VM is opened and the blob written to a file in the guest.
ProxmoxFileWrite(d) ==
    /\ At(d, "called")
    /\ \/ ~delivery[d].expired /\ Goes(d, "ready")
       \/ Ends(d, "error")
    /\ UNCHANGED <<pins, host, restarted>>

\* The wait ends with the context, after --exec-timeout, or in an error.
ProxmoxAgentRun(d) ==
    \/ Exec(d)
    \/ At(d, "waiting") /\ (Done(d) \/ StopsAsking(d))

Proxmox(d) == ProxmoxFileWrite(d) \/ ProxmoxAgentRun(d)
=============================================================================
