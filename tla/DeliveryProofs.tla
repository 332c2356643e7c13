--------------------------- MODULE DeliveryProofs ---------------------------
(***************************************************************************)
(* Theorems about BootstrapDelivery: what each way of getting a command to *)
(* a machine guarantees, for any number of calls, machines and restarts.   *)
(***************************************************************************)
EXTENDS BootstrapDelivery, FiniteSetTheorems, TLAPS

-----------------------------------------------------------------------------
(* Scripts: in an SSH session and through the guest agent.                  *)

Fingerprints == Keys \union {NoKey, NoEntry}

\* One ApplyBootstrap or DrainNode call.
Sent == [stage : {"unsent", "called", "viewed", "dialed", "firstUse", "ready", "waiting",
                  "ended", "killed"},
         view : Fingerprints, peer : Keys \union {NoKey}, key : Keys \union {NoKey},
         kept : BOOLEAN, expired : BOOLEAN, result : {"none", "ok", "error"}]

ScriptType ==
    /\ delivery \in [Calls -> Sent]
    /\ pin \in Fingerprints /\ savedPin \in Fingerprints
    /\ answering \in Keys
    /\ running \subseteq Calls
    /\ exited \in [Calls -> {"no", "zero", "nonzero"}]

\* The stages in which a call has started no script, and those in which it has met
\* no host key.
BeforeScript == {"unsent", "called", "viewed", "dialed", "firstUse", "ready"}
BeforeKey == {"unsent", "called", "viewed", "dialed"}

\* What a call goes by, from its view of the server on to the recorded key.
CallInv(d) ==
    LET it == delivery[d] IN
    /\ it.stage = "unsent" => it.result = "none"
    /\ it.result = "ok" => it.stage = "ended" /\ exited[d] # "no"
    /\ it.stage \in BeforeScript => exited[d] = "no" /\ d \notin running
    /\ d \in running => exited[d] = "no"
    /\ it.stage \in BeforeKey => it.key = NoKey /\ ~it.kept
    /\ it.stage \in {"viewed", "dialed", "firstUse"} =>
         it.view = pin \/ (pin = NoEntry /\ it.view = NoKey)
    /\ it.stage = "dialed" => it.peer \in Keys
    /\ it.stage = "firstUse" => it.view = NoKey /\ it.key \in Keys /\ ~it.kept
    /\ it.kept => it.key \in Keys /\ pin = it.key /\ savedPin = it.key

\* The kit sends a script once the earlier ones have succeeded, and the key of an
\* earlier call that is on record is the later one's.
PairInv(b, d) ==
    /\ delivery[d].stage # "unsent" => delivery[b].result = "ok"
    /\ delivery[b].kept /\ delivery[d].key # NoKey => delivery[d].key = delivery[b].key

ScriptInv ==
    /\ ScriptType
    /\ \A d \in Calls : CallInv(d)
    /\ \A b, d \in Calls : b < d => PairInv(b, d)

LEMMA CallsAreNat == Calls \subseteq Nat /\ Script!Deliveries = Calls
BY ChannelAssumption DEF Calls, Script!Deliveries

LEMMA ScriptInit == Init => ScriptInv
<1> SUFFICES ASSUME Init PROVE ScriptInv
  OBVIOUS
<1>1. PICK fps \in SUBSET Fingerprints : Script!Init(fps)
  BY DEF Init, HostKeys, Fingerprints
<1>2. /\ delivery = [d \in Calls |-> Script!Unsent]
      /\ pin \in fps /\ savedPin \in Fingerprints /\ answering \in Keys
      /\ running = {} /\ exited = [d \in Calls |-> "no"]
  BY <1>1, CallsAreNat DEF Script!Init, Fingerprints
<1>3. Script!Unsent \in Sent
  BY DEF Script!Unsent, Sent, Fingerprints
<1>4. ScriptType
  BY <1>2, <1>3 DEF ScriptType
<1>5. \A d \in Calls : /\ delivery[d].stage = "unsent" /\ delivery[d].result = "none"
                       /\ delivery[d].key = NoKey /\ ~delivery[d].kept
  BY <1>2 DEF Script!Unsent
<1> QED
  BY <1>2, <1>4, <1>5 DEF ScriptInv, CallInv, PairInv, BeforeScript, BeforeKey

\* A call that has not ended yet is the last one that was made.
LEMMA LastCall ==
    ASSUME ScriptInv, NEW d \in Calls, delivery[d].result # "ok",
           \A b \in Calls : b < d => delivery[b].result = "ok"
    PROVE  \A b \in Calls \ {d} : IF b < d THEN delivery[b].stage = "ended"
                                  ELSE delivery[b].stage = "unsent"
BY CallsAreNat DEF ScriptInv, CallInv, PairInv

\* A step of one call, which is in flight, or made now: the calls before it are
\* over, and the record of the server is theirs only once it is for good.
LEMMA OneCallMoves ==
    ASSUME ScriptInv, NEW d \in Calls, NEW new \in Sent,
           delivery' = [delivery EXCEPT ![d] = new],
           delivery[d].result # "ok",
           \A b \in Calls : b < d => delivery[b].result = "ok",
           new.stage # "unsent",
           running' \subseteq running \union {d}, exited' = exited,
           answering' = answering,
           pin' \in Fingerprints, savedPin' \in Fingerprints,
           \A b \in Calls \ {d} : delivery[b].kept => pin' = pin /\ savedPin' = savedPin,
           CallInv(d)',
           new.key # NoKey => \/ new.key = delivery[d].key
                              \/ \A b \in Calls : b < d /\ delivery[b].kept =>
                                                    new.key = delivery[b].key
    PROVE  ScriptInv'
<1>1. delivery'[d] = new /\ \A b \in Calls \ {d} : delivery'[b] = delivery[b]
  BY DEF ScriptInv, ScriptType
<1>2. \A b \in Calls \ {d} : IF b < d THEN delivery[b].stage = "ended"
                             ELSE delivery[b].stage = "unsent"
  BY LastCall
<1>3. ScriptType'
  BY DEF ScriptInv, ScriptType
<1>4. \A b \in Calls \ {d} : CallInv(b)'
  BY <1>1, <1>2 DEF ScriptInv, CallInv, BeforeScript, BeforeKey
<1>5. ASSUME NEW b \in Calls, NEW c \in Calls, b < c PROVE PairInv(b, c)'
  <2>1. PairInv(b, c) /\ b \in Nat /\ c \in Nat /\ d \in Nat
    BY <1>5, CallsAreNat DEF ScriptInv
  <2>2. CASE b # d /\ c # d
    BY <1>1, <2>1, <2>2 DEF PairInv
  <2>3. CASE c = d
    BY <1>1, <1>5, <2>1, <2>3 DEF PairInv
  <2>4. CASE b = d
    <3>1. delivery'[c].stage = "unsent" /\ delivery'[c] = delivery[c]
      BY <1>1, <1>2, <1>5, <2>1, <2>4
    <3>2. delivery'[c].key = NoKey
      BY <3>1 DEF ScriptInv, CallInv, BeforeKey
    <3> QED
      BY <3>1, <3>2 DEF PairInv
  <2> QED
    BY <2>2, <2>3, <2>4
<1> QED
  BY <1>3, <1>4, <1>5 DEF ScriptInv

LEMMA InFlightCall ==
    ASSUME ScriptInv, NEW d \in Calls, delivery[d].stage \notin {"unsent", "ended"}
    PROVE  /\ delivery[d] \in Sent /\ CallInv(d)
           /\ delivery[d].result # "ok"
           /\ \A b \in Calls : b < d => delivery[b].result = "ok"
<1>1. delivery[d] \in Sent /\ CallInv(d)
  BY DEF ScriptInv, ScriptType
<1>2. delivery[d].result # "ok"
  BY <1>1 DEF CallInv
<1>3. \A b \in Calls : b < d => delivery[b].result = "ok"
  BY DEF ScriptInv, PairInv
<1> QED
  BY <1>1, <1>2, <1>3

\* A step that has to do with no key.
LEMMA PlainMove ==
    ASSUME ScriptInv, NEW d \in Calls, delivery[d].stage \notin {"unsent", "ended"},
           NEW new \in Sent, delivery' = [delivery EXCEPT ![d] = new],
           new.stage # "unsent", new.key = delivery[d].key,
           running' \subseteq running \union {d},
           UNCHANGED <<pin, savedPin, answering, exited>>, CallInv(d)'
    PROVE  ScriptInv'
BY InFlightCall, OneCallMoves DEF ScriptInv, ScriptType

LEMMA GoesTo ==
    ASSUME ScriptInv, NEW d \in Calls, NEW stage, Script!Goes(d, stage),
           stage \in {"called", "ready", "waiting"}
    PROVE  \E new \in Sent : /\ delivery' = [delivery EXCEPT ![d] = new]
                             /\ delivery'[d] = new
                             /\ new.stage = stage /\ new.result = delivery[d].result
                             /\ new.key = delivery[d].key /\ new.kept = delivery[d].kept
<1>1. delivery[d] \in Sent
  BY DEF ScriptInv, ScriptType
<1> DEFINE new == [delivery[d] EXCEPT !.stage = stage]
<1>2. /\ new \in Sent /\ new.stage = stage /\ new.result = delivery[d].result
      /\ new.key = delivery[d].key /\ new.kept = delivery[d].kept
  BY <1>1 DEF Sent
<1>3. delivery' = [delivery EXCEPT ![d] = new]
  BY DEF Script!Goes, Script!Becomes
<1> HIDE DEF new
<1> QED
  BY <1>2, <1>3 DEF ScriptInv, ScriptType

LEMMA EndsWith ==
    ASSUME ScriptInv, NEW d \in Calls, NEW result \in {"ok", "error"}, Script!Ends(d, result)
    PROVE  \E new \in Sent : /\ delivery' = [delivery EXCEPT ![d] = new]
                             /\ delivery'[d] = new
                             /\ new.stage = "ended"
                             /\ new.result \in {delivery[d].result, result}
                             /\ new.key = delivery[d].key /\ new.kept = delivery[d].kept
<1>1. delivery[d] \in Sent
  BY DEF ScriptInv, ScriptType
<1> DEFINE r == IF delivery[d].result = "none" THEN result ELSE delivery[d].result
           new == [delivery[d] EXCEPT !.stage = "ended", !.result = r]
<1>2. r \in {"none", "ok", "error"} /\ r \in {delivery[d].result, result}
  BY <1>1 DEF Sent
<1>3. delivery' = [delivery EXCEPT ![d] = new]
  BY <1>1 DEF Script!Ends, Script!Becomes, Sent
<1> HIDE DEF r
<1>4. /\ new \in Sent /\ new.stage = "ended" /\ new.result = r
      /\ new.key = delivery[d].key /\ new.kept = delivery[d].kept
  BY <1>1, <1>2 DEF Sent
<1> HIDE DEF new
<1> QED
  BY <1>2, <1>3, <1>4 DEF ScriptInv, ScriptType

\* A call that fails leaves at most its own script behind.
LEMMA ScriptErrs ==
    ASSUME ScriptInv, NEW d \in Calls, delivery[d].stage \notin {"unsent", "ended"},
           Script!Ends(d, "error"), UNCHANGED <<pin, savedPin, answering, exited>>,
           \/ running' \subseteq running
           \/ running' \subseteq running \union {d} /\ exited[d] = "no"
    PROVE  ScriptInv'
<1>1. PICK new \in Sent : /\ delivery' = [delivery EXCEPT ![d] = new]
                          /\ delivery'[d] = new
                          /\ new.stage = "ended"
                          /\ new.result \in {delivery[d].result, "error"}
                          /\ new.key = delivery[d].key /\ new.kept = delivery[d].kept
  BY EndsWith
<1>2. CallInv(d) /\ delivery[d].result # "ok"
  BY InFlightCall
<1>3. CallInv(d)'
  BY <1>1, <1>2 DEF CallInv, BeforeScript, BeforeKey
<1> QED
  BY <1>1, <1>3, PlainMove

\* A call that goes on to run its script, or to the readiness for it.
LEMMA ScriptGoes ==
    ASSUME ScriptInv, NEW d \in Calls,
           \/ Script!At(d, "called") /\ Script!Goes(d, "ready") /\ running' = running
           \/ /\ Script!At(d, "ready") /\ Script!Goes(d, "waiting")
              /\ running' = running \union {d},
           UNCHANGED <<pin, savedPin, answering, exited>>
    PROVE  ScriptInv'
<1>1. PICK stage \in {"ready", "waiting"} :
        /\ Script!Goes(d, stage)
        /\ \/ stage = "ready" /\ delivery[d].stage = "called" /\ running' = running
           \/ stage = "waiting" /\ delivery[d].stage = "ready" /\ running' = running \union {d}
  BY DEF Script!At
<1>2. PICK new \in Sent : /\ delivery' = [delivery EXCEPT ![d] = new]
                          /\ delivery'[d] = new
                          /\ new.stage = stage /\ new.result = delivery[d].result
                          /\ new.key = delivery[d].key /\ new.kept = delivery[d].kept
  BY <1>1, GoesTo
<1>3. CallInv(d) /\ delivery[d].result # "ok"
  BY <1>1, InFlightCall
<1>4. CallInv(d)'
  BY <1>1, <1>2, <1>3 DEF CallInv, BeforeScript, BeforeKey
<1> QED
  BY <1>1, <1>2, <1>4, PlainMove

\* A script that has exited has exited before anyone takes its call for a success.
LEMMA ScriptFinishes ==
    ASSUME ScriptInv, NEW d \in Calls, Script!Finishes(d), savedPin' \in {savedPin, pin}
    PROVE  ScriptInv'
<1> DEFINE result == IF exited[d] = "zero" THEN "ok" ELSE "error"
<1>1. /\ delivery[d].stage = "waiting" /\ exited[d] # "no" /\ Script!Ends(d, result)
      /\ UNCHANGED <<pin, answering, running, exited>>
  BY DEF Script!Finishes, Script!At, Script!host
<1>2. result \in {"ok", "error"}
  OBVIOUS
<1> HIDE DEF result
<1>3. PICK new \in Sent : /\ delivery' = [delivery EXCEPT ![d] = new]
                          /\ delivery'[d] = new
                          /\ new.stage = "ended"
                          /\ new.result \in {delivery[d].result, result}
                          /\ new.key = delivery[d].key /\ new.kept = delivery[d].kept
  BY <1>1, <1>2, EndsWith
<1>4. /\ CallInv(d) /\ delivery[d].result # "ok"
      /\ \A b \in Calls : b < d => delivery[b].result = "ok"
  BY <1>1, InFlightCall
<1>5. CallInv(d)'
  BY <1>1, <1>3, <1>4 DEF CallInv, BeforeScript, BeforeKey
<1>6. \A b \in Calls : delivery[b].kept => savedPin' = savedPin
  BY DEF ScriptInv, CallInv
<1>7. pin' \in Fingerprints /\ savedPin' \in Fingerprints
  BY <1>1 DEF ScriptInv, ScriptType
<1> QED
  BY <1>1, <1>3, <1>4, <1>5, <1>6, <1>7, OneCallMoves

\* The kit's part, the host's and the process's.
LEMMA OutsideKeeps == ASSUME ScriptInv, Script!Outside PROVE ScriptInv'
<1> USE DEF Script!pins, Script!host
<1>1. ASSUME NEW d \in Calls, Script!Deliver(d) PROVE ScriptInv'
  <2>1. /\ delivery[d].stage = "unsent" /\ Script!Goes(d, "called")
        /\ UNCHANGED <<pin, savedPin, answering, running, exited>>
        /\ \A b \in 1..(d - 1) : delivery[b].result = "ok"
    BY <1>1 DEF Script!Deliver, Script!At
  <2>2. PICK new \in Sent : /\ delivery' = [delivery EXCEPT ![d] = new]
                            /\ delivery'[d] = new
                            /\ new.stage = "called" /\ new.result = delivery[d].result
                            /\ new.key = delivery[d].key /\ new.kept = delivery[d].kept
    BY <2>1, GoesTo
  <2>3. CallInv(d)
    BY DEF ScriptInv
  <2>4. CallInv(d)'
    BY <2>1, <2>2, <2>3 DEF CallInv, BeforeScript, BeforeKey
  <2>5. \A b \in Calls : b < d => delivery[b].result = "ok"
    BY <2>1, CallsAreNat DEF Calls
  <2> QED
    BY <2>1, <2>2, <2>3, <2>4, <2>5, OneCallMoves DEF CallInv, ScriptInv, ScriptType
<1>2. ASSUME NEW d \in Calls, Script!Expire(d) PROVE ScriptInv'
  <2> DEFINE new == [delivery[d] EXCEPT !.expired = TRUE]
  <2>1. /\ delivery[d].stage \notin {"unsent", "ended"}
        /\ delivery' = [delivery EXCEPT ![d] = new]
        /\ UNCHANGED <<pin, savedPin, answering, running, exited>>
    BY <1>2 DEF Script!Expire, Script!InFlight, Script!Becomes
  <2>2. CallInv(d) /\ delivery[d] \in Sent
    BY <2>1, InFlightCall
  <2>3. /\ new \in Sent /\ new.stage = delivery[d].stage /\ new.result = delivery[d].result
        /\ new.key = delivery[d].key /\ new.kept = delivery[d].kept
        /\ new.view = delivery[d].view /\ new.peer = delivery[d].peer
    BY <2>2 DEF Sent
  <2> HIDE DEF new
  <2>4. delivery'[d] = new
    BY <2>1 DEF ScriptInv, ScriptType
  <2>5. CallInv(d)'
    BY <2>1, <2>2, <2>3, <2>4 DEF CallInv, BeforeScript, BeforeKey
  <2> QED
    BY <2>1, <2>3, <2>5, PlainMove
<1>3. ASSUME NEW d \in Calls, Script!Exits(d) PROVE ScriptInv'
  <2>1. PICK code \in {"zero", "nonzero"} :
          /\ d \in running /\ running' = running \ {d}
          /\ exited' = [exited EXCEPT ![d] = code]
          /\ UNCHANGED <<delivery, pin, savedPin, answering>>
    BY <1>3 DEF Script!Exits
  <2>2. exited'[d] = code /\ \A b \in Calls \ {d} : exited'[b] = exited[b]
    BY <2>1 DEF ScriptInv, ScriptType
  <2>3. \A b \in Calls : CallInv(b)'
    BY <2>1, <2>2 DEF ScriptInv, CallInv, BeforeScript, BeforeKey
  <2>4. ScriptType'
    BY <2>1 DEF ScriptInv, ScriptType
  <2> QED
    BY <2>1, <2>3, <2>4 DEF ScriptInv, PairInv
<1>4. CASE Script!Rekey
  BY <1>4 DEF Script!Rekey, ScriptInv, ScriptType, CallInv, PairInv
<1>5. CASE Script!Restart
  <2>1. /\ delivery' = [d \in Calls |-> IF Script!InFlight(d)
                                        THEN [delivery[d] EXCEPT !.stage = "killed"]
                                        ELSE delivery[d]]
        /\ pin' = savedPin /\ UNCHANGED <<savedPin, answering, running, exited>>
    BY <1>5, CallsAreNat DEF Script!Restart
  <2>2. ASSUME NEW d \in Calls
        PROVE  /\ delivery'[d] \in Sent
               /\ delivery'[d].stage = IF Script!InFlight(d) THEN "killed" ELSE delivery[d].stage
               /\ delivery'[d].result = delivery[d].result
               /\ delivery'[d].key = delivery[d].key /\ delivery'[d].kept = delivery[d].kept
    <3>1. delivery[d] \in Sent
      BY DEF ScriptInv, ScriptType
    <3> QED
      BY <2>1, <3>1 DEF Sent
  <2>3. ScriptType'
    BY <2>1, <2>2 DEF ScriptInv, ScriptType
  <2>4. \A d \in Calls : CallInv(d)'
    BY <2>1, <2>2 DEF ScriptInv, CallInv, BeforeScript, BeforeKey, Script!InFlight
  <2>5. \A b, d \in Calls : b < d => PairInv(b, d)'
    BY <2>2 DEF ScriptInv, PairInv, Script!InFlight
  <2> QED
    BY <2>3, <2>4, <2>5 DEF ScriptInv
<1> QED
  BY <1>1, <1>2, <1>3, <1>4, <1>5, CallsAreNat DEF Script!Outside

LEMMA GuestAgentKeeps ==
    ASSUME ScriptInv, NEW d \in Calls, Script!LibvirtGuestExec(d) \/ Script!Proxmox(d)
    PROVE  ScriptInv'
<1> USE DEF Script!pins, Script!host, Script!At
<1>1. CASE Script!Exec(d)
  <2>1. delivery[d].stage = "ready" /\ CallInv(d)
    BY <1>1 DEF Script!Exec, ScriptInv
  <2>2. exited[d] = "no"
    BY <2>1 DEF CallInv, BeforeScript
  <2> QED
    BY <1>1, <2>1, <2>2, ScriptGoes, ScriptErrs DEF Script!Exec
<1>2. CASE Script!LibvirtWaitGuestAgentReady(d) \/ Script!ProxmoxFileWrite(d)
  BY <1>2, ScriptGoes, ScriptErrs DEF Script!LibvirtWaitGuestAgentReady, Script!ProxmoxFileWrite
<1>3. CASE Script!At(d, "waiting") /\ (Script!Done(d) \/ Script!StopsAsking(d))
  BY <1>3, ScriptFinishes, ScriptErrs DEF Script!Done, Script!StopsAsking
<1>4. CASE Script!LibvirtCallCtx(d)
  <2> DEFINE new == [delivery[d] EXCEPT !.result = "error"]
  <2>1. /\ delivery[d].stage \notin {"unsent", "ended"}
        /\ delivery' = [delivery EXCEPT ![d] = new]
        /\ UNCHANGED <<pin, savedPin, answering, running, exited>>
    BY <1>4 DEF Script!LibvirtCallCtx, Script!InFlight, Script!Becomes
  <2>2. CallInv(d) /\ delivery[d] \in Sent
    BY <2>1, InFlightCall
  <2>3. /\ new \in Sent /\ new.stage = delivery[d].stage /\ new.result = "error"
        /\ new.key = delivery[d].key /\ new.kept = delivery[d].kept
        /\ new.view = delivery[d].view /\ new.peer = delivery[d].peer
    BY <2>2 DEF Sent
  <2> HIDE DEF new
  <2>4. delivery'[d] = new
    BY <2>1 DEF ScriptInv, ScriptType
  <2>5. CallInv(d)'
    BY <2>1, <2>2, <2>3, <2>4 DEF CallInv, BeforeScript, BeforeKey
  <2> QED
    BY <2>1, <2>3, <2>5, PlainMove
<1> QED
  BY <1>1, <1>2, <1>3, <1>4 DEF Script!LibvirtGuestExec, Script!LibvirtStatus, Script!Proxmox,
                                Script!ProxmoxAgentRun

\* View and LatitudeWithPin: what the call goes by is what is on record now.
LEMMA ViewKeeps ==
    ASSUME ScriptInv, NEW d \in Calls, Script!View(d) \/ Script!LatitudeWithPin(d)
    PROVE  ScriptInv'
<1> USE DEF Script!pins, Script!host, Script!At
<1>1. PICK view \in Fingerprints :
        /\ view = pin \/ (pin = NoEntry /\ view = NoKey)
        /\ delivery[d].stage = "called"
        /\ delivery' = [delivery EXCEPT ![d] = [delivery[d] EXCEPT !.stage = "viewed", !.view = view]]
        /\ UNCHANGED <<pin, savedPin, answering, running, exited>>
  <2>1. CASE Script!View(d)
    BY <2>1 DEF Script!View, Script!Becomes, ScriptInv, ScriptType
  <2>2. CASE Script!LatitudeWithPin(d)
    <3> DEFINE view == IF pin = NoEntry THEN NoKey ELSE pin
    <3>1. /\ delivery' = [delivery EXCEPT ![d] = [delivery[d] EXCEPT !.stage = "viewed", !.view = view]]
          /\ delivery[d].stage = "called"
          /\ UNCHANGED <<pin, savedPin, answering, running, exited>>
      BY <2>2 DEF Script!LatitudeWithPin, Script!Becomes
    <3>2. view \in Fingerprints /\ (view = pin \/ (pin = NoEntry /\ view = NoKey))
      BY DEF ScriptInv, ScriptType, Fingerprints
    <3> QED
      BY <3>1, <3>2
  <2> QED
    BY <2>1, <2>2
<1> DEFINE new == [delivery[d] EXCEPT !.stage = "viewed", !.view = view]
<1>2. CallInv(d) /\ delivery[d] \in Sent
  BY <1>1, InFlightCall
<1>3. /\ new \in Sent /\ new.stage = "viewed" /\ new.result = delivery[d].result
      /\ new.key = delivery[d].key /\ new.kept = delivery[d].kept /\ new.view = view
  BY <1>2 DEF Sent
<1>4. delivery' = [delivery EXCEPT ![d] = new]
  BY <1>1
<1> HIDE DEF new
<1>5. delivery'[d] = new
  BY <1>4 DEF ScriptInv, ScriptType
<1>6. CallInv(d)'
  BY <1>1, <1>2, <1>3, <1>5 DEF CallInv, BeforeScript, BeforeKey
<1> QED
  BY <1>1, <1>3, <1>4, <1>6, PlainMove

LEMMA DialKeeps == ASSUME ScriptInv, NEW d \in Calls, Script!Dial(d) PROVE ScriptInv'
<1> DEFINE new == [delivery[d] EXCEPT !.stage = "dialed", !.peer = answering]
<1>1. /\ delivery[d].stage = "viewed" /\ delivery' = [delivery EXCEPT ![d] = new]
      /\ UNCHANGED <<pin, savedPin, answering, running, exited>>
  BY DEF Script!Dial, Script!At, Script!Becomes, Script!pins, Script!host
<1>2. CallInv(d) /\ delivery[d] \in Sent
  BY <1>1, InFlightCall
<1>3. /\ new \in Sent /\ new.stage = "dialed" /\ new.result = delivery[d].result
      /\ new.key = delivery[d].key /\ new.kept = delivery[d].kept /\ new.view = delivery[d].view
      /\ new.peer = answering
  BY <1>2 DEF Sent, ScriptInv, ScriptType
<1> HIDE DEF new
<1>5. delivery'[d] = new /\ answering \in Keys
  BY <1>1 DEF ScriptInv, ScriptType
<1>6. CallInv(d)'
  BY <1>1, <1>2, <1>3, <1>5 DEF CallInv, BeforeScript, BeforeKey
<1> QED
  BY <1>1, <1>3, <1>6, PlainMove

\* The host presents the key that is on record, or none is.
LEMMA HandshakeKeeps == ASSUME ScriptInv, NEW d \in Calls, Script!Handshake(d) PROVE ScriptInv'
<1> USE DEF Script!pins, Script!host, Script!At
<1> DEFINE it == delivery[d]
<1>1. /\ it.stage = "dialed"
      /\ UNCHANGED <<pin, savedPin, answering, running, exited>>
  BY DEF Script!Handshake
<1>2. /\ CallInv(d) /\ it \in Sent /\ it.result # "ok"
      /\ \A b \in Calls : b < d => delivery[b].result = "ok"
  BY <1>1, InFlightCall
<1>3. CASE ~Script!HostKeyCallback(it.view, it.peer)
  BY <1>1, <1>3, ScriptErrs DEF Script!Handshake
<1>4. CASE Script!HostKeyCallback(it.view, it.peer)
  <2> DEFINE stage == IF it.view = NoKey THEN "firstUse" ELSE "ready"
             kept == it.view # NoKey /\ it.view = savedPin
             new == [it EXCEPT !.stage = stage, !.key = it.peer, !.kept = kept]
  <2>1. delivery' = [delivery EXCEPT ![d] = new]
    BY <1>4 DEF Script!Handshake, Script!Becomes
  <2>2. it.peer \in Keys /\ (it.view = NoKey \/ it.view = it.peer)
    BY <1>1, <1>2, <1>4 DEF CallInv, Script!HostKeyCallback
  <2>3. stage \in {"firstUse", "ready"} /\ kept \in BOOLEAN
    OBVIOUS
  <2>4. stage = "firstUse" => it.view = NoKey /\ ~kept
    OBVIOUS
  <2>5. kept => it.view = it.peer /\ savedPin = it.peer /\ pin = it.peer
    BY <1>1, <1>2, <2>2, KeysAssumption DEF CallInv
  <2> HIDE DEF stage, kept
  <2>6. /\ new \in Sent /\ new.stage = stage /\ new.result = it.result
        /\ new.key = it.peer /\ new.kept = kept /\ new.view = it.view
    BY <1>2, <2>2, <2>3 DEF Sent
  <2> HIDE DEF new
  <2>7. delivery'[d] = new
    BY <2>1 DEF ScriptInv, ScriptType
  <2>8. CallInv(d)'
    BY <1>1, <1>2, <2>2, <2>3, <2>4, <2>5, <2>6, <2>7 DEF CallInv, BeforeScript, BeforeKey
  <2>9. \A b \in Calls : b < d /\ delivery[b].kept => it.peer = delivery[b].key
    <3> SUFFICES ASSUME NEW b \in Calls, delivery[b].kept PROVE it.peer = delivery[b].key
      OBVIOUS
    <3>1. delivery[b].key \in Keys /\ pin = delivery[b].key
      BY DEF ScriptInv, CallInv
    <3>2. it.view = pin
      BY <1>1, <1>2, <3>1, KeysAssumption DEF CallInv
    <3> QED
      BY <2>2, <3>1, <3>2, KeysAssumption
  <2> QED
    BY <1>1, <1>2, <2>1, <2>3, <2>6, <2>8, <2>9, OneCallMoves DEF ScriptInv, ScriptType
<1> QED
  BY <1>3, <1>4

\* A key met first goes on record, or into the memory of the process, or nowhere.
LEMMA FirstUseKeeps ==
    ASSUME ScriptInv, NEW d \in Calls, NEW kept \in BOOLEAN, Script!FirstUse(d, kept),
           \/ ~kept /\ pin' = pin /\ savedPin' = savedPin
           \/ /\ pin' = delivery[d].key /\ savedPin' \in {savedPin, delivery[d].key}
              /\ kept => savedPin' = delivery[d].key
    PROVE  ScriptInv'
<1> DEFINE new == [delivery[d] EXCEPT !.stage = "ready", !.kept = kept]
<1>1. /\ delivery[d].stage = "firstUse" /\ delivery' = [delivery EXCEPT ![d] = new]
      /\ UNCHANGED <<answering, running, exited>>
  BY DEF Script!FirstUse, Script!At, Script!Becomes, Script!host
<1>2. /\ CallInv(d) /\ delivery[d] \in Sent /\ delivery[d].result # "ok"
      /\ \A b \in Calls : b < d => delivery[b].result = "ok"
  BY <1>1, InFlightCall
<1>3. /\ new \in Sent /\ new.stage = "ready" /\ new.result = delivery[d].result
      /\ new.key = delivery[d].key /\ new.kept = kept
  BY <1>2 DEF Sent
<1> HIDE DEF new
<1>4. delivery'[d] = new
  BY <1>1 DEF ScriptInv, ScriptType
<1>5. delivery[d].key \in Keys /\ pin \notin Keys
  BY <1>1, <1>2, KeysAssumption DEF CallInv
<1>6. CallInv(d)'
  BY <1>1, <1>2, <1>3, <1>4, <1>5 DEF CallInv, BeforeScript, BeforeKey
<1>7. \A b \in Calls : ~delivery[b].kept
  BY <1>5 DEF ScriptInv, CallInv
<1>8. pin' \in Fingerprints /\ savedPin' \in Fingerprints
  BY <1>5 DEF ScriptInv, ScriptType, Fingerprints
<1> QED
  BY <1>1, <1>2, <1>3, <1>6, <1>7, <1>8, OneCallMoves

LEMMA OverSSHKeeps ==
    ASSUME ScriptInv, NEW d \in Calls,
           \/ Script!HetznerRunSSH(d) \/ Script!UpCloudRunSSH(d) \/ Script!OvhRunSSH(d)
           \/ Script!GcpRunSSH(d) \/ Script!LatitudeRun(d)
    PROVE  ScriptInv'
<1> USE DEF Script!pins, Script!host
<1>1. CASE Script!View(d) \/ Script!LatitudeWithPin(d) \/ Script!Dial(d) \/ Script!Handshake(d)
  BY <1>1, ViewKeeps, DialKeeps, HandshakeKeeps
<1>2. CASE Script!Errs(d)
  BY <1>2, ScriptErrs DEF Script!Errs, Script!At
<1>3. CASE Script!Deadline(d) \/ Script!Drops(d)
  BY <1>3, ScriptErrs DEF Script!Deadline, Script!Drops, Script!LetGo, Script!At
<1>4. CASE Script!StartScript(d)
  BY <1>4, ScriptGoes DEF Script!StartScript
<1>5. CASE Script!Done(d) \/ Script!LatitudeDone(d)
  BY <1>5, ScriptFinishes DEF Script!Done, Script!LatitudeDone
<1>6. CASE Script!Unrecorded(d) \/ Script!LatitudeOrphan(d)
  BY <1>6, FirstUseKeeps DEF Script!Unrecorded, Script!LatitudeOrphan
<1>7. CASE Script!Recorded(d)
  BY <1>7, FirstUseKeeps DEF Script!Recorded
<1>8. CASE Script!LatitudeOnTOFU(d)
  <2>1. PICK kept \in BOOLEAN : kept = (savedPin' = delivery[d].key)
    OBVIOUS
  <2> QED
    BY <1>8, <2>1, FirstUseKeeps DEF Script!LatitudeOnTOFU
<1> QED
  BY <1>1, <1>2, <1>3, <1>4, <1>5, <1>6, <1>7, <1>8
     DEF Script!HetznerRunSSH, Script!UpCloudRunSSH, Script!OvhRunSSH, Script!GcpRunSSH,
         Script!LatitudeRun, Script!HetznerEnsureIPv4, Script!HetznerSetLabel,
         Script!UpCloudEnsureIPv4, Script!UpCloudSetLabel, Script!OvhEnsureIPv4,
         Script!OvhSetMetadatum, Script!GcpEnsureReachable, Script!GcpSetHostKeyFP,
         Script!RunSSH

\* A save that undoes another leaves the provider's memory and the calls as they were.
LEMMA OlderSaveKeeps == ASSUME ScriptInv, Script!LatitudeOlderSave PROVE ScriptInv'
<1>1. /\ UNCHANGED <<pin, answering, running, exited>>
      /\ savedPin' \in Fingerprints
      /\ delivery' = [d \in Calls |-> [delivery[d] EXCEPT !.kept = FALSE]]
  BY CallsAreNat DEF Script!LatitudeOlderSave, Script!host, Fingerprints
<1>2. ASSUME NEW d \in Calls
      PROVE  /\ delivery'[d] \in Sent /\ ~delivery'[d].kept
             /\ delivery'[d].stage = delivery[d].stage /\ delivery'[d].result = delivery[d].result
             /\ delivery'[d].view = delivery[d].view /\ delivery'[d].peer = delivery[d].peer
             /\ delivery'[d].key = delivery[d].key
  BY <1>1 DEF ScriptInv, ScriptType, Sent
<1>3. ScriptType'
  BY <1>1, <1>2 DEF ScriptInv, ScriptType
<1>4. \A d \in Calls : CallInv(d)'
  BY <1>1, <1>2 DEF ScriptInv, CallInv
<1>5. \A b, d \in Calls : b < d => PairInv(b, d)'
  BY <1>2 DEF ScriptInv, PairInv
<1> QED
  BY <1>3, <1>4, <1>5 DEF ScriptInv

LEMMA ScriptNext == ScriptInv /\ [Next]_vars => ScriptInv'
<1> SUFFICES ASSUME ScriptInv, [Next]_vars PROVE ScriptInv'
  OBVIOUS
<1>1. CASE UNCHANGED scriptState
  BY <1>1 DEF scriptState, ScriptInv, ScriptType, CallInv, PairInv
<1>2. CASE Script!Outside
  BY <1>2, OutsideKeeps
<1>3. CASE \E d \in Calls : OverSSHNext(d) \/ GuestAgentNext(d)
  BY <1>3, OverSSHKeeps, GuestAgentKeeps DEF OverSSHNext, GuestAgentNext
<1>4. CASE Script!LatitudeOlderSave
  BY <1>4, OlderSaveKeeps
<1> QED
  BY <1>1, <1>2, <1>3, <1>4 DEF Next, vars

LEMMA ScriptAlways == Spec => []ScriptInv
BY ScriptInit, ScriptNext, PTL DEF Spec

\* The scripts of a machine never run beside one another, whatever a deadline, a
\* broken session or a restart leaves running on the host: the next is not sent
\* until the last has exited (runTransition leaves the machine Failed otherwise).
THEOREM OneScriptRuns == Spec => []OneScriptAtATime
<1>1. ScriptInv => OneScriptAtATime
  <2> SUFFICES ASSUME ScriptInv PROVE Cardinality(running) <= 1
    BY DEF OneScriptAtATime
  <2>1. \A b, d \in running : b = d
    <3> SUFFICES ASSUME NEW b \in running, NEW d \in running, b < d PROVE FALSE
      BY CallsAreNat DEF ScriptInv, ScriptType
    <3>1. b \in Calls /\ d \in Calls
      BY DEF ScriptInv, ScriptType
    <3>2. delivery[d].stage # "unsent" /\ exited[b] = "no"
      BY <3>1 DEF ScriptInv, CallInv, BeforeScript
    <3>3. delivery[b].result = "ok"
      BY <3>1, <3>2 DEF ScriptInv, PairInv
    <3> QED
      BY <3>1, <3>2, <3>3 DEF ScriptInv, CallInv
  <2>2. CASE running = {}
    BY <2>2, FS_EmptySet
  <2>3. CASE running # {}
    <3>1. PICK d : running = {d}
      BY <2>1, <2>3
    <3> QED
      BY <3>1, FS_Singleton
  <2> QED
    BY <2>2, <2>3
<1> QED
  BY <1>1, ScriptAlways, PTL

\* No call ever reaches a host with another key than the one an earlier call left
\* on record, for any sequence of calls, restarts and hosts that answer.
THEOREM LaterConnectionsAreVerified == Spec => []LaterConnectionsVerified
<1>1. ScriptInv => LaterConnectionsVerified
  BY DEF ScriptInv, PairInv, LaterConnectionsVerified
<1> QED
  BY <1>1, ScriptAlways, PTL

-----------------------------------------------------------------------------
(* The two vaults. Command ids are the calls' own numbers, with one         *)
(* exception: DigitalOcean's after a restart.                               *)
Fresh == provider = "scaleway" \/ restarts = 0

VaultType ==
    /\ ChannelTypeOK
    /\ seq \in Nat
    /\ acking \subseteq [ack : Ack, to : Calls]

\* The calls are numbered in their order, and one that has not ended has no result.
CallsInOrder ==
    /\ \A c \in Calls : call[c].stage = "unused" <=> c > issued
    /\ \A f \in fetched : f.call <= issued
    /\ \A c \in Calls : call[c].stage \in {"unused", "waiting"} => call[c].result = "none"

\* As long as they do not start over, an id names its call, at the vault, at the
\* agents and between the lookup of an acknowledgement and its delivery.
IdsNameCalls ==
    Fresh => /\ provider = "digitalocean" => seq = issued
             /\ \A c \in Calls : c <= issued => call[c].id = c
             /\ \A f \in fetched : f.id = f.call
             /\ \A a \in acks : a.id = a.call
             /\ \A h \in acking : h.to = h.ack.call

\* A positive result, wherever it is on its way, was reached by the agent.
ResultsAreReal ==
    /\ \A a \in acks : a.ok => TRUE \in effect[a.call]
    /\ \A h \in acking : h.ack.ok => TRUE \in effect[h.ack.call]
    /\ Fresh => \A c \in Calls : call[c].done = "ok" \/ call[c].result = "ok" => TRUE \in effect[c]

VaultInv == /\ VaultType
            /\ CallsInOrder
            /\ ServedWhileWanted
            /\ NoOrphanWaiter
            /\ IdsNameCalls
            /\ ResultsAreReal

LEMMA UnusedIsCall == Unused \in Call
<1>1. (CHOOSE m \in Machines : TRUE) \in Machines
  BY ChannelAssumption
<1> QED
  BY <1>1 DEF Unused, Call, Stages, Results

LEMMA TrySendEffect ==
    ASSUME NEW c \in Calls, NEW value \in Results, VaultType
    PROVE  LET sent == TrySend(call, c, value) IN
           /\ sent \in [Calls -> Call]
           /\ sent[c].done # "empty"
           /\ sent[c].done \in {value, call[c].done}
           /\ \A d \in Calls : d # c => sent[d] = call[d]
           /\ \A d \in Calls : /\ sent[d].stage = call[d].stage /\ sent[d].id = call[d].id
                               /\ sent[d].machine = call[d].machine
                               /\ sent[d].result = call[d].result
<1>0. call \in [Calls -> Call]
  BY DEF VaultType, ChannelTypeOK
<1>1. CASE call[c].done = "empty"
  BY <1>0, <1>1 DEF TrySend, Call, Results
<1>2. CASE call[c].done # "empty"
  BY <1>0, <1>2 DEF TrySend, Call
<1> QED
  BY <1>1, <1>2

LEMMA VaultStart == Init => VaultInv
<1> SUFFICES ASSUME Init PROVE VaultInv
  OBVIOUS
<1>1. /\ call = [c \in Calls |-> Unused] /\ issued = 0 /\ restarts = 0
      /\ pending = [m \in Machines |-> NoCall] /\ fetched = {} /\ acks = {}
      /\ effect = [c \in Calls |-> {}] /\ seq = 0 /\ acking = {}
  BY DEF Init, VaultInit, DigitalOcean!Init, DigitalOcean!ChannelInit, DigitalOcean!Calls,
         DigitalOcean!Unused, DigitalOcean!NoCall, Scaleway!Init, Scaleway!ChannelInit,
         Scaleway!Calls, Scaleway!Unused, Scaleway!NoCall, Calls, Unused, NoCall
<1>2. VaultType
  BY <1>1, UnusedIsCall, ChannelAssumption DEF VaultType, ChannelTypeOK
<1> QED
  <2>1. \A c \in Calls : /\ call[c].stage = "unused" /\ call[c].done = "empty"
                         /\ call[c].result = "none" /\ c > issued
    BY <1>1 DEF Unused, Calls
  <2> QED
    BY <1>1, <1>2, <2>1, CallsAreNat DEF VaultInv, CallsInOrder, ServedWhileWanted,
       NoOrphanWaiter, IdsNameCalls, ResultsAreReal

\* Every step of a vault's, but a restart, leaves the freshness of the ids alone.
LEMMA FreshSame == ASSUME UNCHANGED <<provider, restarts>> PROVE Fresh' = Fresh
BY DEF Fresh

\* A pending command's call has been made and waits.
LEMMA PendingCall ==
    ASSUME VaultInv, NEW m \in Machines, pending[m] # NoCall
    PROVE  /\ pending[m] \in Calls /\ pending[m] \in Nat /\ pending[m] <= issued /\ issued \in Nat
           /\ call[pending[m]].machine = m
           /\ call[pending[m]].stage \in {"waiting", "returning"}
           /\ Fresh => call[pending[m]].id = pending[m]
<1>1. /\ pending[m] \in Calls /\ issued \in Nat
      /\ call[pending[m]].machine = m
      /\ call[pending[m]].stage \in {"waiting", "returning"}
  BY ChannelAssumption DEF VaultInv, VaultType, ChannelTypeOK, ServedWhileWanted
<1>2. pending[m] \in Nat /\ pending[m] <= issued
  <2>1. call[pending[m]].stage # "unused"
    BY <1>1
  <2>2. ~(pending[m] > issued)
    BY <1>1, <2>1 DEF VaultInv, CallsInOrder
  <2>3. pending[m] \in Nat
    BY <1>1, CallsAreNat
  <2> QED
    BY <1>1, <2>2, <2>3
<1> QED
  BY <1>1, <1>2 DEF VaultInv, IdsNameCalls

LEMMA EnqueueKeeps ==
    ASSUME VaultInv, NEW m \in Machines, NEW id \in Nat,
           issued < MaxCalls, issued' = issued + 1, call' = Register(issued + 1, m, id),
           pending' = [pending EXCEPT ![m] = issued + 1],
           UNCHANGED <<provider, restarts, agent, acking>>,
           seq' \in Nat,
           Fresh => id = issued + 1 /\ (provider = "digitalocean" => seq' = seq + 1)
    PROVE  VaultInv'
<1> DEFINE n == issued + 1
           told == IF pending[m] = NoCall THEN call ELSE TrySend(call, pending[m], "superseded")
<1>0. /\ VaultType /\ n \in Calls /\ n \in Nat /\ issued \in Nat
      /\ call \in [Calls -> Call] /\ call[n].stage = "unused" /\ pending[m] # n
  <2>1. VaultType /\ issued \in Nat /\ call \in [Calls -> Call]
    BY ChannelAssumption DEF VaultInv, VaultType, ChannelTypeOK
  <2>2. n \in Calls /\ n \in Nat
    BY <2>1, ChannelAssumption DEF Calls
  <2>3. call[n].stage = "unused"
    BY <2>1, <2>2 DEF VaultInv, CallsInOrder
  <2>4. pending[m] # n
    BY <2>1, PendingCall DEF NoCall
  <2> QED
    BY <2>1, <2>2, <2>3, <2>4
<1>1. /\ told \in [Calls -> Call]
      /\ \A d \in Calls : /\ told[d].stage = call[d].stage /\ told[d].id = call[d].id
                          /\ told[d].machine = call[d].machine /\ told[d].result = call[d].result
                          /\ told[d].done = "ok" => call[d].done = "ok"
                          /\ call[d].done # "empty" => told[d].done # "empty"
                          /\ pending[m] # d => told[d] = call[d]
                          /\ call[d].stage = "unused" => told[d] = call[d]
      /\ pending[m] # NoCall => told[pending[m]].done # "empty"
  <2>1. CASE pending[m] = NoCall
    BY <1>0, <2>1
  <2>2. CASE pending[m] # NoCall
    <3>1. pending[m] \in Calls /\ "superseded" \in Results
      BY <2>2, PendingCall DEF Results
    <3>2. told = TrySend(call, pending[m], "superseded")
      BY <2>2
    <3>3. call[pending[m]].stage # "unused"
      BY <2>2, PendingCall
    <3> QED
      BY <1>0, <2>2, <3>1, <3>2, <3>3, TrySendEffect
  <2> QED
    BY <2>1, <2>2
<1>2. /\ call' = [told EXCEPT ![n] = NewCall(m, id)]
      /\ UNCHANGED <<fetched, effect, acks>>
  BY DEF Register, agent
<1> HIDE DEF told
<1>3. NewCall(m, id) \in Call /\ NewCall(m, id).stage = "waiting"
      /\ NewCall(m, id).machine = m /\ NewCall(m, id).id = id /\ NewCall(m, id).done = "empty"
      /\ NewCall(m, id).result = "none"
  BY DEF NewCall, Call, Stages, Results
<1>4. /\ call'[n] = NewCall(m, id)
      /\ \A d \in Calls : d # n => call'[d] = told[d]
  BY <1>0, <1>1, <1>2
<1>5. VaultType'
  <2>1. call' \in [Calls -> Call]
    BY <1>1, <1>2, <1>3
  <2>2. pending' \in [Machines -> Calls \union {NoCall}]
    BY <1>0 DEF VaultType, ChannelTypeOK
  <2>3. issued' \in 0..MaxCalls
    BY <1>0, ChannelAssumption
  <2> QED
    BY <1>0, <1>2, <2>1, <2>2, <2>3 DEF VaultType, ChannelTypeOK
<1>6. CallsInOrder'
  <2>1. \A c \in Calls : call'[c].stage = "unused" <=> c > n
    BY <1>0, <1>1, <1>3, <1>4, CallsAreNat DEF VaultInv, CallsInOrder
  <2>2. \A c \in Calls : call'[c].stage \in {"unused", "waiting"} => call'[c].result = "none"
    BY <1>0, <1>1, <1>3, <1>4 DEF VaultInv, CallsInOrder
  <2>3. \A f \in fetched' : f.call <= issued'
    <3> SUFFICES ASSUME NEW f \in fetched PROVE f.call <= issued + 1
      BY <1>2
    <3>1. f.call \in Nat /\ f.call <= issued
      BY <1>0, CallsAreNat DEF VaultInv, VaultType, ChannelTypeOK, CallsInOrder
    <3> QED
      BY <1>0, <3>1
  <2> QED
    BY <2>1, <2>2, <2>3 DEF CallsInOrder
<1>7. ServedWhileWanted'
  <2> SUFFICES ASSUME NEW k \in Machines, pending'[k] # NoCall
               PROVE  /\ call'[pending'[k]].machine = k
                      /\ call'[pending'[k]].stage \in {"waiting", "returning"}
    BY DEF ServedWhileWanted
  <2>1. CASE k = m
    BY <1>0, <1>3, <1>4, <2>1 DEF VaultType, ChannelTypeOK
  <2>2. CASE k # m
    <3>1. pending'[k] = pending[k]
      BY <1>0, <2>2 DEF VaultType, ChannelTypeOK
    <3>2. pending[k] \in Calls /\ pending[k] # n /\ call[pending[k]].machine = k
          /\ call[pending[k]].stage \in {"waiting", "returning"}
      BY <3>1, <1>0, PendingCall
    <3> QED
      BY <1>1, <1>4, <3>1, <3>2
  <2> QED
    BY <2>1, <2>2
<1>8. NoOrphanWaiter'
  <2> SUFFICES ASSUME NEW c \in Calls, call'[c].stage = "waiting"
               PROVE  pending'[call'[c].machine] = c \/ call'[c].done # "empty"
    BY DEF NoOrphanWaiter
  <2>1. CASE c = n
    BY <1>0, <1>3, <1>4, <2>1 DEF VaultType, ChannelTypeOK
  <2>2. CASE c # n
    <3>1. call'[c] = told[c] /\ call[c].stage = "waiting" /\ call[c].machine \in Machines
      BY <1>0, <1>1, <1>4, <2>2 DEF Call
    <3>2. pending[call[c].machine] = c \/ call[c].done # "empty"
      BY <3>1 DEF VaultInv, NoOrphanWaiter
    <3>3. CASE call[c].done # "empty"
      BY <1>1, <3>1, <3>3
    <3>4. CASE pending[m] = c
      BY <1>1, <3>1, <3>4 DEF Calls, NoCall
    <3>5. CASE pending[m] # c /\ pending[call[c].machine] = c
      <4>1. call[c].machine # m
        BY <3>5
      <4>2. pending'[call[c].machine] = c
        BY <1>0, <3>1, <3>5, <4>1 DEF VaultType, ChannelTypeOK
      <4> QED
        BY <1>1, <3>1, <4>2
    <3> QED
      BY <3>2, <3>3, <3>4, <3>5
  <2> QED
    BY <2>1, <2>2
<1>9. IdsNameCalls'
  <2> SUFFICES ASSUME Fresh
               PROVE  /\ provider' = "digitalocean" => seq' = issued'
                      /\ \A c \in Calls : c <= issued' => call'[c].id = c
                      /\ \A f \in fetched' : f.id = f.call
                      /\ \A a \in acks' : a.id = a.call
                      /\ \A h \in acking' : h.to = h.ack.call
    BY FreshSame DEF IdsNameCalls
  <2>1. \A c \in Calls : c # n => call'[c].id = call[c].id
    BY <1>1, <1>4
  <2>2. call'[n].id = n
    BY <1>0, <1>3, <1>4
  <2>3. \A c \in Calls : c <= n /\ c # n => c <= issued
    BY <1>0, CallsAreNat
  <2> HIDE DEF n
  <2> QED
    BY <1>2, <2>1, <2>2, <2>3 DEF VaultInv, IdsNameCalls, n
<1>10. ResultsAreReal'
  <2>1. \A c \in Calls : call'[c].done = "ok" \/ call'[c].result = "ok" =>
                            call[c].done = "ok" \/ call[c].result = "ok"
    BY <1>0, <1>1, <1>3, <1>4
  <2>2. Fresh' => \A c \in Calls : call'[c].done = "ok" \/ call'[c].result = "ok"
                                     => TRUE \in effect'[c]
    BY <1>2, <2>1, FreshSame DEF VaultInv, ResultsAreReal
  <2>3. acks' = acks /\ acking' = acking /\ effect' = effect
    BY <1>2
  <2> QED
    BY <2>2, <2>3 DEF VaultInv, ResultsAreReal
<1> QED
  BY <1>5, <1>6, <1>7, <1>8, <1>9, <1>10 DEF VaultInv

\* A step on calls that were made: ids, machines and the number of calls stay.
LEMMA CallsMove ==
    ASSUME VaultInv, call' \in [Calls -> Call], pending' \in [Machines -> Calls \union {NoCall}],
           UNCHANGED <<provider, restarts, issued, seq, fetched, effect>>,
           acks' \subseteq acks, acking' \subseteq acking,
           \A c \in Calls : /\ call'[c].machine = call[c].machine /\ call'[c].id = call[c].id
                            /\ call'[c].stage = "unused" <=> call[c].stage = "unused"
                            /\ call'[c].stage \in {"unused", "waiting"} =>
                                  call'[c].result = "none",
           Fresh => \A c \in Calls : call'[c].done = "ok" \/ call'[c].result = "ok"
                                     => TRUE \in effect[c],
           ServedWhileWanted', NoOrphanWaiter'
    PROVE  VaultInv'
<1>1. VaultType'
  BY DEF VaultInv, VaultType, ChannelTypeOK
<1>2. CallsInOrder'
  BY DEF VaultInv, CallsInOrder
<1>3. IdsNameCalls'
  BY FreshSame DEF VaultInv, IdsNameCalls
<1>4. ResultsAreReal'
  <2>1. Fresh' => \A c \in Calls : call'[c].done = "ok" \/ call'[c].result = "ok"
                                     => TRUE \in effect'[c]
    BY FreshSame
  <2> QED
    BY <2>1 DEF VaultInv, ResultsAreReal
<1> QED
  BY <1>1, <1>2, <1>3, <1>4 DEF VaultInv

\* A step of the agents': the calls and the pending commands stay.
LEMMA AgentMoves ==
    ASSUME VaultInv, UNCHANGED <<provider, call, issued, pending, restarts, seq>>,
           fetched' \subseteq [machine : Machines, id : Nat, call : Calls],
           effect' \in [Calls -> SUBSET BOOLEAN], acks' \subseteq Ack,
           acking' \subseteq [ack : Ack, to : Calls],
           \A c \in Calls : effect[c] \subseteq effect'[c],
           \A f \in fetched' \ fetched : f.call <= issued /\ (Fresh => f.id = f.call),
           \A a \in acks' \ acks : /\ a.ok => TRUE \in effect'[a.call]
                                   /\ Fresh => a.id = a.call,
           \A h \in acking' \ acking : /\ h.ack.ok => TRUE \in effect'[h.ack.call]
                                       /\ Fresh => h.to = h.ack.call
    PROVE  VaultInv'
<1>1. VaultType'
  BY DEF VaultInv, VaultType, ChannelTypeOK
<1>2. CallsInOrder' /\ ServedWhileWanted' /\ NoOrphanWaiter'
  BY DEF VaultInv, CallsInOrder, ServedWhileWanted, NoOrphanWaiter
<1>3. IdsNameCalls'
  <2> SUFFICES ASSUME Fresh
               PROVE  /\ provider' = "digitalocean" => seq' = issued'
                      /\ \A c \in Calls : c <= issued' => call'[c].id = c
                      /\ \A f \in fetched' : f.id = f.call
                      /\ \A a \in acks' : a.id = a.call
                      /\ \A h \in acking' : h.to = h.ack.call
    BY FreshSame DEF IdsNameCalls
  <2>1. \A f \in fetched' : f.id = f.call
    BY DEF VaultInv, IdsNameCalls
  <2>2. \A a \in acks' : a.id = a.call
    BY DEF VaultInv, IdsNameCalls
  <2>3. \A h \in acking' : h.to = h.ack.call
    BY DEF VaultInv, IdsNameCalls
  <2> QED
    BY <2>1, <2>2, <2>3 DEF VaultInv, IdsNameCalls
<1>4. ResultsAreReal'
  <2>1. \A a \in acks' : a.ok => TRUE \in effect'[a.call]
    <3> SUFFICES ASSUME NEW a \in acks', a.ok PROVE TRUE \in effect'[a.call]
      OBVIOUS
    <3>1. CASE a \in acks
      <4>1. a.call \in Calls
        BY DEF Ack
      <4>2. TRUE \in effect[a.call]
        BY <3>1 DEF VaultInv, ResultsAreReal
      <4> QED
        BY <4>1, <4>2
    <3>2. CASE a \in acks' \ acks
      BY <3>2
    <3> QED
      BY <3>1, <3>2
  <2>2. \A h \in acking' : h.ack.ok => TRUE \in effect'[h.ack.call]
    <3> SUFFICES ASSUME NEW h \in acking', h.ack.ok PROVE TRUE \in effect'[h.ack.call]
      OBVIOUS
    <3>1. CASE h \in acking
      <4>1. h.ack.call \in Calls
        BY DEF Ack
      <4>2. TRUE \in effect[h.ack.call]
        BY <3>1 DEF VaultInv, ResultsAreReal
      <4> QED
        BY <4>1, <4>2
    <3>2. CASE h \in acking' \ acking
      BY <3>2
    <3> QED
      BY <3>1, <3>2
  <2>3. Fresh' => \A c \in Calls : call'[c].done = "ok" \/ call'[c].result = "ok"
                                     => TRUE \in effect'[c]
    BY FreshSame DEF VaultInv, ResultsAreReal
  <2> QED
    BY <2>1, <2>2, <2>3 DEF ResultsAreReal
<1> QED
  BY <1>1, <1>2, <1>3, <1>4 DEF VaultInv

LEMMA HandleCommandKeeps ==
    ASSUME VaultInv, NEW m \in Machines, HandleCommand(m), UNCHANGED <<provider, seq, acking>>
    PROVE  VaultInv'
<1> DEFINE f == [machine |-> m, id |-> call[pending[m]].id, call |-> pending[m]]
<1>1. /\ fetched' = fetched \union {f} /\ pending[m] # NoCall
      /\ UNCHANGED <<call, issued, pending, restarts, effect, acks>>
  BY DEF HandleCommand
<1>2. call[pending[m]] \in Call /\ pending[m] \in Calls
  BY <1>1, PendingCall DEF VaultInv, VaultType, ChannelTypeOK
<1>3. f \in [machine : Machines, id : Nat, call : Calls] 
      /\ f.call <= issued /\ (Fresh => f.id = f.call)
  BY <1>1, <1>2, PendingCall DEF Call
<1> HIDE DEF f
<1> QED
  BY <1>1, <1>3, AgentMoves DEF VaultInv, VaultType, ChannelTypeOK

LEMMA ApplyKeeps ==
    ASSUME VaultInv, NEW f \in fetched, Apply(f), UNCHANGED <<provider, seq, acking>>
    PROVE  VaultInv'
<1>1. PICK ok \in BOOLEAN :
        /\ effect' = [effect EXCEPT ![f.call] = @ \union {ok}]
        /\ acks' = acks \union {[machine |-> f.machine, id |-> f.id, call |-> f.call, ok |-> ok]}
  BY DEF Apply
<1>2. fetched' = fetched \ {f} /\ UNCHANGED <<call, issued, pending, restarts>>
  BY DEF Apply
<1> DEFINE a == [machine |-> f.machine, id |-> f.id, call |-> f.call, ok |-> ok]
<1>3. /\ f.machine \in Machines /\ f.id \in Nat /\ f.call \in Calls
      /\ Fresh => f.id = f.call
  BY DEF VaultInv, VaultType, ChannelTypeOK, IdsNameCalls
<1>4. effect \in [Calls -> SUBSET BOOLEAN]
  BY DEF VaultInv, VaultType, ChannelTypeOK
<1>5. /\ effect' \in [Calls -> SUBSET BOOLEAN] /\ \A c \in Calls : effect[c] \subseteq effect'[c]
      /\ ok \in effect'[f.call]
  BY <1>1, <1>3, <1>4
<1>6. a \in Ack /\ a.call = f.call /\ a.ok = ok /\ a.id = f.id
  BY <1>3 DEF Ack
<1>7. acks' = acks \union {a}
  BY <1>1
<1> HIDE DEF a
<1>8. \A b \in acks' \ acks : /\ b.ok => TRUE \in effect'[b.call]
                              /\ Fresh => b.id = b.call
  BY <1>3, <1>5, <1>6, <1>7
<1> QED
  BY <1>2, <1>5, <1>6, <1>7, <1>8, AgentMoves DEF VaultInv, VaultType, ChannelTypeOK

\* The lookup of an acknowledgement, ahead of its delivery.
LEMMA AckArrivesKeeps ==
    ASSUME VaultInv, NEW a \in acks, Matches(a),
           acking' = acking \union {[ack |-> a, to |-> pending[a.machine]]},
           UNCHANGED <<provider, channelVars, seq>>
    PROVE  VaultInv'
<1> DEFINE h == [ack |-> a, to |-> pending[a.machine]]
<1>1. /\ a \in Ack /\ a.machine \in Machines /\ pending[a.machine] # NoCall
      /\ call[pending[a.machine]].id = a.id
  BY DEF Matches, VaultInv, VaultType, ChannelTypeOK, Ack
<1>2. h \in [ack : Ack, to : Calls] /\ h.ack = a /\ (Fresh => h.to = a.call)
  BY <1>1, PendingCall DEF VaultInv, IdsNameCalls
<1>3. UNCHANGED <<call, issued, pending, restarts, fetched, effect, acks>>
  BY DEF channelVars
<1> HIDE DEF h
<1>4. acking' = acking \union {h}
  BY DEF h
<1>5. \A g \in acking' \ acking : /\ g.ack.ok => TRUE \in effect'[g.ack.call]
                                  /\ Fresh => g.to = g.ack.call
  BY <1>2, <1>3, <1>4 DEF VaultInv, ResultsAreReal
<1> QED
  BY <1>2, <1>3, <1>4, <1>5, AgentMoves DEF VaultInv, VaultType, ChannelTypeOK

LEMMA AckDroppedKeeps ==
    ASSUME VaultInv, NEW a, Answered(a), UNCHANGED <<provider, call, issued, pending, restarts>>,
           UNCHANGED <<seq, acking>>
    PROVE  VaultInv'
BY AgentMoves DEF Answered, VaultInv, VaultType, ChannelTypeOK

\* The end of a wait.
LEMMA WaitKeeps ==
    ASSUME VaultInv, NEW c \in Calls, Receive(c) \/ Expire(c), UNCHANGED <<provider, seq, acking>>
    PROVE  VaultInv'
<1>0. /\ call \in [Calls -> Call] /\ call[c].stage = "waiting"
      /\ UNCHANGED <<issued, pending, restarts, fetched, effect, acks>>
  BY DEF Receive, Expire, agent, VaultInv, VaultType, ChannelTypeOK
<1>1. PICK new \in Call :
        /\ call' = [call EXCEPT ![c] = new]
        /\ new.machine = call[c].machine /\ new.id = call[c].id /\ new.stage = "returning"
        /\ new.done = "ok" \/ new.result = "ok" => call[c].done = "ok"
  <2>1. CASE Receive(c)
    <3> DEFINE new == [call[c] EXCEPT !.stage = "returning", !.result = call[c].done,
                                      !.done = "empty"]
    <3>1. /\ new \in Call /\ new.machine = call[c].machine /\ new.id = call[c].id
          /\ new.stage = "returning" /\ new.done = "empty" /\ new.result = call[c].done
      BY <1>0, <2>1 DEF Receive, Call, Stages, Results
    <3>2. call' = [call EXCEPT ![c] = new]
      BY <1>0, <2>1 DEF Receive, Call
    <3> HIDE DEF new
    <3> QED
      BY <3>1, <3>2
  <2>2. CASE Expire(c)
    <3> DEFINE new == [call[c] EXCEPT !.stage = "returning", !.result = "timeout"]
    <3>1. /\ new \in Call /\ new.machine = call[c].machine /\ new.id = call[c].id
          /\ new.stage = "returning" /\ new.done = call[c].done /\ new.result = "timeout"
      BY <1>0 DEF Call, Stages, Results
    <3>2. call' = [call EXCEPT ![c] = new]
      BY <1>0, <2>2 DEF Expire, Call
    <3> HIDE DEF new
    <3> QED
      BY <3>1, <3>2
  <2> QED
    BY <2>1, <2>2
<1>2. call'[c] = new /\ \A b \in Calls \ {c} : call'[b] = call[b]
  BY <1>0, <1>1
<1>3. call' \in [Calls -> Call]
  BY <1>0, <1>1
<1>4. ServedWhileWanted'
  <2> SUFFICES ASSUME NEW m \in Machines, pending[m] # NoCall
               PROVE  /\ call'[pending[m]].machine = m
                      /\ call'[pending[m]].stage \in {"waiting", "returning"}
    BY <1>0 DEF ServedWhileWanted
  <2> QED
    BY <1>1, <1>2, PendingCall
<1>7. NoOrphanWaiter'
  <2> SUFFICES ASSUME NEW b \in Calls, call'[b].stage = "waiting"
               PROVE  pending[call'[b].machine] = b \/ call'[b].done # "empty"
    BY <1>0 DEF NoOrphanWaiter
  <2>1. b # c
    BY <1>1, <1>2
  <2> QED
    BY <1>2, <2>1 DEF VaultInv, NoOrphanWaiter
<1>5. Fresh => \A b \in Calls : call'[b].done = "ok" \/ call'[b].result = "ok" => TRUE \in effect[b]
  BY <1>1, <1>2 DEF VaultInv, ResultsAreReal
<1>6. \A b \in Calls : /\ call'[b].machine = call[b].machine /\ call'[b].id = call[b].id
                       /\ call'[b].stage = "unused" <=> call[b].stage = "unused"
                       /\ call'[b].stage \in {"unused", "waiting"} => call'[b].result = "none"
  BY <1>0, <1>1, <1>2 DEF VaultInv, CallsInOrder
<1> QED
  BY <1>0, <1>3, <1>4, <1>5, <1>6, <1>7, CallsMove DEF VaultInv, VaultType, ChannelTypeOK

\* The deferred function takes the call's own command off the vault, no other's.
LEMMA ReturnKeeps ==
    ASSUME VaultInv, NEW c \in Calls, Return(c), UNCHANGED <<provider, seq, acking>>
    PROVE  VaultInv'
<1> DEFINE new == [call[c] EXCEPT !.stage = "returned"]
           m == call[c].machine
<1>0. /\ call \in [Calls -> Call] /\ pending \in [Machines -> Calls \union {NoCall}]
      /\ call[c].stage = "returning" /\ m \in Machines
  BY DEF Return, VaultInv, VaultType, ChannelTypeOK, Call
<1>1. /\ UNCHANGED <<issued, restarts, fetched, effect, acks>>
      /\ call' = [call EXCEPT ![c] = new]
      /\ pending' = IF pending[m] = c THEN [pending EXCEPT ![m] = NoCall] ELSE pending
  BY <1>0 DEF Return, agent, Call
<1>2. /\ new \in Call /\ new.machine = call[c].machine /\ new.id = call[c].id
      /\ new.stage = "returned" /\ new.done = call[c].done /\ new.result = call[c].result
  BY <1>0 DEF Call, Stages
<1> HIDE DEF new, m
<1>3. /\ call'[c] = new /\ (\A b \in Calls \ {c} : call'[b] = call[b])
      /\ call' \in [Calls -> Call]
  BY <1>0, <1>1, <1>2
<1>4. /\ pending' \in [Machines -> Calls \union {NoCall}]
      /\ \A k \in Machines : pending'[k] # NoCall => pending'[k] = pending[k] /\ pending[k] # c
      /\ \A k \in Machines : pending[k] # c => pending'[k] = pending[k]
  <2>1. \A k \in Machines : pending[k] = c => k = m
    BY PendingCall DEF m, Calls, NoCall
  <2> QED
    BY <1>0, <1>1, <2>1
<1>5. ServedWhileWanted'
  <2> SUFFICES ASSUME NEW k \in Machines, pending'[k] # NoCall
               PROVE  /\ call'[pending'[k]].machine = k
                      /\ call'[pending'[k]].stage \in {"waiting", "returning"}
    BY DEF ServedWhileWanted
  <2> QED
    BY <1>3, <1>4, PendingCall
<1>6. NoOrphanWaiter'
  <2> SUFFICES ASSUME NEW b \in Calls, call'[b].stage = "waiting"
               PROVE  pending'[call'[b].machine] = b \/ call'[b].done # "empty"
    BY DEF NoOrphanWaiter
  <2>1. b # c /\ call'[b] = call[b] /\ call[b].machine \in Machines
    BY <1>0, <1>2, <1>3 DEF Call
  <2> QED
    BY <1>4, <2>1 DEF VaultInv, NoOrphanWaiter
<1>7. Fresh => \A b \in Calls : call'[b].done = "ok" \/ call'[b].result = "ok" => TRUE \in effect[b]
  BY <1>2, <1>3 DEF VaultInv, ResultsAreReal
<1>8. \A b \in Calls : /\ call'[b].machine = call[b].machine /\ call'[b].id = call[b].id
                       /\ call'[b].stage = "unused" <=> call[b].stage = "unused"
                       /\ call'[b].stage \in {"unused", "waiting"} => call'[b].result = "none"
  BY <1>0, <1>2, <1>3 DEF VaultInv, CallsInOrder
<1> QED
  BY <1>1, <1>3, <1>4, <1>5, <1>6, <1>7, <1>8, CallsMove

\* A result is left for the waiter of a call that no acknowledgement can reach any
\* more, or that still can be reached.
LEMMA ResultKeeps ==
    ASSUME VaultInv, NEW c \in Calls, NEW value \in Results, call' = TrySend(call, c, value),
           Fresh /\ value = "ok" => TRUE \in effect[c],
           pending' \in [Machines -> Calls \union {NoCall}],
           \A m \in Machines : /\ pending'[m] \in {NoCall, pending[m]}
                               /\ pending[m] # c => pending'[m] = pending[m],
           UNCHANGED <<provider, restarts, issued, seq, fetched, effect>>,
           acks' \subseteq acks, acking' \subseteq acking
    PROVE  VaultInv'
<1>1. /\ call' \in [Calls -> Call] /\ call'[c].done # "empty"
      /\ call'[c].done \in {value, call[c].done}
      /\ \A d \in Calls : d # c => call'[d] = call[d]
      /\ \A d \in Calls : /\ call'[d].stage = call[d].stage /\ call'[d].id = call[d].id
                          /\ call'[d].machine = call[d].machine
                          /\ call'[d].result = call[d].result
  BY TrySendEffect DEF VaultInv
<1>2. ServedWhileWanted'
  <2> SUFFICES ASSUME NEW k \in Machines, pending'[k] # NoCall
               PROVE  /\ call'[pending'[k]].machine = k
                      /\ call'[pending'[k]].stage \in {"waiting", "returning"}
    BY DEF ServedWhileWanted
  <2> QED
    BY <1>1, PendingCall
<1>3. NoOrphanWaiter'
  <2> SUFFICES ASSUME NEW b \in Calls, call'[b].stage = "waiting"
               PROVE  pending'[call'[b].machine] = b \/ call'[b].done # "empty"
    BY DEF NoOrphanWaiter
  <2>1. CASE b = c
    BY <1>1, <2>1
  <2>2. CASE b # c
    <3>1. call'[b] = call[b] /\ call[b].machine \in Machines
      BY <1>1, <2>2 DEF VaultInv, VaultType, ChannelTypeOK, Call
    <3> QED
      BY <2>2, <3>1 DEF VaultInv, NoOrphanWaiter
  <2> QED
    BY <2>1, <2>2
<1>4. Fresh => \A b \in Calls : call'[b].done = "ok" \/ call'[b].result = "ok" => TRUE \in effect[b]
  <2> SUFFICES ASSUME Fresh, NEW b \in Calls, call'[b].done = "ok" \/ call'[b].result = "ok"
               PROVE  TRUE \in effect[b]
    OBVIOUS
  <2>1. CASE call[b].done = "ok" \/ call[b].result = "ok"
    BY <2>1 DEF VaultInv, ResultsAreReal
  <2>2. CASE ~(call[b].done = "ok" \/ call[b].result = "ok")
    <3>1. b = c /\ call'[b].done = value
      BY <1>1, <2>2
    <3>2. call'[b].done = "ok"
      BY <1>1, <2>2
    <3> QED
      BY <3>1, <3>2
  <2> QED
    BY <2>1, <2>2
<1>5. \A b \in Calls : call'[b].stage \in {"unused", "waiting"} => call'[b].result = "none"
  BY <1>1 DEF VaultInv, CallsInOrder
<1> QED
  BY <1>1, <1>2, <1>3, <1>4, <1>5, CallsMove

LEMMA ResultOfAck == ASSUME NEW a \in Ack PROVE ResultOf(a) \in Results /\ (ResultOf(a) = "ok" => a.ok)
BY DEF ResultOf, Results, Ack

LEMMA AckDeliveredKeeps ==
    ASSUME VaultInv, NEW h \in acking, call' = TrySend(call, h.to, ResultOf(h.ack)),
           Answered(h.ack), acking' = acking \ {h},
           UNCHANGED <<provider, issued, pending, restarts, seq>>
    PROVE  VaultInv'
<1>1. h.ack \in Ack /\ h.to \in Calls
  BY DEF VaultInv, VaultType
<1>2. Fresh /\ ResultOf(h.ack) = "ok" => TRUE \in effect[h.to]
  BY <1>1, ResultOfAck DEF VaultInv, IdsNameCalls, ResultsAreReal
<1>3. acks' \subseteq acks /\ UNCHANGED <<fetched, effect>>
  BY DEF Answered
<1> QED
  BY <1>1, <1>2, <1>3, ResultOfAck, ResultKeeps DEF VaultInv, VaultType, ChannelTypeOK

LEMMA HandleAckKeeps ==
    ASSUME VaultInv, NEW a \in acks, Matches(a), Answered(a),
           pending' = [pending EXCEPT ![a.machine] = NoCall],
           call' = TrySend(call, pending[a.machine], ResultOf(a)),
           UNCHANGED <<provider, issued, restarts, seq, acking>>
    PROVE  VaultInv'
<1>1. a \in Ack /\ a.machine \in Machines /\ pending[a.machine] # NoCall
      /\ call[pending[a.machine]].id = a.id
  BY DEF VaultInv, VaultType, ChannelTypeOK, Matches, Ack
<1>2. pending[a.machine] \in Calls /\ (Fresh => pending[a.machine] = a.id)
  BY <1>1, PendingCall
<1>3. Fresh /\ ResultOf(a) = "ok" => TRUE \in effect[pending[a.machine]]
  BY <1>1, <1>2, ResultOfAck DEF VaultInv, IdsNameCalls, ResultsAreReal
<1>4. acks' \subseteq acks /\ UNCHANGED <<fetched, effect>>
  BY DEF Answered
<1>5. /\ pending' \in [Machines -> Calls \union {NoCall}]
      /\ \A m \in Machines : /\ pending'[m] \in {NoCall, pending[m]}
                             /\ pending[m] # pending[a.machine] => pending'[m] = pending[m]
  BY <1>1 DEF VaultInv, VaultType, ChannelTypeOK
<1> QED
  BY <1>1, <1>2, <1>3, <1>4, <1>5, ResultOfAck, ResultKeeps

\* A restart ends the calls; what the agents hold goes on.
LEMMA RestartKeeps ==
    ASSUME VaultInv, KillCalls, UNCHANGED provider,
           \/ provider = "scaleway" /\ UNCHANGED <<seq, acking>>
           \/ provider = "digitalocean" /\ seq' = 0 /\ acking' = {}
    PROVE  VaultInv'
<1>0. /\ call \in [Calls -> Call] /\ restarts \in Nat /\ restarts' = restarts + 1
      /\ UNCHANGED <<issued, fetched, effect, acks>>
      /\ pending' = [m \in Machines |-> NoCall]
  BY DEF KillCalls, agent, VaultInv, VaultType, ChannelTypeOK
<1>1. /\ call' \in [Calls -> Call]
      /\ \A c \in Calls : /\ call'[c].stage = IF call[c].stage \in {"waiting", "returning"}
                                              THEN "killed" ELSE call[c].stage
                          /\ call'[c].id = call[c].id /\ call'[c].machine = call[c].machine
                          /\ call'[c].done = call[c].done /\ call'[c].result = call[c].result
  <2>1. call' = [c \in Calls |-> IF call[c].stage \in {"waiting", "returning"}
                                 THEN [call[c] EXCEPT !.stage = "killed"] ELSE call[c]]
    BY DEF KillCalls
  <2> QED
    BY <1>0, <2>1 DEF Call, Stages
<1>2. Fresh' => Fresh /\ provider # "digitalocean" /\ UNCHANGED <<seq, acking>>
  BY <1>0 DEF Fresh
<1>3. VaultType'
  <2>1. acking' \subseteq [ack : Ack, to : Calls] /\ seq' \in Nat
    BY DEF VaultInv, VaultType
  <2>2. pending' \in [Machines -> Calls \union {NoCall}]
    BY <1>0
  <2> QED
    BY <1>0, <1>1, <2>1, <2>2 DEF VaultInv, VaultType, ChannelTypeOK
<1>4. CallsInOrder'
  BY <1>0, <1>1 DEF VaultInv, CallsInOrder
<1>5. ServedWhileWanted' /\ NoOrphanWaiter'
  BY <1>0, <1>1 DEF ServedWhileWanted, NoOrphanWaiter
<1>6. IdsNameCalls'
  BY <1>0, <1>1, <1>2 DEF VaultInv, IdsNameCalls
<1>7. ResultsAreReal'
  <2>1. acking' \subseteq acking
    OBVIOUS
  <2> QED
    BY <1>0, <1>1, <1>2, <2>1 DEF VaultInv, ResultsAreReal
<1> QED
  BY <1>3, <1>4, <1>5, <1>6, <1>7 DEF VaultInv

\* What DigitalOcean!X and Scaleway!X say is what BootstrapChannel's X says.
LEMMA SameChannel ==
    /\ DigitalOcean!Calls = Calls /\ Scaleway!Calls = Calls
    /\ \A m \in Machines : /\ DigitalOcean!HandleCommand(m) <=> HandleCommand(m)
                           /\ Scaleway!HandleCommand(m) <=> HandleCommand(m)
    /\ \A c \in Calls : /\ DigitalOcean!Receive(c) <=> Receive(c)
                        /\ Scaleway!Receive(c) <=> Receive(c)
                        /\ DigitalOcean!Expire(c) <=> Expire(c)
                        /\ Scaleway!Expire(c) <=> Expire(c)
                        /\ DigitalOcean!Return(c) <=> Return(c)
                        /\ Scaleway!Return(c) <=> Return(c)
    /\ \A f \in fetched : /\ DigitalOcean!Apply(f) <=> Apply(f)
                          /\ Scaleway!Apply(f) <=> Apply(f)
    /\ DigitalOcean!KillCalls <=> KillCalls
    /\ Scaleway!KillCalls <=> KillCalls
<1>1. DigitalOcean!Calls = Calls /\ Scaleway!Calls = Calls
  BY DEF DigitalOcean!Calls, Scaleway!Calls, Calls
<1>2. \A m \in Machines : /\ DigitalOcean!HandleCommand(m) <=> HandleCommand(m)
                          /\ Scaleway!HandleCommand(m) <=> HandleCommand(m)
  BY DEF DigitalOcean!HandleCommand, Scaleway!HandleCommand, HandleCommand,
         DigitalOcean!NoCall, Scaleway!NoCall, NoCall
<1>3. \A c \in Calls : /\ DigitalOcean!Receive(c) <=> Receive(c)
                       /\ Scaleway!Receive(c) <=> Receive(c)
                       /\ DigitalOcean!Expire(c) <=> Expire(c)
                       /\ Scaleway!Expire(c) <=> Expire(c)
  BY DEF DigitalOcean!Receive, Scaleway!Receive, Receive, DigitalOcean!Expire,
         Scaleway!Expire, Expire, DigitalOcean!agent, Scaleway!agent, agent
<1>4. \A c \in Calls : /\ DigitalOcean!Return(c) <=> Return(c)
                       /\ Scaleway!Return(c) <=> Return(c)
  BY DEF DigitalOcean!Return, Scaleway!Return, Return, DigitalOcean!agent, Scaleway!agent,
         agent, DigitalOcean!NoCall, Scaleway!NoCall, NoCall
<1>5. \A f \in fetched : /\ DigitalOcean!Apply(f) <=> Apply(f)
                         /\ Scaleway!Apply(f) <=> Apply(f)
  BY DEF DigitalOcean!Apply, Scaleway!Apply, Apply
<1>6. /\ DigitalOcean!KillCalls <=> KillCalls
      /\ Scaleway!KillCalls <=> KillCalls
  BY DEF DigitalOcean!KillCalls, Scaleway!KillCalls, KillCalls, DigitalOcean!Calls,
         Scaleway!Calls, Calls, DigitalOcean!agent, Scaleway!agent, agent,
         DigitalOcean!NoCall, Scaleway!NoCall, NoCall
<1> QED
  BY <1>1, <1>2, <1>3, <1>4, <1>5, <1>6

LEMMA DigitalOceanKeeps ==
    ASSUME VaultInv, provider = "digitalocean", UNCHANGED provider, DigitalOcean!Next
    PROVE  VaultInv'
<1>1. CASE \E m \in Machines : DigitalOcean!Enqueue(m)
  <2> PICK m \in Machines : DigitalOcean!Enqueue(m)
    BY <1>1
  <2>1. /\ issued < MaxCalls /\ issued' = issued + 1 /\ seq' = seq + 1
        /\ call' = Register(issued + 1, m, seq + 1)
        /\ pending' = [pending EXCEPT ![m] = issued + 1]
        /\ UNCHANGED <<restarts, agent, acking>>
    BY DEF DigitalOcean!Enqueue, DigitalOcean!Register, DigitalOcean!TrySend,
           DigitalOcean!NewCall, DigitalOcean!NoCall, DigitalOcean!agent,
           Register, TrySend, NewCall, NoCall, agent
  <2>2. seq \in Nat /\ (Fresh => seq = issued)
    BY DEF VaultInv, VaultType, IdsNameCalls
  <2>3. PICK id \in Nat : id = seq + 1
    BY <2>2
  <2>4. seq' \in Nat /\ (Fresh => id = issued + 1 /\ seq' = seq + 1)
    BY <2>1, <2>2, <2>3
  <2> QED
    BY <2>1, <2>3, <2>4, EnqueueKeeps
<1>2. CASE \E m \in Machines : DigitalOcean!HandleCommand(m) /\ UNCHANGED <<seq, acking>>
  BY <1>2, SameChannel, HandleCommandKeeps
<1>3. CASE \E c \in DigitalOcean!Calls : DigitalOcean!Wait(c)
  BY <1>3, SameChannel, WaitKeeps DEF DigitalOcean!Wait
<1>4. CASE \E c \in DigitalOcean!Calls : DigitalOcean!Return(c) /\ UNCHANGED <<seq, acking>>
  BY <1>4, SameChannel, ReturnKeeps
<1>5. CASE \E f \in fetched : DigitalOcean!Apply(f) /\ UNCHANGED <<seq, acking>>
  BY <1>5, SameChannel, ApplyKeeps
<1>6. CASE \E a \in acks : DigitalOcean!AckArrives(a)
  BY <1>6, AckArrivesKeeps DEF DigitalOcean!AckArrives, DigitalOcean!Matches,
     DigitalOcean!NoCall, DigitalOcean!channelVars, Matches, NoCall, channelVars
<1>7. CASE \E a \in acks : DigitalOcean!AckIgnored(a)
  BY <1>7, AckDroppedKeeps DEF DigitalOcean!AckIgnored, DigitalOcean!Answered, Answered
<1>8. CASE \E h \in acking : DigitalOcean!AckDelivered(h)
  BY <1>8, AckDeliveredKeeps DEF DigitalOcean!AckDelivered, DigitalOcean!TrySend,
     DigitalOcean!ResultOf, DigitalOcean!Answered, TrySend, ResultOf, Answered
<1>9. CASE DigitalOcean!Restart
  BY <1>9, SameChannel, RestartKeeps DEF DigitalOcean!Restart
<1> QED
  BY <1>1, <1>2, <1>3, <1>4, <1>5, <1>6, <1>7, <1>8, <1>9 DEF DigitalOcean!Next

LEMMA ScalewayKeeps ==
    ASSUME VaultInv, provider = "scaleway", UNCHANGED <<provider, seq, acking>>, Scaleway!Next
    PROVE  VaultInv'
<1>1. CASE \E m \in Machines : Scaleway!Enqueue(m)
  <2> PICK m \in Machines : Scaleway!Enqueue(m)
    BY <1>1
  <2>1. /\ issued < MaxCalls /\ issued' = issued + 1
        /\ call' = Register(issued + 1, m, issued + 1)
        /\ pending' = [pending EXCEPT ![m] = issued + 1]
        /\ UNCHANGED <<restarts, agent>>
    BY DEF Scaleway!Enqueue, Scaleway!newCommandID, Scaleway!Register, Scaleway!TrySend,
           Scaleway!NewCall, Scaleway!NoCall, Scaleway!agent,
           Register, TrySend, NewCall, NoCall, agent
  <2>2. seq \in Nat /\ issued \in Nat
    BY DEF VaultInv, VaultType, ChannelTypeOK
  <2>3. PICK id \in Nat : id = issued + 1
    BY <2>2
  <2> QED
    BY <2>1, <2>2, <2>3, EnqueueKeeps
<1>2. CASE \E m \in Machines : Scaleway!HandleCommand(m)
  BY <1>2, SameChannel, HandleCommandKeeps
<1>3. CASE \E c \in Scaleway!Calls : Scaleway!Wait(c)
  BY <1>3, SameChannel, WaitKeeps DEF Scaleway!Wait
<1>4. CASE \E c \in Scaleway!Calls : Scaleway!Return(c)
  BY <1>4, SameChannel, ReturnKeeps
<1>5. CASE \E f \in fetched : Scaleway!Apply(f)
  BY <1>5, SameChannel, ApplyKeeps
<1>6. CASE \E a \in acks : Scaleway!HandleAck(a)
  BY <1>6, HandleAckKeeps DEF Scaleway!HandleAck, Scaleway!Matches, Scaleway!NoCall,
     Scaleway!TrySend, Scaleway!ResultOf, Scaleway!Answered, Matches, NoCall, TrySend,
     ResultOf, Answered
<1>7. CASE \E a \in acks : Scaleway!RejectAck(a)
  BY <1>7, AckDroppedKeeps DEF Scaleway!RejectAck, Scaleway!Answered, Answered
<1>8. CASE Scaleway!Restart
  BY <1>8, SameChannel, RestartKeeps DEF Scaleway!Restart
<1> QED
  BY <1>1, <1>2, <1>3, <1>4, <1>5, <1>6, <1>7, <1>8 DEF Scaleway!Next

LEMMA VaultNext == VaultInv /\ [Next]_vars => VaultInv'
<1> SUFFICES ASSUME VaultInv, [Next]_vars PROVE VaultInv'
  OBVIOUS
<1>1. CASE UNCHANGED <<provider, vaultState>>
  BY <1>1 DEF vaultState, channelVars, VaultInv, VaultType, ChannelTypeOK, CallsInOrder,
     ServedWhileWanted, NoOrphanWaiter, IdsNameCalls, ResultsAreReal, Fresh
<1>2. CASE UNCHANGED provider /\ provider = "digitalocean" /\ DigitalOcean!Next
  BY <1>2, DigitalOceanKeeps
<1>3. CASE /\ UNCHANGED <<provider, seq, acking>>
           /\ provider = "scaleway" /\ Scaleway!Next
  BY <1>3, ScalewayKeeps
<1> QED
  BY <1>1, <1>2, <1>3 DEF Next, vars

LEMMA VaultAlways == Spec => []VaultInv
BY VaultStart, VaultNext, PTL DEF Spec

\* An Enqueue that returns nil was acknowledged for its own command: always at
\* Scaleway, and at DigitalOcean until a restart starts the ids over, whoever calls
\* and however acknowledgements are delayed, repeated or overtaken.
THEOREM OwnAckReleases == Spec => []OwnAckWhileIdsAreFresh
<1>1. VaultInv => OwnAckWhileIdsAreFresh
  BY DEF VaultInv, ResultsAreReal, Fresh, OwnAckWhileIdsAreFresh, ReleasedByOwnAck
<1> QED
  BY <1>1, VaultAlways, PTL

\* Neither vault serves an agent a command whose Enqueue has returned.
THEOREM OnlyWantedIsServed == Spec => []ServedWhileWanted
<1>1. VaultInv => ServedWhileWanted
  BY DEF VaultInv
<1> QED
  BY <1>1, VaultAlways, PTL

\* A waiter no acknowledgement can reach any more has its result in its channel.
THEOREM WaitersAreServed == Spec => []NoOrphanWaiter
<1>1. VaultInv => NoOrphanWaiter
  BY DEF VaultInv
<1> QED
  BY <1>1, VaultAlways, PTL

-----------------------------------------------------------------------------
(* A vault delivers commands: it implements the safety part of              *)
(* CommandDelivery as long as the ids are fresh.                            *)

\* The delivery sees of a call its stage and its result.
LEMMA UnseenStep ==
    ASSUME UNCHANGED effect,
           \A c \in Calls : call'[c].stage = call[c].stage /\ call'[c].result = call[c].result
    PROVE  UNCHANGED Delivery!deliveryVars
BY DEF Delivery!deliveryVars, Outcome

LEMMA ResultIsUnseen ==
    ASSUME VaultInv, NEW c \in Calls, NEW value \in Results, call' = TrySend(call, c, value),
           UNCHANGED effect
    PROVE  UNCHANGED Delivery!deliveryVars
<1>1. \A d \in Calls : call'[d].stage = call[d].stage /\ call'[d].result = call[d].result
  BY TrySendEffect DEF VaultInv
<1> QED
  BY <1>1, UnseenStep

LEMMA EnqueueIssues ==
    ASSUME VaultInv, NEW m \in Machines, NEW id \in Nat, NEW n \in Calls, n = issued + 1,
           call' = Register(n, m, id), UNCHANGED effect
    PROVE  Delivery!Issue(n)
<1> DEFINE told == IF pending[m] = NoCall THEN call ELSE TrySend(call, pending[m], "superseded")
<1>1. /\ call \in [Calls -> Call] /\ call' = [told EXCEPT ![n] = NewCall(m, id)]
      /\ call[n].stage = "unused"
  BY DEF VaultInv, VaultType, ChannelTypeOK, CallsInOrder, Register
<1>2. /\ told \in [Calls -> Call]
      /\ \A d \in Calls : told[d].stage = call[d].stage /\ told[d].result = call[d].result
  <2>1. CASE pending[m] = NoCall
    BY <1>1, <2>1
  <2>2. CASE pending[m] # NoCall
    <3>1. pending[m] \in Calls /\ "superseded" \in Results
      BY <2>2, PendingCall DEF Results
    <3>2. told = TrySend(call, pending[m], "superseded")
      BY <2>2
    <3>3. \A d \in Calls : /\ TrySend(call, pending[m], "superseded")[d].stage = call[d].stage
                           /\ TrySend(call, pending[m], "superseded")[d].result = call[d].result
      BY <3>1, TrySendEffect DEF VaultInv
    <3>4. TrySend(call, pending[m], "superseded") \in [Calls -> Call]
      BY <3>1, TrySendEffect DEF VaultInv
    <3> QED
      BY <3>2, <3>3, <3>4
  <2> QED
    BY <2>1, <2>2
<1> HIDE DEF told
<1>3. /\ call'[n].stage = "waiting"
      /\ \A d \in Calls \ {n} : /\ call'[d].stage = call[d].stage
                                /\ call'[d].result = call[d].result
  BY <1>1, <1>2 DEF NewCall
<1>4. /\ Outcome(n) = "idle" /\ Outcome(n)' = "waiting"
      /\ \A d \in Calls \ {n} : Outcome(d)' = Outcome(d)
  BY <1>1, <1>3 DEF Outcome
<1> QED
  BY <1>4 DEF Delivery!Issue

LEMMA WaitEnds ==
    ASSUME VaultInv, Fresh, NEW c \in Calls, Receive(c) \/ Expire(c)
    PROVE  Delivery!Succeed(c) \/ Delivery!GiveUp({c})
<1>1. /\ call \in [Calls -> Call] /\ UNCHANGED effect /\ call[c].stage = "waiting"
      /\ call'[c].stage = "returning"
      /\ call'[c].result = "ok" => call[c].done = "ok"
      /\ \A d \in Calls : d # c => call'[d] = call[d]
  BY DEF VaultInv, VaultType, ChannelTypeOK, Receive, Expire, agent, Call
<1>2. /\ Outcome(c) = "waiting"
      /\ Outcome(c)' = IF call'[c].result = "ok" THEN "ok" ELSE "error"
      /\ \A d \in Calls : d # c => Outcome(d)' = Outcome(d)
  BY <1>1 DEF Outcome
<1>3. CASE call'[c].result = "ok"
  BY <1>1, <1>2, <1>3 DEF Delivery!Succeed, VaultInv, ResultsAreReal
<1>4. CASE call'[c].result # "ok"
  BY <1>1, <1>2, <1>4 DEF Delivery!GiveUp
<1> QED
  BY <1>3, <1>4

LEMMA ReturnIsUnseen ==
    ASSUME VaultInv, NEW c \in Calls, Return(c)
    PROVE  UNCHANGED Delivery!deliveryVars
<1>1. /\ call \in [Calls -> Call] /\ call[c].stage = "returning"
      /\ call' = [call EXCEPT ![c].stage = "returned"] /\ UNCHANGED effect
  BY DEF VaultInv, VaultType, ChannelTypeOK, Return, agent
<1>2. \A d \in Calls : Outcome(d)' = Outcome(d)
  BY <1>1 DEF Outcome, Call
<1> QED
  BY <1>1, <1>2 DEF Delivery!deliveryVars

LEMMA ApplyApplies ==
    ASSUME VaultInv, NEW f \in fetched, Apply(f)
    PROVE  f.call \in Calls /\ Delivery!Apply(f.call)
<1>1. f.call \in Calls /\ f.call <= issued /\ f.call \in Nat /\ issued \in Nat
  <2>1. f.call \in Calls /\ issued \in Nat
    BY DEF VaultInv, VaultType, ChannelTypeOK
  <2>2. f.call <= issued
    BY DEF VaultInv, CallsInOrder
  <2> QED
    BY <2>1, <2>2, CallsAreNat
<1>2. Outcome(f.call) # "idle"
  <2>1. call[f.call].stage # "unused"
    BY <1>1 DEF VaultInv, CallsInOrder
  <2> QED
    BY <2>1 DEF Outcome
<1>3. \E ok \in BOOLEAN : effect' = [effect EXCEPT ![f.call] = @ \union {ok}]
  BY DEF Apply
<1>4. \A c \in Calls : Outcome(c)' = Outcome(c)
  BY DEF Apply, Outcome
<1> QED
  BY <1>1, <1>2, <1>3, <1>4 DEF Delivery!Apply

LEMMA RestartGivesUp ==
    ASSUME VaultInv, KillCalls
    PROVE  [Delivery!DeliveryNext]_(Delivery!deliveryVars)
<1> DEFINE S == {c \in Calls : call[c].stage = "waiting"}
<1>1. /\ call \in [Calls -> Call] /\ UNCHANGED effect
      /\ \A c \in Calls : call'[c].result = call[c].result
      /\ \A c \in Calls : call[c].stage \in {"waiting", "returning"} => call'[c].stage = "killed"
      /\ \A c \in Calls : call[c].stage \notin {"waiting", "returning"} => call'[c] = call[c]
  BY DEF KillCalls, agent, VaultInv, VaultType, ChannelTypeOK, Call
<1>2. \A c \in Calls : call[c].stage = "waiting" => call[c].result = "none"
  BY DEF VaultInv, CallsInOrder
<1>3. \A c \in Calls : Outcome(c)' = IF c \in S THEN "error" ELSE Outcome(c)
  BY <1>1, <1>2 DEF Outcome
<1>4. \A c \in S : Outcome(c) = "waiting"
  BY DEF Outcome
<1>5. CASE S = {}
  BY <1>1, <1>3, <1>5 DEF Delivery!deliveryVars
<1>6. CASE S # {}
  BY <1>1, <1>3, <1>4, <1>6 DEF Delivery!GiveUp, Delivery!DeliveryNext
<1> QED
  BY <1>5, <1>6

LEMMA DigitalOceanDelivers ==
    ASSUME VaultInv, Fresh, DigitalOcean!Next
    PROVE  [Delivery!DeliveryNext]_(Delivery!deliveryVars)
<1>1. ASSUME NEW m \in Machines, DigitalOcean!Enqueue(m) PROVE Delivery!DeliveryNext
  <2>1. /\ issued < MaxCalls /\ call' = Register(issued + 1, m, seq + 1) /\ UNCHANGED effect
    BY <1>1 DEF DigitalOcean!Enqueue, DigitalOcean!Register, DigitalOcean!TrySend,
           DigitalOcean!NewCall, DigitalOcean!NoCall, DigitalOcean!agent,
           Register, TrySend, NewCall, NoCall
  <2>2. seq \in Nat /\ issued \in Nat /\ MaxCalls \in Nat
    BY ChannelAssumption DEF VaultInv, VaultType, ChannelTypeOK
  <2>3. PICK id \in Nat : id = seq + 1
    BY <2>2
  <2>4. PICK n \in Calls : n = issued + 1
    BY <2>1, <2>2 DEF Calls
  <2> QED
    BY <2>1, <2>3, <2>4, EnqueueIssues DEF Delivery!DeliveryNext
<1>2. ASSUME NEW m \in Machines, DigitalOcean!HandleCommand(m)
      PROVE  UNCHANGED Delivery!deliveryVars
  BY <1>2, SameChannel, UnseenStep DEF HandleCommand
<1>3. ASSUME NEW c \in Calls, DigitalOcean!Wait(c) PROVE Delivery!DeliveryNext
  BY <1>3, SameChannel, WaitEnds DEF DigitalOcean!Wait, Delivery!DeliveryNext
<1>4. ASSUME NEW c \in Calls, DigitalOcean!Return(c) PROVE UNCHANGED Delivery!deliveryVars
  BY <1>4, SameChannel, ReturnIsUnseen
<1>5. ASSUME NEW f \in fetched, DigitalOcean!Apply(f) PROVE Delivery!DeliveryNext
  BY <1>5, SameChannel, ApplyApplies DEF Delivery!DeliveryNext
<1>6. ASSUME NEW a \in acks, DigitalOcean!AckArrives(a) \/ DigitalOcean!AckIgnored(a)
      PROVE  UNCHANGED Delivery!deliveryVars
  BY <1>6, UnseenStep DEF DigitalOcean!AckArrives, DigitalOcean!channelVars,
     DigitalOcean!AckIgnored, DigitalOcean!Answered
<1>7. ASSUME NEW h \in acking, DigitalOcean!AckDelivered(h)
      PROVE  UNCHANGED Delivery!deliveryVars
  <2>1. h.to \in Calls /\ h.ack \in Ack
    BY DEF VaultInv, VaultType
  <2>2. call' = TrySend(call, h.to, ResultOf(h.ack)) /\ UNCHANGED effect
    BY <1>7 DEF DigitalOcean!AckDelivered, DigitalOcean!TrySend, DigitalOcean!ResultOf,
       DigitalOcean!Answered, TrySend, ResultOf
  <2> QED
    BY <2>1, <2>2, ResultOfAck, ResultIsUnseen
<1>8. CASE DigitalOcean!Restart
  BY <1>8, SameChannel, RestartGivesUp DEF DigitalOcean!Restart
<1> QED
  BY <1>1, <1>2, <1>3, <1>4, <1>5, <1>6, <1>7, <1>8, SameChannel DEF DigitalOcean!Next

LEMMA ScalewayDelivers ==
    ASSUME VaultInv, Fresh, Scaleway!Next
    PROVE  [Delivery!DeliveryNext]_(Delivery!deliveryVars)
<1>1. ASSUME NEW m \in Machines, Scaleway!Enqueue(m) PROVE Delivery!DeliveryNext
  <2>1. /\ issued < MaxCalls /\ call' = Register(issued + 1, m, issued + 1) /\ UNCHANGED effect
    BY <1>1 DEF Scaleway!Enqueue, Scaleway!newCommandID, Scaleway!Register,
           Scaleway!TrySend, Scaleway!NewCall, Scaleway!NoCall, Scaleway!agent,
           Register, TrySend, NewCall, NoCall
  <2>2. issued \in Nat /\ MaxCalls \in Nat
    BY ChannelAssumption DEF VaultInv, VaultType, ChannelTypeOK
  <2>3. PICK n \in Calls : n = issued + 1
    BY <2>1, <2>2 DEF Calls
  <2>4. n \in Nat
    BY CallsAreNat
  <2> QED
    BY <2>1, <2>3, <2>4, EnqueueIssues DEF Delivery!DeliveryNext
<1>2. ASSUME NEW m \in Machines, Scaleway!HandleCommand(m)
      PROVE  UNCHANGED Delivery!deliveryVars
  BY <1>2, SameChannel, UnseenStep DEF HandleCommand
<1>3. ASSUME NEW c \in Calls, Scaleway!Wait(c) PROVE Delivery!DeliveryNext
  BY <1>3, SameChannel, WaitEnds DEF Scaleway!Wait, Delivery!DeliveryNext
<1>4. ASSUME NEW c \in Calls, Scaleway!Return(c) PROVE UNCHANGED Delivery!deliveryVars
  BY <1>4, SameChannel, ReturnIsUnseen
<1>5. ASSUME NEW f \in fetched, Scaleway!Apply(f) PROVE Delivery!DeliveryNext
  BY <1>5, SameChannel, ApplyApplies DEF Delivery!DeliveryNext
<1>6. ASSUME NEW a \in acks, Scaleway!HandleAck(a) PROVE UNCHANGED Delivery!deliveryVars
  <2>1. a \in Ack /\ a.machine \in Machines
    BY DEF VaultInv, VaultType, ChannelTypeOK, Ack
  <2>2. /\ pending[a.machine] # NoCall /\ UNCHANGED effect
        /\ call' = TrySend(call, pending[a.machine], ResultOf(a))
    BY <1>6 DEF Scaleway!HandleAck, Scaleway!Matches, Scaleway!NoCall, Scaleway!TrySend,
       Scaleway!ResultOf, Scaleway!Answered, NoCall, TrySend, ResultOf
  <2> QED
    BY <2>1, <2>2, PendingCall, ResultOfAck, ResultIsUnseen
<1>7. ASSUME NEW a \in acks, Scaleway!RejectAck(a) PROVE UNCHANGED Delivery!deliveryVars
  BY <1>7, UnseenStep DEF Scaleway!RejectAck, Scaleway!Answered
<1>8. CASE Scaleway!Restart
  BY <1>8, SameChannel, RestartGivesUp DEF Scaleway!Restart
<1> QED
  BY <1>1, <1>2, <1>3, <1>4, <1>5, <1>6, <1>7, <1>8, SameChannel DEF Scaleway!Next

LEMMA DeliveryStarts == Init => Delivery!DeliveryInit
<1> SUFFICES ASSUME Init PROVE Delivery!DeliveryInit
  OBVIOUS
<1>1. call = [c \in Calls |-> Unused] /\ effect = [c \in Calls |-> {}]
  BY DEF Init, VaultInit, DigitalOcean!Init, DigitalOcean!ChannelInit, DigitalOcean!Calls,
         DigitalOcean!Unused, Scaleway!Init, Scaleway!ChannelInit, Scaleway!Calls,
         Scaleway!Unused, Calls, Unused
<1> QED
  BY <1>1 DEF Delivery!DeliveryInit, Outcome, Unused

LEMMA StepDelivers ==
    VaultInv /\ Fresh /\ [Next]_vars => [Delivery!DeliveryNext]_(Delivery!deliveryVars)
<1> SUFFICES ASSUME VaultInv, Fresh, [Next]_vars
             PROVE  [Delivery!DeliveryNext]_(Delivery!deliveryVars)
  OBVIOUS
<1>1. CASE UNCHANGED vaultState
  BY <1>1, UnseenStep DEF vaultState, channelVars
<1>2. CASE DigitalOcean!Next
  BY <1>2, DigitalOceanDelivers
<1>3. CASE Scaleway!Next
  BY <1>3, ScalewayDelivers
<1> QED
  BY <1>1, <1>2, <1>3 DEF Next, vars

\* A vault implements the delivery the actuator is promised (bootstrap.go:105-109,
\* scwbootstrap.go:114-118) in every behavior in which no restart makes
\* DigitalOcean's ids start over.
THEOREM FreshIdsDeliver == Spec /\ []Fresh => Delivery!DeliverySpec
BY DeliveryStarts, StepDelivers, VaultAlways, PTL DEF Spec, Delivery!DeliverySpec

\* Scaleway's random ids keep that promise over any number of restarts.
THEOREM VaultDelivers == Spec /\ provider = "scaleway" => Delivery!DeliverySpec
<1>1. provider = "scaleway" /\ [Next]_vars => (provider = "scaleway")'
  BY DEF Next, vars
<1>2. provider = "scaleway" => Fresh
  BY DEF Fresh
<1> QED
  BY <1>1, <1>2, FreshIdsDeliver, PTL DEF Spec
=============================================================================
