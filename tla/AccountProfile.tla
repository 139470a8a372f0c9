--------------------------- MODULE AccountProfile ---------------------------
(***************************************************************************)
(* What the velocity and geo agents remember of one account: the sliding   *)
(* windows of recent transactions, the last location and the known devices *)
(* (Redis, every key with an expiry), and geo_events in Postgres, which    *)
(* the geo agent falls back to.  API requests and the orchestrator's loop  *)
(* evaluate transactions of the account at the same time, each velocity    *)
(* first, then geo.  One action is one Redis or Postgres round trip.       *)
(***************************************************************************)
EXTENDS Integers

CONSTANTS
    Txns, NoTxn,
    Places, Home,         \* places further apart than min_km, and where the
                          \* account's seeded history is
    Devices, NoDevice,    \* device ids, and an event without one
    OwnDevice,            \* the device of the account's history, or NoDevice
    Handlers, Consumers,  \* API requests, orchestrator processes
    Windows,              \* windows_s: the lengths of the sliding windows
    Slack,                \* key_ttl_slack_s
    LocationTtl,          \* ttl.last_location_s
    DeviceTtl,            \* ttl.known_devices_s
    TravelTime,           \* the trip between two places takes at least this long
    Skew,                 \* local time, which submit_transfer stores, minus UTC
    MaxClock, MaxEvals,   \* bounds: the last tick, evaluations over each route,
    MaxLate               \* how far back a request's timestamp lies

\* POST /velocity/evaluate and /geo/evaluate run one agent, POST /evaluate and the
\* orchestrator run both.
Routes == {"velocity", "geo", "pipeline"}

ASSUME ProfileAssumption ==
    /\ NoTxn \notin Txns /\ NoDevice \notin Devices
    /\ Home \in Places /\ OwnDevice \in Devices \cup {NoDevice}
    /\ Windows \subseteq Nat /\ Slack \in Nat
    /\ LocationTtl \in Nat /\ DeviceTtl \in Nat
    /\ TravelTime \in Nat /\ Skew \in Nat
    /\ MaxClock \in Nat /\ MaxEvals \in [Routes -> Nat] /\ MaxLate \in Nat

VARIABLES
    clock,      \* UTC
    route,      \* by which the account's transactions are evaluated
    stored,     \* POST /transfer's rows in geo_events: when each was made, or -1
    evals,      \* evaluations begun, per transaction,
    begun,      \* and in all
    ev,         \* the evaluation each process has in hand
    score,      \* the sorted sets: the timestamp a transaction was ZADDed with,
    members,    \* the members of each window's key,
    dies,       \* the time the key expires
    recorded, top, late,  \* history: transactions recorded so far, the newest
                          \* timestamp, transactions recorded behind it
    last,       \* geo:last, a HASH ...
    lastDies,   \* ... and its expiry
    known,      \* devices:known, a SET ...
    knownDies,  \* ... and its expiry
    saved,      \* history: the location saved last and when, or -1
    learned     \* history: when each device was last added, or -1

window == <<score, members, dies, recorded, top, late>>
geo    == <<last, lastDies, known, knownDies, saved, learned>>
vars   == <<clock, route, stored, evals, begun, ev, window, geo>>

Evaluators == Handlers \cup Consumers
Location(t, p, ts) == [txn |-> t, place |-> p, ts |-> ts]
Seed == Location(NoTxn, Home, -TravelTime)
Idle == [pc |-> "idle", txn |-> NoTxn, ts |-> 0, place |-> Home, device |-> NoDevice,
         prev |-> Seed, alone |-> TRUE, novelty |-> "none"]

Init ==
    /\ clock = 0 /\ route \in Routes
    /\ stored = [t \in Txns |-> -1] /\ evals = [t \in Txns |-> 0] /\ begun = 0
    /\ ev = [e \in Evaluators |-> Idle]
    /\ score = [t \in Txns |-> 0]
    /\ members = [w \in Windows |-> {}] /\ dies = [w \in Windows |-> -1]
    /\ recorded = {} /\ top = 0 /\ late = {}
    /\ last = Seed /\ lastDies = -1 /\ known = {} /\ knownDies = -1
    /\ saved = [location |-> Seed, when |-> -1] /\ learned = [d \in Devices |-> -1]

Tick ==
    /\ clock < MaxClock /\ clock' = clock + 1
    /\ UNCHANGED <<route, stored, evals, begun, ev, window, geo>>

\* POST /transfer takes place and device from the account's history.
Submit(t) ==
    /\ stored[t] = -1 /\ evals[t] = 0
    /\ stored' = [stored EXCEPT ![t] = clock]
    /\ UNCHANGED <<clock, route, evals, begun, ev, window, geo>>

\* What an event may say of place and device.
Input(t) ==
    {i \in Places \X (Devices \cup {NoDevice}) :
        /\ route = "velocity" => i = <<Home, NoDevice>>
        /\ route = "geo" => i[2] # NoDevice
        /\ route # "velocity" /\ stored[t] # -1 => i = <<Home, OwnDevice>>}

First == IF route = "geo" THEN "travel" ELSE "record"

\* The orchestrator stamps its events with the time it reads them; a request
\* may carry an earlier one.  A transaction may be evaluated again.
Start(e, t, ts, p, d) ==
    /\ ev[e].pc = "idle" /\ begun < MaxEvals[route]
    /\ e \in Consumers => ts = clock
    /\ <<p, d>> \in Input(t)
    /\ evals' = [evals EXCEPT ![t] = @ + 1] /\ begun' = begun + 1
    /\ ev' = [ev EXCEPT ![e] = [Idle EXCEPT !.pc = First, !.txn = t, !.ts = ts,
                                            !.place = p, !.device = d]]
    /\ UNCHANGED <<clock, route, stored, window, geo>>

Live(w) == clock <= dies[w]
Counted(w) == IF Live(w) THEN members[w] ELSE {}

\* Variants: the window is not trimmed; it excludes its first instant.
TrimNothing(T, ts, w) == T
TrimFirst(T, ts, w) == {x \in T : score'[x] > ts - w}
\* ZREMRANGEBYSCORE "-inf" "(ts - w": the bound is exclusive.
Trim(T, ts, w) == {x \in T : score'[x] >= ts - w}

\* record_transaction: ZADD, ZREMRANGEBYSCORE and EXPIRE of every window in one MULTI.
VelocityRecord(e) ==
    LET t == ev[e].txn
        ts == ev[e].ts
    IN
    /\ ev[e].pc = "record"
    /\ score' = [score EXCEPT ![t] = ts]
    /\ members' = [w \in Windows |-> Trim(Counted(w) \cup {t}, ts, w)]
    /\ dies' = [w \in Windows |-> clock + w + Slack]
    /\ recorded' = recorded \cup {t}
    /\ top' = IF ts > top THEN ts ELSE top
    /\ late' = IF ts < top THEN late \cup {t} ELSE late \ {t}
    /\ ev' = [ev EXCEPT ![e].pc = "count"]
    /\ UNCHANGED <<clock, route, stored, evals, begun, geo>>

\* Velocity is done: run_geo skips an event without a device, and the
\* orchestrator asks for the time once more.
ToGeo(e) ==
    LET now == IF e \in Consumers THEN clock ELSE ev[e].ts IN
    ev' = [ev EXCEPT ![e] = IF ev[e].device = NoDevice THEN Idle
                            ELSE [ev[e] EXCEPT !.pc = "travel", !.ts = now]]

\* txn_count_signal's ZCARD returns |Counted(w)| for every window; RedisUnavailableError
\* makes the agent abstain, and what it wrote stays.
VelocityCount(e) ==
    /\ ev[e].pc = "count" /\ ToGeo(e)
    /\ UNCHANGED <<clock, route, stored, evals, begun, window, geo>>

VelocityAbstains(e) ==
    /\ ev[e].pc \in {"record", "count"} /\ ToGeo(e)
    /\ UNCHANGED <<clock, route, stored, evals, begun, window, geo>>

\* Variant: Postgres is always asked.
TravelByRow(e) ==
    /\ ev[e].pc = "travel" /\ ev' = [ev EXCEPT ![e].pc = "fallback"]
    /\ UNCHANGED <<clock, route, stored, evals, begun, window, geo>>

\* get_last_location: the HASH, and on a miss the latest earlier row, whose
\* local time is read as UTC.
GeoTravel(e) ==
    /\ ev[e].pc = "travel"
    /\ IF clock <= lastDies
       THEN ev' = [ev EXCEPT ![e].pc = "devices", ![e].prev = last]
       ELSE ev' = [ev EXCEPT ![e].pc = "fallback"]
    /\ UNCHANGED <<clock, route, stored, evals, begun, window, geo>>

\* Variant: the rows' time is read as the local time it is.
OnFileLocal(ts) == {t \in Txns : stored[t] # -1 /\ stored[t] < ts}
OnFile(ts) == {t \in Txns : stored[t] # -1 /\ stored[t] + Skew < ts}

Latest(T) == {t \in T : \A u \in T : stored[u] <= stored[t]}

GeoFallback(e) ==
    /\ ev[e].pc = "fallback"
    /\ \E p \in {Location(t, Home, stored[t] + Skew) : t \in Latest(OnFile(ev[e].ts))}
                 \cup (IF OnFile(ev[e].ts) = {} THEN {Seed} ELSE {}) :
          ev' = [ev EXCEPT ![e].pc = "devices", ![e].prev = p]
    /\ UNCHANGED <<clock, route, stored, evals, begun, window, geo>>

\* device_novelty_signal: SISMEMBER and SCARD, then SADD and EXPIRE.
KnownDevices == IF clock <= knownDies THEN known ELSE {}

GeoDevices(e) ==
    /\ ev[e].pc = "devices"
    /\ ev' = [ev EXCEPT ![e].pc = "learn", ![e].novelty =
           IF ev[e].device \in KnownDevices THEN "known"
           ELSE IF KnownDevices = {} THEN "first" ELSE "unknown"]
    /\ UNCHANGED <<clock, route, stored, evals, begun, window, geo>>

\* Variant: the devices expire with the location.
LearnBriefly(e) ==
    /\ ev[e].pc = "learn"
    /\ known' = KnownDevices \cup {ev[e].device} /\ knownDies' = clock + LocationTtl
    /\ learned' = [learned EXCEPT ![ev[e].device] = clock]
    /\ ev' = [ev EXCEPT ![e].pc = "save"]
    /\ UNCHANGED <<clock, route, stored, evals, begun, window, last, lastDies, saved>>

GeoLearn(e) ==
    /\ ev[e].pc = "learn"
    /\ known' = KnownDevices \cup {ev[e].device} /\ knownDies' = clock + DeviceTtl
    /\ learned' = [learned EXCEPT ![ev[e].device] = clock]
    /\ ev' = [ev EXCEPT ![e].pc = "save"]
    /\ UNCHANGED <<clock, route, stored, evals, begun, window, last, lastDies, saved>>

\* history: evaluations that have read the last location, which is replaced now.
Compared == {"fallback", "devices", "learn", "save"}

\* evaluate: HSET and EXPIRE of the last location.
GeoSave(e) ==
    LET here == Location(ev[e].txn, ev[e].place, ev[e].ts) IN
    /\ ev[e].pc = "save"
    /\ last' = here /\ lastDies' = clock + LocationTtl
    /\ saved' = [location |-> here, when |-> clock]
    /\ ev' = [f \in Evaluators |-> IF f = e THEN Idle
                                  ELSE IF ev[f].pc \in Compared THEN [ev[f] EXCEPT !.alone = FALSE]
                                  ELSE ev[f]]
    /\ UNCHANGED <<clock, route, stored, evals, begun, window, known, knownDies, learned>>

\* Redis or Postgres fails, or the process dies: what was written stays.
GeoAbstains(e) ==
    /\ ev[e].pc \in {"travel", "fallback", "devices", "learn", "save"}
    /\ ev' = [ev EXCEPT ![e] = Idle]
    /\ UNCHANGED <<clock, route, stored, evals, begun, window, geo>>

Next ==
    \/ Tick
    \/ \E t \in Txns : Submit(t)
    \/ \E e \in Evaluators :
        \/ \E t \in Txns, ts \in {x \in 0..clock : clock - x <= MaxLate}, p \in Places, d \in Devices \cup {NoDevice} :
               Start(e, t, ts, p, d)
        \/ VelocityRecord(e) \/ VelocityCount(e) \/ VelocityAbstains(e)
        \/ GeoTravel(e) \/ GeoFallback(e) \/ GeoDevices(e) \/ GeoLearn(e) \/ GeoSave(e)
        \/ GeoAbstains(e)

Spec == Init /\ [][Next]_vars

-----------------------------------------------------------------------------
Evaluation ==
    [pc : {"idle", "record", "count", "travel", "fallback", "devices", "learn", "save"},
     txn : Txns \cup {NoTxn}, ts : Nat, place : Places, device : Devices \cup {NoDevice},
     prev : [txn : Txns \cup {NoTxn}, place : Places, ts : Int], alone : BOOLEAN,
     novelty : {"none", "known", "first", "unknown"}]

\* Every variable has its type; no timestamp is ahead of the clock; geo runs with
\* a device only.
TypeOK ==
    /\ clock \in Nat /\ route \in Routes /\ stored \in [Txns -> Int]
    /\ evals \in [Txns -> Nat] /\ begun \in Nat
    /\ ev \in [Evaluators -> Evaluation]
    /\ \A e \in Evaluators :
        /\ ev[e].ts <= clock
        /\ ev[e].pc # "idle" => ev[e].txn \in Txns
        /\ ev[e].pc \notin {"idle", "record", "count"} => ev[e].device \in Devices
    /\ score \in [Txns -> Nat] /\ \A t \in Txns : score[t] <= clock
    /\ members \in [Windows -> SUBSET Txns] /\ dies \in [Windows -> Int]
    /\ recorded \subseteq Txns /\ top \in Nat /\ late \subseteq Txns
    /\ last \in [txn : Txns \cup {NoTxn}, place : Places, ts : Int] /\ lastDies \in Int
    /\ known \subseteq Devices /\ knownDies \in Int
    /\ learned \in [Devices -> Int]

\* txn_count_signal "assumes record_transaction already trimmed the windows, which is
\* always true on the hot path": a transaction that is the newest so far, counted
\* within the slack, counts itself and every transaction recorded in its windows,
\* whoever else records, repeats or fails meanwhile and whichever keys expired.
BurstSeen ==
    \A e \in Evaluators :
        ev[e].pc = "count" /\ ev[e].ts >= top /\ clock <= ev[e].ts + Slack =>
            \A w \in Windows : {t \in recorded : score[t] >= ev[e].ts - w} \subseteq Counted(w)

\* What lies before the window is counted only if it was recorded after something
\* newer: an idle account starts from nothing.
NoGhosts ==
    \A e \in Evaluators : ev[e].pc = "count" =>
        \A w \in Windows : \A t \in Counted(w) : score[t] < ev[e].ts - w => t \in late

Jump(p, e) == p.place # ev[e].place /\ ev[e].ts - p.ts < TravelTime

\* Of two evaluations one after the other that place the account where it cannot have
\* travelled, the second sees it, for LocationTtl after the first was saved.
JumpSeen ==
    \A e \in Evaluators :
        ev[e].pc = "save" /\ ev[e].alone /\ saved.when # -1
            /\ clock <= saved.when + LocationTtl /\ Jump(saved.location, e)
        => Jump(ev[e].prev, e)

\* "Read BEFORE being overwritten with the incoming transaction": the first evaluation
\* of a transaction is not compared with its own location, unless it is so late that
\* its row's local time has passed in UTC.
NotOwnTrack ==
    \A e \in Evaluators :
        ev[e].pc \in {"devices", "learn", "save"} /\ ev[e].prev.txn = ev[e].txn =>
            \/ evals[ev[e].txn] > 1
            \/ stored[ev[e].txn] # -1 /\ stored[ev[e].txn] + Skew < ev[e].ts

Remembered(d) == learned[d] # -1 /\ clock <= learned[d] + DeviceTtl

\* A device is known for DeviceTtl after its last use, and no device is the account's
\* first while another one is remembered.
DeviceRemembered ==
    [][\A e \in Evaluators : ev[e].pc = "devices" /\ ev'[e].pc = "learn" =>
          /\ Remembered(ev[e].device) => ev'[e].novelty = "known"
          /\ ev'[e].novelty = "first" => \A d \in Devices : ~Remembered(d)]_vars

\* get_last_location: "on cache miss, the most recent prior geo_event from Postgres".
FallbackLatest ==
    [][\A e \in Evaluators : ev[e].pc = "fallback" /\ ev'[e].pc = "devices" =>
          \A t \in Txns \ {ev[e].txn} : stored[t] # -1 /\ stored[t] < ev[e].ts =>
              ev'[e].prev.txn \in Txns /\ stored[ev'[e].prev.txn] >= stored[t]]_vars
=============================================================================
