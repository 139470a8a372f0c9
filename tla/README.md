# A verification model of the fraud-detection backend

TLA+ models of the Python backend in `src/backend`: how a mobile-banking transfer
is submitted, scored by the agents, decided, and settled, and what remains true of
money, decisions and one-time codes while processes interleave, fail and restart.

## 1. The system

| Part | Keeps | Operations | Talks to |
|---|---|---|---|
| Transfer API (`app/routers/transfers.py`) | nothing of its own; writes `app_transactions`, `txn:state` | `POST /transfer`, `GET /transfers/{id}/status` | Postgres, Redis, publishes `transaction_received` |
| OTP service (`app/services/otp_service.py`, `routers/otp.py`) | `otp:{id}`, `otp:resends:{id}` in Redis, `app_otp_events` | initiate, verify, resend, complete/fail transaction | called by the projector and by HTTP |
| State projector (`app/state_projector.py`) | its consumer-group offset | one handler per event, a reconnect loop | consumes `fraud-events`; writes the row, the OTP challenge and `txn:state` |
| Orchestrator (`kafka_bus/orchestrator.py`) | its consumer-group offset | fan out, fuse, publish, audit | consumes and publishes `fraud-events`; calls the agents; writes `synthesis_audit` |
| Synthesis (`agents/synthesis_agent.py`, `pipeline/agent_runner.py`) | nothing (pure) | pattern, weights, fused score, disagreement, decision | reads the thresholds in force |
| Velocity and geo agents (`agents/velocity_agent.py`, `agents/geo_agent.py`) | per account: sliding windows, last location, known devices, all expiring | evaluate, alone (`/velocity/evaluate`, `/geo/evaluate`) or in the pipeline | Redis; geo falls back to Postgres |
| Graph and behavior agents (`agents/graph_agent.py`, `agents/behavior_agent.py`, `behavior_agent/`) | nothing; exported models | evaluate | Neo4j; Postgres (`transactions_raw` and the tables joined to it) |
| The processes that host them (`app/main.py`, `kafka_bus/orchestrator.py`, `behavior_agent/api.py`) | the pools and drivers startup opened | startup, shutdown, one endpoint per agent, `/pipeline/evaluate`, health | all stores |
| Decision settings (`routers/admin.py`, `pipeline/decision_settings.py`) | `app_settings` row, `config:thresholds`, a 5 s cache per process | GET/PUT settings, `current_config` | Postgres, Redis |
| Sessions and the customer read (`app/deps.py`, `routers/auth.py`, `routers/banking.py`) | `session:{token}`, `cache:customer:{id}` | login, the Bearer dependency, logout, `GET /customers/{id}` | Redis, Postgres |
| Transaction log (`app/services/txn_logger.py`) | a JSON file | append | disk |
| Consoles (`app/services/mappers.py`, `routers/verdicts.py`) | nothing | the analysis of a row, the log entry, the model verdict | what projector and orchestrator left behind |
| Seed scripts (`scripts/`) | the `app_*` tables | seed, backfill, demo profiles | Postgres, the agents |
| Frontend | local transaction list | submit, poll every second, enter the code | the API |

What is hard here: three asyncio handlers (projector, verify, resend) and the submit
handler share one row, one cached state and one code without a lock, and each reads,
awaits and writes back; the two consumers auto-commit positions that run ahead of
the work; a publish or a store call may fail after it took effect; codes expire;
decisions are published once more after a restart. The list of hazards, each with
its line and the properties that speak of it, is in `PROJECT.json`.

What makes each part correct:

* settlement: a transfer is paid at most once, only for a PASS or an accepted code,
  balance and row move together, the customer is told what happened, codes follow
  decisions, audit rows follow debits;
* orchestrator: each decision closes a complete run, a failure costs or repeats at
  most one transaction, everything received is decided;
* agents: a count includes the whole burst and nothing older, a location is compared with
  the latest one before it, a device stays known;
* synthesis: a decision is backed by an agent that has some confidence, thresholds
  mean what they say, more confidence in an alarm never relaxes the decision; hard
  evidence found by one agent survives three layers of weights;
* around the pipeline: a change of settings is in force everywhere within the cache's
  lifetime and the console shows it; a logout is final; a store that is down costs its
  agents and no more, and health says so; the log keeps its entries; seeding again
  leaves accounts with their owners and analyses alone; a model is not silenced by a
  neighbour's half-written rows; all consoles tell the same story of a decision.

## 2. Modules

| Module | Models |
|---|---|
| `TransferSettlement` | the life of a transfer in the API process: submit, projector, verify, resend |
| `PaymentLedger` | what the bank promises about money (abstract specification) |
| `TransferSettlementProofs`, `SettlementSafetyProofs` | theorems about the settlement |
| `OrderlySettlementProofs` | theorems about the settlement when nothing fails, with the refinement of `PaymentLedger` |
| `Orchestrator`, `OrchestratorProofs` | the orchestrator process, its topic and offsets |
| `Synthesis` | the synthesis agent as operators on a set of verdicts |
| `Fusion`, `FusionProofs` | the verdicts `fuse()` may find, and what its decisions are worth; the theorems take in `Scoring` |
| `AccountProfile`, `AccountProfileProofs` | what the velocity and geo agents keep of one account |
| `DecisionSettings` | the thresholds: settings row, Redis key, a cache per deciding process |
| `Access` | sessions, logout and the cached customer read |
| `Serving` | a process that hosts agents: startup, its endpoints, the fan-out, health |
| `AgentScores` | how each agent turns what it read into a risk and a confidence (operators) |
| `Scoring` | one transaction from the agents' facts through `AgentScores` and `Synthesis` to the decision |
| `BehaviorInputs` | the rows of interleaved transfers and what the behavior agent's models see of them |
| `Console` | orchestrator, projector and the four places a decision is told; extends `Synthesis` |
| `TransactionLog` | `transactions_logs.json` |
| `Seeding` | the seed scripts, run again over a live system |
| `StoreProofs` | theorems about `Access`, `DecisionSettings`, `TransactionLog` and `Console` |
| `ComponentProofs` | theorems about `Serving`, `Seeding` and `BehaviorInputs` |
| `MCTransferSettlement`, `MCFusion`, `MCOrchestrator`, `MCAccountProfile` | small instances for TLC |
| `MCComponents` | one instance of the eight components from `DecisionSettings` on; they share no variable, `component` says which one moves |

Names with a "Variant" comment (`CompleteTwice`, `ReadRowAnyStatus`, ...) are not part
of a specification: each is a plausible slip in one definition, used to confirm that
the property it belongs to would notice.

### TransferSettlement

State by store: `row`, `decision`, `balance`, `otpEvents` (Postgres), `state`,
`challenge`, `resends` (Redis), `topic`, `pos`, `committed` (Kafka), then one program
counter per process: `sub[t]` for `POST /transfer`, `proj` for the projector's handler,
`req[c]` for each in-flight `/otp/*` request. `debits`, `reverted`, `verified`, `sent`
and `codes` are history.

One action is the code between two awaits, so every interleaving at an await is
explored. `complete_transaction` is one action because it is one database transaction
under `SELECT ... FOR UPDATE`; a `SELECT` followed by the UPDATE of analysis columns is
one action because only the projector touches those columns. Consequences kept from
the code: `HINCRBY` creates a key that has gone (live, without hash or TTL), `HSET`
keeps a TTL and `EXPIRE` needs a live key, the resend counter gets its TTL on the
first increment only, every `UPDATE ... SET status` except the one in
`complete_transaction` is unconditional, and the ERROR branch saves the state before it
fails the row while the others save it last.

The environment: the orchestrator is reduced to one progress event and one decision
per evaluation (`OrchStart`, `OrchDecide`), which may be repeated (`OrchRedeliver`) or
lost (`OrchLose`); up to five progress events of the code have the same effect on the
projected status as one. Transfers are evaluated concurrently here although the
orchestrator is serial: an over-approximation. Keys expire, the API process crashes,
the consumer reconnects, and any store call may raise (`*Error`), all drawn from
`MaxFaults`.

Abstracted: ownership and account-status checks (they refuse before anything is
written), the transaction log (best-effort, never read back), agent payloads, the
contents of the OTP block, the SMS, attempt counts in the audit row. A submitted
code is right when it is one that reached the customer, for the hash loaded earlier.

### Orchestrator

`log` is the topic as the orchestrator sees it, `pos` and `committed` the consumer's
offsets, `pc` its loop. `AgentReturns`, `AgentAnnounces` interleave per agent
(`asyncio.gather`); the rest is sequential because `run()` awaits `handle_transaction`.
An exception (`AgentRaises`, `PublishRaises`, the record published or not) leaves
`run()`; `consumer.stop()` may commit the position (`Stop`), agents still running go
on announcing until the process exits, and the container is started again
(`docker-compose.yml`: `restart: unless-stopped`). One log stands for the partitions:
events of one transaction share a partition, and ordering between transactions is not
used by any property. Malformed messages are skipped by the code and not modelled.

### Synthesis and Fusion

Exact arithmetic in percent: weights are the sum of the two table rows (twice their
mean, the factor cancels), the fused score stays a fraction, a variance is in 10^-4.
Rounding of floats is not modelled, so a score within rounding of a threshold may
differ. `Fusion` lets any set of agents report in any order any score of a grid, and
asks about `Fuse` at each point. `/agents/synthesis/evaluate` uses the default
configuration: it is the case `cfg = DefaultConfig`.

### AccountProfile

One account. `score`, `members`, `dies` are the sorted sets of the windows
(`user:{account}:{window}`), `last` and `known` the location and device keys, `stored`
the rows `POST /transfer` inserts into `geo_events`. Time is `clock` in ticks; a key with
an expiry is live while `clock <= dies` and its old content is ignored afterwards, so an
expiry needs no step of its own. `ev[e]` is the evaluation a process has in hand: `e` is
an API request, which may carry an earlier timestamp, or the orchestrator, which stamps
its own. One action is one Redis or Postgres round trip: `VelocityRecord` is the MULTI of
`record_transaction`, `VelocityCount` the later ZCARDs; the geo agent reads the location
(`GeoTravel`, `GeoFallback`), reads the devices, adds the device, saves the location.
Velocity's calls block the event loop, so two requests in one API process cannot
interleave inside them; the model lets them, as with several API processes. Either agent may
fail at any call, a process may die between two, and what was written stays. `route` says over
which endpoint the account is evaluated: one agent's, or both (with one agent's endpoint the
orchestrator's evaluation is the one in which the other agent abstained).

Places are further apart than `min_km`, and a journey scores when it took less than
`TravelTime`; that is the gradient reduced to whether it is above zero. Timestamps are not
in the future. `submit_transfer` copies place and device from the account's history, which
is seeded (`Seed`), so a transfer of the app is at `Home`; other places come by `/evaluate` and
`/pipeline/submit`. Nightly baselines, the memo of the observation count and the
fingerprint bonus do not touch these keys and are left out; Redis loses keys by expiry only.

### DecisionSettings

`PUT /admin/settings` writes the row, then the key; `put[r]` stands between the two.
`cached[p]` is `_cached` with its age in ticks of `_CACHE_TTL_S / CacheSeconds`. A read that
fails keeps the defaults for just as long as a value (`ReadFails`). `GET` reads the row only,
`current_config` the key only, and nothing brings the two together again after a failure.

### Access

One customer. A request is `login` (`LoginReads`, `CreateSession`) or anything behind
`get_current_user` (`GetSession`, then `RefreshSession`), after which it may be the logout,
the customer read, or another handler. Keys carry their remaining ticks. Only the seed scripts
change a customer (`CustomerChanges`); a reader that had the old row in hand then is
"crossed", and may cache it for a full lifetime.

### Serving

`host` is the API, the orchestrator or the behavior service. `StartupOrder` and `Opens` say what
each step of startup opens and needs; a part that fails stays closed until the process restarts
(`pg_pool`, `app_db.pool` and the Kafka producer are never opened again), except that the
orchestrator ends without its producer. `*Answers` is what an endpoint may answer with the stores
as they are; `AgentRuns` is the same inside `/pipeline/evaluate`, where an error is an abstention.
Facts a reader of the code may miss: `/health` calls geo "ok" on Redis alone although every
evaluation answers 503 without its pool; the orchestrator's audit store without a pool loses
every audit row until a restart (`orchestrator.py:104`); "Synthesis Agent" in
`/admin/system-health` probes the pool of the app; without that pool the app's endpoints raise
(500) where the comment at `main.py:188` says 503; the Kafka flag is set once and not probed.

### AgentScores and Scoring

Whole percents, every quotient rounded down; the numbers are those of `feature_config.yaml` and
`behavior_agent/config.yaml`. `Scoring` lets any agents score any facts of a sample in any order and
asks for the decision at each point. A larger amount or a longer trip may relax a decision (the
pattern and with it the weights change); no property says otherwise.

### BehaviorInputs

`submit_transfer` stamps its time, reads, and inserts four rows in one database transaction;
`evaluate` counts the history and runs three models on three connections, each statement seeing
what is committed then. Two consequences of the code stay in the model: the Isolation Forest's
aggregates take in rows later than the transaction, and one row with an untrained category
silences the LSTM for every transaction whose window it is in (`odd`). A database failure of one
model loses the scores of the others (`BlendScores`).

### Console

`ran[n]` is the n-th evaluation of the transaction (agent -> risk), `stream` what it published,
`held` whose payload `txn:state` keeps of each agent and of the synthesis. `BuildFraudAnalysis`,
`BuildTxnLogEntry` and `ModelVerdict` are the three mappers, `TriggerReasons` the reason of the
challenge. A handler is one step: its awaits are `TransferSettlement`'s. The projector may go back to
its committed offset, the orchestrator may repeat an evaluation; both together mix evaluations in
`held` and are kept apart by a guard (`RunBegins`, `Rewinds`). Known differences between the places,
outside the property: the rule engine's hour is local in the analysis and the log and UTC in
`/verdicts`, so the baseline decisions may differ (`LocalHour`, `RowHour`); the audit row of a newer
evaluation replaces the one that decided; a row still pending is shown with decision "PASS"
(`mappers.py:290`); the reasons of the behavior agent look for keys the ensemble does not write.

### TransactionLog and Seeding

The log is read, truncated and written out under one lock; a failure between the last two
loses every entry, which `LogKeepsEntries` allows (`wiped`) and nothing more. Seeding runs both
scripts one statement at a time, to the end or aborted, while transfers are submitted and
settled. `AccountsKeepOwner`, the "Idempotent - safe to re-run" of `seed_app_data.py:5`, holds while
every run chooses the same accounts (`SameChoiceKeepsOwner`); another `--customers` numbers the
customers anew and gives an account to somebody else's. Outside the model: `seed_demo_profiles` resets
balances (line 78) and derives account numbers from a hash that differs per process (line 51).

## 3. What the runs check

| Run | Bounds | Shows |
|---|---|---|
| SettlementOneClient | 1 transfer, 1 request, 2 evaluations, 3 attempts, 2 resends (the code's limits), no failure, fair | with one request at a time the settlement implements `PaymentLedger` (charged once, authorised first); what was cancelled or failed stays unpaid; a verdict is shown in the end, an accepted code pays: `ImplementsLedger`, `FailedStaysUnpaid`, `VerdictShown`, `AcceptedCodePays` |
| SettlementOverlap | 2 overlapping requests, 1 resend | debits accounted for; "completed" means paid; row and decision agree; an exhausted code is being deleted: `TypeOK`, `DebitAccounting`, `CompletedMeansPaid`, `RowMatchesDecision`, `LockerPending` |
| SettlementFaults | 1 request, 2 evaluations, 2 codes, 1 failure anywhere | every debit, code, audit row and reported status has a cause; debit and status are atomic; a verdict shown for a transfer without a code stays: `DebitJustified`, `CodesFollowDecision`, `AuditFollowsDebit`, `StateJustified`, `DebitIsAtomic`, `ForwardOnly` |
| AccountProfile | 2 transactions, 2 processes, 2 windows, 4 instants; 4 velocity, 2 geo or 1 full evaluation | bursts counted whole, nothing older counted, impossible journeys and known devices recognised, no comparison with oneself: `BurstSeen`, `NoGhosts`, `JumpSeen`, `NotOwnTrack`, `DeviceRemembered` |
| FusionGrid | 5 risks, 3 confidences, 4 agents, 4 categories, 3 settings | decisions backed, alarms heard, quiet passes, surer alarms never relax: `DecisionBacked`, `AlarmHeard`, `QuietPasses`, `SurerAlarm` |
| OrchestratorFaults | 2 transactions, 1 agent, 1 failure, fair | a failure loses at most the transaction in hand; every other one is decided, whatever agents abstain from: `OneLossPerFailure`, `DecidedOrLost` |
| OrchestratorRestarts | 1 transaction, 2 agents, 2 failures | each decision closes a whole run; at most one extra decision per failure: `DecisionClosesRun`, `FewDecisions` |
| Components, of which: | | |
| settings | 2 processes, 2 PUTs of 3 bodies, 2 failures | a change is in force after the cache's lifetime; the console shows what decides after a PUT that ran alone: `ChangeTakesEffect`, `ConsoleAgrees` |
| access | 3 requests, 2 tokens, lifetimes of 2, 1 change, 1 failure | a logout is final; an old customer row is shown for the cache's lifetime at most: `LogoutIsFinal`, `ViewExpires` |
| serving | 3 hosts, 4 stores up or down at first, 2 flips or restarts, one missing export | velocity's score is there while Redis is; a health report agrees with what endpoints answer: `OneStoreDecides`, `HealthTellsTruth` |
| log | 3 entries, 2 failures | between appends the file holds what was written, in order: `LogKeepsEntries` |
| seeding | 5 accounts, 2 with history, 1 profile, 1 live transfer, 2 script runs | owners stay, seeded rows are analysed once: `SameChoiceKeepsOwner`, `AnalysedOnce` |
| scoring | 24 velocity, 16 geo, 3 graph and 8 behavior facts, 4 types, any subset of agents | hard evidence is never outvoted into PASS: `HardEvidenceHeard` |
| behavior | 2 live and 2 past transactions, LSTM from history 4, window 3, 1 failure | every model speaks exactly when its inputs exist: `LiveIsFullyScored` |
| console | 2 agents, 3 risks, 2 evaluations or 1 rewind | analysis, log entry, audit row and challenge agree: `OneStory` |

The bounds are chosen from what an error needs: two requests make every pair of OTP
handlers overlap; two evaluations make a decision arrive for a row that has moved on;
two codes make an old and a new one coexist; two attempts reach the limit and one past
it; an opening balance of fifteen is enough for one transfer of ten and not for two; a
fault of each kind at every point needs one, a fault during recovery two. In `Components` three
requests put a login, a logout and a late reader side by side, two PUTs cross, a lifetime of two ticks has an
inside and an end, live ids lie on both sides of the past ones so that equal timestamps order
either way, and a history of 4 is reached only with a neighbour's row. Time reaches the
instant after every expiry: windows of 1 and 2 ticks with 1 of slack, a location of 1, a
device of 2, four instants. The two agents share no key, so the run spends its evaluations on one
agent at a time and lets a single evaluation run both. Scores on the
grid lie below, at and above both default thresholds. Requests (and transactions,
agents) are interchangeable where symmetry is used, and no run with symmetry checks
liveness. Deadlock is not checked where a run legitimately ends: transfers are
finite, and a system with nothing left to do stops.

### Where the code and its documentation differ

Each of these runs finds the shortest behaviour that breaks one documented statement;
`PROJECT.json` quotes it.

| Run | What happens |
|---|---|
| FindingOverdraft | two transfers of 10 pass the unlocked check of a balance of 15, both debit: `NoOverdraft` |
| FindingDoubleDebit | verify pays, the projector's late `otp_required` overwrites the row, a second verify pays again: `AtMostOneDebit` |
| FindingFallback | a transfer is stored at local time, 5 h 45 min ahead; on a Redis miss the geo agent does not find it among the earlier rows: `FallbackLatest` |
| FindingUndecided | the offset of the transaction in hand is committed on the way out of a failure, nobody decides it: `EveryTransactionDecided` |

Some properties of the passing runs hold because of a bound of their run, and relaxing
that bound shows what they depend on:

* `ForwardOnly` (SettlementFaults) speaks of transfers without a code: with one, the
  projector saves "otp_pending" over a "completed" it never saw.
* `VerdictShown` (SettlementOneClient) excepts a transfer that was sent a second code: the
  resend may write back the "processing" it read before the projector's save.
* `FailedStaysUnpaid` (SettlementOneClient) fails with two requests: a verify counted
  before the lock pays the cancelled transfer.
* `CompletedMeansPaid` (SettlementOverlap) fails with one failure: a decision for a failed
  or blocked row is reported "completed".
* `BurstSeen` (AccountProfile) speaks of the newest transaction counted within the slack: a
  late one may be trimmed by a newer one before it is counted, so that "counts include it"
  (`velocity_agent.py:205`) fails for it, and a window's key may have expired.
* `NotOwnTrack` (AccountProfile) speaks of first evaluations: one that is repeated is compared
  with its own location and finds its own device known, so its geo risk drops. Reading the
  rows' time as local would break the property too (the variant `OnFileLocal`), because the query
  does not exclude the transaction's own row.
* `OneLossPerFailure` (OrchestratorFaults) speaks of a group that has an offset: before its first
  start (`KnownGroup = FALSE`) `auto_offset_reset="latest"` skips whatever was published.
* `OneStory` (Console) needs the guard that keeps a repeated evaluation and a rewound projector apart.
* `LiveIsFullyScored` (BehaviorInputs) excepts an account with an untrained category in it and
  evaluations in which a statement failed.

Three more statements of the documentation are not stated as properties, because the code
says plainly otherwise: an expired code resolves nothing (`PROJECT_OVERVIEW.md:301`,
"auto-block"), disagreement escalates a PASS only (`synthesis_agent.py:70-72` against
`decide`), and the orchestrator writes the audit row after the decision is out
(`README.md:261`).

### Fairness

Settlement: weak fairness of each started handler, of the projector's loop, and of the
orchestrator's queue; asyncio schedules every ready task and the broker delivers what
it acknowledged. The customer and every failure owe nothing. Orchestrator: weak fairness of its loop including
`Start` (the container restart policy) and of each agent's task. Nothing is assumed
about commits, failures or submissions.

## 4. What is proved

By TLAPS, for every value of the constants under the modules' named assumptions (bounds and
amounts are naturals, names of different kinds disjoint, the sets of live transfers and of past rows
finite, an agent's facts of the types its stores hold, reference grids not empty): every invariant
and every safety action property a passing run checks. The runs show them on a small instance, and
showed each inductive invariant below before it was proved.

**Settlement, whatever fails** (`TransferSettlementProofs`, `SettlementSafetyProofs`)

* `TypeCorrect`, part by part (`Frame`), one lemma per group of actions.
* `DebitsAccounted`: inductive with the type invariant; `LedgerSteps` reduces every action to one of
  three writes of the ledger, and `DebitAtomic` follows from the same lemma.
* `DebitsJustified`, `CodesAfterDecision`, `AuditAfterDebit`, `StatusJustified`: none is inductive
  alone. `CauseInv` adds what the processes carry between awaits: the kind of event the projector
  branched on, the status it is about to save, and what backs each request (the decision behind the
  code it loaded, the debit behind the audit row it is about to close).
* `StatusForwardOnly`: `ForwardInv` says who may still write a status: a submission that has not
  published has no state, code or event, and while the projector is in the middle of a transfer
  without a code, that transfer's status is not terminal.

**Settlement when nothing fails** (`OrderlySettlementProofs`). The hypotheses are those of the runs,
because section 3 shows that the properties fail without them:

| Theorem | Hypothesis |
|---|---|
| `RowFollowsDecision`, `CompletedIsPaid` | `MaxFaults = 0`, `MaxRuns <= 1` |
| `LockersPending` | `MaxFaults = 0`, finitely many requests |
| `OneDebitAlone`, `FailedNotPaid`, `SettlementImplementsLedger` | `MaxFaults = 0`, one request at a time |

`CalmInv` ties a verdict on the topic to the evaluation that published it, `OnceInv` ties the row to
the one verdict the projector has handled, and `AloneInv` follows the code: once it has paid or
was locked its key is never live again, so that a request about to settle finds the transfer unpaid.
From the last one each step of the settlement is a step of the ledger or leaves its three variables
alone. The opening balances, the accounts and the amounts are arbitrary.

**Orchestrator** (`OrchestratorProofs`), for any transactions, agents and failures

* `DecisionsPerFailure`: the published decisions of a transaction, plus one if it can still be
  decided without a new failure, are at most `1 + faults`.
* `LossesPerFailure`: `LossInv` counts those `Missed`, which are lost or would be if the process
  stopped now, and no step adds more than one to them for a failure.
* `DecisionsCloseRuns`: `HandRun` follows the run in hand from the position of its first event, and
  an event appended to the topic leaves every earlier stretch of it as it was (`StretchGrows`).

**Synthesis and scores** (`FusionProofs`)

* `DecisionsBacked` (a weighted mean lies between the extremes of the risks with weight) and
  `SurerAlarms` (adding weight to a maximal risk moves the mean up, while pattern and disagreement
  ignore confidence), for all scores and thresholds.
* `AlarmsHeard` and `QuietAgentsPass`, for the default thresholds and the concrete tables. Without
  the disagreement override the variance of the risks is below 400; each way the agents may be
  absent turns that into a bound on how far the others can lie below 30 in total (`UnderAny`, from
  identities that write the variance as sums of squares), and the tables give every agent at least 30
  of the doubled weight, and nobody below 30 more than 65 (`BlendBounds`).
* `HardEvidenceStays`: each agent's evidence makes its verdict `Alarming`: sure of 70, or half
  sure of 90, which whoever is below 30 would contradict by more than the override tolerates. For the
  ensemble this needs the integer root (`RootOf`) and that scores of 90 and more have a deviation of
  at most 5 (`TwoModels`, `ThreeModels`). The sums over signals and models are folds of the community
  modules; they have at most four terms, so they are unfolded name by name (`Unfolded`, `Sum`).

**Account profile** (`AccountProfileProofs`), for any windows, expiries, places, devices and processes

* `BurstsSeen`: what a window dropped is older than the window of the newest (`Kept`), a key outlives
  its members (`Outlived`) and was renewed for whoever is about to count (`Renewed`).
* `GhostsAreLate`: an evaluation about to count is not ahead of the newest one recorded (`Behind`).
* `NoSelfComparison`: a location with the name of a transaction was saved by an evaluation of it, and
  evaluations are counted. `JumpsSeen`: a lone evaluation after another finds what the first saved.
  `DevicesRemembered`: a device in use is in the set and the key outlives it.

**Stores and caches** (`StoreProofs`), for any requests, processes, bodies, lifetimes and failures

* `LogoutFinal`: no step brings a deleted session back, because the refresh of a reader in between
  acts on a live key only. `ViewsExpire`: a row read before a change is marked in the reader's hand.
* `SettingsTypeCorrect` also says that row, key and each cache hold one configuration.
  `ChangesTakeEffect`: a cached configuration other than the key's is at least as old as the
  key's last change (`CopiesAge`).
  `ConsoleShowsKey`: of an acknowledged PUT that ran alone, row and key hold the same body (`Serial`).
* `LogInOrder`: what an append is about to write is the list logged so far and its entry, or what
  the cut left of it (`InHand`).
* `StoryIsOne`: the topic holds, for each evaluation, its agents' risks in order (`StreamRight`),
  what is held of it is what was read so far (`HeldRight`), and so each place that has told
  something told it of that evaluation (`ToldRight`).

**Around the pipeline** (`ComponentProofs`)

* `OneStoreIsEnough`, `HealthIsTruth`: what a part opened at startup stays open until the restart, so
  a report without a flip describes the stores that the endpoints meet.
* `BackfilledOnce`, `OwnersKept`: while the seeds agree, the account an aborted or running script has
  in hand belongs to the customer of that number, who was created with it (`Numbered`, `InStep`).
* `FullyScored`: a transfer's four rows are all there or none (`WholeTransfers`), and what each model
  has seen is a set of rows between those counted before it and those present now.

Only model-checked: liveness (`VerdictShown`, `AcceptedCodePays`, `DecidedOrLost`), which the prover
does not reach under fairness, and the runs that end in a violation. `AtMostOneDebit` is both: a theorem
for serialised requests, violated by two. No module declares a RECURSIVE operator, so none is kept
from the prover. Exact arithmetic stands for floats in proofs as in runs.

## 5. Not modelled

* Float rounding; inference, SHAP and one-hot encoding; formatting and wording; the SMS.
* The graph agent's `decide()` and command line; admin and banking reads that are one query and a
  change of names; the baseline comparison and the CSV report, counts over one table.
* `hydrate_redis` of the seed script: it rewrites the agents' keys from stored rows (and stamps the last
  location with the row's local time), by an operator, outside the interleavings of `AccountProfile`.
* Nightly baselines, training notebooks, offline evaluation: batch jobs, their results are facts here.
* The frontend: presentation, mock data, and a poller that only reads what `TransferSettlement` reports.
* `DecisionSettings`, `Scoring` and `TransferSettlement` are not composed: decisions in the settlement are
  a choice, which covers whatever the thresholds make of them.

Three hazards in `PROJECT.json` have no property: a transfer whose `SETEX` fails stays pending, a
challenge whose code expired stays open, and a code whose `EXPIRE` failed does not expire. The models
contain each; nothing in the code promises an end to them.

## 6. Plan

Done: every backend component that keeps state, the refinement of `PaymentLedger`, liveness of
settlement and orchestrator by TLC, and a theorem for each safety property of a passing run. Next:

1. Weaker hypotheses for the settlement: `OneDebitAlone` with failures in the submit handler and the
   projector only, `RowFollowsDecision` with repeated evaluations that agree.
2. The safety half of the orchestrator's promise, as an abstract specification that counts received,
   decided and lost transactions, implemented by `Orchestrator`.
3. `FusionProofs` for thresholds other than the defaults: which pairs keep `AlarmHeard`.
