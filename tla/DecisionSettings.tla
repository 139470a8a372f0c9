--------------------------- MODULE DecisionSettings ---------------------------
(***************************************************************************)
(* The decision thresholds: PUT /admin/settings writes the app_settings    *)
(* row (Postgres) and then the key config:thresholds (Redis), each process *)
(* that fuses reads the key through a cache of a few seconds of its own.   *)
(* One action is the code between two awaits.                              *)
(***************************************************************************)
EXTENDS Integers

CONSTANTS
    Deciders,     \* processes that call fuse(): the API and the orchestrator
    Puts,         \* PUT requests, each at most once
    Bodies,       \* thresholds a PUT may carry: records [otp, block, spread]
    Defaults,     \* the paper's thresholds
    CacheSeconds, \* _CACHE_TTL_S, in ticks
    MaxSettingsFaults \* bound: failed store calls, lost keys, restarts

ASSUME SettingsAssumption ==
    /\ Bodies \cup {Defaults} \subseteq [otp : 0..100, block : 0..100, spread : 0..100]
    /\ Defaults.otp < Defaults.block
    /\ CacheSeconds \in Nat \ {0} /\ MaxSettingsFaults \in Nat

VARIABLES
    saved,     \* the app_settings row, {} when there is none
    mirrored,  \* the key config:thresholds, {} when absent
    cached,    \* decider -> _cached as [cfg, age]; {} for None
    put,       \* PUT request -> [pc, body, alone]
    unchanged, \* ghost: ticks since the key changed or a read of it failed
    settled,   \* ghost: the last write was by a PUT that ran alone and was acknowledged
    settingsFaults

settingsVars == <<saved, mirrored, cached, put, unchanged, settled, settingsFaults>>

Idle == [pc |-> "idle", body |-> Defaults, alone |-> TRUE]

SettingsInit ==
    /\ saved = {} /\ mirrored = {}
    /\ cached = [p \in Deciders |-> {}]
    /\ put = [r \in Puts |-> Idle]
    /\ unchanged = CacheSeconds /\ settled = TRUE /\ settingsFaults = 0

SettingsFault == settingsFaults < MaxSettingsFaults /\ settingsFaults' = settingsFaults + 1

InProgress(r) == put[r].pc \in {"row", "key"}

\* put_settings: a body whose thresholds are not in order is refused (400).
PutRefused(r, b) ==
    /\ put[r].pc = "idle" /\ b.otp >= b.block
    /\ put' = [put EXCEPT ![r].pc = "refused"]
    /\ UNCHANGED <<saved, mirrored, cached, unchanged, settled, settingsFaults>>

PutBegins(r, b) ==
    /\ put[r].pc = "idle" /\ b.otp < b.block
    /\ put' = [q \in Puts |->
           IF q = r THEN [pc |-> "row", body |-> b, alone |-> \A o \in Puts : ~InProgress(o)]
           ELSE [put[q] EXCEPT !.alone = FALSE]]
    /\ settled' = FALSE
    /\ UNCHANGED <<saved, mirrored, cached, unchanged, settingsFaults>>

\* INSERT ... ON CONFLICT DO UPDATE.
PutSavesRow(r) ==
    /\ put[r].pc = "row"
    /\ saved' = {put[r].body}
    /\ put' = [put EXCEPT ![r].pc = "key"]
    /\ UNCHANGED <<mirrored, cached, unchanged, settled, settingsFaults>>

\* Variant: the key is only set when it is absent.
PutSavesFirstKey(r) ==
    /\ put[r].pc = "key"
    /\ mirrored' = IF mirrored = {} THEN {put[r].body} ELSE mirrored
    /\ put' = [put EXCEPT ![r].pc = "saved"]
    /\ unchanged' = 0 /\ settled' = put[r].alone
    /\ UNCHANGED <<saved, cached, settingsFaults>>

\* Redis SET, and {"saved": true} is answered.
PutSavesKey(r) ==
    /\ put[r].pc = "key"
    /\ mirrored' = {put[r].body}
    /\ put' = [put EXCEPT ![r].pc = "saved"]
    /\ unchanged' = 0 /\ settled' = put[r].alone
    /\ UNCHANGED <<saved, cached, settingsFaults>>

\* Either store call raises, having taken effect or not (500, or a crash).
PutFails(r) ==
    /\ InProgress(r) /\ SettingsFault
    /\ \/ UNCHANGED <<saved, mirrored, unchanged>>
       \/ put[r].pc = "row" /\ saved' = {put[r].body} /\ UNCHANGED <<mirrored, unchanged>>
       \/ put[r].pc = "key" /\ mirrored' = {put[r].body} /\ unchanged' = 0 /\ UNCHANGED saved
    /\ put' = [put EXCEPT ![r].pc = "failed"]
    /\ settled' = FALSE
    /\ UNCHANGED cached

\* What current_config makes of the key.
KeyConfig == IF mirrored = {} THEN Defaults ELSE CHOOSE b \in mirrored : TRUE

\* GET /admin/settings reads the row only.
Shown == IF saved = {} THEN Defaults ELSE CHOOSE b \in saved : TRUE

\* Variant: what was read once is never read again.
CacheNeverExpires(p) == cached[p] # {}

\* now - _cached_at < _CACHE_TTL_S.
CacheHit(p) == \E c \in cached[p] : c.age < CacheSeconds

\* current_config on a miss: read the key and keep what it says.
ReadKey(p) ==
    /\ ~CacheHit(p)
    /\ cached' = [cached EXCEPT ![p] = {[cfg |-> KeyConfig, age |-> 0]}]
    /\ UNCHANGED <<saved, mirrored, put, unchanged, settled, settingsFaults>>

\* The read raises: the defaults are kept just as long.
ReadFails(p) ==
    /\ ~CacheHit(p) /\ SettingsFault
    /\ cached' = [cached EXCEPT ![p] = {[cfg |-> Defaults, age |-> 0]}]
    /\ unchanged' = 0
    /\ UNCHANGED <<saved, mirrored, put, settled>>

DeciderRestarts(p) ==
    /\ cached[p] # {} /\ SettingsFault
    /\ cached' = [cached EXCEPT ![p] = {}]
    /\ UNCHANGED <<saved, mirrored, put, unchanged, settled>>

\* Redis comes back empty; nothing mirrors the row again.
KeyLost ==
    /\ mirrored # {} /\ SettingsFault
    /\ mirrored' = {} /\ unchanged' = 0 /\ settled' = FALSE
    /\ UNCHANGED <<saved, cached, put>>

Older(n) == IF n < CacheSeconds THEN n + 1 ELSE n

\* One tick of the clock; ages stop counting when they no longer matter.
SettingsTick ==
    /\ unchanged' = Older(unchanged)
    /\ cached' = [p \in Deciders |-> {[c EXCEPT !.age = Older(@)] : c \in cached[p]}]
    /\ UNCHANGED <<saved, mirrored, put, settled, settingsFaults>>

SettingsNext ==
    \/ \E r \in Puts, b \in Bodies : PutRefused(r, b) \/ PutBegins(r, b)
    \/ \E r \in Puts : PutSavesRow(r) \/ PutSavesKey(r) \/ PutFails(r)
    \/ \E p \in Deciders : ReadKey(p) \/ ReadFails(p) \/ DeciderRestarts(p)
    \/ KeyLost \/ SettingsTick

-----------------------------------------------------------------------------
(* Properties. *)

\* Every variable has its type, and a PUT that got past the check carries its body.
SettingsTypeOK ==
    /\ saved \in SUBSET Bodies /\ mirrored \in SUBSET Bodies
    /\ cached \in [Deciders -> SUBSET [cfg : Bodies \cup {Defaults}, age : 0..CacheSeconds]]
    /\ put \in [Puts -> [pc : {"idle", "refused", "row", "key", "saved", "failed"},
                         body : Bodies \cup {Defaults}, alone : BOOLEAN]]
    /\ unchanged \in 0..CacheSeconds /\ settled \in BOOLEAN
    /\ settingsFaults \in 0..MaxSettingsFaults
    /\ \A r \in Puts : put[r].pc \notin {"idle", "refused"} => put[r].body \in Bodies

\* The thresholds a decision of p is made with now, if Redis answers.
InForce(p) == IF CacheHit(p) THEN (CHOOSE c \in cached[p] : TRUE).cfg ELSE KeyConfig

\* "A change takes effect in the running pipeline within seconds": once the key
\* has been left alone, and readable, for the cache's lifetime, both processes
\* decide by it, and so by the same thresholds.
ChangeTakesEffect ==
    unchanged >= CacheSeconds => \A p \in Deciders : InForce(p) = KeyConfig

\* The console shows what the pipeline reads whenever the last PUT ran alone and
\* was acknowledged, whatever failures and crossings came before it.
ConsoleAgrees == settled => Shown = KeyConfig
=============================================================================
