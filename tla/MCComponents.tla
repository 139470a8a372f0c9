---------------------------- MODULE MCComponents ----------------------------
(***************************************************************************)
(* The components around the pipeline, none of which shares a variable     *)
(* with another: `component` says which one a behavior is of, the others   *)
(* keep their first state, so each state space is explored alone.          *)
(***************************************************************************)
EXTENDS DecisionSettings, Access, TransactionLog, Serving, Seeding, Scoring,
        BehaviorInputs, Console

VARIABLE component

----
(* Constants. *)

PutBody(o, b, s) == [otp |-> o, block |-> b, spread |-> s]
PaperDefaults == PutBody(30, 70, 20)
\* Two changes of the defaults, and one PUT that is out of order.
SettingsBodies == {PutBody(20, 60, 20), PutBody(45, 80, 30), PutBody(70, 70, 20)}

\* Accounts 1 and 3 have history, 4 is the ring's collector and a demo profile.
SeededHistory == [a \in 1..5 |-> IF a = 1 THEN {11} ELSE IF a = 3 THEN {13} ELSE {}]

\* Ids on both sides of the dataset's, so that equal timestamps order either way.
LiveIds == {1, 20}
PastIds == {10, 11}

VelocitySample ==
    {[live |-> [count_2min |-> l, count_1hr |-> l],
      mean |-> [count_2min |-> 0, count_1hr |-> 1],
      avg |-> 1000, amount |-> a, observations |-> o, share |-> s] :
         l \in {1, 10}, a \in {500, 5000, 15000}, o \in {0, 50}, s \in {20, NoShare}}

GeoSample ==
    {[first |-> FALSE, km |-> k, dt |-> d, device |-> v, fingerprint |-> {},
      observations |-> o] :
         k \in {40, 600}, d \in {-60, 3600}, v \in {"known", "unknown"}, o \in {0, 20}}

Payer == "payer"
Pays(a, b) == [from |-> a, to |-> b, day |-> 1, structuring |-> FALSE,
               reciprocal |-> FALSE, n |-> 1]
Account(t, s) == [tier |-> t, seed |-> s, degreeIn |-> 0, received |-> 0, sent |-> 0]
NetworkSample ==
    {[edges |-> {Pays(Payer, Collector)}, node |-> Account("LOW", TRUE)],
     [edges |-> {Pays(Payer, "mule"), Pays("mule", Collector)},
      node |-> Account("WATCHLIST", FALSE)],
     [edges |-> {}, node |-> Account("LOW", FALSE)]}

\* Each model has a scale of its own; 13 is in the worst tenth of all of them, 4
\* is below a third of any.
ModelGrids == [xgboost          |-> <<1, 2, 3, 4, 5, 6, 7, 8, 9, 12>>,
               isolation_forest |-> <<3, 5, 6, 7, 8, 9, 10, 11, 11, 12>>,
               lstm             |-> <<2, 4, 5, 7, 8, 9, 10, 11, 12, 13>>]
BehaviorSample ==
    {[raw |-> [xgboost |-> x, isolation_forest |-> y], history |-> 20] :
         x \in {4, 13}, y \in {4, 13}}
    \cup {[raw |-> [isolation_forest |-> y], history |-> 2] : y \in {4, 13}}
    \cup {[raw |-> [xgboost |-> 13, isolation_forest |-> 12, lstm |-> y],
           history |-> 60] : y \in {4, 13}}

\* At this type's weights every decision is reached, the forced challenge too.
NightWithdrawals == {[amount |-> 50000, minute |-> 300, type |-> "ATM_WITHDRAWAL"]}

----
(* The behaviors. *)

Components == {"settings", "access", "log", "serving", "seeding", "scoring", "behavior",
               "console"}

Init ==
    /\ component \in Components
    /\ SettingsInit /\ AccessInit /\ LogInit /\ SeedingInit /\ ScoringInit
    /\ ServingInit  /\ (component # "serving" => host = "api" /\ up = Stores
                                               /\ artifacts = Exports)
    /\ BehaviorInit /\ (component # "behavior" => joined = {} /\ \A k \in DOMAIN odd : odd[k] = {})
    /\ ConsoleInit

Next ==
    \/ /\ component = "settings" /\ SettingsNext
       /\ UNCHANGED <<component, accessVars, logVars, servingVars, seedVars,
                      scoringVars, behaviorVars, consoleVars>>
    \/ /\ component = "access" /\ AccessNext
       /\ UNCHANGED <<component, settingsVars, logVars, servingVars, seedVars,
                      scoringVars, behaviorVars, consoleVars>>
    \/ /\ component = "log" /\ LogNext
       /\ UNCHANGED <<component, settingsVars, accessVars, servingVars, seedVars,
                      scoringVars, behaviorVars, consoleVars>>
    \/ /\ component = "serving" /\ ServingNext
       /\ UNCHANGED <<component, settingsVars, accessVars, logVars, seedVars,
                      scoringVars, behaviorVars, consoleVars>>
    \/ /\ component = "seeding" /\ SeedingNext
       /\ UNCHANGED <<component, settingsVars, accessVars, logVars, servingVars,
                      scoringVars, behaviorVars, consoleVars>>
    \/ /\ component = "scoring" /\ ScoringNext
       /\ UNCHANGED <<component, settingsVars, accessVars, logVars, servingVars,
                      seedVars, behaviorVars, consoleVars>>
    \/ /\ component = "behavior" /\ BehaviorNext
       /\ UNCHANGED <<component, settingsVars, accessVars, logVars, servingVars,
                      seedVars, scoringVars, consoleVars>>
    \/ /\ component = "console" /\ ConsoleNext
       /\ UNCHANGED <<component, settingsVars, accessVars, logVars, servingVars,
                      seedVars, scoringVars, behaviorVars>>

Spec == Init /\ [][Next]_<<component, settingsVars, accessVars, logVars, servingVars,
                           seedVars, scoringVars, behaviorVars, consoleVars>>
=============================================================================
