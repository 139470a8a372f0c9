---------------------------- MODULE BehaviorInputs ----------------------------
(***************************************************************************)
(* What the behavior agent's models see of one account.  A transfer stamps *)
(* its time and id, reads the account's context, and inserts its rows one  *)
(* statement at a time in one database transaction before its event is     *)
(* published; an evaluation counts the history, then runs three models on  *)
(* three connections, each statement seeing what is committed by then.     *)
(* One action is one statement; transfers and evaluations interleave.      *)
(***************************************************************************)
EXTENDS Integers, FiniteSets, Sequences

CONSTANTS
    Transfers,       \* live transactions of the account
    Past,            \* transactions loaded from the dataset
    LstmMinHistory,  \* history from which the LSTM is asked
    SeqLen,          \* length of its window
    MaxTime,         \* bound: clock ticks
    MaxStatementFaults  \* bound: statements that fail

ASSUME BehaviorInputsAssumption ==
    /\ Transfers \subseteq Int /\ Past \subseteq Int /\ Transfers \cap Past = {}
    /\ IsFiniteSet(Transfers) /\ IsFiniteSet(Past)
    /\ {LstmMinHistory, MaxTime, MaxStatementFaults} \subseteq Nat /\ SeqLen \in Nat \ {0}

VARIABLES
    rows,      \* transactions_raw, velocity_snapshots, geo_events: the ids committed
    stamp,     \* timestamp of a transaction
    clock,
    stage,     \* what the request of a transfer has done
    inserted,  \* rows of the open database transaction, in order
    counted,   \* history count read by an evaluation
    model,     \* per evaluation, how far each model is
    outcome,   \* the agent's outcome for a transfer
    odd,       \* transactions with a category without a trained column, by input
    joined,    \* reference rows of the account: "profile" ("levels": with trained
               \* categories), "node"
    failures

behaviorVars == <<rows, stamp, clock, stage, inserted, counted, model, outcome,
                  odd, joined, failures>>
evaluationVars == <<counted, model, outcome>>
requestVars == <<stamp, clock, stage, inserted>>

Known == Transfers \cup Past
Tables == {"raw", "velocity", "geo"}
Inserts == <<"raw", "velocity", "geo", "app">>
ModelNames == {"xgboost", "isolation_forest", "lstm"}

BehaviorInit ==
    /\ rows = [table \in Tables |-> Past]
    /\ stamp = [txn \in Known |-> 0] /\ clock = 0
    /\ stage = [t \in Transfers |-> "new"]
    /\ inserted = [t \in Transfers |-> {}]
    /\ counted = [t \in Transfers |-> 0]
    /\ model = [t \in Transfers |-> [name \in ModelNames |-> "idle"]]
    /\ outcome = [t \in Transfers |-> "none"]
    /\ odd \in [{"tabular", "sequence"} -> {{}} \cup {{txn} : txn \in Known}]
    /\ joined \in SUBSET {"profile", "levels", "node"}
    /\ failures = 0

\* (timestamp, txn_id) <= (timestamp, txn_id)
UpTo(a, b) == stamp[a] < stamp[b] \/ (stamp[a] = stamp[b] /\ a <= b)
Preceding(t) == {h \in rows["raw"] : t \in rows["raw"] /\ UpTo(h, t)}

\* Submitting a transfer.
StampTransfer(t) ==
    /\ stage[t] = "new"
    /\ \E now \in {clock, clock + 1} : now <= MaxTime /\ clock' = now
                                       /\ stamp' = [stamp EXCEPT ![t] = now]
    /\ stage' = [stage EXCEPT ![t] = "inserting"]
    /\ UNCHANGED <<rows, inserted, evaluationVars, odd, joined, failures>>

NextTable(t) == Inserts[Cardinality(inserted[t]) + 1]

\* Variant: each statement commits on its own.
InsertRowAlone(t) ==
    /\ stage[t] = "inserting" /\ Cardinality(inserted[t]) < Len(Inserts)
    /\ inserted' = [inserted EXCEPT ![t] = @ \cup {NextTable(t)}]
    /\ rows' = [table \in Tables |-> IF table = NextTable(t) THEN rows[table] \cup {t}
                                                             ELSE rows[table]]
    /\ UNCHANGED <<stamp, clock, stage, evaluationVars, odd, joined, failures>>

InsertRow(t) ==
    /\ stage[t] = "inserting" /\ Cardinality(inserted[t]) < Len(Inserts)
    /\ inserted' = [inserted EXCEPT ![t] = @ \cup {NextTable(t)}]
    /\ UNCHANGED <<rows, stamp, clock, stage, evaluationVars, odd, joined, failures>>

CommitRows(t) ==
    /\ stage[t] = "inserting" /\ Cardinality(inserted[t]) = Len(Inserts)
    /\ rows' = [table \in Tables |-> rows[table] \cup {t}]
    /\ stage' = [stage EXCEPT ![t] = "committed"]
    /\ UNCHANGED <<stamp, clock, inserted, evaluationVars, odd, joined, failures>>

PublishTransfer(t) ==
    /\ stage[t] = "committed"
    /\ stage' = [stage EXCEPT ![t] = "published"]
    /\ UNCHANGED <<rows, stamp, clock, inserted, evaluationVars, odd, joined, failures>>

\* A statement, or the process, fails: what is not committed is rolled back.
RequestFails(t) ==
    /\ stage[t] \in {"inserting", "committed"} /\ failures < MaxStatementFaults
    /\ stage' = [stage EXCEPT ![t] = "failed"] /\ failures' = failures + 1
    /\ UNCHANGED <<rows, stamp, clock, inserted, evaluationVars, odd, joined>>

\* Evaluating it: the history is counted first, on a connection of its own.
Counts(n) == [name \in ModelNames |->
                  IF name # "lstm" THEN "reading"
                  ELSE IF n < LstmMinHistory THEN "abstained" ELSE "anchoring"]

CountHistory(t) ==
    /\ stage[t] = "published" /\ outcome[t] = "none" /\ model[t]["lstm"] = "idle"
    /\ LET n == Cardinality(Preceding(t))
       IN /\ counted' = [counted EXCEPT ![t] = n]
          /\ IF n = 0
             THEN outcome' = [outcome EXCEPT ![t] = "not_found"] /\ UNCHANGED model
             ELSE model' = [model EXCEPT ![t] = Counts(n)] /\ UNCHANGED outcome
    /\ UNCHANGED <<rows, requestVars, odd, joined, failures>>

Moves(t, name, to) ==
    /\ model' = [model EXCEPT ![t][name] = to]
    /\ UNCHANGED <<rows, requestVars, counted, outcome, odd, joined, failures>>

\* The one statement of the Isolation Forest: the row and the account's
\* aggregates, which take in rows later than the transaction.
ReadIsolationForest(t) ==
    /\ model[t]["isolation_forest"] = "reading"
    /\ Moves(t, "isolation_forest",
             IF t \in rows["raw"] \ odd["tabular"] THEN "scored" ELSE "missing")

\* The one statement of XGBoost: the row joined with the profile.
ReadXgboost(t) ==
    /\ model[t]["xgboost"] = "reading"
    /\ Moves(t, "xgboost",
             IF t \in rows["raw"] \ odd["tabular"] /\ {"profile", "levels"} \subseteq joined
             THEN "scored" ELSE "missing")

\* The LSTM's three statements: the anchor, the window ending at it, the statics.
ReadAnchor(t) ==
    /\ model[t]["lstm"] = "anchoring"
    /\ Moves(t, "lstm", IF t \in rows["raw"] THEN "windowing" ELSE "missing")

Later(set, a) == Cardinality({b \in set : UpTo(a, b) /\ a # b})

Window(t) == {h \in Preceding(t) : Later(Preceding(t), h) < SeqLen}
Anchored(t, window) == t \in window /\ Later(window, t) = 0
Buildable(window) == window \subseteq (rows["velocity"] \cap rows["geo"]) \ odd["sequence"]

ReadWindow(t) ==
    /\ model[t]["lstm"] = "windowing"
    /\ Moves(t, "lstm", IF Anchored(t, Window(t)) /\ Buildable(Window(t))
                        THEN "statics" ELSE "missing")

ReadStatics(t) ==
    /\ model[t]["lstm"] = "statics"
    /\ Moves(t, "lstm", IF {"profile", "node"} \subseteq joined THEN "scored" ELSE "missing")

Ended == {"scored", "missing", "abstained", "down"}
StatementFails(t) ==
    /\ failures < MaxStatementFaults /\ failures' = failures + 1
    /\ \/ /\ stage[t] = "published" /\ outcome[t] = "none" /\ model[t]["lstm"] = "idle"
          /\ outcome' = [outcome EXCEPT ![t] = "unavailable"]
          /\ UNCHANGED model
       \/ \E name \in ModelNames :
              /\ model[t][name] \notin Ended \cup {"idle"}
              /\ model' = [model EXCEPT ![t][name] = "down"]
              /\ UNCHANGED outcome
    /\ UNCHANGED <<rows, requestVars, counted, odd, joined>>

Contributed(t) == {name \in ModelNames : model[t][name] = "scored"}

\* gather waits for all three; a database failure of any loses the others.
BlendScores(t) ==
    /\ outcome[t] = "none" /\ \A name \in ModelNames : model[t][name] \in Ended
    /\ outcome' = [outcome EXCEPT ![t] =
           IF \E name \in ModelNames : model[t][name] = "down" THEN "unavailable"
           ELSE IF Contributed(t) = {} THEN "error" ELSE "ok"]
    /\ UNCHANGED <<rows, requestVars, counted, model, odd, joined, failures>>

BehaviorNext ==
    \E t \in Transfers :
        \/ StampTransfer(t) \/ InsertRow(t) \/ CommitRows(t) \/ PublishTransfer(t)
        \/ RequestFails(t)
        \/ CountHistory(t) \/ ReadIsolationForest(t) \/ ReadXgboost(t)
        \/ ReadAnchor(t) \/ ReadWindow(t) \/ ReadStatics(t)
        \/ StatementFails(t) \/ BlendScores(t)

\* However the transfers of an account commit and are evaluated around each
\* other, no model is silenced, and none speaks, because of a neighbour that was
\* half-written: an evaluation no statement failed never loses its transaction,
\* hears each tabular model exactly if its inputs exist, and hears the LSTM
\* exactly if the account had the history for it when that was counted, unless a
\* transaction of an untrained category is in the account (submit_transfer's one
\* database transaction, BehaviorAgent.evaluate and the builders' errors).
LiveIsFullyScored ==
    \A t \in Transfers : outcome[t] \notin {"none", "unavailable"} =>
        /\ t \in rows["raw"]
        /\ Cardinality({h \in Past \cup {t} : UpTo(h, t)}) <= counted[t]
        /\ counted[t] <= Cardinality(Preceding(t))
        /\ "isolation_forest" \in Contributed(t) <=> t \notin odd["tabular"]
        /\ "xgboost" \in Contributed(t) <=>
               t \notin odd["tabular"] /\ {"profile", "levels"} \subseteq joined
        /\ "lstm" \in Contributed(t) =>
               counted[t] >= LstmMinHistory /\ t \notin odd["sequence"]
        /\ counted[t] >= LstmMinHistory /\ {"profile", "node"} \subseteq joined
               /\ odd["sequence"] = {} => "lstm" \in Contributed(t)
        /\ outcome[t] = "ok" <=> Contributed(t) # {}

===============================================================================
