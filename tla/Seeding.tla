------------------------------- MODULE Seeding -------------------------------
(***************************************************************************)
(* The two seed scripts, run and run again, aborted or not, against a live *)
(* system: scripts.seed_app_data numbers the accounts it chose, creates    *)
(* customers and accounts, copies their history into app_transactions and  *)
(* backfills what has no analysis yet; scripts.seed_demo_profiles moves    *)
(* the profile accounts to customers of their own.  Every statement        *)
(* commits by itself; one action is one statement.                         *)
(***************************************************************************)
EXTENDS Integers, FiniteSets

CONSTANTS
    DemoAccount, DemoAccount2, RingCollector, \* always chosen
    OtherAccounts, \* may be among the N with the most history
    Profiles,      \* accounts of DEMO_PROFILES
    HistoryOf,     \* account -> its dataset transactions
    LiveTxns,      \* transfers submitted meanwhile, on DemoAccount
    MaxSeeds       \* bound: script runs

Accts   == {DemoAccount, DemoAccount2, RingCollector} \cup OtherAccounts
History == UNION {HistoryOf[a] : a \in Accts}
Rows    == History \cup LiveTxns

\* Account ids sort as numbers, the demo accounts before all others.
ASSUME SeedingAssumption ==
    /\ Accts \cup Profiles \subseteq Nat \ {0} /\ IsFiniteSet(Accts)
    /\ DemoAccount # DemoAccount2 /\ \A a \in Accts \ {DemoAccount} : DemoAccount < a
    /\ \A a \in Accts \ {DemoAccount, DemoAccount2} : DemoAccount2 < a
    /\ Profiles \subseteq Accts \ {DemoAccount, DemoAccount2}
    /\ DOMAIN HistoryOf = Accts /\ LiveTxns \cap History = {} /\ MaxSeeds \in Nat

VARIABLES
    people, \* app_customers: id -> the agent_account_id it was created with, 0 if absent
    owner,  \* app_accounts: account -> its customer_id, 0 if absent
    ledger, \* app_transactions: id -> [status, analyses]; "absent" if there is no row;
            \* analyses counts the writes of its fraud column (ghost beyond the first)
    script, \* the running script: [pc, chosen, todo, rows, verdict]
    seeds,  \* ghost: the choices of the runs so far
    runs

seedVars == <<people, owner, ledger, script, seeds, runs>>

\* CUST-DEMO-* ids are written as negative numbers.
CustomerIds == (1..Cardinality(Accts)) \cup {-a : a \in Profiles}

Done == [pc |-> "done", chosen |-> {}, todo |-> {}, rows |-> {}, verdict |-> "none"]

SeedingInit ==
    /\ people = [c \in CustomerIds |-> 0] /\ owner = [a \in Accts |-> 0]
    /\ ledger = [t \in Rows |-> [status |-> "absent", analyses |-> 0]]
    /\ script = Done /\ seeds = {} /\ runs = 0

Least(S) == CHOOSE a \in S : \A b \in S : a <= b

SeedBegins ==
    /\ script.pc = "done" /\ runs < MaxSeeds /\ runs' = runs + 1
    /\ \E S \in SUBSET OtherAccounts :
           LET chosen == S \cup {DemoAccount, DemoAccount2, RingCollector}
           IN /\ script' = [Done EXCEPT !.pc = "customer", !.chosen = chosen, !.todo = chosen]
              /\ seeds' = seeds \cup {chosen}
    /\ UNCHANGED <<people, owner, ledger>>

\* Variant: the second demo account gets a customer of its own.
CustomerIdBySeq(a, chosen) == Cardinality({b \in chosen : b <= a})

\* f"CUST-{seq:07d}"; the second demo account shares the first one's customer.
CustomerId(a, chosen) ==
    IF a \in {DemoAccount, DemoAccount2} THEN 1 ELSE Cardinality({b \in chosen : b <= a})

\* The accounts in order: INSERT the customer, unless it is there already, ...
SeedCustomer ==
    /\ script.pc = "customer" /\ script.todo # {}
    /\ LET a == Least(script.todo)
           c == CustomerId(a, script.chosen)
       IN people' = IF a = DemoAccount2 \/ people[c] # 0 THEN people
                    ELSE [people EXCEPT ![c] = a]
    /\ script' = [script EXCEPT !.pc = "account"]
    /\ UNCHANGED <<owner, ledger, seeds, runs>>

\* ... then the account, unless it is there already.
SeedAccount ==
    /\ script.pc = "account"
    /\ LET a == Least(script.todo)
           c == CustomerId(a, script.chosen)
       IN /\ owner' = IF owner[a] # 0 THEN owner ELSE [owner EXCEPT ![a] = c]
          /\ script' = [script EXCEPT !.pc = "customer", !.todo = @ \ {a}]
    /\ UNCHANGED <<people, ledger, seeds, runs>>

\* seed_transactions goes over all accounts of the table, chosen or not.
HistoryBegins ==
    /\ script.pc = "customer" /\ script.todo = {}
    /\ script' = [script EXCEPT !.pc = "history",
                                !.rows = UNION {HistoryOf[a] : a \in {b \in Accts : owner[b] # 0}}]
    /\ UNCHANGED <<people, owner, ledger, seeds, runs>>

SeedTransaction(t) ==
    /\ script.pc = "history" /\ t \in script.rows
    /\ \E status \in {"success", "failed"} :
           ledger' = IF ledger[t].status # "absent" THEN ledger
                     ELSE [ledger EXCEPT ![t].status = status]
    /\ script' = [script EXCEPT !.rows = @ \ {t}]
    /\ UNCHANGED <<people, owner, seeds, runs>>

\* Variant: every row is analysed again.
SelectAll ==
    /\ script.pc = "history" /\ script.rows = {}
    /\ script' = [script EXCEPT !.pc = "backfill",
                                !.rows = {t \in Rows : ledger[t].status # "absent"}]
    /\ UNCHANGED <<people, owner, ledger, seeds, runs>>

\* backfill_pipeline: the rows without an analysis, the live ones among them (the
\* newest come first where --backfill is too small for all); --skip-backfill.
SelectUnscored ==
    /\ script.pc = "history" /\ script.rows = {}
    /\ LET unscored == {t \in Rows : ledger[t].status # "absent" /\ ledger[t].analyses = 0}
       IN \/ script' = [script EXCEPT !.pc = "backfill", !.rows = unscored]
          \/ script' = Done
    /\ UNCHANGED <<people, owner, ledger, seeds, runs>>

\* The agents and fuse, for one row; nobody scored: the row is left as it is.
Evaluate(t) ==
    /\ script.pc = "backfill" /\ t \in script.rows /\ script.verdict = "none"
    /\ \/ script' = [script EXCEPT !.rows = @ \ {t}]
       \/ \E d \in {"PASS", "BLOCK"} :
              script' = [script EXCEPT !.pc = "update", !.rows = {t} \cup @, !.todo = {t},
                                       !.verdict = d]
    /\ UNCHANGED <<people, owner, ledger, seeds, runs>>

\* The audit row (best effort), and the UPDATE by id.
UpdateRow ==
    /\ script.pc = "update"
    /\ \E t \in script.todo :
          /\ ledger' = [ledger EXCEPT ![t].analyses = @ + 1,
                            ![t].status = IF script.verdict = "BLOCK" THEN "blocked" ELSE @]
          /\ script' = [script EXCEPT !.pc = "backfill", !.rows = @ \ {t}, !.todo = {},
                                      !.verdict = "none"]
    /\ UNCHANGED <<people, owner, seeds, runs>>

SeedEnds ==
    /\ script.pc = "backfill" /\ script.rows = {} /\ script' = Done
    /\ UNCHANGED <<people, owner, ledger, seeds, runs>>

\* A statement raises, or somebody stops the script.
SeedAborts ==
    /\ script.pc # "done" /\ script' = Done
    /\ UNCHANGED <<people, owner, ledger, seeds, runs>>

\* seed_demo_profiles, one profile: both upserts overwrite, the history is the
\* account's own and already there or not.
UpsertCustomer(a) ==
    /\ script.pc = "done" /\ runs < MaxSeeds /\ runs' = runs + 1
    /\ people' = [people EXCEPT ![-a] = a]
    /\ script' = [Done EXCEPT !.pc = "profile", !.todo = {a}]
    /\ UNCHANGED <<owner, ledger, seeds>>

UpsertAccount ==
    /\ script.pc = "profile"
    /\ LET a == Least(script.todo)
       IN /\ owner' = [owner EXCEPT ![a] = -a]
          /\ script' = [script EXCEPT !.pc = "profile_history", !.rows = HistoryOf[a]]
    /\ UNCHANGED <<people, ledger, seeds, runs>>

ProfileTransaction ==
    /\ script.pc = "profile_history"
    /\ \/ /\ script.rows # {}
          /\ LET t == Least(script.rows)
             IN /\ ledger' = IF ledger[t].status # "absent" THEN ledger
                             ELSE [ledger EXCEPT ![t].status = "success"]
                /\ script' = [script EXCEPT !.rows = @ \ {t}]
       \/ script.rows = {} /\ script' = Done /\ UNCHANGED ledger
    /\ UNCHANGED <<people, owner, seeds, runs>>

\* The live system: a transfer of the demo account is submitted, then decided
\* and settled with its analysis.
LiveSubmit(t) ==
    /\ owner[DemoAccount] # 0 /\ ledger[t].status = "absent"
    /\ ledger' = [ledger EXCEPT ![t].status = "pending"]
    /\ UNCHANGED <<people, owner, script, seeds, runs>>

LiveSettle(t) ==
    /\ ledger[t].status = "pending"
    /\ \E status \in {"success", "blocked"} :
           ledger' = [ledger EXCEPT ![t].status = status, ![t].analyses = @ + 1]
    /\ UNCHANGED <<people, owner, script, seeds, runs>>

SeedingNext ==
    \/ SeedBegins \/ SeedCustomer \/ SeedAccount \/ HistoryBegins \/ SelectUnscored
    \/ UpdateRow \/ SeedEnds \/ SeedAborts \/ UpsertAccount \/ ProfileTransaction
    \/ \E t \in Rows : SeedTransaction(t) \/ Evaluate(t)
    \/ \E a \in Profiles : UpsertCustomer(a)
    \/ \E t \in LiveTxns : LiveSubmit(t) \/ LiveSettle(t)

-----------------------------------------------------------------------------
(* Properties. *)

\* An account belongs to the customer that was made for it, the second demo
\* account to the first one's.
Belongs(a) == people[owner[a]] = IF a = DemoAccount2 THEN DemoAccount ELSE a

\* "Idempotent - safe to re-run": whatever the scripts chose each time, whose
\* account is whose stays right.
AccountsKeepOwner == \A a \in Accts : owner[a] # 0 => Belongs(a)

\* It does, over aborted runs and both scripts in any order, as long as every
\* run chooses the same accounts.
SameChoiceKeepsOwner == Cardinality(seeds) <= 1 => AccountsKeepOwner

\* The backfill gives a seeded row its analysis at most once, over re-runs, aborted
\* runs and live traffic.  (A live row may get two: one that is still pending when
\* a backfill selects it is settled and then overwritten.)
AnalysedOnce == \A t \in History : ledger[t].analyses <= 1
=============================================================================
