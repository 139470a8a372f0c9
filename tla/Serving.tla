------------------------------- MODULE Serving -------------------------------
(***************************************************************************)
(* A process that hosts agents (the API, the orchestrator, or the behavior *)
(* service): what it opens at startup and never again, what its endpoints  *)
(* answer while the backing stores come and go, the fan-out to all agents, *)
(* and the health reports.  One action is one agent's run, one probe, or   *)
(* one store going up or down.                                             *)
(***************************************************************************)
EXTENDS Naturals, Sequences

CONSTANT MaxFlips  \* bound: stores going up or down

ASSUME ServingAssumption == MaxFlips \in Nat

VARIABLES
    host,       \* the process
    up,         \* stores that answer
    booted,     \* startup steps done
    opened,     \* parts whose pool, driver or producer startup opened
    modelError, \* behavior_model_error is set
    artifacts,  \* the exports on disk that load and agree with their manifests
    task,       \* the request being served, and its progress
    flips

servingVars == <<host, up, booted, opened, modelError, artifacts, task, flips>>

Stores == {"redis", "postgres", "neo4j", "kafka"}
FusionAgents == {"velocity", "geo", "graph", "behavior"}
AgentSteps == <<"geo", "graph", "behavior", "synthesis", "kafka">>
StartupOrder ==
    [api          |-> Append(AgentSteps, "app"),
     orchestrator |-> AgentSteps,
     behavior     |-> <<"behavior">>]
Exports == {"xgboost", "isolation_forest", "lstm", "calibration"}
Booted == booted = Len(StartupOrder[host])

\* What the health endpoints go through.  /admin/system-health says "synthesis"
\* where it asks for what is here "app"; the orchestrator has no such endpoint.
Probed ==
    [api          |-> FusionAgents \cup {"synthesis", "app"},
     orchestrator |-> {},
     behavior     |-> {"behavior"}]

\* held: stores that were up ever since the task began; still: none flipped.
NoTask == [kind |-> "none", pending |-> {}, scored |-> {}, held |-> Stores, still |-> TRUE]

ServingInit ==
    /\ host \in DOMAIN StartupOrder
    /\ up \in SUBSET Stores /\ artifacts \in {Exports} \cup {Exports \ {e} : e \in Exports}
    /\ booted = 0 /\ opened = {} /\ modelError = FALSE
    /\ task = NoTask /\ flips = 0

\* One export that is missing, or disagrees, and no model is served.
LoadsBundle == Exports \subseteq artifacts

\* What each part's connect() needs.  The geo agent's Redis client and the graph
\* driver connect lazily; a part that fails stays without its pool or producer.
OpensGeo       == "postgres" \in up
OpensBehavior  == LoadsBundle /\ "postgres" \in up
OpensSynthesis == "postgres" \in up
OpensKafka     == "kafka" \in up
OpensApp       == "postgres" \in up

Opens(part) ==
    CASE part = "geo"       -> OpensGeo
      [] part = "graph"     -> TRUE
      [] part = "behavior"  -> OpensBehavior
      [] part = "synthesis" -> OpensSynthesis
      [] part = "kafka"     -> OpensKafka
      [] part = "app"       -> OpensApp

\* A step of startup opens its part if it can and goes on anyway, except that
\* the orchestrator ends, and is started again, without its producer.
Boot ==
    /\ ~Booted
    /\ LET part == StartupOrder[host][booted + 1]
           ends == host = "orchestrator" /\ part = "kafka" /\ ~OpensKafka
       IN /\ booted' = IF ends THEN 0 ELSE booted + 1
          /\ opened' = CASE ends                   -> {}
                         [] ~ends /\ Opens(part) -> opened \cup {part}
                         [] OTHER                  -> opened
          /\ modelError' = IF part = "behavior" THEN ~LoadsBundle ELSE modelError /\ ~ends
    /\ UNCHANGED <<host, up, artifacts, task, flips>>

\* The process ends: shutdown closes what was opened, the next one starts over.
Reboot ==
    /\ Booted /\ flips < MaxFlips /\ flips' = flips + 1
    /\ booted' = 0 /\ opened' = {} /\ modelError' = FALSE /\ task' = NoTask
    /\ UNCHANGED <<host, up, artifacts>>

Flip(s) ==
    /\ flips < MaxFlips /\ flips' = flips + 1
    /\ up' = IF s \in up THEN up \ {s} ELSE up \cup {s}
    /\ task' = [task EXCEPT !.held = @ \ {s}, !.still = FALSE]
    /\ UNCHANGED <<host, booted, opened, modelError, artifacts>>

\* What an endpoint may answer now: "ok", "unavailable" (503), or "refused" where
\* it has no score for the account or the input (404, 422).
VelocityAnswers == IF "redis" \in up THEN {"ok"} ELSE {"unavailable"}

\* Geo asks Postgres only for what Redis does not hold.
GeoAnswers ==
    IF "geo" \notin opened \/ "redis" \notin up THEN {"unavailable"}
    ELSE {"ok"} \cup (IF "postgres" \in up THEN {} ELSE {"unavailable"})

GraphAnswers ==
    IF "graph" \notin opened \/ "neo4j" \notin up THEN {"unavailable"} ELSE {"ok", "refused"}

BehaviorAnswers ==
    IF modelError \/ "behavior" \notin opened \/ "postgres" \notin up
    THEN {"unavailable"} ELSE {"ok", "refused"}

\* Without its audit row there is no answer.
SynthesisAnswers ==
    IF "synthesis" \notin opened \/ "postgres" \notin up THEN {"unavailable"}
    ELSE {"ok", "refused"}

Answers(a) ==
    CASE a = "velocity"  -> VelocityAnswers
      [] a = "geo"       -> GeoAnswers
      [] a = "graph"     -> GraphAnswers
      [] a = "behavior"  -> BehaviorAnswers
      [] a = "synthesis" -> SynthesisAnswers

Begins(kind, pending) ==
    /\ Booted /\ task.kind \in {"none", "answered", "reported"}
    /\ task' = [kind |-> kind, pending |-> pending, scored |-> {}, held |-> up, still |-> TRUE]
    /\ UNCHANGED <<host, up, booted, opened, modelError, artifacts, flips>>

\* Variant: an agent that is unavailable fails the gather.
AgentRunsOrFails(a) ==
    /\ task.kind = "evaluate" /\ a \in task.pending
    /\ \E outcome \in Answers(a) :
           task' = [task EXCEPT !.pending = IF outcome = "unavailable" THEN {} ELSE @ \ {a},
                                !.scored = CASE outcome = "ok" -> @ \cup {a}
                                             [] outcome = "unavailable" -> {}
                                             [] OTHER -> @]
    /\ UNCHANGED <<host, up, booted, opened, modelError, artifacts, flips>>

\* run_velocity, run_geo, run_graph, run_behavior: what the endpoint would
\* refuse with an error is an outcome here, and that agent abstains.  Geo also
\* skips a transaction without device and position.
AgentRuns(a) ==
    /\ task.kind = "evaluate" /\ a \in task.pending
    /\ \E outcome \in Answers(a) \cup (IF a = "geo" THEN {"skipped"} ELSE {}) :
           task' = [task EXCEPT !.pending = @ \ {a},
                                !.scored = IF outcome = "ok" THEN @ \cup {a} ELSE @]
    /\ UNCHANGED <<host, up, booted, opened, modelError, artifacts, flips>>

\* fuse, the audit that may fail, and the answer: 503 when nobody scored.
AnswerEvaluate ==
    /\ task.kind = "evaluate" /\ task.pending = {}
    /\ task' = [task EXCEPT !.kind = "answered"]
    /\ UNCHANGED <<host, up, booted, opened, modelError, artifacts, flips>>

\* Variant: a pool that was opened is taken for a store that answers.
HealthyIfOpened(a) ==
    CASE a \in {"velocity", "geo"} -> "redis" \in up
      [] a = "graph"    -> "graph" \in opened /\ "neo4j" \in up
      [] a = "behavior" -> ~modelError /\ "behavior" \in opened
      [] OTHER          -> a \in opened

\* A probe of /health or /admin/system-health: PING, RETURN 1 or SELECT 1 on what
\* startup opened.  Geo's says nothing of its pool.
Healthy(a) ==
    CASE a \in {"velocity", "geo"} -> "redis" \in up
      [] a = "graph"    -> "graph" \in opened /\ "neo4j" \in up
      [] a = "behavior" -> ~modelError /\ "behavior" \in opened /\ "postgres" \in up
      [] OTHER          -> a \in opened /\ "postgres" \in up

Probe(a) ==
    /\ task.kind = "health" /\ a \in task.pending
    /\ task' = [task EXCEPT !.pending = @ \ {a},
                            !.scored = IF Healthy(a) THEN @ \cup {a} ELSE @]
    /\ UNCHANGED <<host, up, booted, opened, modelError, artifacts, flips>>

Report ==
    /\ task.kind = "health" /\ task.pending = {}
    /\ task' = [task EXCEPT !.kind = "reported"]
    /\ UNCHANGED <<host, up, booted, opened, modelError, artifacts, flips>>

ServingNext ==
    \/ Boot \/ Reboot \/ \E s \in Stores : Flip(s)
    \/ host # "behavior" /\ Begins("evaluate", FusionAgents)
    \/ host # "orchestrator" /\ Begins("health", Probed[host])
    \/ \E a \in FusionAgents : AgentRuns(a)
    \/ AnswerEvaluate
    \/ \E a \in Probed[host] : Probe(a)
    \/ Report

-----------------------------------------------------------------------------
(* Properties. *)

\* "A store being down degrades one agent": whatever else comes and goes
\* meanwhile, and whatever was down at startup, velocity's score is there to
\* decide by if Redis was there all along.
OneStoreDecides ==
    task.kind = "answered" /\ "redis" \in task.held => "velocity" \in task.scored

\* If no store flipped meanwhile, a part the report calls healthy does not
\* answer 503 and one it calls unhealthy does; of geo only for one whose pool
\* startup opened.
HealthTellsTruth ==
    task.kind = "reported" /\ task.still =>
        \A a \in Probed[host] \ ({"app"} \cup ({"geo"} \ opened)) :
            /\ a \in task.scored => "ok" \in Answers(a)
            /\ a \notin task.scored => Answers(a) = {"unavailable"}
=============================================================================
