------------------------- MODULE AccountProfileProofs -------------------------
(***************************************************************************)
(* What the velocity and geo agents remember of an account under           *)
(* concurrent, repeated, late and failing evaluations: type correctness;   *)
(* the windows count a burst and nothing idle; the location compared with  *)
(* is the one saved last and never the evaluation's own; a device stays    *)
(* known.  For any transactions, processes, windows, expiries and clock.   *)
(***************************************************************************)
EXTENDS AccountProfile, TLAPS

LEMMA IdleType == Idle \in Evaluation /\ Seed \in [txn : Txns \cup {NoTxn}, place : Places, ts : Int]
  <1>1. Home \in Places /\ -TravelTime \in Int
    BY ProfileAssumption
  <1>2. Seed \in [txn : Txns \cup {NoTxn}, place : Places, ts : Int]
    BY <1>1 DEF Seed, Location
  <1> QED
    BY <1>1, <1>2 DEF Idle, Evaluation

\* What ToGeo leaves in ev is typed.
LEMMA ToGeoType ==
    ASSUME TypeOK, NEW e \in Evaluators, ev[e].pc \in {"record", "count"}, ToGeo(e),
           clock' = clock
    PROVE  /\ ev' \in [Evaluators -> Evaluation]
           /\ \A f \in Evaluators :
                /\ ev'[f].ts <= clock
                /\ ev'[f].pc # "idle" => ev'[f].txn \in Txns
                /\ ev'[f].pc \notin {"idle", "record", "count"} => ev'[f].device \in Devices
                /\ f # e => ev'[f] = ev[f]
           /\ ev'[e].pc # "count"
  <1> DEFINE now == IF e \in Consumers THEN clock ELSE ev[e].ts
             on == [ev[e] EXCEPT !.pc = "travel", !.ts = now]
  <1>1. ev[e] \in Evaluation /\ clock \in Nat /\ ev[e].ts <= clock /\ ev[e].txn \in Txns
    BY DEF TypeOK
  <1>9. now \in Nat /\ now <= clock
    BY <1>1 DEF Evaluation
  <1>3. ev' = [ev EXCEPT ![e] = IF ev[e].device = NoDevice THEN Idle ELSE on]
    BY DEF ToGeo
  <1> HIDE DEF now
  <1>2. on \in Evaluation /\ on.ts = now /\ on.txn = ev[e].txn /\ on.device = ev[e].device
        /\ on.pc = "travel"
    BY <1>1, <1>9 DEF Evaluation
  <1>4. ev[e].device # NoDevice => ev[e].device \in Devices
    BY <1>1 DEF Evaluation
  <1>5. Idle \in Evaluation /\ Idle.ts = 0 /\ Idle.pc = "idle"
    BY IdleType DEF Idle
  <1> HIDE DEF on
  <1>6. ev'[e] = IF ev[e].device = NoDevice THEN Idle ELSE on
    BY <1>3 DEF TypeOK
  <1>7. \A f \in Evaluators : f # e => ev'[f] = ev[f]
    BY <1>3 DEF TypeOK
  <1>8. ev' \in [Evaluators -> Evaluation]
    BY <1>2, <1>3, <1>5 DEF TypeOK
  <1> QED
    BY <1>1, <1>2, <1>4, <1>5, <1>6, <1>7, <1>8, <1>9 DEF TypeOK

\* A step of the geo agents keeps the types if it keeps those of its own keys and
\* each process goes on with its transaction or returns.
LEMMA GeoStepType ==
    ASSUME TypeOK, ev' \in [Evaluators -> Evaluation],
           \A f \in Evaluators :
               \/ ev'[f] = Idle
               \/ /\ ev'[f].ts = ev[f].ts /\ ev'[f].txn = ev[f].txn /\ ev'[f].device = ev[f].device
                  /\ ev'[f].pc # ev[f].pc => ev[f].pc \notin {"idle", "record", "count"},
           UNCHANGED <<clock, route, stored, evals, begun, window>>,
           last' \in [txn : Txns \cup {NoTxn}, place : Places, ts : Int], lastDies' \in Int,
           known' \subseteq Devices, knownDies' \in Int, learned' \in [Devices -> Int]
    PROVE  TypeOK'
  <1>1. Idle.pc = "idle" /\ Idle.ts = 0 /\ clock \in Nat
    BY DEF Idle, TypeOK
  <1>4. ASSUME NEW f \in Evaluators
        PROVE  /\ ev'[f].ts <= clock
               /\ ev'[f].pc # "idle" => ev'[f].txn \in Txns
               /\ ev'[f].pc \notin {"idle", "record", "count"} => ev'[f].device \in Devices
    <2>1. CASE ev'[f] = Idle
      BY <1>1, <2>1
    <2>2. CASE ev'[f] # Idle
      BY <2>2 DEF TypeOK
    <2> QED
      BY <2>1, <2>2
  <1> QED
    BY <1>4 DEF TypeOK, window

LEMMA OneGeoStepType ==
    ASSUME TypeOK, NEW e \in Evaluators, NEW r \in Evaluation, ev' = [ev EXCEPT ![e] = r],
           r = Idle \/ (r.ts = ev[e].ts /\ r.txn = ev[e].txn /\ r.device = ev[e].device),
           ev[e].pc \notin {"idle", "record", "count"},
           UNCHANGED <<clock, route, stored, evals, begun, window>>,
           last' \in [txn : Txns \cup {NoTxn}, place : Places, ts : Int], lastDies' \in Int,
           known' \subseteq Devices, knownDies' \in Int, learned' \in [Devices -> Int]
    PROVE  TypeOK'
  <1>1. ev' \in [Evaluators -> Evaluation] /\ ev'[e] = r
        /\ \A f \in Evaluators : f # e => ev'[f] = ev[f]
    BY DEF TypeOK
  <1> QED
    BY <1>1, GeoStepType

LEMMA StartType ==
    ASSUME TypeOK, NEW e \in Evaluators, NEW t \in Txns, NEW ts \in 0..clock,
           NEW p \in Places, NEW d \in Devices \cup {NoDevice}, Start(e, t, ts, p, d)
    PROVE  TypeOK'
  <1> DEFINE new == [Idle EXCEPT !.pc = First, !.txn = t, !.ts = ts, !.place = p, !.device = d]
  <1>1. clock \in Nat /\ ts \in Nat /\ ts <= clock
    BY DEF TypeOK
  <1>2. First \in {"travel", "record"} /\ (First = "travel" => d \in Devices)
    BY DEF First, Start, Input
  <1>3. new \in Evaluation /\ new.ts = ts /\ new.txn = t /\ new.device = d /\ new.pc = First
    BY <1>1, <1>2, IdleType DEF Evaluation
  <1>4. ev' = [ev EXCEPT ![e] = new]
    BY DEF Start
  <1> HIDE DEF new
  <1>5. ev' \in [Evaluators -> Evaluation] /\ ev'[e] = new
        /\ \A f \in Evaluators : f # e => ev'[f] = ev[f]
    BY <1>3, <1>4 DEF TypeOK
  <1>6. \A f \in Evaluators :
           /\ ev'[f].ts <= clock
           /\ ev'[f].pc # "idle" => ev'[f].txn \in Txns
           /\ ev'[f].pc \notin {"idle", "record", "count"} => ev'[f].device \in Devices
    BY <1>1, <1>2, <1>3, <1>5 DEF TypeOK
  <1>7. evals' \in [Txns -> Nat] /\ begun' \in Nat
    BY DEF Start, TypeOK
  <1> QED
    BY <1>5, <1>6, <1>7 DEF TypeOK, Start, window, geo

LEMMA RecordType ==
    ASSUME TypeOK, NEW e \in Evaluators, VelocityRecord(e)
    PROVE  TypeOK'
  <1> DEFINE r == [ev[e] EXCEPT !.pc = "count"]
  <1>1. ev[e] \in Evaluation /\ ev[e].ts <= clock /\ ev[e].txn \in Txns /\ clock \in Nat
    BY DEF TypeOK, VelocityRecord
  <1>2. r \in Evaluation /\ r.pc = "count" /\ r.ts = ev[e].ts /\ r.txn = ev[e].txn
    BY <1>1 DEF Evaluation
  <1>3. ev' = [ev EXCEPT ![e] = r]
    BY DEF VelocityRecord
  <1> HIDE DEF r
  <1>4. ev' \in [Evaluators -> Evaluation]
        /\ \A f \in Evaluators :
           /\ ev'[f].ts <= clock
           /\ ev'[f].pc # "idle" => ev'[f].txn \in Txns
           /\ ev'[f].pc \notin {"idle", "record", "count"} => ev'[f].device \in Devices
    BY <1>1, <1>2, <1>3 DEF TypeOK
  <1>5. ev[e].ts \in Nat
    BY <1>1 DEF Evaluation
  <1>6. score' = [score EXCEPT ![ev[e].txn] = ev[e].ts]
    BY DEF VelocityRecord
  <1>7. score' \in [Txns -> Nat] /\ \A t \in Txns : score'[t] <= clock
    BY <1>1, <1>5, <1>6 DEF TypeOK
  <1>8. members' \in [Windows -> SUBSET Txns]
    BY <1>1 DEF TypeOK, VelocityRecord, Trim, Counted
  <1>9. dies' \in [Windows -> Int]
    BY <1>1, ProfileAssumption DEF VelocityRecord
  <1>10. recorded' \subseteq Txns /\ top' \in Nat /\ late' \subseteq Txns
    BY <1>1, <1>5 DEF TypeOK, VelocityRecord
  <1> QED
    BY <1>4, <1>7, <1>8, <1>9, <1>10 DEF TypeOK, VelocityRecord, geo

LEMMA TypeInit == Init => TypeOK
  <1>1. SUFFICES ASSUME Init PROVE TypeOK
    OBVIOUS
  <1>2. Idle.ts = 0 /\ Idle.pc = "idle"
    BY DEF Idle
  <1>3. ev \in [Evaluators -> Evaluation] /\ \A e \in Evaluators : ev[e] = Idle
    BY <1>1, IdleType DEF Init
  <1> QED
    BY <1>1, <1>2, <1>3, IdleType DEF Init, TypeOK

LEMMA TypeStep == TypeOK /\ [Next]_vars => TypeOK'
  <1> SUFFICES ASSUME TypeOK, [Next]_vars PROVE TypeOK'
    OBVIOUS
  <1>1. CASE UNCHANGED vars
    BY <1>1 DEF TypeOK, vars, window, geo
  <1>2. CASE Tick
    <2>1. clock \in Nat /\ clock' = clock + 1 /\ ev' = ev /\ score' = score
      BY <1>2 DEF Tick, TypeOK, window
    <2>2. ASSUME NEW e \in Evaluators PROVE ev[e].ts <= clock'
      BY <2>1 DEF TypeOK, Evaluation
    <2>3. ASSUME NEW t \in Txns PROVE score[t] <= clock'
      BY <2>1 DEF TypeOK
    <2> QED
      BY <1>2, <2>1, <2>2, <2>3 DEF TypeOK, Tick, window, geo
  <1>3. ASSUME NEW t \in Txns, Submit(t) PROVE TypeOK'
    <2>1. stored' \in [Txns -> Int]
      BY <1>3 DEF Submit, TypeOK
    <2> QED
      BY <1>3, <2>1 DEF TypeOK, Submit, window, geo
  <1>4. ASSUME NEW e \in Evaluators, VelocityCount(e) \/ VelocityAbstains(e) PROVE TypeOK'
    <2>1. /\ ev[e].pc \in {"record", "count"} /\ ToGeo(e) /\ clock' = clock
          /\ UNCHANGED <<route, stored, evals, begun, window, geo>>
      BY <1>4 DEF VelocityCount, VelocityAbstains
    <2> QED
      BY <2>1, ToGeoType DEF TypeOK, window, geo
  <1>5. ASSUME NEW e \in Evaluators,
               GeoTravel(e) \/ GeoFallback(e) \/ GeoDevices(e) \/ GeoLearn(e) \/ GeoAbstains(e)
        PROVE  TypeOK'
    <2> DEFINE Place == [txn : Txns \cup {NoTxn}, place : Places, ts : Int]
    <2>1. /\ ev[e] \in Evaluation /\ ev[e].pc \notin {"idle", "record", "count"}
          /\ UNCHANGED <<clock, route, stored, evals, begun, window, last, lastDies>>
      BY <1>5 DEF TypeOK, GeoTravel, GeoFallback, GeoDevices, GeoLearn, GeoAbstains, geo
    <2>2. last \in Place /\ lastDies \in Int /\ ev[e].device \in Devices
      BY <2>1 DEF TypeOK
    <2>3. known' \subseteq Devices /\ knownDies' \in Int /\ learned' \in [Devices -> Int]
      <3>1. CASE GeoLearn(e)
        <4>1. clock + DeviceTtl \in Int /\ clock \in Int
          BY ProfileAssumption DEF TypeOK
        <4> QED
          BY <3>1, <2>2, <4>1 DEF TypeOK, GeoLearn, KnownDevices
      <3>2. CASE ~GeoLearn(e)
        BY <1>5, <3>2 DEF TypeOK, GeoTravel, GeoFallback, GeoDevices, GeoAbstains, geo
      <3> QED
        BY <3>1, <3>2
    <2>4. \E r \in Evaluation :
             /\ ev' = [ev EXCEPT ![e] = r]
             /\ r = Idle \/ (r.ts = ev[e].ts /\ r.txn = ev[e].txn /\ r.device = ev[e].device)
      <3>1. CASE GeoTravel(e)
        <4> DEFINE hit  == [ev[e] EXCEPT !.pc = "devices", !.prev = last]
                   miss == [ev[e] EXCEPT !.pc = "fallback"]
        <4>1. hit \in Evaluation /\ hit.ts = ev[e].ts /\ hit.txn = ev[e].txn
              /\ hit.device = ev[e].device
          BY <2>1, <2>2 DEF Evaluation
        <4>2. miss \in Evaluation /\ miss.ts = ev[e].ts /\ miss.txn = ev[e].txn
              /\ miss.device = ev[e].device
          BY <2>1 DEF Evaluation
        <4>3. ev' = [ev EXCEPT ![e] = hit] \/ ev' = [ev EXCEPT ![e] = miss]
          BY <3>1 DEF GeoTravel, TypeOK
        <4> QED
          BY <4>1, <4>2, <4>3
      <3>2. CASE GeoFallback(e)
        <4>1. PICK p : /\ p = Seed \/ \E t \in Txns : p = Location(t, Home, stored[t] + Skew)
                       /\ ev' = [ev EXCEPT ![e].pc = "devices", ![e].prev = p]
          BY <3>2 DEF GeoFallback, Latest, OnFile
        <4>2. p \in Place
          BY <4>1, IdleType, ProfileAssumption DEF Location, TypeOK
        <4> DEFINE found == [ev[e] EXCEPT !.pc = "devices", !.prev = p]
        <4>3. found \in Evaluation /\ found.ts = ev[e].ts /\ found.txn = ev[e].txn
              /\ found.device = ev[e].device
          BY <2>1, <4>2 DEF Evaluation
        <4>4. ev' = [ev EXCEPT ![e] = found]
          BY <4>1 DEF TypeOK
        <4> QED
          BY <4>3, <4>4
      <3>3. CASE GeoDevices(e)
        <4>1. PICK n \in {"known", "first", "unknown"} :
                 ev' = [ev EXCEPT ![e].pc = "learn", ![e].novelty = n]
          BY <3>3 DEF GeoDevices
        <4> DEFINE judged == [ev[e] EXCEPT !.pc = "learn", !.novelty = n]
        <4>2. judged \in Evaluation /\ judged.ts = ev[e].ts /\ judged.txn = ev[e].txn
              /\ judged.device = ev[e].device
          BY <2>1 DEF Evaluation
        <4>3. ev' = [ev EXCEPT ![e] = judged]
          BY <4>1 DEF TypeOK
        <4> QED
          BY <4>2, <4>3
      <3>4. CASE GeoLearn(e)
        <4> DEFINE next == [ev[e] EXCEPT !.pc = "save"]
        <4>1. next \in Evaluation /\ next.ts = ev[e].ts /\ next.txn = ev[e].txn
              /\ next.device = ev[e].device
          BY <2>1 DEF Evaluation
        <4>2. ev' = [ev EXCEPT ![e] = next]
          BY <3>4 DEF GeoLearn, TypeOK
        <4> QED
          BY <4>1, <4>2
      <3>5. CASE GeoAbstains(e)
        BY <3>5, IdleType DEF GeoAbstains
      <3> QED
        BY <1>5, <3>1, <3>2, <3>3, <3>4, <3>5
    <2> HIDE DEF Place
    <2>5. last' \in Place /\ lastDies' \in Int
      BY <2>1, <2>2
    <2> QED
      BY <2>1, <2>3, <2>4, <2>5, OneGeoStepType DEF Place
  <1>6. ASSUME NEW e \in Evaluators, GeoSave(e) PROVE TypeOK'
    <2>1. ev[e] \in Evaluation /\ ev[e].pc = "save" /\ ev[e].txn \in Txns /\ clock \in Nat
      BY <1>6 DEF GeoSave, TypeOK
    <2>2. last' \in [txn : Txns \cup {NoTxn}, place : Places, ts : Int]
      BY <1>6, <2>1 DEF GeoSave, Location, Evaluation
    <2>3. lastDies' \in Int /\ known' \subseteq Devices /\ knownDies' \in Int
          /\ learned' \in [Devices -> Int]
      BY <1>6, <2>1, ProfileAssumption DEF GeoSave, TypeOK
    <2>4. ASSUME NEW f \in Evaluators
          PROVE  /\ ev'[f] \in Evaluation
                 /\ ev'[f] = Idle \/ (/\ ev'[f].ts = ev[f].ts /\ ev'[f].txn = ev[f].txn
                                     /\ ev'[f].device = ev[f].device /\ ev'[f].pc = ev[f].pc)
      <3>1. ev'[f] = IF f = e THEN Idle
                     ELSE IF ev[f].pc \in Compared THEN [ev[f] EXCEPT !.alone = FALSE] ELSE ev[f]
        BY <1>6 DEF GeoSave
      <3>2. ev[f] \in Evaluation
        BY DEF TypeOK
      <3> DEFINE past == [ev[f] EXCEPT !.alone = FALSE]
      <3>3. past \in Evaluation /\ past.ts = ev[f].ts /\ past.txn = ev[f].txn
            /\ past.device = ev[f].device /\ past.pc = ev[f].pc
        BY <3>2 DEF Evaluation
      <3> HIDE DEF past
      <3>4. ev'[f] \in {Idle, past, ev[f]}
        BY <3>1 DEF past
      <3> QED
        BY <3>2, <3>3, <3>4, IdleType
    <2>5. ev' \in [Evaluators -> Evaluation]
      BY <1>6, <2>4 DEF GeoSave
    <2>6. UNCHANGED <<clock, route, stored, evals, begun, window>>
      BY <1>6 DEF GeoSave
    <2> QED
      BY <2>2, <2>3, <2>4, <2>5, <2>6, GeoStepType
  <1> QED
    BY <1>1, <1>2, <1>3, <1>4, <1>5, <1>6, StartType, RecordType DEF Next

\* Every reachable state of the profile is typed, no recorded timestamp is ahead of
\* the clock, and the geo agent runs for events with a device only.
THEOREM TypeCorrect == Spec => []TypeOK
  BY TypeInit, TypeStep, PTL DEF Spec

\* Why a burst is seen.  A recorded transaction that a window no longer holds is
\* older than the window of the newest one, or so old that the key could expire; the
\* key outlives each of its members and the count it was renewed for.
Kept ==
    \A w \in Windows : \A t \in recorded :
        t \in members[w] \/ score[t] + w < top \/ score[t] + w + Slack < clock
Outlived ==
    \A w \in Windows : \A t \in members[w] : score[t] + w + Slack <= dies[w]
Renewed ==
    \A e \in Evaluators : ev[e].pc = "count" =>
        \A w \in Windows : ev[e].ts + w + Slack <= dies[w]
WindowInv == TypeOK /\ Kept /\ Outlived /\ Renewed

LEMMA WindowInvSuffices == WindowInv => BurstSeen
  <1> SUFFICES ASSUME WindowInv, NEW e \in Evaluators, ev[e].pc = "count", ev[e].ts >= top,
                      clock <= ev[e].ts + Slack, NEW w \in Windows,
                      NEW t \in recorded, score[t] >= ev[e].ts - w
               PROVE  t \in Counted(w)
    BY DEF BurstSeen
  <1>1. /\ clock \in Nat /\ top \in Nat /\ score[t] \in Nat /\ dies[w] \in Int
        /\ w \in Nat /\ Slack \in Nat
    BY ProfileAssumption DEF WindowInv, TypeOK
  <1>2. ev[e].ts \in Nat
    BY DEF WindowInv, TypeOK, Evaluation
  <1>3. t \in members[w] \/ score[t] + w < top \/ score[t] + w + Slack < clock
    BY DEF WindowInv, Kept
  <1>4. ev[e].ts + w + Slack <= dies[w]
    BY DEF WindowInv, Renewed
  <1>5. clock <= dies[w]
    BY <1>1, <1>2, <1>4
  <1>6. ~(score[t] + w < top) /\ ~(score[t] + w + Slack < clock)
    BY <1>1, <1>2
  <1> QED
    BY <1>3, <1>5, <1>6 DEF Counted, Live

LEMMA RecordKeeps ==
    ASSUME WindowInv, NEW e \in Evaluators, VelocityRecord(e)
    PROVE  Kept' /\ Outlived' /\ Renewed'
  <1> DEFINE t == ev[e].txn
             ts == ev[e].ts
  <1>1. /\ t \in Txns /\ ts \in Nat /\ ts <= clock /\ clock \in Nat /\ Slack \in Nat
        /\ top \in Nat /\ ev[e] \in Evaluation
    BY ProfileAssumption DEF WindowInv, TypeOK, VelocityRecord, Evaluation
  <1>2. ASSUME NEW w \in Windows PROVE w \in Nat /\ dies[w] \in Int /\ dies'[w] = clock + w + Slack
    BY ProfileAssumption DEF WindowInv, TypeOK, VelocityRecord
  <1>3. ASSUME NEW x \in Txns PROVE score[x] \in Nat /\ score'[x] = IF x = t THEN ts ELSE score[x]
    BY <1>1 DEF WindowInv, TypeOK, VelocityRecord
  <1>4. ASSUME NEW w \in Windows
        PROVE  members'[w] = {x \in Counted(w) \cup {t} : score'[x] >= ts - w}
    BY DEF VelocityRecord, Trim
  <1>5. top' \in Nat /\ top <= top' /\ ts <= top' /\ clock' = clock /\ recorded' = recorded \cup {t}
    BY <1>1 DEF VelocityRecord
  <1>6. recorded \subseteq Txns /\ \A w \in Windows : members[w] \subseteq Txns
    BY DEF WindowInv, TypeOK
  <1> HIDE DEF t, ts
  <1>7. Kept'
    <2> SUFFICES ASSUME NEW w \in Windows, NEW x \in recorded'
                 PROVE  \/ x \in members'[w] \/ score'[x] + w < top'
                        \/ score'[x] + w + Slack < clock
      BY <1>5 DEF Kept
    <2>1. CASE x = t
      BY <1>1, <1>2, <1>3, <1>4, <2>1
    <2>2. CASE x # t
      <3>1. x \in recorded /\ x \in Txns /\ score'[x] = score[x] /\ score[x] \in Nat
        BY <1>3, <1>5, <1>6, <2>2
      <3>2. x \in members[w] \/ score[x] + w < top \/ score[x] + w + Slack < clock
        BY <3>1 DEF WindowInv, Kept
      <3>3. CASE x \in members[w] /\ clock <= dies[w]
        <4>1. x \in Counted(w)
          BY <3>3 DEF Counted, Live
        <4> QED
          BY <1>1, <1>2, <1>4, <1>5, <3>1, <4>1
      <3>4. CASE x \in members[w] /\ ~(clock <= dies[w])
        <4>1. score[x] + w + Slack <= dies[w]
          BY <3>4 DEF WindowInv, Outlived
        <4> QED
          BY <1>1, <1>2, <3>1, <3>4, <4>1
      <3>5. CASE x \notin members[w]
        BY <1>1, <1>2, <1>5, <3>1, <3>2, <3>5
      <3> QED
        BY <3>3, <3>4, <3>5
    <2> QED
      BY <2>1, <2>2
  <1>8. Outlived'
    <2> SUFFICES ASSUME NEW w \in Windows, NEW x \in members'[w]
                 PROVE  score'[x] + w + Slack <= dies'[w]
      BY DEF Outlived
    <2>1. x \in Txns
      BY <1>1, <1>4, <1>6 DEF Counted
    <2>2. score'[x] \in Nat /\ score'[x] <= clock
      BY <1>1, <1>3, <2>1 DEF WindowInv, TypeOK
    <2> QED
      BY <1>1, <1>2, <2>2
  <1>9. Renewed'
    <2> SUFFICES ASSUME NEW f \in Evaluators, NEW w \in Windows
                 PROVE  ev'[f].ts + w + Slack <= dies'[w]
      BY DEF Renewed
    <2>1. ev'[f].ts = ev[f].ts
      BY <1>1 DEF VelocityRecord, WindowInv, TypeOK, Evaluation
    <2>2. ev[f].ts \in Nat /\ ev[f].ts <= clock
      BY DEF WindowInv, TypeOK, Evaluation
    <2> QED
      BY <1>1, <1>2, <2>1, <2>2
  <1> QED
    BY <1>7, <1>8, <1>9

\* Steps that leave the windows alone and bring nobody to the count.
LEMMA OthersKeep ==
    ASSUME WindowInv, window' = window, clock' \in Nat, clock <= clock',
           \A f \in Evaluators : ev'[f].pc = "count" => ev[f].pc = "count" /\ ev'[f].ts = ev[f].ts
    PROVE  Kept' /\ Outlived' /\ Renewed'
  <1>1. clock \in Nat /\ Slack \in Nat /\ recorded \subseteq Txns
    BY ProfileAssumption DEF WindowInv, TypeOK
  <1>2. members' = members /\ dies' = dies /\ score' = score /\ recorded' = recorded /\ top' = top
    BY DEF window
  <1>3. Kept'
    <2> SUFFICES ASSUME NEW w \in Windows, NEW x \in recorded
                 PROVE  x \in members[w] \/ score[x] + w < top \/ score[x] + w + Slack < clock'
      BY <1>2 DEF Kept
    <2>1. w \in Nat /\ score[x] \in Nat /\ top \in Nat
      BY <1>1, ProfileAssumption DEF WindowInv, TypeOK
    <2>2. x \in members[w] \/ score[x] + w < top \/ score[x] + w + Slack < clock
      BY DEF WindowInv, Kept
    <2> QED
      BY <1>1, <2>1, <2>2
  <1>4. Outlived'
    BY <1>2 DEF Outlived, WindowInv
  <1>5. Renewed'
    BY <1>2 DEF Renewed, WindowInv
  <1> QED
    BY <1>3, <1>4, <1>5

LEMMA CountStep ==
    ASSUME TypeOK, [Next]_vars, ~\E e \in Evaluators : VelocityRecord(e), NEW f \in Evaluators
    PROVE  ev'[f].pc = "count" => ev[f].pc = "count" /\ ev'[f].ts = ev[f].ts
  <1>1. CASE ev' = ev
    BY <1>1
  <1>2. ASSUME NEW e \in Evaluators, NEW t \in Txns, NEW ts, NEW p, NEW d, Start(e, t, ts, p, d)
        PROVE  ev'[f].pc # "count" \/ ev'[f] = ev[f]
    BY <1>2 DEF Start, First, Idle, TypeOK
  <1>3. ASSUME NEW e \in Evaluators, VelocityCount(e) \/ VelocityAbstains(e)
        PROVE  ev'[f].pc # "count" \/ ev'[f] = ev[f]
    BY <1>3, ToGeoType DEF VelocityCount, VelocityAbstains
  <1>4. ASSUME NEW e \in Evaluators,
               GeoTravel(e) \/ GeoFallback(e) \/ GeoDevices(e) \/ GeoLearn(e) \/ GeoAbstains(e)
        PROVE  ev'[f].pc # "count" \/ ev'[f] = ev[f]
    <2>1. f # e => ev'[f] = ev[f]
      BY <1>4 DEF GeoTravel, GeoFallback, GeoDevices, GeoLearn, GeoAbstains, TypeOK
    <2>2. ev[e] \in Evaluation
      BY DEF TypeOK
    <2>3. ev'[e].pc # "count"
      BY <1>4, <2>2 DEF GeoTravel, GeoFallback, GeoDevices, GeoLearn, GeoAbstains, TypeOK, Idle,
                        Evaluation
    <2> QED
      BY <2>1, <2>3
  <1>5. ASSUME NEW e \in Evaluators, GeoSave(e)
        PROVE  ev'[f].pc # "count" \/ ev'[f] = ev[f]
    BY <1>5 DEF GeoSave, Compared, Idle, TypeOK, Evaluation
  <1>6. CASE Tick \/ \E t \in Txns : Submit(t)
    BY <1>6 DEF Tick, Submit
  <1> QED
    BY <1>1, <1>2, <1>3, <1>4, <1>5, <1>6 DEF Next, vars

\* txn_count_signal counts a whole burst: every transaction recorded within its
\* windows of the newest one, over all interleavings, repeats, failures and expiries.
THEOREM BurstsSeen == Spec => []BurstSeen
  <1>1. Init => WindowInv
    <2>1. Init => TypeOK
      BY TypeInit
    <2>2. Init => Kept /\ Outlived /\ Renewed
      BY DEF Init, Kept, Outlived, Renewed, Idle
    <2> QED
      BY <2>1, <2>2 DEF WindowInv
  <1>2. WindowInv /\ [Next]_vars => WindowInv'
    <2> SUFFICES ASSUME WindowInv, [Next]_vars PROVE WindowInv'
      OBVIOUS
    <2>1. TypeOK /\ TypeOK' /\ clock \in Nat
      BY TypeStep DEF WindowInv, TypeOK
    <2>2. CASE \E e \in Evaluators : VelocityRecord(e)
      BY <2>1, <2>2, RecordKeeps DEF WindowInv
    <2>3. CASE ~\E e \in Evaluators : VelocityRecord(e)
      <3>1. window' = window
        BY <2>3, ZenonT(40) DEF Next, vars, Tick, Submit, Start, VelocityCount, VelocityAbstains, GeoTravel,
                    GeoFallback, GeoDevices, GeoLearn, GeoSave, GeoAbstains
      <3>2. clock' \in Nat /\ clock <= clock'
        <4>1. Tick \/ clock' = clock
          BY <2>3, ZenonT(40) DEF Next, vars, Submit, Start, VelocityCount, VelocityAbstains, GeoTravel,
                    GeoFallback, GeoDevices, GeoLearn, GeoSave, GeoAbstains
        <4>2. Tick => clock' = clock + 1
          BY DEF Tick
        <4> QED
          BY <2>1, <4>1, <4>2
      <3>3. \A f \in Evaluators : ev'[f].pc = "count" => ev[f].pc = "count" /\ ev'[f].ts = ev[f].ts
        BY <2>1, <2>3, CountStep
      <3> QED
        BY <2>1, <3>1, <3>2, <3>3, OthersKeep DEF WindowInv
    <2> QED
      BY <2>2, <2>3
  <1> QED
    BY <1>1, <1>2, WindowInvSuffices, PTL DEF Spec

-----------------------------------------------------------------------------
(* The windows count nothing else. *)

\* Only a recording moves the windows.
LEMMA OtherSteps ==
    ASSUME TypeOK, [Next]_vars, ~\E e \in Evaluators : VelocityRecord(e)
    PROVE  window' = window /\ clock' \in Nat /\ clock <= clock'
  <1>1. window' = window
    BY ZenonT(40) DEF Next, vars, Tick, Submit, Start, VelocityCount, VelocityAbstains, GeoTravel,
           GeoFallback, GeoDevices, GeoLearn, GeoSave, GeoAbstains
  <1>2. Tick \/ clock' = clock
    BY ZenonT(40) DEF Next, vars, Submit, Start, VelocityCount, VelocityAbstains, GeoTravel,
           GeoFallback, GeoDevices, GeoLearn, GeoSave, GeoAbstains
  <1>3. clock \in Nat /\ (Tick => clock' = clock + 1)
    BY DEF Tick, TypeOK
  <1> QED
    BY <1>1, <1>2, <1>3

\* Whoever counts has recorded, so nothing he recorded is ahead of the newest.
Behind == \A e \in Evaluators : ev[e].pc = "count" => ev[e].ts <= top
GhostInv == TypeOK /\ Behind /\ NoGhosts

LEMMA RecordGhosts ==
    ASSUME GhostInv, NEW e \in Evaluators, VelocityRecord(e)
    PROVE  Behind' /\ NoGhosts'
  <1> DEFINE t == ev[e].txn
             ts == ev[e].ts
  <1>1. /\ t \in Txns /\ ts \in Nat /\ clock \in Nat /\ Slack \in Nat
        /\ top \in Nat /\ ev[e] \in Evaluation
    BY ProfileAssumption DEF GhostInv, TypeOK, VelocityRecord, Evaluation
  <1>2. ASSUME NEW f \in Evaluators
        PROVE  /\ ev'[f].ts = ev[f].ts /\ ev[f].ts \in Nat
               /\ f # e => ev'[f] = ev[f]
    BY <1>1 DEF VelocityRecord, GhostInv, TypeOK, Evaluation
  <1>3. ASSUME NEW x \in Txns PROVE score[x] \in Nat /\ score'[x] = IF x = t THEN ts ELSE score[x]
    BY <1>1 DEF GhostInv, TypeOK, VelocityRecord
  <1>4. ASSUME NEW w \in Windows
        PROVE  /\ members'[w] = {x \in Counted(w) \cup {t} : score'[x] >= ts - w}
               /\ Counted(w) \subseteq Txns /\ w \in Nat
    BY ProfileAssumption DEF VelocityRecord, Trim, Counted, GhostInv, TypeOK
  <1>5. /\ top' \in Nat /\ top <= top' /\ ts <= top'
        /\ late' = IF ts < top THEN late \cup {t} ELSE late \ {t}
    BY <1>1 DEF VelocityRecord
  <1>6. \A f \in Evaluators : f # e /\ ev'[f].pc = "count" => ev[f].pc = "count" /\ ev[f].ts <= top
    BY <1>2 DEF GhostInv, Behind
  <1> HIDE DEF t, ts
  <1>7. Behind'
    BY <1>1, <1>2, <1>5, <1>6 DEF Behind, t, ts
  <1>8. NoGhosts'
    <2> SUFFICES ASSUME NEW f \in Evaluators, ev'[f].pc = "count", NEW w \in Windows,
                        NEW x \in Counted(w)', score'[x] < ev[f].ts - w
                 PROVE  x \in late'
      BY <1>2 DEF NoGhosts
    <2>1. x \in members'[w] /\ x \in Txns /\ score'[x] >= ts - w
      BY <1>1, <1>4 DEF Counted
    <2>2. f # e
      BY <1>1, <1>2, <1>3, <1>4, <2>1 DEF ts
    <2>3. ev[f].pc = "count" /\ ev[f].ts <= top /\ ev[f].ts \in Nat
      BY <1>2, <1>6, <2>2
    <2>4. CASE x = t
      BY <1>1, <1>3, <1>4, <1>5, <2>1, <2>3, <2>4
    <2>5. CASE x # t
      <3>1. x \in Counted(w) /\ score'[x] = score[x]
        BY <1>3, <1>4, <2>1, <2>5
      <3>2. x \in late
        BY <2>3, <3>1 DEF GhostInv, NoGhosts
      <3> QED
        BY <1>5, <2>5, <3>2
    <2> QED
      BY <2>4, <2>5
  <1> QED
    BY <1>7, <1>8

\* What txn_count_signal counts from before its window was recorded after something
\* newer, over all interleavings, repeats, failures and expiries: an account that was
\* idle starts from nothing.
THEOREM GhostsAreLate == Spec => []NoGhosts
  <1>1. Init => GhostInv
    <2>1. Init => TypeOK
      BY TypeInit
    <2>2. Init => Behind /\ NoGhosts
      BY DEF Init, Behind, NoGhosts, Idle
    <2> QED
      BY <2>1, <2>2 DEF GhostInv
  <1>2. GhostInv /\ [Next]_vars => GhostInv'
    <2> SUFFICES ASSUME GhostInv, [Next]_vars PROVE GhostInv'
      OBVIOUS
    <2>1. TypeOK /\ TypeOK' /\ clock \in Nat
      BY TypeStep DEF GhostInv, TypeOK
    <2>2. CASE \E e \in Evaluators : VelocityRecord(e)
      BY <2>1, <2>2, RecordGhosts DEF GhostInv
    <2>3. CASE ~\E e \in Evaluators : VelocityRecord(e)
      <3>1. \A f \in Evaluators : ev'[f].pc = "count" => ev[f].pc = "count" /\ ev'[f].ts = ev[f].ts
        BY <2>1, <2>3, CountStep
      <3>2. window' = window /\ clock' \in Nat /\ clock <= clock'
        BY <2>1, <2>3, OtherSteps
      <3>3. members' = members /\ dies' = dies /\ score' = score /\ late' = late /\ top' = top
        BY <3>2 DEF window
      <3>4. ASSUME NEW w \in Windows PROVE Counted(w)' \subseteq Counted(w)
        <4>1. dies[w] \in Int
          BY <2>1 DEF TypeOK
        <4> QED
          BY <2>1, <3>2, <3>3, <4>1 DEF Counted, Live
      <3>5. Behind'
        BY <3>1, <3>3 DEF GhostInv, Behind
      <3>6. NoGhosts'
        BY <3>1, <3>3, <3>4 DEF GhostInv, NoGhosts
      <3> QED
        BY <2>1, <3>5, <3>6 DEF GhostInv
    <2> QED
      BY <2>2, <2>3
  <1> QED
    BY <1>1, <1>2, PTL DEF Spec, GhostInv

-----------------------------------------------------------------------------
(* The geo agents.  An evaluation goes on by a step of its own, except that *)
(* another one's save tells those that have read the location before it.   *)

Begins(f) ==
    \E t \in Txns, ts \in {x \in 0..clock : clock - x <= MaxLate},
       p \in Places, d \in Devices \cup {NoDevice} : Start(f, t, ts, p, d)

LEMMA WhoMoves ==
    ASSUME TypeOK, [Next]_vars, NEW f \in Evaluators, ev'[f] # ev[f]
    PROVE  \/ Begins(f) \/ VelocityRecord(f) \/ VelocityCount(f) \/ VelocityAbstains(f)
           \/ GeoTravel(f) \/ GeoFallback(f) \/ GeoDevices(f) \/ GeoLearn(f) \/ GeoSave(f)
           \/ GeoAbstains(f)
           \/ \E e \in Evaluators \ {f} : GeoSave(e)
  <1>1. CASE ev' = ev
    BY <1>1
  <1>2. CASE Tick \/ \E t \in Txns : Submit(t)
    BY <1>2 DEF Tick, Submit
  <1>3. ASSUME NEW e \in Evaluators, e # f,
               \/ Begins(e) \/ VelocityRecord(e) \/ VelocityCount(e) \/ VelocityAbstains(e)
               \/ GeoTravel(e) \/ GeoFallback(e) \/ GeoDevices(e) \/ GeoLearn(e)
               \/ GeoAbstains(e)
        PROVE  ev'[f] = ev[f]
    BY <1>3 DEF Begins, Start, VelocityRecord, VelocityCount, VelocityAbstains, ToGeo, GeoTravel,
                GeoFallback, GeoDevices, GeoLearn, GeoAbstains, TypeOK
  <1> QED
    BY <1>1, <1>2, <1>3 DEF Next, vars, Begins

\* What another one's save does to an evaluation.
LEMMA SavedBy ==
    ASSUME TypeOK, NEW e \in Evaluators, NEW f \in Evaluators, GeoSave(e)
    PROVE  /\ ev'[e].pc = "idle"
           /\ f # e => /\ ev'[f].pc = ev[f].pc /\ ev'[f].txn = ev[f].txn
                       /\ ev'[f].ts = ev[f].ts /\ ev'[f].place = ev[f].place
                       /\ ev'[f].prev = ev[f].prev
                       /\ ev'[f].pc \in Compared => ~ev'[f].alone
  <1>1. ev[f] \in Evaluation /\ Idle.pc = "idle"
    BY DEF TypeOK, Idle
  <1> QED
    BY <1>1 DEF GeoSave, Evaluation

\* An evaluation in hand keeps its transaction, one that is begun is idle before.
LEMMA GoesOn ==
    ASSUME TypeOK, [Next]_vars, NEW f \in Evaluators, ~Begins(f), ev'[f].pc # "idle"
    PROVE  ev[f].pc # "idle" /\ ev'[f].txn = ev[f].txn
  <1>1. ev[f] \in Evaluation /\ Idle.pc = "idle"
    BY DEF TypeOK, Idle
  <1>2. CASE ev'[f] = ev[f]
    BY <1>2
  <1>3. CASE VelocityRecord(f)
    BY <1>1, <1>3 DEF VelocityRecord, TypeOK, Evaluation
  <1>4. CASE VelocityCount(f) \/ VelocityAbstains(f)
    <2>1. ev[f].pc # "idle" /\ ToGeo(f)
      BY <1>4 DEF VelocityCount, VelocityAbstains
    <2>2. ev'[f] = IF ev[f].device = NoDevice THEN Idle
                   ELSE [ev[f] EXCEPT !.pc = "travel",
                                      !.ts = IF f \in Consumers THEN clock ELSE ev[f].ts]
      BY <2>1 DEF ToGeo, TypeOK
    <2> QED
      BY <1>1, <2>1, <2>2 DEF Evaluation
  <1>5. CASE GeoTravel(f) \/ GeoFallback(f) \/ GeoDevices(f) \/ GeoLearn(f)
    BY <1>1, <1>5 DEF GeoTravel, GeoFallback, GeoDevices, GeoLearn, TypeOK, Evaluation
  <1>6. ~GeoSave(f) /\ ~GeoAbstains(f)
    BY <1>1, SavedBy DEF GeoAbstains, TypeOK
  <1>7. ASSUME NEW e \in Evaluators \ {f}, GeoSave(e) PROVE ev[f].pc # "idle" /\ ev'[f].txn = ev[f].txn
    BY <1>7, SavedBy
  <1> QED
    BY <1>2, <1>3, <1>4, <1>5, <1>6, <1>7, WhoMoves

\* Why no evaluation meets its own location: whoever saved the last one was one more
\* evaluation of that transaction, and so is every other one in hand.
Evaluated == last.txn \in Txns => evals[last.txn] >= 1
Counts(e) ==
    /\ evals[ev[e].txn] >= 1
    /\ last.txn = ev[e].txn => evals[ev[e].txn] > 1
    /\ \A f \in Evaluators \ {e} :
           ev[f].pc # "idle" /\ ev[f].txn = ev[e].txn => evals[ev[e].txn] > 1
InHand == \A e \in Evaluators : ev[e].pc # "idle" => Counts(e)
TrackInv == TypeOK /\ Evaluated /\ InHand /\ NotOwnTrack

LEMMA EvalsStep ==
    ASSUME TrackInv, [Next]_vars
    PROVE  Evaluated' /\ InHand' /\ \A t \in Txns : evals'[t] >= evals[t]
  <1>1. /\ evals \in [Txns -> Nat] /\ last.txn \in Txns \cup {NoTxn}
        /\ \A e \in Evaluators : ev[e].pc # "idle" => ev[e].txn \in Txns
    BY DEF TrackInv, TypeOK
  <1>2. CASE \E e \in Evaluators : Begins(e)
    <2>1. PICK e \in Evaluators, t \in Txns, ts \in 0..clock, p \in Places,
               d \in Devices \cup {NoDevice} : Start(e, t, ts, p, d)
      BY <1>2 DEF Begins
    <2>2. /\ evals' = [evals EXCEPT ![t] = @ + 1] /\ last' = last
          /\ \A f \in Evaluators : f # e => ev'[f] = ev[f]
      BY <2>1 DEF Start, geo, TrackInv, TypeOK
    <2>3. ev'[e].txn = t
      BY <2>1 DEF Start, Idle, TrackInv, TypeOK
    <2>4. \A u \in Txns : evals'[u] >= evals[u] /\ (u = t => evals'[u] = evals[u] + 1)
      BY <1>1, <2>2
    <2>5. Evaluated'
      BY <1>1, <2>2, <2>4 DEF TrackInv, Evaluated
    <2>6. ASSUME NEW f \in Evaluators, ev'[f].pc # "idle" PROVE Counts(f)'
      <3>1. CASE f = e
        <4>1. last.txn = t => evals[t] >= 1
          BY DEF TrackInv, Evaluated
        <4>2. \A g \in Evaluators \ {f} : ev[g].pc # "idle" /\ ev[g].txn = t => evals[t] >= 1
          BY DEF TrackInv, InHand, Counts
        <4> QED
          BY <1>1, <2>2, <2>3, <2>4, <3>1, <4>1, <4>2 DEF Counts
      <3>2. CASE f # e
        <4>1. Counts(f) /\ ev'[f] = ev[f] /\ ev[f].txn \in Txns
          BY <1>1, <2>2, <2>6, <3>2 DEF TrackInv, InHand
        <4>2. evals[ev[f].txn] \in Nat /\ evals'[ev[f].txn] >= evals[ev[f].txn]
          BY <1>1, <2>4, <4>1
        <4>3. ev[f].txn = t => evals'[ev[f].txn] > 1
          BY <2>4, <4>1, <4>2 DEF Counts
        <4>4. evals'[ev[f].txn] \in Nat
          BY <1>1, <2>2, <4>1
        <4>5. ASSUME NEW g \in Evaluators \ {f}, ev'[g].pc # "idle", ev'[g].txn = ev[f].txn
              PROVE  evals'[ev[f].txn] > 1
          BY <2>2, <2>3, <4>1, <4>2, <4>3, <4>4, <4>5 DEF Counts
        <4>6. last.txn = ev[f].txn => evals'[ev[f].txn] > 1
          BY <4>1, <4>2, <4>4 DEF Counts
        <4>7. evals'[ev[f].txn] >= 1
          BY <4>1, <4>2, <4>4 DEF Counts
        <4> QED
          BY <2>2, <4>1, <4>5, <4>6, <4>7 DEF Counts
      <3> QED
        BY <3>1, <3>2
    <2> QED
      BY <2>4, <2>5, <2>6 DEF InHand
  <1>3. CASE ~\E e \in Evaluators : Begins(e)
    <2>1. evals' = evals
      BY <1>3 DEF Next, vars, Begins, Tick, Submit, VelocityRecord, VelocityCount,
                  VelocityAbstains, GeoTravel, GeoFallback, GeoDevices, GeoLearn, GeoSave,
                  GeoAbstains
    <2>2. \A f \in Evaluators : ev'[f].pc # "idle" => ev[f].pc # "idle" /\ ev'[f].txn = ev[f].txn
      BY <1>3, GoesOn DEF TrackInv
    <2>3. CASE \E e \in Evaluators : GeoSave(e)
      <3>1. PICK e \in Evaluators : GeoSave(e)
        BY <2>3
      <3>2. last'.txn = ev[e].txn /\ ev[e].pc # "idle" /\ ev'[e].pc = "idle"
        BY <3>1, SavedBy DEF GeoSave, Location, TrackInv
      <3>3. Counts(e)
        BY <3>2 DEF TrackInv, InHand
      <3>4. ASSUME NEW f \in Evaluators, ev'[f].pc # "idle" PROVE Counts(f)'
        <4>1. Counts(f) /\ f # e /\ ev[f].pc # "idle" /\ ev'[f].txn = ev[f].txn
          BY <2>2, <3>2, <3>4 DEF TrackInv, InHand
        <4>2. ev[f].txn = ev[e].txn => evals[ev[f].txn] > 1
          BY <3>2, <4>1 DEF Counts
        <4> QED
          BY <2>1, <2>2, <3>2, <4>1, <4>2 DEF Counts
      <3>5. Evaluated'
        BY <2>1, <3>2, <3>3 DEF Evaluated, Counts
      <3> QED
        BY <2>1, <1>1, <3>4, <3>5 DEF InHand
    <2>4. CASE ~\E e \in Evaluators : GeoSave(e)
      <3>1. last' = last
        BY <1>3, <2>4 DEF Next, vars, geo, Begins, Tick, Submit, VelocityRecord, VelocityCount,
                    VelocityAbstains, GeoTravel, GeoFallback, GeoDevices, GeoLearn, GeoAbstains
      <3> QED
        BY <1>1, <2>1, <2>2, <3>1 DEF TrackInv, Evaluated, InHand, Counts
    <2> QED
      BY <2>3, <2>4
  <1> QED
    BY <1>2, <1>3

\* The step that takes a location to compare with, the HASH or a row, and the steps
\* that carry it on.
LEMMA PrevFrom ==
    ASSUME TypeOK, [Next]_vars, NEW f \in Evaluators, ev'[f].pc \in {"devices", "learn", "save"}
    PROVE  /\ ev'[f].txn = ev[f].txn /\ ev'[f].ts = ev[f].ts
           /\ ev'[f].alone => ev[f].alone
           /\ \/ /\ ev[f].pc \in {"devices", "learn", "save"} /\ ev'[f].prev = ev[f].prev
              \/ /\ GeoTravel(f) /\ clock <= lastDies /\ ev'[f].prev = last
              \/ /\ GeoFallback(f)
                 /\ \/ ev'[f].prev = Seed
                    \/ \E t \in OnFile(ev[f].ts) : ev'[f].prev = Location(t, Home, stored[t] + Skew)
  <1>1. ev[f] \in Evaluation /\ Idle.pc = "idle"
    BY DEF TypeOK, Idle
  <1>2. CASE ev'[f] = ev[f]
    BY <1>2
  <1>3. ~Begins(f)
    <2>1. ASSUME NEW t, NEW ts, NEW p, NEW d, Start(f, t, ts, p, d)
          PROVE  ev'[f].pc = First
      BY <2>1 DEF Start, Idle, TypeOK
    <2> QED
      BY <2>1 DEF Begins, First
  <1>4. ~VelocityRecord(f)
    <2>1. VelocityRecord(f) => ev'[f] = [ev[f] EXCEPT !.pc = "count"]
      BY DEF VelocityRecord, TypeOK
    <2> QED
      BY <1>1, <2>1 DEF Evaluation
  <1>5. ~VelocityCount(f) /\ ~VelocityAbstains(f)
    <2>1. ToGeo(f) => ev'[f] = IF ev[f].device = NoDevice THEN Idle
                               ELSE [ev[f] EXCEPT !.pc = "travel",
                                        !.ts = IF f \in Consumers THEN clock ELSE ev[f].ts]
      BY DEF ToGeo, TypeOK
    <2>2. ~ToGeo(f)
      BY <1>1, <2>1 DEF Evaluation
    <2> QED
      BY <2>2 DEF VelocityCount, VelocityAbstains
  <1>6. CASE GeoTravel(f)
    <2>1. \/ clock <= lastDies /\ ev'[f] = [ev[f] EXCEPT !.pc = "devices", !.prev = last]
          \/ ev'[f] = [ev[f] EXCEPT !.pc = "fallback"]
      BY <1>6 DEF GeoTravel, TypeOK
    <2> QED
      BY <1>1, <1>6, <2>1 DEF Evaluation
  <1>7. CASE GeoFallback(f)
    <2>1. PICK p \in {Location(t, Home, stored[t] + Skew) : t \in Latest(OnFile(ev[f].ts))}
                      \cup (IF OnFile(ev[f].ts) = {} THEN {Seed} ELSE {}) :
              ev' = [ev EXCEPT ![f].pc = "devices", ![f].prev = p]
      BY <1>7 DEF GeoFallback
    <2>2. ev'[f] = [ev[f] EXCEPT !.pc = "devices", !.prev = p]
      BY <2>1 DEF TypeOK
    <2>3. p = Seed \/ \E t \in OnFile(ev[f].ts) : p = Location(t, Home, stored[t] + Skew)
      BY <2>1 DEF Latest
    <2> QED
      BY <1>1, <1>7, <2>2, <2>3 DEF Evaluation
  <1>8. CASE GeoDevices(f) \/ GeoLearn(f)
    BY <1>1, <1>8 DEF GeoDevices, GeoLearn, TypeOK, Evaluation
  <1>9. ~GeoSave(f) /\ ~GeoAbstains(f)
    BY <1>1, SavedBy DEF GeoAbstains, TypeOK
  <1>10. ASSUME NEW e \in Evaluators \ {f}, GeoSave(e)
         PROVE  /\ ev'[f].txn = ev[f].txn /\ ev'[f].ts = ev[f].ts /\ ~ev'[f].alone
                /\ ev[f].pc \in {"devices", "learn", "save"} /\ ev'[f].prev = ev[f].prev
    BY <1>10, SavedBy DEF Compared
  <1> QED
    BY <1>2, <1>3, <1>4, <1>5, <1>6, <1>7, <1>8, <1>9, <1>10, WhoMoves

LEMMA TrackStep == TrackInv /\ [Next]_vars => TrackInv'
  <1> SUFFICES ASSUME TrackInv, [Next]_vars PROVE TrackInv'
    OBVIOUS
  <1>1. /\ TypeOK /\ evals \in [Txns -> Nat] /\ NoTxn \notin Txns
        /\ \A e \in Evaluators : ev[e].pc # "idle" => ev[e].txn \in Txns
    BY ProfileAssumption DEF TrackInv, TypeOK
  <1>2. /\ Evaluated' /\ InHand'
        /\ \A t \in Txns : evals'[t] \in Nat /\ evals[t] \in Nat /\ evals'[t] >= evals[t]
    BY <1>1, EvalsStep, TypeStep DEF TypeOK
  <1>3. ASSUME NEW t \in Txns, evals[t] >= 1 PROVE stored'[t] = stored[t]
    <2>1. stored' = stored \/ \E u \in Txns : Submit(u)
      BY ZenonT(40) DEF Next, vars, Begins, Start, Tick, VelocityRecord, VelocityCount, VelocityAbstains,
             GeoTravel, GeoFallback, GeoDevices, GeoLearn, GeoSave, GeoAbstains
    <2>2. ASSUME NEW u \in Txns, Submit(u) PROVE stored'[t] = stored[t]
      BY <1>1, <1>3, <2>2 DEF Submit, TypeOK
    <2> QED
      BY <2>1, <2>2
  <1>4. ASSUME NEW e \in Evaluators, ev'[e].pc \in {"devices", "learn", "save"},
               ev'[e].prev.txn = ev'[e].txn
        PROVE  \/ evals'[ev'[e].txn] > 1
               \/ stored'[ev'[e].txn] # -1 /\ stored'[ev'[e].txn] + Skew < ev'[e].ts
    <2>1. /\ ev'[e].txn = ev[e].txn /\ ev'[e].ts = ev[e].ts
          /\ \/ /\ ev[e].pc \in {"devices", "learn", "save"} /\ ev'[e].prev = ev[e].prev
             \/ /\ GeoTravel(e) /\ ev'[e].prev = last
             \/ /\ GeoFallback(e)
                /\ \/ ev'[e].prev = Seed
                   \/ \E t \in OnFile(ev[e].ts) : ev'[e].prev = Location(t, Home, stored[t] + Skew)
      BY <1>1, <1>4, PrevFrom
    <2>2. ev[e].pc # "idle"
      BY <2>1 DEF GeoTravel, GeoFallback
    <2>3. ev[e].txn \in Txns /\ Counts(e)
      BY <1>1, <2>2 DEF TrackInv, InHand
    <2>4. stored'[ev[e].txn] = stored[ev[e].txn] /\ evals'[ev[e].txn] >= evals[ev[e].txn]
          /\ evals'[ev[e].txn] \in Nat /\ evals[ev[e].txn] \in Nat
      BY <1>2, <1>3, <2>3 DEF Counts
    <2>5. CASE ev[e].pc \in {"devices", "learn", "save"} /\ ev'[e].prev = ev[e].prev
      <3>1. \/ evals[ev[e].txn] > 1
            \/ stored[ev[e].txn] # -1 /\ stored[ev[e].txn] + Skew < ev[e].ts
        BY <1>4, <2>1, <2>5 DEF TrackInv, NotOwnTrack
      <3> QED
        BY <2>1, <2>4, <3>1
    <2>6. CASE ev'[e].prev = last
      BY <1>4, <2>1, <2>3, <2>4, <2>6 DEF Counts
    <2>7. ev'[e].prev # Seed
      BY <1>1, <1>4, <2>1, <2>3 DEF Seed, Location
    <2>8. ASSUME NEW t \in OnFile(ev[e].ts), ev'[e].prev = Location(t, Home, stored[t] + Skew)
          PROVE  stored'[ev[e].txn] # -1 /\ stored'[ev[e].txn] + Skew < ev[e].ts
      <3>1. t = ev[e].txn
        BY <1>4, <2>1, <2>8 DEF Location
      <3> QED
        BY <2>4, <3>1 DEF OnFile
    <2> QED
      BY <2>1, <2>5, <2>6, <2>7, <2>8
  <1>5. NotOwnTrack'
    BY <1>4 DEF NotOwnTrack
  <1> QED
    BY <1>1, <1>2, <1>5, TypeStep DEF TrackInv

\* evaluate reads the last location before it writes its own: the first evaluation of
\* a transaction is compared with its own place only through a row whose local time
\* has passed in UTC, whoever else evaluates, repeats or fails and whatever expires.
THEOREM NoSelfComparison == Spec => []NotOwnTrack
  <1>1. Init => TrackInv
    <2>1. Init => TypeOK
      BY TypeInit
    <2>2. Init => Evaluated /\ InHand /\ NotOwnTrack
      BY ProfileAssumption DEF Init, Evaluated, InHand, NotOwnTrack, Idle, Seed, Location
    <2> QED
      BY <2>1, <2>2 DEF TrackInv
  <1> QED
    BY <1>1, TrackStep, PTL DEF Spec, TrackInv

\* What an evaluation nobody saved around compares with is what was saved last, as
\* long as that has not expired; if it asks Postgres, that has.
LastSaved == saved.when # -1 => last = saved.location /\ lastDies = saved.when + LocationTtl
Sights(e) ==
    /\ ev[e].pc = "fallback" => clock > lastDies
    /\ ev[e].pc \in {"devices", "learn", "save"} /\ clock <= lastDies => ev[e].prev = last
Sighted == \A e \in Evaluators : ev[e].alone => Sights(e)
JumpInv == TypeOK /\ LastSaved /\ Sighted

LEMMA FallbackFrom ==
    ASSUME TypeOK, [Next]_vars, NEW f \in Evaluators, ev'[f].pc = "fallback"
    PROVE  \/ ev[f].pc = "fallback" /\ (ev'[f].alone => ev[f].alone)
           \/ clock > lastDies
  <1>1. ev[f] \in Evaluation /\ Idle.pc = "idle" /\ clock \in Nat /\ lastDies \in Int
    BY DEF TypeOK, Idle
  <1>2. CASE ev'[f] = ev[f]
    BY <1>2
  <1>3. ~Begins(f)
    <2>1. ASSUME NEW t, NEW ts, NEW p, NEW d, Start(f, t, ts, p, d)
          PROVE  ev'[f].pc = First
      BY <2>1 DEF Start, Idle, TypeOK
    <2> QED
      BY <2>1 DEF Begins, First
  <1>4. ~VelocityRecord(f)
    <2>1. VelocityRecord(f) => ev'[f] = [ev[f] EXCEPT !.pc = "count"]
      BY DEF VelocityRecord, TypeOK
    <2> QED
      BY <1>1, <2>1 DEF Evaluation
  <1>5. ~VelocityCount(f) /\ ~VelocityAbstains(f)
    <2>1. ToGeo(f) => ev'[f] = IF ev[f].device = NoDevice THEN Idle
                               ELSE [ev[f] EXCEPT !.pc = "travel",
                                        !.ts = IF f \in Consumers THEN clock ELSE ev[f].ts]
      BY DEF ToGeo, TypeOK
    <2>2. ~ToGeo(f)
      BY <1>1, <2>1 DEF Evaluation
    <2> QED
      BY <2>2 DEF VelocityCount, VelocityAbstains
  <1>6. CASE GeoTravel(f)
    <2>1. CASE clock <= lastDies
      <3>1. ev'[f] = [ev[f] EXCEPT !.pc = "devices", !.prev = last]
        BY <1>6, <2>1 DEF GeoTravel, TypeOK
      <3> QED
        BY <1>1, <3>1 DEF Evaluation
    <2> QED
      BY <1>1, <2>1
  <1>7. ~GeoFallback(f)
    <2>1. GeoFallback(f) => \E p : ev'[f] = [ev[f] EXCEPT !.pc = "devices", !.prev = p]
      BY DEF GeoFallback, TypeOK
    <2> QED
      BY <1>1, <2>1 DEF Evaluation
  <1>8. ~GeoDevices(f) /\ ~GeoLearn(f)
    BY <1>1 DEF GeoDevices, GeoLearn, TypeOK, Evaluation
  <1>9. ~GeoSave(f) /\ ~GeoAbstains(f)
    BY <1>1, SavedBy DEF GeoAbstains, TypeOK
  <1>10. ASSUME NEW e \in Evaluators \ {f}, GeoSave(e)
         PROVE  ev[f].pc = "fallback" /\ ~ev'[f].alone
    BY <1>10, SavedBy DEF Compared
  <1> QED
    BY <1>2, <1>3, <1>4, <1>5, <1>6, <1>7, <1>8, <1>9, <1>10, WhoMoves

LEMMA JumpStep == JumpInv /\ [Next]_vars => JumpInv'
  <1> SUFFICES ASSUME JumpInv, [Next]_vars PROVE JumpInv'
    OBVIOUS
  <1>1. TypeOK /\ TypeOK' /\ clock \in Nat /\ clock' \in Nat /\ lastDies \in Int
    BY TypeStep DEF JumpInv, TypeOK
  <1>2. ASSUME NEW e \in Evaluators, GeoSave(e) PROVE LastSaved' /\ Sighted'
    <2>1. LastSaved'
      BY <1>2 DEF LastSaved, GeoSave
    <2>2. ASSUME NEW f \in Evaluators, ev'[f].alone PROVE Sights(f)'
      <3>1. ev'[f].pc \notin Compared
        BY <1>1, <1>2, <2>2, SavedBy DEF Compared
      <3> QED
        BY <3>1 DEF Sights, Compared
    <2> QED
      BY <2>1, <2>2 DEF Sighted
  <1>3. CASE ~\E e \in Evaluators : GeoSave(e)
    <2>1. last' = last /\ lastDies' = lastDies /\ saved' = saved
      BY <1>3, ZenonT(40) DEF Next, vars, geo, Tick, Submit, Start, VelocityRecord, VelocityCount,
                  VelocityAbstains, GeoTravel, GeoFallback, GeoDevices, GeoLearn, GeoAbstains
    <2>2. clock <= clock'
      <3>1. Tick \/ clock' = clock
        <4>1. \A e \in Evaluators : VelocityRecord(e) => clock' = clock
          BY DEF VelocityRecord
        <4> QED
          BY <4>1, ZenonT(40) DEF Next, vars, Submit, Start, VelocityCount, VelocityAbstains, GeoTravel,
                      GeoFallback, GeoDevices, GeoLearn, GeoSave, GeoAbstains
      <3> QED
        BY <1>1, <3>1 DEF Tick
    <2>3. ASSUME NEW f \in Evaluators, ev'[f].alone PROVE Sights(f)'
      <3>1. ASSUME ev'[f].pc = "fallback" PROVE clock' > lastDies
        <4>1. (ev[f].pc = "fallback" /\ ev[f].alone) \/ clock > lastDies
          BY <1>1, <2>3, <3>1, FallbackFrom
        <4>2. clock > lastDies
          BY <4>1 DEF JumpInv, Sighted, Sights
        <4> QED
          BY <1>1, <2>2, <4>2
      <3>2. ASSUME ev'[f].pc \in {"devices", "learn", "save"}, clock' <= lastDies
            PROVE  ev'[f].prev = last
        <4>1. ev[f].alone /\ clock <= lastDies
          BY <1>1, <2>2, <2>3, <3>2, PrevFrom
        <4>2. Sights(f)
          BY <4>1 DEF JumpInv, Sighted
        <4>3. ~GeoFallback(f)
          BY <1>1, <4>1, <4>2 DEF Sights, GeoFallback
        <4> QED
          BY <1>1, <3>2, <4>1, <4>2, <4>3, PrevFrom DEF Sights
      <3> QED
        BY <2>1, <3>1, <3>2 DEF Sights
    <2> QED
      BY <1>1, <2>1, <2>3 DEF JumpInv, LastSaved, Sighted
  <1> QED
    BY <1>1, <1>2, <1>3 DEF JumpInv

\* Two evaluations one after the other that place the account where it cannot have
\* travelled: the second compares with the first, for as long as the location saved
\* by the first lives, for any places, processes and lifetimes.
THEOREM JumpsSeen == Spec => []JumpSeen
  <1>1. Init => JumpInv
    <2>1. Init => TypeOK
      BY TypeInit
    <2>2. Init => LastSaved /\ Sighted
      BY DEF Init, LastSaved, Sighted, Sights, Idle
    <2> QED
      BY <2>1, <2>2 DEF JumpInv
  <1>2. JumpInv => JumpSeen
    <2> SUFFICES ASSUME JumpInv, NEW e \in Evaluators, ev[e].pc = "save", ev[e].alone,
                        saved.when # -1, clock <= saved.when + LocationTtl, Jump(saved.location, e)
                 PROVE  Jump(ev[e].prev, e)
      BY DEF JumpSeen
    <2>1. last = saved.location /\ lastDies = saved.when + LocationTtl
      BY DEF JumpInv, LastSaved
    <2>2. ev[e].prev = saved.location
      BY <2>1 DEF JumpInv, Sighted, Sights
    <2> QED
      BY <2>2
  <1> QED
    BY <1>1, <1>2, JumpStep, PTL DEF Spec

\* Why a device is remembered: the SET lives at least as long as each device's own
\* memory would, and holds every device that is still remembered.
Memory(d) ==
    learned[d] # -1 =>
        /\ learned[d] <= clock /\ learned[d] + DeviceTtl <= knownDies
        /\ clock <= learned[d] + DeviceTtl => d \in known
DeviceInv == TypeOK /\ \A d \in Devices : Memory(d)

LEMMA RememberedKnown ==
    ASSUME DeviceInv, NEW d \in Devices, Remembered(d)
    PROVE  d \in KnownDevices
  <1>1. /\ clock \in Nat /\ learned[d] \in Int /\ knownDies \in Int /\ DeviceTtl \in Nat
        /\ learned[d] # -1 /\ clock <= learned[d] + DeviceTtl /\ Memory(d)
    BY ProfileAssumption DEF DeviceInv, TypeOK, Remembered
  <1>2. d \in known /\ clock <= knownDies
    BY <1>1 DEF Memory
  <1> QED
    BY <1>2 DEF KnownDevices

LEMMA DeviceStep == DeviceInv /\ [Next]_vars => DeviceInv'
  <1> SUFFICES ASSUME DeviceInv, [Next]_vars PROVE DeviceInv'
    OBVIOUS
  <1>1. /\ TypeOK /\ TypeOK' /\ clock \in Nat /\ clock' \in Nat /\ knownDies \in Int
        /\ DeviceTtl \in Nat /\ learned \in [Devices -> Int]
    BY TypeStep, ProfileAssumption DEF DeviceInv, TypeOK
  <1>2. ASSUME NEW e \in Evaluators, GeoLearn(e), NEW d \in Devices PROVE Memory(d)'
    <2>1. /\ ev[e].device \in Devices /\ clock' = clock
          /\ known' = KnownDevices \cup {ev[e].device} /\ knownDies' = clock + DeviceTtl
          /\ learned' = [learned EXCEPT ![ev[e].device] = clock]
      BY <1>1, <1>2 DEF GeoLearn, TypeOK
    <2>2. CASE d = ev[e].device
      <3>1. learned'[d] = clock
        BY <1>1, <2>1, <2>2
      <3> QED
        BY <1>1, <2>1, <2>2, <3>1 DEF Memory
    <2>3. CASE d # ev[e].device
      <3>1. learned'[d] = learned[d] /\ learned[d] \in Int
        BY <1>1, <2>1, <2>3
      <3>2. ASSUME learned[d] # -1 PROVE learned[d] <= clock
        BY <3>2 DEF DeviceInv, Memory
      <3>3. ASSUME learned[d] # -1, clock <= learned[d] + DeviceTtl PROVE d \in known'
        BY <2>1, <3>3, RememberedKnown DEF Remembered
      <3> QED
        BY <1>1, <2>1, <3>1, <3>2, <3>3 DEF Memory
    <2> QED
      BY <2>2, <2>3
  <1>3. ASSUME ~\E e \in Evaluators : GeoLearn(e), NEW d \in Devices PROVE Memory(d)'
    <2>1. known' = known /\ knownDies' = knownDies /\ learned' = learned
      BY <1>3, ZenonT(40) DEF Next, vars, geo, Tick, Submit, Start, VelocityRecord, VelocityCount,
                  VelocityAbstains, GeoTravel, GeoFallback, GeoDevices, GeoSave, GeoAbstains
    <2>2. clock <= clock'
      <3>1. \A e \in Evaluators : VelocityRecord(e) => clock' = clock
        BY DEF VelocityRecord
      <3>2. Tick \/ clock' = clock
        BY <3>1, ZenonT(40) DEF Next, vars, Submit, Start, VelocityCount, VelocityAbstains, GeoTravel,
                    GeoFallback, GeoDevices, GeoLearn, GeoSave, GeoAbstains
      <3> QED
        BY <1>1, <3>2 DEF Tick
    <2>3. Memory(d) /\ learned[d] \in Int
      BY <1>1 DEF DeviceInv
    <2> QED
      BY <1>1, <2>1, <2>2, <2>3 DEF Memory
  <1> QED
    BY <1>1, <1>2, <1>3 DEF DeviceInv

\* device_novelty_signal, for any devices, processes and lifetimes: a device is known
\* for DeviceTtl after its last use, and none is the account's first while another one
\* is remembered.
THEOREM DevicesRemembered == Spec => DeviceRemembered
  <1>1. Init => DeviceInv
    <2>1. Init => TypeOK
      BY TypeInit
    <2>2. Init => \A d \in Devices : Memory(d)
      BY DEF Init, Memory
    <2> QED
      BY <2>1, <2>2 DEF DeviceInv
  <1> DEFINE Step == \A e \in Evaluators : ev[e].pc = "devices" /\ ev'[e].pc = "learn" =>
                         /\ Remembered(ev[e].device) => ev'[e].novelty = "known"
                         /\ ev'[e].novelty = "first" => \A d \in Devices : ~Remembered(d)
  <1>2. DeviceInv /\ [Next]_vars => [Step]_vars
    <2> SUFFICES ASSUME DeviceInv, [Next]_vars, NEW e \in Evaluators,
                        ev[e].pc = "devices", ev'[e].pc = "learn"
                 PROVE  /\ Remembered(ev[e].device) => ev'[e].novelty = "known"
                        /\ ev'[e].novelty = "first" => \A d \in Devices : ~Remembered(d)
      OBVIOUS
    <2>1. TypeOK /\ ev[e] \in Evaluation /\ ev[e].device \in Devices /\ Idle.pc = "idle"
      BY DEF DeviceInv, TypeOK, Idle
    <2>2. GeoDevices(e)
      <3>1. \A f \in Evaluators \ {e} : ~GeoSave(f)
        BY <2>1, SavedBy
      <3>2. ~GeoSave(e)
        BY <2>1, SavedBy
      <3>3. ~Begins(e)
        BY DEF Begins, Start
      <3>4. ~GeoAbstains(e)
        BY <2>1 DEF GeoAbstains, TypeOK
      <3>5. ~VelocityRecord(e) /\ ~VelocityCount(e) /\ ~VelocityAbstains(e)
        BY DEF VelocityRecord, VelocityCount, VelocityAbstains
      <3>6. ~GeoTravel(e) /\ ~GeoFallback(e) /\ ~GeoLearn(e)
        BY DEF GeoTravel, GeoFallback, GeoLearn
      <3> QED
        BY <2>1, <3>1, <3>2, <3>3, <3>4, <3>5, <3>6, WhoMoves
    <2>3. ev'[e].novelty = IF ev[e].device \in KnownDevices THEN "known"
                           ELSE IF KnownDevices = {} THEN "first" ELSE "unknown"
      BY <2>1, <2>2 DEF GeoDevices, TypeOK, Evaluation
    <2> QED
      BY <2>1, <2>3, RememberedKnown
  <1>3. Spec => [][Step]_vars
    BY <1>1, <1>2, DeviceStep, PTL DEF Spec
  <1> QED
    BY <1>3 DEF DeviceRemembered
=============================================================================
