----------------------------- MODULE StoreProofs -----------------------------
(***************************************************************************)
(* The components that keep one fact in several stores or caches: sessions *)
(* and the cached customer (Access), the decision thresholds in Postgres,  *)
(* Redis and each process (DecisionSettings), the transaction log that is  *)
(* rewritten as a whole (TransactionLog), and what is told of one decision *)
(* in four places (Console).  Each has a type invariant and the invariants *)
(* that relate the copies, for any number of requests, processes and       *)
(* failures.                                                               *)
(***************************************************************************)
EXTENDS Access, DecisionSettings, TransactionLog, Console, SequenceTheorems, TLAPS

-----------------------------------------------------------------------------
(* Access. *)

\* The sessions and the cached customer, on their own.
AccessSpec == AccessInit /\ [][AccessNext]_accessVars

\* A tick leaves the keys that are left with a lifetime that is theirs.
LEMMA AgedSession ==
    ASSUME NEW n \in Nat, NEW S \in SUBSET [ttl : 1..n]
    PROVE  Aged(S) \in SUBSET [ttl : 1..n]
<1>1. ASSUME NEW k \in S, k.ttl > 1 PROVE [k EXCEPT !.ttl = @ - 1] \in [ttl : 1..n]
  BY <1>1
<1> QED BY <1>1 DEF Aged

LEMMA AgedView ==
    ASSUME NEW n \in Nat, NEW m, NEW S \in SUBSET [row : 0..m, ttl : 1..n, crossed : BOOLEAN]
    PROVE  Aged(S) \in SUBSET [row : 0..m, ttl : 1..n, crossed : BOOLEAN]
<1>1. ASSUME NEW k \in S, k.ttl > 1
      PROVE  [k EXCEPT !.ttl = @ - 1] \in [row : 0..m, ttl : 1..n, crossed : BOOLEAN]
  BY <1>1
<1> QED BY <1>1 DEF Aged

\* Every reachable state of the sessions and the cached customer is typed.
THEOREM AccessTypeCorrect == AccessSpec => []AccessTypeOK
<1> USE AccessAssumption DEF AccessTypeOK
<1>1. AccessInit => AccessTypeOK
  BY DEF AccessInit, Unused
<1>2. AccessTypeOK /\ [AccessNext]_accessVars => AccessTypeOK'
  <2> SUFFICES ASSUME AccessTypeOK, [AccessNext]_accessVars PROVE AccessTypeOK'
    OBVIOUS
  <2> USE DEF Goes, AccessFault, stores
  <2>1. ASSUME NEW r \in Requests,
               LoginReads(r) \/ ReadView(r) \/ ReadCustomer(r) \/ AccessFails(r)
        PROVE  AccessTypeOK'
    <3>1. CASE LoginReads(r) BY <3>1 DEF LoginReads
    <3>2. CASE ReadView(r) BY <3>2 DEF ReadView
    <3>3. CASE ReadCustomer(r) BY <3>3, ZenonT(40) DEF ReadCustomer
    <3>4. CASE AccessFails(r) BY <3>4 DEF AccessFails
    <3> QED BY <2>1, <3>1, <3>2, <3>3, <3>4
  <2>2. ASSUME NEW r \in Requests, RefreshSession(r) PROVE AccessTypeOK'
    BY <2>2 DEF RefreshSession
  <2>3. ASSUME NEW r \in Requests, Logout(r) PROVE AccessTypeOK'
    BY <2>3 DEF Logout
  <2>4. ASSUME NEW r \in Requests, FillView(r) PROVE AccessTypeOK'
    <3>1. /\ request[r].row \in 0..MaxChanges /\ request[r].crossed \in BOOLEAN
          /\ request[r].token \in Tokens
      BY <2>4 DEF FillView
    <3>2. [row |-> request[r].row, ttl |-> CustomerTtl, crossed |-> request[r].crossed]
             \in [row : 0..MaxChanges, ttl : 1..CustomerTtl, crossed : BOOLEAN]
      BY <3>1
    <3>3. view' \in SUBSET [row : 0..MaxChanges, ttl : 1..CustomerTtl, crossed : BOOLEAN]
      BY <2>4, <3>2 DEF FillView
    <3> QED BY <2>4, <3>1, <3>3 DEF FillView
  <2>5. ASSUME NEW r \in Requests, NEW k \in Tokens, CreateSession(r, k) PROVE AccessTypeOK'
    BY <2>5 DEF CreateSession
  <2>6. ASSUME NEW r \in Requests, NEW k \in Tokens, GetSession(r, k) PROVE AccessTypeOK'
    BY <2>6 DEF GetSession
  <2>7. CASE CustomerChanges
    <3>1. \A r \in Requests : request'[r] = [request[r] EXCEPT !.crossed = @ \/ request[r].pc = "fill"]
      BY <2>7 DEF CustomerChanges
    <3>2. customer' \in 0..MaxChanges /\ sinceChange' \in 0..CustomerTtl
      BY <2>7 DEF CustomerChanges
    <3>3. request' \in [Requests -> [pc : {"new", "create", "expire", "logout", "customer",
                           "row", "fill", "answered", "refused", "failed"},
                           token : Tokens \cup {NoToken}, row : 0..MaxChanges, crossed : BOOLEAN]]
      <4> DEFINE R == [pc : {"new", "create", "expire", "logout", "customer",
                             "row", "fill", "answered", "refused", "failed"},
                       token : Tokens \cup {NoToken}, row : 0..MaxChanges, crossed : BOOLEAN]
      <4>1. ASSUME NEW r \in Requests PROVE request'[r] \in R
        <5>1. PICK b \in BOOLEAN : b = (request[r].crossed \/ request[r].pc = "fill")
          BY Zenon
        <5>2. [request[r] EXCEPT !.crossed = b] \in R
          OBVIOUS
        <5>3. request'[r] = [request[r] EXCEPT !.crossed = b]
          BY <3>1, <5>1
        <5> QED BY <5>2, <5>3
      <4>2. request' = [r \in Requests |-> request'[r]]
        BY <2>7 DEF CustomerChanges
      <4> QED BY <4>1, <4>2
    <3> QED BY <2>7, <3>1, <3>2, <3>3 DEF CustomerChanges
  <2>8. CASE AccessTick
    <3>1. \A k \in Tokens : Aged(session[k]) \in SUBSET [ttl : 1..SessionTtl]
      BY AgedSession
    <3>2. Aged(view) \in SUBSET [row : 0..MaxChanges, ttl : 1..CustomerTtl, crossed : BOOLEAN]
      BY AgedView
    <3> QED BY <2>8, <3>1, <3>2 DEF AccessTick
  <2>9. CASE UNCHANGED accessVars BY <2>9 DEF accessVars
  <2> QED BY <2>1, <2>2, <2>3, <2>4, <2>5, <2>6, <2>7, <2>8, <2>9 DEF AccessNext
<1> QED BY <1>1, <1>2, PTL DEF AccessSpec

\* A token whose logout was answered is some request's own, so no login returns
\* it again, and its key is gone.
LoggedOut == \A k \in loggedOut : session[k] = {} /\ \E q \in Requests : request[q].token = k

\* No step gives a request's token away, and only a login creates a key.
LEMMA LoggedOutStep ==
    ASSUME AccessTypeOK, LoggedOut, [AccessNext]_accessVars
    PROVE  LoggedOut'
<1> USE AccessAssumption DEF AccessTypeOK
<1> DEFINE Kept == \A q \in Requests : request[q].token \in Tokens
                        => request'[q].token = request[q].token
<1>1. Kept
  <2> USE DEF Goes, stores
  <2>1. ASSUME NEW r \in Requests, NEW k \in Tokens, CreateSession(r, k) \/ GetSession(r, k)
        PROVE  Kept
    BY <2>1 DEF CreateSession, GetSession
  <2>2. ASSUME NEW r \in Requests,
               \/ LoginReads(r) \/ RefreshSession(r) \/ Logout(r) \/ ReadView(r)
               \/ ReadCustomer(r) \/ FillView(r) \/ AccessFails(r)
        PROVE  Kept
    BY <2>2 DEF LoginReads, RefreshSession, Logout, ReadView, ReadCustomer, FillView, AccessFails
  <2>3. CASE CustomerChanges BY <2>3 DEF CustomerChanges
  <2>4. CASE AccessTick \/ UNCHANGED accessVars BY <2>4 DEF AccessTick, accessVars
  <2> QED BY <2>1, <2>2, <2>3, <2>4 DEF AccessNext
<1>2. ASSUME NEW k \in loggedOut PROVE \E q \in Requests : request'[q].token = k
  BY <1>1 DEF LoggedOut
<1>3. ASSUME NEW r \in Requests, Logout(r) PROVE LoggedOut'
  <2>1. request[r].token \in Tokens /\ request[r].pc = "logout"
    BY <1>3 DEF Logout
  <2> QED BY <1>1, <1>2, <1>3, <2>1 DEF Logout, LoggedOut
<1>4. ASSUME NEW r \in Requests, NEW k \in Tokens, CreateSession(r, k) PROVE LoggedOut'
  BY <1>2, <1>4 DEF CreateSession, LoggedOut
<1>5. ASSUME loggedOut' = loggedOut, \A k \in Tokens : session[k] = {} => session'[k] = {}
      PROVE  LoggedOut'
  BY <1>2, <1>5 DEF LoggedOut
<1>6. ASSUME NEW r \in Requests, RefreshSession(r) PROVE LoggedOut'
  BY <1>5, <1>6 DEF RefreshSession
<1>7. CASE AccessTick
  <2>1. Aged({}) = {} BY DEF Aged
  <2> QED BY <1>5, <1>7, <2>1 DEF AccessTick
<1>8. ASSUME NEW r \in Requests,
             LoginReads(r) \/ ReadView(r) \/ ReadCustomer(r) \/ FillView(r) \/ AccessFails(r)
      PROVE  LoggedOut'
  BY <1>5, <1>8 DEF LoginReads, ReadView, ReadCustomer, FillView, AccessFails, stores
<1>9. ASSUME NEW r \in Requests, NEW k \in Tokens, GetSession(r, k) PROVE LoggedOut'
  BY <1>5, <1>9 DEF GetSession, stores
<1>10. CASE CustomerChanges \/ UNCHANGED accessVars
  BY <1>5, <1>10 DEF CustomerChanges, accessVars
<1> QED BY <1>3, <1>4, <1>6, <1>7, <1>8, <1>9, <1>10 DEF AccessNext

\* A logout that was answered is final, whichever requests had looked the session
\* up before and refresh its expiry after.
THEOREM LogoutFinal == AccessSpec => []LogoutIsFinal
<1>1. AccessInit => LoggedOut BY DEF AccessInit, LoggedOut
<1>2. LoggedOut => LogoutIsFinal BY DEF LoggedOut, LogoutIsFinal
<1> QED BY <1>1, <1>2, AccessTypeCorrect, LoggedOutStep, PTL DEF AccessSpec

\* A read that holds a row nobody has changed since holds the current one.
Uncrossed == \A r \in Requests :
                 request[r].pc = "fill" /\ ~request[r].crossed => request[r].row = customer

\* The view's lifetime and the time since the change go against each other; a
\* change finds every view within its lifetime.
LEMMA ViewStep ==
    ASSUME AccessTypeOK, Uncrossed, ViewExpires, [AccessNext]_accessVars
    PROVE  Uncrossed' /\ ViewExpires'
<1> USE AccessAssumption DEF AccessTypeOK, Uncrossed, ViewExpires, Goes
<1>1. ASSUME NEW r \in Requests, FillView(r) PROVE Uncrossed' /\ ViewExpires'
  BY <1>1 DEF FillView
<1>2. ASSUME NEW r \in Requests, ReadCustomer(r) PROVE Uncrossed' /\ ViewExpires'
  BY <1>2 DEF ReadCustomer, stores
<1>3. CASE CustomerChanges
  <2>1. \A r \in Requests : request'[r] = [request[r] EXCEPT !.crossed = @ \/ request[r].pc = "fill"]
    BY <1>3 DEF CustomerChanges
  <2>2. \A r \in Requests : request'[r].pc = request[r].pc
            /\ (request[r].pc = "fill" => request'[r].crossed)
    BY <2>1
  <2>3. \A v \in view : v.ttl \in 1..CustomerTtl OBVIOUS
  <2>4. Uncrossed' BY <1>3, <2>2 DEF CustomerChanges
  <2>5. ViewExpires' BY <1>3, <2>3 DEF CustomerChanges
  <2> QED BY <2>4, <2>5
<1>4. CASE AccessTick
  <2>1. Uncrossed' BY <1>4 DEF AccessTick
  <2>2. ASSUME NEW v \in Aged(view), v.row # customer, ~v.crossed
        PROVE  v.ttl + sinceChange' <= CustomerTtl
    <3>1. PICK u \in view : u.ttl > 1 /\ v = [u EXCEPT !.ttl = @ - 1]
      BY <2>2 DEF Aged
    <3>2. u.ttl \in 1..CustomerTtl /\ v.ttl = u.ttl - 1 /\ v.row = u.row
          /\ v.crossed = u.crossed
      BY <3>1
    <3> QED BY <1>4, <2>2, <3>2 DEF AccessTick
  <2> QED BY <1>4, <2>1, <2>2 DEF AccessTick
<1>5. ASSUME NEW r \in Requests,
             LoginReads(r) \/ RefreshSession(r) \/ Logout(r) \/ ReadView(r) \/ AccessFails(r)
      PROVE  Uncrossed' /\ ViewExpires'
  BY <1>5 DEF LoginReads, RefreshSession, Logout, ReadView, AccessFails, stores
<1>6. ASSUME NEW r \in Requests, NEW k \in Tokens, CreateSession(r, k) \/ GetSession(r, k)
      PROVE  Uncrossed' /\ ViewExpires'
  BY <1>6 DEF CreateSession, GetSession, stores
<1>7. CASE UNCHANGED accessVars BY <1>7 DEF accessVars
<1> QED BY <1>1, <1>2, <1>3, <1>4, <1>5, <1>6, <1>7 DEF AccessNext

\* A changed customer row is shown as it was for the cache's lifetime at most, for
\* any lifetime, requests and failures.
THEOREM ViewsExpire == AccessSpec => []ViewExpires
<1>1. AccessInit => Uncrossed /\ ViewExpires
  BY DEF AccessInit, Uncrossed, ViewExpires, Unused
<1> QED BY <1>1, AccessTypeCorrect, ViewStep, PTL DEF AccessSpec

-----------------------------------------------------------------------------
(* DecisionSettings. *)

\* The thresholds and their copies, on their own.
SettingsSpec == SettingsInit /\ [][SettingsNext]_settingsVars

\* Older counts up to the cache's lifetime.
LEMMA OlderType ==
    ASSUME NEW n \in 0..CacheSeconds
    PROVE  Older(n) \in 0..CacheSeconds /\ n <= Older(n)
  BY SettingsAssumption DEF Older

\* Row, key and cache hold one configuration each, or none.
OneEach ==
    /\ \A b, c \in saved : b = c
    /\ \A b, c \in mirrored : b = c
    /\ \A p \in Deciders : \A c, d \in cached[p] : c = d

\* Every reachable state of the thresholds and their copies is typed, and no store
\* holds two.
THEOREM SettingsTypeCorrect == SettingsSpec => [](SettingsTypeOK /\ OneEach)
<1> USE SettingsAssumption DEF SettingsTypeOK, OneEach
<1>1. SettingsInit => SettingsTypeOK /\ OneEach
  BY DEF SettingsInit, Idle
<1>2. SettingsTypeOK /\ OneEach /\ [SettingsNext]_settingsVars => SettingsTypeOK' /\ OneEach'
  <2> SUFFICES ASSUME SettingsTypeOK, OneEach, [SettingsNext]_settingsVars
               PROVE  SettingsTypeOK' /\ OneEach'
    OBVIOUS
  <2> USE DEF SettingsFault, InProgress
  <2>1. ASSUME NEW r \in Puts, NEW b \in Bodies, PutRefused(r, b)
        PROVE  SettingsTypeOK' /\ OneEach'
    BY <2>1 DEF PutRefused
  <2>2. ASSUME NEW r \in Puts, NEW b \in Bodies, PutBegins(r, b)
        PROVE  SettingsTypeOK' /\ OneEach'
    <3>1. PICK x \in BOOLEAN : x = (\A o \in Puts : ~InProgress(o))
      BY Zenon
    <3>2. put' = [q \in Puts |-> IF q = r THEN [pc |-> "row", body |-> b, alone |-> x]
                                 ELSE [put[q] EXCEPT !.alone = FALSE]]
      BY <2>2, <3>1 DEF PutBegins
    <3>3. put' \in [Puts -> [pc : {"idle", "refused", "row", "key", "saved", "failed"},
                             body : Bodies \cup {Defaults}, alone : BOOLEAN]]
      <4> DEFINE P == [pc : {"idle", "refused", "row", "key", "saved", "failed"},
                       body : Bodies \cup {Defaults}, alone : BOOLEAN]
      <4>1. [pc |-> "row", body |-> b, alone |-> x] \in P
        OBVIOUS
      <4>2. ASSUME NEW q \in Puts PROVE [put[q] EXCEPT !.alone = FALSE] \in P
        <5>1. put[q] \in P
          OBVIOUS
        <5> HIDE DEF SettingsTypeOK, OneEach
        <5> QED BY <5>1
      <4> QED BY <3>2, <4>1, <4>2
    <3>4. \A q \in Puts : put'[q].pc \notin {"idle", "refused"} => put'[q].body \in Bodies
      BY <3>2
    <3> QED BY <2>2, <3>3, <3>4 DEF PutBegins
  <2>3. ASSUME NEW r \in Puts, PutSavesRow(r) PROVE SettingsTypeOK' /\ OneEach'
    BY <2>3 DEF PutSavesRow
  <2>4. ASSUME NEW r \in Puts, PutSavesKey(r) PROVE SettingsTypeOK' /\ OneEach'
    BY <2>4 DEF PutSavesKey
  <2>5. ASSUME NEW r \in Puts, PutFails(r) PROVE SettingsTypeOK' /\ OneEach'
    <3>1. /\ put[r].pc \in {"row", "key"} /\ put' = [put EXCEPT ![r].pc = "failed"]
          /\ cached' = cached /\ settled' = FALSE
          /\ settingsFaults < MaxSettingsFaults /\ settingsFaults' = settingsFaults + 1
      BY <2>5 DEF PutFails
    <3>2. put[r].body \in Bodies
      BY <3>1
    <3>3. /\ saved' \in {saved, {put[r].body}} /\ mirrored' \in {mirrored, {put[r].body}}
          /\ unchanged' \in {unchanged, 0}
      BY <2>5 DEF PutFails
    <3>4. saved' \in SUBSET Bodies /\ mirrored' \in SUBSET Bodies /\ unchanged' \in 0..CacheSeconds
      BY <3>2, <3>3
    <3>5. (\A b, c \in saved' : b = c) /\ \A b, c \in mirrored' : b = c
      BY <3>3
    <3>6. /\ put' \in [Puts -> [pc : {"idle", "refused", "row", "key", "saved", "failed"},
                                body : Bodies \cup {Defaults}, alone : BOOLEAN]]
          /\ \A q \in Puts : put'[q].pc \notin {"idle", "refused"} => put'[q].body \in Bodies
      BY <3>1, <3>2
    <3>7. settingsFaults' \in 0..MaxSettingsFaults
      BY <3>1
    <3> QED BY <3>1, <3>4, <3>5, <3>6, <3>7
  <2>6. KeyConfig \in Bodies \cup {Defaults}
    BY DEF KeyConfig
  <2>7. ASSUME NEW p \in Deciders, ReadKey(p) PROVE SettingsTypeOK' /\ OneEach'
    BY <2>6, <2>7 DEF ReadKey
  <2>8. ASSUME NEW p \in Deciders, ReadFails(p) \/ DeciderRestarts(p)
        PROVE  SettingsTypeOK' /\ OneEach'
    BY <2>8 DEF ReadFails, DeciderRestarts
  <2>9. CASE KeyLost
    <3>1. mirrored' = {} /\ unchanged' = 0 /\ settled' = FALSE /\ UNCHANGED <<saved, cached, put>>
          /\ settingsFaults < MaxSettingsFaults /\ settingsFaults' = settingsFaults + 1
      BY <2>9 DEF KeyLost
    <3>2. unchanged' \in 0..CacheSeconds /\ settingsFaults' \in 0..MaxSettingsFaults
      BY <3>1
    <3> QED BY <3>1, <3>2
  <2>10. CASE SettingsTick
    <3>1. \A p \in Deciders : \A c \in cached[p] :
              [c EXCEPT !.age = Older(@)] \in [cfg : Bodies \cup {Defaults}, age : 0..CacheSeconds]
      BY OlderType
    <3> QED BY <2>10, <3>1, OlderType DEF SettingsTick
  <2>11. CASE UNCHANGED settingsVars BY <2>11 DEF settingsVars
  <2> QED BY <2>1, <2>2, <2>3, <2>4, <2>5, <2>7, <2>8, <2>9, <2>10, <2>11 DEF SettingsNext
<1> QED BY <1>1, <1>2, PTL DEF SettingsSpec

\* A copy that differs from the key is at least as old as the last change of the
\* key, or the last failed read of it.
CopiesAge ==
    \A p \in Deciders : \A c \in cached[p] : c.cfg # KeyConfig => unchanged <= c.age

\* A change of the key starts the count again, a tick ages both.
LEMMA CopiesAgeStep ==
    ASSUME SettingsTypeOK, CopiesAge, [SettingsNext]_settingsVars
    PROVE  CopiesAge'
<1> USE SettingsAssumption DEF SettingsTypeOK, CopiesAge
<1>1. ASSUME unchanged' = 0, cached' = cached PROVE CopiesAge'
  BY <1>1
<1>2. ASSUME UNCHANGED <<unchanged, cached, mirrored>> PROVE CopiesAge'
  BY <1>2 DEF KeyConfig
<1>3. ASSUME NEW r \in Puts, NEW b \in Bodies, PutRefused(r, b) \/ PutBegins(r, b)
      PROVE  CopiesAge'
  BY <1>2, <1>3 DEF PutRefused, PutBegins
<1>4. ASSUME NEW r \in Puts, PutSavesRow(r) \/ PutSavesKey(r) \/ PutFails(r) PROVE CopiesAge'
  BY <1>1, <1>2, <1>4 DEF PutSavesRow, PutSavesKey, PutFails
<1>5. ASSUME NEW p \in Deciders, ReadKey(p) PROVE CopiesAge'
  <2>1. KeyConfig' = KeyConfig BY <1>5 DEF ReadKey, KeyConfig
  <2>2. cached' = [cached EXCEPT ![p] = {[cfg |-> KeyConfig, age |-> 0]}] /\ unchanged' = unchanged
    BY <1>5 DEF ReadKey
  <2> QED BY <2>1, <2>2
<1>6. ASSUME NEW p \in Deciders, ReadFails(p) PROVE CopiesAge'
  BY <1>6 DEF ReadFails
<1>7. ASSUME NEW p \in Deciders, DeciderRestarts(p) PROVE CopiesAge'
  BY <1>7 DEF DeciderRestarts, KeyConfig
<1>8. CASE KeyLost BY <1>1, <1>8 DEF KeyLost
<1>9. CASE SettingsTick
  <2>1. KeyConfig' = KeyConfig BY <1>9 DEF SettingsTick, KeyConfig
  <2>2. ASSUME NEW p \in Deciders, NEW c \in cached[p], c.cfg # KeyConfig
        PROVE  Older(unchanged) <= Older(c.age)
    <3>1. unchanged <= c.age /\ c.age \in 0..CacheSeconds BY <2>2
    <3> QED BY <3>1 DEF Older
  <2>3. ASSUME NEW p \in Deciders, NEW d \in cached'[p], d.cfg # KeyConfig
        PROVE  unchanged' <= d.age
    <3>1. PICK c \in cached[p] : d = [c EXCEPT !.age = Older(@)] BY <1>9, <2>3 DEF SettingsTick
    <3>2. d.cfg = c.cfg /\ d.age = Older(c.age) BY <3>1
    <3> QED BY <1>9, <2>2, <2>3, <3>2 DEF SettingsTick
  <2> QED BY <2>1, <2>3
<1>10. CASE UNCHANGED settingsVars BY <1>2, <1>10 DEF settingsVars
<1> QED BY <1>3, <1>4, <1>5, <1>6, <1>7, <1>8, <1>9, <1>10 DEF SettingsNext

\* Once the key has been left alone, and readable, for the cache's lifetime, every
\* process decides by it: for any number of processes, PUTs, failures and restarts.
THEOREM ChangesTakeEffect == SettingsSpec => []ChangeTakesEffect
<1>1. SettingsInit => CopiesAge BY DEF SettingsInit, CopiesAge
<1>2. SettingsTypeOK /\ OneEach /\ CopiesAge => ChangeTakesEffect
  <2> SUFFICES ASSUME SettingsTypeOK, CopiesAge, unchanged >= CacheSeconds,
                      NEW p \in Deciders, CacheHit(p), OneEach
               PROVE  InForce(p) = KeyConfig
    BY DEF ChangeTakesEffect, InForce
  <2>1. PICK c \in cached[p] : c.age < CacheSeconds BY DEF CacheHit
  <2>2. c.age \in Nat /\ unchanged \in Nat /\ CacheSeconds \in Nat
    BY SettingsAssumption DEF SettingsTypeOK
  <2>3. c.cfg = KeyConfig BY <2>1, <2>2 DEF CopiesAge
  <2>4. (CHOOSE d \in cached[p] : TRUE) = c BY DEF OneEach
  <2> QED BY <2>3, <2>4 DEF InForce
<1> QED BY <1>1, <1>2, SettingsTypeCorrect, CopiesAgeStep, PTL DEF SettingsSpec

\* A PUT that nobody crossed is the only one in progress and finds its own row when
\* it writes the key; while the console agrees, none is in progress.
Serial ==
    /\ \A r \in Puts : InProgress(r) /\ put[r].alone =>
           /\ \A q \in Puts \ {r} : ~InProgress(q)
           /\ put[r].pc = "key" => saved = {put[r].body}
    /\ settled => saved = mirrored /\ \A r \in Puts : ~InProgress(r)

\* A PUT that begins takes "alone" from all others, and finds none in progress or
\* is not alone itself.
LEMMA SerialStep ==
    ASSUME SettingsTypeOK, Serial, [SettingsNext]_settingsVars
    PROVE  Serial'
<1> USE SettingsAssumption DEF SettingsTypeOK, Serial, InProgress, SettingsFault
<1>1. ASSUME NEW r \in Puts, NEW b \in Bodies, PutRefused(r, b) PROVE Serial'
  BY <1>1 DEF PutRefused
<1>2. ASSUME NEW r \in Puts, NEW b \in Bodies, PutBegins(r, b) PROVE Serial'
  <2>1. put'[r].pc = "row" /\ put'[r].alone = \A o \in Puts : ~InProgress(o)
    BY <1>2 DEF PutBegins
  <2>2. \A q \in Puts \ {r} : put'[q].pc = put[q].pc /\ ~put'[q].alone
    BY <1>2 DEF PutBegins
  <2> QED BY <1>2, <2>1, <2>2 DEF PutBegins
<1>3. ASSUME NEW r \in Puts, PutSavesRow(r) PROVE Serial'
  BY <1>3 DEF PutSavesRow
<1>4. ASSUME NEW r \in Puts, PutSavesKey(r) PROVE Serial'
  <2>1. put[r].pc = "key" /\ mirrored' = {put[r].body} /\ saved' = saved /\ settled' = put[r].alone
    BY <1>4 DEF PutSavesKey
  <2>2. \A q \in Puts : /\ put'[q].pc = IF q = r THEN "saved" ELSE put[q].pc
                        /\ put'[q].alone = put[q].alone /\ put'[q].body = put[q].body
    BY <1>4 DEF PutSavesKey
  <2> QED BY <2>1, <2>2
<1>5. ASSUME NEW r \in Puts, PutFails(r) PROVE Serial'
  BY <1>5 DEF PutFails
<1>6. ASSUME UNCHANGED <<saved, put>>, mirrored' = mirrored \/ ~settled', settled' \in {settled, FALSE}
      PROVE  Serial'
  <2>1. settled' => settled /\ mirrored' = mirrored
    BY <1>6
  <2>2. \A r \in Puts : put'[r] = put[r]
    BY <1>6
  <2> QED BY <1>6, <2>1, <2>2
<1>7. ASSUME NEW p \in Deciders, ReadKey(p) \/ ReadFails(p) \/ DeciderRestarts(p) PROVE Serial'
  BY <1>6, <1>7 DEF ReadKey, ReadFails, DeciderRestarts
<1>8. CASE KeyLost \/ SettingsTick \/ UNCHANGED settingsVars
  BY <1>6, <1>8 DEF KeyLost, SettingsTick, settingsVars
<1> QED BY <1>1, <1>2, <1>3, <1>4, <1>5, <1>7, <1>8 DEF SettingsNext

\* The console shows what the pipeline reads whenever the last PUT ran alone and
\* was acknowledged, whatever was crossed, lost or failed before.
THEOREM ConsoleShowsKey == SettingsSpec => []ConsoleAgrees
<1>1. SettingsInit => Serial
  BY DEF SettingsInit, Serial, InProgress, Idle
<1>2. Serial => ConsoleAgrees
  BY DEF Serial, ConsoleAgrees, Shown, KeyConfig
<1> QED BY <1>1, <1>2, SettingsTypeCorrect, SerialStep, PTL DEF SettingsSpec

-----------------------------------------------------------------------------
(* TransactionLog. *)

\* The log, on its own.
LogSpec == LogInit /\ [][LogNext]_logVars

\* A suffix, position by position from the end.
LEMMA SuffixByPosition ==
    ASSUME NEW E, NEW s \in Seq(E), NEW t \in Seq(E)
    PROVE  IsSuffix(s, t) <=> /\ Len(s) <= Len(t)
                              /\ \A i \in 1..Len(s) : s[i] = t[Len(t) - Len(s) + i]
<1> DEFINE n == Len(s)
           m == Len(t)
<1>0. n \in Nat /\ m \in Nat /\ s \in [1..n -> E] /\ t \in [1..m -> E]
  BY LenProperties
<1>1. /\ Len(Reverse(s)) = n /\ \A i \in 1..n : Reverse(s)[i] = s[(n - i) + 1]
      /\ Reverse(s) \in Seq(E)
  <2>1. Reverse(s) \in [1..n -> E] BY <1>0 DEF Reverse
  <2> QED BY <1>0, <2>1, IsASeq, LenProperties DEF Reverse
<1>2. /\ Len(Reverse(t)) = m /\ \A i \in 1..m : Reverse(t)[i] = t[(m - i) + 1]
      /\ Reverse(t) \in Seq(E)
  <2>1. Reverse(t) \in [1..m -> E] BY <1>0 DEF Reverse
  <2> QED BY <1>0, <2>1, IsASeq, LenProperties DEF Reverse
<1> HIDE DEF n, m
<1>3. IsSuffix(s, t) <=>
        n <= m /\ SubSeq(Reverse(s), 1, n) = SubSeq(Reverse(t), 1, n)
  BY <1>1, <1>2 DEF IsSuffix, IsPrefix
<1>4. ASSUME n <= m
      PROVE  SubSeq(Reverse(s), 1, n) = SubSeq(Reverse(t), 1, n)
               <=> \A i \in 1..n : Reverse(s)[i] = Reverse(t)[i]
  <2> DEFINE u == SubSeq(Reverse(s), 1, n)
             v == SubSeq(Reverse(t), 1, n)
  <2>1. /\ u = [i \in 1..n |-> Reverse(s)[i]]
        /\ v = [i \in 1..n |-> Reverse(t)[i]]
    BY <1>0, <1>1, <1>2, <1>4
  <2> QED BY <2>1
<1>5. ASSUME n <= m
      PROVE  (\A i \in 1..n : Reverse(s)[i] = Reverse(t)[i])
               <=> \A i \in 1..n : s[i] = t[m - n + i]
  <2>1. ASSUME \A i \in 1..n : Reverse(s)[i] = Reverse(t)[i], NEW i \in 1..n
        PROVE  s[i] = t[m - n + i]
    <3> DEFINE j == (n - i) + 1
    <3>1. j \in 1..n /\ j \in 1..m /\ (n - j) + 1 = i /\ (m - j) + 1 = m - n + i
      BY <1>0, <1>5
    <3> HIDE DEF j
    <3>2. Reverse(s)[j] = s[i] BY <1>1, <3>1
    <3>3. Reverse(t)[j] = t[m - n + i] BY <1>2, <3>1
    <3>4. Reverse(s)[j] = Reverse(t)[j] BY <2>1, <3>1
    <3> QED BY <3>2, <3>3, <3>4
  <2>2. ASSUME \A i \in 1..n : s[i] = t[m - n + i], NEW i \in 1..n
        PROVE  Reverse(s)[i] = Reverse(t)[i]
    <3> DEFINE j == (n - i) + 1
    <3>1. j \in 1..n /\ i \in 1..m /\ (m - i) + 1 = m - n + j
      BY <1>0, <1>5
    <3> HIDE DEF j
    <3>2. Reverse(s)[i] = s[(n - i) + 1] /\ (n - i) + 1 = j BY <1>1 DEF j
    <3>3. Reverse(t)[i] = t[m - n + j] BY <1>2, <3>1
    <3>4. s[j] = t[m - n + j] BY <2>2, <3>1
    <3> QED BY <3>2, <3>3, <3>4
  <2> QED BY <2>1, <2>2
<1> QED BY <1>3, <1>4, <1>5 DEF n, m

\* The empty list ends every list; a list ends itself; an entry added to both keeps
\* the one the other's end.
LEMMA SuffixOfAppend ==
    ASSUME NEW E, NEW s \in Seq(E), NEW t \in Seq(E), NEW e \in E
    PROVE  /\ IsSuffix(<<>>, t) /\ IsSuffix(t, t)
           /\ IsSuffix(<<e>>, Append(t, e))
           /\ IsSuffix(s, t) => IsSuffix(Append(s, e), Append(t, e))
<1> DEFINE u == Append(s, e)
           v == Append(t, e)
<1>0. /\ Len(s) \in Nat /\ Len(t) \in Nat /\ <<>> \in Seq(E) /\ <<e>> \in Seq(E)
      /\ u \in Seq(E) /\ v \in Seq(E) /\ Len(u) = Len(s) + 1 /\ Len(v) = Len(t) + 1
      /\ \A i \in 1..Len(u) : u[i] = IF i <= Len(s) THEN s[i] ELSE e
      /\ \A i \in 1..Len(v) : v[i] = IF i <= Len(t) THEN t[i] ELSE e
  OBVIOUS
<1> HIDE DEF u, v
<1>1. IsSuffix(<<>>, t)
  <2>1. PICK z \in Seq(E) : z = <<>> /\ Len(z) = 0
    BY EmptySeq, Zenon
  <2>2. Len(z) <= Len(t) /\ \A i \in 1..Len(z) : z[i] = t[Len(t) - Len(z) + i]
    BY <1>0, <2>1
  <2>3. IsSuffix(z, t)
    BY <2>2, SuffixByPosition
  <2> QED BY <2>1, <2>3
<1>2. IsSuffix(t, t)
  BY <1>0, SuffixByPosition
<1>3. IsSuffix(<<e>>, v)
  <2>1. Len(<<e>>) = 1 /\ <<e>>[1] = e
    OBVIOUS
  <2>2. 1 <= Len(v) /\ v[Len(v) - 1 + 1] = e
    BY <1>0
  <2>3. \A i \in 1..Len(<<e>>) : <<e>>[i] = v[Len(v) - Len(<<e>>) + i]
    BY <2>1, <2>2
  <2> QED BY <1>0, <2>1, <2>2, <2>3, SuffixByPosition
<1>4. ASSUME IsSuffix(s, t) PROVE IsSuffix(u, v)
  <2>1. Len(s) <= Len(t) /\ \A i \in 1..Len(s) : s[i] = t[Len(t) - Len(s) + i]
    BY <1>4, SuffixByPosition
  <2>2. ASSUME NEW i \in 1..Len(u) PROVE u[i] = v[Len(v) - Len(u) + i]
    <3> DEFINE j == Len(t) - Len(s) + i
    <3>1. j = Len(v) - Len(u) + i /\ j \in 1..Len(v) /\ (i <= Len(s) <=> j <= Len(t))
      BY <1>0, <2>1
    <3> QED BY <1>0, <2>1, <3>1
  <2>3. Len(u) <= Len(v) BY <1>0, <2>1
  <2> QED BY <1>0, <2>2, <2>3, SuffixByPosition
<1> QED BY <1>1, <1>2, <1>3, <1>4 DEF u, v

\* Every reachable state of the log is typed.
LogTypeOK ==
    /\ logFile \in Seq(Entries) /\ logged \in Seq(Entries) /\ wiped \in BOOLEAN
    /\ waiting \in SUBSET Entries
    /\ writer \in [entry : Entries \cup {NoEntry}, pc : {"free", "read", "truncate", "write"},
                   entries : Seq(Entries)]
    /\ writer.pc # "free" => writer.entry \in Entries

\* What the lock's holder has in hand, and what of it is in the file: the list it
\* will write is the file's with its entry added, or its entry alone.
InHand ==
    /\ writer.pc \in {"truncate", "write"} =>
           LET listed == Append(logged, writer.entry)
           IN  (~wiped => writer.entries = listed) /\ (wiped => IsSuffix(writer.entries, listed))
    /\ writer.pc = "write" => logFile = <<>>

LogInv == LogTypeOK /\ LogKeepsEntries /\ InHand

\* Each step of an append hands the list on whole, or says that it was cut.
LEMMA LogStep ==
    ASSUME LogInv, [LogNext]_logVars
    PROVE  LogInv'
<1> USE LogAssumption DEF LogInv, LogTypeOK, LogKeepsEntries, InHand
<1>1. ASSUME NEW e \in Entries, Acquire(e) PROVE LogInv'
  BY <1>1 DEF Acquire
<1>2. CASE ReadLog
  <2>1. /\ writer.pc = "read" /\ writer.entry \in Entries
        /\ UNCHANGED <<logFile, waiting, logged>>
    BY <1>2 DEF ReadLog
  <2>2. /\ Append(logFile, writer.entry) \in Seq(Entries) /\ <<writer.entry>> \in Seq(Entries)
        /\ IsSuffix(<<writer.entry>>, Append(logged, writer.entry))
        /\ wiped => IsSuffix(Append(logFile, writer.entry), Append(logged, writer.entry))
    BY <2>1, SuffixOfAppend
  <2>3. ~wiped => logFile = logged
    BY <2>1
  <2>4. IsSuffix(logged, logged)
    BY SuffixOfAppend, <2>1
  <2>5. CASE writer' = [writer EXCEPT !.pc = "truncate",
                                      !.entries = Append(logFile, writer.entry)]
             /\ wiped' = wiped
    BY <2>1, <2>2, <2>3, <2>5
  <2>6. CASE writer' = [writer EXCEPT !.pc = "truncate", !.entries = <<writer.entry>>]
             /\ wiped' = TRUE
    BY <2>1, <2>2, <2>3, <2>4, <2>6
  <2> QED BY <1>2, <2>5, <2>6 DEF ReadLog
<1>3. CASE Truncate
  <2>1. <<>> \in Seq(Entries)
    OBVIOUS
  <2> QED BY <1>3, <2>1 DEF Truncate
<1>4. CASE WriteOut
  <2>1. Append(logged, writer.entry) \in Seq(Entries) /\ <<>> \in Seq(Entries)
    BY <1>4 DEF WriteOut
  <2>2. /\ logFile' = writer.entries /\ logged' = Append(logged, writer.entry)
        /\ writer' = Unlocked /\ wiped' = wiped /\ waiting' = waiting
    BY <1>4 DEF WriteOut
  <2>3. /\ (~wiped => writer.entries = logged') /\ (wiped => IsSuffix(writer.entries, logged'))
    BY <1>4, <2>2 DEF WriteOut
  <2>4. LogTypeOK' BY <2>1, <2>2 DEF Unlocked
  <2> QED BY <2>2, <2>3, <2>4 DEF Unlocked
<1>5. CASE AppendLost
  <2>1. IsSuffix(<<>>, logged) /\ IsSuffix(logged, logged) /\ <<>> \in Seq(Entries)
    <3>1. writer.entry \in Entries BY <1>5 DEF AppendLost
    <3> QED BY <3>1, SuffixOfAppend, EmptySeq
  <2>2. wiped' = (wiped \/ writer.pc = "write") /\ writer' = Unlocked
        /\ UNCHANGED <<logFile, waiting, logged>>
    BY <1>5 DEF AppendLost
  <2>3. LogTypeOK'
    <3>1. wiped' \in BOOLEAN
      BY <2>2, Zenon
    <3> QED BY <2>1, <2>2, <3>1 DEF Unlocked
  <2>4. ~wiped' => logFile = logged
    BY <1>5, <2>2 DEF AppendLost
  <2>5. wiped' => IsSuffix(logFile, logged)
    BY <1>5, <2>1, <2>2 DEF AppendLost
  <2> QED BY <2>2, <2>3, <2>4, <2>5 DEF Unlocked
<1>6. CASE UNCHANGED logVars BY <1>6 DEF logVars
<1> QED BY <1>1, <1>2, <1>3, <1>4, <1>5, <1>6 DEF LogNext

\* Between two appends the file is the list of what was written, in order, and
\* after a write that was cut short an end of that list: for any number of entries,
\* failures and crashes.
THEOREM LogInOrder == LogSpec => []LogKeepsEntries
<1>1. LogInit => LogInv
  <2>1. <<>> \in Seq(Entries)
    OBVIOUS
  <2>2. Unlocked \in [entry : Entries \cup {NoEntry}, pc : {"free", "read", "truncate", "write"},
                      entries : Seq(Entries)] /\ Unlocked.pc = "free"
    BY <2>1 DEF Unlocked
  <2>3. LogInit => LogTypeOK BY <2>1, <2>2 DEF LogInit, LogTypeOK
  <2> QED BY <2>3 DEF LogInit, LogInv, LogKeepsEntries, InHand, Unlocked
<1> QED BY <1>1, LogStep, PTL DEF LogSpec, LogInv

-----------------------------------------------------------------------------
(* Console. *)

\* One transaction, its evaluations and what is told of it, on their own.
ConsoleSpec == ConsoleInit /\ [][ConsoleNext]_consoleVars

Kinds == Panel \cup {"synthesis", "final", "ERROR"}

Outcomes == UNION {[D -> PanelScores \cup {Silent}] : D \in SUBSET Panel}
ConsoleTypeOK ==
    /\ ran \in Seq(Outcomes)
    /\ phase \in {"idle", "gather", "final", "audit"} /\ (phase # "idle" => ran # <<>>)
    /\ stream \in Seq([kind : Kinds, run : Nat]) /\ reading \in 0..Len(stream)
    /\ held = [agents |-> held.agents, synthesis |-> held.synthesis, status |-> held.status]
    /\ held.agents \in [DOMAIN held.agents -> Nat] /\ DOMAIN held.agents \subseteq Panel
    /\ held.synthesis \in Nat
    /\ appRow = [status |-> appRow.status, shown |-> appRow.shown, run |-> appRow.run,
                 reason |-> appRow.reason, challenged |-> appRow.challenged]
    /\ appRow.run \in Nat /\ appRow.challenged \in Nat

\* An event of evaluation n is among the first k of the topic.
Among(k, kind, n) == \E i \in 1..k : stream[i].kind = kind /\ stream[i].run = n
Decided(n) == Among(Len(stream), "final", n)

\* Evaluations follow each other in the topic; a decision comes after everything it was
\* made of, of an evaluation that is over; the orchestrator's place in its evaluation
\* says what it has published of it.
Ordered ==
    /\ \A i \in 1..Len(stream) : stream[i].run \in 1..Len(ran)
    /\ \A i, j \in 1..Len(stream) : i <= j => stream[i].run <= stream[j].run
Complete(k, n) == Among(k, "synthesis", n) /\ \A a \in Panel : Among(k, a, n)
DecisionsWhole ==
    \A j \in 1..Len(stream) : stream[j].kind = "final" =>
        /\ Complete(j - 1, stream[j].run) /\ Told(stream[j].run) # {}
        /\ stream[j].run = Len(ran) => phase \in {"audit", "idle"}
Gathering ==
    /\ phase \in {"gather", "final"} =>
           \A a \in DOMAIN ran[Len(ran)] : Among(Len(stream), a, Len(ran))
    /\ phase = "final" => /\ DOMAIN ran[Len(ran)] = Panel /\ Told(Len(ran)) # {}
                          /\ Among(Len(stream), "synthesis", Len(ran))
StreamRight == Ordered /\ DecisionsWhole /\ Gathering

\* Until it is closed the state holds, of each agent, an evaluation no older than what
\* was read and no newer than what is still to be read.
HeldRight ==
    ~Over =>
        /\ \A i \in 1..reading :
               /\ stream[i].kind \in Panel => /\ stream[i].kind \in DOMAIN held.agents
                                              /\ stream[i].run <= held.agents[stream[i].kind]
               /\ stream[i].kind = "synthesis" => stream[i].run <= held.synthesis
        /\ \A j \in (reading + 1)..Len(stream) :
               /\ \A a \in DOMAIN held.agents : held.agents[a] <= stream[j].run
               /\ held.synthesis <= stream[j].run
        /\ \A a \in DOMAIN held.agents : held.agents[a] <= Len(ran)
        /\ held.synthesis <= Len(ran)

\* What is told of a decision is made of the evaluation it was made of.
Whole(n) == [agents |-> [a \in Panel |-> n], synthesis |-> n]
Tales == {BuildTxnLogEntry(Whole(n), n) : n \in {m \in 1..Len(ran) : Decided(m)}}
ToldRight ==
    /\ appRow.run # 0 => /\ Decided(appRow.run)
                         /\ appRow.shown = BuildFraudAnalysis(Whole(appRow.run), appRow.run)
    /\ logEntries \in Seq(Tales)
    /\ appRow.challenged # 0 =>
           /\ Decided(appRow.challenged)
           /\ appRow.reason \in TriggerReasons(Whole(appRow.challenged), appRow.challenged)

ConsoleInv == ConsoleTypeOK /\ StreamRight /\ HeldRight /\ ToldRight

\* The topic grows by events of the newest evaluation, and an evaluation that was
\* decided does not change.
Growing ==
    /\ about' = about /\ Len(stream) <= Len(stream') /\ Len(ran) <= Len(ran')
    /\ \A i \in 1..Len(stream) : stream'[i] = stream[i]
    /\ \A i \in (Len(stream) + 1)..Len(stream') : stream'[i].run = Len(ran)
    /\ \A n \in 1..Len(ran) : Decided(n) => ran'[n] = ran[n]

LEMMA Lengths ==
    ASSUME ConsoleTypeOK
    PROVE  /\ Len(ran) \in Nat /\ Len(stream) \in Nat /\ reading \in Nat /\ reading <= Len(stream)
           /\ \A n \in 1..Len(ran) : ran[n] \in Outcomes
           /\ \A i \in 1..Len(stream) : stream[i] \in [kind : Kinds, run : Nat]
<1>1. Len(ran) \in Nat /\ Len(stream) \in Nat
  BY LenProperties DEF ConsoleTypeOK
<1>2. \A n \in 1..Len(ran) : ran[n] \in Outcomes
  BY ElementOfSeq DEF ConsoleTypeOK
<1>3. \A i \in 1..Len(stream) : stream[i] \in [kind : Kinds, run : Nat]
  BY ElementOfSeq DEF ConsoleTypeOK
<1>4. reading \in Nat /\ reading <= Len(stream)
  BY <1>1 DEF ConsoleTypeOK
<1> QED
  BY <1>1, <1>2, <1>3, <1>4

\* What was published stays where it is.
LEMMA AmongStays ==
    ASSUME ConsoleTypeOK, Growing, NEW k \in 0..Len(stream), NEW kind, NEW n, Among(k, kind, n)
    PROVE  Among(k, kind, n)'
<1>1. k <= Len(stream) /\ k \in Nat /\ Len(stream) \in Nat
  BY Lengths
<1>2. PICK i \in 1..k : stream[i].kind = kind /\ stream[i].run = n
  BY DEF Among
<1>3. i \in 1..Len(stream) /\ stream'[i] = stream[i]
  BY <1>1 DEF Growing
<1> QED
  BY <1>2, <1>3 DEF Among

LEMMA DecidedStays ==
    ASSUME ConsoleTypeOK, ConsoleTypeOK', Growing, NEW n, Decided(n)
    PROVE  Decided(n)'
<1>1. Len(stream) \in Nat /\ Len(stream)' \in Nat /\ Len(stream) <= Len(stream')
  BY LenProperties DEF ConsoleTypeOK, Growing
<1>2. PICK i \in 1..Len(stream) : stream[i].kind = "final" /\ stream[i].run = n
  BY DEF Decided, Among
<1>3. i \in 1..Len(stream') /\ stream'[i] = stream[i]
  BY <1>1 DEF Growing
<1> QED
  BY <1>2, <1>3 DEF Decided, Among

\* The state stays right while the orchestrator moves.
LEMMA HeldStays ==
    ASSUME ConsoleTypeOK, ConsoleTypeOK', HeldRight, Growing, UNCHANGED <<held, reading>>
    PROVE  HeldRight'
<1>1. /\ Len(ran) \in Nat /\ Len(ran') \in Nat /\ Len(stream) \in Nat /\ Len(stream') \in Nat
      /\ reading \in Nat /\ reading <= Len(stream)
  BY LenProperties DEF ConsoleTypeOK
<1> SUFFICES ASSUME ~Over
             PROVE  HeldRight'
  BY DEF HeldRight, Over
<1>2. ASSUME NEW i \in 1..reading
      PROVE  /\ stream'[i].kind \in Panel => /\ stream'[i].kind \in DOMAIN held.agents
                                             /\ stream'[i].run <= held.agents[stream'[i].kind]
             /\ stream'[i].kind = "synthesis" => stream'[i].run <= held.synthesis
  <2>1. i \in 1..Len(stream) /\ stream'[i] = stream[i]
    BY <1>1 DEF Growing
  <2> QED
    BY <2>1 DEF HeldRight
<1>3. /\ \A a \in DOMAIN held.agents : held.agents[a] \in Nat /\ held.agents[a] <= Len(ran)
      /\ held.synthesis \in Nat /\ held.synthesis <= Len(ran)
  BY DEF HeldRight, ConsoleTypeOK
<1>4. ASSUME NEW j \in (reading + 1)..Len(stream')
      PROVE  /\ \A a \in DOMAIN held.agents : held.agents[a] <= stream'[j].run
             /\ held.synthesis <= stream'[j].run
  <2>1. CASE j <= Len(stream)
    <3>1. j \in 1..Len(stream) /\ j \in (reading + 1)..Len(stream)
      BY <1>1, <2>1
    <3> QED
      BY <3>1 DEF HeldRight, Growing
  <2>2. CASE j > Len(stream)
    <3>1. j \in (Len(stream) + 1)..Len(stream')
      BY <1>1, <2>2
    <3> QED
      BY <1>3, <3>1 DEF Growing
  <2> QED
    BY <1>1, <2>1, <2>2
<1>5. /\ \A a \in DOMAIN held.agents : held.agents[a] <= Len(ran')
      /\ held.synthesis <= Len(ran')
  BY <1>1, <1>3 DEF Growing
<1> QED
  BY <1>2, <1>4, <1>5 DEF HeldRight

\* What can be told of an evaluation depends on it and on the transaction alone.
LEMMA SameTale ==
    ASSUME NEW n, ran'[n] = ran[n], about' = about
    PROVE  /\ Told(n)' = Told(n)
           /\ BuildFraudAnalysis(Whole(n), n)' = BuildFraudAnalysis(Whole(n), n)
           /\ BuildTxnLogEntry(Whole(n), n)' = BuildTxnLogEntry(Whole(n), n)
           /\ TriggerReasons(Whole(n), n)' = TriggerReasons(Whole(n), n)
<1>1. Told(n)' = Told(n)
  BY DEF Told
<1>2. Reports(n)' = Reports(n)
  BY <1>1 DEF Reports
<1>3. PatternOf(n)' = PatternOf(n) /\ Concludes(n)' = Concludes(n)
  BY <1>2 DEF PatternOf, Concludes
<1>4. Forced(n)' = Forced(n) /\ WeightsApplied(n)' = WeightsApplied(n)
  BY <1>1, <1>2, <1>3 DEF Forced, WeightsApplied
<1>5. LocalHour' = LocalHour
  BY DEF LocalHour
<1>6. \A b \in Panel : Whole(n).agents[b] = n
  BY DEF Whole
<1>7. DOMAIN Whole(n).agents = Panel /\ Whole(n).synthesis = n
  BY DEF Whole
<1> DEFINE whole == Whole(n)
<1> HIDE DEF whole
<1>8. HeldFlags(whole)' = HeldFlags(whole)
  <2>1. \A b \in Panel : whole.agents[b] = n
    BY <1>6 DEF whole
  <2>2. DOMAIN whole.agents = Panel
    BY <1>7 DEF whole
  <2>3. \A b \in Panel : Told(whole.agents[b])' = Told(whole.agents[b])
    BY <1>1, <2>1
  <2> QED
    BY <2>1, <2>2, <2>3 DEF HeldFlags
<1>9. HeldWeights(whole)' = HeldWeights(whole)
  <2>1. whole.synthesis = n
    BY <1>7 DEF whole
  <2> QED
    BY <1>4, <2>1 DEF HeldWeights, NoWeights
<1>10. BuildFraudAnalysis(whole, n)' = BuildFraudAnalysis(whole, n)
  BY <1>3, <1>5, <1>8, <1>9 DEF BuildFraudAnalysis
<1>11. BuildTxnLogEntry(whole, n)' = BuildTxnLogEntry(whole, n)
  BY <1>3, <1>5, <1>8, <1>9 DEF BuildTxnLogEntry
<1>12. TriggerReasons(whole, n)' = TriggerReasons(whole, n)
  <2>1. \A b \in Panel : whole.agents[b] = n
    BY <1>6 DEF whole
  <2>2. DOMAIN whole.agents = Panel
    BY <1>7 DEF whole
  <2> QED
    BY <1>1, <1>4, <2>1, <2>2, ZenonT(40) DEF TriggerReasons
<1> QED
  BY <1>1, <1>10, <1>11, <1>12 DEF whole

LEMMA ToldStays ==
    ASSUME ConsoleTypeOK, ConsoleTypeOK', StreamRight, ToldRight, Growing,
           logEntries' = logEntries, appRow'.run = appRow.run, appRow'.shown = appRow.shown,
           appRow'.challenged = appRow.challenged, appRow'.reason = appRow.reason
    PROVE  ToldRight'
<1>1. ASSUME NEW n, Decided(n)
      PROVE  /\ n \in 1..Len(ran) /\ Decided(n)' /\ ran'[n] = ran[n] /\ about' = about
             /\ n \in 1..Len(ran')
  <2>1. n \in 1..Len(ran)
    BY <1>1 DEF Decided, Among, StreamRight, Ordered
  <2>2. Len(ran) \in Nat /\ Len(ran') \in Nat
    BY LenProperties DEF ConsoleTypeOK
  <2> QED
    BY <1>1, <2>1, <2>2, DecidedStays DEF Growing
<1>2. ASSUME NEW n, Decided(n)
      PROVE  /\ BuildFraudAnalysis(Whole(n), n)' = BuildFraudAnalysis(Whole(n), n)
             /\ BuildTxnLogEntry(Whole(n), n)' = BuildTxnLogEntry(Whole(n), n)
             /\ TriggerReasons(Whole(n), n)' = TriggerReasons(Whole(n), n)
  BY <1>1, <1>2, SameTale
<1>3. ASSUME NEW n, n = appRow.run, n # 0
      PROVE  Decided(n)' /\ appRow.shown = BuildFraudAnalysis(Whole(n), n)'
  <2>1. Decided(n) /\ appRow.shown = BuildFraudAnalysis(Whole(n), n)
    BY <1>3 DEF ToldRight
  <2> QED
    BY <1>1, <1>2, <2>1
<1>4. ASSUME NEW n, n = appRow.challenged, n # 0
      PROVE  Decided(n)' /\ appRow.reason \in TriggerReasons(Whole(n), n)'
  <2>1. Decided(n) /\ appRow.reason \in TriggerReasons(Whole(n), n)
    BY <1>4 DEF ToldRight
  <2> QED
    BY <1>1, <1>2, <2>1
<1>5. logEntries \in Seq(Tales')
  <2>1. ASSUME NEW e \in Tales
        PROVE  e \in Tales'
    <3>1. PICK n \in 1..Len(ran) : Decided(n) /\ e = BuildTxnLogEntry(Whole(n), n)
      BY DEF Tales
    <3>2. n \in 1..Len(ran') /\ Decided(n)' /\ e = BuildTxnLogEntry(Whole(n), n)'
      BY <1>1, <1>2, <3>1
    <3> QED
      BY <3>2 DEF Tales
  <2>2. Tales \subseteq Tales' /\ logEntries \in Seq(Tales)
    BY <2>1 DEF ToldRight
  <2> QED
    BY <2>2, SeqMonotonic
<1>6. appRow'.run # 0 => /\ Decided(appRow.run)'
                         /\ appRow'.shown = BuildFraudAnalysis(Whole(appRow.run), appRow.run)'
  BY <1>3
<1>7. appRow'.challenged # 0 =>
          /\ Decided(appRow.challenged)'
          /\ appRow'.reason \in TriggerReasons(Whole(appRow.challenged), appRow.challenged)'
  BY <1>4
<1> QED
  BY <1>5, <1>6, <1>7 DEF ToldRight

\* The topic stays in order, whatever is published of the newest evaluation.
LEMMA OrderKept ==
    ASSUME ConsoleTypeOK, ConsoleTypeOK', Ordered, Growing, Len(stream') # Len(stream) => ran # <<>>
    PROVE  Ordered'
<1>1. /\ Len(ran) \in Nat /\ Len(ran') \in Nat /\ Len(stream) \in Nat /\ Len(stream') \in Nat
      /\ Len(stream) <= Len(stream') /\ Len(ran) <= Len(ran') /\ (ran # <<>> => Len(ran) > 0)
  BY LenProperties, EmptySeq DEF ConsoleTypeOK, Growing
<1>2. ASSUME NEW i \in 1..Len(stream')
      PROVE  /\ stream'[i].run \in 1..Len(ran)
             /\ i \in 1..Len(stream) => stream'[i] = stream[i]
             /\ i \notin 1..Len(stream) => stream'[i].run = Len(ran)
  <2>1. CASE i \in 1..Len(stream)
    BY <2>1 DEF Growing, Ordered
  <2>2. CASE i \notin 1..Len(stream)
    <3>1. i \in (Len(stream) + 1)..Len(stream') /\ Len(stream') # Len(stream)
      BY <1>1, <2>2
    <3> QED
      BY <1>1, <2>2, <3>1 DEF Growing
  <2> QED
    BY <2>1, <2>2
<1>3. ASSUME NEW i \in 1..Len(stream'), NEW j \in 1..Len(stream'), i <= j
      PROVE  stream'[i].run <= stream'[j].run
  <2>1. CASE j \in 1..Len(stream)
    <3>1. i \in 1..Len(stream)
      BY <1>1, <1>3, <2>1
    <3> QED
      BY <1>2, <1>3, <2>1, <3>1 DEF Ordered
  <2>2. CASE j \notin 1..Len(stream)
    <3>1. stream'[j].run = Len(ran) /\ stream'[i].run \in 1..Len(ran)
      BY <1>2, <2>2
    <3> QED
      BY <1>1, <3>1
  <2> QED
    BY <2>1, <2>2
<1>4. \A i \in 1..Len(stream') : stream'[i].run \in 1..Len(ran')
  BY <1>1, <1>2
<1> QED
  BY <1>3, <1>4 DEF Ordered

\* Decisions stay whole, if one that is published now is.
LEMMA DecisionsKept ==
    ASSUME ConsoleTypeOK, ConsoleTypeOK', Ordered, DecisionsWhole, Growing,
           phase \in {"audit", "idle"} /\ Len(ran') = Len(ran) => phase' \in {"audit", "idle"},
           \A j \in (Len(stream) + 1)..Len(stream') : stream'[j].kind = "final" =>
               /\ Complete(Len(stream), Len(ran)) /\ Told(Len(ran)) # {} /\ ran' = ran
               /\ phase' \in {"audit", "idle"}
    PROVE  DecisionsWhole'
<1>1. /\ Len(ran) \in Nat /\ Len(ran') \in Nat /\ Len(stream) \in Nat /\ Len(stream') \in Nat
      /\ Len(stream) <= Len(stream') /\ Len(ran) <= Len(ran')
  BY LenProperties DEF ConsoleTypeOK, Growing
<1> SUFFICES ASSUME NEW j \in 1..Len(stream'), NEW n, n = stream'[j].run,
                    stream'[j].kind = "final"
             PROVE  /\ Complete(j - 1, n)' /\ Told(n)' # {}
                    /\ n = Len(ran') => phase' \in {"audit", "idle"}
  BY DEF DecisionsWhole
<1>2. ASSUME NEW k \in 0..Len(stream), NEW m, Complete(k, m)
      PROVE  Complete(k, m)'
  BY <1>2, AmongStays DEF Complete
<1>3. CASE j \in 1..Len(stream)
  <2>1. /\ n = stream[j].run /\ Complete(j - 1, n) /\ Told(n) # {} /\ n \in 1..Len(ran)
        /\ n = Len(ran) => phase \in {"audit", "idle"}
    BY <1>3 DEF Growing, DecisionsWhole, Ordered
  <2>2. Decided(n)
    BY <1>3, <2>1 DEF Decided, Among, Growing
  <2>3. Told(n)' = Told(n)
    BY <2>1, <2>2, SameTale DEF Growing
  <2>4. j - 1 \in 0..Len(stream)
    BY <1>1, <1>3
  <2>5. Complete(j - 1, n)'
    BY <1>2, <2>1, <2>4
  <2>6. n = Len(ran') => phase' \in {"audit", "idle"}
    BY <1>1, <2>1
  <2> QED
    BY <2>1, <2>3, <2>5, <2>6
<1>4. CASE j \notin 1..Len(stream)
  <2>1. j \in (Len(stream) + 1)..Len(stream')
    BY <1>1, <1>4
  <2>2. /\ n = Len(ran) /\ Complete(Len(stream), n) /\ Told(n) # {} /\ ran' = ran
        /\ phase' \in {"audit", "idle"}
    BY <2>1 DEF Growing
  <2>3. Told(n)' = Told(n)
    BY <2>2 DEF Told
  <2>4. ASSUME NEW k \in 0..Len(stream), k = Len(stream)
        PROVE  Complete(j - 1, n)'
    <3>1. Complete(k, n)'
      BY <1>2, <2>2, <2>4
    <3>2. \A i \in 1..k : i \in 1..(j - 1)
      BY <1>1, <2>1, <2>4
    <3> QED
      BY <3>1, <3>2 DEF Complete, Among
  <2>5. Complete(j - 1, n)'
    BY <1>1, <2>4
  <2> QED
    BY <2>2, <2>3, <2>5
<1> QED
  BY <1>3, <1>4

\* What a step of the orchestrator has to show.
LEMMA OrchestratorMoves ==
    ASSUME ConsoleInv, ConsoleTypeOK', Growing, UNCHANGED <<reading, held, appRow, logEntries>>,
           Len(stream') # Len(stream) => ran # <<>>,
           phase \in {"audit", "idle"} /\ Len(ran') = Len(ran) => phase' \in {"audit", "idle"},
           \A j \in (Len(stream) + 1)..Len(stream') : stream'[j].kind = "final" =>
               /\ Complete(Len(stream), Len(ran)) /\ Told(Len(ran)) # {} /\ ran' = ran
               /\ phase' \in {"audit", "idle"},
           Gathering'
    PROVE  ConsoleInv'
<1>1. ConsoleTypeOK /\ StreamRight /\ HeldRight /\ ToldRight /\ Ordered /\ DecisionsWhole
  BY DEF ConsoleInv, StreamRight
<1>2. Ordered'
  BY <1>1, OrderKept
<1>3. DecisionsWhole'
  BY <1>1, DecisionsKept
<1>4. HeldRight'
  BY <1>1, HeldStays
<1>5. ToldRight'
  BY <1>1, ToldStays
<1> QED
  BY <1>2, <1>3, <1>4, <1>5 DEF ConsoleInv, StreamRight

LEMMA PublishedEvent ==
    ASSUME ConsoleTypeOK, NEW kind \in Kinds, Published(kind)
    PROVE  /\ stream' \in Seq([kind : Kinds, run : Nat]) /\ Len(stream') = Len(stream) + 1
           /\ \A i \in 1..Len(stream) : stream'[i] = stream[i]
           /\ stream'[Len(stream) + 1] = [kind |-> kind, run |-> Len(ran)]
           /\ reading \in 0..Len(stream')
<1> DEFINE event == [kind |-> kind, run |-> Len(ran)]
<1>1. event \in [kind : Kinds, run : Nat] /\ Len(stream) \in Nat /\ reading \in 0..Len(stream)
  BY LenProperties DEF ConsoleTypeOK
<1> HIDE DEF event
<1>2. stream' = Append(stream, event) /\ stream \in Seq([kind : Kinds, run : Nat])
  BY DEF Published, ConsoleTypeOK, event
<1>3. /\ stream' \in Seq([kind : Kinds, run : Nat]) /\ Len(stream') = Len(stream) + 1
      /\ \A i \in 1..Len(stream) : stream'[i] = stream[i]
      /\ stream'[Len(stream) + 1] = event
  BY <1>1, <1>2, AppendProperties
<1>4. reading \in 0..Len(stream')
  BY <1>1, <1>3
<1> QED
  BY <1>3, <1>4 DEF event

LEMMA BeginsRight ==
    ASSUME ConsoleInv, RunBegins
    PROVE  ConsoleInv'
<1>1. ConsoleTypeOK
  BY DEF ConsoleInv
<1>2. /\ ran' = Append(ran, <<>>) /\ phase = "idle" /\ phase' = "gather"
      /\ UNCHANGED <<about, stream, reading, held, appRow, logEntries>>
  BY DEF RunBegins, projecting
<1>3. <<>> \in Outcomes /\ DOMAIN <<>> = {}
  <2>1. <<>> \in [{} -> PanelScores \cup {Silent}]
    BY EmptySeq
  <2> QED
    BY <2>1 DEF Outcomes
<1>4. /\ ran' \in Seq(Outcomes) /\ Len(ran) \in Nat /\ Len(ran') = Len(ran) + 1
      /\ \A n \in 1..Len(ran) : ran'[n] = ran[n]
      /\ ran'[Len(ran) + 1] = <<>>
  BY <1>1, <1>2, <1>3, AppendProperties, LenProperties DEF ConsoleTypeOK
<1>5. ConsoleTypeOK'
  <2>1. ran' # <<>>
    BY <1>4, EmptySeq
  <2> QED
    BY <1>1, <1>2, <1>4, <2>1 DEF ConsoleTypeOK
<1>6. Growing
  <2>1. Len(stream) \in Nat
    BY <1>1, Lengths
  <2> QED
    BY <1>2, <1>4, <2>1 DEF Growing
<1>7. Gathering'
  BY <1>2, <1>3, <1>4 DEF Gathering
<1> QED
  BY <1>2, <1>4, <1>5, <1>6, <1>7, Lengths, OrchestratorMoves, <1>1

\* The steps after an evaluation's fan-out, and its end.
LEMMA FanInRight ==
    ASSUME ConsoleInv, Fuses \/ Decides \/ Audits \/ RunStops
    PROVE  ConsoleInv'
<1>1. ConsoleTypeOK /\ Gathering /\ StreamRight
  BY DEF ConsoleInv, StreamRight
<1>2. UNCHANGED <<about, ran, reading, held, appRow, logEntries>>
  BY DEF Fuses, Decides, Audits, RunStops, projecting
<1>3. Len(stream) \in Nat /\ Len(ran) \in Nat
  BY <1>1, Lengths
<1>4. ASSUME UNCHANGED stream, phase' = "idle"
      PROVE  ConsoleInv'
  <2>1. ConsoleTypeOK'
    BY <1>1, <1>2, <1>4 DEF ConsoleTypeOK
  <2>2. Growing
    BY <1>2, <1>3, <1>4 DEF Growing
  <2>3. Gathering'
    BY <1>4 DEF Gathering
  <2>4. \A j \in (Len(stream) + 1)..Len(stream') : FALSE
    BY <1>3, <1>4
  <2> QED
    BY <1>2, <1>4, <2>1, <2>2, <2>3, <2>4, OrchestratorMoves
<1>5. ASSUME NEW kind \in Kinds, Published(kind), phase \in {"gather", "final"},
             phase' \in {"idle", "final", "audit"}, Gathering',
             kind = "final" => /\ Complete(Len(stream), Len(ran)) /\ Told(Len(ran)) # {}
                               /\ phase' = "audit"
      PROVE  ConsoleInv'
  <2>1. /\ stream' \in Seq([kind : Kinds, run : Nat]) /\ Len(stream') = Len(stream) + 1
        /\ \A i \in 1..Len(stream) : stream'[i] = stream[i]
        /\ stream'[Len(stream) + 1] = [kind |-> kind, run |-> Len(ran)]
        /\ reading \in 0..Len(stream')
    BY <1>1, <1>5, PublishedEvent
  <2>2. ran # <<>>
    BY <1>1, <1>5 DEF ConsoleTypeOK
  <2>3. ConsoleTypeOK'
    BY <1>1, <1>2, <1>5, <2>1, <2>2 DEF ConsoleTypeOK
  <2>4. \A i \in (Len(stream) + 1)..Len(stream') :
            stream'[i].run = Len(ran) /\ stream'[i].kind = kind
    BY <1>3, <2>1
  <2>5. Growing
    BY <1>2, <1>3, <2>1, <2>4 DEF Growing
  <2> QED
    BY <1>2, <1>5, <2>2, <2>3, <2>4, <2>5, OrchestratorMoves
<1>6. {"synthesis", "final", "ERROR"} \subseteq Kinds
  BY DEF Kinds
<1>7. CASE Fuses
  <2>1. phase = "gather" /\ DOMAIN ran[Len(ran)] = Panel
    BY <1>7 DEF Fuses
  <2>2. CASE Published("ERROR") /\ phase' = "idle"
    <3>1. Gathering'
      BY <2>2 DEF Gathering
    <3> QED
      BY <1>5, <1>6, <2>1, <2>2, <3>1
  <2>3. CASE Told(Len(ran)) # {} /\ Published("synthesis") /\ phase' = "final"
    <3>1. /\ Len(stream') = Len(stream) + 1
          /\ \A i \in 1..Len(stream) : stream'[i] = stream[i]
          /\ stream'[Len(stream) + 1] = [kind |-> "synthesis", run |-> Len(ran)]
      BY <1>1, <1>6, <2>3, PublishedEvent
    <3>2. \A a \in Panel : Among(Len(stream), a, Len(ran))
      BY <1>1, <2>1 DEF Gathering
    <3>3. \A a \in Panel : Among(Len(stream), a, Len(ran))'
      BY <1>2, <1>3, <3>1, <3>2 DEF Among
    <3>4. Among(Len(stream), "synthesis", Len(ran))'
      BY <1>2, <1>3, <3>1 DEF Among
    <3>5. Told(Len(ran))' # {}
      BY <1>2, <2>3 DEF Told
    <3>6. Gathering'
      BY <1>2, <2>1, <2>3, <3>3, <3>4, <3>5 DEF Gathering
    <3> QED
      BY <1>5, <1>6, <2>1, <2>3, <3>6
  <2> QED
    BY <1>7, <2>2, <2>3 DEF Fuses
<1>8. CASE Decides
  <2>1. phase = "final" /\ phase' = "audit" /\ Published("final")
    BY <1>8 DEF Decides
  <2>2. Gathering'
    BY <2>1 DEF Gathering
  <2>3. Complete(Len(stream), Len(ran)) /\ Told(Len(ran)) # {}
    BY <1>1, <2>1 DEF Gathering, Complete
  <2> QED
    BY <1>5, <1>6, <2>1, <2>2, <2>3
<1> QED
  BY <1>4, <1>7, <1>8 DEF Audits, RunStops

\* An agent comes back.
LEMMA AgentRight ==
    ASSUME ConsoleInv, NEW a \in Panel, AgentDone(a)
    PROVE  ConsoleInv'
<1>1. ConsoleTypeOK /\ Gathering /\ DecisionsWhole
  BY DEF ConsoleInv, StreamRight
<1>2. /\ phase = "gather" /\ phase' = phase /\ Published(a) /\ ran # <<>> /\ a \in Kinds
      /\ UNCHANGED <<about, reading, held, appRow, logEntries>>
  BY <1>1 DEF AgentDone, projecting, ConsoleTypeOK, Kinds
<1> DEFINE last == Len(ran)
<1>3. /\ Len(stream) \in Nat /\ last \in Nat /\ last \in 1..Len(ran) /\ ran \in Seq(Outcomes)
      /\ ran[last] \in Outcomes
  BY <1>1, <1>2, Lengths, EmptySeq DEF ConsoleTypeOK
<1>4. PICK s \in PanelScores \cup {Silent} :
          ran' = [ran EXCEPT ![last] = [b \in DOMAIN ran[last] \cup {a} |->
                                            IF b = a THEN s ELSE ran[last][b]]]
  BY DEF AgentDone
<1> DEFINE more == [b \in DOMAIN ran[last] \cup {a} |-> IF b = a THEN s ELSE ran[last][b]]
<1>5. more \in Outcomes /\ DOMAIN more = DOMAIN ran[last] \cup {a}
  <2>1. PICK D \in SUBSET Panel : ran[last] \in [D -> PanelScores \cup {Silent}]
    BY <1>3 DEF Outcomes
  <2>2. more \in [D \cup {a} -> PanelScores \cup {Silent}] /\ D \cup {a} \in SUBSET Panel
    BY <2>1
  <2> QED
    BY <2>2 DEF Outcomes
<1> HIDE DEF more, last
<1>6. /\ ran' \in Seq(Outcomes) /\ Len(ran') = Len(ran)
      /\ \A n \in 1..Len(ran) : ran'[n] = IF n = last THEN more ELSE ran[n]
  <2>1. ran' = [ran EXCEPT ![last] = more]
    BY <1>4 DEF more
  <2> QED
    BY <1>3, <1>5, <2>1, ExceptSeq
<1>7. /\ stream' \in Seq([kind : Kinds, run : Nat]) /\ Len(stream') = Len(stream) + 1
      /\ \A i \in 1..Len(stream) : stream'[i] = stream[i]
      /\ stream'[Len(stream) + 1] = [kind |-> a, run |-> Len(ran)]
      /\ reading \in 0..Len(stream')
  BY <1>1, <1>2, PublishedEvent
<1>8. ConsoleTypeOK'
  <2>1. ran' # <<>>
    BY <1>3, <1>6, EmptySeq
  <2> QED
    BY <1>1, <1>2, <1>6, <1>7, <2>1 DEF ConsoleTypeOK
<1>9. \A i \in (Len(stream) + 1)..Len(stream') :
          stream'[i].run = Len(ran) /\ stream'[i].kind = a
  BY <1>3, <1>7
<1>10. ASSUME NEW n \in 1..Len(ran), Decided(n)
       PROVE  ran'[n] = ran[n]
  <2>1. n # last
    BY <1>1, <1>2, <1>10 DEF Decided, Among, DecisionsWhole, last
  <2> QED
    BY <1>6, <2>1
<1>11. Growing
  BY <1>2, <1>3, <1>6, <1>7, <1>9, <1>10 DEF Growing
<1>12. Gathering'
  <2>1. DOMAIN ran'[Len(ran')] = DOMAIN ran[Len(ran)] \cup {a}
    BY <1>3, <1>5, <1>6 DEF last
  <2>2. \A b \in DOMAIN ran[Len(ran)] : Among(Len(stream), b, Len(ran))
    BY <1>1, <1>2 DEF Gathering
  <2>3. \A b \in DOMAIN ran[Len(ran)] : Among(Len(stream), b, Len(ran))'
    BY <1>3, <1>6, <1>7, <2>2 DEF Among
  <2>4. Among(Len(stream), a, Len(ran))'
    BY <1>3, <1>6, <1>7 DEF Among
  <2>5. \A b \in DOMAIN ran'[Len(ran')] : Among(Len(stream), b, Len(ran))'
    BY <2>1, <2>3, <2>4
  <2> QED
    BY <1>2, <2>5 DEF Gathering
<1>13. a # "final"
  BY ConsoleAssumption DEF Agents
<1> QED
  BY <1>2, <1>6, <1>8, <1>9, <1>11, <1>12, <1>13, OrchestratorMoves

\* The steps of the projector, and of the customer, do not touch the topic.
LEMMA TopicStays ==
    ASSUME ConsoleInv, UNCHANGED orchestrating
    PROVE  StreamRight' /\ Growing
<1>1. StreamRight /\ ConsoleTypeOK /\ UNCHANGED <<about, ran, phase, stream>>
  BY DEF ConsoleInv, orchestrating
<1>2. Ordered' /\ Gathering'
  BY <1>1 DEF StreamRight, Ordered, Gathering, Among, Told
<1>3. DecisionsWhole'
  BY <1>1 DEF StreamRight, DecisionsWhole, Complete, Among, Told
<1>4. Growing
  BY <1>1, Lengths DEF Growing
<1> QED
  BY <1>2, <1>3, <1>4 DEF StreamRight

\* The event at the projector's position.
LEMMA EventTyped ==
    ASSUME ConsoleInv, Advances
    PROVE  /\ reading + 1 \in 1..Len(stream) /\ reading \in Nat /\ Len(stream) \in Nat
           /\ reading' = reading + 1 /\ reading' \in 0..Len(stream) /\ Len(ran) \in Nat
           /\ Event = stream[reading + 1] /\ Event.kind \in Kinds
           /\ Event.run \in 1..Len(ran) /\ Event.run \in Nat
           /\ \A i \in 1..reading : stream[i].run <= Event.run
           /\ \A j \in (reading' + 1)..Len(stream) : Event.run <= stream[j].run
           /\ \A i \in 1..Len(stream) : stream[i].run \in Nat
<1>1. ConsoleTypeOK /\ Ordered
  BY DEF ConsoleInv, StreamRight
<1>2. /\ reading \in Nat /\ Len(stream) \in Nat /\ reading < Len(stream) /\ reading' = reading + 1
      /\ \A i \in 1..Len(stream) : stream[i] \in [kind : Kinds, run : Nat]
  BY <1>1, Lengths DEF Advances
<1>3. reading + 1 \in 1..Len(stream) /\ reading' \in 0..Len(stream)
  BY <1>2
<1>4. /\ \A i \in 1..reading : i \in 1..Len(stream) /\ i <= reading + 1
      /\ \A j \in (reading' + 1)..Len(stream) : j \in 1..Len(stream) /\ reading + 1 <= j
  BY <1>2
<1>5. Event = stream[reading + 1] /\ Event.run \in 1..Len(ran)
  BY <1>1, <1>3 DEF Event, Ordered
<1>6. /\ \A i \in 1..reading : stream[i].run <= Event.run
      /\ \A j \in (reading' + 1)..Len(stream) : Event.run <= stream[j].run
  BY <1>1, <1>3, <1>4, <1>5 DEF Ordered
<1> QED
  BY <1>1, <1>2, <1>3, <1>5, <1>6, Lengths

\* An agent's completion, or the synthesis, is taken into the state.
LEMMA TakenRight ==
    ASSUME ConsoleInv, TakesAgent \/ TakesSynthesis
    PROVE  ConsoleInv'
<1>1. ConsoleTypeOK /\ HeldRight /\ ToldRight /\ StreamRight
  BY DEF ConsoleInv
<1>2. Advances /\ ~Over /\ UNCHANGED orchestrating /\ UNCHANGED <<appRow, logEntries>>
  BY DEF TakesAgent, TakesSynthesis
<1>3. UNCHANGED <<about, ran, phase, stream>>
  BY <1>2 DEF orchestrating
<1> DEFINE n == Event.run  kind == Event.kind
<1>4. /\ reading + 1 \in 1..Len(stream) /\ reading \in Nat /\ Len(stream) \in Nat
      /\ reading' = reading + 1 /\ reading' \in 0..Len(stream) /\ Len(ran) \in Nat
      /\ kind = stream[reading + 1].kind /\ n = stream[reading + 1].run
      /\ kind \in Kinds /\ n \in 1..Len(ran) /\ n \in Nat
      /\ \A i \in 1..reading : stream[i].run <= n
      /\ \A j \in (reading' + 1)..Len(stream) : n <= stream[j].run
      /\ \A i \in 1..Len(stream) : stream[i].run \in Nat
  BY <1>2, EventTyped
<1>5. Panel \subseteq Agents /\ "synthesis" \notin Agents /\ "final" \notin Agents /\ "ERROR" \notin Agents
  BY ConsoleAssumption DEF Agents
<1> HIDE DEF n, kind
<1>6. /\ \A i \in 1..reading :
             /\ stream[i].kind \in Panel => /\ stream[i].kind \in DOMAIN held.agents
                                            /\ stream[i].run <= held.agents[stream[i].kind]
             /\ stream[i].kind = "synthesis" => stream[i].run <= held.synthesis
      /\ \A j \in (reading' + 1)..Len(stream) :
             /\ \A a \in DOMAIN held.agents : held.agents[a] <= stream[j].run
             /\ held.synthesis <= stream[j].run
      /\ \A a \in DOMAIN held.agents : held.agents[a] <= Len(ran) /\ held.agents[a] \in Nat
      /\ held.synthesis <= Len(ran)
  <2>1. \A j \in (reading' + 1)..Len(stream) : j \in (reading + 1)..Len(stream)
    BY <1>4
  <2> QED
    BY <1>1, <1>2, <2>1 DEF HeldRight, ConsoleTypeOK
<1>7. \A i \in 1..reading' : i \in 1..reading \/ i = reading + 1
  BY <1>4
<1>8. CASE TakesAgent
  <2>1. /\ kind \in Panel
        /\ held' = [held EXCEPT !.agents = [a \in DOMAIN @ \cup {kind} |->
                                               IF a = kind THEN n ELSE @[a]]]
    BY <1>4, <1>5, <1>8 DEF TakesAgent, Kinds, kind, n
  <2> DEFINE now == [a \in DOMAIN held.agents \cup {kind} |->
                        IF a = kind THEN n ELSE held.agents[a]]
  <2>2. held' = [agents |-> now, synthesis |-> held.synthesis, status |-> held.status]
    BY <1>1, <2>1 DEF ConsoleTypeOK
  <2>3. /\ DOMAIN now = DOMAIN held.agents \cup {kind} /\ now[kind] = n
        /\ \A a \in DOMAIN held.agents : a # kind => now[a] = held.agents[a]
    OBVIOUS
  <2>4. now \in [DOMAIN now -> Nat] /\ DOMAIN now \subseteq Panel
    BY <1>1, <1>4, <2>1 DEF ConsoleTypeOK
  <2> HIDE DEF now
  <2>5. held'.agents = now /\ held'.synthesis = held.synthesis /\ held'.status = held.status
    BY <2>2
  <2>6. ConsoleTypeOK'
    BY <1>1, <1>2, <1>3, <1>4, <2>2, <2>4, <2>5 DEF ConsoleTypeOK
  <2>7. ASSUME NEW i \in 1..reading'
        PROVE  /\ stream[i].kind \in Panel => /\ stream[i].kind \in DOMAIN now
                                              /\ stream[i].run <= now[stream[i].kind]
               /\ stream[i].kind = "synthesis" => stream[i].run <= held.synthesis
    <3>1. CASE i \in 1..reading
      <4>1. /\ stream[i].kind \in Panel => /\ stream[i].kind \in DOMAIN held.agents
                                           /\ stream[i].run <= held.agents[stream[i].kind]
            /\ stream[i].kind = "synthesis" => stream[i].run <= held.synthesis
            /\ stream[i].run <= n
        BY <1>4, <1>6, <3>1
      <4>2. CASE stream[i].kind = kind
        BY <1>5, <2>1, <2>3, <4>1, <4>2
      <4>3. CASE stream[i].kind # kind
        BY <2>3, <4>1, <4>3
      <4> QED
        BY <4>2, <4>3
    <3>2. CASE i = reading + 1
      BY <1>4, <1>5, <2>1, <2>3, <3>2
    <3> QED
      BY <1>7, <3>1, <3>2
  <2>8. \A j \in (reading' + 1)..Len(stream) :
            /\ \A a \in DOMAIN now : now[a] <= stream[j].run
            /\ held.synthesis <= stream[j].run
    BY <1>4, <1>6, <2>3
  <2>9. \A a \in DOMAIN now : now[a] <= Len(ran)
    BY <1>4, <1>6, <2>3
  <2>10. HeldRight'
    BY <1>3, <1>6, <2>5, <2>7, <2>8, <2>9 DEF HeldRight
  <2> QED
    BY <1>1, <1>2, <2>6, <2>10, TopicStays, ToldStays DEF ConsoleInv
<1>9. CASE TakesSynthesis
  <2>1. kind = "synthesis" /\ held' = [held EXCEPT !.synthesis = n]
    BY <1>9 DEF TakesSynthesis, kind, n
  <2>2. held' = [agents |-> held.agents, synthesis |-> n, status |-> held.status]
    BY <1>1, <2>1 DEF ConsoleTypeOK
  <2>3. held'.agents = held.agents /\ held'.synthesis = n /\ held'.status = held.status
    BY <2>2
  <2>4. ConsoleTypeOK'
    BY <1>1, <1>2, <1>3, <1>4, <2>2, <2>3 DEF ConsoleTypeOK
  <2>5. ASSUME NEW i \in 1..reading'
        PROVE  /\ stream[i].kind \in Panel =>
                      /\ stream[i].kind \in DOMAIN held.agents
                      /\ stream[i].run <= held.agents[stream[i].kind]
               /\ stream[i].kind = "synthesis" => stream[i].run <= n
    <3>1. CASE i \in 1..reading
      BY <1>4, <1>6, <3>1
    <3>2. CASE i = reading + 1
      <4>1. stream[i].run = n /\ stream[i].kind = "synthesis" /\ n \in Nat
        BY <1>4, <2>1, <3>2
      <4>2. n <= n
        BY <4>1
      <4> QED
        BY <1>5, <4>1, <4>2
    <3> QED
      BY <1>7, <3>1, <3>2
  <2>6. HeldRight'
    BY <1>3, <1>4, <1>6, <2>3, <2>5 DEF HeldRight
  <2> QED
    BY <1>1, <1>2, <2>4, <2>6, TopicStays, ToldStays DEF ConsoleInv
<1> QED
  BY <1>8, <1>9

\* When a decision is read, the state holds its evaluation, whole.
LEMMA HeldWhole ==
    ASSUME ConsoleInv, Advances, ~Over, Event.kind = "final"
    PROVE  /\ held.agents = Whole(Event.run).agents /\ held.synthesis = Whole(Event.run).synthesis
           /\ Decided(Event.run) /\ Event.run \in 1..Len(ran)
<1>1. ConsoleTypeOK /\ HeldRight /\ DecisionsWhole
  BY DEF ConsoleInv, StreamRight
<1> DEFINE n == Event.run
<1>2. /\ reading + 1 \in 1..Len(stream) /\ reading \in Nat /\ Len(stream) \in Nat
      /\ n \in 1..Len(ran) /\ n \in Nat
      /\ stream[reading + 1].kind = "final" /\ n = stream[reading + 1].run
  BY EventTyped
<1> HIDE DEF n
<1>3. Complete(reading, n)
  BY <1>1, <1>2 DEF DecisionsWhole
<1>4. ASSUME NEW a \in Panel
      PROVE  a \in DOMAIN held.agents /\ n <= held.agents[a]
  <2>1. PICK i \in 1..reading : stream[i].kind = a /\ stream[i].run = n
    BY <1>3 DEF Complete, Among
  <2> QED
    BY <1>1, <2>1 DEF HeldRight
<1>5. n <= held.synthesis
  <2>1. PICK i \in 1..reading : stream[i].kind = "synthesis" /\ stream[i].run = n
    BY <1>3 DEF Complete, Among
  <2> QED
    BY <1>1, <2>1 DEF HeldRight
<1>6. /\ \A a \in DOMAIN held.agents : held.agents[a] <= n
      /\ held.synthesis <= n
  <2>1. reading + 1 \in (reading + 1)..Len(stream)
    BY <1>2
  <2> QED
    BY <1>1, <1>2, <2>1 DEF HeldRight
<1>7. /\ held.agents \in [Panel -> Nat] /\ DOMAIN held.agents = Panel /\ held.synthesis \in Nat
  BY <1>1, <1>4 DEF ConsoleTypeOK
<1>8. held.agents = [a \in Panel |-> n] /\ held.synthesis = n
  BY <1>2, <1>4, <1>5, <1>6, <1>7
<1>9. Decided(n)
  BY <1>2 DEF Decided, Among
<1> QED
  BY <1>2, <1>8, <1>9 DEF Whole, n

\* What is told is made of the payloads in the state and of nothing else in it.
LEMMA ToldOfHeld ==
    ASSUME NEW h, NEW g, NEW n, h.agents = g.agents, h.synthesis = g.synthesis
    PROVE  /\ BuildFraudAnalysis(h, n) = BuildFraudAnalysis(g, n)
           /\ BuildTxnLogEntry(h, n) = BuildTxnLogEntry(g, n)
           /\ TriggerReasons(h, n) = TriggerReasons(g, n)
<1>1. HeldFlags(h) = HeldFlags(g) /\ HeldWeights(h) = HeldWeights(g)
  BY DEF HeldFlags, HeldWeights
<1> QED
  BY <1>1 DEF BuildFraudAnalysis, BuildTxnLogEntry, TriggerReasons

\* An event that is not a payload leaves what the state holds as right as it was.
LEMMA HeldPassed ==
    ASSUME ConsoleInv, Advances, ~Over, Event.kind \in {"final", "ERROR"}, UNCHANGED orchestrating,
           held'.agents = held.agents, held'.synthesis = held.synthesis
    PROVE  HeldRight'
<1>1. HeldRight /\ UNCHANGED <<about, ran, phase, stream>>
  BY DEF ConsoleInv, orchestrating
<1>2. /\ reading' = reading + 1 /\ reading \in Nat /\ Len(stream) \in Nat
      /\ stream[reading + 1].kind \in {"final", "ERROR"}
  BY EventTyped
<1>3. Panel \subseteq Agents /\ "final" \notin Agents /\ "ERROR" \notin Agents
  BY ConsoleAssumption DEF Agents
<1>4. /\ \A i \in 1..reading' : i \in 1..reading \/ i = reading + 1
      /\ \A j \in (reading' + 1)..Len(stream) : j \in (reading + 1)..Len(stream)
  BY <1>2
<1>5. ASSUME NEW i \in 1..reading'
      PROVE  /\ stream[i].kind \in Panel => /\ stream[i].kind \in DOMAIN held.agents
                                            /\ stream[i].run <= held.agents[stream[i].kind]
             /\ stream[i].kind = "synthesis" => stream[i].run <= held.synthesis
  <2>1. CASE i \in 1..reading
    BY <1>1, <2>1 DEF HeldRight
  <2>2. CASE i = reading + 1
    BY <1>2, <1>3, <2>2
  <2> QED
    BY <1>4, <2>1, <2>2
<1> QED
  BY <1>1, <1>4, <1>5 DEF HeldRight

\* The row, field by field.
RowOf(status, shown, run, reason, challenged) ==
    [status |-> status, shown |-> shown, run |-> run, reason |-> reason,
     challenged |-> challenged]

\* The decision is told.
LEMMA FinalRight ==
    ASSUME ConsoleInv, TakesFinal \/ FinalFails
    PROVE  ConsoleInv'
<1>1. ConsoleTypeOK /\ HeldRight /\ ToldRight /\ StreamRight
  BY DEF ConsoleInv
<1>2. Advances /\ ~Over /\ Event.kind = "final" /\ UNCHANGED orchestrating
  BY DEF TakesFinal, FinalFails
<1>3. UNCHANGED <<about, ran, phase, stream>>
  BY <1>2 DEF orchestrating
<1> DEFINE n == Event.run
<1> DEFINE whole == Whole(n)
<1>4. /\ held.agents = whole.agents /\ held.synthesis = whole.synthesis
      /\ Decided(n) /\ n \in 1..Len(ran) /\ n \in Nat
      /\ reading' = reading + 1 /\ reading' \in 0..Len(stream)
      /\ reading \in Nat /\ Len(stream) \in Nat /\ stream[reading + 1].kind = "final"
  BY <1>2, HeldWhole, EventTyped
<1>5. /\ BuildFraudAnalysis(held, n) = BuildFraudAnalysis(whole, n)
      /\ BuildTxnLogEntry(held, n) = BuildTxnLogEntry(whole, n)
      /\ TriggerReasons(held, n) = TriggerReasons(whole, n)
  <2> HIDE DEF whole, n
  <2> QED
    BY <1>4, ToldOfHeld
<1>6. BuildTxnLogEntry(held, n) \in Tales
  BY <1>4, <1>5 DEF Tales
<1> HIDE DEF n, whole
<1>7. logEntries' \in Seq(Tales) /\ Tales' = Tales
  <2>1. logEntries \in Seq(Tales)
    BY <1>1 DEF ToldRight
  <2>2. Append(logEntries, BuildTxnLogEntry(held, n)) \in Seq(Tales)
    BY <1>6, <2>1, AppendProperties
  <2>3. logEntries' \in {logEntries, Append(logEntries, BuildTxnLogEntry(held, n))}
    BY DEF TakesFinal, FinalFails, n
  <2>4. Tales' = Tales
    <3>1. \A m : Decided(m)' <=> Decided(m)
      BY <1>3 DEF Decided, Among
    <3>2. \A m : BuildTxnLogEntry(Whole(m), m)' = BuildTxnLogEntry(Whole(m), m)
      BY <1>3, SameTale
    <3> QED
      BY <1>3, <3>1, <3>2 DEF Tales
  <2> QED
    BY <2>1, <2>2, <2>3, <2>4
<1>8. /\ held' = [agents |-> held.agents, synthesis |-> held.synthesis, status |-> held'.status]
      /\ held'.agents = held.agents /\ held'.synthesis = held.synthesis
  BY <1>1 DEF ConsoleTypeOK, TakesFinal, FinalFails
<1>9. HeldRight'
  BY <1>2, <1>8, HeldPassed
<1>10. ASSUME NEW row, appRow' = row,
              row = [status |-> row.status, shown |-> row.shown, run |-> row.run,
                     reason |-> row.reason, challenged |-> row.challenged],
              \/ row.run = appRow.run /\ row.shown = appRow.shown
              \/ row.run = n /\ row.shown = BuildFraudAnalysis(whole, n),
              \/ row.challenged = appRow.challenged /\ row.reason = appRow.reason
              \/ row.challenged = n /\ row.reason \in TriggerReasons(whole, n)
       PROVE  ConsoleInv'
  <2>1. row.run \in Nat /\ row.challenged \in Nat
    BY <1>1, <1>4, <1>10 DEF ConsoleTypeOK
  <2>2. ConsoleTypeOK'
    BY <1>1, <1>3, <1>4, <1>8, <1>10, <2>1 DEF ConsoleTypeOK
  <2>3. \A m : Decided(m)' <=> Decided(m)
    BY <1>3 DEF Decided, Among
  <2>4. \A m : /\ BuildFraudAnalysis(Whole(m), m)' = BuildFraudAnalysis(Whole(m), m)
               /\ TriggerReasons(Whole(m), m)' = TriggerReasons(Whole(m), m)
    BY <1>3, SameTale
  <2>5. ASSUME NEW m, m = row.run, m # 0
        PROVE  Decided(m) /\ row.shown = BuildFraudAnalysis(Whole(m), m)
    BY <1>1, <1>4, <1>10, <2>5 DEF ToldRight, whole
  <2>6. ASSUME NEW m, m = row.challenged, m # 0
        PROVE  Decided(m) /\ row.reason \in TriggerReasons(Whole(m), m)
    BY <1>1, <1>4, <1>10, <2>6 DEF ToldRight, whole
  <2>7. ASSUME NEW m, m = appRow'.run, m # 0
        PROVE  Decided(m)' /\ appRow'.shown = BuildFraudAnalysis(Whole(m), m)'
    BY <1>10, <2>3, <2>4, <2>5, <2>7
  <2>8. ASSUME NEW m, m = appRow'.challenged, m # 0
        PROVE  Decided(m)' /\ appRow'.reason \in TriggerReasons(Whole(m), m)'
    BY <1>10, <2>3, <2>4, <2>6, <2>8
  <2>9. appRow'.run # 0 =>
            /\ Decided(appRow.run)'
            /\ appRow'.shown = BuildFraudAnalysis(Whole(appRow.run), appRow.run)'
    BY <2>7
  <2>10. appRow'.challenged # 0 =>
             /\ Decided(appRow.challenged)'
             /\ appRow'.reason \in TriggerReasons(Whole(appRow.challenged), appRow.challenged)'
    BY <2>8
  <2>11. ToldRight'
    BY <1>7, <2>9, <2>10 DEF ToldRight
  <2> QED
    BY <1>2, <1>9, <2>2, <2>11, TopicStays DEF ConsoleInv
<1>11. CASE FinalFails
  <2>1. appRow' = appRow
    BY <1>11 DEF FinalFails
  <2> QED
    BY <1>1, <1>10, <2>1 DEF ConsoleTypeOK
<1>12. CASE TakesFinal
  <2> DEFINE shown == BuildFraudAnalysis(held, n)
  <2> DEFINE analysed == [appRow EXCEPT !.shown = shown, !.run = n]
  <2>1. \/ appRow' = analysed
        \/ \E s : appRow' = [analysed EXCEPT !.status = s]
        \/ \E s : \E why \in TriggerReasons(held, n) :
               appRow' = [analysed EXCEPT !.status = s, !.reason = why, !.challenged = n]
    BY <1>12 DEF TakesFinal, n
  <2>2. analysed = [status |-> appRow.status, shown |-> shown, run |-> n,
                    reason |-> appRow.reason, challenged |-> appRow.challenged]
    <3> DEFINE status == appRow.status  before == appRow.shown  run == appRow.run
               reason == appRow.reason  challenged == appRow.challenged
    <3>1. appRow = RowOf(status, before, run, reason, challenged)
      BY <1>1 DEF ConsoleTypeOK, RowOf
    <3> HIDE DEF status, before, run, reason, challenged, shown
    <3> DEFINE first == [appRow EXCEPT !.shown = shown]
    <3>2. first = RowOf(status, shown, run, reason, challenged)
      BY <3>1 DEF RowOf
    <3>3. analysed = [first EXCEPT !.run = n]
      OBVIOUS
    <3> HIDE DEF first, analysed
    <3>4. analysed = RowOf(status, shown, n, reason, challenged)
      BY <3>2, <3>3 DEF RowOf
    <3> QED
      BY <3>4 DEF RowOf, status, reason, challenged
  <2>3. shown = BuildFraudAnalysis(whole, n) /\ TriggerReasons(held, n) = TriggerReasons(whole, n)
    BY <1>5
  <2> HIDE DEF shown, analysed
  <2>4. CASE appRow' = analysed
    BY <1>10, <2>2, <2>3, <2>4
  <2>5. ASSUME NEW s, appRow' = [analysed EXCEPT !.status = s]
        PROVE  ConsoleInv'
    <3>1. appRow' = [status |-> s, shown |-> shown, run |-> n,
                     reason |-> appRow.reason, challenged |-> appRow.challenged]
      BY <2>2, <2>5
    <3> QED
      BY <1>10, <2>3, <3>1
  <2>6. ASSUME NEW s, NEW why \in TriggerReasons(held, n),
               appRow' = [analysed EXCEPT !.status = s, !.reason = why, !.challenged = n]
        PROVE  ConsoleInv'
    <3>1. appRow' = [status |-> s, shown |-> shown, run |-> n, reason |-> why, challenged |-> n]
      BY <2>2, <2>6
    <3> QED
      BY <1>10, <2>3, <3>1
  <2> QED
    BY <2>1, <2>4, <2>5, <2>6
<1> QED
  BY <1>11, <1>12

\* The other steps: an event is skipped or fails the transfer, the challenge ends, the
\* projector goes back.
LEMMA OtherwiseRight ==
    ASSUME ConsoleInv, SkipsEvent \/ TakesError \/ Resolves \/ Rewinds
    PROVE  ConsoleInv'
<1>1. ConsoleTypeOK /\ HeldRight /\ ToldRight /\ StreamRight
  BY DEF ConsoleInv
<1>2. UNCHANGED orchestrating /\ UNCHANGED <<about, ran, phase, stream, logEntries>>
  BY DEF SkipsEvent, TakesError, Resolves, Rewinds, orchestrating
<1>3. /\ appRow' = [status |-> appRow'.status, shown |-> appRow.shown, run |-> appRow.run,
                    reason |-> appRow.reason, challenged |-> appRow.challenged]
      /\ held' = [agents |-> held.agents, synthesis |-> held.synthesis, status |-> held'.status]
  <2>1. \/ appRow' = appRow
        \/ \E s : appRow' = [appRow EXCEPT !.status = s]
    BY DEF SkipsEvent, TakesError, Resolves, Rewinds
  <2>2. \/ held' = held
        \/ \E s : held' = [held EXCEPT !.status = s]
    BY DEF SkipsEvent, TakesError, Resolves, Rewinds
  <2> QED
    BY <1>1, <2>1, <2>2 DEF ConsoleTypeOK
<1>4. /\ appRow'.run = appRow.run /\ appRow'.shown = appRow.shown /\ appRow'.reason = appRow.reason
      /\ appRow'.challenged = appRow.challenged
      /\ held'.agents = held.agents /\ held'.synthesis = held.synthesis
  BY <1>3
<1>5. reading' \in 0..Len(stream)
  <2>1. reading \in 0..Len(stream) /\ Len(stream) \in Nat
    BY <1>1, Lengths DEF ConsoleTypeOK
  <2> QED
    BY <2>1 DEF SkipsEvent, TakesError, Resolves, Rewinds, Advances
<1>6. ConsoleTypeOK'
  BY <1>1, <1>2, <1>3, <1>4, <1>5 DEF ConsoleTypeOK
<1>7. HeldRight'
  <2>1. CASE SkipsEvent
    BY <2>1 DEF SkipsEvent, HeldRight, Over
  <2>2. CASE TakesError
    BY <1>2, <1>4, <2>2, HeldPassed DEF TakesError
  <2>3. CASE Resolves
    BY <2>3, <1>1, <1>2, <1>4 DEF Resolves, HeldRight, Over
  <2>4. CASE Rewinds
    <3>1. /\ reading' \in 0..(reading - 1) /\ Len(ran) <= 1 /\ held' = held
      BY <2>4 DEF Rewinds
    <3>2. /\ reading \in Nat /\ reading' \in Nat /\ Len(stream) \in Nat /\ Len(ran) \in Nat
          /\ \A i \in 1..Len(stream) : stream[i].run \in 1..Len(ran)
      BY <1>1, <1>5, Lengths DEF StreamRight, Ordered
    <3>3. \A i \in 1..reading' : i \in 1..reading
      BY <3>1, <3>2
    <3>4. \A j \in (reading' + 1)..Len(stream) : stream[j].run = Len(ran)
      <4> DEFINE low == reading'  length == Len(stream)  runs == Len(ran)
      <4>1. /\ low \in Nat /\ length \in Nat /\ runs \in Nat /\ runs <= 1
            /\ \A i \in 1..length : stream[i].run \in 1..runs
        BY <3>1, <3>2
      <4> HIDE DEF low, length, runs
      <4>2. \A j \in (low + 1)..length : j \in 1..length
        BY <4>1
      <4>3. \A r \in 1..runs : r = runs
        BY <4>1
      <4> QED
        BY <4>1, <4>2, <4>3 DEF low, length, runs
    <3>5. ~Over => /\ \A a \in DOMAIN held.agents : held.agents[a] <= Len(ran)
                   /\ held.synthesis <= Len(ran)
                   /\ \A i \in 1..reading' :
                        /\ stream[i].kind \in Panel =>
                               /\ stream[i].kind \in DOMAIN held.agents
                               /\ stream[i].run <= held.agents[stream[i].kind]
                        /\ stream[i].kind = "synthesis" => stream[i].run <= held.synthesis
      BY <1>1, <3>3 DEF HeldRight
    <3>6. Over' = Over
      BY <3>1 DEF Over
    <3> QED
      BY <1>2, <3>1, <3>4, <3>5, <3>6 DEF HeldRight
  <2> QED
    BY <2>1, <2>2, <2>3, <2>4
<1>8. ToldRight'
  BY <1>1, <1>2, <1>4, <1>6, TopicStays, ToldStays
<1> QED
  BY <1>2, <1>6, <1>7, <1>8, TopicStays DEF ConsoleInv

LEMMA ConsoleStart == ConsoleInit => ConsoleInv
<1> SUFFICES ASSUME ConsoleInit
             PROVE  ConsoleInv
  OBVIOUS
<1>1. /\ ran = <<>> /\ phase = "idle" /\ stream = <<>> /\ reading = 0
      /\ held = [agents |-> <<>>, synthesis |-> 0, status |-> "processing"]
      /\ appRow = [status |-> "pending", shown |-> NoAnalysis, run |-> 0,
                   reason |-> "none", challenged |-> 0]
      /\ logEntries = <<>>
  BY DEF ConsoleInit
<1>2. /\ Len(ran) = 0 /\ ran \in Seq(Outcomes) /\ Len(stream) = 0
      /\ stream \in Seq([kind : Kinds, run : Nat]) /\ logEntries \in Seq(Tales)
  BY <1>1, EmptySeq
<1>3. DOMAIN held.agents = {} /\ held.agents \in [DOMAIN held.agents -> Nat]
  BY <1>1
<1>4. ConsoleTypeOK
  BY <1>1, <1>2, <1>3 DEF ConsoleTypeOK
<1>5. StreamRight
  BY <1>1, <1>2 DEF StreamRight, Ordered, DecisionsWhole, Gathering
<1>6. HeldRight
  BY <1>1, <1>2, <1>3 DEF HeldRight
<1>7. ToldRight
  BY <1>1, <1>2 DEF ToldRight
<1> QED
  BY <1>4, <1>5, <1>6, <1>7 DEF ConsoleInv

LEMMA ConsoleStep == ConsoleInv /\ [ConsoleNext]_consoleVars => ConsoleInv'
<1> SUFFICES ASSUME ConsoleInv, [ConsoleNext]_consoleVars
             PROVE  ConsoleInv'
  OBVIOUS
<1>1. CASE UNCHANGED consoleVars
  <2>1. /\ UNCHANGED orchestrating
        /\ UNCHANGED <<about, ran, phase, stream, reading, held, appRow, logEntries>>
    BY <1>1 DEF consoleVars, orchestrating
  <2>2. ConsoleTypeOK /\ HeldRight /\ ToldRight /\ StreamRight
    BY DEF ConsoleInv
  <2>3. ConsoleTypeOK' /\ HeldRight'
    BY <2>1, <2>2 DEF ConsoleTypeOK, HeldRight, Over
  <2> QED
    BY <2>1, <2>2, <2>3, TopicStays, ToldStays DEF ConsoleInv
<1> QED
  BY <1>1, BeginsRight, FanInRight, AgentRight, TakenRight, FinalRight, OtherwiseRight
     DEF ConsoleNext

\* Told of one evaluation, the places agree: a BLOCK is never a forced challenge.
LEMMA TalesAgree ==
    ASSUME ConsoleTypeOK, NEW n \in 1..Len(ran)
    PROVE  /\ SameVerdict(BuildFraudAnalysis(Whole(n), n), ModelVerdict(n))
           /\ SameEntry(BuildFraudAnalysis(Whole(n), n), BuildTxnLogEntry(Whole(n), n))
<1>1. Told(n) \subseteq Panel /\ Panel \subseteq Agents /\ n # 0
  BY Lengths, ConsoleAssumption DEF Outcomes, Told
<1> DEFINE flags == [a \in Told(n) |-> FlagFromScore(ran[n][a])]
<1>2. HeldFlags(Whole(n)) = flags
  <2>1. DOMAIN Whole(n).agents = Panel /\ \A b \in Panel : Whole(n).agents[b] = n
    BY DEF Whole
  <2>2. {b \in DOMAIN Whole(n).agents : b \in Told(Whole(n).agents[b])} = Told(n)
    BY <1>1, <2>1
  <2> QED
    BY <1>1, <2>1, <2>2 DEF HeldFlags
<1>3. HeldWeights(Whole(n)) = WeightsApplied(n)
  BY <1>1 DEF HeldWeights, Whole
<1>4. \A a \in Told(n) : flags[a] # "N/A"
  BY DEF FlagFromScore
<1>5. Concludes(n) = "BLOCK" => ~Forced(n)
  BY DEF Concludes, Synthesise, Decide, Forced, PatternOf
<1> HIDE DEF flags
<1> DEFINE shown == BuildFraudAnalysis(Whole(n), n)
           entry == BuildTxnLogEntry(Whole(n), n)
           verdict == ModelVerdict(n)
<1>6. /\ shown.agents = flags /\ shown.weights = WeightsApplied(n) /\ shown.decision = Concludes(n)
      /\ verdict.agents = flags /\ verdict.weights = WeightsApplied(n)
  BY <1>2, <1>3 DEF BuildFraudAnalysis, ModelVerdict, flags
<1>7. verdict.decision = DecisionToTrackB[Concludes(n)]
  BY <1>5 DEF ModelVerdict
<1>8. \/ verdict.fraudType = shown.fraudType
      \/ shown.fraudType = "ACCOUNT_TAKEOVER" /\ verdict.fraudType = "none"
  BY DEF ModelVerdict, BuildFraudAnalysis
<1>9. /\ entry.agents = [a \in Agents |-> IF a \in DOMAIN flags THEN flags[a] ELSE "N/A"]
      /\ entry.weights = WeightsApplied(n) /\ entry.decision = DecisionToTrackB[Concludes(n)]
      /\ entry.baseline = DecisionToTrackB[shown.baseline] /\ entry.correct = shown.correct
  BY <1>2, <1>3 DEF BuildTxnLogEntry, BuildFraudAnalysis
<1>10. DOMAIN flags = Told(n)
  BY DEF flags
<1> HIDE DEF shown, entry, verdict
<1>11. SameVerdict(shown, verdict)
  BY <1>6, <1>7, <1>8 DEF SameVerdict
<1>12. SameEntry(shown, entry)
  BY <1>1, <1>4, <1>6, <1>9, <1>10 DEF SameEntry
<1> QED
  BY <1>11, <1>12 DEF shown, entry, verdict

LEMMA StoryTold == ConsoleInv => OneStory
<1> SUFFICES ASSUME ConsoleInv
             PROVE  OneStory
  OBVIOUS
<1>1. ConsoleTypeOK /\ ToldRight /\ Ordered /\ DecisionsWhole
  BY DEF ConsoleInv, StreamRight
<1>2. ASSUME NEW n, Decided(n)
      PROVE  n \in 1..Len(ran) /\ Told(n) # {}
  BY <1>1, <1>2 DEF Decided, Among, Ordered, DecisionsWhole
<1>3. ASSUME NEW n, n = appRow.run, n # 0
      PROVE  /\ SameVerdict(appRow.shown, ModelVerdict(n))
             /\ \A i \in DOMAIN logEntries : logEntries[i].run = n
                    => SameEntry(appRow.shown, logEntries[i])
  <2>1. n \in 1..Len(ran) /\ appRow.shown = BuildFraudAnalysis(Whole(n), n)
    BY <1>1, <1>2, <1>3 DEF ToldRight
  <2>2. ASSUME NEW i \in DOMAIN logEntries, logEntries[i].run = n
        PROVE  logEntries[i] = BuildTxnLogEntry(Whole(n), n)
    <3>1. logEntries[i] \in Tales
      BY <1>1, ElementOfSeq, LenProperties DEF ToldRight
    <3>2. PICK m \in 1..Len(ran) : logEntries[i] = BuildTxnLogEntry(Whole(m), m)
      BY <3>1 DEF Tales
    <3>3. BuildTxnLogEntry(Whole(m), m).run = m
      BY DEF BuildTxnLogEntry
    <3> QED
      BY <2>2, <3>2, <3>3
  <2> QED
    BY <1>1, <2>1, <2>2, TalesAgree
<1>4. ASSUME NEW n, n = appRow.challenged, n # 0
      PROVE  \/ appRow.reason \in Loudest(Reports(n))
             \/ appRow.reason = "AGENT_DISAGREEMENT" /\ Forced(n)
  <2>1. n \in 1..Len(ran) /\ Told(n) # {} /\ appRow.reason \in TriggerReasons(Whole(n), n)
    BY <1>1, <1>2, <1>4 DEF ToldRight
  <2>2. Told(n) \subseteq Panel
    BY <1>1, <2>1, Lengths DEF Outcomes, Told
  <2>3. DOMAIN Whole(n).agents = Panel /\ \A b \in Panel : Whole(n).agents[b] = n
    BY DEF Whole
  <2>4. {b \in DOMAIN Whole(n).agents : b \in Told(Whole(n).agents[b])} = Told(n)
    BY <2>2, <2>3
  <2>5. Loudest(Reports(n)) = {a \in Told(n) : \A b \in Told(n) : ran[n][b] <= ran[n][a]}
    BY DEF Loudest, Reports
  <2>6. TriggerReasons(Whole(n), n) \subseteq
            IF Forced(n) THEN {"AGENT_DISAGREEMENT"}
            ELSE {a \in Told(n) : \A b \in Told(n) : ran[n][b] <= ran[n][a]}
    BY <2>1, <2>2, <2>3, <2>4 DEF TriggerReasons
  <2> QED
    BY <2>1, <2>5, <2>6
<1> QED
  BY <1>3, <1>4 DEF OneStory

\* However many evaluations were begun, stopped or repeated, or from whatever offset
\* the projector read a single one again, the analysis on the row, the log entry, the
\* audit row and the challenge tell one story of a decision (build_fraud_analysis,
\* build_txn_log_entry, audit_row_to_model_verdict and _otp_trigger_reason).
THEOREM StoryIsOne == ConsoleSpec => []OneStory
<1>1. ConsoleInv => OneStory
  BY StoryTold
<1> QED
  BY <1>1, ConsoleStart, ConsoleStep, PTL DEF ConsoleSpec
=============================================================================
