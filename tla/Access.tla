-------------------------------- MODULE Access --------------------------------
(***************************************************************************)
(* Sessions and the customer read of the API, for one customer: the three  *)
(* logins, the Bearer dependency with its sliding expiry, logout, and      *)
(* GET /customers/{id} through its cache.  Requests interleave; one action *)
(* is the code between two awaits.  The customer's row is changed by the   *)
(* seed scripts only, which know neither the cache nor the sessions.       *)
(***************************************************************************)
EXTENDS Integers

CONSTANTS
    Requests,    \* requests, each handled once
    Tokens,      \* what secrets.token_urlsafe may return
    NoToken,
    SessionTtl,  \* SESSION_TTL_SECONDS, in ticks
    CustomerTtl, \* CUSTOMER_CACHE_TTL_S, in ticks
    MaxChanges,  \* bound: changes of the customer's row
    MaxAccessFaults \* bound: failed store calls

ASSUME AccessAssumption ==
    /\ NoToken \notin Tokens
    /\ {SessionTtl, CustomerTtl} \subseteq Nat \ {0}
    /\ {MaxChanges, MaxAccessFaults} \subseteq Nat

VARIABLES
    customer,    \* the app_customers row, as the number of its changes
    session,     \* token -> {} or its session:{token} key as [ttl]
    view,        \* {} or cache:customer:{id} as [row, ttl, crossed]
    request,     \* request -> [pc, token, row, crossed]
    loggedOut,   \* ghost: tokens whose logout was answered
    sinceChange, \* ghost: ticks since the row changed
    accessFaults

accessVars == <<customer, session, view, request, loggedOut, sinceChange, accessFaults>>
stores     == <<customer, session, view, loggedOut, sinceChange>>

Unused == [pc |-> "new", token |-> NoToken, row |-> 0, crossed |-> FALSE]

AccessInit ==
    /\ customer = 0 /\ session = [k \in Tokens |-> {}] /\ view = {}
    /\ request = [r \in Requests |-> Unused]
    /\ loggedOut = {} /\ sinceChange = CustomerTtl /\ accessFaults = 0

AccessFault == accessFaults < MaxAccessFaults /\ accessFaults' = accessFaults + 1

\* A request goes on at pc; the other fields keep their values.
Goes(r, pc) == request' = [request EXCEPT ![r].pc = pc]

\* login-mpin, login-biometric, login-profile: the customer is found and the
\* credentials match, or the request is refused (401, 404).
LoginReads(r) ==
    /\ request[r].pc = "new"
    /\ \E pc \in {"create", "refused"} : Goes(r, pc)
    /\ UNCHANGED <<stores, accessFaults>>

\* create_session: a token nobody has held before.
CreateSession(r, k) ==
    /\ request[r].pc = "create" /\ \A q \in Requests : request[q].token # k
    /\ session' = [session EXCEPT ![k] = {[ttl |-> SessionTtl]}]
    /\ request' = [request EXCEPT ![r].pc = "answered", ![r].token = k]
    /\ UNCHANGED <<customer, view, loggedOut, sinceChange, accessFaults>>

\* get_current_user reads the session of a token some login returned.
GetSession(r, k) ==
    /\ request[r].pc = "new"
    /\ \E q \in Requests : request[q].pc = "answered" /\ request[q].token = k
    /\ request' = [request EXCEPT ![r].token = k,
                                  ![r].pc = IF session[k] = {} THEN "refused" ELSE "expire"]
    /\ UNCHANGED <<stores, accessFaults>>

\* Variant: the session is written back with a new expiry.
RewriteSession(r) ==
    /\ request[r].pc = "expire"
    /\ session' = [session EXCEPT ![request[r].token] = {[ttl |-> SessionTtl]}]
    /\ \E pc \in {"logout", "customer", "answered"} : Goes(r, pc)
    /\ UNCHANGED <<customer, view, loggedOut, sinceChange, accessFaults>>

\* EXPIRE, which does nothing to an absent key; then the handler: logout, the
\* customer read, or one that needs no more of these stores.
RefreshSession(r) ==
    /\ request[r].pc = "expire"
    /\ session' = [session EXCEPT ![request[r].token] = {[ttl |-> SessionTtl] : s \in @}]
    /\ \E pc \in {"logout", "customer", "answered"} : Goes(r, pc)
    /\ UNCHANGED <<customer, view, loggedOut, sinceChange, accessFaults>>

\* destroy_session, and {"ok": true}.
Logout(r) ==
    /\ request[r].pc = "logout"
    /\ session' = [session EXCEPT ![request[r].token] = {}]
    /\ loggedOut' = loggedOut \cup {request[r].token}
    /\ Goes(r, "answered")
    /\ UNCHANGED <<customer, view, sinceChange, accessFaults>>

\* get_customer: the cached view, or else (also when Redis fails) the row.
ReadView(r) ==
    /\ request[r].pc = "customer"
    /\ \/ view # {} /\ Goes(r, "answered") /\ UNCHANGED accessFaults
       \/ view = {} /\ Goes(r, "row") /\ UNCHANGED accessFaults
       \/ Goes(r, "row") /\ AccessFault
    /\ UNCHANGED stores

ReadCustomer(r) ==
    /\ request[r].pc = "row"
    /\ request' = [request EXCEPT ![r].pc = "fill", ![r].row = customer]
    /\ UNCHANGED <<stores, accessFaults>>

\* Variant: the cached view lives twice as long.
FillViewLonger(r) ==
    /\ request[r].pc = "fill" /\ Goes(r, "answered")
    /\ view' = {[row |-> request[r].row, ttl |-> 2 * CustomerTtl, crossed |-> request[r].crossed]}
    /\ UNCHANGED <<customer, session, loggedOut, sinceChange, accessFaults>>

\* SETEX; its failure is only logged.
FillView(r) ==
    /\ request[r].pc = "fill" /\ Goes(r, "answered")
    /\ \/ /\ view' = {[row |-> request[r].row, ttl |-> CustomerTtl,
                       crossed |-> request[r].crossed]}
          /\ UNCHANGED accessFaults
       \/ UNCHANGED view /\ AccessFault
    /\ UNCHANGED <<customer, session, loggedOut, sinceChange>>

\* Any other store call raises (500, or 503 from get_current_user); the write
\* it was may have been done.
AccessFails(r) ==
    /\ request[r].pc \in {"create", "expire", "logout", "row"} /\ AccessFault
    /\ \/ UNCHANGED session
       \/ request[r].pc = "logout" /\ session' = [session EXCEPT ![request[r].token] = {}]
    /\ Goes(r, "failed")
    /\ UNCHANGED <<customer, view, loggedOut, sinceChange>>

\* A seed script is run again: requests that hold the old row now cross it.
CustomerChanges ==
    /\ customer < MaxChanges /\ customer' = customer + 1 /\ sinceChange' = 0
    /\ request' = [r \in Requests |->
           [request[r] EXCEPT !.crossed = @ \/ request[r].pc = "fill"]]
    /\ UNCHANGED <<session, view, loggedOut, accessFaults>>

\* The keys whose time is up, and what is left of the others.
Aged(keys) == {[k EXCEPT !.ttl = @ - 1] : k \in {k \in keys : k.ttl > 1}}

AccessTick ==
    /\ session' = [k \in Tokens |-> Aged(session[k])]
    /\ view' = Aged(view)
    /\ sinceChange' = IF sinceChange < CustomerTtl THEN sinceChange + 1 ELSE sinceChange
    /\ UNCHANGED <<customer, request, loggedOut, accessFaults>>

AccessNext ==
    \/ \E r \in Requests : \/ LoginReads(r) \/ RefreshSession(r) \/ Logout(r)
                           \/ ReadView(r) \/ ReadCustomer(r) \/ FillView(r) \/ AccessFails(r)
    \/ \E r \in Requests, k \in Tokens : CreateSession(r, k) \/ GetSession(r, k)
    \/ CustomerChanges \/ AccessTick

-----------------------------------------------------------------------------
(* Properties. *)

\* Every variable has its type, and a request holds a token exactly once it has been
\* through a login or the session lookup.
AccessTypeOK ==
    /\ customer \in 0..MaxChanges
    /\ session \in [Tokens -> SUBSET [ttl : 1..SessionTtl]]
    /\ view \in SUBSET [row : 0..MaxChanges, ttl : 1..CustomerTtl, crossed : BOOLEAN]
    /\ request \in [Requests ->
           [pc : {"new", "create", "expire", "logout", "customer", "row", "fill",
                  "answered", "refused", "failed"},
            token : Tokens \cup {NoToken}, row : 0..MaxChanges, crossed : BOOLEAN]]
    /\ loggedOut \subseteq Tokens /\ sinceChange \in 0..CustomerTtl
    /\ accessFaults \in 0..MaxAccessFaults
    /\ \A r \in Requests :
        /\ request[r].pc \in {"new", "create"} => request[r].token = NoToken
        /\ request[r].pc \in {"expire", "logout", "customer", "row", "fill", "answered"}
              => request[r].token \in Tokens

\* A logout that was answered is final: no request that looked the session up
\* before brings it back when it refreshes the expiry after.
LogoutIsFinal == \A k \in loggedOut : session[k] = {}

\* A customer row that changed is shown as it was for the cache's lifetime at
\* most, counted from the change, unless a read was between row and cache then.
ViewExpires ==
    \A v \in view : v.row # customer /\ ~v.crossed => v.ttl + sinceChange <= CustomerTtl
=============================================================================
