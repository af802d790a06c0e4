---------------------------- MODULE Subscriptions ----------------------------
(***************************************************************************)
(* The subscription manager of an IPC listener (ipc/subscription_manager). *)
(* Each connection has a record of its exact and pattern selectors; two    *)
(* inverse indexes and a cache of routes are kept beside the records.  A   *)
(* broadcast is forwarded in steps: the unsecured recipients are served    *)
(* under the lock, the others are asked of their policy outside it and     *)
(* looked at again before they are served.                                 *)
(***************************************************************************)
EXTENDS Integers, FiniteSets

CONSTANTS
    Conns,        \* connection identifiers
    Names,        \* message type names
    Patterns,     \* pattern selectors
    Matches,      \* pairs <<p, n>>: selector p matches name n
    LongNames,    \* names over 256 bytes, which are never cached
    RouteCap,     \* routes the cache holds (1024)
    PatternCap,   \* patterns of one connection or request (128)
    PushCap,      \* notifications a connection's push channel holds
    MaxInc,       \* bound: times one identifier is registered
    Forwards,     \* concurrent forward_to_subscribers calls
    NoRoute, Nobody

ASSUME SubscriptionsAssumption ==
    /\ IsFiniteSet(Conns) /\ IsFiniteSet(Names) /\ IsFiniteSet(Patterns)
    /\ \A cs \in SUBSET Conns : cs # NoRoute
    /\ LongNames \subseteq Names /\ Matches \subseteq Patterns \X Names
    /\ RouteCap \in Nat \ {0} /\ PatternCap \in Nat /\ PushCap \in Nat \ {0} /\ MaxInc \in Nat
    /\ Nobody \notin Names

VARIABLES
    live,       \* the connections registered
    inc,        \* how often each identifier was registered: its incarnation
    secured,    \* whether it was admitted by a policy
    cancelled,  \* whether its token is cancelled
    types,      \* its exact subscriptions
    pats,       \* its pattern subscriptions
    exact,      \* inverse index of `types`
    byPattern,  \* inverse index of `pats`
    routes,     \* cached recipients of a name, or NoRoute
    balance,    \* subscriptions_added - subscriptions_removed
    pushed,     \* notifications in each push channel
    fwd         \* [at, name, cands, fresh, asked] of each forward call

records == <<live, inc, secured, cancelled, types, pats>>
indexes == <<exact, byPattern>>
vars    == <<records, indexes, routes, balance, pushed, fwd>>

MatchesName(c, n) == n \in types[c] \/ \E p \in pats[c] : <<p, n>> \in Matches

Init ==
    /\ live = {} /\ inc = [c \in Conns |-> 0]
    /\ secured = [c \in Conns |-> FALSE] /\ cancelled = [c \in Conns |-> FALSE]
    /\ types = [c \in Conns |-> {}] /\ pats = [c \in Conns |-> {}]
    /\ exact = [n \in Names |-> {}] /\ byPattern = [p \in Patterns |-> {}]
    /\ routes = [n \in Names |-> NoRoute]
    /\ balance = 0 /\ pushed = [c \in Conns |-> 0]
    /\ fwd = [f \in Forwards |-> [at |-> "idle", name |-> Nobody, cands |-> {}, fresh |-> FALSE, asked |-> Nobody]]

-----------------------------------------------------------------------------
(* Slip: the cache outlives the change. *)
ClearNoRoutes == UNCHANGED <<routes, fwd>>

(* What every change of the records ends with: no route is kept, and a     *)
(* forward under way can no longer find the route it started from.         *)
ClearRoutes ==
    /\ routes' = [n \in Names |-> NoRoute]
    /\ fwd' = [f \in Forwards |-> [fwd[f] EXCEPT !.fresh = FALSE]]

(* Taking c's entry out of an index; an entry without connections is none. *)
Without(index, keys, c) ==
    [k \in DOMAIN index |-> IF k \in keys THEN index[k] \ {c} ELSE index[k]]
With(index, keys, c) ==
    [k \in DOMAIN index |-> IF k \in keys THEN index[k] \union {c} ELSE index[k]]

Count(c) == Cardinality(types[c]) + Cardinality(pats[c])

(* Slip: the pattern index keeps the connection. *)
RemovedKeepingPatterns(c) ==
    /\ exact' = Without(exact, types[c], c) /\ UNCHANGED byPattern
    /\ types' = [types EXCEPT ![c] = {}] /\ pats' = [pats EXCEPT ![c] = {}]
    /\ balance' = balance - Count(c)

(* Slip: a replaced connection's selectors are not counted as removed. *)
RemovedUncounted(c) ==
    /\ exact' = Without(exact, types[c], c)
    /\ byPattern' = Without(byPattern, pats[c], c)
    /\ types' = [types EXCEPT ![c] = {}] /\ pats' = [pats EXCEPT ![c] = {}]
    /\ UNCHANGED balance

(* remove_connection: the record, its token and its index entries. *)
Removed(c) ==
    /\ exact' = Without(exact, types[c], c)
    /\ byPattern' = Without(byPattern, pats[c], c)
    /\ types' = [types EXCEPT ![c] = {}] /\ pats' = [pats EXCEPT ![c] = {}]
    /\ balance' = balance - Count(c)

(* insert_connection: whoever held the identifier goes first. *)
Register(c, withPolicy) ==
    /\ inc[c] < MaxInc
    /\ Removed(c) /\ ClearRoutes
    /\ live' = live \union {c} /\ inc' = [inc EXCEPT ![c] = @ + 1]
    /\ secured' = [secured EXCEPT ![c] = withPolicy]
    /\ cancelled' = [cancelled EXCEPT ![c] = FALSE] /\ pushed' = [pushed EXCEPT ![c] = 0]

(* revoke_connection and unregister_connection *)
Revoke(c) ==
    /\ Removed(c) /\ ClearRoutes
    /\ live' = live \ {c} /\ cancelled' = [cancelled EXCEPT ![c] = @ \/ c \in live]
    /\ UNCHANGED <<inc, secured, pushed>>

(* The listener's token goes before the record does. *)
CancelToken(c) ==
    /\ c \in live /\ ~cancelled[c] /\ cancelled' = [cancelled EXCEPT ![c] = TRUE]
    /\ UNCHANGED <<live, inc, secured, types, pats, indexes, routes, balance, pushed, fwd>>

Subscribe(c, names) ==
    /\ c \in live
    /\ types' = [types EXCEPT ![c] = @ \union names]
    /\ exact' = With(exact, names, c)
    /\ balance' = balance + Cardinality(names \ types[c])
    /\ ClearRoutes
    /\ UNCHANGED <<live, inc, secured, cancelled, pats, byPattern, pushed>>

(* An empty batch removes everything, patterns included. *)
Unsubscribe(c, names) ==
    LET gone == IF names = {} THEN types[c] ELSE names \intersect types[c]
        patterns == IF names = {} THEN pats[c] ELSE {} IN
    /\ c \in live
    /\ types' = [types EXCEPT ![c] = @ \ gone] /\ exact' = Without(exact, gone, c)
    /\ pats' = [pats EXCEPT ![c] = @ \ patterns] /\ byPattern' = Without(byPattern, patterns, c)
    /\ balance' = balance - (Cardinality(gone) + Cardinality(patterns))
    /\ ClearRoutes
    /\ UNCHANGED <<live, inc, secured, cancelled, pushed>>

(* All of the batch or none of it. *)
SubscribePatterns(c, batch) ==
    /\ c \in live /\ Cardinality(batch) <= PatternCap /\ Cardinality(pats[c] \union batch) <= PatternCap
    /\ pats' = [pats EXCEPT ![c] = @ \union batch]
    /\ byPattern' = With(byPattern, batch, c)
    /\ balance' = balance + Cardinality(batch \ pats[c])
    /\ ClearRoutes
    /\ UNCHANGED <<live, inc, secured, cancelled, types, exact, pushed>>

UnsubscribePatterns(c, batch) ==
    LET gone == IF batch = {} THEN pats[c] ELSE batch \intersect pats[c] IN
    /\ c \in live /\ Cardinality(batch) <= PatternCap
    /\ pats' = [pats EXCEPT ![c] = @ \ gone] /\ byPattern' = Without(byPattern, gone, c)
    /\ balance' = balance - Cardinality(gone)
    /\ ClearRoutes
    /\ UNCHANGED <<live, inc, secured, cancelled, types, exact, pushed>>

-----------------------------------------------------------------------------
(* recipients: the cached route, or one computed from the indexes and      *)
(* cached, for which a route may have to go.                               *)
Computed(n) == exact[n] \union UNION {byPattern[p] : p \in {q \in Patterns : <<q, n>> \in Matches}}
Recipients(n) == IF routes[n] # NoRoute THEN routes[n] ELSE Computed(n)
Cached == {n \in Names : routes[n] # NoRoute}

(* Slip: a full cache makes no room. *)
CacheRouteWithoutRoom(n, f, cands) ==
    /\ routes' = IF n \in Cached \union LongNames THEN routes ELSE [routes EXCEPT ![n] = Computed(n)]
    /\ fwd' = [fwd EXCEPT ![f] = [at |-> IF cands = {} THEN "idle" ELSE "asking", name |-> n, cands |-> cands,
                                  fresh |-> n \notin LongNames, asked |-> Nobody]]

(* The route stands for the identity of its Arc: a forward finds its own   *)
(* route again as long as nothing replaced or dropped it.                  *)
CacheRoute(n, f, cands) ==
    LET started(dropped) ==
          [g \in Forwards |->
             IF g = f THEN [at |-> IF cands = {} THEN "idle" ELSE "asking", name |-> n, cands |-> cands,
                            fresh |-> n \notin LongNames, asked |-> Nobody]
             ELSE IF fwd[g].name \in dropped THEN [fwd[g] EXCEPT !.fresh = FALSE] ELSE fwd[g]] IN
    \/ /\ n \in Cached \union LongNames
       /\ fwd' = started({}) /\ UNCHANGED routes
    \/ /\ n \notin Cached \union LongNames /\ Cardinality(Cached) < RouteCap
       /\ routes' = [routes EXCEPT ![n] = Computed(n)] /\ fwd' = started({})
    \/ /\ n \notin Cached \union LongNames /\ Cardinality(Cached) >= RouteCap
       /\ \E old \in Cached :
            /\ routes' = [routes EXCEPT ![old] = NoRoute, ![n] = Computed(n)]
            /\ fwd' = started({old})

(* Slip: a full push channel takes one more. *)
PushedUnbounded(cs) == [c \in Conns |-> IF c \in cs THEN pushed[c] + 1 ELSE pushed[c]]

(* send_notification: try_send; a full channel drops. *)
Pushed(cs) == [c \in Conns |-> IF c \in cs /\ pushed[c] < PushCap THEN pushed[c] + 1 ELSE pushed[c]]

(* A candidate is a connection with the incarnation it was found in. *)
Forward(f, n) ==
    LET ready == {c \in Recipients(n) \intersect live : ~cancelled[c]} IN
    /\ fwd[f].at = "idle"
    /\ pushed' = Pushed({c \in ready : ~secured[c]})
    /\ CacheRoute(n, f, {<<c, inc[c]>> : c \in {d \in ready : secured[d]}})
    /\ UNCHANGED <<records, indexes, balance>>

(* Outside the lock: the policy's verdict on one candidate. *)
Drop(f, cand) ==
    [fwd EXCEPT ![f].cands = @ \ {cand}, ![f].asked = Nobody,
                ![f].at = IF fwd[f].cands = {cand} THEN "idle" ELSE "asking"]

Authorize(f, cand) ==
    /\ fwd[f].at = "asking" /\ cand \in fwd[f].cands
    /\ \/ fwd' = [fwd EXCEPT ![f].at = "rechecking", ![f].asked = cand]
       \/ fwd' = Drop(f, cand)
    /\ UNCHANGED <<records, indexes, routes, balance, pushed>>

(* Slip: the incarnation is not compared. *)
PassesAnyIncarnation(f, cand) ==
    /\ cand[1] \in live /\ secured[cand[1]] /\ ~cancelled[cand[1]]
    /\ fwd[f].fresh \/ MatchesName(cand[1], fwd[f].name)

(* Under the lock again: the same incarnation, not cancelled, and still on *)
(* a route that nothing has touched, or still matching.                    *)
Passes(f, cand) ==
    /\ cand[1] \in live /\ inc[cand[1]] = cand[2] /\ secured[cand[1]] /\ ~cancelled[cand[1]]
    /\ fwd[f].fresh \/ MatchesName(cand[1], fwd[f].name)

Deliver(f) ==
    /\ fwd[f].at = "rechecking"
    /\ pushed' = IF Passes(f, fwd[f].asked) THEN Pushed({fwd[f].asked[1]}) ELSE pushed
    /\ fwd' = Drop(f, fwd[f].asked)
    /\ UNCHANGED <<records, indexes, routes, balance>>

(* The connection's push forwarder takes one. *)
TakePush(c) ==
    /\ pushed[c] > 0 /\ pushed' = [pushed EXCEPT ![c] = @ - 1]
    /\ UNCHANGED <<records, indexes, routes, balance, fwd>>

(* The listener's frame handlers: one that is denied, malformed or over    *)
(* the rate limit changes nothing here.                                    *)
SubscribeFrame(c) == \E names \in SUBSET Names \ {{}} : Subscribe(c, names)
UnsubscribeFrame(c) == \E names \in SUBSET Names : Unsubscribe(c, names)
PatternFrame(c) ==
    \E batch \in SUBSET Patterns : UnsubscribePatterns(c, batch) \/ (batch # {} /\ SubscribePatterns(c, batch))

ConnSteps(c) ==
    \/ Revoke(c) \/ CancelToken(c) \/ TakePush(c)
    \/ \E withPolicy \in BOOLEAN : Register(c, withPolicy)
    \/ SubscribeFrame(c) \/ UnsubscribeFrame(c) \/ PatternFrame(c)

Next ==
    \/ \E c \in Conns : ConnSteps(c)
    \/ \E f \in Forwards : Deliver(f) \/ (\E n \in Names : Forward(f, n)) \/ (\E cand \in fwd[f].cands : Authorize(f, cand))

Spec == Init /\ [][Next]_vars

-----------------------------------------------------------------------------
(* Properties *)

SubsTypeOK ==
    /\ live \subseteq Conns /\ inc \in [Conns -> 0..MaxInc]
    /\ secured \in [Conns -> BOOLEAN] /\ cancelled \in [Conns -> BOOLEAN]
    /\ types \in [Conns -> SUBSET Names] /\ pats \in [Conns -> SUBSET Patterns]
    /\ exact \in [Names -> SUBSET Conns] /\ byPattern \in [Patterns -> SUBSET Conns]
    /\ routes \in [Names -> {NoRoute} \union SUBSET Conns]
    /\ pushed \in [Conns -> 0..PushCap] /\ balance \in Int
    /\ fwd \in [Forwards -> [at : {"idle", "asking", "rechecking"}, name : Names \union {Nobody},
                             cands : SUBSET (Conns \X (0..MaxInc)), fresh : BOOLEAN,
                             asked : (Conns \X (0..MaxInc)) \union {Nobody}]]

(* The two indexes are the inverse of the connections' records, whatever   *)
(* is replaced, revoked or unsubscribed in bulk (remove_connection,        *)
(* remove_index), and only registered connections have subscriptions.      *)
IndexesAgree ==
    /\ \A n \in Names : exact[n] = {c \in Conns : n \in types[c]}
    /\ \A p \in Patterns : byPattern[p] = {c \in Conns : p \in pats[c]}
    /\ \A c \in Conns \ live : types[c] = {} /\ pats[c] = {}

(* A cached route is what would be computed now: no change of the records  *)
(* leaves a stale route behind (lock order state, then routes).            *)
RoutesAreCurrent ==
    \A n \in Cached : routes[n] = {c \in Conns : MatchesName(c, n)} /\ n \notin LongNames

(* The cache never holds more than its cap. *)
CacheIsBounded == Cardinality(Cached) <= RouteCap

(* What the statistics count is what is subscribed. *)
CountsAgree ==
    balance = Cardinality({x \in Conns \X Names : x[2] \in types[x[1]]})
            + Cardinality({x \in Conns \X Patterns : x[2] \in pats[x[1]]})

(* Everything the manager keeps beside the connections' records follows    *)
(* from them.                                                              *)
DerivedStateAgrees ==
    SubsTypeOK /\ IndexesAgree /\ RoutesAreCurrent /\ CacheIsBounded /\ CountsAgree

(* A notification is enqueued only for a connection that is registered,    *)
(* not cancelled and subscribed to the name at that moment, and, where a   *)
(* policy admitted it, the very incarnation the policy was asked about:    *)
(* nothing is enqueued after revoke_connection returns.                    *)
DeliveryIsWarranted ==
    [][\A c \in Conns : pushed'[c] > pushed[c] =>
        /\ c \in live /\ ~cancelled[c]
        /\ \E f \in Forwards :
            /\ MatchesName(c, fwd'[f].name)
            /\ secured[c] => fwd[f].asked = <<c, inc[c]>> /\ fwd'[f].asked = Nobody]_vars
=============================================================================
