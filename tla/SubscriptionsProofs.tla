-------------------------- MODULE SubscriptionsProofs --------------------------
(***************************************************************************)
(* What the subscription manager keeps beside its connections' records     *)
(* follows from them, for all connections, names, patterns and limits, and *)
(* nothing is pushed without a warrant.                                    *)
(***************************************************************************)
EXTENDS Subscriptions, FiniteSetTheorems, TLAPS

(* What is known of a forward call under way.                              *)
Call ==
    [at : {"idle", "asking", "rechecking"}, name : Names \union {Nobody},
     cands : SUBSET (Conns \X (0..MaxInc)), fresh : BOOLEAN,
     asked : (Conns \X (0..MaxInc)) \union {Nobody}]

(* A route that nobody touched still leads to connections that match: what *)
(* allows a forward to skip the second look at the selectors.              *)
FreshCandidatesMatch ==
    \A f \in Forwards :
        /\ fwd[f].at = "rechecking" => fwd[f].asked \in fwd[f].cands
        /\ fwd[f].at # "idle" => fwd[f].name \in Names
        /\ fwd[f].fresh => \A cand \in fwd[f].cands : MatchesName(cand[1], fwd[f].name)

SubsInv == DerivedStateAgrees /\ FreshCandidatesMatch

-----------------------------------------------------------------------------
(* Counting.                                                               *)

(* The subscriptions of all connections, as pairs.                         *)
Pairs(sel, keys) == {x \in Conns \X keys : x[2] \in sel[x[1]]}

(* `to` is `sel` but for what connection c has.                            *)
Differs(to, sel, keys, c) ==
    /\ to \in [Conns -> SUBSET keys] /\ sel \in [Conns -> SUBSET keys]
    /\ \A d \in Conns : d # c => to[d] = sel[d]

(* Giving one connection other selectors changes the number of             *)
(* subscriptions by the difference.                                        *)
LEMMA PairsOfOne ==
    ASSUME NEW keys, IsFiniteSet(keys), NEW c \in Conns,
           NEW sel, NEW to, Differs(to, sel, keys, c)
    PROVE  /\ Cardinality(Pairs(sel, keys)) \in Int
           /\ Cardinality(sel[c]) \in Nat /\ Cardinality(to[c]) \in Nat
           /\ Cardinality(Pairs(to, keys))
                = Cardinality(Pairs(sel, keys)) - Cardinality(sel[c]) + Cardinality(to[c])
<1> DEFINE rest == {x \in Conns \X keys : x[1] # c /\ x[2] \in sel[x[1]]}
<1>1. IsFiniteSet(Conns \X keys)
  BY FS_Product, SubscriptionsAssumption
<1>2. IsFiniteSet(rest) /\ Cardinality(rest) \in Nat
  <2>1. rest \in SUBSET (Conns \X keys)
    OBVIOUS
  <2> HIDE DEF rest
  <2> QED
    BY <1>1, <2>1, FS_Subset, FS_CardinalityType
<1>3. ASSUME NEW own \in SUBSET keys
      PROVE  /\ Cardinality(own) \in Nat
             /\ Cardinality(rest \union ({c} \X own)) = Cardinality(rest) + Cardinality(own)
  <2> DEFINE new == {c} \X own
  <2>1. IsFiniteSet(own) /\ Cardinality(own) \in Nat
    BY FS_Subset, FS_CardinalityType
  <2>2. IsFiniteSet(new) /\ Cardinality(new) = Cardinality(own)
    <3>1. IsFiniteSet({c}) /\ Cardinality({c}) = 1
      BY FS_Singleton
    <3> QED
      BY <2>1, <3>1, FS_Product
  <2>3. Cardinality(rest \intersect new) = 0
    <3>1. rest \intersect new = {}
      OBVIOUS
    <3> QED
      BY <3>1, FS_EmptySet
  <2> HIDE DEF rest, new
  <2>4. Cardinality(rest \union new)
          = Cardinality(rest) + Cardinality(new) - Cardinality(rest \intersect new)
    BY <1>2, <2>2, FS_Union
  <2> QED
    BY <1>2, <2>1, <2>2, <2>3, <2>4 DEF new
<1>4. Pairs(sel, keys) = rest \union ({c} \X sel[c]) /\ sel[c] \in SUBSET keys
  BY DEF Pairs, Differs
<1>5. Pairs(to, keys) = rest \union ({c} \X to[c]) /\ to[c] \in SUBSET keys
  BY DEF Pairs, Differs
<1> HIDE DEF rest
<1>6. /\ Cardinality(sel[c]) \in Nat
      /\ Cardinality(Pairs(sel, keys)) = Cardinality(rest) + Cardinality(sel[c])
  BY <1>3, <1>4
<1>7. /\ Cardinality(to[c]) \in Nat
      /\ Cardinality(Pairs(to, keys)) = Cardinality(rest) + Cardinality(to[c])
  BY <1>3, <1>5
<1> QED
  BY <1>2, <1>6, <1>7

(* Taking away selectors that a connection has.                            *)
LEMMA FewerPairs ==
    ASSUME NEW keys, IsFiniteSet(keys), NEW c \in Conns, NEW gone,
           NEW sel, NEW to, Differs(to, sel, keys, c),
           gone \subseteq sel[c], to[c] = sel[c] \ gone
    PROVE  /\ Cardinality(Pairs(sel, keys)) \in Int /\ Cardinality(gone) \in Nat
           /\ Cardinality(Pairs(to, keys))
                = Cardinality(Pairs(sel, keys)) - Cardinality(gone)
<1>1. /\ IsFiniteSet(sel[c])
      /\ sel[c] \intersect gone = gone
  BY FS_Subset DEF Differs
<1>2. Cardinality(gone) \in Nat
  BY <1>1, FS_Subset, FS_CardinalityType
<1>3. Cardinality(to[c]) = Cardinality(sel[c]) - Cardinality(gone)
  BY <1>1, FS_Difference
<1>4. /\ Cardinality(Pairs(sel, keys)) \in Int /\ Cardinality(sel[c]) \in Nat
      /\ Cardinality(Pairs(to, keys))
           = Cardinality(Pairs(sel, keys)) - Cardinality(sel[c]) + Cardinality(to[c])
  BY PairsOfOne
<1> QED
  BY <1>2, <1>3, <1>4

(* Adding selectors that it does not have.                                 *)
LEMMA MorePairs ==
    ASSUME NEW keys, IsFiniteSet(keys), NEW c \in Conns, NEW new, new \subseteq keys,
           NEW sel, NEW to, Differs(to, sel, keys, c),
           sel[c] \intersect new = {}, to[c] = sel[c] \union new
    PROVE  /\ Cardinality(Pairs(sel, keys)) \in Int /\ Cardinality(new) \in Nat
           /\ Cardinality(Pairs(to, keys)) = Cardinality(Pairs(sel, keys)) + Cardinality(new)
<1>1. /\ Cardinality(Pairs(sel, keys)) \in Int /\ Cardinality(sel[c]) \in Nat
      /\ Cardinality(Pairs(to, keys))
           = Cardinality(Pairs(sel, keys)) - Cardinality(sel[c]) + Cardinality(to[c])
  BY ONLY IsFiniteSet(keys), c \in Conns, Differs(to, sel, keys, c), PairsOfOne
<1>2. IsFiniteSet(sel[c]) /\ IsFiniteSet(new)
  BY FS_Subset DEF Differs
<1>3. Cardinality(new) \in Nat
  BY <1>2, FS_CardinalityType
<1>4. Cardinality(sel[c] \union new)
        = Cardinality(sel[c]) + Cardinality(new) - Cardinality(sel[c] \intersect new)
  BY ONLY <1>2, FS_Union
<1>5. /\ Cardinality(sel[c] \intersect new) = 0
      /\ Cardinality(to[c]) = Cardinality(sel[c] \union new)
  BY ONLY sel[c] \intersect new = {}, to[c] = sel[c] \union new, FS_EmptySet
<1> QED
  BY ONLY <1>1, <1>3, <1>4, <1>5

-----------------------------------------------------------------------------
(* The indexes.                                                            *)

Inverts(index, sel, keys) ==
    /\ index \in [keys -> SUBSET Conns]
    /\ \A k \in keys : index[k] = {c \in Conns : k \in sel[c]}

(* remove_index and the insertion keep an index inverse to the selectors.  *)
LEMMA WithoutInverts ==
    ASSUME NEW keys, NEW c \in Conns, NEW gone, NEW index,
           NEW sel, NEW to, Differs(to, sel, keys, c), Inverts(index, sel, keys),
           to[c] = sel[c] \ gone
    PROVE  Inverts(Without(index, gone, c), to, keys)
BY DEF Inverts, Without, Differs

LEMMA WithInverts ==
    ASSUME NEW keys, NEW c \in Conns, NEW more \in SUBSET keys, NEW index,
           NEW sel, NEW to, Differs(to, sel, keys, c), Inverts(index, sel, keys),
           to[c] = sel[c] \union more
    PROVE  Inverts(With(index, more, c), to, keys)
BY DEF Inverts, With, Differs

(* What recipients computes from the indexes, and finds in the cache.      *)
LEMMA RecipientsMatch ==
    ASSUME SubsInv, NEW n \in Names
    PROVE  /\ Computed(n) = {c \in Conns : MatchesName(c, n)}
           /\ Computed(n) \in SUBSET Conns /\ Computed(n) # NoRoute
           /\ Recipients(n) = {c \in Conns : MatchesName(c, n)}
<1> USE DEF SubsInv, DerivedStateAgrees
<1>1. Computed(n) = {c \in Conns : MatchesName(c, n)}
  <2>1. \A c \in Conns : pats[c] \in SUBSET Patterns
    BY DEF SubsTypeOK
  <2>2. ASSUME NEW c PROVE c \in Computed(n) <=> c \in Conns /\ MatchesName(c, n)
    <3>1. c \in exact[n] <=> c \in Conns /\ n \in types[c]
      BY DEF IndexesAgree
    <3>2. \A p \in Patterns : c \in byPattern[p] <=> c \in Conns /\ p \in pats[c]
      BY DEF IndexesAgree
    <3>3. c \in Computed(n)
            <=> c \in exact[n] \/ \E p \in Patterns : <<p, n>> \in Matches /\ c \in byPattern[p]
      BY DEF Computed
    <3>4. c \in Conns => (MatchesName(c, n) <=>
            n \in types[c] \/ \E p \in Patterns : <<p, n>> \in Matches /\ p \in pats[c])
      BY <2>1 DEF MatchesName
    <3> QED
      BY <3>1, <3>2, <3>3, <3>4
  <2> QED
    BY <2>2
<1>2. Computed(n) \in SUBSET Conns
  BY <1>1
<1>3. Computed(n) # NoRoute
  BY <1>2, SubscriptionsAssumption
<1>4. Recipients(n) = {c \in Conns : MatchesName(c, n)}
  BY <1>1 DEF Recipients, RoutesAreCurrent, Cached
<1> QED
  BY <1>1, <1>2, <1>3, <1>4

-----------------------------------------------------------------------------
(* The steps.                                                              *)

LEMMA CountsAreOfPairs ==
    CountsAgree <=> balance = Cardinality(Pairs(types, Names)) + Cardinality(Pairs(pats, Patterns))
BY DEF CountsAgree, Pairs

(* The invariant says that both indexes are inverses.                      *)
LEMMA IndexesAreInverses ==
    ASSUME SubsInv
    PROVE  /\ Inverts(exact, types, Names) /\ Inverts(byPattern, pats, Patterns)
           /\ types \in [Conns -> SUBSET Names] /\ pats \in [Conns -> SUBSET Patterns]
           /\ balance = Cardinality(Pairs(types, Names)) + Cardinality(Pairs(pats, Patterns))
BY CountsAreOfPairs DEF SubsInv, DerivedStateAgrees, SubsTypeOK, IndexesAgree, Inverts

LEMMA FirstStateHasTheInvariant == Init => SubsInv
<1> SUFFICES ASSUME Init PROVE SubsInv
  OBVIOUS
<1> USE DEF Init
<1>1. SubsTypeOK
  <2>1. /\ live \subseteq Conns /\ inc \in [Conns -> 0..MaxInc]
        /\ pushed \in [Conns -> 0..PushCap] /\ balance \in Int
    BY SubscriptionsAssumption
  <2>2. fwd \in [Forwards -> Call]
    BY DEF Call
  <2>3. /\ secured \in [Conns -> BOOLEAN] /\ cancelled \in [Conns -> BOOLEAN]
        /\ types \in [Conns -> SUBSET Names] /\ pats \in [Conns -> SUBSET Patterns]
        /\ exact \in [Names -> SUBSET Conns] /\ byPattern \in [Patterns -> SUBSET Conns]
        /\ routes \in [Names -> {NoRoute} \union SUBSET Conns]
    OBVIOUS
  <2> QED
    BY <2>1, <2>2, <2>3 DEF SubsTypeOK, Call
<1>2. IndexesAgree
  BY DEF IndexesAgree
<1>3. RoutesAreCurrent /\ CacheIsBounded
  <2>1. Cached = {}
    BY DEF Cached
  <2> QED
    BY <2>1, FS_EmptySet, SubscriptionsAssumption DEF RoutesAreCurrent, CacheIsBounded
<1>4. CountsAgree
  <2>1. Pairs(types, Names) = {} /\ Pairs(pats, Patterns) = {}
    BY DEF Pairs
  <2>2. balance = 0
    OBVIOUS
  <2> QED
    BY ONLY <2>1, <2>2, FS_EmptySet, CountsAreOfPairs
<1>5. FreshCandidatesMatch
  BY DEF FreshCandidatesMatch
<1> QED
  BY <1>1, <1>2, <1>3, <1>4, <1>5 DEF SubsInv, DerivedStateAgrees

(* Every change of the records clears the routes: what is left to show of  *)
(* it is what it does to the records, the indexes and the count.           *)
LEMMA ChangeKeepsTheInvariant ==
    ASSUME SubsInv, ClearRoutes,
           live' \subseteq Conns, inc' \in [Conns -> 0..MaxInc],
           secured' \in [Conns -> BOOLEAN], cancelled' \in [Conns -> BOOLEAN],
           pushed' \in [Conns -> 0..PushCap], balance' \in Int,
           types' \in [Conns -> SUBSET Names], pats' \in [Conns -> SUBSET Patterns],
           Inverts(exact', types', Names), Inverts(byPattern', pats', Patterns),
           \A c \in Conns \ live' : types'[c] = {} /\ pats'[c] = {},
           balance' = Cardinality(Pairs(types', Names)) + Cardinality(Pairs(pats', Patterns))
    PROVE  SubsInv'
<1>1. SubsTypeOK'
  <2>1. routes' \in [Names -> {NoRoute} \union SUBSET Conns]
    BY DEF ClearRoutes
  <2>2. fwd' \in [Forwards -> Call]
    <3>1. ASSUME NEW f \in Forwards PROVE [fwd[f] EXCEPT !.fresh = FALSE] \in Call
      <4>1. fwd[f] \in Call
        BY DEF SubsInv, DerivedStateAgrees, SubsTypeOK, Call
      <4> QED
        BY <4>1 DEF Call
    <3> QED
      BY <3>1 DEF ClearRoutes
  <2>3. exact' \in [Names -> SUBSET Conns] /\ byPattern' \in [Patterns -> SUBSET Conns]
    BY DEF Inverts
  <2> QED
    BY <2>1, <2>2, <2>3 DEF SubsTypeOK, Call
<1>2. IndexesAgree'
  BY DEF IndexesAgree, Inverts
<1>3. RoutesAreCurrent' /\ CacheIsBounded'
  <2>1. Cached' = {}
    BY DEF ClearRoutes, Cached
  <2> QED
    BY <2>1, FS_EmptySet, SubscriptionsAssumption DEF RoutesAreCurrent, CacheIsBounded
<1>4. CountsAgree'
  BY DEF CountsAgree, Pairs
<1>5. FreshCandidatesMatch'
  <2>1. ASSUME NEW f \in Forwards
        PROVE  /\ fwd'[f].at = fwd[f].at /\ fwd'[f].asked = fwd[f].asked
               /\ fwd'[f].cands = fwd[f].cands /\ fwd'[f].name = fwd[f].name
               /\ ~fwd'[f].fresh
    BY DEF ClearRoutes, SubsInv, DerivedStateAgrees, SubsTypeOK
  <2> QED
    BY <2>1 DEF FreshCandidatesMatch, SubsInv
<1> QED
  BY <1>1, <1>2, <1>3, <1>4, <1>5 DEF SubsInv, DerivedStateAgrees

(* Selectors taken from both indexes and both records of one connection.   *)
LEMMA TakenAway ==
    ASSUME SubsInv, NEW c \in Conns, NEW names, NEW batch,
           names \subseteq types[c], batch \subseteq pats[c],
           types' = [types EXCEPT ![c] = types[c] \ names],
           pats' = [pats EXCEPT ![c] = pats[c] \ batch],
           exact' = Without(exact, names, c), byPattern' = Without(byPattern, batch, c),
           balance' = balance - (Cardinality(names) + Cardinality(batch))
    PROVE  /\ types' \in [Conns -> SUBSET Names] /\ pats' \in [Conns -> SUBSET Patterns]
           /\ Inverts(exact', types', Names) /\ Inverts(byPattern', pats', Patterns)
           /\ balance' \in Int
           /\ balance' = Cardinality(Pairs(types', Names)) + Cardinality(Pairs(pats', Patterns))
           /\ \A d \in Conns : types'[d] \subseteq types[d] /\ pats'[d] \subseteq pats[d]
<1>1. /\ Inverts(exact, types, Names) /\ Inverts(byPattern, pats, Patterns)
      /\ types \in [Conns -> SUBSET Names] /\ pats \in [Conns -> SUBSET Patterns]
      /\ balance = Cardinality(Pairs(types, Names)) + Cardinality(Pairs(pats, Patterns))
  BY IndexesAreInverses
<1>2. Differs(types', types, Names, c) /\ types'[c] = types[c] \ names
  BY <1>1 DEF Differs
<1>3. Differs(pats', pats, Patterns, c) /\ pats'[c] = pats[c] \ batch
  BY <1>1 DEF Differs
<1>4. Inverts(exact', types', Names) /\ Inverts(byPattern', pats', Patterns)
  BY <1>1, <1>2, <1>3, WithoutInverts
<1>5. /\ Cardinality(Pairs(types, Names)) \in Int /\ Cardinality(names) \in Nat
      /\ Cardinality(Pairs(types', Names)) = Cardinality(Pairs(types, Names)) - Cardinality(names)
  BY ONLY c \in Conns, names \subseteq types[c], <1>2, FewerPairs, SubscriptionsAssumption
<1>6. /\ Cardinality(Pairs(pats, Patterns)) \in Int /\ Cardinality(batch) \in Nat
      /\ Cardinality(Pairs(pats', Patterns)) = Cardinality(Pairs(pats, Patterns)) - Cardinality(batch)
  BY ONLY c \in Conns, batch \subseteq pats[c], <1>3, FewerPairs, SubscriptionsAssumption
<1>7. /\ balance' \in Int
      /\ balance' = Cardinality(Pairs(types', Names)) + Cardinality(Pairs(pats', Patterns))
  BY ONLY balance' = balance - (Cardinality(names) + Cardinality(batch)), <1>1, <1>5, <1>6
<1> QED
  BY <1>1, <1>2, <1>3, <1>4, <1>7 DEF Differs

(* remove_connection: all of them.                                         *)
LEMMA AllTakenAway ==
    ASSUME SubsInv, NEW c \in Conns, Removed(c)
    PROVE  /\ types' \in [Conns -> SUBSET Names] /\ pats' \in [Conns -> SUBSET Patterns]
           /\ Inverts(exact', types', Names) /\ Inverts(byPattern', pats', Patterns)
           /\ balance' \in Int
           /\ balance' = Cardinality(Pairs(types', Names)) + Cardinality(Pairs(pats', Patterns))
           /\ \A d \in Conns \ (live \ {c}) : types'[d] = {} /\ pats'[d] = {}
<1>1. types[c] \ types[c] = {} /\ pats[c] \ pats[c] = {}
  OBVIOUS
<1>2. /\ types' = [types EXCEPT ![c] = types[c] \ types[c]]
      /\ pats' = [pats EXCEPT ![c] = pats[c] \ pats[c]]
  BY <1>1 DEF Removed
<1>3. /\ exact' = Without(exact, types[c], c) /\ byPattern' = Without(byPattern, pats[c], c)
      /\ balance' = balance - (Cardinality(types[c]) + Cardinality(pats[c]))
  BY DEF Removed, Count
<1>4. types'[c] = {} /\ pats'[c] = {}
  BY <1>1, <1>2, IndexesAreInverses
<1>5. \A d \in Conns \ live : types[d] = {} /\ pats[d] = {}
  BY DEF SubsInv, DerivedStateAgrees, IndexesAgree
<1> HIDE DEF Removed
<1>6. types[c] \subseteq types[c] /\ pats[c] \subseteq pats[c]
  OBVIOUS
<1>7. /\ types' \in [Conns -> SUBSET Names] /\ pats' \in [Conns -> SUBSET Patterns]
      /\ Inverts(exact', types', Names) /\ Inverts(byPattern', pats', Patterns)
      /\ balance' \in Int
      /\ balance' = Cardinality(Pairs(types', Names)) + Cardinality(Pairs(pats', Patterns))
      /\ \A d \in Conns : types'[d] \subseteq types[d] /\ pats'[d] \subseteq pats[d]
  BY <1>2, <1>3, <1>6, TakenAway
<1> QED
  BY <1>4, <1>5, <1>7

LEMMA RegisterKeepsTheInvariant ==
    ASSUME SubsInv, NEW c \in Conns, NEW withPolicy \in BOOLEAN, Register(c, withPolicy)
    PROVE  SubsInv'
<1>1. /\ live' \subseteq Conns /\ inc' \in [Conns -> 0..MaxInc]
      /\ secured' \in [Conns -> BOOLEAN] /\ cancelled' \in [Conns -> BOOLEAN]
      /\ pushed' \in [Conns -> 0..PushCap]
  BY SubscriptionsAssumption DEF Register, SubsInv, DerivedStateAgrees, SubsTypeOK
<1>2. Removed(c) /\ ClearRoutes /\ live' = live \union {c}
  BY DEF Register
<1>3. \A d \in Conns \ live' : d \in Conns \ (live \ {c})
  BY <1>2
<1> QED
  BY <1>1, <1>2, <1>3, AllTakenAway, ChangeKeepsTheInvariant

LEMMA RevokeKeepsTheInvariant ==
    ASSUME SubsInv, NEW c \in Conns, Revoke(c)
    PROVE  SubsInv'
<1>1. /\ live' \subseteq Conns /\ inc' \in [Conns -> 0..MaxInc]
      /\ secured' \in [Conns -> BOOLEAN] /\ cancelled' \in [Conns -> BOOLEAN]
      /\ pushed' \in [Conns -> 0..PushCap]
  BY DEF Revoke, SubsInv, DerivedStateAgrees, SubsTypeOK
<1>2. Removed(c) /\ ClearRoutes /\ live' = live \ {c}
  BY DEF Revoke
<1> QED
  BY <1>1, <1>2, AllTakenAway, ChangeKeepsTheInvariant

LEMMA SubscribeKeepsTheInvariant ==
    ASSUME SubsInv, NEW c \in Conns, NEW names \in SUBSET Names, Subscribe(c, names)
    PROVE  SubsInv'
<1>1. /\ Inverts(exact, types, Names) /\ Inverts(byPattern, pats, Patterns)
      /\ types \in [Conns -> SUBSET Names] /\ pats \in [Conns -> SUBSET Patterns]
      /\ balance = Cardinality(Pairs(types, Names)) + Cardinality(Pairs(pats, Patterns))
  BY IndexesAreInverses
<1>2. /\ c \in live /\ types' = [types EXCEPT ![c] = types[c] \union names]
      /\ exact' = With(exact, names, c)
      /\ balance' = balance + Cardinality(names \ types[c])
      /\ ClearRoutes /\ live' = live /\ inc' = inc /\ secured' = secured
      /\ cancelled' = cancelled /\ pats' = pats /\ byPattern' = byPattern /\ pushed' = pushed
  BY DEF Subscribe
<1>3. Differs(types', types, Names, c) /\ types'[c] = types[c] \union names
  BY <1>1, <1>2 DEF Differs
<1>4. Inverts(exact', types', Names) /\ Inverts(byPattern', pats', Patterns)
  BY <1>1, <1>2, <1>3, WithInverts
<1>5. /\ Cardinality(Pairs(types, Names)) \in Int /\ Cardinality(names \ types[c]) \in Nat
      /\ Cardinality(Pairs(types', Names))
           = Cardinality(Pairs(types, Names)) + Cardinality(names \ types[c])
  <2> DEFINE new == names \ types[c]
  <2>1. /\ new \subseteq Names /\ types[c] \intersect new = {}
        /\ types'[c] = types[c] \union new
    BY <1>3
  <2> HIDE DEF new
  <2>2. /\ Cardinality(Pairs(types, Names)) \in Int /\ Cardinality(new) \in Nat
        /\ Cardinality(Pairs(types', Names)) = Cardinality(Pairs(types, Names)) + Cardinality(new)
    BY ONLY c \in Conns, <1>3, <2>1, MorePairs, SubscriptionsAssumption
  <2> QED
    BY <2>2 DEF new
<1>6. Cardinality(Pairs(pats, Patterns)) \in Int
  <2>1. Differs(pats, pats, Patterns, c)
    BY <1>1 DEF Differs
  <2> QED
    BY ONLY c \in Conns, <2>1, PairsOfOne, SubscriptionsAssumption
<1>7. /\ balance' \in Int
      /\ balance' = Cardinality(Pairs(types', Names)) + Cardinality(Pairs(pats', Patterns))
  BY ONLY <1>1, <1>2, <1>5, <1>6
<1>8. \A d \in Conns \ live' : types'[d] = {} /\ pats'[d] = {}
  BY <1>2, <1>3 DEF Differs, SubsInv, DerivedStateAgrees, IndexesAgree
<1>9. /\ live' \subseteq Conns /\ inc' \in [Conns -> 0..MaxInc]
      /\ secured' \in [Conns -> BOOLEAN] /\ cancelled' \in [Conns -> BOOLEAN]
      /\ pushed' \in [Conns -> 0..PushCap]
      /\ types' \in [Conns -> SUBSET Names] /\ pats' \in [Conns -> SUBSET Patterns]
  BY <1>1, <1>2, <1>3 DEF Differs, SubsInv, DerivedStateAgrees, SubsTypeOK
<1>10. ClearRoutes
  BY <1>2
<1> QED
  BY <1>4, <1>7, <1>8, <1>9, <1>10, ChangeKeepsTheInvariant

LEMMA SubscribePatternsKeepsTheInvariant ==
    ASSUME SubsInv, NEW c \in Conns, NEW batch \in SUBSET Patterns,
           SubscribePatterns(c, batch)
    PROVE  SubsInv'
<1>1. /\ Inverts(exact, types, Names) /\ Inverts(byPattern, pats, Patterns)
      /\ types \in [Conns -> SUBSET Names] /\ pats \in [Conns -> SUBSET Patterns]
      /\ balance = Cardinality(Pairs(types, Names)) + Cardinality(Pairs(pats, Patterns))
  BY IndexesAreInverses
<1>2. /\ c \in live /\ pats' = [pats EXCEPT ![c] = pats[c] \union batch]
      /\ byPattern' = With(byPattern, batch, c)
      /\ balance' = balance + Cardinality(batch \ pats[c])
      /\ ClearRoutes /\ live' = live /\ inc' = inc /\ secured' = secured
      /\ cancelled' = cancelled /\ types' = types /\ exact' = exact /\ pushed' = pushed
  BY DEF SubscribePatterns
<1>3. Differs(pats', pats, Patterns, c) /\ pats'[c] = pats[c] \union batch
  BY <1>1, <1>2 DEF Differs
<1>4. Inverts(exact', types', Names) /\ Inverts(byPattern', pats', Patterns)
  BY <1>1, <1>2, <1>3, WithInverts
<1>5. /\ Cardinality(Pairs(pats, Patterns)) \in Int /\ Cardinality(batch \ pats[c]) \in Nat
      /\ Cardinality(Pairs(pats', Patterns))
           = Cardinality(Pairs(pats, Patterns)) + Cardinality(batch \ pats[c])
  <2> DEFINE new == batch \ pats[c]
  <2>1. /\ new \subseteq Patterns /\ pats[c] \intersect new = {}
        /\ pats'[c] = pats[c] \union new
    BY <1>3
  <2> HIDE DEF new
  <2>2. /\ Cardinality(Pairs(pats, Patterns)) \in Int /\ Cardinality(new) \in Nat
        /\ Cardinality(Pairs(pats', Patterns)) = Cardinality(Pairs(pats, Patterns)) + Cardinality(new)
    BY ONLY c \in Conns, <1>3, <2>1, MorePairs, SubscriptionsAssumption
  <2> QED
    BY <2>2 DEF new
<1>6. Cardinality(Pairs(types, Names)) \in Int
  <2>1. Differs(types, types, Names, c)
    BY <1>1 DEF Differs
  <2> QED
    BY ONLY c \in Conns, <2>1, PairsOfOne, SubscriptionsAssumption
<1>7. /\ balance' \in Int
      /\ balance' = Cardinality(Pairs(types', Names)) + Cardinality(Pairs(pats', Patterns))
  BY ONLY <1>1, <1>2, <1>5, <1>6
<1>8. \A d \in Conns \ live' : types'[d] = {} /\ pats'[d] = {}
  BY <1>2, <1>3 DEF Differs, SubsInv, DerivedStateAgrees, IndexesAgree
<1>9. /\ live' \subseteq Conns /\ inc' \in [Conns -> 0..MaxInc]
      /\ secured' \in [Conns -> BOOLEAN] /\ cancelled' \in [Conns -> BOOLEAN]
      /\ pushed' \in [Conns -> 0..PushCap]
      /\ types' \in [Conns -> SUBSET Names] /\ pats' \in [Conns -> SUBSET Patterns]
  BY <1>1, <1>2, <1>3 DEF Differs, SubsInv, DerivedStateAgrees, SubsTypeOK
<1>10. ClearRoutes
  BY <1>2
<1> QED
  BY <1>4, <1>7, <1>8, <1>9, <1>10, ChangeKeepsTheInvariant

(* Unsubscribing leaves everything but selectors and the count alone.      *)
LEMMA LessKeepsTheInvariant ==
    ASSUME SubsInv, NEW c \in Conns, NEW names, NEW batch,
           names \subseteq types[c], batch \subseteq pats[c],
           types' = [types EXCEPT ![c] = types[c] \ names],
           pats' = [pats EXCEPT ![c] = pats[c] \ batch],
           exact' = Without(exact, names, c), byPattern' = Without(byPattern, batch, c),
           balance' = balance - (Cardinality(names) + Cardinality(batch)),
           ClearRoutes, UNCHANGED <<live, inc, secured, cancelled, pushed>>
    PROVE  SubsInv'
<1>1. /\ types' \in [Conns -> SUBSET Names] /\ pats' \in [Conns -> SUBSET Patterns]
      /\ Inverts(exact', types', Names) /\ Inverts(byPattern', pats', Patterns)
      /\ balance' \in Int
      /\ balance' = Cardinality(Pairs(types', Names)) + Cardinality(Pairs(pats', Patterns))
      /\ \A d \in Conns : types'[d] \subseteq types[d] /\ pats'[d] \subseteq pats[d]
  BY TakenAway
<1>2. \A d \in Conns \ live' : types'[d] = {} /\ pats'[d] = {}
  <2>1. \A d \in Conns \ live : types[d] = {} /\ pats[d] = {}
    BY DEF SubsInv, DerivedStateAgrees, IndexesAgree
  <2> QED
    BY ONLY <1>1, <2>1, live' = live
<1>3. /\ live' \subseteq Conns /\ inc' \in [Conns -> 0..MaxInc]
      /\ secured' \in [Conns -> BOOLEAN] /\ cancelled' \in [Conns -> BOOLEAN]
      /\ pushed' \in [Conns -> 0..PushCap]
  BY ONLY SubsInv, UNCHANGED <<live, inc, secured, cancelled, pushed>>
     DEF SubsInv, DerivedStateAgrees, SubsTypeOK
<1> QED
  BY ONLY SubsInv, ClearRoutes, <1>1, <1>2, <1>3, ChangeKeepsTheInvariant

LEMMA UnsubscribeKeepsTheInvariant ==
    ASSUME SubsInv, NEW c \in Conns, NEW names \in SUBSET Names, Unsubscribe(c, names)
    PROVE  SubsInv'
<1> DEFINE gone == IF names = {} THEN types[c] ELSE names \intersect types[c]
           patterns == IF names = {} THEN pats[c] ELSE {}
<1>1. gone \subseteq types[c] /\ patterns \subseteq pats[c]
  OBVIOUS
<1>2. /\ types' = [types EXCEPT ![c] = types[c] \ gone]
      /\ pats' = [pats EXCEPT ![c] = pats[c] \ patterns]
      /\ exact' = Without(exact, gone, c) /\ byPattern' = Without(byPattern, patterns, c)
      /\ balance' = balance - (Cardinality(gone) + Cardinality(patterns))
      /\ ClearRoutes /\ UNCHANGED <<live, inc, secured, cancelled, pushed>>
  BY DEF Unsubscribe
<1> HIDE DEF gone, patterns
<1> QED
  BY ONLY SubsInv, c \in Conns, <1>1, <1>2, LessKeepsTheInvariant

LEMMA UnsubscribePatternsKeepsTheInvariant ==
    ASSUME SubsInv, NEW c \in Conns, NEW batch \in SUBSET Patterns,
           UnsubscribePatterns(c, batch)
    PROVE  SubsInv'
<1> DEFINE gone == IF batch = {} THEN pats[c] ELSE batch \intersect pats[c]
           none == {}
<1>1. none \subseteq types[c] /\ gone \subseteq pats[c]
  OBVIOUS
<1>2. /\ types' = types /\ exact' = exact
      /\ pats' = [pats EXCEPT ![c] = pats[c] \ gone]
      /\ byPattern' = Without(byPattern, gone, c)
      /\ balance' = balance - Cardinality(gone)
      /\ ClearRoutes /\ UNCHANGED <<live, inc, secured, cancelled, pushed>>
  BY DEF UnsubscribePatterns
<1> HIDE DEF gone
<1>3. types' = [types EXCEPT ![c] = types[c] \ none]
  BY <1>2, IndexesAreInverses
<1>4. exact' = Without(exact, none, c)
  BY <1>2, IndexesAreInverses DEF Without, Inverts
<1>5. balance' = balance - (Cardinality(none) + Cardinality(gone))
  <2>1. Cardinality(gone) \in Nat /\ Cardinality(none) = 0 /\ balance \in Int
    <3>1. pats[c] \in SUBSET Patterns
      BY IndexesAreInverses
    <3>2. IsFiniteSet(gone)
      BY <1>1, <3>1, FS_Subset, SubscriptionsAssumption
    <3> QED
      BY <3>2, FS_CardinalityType, FS_EmptySet DEF SubsInv, DerivedStateAgrees, SubsTypeOK
  <2> QED
    BY <1>2, <2>1
<1> HIDE DEF none
<1> QED
  BY ONLY SubsInv, c \in Conns, <1>1, <1>2, <1>3, <1>4, <1>5, LessKeepsTheInvariant

(* A step that leaves the records, the indexes and the count alone has to  *)
(* keep the routes it adds current, and what it knows of its candidates.   *)
LEMMA ForwardingKeepsTheInvariant ==
    ASSUME SubsInv, UNCHANGED <<live, inc, secured, types, pats, exact, byPattern, balance>>,
           cancelled' \in [Conns -> BOOLEAN], pushed' \in [Conns -> 0..PushCap],
           routes' \in [Names -> {NoRoute} \union SUBSET Conns], fwd' \in [Forwards -> Call],
           RoutesAreCurrent', CacheIsBounded', FreshCandidatesMatch'
    PROVE  SubsInv'
<1>1. SubsTypeOK'
  BY DEF SubsInv, DerivedStateAgrees, SubsTypeOK, Call
<1>2. IndexesAgree' /\ CountsAgree'
  BY DEF SubsInv, DerivedStateAgrees, IndexesAgree, CountsAgree
<1> QED
  BY <1>1, <1>2 DEF SubsInv, DerivedStateAgrees

(* The cache's part of the invariant survives if the cache does.           *)
LEMMA SameRoutes ==
    ASSUME SubsInv, UNCHANGED <<types, pats, routes>>
    PROVE  /\ routes' \in [Names -> {NoRoute} \union SUBSET Conns]
           /\ RoutesAreCurrent' /\ CacheIsBounded'
           /\ \A c, n : MatchesName(c, n)' <=> MatchesName(c, n)
<1>1. \A c, n : MatchesName(c, n)' <=> MatchesName(c, n)
  BY DEF MatchesName
<1>2. Cached' = Cached
  BY DEF Cached
<1>3. RoutesAreCurrent /\ CacheIsBounded /\ routes \in [Names -> {NoRoute} \union SUBSET Conns]
  BY DEF SubsInv, DerivedStateAgrees, SubsTypeOK
<1>4. RoutesAreCurrent'
  BY ONLY <1>1, <1>2, <1>3, routes' = routes DEF RoutesAreCurrent
<1>5. CacheIsBounded'
  BY ONLY <1>2, <1>3 DEF CacheIsBounded
<1> QED
  BY <1>1, <1>3, <1>4, <1>5

LEMMA CancelTokenKeepsTheInvariant ==
    ASSUME SubsInv, NEW c \in Conns, CancelToken(c) \/ TakePush(c)
    PROVE  SubsInv'
<1>1. /\ UNCHANGED <<live, inc, secured, types, pats, exact, byPattern, balance>>
      /\ routes' = routes /\ fwd' = fwd
      /\ cancelled' \in [Conns -> BOOLEAN] /\ pushed' \in [Conns -> 0..PushCap]
  <2>1. cancelled \in [Conns -> BOOLEAN] /\ pushed \in [Conns -> 0..PushCap]
    BY DEF SubsInv, DerivedStateAgrees, SubsTypeOK
  <2>2. CASE CancelToken(c)
    BY <2>1, <2>2 DEF CancelToken, indexes
  <2>3. CASE TakePush(c)
    <3>1. pushed[c] - 1 \in 0..PushCap
      BY <2>1, <2>3, SubscriptionsAssumption DEF TakePush
    <3> QED
      BY <2>1, <2>3, <3>1 DEF TakePush, records, indexes
  <2> QED
    BY <2>2, <2>3
<1>2. FreshCandidatesMatch' /\ fwd' \in [Forwards -> Call]
  BY <1>1 DEF SubsInv, DerivedStateAgrees, SubsTypeOK, Call, FreshCandidatesMatch, MatchesName
<1> QED
  BY <1>1, <1>2, SameRoutes, ForwardingKeepsTheInvariant

(* What is dropped from a forward's candidates leaves the others.          *)
LEMMA DroppedCandidate ==
    ASSUME SubsInv, NEW f \in Forwards, NEW cand, fwd[f].at # "idle", fwd' = Drop(f, cand),
           UNCHANGED <<types, pats>>
    PROVE  fwd' \in [Forwards -> Call] /\ FreshCandidatesMatch'
<1>1. fwd \in [Forwards -> Call]
  BY DEF SubsInv, DerivedStateAgrees, SubsTypeOK, Call
<1>2. /\ fwd'[f].cands = fwd[f].cands \ {cand} /\ fwd'[f].asked = Nobody
      /\ fwd'[f].at \in {"idle", "asking"} /\ fwd'[f].name = fwd[f].name
      /\ fwd'[f].fresh = fwd[f].fresh
      /\ \A g \in Forwards \ {f} : fwd'[g] = fwd[g]
  BY <1>1 DEF Drop, Call
<1>3. fwd' \in [Forwards -> Call]
  <2>1. [fwd[f] EXCEPT !.cands = @ \ {cand}, !.asked = Nobody,
                       !.at = IF fwd[f].cands = {cand} THEN "idle" ELSE "asking"] \in Call
    <3>1. fwd[f] \in Call /\ fwd[f].cands \ {cand} \in SUBSET (Conns \X (0..MaxInc))
      BY <1>1 DEF Call
    <3> QED
      BY <3>1 DEF Call
  <2> QED
    BY <1>1, <2>1 DEF Drop
<1>4. FreshCandidatesMatch'
  BY <1>2 DEF SubsInv, FreshCandidatesMatch, MatchesName
<1> QED
  BY <1>3, <1>4

LEMMA AuthorizeKeepsTheInvariant ==
    ASSUME SubsInv, NEW f \in Forwards, NEW cand \in fwd[f].cands, Authorize(f, cand)
    PROVE  SubsInv'
<1>1. fwd \in [Forwards -> Call]
  BY DEF SubsInv, DerivedStateAgrees, SubsTypeOK, Call
<1>2. /\ fwd[f].at = "asking"
      /\ UNCHANGED <<live, inc, secured, cancelled, types, pats, exact, byPattern, routes, balance, pushed>>
  BY DEF Authorize, records, indexes
<1>3. fwd' \in [Forwards -> Call] /\ FreshCandidatesMatch'
  <2>1. CASE fwd' = Drop(f, cand)
    BY <1>2, <2>1, DroppedCandidate
  <2>2. CASE fwd' = [fwd EXCEPT ![f].at = "rechecking", ![f].asked = cand]
    <3>1. cand \in Conns \X (0..MaxInc)
      BY <1>1 DEF Call
    <3>2. /\ fwd'[f].cands = fwd[f].cands /\ fwd'[f].asked = cand
          /\ fwd'[f].name = fwd[f].name /\ fwd'[f].fresh = fwd[f].fresh
          /\ \A g \in Forwards \ {f} : fwd'[g] = fwd[g]
      BY <1>1, <2>2 DEF Call
    <3>3. fwd' \in [Forwards -> Call]
      <4>1. [fwd[f] EXCEPT !.at = "rechecking", !.asked = cand] \in Call
        <5>1. fwd[f] \in Call
          BY <1>1
        <5> QED
          BY <3>1, <5>1 DEF Call
      <4>2. fwd' = [fwd EXCEPT ![f] = [fwd[f] EXCEPT !.at = "rechecking", !.asked = cand]]
        BY <1>1, <2>2
      <4> QED
        BY <1>1, <4>1, <4>2
    <3>4. FreshCandidatesMatch'
      BY <1>2, <3>2 DEF SubsInv, FreshCandidatesMatch, MatchesName
    <3> QED
      BY <3>3, <3>4
  <2> QED
    BY <2>1, <2>2 DEF Authorize
<1>4. cancelled' \in [Conns -> BOOLEAN] /\ pushed' \in [Conns -> 0..PushCap]
  BY <1>2 DEF SubsInv, DerivedStateAgrees, SubsTypeOK
<1> QED
  BY <1>2, <1>3, <1>4, SameRoutes, ForwardingKeepsTheInvariant

(* A full channel drops what is pushed.                                    *)
LEMMA PushedType ==
    ASSUME SubsInv, NEW cs
    PROVE  Pushed(cs) \in [Conns -> 0..PushCap]
BY SubscriptionsAssumption DEF SubsInv, DerivedStateAgrees, SubsTypeOK, Pushed

LEMMA DeliverKeepsTheInvariant ==
    ASSUME SubsInv, NEW f \in Forwards, Deliver(f)
    PROVE  SubsInv'
<1>1. /\ fwd[f].at = "rechecking" /\ fwd' = Drop(f, fwd[f].asked)
      /\ UNCHANGED <<live, inc, secured, cancelled, types, pats, exact, byPattern, routes, balance>>
  BY DEF Deliver, records, indexes
<1>2. fwd' \in [Forwards -> Call] /\ FreshCandidatesMatch'
  BY <1>1, DroppedCandidate
<1>3. cancelled' \in [Conns -> BOOLEAN] /\ pushed' \in [Conns -> 0..PushCap]
  BY <1>1, PushedType DEF Deliver, SubsInv, DerivedStateAgrees, SubsTypeOK
<1> QED
  BY <1>1, <1>2, <1>3, SameRoutes, ForwardingKeepsTheInvariant

(* recipients: what a forward starts with, whether it found the route,     *)
(* made one, or dropped another for it.                                    *)
LEMMA CacheRouteKeepsTheRoutes ==
    ASSUME SubsInv, NEW f \in Forwards, NEW n \in Names, NEW cands,
           CacheRoute(n, f, cands), UNCHANGED <<types, pats>>
    PROVE  /\ routes' \in [Names -> {NoRoute} \union SUBSET Conns]
           /\ RoutesAreCurrent' /\ CacheIsBounded'
<1> DEFINE found == n \in Cached \union LongNames
<1>1. /\ routes \in [Names -> {NoRoute} \union SUBSET Conns]
      /\ RoutesAreCurrent /\ CacheIsBounded
  BY DEF SubsInv, DerivedStateAgrees, SubsTypeOK
<1>2. /\ Computed(n) = {c \in Conns : MatchesName(c, n)}
      /\ Computed(n) \in SUBSET Conns /\ Computed(n) # NoRoute
  BY RecipientsMatch
<1>3. IsFiniteSet(Cached) /\ Cardinality(Cached) \in Nat
  <2>1. Cached \in SUBSET Names
    BY DEF Cached
  <2> QED
    BY <2>1, FS_Subset, FS_CardinalityType, SubscriptionsAssumption
<1>4. CASE found
  BY <1>4, SameRoutes DEF CacheRoute
<1>5. ASSUME ~found, NEW gone \in SUBSET Cached,
             routes' = [m \in Names |-> IF m = n THEN Computed(n)
                                         ELSE IF m \in gone THEN NoRoute ELSE routes[m]]
      PROVE  /\ routes' \in [Names -> {NoRoute} \union SUBSET Conns]
             /\ RoutesAreCurrent'
             /\ Cached' = (Cached \ gone) \union {n}
  <2>1. n \notin gone
    BY <1>5
  <2>2. routes' \in [Names -> {NoRoute} \union SUBSET Conns]
    BY <1>1, <1>2, <1>5
  <2>3. Cached' = (Cached \ gone) \union {n}
    BY <1>2, <1>5, <2>1 DEF Cached
  <2>4. \A c, m : MatchesName(c, m)' <=> MatchesName(c, m)
    BY DEF MatchesName
  <2>5. ASSUME NEW m \in Cached'
        PROVE  routes'[m] = {c \in Conns : MatchesName(c, m)} /\ m \notin LongNames
    <3>1. CASE m = n
      BY <1>2, <1>5, <3>1
    <3>2. CASE m # n
      <4>1. m \in Cached /\ m \notin gone /\ m \in Names
        BY <2>3, <2>5, <3>2 DEF Cached
      <4> QED
        BY <1>1, <1>5, <3>2, <4>1 DEF RoutesAreCurrent
    <3> QED
      BY <3>1, <3>2
  <2>6. RoutesAreCurrent'
    BY <2>4, <2>5 DEF RoutesAreCurrent
  <2> QED
    BY <2>2, <2>3, <2>6
<1>6. CASE ~found /\ Cardinality(Cached) < RouteCap
  <2> DEFINE none == {}
  <2>1. routes' = [routes EXCEPT ![n] = Computed(n)]
    BY <1>3, <1>6, SubscriptionsAssumption DEF CacheRoute
  <2>2. routes' = [m \in Names |-> IF m = n THEN Computed(n)
                                   ELSE IF m \in none THEN NoRoute ELSE routes[m]]
    BY <1>1, <2>1
  <2>3. none \in SUBSET Cached /\ Cached \ none = Cached
    OBVIOUS
  <2> HIDE DEF none
  <2>4. /\ Cached' = Cached \union {n} /\ RoutesAreCurrent'
        /\ routes' \in [Names -> {NoRoute} \union SUBSET Conns]
    BY <1>5, <1>6, <2>2, <2>3
  <2>5. n \notin Cached
    BY <1>6
  <2> HIDE DEF found
  <2>6. Cardinality(Cached \union {n}) = Cardinality(Cached) + 1
    BY ONLY <1>3, <2>5, FS_AddElement
  <2>7. Cardinality(Cached') = Cardinality(Cached) + 1
    BY ONLY <2>4, <2>6
  <2> QED
    BY <1>3, <1>6, <2>4, <2>7, SubscriptionsAssumption DEF CacheIsBounded
<1>7. CASE ~found /\ Cardinality(Cached) >= RouteCap
  <2>1. PICK old \in Cached :
          routes' = [routes EXCEPT ![old] = NoRoute, ![n] = Computed(n)]
    BY <1>3, <1>7, SubscriptionsAssumption DEF CacheRoute
  <2>2. routes' = [m \in Names |-> IF m = n THEN Computed(n)
                                   ELSE IF m \in {old} THEN NoRoute ELSE routes[m]]
    BY <1>1, <2>1
  <2>3. /\ Cached' = (Cached \ {old}) \union {n} /\ RoutesAreCurrent'
        /\ routes' \in [Names -> {NoRoute} \union SUBSET Conns]
    BY <1>5, <1>7, <2>2
  <2>4. /\ IsFiniteSet(Cached \ {old})
        /\ Cardinality(Cached \ {old}) = Cardinality(Cached) - 1
    BY <1>3, <2>1, FS_RemoveElement
  <2>5. Cardinality(Cached') = Cardinality(Cached)
    <3>1. n \notin Cached \ {old}
      BY <1>7
    <3> HIDE DEF found
    <3>2. Cardinality((Cached \ {old}) \union {n}) = Cardinality(Cached \ {old}) + 1
      BY ONLY <2>4, <3>1, FS_AddElement
    <3> QED
      BY ONLY <1>3, <2>3, <2>4, <3>2
  <2> QED
    BY ONLY <1>1, <2>3, <2>5 DEF CacheIsBounded
<1> QED
  BY <1>3, <1>4, <1>6, <1>7, SubscriptionsAssumption

(* The call that starts, and what becomes of the others'.                  *)
LEMMA CacheRouteStarts ==
    ASSUME SubsInv, NEW f \in Forwards, NEW n \in Names,
           NEW cands \in SUBSET (Conns \X (0..MaxInc)), CacheRoute(n, f, cands)
    PROVE  /\ fwd' \in [Forwards -> Call]
           /\ fwd'[f].name = n /\ fwd'[f].cands = cands /\ fwd'[f].at # "rechecking"
           /\ \A g \in Forwards \ {f} :
                fwd'[g] = fwd[g] \/ fwd'[g] = [fwd[g] EXCEPT !.fresh = FALSE]
<1> DEFINE new == [at |-> IF cands = {} THEN "idle" ELSE "asking", name |-> n, cands |-> cands,
                   fresh |-> n \notin LongNames, asked |-> Nobody]
       Started(dropped) ==
                  [g \in Forwards |->
                     IF g = f THEN new
                     ELSE IF fwd[g].name \in dropped THEN [fwd[g] EXCEPT !.fresh = FALSE] ELSE fwd[g]]
<1>1. new \in Call /\ new.name = n /\ new.cands = cands /\ new.at # "rechecking"
  BY DEF Call
<1>2. PICK dropped : fwd' = Started(dropped)
  <2>1. fwd' = Started({}) \/ \E old \in Cached : fwd' = Started({old})
    BY DEF CacheRoute
  <2> HIDE DEF Started
  <2> QED
    BY <2>1
<1> HIDE DEF new
<1>3. ASSUME NEW g \in Forwards
      PROVE  fwd[g] \in Call /\ [fwd[g] EXCEPT !.fresh = FALSE] \in Call
  <2>1. fwd[g] \in Call
    BY DEF SubsInv, DerivedStateAgrees, SubsTypeOK, Call
  <2> QED
    BY <2>1 DEF Call
<1> QED
  BY <1>1, <1>2, <1>3

LEMMA ForwardKeepsTheInvariant ==
    ASSUME SubsInv, NEW f \in Forwards, NEW n \in Names, Forward(f, n)
    PROVE  SubsInv' /\ fwd'[f].name = n
<1> DEFINE ready == {c \in Recipients(n) \intersect live : ~cancelled[c]}
           cands == {<<c, inc[c]>> : c \in {d \in ready : secured[d]}}
<1>1. /\ UNCHANGED <<live, inc, secured, cancelled, types, pats, exact, byPattern, balance>>
      /\ CacheRoute(n, f, cands)
      /\ pushed' = Pushed({c \in ready : ~secured[c]})
  BY DEF Forward, records, indexes
<1>2. ready \subseteq {c \in Conns : MatchesName(c, n)}
  BY RecipientsMatch
<1> HIDE DEF ready
<1>3. /\ cands \in SUBSET (Conns \X (0..MaxInc))
      /\ \A cand \in cands : MatchesName(cand[1], n)
  BY <1>2 DEF SubsInv, DerivedStateAgrees, SubsTypeOK
<1> HIDE DEF cands
<1>4. /\ fwd' \in [Forwards -> Call]
      /\ fwd'[f].name = n /\ fwd'[f].cands = cands /\ fwd'[f].at # "rechecking"
      /\ \A g \in Forwards \ {f} :
           fwd'[g] = fwd[g] \/ fwd'[g] = [fwd[g] EXCEPT !.fresh = FALSE]
  BY <1>1, <1>3, CacheRouteStarts
<1>5. FreshCandidatesMatch'
  <2>1. \A c, m : MatchesName(c, m)' <=> MatchesName(c, m)
    BY <1>1 DEF MatchesName
  <2>2. ASSUME NEW g \in Forwards
        PROVE  /\ fwd'[g].at = "rechecking" => fwd'[g].asked \in fwd'[g].cands
               /\ fwd'[g].at # "idle" => fwd'[g].name \in Names
               /\ fwd'[g].fresh => \A cand \in fwd'[g].cands : MatchesName(cand[1], fwd'[g].name)
    <3>1. CASE g = f
      BY <1>3, <1>4, <3>1
    <3>2. CASE g # f
      <4>1. /\ fwd[g].at = "rechecking" => fwd[g].asked \in fwd[g].cands
            /\ fwd[g].at # "idle" => fwd[g].name \in Names
            /\ fwd[g].fresh => \A cand \in fwd[g].cands : MatchesName(cand[1], fwd[g].name)
        BY DEF SubsInv, FreshCandidatesMatch
      <4>2. fwd[g] \in Call
        BY DEF SubsInv, DerivedStateAgrees, SubsTypeOK, Call
      <4>3. \/ fwd'[g] = fwd[g]
            \/ /\ ~fwd'[g].fresh /\ fwd'[g].at = fwd[g].at /\ fwd'[g].asked = fwd[g].asked
               /\ fwd'[g].cands = fwd[g].cands /\ fwd'[g].name = fwd[g].name
        BY <1>4, <3>2, <4>2 DEF Call
      <4> QED
        BY <4>1, <4>3
    <3> QED
      BY <3>1, <3>2
  <2> QED
    BY <2>1, <2>2 DEF FreshCandidatesMatch
<1>6. /\ routes' \in [Names -> {NoRoute} \union SUBSET Conns]
      /\ RoutesAreCurrent' /\ CacheIsBounded'
  BY <1>1, CacheRouteKeepsTheRoutes
<1>7. cancelled' \in [Conns -> BOOLEAN] /\ pushed' \in [Conns -> 0..PushCap]
  BY <1>1, PushedType DEF SubsInv, DerivedStateAgrees, SubsTypeOK
<1> QED
  BY <1>1, <1>4, <1>5, <1>6, <1>7, ForwardingKeepsTheInvariant

LEMMA StepKeepsTheInvariant == SubsInv /\ [Next]_vars => SubsInv'
<1> SUFFICES ASSUME SubsInv, [Next]_vars PROVE SubsInv'
  OBVIOUS
<1>1. ASSUME NEW c \in Conns, ConnSteps(c) PROVE SubsInv'
  <2>1. CASE Revoke(c)
    BY <2>1, RevokeKeepsTheInvariant
  <2>2. CASE CancelToken(c) \/ TakePush(c)
    BY <2>2, CancelTokenKeepsTheInvariant
  <2>3. ASSUME NEW withPolicy \in BOOLEAN, Register(c, withPolicy) PROVE SubsInv'
    BY <2>3, RegisterKeepsTheInvariant
  <2>4. CASE SubscribeFrame(c)
    BY <2>4, SubscribeKeepsTheInvariant DEF SubscribeFrame
  <2>5. CASE UnsubscribeFrame(c)
    BY <2>5, UnsubscribeKeepsTheInvariant DEF UnsubscribeFrame
  <2>6. CASE PatternFrame(c)
    BY <2>6, SubscribePatternsKeepsTheInvariant, UnsubscribePatternsKeepsTheInvariant
       DEF PatternFrame
  <2> QED
    BY <1>1, <2>1, <2>2, <2>3, <2>4, <2>5, <2>6 DEF ConnSteps
<1>2. ASSUME NEW f \in Forwards, NEW n \in Names, Forward(f, n) PROVE SubsInv'
  BY <1>2, ForwardKeepsTheInvariant
<1>3. ASSUME NEW f \in Forwards, Deliver(f) PROVE SubsInv'
  BY <1>3, DeliverKeepsTheInvariant
<1>4. ASSUME NEW f \in Forwards, NEW cand \in fwd[f].cands, Authorize(f, cand) PROVE SubsInv'
  BY <1>4, AuthorizeKeepsTheInvariant
<1>5. CASE UNCHANGED vars
  <2>1. /\ fwd' \in [Forwards -> Call] /\ FreshCandidatesMatch'
        /\ cancelled' \in [Conns -> BOOLEAN] /\ pushed' \in [Conns -> 0..PushCap]
    BY <1>5 DEF vars, records, SubsInv, DerivedStateAgrees, SubsTypeOK, Call,
                FreshCandidatesMatch, MatchesName
  <2> QED
    BY <1>5, <2>1, SameRoutes, ForwardingKeepsTheInvariant DEF vars, records, indexes
<1> QED
  BY <1>1, <1>2, <1>3, <1>4, <1>5 DEF Next

-----------------------------------------------------------------------------
(* Whatever subscribes, reconnects, is revoked or is forwarded to, the     *)
(* indexes, the cached routes and the statistics are what the connections' *)
(* records say (remove_connection, recipients, the subscribe calls).       *)
THEOREM DerivedStateHolds == Spec => []DerivedStateAgrees
<1>1. SubsInv => DerivedStateAgrees
  BY DEF SubsInv
<1> QED
  BY <1>1, FirstStateHasTheInvariant, StepKeepsTheInvariant, PTL DEF Spec

(* What a push needs.                                                      *)
Warranted ==
    \A c \in Conns : pushed'[c] > pushed[c] =>
        /\ c \in live /\ ~cancelled[c]
        /\ \E f \in Forwards :
            /\ MatchesName(c, fwd'[f].name)
            /\ secured[c] => fwd[f].asked = <<c, inc[c]>> /\ fwd'[f].asked = Nobody

LEMMA DeliverIsWarranted ==
    ASSUME SubsInv, NEW f \in Forwards, Deliver(f)
    PROVE  Warranted
<1> SUFFICES ASSUME NEW c \in Conns, pushed'[c] > pushed[c]
             PROVE  /\ c \in live /\ ~cancelled[c]
                    /\ MatchesName(c, fwd'[f].name)
                    /\ fwd[f].asked = <<c, inc[c]>> /\ fwd'[f].asked = Nobody
  BY DEF Warranted
<1> DEFINE cand == fwd[f].asked
<1>1. /\ fwd \in [Forwards -> Call] /\ pushed \in [Conns -> 0..PushCap]
      /\ fwd[f].at = "rechecking" /\ fwd' = Drop(f, cand)
  BY DEF Deliver, SubsInv, DerivedStateAgrees, SubsTypeOK, Call
<1>2. /\ cand \in fwd[f].cands
      /\ fwd[f].fresh => MatchesName(cand[1], fwd[f].name)
      /\ cand \in Conns \X (0..MaxInc)
  BY <1>1 DEF SubsInv, FreshCandidatesMatch, Call
<1>3. fwd'[f].name = fwd[f].name /\ fwd'[f].asked = Nobody
  BY <1>1 DEF Drop, Call
<1>4. pushed[c] \in Int /\ ~(pushed[c] > pushed[c])
  BY <1>1
<1> HIDE DEF cand
<1>5. Passes(f, cand) /\ pushed' = Pushed({cand[1]})
  BY <1>4 DEF Deliver, cand
<1>6. c = cand[1]
  BY <1>4, <1>5 DEF Pushed
<1>7. c \in live /\ inc[c] = cand[2] /\ ~cancelled[c] /\ MatchesName(c, fwd[f].name)
  BY <1>2, <1>5, <1>6 DEF Passes
<1>8. cand = <<c, inc[c]>>
  BY <1>2, <1>6, <1>7
<1> QED
  BY <1>3, <1>7, <1>8 DEF cand

LEMMA ForwardIsWarranted ==
    ASSUME SubsInv, NEW f \in Forwards, NEW n \in Names, Forward(f, n)
    PROVE  Warranted
<1> SUFFICES ASSUME NEW c \in Conns, pushed'[c] > pushed[c]
             PROVE  /\ c \in live /\ ~cancelled[c] /\ ~secured[c]
                    /\ MatchesName(c, fwd'[f].name)
  BY DEF Warranted
<1> DEFINE ready == {d \in Recipients(n) \intersect live : ~cancelled[d]}
<1>1. pushed[c] \in Int /\ ~(pushed[c] > pushed[c])
  BY DEF SubsInv, DerivedStateAgrees, SubsTypeOK
<1>2. c \in ready /\ ~secured[c]
  BY <1>1 DEF Forward, Pushed
<1>3. MatchesName(c, n)
  BY <1>2, RecipientsMatch
<1>4. fwd'[f].name = n
  BY ForwardKeepsTheInvariant
<1> QED
  BY <1>2, <1>3, <1>4

(* Nothing is enqueued without a warrant: for a connection that is gone,   *)
(* cancelled, no longer subscribed, or another incarnation than the policy *)
(* was asked about (forward_to_subscribers).                               *)
THEOREM DeliveriesHold == Spec => DeliveryIsWarranted
<1>1. ASSUME SubsInv, [Next]_vars PROVE Warranted
  <2>1. pushed \in [Conns -> 0..PushCap]
    BY <1>1 DEF SubsInv, DerivedStateAgrees, SubsTypeOK
  <2>2. ASSUME NEW c \in Conns, pushed' = pushed \/ pushed' = [pushed EXCEPT ![c] = 0]
                                 \/ pushed' = [pushed EXCEPT ![c] = pushed[c] - 1]
        PROVE  Warranted
    <3>1. ASSUME NEW d \in Conns PROVE ~(pushed'[d] > pushed[d])
      BY <2>1, <2>2
    <3> QED
      BY <3>1 DEF Warranted
  <2>3. pushed' = pushed => Warranted
    <3>1. ASSUME NEW d \in Conns, pushed' = pushed PROVE ~(pushed'[d] > pushed[d])
      BY <2>1, <3>1
    <3> QED
      BY <3>1 DEF Warranted
  <2>4. ASSUME NEW c \in Conns, ConnSteps(c) PROVE Warranted
    <3>1. pushed' = pushed \/ pushed' = [pushed EXCEPT ![c] = 0]
            \/ pushed' = [pushed EXCEPT ![c] = pushed[c] - 1]
      BY <2>4 DEF ConnSteps, Revoke, CancelToken, TakePush, Register, SubscribeFrame,
                  UnsubscribeFrame, PatternFrame, Subscribe, Unsubscribe,
                  SubscribePatterns, UnsubscribePatterns
    <3> QED
      BY <2>2, <3>1
  <2>5. ASSUME NEW f \in Forwards, NEW n \in Names, Forward(f, n) PROVE Warranted
    BY <1>1, <2>5, ForwardIsWarranted
  <2>6. ASSUME NEW f \in Forwards, Deliver(f) PROVE Warranted
    BY <1>1, <2>6, DeliverIsWarranted
  <2>7. ASSUME NEW f \in Forwards, NEW cand \in fwd[f].cands, Authorize(f, cand)
        PROVE  Warranted
    BY <2>3, <2>7 DEF Authorize
  <2>8. CASE UNCHANGED vars
    BY <2>3, <2>8 DEF vars
  <2> QED
    BY <1>1, <2>4, <2>5, <2>6, <2>7, <2>8 DEF Next
<1>2. SubsInv /\ [Next]_vars => [Warranted]_vars
  BY <1>1
<1> QED
  BY <1>2, FirstStateHasTheInvariant, StepKeepsTheInvariant, PTL
     DEF Spec, DeliveryIsWarranted, Warranted
=============================================================================
