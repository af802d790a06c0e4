-------------------------- MODULE BroadcastsProofs --------------------------
(***************************************************************************)
(* Theorems about Broadcasts, for any set of actors and any capacities:    *)
(* no broadcast reaches an incarnation that had not asked for it, and, as  *)
(* long as nobody uses the handle of an incarnation that ended, the        *)
(* broker's table follows the actors and shutdown_all loses no broadcast.  *)
(*                                                                         *)
(* The argument is about the requests still in the broker's inbox: what    *)
(* the broker will hold of an actor when it comes to one of them.          *)
(***************************************************************************)
EXTENDS Broadcasts, TLAPS

Request ==
    UNION {[do : {"broadcast"}, n : 0..MaxBroadcasts],
           [do : {"subscribe"}, who : Actor, life : 1..MaxLives],
           [do : {"remove", "removeAll"}, who : Actor],
           [do : {"flush", "stop"}]}

Removes(m, a) == m.do \in {"remove", "removeAll"} /\ m.who = a
Subscribes(m, a, x) == m.do = "subscribe" /\ m.who = a /\ m.life = x
Carries(m, n) == m.do = "broadcast" /\ m.n = n /\ n # OtherType

(* The entry of an actor after the broker took a request, e before.        *)
Entry(m, a, e) ==
    IF Removes(m, a) THEN 0
    ELSE IF m.do = "subscribe" /\ m.who = a /\ e = 0 THEN m.life ELSE e

(* A removal of a in the queue q after position i and before k.            *)
Cut(q, a, i, k) == \E j \in (i + 1)..(k - 1) : Removes(q[j], a)

(* The broker may hold incarnation x of a, whose entry is e now, when it   *)
(* comes to position k of its queue.                                       *)
MayHold(q, e, x, a, k) ==
    \/ e = x /\ ~Cut(q, a, 0, k)
    \/ \E i \in 1..(k - 1) : Subscribes(q[i], a, x) /\ ~Cut(q, a, i, k)

(* Every other incarnation of a will have been removed by then.            *)
OthersCut(q, e, x, a, k) ==
    /\ e \notin {0, x} => Cut(q, a, 0, k)
    /\ \A i \in 1..(k - 1), y \in 1..MaxLives :
         Subscribes(q[i], a, y) /\ y # x => Cut(q, a, i, k)

(* The broker will hold incarnation x of a by then.                        *)
WillHold(q, e, x, a, k) ==
    \/ e = x /\ ~Cut(q, a, 0, k)
    \/ \E i \in 1..(k - 1) : /\ Subscribes(q[i], a, x)
                             /\ OthersCut(q, e, x, a, i) /\ ~Cut(q, a, i, k)

-----------------------------------------------------------------------------
(* Requests and queues.                                                    *)

LEMMA RequestFields ==
    ASSUME NEW m \in Request
    PROVE  /\ m.do \in {"broadcast", "subscribe", "remove", "removeAll", "flush", "stop"}
           /\ m.do = "broadcast" => m.n \in 0..MaxBroadcasts
           /\ m.do = "subscribe" => m.who \in Actor /\ m.life \in 1..MaxLives
           /\ m.do \in {"remove", "removeAll"} => m.who \in Actor
BY DEF Request

LEMMA RequestsMade ==
    /\ \A n \in 0..MaxBroadcasts :
         BrokerRequest(n) \in Request /\ BrokerRequest(n).do = "broadcast" /\ BrokerRequest(n).n = n
    /\ \A a \in Actor, x \in 1..MaxLives :
         /\ SubscribeBroker(a, x) \in Request /\ SubscribeBroker(a, x).do = "subscribe"
         /\ SubscribeBroker(a, x).who = a /\ SubscribeBroker(a, x).life = x
    /\ \A a \in Actor :
         /\ RemoveSubscription(a) \in Request /\ RemoveSubscription(a).do = "remove"
         /\ RemoveSubscription(a).who = a
         /\ RemoveAllSubscriptions(a) \in Request /\ RemoveAllSubscriptions(a).do = "removeAll"
         /\ RemoveAllSubscriptions(a).who = a
    /\ FlushBroadcasts \in Request /\ FlushBroadcasts.do = "flush"
    /\ Terminate \in Request /\ Terminate.do = "stop"
BY DEF Request, BrokerRequest, SubscribeBroker, RemoveSubscription, RemoveAllSubscriptions,
       FlushBroadcasts, Terminate

LEMMA Appended ==
    ASSUME NEW S, NEW q \in Seq(S), NEW m \in S, NEW r, r = Append(q, m)
    PROVE  /\ r \in Seq(S) /\ Len(r) = Len(q) + 1 /\ Len(q) \in Nat
           /\ r[Len(q) + 1] = m /\ \A i \in 1..Len(q) : r[i] = q[i]
OBVIOUS

LEMMA Tailed ==
    ASSUME NEW S, NEW q \in Seq(S), q # <<>>, NEW r, r = Tail(q)
    PROVE  /\ r \in Seq(S) /\ Len(r) = Len(q) - 1 /\ Len(q) \in Nat /\ Len(q) >= 1
           /\ Head(q) = q[1] /\ q[1] \in S
           /\ \A i \in 1..Len(r) : r[i] = q[i + 1]
OBVIOUS

(* A request at the end changes nothing for what comes before it.          *)
LEMMA CutAppend ==
    ASSUME NEW q \in Seq(Request), NEW m \in Request, NEW r, r = Append(q, m),
           NEW a, NEW i \in Nat, NEW k \in 1..(Len(q) + 1)
    PROVE  Cut(r, a, i, k) <=> Cut(q, a, i, k)
<1>1. Len(q) \in Nat /\ \A j \in 1..Len(q) : r[j] = q[j]
  BY Appended
<1>2. \A j \in (i + 1)..(k - 1) : j \in 1..Len(q)
  BY <1>1
<1>3. QED
  BY <1>1, <1>2 DEF Cut

LEMMA HoldAppend ==
    ASSUME NEW q \in Seq(Request), NEW m \in Request, NEW r, r = Append(q, m),
           NEW a, NEW e, NEW x, NEW k \in 1..(Len(q) + 1)
    PROVE  /\ MayHold(r, e, x, a, k) <=> MayHold(q, e, x, a, k)
           /\ OthersCut(r, e, x, a, k) <=> OthersCut(q, e, x, a, k)
           /\ WillHold(r, e, x, a, k) <=> WillHold(q, e, x, a, k)
<1>1. Len(q) \in Nat /\ \A j \in 1..Len(q) : r[j] = q[j]
  BY Appended
<1>2. \A i \in 1..(k - 1) : i \in 1..Len(q) /\ i \in 1..(Len(q) + 1) /\ i \in Nat
  BY <1>1
<1>3. \A i \in Nat, l \in 1..(Len(q) + 1) : Cut(r, a, i, l) <=> Cut(q, a, i, l)
  BY CutAppend
<1>4. \A l \in 1..(Len(q) + 1) : l <= k => (OthersCut(r, e, x, a, l) <=> OthersCut(q, e, x, a, l))
  <2> SUFFICES ASSUME NEW l \in 1..(Len(q) + 1)
               PROVE  OthersCut(r, e, x, a, l) <=> OthersCut(q, e, x, a, l)
    OBVIOUS
  <2>1. \A i \in 1..(l - 1) : i \in 1..Len(q) /\ i \in Nat /\ r[i] = q[i]
    BY <1>1
  <2>2. QED
    BY <1>3, <2>1 DEF OthersCut
<1>5. MayHold(r, e, x, a, k) <=> MayHold(q, e, x, a, k)
  BY <1>1, <1>2, <1>3 DEF MayHold
<1>6. WillHold(r, e, x, a, k) <=> WillHold(q, e, x, a, k)
  <2>1. \A i \in 1..(k - 1) : OthersCut(r, e, x, a, i) <=> OthersCut(q, e, x, a, i)
    BY <1>1, <1>2, <1>4
  <2>2. QED
    BY <1>1, <1>2, <1>3, <2>1 DEF WillHold
<1>7. QED
  BY <1>4, <1>5, <1>6

(* What a request at the end changes for whoever comes after it.           *)
LEMMA CutEnd ==
    ASSUME NEW q \in Seq(Request), NEW m \in Request, NEW r, r = Append(q, m),
           NEW a, NEW i \in 0..Len(q)
    PROVE  Cut(r, a, i, Len(q) + 2) <=> Cut(q, a, i, Len(q) + 1) \/ Removes(m, a)
<1>1. Len(q) \in Nat /\ r[Len(q) + 1] = m /\ \A j \in 1..Len(q) : r[j] = q[j]
  BY Appended
<1>2. \A j \in (i + 1)..((Len(q) + 2) - 1) : j \in 1..Len(q) \/ j = Len(q) + 1
  BY <1>1
<1>3. \A j \in (i + 1)..((Len(q) + 1) - 1) : j \in 1..Len(q) /\ j \in (i + 1)..((Len(q) + 2) - 1)
  BY <1>1
<1>4. Len(q) + 1 \in (i + 1)..((Len(q) + 2) - 1)
  BY <1>1
<1>5. \A j \in (i + 1)..((Len(q) + 2) - 1) : j = Len(q) + 1 \/ j \in (i + 1)..((Len(q) + 1) - 1)
  BY <1>1
<1>6. QED
  BY <1>1, <1>2, <1>3, <1>4, <1>5 DEF Cut

LEMMA HoldEnd ==
    ASSUME NEW q \in Seq(Request), NEW m \in Request, NEW r, r = Append(q, m),
           NEW a, NEW e, NEW x
    PROVE  /\ MayHold(r, e, x, a, Len(q) + 2) =>
                /\ ~Removes(m, a)
                /\ MayHold(q, e, x, a, Len(q) + 1) \/ Subscribes(m, a, x)
           /\ OthersCut(q, e, x, a, Len(q) + 1)
              /\ (\A y \in 1..MaxLives : Subscribes(m, a, y) => y = x) =>
                OthersCut(r, e, x, a, Len(q) + 2)
           /\ Removes(m, a) => OthersCut(r, e, x, a, Len(q) + 2)
           /\ WillHold(q, e, x, a, Len(q) + 1) /\ ~Removes(m, a) =>
                WillHold(r, e, x, a, Len(q) + 2)
           /\ Subscribes(m, a, x) /\ OthersCut(q, e, x, a, Len(q) + 1) =>
                WillHold(r, e, x, a, Len(q) + 2)
<1> DEFINE n == Len(q)
<1>1. n \in Nat /\ r[n + 1] = m /\ \A j \in 1..n : r[j] = q[j]
  BY Appended
<1>2. \A i \in 0..n : Cut(r, a, i, n + 2) <=> Cut(q, a, i, n + 1) \/ Removes(m, a)
  BY CutEnd
<1>3. \A i \in 1..(n + 1) : OthersCut(r, e, x, a, i) <=> OthersCut(q, e, x, a, i)
  BY HoldAppend
<1>4. OthersCut(r, e, x, a, n + 1) <=> OthersCut(q, e, x, a, n + 1)
  BY <1>1, <1>3
<1>5. ~Cut(r, a, n + 1, n + 2)
  BY <1>1 DEF Cut
<1>6. /\ \A i : i \in 1..((n + 1) - 1) <=> i \in 1..n
      /\ \A i : i \in 1..((n + 2) - 1) <=> i \in 1..n \/ i = n + 1
      /\ 0 \in 0..n /\ \A i \in 1..n : i \in 0..n /\ i \in 1..(n + 1)
  BY <1>1
<1> HIDE DEF n
<1>7. Subscribes(m, a, x) => ~Removes(m, a)
  BY DEF Subscribes, Removes
<1>8. MayHold(r, e, x, a, n + 2) =>
        ~Removes(m, a) /\ (MayHold(q, e, x, a, n + 1) \/ Subscribes(m, a, x))
  BY <1>1, <1>2, <1>6, <1>7 DEF MayHold
<1>9. OthersCut(q, e, x, a, n + 1) /\ (\A y \in 1..MaxLives : Subscribes(m, a, y) => y = x) =>
        OthersCut(r, e, x, a, n + 2)
  BY <1>1, <1>2, <1>6 DEF OthersCut
<1>10. Removes(m, a) => OthersCut(r, e, x, a, n + 2)
  <2> SUFFICES ASSUME Removes(m, a)
               PROVE  OthersCut(r, e, x, a, n + 2)
    OBVIOUS
  <2>1. \A i \in 0..n : Cut(r, a, i, n + 2)
    BY <1>2
  <2>2. \A y : ~Subscribes(r[n + 1], a, y)
    BY <1>1 DEF Removes, Subscribes
  <2>3. QED
    BY <1>6, <2>1, <2>2 DEF OthersCut
<1>11. WillHold(q, e, x, a, n + 1) /\ ~Removes(m, a) => WillHold(r, e, x, a, n + 2)
  BY <1>1, <1>2, <1>3, <1>6 DEF WillHold
<1>12. Subscribes(m, a, x) /\ OthersCut(q, e, x, a, n + 1) => WillHold(r, e, x, a, n + 2)
  BY <1>1, <1>4, <1>5, <1>6 DEF WillHold
<1>13. QED
  BY <1>8, <1>9, <1>10, <1>11, <1>12 DEF n

(* Taking the first request.                                               *)
LEMMA CutTail ==
    ASSUME NEW q \in Seq(Request), q # <<>>, NEW r, r = Tail(q), NEW a,
           NEW k \in 1..Len(q)
    PROVE  /\ \A i \in Nat : Cut(q, a, i + 1, k + 1) <=> Cut(r, a, i, k)
           /\ Cut(q, a, 0, k + 1) <=> Removes(q[1], a) \/ Cut(r, a, 0, k)
<1>1. Len(q) \in Nat /\ Len(r) = Len(q) - 1 /\ \A i \in 1..Len(r) : r[i] = q[i + 1]
  BY Tailed
<1>2. \A i \in Nat : \A j \in (i + 1)..(k - 1) :
        j \in 1..Len(r) /\ j + 1 \in (i + 1 + 1)..(k + 1 - 1) /\ r[j] = q[j + 1]
  BY <1>1
<1>3. \A i \in Nat : \A j \in (i + 1 + 1)..(k + 1 - 1) : j - 1 \in (i + 1)..(k - 1) /\ j = (j - 1) + 1
  BY <1>1
<1>4. ASSUME NEW i \in Nat
      PROVE  Cut(q, a, i + 1, k + 1) <=> Cut(r, a, i, k)
  <2>1. ASSUME NEW j \in (i + 1)..(k - 1), Removes(r[j], a)
        PROVE  Cut(q, a, i + 1, k + 1)
    BY <1>2, <2>1 DEF Cut
  <2>2. ASSUME NEW j \in (i + 1 + 1)..(k + 1 - 1), Removes(q[j], a)
        PROVE  Cut(r, a, i, k)
    <3>1. j - 1 \in (i + 1)..(k - 1) /\ j = (j - 1) + 1
      BY <1>3
    <3>2. r[j - 1] = q[j]
      BY <1>2, <3>1
    <3>3. QED
      BY <2>2, <3>1, <3>2 DEF Cut
  <2>3. QED
    BY <2>1, <2>2 DEF Cut
<1>5. Cut(q, a, 0, k + 1) <=> Removes(q[1], a) \/ Cut(q, a, 1, k + 1)
  <2>1. \A j : j \in (0 + 1)..(k + 1 - 1) <=> j = 1 \/ j \in (1 + 1)..(k + 1 - 1)
    BY <1>1
  <2>2. QED
    BY <2>1 DEF Cut
<1>6. Cut(q, a, 0 + 1, k + 1) <=> Cut(r, a, 0, k)
  BY <1>4
<1>7. QED
  BY <1>4, <1>5, <1>6

(* With x = 0 it says that all incarnations will have been removed.        *)
LEMMA OthersTail ==
    ASSUME NEW q \in Seq(Request), q # <<>>, NEW r, r = Tail(q), NEW a,
           NEW e \in Nat, NEW x \in Nat, NEW k \in 1..Len(q),
           NEW f, f = Entry(q[1], a, e), NEW l, l = k + 1, OthersCut(q, e, x, a, l)
    PROVE  OthersCut(r, f, x, a, k)
<1>1. /\ Len(q) \in Nat /\ Len(r) = Len(q) - 1 /\ q[1] \in Request
      /\ \A i \in 1..Len(r) : r[i] = q[i + 1]
  BY Tailed
<1>2. /\ \A i \in Nat : Cut(q, a, i + 1, k + 1) <=> Cut(r, a, i, k)
      /\ Cut(q, a, 0, k + 1) <=> Removes(q[1], a) \/ Cut(r, a, 0, k)
  BY CutTail
<1>3. ASSUME NEW i \in 1..(k - 1), NEW y \in 1..MaxLives, Subscribes(r[i], a, y), y # x
      PROVE  Cut(r, a, i, k)
  <2>1. Subscribes(q[i + 1], a, y) /\ i + 1 \in 1..(k + 1 - 1) /\ i \in Nat
    BY <1>1, <1>3
  <2>2. Cut(q, a, i + 1, k + 1)
    BY <1>3, <2>1 DEF OthersCut
  <2>3. QED
    BY <1>2, <2>1, <2>2
<1>4. ASSUME f \notin {0, x}
      PROVE  Cut(r, a, 0, k)
  <2>1. CASE f = e /\ ~Removes(q[1], a)
    BY <1>2, <1>4, <2>1 DEF OthersCut
  <2>2. CASE Subscribes(q[1], a, f) /\ f \in 1..MaxLives
    <3>1. 1 \in 1..(k + 1 - 1)
      BY <1>1
    <3>2. Cut(q, a, 0 + 1, k + 1)
      BY <1>4, <2>2, <3>1 DEF OthersCut
    <3>3. QED
      BY <1>2, <3>2
  <2>3. QED
    BY <1>1, <1>4, <2>1, <2>2, RequestFields DEF Entry, Subscribes
<1>5. QED
  BY <1>3, <1>4 DEF OthersCut

LEMMA HoldTail ==
    ASSUME NEW q \in Seq(Request), q # <<>>, NEW r, r = Tail(q), NEW a,
           NEW e \in Nat, NEW x \in Nat \ {0}, NEW k \in 1..Len(q),
           NEW f, f = Entry(q[1], a, e)
    PROVE  /\ MayHold(r, f, x, a, k) => MayHold(q, e, x, a, k + 1)
           /\ WillHold(q, e, x, a, k + 1) => WillHold(r, f, x, a, k)
<1>1. /\ Len(q) \in Nat /\ Len(r) = Len(q) - 1 /\ q[1] \in Request
      /\ \A i \in 1..Len(r) : r[i] = q[i + 1]
  BY Tailed
<1>2. \A l \in 1..Len(q) :
        /\ \A i \in Nat : Cut(q, a, i + 1, l + 1) <=> Cut(r, a, i, l)
        /\ Cut(q, a, 0, l + 1) <=> Removes(q[1], a) \/ Cut(r, a, 0, l)
  BY CutTail
<1>3. q[1].do = "subscribe" => q[1].life \in 1..MaxLives
  BY <1>1, RequestFields
<1>4. \A l \in 1..k : \A i \in 1..(l - 1) : /\ i \in 1..Len(r) /\ i \in Nat /\ r[i] = q[i + 1]
                                          /\ i + 1 \in 1..(l + 1 - 1)
  BY <1>1
<1>5. \A l \in 1..k : \A i \in 1..(l + 1 - 1) : i = 1 \/ (i - 1 \in 1..(l - 1) /\ i = (i - 1) + 1)
  BY <1>1
<1>6. \A l \in 1..k : 1 \in 1..(l + 1 - 1) /\ l \in 1..Len(q)
  BY <1>1
<1>7. \A l \in 1..Len(q) : Cut(q, a, 1, l + 1) <=> Cut(r, a, 0, l)
  <2>1. \A l \in 1..Len(q) : Cut(q, a, 0 + 1, l + 1) <=> Cut(r, a, 0, l)
    BY <1>2
  <2>2. QED
    BY <2>1
<1>8. k \in 1..k
  BY <1>1
<1>9. \/ Removes(q[1], a) /\ f = 0
      \/ ~Removes(q[1], a) /\ e = 0 /\ Subscribes(q[1], a, f) /\ f \in 1..MaxLives
      \/ ~Removes(q[1], a) /\ f = e /\ (e # 0 \/ \A y : ~Subscribes(q[1], a, y))
  BY <1>3 DEF Entry, Subscribes
<1>10. Removes(q[1], a) => \A y : ~Subscribes(q[1], a, y)
  BY DEF Removes, Subscribes
<1>11. MayHold(r, f, x, a, k) => MayHold(q, e, x, a, k + 1)
  <2>1. ASSUME NEW i \in 1..(k - 1), Subscribes(r[i], a, x), ~Cut(r, a, i, k)
        PROVE  MayHold(q, e, x, a, k + 1)
    <3>1. Subscribes(q[i + 1], a, x) /\ ~Cut(q, a, i + 1, k + 1) /\ i + 1 \in 1..(k + 1 - 1)
      BY <1>2, <1>4, <1>8, <2>1
    <3>2. QED
      BY <3>1 DEF MayHold
  <2>2. ASSUME f = x, ~Cut(r, a, 0, k)
        PROVE  MayHold(q, e, x, a, k + 1)
    BY <1>2, <1>6, <1>7, <1>8, <1>9, <2>2 DEF MayHold
  <2>3. QED
    BY <2>1, <2>2 DEF MayHold
<1>12. \A l \in 1..k : OthersCut(q, e, x, a, l + 1) => OthersCut(r, f, x, a, l)
  <2> SUFFICES ASSUME NEW l \in 1..k, OthersCut(q, e, x, a, l + 1)
               PROVE  OthersCut(r, f, x, a, l)
    OBVIOUS
  <2>1. l \in 1..Len(q) /\ x \in Nat
    BY <1>6
  <2>2. q \in Seq(Request) /\ q # <<>> /\ r = Tail(q) /\ e \in Nat /\ f = Entry(q[1], a, e)
    OBVIOUS
  <2>3. QED
    BY <2>1, <2>2, OthersTail
<1>13. WillHold(q, e, x, a, k + 1) => WillHold(r, f, x, a, k)
  <2>1. ASSUME e = x, ~Cut(q, a, 0, k + 1)
        PROVE  WillHold(r, f, x, a, k)
    BY <1>2, <1>6, <1>8, <1>9, <2>1 DEF WillHold
  <2>2. ASSUME Subscribes(q[1], a, x), OthersCut(q, e, x, a, 1), ~Cut(q, a, 1, k + 1)
        PROVE  WillHold(r, f, x, a, k)
    <3>1. e \in {0, x}
      BY <2>2 DEF OthersCut, Cut
    <3>2. f = x
      BY <1>9, <1>10, <2>2, <3>1 DEF Subscribes
    <3>3. ~Cut(r, a, 0, k)
      BY <1>6, <1>7, <1>8, <2>2
    <3>4. QED
      BY <3>2, <3>3 DEF WillHold
  <2>3. ASSUME NEW i \in 1..(k - 1), Subscribes(q[i + 1], a, x), OthersCut(q, e, x, a, i + 1),
               ~Cut(q, a, i + 1, k + 1)
        PROVE  WillHold(r, f, x, a, k)
    <3> i \in 1..k /\ i \in Nat /\ r[i] = q[i + 1] /\ k \in 1..Len(q)
      BY <1>4, <1>8
    <3>1. Subscribes(r[i], a, x) /\ ~Cut(r, a, i, k)
      BY <1>2, <2>3
    <3>2. OthersCut(r, f, x, a, i)
      BY <1>12, <2>3, <3>1
    <3>3. QED
      BY <3>1, <3>2 DEF WillHold
  <2>4. ASSUME NEW i \in 1..(k + 1 - 1), Subscribes(q[i], a, x), OthersCut(q, e, x, a, i),
               ~Cut(q, a, i, k + 1)
        PROVE  WillHold(r, f, x, a, k)
    <3>1. CASE i = 1
      BY <2>2, <2>4, <3>1
    <3>2. CASE i - 1 \in 1..(k - 1) /\ i = (i - 1) + 1
      <4> DEFINE j == i - 1
      <4>1. j \in 1..(k - 1) /\ i = j + 1
        BY <3>2
      <4> HIDE DEF j
      <4>2. QED
        BY <2>3, <2>4, <4>1
    <3>3. QED
      BY <1>5, <1>8, <3>1, <3>2
  <2>5. WillHold(q, e, x, a, k + 1) =>
          \/ e = x /\ ~Cut(q, a, 0, k + 1)
          \/ \E i \in 1..(k + 1 - 1) :
               Subscribes(q[i], a, x) /\ OthersCut(q, e, x, a, i) /\ ~Cut(q, a, i, k + 1)
    BY DEF WillHold
  <2>6. QED
    BY <2>1, <2>4, <2>5
<1>14. QED
  BY <1>11, <1>13

-----------------------------------------------------------------------------
(* Types, by groups of variables.                                          *)
QueueTyped ==
    /\ bq \in Seq(Request) /\ Len(bq) <= BrokerCap
    /\ sent \in 0..MaxBroadcasts
    /\ subscribed \in SUBSET Actor
    /\ owed \in [Actor -> SUBSET (1..MaxBroadcasts)]
BrokerTyped ==
    /\ broker \in [at : {"idle", "fanning", "gone"}, n : 0..MaxBroadcasts, to : SUBSET Actor]
    /\ draining \in BOOLEAN
    /\ subs \in [Actor -> 0..MaxLives]
    /\ broker.at = "fanning" => broker.n # OtherType
    /\ broker.at # "fanning" => broker.to = {}
    /\ broker.at = "gone" => bq = <<>>
InboxesTyped ==
    /\ inbox \in [Actor -> Seq(0..MaxBroadcasts)]
    /\ \A a \in Actor : Len(inbox[a]) <= InboxCap
ActorsTyped ==
    /\ place \in [Actor -> {"new", "running", "relaying", "leaving", "down"}]
    /\ life \in [Actor -> 1..MaxLives]
    /\ InboxesTyped
    /\ closed \in SUBSET Actor /\ loose \in SUBSET Actor
    /\ seen \in [Actor -> SUBSET (1..MaxBroadcasts)]
ShutdownTyped ==
    /\ sd \in {"no", "asked", "flushed", "waiting", "done", "failed"}
    /\ cancelled \in BOOLEAN /\ ahead \in 0..MaxBroadcasts /\ promised \in SUBSET Actor
Typed == QueueTyped /\ BrokerTyped /\ ActorsTyped /\ ShutdownTyped

(* Steps that only put a request into the broker's inbox, or find it       *)
(* closed.                                                                 *)
RequestStep ==
    \/ Publish \/ AskFlush \/ StopBroker
    \/ \E a \in Actor : \/ Starts(a) \/ SpawnedRemoval(a) \/ Relay(a) \/ Leave(a)
                        \/ \E x \in 1..MaxLives : SubscribeFor(a, x)
InboxStep(a) == Handle(a) \/ HandleStop(a) \/ FanOut(a) \/ StopOne(a) \/ StopRoot(a)
LeavingStep(a) == Drained(a) \/ Fails(a) \/ ForcedOut(a)
ShutdownStep == FlushFails \/ ShutdownExpires \/ ShutdownReturns \/ BrokerTimesOut

LEMMA Steps ==
    ASSUME Next
    PROVE  \/ RequestStep \/ BrokerTakes \/ BrokerStops \/ ShutdownStep
           \/ \E a \in Actor : InboxStep(a) \/ LeavingStep(a) \/ Restart(a) \/ Unsubscribe(a)
BY DEF Next, ActorStep, RequestStep, InboxStep, LeavingStep, ShutdownStep

Requested(m) == /\ Queued /\ m \in Request /\ bq' = Append(bq, m)

(* What a request leaves alone, and what it is when it changes more.       *)
LEMMA RequestLeaves ==
    ASSUME Typed, RequestStep
    PROVE  /\ UNCHANGED <<broker, draining, subs, life, inbox, closed, seen>>
           /\ UNCHANGED bq \/ \E m : Requested(m)
<1>1. /\ \A a \in Actor : life[a] \in 1..MaxLives
      /\ sent \in 0..MaxBroadcasts /\ MaxBroadcasts \in Nat
  BY BroadcastsAssumption DEF Typed, QueueTyped, ActorsTyped
<1>2. CASE Publish
  <2>1. sent + 1 \in 0..MaxBroadcasts
    BY <1>1, <1>2 DEF Publish
  <2>2. Requested(BrokerRequest(sent + 1))
    BY <1>2, <2>1, RequestsMade DEF Publish, Requested
  <2>3. QED
    BY <1>2, <2>2 DEF Publish, actors
<1>3. CASE AskFlush
  BY <1>3, RequestsMade DEF AskFlush, QueueRequest, Requested, actors
<1>4. CASE StopBroker
  BY <1>4, RequestsMade DEF StopBroker, QueueRequest, Requested, actors, queue
<1>5. ASSUME NEW a \in Actor, Starts(a)
      PROVE  /\ UNCHANGED <<broker, draining, subs, life, inbox, closed, seen>>
             /\ UNCHANGED bq \/ \E m : Requested(m)
  <2>1. SubscribeBroker(a, life[a]) \in Request
    BY <1>1, RequestsMade
  <2>2. QED
    BY <1>5, <2>1 DEF Starts, QueueRequest, Requested, queue
<1>6. ASSUME NEW a \in Actor, SpawnedRemoval(a) \/ Leave(a)
      PROVE  /\ UNCHANGED <<broker, draining, subs, life, inbox, closed, seen>>
             /\ UNCHANGED bq \/ \E m : Requested(m)
  <2>1. RemoveSubscription(a) \in Request /\ RemoveAllSubscriptions(a) \in Request
    BY RequestsMade
  <2>2. QED
    BY <1>6, <2>1 DEF SpawnedRemoval, Leave, Removed, QueueRequest, Requested, actors, queue
<1>7. ASSUME NEW a \in Actor, Relay(a)
      PROVE  /\ UNCHANGED <<broker, draining, subs, life, inbox, closed, seen>>
             /\ UNCHANGED bq \/ \E m : Requested(m)
  <2>1. BrokerRequest(OtherType) \in Request
    BY <1>1, RequestsMade DEF OtherType
  <2>2. QED
    BY <1>7, <2>1 DEF Relay, QueueRequest, Requested, queue
<1>8. ASSUME NEW a \in Actor, NEW x \in 1..MaxLives, SubscribeFor(a, x)
      PROVE  /\ UNCHANGED <<broker, draining, subs, life, inbox, closed, seen>>
             /\ UNCHANGED bq \/ \E m : Requested(m)
  <2>1. SubscribeBroker(a, x) \in Request
    BY RequestsMade
  <2>2. QED
    BY <1>8, <2>1 DEF SubscribeFor, QueueRequest, Requested, actors
<1>9. QED
  BY <1>2, <1>3, <1>4, <1>5, <1>6, <1>7, <1>8 DEF RequestStep

LEMMA RequestsAreTyped ==
    ASSUME Typed, NEW m, Requested(m)
    PROVE  /\ bq' \in Seq(Request) /\ Len(bq') <= BrokerCap /\ Len(bq') = Len(bq) + 1
           /\ broker.at # "gone"
<1>1. bq \in Seq(Request) /\ m \in Request /\ bq' = Append(bq, m) /\ BrokerCap \in Nat
  BY BroadcastsAssumption DEF Typed, QueueTyped, Requested
<1>2. bq' \in Seq(Request) /\ Len(bq') = Len(bq) + 1 /\ Len(bq) \in Nat
  BY ONLY <1>1, Appended
<1>3. QED
  BY <1>1, <1>2 DEF Requested, Queued, Unreachable

(* Taking a request.                                                       *)
LEMMA TakeLeaves ==
    ASSUME Typed, BrokerTakes
    PROVE  /\ UNCHANGED <<sent, subscribed, owed, actors, loose, cancelled, ahead>>
           /\ broker.at = "idle" /\ bq # <<>> /\ bq' = Tail(bq) /\ bq[1] \in Request
           /\ subs' \in [Actor -> 0..MaxLives]
           /\ \A a \in Actor : subs'[a] = Entry(bq[1], a, subs[a])
           /\ \/ /\ bq[1].do = "broadcast" /\ UNCHANGED <<draining, subs, shutdown>>
                 /\ broker' = IF bq[1].n = OtherType \/ Targets = {} THEN Idle
                              ELSE [at |-> "fanning", n |-> bq[1].n, to |-> Targets]
              \/ /\ bq[1].do \in {"subscribe", "remove", "removeAll"}
                 /\ UNCHANGED <<broker, draining, shutdown>>
              \/ bq[1].do = "flush" /\ UNCHANGED subs /\ TakeFlush(bq[1])
              \/ /\ bq[1].do = "stop" /\ draining' = TRUE
                 /\ UNCHANGED <<broker, subs, shutdown>>
<1> DEFINE m == bq[1]
<1>1. /\ bq \in Seq(Request) /\ subs \in [Actor -> 0..MaxLives] /\ MaxLives \in Nat
      /\ broker.at = "idle" /\ bq # <<>> /\ bq' = Tail(bq)
      /\ UNCHANGED <<sent, subscribed, owed, actors, loose>>
  BY BroadcastsAssumption DEF Typed, QueueTyped, BrokerTyped, BrokerTakes
<1>2. Head(bq) = m /\ m \in Request
  BY <1>1, Tailed
<1>3. TakeBroadcast(m) \/ TakeSubscribe(m) \/ TakeRemoval(m) \/ TakeFlush(m) \/ TakeStop(m)
  BY <1>2 DEF BrokerTakes
<1> HIDE DEF m
<1>4. /\ m.do \in {"broadcast", "subscribe", "remove", "removeAll", "flush", "stop"}
      /\ m.do = "broadcast" => m.n \in 0..MaxBroadcasts
      /\ m.do = "subscribe" => m.who \in Actor /\ m.life \in 1..MaxLives
      /\ m.do \in {"remove", "removeAll"} => m.who \in Actor
  BY ONLY <1>2, RequestFields
<1>5. CASE TakeBroadcast(m) \/ TakeFlush(m) \/ TakeStop(m)
  <2>1. UNCHANGED <<subs, cancelled, ahead>>
    BY <1>5 DEF TakeBroadcast, TakeFlush, TakeStop, shutdown
  <2>2. \A a \in Actor : Entry(m, a, subs[a]) = subs[a]
    BY <1>5 DEF TakeBroadcast, TakeFlush, TakeStop, Entry, Removes
  <2>3. QED
    BY <1>1, <1>2, <1>5, <2>1, <2>2 DEF m, TakeBroadcast, TakeFlush, TakeStop, shutdown
<1>6. CASE TakeSubscribe(m)
  <2>1. m.do = "subscribe" /\ m.who \in Actor /\ m.life \in 0..MaxLives
    BY <1>4, <1>6 DEF TakeSubscribe
  <2>2. \A a \in Actor : subs'[a] = Entry(m, a, subs[a])
    BY <1>1, <1>6, <2>1 DEF TakeSubscribe, Entry, Removes
  <2>3. subs' \in [Actor -> 0..MaxLives]
    BY <1>1, <1>6, <2>1 DEF TakeSubscribe
  <2>4. QED
    BY <1>1, <1>2, <1>6, <2>2, <2>3 DEF m, TakeSubscribe, shutdown
<1>7. CASE TakeRemoval(m)
  <2>1. m.do \in {"remove", "removeAll"} /\ m.who \in Actor
    BY <1>4, <1>7 DEF TakeRemoval
  <2>2. \A a \in Actor : subs'[a] = Entry(m, a, subs[a])
    BY <1>1, <1>7, <2>1 DEF TakeRemoval, Entry, Removes
  <2>3. subs' \in [Actor -> 0..MaxLives]
    BY <1>1, <1>7, <2>1 DEF TakeRemoval
  <2>4. QED
    BY <1>1, <1>2, <1>7, <2>2, <2>3 DEF m, TakeRemoval, shutdown
<1>8. QED
  BY <1>3, <1>5, <1>6, <1>7

LEMMA InitIsTyped ==
    ASSUME Init
    PROVE  Typed
<1>1. MaxBroadcasts \in Nat /\ MaxLives \in Nat \ {0} /\ InboxCap \in Nat \ {0} /\ BrokerCap \in Nat \ {0}
  BY BroadcastsAssumption
<1>2. QueueTyped
  BY <1>1 DEF Init, QueueTyped
<1>3. BrokerTyped
  <2>1. Idle \in [at : {"idle", "fanning", "gone"}, n : 0..MaxBroadcasts, to : SUBSET Actor]
    BY <1>1 DEF Idle
  <2>2. Idle.at = "idle" /\ Idle.to = {}
    BY DEF Idle
  <2>3. [a \in Actor |-> 0] \in [Actor -> 0..MaxLives]
    BY <1>1
  <2>4. QED
    BY <2>1, <2>2, <2>3 DEF Init, BrokerTyped
<1>4. ActorsTyped
  BY <1>1 DEF Init, ActorsTyped, InboxesTyped
<1>5. ShutdownTyped
  <2>1. 0 \in 0..MaxBroadcasts /\ {} \in SUBSET Actor
    BY <1>1
  <2>2. QED
    BY <2>1 DEF Init, ShutdownTyped
<1>6. QED
  BY <1>2, <1>3, <1>4, <1>5 DEF Typed

LEMMA QueueStaysTyped ==
    ASSUME Typed, Next
    PROVE  QueueTyped'
<1>1. QueueTyped /\ MaxBroadcasts \in Nat
  BY BroadcastsAssumption DEF Typed
<1>2. CASE RequestStep
  <2>1. bq' \in Seq(Request) /\ Len(bq') <= BrokerCap
    BY <1>1, <1>2, RequestLeaves, RequestsAreTyped DEF QueueTyped
  <2>2. CASE Publish
    <3>1. sent' = sent + 1 /\ sent' \in 1..MaxBroadcasts /\ subscribed' = subscribed
      BY <1>1, <2>2 DEF Publish, QueueTyped
    <3>2. owed' \in [Actor -> SUBSET (1..MaxBroadcasts)]
      BY <1>1, <2>2, <3>1 DEF Publish, QueueTyped
    <3>3. QED
      BY <1>1, <2>1, <3>1, <3>2 DEF QueueTyped
  <2>3. ASSUME ~Publish
        PROVE  UNCHANGED <<sent, owed>> /\ subscribed' \in SUBSET Actor
    BY <1>1, <1>2, <2>3 DEF RequestStep, AskFlush, StopBroker, Starts, SpawnedRemoval, Relay, Leave,
         Removed, SubscribeFor, QueueRequest, QueueTyped, queue
  <2>4. QED
    BY <1>1, <2>1, <2>2, <2>3 DEF QueueTyped
<1>3. CASE BrokerTakes
  <2>1. bq \in Seq(Request) /\ bq # <<>> /\ bq' = Tail(bq) /\ UNCHANGED <<sent, subscribed, owed>>
    BY <1>1, <1>3, TakeLeaves DEF QueueTyped
  <2>2. bq' \in Seq(Request) /\ Len(bq') = Len(bq) - 1 /\ Len(bq) \in Nat
    BY ONLY <2>1, Tailed
  <2>3. QED
    BY <1>1, <2>1, <2>2, BroadcastsAssumption DEF QueueTyped
<1>4. CASE BrokerStops
  BY <1>1, <1>4, BroadcastsAssumption DEF BrokerStops, QueueTyped
<1>5. ASSUME NEW a \in Actor, LeavingStep(a)
      PROVE  QueueTyped'
  BY <1>1, <1>5 DEF LeavingStep, Drained, Fails, ForcedOut, Leaving, QueueTyped
<1>6. ASSUME NEW a \in Actor, Restart(a)
      PROVE  QueueTyped'
  BY <1>1, <1>6 DEF Restart, QueueTyped
<1>7. CASE UNCHANGED queue
  BY <1>1, <1>7 DEF queue, QueueTyped
<1>8. ShutdownStep \/ (\E a \in Actor : InboxStep(a) \/ Unsubscribe(a)) => UNCHANGED queue
  BY DEF ShutdownStep, FlushFails, ShutdownExpires, ShutdownReturns, BrokerTimesOut, InboxStep,
       Handle, HandleStop, FanOut, StopOne, StopRoot, SendStop, Unsubscribe
<1>9. QED
  BY Steps, <1>2, <1>3, <1>4, <1>5, <1>6, <1>7, <1>8

LEMMA BrokerStaysTyped ==
    ASSUME Typed, Next
    PROVE  BrokerTyped'
<1>1. BrokerTyped /\ 0 \in 0..MaxBroadcasts
  BY BroadcastsAssumption DEF Typed
<1>2. CASE RequestStep
  BY <1>1, <1>2, RequestLeaves, RequestsAreTyped DEF BrokerTyped
<1>3. CASE BrokerTakes
  <2>1. bq[1].do = "broadcast" => bq[1].n \in 0..MaxBroadcasts
    BY <1>3, TakeLeaves, RequestFields
  <2>2. Targets \in SUBSET Actor
    BY DEF Targets
  <2>3. /\ broker' \in [at : {"idle", "fanning", "gone"}, n : 0..MaxBroadcasts, to : SUBSET Actor]
        /\ broker'.at = "fanning" => broker'.n # OtherType
        /\ broker'.at # "fanning" => broker'.to = {}
        /\ broker'.at # "gone"
    <3>1. CASE broker' = broker
      BY <1>1, <1>3, <3>1, TakeLeaves DEF BrokerTyped
    <3>2. CASE broker' = Idle
      BY <1>1, <3>2 DEF Idle
    <3>3. CASE /\ bq[1].do = "broadcast" /\ bq[1].n # OtherType
               /\ broker' = [at |-> "fanning", n |-> bq[1].n, to |-> Targets]
      <4> DEFINE n == bq[1].n
      <4>1. n \in 0..MaxBroadcasts /\ n # OtherType /\ broker' = [at |-> "fanning", n |-> n, to |-> Targets]
        BY <2>1, <3>3
      <4> HIDE DEF n
      <4>2. QED
        BY <2>2, <4>1
    <3>4. QED
      BY <1>3, <3>1, <3>2, <3>3, TakeLeaves DEF TakeFlush
  <2>4. subs' \in [Actor -> 0..MaxLives] /\ draining' \in BOOLEAN
    BY <1>1, <1>3, TakeLeaves DEF BrokerTyped, TakeFlush
  <2>5. QED
    BY <2>3, <2>4 DEF BrokerTyped
<1>4. CASE BrokerStops
  <2>1. broker' = [at |-> "gone", n |-> 0, to |-> {}] /\ bq' = <<>> /\ UNCHANGED <<draining, subs>>
    BY <1>4 DEF BrokerStops, Idle
  <2>2. QED
    BY <1>1, <2>1 DEF BrokerTyped
<1>5. ASSUME NEW a \in Actor, FanOut(a)
      PROVE  BrokerTyped'
  <2>1. broker' = Idle \/ broker' = [broker EXCEPT !.to = broker.to \ {a}]
    BY <1>5 DEF FanOut, FanOutTo
  <2>2. broker.at = "fanning" /\ UNCHANGED <<bq, draining, subs>>
    BY <1>5 DEF FanOut, queue
  <2>3. QED
    BY <1>1, <2>1, <2>2 DEF BrokerTyped, Idle
<1>6. CASE UNCHANGED <<bq, broker, draining, subs>>
  BY <1>1, <1>6 DEF BrokerTyped
<1>7. ASSUME \/ ShutdownStep
             \/ \E a \in Actor : \/ Handle(a) \/ HandleStop(a) \/ StopOne(a) \/ StopRoot(a)
                                 \/ LeavingStep(a) \/ Restart(a) \/ Unsubscribe(a)
      PROVE  UNCHANGED <<bq, broker, draining, subs>>
  BY <1>7 DEF ShutdownStep, FlushFails, ShutdownExpires, ShutdownReturns, BrokerTimesOut,
       Handle, HandleStop, StopOne, StopRoot, SendStop, LeavingStep, Drained, Fails, ForcedOut,
       Restart, Unsubscribe, queue
<1>8. QED
  BY Steps, <1>2, <1>3, <1>4, <1>5, <1>6, <1>7 DEF InboxStep

LEMMA InboxSet ==
    ASSUME ActorsTyped, NEW a \in Actor, NEW s \in Seq(0..MaxBroadcasts), Len(s) <= InboxCap,
           inbox' = [inbox EXCEPT ![a] = s]
    PROVE  InboxesTyped'
BY DEF ActorsTyped, InboxesTyped

LEMMA ActorsStayTyped ==
    ASSUME Typed, Next
    PROVE  ActorsTyped'
<1>1. ActorsTyped
  BY DEF Typed
<1>2. MaxBroadcasts \in Nat /\ MaxLives \in Nat /\ InboxCap \in Nat
  BY BroadcastsAssumption
<1>3. CASE RequestStep
  <2>1. UNCHANGED <<life, inbox, closed, seen>>
    BY <1>3, RequestLeaves
  <2>2. /\ place' \in [Actor -> {"new", "running", "relaying", "leaving", "down"}]
        /\ loose' \in SUBSET Actor
    BY <1>1, <1>3 DEF RequestStep, Publish, AskFlush, StopBroker, Starts, SpawnedRemoval, Relay,
         Leave, SubscribeFor, ActorsTyped, actors
  <2>3. QED
    BY <1>1, <2>1, <2>2 DEF ActorsTyped, InboxesTyped
<1> DEFINE Note == 0..MaxBroadcasts
<1>4. ASSUME NEW a \in Actor, NEW n \in Note, Len(inbox[a]) < InboxCap,
             inbox' = [inbox EXCEPT ![a] = Append(inbox[a], n)]
      PROVE  InboxesTyped'
  <2>1. inbox[a] \in Seq(Note)
    BY <1>1 DEF ActorsTyped, InboxesTyped
  <2>2. Append(inbox[a], n) \in Seq(Note) /\ Len(Append(inbox[a], n)) <= InboxCap
    <3> HIDE DEF Note
    <3>1. QED
      BY <1>2, <1>4, <2>1
  <2>3. QED
    BY <1>1, <1>4, <2>2, InboxSet
<1>5. ASSUME NEW a \in Actor, inbox[a] # <<>>, inbox' = [inbox EXCEPT ![a] = Tail(inbox[a])]
      PROVE  InboxesTyped' /\ Head(inbox[a]) \in Note
  <2>1. inbox[a] \in Seq(Note) /\ Len(inbox[a]) <= InboxCap
    BY <1>1 DEF ActorsTyped, InboxesTyped
  <2>2. Tail(inbox[a]) \in Seq(Note) /\ Len(Tail(inbox[a])) <= InboxCap /\ Head(inbox[a]) \in Note
    <3> HIDE DEF Note
    <3>1. QED
      BY <1>2, <1>5, <2>1, Tailed
  <2>3. QED
    BY <1>1, <1>5, <2>2, InboxSet
<1>6. ASSUME NEW a \in Actor, Handle(a)
      PROVE  ActorsTyped'
  <2>1. inbox[a] # <<>> /\ Head(inbox[a]) # 0 /\ inbox' = [inbox EXCEPT ![a] = Tail(inbox[a])]
    BY <1>6 DEF Handle, StopSignal
  <2>2. InboxesTyped' /\ Head(inbox[a]) \in 1..MaxBroadcasts
    <3>1. InboxesTyped' /\ Head(inbox[a]) \in Note
      BY <1>5, <2>1
    <3>2. \A n \in Note : n # 0 => n \in 1..MaxBroadcasts
      BY <1>2
    <3>3. QED
      BY <2>1, <3>1, <3>2
  <2>3. seen' \in [Actor -> SUBSET (1..MaxBroadcasts)]
    BY <1>1, <1>6, <2>2 DEF Handle, ActorsTyped
  <2>4. place' \in [Actor -> {"new", "running", "relaying", "leaving", "down"}]
    BY <1>1, <1>6 DEF Handle, ActorsTyped
  <2>5. QED
    BY <1>1, <1>6, <2>2, <2>3, <2>4 DEF Handle, ActorsTyped
<1>7. ASSUME NEW a \in Actor, HandleStop(a)
      PROVE  ActorsTyped'
  <2>1. inbox[a] # <<>> /\ inbox' = [inbox EXCEPT ![a] = Tail(inbox[a])]
    BY <1>7 DEF HandleStop
  <2>2. QED
    BY <1>1, <1>5, <1>7, <2>1 DEF HandleStop, ActorsTyped
<1>8. ASSUME NEW a \in Actor, FanOut(a)
      PROVE  ActorsTyped'
  <2>1. broker.n \in 0..MaxBroadcasts
    BY DEF Typed, BrokerTyped
  <2>2. \/ inbox' = inbox
        \/ Len(inbox[a]) < InboxCap /\ inbox' = [inbox EXCEPT ![a] = Append(inbox[a], broker.n)]
    BY <1>8 DEF FanOut
  <2>3. InboxesTyped'
    BY <1>1, <1>4, <2>1, <2>2 DEF ActorsTyped, InboxesTyped
  <2>4. QED
    BY <1>1, <1>8, <2>3 DEF FanOut, ActorsTyped
<1>9. ASSUME NEW a \in Actor, StopOne(a) \/ StopRoot(a)
      PROVE  ActorsTyped'
  <2>1. 0 \in Note
    BY <1>2
  <2>2. Len(inbox[a]) < InboxCap /\ inbox' = [inbox EXCEPT ![a] = Append(inbox[a], 0)]
    BY <1>9 DEF StopOne, StopRoot, SendStop, StopSignal
  <2>3. InboxesTyped'
    BY <1>4, <2>1, <2>2
  <2>4. QED
    BY <1>1, <1>9, <2>3 DEF StopOne, StopRoot, SendStop, ActorsTyped
<1>10. ASSUME NEW a \in Actor, LeavingStep(a)
      PROVE  ActorsTyped'
  <2>1. <<>> \in Seq(Note) /\ Len(<<>>) <= InboxCap /\ inbox' = [inbox EXCEPT ![a] = <<>>]
    BY <1>2, <1>10 DEF LeavingStep, Drained, Fails, ForcedOut, Leaving
  <2>2. InboxesTyped'
    BY <1>1, <2>1, InboxSet
  <2>3. QED
    BY <1>1, <1>10, <2>2 DEF LeavingStep, Drained, Fails, ForcedOut, Leaving, ActorsTyped
<1>11. ASSUME NEW a \in Actor, Restart(a)
      PROVE  ActorsTyped'
  BY <1>1, <1>2, <1>11 DEF Restart, ActorsTyped, InboxesTyped
<1>12. ASSUME NEW a \in Actor, Unsubscribe(a)
      PROVE  ActorsTyped'
  BY <1>1, <1>12 DEF Unsubscribe, ActorsTyped, actors, InboxesTyped
<1>13. CASE BrokerTakes \/ BrokerStops \/ ShutdownStep
  BY <1>1, <1>13 DEF BrokerTakes, BrokerStops, ShutdownStep, FlushFails, ShutdownExpires,
       ShutdownReturns, BrokerTimesOut, ActorsTyped, actors, InboxesTyped
<1>14. QED
  BY Steps, <1>3, <1>6, <1>7, <1>8, <1>9, <1>10, <1>11, <1>12, <1>13 DEF InboxStep

LEMMA ShutdownStaysTyped ==
    ASSUME Typed, Next
    PROVE  ShutdownTyped'
<1>1. ShutdownTyped /\ sent \in 0..MaxBroadcasts
  BY DEF Typed, QueueTyped
<1>2. CASE RequestStep
  BY <1>1, <1>2 DEF RequestStep, Publish, AskFlush, StopBroker, Starts, SpawnedRemoval, Relay,
       Leave, SubscribeFor, ShutdownTyped, shutdown
<1>3. CASE BrokerTakes
  BY <1>1, <1>3, TakeLeaves DEF TakeFlush, ShutdownTyped, shutdown
<1>4. CASE ShutdownStep
  BY <1>1, <1>4 DEF ShutdownStep, FlushFails, ShutdownExpires, ShutdownReturns, BrokerTimesOut,
       ShutdownTyped
<1>5. ASSUME NEW a \in Actor, LeavingStep(a)
      PROVE  ShutdownTyped'
  BY <1>1, <1>5 DEF LeavingStep, Drained, Fails, ForcedOut, ShutdownTyped, shutdown
<1>6. CASE UNCHANGED shutdown
  BY <1>1, <1>6 DEF ShutdownTyped, shutdown
<1>7. BrokerStops \/ (\E a \in Actor : InboxStep(a) \/ Restart(a) \/ Unsubscribe(a)) => UNCHANGED shutdown
  BY DEF BrokerStops, InboxStep, Handle, HandleStop, FanOut, StopOne, StopRoot, SendStop, Restart,
       Unsubscribe
<1>8. QED
  BY Steps, <1>2, <1>3, <1>4, <1>5, <1>6, <1>7

LEMMA StaysTyped ==
    ASSUME Typed, Next
    PROVE  Typed'
BY QueueStaysTyped, BrokerStaysTyped, ActorsStayTyped, ShutdownStaysTyped DEF Typed

-----------------------------------------------------------------------------
(* What a request says, and what is recorded with it.                      *)
Announces(m) ==
    /\ Carries(m, sent + 1) /\ sent' = sent + 1 /\ sent + 1 \in 1..MaxBroadcasts
    /\ UNCHANGED <<subscribed, shutdown>>
    /\ \A a \in Actor : owed'[a] = owed[a] \union {n \in {sent + 1} : a \in subscribed}
Enters(m, a, x) ==
    /\ Subscribes(m, a, x) /\ x <= life[a] /\ UNCHANGED <<sent, owed, shutdown>>
    /\ subscribed \subseteq subscribed' /\ subscribed' \subseteq subscribed \union {a}
    /\ x = life[a] /\ a \notin closed => a \in subscribed'
    /\ a \in subscribed' => a \in subscribed \/ x = life[a]
    /\ ~Stale => x = life[a] /\ place'[a] \notin {"leaving", "down"}
Exits(m, a) ==
    /\ Removes(m, a) /\ UNCHANGED <<sent, owed, shutdown>>
    /\ \/ subscribed' = subscribed \ {a}
       \/ place[a] = "leaving" /\ subscribed' = subscribed
Passes(m) ==
    /\ m.do \in {"broadcast", "flush", "stop"} /\ UNCHANGED <<sent, subscribed, owed>>
    /\ m.do = "broadcast" => m.n = OtherType
    /\ m.do = "flush" => sd = "no" /\ sd' = "asked" /\ ahead' = sent /\ UNCHANGED <<cancelled, promised>>
    /\ m.do = "broadcast" => UNCHANGED shutdown
    /\ m.do = "stop" => StopBroker
Says(m) ==
    \/ Announces(m) \/ Passes(m)
    \/ \E a \in Actor : Exits(m, a) \/ \E x \in 1..MaxLives : Enters(m, a, x)

LEMMA RequestSays ==
    ASSUME Typed, RequestStep
    PROVE  (Unreachable /\ UNCHANGED queue) \/ \E m : Requested(m) /\ Says(m)
<1>1. /\ life \in [Actor -> 1..MaxLives] /\ sent \in 0..MaxBroadcasts /\ MaxBroadcasts \in Nat
      /\ place \in [Actor -> {"new", "running", "relaying", "leaving", "down"}]
      /\ owed \in [Actor -> SUBSET (1..MaxBroadcasts)] /\ subscribed \in SUBSET Actor
  BY BroadcastsAssumption DEF Typed, QueueTyped, ActorsTyped
<1>2. CASE Publish
  <2> DEFINE m == BrokerRequest(sent + 1)
  <2>1. sent + 1 \in 0..MaxBroadcasts /\ sent + 1 \in 1..MaxBroadcasts /\ sent + 1 # 0
    BY <1>1, <1>2 DEF Publish
  <2>2. m \in Request /\ Carries(m, sent + 1)
    BY <2>1, RequestsMade DEF Carries, OtherType
  <2>3. Requested(m)
    BY <1>2, <2>2 DEF Publish, Requested
  <2>4. \A a \in Actor : owed'[a] = owed[a] \union {n \in {sent + 1} : a \in subscribed}
    BY <1>1, <1>2 DEF Publish
  <2>5. Announces(m)
    <3> HIDE DEF m
    <3>1. QED
      BY <1>2, <2>1, <2>2, <2>4 DEF Publish, Announces
  <2>6. QED
    BY <2>3, <2>5 DEF Says
<1>3. CASE AskFlush
  <2>1. Requested(FlushBroadcasts)
    BY <1>3, RequestsMade DEF AskFlush, QueueRequest, Requested
  <2>2. Passes(FlushBroadcasts)
    BY <1>3, RequestsMade DEF AskFlush, QueueRequest, Passes
  <2>3. QED
    BY <2>1, <2>2 DEF Says
<1>4. CASE StopBroker
  <2>1. CASE QueueRequest(Terminate) /\ UNCHANGED subscribed
    <3>1. Requested(Terminate) /\ Passes(Terminate)
      BY <1>4, <2>1, RequestsMade DEF QueueRequest, Requested, Passes
    <3>2. QED
      BY <3>1 DEF Says
  <2>2. QED
    BY <1>4, <2>1 DEF StopBroker
<1>5. ASSUME NEW a \in Actor, Starts(a)
      PROVE  (Unreachable /\ UNCHANGED queue) \/ \E m : Requested(m) /\ Says(m)
  <2> DEFINE m == SubscribeBroker(a, life[a])
  <2>1. m \in Request /\ Subscribes(m, a, life[a]) /\ life[a] \in 1..MaxLives
    BY <1>1, RequestsMade DEF Subscribes
  <2>2. CASE QueueRequest(m) /\ subscribed' = subscribed \union {a}
    <3> HIDE DEF m
    <3>1. Requested(m) /\ UNCHANGED <<sent, owed, shutdown>>
      BY <1>5, <2>1, <2>2 DEF Starts, QueueRequest, Requested
    <3>2. place'[a] = "running" /\ life[a] <= life[a]
      BY <1>1, <1>5 DEF Starts
    <3>3. Enters(m, a, life[a])
      BY <2>1, <2>2, <3>1, <3>2 DEF Enters
    <3>4. QED
      BY <2>1, <3>1, <3>3 DEF Says
  <2>3. QED
    BY <1>5, <2>2 DEF Starts
<1>6. ASSUME NEW a \in Actor, SpawnedRemoval(a) \/ Leave(a)
      PROVE  (Unreachable /\ UNCHANGED queue) \/ \E m : Requested(m) /\ Says(m)
  <2>1. ASSUME NEW m \in {RemoveSubscription(a), RemoveAllSubscriptions(a)}, QueueRequest(m),
               subscribed' = subscribed \ {a} \/ (place[a] = "leaving" /\ subscribed' = subscribed)
        PROVE  Requested(m) /\ Says(m)
    <3>1. m \in Request /\ Removes(m, a)
      BY RequestsMade DEF Removes
    <3>2. Requested(m) /\ UNCHANGED <<sent, owed, shutdown>>
      BY <1>6, <2>1, <3>1 DEF SpawnedRemoval, Leave, QueueRequest, Requested
    <3>3. Exits(m, a)
      BY <2>1, <3>1, <3>2 DEF Exits
    <3>4. QED
      BY <3>2, <3>3 DEF Says
  <2>2. QED
    BY <1>6, <2>1 DEF SpawnedRemoval, Leave, Removed
<1>7. ASSUME NEW a \in Actor, Relay(a)
      PROVE  (Unreachable /\ UNCHANGED queue) \/ \E m : Requested(m) /\ Says(m)
  <2> DEFINE m == BrokerRequest(OtherType)
  <2>1. m \in Request /\ m.do = "broadcast" /\ m.n = OtherType
    BY <1>1, RequestsMade DEF OtherType
  <2>2. CASE QueueRequest(m) /\ UNCHANGED subscribed
    <3> HIDE DEF m
    <3>1. Requested(m) /\ Passes(m)
      BY <1>7, <2>1, <2>2 DEF Relay, QueueRequest, Requested, Passes
    <3>2. QED
      BY <3>1 DEF Says
  <2>3. QED
    BY <1>7, <2>2 DEF Relay
<1>8. ASSUME NEW a \in Actor, NEW x \in 1..MaxLives, SubscribeFor(a, x)
      PROVE  \E m : Requested(m) /\ Says(m)
  <2> DEFINE m == SubscribeBroker(a, x)
  <2>1. m \in Request /\ Subscribes(m, a, x)
    BY RequestsMade DEF Subscribes
  <2>2. QueueRequest(m)
    BY <1>8 DEF SubscribeFor
  <2> HIDE DEF m
  <2>3. Requested(m) /\ UNCHANGED <<sent, owed, shutdown>>
    BY <1>8, <2>1, <2>2 DEF SubscribeFor, QueueRequest, Requested
  <2>4. /\ subscribed' = subscribed \union {d \in {a} : Current(d, x)} /\ x <= life[a]
        /\ ~Stale => x = life[a] /\ place'[a] \notin {"leaving", "down"}
    BY <1>1, <1>8 DEF SubscribeFor, Current, Alive, actors
  <2>5. Enters(m, a, x)
    BY <2>1, <2>3, <2>4 DEF Enters, Current, Open
  <2>6. QED
    BY <2>3, <2>5 DEF Says
<1>9. QED
  BY <1>2, <1>3, <1>4, <1>5, <1>6, <1>7, <1>8 DEF RequestStep

-----------------------------------------------------------------------------
(* Nothing is delivered that was not asked for.                            *)

(* The broker knows of no incarnation still to come.                       *)
AsksPass ==
    \A a \in Actor :
        /\ subs[a] <= life[a]
        /\ \A i \in 1..Len(bq), x \in 1..MaxLives : Subscribes(bq[i], a, x) => x <= life[a]

EndedAreQuiet ==
    \A a \in Actor : place[a] \in {"leaving", "down"} =>
        a \in closed /\ inbox[a] = <<>> /\ a \notin subscribed

(* What the broker may hold of a once it caught up was asked for last.     *)
HolderSubscribed ==
    broker.at # "gone" =>
        \A a \in Actor \ closed :
            MayHold(bq, subs[a], life[a], a, Len(bq) + 1) => a \in subscribed

CarriedIsOwed ==
    \A k \in 1..Len(bq), a \in Actor \ closed, n \in 1..MaxBroadcasts :
        Carries(bq[k], n) /\ MayHold(bq, subs[a], life[a], a, k) => n \in owed[a]

FannedIsOwed ==
    broker.at = "fanning" =>
        \A a \in broker.to \ closed : subs[a] = life[a] => broker.n \in owed[a]

ReceivedIsOwed ==
    \A a \in Actor : \A i \in 1..Len(inbox[a]) :
        inbox[a][i] # StopSignal => inbox[a][i] \in owed[a]

DeliveryInv ==
    /\ Typed /\ AsksPass /\ EndedAreQuiet /\ HolderSubscribed /\ CarriedIsOwed /\ FannedIsOwed
    /\ ReceivedIsOwed /\ DeliveryWasAskedFor

(* Steps the broker's table and queue do not notice.                       *)
LEMMA Unnoticed ==
    ASSUME \/ ShutdownStep
           \/ \E a \in Actor : Handle(a) \/ StopOne(a) \/ StopRoot(a) \/ Unsubscribe(a)
    PROVE  UNCHANGED <<queue, broker, draining, subs, life, closed>>
BY DEF ShutdownStep, FlushFails, ShutdownExpires, ShutdownReturns, BrokerTimesOut, Handle, StopOne,
       StopRoot, SendStop, Unsubscribe, actors

(* Closing an inbox is noticed by nobody but the fan-out.                  *)
LEMMA Closing ==
    ASSUME NEW a \in Actor, HandleStop(a) \/ LeavingStep(a)
    PROVE  /\ UNCHANGED <<bq, sent, owed, broker, draining, subs, life, seen>>
           /\ closed' = closed \union {a} /\ subscribed' \in {subscribed, subscribed \ {a}}
BY DEF HandleStop, LeavingStep, Drained, Fails, ForcedOut, Leaving, queue

LEMMA AsksStayPassed ==
    ASSUME Typed, AsksPass, Next
    PROVE  AsksPass'
<1>1. /\ bq \in Seq(Request) /\ life \in [Actor -> 1..MaxLives] /\ subs \in [Actor -> 0..MaxLives]
      /\ MaxLives \in Nat
  BY BroadcastsAssumption DEF Typed, QueueTyped, BrokerTyped, ActorsTyped
<1>2. CASE UNCHANGED <<bq, subs, life>>
  BY <1>2 DEF AsksPass
<1>3. CASE RequestStep
  <2>1. UNCHANGED <<subs, life>>
    BY <1>3, RequestLeaves
  <2>2. ASSUME NEW m, Requested(m), Says(m)
        PROVE  AsksPass'
    <3>1. m \in Request /\ bq' = Append(bq, m)
      BY <2>2 DEF Requested
    <3>2. /\ Len(bq') = Len(bq) + 1 /\ Len(bq) \in Nat /\ bq'[Len(bq) + 1] = m
          /\ \A i \in 1..Len(bq) : bq'[i] = bq[i]
      BY <1>1, <3>1, Appended
    <3>3. \A i \in 1..Len(bq') : i \in 1..Len(bq) \/ i = Len(bq) + 1
      BY <3>2
    <3>4. \A a, x : Subscribes(m, a, x) => x <= life[a]
      BY <2>2 DEF Says, Announces, Passes, Exits, Enters, Subscribes, Removes, Carries
    <3>5. QED
      BY <2>1, <3>2, <3>3, <3>4 DEF AsksPass
  <2>3. QED
    BY <1>2, <1>3, <2>1, <2>2, RequestSays DEF queue
<1>4. CASE BrokerTakes
  <2>1. /\ bq # <<>> /\ bq' = Tail(bq) /\ bq[1] \in Request /\ UNCHANGED life
        /\ \A a \in Actor : subs'[a] = Entry(bq[1], a, subs[a])
    BY <1>4, TakeLeaves DEF actors
  <2>2. /\ Len(bq') = Len(bq) - 1 /\ Len(bq) \in Nat /\ Len(bq) >= 1
        /\ \A i \in 1..Len(bq') : bq'[i] = bq[i + 1]
    BY <1>1, <2>1, Tailed
  <2>3. \A i \in 1..Len(bq') : i + 1 \in 1..Len(bq)
    BY <2>2
  <2>4. ASSUME NEW a \in Actor
        PROVE  subs'[a] <= life[a]
    <3>1. bq[1].do = "subscribe" /\ bq[1].who = a =>
            bq[1].life \in 1..MaxLives /\ Subscribes(bq[1], a, bq[1].life) /\ 1 \in 1..Len(bq)
      BY <2>1, <2>2, RequestFields DEF Subscribes
    <3>2. bq[1].do = "subscribe" /\ bq[1].who = a => bq[1].life <= life[a]
      BY <3>1 DEF AsksPass
    <3>3. subs[a] <= life[a] /\ 0 <= life[a]
      BY <1>1 DEF AsksPass
    <3>4. QED
      BY <2>1, <3>2, <3>3 DEF Entry
  <2>5. QED
    BY <2>1, <2>2, <2>3, <2>4 DEF AsksPass
<1>5. CASE BrokerStops
  BY <1>5 DEF BrokerStops, AsksPass, actors
<1>6. ASSUME NEW a \in Actor, Restart(a)
      PROVE  AsksPass'
  <2>1. \A b \in Actor : life[b] <= life'[b] /\ life[b] \in Nat /\ life'[b] \in Nat /\ subs[b] \in Nat
    BY <1>1, <1>6 DEF Restart
  <2>2. UNCHANGED <<bq, subs>>
    BY <1>6 DEF Restart
  <2>3. \A x \in 1..MaxLives : x \in Nat
    BY <1>1
  <2>4. QED
    BY <2>1, <2>2, <2>3 DEF AsksPass
<1>7. ASSUME NEW a \in Actor, FanOut(a)
      PROVE  UNCHANGED <<bq, subs, life>>
  BY <1>7 DEF FanOut, queue
<1>8. QED
  BY Steps, Unnoticed, Closing, <1>2, <1>3, <1>4, <1>5, <1>6, <1>7 DEF InboxStep, queue

LEMMA EndedStayQuiet ==
    ASSUME Typed, EndedAreQuiet, Next
    PROVE  EndedAreQuiet'
<1>1. /\ place \in [Actor -> {"new", "running", "relaying", "leaving", "down"}]
      /\ inbox \in [Actor -> Seq(0..MaxBroadcasts)]
  BY DEF Typed, ActorsTyped, InboxesTyped
<1>2. CASE RequestStep
  <2>1. UNCHANGED <<closed, inbox>>
    BY <1>2, RequestLeaves
  <2>2. ASSUME NEW b \in Actor, place'[b] \in {"leaving", "down"}
        PROVE  place[b] \in {"leaving", "down"} /\ (b \in subscribed' => b \in subscribed)
    <3>1. place[b] \in {"leaving", "down"}
      BY <1>1, <1>2, <2>2 DEF RequestStep, Publish, AskFlush, StopBroker, Starts, SpawnedRemoval,
           Relay, Leave, SubscribeFor, actors
    <3>2. b \in closed
      BY <3>1 DEF EndedAreQuiet
    <3>3. b \in subscribed' => b \in subscribed
      BY <1>1, <1>2, <2>2, <3>2 DEF RequestStep, Publish, AskFlush, StopBroker, Starts,
           SpawnedRemoval, Relay, Leave, Removed, SubscribeFor, Current, Open, queue
    <3>4. QED
      BY <3>1, <3>3
  <2>3. QED
    BY <2>1, <2>2 DEF EndedAreQuiet
<1>3. ASSUME NEW a \in Actor, InboxStep(a)
      PROVE  EndedAreQuiet'
  <2>1. /\ \A b \in Actor : place'[b] \in {"leaving", "down"} => place[b] \in {"leaving", "down"}
        /\ closed \subseteq closed' /\ UNCHANGED subscribed
    BY <1>1, <1>3 DEF InboxStep, Handle, HandleStop, FanOut, StopOne, StopRoot, SendStop, queue
  <2>2. /\ \A b \in Actor \ {a} : inbox'[b] = inbox[b]
        /\ place[a] \in {"leaving", "down"} => inbox'[a] = inbox[a]
    BY <1>1, <1>3 DEF InboxStep, Handle, HandleStop, FanOut, FanOutStopped, StopOne, StopRoot,
         SendStop, Open, EndedAreQuiet
  <2>3. QED
    BY <2>1, <2>2 DEF EndedAreQuiet
<1>4. ASSUME NEW a \in Actor, LeavingStep(a)
      PROVE  EndedAreQuiet'
  BY <1>1, <1>4 DEF LeavingStep, Drained, Fails, ForcedOut, Leaving, EndedAreQuiet
<1>5. ASSUME NEW a \in Actor, Restart(a)
      PROVE  EndedAreQuiet'
  BY <1>1, <1>5 DEF Restart, EndedAreQuiet
<1>6. CASE UNCHANGED <<place, closed, inbox, subscribed>>
  BY <1>6 DEF EndedAreQuiet
<1>7. BrokerTakes \/ BrokerStops \/ ShutdownStep \/ (\E a \in Actor : Unsubscribe(a)) =>
        UNCHANGED <<place, closed, inbox, subscribed>>
  BY DEF BrokerTakes, BrokerStops, ShutdownStep, FlushFails, ShutdownExpires, ShutdownReturns,
       BrokerTimesOut, Unsubscribe, actors, queue
<1>8. QED
  BY Steps, <1>2, <1>3, <1>4, <1>5, <1>6, <1>7

(* A replacement starts with nothing in the broker.                        *)
LEMMA NoneOfTheNext ==
    ASSUME Typed, AsksPass, NEW a \in Actor, Restart(a), NEW k \in 1..(Len(bq) + 1)
    PROVE  ~MayHold(bq, subs[a], life'[a], a, k) /\ subs[a] # life'[a]
<1>1. /\ bq \in Seq(Request) /\ life'[a] = life[a] + 1 /\ life[a] \in 1..MaxLives
      /\ life[a] < MaxLives /\ MaxLives \in Nat /\ subs[a] \in Nat
  BY BroadcastsAssumption DEF Typed, QueueTyped, BrokerTyped, ActorsTyped, Restart
<1>2. life'[a] \in 1..MaxLives /\ ~(life'[a] <= life[a]) /\ subs[a] # life'[a]
  BY <1>1 DEF AsksPass
<1>3. \A i \in 1..(k - 1) : i \in 1..Len(bq)
  BY <1>1
<1>4. \A i \in 1..Len(bq) : ~Subscribes(bq[i], a, life'[a])
  BY <1>2 DEF AsksPass
<1>5. QED
  BY <1>2, <1>3, <1>4 DEF MayHold

LEMMA HoldersStaySubscribed ==
    ASSUME Typed, AsksPass, HolderSubscribed, Next
    PROVE  HolderSubscribed'
<1>1. /\ bq \in Seq(Request) /\ life \in [Actor -> 1..MaxLives] /\ subs \in [Actor -> 0..MaxLives]
      /\ MaxLives \in Nat
  BY BroadcastsAssumption DEF Typed, QueueTyped, BrokerTyped, ActorsTyped
<1> SUFFICES ASSUME broker'.at # "gone", NEW a \in Actor, a \notin closed',
                    MayHold(bq', subs'[a], life'[a], a, Len(bq') + 1)
             PROVE  a \in subscribed'
  BY DEF HolderSubscribed
<1>2. ASSUME a \notin closed, MayHold(bq, subs[a], life[a], a, Len(bq) + 1), broker.at # "gone"
      PROVE  a \in subscribed
  BY <1>2 DEF HolderSubscribed
<1>3. CASE RequestStep
  <2>1. /\ UNCHANGED <<broker, subs, life, closed>>
        /\ UNCHANGED queue \/ \E m : Requested(m) /\ Says(m)
    BY <1>3, RequestLeaves, RequestSays
  <2>2. ASSUME NEW m, Requested(m), Says(m)
        PROVE  a \in subscribed'
    <3>1. m \in Request /\ bq' = Append(bq, m)
      BY <2>2 DEF Requested
    <3>2. Len(bq') + 1 = Len(bq) + 2
      BY <1>1, <3>1
    <3>3. MayHold(bq', subs[a], life[a], a, Len(bq) + 2)
      BY <2>1, <3>2
    <3>4. ~Removes(m, a) /\ (MayHold(bq, subs[a], life[a], a, Len(bq) + 1) \/ Subscribes(m, a, life[a]))
      BY <1>1, <3>1, <3>3, HoldEnd
    <3>5. CASE Subscribes(m, a, life[a])
      BY <2>1, <2>2, <3>5 DEF Says, Announces, Passes, Exits, Enters, Subscribes, Removes, Carries
    <3>6. CASE a \in subscribed
      BY <2>2, <3>4, <3>6 DEF Says, Announces, Passes, Exits, Enters, Subscribes, Removes
    <3>7. QED
      BY <1>2, <2>1, <3>4, <3>5, <3>6
  <2>3. QED
    BY <1>2, <2>1, <2>2 DEF queue
<1>4. CASE BrokerTakes
  <2>1. /\ broker.at # "gone" /\ bq # <<>> /\ bq' = Tail(bq) /\ UNCHANGED <<life, closed, subscribed>>
        /\ subs'[a] = Entry(bq[1], a, subs[a])
    BY <1>4, TakeLeaves DEF actors
  <2>2. Len(bq') + 1 = Len(bq) /\ Len(bq) \in 1..Len(bq)
    BY <1>1, <2>1
  <2>3. life[a] \in Nat \ {0} /\ subs[a] \in Nat
    BY <1>1
  <2>4. MayHold(bq', subs'[a], life[a], a, Len(bq))
    BY <2>1, <2>2
  <2>5. MayHold(bq, subs[a], life[a], a, Len(bq) + 1)
    BY <1>1, <2>1, <2>2, <2>3, <2>4, HoldTail
  <2>6. QED
    BY <1>2, <2>1, <2>5
<1>5. CASE BrokerStops
  BY <1>5 DEF BrokerStops, Idle
<1>6. ASSUME NEW b \in Actor, HandleStop(b) \/ LeavingStep(b)
      PROVE  a \in subscribed'
  BY <1>2, <1>6, Closing
<1>7. ASSUME NEW b \in Actor, Restart(b)
      PROVE  a \in subscribed'
  <2>1. UNCHANGED <<bq, subs, broker, subscribed>> /\ Len(bq) + 1 \in 1..(Len(bq) + 1)
    BY <1>1, <1>7 DEF Restart
  <2>2. a # b
    BY <1>7, <2>1, NoneOfTheNext
  <2>3. life'[a] = life[a] /\ a \notin closed
    BY <1>1, <1>7, <2>2 DEF Restart
  <2>4. QED
    BY <1>2, <2>1, <2>3
<1>8. ASSUME NEW b \in Actor, FanOut(b)
      PROVE  UNCHANGED <<bq, subs, life, closed, subscribed>> /\ broker.at # "gone"
  BY <1>8 DEF FanOut, queue
<1>9. CASE UNCHANGED <<bq, subs, life, closed, subscribed>> /\ broker.at # "gone"
  BY <1>2, <1>9
<1>10. QED
  BY Steps, Unnoticed, <1>3, <1>4, <1>5, <1>6, <1>7, <1>8, <1>9 DEF InboxStep, queue

LEMMA CarriedStaysOwed ==
    ASSUME Typed, AsksPass, HolderSubscribed, CarriedIsOwed, Next
    PROVE  CarriedIsOwed'
<1>1. /\ bq \in Seq(Request) /\ life \in [Actor -> 1..MaxLives] /\ subs \in [Actor -> 0..MaxLives]
      /\ MaxLives \in Nat
  BY BroadcastsAssumption DEF Typed, QueueTyped, BrokerTyped, ActorsTyped
<1> SUFFICES ASSUME NEW k \in 1..Len(bq'), NEW a \in Actor, a \notin closed',
                    NEW n \in 1..MaxBroadcasts, Carries(bq'[k], n),
                    MayHold(bq', subs'[a], life'[a], a, k)
             PROVE  n \in owed'[a]
  BY DEF CarriedIsOwed
<1>2. ASSUME NEW l \in 1..Len(bq), a \notin closed, Carries(bq[l], n), MayHold(bq, subs[a], life[a], a, l)
      PROVE  n \in owed[a]
  BY <1>2 DEF CarriedIsOwed
<1>3. CASE RequestStep
  <2>1. /\ UNCHANGED <<broker, subs, life, closed>>
        /\ UNCHANGED queue \/ \E m : Requested(m) /\ Says(m)
    BY <1>3, RequestLeaves, RequestSays
  <2>2. ASSUME NEW m, Requested(m), Says(m)
        PROVE  n \in owed'[a]
    <3>1. m \in Request /\ bq' = Append(bq, m) /\ broker.at # "gone"
      BY <2>2, RequestsAreTyped DEF Requested
    <3>2. /\ Len(bq') = Len(bq) + 1 /\ bq'[Len(bq) + 1] = m /\ Len(bq) \in Nat
          /\ \A i \in 1..Len(bq) : bq'[i] = bq[i]
      BY <1>1, <3>1, Appended
    <3>3. k \in 1..(Len(bq) + 1)
      BY <3>2
    <3>4. MayHold(bq, subs[a], life[a], a, k)
      BY <1>1, <2>1, <3>1, <3>3, HoldAppend
    <3>5. CASE k \in 1..Len(bq)
      <4>1. n \in owed[a]
        BY <1>2, <2>1, <3>2, <3>4, <3>5
      <4>2. QED
        BY <2>2, <4>1 DEF Says, Announces, Passes, Exits, Enters
    <3>6. CASE k = Len(bq) + 1
      <4>1. Carries(m, n) /\ a \in subscribed
        BY <2>1, <3>1, <3>2, <3>4, <3>6 DEF HolderSubscribed
      <4>2. QED
        BY <2>2, <4>1 DEF Says, Announces, Passes, Exits, Enters, Subscribes, Removes, Carries
    <3>7. QED
      BY <3>2, <3>3, <3>5, <3>6
  <2>3. QED
    BY <1>2, <2>1, <2>2 DEF queue
<1>4. CASE BrokerTakes
  <2>1. /\ bq # <<>> /\ bq' = Tail(bq) /\ UNCHANGED <<life, closed, owed>>
        /\ subs'[a] = Entry(bq[1], a, subs[a])
    BY <1>4, TakeLeaves DEF actors
  <2>2. bq'[k] = bq[k + 1] /\ k \in 1..Len(bq) /\ k + 1 \in 1..Len(bq)
    BY <1>1, <2>1, Tailed
  <2>3. life[a] \in Nat \ {0} /\ subs[a] \in Nat
    BY <1>1
  <2>4. MayHold(bq', subs'[a], life[a], a, k)
    BY <2>1
  <2>5. MayHold(bq, subs[a], life[a], a, k + 1)
    BY <1>1, <2>1, <2>2, <2>3, <2>4, HoldTail
  <2>6. QED
    BY <1>2, <2>1, <2>2, <2>5
<1>5. CASE BrokerStops
  BY <1>5 DEF BrokerStops
<1>6. ASSUME NEW b \in Actor, HandleStop(b) \/ LeavingStep(b)
      PROVE  n \in owed'[a]
  BY <1>2, <1>6, Closing
<1>7. ASSUME NEW b \in Actor, Restart(b)
      PROVE  n \in owed'[a]
  <2>1. UNCHANGED <<bq, subs>> /\ k \in 1..(Len(bq) + 1)
    BY <1>1, <1>7 DEF Restart
  <2>2. a # b
    BY <1>7, <2>1, NoneOfTheNext
  <2>3. life'[a] = life[a] /\ a \notin closed /\ owed'[a] = owed[a]
    BY <1>1, <1>7, <2>2 DEF Restart, Typed, QueueTyped
  <2>4. QED
    BY <1>2, <2>1, <2>3
<1>8. ASSUME NEW b \in Actor, FanOut(b)
      PROVE  UNCHANGED <<bq, subs, life, closed, owed>>
  BY <1>8 DEF FanOut, queue
<1>9. CASE UNCHANGED <<bq, subs, life, closed, owed>>
  BY <1>2, <1>9
<1>10. QED
  BY Steps, Unnoticed, <1>3, <1>4, <1>5, <1>6, <1>7, <1>8, <1>9 DEF InboxStep, queue

LEMMA FannedStaysOwed ==
    ASSUME Typed, AsksPass, CarriedIsOwed, FannedIsOwed, Next
    PROVE  FannedIsOwed'
<1>1. /\ bq \in Seq(Request) /\ life \in [Actor -> 1..MaxLives] /\ subs \in [Actor -> 0..MaxLives]
      /\ MaxLives \in Nat
  BY BroadcastsAssumption DEF Typed, QueueTyped, BrokerTyped, ActorsTyped
<1> SUFFICES ASSUME broker'.at = "fanning", NEW a \in broker'.to, a \notin closed', subs'[a] = life'[a]
             PROVE  broker'.n \in owed'[a]
  BY DEF FannedIsOwed
<1>2. ASSUME broker'.n = broker.n, broker.at = "fanning", a \in broker.to, a \notin closed, subs[a] = life[a]
      PROVE  a \in Actor /\ broker'.n \in owed[a]
  BY <1>2 DEF FannedIsOwed, Typed, BrokerTyped
<1>3. CASE RequestStep
  <2>1. UNCHANGED <<broker, subs, life, closed>>
    BY <1>3, RequestLeaves
  <2>2. a \in Actor /\ broker'.n \in owed[a]
    BY <1>2, <2>1
  <2>3. QED
    BY <1>3, <2>2, RequestSays DEF Says, Announces, Passes, Exits, Enters, queue
<1>4. CASE BrokerTakes
  <2>1. /\ bq[1].do = "broadcast" /\ bq[1].n # OtherType /\ broker'.n = bq[1].n
        /\ a \in Targets /\ UNCHANGED <<subs, life, closed, owed>>
    <3>1. broker' # broker /\ broker' # Idle
      BY <1>4, TakeLeaves DEF Idle
    <3>2. /\ bq[1].do = "broadcast" /\ bq[1].n # OtherType /\ UNCHANGED subs
          /\ broker' = [at |-> "fanning", n |-> bq[1].n, to |-> Targets]
      BY <1>4, <3>1, TakeLeaves DEF TakeFlush
    <3>3. UNCHANGED <<life, closed, owed>>
      BY <1>4, TakeLeaves DEF actors
    <3>4. QED
      BY <3>2, <3>3
  <2>2. bq # <<>> /\ bq[1] \in Request
    BY <1>4, TakeLeaves
  <2>3. bq[1].n \in 1..MaxBroadcasts /\ a \in Actor /\ 1 \in 1..Len(bq)
    BY <1>1, <2>1, <2>2, RequestFields, BroadcastsAssumption DEF Targets, OtherType
  <2>4. Carries(bq[1], bq[1].n)
    BY <2>1 DEF Carries
  <2>5. MayHold(bq, subs[a], life[a], a, 1)
    BY <2>1 DEF MayHold, Cut
  <2>6. QED
    BY <2>1, <2>3, <2>4, <2>5 DEF CarriedIsOwed
<1>5. CASE BrokerStops
  BY <1>5 DEF BrokerStops, Idle
<1>6. ASSUME NEW b \in Actor, HandleStop(b) \/ LeavingStep(b)
      PROVE  broker'.n \in owed'[a]
  BY <1>2, <1>6, Closing
<1>7. ASSUME NEW b \in Actor, Restart(b)
      PROVE  broker'.n \in owed'[a]
  <2>1. UNCHANGED <<bq, subs, broker>> /\ 1 \in 1..(Len(bq) + 1)
    BY <1>1, <1>7 DEF Restart
  <2>2. a # b
    BY <1>7, <2>1, NoneOfTheNext
  <2>3. a \in Actor
    BY <2>1 DEF Typed, BrokerTyped
  <2>4. life'[a] = life[a] /\ a \notin closed /\ owed'[a] = owed[a]
    BY <1>1, <1>7, <2>2, <2>3 DEF Restart, Typed, QueueTyped
  <2>5. QED
    BY <1>2, <2>1, <2>4
<1>8. ASSUME NEW b \in Actor, FanOut(b)
      PROVE  broker'.n \in owed'[a]
  <2>1. broker.at = "fanning" /\ UNCHANGED <<owed, subs, life, closed>>
    BY <1>8 DEF FanOut, queue
  <2>2. broker' = [broker EXCEPT !.to = broker.to \ {b}]
    BY <1>8 DEF FanOut, FanOutTo, Idle
  <2>3. broker'.n = broker.n /\ broker'.to \subseteq broker.to
    BY <2>2 DEF Typed, BrokerTyped
  <2>4. QED
    BY <1>2, <2>1, <2>3
<1>9. CASE UNCHANGED <<broker, subs, life, closed, owed>>
  BY <1>2, <1>9
<1>10. QED
  BY Steps, Unnoticed, <1>3, <1>4, <1>5, <1>6, <1>7, <1>8, <1>9 DEF InboxStep, queue

(* What a step does to the inbox of one actor.                             *)
InboxMoves(a) ==
    \/ inbox'[a] = inbox[a]
    \/ inbox'[a] = <<>>
    \/ inbox[a] # <<>> /\ inbox'[a] = Tail(inbox[a])
    \/ inbox'[a] = Append(inbox[a], StopSignal)
    \/ /\ FanOut(a) /\ ~FanOutStopped(a) /\ inbox'[a] = Append(inbox[a], broker.n)

LEMMA InboxesMove ==
    ASSUME Typed, Next, NEW a \in Actor
    PROVE  InboxMoves(a)
<1>1. inbox \in [Actor -> Seq(0..MaxBroadcasts)]
  BY DEF Typed, ActorsTyped, InboxesTyped
<1>2. ASSUME NEW b \in Actor, InboxStep(b) \/ LeavingStep(b)
      PROVE  InboxMoves(a)
  BY <1>1, <1>2 DEF InboxStep, Handle, HandleStop, FanOut, StopOne, StopRoot, SendStop, LeavingStep,
       Drained, Fails, ForcedOut, Leaving, InboxMoves
<1>3. CASE UNCHANGED inbox
  BY <1>3 DEF InboxMoves
<1>4. BrokerTakes \/ BrokerStops \/ ShutdownStep \/ (\E b \in Actor : Restart(b) \/ Unsubscribe(b)) =>
        UNCHANGED inbox
  BY DEF BrokerTakes, BrokerStops, ShutdownStep, FlushFails, ShutdownExpires, ShutdownReturns,
       BrokerTimesOut, Restart, Unsubscribe, actors
<1>5. QED
  BY Steps, RequestLeaves, <1>2, <1>3, <1>4

(* A broadcast owed stays owed to the incarnation.                         *)
LEMMA OwedOnlyGrows ==
    ASSUME Typed, Next, NEW a \in Actor, ~Restart(a)
    PROVE  owed[a] \subseteq owed'[a] /\ seen[a] \subseteq seen'[a]
<1>1. owed \in [Actor -> SUBSET (1..MaxBroadcasts)] /\ seen \in [Actor -> SUBSET (1..MaxBroadcasts)]
  BY DEF Typed, QueueTyped, ActorsTyped
<1>2. CASE RequestStep
  BY <1>2, RequestLeaves, RequestSays DEF Says, Announces, Passes, Exits, Enters, queue
<1>3. ASSUME NEW b \in Actor, InboxStep(b)
      PROVE  owed[a] \subseteq owed'[a] /\ seen[a] \subseteq seen'[a]
  BY <1>1, <1>3 DEF InboxStep, Handle, HandleStop, FanOut, StopOne, StopRoot, SendStop, queue
<1>4. ASSUME NEW b \in Actor, Restart(b)
      PROVE  owed[a] \subseteq owed'[a] /\ seen[a] \subseteq seen'[a]
  <2>1. a # b
    BY <1>4
  <2>2. QED
    BY <1>1, <1>4, <2>1 DEF Restart
<1>5. CASE UNCHANGED <<owed, seen>>
  BY <1>5
<1>6. BrokerTakes \/ BrokerStops \/ ShutdownStep \/ (\E b \in Actor : LeavingStep(b) \/ Unsubscribe(b)) =>
        UNCHANGED <<owed, seen>>
  BY DEF BrokerTakes, BrokerStops, ShutdownStep, FlushFails, ShutdownExpires, ShutdownReturns,
       BrokerTimesOut, LeavingStep, Drained, Fails, ForcedOut, Unsubscribe, actors, queue
<1>7. QED
  BY Steps, <1>2, <1>3, <1>4, <1>5, <1>6

LEMMA ReceivedStaysOwed ==
    ASSUME Typed, EndedAreQuiet, FannedIsOwed, ReceivedIsOwed, DeliveryWasAskedFor, Next
    PROVE  ReceivedIsOwed' /\ DeliveryWasAskedFor'
<1>1. /\ inbox \in [Actor -> Seq(0..MaxBroadcasts)] /\ MaxBroadcasts \in Nat
      /\ owed \in [Actor -> SUBSET (1..MaxBroadcasts)] /\ seen \in [Actor -> SUBSET (1..MaxBroadcasts)]
      /\ broker.n \in 0..MaxBroadcasts
  BY BroadcastsAssumption DEF Typed, QueueTyped, BrokerTyped, ActorsTyped, InboxesTyped
<1> SUFFICES ASSUME NEW a \in Actor
             PROVE  /\ \A i \in 1..Len(inbox'[a]) :
                         inbox'[a][i] # StopSignal => inbox'[a][i] \in owed'[a]
                    /\ seen'[a] \subseteq owed'[a]
  BY DEF ReceivedIsOwed, DeliveryWasAskedFor
<1>2. CASE Restart(a)
  <2>1. inbox' = inbox /\ owed'[a] = {} /\ seen'[a] = {} /\ inbox[a] = <<>>
    BY <1>1, <1>2 DEF Restart, EndedAreQuiet
  <2>2. QED
    BY <2>1
<1>3. CASE ~Restart(a)
  <2> DEFINE q == inbox[a]
             r == inbox'[a]
  <2>1. owed[a] \subseteq owed'[a]
    BY <1>3, OwedOnlyGrows
  <2>2. \A i \in 1..Len(q) : q[i] # StopSignal => q[i] \in owed'[a]
    BY <2>1 DEF ReceivedIsOwed
  <2>3. q \in Seq(0..MaxBroadcasts)
    BY <1>1
  <2>4. ASSUME NEW n \in 0..MaxBroadcasts, r = Append(q, n), n # StopSignal => n \in owed'[a]
        PROVE  \A i \in 1..Len(r) : r[i] # StopSignal => r[i] \in owed'[a]
    <3> HIDE DEF q, r
    <3>1. /\ Len(r) = Len(q) + 1 /\ r[Len(q) + 1] = n /\ Len(q) \in Nat
          /\ \A i \in 1..Len(q) : r[i] = q[i]
      BY <2>3, <2>4, Appended
    <3>2. \A i \in 1..Len(r) : i \in 1..Len(q) \/ i = Len(q) + 1
      BY <3>1
    <3>3. QED
      BY <2>2, <2>4, <3>1, <3>2
  <2>5. ASSUME q # <<>>, r = Tail(q)
        PROVE  \A i \in 1..Len(r) : r[i] # StopSignal => r[i] \in owed'[a]
    <3> HIDE DEF q, r
    <3>1. Len(r) = Len(q) - 1 /\ Len(q) \in Nat /\ \A i \in 1..Len(r) : r[i] = q[i + 1]
      BY <2>3, <2>5, Tailed
    <3>2. \A i \in 1..Len(r) : i + 1 \in 1..Len(q)
      BY <3>1
    <3>3. QED
      BY <2>2, <3>1, <3>2
  <2>6. ASSUME FanOut(a), ~FanOutStopped(a)
        PROVE  broker.n \in owed'[a]
    BY <2>1, <2>6 DEF FanOut, FanOutStopped, Open, FannedIsOwed
  <2>7. 0 \in 0..MaxBroadcasts
    BY <1>1
  <2>8. \A i \in 1..Len(r) : r[i] # StopSignal => r[i] \in owed'[a]
    <3>1. CASE r = q \/ r = <<>>
      BY <2>2, <3>1
    <3>2. CASE r = Append(q, StopSignal)
      BY <2>4, <2>7, <3>2 DEF StopSignal
    <3>3. QED
      BY <1>1, <2>4, <2>5, <2>6, <3>1, <3>2, InboxesMove DEF InboxMoves
  <2>9. seen'[a] \subseteq owed'[a]
    <3>1. ASSUME NEW b \in Actor, Handle(b)
          PROVE  seen'[a] \subseteq owed'[a]
      <4>1. CASE a = b
        <5>1. q # <<>> /\ Head(q) # StopSignal /\ seen'[a] = seen[a] \union {Head(q)}
          BY <1>1, <3>1, <4>1 DEF Handle
        <5>2. Head(q) = q[1] /\ 1 \in 1..Len(q)
          BY <2>3, <5>1
        <5>3. Head(q) \in owed'[a]
          BY <2>2, <5>1, <5>2
        <5>4. QED
          BY <2>1, <5>1, <5>3 DEF DeliveryWasAskedFor
      <4>2. CASE a # b
        BY <1>1, <2>1, <3>1, <4>2 DEF Handle, DeliveryWasAskedFor
      <4>3. QED
        BY <4>1, <4>2
    <3>2. CASE seen'[a] = seen[a]
      BY <2>1, <3>2 DEF DeliveryWasAskedFor
    <3>3. ASSUME NEW b \in Actor, Restart(b)
          PROVE  seen'[a] = seen[a]
      <4>1. a # b
        BY <1>3, <3>3
      <4>2. QED
        BY <1>1, <3>3, <4>1 DEF Restart
    <3>4. BrokerTakes \/ BrokerStops \/ ShutdownStep
          \/ (\E b \in Actor : \/ LeavingStep(b) \/ Unsubscribe(b) \/ HandleStop(b) \/ FanOut(b)
                               \/ StopOne(b) \/ StopRoot(b)) =>
            UNCHANGED seen
      BY DEF BrokerTakes, BrokerStops, ShutdownStep, FlushFails, ShutdownExpires, ShutdownReturns,
           BrokerTimesOut, LeavingStep, Drained, Fails, ForcedOut, Unsubscribe, HandleStop, FanOut,
           StopOne, StopRoot, SendStop, actors
    <3>5. QED
      BY Steps, RequestLeaves, <3>1, <3>2, <3>3, <3>4 DEF InboxStep
  <2>10. QED
    BY <2>8, <2>9
<1>4. QED
  BY <1>2, <1>3

LEMMA DeliveryNext ==
    ASSUME DeliveryInv, [Next]_vars
    PROVE  DeliveryInv'
<1>1. CASE Next
  BY <1>1, StaysTyped, AsksStayPassed, EndedStayQuiet, HoldersStaySubscribed, CarriedStaysOwed,
     FannedStaysOwed, ReceivedStaysOwed DEF DeliveryInv
<1>2. CASE UNCHANGED vars
  BY <1>2 DEF vars, queue, actors, shutdown, DeliveryInv, Typed, QueueTyped, BrokerTyped,
       ActorsTyped, InboxesTyped, ShutdownTyped, AsksPass, EndedAreQuiet, HolderSubscribed,
       CarriedIsOwed, FannedIsOwed, ReceivedIsOwed, DeliveryWasAskedFor
<1>3. QED
  BY <1>1, <1>2

LEMMA DeliveryInit ==
    ASSUME Init
    PROVE  DeliveryInv
<1>1. Typed
  BY InitIsTyped
<1>2. bq = <<>> /\ Len(bq) = 0 /\ subs = [a \in Actor |-> 0] /\ life = [a \in Actor |-> 1]
  BY DEF Init
<1>3. /\ AsksPass /\ EndedAreQuiet /\ CarriedIsOwed /\ FannedIsOwed
      /\ ReceivedIsOwed /\ DeliveryWasAskedFor
  BY <1>2 DEF Init, Idle, AsksPass, EndedAreQuiet, CarriedIsOwed, FannedIsOwed, ReceivedIsOwed,
       DeliveryWasAskedFor
<1>4. HolderSubscribed
  BY <1>2 DEF HolderSubscribed, MayHold
<1>5. QED
  BY <1>1, <1>3, <1>4 DEF DeliveryInv

(* What is queued, carried or handled was asked for, in every state.       *)
LEMMA DeliveryInvHolds == Spec => []DeliveryInv
BY DeliveryInit, DeliveryNext, PTL DEF Spec

(* A broadcast is only handled by an incarnation that was subscribed when  *)
(* it was queued: not after its unsubscription, not from before its        *)
(* subscription, and none of its predecessor's, whoever still uses a       *)
(* handle of that one (broker.rs, the fan-out; actor_handle.rs).           *)
THEOREM NothingUnasked == Spec => []DeliveryWasAskedFor
<1>1. DeliveryInv => DeliveryWasAskedFor
  BY DEF DeliveryInv
<1>2. QED
  BY <1>1, DeliveryInvHolds, PTL

-----------------------------------------------------------------------------
(* The broker's table follows the actors, provided that the handle of an   *)
(* incarnation that ended is not used to subscribe.                        *)

(* The incarnation of a that the broker may still hold once it caught up.  *)
Lasting(a) == IF place[a] = "down" THEN 0 ELSE life[a]

EarlierAreRemoved ==
    ~Unreachable => \A a \in Actor : OthersCut(bq, subs[a], Lasting(a), a, Len(bq) + 1)

SubscriberHolds ==
    broker.at # "gone" =>
        \A a \in subscribed : WillHold(bq, subs[a], life[a], a, Len(bq) + 1)

TableInv == DeliveryInv /\ EarlierAreRemoved /\ SubscriberHolds

LEMMA RequestPlaces ==
    ASSUME Typed, RequestStep, NEW a \in Actor
    PROVE  /\ place[a] = "down" => place'[a] = "down"
           /\ place'[a] = "down" /\ place[a] # "down" =>
                Unreachable \/ bq' = Append(bq, RemoveAllSubscriptions(a))
<1>1. place \in [Actor -> {"new", "running", "relaying", "leaving", "down"}]
  BY DEF Typed, ActorsTyped
<1>2. CASE \E b \in Actor : Leave(b)
  BY <1>1, <1>2 DEF Leave, Removed, QueueRequest
<1>3. ASSUME ~(\E b \in Actor : Leave(b))
      PROVE  place'[a] = "down" <=> place[a] = "down"
  BY <1>1, <1>3 DEF RequestStep, Publish, AskFlush, StopBroker, Starts, SpawnedRemoval, Relay,
       SubscribeFor, actors
<1>4. QED
  BY <1>2, <1>3

LEMMA EarlierStayRemoved ==
    ASSUME ~Stale, Typed, EarlierAreRemoved, Next
    PROVE  EarlierAreRemoved'
<1>1. /\ bq \in Seq(Request) /\ life \in [Actor -> 1..MaxLives] /\ subs \in [Actor -> 0..MaxLives]
      /\ place \in [Actor -> {"new", "running", "relaying", "leaving", "down"}]
      /\ MaxLives \in Nat
  BY BroadcastsAssumption DEF Typed, QueueTyped, BrokerTyped, ActorsTyped
<1> SUFFICES ASSUME ~Unreachable', NEW a \in Actor
             PROVE  OthersCut(bq', subs'[a], Lasting(a)', a, Len(bq') + 1)
  BY DEF EarlierAreRemoved
<1>2. ~Unreachable => OthersCut(bq, subs[a], Lasting(a), a, Len(bq) + 1)
  BY DEF EarlierAreRemoved
<1>3. CASE RequestStep
  <2>1. UNCHANGED <<broker, draining, subs, life>> /\ ~Unreachable
    BY <1>3, RequestLeaves DEF Unreachable
  <2>2. PICK m : Requested(m) /\ Says(m)
    BY <1>3, <2>1, RequestSays
  <2>3. m \in Request /\ bq' = Append(bq, m) /\ Len(bq') + 1 = Len(bq) + 2
    BY <1>1, <2>2 DEF Requested
  <2>4. CASE place'[a] = "down" /\ place[a] # "down"
    <3>1. bq' = Append(bq, RemoveAllSubscriptions(a))
      BY <1>3, <2>1, <2>4, RequestPlaces
    <3>2. RemoveAllSubscriptions(a) \in Request /\ Removes(RemoveAllSubscriptions(a), a)
      BY RequestsMade DEF Removes
    <3> HIDE DEF Removes
    <3>3. \A x : OthersCut(bq', subs[a], x, a, Len(bq) + 2)
      BY ONLY <1>1, <3>1, <3>2, HoldEnd
    <3>4. QED
      BY <2>1, <2>3, <3>3
  <2>5. CASE place'[a] = "down" <=> place[a] = "down"
    <3>1. Lasting(a)' = Lasting(a)
      BY <2>1, <2>5 DEF Lasting
    <3>2. (\A y \in 1..MaxLives : Subscribes(m, a, y) => y = Lasting(a)) \/ Removes(m, a)
      BY <2>2, <2>5 DEF Says, Announces, Passes, Exits, Enters, Subscribes, Removes, Carries, Lasting
    <3>3. OthersCut(bq', subs[a], Lasting(a), a, Len(bq) + 2)
      BY <1>1, <1>2, <2>1, <2>3, <3>2, HoldEnd
    <3>4. QED
      BY <2>1, <2>3, <3>1, <3>3
  <2>6. QED
    BY <1>3, <2>4, <2>5, RequestPlaces
<1>4. CASE BrokerTakes
  <2>1. /\ bq # <<>> /\ bq' = Tail(bq) /\ UNCHANGED <<life, place>>
        /\ subs'[a] = Entry(bq[1], a, subs[a]) /\ ~Unreachable
    <3>1. draining => draining'
      BY <1>4, TakeLeaves DEF TakeFlush
    <3>2. broker.at = "idle"
      BY <1>4, TakeLeaves
    <3>3. QED
      BY <1>4, <3>1, <3>2, TakeLeaves DEF actors, Unreachable
  <2>2. Len(bq') + 1 = Len(bq) /\ Len(bq) \in 1..Len(bq)
    BY <1>1, <2>1
  <2>3. Lasting(a)' = Lasting(a) /\ Lasting(a) \in Nat /\ subs[a] \in Nat
    BY <1>1, <2>1 DEF Lasting
  <2>4. OthersCut(bq, subs[a], Lasting(a), a, Len(bq) + 1)
    BY <1>2, <2>1
  <2>5. OthersCut(bq', subs'[a], Lasting(a), a, Len(bq))
    BY <1>1, <2>1, <2>2, <2>3, <2>4, OthersTail
  <2>6. QED
    BY <2>2, <2>3, <2>5
<1>5. CASE BrokerStops
  BY <1>5 DEF BrokerStops, Idle, Unreachable
<1>6. CASE /\ UNCHANGED <<bq, subs>> /\ Lasting(a)' = Lasting(a) /\ ~Unreachable
  BY <1>2, <1>6
<1>7. ASSUME NEW b \in Actor, Restart(b)
      PROVE  OthersCut(bq', subs'[a], Lasting(a)', a, Len(bq') + 1)
  <2>1. UNCHANGED <<bq, subs, broker, draining>> /\ ~Unreachable
    BY <1>7 DEF Restart, Unreachable
  <2>2. CASE a = b
    <3>1. Lasting(a) = 0
      BY <1>7, <2>2 DEF Restart, Lasting
    <3>2. \A y \in 1..MaxLives : y # 0
      BY <1>1
    <3>3. QED
      BY <1>2, <2>1, <3>1, <3>2 DEF OthersCut
  <2>3. CASE a # b
    <3>1. Lasting(a)' = Lasting(a)
      BY <1>1, <1>7, <2>3 DEF Restart, Lasting
    <3>2. QED
      BY <1>2, <2>1, <3>1
  <2>4. QED
    BY <2>2, <2>3
<1>8. ASSUME NEW b \in Actor, InboxStep(b) \/ LeavingStep(b) \/ Unsubscribe(b)
      PROVE  UNCHANGED <<bq, subs>> /\ Lasting(a)' = Lasting(a) /\ ~Unreachable
  <2>1. UNCHANGED <<bq, subs, life, draining>> /\ (broker.at = "gone" => broker'.at = "gone")
    BY <1>8 DEF InboxStep, Handle, HandleStop, FanOut, StopOne, StopRoot, SendStop, LeavingStep,
         Drained, Fails, ForcedOut, Unsubscribe, queue, actors
  <2>2. place'[a] = "down" <=> place[a] = "down"
    BY <1>1, <1>8 DEF InboxStep, Handle, HandleStop, FanOut, StopOne, StopRoot, SendStop, LeavingStep,
         Drained, Fails, ForcedOut, Leaving, Unsubscribe, actors
  <2>3. QED
    BY <2>1, <2>2 DEF Lasting, Unreachable
<1>9. ShutdownStep => UNCHANGED <<bq, subs>> /\ Lasting(a)' = Lasting(a) /\ ~Unreachable
  BY DEF ShutdownStep, FlushFails, ShutdownExpires, ShutdownReturns, BrokerTimesOut, queue, actors,
       Lasting, Unreachable
<1>10. QED
  BY Steps, <1>3, <1>4, <1>5, <1>6, <1>7, <1>8, <1>9

LEMMA SubscribersStayHeld ==
    ASSUME ~Stale, Typed, EndedAreQuiet, EarlierAreRemoved, SubscriberHolds, Next
    PROVE  SubscriberHolds'
<1>1. /\ bq \in Seq(Request) /\ life \in [Actor -> 1..MaxLives] /\ subs \in [Actor -> 0..MaxLives]
      /\ MaxLives \in Nat
      /\ place \in [Actor -> {"new", "running", "relaying", "leaving", "down"}]
      /\ subscribed \in SUBSET Actor
  BY BroadcastsAssumption DEF Typed, QueueTyped, BrokerTyped, ActorsTyped
<1> SUFFICES ASSUME broker'.at # "gone", NEW a \in subscribed'
             PROVE  WillHold(bq', subs'[a], life'[a], a, Len(bq') + 1)
  BY DEF SubscriberHolds
<1> a \in Actor
  BY QueueStaysTyped DEF QueueTyped
<1>2. ASSUME a \in subscribed, broker.at # "gone"
      PROVE  WillHold(bq, subs[a], life[a], a, Len(bq) + 1)
  BY <1>2 DEF SubscriberHolds
<1>3. CASE RequestStep
  <2>1. UNCHANGED <<broker, draining, subs, life>>
    BY <1>3, RequestLeaves
  <2>2. ASSUME NEW m, Requested(m), Says(m)
        PROVE  WillHold(bq', subs'[a], life'[a], a, Len(bq') + 1)
    <3>1. m \in Request /\ bq' = Append(bq, m) /\ Len(bq') + 1 = Len(bq) + 2 /\ ~Unreachable
      BY <1>1, <2>2 DEF Requested, Queued
    <3>2. CASE a \in subscribed /\ ~Removes(m, a)
      <4>1. WillHold(bq, subs[a], life[a], a, Len(bq) + 1)
        BY <1>2, <2>1, <3>2
      <4>2. WillHold(bq', subs[a], life[a], a, Len(bq) + 2)
        BY <1>1, <3>1, <3>2, <4>1, HoldEnd
      <4>3. QED
        BY <2>1, <3>1, <4>2
    <3>3. CASE Subscribes(m, a, life[a]) /\ place'[a] # "down"
      <4>1. Lasting(a) = life[a]
        BY <1>3, <3>3, RequestPlaces DEF Lasting
      <4>2. OthersCut(bq, subs[a], life[a], a, Len(bq) + 1)
        BY <3>1, <4>1 DEF EarlierAreRemoved
      <4>3. WillHold(bq', subs[a], life[a], a, Len(bq) + 2)
        BY <1>1, <3>1, <3>3, <4>2, HoldEnd
      <4>4. QED
        BY <2>1, <3>1, <4>3
    <3>4. a \in subscribed /\ place[a] \in {"leaving", "down"} => FALSE
      BY DEF EndedAreQuiet
    <3>5. QED
      BY <2>2, <3>2, <3>3, <3>4 DEF Says, Announces, Passes, Exits, Enters, Subscribes, Removes, Carries
  <2>3. QED
    BY <1>2, <1>3, <2>1, <2>2, RequestSays DEF queue
<1>4. CASE BrokerTakes
  <2>1. /\ broker.at # "gone" /\ bq # <<>> /\ bq' = Tail(bq) /\ UNCHANGED <<life, subscribed>>
        /\ subs'[a] = Entry(bq[1], a, subs[a])
    BY <1>4, TakeLeaves DEF actors
  <2>2. Len(bq') + 1 = Len(bq) /\ Len(bq) \in 1..Len(bq)
    BY <1>1, <2>1
  <2>3. life[a] \in Nat \ {0} /\ subs[a] \in Nat
    BY <1>1
  <2>4. WillHold(bq, subs[a], life[a], a, Len(bq) + 1)
    BY <1>2, <2>1
  <2>5. WillHold(bq', subs'[a], life[a], a, Len(bq))
    BY <1>1, <2>1, <2>2, <2>3, <2>4, HoldTail
  <2>6. QED
    BY <2>1, <2>2, <2>5
<1>5. CASE BrokerStops
  BY <1>5 DEF BrokerStops, Idle
<1>6. ASSUME NEW b \in Actor, HandleStop(b) \/ LeavingStep(b)
      PROVE  WillHold(bq', subs'[a], life'[a], a, Len(bq') + 1)
  BY <1>2, <1>6, Closing
<1>7. ASSUME NEW b \in Actor, Restart(b)
      PROVE  WillHold(bq', subs'[a], life'[a], a, Len(bq') + 1)
  <2>1. UNCHANGED <<bq, subs, broker, subscribed>> /\ b \notin subscribed
    BY <1>7 DEF Restart, EndedAreQuiet
  <2>2. life'[a] = life[a]
    BY <1>1, <1>7, <2>1 DEF Restart
  <2>3. QED
    BY <1>2, <2>1, <2>2
<1>8. ASSUME NEW b \in Actor, FanOut(b)
      PROVE  UNCHANGED <<bq, subs, life, subscribed>> /\ broker.at # "gone"
  BY <1>8 DEF FanOut, queue
<1>9. CASE UNCHANGED <<bq, subs, life, subscribed>> /\ broker.at # "gone"
  BY <1>2, <1>9
<1>10. QED
  BY Steps, Unnoticed, <1>3, <1>4, <1>5, <1>6, <1>7, <1>8, <1>9 DEF InboxStep, queue

LEMMA TableNext ==
    ASSUME ~Stale, TableInv, [Next]_vars
    PROVE  TableInv'
<1>1. DeliveryInv'
  BY DeliveryNext DEF TableInv
<1>2. CASE Next
  BY <1>1, <1>2, EarlierStayRemoved, SubscribersStayHeld DEF TableInv, DeliveryInv
<1>3. CASE UNCHANGED vars
  <2>1. UNCHANGED <<bq, subs, life, place, broker, draining, subscribed>>
    BY <1>3 DEF vars, queue, actors
  <2>2. EarlierAreRemoved' /\ SubscriberHolds'
    BY <2>1 DEF TableInv, EarlierAreRemoved, SubscriberHolds, Lasting, Unreachable
  <2>3. QED
    BY <1>1, <2>2 DEF TableInv
<1>4. QED
  BY <1>2, <1>3

LEMMA TableInit ==
    ASSUME Init
    PROVE  TableInv
<1>1. bq = <<>> /\ Len(bq) = 0 /\ subs = [a \in Actor |-> 0] /\ subscribed = {}
  BY DEF Init
<1>2. EarlierAreRemoved /\ SubscriberHolds
  BY <1>1 DEF EarlierAreRemoved, SubscriberHolds, OthersCut
<1>3. QED
  BY <1>2, DeliveryInit DEF TableInv

(* What the broker will hold once it caught up is what it holds if nothing *)
(* about the actor is left in its inbox.                                   *)
LEMMA TableIsConsistent ==
    ASSUME TableInv
    PROVE  BrokerIsConsistent
<1>1. Typed /\ EarlierAreRemoved /\ SubscriberHolds
  BY DEF TableInv, DeliveryInv
<1>2. bq \in Seq(Request) /\ Len(bq) \in Nat
  BY <1>1 DEF Typed, QueueTyped
<1>3. BroadcastsTypeOK
  <2>1. \A i \in DOMAIN bq : bq[i] \in Request
    BY <1>2
  <2>2. \A i \in DOMAIN bq :
          bq[i].do \in {"broadcast", "subscribe", "remove", "removeAll", "flush", "stop"}
    BY <2>1, RequestFields
  <2>3. QED
    BY <1>1, <2>2 DEF BroadcastsTypeOK, Typed, QueueTyped, BrokerTyped, ActorsTyped, InboxesTyped,
         ShutdownTyped
<1>4. ASSUME NEW a, Settled(a)
      PROVE  \A i \in 1..Len(bq) : ~Removes(bq[i], a) /\ \A x : ~Subscribes(bq[i], a, x)
  BY <1>2, <1>4 DEF Settled, Removes, Subscribes
<1>5. /\ \A i \in 1..((Len(bq) + 1) - 1) : i \in 1..Len(bq)
      /\ \A i \in (0 + 1)..((Len(bq) + 1) - 1) : i \in 1..Len(bq)
  BY <1>2
<1>6. SubscriberIsCurrent
  <2> SUFFICES ASSUME NEW a \in subscribed, Settled(a), broker.at # "gone"
               PROVE  subs[a] = life[a]
    BY DEF SubscriberIsCurrent
  <2>1. WillHold(bq, subs[a], life[a], a, Len(bq) + 1)
    BY <1>1 DEF SubscriberHolds
  <2>2. QED
    BY <1>4, <1>5, <2>1 DEF WillHold
<1>7. NoneLingers
  <2> SUFFICES ASSUME NEW a \in Actor, place[a] = "down", Settled(a), ~Unreachable
               PROVE  subs[a] = 0
    BY DEF NoneLingers
  <2>1. OthersCut(bq, subs[a], 0, a, Len(bq) + 1)
    BY <1>1 DEF EarlierAreRemoved, Lasting
  <2>2. QED
    BY <1>4, <1>5, <2>1 DEF OthersCut, Cut
<1>8. QED
  BY <1>3, <1>6, <1>7 DEF BrokerIsConsistent

(* As long as the handle of an incarnation that ended is not used to       *)
(* subscribe, the broker's table follows the actors: once the broker has   *)
(* caught up with the requests about an actor, it holds the running        *)
(* incarnation of one that subscribed, never its predecessor, and nothing  *)
(* of one that is down (broker.rs, subscriptions kept by identifier;       *)
(* started.rs, shutdown_cleanup).                                          *)
THEOREM TheTableFollows ==
    ASSUME ~Stale
    PROVE  Spec => []BrokerIsConsistent
<1>1. Init => TableInv
  BY TableInit
<1>2. TableInv /\ [Next]_vars => TableInv'
  BY TableNext
<1>3. TableInv => BrokerIsConsistent
  BY TableIsConsistent
<1>4. QED
  BY <1>1, <1>2, <1>3, PTL DEF Spec

-----------------------------------------------------------------------------
(* Where a broadcast owed to an open actor is.                             *)
Received(a, n) == n \in seen[a] \/ Contains(inbox[a], n)
Pending(n) == \E k \in 1..Len(bq) : Carries(bq[k], n)

NumbersPass ==
    /\ \A k \in 1..Len(bq), n \in 1..MaxBroadcasts : Carries(bq[k], n) => n <= sent
    /\ \A a \in Actor : \A n \in owed[a] : n <= sent
    /\ broker.n <= sent

OwedIsHeld ==
    \A k \in 1..Len(bq), a \in Actor : \A n \in owed[a] :
        Carries(bq[k], n) => WillHold(bq, subs[a], life[a], a, k)

FannedIsHeld ==
    broker.at = "fanning" =>
        \A a \in broker.to \ closed : broker.n \in owed[a] => subs[a] = life[a]

OwedIsSomewhere ==
    ~cancelled =>
        \A a \in Actor \ closed : \A n \in owed[a] :
            Received(a, n) \/ (broker.n = n /\ a \in broker.to) \/ Pending(n)

(* What was queued before the flush comes before it.                       *)
FlushComesLast ==
    /\ ahead <= sent
    /\ \A f \in 1..Len(bq) : bq[f].do = "flush" =>
         /\ sd # "no"
         /\ sd = "asked" => \A k \in (f + 1)..Len(bq), n \in 1..MaxBroadcasts :
                                Carries(bq[k], n) => n > ahead

ShutdownInOrder ==
    /\ sd \in {"waiting", "done"} => cancelled \/ \A a \in Actor : place[a] = "down"
    /\ cancelled \/ sd \in {"no", "asked"} => promised = {}
    /\ cancelled => sd \notin {"no", "asked"}

PromisedHasArrived ==
    \A a \in promised : \A n \in owed[a] : n <= ahead => Received(a, n)

FlushInv ==
    /\ TableInv /\ NumbersPass /\ OwedIsHeld /\ FannedIsHeld /\ OwedIsSomewhere
    /\ FlushComesLast /\ ShutdownInOrder /\ PromisedHasArrived

LEMMA ContainsAppended ==
    ASSUME NEW S, NEW q \in Seq(S), NEW m \in S, NEW r, r = Append(q, m)
    PROVE  Contains(r, m) /\ \A n : Contains(q, n) => Contains(r, n)
<1>1. /\ Len(r) = Len(q) + 1 /\ Len(q) \in Nat /\ r[Len(q) + 1] = m
      /\ \A i \in 1..Len(q) : r[i] = q[i]
  BY Appended
<1>2. Len(q) + 1 \in 1..Len(r) /\ \A i \in 1..Len(q) : i \in 1..Len(r)
  BY <1>1
<1>3. QED
  BY <1>1, <1>2 DEF Contains

LEMMA ContainsTailed ==
    ASSUME NEW S, NEW q \in Seq(S), q # <<>>, NEW r, r = Tail(q), NEW n, Contains(q, n)
    PROVE  n = Head(q) \/ Contains(r, n)
<1>1. /\ Len(r) = Len(q) - 1 /\ Len(q) \in Nat /\ Head(q) = q[1]
      /\ \A i \in 1..Len(r) : r[i] = q[i + 1]
  BY Tailed
<1>2. PICK i \in 1..Len(q) : q[i] = n
  BY DEF Contains
<1>3. CASE i = 1
  BY <1>1, <1>2, <1>3
<1>4. CASE i # 1
  <2>1. i - 1 \in 1..Len(r) /\ r[i - 1] = q[(i - 1) + 1] /\ (i - 1) + 1 = i
    BY <1>1, <1>4
  <2>2. QED
    BY <1>2, <2>1 DEF Contains
<1>5. QED
  BY <1>3, <1>4

(* Only a failure or the cancellation loses what an actor received.        *)
LEMMA ReceivedStays ==
    ASSUME Typed, Next, NEW a \in Actor, NEW n \in 1..MaxBroadcasts, Received(a, n),
           ~Restart(a), ~Fails(a), ~ForcedOut(a)
    PROVE  Received(a, n)'
<1>1. /\ inbox \in [Actor -> Seq(0..MaxBroadcasts)] /\ MaxBroadcasts \in Nat
      /\ seen \in [Actor -> SUBSET (1..MaxBroadcasts)] /\ broker.n \in 0..MaxBroadcasts
  BY BroadcastsAssumption DEF Typed, BrokerTyped, ActorsTyped, InboxesTyped
<1>2. seen[a] \subseteq seen'[a]
  BY OwedOnlyGrows
<1> DEFINE q == inbox[a]
           r == inbox'[a]
<1>3. q \in Seq(0..MaxBroadcasts) /\ 0 \in 0..MaxBroadcasts /\ n # StopSignal
  BY <1>1 DEF StopSignal
<1>4. CASE r = q
  BY <1>2, <1>4 DEF Received
<1>5. ASSUME NEW m \in 0..MaxBroadcasts, r = Append(q, m)
      PROVE  Received(a, n)'
  <2>1. Contains(q, n) => Contains(r, n)
    <3> HIDE DEF q, r
    <3>1. QED
      BY ONLY <1>3, <1>5, ContainsAppended
  <2>2. QED
    BY <1>2, <2>1 DEF Received
<1>6. ASSUME q # <<>>, r = Tail(q), Head(q) = StopSignal \/ Head(q) \in seen'[a]
      PROVE  Received(a, n)'
  <2>1. Contains(q, n) => n = Head(q) \/ Contains(r, n)
    <3> HIDE DEF q, r
    <3>1. QED
      BY <1>3, <1>6, ContainsTailed
  <2>2. QED
    BY <1>2, <1>3, <1>6, <2>1 DEF Received
<1>7. ASSUME Handle(a) \/ HandleStop(a)
      PROVE  Received(a, n)'
  BY <1>1, <1>6, <1>7 DEF Handle, HandleStop
<1>8. ASSUME FanOut(a) \/ StopOne(a) \/ StopRoot(a)
      PROVE  r = q \/ \E m \in 0..MaxBroadcasts : r = Append(q, m)
  BY <1>1, <1>3, <1>8 DEF FanOut, StopOne, StopRoot, SendStop, StopSignal
<1>9. CASE Drained(a)
  <2>1. q = <<>>
    BY <1>9 DEF Drained
  <2>2. QED
    BY <1>2, <2>1 DEF Received, Contains
<1>10. ASSUME NEW b \in Actor, b # a, InboxStep(b) \/ LeavingStep(b)
       PROVE  r = q
  BY <1>1, <1>10 DEF InboxStep, Handle, HandleStop, FanOut, StopOne, StopRoot, SendStop,
       LeavingStep, Drained, Fails, ForcedOut, Leaving
<1>11. BrokerTakes \/ BrokerStops \/ ShutdownStep \/ (\E b \in Actor : Restart(b) \/ Unsubscribe(b)) =>
         UNCHANGED inbox
  BY DEF BrokerTakes, BrokerStops, ShutdownStep, FlushFails, ShutdownExpires, ShutdownReturns,
       BrokerTimesOut, Restart, Unsubscribe, actors
<1>12. QED
  <2>1. RequestStep => r = q
    BY RequestLeaves
  <2>2. ASSUME InboxStep(a) \/ LeavingStep(a)
        PROVE  Received(a, n)'
    BY <1>4, <1>5, <1>7, <1>8, <1>9, <2>2 DEF InboxStep, LeavingStep
  <2>3. ASSUME NEW b \in Actor, InboxStep(b) \/ LeavingStep(b)
        PROVE  Received(a, n)'
    <3>1. b = a \/ b # a
      OBVIOUS
    <3>2. QED
      BY <1>4, <1>10, <2>2, <2>3, <3>1
  <2>4. QED
    BY Steps, <1>4, <1>11, <2>1, <2>3

LEMMA NumbersStayPassed ==
    ASSUME Typed, NumbersPass, Next
    PROVE  NumbersPass' /\ sent <= sent'
<1>1. /\ bq \in Seq(Request) /\ sent \in 0..MaxBroadcasts /\ MaxBroadcasts \in Nat
      /\ broker.n \in 0..MaxBroadcasts /\ owed \in [Actor -> SUBSET (1..MaxBroadcasts)]
  BY BroadcastsAssumption DEF Typed, QueueTyped, BrokerTyped
<1>2. CASE RequestStep
  <2>1. UNCHANGED broker
    BY <1>2, RequestLeaves
  <2>2. ASSUME NEW m, Requested(m), Says(m)
        PROVE  NumbersPass' /\ sent <= sent'
    <3>1. m \in Request /\ bq' = Append(bq, m)
      BY <2>2 DEF Requested
    <3>2. /\ Len(bq') = Len(bq) + 1 /\ Len(bq) \in Nat /\ bq'[Len(bq) + 1] = m
          /\ \A i \in 1..Len(bq) : bq'[i] = bq[i]
      BY <1>1, <3>1, Appended
    <3>3. \A i \in 1..Len(bq') : i \in 1..Len(bq) \/ i = Len(bq) + 1
      BY <3>2
    <3>4. sent' \in {sent, sent + 1}
      BY <2>2 DEF Says, Announces, Passes, Exits, Enters
    <3>5. \A n \in 1..MaxBroadcasts : Carries(m, n) => n <= sent'
      BY <1>1, <2>2 DEF Says, Announces, Passes, Exits, Enters, Carries, Removes, Subscribes
    <3>6. \A a \in Actor : \A n \in owed'[a] : n \in owed[a] \/ n = sent'
      BY <2>2 DEF Says, Announces, Passes, Exits, Enters
    <3>7. \A a \in Actor : \A n \in owed[a] : n \in Nat
      BY <1>1
    <3>8. \A n \in Nat : n <= sent => n <= sent'
      BY <1>1, <3>4
    <3>9. \A n \in 1..MaxBroadcasts : n \in Nat
      BY <1>1
    <3>10. \A k \in 1..Len(bq'), n \in 1..MaxBroadcasts : Carries(bq'[k], n) => n <= sent'
      BY <3>2, <3>3, <3>5, <3>8, <3>9 DEF NumbersPass
    <3>11. \A a \in Actor : \A n \in owed'[a] : n <= sent'
      BY <1>1, <3>4, <3>6, <3>7, <3>8 DEF NumbersPass
    <3>12. broker'.n <= sent' /\ sent <= sent'
      BY <1>1, <2>1, <3>4, <3>8 DEF NumbersPass
    <3>13. QED
      BY <3>10, <3>11, <3>12 DEF NumbersPass
  <2>3. QED
    BY <1>1, <1>2, <2>1, <2>2, RequestSays DEF queue, NumbersPass
<1>3. CASE BrokerTakes
  <2>1. bq # <<>> /\ bq' = Tail(bq) /\ UNCHANGED <<sent, owed>> /\ bq[1] \in Request
    BY <1>3, TakeLeaves
  <2>2. /\ Len(bq') = Len(bq) - 1 /\ Len(bq) \in Nat /\ Len(bq) >= 1
        /\ \A i \in 1..Len(bq') : bq'[i] = bq[i + 1]
    BY <1>1, <2>1, Tailed
  <2>3. 1 \in 1..Len(bq) /\ \A i \in 1..Len(bq') : i + 1 \in 1..Len(bq)
    BY <2>2
  <2>4. broker' \in {broker, Idle} \/ (/\ bq[1].do = "broadcast" /\ bq[1].n # OtherType
                                       /\ broker' = [at |-> "fanning", n |-> bq[1].n, to |-> Targets])
    BY <1>3, TakeLeaves DEF TakeFlush
  <2>5. broker'.n <= sent
    <3>1. CASE broker' = Idle
      BY <1>1, <3>1 DEF Idle
    <3>2. CASE bq[1].do = "broadcast" /\ bq[1].n # OtherType /\ broker'.n = bq[1].n
      <4>1. Carries(bq[1], bq[1].n) /\ bq[1].n \in 1..MaxBroadcasts
        BY <1>1, <2>1, <3>2, RequestFields DEF Carries, OtherType
      <4>2. QED
        BY <2>3, <3>2, <4>1 DEF NumbersPass
    <3>3. QED
      BY <2>4, <3>1, <3>2 DEF NumbersPass
  <2>6. QED
    BY <1>1, <2>1, <2>2, <2>3, <2>5 DEF NumbersPass
<1>4. CASE BrokerStops
  <2>1. UNCHANGED <<sent, owed>> /\ bq' = <<>> /\ broker'.n = 0
    BY <1>4 DEF BrokerStops, Idle
  <2>2. QED
    BY <1>1, <2>1 DEF NumbersPass
<1>5. ASSUME NEW b \in Actor, Restart(b)
      PROVE  NumbersPass' /\ sent <= sent'
  BY <1>1, <1>5 DEF Restart, NumbersPass
<1>6. ASSUME NEW b \in Actor, FanOut(b)
      PROVE  NumbersPass' /\ sent <= sent'
  <2>1. UNCHANGED <<bq, sent, owed>>
    BY <1>6 DEF FanOut, queue
  <2>2. broker' = Idle \/ broker' = [broker EXCEPT !.to = broker.to \ {b}]
    BY <1>6 DEF FanOut, FanOutTo
  <2>3. broker'.n <= sent
    BY <1>1, <2>2 DEF Idle, Typed, BrokerTyped, NumbersPass
  <2>4. QED
    BY <1>1, <2>1, <2>3 DEF NumbersPass
<1>7. CASE UNCHANGED <<bq, sent, owed, broker>>
  BY <1>1, <1>7 DEF NumbersPass
<1>8. QED
  BY Steps, Unnoticed, Closing, <1>2, <1>3, <1>4, <1>5, <1>6, <1>7 DEF InboxStep, queue

LEMMA OwedStaysHeld ==
    ASSUME Typed, SubscriberHolds, NumbersPass, OwedIsHeld, Next
    PROVE  OwedIsHeld'
<1>1. /\ bq \in Seq(Request) /\ life \in [Actor -> 1..MaxLives] /\ subs \in [Actor -> 0..MaxLives]
      /\ MaxLives \in Nat /\ MaxBroadcasts \in Nat /\ sent \in 0..MaxBroadcasts
      /\ owed \in [Actor -> SUBSET (1..MaxBroadcasts)]
  BY BroadcastsAssumption DEF Typed, QueueTyped, BrokerTyped, ActorsTyped
<1> SUFFICES ASSUME NEW k \in 1..Len(bq'), NEW a \in Actor, NEW n \in owed'[a], Carries(bq'[k], n)
             PROVE  WillHold(bq', subs'[a], life'[a], a, k)
  BY DEF OwedIsHeld
<1>2. ASSUME NEW l \in 1..Len(bq), n \in owed[a], Carries(bq[l], n)
      PROVE  WillHold(bq, subs[a], life[a], a, l)
  BY <1>2 DEF OwedIsHeld
<1>3. CASE RequestStep
  <2>1. UNCHANGED <<broker, subs, life>>
    BY <1>3, RequestLeaves
  <2>2. ASSUME NEW m, Requested(m), Says(m)
        PROVE  WillHold(bq', subs'[a], life'[a], a, k)
    <3>1. m \in Request /\ bq' = Append(bq, m) /\ broker.at # "gone"
      BY <2>2 DEF Requested, Queued, Unreachable
    <3>2. /\ Len(bq') = Len(bq) + 1 /\ bq'[Len(bq) + 1] = m /\ Len(bq) \in Nat
          /\ \A i \in 1..Len(bq) : bq'[i] = bq[i]
      BY <1>1, <3>1, Appended
    <3>3. k \in 1..(Len(bq) + 1)
      BY <3>2
    <3>4. n \in owed[a] \/ (n = sent + 1 /\ a \in subscribed)
      BY <2>2 DEF Says, Announces, Passes, Exits, Enters
    <3>5. n \in 1..MaxBroadcasts
      BY <1>1, <3>4, <2>2 DEF Says, Announces, Passes, Exits, Enters
    <3>6. ~(sent + 1 <= sent)
      BY <1>1
    <3>7. WillHold(bq, subs[a], life[a], a, k)
      <4>1. CASE k \in 1..Len(bq)
        <5>1. Carries(bq[k], n)
          BY <3>2, <4>1
        <5>2. n \in owed[a]
          BY <3>4, <3>5, <3>6, <4>1, <5>1 DEF NumbersPass
        <5>3. QED
          BY <1>2, <4>1, <5>1, <5>2
      <4>2. CASE k = Len(bq) + 1
        <5>1. Carries(m, n)
          BY <3>2, <4>2
        <5>2. a \in subscribed
          <6>1. n = sent + 1 /\ Announces(m)
            BY <2>2, <5>1 DEF Says, Announces, Passes, Exits, Enters, Carries, Removes, Subscribes
          <6>2. QED
            BY <3>4, <3>6, <6>1 DEF NumbersPass
        <5>3. QED
          BY <3>1, <4>2, <5>2 DEF SubscriberHolds
      <4>3. QED
        BY <3>2, <3>3, <4>1, <4>2
    <3>8. WillHold(bq', subs[a], life[a], a, k)
      BY <1>1, <3>1, <3>3, <3>7, HoldAppend
    <3>9. QED
      BY <2>1, <3>8
  <2>3. QED
    BY <1>2, <1>3, <2>1, <2>2, RequestSays DEF queue
<1>4. CASE BrokerTakes
  <2>1. /\ bq # <<>> /\ bq' = Tail(bq) /\ UNCHANGED <<life, owed>>
        /\ subs'[a] = Entry(bq[1], a, subs[a])
    BY <1>4, TakeLeaves DEF actors
  <2>2. bq'[k] = bq[k + 1] /\ k \in 1..Len(bq) /\ k + 1 \in 1..Len(bq)
    BY <1>1, <2>1, Tailed
  <2>3. life[a] \in Nat \ {0} /\ subs[a] \in Nat
    BY <1>1
  <2>4. WillHold(bq, subs[a], life[a], a, k + 1)
    BY <1>2, <2>1, <2>2
  <2>5. WillHold(bq', subs'[a], life[a], a, k)
    BY <1>1, <2>1, <2>2, <2>3, <2>4, HoldTail
  <2>6. QED
    BY <2>1, <2>5
<1>5. CASE BrokerStops
  BY <1>5 DEF BrokerStops
<1>6. ASSUME NEW b \in Actor, Restart(b)
      PROVE  WillHold(bq', subs'[a], life'[a], a, k)
  <2>1. UNCHANGED <<bq, subs>> /\ a # b
    BY <1>1, <1>6 DEF Restart
  <2>2. life'[a] = life[a] /\ owed'[a] = owed[a]
    BY <1>1, <1>6, <2>1 DEF Restart
  <2>3. QED
    BY <1>2, <2>1, <2>2
<1>7. ASSUME NEW b \in Actor, FanOut(b)
      PROVE  UNCHANGED <<bq, subs, life, owed>>
  BY <1>7 DEF FanOut, queue
<1>8. CASE UNCHANGED <<bq, subs, life, owed>>
  BY <1>2, <1>8
<1>9. QED
  BY Steps, Unnoticed, Closing, <1>3, <1>4, <1>5, <1>6, <1>7, <1>8 DEF InboxStep, queue

LEMMA FannedStaysHeld ==
    ASSUME Typed, NumbersPass, OwedIsHeld, FannedIsHeld, Next
    PROVE  FannedIsHeld'
<1>1. /\ bq \in Seq(Request) /\ life \in [Actor -> 1..MaxLives] /\ subs \in [Actor -> 0..MaxLives]
      /\ owed \in [Actor -> SUBSET (1..MaxBroadcasts)] /\ sent \in 0..MaxBroadcasts
      /\ MaxBroadcasts \in Nat /\ broker.n \in 0..MaxBroadcasts /\ broker.to \in SUBSET Actor
  BY BroadcastsAssumption DEF Typed, QueueTyped, BrokerTyped, ActorsTyped
<1> SUFFICES ASSUME broker'.at = "fanning", NEW a \in broker'.to, a \notin closed',
                    broker'.n \in owed'[a]
             PROVE  subs'[a] = life'[a]
  BY DEF FannedIsHeld
<1>2. ASSUME broker'.n = broker.n, broker.at = "fanning", a \in broker.to, a \notin closed,
             broker.n \in owed[a]
      PROVE  subs[a] = life[a]
  BY <1>2 DEF FannedIsHeld
<1>3. CASE RequestStep
  <2>1. UNCHANGED <<broker, subs, life, closed>> /\ a \in Actor
    BY <1>1, <1>3, RequestLeaves
  <2>2. ~(sent + 1 <= sent)
    BY <1>1
  <2>3. broker.n \in owed[a]
    BY <1>3, <2>1, <2>2, RequestSays DEF Says, Announces, Passes, Exits, Enters, queue, NumbersPass
  <2>4. QED
    BY <1>2, <2>1, <2>3
<1>4. CASE BrokerTakes
  <2>1. /\ bq[1].do = "broadcast" /\ bq[1].n # OtherType /\ broker'.n = bq[1].n
        /\ a \in Targets /\ UNCHANGED <<subs, life, owed>>
    <3>1. broker' # broker /\ broker' # Idle
      BY <1>4, TakeLeaves DEF Idle
    <3>2. /\ bq[1].do = "broadcast" /\ bq[1].n # OtherType /\ UNCHANGED subs
          /\ broker' = [at |-> "fanning", n |-> bq[1].n, to |-> Targets]
      BY <1>4, <3>1, TakeLeaves DEF TakeFlush
    <3>3. UNCHANGED <<life, owed>>
      BY <1>4, TakeLeaves DEF actors
    <3>4. QED
      BY <3>2, <3>3
  <2>2. 1 \in 1..Len(bq) /\ a \in Actor /\ Carries(bq[1], broker'.n)
    BY <1>1, <1>4, <2>1, TakeLeaves DEF Targets, Carries
  <2>3. WillHold(bq, subs[a], life[a], a, 1)
    BY <2>1, <2>2 DEF OwedIsHeld
  <2>4. QED
    BY <2>1, <2>3 DEF WillHold
<1>5. CASE BrokerStops
  BY <1>5 DEF BrokerStops, Idle
<1>6. ASSUME NEW b \in Actor, HandleStop(b) \/ LeavingStep(b)
      PROVE  subs'[a] = life'[a]
  BY <1>2, <1>6, Closing
<1>7. ASSUME NEW b \in Actor, Restart(b)
      PROVE  subs'[a] = life'[a]
  <2>1. UNCHANGED <<bq, subs, broker>> /\ a \in Actor
    BY <1>1, <1>7 DEF Restart
  <2>2. a # b
    BY <1>1, <1>7, <2>1 DEF Restart
  <2>3. life'[a] = life[a] /\ a \notin closed /\ owed'[a] = owed[a]
    BY <1>1, <1>7, <2>1, <2>2 DEF Restart
  <2>4. QED
    BY <1>2, <2>1, <2>3
<1>8. ASSUME NEW b \in Actor, FanOut(b)
      PROVE  subs'[a] = life'[a]
  <2>1. broker.at = "fanning" /\ UNCHANGED <<owed, subs, life, closed>>
    BY <1>8 DEF FanOut, queue
  <2>2. broker' = [broker EXCEPT !.to = broker.to \ {b}]
    BY <1>8 DEF FanOut, FanOutTo, Idle
  <2>3. broker'.n = broker.n /\ broker'.to \subseteq broker.to
    BY <2>2 DEF Typed, BrokerTyped
  <2>4. QED
    BY <1>2, <2>1, <2>3
<1>9. CASE UNCHANGED <<broker, subs, life, closed, owed>>
  BY <1>2, <1>9
<1>10. QED
  BY Steps, Unnoticed, <1>3, <1>4, <1>5, <1>6, <1>7, <1>8, <1>9 DEF InboxStep, queue

LEMMA NothingIsLost ==
    ASSUME Typed, OwedIsHeld, FannedIsHeld, OwedIsSomewhere, Next
    PROVE  OwedIsSomewhere'
<1>1. /\ bq \in Seq(Request) /\ life \in [Actor -> 1..MaxLives] /\ subs \in [Actor -> 0..MaxLives]
      /\ owed \in [Actor -> SUBSET (1..MaxBroadcasts)] /\ MaxBroadcasts \in Nat /\ MaxLives \in Nat
      /\ broker.n \in 0..MaxBroadcasts /\ broker.to \in SUBSET Actor
      /\ inbox \in [Actor -> Seq(0..MaxBroadcasts)]
      /\ broker \in [at : {"idle", "fanning", "gone"}, n : 0..MaxBroadcasts, to : SUBSET Actor]
      /\ broker.at # "fanning" => broker.to = {}
  BY BroadcastsAssumption DEF Typed, QueueTyped, BrokerTyped, ActorsTyped, InboxesTyped
<1> SUFFICES ASSUME ~cancelled', NEW a \in Actor, a \notin closed', NEW n \in owed'[a]
             PROVE  Received(a, n)' \/ (broker'.n = n /\ a \in broker'.to) \/ Pending(n)'
  BY DEF OwedIsSomewhere
<1> DEFINE Somewhere == Received(a, n) \/ (broker.n = n /\ a \in broker.to) \/ Pending(n)
<1>2. ~cancelled
  BY Steps DEF RequestStep, Publish, AskFlush, StopBroker, Starts, SpawnedRemoval, Relay, Leave,
       SubscribeFor, BrokerTakes, TakeBroadcast, TakeSubscribe, TakeRemoval, TakeFlush, TakeStop,
       BrokerStops, ShutdownStep, FlushFails, ShutdownExpires, ShutdownReturns, BrokerTimesOut,
       InboxStep, Handle, HandleStop, FanOut, StopOne, StopRoot, SendStop, LeavingStep, Drained,
       Fails, ForcedOut, Restart, Unsubscribe, shutdown
<1>3. a \notin closed /\ n \in owed[a] => Somewhere
  BY <1>2 DEF OwedIsSomewhere
<1>4. n \in 1..MaxBroadcasts
  BY QueueStaysTyped DEF QueueTyped
<1>5. ASSUME ~Restart(a), ~LeavingStep(a), Received(a, n)
      PROVE  Received(a, n)'
  BY <1>4, <1>5, ReceivedStays DEF LeavingStep
<1>6. CASE RequestStep
  <2>1. UNCHANGED <<broker, seen, inbox, closed>>
    BY <1>6, RequestLeaves
  <2>2. Received(a, n)' <=> Received(a, n)
    BY <2>1 DEF Received
  <2>3. ASSUME NEW m, Requested(m), Says(m)
        PROVE  (n \in owed[a] /\ (Pending(n) => Pending(n)')) \/ Pending(n)'
    <3>1. m \in Request /\ bq' = Append(bq, m)
      BY <2>3 DEF Requested
    <3>2. /\ Len(bq') = Len(bq) + 1 /\ Len(bq) \in Nat /\ bq'[Len(bq) + 1] = m
          /\ \A i \in 1..Len(bq) : bq'[i] = bq[i]
      BY <1>1, <3>1, Appended
    <3>3. Len(bq) + 1 \in 1..Len(bq') /\ \A i \in 1..Len(bq) : i \in 1..Len(bq')
      BY <3>2
    <3>4. n \in owed[a] \/ Carries(m, n)
      BY <2>3 DEF Says, Announces, Passes, Exits, Enters
    <3>5. QED
      BY <3>2, <3>3, <3>4 DEF Pending
  <2>4. UNCHANGED queue => n \in owed[a] /\ (Pending(n) => Pending(n)')
    BY DEF queue, Pending
  <2>5. QED
    BY <1>3, <1>6, <2>1, <2>2, <2>3, <2>4, RequestSays
<1>7. CASE BrokerTakes
  <2>1. /\ broker.at = "idle" /\ bq # <<>> /\ bq' = Tail(bq) /\ UNCHANGED <<owed, inbox, seen, closed>>
        /\ bq[1] \in Request
    BY <1>7, TakeLeaves DEF actors
  <2>2. /\ Len(bq') = Len(bq) - 1 /\ Len(bq) \in Nat /\ Len(bq) >= 1
        /\ \A i \in 1..Len(bq') : bq'[i] = bq[i + 1]
    BY <1>1, <2>1, Tailed
  <2>3. Received(a, n) => Received(a, n)'
    BY <2>1 DEF Received
  <2>4. ASSUME NEW k \in 1..Len(bq), Carries(bq[k], n)
        PROVE  (broker'.n = n /\ a \in broker'.to) \/ Pending(n)'
    <3>1. CASE k = 1
      <4>1. bq[1].do = "broadcast" /\ bq[1].n = n /\ n # OtherType
        BY <2>4, <3>1 DEF Carries
      <4>2. WillHold(bq, subs[a], life[a], a, 1)
        BY <2>1, <2>4, <3>1 DEF OwedIsHeld
      <4>3. subs[a] = life[a] /\ life[a] # 0
        BY <1>1, <4>2 DEF WillHold
      <4>4. a \in Targets
        BY <4>3 DEF Targets
      <4>5. broker' = [at |-> "fanning", n |-> bq[1].n, to |-> Targets]
        BY <1>7, <4>1, <4>4, TakeLeaves DEF TakeFlush
      <4>6. QED
        BY <4>1, <4>4, <4>5
    <3>2. CASE k # 1
      <4>1. k - 1 \in 1..Len(bq') /\ (k - 1) + 1 = k
        BY <2>2, <3>2
      <4>2. bq'[k - 1] = bq[k]
        BY <2>2, <4>1
      <4>3. QED
        BY <2>4, <4>1, <4>2 DEF Pending
    <3>3. QED
      BY <3>1, <3>2
  <2>5. QED
    BY <1>1, <1>3, <2>1, <2>3, <2>4 DEF Pending
<1>8. CASE BrokerStops
  <2>1. broker.at = "idle" /\ bq = <<>> /\ bq' = <<>> /\ UNCHANGED <<owed, seen, inbox, closed>>
    BY <1>2, <1>8 DEF BrokerStops, actors
  <2>2. QED
    BY <1>1, <1>3, <2>1 DEF Received, Pending
<1>9. CASE ShutdownStep
  <2>1. UNCHANGED <<bq, owed, broker, inbox, seen, closed>>
    BY <1>9 DEF ShutdownStep, FlushFails, ShutdownExpires, ShutdownReturns, BrokerTimesOut, queue, actors
  <2>2. QED
    BY <1>3, <2>1 DEF Received, Pending
<1>10. ASSUME NEW b \in Actor, Restart(b)
       PROVE  Received(a, n)' \/ (broker'.n = n /\ a \in broker'.to) \/ Pending(n)'
  <2>1. a # b
    BY <1>1, <1>10 DEF Restart
  <2>2. /\ UNCHANGED <<bq, broker, inbox>> /\ seen'[a] = seen[a] /\ owed'[a] = owed[a]
        /\ a \notin closed
    BY <1>1, <1>10, <2>1 DEF Restart, Typed, ActorsTyped
  <2>3. QED
    BY <1>3, <2>2 DEF Received, Pending
<1>11. ASSUME NEW b \in Actor, FanOut(b)
       PROVE  Received(a, n)' \/ (broker'.n = n /\ a \in broker'.to) \/ Pending(n)'
  <2>1. UNCHANGED <<bq, owed, closed, life, subs>> /\ broker.at = "fanning" /\ b \in broker.to
    BY <1>11 DEF FanOut, queue
  <2>2. Pending(n) => Pending(n)'
    BY <2>1 DEF Pending
  <2>3. Received(a, n) => Received(a, n)'
    <3>1. ~Restart(a) /\ ~LeavingStep(a)
      <4>1. broker' # broker
        BY <1>1, <1>11 DEF FanOut, FanOutTo, Idle
      <4>2. Restart(a) \/ LeavingStep(a) => broker' = broker
        BY DEF Restart, LeavingStep, Drained, Fails, ForcedOut
      <4>3. QED
        BY <4>1, <4>2
    <3>2. QED
      BY <1>5, <3>1
  <2>4. CASE broker.n = n /\ a \in broker.to
    <3>1. CASE a = b
      <4>1. ~FanOutStopped(a)
        BY <2>1, <2>4 DEF FannedIsHeld, FanOutStopped, Open
      <4>2. inbox'[a] = Append(inbox[a], n)
        BY <1>1, <1>11, <2>4, <3>1, <4>1 DEF FanOut
      <4>3. inbox[a] \in Seq(0..MaxBroadcasts) /\ n \in 0..MaxBroadcasts
        BY <1>1, <2>4
      <4>4. Contains(inbox'[a], n)
        BY ONLY <4>2, <4>3, ContainsAppended
      <4>5. QED
        BY <4>4 DEF Received
    <3>2. CASE a # b
      <4>1. broker' = [broker EXCEPT !.to = broker.to \ {b}]
        BY <1>11, <2>4, <3>2 DEF FanOut, FanOutTo
      <4>2. QED
        BY <1>1, <2>4, <3>2, <4>1
    <3>3. QED
      BY <3>1, <3>2
  <2>5. QED
    BY <1>3, <2>1, <2>2, <2>3, <2>4
<1>12. ASSUME NEW b \in Actor, \/ Handle(b) \/ HandleStop(b) \/ StopOne(b) \/ StopRoot(b)
                               \/ LeavingStep(b) \/ Unsubscribe(b)
       PROVE  Received(a, n)' \/ (broker'.n = n /\ a \in broker'.to) \/ Pending(n)'
  <2>1. UNCHANGED <<bq, owed, broker>> /\ a \notin closed
    BY <1>12, Unnoticed, Closing DEF queue
  <2>2. ~LeavingStep(a)
    BY DEF LeavingStep, Drained, Fails, ForcedOut, Leaving
  <2>3. ~Restart(a)
    BY <1>1 DEF Restart
  <2>4. QED
    BY <1>3, <1>5, <2>1, <2>2, <2>3 DEF Pending
<1>13. QED
  BY Steps, <1>6, <1>7, <1>8, <1>9, <1>10, <1>11, <1>12 DEF InboxStep

LEMMA FlushStaysLast ==
    ASSUME Typed, NumbersPass, FlushComesLast, Next
    PROVE  FlushComesLast'
<1>1. /\ bq \in Seq(Request) /\ MaxBroadcasts \in Nat /\ sent \in 0..MaxBroadcasts
      /\ ahead \in 0..MaxBroadcasts
  BY BroadcastsAssumption DEF Typed, QueueTyped, ShutdownTyped
<1>2. \A n \in 1..MaxBroadcasts : n \in Nat
  BY <1>1
<1>3. CASE RequestStep
  <2>1. ASSUME NEW m, Requested(m), Says(m)
        PROVE  FlushComesLast'
    <3>1. m \in Request /\ bq' = Append(bq, m)
      BY <2>1 DEF Requested
    <3>2. /\ Len(bq') = Len(bq) + 1 /\ Len(bq) \in Nat /\ bq'[Len(bq) + 1] = m
          /\ \A i \in 1..Len(bq) : bq'[i] = bq[i]
      BY <1>1, <3>1, Appended
    <3>3. CASE m.do = "flush"
      <4>1. Passes(m)
        BY <2>1, <3>3 DEF Says, Announces, Exits, Enters, Carries, Removes, Subscribes
      <4>2. sd = "no" /\ sd' = "asked" /\ ahead' = sent /\ sent' = sent
        BY <3>3, <4>1 DEF Passes
      <4>3. \A f \in 1..Len(bq) : bq[f].do # "flush"
        BY <4>2 DEF FlushComesLast
      <4>4. \A f \in 1..Len(bq') : bq'[f].do = "flush" => f = Len(bq')
        BY <3>2, <4>3
      <4>5. \A k \in (Len(bq') + 1)..Len(bq') : FALSE
        BY <3>2
      <4>6. ahead' <= sent'
        BY <1>1, <4>2
      <4>7. QED
        BY <4>2, <4>4, <4>5, <4>6 DEF FlushComesLast
    <3>4. CASE m.do # "flush"
      <4>1. sent' \in {sent, sent + 1} /\ UNCHANGED ahead /\ sd' \in {sd, "waiting"}
        BY <2>1, <3>4 DEF Says, Announces, Passes, Exits, Enters, StopBroker, shutdown, Carries
      <4>2. \A n \in 1..MaxBroadcasts : Carries(m, n) => n = sent + 1
        BY <2>1, <3>4 DEF Says, Announces, Passes, Exits, Enters, Carries, Removes, Subscribes
      <4>3. sent + 1 > ahead /\ ahead <= sent'
        BY <1>1, <4>1 DEF FlushComesLast
      <4>4. \A f \in 1..Len(bq') : bq'[f].do = "flush" => f \in 1..Len(bq)
        BY <3>2, <3>4
      <4>5. \A f \in 1..Len(bq) : \A k \in (f + 1)..Len(bq') : k \in (f + 1)..Len(bq) \/ k = Len(bq) + 1
        BY <3>2
      <4>6. \A f \in 1..Len(bq) : \A k \in (f + 1)..Len(bq) : k \in 1..Len(bq)
        BY <3>2
      <4>7. ASSUME NEW f \in 1..Len(bq), bq[f].do = "flush"
            PROVE  /\ sd' # "no"
                   /\ sd' = "asked" => \A k \in (f + 1)..Len(bq'), n \in 1..MaxBroadcasts :
                                          Carries(bq'[k], n) => n > ahead
        <5>1. sd # "no" /\ (sd = "asked" => \A k \in (f + 1)..Len(bq), n \in 1..MaxBroadcasts :
                                              Carries(bq[k], n) => n > ahead)
          BY <4>7 DEF FlushComesLast
        <5>2. QED
          BY <3>2, <4>1, <4>2, <4>3, <4>5, <4>6, <5>1
      <4>8. QED
        BY <3>2, <4>1, <4>3, <4>4, <4>7 DEF FlushComesLast
    <3>5. QED
      BY <3>3, <3>4
  <2>2. CASE UNCHANGED queue
    <3>1. UNCHANGED <<ahead, bq, sent>> /\ sd' \in {sd, "waiting"}
      <4>1. ~AskFlush /\ ~Publish
        BY <1>1, <2>2 DEF AskFlush, QueueRequest, Publish, queue
      <4>2. QED
        BY <1>3, <2>2, <4>1 DEF RequestStep, StopBroker, Starts, SpawnedRemoval, Relay, Leave,
           SubscribeFor, queue, shutdown
    <3>2. QED
      BY <3>1 DEF FlushComesLast
  <2>3. QED
    BY <1>3, <2>1, <2>2, RequestSays
<1>4. CASE BrokerTakes
  <2>1. /\ bq # <<>> /\ bq' = Tail(bq) /\ UNCHANGED <<sent, ahead>>
    BY <1>4, TakeLeaves
  <2>2. /\ Len(bq') = Len(bq) - 1 /\ Len(bq) \in Nat /\ \A i \in 1..Len(bq') : bq'[i] = bq[i + 1]
    BY <1>1, <2>1, Tailed
  <2>3. sd' \in {sd, "flushed"}
    BY <1>4, TakeLeaves DEF TakeFlush, shutdown
  <2>4. ASSUME NEW f \in 1..Len(bq'), bq'[f].do = "flush"
        PROVE  /\ sd' # "no"
               /\ sd' = "asked" => \A k \in (f + 1)..Len(bq'), n \in 1..MaxBroadcasts :
                                      Carries(bq'[k], n) => n > ahead
    <3> DEFINE g == f + 1
    <3>1. g \in 1..Len(bq) /\ bq[g].do = "flush"
      BY <2>2, <2>4
    <3>2. sd # "no" /\ (sd = "asked" => \A k \in (g + 1)..Len(bq), n \in 1..MaxBroadcasts :
                                          Carries(bq[k], n) => n > ahead)
      <4> HIDE DEF g
      <4>1. QED
        BY <3>1 DEF FlushComesLast
    <3>3. \A k \in (f + 1)..Len(bq') : k + 1 \in (g + 1)..Len(bq) /\ bq'[k] = bq[k + 1]
      BY <2>2
    <3> HIDE DEF g
    <3>4. QED
      BY <2>3, <3>2, <3>3
  <2>5. QED
    BY <2>1, <2>4 DEF FlushComesLast
<1>5. CASE BrokerStops
  BY <1>5 DEF BrokerStops, FlushComesLast, shutdown
<1>6. CASE ShutdownStep
  BY <1>6 DEF ShutdownStep, FlushFails, ShutdownExpires, ShutdownReturns, BrokerTimesOut, queue,
     RootsEnded, FlushComesLast
<1>7. ASSUME NEW b \in Actor, InboxStep(b) \/ LeavingStep(b) \/ Restart(b) \/ Unsubscribe(b)
      PROVE  UNCHANGED <<bq, sent, ahead, sd>>
  BY <1>7 DEF InboxStep, Handle, HandleStop, FanOut, StopOne, StopRoot, SendStop, LeavingStep,
       Drained, Fails, ForcedOut, Restart, Unsubscribe, queue, shutdown
<1>8. CASE UNCHANGED <<bq, sent, ahead, sd>>
  BY <1>8 DEF FlushComesLast
<1>9. QED
  BY Steps, <1>3, <1>4, <1>5, <1>6, <1>7, <1>8

LEMMA ShutdownStaysInOrder ==
    ASSUME Typed, ShutdownInOrder, Next
    PROVE  ShutdownInOrder'
<1>1. place \in [Actor -> {"new", "running", "relaying", "leaving", "down"}]
  BY DEF Typed, ActorsTyped
<1>2. CASE RequestStep
  <2>1. \A a \in Actor : place[a] = "down" => place'[a] = "down"
    BY <1>2, RequestPlaces
  <2>2. CASE UNCHANGED shutdown
    BY <2>1, <2>2 DEF shutdown, ShutdownInOrder
  <2>3. CASE AskFlush
    BY <2>3 DEF AskFlush, ShutdownInOrder
  <2>4. CASE StopBroker
    BY <2>1, <2>4 DEF StopBroker, RootsEnded, ShutdownInOrder
  <2>5. QED
    BY <1>2, <2>2, <2>3, <2>4 DEF RequestStep, Publish, Starts, SpawnedRemoval, Relay, Leave, SubscribeFor
<1>3. CASE BrokerTakes
  <2>1. UNCHANGED <<place, cancelled>>
    BY <1>3, TakeLeaves DEF actors
  <2>2. UNCHANGED <<sd, promised>> \/ (sd = "asked" /\ sd' = "flushed")
    BY <1>3, TakeLeaves DEF TakeFlush, shutdown
  <2>3. QED
    BY <2>1, <2>2 DEF ShutdownInOrder
<1>4. CASE ShutdownStep
  BY <1>4 DEF ShutdownStep, FlushFails, ShutdownExpires, ShutdownReturns, BrokerTimesOut, RootsEnded,
     actors, ShutdownInOrder
<1>5. ASSUME NEW b \in Actor, InboxStep(b) \/ LeavingStep(b) \/ Unsubscribe(b)
      PROVE  ShutdownInOrder'
  <2>1. \A a \in Actor : place[a] = "down" => place'[a] = "down"
    BY <1>1, <1>5 DEF InboxStep, Handle, HandleStop, FanOut, StopOne, StopRoot, SendStop,
       LeavingStep, Drained, Fails, ForcedOut, Leaving, Unsubscribe, actors
  <2>2. UNCHANGED <<sd, cancelled>> /\ promised' \subseteq promised
    BY <1>5 DEF InboxStep, Handle, HandleStop, FanOut, StopOne, StopRoot, SendStop,
       LeavingStep, Drained, Fails, ForcedOut, Unsubscribe, shutdown
  <2>3. QED
    BY <2>1, <2>2 DEF ShutdownInOrder
<1>6. ASSUME NEW b \in Actor, Restart(b)
      PROVE  ShutdownInOrder'
  BY <1>6 DEF Restart, shutdown, ShutdownInOrder
<1>7. CASE BrokerStops
  BY <1>7 DEF BrokerStops, shutdown, actors, ShutdownInOrder
<1>8. QED
  BY Steps, <1>2, <1>3, <1>4, <1>5, <1>6, <1>7

LEMMA PromisedStaysArrived ==
    ASSUME Typed, NumbersPass, OwedIsSomewhere, FlushComesLast, ShutdownInOrder, PromisedHasArrived, Next
    PROVE  PromisedHasArrived'
<1>1. /\ bq \in Seq(Request) /\ MaxBroadcasts \in Nat /\ sent \in 0..MaxBroadcasts
      /\ ahead \in 0..MaxBroadcasts /\ owed \in [Actor -> SUBSET (1..MaxBroadcasts)]
      /\ promised \in SUBSET Actor /\ (broker.at # "fanning" => broker.to = {})
  BY BroadcastsAssumption DEF Typed, QueueTyped, BrokerTyped, ShutdownTyped
<1> SUFFICES ASSUME NEW a \in promised', NEW n \in owed'[a], n <= ahead'
             PROVE  Received(a, n)'
  BY DEF PromisedHasArrived
<1>2. a \in Actor /\ n \in 1..MaxBroadcasts
  BY QueueStaysTyped, ShutdownStaysTyped DEF QueueTyped, ShutdownTyped
<1>3. ASSUME a \in promised, n \in owed[a], n <= ahead
      PROVE  /\ Received(a, n) /\ ~cancelled
             /\ ~ForcedOut(a) /\ ~Fails(a) /\ ~Restart(a)
  <2>1. Received(a, n)
    BY <1>3 DEF PromisedHasArrived
  <2>2. ~cancelled /\ sd # "no"
    BY <1>3 DEF ShutdownInOrder
  <2>3. ~Fails(a)
    BY DEF Fails
  <2>4. QED
    BY <2>1, <2>2, <2>3 DEF ForcedOut, Restart
<1>4. CASE a \in promised /\ n \in owed[a] /\ n <= ahead
  BY <1>2, <1>3, <1>4, ReceivedStays
<1>5. CASE RequestStep
  <2>1. CASE AskFlush
    <3>1. promised' = {}
      BY <2>1 DEF AskFlush, ShutdownInOrder
    <3>2. QED
      BY <3>1
  <2>2. CASE ~AskFlush
    <3>1. UNCHANGED <<ahead, promised>>
      BY <1>5, <2>2 DEF RequestStep, Publish, StopBroker, Starts, SpawnedRemoval, Relay, Leave,
         SubscribeFor, shutdown
    <3>2. n \in owed[a] \/ n = sent + 1
      BY <1>2, <1>5, RequestSays DEF Says, Announces, Passes, Exits, Enters, queue
    <3>3. n # sent + 1
      BY <1>1, <3>1 DEF FlushComesLast
    <3>4. QED
      BY <1>4, <3>1, <3>2, <3>3
  <2>3. QED
    BY <2>1, <2>2
<1>6. CASE BrokerTakes
  <2>1. UNCHANGED <<owed, ahead, closed, inbox, seen>> /\ broker.at = "idle" /\ bq # <<>>
    BY <1>6, TakeLeaves DEF actors
  <2>2. CASE promised' = promised
    BY <1>4, <2>1, <2>2
  <2>3. CASE bq[1].do = "flush" /\ sd = "asked" /\ promised' = {b \in Actor : Open(b)}
    <3>1. a \notin closed /\ ~cancelled
      <4>1. a \in {b \in Actor : Open(b)}
        BY <2>3
      <4>2. QED
        BY <2>3, <4>1 DEF Open, ShutdownInOrder
    <3>2. broker.to = {}
      BY <1>1, <2>1
    <3>3. Received(a, n) \/ Pending(n)
      BY <1>2, <2>1, <3>1, <3>2 DEF OwedIsSomewhere
    <3>4. ASSUME NEW k \in 1..Len(bq), Carries(bq[k], n)
          PROVE  FALSE
      <4>1. k # 1
        BY <2>3, <3>4 DEF Carries
      <4>2. k \in (1 + 1)..Len(bq) /\ 1 \in 1..Len(bq)
        BY <1>1, <4>1
      <4>3. n > ahead
        BY <1>2, <2>3, <3>4, <4>2 DEF FlushComesLast
      <4>4. QED
        BY <1>1, <1>2, <2>1, <4>3
    <3>5. QED
      BY <2>1, <3>3, <3>4 DEF Pending, Received
  <2>4. QED
    BY <1>6, <2>2, <2>3, TakeLeaves DEF TakeFlush, shutdown
<1>7. ASSUME NEW b \in Actor, Restart(b)
      PROVE  Received(a, n)'
  BY <1>1, <1>2, <1>4, <1>7 DEF Restart, shutdown
<1>8. ASSUME \/ BrokerStops \/ ShutdownStep
             \/ \E b \in Actor : InboxStep(b) \/ LeavingStep(b) \/ Unsubscribe(b)
      PROVE  UNCHANGED <<owed, ahead>> /\ promised' \subseteq promised
  BY <1>8 DEF BrokerStops, ShutdownStep, FlushFails, ShutdownExpires, ShutdownReturns,
     BrokerTimesOut, InboxStep, Handle, HandleStop, FanOut, StopOne, StopRoot, SendStop,
     LeavingStep, Drained, Fails, ForcedOut, Unsubscribe, queue, shutdown
<1>9. QED
  BY Steps, <1>4, <1>5, <1>6, <1>7, <1>8

LEMMA FlushNext ==
    ASSUME ~Stale, FlushInv, [Next]_vars
    PROVE  FlushInv'
<1>1. TableInv'
  BY TableNext DEF FlushInv
<1>2. Typed /\ SubscriberHolds
  BY DEF FlushInv, TableInv, DeliveryInv
<1>3. CASE Next
  BY <1>1, <1>2, <1>3, NumbersStayPassed, OwedStaysHeld, FannedStaysHeld, NothingIsLost,
     FlushStaysLast, ShutdownStaysInOrder, PromisedStaysArrived DEF FlushInv
<1>4. CASE UNCHANGED vars
  <2>1. UNCHANGED <<queue, actors, shutdown, broker, subs>>
    BY <1>4 DEF vars
  <2>2. /\ NumbersPass' /\ OwedIsHeld' /\ FannedIsHeld' /\ OwedIsSomewhere'
        /\ FlushComesLast' /\ ShutdownInOrder' /\ PromisedHasArrived'
    BY <2>1 DEF queue, actors, shutdown, FlushInv, NumbersPass, OwedIsHeld, FannedIsHeld,
       OwedIsSomewhere, FlushComesLast, ShutdownInOrder, PromisedHasArrived, Received, Pending
  <2>3. QED
    BY <1>1, <2>2 DEF FlushInv
<1>5. QED
  BY <1>3, <1>4

LEMMA FlushInit ==
    ASSUME Init
    PROVE  FlushInv
<1>1. bq = <<>> /\ Len(bq) = 0 /\ sent = 0 /\ ahead = 0 /\ promised = {} /\ sd = "no"
  BY DEF Init
<1>2. owed = [a \in Actor |-> {}] /\ broker.at = "idle" /\ broker.n = 0 /\ cancelled = FALSE
  BY DEF Init, Idle
<1>3. /\ NumbersPass /\ OwedIsHeld /\ FannedIsHeld /\ OwedIsSomewhere
      /\ FlushComesLast /\ ShutdownInOrder /\ PromisedHasArrived
  BY <1>1, <1>2 DEF NumbersPass, OwedIsHeld, FannedIsHeld, OwedIsSomewhere, FlushComesLast,
     ShutdownInOrder, PromisedHasArrived
<1>4. QED
  BY <1>3, TableInit DEF FlushInv

(* As long as the handle of an incarnation that ended is not used to       *)
(* subscribe, shutdown_all loses no broadcast queued before its flush:     *)
(* when it returns, every actor that was open when the flush was answered, *)
(* and did not fail since, has handled all of them that it was subscribed  *)
(* to (actor_runtime.rs, shutdown_all; broker.rs, the fan-out awaited in   *)
(* the handler; started.rs, an inbox closed by a stop is still drained).   *)
THEOREM NoBroadcastIsLost ==
    ASSUME ~Stale
    PROVE  Spec => []ShutdownLosesNoBroadcast
<1>1. Init => FlushInv
  BY FlushInit
<1>2. FlushInv /\ [Next]_vars => FlushInv'
  BY FlushNext
<1>3. FlushInv => ShutdownLosesNoBroadcast
  <2> SUFFICES ASSUME FlushInv, sd = "done", NEW a \in promised,
                      NEW n \in owed[a] \cap (1..ahead)
               PROVE  n \in seen[a]
    BY DEF ShutdownLosesNoBroadcast
  <2>1. /\ ShutdownInOrder /\ PromisedHasArrived /\ EndedAreQuiet
        /\ ahead \in 0..MaxBroadcasts /\ a \in Actor /\ MaxBroadcasts \in Nat
    BY BroadcastsAssumption DEF FlushInv, TableInv, DeliveryInv, Typed, ShutdownTyped
  <2>2. n <= ahead
    BY <2>1
  <2>3. Received(a, n)
    BY <2>1, <2>2 DEF PromisedHasArrived
  <2>4. place[a] = "down"
    BY <2>1 DEF ShutdownInOrder
  <2>5. inbox[a] = <<>>
    BY <2>1, <2>4 DEF EndedAreQuiet
  <2>6. QED
    BY <2>3, <2>5 DEF Received, Contains
<1>4. QED
  BY <1>1, <1>2, <1>3, PTL DEF Spec

=============================================================================
