--------------------------- MODULE Kademlia_proofs ---------------------------
(***************************************************************************)
(* Proofs about the DHT, for any nodes, metric, sizes, seeds and overlap   *)
(* of calls, and any number of lost and late datagrams: its types, and     *)
(* that a lookup which ends without a descriptor has asked all the nearest *)
(* contacts it held. While nothing is lost and a node's tasks run one at a *)
(* time: a route is found if its target was ever among the nearest         *)
(* contacts, and every seed of a node that has joined keeps its descriptor.*)
(***************************************************************************)
EXTENDS KademliaProps, FiniteSetTheorems, FunctionTheorems, TLAPS

-----------------------------------------------------------------------------
(* Distances.                                                              *)

\* Nodes are ranked from 0 by their distance, each with a rank of its own.
LEMMA Ranks ==
  ASSUME NEW S \in SUBSET Node, NEW key \in Node
  PROVE  /\ IsFiniteSet(S) /\ Cardinality(S) \in Nat
         /\ \A c \in S : Cardinality(Nearer(S, key, c)) \in 0..(Cardinality(S) - 1)
         /\ \A i \in 1..Cardinality(S) : \E c \in S : Cardinality(Nearer(S, key, c)) = i - 1
         /\ \A c, d \in S :
              Cardinality(Nearer(S, key, c)) = Cardinality(Nearer(S, key, d)) => c = d
<1> DEFINE r(c) == Cardinality(Nearer(S, key, c))
<1>1. IsFiniteSet(S) /\ Cardinality(S) \in Nat
  BY NodesAssumption, FS_Subset, FS_CardinalityType
<1>2. ASSUME NEW c \in S
      PROVE  IsFiniteSet(Nearer(S, key, c)) /\ r(c) \in 0..(Cardinality(S) - 1)
  <2>1. Nearer(S, key, c) \in SUBSET (S \ {c})
    BY DistAssumption DEF Nearer
  <2>2. IsFiniteSet(S \ {c}) /\ Cardinality(S \ {c}) = Cardinality(S) - 1
    BY <1>1, FS_RemoveElement
  <2>3. IsFiniteSet(Nearer(S, key, c)) /\ r(c) <= Cardinality(S) - 1
    BY <2>1, <2>2, FS_Subset
  <2> QED
    BY <1>1, <2>3, FS_CardinalityType
<1>3. ASSUME NEW c \in S, NEW d \in S, Dist[<<c, key>>] < Dist[<<d, key>>] PROVE r(c) < r(d)
  <2>1. c \notin Nearer(S, key, c) /\ Nearer(S, key, c) \cup {c} \in SUBSET Nearer(S, key, d)
    BY <1>3, DistAssumption DEF Nearer
  <2>2. Cardinality(Nearer(S, key, c) \cup {c}) = r(c) + 1
    BY <1>2, <2>1, FS_AddElement
  <2>3. r(c) + 1 <= r(d)
    BY <1>2, <2>1, <2>2, FS_Subset
  <2> QED
    BY <1>2, <2>3
<1>4. ASSUME NEW c \in S, NEW d \in S, r(c) = r(d) PROVE c = d
  <2>1. r(c) \in Nat /\ Dist[<<c, key>>] \in Nat /\ Dist[<<d, key>>] \in Nat
    BY <1>1, <1>2, DistAssumption
  <2>2. ~ (Dist[<<c, key>>] < Dist[<<d, key>>]) /\ ~ (Dist[<<d, key>>] < Dist[<<c, key>>])
    BY <1>3, <1>4, <2>1
  <2> QED
    BY <2>1, <2>2, DistAssumption
<1>5. ASSUME NEW i \in 1..Cardinality(S) PROVE \E c \in S : r(c) = i - 1
  <2> DEFINE T == 0..(Cardinality(S) - 1)
             f == [c \in S |-> r(c)]
  <2>1. f \in [S -> T] /\ \A c, d \in S : f[c] = f[d] => c = d
    BY <1>2, <1>4
  <2>2. f \in Injection(S, T)
    BY <2>1, Fun_IsInj
  <2>3. IsFiniteSet(T) /\ Cardinality(T) = Cardinality(S)
    <3> DEFINE b == Cardinality(S) - 1
    <3>1. b \in Int /\ ~ (0 > b + 1)
      BY <1>1
    <3>2. \A x, y \in Int : /\ IsFiniteSet(x..y)
                             /\ Cardinality(x..y) = IF x > y THEN 0 ELSE y - x + 1
      BY FS_Interval
    <3> QED
      BY <1>1, <3>1, <3>2
  <2>4. f \in Surjection(S, T)
    BY <2>2, <2>3, FS_Injection
  <2>5. \A k \in T : \E c \in S : f[c] = k
    BY <2>4 DEF Surjection
  <2>6. i - 1 \in T
    BY <1>1
  <2> QED
    BY <2>5, <2>6
<1> QED
  BY <1>1, <1>2, <1>4, <1>5

\* Sorting loses no contact and makes none up.
LEMMA Sorting ==
  ASSUME NEW S \in SUBSET Node, NEW key \in Node
  PROVE  /\ Cardinality(S) \in Nat
         /\ ByDistance(S, key) \in [1..Cardinality(S) -> S]
         /\ \A c \in S : \E i \in 1..Cardinality(S) : ByDistance(S, key)[i] = c
<1> DEFINE r(c) == Cardinality(Nearer(S, key, c))
           pick(i) == CHOOSE c \in S : r(c) = i - 1
<1>1. Cardinality(S) \in Nat
  BY Ranks
<1>2. ASSUME NEW i \in 1..Cardinality(S) PROVE pick(i) \in S /\ r(pick(i)) = i - 1
  <2>1. \E c \in S : r(c) = i - 1
    BY Ranks
  <2> HIDE DEF r
  <2> QED
    BY <2>1
<1>3. ASSUME NEW c \in S PROVE \E i \in 1..Cardinality(S) : pick(i) = c
  <2>1. r(c) \in 0..(Cardinality(S) - 1)
    BY Ranks
  <2> DEFINE i == r(c) + 1
  <2>2. i \in 1..Cardinality(S) /\ i - 1 = r(c)
    BY <1>1, <2>1
  <2>3. pick(i) \in S /\ r(pick(i)) = i - 1
    BY <1>2, <2>2
  <2>4. pick(i) = c
    BY <2>2, <2>3, Ranks
  <2> QED
    BY <2>2, <2>4
<1>4. ByDistance(S, key) = [i \in 1..Cardinality(S) |-> pick(i)]
  BY DEF ByDistance
<1> HIDE DEF pick
<1> QED
  BY <1>1, <1>2, <1>3, <1>4

\* Of at most K nearest contacts, a round asks all that it has not asked.
LEMMA BatchIsAll ==
  ASSUME NEW S \in SUBSET Node, NEW key \in Node, NEW T \in SUBSET Nearest(S, key, K)
  PROVE  Nearest(T, key, Alpha) = T
<1> SUFFICES ASSUME NEW c \in T PROVE Cardinality(Nearer(T, key, c)) < Alpha
  BY DEF Nearest
<1>1. T \subseteq S /\ c \in S /\ Cardinality(Nearer(S, key, c)) < K
  BY DEF Nearest
<1>2. Nearer(T, key, c) \in SUBSET Nearer(S, key, c) /\ Nearer(S, key, c) \in SUBSET Node
  BY <1>1 DEF Nearer
<1>3. /\ IsFiniteSet(Nearer(S, key, c))
      /\ Cardinality(Nearer(S, key, c)) \in Nat
      /\ Cardinality(Nearer(T, key, c)) \in Nat
  BY <1>2, NodesAssumption, FS_Subset, FS_CardinalityType
<1>4. Cardinality(Nearer(T, key, c)) <= Cardinality(Nearer(S, key, c))
  BY <1>2, <1>3, FS_Subset
<1> QED
  BY <1>1, <1>3, <1>4, SizesAssumption

\* The requests of a round are for its contacts, each of them.
LEMMA FindsThem ==
  ASSUME TypeOK, NEW e \in Route, NEW T \in SUBSET Node
  PROVE  /\ Finds(e, T) \in Seq(Request)
         /\ \A c \in T : \E i \in 1..Len(Finds(e, T)) : Finds(e, T)[i].to = c
<1> DEFINE n == Cardinality(T)
           s == ByDistance(T, Target(e))
           find(c) == [kind |-> "find", to |-> c, key |-> Target(e), want |-> TRUE]
<1>1. Target(e) \in Node
  BY DEF TypeOK, Target
<1>2. n \in Nat /\ s \in [1..n -> T] /\ \A c \in T : \E i \in 1..n : s[i] = c
  BY <1>1, Sorting
<1>3. Finds(e, T) = [i \in 1..n |-> find(s[i])]
  BY DEF Finds
<1>4. \A i \in 1..n : find(s[i]) \in Request /\ find(s[i]).to = s[i]
  BY <1>1, <1>2 DEF Request
<1> HIDE DEF n, s, find
<1>5. Finds(e, T) \in Seq(Request) /\ Len(Finds(e, T)) = n
  BY <1>2, <1>3, <1>4
<1> QED
  BY <1>2, <1>3, <1>4, <1>5
-----------------------------------------------------------------------------
(* The inductive invariant.                                                *)

\* A contact among the nearest was asked or is still to be.
Covers(asking, list, S) == \A c \in S \ asking : \E i \in 1..Len(list) : list[i].to = c

\* It is what a lookup keeps up while it runs; a task that was answered has an answer,
\* and a route that found a descriptor has one.
LookupsCover ==
  \A e \in Route : pc[e] \in {"asking", "waiting", "answered", "expired"} =>
    Covers(queried[e], todo[e], seen[e])

AnswersKept == \A t \in Task : pc[t] = "answered" => answer[t] # None
RoutesKept == \A e \in Route : pc[e] = "found" => result[e] # None

IInv == TypeOK /\ AnswersKept /\ RoutesKept /\ LookupsCover /\ LookupExhaustive

LEMMA InitIInv == Init => IInv
<1> SUFFICES ASSUME Init PROVE IInv
  OBVIOUS
<1>1. env \in Env /\ env.faults \in Nat
  BY EnvAssumption DEF Init, Surroundings
<1>2. TypeOK
  <2>1. call \in [Route -> Node \X Node] /\ \A e \in Route : call[e] \in Calls[e]
    BY DEF Init
  <2> QED
    BY <1>1, <2>1, NodesAssumption DEF Init, TypeOK, Task, Stage
<1>3. \A t \in Task : pc[t] \in {"idle", "returned"}
  BY DEF Init
<1>4. \A e \in Route : pc[e] = "idle"
  BY NodesAssumption DEF Init, Task
<1> QED
  BY <1>2, <1>3, <1>4
  DEF IInv, AnswersKept, RoutesKept, LookupsCover, LookupExhaustive, Returned

-----------------------------------------------------------------------------
(* Helpers.                                                                *)

LEMMA AtIsNode ==
  ASSUME TypeOK, NEW t \in Task
  PROVE  At(t) \in Node /\ (t \in Route => Target(t) \in Node)
BY DEF TypeOK, At, Target, Task

LEMMA MergedType ==
  ASSUME TypeOK, NEW n \in Node, NEW S \in SUBSET Node
  PROVE  Merged(n, S) \in SUBSET Node
BY DEF TypeOK, Merged, Nearest

LEMMA ClosestType ==
  ASSUME TypeOK, NEW n \in Node, NEW key
  PROVE  Closest(n, key) \in SUBSET Node /\ Closest(n, key) \subseteq rt[n]
BY DEF TypeOK, Closest, Nearest

LEMMA Kinds ==
  ASSUME NEW m \in Asked \cup Answer
  PROVE  /\ m.kind \in {"pong", "found"} => m \in Answer
         /\ m.kind \in {"ping", "find", "store"} => m \in Asked
BY DEF Asked, Answer

\* A round covers what it starts with.
LEMMA RoundCovers ==
  ASSUME TypeOK, NEW e \in Route, NEW asking \in SUBSET Node,
         Round(e, Closest(At(e), Target(e)), asking)
  PROVE  /\ seen' \in [Route -> SUBSET Node]
         /\ todo' \in [Task -> Seq(Request)]
         /\ \A d \in Route \ {e} : seen'[d] = seen[d] /\ todo'[d] = todo[d]
         /\ \A t \in Task \ {e} : pc'[t] = pc[t]
         /\ pc' \in [Task -> Stage]
         /\ \/ pc'[e] = "returned" /\ seen'[e] \subseteq asking
            \/ pc'[e] = "asking" /\ Covers(asking, todo'[e], seen'[e])
<1> DEFINE S == Closest(At(e), Target(e))
           T == S \ asking
<1>1. e \in Task /\ At(e) \in Node /\ Target(e) \in Node
  BY AtIsNode DEF Task
<1>2. S \in SUBSET Node /\ T \in SUBSET Node
  BY <1>1, ClosestType
<1>3. Batch(e, T) = T
  <2>1. rt[At(e)] \in SUBSET Node /\ T \in SUBSET Nearest(rt[At(e)], Target(e), K)
    BY <1>1 DEF TypeOK, Closest
  <2> QED
    BY <1>1, <2>1, BatchIsAll DEF Batch
<1>4. /\ Finds(e, T) \in Seq(Request)
      /\ \A c \in T : \E i \in 1..Len(Finds(e, T)) : Finds(e, T)[i].to = c
  BY <1>2, FindsThem
<1> HIDE DEF S, T
<1>5. /\ seen' = [seen EXCEPT ![e] = S]
      /\ \/ T = {} /\ pc' = [pc EXCEPT ![e] = "returned"] /\ todo' = todo
         \/ pc' = [pc EXCEPT ![e] = "asking"] /\ todo' = [todo EXCEPT ![e] = Finds(e, T)]
  BY <1>3 DEF Round, S, T
<1>6. seen' \in [Route -> SUBSET Node] /\ seen'[e] = S
  BY <1>2, <1>5 DEF TypeOK
<1>7. todo' \in [Task -> Seq(Request)]
  BY <1>1, <1>4, <1>5 DEF TypeOK
<1>8. \A d \in Route \ {e} : seen'[d] = seen[d] /\ todo'[d] = todo[d]
  BY <1>1, <1>5 DEF TypeOK, Task
<1>9. /\ \A t \in Task \ {e} : pc'[t] = pc[t]
      /\ pc' \in [Task -> Stage]
  BY <1>1, <1>5 DEF TypeOK, Stage
<1>10. CASE T = {} /\ pc' = [pc EXCEPT ![e] = "returned"]
  <2>1. pc'[e] = "returned" /\ seen'[e] \subseteq asking
    BY <1>1, <1>6, <1>10 DEF TypeOK, S, T
  <2> QED
    BY <1>6, <1>7, <1>8, <1>9, <2>1
<1>11. CASE /\ pc' = [pc EXCEPT ![e] = "asking"]
            /\ todo' = [todo EXCEPT ![e] = Finds(e, T)]
  <2>1. pc'[e] = "asking" /\ todo'[e] = Finds(e, T)
    BY <1>1, <1>11 DEF TypeOK
  <2>2. Covers(asking, todo'[e], seen'[e])
    BY <1>4, <1>6, <2>1 DEF Covers, T
  <2> QED
    BY <1>6, <1>7, <1>8, <1>9, <2>1, <2>2
<1> QED
  BY <1>5, <1>10, <1>11

\* A request is made, of the next in the list.
LEMMA AskNextStep ==
  ASSUME IInv, NEW t \in Task, AskNext(t)
  PROVE  IInv'
<1> DEFINE r == Head(todo[t])
           q == [kind |-> r.kind, to |-> r.to, key |-> r.key, want |-> r.want,
                 from |-> At(t), task |-> t]
<1>0. TypeOK /\ At(t) \in Node
  BY AtIsNode DEF IInv
<1>1. /\ todo[t] \in Seq(Request) /\ todo[t] # << >> /\ r \in Request
      /\ Tail(todo[t]) \in Seq(Request)
  BY <1>0 DEF AskNext, TypeOK
<1>2. r.to \in Node /\ q \in Asked
  BY <1>0, <1>1 DEF Request, Asked
<1>3. /\ pc[t] = "asking"
      /\ todo' = [todo EXCEPT ![t] = Tail(@)]
      /\ pending' = [pending EXCEPT ![At(t)][r.to] = t]
      /\ asked' = [asked EXCEPT ![t] = r]
      /\ \/ net' = net \cup {q} /\ pc' = [pc EXCEPT ![t] = "waiting"] /\ faults' = faults
         \/ Fault /\ net' = net /\ pc' = pc
      /\ queried' = IF t \in Route THEN [queried EXCEPT ![t] = @ \cup {r.to}] ELSE queried
      /\ UNCHANGED <<env, call, rt, store, cache, seen, answer, result>>
  BY DEF AskNext, Rpc, tables
<1> HIDE DEF r, q
<1>4. TypeOK'
  <2>1. env.faults \in Nat
    BY <1>0, EnvAssumption DEF TypeOK, Surroundings
  <2>2. net' \subseteq Asked \cup Answer /\ faults' \in 0..env.faults
    BY <1>0, <1>2, <1>3, <2>1 DEF TypeOK, Fault
  <2>3. pending' \in [Node -> [Node -> Task \cup {None}]]
    BY <1>0, <1>2, <1>3 DEF TypeOK
  <2>4. asked' \in [Task -> Request \cup {None}] /\ todo' \in [Task -> Seq(Request)]
    BY <1>0, <1>1, <1>2, <1>3 DEF TypeOK
  <2>5. queried' \in [Route -> SUBSET Node]
    BY <1>0, <1>2, <1>3 DEF TypeOK
  <2>6. pc' \in [Task -> Stage]
    BY <1>0, <1>3 DEF TypeOK, Stage
  <2> QED
    BY <1>0, <1>3, <2>2, <2>3, <2>4, <2>5, <2>6 DEF TypeOK
<1>5. /\ \A u \in Task \ {t} : pc'[u] = pc[u] /\ todo'[u] = todo[u]
      /\ pc'[t] \in {"asking", "waiting"} /\ todo'[t] = Tail(todo[t])
  BY <1>0, <1>3 DEF TypeOK
<1>6. AnswersKept' /\ RoutesKept'
  BY <1>3, <1>5 DEF IInv, AnswersKept, RoutesKept, Task
<1>7. \A e \in Route \ {t} : queried'[e] = queried[e]
  BY <1>0, <1>3 DEF TypeOK
<1>8. LookupExhaustive'
  BY <1>3, <1>5, <1>7 DEF IInv, LookupExhaustive, Returned, Task
<1>9. LookupsCover'
  <2> SUFFICES ASSUME NEW e \in Route,
                      pc'[e] \in {"asking", "waiting", "answered", "expired"}
               PROVE  Covers(queried'[e], todo'[e], seen'[e])
    BY DEF LookupsCover
  <2>1. CASE e # t
    BY <1>3, <1>5, <1>7, <2>1 DEF IInv, LookupsCover, Task
  <2>2. CASE e = t
    <3>1. Covers(queried[e], todo[e], seen[e])
      BY <1>3, <2>2 DEF IInv, LookupsCover
    <3>2. queried'[e] = queried[e] \cup {r.to} /\ seen' = seen
      BY <1>0, <1>3, <2>2 DEF TypeOK
    <3> SUFFICES ASSUME NEW c \in seen[e], c \notin queried[e], c # r.to
                 PROVE  \E i \in 1..Len(todo'[e]) : todo'[e][i].to = c
      BY <3>2 DEF Covers
    <3>3. PICK i \in 1..Len(todo[e]) : todo[e][i].to = c
      BY <3>1 DEF Covers
    <3>4. i # 1
      BY <1>1, <2>2, <3>3 DEF r
    <3>5. i - 1 \in 1..Len(Tail(todo[e])) /\ Tail(todo[e])[i - 1] = todo[e][i]
      BY <1>1, <2>2, <3>3, <3>4
    <3> QED
      BY <1>5, <2>2, <3>3, <3>5
  <2> QED
    BY <2>1, <2>2
<1> QED
  BY <1>4, <1>6, <1>8, <1>9 DEF IInv

\* A task gives up its wait.
LEMMA WaitEndsStep ==
  ASSUME IInv, NEW t \in Task, Dropped(t) \/ Expire(t) \/ TimedOut(t)
  PROVE  IInv'
<1>0. TypeOK /\ At(t) \in Node
  BY AtIsNode DEF IInv
<1>1. /\ pc[t] \in {"waiting", "expired"}
      /\ \E a \in {"asking", "expired"} : pc' = [pc EXCEPT ![t] = a]
      /\ pending' = pending \/ pending' = [pending EXCEPT ![At(t)][asked[t].to] = None]
      /\ faults' = faults \/ Fault
      /\ UNCHANGED <<env, call, rt, store, cache, net, seen, queried, todo, asked, answer,
                     result>>
  BY DEF Dropped, Expire, TimedOut, GoesOn, tables, lookups
<1>2. /\ \A u \in Task \ {t} : pc'[u] = pc[u]
      /\ pc'[t] \in {"asking", "expired"}
      /\ pc' \in [Task -> Stage]
  BY <1>0, <1>1 DEF TypeOK, Stage
<1>3. TypeOK'
  <2>1. faults' \in 0..env.faults
    BY <1>0, <1>1, EnvAssumption DEF TypeOK, Surroundings, Fault
  <2>2. pending' \in [Node -> [Node -> Task \cup {None}]]
    <3>1. pending \in [Node -> [Node -> Task \cup {None}]]
      BY <1>0 DEF TypeOK
    <3> DEFINE row == [pending[At(t)] EXCEPT ![asked[t].to] = None]
    <3>2. row \in [Node -> Task \cup {None}]
      BY <1>0, <3>1
    <3>3. pending' = pending \/ pending' = [pending EXCEPT ![At(t)] = row]
      BY <1>1
    <3> HIDE DEF row
    <3> QED
      BY <1>0, <3>1, <3>2, <3>3
  <2> QED
    BY <1>0, <1>1, <1>2, <2>1, <2>2 DEF TypeOK
<1>4. AnswersKept' /\ RoutesKept'
  BY <1>1, <1>2 DEF IInv, AnswersKept, RoutesKept, Task
<1>5. LookupsCover' /\ LookupExhaustive'
  BY <1>1, <1>2 DEF IInv, LookupsCover, LookupExhaustive, Returned, Task
<1> QED
  BY <1>3, <1>4, <1>5 DEF IInv

\* What a task was answered ends it or joins the routing table.
LEMMA ResumeStep ==
  ASSUME IInv, NEW t \in Task, Resume(t)
  PROVE  IInv'
<1>0. TypeOK /\ At(t) \in Node
  BY AtIsNode DEF IInv
<1>1. pc[t] = "answered" /\ answer[t] \in Answer
  BY <1>0 DEF Resume, IInv, AnswersKept, TypeOK
<1>2. answer[t].contacts \in SUBSET Node /\ answer[t].value \in Node \cup {None}
  BY <1>1 DEF Answer
<1>3. Merged(At(t), answer[t].contacts) \in SUBSET Node
  BY <1>0, <1>2, MergedType
<1>4. /\ answer' = [answer EXCEPT ![t] = None]
      /\ UNCHANGED <<env, call, store, cache, pending, net, seen, queried, todo, asked, faults>>
      /\ \/ /\ t \in Route /\ answer[t].value # None
            /\ result' = [result EXCEPT ![t] = answer[t].value]
            /\ pc' = [pc EXCEPT ![t] = "found"]
            /\ rt' = rt
         \/ /\ rt' = rt \/ rt' = [rt EXCEPT ![At(t)] = Merged(At(t), answer[t].contacts)]
            /\ pc' = [pc EXCEPT ![t] = "asking"]
            /\ result' = result
  BY DEF Resume, lookups
<1>5. TypeOK'
  <2>1. rt' \in [Node -> SUBSET Node]
    <3>1. rt' = rt \/ rt' = [rt EXCEPT ![At(t)] = Merged(At(t), answer[t].contacts)]
      BY <1>4
    <3>2. \E S \in SUBSET Node : rt' = rt \/ rt' = [rt EXCEPT ![At(t)] = S]
      BY <1>3, <3>1
    <3> QED
      BY <1>0, <3>2 DEF TypeOK
  <2>2. answer' \in [Task -> Answer \cup {None}]
    <3>1. answer \in [Task -> Answer \cup {None}] /\ answer' = [answer EXCEPT ![t] = None]
      BY <1>0, <1>4 DEF TypeOK
    <3> QED
      BY <3>1
  <2>3. result' \in [Route -> Node \cup {None}]
    <3>1. \/ result' = result
          \/ t \in Route /\ result' = [result EXCEPT ![t] = answer[t].value]
      BY <1>4
    <3> QED
      BY <1>0, <1>2, <3>1 DEF TypeOK
  <2>4. pc' \in [Task -> Stage]
    <3>1. \E a \in Stage : pc' = [pc EXCEPT ![t] = a]
      BY <1>4 DEF Stage
    <3> QED
      BY <1>0, <3>1 DEF TypeOK
  <2> QED
    BY <1>0, <1>4, <2>1, <2>2, <2>3, <2>4 DEF TypeOK
<1>6. /\ \A u \in Task \ {t} : pc'[u] = pc[u] /\ answer'[u] = answer[u]
      /\ \A e \in Route \ {t} : result'[e] = result[e]
      /\ \/ pc'[t] = "found" /\ result'[t] # None
         \/ pc'[t] = "asking"
  BY <1>0, <1>4 DEF TypeOK
<1>7. AnswersKept' /\ RoutesKept'
  BY <1>6 DEF IInv, AnswersKept, RoutesKept, Task
<1>8. LookupsCover' /\ LookupExhaustive'
  BY <1>1, <1>4, <1>6 DEF IInv, LookupsCover, LookupExhaustive, Returned, Task
<1> QED
  BY <1>5, <1>7, <1>8 DEF IInv

\* A route starts, misses the cache or is there already.
LEMMA RouteStartsStep ==
  ASSUME IInv, NEW e \in Route, RouteStarts(e) \/ RouteStored(e) \/ RouteFound(e)
  PROVE  IInv'
<1>0. TypeOK /\ e \in Task /\ At(e) \in Node /\ Target(e) \in Node /\ None \notin Node
  BY AtIsNode, NoneAssumption DEF IInv, Task
<1>1. /\ UNCHANGED <<env, call, rt, store, pending, net, seen, queried, todo, asked, answer,
                     faults>>
      /\ \/ /\ result' = [result EXCEPT ![e] = cache[At(e)][Target(e)]]
            /\ cache[At(e)][Target(e)] # None
            /\ cache' = cache
            /\ pc' = [pc EXCEPT ![e] = "returned"]
         \/ result' = result /\ cache' = cache /\ pc' = [pc EXCEPT ![e] = "missed"]
         \/ /\ result' = [result EXCEPT ![e] = Target(e)]
            /\ cache' = [cache EXCEPT ![At(e)][Target(e)] = Target(e)]
            /\ pc' = [pc EXCEPT ![e] = "returned"]
         \/ /\ pc[e] = "found"
            /\ result' = result
            /\ cache' = [cache EXCEPT ![At(e)][Target(e)] = result[e]]
            /\ pc' = [pc EXCEPT ![e] = "returned"]
  BY DEF RouteStarts, RouteCached, RouteMissed, RouteStored, RouteFound, tables, lookups
<1>2. TypeOK'
  <2>1. cache[At(e)][Target(e)] \in Node \cup {None} /\ result[e] \in Node \cup {None}
    BY <1>0 DEF TypeOK
  <2>2. result' \in [Route -> Node \cup {None}]
    <3>1. \E v \in Node \cup {None} : result' = result \/ result' = [result EXCEPT ![e] = v]
      BY <1>0, <1>1, <2>1
    <3> QED
      BY <1>0, <3>1 DEF TypeOK
  <2>3. cache' \in [Node -> [Node -> Node \cup {None}]]
    <3>1. \E v \in Node \cup {None} :
            cache' = cache \/ cache' = [cache EXCEPT ![At(e)][Target(e)] = v]
      BY <1>0, <1>1, <2>1
    <3>2. cache \in [Node -> [Node -> Node \cup {None}]]
      BY <1>0 DEF TypeOK
    <3> SUFFICES ASSUME NEW v \in Node \cup {None},
                        cache' = [cache EXCEPT ![At(e)][Target(e)] = v]
                 PROVE  cache' \in [Node -> [Node -> Node \cup {None}]]
      BY <3>1, <3>2
    <3> DEFINE row == [cache[At(e)] EXCEPT ![Target(e)] = v]
    <3>3. row \in [Node -> Node \cup {None}]
      BY <1>0, <3>2
    <3>4. cache' = [cache EXCEPT ![At(e)] = row]
      OBVIOUS
    <3> HIDE DEF row
    <3>5. At(e) \in Node
      BY <1>0
    <3> QED
      BY <3>2, <3>3, <3>4, <3>5
  <2>4. pc' \in [Task -> Stage]
    <3>1. \E a \in Stage : pc' = [pc EXCEPT ![e] = a]
      BY <1>1 DEF Stage
    <3> QED
      BY <1>0, <3>1 DEF TypeOK
  <2> QED
    BY <1>0, <1>1, <2>2, <2>3, <2>4 DEF TypeOK
<1>3. /\ \A u \in Task \ {e} : pc'[u] = pc[u]
      /\ \A d \in Route \ {e} : result'[d] = result[d]
      /\ \/ pc'[e] = "missed"
         \/ pc'[e] = "returned" /\ result'[e] # None
  <2>1. pc[e] = "found" => result[e] # None
    BY DEF IInv, RoutesKept
  <2> QED
    BY <1>0, <1>1, <2>1 DEF TypeOK
<1>4. AnswersKept' /\ RoutesKept'
  BY <1>1, <1>3 DEF IInv, AnswersKept, RoutesKept, Task
<1>5. LookupsCover' /\ LookupExhaustive'
  BY <1>1, <1>3 DEF IInv, LookupsCover, LookupExhaustive, Returned, Task
<1> QED
  BY <1>2, <1>4, <1>5 DEF IInv

\* A round starts, or the lookup ends.
LEMMA RoundStep ==
  ASSUME IInv, NEW e \in Route, Lookup(e) \/ RoundOver(e)
  PROVE  IInv'
<1> DEFINE S == Closest(At(e), Target(e))
<1>0. TypeOK /\ e \in Task
  BY DEF IInv, Task
<1>1. UNCHANGED <<env, call, rt, store, cache, pending, net, queried, asked, answer, result,
                  faults>>
  BY DEF Lookup, RoundOver, tables
<1>2. ASSUME NEW asking \in SUBSET Node, asking \subseteq queried[e], Round(e, S, asking)
      PROVE  IInv'
  <2>1. /\ seen' \in [Route -> SUBSET Node]
        /\ todo' \in [Task -> Seq(Request)]
        /\ \A d \in Route \ {e} : seen'[d] = seen[d] /\ todo'[d] = todo[d]
        /\ \A t \in Task \ {e} : pc'[t] = pc[t]
        /\ pc' \in [Task -> Stage]
        /\ \/ pc'[e] = "returned" /\ seen'[e] \subseteq asking
           \/ pc'[e] = "asking" /\ Covers(asking, todo'[e], seen'[e])
    BY <1>0, <1>2, RoundCovers
  <2>2. TypeOK'
    BY <1>0, <1>1, <2>1 DEF TypeOK
  <2>3. AnswersKept' /\ RoutesKept'
    BY <1>1, <2>1 DEF IInv, AnswersKept, RoutesKept, Task
  <2>4. LookupsCover'
    <3>1. \A d \in Route \ {e} : pc'[d] = pc[d]
      BY <2>1 DEF Task
    <3>2. \A d \in Route \ {e} : pc[d] \in {"asking", "waiting", "answered", "expired"} =>
            Covers(queried[d], todo[d], seen[d])
      BY DEF IInv, LookupsCover
    <3>3. pc'[e] = "asking" => Covers(queried[e], todo'[e], seen'[e])
      BY <1>2, <2>1 DEF Covers
    <3> QED
      BY <1>1, <2>1, <3>1, <3>2, <3>3 DEF LookupsCover
  <2>5. LookupExhaustive'
    BY <1>1, <1>2, <2>1 DEF IInv, LookupExhaustive, Returned, Task
  <2> QED
    BY <2>2, <2>3, <2>4, <2>5 DEF IInv
<1>3. CASE Lookup(e)
  <2>1. {} \in SUBSET Node /\ {} \subseteq queried[e] /\ Round(e, S, {})
    BY <1>3 DEF Lookup
  <2> QED
    BY <1>2, <2>1
<1>4. CASE RoundOver(e)
  <2>1. CASE Round(e, S, queried[e])
    <3>1. queried[e] \in SUBSET Node
      BY <1>0 DEF TypeOK
    <3> QED
      BY <1>2, <2>1, <3>1
  <2>2. CASE pc' = [pc EXCEPT ![e] = "returned"] /\ UNCHANGED <<seen, todo>>
    <3>1. seen[e] \subseteq queried[e]
      <4>1. pc[e] = "asking" /\ todo[e] = << >>
        BY <1>4 DEF RoundOver
      <4>2. Covers(queried[e], << >>, seen[e])
        BY <4>1 DEF IInv, LookupsCover
      <4>3. Len(<< >>) = 0
        OBVIOUS
      <4> QED
        BY <4>2, <4>3 DEF Covers
    <3>2. (\A u \in Task \ {e} : pc'[u] = pc[u]) /\ pc'[e] = "returned"
      BY <1>0, <2>2 DEF TypeOK
    <3>3. TypeOK'
      BY <1>0, <1>1, <2>2 DEF TypeOK, Stage
    <3>4. AnswersKept' /\ RoutesKept'
      BY <1>1, <3>2 DEF IInv, AnswersKept, RoutesKept, Task
    <3>5. LookupsCover' /\ LookupExhaustive'
      BY <1>1, <2>2, <3>1, <3>2 DEF IInv, LookupsCover, LookupExhaustive, Returned, Task
    <3> QED
      BY <3>3, <3>4, <3>5 DEF IInv
  <2> QED
    BY <1>4, <2>1, <2>2 DEF RoundOver
<1> QED
  BY <1>3, <1>4

\* A starting node has two requests and a store to make for each seed.
LEMMA SeedLists ==
  ASSUME TypeOK, NEW n \in Node
  PROVE  /\ Len(env.seeds[n]) \in Nat
         /\ Bootstrap(n) \in Seq(Request) /\ Len(Bootstrap(n)) = 2 * Len(env.seeds[n])
         /\ StoreSelf(n) \in Seq(Request) /\ Len(StoreSelf(n)) = Len(env.seeds[n])
<1>1. env.seeds \in [Node -> Seq(Node)]
  BY EnvAssumption DEF TypeOK, Surroundings
<1> DEFINE seeds == env.seeds[n]
           len == Len(seeds)
<1>2. seeds \in Seq(Node) /\ len \in Nat /\ \A i \in 1..len : seeds[i] \in Node
  BY <1>1
<1>3. \A s \in Node : \A kind \in {"ping", "find", "store"} : ToSeed(n, s, kind) \in Request
  BY DEF ToSeed, Request
<1> HIDE DEF seeds, len
<1>4. StoreSelf(n) \in Seq(Request) /\ Len(StoreSelf(n)) = len
  BY <1>2, <1>3 DEF StoreSelf, seeds, len
<1>5. \A i \in 1..(2 * len) : (i + 1) \div 2 \in 1..len
  BY <1>2
<1>6. Bootstrap(n) = [i \in 1..(2 * len) |->
                        ToSeed(n, seeds[(i + 1) \div 2], IF i % 2 = 1 THEN "ping" ELSE "find")]
  BY DEF Bootstrap, seeds, len
<1>7. \A i \in 1..(2 * len) :
        ToSeed(n, seeds[(i + 1) \div 2], IF i % 2 = 1 THEN "ping" ELSE "find") \in Request
  BY <1>2, <1>3, <1>5
<1>8. Bootstrap(n) \in Seq(Request) /\ Len(Bootstrap(n)) = 2 * len
  BY <1>2, <1>6, <1>7
<1> QED
  BY <1>2, <1>4, <1>8 DEF seeds, len

\* A node starts to join, or has.
LEMMA JoinStep ==
  ASSUME IInv, NEW n \in Node, Join(n) \/ Joined(n)
  PROVE  IInv'
<1>0. TypeOK /\ n \in Task /\ n \notin Route
  BY NodesAssumption DEF IInv, Task
<1>1. Bootstrap(n) \o StoreSelf(n) \in Seq(Request)
  BY <1>0, SeedLists
<1>2. /\ UNCHANGED <<env, call, rt, store, cache, pending, net, seen, queried, asked, answer,
                     result, faults>>
      /\ \E a \in {"asking", "returned"} : pc' = [pc EXCEPT ![n] = a]
      /\ todo' = todo \/ todo' = [todo EXCEPT ![n] = Bootstrap(n) \o StoreSelf(n)]
  BY DEF Join, Joined, tables, lookups
<1>3. TypeOK'
  <2>1. todo' \in [Task -> Seq(Request)]
    BY <1>0, <1>1, <1>2 DEF TypeOK
  <2>2. pc' \in [Task -> Stage]
    BY <1>0, <1>2 DEF TypeOK, Stage
  <2> QED
    BY <1>0, <1>2, <2>1, <2>2 DEF TypeOK
<1>4. /\ \A u \in Task \ {n} : pc'[u] = pc[u] /\ todo'[u] = todo[u]
      /\ pc'[n] \in {"asking", "returned"}
  BY <1>0, <1>2 DEF TypeOK
<1>5. \A e \in Route : e \in Task \ {n}
  BY <1>0 DEF Task
<1>6. AnswersKept' /\ RoutesKept'
  BY <1>2, <1>4, <1>5 DEF IInv, AnswersKept, RoutesKept
<1>7. LookupsCover' /\ LookupExhaustive'
  BY <1>2, <1>4, <1>5 DEF IInv, LookupsCover, LookupExhaustive, Returned
<1> QED
  BY <1>3, <1>6, <1>7 DEF IInv

\* A datagram arrives: an answer for a task that waits, or a request.
LEMMA ReceiveStep ==
  ASSUME IInv, NEW m \in net, Receive(m)
  PROVE  IInv'
<1>0. TypeOK /\ m \in Asked \cup Answer
  BY DEF IInv, TypeOK
<1>1. CASE TakeAnswer(m)
  <2> DEFINE t == pending[m.to][m.from]
  <2>1. m \in Answer /\ m.to \in Node /\ m.from \in Node
    BY <1>0, <1>1, Kinds DEF TakeAnswer, Answer
  <2>2. t \in Task \cup {None} /\ m # None /\ None \notin Task
    BY <1>0, <2>1, NoneAssumption DEF TypeOK
  <2>3. /\ UNCHANGED <<env, call, rt, store, cache, seen, queried, todo, asked, result, faults>>
        /\ net' = net \ {m}
        /\ \/ UNCHANGED <<pending, answer, pc>>
           \/ /\ t \in Task
              /\ pending' = [pending EXCEPT ![m.to][m.from] = None]
              /\ \/ UNCHANGED <<answer, pc>>
                 \/ /\ pc[t] = "waiting"
                    /\ answer' = [answer EXCEPT ![t] = m]
                    /\ pc' = [pc EXCEPT ![t] = "answered"]
    BY <1>1, <2>2 DEF TakeAnswer, AnswerRouted, Waits, tables, lookups
  <2> HIDE DEF t
  <2>4. TypeOK'
    <3>1. pending' \in [Node -> [Node -> Task \cup {None}]]
      <4>1. pending \in [Node -> [Node -> Task \cup {None}]]
        BY <1>0 DEF TypeOK
      <4> DEFINE row == [pending[m.to] EXCEPT ![m.from] = None]
      <4>2. row \in [Node -> Task \cup {None}]
        BY <2>1, <4>1
      <4>3. pending' = pending \/ pending' = [pending EXCEPT ![m.to] = row]
        BY <2>3
      <4> HIDE DEF row
      <4> QED
        BY <2>1, <4>1, <4>2, <4>3
    <3>2. answer' \in [Task -> Answer \cup {None}]
      <4>1. answer' = answer \/ (t \in Task /\ answer' = [answer EXCEPT ![t] = m])
        BY <2>3
      <4> QED
        BY <1>0, <2>1, <4>1 DEF TypeOK
    <3>3. pc' \in [Task -> Stage]
      <4>1. pc' = pc \/ (t \in Task /\ pc' = [pc EXCEPT ![t] = "answered"])
        BY <2>3
      <4> QED
        BY <1>0, <4>1 DEF TypeOK, Stage
    <3> QED
      BY <1>0, <2>3, <3>1, <3>2, <3>3 DEF TypeOK
  <2>5. \A u \in Task :
          \/ pc'[u] = pc[u] /\ answer'[u] = answer[u]
          \/ pc[u] = "waiting" /\ pc'[u] = "answered" /\ answer'[u] = m
    BY <1>0, <2>3 DEF TypeOK
  <2>6. AnswersKept' /\ RoutesKept'
    BY <2>2, <2>3, <2>5 DEF IInv, AnswersKept, RoutesKept, Task
  <2>7. LookupsCover' /\ LookupExhaustive'
    BY <2>3, <2>5 DEF IInv, LookupsCover, LookupExhaustive, Returned, Task
  <2> QED
    BY <2>4, <2>6, <2>7 DEF IInv
<1>2. CASE ServePing(m) \/ ServeFind(m) \/ ServeStore(m)
  <2>1. m \in Asked /\ m.to \in Node /\ m.from \in Node /\ m.key \in Node /\ m.task \in Task
    BY <1>0, <1>2, Kinds DEF ServePing, ServeFind, ServeStore, Asked
  <2>2. Closest(m.to, m.key) \in SUBSET Node /\ Merged(m.to, {m.key}) \in SUBSET Node
    BY <1>0, <2>1, ClosestType, MergedType
  <2>3. \A kind \in {"pong", "found"}, S \in SUBSET Node, v \in Node \cup {None} :
          Reply(m, kind, S, v) \in Answer
    BY <2>1 DEF Reply, Answer
  <2>4. /\ UNCHANGED <<env, call, cache, pending, pc, seen, queried, todo, asked, answer, result,
                       faults>>
        /\ \/ rt' = rt /\ store' = store
           \/ /\ rt' = [rt EXCEPT ![m.to] = Merged(m.to, {m.key})]
              /\ store' = [store EXCEPT ![m.to] = @ \cup {m.key}]
    BY <1>2 DEF ServePing, ServeFind, ServeStore, tables, lookups
  <2>5. net' \subseteq Asked \cup Answer
    <3>1. net' = net \ {m} \/ \E a \in Answer : net' = (net \ {m}) \cup {a}
      BY <1>2, <2>1, <2>2, <2>3 DEF ServePing, ServeFind, ServeStore
    <3> QED
      BY <1>0, <3>1 DEF TypeOK
  <2>6. rt' \in [Node -> SUBSET Node] /\ store' \in [Node -> SUBSET Node]
    <3>1. rt \in [Node -> SUBSET Node] /\ store \in [Node -> SUBSET Node]
      BY <1>0 DEF TypeOK
    <3>2. rt' \in [Node -> SUBSET Node]
      BY <2>1, <2>2, <2>4, <3>1
    <3>3. store[m.to] \cup {m.key} \in SUBSET Node
      BY <2>1, <3>1
    <3>4. store' \in [Node -> SUBSET Node]
      BY <2>1, <2>4, <3>1, <3>3
    <3> QED
      BY <3>2, <3>4
  <2>7. TypeOK'
    BY <1>0, <2>4, <2>5, <2>6 DEF TypeOK
  <2> QED
    BY <2>4, <2>7
    DEF IInv, AnswersKept, RoutesKept, LookupsCover, LookupExhaustive, Returned
<1> QED
  BY <1>1, <1>2 DEF Receive

-----------------------------------------------------------------------------
(* The theorems.                                                           *)

LEMMA Invariance == Spec => []IInv
<1>1. ASSUME IInv, [Next]_vars PROVE IInv'
  <2>1. ASSUME NEW e \in Route, RouteStarts(e) PROVE IInv'
    BY <1>1, <2>1, RouteStartsStep
  <2>2. ASSUME NEW t \in Task, Proceeds(t) PROVE IInv'
    <3>1. CASE AskNext(t)
      BY <1>1, <3>1, AskNextStep
    <3>2. CASE Dropped(t) \/ Expire(t) \/ TimedOut(t)
      BY <1>1, <3>2, WaitEndsStep
    <3>3. CASE Resume(t)
      BY <1>1, <3>3, ResumeStep
    <3>4. CASE t \in Route /\ (RouteStored(t) \/ RouteFound(t))
      BY <1>1, <3>4, RouteStartsStep
    <3>5. CASE t \in Route /\ (Lookup(t) \/ RoundOver(t))
      BY <1>1, <3>5, RoundStep
    <3>6. CASE t \in Node /\ (Join(t) \/ Joined(t))
      BY <1>1, <3>6, JoinStep
    <3> QED
      BY <2>2, <3>1, <3>2, <3>3, <3>4, <3>5, <3>6 DEF Proceeds
  <2>3. ASSUME NEW m \in net, Receive(m) PROVE IInv'
    BY <1>1, <2>3, ReceiveStep
  <2>4. ASSUME NEW m \in net, Lose(m) PROVE IInv'
    <3>1. /\ UNCHANGED <<env, call, rt, store, cache, pending, pc, seen, queried, todo, asked,
                         answer, result>>
          /\ net' = net \ {m} /\ Fault
      BY <2>4 DEF Lose, tables, lookups
    <3>2. faults' \in 0..env.faults
      BY <1>1, <3>1, EnvAssumption DEF IInv, TypeOK, Surroundings, Fault
    <3>3. TypeOK'
      BY <1>1, <3>1, <3>2 DEF IInv, TypeOK
    <3> QED
      BY <1>1, <3>1, <3>3
      DEF IInv, AnswersKept, RoutesKept, LookupsCover, LookupExhaustive, Returned
  <2>5. CASE UNCHANGED vars
    BY <1>1, <2>5
    DEF vars, IInv, TypeOK, AnswersKept, RoutesKept, LookupsCover, LookupExhaustive, Returned
  <2>6. Finished => UNCHANGED vars
    BY DEF Finished
  <2> QED
    BY <1>1, <2>1, <2>2, <2>3, <2>4, <2>5, <2>6 DEF Next
<1> QED
  BY InitIInv, <1>1, PTL DEF Spec

\* Tables, lookups and datagrams are what kademlia.rs makes them in every reachable
\* state: no task is answered by nothing, and no table holds more than nodes.
THEOREM TypeCorrect == Spec => []TypeOK
<1>1. IInv => TypeOK
  BY DEF IInv
<1> QED
  BY <1>1, Invariance, PTL

\* A lookup that ends without a descriptor has asked every contact it then held for
\* nearest (kademlia.rs:195), whatever is lost, late or handed to another.
THEOREM LookupsAskAll == Spec => []LookupExhaustive
<1>1. IInv => LookupExhaustive
  BY DEF IInv
<1> QED
  BY <1>1, Invariance, PTL

-----------------------------------------------------------------------------
(* While nothing is lost and a node's tasks run one at a time: the         *)
(* inductive invariant, task by task.                                      *)

Active(t) == pc[t] \notin {"idle", "returned"}

\* A node has one task under way.
OneTask == \A t, u \in Task : Active(t) /\ Active(u) /\ At(t) = At(u) => t = u

\* What an answer a to the request r tells: a value is of the key asked for, and the node
\* whose descriptor is asked for gives it. A store is not answered.
Answers(r, a) ==
  /\ r.kind # "store"
  /\ a.value \in {None, r.key}
  /\ r.kind = "find" /\ r.want /\ r.to = r.key => a.value = r.key

Asks(r, t) ==
  [kind |-> r.kind, to |-> r.to, key |-> r.key, want |-> r.want, from |-> At(t), task |-> t]

\* A datagram under way is the request a task waits on, or the answer to it.
Carries(m, t) ==
  /\ pc[t] = "waiting"
  /\ \/ m = Asks(asked[t], t)
     \/ /\ m.kind \in {"pong", "found"}
        /\ m.to = At(t) /\ m.from = asked[t].to
        /\ Answers(asked[t], m)

Stored(r) == r.kind = "store" /\ r.key \in store[r.to]

\* A task that waits has its sender kept for the address, and one datagram under way; or it
\* has asked for a descriptor to be kept, and it is.
Waited(t) ==
  /\ \A m \in net : m.task = t => Carries(m, t)
  /\ \A m, k \in net : m.task = t /\ k.task = t => m = k
  /\ pc[t] = "waiting" =>
       /\ pending[At(t)][asked[t].to] = t
       /\ (\E m \in net : m.task = t) \/ Stored(asked[t])

Requested(t) ==
  /\ pc[t] \in {"waiting", "answered", "expired"} => asked[t] \in Request
  /\ pc[t] = "answered" => Answers(asked[t], answer[t])
  /\ pc[t] = "expired" => Stored(asked[t])

\* A route asks for its target's descriptor only; once it has asked the target itself it
\* waits for, or has, the descriptor.
Looks(e, r) == r.kind = "find" /\ r.key = Target(e) /\ r.want

RouteAsks(e) ==
  /\ \A i \in 1..Len(todo[e]) : Looks(e, todo[e][i])
  /\ pc[e] \in {"waiting", "answered", "expired"} => Looks(e, asked[e])
  /\ IF pc[e] = "found" \/ (pc[e] = "returned" /\ result[e] # None)
       THEN result[e] = Target(e)
       ELSE /\ result[e] = None
            /\ Target(e) \in queried[e] =>
                 pc[e] \in {"waiting", "answered"} /\ asked[e].to = Target(e)

\* A seed keeps the descriptor of a node that has started, or will be, or is being asked to.
SeedsToCome(n) ==
  pc[n] # "idle" => \A i \in 1..Len(env.seeds[n]) :
    LET r == ToSeed(n, env.seeds[n][i], "store") IN
    \/ n \in store[env.seeds[n][i]]
    \/ pc[n] # "returned" /\ \E j \in 1..Len(todo[n]) : todo[n][j] = r
    \/ pc[n] = "waiting" /\ asked[n] = r

Keeps(t) ==
  /\ Waited(t)
  /\ Requested(t)
  /\ t \in Route => RouteAsks(t)
  /\ t \in Node => SeedsToCome(t)

\* A node keeps its own descriptor, and caches each under its own id.
OwnKept == \A n, m \in Node : n \in store[n] /\ cache[n][m] \in {None, m}

QInv == OneTask /\ OwnKept /\ \A t \in Task : Keeps(t)

-----------------------------------------------------------------------------
(* A step of one task, seen from the others.                               *)

OthersStay(t) ==
  /\ UNCHANGED <<env, call>>
  /\ \A u \in Task \ {t} :
       pc'[u] = pc[u] /\ asked'[u] = asked[u] /\ answer'[u] = answer[u] /\ todo'[u] = todo[u]
  /\ \A e \in Route \ {t} : queried'[e] = queried[e] /\ result'[e] = result[e]
  /\ \A m \in net \cup net' : m.task # t => (m \in net <=> m \in net')
  /\ \/ pending' = pending
     \/ Active(t) /\ \A n \in Node \ {At(t)} : pending'[n] = pending[n]
  /\ \A n \in Node : store[n] \subseteq store'[n]

\* The one that starts is alone at its node.
Alone(t) == Active(t) \/ \A u \in Task \ {t} : At(u) = At(t) => ~ Active(u)

LEMMA NodesStay ==
  ASSUME UNCHANGED call
  PROVE  \A t : At(t)' = At(t) /\ Target(t)' = Target(t)
BY DEF At, Target

LEMMA OthersKeep ==
  ASSUME TypeOK, OneTask, NEW t \in Task, OthersStay(t), NEW u \in Task \ {t}, Keeps(u)
  PROVE  Keeps(u)'
<1>0. /\ At(u)' = At(u) /\ Target(u)' = Target(u) /\ At(u) \in Node
      /\ pc'[u] = pc[u] /\ asked'[u] = asked[u] /\ answer'[u] = answer[u] /\ todo'[u] = todo[u]
      /\ env' = env
  BY NodesStay, AtIsNode DEF OthersStay
<1>1. asked[u] \in Request /\ Stored(asked[u]) => Stored(asked[u])'
  BY <1>0 DEF OthersStay, Stored, Request
<1>2. \A m : m \in net /\ m.task = u <=> m \in net' /\ m.task = u
  BY DEF OthersStay
<1>3. Requested(u)'
  <2>1. \A r, a : Answers(r, a) => Answers(r, a)'
    BY DEF Answers
  <2> QED
    BY <1>0, <1>1, <2>1 DEF Keeps, Requested
<1>4. Waited(u)'
  <2>1. \A m : Carries(m, u) => Carries(m, u)'
    BY <1>0 DEF Carries, Asks, Answers
  <2>2. pc[u] = "waiting" => pending'[At(u)] = pending[At(u)]
    BY <1>0 DEF OneTask, OthersStay, Active
  <2>3. pc[u] = "waiting" => asked[u] \in Request
    BY DEF Keeps, Requested
  <2>4. \A m \in net' : m.task = u => Carries(m, u)'
    BY <1>2, <2>1 DEF Keeps, Waited
  <2>5. \A m, k \in net' : m.task = u /\ k.task = u => m = k
    BY <1>2 DEF Keeps, Waited
  <2>6. ASSUME pc[u] = "waiting"
        PROVE  /\ pending'[At(u)][asked[u].to] = u
               /\ (\E m \in net' : m.task = u) \/ Stored(asked[u])'
    BY <1>1, <1>2, <2>2, <2>3, <2>6 DEF Keeps, Waited
  <2> QED
    BY <1>0, <2>4, <2>5, <2>6 DEF Waited
<1>5. u \in Route => RouteAsks(u)'
  <2>1. \A r : Looks(u, r)' <=> Looks(u, r)
    BY <1>0 DEF Looks
  <2>2. u \in Route => queried'[u] = queried[u] /\ result'[u] = result[u]
    BY DEF OthersStay
  <2> QED
    BY <1>0, <2>1, <2>2 DEF Keeps, RouteAsks
<1>6. u \in Node => SeedsToCome(u)'
  <2> SUFFICES ASSUME u \in Node, pc[u] # "idle", NEW i \in 1..Len(env.seeds[u])
               PROVE  LET r == ToSeed(u, env.seeds[u][i], "store") IN
                      \/ u \in store'[env.seeds[u][i]]
                      \/ pc[u] # "returned" /\ \E j \in 1..Len(todo[u]) : todo[u][j] = r
                      \/ pc[u] = "waiting" /\ asked[u] = r
    BY <1>0 DEF SeedsToCome, ToSeed
  <2>1. env.seeds[u][i] \in Node
    BY EnvAssumption DEF TypeOK, Surroundings
  <2> QED
    BY <2>1 DEF Keeps, SeedsToCome, OthersStay
<1> QED
  BY <1>3, <1>4, <1>5, <1>6 DEF Keeps

LEMMA StepOf ==
  ASSUME TypeOK, QInv, NEW t \in Task, OthersStay(t), Alone(t), OwnKept', Keeps(t)'
  PROVE  QInv'
<1>1. \A u \in Task : Keeps(u)'
  BY OthersKeep DEF QInv
<1>2. OneTask'
  <2>1. \A u : At(u)' = At(u)
    BY NodesStay DEF OthersStay
  <2>2. \A u \in Task \ {t} : pc'[u] = pc[u]
    BY DEF OthersStay
  <2> QED
    BY <2>1, <2>2 DEF QInv, OneTask, Alone, Active
<1> QED
  BY <1>1, <1>2 DEF QInv

-----------------------------------------------------------------------------
(* The steps.                                                              *)

LEMMA NoFault == TypeOK /\ Calm => ~ Fault
BY EnvAssumption DEF TypeOK, Calm, Fault, Surroundings

\* A task that does not wait has nothing under way.
LEMMA Quiet ==
  ASSUME QInv, NEW t \in Task, pc[t] # "waiting"
  PROVE  \A m \in net : m.task # t
BY DEF QInv, Keeps, Waited, Carries

\* The next request is made, and goes out.
LEMMA CalmAskNext ==
  ASSUME TypeOK, Calm, QInv, NEW t \in Task, AskNext(t)
  PROVE  QInv'
<1>0. At(t) \in Node /\ At(t)' = At(t) /\ (t \in Route => Target(t)' = Target(t))
  BY AtIsNode, NodesStay DEF AskNext, tables
<1>r. PICK r \in Request : r = Head(todo[t])
  BY DEF AskNext, TypeOK
<1>q. PICK q : q = Asks(r, t)
  OBVIOUS
<1>1. /\ todo[t] \in Seq(Request) /\ todo[t] # << >> /\ r = todo[t][1]
      /\ Len(Tail(todo[t])) = Len(todo[t]) - 1 /\ Len(todo[t]) \in Nat \ {0}
      /\ \A i \in 1..Len(Tail(todo[t])) : Tail(todo[t])[i] = todo[t][i + 1]
  BY <1>r DEF AskNext, TypeOK
<1>2. r.to \in Node /\ q.task = t
  BY <1>q DEF Request, Asks
<1>3. /\ pc[t] = "asking"
      /\ todo' = [todo EXCEPT ![t] = Tail(todo[t])]
      /\ pending' = [pending EXCEPT ![At(t)][r.to] = t]
      /\ asked' = [asked EXCEPT ![t] = r]
      /\ net' = net \cup {q} /\ pc' = [pc EXCEPT ![t] = "waiting"]
      /\ queried' = IF t \in Route THEN [queried EXCEPT ![t] = @ \cup {r.to}] ELSE queried
      /\ UNCHANGED <<env, call, store, cache, answer, result>>
  BY <1>r, <1>q, NoFault DEF AskNext, Rpc, tables, Asks
<1>4. \A m \in net : m.task # t
  BY <1>3, Quiet
<1>5. /\ todo'[t] = Tail(todo[t]) /\ asked'[t] = r /\ pc'[t] = "waiting"
      /\ pending'[At(t)][r.to] = t
      /\ \A n \in Node \ {At(t)} : pending'[n] = pending[n]
      /\ \A u \in Task \ {t} : pc'[u] = pc[u] /\ asked'[u] = asked[u] /\ todo'[u] = todo[u]
      /\ \A e \in Route \ {t} : queried'[e] = queried[e]
      /\ t \in Route => queried'[t] = queried[t] \cup {r.to}
  BY <1>0, <1>2, <1>3 DEF TypeOK
<1>6. OthersStay(t) /\ Alone(t)
  BY <1>2, <1>3, <1>5 DEF OthersStay, Alone, Active
<1>7. Waited(t)'
  <2>1. Carries(q, t)'
    BY <1>0, <1>q, <1>5 DEF Carries, Asks
  <2> QED
    BY <1>0, <1>2, <1>3, <1>4, <1>5, <2>1 DEF Waited
<1>8. Requested(t)'
  BY <1>1, <1>5 DEF Requested
<1>9. t \in Route => RouteAsks(t)'
  <2> SUFFICES ASSUME t \in Route PROVE RouteAsks(t)'
    OBVIOUS
  <2>1. RouteAsks(t)
    BY DEF QInv, Keeps
  <2>2. Looks(t, r) /\ \A i \in 1..Len(Tail(todo[t])) : Looks(t, Tail(todo[t])[i])
    BY <1>1, <2>1 DEF RouteAsks
  <2>3. \A x : Looks(t, x)' <=> Looks(t, x)
    BY <1>0 DEF Looks
  <2>4. result'[t] = None /\ Target(t) \notin queried[t]
    BY <1>3, <2>1 DEF RouteAsks
  <2> QED
    BY <1>0, <1>3, <1>5, <2>2, <2>3, <2>4 DEF RouteAsks
<1>10. t \in Node => SeedsToCome(t)'
  <2> SUFFICES ASSUME t \in Node, NEW i \in 1..Len(env.seeds[t])
               PROVE  LET w == ToSeed(t, env.seeds[t][i], "store") IN
                      \/ t \in store[env.seeds[t][i]]
                      \/ \E j \in 1..Len(Tail(todo[t])) : Tail(todo[t])[j] = w
                      \/ r = w
    <3>1. env' = env /\ store' = store
      BY <1>3
    <3> QED
      BY <1>5, <3>1 DEF SeedsToCome
  <2> DEFINE w == ToSeed(t, env.seeds[t][i], "store")
  <2>1. t \in store[env.seeds[t][i]] \/ \E j \in 1..Len(todo[t]) : todo[t][j] = w
    BY <1>3 DEF QInv, Keeps, SeedsToCome
  <2> HIDE DEF w
  <2>2. ASSUME NEW j \in 1..Len(todo[t]), todo[t][j] = w, j # 1
        PROVE  \E k \in 1..Len(Tail(todo[t])) : Tail(todo[t])[k] = w
    <3>1. j - 1 \in 1..Len(Tail(todo[t])) /\ Tail(todo[t])[j - 1] = todo[t][j]
      BY <1>1, <2>2
    <3> QED
      BY <2>2, <3>1
  <2>3. \/ t \in store[env.seeds[t][i]]
        \/ \E j \in 1..Len(Tail(todo[t])) : Tail(todo[t])[j] = w
        \/ r = w
    BY <1>1, <2>1, <2>2
  <2> QED
    BY <2>3 DEF w
<1>11. OwnKept'
  BY <1>3 DEF QInv, OwnKept
<1> QED
  BY <1>6, <1>7, <1>8, <1>9, <1>10, <1>11, StepOf DEF Keeps

\* A wait ends without an answer only after a store, which its node has served by then.
LEMMA CalmWaitEnds ==
  ASSUME TypeOK, Calm, QInv, NEW t \in Task, Dropped(t) \/ Expire(t) \/ TimedOut(t)
  PROVE  QInv'
<1>0. /\ At(t) \in Node /\ At(t)' = At(t) /\ \A r : Stored(r)' <=> Stored(r)
      /\ Waited(t) /\ Requested(t) /\ (t \in Route => RouteAsks(t)) /\ (t \in Node => SeedsToCome(t))
  BY AtIsNode, NodesStay DEF Dropped, Expire, TimedOut, tables, Stored, QInv, Keeps
<1>1. /\ ~ Dropped(t)
      /\ pc[t] \in {"waiting", "expired"}
      /\ \A m \in net : m.task # t
      /\ Stored(asked[t]) /\ asked[t] \in Request
  <2>1. CASE Expire(t)
    BY <1>0, <2>1, NoFault DEF Expire, Dropped, Waited, Requested
  <2>2. CASE TimedOut(t)
    BY <1>0, <2>2, Quiet DEF TimedOut, Dropped, Requested
  <2> QED
    BY <1>0, <2>1, <2>2 DEF Dropped, Waited
<1>2. /\ UNCHANGED <<env, call, store, cache, net, queried, todo, asked, answer, result>>
      /\ \E a \in {"asking", "expired"} : pc' = [pc EXCEPT ![t] = a]
      /\ pending' = pending \/ pending' = [pending EXCEPT ![At(t)][asked[t].to] = None]
  BY DEF Dropped, Expire, TimedOut, GoesOn, tables, lookups
<1>3. /\ pc'[t] \in {"asking", "expired"}
      /\ \A u \in Task \ {t} : pc'[u] = pc[u]
      /\ \A n \in Node \ {At(t)} : pending'[n] = pending[n]
  BY <1>0, <1>2 DEF TypeOK
<1>4. OthersStay(t) /\ Alone(t)
  BY <1>1, <1>2, <1>3 DEF OthersStay, Alone, Active
<1>5. Waited(t)' /\ Requested(t)'
  BY <1>0, <1>1, <1>2, <1>3 DEF Waited, Requested
<1>6. ~ (t \in Route)
  BY <1>0, <1>1 DEF RouteAsks, Looks, Stored
<1>7. t \in Node => SeedsToCome(t)'
  <2> SUFFICES ASSUME t \in Node, NEW i \in 1..Len(env.seeds[t])
               PROVE  LET w == ToSeed(t, env.seeds[t][i], "store") IN
                      \/ t \in store[env.seeds[t][i]]
                      \/ \E j \in 1..Len(todo[t]) : todo[t][j] = w
    BY <1>2, <1>3 DEF SeedsToCome, ToSeed
  <2>1. asked[t] = ToSeed(t, env.seeds[t][i], "store") => t \in store[env.seeds[t][i]]
    BY <1>1 DEF Stored, ToSeed
  <2> QED
    BY <1>0, <1>1, <2>1 DEF SeedsToCome
<1>8. OwnKept'
  BY <1>2 DEF QInv, OwnKept
<1> QED
  BY <1>4, <1>5, <1>6, <1>7, <1>8, StepOf DEF Keeps

\* A route that asked its target is told its descriptor.
LEMMA CalmResume ==
  ASSUME TypeOK, QInv, NEW t \in Task, Resume(t)
  PROVE  QInv'
<1>0. /\ At(t) \in Node /\ At(t)' = At(t) /\ Target(t)' = Target(t)
      /\ Waited(t) /\ Requested(t) /\ (t \in Route => RouteAsks(t)) /\ (t \in Node => SeedsToCome(t))
  BY AtIsNode, NodesStay DEF Resume, QInv, Keeps
<1>1. /\ pc[t] = "answered" /\ asked[t] \in Request /\ Answers(asked[t], answer[t])
      /\ \A m \in net : m.task # t
  BY <1>0, Quiet DEF Resume, Requested
<1>2. /\ UNCHANGED <<env, call, store, cache, pending, net, queried, todo, asked>>
      /\ answer' = [answer EXCEPT ![t] = None]
      /\ \/ /\ t \in Route /\ answer[t].value # None
            /\ result' = [result EXCEPT ![t] = answer[t].value]
            /\ pc' = [pc EXCEPT ![t] = "found"]
         \/ /\ t \in Route => answer[t].value = None
            /\ pc' = [pc EXCEPT ![t] = "asking"]
            /\ result' = result
  BY DEF Resume, lookups
<1>3. /\ \A u \in Task \ {t} : pc'[u] = pc[u] /\ answer'[u] = answer[u]
      /\ \A e \in Route \ {t} : result'[e] = result[e]
      /\ \/ t \in Route /\ pc'[t] = "found" /\ result'[t] = answer[t].value /\ answer[t].value # None
         \/ /\ t \in Route => answer[t].value = None
            /\ pc'[t] = "asking" /\ result' = result
  BY <1>0, <1>2 DEF TypeOK
<1>4. OthersStay(t) /\ Alone(t)
  BY <1>1, <1>2, <1>3 DEF OthersStay, Alone, Active
<1>5. Waited(t)' /\ Requested(t)'
  BY <1>1, <1>2, <1>3 DEF Waited, Requested
<1>6. t \in Route => RouteAsks(t)'
  <2> SUFFICES ASSUME t \in Route PROVE RouteAsks(t)'
    OBVIOUS
  <2>1. \A r : Looks(t, r)' <=> Looks(t, r)
    BY <1>0 DEF Looks
  <2>2. /\ Looks(t, asked[t]) /\ \A i \in 1..Len(todo[t]) : Looks(t, todo[t][i])
        /\ result[t] = None /\ (Target(t) \in queried[t] => asked[t].to = Target(t))
    BY <1>0, <1>1 DEF RouteAsks
  <2>3. /\ answer[t].value \in {None, Target(t)}
        /\ Target(t) \in queried[t] => answer[t].value = Target(t)
    BY <1>1, <2>2 DEF Answers, Looks
  <2>4. Target(t) \in Node /\ None \notin Node
    BY AtIsNode, NoneAssumption DEF Task
  <2> QED
    BY <1>0, <1>2, <1>3, <2>1, <2>2, <2>3, <2>4 DEF RouteAsks
<1>7. t \in Node => SeedsToCome(t)'
  BY <1>0, <1>1, <1>2, <1>3, NodesAssumption DEF SeedsToCome, ToSeed
<1>8. OwnKept'
  BY <1>2 DEF QInv, OwnKept
<1> QED
  BY <1>4, <1>5, <1>6, <1>7, <1>8, StepOf DEF Keeps

\* A task that starts is alone at its node.
LEMMA StartsAlone ==
  ASSUME Calm, NEW t \in Task, Active(t) \/ MayStart(t)
  PROVE  Alone(t)
BY DEF Calm, MayStart, Alone, Active

\* A route that is there already, or has been found, is that of its target.
LEMMA CalmRouteStarts ==
  ASSUME TypeOK, Calm, QInv, NEW e \in Route, RouteStarts(e) \/ RouteStored(e) \/ RouteFound(e)
  PROVE  QInv'
<1>0. /\ e \in Task /\ e \notin Node /\ At(e) \in Node /\ Target(e) \in Node /\ None \notin Node
      /\ Waited(e) /\ Requested(e) /\ RouteAsks(e) /\ OwnKept
  BY AtIsNode, NodesAssumption, NoneAssumption DEF Task, QInv, Keeps
<1>1. /\ UNCHANGED <<env, call, store, pending, net, queried, todo, asked, answer>>
      /\ \/ /\ pc[e] = "idle" /\ MayStart(e)
            /\ cache' = cache
            /\ \/ /\ result' = [result EXCEPT ![e] = cache[At(e)][Target(e)]]
                  /\ cache[At(e)][Target(e)] # None
                  /\ pc' = [pc EXCEPT ![e] = "returned"]
               \/ result' = result /\ pc' = [pc EXCEPT ![e] = "missed"]
         \/ /\ pc[e] = "missed"
            /\ result' = [result EXCEPT ![e] = Target(e)]
            /\ cache' = [cache EXCEPT ![At(e)][Target(e)] = Target(e)]
            /\ pc' = [pc EXCEPT ![e] = "returned"]
         \/ /\ pc[e] = "found"
            /\ result' = result
            /\ cache' = [cache EXCEPT ![At(e)][Target(e)] = result[e]]
            /\ pc' = [pc EXCEPT ![e] = "returned"]
  BY DEF RouteStarts, RouteCached, RouteMissed, RouteStored, RouteFound, tables, lookups
<1>2. At(e)' = At(e) /\ Target(e)' = Target(e)
  BY <1>1, NodesStay
<1>3. /\ pc[e] \in {"idle", "missed", "found"} /\ pc'[e] \in {"missed", "returned"}
      /\ \A u \in Task \ {e} : pc'[u] = pc[u]
      /\ \A d \in Route \ {e} : result'[d] = result[d]
  <2>1. \E a \in {"missed", "returned"} : pc' = [pc EXCEPT ![e] = a]
    BY <1>1
  <2>2. \E v \in Node \cup {None} : result' = result \/ result' = [result EXCEPT ![e] = v]
    BY <1>0, <1>1 DEF TypeOK
  <2> QED
    BY <1>0, <1>1, <2>1, <2>2 DEF TypeOK
<1>4. OthersStay(e)
  BY <1>1, <1>3 DEF OthersStay
<1>5. Alone(e)
  BY <1>0, <1>1, StartsAlone DEF Active
<1>6. Waited(e)' /\ Requested(e)'
  <2>1. \A m \in net : m.task # e
    BY <1>0, <1>3, Quiet
  <2> QED
    BY <1>1, <1>3, <2>1 DEF Waited, Requested
<1>7. pc[e] = "found" => result[e] = Target(e)
  BY <1>0 DEF RouteAsks
<1>8. OwnKept'
  <2>1. \/ cache' = cache
        \/ cache' = [cache EXCEPT ![At(e)][Target(e)] = Target(e)]
    BY <1>1, <1>7
  <2>2. cache \in [Node -> [Node -> Node \cup {None}]]
    BY DEF TypeOK
  <2>3. \A n, m \in Node : cache'[n][m] = cache[n][m] \/ cache'[n][m] = m
    BY <1>0, <2>1, <2>2
  <2> QED
    BY <1>0, <1>1, <2>3 DEF OwnKept
<1>9. RouteAsks(e)'
  <2>1. \A r : Looks(e, r)' <=> Looks(e, r)
    BY <1>2 DEF Looks
  <2>2. \A i \in 1..Len(todo[e]) : Looks(e, todo[e][i])
    BY <1>0 DEF RouteAsks
  <2>3. pc[e] # "found" => result[e] = None /\ Target(e) \notin queried[e]
    BY <1>0, <1>3 DEF RouteAsks
  <2>4. \/ pc'[e] = "returned" /\ result'[e] = Target(e)
        \/ pc'[e] = "missed" /\ result'[e] = None /\ Target(e) \notin queried[e]
    <3>1. cache[At(e)][Target(e)] \in {None, Target(e)}
      BY <1>0 DEF OwnKept
    <3> QED
      BY <1>0, <1>1, <1>7, <2>3, <3>1 DEF TypeOK
  <2> QED
    BY <1>0, <1>1, <1>2, <2>1, <2>2, <2>4 DEF RouteAsks
<1> QED
  BY <1>0, <1>4, <1>5, <1>6, <1>8, <1>9, StepOf DEF Keeps

\* A round asks for the target's descriptor; a lookup that ends has not asked the target.
LEMMA CalmRound ==
  ASSUME TypeOK, QInv, NEW e \in Route, Lookup(e) \/ RoundOver(e)
  PROVE  QInv'
<1>0. /\ e \in Task /\ e \notin Node /\ At(e) \in Node /\ Target(e) \in Node
      /\ Waited(e) /\ Requested(e) /\ RouteAsks(e)
  BY AtIsNode, NodesAssumption DEF Task, QInv, Keeps
<1>1. /\ UNCHANGED <<env, call, store, cache, pending, net, queried, asked, answer, result>>
      /\ pc[e] \in {"missed", "asking"}
      /\ \/ pc' = [pc EXCEPT ![e] = "returned"] /\ todo' = todo
         \/ /\ pc' = [pc EXCEPT ![e] = "asking"]
            /\ \E S : todo' = [todo EXCEPT ![e] = Finds(e, Batch(e, Closest(At(e), Target(e)) \ S))]
  BY DEF Lookup, RoundOver, Round, tables
<1>2. At(e)' = At(e) /\ Target(e)' = Target(e)
  BY <1>1, NodesStay
<1>3. /\ pc'[e] \in {"asking", "returned"}
      /\ \A u \in Task \ {e} : pc'[u] = pc[u] /\ todo'[u] = todo[u]
  BY <1>0, <1>1 DEF TypeOK
<1>4. OthersStay(e) /\ Alone(e)
  BY <1>1, <1>3 DEF OthersStay, Alone, Active
<1>5. Waited(e)' /\ Requested(e)'
  <2>1. \A m \in net : m.task # e
    BY <1>0, <1>1, Quiet
  <2> QED
    BY <1>1, <1>3, <2>1 DEF Waited, Requested
<1>6. \A i \in 1..Len(todo'[e]) : Looks(e, todo'[e][i])
  <2>1. CASE todo' = todo
    BY <1>0, <2>1 DEF RouteAsks
  <2>2. ASSUME NEW T \in SUBSET Node, NEW i \in 1..Len(Finds(e, T))
        PROVE  Looks(e, Finds(e, T)[i])
    <3>1. Len(Finds(e, T)) = Cardinality(T)
      BY <1>0, Sorting DEF Finds
    <3> QED
      BY <2>2, <3>1 DEF Finds, Looks
  <2>3. CASE todo' # todo
    <3>1. PICK S : todo' = [todo EXCEPT ![e] = Finds(e, Batch(e, Closest(At(e), Target(e)) \ S))]
      BY <1>1, <2>3
    <3>2. Batch(e, Closest(At(e), Target(e)) \ S) \in SUBSET Node
      BY <1>0, ClosestType DEF Batch, Nearest
    <3>3. todo'[e] = Finds(e, Batch(e, Closest(At(e), Target(e)) \ S))
      BY <1>0, <3>1 DEF TypeOK
    <3> QED
      BY <2>2, <3>2, <3>3
  <2> QED
    BY <2>1, <2>3
<1>7. RouteAsks(e)'
  <2>1. \A r : Looks(e, r)' <=> Looks(e, r)
    BY <1>2 DEF Looks
  <2>2. result[e] = None /\ Target(e) \notin queried[e]
    BY <1>0, <1>1 DEF RouteAsks
  <2> QED
    BY <1>1, <1>2, <1>3, <1>6, <2>1, <2>2 DEF RouteAsks
<1>8. OwnKept'
  BY <1>1 DEF QInv, OwnKept
<1> QED
  BY <1>0, <1>4, <1>5, <1>7, <1>8, StepOf DEF Keeps

\* A node that starts has a store to make for each of its seeds; one that has joined made all.
LEMMA CalmJoin ==
  ASSUME TypeOK, Calm, QInv, NEW n \in Node, Join(n) \/ Joined(n)
  PROVE  QInv'
<1>0. n \in Task /\ n \notin Route /\ Waited(n) /\ Requested(n) /\ SeedsToCome(n)
  BY NodesAssumption DEF Task, QInv, Keeps
<1>1. /\ UNCHANGED <<env, call, store, cache, pending, net, queried, asked, answer, result>>
      /\ \/ /\ pc[n] = "idle" /\ MayStart(n)
            /\ pc' = [pc EXCEPT ![n] = "asking"]
            /\ todo' = [todo EXCEPT ![n] = Bootstrap(n) \o StoreSelf(n)]
         \/ /\ pc[n] = "asking" /\ todo[n] = << >>
            /\ pc' = [pc EXCEPT ![n] = "returned"]
            /\ todo' = todo
  BY DEF Join, Joined, tables, lookups
<1>2. /\ pc[n] \in {"idle", "asking"} /\ pc'[n] \in {"asking", "returned"}
      /\ \A u \in Task \ {n} : pc'[u] = pc[u] /\ todo'[u] = todo[u]
  BY <1>0, <1>1 DEF TypeOK
<1>3. OthersStay(n)
  BY <1>1, <1>2 DEF OthersStay
<1>4. Alone(n)
  BY <1>0, <1>1, StartsAlone DEF Active
<1>5. Waited(n)' /\ Requested(n)'
  <2>1. \A m \in net : m.task # n
    BY <1>0, <1>2, Quiet
  <2> QED
    BY <1>1, <1>2, <2>1 DEF Waited, Requested
<1>6. SeedsToCome(n)'
  <2> SUFFICES ASSUME NEW i \in 1..Len(env.seeds[n])
               PROVE  \/ n \in store[env.seeds[n][i]]
                      \/ /\ pc'[n] # "returned"
                         /\ \E j \in 1..Len(todo'[n]) :
                              todo'[n][j] = ToSeed(n, env.seeds[n][i], "store")
    <3>1. env' = env /\ store' = store
      BY <1>1
    <3> QED
      BY <3>1 DEF SeedsToCome
  <2>1. CASE pc[n] = "idle"
    <3> DEFINE b == Bootstrap(n)
               s == StoreSelf(n)
               k == Len(env.seeds[n])
    <3>1. pc'[n] = "asking" /\ todo'[n] = b \o s
      BY <1>0, <1>1, <2>1 DEF TypeOK
    <3>2. k \in Nat /\ b \in Seq(Request) /\ Len(b) = 2 * k /\ s \in Seq(Request) /\ Len(s) = k
      BY SeedLists
    <3>3. s[i] = ToSeed(n, env.seeds[n][i], "store") /\ i \in 1..k
      BY DEF StoreSelf
    <3> HIDE DEF b, s, k
    <3>4. 2 * k + i \in 1..Len(b \o s) /\ (b \o s)[2 * k + i] = s[i]
      BY <3>2, <3>3
    <3> QED
      BY <3>1, <3>3, <3>4
  <2>2. CASE pc[n] = "asking"
    <3>1. todo[n] = << >> /\ Len(<< >>) = 0
      BY <1>1, <2>2
    <3> QED
      BY <1>0, <2>2, <3>1 DEF SeedsToCome
  <2> QED
    BY <1>2, <2>1, <2>2
<1>7. OwnKept'
  BY <1>1 DEF QInv, OwnKept
<1> QED
  BY <1>0, <1>3, <1>4, <1>5, <1>6, <1>7, StepOf DEF Keeps

\* The task of a datagram under way waits on it.
LEMMA CalmDatagram ==
  ASSUME TypeOK, QInv, NEW m \in net
  PROVE  /\ m.task \in Task /\ pc[m.task] = "waiting" /\ asked[m.task] \in Request
         /\ Carries(m, m.task) /\ Waited(m.task)
         /\ \A k \in net \ {m} : k.task # m.task
<1>1. m.task \in Task
  BY DEF TypeOK, Asked, Answer
<1>2. Waited(m.task) /\ Requested(m.task)
  BY <1>1 DEF QInv, Keeps
<1> QED
  BY <1>1, <1>2 DEF Waited, Requested, Carries

\* An answer reaches the task that asked.
LEMMA CalmTakeAnswer ==
  ASSUME TypeOK, QInv, NEW m \in net, TakeAnswer(m)
  PROVE  QInv'
<1>t. PICK t \in Task : t = m.task
  BY CalmDatagram
<1>0. /\ pc[t] = "waiting" /\ asked[t] \in Request /\ Carries(m, t) /\ Waited(t)
      /\ \A k \in net \ {m} : k.task # t
      /\ At(t) \in Node /\ asked[t].to \in Node /\ t # None
      /\ (t \in Route => RouteAsks(t)) /\ (t \in Node => SeedsToCome(t))
  BY <1>t, CalmDatagram, AtIsNode, NoneAssumption DEF QInv, Keeps, Request
<1>1. /\ m.to = At(t) /\ m.from = asked[t].to /\ Answers(asked[t], m)
      /\ pending[m.to][m.from] = t
  <2>1. m # Asks(asked[t], t)
    BY <1>0 DEF TakeAnswer, Asks, Request
  <2> QED
    BY <1>0, <2>1 DEF Carries, Waited
<1>2. /\ UNCHANGED <<env, call, store, cache, queried, todo, asked, result>>
      /\ net' = net \ {m}
      /\ pending' = [pending EXCEPT ![m.to][m.from] = None]
      /\ answer' = [answer EXCEPT ![t] = m]
      /\ pc' = [pc EXCEPT ![t] = "answered"]
  BY <1>0, <1>1 DEF TakeAnswer, AnswerRouted, Waits, tables, lookups
<1>3. /\ pc'[t] = "answered" /\ answer'[t] = m
      /\ \A u \in Task \ {t} : pc'[u] = pc[u] /\ answer'[u] = answer[u]
      /\ \A n \in Node \ {At(t)} : pending'[n] = pending[n]
  BY <1>1, <1>2 DEF TypeOK
<1>4. OthersStay(t) /\ Alone(t)
  BY <1>0, <1>2, <1>3, <1>t DEF OthersStay, Alone, Active
<1>5. Waited(t)' /\ Requested(t)'
  <2>1. Answers(asked[t], m)'
    BY <1>1, <1>2 DEF Answers
  <2> QED
    BY <1>0, <1>2, <1>3, <2>1 DEF Waited, Requested
<1>6. t \in Route => RouteAsks(t)'
  <2>1. Target(t)' = Target(t) /\ \A r : Looks(t, r)' <=> Looks(t, r)
    BY <1>2, NodesStay DEF Looks
  <2> QED
    BY <1>0, <1>2, <1>3, <2>1 DEF RouteAsks
<1>7. t \in Node => SeedsToCome(t)'
  <2> SUFFICES ASSUME t \in Node, NEW i \in 1..Len(env.seeds[t])
               PROVE  \/ t \in store[env.seeds[t][i]]
                      \/ \E j \in 1..Len(todo[t]) :
                           todo[t][j] = ToSeed(t, env.seeds[t][i], "store")
    <3>1. env' = env /\ store' = store /\ todo' = todo
      BY <1>2
    <3> QED
      BY <1>3, <3>1 DEF SeedsToCome
  <2>1. asked[t] # ToSeed(t, env.seeds[t][i], "store")
    BY <1>1 DEF Answers, ToSeed
  <2> QED
    BY <1>0, <2>1 DEF SeedsToCome
<1>8. OwnKept'
  BY <1>2 DEF QInv, OwnKept
<1> QED
  BY <1>4, <1>5, <1>6, <1>7, <1>8, StepOf DEF Keeps

\* A request is served, and the answer goes back to the task; a store is kept.
LEMMA CalmServe ==
  ASSUME TypeOK, QInv, NEW m \in net, ServePing(m) \/ ServeFind(m) \/ ServeStore(m)
  PROVE  QInv'
<1>t. PICK t \in Task : t = m.task
  BY CalmDatagram
<1>0. /\ pc[t] = "waiting" /\ asked[t] \in Request /\ Carries(m, t) /\ Waited(t) /\ Requested(t)
      /\ \A k \in net \ {m} : k.task # t
      /\ At(t) \in Node /\ asked[t].to \in Node /\ asked[t].key \in Node
      /\ (t \in Route => RouteAsks(t)) /\ (t \in Node => SeedsToCome(t)) /\ OwnKept
  BY <1>t, CalmDatagram, AtIsNode DEF QInv, Keeps, Request
<1>1. /\ m = Asks(asked[t], t) /\ m.kind = asked[t].kind /\ m.to = asked[t].to
      /\ m.key = asked[t].key /\ m.want = asked[t].want /\ m.from = At(t)
  <2>1. m.kind \notin {"pong", "found"}
    BY DEF ServePing, ServeFind, ServeStore
  <2>2. m = Asks(asked[t], t)
    BY <1>0, <2>1 DEF Carries
  <2> QED
    BY <2>2 DEF Asks
<1>2. /\ UNCHANGED <<env, call, cache, pending, pc, queried, todo, asked, answer, result>>
      /\ \/ /\ store' = store
            /\ \E a : /\ net' = (net \ {m}) \cup {a}
                      /\ a.task = t /\ a.kind \in {"pong", "found"}
                      /\ a.to = At(t) /\ a.from = asked[t].to
                      /\ Answers(asked[t], a)
         \/ /\ store' = [store EXCEPT ![m.to] = @ \cup {m.key}]
            /\ net' = net \ {m} /\ asked[t].kind = "store"
  <2>1. CASE ServePing(m)
    <3> DEFINE a == Reply(m, "pong", {}, None)
    <3>1. a.task = t /\ a.kind = "pong" /\ a.to = At(t) /\ a.from = asked[t].to /\ a.value = None
      BY <1>1, <1>t DEF Reply
    <3>2. Answers(asked[t], a)
      BY <1>1, <2>1, <3>1 DEF Answers, ServePing
    <3>3. net' = (net \ {m}) \cup {a}
      BY <2>1 DEF ServePing
    <3> HIDE DEF a
    <3> QED
      BY <2>1, <3>1, <3>2, <3>3 DEF ServePing, tables, lookups
  <2>2. CASE ServeFind(m)
    <3> DEFINE v == IF m.want /\ m.key \in store[m.to] THEN m.key ELSE None
               a == Reply(m, "found", Closest(m.to, m.key), v)
    <3>1. a.task = t /\ a.kind = "found" /\ a.to = At(t) /\ a.from = asked[t].to /\ a.value = v
      BY <1>1, <1>t DEF Reply
    <3>2. Answers(asked[t], a)
      BY <1>0, <1>1, <2>2, <3>1 DEF Answers, ServeFind, OwnKept
    <3>3. net' = (net \ {m}) \cup {a}
      BY <2>2 DEF ServeFind
    <3> HIDE DEF a
    <3> QED
      BY <2>2, <3>1, <3>2, <3>3 DEF ServeFind, tables, lookups
  <2>3. CASE ServeStore(m)
    BY <1>1, <2>3 DEF ServeStore, lookups
  <2> QED
    BY <2>1, <2>2, <2>3
<1>3. /\ \A n \in Node : store[n] \subseteq store'[n]
      /\ asked[t].kind = "store" => net' = net \ {m} /\ Stored(asked[t])'
  <2>1. store' = store \/ store' = [store EXCEPT ![m.to] = @ \cup {m.key}]
    BY <1>2
  <2>2. \A n \in Node : store[n] \subseteq store'[n]
    <3>1. m.to \in Node /\ store \in [Node -> SUBSET Node]
      BY <1>0, <1>1 DEF TypeOK
    <3> QED
      BY <2>1, <3>1
  <2>3. asked[t].kind = "store" =>
          net' = net \ {m} /\ store' = [store EXCEPT ![m.to] = @ \cup {m.key}]
    BY <1>2 DEF Answers
  <2>4. asked' = asked
    BY <1>2
  <2> QED
    BY <1>0, <1>1, <2>2, <2>3, <2>4 DEF TypeOK, Stored
<1>4. OthersStay(t) /\ Alone(t)
  <2>1. \A k \in net \cup net' : k.task # t => (k \in net <=> k \in net')
    BY <1>2, <1>t
  <2> QED
    BY <1>0, <1>2, <1>3, <2>1 DEF OthersStay, Alone, Active
<1>5. Waited(t)'
  <2>1. pending'[At(t)'][asked'[t].to] = t
    BY <1>0, <1>2, NodesStay DEF Waited
  <2>2. CASE net' = net \ {m} /\ Stored(asked[t])'
    BY <1>0, <2>1, <2>2 DEF Waited
  <2>3. CASE asked[t].kind # "store"
    <3>1. PICK a : /\ net' = (net \ {m}) \cup {a}
                   /\ a.task = t /\ a.kind \in {"pong", "found"}
                   /\ a.to = At(t) /\ a.from = asked[t].to
                   /\ Answers(asked[t], a)
      BY <1>2, <2>3
    <3>2. Answers(asked[t], a)'
      BY <1>2, <3>1 DEF Answers
    <3>3. Carries(a, t)'
      BY <1>0, <1>2, <3>1, <3>2, NodesStay DEF Carries
    <3> QED
      BY <1>0, <2>1, <3>1, <3>3 DEF Waited
  <2> QED
    BY <1>3, <2>2, <2>3
<1>6. Requested(t)'
  BY <1>0, <1>2 DEF Requested
<1>7. t \in Route => RouteAsks(t)'
  <2>1. Target(t)' = Target(t) /\ \A r : Looks(t, r)' <=> Looks(t, r)
    BY <1>2, NodesStay DEF Looks
  <2> QED
    BY <1>0, <1>2, <2>1 DEF RouteAsks
<1>8. t \in Node => SeedsToCome(t)'
  <2> SUFFICES ASSUME t \in Node, NEW i \in 1..Len(env.seeds[t])
               PROVE  LET r == ToSeed(t, env.seeds[t][i], "store") IN
                      \/ t \in store'[env.seeds[t][i]]
                      \/ \E j \in 1..Len(todo[t]) : todo[t][j] = r
                      \/ asked[t] = r
    <3>1. env' = env /\ todo' = todo /\ pc' = pc /\ asked' = asked
      BY <1>2
    <3> QED
      BY <1>0, <3>1 DEF SeedsToCome
  <2>1. env.seeds[t][i] \in Node
    BY EnvAssumption DEF TypeOK, Surroundings
  <2> QED
    BY <1>0, <1>3, <2>1 DEF SeedsToCome
<1>9. OwnKept'
  BY <1>0, <1>2, <1>3 DEF OwnKept
<1> QED
  BY <1>4, <1>5, <1>6, <1>7, <1>8, <1>9, StepOf DEF Keeps

-----------------------------------------------------------------------------
(* The theorems.                                                           *)

LEMMA CalmInit == Init => (Calm => QInv)
<1> SUFFICES ASSUME Init, Calm PROVE QInv
  OBVIOUS
<1>1. /\ \A t \in Task : pc[t] \in {"idle", "returned"} /\ todo[t] = << >>
      /\ \A e \in Route : pc[e] = "idle" /\ result[e] = None /\ queried[e] = {}
      /\ net = {} /\ Len(<< >>) = 0
  BY NodesAssumption DEF Init, Task
<1>2. \A n \in Node : pc[n] # "idle" => env.seeds[n] = << >>
  BY DEF Init, Task
<1>3. OwnKept /\ OneTask
  BY <1>1 DEF Init, OwnKept, OneTask, Active
<1>4. \A t \in Task : Waited(t) /\ Requested(t)
  BY <1>1 DEF Waited, Requested
<1>5. \A e \in Route : RouteAsks(e)
  BY <1>1 DEF RouteAsks, Task
<1>6. \A n \in Node : SeedsToCome(n)
  BY <1>1, <1>2 DEF SeedsToCome
<1> QED
  BY <1>3, <1>4, <1>5, <1>6 DEF QInv, Keeps

LEMMA CalmStep == IInv /\ (Calm => QInv) /\ [Next]_vars => (Calm => QInv)'
<1> SUFFICES ASSUME TypeOK, Calm => QInv, [Next]_vars, Calm' PROVE QInv'
  BY DEF IInv
<1>1. ASSUME env' = env PROVE Calm /\ QInv
  BY <1>1 DEF Calm
<1>2. ASSUME NEW e \in Route, RouteStarts(e) PROVE QInv'
  BY <1>1, <1>2, CalmRouteStarts DEF RouteStarts, RouteCached, RouteMissed, tables
<1>3. ASSUME NEW t \in Task, Proceeds(t) PROVE QInv'
  <2>1. CASE AskNext(t)
    BY <1>1, <2>1, CalmAskNext DEF AskNext, tables
  <2>2. CASE Dropped(t) \/ Expire(t) \/ TimedOut(t)
    BY <1>1, <2>2, CalmWaitEnds DEF Dropped, Expire, TimedOut, tables
  <2>3. CASE Resume(t)
    BY <1>1, <2>3, CalmResume DEF Resume
  <2>4. CASE t \in Route /\ (RouteStored(t) \/ RouteFound(t))
    BY <1>1, <2>4, CalmRouteStarts DEF RouteStored, RouteFound, tables
  <2>5. CASE t \in Route /\ (Lookup(t) \/ RoundOver(t))
    BY <1>1, <2>5, CalmRound DEF Lookup, RoundOver, tables
  <2>6. CASE t \in Node /\ (Join(t) \/ Joined(t))
    BY <1>1, <2>6, CalmJoin DEF Join, Joined, tables
  <2> QED
    BY <1>3, <2>1, <2>2, <2>3, <2>4, <2>5, <2>6 DEF Proceeds
<1>4. ASSUME NEW m \in net, Receive(m) PROVE QInv'
  BY <1>1, <1>4, CalmTakeAnswer, CalmServe
  DEF Receive, TakeAnswer, ServePing, ServeFind, ServeStore, tables
<1>5. ASSUME NEW m \in net, Lose(m) PROVE QInv'
  BY <1>1, <1>5, NoFault DEF Lose, tables
<1>6. CASE UNCHANGED vars
  <2>1. Calm /\ QInv
    BY <1>1, <1>6 DEF vars
  <2> QED
    BY <1>6, <2>1
    DEF vars, QInv, OneTask, Active, At, OwnKept, Keeps, Waited, Carries, Asks, Answers, Stored,
        Requested, RouteAsks, Looks, Target, SeedsToCome
<1> QED
  BY <1>2, <1>3, <1>4, <1>5, <1>6 DEF Next, Finished

LEMMA CalmInvariance == Spec => [](IInv /\ (Calm => QInv))
BY Invariance, CalmInit, CalmStep, PTL DEF Spec

\* When nothing is lost and a node's tasks run one at a time, a route is that of its target
\* and is found if the target was ever among the nearest contacts, whatever the other nodes
\* join and look for meanwhile (kademlia.rs:292).
THEOREM KnownRoutesFound == Spec => []KnownRouteFound
<1>1. IInv /\ (Calm => QInv) => KnownRouteFound
  <2> SUFFICES ASSUME IInv, QInv, NEW e \in Route, Returned(e)
               PROVE  \/ result[e] = Target(e)
                      \/ result[e] = None /\ Target(e) \notin seen[e] \cup queried[e]
    BY DEF KnownRouteFound
  <2>1. RouteAsks(e)
    BY DEF QInv, Keeps, Task
  <2>2. CASE result[e] # None
    BY <2>1, <2>2 DEF RouteAsks, Returned
  <2>3. CASE result[e] = None
    <3>1. Target(e) \notin queried[e]
      BY <2>1, <2>3 DEF RouteAsks, Returned
    <3>2. seen[e] \subseteq queried[e]
      BY <2>3 DEF IInv, LookupExhaustive
    <3> QED
      BY <2>3, <3>1, <3>2
  <2> QED
    BY <2>2, <2>3
<1> QED
  BY <1>1, CalmInvariance, PTL

\* When nothing is lost, every seed of a node that has joined keeps its descriptor, though
\* each of the stores timed out (node.rs:159).
THEOREM SeedsKept == Spec => []SeedsKeep
<1>1. IInv /\ (Calm => QInv) => SeedsKeep
  <2> SUFFICES ASSUME IInv, QInv, NEW n \in Node, Returned(n), NEW i \in 1..Len(env.seeds[n])
               PROVE  n \in store[env.seeds[n][i]]
    BY DEF SeedsKeep
  <2>1. SeedsToCome(n)
    BY DEF QInv, Keeps, Task
  <2> QED
    BY <2>1 DEF SeedsToCome, Returned
<1> QED
  BY <1>1, CalmInvariance, PTL
=============================================================================
