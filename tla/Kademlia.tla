------------------------------- MODULE Kademlia -------------------------------
(***************************************************************************)
(* The DHT of nbf-dht (kademlia.rs) and the route cache before it          *)
(* (node.rs): a starting node asks its seeds for contacts and sends them   *)
(* its descriptor; lookup_route asks the nearest contacts for a node's     *)
(* descriptor, round by round, and keeps what it is told.                  *)
(*                                                                         *)
(* A node id, the node's contact, its address and its descriptor stand for *)
(* each other. One task receives: it hands an answer to whoever last asked *)
(* that address, and has tasks of their own serve the requests, in any     *)
(* order. An id is at a distance of its own, so what the code sorts and    *)
(* truncates is the set of the nearest.                                    *)
(***************************************************************************)
EXTENDS Integers, Sequences, FiniteSets

CONSTANTS
  Node,
  Route,   \* the calls of lookup_route
  Calls,   \* the nodes each may be made on and look for, in pairs
  Dist,    \* the XOR metric
  K,       \* contacts in an answer and in a round (3)
  Alpha,   \* requests of a round (3)
  RtMax,   \* contacts a routing table holds (64)
  Env,     \* the surroundings a behaviour may have
  None     \* no descriptor, no task, no answer

\* Each node's starting task goes by the node's name.
Task == Route \cup Node

\* The seeds each node is configured with; whether a task starts only once the node's
\* others have returned; and a bound: the datagrams that are lost, not accepted by the
\* socket or on their way for over 1 s.
Surroundings == [seeds : [Node -> Seq(Node)], serial : BOOLEAN, faults : Nat]

ASSUME NodesAssumption ==
  /\ IsFiniteSet(Node)
  /\ Route \cap Node = {}
  /\ Calls \in [Route -> SUBSET (Node \X Node)]
ASSUME DistAssumption ==
  /\ Dist \in [Node \X Node -> Nat]
  /\ \A n, c, d \in Node : Dist[<<c, n>>] = Dist[<<d, n>>] => c = d
ASSUME SizesAssumption == K \in Nat \ {0} /\ Alpha \in Nat /\ K <= Alpha /\ RtMax \in Nat \ {0}
ASSUME EnvAssumption == Env \subseteq Surroundings

\* What is asked: the key is the id looked for, or the descriptor to keep.
Request == [kind : {"ping", "find", "store"}, to : Node, key : Node, want : BOOLEAN]

Asked == [kind : {"ping", "find", "store"}, to : Node, key : Node, want : BOOLEAN,
          from : Node, task : Task]
Answer == [kind : {"pong", "found"}, to : Node, contacts : SUBSET Node,
           value : Node \cup {None}, from : Node, task : Task]

ASSUME NoneAssumption == None \notin Task \cup Request \cup Answer

\* A route not in its cache has "missed", then runs its lookup; "found" has its descriptor.
Stage ==
  {"idle", "missed", "asking", "waiting", "answered", "expired", "found", "returned"}

VARIABLES
  env,      \* the surroundings, for the whole behaviour
  call,     \* the node and the target of each route
  rt,       \* the routing table of each node
  store,    \* the descriptors it keeps
  cache,    \* dht_cache: the descriptor it has for each target
  pending,  \* the task whose sender it keeps for each address
  net,      \* datagrams under way
  pc,       \* where each task stands
  seen,     \* closest_seen of each route
  queried,  \* the contacts it has asked
  todo,     \* the requests each task has still to make
  asked,    \* the one it has made last
  answer,   \* what it was answered
  result,   \* the descriptor each route returns
  faults    \* how often the network misbehaved

vars == <<env, call, rt, store, cache, pending, net, pc, seen, queried, todo, asked,
          answer, result, faults>>
tables == <<env, call, rt, store>>
lookups == <<seen, queried>>

TypeOK ==
  /\ env \in Env
  /\ call \in [Route -> Node \X Node]
  /\ \A e \in Route : call[e] \in Calls[e]
  /\ rt \in [Node -> SUBSET Node]
  /\ store \in [Node -> SUBSET Node]
  /\ cache \in [Node -> [Node -> Node \cup {None}]]
  /\ pending \in [Node -> [Node -> Task \cup {None}]]
  /\ net \subseteq Asked \cup Answer
  /\ pc \in [Task -> Stage]
  /\ seen \in [Route -> SUBSET Node]
  /\ queried \in [Route -> SUBSET Node]
  /\ todo \in [Task -> Seq(Request)]
  /\ asked \in [Task -> Request \cup {None}]
  /\ answer \in [Task -> Answer \cup {None}]
  /\ result \in [Route -> Node \cup {None}]
  /\ faults \in 0..env.faults

Init ==
  /\ env \in Env
  /\ call \in [Route -> Node \X Node]
  /\ \A e \in Route : call[e] \in Calls[e]
  /\ rt = [n \in Node |-> {n}]
  /\ store = [n \in Node |-> {n}]
  /\ cache = [n \in Node |-> [m \in Node |-> None]]
  /\ pending = [n \in Node |-> [m \in Node |-> None]]
  /\ net = {}
  /\ pc = [t \in Task |-> IF t \in Node /\ env.seeds[t] = << >> THEN "returned" ELSE "idle"]
  /\ seen = [e \in Route |-> {}]
  /\ queried = [e \in Route |-> {}]
  /\ todo = [t \in Task |-> << >>]
  /\ asked = [t \in Task |-> None]
  /\ answer = [t \in Task |-> None]
  /\ result = [e \in Route |-> None]
  /\ faults = 0

At(t) == IF t \in Route THEN call[t][1] ELSE t
Target(e) == call[e][2]

-----------------------------------------------------------------------------
(* Distances.                                                              *)

Nearer(S, key, c) == {d \in S : Dist[<<d, key>>] < Dist[<<c, key>>]}
Nearest(S, key, k) == {c \in S : Cardinality(Nearer(S, key, c)) < k}

ByDistance(S, key) ==
  [i \in 1..Cardinality(S) |-> CHOOSE c \in S : Cardinality(Nearer(S, key, c)) = i - 1]

Closest(n, key) == Nearest(rt[n], key, K)

\* try_merge: a node's table never loses the node, at distance 0.
Merged(n, contacts) == Nearest(rt[n] \cup contacts, n, RtMax)

Fault == faults < env.faults /\ faults' = faults + 1

-----------------------------------------------------------------------------
(* send_rpc.                                                               *)

\* The sender kept for the address is replaced and its waiter, if any, left without.
Rpc(t, r) ==
  /\ pending' = [pending EXCEPT ![At(t)][r.to] = t]
  /\ asked' = [asked EXCEPT ![t] = r]
  /\ \/ /\ net' = net \cup {[kind |-> r.kind, to |-> r.to, key |-> r.key, want |-> r.want,
                             from |-> At(t), task |-> t]}
        /\ pc' = [pc EXCEPT ![t] = "waiting"]
        /\ UNCHANGED faults
     \/ /\ Fault   \* the socket fails; the sender stays
        /\ UNCHANGED <<net, pc>>

AskNext(t) ==
  /\ pc[t] = "asking"
  /\ todo[t] # << >>
  /\ Rpc(t, Head(todo[t]))
  /\ todo' = [todo EXCEPT ![t] = Tail(@)]
  /\ queried' = IF t \in Route THEN [queried EXCEPT ![t] = @ \cup {Head(todo[t]).to}]
                               ELSE queried
  /\ UNCHANGED <<tables, cache, seen, answer, result>>

\* Mutant: a task whose request is not answered gives up the rest.
GoesOnIfAnswered(t) ==
  /\ pc' = [pc EXCEPT ![t] = "asking"]
  /\ todo' = [todo EXCEPT ![t] = << >>]
GoesOn(t) ==
  /\ pc' = [pc EXCEPT ![t] = "asking"]
  /\ UNCHANGED todo

\* Its sender was replaced, or removed by another's timeout.
Dropped(t) ==
  /\ pc[t] = "waiting"
  /\ pending[At(t)][asked[t].to] # t
  /\ GoesOn(t)
  /\ UNCHANGED <<tables, cache, pending, net, lookups, asked, answer, result, faults>>

\* Mutant: the answer awaited without a timeout.
NoTimeout(t) == FALSE /\ pc[t] = "waiting" /\ UNCHANGED vars

Expire(t) ==
  /\ pc[t] = "waiting"
  /\ pending[At(t)][asked[t].to] = t
  /\ IF \E m \in net : m.task = t THEN Fault ELSE UNCHANGED faults
  /\ pc' = [pc EXCEPT ![t] = "expired"]
  /\ UNCHANGED <<tables, cache, pending, net, lookups, todo, asked, answer, result>>

\* The sender kept for the address is removed, whosever it is by now.
TimedOut(t) ==
  /\ pc[t] = "expired"
  /\ pending' = [pending EXCEPT ![At(t)][asked[t].to] = None]
  /\ GoesOn(t)
  /\ UNCHANGED <<tables, cache, net, lookups, asked, answer, result, faults>>

\* A value ends a lookup, whatever it is of; the contacts that come for those asked for
\* are merged.
Resume(t) ==
  LET n == At(t) IN
  /\ pc[t] = "answered"
  /\ answer' = [answer EXCEPT ![t] = None]
  /\ IF t \in Route /\ answer[t].value # None
       THEN /\ result' = [result EXCEPT ![t] = answer[t].value]
            /\ pc' = [pc EXCEPT ![t] = "found"]
            /\ UNCHANGED rt
       ELSE /\ rt' = IF answer[t].kind = "found" /\ asked[t].kind = "find"
                       THEN [rt EXCEPT ![n] = Merged(n, answer[t].contacts)]
                       ELSE rt
            /\ pc' = [pc EXCEPT ![t] = "asking"]
            /\ UNCHANGED result
  /\ UNCHANGED <<env, call, store, cache, pending, net, lookups, todo, asked, faults>>

-----------------------------------------------------------------------------
(* lookup_route and lookup.                                                *)

MayStart(t) ==
  env.serial => \A u \in Task \ {t} : At(u) = At(t) => pc[u] \in {"idle", "returned"}

RouteCached(e) ==
  LET d == cache[At(e)][Target(e)] IN
  /\ pc[e] = "idle" /\ MayStart(e)
  /\ d # None
  /\ result' = [result EXCEPT ![e] = d]
  /\ pc' = [pc EXCEPT ![e] = "returned"]
  /\ UNCHANGED <<tables, cache, pending, net, lookups, todo, asked, answer, faults>>

RouteMissed(e) ==
  /\ pc[e] = "idle" /\ MayStart(e)
  /\ cache[At(e)][Target(e)] = None
  /\ pc' = [pc EXCEPT ![e] = "missed"]
  /\ UNCHANGED <<tables, cache, pending, net, lookups, todo, asked, answer, result, faults>>

RouteStored(e) ==
  /\ pc[e] = "missed"
  /\ Target(e) \in store[At(e)]
  /\ cache' = [cache EXCEPT ![At(e)][Target(e)] = Target(e)]
  /\ result' = [result EXCEPT ![e] = Target(e)]
  /\ pc' = [pc EXCEPT ![e] = "returned"]
  /\ UNCHANGED <<tables, pending, net, lookups, todo, asked, answer, faults>>

\* Mutant: one request less than the contacts of a round.
ShortBatch(e, S) == Nearest(S, Target(e), Alpha - 1)
Batch(e, S) == Nearest(S, Target(e), Alpha)

Finds(e, S) ==
  [i \in 1..Cardinality(S) |->
     [kind |-> "find", to |-> ByDistance(S, Target(e))[i], key |-> Target(e), want |-> TRUE]]

\* A round asks the contacts of closest_seen not asked yet; without any the lookup ends.
Round(e, S, asking) ==
  /\ seen' = [seen EXCEPT ![e] = S]
  /\ IF S \ asking = {}
       THEN pc' = [pc EXCEPT ![e] = "returned"] /\ UNCHANGED todo
       ELSE /\ pc' = [pc EXCEPT ![e] = "asking"]
            /\ todo' = [todo EXCEPT ![e] = Finds(e, Batch(e, S \ asking))]

Lookup(e) ==
  /\ pc[e] = "missed"
  /\ Target(e) \notin store[At(e)]
  /\ Round(e, Closest(At(e), Target(e)), {})
  /\ UNCHANGED <<tables, cache, pending, net, queried, asked, answer, result, faults>>

RoundOver(e) ==
  LET next == Closest(At(e), Target(e)) IN
  /\ pc[e] = "asking"
  /\ todo[e] = << >>
  /\ IF next = seen[e]
       THEN pc' = [pc EXCEPT ![e] = "returned"] /\ UNCHANGED <<seen, todo>>
       ELSE Round(e, next, queried[e])
  /\ UNCHANGED <<tables, cache, pending, net, queried, asked, answer, result, faults>>

RouteFound(e) ==
  /\ pc[e] = "found"
  /\ cache' = [cache EXCEPT ![At(e)][Target(e)] = result[e]]
  /\ pc' = [pc EXCEPT ![e] = "returned"]
  /\ UNCHANGED <<tables, pending, net, lookups, todo, asked, answer, result, faults>>

-----------------------------------------------------------------------------
(* A node's start: bootstrap pings each seed and asks it for contacts,     *)
(* then store_self sends each the node's descriptor.                       *)

ToSeed(n, s, kind) == [kind |-> kind, to |-> s, key |-> n, want |-> FALSE]

Bootstrap(n) ==
  [i \in 1..(2 * Len(env.seeds[n])) |->
     ToSeed(n, env.seeds[n][(i + 1) \div 2], IF i % 2 = 1 THEN "ping" ELSE "find")]
StoreSelf(n) == [i \in 1..Len(env.seeds[n]) |-> ToSeed(n, env.seeds[n][i], "store")]

Join(n) ==
  /\ pc[n] = "idle" /\ MayStart(n)
  /\ pc' = [pc EXCEPT ![n] = "asking"]
  /\ todo' = [todo EXCEPT ![n] = Bootstrap(n) \o StoreSelf(n)]
  /\ UNCHANGED <<tables, cache, pending, net, lookups, asked, answer, result, faults>>

Joined(n) ==
  /\ pc[n] = "asking"
  /\ todo[n] = << >>
  /\ pc' = [pc EXCEPT ![n] = "returned"]
  /\ UNCHANGED <<tables, cache, pending, net, lookups, todo, asked, answer, result, faults>>

-----------------------------------------------------------------------------
(* run and handle, at node m.to.                                           *)

Waits(t, m) == pc[t] = "waiting" /\ At(t) = m.to /\ asked[t].to = m.from

\* Mutant: answers are left to handle, which ignores them.
AnswerIgnored(m) == UNCHANGED <<pending, answer, pc>>
\* Whoever last asked the address has the answer, whatever it asked, if it still waits.
AnswerRouted(m) ==
  LET t == pending[m.to][m.from] IN
  IF t = None
    THEN UNCHANGED <<pending, answer, pc>>
    ELSE /\ pending' = [pending EXCEPT ![m.to][m.from] = None]
         /\ IF Waits(t, m)
              THEN /\ answer' = [answer EXCEPT ![t] = m]
                   /\ pc' = [pc EXCEPT ![t] = "answered"]
              ELSE UNCHANGED <<answer, pc>>

TakeAnswer(m) ==
  /\ m.kind \in {"pong", "found"}
  /\ AnswerRouted(m)
  /\ net' = net \ {m}
  /\ UNCHANGED <<tables, cache, lookups, todo, asked, result, faults>>

Reply(m, kind, contacts, value) ==
  [kind |-> kind, to |-> m.from, contacts |-> contacts, value |-> value,
   from |-> m.to, task |-> m.task]

\* Mutant: the ping itself is sent back.
PingEchoed(m) ==
  /\ m.kind = "ping"
  /\ net' = (net \ {m}) \cup {Reply(m, "ping", {}, None)}
  /\ UNCHANGED <<tables, cache, pending, pc, lookups, todo, asked, answer, result, faults>>
ServePing(m) ==
  /\ m.kind = "ping"
  /\ net' = (net \ {m}) \cup {Reply(m, "pong", {}, None)}
  /\ UNCHANGED <<tables, cache, pending, pc, lookups, todo, asked, answer, result, faults>>

ServeFind(m) ==
  /\ m.kind = "find"
  /\ net' = (net \ {m}) \cup
       {Reply(m, "found", Closest(m.to, m.key),
              IF m.want /\ m.key \in store[m.to] THEN m.key ELSE None)}
  /\ UNCHANGED <<tables, cache, pending, pc, lookups, todo, asked, answer, result, faults>>

\* A descriptor is kept and never acknowledged.
ServeStore(m) ==
  /\ m.kind = "store"
  /\ net' = net \ {m}
  /\ store' = [store EXCEPT ![m.to] = @ \cup {m.key}]
  /\ rt' = [rt EXCEPT ![m.to] = Merged(m.to, {m.key})]
  /\ UNCHANGED <<env, call, cache, pending, pc, lookups, todo, asked, answer, result, faults>>

Receive(m) == TakeAnswer(m) \/ ServePing(m) \/ ServeFind(m) \/ ServeStore(m)

-----------------------------------------------------------------------------

Lose(m) ==
  /\ Fault
  /\ net' = net \ {m}
  /\ UNCHANGED <<tables, cache, pending, pc, lookups, todo, asked, answer, result>>

RouteStarts(e) == RouteCached(e) \/ RouteMissed(e)

Proceeds(t) ==
  \/ AskNext(t) \/ Dropped(t) \/ Expire(t) \/ TimedOut(t) \/ Resume(t)
  \/ t \in Route /\ (RouteStored(t) \/ Lookup(t) \/ RoundOver(t) \/ RouteFound(t))
  \/ t \in Node /\ (Join(t) \/ Joined(t))

Finished ==
  /\ \A t \in Task : pc[t] = "returned"
  /\ net = {}
  /\ UNCHANGED vars

Next ==
  \/ \E e \in Route : RouteStarts(e)
  \/ \E t \in Task : Proceeds(t)
  \/ \E m \in net : Receive(m) \/ Lose(m)
  \/ Finished

Spec == Init /\ [][Next]_vars

\* Some task goes on, and something that has arrived is received, as long as any can: less
\* than the scheduler grants each, and enough, since every call and start is bounded.
Fairness ==
  /\ WF_vars(\E t \in Task : Proceeds(t))
  /\ WF_vars(\E m \in net : Receive(m))

FairSpec == Spec /\ Fairness
=============================================================================
