# A TLA+ verification project for Never-Been-Found (NBF)

NBF is a Rust prototype of a source-routed anonymous network: a client builds a
*circuit* through up to five nodes with one Sphinx header, exchanges onion-sealed
cells over it, finds the nodes through a Kademlia DHT, and sends every cell over
Noise-IK links on UDP. This directory models the parts of it that are concurrent
and stateful, model-checks them with TLC and proves what matters most with TLAPS.
Line references such as `node.rs:301` are to `crates/nbf-net/src/` unless a path is
given; `plan:36` is `docs/superpowers/plans/2026-09-08-nbf-anon-routing-mvp.md`.

## 1. Inventory

| Component | State it keeps | Operations | What is hard | What makes it correct |
|---|---|---|---|---|
| Circuit control plane (`node.rs`, `builder.rs`) | per node: `circuits` (id to Origin/Relay/Terminal entry), `pending` (id to waiting build), `next_cid`, `create_frags` | `build_circuit`, `close`, `handle_create`, `handle_created`, `handle_destroy` | a task per cell, so any order; ids counted per node but looked up in one table per receiver; a timer that races the answer; nothing reverses a half-built circuit | entries are wired to the neighbours of their own route; circuits do not run into each other; a build opens only if its route answered; a build ends; a closed circuit is gone |
| Circuit data plane (`relay.rs`, `builder.rs`, `cell.rs`) | `seq_origin`, `last_fwd` per entry, the Origin's `streams`, cells under way | `echo`, `send_data`, `relay::handle` at the origin, a relay, the terminal | check and update of `last_fwd` under two locks; numbers taken before sending; all echoes on stream 1; timeouts | layers match positions; no nonce twice; an answer goes to one echo, the right one; an echo returns |
| Noise link (`link.rs`) | `sessions`, `hs_inflight`, `peer_statics` per address, the fragment buffers `hs_buf` of the receiving task | `send_cell`, `ensure_peer_link`, the receiving task, `handle_hs` | handshakes that collide, are lost, repeated, given up while others wait; a peer that restarts with another key; a key that is out of date; encryption and sending under different locks; implicit nonces over UDP | no nonce twice; a session reads in order and nothing twice; a sender returns; cells arrive when nothing goes wrong |
| CREATE fragmentation (`cell.rs`) | `FragBuf` per id | `fragment`, `reassemble` | fragments of several headers under one id | a header is peeled once, as sent |
| Sphinx (`nbf-crypto/src/sphinx.rs`) | none | `build_header`, `process_header` | a chain of blindings that the hops have to repeat in step; nested layers; a header handed to the wrong node, or twice | a header opens at its hop alone; hop and origin agree on keys and on the next hop; a header that is built goes the whole route |
| Kademlia (`nbf-dht/src/kademlia.rs`) | `rt`, `store`, `pending` by address | `send_rpc`, `handle`, `lookup`, `bootstrap`, `store_self` | answers matched to requests by address alone; STORE is never answered | a lookup returns the descriptor asked for and ends |
| Route resolution (`node.rs:381`) | `dht_cache` | `lookup_route` | a cache that never expires | a hop's descriptor is that hop's |
| Cover traffic (`cover.rs`) | `padding_sent`, `drops_sent` | `run_loop`, `pick_peer`, `pick_origin` | sends on circuits the application uses, and may close meanwhile; picks peers out of tables that hold the node itself | does not disturb an echo; what it counts reaches another node |
| Codecs, keys, CLI | none that changes | | | |

How they interact: the CLI or a test calls `build_circuit`, which asks
`lookup_route` (cache, store, DHT) for each hop's descriptor, makes a header with
Sphinx, fragments it into CREATE cells and gives them to `Link::send_cell`. The
receiving task of the other end's link decrypts a datagram and pushes the cell on a
channel to `Node`, which spawns **one task per cell** (`node.rs:171`). The handlers
share the tables of their node under `tokio` mutexes that are taken and released
for each access. Answers (CREATED, RELAY backward) come back the same way and wake
the caller through a oneshot (`pending`) or a channel (`streams`). The cover loop
is one more caller of `send_data`.

`PROJECT.json` lists the components with their status, and under `hazards` every
place where this code is hard to test, with the properties that watch it.

## 2. Plan

1. *Done.* `Circuit`: the control plane, with `CircuitService` as what it promises.
2. *Done.* `Relay`: the data plane of one open circuit.
3. *Done.* `Link`: the Noise link over faulty UDP.
4. *Done.* `Kademlia`: `pending` by address, late answers, STORE that is never
   answered, a node's start, the iterative lookup and `lookup_route`'s cache.
5. *Done.* `Sphinx`: `build_header` as a loop over its hops, `process_header` by any node;
   that a header opens at its hop alone, a theorem over every route and curve, by an
   invariant over the walk and not by induction on data.
6. *Done.* Restarts, stale keys and calls to oneself in `Link`; `Cover`, the cover loop
   composed with `Link`.
7. *Done.* `LinkService`, an ordered lossy channel, implemented by `Link`; `Circuit` with its
   surroundings as a variable, so that one run asks what three asked.
8. *Done.* Proofs of every safety invariant and action property of the passing runs, and
   of the safety parts of both refinements: `Link` is a `LinkService`, `Circuit` keeps the
   promise of `CircuitService`.
9. *Done.* Under the cover loop, all that is proved of `Link` holds still.
10. *Done.* Late answers: none opens a circuit whose timer has fired, and none is another
   echo's when calls are made in turn (`AnswersOwn`). Sockets that refuse a datagram in `Link`.
11. *Next.* Theorems on what no run asks yet: the bounds on `last_fwd` that hold although it
   may go down, and what a `lookup` has asked when it ends early.

Modules are written so that they can be proved about: no RECURSIVE operator, named
assumptions on constants, one action per operation, invariants of named parts.

## 3. The modules

| Module | What it is |
|---|---|
| `Circuit` | the control plane: state, actions, specification |
| `CircuitService` | what `build_circuit` and `close` promise a caller, without a network |
| `CircuitProps` | its properties, and the refinement mapping to `CircuitService` |
| `MCCircuit` | sets of calls (client and route) for TLC |
| `Circuit_proofs`, `CircuitService_proofs` | theorems on `Circuit`: its tables; its headers, its answers and the refinement of `CircuitService` |
| `Relay`, `RelayProps`, `MCRelay`, `Relay_proofs` | the same for the data plane |
| `Link`, `LinkProps`, `MCLink`, `Link_proofs` | the same for the link |
| `LinkService` | what the link promises those who send over it: an ordered channel that may lose |
| `LinkService_proofs` | theorems on `Link`: its nonces, and that it is a `LinkService` |
| `Cover`, `MCCover`, `Cover_proofs` | the cover loop of `cover.rs`, on top of `Link`, its property, and theorems on the two together |
| `Sphinx`, `SphinxProps`, `MCSphinx`, `Sphinx_proofs` | the header from the origin to the last hop |
| `Kademlia`, `KademliaProps`, `MCKademlia`, `Kademlia_proofs` | the same for the DHT and the route cache |

Operators commented *mutant* are plausible mistakes in the code, kept beside the
definition they would replace; they show that each property can fail.

`Circuit`, `Relay`, `Link` and `Kademlia` have a variable `env` that is chosen from the
constant `Env`, or by the MC module, at the start and never changes: what the network and
the callers of a behaviour may do (lose, repeat, overlap, restart, time out early). One run
then asks what happens at worst and what is promised when all is calm; a property of the
second kind names the calm surroundings in its condition.

### Circuit

A node is its cell address. `circuits`, `nextCid`, `frags` are the node's tables;
`pc[b]` is where the call `b` of `build_circuit`, and later `close`, stands:
`idle`, `sent` (fragments are out), `waiting` (registered in `pending`), `expired`
(the timer fired, still in `pending`), `woken`, `open`, `closing`, `closed`,
`failed`. `pending` itself is derived from `pc`. `net` is a bag of cells: two
CREATED of one circuit id are two cells. `reached` is history.

Every `await` at which another task of the node can act ends a step of a caller. A
handler is one step. `handle_destroy` touches its node's tables once, then only sends, and
its sends commute with what other handlers do in between. `handle_create` of a relay
takes its id, inserts its entry and only then resolves the next hop and sends;
sending earlier or later than a DESTROY for the same id leaves the same state.
`handle_created` looks in `pending` and, if nothing waits there, in `circuits`, under two
locks (`node.rs:296`, `node.rs:301`). The model looks at both at the time of the first. A
build that registers in between goes without the answer, as it does when it registers
after the step; an entry that comes or goes in between is found, or not, as it is when the
step is taken later. Only when both happen under one id between the two looks does the
code do what no order of the model's steps does: it hands a CREATED on past a build that
has begun to wait. That is the lost CREATED of `CircuitLostWakeup` for the build, and for
the relay the CREATED of another circuit, as in `CircuitCrossed`.

`CircuitService` counts a build as failed once its timer has fired: an answer that
comes between that and the removal from `pending` (`expired`) must not open the circuit.

A header is abstracted to its layers: `Frag` says of which build and for which hop
it is, and `Peels` when `process_header` succeeds: all chunks are of one header and
the outer layer is this node's. How many cells a header takes is computed from the
byte lengths in the code (`HeaderLen`: 32 + 1168 bytes a hop; `docs/PROTOCOL.md:13`
says 1216). Ids are not scoped: every lookup is by id alone, as in the code.

Two routes are left out: those in which a hop follows itself and those whose first
hop is the client (`CallsAssumption`): a node does not link to itself.

### Relay

One open circuit of `L` hops. An onion is the sequence of keys that seal it, the
outermost first, so that "does not open" is a comparison. Each call of `echo` and
`send_data` has a `pc`: `idle`, `registered` (`open_stream` done), `numbered` (has its
`seq`), `waiting`, `done`. `relay::handle` going forward is two steps, as the code has
two critical sections: `Peel` checks `last_fwd` on a copy and opens the layer, `PassOn`
writes `last_fwd` and sends on; `tasks` holds the cells between the two. The id of the
circuit is left out: a CREATED returns only if each relay heads its next link with
the id of the one behind (see the finding `CircuitSecondRoute`), so an open circuit
that no other one crosses has one id. In the code a cell's direction is who it comes from,
the previous peer or else the next (`relay.rs:60`, `relay.rs:88`); here it is a field of the
cell, which is the same as long as no relay has one node for both neighbours. Such a route
is left out: the node would be two hops, or a hop and the origin, with one entry for both
under the circuit's one id, so its circuit does not work. `close` and the DESTROY it sends remove the
entries of the origin and hop 1 and no others (`Remove`), as `Circuit` shows.
`OriginReceives` is one step although the code reads the table before it delivers to
the sender it found: what can happen in between is that the sender is replaced, and
delivering to the old channel just before is the same outcome.

`env.overlap` and `env.patient` say how calls are made: at once, or in turn, and with a
timeout that may beat the answer or one that outlasts whatever is in flight. Calls in turn
that wait, with loss and close (`InTurn` of `MCRelay`), are those of which `ReplyOwn` holds.

### Link

`session`, `inflight`, `known`, `stuck` are the maps of `Link`, for a node (first) and an
address (second). `pc` follows `send_cell`: `connecting` (no session, the peer's key read
into `pubk`), `waiting` (polling), `expired`, `ready`, `sealed` (encrypted, lock released),
`sent` or `failed`. The receiving task is one task and one step per datagram. Of the
external library snow the model takes that a session's two ends match when they come
from the same first message and answer, that a first message is understood by the holder
of the key it was made for alone, and that a transport reads only the next nonce and is
unchanged by a failed read. A handshake message fits one fragment. A ciphertext may begin
with the byte 0x7F (`env.masks`); the fragment count it then claims, at least one of 65536
values, is taken never to be met. UDP delivers in order but for `env.faults` losses,
repetitions or delays. The same bound counts the datagrams that a socket refuses
(`SocketFails`): a first message, after which no handshake is begun (`link.rs:176`), or a
cell, whose nonce is spent (`link.rs:201`). Either ends the call with an error.

Nothing of the link is written to disk, and a node's keys are drawn when it starts
(`NodeIdentity::random`; `rng_seed` is set by tests). So an **incarnation** of a node is its
static key: `life[n]` counts them, `known` holds the one whose key a node has for an
address, and a first message carries the sender's and is sealed for the receiver's.
`Restart` clears the node's maps, fails its calls and loses what its socket held; its
peers go on under the sessions they have. A caller that calls `ensure_peer_link` before
`send_cell` (`builder.rs:41`, `node.rs:275`, `cover.rs:64`) is the choice of a key in
`Start`; with `env.stale` the key may be an older one, out of a descriptor that nobody
refreshed, or 0, the all-zero key that `node.rs:275` sets for a next hop it cannot look up.

`order` is history, the calls in the order in which they encrypted. With it `Link`
implements `LinkService` state by state: a call that has encrypted is *accepted*, `read`
is what came out. The order of acceptance and not of the socket is the channel's order,
as the receiver reads in the order of the nonces.

### Sphinx

`build_header` is `Draw`, once a hop (a scalar, the shared point it yields, the blinding
of the next), `Seal`, once a layer and from the last hop inwards, and `Assemble`;
`process_header` is `Process`, by any node, with any header there has been, as often as
one likes. The curve is a parameter: scalars with an associative product, a key agreement
`Dh` that tells nodes apart, a hash. The tag of a header enters every key and hash, and is
left out as a behaviour has one header. A sealed blob is the sequence of layers in it, and
opens when the shared point and the nonce, the number of layers left, are those it was
sealed with. A node runs `process_header` with its own identity, and what is claimed is
who accepts a header then. It is not confidentiality: the key of a layer comes of the
hop's *public* key and of a scalar in the header (`sphinx.rs:185`), where
`docs/PROTOCOL.md:17` says that it comes of the private key. The KEM's ciphertext gives its secret to its addressee and another one to
anybody else.

The code does not blind a single group element as Sphinx in the literature does: it
sends one scalar per hop and each hop multiplies all that are left by the hash of what it
shares with the origin. That is what the model has, and what `BlindNext`, one of the
mutants, gets wrong.

### Cover

One loop per node with `config.cover.on`, in the order of `run_loop`: PADDING to some
peer of `route_peers`, then DROP on some circuit of the node's own. A cell is a call of
`Link`, and the loop waits for `send_cell` to return. A circuit is the first hop it leads
to; the application opens and closes it at any time, also between `pick_origin` and the
sending (`usable`). Each call of `Call` is made once, so the loop stops when they are used
up. `drops_sent` is counted whether or not a cell was sent, as in the code. The route
table and the store hold the node itself (`kademlia.rs:36`, `node.rs:143`), so it may be
its own peer, for which `Link` needed no change: a pair of a node and itself is a link.

### Kademlia

An id, the node's contact, address and descriptor stand for each other. The tasks are
the calls of `lookup_route` and the one task of a node that bootstraps and then stores
its descriptor (`node.rs:157`). A task keeps a list `todo` of the requests it has still
to make, so `send_rpc` is the same actions for all of them: `AskNext` puts the sender in
`pending` and sends (or fails to, and the sender stays), `Dropped`, `Expire` then
`TimedOut`, or an answer and `Resume` end the wait. The timeout is two steps, since the
timer fires before the lock on `pending` is taken and an answer or another request may
come in between. The receiving task's own step is `TakeAnswer`; the requests are served by
tasks it spawns, in any order, one step each (`ServeFind` reads the table and then the
store, `ServeStore` writes the store and then the table; what comes in between reads one
of the two a moment earlier).

An answer does not say what it answers, and neither does `pending`: the field `task` of a
datagram is history, read only by `Expire` to tell a timeout that needs a slow or lost
datagram from one that does not. The list of `closest` is sorted by a distance that
differs from id to id, so a set stands for it (`Nearest`), and `ByDistance` gives it its
order where the order matters, in a round's requests. A node's own contact is in its
table from the start and is asked like the others.

Each node is started with the seeds of `env.seeds`; a datagram lost, refused by the
socket or on its way for longer than the 1 s timeout is one of `env.faults`, and a
request without one is answered in time, or never if it is a STORE.

## 4. What the runs check

Runs that pass:

| Run | Question | States |
|---|---|---|
| `CircuitBuilds` | types; one build of 1 to 4 hops, or of none or too many, implements `CircuitService` under loss and any timing, also when an answer races the timer; when all is calm a waiting origin is woken, and teardown settles; two builds that share relays: wiring, no crossing, answers conserved, headers peeled once, builds end, the network comes to rest | 70 196 |
| `RelayOverlap` | types, layers, nonces, answers, and that every echo returns, with overlapping calls, loss, replacement and close; calls in turn that wait: an echo returns its own answer or none, under loss and close, and is answered when there are neither | 392 571 |
| `LinkFaults` | types, order and uniqueness of nonces, and that the link implements `LinkService`, with cells either way, keys that are right, old or zero, and one fault of UDP or the socket and ciphertexts that look like handshakes, or one restart of each node; cells sent one at a time over a faultless network arrive, also after restarts | 113 246 |
| `Sphinx` | types; a header opens at its hop alone, hop and origin agree, and the walk completes, for eight routes, with repeated nodes, and headers handed to everybody | 3 934 |
| `Dht` | types; two lookups that overlap another node's start, with one fault: each asks every contact it held for nearest, and returns; one task of a node at a time and no fault: a target among the nearest contacts is found, and seeds keep descriptors | 191 257 |

Runs that TLC must find violated, each a disagreement between the code and what a
comment, a doc or a test says of it:

| Run | What the counterexample shows |
|---|---|
| `CircuitLostWakeup` | CREATED comes back between the last fragment and `pending.insert` (`builder.rs:60`) and is dropped |
| `CircuitSecondRoute` | the second circuit of a client, through a relay that has handed out fewer ids, never opens: CREATED carries the relay's own id, the table has the client's |
| `CircuitCrossed` | two clients use id 1 at one relay: the CREATE of one overwrites the entry of the other's circuit, and the CREATED of that circuit then tells the first that its own is open (so `ImplementsService` holds of one build only) |
| `RelayCover` | a data cell overtakes an echo's, whose number is then stale: a lossless echo times out |
| `LinkSimultaneous` | both ends start a handshake and end with sessions that do not match |
| `CoverSelf` | the cover loop picks its own node as the peer for PADDING; the node answers its own handshake, keeps the responder's half and counts as sent a cell that nobody reads. With another node as the only peer the property holds |
| `DhtCrossed` | a node's start and its lookups overlap: two requests go to one address, the answer to the first wakes the second, and `lookup_route` returns, and caches, the descriptor of another node |

The models show more of this kind, which has no run of its own, as the runs above
are about the same mechanisms:

* DESTROY from the origin stops at hop 1, since `handle_destroy` only looks towards
  the previous hop (`node.rs:318`): the later hops keep the circuit for good, as they
  do after a build that timed out. `TeardownSettles` is about the client and hop 1 alone. `plan:36` has it tear down both directions.
* `close` removes whatever its node has under the id once DESTROY is sent
  (`builder.rs:166`), also the entry of another circuit that came in between.
* Chunks of two headers under one id fill one fragment buffer (`cell.rs:146`), and
  neither header is read. Buffers that are never completed stay.
* The answer to an echo that timed out is returned by the next echo, as all use
  stream 1 (`builder.rs:99`), unless calls wait until nothing is on the way (`ReplyOwn`).
* Two handlers that compare before either writes may lower `last_fwd`
  (`relay.rs:64`, `relay.rs:71`).
* Two senders may encrypt in one order and reach the socket in the other
  (`link.rs:200`); the overtaken session reads nothing more.
* A ciphertext that begins with 0x7F, one in 256, is kept as a handshake fragment
  (`link.rs:84`, action `Misread`) and fills the buffer of its peer.

* Of two ends of a session one is restarted: the other goes on encrypting under the old
  keys, and `send_cell` succeeds, until the restarted one sends something. Nothing tells it
  (`link.rs:182`); so `CellsArrive` promises delivery only to a call that has no session or
  one that both ends have.
* `drops_sent` counts cells that were not sent (`cover.rs:49`).
* Documents and code differ on constants that no property is about:
  `TTL_DESC` (`nbf-dht/src/kademlia.rs:15`) lets a descriptor expire after 24 h, as does the
  comment on `Descriptor` (`nbf-crypto/src/identity.rs:73`), and nothing reads it;
  `docs/PROTOCOL.md:13` gives a header 1216 bytes a hop; `docs/PROTOCOL.md:17` derives the
  key of a layer from the hop's private key, `sphinx.rs:185` from its public one.
* `node.rs:275` sets an all-zero key for a next hop it cannot look up and says that a plain
  channel still works; `send_cell` has none, and the handshake under that key is refused.

`NetworkQuiets` is a question whose answer surprised: since signals are handed on
under ids looked up in the wrong link's name, one might expect two relays to hand a
CREATED to each other for ever. They do not as long as a node heads one link per id,
and the mutant that hands out one id twice makes them.

**Bounds, and why they are enough.** `MaxCid` 2 lets a node hand out a second id,
which is all that the id clashes need; a step that needs a third is disabled.
`MaxHops` is 3 or 4 for the code's 5: with three hops there is a first, a middle and
a last one, and headers take three, two and one cells. Two builds make every pair of
roles meet at a node (`SharedCalls` shares hops, opposes directions and routes
through a client). Two echoes and a data call replace, overtake and outlive each
other. Two cells on a link collide in their handshakes, or one is lost before the
other; one fault repeats, loses or delays each kind of datagram in turn, and one restart
of each node meets every state of a handshake and a session (a fault and restarts together
take too long to be a run); for more cells, faults and
restarts, `ReadInOrder`, `NoncePerCiphertext` and the order of the channel are theorems. Headers are over the integers modulo 5, of which two
products or hashes are often equal: what holds there does not hold by keys being all
different; routes have 1 to 4 hops, a node twice, and the same node twice running. The
cover loop has two calls, each to its own node or to the other. Three DHT nodes give a lookup a contact to
learn and one to be misled by; with two contacts a round, an answer and a table (`K`,
`Alpha`, `RtMax`, for the code's 3, 3 and 64) a round can change the nearest, and a table
can overflow; the two lookups and the starting node share both ends' tables, and one may
look for what the other caches. `SeqMod` 8
and `FirstSeq` 1 keep below the wrap; the code starts at 64 of 2^32.

**Symmetry** is not used: every large run also checks liveness, for which TLC's
reduction is not sound.

**Fairness.** A handler or a call that can go on does: `tokio` runs every ready task,
and the receiving tasks loop for ever. It is weak fairness per node or per call.
Callers are not made to call or close, UDP is not made to lose, and no timer is made
to beat an answer: `env.patient` restricts when a timer *may* fire (a timeout that
outlasts whatever is in flight), and is false wherever a run is about races with it.
`LinkService` asks of the link only that a call that was made returns. In `Sphinx`, the
builder runs on and a header that is handed on is processed; in `Cover` the loop runs for
ever, as `run_loop` does. In `Kademlia` it is weak fairness of *some* task
and of *some* reception, less than the scheduler grants each: calls, rounds and requests
are bounded, so whatever can go on comes to an end.

**Deadlock** is checked everywhere but in `Sphinx`, where a refused route is the end of a
behaviour: `Finished` is the only stuttering step elsewhere, enabled when every call that
was made has returned and nothing is in flight.

## 5. What is proved

TLAPS proves for every value of the constants, from the named assumptions alone:

| Theorem | Statement | Inductive invariant |
|---|---|---|
| `Circuit_proofs!TypeCorrect` | `Spec => []TypeOK` | `Basics`: types and what each `pc` implies |
| `Circuit_proofs!EntriesWired` | `Spec => []HopWiring` | plus that every cell and every buffered fragment is what its build sends over the link it is on |
| `Circuit_proofs!CircuitsSeparate` | `Spec => []NoCrossedCircuits` | plus `UniqueUse`: a node heads one link with an id, and ids in use are below its counter |
| `Relay_proofs!TypeCorrect` | `Spec => []TypeOK` | `TypeOK` with `Placed` and `OnionLayers`: a cell is where its direction allows |
| `Relay_proofs!OnionsWellLayered` | `Spec => []OnionLayers` | the same |
| `Relay_proofs!AnswersNotShared` | `Spec => []RepliesNotShared` | plus `OnePlace`: a message is a cell, a task, in an inbox or a reply, in one of them only |
| `Relay_proofs!AnswersOwn` | `Spec => []ReplyOwn` | `TurnInv` on top of these, see below |
| `Link_proofs!TypeCorrect` | `Spec => []TypeOK` | with `CallsHaveWhatTheyNeed`: a session, once there, stays until its process ends, so a call that is ready has one |
| `Link_proofs!SessionsReadInOrder` | `Spec => []ReadInOrder` | see below |
| `Sphinx_proofs!TypeCorrect` | `Spec => []TypeOK` | `TypeOK` with what each stage has built so far |
| `Sphinx_proofs!LayersMatchHops` | `Spec => []OpensAtItsHop` | see below |
| `Sphinx_proofs!HopsAgreeWithOrigin` | `Spec => []HopsAgree` | the same |
| `Kademlia_proofs!TypeCorrect` | `Spec => []TypeOK` | `IInv`: `TypeOK`, `AnswersKept`, `RoutesKept`, `LookupsCover` |
| `Kademlia_proofs!LookupsAskAll` | `Spec => []LookupExhaustive` | the same, see below |
| `CircuitService_proofs!LayersPeeledInOrder` | `Spec => HeaderPeeledOnce` | `FInv` on top of `Basics`, see below |
| `CircuitService_proofs!AnswersConserved` | `Spec => []CreatedConserved` | `AInv`: `CreatedConserved` and that what it counts is finite |
| `CircuitService_proofs!ControlPlaneServes` | `Spec => Service!Spec`: the safety part of `ImplementsService` | the three above |
| `LinkService_proofs!NoncesNotReused` | `Spec => []NoncePerCiphertext` | `CInv` on top of that of `Link_proofs`, see below |
| `LinkService_proofs!LinkIsChannel` | `Spec => Channel!Spec`: the safety part of `ImplementsChannel` | the same |
| `Relay_proofs!NoncesFresh` | `Spec => []NonceFresh`, if `FirstSeq + Cardinality(Sender) <= SeqMod` | `SeqsCounted`, see below |
| `Kademlia_proofs!KnownRoutesFound` | `Spec => []KnownRouteFound` | `QInv`, see below |
| `Kademlia_proofs!SeedsKept` | `Spec => []SeedsKeep` | the same |
| `Cover_proofs!CoverUsesLink` | `CoverSpec => Spec` of `Link` | none: step by step |
| `Cover_proofs!LinkKeptUnderCover` | `CoverSpec => [](TypeOK /\ ReadInOrder /\ NoncePerCiphertext) /\ Channel!Spec` | those of `Link` |
| `Cover_proofs!PaddingsCounted` | `CoverSpec => [](PaddingSent /\ CellUnderWay)` | both, with the types of the loop |

`ReadInOrder` is not inductive: it says nothing of the nonce a session expects, nor
that a new session starts with nothing read under its keys. The invariant adds
`ReadSoFar` (what was read under a session's keys is exactly what precedes its `rx`),
`IdsIssued` (handshakes and answers, in sessions, in datagrams and in what was read,
are older than the next fresh one, so a responder's new keys are new) and
`NothingReadYet` (a handshake under way has led to no session and to no reading, so
an initiator's new keys are new too). It holds for any
number of faults and of restarts: a restart drops sessions and handshakes, never takes a
number back, and what was read stays read.

`OpensAtItsHop` needs to know the header of every hop, not just that it opens. The
invariant says of the header with `n` layers left, at hop `t = Hops - n + 1`, that its layers
are those the origin sealed for the hops from `t` on, and that its `k`-th scalar is the raw
one of hop `t + k - 1` times the blinding accumulated before hop `t`; the first one is then
the effective scalar of the hop. Peeling keeps it since the product is associative and each
hop blinds by the hash the origin blinded by. That no other node opens it is that `Dh`
tells nodes apart, each node using its own key.

`LookupExhaustive` speaks of a lookup that has ended. While one runs, `LookupsCover` holds
instead: every contact of `closest_seen` was asked or is in `todo`. A round keeps it
because `BatchIsAll`: of at most `K` contacts, a batch of `Alpha >= K` leaves none out
(`SizesAssumption`; the code has 3 and 3). Under it lie two lemmas on distances: nodes are
ranked from 0, each with a rank of its own (`Ranks`), so sorting loses nothing (`Sorting`).

`NoncePerCiphertext` speaks of all ciphertexts there have been, and a session is looked up
by address alone, so the invariant has to say that no two addresses and no two times give
one pair of key and role. Ciphertexts not read yet may outlive their session, and a
handshake may be answered twice. `CInv` says where a ciphertext can be (`CellsPlaced`), that
its nonce is below the next one of its session (`NoncesBelow`), that two sessions differ in
key or role (`SessionsDiffer`) and that the keys a node uses towards an address are of ever
younger answers (`AnswersYounger`, `KeysGrow`), its handshake under way the youngest
(`HandshakesDiffer`). That the link reorders nothing then follows from `OrderFollows`: of
two ciphertexts of one node for another, that of the younger answer, or of one session with
the larger nonce, was accepted later. `Deliver` of `LinkService` needs just this of the
cells read before, which `KeysGrow` and `ReadSoFar` say are of an older session or of
smaller nonces.

`HeaderPeeledOnce` needs to know of every fragment, in a cell or in a buffer, that it is
of the layer its build's next hop is to peel (`NextLayer`), and that it is in one cell of
which there is one copy, or in one buffer (`OneCell`, `OneBuffer`). A buffer that completes
then holds all fragments of that layer and none is left anywhere, so the hop that peels it
is the only one to do so; that holds although buffers are shared by all headers under one
id. `CreatedConserved` counts copies in a bag: only a terminal makes a CREATED, as it
makes its route connected, and a relay or a client hands on or takes what it consumes.
`ControlPlaneServes` reads the steps of the one build that may run off these facts: a CREATED
in flight means that its route is connected, so the build is woken only then.

`ReplyOwn` says something only where calls are made in turn and wait (`InTurn`). `TurnInv`
then has at most one call under way (`Active`). As long as the origin has its entry, the
sender kept for stream 1 is that echo's, and an echo of which anything is still on the way
waits, so that what the origin hands to a sender is that echo's own. When `close` has taken
the entry away, the origin drops whatever still comes back.

`NonceFresh` needs the counter to stand where the calls numbered so far have brought it,
and a call to take a number once (`SeqsCounted`). Its hypothesis is the one place where a
theorem is about fewer behaviours than its specification: no more than `SeqMod - FirstSeq`
messages, 2^32 - 64 in the code, are sent. Beyond the wrap the statement is false.

`KnownRouteFound` and `SeedsKeep` are about behaviours in which nothing is lost and a
node's tasks run one at a time. Then `pending`, though keyed by address alone, always has
the right sender: `QInv` says of every task that waits that it is the one kept for the
address it asked, and that just one datagram is under way for it, its request or the answer
to it (`Waited`, `Carries`); only a task whose store has been served has none, and only it
times out (`Stored`). So what comes back to a route has the descriptor it asked for if it
asked the node itself (`Answers`), and a node that joins has each of its stores in its list,
under way or done (`SeedsToCome`). Other nodes' tasks, which run at the same time, change
only tables and stores, and a store only grows.

`Cover` composes the loop with the link: `CoverUsesLink` says that the loop and the
application add no step of their own to the link, so what is proved of the link holds under
cover traffic, whatever is in the tables. `PaddingSent` and `CellUnderWay` are what is true
of `padding_sent`: a cell is counted once, by the node that sent it, after the socket took
it. That it reaches another node is not (`CoverSelf`).

Each proof module lays its invariant out as named conjuncts, has one lemma per group
of actions and one step per conjunct an action can disturb. Each invariant was checked by
TLC on the runs' instances before it was proved.

**Only model-checked**: the liveness properties (`BuildResolves`, `RelayReturnsCreated`,
`TeardownSettles`, `NetworkQuiets`, `EchoReturns`, `EchoAnswered`, `CellsArrive`,
`RouteReturns`, `WalkCompletes`) and the fairness conjuncts of `ImplementsService` and
`ImplementsChannel`: TLAPS has no rule for fairness that this version could use. The
violation runs refute their property on an instance, which needs no proof.

## 6. What is not modelled

* Cryptography: keys match or do not, and the laws of the curve are assumptions of
  `Sphinx`. HKDF, the AEAD and the KEM are primitives without state; so are the codecs of
  cells, descriptors and datagrams, pure layouts that the tests compare byte by byte.
* Of the DHT, malformed datagrams and their codec, datagrams delivered twice, `lookup`
  without a value (only a test calls it), and the age of descriptors: `TTL_DESC` is read
  nowhere and a cached descriptor stays. A table of 64 keeps the nodes nearest to its
  owner, so a contact near a target and far from the owner may be dropped as it is
  learned (`kademlia.rs:156`); `KnownRouteFound` promises only what a lookup held, and is
  silent on a contact that was dropped. What overlapping or lost requests to one address do
  to each other is in the model, but `KnownRouteFound` and `SeedsKeep` promise nothing then;
  `RouteReturns` says that the tasks end, and `DhtCrossed` what they may return. In
  `Circuit` a hop resolves or the build is refused.
* Restarts outside `Link`. A node that restarts loses its circuits, fragment buffers and
  DHT tables as well, and draws a new id; to the other nodes of `Circuit` and `Relay` it is
  then a hop that answers nothing, which loss already covers, and in `Kademlia` a new node.
* The wrap of the u32 counters `next_cid` and `seq_origin`: `MaxCid` stops the first,
  and the runs and `NoncesFresh` stay below the second.
* Queues at their limit: the channel of 256 cells from a link to its node is emptied
  by a loop that only spawns tasks; that of 16 answers to an echo takes one answer and
  is then closed.
* Statistics, but for the two counters of the cover loop, and the delays between its turns.
* The command line and the demo, which call the library in sequence.
