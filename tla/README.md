# A formal model of ioc-hierarchy-service

TLA+ modules, TLC configurations and TLAPS proofs for the hierarchy service:
an in-memory tree of nodes, kept by daemon processes, stored through a backup
service in redis.

## 1. The system

| Component | State | Operations | Talks to |
|---|---|---|---|
| In-memory hierarchy (`tag_hierarchy/tag_hierarchy.cpp`) | boost graph `graph_`, index `vertices_` (id to vertex descriptor), descriptor `root_` | `store`, `restore`, `flush`, `healthcheck`, dispatch by name | commands; main loop |
| Commands that change it (`commands/populategraph.cpp`, `update.cpp`, `delete.cpp`) | none of their own | one loop over the nodes of a request | the hierarchy's state, by reference |
| Commands that query it (`commands/nodes.cpp`, `search.cpp`, `filteroptions.cpp`, `visitors/`, `utils/`) | the state of one depth-first traversal | a traversal from the root or from a node | the hierarchy's state |
| Daemon (`main.cpp`), as `server` or `statemanager` | a REP socket for clients, a SUB socket (server only) | poll; handle a request; handle a notification; store and restore through the backup service | clients, backup service |
| Backup service (`backup_service/main.cpp`) | none (redis holds the archive) | get, set + publish, reply | daemons (REP), server (PUB), redis |
| Python client (`python/cpp/client.cpp`) | one request: socket, retries left | send, wait with timeout, resend | daemons |

The intended flow: clients populate the statemanager, ask it to `store`; the
backup service writes the archive to redis and publishes `cache_updated`; the
server, which kept serving, restores itself from redis; the statemanager is
flushed.

What is hard here and hardly reached by a unit test:

* descriptors are raw addresses: the index and `root_` must never name a freed
  vertex, through any sequence of populate, update, delete, flush, store and
  restore;
* the archive holds the graph only; index and root are rebuilt by a scan;
* `delete` recurses along edges and frees what it collects, which is correct
  only on a forest, and nothing checks that it is one;
* an exception in the middle of a batch leaves the first part of it applied;
* daemons block on the backup service without a timeout; the notification has
  no content, may be lost, and races with stores and restores;
* any process may end between any two steps;
* the visitors of the queries collect their results bottom-up and stop early, so
  what a reply says of a folder depends on the order of boost's callbacks;
* the client retries with an object that its first send emptied, on a socket that
  its caller may not hold, and counts down to a zero that it may never meet.

`PROJECT.json` lists these under "hazards", each at its line.

## 2. Modules

| Module | Models |
|---|---|
| `TagHierarchy` | one daemon's hierarchy and every command on it |
| `MCTagHierarchy` | the same for TLC, with the symmetry of client ids |
| `TagHierarchyProofs` | proofs of what holds whatever clients send |
| `TagHierarchyClientProofs` | proofs of what holds for clients that keep to the rules |
| `HierarchyById` | abstract specification of one daemon's hierarchy: nodes known by ids, no vertices |
| `TagHierarchyById` | the refinement mapping from `TagHierarchy` to it |
| `TagHierarchyByIdProofs` | proof that `TagHierarchy` implements it |
| `HierarchyService` | server, statemanager, backup service, redis, messages, crashes |
| `MCHierarchyService` | the same for TLC |
| `HierarchyServiceProofs` | proofs of its safety, with any process ending at any step |
| `DepthFirstVisit` | the order in which `boost::depth_first_visit` enters and leaves vertices |
| `DepthFirstVisitProofs` | lemmas about trees, and about what a traversal has still to visit |
| `NodesQuery`, `MCNodesQuery` | the `nodes` command: visitor, terminator function, reply |
| `NodesQueryProofs` | proofs of what it replies, on every tree |
| `FixtureHierarchy` | `NodesQuery` on the 191 nodes of `unittests/hierarchy_dump.cpp` |
| `SearchQuery`, `MCSearchQuery` | the `search` and `filteroptions` commands |
| `SearchQueryProofs` | proofs of what they reply, on every tree |
| `QueryClient` | `query()` of the Python module, its sockets, and the daemons as it meets them |
| `QueryClientProofs` | proofs for any number of calls, crashes and retries |

`TagHierarchyById` extends `TagHierarchy` and instantiates `HierarchyById`.
`NodesQuery` and `SearchQuery` extend `DepthFirstVisit`; `FixtureHierarchy` replaces
the arbitrary tree of `NodesQuery` by one that is populated. `HierarchyService`
composes daemons, backup service and redis; `QueryClient` composes the client with
the two daemons' request handling and the addresses of `config.h`.

### TagHierarchy

| Variable | In the code |
|---|---|
| `bundle`, `edges`, `nextv` | `graph_`: live vertices with their `Modelhierarchy`, edges, and the next vertex |
| `vertices_`, `root_` | the members of the same name; 0 is the null descriptor, which is what `numeric_limits<VertexT>::max()` yields for a pointer type |
| `saved` | the archive that a restore gets back |
| `status` | the process runs, has ended, or has gone on after touching freed memory |
| `call` | the command being handled: its loop's partial result, later its reply |

A vertex descriptor is the position of allocation since the last clear. That
is the order of boost's vertex list, which is the order in which the archive is
written, read back and scanned. Addresses may be reused by the allocator; the
model does not reuse positions, and treats every use of a freed descriptor as
undefined behaviour (the process ends, or goes on "corrupted"), so nothing is
concluded from the address being different.

`populate_graph`, `update` and `delete` are split into a Begin step, one step
per node, and a Done step. The nodes of a request are chosen step by step, so a
request is any finite list; no other command starts while one is busy, because
the daemon is single threaded. A node is an id, a parent id and one value that
stands for all other properties. `Absent` is a missing key, `NoParent` a value
that is not a string, such as None. An exception inside a command ends it with
an empty reply (`Command::Process` swallows it) and keeps what its loop has done
so far; an exception that leaves `Handle` ends the process after the reply
"command failed"; a null descriptor that is dereferenced ends it without one.

`Restore` here is the whole exchange: the backup service's answer is either
"ERROR" or the archive. `RestoreUnreadable` is an archive that boost cannot
read; the hierarchy has been cleared by then and the exception ends the process.
The queries are represented by the descriptors they dereference.

### HierarchyService

A content is a number, 0 for the empty hierarchy; every editing command makes a
new one. The main loop keeps the code's order: poll, request, then the
notification that this poll reported. `store` and `restore` put a request into
the backup service's queue and block. The backup service takes one request at a
time through `recv`, `work`, `publish` and `reply`. To publish is to hand a
notification to the PUB socket: `sending` counts those that have not reached the
server's SUB queue yet, `inbox` those that have, and `NotificationArrives` moves one.
The server's subscription arrives some time after it (or the backup service) started;
a notification published before that is dropped, as is one for which the PUB socket
has no room (`Queued`); a full SUB queue makes those on their way wait.

The end of a daemon turns its outstanding request into an orphan, which may still
reach the backup service, and whose reply goes nowhere. The end of the backup service
(`BackupEnds`, in `BackupStops` and `RedisFails`) loses any part of its queue, and of
what its sockets have taken but not sent: notifications in flight and replies.
`RedisFails` is an exception of redis++, after which a set may or may not have taken
effect. `behind` and `held` are history variables that only properties read; `Missed`
sets `behind` when a notification is lost and no other is left to make the server ask.

### HierarchyById and the refinement

The abstract state is a partial function from ids to nodes (what the node hangs
below, the parent id it was given, its data), whether there is a root, and the
same for the archive. Its actions add a root or a node, change a node's data,
remove a node with what hangs below it, save, load and clear. The mapping reads
the hierarchy through `vertices_` and `root_`, as the commands do, and the archive
through a scan of its vertices, as `load` does. So the refinement says that
descriptors, index and scan are an implementation detail: every step of the code,
each node of a batch included, is one of the abstract actions or changes nothing.
Two peculiarities are part of the promise. A second root takes the first one's
place, and the children of the first hang nowhere from then on (they stay in the
graph and in the index). A node that gives "root" as its parent id hangs below the
root after a restore, when the root is in the index, and nowhere before that.

### DepthFirstVisit, NodesQuery, SearchQuery

A tree is a function from vertices to their parents; a parent is older than its
child, since `populate_graph` draws an edge only from a vertex that exists. The
module decides which vertex is discovered next or left next; the visitors' code is
in the actions `Discover` and `Finish` (which is `finish_vertex` followed by
`finish_edge`, between which nothing happens). A node's properties are a record of
those keys that the code reads. `bad` marks a property of the wrong type, at which
`boost::get` or `at` throws in the named callback. Ids of vertices and vertices are
the same here: what the index may get wrong is the subject of `TagHierarchy`.
Properties compare the reply with definitions that look at the tree as a whole
(`Visited`, `Deciding`, `Before`) and know nothing of paths and callbacks.

In `SearchQuery` a text is a short sequence of letters; the three searchers are
modelled by what they accept: boyer_moore substrings (never in an empty text),
`std::regex_search` with the one metacharacter `.` and an expression that does not
compile, and equality.

`FixtureHierarchy` is generated by the same rule as the data: two trees of
3 x 3 models with nine elements each, three illegal entries that name each other as
parents, and one model whose id is spelled differently from what its elements name.
`PopulatedParent` is the loop of `populate_graph` over this list. (The unit tests
load `hierarchy_dump.json`, a newer file of the same shape; `hierarchy_dump.cpp` is
the copy that is kept in C++.) `ReplyFollowsRequest` says what a reply to any start
must name from the ids and the order of the request alone (`HangsBelow`, `Admitted`),
without the tree, the paths or the ancestors that `NodesQuery` uses.

### QueryClient

A call is a number; its command is a population, which is not idempotent. The
client's state is the one of `query()` between two polls: retries left, the message
object, whether the caller's socket is open. A message on the `wire` remembers
whether its socket is still open: a reply is delivered only then. Closing a socket
with linger 0 may drop what was sent (`Drop`) or not, so a closed message may also be
received late. `ProcessRequest` gets the socket pointer by value: after a resend the
caller holds a closed socket (`connected` is FALSE), and polls the standard input.
A daemon refuses an empty message with "resend", executes a command, fails at it and
ends, or ends and starts again without its content. An executed batch may have thrown
midway, when `Command::Process` swallows the exception and the reply is an empty list:
the first part of the batch is applied and the caller sees a reply without entries.
The values of `retries_left` below zero are represented by -1 and -2 (the tests for
zero cannot tell more).

## 3. Runs

| Run | Question | Bounds |
|---|---|---|
| `by_id` | Do index, root and archive stay consistent, is no freed memory touched, and does the whole implement a forest of nodes known by their ids, if clients keep ids unique and never call a node "root"? | two ids, two data values, three vertices between two clears, `Bounded` |
| `hierarchy_any` | What is left if they do neither? | ids `a` and "root", three vertices, archives of the first two (`SmallArchive`) |
| `root_deleted` | Does `ok` of healthcheck mean that there is a root? **Violated.** | two vertices |
| `duplicate_ids` | Does delete keep the index in step with the graph when an id was populated twice? **Violated.** | three vertices |
| `service_crashes` | Is every request answered while no process ends? When one ends at any step, does the server catch up unless it is stale for a named reason, and is what was acknowledged stored? | one edit, three stores, room for one notification at each end, one crash |
| `late_subscriber` | Does the server always get a newly stored state, as the repository's README says? **Violated.** | one edit, one store, no crash |
| `nodes_query` | Does `nodes` return exactly the children with a passing element below them, with their models, the highest severity, the disjunction of suppression, and no access level of a sibling or of a vertex below? | every tree of four vertices, nine shapes, four filters, every start |
| `access_levels` | Does a child without an access level get that of the vertex above it, as a comment in `finish_edge` wants? **Violated.** | trees of three vertices, shapes that differ in their level, no filter |
| `nodes_fixture` | Does `populate_graph` followed by `nodes` return what the ids and the order of the repository's own request imply, in spite of its circle and orphans? | 192 vertices, six filters, every start that is no element |
| `search_query` | Does `search` return the first hits in the order of the tree, and `filteroptions` all values? | every tree of four vertices, four shapes, limits -1, 0, 1, 2, 4 |
| `client` | Is a command executed at most once, is a reply the caller's own, does a call send more often than it may, does it end, what does a population in batches leave behind? | three calls with zero, one or three retries, one crash |
| `retries` | Does a call retry `request_retries` times, as the parameter's description says? **Violated.** | one call, one or two retries |

Why these bounds. Three vertices allow a chain of three below each other (so
that a delete of only one level is noticed), two roots and a node, a deleted
vertex beside two live ones, and a duplicate with a child. Two ids give an id and
its parent, and an id that is named after it has gone. Every step of a request
is explored from every state, so the length of requests and of sequences of
commands is not bounded except by the number of vertices. Two stores let one
overtake the restore that the other caused; with room for one notification at each
end, the notification of the third store is the one that is dropped. One crash is
enough to be between any two steps, a publication and its arrival included.
`SmallArchive` only keeps `hierarchy_any` short: restored duplicates, with a third
vertex added after the restore, are in it. `Bounded` does the same in `by_id`: TLC does
not go on from archives of more than two allocations or with the second data value
(the states that have one are still checked, `RestoreFaithful` among them), nor after a
step that only read or refused something, since what follows it also follows without
it. Two data values are there so that an update is visible. The proofs of section 4
have neither bound.

Four vertices in the queries are a root or start, an inner vertex, and two elements
whose order matters, or a chain of root, folder, model and element; shapes and
filters are chosen so that every branch of the visitor and of the terminator function
is taken. `nodes_fixture` has the depth and the breadth that four vertices lack, on
one tree. `HitsAreFirst` at four vertices sees a limit that is reached at the last
vertex, before it and never. Three calls of the client are a late message of the
first, a failure of the second and the caller's next call; three retries let a
time-out follow a resend and the other way round, one retry gives up at once, and zero
is the value at which the counter passes its test; the sends of a call are counted to
five (`MaxSends`), one more than the first and three retries. One crash is between any
two batches.

Deadlock is checked in the runs that pass, except in `service_crashes` and `client`.
In the first, both daemons may wait for ever for replies that a crashed backup
service will not send, and then the system really has stopped. In the second the
caller makes no more than `MaxCalls` calls.

Fairness. In `QueryClient`: `zmq::poll` returns after `request_timeout` at the latest
and the caller then goes on (weak fairness of `Poll`); nothing is assumed of the
daemons or of the network, so `QueryEnds` holds whatever they do, for a positive
`request_retries`. In `HierarchyService`: a running process goes on with the step it
is in; the backup service serves its peers fairly (REP sockets fair-queue, strong
fairness per peer); a notification in flight arrives if its sender does not end before
(weak fairness of `NotificationArrives`), and from then on every poll reports it (strong
fairness, since the daemon may be busy). Nothing is assumed of clients, and nothing
about restarts: no supervisor is part of the repository.

### Findings

1. `root_deleted`: `load` puts the root into the index, so after a restore
   `delete` of "root" frees it while `root_` still holds the descriptor.
   Healthcheck and the queries compare `root_` with null only.
2. `duplicate_ids`: `delete` erases the index entry by id, also when a
   different vertex with that id stays in the graph.
3. `late_subscriber`: the server does not ask for the state when it starts, so a
   notification that is published before its subscription arrives is lost and it
   stays empty until the next store.
4. `access_levels`: comments in `finish_edge` say that the data access level propagates
   down towards the leaf nodes. The level of an edge's target is recorded for the target
   when that edge is finished, which is after the edges below it, and for the start
   never; so no child without a level of its own gets one.
5. `retries`: `request_retries` is described as how many times to retry on failure, but
   it counts sends, the first one included.

The models show more that a reader of the code may not expect. These points are
part of passing properties, or of the actions, as the code has them:

* Staleness (`NoSilentStaleness`). `send` on the PUB socket only queues the notification:
  if the backup service ends right after it, the archive is stored and the server stays
  as it is until the next store. The property names this as one of its reasons (`behind`).
* A failed command (`UnknownCommand`). `HandleReply` answers
  "fix_parameters" to a request that names no registered command and then throws out of
  `main`: the caller is asked for better parameters by a daemon that has ended.
* Suppression (`SuppressedIffAny`). The KPI filter decides what is valid, but not whose
  suppression counts: a node may be suppressed for an element that the filter hides.
* `nodes` for a model element (`Discover`). On a path of one vertex the visitor's
  `path_[path_.size() - 2]` and `path_[1]` are out of range; the model inserts any pair
  or ends the process, and `ReplyIsFiltered` says nothing of this request.
* Retries (`AtMostOnce`). A retry sends zero bytes, since sending a message empties it,
  and the daemon answers "resend". It is also what makes `AtMostOnce` true: with a retry
  that carries the request (the mutant of that property) a late first message and the
  retry are both executed, so a repair of the retry needs a way to recognise repeated
  requests.
* Counting (`QueryEnds`). With `request_retries` zero or negative the counter never meets
  its test, and a call that gets no answer never gives up; `QueryEnds` and
  `SendsAreBounded` speak of positive values only.
* The socket (`ProcessRequest`, `StdinReadable`). After a "resend" the caller polls a closed
  socket, which zmq takes for file descriptor 0, and raises an exception if that can be
  read.
* Addresses (`IsUseTcp`). `ZEROMQ_USE_TCP=1` selects IPC, any other value TCP; a client with
  "1" and daemons without the variable talk to each other, as in the run `client`.
* Batches (`BatchesInOrder`). After a restart in the middle of a population the daemon
  answers "cache populated" to the remaining batches and holds only those. It is the
  strongest form that holds; a caller cannot learn of the loss.

## 4. Proofs

TLAPS proves every invariant that a passing run on an arbitrary instance checks, and
the action property of delete and the refinement of `HierarchyById`, for every value
of the constants. Each proof has an inductive invariant, which TLC has checked on the
instances of the runs first.

| Module | Proves, as invariants of the specification |
|---|---|
| `TagHierarchyProofs` | `TypeOK`, `IndexSound`, `EdgesLive`, `Forest`, `ParentLinkAgrees`, `DeleteTakesSubtree` |
| `TagHierarchyClientProofs` | `RootLive`, `IndexComplete`, `RestoreFaithful`, `DeletedIsGone`, `MemorySafe` |
| `TagHierarchyByIdProofs` | `ImplementsById`, the refinement |
| `HierarchyServiceProofs` | `TypeOK`, `StoreIsDurable`, `NoSilentStaleness` |
| `QueryClientProofs` | `TypeOK`, `AtMostOnce`, `ReplyIsOwn`, `SendsAreBounded`, `BatchesInOrder` |
| `SearchQueryProofs` | `TypeOK`, `HitsAreFirst`, `OptionsAreComplete` |
| `NodesQueryProofs` | `TypeOK`, `ValidUpwards`, `ReplyIsFiltered`, `SeverityIsHighest`, `SuppressedIffAny`, `NoLevelFromBelow` |

### The hierarchy

*Along which argument.* Lemma `StepEffect` shows, one case per action, that a step
changes graph, index, root and archive in one of eight ways. The invariants are
proved by these effects. The only facts about `Descendants`, the set that the
recursion of delete collects, are that it contains its vertex, is closed under
edges (`DescendantsClosed`) and is the least such set (`DescendantsLeast`).

*`TagHierarchyProofs`*, without assumptions on clients. The inductive invariant
`GraphInv` adds to `IndexSound`, `EdgesLive`, `Forest` and `ParentLinkAgrees` the
same facts about the archive, which `load` brings back, and `RootNamed`: while
`root_` is a vertex, its id is "root". Without the last, a node without parent id
could be hung below a vertex that is no root. `root_` may dangle here, which is
finding 1, and the invariant does not say otherwise.

*`TagHierarchyClientProofs`*. If "root" is no client id, no edge leads to a root
(`RootsOnTop`), hence no delete reaches one, hence `RootLive`; with `GraphInv` this
gives `MemorySafe`. If ids are unique besides, the index is complete, which needs
that ids are unique in the archive (`UniqueIn`); `RestoreFaithful` and
`DeletedIsGone` follow. The two hypotheses about clients are hypotheses of the
theorems, and findings 1 and 2 show what happens without them.

*`TagHierarchyByIdProofs`*, under the same two hypotheses: each of the eight effects is
an action of `HierarchyById`, or changes nothing that the mapping reads. `ByIdInv` adds
to the invariants above that a client's node has data, by which the abstract
specification tells it from no node. What a vertex hangs below is decided by the one
edge that leads to it (`UpIs`), so a step that neither adds nor removes that edge nor
changes the id at its other end leaves the node where it is (`SameUp`). A store is `Save` because
load's scan of the graph finds what the index holds (`RestoreFaithful`). A delete is
`Remove` because the least set that is closed under edges and the least set that is
closed under the parents' ids have the same nodes (`SubtreeIs`); each direction shows
that one of them is closed in the sense of the other.

### The service

`NoSilentStaleness` alone is not inductive: whether a restore in progress will bring
what redis holds depends on where its request is. The invariant says that the daemon
a request comes from waits for its reply, in the operation that sent it and with
unchanged content (`RequestsOwned`); that the backup service's answer is what redis
holds until it is sent, because it works at one request at a time
(`BackupConsistent`); that a notification which poll has reported is still queued
(`NotificationKept`); and that a server which is about to restore something older
than redis will be notified again (`StaleIsNotified`): a notification is about to be
published, on its way or queued, or `behind` says why there is none. A store that is
overtaken by another one and a notification dropped at a full socket are covered by
the last part. Lemma `BackupEndsType` serves both ways in which the backup service ends.

### The client

The invariant says where a request can be. A command is in at most one message on the
wire, and only until it is executed (`OneRequest`); an open message is the last one and
its sender polls (`OpenIsLast`); the message object is empty between two sends (in
`Typed`), which is why a resend cannot carry the command. While the caller polls, sends
and retries left add up (`Counted`). `Ordered` relates what a daemon holds to what it
has executed: it holds it, or lost it before everything that it holds.

### The queries

*Trees.* `Ancestors` is a recursive function, and what it computes needs induction over
vertices. The library's induction theorems take a predicate as a parameter, which the
provers cannot instantiate, so `VertexInduction` is proved about a set instead, from the
least element of its complement (`LeastNumber`, from `WFMin` of the library); a proof by
induction then takes the set of vertices that have the property. From it follow that
`Ancestors` satisfies its definition (`AncestorsDef`), and that ancestors are older,
transitive and linearly ordered.

*Traversals.* `Roots` are the children that the vertices of the path have yet to deal
with, `ToVisit` is everything below them. Entering a vertex strikes off that vertex, or
all that is below it where the terminator function ends the search (`EnterToVisit`);
leaving one changes nothing (`LeaveToVisit`); when the start has been left, nothing is
left to visit.

*`SearchQueryProofs`*: everything entered so far comes, in the order of the tree, before
everything left to visit, and the hits are the matches among what was entered.

*`NodesQueryProofs`*: the valid vertices are those at or above an accepted vertex that
has been entered (`ValidOK`), the models the parents of these (`ModelsOK`). What is
recorded for a vertex that is no element comes from the elements that decide about
those of its children that have been left (`Gathered`, in `SuppressedOK` and
`SeverityOK`); when a vertex is left, all its visited children have been, and these are
all elements that decide about it (`ChildrenDecide`). No level is recorded for a vertex
on the path (`LevelsOK`), so none can be handed down an edge: the level of a child in
the reply is its own or absent, from which `NoLevelFromBelow` follows.

### Assumptions

The constants are as `ConstantAssumption`, `ServiceAssumption` (bounds are natural
numbers), `VertexAssumption`, `ShapeAssumption` (severities are natural numbers or none),
`SearchAssumption` (a limit is an integer) and `ClientAssumption` (what counts sends can
count the first send, as many retries as are asked for, and one more) say. TLC evaluates them in the runs.

### Only model-checked

Liveness under fairness (`RequestsAnswered`, `ServerCatchesUp`, `QueryEnds`) is out of
the prover's reach and stays with TLC. So does the run `nodes_fixture` with `ReplyFollowsRequest`: it is about one
request, whose tree `PopulatedParent` builds by recursion over the list of its nodes.

## 5. Not modelled

* Addresses of the backup service and of the notifications in `config.h`: the same
  test chooses them; `HierarchyService` takes them as connected.
* A negative `request_timeout` of `query()`: zmq takes it for no timeout, and a call whose
  daemon does not answer would wait for ever. `QueryClient` takes timeouts as finite.
* Regular expressions beyond one metacharacter, and the parsing of request
  parameters whose absence or type makes a query throw before it visits anything
  (an empty reply, no state change; in `TagHierarchy` as a command that fails).
* Several callers of `query()` at once: a daemon handles one request at a time and a
  call shares no state with another one, so they differ from the sequence of calls
  only in the order in which a daemon receives them.
* Formatting of replies, logging, printing of nodes, the conversions of pybind11 and
  of the test fixture's JSON, the gzip and boost encodings (an archive is either
  readable, and then gives back the graph, or not).
* Edge labels and connection ids, which are constants.
* Build, packaging and CI files.

## 6. Plan

Done: all components as models and runs; the abstract specification by ids and its
refinement, checked by TLC and proved; proofs of the safety of the hierarchy, the
service, the client and the queries.

What is left: in `HierarchyService`, the link from its numbered contents to the archives
of `TagHierarchy` (a store and a restore there are `Save` and `Load` of `HierarchyById`).
