# Space battle game: TLA+ models, checks and proofs

This directory holds a formal model of the game's own libraries (`src/libraries/`): TLA+ modules,
TLC configurations that check them on small instances, and TLAPS proofs for every value of the
constants. `PROJECT.json` lists the components, the runs, the mutants that show each property can
fail, the source lines each definition translates, the hazards of the code and the theorems.

    tlc -config MCAsioSession.cfg MCAsioSession
    tlapm AsioSessionProofs.tla

## The system

A server process (`example_GameServer.cpp`) owns a `World` of entities; client processes
(`example_GameClient.cpp`) connect over TCP, send a token and then serialized commands, and apply the
same commands to a world of their own. A third process (`example_GameAuth.cpp`) hands out tokens.

| Component | State | Operations | Interacts with |
|---|---|---|---|
| `AsioSession` | write queue, `is_writing_`, `is_active_`, socket, one read, outstanding writes | send, close, read and write handlers | io_context (posted closures and completions), application handlers |
| `AsioNetworkClient` | the same without a working `is_writing_`, how far `connect` got, its own io_context | connect, send, disconnect, stop, poll, handlers | resolver, socket, application |
| `AsioNetworkServer` | `clients_`, acceptor | accept, broadcast, default `on_disconnect` | sessions |
| `CommandQueue` | queue, `stopped_`, mutex, condition variable | Push, Pop, Stop | any thread |
| `CommandExecutor`, `ExceptionHandler` | a queue, registered recovery handlers, retry counts | EnqueueCommand, WorkerLoop, Handle | commands, the update callback |
| commands | macro lists, world and object references | Execute, Serialize, Deserialize | `World`, `Player` |
| `World` | components by type and entity, next id, systems | create/destroy entity, add/get component, Update, Save/Load, clear | systems |
| `DynamicBVH`, `CollisionSystem` | objects, tree | build, refit, findCollisions, onWorldUpdate | `World`, `CommandExecutor` |
| `IoCContainer` | scopes per thread, current scope id | register, resolve, scopes | the examples |
| `Signal` | callbacks by name | connect, emit, disconnectAll | visualization, input |
| game protocol | authenticated flag per session, players | token, command, disconnect | all of the above |

What is hard here, and what makes each component correct:

* **Connections.** Every call only posts a closure; closures and completion handlers interleave with
  the kernel and the peer. A correct session never has two writes under way, keeps the order of the
  sends, drains its queue, tells the application of the disconnect (and not of messages after it).
  The client must do the same through endpoints that refuse, lost connections and a stopped
  io_context.
* **Commands.** `Pop` blocks; no wakeup may be lost, and `Stop` must release everybody. The executor
  runs commands re-entrantly (a command's update callback runs systems that run commands), and its
  recovery decides what a failed command leaves behind.
* **World and collisions.** `DestroyEntity` changes the map it tests; the collision system walks a
  list while every element re-runs the collision system; the tree is rebuilt over stale nodes. A correct
  world never lets what survives under an id become part of a new entity, and a turn must end.
* **Container, signals.** State shared between threads, callbacks run under a mutex.
* **Protocol.** The server takes the first message for a token whatever it is; the client's world and
  the server's must not drift apart, and what a client leaves behind must go.

## Modules

| Module | Models | Notes |
|---|---|---|
| `AsioSocket` | the part of boost::asio both ends use (external): operations, completions, abort on close, the bytes of a late write | constants only |
| `AsioSession` | `AsioSession.hpp` | one action per call, closure, completion and handler |
| `AsioNetworkClient` | `AsioNetworkClient.cpp` | the same for the client, with connect and the io_context |
| `MessageChannel` | abstract: a FIFO of messages, each delivered as sent or garbled, until the framing is lost; after that anything | what a direction of a connection promises |
| `AsioLink` | a client and the session `doAccept` made of its connection | each end INSTANCEd with the other's outbound frames as its inbound |
| `CommandQueue` | `CommandQueue.cpp` | any number of threads |
| `CommandExecutor` | `CommandExecutor.cpp`, `ExceptionHandler.cpp` and its three handlers, `MacroCommand`, `RetryCommand` | one thread; INSTANCEs `CommandQueue` as what it must refine |
| `DynamicBVH` | `BoundingVolumesHierarchy.cpp` | the tree as a function from node numbers; `FindCollisions` is an operator, checked against all pairs |
| `EntityRegistry` | abstract: which entity ids are alive, and the next one | what a world promises those who keep ids |
| `World` | `World.hpp`, `World.cpp`, what `PlayerFactory` creates | actions for others to compose |
| `Commands` | `Execute` of the game's commands and of macros | operators on an object's properties |
| `CollisionSystem` | `CollisionSystem.cpp`, `Player`'s properties, the server's callers | EXTENDS `World` and `Commands`, INSTANCEs `DynamicBVH` for its tree |
| `GameProtocol` | the three programs `example_Game*.cpp`, `doAccept`, `clients_` | EXTENDS `Commands`; connections as `AsioLink` showed them |
| `IoCContainer` | `InversionOfControl.h` | any number of threads |
| `MC...` | instances for TLC | |
| `...Proofs` | theorems | each EXTENDS the module it is about |

### AsioSession

`posted` is the io_context's list of closures (`send(m)` posts `m`, `close()` posts `CLOSE`), run in
order by `RunSend` and `RunClose`. `writes` and `read` are the started asynchronous operations: the
kernel ends them (`WriteCompletes`, `WriteFails`, `HeaderArrives`, `BodyArrives`, `ReadFails`), their
handlers run later (`OnWrite`, `OnRead`). Closing the socket (`AllAborted`, `Aborted`) fails what is
pending and leaves results that are already there, as asio does. `write_queue`, `is_writing`,
`is_active` and `socket_open` are the fields. A frame (4-byte length and body) is the message in it.

`doWrite` hands `async_write` a buffer over a local vector. asio tries the socket at once, while the
vector exists; what the kernel does not take then is sent from freed memory. So a write either
finishes at once with the right bytes or is left pending, and then its frame is the message,
`Garbled` (right length, other bytes) or `Torn` (a wrong length; the reader loses the framing for
good). From then on (`torn`) a body of the length read may end anywhere: inside the frame it began in
(a zero or short length makes several messages of one frame) or after several frames (a long one makes
one message of them). `taken` counts the frames read to their end, so it grows by any number, none
included, and what is handed over is `Garbled`. `Disconnected` leaves open whether the application's handler calls `close()`: the default one
of `AsioNetworkServer::doAccept` does, GameServer's does not.

History variables (`accepted`, `received`, `outbound`, `inbound`, `disconnects`) record what the
properties compare. They guard nothing, with two exceptions: `inbound` is also what the peer has sent,
bounded by `MaxPeer`, and a reader that lost the framing reads no further length after `MaxReceived`
messages, as one frame may then make any number of them.

### AsioNetworkClient

As above, and: `link` is how far `connect` got. `async_connect` opens the socket, and closes and
reopens it between endpoints, which aborts a write started meanwhile; a refused connection leaves the
socket open. `is_writing_` is not a variable because the code never sets it. A failed write closes
the socket and leaves `is_active_`, the frame in the queue, and no write under way; a read that is started
then fails at once (`AsyncRead`). `io_stopped`: an
io_context that runs out of work stops and nothing restarts it (`EndOfHandler`, `PollIdle`).
`Connect` may be called again when no connection is up or on its way (also after a failure), or behind
a posted disconnect; overlapping connects on a live connection are left out, as no caller makes them.

### AsioLink and MessageChannel

The two ends interleave freely. `Establish` is the accept: from then on the session exists and reads.
`to_client` and `to_server` are the frames on the wire, and an end that closed its socket is the
other's closed peer. In each direction the pair (`accepted` of one end, `received` of the other)
implements `MessageChannel`; `ToClientChannel` and `ToServerChannel` check it as a refinement. The
channel is a FIFO until `Break`, which is the reader taking a wrong length off a message that was
sent; a broken channel hands over garbled messages, more of them than were sent if need be
(`DeliverAnything`). `Break` needs a message on its way, so a connection never loses its framing by
itself.

### CommandQueue

Every method holds the mutex throughout, so each is one action; `Pop` is split where it waits.
`calling` are the threads that still have to look at the queue, `waiting` those in `cv_.wait`. The
game today pushes and pops from one thread; the class has a mutex and a condition variable because it
is meant for more, and the model gives it any number.

### CommandExecutor

Whoever has a command (the server's message handler, the client's loop, `CollisionSystem`) calls
`EnqueueCommand` and then `WorkerLoop`, which takes one command, executes it and calls back; the
callback is `World::Update`, whose systems may do the same again. So there is one thread and a
`stack` of activations of `WorkerLoop`, each with its phase: `enqueued` (its caller is about to call
it), `pop`, `waiting` (blocked in `cv_.wait`: there is no other thread to push), `execute`,
`callback`, `failed` (in the catch clause) and `retry` (executing a `RetryCommand`). Only an
activation in its callback has others above it.

A command is a number of parts that take effect one after the other, `RunPart`, and any of them may
throw instead (`Throws`, or `RetryThrows` in a repetition); a macro has the parts of its commands. The
same catch clause covers the callback. `Recover` is `ExceptionHandler::Handle`: every handler's
`CanHandle` is true, so the first one registered answers, and `retry_count` is
`TwoTriesThenLogHandler`'s map. `handlers` may already hold others (`earlier`) when the executor
registers its own, since the exception handler is a singleton; more may come later. A recovery that
throws leaves its activation through the callback of the one below (`escaped` counts those that leave
the outermost). `submitted`, `popped`, `effects`, `recoveries` and `escaped` are history variables;
a queue entry is the number of its submission, so that the same command object may be submitted twice
(`retry_count_` is keyed by the object).

### DynamicBVH

`tree` holds the nodes reachable from `root_`, numbered like a heap's. `buildRecursive` splits the
indices by `nth_element` on x, level after level: the leaves end up sorted by x, objects of one x in
any order (`Orders`, a choice), and the number of objects alone decides the shape (`Spans`). Only the
root outlives a build, and `build` does not reset it, so `Rooted` keeps what is not assigned: `isLeaf`
and `index` of a root that gets children, the children of a root that becomes a leaf, the whole tree
when there is no object. `update` is called for an entity, finds its place in the vector, and refits
`leaves_[place]`, though `leaves_` is in the tree's order. `findCollisions` changes nothing;
`Popped` are the pairs of nodes its
stack ever holds (their order, and `seen`, which only avoids repetitions, are left out: the result is a
set), `Pushed` what each of them pushes; `Search` is what they report, and whether a pair pushes
itself, in which case the loop never ends. An index behind the end of
the vector reads `Beyond`. A rotated rectangle enters with the size `h` of its box; coordinates are
integers. `update` between filling the vector and `build` is left out (it may index behind the end of
`leaves_`), as no caller does that.

### World and EntityRegistry

`components` has every type and every entity id; a `Player` is an id and a pointer to the world, so an
id may be used long after its entity. `DestroyEntity` visits the maps in no particular order and erases
from each only while the entity still has a Position, so it takes the Position and any other types
(`Erased`). `Save` writes the world that `Load` brings back; `clear` sets the next id to 0, though the
constructor starts at 1. Types behave alike but for Position and Rotation, so the run has those two
and the proofs any. `EntityRegistry` keeps of all this the next id and the ids that have a Position.

### Commands

An object is a function from the names of its properties to integers, a command the sequence of its
parts. `Execute` runs the parts in order; `Outcome` is one of them: after a part that throws
(`CheckFuelCommand` alone does) nothing more happens and what was done stays.

### CollisionSystem

`Call` is what comes from outside while no turn runs: the calls of `on_connect` (one player, two pieces
of scenery, in the code one after another, here in any number and order, which includes that one),
commands of players, `on_disconnect`, and `Save`, `Load` and `clear` of the library's users. A command
that does not throw starts a turn; `turns` is the stack of turns under way. A turn goes through `Fill`
(all ships write the first slot, the last one stays; slots that `resize` added hold `Junk`, others what
the last turn left), `Search` (`build` and `findCollisions`, of `DynamicBVH`) and one `Destroy` for
each pair found, each of which runs `WorkerLoop`'s callback and so another turn, on the same vector and
tree. `hung` is a search that never returns. Velocity, fuel and the models are left out: a `Player`
has no such property (so `MoveWithFuelCommand` throws for every player, whatever fuel its entity has).

### GameProtocol

`phase` is how far a client is, `own` its ship; `link`, `wire`, `session`, `clients_` are per server.
A key changes `own` and sends the command. The game server takes the first message of a session for a
token, whatever it is (`TakenForToken`), and executes the others on `ship`, as displacements from
where the factory put the ship. `Turn` is what `CollisionSystem` may do afterwards: destroy some ships
(`Wrecks`), or hang (`running`). `Cut` loses messages from some point on; `Arrives` is the
`Garbled` or right message of `AsioLink`. Dereferencing a message that is no command ends the server.
The two ends of a connection and the order on it are those `AsioLink` implements, so a wire is a
sequence here, and a garbled message one with a frame of its own: a connection that lost its framing
(a broken `MessageChannel`) is left to `AsioLink`. `clients_` is what the handlers make of it; no
property is about it, as nothing but these handlers depends on it (no program calls `broadcast`).

### IoCContainer

`scopes_` is per thread, `currentScopeId_` shared. A service is a name and the type its resolver
returns, which is also how it is asked for (`Resolve<T>(key)`). `Resolve` looks up the name under the
mutex (`Lookup`) and calls the resolver it found without it, which may resolve what it uses (`Nest`).
At the end (`Return`) the result is cast: if the service under the name is of another type than was
asked for, the call throws, as `tests_IOC.cpp:44` expects. A resolver may throw as well at any point
(`ResolverThrows`). What is thrown inside is caught and thrown again by every call around it (`Throw`),
so the thread's whole stack `calls` goes. Resolvers only resolve and catch nothing themselves, which is
what the programs' do; they do not register services or change scopes. `undisturbed` is the history
variable: the thread's last `Resolve` began with all it needs in the current scope, each with the type
asked for, and since then nobody moved the current scope and no resolver threw.

## Runs

| Run | Shows |
|---|---|
| `session` | One write at a time; the wire carries the accepted messages in order, each once; every deactivation is reported, at most twice; no message after the report; no write after deactivation; the queue drains; `close()` takes effect. |
| `client` | One write at a time without a working flag, through refused endpoints, connecting again, disconnect and stop; the queue stalls only behind a failed write; in the end it is written, or the connection is lost for good, or the io_context stopped. |
| `link` | Both directions implement the channel, through refused endpoints, lost connections, disconnect and stop: messages arrive in order, none lost in the middle and none twice, until a wrong length is read off one of them; only then, and not before, may `on_message` be called with anything any number of times. |
| `link_garbled` | Violation: the client is handed other bytes than the session sent (see Findings). |
| `queue` | FIFO; no lost wakeup; nothing after Stop; Stop releases every thread; a command is taken while some thread is in Pop. |
| `executor` | The one thread never blocks; every activation runs its own command; with the game's handlers nothing escapes and no part of a command is applied twice or out of order; the two tries, the log and the fresh start of `TwoTriesThenLogHandler`; the executor uses its queue as `CommandQueue` specifies (refinement). |
| `bvh` | After any build with two objects or more: every object has a leaf with its box, boxes enclose those below. Without a build over one object before: reported pairs do collide, colliding pairs with leaves on one level are reported, and the search ends. For two objects, updating both after a move is as good as a build. |
| `bvh_missed`, `bvh_endless` | Violations: a missed collision, and a search without end (see Findings). |
| `collision` | No component waits under an id to come, after any saves, loads and clears; nothing a caller does with an old id brings an entity back (refinement of `EntityRegistry`); turns that nest over the first slot lose a ship each; no search hangs while there were never three objects; nothing is read from behind the vector's end. |
| `game` | The server's ship follows the client's, but for the first key, for ever; a ship that was destroyed is not brought back by the commands still sent to it; the ship of a client that left goes, even if it never sent anything; waiting for a token ends. |
| `ioc` | A `Resolve` throws only for what is missing in the thread's current scope or of another type than asked for, because another thread moved the current scope, or because a resolver threw; every `Resolve` ends. |

Each property of a passing run has a mutant in `PROJECT.json`: an operator marked "Wrong on purpose"
that replaces a translated one and makes TLC report that property.

**Bounds.** `session`: two messages, three calls, one frame from the peer. Three calls give a queue of
two behind a write under way, a close between two sends, a send posted behind a close, and two
closes; one frame is enough for a torn header, a body finished before a close, and a read error in
every phase. `client`: two messages, four calls, two endpoints, one frame: a send before, during and
after each attempt to connect, and a reconnect behind a failure or a disconnect. `link`: two messages (symmetric), two calls at the session and three at the client but
four together, two endpoints: a refused endpoint under a deferred write, a disconnect or stop in any
state, and two messages in one direction while one goes the other way. `queue`: three threads, two
commands, four pushes: more commands than threads, and threads that starve. `executor`: a command of
one part and a macro of two, four submissions, three handlers, with nothing or a
`TwoTriesThenLogHandler` registered first: four nested activations, and one command object failing
four times (twice repeated, logged, repeated again). `bvh`: three places (overlapping, touching in x,
touching in y), up to three objects anywhere and four from left to right, at most two at one place; the
vector is filled twice, so that every tree is rebuilt over every other, and one object moves after each
filling. `collision`: two places, two angles, four ids, five calls, turns three deep, a fresh slot
zero or a ship elsewhere: two ships that meet, a third entity, an id used after its entity, a clear or
load between, and a turn inside a turn over each kind of slot. `game`: two clients, one unknown to the
auth server, three keys between them, one fault (a broken connection or a garbled message): three keys
of one client give a lost first one and two that are followed, and one fault meets any state. `ioc`:
two threads, two scopes, a service that uses another, and one name with two types: every way a call
inside a call can fail, while the other thread registers, resolves and moves the scope. `MaxReceived`
is three (two in `link_garbled`): in `session` and `client` more messages than the one frame of the
peer, in `link` more than the two that are ever sent in one direction. Calls, pushes and frames
are the only unbounded quantities; their bounds stand in the guards (`MaxCalls`, `MaxPeer`,
`ServerCalls`, `ClientCalls`, `LinkCalls`, `MaxEndpoints`, `MaxReceived`, `MaxPush`, `MaxSubmits`, `MaxHandlers`, `MaxObjects`, `MaxFills`, `MaxMoves`,
`MaxEntities`, `MaxDepth`, `Places`, `Angles`, `MaxKeys`, `MaxFaults`), and an application that stops
calling is a legal one, so they hide nothing but longer histories. That is also why the runs
(but for `ioc`) do not check for deadlock: a system whose application and peer are silent stops.

**Fairness.** Session: both programs poll the io_context in their main loop for as long as they run,
so closures and handlers are weakly fair; a started write finishes or fails, which a connected peer
that reads, or a dead one, provides. Nothing is assumed of the application or of the peer's sends.
Queue: a thread in Pop that can take the mutex gets it. Client: the same of its closures, handlers and writes, and a connect
attempt ends one way or the other (`FairSpec`). Game: every program polls its connections in its
main loop, so what arrived is handled, connections are accepted and ends noticed; nothing is assumed
of the players, of the network, or of a game server that hangs in a turn. Container: a call that was
begun goes on, and nobody waits for ever for a mutex that is given back (callers that compete for it
without end are not the game's). The link, executor, collision and tree runs check safety only: a
command or callback may run for ever.

## Proofs

All theorems are proved for any messages, commands, handlers, threads, clients, services, entities and
any bounds, from the modules' assumptions alone (the frames are distinct; `CLOSE` is no message; the bounds are naturals;
finitely many threads; a command has a natural number of parts; what was registered before is a
sequence of handlers; positions, angles and keys are integers; the objects of a tree alone have
boxes of some size and an entity each; a service needs itself and what its uses need).

`AsioSessionProofs` proves `[]TypeOK`, `[]SingleWrite`, `[]DisconnectReported`,
`NoMessageAfterDisconnect` and `NoWriteAfterDeactivation`. Types are not inductive alone. `OnWrite`
pops the queue and starts the next front, so the queue of an active session must not be empty while a
write is under way, and there must be one write for its handler to leave none (`QueueInv`). And
`MessageBuffer` reads the last frame taken, so a reader whose framing is intact must have taken one,
and no `Torn` one (`ReadInv`). `TypeInv` is the conjunction; `TypeInvStep` shows every action
preserves it. `SingleWrite` is one of its conjuncts. For the disconnect, `ReportInv` adds that an
active session still reads and was not reported, and that after two reports nothing is read any more.
The two action properties follow from these invariants, case by case.

It also proves `[]WireInOrder`. That property only compares frames and counts; the invariant
(`WireInv`) says which messages are where: the queue of an active session is the end of `accepted`,
and a pending write carries the first accepted message that is not on the wire yet.

`AsioNetworkClientProofs` proves `[]TypeOK`, `[]SingleWrite` and `[]StallsOnlyAfterFailure`, for any
number of connections, endpoints and calls. The client has no flag that a write is under way; what
takes its place is the front of the queue, which stays until its write was handled. `QueueInv` says
so: an active client with an empty queue has no write under way, and one whose queue waits for no
write has had one fail. The reader needs `ReadInv`, as the session's does.

`CommandQueueProofs` proves `[]TypeOK`, `[]NoLostWakeup`, `[]FirstInFirstOut` and `NothingAfterStop`.
`NoLostWakeup` counts: while a thread waits there are at least as many threads on their way to the
queue as commands in it. A push adds one of each; a pop takes one of each, or leaves because the
queue is empty, or because it was stopped. In the last case the count may break, so the
strengthening (`WakeInv`) is that nobody waits on a stopped queue.

`CommandExecutorProofs` proves `[]TypeOK`, `[]NeverWaits`, `[]RunsOwnCommand`,
`[]FailuresAreContained` and `[]EffectsArePrefix`. The first three rest on `StackInv` and `QueueInv`:
every activation but the innermost is in its callback, and unless the queue was stopped it holds
exactly the command of an innermost activation that has not popped yet, and is empty otherwise. So
every `Pop` finds one command, its caller's. The other two need that nobody repeats: `OwnHandlersInv`
keeps the log handler first (later registrations go behind it), nobody in `retry`, and the parts of
the innermost activation's command that took effect equal to the parts it is through, or none before
it popped.

It also proves `[]TwoTriesThenLog` and the refinement `UsesCommandQueue`. The first needs that what
`retry_count_` holds for a command object is the number of its failures so far modulo three, and that
`TwoTriesThenLogHandler` is still the handler asked (`TwoTriesInv`). The second maps every step of the
executor to one of `CommandQueue` over a single thread (`EnqueueCommand` to a push, the entry into
`WorkerLoop` to a call of `Pop`, and so on) or to a stutter; it rests on `StackInv`, by which the thread
never waits.

`IoCContainerProofs` proves `[]TypeOK` and `[]OwnScopeResolves`. The property speaks of calls that have
ended; the invariant (`CallsAreServed`) of those under way: in an undisturbed thread the current scope
has all that each of its calls needs, and a resolver that runs is the one of the service its call
wants. So a lookup finds what is wanted and a cast succeeds, and a call nests only into what it uses,
whose needs are among its own. A registration by the thread itself cannot come between, as its
resolvers only resolve; one by another thread is in that thread's scopes.

`GameProtocolProofs` proves `[]TypeOK`, `[]ServerFollowsClient` and `WrecksStayWrecked`. The
server's ship is compared with the client's trail at a place that the server reaches later, so the
invariant `Follows` says where every message is: what is on the wire carries the trail, key by key,
from the last one handled (`SentInOrder`), up to the trail's end while the connection is up
(`AllSent`), and a session is authenticated exactly when a message was handled (`Entered`).
`WrecksStayWrecked` is a step property over the types: a command leaves an object the properties it had
(`ExecuteKeepsProperties`' argument, for the parts that keys send), and turns and disconnects only take ships away.

`DynamicBVHProofs` proves `[]TypeOK`, `[]TreeCoversObjects`, `[]CollisionsReported` and
`[]UpdatingBothIsExact`, for any number of objects anywhere and any history of builds, moves and
updates. The invariant is `BVHInv`: the types; what the root may still hold of earlier builds
(`RootInv`); after a build over two objects or more, leaves with the boxes of their objects and boxes that
enclose those below (`BuiltInv`, from `Covers`); and, until the next filling, a leaf for every object,
right for those that were updated (`LeavesInv`). The work is in two arguments about all sizes of tree.
`NewTreeShape` shows what a build makes: the spans split until they have one object, so every object
is in exactly one leaf, and boxes merge upwards. For the search, two objects whose boxes meet have
ancestors whose boxes meet, level by level, so a pair of leaves on one level is reached from the pair
of the root with itself; and while only leaves have no children every pair pushes pairs further down,
so the search ends.
`Spans`, `Boxes` and `Level` are recursive functions. That such functions exist, and have the values
their recursion gives them, is itself induction: `Recursion` proves it once, from the
well-foundedness of `<` as a statement about sets of naturals (`SetInduction`).

The last part of `DynamicBVHProofs` is for those who own a tree. `IsShape` says what holds of the nodes
after any builds over any objects, boxes and stale nodes aside; a build keeps it (`BuildKeepsShape`),
and `ShapeBoundsSearch` says what a search of such a tree can meet.

`CollisionSystemProofs` first proves what `Execute` does, for commands of any length:
`ExecuteKeepsProperties` and `FuelledMove` (the assumption `FuelledMoveIsAtomic` of `MCCollisionSystem` is
TLC's instance of it). Of the system it proves `[]TypeOK`, `[]NewEntitiesAreBare`, the refinement
`KeepsRegistry`, `[]FirstSlotLosesShip`, `[]TwoShipsNeverHang` and `[]NeverReadsBehind`, from one
invariant, `IInv`. Every action is shown to have one of a few effects on the world: an entity is
created, one is destroyed, properties change that were there, or the world is saved, loaded or
cleared (`StepEffect`; that a command cannot bring a property back is `ExecuteKeepsProperties`).
`NewEntitiesAreBare` and `KeepsRegistry` are about those effects alone (`WorldKeeps`).
`FirstSlotLosesShip` adds `TurnsInv`: the ships are always among those of every turn under way, the
first slot holds one of the searching turn's ships, and what a turn is to destroy from the first slot
is a ship it began with, so that the turn inside begins without it.

The last two are about the tree, so `CollisionSystemProofs` INSTANCEs `DynamicBVHProofs` (as `Trees`) and
adds `TreeInv`: the tree has the shape of `Trees!IsShape`, and where a turn may find the vector empty a
search of the tree meets nothing. A search over objects either finds a root that was made a leaf,
and then every pair it reports has the root, whose index is the first slot; or the build left only indices
in the vector. A search over an empty vector reports nothing, because the turn that left the tree
only ended when nothing was met. And a pair that pushes itself has a node whose children are more than
three, so a tree of three nodes, which is what two ships give, cannot make the search hang.

Model-checked only:

* the liveness properties (`QueueDrains`, `StopReleases`, `ResolutionsEnd` and the like): temporal reasoning
  under fairness, and the ENABLED in it, are out of the prover's reach;
* the refinements `ToClientChannel` and `ToServerChannel` of `AsioLink`: a proof has to carry the
  invariants of each end through the steps of the other, and to add what each reader took of the
  other's wire, which is not done.

## Findings

* `AsioSession::doWrite` and `AsioNetworkClient::doWrite` pass `async_write` a buffer that dies before
  the operation ends. `tests_Network.cpp:99` expects the client to be handed what the server sent;
  run `link_garbled` shows a session whose write the kernel does not take at once, and a client that
  is handed something else. (On a loopback connection with short messages the kernel takes them at
  once, which is why the test passes.)
* `DynamicBVH::findCollisions` drops every pair of a leaf and an inner node (`bvh_missed`): with three
  objects, or any number that is no power of two, collisions are missed. The test with several objects
  (`tests_BVH.cpp:183`) has four.
* `DynamicBVH::build` never resets the root's `isLeaf`: after a build over one object and one over three,
  `findCollisions` may push the root and an inner node for ever (`bvh_endless`), and its stack grows.
  `tests_BVH.cpp:246` rebuilds and searches one tree, with two objects each time; the collision system
  has one tree for all its turns, so a command of a lone ship and later one among three are enough.

Read off the models, without a run of their own:

* A command that fails is logged and never executed again, although `CommandExecutor.cpp:35` calls the
  recovery a repetition and `tests_exceptionHandler.cpp:12` is named `RetryOnceThenLog`:
  `LogRecoveryHandler` is registered first and the first handler answers. This is what
  `FailuresAreContained` and `EffectsArePrefix` rest on; their mutant, with the retry handler first,
  breaks both.
* The game server's ship lacks the client's first key for ever (`ServerFollowsClient` says "but for the
  first"), because no client sends a token to the game server.
* A refused login is answered with one byte, 1; the client refuses only a first byte of 0, so it plays
  on. `AnswersEndTheWait` holds for unknown clients because of it; with 0 they would wait for ever.
* All ships share the first slot of the tree's vector; the other slots are whatever memory they got,
  and collisions are found between a ship and junk. `FirstSlotLosesShip` is restricted to the first
  slot for that reason.
* A tree rebuilt over no object keeps all its nodes. `NeverReadsBehind` shows that the collision
  system is never hurt by it: a turn only ends over a tree without collisions.
* `GameServer` replaces the handler that erases a session from `clients_`, so its list only grows.
* A frame whose length is lost (`Torn`) can make `on_message` be called more often than the other end
  sent, with any bytes; nothing in the protocol lets a reader find a frame's beginning again.
* A failing `Resolve` says the same of everything that goes wrong in or below a resolver: "Failed to cast
  resolved service to requested type" (`InversionOfControl.h:86`).
* The scenery made for each connection is never destroyed; `CreatePlayer`'s fuel is no property of a
  `Player`.

## What could follow

1. The refinement of `AsioLink` to `MessageChannel` as a theorem: the invariants of `AsioSessionProofs` and
   `AsioNetworkClientProofs`, a lemma for each that the other end's steps keep them, and which message
   a reader with `taken` frames has delivered.
2. The lifetime of sessions: the socket left open after a read error, the `shared_ptr` cycle between a
   session and its handlers.
