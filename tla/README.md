# Verification of the 4D plugin ix-websocket

TLA+ models of the plugin (`src/ix-websocket`), checked by TLC on small instances, and
theorems about them proved with TLAPS. Short names of sources used below:

| short | file |
| --- | --- |
| `P`  | `src/ix-websocket/4DPlugin-ix-websocket.cpp` |
| `EQ` | `src/ix-websocket/include/websocket_event_queue.cpp` |
| `ML` | `src/ix-websocket/include/websocket_message_list.cpp` |
| `SR` | `src/ix-websocket/include/websocket_server_ref.cpp` |
| `CR` | `src/ix-websocket/include/websocket_client_ref.cpp` |
| `JS` | `src/ix-websocket/support/4DPlugin-JSON.cpp` |
| `AP` | `src/ix-websocket/4D Plugin API/4DPluginAPI.c` |

## Inventory

The plugin gives 4D code websocket servers and clients. 4D code names them by a number (positive
for a client, negative for a server); the IXWebSocket library runs them in threads of its own; what
happens to them is put into one list of messages; a process of the plugin takes messages from the
list and calls the 4D method that the server or client names.

```
 4D processes --commands--> ref tables --owns--> IXWebSocket objects --own--> network threads
      |                         ^                                               |
      | messages commands       | ref(i), unlocked                              | callbacks
      v                         +-----------------------------------------------+
 message_list <------------------ addMessage under message_list_mutex ----------+
      ^
      | try_lock, run methods, erase
 event-queue process (websocket_event_queue::loop) --PA_ExecuteMethodByID--> 4D methods
```

Everything the plugin asks of 4D goes through the functions of `AP`, which fill a block, call the
engine and keep the error in a variable of the thread.

| component | state | operations | correct when |
| --- | --- | --- | --- |
| message list (`ML`) | vector of messages, each with the method name captured when it was added; `message_list_mutex` (`P:15`) | `addMessage`, `size`, `begin`/`end`/`erase`, `clear` | one thread at a time is inside; nothing is lost, doubled or reordered |
| event queue (`EQ`) | `websocket_event_queue_exit`; one 4D process | `loop`, destructor | each message is handled once, in order; a dying process stops; the mutex is always given back |
| network callbacks (`P:22-421`) | none of their own | look the ref up, (un)register the client, read window and process, lock, `addMessage` | no event is lost; the ref used is the right one and alive |
| server refs (`SR`) | `websocket_server_list`, its mutex; per ref the IX server, method, worker, window, process; `_clients` and `_clients_reverse` | constructor, `ref`, `find`, `clear`, `clearAll`, `setInitParams`, `setParams`, `getParams`, `send`, `registerClient`, `unregisterClient`, `findClient`, `getClient(s)` | numbers are unique; entries and objects live and die together; a connection keeps its number |
| client refs (`CR`) | `websocket_client_list`, its mutex; per ref the IX client and parameters | as above, without clients | as above |
| commands (`P:512-1012`) | none | create, start, stop, send, clear, messages, clients | return; use live objects only; undo nothing |
| plugin start and exit (`P:425-440`) | `message_list`, `event_queue` | `OnStartup`, `OnExit` | nothing uses the list while it is deleted; exit ends |
| 4D object access (`JS`) | none | `ob_get_*`, `ob_set_*`, `ob_is_defined` | what is written is read back; a value of the wrong kind becomes 0 or empty |
| 4D plugin API glue (`AP`) | `sErrorCode` of each thread; the handle of an order by or query under construction | some 540 functions | the caller is told of each failure; handles are unlocked and disposed of on each way out; a query runs whole |
| 4D text and array classes, jsoncpp, IXWebSocket | external or unused | | |

Interactions that are hard: callbacks of many threads against the loop and the messages commands
(a mutex that some block on and others try); 4D methods that run while the list is locked and might
call the plugin again; `clear` and `clearAll` joining network threads while holding the ref mutex;
look-ups that take no lock at all; parameters that every command applies again from an object of
4D code; the exit of the host at any moment.

## Modules

| module | models | composed with |
| --- | --- | --- |
| `EventStream` | the promise: a FIFO of events, each handed over at most once | |
| `MessageQueue` | list, mutex, callbacks' locking, loop, messages commands, OnExit's part on the list | refines `EventStream` |
| `RefTable` | ref table, constructor, look-up, commands, clear, clearAll, network threads, message mutex held by the loop | |
| `ServerClients` | a server's `_clients` and `_clients_reverse`, connection threads, `send` to all and `clients` | |
| `Callbacks` | which table a callback searches, what a message captures, against `setParams`, create, clear | |
| `Params` | the parameters of a ref, and the 4D objects that carry them back and forth | |
| `PluginApi` | errors, handles and query lines of the plugin API | `ApiFunctions` |
| `ApiFunctions` | the functions of the plugin API by class | |
| `MCMessageQueue`, `MCRefTable`, `MCServerClients` | instances for TLC (the other modules are run as they are) | |
| `MessageQueueProofs`, `RefTableProofs`, `ServerClientsProofs`, `CallbacksProofs`, `ParamsProofs`, `PluginApiProofs` | TLAPS proofs about the module of that name | extend it |
| `MessageQueueRefinement` | the proof that the list implements the stream, and about the messages commands | extends `MessageQueueProofs` |

The modules meet in four places, each modelled in detail in one of them and as one step in the
others: the message mutex (`MessageQueue`; an owner in `RefTable`, one step in `ServerClients` and
`Callbacks`), the life of a ref (`RefTable`; in `Callbacks` only that the entry goes after the network
thread has ended, which `RefTable` shows), the number of a connection (`ServerClients`; any
number in `Callbacks`), and `setParams` (what it does to each parameter in `Params`, when others see
it in `Callbacks`).

Definitions named `...Swapped`, `...Unchecked`, `...Unlocked` and so on, marked "Faulty", stand
before the definition they distort. No specification uses them; they show that each property can
fail when the code has the corresponding error.

### MessageQueue

State: `mutex` is the owner of `message_list_mutex`, `messages` the vector, `exitFlag` the member
`websocket_event_queue_exit`, `dying` the answer of `PA_IsProcessDying`. Program counters hold the
place of each thread between two points where another thread can be seen: `cbPc` for a network
thread in a callback, `loopPc` for the event-queue process, `pollPc` for a 4D process in a messages
command, `mainPc` for OnExit. Histories `added`, `executed` and `late` are not in the code.

* A callback is `Receive`, `LockForAdd` (the `lock_guard` blocks), `AddMessage` (the constructor
  of the message captures the method; the guard unlocks).
* The loop is `LoopStart` (clears the exit flag, whatever it was), `LoopSize` (the size is read
  without the mutex: while a callback is in `push_back` the answer is either), `LoopTryLock`,
  then per message `LoopExecute` and `LoopReturn`, or `LoopSkip` when `PA_GetMethodID` finds no
  method, then `LoopErase`; `LoopUnlock`; `LoopUntil` tests flag and dying. The yields and the
  check of the worker's or window's name do not touch the list and are left out, and so are the
  parameters of the call.
* A messages command is `PollTryLock`, one `PollScan` per message, `PollUnlock`. A busy list gives an
  empty collection. Polls are not counted: 4D code may poll for ever.
* OnExit is `DeleteEventQueue`, `DeleteMessageList`, `ClearList` per message (no mutex), and
  `JoinThreads` (clearAll of both tables).

Environment: the main process runs OnExit when the event-queue process and the commands have
ended (`ProcessesEnded`). This is the host's contract, not a guard of `OnExit`: 4D deinitialises a
plugin after its processes, and `src/README.md:47` says of stopping the loop in `kDeinitPlugin` that
it is "too late". So the exit flag set by the destructor meets no loop that is still to start.
`EndpointsStoppedFirst` says whether the database has stopped
its servers and clients before it quits: the code relies on it and does not enforce it. A thread
of the network sends on behalf of one endpoint.

### RefTable

One model for both tables: constructor, `ref`, `find`, `clear` and `clearAll` are the same code but
for the sign of the number. State: `table` is the map, `idOf` the `_id`, `phase` the life of an
object, `refMutex` its mutex, `msgMutex` the owner of `message_list_mutex`. `pc`, `arg`, `obj` and
`again` are the step, the number and the raw pointers of each process's command, `thr` the step of each
object's network thread, `netRef` the pointer that a callback obtained, `stopReq` a call of `stop()`
that is not over. `handles` is what each process knows of its own refs; `quietDrop` is a history.

* `New`, `CtorLock`, `CtorInsert`, `Bind`: the constructor takes the lowest free number under the
  mutex; then `find(ref)->setOn...Callback` runs with no mutex and no test of the pointer.
* `LookUp` then `Send`; or `LookUp`, `LookUpAgain`, then `Start`, or `Stop` and `Join`: every command
  finds its pointer without a lock, and start and stop find it twice, once for the object they start
  or stop and once for the parameters; the second look-up may give another answer, or none.
* `Clear`, `ClearLock`, `ClearJoin`, `ClearFree`, `ClearErase`: under the mutex, stop and join, free,
  then erase. OnExit: `ClearAll` and its steps, for the refs left, in any order.
* `NetEvent`, `NetLookUp`, `NetUse`, `NetLock`, `NetCapture`, `NetAdd`: a callback looks the ref up,
  reads it, waits for the list, looks the ref up again inside `addMessage`, copies method and
  worker, and unlocks. After a `stop()` the last event is the close event.
* `LoopLock`, `LoopUnlock`: the loop holds the list while it runs 4D code. The commands
  called by that code return at once, as `PA_CreateObject` fails in a process that was made with
  `PA_NewProcess` (the comment in `P:667`); `ObjectCreated` says so.

An unlocked `find` while another thread is inside `insert` or `erase` is a data race; its outcome
is modelled as "found" or "not found" (`Found`). Freed memory is never given to a new object, which
tells a stale pointer from a valid one. A ref has one network thread at a time: the accept thread and
the connections of a server take turns here.

### ServerClients

State: `lib` is the library's own set of connections, `clients` and `reverse` the two maps, `pc`,
`num` and `type` the step, the local number and the event of each connection thread, `cmd`, `todo`,
`it`, `visited`, `numbers` the walk of a command. `log` is the history of what was given to
`addMessage`; `steady` and `seen` serve `CommandComplete`.

* A connection is accepted, put into the library's set, shakes hands, is registered (`ChooseNumber`,
  `InsertForward`, `InsertReverse`) and announced (`Queue`), reports messages (`Receive`,
  `FindClient`, `Queue`), is unregistered (`EraseReverse`, `EraseForward`) and then reported
  closed (`Queue`), and leaves the library's set.
* `Snapshot`, `Visit`, `Dereference`, `Finish` are `getClients` and the "to all" branch of `send`. The
  commands differ in whether they send to a visited client, and in what they do with the 0 that
  `findClient` gives for an unknown one: `send` reports it (`SR:163`), `clients` leaves it out (`Collect`).
  `findClient` takes the iterator, calls the library and only then reads `it->second`; an entry erased
  in between gives any number (`torn`). A send to listed numbers reads `clients` and changes nothing.

The code takes no lock around the maps, and neither does the model: each call of a map is one step, and
the steps of all threads come in any order. So two clients that connect together may choose one number;
the second `insert` of `_clients` then changes nothing, one of the two clients is missing from it, and
the first of them to close erases what is left. `collided` keeps the numbers to which this happened. The
properties say how far the damage goes: the maps still agree on all other numbers (`MapsAgree`),
nothing stays behind (`NoStaleEntry`), every client still is one session (`SessionWellFormed`). One
thing remains that 4D code must know of numbers that were not chosen twice: the number is free before
its close event is in the list, so the open event of the next client with that number can come first.
`OnlyCloseOvertaken` says that nothing else is mixed up. What two overlapping calls do to the trees inside
`std::map` is undefined behaviour and outside the model.

### Callbacks

State: `object` is both tables (negative numbers for servers), `param` the members that events
carry, `writer` the command that runs, `cb` each ref's network thread, `list` the messages with what
they captured. The value of a parameter is the number of the `setParams` call that wrote it, and
`origin` tells which ref object that call was for: so a message shows whose parameters it has and
how old they are. A read during `setParams` gives the old or the new value (`Read`); a torn string is
not modelled. The constructor inserts the ref after it has its parameters (`Create`, `Inserted`), and
`clear` erases it after `stop` returned (`Clear`, `Erase`, `Erased`); between the two steps the table is being
written, and a search of it may miss a ref that is there (`Written`, `Found`, as in `RefTable`). A missed ref
drops the event at the head of the callback, and gives it a stranger's method, or none, inside `addMessage`;
`raced` marks both, and the properties say that nothing else goes wrong.
`Captured` is the constructor of `websocket_message`, which tries the server table first and falls back to the
client table with the number of a connection. `TableOf` has the odd case: the open callback of
a client searches the servers. Messages outlive their ref; `StaleBeforeFresh` says that what a cleared
ref left comes before all messages of the next one with its number, so 4D code that empties the list
between the two, or knows the first open event, can tell them apart.

### Params

State: `member` is what a ref remembers, `address` and `served` the address of a server as it
remembers it and as the library's server was made with it, `client` what the library keeps of a
client, `newest` the object that 4D code got last (edited or not), `copy` one it made before. A value
is the number of the edit that wrote it, so greater means newer; 0 is the number 0 or the empty
text, -1 what the library takes when nothing is given.

* `IsDefined`, `GetN`, `GetS`, `GetA`, `GetB`, `GetO`, `SetN`, ...: the conversions of `JS` by what they do to
  a value of each kind. A number of the wrong kind is read as 0, a text as empty, and
  `ob_get_a` leaves the old text.
* `InitParams`, `SetMembers`, `SetClient`, `ReportServer`, `ReportClient`: `setInitParams`, `setParams`
  and `getParams` of both classes. `perMessageDeflate` holds an object; its keys are keys of
  their own in the model.
* `CreateServer`, `CreateClient`, `Start`, `Send`, `Stop`: each command applies the object it is
  given; the creating commands and `stop` report. `Edit` and `Copy` are 4D code.

`careful` tells whether 4D code keeps to its newest object. `NothingUndone` is about that code: for
4D code that passes older copies the parameters go back, as the code means it.

### The 4D plugin API (PluginApi, ApiFunctions)

The functions of `AP` are alike: fill an `EngineBlock`, call the engine, store its error in `sErrorCode`
(a variable of each thread), return a value. Where they differ is in the handles they make on the way, in the
other functions they call, and in the order in which all of this sets `sErrorCode`. So a function is a
program, a sequence of such steps (`Programs`), functions with the same program form a class, and
`ApiFunctions` names the class of every function, section by section of the file. State: `slot` is
`sErrorCode`, `call` the call that a thread is in (steps left, `fError`, handles and locks it holds,
which of its parts failed), `order` the handle of an order by or query that is built line by line.

Steps fail or succeed freely; a function that does not set `fError` before the call may find anything there
("junk"). `Forgetful` lists the classes whose failure the caller may not learn, or learn wrongly: this is what the code does,
and `CallerIsTold` says that it is all.
The classification itself is read from the source, function by function, and no run checks it: each class
is one program for all its functions, so a function named in the wrong class would go unnoticed.

## Runs

| run | specification | shows | states |
| --- | --- | --- | --- |
| `queue` | `MCMessageQueue.cfg` | the list is used by one thread at a time; order, no loss, no second execution; polls see nothing that is being handled; at most one late call; refinement of `EventStream`; messages are handled unless the loop is starved, callbacks return, quitting ends | 59,000 |
| `queue_exit_race` | `MCMessageQueueExit.cfg` | violation: OnExit empties the list while a callback adds to it | |
| `refs_safety` | `MCRefTable.cfg` | table, numbers, objects, handles, threads stay consistent; no event is lost quietly | 635,000 |
| `refs_liveness` | `MCRefTableLive.cfg` | joins under the mutex do not deadlock with list and loop | 53,000 |
| `refs_shared` | `MCRefTableShared.cfg` | violation: `clear` frees what another process is using | |
| `clients_sessions` | `MCServerClients.cfg` | the maps are inverse but for numbers chosen twice; no stale entry; each client is one session with one number; only close events are overtaken | 1,050,000 |
| `clients_liveness` | `MCServerClientsLive.cfg` | the commands reach who stays; a stopped server is empty in the end; opens and closes are announced | 184,000 |
| `callbacks_safety` | `MCCallbacks.cfg` | but for searches that meet a change of their table: messages carry parameters of their own ref, none older than the callback, and only the open event of clients is lost; each message belongs to one ref number; what a cleared ref left comes first | 3,293,000 |
| `callbacks_open` | `MCCallbacksOpen.cfg` | violation: the open event of a client is lost | |
| `params` | `MCParams.cfg` | what stop reports can be applied again; careful 4D code never sets a parameter back | 429,000 |
| `params_bits` | `MCParamsBits.cfg` | violation: window bits given for one side are used for the other | |
| `api` | `MCPluginApi.cfg` | outside `Forgetful` the caller is told of each failure and of no other; handles are given back on each way out; a query runs whole or an error was told | 257,000 |

Bounds. Three messages from two endpoints make a list in which one message is being handled,
another is matched by a poll and a third arrives; order needs two. Polls are unbounded, by one process:
what matters to the others is whether the list is free, and two processes that take turns are to them
like one that polls twice. Two methods, one installed, give both ways through the loop. Two
processes and three refs let a number be reused while the other process works; three objects
never reused make any stale pointer visible. Three connections
let a number pass from one client to the next while a third one is there; two messages let each of
two clients talk before and after. A server, a client and one connection number are the
smallest case in which the numbers of connections and client refs collide, a second server lets a search for
the first one meet a change of its table (for two clients the same is left to the proof), and three calls of `setParams`
let a ref be made, changed or cleared, and made again. Three edits of the 4D object, over one key of
each kind of conversion and default (`EditedKeys`), let a parameter be given, changed and given a wrong
value, with a copy from any point between. In `PluginApi` a call leaves nothing but `sErrorCode` and the
query behind, so one thread that calls every function after every other, against one that
stores errors all the time, meets all cases; a limit of two lines and three lines asked for reach
the limit of 32000 and go past it. The liveness runs of `RefTable` and `ServerClients` use one object
or connection less, without symmetry.

Fairness. Each started thread goes on (weak fairness per thread: the operating system runs every
thread, 4D every process; a callback method is assumed to return). Nothing makes the network send,
4D code call a command or the host quit. In `MessageQueue` a thread blocked in `lock()`
(`LockForAdd`) is not passed over for ever while the mutex is free again and again, which is strong
fairness; so is the end of the processes for the host that waits for it. The loop and the polls only
try the mutex, and for them nothing is assumed: `EveryMessageHandled` has the disjunct `Starved`, where from some
time on every `try_lock` of the loop finds the mutex taken. Without the disjunct TLC finds exactly that, a poll in
the list at every try; so the starvation of `EQ:35` is possible, and it is the only thing that keeps
a message waiting. In `RefTable` the loop
takes the list again and again, and strong fairness of `NetLock` says that a thread blocked in
`lock()` is not passed over for ever; the ref mutex is taken finitely often, as calls of `clear` with a
number that no ref ever had (`Strays`) are left to the safety run. A stopped network thread reports its
close event. `Params`, `Callbacks` and `PluginApi` promise nothing that must eventually happen.

## Proofs

All theorems hold for any sets of threads, processes, refs, connections and methods and any
bounds, under the named assumptions of the modules. `PROJECT.json` lists them with their properties.

**`MessageQueueProofs`**: types, races, list, order, skipping and late calls. `RacesOnlyAtExit` says
of `NoListRace`, which `queue_exit_race` shows false, what is true of the code: the only two threads
that ever use the list together are OnExit emptying it and one callback of an endpoint that the database left
running. The argument has two
layers. `ControlInv` says who owns the mutex at which program counter
(`MutexInv`: a thread in the critical part owns the mutex) and that
OnExit's steps come when everybody else has ended (`ExitInv`). Race freedom follows: two users of
the list would both own the mutex. `DataInv` ties list, histories and loop together: what
the loop executed is exactly what it erased or is erasing (`HandledInv`, `EraseInv`), with the dying
break as the one exception, where the exit flag is already set and the handled message stays at
the head (`LateInv`). Neither layer is inductive without the other: the erasures of the loop and of
OnExit are safe only because of the mutex and of the order of the exit.

**`MessageQueueRefinement`**: `StreamImplemented` (`Spec => ImplementsStream`) and `PolledCorrect`. The
mapping hides a message from the stream once its method was called (`HeadTaken`), so a call is the
stream's `Execute`, the erase of a handled message is no step, the erase of one with no method
is `PassOver`, `addMessage` is `Arrive`, and OnExit is `Close` and `Discard`; `TakenAtErase`
shows that the two erasures are told apart. For the polls: what a command copied is in the list as
long as it holds the mutex (`CopiedInv`), and outside the loop's own turn all calls were for messages already
erased, unless the process is dying (`RunningInv`).

**`RefTableProofs`**, in two parts. Whoever uses the refs: types and `TableSound`. `EntryInv` says that the owner of
the mutex alone writes the table, and what each command may rely on though others clear its ref meanwhile; that an
entry is freed only between two steps of the owner (`TableInv`) keeps the numbers right. From it also
`NoWaitCircle`, the safety half of the liveness runs: waits never form a circle (`WaitsEnd`), as the
loop and `addMessage`, which own the list, wait for nobody (`OwnerInv`). Assuming
`HandlesPrivate` (each ref is used by the process that made it; without it TLC finds each of these false, `CommandRefAlive`
in `refs_shared`): the part of `TableSound` about handles, `CallbackRefAlive`, `NoQuietDrop`, `CommandRefAlive`, and `StopsHeard` (who
joins a network thread has told it to end, and nobody takes that back). As look-ups take no lock,
the mutex alone does not carry these. `HoldInv` says
that a number is held by one process at most, from the constructor's return to the erase, and
`Known` what a command knows at each step: the entry of a held number is alive and stays. `NetInv` says
that an object's thread ends before the object is freed and the entry is erased after that, so a
callback finds its own ref unless the map is being written at that moment.

**`ServerClientsProofs`**: all six safety properties, with no assumption about how threads meet in the maps.
`reverse[c]`, `num[c]` and `type[c]` are written by the thread of `c` alone (`Own`), and the events of `c` depend
on nothing else (`LogInv`); an entry of `_clients` belongs to a client that has its number or is
inserting or erasing it (`EntryInv`). A number that was not chosen twice leads to the client that has it, or is inserting or
erasing it (`HeldInv`): a number enters `collided` at the second `insert`, before the client that lost
it has an entry in `_clients_reverse`. What a walking command still owes is in `WalkInv`, and where its numbers may
come from in `SeenInv`; for the overtaking, the latest open event of a number is of the client that has
it now (`LatestInv`).

**`CallbacksProofs`**: all six properties of `callbacks_safety`. While a callback runs its ref stays the same object,
and the parameters it began with are no newer than those in force (`Running`); a parameter belongs to the object it
was given to (`ParamInv`); a message keeps what it captured (`Sound`). So the client table is searched for a
server's event only when the server table is being written (`raced`): the server is there as long
as its callback runs.

**`ParamsProofs`**: types, `RoundTrip`, `NothingUndone`. `RoundTrip` is algebra: each key that a report
writes is read back by its own conversion, and what it says of reconnection and compression is under
keys that nothing reads; of the steps it needs only that a server's address never changes (`SameAddress`). `NothingUndone`
rests on `NewestHoldsNewer`: a value of the right kind in the newest object of careful 4D code is no older than
the one in force.

**`PluginApiProofs`**: all four properties of `api`, for any number of threads and any limit of lines. A call in
progress is the rest of a program. The rules that a program follows (a handle is locked only after it was
made, an error in hand is stored or replaced by the block's own, a dispose comes last, ...) are stated on positions, are checked
once per program (`ProgramsStart`) and are inherited by what is left when a step was taken (`ProgramsKeepRules`). `IInv` says of
each thread that what is left follows the rules, that handles are locked exactly where the program left so far
locks them (`LockInv`), that a handle that was made has its release still ahead (`HandleInv`), that a failure is either in
`sErrorCode` or in a block whose store is still ahead (`ErrorInv`), and that the lines of a query and those
asked for differ by the line about to be added at most (`LineInv`).

TLC only: liveness (temporal logic under fairness is outside what the prover handles). The properties of
the four runs that expect a violation are false, so there is nothing to prove of them.

## Findings

* `queue_exit_race`: `P:435` deletes the list without the mutex that `P:15` declares for it, before
  the endpoints are stopped (`P:437-438`).
* `refs_shared`: `manifest.json` declares every command thread safe; when two processes use one ref,
  `clear` frees what the other is using.
* `callbacks_open`: `P:397` looks a client up in the table of servers; its open event never arrives.
* `params_bits`: `CR:151` passes `serverMaxWindowBits` where the library's constructor expects
  `clientMaxWindowBits`, and the other way round.

Met on the way, without a run of their own:

* Look-ups (`SR:287`, `CR:210`) search a map that the
  constructor and `clear` change under a mutex that look-ups do not take (`Found` in `RefTable`
  models the outcome); `setParams` writes strings that callbacks copy; `registerClient` is not atomic;
  `findClient` (`SR:253`) reads an entry that a close callback may have erased. All but the torn string are in the
  models (`collided`, `torn`, `raced`), and the properties bound what they spoil.
* The loop tries the mutex once per round (`EQ:35`); a 4D process that polls all the time can starve it (`Starved`).
* The example method `callback.4dm:14` takes server 0 for an event of a server, while the
  code passes 0 for clients.
* Parameters: window bits that are left out of `perMessageDeflate` become 0, not the library's default;
  `disablePerMessageDeflate` with FALSE gives options that are not enabled either; a url of the wrong kind
  becomes empty, a timeout of the wrong kind 0 (`P:590-595`), and `clients` that is no collection sends to all (`SR:114`).
* Plugin API: `4DPluginAPI.h:77` says that `PA_GetLastError` returns the last error of any call, which the
  classes of `Forgetful` do not keep: some clear it (`PA_IsProcessDying`), one never stores it (modal
  dialogs), some call the engine with `fError` not set, some end with a call of another function whose
  success is stored. `PA_OrderBy` reads the block after disposing of its handle (`AP:1978-1980`). Closing a query
  or an order by loses the handle when it cannot be locked. `PA_Tokenize` tests an error that is not that of
  its own call (`AP:5607`). `PA_ConvertPicture` and the picture editor keep the copy of the picture.
  `PA_ResizeArray` counts the new elements even when the handle did not grow (`AP:4603`).
  `PA_GetObjectProperty` gives a variable that the `ob_get_*` functions never clear.

## Not modelled

* Texts: the context JSON, the Unicode conversions, the names of workers and windows. Results of
  sends. The payloads. `ob_stringify`, which changes nothing.
* The plugin API: what the engine does with a call, and the values in the blocks. The
  process-wide modes of table numbering (`AP:1179`, `AP:1274`) are read by functions whose results are values.
* `jsoncpp` is vendored and makes the context text only. IXWebSocket is there as headers and a
  library; it is modelled from its use. The text and array classes of the plugin
  template are not used by this plugin. The test database and the project files are no part of the
  running plugin.

## Plan

1. Done: all modules above, with the proofs of all their safety properties.
2. Server life cycle: in `RefTable` several network threads of one ref at a time (accept thread and
   connections), each with its own place in the callback, so that `stop` joins several; its proofs follow
   the present ones with `thr` per thread.
3. `RefTable` and `ServerClients` composed, to drop "a connection's events take turns".
