------------------------------- MODULE Callbacks -------------------------------
(***************************************************************************)
(* What an event carries: the callbacks of all servers and clients, from   *)
(* the look-up of their ref to addMessage, against setParams, create and   *)
(* clear in 4D processes.                                                  *)
(*                                                                         *)
(* Server numbers are negative, client numbers positive, and a server's    *)
(* connections are numbered 1, 2, ... as clients are.  A callback reads    *)
(* window and process when it begins; method and worker are read when the  *)
(* message is made, from the server ref of that number or, failing that,   *)
(* from a client ref.  The look-ups take no lock: while a 4D process inserts *)
(* into a table or erases from it, a search of that table may miss its ref. *)
(*                                                                         *)
(* Values of parameters are abstracted to the number of the setParams call *)
(* that wrote them: method stands for method and worker, window for window *)
(* and process.  Mutexes are in RefTable and MessageQueue.                 *)
(***************************************************************************)
EXTENDS Integers, Sequences

CONSTANTS
  MaxServers, MaxClients,  \* bound: refs at a time
  MaxConns,                \* bound: clients of a server at a time
  MaxStamps,               \* bound: calls of setParams
  MaxEvents                \* bound: events

ASSUME BoundsAssumption ==
  /\ MaxServers \in Nat /\ MaxClients \in Nat /\ MaxConns \in Nat \ {0}
  /\ MaxStamps \in Nat /\ MaxEvents \in Nat

ServerIds == {-i : i \in 1 .. MaxServers}
ClientIds == 1 .. MaxClients
Ids == ServerIds \cup ClientIds
Stamps == 0 .. MaxStamps

\* The types of the callbacks; close, error, fragment, ping and pong go the way
\* of message.
Kinds == {"open", "message"}

VARIABLES
  object,        \* the tables: number -> birth stamp of its ref, 0 when none
  param,         \* parameters of each ref
  stamp,         \* setParams calls so far
  writer,        \* the command that runs: step, ref, what its 4D object defines
  cb,            \* the network thread of each ref
  list,          \* message_list
  events,        \* events so far (bounds the model)
  origin,        \* history: the ref object of each stamp
  dropped        \* history: kinds of events that found no ref, whose, and whether a
                 \* process was writing the table

refVars == <<object, param, stamp, writer, origin>>
vars == <<refVars, cb, list, events, dropped>>

Keys == {"method", "window"}
Unset == [k \in Keys |-> 0]
Idle == [step |-> "idle", kind |-> "message", conn |-> 0, window |-> 0, object |-> 0,
         since |-> Unset]
NoCommand == [step |-> "idle", ref |-> 0, keys |-> {}]

Init ==
  /\ object = [i \in Ids |-> 0]
  /\ param = [i \in Ids |-> Unset]
  /\ stamp = 0
  /\ writer = NoCommand
  /\ cb = [i \in Ids |-> Idle]
  /\ list = <<>>
  /\ events = 0
  /\ origin = [s \in Stamps |-> 0]
  /\ dropped = {}

(***************************************************************************)
(* Commands of a 4D process.                                               *)
(***************************************************************************)

\* 1, 2, ... for clients, -1, -2, ... for servers.
Before(i) == IF i > 0 THEN 1 .. i - 1 ELSE {-j : j \in 1 .. (-i) - 1}

\* setParams comes before the ref is inserted into the table; a key that the 4D
\* object does not define leaves the member as it was made.
Create(i, keys) ==
  /\ writer = NoCommand
  /\ object[i] = 0 /\ \A j \in Before(i) : object[j] # 0
  /\ stamp < MaxStamps
  /\ stamp' = stamp + 1
  /\ origin' = [origin EXCEPT ![stamp + 1] = stamp + 1]
  /\ param' = [param EXCEPT ![i] = [k \in Keys |-> IF k \in keys THEN stamp + 1 ELSE 0]]
  /\ writer' = [step |-> "insert", ref |-> i, keys |-> {}]
  /\ UNCHANGED <<object, cb, list, events, dropped>>

Inserted ==
  /\ writer.step = "insert"
  /\ object' = [object EXCEPT ![writer.ref] = stamp]
  /\ writer' = NoCommand
  /\ UNCHANGED <<param, stamp, origin, cb, list, events, dropped>>

\* start, stop and send call setParams with their 4D object, which writes the
\* members of the keys it defines, with no lock;
SetParams(i, keys) ==
  /\ writer = NoCommand
  /\ object[i] # 0
  /\ stamp < MaxStamps
  /\ stamp' = stamp + 1
  /\ origin' = [origin EXCEPT ![stamp + 1] = object[i]]
  /\ writer' = [step |-> "set", ref |-> i, keys |-> keys]
  /\ UNCHANGED <<object, param, cb, list, events, dropped>>

\* and returns.
ParamsSet ==
  /\ writer.step = "set"
  /\ param' = [param EXCEPT ![writer.ref] =
                  [k \in Keys |-> IF k \in writer.keys THEN stamp ELSE @[k]]]
  /\ writer' = NoCommand
  /\ UNCHANGED <<object, stamp, origin, cb, list, events, dropped>>

\* Faulty: what the members held before the first setParams.
ReadUnset(i, key) == {0}

\* Reading a member while setParams runs is a race, whose outcome is the old or
\* the new value.
Read(i, key) ==
  IF writer.step = "set" /\ writer.ref = i /\ key \in writer.keys
  THEN {param[i][key], stamp} ELSE {param[i][key]}

\* clear: the destructor stops the object.
Clear(i) ==
  /\ writer = NoCommand
  /\ object[i] # 0
  /\ writer' = [step |-> "clear", ref |-> i, keys |-> {}]
  /\ UNCHANGED <<object, param, stamp, origin, cb, list, events, dropped>>

\* Faulty: the entry is erased while a callback may still run.
EraseAtOnce ==
  /\ writer.step = "clear"
  /\ object' = [object EXCEPT ![writer.ref] = 0]
  /\ writer' = NoCommand
  /\ UNCHANGED <<param, stamp, origin, cb, list, events, dropped>>

\* stop() returned, as the network thread ended; then the entry is erased.
Erase ==
  /\ writer.step = "clear"
  /\ cb[writer.ref] = Idle
  /\ writer' = [writer EXCEPT !.step = "erase"]
  /\ UNCHANGED <<object, param, stamp, origin, cb, list, events, dropped>>

Erased ==
  /\ writer.step = "erase"
  /\ object' = [object EXCEPT ![writer.ref] = 0]
  /\ writer' = NoCommand
  /\ UNCHANGED <<param, stamp, origin, cb, list, events, dropped>>

(***************************************************************************)
(* Callbacks.                                                              *)
(***************************************************************************)

\* The network reports an event of ref i, on a server for one of its clients;
\* the first open event of a client comes from connect, inside the start command.
Event(i, kind, conn) ==
  /\ object[i] # 0
  /\ ~(writer.step = "erase" /\ writer.ref = i)
  /\ cb[i] = Idle
  /\ events < MaxEvents
  /\ events' = events + 1
  /\ conn = 0 <=> i \in ClientIds
  /\ cb' = [cb EXCEPT ![i] = [step |-> "lookup", kind |-> kind, conn |-> conn, window |-> 0,
                              object |-> object[i], since |-> param[i]]]
  /\ UNCHANGED <<refVars, list, dropped>>

\* Faulty: every open callback looks in the other table.
OtherTable(i, kind) ==
  IF kind = "open" THEN (IF i \in ServerIds THEN ClientIds ELSE ServerIds)
  ELSE IF i \in ServerIds THEN ServerIds ELSE ClientIds

\* The table a callback searches: websocketclient_open looks among the servers.
TableOf(i, kind) == IF i \in ServerIds \/ kind = "open" THEN ServerIds ELSE ClientIds

\* A 4D process is writing the table of ref i.
Written(i) == /\ writer.step \in {"insert", "erase"}
              /\ writer.ref \in ServerIds <=> i \in ServerIds

\* Whether find sees number i: it may miss an entry of a table that is being written.
Found(i) == IF i \in Ids /\ object[i] # 0 THEN {TRUE, ~Written(i)} ELSE {FALSE}

LookUp(i) ==
  /\ cb[i].step = "lookup"
  /\ \E found \in IF i \in TableOf(i, cb[i].kind) THEN Found(i) ELSE {FALSE} :
       IF found
       THEN /\ \E w \in Read(i, "window") :
                 cb' = [cb EXCEPT ![i].step = "add", ![i].window = w]
            /\ UNCHANGED dropped
       ELSE /\ cb' = [cb EXCEPT ![i] = Idle]
            /\ dropped' = dropped \cup
                  {[client |-> i \in ClientIds, kind |-> cb[i].kind, raced |-> Written(i)]}
  /\ UNCHANGED <<refVars, list, events>>

\* Method and worker of the ref if it is found, else something else.
MethodOf(i, other) == UNION {IF found THEN Read(i, "method") ELSE other : found \in Found(i)}

\* Faulty: a client ref is preferred.
ClientPreferred(server, client) == MethodOf(client, MethodOf(server, {0}))

\* The constructor of websocket_message: method and worker of the server ref,
\* or else of a client ref, or else none.
Captured(server, client) == MethodOf(server, MethodOf(client, {0}))

\* addMessage(i, j, ...) for a server, addMessage(0, i, ...) for a client.
ServerArg(i) == IF i \in ServerIds THEN i ELSE 0
ClientArg(i) == IF i \in ServerIds THEN cb[i].conn ELSE i

Add(i) ==
  /\ cb[i].step = "add"
  /\ \E m \in Captured(ServerArg(i), ClientArg(i)) :
       list' = Append(list, [server |-> ServerArg(i), client |-> ClientArg(i), kind |-> cb[i].kind,
                             method |-> m, window |-> cb[i].window,
                             ref |-> i, object |-> cb[i].object, since |-> cb[i].since,
                             raced |-> Written(i)])
  /\ cb' = [cb EXCEPT ![i] = Idle]
  /\ UNCHANGED <<refVars, events, dropped>>

\* The loop calls the method with server, client, type, ..., window, process.
Handle ==
  /\ list # <<>>
  /\ list' = Tail(list)
  /\ UNCHANGED <<refVars, cb, events, dropped>>

\* Faulty: client messages are told by the client number alone.
MatchesNumber(i, m) == IF i \in ClientIds THEN m.client = i ELSE m.server = i

\* The messages of ref i for the messages commands.
Matches(i, m) == IF i \in ClientIds THEN m.server = 0 /\ m.client = i ELSE m.server = i

Next ==
  \/ \E i \in Ids : \/ \E keys \in SUBSET Keys : Create(i, keys) \/ SetParams(i, keys)
                    \/ Clear(i)
                    \/ \E kind \in Kinds, conn \in 0 .. MaxConns : Event(i, kind, conn)
                    \/ LookUp(i) \/ Add(i)
  \/ ParamsSet \/ Inserted \/ Erase \/ Erased
  \/ Handle

Spec == Init /\ [][Next]_vars

--------------------------------------------------------------------------------
(***************************************************************************)
(* Properties.                                                             *)
(***************************************************************************)

Listed == {list[k] : k \in 1 .. Len(list)}

\* Type invariant of the refs, the command and the callbacks; a ref with a
\* callback has an entry.
TypeOK ==
  /\ object \in [Ids -> Stamps]
  /\ param \in [Ids -> [Keys -> Stamps]]
  /\ stamp \in Stamps
  /\ writer.step \in {"idle", "set", "insert", "clear", "erase"} /\ writer.ref \in Ids \cup {0}
  /\ \A i \in Ids : /\ cb[i].step \in {"idle", "lookup", "add"}
                    /\ cb[i].kind \in Kinds
                    /\ cb[i].conn \in 0 .. MaxConns
                    /\ cb[i].window \in Stamps
  /\ \A m \in Listed : m.server \in ServerIds \cup {0} /\ m.method \in Stamps
  /\ events \in 0 .. MaxEvents
  /\ \A i \in Ids : cb[i].step # "idle" => object[i] # 0

\* The method in a message is the method of the ref that the event is about:
\* clients of a server and client refs have the same numbers, and only the
\* order of stop, join and erase keeps a server's event from falling through to
\* a client ref, or to a newer ref with its number.  A server's event does fall
\* through when another server is made or cleared at that moment; an event of a
\* client ref has no method then, but never a stranger's.
MethodIsOwn == \A m \in Listed : m.method # 0 =>
                 \/ origin[m.method] = m.object /\ m.object # 0
                 \/ m.raced /\ m.ref \in ServerIds

\* Nothing in a message is older than the callback: each parameter was in force
\* at some time between its begin and addMessage, but for the method of a message
\* made while another ref of its table is made or cleared.
ParamsInForce == \A m \in Listed : /\ m.window >= m.since.window
                                   /\ m.raced \/ m.method >= m.since.method

\* No event is lost but the open event of a client, unless another ref of its
\* table is made or cleared while the callback looks for its own.
OnlyClientOpenDropped == \A d \in dropped : d.raced \/ (d.client /\ d.kind = "open")

\* Each message is returned by the messages command of one ref number, the one
\* it is about, although servers' clients and client refs share numbers.
PollsPartition == \A m \in Listed : {i \in Ids : Matches(i, m)} = {m.ref}

\* clear leaves the events of its ref in the list, and the number may be given
\* to a new ref at once.  Still the messages command of that number returns all
\* that is left of the old ref before anything of the new one: no callback
\* outlives its object.
StaleBeforeFresh ==
  /\ \A k \in 1 .. Len(list) : \A l \in k .. Len(list) :
       list[k].ref = list[l].ref => list[k].object <= list[l].object
  /\ \A i \in Ids : cb[i] # Idle => cb[i].object = object[i]

\* The types that a callback method may get are open, close, error, fragment,
\* ping, pong and message, for clients too.
NoEventDropped == dropped = {}
================================================================================
