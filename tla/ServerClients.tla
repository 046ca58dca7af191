----------------------------- MODULE ServerClients -----------------------------
(***************************************************************************)
(* The connections of one server: the maps _clients (number -> connection) *)
(* and _clients_reverse (connection -> number), written by the connection  *)
(* threads in the open and close callbacks and read by every callback and  *)
(* by the commands send and clients, with no lock.                         *)
(*                                                                         *)
(* Each call of a map is one step; the threads' calls come in any order.   *)
(* Two clients that connect at the same time may choose one number; what   *)
(* the properties say of the numbers, they say of those not chosen twice.  *)
(*                                                                         *)
(* Waiting for message_list_mutex and addMessage are one step here, as     *)
(* MessageQueue has them in detail.                                        *)
(***************************************************************************)
EXTENDS Naturals, Sequences, FiniteSets

CONSTANTS
  Conns,        \* connections that clients may ever make
  NoConn,       \* no connection
  MaxMessages,  \* bound: messages, pings, pongs, fragments and errors of all clients
  MaxCommands   \* bound: commands send and clients

ASSUME ConnsAssumption ==
  /\ IsFiniteSet(Conns)
  /\ NoConn \notin Conns
  /\ MaxMessages \in Nat /\ MaxCommands \in Nat

Numbers == 1 .. Cardinality(Conns)

VARIABLES
  listening,     \* the server runs
  lib,           \* WebSocketServer::_clients of the library
  clients,       \* _clients: number -> connection or NoConn
  reverse,       \* _clients_reverse: connection -> number, 0 when absent
  pc, num, type, \* per connection thread: step, local number, kind of event
  log,           \* history: events given to addMessage, in order
  messages,      \* messages so far (bounds the model)
  cmd, kind, todo, it, \* the command: step, which, connections to visit, iterator
  visited, numbers,  \* the connections it visited, the numbers it collected
  commands,      \* commands so far (bounds the model)
  steady, seen,  \* history: clients registered all through the command; numbers
                 \* in use at some time of it
  torn,          \* history: the command read an entry erased under its iterator
  collided       \* history: numbers that two clients registered at once chose

connVars == <<lib, clients, reverse, pc, num, type, log, messages>>
cmdVars  == <<cmd, kind, todo, it, visited, numbers, commands, torn>>
history  == <<steady, seen, collided>>
vars == <<listening, connVars, cmdVars, history>>

ConnPcs == {"new", "handshake", "choose", "insertFwd", "insertRev", "queue", "open",
            "find", "eraseRev", "eraseFwd", "leave", "gone"}
Types == {"open", "message", "close"}
Event == [conn : Conns, number : Numbers \cup {0}, type : Types]

Registered == {c \in Conns : reverse[c] # 0}

Init ==
  /\ listening = FALSE
  /\ lib = {}
  /\ clients = [i \in Numbers |-> NoConn]
  /\ reverse = [c \in Conns |-> 0]
  /\ pc = [c \in Conns |-> "new"]
  /\ num = [c \in Conns |-> 0]
  /\ type = [c \in Conns |-> "open"]
  /\ log = <<>>
  /\ messages = 0
  /\ cmd = "idle" /\ kind = "send" /\ todo = {} /\ it = NoConn
  /\ visited = {} /\ numbers = {}
  /\ commands = 0
  /\ steady = {} /\ seen = {} /\ torn = FALSE /\ collided = {}

Goto(c, l) == pc' = [pc EXCEPT ![c] = l]

(***************************************************************************)
(* The server of the library.                                              *)
(***************************************************************************)

Alive(c) == pc[c] \notin {"new", "gone"}

Start == /\ ~listening
         /\ \A c \in Conns : ~Alive(c)
         /\ listening' = TRUE
         /\ UNCHANGED <<connVars, cmdVars, history>>

\* stop() closes all connections; it returns, and Start may follow, when their
\* threads have ended.
Stop == /\ listening
        /\ listening' = FALSE
        /\ UNCHANGED <<connVars, cmdVars, history>>

Accept(c) ==
  /\ listening
  /\ pc[c] = "new"
  /\ lib' = lib \cup {c}
  /\ Goto(c, "handshake")
  /\ UNCHANGED <<listening, clients, reverse, num, type, log, messages, cmdVars, history>>

\* A failed handshake has no callback.
Handshake(c) ==
  /\ pc[c] = "handshake"
  /\ \/ Goto(c, "leave") \/ Goto(c, "choose")
  /\ UNCHANGED <<listening, lib, clients, reverse, num, type, log, messages, cmdVars,
                 history>>

Leave(c) ==
  /\ pc[c] = "leave"
  /\ lib' = lib \ {c}
  /\ Goto(c, "gone")
  /\ UNCHANGED <<listening, clients, reverse, num, type, log, messages, cmdVars, history>>

(***************************************************************************)
(* websocketserver_open: registerClient.                                   *)
(***************************************************************************)

LowestUnused(i) == clients[i] = NoConn /\ \A j \in Numbers : j < i => clients[j] # NoConn

ChooseNumber(c) ==
  /\ pc[c] = "choose"
  /\ \E i \in Numbers : LowestUnused(i) /\ num' = [num EXCEPT ![c] = i]
  /\ Goto(c, "insertFwd")
  /\ UNCHANGED <<listening, lib, clients, reverse, type, log, messages, cmdVars, history>>

\* insert does nothing when the number is taken by now: another thread chose it too.
InsertForward(c) ==
  /\ pc[c] = "insertFwd"
  /\ IF clients[num[c]] = NoConn
     THEN clients' = [clients EXCEPT ![num[c]] = c] /\ UNCHANGED collided
     ELSE collided' = collided \cup {num[c]} /\ UNCHANGED clients
  /\ Goto(c, "insertRev")
  /\ UNCHANGED <<listening, lib, reverse, num, type, log, messages, cmdVars, steady, seen>>

InsertReverse(c) ==
  /\ pc[c] = "insertRev"
  /\ reverse' = [reverse EXCEPT ![c] = num[c]]
  /\ seen' = seen \cup {num[c]}
  /\ type' = [type EXCEPT ![c] = "open"]
  /\ Goto(c, "queue")
  /\ UNCHANGED <<listening, lib, clients, num, log, messages, cmdVars, steady, collided>>

\* The end of every callback: addMessage with the number found before.
Queue(c) ==
  /\ pc[c] = "queue"
  /\ log' = Append(log, [conn |-> c, number |-> num[c], type |-> type[c]])
  /\ num' = [num EXCEPT ![c] = 0]
  /\ Goto(c, IF type[c] = "close" THEN "leave" ELSE "open")
  /\ UNCHANGED <<listening, lib, clients, reverse, type, messages, cmdVars, history>>

(***************************************************************************)
(* The other callbacks: findClient; websocketserver_close: unregister.     *)
(***************************************************************************)

Receive(c) ==
  /\ pc[c] = "open"
  /\ messages < MaxMessages
  /\ messages' = messages + 1
  /\ type' = [type EXCEPT ![c] = "message"]
  /\ Goto(c, "find")
  /\ UNCHANGED <<listening, lib, clients, reverse, num, log, cmdVars, history>>

\* Faulty: the first number in use.
FirstNumber(c) == CHOOSE i \in Numbers : clients[i] # NoConn

\* findClient: the number in _clients_reverse if the library knows the client.
\* Only the connection's own thread changes either.
NumberOf(c) == IF c \in lib THEN reverse[c] ELSE 0

FindClient(c) ==
  /\ pc[c] = "find"
  /\ num' = [num EXCEPT ![c] = NumberOf(c)]
  /\ Goto(c, "queue")
  /\ UNCHANGED <<listening, lib, clients, reverse, type, log, messages, cmdVars, history>>

\* Faulty: the close callback looks the number up and keeps the entries.
CloseKeeping(c) ==
  /\ pc[c] = "open"
  /\ type' = [type EXCEPT ![c] = "close"]
  /\ Goto(c, "find")
  /\ UNCHANGED <<listening, lib, clients, reverse, num, log, messages, cmdVars, history>>

\* The client closed, or the server is being stopped.
Close(c) ==
  /\ pc[c] = "open"
  /\ type' = [type EXCEPT ![c] = "close"]
  /\ Goto(c, "eraseRev")
  /\ UNCHANGED <<listening, lib, clients, reverse, num, log, messages, cmdVars, history>>

\* Faulty: the number is forgotten with the entry.
EraseReverseForgets(c) ==
  /\ pc[c] = "eraseRev"
  /\ reverse' = [reverse EXCEPT ![c] = 0]
  /\ clients' = [clients EXCEPT ![reverse[c]] = NoConn]
  /\ num' = [num EXCEPT ![c] = 0]
  /\ steady' = steady \ {c}
  /\ Goto(c, "queue")
  /\ UNCHANGED <<listening, lib, type, log, messages, cmdVars, seen, collided>>

\* Faulty: _clients keeps its entry.
EraseReverseOnly(c) ==
  /\ pc[c] = "eraseRev"
  /\ num' = [num EXCEPT ![c] = reverse[c]]
  /\ reverse' = [reverse EXCEPT ![c] = 0]
  /\ steady' = steady \ {c}
  /\ Goto(c, "queue")
  /\ UNCHANGED <<listening, lib, clients, type, log, messages, cmdVars, seen, collided>>

\* Faulty: no event.
EraseReverseSilent(c) ==
  /\ pc[c] = "eraseRev"
  /\ clients' = [clients EXCEPT ![reverse[c]] = NoConn]
  /\ reverse' = [reverse EXCEPT ![c] = 0]
  /\ steady' = steady \ {c}
  /\ Goto(c, "leave")
  /\ UNCHANGED <<listening, lib, num, type, log, messages, cmdVars, seen, collided>>

EraseReverse(c) ==
  /\ pc[c] = "eraseRev"
  /\ num' = [num EXCEPT ![c] = reverse[c]]
  /\ reverse' = [reverse EXCEPT ![c] = 0]
  /\ steady' = steady \ {c}
  /\ Goto(c, IF reverse[c] = 0 THEN "queue" ELSE "eraseFwd")
  /\ UNCHANGED <<listening, lib, clients, type, log, messages, cmdVars, seen, collided>>

\* Faulty: the entry of another number is erased.
EraseForwardFirst(c) ==
  /\ pc[c] = "eraseFwd"
  /\ clients' = [clients EXCEPT ![CHOOSE i \in Numbers : \A j \in Numbers : i <= j] = NoConn]
  /\ Goto(c, "queue")
  /\ UNCHANGED <<listening, lib, reverse, num, type, log, messages, cmdVars, history>>

\* Whatever connection the number leads to is erased.
EraseForward(c) ==
  /\ pc[c] = "eraseFwd"
  /\ clients' = [clients EXCEPT ![num[c]] = NoConn]
  /\ Goto(c, "queue")
  /\ UNCHANGED <<listening, lib, reverse, num, type, log, messages, cmdVars, history>>

Callback(c) == \/ ChooseNumber(c) \/ InsertForward(c) \/ InsertReverse(c) \/ Queue(c)
               \/ FindClient(c) \/ EraseReverse(c) \/ EraseForward(c)

(***************************************************************************)
(* Commands: send to all clients, and clients.  Both walk over the clients *)
(* of the library and look each one up with findClient, which gives 0 for  *)
(* a client that is not registered.                                        *)
(***************************************************************************)

Snapshot ==
  /\ cmd = "idle"
  /\ commands < MaxCommands
  /\ commands' = commands + 1
  /\ cmd' = "visit"
  /\ kind' \in {"send", "clients"}
  /\ todo' = lib
  /\ visited' = {} /\ numbers' = {}
  /\ steady' = Registered
  /\ seen' = {reverse[c] : c \in Registered}
  /\ UNCHANGED <<listening, connVars, it, torn, collided>>

\* Faulty: stops at the first client that has no number yet.
VisitUntilUnknown(c) ==
  /\ cmd = "visit"
  /\ c \in todo
  /\ visited' = visited \cup {c}
  /\ IF reverse[c] = 0
     THEN todo' = {} /\ UNCHANGED <<cmd, it>>
     ELSE todo' = todo \ {c} /\ cmd' = "deref" /\ it' = c
  /\ UNCHANGED <<listening, connVars, kind, numbers, commands, torn, history>>

\* send reports every number; clients leaves 0 out.
Collect(n) == numbers' = numbers \cup ({n} \ IF kind = "clients" THEN {0} ELSE {})

\* Send to one client, and find its entry in _clients_reverse.
Visit(c) ==
  /\ cmd = "visit"
  /\ c \in todo
  /\ visited' = visited \cup {c}
  /\ todo' = todo \ {c}
  /\ IF reverse[c] = 0
     THEN Collect(0) /\ UNCHANGED <<cmd, it>>
     ELSE cmd' = "deref" /\ it' = c /\ UNCHANGED numbers
  /\ UNCHANGED <<listening, connVars, kind, commands, torn, history>>

\* it->second, after another look at the clients of the library; the entry may
\* be erased by now, and whatever its memory holds is read.
Dereference ==
  /\ cmd = "deref"
  /\ \/ it \notin lib /\ Collect(0) /\ UNCHANGED torn
     \/ it \in lib /\ reverse[it] # 0 /\ Collect(reverse[it]) /\ UNCHANGED torn
     \/ it \in lib /\ reverse[it] = 0 /\ torn' = TRUE
        /\ \E n \in Numbers \cup {0} : Collect(n)
  /\ cmd' = "visit"
  /\ it' = NoConn
  /\ UNCHANGED <<listening, connVars, kind, todo, visited, commands, history>>

Finish ==
  /\ cmd = "visit"
  /\ todo = {}
  /\ cmd' = "done"
  /\ UNCHANGED <<listening, connVars, kind, todo, it, visited, numbers, commands, torn,
                 history>>

\* The result is handed to the 4D code.
Return ==
  /\ cmd = "done"
  /\ cmd' = "idle"
  /\ kind' = "send" /\ torn' = FALSE
  /\ visited' = {} /\ numbers' = {} /\ steady' = {} /\ seen' = {}
  /\ UNCHANGED <<listening, connVars, todo, it, commands, collided>>

Command == Snapshot \/ (\E c \in Conns : Visit(c)) \/ Dereference \/ Finish \/ Return

Next == \/ Start \/ Stop
        \/ \E c \in Conns : \/ Accept(c) \/ Handshake(c) \/ Receive(c) \/ Close(c)
                            \/ Leave(c) \/ Callback(c)
        \/ Command

Spec == Init /\ [][Next]_vars

\* Connection threads and a begun command go on; a server that is being stopped
\* closes its connections.
Fairness ==
  /\ \A c \in Conns : /\ WF_vars(Callback(c)) /\ WF_vars(Handshake(c)) /\ WF_vars(Leave(c))
                      /\ WF_vars(Close(c) /\ ~listening)
  /\ WF_vars(Command)

FairSpec == Spec /\ Fairness

--------------------------------------------------------------------------------
(***************************************************************************)
(* Properties.                                                             *)
(***************************************************************************)

\* Type invariant of the maps, the connection threads and the command; an event
\* on its way to the list carries a number.
TypeOK ==
  /\ listening \in BOOLEAN
  /\ lib \subseteq Conns
  /\ clients \in [Numbers -> Conns \cup {NoConn}]
  /\ reverse \in [Conns -> Numbers \cup {0}]
  /\ pc \in [Conns -> ConnPcs]
  /\ num \in [Conns -> Numbers \cup {0}]
  /\ type \in [Conns -> Types]
  /\ log \in Seq(Event)
  /\ messages \in 0 .. MaxMessages
  /\ cmd \in {"idle", "visit", "deref", "done"} /\ kind \in {"send", "clients"}
  /\ todo \subseteq Conns /\ visited \subseteq Conns /\ steady \subseteq Conns
  /\ it \in Conns \cup {NoConn}
  /\ numbers \subseteq Numbers \cup {0} /\ seen \subseteq Numbers
  /\ torn \in BOOLEAN /\ collided \subseteq Numbers
  /\ commands \in 0 .. MaxCommands
  /\ \A c \in Conns : pc[c] = "queue" => num[c] \in Numbers

\* An entry of _clients belongs to a client that has that number, but for the one
\* that its thread is inserting or erasing; and a client's number leads to the
\* client, unless two clients connecting at the same time chose that number:
\* registerClient, which has no lock, spoils that number then and no other.
MapsAgree ==
  /\ \A c \in Registered : reverse[c] \notin collided => clients[reverse[c]] = c
  /\ \A i \in Numbers : LET c == clients[i] IN
       c # NoConn => \/ reverse[c] = i
                     \/ pc[c] \in {"insertRev", "eraseFwd"} /\ num[c] = i

\* A connection that ended leaves nothing behind: every entry of either map
\* belongs to a thread between its open and its close event.
NoStaleEntry ==
  \A c \in Conns : pc[c] \in {"new", "handshake", "choose", "leave", "gone"} =>
    reverse[c] = 0 /\ \A i \in Numbers : clients[i] # c

Positions == 1 .. Len(log)

\* 4D code sees each connection as one open event, messages, and one close
\* event at the end, all with the same number.
SessionWellFormed ==
  \A i, j \in Positions : i < j /\ log[i].conn = log[j].conn =>
    /\ log[i].number = log[j].number
    /\ log[i].type # "close"
    /\ log[j].type # "open"
    /\ \E k \in 1 .. i : log[k].conn = log[i].conn /\ log[k].type = "open"

Openings(n) == {i \in Positions : log[i].type = "open" /\ log[i].number = n}

\* When a number goes from one client to the next, the open event of the new
\* one may overtake the close event of the old one (its number is free before
\* its close event is in the list), but no other event of the old one; unless
\* two clients chose the number at the same time.
OnlyCloseOvertaken ==
  \A n \in Numbers \ collided : \A i \in Openings(n), j \in Positions :
    (i < j /\ log[j].number = n /\ log[j].conn # log[i].conn) =>
       \/ log[j].type = "close"
       \/ \E k \in Openings(n) : i < k /\ k <= j /\ log[k].conn = log[j].conn

\* send and clients reach every client that stays all through the command and
\* return its number.  Besides they return only numbers in use at some time of
\* the command, unless an entry was erased under the iterator of findClient; the
\* 0 of an unknown client is in the results of send alone, and only when some
\* client came or went meanwhile.
CommandComplete ==
  cmd = "done" => /\ steady \subseteq visited
                  /\ {reverse[c] : c \in steady} \subseteq numbers
                  /\ ~torn => numbers \subseteq seen \cup {0}
                  /\ 0 \in numbers => kind = "send" /\ ~(visited \subseteq steady)

\* A stopped server ends up without connections and with empty maps.
StopEmptiesMaps ==
  ~listening ~> (lib = {} /\ Registered = {} /\ \A i \in Numbers : clients[i] = NoConn)

\* Every client that passed its handshake is announced to 4D code, and so is
\* its end when the server stops.
Announced == \A c \in Conns :
  /\ (pc[c] = "choose") ~> (\E i \in Positions : log[i].conn = c /\ log[i].type = "open")
  /\ (pc[c] = "open" /\ ~listening) ~>
       (\E i \in Positions : log[i].conn = c /\ log[i].type = "close")
================================================================================
