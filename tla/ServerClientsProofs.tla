--------------------------- MODULE ServerClientsProofs ---------------------------
(***************************************************************************)
(* Theorems about ServerClients, for threads that meet in the maps in any  *)
(* way that whole calls of the maps allow.                                 *)
(*                                                                         *)
(* The inductive invariant has four parts: what a connection's thread knows *)
(* of the state that it alone writes and what a command knows of the       *)
(* clients it has still to visit (OwnInv); that a number not chosen twice  *)
(* leads to the one client that holds it (HeldInv); where the numbers that *)
(* a command collected come from (SeenInv); and what the events of a       *)
(* connection so far say of its thread (LogInv).                           *)
(***************************************************************************)
EXTENDS ServerClients, FiniteSetTheorems, TLAPS

TypeInv ==
  /\ listening \in BOOLEAN
  /\ lib \subseteq Conns
  /\ clients \in [Numbers -> Conns \cup {NoConn}]
  /\ reverse \in [Conns -> Numbers \cup {0}]
  /\ pc \in [Conns -> ConnPcs]
  /\ num \in [Conns -> Numbers \cup {0}]
  /\ type \in [Conns -> Types]
  /\ log \in Seq(Event)
  /\ messages \in 0 .. MaxMessages
  /\ cmd \in {"idle", "visit", "deref", "done"} /\ kind \in {"send", "clients"}
  /\ todo \subseteq Conns /\ visited \subseteq Conns /\ steady \subseteq Conns
  /\ it \in Conns \cup {NoConn}
  /\ numbers \subseteq Numbers \cup {0} /\ seen \subseteq Numbers
  /\ torn \in BOOLEAN /\ collided \subseteq Numbers
  /\ commands \in 0 .. MaxCommands

\* What a connection's thread knows of the state that it alone writes.
Own(c) ==
  /\ pc[c] \notin {"new", "gone"} => c \in lib
  /\ pc[c] \in {"new", "handshake", "choose", "insertFwd", "insertRev", "eraseFwd", "leave",
                "gone"} => reverse[c] = 0
  /\ pc[c] \in {"open", "find", "eraseRev"} => reverse[c] # 0
  /\ pc[c] = "queue" => /\ reverse[c] = 0 <=> type[c] = "close"
                        /\ type[c] # "close" => num[c] = reverse[c]
  /\ pc[c] \in {"insertFwd", "insertRev", "eraseFwd", "queue"} => num[c] \in Numbers
  /\ pc[c] = "find" => type[c] = "message"
  /\ pc[c] \in {"eraseRev", "eraseFwd"} => type[c] = "close"

\* An entry of _clients belongs to a client that has its number, or is about to
\* have it or to give it up.
EntryInv ==
  \A i \in Numbers : clients[i] # NoConn =>
    \/ reverse[clients[i]] = i
    \/ pc[clients[i]] \in {"insertRev", "eraseFwd"} /\ num[clients[i]] = i

\* The clients that stay are registered, and either still to be visited or
\* visited; those are in numbers but for the one that the iterator is at.
WalkInv ==
  /\ cmd = "deref" => it \in visited
  /\ cmd # "deref" => it = NoConn
  /\ cmd = "idle" => steady = {}
  /\ cmd = "done" => todo = {}
  /\ steady \subseteq Registered
  /\ steady \subseteq todo \cup visited
  /\ \A c \in steady \cap visited : c = it \/ reverse[c] \in numbers

OwnInv == TypeInv /\ (\A c \in Conns : Own(c)) /\ EntryInv /\ WalkInv

\* A number that two clients did not choose both leads to the client that has it.
HeldInv ==
  \A c \in Conns :
    /\ reverse[c] # 0 /\ reverse[c] \notin collided => clients[reverse[c]] = c
    /\ pc[c] \in {"insertRev", "eraseFwd"} /\ num[c] \notin collided => clients[num[c]] = c

\* The numbers of all clients are in seen, and so is what a command has collected
\* if no entry was erased under its iterator; a 0 is that of a client it visited
\* which was not registered all the time.
SeenInv ==
  /\ cmd # "idle" => {reverse[c] : c \in Registered} \subseteq seen
  /\ ~torn => numbers \subseteq seen \cup {0}
  /\ 0 \in numbers => kind = "send" /\ ~(visited \subseteq steady)

\* The threads whose connection has been announced.
Opened(c) == \/ pc[c] \in {"open", "find", "eraseRev", "eraseFwd", "leave", "gone"}
             \/ pc[c] = "queue" /\ type[c] # "open"

\* What the events of one connection say of its thread.
Logged(k) ==
  LET c == log[k].conn IN
  /\ Opened(c)
  /\ log[k].type = "close" => pc[c] \in {"leave", "gone"}
  /\ pc[c] \in {"open", "find", "eraseRev"} => log[k].number = reverse[c]
  /\ pc[c] \in {"eraseFwd", "queue"} => log[k].number = num[c]
  /\ \E j \in 1 .. k : log[j].conn = c /\ log[j].type = "open"

LogInv ==
  /\ \A k \in Positions : Logged(k)
  /\ \A c \in Conns : (Opened(c) /\ pc[c] \notin {"leave", "gone"}) =>
       \E j \in Positions : log[j].conn = c /\ log[j].type = "open"

Inv == OwnInv /\ HeldInv /\ SeenInv /\ LogInv /\ SessionWellFormed

LEMMA NumbersFacts == Numbers \subseteq Nat \ {0}
<1>1. Cardinality(Conns) \in Nat
  BY ConnsAssumption, FS_CardinalityType
<1> QED BY <1>1 DEF Numbers

LEMMA InitInv == Init => Inv
<1> SUFFICES ASSUME Init PROVE Inv
  OBVIOUS
<1>1. TypeInv
  <2>1. <<>> \in Seq(Event) /\ 0 \in 0 .. MaxMessages /\ 0 \in 0 .. MaxCommands
    BY ConnsAssumption
  <2> QED BY <2>1 DEF Init, TypeInv, ConnPcs, Types
<1>2. HeldInv /\ SeenInv
  BY DEF Init, HeldInv, SeenInv
<1>3. LogInv /\ SessionWellFormed
  BY DEF Init, LogInv, SessionWellFormed, Positions, Opened
<1>4. (\A c \in Conns : Own(c)) /\ EntryInv /\ WalkInv
  BY ConnsAssumption DEF Init, Own, EntryInv, WalkInv, Registered
<1> QED BY <1>1, <1>2, <1>3, <1>4 DEF Inv, OwnInv

(***************************************************************************)
(* Each thread writes its own number, reverse and type alone, and an entry *)
(* of _clients is made and erased by threads that have its number.         *)
(***************************************************************************)

\* A step of c alone.
LEMMA OwnFrame ==
  ASSUME OwnInv, TypeInv', NEW c \in Conns,
         \A d \in Conns \ {c} : /\ pc'[d] = pc[d] /\ type'[d] = type[d]
                                /\ reverse'[d] = reverse[d] /\ num'[d] = num[d]
                                /\ d \in lib' <=> d \in lib,
         Own(c)', UNCHANGED <<cmd, todo, it, visited, numbers>>,
         steady' = steady \/ steady' = steady \ {c},
         reverse'[c] = reverse[c] \/ c \notin steady',
         \A i \in Numbers : clients'[i] = clients[i] \/ clients'[i] = NoConn
                            \/ (clients'[i] = c /\ num'[c] = i /\ pc'[c] = "insertRev"),
         \A i \in Numbers : (clients[i] = c /\ clients'[i] = c) =>
                              \/ reverse'[c] = i
                              \/ pc'[c] \in {"insertRev", "eraseFwd"} /\ num'[c] = i
  PROVE  OwnInv'
<1> USE ConnsAssumption DEF OwnInv
<1>1. ASSUME NEW d \in Conns PROVE Own(d)'
  BY DEF Own
<1>2. EntryInv'
  <2> SUFFICES ASSUME NEW i \in Numbers, clients'[i] # NoConn
               PROVE  \/ reverse'[clients'[i]] = i
                      \/ /\ pc'[clients'[i]] \in {"insertRev", "eraseFwd"}
                         /\ num'[clients'[i]] = i
    BY DEF EntryInv
  <2>1. clients'[i] \in Conns
    BY DEF TypeInv
  <2>2. CASE clients'[i] = clients[i] /\ clients[i] # c
    BY <2>1, <2>2 DEF EntryInv
  <2>3. CASE clients'[i] = clients[i] /\ clients[i] = c
    BY <2>3
  <2>4. CASE clients'[i] # clients[i]
    BY <2>4
  <2> QED BY <2>2, <2>3, <2>4
<1>3. WalkInv'
  <2>1. steady' \subseteq steady /\ steady \subseteq Conns
    BY DEF TypeInv
  <2>2. \A d \in steady' : reverse'[d] # 0 /\ reverse'[d] = reverse[d]
    BY <2>1 DEF WalkInv, Registered
  <2> QED BY <2>1, <2>2 DEF WalkInv, Registered
<1> QED BY <1>1, <1>2, <1>3

LEMMA QuietOwn ==
  ASSUME OwnInv, NEW c \in Conns,
         \/ Accept(c) \/ Handshake(c) \/ Leave(c) \/ Receive(c) \/ Close(c) \/ Queue(c)
         \/ ChooseNumber(c) \/ FindClient(c)
  PROVE  OwnInv'
<1> USE DEF OwnInv
<1>1. Own(c) /\ c \in Conns
  OBVIOUS
<1>2. /\ clients' = clients /\ reverse' = reverse /\ steady' = steady
      /\ UNCHANGED <<cmd, todo, it, visited, numbers>>
      /\ pc[c] \notin {"insertFwd", "insertRev", "eraseFwd"}
  BY DEF Accept, Handshake, Leave, Receive, Close, Queue, ChooseNumber, FindClient, cmdVars, history
<1>3. FindClient(c) => NumberOf(c) = reverse[c] /\ reverse[c] \in Numbers
  BY <1>1 DEF FindClient, NumberOf, TypeInv, Own
<1>4. TypeInv'
  <2>1. [conn |-> c, number |-> num[c], type |-> type[c]] \in Event
    BY DEF TypeInv, Event
  <2>2. log' \in Seq(Event)
    <3>1. log \in Seq(Event) /\ (log' = log \/ Queue(c))
      BY DEF Accept, Handshake, Leave, Receive, Close, ChooseNumber, FindClient, TypeInv
    <3> QED BY <2>1, <3>1 DEF Queue
  <2>3. messages' \in 0 .. MaxMessages
    BY ConnsAssumption DEF Accept, Handshake, Leave, Receive, Close, Queue, ChooseNumber,
       FindClient, TypeInv
  <2>4. pc' \in [Conns -> ConnPcs] /\ type' \in [Conns -> Types] /\ lib' \subseteq Conns
    BY DEF Accept, Handshake, Leave, Receive, Close, Queue, ChooseNumber, FindClient, Goto, TypeInv,
       ConnPcs, Types
  <2>5. num' \in [Conns -> Numbers \cup {0}]
    BY <1>3 DEF Accept, Handshake, Leave, Receive, Close, Queue, ChooseNumber, FindClient, TypeInv
  <2>6. UNCHANGED <<listening, commands, seen, kind, torn, collided>>
    BY DEF Accept, Handshake, Leave, Receive, Close, Queue, ChooseNumber, FindClient, cmdVars,
       history
  <2>7. UNCHANGED <<cmd, todo, it, visited, numbers, steady>>
    BY <1>2
  <2> QED BY <1>2, <2>2, <2>3, <2>4, <2>5, <2>6 DEF TypeInv
<1>5. \A d \in Conns \ {c} : /\ pc'[d] = pc[d] /\ type'[d] = type[d] /\ num'[d] = num[d]
                             /\ d \in lib' <=> d \in lib
  BY DEF Accept, Handshake, Leave, Receive, Close, Queue, ChooseNumber, FindClient, Goto, TypeInv
<1>6. Own(c)'
  BY <1>1, <1>2, <1>3 DEF Accept, Handshake, Leave, Receive, Close, Queue, ChooseNumber, FindClient,
     Goto, TypeInv, Own, Types
<1>7. \A i \in Numbers : clients[i] = c => reverse[c] = i
  BY <1>2, ConnsAssumption DEF EntryInv
<1> QED BY <1>2, <1>4, <1>5, <1>6, <1>7, OwnFrame

LEMMA InsertForwardOwn ==
  ASSUME OwnInv, NEW c \in Conns, InsertForward(c)
  PROVE  OwnInv'
<1> USE DEF OwnInv
<1>0. PICK n : n = num[c]
  OBVIOUS
<1>1. /\ pc[c] = "insertFwd" /\ n \in Numbers /\ Own(c)
      /\ clients' = IF clients[n] = NoConn THEN [clients EXCEPT ![n] = c] ELSE clients
      /\ pc' = [pc EXCEPT ![c] = "insertRev"]
      /\ UNCHANGED <<listening, lib, reverse, num, type, log, messages, cmdVars, steady, seen>>
      /\ collided' \subseteq collided \cup {n}
  BY <1>0 DEF InsertForward, Goto, Own
<1>2. clients' \in [Numbers -> Conns \cup {NoConn}]
  BY <1>1 DEF TypeInv
<1>3. TypeInv'
  BY <1>1, <1>2 DEF TypeInv, ConnPcs, cmdVars, history
<1>4. pc'[c] = "insertRev" /\ \A d \in Conns \ {c} : pc'[d] = pc[d]
  BY <1>1 DEF TypeInv
<1>5. Own(c)'
  BY <1>0, <1>1, <1>4 DEF Own
<1>6. \A i \in Numbers : clients'[i] = clients[i] \/ (clients'[i] = c /\ i = n)
  BY <1>1 DEF TypeInv
<1>7. \A i \in Numbers : clients[i] = c => reverse[c] = i
  BY <1>1, ConnsAssumption DEF EntryInv
<1> QED BY <1>0, <1>1, <1>3, <1>4, <1>5, <1>6, <1>7, OwnFrame DEF cmdVars, history

LEMMA InsertReverseOwn ==
  ASSUME OwnInv, NEW c \in Conns, InsertReverse(c)
  PROVE  OwnInv'
<1> USE DEF OwnInv
<1>0. PICK n : n = num[c]
  OBVIOUS
<1>1. /\ pc[c] = "insertRev" /\ n \in Numbers /\ n # 0 /\ Own(c) /\ reverse[c] = 0
      /\ reverse' = [reverse EXCEPT ![c] = n] /\ seen' = seen \cup {n}
      /\ type' = [type EXCEPT ![c] = "open"]
      /\ pc' = [pc EXCEPT ![c] = "queue"]
      /\ UNCHANGED <<listening, lib, clients, num, log, messages, cmdVars, steady, collided>>
  BY <1>0, NumbersFacts DEF InsertReverse, Goto, Own
<1>2. TypeInv'
  BY <1>1 DEF TypeInv, ConnPcs, Types, cmdVars, history
<1>3. /\ pc'[c] = "queue" /\ type'[c] = "open" /\ reverse'[c] = n
      /\ \A d \in Conns \ {c} : /\ pc'[d] = pc[d] /\ type'[d] = type[d]
                                /\ reverse'[d] = reverse[d]
  BY <1>1 DEF TypeInv
<1>4. Own(c)'
  BY <1>0, <1>1, <1>3 DEF Own
<1>5. c \notin steady
  BY <1>1 DEF WalkInv, Registered
<1>6. \A i \in Numbers : clients[i] = c => i = n
  BY <1>0, <1>1, ConnsAssumption, NumbersFacts DEF EntryInv
<1> QED BY <1>1, <1>2, <1>3, <1>4, <1>5, <1>6, OwnFrame DEF cmdVars, history

LEMMA EraseReverseOwn ==
  ASSUME OwnInv, NEW c \in Conns, EraseReverse(c)
  PROVE  OwnInv'
<1> USE DEF OwnInv
<1>0. PICK n : n = reverse[c]
  OBVIOUS
<1>1. /\ pc[c] = "eraseRev" /\ n \in Numbers /\ n # 0 /\ Own(c) /\ type[c] = "close"
      /\ num' = [num EXCEPT ![c] = n] /\ reverse' = [reverse EXCEPT ![c] = 0]
      /\ steady' = steady \ {c}
      /\ pc' = [pc EXCEPT ![c] = "eraseFwd"]
      /\ UNCHANGED <<listening, lib, clients, type, log, messages, cmdVars, seen, collided>>
  BY <1>0 DEF EraseReverse, Goto, Own, TypeInv
<1>2. TypeInv'
  BY <1>1 DEF TypeInv, ConnPcs, cmdVars, history
<1>3. /\ pc'[c] = "eraseFwd" /\ num'[c] = n /\ reverse'[c] = 0
      /\ \A d \in Conns \ {c} : pc'[d] = pc[d] /\ num'[d] = num[d] /\ reverse'[d] = reverse[d]
  BY <1>1 DEF TypeInv
<1>4. Own(c)'
  BY <1>1, <1>3 DEF Own
<1>5. \A i \in Numbers : clients[i] = c => i = n
  BY <1>0, <1>1, ConnsAssumption DEF EntryInv
<1> QED BY <1>1, <1>2, <1>3, <1>4, <1>5, OwnFrame DEF cmdVars, history

LEMMA EraseForwardOwn ==
  ASSUME OwnInv, NEW c \in Conns, EraseForward(c)
  PROVE  OwnInv'
<1> USE DEF OwnInv
<1>0. PICK n : n = num[c]
  OBVIOUS
<1>1. /\ pc[c] = "eraseFwd" /\ n \in Numbers /\ Own(c) /\ reverse[c] = 0
      /\ clients' = [clients EXCEPT ![n] = NoConn]
      /\ pc' = [pc EXCEPT ![c] = "queue"]
      /\ UNCHANGED <<listening, lib, reverse, num, type, log, messages, cmdVars, history>>
  BY <1>0 DEF EraseForward, Goto, Own
<1>2. TypeInv'
  BY <1>1 DEF TypeInv, ConnPcs, cmdVars, history
<1>3. pc'[c] = "queue" /\ \A d \in Conns \ {c} : pc'[d] = pc[d]
  BY <1>1 DEF TypeInv
<1>4. Own(c)'
  BY <1>0, <1>1, <1>3 DEF Own
<1>5. \A i \in Numbers : clients'[i] = (IF i = n THEN NoConn ELSE clients[i])
  BY <1>1 DEF TypeInv
<1>6. \A i \in Numbers : clients[i] = c => i = n
  BY <1>0, <1>1, ConnsAssumption, NumbersFacts DEF EntryInv
<1> QED BY <1>1, <1>2, <1>3, <1>4, <1>5, <1>6, ConnsAssumption, OwnFrame DEF cmdVars, history

\* What it->second gives: 0 for a client that the library forgot, its number, or
\* anything when the entry is erased.
LEMMA DerefCases ==
  ASSUME OwnInv, Dereference, it \in Conns
  PROVE  \E n \in Numbers \cup {0} :
           /\ Collect(n)
           /\ \/ torn' = torn /\ n = 0 /\ (it \notin lib \/ reverse[it] = 0)
              \/ torn' = torn /\ n = reverse[it] /\ n # 0
              \/ torn' /\ reverse[it] = 0
BY DEF OwnInv, TypeInv, Dereference

LEMMA CommandOwn ==
  ASSUME OwnInv, Command \/ Start \/ Stop \/ UNCHANGED vars
  PROVE  OwnInv'
<1> USE DEF OwnInv
<1>1. UNCHANGED connVars
  BY DEF Command, Snapshot, Visit, Dereference, Finish, Return, Start, Stop, vars
<1>2. (\A c \in Conns : Own(c)') /\ EntryInv'
  BY <1>1 DEF connVars, Own, EntryInv
<1>3. NoConn \notin Conns /\ steady \subseteq Conns /\ Registered' = Registered
  BY <1>1, ConnsAssumption DEF TypeInv, Registered, connVars
<1>4. CASE Snapshot
  <2>1. Registered \subseteq lib
    BY DEF Registered, Own, TypeInv
  <2>2. {reverse[c] : c \in Registered} \subseteq Numbers
    BY DEF Registered, TypeInv
  <2>3. commands' \in 0 .. MaxCommands
    BY <1>4, ConnsAssumption DEF Snapshot, TypeInv
  <2>4. TypeInv'
    BY <1>1, <1>4, <2>2, <2>3 DEF Snapshot, TypeInv, connVars, Registered
  <2>5. WalkInv'
    BY <1>3, <1>4, <2>1 DEF Snapshot, WalkInv
  <2> QED BY <1>2, <2>4, <2>5
<1>5. ASSUME NEW c \in Conns, Visit(c) PROVE OwnInv'
  <2>1. TypeInv'
    BY <1>5 DEF Visit, Collect, TypeInv, connVars, history
  <2>2. /\ it = NoConn /\ cmd = "visit" /\ visited' = visited \cup {c} /\ todo' = todo \ {c}
        /\ UNCHANGED <<reverse, steady>> /\ numbers \subseteq numbers'
    BY <1>5 DEF Visit, Collect, WalkInv, connVars, history
  <2>3. CASE reverse[c] = 0
    <3>1. c \notin steady /\ it' = NoConn /\ cmd' = "visit"
      BY <1>5, <2>2, <2>3 DEF Visit, WalkInv, Registered
    <3>2. WalkInv'
      BY <1>3, <2>2, <3>1 DEF WalkInv
    <3> QED BY <1>2, <2>1, <3>2
  <2>4. CASE reverse[c] # 0
    <3>1. it' = c /\ cmd' = "deref"
      BY <1>5, <2>4 DEF Visit
    <3>2. WalkInv'
      BY <1>3, <2>2, <3>1 DEF WalkInv
    <3> QED BY <1>2, <2>1, <3>2
  <2> QED BY <2>3, <2>4
<1>6. CASE Dereference
  <2>1. it \in Conns /\ it \in visited
    BY <1>6 DEF Dereference, WalkInv, TypeInv
  <2>2. PICK n \in Numbers \cup {0} :
          /\ Collect(n)
          /\ \/ torn' = torn /\ n = 0 /\ (it \notin lib \/ reverse[it] = 0)
             \/ torn' = torn /\ n = reverse[it] /\ n # 0
             \/ torn' /\ reverse[it] = 0
    BY <1>6, <2>1, DerefCases
  <2>3. TypeInv'
    <3>1. numbers' \subseteq Numbers \cup {0} /\ torn' \in BOOLEAN
      BY <1>6, <2>2 DEF Dereference, Collect, TypeInv
    <3> QED BY <1>1, <1>6, <3>1 DEF Dereference, TypeInv, connVars, history
  <2>4. numbers \subseteq numbers' /\ (it \in steady => reverse[it] \in numbers')
    <3>1. it \in steady => reverse[it] # 0 /\ it \in lib
      BY DEF WalkInv, Registered, Own, TypeInv
    <3> QED BY <2>2, <3>1 DEF Collect
  <2>5. WalkInv'
    BY <1>1, <1>3, <1>6, <2>4 DEF Dereference, WalkInv, connVars, history
  <2> QED BY <1>2, <2>3, <2>5
<1>7. CASE Finish \/ Return
  <2>1. TypeInv' /\ WalkInv'
    BY <1>1, <1>3, <1>7 DEF Finish, Return, TypeInv, WalkInv, connVars, history
  <2> QED BY <1>2, <2>1
<1>8. CASE Start \/ Stop \/ UNCHANGED vars
  <2>1. TypeInv' /\ WalkInv'
    BY <1>1, <1>3, <1>8 DEF Start, Stop, vars, TypeInv, WalkInv, connVars, cmdVars, history
  <2> QED BY <1>2, <2>1
<1> QED BY <1>4, <1>5, <1>6, <1>7, <1>8 DEF Command

LEMMA OwnStep == OwnInv /\ [Next]_vars => OwnInv'
BY QuietOwn, InsertForwardOwn, InsertReverseOwn, EraseReverseOwn, EraseForwardOwn, CommandOwn
   DEF Next, Callback

(***************************************************************************)
(* A number that two clients did not choose leads to its client.           *)
(***************************************************************************)

\* Two clients hold one number only if it was chosen twice.
LEMMA OneHolder ==
  ASSUME HeldInv, NEW c \in Conns, NEW d \in Conns, c # d, NEW i \in Numbers \ collided,
         i # 0,
         \/ reverse[c] = i
         \/ pc[c] \in {"insertRev", "eraseFwd"} /\ num[c] = i
  PROVE  /\ clients[i] = c
         /\ reverse[d] # i
         /\ ~(pc[d] \in {"insertRev", "eraseFwd"} /\ num[d] = i)
BY DEF HeldInv

\* Steps that write nothing of _clients, and by which a thread keeps its number.
LEMMA HeldFrame ==
  ASSUME HeldInv, clients' = clients, collided' = collided, NEW c \in Conns,
         \A d \in Conns \ {c} : pc'[d] = pc[d] /\ reverse'[d] = reverse[d] /\ num'[d] = num[d],
         reverse'[c] # 0 => \/ reverse'[c] = reverse[c]
                            \/ pc[c] \in {"insertRev", "eraseFwd"} /\ num[c] = reverse'[c],
         pc'[c] \in {"insertRev", "eraseFwd"} => reverse[c] # 0 /\ num'[c] = reverse[c]
  PROVE  HeldInv'
BY DEF HeldInv

LEMMA HeldStep == OwnInv /\ HeldInv /\ [Next]_vars => HeldInv'
<1> SUFFICES ASSUME OwnInv, HeldInv, [Next]_vars PROVE HeldInv'
  OBVIOUS
<1>1. CASE Start \/ Stop \/ Command \/ UNCHANGED vars
  <2>1. UNCHANGED <<clients, reverse, pc, num, collided>>
    BY <1>1 DEF Start, Stop, Command, Snapshot, Visit, Dereference, Finish, Return, vars,
       connVars, history
  <2> QED BY <2>1 DEF HeldInv
<1>2. ASSUME NEW c \in Conns,
             \/ Accept(c) \/ Handshake(c) \/ Receive(c) \/ Close(c) \/ Leave(c)
             \/ ChooseNumber(c) \/ Queue(c) \/ FindClient(c)
      PROVE  HeldInv'
  <2>1. UNCHANGED <<clients, reverse, collided>>
    BY <1>2 DEF Accept, Handshake, Receive, Close, Leave, ChooseNumber, Queue, FindClient, history
  <2>2. /\ \A d \in Conns \ {c} : pc'[d] = pc[d] /\ num'[d] = num[d]
        /\ pc'[c] \notin {"insertRev", "eraseFwd"}
    BY <1>2 DEF Accept, Handshake, Receive, Close, Leave, ChooseNumber, Queue, FindClient, Goto,
       OwnInv, TypeInv
  <2> QED BY <2>1, <2>2, HeldFrame
<1>3. ASSUME NEW c \in Conns, InsertReverse(c) PROVE HeldInv'
  <2>1. /\ UNCHANGED <<clients, num, collided>> /\ pc[c] = "insertRev"
        /\ reverse'[c] = num[c] /\ pc'[c] = "queue"
        /\ \A d \in Conns \ {c} : pc'[d] = pc[d] /\ reverse'[d] = reverse[d]
    BY <1>3 DEF InsertReverse, Goto, OwnInv, TypeInv
  <2> QED BY <2>1, HeldFrame
<1>4. ASSUME NEW c \in Conns, EraseReverse(c) PROVE HeldInv'
  <2>1. /\ UNCHANGED <<clients, collided>> /\ reverse[c] # 0
        /\ reverse'[c] = 0 /\ num'[c] = reverse[c]
        /\ \A d \in Conns \ {c} : pc'[d] = pc[d] /\ reverse'[d] = reverse[d] /\ num'[d] = num[d]
    BY <1>4 DEF EraseReverse, Goto, OwnInv, Own, TypeInv
  <2> QED BY <2>1, HeldFrame
<1>5. ASSUME NEW c \in Conns, InsertForward(c) PROVE HeldInv'
  <2>0. PICK n \in Numbers : n = num[c]
    BY <1>5 DEF InsertForward, OwnInv, Own
  <2>1. /\ UNCHANGED <<reverse, num>> /\ pc'[c] = "insertRev" /\ reverse[c] = 0
        /\ \A d \in Conns \ {c} : pc'[d] = pc[d]
    BY <1>5 DEF InsertForward, Goto, OwnInv, Own, TypeInv
  <2>2. CASE clients[n] = NoConn
    <3>1. collided' = collided /\ clients' = [clients EXCEPT ![n] = c]
      BY <1>5, <2>0, <2>2 DEF InsertForward
    <3>2. clients'[n] = c /\ \A i \in Numbers \ {n} : clients'[i] = clients[i]
      BY <3>1 DEF OwnInv, TypeInv
    <3>3. ASSUME NEW d \in Conns, d # c
          PROVE  /\ reverse[d] # 0 /\ reverse[d] \notin collided => clients'[reverse[d]] = d
                 /\ pc[d] \in {"insertRev", "eraseFwd"} /\ num[d] \notin collided =>
                      clients'[num[d]] = d
      <4>1. reverse[d] # 0 => reverse[d] \in Numbers
        BY DEF OwnInv, TypeInv
      <4>2. pc[d] \in {"insertRev", "eraseFwd"} => num[d] \in Numbers
        BY DEF OwnInv, Own
      <4>3. d # NoConn
        BY ConnsAssumption
      <4> QED BY <2>2, <3>2, <4>1, <4>2, <4>3 DEF HeldInv
    <3> QED BY <2>0, <2>1, <3>1, <3>2, <3>3 DEF HeldInv
  <2>3. CASE clients[n] # NoConn
    <3>1. collided' = collided \cup {n} /\ clients' = clients
      BY <1>5, <2>0, <2>3 DEF InsertForward
    <3> QED BY <2>0, <2>1, <3>1 DEF HeldInv
  <2> QED BY <2>2, <2>3
<1>6. ASSUME NEW c \in Conns, EraseForward(c) PROVE HeldInv'
  <2>0. PICK n \in Numbers : n = num[c]
    BY <1>6 DEF EraseForward, OwnInv, Own
  <2>1. /\ UNCHANGED <<reverse, num, collided>> /\ pc'[c] = "queue" /\ reverse[c] = 0
        /\ pc[c] = "eraseFwd" /\ n # 0
        /\ \A d \in Conns \ {c} : pc'[d] = pc[d]
        /\ \A i \in Numbers \ {n} : clients'[i] = clients[i]
    BY <1>6, <2>0, NumbersFacts DEF EraseForward, Goto, OwnInv, Own, TypeInv, history
  <2>2. ASSUME NEW d \in Conns, d # c
        PROVE  /\ reverse[d] # 0 /\ reverse[d] \notin collided => clients'[reverse[d]] = d
               /\ pc[d] \in {"insertRev", "eraseFwd"} /\ num[d] \notin collided =>
                    clients'[num[d]] = d
    <3>1. reverse[d] # 0 => reverse[d] \in Numbers
      BY DEF OwnInv, TypeInv
    <3>2. pc[d] \in {"insertRev", "eraseFwd"} => num[d] \in Numbers
      BY DEF OwnInv, Own
    <3>3. n \notin collided => /\ reverse[d] # n
                              /\ ~(pc[d] \in {"insertRev", "eraseFwd"} /\ num[d] = n)
      BY <2>0, <2>1, <2>2, OneHolder
    <3> QED BY <2>1, <3>1, <3>2, <3>3 DEF HeldInv
  <2> QED BY <2>1, <2>2 DEF HeldInv
<1> QED BY <1>1, <1>2, <1>3, <1>4, <1>5, <1>6 DEF Next, Callback

(***************************************************************************)
(* Where the numbers that a command collects come from.                    *)
(***************************************************************************)

LEMMA SeenStep == OwnInv /\ SeenInv /\ [Next]_vars => SeenInv'
<1> SUFFICES ASSUME OwnInv, SeenInv, [Next]_vars PROVE SeenInv'
  OBVIOUS
<1> USE DEF SeenInv
<1>1. ASSUME NEW c \in Conns,
             \/ Accept(c) \/ Handshake(c) \/ Receive(c) \/ Close(c) \/ Leave(c)
             \/ ChooseNumber(c) \/ InsertForward(c) \/ Queue(c) \/ FindClient(c)
             \/ EraseForward(c)
      PROVE  SeenInv'
  <2>1. UNCHANGED <<cmd, kind, visited, numbers, torn, reverse, steady, seen>>
    BY <1>1 DEF Accept, Handshake, Receive, Close, Leave, ChooseNumber, InsertForward, Queue,
       FindClient, EraseForward, cmdVars, history
  <2> QED BY <2>1 DEF Registered
<1>2. ASSUME NEW c \in Conns, InsertReverse(c) PROVE SeenInv'
  <2>1. /\ UNCHANGED <<cmd, kind, visited, numbers, torn, steady>>
        /\ seen' = seen \cup {num[c]} /\ reverse' = [reverse EXCEPT ![c] = num[c]]
    BY <1>2 DEF InsertReverse, cmdVars
  <2>2. \A d \in Registered' : \/ reverse'[d] = num[c]
                               \/ d \in Registered /\ reverse'[d] = reverse[d]
    BY <2>1 DEF Registered, OwnInv, TypeInv
  <2> QED BY <2>1, <2>2
<1>3. ASSUME NEW c \in Conns, EraseReverse(c) PROVE SeenInv'
  <2>1. /\ UNCHANGED <<cmd, kind, visited, numbers, torn, seen>>
        /\ steady' = steady \ {c} /\ reverse' = [reverse EXCEPT ![c] = 0]
    BY <1>3 DEF EraseReverse, cmdVars
  <2>2. \A d \in Registered' : d \in Registered /\ reverse'[d] = reverse[d]
    BY <2>1 DEF Registered, OwnInv, TypeInv
  <2> QED BY <2>1, <2>2
<1>4. CASE Start \/ Stop \/ Finish \/ UNCHANGED vars
  <2>1. /\ UNCHANGED <<kind, visited, numbers, torn, reverse, steady, seen>>
        /\ cmd' # "idle" => cmd # "idle"
    BY <1>4 DEF Start, Stop, Finish, vars, connVars, cmdVars, history
  <2> QED BY <2>1 DEF Registered
<1>5. CASE Snapshot \/ Return
  BY <1>5 DEF Snapshot, Return, connVars, Registered
<1>6. ASSUME NEW c \in Conns, Visit(c) PROVE SeenInv'
  <2>1. /\ UNCHANGED <<kind, torn, reverse, steady, seen>> /\ cmd # "idle"
        /\ visited' = visited \cup {c}
    BY <1>6 DEF Visit, connVars, history
  <2>2. \/ numbers' = numbers
        \/ numbers' \subseteq numbers \cup {0} /\ reverse[c] = 0
           /\ (0 \in numbers' => 0 \in numbers \/ kind = "send")
    BY <1>6, ConnsAssumption DEF Visit, Collect, OwnInv, TypeInv
  <2>3. reverse[c] = 0 => c \notin steady
    BY DEF OwnInv, WalkInv, Registered
  <2> QED BY <2>1, <2>2, <2>3 DEF Registered
<1>7. CASE Dereference
  <2>1. /\ UNCHANGED <<kind, visited, reverse, steady, seen>> /\ cmd # "idle"
        /\ it \in visited /\ it \in Conns
    BY <1>7 DEF Dereference, connVars, history, OwnInv, WalkInv, TypeInv
  <2>2. (it \notin lib \/ reverse[it] = 0) => it \notin steady
    BY <2>1 DEF OwnInv, Own, WalkInv, Registered
  <2>3. reverse[it] # 0 => reverse[it] \in seen
    BY <2>1 DEF Registered
  <2>4. PICK n \in Numbers \cup {0} :
          /\ Collect(n)
          /\ \/ torn' = torn /\ n = 0 /\ (it \notin lib \/ reverse[it] = 0)
             \/ torn' = torn /\ n = reverse[it] /\ n # 0
             \/ torn' /\ reverse[it] = 0
    BY <1>7, <2>1, DerefCases
  <2>5. /\ numbers' \subseteq numbers \cup {n} /\ (0 \in numbers' => 0 \in numbers \/ n = 0)
        /\ 0 \in numbers' => 0 \in numbers \/ kind = "send"
    BY <2>4, ConnsAssumption DEF Collect, OwnInv, TypeInv
  <2>6. ~torn' => ~torn /\ numbers' \subseteq seen \cup {0}
    BY <2>3, <2>4, <2>5
  <2>7. 0 \in numbers' => kind = "send" /\ ~(visited \subseteq steady)
    BY <2>1, <2>2, <2>4, <2>5
  <2> QED BY <2>1, <2>6, <2>7 DEF Registered
<1> QED BY <1>1, <1>2, <1>3, <1>4, <1>5, <1>6, <1>7 DEF Next, Callback, Command

(***************************************************************************)
(* The events of a connection.                                             *)
(***************************************************************************)

LEMMA Logs ==
  ASSUME TypeInv, NEW k \in Positions
  PROVE  k \in Nat /\ log[k] \in Event /\ log[k].conn \in Conns /\ log[k].type \in Types
<1>1. Len(log) \in Nat /\ log[k] \in Event
  BY DEF TypeInv, Positions
<1> QED BY <1>1 DEF Positions, Event

\* The number that the next events of an announced connection will have.
Number(c) == IF pc[c] \in {"open", "find", "eraseRev"} THEN reverse[c] ELSE num[c]

\* A step of one thread that adds no event and goes on along the callbacks.
LEMMA LogFrame ==
  ASSUME Inv, NEW c \in Conns, log' = log,
         \A d \in Conns \ {c} : /\ pc'[d] = pc[d] /\ type'[d] = type[d]
                                /\ reverse'[d] = reverse[d] /\ num'[d] = num[d],
         Opened(c)' => Opened(c) \/ pc'[c] \in {"leave", "gone"},
         Opened(c) => /\ Opened(c)'
                      /\ pc[c] \in {"leave", "gone"} <=> pc'[c] \in {"leave", "gone"}
                      /\ pc'[c] \in {"leave", "gone"} \/ Number(c)' = Number(c)
  PROVE  LogInv' /\ SessionWellFormed'
<1> USE DEF Inv, OwnInv
<1>1. Positions' = Positions
  BY DEF Positions
<1>2. SessionWellFormed'
  BY <1>1 DEF SessionWellFormed
<1>3. ASSUME NEW k \in Positions PROVE Logged(k)'
  <2>1. PICK d \in Conns : d = log[k].conn
    BY Logs
  <2>2. /\ Opened(d)
        /\ log[k].type = "close" => pc[d] \in {"leave", "gone"}
        /\ pc[d] \notin {"leave", "gone"} => log[k].number = Number(d)
        /\ \E j \in 1 .. k : log[j].conn = d /\ log[j].type = "open"
    BY <2>1 DEF LogInv, Logged, Opened, Number
  <2>3. /\ Opened(d)'
        /\ log[k].type = "close" => pc'[d] \in {"leave", "gone"}
        /\ pc'[d] \notin {"leave", "gone"} => log[k].number = Number(d)'
    <3>1. CASE d = c
      BY <2>2, <3>1
    <3>2. CASE d # c
      BY <2>2, <3>2 DEF Opened, Number
    <3> QED BY <3>1, <3>2
  <2> QED BY <2>2, <2>3, <2>1 DEF Logged, Opened, Number
<1>4. ASSUME NEW d \in Conns, Opened(d)', pc'[d] \notin {"leave", "gone"}
      PROVE  \E j \in Positions : log[j].conn = d /\ log[j].type = "open"
  <2>1. Opened(d) /\ pc[d] \notin {"leave", "gone"}
    <3>1. CASE d = c
      BY <1>4, <3>1
    <3>2. CASE d # c
      BY <1>4, <3>2 DEF Opened
    <3> QED BY <3>1, <3>2
  <2> QED BY <2>1 DEF LogInv
<1> QED BY <1>1, <1>2, <1>3, <1>4 DEF LogInv

\* A step that no thread of a connection takes.
LEMMA LogSame ==
  ASSUME Inv, UNCHANGED <<log, pc, type, reverse, num>>
  PROVE  LogInv' /\ SessionWellFormed'
BY DEF Inv, LogInv, Logged, Opened, SessionWellFormed, Positions

LEMMA StepsKeepLog ==
  ASSUME Inv, NEW c \in Conns,
         \/ Accept(c) \/ Handshake(c) \/ Receive(c) \/ Close(c) \/ Leave(c)
         \/ ChooseNumber(c) \/ InsertForward(c) \/ InsertReverse(c)
         \/ FindClient(c) \/ EraseReverse(c) \/ EraseForward(c)
  PROVE  LogInv' /\ SessionWellFormed'
<1> USE DEF Inv, OwnInv, TypeInv, Goto, Opened, Number
<1>1. CASE Accept(c) \/ Handshake(c) \/ Leave(c)
  BY <1>1, LogFrame DEF Accept, Handshake, Leave
<1>2. CASE Receive(c) \/ Close(c)
  BY <1>2, LogFrame DEF Receive, Close, Types
<1>3. CASE ChooseNumber(c)
  BY <1>3, LogFrame DEF ChooseNumber
<1>4. CASE InsertForward(c)
  BY <1>4, LogFrame DEF InsertForward
<1>5. CASE InsertReverse(c)
  BY <1>5, LogFrame DEF InsertReverse
<1>6. CASE FindClient(c)
  <2>1. NumberOf(c) = reverse[c] /\ type[c] = "message"
    BY <1>6 DEF FindClient, NumberOf, Own
  <2> QED BY <1>6, <2>1, LogFrame DEF FindClient
<1>7. CASE EraseReverse(c)
  <2>1. reverse[c] # 0 /\ type[c] = "close"
    BY <1>7 DEF EraseReverse, Own
  <2> QED BY <1>7, <2>1, LogFrame DEF EraseReverse
<1>8. CASE EraseForward(c)
  <2>1. type[c] = "close"
    BY <1>8 DEF EraseForward, Own
  <2> QED BY <1>8, <2>1, LogFrame DEF EraseForward
<1> QED BY <1>1, <1>2, <1>3, <1>4, <1>5, <1>6, <1>7, <1>8

LEMMA QueueKeepsLog ==
  ASSUME Inv, NEW c \in Conns, Queue(c)
  PROVE  LogInv' /\ SessionWellFormed'
<1> USE DEF Inv, OwnInv
<1> DEFINE new == [conn |-> c, number |-> num[c], type |-> type[c]]
           n == Len(log) + 1
<1>1. /\ n \in Nat \ {0} /\ Positions = 1 .. n - 1 /\ Positions' = 1 .. n
      /\ log'[n] = new
      /\ \A k \in Positions : log'[k] = log[k]
  BY DEF Queue, TypeInv, Positions, Event
<1>2. /\ pc[c] = "queue" /\ type' = type /\ reverse' = reverse
      /\ pc' = [pc EXCEPT ![c] = IF type[c] = "close" THEN "leave" ELSE "open"]
      /\ num' = [num EXCEPT ![c] = 0]
      /\ type[c] \in Types
      /\ reverse[c] = 0 <=> type[c] = "close"
      /\ type[c] # "close" => num[c] = reverse[c]
  BY DEF Queue, Goto, TypeInv, Own
<1>3. \A k \in Positions : /\ Logged(k) /\ log[k].conn \in Conns
  BY Logs DEF LogInv
<1>4. type[c] # "open" => \E j \in Positions : log[j].conn = c /\ log[j].type = "open"
  BY <1>2 DEF LogInv, Opened
<1>5. type[c] = "open" => \A k \in Positions : log[k].conn # c
  BY <1>2, <1>3 DEF Logged, Opened
<1> HIDE DEF n
<1>6. SessionWellFormed'
  <2> SUFFICES ASSUME NEW i \in 1 .. n, NEW j \in 1 .. n, i < j, log'[i].conn = log'[j].conn
               PROVE  /\ log'[i].number = log'[j].number
                      /\ log'[i].type # "close"
                      /\ log'[j].type # "open"
                      /\ \E k \in 1 .. i : log'[k].conn = log'[i].conn /\ log'[k].type = "open"
    BY <1>1 DEF SessionWellFormed
  <2>1. i \in Positions /\ log'[i] = log[i] /\ \A k \in 1 .. i : k \in Positions
    BY <1>1
  <2>2. \E k \in 1 .. i : log'[k].conn = log'[i].conn /\ log'[k].type = "open"
    BY <1>1, <1>3, <2>1 DEF Logged
  <2>3. CASE j = n
    <3>1. log[i].conn = c
      BY <1>1, <2>1, <2>3
    <3>2. type[c] # "open"
      BY <1>5, <2>1, <3>1
    <3>3. log[i].number = num[c] /\ log[i].type # "close"
      BY <1>2, <1>3, <2>1, <3>1 DEF Logged
    <3> QED BY <1>1, <2>1, <2>2, <2>3, <3>2, <3>3
  <2>4. CASE j # n
    <3>1. j \in Positions /\ log'[j] = log[j]
      BY <1>1, <2>4
    <3> QED BY <2>1, <2>2, <3>1 DEF SessionWellFormed
  <2> QED BY <2>3, <2>4
<1>7. ASSUME NEW k \in 1 .. n PROVE Logged(k)'
  <2>1. CASE k = n
    <3>1. log'[k].conn = c /\ log'[k].number = num[c] /\ log'[k].type = type[c]
      BY <1>1, <2>1
    <3>2. \E j \in 1 .. n : log'[j].conn = c /\ log'[j].type = "open"
      BY <1>1, <1>4
    <3>3. pc'[c] = (IF type[c] = "close" THEN "leave" ELSE "open")
      BY <1>2 DEF TypeInv
    <3> QED BY <1>2, <2>1, <3>1, <3>2, <3>3 DEF Logged, Opened
  <2>2. CASE k # n
    <3> DEFINE d == log[k].conn
    <3>1. k \in Positions /\ log'[k] = log[k] /\ d \in Conns /\ Logged(k)
      BY <1>1, <1>3, <2>2
    <3>2. \E j \in 1 .. k : log'[j].conn = d /\ log'[j].type = "open"
      BY <1>1, <3>1 DEF Logged
    <3>3. CASE d # c
      <4>1. pc'[d] = pc[d] /\ num'[d] = num[d]
        BY <1>2, <3>1, <3>3 DEF TypeInv
      <4> QED BY <1>2, <3>1, <3>2, <4>1 DEF Logged, Opened
    <3>4. CASE d = c
      <4>1. pc'[c] = (IF type[c] = "close" THEN "leave" ELSE "open")
        BY <1>2 DEF TypeInv
      <4>2. log[k].number = num[c] /\ log[k].type # "close"
        BY <1>2, <3>1, <3>4 DEF Logged
      <4> QED BY <1>2, <3>1, <3>2, <3>4, <4>1, <4>2 DEF Logged, Opened
    <3> QED BY <3>3, <3>4
  <2> QED BY <2>1, <2>2
<1>8. ASSUME NEW d \in Conns, Opened(d)', pc'[d] \notin {"leave", "gone"}
      PROVE  \E j \in 1 .. n : log'[j].conn = d /\ log'[j].type = "open"
  <2>1. CASE d = c
    <3>1. type[c] # "open" \/ new.type = "open"
      OBVIOUS
    <3> QED BY <1>1, <1>4, <2>1, <3>1
  <2>2. CASE d # c
    <3>1. pc'[d] = pc[d] /\ type'[d] = type[d]
      BY <1>2, <2>2 DEF TypeInv
    <3>2. PICK j \in Positions : log[j].conn = d /\ log[j].type = "open"
      BY <1>8, <3>1 DEF LogInv, Opened
    <3> QED BY <1>1, <3>2
  <2> QED BY <2>1, <2>2
<1> QED BY <1>1, <1>6, <1>7, <1>8 DEF LogInv

LEMMA LogStep == Inv /\ [Next]_vars => LogInv' /\ SessionWellFormed'
<1> SUFFICES ASSUME Inv, [Next]_vars PROVE LogInv' /\ SessionWellFormed'
  OBVIOUS
<1>1. CASE Start \/ Stop \/ Command \/ UNCHANGED vars
  <2>1. UNCHANGED <<log, pc, type, reverse, num>>
    BY <1>1 DEF Start, Stop, Command, Snapshot, Visit, Dereference, Finish, Return, vars, connVars
  <2> QED BY <2>1, LogSame
<1>2. ASSUME NEW c \in Conns, \/ Accept(c) \/ Handshake(c) \/ Receive(c) \/ Close(c)
                              \/ Leave(c) \/ Callback(c)
      PROVE  LogInv' /\ SessionWellFormed'
  BY <1>2, StepsKeepLog, QueueKeepsLog DEF Callback
<1> QED BY <1>1, <1>2 DEF Next

LEMMA StepInv == Inv /\ [Next]_vars => Inv'
BY OwnStep, HeldStep, SeenStep, LogStep DEF Inv

\* The invariant, whatever the order of the threads' calls.
THEOREM Invariant == Spec => []Inv
BY InitInv, StepInv, PTL DEF Spec

(***************************************************************************)
(* The properties.                                                         *)
(***************************************************************************)

\* Types; and an event on its way to the list carries a number.
THEOREM TypeCorrect == Spec => []TypeOK
<1>1. Inv => TypeOK
  BY DEF Inv, OwnInv, TypeInv, Own, TypeOK
<1> QED BY <1>1, Invariant, PTL

\* The two maps are inverse to each other but for the numbers that two clients
\* connecting at the same time both chose, and no other number suffers from that.
THEOREM MapsCorrect == Spec => []MapsAgree
<1>1. Inv => MapsAgree
  BY ConnsAssumption DEF Inv, OwnInv, EntryInv, HeldInv, MapsAgree, Registered
<1> QED BY <1>1, Invariant, PTL

\* A connection that ended leaves no entry, even where numbers were given out twice.
THEOREM NothingStale == Spec => []NoStaleEntry
<1>1. Inv => NoStaleEntry
  <2> SUFFICES ASSUME Inv, NEW c \in Conns,
                      pc[c] \in {"new", "handshake", "choose", "leave", "gone"}
               PROVE  reverse[c] = 0 /\ \A i \in Numbers : clients[i] # c
    BY DEF NoStaleEntry
  <2>1. reverse[c] = 0
    BY DEF Inv, OwnInv, Own
  <2> QED BY <2>1, NumbersFacts, ConnsAssumption DEF Inv, OwnInv, EntryInv
<1> QED BY <1>1, Invariant, PTL

\* Each connection is one open event, messages and one close event, with one number,
\* even where another client was given the same number.
THEOREM SessionsCorrect == Spec => []SessionWellFormed
<1>1. Inv => SessionWellFormed
  BY DEF Inv
<1> QED BY <1>1, Invariant, PTL

\* send and clients miss no client that stays, even where entries are erased under
\* their iterator; what else they return was in use meanwhile if none was.
THEOREM CommandsCorrect == Spec => []CommandComplete
<1>1. Inv => CommandComplete
  BY ConnsAssumption DEF Inv, OwnInv, TypeInv, WalkInv, SeenInv, CommandComplete
<1> QED BY <1>1, Invariant, PTL

(***************************************************************************)
(* Events of a number that goes from one client to the next.               *)
(***************************************************************************)

\* A thread that has announced its connection and is still registered.
Active(c) == \/ pc[c] \in {"open", "find", "eraseRev"}
             \/ pc[c] = "queue" /\ type[c] = "message"

\* The last open event of a number is that of the client that has it now, unless
\* it was chosen twice.
LatestInv ==
  \A c \in Conns : Active(c) /\ reverse[c] \notin collided =>
    \A i \in Openings(reverse[c]) : \E k \in Openings(reverse[c]) : i <= k /\ log[k].conn = c

OrderInv == Inv /\ LatestInv /\ OnlyCloseOvertaken

LEMMA OrderFrame ==
  ASSUME OrderInv, log' = log,
         collided \subseteq collided',
         \A c \in Conns : Active(c)' => Active(c) /\ reverse'[c] = reverse[c]
  PROVE  LatestInv' /\ OnlyCloseOvertaken'
<1>1. Positions' = Positions /\ \A n : Openings(n)' = Openings(n)
  BY DEF Positions, Openings
<1> QED BY <1>1 DEF OrderInv, LatestInv, OnlyCloseOvertaken

LEMMA StepsKeepOrder ==
  ASSUME OrderInv, NEW c \in Conns,
         \/ Accept(c) \/ Handshake(c) \/ Receive(c) \/ Close(c) \/ Leave(c)
         \/ ChooseNumber(c) \/ InsertForward(c) \/ InsertReverse(c)
         \/ FindClient(c) \/ EraseReverse(c) \/ EraseForward(c)
  PROVE  LatestInv' /\ OnlyCloseOvertaken'
<1> USE DEF OrderInv, Inv, OwnInv, TypeInv, Goto, Active, history
<1>1. CASE Accept(c) \/ Handshake(c) \/ Leave(c)
  BY <1>1, OrderFrame DEF Accept, Handshake, Leave
<1>2. CASE Receive(c) \/ Close(c)
  BY <1>2, OrderFrame DEF Receive, Close
<1>3. CASE ChooseNumber(c) \/ InsertForward(c) \/ InsertReverse(c)
  BY <1>3, OrderFrame DEF ChooseNumber, InsertForward, InsertReverse
<1>4. CASE FindClient(c)
  BY <1>4, OrderFrame DEF FindClient
<1>5. CASE EraseReverse(c) \/ EraseForward(c)
  <2>1. type[c] = "close"
    BY <1>5 DEF EraseReverse, EraseForward, Own
  <2> QED BY <1>5, <2>1, OrderFrame DEF EraseReverse, EraseForward
<1> QED BY <1>1, <1>2, <1>3, <1>4, <1>5

LEMMA QueueKeepsOrder ==
  ASSUME OrderInv, NEW c \in Conns, Queue(c)
  PROVE  LatestInv' /\ OnlyCloseOvertaken'
<1> USE DEF OrderInv, Inv, OwnInv
<1> DEFINE new == [conn |-> c, number |-> num[c], type |-> type[c]]
           n == Len(log) + 1
<1>1. /\ n \in Nat \ {0} /\ Positions = 1 .. n - 1 /\ Positions' = 1 .. n
      /\ log'[n].conn = c /\ log'[n].number = num[c] /\ log'[n].type = type[c]
      /\ \A k \in Positions : log'[k] = log[k]
  BY DEF Queue, TypeInv, Positions, Event
<1> HIDE DEF n
<1>2. /\ pc[c] = "queue" /\ type' = type /\ reverse' = reverse
      /\ type[c] \in Types
      /\ type[c] # "close" => num[c] = reverse[c] /\ reverse[c] # 0
      /\ \A d \in Conns \ {c} : pc'[d] = pc[d]
      /\ collided' = collided
  BY DEF Queue, Goto, TypeInv, Own, history
<1>3. \A m : \A k : k \in Openings(m)' <=>
         k \in Openings(m) \/ (k = n /\ type[c] = "open" /\ num[c] = m)
  <2> SUFFICES ASSUME NEW m, NEW k
               PROVE  k \in Openings(m)' <=>
                        k \in Openings(m) \/ (k = n /\ type[c] = "open" /\ num[c] = m)
    OBVIOUS
  <2>1. k \in Positions <=> k \in 1 .. n /\ k # n
    BY <1>1
  <2>2. n \in Openings(m)' <=> type[c] = "open" /\ num[c] = m
    BY <1>1 DEF Openings
  <2>3. k \in Openings(m) => k \in Openings(m)' /\ k # n
    BY <1>1, <2>1 DEF Openings
  <2>4. k \in Openings(m)' /\ k # n => k \in Openings(m)
    BY <1>1, <2>1 DEF Openings
  <2> QED BY <2>2, <2>3, <2>4
<1>4. \A m : \A k \in Openings(m) : k \in Positions /\ log'[k] = log[k]
  BY <1>1 DEF Openings
<1>5. LatestInv'
  <2> SUFFICES ASSUME NEW d \in Conns, Active(d)', NEW m, m = reverse[d], m \notin collided,
                      NEW i \in Openings(m)'
               PROVE  \E k \in Openings(m)' : i <= k /\ log'[k].conn = d
    BY <1>2 DEF LatestInv, Openings
  <2>1. CASE d = c /\ type[c] = "open"
    <3>1. n \in Openings(m)' /\ i <= n
      BY <1>1, <1>2, <1>3, <1>4, <2>1
    <3> QED BY <1>1, <2>1, <3>1
  <2>2. CASE d = c /\ type[c] = "message"
    <3>1. Active(c) /\ i \in Openings(m)
      BY <1>2, <1>3, <2>2 DEF Active
    <3>2. PICK k \in Openings(m) : i <= k /\ log[k].conn = c
      BY <2>2, <3>1 DEF LatestInv
    <3> QED BY <1>3, <1>4, <2>2, <3>2
  <2>3. CASE d = c /\ type[c] = "close"
    BY <1>2, <2>3 DEF Active, Queue, Goto, TypeInv
  <2>4. CASE d # c
    <3>1. Active(d)
      BY <1>2, <2>4 DEF Active
    <3>2. reverse[d] # 0
      BY <3>1 DEF Active, Own
    <3>3. ~(type[c] = "open" /\ num[c] = m)
      BY <1>2, <2>4, <3>2 DEF HeldInv
    <3>4. PICK k \in Openings(m) : i <= k /\ log[k].conn = d
      BY <1>3, <3>1, <3>3 DEF LatestInv
    <3> QED BY <1>3, <1>4, <3>4
  <2> QED BY <1>2, <2>1, <2>2, <2>3, <2>4 DEF Types
<1>6. OnlyCloseOvertaken'
  <2> SUFFICES ASSUME NEW m \in Numbers \ collided, NEW i \in Openings(m)', NEW j \in 1 .. n,
                      i < j, log'[j].number = m, log'[j].conn # log'[i].conn,
                      log'[j].type # "close"
               PROVE  \E k \in Openings(m)' : i < k /\ k <= j /\ log'[k].conn = log'[j].conn
    BY <1>1, <1>2 DEF OnlyCloseOvertaken
  <2>1. i \in Openings(m) /\ i \in Positions /\ log'[i] = log[i]
    BY <1>1, <1>3, <1>4
  <2>2. CASE j # n
    <3>1. j \in Positions /\ log'[j] = log[j]
      BY <1>1, <2>2
    <3>2. PICK k \in Openings(m) : i < k /\ k <= j /\ log[k].conn = log[j].conn
      <4>1. log[j].number = m /\ log[j].conn # log[i].conn /\ log[j].type # "close"
        BY <2>1, <3>1
      <4> QED BY <2>1, <3>1, <4>1 DEF OnlyCloseOvertaken
    <3> QED BY <1>3, <1>4, <3>1, <3>2
  <2>3. CASE j = n /\ type[c] = "open"
    <3>1. n \in Openings(m)'
      BY <1>1, <1>3, <2>3
    <3> QED BY <1>1, <2>3, <3>1
  <2>4. CASE j = n /\ type[c] = "message"
    <3>1. Active(c) /\ reverse[c] = m
      BY <1>1, <1>2, <2>4 DEF Active
    <3>2. PICK k \in Openings(m) : i <= k /\ log[k].conn = c
      BY <2>1, <3>1 DEF LatestInv
    <3>3. k # i /\ k \in Positions
      BY <1>1, <1>4, <2>1, <2>4, <3>2
    <3> QED BY <1>1, <1>3, <1>4, <2>1, <2>4, <3>2, <3>3
  <2> QED BY <1>1, <1>2, <2>2, <2>3, <2>4 DEF Types
<1> QED BY <1>5, <1>6

LEMMA OrderStep == OrderInv /\ [Next]_vars => OrderInv'
<1> SUFFICES ASSUME OrderInv, [Next]_vars PROVE OrderInv'
  OBVIOUS
<1>1. Inv'
  BY StepInv DEF OrderInv
<1>2. CASE Start \/ Stop \/ Command \/ UNCHANGED vars
  <2>1. UNCHANGED <<log, pc, type, reverse, collided>>
    BY <1>2 DEF Start, Stop, Command, Snapshot, Visit, Dereference, Finish, Return, vars, connVars,
       history
  <2> QED BY <1>1, <2>1, OrderFrame DEF OrderInv, Active
<1>3. CASE \E c \in Conns : \/ Accept(c) \/ Handshake(c) \/ Receive(c) \/ Close(c)
                            \/ Leave(c) \/ Callback(c)
  <2>1. PICK c \in Conns : \/ Accept(c) \/ Handshake(c) \/ Receive(c) \/ Close(c)
                           \/ Leave(c) \/ Callback(c)
    BY <1>3
  <2>2. LatestInv' /\ OnlyCloseOvertaken'
    BY <2>1, StepsKeepOrder, QueueKeepsOrder DEF Callback
  <2> QED BY <1>1, <2>2 DEF OrderInv
<1> QED BY <1>2, <1>3 DEF Next

\* When a number goes to another client, only the close event of the old one may
\* come after the open event of the new one, unless the number was chosen twice.
THEOREM OvertakingCorrect == Spec => []OnlyCloseOvertaken
<1>1. Init => OrderInv
  <2>1. Init => LatestInv /\ OnlyCloseOvertaken
    BY DEF Init, LatestInv, OnlyCloseOvertaken, Active, Openings, Positions
  <2> QED BY <2>1, InitInv DEF OrderInv
<1>2. OrderInv => OnlyCloseOvertaken
  BY DEF OrderInv
<1> QED BY <1>1, <1>2, OrderStep, PTL DEF Spec
================================================================================
