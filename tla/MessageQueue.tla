------------------------------ MODULE MessageQueue ------------------------------
(***************************************************************************)
(* The message list shared by the network threads, the plugin commands,    *)
(* the event-queue process and OnExit, step by step, under                 *)
(* message_list_mutex.                                                     *)
(*                                                                         *)
(*  - A network thread runs a callback (websocketserver_message, ...,      *)
(*    websocketclient_error): it blocks on the mutex and adds one message. *)
(*  - The event-queue process (websocket_event_queue::loop) tries the      *)
(*    mutex, and while it holds it runs the callback method of every       *)
(*    message and erases it.                                               *)
(*  - A 4D process may run websocket_client_messages or                    *)
(*    websocket_server_messages: it tries the mutex and copies the         *)
(*    messages of one endpoint.                                            *)
(*  - The main process runs OnExit, which clears the list without the      *)
(*    mutex.                                                               *)
(*                                                                         *)
(* A message is abstracted to its arrival number, the endpoint it is about *)
(* and the method name captured when it was added.  The history variables  *)
(* added, executed and late are not in the code.                           *)
(***************************************************************************)
EXTENDS Naturals, Sequences

CONSTANTS
  CallbackThreads,        \* network threads of IXWebSocket
  Pollers,                \* 4D processes that call the messages commands
  Loop,                   \* the event-queue process
  Main,                   \* the main process
  NoThread,               \* owner of a free mutex
  Endpoints,              \* servers and clients
  EndpointOf,             \* the endpoint a callback thread reports about
  Methods, Installed,     \* method names; those PA_GetMethodID resolves
  MaxMessages,            \* bound: callbacks delivered by the network
  EndpointsStoppedFirst   \* TRUE: the database stops its endpoints before it quits

ASSUME ThreadsAssumption ==
  /\ CallbackThreads \cap Pollers = {}
  /\ {Loop, Main, NoThread} \cap (CallbackThreads \cup Pollers) = {}
  /\ Loop # Main /\ Loop # NoThread /\ Main # NoThread

ASSUME DataAssumption ==
  /\ EndpointOf \in [CallbackThreads -> Endpoints]
  /\ Installed \subseteq Methods
  /\ MaxMessages \in Nat
  /\ EndpointsStoppedFirst \in BOOLEAN

VARIABLES
  mutex,         \* owner of message_list_mutex
  messages,      \* the vector behind message_list
  exitFlag,      \* websocket_event_queue_exit
  dying,         \* PA_IsProcessDying() of the event-queue process
  loopPc,        \* where the event-queue process is
  cbPc,          \* where each callback thread is
  received,      \* callbacks begun so far (bounds the model)
  pollPc, pollFor, pollAt, pollResult,   \* the messages commands
  mainPc,        \* where the main process is
  added,         \* history: every message passed to addMessage
  executed,      \* history: every message whose method was called
  late           \* history: methods called while the process was dying

loopVars == <<exitFlag, loopPc, executed, late>>
cbVars   == <<cbPc, received, added>>
pollVars == <<pollPc, pollFor, pollAt, pollResult>>
vars == <<mutex, messages, dying, mainPc, loopVars, cbVars, pollVars>>

Message == [id : Nat \ {0}, ep : Endpoints, method : Methods]

Callable(m) == m.method \in Installed

LoopPcs == {"start", "size", "tryLock", "next", "run", "erase", "unlock",
            "until", "done"}
CallbackPcs == {"idle", "lock", "add"}
PollPcs == {"idle", "tryLock", "scan", "unlock"}
MainPcs == {"running", "deleteList", "clear", "join", "done"}

Init ==
  /\ mutex = NoThread
  /\ messages = <<>>
  /\ exitFlag = TRUE
  /\ dying = FALSE
  /\ loopPc = "start"
  /\ cbPc = [t \in CallbackThreads |-> "idle"]
  /\ received = 0
  /\ pollPc = [p \in Pollers |-> "idle"]
  /\ pollFor \in [Pollers -> Endpoints]
  /\ pollAt = [p \in Pollers |-> 1]
  /\ pollResult = [p \in Pollers |-> <<>>]
  /\ mainPc = "running"
  /\ added = <<>>
  /\ executed = <<>>
  /\ late = 0

Acquire(t) == mutex = NoThread /\ mutex' = t
Release == mutex' = NoThread

(***************************************************************************)
(* Callback threads.                                                       *)
(***************************************************************************)

\* IXWebSocket calls back about an event of the thread's endpoint.
Receive(t) ==
  /\ cbPc[t] = "idle"
  /\ received < MaxMessages
  /\ EndpointsStoppedFirst => mainPc = "running"
  /\ mainPc # "done"
  /\ received' = received + 1
  /\ cbPc' = [cbPc EXCEPT ![t] = "lock"]
  /\ UNCHANGED <<mutex, messages, dying, mainPc, loopVars, added, pollVars>>

\* The lock_guard blocks until the mutex is free.
LockForAdd(t) ==
  /\ cbPc[t] = "lock"
  /\ Acquire(t)
  /\ cbPc' = [cbPc EXCEPT ![t] = "add"]
  /\ UNCHANGED <<messages, dying, mainPc, loopVars, received, added, pollVars>>

\* Faulty: the arguments of addMessage swapped.
NewMessageSwapped(t, m) == [id |-> Len(added) + 1, ep |-> m, method |-> EndpointOf[t]]

NewMessage(t, m) == [id |-> Len(added) + 1, ep |-> EndpointOf[t], method |-> m]

\* addMessage: the method is whatever the ref holds now; then the guard unlocks.
AddMessage(t) ==
  /\ cbPc[t] = "add"
  /\ \E m \in Methods : /\ messages' = Append(messages, NewMessage(t, m))
                        /\ added' = Append(added, NewMessage(t, m))
  /\ Release
  /\ cbPc' = [cbPc EXCEPT ![t] = "idle"]
  /\ UNCHANGED <<dying, mainPc, loopVars, received, pollVars>>

Callback(t) == LockForAdd(t) \/ AddMessage(t)

(***************************************************************************)
(* websocket_event_queue::loop.                                            *)
(***************************************************************************)

\* The process starts: whatever the flag was, it becomes false.
LoopStart ==
  /\ loopPc = "start"
  /\ exitFlag' = FALSE
  /\ loopPc' = "size"
  /\ UNCHANGED <<mutex, messages, dying, mainPc, executed, late, cbVars, pollVars>>

\* The size is read without the mutex: during a push_back it may be anything.
SizeSeen == IF \E t \in CallbackThreads : cbPc[t] = "add"
            THEN BOOLEAN
            ELSE {messages # <<>>}

LoopSize ==
  /\ loopPc = "size"
  /\ \E seen \in SizeSeen : loopPc' = IF seen THEN "tryLock" ELSE "until"
  /\ UNCHANGED <<mutex, messages, dying, mainPc, exitFlag, executed, late, cbVars, pollVars>>

\* Faulty: the result of try_lock ignored.
LoopTryLockUnchecked ==
  /\ loopPc = "tryLock"
  /\ mutex' = IF mutex = NoThread THEN Loop ELSE mutex
  /\ loopPc' = "next"
  /\ UNCHANGED <<messages, dying, mainPc, exitFlag, executed, late, cbVars, pollVars>>

LoopTryLock ==
  /\ loopPc = "tryLock"
  /\ \/ /\ Acquire(Loop)
        /\ loopPc' = "next"
     \/ /\ mutex # NoThread
        /\ loopPc' = "until"
        /\ UNCHANGED mutex
  /\ UNCHANGED <<messages, dying, mainPc, exitFlag, executed, late, cbVars, pollVars>>

\* it == end().
LoopDrained ==
  /\ loopPc = "next"
  /\ messages = <<>>
  /\ loopPc' = "unlock"
  /\ UNCHANGED <<mutex, messages, dying, mainPc, exitFlag, executed, late, cbVars, pollVars>>

\* Faulty: the mutex is given up while the method runs.
LoopExecuteUnlocked ==
  /\ loopPc = "next"
  /\ messages # <<>>
  /\ Callable(Head(messages))
  /\ Release
  /\ executed' = Append(executed, Head(messages))
  /\ late' = IF dying THEN late + 1 ELSE late
  /\ loopPc' = "run"
  /\ UNCHANGED <<messages, dying, mainPc, exitFlag, cbVars, pollVars>>

\* The method of the first message exists: PA_ExecuteMethodByID begins.
LoopExecute ==
  /\ loopPc = "next"
  /\ messages # <<>>
  /\ Callable(Head(messages))
  /\ executed' = Append(executed, Head(messages))
  /\ late' = IF dying THEN late + 1 ELSE late
  /\ loopPc' = "run"
  /\ UNCHANGED <<mutex, messages, dying, mainPc, exitFlag, cbVars, pollVars>>

\* Faulty: the loop stops at an unknown method instead of going on.
LoopSkipStops ==
  /\ loopPc = "next"
  /\ messages # <<>>
  /\ ~Callable(Head(messages))
  /\ loopPc' = "unlock"
  /\ UNCHANGED <<mutex, messages, dying, mainPc, exitFlag, executed, late, cbVars, pollVars>>

\* PA_GetMethodID returned 0: go on to the next message.
LoopSkip ==
  /\ loopPc = "next"
  /\ messages # <<>>
  /\ ~Callable(Head(messages))
  /\ loopPc' = "erase"
  /\ UNCHANGED <<mutex, messages, dying, mainPc, exitFlag, executed, late, cbVars, pollVars>>

\* Faulty: no erase after a call; no test for a dying process; "continue" where
\* the code has "break"; "return" where it has "break".
LoopReturnKeeps ==
  /\ loopPc = "run"
  /\ IF dying THEN exitFlag' = TRUE /\ loopPc' = "unlock"
              ELSE loopPc' = "next" /\ UNCHANGED exitFlag
  /\ UNCHANGED <<mutex, messages, dying, mainPc, executed, late, cbVars, pollVars>>

LoopReturnUntested ==
  /\ loopPc = "run"
  /\ loopPc' = "erase"
  /\ UNCHANGED <<mutex, messages, dying, mainPc, exitFlag, executed, late, cbVars, pollVars>>

LoopReturnContinues ==
  /\ loopPc = "run"
  /\ IF dying THEN exitFlag' = TRUE /\ loopPc' = "next"
              ELSE loopPc' = "erase" /\ UNCHANGED exitFlag
  /\ UNCHANGED <<mutex, messages, dying, mainPc, executed, late, cbVars, pollVars>>

LoopReturnLocked ==
  /\ loopPc = "run"
  /\ IF dying THEN exitFlag' = TRUE /\ loopPc' = "until"
              ELSE loopPc' = "erase" /\ UNCHANGED exitFlag
  /\ UNCHANGED <<mutex, messages, dying, mainPc, executed, late, cbVars, pollVars>>

\* The method returned; in a dying process the message stays in the list.
LoopReturn ==
  /\ loopPc = "run"
  /\ IF dying THEN exitFlag' = TRUE /\ loopPc' = "unlock"
              ELSE loopPc' = "erase" /\ UNCHANGED exitFlag
  /\ UNCHANGED <<mutex, messages, dying, mainPc, executed, late, cbVars, pollVars>>

\* Faulty: erases at the wrong end; clears the list after the first call.
LoopEraseLast ==
  /\ loopPc = "erase"
  /\ messages' = SubSeq(messages, 1, Len(messages) - 1)
  /\ loopPc' = "next"
  /\ UNCHANGED <<mutex, dying, mainPc, exitFlag, executed, late, cbVars, pollVars>>

LoopEraseAll ==
  /\ loopPc = "erase"
  /\ messages' = <<>>
  /\ loopPc' = "next"
  /\ UNCHANGED <<mutex, dying, mainPc, exitFlag, executed, late, cbVars, pollVars>>

LoopErase ==
  /\ loopPc = "erase"
  /\ messages' = Tail(messages)
  /\ loopPc' = "next"
  /\ UNCHANGED <<mutex, dying, mainPc, exitFlag, executed, late, cbVars, pollVars>>

LoopUnlock ==
  /\ loopPc = "unlock"
  /\ Release
  /\ loopPc' = "until"
  /\ UNCHANGED <<messages, dying, mainPc, exitFlag, executed, late, cbVars, pollVars>>

\* Faulty: PA_IsProcessDying() not asked.
LoopUntilFlagOnly ==
  /\ loopPc = "until"
  /\ loopPc' = IF exitFlag THEN "done" ELSE "size"
  /\ UNCHANGED <<mutex, messages, dying, mainPc, exitFlag, executed, late, cbVars, pollVars>>

\* while ((!websocket_event_queue_exit) & !PA_IsProcessDying())
LoopUntil ==
  /\ loopPc = "until"
  /\ loopPc' = IF exitFlag \/ dying THEN "done" ELSE "size"
  /\ UNCHANGED <<mutex, messages, dying, mainPc, exitFlag, executed, late, cbVars, pollVars>>

LoopStep == \/ LoopStart \/ LoopSize \/ LoopTryLock \/ LoopDrained \/ LoopExecute
            \/ LoopSkip \/ LoopReturn \/ LoopErase \/ LoopUnlock \/ LoopUntil

(***************************************************************************)
(* websocket_client_messages and websocket_server_messages.                *)
(***************************************************************************)

PollBegin(p, e) ==
  /\ pollPc[p] = "idle"
  /\ mainPc = "running"
  /\ pollPc' = [pollPc EXCEPT ![p] = "tryLock"]
  /\ pollFor' = [pollFor EXCEPT ![p] = e]
  /\ UNCHANGED <<mutex, messages, dying, mainPc, loopVars, cbVars, pollAt, pollResult>>

\* When the list is busy the command returns an empty collection.
PollTryLock(p) ==
  /\ pollPc[p] = "tryLock"
  /\ \/ /\ Acquire(p)
        /\ pollPc' = [pollPc EXCEPT ![p] = "scan"]
     \/ /\ mutex # NoThread
        /\ pollPc' = [pollPc EXCEPT ![p] = "idle"]
        /\ UNCHANGED mutex
  /\ UNCHANGED <<messages, dying, mainPc, loopVars, cbVars, pollFor, pollAt, pollResult>>

Matches(m, e) == m.ep = e

PollScan(p) ==
  /\ pollPc[p] = "scan"
  /\ IF pollAt[p] <= Len(messages)
     THEN /\ pollAt' = [pollAt EXCEPT ![p] = @ + 1]
          /\ pollResult' = IF Matches(messages[pollAt[p]], pollFor[p])
                           THEN [pollResult EXCEPT ![p] = Append(@, messages[pollAt[p]])]
                           ELSE pollResult
          /\ UNCHANGED pollPc
     ELSE /\ pollPc' = [pollPc EXCEPT ![p] = "unlock"]
          /\ UNCHANGED <<pollAt, pollResult>>
  /\ UNCHANGED <<mutex, messages, dying, mainPc, loopVars, cbVars, pollFor>>

\* The command returns its collection; its iterator and collection end with it.
PollUnlock(p) ==
  /\ pollPc[p] = "unlock"
  /\ Release
  /\ pollPc' = [pollPc EXCEPT ![p] = "idle"]
  /\ pollAt' = [pollAt EXCEPT ![p] = 1]
  /\ pollResult' = [pollResult EXCEPT ![p] = <<>>]
  /\ UNCHANGED <<messages, dying, mainPc, loopVars, cbVars, pollFor>>

Poll(p) == PollTryLock(p) \/ PollScan(p) \/ PollUnlock(p)

(***************************************************************************)
(* The host quits; OnExit in the main process.                             *)
(***************************************************************************)

\* The host asks its processes to end.
HostKillsProcess ==
  /\ ~dying
  /\ dying' = TRUE
  /\ UNCHANGED <<mutex, messages, mainPc, loopVars, cbVars, pollVars>>

\* The host's contract: kDeinitPlugin "is too late to signal a process launched
\* with PA_NewProcess", because the processes have ended by then.
ProcessesEnded == loopPc = "done" /\ \A p \in Pollers : pollPc[p] = "idle"

\* delete event_queue: the exit flag is set for a loop that has ended.
DeleteEventQueue ==
  /\ mainPc = "running"
  /\ ProcessesEnded
  /\ EndpointsStoppedFirst => \A t \in CallbackThreads : cbPc[t] = "idle"
  /\ exitFlag' = TRUE
  /\ mainPc' = "deleteList"
  /\ UNCHANGED <<mutex, messages, dying, loopPc, executed, late, cbVars, pollVars>>

\* ~websocket_message_list calls clear(), which takes no message_list_mutex.
DeleteMessageList ==
  /\ mainPc = "deleteList"
  /\ mainPc' = "clear"
  /\ UNCHANGED <<mutex, messages, dying, loopVars, cbVars, pollVars>>

\* One erase of clear(), or its final messages.clear().
ClearList ==
  /\ mainPc = "clear"
  /\ IF messages # <<>>
     THEN messages' = Tail(messages) /\ UNCHANGED mainPc
     ELSE mainPc' = "join" /\ UNCHANGED messages
  /\ UNCHANGED <<mutex, dying, loopVars, cbVars, pollVars>>

\* clearAll of clients and servers returns when their threads have ended.
JoinThreads ==
  /\ mainPc = "join"
  /\ \A t \in CallbackThreads : cbPc[t] = "idle"
  /\ mainPc' = "done"
  /\ UNCHANGED <<mutex, messages, dying, loopVars, cbVars, pollVars>>

OnExit == DeleteEventQueue \/ DeleteMessageList \/ ClearList \/ JoinThreads

Terminated == mainPc = "done" /\ UNCHANGED vars

Next == \/ \E t \in CallbackThreads : Receive(t) \/ Callback(t)
        \/ LoopStep
        \/ \E p \in Pollers : Poll(p) \/ \E e \in Endpoints : PollBegin(p, e)
        \/ HostKillsProcess
        \/ OnExit
        \/ Terminated

Spec == Init /\ [][Next]_vars

\* Every started thread goes on, and a callback method that runs returns.  A
\* thread blocked in lock() is not passed over for ever, and the host that quits
\* ends its processes; the loop, which only tries, has no such promise.
Fairness == /\ WF_vars(LoopStep)
            /\ \A t \in CallbackThreads : SF_vars(LockForAdd(t)) /\ WF_vars(AddMessage(t))
            /\ \A p \in Pollers : WF_vars(Poll(p))
            /\ SF_vars(DeleteEventQueue)
            /\ WF_vars(OnExit)

FairSpec == Spec /\ Fairness

--------------------------------------------------------------------------------
(***************************************************************************)
(* Properties.                                                             *)
(***************************************************************************)

\* Type invariant of the message list, its threads and the histories.
TypeOK ==
  /\ mutex \in CallbackThreads \cup Pollers \cup {Loop, NoThread}
  /\ messages \in Seq(Message)
  /\ exitFlag \in BOOLEAN
  /\ dying \in BOOLEAN
  /\ loopPc \in LoopPcs
  /\ cbPc \in [CallbackThreads -> CallbackPcs]
  /\ received \in 0 .. MaxMessages
  /\ pollPc \in [Pollers -> PollPcs]
  /\ pollFor \in [Pollers -> Endpoints]
  /\ pollAt \in [Pollers -> Nat \ {0}]
  /\ pollResult \in [Pollers -> Seq(Message)]
  /\ mainPc \in MainPcs
  /\ added \in Seq(Message)
  /\ executed \in Seq(Message)
  /\ late \in Nat

\* The threads with a live iterator into the vector, or inside a member
\* function that reads or changes it (size() of the loop set aside).
ListUsers == {t \in CallbackThreads : cbPc[t] = "add"}
             \cup {t \in {Loop} : loopPc \in {"next", "run", "erase"}}
             \cup {p \in Pollers : pollPc[p] = "scan"}
             \cup {t \in {Main} : mainPc = "clear"}

\* No two threads are ever in the message list together: message_list_mutex
\* is "for message_list; also used indirectly via event_queue".
NoListRace == \A s, t \in ListUsers : s = t

Erased == Len(added) - Len(messages)

\* The list always holds exactly the newest of the messages ever added, in the
\* order of addMessage: nothing is lost, doubled or reordered by callbacks,
\* event loop and OnExit together.
ListIsSuffixOfAdded ==
  /\ \A i \in 1 .. Len(added) : added[i].id = i
  /\ Len(messages) <= Len(added)
  /\ \A i \in 1 .. Len(messages) : messages[i] = added[Erased + i]

\* The loop calls methods for messages that were added, as they were added, in
\* the order of arrival and never twice, even when it stops half-way because
\* the process is dying and leaves the message it just handled in the list.
ExecutedInOrderOnce ==
  /\ \A i \in 1 .. Len(executed) :
       /\ executed[i].id \in 1 .. Len(added)
       /\ executed[i] = added[executed[i].id]
       /\ Callable(executed[i])
  /\ \A i, j \in 1 .. Len(executed) : i < j => executed[i].id < executed[j].id

\* A message whose method exists leaves the list only after its method was
\* called, until OnExit clears what the loop did not handle.
NoneSkipped ==
  mainPc \in {"running", "deleteList"} =>
    \A i \in 1 .. Erased :
      Callable(added[i]) => \E j \in 1 .. Len(executed) : executed[j] = added[i]

\* While the loop is not being killed, what a messages command returns has not
\* been handed to a method yet: a message being handled is never visible.
PolledNotYetHandled ==
  \A p \in Pollers : pollPc[p] = "unlock" /\ ~dying =>
    \A i \in 1 .. Len(pollResult[p]), j \in 1 .. Len(executed) :
      pollResult[p][i] # executed[j]

\* Once the event-queue process is being killed, at most one more method call
\* begins, however many messages wait.
AtMostOneLateCall == late <= 1

\* From some moment on each round of the loop meets a busy list, for ever.
Starved == <>[](mutex # Loop) /\ []<>(loopPc = "tryLock" /\ mutex # NoThread)

\* Every message leaves the list, or the event-queue process has ended, unless
\* callbacks and polls starve the loop, which only tries the mutex: nothing else,
\* an unknown method for one, keeps a message waiting for ever.
EveryMessageHandled ==
  \/ Starved
  \/ \A i \in 1 .. MaxMessages :
       (Len(added) >= i) ~> (Erased >= i \/ loopPc = "done")

\* A callback that entered the mutex queue returns to the network library: the
\* loop does not keep the mutex for ever, not even when it stops half-way.
CallbackReturns == \A t \in CallbackThreads : (cbPc[t] = "lock") ~> (cbPc[t] = "idle")

\* A process that is being killed ends, wherever its loop was, and OnExit
\* then runs to its end.
QuitEnds == dying ~> (loopPc = "done" /\ mainPc = "done")

(***************************************************************************)
(* The list implements the event stream.                                   *)
(***************************************************************************)

\* The first message of the list was handed over and is not erased yet.
HeadTaken == messages # <<>> /\ executed # <<>> /\ executed[Len(executed)].id > Erased

Stream == INSTANCE EventStream
            WITH pending <- IF HeadTaken THEN Tail(messages) ELSE messages,
                 arrived <- Len(added),
                 closed  <- mainPc \notin {"running", "deleteList"}

\* Threads, mutex and half-done erasures together behave as the event stream.
ImplementsStream == Stream!Spec
================================================================================
