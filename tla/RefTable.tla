-------------------------------- MODULE RefTable --------------------------------
(***************************************************************************)
(* The table of websocket_server_ref (and, line for line, of               *)
(* websocket_client_ref): numbers handed to 4D code, the objects behind    *)
(* them, the commands that use a number, and the network thread of each    *)
(* object, whose callbacks look the object up by its number.               *)
(*                                                                         *)
(* The constructor, clear and clearAll hold the ref mutex; ref and find    *)
(* take no lock ("it will creata a dead lock").  delete stops the object   *)
(* and joins its thread, which may be waiting for message_list_mutex, which*)
(* the event-queue process holds while it runs 4D code.                    *)
(*                                                                         *)
(* Server numbers are -1, -2, ...; the model keeps their absolute value.   *)
(* Freed memory is never given to a new object, so that a stale pointer is *)
(* told from a valid one.                                                  *)
(***************************************************************************)
EXTENDS Naturals

CONSTANTS
  Processes,      \* 4D processes that run commands
  Main,           \* the main process, which runs OnExit
  Loop,           \* the event-queue process
  Objects,        \* websocket refs that may ever be allocated
  None,           \* no object
  NoThread,       \* owner of a free mutex
  MaxId,          \* bound: numbers of refs
  Strays,         \* numbers that 4D code passes though no ref ever had them
  HandlesPrivate  \* TRUE: a process uses only refs it made and did not clear

ASSUME RefConstants ==
  /\ {Main, Loop, NoThread} \cap (Processes \cup Objects) = {}
  /\ Processes \cap Objects = {}
  /\ Main # Loop /\ Main # NoThread /\ Loop # NoThread
  /\ None \notin Objects
  /\ MaxId \in Nat
  /\ Strays \subseteq {0}
  /\ HandlesPrivate \in BOOLEAN

Ids == 1 .. MaxId
Callers == Processes \cup {Loop}
Actors == Callers \cup {Main}

VARIABLES
  table,       \* websocket_server_list: number -> object or None
  idOf,        \* _id of each object, 0 before it has one
  phase,       \* life of each object
  refMutex,    \* owner of websocket_server_ref_mutex
  msgMutex,    \* owner of message_list_mutex
  pc, arg, obj,            \* per actor: step, number and object of its command
  again,                   \* per actor: what its second look-up found
  handles,                 \* per process: <<number, object>> it made and kept
  thr, closing, netRef,    \* per object: its network thread
  stopReq,                 \* per object: stop() was called
  quietDrop                \* history: an event was lost with no race to blame

tableVars == <<table, idOf, phase, refMutex>>
cmdVars   == <<pc, arg, obj, again, handles>>
netVars   == <<thr, closing, netRef, quietDrop>>
vars == <<tableVars, msgMutex, cmdVars, netVars, stopReq>>

Phases == {"unused", "made", "live", "freed"}
CmdPcs == {"idle", "ctor", "insert", "bind", "send", "startAgain", "stopAgain", "start",
           "stop", "join", "clear", "clearJoin", "clearFree", "clearErase", "clearMiss",
           "all", "allJoin", "exited", "crashed"}
NetPcs == {"none", "running", "lookup", "use", "wait", "capture", "add"}

Init ==
  /\ table = [i \in Ids |-> None]
  /\ idOf = [o \in Objects |-> 0]
  /\ phase = [o \in Objects |-> "unused"]
  /\ refMutex = NoThread
  /\ msgMutex = NoThread
  /\ pc = [p \in Actors |-> "idle"]
  /\ arg = [p \in Actors |-> 0]
  /\ obj = [p \in Actors |-> None]
  /\ again = [p \in Actors |-> None]
  /\ handles = [p \in Actors |-> {}]
  /\ thr = [o \in Objects |-> "none"]
  /\ closing = [o \in Objects |-> FALSE]
  /\ netRef = [o \in Objects |-> None]
  /\ stopReq = [o \in Objects |-> FALSE]
  /\ quietDrop = FALSE

Goto(p, l) == pc' = [pc EXCEPT ![p] = l]

\* A command is over; its number and pointers are gone with its stack frame.
Return(p) == /\ Goto(p, "idle")
             /\ arg' = [arg EXCEPT ![p] = 0]
             /\ obj' = [obj EXCEPT ![p] = None]
             /\ again' = [again EXCEPT ![p] = None]
Lock(p) == refMutex = NoThread /\ refMutex' = p
Unlock == refMutex' = NoThread

\* While another thread is inside insert or erase, an unlocked find on the
\* map may miss an entry.
Writing(p) == pc[p] \in {"insert", "clearErase"}
Racing(t) == \E p \in Actors \ {t} : Writing(p)
Found(t, i) == IF Racing(t) THEN {table[i], None} ELSE {table[i]}

\* Faulty: commands also run in the event-queue process.
ObjectAlways(p) == p \in Actors

\* PA_CreateObject() fails in a process made with PA_NewProcess, and every
\* command then returns at once; 4D code runs there under message_list_mutex.
ObjectCreated(p) == p # Loop

MayBegin(p) == /\ pc[p] = "idle"
               /\ pc[Main] = "idle"
               /\ p = Loop => msgMutex = Loop
               /\ ObjectCreated(p)

\* The map searched under the mutex.  0 is never given out, but 4D code may
\* pass it: ob_get_n returns 0 for an object without a ref.
Entry(i) == IF i = 0 THEN None ELSE table[i]

\* Numbers that a caller may pass.
Handles(p) == IF HandlesPrivate THEN {h[1] : h \in handles[p]} ELSE Ids

(***************************************************************************)
(* websocket_server and websocket_client: make a ref.                      *)
(***************************************************************************)

New(p, o) ==
  /\ MayBegin(p)
  /\ phase[o] = "unused"
  /\ phase' = [phase EXCEPT ![o] = "made"]
  /\ obj' = [obj EXCEPT ![p] = o]
  /\ Goto(p, "ctor")
  /\ UNCHANGED <<table, idOf, refMutex, msgMutex, arg, again, handles, netVars, stopReq>>

LowestFree(i) == table[i] = None /\ \A j \in Ids : j < i => table[j] # None

\* Faulty: the number is chosen without the mutex.
CtorUnlocked(p) ==
  /\ pc[p] = "ctor"
  /\ \E i \in Ids : /\ LowestFree(i)
                    /\ arg' = [arg EXCEPT ![p] = i]
                    /\ idOf' = [idOf EXCEPT ![obj[p]] = i]
  /\ Goto(p, "insert")
  /\ UNCHANGED <<table, phase, refMutex, msgMutex, obj, again, handles, netVars, stopReq>>

CtorLock(p) ==
  /\ pc[p] = "ctor"
  /\ Lock(p)
  /\ \E i \in Ids : /\ LowestFree(i)
                    /\ arg' = [arg EXCEPT ![p] = i]
                    /\ idOf' = [idOf EXCEPT ![obj[p]] = i]
  /\ Goto(p, "insert")
  /\ UNCHANGED <<table, phase, msgMutex, obj, again, handles, netVars, stopReq>>

CtorInsert(p) ==
  /\ pc[p] = "insert"
  /\ table' = [table EXCEPT ![arg[p]] = obj[p]]
  /\ phase' = [phase EXCEPT ![obj[p]] = "live"]
  /\ Unlock
  /\ Goto(p, "bind")
  /\ UNCHANGED <<idOf, msgMutex, arg, obj, again, handles, netVars, stopReq>>

\* find(ref)->setOnConnectionCallback(...): the result of find is not tested.
Bind(p) ==
  /\ pc[p] = "bind"
  /\ \E o \in Found(p, arg[p]) :
       IF o = None
       THEN Goto(p, "crashed") /\ UNCHANGED <<arg, obj, again, handles>>
       ELSE /\ handles' = [handles EXCEPT ![p] = @ \cup {<<arg[p], o>>}]
            /\ Return(p)
  /\ UNCHANGED <<tableVars, msgMutex, netVars, stopReq>>

(***************************************************************************)
(* Commands on a ref: find it without a lock, then use the pointer.  start *)
(* and stop look it up a second time, for setParams.                       *)
(***************************************************************************)

\* Faulty: the pointer is not tested.
LookUpUntested(p, i, command) ==
  /\ MayBegin(p)
  /\ i \in Handles(p)
  /\ \E o \in Found(p, i) : obj' = [obj EXCEPT ![p] = o]
  /\ arg' = [arg EXCEPT ![p] = i]
  /\ Goto(p, command)
  /\ UNCHANGED <<tableVars, msgMutex, again, handles, netVars, stopReq>>

\* ptr(param) in send, get(param) in start and stop; a number that is not in the
\* table ends the command.
LookUp(p, i, command) ==
  /\ MayBegin(p)
  /\ i \in Handles(p)
  /\ \E o \in Found(p, i) :
       /\ o # None
       /\ obj' = [obj EXCEPT ![p] = o]
  /\ arg' = [arg EXCEPT ![p] = i]
  /\ Goto(p, command)
  /\ UNCHANGED <<tableVars, msgMutex, again, handles, netVars, stopReq>>

\* ptr(param) after get(param): its result is tested and may differ.
LookUpAgain(p) ==
  /\ pc[p] \in {"startAgain", "stopAgain"}
  /\ \E r \in Found(p, arg[p]) : again' = [again EXCEPT ![p] = r]
  /\ Goto(p, IF pc[p] = "startAgain" THEN "start" ELSE "stop")
  /\ UNCHANGED <<tableVars, msgMutex, arg, obj, handles, netVars, stopReq>>

\* setParams, then send; or a look at the clients or at the id.
Send(p) ==
  /\ pc[p] = "send"
  /\ Return(p)
  /\ UNCHANGED <<tableVars, msgMutex, handles, netVars, stopReq>>

\* setParams on what was found again, if anything; then start() makes the network
\* thread, unless listen or connect failed or the object has a thread already.
Start(p) ==
  /\ pc[p] = "start"
  /\ \/ /\ thr[obj[p]] = "none" /\ ~stopReq[obj[p]]
        /\ thr' = [thr EXCEPT ![obj[p]] = "running"]
     \/ UNCHANGED thr
  /\ Return(p)
  /\ UNCHANGED <<tableVars, msgMutex, handles, closing, netRef, quietDrop, stopReq>>

\* setParams and getParams on what was found again, if anything; then stop().
Stop(p) ==
  /\ pc[p] = "stop"
  /\ stopReq' = [stopReq EXCEPT ![obj[p]] = TRUE]
  /\ again' = [again EXCEPT ![p] = None]
  /\ Goto(p, "join")
  /\ UNCHANGED <<tableVars, msgMutex, arg, obj, handles, netVars>>

\* stop() returns when the network thread has ended.
Join(p) ==
  /\ pc[p] = "join"
  /\ thr[obj[p]] = "none"
  /\ stopReq' = [stopReq EXCEPT ![obj[p]] = FALSE]
  /\ Return(p)
  /\ UNCHANGED <<tableVars, msgMutex, handles, netVars>>

(***************************************************************************)
(* websocket_server_clear and websocket_client_clear.                      *)
(***************************************************************************)

Forget(p, i) == handles' = [handles EXCEPT ![p] = {h \in @ : h[1] # i}]

Clear(p, i) ==
  /\ MayBegin(p)
  /\ i \in Handles(p) \cup Strays
  /\ arg' = [arg EXCEPT ![p] = i]
  /\ Forget(p, i)
  /\ Goto(p, "clear")
  /\ UNCHANGED <<tableVars, msgMutex, obj, again, netVars, stopReq>>

\* Faulty: the entry is erased before the object is deleted.
ClearLockErasing(p) ==
  /\ pc[p] = "clear"
  /\ Lock(p)
  /\ LET o == Entry(arg[p]) IN
       IF o = None
       THEN Goto(p, "clearMiss") /\ UNCHANGED <<table, obj, stopReq>>
       ELSE /\ obj' = [obj EXCEPT ![p] = o]
            /\ table' = [table EXCEPT ![arg[p]] = None]
            /\ stopReq' = [stopReq EXCEPT ![o] = TRUE]
            /\ Goto(p, "clearJoin")
  /\ UNCHANGED <<idOf, phase, msgMutex, arg, again, handles, netVars>>

\* Under the mutex: find the entry, and delete the object: its destructor
\* stops it first.
ClearLock(p) ==
  /\ pc[p] = "clear"
  /\ Lock(p)
  /\ LET o == Entry(arg[p]) IN
       IF o = None
       THEN Goto(p, "clearMiss") /\ UNCHANGED <<obj, stopReq>>
       ELSE /\ obj' = [obj EXCEPT ![p] = o]
            /\ stopReq' = [stopReq EXCEPT ![o] = TRUE]
            /\ Goto(p, "clearJoin")
  /\ UNCHANGED <<table, idOf, phase, msgMutex, arg, again, handles, netVars>>

ClearMiss(p) ==
  /\ pc[p] = "clearMiss"
  /\ Unlock
  /\ Return(p)
  /\ UNCHANGED <<table, idOf, phase, msgMutex, handles, netVars, stopReq>>

\* Faulty: the object is deleted while its thread runs.
ClearUnstopped(p) ==
  /\ pc[p] = "clearJoin"
  /\ Goto(p, "clearFree")
  /\ UNCHANGED <<tableVars, msgMutex, arg, obj, again, handles, netVars, stopReq>>

ClearJoin(p) ==
  /\ pc[p] = "clearJoin"
  /\ thr[obj[p]] = "none"
  /\ Goto(p, "clearFree")
  /\ UNCHANGED <<tableVars, msgMutex, arg, obj, again, handles, netVars, stopReq>>

\* Faulty: the mutex is given up before the entry is erased.
ClearFreeUnlocking(p) ==
  /\ pc[p] = "clearFree"
  /\ phase' = [phase EXCEPT ![obj[p]] = "freed"]
  /\ Unlock
  /\ Goto(p, "clearErase")
  /\ UNCHANGED <<table, idOf, msgMutex, arg, obj, again, handles, netVars, stopReq>>

ClearFree(p) ==
  /\ pc[p] = "clearFree"
  /\ phase' = [phase EXCEPT ![obj[p]] = "freed"]
  /\ Goto(p, "clearErase")
  /\ UNCHANGED <<table, idOf, refMutex, msgMutex, arg, obj, again, handles, netVars, stopReq>>

ClearErase(p) ==
  /\ pc[p] = "clearErase"
  /\ table' = [table EXCEPT ![arg[p]] = None]
  /\ Unlock
  /\ Return(p)
  /\ UNCHANGED <<idOf, phase, msgMutex, handles, netVars, stopReq>>

Command(p) == \/ CtorLock(p) \/ CtorInsert(p) \/ Bind(p)
              \/ LookUpAgain(p) \/ Send(p) \/ Start(p) \/ Stop(p) \/ Join(p)
              \/ ClearLock(p) \/ ClearMiss(p) \/ ClearJoin(p) \/ ClearFree(p) \/ ClearErase(p)

(***************************************************************************)
(* OnExit: clearAll, when the host has ended the other processes.          *)
(***************************************************************************)

Left(i) == table[i] # None /\ phase[table[i]] = "live"

ClearAll ==
  /\ pc[Main] = "idle"
  /\ \A p \in Callers : pc[p] \in {"idle", "crashed"}
  /\ msgMutex # Loop
  /\ Lock(Main)
  /\ Goto(Main, "all")
  /\ UNCHANGED <<table, idOf, phase, msgMutex, arg, obj, again, handles, netVars, stopReq>>

ClearAllStop ==
  /\ pc[Main] = "all"
  /\ \E i \in Ids : /\ Left(i)
                    /\ obj' = [obj EXCEPT ![Main] = table[i]]
                    /\ stopReq' = [stopReq EXCEPT ![table[i]] = TRUE]
  /\ Goto(Main, "allJoin")
  /\ UNCHANGED <<tableVars, msgMutex, arg, again, handles, netVars>>

ClearAllFree ==
  /\ pc[Main] = "allJoin"
  /\ thr[obj[Main]] = "none"
  /\ phase' = [phase EXCEPT ![obj[Main]] = "freed"]
  /\ Goto(Main, "all")
  /\ UNCHANGED <<table, idOf, refMutex, msgMutex, arg, obj, again, handles, netVars, stopReq>>

ClearAllDone ==
  /\ pc[Main] = "all"
  /\ \A i \in Ids : ~Left(i)
  /\ table' = [i \in Ids |-> None]
  /\ Unlock
  /\ Goto(Main, "exited")
  /\ UNCHANGED <<idOf, phase, msgMutex, arg, obj, again, handles, netVars, stopReq>>

ExitStep == ClearAllStop \/ ClearAllFree \/ ClearAllDone

(***************************************************************************)
(* The network thread of an object, and the event-queue process.           *)
(***************************************************************************)

\* An event: after stop() the last one is the close event.
NetEvent(o) ==
  /\ thr[o] = "running"
  /\ thr' = [thr EXCEPT ![o] = "lookup"]
  /\ closing' = [closing EXCEPT ![o] = stopReq[o]]
  /\ UNCHANGED <<tableVars, msgMutex, cmdVars, netRef, stopReq, quietDrop>>

\* The callback returns to the network library; the close event is the last.
NetReturn(o) == /\ thr' = [thr EXCEPT ![o] = IF closing[o] THEN "none" ELSE "running"]
                /\ closing' = [closing EXCEPT ![o] = FALSE]
                /\ netRef' = [netRef EXCEPT ![o] = None]

\* Faulty: ref takes the ref mutex.
NetLookUpLocked(o) ==
  /\ thr[o] = "lookup"
  /\ refMutex = NoThread
  /\ thr' = [thr EXCEPT ![o] = "use"]
  /\ netRef' = [netRef EXCEPT ![o] = table[idOf[o]]]
  /\ UNCHANGED <<tableVars, msgMutex, cmdVars, closing, stopReq, quietDrop>>

\* ref(i) at the head of every callback; no ref, no message.
NetLookUp(o) ==
  /\ thr[o] = "lookup"
  /\ \E r \in Found(o, idOf[o]) :
       /\ quietDrop' = (quietDrop \/ (r = None /\ ~Racing(o)))
       /\ IF r = None
          THEN NetReturn(o)
          ELSE /\ thr' = [thr EXCEPT ![o] = "use"]
               /\ netRef' = [netRef EXCEPT ![o] = r]
               /\ UNCHANGED closing
  /\ UNCHANGED <<tableVars, msgMutex, cmdVars, stopReq>>

\* findClient, getWindow and getProcess; then wait for the list.
NetUse(o) ==
  /\ thr[o] = "use"
  /\ thr' = [thr EXCEPT ![o] = "wait"]
  /\ netRef' = [netRef EXCEPT ![o] = None]
  /\ UNCHANGED <<tableVars, msgMutex, cmdVars, closing, stopReq, quietDrop>>

\* Faulty: addMessage takes the ref mutex for its look-up.
NetLockBoth(o) ==
  /\ thr[o] = "wait"
  /\ msgMutex = NoThread
  /\ refMutex = NoThread
  /\ msgMutex' = o
  /\ netRef' = [netRef EXCEPT ![o] = table[idOf[o]]]
  /\ thr' = [thr EXCEPT ![o] = "capture"]
  /\ UNCHANGED <<tableVars, cmdVars, closing, stopReq, quietDrop>>

\* addMessage under the mutex looks the ref up again.
NetLock(o) ==
  /\ thr[o] = "wait"
  /\ msgMutex = NoThread
  /\ msgMutex' = o
  /\ \E r \in Found(o, idOf[o]) :
       /\ netRef' = [netRef EXCEPT ![o] = r]
       /\ quietDrop' = (quietDrop \/ (r = None /\ ~Racing(o)))
       /\ thr' = [thr EXCEPT ![o] = IF r = None THEN "add" ELSE "capture"]
  /\ UNCHANGED <<tableVars, cmdVars, closing, stopReq>>

\* The worker and method of the ref go into the message.
NetCapture(o) ==
  /\ thr[o] = "capture"
  /\ thr' = [thr EXCEPT ![o] = "add"]
  /\ UNCHANGED <<tableVars, msgMutex, cmdVars, closing, netRef, stopReq, quietDrop>>

NetAdd(o) ==
  /\ thr[o] = "add"
  /\ msgMutex' = NoThread
  /\ NetReturn(o)
  /\ UNCHANGED <<tableVars, cmdVars, stopReq, quietDrop>>

NetStep(o) == \/ NetLookUp(o) \/ NetUse(o) \/ NetCapture(o) \/ NetAdd(o)

\* The loop holds the list while it runs callback methods.
LoopLock ==
  /\ pc[Main] = "idle"
  /\ msgMutex = NoThread
  /\ msgMutex' = Loop
  /\ UNCHANGED <<tableVars, cmdVars, netVars, stopReq>>

LoopUnlock ==
  /\ msgMutex = Loop
  /\ pc[Loop] = "idle"
  /\ msgMutex' = NoThread
  /\ UNCHANGED <<tableVars, cmdVars, netVars, stopReq>>

Terminated == pc[Main] = "exited" /\ UNCHANGED vars

Next ==
  \/ \E p \in Callers :
       \/ \E o \in Objects : New(p, o)
       \/ \E i \in Ids, c \in {"send", "startAgain", "stopAgain"} : LookUp(p, i, c)
       \/ \E i \in Ids \cup Strays : Clear(p, i)
       \/ Command(p)
  \/ ClearAll \/ ExitStep
  \/ \E o \in Objects : NetEvent(o) \/ NetStep(o) \/ NetLock(o)
  \/ LoopLock
  \/ LoopUnlock
  \/ Terminated

Spec == Init /\ [][Next]_vars

\* Threads that can go on do; a stopped network thread reports its close event;
\* and a callback that blocks in lock() is not passed over for ever, however
\* often the loop and other callbacks take the mutex.
Fairness ==
  /\ \A p \in Callers : WF_vars(Command(p))
  /\ \A o \in Objects : /\ WF_vars(NetStep(o))
                        /\ WF_vars(NetEvent(o) /\ stopReq[o])
                        /\ SF_vars(NetLock(o))
  /\ WF_vars(ExitStep)
  /\ WF_vars(LoopUnlock)

FairSpec == Spec /\ Fairness

--------------------------------------------------------------------------------
(***************************************************************************)
(* Properties.                                                             *)
(***************************************************************************)

\* Steps of a command that use its pointer.
Pointing == {"ctor", "insert", "send", "startAgain", "stopAgain", "start", "stop", "join",
             "clearJoin", "clearFree", "clearErase", "allJoin"}

\* Type invariant of the table, the commands and the network threads; a command
\* that goes on has a pointer.
TypeOK ==
  /\ table \in [Ids -> Objects \cup {None}]
  /\ idOf \in [Objects -> Ids \cup {0}]
  /\ phase \in [Objects -> Phases]
  /\ refMutex \in Actors \cup {NoThread}
  /\ msgMutex \in Objects \cup {Loop, NoThread}
  /\ pc \in [Actors -> CmdPcs]
  /\ arg \in [Actors -> Ids \cup {0}]
  /\ obj \in [Actors -> Objects \cup {None}]
  /\ again \in [Actors -> Objects \cup {None}]
  /\ handles \in [Actors -> SUBSET (Ids \X Objects)]
  /\ thr \in [Objects -> NetPcs]
  /\ closing \in [Objects -> BOOLEAN]
  /\ netRef \in [Objects -> Objects \cup {None}]
  /\ stopReq \in [Objects -> BOOLEAN]
  /\ quietDrop \in BOOLEAN
  /\ \A p \in Actors : pc[p] \in Pointing => obj[p] # None

\* Every ref that is alive is found under its own number and no two share one;
\* an entry outlives its object only while the actor that deletes it holds the
\* ref mutex.  While 4D processes keep their refs to themselves, a number names
\* the same object until its owner clears it.
TableSound ==
  /\ \A o \in Objects : phase[o] = "live" => idOf[o] \in Ids /\ table[idOf[o]] = o
  /\ \A i \in Ids : table[i] # None =>
       /\ idOf[table[i]] = i
       /\ phase[table[i]] = "freed" =>
            \E p \in Actors : /\ refMutex = p
                              /\ \/ pc[p] = "clearErase" /\ obj[p] = table[i]
                                 \/ pc[p] \in {"all", "allJoin"}
  /\ HandlesPrivate /\ pc[Main] = "idle" =>
       \A p \in Callers : \A h \in handles[p] : table[h[1]] = h[2] /\ phase[h[2]] = "live"

\* A callback works on the ref it belongs to, never on a freed one and never on
\* a newer ref that was given the same number.
CallbackRefAlive ==
  \A o \in Objects : thr[o] \in {"use", "capture"} => netRef[o] = o /\ phase[o] = "live"

\* Stopping or clearing a ref loses none of its events, the close event
\* included: a callback misses its ref only when another thread writes the map
\* at that moment.
NoQuietDrop == ~quietDrop

\* A command never works on a ref that another process freed meanwhile, neither
\* through the pointer of its first look-up nor through that of its second.
CommandRefAlive ==
  \A p \in Callers :
    /\ pc[p] \in {"bind", "send", "startAgain", "stopAgain", "start", "stop", "join"} =>
         phase[obj[p]] = "live"
    /\ again[p] # None => phase[again[p]] = "live"

\* Every command returns: holding the ref mutex while network threads are
\* joined never ends in a circle with the message list and the loop.
CommandsReturn ==
  \A p \in Callers : (pc[p] # "idle") ~> (pc[p] \in {"idle", "crashed"})

\* OnExit comes to its end.
ExitReturns == (pc[Main] # "idle") ~> (pc[Main] = "exited")

\* The event-queue process gives the message list back: no 4D code that it runs
\* waits for a thread that waits for the list.
LoopGivesBack == (msgMutex = Loop) ~> (msgMutex # Loop)
================================================================================
