------------------------------ MODULE RefTableProofs ------------------------------
(***************************************************************************)
(* Theorems about RefTable.  The table is right whoever uses the refs; what *)
(* callbacks and commands find in it is proved for processes that use only *)
(* refs they made and did not clear: without that, the Shared run shows a  *)
(* command that works on a freed ref.                                      *)
(*                                                                         *)
(* find and ref take no lock.  What keeps them right is that a number is   *)
(* held by one process at most, from the constructor to the erase, and     *)
(* that an entry is erased under the mutex after its object's thread ended:*)
(* the inductive invariant says who holds which number at each step.       *)
(***************************************************************************)
EXTENDS RefTable, TLAPS

TypeInv ==
  /\ table \in [Ids -> Objects \cup {None}]
  /\ idOf \in [Objects -> Ids \cup {0}]
  /\ phase \in [Objects -> Phases]
  /\ refMutex \in Actors \cup {NoThread}
  /\ msgMutex \in Objects \cup {Loop, NoThread}
  /\ pc \in [Actors -> CmdPcs]
  /\ arg \in [Actors -> Ids \cup {0}]
  /\ obj \in [Actors -> Objects \cup {None}]
  /\ again \in [Actors -> Objects \cup {None}]
  /\ handles \in [Actors -> SUBSET (Ids \X Objects)]
  /\ thr \in [Objects -> NetPcs]
  /\ closing \in [Objects -> BOOLEAN]
  /\ netRef \in [Objects -> Objects \cup {None}]
  /\ stopReq \in [Objects -> BOOLEAN]
  /\ quietDrop \in BOOLEAN

\* A number and its object: found in the table, and alive.
Live(i, o) == i \in Ids /\ o \in Objects /\ table[i] = o /\ phase[o] = "live"

\* Who deletes the object of an entry that is freed already.
Deleting(o) == \/ \E p \in Callers : pc[p] = "clearErase" /\ obj[p] = o
               \/ pc[Main] \in {"all", "allJoin"}

TableInv ==
  /\ \A o \in Objects : phase[o] = "live" => idOf[o] \in Ids /\ table[idOf[o]] = o
  /\ \A i \in Ids : table[i] # None => /\ idOf[table[i]] = i
                                       /\ phase[table[i]] \in {"live", "freed"}
                                       /\ phase[table[i]] = "freed" => Deleting(table[i])

MutexInv ==
  \A p \in Actors :
    pc[p] \in {"insert", "clearMiss", "clearJoin", "clearFree", "clearErase", "all", "allJoin"} =>
      refMutex = p

\* The steps at which a process holds the number of its command, besides those
\* in handles.
Holding == {"bind", "clear", "clearJoin", "clearFree", "clearErase"}
Holds(p, i) == (\E o \in Objects : <<i, o>> \in handles[p]) \/ (pc[p] \in Holding /\ arg[p] = i)

\* No two processes hold a number, and none holds it twice.
HoldInv ==
  /\ \A p, q \in Callers, i \in Ids : Holds(p, i) /\ Holds(q, i) => p = q
  /\ \A p \in Callers : pc[p] \in Holding => \A o \in Objects : <<arg[p], o>> \notin handles[p]

\* What is known at each step of a command.
Known(p) ==
  /\ pc[p] \in CmdPcs \ {"all", "allJoin", "exited"}
  /\ pc[p] \in {"ctor", "insert"} => obj[p] \in Objects /\ phase[obj[p]] = "made"
  /\ pc[p] = "insert" =>
       arg[p] \in Ids /\ idOf[obj[p]] = arg[p] /\ table[arg[p]] = None
  /\ pc[p] \in {"bind", "clearJoin", "clearFree"} => Live(arg[p], obj[p])
  /\ pc[p] \in {"send", "startAgain", "stopAgain", "start", "stop", "join"} =>
       <<arg[p], obj[p]>> \in handles[p]
  /\ again[p] # None => again[p] = obj[p] /\ pc[p] \in {"start", "stop"}
  /\ pc[p] = "clear" /\ arg[p] # 0 => Live(arg[p], table[arg[p]])
  /\ pc[p] = "clearFree" => thr[obj[p]] = "none"
  /\ pc[p] = "clearErase" => /\ arg[p] \in Ids /\ obj[p] \in Objects
                             /\ table[arg[p]] = obj[p] /\ phase[obj[p]] = "freed"
  /\ pc[Main] = "idle" => \A i \in Ids, o \in Objects : <<i, o>> \in handles[p] => Live(i, o)

CommandInv ==
  /\ \A p \in Callers : Known(p)
  /\ \A p, q \in Callers : (/\ pc[p] \in {"ctor", "insert"} /\ pc[q] \in {"ctor", "insert"}
                            /\ obj[p] = obj[q]) => p = q

MainInv ==
  /\ pc[Main] \in {"idle", "all", "allJoin", "exited"}
  /\ pc[Main] # "idle" => \A p \in Callers : pc[p] \in {"idle", "crashed"}
  /\ pc[Main] = "allJoin" => obj[Main] \in Objects /\ phase[obj[Main]] = "live"

\* A network thread runs only while its object is alive, and works on it.
NetInv ==
  /\ \A o \in Objects : /\ thr[o] # "none" => phase[o] = "live"
                        /\ thr[o] \in {"use", "capture"} => netRef[o] = o
  /\ ~quietDrop

Inv == TypeInv /\ TableInv /\ MutexInv /\ HoldInv /\ CommandInv /\ MainInv /\ NetInv

\* Actors are told apart from one another and from no thread.
LEMMA Distinct ==
  /\ Main \notin Callers /\ NoThread \notin Actors /\ Callers \subseteq Actors
  /\ Main \in Actors /\ Actors = Callers \cup {Main}
  /\ None \notin Objects
  /\ \A o \in Objects : o \notin Actors
  /\ 0 \notin Ids /\ Ids \subseteq Nat
BY RefConstants DEF Callers, Actors, Ids

LEMMA InitInv == Init => Inv
<1> SUFFICES ASSUME Init PROVE Inv
  OBVIOUS
<1>1. TypeInv
  BY Distinct DEF Init, TypeInv, Phases, CmdPcs, NetPcs
<1>2. TableInv /\ MutexInv /\ HoldInv /\ CommandInv
  BY Distinct DEF Init, TableInv, MutexInv, HoldInv, Holds, Holding, CommandInv, Known, CmdPcs
<1>3. MainInv /\ NetInv
  BY Distinct DEF Init, MainInv, NetInv
<1> QED BY <1>1, <1>2, <1>3 DEF Inv

(***************************************************************************)
(* Steps that leave the table, the numbers and the objects alone.          *)
(***************************************************************************)

\* Steps of network threads and of the loop.
LEMMA NetFrame ==
  ASSUME Inv, UNCHANGED <<tableVars, cmdVars>>,
         \A o \in Objects : thr[o] = "none" => thr'[o] = "none"
  PROVE  TableInv' /\ MutexInv' /\ HoldInv' /\ CommandInv' /\ MainInv'
<1> USE DEF tableVars, cmdVars
<1>1. TableInv' /\ MutexInv' /\ HoldInv' /\ MainInv'
  BY DEF Inv, TableInv, Deleting, MutexInv, HoldInv, Holds, MainInv
<1>2. CommandInv'
  <2> SUFFICES ASSUME NEW p \in Callers PROVE Known(p)'
    BY DEF Inv, CommandInv
  <2>1. Known(p)
    BY DEF Inv, CommandInv
  <2>2. pc[p] = "clearFree" => thr'[obj[p]] = "none"
    BY <2>1 DEF Known, Live
  <2> QED BY <2>1, <2>2 DEF Known, Live
<1> QED BY <1>1, <1>2

LEMMA LoopInv ==
  ASSUME Inv, LoopLock \/ LoopUnlock
  PROVE  Inv'
<1>1. TypeInv' /\ NetInv'
  BY DEF LoopLock, LoopUnlock, Inv, TypeInv, NetInv, tableVars, cmdVars, netVars
<1> QED BY <1>1, NetFrame DEF LoopLock, LoopUnlock, netVars, Inv

LEMMA NetLookUpInv ==
  ASSUME Inv, NEW o \in Objects, NetLookUp(o)
  PROVE  Inv'
<1> USE DEF Inv
<1>1. phase[o] = "live" /\ table[idOf[o]] = o /\ idOf[o] \in Ids
  BY DEF NetLookUp, NetInv, TableInv
<1>2. PICK r \in Found(o, idOf[o]) :
        /\ quietDrop' = (quietDrop \/ (r = None /\ ~Racing(o)))
        /\ IF r = None
           THEN NetReturn(o)
           ELSE /\ thr' = [thr EXCEPT ![o] = "use"]
                /\ netRef' = [netRef EXCEPT ![o] = r]
                /\ UNCHANGED closing
  BY DEF NetLookUp
<1>3. r \in {o, None} /\ (r = None => Racing(o))
  BY <1>1, Distinct DEF Found
<1>4. TypeInv'
  <2>1. /\ thr' \in [Objects -> NetPcs] /\ closing' \in [Objects -> BOOLEAN]
        /\ netRef' \in [Objects -> Objects \cup {None}]
    <3>1. CASE r = None
      BY <1>2, <3>1 DEF NetReturn, TypeInv, NetPcs
    <3>2. CASE r # None
      BY <1>2, <1>3, <3>2 DEF TypeInv, NetPcs
    <3> QED BY <3>1, <3>2
  <2>2. quietDrop' \in BOOLEAN
    BY <1>2
  <2> QED BY <2>1, <2>2 DEF NetLookUp, TypeInv, tableVars, cmdVars
<1>5. NetInv'
  <2>1. ~quietDrop' /\ UNCHANGED phase
    BY <1>2, <1>3 DEF NetLookUp, NetInv, tableVars
  <2>2. /\ thr'[o] \in {"none", "running", "use"}
        /\ thr'[o] = "use" => netRef'[o] = o
        /\ \A q \in Objects \ {o} : thr'[q] = thr[q] /\ netRef'[q] = netRef[q]
    BY <1>2, <1>3 DEF NetReturn, TypeInv
  <2> QED BY <1>1, <2>1, <2>2 DEF NetInv
<1>6. \A q \in Objects : thr[q] = "none" => thr'[q] = "none"
  BY <1>2 DEF NetLookUp, NetReturn, TypeInv
<1> QED BY <1>4, <1>5, <1>6, NetFrame DEF NetLookUp

LEMMA NetLockInv ==
  ASSUME Inv, NEW o \in Objects, NetLock(o)
  PROVE  Inv'
<1> USE DEF Inv
<1>1. phase[o] = "live" /\ table[idOf[o]] = o /\ idOf[o] \in Ids
  BY DEF NetLock, NetInv, TableInv
<1>2. PICK r \in Found(o, idOf[o]) :
        /\ netRef' = [netRef EXCEPT ![o] = r]
        /\ quietDrop' = (quietDrop \/ (r = None /\ ~Racing(o)))
        /\ thr' = [thr EXCEPT ![o] = IF r = None THEN "add" ELSE "capture"]
  BY DEF NetLock
<1>3. r \in {o, None} /\ (r = None => Racing(o))
  BY <1>1, Distinct DEF Found
<1>4. TypeInv'
  BY <1>2, <1>3 DEF NetLock, TypeInv, NetPcs, tableVars, cmdVars
<1>5. NetInv'
  BY <1>1, <1>2, <1>3, Distinct DEF NetLock, NetInv, TypeInv, tableVars
<1>6. \A q \in Objects : thr[q] = "none" => thr'[q] = "none"
  BY <1>2 DEF NetLock, TypeInv
<1> QED BY <1>4, <1>5, <1>6, NetFrame DEF NetLock

LEMMA NetStepInv ==
  ASSUME Inv, NEW o \in Objects, NetEvent(o) \/ NetUse(o) \/ NetCapture(o) \/ NetAdd(o)
  PROVE  Inv'
<1> USE DEF Inv
<1>1. TypeInv'
  BY DEF NetEvent, NetUse, NetCapture, NetAdd, NetReturn, TypeInv, NetPcs, tableVars, cmdVars
<1>2. NetInv'
  BY DEF NetEvent, NetUse, NetCapture, NetAdd, NetReturn, NetInv, TypeInv, tableVars
<1>3. \A q \in Objects : thr[q] = "none" => thr'[q] = "none"
  BY DEF NetEvent, NetUse, NetCapture, NetAdd, NetReturn, TypeInv
<1> QED BY <1>1, <1>2, <1>3, NetFrame DEF NetEvent, NetUse, NetCapture, NetAdd

(***************************************************************************)
(* Steps of commands.                                                      *)
(***************************************************************************)

\* A step of p that leaves the table and the objects alone, and takes the mutex or
\* gives it back only as its own, changes nothing for the other processes.
LEMMA OwnStep ==
  ASSUME Inv, NEW p \in Callers, UNCHANGED <<table, idOf, phase>>, NetInv',
         pc[Main] = "idle",
         refMutex' = refMutex \/ refMutex = NoThread \/ refMutex = p,
         \A q \in Actors \ {p} : /\ pc'[q] = pc[q] /\ arg'[q] = arg[q] /\ obj'[q] = obj[q]
                                 /\ again'[q] = again[q] /\ handles'[q] = handles[q],
         \A q \in Callers \ {p} : pc[q] = "clearFree" => thr'[obj[q]] = "none",
         \A i \in Ids : Holds(p, i)' => Holds(p, i),
         pc'[p] \in Holding => \A o \in Objects : <<arg'[p], o>> \notin handles'[p],
         pc'[p] \in {"insert", "clearMiss", "clearJoin", "clearFree", "clearErase"} =>
           refMutex' = p,
         pc[p] # "clearErase", pc'[p] \notin {"ctor", "insert"},
         Known(p)'
  PROVE  TableInv' /\ MutexInv' /\ HoldInv' /\ CommandInv' /\ MainInv' /\ NetInv'
<1> USE Distinct DEF Inv
<1>1. MainInv'
  BY DEF MainInv
<1>2. MutexInv'
  <2>1. pc'[p] \notin {"all", "allJoin"}
    BY DEF Known
  <2> QED BY <2>1 DEF MutexInv
<1>3. CommandInv'
  <2>1. \A q \in Callers : q # p => Known(q)'
    BY DEF CommandInv, Known, Live
  <2> QED BY <2>1 DEF CommandInv
<1>4. HoldInv'
  <2>1. \A q \in Callers, i \in Ids : Holds(q, i)' => Holds(q, i)
    BY DEF Holds
  <2>2. \A q \in Callers : pc'[q] \in Holding => \A o \in Objects :
                              <<arg'[q], o>> \notin handles'[q]
    BY DEF HoldInv
  <2> QED BY <2>1, <2>2 DEF HoldInv
<1>5. TableInv'
  <2>1. \A o : Deleting(o) => Deleting(o)'
    BY DEF Deleting
  <2> QED BY <2>1 DEF TableInv
<1> QED BY <1>1, <1>2, <1>3, <1>4, <1>5

\* The same when the network threads are left alone too.
LEMMA QuietStep ==
  ASSUME Inv, UNCHANGED <<phase, netVars>>
  PROVE  /\ NetInv'
         /\ \A q \in Callers : pc[q] = "clearFree" => thr'[obj[q]] = "none"
BY DEF Inv, NetInv, CommandInv, Known, netVars

\* What a process has in handles is alive.
LEMMA HandleLive ==
  ASSUME Inv, NEW p \in Callers, NEW h \in handles[p], pc[Main] = "idle"
  PROVE  h[1] \in Ids /\ h[2] \in Objects /\ h = <<h[1], h[2]>> /\ Live(h[1], h[2])
<1>1. h \in Ids \X Objects
  BY Distinct DEF Inv, TypeInv
<1>2. h[1] \in Ids /\ h[2] \in Objects /\ h = <<h[1], h[2]>>
  BY <1>1
<1>3. \A i \in Ids, o \in Objects : <<i, o>> \in handles[p] => Live(i, o)
  BY DEF Inv, CommandInv, Known
<1> QED BY <1>2, <1>3

\* A command that ends holds nothing but what is in handles.
LEMMA ReturnInv ==
  ASSUME Inv, NEW p \in Callers, Return(p), UNCHANGED <<tableVars, msgMutex, handles, netVars>>,
         pc[p] \in {"send", "stop", "join"},
         stopReq' \in [Objects -> BOOLEAN]
  PROVE  Inv'
<1> USE Distinct DEF Inv
<1>1. TypeInv'
  BY DEF Return, Goto, TypeInv, CmdPcs, tableVars, netVars
<1>2. /\ pc'[p] = "idle" /\ again'[p] = None
      /\ \A q \in Actors \ {p} : /\ pc'[q] = pc[q] /\ arg'[q] = arg[q] /\ obj'[q] = obj[q]
                                 /\ again'[q] = again[q] /\ handles'[q] = handles[q]
  BY DEF Return, Goto, TypeInv
<1>3. \A i \in Ids : Holds(p, i)' => Holds(p, i)
  BY <1>2 DEF Holds, Holding
<1>4. pc[Main] = "idle"
  BY DEF MainInv
<1>5. Known(p)'
  <2>1. \A i \in Ids, o \in Objects : <<i, o>> \in handles[p] => Live(i, o)
    BY <1>4 DEF CommandInv, Known
  <2> QED BY <1>2, <2>1 DEF Known, Live, CmdPcs, tableVars
<1> QED BY <1>1, <1>2, <1>3, <1>4, <1>5, QuietStep, OwnStep DEF Holding, tableVars

LEMMA SendInv ==
  ASSUME Inv, NEW p \in Callers, Send(p)
  PROVE  Inv'
BY ReturnInv DEF Send, Inv, TypeInv

LEMMA JoinInv ==
  ASSUME Inv, NEW p \in Callers, Join(p)
  PROVE  Inv'
<1>1. stopReq' \in [Objects -> BOOLEAN]
  BY DEF Join, Inv, TypeInv
<1> QED BY <1>1, ReturnInv DEF Join

LEMMA StopInv ==
  ASSUME Inv, NEW p \in Callers, Stop(p)
  PROVE  Inv'
<1> USE Distinct DEF Inv
<1>1. TypeInv'
  BY DEF Stop, Goto, TypeInv, CmdPcs, tableVars, netVars
<1>2. /\ pc[p] = "stop" /\ pc'[p] = "join" /\ UNCHANGED <<arg, obj, handles>>
      /\ again'[p] = None
      /\ \A q \in Actors \ {p} : pc'[q] = pc[q] /\ again'[q] = again[q]
  BY DEF Stop, Goto, TypeInv
<1>3. \A i \in Ids : Holds(p, i)' => Holds(p, i)
  BY <1>2 DEF Holds, Holding
<1>4. pc[Main] = "idle" /\ UNCHANGED tableVars /\ UNCHANGED netVars
  BY <1>2 DEF MainInv, Stop
<1>5. Known(p)'
  BY <1>2, <1>4 DEF CommandInv, Known, Live, CmdPcs, tableVars
<1> QED BY <1>1, <1>2, <1>3, <1>4, <1>5, QuietStep, OwnStep DEF Holding, tableVars

LEMMA LookUpInv ==
  ASSUME Inv, HandlesPrivate, NEW p \in Callers, NEW i \in Ids,
         NEW c \in {"send", "startAgain", "stopAgain"}, LookUp(p, i, c)
  PROVE  Inv'
<1> USE Distinct DEF Inv
<1>1. PICK h \in handles[p] : h[1] = i
  BY DEF LookUp, Handles
<1>2. pc[p] = "idle" /\ pc[Main] = "idle"
  BY DEF LookUp, MayBegin
<1>3. h[2] \in Objects /\ <<i, h[2]>> \in handles[p] /\ Live(i, h[2])
  BY <1>1, <1>2, HandleLive
<1>4. table[i] = h[2]
  BY <1>3 DEF Live
<1>5. /\ obj' = [obj EXCEPT ![p] = h[2]] /\ arg' = [arg EXCEPT ![p] = i]
      /\ pc' = [pc EXCEPT ![p] = c]
      /\ UNCHANGED <<tableVars, msgMutex, again, handles, netVars, stopReq>>
  BY <1>4 DEF LookUp, Found, Goto
<1>6. TypeInv'
  BY <1>3, <1>5 DEF TypeInv, CmdPcs, tableVars, netVars
<1>7. /\ pc'[p] = c /\ arg'[p] = i /\ obj'[p] = h[2]
      /\ \A q \in Actors \ {p} : pc'[q] = pc[q] /\ arg'[q] = arg[q] /\ obj'[q] = obj[q]
  BY <1>5 DEF TypeInv
<1>8. \A j \in Ids : Holds(p, j)' => Holds(p, j)
  BY <1>5, <1>7 DEF Holds, Holding
<1>9. Known(p)'
  <2>1. /\ again[p] = None
        /\ \A j \in Ids, o \in Objects : <<j, o>> \in handles[p] => Live(j, o)
    BY <1>2 DEF CommandInv, Known
  <2> QED BY <1>3, <1>5, <1>7, <2>1 DEF Known, Live, CmdPcs, tableVars
<1> QED BY <1>2, <1>5, <1>6, <1>7, <1>8, <1>9, QuietStep, OwnStep DEF Holding, tableVars

\* The second look-up finds the same object, or nothing while another writes.
LEMMA LookUpAgainInv ==
  ASSUME Inv, NEW p \in Callers, LookUpAgain(p)
  PROVE  Inv'
<1> USE Distinct DEF Inv
<1>1. /\ pc[p] \in {"startAgain", "stopAgain"} /\ pc[Main] = "idle"
      /\ UNCHANGED <<tableVars, msgMutex, arg, obj, handles, netVars, stopReq>>
      /\ pc' = [pc EXCEPT ![p] = IF pc[p] = "startAgain" THEN "start" ELSE "stop"]
  BY DEF LookUpAgain, Goto, MainInv
<1>2. <<arg[p], obj[p]>> \in handles[p]
  BY <1>1 DEF CommandInv, Known
<1>3. arg[p] \in Ids /\ obj[p] \in Objects /\ Live(arg[p], obj[p])
  BY <1>1, <1>2, HandleLive
<1>4. PICK r \in {obj[p], None} : again' = [again EXCEPT ![p] = r]
  BY <1>3 DEF LookUpAgain, Found, Live
<1>5. TypeInv'
  BY <1>1, <1>3, <1>4 DEF TypeInv, CmdPcs, tableVars, netVars
<1>6. /\ pc'[p] \in {"start", "stop"} /\ again'[p] \in {obj[p], None}
      /\ \A q \in Actors \ {p} : pc'[q] = pc[q] /\ again'[q] = again[q]
  BY <1>1, <1>4 DEF TypeInv
<1>7. \A j \in Ids : Holds(p, j)' => Holds(p, j)
  BY <1>1, <1>6 DEF Holds, Holding
<1>8. Known(p)'
  <2>1. /\ again[p] = None
        /\ \A j \in Ids, o \in Objects : <<j, o>> \in handles[p] => Live(j, o)
    BY <1>1 DEF CommandInv, Known
  <2> QED BY <1>1, <1>2, <1>6, <2>1 DEF Known, Live, CmdPcs, tableVars
<1> QED BY <1>1, <1>5, <1>6, <1>7, <1>8, QuietStep, OwnStep DEF Holding, tableVars

LEMMA ClearInv ==
  ASSUME Inv, HandlesPrivate, NEW p \in Callers, NEW i \in Ids \cup Strays, Clear(p, i)
  PROVE  Inv'
<1> USE Distinct DEF Inv
<1>1. pc[p] = "idle" /\ pc[Main] = "idle"
  BY DEF Clear, MayBegin
<1>2. i # 0 => i \in Ids /\ \E o \in Objects : <<i, o>> \in handles[p] /\ Live(i, o)
  <2>1. CASE i \in Strays
    BY <2>1, RefConstants
  <2>2. CASE i \notin Strays
    <3>1. PICK h \in handles[p] : h[1] = i
      BY <2>2 DEF Clear, Handles
    <3> QED BY <1>1, <3>1, HandleLive
  <2> QED BY <2>1, <2>2
<1>3. /\ arg' = [arg EXCEPT ![p] = i] /\ pc' = [pc EXCEPT ![p] = "clear"]
      /\ handles' = [handles EXCEPT ![p] = {h \in handles[p] : h[1] # i}]
      /\ UNCHANGED <<tableVars, msgMutex, obj, again, netVars, stopReq>>
  BY DEF Clear, Forget, Goto, TypeInv
<1>4. TypeInv'
  BY <1>2, <1>3, RefConstants DEF TypeInv, CmdPcs, tableVars, netVars
<1>5. /\ pc'[p] = "clear" /\ arg'[p] = i
      /\ \A q \in Actors \ {p} : pc'[q] = pc[q] /\ arg'[q] = arg[q] /\ handles'[q] = handles[q]
      /\ handles'[p] = {h \in handles[p] : h[1] # i}
  BY <1>3 DEF TypeInv
<1>6. \A j \in Ids : Holds(p, j)' => Holds(p, j)
  BY <1>2, <1>5 DEF Holds, Holding
<1>7. \A o \in Objects : <<i, o>> \notin handles'[p]
  BY <1>5
<1>8. Known(p)'
  <2>1. /\ again[p] = None
        /\ \A j \in Ids, o \in Objects : <<j, o>> \in handles[p] => Live(j, o)
    BY <1>1 DEF CommandInv, Known
  <2>2. \A j \in Ids, o \in Objects : <<j, o>> \in handles'[p] => Live(j, o)
    BY <1>5, <2>1
  <2>3. i # 0 => Live(i, table[i])
    BY <1>2 DEF Live
  <2>4. i # 0 => Live(i, table[i])'
    BY <1>3, <2>3 DEF Live, tableVars
  <2>5. \A j \in Ids, o \in Objects : <<j, o>> \in handles'[p] => Live(j, o)'
    BY <1>3, <2>2 DEF Live, tableVars
  <2>6. again'[p] = None
    BY <1>3, <2>1
  <2> QED BY <1>5, <2>4, <2>5, <2>6 DEF Known, CmdPcs
<1> QED BY <1>1, <1>3, <1>4, <1>5, <1>6, <1>7, <1>8, QuietStep, OwnStep DEF Holding, tableVars

LEMMA BindInv ==
  ASSUME Inv, NEW p \in Callers, Bind(p)
  PROVE  Inv'
<1> USE Distinct DEF Inv
<1>1. pc[p] = "bind" /\ Live(arg[p], obj[p]) /\ pc[Main] = "idle"
  BY DEF Bind, CommandInv, Known, MainInv
<1>2. UNCHANGED <<tableVars, msgMutex, netVars, stopReq>>
  BY DEF Bind
<1>3. \/ pc' = [pc EXCEPT ![p] = "crashed"] /\ UNCHANGED <<arg, obj, again, handles>>
      \/ /\ handles' = [handles EXCEPT ![p] = @ \cup {<<arg[p], obj[p]>>}]
         /\ pc' = [pc EXCEPT ![p] = "idle"]
         /\ arg' = [arg EXCEPT ![p] = 0] /\ obj' = [obj EXCEPT ![p] = None]
         /\ again' = [again EXCEPT ![p] = None]
  BY <1>1 DEF Bind, Found, Return, Goto, Live
<1>4. TypeInv'
  BY <1>1, <1>2, <1>3 DEF TypeInv, CmdPcs, Live, tableVars, netVars
<1>5. /\ pc'[p] \in {"crashed", "idle"} /\ again'[p] \in {again[p], None}
      /\ handles'[p] \subseteq handles[p] \cup {<<arg[p], obj[p]>>}
      /\ \A q \in Actors \ {p} : /\ pc'[q] = pc[q] /\ arg'[q] = arg[q]
                                 /\ obj'[q] = obj[q] /\ again'[q] = again[q]
                                 /\ handles'[q] = handles[q]
  BY <1>3 DEF TypeInv
<1>6. \A j \in Ids : Holds(p, j)' => Holds(p, j)
  BY <1>1, <1>5 DEF Holds, Holding
<1>7. Known(p)'
  <2>1. /\ again[p] = None
        /\ \A j \in Ids, o \in Objects : <<j, o>> \in handles[p] => Live(j, o)
    BY <1>1 DEF CommandInv, Known
  <2>2. \A j \in Ids, o \in Objects : <<j, o>> \in handles'[p] => Live(j, o)
    BY <1>1, <1>5, <2>1
  <2>3. again'[p] = None
    BY <1>5, <2>1
  <2> QED BY <1>2, <1>5, <2>2, <2>3 DEF Known, Live, CmdPcs, tableVars
<1> QED BY <1>1, <1>2, <1>4, <1>5, <1>6, <1>7, QuietStep, OwnStep DEF Holding, tableVars

LEMMA ClearJoinInv ==
  ASSUME Inv, NEW p \in Callers, ClearJoin(p)
  PROVE  Inv'
<1> USE Distinct DEF Inv
<1>1. /\ pc[p] = "clearJoin" /\ Live(arg[p], obj[p]) /\ pc[Main] = "idle"
      /\ thr[obj[p]] = "none" /\ refMutex = p
  BY DEF ClearJoin, CommandInv, Known, MainInv, MutexInv
<1>2. /\ UNCHANGED <<tableVars, msgMutex, arg, obj, again, handles, netVars, stopReq>>
      /\ pc' = [pc EXCEPT ![p] = "clearFree"]
  BY DEF ClearJoin, Goto
<1>3. TypeInv'
  BY <1>2 DEF TypeInv, CmdPcs, tableVars, netVars
<1>4. pc'[p] = "clearFree" /\ \A q \in Actors \ {p} : pc'[q] = pc[q]
  BY <1>2 DEF TypeInv
<1>5. \A j \in Ids : Holds(p, j)' => Holds(p, j)
  BY <1>1, <1>2, <1>4 DEF Holds, Holding
<1>6. Known(p)'
  <2>1. /\ again[p] = None
        /\ \A j \in Ids, o \in Objects : <<j, o>> \in handles[p] => Live(j, o)
    BY <1>1 DEF CommandInv, Known
  <2> QED BY <1>1, <1>2, <1>4, <2>1 DEF Known, Live, CmdPcs, tableVars, netVars
<1>7. \A o \in Objects : <<arg'[p], o>> \notin handles'[p]
  BY <1>1, <1>2 DEF HoldInv, Holding
<1> QED BY <1>1, <1>2, <1>3, <1>4, <1>5, <1>6, <1>7, QuietStep, OwnStep DEF tableVars

LEMMA ClearLockInv ==
  ASSUME Inv, NEW p \in Callers, ClearLock(p)
  PROVE  Inv'
<1> USE Distinct DEF Inv
<1>1. /\ pc[p] = "clear" /\ pc[Main] = "idle" /\ refMutex = NoThread /\ refMutex' = p
      /\ UNCHANGED <<table, idOf, phase, msgMutex, arg, again, handles, netVars>>
      /\ arg[p] \in Ids \cup {0}
  BY DEF ClearLock, Lock, MainInv, TypeInv
<1>2. TypeInv'
  <2>1. Entry(arg[p]) \in Objects \cup {None}
    BY <1>1 DEF Entry, TypeInv
  <2>2. pc' \in [Actors -> CmdPcs] /\ obj' \in [Actors -> Objects \cup {None}]
        /\ stopReq' \in [Objects -> BOOLEAN]
    <3>1. CASE Entry(arg[p]) = None
      BY <3>1 DEF ClearLock, Goto, TypeInv, CmdPcs
    <3>2. CASE Entry(arg[p]) # None
      <4>1. PICK o \in Objects : o = Entry(arg[p])
        BY <2>1, <3>2
      <4>2. /\ obj' = [obj EXCEPT ![p] = o] /\ stopReq' = [stopReq EXCEPT ![o] = TRUE]
            /\ pc' = [pc EXCEPT ![p] = "clearJoin"]
        BY <3>2, <4>1 DEF ClearLock, Goto
      <4> QED BY <4>2 DEF TypeInv, CmdPcs
    <3> QED BY <3>1, <3>2
  <2> QED BY <1>1, <2>2 DEF TypeInv, netVars
<1>3. \A q \in Actors \ {p} : pc'[q] = pc[q] /\ obj'[q] = obj[q]
  BY DEF ClearLock, Goto, TypeInv
<1>4. \/ pc'[p] = "clearMiss"
      \/ pc'[p] = "clearJoin" /\ arg[p] # 0 /\ obj'[p] = table[arg[p]]
  <2>1. CASE Entry(arg[p]) = None
    BY <2>1 DEF ClearLock, Goto, TypeInv
  <2>2. CASE Entry(arg[p]) # None
    BY <2>2 DEF ClearLock, Goto, TypeInv, Entry
  <2> QED BY <2>1, <2>2
<1>5. arg[p] # 0 => Live(arg[p], table[arg[p]])
  BY <1>1 DEF CommandInv, Known
<1>6. \A j \in Ids : Holds(p, j)' => Holds(p, j)
  BY <1>1, <1>4 DEF Holds, Holding
<1>7. Known(p)'
  <2>1. /\ again[p] = None
        /\ \A j \in Ids, o \in Objects : <<j, o>> \in handles[p] => Live(j, o)
    BY <1>1 DEF CommandInv, Known
  <2> QED BY <1>1, <1>4, <1>5, <2>1 DEF Known, Live, CmdPcs
<1>8. \A o \in Objects : <<arg'[p], o>> \notin handles'[p]
  BY <1>1 DEF HoldInv, Holding
<1> QED BY <1>1, <1>2, <1>3, <1>4, <1>6, <1>7, <1>8, QuietStep, OwnStep

LEMMA ClearMissInv ==
  ASSUME Inv, NEW p \in Callers, ClearMiss(p)
  PROVE  Inv'
<1> USE Distinct DEF Inv
<1>1. /\ pc[p] = "clearMiss" /\ pc[Main] = "idle" /\ refMutex = p /\ refMutex' = NoThread
      /\ UNCHANGED <<table, idOf, phase, msgMutex, handles, netVars, stopReq>>
      /\ pc' = [pc EXCEPT ![p] = "idle"] /\ arg' = [arg EXCEPT ![p] = 0]
      /\ obj' = [obj EXCEPT ![p] = None] /\ again' = [again EXCEPT ![p] = None]
  BY DEF ClearMiss, Unlock, Return, Goto, MainInv, MutexInv
<1>2. TypeInv'
  BY <1>1 DEF TypeInv, CmdPcs, netVars
<1>3. /\ pc'[p] = "idle" /\ again'[p] = None
      /\ \A q \in Actors \ {p} : /\ pc'[q] = pc[q] /\ arg'[q] = arg[q]
                                 /\ obj'[q] = obj[q] /\ again'[q] = again[q]
  BY <1>1 DEF TypeInv
<1>4. \A j \in Ids : Holds(p, j)' => Holds(p, j)
  BY <1>1, <1>3 DEF Holds, Holding
<1>5. Known(p)'
  <2>1. /\ again[p] = None
        /\ \A j \in Ids, o \in Objects : <<j, o>> \in handles[p] => Live(j, o)
    BY <1>1 DEF CommandInv, Known
  <2> QED BY <1>1, <1>3, <2>1 DEF Known, Live, CmdPcs
<1> QED BY <1>1, <1>2, <1>3, <1>4, <1>5, QuietStep, OwnStep DEF Holding

\* A handle of another process is of another object.
LEMMA Apart ==
  ASSUME Inv, NEW p \in Callers, NEW q \in Callers \ {p}, NEW i \in Ids, NEW j \in Ids,
         Holds(p, i), Holds(q, j), table[i] # None
  PROVE  i # j /\ table[i] # table[j]
BY DEF Inv, HoldInv, TableInv

LEMMA StartInv ==
  ASSUME Inv, NEW p \in Callers, Start(p)
  PROVE  Inv'
<1> USE Distinct DEF Inv
<1>1. /\ pc[p] = "start" /\ pc[Main] = "idle"
      /\ UNCHANGED <<tableVars, msgMutex, handles, closing, netRef, quietDrop, stopReq>>
      /\ pc' = [pc EXCEPT ![p] = "idle"] /\ arg' = [arg EXCEPT ![p] = 0]
      /\ obj' = [obj EXCEPT ![p] = None] /\ again' = [again EXCEPT ![p] = None]
  BY DEF Start, Return, Goto, MainInv
<1>2. <<arg[p], obj[p]>> \in handles[p]
  BY <1>1 DEF CommandInv, Known
<1>3. arg[p] \in Ids /\ obj[p] \in Objects /\ Live(arg[p], obj[p]) /\ Holds(p, arg[p])
  BY <1>1, <1>2, HandleLive DEF Holds
<1>4. thr' = thr \/ thr' = [thr EXCEPT ![obj[p]] = "running"]
  BY DEF Start
<1>5. TypeInv'
  BY <1>1, <1>3, <1>4 DEF TypeInv, CmdPcs, NetPcs, tableVars
<1>6. NetInv'
  BY <1>1, <1>3, <1>4 DEF NetInv, Live, TypeInv, tableVars
<1>7. /\ pc'[p] = "idle" /\ again'[p] = None
      /\ \A q \in Actors \ {p} : /\ pc'[q] = pc[q] /\ arg'[q] = arg[q]
                                 /\ obj'[q] = obj[q] /\ again'[q] = again[q]
  BY <1>1 DEF TypeInv
<1>8. ASSUME NEW q \in Callers \ {p}, pc[q] = "clearFree" PROVE thr'[obj[q]] = "none"
  <2>1. Live(arg[q], obj[q]) /\ Holds(q, arg[q]) /\ thr[obj[q]] = "none"
    BY <1>8 DEF CommandInv, Known, Holds, Holding
  <2>2. obj[p] # obj[q]
    BY <1>3, <2>1, Apart DEF Live
  <2> QED BY <1>4, <2>1, <2>2 DEF TypeInv, Live
<1>9. \A j \in Ids : Holds(p, j)' => Holds(p, j)
  BY <1>1, <1>7 DEF Holds, Holding
<1>10. Known(p)'
  <2>1. \A j \in Ids, o \in Objects : <<j, o>> \in handles[p] => Live(j, o)
    BY <1>1 DEF CommandInv, Known
  <2> QED BY <1>1, <1>7, <2>1 DEF Known, Live, CmdPcs, tableVars
<1> QED BY <1>1, <1>5, <1>6, <1>7, <1>8, <1>9, <1>10, OwnStep DEF Holding, tableVars

LEMMA NewInv ==
  ASSUME Inv, NEW p \in Callers, NEW o \in Objects, New(p, o)
  PROVE  Inv'
<1> USE Distinct DEF Inv
<1>1. /\ pc[p] = "idle" /\ pc[Main] = "idle" /\ phase[o] = "unused"
      /\ UNCHANGED <<table, idOf, refMutex, msgMutex, arg, again, handles, netVars, stopReq>>
      /\ phase' = [phase EXCEPT ![o] = "made"]
      /\ obj' = [obj EXCEPT ![p] = o] /\ pc' = [pc EXCEPT ![p] = "ctor"]
  BY DEF New, MayBegin, Goto
<1>2. TypeInv'
  BY <1>1 DEF TypeInv, CmdPcs, Phases, netVars
<1>3. /\ pc'[p] = "ctor" /\ obj'[p] = o /\ phase'[o] = "made"
      /\ \A q \in Actors \ {p} : pc'[q] = pc[q] /\ obj'[q] = obj[q]
      /\ \A x \in Objects \ {o} : phase'[x] = phase[x]
  BY <1>1 DEF TypeInv
<1>4. \A i, x : Live(i, x) <=> Live(i, x)'
  BY <1>1, <1>3 DEF Live
<1>5. TableInv'
  <2>1. \A x : Deleting(x) => Deleting(x)'
    BY <1>1, <1>3 DEF Deleting
  <2>2. \A i \in Ids : table[i] # None => table[i] \in Objects \ {o}
    BY <1>1 DEF TableInv, TypeInv
  <2> QED BY <1>1, <1>3, <2>1, <2>2 DEF TableInv
<1>6. MutexInv' /\ MainInv'
  BY <1>1, <1>3 DEF MutexInv, MainInv
<1>7. HoldInv'
  <2>1. \A q \in Callers, i \in Ids : Holds(q, i)' => Holds(q, i)
    BY <1>1, <1>3 DEF Holds, Holding
  <2> QED BY <1>1, <1>3, <2>1 DEF HoldInv, Holding
<1>8. CommandInv'
  <2>1. ASSUME NEW q \in Callers \ {p} PROVE Known(q)'
    <3>1. Known(q)
      BY DEF CommandInv
    <3>2. pc[q] \in {"ctor", "insert", "clearErase"} => obj[q] # o
      BY <1>1, <3>1 DEF Known
    <3> QED BY <1>1, <1>3, <1>4, <3>1, <3>2 DEF Known, netVars
  <2>2. Known(p)'
    <3>1. Known(p)
      BY DEF CommandInv
    <3> QED BY <1>1, <1>3, <1>4, <3>1 DEF Known, CmdPcs
  <2>3. \A q \in Callers : pc[q] \in {"ctor", "insert"} => obj[q] # o
    BY <1>1 DEF CommandInv, Known
  <2> QED BY <1>3, <2>1, <2>2, <2>3 DEF CommandInv
<1>9. NetInv'
  BY <1>1, <1>3 DEF NetInv, netVars
<1> QED BY <1>2, <1>5, <1>6, <1>7, <1>8, <1>9

LEMMA CtorLockInv ==
  ASSUME Inv, NEW p \in Callers, CtorLock(p)
  PROVE  Inv'
<1> USE Distinct DEF Inv
<1>1. /\ pc[p] = "ctor" /\ pc[Main] = "idle" /\ refMutex = NoThread /\ refMutex' = p
      /\ UNCHANGED <<table, phase, msgMutex, obj, again, handles, netVars, stopReq>>
      /\ obj[p] \in Objects /\ phase[obj[p]] = "made"
  BY DEF CtorLock, Lock, MainInv, CommandInv, Known
<1>2. PICK i \in Ids : /\ LowestFree(i) /\ arg' = [arg EXCEPT ![p] = i]
                       /\ idOf' = [idOf EXCEPT ![obj[p]] = i]
                       /\ pc' = [pc EXCEPT ![p] = "insert"]
  BY DEF CtorLock, Goto
<1>3. TypeInv'
  BY <1>1, <1>2 DEF TypeInv, CmdPcs, netVars
<1>4. /\ pc'[p] = "insert" /\ arg'[p] = i /\ idOf'[obj[p]] = i /\ table[i] = None
      /\ \A q \in Actors \ {p} : pc'[q] = pc[q] /\ arg'[q] = arg[q]
      /\ \A x \in Objects \ {obj[p]} : idOf'[x] = idOf[x]
  BY <1>1, <1>2 DEF TypeInv, LowestFree
<1>5. TableInv'
  <2>1. \A x : Deleting(x) => Deleting(x)'
    BY <1>1, <1>4 DEF Deleting
  <2>2. ASSUME NEW j \in Ids, table[j] # None PROVE table[j] \in Objects \ {obj[p]}
    <3>1. phase[table[j]] # "made"
      BY <2>2 DEF TableInv
    <3>2. table[j] \in Objects
      BY <2>2 DEF TypeInv
    <3> QED BY <1>1, <3>1, <3>2
  <2> QED BY <1>1, <1>4, <2>1, <2>2 DEF TableInv
<1>6. MutexInv' /\ MainInv'
  BY <1>1, <1>4 DEF MutexInv, MainInv
<1>7. HoldInv'
  <2>1. \A q \in Callers, j \in Ids : Holds(q, j)' => Holds(q, j)
    BY <1>1, <1>4 DEF Holds, Holding
  <2> QED BY <1>1, <1>4, <2>1 DEF HoldInv, Holding
<1>8. CommandInv'
  <2>1. ASSUME NEW q \in Callers \ {p} PROVE Known(q)'
    <3>1. Known(q) /\ pc[q] # "insert"
      BY <1>1 DEF CommandInv, MutexInv
    <3> QED BY <1>1, <1>4, <3>1 DEF Known, Live, netVars
  <2>2. Known(p)'
    <3>1. Known(p)
      BY DEF CommandInv
    <3> QED BY <1>1, <1>4, <3>1 DEF Known, Live, CmdPcs
  <2> QED BY <1>1, <1>4, <2>1, <2>2 DEF CommandInv
<1>9. NetInv'
  BY <1>1 DEF NetInv, netVars
<1> QED BY <1>3, <1>5, <1>6, <1>7, <1>8, <1>9

LEMMA CtorInsertInv ==
  ASSUME Inv, NEW p \in Callers, CtorInsert(p)
  PROVE  Inv'
<1> USE Distinct DEF Inv
<1>0. PICK i, o : i = arg[p] /\ o = obj[p]
  OBVIOUS
<1>1. /\ pc[p] = "insert" /\ pc[Main] = "idle" /\ refMutex = p /\ refMutex' = NoThread
      /\ i \in Ids /\ o \in Objects /\ phase[o] = "made" /\ idOf[o] = i /\ table[i] = None
  BY <1>0 DEF CtorInsert, Unlock, MainInv, CommandInv, Known, MutexInv
<1>2. /\ table' = [table EXCEPT ![i] = o] /\ phase' = [phase EXCEPT ![o] = "live"]
      /\ UNCHANGED <<idOf, msgMutex, arg, obj, again, handles, netVars, stopReq>>
      /\ pc' = [pc EXCEPT ![p] = "bind"]
  BY <1>0 DEF CtorInsert, Goto
<1>3. TypeInv'
  BY <1>1, <1>2 DEF TypeInv, CmdPcs, Phases, netVars
<1>4. /\ pc'[p] = "bind" /\ table'[i] = o /\ phase'[o] = "live"
      /\ \A q \in Actors \ {p} : pc'[q] = pc[q]
      /\ \A j \in Ids \ {i} : table'[j] = table[j]
      /\ \A x \in Objects \ {o} : phase'[x] = phase[x]
  BY <1>1, <1>2 DEF TypeInv
<1>5. \A j, x : Live(j, x) => Live(j, x)' /\ j # i
  BY <1>1, <1>4 DEF Live
<1>6. TableInv'
  <2>1. \A x : Deleting(x) => Deleting(x)'
    BY <1>1, <1>2, <1>4 DEF Deleting
  <2>2. ASSUME NEW x \in Objects, phase'[x] = "live"
        PROVE  idOf'[x] \in Ids /\ table'[idOf'[x]] = x
    BY <1>1, <1>2, <1>4, <2>2 DEF TableInv
  <2>3. ASSUME NEW j \in Ids, NEW x, table'[j] = x, x # None
        PROVE  /\ idOf'[x] = j
               /\ phase'[x] \in {"live", "freed"}
               /\ phase'[x] = "freed" => Deleting(x)'
    <3>1. CASE j = i
      BY <1>1, <1>2, <1>4, <2>3, <3>1
    <3>2. CASE j # i
      <4>1. table[j] = x /\ x \in Objects \ {o}
        BY <1>1, <1>4, <2>3, <3>2 DEF TableInv, TypeInv
      <4>2. /\ idOf[x] = j /\ phase[x] \in {"live", "freed"}
            /\ phase[x] = "freed" => Deleting(x)
        BY <2>3, <4>1 DEF TableInv
      <4> QED BY <1>2, <1>4, <2>1, <4>1, <4>2
    <3> QED BY <3>1, <3>2
  <2>4. \A j \in Ids : table'[j] # None => /\ idOf'[table'[j]] = j
                                           /\ phase'[table'[j]] \in {"live", "freed"}
    BY <2>3
  <2>5. \A j \in Ids : table'[j] # None =>
                         (phase[table[j]] = "freed" => Deleting(table[j]))'
    <3> SUFFICES ASSUME NEW j \in Ids, NEW x, table'[j] = x, x # None, phase'[x] = "freed"
                 PROVE  Deleting(x)'
      BY DEF Deleting
    <3> QED BY <2>3
  <2> QED BY <2>2, <2>4, <2>5 DEF TableInv
<1>7. MutexInv' /\ MainInv'
  BY <1>1, <1>4 DEF MutexInv, MainInv
<1>8. \A q \in Callers : ~Holds(q, i)
  <2> SUFFICES ASSUME NEW q \in Callers PROVE ~Holds(q, i)
    OBVIOUS
  <2>1. Known(q) /\ pc[p] = "insert"
    BY <1>1 DEF CommandInv
  <2>2. \A x \in Objects : <<i, x>> \notin handles[q]
    BY <1>1, <2>1 DEF Known, Live
  <2>3. pc[q] \in Holding => arg[q] # i
    BY <1>1, <2>1 DEF Known, Live, Holding
  <2> QED BY <2>2, <2>3 DEF Holds
<1>9. HoldInv'
  <2>1. \A q \in Callers, j \in Ids : Holds(q, j)' => Holds(q, j) \/ (q = p /\ j = i)
    BY <1>0, <1>2, <1>4 DEF Holds
  <2>2. \A x \in Objects : <<i, x>> \notin handles[p]
    BY <1>8 DEF Holds
  <2>3. \A q, r \in Callers, j \in Ids : Holds(q, j)' /\ Holds(r, j)' => q = r
    BY <1>8, <2>1 DEF HoldInv
  <2> QED BY <1>0, <1>2, <1>4, <2>2, <2>3 DEF HoldInv
<1>10. CommandInv'
  <2>1. ASSUME NEW q \in Callers \ {p} PROVE Known(q)'
    <3>1. Known(q) /\ pc[q] # "insert" /\ pc'[q] = pc[q]
      BY <1>1, <1>4 DEF CommandInv, MutexInv
    <3>2. pc[q] # "clearErase" /\ (pc[q] = "ctor" => obj[q] # o)
      BY <1>0, <1>1 DEF CommandInv, MutexInv
    <3>3. pc[q] = "clear" /\ arg[q] # 0 => Live(arg[q], table[arg[q]])'
      BY <1>2, <1>4, <1>5, <3>1 DEF Known, Live
    <3> QED BY <1>2, <1>4, <1>5, <3>1, <3>2, <3>3 DEF Known, netVars
  <2>2. Known(p)'
    <3>1. Known(p)
      BY DEF CommandInv
    <3>2. Live(i, o)'
      BY <1>1, <1>2, <1>4 DEF Live
    <3> QED BY <1>0, <1>1, <1>2, <1>4, <1>5, <3>1, <3>2 DEF Known, CmdPcs
  <2> QED BY <1>1, <1>2, <1>4, <2>1, <2>2 DEF CommandInv
<1>11. NetInv'
  BY <1>1, <1>2, <1>4 DEF NetInv, netVars
<1> QED BY <1>3, <1>6, <1>7, <1>9, <1>10, <1>11

\* While p deletes its object, no other process is at a step inside the mutex, or
\* has the object.
LEMMA Alone ==
  ASSUME Inv, NEW p \in Callers, pc[p] \in {"clearJoin", "clearFree", "clearErase"},
         NEW q \in Callers \ {p}
  PROVE  /\ pc[q] \notin {"insert", "clearMiss", "clearJoin", "clearFree", "clearErase"}
         /\ \A j \in Ids : Holds(q, j) => j # arg[p] /\ table[j] # obj[p]
<1> USE Distinct DEF Inv
<1>1. pc[q] \notin {"insert", "clearMiss", "clearJoin", "clearFree", "clearErase"}
  BY DEF MutexInv
<1>2. Holds(p, arg[p]) /\ table[arg[p]] = obj[p] /\ arg[p] \in Ids /\ obj[p] # None
  <2>1. Known(p)
    BY DEF CommandInv
  <2> QED BY <2>1 DEF Known, Live, Holds, Holding
<1> QED BY <1>1, <1>2, Apart

LEMMA ClearFreeInv ==
  ASSUME Inv, NEW p \in Callers, ClearFree(p)
  PROVE  Inv'
<1> USE Distinct DEF Inv
<1>0. PICK i, o : i = arg[p] /\ o = obj[p]
  OBVIOUS
<1>1. /\ pc[p] = "clearFree" /\ pc[Main] = "idle" /\ refMutex = p
      /\ Live(i, o) /\ thr[o] = "none" /\ i \in Ids /\ o \in Objects /\ table[i] = o
  BY <1>0 DEF ClearFree, MainInv, CommandInv, Known, MutexInv, Live
<1>2. /\ phase' = [phase EXCEPT ![o] = "freed"]
      /\ UNCHANGED <<table, idOf, refMutex, msgMutex, arg, obj, again, handles, netVars, stopReq>>
      /\ pc' = [pc EXCEPT ![p] = "clearErase"]
  BY <1>0 DEF ClearFree, Goto
<1>3. TypeInv'
  BY <1>1, <1>2 DEF TypeInv, CmdPcs, Phases, netVars
<1>4. /\ pc'[p] = "clearErase" /\ phase'[o] = "freed"
      /\ \A q \in Actors \ {p} : pc'[q] = pc[q]
      /\ \A x \in Objects \ {o} : phase'[x] = phase[x]
  BY <1>1, <1>2 DEF TypeInv
<1>5. TableInv'
  <2>1. \A x : Deleting(x) \/ x = o => Deleting(x)'
    BY <1>0, <1>1, <1>2, <1>4 DEF Deleting
  <2>2. ASSUME NEW j \in Ids, NEW x, table[j] = x, x # None
        PROVE  /\ idOf[x] = j
               /\ phase'[x] \in {"live", "freed"}
               /\ phase'[x] = "freed" => Deleting(x)'
    <3>1. x \in Objects /\ idOf[x] = j /\ phase[x] \in {"live", "freed"}
          /\ (phase[x] = "freed" => Deleting(x))
      BY <2>2 DEF TableInv, TypeInv
    <3> QED BY <1>4, <2>1, <3>1
  <2>3. \A j \in Ids : table'[j] # None => /\ idOf'[table'[j]] = j
                                           /\ phase'[table'[j]] \in {"live", "freed"}
    BY <1>2, <2>2
  <2>4. \A j \in Ids : table'[j] # None =>
                         (phase[table[j]] = "freed" => Deleting(table[j]))'
    <3> SUFFICES ASSUME NEW j \in Ids, NEW x, table'[j] = x, x # None, phase'[x] = "freed"
                 PROVE  Deleting(x)'
      BY DEF Deleting
    <3> QED BY <1>2, <2>2
  <2>5. ASSUME NEW x \in Objects, phase'[x] = "live"
        PROVE  idOf'[x] \in Ids /\ table'[idOf'[x]] = x
    BY <1>2, <1>4, <2>5 DEF TableInv
  <2> QED BY <2>3, <2>4, <2>5 DEF TableInv
<1>6. MutexInv' /\ MainInv'
  BY <1>1, <1>2, <1>4 DEF MutexInv, MainInv
<1>7. \A q \in Callers, j \in Ids : Holds(q, j)' => Holds(q, j)
  BY <1>1, <1>2, <1>4 DEF Holds, Holding
<1>8. HoldInv'
  BY <1>1, <1>2, <1>4, <1>7 DEF HoldInv, Holding
<1>9. \A j, x : Live(j, x) /\ x # o => Live(j, x)'
  BY <1>2, <1>4 DEF Live
<1>10. CommandInv'
  <2>1. ASSUME NEW q \in Callers \ {p} PROVE Known(q)'
    <3>1. Known(q) /\ pc'[q] = pc[q]
      BY <1>4 DEF CommandInv
    <3>2. /\ pc[q] \notin {"insert", "clearMiss", "clearJoin", "clearFree", "clearErase"}
          /\ \A j \in Ids : Holds(q, j) => table[j] # o
      BY <1>0, <1>1, Alone
    <3>3. pc[q] = "ctor" => obj[q] # o
      BY <1>1, <3>1 DEF Known, Live
    <3>4. pc[q] = "bind" => Live(arg[q], obj[q])'
      <4>1. SUFFICES ASSUME NEW j, NEW x, j = arg[q], x = obj[q], pc[q] = "bind"
                     PROVE  Live(j, x)'
        BY <1>2 DEF Live
      <4>2. Live(j, x) /\ Holds(q, j)
        BY <3>1, <4>1 DEF Known, Holds, Holding
      <4> QED BY <1>9, <3>2, <4>2 DEF Live
    <3>5. pc[q] = "clear" /\ arg[q] # 0 => Live(arg[q], table[arg[q]])'
      <4>1. SUFFICES ASSUME NEW j, NEW x, j = arg[q], x = table[j], pc[q] = "clear", j # 0
                     PROVE  Live(j, x)'
        BY <1>2 DEF Live
      <4>2. Live(j, x) /\ Holds(q, j)
        BY <3>1, <4>1 DEF Known, Holds, Holding
      <4> QED BY <1>9, <3>2, <4>2 DEF Live
    <3>6. \A j \in Ids, x \in Objects : <<j, x>> \in handles[q] => Live(j, x)'
      BY <1>1, <1>9, <3>1, <3>2 DEF Known, Holds, Live
    <3> QED BY <1>2, <1>4, <3>1, <3>2, <3>3, <3>4, <3>5, <3>6 DEF Known, netVars
  <2>2. Known(p)'
    <3>1. Known(p)
      BY DEF CommandInv
    <3>2. ASSUME NEW j \in Ids, NEW x \in Objects, <<j, x>> \in handles[p]
          PROVE  Live(j, x) /\ x # o
      <4>1. Live(j, x) /\ table[j] = x
        BY <1>1, <3>1, <3>2 DEF Known, Live
      <4>2. j # i
        BY <1>0, <1>1, <3>2 DEF HoldInv, Holding
      <4>3. idOf[x] = j /\ idOf[o] = i
        BY <1>1, <4>1 DEF TableInv
      <4> QED BY <4>1, <4>2, <4>3
    <3> QED BY <1>0, <1>1, <1>2, <1>4, <1>9, <3>1, <3>2 DEF Known, CmdPcs
  <2> QED BY <1>1, <1>2, <1>4, <2>1, <2>2 DEF CommandInv
<1>11. NetInv'
  BY <1>1, <1>2, <1>4 DEF NetInv, netVars
<1> QED BY <1>3, <1>5, <1>6, <1>8, <1>10, <1>11

LEMMA ClearEraseInv ==
  ASSUME Inv, NEW p \in Callers, ClearErase(p)
  PROVE  Inv'
<1> USE Distinct DEF Inv
<1>0. PICK i, o : i = arg[p] /\ o = obj[p]
  OBVIOUS
<1>1. /\ pc[p] = "clearErase" /\ pc[Main] = "idle" /\ refMutex = p /\ refMutex' = NoThread
      /\ i \in Ids /\ o \in Objects /\ table[i] = o /\ phase[o] = "freed"
  BY <1>0 DEF ClearErase, Unlock, MainInv, CommandInv, Known, MutexInv
<1>2. /\ table' = [table EXCEPT ![i] = None]
      /\ UNCHANGED <<idOf, phase, msgMutex, handles, netVars, stopReq>>
      /\ pc' = [pc EXCEPT ![p] = "idle"] /\ arg' = [arg EXCEPT ![p] = 0]
      /\ obj' = [obj EXCEPT ![p] = None] /\ again' = [again EXCEPT ![p] = None]
  BY <1>0 DEF ClearErase, Return, Goto
<1>3. TypeInv'
  BY <1>1, <1>2 DEF TypeInv, CmdPcs, netVars
<1>4. /\ pc'[p] = "idle" /\ table'[i] = None
      /\ \A q \in Actors \ {p} : pc'[q] = pc[q] /\ arg'[q] = arg[q] /\ obj'[q] = obj[q]
      /\ \A j \in Ids \ {i} : table'[j] = table[j]
  BY <1>1, <1>2 DEF TypeInv
<1>5. \A j, x : Live(j, x) => Live(j, x)' /\ j # i
  BY <1>1, <1>2, <1>4 DEF Live
<1>6. ASSUME NEW q \in Callers \ {p}
      PROVE  pc[q] \notin {"insert", "clearMiss", "clearJoin", "clearFree", "clearErase"}
  BY <1>1, Alone
<1>7. TableInv'
  <2>1. ASSUME NEW x \in Objects, phase'[x] = "live"
        PROVE  idOf'[x] \in Ids /\ table'[idOf'[x]] = x
    BY <1>1, <1>2, <1>4, <2>1 DEF TableInv
  <2>2. ASSUME NEW j \in Ids, NEW x, table'[j] = x, x # None
        PROVE  /\ idOf[x] = j
               /\ phase[x] \in {"live", "freed"}
               /\ phase[x] = "freed" => Deleting(x)'
    <3>1. j # i /\ table[j] = x /\ x \in Objects
      BY <1>4, <2>2 DEF TypeInv
    <3>2. idOf[x] = j /\ idOf[o] = i /\ phase[x] \in {"live", "freed"}
      BY <1>1, <2>2, <3>1 DEF TableInv
    <3>3. phase[x] = "freed" => Deleting(x)
      BY <2>2, <3>1 DEF TableInv
    <3>4. ~Deleting(x)
      <4>1. x # o
        BY <3>1, <3>2
      <4> QED BY <1>0, <1>1, <1>6, <4>1 DEF Deleting
    <3> QED BY <3>2, <3>3, <3>4
  <2>3. \A j \in Ids : table'[j] # None => /\ idOf'[table'[j]] = j
                                           /\ phase'[table'[j]] \in {"live", "freed"}
    BY <1>2, <2>2
  <2>4. \A j \in Ids : table'[j] # None =>
                         (phase[table[j]] = "freed" => Deleting(table[j]))'
    <3> SUFFICES ASSUME NEW j \in Ids, NEW x, table'[j] = x, x # None, phase'[x] = "freed"
                 PROVE  Deleting(x)'
      BY DEF Deleting
    <3> QED BY <1>2, <2>2
  <2> QED BY <2>1, <2>3, <2>4 DEF TableInv
<1>8. MutexInv' /\ MainInv'
  BY <1>1, <1>2, <1>4 DEF MutexInv, MainInv
<1>9. HoldInv'
  <2>1. \A q \in Callers, j \in Ids : Holds(q, j)' => Holds(q, j)
    BY <1>1, <1>2, <1>4 DEF Holds, Holding
  <2> QED BY <1>2, <1>4, <2>1 DEF HoldInv, Holding
<1>10. CommandInv'
  <2>1. ASSUME NEW q \in Callers \ {p} PROVE Known(q)'
    <3>1. Known(q) /\ pc'[q] = pc[q] /\ arg'[q] = arg[q] /\ obj'[q] = obj[q]
      BY <1>4 DEF CommandInv
    <3>2. pc[q] = "bind" => Live(arg[q], obj[q])'
      <4>1. SUFFICES ASSUME NEW j, NEW x, j = arg[q], x = obj[q], pc[q] = "bind"
                     PROVE  Live(j, x)'
        BY <3>1 DEF Live
      <4> QED BY <1>5, <3>1, <4>1 DEF Known
    <3>3. pc[q] = "clear" /\ arg[q] # 0 => Live(arg[q], table[arg[q]])'
      <4>1. SUFFICES ASSUME NEW j, NEW x, j = arg[q], x = table'[j], pc[q] = "clear", j # 0
                     PROVE  Live(j, x)'
        BY <3>1 DEF Live
      <4>2. Live(j, table[j])
        BY <3>1, <4>1 DEF Known
      <4>3. j # i /\ x = table[j]
        BY <1>4, <1>5, <4>1, <4>2 DEF Live
      <4> QED BY <1>5, <4>2, <4>3
    <3> QED BY <1>2, <1>4, <1>5, <1>6, <3>1, <3>2, <3>3 DEF Known, netVars
  <2>2. Known(p)'
    <3>1. Known(p)
      BY DEF CommandInv
    <3> QED BY <1>1, <1>2, <1>4, <1>5, <3>1 DEF Known, CmdPcs
  <2> QED BY <1>1, <1>2, <1>4, <2>1, <2>2 DEF CommandInv
<1>11. NetInv'
  BY <1>2 DEF NetInv, netVars
<1> QED BY <1>3, <1>7, <1>8, <1>9, <1>10, <1>11

(***************************************************************************)
(* Exit: when clearAll runs, no process is in a command.                   *)
(***************************************************************************)

\* Main changes nothing of what the processes hold.
LEMMA ExitFrame ==
  ASSUME Inv, pc'[Main] # "idle", UNCHANGED <<again, handles>>,
         \A p \in Callers : pc[p] \in {"idle", "crashed"},
         \A p \in Callers : pc'[p] = pc[p] /\ arg'[p] = arg[p]
  PROVE  CommandInv' /\ HoldInv'
<1> USE Distinct DEF Inv
<1>1. CommandInv'
  <2>1. \A p \in Callers : again[p] = None
    BY DEF CommandInv, Known
  <2>2. \A p \in Callers : Known(p)'
    BY <2>1 DEF Known, CmdPcs
  <2> QED BY <2>2 DEF CommandInv
<1>2. HoldInv'
  BY DEF HoldInv, Holds, Holding
<1> QED BY <1>1, <1>2

LEMMA ClearAllInv ==
  ASSUME Inv, ClearAll
  PROVE  Inv'
<1> USE Distinct DEF Inv
<1>1. /\ refMutex' = Main /\ \A p \in Callers : pc[p] \in {"idle", "crashed"}
      /\ UNCHANGED <<table, idOf, phase, msgMutex, arg, obj, again, handles, netVars, stopReq>>
      /\ pc' = [pc EXCEPT ![Main] = "all"]
  BY DEF ClearAll, Lock, Goto
<1>2. TypeInv'
  BY <1>1 DEF TypeInv, CmdPcs, netVars
<1>3. pc'[Main] = "all" /\ \A p \in Callers : pc'[p] = pc[p]
  BY <1>1 DEF TypeInv
<1>4. TableInv'
  BY <1>1, <1>3 DEF TableInv, Deleting
<1>5. MutexInv' /\ MainInv' /\ NetInv'
  BY <1>1, <1>3 DEF MutexInv, MainInv, NetInv, netVars
<1> QED BY <1>1, <1>2, <1>3, <1>4, <1>5, ExitFrame

LEMMA ClearAllStopInv ==
  ASSUME Inv, ClearAllStop
  PROVE  Inv'
<1> USE Distinct DEF Inv
<1>1. PICK i \in Ids : /\ Left(i)
                       /\ obj' = [obj EXCEPT ![Main] = table[i]]
                       /\ stopReq' = [stopReq EXCEPT ![table[i]] = TRUE]
  BY DEF ClearAllStop
<1>2. /\ pc[Main] = "all" /\ refMutex = Main
      /\ \A p \in Callers : pc[p] \in {"idle", "crashed"}
      /\ UNCHANGED <<tableVars, msgMutex, arg, again, handles, netVars>>
      /\ pc' = [pc EXCEPT ![Main] = "allJoin"]
  BY DEF ClearAllStop, Goto, MainInv, MutexInv
<1>3. table[i] \in Objects /\ phase[table[i]] = "live"
  BY <1>1 DEF Left, TypeInv
<1>4. TypeInv'
  BY <1>1, <1>2, <1>3 DEF TypeInv, CmdPcs, tableVars, netVars
<1>5. /\ pc'[Main] = "allJoin" /\ obj'[Main] = table[i]
      /\ \A p \in Callers : pc'[p] = pc[p] /\ obj'[p] = obj[p]
  BY <1>1, <1>2 DEF TypeInv
<1>6. TableInv'
  BY <1>2, <1>5 DEF TableInv, Deleting, tableVars
<1>7. MutexInv' /\ MainInv' /\ NetInv'
  BY <1>2, <1>3, <1>5 DEF MutexInv, MainInv, NetInv, tableVars, netVars
<1> QED BY <1>2, <1>4, <1>5, <1>6, <1>7, ExitFrame

LEMMA ClearAllFreeInv ==
  ASSUME Inv, ClearAllFree
  PROVE  Inv'
<1> USE Distinct DEF Inv
<1>0. PICK o : o = obj[Main]
  OBVIOUS
<1>1. /\ pc[Main] = "allJoin" /\ refMutex = Main /\ o \in Objects /\ thr[o] = "none"
      /\ \A p \in Callers : pc[p] \in {"idle", "crashed"}
      /\ UNCHANGED <<table, idOf, refMutex, msgMutex, arg, obj, again, handles, netVars, stopReq>>
      /\ pc' = [pc EXCEPT ![Main] = "all"] /\ phase' = [phase EXCEPT ![o] = "freed"]
  BY <1>0 DEF ClearAllFree, Goto, MainInv, MutexInv
<1>2. TypeInv'
  BY <1>1 DEF TypeInv, CmdPcs, Phases, netVars
<1>3. /\ pc'[Main] = "all" /\ phase'[o] = "freed"
      /\ \A p \in Callers : pc'[p] = pc[p]
      /\ \A x \in Objects \ {o} : phase'[x] = phase[x]
  BY <1>1 DEF TypeInv
<1>4. TableInv'
  <2>1. \A j \in Ids : table[j] # None => phase'[table[j]] \in {"live", "freed"}
    BY <1>3 DEF TableInv, TypeInv
  <2>2. \A x \in Objects : phase'[x] = "live" => phase[x] = "live"
    BY <1>3
  <2> QED BY <1>1, <1>3, <2>1, <2>2 DEF TableInv, Deleting
<1>5. MutexInv' /\ MainInv' /\ NetInv'
  BY <1>1, <1>3 DEF MutexInv, MainInv, NetInv, netVars
<1> QED BY <1>1, <1>2, <1>3, <1>4, <1>5, ExitFrame

LEMMA ClearAllDoneInv ==
  ASSUME Inv, ClearAllDone
  PROVE  Inv'
<1> USE Distinct DEF Inv
<1>1. /\ pc[Main] = "all" /\ refMutex' = NoThread /\ table' = [i \in Ids |-> None]
      /\ \A p \in Callers : pc[p] \in {"idle", "crashed"}
      /\ UNCHANGED <<idOf, phase, msgMutex, arg, obj, again, handles, netVars, stopReq>>
      /\ pc' = [pc EXCEPT ![Main] = "exited"]
  BY DEF ClearAllDone, Unlock, Goto, MainInv
<1>2. TypeInv'
  BY <1>1 DEF TypeInv, CmdPcs, netVars
<1>3. pc'[Main] = "exited" /\ \A p \in Callers : pc'[p] = pc[p]
  BY <1>1 DEF TypeInv
<1>4. \A o \in Objects : phase[o] # "live"
  <2> SUFFICES ASSUME NEW o \in Objects, phase[o] = "live" PROVE FALSE
    OBVIOUS
  <2>1. idOf[o] \in Ids /\ table[idOf[o]] = o
    BY DEF TableInv
  <2> QED BY <2>1 DEF ClearAllDone, Left
<1>5. TableInv'
  BY <1>1, <1>4 DEF TableInv
<1>6. MutexInv' /\ MainInv' /\ NetInv'
  BY <1>1, <1>3 DEF MutexInv, MainInv, NetInv, netVars
<1> QED BY <1>1, <1>2, <1>3, <1>5, <1>6, ExitFrame

LEMMA StepInv == HandlesPrivate /\ Inv /\ [Next]_vars => Inv'
<1> SUFFICES ASSUME HandlesPrivate, Inv, [Next]_vars PROVE Inv'
  OBVIOUS
<1>1. CASE UNCHANGED vars
  <2>1. UNCHANGED tableVars /\ UNCHANGED cmdVars /\ UNCHANGED <<msgMutex, netVars, stopReq>>
    BY <1>1 DEF vars
  <2>2. TypeInv' /\ NetInv'
    BY <2>1 DEF Inv, TypeInv, NetInv, tableVars, cmdVars, netVars
  <2> QED BY <2>1, <2>2, NetFrame DEF Inv, netVars
<1>2. ASSUME NEW p \in Callers,
             \/ \E o \in Objects : New(p, o)
             \/ \E i \in Ids, c \in {"send", "startAgain", "stopAgain"} : LookUp(p, i, c)
             \/ \E i \in Ids \cup Strays : Clear(p, i)
             \/ Command(p)
      PROVE  Inv'
  BY <1>2, NewInv, LookUpInv, ClearInv, CtorLockInv, CtorInsertInv, BindInv, LookUpAgainInv,
     SendInv, StartInv, StopInv, JoinInv, ClearLockInv, ClearMissInv, ClearJoinInv, ClearFreeInv,
     ClearEraseInv
     DEF Command
<1>3. CASE ClearAll \/ ExitStep
  BY <1>3, ClearAllInv, ClearAllStopInv, ClearAllFreeInv, ClearAllDoneInv DEF ExitStep
<1>4. ASSUME NEW o \in Objects, NetEvent(o) \/ NetStep(o) \/ NetLock(o) PROVE Inv'
  BY <1>4, NetStepInv, NetLookUpInv, NetLockInv DEF NetStep
<1>5. CASE LoopLock \/ LoopUnlock
  BY <1>5, LoopInv
<1> QED BY <1>1, <1>2, <1>3, <1>4, <1>5 DEF Next, Terminated

THEOREM Invariant == ASSUME HandlesPrivate PROVE Spec => []Inv
BY InitInv, StepInv, PTL DEF Spec

(***************************************************************************)
(* The table alone, for processes that share their refs: the mutex keeps   *)
(* the entries right even when a command works on a ref that another       *)
(* process clears meanwhile.                                               *)
(***************************************************************************)

\* What is known at each step of a command, whoever else uses its number.
Shared(p) ==
  /\ pc[p] \in CmdPcs \ {"all", "allJoin", "exited"}
  /\ pc[p] \in {"ctor", "insert"} => obj[p] \in Objects /\ phase[obj[p]] = "made"
  /\ pc[p] = "insert" =>
       arg[p] \in Ids /\ idOf[obj[p]] = arg[p] /\ table[arg[p]] = None
  /\ pc[p] = "bind" => arg[p] \in Ids
  /\ pc[p] \in {"send", "startAgain", "stopAgain", "start", "stop", "join"} =>
       obj[p] \in Objects /\ idOf[obj[p]] \in Ids
  /\ pc[p] \in {"startAgain", "stopAgain"} => arg[p] \in Ids
  /\ pc[p] \in {"clearJoin", "clearFree"} => Live(arg[p], obj[p])
  /\ pc[p] = "clearErase" => /\ arg[p] \in Ids /\ obj[p] \in Objects
                             /\ table[arg[p]] = obj[p] /\ phase[obj[p]] = "freed"

SharedInv ==
  /\ \A p \in Callers : Shared(p)
  /\ \A p, q \in Callers : (/\ pc[p] \in {"ctor", "insert"} /\ pc[q] \in {"ctor", "insert"}
                            /\ obj[p] = obj[q]) => p = q

\* A ref that was started has its number.
NumberInv == \A o \in Objects : thr[o] # "none" => idOf[o] \in Ids

EntryInv == TypeInv /\ TableInv /\ MutexInv /\ MainInv /\ SharedInv /\ NumberInv

LEMMA InitEntryInv == Init => EntryInv
<1> SUFFICES ASSUME Init PROVE EntryInv
  OBVIOUS
<1>1. TypeInv /\ TableInv /\ MutexInv /\ MainInv
  BY InitInv DEF Inv
<1>2. SharedInv /\ NumberInv
  BY Distinct DEF Init, SharedInv, Shared, NumberInv, CmdPcs
<1> QED BY <1>1, <1>2 DEF EntryInv

\* Steps of network threads and of the loop.
LEMMA NetKeepsEntries ==
  ASSUME EntryInv, NEW o \in Objects, NetEvent(o) \/ NetStep(o) \/ NetLock(o)
  PROVE  EntryInv'
<1> USE DEF EntryInv
<1>1. thr[o] # "none" /\ idOf[o] \in Ids /\ table[idOf[o]] \in Objects \cup {None}
  BY DEF NetEvent, NetStep, NetLookUp, NetUse, NetCapture, NetAdd, NetLock, NumberInv, TypeInv
<1>2. UNCHANGED <<tableVars, cmdVars>> /\ UNCHANGED stopReq
  BY DEF NetEvent, NetStep, NetLookUp, NetUse, NetCapture, NetAdd, NetLock
<1>3. TypeInv' /\ \A x \in Objects : thr'[x] # "none" => thr[x] # "none"
  <2>1. CASE NetEvent(o) \/ NetUse(o) \/ NetCapture(o) \/ NetAdd(o)
    BY <2>1, <1>1 DEF NetEvent, NetUse, NetCapture, NetAdd, NetReturn, TypeInv, NetPcs, tableVars,
       cmdVars
  <2>2. CASE NetLookUp(o)
    <3>1. PICK r \in Objects \cup {None} :
            /\ quietDrop' = (quietDrop \/ (r = None /\ ~Racing(o)))
            /\ IF r = None
               THEN NetReturn(o)
               ELSE /\ thr' = [thr EXCEPT ![o] = "use"]
                    /\ netRef' = [netRef EXCEPT ![o] = r]
                    /\ UNCHANGED closing
      BY <1>1, <2>2 DEF NetLookUp, Found
    <3>2. /\ thr' \in [Objects -> NetPcs] /\ closing' \in [Objects -> BOOLEAN]
          /\ netRef' \in [Objects -> Objects \cup {None}]
          /\ \A x \in Objects : thr'[x] # "none" => thr[x] # "none"
      <4>1. CASE r = None
        BY <1>1, <3>1, <4>1 DEF NetReturn, TypeInv, NetPcs
      <4>2. CASE r # None
        BY <1>1, <3>1, <4>2 DEF TypeInv, NetPcs
      <4> QED BY <4>1, <4>2
    <3>3. quietDrop' \in BOOLEAN /\ UNCHANGED msgMutex
      BY <2>2, <3>1 DEF NetLookUp
    <3> QED BY <1>2, <3>2, <3>3 DEF TypeInv, tableVars, cmdVars
  <2>3. CASE NetLock(o)
    <3>1. PICK r \in Objects \cup {None} :
            /\ netRef' = [netRef EXCEPT ![o] = r]
            /\ quietDrop' = (quietDrop \/ (r = None /\ ~Racing(o)))
            /\ thr' = [thr EXCEPT ![o] = IF r = None THEN "add" ELSE "capture"]
      BY <1>1, <2>3 DEF NetLock, Found
    <3>2. msgMutex' = o /\ UNCHANGED closing
      BY <2>3 DEF NetLock
    <3> QED BY <1>1, <1>2, <3>1, <3>2 DEF TypeInv, NetPcs, tableVars, cmdVars
  <2> QED BY <2>1, <2>2, <2>3 DEF NetStep
<1>4. TableInv' /\ MutexInv' /\ MainInv'
  BY <1>2 DEF TableInv, Deleting, MutexInv, MainInv, tableVars, cmdVars
<1>5. SharedInv' /\ NumberInv'
  BY <1>2, <1>3 DEF SharedInv, Shared, Live, NumberInv, tableVars, cmdVars
<1> QED BY <1>3, <1>4, <1>5

LEMMA LoopKeepsEntries ==
  ASSUME EntryInv, LoopLock \/ LoopUnlock \/ UNCHANGED vars
  PROVE  EntryInv'
<1> USE DEF EntryInv
<1>1. /\ UNCHANGED tableVars /\ UNCHANGED cmdVars /\ UNCHANGED netVars /\ UNCHANGED stopReq
      /\ msgMutex' \in {msgMutex, Loop, NoThread}
  BY DEF LoopLock, LoopUnlock, vars
<1>2. TypeInv' /\ TableInv' /\ MutexInv' /\ MainInv'
  BY <1>1 DEF TypeInv, TableInv, Deleting, MutexInv, MainInv, tableVars, cmdVars, netVars
<1>3. SharedInv' /\ NumberInv'
  BY <1>1 DEF SharedInv, Shared, Live, NumberInv, tableVars, cmdVars, netVars
<1> QED BY <1>2, <1>3

\* A step of p that leaves the table and the objects alone, and takes the mutex or
\* gives it back only as its own, changes nothing for the other processes.
LEMMA OwnStepShared ==
  ASSUME EntryInv, TypeInv', NumberInv', NEW p \in Callers,
         pc[Main] = "idle", UNCHANGED <<table, idOf, phase>>,
         refMutex' = refMutex \/ refMutex = NoThread \/ refMutex = p,
         \A q \in Actors \ {p} : /\ pc'[q] = pc[q] /\ arg'[q] = arg[q] /\ obj'[q] = obj[q],
         pc'[p] \in {"insert", "clearMiss", "clearJoin", "clearFree", "clearErase"} =>
           refMutex' = p,
         pc[p] # "clearErase", pc'[p] \notin {"ctor", "insert"},
         Shared(p)'
  PROVE  EntryInv'
<1> USE Distinct DEF EntryInv
<1>1. MainInv'
  BY DEF MainInv
<1>2. MutexInv'
  BY DEF MutexInv, Shared
<1>3. SharedInv'
  <2>1. \A q \in Callers : q # p => Shared(q)'
    BY DEF SharedInv, Shared, Live
  <2> QED BY <2>1 DEF SharedInv
<1>4. TableInv'
  <2>1. \A o : Deleting(o) => Deleting(o)'
    BY DEF Deleting
  <2> QED BY <2>1 DEF TableInv
<1> QED BY <1>1, <1>2, <1>3, <1>4

\* A command that returns, or that goes on without the mutex.
LEMMA PlainStepsKeepEntries ==
  ASSUME EntryInv, NEW p \in Callers, Send(p) \/ Start(p) \/ Stop(p) \/ Join(p) \/ ClearMiss(p)
  PROVE  EntryInv'
<1> USE Distinct DEF EntryInv
<1>1. /\ UNCHANGED <<table, idOf, phase, msgMutex, handles, closing, netRef, quietDrop>>
      /\ pc[p] \in {"send", "start", "stop", "join", "clearMiss"}
      /\ refMutex' = refMutex \/ (pc[p] = "clearMiss" /\ refMutex' = NoThread)
  BY DEF Send, Start, Stop, Join, ClearMiss, Unlock, tableVars, netVars
<1>2. Shared(p) /\ pc[Main] = "idle" /\ (pc[p] = "clearMiss" => refMutex = p)
  BY <1>1 DEF SharedInv, MainInv, MutexInv
<1>3. TypeInv'
  <2> USE DEF Goto, TypeInv, CmdPcs, tableVars, netVars
  <2>1. ASSUME Return(p), UNCHANGED <<tableVars, msgMutex, handles, netVars>>,
               stopReq' \in [Objects -> BOOLEAN]
        PROVE  TypeInv'
    BY <2>1 DEF Return
  <2>2. CASE Start(p)
    BY <1>2, <2>2 DEF Start, Return, NetPcs, Shared
  <2>3. CASE Stop(p)
    BY <1>2, <2>3 DEF Stop, Return, Shared
  <2>4. CASE ClearMiss(p)
    BY <2>4 DEF ClearMiss, Return, Unlock
  <2>5. CASE Send(p)
    BY <2>1, <2>5 DEF Send
  <2>6. CASE Join(p)
    BY <2>1, <2>6 DEF Join
  <2> QED BY <2>2, <2>3, <2>4, <2>5, <2>6
<1>4. NumberInv'
  BY <1>1, <1>2 DEF Send, Start, Stop, Join, ClearMiss, TypeInv, NumberInv, Shared, netVars
<1>5. /\ \A q \in Actors \ {p} : pc'[q] = pc[q] /\ arg'[q] = arg[q] /\ obj'[q] = obj[q]
      /\ \/ pc'[p] = "idle"
         \/ pc'[p] = "join" /\ pc[p] = "stop" /\ obj'[p] = obj[p]
  BY DEF Send, Start, Stop, Join, ClearMiss, Return, Goto, TypeInv
<1>6. Shared(p)'
  BY <1>1, <1>2, <1>5 DEF Shared, CmdPcs
<1> QED BY <1>1, <1>2, <1>3, <1>4, <1>5, <1>6, OwnStepShared

LEMMA LookUpKeepsEntries ==
  ASSUME EntryInv, NEW p \in Callers, NEW i \in Ids, NEW c \in {"send", "startAgain", "stopAgain"},
         LookUp(p, i, c)
  PROVE  EntryInv'
<1> USE Distinct DEF EntryInv
<1>1. PICK o : o \in Found(p, i) /\ o # None /\ obj' = [obj EXCEPT ![p] = o]
  BY DEF LookUp
<1>2. o \in Objects /\ idOf[o] = i
  BY <1>1 DEF Found, TypeInv, TableInv
<1>3. /\ pc[p] = "idle" /\ pc[Main] = "idle"
      /\ UNCHANGED tableVars /\ UNCHANGED netVars /\ UNCHANGED <<msgMutex, again, handles, stopReq>>
      /\ pc' = [pc EXCEPT ![p] = c] /\ arg' = [arg EXCEPT ![p] = i]
  BY DEF LookUp, MayBegin, Goto
<1>4. TypeInv' /\ NumberInv'
  BY <1>1, <1>2, <1>3 DEF TypeInv, NumberInv, CmdPcs, tableVars, netVars
<1>5. /\ pc'[p] = c /\ obj'[p] = o /\ arg'[p] = i
      /\ \A q \in Actors \ {p} : pc'[q] = pc[q] /\ arg'[q] = arg[q] /\ obj'[q] = obj[q]
  BY <1>1, <1>3 DEF TypeInv
<1>6. Shared(p)'
  BY <1>2, <1>3, <1>5 DEF Shared, CmdPcs, tableVars
<1> QED BY <1>3, <1>4, <1>5, <1>6, OwnStepShared DEF tableVars

LEMMA LookUpAgainKeepsEntries ==
  ASSUME EntryInv, NEW p \in Callers, LookUpAgain(p)
  PROVE  EntryInv'
<1> USE Distinct DEF EntryInv
<1>1. /\ pc[p] \in {"startAgain", "stopAgain"} /\ Shared(p) /\ pc[Main] = "idle"
      /\ UNCHANGED tableVars /\ UNCHANGED netVars
      /\ UNCHANGED <<msgMutex, arg, obj, handles, stopReq>>
      /\ pc' = [pc EXCEPT ![p] = IF pc[p] = "startAgain" THEN "start" ELSE "stop"]
  BY DEF LookUpAgain, Goto, MainInv, SharedInv
<1>2. PICK r \in Objects \cup {None} : again' = [again EXCEPT ![p] = r]
  BY <1>1 DEF LookUpAgain, Found, TypeInv, Shared
<1>3. TypeInv' /\ NumberInv'
  BY <1>1, <1>2 DEF TypeInv, NumberInv, CmdPcs, tableVars, netVars
<1>4. pc'[p] \in {"start", "stop"} /\ \A q \in Actors \ {p} : pc'[q] = pc[q]
  BY <1>1 DEF TypeInv
<1>5. Shared(p)'
  BY <1>1, <1>4 DEF Shared, CmdPcs, tableVars
<1> QED BY <1>1, <1>3, <1>4, <1>5, OwnStepShared DEF tableVars

LEMMA ClearKeepsEntries ==
  ASSUME EntryInv, NEW p \in Callers, NEW i \in Ids \cup Strays, Clear(p, i)
  PROVE  EntryInv'
<1> USE Distinct DEF EntryInv
<1>1. /\ pc[p] = "idle" /\ pc[Main] = "idle" /\ i \in Ids \cup {0}
      /\ UNCHANGED tableVars /\ UNCHANGED netVars /\ UNCHANGED <<msgMutex, obj, again, stopReq>>
      /\ pc' = [pc EXCEPT ![p] = "clear"] /\ arg' = [arg EXCEPT ![p] = i]
      /\ handles' = [handles EXCEPT ![p] = {h \in @ : h[1] # i}]
  BY RefConstants DEF Clear, MayBegin, Goto, Forget
<1>2. TypeInv' /\ NumberInv'
  BY <1>1 DEF TypeInv, NumberInv, CmdPcs, tableVars, netVars
<1>3. /\ pc'[p] = "clear"
      /\ \A q \in Actors \ {p} : pc'[q] = pc[q] /\ arg'[q] = arg[q] /\ obj'[q] = obj[q]
  BY <1>1 DEF TypeInv
<1>4. Shared(p)'
  BY <1>3 DEF Shared, CmdPcs
<1> QED BY <1>1, <1>2, <1>3, <1>4, OwnStepShared DEF tableVars

LEMMA BindKeepsEntries ==
  ASSUME EntryInv, NEW p \in Callers, Bind(p)
  PROVE  EntryInv'
<1> USE Distinct DEF EntryInv
<1>1. PICK o \in Found(p, arg[p]) :
        IF o = None
        THEN Goto(p, "crashed") /\ UNCHANGED <<arg, obj, again, handles>>
        ELSE /\ handles' = [handles EXCEPT ![p] = @ \cup {<<arg[p], o>>}]
             /\ Return(p)
  BY DEF Bind
<1>2. /\ pc[p] = "bind" /\ pc[Main] = "idle" /\ arg[p] \in Ids
      /\ UNCHANGED tableVars /\ UNCHANGED netVars /\ UNCHANGED <<msgMutex, stopReq>>
  BY DEF Bind, MainInv, SharedInv, Shared
<1>3. o \in Objects \cup {None}
  <2>1. table[arg[p]] \in Objects \cup {None}
    BY <1>2 DEF TypeInv
  <2>2. o \in {table[arg[p]], None}
    BY DEF Found
  <2> QED BY <2>1, <2>2
<1>4. /\ pc' \in [Actors -> CmdPcs] /\ arg' \in [Actors -> Ids \cup {0}]
      /\ obj' \in [Actors -> Objects \cup {None}]
      /\ again' \in [Actors -> Objects \cup {None}]
      /\ handles' \in [Actors -> SUBSET (Ids \X Objects)]
      /\ pc'[p] \in {"idle", "crashed"}
      /\ \A q \in Actors \ {p} : /\ pc'[q] = pc[q] /\ arg'[q] = arg[q]
                                 /\ obj'[q] = obj[q] /\ again'[q] = again[q]
  <2>1. CASE o = None
    BY <1>1, <2>1 DEF Goto, TypeInv, CmdPcs
  <2>2. CASE o # None
    BY <1>1, <1>2, <1>3, <2>2 DEF Return, Goto, TypeInv, CmdPcs
  <2> QED BY <2>1, <2>2
<1>5. TypeInv' /\ NumberInv'
  BY <1>2, <1>4 DEF TypeInv, NumberInv, tableVars, netVars
<1>6. Shared(p)'
  BY <1>4 DEF Shared, CmdPcs
<1> QED BY <1>2, <1>4, <1>5, <1>6, OwnStepShared DEF tableVars

\* The mutex is free, so nobody is between freeing an object and erasing its entry.
LEMMA ClearLockKeepsEntries ==
  ASSUME EntryInv, NEW p \in Callers, ClearLock(p)
  PROVE  EntryInv'
<1> USE Distinct DEF EntryInv
<1>1. /\ pc[p] = "clear" /\ pc[Main] = "idle" /\ refMutex = NoThread /\ refMutex' = p
      /\ UNCHANGED <<table, idOf, phase, msgMutex, arg, again, handles>> /\ UNCHANGED netVars
  BY DEF ClearLock, Lock, MainInv
<1>2. CASE Entry(arg[p]) = None
  <2>1. pc' = [pc EXCEPT ![p] = "clearMiss"] /\ UNCHANGED <<obj, stopReq>>
    BY <1>2 DEF ClearLock, Goto
  <2>2. TypeInv' /\ NumberInv'
    BY <1>1, <2>1 DEF TypeInv, NumberInv, CmdPcs, netVars
  <2>3. pc'[p] = "clearMiss" /\ \A q \in Actors \ {p} : pc'[q] = pc[q]
    BY <2>1 DEF TypeInv
  <2>4. Shared(p)'
    BY <2>3 DEF Shared, CmdPcs
  <2> QED BY <1>1, <2>1, <2>2, <2>3, <2>4, OwnStepShared
<1>3. CASE Entry(arg[p]) # None
  <2> DEFINE o == table[arg[p]]
  <2>1. /\ arg[p] \in Ids /\ o \in Objects
        /\ pc' = [pc EXCEPT ![p] = "clearJoin"] /\ obj' = [obj EXCEPT ![p] = o]
        /\ stopReq' = [stopReq EXCEPT ![o] = TRUE]
    BY <1>3 DEF ClearLock, Entry, Goto, TypeInv
  <2>2. ~Deleting(o)
    BY <1>1 DEF Deleting, MutexInv
  <2>3. Live(arg[p], o)
    BY <2>1, <2>2 DEF TableInv, Live
  <2>4. TypeInv' /\ NumberInv'
    BY <1>1, <2>1 DEF TypeInv, NumberInv, CmdPcs, netVars
  <2>5. /\ pc'[p] = "clearJoin" /\ obj'[p] = o
        /\ \A q \in Actors \ {p} : pc'[q] = pc[q] /\ obj'[q] = obj[q]
    BY <2>1 DEF TypeInv
  <2>6. Shared(p)'
    BY <1>1, <2>3, <2>5 DEF Shared, Live, CmdPcs
  <2> QED BY <1>1, <2>4, <2>5, <2>6, OwnStepShared
<1> QED BY <1>2, <1>3

LEMMA ClearJoinKeepsEntries ==
  ASSUME EntryInv, NEW p \in Callers, ClearJoin(p)
  PROVE  EntryInv'
<1> USE Distinct DEF EntryInv
<1>1. /\ pc[p] = "clearJoin" /\ pc[Main] = "idle" /\ refMutex = p /\ Shared(p)
      /\ UNCHANGED tableVars /\ UNCHANGED netVars
      /\ UNCHANGED <<msgMutex, arg, obj, again, handles, stopReq>>
      /\ pc' = [pc EXCEPT ![p] = "clearFree"]
  BY DEF ClearJoin, Goto, MainInv, MutexInv, SharedInv
<1>2. TypeInv' /\ NumberInv'
  BY <1>1 DEF TypeInv, NumberInv, CmdPcs, tableVars, netVars
<1>3. pc'[p] = "clearFree" /\ \A q \in Actors \ {p} : pc'[q] = pc[q]
  BY <1>1 DEF TypeInv
<1>4. Shared(p)'
  BY <1>1, <1>3 DEF Shared, Live, CmdPcs, tableVars
<1> QED BY <1>1, <1>2, <1>3, <1>4, OwnStepShared DEF tableVars

LEMMA NewKeepsEntries ==
  ASSUME EntryInv, NEW p \in Callers, NEW o \in Objects, New(p, o)
  PROVE  EntryInv'
<1> USE Distinct DEF EntryInv
<1>1. /\ pc[p] = "idle" /\ pc[Main] = "idle" /\ phase[o] = "unused"
      /\ phase' = [phase EXCEPT ![o] = "made"] /\ obj' = [obj EXCEPT ![p] = o]
      /\ pc' = [pc EXCEPT ![p] = "ctor"]
      /\ UNCHANGED <<table, idOf, refMutex, msgMutex, arg, again, handles, stopReq>>
      /\ UNCHANGED netVars
  BY DEF New, MayBegin, Goto
<1>2. TypeInv' /\ NumberInv'
  BY <1>1 DEF TypeInv, NumberInv, CmdPcs, Phases, netVars
<1>3. /\ pc'[p] = "ctor" /\ obj'[p] = o /\ phase'[o] = "made"
      /\ \A q \in Actors \ {p} : pc'[q] = pc[q] /\ obj'[q] = obj[q]
      /\ \A x \in Objects \ {o} : phase'[x] = phase[x]
  BY <1>1 DEF TypeInv
<1>4. MainInv' /\ MutexInv'
  BY <1>1, <1>3 DEF MainInv, MutexInv
<1>5. TableInv'
  BY <1>1, <1>3 DEF TableInv, TypeInv, Deleting
<1>6. SharedInv'
  <2>1. \A q \in Callers : q # p => Shared(q)' /\ (pc[q] \in {"ctor", "insert"} => obj[q] # o)
    BY <1>1, <1>3 DEF SharedInv, Shared, Live
  <2>2. Shared(p)'
    BY <1>3 DEF Shared, CmdPcs
  <2> QED BY <1>3, <2>1, <2>2 DEF SharedInv
<1> QED BY <1>2, <1>4, <1>5, <1>6

\* The number is free, and only the holder of the mutex could take it.
LEMMA CtorLockKeepsEntries ==
  ASSUME EntryInv, NEW p \in Callers, CtorLock(p)
  PROVE  EntryInv'
<1> USE Distinct DEF EntryInv
<1>0. PICK o : o = obj[p]
  OBVIOUS
<1>1. PICK i \in Ids : /\ LowestFree(i)
                       /\ arg' = [arg EXCEPT ![p] = i]
                       /\ idOf' = [idOf EXCEPT ![o] = i]
  BY <1>0 DEF CtorLock
<1>2. /\ pc[p] = "ctor" /\ pc[Main] = "idle" /\ refMutex = NoThread /\ refMutex' = p
      /\ o \in Objects /\ phase[o] = "made"
      /\ pc' = [pc EXCEPT ![p] = "insert"]
      /\ UNCHANGED <<table, phase, msgMutex, obj, again, handles, stopReq>> /\ UNCHANGED netVars
  BY <1>0 DEF CtorLock, Lock, Goto, MainInv, SharedInv, Shared
<1>3. TypeInv' /\ NumberInv'
  BY <1>1, <1>2 DEF TypeInv, NumberInv, CmdPcs, netVars
<1>4. /\ pc'[p] = "insert" /\ arg'[p] = i /\ idOf'[o] = i
      /\ \A q \in Actors \ {p} : pc'[q] = pc[q] /\ arg'[q] = arg[q]
      /\ \A x \in Objects \ {o} : idOf'[x] = idOf[x]
  BY <1>1, <1>2 DEF TypeInv
<1>5. MainInv' /\ MutexInv'
  BY <1>2, <1>4 DEF MainInv, MutexInv
<1>6. TableInv'
  BY <1>2, <1>4 DEF TableInv, TypeInv, Deleting
<1>7. SharedInv'
  <2>1. \A q \in Callers : q # p => Shared(q)'
    BY <1>0, <1>1, <1>2, <1>4 DEF SharedInv, Shared, Live
  <2>2. Shared(p)'
    BY <1>0, <1>1, <1>2, <1>4 DEF Shared, LowestFree, CmdPcs
  <2> QED BY <1>2, <1>4, <2>1, <2>2 DEF SharedInv
<1> QED BY <1>3, <1>5, <1>6, <1>7

LEMMA CtorInsertKeepsEntries ==
  ASSUME EntryInv, NEW p \in Callers, CtorInsert(p)
  PROVE  EntryInv'
<1> USE Distinct DEF EntryInv
<1>0. PICK o, i : o = obj[p] /\ i = arg[p]
  OBVIOUS
<1>1. /\ pc[p] = "insert" /\ pc[Main] = "idle" /\ refMutex = p /\ refMutex' = NoThread
      /\ o \in Objects /\ phase[o] = "made" /\ i \in Ids /\ idOf[o] = i /\ table[i] = None
      /\ table' = [table EXCEPT ![i] = o] /\ phase' = [phase EXCEPT ![o] = "live"]
      /\ pc' = [pc EXCEPT ![p] = "bind"]
      /\ UNCHANGED <<idOf, msgMutex, arg, obj, again, handles, stopReq>> /\ UNCHANGED netVars
  BY <1>0 DEF CtorInsert, Unlock, Goto, MainInv, MutexInv, SharedInv, Shared
<1>2. TypeInv' /\ NumberInv'
  BY <1>1 DEF TypeInv, NumberInv, CmdPcs, Phases, netVars
<1>3. /\ pc'[p] = "bind" /\ table'[i] = o /\ phase'[o] = "live"
      /\ \A q \in Actors \ {p} : pc'[q] = pc[q]
      /\ \A x \in Objects \ {o} : phase'[x] = phase[x]
      /\ \A j \in Ids \ {i} : table'[j] = table[j]
  BY <1>1 DEF TypeInv
<1>4. MainInv' /\ MutexInv'
  BY <1>1, <1>3 DEF MainInv, MutexInv
<1>5. \A q \in Callers : pc[q] # "clearErase"
  BY <1>1 DEF MutexInv
<1>6. TableInv'
  BY <1>1, <1>3, <1>5 DEF TableInv, TypeInv, Deleting
<1>7. SharedInv'
  <2>1. \A q \in Callers : q # p => Shared(q)'
    <3> SUFFICES ASSUME NEW q \in Callers, q # p PROVE Shared(q)'
      OBVIOUS
    <3>1. Shared(q) /\ (pc[q] \in {"ctor", "insert"} => obj[q] # o)
      BY <1>0, <1>1 DEF SharedInv
    <3>2. pc[q] \notin {"insert", "clearJoin", "clearFree", "clearErase"}
      BY <1>1 DEF MutexInv
    <3> QED BY <1>1, <1>3, <3>1, <3>2 DEF Shared
  <2>2. Shared(p)'
    BY <1>0, <1>1, <1>3 DEF Shared, CmdPcs
  <2> QED BY <1>1, <1>3, <2>1, <2>2 DEF SharedInv
<1> QED BY <1>2, <1>4, <1>6, <1>7

LEMMA ClearFreeKeepsEntries ==
  ASSUME EntryInv, NEW p \in Callers, ClearFree(p)
  PROVE  EntryInv'
<1> USE Distinct DEF EntryInv
<1>0. PICK o, i : o = obj[p] /\ i = arg[p]
  OBVIOUS
<1>1. /\ pc[p] = "clearFree" /\ pc[Main] = "idle" /\ refMutex = p /\ Live(i, o)
      /\ phase' = [phase EXCEPT ![o] = "freed"]
      /\ pc' = [pc EXCEPT ![p] = "clearErase"]
      /\ UNCHANGED <<table, idOf, refMutex, msgMutex, arg, obj, again, handles, stopReq>>
      /\ UNCHANGED netVars
  BY <1>0 DEF ClearFree, Goto, MainInv, MutexInv, SharedInv, Shared
<1>2. TypeInv' /\ NumberInv'
  BY <1>1 DEF TypeInv, NumberInv, CmdPcs, Phases, netVars
<1>3. /\ pc'[p] = "clearErase" /\ phase'[o] = "freed"
      /\ \A q \in Actors \ {p} : pc'[q] = pc[q]
      /\ \A x \in Objects \ {o} : phase'[x] = phase[x]
  BY <1>1 DEF TypeInv, Live
<1>4. MainInv' /\ MutexInv'
  BY <1>1, <1>3 DEF MainInv, MutexInv
<1>5. TableInv'
  <2>1. Deleting(o)'
    BY <1>0, <1>1, <1>3 DEF Deleting
  <2>2. \A x : Deleting(x) => Deleting(x)'
    BY <1>1, <1>3 DEF Deleting
  <2>3. ASSUME NEW j \in Ids, table[j] # None
        PROVE  /\ idOf[table[j]] = j /\ phase'[table[j]] \in {"live", "freed"}
               /\ phase'[table[j]] = "freed" => Deleting(table[j]) \/ table[j] = o
    <3>1. /\ idOf[table[j]] = j /\ phase[table[j]] \in {"live", "freed"}
          /\ phase[table[j]] = "freed" => Deleting(table[j])
      BY <2>3 DEF TableInv
    <3>2. table[j] \in Objects
      BY <2>3 DEF TypeInv
    <3> QED BY <1>3, <3>1, <3>2
  <2>4. \A x \in Objects : phase'[x] = "live" => idOf[x] \in Ids /\ table[idOf[x]] = x
    BY <1>3 DEF TableInv
  <2>5. \A j \in Ids : table'[j] # None =>
                         (phase[table[j]] = "freed" => Deleting(table[j]))'
    <3> SUFFICES ASSUME NEW j \in Ids, NEW x, table'[j] = x, x # None, phase'[x] = "freed"
                 PROVE  Deleting(x)'
      BY DEF Deleting
    <3>1. table[j] = x
      BY <1>1
    <3> QED BY <2>1, <2>2, <2>3, <3>1
  <2>6. \A j \in Ids : table'[j] # None => /\ idOf'[table'[j]] = j
                                           /\ phase'[table'[j]] \in {"live", "freed"}
    BY <1>1, <2>3
  <2>7. \A x \in Objects : phase'[x] = "live" => idOf'[x] \in Ids /\ table'[idOf'[x]] = x
    BY <1>1, <2>4
  <2> QED BY <2>5, <2>6, <2>7 DEF TableInv
<1>6. SharedInv'
  <2>1. \A q \in Callers : q # p => Shared(q)'
    <3> SUFFICES ASSUME NEW q \in Callers, q # p PROVE Shared(q)'
      OBVIOUS
    <3>1. Shared(q) /\ pc[q] \notin {"insert", "clearJoin", "clearFree", "clearErase"}
      BY <1>1 DEF SharedInv, MutexInv
    <3> QED BY <1>1, <1>3, <3>1 DEF Shared, Live
  <2>2. Shared(p)'
    BY <1>0, <1>1, <1>3 DEF Shared, Live, CmdPcs
  <2> QED BY <1>1, <1>3, <2>1, <2>2 DEF SharedInv
<1> QED BY <1>2, <1>4, <1>5, <1>6

\* The entry goes with the one step that knows its object freed.
LEMMA ClearEraseKeepsEntries ==
  ASSUME EntryInv, NEW p \in Callers, ClearErase(p)
  PROVE  EntryInv'
<1> USE Distinct DEF EntryInv
<1>0. PICK o, i : o = obj[p] /\ i = arg[p]
  OBVIOUS
<1>1. /\ pc[p] = "clearErase" /\ pc[Main] = "idle" /\ refMutex = p /\ refMutex' = NoThread
      /\ i \in Ids /\ o \in Objects /\ table[i] = o /\ phase[o] = "freed"
      /\ table' = [table EXCEPT ![i] = None]
      /\ pc' = [pc EXCEPT ![p] = "idle"] /\ arg' = [arg EXCEPT ![p] = 0]
      /\ obj' = [obj EXCEPT ![p] = None] /\ again' = [again EXCEPT ![p] = None]
      /\ UNCHANGED <<idOf, phase, msgMutex, handles, stopReq>> /\ UNCHANGED netVars
  BY <1>0 DEF ClearErase, Return, Unlock, Goto, MainInv, MutexInv, SharedInv, Shared
<1>2. TypeInv' /\ NumberInv'
  BY <1>1 DEF TypeInv, NumberInv, CmdPcs, netVars
<1>3. /\ pc'[p] = "idle" /\ table'[i] = None
      /\ \A q \in Actors \ {p} : pc'[q] = pc[q] /\ arg'[q] = arg[q] /\ obj'[q] = obj[q]
      /\ \A j \in Ids \ {i} : table'[j] = table[j]
  BY <1>1 DEF TypeInv
<1>4. MainInv' /\ MutexInv'
  BY <1>1, <1>3 DEF MainInv, MutexInv
<1>5. \A q \in Callers \ {p} : pc[q] \notin {"insert", "clearJoin", "clearFree", "clearErase"}
  BY <1>1 DEF MutexInv
<1>6. TableInv'
  <2>1. \A j \in Ids \ {i} : table[j] # None => phase[table[j]] = "live"
    <3> SUFFICES ASSUME NEW j \in Ids \ {i}, table[j] # None PROVE phase[table[j]] = "live"
      OBVIOUS
    <3>1. idOf[table[j]] = j /\ idOf[o] = i
      BY <1>1 DEF TableInv
    <3>2. ~Deleting(table[j])
      BY <1>0, <1>1, <1>5, <3>1 DEF Deleting
    <3> QED BY <3>2 DEF TableInv
  <2>2. ASSUME NEW x \in Objects, phase'[x] = "live"
        PROVE  idOf'[x] \in Ids /\ table'[idOf'[x]] = x
    <3>1. idOf[x] \in Ids /\ table[idOf[x]] = x /\ phase[x] = "live"
      BY <1>1, <2>2 DEF TableInv
    <3> QED BY <1>1, <1>3, <3>1
  <2>3. ASSUME NEW j \in Ids, table'[j] # None
        PROVE  idOf'[table'[j]] = j /\ phase'[table'[j]] = "live"
    <3>1. j # i /\ table'[j] = table[j]
      BY <1>3, <2>3
    <3> QED BY <1>1, <2>1, <2>3, <3>1 DEF TableInv
  <2> QED BY <2>2, <2>3 DEF TableInv
<1>7. SharedInv'
  <2>1. \A q \in Callers : q # p => Shared(q)'
    BY <1>1, <1>3, <1>5 DEF SharedInv, Shared
  <2>2. Shared(p)'
    BY <1>3 DEF Shared, CmdPcs
  <2> QED BY <1>1, <1>3, <2>1, <2>2 DEF SharedInv
<1> QED BY <1>2, <1>4, <1>6, <1>7

(***************************************************************************)
(* clearAll.                                                               *)
(***************************************************************************)

\* Main changes nothing of what the processes know.
LEMMA ExitStepShared ==
  ASSUME EntryInv, \A p \in Callers : pc[p] \in {"idle", "crashed"},
         \A p \in Callers : pc'[p] = pc[p]
  PROVE  SharedInv'
BY DEF EntryInv, SharedInv, Shared, CmdPcs

LEMMA ExitKeepsEntries ==
  ASSUME EntryInv, ClearAll \/ ExitStep
  PROVE  EntryInv'
<1> USE Distinct DEF EntryInv
<1>0. \A p \in Callers : pc[p] \in {"idle", "crashed"}
  BY DEF ClearAll, ExitStep, ClearAllStop, ClearAllFree, ClearAllDone, MainInv
<1>1. CASE ClearAll
  <2>1. /\ refMutex' = Main /\ pc' = [pc EXCEPT ![Main] = "all"]
        /\ UNCHANGED <<table, idOf, phase, msgMutex, arg, obj, again, handles, netVars, stopReq>>
    BY <1>1 DEF ClearAll, Lock, Goto
  <2>2. TypeInv' /\ NumberInv'
    BY <2>1 DEF TypeInv, NumberInv, CmdPcs, netVars
  <2>3. pc'[Main] = "all" /\ \A p \in Callers : pc'[p] = pc[p]
    BY <2>1 DEF TypeInv
  <2>4. TableInv' /\ MutexInv' /\ MainInv'
    BY <1>0, <2>1, <2>3 DEF TableInv, Deleting, MutexInv, MainInv
  <2> QED BY <1>0, <2>2, <2>3, <2>4, ExitStepShared
<1>2. CASE ClearAllStop
  <2>1. PICK i \in Ids : /\ Left(i)
                         /\ obj' = [obj EXCEPT ![Main] = table[i]]
                         /\ stopReq' = [stopReq EXCEPT ![table[i]] = TRUE]
    BY <1>2 DEF ClearAllStop
  <2>2. /\ refMutex = Main /\ pc' = [pc EXCEPT ![Main] = "allJoin"]
        /\ UNCHANGED <<tableVars, msgMutex, arg, again, handles, netVars>>
        /\ table[i] \in Objects /\ phase[table[i]] = "live"
    BY <1>2, <2>1 DEF ClearAllStop, Goto, MutexInv, Left, TypeInv
  <2>3. TypeInv' /\ NumberInv'
    BY <2>1, <2>2 DEF TypeInv, NumberInv, CmdPcs, tableVars, netVars
  <2>4. pc'[Main] = "allJoin" /\ obj'[Main] = table[i] /\ \A p \in Callers : pc'[p] = pc[p]
    BY <2>1, <2>2 DEF TypeInv
  <2>5. TableInv' /\ MutexInv' /\ MainInv'
    BY <1>0, <2>2, <2>4 DEF TableInv, Deleting, MutexInv, MainInv, tableVars
  <2> QED BY <1>0, <2>3, <2>4, <2>5, ExitStepShared
<1>3. CASE ClearAllFree
  <2>0. PICK o : o = obj[Main]
    OBVIOUS
  <2>1. /\ refMutex = Main /\ o \in Objects /\ pc' = [pc EXCEPT ![Main] = "all"]
        /\ phase' = [phase EXCEPT ![o] = "freed"]
        /\ UNCHANGED <<table, idOf, refMutex, msgMutex, arg, obj, again, handles, netVars, stopReq>>
    BY <1>3, <2>0 DEF ClearAllFree, Goto, MainInv, MutexInv
  <2>2. TypeInv' /\ NumberInv'
    BY <2>1 DEF TypeInv, NumberInv, CmdPcs, Phases, netVars
  <2>3. /\ pc'[Main] = "all" /\ phase'[o] = "freed" /\ \A p \in Callers : pc'[p] = pc[p]
        /\ \A x \in Objects \ {o} : phase'[x] = phase[x]
    BY <2>1 DEF TypeInv
  <2>4. TableInv'
    <3>1. ASSUME NEW j \in Ids, table[j] # None PROVE phase'[table[j]] \in {"live", "freed"}
      <4>1. phase[table[j]] \in {"live", "freed"} /\ table[j] \in Objects
        BY <3>1 DEF TableInv, TypeInv
      <4> QED BY <2>3, <4>1
    <3>2. \A x \in Objects : phase'[x] = "live" => phase[x] = "live"
      BY <2>3
    <3> QED BY <2>1, <2>3, <3>1, <3>2 DEF TableInv, Deleting
  <2>5. MutexInv' /\ MainInv'
    BY <1>0, <2>1, <2>3 DEF MutexInv, MainInv
  <2> QED BY <1>0, <2>2, <2>3, <2>4, <2>5, ExitStepShared
<1>4. CASE ClearAllDone
  <2>1. /\ refMutex' = NoThread /\ table' = [i \in Ids |-> None]
        /\ pc' = [pc EXCEPT ![Main] = "exited"]
        /\ UNCHANGED <<idOf, phase, msgMutex, arg, obj, again, handles, netVars, stopReq>>
    BY <1>4 DEF ClearAllDone, Unlock, Goto
  <2>2. TypeInv' /\ NumberInv'
    BY <2>1 DEF TypeInv, NumberInv, CmdPcs, netVars
  <2>3. pc'[Main] = "exited" /\ \A p \in Callers : pc'[p] = pc[p]
    BY <2>1 DEF TypeInv
  <2>4. \A o \in Objects : phase[o] # "live"
    <3> SUFFICES ASSUME NEW o \in Objects, phase[o] = "live" PROVE FALSE
      OBVIOUS
    <3>1. idOf[o] \in Ids /\ table[idOf[o]] = o
      BY DEF TableInv
    <3> QED BY <1>4, <3>1 DEF ClearAllDone, Left
  <2>5. TableInv' /\ MutexInv' /\ MainInv'
    BY <1>0, <2>1, <2>3, <2>4 DEF TableInv, MutexInv, MainInv
  <2> QED BY <1>0, <2>2, <2>3, <2>5, ExitStepShared
<1> QED BY <1>1, <1>2, <1>3, <1>4 DEF ExitStep

LEMMA StepKeepsEntries == EntryInv /\ [Next]_vars => EntryInv'
<1> SUFFICES ASSUME EntryInv, [Next]_vars PROVE EntryInv'
  OBVIOUS
<1>1. ASSUME NEW p \in Callers,
             \/ \E o \in Objects : New(p, o)
             \/ \E i \in Ids, c \in {"send", "startAgain", "stopAgain"} : LookUp(p, i, c)
             \/ \E i \in Ids \cup Strays : Clear(p, i)
             \/ Command(p)
      PROVE  EntryInv'
  BY <1>1, NewKeepsEntries, LookUpKeepsEntries, ClearKeepsEntries, CtorLockKeepsEntries,
     CtorInsertKeepsEntries, BindKeepsEntries, PlainStepsKeepEntries,
     LookUpAgainKeepsEntries, ClearLockKeepsEntries,
     ClearJoinKeepsEntries, ClearFreeKeepsEntries, ClearEraseKeepsEntries DEF Command
<1> QED BY <1>1, ExitKeepsEntries, NetKeepsEntries, LoopKeepsEntries DEF Next, Terminated

THEOREM EntryInvariant == Spec => []EntryInv
BY InitEntryInv, StepKeepsEntries, PTL DEF Spec

(***************************************************************************)
(* The properties.  The table needs no assumption on the 4D code.          *)
(***************************************************************************)

\* Types; and a command that goes on has a pointer, whoever uses the refs.
THEOREM TypeCorrect == Spec => []TypeOK
<1>1. EntryInv => TypeOK
  <2> SUFFICES ASSUME EntryInv PROVE TypeOK
    OBVIOUS
  <2>1. ASSUME NEW p \in Callers, pc[p] \in Pointing PROVE obj[p] # None
    BY <2>1, Distinct DEF EntryInv, SharedInv, Shared, Pointing, Live
  <2>2. pc[Main] \in Pointing => obj[Main] # None
    BY Distinct DEF EntryInv, MainInv, Pointing
  <2> QED BY <2>1, <2>2, Distinct DEF EntryInv, TypeInv, TypeOK
<1> QED BY <1>1, EntryInvariant, PTL

\* The table: numbers and objects belong together and an entry outlives its object only
\* inside the mutex, whoever uses the refs; and where each ref is used by its maker,
\* a number names one object until its process clears it.
THEOREM TableCorrect == Spec => []TableSound
<1> DEFINE Owned ==
      HandlesPrivate /\ pc[Main] = "idle" =>
        \A p \in Callers : \A h \in handles[p] : table[h[1]] = h[2] /\ phase[h[2]] = "live"
<1>1. Spec => []Owned
  <2>1. CASE HandlesPrivate
    <3>1. Inv => Owned
      BY HandleLive DEF Live
    <3> QED BY <2>1, <3>1, Invariant, PTL
  <2>2. CASE ~HandlesPrivate
    <3>1. Owned
      BY <2>2
    <3> QED BY <3>1, PTL
  <2> QED BY <2>1, <2>2
<1>2. EntryInv /\ Owned => TableSound
  <2> SUFFICES ASSUME EntryInv, Owned PROVE TableSound
    OBVIOUS
  <2>1. ASSUME NEW i \in Ids, table[i] # None, phase[table[i]] = "freed"
        PROVE  \E p \in Actors : /\ refMutex = p
                                 /\ \/ pc[p] = "clearErase" /\ obj[p] = table[i]
                                    \/ pc[p] \in {"all", "allJoin"}
    BY <2>1, Distinct DEF EntryInv, TableInv, Deleting, MutexInv
  <2> QED BY <2>1 DEF EntryInv, TableInv, TableSound
<1> QED BY <1>1, <1>2, EntryInvariant, PTL

\* A callback works on its own ref, alive.
THEOREM CallbacksCorrect == ASSUME HandlesPrivate PROVE Spec => []CallbackRefAlive
<1>1. Inv => CallbackRefAlive
  BY DEF Inv, NetInv, CallbackRefAlive
<1> QED BY <1>1, Invariant, PTL

\* No event is lost but when another thread writes the map at that moment.
THEOREM EventsCorrect == ASSUME HandlesPrivate PROVE Spec => []NoQuietDrop
<1>1. Inv => NoQuietDrop
  BY DEF Inv, NetInv, NoQuietDrop
<1> QED BY <1>1, Invariant, PTL

\* A command works on a ref that is alive.
THEOREM CommandsCorrect == ASSUME HandlesPrivate PROVE Spec => []CommandRefAlive
<1>1. Inv => CommandRefAlive
  <2> SUFFICES ASSUME Inv, NEW p \in Callers
               PROVE  /\ pc[p] \in {"bind", "send", "startAgain", "stopAgain", "start", "stop",
                                     "join"} => phase[obj[p]] = "live"
                      /\ again[p] # None => phase[again[p]] = "live"
    BY DEF CommandRefAlive
  <2>1. Known(p) /\ (pc[p] \notin {"idle", "crashed"} => pc[Main] = "idle")
    BY DEF Inv, CommandInv, MainInv
  <2> QED BY <2>1, HandleLive DEF Known, Live
<1> QED BY <1>1, Invariant, PTL

(***************************************************************************)
(* Who waits for whom.  That every command returns is a matter of fairness *)
(* and stays with TLC; that waits never close a circle, and that a thread  *)
(* that is joined was told to end, is proved.                              *)
(***************************************************************************)

\* x cannot go on before y has done something.
WaitsFor(x, y) ==
  \/ x \in Actors /\ pc[x] \in {"ctor", "clear"} /\ refMutex = y /\ y # NoThread
  \/ /\ x \in Actors /\ pc[x] \in {"join", "clearJoin", "allJoin"}
     /\ y \in Objects /\ obj[x] = y /\ thr[y] # "none"
  \/ x \in Objects /\ thr[x] = "wait" /\ msgMutex = y /\ y # NoThread

\* The longest wait is that of a process for the ref mutex, whose owner joins a
\* network thread, which waits for the message list: who has the list goes on.
WaitsEnd ==
  \A a, b, c, d, e : ~(WaitsFor(a, b) /\ WaitsFor(b, c) /\ WaitsFor(c, d) /\ WaitsFor(d, e))

\* A stop or a clear that waits for a network thread has told it to end.
StopHeard ==
  \A p \in Actors : pc[p] \in {"join", "clearJoin", "allJoin"} => stopReq[obj[p]]

\* Owners: of the ref mutex, at the steps that use it; of the list, a network thread
\* inside addMessage or the loop, in which no command goes on.
OwnerInv ==
  /\ pc[Loop] = "idle"
  /\ refMutex # NoThread =>
       pc[refMutex] \in {"insert", "clearMiss", "clearJoin", "clearFree", "clearErase", "all",
                         "allJoin"}
  /\ msgMutex \in Objects => thr[msgMutex] \in {"capture", "add"}

LEMMA CommandKeepsOwners ==
  ASSUME EntryInv, OwnerInv, NEW p \in Callers,
         \/ \E o \in Objects : New(p, o)
         \/ \E i \in Ids, c \in {"send", "startAgain", "stopAgain"} : LookUp(p, i, c)
         \/ \E i \in Ids \cup Strays : Clear(p, i)
         \/ Command(p)
  PROVE  OwnerInv'
<1> USE Distinct DEF EntryInv, OwnerInv
<1>1. p # Loop
  BY DEF New, LookUp, Clear, MayBegin, ObjectCreated, Command, CtorLock, CtorInsert, Bind,
     LookUpAgain, Send, Start, Stop, Join, ClearLock, ClearMiss, ClearJoin, ClearFree, ClearErase
<1>2. /\ pc' \in [Actors -> CmdPcs] /\ msgMutex' = msgMutex
      /\ \A q \in Actors \ {p} : pc'[q] = pc[q]
  BY DEF New, LookUp, Clear, Command, CtorLock, CtorInsert, Bind, LookUpAgain, Send, Start, Stop,
     Join,
     ClearLock, ClearMiss, ClearJoin, ClearFree, ClearErase, Return, Goto, TypeInv, CmdPcs
<1>3. \A o \in Objects : thr[o] # "none" => thr'[o] = thr[o]
  BY DEF New, LookUp, Clear, Command, CtorLock, CtorInsert, Bind, LookUpAgain, Send, Start, Stop,
     Join,
     ClearLock, ClearMiss, ClearJoin, ClearFree, ClearErase, TypeInv, netVars
<1>4. \/ refMutex' = NoThread
      \/ refMutex' = refMutex /\ refMutex # p
      \/ /\ refMutex' \in {p, refMutex}
         /\ pc'[p] \in {"insert", "clearMiss", "clearJoin", "clearFree", "clearErase"}
  <2>1. CASE \/ \E o \in Objects : New(p, o)
             \/ \E i \in Ids, c \in {"send", "startAgain", "stopAgain"} : LookUp(p, i, c)
             \/ \E i \in Ids \cup Strays : Clear(p, i)
    BY <2>1 DEF New, LookUp, Clear, MayBegin, tableVars
  <2>2. CASE CtorLock(p) \/ ClearLock(p)
    BY <2>2 DEF CtorLock, ClearLock, Lock, Goto, TypeInv
  <2>3. CASE CtorInsert(p) \/ ClearMiss(p) \/ ClearErase(p)
    BY <2>3 DEF CtorInsert, ClearMiss, ClearErase, Unlock
  <2>4. CASE ClearJoin(p) \/ ClearFree(p)
    BY <2>4 DEF ClearJoin, ClearFree, Goto, TypeInv, tableVars
  <2>5. CASE Bind(p) \/ LookUpAgain(p) \/ Send(p) \/ Start(p) \/ Stop(p) \/ Join(p)
    BY <2>5 DEF Bind, LookUpAgain, Send, Start, Stop, Join, tableVars
  <2> QED BY <2>1, <2>2, <2>3, <2>4, <2>5 DEF Command
<1>5. refMutex \in Actors \cup {NoThread} /\ Loop \in Actors
  BY DEF TypeInv, Callers, Actors
<1> QED BY <1>1, <1>2, <1>3, <1>4, <1>5

LEMMA StepKeepsOwners == EntryInv /\ OwnerInv /\ [Next]_vars => OwnerInv'
<1> SUFFICES ASSUME EntryInv, OwnerInv, [Next]_vars PROVE OwnerInv'
  OBVIOUS
<1> USE Distinct, RefConstants DEF EntryInv, OwnerInv
<1>0. Loop \in Callers /\ Loop \notin Objects /\ NoThread \notin Objects
  BY DEF Callers
<1>1. CASE ClearAll \/ ExitStep
  <2>1. pc[Main] \in {"idle", "all", "allJoin"} /\ pc' \in [Actors -> CmdPcs]
    BY <1>1 DEF ClearAll, ExitStep, ClearAllStop, ClearAllFree, ClearAllDone, Goto, TypeInv, CmdPcs
  <2>2. /\ pc'[Loop] = pc[Loop] /\ msgMutex' = msgMutex /\ thr' = thr
        /\ refMutex' = NoThread \/ (refMutex' = Main /\ pc'[Main] \in {"all", "allJoin"})
    BY <1>0, <1>1 DEF ClearAll, ExitStep, ClearAllStop, ClearAllFree, ClearAllDone, Goto, TypeInv,
       MutexInv, Lock, Unlock, tableVars, netVars
  <2> QED BY <2>2
<1>2. ASSUME NEW o \in Objects, NetEvent(o) \/ NetStep(o) \/ NetLock(o) PROVE OwnerInv'
  <2>1. UNCHANGED <<pc, refMutex>>
    BY <1>2 DEF NetEvent, NetStep, NetLookUp, NetUse, NetCapture, NetAdd, NetLock, tableVars,
       cmdVars
  <2>2. msgMutex' \in Objects => thr'[msgMutex'] \in {"capture", "add"}
    <3>1. CASE NetEvent(o) \/ NetUse(o) \/ NetCapture(o) \/ NetAdd(o)
      BY <1>0, <3>1 DEF NetEvent, NetUse, NetCapture, NetAdd, TypeInv
    <3>2. CASE NetLookUp(o)
      <4>1. msgMutex' = msgMutex /\ thr[o] = "lookup" /\ \A x \in Objects \ {o} : thr'[x] = thr[x]
        BY <3>2 DEF NetLookUp, NetReturn, TypeInv
      <4> QED BY <4>1
    <3>3. CASE NetLock(o)
      BY <3>3 DEF NetLock, TypeInv
    <3> QED BY <1>2, <3>1, <3>2, <3>3 DEF NetStep
  <2> QED BY <2>1, <2>2
<1>3. CASE LoopLock \/ LoopUnlock
  BY <1>0, <1>3 DEF LoopLock, LoopUnlock, tableVars, cmdVars, netVars
<1>4. CASE UNCHANGED vars
  BY <1>4 DEF vars, tableVars, cmdVars, netVars
<1> QED BY <1>1, <1>2, <1>3, <1>4, CommandKeepsOwners DEF Next, Terminated

\* However many processes and refs there are, and whoever uses them, no circle of
\* threads waits for one another: the loop and addMessage, which have the list, wait
\* for nobody, as commands do not run in the event-queue process.
THEOREM NoWaitCircle == Spec => []WaitsEnd
<1>1. Init => OwnerInv
  BY RefConstants DEF Init, OwnerInv, Actors, Callers
<1>2. EntryInv /\ OwnerInv => WaitsEnd
  <2> SUFFICES ASSUME EntryInv, OwnerInv, NEW a, NEW b, NEW c, NEW d, NEW e,
                      WaitsFor(a, b), WaitsFor(b, c), WaitsFor(c, d), WaitsFor(d, e)
               PROVE  FALSE
    BY DEF WaitsEnd
  <2> USE Distinct, RefConstants DEF EntryInv, OwnerInv
  <2>1. \A x, y : x \in Objects /\ WaitsFor(x, y) => \A z : ~WaitsFor(y, z)
    BY DEF WaitsFor, TypeInv, Actors, Callers
  <2>2. \A x, y : x \in Actors /\ pc[x] \notin {"ctor", "clear"} /\ WaitsFor(x, y) => y \in Objects
    BY DEF WaitsFor
  <2>3. \A x, y : /\ x \in Actors /\ pc[x] \in {"ctor", "clear"} /\ WaitsFor(x, y)
                  => y \in Actors /\ pc[y] \notin {"ctor", "clear"}
    BY DEF WaitsFor, TypeInv
  <2>4. \A x, y : WaitsFor(x, y) => x \in Objects \/ x \in Actors
    BY DEF WaitsFor
  <2> QED BY <2>1, <2>2, <2>3, <2>4
<1> QED BY <1>1, <1>2, StepKeepsOwners, EntryInvariant, PTL DEF Spec

\* A process that joins a network thread holds the number of its object.
LEMMA JoinHolds ==
  ASSUME Inv, NEW p \in Callers, pc[p] \in {"join", "clearJoin"}
  PROVE  /\ arg[p] \in Ids /\ obj[p] \in Objects /\ idOf[obj[p]] = arg[p]
         /\ Holds(p, arg[p])
<1> USE Distinct DEF Inv
<1>1. Known(p) /\ pc[Main] = "idle"
  BY DEF CommandInv, MainInv
<1>2. Live(arg[p], obj[p]) /\ Holds(p, arg[p])
  <2>1. CASE pc[p] = "join"
    <3>1. <<arg[p], obj[p]>> \in handles[p] /\ handles[p] \subseteq Ids \X Objects
      BY <1>1, <2>1 DEF Known, TypeInv
    <3>2. arg[p] \in Ids /\ obj[p] \in Objects
      BY <3>1
    <3>3. \A i \in Ids, o \in Objects : <<i, o>> \in handles[p] => Live(i, o)
      BY <1>1 DEF Known
    <3> QED BY <3>1, <3>2, <3>3 DEF Holds
  <2>2. CASE pc[p] = "clearJoin"
    BY <1>1, <2>2 DEF Known, Holds, Holding
  <2> QED BY <2>1, <2>2
<1>3. arg[p] \in Ids /\ obj[p] \in Objects /\ table[arg[p]] = obj[p]
      /\ obj[p] # None
  BY <1>2 DEF Live
<1>4. idOf[obj[p]] = arg[p]
  BY <1>3 DEF TableInv
<1> QED BY <1>2, <1>3, <1>4

\* Where each ref is used by its maker, nobody takes back a stop() before the network
\* thread has ended.
THEOREM StopsHeard == ASSUME HandlesPrivate PROVE Spec => []StopHeard
<1>1. Init => StopHeard
  BY DEF Init, StopHeard
<1>2. Inv /\ StopHeard /\ [Next]_vars => StopHeard'
  <2> SUFFICES ASSUME Inv, StopHeard, [Next]_vars,
                      NEW p \in Actors, pc'[p] \in {"join", "clearJoin", "allJoin"}
               PROVE  stopReq'[obj'[p]]
    BY DEF StopHeard
  <2> USE Distinct DEF Inv
  <2>0. \A x \in Callers : pc[x] \in {"join", "clearJoin"} => obj[x] \in Objects
    BY JoinHolds
  <2>1. ASSUME NEW q \in Callers, Stop(q) \/ ClearLock(q) PROVE stopReq'[obj'[p]]
    <3>1. \A x \in Actors \ {q} : pc'[x] = pc[x] /\ obj'[x] = obj[x]
      BY <2>1 DEF Stop, ClearLock, Goto, TypeInv
    <3>2. \A o \in Objects : stopReq[o] => stopReq'[o]
      BY <2>1 DEF Stop, ClearLock, TypeInv
    <3>3. CASE p = q /\ Stop(q)
      <4>1. obj[q] \in Objects
        <5>1. Known(q) /\ pc[q] = "stop" /\ handles[q] \subseteq Ids \X Objects
          BY <3>3 DEF Stop, CommandInv, TypeInv
        <5> QED BY <5>1 DEF Known
      <4> QED BY <3>3, <4>1 DEF Stop, TypeInv
    <3>4. CASE p = q /\ ClearLock(q)
      <4>1. pc'[q] = "clearJoin"
        BY <3>4 DEF ClearLock, Goto, TypeInv
      <4>2. Entry(arg[q]) # None
        BY <3>4, <4>1 DEF ClearLock, Goto, TypeInv
      <4>3. arg[q] \in Ids /\ table[arg[q]] \in Objects
        BY <4>2 DEF Entry, TypeInv
      <4> QED BY <3>4, <4>2, <4>3 DEF ClearLock, Entry, TypeInv
    <3>5. CASE p # q
      <4>1. pc[p] \in {"join", "clearJoin", "allJoin"}
        BY <3>1, <3>5
      <4>2. obj[p] \in Objects
        <5>1. CASE p \in Callers
          BY <2>0, <4>1, <5>1 DEF MainInv, CommandInv, Known
        <5>2. CASE p = Main
          BY <4>1, <5>2 DEF MainInv
        <5> QED BY <5>1, <5>2
      <4> QED BY <3>1, <3>2, <3>5, <4>1, <4>2 DEF StopHeard
    <3> QED BY <2>1, <3>3, <3>4, <3>5
  <2>2. ASSUME NEW q \in Callers, Join(q) PROVE stopReq'[obj'[p]]
    <3>1. /\ pc[q] = "join" /\ pc[Main] = "idle"
          /\ stopReq' = [stopReq EXCEPT ![obj[q]] = FALSE]
          /\ pc'[q] = "idle" /\ \A x \in Actors \ {q} : pc'[x] = pc[x] /\ obj'[x] = obj[x]
      BY <2>2 DEF Join, Return, Goto, TypeInv, MainInv
    <3>2. p # q /\ p \in Callers /\ pc[p] \in {"join", "clearJoin"}
      <4>1. p # q /\ pc[p] \in {"join", "clearJoin", "allJoin"}
        BY <3>1
      <4>2. p \in Callers
        BY <3>1, <4>1
      <4> QED BY <4>1, <4>2 DEF CommandInv, Known
    <3>3. /\ arg[q] \in Ids /\ obj[q] \in Objects /\ idOf[obj[q]] = arg[q]
          /\ Holds(q, arg[q])
      BY <3>1, JoinHolds
    <3>4. obj[p] \in Objects /\ idOf[obj[p]] = arg[p] /\ Holds(p, arg[p])
      BY <3>2, JoinHolds
    <3>5. obj[p] # obj[q]
      BY <3>2, <3>3, <3>4 DEF HoldInv
    <3> QED BY <3>1, <3>2, <3>4, <3>5 DEF StopHeard, TypeInv
  <2>3. CASE ClearAllStop
    <3>1. PICK i \in Ids : /\ Left(i)
                           /\ obj' = [obj EXCEPT ![Main] = table[i]]
                           /\ stopReq' = [stopReq EXCEPT ![table[i]] = TRUE]
      BY <2>3 DEF ClearAllStop
    <3>2. p = Main /\ table[i] \in Objects
      BY <2>3, <3>1 DEF ClearAllStop, Goto, TypeInv, MainInv, Left
    <3> QED BY <3>1, <3>2 DEF TypeInv
  <2>4. ASSUME UNCHANGED stopReq, pc'[p] = pc[p] /\ obj'[p] = obj[p] PROVE stopReq'[obj'[p]]
    BY <2>4 DEF StopHeard
  <2>5. ASSUME NEW q \in Callers,
               \/ \E o \in Objects : New(q, o)
               \/ \E i \in Ids, c \in {"send", "startAgain", "stopAgain"} : LookUp(q, i, c)
               \/ \E i \in Ids \cup Strays : Clear(q, i)
               \/ CtorLock(q) \/ CtorInsert(q) \/ Bind(q) \/ LookUpAgain(q) \/ Send(q) \/ Start(q)
               \/ ClearMiss(q) \/ ClearJoin(q) \/ ClearFree(q) \/ ClearErase(q)
        PROVE  stopReq'[obj'[p]]
    <3>1. UNCHANGED stopReq
      BY <2>5 DEF New, LookUp, Clear, CtorLock, CtorInsert, Bind, LookUpAgain, Send, Start,
         ClearMiss,
         ClearJoin, ClearFree, ClearErase
    <3>2. pc'[q] \notin {"join", "clearJoin", "allJoin"}
      BY <2>5 DEF New, LookUp, Clear, CtorLock, CtorInsert, Bind, LookUpAgain, Send, Start,
         ClearMiss,
         ClearJoin, ClearFree, ClearErase, Return, Goto, TypeInv
    <3>3. \A x \in Actors \ {q} : pc'[x] = pc[x] /\ obj'[x] = obj[x]
      BY <2>5 DEF New, LookUp, Clear, CtorLock, CtorInsert, Bind, LookUpAgain, Send, Start,
         ClearMiss,
         ClearJoin, ClearFree, ClearErase, Return, Goto, TypeInv
    <3> QED BY <2>4, <3>1, <3>2, <3>3
  <2>6. CASE ClearAll \/ ClearAllFree \/ ClearAllDone
    <3>1. p # Main /\ UNCHANGED stopReq
      BY <2>6 DEF ClearAll, ClearAllFree, ClearAllDone, Goto, TypeInv
    <3> QED BY <2>4, <2>6, <3>1 DEF ClearAll, ClearAllFree, ClearAllDone, Goto, TypeInv
  <2>7. CASE \/ \E o \in Objects : NetEvent(o) \/ NetStep(o) \/ NetLock(o)
             \/ LoopLock \/ LoopUnlock \/ UNCHANGED vars
    BY <2>4, <2>7 DEF NetEvent, NetStep, NetLookUp, NetUse, NetCapture, NetAdd, NetLock, LoopLock,
       LoopUnlock, vars, cmdVars
  <2> QED BY <2>1, <2>2, <2>3, <2>5, <2>6, <2>7 DEF Next, Command, ExitStep, Terminated
<1> QED BY <1>1, <1>2, Invariant, PTL DEF Spec
================================================================================
