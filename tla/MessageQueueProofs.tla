--------------------------- MODULE MessageQueueProofs ---------------------------
(***************************************************************************)
(* Safety of the message list for any number of callback threads, pollers  *)
(* and endpoints, any bound on the callbacks, and both values of           *)
(* EndpointsStoppedFirst.                                                  *)
(***************************************************************************)
EXTENDS MessageQueue, SequenceTheorems, TLAPS

\* Whoever is between lock and unlock owns the mutex.
MutexInv ==
  /\ \A t \in CallbackThreads : cbPc[t] = "add" => mutex = t
  /\ \A p \in Pollers : pollPc[p] \in {"scan", "unlock"} => mutex = p
  /\ loopPc \in {"next", "run", "erase", "unlock"} => mutex = Loop

\* OnExit runs when the event-queue process and the commands have ended.
ExitInv ==
  mainPc # "running" =>
    /\ loopPc = "done"
    /\ \A p \in Pollers : pollPc[p] = "idle"
    /\ EndpointsStoppedFirst => \A t \in CallbackThreads : cbPc[t] = "idle"

\* At most the first listed message was handed to its method, and none was
\* when the loop is about to look at the first message.
HandledInv ==
  /\ \A i \in 1 .. Len(executed) : executed[i].id <= Erased + 1
  /\ \/ loopPc \in {"start", "size", "tryLock", "next"}
     \/ loopPc \in {"unlock", "until"} /\ ~exitFlag
     => \A i \in 1 .. Len(executed) : executed[i].id <= Erased

\* There is a message to erase.
NonEmptyInv == loopPc \in {"run", "erase"} => messages # <<>>

\* The method of the message about to be erased was called, if it exists.
EraseInv ==
  loopPc \in {"run", "erase"} /\ Callable(Head(messages)) =>
    \E j \in 1 .. Len(executed) : executed[j] = Head(messages)

\* A call that began while dying is the last thing the loop does.
LateInv == late > 0 => late = 1 /\ dying /\ loopPc \in {"run", "unlock", "until", "done"}

ControlInv == TypeOK /\ MutexInv /\ ExitInv /\ NonEmptyInv

DataInv == ListIsSuffixOfAdded /\ HandledInv /\ ExecutedInOrderOnce /\ EraseInv /\ NoneSkipped

SafetyInv == ControlInv /\ DataInv /\ LateInv

USE ThreadsAssumption, DataAssumption DEF ThreadsAssumption, DataAssumption

--------------------------------------------------------------------------------
(***************************************************************************)
(* What the operators on lists do.                                         *)
(***************************************************************************)

LEMMA AppendFacts ==
  ASSUME NEW S, NEW s \in Seq(S), NEW e \in S
  PROVE  /\ Append(s, e) \in Seq(S)
         /\ Len(Append(s, e)) = Len(s) + 1
         /\ \A i \in 1 .. Len(s) : Append(s, e)[i] = s[i]
         /\ Append(s, e)[Len(s) + 1] = e
  BY AppendProperties

LEMMA TailFacts ==
  ASSUME NEW S, NEW s \in Seq(S), s # <<>>
  PROVE  /\ Len(s) \in Nat \ {0}
         /\ Head(s) = s[1] /\ Head(s) \in S
         /\ Tail(s) \in Seq(S)
         /\ Len(Tail(s)) = Len(s) - 1
         /\ \A i \in 1 .. Len(s) - 1 : Tail(s)[i] = s[i + 1]
  BY HeadTailProperties

--------------------------------------------------------------------------------
\* The initial values have their types.
LEMMA TypeInit == Init => TypeOK
<1> SUFFICES ASSUME Init PROVE TypeOK
  OBVIOUS
<1>1. /\ mutex \in CallbackThreads \cup Pollers \cup {Loop, NoThread}
      /\ exitFlag \in BOOLEAN /\ dying \in BOOLEAN
      /\ loopPc \in LoopPcs /\ mainPc \in MainPcs
  BY DEF Init, LoopPcs, MainPcs
<1>2. /\ cbPc \in [CallbackThreads -> CallbackPcs]
      /\ pollPc \in [Pollers -> PollPcs]
      /\ pollFor \in [Pollers -> Endpoints]
  BY DEF Init, CallbackPcs, PollPcs
<1>3. received \in 0 .. MaxMessages /\ late \in Nat
  BY DEF Init
<1>4. pollAt \in [Pollers -> Nat \ {0}]
  BY DEF Init
<1>5. <<>> \in Seq(Message)
  OBVIOUS
<1>6. pollResult \in [Pollers -> Seq(Message)]
  BY <1>5 DEF Init
<1>7. messages \in Seq(Message) /\ added \in Seq(Message) /\ executed \in Seq(Message)
  BY <1>5 DEF Init
<1> QED
  BY <1>1, <1>2, <1>3, <1>4, <1>6, <1>7 DEF TypeOK

\* Every step keeps the types, given that the loop erases only what is there.
LEMMA TypeStep ==
  ASSUME TypeOK, NonEmptyInv, [Next]_vars
  PROVE  TypeOK'
<1> USE DEF TypeOK, loopVars, cbVars, pollVars, Acquire, Release
<1>1. CASE UNCHANGED vars
  BY <1>1 DEF vars
<1>2. ASSUME NEW t \in CallbackThreads, Receive(t) PROVE TypeOK'
  BY <1>2 DEF Receive, CallbackPcs
<1>3. ASSUME NEW t \in CallbackThreads, Callback(t) PROVE TypeOK'
  <2>1. CASE LockForAdd(t)
    BY <2>1 DEF LockForAdd, CallbackPcs
  <2>2. CASE AddMessage(t)
    <3>1. PICK m \in Methods : /\ messages' = Append(messages, NewMessage(t, m))
                               /\ added' = Append(added, NewMessage(t, m))
      BY <2>2 DEF AddMessage
    <3>2. NewMessage(t, m) \in Message
      BY DEF NewMessage, Message
    <3>3. messages' \in Seq(Message) /\ added' \in Seq(Message)
      BY <3>1, <3>2
    <3> QED
      BY <2>2, <3>3 DEF AddMessage, CallbackPcs
  <2> QED
    BY <1>3, <2>1, <2>2 DEF Callback
<1>4. CASE LoopStep
  <2>1. CASE LoopStart \/ LoopSize \/ LoopTryLock \/ LoopDrained
    BY <2>1 DEF LoopStart, LoopSize, LoopTryLock, LoopDrained, LoopPcs
  <2>2. CASE LoopExecute
    <3>1. Head(messages) \in Message
      BY <2>2 DEF LoopExecute
    <3> QED
      BY <2>2, <3>1 DEF LoopExecute, LoopPcs
  <2>3. CASE LoopSkip \/ LoopReturn \/ LoopUnlock \/ LoopUntil
    BY <2>3 DEF LoopSkip, LoopReturn, LoopUnlock, LoopUntil, LoopPcs
  <2>4. CASE LoopErase
    <3>1. messages' \in Seq(Message)
      BY <2>4, TailFacts DEF LoopErase, NonEmptyInv
    <3> QED
      BY <2>4, <3>1 DEF LoopErase, LoopPcs
  <2> QED
    BY <1>4, <2>1, <2>2, <2>3, <2>4 DEF LoopStep
<1>5. ASSUME NEW p \in Pollers, Poll(p) PROVE TypeOK'
  <2>1. CASE PollTryLock(p)
    BY <2>1 DEF PollTryLock, PollPcs
  <2>3. CASE PollUnlock(p)
    <3>1. <<>> \in Seq(Message) /\ 1 \in Nat \ {0}
      OBVIOUS
    <3>2. pollAt' \in [Pollers -> Nat \ {0}] /\ pollResult' \in [Pollers -> Seq(Message)]
      BY <2>3, <3>1 DEF PollUnlock
    <3>3. pollPc' \in [Pollers -> PollPcs]
      BY <2>3 DEF PollUnlock, PollPcs
    <3> QED
      BY <2>3, <3>2, <3>3 DEF PollUnlock
  <2>2. CASE PollScan(p)
    <3>1. pollAt' \in [Pollers -> Nat \ {0}]
      <4>1. pollAt[p] + 1 \in Nat \ {0}
        OBVIOUS
      <4> QED
        BY <2>2, <4>1 DEF PollScan
    <3>5. pollPc' \in [Pollers -> PollPcs]
      BY <2>2 DEF PollScan, PollPcs
    <3>2. pollAt[p] <= Len(messages) => messages[pollAt[p]] \in Message
      BY ElementOfSeq
    <3>3. pollAt[p] <= Len(messages) =>
            Append(pollResult[p], messages[pollAt[p]]) \in Seq(Message)
      BY <3>2
    <3>4. pollResult' \in [Pollers -> Seq(Message)]
      BY <2>2, <3>3 DEF PollScan
    <3> QED
      BY <2>2, <3>1, <3>4, <3>5 DEF PollScan
  <2> QED
    BY <1>5, <2>1, <2>2, <2>3 DEF Poll
<1>6. ASSUME NEW p \in Pollers, NEW e \in Endpoints, PollBegin(p, e) PROVE TypeOK'
  BY <1>6 DEF PollBegin, PollPcs
<1>7. CASE HostKillsProcess
  BY <1>7 DEF HostKillsProcess
<1>8. CASE OnExit
  <2>1. messages # <<>> => Tail(messages) \in Seq(Message)
    BY TailFacts
  <2> QED
    BY <1>8, <2>1 DEF OnExit, DeleteEventQueue, DeleteMessageList, ClearList, JoinThreads, MainPcs
<1>9. CASE Terminated
  BY <1>9 DEF Terminated, vars
<1> QED
  BY <1>1, <1>2, <1>3, <1>4, <1>5, <1>6, <1>7, <1>8, <1>9 DEF Next

--------------------------------------------------------------------------------
\* Locking discipline: every step keeps the owner of the mutex in step with
\* the threads that are between lock and unlock.
LEMMA MutexStep ==
  ASSUME TypeOK, MutexInv, [Next]_vars
  PROVE  MutexInv'
<1> USE DEF TypeOK, MutexInv, loopVars, cbVars, pollVars, Acquire, Release
<1>1. CASE UNCHANGED vars
  BY <1>1 DEF vars
<1>2. ASSUME NEW t \in CallbackThreads, Receive(t) PROVE MutexInv'
  BY <1>2 DEF Receive
<1>3. ASSUME NEW t \in CallbackThreads, Callback(t) PROVE MutexInv'
  BY <1>3 DEF Callback, LockForAdd, AddMessage
<1>4. CASE LoopStep
  BY <1>4 DEF LoopStep, LoopStart, LoopSize, LoopTryLock, LoopDrained, LoopExecute,
              LoopSkip, LoopReturn, LoopErase, LoopUnlock, LoopUntil
<1>5. ASSUME NEW p \in Pollers, Poll(p) PROVE MutexInv'
  <2>1. CASE PollTryLock(p)
    BY <2>1 DEF PollTryLock, PollPcs
  <2>2. CASE PollScan(p)
    BY <2>2 DEF PollScan
  <2>3. CASE PollUnlock(p)
    BY <2>3 DEF PollUnlock, PollPcs
  <2> QED BY <1>5, <2>1, <2>2, <2>3 DEF Poll
<1>6. ASSUME NEW p \in Pollers, NEW e \in Endpoints, PollBegin(p, e) PROVE MutexInv'
  BY <1>6 DEF PollBegin
<1>7. CASE HostKillsProcess \/ OnExit
  BY <1>7 DEF HostKillsProcess, OnExit, DeleteEventQueue, DeleteMessageList, ClearList, JoinThreads
<1>8. CASE Terminated
  BY <1>8 DEF Terminated, vars
<1> QED
  BY <1>1, <1>2, <1>3, <1>4, <1>5, <1>6, <1>7, <1>8 DEF Next

\* Once OnExit runs, the loop and the commands stay out.
LEMMA ExitStep ==
  ASSUME TypeOK, ExitInv, [Next]_vars
  PROVE  ExitInv'
<1> USE DEF TypeOK, ExitInv, ProcessesEnded, loopVars, cbVars, pollVars
<1>1. CASE UNCHANGED vars
  BY <1>1 DEF vars
<1>2. ASSUME NEW t \in CallbackThreads, Receive(t) PROVE ExitInv'
  BY <1>2 DEF Receive
<1>3. ASSUME NEW t \in CallbackThreads, Callback(t) PROVE ExitInv'
  BY <1>3 DEF Callback, LockForAdd, AddMessage
<1>4. CASE LoopStep
  BY <1>4 DEF LoopStep, LoopStart, LoopSize, LoopTryLock, LoopDrained, LoopExecute,
              LoopSkip, LoopReturn, LoopErase, LoopUnlock, LoopUntil
<1>5. ASSUME NEW p \in Pollers, Poll(p) PROVE ExitInv'
  BY <1>5 DEF Poll, PollTryLock, PollScan, PollUnlock
<1>6. ASSUME NEW p \in Pollers, NEW e \in Endpoints, PollBegin(p, e) PROVE ExitInv'
  BY <1>6 DEF PollBegin
<1>7. CASE HostKillsProcess \/ OnExit
  BY <1>7 DEF HostKillsProcess, OnExit, DeleteEventQueue, DeleteMessageList, ClearList, JoinThreads
<1>8. CASE Terminated
  BY <1>8 DEF Terminated, vars
<1> QED
  BY <1>1, <1>2, <1>3, <1>4, <1>5, <1>6, <1>7, <1>8 DEF Next

\* Nobody shortens the list between the loop's look at it and its erase.
LEMMA NonEmptyStep ==
  ASSUME TypeOK, MutexInv, ExitInv, NonEmptyInv, [Next]_vars
  PROVE  NonEmptyInv'
<1> USE DEF TypeOK, NonEmptyInv, loopVars, cbVars, pollVars
<1>1. CASE UNCHANGED vars
  BY <1>1 DEF vars
<1>2. ASSUME NEW t \in CallbackThreads, Receive(t) PROVE NonEmptyInv'
  BY <1>2 DEF Receive
<1>3. ASSUME NEW t \in CallbackThreads, Callback(t) PROVE NonEmptyInv'
  BY <1>3 DEF Callback, LockForAdd, AddMessage, MutexInv
<1>4. CASE LoopStep
  <2>1. CASE LoopErase
    BY <2>1 DEF LoopErase
  <2>2. CASE LoopStep /\ ~LoopErase
    <3>1. messages' = messages
      BY <2>2 DEF LoopStep, LoopStart, LoopSize, LoopTryLock, LoopDrained, LoopExecute,
                  LoopSkip, LoopReturn, LoopUnlock, LoopUntil
    <3>2. loopPc' \in {"run", "erase"} => loopPc = "run" \/ messages # <<>>
      BY <2>2 DEF LoopStep, LoopStart, LoopSize, LoopTryLock, LoopDrained, LoopExecute,
                  LoopSkip, LoopReturn, LoopUnlock, LoopUntil
    <3> QED
      BY <3>1, <3>2
  <2> QED
    BY <1>4, <2>1, <2>2
<1>5. ASSUME NEW p \in Pollers, Poll(p) PROVE NonEmptyInv'
  BY <1>5 DEF Poll, PollTryLock, PollScan, PollUnlock
<1>6. ASSUME NEW p \in Pollers, NEW e \in Endpoints, PollBegin(p, e) PROVE NonEmptyInv'
  BY <1>6 DEF PollBegin
<1>7. CASE HostKillsProcess \/ OnExit
  BY <1>7 DEF HostKillsProcess, OnExit, DeleteEventQueue, DeleteMessageList, ClearList,
     JoinThreads, ExitInv
<1>8. CASE Terminated
  BY <1>8 DEF Terminated, vars
<1> QED
  BY <1>1, <1>2, <1>3, <1>4, <1>5, <1>6, <1>7, <1>8 DEF Next

\* Types and locking together are inductive.
LEMMA ControlCorrect == Spec => []ControlInv
<1>1. Init => ControlInv
  <2>1. Init => MutexInv /\ ExitInv /\ NonEmptyInv
    BY DEF Init, MutexInv, ExitInv, NonEmptyInv
  <2> QED
    BY <2>1, TypeInit DEF ControlInv
<1>2. ControlInv /\ [Next]_vars => ControlInv'
  BY TypeStep, MutexStep, ExitStep, NonEmptyStep DEF ControlInv
<1> QED
  BY <1>1, <1>2, PTL DEF Spec

\* The variables of the list and of its threads keep their types.
THEOREM TypeCorrect == Spec => []TypeOK
<1>1. ControlInv => TypeOK
  BY DEF ControlInv
<1> QED
  BY <1>1, ControlCorrect, PTL

\* The one race on the message list is OnExit clearing it while a callback is
\* inside addMessage: at any other moment one thread uses the list at a time,
\* and the callbacks never meet each other, the loop or a messages command.
THEOREM RacesOnlyAtExit ==
  Spec => [](NoListRace \/ (mainPc = "clear" /\ ~EndpointsStoppedFirst
                            /\ \E t \in CallbackThreads : ListUsers = {Main, t}))
<1>1. ControlInv => NoListRace \/ (mainPc = "clear" /\ ~EndpointsStoppedFirst
                                   /\ \E t \in CallbackThreads : ListUsers = {Main, t})
  <2> SUFFICES ASSUME ControlInv, ~NoListRace
               PROVE  /\ mainPc = "clear" /\ ~EndpointsStoppedFirst
                      /\ \E t \in CallbackThreads : ListUsers = {Main, t}
    OBVIOUS
  <2>1. mainPc = "clear"
    BY DEF ControlInv, MutexInv, ListUsers, NoListRace
  <2>2. ListUsers = {t \in CallbackThreads : cbPc[t] = "add"} \cup {Main}
    BY <2>1 DEF ControlInv, ExitInv, ListUsers
  <2>3. PICK t \in CallbackThreads : cbPc[t] = "add"
    BY <2>2 DEF NoListRace
  <2>4. ListUsers = {Main, t}
    BY <2>2, <2>3 DEF ControlInv, MutexInv
  <2> QED
    BY <2>1, <2>3, <2>4 DEF ControlInv, ExitInv
<1> QED
  BY <1>1, ControlCorrect, PTL

--------------------------------------------------------------------------------
(***************************************************************************)
(* What the list holds and what was executed.                              *)
(***************************************************************************)

\* The list changes only by an addMessage or by losing its first message.
LEMMA ListChange ==
  ASSUME TypeOK, NonEmptyInv, [Next]_vars
  PROVE  \/ UNCHANGED <<messages, added>>
         \/ \E t \in CallbackThreads : AddMessage(t)
         \/ messages # <<>> /\ messages' = Tail(messages) /\ added' = added
<1> USE DEF loopVars, cbVars, pollVars
<1>1. CASE UNCHANGED vars
  BY <1>1 DEF vars
<1>2. ASSUME NEW t \in CallbackThreads, Receive(t) \/ Callback(t)
      PROVE  UNCHANGED <<messages, added>> \/ AddMessage(t)
  BY <1>2 DEF Receive, Callback, LockForAdd
<1>3. CASE LoopErase
  BY <1>3 DEF LoopErase, NonEmptyInv
<1>4. CASE LoopStep /\ ~LoopErase
  BY <1>4 DEF LoopStep, LoopStart, LoopSize, LoopTryLock, LoopDrained, LoopExecute,
              LoopSkip, LoopReturn, LoopUnlock, LoopUntil
<1>5. ASSUME NEW p \in Pollers, Poll(p) \/ \E e \in Endpoints : PollBegin(p, e)
      PROVE  UNCHANGED <<messages, added>>
  BY <1>5 DEF Poll, PollTryLock, PollScan, PollUnlock, PollBegin
<1>6. CASE HostKillsProcess \/ DeleteEventQueue \/ DeleteMessageList \/ JoinThreads
  BY <1>6 DEF HostKillsProcess, DeleteEventQueue, DeleteMessageList, JoinThreads
<1>7. CASE ClearList
  BY <1>7 DEF ClearList
<1>8. CASE Terminated
  BY <1>8 DEF Terminated, vars
<1> QED
  BY <1>1, <1>2, <1>3, <1>4, <1>5, <1>6, <1>7, <1>8 DEF Next, OnExit

\* addMessage appends the same new message to the list and to the history.
LEMMA AddEffect ==
  ASSUME TypeOK, NEW t \in CallbackThreads, AddMessage(t)
  PROVE  \E m \in Message : /\ m.id = Len(added) + 1
                            /\ messages' = Append(messages, m)
                            /\ added' = Append(added, m)
<1>1. PICK m \in Methods : /\ messages' = Append(messages, NewMessage(t, m))
                           /\ added' = Append(added, NewMessage(t, m))
  BY DEF AddMessage
<1>2. NewMessage(t, m) \in Message /\ NewMessage(t, m).id = Len(added) + 1
  BY DEF NewMessage, Message, TypeOK
<1> QED
  BY <1>1, <1>2

\* The list stays the tail end of the history.
LEMMA ListStep ==
  ASSUME TypeOK, NonEmptyInv, ListIsSuffixOfAdded, [Next]_vars
  PROVE  ListIsSuffixOfAdded'
<1> USE DEF ListIsSuffixOfAdded, Erased, TypeOK
<1>1. CASE UNCHANGED <<messages, added>>
  BY <1>1
<1>2. ASSUME NEW t \in CallbackThreads, AddMessage(t) PROVE ListIsSuffixOfAdded'
  <2>1. PICK m \in Message : /\ m.id = Len(added) + 1
                             /\ messages' = Append(messages, m)
                             /\ added' = Append(added, m)
    BY <1>2, AddEffect
  <2>2. /\ Len(added') = Len(added) + 1 /\ added'[Len(added) + 1] = m
        /\ \A i \in 1 .. Len(added) : added'[i] = added[i]
    BY <2>1, AppendFacts
  <2>3. /\ Len(messages') = Len(messages) + 1 /\ messages'[Len(messages) + 1] = m
        /\ \A i \in 1 .. Len(messages) : messages'[i] = messages[i]
    BY <2>1, AppendFacts
  <2>4. \A i \in 1 .. Len(added') : added'[i].id = i
    BY <2>1, <2>2
  <2>5. ASSUME NEW i \in 1 .. Len(messages') PROVE messages'[i] = added'[Erased' + i]
    <3>1. Erased' = Erased /\ Erased \in Nat
      BY <2>2, <2>3
    <3>2. CASE i = Len(messages) + 1
      BY <3>1, <3>2, <2>2, <2>3
    <3>3. CASE i # Len(messages) + 1
      <4>1. i \in 1 .. Len(messages) /\ Erased + i \in 1 .. Len(added)
        BY <3>3, <2>3
      <4> QED
        BY <3>1, <4>1, <2>2, <2>3
    <3> QED
      BY <3>2, <3>3
  <2> QED
    BY <2>2, <2>3, <2>4, <2>5
<1>3. CASE messages # <<>> /\ messages' = Tail(messages) /\ added' = added
  <2>1. /\ Len(messages) \in Nat \ {0} /\ Len(messages') = Len(messages) - 1
        /\ \A i \in 1 .. Len(messages) - 1 : messages'[i] = messages[i + 1]
    BY <1>3, TailFacts
  <2>2. ASSUME NEW i \in 1 .. Len(messages') PROVE messages'[i] = added[Erased' + i]
    <3>1. i \in 1 .. Len(messages) - 1 /\ i + 1 \in 1 .. Len(messages)
      BY <2>1
    <3>2. Erased' + i = Erased + (i + 1)
      BY <2>1, <1>3
    <3> QED
      BY <3>1, <3>2, <2>1
  <2> QED
    BY <1>3, <2>1, <2>2
<1> QED
  BY <1>1, <1>2, <1>3, ListChange

\* A call that began while dying is the last one.
LEMMA LateStep ==
  ASSUME TypeOK, ExitInv, LateInv, [Next]_vars
  PROVE  LateInv'
<1> USE DEF TypeOK, LateInv, loopVars, cbVars, pollVars
<1>1. CASE UNCHANGED vars
  BY <1>1 DEF vars
<1>2. ASSUME NEW t \in CallbackThreads, Receive(t) \/ Callback(t) PROVE LateInv'
  BY <1>2 DEF Receive, Callback, LockForAdd, AddMessage
<1>3. CASE LoopStep
  BY <1>3 DEF LoopStep, LoopStart, LoopSize, LoopTryLock, LoopDrained, LoopExecute,
              LoopSkip, LoopReturn, LoopErase, LoopUnlock, LoopUntil
<1>4. ASSUME NEW p \in Pollers, Poll(p) \/ \E e \in Endpoints : PollBegin(p, e) PROVE LateInv'
  BY <1>4 DEF Poll, PollTryLock, PollScan, PollUnlock, PollBegin
<1>5. CASE HostKillsProcess \/ OnExit
  BY <1>5 DEF HostKillsProcess, OnExit, DeleteEventQueue, DeleteMessageList, ClearList, JoinThreads
<1>6. CASE Terminated
  BY <1>6 DEF Terminated, vars
<1> QED
  BY <1>1, <1>2, <1>3, <1>4, <1>5, <1>6 DEF Next

\* Messages leave the list for good, one at a time.
LEMMA ErasedStep ==
  ASSUME TypeOK, NonEmptyInv, ListIsSuffixOfAdded, [Next]_vars
  PROVE  /\ Erased \in Nat /\ Erased' \in Nat
         /\ Erased' \in {Erased, Erased + 1}
         /\ messages' = messages => Erased' = Erased \/ added' # added
         /\ LoopErase => Erased' = Erased + 1
<1> USE DEF TypeOK, ListIsSuffixOfAdded, Erased
<1>1. CASE UNCHANGED <<messages, added>>
  <2>1. ~LoopErase
    BY <1>1, TailFacts DEF LoopErase, NonEmptyInv
  <2> QED
    BY <1>1, <2>1
<1>2. ASSUME NEW t \in CallbackThreads, AddMessage(t)
      PROVE Erased' = Erased /\ ~LoopErase /\ added' # added
  <2>1. Len(added') = Len(added) + 1 /\ Len(messages') = Len(messages) + 1
    BY <1>2, AddEffect, AppendFacts
  <2>2. ~LoopErase
    BY <2>1, TailFacts DEF LoopErase, NonEmptyInv
  <2> QED
    BY <2>1, <2>2
<1>3. CASE messages # <<>> /\ messages' = Tail(messages) /\ added' = added
  BY <1>3, TailFacts
<1> QED
  BY <1>1, <1>2, <1>3, ListChange

\* The first message of the list is the one whose number comes next.
LEMMA HeadNumber ==
  ASSUME TypeOK, ListIsSuffixOfAdded, messages # <<>>
  PROVE  /\ Erased + 1 \in 1 .. Len(added)
         /\ Head(messages) = added[Erased + 1]
         /\ Head(messages).id = Erased + 1
<1>1. Len(messages) \in Nat \ {0} /\ Head(messages) = messages[1]
  BY TailFacts DEF TypeOK
<1> QED
  BY <1>1 DEF TypeOK, ListIsSuffixOfAdded, Erased

\* Only LoopExecute calls a method.
LEMMA ExecutedChange ==
  ASSUME [Next]_vars
  PROVE  executed' = executed \/ LoopExecute
<1> USE DEF loopVars, cbVars, pollVars
<1>1. CASE UNCHANGED vars
  BY <1>1 DEF vars
<1>2. ASSUME NEW t \in CallbackThreads, Receive(t) \/ Callback(t) PROVE executed' = executed
  BY <1>2 DEF Receive, Callback, LockForAdd, AddMessage
<1>3. CASE LoopStep
  BY <1>3 DEF LoopStep, LoopStart, LoopSize, LoopTryLock, LoopDrained,
              LoopSkip, LoopReturn, LoopErase, LoopUnlock, LoopUntil
<1>4. ASSUME NEW p \in Pollers, Poll(p) \/ \E e \in Endpoints : PollBegin(p, e)
      PROVE executed' = executed
  BY <1>4 DEF Poll, PollTryLock, PollScan, PollUnlock, PollBegin
<1>5. CASE HostKillsProcess \/ OnExit
  BY <1>5 DEF HostKillsProcess, OnExit, DeleteEventQueue, DeleteMessageList, ClearList, JoinThreads
<1>6. CASE Terminated
  BY <1>6 DEF Terminated, vars
<1> QED
  BY <1>1, <1>2, <1>3, <1>4, <1>5, <1>6 DEF Next

\* A call hands over the first message, after all earlier ones.
LEMMA ExecuteEffect ==
  ASSUME TypeOK, ListIsSuffixOfAdded, LoopExecute
  PROVE  /\ executed' = Append(executed, Head(messages))
         /\ Len(executed') = Len(executed) + 1
         /\ executed'[Len(executed) + 1] = Head(messages)
         /\ \A i \in 1 .. Len(executed) : executed'[i] = executed[i]
         /\ Head(messages).id = Erased + 1
         /\ Head(messages) = added[Erased + 1] /\ Erased + 1 \in 1 .. Len(added)
         /\ Callable(Head(messages))
<1>1. Head(messages) \in Message /\ executed \in Seq(Message)
  BY TailFacts DEF TypeOK, LoopExecute
<1> QED
  BY <1>1, HeadNumber, AppendFacts DEF LoopExecute

\* How the steps of the loop move the point up to which messages are handled.
LEMMA HandledStep ==
  ASSUME ControlInv, ListIsSuffixOfAdded, HandledInv, [Next]_vars
  PROVE  HandledInv'
<1> DEFINE Before(f, pc) == \/ pc \in {"start", "size", "tryLock", "next"}
                            \/ pc \in {"unlock", "until"} /\ ~f
<1>0. /\ Erased \in Nat /\ Erased' \in Nat /\ Erased' \in {Erased, Erased + 1}
      /\ LoopErase => Erased' = Erased + 1
  BY ErasedStep DEF ControlInv
<1>1. CASE LoopExecute
  <2>1. \A i \in 1 .. Len(executed') : executed'[i].id <= Erased' + 1
    <3>1. Len(executed) \in Nat
      BY DEF ControlInv, TypeOK
    <3>2. \A i \in 1 .. Len(executed) : executed'[i].id <= Erased + 1
      BY <1>1, ExecuteEffect DEF HandledInv, ControlInv
    <3>3. executed'[Len(executed) + 1].id = Erased + 1 /\ Len(executed') = Len(executed) + 1
      BY <1>1, ExecuteEffect DEF ControlInv
    <3>4. UNCHANGED <<messages, added>>
      BY <1>1 DEF LoopExecute, cbVars
    <3>5. Erased' = Erased
      BY <3>4 DEF Erased
    <3> QED
      BY <3>1, <3>2, <3>3, <3>5, <1>0
  <2>2. loopPc' = "run"
    BY <1>1 DEF LoopExecute
  <2> QED
    BY <2>1, <2>2 DEF HandledInv
<1>2. CASE ~LoopExecute
  <2>1. executed' = executed
    BY <1>2, ExecutedChange
  <2>2. \A i \in 1 .. Len(executed) : executed[i].id \in Nat
    <3>1. \A i \in 1 .. Len(executed) : executed[i] \in Message
      BY ElementOfSeq DEF ControlInv, TypeOK
    <3> QED
      BY <3>1 DEF Message
  <2>3. Before(exitFlag', loopPc') => Before(exitFlag, loopPc) \/ LoopErase
    <3> USE DEF ControlInv, TypeOK, loopVars, cbVars, pollVars
    <3>1. CASE UNCHANGED vars
      BY <3>1 DEF vars
    <3>2. CASE \E t \in CallbackThreads : Receive(t) \/ Callback(t)
      BY <3>2 DEF Receive, Callback, LockForAdd, AddMessage
    <3>3. CASE LoopStep
      BY <3>3, <1>2 DEF LoopStep, LoopStart, LoopSize, LoopTryLock, LoopDrained,
                        LoopSkip, LoopReturn, LoopUnlock, LoopUntil
    <3>4. CASE \E p \in Pollers : Poll(p) \/ \E e \in Endpoints : PollBegin(p, e)
      BY <3>4 DEF Poll, PollTryLock, PollScan, PollUnlock, PollBegin
    <3>5. CASE HostKillsProcess \/ OnExit
      BY <3>5 DEF HostKillsProcess, OnExit, DeleteEventQueue, DeleteMessageList, ClearList,
         JoinThreads
    <3>6. CASE Terminated
      BY <3>6 DEF Terminated, vars
    <3> QED
      BY <3>1, <3>2, <3>3, <3>4, <3>5, <3>6 DEF Next
  <2>4. \A i \in 1 .. Len(executed) : executed[i].id <= Erased' + 1
    BY <1>0, <2>2 DEF HandledInv
  <2>5. ASSUME Before(exitFlag', loopPc'), NEW i \in 1 .. Len(executed)
        PROVE  executed[i].id <= Erased'
    <3>1. CASE LoopErase
      BY <3>1, <1>0, <2>2 DEF HandledInv
    <3>2. CASE Before(exitFlag, loopPc)
      BY <3>2, <1>0, <2>2 DEF HandledInv
    <3> QED
      BY <2>3, <2>5, <3>1, <3>2
  <2> QED
    BY <2>1, <2>4, <2>5 DEF HandledInv
<1> QED
  BY <1>1, <1>2

\* What was added stays added.
LEMMA AddedGrows ==
  ASSUME TypeOK, NonEmptyInv, [Next]_vars
  PROVE  /\ Len(added) \in Nat /\ Len(added') \in Nat
         /\ Len(added) <= Len(added')
         /\ \A i \in 1 .. Len(added) : added'[i] = added[i]
<1> USE DEF TypeOK
<1>1. CASE added' = added
  BY <1>1
<1>2. ASSUME NEW t \in CallbackThreads, AddMessage(t)
      PROVE  /\ Len(added') = Len(added) + 1
             /\ \A i \in 1 .. Len(added) : added'[i] = added[i]
  <2>1. PICK m \in Message : added' = Append(added, m)
    BY <1>2, AddEffect
  <2> QED
    BY <2>1, AppendFacts
<1> QED
  BY <1>1, <1>2, ListChange

\* Every call is for an added message, in the order of arrival.
LEMMA ExecutedStep ==
  ASSUME ControlInv, ListIsSuffixOfAdded, HandledInv, ExecutedInOrderOnce, [Next]_vars
  PROVE  ExecutedInOrderOnce'
<1>0. /\ Len(added) \in Nat /\ Len(added') \in Nat
      /\ Len(added) <= Len(added')
      /\ \A i \in 1 .. Len(added) : added'[i] = added[i]
  BY AddedGrows DEF ControlInv
<1>1. CASE executed' = executed
  <2>1. ASSUME NEW i \in 1 .. Len(executed)
        PROVE  executed[i].id \in 1 .. Len(added') /\ executed[i] = added'[executed[i].id]
    <3>1. executed[i].id \in 1 .. Len(added) /\ executed[i] = added[executed[i].id]
      BY DEF ExecutedInOrderOnce
    <3> QED
      BY <3>1, <1>0
  <2> QED
    BY <1>1, <2>1 DEF ExecutedInOrderOnce, Callable
<1>2. CASE LoopExecute
  <2>1. /\ Len(executed') = Len(executed) + 1
        /\ executed'[Len(executed) + 1] = added[Erased + 1]
        /\ \A i \in 1 .. Len(executed) : executed'[i] = executed[i]
        /\ added[Erased + 1].id = Erased + 1 /\ Erased + 1 \in 1 .. Len(added)
        /\ Callable(added[Erased + 1])
    BY <1>2, ExecuteEffect DEF ControlInv
  <2>2. Len(executed) \in Nat
    BY DEF ControlInv, TypeOK
  <2>3. \A i \in 1 .. Len(executed) : executed[i].id \in Nat /\ executed[i].id <= Erased
    BY <1>2 DEF LoopExecute, HandledInv, ExecutedInOrderOnce
  <2>4. ASSUME NEW i \in 1 .. Len(executed')
        PROVE  /\ executed'[i].id \in 1 .. Len(added')
               /\ executed'[i] = added'[executed'[i].id]
               /\ Callable(executed'[i])
    <3>1. CASE i = Len(executed) + 1
      BY <3>1, <1>0, <2>1
    <3>2. CASE i \in 1 .. Len(executed)
      <4>1. /\ executed[i].id \in 1 .. Len(added)
            /\ executed[i] = added[executed[i].id] /\ Callable(executed[i])
        BY <3>2 DEF ExecutedInOrderOnce
      <4>2. executed'[i] = executed[i]
        BY <2>1, <3>2
      <4> QED BY <1>0, <4>1, <4>2
    <3> QED
      BY <2>1, <2>2, <3>1, <3>2
  <2>5. ASSUME NEW i \in 1 .. Len(executed'), NEW j \in 1 .. Len(executed'), i < j
        PROVE  executed'[i].id < executed'[j].id
    <3>1. i \in 1 .. Len(executed)
      BY <2>1, <2>2, <2>5
    <3>2. CASE j = Len(executed) + 1
      <4>1. Erased \in Nat
        BY ErasedStep DEF ControlInv
      <4>2. executed'[i].id \in Nat /\ executed'[i].id <= Erased /\ executed'[j].id = Erased + 1
        BY <3>1, <3>2, <2>1, <2>3
      <4> QED
        BY <4>1, <4>2
    <3>3. CASE j \in 1 .. Len(executed)
      BY <3>1, <3>3, <2>1, <2>5 DEF ExecutedInOrderOnce
    <3> QED
      BY <2>1, <2>2, <3>2, <3>3
  <2> QED
    BY <2>4, <2>5 DEF ExecutedInOrderOnce, Callable
<1> QED
  BY <1>1, <1>2, ExecutedChange

\* Between the call and the erase nobody else touches the list.
LEMMA EraseStep ==
  ASSUME ControlInv, ListIsSuffixOfAdded, EraseInv, [Next]_vars
  PROVE  EraseInv'
<1> USE DEF EraseInv, loopVars, cbVars, pollVars
<1>1. CASE LoopExecute
  <2>1. \E j \in 1 .. Len(executed') : executed'[j] = Head(messages)
    BY <1>1, ExecuteEffect DEF ControlInv, TypeOK
  <2> QED
    BY <1>1, <2>1 DEF LoopExecute
<1>2. CASE LoopStep /\ ~LoopExecute
  BY <1>2 DEF LoopStep, LoopStart, LoopSize, LoopTryLock, LoopDrained,
              LoopSkip, LoopReturn, LoopErase, LoopUnlock, LoopUntil, Callable
<1>3. CASE UNCHANGED vars \/ Terminated
  BY <1>3 DEF vars, Terminated, Callable
<1>4. ASSUME NEW t \in CallbackThreads, Receive(t) \/ Callback(t) PROVE EraseInv'
  <2>1. CASE AddMessage(t)
    <3>1. loopPc \notin {"run", "erase"}
      BY <2>1 DEF AddMessage, ControlInv, MutexInv
    <3> QED
      BY <2>1, <3>1 DEF AddMessage
  <2>2. CASE Receive(t) \/ LockForAdd(t)
    BY <2>2 DEF Receive, LockForAdd, Callable
  <2> QED
    BY <1>4, <2>1, <2>2 DEF Callback
<1>5. ASSUME NEW p \in Pollers, Poll(p) \/ \E e \in Endpoints : PollBegin(p, e) PROVE EraseInv'
  BY <1>5 DEF Poll, PollTryLock, PollScan, PollUnlock, PollBegin, Callable
<1>6. CASE ClearList \/ HostKillsProcess \/ DeleteEventQueue \/ DeleteMessageList \/ JoinThreads
  BY <1>6 DEF ClearList, HostKillsProcess, DeleteEventQueue, DeleteMessageList, JoinThreads,
              ControlInv, ExitInv, Callable
<1> QED
  BY <1>1, <1>2, <1>3, <1>4, <1>5, <1>6 DEF Next, OnExit

\* Until OnExit clears the list, a callable message leaves it only after its call.
LEMMA NoneSkippedStep ==
  ASSUME ControlInv, ListIsSuffixOfAdded, EraseInv, NoneSkipped, [Next]_vars
  PROVE  NoneSkipped'
<1>0. /\ Len(added) \in Nat /\ Len(added') \in Nat /\ Len(added) <= Len(added')
      /\ \A i \in 1 .. Len(added) : added'[i] = added[i]
      /\ Erased \in Nat /\ Erased' \in {Erased, Erased + 1} /\ Erased <= Len(added)
  <2>1. Erased <= Len(added)
    BY DEF Erased, ControlInv, TypeOK
  <2> QED
    BY <2>1, AddedGrows, ErasedStep DEF ControlInv
<1>1. ASSUME NEW j \in 1 .. Len(executed)
      PROVE  j \in 1 .. Len(executed') /\ executed'[j] = executed[j]
  BY ExecutedChange, ExecuteEffect DEF ControlInv, TypeOK
<1>2. mainPc' \in {"running", "deleteList"} => mainPc \in {"running", "deleteList"}
  <2> USE DEF loopVars, cbVars, pollVars
  <2>1. CASE OnExit
    BY <2>1 DEF OnExit, DeleteEventQueue, DeleteMessageList, ClearList, JoinThreads
  <2>2. CASE ~OnExit
    <3>1. CASE LoopStep
      BY <3>1 DEF LoopStep, LoopStart, LoopSize, LoopTryLock, LoopDrained, LoopExecute,
                  LoopSkip, LoopReturn, LoopErase, LoopUnlock, LoopUntil
    <3>2. CASE ~LoopStep
      BY <2>2, <3>2 DEF Next, vars, Terminated, HostKillsProcess, Receive, Callback, LockForAdd,
                        AddMessage, Poll, PollTryLock, PollScan, PollUnlock, PollBegin
    <3> QED
      BY <3>1, <3>2
  <2> QED
    BY <2>1, <2>2
<1>3. ASSUME mainPc' \in {"running", "deleteList"}, NEW i \in 1 .. Erased', Callable(added'[i])
      PROVE  \E j \in 1 .. Len(executed') : executed'[j] = added'[i]
  <2>1. CASE i \in 1 .. Erased
    <3>1. added'[i] = added[i]
      BY <2>1, <1>0
    <3>2. PICK j \in 1 .. Len(executed) : executed[j] = added[i]
      BY <2>1, <3>1, <1>2, <1>3 DEF NoneSkipped
    <3> QED
      BY <3>1, <3>2, <1>1
  <2>2. CASE i = Erased + 1 /\ Erased' = Erased + 1
    <3>1. messages # <<>> /\ messages' = Tail(messages) /\ added' = added
      <4>1. ~UNCHANGED <<messages, added>>
        BY <2>2, <1>0 DEF Erased
      <4>2. ASSUME NEW t \in CallbackThreads, AddMessage(t) PROVE FALSE
        <5>1. Len(added') = Len(added) + 1 /\ Len(messages') = Len(messages) + 1
          BY <4>2, AddEffect, AppendFacts DEF ControlInv, TypeOK
        <5>2. Len(messages) \in Nat
          BY DEF ControlInv, TypeOK
        <5> QED
          BY <5>1, <5>2, <2>2, <1>0 DEF Erased
      <4> QED
        BY <4>1, <4>2, ListChange DEF ControlInv
    <3>2. LoopErase
      <4>1. messages' # messages
        BY <3>1, TailFacts DEF ControlInv, TypeOK
      <4>2. ~ClearList
        BY <1>2, <1>3 DEF ClearList
      <4> QED
        BY <4>1, <4>2, <3>1 DEF Next, vars, loopVars, cbVars, pollVars,
             LoopStep, LoopStart, LoopSize, LoopTryLock, LoopDrained, LoopExecute,
             LoopSkip, LoopReturn, LoopUnlock, LoopUntil, Terminated, HostKillsProcess,
             Receive, Callback, LockForAdd, AddMessage, Poll, PollTryLock, PollScan, PollUnlock,
             PollBegin, OnExit, DeleteEventQueue, DeleteMessageList, JoinThreads
    <3>3. Head(messages) = added'[i] /\ loopPc = "erase"
      BY <2>2, <3>1, <3>2, HeadNumber DEF LoopErase, ControlInv
    <3> QED
      BY <3>3, <1>1, <1>3 DEF EraseInv
  <2> QED
    BY <2>1, <2>2, <1>0
<1> QED
  BY <1>3 DEF NoneSkipped

--------------------------------------------------------------------------------
\* The whole inductive invariant.
LEMMA SafetyCorrect == Spec => []SafetyInv
<1>1. Init => SafetyInv
  <2> SUFFICES ASSUME Init PROVE SafetyInv
    OBVIOUS
  <2>1. ControlInv
    BY TypeInit DEF Init, ControlInv, MutexInv, ExitInv, NonEmptyInv
  <2>2. Len(added) = 0 /\ Len(messages) = 0 /\ Len(executed) = 0 /\ Erased = 0
    BY DEF Init, Erased
  <2>3. DataInv /\ LateInv
    BY <2>2 DEF Init, DataInv, ListIsSuffixOfAdded, HandledInv, ExecutedInOrderOnce, EraseInv,
                NoneSkipped, LateInv
  <2> QED
    BY <2>1, <2>3 DEF SafetyInv
<1>2. SafetyInv /\ [Next]_vars => SafetyInv'
  <2> SUFFICES ASSUME SafetyInv, [Next]_vars PROVE SafetyInv'
    OBVIOUS
  <2> USE DEF SafetyInv, DataInv
  <2>1. ControlInv'
    BY TypeStep, MutexStep, ExitStep, NonEmptyStep DEF ControlInv
  <2>2. DataInv'
    BY ListStep, HandledStep, ExecutedStep, EraseStep, NoneSkippedStep DEF ControlInv
  <2>3. LateInv'
    BY LateStep DEF ControlInv
  <2> QED
    BY <2>1, <2>2, <2>3
<1> QED
  BY <1>1, <1>2, PTL DEF Spec

\* Nothing is lost, doubled or reordered in the list, in any interleaving of
\* callbacks, event loop, commands and OnExit.
THEOREM ListCorrect == Spec => []ListIsSuffixOfAdded
<1>1. SafetyInv => ListIsSuffixOfAdded
  BY DEF SafetyInv, DataInv
<1> QED
  BY <1>1, SafetyCorrect, PTL

\* Callback methods are called for added messages only, in the order of
\* arrival, at most once each, also across an aborted loop.
THEOREM ExecutionCorrect == Spec => []ExecutedInOrderOnce
<1>1. SafetyInv => ExecutedInOrderOnce
  BY DEF SafetyInv, DataInv
<1> QED
  BY <1>1, SafetyCorrect, PTL

\* No message whose method exists leaves the list unhandled before OnExit.
THEOREM NothingSkipped == Spec => []NoneSkipped
<1>1. SafetyInv => NoneSkipped
  BY DEF SafetyInv, DataInv
<1> QED
  BY <1>1, SafetyCorrect, PTL

\* A dying event-queue process begins at most one more call.
THEOREM LateCallBound == Spec => []AtMostOneLateCall
<1>1. SafetyInv => AtMostOneLateCall
  BY DEF SafetyInv, ControlInv, TypeOK, LateInv, AtMostOneLateCall
<1> QED
  BY <1>1, SafetyCorrect, PTL
================================================================================
