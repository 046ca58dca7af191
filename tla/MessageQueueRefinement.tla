------------------------- MODULE MessageQueueRefinement -------------------------
(***************************************************************************)
(* The message list implements the event stream, and what a messages       *)
(* command returns: both from the invariant of MessageQueueProofs.         *)
(***************************************************************************)
EXTENDS MessageQueueProofs

USE ThreadsAssumption, DataAssumption DEF ThreadsAssumption, DataAssumption

Pending == IF HeadTaken THEN Tail(messages) ELSE messages
Arrived == Len(added)
Closed  == mainPc \notin {"running", "deleteList"}

StreamVars == <<Pending, executed, Arrived, Closed>>

--------------------------------------------------------------------------------
(***************************************************************************)
(* When the first message counts as handed over.                           *)
(***************************************************************************)

\* Lengths, and the last call is for the message of the highest number.
LEMMA LastCall ==
  ASSUME SafetyInv
  PROVE  /\ Len(messages) \in Nat /\ Len(added) \in Nat /\ Len(executed) \in Nat
         /\ Erased \in Nat /\ Erased = Len(added) - Len(messages)
         /\ executed # <<>> => Len(executed) \in 1 .. Len(executed)
         /\ \A i \in 1 .. Len(executed) :
              /\ executed[i].id \in 1 .. Len(added)
              /\ executed[i].id <= executed[Len(executed)].id
              /\ executed[i].id <= Erased + 1
<1> USE DEF SafetyInv, ControlInv, DataInv, TypeOK
<1>1. /\ Len(messages) \in Nat /\ Len(added) \in Nat /\ Len(executed) \in Nat
      /\ Erased \in Nat /\ Erased = Len(added) - Len(messages)
  BY DEF ListIsSuffixOfAdded, Erased
<1>2. executed # <<>> => Len(executed) \in 1 .. Len(executed)
  BY TailFacts
<1>3. ASSUME NEW i \in 1 .. Len(executed)
      PROVE  /\ executed[i].id \in 1 .. Len(added)
             /\ executed[i].id <= executed[Len(executed)].id
             /\ executed[i].id <= Erased + 1
  <2>1. executed[i].id \in 1 .. Len(added) /\ executed[i].id <= Erased + 1
    BY DEF ExecutedInOrderOnce, HandledInv
  <2>2. CASE i = Len(executed)
    BY <1>1, <2>1, <2>2
  <2>3. CASE i # Len(executed)
    <3>1. i < Len(executed) /\ Len(executed) \in 1 .. Len(executed)
      BY <1>1, <2>3
    <3>2. /\ executed[i].id < executed[Len(executed)].id
          /\ executed[Len(executed)].id \in 1 .. Len(added)
      BY <3>1 DEF ExecutedInOrderOnce
    <3> QED
      BY <1>1, <2>1, <3>2
  <2> QED
    BY <2>1, <2>2, <2>3
<1> QED
  BY <1>1, <1>2, <1>3

\* Nothing is taken while all calls are for erased messages.
LEMMA NotTaken ==
  ASSUME SafetyInv, \A i \in 1 .. Len(executed) : executed[i].id <= Erased
  PROVE  ~HeadTaken
<1> SUFFICES ASSUME executed # <<>> PROVE ~(executed[Len(executed)].id > Erased)
  BY DEF HeadTaken
<1>1. Len(executed) \in 1 .. Len(executed)
  BY LastCall
<1> QED
  BY <1>1, LastCall

\* The message that the loop is about to erase is taken exactly if it is callable.
LEMMA TakenAtErase ==
  ASSUME SafetyInv, loopPc = "erase"
  PROVE  HeadTaken <=> Callable(Head(messages))
<1>1. messages # <<>> /\ Head(messages) = added[Erased + 1] /\ Head(messages).id = Erased + 1
  BY HeadNumber DEF SafetyInv, ControlInv, DataInv, NonEmptyInv
<1>2. ASSUME Callable(Head(messages)) PROVE HeadTaken
  <2>1. PICK j \in 1 .. Len(executed) : executed[j] = Head(messages)
    BY <1>2 DEF SafetyInv, DataInv, EraseInv
  <2>2. executed # <<>>
    BY <2>1, LastCall
  <2>3. Len(executed) \in 1 .. Len(executed)
    BY <2>2, LastCall
  <2>4. executed[Len(executed)].id \in Nat /\ Erased + 1 <= executed[Len(executed)].id
    BY <1>1, <2>1, <2>3, LastCall
  <2> QED
    BY <1>1, <2>2, <2>4, LastCall DEF HeadTaken
<1>3. ASSUME HeadTaken PROVE Callable(Head(messages))
  <2>1. Len(executed) \in 1 .. Len(executed) /\ executed[Len(executed)].id > Erased
    BY <1>3, LastCall DEF HeadTaken
  <2>2. executed[Len(executed)].id = Erased + 1
    BY <2>1, LastCall
  <2>3. /\ executed[Len(executed)] = added[executed[Len(executed)].id]
        /\ Callable(executed[Len(executed)])
    BY <2>1 DEF SafetyInv, DataInv, ExecutedInOrderOnce
  <2> QED
    BY <1>1, <2>2, <2>3
<1> QED
  BY <1>2, <1>3

\* Once the first message is erased, the new first message is not taken.
LEMMA NotTakenAfterErase ==
  ASSUME SafetyInv, SafetyInv', executed' = executed, Erased' = Erased + 1
  PROVE  ~HeadTaken'
<1>1. \A i \in 1 .. Len(executed) : executed[i].id <= Erased + 1
  BY LastCall
<1> SUFFICES ASSUME executed # <<>> PROVE ~(executed[Len(executed)].id > Erased + 1)
  BY DEF HeadTaken
<1>2. Len(executed) \in 1 .. Len(executed) /\ executed[Len(executed)].id \in Nat /\ Erased \in Nat
  BY LastCall
<1> QED
  BY <1>1, <1>2

\* Appending at the end and taking from the front do not meet.
LEMMA TailOfAppend ==
  ASSUME NEW S, NEW s \in Seq(S), s # <<>>, NEW e \in S
  PROVE  Tail(Append(s, e)) = Append(Tail(s), e)
<1>1. /\ Append(s, e) \in Seq(S) /\ Append(s, e) # <<>>
      /\ Len(Append(s, e)) = Len(s) + 1
      /\ \A i \in 1 .. Len(s) : Append(s, e)[i] = s[i]
      /\ Append(s, e)[Len(s) + 1] = e
  BY AppendProperties
<1>2. /\ Len(s) \in Nat \ {0} /\ Tail(s) \in Seq(S) /\ Len(Tail(s)) = Len(s) - 1
      /\ \A i \in 1 .. Len(s) - 1 : Tail(s)[i] = s[i + 1]
  BY TailFacts
<1>3. /\ Tail(Append(s, e)) \in Seq(S) /\ Len(Tail(Append(s, e))) = Len(s)
      /\ \A i \in 1 .. Len(s) : Tail(Append(s, e))[i] = Append(s, e)[i + 1]
  <2>1. /\ Tail(Append(s, e)) \in Seq(S) /\ Len(Tail(Append(s, e))) = Len(Append(s, e)) - 1
        /\ \A i \in 1 .. Len(Append(s, e)) - 1 : Tail(Append(s, e))[i] = Append(s, e)[i + 1]
    BY <1>1, TailFacts
  <2>2. Len(Append(s, e)) - 1 = Len(s)
    BY <1>1, <1>2
  <2> QED
    BY <2>1, <2>2
<1>4. /\ Append(Tail(s), e) \in Seq(S) /\ Len(Append(Tail(s), e)) = Len(s)
      /\ \A i \in 1 .. Len(s) - 1 : Append(Tail(s), e)[i] = Tail(s)[i]
      /\ Append(Tail(s), e)[Len(s)] = e
  <2>1. /\ Append(Tail(s), e) \in Seq(S) /\ Len(Append(Tail(s), e)) = Len(Tail(s)) + 1
        /\ \A i \in 1 .. Len(Tail(s)) : Append(Tail(s), e)[i] = Tail(s)[i]
        /\ Append(Tail(s), e)[Len(Tail(s)) + 1] = e
    BY <1>2, AppendFacts
  <2>2. Len(Tail(s)) = Len(s) - 1 /\ Len(Tail(s)) + 1 = Len(s)
    BY <1>2
  <2> QED
    BY <2>1, <2>2
<1>5. ASSUME NEW i \in 1 .. Len(s) PROVE Tail(Append(s, e))[i] = Append(Tail(s), e)[i]
  <2>1. CASE i = Len(s)
    BY <2>1, <1>1, <1>2, <1>3, <1>4
  <2>2. CASE i # Len(s)
    <3>0. Len(s) \in Nat
      BY <1>2
    <3>1. i \in 1 .. Len(s) - 1 /\ i + 1 \in 1 .. Len(s)
      BY <2>2, <3>0
    <3> QED
      BY <3>1, <1>1, <1>2, <1>3, <1>4
  <2> QED
    BY <2>1, <2>2
<1> QED
  BY <1>3, <1>4, <1>5, SeqEqual

--------------------------------------------------------------------------------
(***************************************************************************)
(* Every step of the list is a step of the stream, or none.                *)
(***************************************************************************)

\* A callback makes an event arrive.
LEMMA AddArrives ==
  ASSUME SafetyInv, NEW t \in CallbackThreads, AddMessage(t)
  PROVE  Stream!Arrive
<1>1. PICK m \in Methods : /\ messages' = Append(messages, NewMessage(t, m))
                           /\ added' = Append(added, NewMessage(t, m))
  BY DEF AddMessage
<1> DEFINE e == NewMessage(t, m)
<1>2. e \in Message /\ e \in Stream!Event(Len(added) + 1)
  BY DEF NewMessage, Message, Stream!Event, SafetyInv, ControlInv, TypeOK
<1>3. messages \in Seq(Message) /\ added \in Seq(Message)
  BY DEF SafetyInv, ControlInv, TypeOK
<1>4. UNCHANGED <<executed, mainPc>>
  BY DEF AddMessage, loopVars
<1>5. /\ Len(added') = Len(added) + 1 /\ Len(messages') = Len(messages) + 1
      /\ messages' # <<>>
  BY <1>1, <1>2, <1>3, AppendProperties
<1>6. Erased' = Erased
  BY <1>5, LastCall DEF Erased
<1>7. Pending' = Append(Pending, e)
  <2>1. CASE messages = <<>>
    <3>1. Erased = Len(added)
      BY <2>1, LastCall
    <3>2. ~HeadTaken'
      <4> SUFFICES ASSUME executed # <<>> PROVE ~(executed[Len(executed)].id > Erased)
        BY <1>4, <1>6 DEF HeadTaken
      <4>1. Len(executed) \in 1 .. Len(executed)
        BY LastCall
      <4> QED
        BY <3>1, <4>1, LastCall
    <3> QED
      BY <1>1, <2>1, <3>2 DEF Pending, HeadTaken
  <2>2. CASE messages # <<>>
    <3>1. HeadTaken' <=> HeadTaken
      BY <1>4, <1>5, <1>6, <2>2 DEF HeadTaken
    <3>2. Tail(messages') = Append(Tail(messages), e)
      BY <1>1, <1>2, <1>3, <2>2, TailOfAppend
    <3> QED
      BY <1>1, <3>1, <3>2 DEF Pending
  <2> QED
    BY <2>1, <2>2
<1> QED
  BY <1>2, <1>4, <1>5, <1>7 DEF Stream!Arrive, Pending

\* The call of a method executes the oldest event.
LEMMA CallExecutes ==
  ASSUME SafetyInv, LoopExecute
  PROVE  Stream!Execute
<1>1. /\ loopPc = "next" /\ messages # <<>> /\ Callable(Head(messages))
      /\ UNCHANGED <<messages, added, mainPc>>
  BY DEF LoopExecute, cbVars
<1>2. mainPc = "running"
  BY <1>1 DEF SafetyInv, ControlInv, ExitInv
<1>3. ~HeadTaken
  BY <1>1, NotTaken DEF SafetyInv, DataInv, HandledInv
<1>4. /\ executed' = Append(executed, Head(messages))
      /\ Len(executed') = Len(executed) + 1
      /\ executed'[Len(executed) + 1] = Head(messages)
      /\ Head(messages).id = Erased + 1
  BY ExecuteEffect DEF SafetyInv, ControlInv, DataInv
<1>5. Erased' = Erased /\ Erased \in Nat /\ Len(executed) \in Nat
  BY <1>1, LastCall DEF Erased
<1>6. executed' # <<>>
  BY <1>4, <1>5
<1>7. HeadTaken'
  BY <1>1, <1>4, <1>5, <1>6 DEF HeadTaken
<1> QED
  BY <1>1, <1>2, <1>3, <1>4, <1>7 DEF Stream!Execute, Callable

\* Erasing a handled message is invisible; erasing one with no method passes over it.
LEMMA ErasePasses ==
  ASSUME SafetyInv, SafetyInv', [Next]_vars, LoopErase
  PROVE  Stream!PassOver \/ UNCHANGED StreamVars
<1>1. /\ loopPc = "erase" /\ messages' = Tail(messages)
      /\ UNCHANGED <<executed, added, mainPc>>
  BY DEF LoopErase, cbVars
<1>2. messages # <<>>
  BY <1>1 DEF SafetyInv, ControlInv, NonEmptyInv
<1>3. Erased' = Erased + 1
  BY ErasedStep DEF SafetyInv, ControlInv, DataInv
<1>4. ~HeadTaken'
  BY <1>1, <1>3, NotTakenAfterErase
<1>5. HeadTaken <=> Callable(Head(messages))
  BY <1>1, TakenAtErase
<1>6. CASE Callable(Head(messages))
  BY <1>1, <1>4, <1>5, <1>6 DEF StreamVars, Pending, Arrived, Closed
<1>7. CASE ~Callable(Head(messages))
  BY <1>1, <1>2, <1>4, <1>5, <1>7 DEF Stream!PassOver, Callable
<1> QED
  BY <1>6, <1>7

\* OnExit closes the stream and then discards what is left.
LEMMA ExitCloses ==
  ASSUME SafetyInv, SafetyInv', [Next]_vars, OnExit
  PROVE  Stream!Close \/ Stream!Discard \/ UNCHANGED StreamVars
<1> USE DEF loopVars, cbVars, pollVars
<1>1. CASE DeleteEventQueue \/ JoinThreads
  BY <1>1 DEF DeleteEventQueue, JoinThreads, StreamVars, Pending, HeadTaken, Erased, Arrived, Closed
<1>2. CASE DeleteMessageList
  BY <1>2 DEF DeleteMessageList, Stream!Close, HeadTaken, Erased
<1>3. CASE ClearList /\ messages = <<>>
  BY <1>3 DEF ClearList, StreamVars, Pending, HeadTaken, Erased, Arrived, Closed
<1>4. CASE ClearList /\ messages # <<>>
  <2>1. /\ mainPc = "clear" /\ messages' = Tail(messages)
        /\ UNCHANGED <<executed, added, mainPc>>
    BY <1>4 DEF ClearList
  <2>2. Erased' = Erased + 1
    <3>1. Len(messages) \in Nat /\ Len(messages') = Len(messages) - 1
      BY <1>4, <2>1, TailFacts DEF SafetyInv, ControlInv, TypeOK
    <3>2. Erased = Len(added) - Len(messages) /\ Len(added) \in Nat
      BY LastCall
    <3>3. Erased' = Len(added) - Len(messages')
      BY <2>1 DEF Erased
    <3> QED
      BY <3>1, <3>2, <3>3
  <2>3. ~HeadTaken'
    BY <2>1, <2>2, NotTakenAfterErase
  <2>4. CASE HeadTaken
    BY <2>1, <2>3, <2>4 DEF StreamVars, Pending, Arrived, Closed
  <2>5. CASE ~HeadTaken
    BY <1>4, <2>1, <2>3, <2>5 DEF Stream!Discard
  <2> QED
    BY <2>4, <2>5
<1> QED
  BY <1>1, <1>2, <1>3, <1>4 DEF OnExit

\* All other steps are invisible to the stream.
LEMMA OthersInvisible ==
  ASSUME [Next]_vars, ~LoopExecute, ~LoopErase, ~OnExit,
         ~ \E t \in CallbackThreads : AddMessage(t)
  PROVE  UNCHANGED StreamVars
<1>1. UNCHANGED <<messages, added, executed, mainPc>>
  <2> USE DEF loopVars, cbVars, pollVars
  <2>1. CASE UNCHANGED vars
    BY <2>1 DEF vars
  <2>2. CASE \E t \in CallbackThreads : Receive(t) \/ Callback(t)
    BY <2>2 DEF Receive, Callback, LockForAdd
  <2>3. CASE LoopStep
    BY <2>3 DEF LoopStep, LoopStart, LoopSize, LoopTryLock, LoopDrained,
                LoopSkip, LoopReturn, LoopUnlock, LoopUntil
  <2>4. CASE \E p \in Pollers : Poll(p) \/ \E e \in Endpoints : PollBegin(p, e)
    BY <2>4 DEF Poll, PollTryLock, PollScan, PollUnlock, PollBegin
  <2>5. CASE HostKillsProcess
    BY <2>5 DEF HostKillsProcess
  <2>6. CASE Terminated
    BY <2>6 DEF Terminated, vars
  <2> QED
    BY <2>1, <2>2, <2>3, <2>4, <2>5, <2>6 DEF Next
<1> QED
  BY <1>1 DEF StreamVars, Pending, HeadTaken, Erased, Arrived, Closed

\* The initial list is the initial stream.
LEMMA StreamInit == Init => Stream!Init
  BY DEF Init, Stream!Init, HeadTaken

\* Every step of the list is one step of the stream or none.
LEMMA StreamStep ==
  ASSUME SafetyInv, SafetyInv', [Next]_vars
  PROVE  [Stream!Next]_(Stream!vars)
<1>1. UNCHANGED StreamVars => UNCHANGED Stream!vars
  BY DEF StreamVars, Pending, Arrived, Closed, Stream!vars
<1> QED
  BY <1>1, AddArrives, CallExecutes, ErasePasses, ExitCloses, OthersInvisible DEF Stream!Next

\* Threads, mutex, half-done erasures and OnExit together behave as one stream
\* of events, each handed over at most once and in order.
THEOREM StreamImplemented == Spec => ImplementsStream
<1>1. SafetyInv /\ SafetyInv' /\ [Next]_vars => [Stream!Next]_(Stream!vars)
  BY StreamStep
<1> QED
  BY <1>1, StreamInit, SafetyCorrect, PTL DEF Spec, ImplementsStream, Stream!Spec

--------------------------------------------------------------------------------
(***************************************************************************)
(* What a messages command returns.                                        *)
(***************************************************************************)

\* Until the event-queue process dies or OnExit begins, its loop is not over.
RunningInv ==
  ~dying /\ mainPc = "running" => /\ loopPc # "done"
                                  /\ loopPc # "start" => ~exitFlag

\* What a messages command has copied is in the list while it holds the mutex.
CopiedInv ==
  \A p \in Pollers : pollPc[p] \in {"scan", "unlock"} =>
    \A i \in 1 .. Len(pollResult[p]) : \E k \in 1 .. Len(messages) :
      pollResult[p][i] = messages[k]

\* A command begins with nothing copied.
EmptyInv == \A p \in Pollers : pollPc[p] \in {"idle", "tryLock"} => pollResult[p] = <<>>

PollInv == RunningInv /\ CopiedInv /\ EmptyInv

\* The loop ends only in a dying process.
LEMMA RunningStep ==
  ASSUME SafetyInv, RunningInv, [Next]_vars
  PROVE  RunningInv'
<1> USE DEF RunningInv, loopVars, cbVars, pollVars
<1>1. CASE UNCHANGED vars \/ Terminated
  BY <1>1 DEF vars, Terminated
<1>2. CASE \E t \in CallbackThreads : Receive(t) \/ Callback(t)
  BY <1>2 DEF Receive, Callback, LockForAdd, AddMessage
<1>3. CASE LoopStep
  BY <1>3 DEF LoopStep, LoopStart, LoopSize, LoopTryLock, LoopDrained, LoopExecute,
              LoopSkip, LoopReturn, LoopErase, LoopUnlock, LoopUntil
<1>4. CASE \E p \in Pollers : Poll(p) \/ \E e \in Endpoints : PollBegin(p, e)
  BY <1>4 DEF Poll, PollTryLock, PollScan, PollUnlock, PollBegin
<1>5. CASE HostKillsProcess \/ OnExit
  BY <1>5 DEF HostKillsProcess, OnExit, DeleteEventQueue, DeleteMessageList, ClearList,
              JoinThreads
<1> QED
  BY <1>1, <1>2, <1>3, <1>4, <1>5 DEF Next

\* Only the command that holds the mutex adds to what it has copied.
LEMMA ResultChange ==
  ASSUME SafetyInv, [Next]_vars, NEW p \in Pollers
  PROVE  \/ UNCHANGED <<pollPc[p], pollResult[p]>>
         \/ \E e \in Endpoints : PollBegin(p, e)
         \/ Poll(p)
<1> USE DEF loopVars, cbVars, pollVars, SafetyInv, ControlInv, TypeOK
<1>1. CASE UNCHANGED vars \/ Terminated
  BY <1>1 DEF vars, Terminated
<1>2. CASE \E t \in CallbackThreads : Receive(t) \/ Callback(t)
  BY <1>2 DEF Receive, Callback, LockForAdd, AddMessage
<1>3. CASE LoopStep
  BY <1>3 DEF LoopStep, LoopStart, LoopSize, LoopTryLock, LoopDrained, LoopExecute,
              LoopSkip, LoopReturn, LoopErase, LoopUnlock, LoopUntil
<1>4. ASSUME NEW q \in Pollers, q # p, Poll(q) \/ \E e \in Endpoints : PollBegin(q, e)
      PROVE  UNCHANGED <<pollPc[p], pollResult[p]>>
  BY <1>4 DEF Poll, PollTryLock, PollScan, PollUnlock, PollBegin
<1>5. CASE HostKillsProcess \/ OnExit
  BY <1>5 DEF HostKillsProcess, OnExit, DeleteEventQueue, DeleteMessageList, ClearList,
              JoinThreads
<1> QED
  BY <1>1, <1>2, <1>3, <1>4, <1>5 DEF Next

\* Nobody changes the list while a command holds the mutex.
LEMMA ListFrozen ==
  ASSUME SafetyInv, [Next]_vars, NEW p \in Pollers, pollPc[p] \in {"scan", "unlock"}
  PROVE  messages' = messages
<1> USE DEF SafetyInv, ControlInv
<1>0. mutex = p /\ mainPc = "running"
  BY DEF MutexInv, ExitInv
<1>1. ASSUME NEW t \in CallbackThreads, AddMessage(t) PROVE FALSE
  BY <1>0, <1>1 DEF AddMessage, MutexInv
<1>2. ASSUME LoopErase PROVE FALSE
  BY <1>0, <1>2 DEF LoopErase, MutexInv
<1>3. ASSUME ClearList PROVE FALSE
  BY <1>0, <1>3 DEF ClearList
<1> USE DEF loopVars, cbVars, pollVars
<1>4. CASE UNCHANGED vars \/ Terminated
  BY <1>4 DEF vars, Terminated
<1>5. CASE \E t \in CallbackThreads : Receive(t) \/ Callback(t)
  BY <1>1, <1>5 DEF Receive, Callback, LockForAdd
<1>6. CASE LoopStep
  BY <1>2, <1>6 DEF LoopStep, LoopStart, LoopSize, LoopTryLock, LoopDrained, LoopExecute,
                    LoopSkip, LoopReturn, LoopUnlock, LoopUntil
<1>7. CASE \E q \in Pollers : Poll(q) \/ \E e \in Endpoints : PollBegin(q, e)
  BY <1>7 DEF Poll, PollTryLock, PollScan, PollUnlock, PollBegin
<1>8. CASE HostKillsProcess \/ OnExit
  BY <1>3, <1>8 DEF HostKillsProcess, OnExit, DeleteEventQueue, DeleteMessageList, JoinThreads
<1> QED
  BY <1>4, <1>5, <1>6, <1>7, <1>8 DEF Next

\* A command copies only what is listed.
LEMMA CopiedStep ==
  ASSUME SafetyInv, CopiedInv, EmptyInv, [Next]_vars
  PROVE  CopiedInv' /\ EmptyInv'
<1> DEFINE Copied(p) == \A i \in 1 .. Len(pollResult[p]) : \E k \in 1 .. Len(messages) :
                          pollResult[p][i] = messages[k]
<1>0. pollPc \in [Pollers -> PollPcs] /\ pollResult \in [Pollers -> Seq(Message)]
      /\ pollAt \in [Pollers -> Nat \ {0}] /\ messages \in Seq(Message)
  BY DEF SafetyInv, ControlInv, TypeOK
<1> SUFFICES ASSUME NEW p \in Pollers
             PROVE  /\ pollPc'[p] \in {"scan", "unlock"} => Copied(p)'
                    /\ pollPc'[p] \in {"idle", "tryLock"} => pollResult'[p] = <<>>
  BY DEF CopiedInv, EmptyInv
<1>1. CASE UNCHANGED <<pollPc[p], pollResult[p]>>
  BY <1>1, ListFrozen DEF CopiedInv, EmptyInv
<1>2. ASSUME NEW e \in Endpoints, PollBegin(p, e)
      PROVE  pollPc'[p] = "tryLock" /\ pollResult'[p] = <<>>
  BY <1>0, <1>2 DEF PollBegin, EmptyInv
<1>3. CASE PollTryLock(p)
  <2>1. pollResult'[p] = <<>>
    BY <1>0, <1>3 DEF PollTryLock, EmptyInv
  <2> QED
    BY <2>1
<1>4. CASE PollUnlock(p)
  BY <1>0, <1>4 DEF PollUnlock
<1>5. CASE PollScan(p)
  <2>1. pollPc[p] = "scan" /\ messages' = messages /\ pollPc'[p] \in {"scan", "unlock"}
    BY <1>0, <1>5 DEF PollScan
  <2>2. Copied(p)
    BY <2>1 DEF CopiedInv
  <2>3. CASE pollResult'[p] = pollResult[p]
    BY <2>1, <2>2, <2>3
  <2>4. CASE /\ pollAt[p] <= Len(messages)
             /\ pollResult'[p] = Append(pollResult[p], messages[pollAt[p]])
    <3>1. pollAt[p] \in 1 .. Len(messages) /\ messages[pollAt[p]] \in Message
      BY <1>0, <2>4, ElementOfSeq
    <3>2. /\ Len(pollResult'[p]) = Len(pollResult[p]) + 1
          /\ \A i \in 1 .. Len(pollResult[p]) : pollResult'[p][i] = pollResult[p][i]
          /\ pollResult'[p][Len(pollResult[p]) + 1] = messages[pollAt[p]]
      BY <1>0, <2>4, <3>1, AppendFacts
    <3>3. ASSUME NEW i \in 1 .. Len(pollResult'[p])
          PROVE  \E k \in 1 .. Len(messages) : pollResult'[p][i] = messages[k]
      <4>1. CASE i = Len(pollResult[p]) + 1
        BY <3>1, <3>2, <4>1
      <4>2. CASE i # Len(pollResult[p]) + 1
        <5>1. i \in 1 .. Len(pollResult[p])
          BY <1>0, <3>2, <4>2
        <5> QED
          BY <2>2, <3>2, <5>1
      <4> QED
        BY <4>1, <4>2
    <3> QED
      BY <2>1, <3>3
  <2> QED
    BY <1>0, <1>5, <2>3, <2>4 DEF PollScan
<1> QED
  BY <1>1, <1>2, <1>3, <1>4, <1>5, ResultChange DEF Poll

LEMMA PollCorrect == Spec => [](SafetyInv /\ PollInv)
<1>1. Init => PollInv
  BY DEF Init, PollInv, RunningInv, CopiedInv, EmptyInv
<1>2. SafetyInv /\ PollInv /\ [Next]_vars => PollInv'
  BY RunningStep, CopiedStep DEF PollInv
<1> QED
  BY <1>1, <1>2, SafetyCorrect, PTL DEF Spec

\* What a messages command returns while the loop is not being killed has not
\* been handed to a method yet.
THEOREM PolledCorrect == Spec => []PolledNotYetHandled
<1>1. SafetyInv /\ PollInv => PolledNotYetHandled
  <2> SUFFICES ASSUME SafetyInv, PollInv, NEW p \in Pollers, pollPc[p] = "unlock", ~dying,
                      NEW i \in 1 .. Len(pollResult[p]), NEW j \in 1 .. Len(executed)
               PROVE  pollResult[p][i] # executed[j]
    BY DEF PolledNotYetHandled
  <2>1. mutex = p /\ mainPc = "running"
    BY DEF SafetyInv, ControlInv, MutexInv, ExitInv
  <2>2. loopPc \in {"start", "size", "tryLock", "until"} /\ (loopPc = "until" => ~exitFlag)
    BY <2>1 DEF SafetyInv, ControlInv, MutexInv, TypeOK, LoopPcs, PollInv, RunningInv
  <2>3. executed[j].id <= Erased
    BY <2>2 DEF SafetyInv, DataInv, HandledInv
  <2>4. PICK k \in 1 .. Len(messages) : pollResult[p][i] = messages[k]
    BY DEF PollInv, CopiedInv
  <2>5. Len(messages) \in Nat /\ Len(added) \in Nat /\ Erased \in Nat
        /\ Erased = Len(added) - Len(messages) /\ executed[j].id \in Nat
    BY LastCall
  <2>6. messages[k] = added[Erased + k] /\ Erased + k \in 1 .. Len(added)
    BY <2>5 DEF SafetyInv, DataInv, ListIsSuffixOfAdded
  <2>7. messages[k].id = Erased + k
    BY <2>6 DEF SafetyInv, DataInv, ListIsSuffixOfAdded
  <2> QED
    BY <2>3, <2>4, <2>5, <2>7
<1> QED
  BY <1>1, PollCorrect, PTL
================================================================================
