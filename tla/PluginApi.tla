------------------------------- MODULE PluginApi -------------------------------
(***************************************************************************)
(* The 4D plugin API: what its functions do between the plugin and the     *)
(* engine of 4D, as far as errors, handles and query lines go.             *)
(*                                                                         *)
(* A function is a program, a sequence of steps: it fills an EngineBlock,  *)
(* calls the engine with it, which leaves an error in fError, and stores   *)
(* that in sErrorCode, a variable of the thread that PA_GetLastError       *)
(* returns.  Many functions also call each other, and each such call       *)
(* stores an error of its own.  ApiFunctions says which functions share a  *)
(* program; what they ask of the engine, and the values they carry, are    *)
(* left out.                                                               *)
(*                                                                         *)
(* A handle that is live can be unlocked and disposed of without error.    *)
(* Locking one can fail, but only the functions that close a query or an   *)
(* order by look; the others would use the null pointer they get, so there *)
(* the model takes locks to succeed.                                       *)
(***************************************************************************)
EXTENDS Integers, Sequences, ApiFunctions

CONSTANTS
  Threads,
  Busy,          \* bound: the threads that call more than plain functions
  LineLimit,     \* the lines that an order by or a query may have (32000)
  MaxAsked       \* bound: lines asked for

ASSUME ApiAssumption ==
  /\ Busy \subseteq Threads
  /\ LineLimit \in Nat /\ MaxAsked \in Nat
  /\ \A f, g \in Functions : f[1] = g[1] => f = g

VARIABLES
  slot,          \* sErrorCode of each thread
  call,          \* the API call that each thread is in
  order          \* the order by or query that each thread builds

vars == <<slot, call, order>>

Errors == {"none", "error"}
NoCall == [class |-> "none", todo |-> <<>>, block |-> "none", failed |-> {}, wrote |-> FALSE,
           handles |-> 0, locks |-> 0]

\* open: there is a handle, with this number of lines; asked and told are
\* history: the lines asked for, and whether an error was returned for one.
NoOrder == [kind |-> "none", open |-> FALSE, lines |-> 0, asked |-> 0, told |-> FALSE]

Init ==
  /\ slot = [t \in Threads |-> "none"]
  /\ call = [t \in Threads |-> NoCall]
  /\ order = [t \in Threads |-> NoOrder]

(***************************************************************************)
(* Programs.  Most steps are named for what they do; "sub" is a call of    *)
(* another function that is plain itself, "recall" a second call of the    *)
(* engine with the block as it was left.                                   *)
(***************************************************************************)

Plain == <<"call", "store">>

\* fError is not set before the call.
Raw == <<"rawcall", "store">>

\* Faulty: the handle of the parameters is not disposed of.
ExecuteKeeping == <<"make", "lock", "call", "unlock", "store">>

Execute == <<"make", "lock", "call", "unlock", "dispose", "store">>

ExecuteMethod ==
  <<"make", "lock", "unlock", "call", "lock", "unlock", "dispose", "store">>

\* Simple kinds, kinds with contents, arrays, and arrays with an element 0 that
\* has contents.
NewVariable ==
  {<<>>, <<"sub">>, <<"make", "lock", "unlock", "give">>,
   <<"make", "lock", "sub", "unlock", "give">>}

NewObject == {<<"sub">>, <<"sub">> \o Execute, <<"sub", "sub">> \o Execute \o <<"sub">>}

\* Elements are cleared before the handle shrinks, and made after it grew.
ResizeArray ==
  {<<>>} \cup {before \o <<"size">> \o after :
                 before \in {<<>>, <<"lock", "sub", "unlock">>},
                 after \in {<<>>, <<"lock", "unlock">>, <<"lock", "sub", "unlock">>}}

OpenLines == <<"make", "lock", "unlock", "open", "clear">>

\* Faulty: one line too many.
AddLineTooMany(o, after) ==
  IF ~o.open THEN <<"raise">>
  ELSE IF o.lines > LineLimit THEN <<"lock", "unlock", "raise">>
  ELSE <<"lock", "unlock", "sub", "size", "lock", "line", "unlock">> \o after

AddLine(o, after) ==
  IF ~o.open THEN <<"raise">>
  ELSE IF o.lines = LineLimit THEN <<"lock", "unlock", "raise">>
  ELSE <<"lock", "unlock", "sub", "size", "lock", "line", "unlock">> \o after

CloseLines(o) ==
  IF ~o.open THEN <<"raise">> ELSE <<"trylock", "run", "unlock", "dispose", "store">>

\* What the engine gave back in a handle is copied, and the handle disposed of.
Fetch == <<"call", "take">>
TakeBack == <<"iftaken", "sub", "dispose", "store">>

\* The steps after the handle is disposed of.
AfterDispose(steps) ==
  LET k == CHOOSE n \in 1 .. Len(steps) : steps[n] = "dispose" IN SubSeq(steps, k + 1, Len(steps))

Programs(c, o) ==
  CASE c = "plain"          -> {Plain}
    [] c = "silent"         -> {<<>>}
    [] c = "orNothing"      -> {<<>>, Plain}
    [] c = "compare"        -> {<<"clear">>, <<"clear">> \o Plain}
    [] c = "raw"            -> {Raw}
    [] c = "pointer"        -> {<<"clear">>, <<"clear">> \o Raw}
    [] c = "setPointer"     -> {<<"clear", "raise">>, <<"clear">> \o Raw}
    [] c = "properties"     -> {<<"clear">>, <<"clear", "sub">>, <<"clear">> \o Raw}
    [] c = "forgets"        -> {<<"rawcall", "clear">>}
    [] c = "modal"          -> {<<"rawcall">>}
    [] c = "areaEvent"      -> {<<"clear">>, <<"raise">>}
    [] c = "keyEvent"       -> {Raw, <<"raise">>}
    [] c = "redraw"         -> {Plain, <<"raise">>}
    [] c = "axis"           -> {<<>>, <<"clear">>, <<"sub">>}
    [] c = "newWindow"      -> {Plain \o <<"recall", "store">>}
    [] c = "highlight"      -> {<<"call", "recall", "store">>}
    [] c = "command"        -> {Execute}
    [] c = "commandOrNothing" -> {<<>>, Execute}
    [] c = "stringify"      -> {Execute \o <<"sub">>}
    [] c = "jsonParse"      -> {Execute, <<"sub">> \o Execute}
    [] c = "createObject"   -> NewObject
    [] c = "method"         -> {ExecuteMethod}
    [] c = "length"         -> {<<"sub">> \o Plain \o <<"sub">>}
    [] c = "createVariable" -> NewVariable
    [] c = "resize"         -> ResizeArray
    [] c = "setPicture"     -> {<<>>, <<"rawsub">>}
    [] c = "setPictureInArray" -> {<<>>, <<"lock", "unlock">>, <<"lock", "rawsub", "unlock">>}
    [] c = "setInArray"     -> {<<>>, <<"lock", "unlock">>, <<"lock", "sub", "unlock">>}
    [] c = "toBuffer"       -> {Plain, Plain \o <<"ifclear", "sub">>}
    [] c = "intoValue"      -> {<<>>, <<"copy", "give">>}
    [] c = "intoField"      -> {Plain, <<"copy", "call", "give", "store">>}
    [] c = "keepsCopy"      -> {Plain, <<"copy", "call", "store">>}
    [] c = "convert"        -> {Plain, <<"copy", "call", "store", "iftaken", "dispose">>}
    [] c = "packedSet"      -> {Plain, <<"copy", "call", "iftaken", "dispose", "store">>}
    [] c = "swap"           -> {Plain, <<"copy", "call">> \o TakeBack}
    [] c = "packedGet"      -> {Fetch \o TakeBack}
    [] c = "idList"         -> {Fetch \o TakeBack,
                                Fetch \o <<"iftaken", "sub", "lock", "unlock", "dispose", "store">>}
    [] c = "tokenize"       -> {Fetch \o <<"iftaken", "subifclear", "dispose", "store">>}
    [] c = "receive"        -> {<<"rawcall", "take", "store", "subiftaken", "dispose">>}
    [] c = "setResource"    -> {Plain, Plain \o <<"ifclear", "size", "lock", "unlock",
                                                  "recall", "store">>}
    [] c = "printInfo"      -> {<<"clear">>, <<"sub">> \o Plain, <<"sub", "call", "sub", "store">>}
    [] c = "orderBy"        -> {<<"make", "lock", "call", "unlock", "dispose", "freed", "store">>}
    [] c = "openLines"      -> {OpenLines}
    [] c = "addQuery"       -> {AddLine(o, <<>>)}
    [] c = "addOrder"       -> {AddLine(o, <<"clear">>)}
    [] c = "closeLines"     -> {CloseLines(o)}

(***************************************************************************)
(* The plugin calls a function, which takes its steps and returns.         *)
(***************************************************************************)

LineClasses == {"openLines", "addOrder", "addQuery", "closeLines"}

\* What a plugin may call: its lines belong to the order by or query it began.
Callable(c, o) ==
  CASE c = "openLines"  -> o.kind = "none"
    [] c = "addOrder"   -> o.kind = "orderBy" /\ o.asked < MaxAsked
    [] c = "addQuery"   -> o.kind = "query" /\ o.asked < MaxAsked
    [] c = "closeLines" -> o.kind # "none"
    [] OTHER            -> TRUE

Begin(o, c, kind) ==
  IF c = "openLines" THEN [o EXCEPT !.kind = kind]
  ELSE IF c \in {"addOrder", "addQuery"} THEN [o EXCEPT !.asked = @ + 1] ELSE o

Call(t, c) ==
  /\ call[t] = NoCall
  /\ t \in Busy \/ c = "plain"
  /\ Callable(c, order[t])
  /\ \E steps \in Programs(c, order[t]) :
       call' = [call EXCEPT ![t] = [NoCall EXCEPT !.class = c, !.todo = steps]]
  /\ \E kind \in {"orderBy", "query"} : order' = [order EXCEPT ![t] = Begin(@, c, kind)]
  /\ UNCHANGED slot

\* Faulty: one error code for all threads.
SlotShared(t) == CHOOSE u \in Threads : TRUE

\* sErrorCode is a variable of each thread.
Slot(t) == t

Returns(t) == call[t].class # "none" /\ call[t].todo = <<>>

Return(t) ==
  /\ Returns(t)
  /\ call' = [call EXCEPT ![t] = NoCall]
  /\ order' = [order EXCEPT ![t] =
                 IF call[t].class = "closeLines" THEN NoOrder
                 ELSE [order[t] EXCEPT !.told = @ \/ /\ call[t].class \in LineClasses
                                                     /\ slot[Slot(t)] = "error"]]
  /\ UNCHANGED slot

At(t, step) == call[t].todo # <<>> /\ Head(call[t].todo) = step

\* The call goes on with these changes; a function without a test goes on with
\* its next step, whatever happened.
Following(t) == [call[t] EXCEPT !.todo = Tail(@)]
Stopped(t) == [call[t] EXCEPT !.todo = <<>>]
Blame(c, e, who) == IF e = "error" THEN [c EXCEPT !.failed = @ \cup {who}] ELSE c
Goes(t, c) == call' = [call EXCEPT ![t] = c]

\* sErrorCode = e, and the call goes on.
Puts(t, e, c) ==
  /\ slot' = [slot EXCEPT ![Slot(t)] = e]
  /\ Goes(t, [c EXCEPT !.wrote = TRUE])
  /\ UNCHANGED order

\* The engine sets fError when it fails; otherwise it may leave it as it was.
Results(t) ==
  [call |-> Errors, run |-> Errors, rawcall |-> Errors \cup {"junk"},
   recall |-> Errors \cup {call[t].block}]

EngineCall(t) ==
  /\ \E step \in DOMAIN Results(t) :
       /\ At(t, step)
       /\ \E e \in Results(t)[step] :
            Goes(t, Blame([Following(t) EXCEPT !.block = e], e, "main"))
  /\ UNCHANGED <<slot, order>>

Store(t) == At(t, "store") /\ Puts(t, call[t].block, Following(t))
Clear(t) == At(t, "clear") /\ Puts(t, "none", Following(t))
Raise(t) == At(t, "raise") /\ Puts(t, "error", Blame(Following(t), "error", "main"))

\* Another function of the API, whose own error is what stays.
SubCall(t) ==
  \/ At(t, "sub") /\ \E e \in Errors : Puts(t, e, Blame(Following(t), e, "sub"))
  \/ At(t, "rawsub") /\ \E e \in Errors \cup {"junk"} : Puts(t, e, Blame(Following(t), e, "sub"))
  \/ At(t, "subifclear") /\ slot[Slot(t)] = "none"
       /\ \E e \in Errors : Puts(t, e, Blame(Following(t), e, "sub"))
  \/ At(t, "subiftaken") /\ call[t].handles > 0
       /\ \E e \in Errors : Puts(t, e, Blame(Following(t), e, "sub"))

\* Tests of sErrorCode or of a handle that leave a step, or the rest, out.
Skip(t) ==
  /\ \/ At(t, "subifclear") /\ slot[Slot(t)] # "none" /\ Goes(t, Following(t))
     \/ At(t, "subiftaken") /\ call[t].handles = 0 /\ Goes(t, Following(t))
     \/ At(t, "ifclear") /\ Goes(t, IF slot[Slot(t)] = "none" THEN Following(t) ELSE Stopped(t))
     \/ At(t, "iftaken") /\ Goes(t, IF call[t].handles > 0 THEN Following(t)
                                    ELSE [call[t] EXCEPT !.todo = AfterDispose(@)])
  /\ UNCHANGED <<slot, order>>

\* PA_NewHandle; without a handle there is nothing more to do.
Make(t) ==
  /\ At(t, "make")
  /\ \/ Puts(t, "none", [Following(t) EXCEPT !.handles = @ + 1])
     \/ Puts(t, "error", Blame(Stopped(t), "error", "main"))

\* FromUserData: a handle with a copy of the data, or none.
Copy(t) ==
  /\ At(t, "copy")
  /\ \/ Puts(t, "none", [Following(t) EXCEPT !.handles = @ + 1])
     \/ Puts(t, "error", Blame(Following(t), "error", "sub"))

\* The engine gives a handle in the block, unless it failed; or it, a variable or
\* the caller takes over the one there is.
Take(t) ==
  /\ \/ At(t, "take") /\ \E n \in IF call[t].block = "error" THEN {0} ELSE {0, 1} :
          Goes(t, [Following(t) EXCEPT !.handles = @ + n])
     \/ At(t, "give") /\ Goes(t, [Following(t) EXCEPT !.handles = IF @ > 0 THEN @ - 1 ELSE 0])
  /\ UNCHANGED <<slot, order>>

Lock(t) == At(t, "lock") /\ Puts(t, "none", [Following(t) EXCEPT !.locks = @ + 1])
Unlock(t) == At(t, "unlock") /\ Puts(t, "none", [Following(t) EXCEPT !.locks = @ - 1])

\* PA_DisposeHandle, of a null handle too.
Dispose(t) ==
  At(t, "dispose") /\ Puts(t, "none", [Following(t) EXCEPT !.handles = IF @ > 0 THEN @ - 1 ELSE 0])

\* The block was in the handle that is gone.
ReadFreed(t) ==
  /\ At(t, "freed")
  /\ \E e \in {call[t].block, "junk"} : Goes(t, [Following(t) EXCEPT !.block = e])
  /\ UNCHANGED <<slot, order>>

\* Faulty: the error of PA_SetHandleSize is gone.
ResizeSilently(t) ==
  /\ At(t, "size")
  /\ Puts(t, "none", Following(t)) \/ Puts(t, "none", Blame(Stopped(t), "error", "main"))

\* PA_SetHandleSize returns whether it succeeded.
Resize(t) ==
  /\ At(t, "size")
  /\ Puts(t, "none", Following(t)) \/ Puts(t, "error", Blame(Stopped(t), "error", "main"))

\* The handle of the lines: from PA_OpenQuery to the caller, one line more, and
\* from the caller to PA_CloseQuery.
Lines(t) ==
  \/ /\ At(t, "open")
     /\ order' = [order EXCEPT ![t].open = TRUE]
     /\ Goes(t, [Following(t) EXCEPT !.handles = @ - 1])
     /\ UNCHANGED slot
  \/ /\ At(t, "line")
     /\ order' = [order EXCEPT ![t].lines = @ + 1]
     /\ Goes(t, Following(t))
     /\ UNCHANGED slot
  \/ /\ At(t, "trylock")
     /\ \/ Puts(t, "none", [Following(t) EXCEPT !.handles = 1, !.locks = 1])
        \/ Puts(t, "error", [Blame(Stopped(t), "error", "lock") EXCEPT !.handles = 1])

Step(t) ==
  \/ EngineCall(t) \/ Store(t) \/ Clear(t) \/ Raise(t) \/ SubCall(t) \/ Skip(t)
  \/ Make(t) \/ Copy(t) \/ Take(t) \/ Lock(t) \/ Unlock(t) \/ Dispose(t) \/ ReadFreed(t)
  \/ Resize(t) \/ Lines(t)

Next == \E t \in Threads : (\E c \in Classes : Call(t, c)) \/ Step(t) \/ Return(t)

Spec == Init /\ [][Next]_vars

--------------------------------------------------------------------------------
(***************************************************************************)
(* Properties.                                                             *)
(***************************************************************************)

\* Type invariant of the error codes, the calls and the queries; a query never
\* has more lines than its limit, and nothing is unlocked that was not locked.
TypeOK ==
  /\ slot \in [Threads -> Errors \cup {"junk"}]
  /\ \A t \in Threads :
       /\ call[t].class \in Classes \cup {"none"}
       /\ call[t].block \in Errors \cup {"junk"}
       /\ call[t].failed \subseteq {"main", "sub", "lock"}
       /\ call[t].wrote \in BOOLEAN
       /\ call[t].handles \in 0 .. 2 /\ call[t].locks \in 0 .. 1
       /\ order[t].kind \in {"none", "orderBy", "query"}
       /\ order[t].open \in BOOLEAN /\ order[t].told \in BOOLEAN
       /\ order[t].lines \in 0 .. LineLimit /\ order[t].asked \in 0 .. MaxAsked

\* The functions whose failure PA_GetLastError may not tell: fError was not set
\* before the call, a later step stores its own success, the code is cleared or
\* never stored, or the block is read after it was freed.
Forgetful ==
  {"raw", "pointer", "setPointer", "properties", "keyEvent", "setPicture",
   "newWindow", "highlight", "createObject", "stringify", "length", "convert", "receive",
   "forgets", "modal", "orderBy"}

\* For every other function PA_GetLastError tells the caller, in its own thread,
\* that the function failed, and tells of no failure there was not: all the other
\* functions that it calls on the way leave no error of theirs in its place.
CallerIsTold ==
  \A t \in Threads : Returns(t) /\ call[t].class \notin Forgetful =>
    /\ call[t].failed \cap {"main", "lock"} # {} => slot[Slot(t)] = "error"
    /\ call[t].wrote => /\ slot[Slot(t)] # "junk"
                        /\ slot[Slot(t)] = "error" => call[t].failed # {}

\* Whatever fails on the way, a function returns with no handle locked, and every
\* handle it made disposed of or handed over; only the two that copy a picture for
\* an editor or a converter keep the copy, and a query whose lock fails when it is
\* closed stays behind.
HandlesBalanced ==
  \A t \in Threads : Returns(t) =>
    /\ call[t].locks = 0
    /\ call[t].class # "keepsCopy" /\ "lock" \notin call[t].failed => call[t].handles = 0

\* A query or order by runs with every line that was asked for, unless one of the
\* functions it was made with returned an error.
QueryWhole ==
  \A t \in Threads : At(t, "run") => order[t].told \/ order[t].lines = order[t].asked
================================================================================
