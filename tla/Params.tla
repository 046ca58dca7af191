--------------------------------- MODULE Params ---------------------------------
(***************************************************************************)
(* The parameters of a server or client ref, and the 4D objects that carry *)
(* them: setInitParams, setParams and getParams of both classes, and the   *)
(* conversions ob_get_* and ob_set_* they are written with.                *)
(*                                                                         *)
(* Every command applies the 4D object it gets, so what a ref does later   *)
(* depends on which object 4D code passes: the one it got last, edited or  *)
(* not, or a copy it made some time before.                                *)
(*                                                                         *)
(* Values are abstracted to the number of the edit that wrote them, so     *)
(* that greater means newer; 0 stands for the number 0 and the empty text, *)
(* and BuiltIn for what the library takes when nothing is given.  The keys *)
(* of the object under perMessageDeflate are keys of their own here.       *)
(***************************************************************************)
EXTENDS Integers

CONSTANTS
  EditedKeys,    \* the keys that 4D code writes
  MaxEdits       \* bound: edits of the 4D objects

TextKeys == {"method", "worker"}
NumberKeys == {"window", "process"}
AddressNumbers == {"port", "backlog", "maxConnections"}
AddressKeys == AddressNumbers \cup {"host"}
Flags == {"enableAutomaticReconnection", "enablePong"}
Bits == {"clientMaxWindowBits", "serverMaxWindowBits"}

\* What a ref remembers, what the library keeps of a client, and what setParams,
\* setInitParams and getParams read or write.
MemberKeys == TextKeys \cup NumberKeys
ReportOnly == {"isAutomaticReconnectionEnabled", "perMessageDeflateOptions"}
Keys == MemberKeys \cup AddressKeys \cup Flags \cup Bits \cup ReportOnly
          \cup {"ref", "url", "perMessageDeflate", "enabled", "disablePerMessageDeflate"}

ASSUME EditsAssumption == EditedKeys \subseteq Keys \ ReportOnly /\ MaxEdits \in Nat

BuiltIn == -1
Id == 1                          \* the number of the ref
Amounts == BuiltIn .. MaxEdits + 1
Kinds == {"absent", "text", "real", "boolean", "object", "null"}

VARIABLES
  role,          \* "server" or "client"
  careful,       \* whether 4D code passes no older copies
  phase,         \* "none", then "stopped" or "running"
  member,        \* _method, _worker, _window, _process
  address,       \* _port, _host, _backlog, _maxConnections
  served,        \* the address that the library's server was made with
  client,        \* the library's client: url, reconnection, pong, compression
  newest,        \* the 4D object that 4D code got last, edited or not
  copy,          \* a copy that 4D code made of it before
  edits,         \* edits so far
  given          \* history: the window bits that 4D code gave last, by side

refVars == <<phase, member, address, served, client>>
vars == <<role, careful, refVars, newest, copy, edits, given>>

(***************************************************************************)
(* 4D objects: ob_set_*, ob_is_defined and ob_get_*.                       *)
(***************************************************************************)

Value(kind, val) == [kind |-> kind, val |-> val]
Empty == [k \in Keys |-> Value("absent", 0)]

IsDefined(o, k) == o[k].kind # "absent"

\* A number or text of the wrong kind is 0 or empty.
GetN(o, k) == IF o[k].kind = "real" THEN o[k].val ELSE 0
GetS(o, k) == IF o[k].kind = "text" THEN o[k].val ELSE 0

\* ob_get_a leaves the text as it was when the value is no text.
GetA(o, k, old) == IF o[k].kind = "text" THEN o[k].val ELSE old

GetB(o, k) == o[k].kind = "boolean" /\ o[k].val # 0

\* ob_get_o gives a null reference for any other value.
GetO(o, k) == o[k].kind = "object"

\* A number comes back as a real, although ob_set_i writes a longint.
SetN(val) == Value("real", val)
SetS(val) == Value("text", val)
SetB(val) == Value("boolean", IF val THEN 1 ELSE 0)
SetO == Value("object", 0)

(***************************************************************************)
(* The refs.                                                               *)
(***************************************************************************)

NoMembers == [k \in MemberKeys |-> 0]
BuiltInAddress == [k \in AddressKeys |-> BuiltIn]
BuiltInOptions == [enabled |-> FALSE, clientBits |-> BuiltIn, serverBits |-> BuiltIn]
NewClient == [url |-> 0, reconnect |-> TRUE, pong |-> TRUE, options |-> BuiltInOptions]

\* setInitParams of a server: before the library's object is made.
InitParams(o) ==
  [k \in AddressKeys |-> IF ~IsDefined(o, k) THEN BuiltIn
                         ELSE IF k = "host" THEN GetS(o, k) ELSE GetN(o, k)]

\* setParams, the part that both classes have.
SetMembers(m, o) ==
  [k \in MemberKeys |-> IF ~IsDefined(o, k) THEN m[k]
                        ELSE IF k \in TextKeys THEN GetA(o, k, m[k]) ELSE GetN(o, k)]

SetFlag(old, o, k) == IF IsDefined(o, k) THEN GetB(o, k) ELSE old

\* WebSocketPerMessageDeflateOptions(enabled, ..., serverMaxWindowBits,
\* clientMaxWindowBits), whose parameters are in the other order: the bits given
\* for the server become the client's, and those left out become 0.
GivenOptions(o) ==
  [enabled |-> GetB(o, "enabled"),
   clientBits |-> GetN(o, "serverMaxWindowBits"), serverBits |-> GetN(o, "clientMaxWindowBits")]

\* An object under perMessageDeflate wins over disablePerMessageDeflate, and any
\* other value there hides it; FALSE there gives back the options of the library.
SetOptions(old, o) ==
  IF IsDefined(o, "perMessageDeflate")
  THEN IF GetO(o, "perMessageDeflate") THEN GivenOptions(o) ELSE old
  ELSE IF ~IsDefined(o, "disablePerMessageDeflate") THEN old
  ELSE IF GetB(o, "disablePerMessageDeflate") THEN [old EXCEPT !.enabled = FALSE]
  ELSE BuiltInOptions

\* setParams of a client: what it hands on to the library.
SetClient(c, o) ==
  [url |-> IF IsDefined(o, "url") THEN GetS(o, "url") ELSE c.url,
   reconnect |-> SetFlag(c.reconnect, o, "enableAutomaticReconnection"),
   pong |-> SetFlag(c.pong, o, "enablePong"),
   options |-> SetOptions(c.options, o)]

\* getParams of a server and of a client, into an empty object.
ReportServer(m, a) ==
  [k \in Keys |-> CASE k = "ref" -> SetN(Id)
                    [] k \in TextKeys -> SetS(m[k])
                    [] k \in NumberKeys -> SetN(m[k])
                    [] k = "host" -> SetS(a[k])
                    [] k \in AddressNumbers -> SetN(a[k])
                    [] OTHER -> Empty[k]]

\* Faulty: the options are reported under the key that setParams reads.
ReportReadably(m, c) ==
  [k \in Keys |-> CASE k = "ref" -> SetN(Id)
                    [] k \in TextKeys -> SetS(m[k])
                    [] k \in NumberKeys -> SetN(m[k])
                    [] k = "url" -> SetS(c.url)
                    [] k = "perMessageDeflate" -> SetO
                    [] k = "enabled" -> SetB(c.options.enabled)
                    [] k = "clientMaxWindowBits" -> SetN(c.options.clientBits)
                    [] k = "serverMaxWindowBits" -> SetN(c.options.serverBits)
                    [] OTHER -> Empty[k]]

ReportClient(m, c) ==
  [k \in Keys |-> CASE k = "ref" -> SetN(Id)
                    [] k \in TextKeys -> SetS(m[k])
                    [] k \in NumberKeys -> SetN(m[k])
                    [] k = "url" -> SetS(c.url)
                    [] k = "isAutomaticReconnectionEnabled" -> SetB(c.reconnect)
                    [] k = "perMessageDeflateOptions" -> SetO
                    [] OTHER -> Empty[k]]

Report(m, a, c) == IF role = "server" THEN ReportServer(m, a) ELSE ReportClient(m, c)

(***************************************************************************)
(* 4D code writes into an object, or copies it.                            *)
(***************************************************************************)

\* What 4D code may put under a key: nothing, a value of the right kind, or null.
Writable(k, n) ==
  {Value("absent", 0), Value("null", 0)} \cup
  CASE k \in TextKeys \cup {"host", "url"} -> {Value("text", n)}
    [] k \in NumberKeys \cup AddressNumbers \cup Bits -> {Value("real", n)}
    [] k \in Flags \cup {"enabled", "disablePerMessageDeflate"} ->
         {Value("boolean", 0), Value("boolean", 1)}
    [] k = "perMessageDeflate" -> {Value("object", 0)}
    [] OTHER -> {}

Edit(k) ==
  /\ edits < MaxEdits
  /\ edits' = edits + 1
  /\ \E v \in Writable(k, edits + 1) : newest' = [newest EXCEPT ![k] = v]
  /\ UNCHANGED <<role, careful, refVars, copy, given>>

Copy ==
  /\ ~careful
  /\ copy' = newest
  /\ UNCHANGED <<role, careful, refVars, newest, edits, given>>

(***************************************************************************)
(* Commands.                                                               *)
(***************************************************************************)

Init ==
  /\ role \in {"server", "client"} /\ careful \in BOOLEAN
  /\ phase = "none"
  /\ member = NoMembers
  /\ address = BuiltInAddress /\ served = BuiltInAddress
  /\ client = NewClient
  /\ newest = Empty /\ copy = Empty
  /\ edits = 0
  /\ given = [clientBits |-> BuiltIn, serverBits |-> BuiltIn]

Note(o) ==
  given' = IF role = "client" /\ GetO(o, "perMessageDeflate")
           THEN [clientBits |-> GetN(o, "clientMaxWindowBits"),
                 serverBits |-> GetN(o, "serverMaxWindowBits")]
           ELSE IF role = "client" /\ SetOptions(client.options, o) = BuiltInOptions
           THEN [clientBits |-> BuiltIn, serverBits |-> BuiltIn] ELSE given

\* Websocket server: the constructor, then getParams.
CreateServer(o) ==
  /\ role = "server" /\ phase = "none"
  /\ phase' = "stopped"
  /\ address' = InitParams(o)
  /\ served' = address'
  /\ member' = SetMembers(member, o)
  /\ newest' = ReportServer(member', address')
  /\ Note(o)
  /\ UNCHANGED <<role, careful, client, copy, edits>>

\* Websocket client: setParams in the constructor and once more, then getParams.
CreateClient(o) ==
  /\ role = "client" /\ phase = "none"
  /\ phase' = "stopped"
  /\ member' = SetMembers(SetMembers(member, o), o)
  /\ client' = SetClient(SetClient(client, o), o)
  /\ newest' = ReportClient(member', client')
  /\ Note(o)
  /\ UNCHANGED <<role, careful, address, served, copy, edits>>

\* Faulty: the result of the look-up is not tested.
ApplyUntested(o) ==
  /\ member' = SetMembers(member, o)
  /\ client' = IF role = "client" THEN SetClient(client, o) ELSE client
  /\ Note(o)
  /\ UNCHANGED <<role, careful, address, served, copy, edits>>

\* The other commands find the ref by the number in the object, and apply it.
Apply(o) ==
  /\ phase # "none"
  /\ GetN(o, "ref") = Id
  /\ member' = SetMembers(member, o)
  /\ client' = IF role = "client" THEN SetClient(client, o) ELSE client
  /\ Note(o)
  /\ UNCHANGED <<role, careful, address, served, copy, edits>>

\* start goes on when listen or connect succeeds; it returns no parameters.
Start(o) ==
  /\ Apply(o)
  /\ phase' \in {phase, "running"}
  /\ UNCHANGED newest

Send(o) == Apply(o) /\ UNCHANGED <<phase, newest>>

\* Faulty: stop reports what was in force before.
StopReportsFirst(o) ==
  /\ Apply(o)
  /\ newest' \in {newest, Report(member, address, client)}
  /\ phase' = "stopped"

\* stop returns what is in force then; 4D code goes on with that or with its own
\* object.
Stop(o) ==
  /\ Apply(o)
  /\ newest' \in {newest, Report(member', address', client')}
  /\ phase' = "stopped"

Command(o) == CreateServer(o) \/ CreateClient(o) \/ Start(o) \/ Send(o) \/ Stop(o)

Next ==
  \/ \E k \in EditedKeys : Edit(k)
  \/ Copy
  \/ Command(newest)
  \/ ~careful /\ Command(copy)

Spec == Init /\ [][Next]_vars

--------------------------------------------------------------------------------
(***************************************************************************)
(* Properties.                                                             *)
(***************************************************************************)

Objects == [Keys -> [kind : Kinds, val : Amounts]]
Options == [enabled : BOOLEAN, clientBits : Amounts, serverBits : Amounts]

\* Type invariant of the ref, the library's objects and the 4D objects; before
\* there is a ref no command sets anything.
TypeOK ==
  /\ role \in {"server", "client"} /\ careful \in BOOLEAN
  /\ phase \in {"none", "stopped", "running"}
  /\ member \in [MemberKeys -> Amounts]
  /\ address \in [AddressKeys -> Amounts] /\ served \in [AddressKeys -> Amounts]
  /\ client \in [url : Amounts, reconnect : BOOLEAN, pong : BOOLEAN, options : Options]
  /\ newest \in Objects /\ copy \in Objects
  /\ edits \in 0 .. MaxEdits
  /\ given \in [clientBits : Amounts, serverBits : Amounts]
  /\ phase = "none" => member = NoMembers /\ client = NewClient

\* What stop returns can be passed to any command without changing anything, and
\* a server made from it serves the same address.
RoundTrip ==
  LET o == Report(member, address, client) IN
    /\ SetMembers(member, o) = member
    /\ SetClient(client, o) = client
    /\ role = "server" => InitParams(o) = served

\* For 4D code that keeps to the object it got last, edited or not, a parameter
\* that changes takes a newer value, or 0 for a value of the wrong kind: that
\* start, send and stop apply their object again and again never undoes anything.
Misfit(k) == IsDefined(newest, k) /\ newest[k].kind \notin {"text", "real"}

NewerOrMisfit(old, new, k) == new >= old \/ Misfit(k)

NothingUndone ==
  [][careful => /\ \A k \in MemberKeys : NewerOrMisfit(member[k], member'[k], k)
                /\ NewerOrMisfit(client.url, client'.url, "url")]_vars

\* The bits that the library uses for one side are those that 4D code gave for
\* it: the constructor of the options takes clientMaxWindowBits before
\* serverMaxWindowBits.
BitsAsGiven ==
  /\ client.options.clientBits = given.clientBits
  /\ client.options.serverBits = given.serverBits
================================================================================
