------------------------------ MODULE ParamsProofs ------------------------------
(***************************************************************************)
(* Theorems about Params: types, and that what stop reports can be passed  *)
(* back; and that 4D code which keeps to its newest object loses nothing.  *)
(***************************************************************************)
EXTENDS Params, TLAPS

Addresses == [AddressKeys -> Amounts]
Members == [MemberKeys -> Amounts]
Clients == [url : Amounts, reconnect : BOOLEAN, pong : BOOLEAN, options : Options]

AllTexts == TextKeys \cup {"host", "url"}
AllNumbers == NumberKeys \cup AddressNumbers

\* What the conversions return stays within the range of the values.
LEMMA Conversions ==
  ASSUME NEW o \in Objects, NEW k \in Keys, NEW old \in Amounts
  PROVE  /\ GetN(o, k) \in Amounts
         /\ GetS(o, k) \in Amounts
         /\ GetA(o, k, old) \in Amounts
         /\ GetB(o, k) \in BOOLEAN
<1>1. o[k] \in [kind : Kinds, val : Amounts]
  BY DEF Objects
<1>2. 0 \in Amounts
  BY EditsAssumption DEF Amounts, BuiltIn
<1> QED BY <1>1, <1>2 DEF GetN, GetS, GetA, GetB

LEMMA KeySets ==
  /\ MemberKeys \subseteq Keys
  /\ AddressKeys \subseteq Keys
  /\ {"enableAutomaticReconnection", "enablePong", "enabled", "clientMaxWindowBits",
      "serverMaxWindowBits", "url", "perMessageDeflate", "disablePerMessageDeflate"} \subseteq Keys
BY DEF Keys, MemberKeys, AddressKeys, Flags, Bits

LEMMA InitParamsType == \A o \in Objects : InitParams(o) \in Addresses
<1> SUFFICES ASSUME NEW o \in Objects, NEW k \in AddressKeys
             PROVE  (IF ~IsDefined(o, k) THEN BuiltIn
                     ELSE IF k = "host" THEN GetS(o, k) ELSE GetN(o, k)) \in Amounts
  BY DEF InitParams, Addresses
<1>1. BuiltIn \in Amounts
  BY EditsAssumption DEF Amounts, BuiltIn
<1> QED BY <1>1, Conversions, KeySets

LEMMA SetMembersType == \A m \in Members, o \in Objects : SetMembers(m, o) \in Members
<1> SUFFICES ASSUME NEW m \in Members, NEW o \in Objects, NEW k \in MemberKeys
             PROVE  (IF ~IsDefined(o, k) THEN m[k]
                     ELSE IF k \in TextKeys THEN GetA(o, k, m[k]) ELSE GetN(o, k)) \in Amounts
  BY DEF SetMembers, Members
<1>1. m[k] \in Amounts
  BY DEF Members
<1> QED BY <1>1, Conversions, KeySets

LEMMA SetOptionsType == \A old \in Options, o \in Objects : SetOptions(old, o) \in Options
<1> SUFFICES ASSUME NEW old \in Options, NEW o \in Objects PROVE SetOptions(old, o) \in Options
  OBVIOUS
<1>1. GivenOptions(o) \in Options
  <2>1. 0 \in Amounts
    BY EditsAssumption DEF Amounts, BuiltIn
  <2> QED BY <2>1, Conversions, KeySets DEF GivenOptions, Options
<1>2. BuiltInOptions \in Options
  BY EditsAssumption DEF BuiltInOptions, Options, Amounts, BuiltIn
<1>3. [old EXCEPT !.enabled = FALSE] \in Options
  BY DEF Options
<1> QED BY <1>1, <1>2, <1>3 DEF SetOptions

LEMMA SetClientType == \A c \in Clients, o \in Objects : SetClient(c, o) \in Clients
<1> SUFFICES ASSUME NEW c \in Clients, NEW o \in Objects PROVE SetClient(c, o) \in Clients
  OBVIOUS
<1>1. SetOptions(c.options, o) \in Options
  BY SetOptionsType DEF Clients
<1>2. (IF IsDefined(o, "url") THEN GetS(o, "url") ELSE c.url) \in Amounts
  <2>1. c.url \in Amounts
    BY DEF Clients
  <2> QED BY <2>1, Conversions, KeySets
<1>3. /\ SetFlag(c.reconnect, o, "enableAutomaticReconnection") \in BOOLEAN
      /\ SetFlag(c.pong, o, "enablePong") \in BOOLEAN
  BY DEF SetFlag, GetB, Clients
<1>4. \A u \in Amounts, r \in BOOLEAN, q \in BOOLEAN, x \in Options :
        [url |-> u, reconnect |-> r, pong |-> q, options |-> x] \in Clients
  BY DEF Clients
<1>5. [url |-> IF IsDefined(o, "url") THEN GetS(o, "url") ELSE c.url,
       reconnect |-> SetFlag(c.reconnect, o, "enableAutomaticReconnection"),
       pong |-> SetFlag(c.pong, o, "enablePong"),
       options |-> SetOptions(c.options, o)] \in Clients
  <2> HIDE DEF Options
  <2> QED BY <1>1, <1>2, <1>3, <1>4, Zenon
<1> QED BY <1>5 DEF SetClient

LEMMA ReportServerType == \A m \in Members, a \in Addresses : ReportServer(m, a) \in Objects
<1> SUFFICES ASSUME NEW m \in Members, NEW a \in Addresses, NEW k \in Keys
             PROVE  ReportServer(m, a)[k] \in [kind : Kinds, val : Amounts]
  BY DEF Objects, ReportServer
<1>1. Id \in Amounts /\ 0 \in Amounts
  BY EditsAssumption DEF Id, Amounts, BuiltIn
<1>2. CASE k \in MemberKeys
  BY <1>2 DEF ReportServer, SetN, SetS, Value, Kinds, Members, MemberKeys, TextKeys, NumberKeys,
              AddressNumbers
<1>3. CASE k \in AddressKeys
  BY <1>3 DEF ReportServer, SetN, SetS, Value, Kinds, Addresses, TextKeys, NumberKeys,
              AddressKeys, AddressNumbers
<1>4. CASE k \notin MemberKeys \cup AddressKeys
  BY <1>1, <1>4 DEF ReportServer, SetN, Value, Kinds, Empty, MemberKeys, AddressKeys
<1> QED BY <1>2, <1>3, <1>4

LEMMA ReportClientType == \A m \in Members, c \in Clients : ReportClient(m, c) \in Objects
<1> SUFFICES ASSUME NEW m \in Members, NEW c \in Clients, NEW k \in Keys
             PROVE  ReportClient(m, c)[k] \in [kind : Kinds, val : Amounts]
  BY DEF Objects, ReportClient
<1>1. Id \in Amounts /\ 0 \in Amounts /\ 1 \in Amounts
  BY EditsAssumption DEF Id, Amounts, BuiltIn
<1>2. CASE k \in MemberKeys
  BY <1>2 DEF ReportClient, SetN, SetS, Value, Kinds, Members, MemberKeys, TextKeys, NumberKeys
<1>3. CASE k \notin MemberKeys
  BY <1>1, <1>3 DEF ReportClient, SetN, SetS, SetB, SetO, Value, Kinds, Empty, MemberKeys, Clients
<1> QED BY <1>2, <1>3

(***************************************************************************)
(* TypeOK.                                                                 *)
(***************************************************************************)

LEMMA InitType == Init => TypeOK
<1> SUFFICES ASSUME Init PROVE TypeOK
  OBVIOUS
<1>1. 0 \in Amounts /\ BuiltIn \in Amounts
  BY EditsAssumption DEF Amounts, BuiltIn
<1>2. Empty \in Objects
  BY <1>1 DEF Empty, Objects, Value, Kinds
<1>3. NoMembers \in Members /\ BuiltInAddress \in Addresses /\ NewClient \in Clients
  BY <1>1 DEF NoMembers, Members, BuiltInAddress, Addresses, NewClient, Clients,
              BuiltInOptions, Options
<1> QED BY <1>1, <1>2, <1>3, EditsAssumption DEF Init, TypeOK, Members, Addresses, Clients

LEMMA NoteType ==
  ASSUME TypeOK, NEW o \in Objects, Note(o)
  PROVE  given' \in [clientBits : Amounts, serverBits : Amounts]
<1>1. /\ GetN(o, "clientMaxWindowBits") \in Amounts
      /\ GetN(o, "serverMaxWindowBits") \in Amounts
      /\ BuiltIn \in Amounts
  <2>1. 0 \in Amounts /\ BuiltIn \in Amounts
    BY EditsAssumption DEF Amounts, BuiltIn
  <2> QED BY <2>1, Conversions, KeySets
<1> QED BY <1>1 DEF Note, TypeOK

LEMMA WritableType ==
  ASSUME NEW k \in Keys, NEW n \in Amounts, NEW v \in Writable(k, n)
  PROVE  v \in [kind : Kinds, val : Amounts]
<1>1. 0 \in Amounts /\ 1 \in Amounts
  BY EditsAssumption DEF Amounts, BuiltIn
<1> QED BY <1>1 DEF Writable, Value, Kinds

LEMMA CommandType ==
  ASSUME TypeOK, NEW o \in Objects, Command(o)
  PROVE  TypeOK'
<1>1. /\ SetMembers(member, o) \in Members
      /\ SetMembers(SetMembers(member, o), o) \in Members
      /\ SetClient(client, o) \in Clients
      /\ SetClient(SetClient(client, o), o) \in Clients
      /\ InitParams(o) \in Addresses
  BY SetMembersType, SetClientType, InitParamsType DEF TypeOK, Members, Clients
<1>2. CASE CreateServer(o)
  <2>1. newest' \in Objects
    BY <1>1, <1>2, ReportServerType DEF CreateServer
  <2> QED BY <1>1, <1>2, <2>1, NoteType DEF CreateServer, TypeOK, Members, Addresses, Clients
<1>3. CASE CreateClient(o)
  <2>1. newest' \in Objects
    BY <1>1, <1>3, ReportClientType DEF CreateClient
  <2> QED BY <1>1, <1>3, <2>1, NoteType DEF CreateClient, TypeOK, Members, Addresses, Clients
<1>4. ASSUME Apply(o), newest' \in Objects, phase' \in {"stopped", "running"}
      PROVE  TypeOK'
  BY <1>1, <1>4, NoteType DEF Apply, TypeOK, Members, Addresses, Clients
<1>5. CASE Start(o)
  BY <1>4, <1>5 DEF Start, Apply, TypeOK
<1>6. CASE Send(o)
  BY <1>4, <1>6 DEF Send, Apply, TypeOK
<1>7. CASE Stop(o)
  <2>1. member' \in Members /\ client' \in Clients /\ address' \in Addresses
    BY <1>1, <1>7 DEF Stop, Apply, TypeOK, Members, Addresses, Clients
  <2>2. Report(member', address', client') \in Objects
    BY <2>1, ReportServerType, ReportClientType DEF Report
  <2> QED BY <1>4, <1>7, <2>2 DEF Stop, TypeOK
<1> QED BY <1>2, <1>3, <1>5, <1>6, <1>7 DEF Command

LEMMA StepType == TypeOK /\ [Next]_vars => TypeOK'
<1> SUFFICES ASSUME TypeOK, [Next]_vars PROVE TypeOK'
  OBVIOUS
<1>1. ASSUME NEW k \in EditedKeys, Edit(k) PROVE TypeOK'
  <2>1. edits + 1 \in Amounts /\ edits + 1 \in 0 .. MaxEdits
    BY <1>1, EditsAssumption DEF Edit, TypeOK, Amounts, BuiltIn
  <2>2. k \in Keys
    BY EditsAssumption
  <2>3. PICK v \in Writable(k, edits + 1) : newest' = [newest EXCEPT ![k] = v]
    BY <1>1 DEF Edit
  <2>4. v \in [kind : Kinds, val : Amounts]
    BY <2>1, <2>2, WritableType
  <2>5. newest' \in Objects
    BY <2>3, <2>4 DEF TypeOK, Objects
  <2> QED BY <1>1, <2>1, <2>5 DEF Edit, TypeOK, refVars
<1>2. CASE Copy
  BY <1>2 DEF Copy, TypeOK, refVars
<1>3. CASE Command(newest)
  BY <1>3, CommandType DEF TypeOK
<1>4. CASE Command(copy)
  BY <1>4, CommandType DEF TypeOK
<1>5. CASE UNCHANGED vars
  BY <1>5 DEF TypeOK, vars, refVars
<1> QED BY <1>1, <1>2, <1>3, <1>4, <1>5 DEF Next

\* The types of the ref, the library's objects and the 4D objects hold in every
\* reachable state, whatever 4D code writes and passes.
THEOREM TypeCorrect == Spec => []TypeOK
BY InitType, StepType, PTL DEF Spec

(***************************************************************************)
(* RoundTrip: the address that a server reports is the one it serves.      *)
(***************************************************************************)

SameAddress == address = served

LEMMA StepAddress == SameAddress /\ [Next]_vars => SameAddress'
BY DEF SameAddress, Next, vars, refVars, Edit, Copy, Command, CreateServer, CreateClient,
       Start, Send, Stop, Apply

\* A server's report sets the members and the address to what they are.
LEMMA ServerRoundTrip ==
  ASSUME NEW m \in Members, NEW a \in Addresses, NEW c \in Clients
  PROVE  /\ SetMembers(m, ReportServer(m, a)) = m
         /\ SetClient(c, ReportServer(m, a)) = c
         /\ InitParams(ReportServer(m, a)) = a
<1> DEFINE o == ReportServer(m, a)
<1>1. ASSUME NEW k \in MemberKeys PROVE SetMembers(m, o)[k] = m[k]
  <2>1. o[k] = IF k \in TextKeys THEN SetS(m[k]) ELSE SetN(m[k])
    BY KeySets DEF ReportServer, MemberKeys, TextKeys, NumberKeys, AddressNumbers
  <2> HIDE DEF o
  <2> QED BY <2>1 DEF SetMembers, IsDefined, GetA, GetN, SetS, SetN, Value
<1>2. SetMembers(m, o) = m
  BY <1>1 DEF SetMembers, Members
<1>3. ASSUME NEW k \in AddressKeys PROVE InitParams(o)[k] = a[k]
  BY KeySets DEF InitParams, ReportServer, IsDefined, GetS, GetN, SetS, SetN, Value,
                 AddressKeys, AddressNumbers, TextKeys, NumberKeys
<1>4. InitParams(o) = a
  BY <1>3 DEF InitParams, Addresses
<1>5. ASSUME NEW k \in Keys \ (MemberKeys \cup AddressKeys \cup {"ref"}) PROVE ~IsDefined(o, k)
  BY DEF ReportServer, IsDefined, Empty, Value, MemberKeys, AddressKeys
<1>6. /\ ~IsDefined(o, "url") /\ ~IsDefined(o, "enableAutomaticReconnection")
      /\ ~IsDefined(o, "enablePong") /\ ~IsDefined(o, "perMessageDeflate")
      /\ ~IsDefined(o, "disablePerMessageDeflate")
  BY <1>5, KeySets DEF MemberKeys, TextKeys, NumberKeys, AddressKeys, AddressNumbers
<1>7. SetClient(c, o) = c
  BY <1>6 DEF SetClient, SetFlag, SetOptions, Clients
<1> QED BY <1>2, <1>4, <1>7

\* A client's report sets the members and the library's client to what they are:
\* what it says of reconnection and compression is under keys nothing reads.
LEMMA ClientRoundTrip ==
  ASSUME NEW m \in Members, NEW c \in Clients
  PROVE  /\ SetMembers(m, ReportClient(m, c)) = m
         /\ SetClient(c, ReportClient(m, c)) = c
<1> DEFINE o == ReportClient(m, c)
<1>1. ASSUME NEW k \in MemberKeys PROVE SetMembers(m, o)[k] = m[k]
  BY KeySets DEF SetMembers, ReportClient, IsDefined, GetA, GetN, SetS, SetN, Value,
                 MemberKeys, TextKeys, NumberKeys
<1>2. SetMembers(m, o) = m
  BY <1>1 DEF SetMembers, Members
<1>3. ~IsDefined(o, "enableAutomaticReconnection") /\ ~IsDefined(o, "enablePong")
  BY KeySets DEF ReportClient, IsDefined, Empty, Value, TextKeys, NumberKeys
<1>4. ~IsDefined(o, "perMessageDeflate") /\ ~IsDefined(o, "disablePerMessageDeflate")
  BY KeySets DEF ReportClient, IsDefined, Empty, Value, TextKeys, NumberKeys
<1>5. o["url"] = SetS(c.url)
  BY KeySets DEF ReportClient, TextKeys, NumberKeys
<1>6. IsDefined(o, "url") /\ GetS(o, "url") = c.url
  BY <1>5 DEF IsDefined, GetS, SetS, Value
<1>7. SetClient(c, o) = c
  BY <1>3, <1>4, <1>6 DEF SetClient, SetFlag, SetOptions, Clients
<1> QED BY <1>2, <1>7

\* What stop reports can be passed to any command without changing anything, and
\* a server made from it serves the same address.
THEOREM RoundTripCorrect == Spec => []RoundTrip
<1>1. TypeOK /\ SameAddress => RoundTrip
  <2> SUFFICES ASSUME TypeOK, SameAddress PROVE RoundTrip
    OBVIOUS
  <2>1. member \in Members /\ address \in Addresses /\ client \in Clients
    BY DEF TypeOK, Members, Addresses, Clients
  <2>2. CASE role = "server"
    BY <2>1, <2>2, ServerRoundTrip DEF RoundTrip, Report, SameAddress
  <2>3. CASE role = "client"
    BY <2>1, <2>3, ClientRoundTrip DEF RoundTrip, Report
  <2> QED BY <2>2, <2>3 DEF TypeOK
<1>2. Init => SameAddress
  BY DEF Init, SameAddress
<1> QED BY <1>1, <1>2, TypeCorrect, StepAddress, PTL DEF Spec

(***************************************************************************)
(* NothingUndone: the newest object of careful 4D code holds nothing older *)
(* than the ref does.                                                      *)
(***************************************************************************)

\* Keys whose values are compared by age, and the kind a value has there.
Aged == MemberKeys \cup {"url"}
Right(k) == IF k \in NumberKeys THEN "real" ELSE "text"

InForce(k) == IF k = "url" THEN client.url ELSE member[k]

\* No value is from a later edit; a value of the newest object has the right kind
\* or none, and then it is no older than what is in force.
NewestHoldsNewer ==
  careful => \A k \in Aged :
    /\ InForce(k) <= edits /\ newest[k].val <= edits
    /\ newest[k].kind \in {Right(k), "absent", "null"}
    /\ newest[k].kind = Right(k) => newest[k].val >= InForce(k)

LEMMA AgedKeys == Aged \subseteq Keys /\ \A k \in Aged \ {"url"} : k \in MemberKeys
BY KeySets DEF Aged

\* What an object does to a key: nothing, or its value is in force, if that has the
\* right kind, or 0, if it is null.
Effect(k) ==
  \/ InForce(k)' = InForce(k)
  \/ newest[k].kind = Right(k) /\ InForce(k)' = newest[k].val
  \/ newest[k].kind = "null" /\ InForce(k)' = 0

LEMMA AppliedTwice ==
  ASSUME NEW m, NEW c, NEW o
  PROVE  /\ SetMembers(SetMembers(m, o), o) = SetMembers(m, o)
         /\ SetClient(SetClient(c, o), o).url = SetClient(c, o).url
<1>1. ASSUME NEW k \in MemberKeys
      PROVE  SetMembers(SetMembers(m, o), o)[k] = SetMembers(m, o)[k]
  BY DEF SetMembers, GetA
<1>2. SetMembers(SetMembers(m, o), o) = SetMembers(m, o)
  BY <1>1 DEF SetMembers
<1>3. SetClient(SetClient(c, o), o).url = SetClient(c, o).url
  BY DEF SetClient
<1> QED BY <1>2, <1>3

LEMMA Applied ==
  ASSUME NEW k \in Aged, newest[k].kind \in {Right(k), "absent", "null"},
         member' = SetMembers(member, newest),
         client'.url \in {client.url, SetClient(client, newest).url}
  PROVE  Effect(k)
<1>1. CASE k = "url"
  BY <1>1 DEF Effect, InForce, Right, SetClient, GetS, IsDefined, NumberKeys
<1>2. CASE k # "url"
  <2>1. k \in MemberKeys
    BY <1>2 DEF Aged
  <2>2. InForce(k) = member[k] /\ InForce(k)' = member'[k]
    BY <1>2 DEF InForce
  <2>3. member'[k] = IF ~IsDefined(newest, k) THEN member[k]
                     ELSE IF k \in TextKeys THEN GetA(newest, k, member[k]) ELSE GetN(newest, k)
    BY <2>1 DEF SetMembers
  <2> QED BY <2>1, <2>2, <2>3
          DEF Effect, Right, GetA, GetN, IsDefined, MemberKeys, TextKeys, NumberKeys
<1> QED BY <1>1, <1>2

LEMMA InitNewest == Init => NewestHoldsNewer
<1> SUFFICES ASSUME Init, NEW k \in Aged
             PROVE  /\ InForce(k) = 0 /\ edits = 0
                    /\ newest[k] = Value("absent", 0)
  BY DEF NewestHoldsNewer, Right, Value
<1> QED BY AgedKeys DEF Init, InForce, NewClient, NoMembers, Empty

\* What a report says of a key.
Reported(k) == newest'[k] \in {Value(Right(k), InForce(k)'), Value("absent", 0)}

\* A command is given the newest object, and returns that object as the newest
\* or a report of what is in force then.
LEMMA CommandNewest ==
  ASSUME TypeOK, NewestHoldsNewer, careful, UNCHANGED <<careful, edits>>,
         \A k \in Aged : Effect(k),
         newest' = newest \/ \A k \in Aged : Reported(k)
  PROVE  NewestHoldsNewer'
<1> SUFFICES ASSUME NEW k \in Aged
             PROVE  /\ InForce(k)' <= edits /\ newest'[k].val <= edits
                    /\ newest'[k].kind \in {Right(k), "absent", "null"}
                    /\ newest'[k].kind = Right(k) => newest'[k].val >= InForce(k)'
  BY DEF NewestHoldsNewer
<1>1. edits \in Nat
  BY DEF TypeOK
<1>2. newest[k].val \in Int /\ InForce(k) \in Int
  <2>1. newest[k].val \in Amounts
    BY AgedKeys DEF TypeOK, Objects
  <2>2. InForce(k) \in Amounts
    BY DEF TypeOK, InForce, Aged
  <2> QED BY <2>1, <2>2, EditsAssumption DEF Amounts, BuiltIn
<1>3. /\ InForce(k)' <= edits /\ InForce(k)' \in Int
      /\ newest[k].kind = Right(k) => newest[k].val >= InForce(k)'
  BY <1>1, <1>2 DEF NewestHoldsNewer, Effect, Right
<1>4. CASE newest' = newest
  BY <1>1, <1>2, <1>3, <1>4 DEF NewestHoldsNewer
<1>5. CASE Reported(k)
  BY <1>1, <1>3, <1>5 DEF Reported, Value, Right
<1> QED BY <1>4, <1>5

\* Every command of careful 4D code is of that kind.
LEMMA CommandEffect ==
  ASSUME TypeOK, NewestHoldsNewer, careful, Command(newest)
  PROVE  /\ UNCHANGED <<careful, edits>>
         /\ \A k \in Aged : Effect(k)
         /\ newest' = newest \/ \A k \in Aged : Reported(k)
<1>1. \A k \in Aged : newest[k].kind \in {Right(k), "absent", "null"}
  BY DEF NewestHoldsNewer
<1>2. ASSUME newest' = ReportServer(member', address'), NEW k \in Aged PROVE Reported(k)
  BY <1>2, AgedKeys DEF Aged, Reported, ReportServer, InForce, Right, SetS, SetN, Empty, MemberKeys,
                  TextKeys, NumberKeys, AddressNumbers
<1>3. ASSUME newest' = ReportClient(member', client'), NEW k \in Aged PROVE Reported(k)
  BY <1>3, AgedKeys DEF Aged, Reported, ReportClient, InForce, Right, SetS, SetN, MemberKeys,
                  TextKeys, NumberKeys
<1>4. CASE CreateServer(newest)
  BY <1>1, <1>2, <1>4, Applied DEF CreateServer
<1>5. CASE CreateClient(newest)
  BY <1>1, <1>3, <1>5, Applied, AppliedTwice DEF CreateClient
<1>6. ASSUME Apply(newest) PROVE UNCHANGED <<careful, edits>> /\ \A k \in Aged : Effect(k)
  BY <1>1, <1>6, Applied DEF Apply
<1>7. CASE Start(newest) \/ Send(newest)
  BY <1>6, <1>7 DEF Start, Send
<1>8. CASE Stop(newest)
  BY <1>2, <1>3, <1>6, <1>8 DEF Stop, Report
<1> QED BY <1>4, <1>5, <1>7, <1>8 DEF Command

LEMMA StepNewest == TypeOK /\ NewestHoldsNewer /\ [Next]_vars => NewestHoldsNewer'
<1> SUFFICES ASSUME TypeOK, NewestHoldsNewer, [Next]_vars, careful' PROVE NewestHoldsNewer'
  BY DEF NewestHoldsNewer
<1>1. ASSUME NEW e \in EditedKeys, Edit(e) PROVE NewestHoldsNewer'
  <2> SUFFICES ASSUME NEW k \in Aged
               PROVE  /\ InForce(k)' <= edits' /\ newest'[k].val <= edits'
                      /\ newest'[k].kind \in {Right(k), "absent", "null"}
                      /\ newest'[k].kind = Right(k) => newest'[k].val >= InForce(k)'
    BY DEF NewestHoldsNewer
  <2>1. careful /\ InForce(k)' = InForce(k) /\ edits' = edits + 1 /\ edits \in Nat
    BY <1>1 DEF Edit, refVars, InForce, TypeOK
  <2>2. /\ InForce(k) <= edits /\ newest[k].val <= edits
        /\ newest[k].kind \in {Right(k), "absent", "null"}
        /\ newest[k].kind = Right(k) => newest[k].val >= InForce(k)
    BY <2>1 DEF NewestHoldsNewer
  <2>3. newest[k].val \in Int /\ InForce(k) \in Int
    <3>1. newest[k].val \in Amounts
      BY AgedKeys DEF TypeOK, Objects
    <3>2. InForce(k) \in Amounts
      BY DEF TypeOK, InForce, Aged
    <3> QED BY <3>1, <3>2, EditsAssumption DEF Amounts, BuiltIn
  <2>4. CASE k # e
    BY <1>1, <2>1, <2>2, <2>3, <2>4, AgedKeys DEF Edit, TypeOK, Objects
  <2>5. CASE k = e
    <3>1. newest'[k] \in Writable(k, edits + 1)
      BY <1>1, <2>5, AgedKeys DEF Edit, TypeOK, Objects
    <3>2. newest'[k] \in {Value("absent", 0), Value("null", 0), Value(Right(k), edits + 1)}
      BY <3>1 DEF Writable, Right, Aged, MemberKeys, TextKeys, NumberKeys, AddressNumbers, Bits,
                  Flags
    <3> QED BY <2>1, <2>2, <2>3, <3>2 DEF Value, Right
  <2> QED BY <2>4, <2>5
<1>2. CASE Copy
  BY <1>2 DEF Copy, NewestHoldsNewer, refVars, InForce
<1>3. CASE Command(newest)
  <2>1. careful
    BY <1>3 DEF Command, CreateServer, CreateClient, Start, Send, Stop, Apply
  <2> QED BY <1>3, <2>1, CommandEffect, CommandNewest
<1>4. CASE ~careful /\ Command(copy)
  BY <1>4 DEF Command, CreateServer, CreateClient, Start, Send, Stop, Apply
<1>5. CASE UNCHANGED vars
  BY <1>5 DEF vars, refVars, NewestHoldsNewer, InForce
<1> QED BY <1>1, <1>2, <1>3, <1>4, <1>5 DEF Next

\* For 4D code that keeps to the object it got last, edited or not, applying it
\* again and again never undoes a newer parameter: what changes gets newer, or is
\* 0 for a value of the wrong kind.
THEOREM NothingUndoneCorrect == Spec => NothingUndone
<1>1. ASSUME TypeOK, NewestHoldsNewer, [Next]_vars, careful
      PROVE  /\ \A k \in MemberKeys : NewerOrMisfit(member[k], member'[k], k)
             /\ NewerOrMisfit(client.url, client'.url, "url")
  <2>1. ASSUME \A k \in Aged : Effect(k), NEW k \in Aged
        PROVE  NewerOrMisfit(InForce(k), InForce(k)', k)
    <3>1. InForce(k) \in Amounts
      BY <1>1 DEF TypeOK, InForce, Aged
    <3>2. newest[k].val \in Amounts
      BY <1>1, <2>1, AgedKeys DEF TypeOK, Objects
    <3> QED BY <1>1, <2>1, <3>1, <3>2, EditsAssumption
            DEF Effect, NewestHoldsNewer, NewerOrMisfit, Misfit, IsDefined, Amounts, BuiltIn
  <2>2. \A k \in Aged : Effect(k)
    <3>1. CASE Command(newest)
      BY <1>1, <3>1, CommandEffect
    <3>2. CASE UNCHANGED <<member, client>>
      BY <3>2 DEF Effect, InForce
    <3> QED BY <1>1, <3>1, <3>2 DEF Next, Edit, Copy, vars, refVars
  <2>3. \A k \in Aged : NewerOrMisfit(InForce(k), InForce(k)', k)
    BY <2>1, <2>2
  <2> QED BY <2>3 DEF Aged, InForce, MemberKeys, TextKeys, NumberKeys
<1>2. TypeOK /\ NewestHoldsNewer /\ [Next]_vars =>
        [careful => /\ \A k \in MemberKeys : NewerOrMisfit(member[k], member'[k], k)
                    /\ NewerOrMisfit(client.url, client'.url, "url")]_vars
  BY <1>1
<1> QED BY <1>2, TypeCorrect, InitNewest, StepNewest, PTL DEF Spec, NothingUndone
================================================================================
