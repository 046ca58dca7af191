----------------------------- MODULE CallbacksProofs -----------------------------
(***************************************************************************)
(* Theorems about Callbacks: what a message carries belongs to the ref     *)
(* that its event is about, is not older than the callback, and is told    *)
(* apart from all other refs; and what is left of that when a look-up      *)
(* meets the making or the clearing of another ref.                        *)
(*                                                                         *)
(* The inductive invariant says of a callback that its ref stays the same  *)
(* object until it is over, of a parameter which object it was given to,   *)
(* and of a message all that the properties ask.                           *)
(***************************************************************************)
EXTENDS Callbacks, TLAPS

Params == [Keys -> Stamps]
CallbackRecords == [step : {"idle", "lookup", "add"}, kind : Kinds, conn : 0 .. MaxConns,
               window : Stamps, object : Stamps, since : Params]
Commands == [step : {"idle", "set", "insert", "clear", "erase"}, ref : Ids \cup {0},
             keys : SUBSET Keys]
Messages == [server : ServerIds \cup {0}, client : Nat, kind : Kinds, method : Stamps,
             window : Stamps, ref : Ids, object : Stamps, since : Params,
             raced : BOOLEAN]

TypeInv ==
  /\ object \in [Ids -> Stamps]
  /\ param \in [Ids -> Params]
  /\ stamp \in Stamps
  /\ writer \in Commands
  /\ cb \in [Ids -> CallbackRecords]
  /\ list \in Seq(Messages)
  /\ events \in 0 .. MaxEvents
  /\ origin \in [Stamps -> Stamps]

\* A callback that runs is about the object that is there now, and began with
\* parameters no newer than those in force; the window it read is no older.
Running(i, c) ==
  /\ c.step # "idle"
  /\ c.object = object[i] /\ object[i] # 0
  /\ \A k \in Keys : c.since[k] <= param[i][k]
  /\ c.step = "add" => c.window >= c.since["window"]
  /\ i \in ClientIds => c.conn = 0

CallbackInv ==
  /\ \A i \in Ids : cb[i] # Idle => Running(i, cb[i])
  /\ writer.step = "erase" => cb[writer.ref] = Idle

\* Parameters and objects are numbered up to stamp, and origin tells which object
\* a parameter was given to; no new object comes while a command runs.
ParamInv ==
  /\ \A i \in Ids : /\ object[i] <= stamp
                    /\ \A k \in Keys : param[i][k] <= stamp
                    /\ object[i] # 0 => \A k \in Keys :
                         param[i][k] # 0 => origin[param[i][k]] = object[i]
  /\ writer.step = "set" =>
       /\ writer.ref \in Ids /\ object[writer.ref] # 0
       /\ stamp # 0 /\ origin[stamp] = object[writer.ref]
  /\ writer.step = "insert" =>
       /\ writer.ref \in Ids /\ object[writer.ref] = 0
       /\ stamp # 0 /\ origin[stamp] = stamp
       /\ \A k \in Keys : param[writer.ref][k] \in {0, stamp}
  /\ writer.step \in {"clear", "erase"} => writer.ref \in Ids

\* What every message in the list says.
Sound(m) ==
  /\ m.object # 0 /\ m.object <= stamp /\ m.method <= stamp
  /\ object[m.ref] # 0 => m.object <= object[m.ref]
  /\ m.method # 0 => origin[m.method] = m.object \/ (m.raced /\ m.ref \in ServerIds)
  /\ m.raced \/ m.method >= m.since["method"]
  /\ m.window >= m.since["window"]
  /\ m.ref \in ServerIds => m.server = m.ref
  /\ m.ref \in ClientIds => m.server = 0 /\ m.client = m.ref

ListInv == \A k \in 1 .. Len(list) : Sound(list[k])

OldFirst == \A k \in 1 .. Len(list) : \A l \in k .. Len(list) :
              list[k].ref = list[l].ref => list[k].object <= list[l].object

Inv == /\ TypeInv /\ CallbackInv /\ ParamInv /\ ListInv /\ OldFirst
       /\ OnlyClientOpenDropped

\* Numbers of servers are negative, those of clients positive.
LEMMA Numbers ==
  /\ \A i \in ServerIds : i \in Int /\ i < 0
  /\ \A i \in ClientIds : i \in Nat /\ i > 0
  /\ \A i \in Ids : i \in ServerIds \/ i \in ClientIds
  /\ 0 \notin Ids
  /\ ServerIds \cap ClientIds = {}
BY BoundsAssumption DEF ServerIds, ClientIds, Ids

LEMMA Zero == 0 \in Stamps /\ Stamps \subseteq Nat /\ 0 \in 0 .. MaxConns
BY BoundsAssumption DEF Stamps

LEMMA ParamNat ==
  ASSUME TypeInv, NEW i \in Ids, NEW k \in Keys
  PROVE  cb[i].since[k] \in Nat /\ param[i][k] \in Nat
<1>1. cb[i].since \in Params /\ param[i] \in Params
  BY DEF TypeInv, CallbackRecords
<1> QED BY <1>1, Zero DEF Params

LEMMA InitInv == Init => Inv
<1> SUFFICES ASSUME Init PROVE Inv
  OBVIOUS
<1>1. Unset \in Params /\ Idle \in CallbackRecords /\ NoCommand \in Commands
  BY Zero DEF Unset, Params, Idle, CallbackRecords, NoCommand, Commands, Kinds
<1>2. TypeInv
  BY <1>1, Zero, BoundsAssumption DEF Init, TypeInv
<1>3. CallbackInv /\ ListInv /\ OldFirst
  BY DEF Init, CallbackInv, ListInv, OldFirst, NoCommand
<1>4. ParamInv
  BY Zero DEF Init, ParamInv, NoCommand, Unset
<1> QED BY <1>2, <1>3, <1>4 DEF Init, Inv, OnlyClientOpenDropped

(***************************************************************************)
(* Steps of 4D processes.                                                  *)
(***************************************************************************)

LEMMA CreateInv ==
  ASSUME Inv, NEW i \in Ids, NEW keys \in SUBSET Keys, Create(i, keys)
  PROVE  Inv'
<1> USE DEF Inv
<1>1. stamp + 1 \in Stamps /\ stamp \in Nat /\ stamp + 1 # 0
  BY BoundsAssumption DEF Create, TypeInv, Stamps
<1>2. TypeInv'
  <2>1. [k \in Keys |-> IF k \in keys THEN stamp + 1 ELSE 0] \in Params
    BY <1>1, Zero DEF Params
  <2>2. writer' \in Commands
    BY DEF Create, Commands
  <2> QED BY <1>1, <2>1, <2>2 DEF Create, TypeInv
<1>3. CallbackInv'
  <2> SUFFICES ASSUME NEW j \in Ids, cb[j] # Idle
               PROVE  j # i
    BY DEF Create, CallbackInv, Running, TypeInv
  <2> QED BY DEF Create, CallbackInv, Running
<1>4. ParamInv'
  <2>1. /\ writer'.step = "insert" /\ writer'.ref = i /\ object'[i] = 0
        /\ origin'[stamp'] = stamp' /\ stamp' # 0
        /\ \A k \in Keys : param'[i][k] \in {0, stamp'}
    BY <1>1 DEF Create, TypeInv
  <2> SUFFICES ASSUME NEW j \in Ids
               PROVE  /\ object'[j] <= stamp'
                      /\ \A k \in Keys : param'[j][k] <= stamp'
                      /\ object'[j] # 0 => \A k \in Keys :
                           param'[j][k] # 0 => origin'[param'[j][k]] = object'[j]
    BY <2>1 DEF ParamInv
  <2>2. CASE j = i
    BY <1>1, <2>1, <2>2 DEF Create
  <2>3. CASE j # i
    <3>1. object'[j] = object[j] /\ param'[j] = param[j] /\ stamp' = stamp + 1
      BY <2>3 DEF Create, TypeInv
    <3>2. object[j] \in Nat /\ \A k \in Keys : param[j][k] \in Stamps /\ param[j][k] \in Nat
      BY Zero DEF TypeInv, Params
    <3>3. \A k \in Keys : param[j][k] <= stamp /\ origin'[param[j][k]] = origin[param[j][k]]
      BY <1>1, <3>2 DEF ParamInv, Create, TypeInv
    <3> QED BY <1>1, <3>1, <3>2, <3>3 DEF ParamInv
  <2> QED BY <2>2, <2>3
<1>5. ListInv'
  <2> SUFFICES ASSUME NEW k \in 1 .. Len(list) PROVE Sound(list[k])'
    BY DEF Create, ListInv
  <2>1. list[k] \in Messages /\ Sound(list[k]) /\ list' = list
    BY DEF TypeInv, ListInv, Create
  <2>2. list[k].object \in Nat /\ list[k].method \in Nat /\ list[k].method \in Stamps
    BY <2>1, Zero DEF Messages
  <2>3. list[k].method # stamp + 1
    BY <1>1, <2>1, <2>2 DEF Sound
  <2>4. origin'[list[k].method] = origin[list[k].method]
    BY <2>2, <2>3 DEF Create, TypeInv
  <2> QED BY <1>1, <2>1, <2>2, <2>4 DEF Sound, Create
<1>6. OldFirst' /\ OnlyClientOpenDropped'
  BY DEF OldFirst, Create, OnlyClientOpenDropped
<1> QED BY <1>2, <1>3, <1>4, <1>5, <1>6

LEMMA InsertedInv ==
  ASSUME Inv, Inserted
  PROVE  Inv'
<1> USE DEF Inv
<1> DEFINE i == writer.ref
<1>1. /\ i \in Ids /\ object[i] = 0 /\ stamp # 0 /\ stamp \in Nat /\ stamp \in Stamps
      /\ origin[stamp] = stamp /\ \A k \in Keys : param[i][k] \in {0, stamp}
  BY Zero DEF Inserted, ParamInv, TypeInv
<1>2. /\ object'[i] = stamp /\ \A j \in Ids \ {i} : object'[j] = object[j]
      /\ UNCHANGED <<param, stamp, origin, cb, list, events, dropped>>
      /\ writer' = NoCommand
  BY <1>1 DEF Inserted, TypeInv
<1>3. TypeInv'
  BY <1>1, Zero DEF Inserted, TypeInv, NoCommand, Commands
<1>4. CallbackInv'
  BY <1>1, <1>2 DEF CallbackInv, Running, NoCommand
<1>5. ParamInv'
  <2>1. \A k \in Keys : param[i][k] <= stamp /\ (param[i][k] # 0 => origin[param[i][k]] = stamp)
    BY <1>1
  <2>2. writer'.step = "idle"
    BY <1>2 DEF NoCommand
  <2> QED BY <1>1, <1>2, <2>1, <2>2 DEF ParamInv
<1>6. ListInv'
  <2> SUFFICES ASSUME NEW k \in 1 .. Len(list) PROVE Sound(list[k])'
    BY <1>2 DEF ListInv
  <2>1. list[k] \in Messages /\ Sound(list[k])
    BY DEF TypeInv, ListInv
  <2>2. list[k].ref \in Ids
    BY <2>1 DEF Messages
  <2> QED BY <1>1, <1>2, <2>1, <2>2 DEF Sound
<1>7. OldFirst' /\ OnlyClientOpenDropped'
  BY <1>2 DEF OldFirst, OnlyClientOpenDropped
<1> QED BY <1>3, <1>4, <1>5, <1>6, <1>7

LEMMA SetParamsInv ==
  ASSUME Inv, NEW i \in Ids, NEW keys \in SUBSET Keys, SetParams(i, keys)
  PROVE  Inv'
<1> USE DEF Inv
<1>1. stamp + 1 \in Stamps /\ stamp \in Nat /\ stamp + 1 # 0
  BY BoundsAssumption DEF SetParams, TypeInv, Stamps
<1>2. TypeInv'
  BY <1>1 DEF SetParams, TypeInv, Commands
<1>3. CallbackInv'
  BY DEF SetParams, CallbackInv, Running
<1>4. ParamInv'
  <2>1. writer'.ref = i /\ stamp' = stamp + 1 /\ origin'[stamp + 1] = object[i]
        /\ object' = object /\ param' = param
    BY <1>1 DEF SetParams, TypeInv
  <2>2. \A j \in Ids : object[j] \in Nat /\ \A k \in Keys : param[j][k] \in Stamps
                                                             /\ param[j][k] \in Nat
    BY Zero DEF TypeInv, Params
  <2>3. \A j \in Ids, k \in Keys :
          param[j][k] <= stamp /\ origin'[param[j][k]] = origin[param[j][k]]
    BY <1>1, <2>2 DEF ParamInv, SetParams, TypeInv
  <2> QED BY <1>1, <2>1, <2>2, <2>3 DEF ParamInv, SetParams
<1>5. ListInv'
  <2> SUFFICES ASSUME NEW k \in 1 .. Len(list) PROVE Sound(list[k])'
    BY DEF SetParams, ListInv
  <2>1. list[k] \in Messages /\ Sound(list[k]) /\ list' = list
    BY DEF TypeInv, ListInv, SetParams
  <2>2. list[k].object \in Nat /\ list[k].method \in Nat /\ list[k].method \in Stamps
    BY <2>1, Zero DEF Messages
  <2>3. list[k].method # stamp + 1
    BY <1>1, <2>1, <2>2 DEF Sound
  <2>4. origin'[list[k].method] = origin[list[k].method]
    BY <2>2, <2>3 DEF SetParams, TypeInv
  <2> QED BY <1>1, <2>1, <2>2, <2>4 DEF Sound, SetParams
<1>6. OldFirst' /\ OnlyClientOpenDropped'
  BY DEF OldFirst, SetParams, OnlyClientOpenDropped
<1> QED BY <1>2, <1>3, <1>4, <1>5, <1>6

LEMMA ParamsSetInv ==
  ASSUME Inv, ParamsSet
  PROVE  Inv'
<1> USE DEF Inv
<1>1. /\ writer.ref \in Ids /\ object[writer.ref] # 0
      /\ stamp # 0 /\ stamp \in Nat /\ stamp \in Stamps
      /\ origin[stamp] = object[writer.ref]
  BY Zero DEF ParamsSet, ParamInv, TypeInv
<1>2. \A i \in Ids, k \in Keys : param'[i][k] \in {param[i][k], stamp} /\ param[i][k] \in Nat
  BY <1>1, Zero DEF ParamsSet, TypeInv, Params
<1>3. TypeInv'
  <2>1. [k \in Keys |-> IF k \in writer.keys THEN stamp ELSE param[writer.ref][k]] \in Params
    BY <1>1 DEF TypeInv, Params
  <2>2. NoCommand \in Commands
    BY DEF NoCommand, Commands
  <2> QED BY <1>1, <2>1, <2>2 DEF ParamsSet, TypeInv
<1>4. CallbackInv'
  <2> SUFFICES ASSUME NEW i \in Ids, cb[i] # Idle, NEW k \in Keys
               PROVE  cb[i].since[k] <= param'[i][k]
    BY DEF ParamsSet, CallbackInv, Running, NoCommand
  <2>1. cb[i].since[k] <= param[i][k] /\ param[i][k] <= stamp /\ cb[i].since[k] \in Nat
    BY Zero DEF CallbackInv, Running, ParamInv, TypeInv, CallbackRecords, Params
  <2> QED BY <1>1, <1>2, <2>1
<1>5. ParamInv'
  <2>1. \A i \in Ids \ {writer.ref} : param'[i] = param[i]
    BY DEF ParamsSet, TypeInv
  <2>2. /\ writer'.step = "idle" /\ UNCHANGED <<object, origin, stamp>>
    BY DEF ParamsSet, NoCommand
  <2> QED BY <1>1, <1>2, <2>1, <2>2 DEF ParamInv
<1>6. ListInv' /\ OldFirst' /\ OnlyClientOpenDropped'
  BY DEF ListInv, Sound, OldFirst, ParamsSet, OnlyClientOpenDropped
<1> QED BY <1>3, <1>4, <1>5, <1>6

LEMMA ClearInv ==
  ASSUME Inv, NEW i \in Ids, Clear(i)
  PROVE  Inv'
<1>1. writer' \in Commands /\ writer'.step = "clear" /\ writer'.ref = i
  BY DEF Clear, Commands
<1> QED BY <1>1 DEF Inv, Clear, TypeInv, CallbackInv, Running, ParamInv, ListInv, Sound, OldFirst,
                    OnlyClientOpenDropped

LEMMA EraseInv ==
  ASSUME Inv, Erase
  PROVE  Inv'
<1>1. /\ writer.ref \in Ids /\ writer' \in Commands
      /\ writer'.step = "erase" /\ writer'.ref = writer.ref
  BY DEF Inv, TypeInv, ParamInv, Erase, Commands
<1> QED BY <1>1 DEF Inv, Erase, TypeInv, CallbackInv, Running, ParamInv, ListInv, Sound, OldFirst,
                    OnlyClientOpenDropped

LEMMA ErasedInv ==
  ASSUME Inv, Erased
  PROVE  Inv'
<1> USE DEF Inv
<1>1. TypeInv'
  BY Zero DEF Erased, TypeInv, NoCommand, Commands
<1>2. CallbackInv'
  BY DEF Erased, CallbackInv, Running, TypeInv, ParamInv, NoCommand
<1>3. \A i \in Ids : object'[i] \in {0, object[i]} /\ object[i] \in Nat
  BY Zero DEF Erased, TypeInv
<1>4. ParamInv'
  <2>1. writer'.step = "idle" /\ stamp \in Nat
    BY Zero DEF Erased, NoCommand, TypeInv
  <2> QED BY <1>3, <2>1 DEF ParamInv, Erased
<1>5. ListInv'
  <2> SUFFICES ASSUME NEW k \in 1 .. Len(list) PROVE Sound(list[k])'
    BY DEF Erased, ListInv
  <2>1. list[k] \in Messages /\ Sound(list[k])
    BY DEF TypeInv, ListInv
  <2>2. object'[list[k].ref] \in {0, object[list[k].ref]}
    BY <1>3, <2>1 DEF Messages
  <2> QED BY <2>1, <2>2 DEF Sound, Erased
<1>6. OldFirst' /\ OnlyClientOpenDropped'
  BY DEF OldFirst, Erased, OnlyClientOpenDropped
<1> QED BY <1>1, <1>2, <1>4, <1>5, <1>6

(***************************************************************************)
(* Steps of callbacks and of the loop.                                     *)
(***************************************************************************)

LEMMA Quiet ==
  ASSUME Inv, UNCHANGED <<refVars, list>>
  PROVE  ParamInv' /\ ListInv' /\ OldFirst'
BY DEF Inv, refVars, ParamInv, ListInv, Sound, OldFirst

LEMMA EventInv ==
  ASSUME Inv, NEW i \in Ids, NEW kind \in Kinds, NEW conn \in 0 .. MaxConns,
         Event(i, kind, conn)
  PROVE  Inv'
<1> USE DEF Inv
<1> DEFINE new == [step |-> "lookup", kind |-> kind, conn |-> conn, window |-> 0,
                   object |-> object[i], since |-> param[i]]
<1>1. cb' = [cb EXCEPT ![i] = new] /\ object[i] # 0 /\ (i \in ClientIds => conn = 0)
  BY DEF Event
<1>2. new \in CallbackRecords
  BY Zero DEF CallbackRecords, TypeInv
<1>3. TypeInv'
  BY <1>1, <1>2, BoundsAssumption DEF Event, TypeInv, refVars
<1>4. CallbackInv'
  <2> SUFFICES ASSUME NEW j \in Ids, cb'[j] # Idle
               PROVE  Running(j, cb'[j])
    <3>1. writer.step = "erase" => writer.ref \in Ids \ {i}
      BY DEF Event, ParamInv
    <3>2. writer'.step = "erase" => cb'[writer'.ref] = Idle
      BY <1>1, <3>1 DEF Event, CallbackInv, TypeInv, refVars
    <3> QED BY <3>2 DEF Event, CallbackInv, Running, refVars
  <2>1. CASE j # i
    BY <1>1, <2>1 DEF CallbackInv, TypeInv
  <2>2. CASE j = i
    <3>1. cb'[j] = new
      BY <1>1, <2>2 DEF TypeInv
    <3>2. \A k \in Keys : param[j][k] \in Nat
      BY Zero DEF TypeInv, Params
    <3> QED BY <1>1, <2>2, <3>1, <3>2 DEF Running
  <2> QED BY <2>1, <2>2
<1> QED BY <1>3, <1>4, Quiet DEF Event, OnlyClientOpenDropped

\* What Read gives is no older than what is in force, and belongs to the ref.
LEMMA ReadSound ==
  ASSUME Inv, NEW i \in Ids, object[i] # 0, NEW key \in Keys, NEW v \in Read(i, key)
  PROVE  /\ v \in Stamps /\ v <= stamp /\ v >= param[i][key]
         /\ v # 0 => origin[v] = object[i]
<1> USE DEF Inv
<1>1. param[i][key] \in Stamps /\ param[i][key] \in Nat /\ stamp \in Stamps /\ stamp \in Nat
  BY Zero DEF TypeInv, Params
<1>2. CASE v = param[i][key]
  BY <1>1, <1>2 DEF ParamInv
<1>3. CASE writer.step = "set" /\ writer.ref = i /\ v = stamp
  BY <1>1, <1>3 DEF ParamInv
<1> QED BY <1>2, <1>3 DEF Read

\* A ref that is in its table is found, or missed while the table is written.
LEMMA FoundIs ==
  ASSUME NEW i \in Ids, object[i] # 0, NEW found \in Found(i)
  PROVE  found \in BOOLEAN /\ (~found => Written(i))
<1>1. CASE Written(i)
  BY <1>1 DEF Found, Written
<1>2. CASE ~Written(i)
  <2>1. (~Written(i)) = TRUE
    BY <1>2
  <2>2. found = TRUE
    BY <2>1 DEF Found
  <2> QED BY <2>2
<1> QED BY <1>1, <1>2

\* The method is that of the ref, or what is taken when it is not found; and that
\* of the ref if no process writes its table.
LEMMA MethodIs ==
  ASSUME NEW i, NEW other, NEW v \in MethodOf(i, other)
  PROVE  /\ v \in other \/ (i \in Ids /\ object[i] # 0 /\ v \in Read(i, "method"))
         /\ i \in Ids /\ object[i] # 0 /\ ~Written(i) => v \in Read(i, "method")
<1>1. PICK found \in Found(i) : v \in IF found THEN Read(i, "method") ELSE other
  BY DEF MethodOf
<1>2. CASE i \in Ids /\ object[i] # 0
  <2>1. found \in BOOLEAN /\ (~found => Written(i))
    BY <1>2, FoundIs
  <2> QED BY <1>1, <1>2, <2>1
<1>3. CASE ~(i \in Ids /\ object[i] # 0)
  <2>1. found = FALSE
    BY <1>3 DEF Found
  <2> QED BY <1>1, <1>3, <2>1
<1> QED BY <1>2, <1>3

\* What a look-up changes of a callback, and what it leaves.
LEMMA Looked ==
  ASSUME NEW c \in CallbackRecords, NEW w
  PROVE  LET d == [c EXCEPT !.step = "add", !.window = w]
         IN  /\ d.since = c.since /\ d.object = c.object /\ d.conn = c.conn
             /\ d.window = w /\ d.step = "add"
BY DEF CallbackRecords

LEMMA LookUpInv ==
  ASSUME Inv, NEW i \in Ids, LookUp(i)
  PROVE  Inv'
<1> USE DEF Inv
<1>1. /\ cb[i] # Idle /\ object[i] # 0
      /\ writer.step = "erase" => writer.ref \in Ids \ {i}
  BY DEF LookUp, CallbackInv, Running, Idle, ParamInv
<1>2. PICK found \in (IF i \in TableOf(i, cb[i].kind) THEN Found(i) ELSE {FALSE}) :
        IF found
        THEN /\ \E w \in Read(i, "window") :
                  cb' = [cb EXCEPT ![i].step = "add", ![i].window = w]
             /\ dropped' = dropped
        ELSE /\ cb' = [cb EXCEPT ![i] = Idle]
             /\ dropped' = dropped \cup
                   {[client |-> i \in ClientIds, kind |-> cb[i].kind, raced |-> Written(i)]}
  BY DEF LookUp
<1>3. CASE found
  <2>1. PICK w \in Read(i, "window") : cb' = [cb EXCEPT ![i].step = "add", ![i].window = w]
    BY <1>2, <1>3
  <2>2. dropped' = dropped
    BY <1>2, <1>3
  <2>3. w \in Stamps /\ w >= param[i]["window"] /\ w \in Nat
    BY <1>1, ReadSound, Zero DEF Keys
  <2>4. /\ cb'[i] = [cb[i] EXCEPT !.step = "add", !.window = w]
        /\ \A j \in Ids \ {i} : cb'[j] = cb[j]
    BY <2>1 DEF TypeInv
  <2>5. cb'[i] \in CallbackRecords /\ cb' \in [Ids -> CallbackRecords]
    <3>1. cb \in [Ids -> CallbackRecords]
      BY DEF TypeInv
    <3>2. [cb[i] EXCEPT !.step = "add", !.window = w] \in CallbackRecords
      BY <2>3, <3>1 DEF CallbackRecords
    <3> QED BY <2>1, <2>4, <3>1, <3>2
  <2>6. TypeInv'
    BY <2>5 DEF LookUp, TypeInv, refVars
  <2>7. /\ cb'[i].since = cb[i].since /\ cb'[i].object = cb[i].object /\ cb'[i].conn = cb[i].conn
        /\ cb'[i].window = w /\ cb'[i].step = "add"
    <3>1. cb[i] \in CallbackRecords
      BY DEF TypeInv
    <3> QED BY <2>4, <3>1, Looked
  <2>8. Running(i, cb[i])
    BY <1>1 DEF CallbackInv
  <2>9. w >= cb[i].since["window"]
    <3>1. "window" \in Keys
      BY DEF Keys
    <3>2. cb[i].since["window"] \in Nat /\ param[i]["window"] \in Nat
      BY <3>1, ParamNat
    <3>3. cb[i].since["window"] <= param[i]["window"]
      BY <2>8, <3>1 DEF Running
    <3> QED BY <2>3, <3>2, <3>3
  <2>10. Running(i, cb'[i])
    BY <2>7, <2>8, <2>9 DEF Running
  <2>11. CallbackInv'
    <3>1. UNCHANGED <<object, param, writer>>
      BY DEF LookUp, refVars
    <3>2. \A j \in Ids : cb'[j] # Idle => Running(j, cb'[j])
      BY <2>4, <2>10 DEF CallbackInv
    <3>3. writer.step = "erase" => cb'[writer.ref] = Idle
      BY <1>1, <2>4 DEF CallbackInv
    <3>4. (\A j \in Ids : cb[j] # Idle => Running(j, cb[j]))'
      BY <3>1, <3>2 DEF Running
    <3> QED BY <3>1, <3>3, <3>4 DEF CallbackInv
  <2> QED BY <2>2, <2>6, <2>11, Quiet DEF LookUp, OnlyClientOpenDropped
<1>4. CASE ~found
  <2> DEFINE d == [client |-> i \in ClientIds, kind |-> cb[i].kind, raced |-> Written(i)]
  <2>1. cb' = [cb EXCEPT ![i] = Idle] /\ dropped' = dropped \cup {d}
    BY <1>2, <1>4
  <2>2. d.raced \/ (d.client /\ d.kind = "open")
    <3>1. CASE i \in TableOf(i, cb[i].kind)
      <4>1. Written(i)
        BY <1>1, <1>2, <1>4, <3>1, FoundIs
      <4> QED BY <4>1
    <3>2. CASE i \notin TableOf(i, cb[i].kind)
      <4>1. i \in ClientIds /\ cb[i].kind = "open"
        BY <3>2, Numbers DEF TableOf
      <4> QED BY <4>1
    <3> QED BY <3>1, <3>2
  <2>3. Idle \in CallbackRecords
    BY Zero DEF Idle, CallbackRecords, Kinds, Unset, Params
  <2>4. TypeInv' /\ CallbackInv'
    BY <1>1, <2>1, <2>3 DEF LookUp, TypeInv, CallbackInv, Running, refVars
  <2>5. OnlyClientOpenDropped'
    <3> HIDE DEF d
    <3> QED BY <2>1, <2>2 DEF OnlyClientOpenDropped
  <2> QED BY <2>4, <2>5, Quiet DEF LookUp
<1> QED BY <1>3, <1>4

LEMMA AddInv ==
  ASSUME Inv, NEW i \in Ids, Add(i)
  PROVE  Inv'
<1> USE DEF Inv
<1>1. cb[i] \in CallbackRecords /\ cb[i].step = "add" /\ Running(i, cb[i])
  BY DEF Add, TypeInv, CallbackInv, Idle
<1>2. Written(i) \in BOOLEAN
  BY DEF Written
<1>3. PICK v \in Captured(ServerArg(i), ClientArg(i)) :
        list' = Append(list, [server |-> ServerArg(i), client |-> ClientArg(i), kind |-> cb[i].kind,
                              method |-> v, window |-> cb[i].window,
                              ref |-> i, object |-> cb[i].object, since |-> cb[i].since,
                              raced |-> Written(i)])
  BY DEF Add
<1> DEFINE new == [server |-> ServerArg(i), client |-> ClientArg(i), kind |-> cb[i].kind,
                   method |-> v, window |-> cb[i].window,
                   ref |-> i, object |-> cb[i].object, since |-> cb[i].since,
                   raced |-> Written(i)]
<1>4. /\ v \in Stamps /\ v \in Nat /\ v <= stamp
      /\ ~Written(i) => v \in Read(i, "method")
      /\ i \in ClientIds => v \in Read(i, "method") \/ v = 0
  <2>1. CASE i \in ServerIds
    <3>1. v \in MethodOf(i, MethodOf(ClientArg(i), {0}))
      BY <1>3, <2>1 DEF Captured, ServerArg
    <3>2. ~Written(i) => v \in Read(i, "method")
      BY <1>1, <3>1, MethodIs DEF Running
    <3>3. \/ v = 0
          \/ object[i] # 0 /\ v \in Read(i, "method")
          \/ /\ ClientArg(i) \in Ids /\ object[ClientArg(i)] # 0
             /\ v \in Read(ClientArg(i), "method")
      BY <3>1, MethodIs
    <3>4. v \in Stamps /\ v <= stamp
      BY <3>3, ReadSound, Zero DEF Keys, TypeInv
    <3> QED BY <2>1, <3>2, <3>4, Zero, Numbers
  <2>2. CASE i \in ClientIds
    <3>1. v \in MethodOf(0, MethodOf(i, {0}))
      BY <1>3, <2>2, Numbers DEF Captured, ServerArg, ClientArg
    <3>2. v \in MethodOf(i, {0})
      BY <3>1, MethodIs, Numbers
    <3>3. /\ ~Written(i) => v \in Read(i, "method")
          /\ v \in Read(i, "method") \/ v = 0
      BY <1>1, <3>2, MethodIs DEF Running
    <3>4. v \in Stamps /\ v <= stamp
      BY <1>1, <3>3, ReadSound, Zero DEF Keys, TypeInv, Running
    <3> QED BY <3>3, <3>4, Zero
  <2> QED BY <2>1, <2>2, Numbers
<1>5. v \in Read(i, "method") => v >= param[i]["method"] /\ (v # 0 => origin[v] = object[i])
  BY <1>1, ReadSound DEF Running, Keys
<1>6. new \in Messages
  <2>1. ServerArg(i) \in ServerIds \cup {0} /\ ClientArg(i) \in Nat
    BY <1>1, Numbers DEF ServerArg, ClientArg, CallbackRecords
  <2> QED BY <1>1, <1>2, <1>4, <2>1 DEF Messages, CallbackRecords
<1>7. TypeInv'
  <2>1. list' \in Seq(Messages)
    BY <1>3, <1>6 DEF TypeInv
  <2>2. Idle \in CallbackRecords
    BY Zero DEF Idle, CallbackRecords, Kinds, Unset, Params
  <2> QED BY <2>1, <2>2 DEF Add, TypeInv, refVars
<1>8. CallbackInv'
  BY DEF Add, CallbackInv, Running, TypeInv, refVars
<1>9. Sound(new)
  <2>1. ~Written(i) => v >= cb[i].since["method"]
    <3>1. "method" \in Keys
      BY DEF Keys
    <3>2. cb[i].since["method"] \in Nat /\ param[i]["method"] \in Nat
      BY <3>1, ParamNat
    <3>3. cb[i].since["method"] <= param[i]["method"]
      BY <1>1, <3>1 DEF Running
    <3> QED BY <1>4, <1>5, <3>2, <3>3
  <2>2. i \in ServerIds => ServerArg(i) = i
    BY DEF ServerArg
  <2>3. i \in ClientIds => ServerArg(i) = 0 /\ ClientArg(i) = i
    BY Numbers DEF ServerArg, ClientArg
  <2>4. object[i] <= stamp /\ object[i] \in Nat
    BY Zero DEF ParamInv, TypeInv
  <2>5. v # 0 => origin[v] = object[i] \/ (Written(i) /\ i \in ServerIds)
    BY <1>4, <1>5, Numbers
  <2> QED BY <1>1, <1>2, <1>4, <2>1, <2>2, <2>3, <2>4, <2>5 DEF Sound, Running
<1>10. /\ Len(list') = Len(list) + 1 /\ Len(list) \in Nat
      /\ list'[Len(list) + 1] = new
      /\ \A k \in 1 .. Len(list) : list'[k] = list[k] /\ list[k] \in Messages
  BY <1>3, <1>6 DEF TypeInv
<1> HIDE DEF new
<1>11. ListInv'
  <2> SUFFICES ASSUME NEW k \in 1 .. Len(list') PROVE Sound(list'[k])
    BY DEF ListInv, Add, Sound, refVars
  <2> QED BY <1>9, <1>10 DEF ListInv
<1>12. OldFirst'
  <2> SUFFICES ASSUME NEW k \in 1 .. Len(list'), NEW l \in k .. Len(list'),
                      list'[k].ref = list'[l].ref
               PROVE  list'[k].object <= list'[l].object
    BY DEF OldFirst
  <2>1. CASE l <= Len(list)
    BY <1>10, <2>1 DEF OldFirst
  <2>2. CASE l = Len(list) + 1 /\ k <= Len(list)
    <3>1. list'[k] = list[k] /\ list'[l] = new /\ Sound(list[k])
      BY <1>10, <2>2 DEF ListInv
    <3>2. new.ref = i /\ new.object = object[i] /\ object[i] # 0
      BY <1>1 DEF new, Running
    <3> QED BY <3>1, <3>2 DEF Sound
  <2>3. CASE k = l
    <3>1. list'[k] \in Messages
      BY <1>6, <1>10
    <3>2. list'[k].object \in Nat
      BY <3>1, Zero DEF Messages
    <3> QED BY <2>3, <3>2
  <2> QED BY <1>10, <2>1, <2>2, <2>3
<1>13. ParamInv' /\ OnlyClientOpenDropped'
  BY DEF Add, ParamInv, refVars, OnlyClientOpenDropped
<1> QED BY <1>7, <1>8, <1>11, <1>12, <1>13

LEMMA HandleInv ==
  ASSUME Inv, Handle
  PROVE  Inv'
<1> USE DEF Inv
<1>1. /\ list' \in Seq(Messages) /\ Len(list') = Len(list) - 1 /\ Len(list) \in Nat
      /\ \A k \in 1 .. Len(list') : list'[k] = list[k + 1]
  BY DEF Handle, TypeInv
<1>2. TypeInv' /\ CallbackInv' /\ ParamInv' /\ OnlyClientOpenDropped'
  BY <1>1 DEF Handle, OnlyClientOpenDropped, TypeInv, CallbackInv, Running, ParamInv, refVars
<1>3. ListInv'
  <2> SUFFICES ASSUME NEW k \in 1 .. Len(list') PROVE Sound(list'[k])
    BY DEF ListInv, Handle, Sound, refVars
  <2> QED BY <1>1 DEF ListInv
<1>4. OldFirst'
  <2> SUFFICES ASSUME NEW k \in 1 .. Len(list'), NEW l \in k .. Len(list')
               PROVE  list'[k].ref = list'[l].ref => list'[k].object <= list'[l].object
    BY DEF OldFirst
  <2>1. /\ k + 1 \in 1 .. Len(list) /\ l + 1 \in k + 1 .. Len(list)
        /\ list'[k] = list[k + 1] /\ list'[l] = list[l + 1]
    BY <1>1
  <2> QED BY <2>1 DEF OldFirst
<1> QED BY <1>2, <1>3, <1>4

LEMMA StepInv == Inv /\ [Next]_vars => Inv'
<1>1. Inv /\ UNCHANGED vars => Inv'
  BY DEF Inv, vars, refVars, TypeInv, CallbackInv, Running, ParamInv, ListInv, Sound, OldFirst,
         OnlyClientOpenDropped
<1> QED BY <1>1, CreateInv, InsertedInv, SetParamsInv, ParamsSetInv, ClearInv, EraseInv, ErasedInv,
           EventInv, LookUpInv, AddInv, HandleInv DEF Next

THEOREM Invariant == Spec => []Inv
BY InitInv, StepInv, PTL DEF Spec

(***************************************************************************)
(* The properties.                                                         *)
(***************************************************************************)

LEMMA ListedSound == ASSUME Inv, NEW m \in Listed PROVE m \in Messages /\ Sound(m)
BY DEF Inv, TypeInv, ListInv, Listed

\* Types; and a ref with a callback has an entry.
THEOREM TypeCorrect == Spec => []TypeOK
<1>1. Inv => TypeOK
  <2> SUFFICES ASSUME Inv PROVE TypeOK
    OBVIOUS
  <2>1. \A i \in Ids : cb[i].step # "idle" => object[i] # 0
    BY DEF Inv, CallbackInv, Running, Idle
  <2>2. \A m \in Listed : m.server \in ServerIds \cup {0} /\ m.method \in Stamps
    BY ListedSound DEF Messages
  <2> QED BY <2>1, <2>2 DEF Inv, TypeInv, TypeOK, Params, Commands, CallbackRecords
<1> QED BY <1>1, Invariant, PTL

\* The method in a message was given to the object that the event is about, but for
\* a server's event whose message is made while another server is made or cleared.
THEOREM MethodCorrect == Spec => []MethodIsOwn
<1>1. Inv => MethodIsOwn
  BY ListedSound DEF MethodIsOwn, Sound
<1> QED BY <1>1, Invariant, PTL

\* No parameter in a message is older than the callback that sent it, but for the
\* method of a message made while another ref of its table is made or cleared.
THEOREM ParamsCorrect == Spec => []ParamsInForce
<1>1. Inv => ParamsInForce
  BY ListedSound DEF ParamsInForce, Sound
<1> QED BY <1>1, Invariant, PTL

\* No event is lost but the open event of a client, and those whose callback meets
\* the making or the clearing of another ref of its table.
THEOREM OnlyOpenDropped == Spec => []OnlyClientOpenDropped
<1>1. Inv => OnlyClientOpenDropped
  BY DEF Inv
<1> QED BY <1>1, Invariant, PTL

\* The messages commands of two numbers never return the same message, and that of
\* the number a message is about returns it.
THEOREM PollsApart == Spec => []PollsPartition
<1>1. Inv => PollsPartition
  <2> SUFFICES ASSUME Inv, NEW m \in Listed, NEW i \in Ids
               PROVE  Matches(i, m) <=> i = m.ref
    BY ListedSound DEF PollsPartition, Messages
  <2>1. m \in Messages /\ Sound(m)
    BY ListedSound
  <2> QED BY <2>1, Numbers DEF Matches, Sound, Messages
<1> QED BY <1>1, Invariant, PTL

\* What is left of a cleared ref comes before anything of the next ref with its
\* number, and a callback ends before its object does.
THEOREM OldBeforeNew == Spec => []StaleBeforeFresh
<1>1. Inv => StaleBeforeFresh
  BY DEF Inv, OldFirst, CallbackInv, Running, StaleBeforeFresh
<1> QED BY <1>1, Invariant, PTL
================================================================================
