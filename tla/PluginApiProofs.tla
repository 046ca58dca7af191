---------------------------- MODULE PluginApiProofs ----------------------------
(***************************************************************************)
(* Proofs about the functions of the 4D plugin API.                        *)
(*                                                                         *)
(* A function in progress is the rest of a program.  What keeps its locks, *)
(* handles, errors and lines right is the order of the steps, so the proof *)
(* states that order as rules on a program, each of a form that the rest   *)
(* of a program inherits: a condition on every position and those after    *)
(* it.  The rules are checked on each program once; every step of a call   *)
(* is then reasoned about from the rules alone, whatever the function.     *)
(***************************************************************************)
EXTENDS PluginApi, SequenceTheorems, TLAPS

(***************************************************************************)
(* The classes of functions, and the programs by class.                    *)
(***************************************************************************)

Steps ==
  {"call", "rawcall", "recall", "run", "store", "clear", "raise", "sub", "rawsub", "subifclear",
   "subiftaken", "ifclear", "iftaken", "make", "copy", "take", "give", "lock", "unlock",
   "dispose", "freed", "size", "open", "line", "trylock"}

\* The calls that ask for a line.
AddClasses == {"addQuery", "addOrder"}

ShortClasses ==
  {"plain", "silent", "orNothing", "compare", "areaEvent", "redraw", "axis", "toBuffer",
   "printInfo"}

ShortPrograms ==
  {<<>>, <<"call", "store">>, <<"clear">>, <<"clear", "call", "store">>, <<"raise">>, <<"sub">>,
   <<"call", "store", "ifclear", "sub">>, <<"sub", "call", "store">>,
   <<"sub", "call", "sub", "store">>}

CommandClasses == {"command", "commandOrNothing", "jsonParse", "method"}

CommandPrograms ==
  {<<>>, <<"make", "lock", "call", "unlock", "dispose", "store">>,
   <<"sub", "make", "lock", "call", "unlock", "dispose", "store">>,
   <<"make", "lock", "unlock", "call", "lock", "unlock", "dispose", "store">>}

VariableClasses == {"createVariable", "setInArray", "setPictureInArray"}

VariablePrograms ==
  {<<>>, <<"sub">>, <<"make", "lock", "unlock", "give">>,
   <<"make", "lock", "sub", "unlock", "give">>, <<"lock", "unlock">>,
   <<"lock", "sub", "unlock">>, <<"lock", "rawsub", "unlock">>}

SizeClasses == {"resize", "setResource"}

SizePrograms ==
  {<<>>, <<"size">>, <<"size", "lock", "unlock">>, <<"size", "lock", "sub", "unlock">>,
   <<"lock", "sub", "unlock", "size">>, <<"lock", "sub", "unlock", "size", "lock", "unlock">>,
   <<"lock", "sub", "unlock", "size", "lock", "sub", "unlock">>, <<"call", "store">>,
   <<"call", "store", "ifclear", "size", "lock", "unlock", "recall", "store">>}

CopyClasses == {"intoValue", "intoField", "packedSet", "swap"}

CopyPrograms ==
  {<<>>, <<"call", "store">>, <<"copy", "give">>, <<"copy", "call", "give", "store">>,
   <<"copy", "call", "iftaken", "dispose", "store">>,
   <<"copy", "call", "iftaken", "sub", "dispose", "store">>}

KeptPrograms ==
  {<<"call", "store">>, <<"copy", "call", "store">>}

TakeClasses == {"packedGet", "idList", "tokenize"}

TakePrograms ==
  {<<"call", "take", "iftaken", "sub", "dispose", "store">>,
   <<"call", "take", "iftaken", "sub", "lock", "unlock", "dispose", "store">>,
   <<"call", "take", "iftaken", "subifclear", "dispose", "store">>}

OpenAndClose ==
  {<<"make", "lock", "unlock", "open", "clear">>, <<"raise">>,
   <<"trylock", "run", "unlock", "dispose", "store">>}

LinePrograms ==
  {<<"lock", "unlock", "sub", "size", "lock", "line", "unlock">>,
   <<"lock", "unlock", "sub", "size", "lock", "line", "unlock", "clear">>}

AddPrograms == {<<"raise">>, <<"lock", "unlock", "raise">>} \cup LinePrograms

ForgetfulPrograms ==
  {<<>>, <<"rawcall", "store">>, <<"clear">>, <<"clear", "rawcall", "store">>,
   <<"clear", "raise">>, <<"clear", "sub">>, <<"rawcall", "clear">>, <<"rawcall">>, <<"raise">>,
   <<"rawsub">>, <<"call", "store", "recall", "store">>, <<"call", "recall", "store">>,
   <<"sub", "call", "store", "sub">>}

ForgetfulHandlePrograms ==
  {<<"sub">>, <<"make", "lock", "call", "unlock", "dispose", "store", "sub">>,
   <<"sub", "make", "lock", "call", "unlock", "dispose", "store">>,
   <<"sub", "sub", "make", "lock", "call", "unlock", "dispose", "store", "sub">>,
   <<"call", "store">>, <<"copy", "call", "store", "iftaken", "dispose">>,
   <<"rawcall", "take", "store", "subiftaken", "dispose">>,
   <<"make", "lock", "call", "unlock", "dispose", "freed", "store">>}

ClassNames ==
  ShortClasses \cup CommandClasses \cup VariableClasses \cup SizeClasses \cup CopyClasses
    \cup {"keepsCopy"} \cup TakeClasses \cup {"openLines", "closeLines"} \cup AddClasses
    \cup Forgetful

LEMMA AreClass == \A class, names, f : f \in Are(class, names) => f[2] = class
  BY DEF Are

\* Every function of the API is of a class that has programs.
LEMMA ClassesNamed == Classes \subseteq ClassNames
<1> USE DEF ShortClasses, CommandClasses, VariableClasses, SizeClasses, CopyClasses,
        TakeClasses, AddClasses, Forgetful
<1>1. \A f \in Main \cup HandleManager \cup Unistrings \cup CopiedStrings \cup Pictures :
       f[2] \in ClassNames
  BY AreClass, ZenonT(60) DEF ClassNames, Main, HandleManager, Unistrings, CopiedStrings, Pictures
<1>2. \A f \in Objects \cup Properties \cup Conversions \cup Application \cup Folders :
       f[2] \in ClassNames
  BY AreClass, ZenonT(60) DEF ClassNames, Objects, Properties, Conversions, Application, Folders
<1>3. \A f \in Platform \cup Structure \cup Records \cup CurrentRecord \cup Relations :
       f[2] \in ClassNames
  BY AreClass, ZenonT(60) DEF ClassNames, Platform, Structure, Records, CurrentRecord, Relations
<1>4. \A f \in Tables \cup FieldKinds \cup FieldLists \cup OrderBy \cup Query :
       f[2] \in ClassNames
  BY AreClass, ZenonT(60) DEF ClassNames, Tables, FieldKinds, FieldLists, OrderBy, Query
<1>5. \A f \in QueryLines \cup GetParameters \cup PointerParameters \cup SetParameters \cup
       ReturnValues :
       f[2] \in ClassNames
  BY AreClass, ZenonT(60) DEF ClassNames, QueryLines, GetParameters, PointerParameters,
     SetParameters,
     ReturnValues
<1>6. \A f \in AreaProperties \cup AreaSelection \cup DragAndDrop \cup DragContext \cup Keyboard :
       f[2] \in ClassNames
  BY AreClass, ZenonT(60) DEF ClassNames, AreaProperties, AreaSelection, DragAndDrop, DragContext,
     Keyboard
<1>7. \A f \in AreaAnswers \cup AreaWeb \cup AreaDrawing \cup GetFields \cup GetOtherFields :
       f[2] \in ClassNames
  BY AreClass, ZenonT(60) DEF ClassNames, AreaAnswers, AreaWeb, AreaDrawing, GetFields,
     GetOtherFields
<1>8. \A f \in SetFields \cup SetOtherFields \cup CreateVariable \cup GetVariables \cup
       GetOtherVariables :
       f[2] \in ClassNames
  BY AreClass, ZenonT(60) DEF ClassNames, SetFields, SetOtherFields, CreateVariable, GetVariables,
     GetOtherVariables
<1>9. \A f \in SetVariables \cup References \cup ArraySize \cup GetElements \cup GetOtherElements
       :
       f[2] \in ClassNames
  BY AreClass, ZenonT(60) DEF ClassNames, SetVariables, References, ArraySize, GetElements,
     GetOtherElements
<1>10. \A f \in SetElements \cup ReplaceElements \cup Formats \cup Charsets \cup Selections :
       f[2] \in ClassNames
  BY AreClass, ZenonT(60) DEF ClassNames, SetElements, ReplaceElements, Formats, Charsets,
     Selections
<1>11. \A f \in Sets \cup Methods \cup Tokens \cup Commands \cup Localisation :
       f[2] \in ClassNames
  BY AreClass, ZenonT(60) DEF ClassNames, Sets, Methods, Tokens, Commands, Localisation
<1>12. \A f \in Printing \cup Processes \cup ProcessTurns \cup Documents \cup CreateResources :
       f[2] \in ClassNames
  BY AreClass, ZenonT(60) DEF ClassNames, Printing, Processes, ProcessTurns, Documents,
     CreateResources
<1>13. \A f \in GetResources \cup LockResources \cup ResourceNames \cup ResourceLists \cup
       ResourceFiles :
       f[2] \in ClassNames
  BY AreClass, ZenonT(60) DEF ClassNames, GetResources, LockResources, ResourceNames, ResourceLists,
     ResourceFiles
<1>14. \A f \in Users \cup Windows \cup NewWindows \cup Menus \cup Web :
       f[2] \in ClassNames
  BY AreClass, ZenonT(60) DEF ClassNames, Users, Windows, NewWindows, Menus, Web
<1>15. \A f \in Editors \cup Alerts \cup Dialogs \cup DialogNumbers \cup DialogTexts :
       f[2] \in ClassNames
  BY AreClass, ZenonT(60) DEF ClassNames, Editors, Alerts, Dialogs, DialogNumbers, DialogTexts
<1>16. \A f \in DialogRectangles \cup DialogDates \cup DialogDrags \cup DialogPictures \cup
       DialogUserData :
       f[2] \in ClassNames
  BY AreClass, ZenonT(60) DEF ClassNames, DialogRectangles, DialogDates, DialogDrags,
     DialogPictures,
     DialogUserData
<1>17. \A f \in DialogFilters \cup DialogTimes \cup DialogWindows \cup DialogFocus \cup Axes :
       f[2] \in ClassNames
  BY AreClass, ZenonT(60) DEF ClassNames, DialogFilters, DialogTimes, DialogWindows, DialogFocus,
     Axes
<1> QED BY <1>1, <1>2, <1>3, <1>4, <1>5, <1>6, <1>7, <1>8, <1>9, <1>10, <1>11, <1>12, <1>13,
     <1>14, <1>15, <1>16, <1>17 DEF Functions, Classes

\* The programs that are put together from parts, written out.
Spells(s, w) ==
  /\ s \in Seq(Steps) /\ w \in Seq(Steps) /\ Len(s) = Len(w)
  /\ \A i \in 1 .. Len(s) : s[i] = w[i]

LEMMA Spelled == \A s, w : Spells(s, w) => s = w
  BY SeqEqual DEF Spells

LEMMA ShortJoins ==
  /\ <<"clear">> \o Plain = <<"clear", "call", "store">>
  /\ <<"clear">> \o Raw = <<"clear", "rawcall", "store">>
  /\ <<"sub">> \o Plain = <<"sub", "call", "store">>
  /\ <<"sub">> \o Plain \o <<"sub">> = <<"sub", "call", "store", "sub">>
  /\ Plain \o <<"ifclear", "sub">> = <<"call", "store", "ifclear", "sub">>
  /\ Plain \o <<"recall", "store">> = <<"call", "store", "recall", "store">>
<1>1. Spells(<<"clear">> \o Plain, <<"clear", "call", "store">>)
  BY DEF Spells, Steps, Plain
<1>2. Spells(<<"clear">> \o Raw, <<"clear", "rawcall", "store">>)
  BY DEF Spells, Steps, Raw
<1>3. Spells(<<"sub">> \o Plain, <<"sub", "call", "store">>)
  BY DEF Spells, Steps, Plain
<1>4. Spells(<<"sub">> \o Plain \o <<"sub">>, <<"sub", "call", "store", "sub">>)
  BY DEF Spells, Steps, Plain
<1>5. Spells(Plain \o <<"ifclear", "sub">>, <<"call", "store", "ifclear", "sub">>)
  BY DEF Spells, Steps, Plain
<1>6. Spells(Plain \o <<"recall", "store">>, <<"call", "store", "recall", "store">>)
  BY DEF Spells, Steps, Plain
<1> QED BY <1>1, <1>2, <1>3, <1>4, <1>5, <1>6, Spelled

LEMMA CommandJoins ==
  /\ <<"sub">> \o Execute = <<"sub", "make", "lock", "call", "unlock", "dispose", "store">>
  /\ Execute \o <<"sub">> = <<"make", "lock", "call", "unlock", "dispose", "store", "sub">>
  /\ <<"sub", "sub">> \o Execute \o <<"sub">> =
       <<"sub", "sub", "make", "lock", "call", "unlock", "dispose", "store", "sub">>
<1>1. Spells(<<"sub">> \o Execute, <<"sub", "make", "lock", "call", "unlock", "dispose", "store">>)
  BY DEF Spells, Steps, Execute
<1>2. Spells(Execute \o <<"sub">>, <<"make", "lock", "call", "unlock", "dispose", "store", "sub">>)
  BY DEF Spells, Steps, Execute
<1>3. Spells(<<"sub", "sub">> \o Execute \o <<"sub">>,
               <<"sub", "sub", "make", "lock", "call", "unlock", "dispose", "store", "sub">>)
  BY DEF Spells, Steps, Execute
<1> QED BY <1>1, <1>2, <1>3, Spelled

LEMMA HandleJoins ==
  /\ Plain \o <<"ifclear", "size", "lock", "unlock", "recall", "store">> =
       <<"call", "store", "ifclear", "size", "lock", "unlock", "recall", "store">>
  /\ <<"copy", "call">> \o TakeBack = <<"copy", "call", "iftaken", "sub", "dispose", "store">>
  /\ Fetch \o TakeBack = <<"call", "take", "iftaken", "sub", "dispose", "store">>
  /\ Fetch \o <<"iftaken", "sub", "lock", "unlock", "dispose", "store">> =
       <<"call", "take", "iftaken", "sub", "lock", "unlock", "dispose", "store">>
  /\ Fetch \o <<"iftaken", "subifclear", "dispose", "store">> =
       <<"call", "take", "iftaken", "subifclear", "dispose", "store">>
<1>1. Spells(Plain \o <<"ifclear", "size", "lock", "unlock", "recall", "store">>,
               <<"call", "store", "ifclear", "size", "lock", "unlock", "recall", "store">>)
  BY DEF Spells, Steps, Plain
<1>2. Spells(<<"copy", "call">> \o TakeBack,
               <<"copy", "call", "iftaken", "sub", "dispose", "store">>)
  BY DEF Spells, Steps, TakeBack
<1>3. Spells(Fetch \o TakeBack, <<"call", "take", "iftaken", "sub", "dispose", "store">>)
  BY DEF Spells, Steps, Fetch, TakeBack
<1>4. Spells(Fetch \o <<"iftaken", "sub", "lock", "unlock", "dispose", "store">>,
               <<"call", "take", "iftaken", "sub", "lock", "unlock", "dispose", "store">>)
  BY DEF Spells, Steps, Fetch
<1>5. Spells(Fetch \o <<"iftaken", "subifclear", "dispose", "store">>,
               <<"call", "take", "iftaken", "subifclear", "dispose", "store">>)
  BY DEF Spells, Steps, Fetch
<1> QED BY <1>1, <1>2, <1>3, <1>4, <1>5, Spelled

LEMMA LineJoins ==
  /\ <<"lock", "unlock", "sub", "size", "lock", "line", "unlock">> \o <<>> =
       <<"lock", "unlock", "sub", "size", "lock", "line", "unlock">>
  /\ <<"lock", "unlock", "sub", "size", "lock", "line", "unlock">> \o <<"clear">> =
       <<"lock", "unlock", "sub", "size", "lock", "line", "unlock", "clear">>
<1>1. Spells(<<"lock", "unlock", "sub", "size", "lock", "line", "unlock">> \o <<>>,
               <<"lock", "unlock", "sub", "size", "lock", "line", "unlock">>)
  BY DEF Spells, Steps
<1>2. Spells(<<"lock", "unlock", "sub", "size", "lock", "line", "unlock">> \o <<"clear">>,
               <<"lock", "unlock", "sub", "size", "lock", "line", "unlock", "clear">>)
  BY DEF Spells, Steps
<1> QED BY <1>1, <1>2, Spelled

LEMMA SizeJoins ==
  /\ <<>> \o <<"size">> \o <<>> = <<"size">>
  /\ <<>> \o <<"size">> \o <<"lock", "unlock">> = <<"size", "lock", "unlock">>
  /\ <<>> \o <<"size">> \o <<"lock", "sub", "unlock">> = <<"size", "lock", "sub", "unlock">>
  /\ <<"lock", "sub", "unlock">> \o <<"size">> \o <<>> = <<"lock", "sub", "unlock", "size">>
  /\ <<"lock", "sub", "unlock">> \o <<"size">> \o <<"lock", "unlock">> =
       <<"lock", "sub", "unlock", "size", "lock", "unlock">>
  /\ <<"lock", "sub", "unlock">> \o <<"size">> \o <<"lock", "sub", "unlock">> =
       <<"lock", "sub", "unlock", "size", "lock", "sub", "unlock">>
<1>1. Spells(<<>> \o <<"size">> \o <<>>, <<"size">>)
  BY DEF Spells, Steps
<1>2. Spells(<<>> \o <<"size">> \o <<"lock", "unlock">>, <<"size", "lock", "unlock">>)
  BY DEF Spells, Steps
<1>3. Spells(<<>> \o <<"size">> \o <<"lock", "sub", "unlock">>,
               <<"size", "lock", "sub", "unlock">>)
  BY DEF Spells, Steps
<1>4. Spells(<<"lock", "sub", "unlock">> \o <<"size">> \o <<>>,
               <<"lock", "sub", "unlock", "size">>)
  BY DEF Spells, Steps
<1>5. Spells(<<"lock", "sub", "unlock">> \o <<"size">> \o <<"lock", "unlock">>,
               <<"lock", "sub", "unlock", "size", "lock", "unlock">>)
  BY DEF Spells, Steps
<1>6. Spells(<<"lock", "sub", "unlock">> \o <<"size">> \o <<"lock", "sub", "unlock">>,
               <<"lock", "sub", "unlock", "size", "lock", "sub", "unlock">>)
  BY DEF Spells, Steps
<1> QED BY <1>1, <1>2, <1>3, <1>4, <1>5, <1>6, Spelled

\* What each function may run.
LEMMA ProgramsByClass ==
  ASSUME NEW c \in ClassNames, NEW o, NEW s \in Programs(c, o)
  PROVE  \/ c \notin AddClasses \cup Forgetful /\ s \in ShortPrograms
         \/ c \notin AddClasses \cup Forgetful /\ s \in CommandPrograms
         \/ c \notin AddClasses \cup Forgetful /\ s \in VariablePrograms
         \/ c \notin AddClasses \cup Forgetful /\ s \in SizePrograms
         \/ c \notin AddClasses \cup Forgetful /\ s \in CopyPrograms
         \/ c = "keepsCopy" /\ s \in KeptPrograms
         \/ c \notin AddClasses \cup Forgetful /\ s \in TakePrograms
         \/ c \in {"openLines", "closeLines"} /\ s \in OpenAndClose
         \/ c \in AddClasses /\ s \in AddPrograms
         \/ c \in Forgetful /\ s \in ForgetfulPrograms \cup ForgetfulHandlePrograms
<1> USE DEF AddClasses, Forgetful
<1>1. CASE c \in ShortClasses
  <2>1. s \in ShortPrograms
    BY <1>1, ShortJoins DEF ShortClasses, Programs, Plain, ShortPrograms
  <2> QED BY <1>1, <2>1 DEF ShortClasses
<1>2. CASE c \in CommandClasses
  <2>1. s \in CommandPrograms
    BY <1>2, CommandJoins DEF CommandClasses, Programs, Execute, ExecuteMethod, CommandPrograms
  <2> QED BY <1>2, <2>1 DEF CommandClasses
<1>3. CASE c \in VariableClasses
  <2>1. s \in VariablePrograms
    BY <1>3 DEF VariableClasses, Programs, NewVariable, VariablePrograms
  <2> QED BY <1>3, <2>1 DEF VariableClasses
<1>4. CASE c \in SizeClasses
  <2>1. ResizeArray \subseteq SizePrograms
    BY SizeJoins DEF ResizeArray, SizePrograms
  <2>2. CASE c = "resize"
    BY <2>1, <2>2 DEF Programs, SizeClasses
  <2>3. CASE c # "resize"
    BY <1>4, <2>3, HandleJoins DEF SizeClasses, Programs, Plain, SizePrograms
  <2> QED BY <1>4, <2>2, <2>3 DEF SizeClasses
<1>5. CASE c \in CopyClasses
  <2>1. s \in CopyPrograms
    BY <1>5, HandleJoins DEF CopyClasses, Programs, Plain, CopyPrograms
  <2> QED BY <1>5, <2>1 DEF CopyClasses
<1>6. CASE c = "keepsCopy"
  BY <1>6 DEF Programs, Plain, KeptPrograms
<1>7. CASE c \in TakeClasses
  <2>1. s \in TakePrograms
    BY <1>7, HandleJoins DEF TakeClasses, Programs, TakePrograms
  <2> QED BY <1>7, <2>1 DEF TakeClasses
<1>8. CASE c \in {"openLines", "closeLines"}
  <2>1. s \in OpenAndClose
    BY <1>8 DEF Programs, OpenAndClose, OpenLines, CloseLines
  <2> QED BY <1>8, <2>1
<1>9. CASE c \in AddClasses
  <2>1. s \in AddPrograms
    BY <1>9, LineJoins DEF Programs, AddPrograms, LinePrograms, AddLine
  <2> QED BY <1>9, <2>1
<1>10. CASE c \in Forgetful
  <2>1. ASSUME c \in {"raw", "pointer", "setPointer", "properties", "keyEvent", "setPicture"}
        PROVE  s \in ForgetfulPrograms
    <3>1. s \in {<<>>, Raw, <<"clear">>, <<"clear">> \o Raw, <<"clear", "raise">>,
                 <<"clear", "sub">>, <<"raise">>, <<"rawsub">>}
      BY <2>1 DEF Programs
    <3> QED BY <3>1, ShortJoins DEF ForgetfulPrograms, Raw
  <2>2. ASSUME c \in {"newWindow", "highlight", "length", "forgets", "modal"}
        PROVE  s \in ForgetfulPrograms
    <3>1. s \in {Plain \o <<"recall", "store">>, <<"call", "recall", "store">>,
                 <<"sub">> \o Plain \o <<"sub">>, <<"rawcall", "clear">>, <<"rawcall">>}
      BY <2>2 DEF Programs
    <3> QED BY <3>1, ShortJoins DEF ForgetfulPrograms
  <2>3. ASSUME c \in {"createObject", "stringify", "convert", "receive", "orderBy"}
        PROVE  s \in ForgetfulHandlePrograms
    <3>1. s \in NewObject \cup
                {Plain, Execute \o <<"sub">>, <<"copy", "call", "store", "iftaken", "dispose">>,
                 <<"rawcall", "take", "store", "subiftaken", "dispose">>,
                 <<"make", "lock", "call", "unlock", "dispose", "freed", "store">>}
      BY <2>3 DEF Programs
    <3>2. NewObject \subseteq ForgetfulHandlePrograms
      BY CommandJoins DEF ForgetfulHandlePrograms, NewObject, Execute
    <3> QED BY <3>1, <3>2, CommandJoins DEF ForgetfulHandlePrograms, Plain
  <2> QED BY <1>10, <2>1, <2>2, <2>3
<1> QED
  BY <1>1, <1>2, <1>3, <1>4, <1>5, <1>6, <1>7, <1>8, <1>9, <1>10 DEF ClassNames

(***************************************************************************)
(* The rules that the programs keep.                                       *)
(***************************************************************************)

\* The steps that may be taken between a lock and its unlock.
Inner == {"call", "sub", "rawsub", "line", "run"}

\* A handle is locked when the program stands at i: an unlock is next, or the
\* step after next.
HeldAt(s, i) ==
  /\ i \in 1 .. Len(s)
  /\ s[i] = "unlock" \/ (s[i] \in Inner /\ i < Len(s) /\ s[i + 1] = "unlock")

\* A lock comes directly before the steps it is held for, and nothing else does.
LockRule(s) ==
  \A i \in 1 .. Len(s) :
    /\ s[i] \in {"lock", "trylock"} => HeldAt(s, i + 1)
    /\ s[i] \notin {"lock", "trylock"} /\ HeldAt(s, i + 1) => HeldAt(s, i) /\ s[i] # "unlock"

\* The steps that get a handle, and those that dispose of it or hand it over.
Acquire == {"make", "copy", "take", "trylock"}
Release == {"dispose", "give", "open"}

\* One handle at a time; nothing that ends the call early comes while it is owed,
\* and a handle is not handed over as a query's after it is gone.
HandleRule(s) ==
  \A i \in 1 .. Len(s) :
    /\ s[i] \in Acquire => \A j \in i + 1 .. Len(s) : s[j] \notin Acquire
    /\ s[i] \in {"size", "ifclear"} => \A j \in i + 1 .. Len(s) : s[j] \notin Release
    /\ s[i] = "open" => \A j \in 1 .. i - 1 : s[j] \notin Release

\* A handle that is got is given back.
ReleaseRule(s) ==
  \A i \in 1 .. Len(s) : s[i] \in Acquire => \E j \in i + 1 .. Len(s) : s[j] \in Release

\* What is left out when there is no handle ends at the one dispose, which at
\* most a store follows.
TakenRule(s) ==
  \A i \in 1 .. Len(s) : s[i] = "iftaken" =>
    \E k \in i + 1 .. Len(s) :
      /\ s[k] = "dispose" /\ \A j \in i .. Len(s) : s[j] = "dispose" => j = k
      /\ k = Len(s) \/ (k + 1 = Len(s) /\ s[k + 1] = "store")

\* The steps that leave the block and what it tells alone.
Quiet == {"store", "lock", "unlock", "dispose", "iftaken", "sub", "subifclear", "give", "take"}

\* From i on, what the block tells is stored last, or stored and then looked at.
StoreLeft(s, i) ==
  /\ i \in 1 .. Len(s)
  /\ \/ s[Len(s)] = "store" /\ \A j \in i .. Len(s) : s[j] \in Quiet
     \/ s[i] = "store" /\ i < Len(s) /\ s[i + 1] = "ifclear"

\* The functions that tell of their errors: the error of a call of the engine is
\* stored, one they raise is the last thing they do, and the error that a shared
\* function may leave unset is overwritten by the unlock that follows.
ErrorRule(s) ==
  \A i \in 1 .. Len(s) :
    /\ s[i] \in {"call", "recall", "run"} => StoreLeft(s, i + 1)
    /\ s[i] = "raise" => i = Len(s)
    /\ s[i] \notin {"rawcall", "freed", "subiftaken"}
    /\ s[i] = "rawsub" => i < Len(s) /\ s[i + 1] = "unlock"

NoLine(s) == \A i \in 1 .. Len(s) : s[i] # "line"

\* A call that asks for a line adds one at most, and ends early only when the
\* handle could not grow.
AddRule(s) ==
  \A i \in 1 .. Len(s) :
    /\ s[i] \in {"lock", "unlock", "sub", "size", "line", "raise", "clear"}
    /\ s[i] = "line" => \A j \in i + 1 .. Len(s) : s[j] # "line"

\* What every program keeps to; what the functions that tell of their errors and
\* give back their handle do; those that ask for a line; and the forgetful ones.
Ordered(s) == s \in Seq(Steps) /\ LockRule(s) /\ HandleRule(s) /\ TakenRule(s)
Tells(s) == Ordered(s) /\ ReleaseRule(s) /\ ErrorRule(s) /\ NoLine(s)
KeepsCopy(s) == Ordered(s) /\ ErrorRule(s) /\ NoLine(s)
Adds(s) == Ordered(s) /\ ReleaseRule(s) /\ ErrorRule(s) /\ AddRule(s)
Forgets(s) == Ordered(s) /\ ReleaseRule(s) /\ NoLine(s)

Rules(c, s) ==
  /\ Ordered(s)
  /\ c # "keepsCopy" => ReleaseRule(s)
  /\ c \notin Forgetful => ErrorRule(s)
  /\ IF c \in AddClasses THEN AddRule(s) ELSE NoLine(s)

\* Each program keeps the rules.
LEMMA ShortRules == \A s \in ShortPrograms : Tells(s)
<1> USE DEF Tells, Ordered, Steps, LockRule, HeldAt, Inner, HandleRule, TakenRule, Acquire,
        Release, ReleaseRule, ErrorRule, StoreLeft, Quiet, NoLine
<1>1. Tells(<<>>)
  OBVIOUS
<1>2. Tells(<<"call", "store">>)
  OBVIOUS
<1>3. Tells(<<"clear">>)
  OBVIOUS
<1>4. Tells(<<"clear", "call", "store">>)
  OBVIOUS
<1>5. Tells(<<"raise">>)
  OBVIOUS
<1>6. Tells(<<"sub">>)
  OBVIOUS
<1>7. Tells(<<"call", "store", "ifclear", "sub">>)
  OBVIOUS
<1>8. Tells(<<"sub", "call", "store">>)
  OBVIOUS
<1>9. Tells(<<"sub", "call", "sub", "store">>)
  OBVIOUS
<1> HIDE DEF Tells
<1> QED BY <1>1, <1>2, <1>3, <1>4, <1>5, <1>6, <1>7, <1>8, <1>9 DEF ShortPrograms

LEMMA CommandRules == \A s \in CommandPrograms : Tells(s)
<1> USE DEF Tells, Ordered, Steps, LockRule, HeldAt, Inner, HandleRule, TakenRule, Acquire,
        Release, ReleaseRule, ErrorRule, StoreLeft, Quiet, NoLine
<1>1. Tells(<<>>)
  OBVIOUS
<1>2. Tells(<<"make", "lock", "call", "unlock", "dispose", "store">>)
  OBVIOUS
<1>3. Tells(<<"sub", "make", "lock", "call", "unlock", "dispose", "store">>)
  OBVIOUS
<1>4. Tells(<<"make", "lock", "unlock", "call", "lock", "unlock", "dispose", "store">>)
  OBVIOUS
<1> HIDE DEF Tells
<1> QED BY <1>1, <1>2, <1>3, <1>4 DEF CommandPrograms

LEMMA VariableRules == \A s \in VariablePrograms : Tells(s)
<1> USE DEF Tells, Ordered, Steps, LockRule, HeldAt, Inner, HandleRule, TakenRule, Acquire,
        Release, ReleaseRule, ErrorRule, StoreLeft, Quiet, NoLine
<1>1. Tells(<<>>)
  OBVIOUS
<1>2. Tells(<<"sub">>)
  OBVIOUS
<1>3. Tells(<<"make", "lock", "unlock", "give">>)
  OBVIOUS
<1>4. Tells(<<"make", "lock", "sub", "unlock", "give">>)
  OBVIOUS
<1>5. Tells(<<"lock", "unlock">>)
  OBVIOUS
<1>6. Tells(<<"lock", "sub", "unlock">>)
  OBVIOUS
<1>7. Tells(<<"lock", "rawsub", "unlock">>)
  OBVIOUS
<1> HIDE DEF Tells
<1> QED BY <1>1, <1>2, <1>3, <1>4, <1>5, <1>6, <1>7 DEF VariablePrograms

LEMMA SizeRules == \A s \in SizePrograms : Tells(s)
<1> USE DEF Tells, Ordered, Steps, LockRule, HeldAt, Inner, HandleRule, TakenRule, Acquire,
        Release, ReleaseRule, ErrorRule, StoreLeft, Quiet, NoLine
<1>1. Tells(<<>>)
  OBVIOUS
<1>2. Tells(<<"size">>)
  OBVIOUS
<1>3. Tells(<<"size", "lock", "unlock">>)
  OBVIOUS
<1>4. Tells(<<"size", "lock", "sub", "unlock">>)
  OBVIOUS
<1>5. Tells(<<"lock", "sub", "unlock", "size">>)
  OBVIOUS
<1>6. Tells(<<"lock", "sub", "unlock", "size", "lock", "unlock">>)
  OBVIOUS
<1>7. Tells(<<"lock", "sub", "unlock", "size", "lock", "sub", "unlock">>)
  OBVIOUS
<1>8. Tells(<<"call", "store">>)
  OBVIOUS
<1>9. Tells(<<"call", "store", "ifclear", "size", "lock", "unlock", "recall", "store">>)
  OBVIOUS
<1> HIDE DEF Tells
<1> QED BY <1>1, <1>2, <1>3, <1>4, <1>5, <1>6, <1>7, <1>8, <1>9 DEF SizePrograms

LEMMA CopyRules == \A s \in CopyPrograms : Tells(s)
<1> USE DEF Tells, Ordered, Steps, LockRule, HeldAt, Inner, HandleRule, TakenRule, Acquire,
        Release, ReleaseRule, ErrorRule, StoreLeft, Quiet, NoLine
<1>1. Tells(<<>>)
  OBVIOUS
<1>2. Tells(<<"call", "store">>)
  OBVIOUS
<1>3. Tells(<<"copy", "give">>)
  OBVIOUS
<1>4. Tells(<<"copy", "call", "give", "store">>)
  OBVIOUS
<1>5. Tells(<<"copy", "call", "iftaken", "dispose", "store">>)
  OBVIOUS
<1>6. Tells(<<"copy", "call", "iftaken", "sub", "dispose", "store">>)
  OBVIOUS
<1> HIDE DEF Tells
<1> QED BY <1>1, <1>2, <1>3, <1>4, <1>5, <1>6 DEF CopyPrograms

LEMMA TakeRules == \A s \in TakePrograms : Tells(s)
<1> USE DEF Tells, Ordered, Steps, LockRule, HeldAt, Inner, HandleRule, TakenRule, Acquire,
        Release, ReleaseRule, ErrorRule, StoreLeft, Quiet, NoLine
<1>1. Tells(<<"call", "take", "iftaken", "sub", "dispose", "store">>)
  OBVIOUS
<1>2. Tells(<<"call", "take", "iftaken", "sub", "lock", "unlock", "dispose", "store">>)
  OBVIOUS
<1>3. Tells(<<"call", "take", "iftaken", "subifclear", "dispose", "store">>)
  OBVIOUS
<1> HIDE DEF Tells
<1> QED BY <1>1, <1>2, <1>3 DEF TakePrograms

LEMMA OpenAndCloseRules == \A s \in OpenAndClose : Tells(s)
<1> USE DEF Tells, Ordered, Steps, LockRule, HeldAt, Inner, HandleRule, TakenRule, Acquire,
        Release, ReleaseRule, ErrorRule, StoreLeft, Quiet, NoLine
<1>1. Tells(<<"make", "lock", "unlock", "open", "clear">>)
  OBVIOUS
<1>2. Tells(<<"raise">>)
  OBVIOUS
<1>3. Tells(<<"trylock", "run", "unlock", "dispose", "store">>)
  OBVIOUS
<1> HIDE DEF Tells
<1> QED BY <1>1, <1>2, <1>3 DEF OpenAndClose

LEMMA KeptRules == \A s \in KeptPrograms : KeepsCopy(s)
<1> USE DEF KeepsCopy, Ordered, Steps, LockRule, HeldAt, Inner, HandleRule, TakenRule, Acquire,
        Release, ErrorRule, StoreLeft, Quiet, NoLine
<1>1. KeepsCopy(<<"call", "store">>)
  OBVIOUS
<1>2. KeepsCopy(<<"copy", "call", "store">>)
  OBVIOUS
<1> HIDE DEF KeepsCopy
<1> QED BY <1>1, <1>2 DEF KeptPrograms

LEMMA AddRules == \A s \in AddPrograms : Adds(s)
<1> USE DEF Adds, Ordered, Steps, LockRule, HeldAt, Inner, HandleRule, TakenRule, Acquire,
        Release, ReleaseRule, ErrorRule, StoreLeft, Quiet, AddRule
<1>1. Adds(<<"raise">>)
  OBVIOUS
<1>2. Adds(<<"lock", "unlock", "raise">>)
  OBVIOUS
<1>3. Adds(<<"lock", "unlock", "sub", "size", "lock", "line", "unlock">>)
  OBVIOUS
<1>4. Adds(<<"lock", "unlock", "sub", "size", "lock", "line", "unlock", "clear">>)
  OBVIOUS
<1> HIDE DEF Adds
<1> QED BY <1>1, <1>2, <1>3, <1>4 DEF AddPrograms, LinePrograms

LEMMA ForgetfulRules == \A s \in ForgetfulPrograms : Forgets(s)
<1> USE DEF Forgets, Ordered, Steps, LockRule, HeldAt, Inner, HandleRule, TakenRule, Acquire,
        Release, ReleaseRule, NoLine
<1>1. Forgets(<<>>)
  OBVIOUS
<1>2. Forgets(<<"rawcall", "store">>)
  OBVIOUS
<1>3. Forgets(<<"clear">>)
  OBVIOUS
<1>4. Forgets(<<"clear", "rawcall", "store">>)
  OBVIOUS
<1>5. Forgets(<<"clear", "raise">>)
  OBVIOUS
<1>6. Forgets(<<"clear", "sub">>)
  OBVIOUS
<1>7. Forgets(<<"rawcall", "clear">>)
  OBVIOUS
<1>8. Forgets(<<"rawcall">>)
  OBVIOUS
<1>9. Forgets(<<"raise">>)
  OBVIOUS
<1>10. Forgets(<<"rawsub">>)
  OBVIOUS
<1>11. Forgets(<<"call", "store", "recall", "store">>)
  OBVIOUS
<1>12. Forgets(<<"call", "recall", "store">>)
  OBVIOUS
<1>13. Forgets(<<"sub", "call", "store", "sub">>)
  OBVIOUS
<1> HIDE DEF Forgets
<1> QED
  BY <1>1, <1>2, <1>3, <1>4, <1>5, <1>6, <1>7, <1>8, <1>9, <1>10, <1>11, <1>12, <1>13
  DEF ForgetfulPrograms

LEMMA ForgetfulHandleRules == \A s \in ForgetfulHandlePrograms : Forgets(s)
<1> USE DEF Forgets, Ordered, Steps, LockRule, HeldAt, Inner, HandleRule, TakenRule, Acquire,
        Release, ReleaseRule, NoLine
<1>1. Forgets(<<"sub">>)
  OBVIOUS
<1>2. Forgets(<<"make", "lock", "call", "unlock", "dispose", "store", "sub">>)
  OBVIOUS
<1>3. Forgets(<<"sub", "make", "lock", "call", "unlock", "dispose", "store">>)
  OBVIOUS
<1>4. Forgets(<<"sub", "sub", "make", "lock", "call", "unlock", "dispose", "store", "sub">>)
  OBVIOUS
<1>5. Forgets(<<"call", "store">>)
  OBVIOUS
<1>6. Forgets(<<"copy", "call", "store", "iftaken", "dispose">>)
  OBVIOUS
<1>7. Forgets(<<"rawcall", "take", "store", "subiftaken", "dispose">>)
  OBVIOUS
<1>8. Forgets(<<"make", "lock", "call", "unlock", "dispose", "freed", "store">>)
  OBVIOUS
<1> HIDE DEF Forgets
<1> QED BY <1>1, <1>2, <1>3, <1>4, <1>5, <1>6, <1>7, <1>8 DEF ForgetfulHandlePrograms

\* Whatever a function runs keeps the rules of its class.
LEMMA ProgramsKeepRules ==
  ASSUME NEW c \in ClassNames, NEW o, NEW s \in Programs(c, o)
  PROVE  Rules(c, s)
<1> USE DEF Rules
<1>1. CASE c \notin AddClasses \cup Forgetful /\ Tells(s)
  BY <1>1 DEF Tells
<1>2. CASE c = "keepsCopy" /\ s \in KeptPrograms
  BY <1>2, KeptRules DEF KeepsCopy, Forgetful, AddClasses
<1>3. CASE c \in {"openLines", "closeLines"} /\ s \in OpenAndClose
  BY <1>3, OpenAndCloseRules DEF Tells, Forgetful, AddClasses
<1>4. CASE c \in AddClasses /\ s \in AddPrograms
  BY <1>4, AddRules DEF Adds, AddClasses
<1>5. CASE c \in Forgetful /\ s \in ForgetfulPrograms \cup ForgetfulHandlePrograms
  <2>1. Forgets(s)
    BY <1>5, ForgetfulRules, ForgetfulHandleRules
  <2> QED BY <1>5, <2>1 DEF Forgets, Forgetful, AddClasses
<1> HIDE DEF Rules
<1> QED
  BY <1>1, <1>2, <1>3, <1>4, <1>5, ProgramsByClass, ShortRules, CommandRules, VariableRules,
     SizeRules, CopyRules, TakeRules

LEMMA RestOf ==
  ASSUME NEW s \in Seq(Steps), s # <<>>
  PROVE  /\ Head(s) = s[1] /\ s[1] \in Steps /\ Len(s) \in Nat /\ Len(s) >= 1
         /\ Tail(s) \in Seq(Steps) /\ Len(Tail(s)) = Len(s) - 1
         /\ \A i \in 1 .. Len(s) - 1 : Tail(s)[i] = s[i + 1]
  OBVIOUS

\* The rest of a program keeps the rules as well.
LEMMA RestKeepsOrder ==
  ASSUME NEW s, s # <<>>, Ordered(s)
  PROVE  Ordered(Tail(s))
<1> DEFINE r == Tail(s)
<1>1. s \in Seq(Steps)
  BY DEF Ordered
<1>2. /\ r \in Seq(Steps) /\ Len(r) = Len(s) - 1 /\ Len(s) \in Nat /\ Len(s) >= 1
      /\ \A i \in 1 .. Len(s) - 1 : r[i] = s[i + 1]
  BY <1>1, RestOf
<1> HIDE DEF r
<1>3. LockRule(r)
  <2>1. \A i \in 1 .. Len(s) : HeldAt(r, i) <=> HeldAt(s, i + 1)
    BY <1>2 DEF HeldAt
  <2>2. \A i \in 1 .. Len(r) : i \in 1 .. Len(s) /\ i + 1 \in 1 .. Len(s) /\ r[i] = s[i + 1]
    BY <1>2
  <2> QED BY <2>1, <2>2 DEF Ordered, LockRule
<1>4. HandleRule(r)
  <2> SUFFICES ASSUME NEW i \in 1 .. Len(r)
               PROVE  /\ r[i] \in Acquire => \A j \in i + 1 .. Len(r) : r[j] \notin Acquire
                      /\ r[i] \in {"size", "ifclear"} =>
                           \A j \in i + 1 .. Len(r) : r[j] \notin Release
                      /\ r[i] = "open" => \A j \in 1 .. i - 1 : r[j] \notin Release
    BY DEF HandleRule
  <2>1. i + 1 \in 1 .. Len(s) /\ r[i] = s[i + 1]
    BY <1>2
  <2>2. \A j \in 1 .. Len(r) : j + 1 \in 1 .. Len(s) /\ r[j] = s[j + 1]
    BY <1>2
  <2>3. /\ s[i + 1] \in Acquire => \A j \in i + 2 .. Len(s) : s[j] \notin Acquire
        /\ s[i + 1] \in {"size", "ifclear"} => \A j \in i + 2 .. Len(s) : s[j] \notin Release
        /\ s[i + 1] = "open" => \A j \in 1 .. i : s[j] \notin Release
    BY <2>1 DEF Ordered, HandleRule
  <2>4. r[i] \in Acquire => \A j \in i + 1 .. Len(r) : r[j] \notin Acquire
    BY <1>2, <2>1, <2>2, <2>3
  <2>5. r[i] \in {"size", "ifclear"} => \A j \in i + 1 .. Len(r) : r[j] \notin Release
    BY <1>2, <2>1, <2>2, <2>3
  <2>6. r[i] = "open" => \A j \in 1 .. i - 1 : r[j] \notin Release
    BY <1>2, <2>1, <2>2, <2>3
  <2> QED BY <2>4, <2>5, <2>6
<1>5. TakenRule(r)
  <2> SUFFICES ASSUME NEW i \in 1 .. Len(r), r[i] = "iftaken"
               PROVE  \E k \in i + 1 .. Len(r) :
                        /\ r[k] = "dispose" /\ \A j \in i .. Len(r) : r[j] = "dispose" => j = k
                        /\ k = Len(r) \/ (k + 1 = Len(r) /\ r[k + 1] = "store")
    BY DEF TakenRule
  <2>1. i + 1 \in 1 .. Len(s) /\ s[i + 1] = "iftaken"
    BY <1>2
  <2>2. PICK k \in i + 2 .. Len(s) :
          /\ s[k] = "dispose" /\ \A j \in i + 1 .. Len(s) : s[j] = "dispose" => j = k
          /\ k = Len(s) \/ (k + 1 = Len(s) /\ s[k + 1] = "store")
    BY <2>1 DEF Ordered, TakenRule
  <2> WITNESS k - 1 \in i + 1 .. Len(r)
  <2> QED BY <1>2, <2>2
<1> QED BY <1>2, <1>3, <1>4, <1>5 DEF Ordered, r

LEMMA RestKeepsRules ==
  ASSUME NEW c, NEW s, s # <<>>, Rules(c, s)
  PROVE  Rules(c, Tail(s))
<1> DEFINE r == Tail(s)
<1>1. s \in Seq(Steps) /\ Ordered(r)
  BY RestKeepsOrder DEF Rules, Ordered
<1>2. /\ Len(r) = Len(s) - 1 /\ Len(s) \in Nat /\ Len(s) >= 1
      /\ \A i \in 1 .. Len(s) - 1 : r[i] = s[i + 1]
  BY <1>1, RestOf
<1> HIDE DEF r
<1>3. c # "keepsCopy" => ReleaseRule(r)
  <2> SUFFICES ASSUME ReleaseRule(s), NEW i \in 1 .. Len(r), r[i] \in Acquire
               PROVE  \E j \in i + 1 .. Len(r) : r[j] \in Release
    BY DEF Rules, ReleaseRule
  <2>1. PICK j \in i + 2 .. Len(s) : s[j] \in Release
    BY <1>2 DEF ReleaseRule
  <2>2. j - 1 \in i + 1 .. Len(r) /\ r[j - 1] = s[j]
    BY <1>2
  <2> QED BY <2>1, <2>2
<1>4. c \notin Forgetful => ErrorRule(r)
  BY <1>2, SMTT(60) DEF Rules, ErrorRule, StoreLeft
<1>5. IF c \in AddClasses THEN AddRule(r) ELSE NoLine(r)
  BY <1>2 DEF Rules, AddRule, NoLine
<1> QED BY <1>1, <1>3, <1>4, <1>5 DEF Rules, r

\* The rules leave nothing to a call that has ended or only has a store to do.
LEMMA EndsKeepRules ==
  ASSUME NEW c, NEW s, s = <<>> \/ (s = <<"store">> /\ c \notin AddClasses)
  PROVE  Rules(c, s)
<1> USE DEF Rules, Ordered, Steps, LockRule, HeldAt, HandleRule, TakenRule, ReleaseRule, Acquire,
        ErrorRule, NoLine, AddRule
<1>1. CASE s = <<>>
  BY <1>1
<1>2. CASE s = <<"store">> /\ c \notin AddClasses
  BY <1>2 DEF Inner
<1> QED BY <1>1, <1>2

\* Without a handle, a function goes on behind its dispose.
LEMMA AfterTheDispose ==
  ASSUME NEW s, s # <<>>, Ordered(s), s[1] = "iftaken"
  PROVE  \/ AfterDispose(s) = <<>> /\ s[Len(s)] = "dispose"
         \/ AfterDispose(s) = <<"store">> /\ s[Len(s)] = "store"
<1>1. s \in Seq(Steps) /\ Len(s) \in Nat /\ Len(s) >= 1
  BY RestOf DEF Ordered
<1>2. PICK k \in 2 .. Len(s) :
        /\ s[k] = "dispose" /\ \A j \in 1 .. Len(s) : s[j] = "dispose" => j = k
        /\ k = Len(s) \/ (k + 1 = Len(s) /\ s[k + 1] = "store")
  BY <1>1 DEF Ordered, TakenRule
<1>3. AfterDispose(s) = SubSeq(s, k + 1, Len(s))
  <2>1. k = CHOOSE n \in 1 .. Len(s) : s[n] = "dispose"
    BY <1>1, <1>2
  <2> QED BY <2>1 DEF AfterDispose
<1>4. CASE k = Len(s)
  BY <1>1, <1>2, <1>3, <1>4, SubSeqEmpty
<1>5. CASE k + 1 = Len(s) /\ s[k + 1] = "store"
  <2>1. SubSeq(s, k + 1, k + 1) = <<"store">>
    <3> DEFINE r == SubSeq(s, k + 1, k + 1)
    <3>1. k + 1 \in Int /\ \A i \in k + 1 .. k + 1 : s[i] \in Steps
      BY <1>5 DEF Steps
    <3>2. /\ r \in Seq(Steps) /\ Len(r) = 1
          /\ \A i \in 1 .. (k + 1) - (k + 1) + 1 : r[i] = s[k + 1 + i - 1]
      BY <3>1, SubSeqProperties
    <3> HIDE DEF r
    <3>3. Spells(r, <<"store">>)
      BY <1>5, <3>2 DEF Spells, Steps
    <3> QED BY <3>3, Spelled DEF r
  <2> QED BY <1>3, <1>5, <2>1
<1> QED BY <1>2, <1>4, <1>5

(***************************************************************************)
(* The inductive invariant.                                                *)
(***************************************************************************)

CallRecords ==
  [class : Classes \cup {"none"}, todo : Seq(Steps), block : Errors \cup {"junk"},
   failed : SUBSET {"main", "sub", "lock"}, wrote : BOOLEAN, handles : Int, locks : Int]

OrderRecords ==
  [kind : {"none", "orderBy", "query"}, open : BOOLEAN, lines : Int, asked : Int,
   told : BOOLEAN]

TypeInv ==
  /\ slot \in [Threads -> Errors \cup {"junk"}]
  /\ call \in [Threads -> CallRecords]
  /\ order \in [Threads -> OrderRecords]

\* A handle is locked exactly where the program says so.
LockInv(c) == c.locks = IF HeldAt(c.todo, 1) THEN 1 ELSE 0

\* There is one handle at most.  While there is one no other is got, and a step that
\* is left to take gives it back, except for the copy that is kept and the lines that
\* could not be locked.  The handle of a query is there when it is handed over.
HandleInv(c) ==
  /\ c.handles \in {0, 1}
  /\ c.handles = 1 =>
       /\ \A i \in 1 .. Len(c.todo) : c.todo[i] \notin Acquire
       /\ c.class # "keepsCopy" /\ "lock" \notin c.failed =>
            \E i \in 1 .. Len(c.todo) : c.todo[i] \in Release
  /\ "lock" \in c.failed => c.todo = <<>>
  /\ \A j \in 1 .. Len(c.todo) : c.todo[j] = "open" =>
       c.handles = 1 \/ \E i \in 1 .. j - 1 : c.todo[i] = "make"

\* For the functions that tell of their errors: the block tells of an error of the
\* function itself, the code of some error, and a failure is in the code at the end,
\* or in the block and about to be stored.
ErrorInv(c, e) ==
  c.class \notin Forgetful =>
    /\ c.block \in Errors
    /\ c.block = "error" => "main" \in c.failed
    /\ c.wrote /\ e = "error" => c.failed # {}
    /\ c.wrote /\ e = "junk" => c.todo # <<>> /\ c.todo[1] = "unlock"
    /\ "main" \in c.failed \/ "lock" \in c.failed =>
         \/ e = "error" /\ (c.todo = <<>> \/ c.todo[1] = "ifclear")
         \/ c.block = "error" /\ StoreLeft(c.todo, 1)

Has(s, step) == \E i \in 1 .. Len(s) : s[i] = step

\* Lines and requests differ by the line that is about to be added, unless an error
\* was returned or will be.
LineInv(c, o) ==
  /\ o.asked \in 0 .. MaxAsked /\ o.lines \in 0 .. LineLimit
  /\ Has(c.todo, "line") => o.lines < LineLimit
  /\ \/ o.told
     \/ c.class \in AddClasses /\ ("main" \in c.failed \/ Has(c.todo, "raise"))
     \/ o.asked = o.lines + (IF Has(c.todo, "line") THEN 1 ELSE 0)

Sound(t) ==
  /\ Rules(call[t].class, call[t].todo)
  /\ LockInv(call[t])
  /\ HandleInv(call[t])
  /\ ErrorInv(call[t], slot[t])
  /\ LineInv(call[t], order[t])

IInv == TypeInv /\ \A t \in Threads : Sound(t)

(***************************************************************************)
(* What a step does to a call, action by action.                           *)
(***************************************************************************)

\* The call goes on, ends early, or leaves out what needs a handle.
TodoMoves(c, d) ==
  \/ d.todo = Tail(c.todo)
  \/ d.todo = <<>> /\ c.todo[1] \in {"make", "size", "ifclear", "trylock"}
  \/ d.todo = AfterDispose(c.todo) /\ c.todo[1] = "iftaken" /\ ~(c.handles > 0)

LocksMove(c, d) ==
  \/ c.todo[1] = "lock" /\ d.todo = Tail(c.todo) /\ d.locks = c.locks + 1
  \/ c.todo[1] = "unlock" /\ d.todo = Tail(c.todo) /\ d.locks = c.locks - 1
  \/ c.todo[1] = "trylock" /\ d.todo = Tail(c.todo) /\ d.locks = 1
  \/ c.todo[1] = "trylock" /\ d.todo = <<>> /\ d.locks = c.locks
  \/ c.todo[1] \notin {"lock", "unlock", "trylock"} /\ d.locks = c.locks

HandlesMove(c, d) ==
  \/ /\ c.todo[1] = "trylock" /\ d.handles = 1
     /\ \/ d.todo = <<>> /\ "lock" \in d.failed
        \/ d.todo = Tail(c.todo) /\ ("lock" \in d.failed <=> "lock" \in c.failed)
  \/ /\ c.todo[1] # "trylock"
     /\ "lock" \in d.failed <=> "lock" \in c.failed
     /\ \/ /\ c.todo[1] \in {"make", "copy", "take"}
           /\ d.handles = c.handles + 1 /\ d.todo = Tail(c.todo)
        \/ c.todo[1] \in {"dispose", "give"} /\ d.todo = Tail(c.todo)
             /\ d.handles = IF c.handles > 0 THEN c.handles - 1 ELSE 0
        \/ c.todo[1] = "open" /\ d.handles = c.handles - 1 /\ d.todo = Tail(c.todo)
        \/ /\ c.todo[1] \notin Release /\ d.handles = c.handles
           /\ c.todo[1] = "make" => d.todo = <<>>

LinesMove(c, d, o, p) ==
  /\ "main" \in c.failed => "main" \in d.failed
  /\ c.todo[1] = "raise" => "main" \in d.failed
  /\ c.todo[1] = "size" => d.todo = Tail(c.todo) \/ "main" \in d.failed
  /\ p.asked = o.asked /\ p.told = o.told
  /\ p.lines = o.lines + IF c.todo[1] = "line" THEN 1 ELSE 0

Moves(t) ==
  LET c == call[t] d == call'[t] IN
    /\ c.todo # <<>> /\ d.class = c.class
    /\ TodoMoves(c, d)
    /\ LocksMove(c, d)
    /\ HandlesMove(c, d)
    /\ LinesMove(c, d, order[t], order'[t])

\* The call and the order by of every other thread are left alone.
Alone(t) ==
  \A u \in Threads \ {t} : call'[u] = call[u] /\ slot'[u] = slot[u] /\ order'[u] = order[u]

\* The call of t, its code and its order by after a step.
Becomes(t, d, e, p) ==
  /\ call' = [call EXCEPT ![t] = d] /\ d \in CallRecords
  /\ slot' = [slot EXCEPT ![t] = e] /\ e \in Errors \cup {"junk"}
  /\ order' = [order EXCEPT ![t] = p] /\ p \in OrderRecords

LEMMA BecomesAlone ==
  ASSUME TypeInv, NEW t \in Threads, NEW d, NEW e, NEW p, Becomes(t, d, e, p)
  PROVE  /\ TypeInv' /\ Alone(t)
         /\ call'[t] = d /\ slot'[t] = e /\ order'[t] = p
  BY DEF TypeInv, Becomes, Alone

\* The fields of a call record of which one is changed.
Same(c, d) == d.class = c.class /\ d.wrote = c.wrote

LEMMA WithTodo ==
  ASSUME NEW c \in CallRecords, NEW s \in Seq(Steps)
  PROVE  LET d == [c EXCEPT !.todo = s] IN
           /\ d \in CallRecords /\ Same(c, d)
           /\ d.todo = s /\ d.block = c.block /\ d.failed = c.failed
           /\ d.handles = c.handles /\ d.locks = c.locks
  BY DEF CallRecords, Same

LEMMA FollowingIs ==
  ASSUME TypeInv, NEW t \in Threads, call[t].todo # <<>>
  PROVE  LET c == call[t] d == Following(t) IN
           /\ d \in CallRecords /\ Same(c, d)
           /\ d.todo = Tail(c.todo) /\ d.block = c.block /\ d.failed = c.failed
           /\ d.handles = c.handles /\ d.locks = c.locks
<1>1. call[t] \in CallRecords /\ Tail(call[t].todo) \in Seq(Steps)
  BY RestOf DEF TypeInv, CallRecords
<1> QED BY <1>1, WithTodo DEF Following

LEMMA StoppedIs ==
  ASSUME TypeInv, NEW t \in Threads
  PROVE  LET c == call[t] d == Stopped(t) IN
           /\ d \in CallRecords /\ Same(c, d)
           /\ d.todo = <<>> /\ d.block = c.block /\ d.failed = c.failed
           /\ d.handles = c.handles /\ d.locks = c.locks
<1>1. call[t] \in CallRecords /\ <<>> \in Seq(Steps)
  BY DEF TypeInv
<1> QED BY <1>1, WithTodo DEF Stopped

BlamedFor(c, e, who) == IF e = "error" THEN c.failed \cup {who} ELSE c.failed

LEMMA BlameIs ==
  ASSUME NEW c \in CallRecords, NEW e, NEW who \in {"main", "sub", "lock"}
  PROVE  LET d == Blame(c, e, who) IN
           /\ d \in CallRecords
           /\ d.class = c.class /\ d.todo = c.todo /\ d.block = c.block
           /\ d.failed = BlamedFor(c, e, who)
           /\ d.wrote = c.wrote /\ d.handles = c.handles /\ d.locks = c.locks
<1>1. CASE e = "error"
  BY <1>1 DEF CallRecords, Blame, BlamedFor
<1>2. CASE e # "error"
  BY <1>2 DEF CallRecords, Blame, BlamedFor
<1> QED BY <1>1, <1>2

LEMMA GoesBecomes ==
  ASSUME TypeInv, NEW t \in Threads, NEW d \in CallRecords, Goes(t, d), UNCHANGED <<slot, order>>
  PROVE  Becomes(t, d, slot[t], order[t])
  BY DEF TypeInv, Goes, Becomes

LEMMA PutsBecomes ==
  ASSUME TypeInv, NEW t \in Threads, NEW c \in CallRecords, NEW e \in Errors \cup {"junk"},
         Puts(t, e, c)
  PROVE  LET d == [c EXCEPT !.wrote = TRUE] IN
           /\ Becomes(t, d, e, order[t])
           /\ d.class = c.class /\ d.todo = c.todo /\ d.block = c.block
           /\ d.failed = c.failed /\ d.wrote = TRUE /\ d.handles = c.handles
           /\ d.locks = c.locks
<1> DEFINE d == [c EXCEPT !.wrote = TRUE]
<1>1. /\ d \in CallRecords
      /\ d.class = c.class /\ d.todo = c.todo /\ d.block = c.block
      /\ d.failed = c.failed /\ d.wrote = TRUE /\ d.handles = c.handles
      /\ d.locks = c.locks
  BY DEF CallRecords
<1>2. /\ call' = [call EXCEPT ![t] = d] /\ slot' = [slot EXCEPT ![t] = e]
      /\ order' = [order EXCEPT ![t] = order[t]]
  BY DEF TypeInv, Puts, Goes, Slot
<1>3. order[t] \in OrderRecords
  BY DEF TypeInv
<1> HIDE DEF d
<1> QED BY <1>1, <1>2, <1>3 DEF Becomes, d

\* The fields of t's call, its code and its order by after a step.
After(t, todo, block, failed, handles, locks, e, p) ==
  /\ TypeInv' /\ Alone(t)
  /\ call'[t].class = call[t].class
  /\ call'[t].todo = todo /\ call'[t].block = block /\ call'[t].failed = failed
  /\ call'[t].handles = handles /\ call'[t].locks = locks
  /\ slot'[t] = e /\ order'[t] = p

\* After a step that leaves the code alone, and after one that sets it.
Kept(t) == slot'[t] = slot[t] /\ call'[t].wrote = call[t].wrote
Wrote(t) == call'[t].wrote = TRUE

LEMMA GoesAfter ==
  ASSUME TypeInv, NEW t \in Threads, NEW d \in CallRecords, d.class = call[t].class,
         Goes(t, d), UNCHANGED <<slot, order>>
  PROVE  /\ After(t, d.todo, d.block, d.failed, d.handles, d.locks, slot[t], order[t])
         /\ call'[t].wrote = d.wrote
<1>1. Becomes(t, d, slot[t], order[t])
  BY GoesBecomes
<1> QED BY <1>1, BecomesAlone DEF After

LEMMA PutsAfter ==
  ASSUME TypeInv, NEW t \in Threads, NEW c \in CallRecords, c.class = call[t].class,
         NEW e \in Errors \cup {"junk"}, Puts(t, e, c)
  PROVE  /\ After(t, c.todo, c.block, c.failed, c.handles, c.locks, e, order[t])
         /\ Wrote(t)
<1> DEFINE d == [c EXCEPT !.wrote = TRUE]
<1>1. /\ Becomes(t, d, e, order[t])
      /\ d.class = c.class /\ d.todo = c.todo /\ d.block = c.block
      /\ d.failed = c.failed /\ d.wrote = TRUE /\ d.handles = c.handles
      /\ d.locks = c.locks
  BY PutsBecomes
<1> HIDE DEF d
<1> QED BY <1>1, BecomesAlone DEF After, Wrote


\* A step that puts a code and goes on, one that also blames someone for it, and one
\* that is the last.
LEMMA PutsFollowing ==
  ASSUME TypeInv, NEW t \in Threads, call[t].todo # <<>>, NEW e \in Errors \cup {"junk"},
         Puts(t, e, Following(t))
  PROVE  LET c == call[t] IN
           /\ Wrote(t)
           /\ After(t, Tail(c.todo), c.block, c.failed, c.handles, c.locks, e, order[t])
  BY FollowingIs, PutsAfter DEF Same

LEMMA PutsBlame ==
  ASSUME TypeInv, NEW t \in Threads, call[t].todo # <<>>, NEW e \in Errors \cup {"junk"},
         NEW who \in {"main", "sub", "lock"}, Puts(t, e, Blame(Following(t), e, who))
  PROVE  LET c == call[t] IN
           /\ Wrote(t)
           /\ After(t, Tail(c.todo), c.block, BlamedFor(c, e, who), c.handles, c.locks, e,
                    order[t])
<1> DEFINE c == call[t] f == Following(t) d == Blame(f, e, who)
<1>1. /\ f \in CallRecords /\ Same(c, f)
      /\ f.todo = Tail(c.todo) /\ f.block = c.block /\ f.failed = c.failed
      /\ f.handles = c.handles /\ f.locks = c.locks
  BY FollowingIs
<1>2. Puts(t, e, d)
  OBVIOUS
<1> HIDE DEF f
<1>3. /\ d \in CallRecords
      /\ d.class = f.class /\ d.todo = f.todo /\ d.block = f.block
      /\ d.failed = BlamedFor(f, e, who)
      /\ d.handles = f.handles /\ d.locks = f.locks
  BY <1>1, BlameIs
<1> HIDE DEF d
<1>4. /\ After(t, d.todo, d.block, d.failed, d.handles, d.locks, e, order[t])
      /\ Wrote(t)
  BY <1>1, <1>2, <1>3, PutsAfter DEF Same
<1> QED BY <1>1, <1>3, <1>4 DEF BlamedFor

LEMMA PutsStop ==
  ASSUME TypeInv, NEW t \in Threads, NEW who \in {"main", "sub", "lock"},
         Puts(t, "error", Blame(Stopped(t), "error", who))
  PROVE  LET c == call[t] IN
           /\ Wrote(t)
           /\ After(t, <<>>, c.block, c.failed \cup {who}, c.handles, c.locks, "error",
                    order[t])
<1> DEFINE c == call[t] f == Stopped(t) d == Blame(f, "error", who)
<1>1. /\ f \in CallRecords /\ Same(c, f)
      /\ f.todo = <<>> /\ f.block = c.block /\ f.failed = c.failed
      /\ f.handles = c.handles /\ f.locks = c.locks
  BY StoppedIs
<1>2. Puts(t, "error", d)
  OBVIOUS
<1> HIDE DEF f
<1>3. /\ d \in CallRecords
      /\ d.class = f.class /\ d.todo = f.todo /\ d.block = f.block
      /\ d.failed = BlamedFor(f, "error", who)
      /\ d.handles = f.handles /\ d.locks = f.locks
  BY <1>1, BlameIs
<1> HIDE DEF d
<1>4. /\ After(t, d.todo, d.block, d.failed, d.handles, d.locks, "error", order[t])
      /\ Wrote(t)
  BY <1>1, <1>2, <1>3, PutsAfter DEF Same, Errors
<1> QED BY <1>1, <1>3, <1>4 DEF BlamedFor

Counted(c, h, l) == [c EXCEPT !.handles = h, !.locks = l]

LEMMA WithCounts ==
  ASSUME NEW c \in CallRecords, NEW h \in Int, NEW l \in Int
  PROVE  LET d == Counted(c, h, l) IN
           /\ d \in CallRecords /\ Same(c, d)
           /\ d.todo = c.todo /\ d.block = c.block /\ d.failed = c.failed
           /\ d.handles = h /\ d.locks = l
  BY DEF CallRecords, Same, Counted

WithHandles(c, n) == [c EXCEPT !.handles = n]
WithLocks(c, n) == [c EXCEPT !.locks = n]

LEMMA OneCount ==
  ASSUME NEW c \in CallRecords, NEW n \in Int
  PROVE  /\ WithHandles(c, n) = Counted(c, n, c.locks)
         /\ WithLocks(c, n) = Counted(c, c.handles, n)
  BY DEF CallRecords, Counted, WithHandles, WithLocks

\* A step that changes the handles or the locks, with a code or without.
LEMMA CountsFollowing ==
  ASSUME TypeInv, NEW t \in Threads, call[t].todo # <<>>, NEW h \in Int, NEW l \in Int
  PROVE  LET c == call[t] d == Counted(Following(t), h, l) IN
           /\ Puts(t, "none", d) =>
                /\ Wrote(t)
                /\ After(t, Tail(c.todo), c.block, c.failed, h, l, "none", order[t])
           /\ Goes(t, d) /\ UNCHANGED <<slot, order>> =>
                /\ Kept(t)
                /\ After(t, Tail(c.todo), c.block, c.failed, h, l, slot[t], order[t])
<1> DEFINE c == call[t] f == Following(t) d == Counted(f, h, l)
<1>1. /\ f \in CallRecords /\ Same(c, f)
      /\ f.todo = Tail(c.todo) /\ f.block = c.block /\ f.failed = c.failed
  BY FollowingIs
<1> HIDE DEF f
<1>2. /\ d \in CallRecords /\ Same(f, d)
      /\ d.todo = f.todo /\ d.block = f.block /\ d.failed = f.failed
      /\ d.handles = h /\ d.locks = l
  BY <1>1, WithCounts
<1> HIDE DEF d
<1>3. ASSUME Puts(t, "none", d)
      PROVE  /\ Wrote(t)
             /\ After(t, Tail(c.todo), c.block, c.failed, h, l, "none", order[t])
  BY <1>1, <1>2, <1>3, PutsAfter DEF Same, Errors
<1>4. ASSUME Goes(t, d), UNCHANGED <<slot, order>>
      PROVE  /\ Kept(t)
             /\ After(t, Tail(c.todo), c.block, c.failed, h, l, slot[t], order[t])
  <2>1. /\ After(t, d.todo, d.block, d.failed, d.handles, d.locks, slot[t], order[t])
        /\ call'[t].wrote = d.wrote
    BY <1>1, <1>2, <1>4, GoesAfter DEF Same
  <2> QED BY <1>1, <1>2, <2>1 DEF Same, Kept, After
<1> QED BY <1>3, <1>4 DEF d, f

LEMMA PutsCounted ==
  ASSUME TypeInv, NEW t \in Threads, call[t].todo # <<>>, NEW h \in Int, NEW l \in Int,
         Puts(t, "none", Counted(Following(t), h, l))
  PROVE  LET c == call[t] IN
           /\ Wrote(t)
           /\ After(t, Tail(c.todo), c.block, c.failed, h, l, "none", order[t])
  BY CountsFollowing

LEMMA HandlesFollowing ==
  ASSUME TypeInv, NEW t \in Threads, call[t].todo # <<>>, NEW n \in Int
  PROVE  LET c == call[t] d == WithHandles(Following(t), n) IN
           /\ Puts(t, "none", d) =>
                /\ Wrote(t)
                /\ After(t, Tail(c.todo), c.block, c.failed, n, c.locks, "none", order[t])
           /\ Goes(t, d) /\ UNCHANGED <<slot, order>> =>
                /\ Kept(t)
                /\ After(t, Tail(c.todo), c.block, c.failed, n, c.locks, slot[t], order[t])
<1> DEFINE c == call[t] f == Following(t) d == WithHandles(f, n)
<1>1. f \in CallRecords /\ f.handles = c.handles /\ f.locks = c.locks
  BY FollowingIs
<1>2. c.handles \in Int /\ c.locks \in Int
  BY DEF TypeInv, CallRecords
<1> HIDE DEF f, c
<1>3. d = Counted(f, n, c.locks)
  BY <1>1, OneCount
<1> QED BY <1>2, <1>3, CountsFollowing DEF c, f

LEMMA LocksFollowing ==
  ASSUME TypeInv, NEW t \in Threads, call[t].todo # <<>>, NEW n \in Int
  PROVE  LET c == call[t] d == WithLocks(Following(t), n) IN
           /\ Puts(t, "none", d) =>
                /\ Wrote(t)
                /\ After(t, Tail(c.todo), c.block, c.failed, c.handles, n, "none", order[t])
           /\ Goes(t, d) /\ UNCHANGED <<slot, order>> =>
                /\ Kept(t)
                /\ After(t, Tail(c.todo), c.block, c.failed, c.handles, n, slot[t], order[t])
<1> DEFINE c == call[t] f == Following(t) d == WithLocks(f, n)
<1>1. f \in CallRecords /\ f.handles = c.handles /\ f.locks = c.locks
  BY FollowingIs
<1>2. c.handles \in Int /\ c.locks \in Int
  BY DEF TypeInv, CallRecords
<1> HIDE DEF f, c
<1>3. d = Counted(f, c.handles, n)
  BY <1>1, OneCount
<1> QED BY <1>2, <1>3, CountsFollowing DEF c, f

\* What each kind of step does to the call and the code: the engine,
EngineEffect(t, c, step, rest) ==
  \E e \in Errors \cup {"junk"} :
    /\ Kept(t)
    /\ \/ /\ step \in {"call", "run", "rawcall", "recall"}
          /\ step \in {"call", "run"} => e \in Errors
          /\ step = "recall" => e \in Errors \cup {c.block}
          /\ After(t, rest, e, BlamedFor(c, e, "main"), c.handles, c.locks, slot[t], order[t])
       \/ /\ step = "freed"
          /\ After(t, rest, e, c.failed, c.handles, c.locks, slot[t], order[t])

\* the code and the other functions,
CodeEffect(t, c, step, rest) ==
  \E e \in Errors \cup {"junk"} :
    /\ Wrote(t)
    /\ \/ /\ \/ step = "store" /\ e = c.block
             \/ step \in {"clear", "size"} /\ e = "none"
          /\ After(t, rest, c.block, c.failed, c.handles, c.locks, e, order[t])
       \/ /\ step = "raise" /\ e = "error"
          /\ After(t, rest, c.block, BlamedFor(c, e, "main"), c.handles, c.locks, e, order[t])
       \/ /\ \/ step \in {"sub", "subifclear", "subiftaken"} /\ e \in Errors
             \/ step = "rawsub"
             \/ step = "copy" /\ e = "error"
          /\ After(t, rest, c.block, BlamedFor(c, e, "sub"), c.handles, c.locks, e, order[t])

\* what is left out,
SkipEffect(t, c, step, rest) ==
  \E todo \in {rest, <<>>, AfterDispose(c.todo)} :
    /\ Kept(t)
    /\ After(t, todo, c.block, c.failed, c.handles, c.locks, slot[t], order[t])
    /\ \/ step \in {"subifclear", "subiftaken"} /\ todo = rest
       \/ step = "ifclear" /\ todo = IF slot[t] = "none" THEN rest ELSE <<>>
       \/ step = "iftaken" /\ todo = IF c.handles > 0 THEN rest ELSE AfterDispose(c.todo)

\* the end of a call that can do no more,
StopEffect(t, c, step) ==
  /\ step \in {"make", "size"} /\ Wrote(t)
  /\ After(t, <<>>, c.block, c.failed \cup {"main"}, c.handles, c.locks, "error", order[t])

\* handles and their locks,
HandleEffect(t, c, step, rest) ==
  \E h, l \in Int :
    \/ /\ Wrote(t) /\ After(t, rest, c.block, c.failed, h, l, "none", order[t])
       /\ \/ step \in {"make", "copy"} /\ h = c.handles + 1 /\ l = c.locks
          \/ step = "dispose" /\ h = (IF c.handles > 0 THEN c.handles - 1 ELSE 0) /\ l = c.locks
          \/ step = "lock" /\ h = c.handles /\ l = c.locks + 1
          \/ step = "unlock" /\ h = c.handles /\ l = c.locks - 1
          \/ step = "trylock" /\ h = 1 /\ l = 1
    \/ /\ Kept(t) /\ After(t, rest, c.block, c.failed, h, l, slot[t], order[t])
       /\ \/ step = "take" /\ h \in {c.handles, c.handles + 1} /\ l = c.locks
          \/ step = "give" /\ h = (IF c.handles > 0 THEN c.handles - 1 ELSE 0) /\ l = c.locks

\* and the handle of the lines.
LineEffect(t, c, step, rest) ==
  \/ /\ step = "open" /\ Kept(t)
     /\ After(t, rest, c.block, c.failed, c.handles - 1, c.locks, slot[t],
              [order[t] EXCEPT !.open = TRUE])
  \/ /\ step = "line" /\ Kept(t)
     /\ After(t, rest, c.block, c.failed, c.handles, c.locks, slot[t],
              [order[t] EXCEPT !.lines = order[t].lines + 1])
  \/ /\ step = "trylock" /\ Wrote(t)
     /\ After(t, <<>>, c.block, c.failed \cup {"lock"}, 1, c.locks, "error", order[t])

Effect(t) ==
  LET c == call[t] step == c.todo[1] rest == Tail(c.todo) IN
    /\ c.todo # <<>>
    /\ \/ EngineEffect(t, c, step, rest)
       \/ CodeEffect(t, c, step, rest)
       \/ SkipEffect(t, c, step, rest)
       \/ StopEffect(t, c, step)
       \/ HandleEffect(t, c, step, rest)
       \/ LineEffect(t, c, step, rest)

LEMMA StepEffect ==
  ASSUME TypeInv, NEW t \in Threads, Ordered(call[t].todo), Step(t)
  PROVE  Effect(t)
<1> DEFINE c == call[t] f == Following(t) rest == Tail(c.todo)
<1>1. /\ c \in CallRecords /\ c.block \in Errors \cup {"junk"} /\ c.handles \in Int
      /\ c.locks \in Int /\ c.failed \in SUBSET {"main", "sub", "lock"} /\ order[t] \in OrderRecords
      /\ slot[t] \in Errors \cup {"junk"}
  BY DEF TypeInv, CallRecords
<1>2. \A step : At(t, step) => c.todo # <<>> /\ c.todo[1] = step
  BY RestOf DEF At, Ordered
<1>3. c.todo # <<>> =>
        /\ f \in CallRecords /\ Same(c, f)
        /\ f.todo = rest /\ f.block = c.block /\ f.failed = c.failed
        /\ f.handles = c.handles /\ f.locks = c.locks
  BY FollowingIs
<1>4. CASE Store(t)
  BY <1>1, <1>2, <1>4, PutsFollowing DEF Store, Effect, CodeEffect
<1>5. CASE Clear(t)
  BY <1>2, <1>5, PutsFollowing DEF Clear, Effect, CodeEffect, Errors
<1>6. CASE Raise(t)
  BY <1>2, <1>6, PutsBlame DEF Raise, Effect, CodeEffect, Errors
<1>7. CASE SubCall(t)
  BY <1>2, <1>7, PutsBlame DEF SubCall, Effect, CodeEffect, Errors
<1>8. CASE EngineCall(t)
  <2>1. PICK step \in DOMAIN Results(t) :
          At(t, step) /\ \E e \in Results(t)[step] :
             Goes(t, Blame([f EXCEPT !.block = e], e, "main"))
    BY <1>8 DEF EngineCall
  <2>2. /\ step \in {"call", "run", "rawcall", "recall"}
        /\ Results(t)[step] \subseteq Errors \cup {"junk"}
        /\ step \in {"call", "run"} => Results(t)[step] = Errors
        /\ step = "recall" => Results(t)[step] = Errors \cup {c.block}
    BY <1>1, <2>1 DEF Results
  <2>3. PICK e \in Results(t)[step] : Goes(t, Blame([f EXCEPT !.block = e], e, "main"))
    BY <2>1
  <2> DEFINE g == [f EXCEPT !.block = e] d == Blame(g, e, "main")
  <2>4. c.todo # <<>> /\ c.todo[1] = step /\ e \in Errors \cup {"junk"}
    BY <1>2, <2>1, <2>2
  <2> HIDE DEF f
  <2>5. /\ g \in CallRecords /\ Same(f, g)
        /\ g.todo = f.todo /\ g.block = e /\ g.failed = f.failed
        /\ g.handles = f.handles /\ g.locks = f.locks
    BY <1>3, <2>4 DEF CallRecords, Same
  <2> HIDE DEF g
  <2>6. /\ d \in CallRecords /\ Same(g, d)
        /\ d.todo = g.todo /\ d.block = g.block /\ d.failed = BlamedFor(g, e, "main")
        /\ d.handles = g.handles /\ d.locks = g.locks
    BY <2>5, BlameIs DEF Same
  <2>7. Goes(t, d) /\ UNCHANGED <<slot, order>>
    BY <1>8, <2>3 DEF EngineCall, f, g
  <2> HIDE DEF d
  <2>8. /\ After(t, d.todo, d.block, d.failed, d.handles, d.locks, slot[t], order[t])
        /\ call'[t].wrote = d.wrote
    BY <1>3, <2>4, <2>5, <2>6, <2>7, GoesAfter DEF Same
  <2>9. /\ d.todo = rest /\ d.block = e /\ d.failed = BlamedFor(c, e, "main")
        /\ d.handles = c.handles /\ d.locks = c.locks /\ d.wrote = c.wrote
    BY <1>3, <2>4, <2>5, <2>6 DEF Same, BlamedFor
  <2>10. Kept(t)
    BY <2>8, <2>9 DEF Kept, After
  <2> QED BY <2>2, <2>3, <2>4, <2>8, <2>9, <2>10 DEF Effect, EngineEffect
<1>9. CASE Skip(t)
  <2>1. ASSUME NEW d \in CallRecords, Same(c, d), d.block = c.block, d.failed = c.failed,
               d.handles = c.handles, d.locks = c.locks, Goes(t, d)
        PROVE  /\ Kept(t)
               /\ After(t, d.todo, c.block, c.failed, c.handles, c.locks, slot[t], order[t])
    <3>1. UNCHANGED <<slot, order>>
      BY <1>9 DEF Skip
    <3>2. /\ After(t, d.todo, d.block, d.failed, d.handles, d.locks, slot[t], order[t])
          /\ call'[t].wrote = d.wrote
      BY <2>1, <3>1, GoesAfter DEF Same
    <3> QED BY <2>1, <3>2 DEF Kept, After, Same
  <2>2. CASE At(t, "subifclear") /\ slot[Slot(t)] # "none" /\ Goes(t, f)
    BY <1>2, <1>3, <2>1, <2>2 DEF Effect, SkipEffect
  <2>3. CASE At(t, "subiftaken") /\ c.handles = 0 /\ Goes(t, f)
    BY <1>2, <1>3, <2>1, <2>3 DEF Effect, SkipEffect
  <2>4. CASE At(t, "ifclear") /\ Goes(t, IF slot[Slot(t)] = "none" THEN f ELSE Stopped(t))
    <3>1. CASE slot[t] = "none"
      BY <1>2, <1>3, <2>1, <2>4, <3>1 DEF Effect, SkipEffect, Slot
    <3>2. CASE slot[t] # "none"
      BY <1>2, <2>1, <2>4, <3>2, StoppedIs DEF Effect, SkipEffect, Slot
    <3> QED BY <3>1, <3>2
  <2>5. CASE /\ At(t, "iftaken")
             /\ Goes(t, IF c.handles > 0 THEN f ELSE [c EXCEPT !.todo = AfterDispose(c.todo)])
    <3>1. CASE c.handles > 0
      BY <1>2, <1>3, <2>1, <2>5, <3>1 DEF Effect, SkipEffect
    <3>2. CASE ~(c.handles > 0)
      <4> DEFINE d == [c EXCEPT !.todo = AfterDispose(c.todo)]
      <4>1. c.todo # <<>> /\ c.todo[1] = "iftaken" /\ AfterDispose(c.todo) \in Seq(Steps)
        <5>1. c.todo # <<>> /\ c.todo[1] = "iftaken"
          BY <1>2, <2>5
        <5>2. <<>> \in Seq(Steps) /\ <<"store">> \in Seq(Steps)
          BY DEF Steps
        <5> QED BY <5>1, <5>2, AfterTheDispose
      <4>2. /\ d \in CallRecords /\ Same(c, d)
            /\ d.todo = AfterDispose(c.todo) /\ d.block = c.block /\ d.failed = c.failed
            /\ d.handles = c.handles /\ d.locks = c.locks
        BY <1>1, <4>1, WithTodo
      <4>3. Goes(t, d)
        BY <2>5, <3>2
      <4> HIDE DEF d
      <4> QED BY <2>1, <3>2, <4>1, <4>2, <4>3 DEF Effect, SkipEffect
    <3> QED BY <3>1, <3>2
  <2> QED BY <1>9, <2>2, <2>3, <2>4, <2>5 DEF Skip
<1>10. CASE Make(t)
  <2>1. c.todo # <<>> /\ c.todo[1] = "make"
    BY <1>2, <1>10 DEF Make
  <2>2. CASE Puts(t, "none", [f EXCEPT !.handles = f.handles + 1])
    <3>1. Puts(t, "none", WithHandles(f, c.handles + 1))
      BY <1>3, <2>1, <2>2 DEF WithHandles
    <3>2. /\ Wrote(t) /\ c.handles + 1 \in Int
          /\ After(t, rest, c.block, c.failed, c.handles + 1, c.locks, "none", order[t])
      BY <1>1, <2>1, <3>1, HandlesFollowing
    <3> QED BY <1>1, <2>1, <3>2 DEF Effect, HandleEffect
  <2>3. CASE Puts(t, "error", Blame(Stopped(t), "error", "main"))
    BY <2>1, <2>3, PutsStop DEF Effect, StopEffect
  <2> QED BY <1>10, <2>2, <2>3 DEF Make
<1>11. CASE Copy(t)
  <2>1. c.todo # <<>> /\ c.todo[1] = "copy"
    BY <1>2, <1>11 DEF Copy
  <2>2. CASE Puts(t, "none", [f EXCEPT !.handles = f.handles + 1])
    <3>1. Puts(t, "none", WithHandles(f, c.handles + 1))
      BY <1>3, <2>1, <2>2 DEF WithHandles
    <3>2. /\ Wrote(t) /\ c.handles + 1 \in Int
          /\ After(t, rest, c.block, c.failed, c.handles + 1, c.locks, "none", order[t])
      BY <1>1, <2>1, <3>1, HandlesFollowing
    <3> QED BY <1>1, <2>1, <3>2 DEF Effect, HandleEffect
  <2>3. CASE Puts(t, "error", Blame(f, "error", "sub"))
    BY <2>1, <2>3, PutsBlame DEF Effect, CodeEffect, Errors
  <2> QED BY <1>11, <2>2, <2>3 DEF Copy
<1>12. CASE Take(t)
  <2>1. CASE /\ At(t, "take")
             /\ \E n \in IF c.block = "error" THEN {0} ELSE {0, 1} :
                  Goes(t, [f EXCEPT !.handles = f.handles + n])
    <3>1. PICK n \in {0, 1} : Goes(t, [f EXCEPT !.handles = f.handles + n])
      BY <2>1
    <3>2. c.todo # <<>> /\ c.todo[1] = "take" /\ c.handles + n \in Int
      BY <1>1, <1>2, <2>1
    <3>3. Goes(t, WithHandles(f, c.handles + n)) /\ UNCHANGED <<slot, order>>
      BY <1>3, <1>12, <3>1, <3>2 DEF WithHandles, Take
    <3>4. /\ Kept(t)
          /\ After(t, rest, c.block, c.failed, c.handles + n, c.locks, slot[t], order[t])
      BY <3>2, <3>3, HandlesFollowing
    <3>5. c.handles + n \in {c.handles, c.handles + 1}
      BY <1>1
    <3> QED BY <1>1, <3>2, <3>4, <3>5 DEF Effect, HandleEffect
  <2>2. CASE /\ At(t, "give")
             /\ Goes(t, [f EXCEPT !.handles = IF f.handles > 0 THEN f.handles - 1 ELSE 0])
    <3> DEFINE n == IF c.handles > 0 THEN c.handles - 1 ELSE 0
    <3>1. c.todo # <<>> /\ c.todo[1] = "give" /\ n \in Int
      BY <1>1, <1>2, <2>2
    <3>2. Goes(t, WithHandles(f, n)) /\ UNCHANGED <<slot, order>>
      BY <1>3, <1>12, <2>2, <3>1 DEF WithHandles, Take
    <3> HIDE DEF n
    <3>3. /\ Kept(t)
          /\ After(t, rest, c.block, c.failed, n, c.locks, slot[t], order[t])
      BY <3>1, <3>2, HandlesFollowing
    <3> QED BY <1>1, <3>1, <3>3 DEF Effect, HandleEffect, n
  <2> QED BY <1>12, <2>1, <2>2 DEF Take
<1>13. CASE Lock(t)
  <2>1. c.todo # <<>> /\ c.todo[1] = "lock" /\ c.locks + 1 \in Int
    BY <1>1, <1>2, <1>13 DEF Lock
  <2>2. Puts(t, "none", WithLocks(f, c.locks + 1))
    BY <1>3, <1>13, <2>1 DEF WithLocks, Lock
  <2>3. /\ Wrote(t)
        /\ After(t, rest, c.block, c.failed, c.handles, c.locks + 1, "none", order[t])
    BY <2>1, <2>2, LocksFollowing
  <2> QED BY <1>1, <2>1, <2>3 DEF Effect, HandleEffect
<1>14. CASE Unlock(t)
  <2>1. c.todo # <<>> /\ c.todo[1] = "unlock" /\ c.locks - 1 \in Int
    BY <1>1, <1>2, <1>14 DEF Unlock
  <2>2. Puts(t, "none", WithLocks(f, c.locks - 1))
    BY <1>3, <1>14, <2>1 DEF WithLocks, Unlock
  <2>3. /\ Wrote(t)
        /\ After(t, rest, c.block, c.failed, c.handles, c.locks - 1, "none", order[t])
    BY <2>1, <2>2, LocksFollowing
  <2> QED BY <1>1, <2>1, <2>3 DEF Effect, HandleEffect
<1>15. CASE Dispose(t)
  <2> DEFINE n == IF c.handles > 0 THEN c.handles - 1 ELSE 0
  <2>1. c.todo # <<>> /\ c.todo[1] = "dispose" /\ n \in Int
    BY <1>1, <1>2, <1>15 DEF Dispose
  <2>2. Puts(t, "none", WithHandles(f, n))
    BY <1>3, <1>15, <2>1 DEF WithHandles, Dispose
  <2> HIDE DEF n
  <2>3. /\ Wrote(t)
        /\ After(t, rest, c.block, c.failed, n, c.locks, "none", order[t])
    BY <2>1, <2>2, HandlesFollowing
  <2> QED BY <1>1, <2>1, <2>3 DEF Effect, HandleEffect, n
<1>16. CASE ReadFreed(t)
  <2>1. c.todo # <<>> /\ c.todo[1] = "freed"
    BY <1>2, <1>16 DEF ReadFreed
  <2>2. PICK e \in {c.block, "junk"} : Goes(t, [f EXCEPT !.block = e])
    BY <1>16 DEF ReadFreed
  <2> DEFINE d == [f EXCEPT !.block = e]
  <2> HIDE DEF f
  <2>3. /\ d \in CallRecords /\ Same(f, d)
        /\ d.todo = f.todo /\ d.block = e /\ d.failed = f.failed
        /\ d.handles = f.handles /\ d.locks = f.locks
    BY <1>1, <1>3, <2>1 DEF CallRecords, Same
  <2>4. Goes(t, d) /\ UNCHANGED <<slot, order>>
    BY <1>16, <2>2 DEF ReadFreed
  <2> HIDE DEF d
  <2>5. /\ After(t, d.todo, d.block, d.failed, d.handles, d.locks, slot[t], order[t])
        /\ call'[t].wrote = d.wrote
    BY <1>3, <2>1, <2>3, <2>4, GoesAfter DEF Same
  <2>6. /\ Kept(t)
        /\ After(t, rest, e, c.failed, c.handles, c.locks, slot[t], order[t])
    BY <1>3, <2>1, <2>3, <2>5 DEF Same, Kept, After
  <2> QED BY <1>1, <2>1, <2>6 DEF Effect, EngineEffect
<1>17. CASE Resize(t)
  <2>1. c.todo # <<>> /\ c.todo[1] = "size"
    BY <1>2, <1>17 DEF Resize
  <2>2. CASE Puts(t, "none", f)
    BY <2>1, <2>2, PutsFollowing DEF Effect, CodeEffect, Errors
  <2>3. CASE Puts(t, "error", Blame(Stopped(t), "error", "main"))
    BY <2>1, <2>3, PutsStop DEF Effect, StopEffect
  <2> QED BY <1>17, <2>2, <2>3 DEF Resize
<1>18. CASE Lines(t)
  <2>1. ASSUME NEW d \in CallRecords, NEW p \in OrderRecords, Goes(t, d),
               order' = [order EXCEPT ![t] = p], UNCHANGED slot, Same(c, d)
        PROVE  Kept(t) /\ After(t, d.todo, d.block, d.failed, d.handles, d.locks, slot[t], p)
    <3>1. Becomes(t, d, slot[t], p)
      BY <1>1, <2>1 DEF Becomes, Goes, TypeInv
    <3> QED BY <2>1, <3>1, BecomesAlone DEF After, Kept, Same
  <2>2. CASE /\ At(t, "open") /\ order' = [order EXCEPT ![t].open = TRUE]
             /\ Goes(t, [f EXCEPT !.handles = f.handles - 1]) /\ UNCHANGED slot
    <3> DEFINE d == WithHandles(f, c.handles - 1) p == [order[t] EXCEPT !.open = TRUE]
    <3>1. c.todo # <<>> /\ c.todo[1] = "open" /\ p \in OrderRecords
      BY <1>1, <1>2, <2>2 DEF OrderRecords
    <3>2. Goes(t, d)
      BY <1>3, <2>2, <3>1 DEF WithHandles
    <3>3. order' = [order EXCEPT ![t] = p]
      BY <2>2
    <3>4. d = Counted(f, c.handles - 1, f.locks)
      <4>1. f \in CallRecords /\ c.handles - 1 \in Int
        BY <1>1, <1>3, <3>1
      <4> HIDE DEF f, c
      <4> QED BY <4>1, OneCount
    <3> HIDE DEF d, p
    <3>5. /\ d \in CallRecords /\ Same(f, d)
          /\ d.todo = f.todo /\ d.block = f.block /\ d.failed = f.failed
          /\ d.handles = c.handles - 1 /\ d.locks = f.locks
      BY <1>1, <1>3, <3>1, <3>4, WithCounts
    <3>6. /\ Kept(t)
          /\ After(t, rest, c.block, c.failed, c.handles - 1, c.locks, slot[t], p)
      <4>1. Same(c, d)
        BY <1>3, <3>1, <3>5 DEF Same
      <4>2. Kept(t) /\ After(t, d.todo, d.block, d.failed, d.handles, d.locks, slot[t], p)
        BY <2>1, <2>2, <3>1, <3>2, <3>3, <3>5, <4>1
      <4>3. /\ d.todo = rest /\ d.block = c.block /\ d.failed = c.failed /\ d.locks = c.locks
            /\ d.handles = c.handles - 1
        BY <1>3, <3>1, <3>5
      <4> HIDE DEF c
      <4> QED BY <4>2, <4>3
    <3> QED BY <3>1, <3>6 DEF Effect, LineEffect, p
  <2>3. CASE /\ At(t, "line") /\ order' = [order EXCEPT ![t].lines = order[t].lines + 1]
             /\ Goes(t, f) /\ UNCHANGED slot
    <3> DEFINE p == [order[t] EXCEPT !.lines = order[t].lines + 1]
    <3>1. c.todo # <<>> /\ c.todo[1] = "line" /\ p \in OrderRecords
      BY <1>1, <1>2, <2>3 DEF OrderRecords
    <3>2. order' = [order EXCEPT ![t] = p]
      BY <2>3
    <3> HIDE DEF p
    <3>3. Kept(t) /\ After(t, rest, c.block, c.failed, c.handles, c.locks, slot[t], p)
      BY <1>3, <2>1, <2>3, <3>1, <3>2 DEF Same
    <3> QED BY <3>1, <3>3 DEF Effect, LineEffect, p
  <2>4. CASE At(t, "trylock") /\ Puts(t, "none", [f EXCEPT !.handles = 1, !.locks = 1])
    <3> DEFINE n == 1
    <3>1. c.todo # <<>> /\ c.todo[1] = "trylock" /\ n \in Int
      BY <1>2, <2>4
    <3>2. Puts(t, "none", Counted(f, n, n))
      BY <2>4 DEF Counted
    <3> HIDE DEF n
    <3>3. /\ Wrote(t)
          /\ After(t, rest, c.block, c.failed, n, n, "none", order[t])
      BY <3>1, <3>2, PutsCounted
    <3> QED BY <3>1, <3>3 DEF Effect, HandleEffect, n
  <2>5. CASE /\ At(t, "trylock")
             /\ Puts(t, "error", [Blame(Stopped(t), "error", "lock") EXCEPT !.handles = 1])
    <3> DEFINE b == Blame(Stopped(t), "error", "lock") d == WithHandles(b, 1)
    <3>1. c.todo # <<>> /\ c.todo[1] = "trylock"
      BY <1>2, <2>5
    <3>2. Puts(t, "error", d)
      BY <2>5 DEF WithHandles
    <3>3. /\ b \in CallRecords /\ Same(c, b)
          /\ b.todo = <<>> /\ b.block = c.block /\ b.failed = c.failed \cup {"lock"}
          /\ b.locks = c.locks
      <4> DEFINE g == Stopped(t)
      <4>1. /\ g \in CallRecords /\ Same(c, g)
            /\ g.todo = <<>> /\ g.block = c.block /\ g.failed = c.failed
            /\ g.locks = c.locks
        BY StoppedIs
      <4> HIDE DEF g
      <4>2. /\ Blame(g, "error", "lock") \in CallRecords /\ Same(g, Blame(g, "error", "lock"))
            /\ Blame(g, "error", "lock").todo = g.todo
            /\ Blame(g, "error", "lock").block = g.block
            /\ Blame(g, "error", "lock").failed = g.failed \cup {"lock"}
            /\ Blame(g, "error", "lock").locks = g.locks
        BY <4>1, BlameIs DEF Same, BlamedFor
      <4> QED BY <4>1, <4>2 DEF Same, g
    <3> HIDE DEF b
    <3>4. /\ d \in CallRecords /\ Same(b, d)
          /\ d.todo = b.todo /\ d.block = b.block /\ d.failed = b.failed
          /\ d.handles = 1 /\ d.locks = b.locks
      BY <3>3 DEF CallRecords, Same, WithHandles
    <3> HIDE DEF d
    <3>5. /\ After(t, d.todo, d.block, d.failed, d.handles, d.locks, "error", order[t])
          /\ Wrote(t)
      BY <3>2, <3>3, <3>4, PutsAfter DEF Same, Errors
    <3> QED BY <3>1, <3>3, <3>4, <3>5 DEF Effect, LineEffect
  <2> QED BY <1>18, <2>2, <2>3, <2>4, <2>5 DEF Lines
<1> QED
  BY <1>4, <1>5, <1>6, <1>7, <1>8, <1>9, <1>10, <1>11, <1>12, <1>13, <1>14, <1>15, <1>16, <1>17,
     <1>18 DEF Step

(***************************************************************************)
(* A step keeps the invariant.                                             *)
(***************************************************************************)

\* The effects, by what each part of the invariant is about.
LEMMA EffectMoves ==
  ASSUME TypeInv, NEW t \in Threads, Ordered(call[t].todo), Effect(t)
  PROVE  TypeInv' /\ Alone(t) /\ Moves(t)
<1> DEFINE c == call[t] step == c.todo[1] rest == Tail(c.todo) o == order[t]
<1>1. /\ c.todo # <<>> /\ c.handles \in Int /\ c.locks \in Int /\ o \in OrderRecords
      /\ \A e, who : c.failed \subseteq BlamedFor(c, e, who)
      /\ "main" \in BlamedFor(c, "error", "main")
      /\ \A e : "lock" \in BlamedFor(c, e, "main") <=> "lock" \in c.failed
      /\ \A e : "lock" \in BlamedFor(c, e, "sub") <=> "lock" \in c.failed
  BY DEF Effect, TypeInv, CallRecords, BlamedFor
<1> HIDE DEF c, o
<1> USE <1>1 DEF After, Moves, TodoMoves, LocksMove, HandlesMove, LinesMove, Release
<1>2. CASE EngineEffect(t, c, step, rest)
  BY <1>2 DEF EngineEffect, c, o, OrderRecords
<1>3. CASE CodeEffect(t, c, step, rest)
  BY <1>3 DEF CodeEffect, c, o, OrderRecords
<1>4. CASE SkipEffect(t, c, step, rest)
  BY <1>4 DEF SkipEffect, c, o, OrderRecords
<1>5. CASE StopEffect(t, c, step)
  BY <1>5 DEF StopEffect, c, o, OrderRecords
<1>6. CASE HandleEffect(t, c, step, rest)
  <2> HIDE DEF After, Moves, TodoMoves, LocksMove, HandlesMove, LinesMove, Release
  <2>1. PICK h, l \in Int :
          /\ \E e : After(t, rest, c.block, c.failed, h, l, e, order[t])
          /\ \/ step \in {"make", "copy"} /\ h = c.handles + 1 /\ l = c.locks
             \/ step = "take" /\ h \in {c.handles, c.handles + 1} /\ l = c.locks
             \/ step \in {"dispose", "give"} /\ l = c.locks
                  /\ h = (IF c.handles > 0 THEN c.handles - 1 ELSE 0)
             \/ step = "lock" /\ h = c.handles /\ l = c.locks + 1
             \/ step = "unlock" /\ h = c.handles /\ l = c.locks - 1
             \/ step = "trylock" /\ h = 1 /\ l = 1
    BY <1>6 DEF HandleEffect
  <2>2. /\ TypeInv' /\ Alone(t) /\ call'[t].class = c.class
        /\ call'[t].todo = rest /\ call'[t].failed = c.failed
        /\ call'[t].handles = h /\ call'[t].locks = l /\ order'[t] = o
    BY <2>1 DEF After, c, o
  <2>3. LocksMove(c, call'[t])
    BY <2>1, <2>2 DEF LocksMove
  <2>4. HandlesMove(c, call'[t])
    BY <2>1, <2>2 DEF HandlesMove, Release
  <2>5. TodoMoves(c, call'[t]) /\ LinesMove(c, call'[t], o, order'[t])
    BY <2>1, <2>2 DEF TodoMoves, LinesMove, OrderRecords
  <2> QED BY <2>2, <2>3, <2>4, <2>5 DEF Moves, c, o
<1>7. CASE LineEffect(t, c, step, rest)
  BY <1>7 DEF LineEffect, c, o, OrderRecords
<1> HIDE DEF After, Moves
<1> QED BY <1>2, <1>3, <1>4, <1>5, <1>6, <1>7 DEF Effect, c

LEMMA StepKeepsRules ==
  ASSUME NEW t \in Threads, Moves(t), Rules(call[t].class, call[t].todo)
  PROVE  Rules(call'[t].class, call'[t].todo)
<1> DEFINE c == call[t] d == call'[t]
<1>1. c.todo # <<>> /\ d.class = c.class /\ TodoMoves(c, d) /\ Ordered(c.todo)
  BY DEF Moves, Rules
<1>2. CASE d.todo = Tail(c.todo)
  BY <1>1, <1>2, RestKeepsRules
<1>3. CASE d.todo = <<>>
  BY <1>1, <1>3, EndsKeepRules
<1>4. CASE d.todo = AfterDispose(c.todo) /\ c.todo[1] = "iftaken"
  <2>1. c.class \notin AddClasses
    <3>1. 1 \in 1 .. Len(c.todo)
      BY <1>1, RestOf DEF Ordered
    <3> QED BY <1>4, <3>1 DEF Rules, AddRule
  <2> QED BY <1>1, <1>4, <2>1, AfterTheDispose, EndsKeepRules
<1> QED BY <1>1, <1>2, <1>3, <1>4 DEF TodoMoves

LEMMA StepKeepsLocks ==
  ASSUME TypeInv, NEW t \in Threads, Moves(t), Sound(t)
  PROVE  LockInv(call'[t])
<1> DEFINE c == call[t] d == call'[t] s == c.todo r == Tail(s)
<1>1. s # <<>> /\ TodoMoves(c, d) /\ LocksMove(c, d) /\ Ordered(s) /\ LockInv(c)
  BY DEF Moves, Sound, Rules
<1>2. /\ s \in Seq(Steps) /\ Len(s) \in Nat /\ Len(s) >= 1 /\ Len(r) = Len(s) - 1
      /\ \A i \in 1 .. Len(s) - 1 : r[i] = s[i + 1]
  BY <1>1, RestOf DEF Ordered
<1>3. HeldAt(r, 1) <=> HeldAt(s, 2)
  BY <1>2 DEF HeldAt
<1>4. /\ s[1] \in {"lock", "trylock"} => HeldAt(s, 2)
      /\ s[1] \notin {"lock", "trylock"} /\ HeldAt(s, 2) => HeldAt(s, 1) /\ s[1] # "unlock"
  BY <1>1, <1>2 DEF Ordered, LockRule
<1>5. HeldAt(s, 1) /\ s[1] # "unlock" => HeldAt(s, 2) /\ s[1] \in Inner
  BY <1>2 DEF HeldAt
<1>6. s[1] = "unlock" => HeldAt(s, 1)
  BY <1>2 DEF HeldAt
<1>7. ~HeldAt(<<>>, 1) /\ ~HeldAt(<<"store">>, 1)
  BY DEF HeldAt, Inner
<1>8. \/ d.todo = r
      \/ ~HeldAt(d.todo, 1) /\ s[1] \in {"make", "size", "ifclear", "trylock", "iftaken"}
  BY <1>1, <1>7, AfterTheDispose DEF TodoMoves
<1>9. LocksMove(c, d) /\ LockInv(c) /\ c.todo = s /\ Tail(c.todo) = r
  BY <1>1
<1> HIDE DEF c, d, s, r
<1>10. s[1] \in {"lock", "unlock", "trylock"} => s[1] \notin Inner
  BY DEF Inner
<1>11. s[1] \in {"make", "size", "ifclear", "trylock", "iftaken"} => s[1] \notin Inner
  BY DEF Inner
<1>12. LockInv(d)
  <2>1. CASE s[1] \in {"lock", "unlock", "trylock"} /\ d.todo = r
    BY <1>3, <1>4, <1>5, <1>6, <1>7, <1>9, <1>10, <2>1 DEF LockInv, LocksMove
  <2>2. CASE s[1] \in {"lock", "unlock", "trylock"} /\ d.todo # r
    BY <1>3, <1>4, <1>5, <1>8, <1>9, <1>10, <2>2 DEF LockInv, LocksMove
  <2>3. CASE s[1] \notin {"lock", "unlock", "trylock"}
    BY <1>3, <1>4, <1>5, <1>8, <1>9, <1>11, <2>3 DEF LockInv, LocksMove
  <2> QED BY <2>1, <2>2, <2>3
<1> QED BY <1>12 DEF d

LEMMA StepKeepsHandles ==
  ASSUME TypeInv, NEW t \in Threads, Moves(t), Sound(t)
  PROVE  HandleInv(call'[t])
<1> DEFINE c == call[t] d == call'[t] s == c.todo r == Tail(s)
<1>1. /\ s # <<>> /\ d.class = c.class /\ TodoMoves(c, d) /\ HandlesMove(c, d) /\ Ordered(s)
      /\ HandleInv(c) /\ (c.class # "keepsCopy" => ReleaseRule(s)) /\ c.todo = s /\ Tail(s) = r
  BY DEF Moves, Sound, Rules
<1>2. /\ s \in Seq(Steps) /\ Len(s) \in Nat /\ Len(s) >= 1 /\ Len(r) = Len(s) - 1
      /\ \A i \in 1 .. Len(s) - 1 : r[i] = s[i + 1]
  BY <1>1, RestOf DEF Ordered
<1>3. /\ \A i \in 1 .. Len(<<>>) : FALSE
      /\ \A i \in 1 .. Len(<<"store">>) : <<"store">>[i] \notin Acquire \cup {"open"}
  BY DEF Acquire
<1>4. "lock" \notin c.failed
  BY <1>1 DEF HandleInv
<1>5. s[1] = "iftaken" => AfterDispose(s) \in {<<>>, <<"store">>}
  BY <1>1, AfterTheDispose
<1> HIDE DEF c, d, s, r
<1>6. /\ s[1] \in Acquire => \A j \in 2 .. Len(s) : s[j] \notin Acquire
      /\ s[1] \in {"size", "ifclear"} => \A j \in 2 .. Len(s) : s[j] \notin Release
      /\ \A i \in 1 .. Len(s) : s[i] = "open" => \A j \in 1 .. i - 1 : s[j] \notin Release
      /\ c.class # "keepsCopy" =>
           (s[1] \in Acquire => \E j \in 2 .. Len(s) : s[j] \in Release)
  BY <1>1, <1>2 DEF Ordered, HandleRule, ReleaseRule
<1>7. /\ c.handles \in {0, 1}
      /\ c.handles = 1 => \A i \in 1 .. Len(s) : s[i] \notin Acquire
      /\ c.handles = 1 /\ c.class # "keepsCopy" => \E i \in 1 .. Len(s) : s[i] \in Release
      /\ \A j \in 1 .. Len(s) : s[j] = "open" =>
           c.handles = 1 \/ \E i \in 1 .. j - 1 : s[i] = "make"
  BY <1>1, <1>4 DEF HandleInv
\* In the rest, what holds of the steps after the first.
<1>8. /\ \A i \in 1 .. Len(r) : i + 1 \in 2 .. Len(s) /\ r[i] = s[i + 1]
      /\ \A i \in 2 .. Len(s) : i - 1 \in 1 .. Len(r) /\ r[i - 1] = s[i]
      /\ 1 \in 1 .. Len(s) /\ \A i \in 1 .. Len(s) : i = 1 \/ i \in 2 .. Len(s)
  BY <1>2
<1>9. Acquire \cap Release = {} /\ {"make", "copy", "take", "trylock"} = Acquire
  BY DEF Acquire, Release
<1>10. d.handles \in {0, 1}
  <2>1. s[1] \in {"make", "copy", "take"} => c.handles = 0
    BY <1>7, <1>8, <1>9
  <2>2. s[1] = "open" => c.handles = 1
    BY <1>7, <1>8
  <2> QED BY <1>1, <1>7, <2>1, <2>2 DEF HandlesMove
<1>11. ASSUME d.handles = 1 PROVE \A i \in 1 .. Len(d.todo) : d.todo[i] \notin Acquire
  <2>1. CASE d.todo = r
    <3>1. c.handles = 1 \/ s[1] \in Acquire
      BY <1>1, <1>7, <1>9, <1>11 DEF HandlesMove
    <3> QED BY <1>6, <1>7, <1>8, <2>1, <3>1
  <2>2. CASE d.todo \in {<<>>, <<"store">>}
    BY <1>3, <2>2
  <2> QED BY <1>1, <1>5, <2>1, <2>2 DEF TodoMoves
<1>12. ASSUME d.handles = 1, d.class # "keepsCopy", "lock" \notin d.failed
       PROVE  \E i \in 1 .. Len(d.todo) : d.todo[i] \in Release
  <2>1. CASE s[1] \in Acquire /\ d.todo = r
    BY <1>1, <1>6, <1>8, <1>12, <2>1
  <2>2. CASE s[1] \notin Acquire
    <3>1. c.handles = 1 /\ s[1] \notin Release
      BY <1>1, <1>7, <1>9, <1>12, <2>2 DEF HandlesMove
    <3>2. PICK i \in 2 .. Len(s) : s[i] \in Release
      BY <1>1, <1>7, <1>8, <1>12, <3>1
    <3>3. d.todo = r
      BY <1>1, <1>6, <1>9, <2>2, <3>1, <3>2 DEF TodoMoves
    <3> QED BY <1>8, <3>2, <3>3
  <2>3. CASE s[1] \in Acquire /\ d.todo # r
    <3>1. s[1] \in {"make", "trylock"}
      BY <1>1, <1>9, <2>3 DEF TodoMoves, Acquire
    <3> QED BY <1>1, <1>7, <1>8, <1>9, <1>12, <2>3, <3>1 DEF HandlesMove
  <2> QED BY <2>1, <2>2, <2>3
<1>13. "lock" \in d.failed => d.todo = <<>>
  BY <1>1, <1>4 DEF HandlesMove
<1>14. ASSUME NEW j \in 1 .. Len(d.todo), d.todo[j] = "open"
       PROVE  d.handles = 1 \/ \E i \in 1 .. j - 1 : d.todo[i] = "make"
  <2>1. d.todo = r
    BY <1>1, <1>3, <1>5, <1>14 DEF TodoMoves
  <2>2. j + 1 \in 1 .. Len(s) /\ s[j + 1] = "open" /\ s[1] \notin Release
    BY <1>2, <1>6, <1>8, <1>14, <2>1
  <2>3. CASE c.handles = 1
    <3>1. s[1] \notin Acquire
      BY <1>7, <1>8, <2>3
    <3> QED BY <1>1, <1>9, <2>2, <2>3, <3>1 DEF HandlesMove, Release
  <2>4. CASE \E i \in 1 .. j : s[i] = "make"
    <3>1. PICK i \in 1 .. j : s[i] = "make"
      BY <2>4
    <3>2. CASE i = 1
      <4>1. s[1] = "make" /\ c.handles = 0 /\ d.todo # <<>>
        BY <1>3, <1>7, <1>8, <1>9, <1>14, <3>1, <3>2
      <4> QED BY <1>1, <4>1 DEF HandlesMove
    <3>3. CASE i # 1
      <4>1. i - 1 \in 1 .. j - 1 /\ r[i - 1] = "make"
        BY <1>2, <2>1, <3>1, <3>3
      <4> QED BY <2>1, <4>1
    <3> QED BY <3>2, <3>3
  <2> QED BY <1>2, <1>7, <2>2, <2>3, <2>4
<1>15. HandleInv(d)
  BY <1>10, <1>11, <1>12, <1>13, <1>14 DEF HandleInv
<1> QED BY <1>15 DEF d

LEMMA StepKeepsLines ==
  ASSUME TypeInv, NEW t \in Threads, Moves(t), Sound(t)
  PROVE  LineInv(call'[t], order'[t])
<1> DEFINE c == call[t] d == call'[t] s == c.todo r == Tail(s) o == order[t] p == order'[t]
<1>1. /\ s # <<>> /\ d.class = c.class /\ TodoMoves(c, d) /\ LinesMove(c, d, o, p)
      /\ LineInv(c, o) /\ Rules(c.class, s) /\ Ordered(s) /\ c.todo = s /\ Tail(s) = r
  BY DEF Moves, Sound, Rules
<1>2. /\ s \in Seq(Steps) /\ Len(s) \in Nat /\ Len(s) >= 1 /\ Len(r) = Len(s) - 1
      /\ \A i \in 1 .. Len(s) - 1 : r[i] = s[i + 1]
  BY <1>1, RestOf DEF Ordered
<1>3. o.lines \in 0 .. LineLimit /\ LineLimit \in Nat
  BY <1>1, ApiAssumption DEF LineInv
<1>4. \A step : /\ Has(s, step) <=> s[1] = step \/ Has(r, step)
                /\ ~Has(<<>>, step) /\ (Has(<<"store">>, step) => step = "store")
  <2> TAKE step
  <2>1. Has(s, step) => s[1] = step \/ Has(r, step)
    <3> SUFFICES ASSUME NEW i \in 1 .. Len(s), s[i] = step, i # 1
                 PROVE  Has(r, step)
      BY DEF Has
    <3>1. i - 1 \in 1 .. Len(r) /\ r[i - 1] = step
      BY <1>2
    <3> QED BY <3>1 DEF Has
  <2>2. s[1] = step \/ Has(r, step) => Has(s, step)
    BY <1>2 DEF Has
  <2>3. ~Has(<<>>, step) /\ (Has(<<"store">>, step) => step = "store")
    BY DEF Has
  <2> HIDE DEF s, r
  <2> QED BY <2>1, <2>2, <2>3
<1>5. s[1] = "iftaken" => AfterDispose(s) \in {<<>>, <<"store">>}
  BY <1>1, AfterTheDispose
<1> HIDE DEF c, d, s, r, o, p
<1>6. CASE c.class \notin AddClasses
  <2>1. ~Has(s, "line")
    BY <1>1, <1>6 DEF Rules, NoLine, Has
  <2>2. ~Has(d.todo, "line") /\ s[1] # "line"
    BY <1>1, <1>4, <1>5, <2>1 DEF TodoMoves
  <2> QED BY <1>1, <1>3, <1>6, <2>1, <2>2 DEF LineInv, LinesMove, d, p
<1>7. CASE c.class \in AddClasses
  <2>1. /\ s[1] \in {"lock", "unlock", "sub", "size", "line", "raise", "clear"}
        /\ s[1] = "line" => ~Has(r, "line")
    <3>1. AddRule(s)
      BY <1>1, <1>7 DEF Rules
    <3>2. s[1] = "line" => \A j \in 2 .. Len(s) : s[j] # "line"
      BY <1>2, <3>1 DEF AddRule
    <3> QED BY <1>2, <3>1, <3>2 DEF AddRule, Has
  <2>2. d.todo = r \/ (d.todo = <<>> /\ s[1] = "size")
    BY <1>1, <2>1 DEF TodoMoves
  <2>3. p.lines = o.lines + IF s[1] = "line" THEN 1 ELSE 0
    BY <1>1 DEF LinesMove
  <2>4. p.asked = o.asked /\ p.told = o.told
    BY <1>1 DEF LinesMove
  <2>5. CASE d.todo = r
    <3>1. /\ Has(r, "line") => p.lines < LineLimit
          /\ p.lines \in 0 .. LineLimit
      BY <1>1, <1>3, <1>4, <2>1, <2>3 DEF LineInv
    <3>2. \/ p.told
          \/ "main" \in d.failed \/ Has(r, "raise")
          \/ p.asked = p.lines + (IF Has(r, "line") THEN 1 ELSE 0)
      BY <1>1, <1>3, <1>4, <2>1, <2>3, <2>4 DEF LineInv, LinesMove
    <3>3. LineInv(d, p)
      BY <1>1, <1>7, <2>4, <2>5, <3>1, <3>2 DEF LineInv
    <3> QED BY <3>3 DEF d, p
  <2>6. CASE d.todo # r
    <3>1. "main" \in d.failed /\ ~Has(d.todo, "line") /\ p.lines = o.lines
      BY <1>1, <1>3, <1>4, <2>2, <2>3, <2>6 DEF LinesMove
    <3>2. LineInv(d, p)
      BY <1>1, <1>3, <1>7, <2>4, <3>1 DEF LineInv
    <3> QED BY <3>2 DEF d, p
  <2> QED BY <2>5, <2>6
<1> QED BY <1>6, <1>7

\* A step on the way from an error in the block to its store leaves that way open.
LEMMA QuietGoesOn ==
  ASSUME NEW s \in Seq(Steps), s # <<>>, StoreLeft(s, 1)
  PROVE  /\ s[1] \in Quiet
         /\ s[1] # "store" => StoreLeft(Tail(s), 1) /\ s[Len(s)] = "store"
         /\ s[1] = "store" => \/ Tail(s) = <<>> \/ Tail(s)[1] = "ifclear"
                              \/ StoreLeft(Tail(s), 1)
<1> DEFINE r == Tail(s)
<1>1. /\ r \in Seq(Steps) /\ Len(s) \in Nat /\ Len(s) >= 1 /\ Len(r) = Len(s) - 1
      /\ \A i \in 1 .. Len(s) - 1 : r[i] = s[i + 1]
  BY RestOf
<1> HIDE DEF r
<1>2. s[1] \in Quiet
  BY <1>1 DEF StoreLeft, Quiet
<1>3. CASE s[Len(s)] = "store" /\ \A j \in 1 .. Len(s) : s[j] \in Quiet
  <2>1. Len(s) = 1 => r = <<>>
    BY <1>1
  <2>2. Len(s) # 1 => StoreLeft(r, 1)
    BY <1>1, <1>3 DEF StoreLeft
  <2> QED BY <1>1, <1>2, <1>3, <2>1, <2>2 DEF r
<1>4. CASE s[1] = "store" /\ 1 < Len(s) /\ s[2] = "ifclear"
  BY <1>1, <1>2, <1>4 DEF r
<1> QED BY <1>3, <1>4 DEF StoreLeft

\* What a failure that the code does not tell of yet needs of the call: the block
\* has it, and its store is left to do.
LEMMA StepKeepsErrors ==
  ASSUME TypeInv, NEW t \in Threads, Effect(t), Sound(t)
  PROVE  ErrorInv(call'[t], slot'[t])
<1> DEFINE c == call[t] d == call'[t] e == slot[t] x == slot'[t] s == c.todo r == Tail(s)
<1>1. /\ s # <<>> /\ Ordered(s) /\ ErrorInv(c, e) /\ c.todo = s /\ Tail(s) = r
      /\ c.class \notin Forgetful => ErrorRule(s)
      /\ "lock" \notin c.failed
  BY DEF Effect, Sound, Rules, HandleInv
<1>2. /\ s \in Seq(Steps) /\ Len(s) \in Nat /\ Len(s) >= 1 /\ Len(r) = Len(s) - 1
      /\ \A i \in 1 .. Len(s) - 1 : r[i] = s[i + 1]
      /\ r \in Seq(Steps)
  BY <1>1, RestOf DEF Ordered
<1>3. /\ c.failed \in SUBSET {"main", "sub", "lock"} /\ c.wrote \in BOOLEAN
      /\ e \in Errors \cup {"junk"}
  BY DEF TypeInv, CallRecords
<1>4. /\ StoreLeft(s, 1) => s[1] \in Quiet
      /\ StoreLeft(s, 1) /\ s[1] # "store" => StoreLeft(r, 1) /\ s[Len(s)] = "store"
      /\ StoreLeft(s, 1) /\ s[1] = "store" =>
           r = <<>> \/ r[1] = "ifclear" \/ StoreLeft(r, 1)
  BY <1>1, <1>2, QuietGoesOn
<1>5. StoreLeft(<<"store">>, 1)
  BY DEF StoreLeft, Quiet
<1>6. CASE c.class \notin Forgetful
  <2>1. /\ s[1] \in {"call", "recall", "run"} => StoreLeft(r, 1)
        /\ s[1] = "raise" => r = <<>>
        /\ s[1] \notin {"rawcall", "freed", "subiftaken"}
        /\ s[1] = "rawsub" => r # <<>> /\ r[1] = "unlock"
    <3>1. ErrorRule(s) /\ 1 \in 1 .. Len(s)
      BY <1>1, <1>2, <1>6
    <3>2. s[1] \in {"call", "recall", "run"} => StoreLeft(s, 2)
      BY <3>1 DEF ErrorRule
    <3>3. StoreLeft(s, 2) => StoreLeft(r, 1)
      BY <1>2 DEF StoreLeft
    <3>4. s[1] = "raise" => r = <<>>
      BY <1>2, <3>1 DEF ErrorRule
    <3>5. s[1] = "rawsub" => r # <<>> /\ r[1] = "unlock"
      <4> HIDE DEF c, s, r
      <4>1. s[1] = "rawsub" => Len(r) >= 1 /\ s[2] = "unlock" /\ r[1] = s[2]
        BY <1>2, <3>1 DEF ErrorRule
      <4>2. Len(<<>>) = 0
        OBVIOUS
      <4> QED BY <4>1, <4>2
    <3>6. s[1] \notin {"rawcall", "freed", "subiftaken"}
      BY <3>1 DEF ErrorRule
    <3> QED BY <3>2, <3>3, <3>4, <3>5, <3>6
  <2>2. /\ c.block \in Errors
        /\ c.block = "error" => "main" \in c.failed
        /\ c.wrote /\ e = "error" => c.failed # {}
        /\ c.wrote /\ e = "junk" => s[1] = "unlock"
        /\ "main" \in c.failed =>
             \/ e = "error" /\ s[1] = "ifclear"
             \/ c.block = "error" /\ StoreLeft(s, 1)
    BY <1>1, <1>6 DEF ErrorInv
  <2>3. s[1] = "iftaken" =>
          \/ AfterDispose(s) = <<>> /\ s[Len(s)] = "dispose"
          \/ AfterDispose(s) = <<"store">>
    BY <1>1, AfterTheDispose
  <2> HIDE DEF c, d, e, x, s, r
  <2> SUFFICES ErrorInv(d, x)
    BY DEF d, x
  <2>4. CASE EngineEffect(t, c, s[1], r)
    <3>1. PICK g \in Errors : /\ d.class = c.class /\ d.todo = r /\ d.block = g
                              /\ d.failed = BlamedFor(c, g, "main")
                              /\ x = e /\ d.wrote = c.wrote
                              /\ s[1] \in {"call", "run", "recall"}
      BY <2>1, <2>2, <2>4 DEF EngineEffect, After, Kept, c, d, e, x
    <3>2. s[1] \notin Quiet \cup {"unlock", "ifclear"}
      BY <3>1 DEF Quiet
    <3>3. "main" \notin c.failed
      BY <1>4, <2>2, <3>2
    <3> QED BY <1>1, <1>3, <2>1, <2>2, <3>1, <3>2, <3>3 DEF ErrorInv, BlamedFor
  <2>5. CASE CodeEffect(t, c, s[1], r)
    <3>1. PICK g \in Errors \cup {"junk"} :
            /\ d.class = c.class /\ d.todo = r /\ d.block = c.block
            /\ x = g /\ d.wrote = TRUE
            /\ \/ s[1] = "store" /\ g = c.block /\ d.failed = c.failed
               \/ s[1] \in {"clear", "size"} /\ g = "none" /\ d.failed = c.failed
               \/ s[1] = "raise" /\ g = "error" /\ d.failed = BlamedFor(c, g, "main")
               \/ s[1] \in {"sub", "subifclear"} /\ g \in Errors
                    /\ d.failed = BlamedFor(c, g, "sub")
               \/ s[1] = "rawsub" /\ d.failed = BlamedFor(c, g, "sub")
               \/ s[1] = "copy" /\ g = "error" /\ d.failed = BlamedFor(c, g, "sub")
      BY <2>1, <2>5 DEF CodeEffect, After, Wrote, c, d, x
    <3>2. CASE s[1] = "store" /\ g = c.block /\ d.failed = c.failed
      BY <1>1, <1>4, <2>2, <3>1, <3>2 DEF ErrorInv, Errors
    <3>3. CASE s[1] \in {"clear", "size"} /\ g = "none" /\ d.failed = c.failed
      BY <1>1, <1>4, <2>2, <3>1, <3>3 DEF ErrorInv, Errors, Quiet
    <3>4. CASE s[1] = "raise" /\ g = "error" /\ d.failed = BlamedFor(c, g, "main")
      BY <2>1, <2>2, <3>1, <3>4 DEF ErrorInv, BlamedFor
    <3>5. CASE s[1] \in {"sub", "subifclear"} /\ g \in Errors
                 /\ d.failed = BlamedFor(c, g, "sub")
      BY <1>1, <1>4, <2>2, <3>1, <3>5 DEF ErrorInv, BlamedFor, Errors, Quiet
    <3>6. CASE s[1] = "rawsub" /\ d.failed = BlamedFor(c, g, "sub")
      BY <1>1, <1>4, <2>1, <2>2, <3>1, <3>6 DEF ErrorInv, BlamedFor, Errors, Quiet
    <3>7. CASE s[1] = "copy" /\ g = "error" /\ d.failed = BlamedFor(c, g, "sub")
      BY <1>1, <1>4, <2>2, <3>1, <3>7 DEF ErrorInv, BlamedFor, Errors, Quiet
    <3> QED BY <3>1, <3>2, <3>3, <3>4, <3>5, <3>6, <3>7
  <2>6. CASE SkipEffect(t, c, s[1], r)
    <3>1. /\ d.class = c.class /\ d.block = c.block /\ d.failed = c.failed
          /\ x = e /\ d.wrote = c.wrote
          /\ \/ s[1] = "subifclear" /\ d.todo = r
             \/ s[1] = "ifclear" /\ e = "none" /\ d.todo = r
             \/ s[1] = "ifclear" /\ d.todo = <<>>
             \/ s[1] = "iftaken" /\ d.todo = r
             \/ s[1] = "iftaken" /\ d.todo = AfterDispose(s)
      BY <1>1, <2>1, <2>6 DEF SkipEffect, After, Kept, c, d, e, x
    <3>2. s[1] # "unlock" /\ "ifclear" \notin Quiet
      BY <3>1 DEF Quiet
    <3>3. CASE s[1] \in {"subifclear", "iftaken"} /\ d.todo = r
      BY <1>1, <1>4, <2>2, <3>1, <3>2, <3>3 DEF ErrorInv
    <3>4. CASE s[1] = "ifclear"
      BY <1>1, <1>4, <2>2, <3>1, <3>2, <3>4 DEF ErrorInv
    <3>5. CASE s[1] = "iftaken" /\ d.todo = AfterDispose(s)
      BY <1>1, <1>4, <1>5, <2>2, <2>3, <3>1, <3>2, <3>5 DEF ErrorInv
    <3> QED BY <3>1, <3>3, <3>4, <3>5
  <2>7. CASE StopEffect(t, c, s[1])
    BY <2>2, <2>7 DEF StopEffect, After, Wrote, ErrorInv, c, d, x
  <2>8. CASE HandleEffect(t, c, s[1], r)
    <3>1. /\ d.class = c.class /\ d.block = c.block /\ d.failed = c.failed /\ d.todo = r
          /\ \/ x = "none" /\ s[1] # "store" /\ s[1] # "ifclear"
             \/ x = e /\ d.wrote = c.wrote /\ s[1] \in {"take", "give"}
      BY <2>8 DEF HandleEffect, After, Kept, c, d, e, x
    <3> QED BY <1>1, <1>4, <2>2, <3>1 DEF ErrorInv
  <2>9. CASE LineEffect(t, c, s[1], r)
    <3>1. \/ /\ d.class = c.class /\ d.block = c.block /\ d.failed = c.failed /\ d.todo = r
             /\ x = e /\ d.wrote = c.wrote /\ s[1] \in {"open", "line"}
          \/ /\ d.class = c.class /\ d.block = c.block /\ d.failed = c.failed \cup {"lock"}
             /\ d.todo = <<>> /\ x = "error"
      BY <2>9 DEF LineEffect, After, Kept, c, d, e, x
    <3> QED BY <1>1, <1>4, <2>2, <3>1 DEF ErrorInv, Quiet
  <2>10. \/ EngineEffect(t, c, s[1], r) \/ CodeEffect(t, c, s[1], r)
         \/ SkipEffect(t, c, s[1], r) \/ StopEffect(t, c, s[1])
         \/ HandleEffect(t, c, s[1], r) \/ LineEffect(t, c, s[1], r)
    BY DEF Effect, c, s, r
  <2> QED BY <2>4, <2>5, <2>6, <2>7, <2>8, <2>9, <2>10
<1>7. CASE c.class \in Forgetful
  <2>1. d.class = c.class
    BY DEF Effect, EngineEffect, CodeEffect, SkipEffect, StopEffect, HandleEffect, LineEffect,
           After
  <2> QED BY <1>7, <2>1 DEF ErrorInv
<1> QED BY <1>6, <1>7

\* Every step of a call keeps the invariant.
LEMMA StepKeepsInv ==
  ASSUME IInv, NEW t \in Threads, Step(t)
  PROVE  IInv'
<1>1. TypeInv /\ Sound(t) /\ Ordered(call[t].todo)
  BY DEF IInv, Sound, Rules
<1>2. Effect(t)
  BY <1>1, StepEffect
<1>3. TypeInv' /\ Alone(t) /\ Moves(t)
  BY <1>1, <1>2, EffectMoves
<1>4. Sound(t)'
  <2>1. Rules(call'[t].class, call'[t].todo)
    BY <1>1, <1>3, StepKeepsRules DEF Sound
  <2> QED
    BY <1>1, <1>2, <1>3, <2>1, StepKeepsLocks, StepKeepsHandles, StepKeepsLines,
       StepKeepsErrors DEF Sound
<1>5. \A u \in Threads \ {t} : Sound(u)'
  BY <1>3 DEF Alone, IInv, Sound
<1> QED BY <1>3, <1>4, <1>5 DEF IInv

(***************************************************************************)
(* Calls and returns keep the invariant.                                   *)
(***************************************************************************)

\* A function begins with nothing locked, and hands over only a handle it made.
Starts(s) ==
  /\ ~HeldAt(s, 1)
  /\ \A j \in 1 .. Len(s) : s[j] = "open" => \E i \in 1 .. j - 1 : s[i] = "make"

LEMMA ProgramsStart ==
  ASSUME NEW c \in ClassNames, NEW o, NEW s \in Programs(c, o)
  PROVE  Starts(s)
<1> USE DEF Starts, HeldAt, Inner
<1>1. \A x \in ShortPrograms : Starts(x)
  BY DEF ShortPrograms
<1>2. \A x \in CommandPrograms : Starts(x)
  BY DEF CommandPrograms
<1>3. \A x \in VariablePrograms : Starts(x)
  BY DEF VariablePrograms
<1>4. \A x \in SizePrograms : Starts(x)
  BY SMTT(60) DEF SizePrograms
<1>5. \A x \in CopyPrograms \cup KeptPrograms : Starts(x)
  <2>1. \A x \in CopyPrograms : Starts(x)
    BY DEF CopyPrograms
  <2>2. \A x \in KeptPrograms : Starts(x)
    BY DEF KeptPrograms
  <2> QED BY <2>1, <2>2
<1>6. \A x \in TakePrograms : Starts(x)
  <2>1. Starts(<<"call", "take", "iftaken", "sub", "dispose", "store">>)
    OBVIOUS
  <2>2. Starts(<<"call", "take", "iftaken", "sub", "lock", "unlock", "dispose", "store">>)
    OBVIOUS
  <2>3. Starts(<<"call", "take", "iftaken", "subifclear", "dispose", "store">>)
    OBVIOUS
  <2> HIDE DEF Starts
  <2> QED BY <2>1, <2>2, <2>3 DEF TakePrograms
<1>7. \A x \in OpenAndClose : Starts(x)
  <2>1. Starts(<<"make", "lock", "unlock", "open", "clear">>)
    OBVIOUS
  <2>2. Starts(<<"raise">>)
    OBVIOUS
  <2>3. Starts(<<"trylock", "run", "unlock", "dispose", "store">>)
    OBVIOUS
  <2> HIDE DEF Starts
  <2> QED BY <2>1, <2>2, <2>3 DEF OpenAndClose
<1>8. \A x \in AddPrograms : Starts(x)
  BY DEF AddPrograms, LinePrograms
<1>9. \A x \in ForgetfulPrograms : Starts(x)
  BY DEF ForgetfulPrograms
<1>10. \A x \in ForgetfulHandlePrograms : Starts(x)
  BY DEF ForgetfulHandlePrograms
<1> HIDE DEF Starts
<1> QED
  BY <1>1, <1>2, <1>3, <1>4, <1>5, <1>6, <1>7, <1>8, <1>9, <1>10, ProgramsByClass

\* A call that asks for a line raises an error, or there is room for the line it adds.
LEMMA AddsOrRaises ==
  ASSUME NEW c \in AddClasses, NEW o, NEW s \in Programs(c, o)
  PROVE  /\ Has(s, "raise") \/ Has(s, "line")
         /\ Has(s, "line") => o.lines # LineLimit
<1> USE DEF Has
<1>1. Has(<<"raise">>, "raise") /\ ~Has(<<"raise">>, "line")
  OBVIOUS
<1>2. Has(<<"lock", "unlock", "raise">>, "raise") /\ ~Has(<<"lock", "unlock", "raise">>, "line")
  OBVIOUS
<1>3. /\ Has(<<"lock", "unlock", "sub", "size", "lock", "line", "unlock">>, "line")
      /\ Has(<<"lock", "unlock", "sub", "size", "lock", "line", "unlock", "clear">>, "line")
  OBVIOUS
<1> HIDE DEF Has
<1>4. \/ s \in {<<"raise">>, <<"lock", "unlock", "raise">>}
      \/ o.lines # LineLimit /\ s \in LinePrograms
  BY LineJoins DEF AddClasses, Programs, LinePrograms, AddLine
<1> QED BY <1>1, <1>2, <1>3, <1>4 DEF LinePrograms

LEMMA NoCallIs ==
  /\ NoCall \in CallRecords
  /\ NoCall.class = "none" /\ NoCall.todo = <<>> /\ NoCall.block = "none"
  /\ NoCall.failed = {} /\ NoCall.wrote = FALSE /\ NoCall.handles = 0 /\ NoCall.locks = 0
<1>1. <<>> \in Seq(Steps)
  OBVIOUS
<1> QED BY <1>1 DEF NoCall, CallRecords, Errors

LEMMA CallKeepsInv ==
  ASSUME IInv, NEW t \in Threads, NEW c \in Classes, Call(t, c)
  PROVE  IInv'
<1> DEFINE o == order[t] p == order'[t] d == call'[t]
<1>1. c \in ClassNames
  BY ClassesNamed
<1>2. PICK s \in Programs(c, o) :
        call' = [call EXCEPT ![t] = [NoCall EXCEPT !.class = c, !.todo = s]]
  BY DEF Call
<1>3. PICK kind \in {"orderBy", "query"} : order' = [order EXCEPT ![t] = Begin(o, c, kind)]
  BY DEF Call
<1>4. Rules(c, s) /\ Starts(s) /\ s \in Seq(Steps)
  BY <1>1, ProgramsKeepRules, ProgramsStart DEF Rules, Ordered
<1>5. /\ TypeInv /\ slot' = slot /\ call[t] = NoCall /\ o \in OrderRecords
      /\ LineInv(NoCall, o) /\ Callable(c, o)
  BY DEF IInv, TypeInv, Sound, Call
<1>6. /\ d.class = c /\ d.todo = s /\ d.block = "none" /\ d.failed = {} /\ d.wrote = FALSE
      /\ d.handles = 0 /\ d.locks = 0 /\ d \in CallRecords
  <2> DEFINE m == [NoCall EXCEPT !.class = c] n == [m EXCEPT !.todo = s]
  <2>1. NoCall \in CallRecords
    BY NoCallIs
  <2>2. /\ m.class = c /\ m.block = "none" /\ m.failed = {} /\ m.wrote = FALSE
        /\ m.handles = 0 /\ m.locks = 0 /\ m \in CallRecords
    BY <2>1, NoCallIs DEF CallRecords
  <2> HIDE DEF m
  <2>3. /\ n.class = c /\ n.todo = s /\ n.block = "none" /\ n.failed = {} /\ n.wrote = FALSE
        /\ n.handles = 0 /\ n.locks = 0 /\ n \in CallRecords
    BY <1>4, <2>2, WithTodo DEF Same
  <2> HIDE DEF n
  <2>4. d = n
    BY <1>2, <1>5 DEF TypeInv, m, n
  <2> QED BY <2>3, <2>4
<1>7. /\ p \in OrderRecords /\ p.lines = o.lines /\ p.told = o.told
      /\ p.asked = o.asked + IF c \in AddClasses THEN 1 ELSE 0
      /\ c \in AddClasses => o.asked < MaxAsked
  <2>1. p = Begin(o, c, kind)
    BY <1>3, <1>5 DEF TypeInv
  <2>2. c \in AddClasses => o.asked < MaxAsked
    BY <1>5 DEF Callable, AddClasses
  <2> QED BY <1>5, <2>1, <2>2 DEF Begin, AddClasses, OrderRecords
<1>8. TypeInv'
  BY <1>2, <1>3, <1>5, <1>6, <1>7 DEF TypeInv
<1>9. \A u \in Threads \ {t} : Sound(u)'
  BY <1>2, <1>3, <1>5 DEF TypeInv, IInv, Sound
<1>10. o.lines \in 0 .. LineLimit /\ o.asked \in 0 .. MaxAsked
       /\ (o.told \/ o.asked = o.lines)
  BY <1>5, ApiAssumption DEF LineInv, NoCall, Has, AddClasses
<1> HIDE DEF d, o, p
<1>11. LockInv(d) /\ HandleInv(d)
  BY <1>4, <1>6 DEF LockInv, HandleInv, Starts
<1>12. ErrorInv(d, slot[t])
  BY <1>6 DEF ErrorInv, Errors
<1>13. LineInv(d, p)
  <2>1. CASE c \in AddClasses
    <3>1. /\ Has(s, "raise") \/ Has(s, "line")
          /\ Has(s, "line") => o.lines # LineLimit
      BY <2>1, AddsOrRaises
    <3> QED BY <1>6, <1>7, <1>10, <2>1, <3>1, ApiAssumption DEF LineInv
  <2>2. CASE c \notin AddClasses
    <3>1. ~Has(s, "line")
      BY <1>4, <2>2 DEF Rules, NoLine, Has
    <3> QED BY <1>6, <1>7, <1>10, <2>2, <3>1, ApiAssumption DEF LineInv
  <2> QED BY <2>1, <2>2
<1>14. Sound(t)'
  BY <1>4, <1>5, <1>6, <1>11, <1>12, <1>13 DEF Sound, d, p
<1> QED BY <1>8, <1>9, <1>14 DEF IInv

\* A call that returns leaves the lines short only if its error is returned.
LEMMA ReturnKeepsInv ==
  ASSUME IInv, NEW t \in Threads, Return(t)
  PROVE  IInv'
<1> DEFINE c == call[t] o == order[t] p == order'[t] e == slot[t]
<1>1. /\ TypeInv /\ slot' = slot /\ c.class # "none" /\ c.todo = <<>>
      /\ call' = [call EXCEPT ![t] = NoCall] /\ o \in OrderRecords
      /\ order' = [order EXCEPT ![t] =
                     IF c.class = "closeLines" THEN NoOrder
                     ELSE [o EXCEPT !.told = o.told \/ (c.class \in LineClasses /\ e = "error")]]
      /\ LineInv(c, o) /\ ErrorInv(c, e)
  <2>1. /\ slot' = slot /\ c.class # "none" /\ c.todo = <<>>
        /\ call' = [call EXCEPT ![t] = NoCall]
    BY DEF Return, Returns
  <2>2. order' = [order EXCEPT ![t] =
                   IF c.class = "closeLines" THEN NoOrder
                   ELSE [o EXCEPT !.told = o.told \/ (c.class \in LineClasses /\ e = "error")]]
    BY DEF Return, Slot
  <2>3. TypeInv /\ LineInv(c, o) /\ ErrorInv(c, e) /\ o \in OrderRecords
    BY DEF IInv, TypeInv, Sound
  <2> QED BY <2>1, <2>2, <2>3
<1>2. call'[t] = NoCall /\ NoCall \in CallRecords
  BY <1>1, NoCallIs DEF TypeInv
<1>3. /\ p \in OrderRecords
      /\ \/ p.told = FALSE /\ p.lines = 0 /\ p.asked = 0
         \/ /\ p.lines = o.lines /\ p.asked = o.asked
            /\ p.told <=> o.told \/ (c.class \in LineClasses /\ e = "error")
  <2>1. CASE c.class = "closeLines"
    BY <1>1, <2>1 DEF TypeInv, NoOrder, OrderRecords
  <2>2. CASE c.class # "closeLines"
    <3> DEFINE told == o.told \/ (c.class \in LineClasses /\ e = "error")
    <3>1. p = [o EXCEPT !.told = told]
      BY <1>1, <2>2 DEF TypeInv
    <3>2. told \in BOOLEAN
      BY <1>1 DEF OrderRecords
    <3> HIDE DEF told, p, o
    <3>3. p \in OrderRecords /\ p.lines = o.lines /\ p.asked = o.asked /\ p.told = told
      BY <1>1, <3>1, <3>2 DEF OrderRecords
    <3> QED BY <3>3 DEF told, o
  <2> QED BY <2>1, <2>2
<1>4. TypeInv'
  BY <1>1, <1>2, <1>3 DEF TypeInv
<1>5. \A u \in Threads \ {t} : Sound(u)'
  BY <1>1 DEF TypeInv, IInv, Sound
<1>6. /\ ~Has(<<>>, "line") /\ ~Has(<<>>, "raise") /\ ~HeldAt(<<>>, 1) /\ ~StoreLeft(<<>>, 1)
      /\ Len(<<>>) = 0
  BY DEF Has, HeldAt, StoreLeft
<1>7. NoCall.class = "none" /\ NoCall.todo = <<>> /\ NoCall.failed = {}
  BY NoCallIs
<1>8. Rules("none", <<>>)
  BY EndsKeepRules
<1>9. LockInv(NoCall) /\ HandleInv(NoCall) /\ ErrorInv(NoCall, e)
  BY <1>6, NoCallIs DEF LockInv, HandleInv, ErrorInv, Errors
<1>10. LineInv(NoCall, p)
  <2>1. c.class \in AddClasses /\ "main" \in c.failed => e = "error"
    BY <1>1, <1>6 DEF ErrorInv, AddClasses, Forgetful
  <2>2. c.class \in AddClasses => c.class \in LineClasses
    BY DEF AddClasses, LineClasses
  <2> HIDE DEF c, o, p, e
  <2> QED
    BY <1>1, <1>3, <1>6, <1>7, <2>1, <2>2, ApiAssumption DEF LineInv, OrderRecords
<1>11. Sound(t)'
  BY <1>1, <1>2, <1>7, <1>8, <1>9, <1>10 DEF Sound
<1> QED BY <1>4, <1>5, <1>11 DEF IInv

LEMMA InitInv == Init => IInv
<1> SUFFICES ASSUME Init
             PROVE  IInv
  OBVIOUS
<1>1. TypeInv
  BY NoCallIs DEF Init, TypeInv, NoOrder, OrderRecords, Errors
<1>2. \A t \in Threads : slot[t] = "none" /\ call[t] = NoCall /\ order[t] = NoOrder
  BY DEF Init
<1>3. ~Has(<<>>, "line") /\ ~HeldAt(<<>>, 1) /\ Len(<<>>) = 0
  BY DEF Has, HeldAt
<1>4. Rules("none", <<>>)
  BY EndsKeepRules
<1>5. LockInv(NoCall) /\ HandleInv(NoCall) /\ ErrorInv(NoCall, "none")
  BY <1>3, NoCallIs DEF LockInv, HandleInv, ErrorInv, Errors
<1>6. LineInv(NoCall, NoOrder)
  BY <1>3, NoCallIs, ApiAssumption DEF LineInv, NoOrder
<1> QED BY <1>1, <1>2, <1>4, <1>5, <1>6, NoCallIs DEF IInv, Sound

\* The invariant: the rules on what is left of each call, and what the locks, the
\* handles, the errors and the lines of the call have to do with it.
THEOREM Invariance == Spec => []IInv
<1>1. IInv /\ [Next]_vars => IInv'
  <2> SUFFICES ASSUME IInv, [Next]_vars
               PROVE  IInv'
    OBVIOUS
  <2>1. CASE UNCHANGED vars
    BY <2>1 DEF vars, IInv, TypeInv, Sound
  <2>2. CASE Next
    <3>1. PICK t \in Threads : (\E c \in Classes : Call(t, c)) \/ Step(t) \/ Return(t)
      BY <2>2 DEF Next
    <3>2. CASE \E c \in Classes : Call(t, c)
      BY <3>2, CallKeepsInv
    <3>3. CASE Step(t)
      BY <3>3, StepKeepsInv
    <3>4. CASE Return(t)
      BY <3>4, ReturnKeepsInv
    <3> QED BY <3>1, <3>2, <3>3, <3>4
  <2> QED BY <2>1, <2>2
<1> QED BY <1>1, InitInv, PTL DEF Spec

(***************************************************************************)
(* What follows from the invariant, for any number of threads and lines.   *)
(***************************************************************************)

\* Error codes, calls and queries are what they should be: no function holds a
\* handle twice, unlocks what is not locked, or adds a line beyond the limit.
THEOREM TypeCorrect == Spec => []TypeOK
<1>1. IInv => TypeOK
  <2> SUFFICES ASSUME IInv
               PROVE  TypeOK
    OBVIOUS
  <2>1. slot \in [Threads -> Errors \cup {"junk"}]
    BY DEF IInv, TypeInv
  <2>2. ASSUME NEW t \in Threads
        PROVE  /\ call[t].class \in Classes \cup {"none"}
               /\ call[t].block \in Errors \cup {"junk"}
               /\ call[t].failed \subseteq {"main", "sub", "lock"}
               /\ call[t].wrote \in BOOLEAN
               /\ call[t].handles \in 0 .. 2 /\ call[t].locks \in 0 .. 1
               /\ order[t].kind \in {"none", "orderBy", "query"}
               /\ order[t].open \in BOOLEAN /\ order[t].told \in BOOLEAN
               /\ order[t].lines \in 0 .. LineLimit /\ order[t].asked \in 0 .. MaxAsked
    <3>1. /\ call[t] \in CallRecords /\ order[t] \in OrderRecords
          /\ LockInv(call[t]) /\ HandleInv(call[t]) /\ LineInv(call[t], order[t])
      BY DEF IInv, TypeInv, Sound
    <3>2. call[t].handles \in 0 .. 2 /\ call[t].locks \in 0 .. 1
      BY <3>1 DEF LockInv, HandleInv
    <3>3. order[t].lines \in 0 .. LineLimit /\ order[t].asked \in 0 .. MaxAsked
      BY <3>1 DEF LineInv
    <3> QED BY <3>1, <3>2, <3>3 DEF CallRecords, OrderRecords
  <2> QED BY <2>1, <2>2 DEF TypeOK
<1> QED BY <1>1, Invariance, PTL

\* PA_GetLastError tells the caller of a function, in its own thread, of a failure
\* of that function, and of no failure that there was not; all but the forgetful
\* functions, whatever they call on the way and whatever the other threads do.
THEOREM CallersAreTold == Spec => []CallerIsTold
<1>1. IInv => CallerIsTold
  <2> SUFFICES ASSUME IInv, NEW t \in Threads, Returns(t), call[t].class \notin Forgetful
               PROVE  /\ call[t].failed \cap {"main", "lock"} # {} => slot[Slot(t)] = "error"
                      /\ call[t].wrote => /\ slot[Slot(t)] # "junk"
                                          /\ slot[Slot(t)] = "error" => call[t].failed # {}
    BY DEF CallerIsTold
  <2>1. ErrorInv(call[t], slot[t]) /\ call[t].todo = <<>>
    BY DEF IInv, Sound, Returns
  <2>2. ~StoreLeft(<<>>, 1)
    BY DEF StoreLeft
  <2> QED BY <2>1, <2>2 DEF ErrorInv, Slot
<1> QED BY <1>1, Invariance, PTL

\* Whatever fails on the way, a function returns with nothing locked and every
\* handle disposed of or handed over, but for the copy that two of them keep and the
\* lines of a query that could not be locked.
THEOREM HandlesAreBalanced == Spec => []HandlesBalanced
<1>1. IInv => HandlesBalanced
  <2> SUFFICES ASSUME IInv, NEW t \in Threads, Returns(t)
               PROVE  /\ call[t].locks = 0
                      /\ call[t].class # "keepsCopy" /\ "lock" \notin call[t].failed =>
                           call[t].handles = 0
    BY DEF HandlesBalanced
  <2>1. LockInv(call[t]) /\ HandleInv(call[t]) /\ call[t].todo = <<>>
    BY DEF IInv, Sound, Returns
  <2>2. ~HeldAt(<<>>, 1) /\ Len(<<>>) = 0
    BY DEF HeldAt
  <2> QED BY <2>1, <2>2 DEF LockInv, HandleInv
<1> QED BY <1>1, Invariance, PTL

\* PA_CloseQuery and PA_CloseOrderBy run a query or order by that has every line
\* asked for, however many that are and whatever the limit is, unless an error was
\* returned for one of them.
THEOREM QueriesAreWhole == Spec => []QueryWhole
<1>1. IInv => QueryWhole
  <2> SUFFICES ASSUME IInv, NEW t \in Threads, At(t, "run")
               PROVE  order[t].told \/ order[t].lines = order[t].asked
    BY DEF QueryWhole
  <2>1. /\ Rules(call[t].class, call[t].todo) /\ LineInv(call[t], order[t])
        /\ call[t].todo # <<>> /\ Ordered(call[t].todo) /\ Head(call[t].todo) = "run"
    BY DEF IInv, Sound, Rules, At
  <2>2. call[t].todo[1] = "run" /\ 1 \in 1 .. Len(call[t].todo)
    BY <2>1, RestOf DEF Ordered
  <2>3. call[t].class \notin AddClasses
    BY <2>1, <2>2 DEF Rules, AddRule
  <2>4. ~Has(call[t].todo, "line")
    BY <2>1, <2>3 DEF Rules, NoLine, Has
  <2>5. order[t].lines \in 0 .. LineLimit
    BY <2>1 DEF LineInv
  <2> QED BY <2>1, <2>3, <2>4, <2>5, ApiAssumption DEF LineInv
<1> QED BY <1>1, Invariance, PTL
================================================================================
