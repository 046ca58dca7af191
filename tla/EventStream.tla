------------------------------ MODULE EventStream ------------------------------
(***************************************************************************)
(* What the plugin promises about websocket events, with no threads, locks *)
(* or lists: one stream of events, each handed to its callback method at   *)
(* most once and in the order of arrival.  An event is passed over only    *)
(* when its callback method does not exist, or when the plugin is closed.  *)
(***************************************************************************)
EXTENDS Naturals, Sequences

CONSTANTS Endpoints,     \* servers and clients that events are about
          Methods,       \* names of callback methods
          Installed      \* the methods that PA_GetMethodID can resolve

VARIABLES pending,       \* events that arrived and were not handed over yet
          executed,      \* events handed to their callback method, in order
          arrived,       \* how many events arrived so far
          closed         \* TRUE once the plugin discards what is left

vars == <<pending, executed, arrived, closed>>

Event(id) == [id : {id}, ep : Endpoints, method : Methods]

Init == /\ pending = <<>>
        /\ executed = <<>>
        /\ arrived = 0
        /\ closed = FALSE

\* An event arrives; it carries the next arrival number.
Arrive == /\ arrived' = arrived + 1
          /\ \E e \in Event(arrived + 1) : pending' = Append(pending, e)
          /\ UNCHANGED <<executed, closed>>

\* The oldest event is handed to its callback method.
Execute == /\ ~closed
           /\ pending # <<>>
           /\ Head(pending).method \in Installed
           /\ executed' = Append(executed, Head(pending))
           /\ pending' = Tail(pending)
           /\ UNCHANGED <<arrived, closed>>

\* The oldest event names no installed method: it is passed over.
PassOver == /\ pending # <<>>
            /\ Head(pending).method \notin Installed
            /\ pending' = Tail(pending)
            /\ UNCHANGED <<executed, arrived, closed>>

Close == /\ closed' = TRUE
         /\ UNCHANGED <<pending, executed, arrived>>

\* After closing, undelivered events are thrown away, the oldest first.
Discard == /\ closed
           /\ pending # <<>>
           /\ pending' = Tail(pending)
           /\ UNCHANGED <<executed, arrived, closed>>

Next == Arrive \/ Execute \/ PassOver \/ Close \/ Discard

Spec == Init /\ [][Next]_vars
================================================================================
