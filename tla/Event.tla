------------------------------- MODULE Event -------------------------------
(***************************************************************************)
(* Events, los_event.c, on the blocking layer of TaskWait.  uwEventID is   *)
(* the set of its bits; the stEventList of an event control block is the   *)
(* wait list of the same name.                                             *)
(*                                                                         *)
(* A write wakes every reader it satisfies in one critical section.  A     *)
(* woken reader looks at the bits again only when it runs; what it was     *)
(* woken for may have been cleared by then, and it returns 0.  Suspension  *)
(* does not freeze (LOSCFG_KERNEL_PM outside power-management mode).       *)
(***************************************************************************)
EXTENDS TaskWait

CONSTANTS
    Bit,         \* the event bits
    Reads,       \* masks and modes readers use: mask, and (LOS_WAITMODE_AND, else
                 \* OR), clr (LOS_WAITMODE_CLR)
    OnceEvent,   \* the events used with OsEventWriteOnce and OsEventReadOnce too
    ReadTimed,   \* bound: the kinds of wait readers use, with a finite timeout or not
    Managed      \* bound: the tasks suspended, resumed or deleted

Event == WaitList

ASSUME EventConstants ==
    /\ Reads \subseteq [mask : (SUBSET Bit) \ {{}}, and : BOOLEAN, clr : BOOLEAN]
    /\ OnceEvent \subseteq Event
    /\ Managed \subseteq Task /\ ReadTimed \subseteq BOOLEAN
    /\ None \notin Reads
    /\ ~FreezeOnSuspend

VARIABLES
    eventID,     \* eventID[e]: uwEventID
    request,     \* request[t]: eventMask and eventMode of the TCB
    writing,     \* OsEventWriteUnsafe at work, under the scheduler lock: the event,
                 \* the bits written and the readers still to be looked at
    taken        \* history: bits t asked for have been cleared since it was woken

eventVars == <<eventID, request, writing, taken>>
vars == <<waitVars, eventVars>>

NoWrite == [event |-> None, events |-> {}, left |-> <<>>]

TypeOK ==
    /\ WaitTypeOK
    /\ eventID \in [Event -> SUBSET Bit]
    /\ request \in [Task -> Reads \cup {None}]
    /\ writing \in [event : Event \cup {None}, events : SUBSET Bit, left : Seq(Task)]
    /\ taken \in [Task -> BOOLEAN]

\* LOS_EventInit
Init ==
    /\ WaitInit
    /\ eventID = [e \in Event |-> {}]
    /\ request = [t \in Task |-> None]
    /\ writing = NoWrite
    /\ taken = [t \in Task |-> FALSE]

-----------------------------------------------------------------------------
\* The bits a reader gets; none if it is not satisfied.
OsEventPoll(bits, r) ==
    IF r.and /\ ~(r.mask \subseteq bits) THEN {} ELSE bits \cap r.mask

\* The bits OsEventPoll leaves.
BitsLeft(bits, r) == IF r.clr THEN bits \ OsEventPoll(bits, r) ELSE bits

\* Readers woken for bits of e that are gone when the bits of e become bits.
Taken(e, bits) ==
    [t \in Task |-> taken[t] \/ /\ waitOn[t] = e /\ woken[t]
                                /\ (eventID[e] \ bits) \cap request[t].mask # {}]

SetBits(e, bits) ==
    /\ eventID' = [eventID EXCEPT ![e] = bits]
    /\ taken' = Taken(e, bits)

\* LOS_EventPoll, or LOS_EventRead of a reader that is satisfied at once.
LOS_EventPoll(e, r) ==
    /\ ~fault
    /\ OsEventPoll(eventID[e], r) # {}
    /\ SetBits(e, BitsLeft(eventID[e], r))
    /\ UNCHANGED <<waitVars, request, writing>>

\* OsEventReadImp of a reader that is not, or that does not look (once).
EventReadWait(t, e, r, timed, once) ==
    /\ ~once => OsEventPoll(eventID[e], r) = {}
    /\ request' = [request EXCEPT ![t] = r]
    /\ HPFWait(t, e, Len(pendList[e]) + 1, timed)
    /\ UNCHANGED <<eventID, writing, taken>>

\* The end of OsEventReadImp: a timeout, or a second look.
EventReadResumed(t) ==
    /\ HPFWaitReturn(t)
    /\ IF WaitResult(t) = "LOS_OK"
       THEN LET e == waitOn[t]
                bits == BitsLeft(eventID[e], request[t])
            IN  /\ eventID' = [eventID EXCEPT ![e] = bits]
                /\ taken' = [Taken(e, bits) EXCEPT ![t] = FALSE]
       ELSE UNCHANGED <<eventID, taken>>
    /\ request' = [request EXCEPT ![t] = None]
    /\ UNCHANGED writing

-----------------------------------------------------------------------------
\* Mutant: one of the bits is enough, whatever the mode.
SatisfiedByAny(r, events, bits) == r.mask \cap events # {}

\* OsEventResume: the reader is woken by a write of events, after which the bits
\* of the event are bits.
Satisfied(r, events, bits) ==
    IF r.and THEN r.mask \subseteq bits ELSE r.mask \cap events # {}

\* Mutant: the loop stops after the first reader.
FirstOnly(e, once) == IF pendList[e] = <<>> THEN <<>> ELSE <<Head(pendList[e])>>

\* The readers the loop of OsEventWriteUnsafe looks at.
LookedAt(e, once) ==
    IF once /\ pendList[e] # <<>> THEN <<Head(pendList[e])>> ELSE pendList[e]

OsEventWriteUnsafe(e, events, once) ==
    /\ ~fault
    /\ eventID' = [eventID EXCEPT ![e] = @ \cup events]
    /\ writing' = IF LookedAt(e, once) = <<>> THEN NoWrite
                  ELSE [event |-> e, events |-> events, left |-> LookedAt(e, once)]
    /\ UNCHANGED <<waitVars, request, taken>>

\* One turn of its loop.
OsEventResume ==
    LET e == writing.event
        t == Head(writing.left)
    IN
    /\ ~fault
    /\ IF Satisfied(request[t], writing.events, eventID[e]) THEN HPFWake(t)
                                                            ELSE UNCHANGED waitVars
    /\ writing' = IF Len(writing.left) = 1 THEN NoWrite
                  ELSE [writing EXCEPT !.left = Tail(@)]
    /\ UNCHANGED <<eventID, request, taken>>

\* LOS_EventClear, and OsEventReadWithCond when the value has changed.
LOS_EventClear(e, mask) ==
    /\ ~fault
    /\ SetBits(e, eventID[e] \cap mask)
    /\ UNCHANGED <<waitVars, request, writing>>

\* Mutant: readers waiting are not looked for.
NobodyReads(e) == TRUE

NoReader(e) == pendList[e] = <<>>

\* The list is initialised again.
LOS_EventDestroy(e) ==
    /\ ~fault
    /\ NoReader(e)
    /\ SetBits(e, {})
    /\ pendList' = [pendList EXCEPT ![e] = <<>>]
    /\ UNCHANGED <<taskStatus, waitOn, node, scan, woken, fault, request, writing>>

TaskDelete(t) ==
    /\ TaskExit(t)
    /\ request' = [request EXCEPT ![t] = None]
    /\ taken' = [taken EXCEPT ![t] = FALSE]
    /\ UNCHANGED <<eventID, writing>>

Once(e) == IF e \in OnceEvent THEN BOOLEAN ELSE {FALSE}

Next ==
    \/ /\ writing = NoWrite
       /\ \/ \E t \in Task :
              \/ \E e \in Event, r \in Reads, timed \in ReadTimed :
                    \E once \in Once(e) : EventReadWait(t, e, r, timed, once)
              \/ EventReadResumed(t)
              \/ TimeoutScan(t) /\ UNCHANGED eventVars
              \/ TaskCreate(t) /\ UNCHANGED eventVars
          \/ \E t \in Managed :
              \/ (TaskSuspend(t) \/ TaskResume(t)) /\ UNCHANGED eventVars
              \/ TaskDelete(t)
          \/ \E e \in Event :
              \/ \E r \in Reads : LOS_EventPoll(e, r)
              \/ \E events \in SUBSET Bit, once \in Once(e) :
                    OsEventWriteUnsafe(e, events, once)
              \/ \E mask \in SUBSET Bit : LOS_EventClear(e, mask)
              \/ LOS_EventDestroy(e)
    \/ /\ writing # NoWrite
       /\ OsEventResume

Spec == Init /\ [][Next]_vars

-----------------------------------------------------------------------------
(***************************************************************************)
(* No event is missed: between two calls nobody waits for bits that are    *)
(* set.  LOS_EventWrite looks at each reader once, by the bits it writes   *)
(* (OR) or by all bits (AND), and readers come, time out and are deleted   *)
(* between the writes.                                                     *)
(***************************************************************************)
NoSatisfiedReaderWaits ==
    \A e \in Event \ OnceEvent : writing.event # e =>
        \A i \in DOMAIN pendList[e] :
            OsEventPoll(eventID[e], request[pendList[e][i]]) = {}

(***************************************************************************)
(* A woken reader finds what it was woken for when it runs, however late,  *)
(* unless another reader, LOS_EventClear or LOS_EventDestroy has cleared   *)
(* bits it asked for in the meantime.                                      *)
(***************************************************************************)
WokenReaderFindsEvent ==
    \A t \in Task : (waitOn[t] # None /\ woken[t] /\ ~taken[t]) =>
        OsEventPoll(eventID[waitOn[t]], request[t]) # {}

(***************************************************************************)
(* Every step of the event calls is a step the blocking layer allows.      *)
(***************************************************************************)
ImplementsTaskWait == WaitSpec
=============================================================================
