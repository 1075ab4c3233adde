--------------------------- MODULE GatewayIOProofs ---------------------------
(***************************************************************************)
(* Theorems about GatewayIO, for every number of connections and faults.   *)
(* That reads and writes fail for a reason is a claim about steps;         *)
(* it follows from what is known, before the step, of the deadlines and    *)
(* errors that the connection carries over from earlier calls.             *)
(***************************************************************************)
EXTENDS GatewayIO, TLAPS

\* The call in progress: next's context is cancelled exactly when a goroutine
\* has ended, an event ends the reading, nothing is read or written in a call that
\* is over, and between calls a connection is kept only after an event.
Calls ==
    /\ cancelled = TRUE => pc \in Group /\ outcome # "none"
    /\ pc \in Group /\ outcome # "none" => cancelled = TRUE
    /\ outcome = "event" => rd = "off" /\ pc \in Group \cup {"out"}
    /\ pc \in {"out", "sleep"} \/ (pc \notin Group /\ outcome # "none") => rd = "off" /\ wr = "off"
    /\ pc = "out" /\ conn = "open" => outcome = "event"

Lost == outcome \in {"failed", "rejected"}

\* What may stop reads and writes is the doing of a call that is lost, of the
\* cancelled call in progress, or of the client itself.
Sound ==
    conn = "open" =>
        /\ deadline["read"] = TRUE =>
              \/ selfharm = TRUE \/ Lost
              \/ rd = "blocked" /\ fired["read"] = TRUE /\ parentDone = TRUE
        /\ broken["read"] = TRUE => Lost
        /\ broken["write"] = TRUE => selfharm = TRUE \/ outcome = "failed"
        /\ wr = "blocked" /\ deadline["write"] = TRUE =>
              selfharm = TRUE \/ parentDone = TRUE \/ cancelled = TRUE

IOInv == TypeOK /\ Calls /\ Sound

\* The step that FailsForAReason is about.
FailsStep ==
    outcome' = "failed" /\ outcome # "failed"
        => parentDone = TRUE \/ link # "up" \/ selfharm = TRUE

----------------------------------------------------------------------------

LEMMA InitIO == Init => IOInv
<1> SUFFICES ASSUME Init PROVE IOInv
  OBVIOUS
<1>1. 0 \in 0..MaxDials /\ 0 \in 0..MaxFaults
  BY IOAssumption
<1>2. Neither \in [Ops -> BOOLEAN]
        /\ [o \in Ops |-> "none"] \in [Ops -> Contexts]
  BY DEF Neither, Contexts
<1>3. TypeOK
  BY <1>1, <1>2 DEF Init, TypeOK, Group, Phases, Contexts
<1> QED
  BY <1>3 DEF Init, IOInv, Calls, Sound, Group

LEMMA LeavesType ==
    ASSUME TypeOK, NEW o \in Ops, Leaves(o)
    PROVE  fired' \in [Ops -> BOOLEAN] /\ late' \in [Ops -> Contexts]
BY DEF TypeOK, Leaves, Contexts

LEMMA EndsType ==
    ASSUME TypeOK, NEW o \in {"event", "failed", "rejected"}, Ends(o)
    PROVE  outcome' \in {"none", "event", "failed", "rejected"} /\ cancelled' \in BOOLEAN
BY DEF TypeOK, Ends

LEMMA NextType ==
    ASSUME TypeOK, Calls, [Next]_vars
    PROVE  TypeOK'
<1> USE DEF TypeOK, Calls, Ops, callVars, connVars
<1>1. CASE Connect
  <2>1. dials' \in 0..MaxDials
    BY <1>1, IOAssumption DEF Connect
  <2>2. Neither \in [Ops -> BOOLEAN]
    BY DEF Neither
  <2> HIDE DEF Ops
  <2> QED
    BY <1>1, <2>1, <2>2 DEF Connect, Begin, Goto, Group, Phases
<1>2. CASE Listen
  BY <1>2 DEF Listen, Begin, Goto, Group, Phases
<1>3. CASE Return
  <2>1. late' \in [Ops -> Contexts]
    BY <1>3 DEF Return, Contexts
  <2> HIDE DEF Ops
  <2> QED
    BY <1>3, <2>1 DEF Return, Goto, Group, Phases
<1>4. CASE SleepEnds
  BY <1>4 DEF SleepEnds, Goto, Group, Phases
<1>5. CASE SleepCancelled
  BY <1>5 DEF SleepCancelled, Ends
<1>6. CASE Close
  BY <1>6 DEF Close
<1>7. CASE Cancel
  BY <1>7, IOAssumption DEF Cancel, Fault
<1>8. CASE HeartbeatDue
  BY <1>8 DEF HeartbeatDue
<1>9. CASE HeartbeatMissing
  BY <1>9 DEF HeartbeatMissing, Ends
<1>10. CASE HeartbeatHanded
  BY <1>10 DEF HeartbeatHanded
<1>11. CASE HeartbeatStops
  BY <1>11 DEF HeartbeatStops, ctxDone
<1>12. CASE HandingCancelled
  BY <1>12 DEF HandingCancelled, Ends, ctxDone
<1>13. CASE ReadRefused
  BY <1>13 DEF ReadRefused, Ends, ctxDone
<1>14. CASE ReadStarts
  BY <1>14 DEF ReadStarts, ctxDone
<1>15. CASE ReadReturns
  <2>1. fired' \in [Ops -> BOOLEAN] /\ late' \in [Ops -> Contexts]
    BY <1>15, LeavesType DEF ReadReturns
  <2>2. pc' \in Phases /\ (pc' # pc => pc = "hello")
    BY <1>15 DEF ReadReturns, Goto, Phases
  <2>3. CASE pc' = pc
    <3>1. wr' = wr /\ rd' \in {"off", "offer"} /\ (rd' = "offer" => pc \in Group)
      BY <1>15, <2>3 DEF ReadReturns, Goto
    <3>2. outcome' \in {"none", "event", "failed", "rejected"} /\ cancelled' \in BOOLEAN
      BY <1>15, <2>3, EndsType DEF ReadReturns
    <3>3. selfharm' \in BOOLEAN
      BY <1>15 DEF ReadReturns
    <3> QED
      BY <1>15, <2>1, <2>3, <3>1, <3>2, <3>3 DEF ReadReturns
  <2>4. CASE pc' # pc
    BY <1>15, <2>1, <2>2, <2>4 DEF ReadReturns, Goto, Group
  <2> QED
    BY <2>3, <2>4
<1>16. CASE ReadFails
  BY <1>16 DEF ReadFails, Ends, Leaves, Contexts
<1>17. CASE WriteRefused
  BY <1>17 DEF WriteRefused, Ends, ctxDone
<1>18. CASE WriteStarts
  BY <1>18 DEF WriteStarts, ctxDone
<1>19. CASE DeadlineCleared
  BY <1>19 DEF DeadlineCleared
<1>20. CASE WriteReturns
  BY <1>20 DEF WriteReturns, Leaves, Goto, Contexts, Group, Phases
<1>21. CASE WriteFails
  <2>1. fired' \in [Ops -> BOOLEAN] /\ late' \in [Ops -> Contexts]
    BY <1>21, LeavesType DEF WriteFails
  <2>2. /\ broken' \in [Ops -> BOOLEAN] /\ overwritten' \in BOOLEAN
        /\ outcome' \in {"none", "event", "failed", "rejected"} /\ cancelled' \in BOOLEAN
    BY <1>21, EndsType DEF WriteFails
  <2>3. selfharm' \in BOOLEAN
    BY <1>21 DEF WriteFails, ctxDone
  <2> QED
    BY <1>21, <2>1, <2>2, <2>3 DEF WriteFails
<1>22. CASE LinkFails
  BY <1>22, IOAssumption DEF LinkFails, Fault
<1>23. ASSUME NEW o \in Ops, WatcherFires(o) PROVE TypeOK'
  BY <1>23 DEF WatcherFires, working, ctxDone
<1>24. ASSUME NEW o \in Ops, LateWatcherFires(o) PROVE TypeOK'
  <2>1. late' \in [Ops -> Contexts]
    BY <1>24 DEF LateWatcherFires, Contexts
  <2>2. deadline' \in [Ops -> BOOLEAN] /\ panicked' \in BOOLEAN /\ selfharm' \in BOOLEAN
    BY <1>24 DEF LateWatcherFires
  <2> HIDE DEF Ops
  <2> QED
    BY <1>24, <2>1, <2>2 DEF LateWatcherFires
<1>25. ASSUME NEW o \in Ops, LateWatcherEnds(o) PROVE TypeOK'
  <2>1. late' \in [Ops -> Contexts]
    BY <1>25 DEF LateWatcherEnds, Contexts
  <2> QED
    BY <1>25, <2>1 DEF LateWatcherEnds
<1>26. CASE UNCHANGED vars
  BY <1>26 DEF vars
<1> QED
  BY <1>1, <1>2, <1>3, <1>4, <1>5, <1>6, <1>7, <1>8, <1>9, <1>10, <1>11, <1>12, <1>13, <1>14,
     <1>15, <1>16, <1>17, <1>18, <1>19, <1>20, <1>21, <1>22, <1>23, <1>24, <1>25, <1>26
  DEF Next, Caller, Heartbeat, Read, Write, Watcher

LEMMA NextCalls ==
    ASSUME TypeOK, Calls, [Next]_vars
    PROVE  Calls'
<1> USE DEF TypeOK, Calls, Ops, Group, Phases, Contexts, callVars, connVars
<1>1. CASE Connect
  BY <1>1 DEF Connect, Begin, Goto
<1>2. CASE Listen
  BY <1>2 DEF Listen, Begin, Goto
<1>3. CASE Return
  BY <1>3 DEF Return, Goto
<1>4. CASE SleepEnds
  BY <1>4 DEF SleepEnds, Goto
<1>5. CASE SleepCancelled
  BY <1>5 DEF SleepCancelled, Ends
<1>6. CASE Close
  BY <1>6 DEF Close
<1>7. CASE Cancel
  BY <1>7 DEF Cancel, Fault
<1>8. CASE HeartbeatDue
  BY <1>8 DEF HeartbeatDue
<1>9. CASE HeartbeatMissing
  BY <1>9 DEF HeartbeatMissing, Ends
<1>10. CASE HeartbeatHanded
  BY <1>10 DEF HeartbeatHanded
<1>11. CASE HeartbeatStops
  BY <1>11 DEF HeartbeatStops, ctxDone
<1>12. CASE HandingCancelled
  BY <1>12 DEF HandingCancelled, Ends, ctxDone
<1>13. CASE ReadRefused
  BY <1>13 DEF ReadRefused, Ends, ctxDone
<1>14. CASE ReadStarts
  BY <1>14 DEF ReadStarts, ctxDone
<1>15. CASE ReadReturns
  BY <1>15 DEF ReadReturns, Ends, Leaves, Goto
<1>16. CASE ReadFails
  BY <1>16 DEF ReadFails, Ends, Leaves
<1>17. CASE WriteRefused
  BY <1>17 DEF WriteRefused, Ends, ctxDone
<1>18. CASE WriteStarts
  BY <1>18 DEF WriteStarts, ctxDone
<1>19. CASE DeadlineCleared
  BY <1>19 DEF DeadlineCleared
<1>20. CASE WriteReturns
  BY <1>20 DEF WriteReturns, Leaves, Goto
<1>21. CASE WriteFails
  BY <1>21 DEF WriteFails, Ends, Leaves, ctxDone
<1>22. CASE LinkFails
  BY <1>22 DEF LinkFails, Fault
<1>23. ASSUME NEW o \in Ops, WatcherFires(o) PROVE Calls'
  BY <1>23 DEF WatcherFires, working, ctxDone
<1>24. ASSUME NEW o \in Ops, LateWatcherFires(o) PROVE Calls'
  BY <1>24 DEF LateWatcherFires, ctxDone
<1>25. ASSUME NEW o \in Ops, LateWatcherEnds(o) PROVE Calls'
  BY <1>25 DEF LateWatcherEnds
<1>26. CASE UNCHANGED vars
  BY <1>26 DEF vars
<1> QED
  BY <1>1, <1>2, <1>3, <1>4, <1>5, <1>6, <1>7, <1>8, <1>9, <1>10, <1>11, <1>12, <1>13, <1>14,
     <1>15, <1>16, <1>17, <1>18, <1>19, <1>20, <1>21, <1>22, <1>23, <1>24, <1>25, <1>26
  DEF Next, Caller, Heartbeat, Read, Write, Watcher

LEMMA NextSound ==
    ASSUME TypeOK, Calls, Sound, [Next]_vars
    PROVE  Sound'
<1> USE DEF TypeOK, Calls, Sound, Lost, Ops, Group, Phases, Contexts, callVars, connVars, Neither
<1>1. CASE Connect
  BY <1>1 DEF Connect, Begin, Goto
<1>2. CASE Listen
  BY <1>2 DEF Listen, Begin, Goto
<1>3. CASE Return
  BY <1>3 DEF Return, Goto
<1>4. CASE SleepEnds
  BY <1>4 DEF SleepEnds, Goto
<1>5. CASE SleepCancelled
  BY <1>5 DEF SleepCancelled, Ends
<1>6. CASE Close
  BY <1>6 DEF Close
<1>7. CASE Cancel
  BY <1>7 DEF Cancel, Fault
<1>8. CASE HeartbeatDue
  BY <1>8 DEF HeartbeatDue
<1>9. CASE HeartbeatMissing
  BY <1>9 DEF HeartbeatMissing, Ends
<1>10. CASE HeartbeatHanded
  BY <1>10 DEF HeartbeatHanded
<1>11. CASE HeartbeatStops
  BY <1>11 DEF HeartbeatStops, ctxDone
<1>12. CASE HandingCancelled
  BY <1>12 DEF HandingCancelled, Ends, ctxDone
<1>13. CASE ReadRefused
  BY <1>13 DEF ReadRefused, Ends, ctxDone
<1>14. CASE ReadStarts
  BY <1>14 DEF ReadStarts, ctxDone
<1>15. CASE ReadReturns
  BY <1>15 DEF ReadReturns, Ends, Leaves, Goto
<1>16. CASE ReadFails
  BY <1>16 DEF ReadFails, Ends, Leaves
<1>17. CASE WriteRefused
  BY <1>17 DEF WriteRefused, Ends, ctxDone
<1>18. CASE WriteStarts
  BY <1>18 DEF WriteStarts, ctxDone
<1>19. CASE DeadlineCleared
  BY <1>19 DEF DeadlineCleared
<1>20. CASE WriteReturns
  BY <1>20 DEF WriteReturns, Leaves, Goto
<1>21. CASE WriteFails
  BY <1>21 DEF WriteFails, Ends, Leaves, ctxDone
<1>22. CASE LinkFails
  BY <1>22 DEF LinkFails, Fault
<1>23. ASSUME NEW o \in Ops, WatcherFires(o) PROVE Sound'
  BY <1>23 DEF WatcherFires, working, ctxDone
<1>24. ASSUME NEW o \in Ops, LateWatcherFires(o) PROVE Sound'
  BY <1>24 DEF LateWatcherFires, ctxDone
<1>25. ASSUME NEW o \in Ops, LateWatcherEnds(o) PROVE Sound'
  BY <1>25 DEF LateWatcherEnds
<1>26. CASE UNCHANGED vars
  BY <1>26 DEF vars
<1> QED
  BY <1>1, <1>2, <1>3, <1>4, <1>5, <1>6, <1>7, <1>8, <1>9, <1>10, <1>11, <1>12, <1>13, <1>14,
     <1>15, <1>16, <1>17, <1>18, <1>19, <1>20, <1>21, <1>22, <1>23, <1>24, <1>25, <1>26
  DEF Next, Caller, Heartbeat, Read, Write, Watcher

LEMMA NextIO == IOInv /\ [Next]_vars => IOInv'
BY NextType, NextCalls, NextSound DEF IOInv

LEMMA IOFailsForAReason == IOInv /\ [Next]_vars => FailsStep
<1> SUFFICES ASSUME IOInv, Next, outcome' = "failed", outcome # "failed"
             PROVE  parentDone = TRUE \/ link # "up" \/ selfharm = TRUE
  BY DEF FailsStep, vars, callVars
<1> USE DEF IOInv, TypeOK, Calls, Sound, Lost, Ops, Group, Phases, callVars, ctxDone, Ends
<1>1. /\ conn = "open" /\ outcome = "none" /\ cancelled # TRUE
      /\ SleepCancelled \/ HandingCancelled \/ ReadRefused \/ ReadFails \/ WriteRefused \/ WriteFails
  <2>1. SleepCancelled \/ HandingCancelled \/ ReadRefused \/ ReadFails \/ WriteRefused \/ WriteFails
    BY DEF Next, Caller, Cancel, Heartbeat, Read, Write, Watcher, LinkFails, Connect, Listen, Begin,
           Return, SleepEnds, Close, HeartbeatDue, HeartbeatMissing, HeartbeatHanded,
           HeartbeatStops, ReadStarts, ReadReturns, WriteStarts, DeadlineCleared, WriteReturns,
           WatcherFires, LateWatcherFires, LateWatcherEnds
  <2> QED
    BY <2>1 DEF SleepCancelled, HandingCancelled, ReadRefused, ReadFails, WriteRefused, WriteFails
<1>2. CASE SleepCancelled \/ HandingCancelled \/ ReadRefused \/ WriteRefused
  BY <1>1, <1>2 DEF SleepCancelled, HandingCancelled, ReadRefused, WriteRefused
<1>3. CASE ReadFails
  BY <1>1, <1>3 DEF ReadFails
<1>4. CASE WriteFails
  BY <1>1, <1>4 DEF WriteFails
<1> QED
  BY <1>1, <1>2, <1>3, <1>4

\* The type invariant, and with it that nothing reads or writes without a
\* connection, and that reading and writing go on at once only in a call of next,
\* Listen's or one of connect's (gateway.go:407, 450, 496-579).
THEOREM IOTypeCorrect == Spec => []TypeOK
<1>1. IOInv => TypeOK
  BY DEF IOInv
<1> QED
  BY InitIO, NextIO, <1>1, PTL DEF Spec

\* An error of a read, a write or the context ends an uncancelled call on a sound
\* network only when the client has hurt its own connection, however many
\* connections and calls there were before: an event, a payload that is no good or
\* a missing acknowledgement is never taken for one (gateway.go:222-288, 346-467).
THEOREM FailuresHaveReasons == Spec => FailsForAReason
<1>1. FailsStep => [outcome' = "failed" /\ outcome # "failed"
                      => parentDone \/ link # "up" \/ selfharm]_vars
  BY DEF FailsStep
<1>2. IOInv /\ [Next]_vars => [outcome' = "failed" /\ outcome # "failed"
                                  => parentDone \/ link # "up" \/ selfharm]_vars
  BY <1>1, IOFailsForAReason
<1> QED
  BY InitIO, NextIO, <1>2, PTL DEF Spec, FailsForAReason
==============================================================================
