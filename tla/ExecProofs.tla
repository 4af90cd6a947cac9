------------------------------ MODULE ExecProofs ------------------------------
(***************************************************************************)
(* Proofs about Exec and its parts.                                        *)
(*                                                                         *)
(* Supervisor: for any number of signals, a group is killed only when that *)
(* was earned, and a call that was left has ended its group, removed its   *)
(* handlers and given the terminal back, but for the KeyboardInterrupts    *)
(* that hit the places nothing protects and for what the system refuses.   *)
(* Exec runs that supervisor, so this holds of every `exec`; and the child *)
(* keeps the files it was given while it works.                            *)
(***************************************************************************)
EXTENDS Exec, TLAPS

-----------------------------------------------------------------------------
(* The supervisor: its invariant *)

\* The finally clauses after the first, and what follows them.
Clearing == {"unresizing", "unterminal", "closing", "terminating", "reaping", "done"}

\* Handlers are there from their installation to the first finally clause,
\* SIGINT's first; later only what a KeyboardInterrupt left of them.  A handler
\* runs only where handlers are, after its signal.
HandlersInv ==
  /\ handlers # {} => place \notin {"idle", "started", "taking", "resizing", "assigning", "dead"}
  /\ place = "waiting" => "INT" \in handlers
  /\ (place = "installing" /\ handlers # {}) => "INT" \in handlers
  /\ (handlers # {} /\ place \in Clearing) => "INT" \notin handlers /\ "restoring" \in interrupted
  /\ handling => /\ handlers # {} /\ place \notin Ended
                 /\ signals >= 1 /\ (warned \/ ~GroupExists)

\* Without a child there is no group.
ChildInv ==
  /\ place = "idle" => leader = "none"
  /\ leader = "none" => place \in {"idle", "done"} /\ ~others

\* A grace begins when the group was asked to end, by a signal or by the last
\* finally clause.
GraceInv ==
  /\ deadline # "none" => leader # "none" /\ (warned \/ ~GroupExists) /\ signals >= 1
  /\ ending # "none" => leader # "none" /\ warned

\* After the wait the child is reaped or the wait was left by an exception; the
\* final wait begins when nothing is left that works.
EndInv ==
  /\ place \in {"restoring", "unresizing", "unterminal", "closing", "terminating"} =>
       leader = "reaped" \/ raised
  /\ place = "reaping" => killed \/ ~Working
  /\ GroupIsOver

\* Who has the terminal, and who knows how to give it back.
TerminalInv ==
  /\ (mode = "interactive" /\ place \notin Ended \cup {"idle"}) => saved
  /\ place \in {"idle", "started", "taking"} => foreground = "own"
  /\ (foreground = "child" /\ place \notin {"assigning", "dead"}) =>
       saved \/ "assigning" \in interrupted
  /\ (foreground = "child" /\ place \in {"closing", "terminating", "reaping", "done"}) =>
       refused \/ "assigning" \in interrupted \/ "unterminal" \in interrupted

\* Where SIGWINCH's handler is, and whether that is known.
ResizeInv ==
  /\ mode = "oneoff" => resize = "none" /\ place # "resizing"
  /\ place \in {"idle", "started", "taking", "resizing"} => resize = "none"
  /\ resize = "set" => place \in {"assigning", "dead"} \/ "assigning" \in interrupted
  /\ (resize = "known" /\ place \in Clearing \ {"unresizing"}) => "unresizing" \in interrupted

SupInv ==
  SupTypeOK /\ HandlersInv /\ ChildInv /\ GraceInv /\ EndInv /\ TerminalInv /\ ResizeInv

-----------------------------------------------------------------------------
(* The supervisor: its invariant is inductive *)

\* A KeyboardInterrupt keeps the types of what it changes everywhere.
LEMMA InterruptTypes ==
  ASSUME SupTypeOK, NEW from \in Places, NEW to \in Places, Interrupt(from, to),
         resize' \in {"none", "set", "known"}, foreground' \in {"own", "child"},
         raised' \in BOOLEAN
  PROVE  SupTypeOK'
<1>1. place' \in Places /\ handling' \in BOOLEAN /\ interrupted' \subseteq Exposed
  BY DEF Interrupt, SupTypeOK
<1>2. UNCHANGED <<mode, handlers, saved, groupVars, signals, deadline, ending, escalated,
                  refused>>
  BY DEF Interrupt
<1> QED
  BY <1>1, <1>2 DEF SupTypeOK, groupVars

\* Every step keeps the types.
LEMMA TypeStep == SupInv /\ [SupNext]_supVars => SupTypeOK'
<1> SUFFICES ASSUME SupInv, [SupNext]_supVars PROVE SupTypeOK'
  OBVIOUS
<1> USE SignalsAssumption
        DEF SupInv, SupTypeOK, Exposed, Unprotected, Places, Ended, Signals,
            supVars, handlerVars, terminalVars, groupVars, graceVars, historyVars
<1>1. CASE UNCHANGED supVars
  BY <1>1
<1>2. CASE Start
  BY <1>2 DEF Start, Moves
<1>3. CASE StartFails
  BY <1>3 DEF StartFails, Moves
<1>4. CASE EnterTry
  BY <1>4 DEF EnterTry, Moves
<1>5. CASE TakeTerminal
  BY <1>5 DEF TakeTerminal, Moves
<1>6. CASE SetResize
  BY <1>6 DEF SetResize, Moves
<1>7. CASE Assign
  BY <1>7 DEF Assign, Moves
<1>8. CASE SetupFails
  BY <1>8 DEF SetupFails, Moves
<1>9. CASE Waited
  BY <1>9 DEF Waited, Moves
<1>10. CASE BridgeFails
  BY <1>10 DEF BridgeFails, Moves
<1>11. CASE SetDeadline
  <2>1. handling' \in BOOLEAN /\ deadline' = "running"
    BY <1>11 DEF SetDeadline
  <2>2. UNCHANGED <<mode, place, handlerVars, terminalVars, groupVars, signals, ending,
                    escalated, raised, historyVars>>
    BY <1>11 DEF SetDeadline
  <2> QED
    BY <2>1, <2>2
<1>12. CASE EscalateIfDue
  BY <1>12 DEF EscalateIfDue, Kill
<1>13. CASE HandlersRestored
  BY <1>13 DEF HandlersRestored, Moves, AfterHandlers
<1>14. CASE RestoreResize
  BY <1>14 DEF RestoreResize, Moves, ResizeRestored
<1>15. CASE RestoreTerminal
  BY <1>15 DEF RestoreTerminal, Moves
<1>16. CASE TerminalRefuses
  BY <1>16 DEF TerminalRefuses, Moves
<1>17. CASE NothingRemains
  BY <1>17 DEF NothingRemains, Moves, Remains, Reaped
<1>18. CASE BeginTermination
  BY <1>18 DEF BeginTermination, Moves, Remains, Reaped
<1>19. CASE EndsInTime
  BY <1>19 DEF EndsInTime, Moves
<1>20. CASE KillRemaining
  BY <1>20 DEF KillRemaining, Moves, Kill
<1>21. CASE Reap
  BY <1>21 DEF Reap, Moves
<1>22. CASE InterruptStarted
  <2>1. PICK from \in Places, to \in Places : Interrupt(from, to)
    BY <1>22 DEF InterruptStarted
  <2>2. UNCHANGED <<resize, foreground, raised>>
    BY <1>22 DEF InterruptStarted
  <2> QED
    BY <2>1, <2>2, InterruptTypes
<1>23. CASE InterruptSetup
  <2>1. PICK from \in Places : Interrupt(from, "restoring")
    BY <1>23 DEF InterruptSetup, Setup
  <2>2. raised' \in BOOLEAN /\ UNCHANGED <<resize, foreground>>
    BY <1>23 DEF InterruptSetup
  <2> QED
    BY <2>1, <2>2, InterruptTypes
<1>24. CASE InterruptRestoring
  <2>1. PICK from \in Places, to \in Places : Interrupt(from, to)
    BY <1>24 DEF InterruptRestoring, AfterHandlers
  <2>2. /\ resize' \in {"none", "set", "known"} /\ foreground' \in {"own", "child"}
        /\ UNCHANGED raised
    BY <1>24 DEF InterruptRestoring, ResizeRestored
  <2> QED
    BY <2>1, <2>2, InterruptTypes
<1>25. CASE InterruptTermination
  <2>1. PICK from \in Places, to \in Places : Interrupt(from, to)
    BY <1>25 DEF InterruptTermination
  <2>2. UNCHANGED <<resize, foreground, raised>>
    BY <1>25 DEF InterruptTermination
  <2> QED
    BY <2>1, <2>2, InterruptTypes
<1>26. CASE SupervisorDies
  <2>1. place' \in Places /\ handlers' \subseteq Signals /\ handling' \in BOOLEAN
    BY <1>26 DEF SupervisorDies
  <2>2. UNCHANGED <<mode, resize, terminalVars, groupVars, signals, deadline, ending,
                    escalated, raised, historyVars>>
    BY <1>26 DEF SupervisorDies
  <2> QED
    BY <2>1, <2>2
<1>27. CASE LeaderEnds
  BY <1>27 DEF LeaderEnds
<1>28. CASE Fork
  BY <1>28 DEF Fork
<1>29. CASE OthersEnd
  <2>1. others' \in BOOLEAN
    BY <1>29 DEF OthersEnd
  <2>2. UNCHANGED <<mode, place, handlerVars, terminalVars, leader, warned, killed,
                    graceVars, raised, historyVars>>
    BY <1>29 DEF OthersEnd
  <2> QED
    BY <2>1, <2>2
<1>30. CASE GraceEnds
  BY <1>30 DEF GraceEnds
<1>31. ASSUME NEW s \in Signals, Install(s) PROVE SupTypeOK'
  BY <1>31 DEF Install, Signals, Moves
<1>32. ASSUME NEW s \in Signals, RestoreHandler(s) PROVE SupTypeOK'
  BY <1>32 DEF RestoreHandler, Signals, Moves
<1>33. ASSUME NEW s \in Signals, ForwardSignal(s) PROVE SupTypeOK'
  BY <1>33 DEF ForwardSignal, Signals, Handles
<1>34. ASSUME NEW s \in Signals, KillOnSignal(s) PROVE SupTypeOK'
  BY <1>34 DEF KillOnSignal, Signals, Handles, Kill
<1> QED
  BY <1>1, <1>2, <1>3, <1>4, <1>5, <1>6, <1>7, <1>8, <1>9, <1>10, <1>11, <1>12, <1>13,
     <1>14, <1>15, <1>16, <1>17, <1>18, <1>19, <1>20, <1>21, <1>22, <1>23, <1>24, <1>25,
     <1>26, <1>27, <1>28, <1>29, <1>30, <1>31, <1>32, <1>33, <1>34
     DEF SupNext, Runs, Disturbed, GroupStep

\* Every step keeps what holds of the handlers.
LEMMA HandlersStep == SupInv /\ [SupNext]_supVars => HandlersInv'
<1> SUFFICES ASSUME SupInv, [SupNext]_supVars PROVE HandlersInv'
  OBVIOUS
<1> USE SignalsAssumption
        DEF SupInv, SupTypeOK, HandlersInv, ChildInv, Clearing, Ended, Exposed,
            Signals, GroupExists,
            supVars, handlerVars, terminalVars, groupVars, graceVars, historyVars
<1>1. CASE UNCHANGED supVars
  BY <1>1
<1>2. CASE Start
  BY <1>2 DEF Start, Moves
<1>3. CASE StartFails
  BY <1>3 DEF StartFails, Moves
<1>4. CASE EnterTry
  BY <1>4 DEF EnterTry, Moves
<1>5. CASE TakeTerminal
  BY <1>5 DEF TakeTerminal, Moves
<1>6. CASE SetResize
  BY <1>6 DEF SetResize, Moves
<1>7. CASE Assign
  BY <1>7 DEF Assign, Moves
<1>8. CASE SetupFails
  BY <1>8 DEF SetupFails, Moves
<1>9. CASE Waited
  BY <1>9 DEF Waited, Moves
<1>10. CASE BridgeFails
  BY <1>10 DEF BridgeFails, Moves
<1>11. CASE SetDeadline
  BY <1>11 DEF SetDeadline
<1>12. CASE EscalateIfDue
  BY <1>12 DEF EscalateIfDue, Kill
<1>13. CASE HandlersRestored
  BY <1>13 DEF HandlersRestored, Moves, AfterHandlers
<1>14. CASE RestoreResize
  BY <1>14 DEF RestoreResize, Moves, ResizeRestored
<1>15. CASE RestoreTerminal
  BY <1>15 DEF RestoreTerminal, Moves
<1>16. CASE TerminalRefuses
  BY <1>16 DEF TerminalRefuses, Moves
<1>17. CASE NothingRemains
  BY <1>17 DEF NothingRemains, Moves, Remains, Reaped
<1>18. CASE BeginTermination
  BY <1>18 DEF BeginTermination, Moves, Remains, Reaped
<1>19. CASE EndsInTime
  BY <1>19 DEF EndsInTime, Moves
<1>20. CASE KillRemaining
  BY <1>20 DEF KillRemaining, Moves, Kill
<1>21. CASE Reap
  BY <1>21 DEF Reap, Moves
<1>22. CASE InterruptStarted
  BY <1>22 DEF InterruptStarted, Interrupt
<1>23. CASE InterruptSetup
  BY <1>23 DEF InterruptSetup, Interrupt, Setup
<1>24. CASE InterruptRestoring
  BY <1>24 DEF InterruptRestoring, Interrupt, AfterHandlers, ResizeRestored
<1>25. CASE InterruptTermination
  BY <1>25 DEF InterruptTermination, Interrupt
<1>26. CASE SupervisorDies
  BY <1>26 DEF SupervisorDies
<1>27. CASE LeaderEnds
  BY <1>27 DEF LeaderEnds
<1>28. CASE Fork
  BY <1>28 DEF Fork
<1>29. CASE OthersEnd
  BY <1>29 DEF OthersEnd
<1>30. CASE GraceEnds
  BY <1>30 DEF GraceEnds
<1>31. ASSUME NEW s \in Signals, Install(s) PROVE HandlersInv'
  BY <1>31 DEF Install, Signals, Moves
<1>32. ASSUME NEW s \in Signals, RestoreHandler(s) PROVE HandlersInv'
  BY <1>32 DEF RestoreHandler, Signals, Moves
<1>33. ASSUME NEW s \in Signals, ForwardSignal(s) PROVE HandlersInv'
  <2>1. /\ handlers' = handlers /\ place' = place /\ interrupted' = interrupted
        /\ s \in handlers /\ place \notin Ended
    BY <1>33 DEF ForwardSignal, Handles
  <2>2. signals' >= 1
    BY <1>33 DEF ForwardSignal
  <2>3. warned' \/ ~GroupExists'
    <3> HIDE DEF SupInv, SupTypeOK, HandlersInv, ChildInv
    <3>1. warned' = (warned \/ GroupExists) /\ UNCHANGED <<leader, others>>
      BY <1>33 DEF ForwardSignal
    <3> QED
      BY <3>1
  <2> QED
    BY <2>1, <2>2, <2>3
<1>34. ASSUME NEW s \in Signals, KillOnSignal(s) PROVE HandlersInv'
  BY <1>34 DEF KillOnSignal, Signals, Handles, Kill
<1> QED
  BY <1>1, <1>2, <1>3, <1>4, <1>5, <1>6, <1>7, <1>8, <1>9, <1>10, <1>11, <1>12, <1>13,
     <1>14, <1>15, <1>16, <1>17, <1>18, <1>19, <1>20, <1>21, <1>22, <1>23, <1>24, <1>25,
     <1>26, <1>27, <1>28, <1>29, <1>30, <1>31, <1>32, <1>33, <1>34
     DEF SupNext, Runs, Disturbed, GroupStep

\* Every step keeps what holds without a child.
LEMMA ChildStep == SupInv /\ [SupNext]_supVars => ChildInv'
<1> SUFFICES ASSUME SupInv, [SupNext]_supVars PROVE ChildInv'
  OBVIOUS
<1> USE SignalsAssumption
        DEF SupInv, SupTypeOK, ChildInv, HandlersInv, Ended,
            supVars, handlerVars, terminalVars, groupVars, graceVars, historyVars
<1>1. CASE UNCHANGED supVars
  BY <1>1
<1>2. CASE Start
  BY <1>2 DEF Start, Moves
<1>3. CASE StartFails
  BY <1>3 DEF StartFails, Moves
<1>4. CASE EnterTry
  BY <1>4 DEF EnterTry, Moves
<1>5. CASE TakeTerminal
  BY <1>5 DEF TakeTerminal, Moves
<1>6. CASE SetResize
  BY <1>6 DEF SetResize, Moves
<1>7. CASE Assign
  BY <1>7 DEF Assign, Moves
<1>8. CASE SetupFails
  BY <1>8 DEF SetupFails, Moves
<1>9. CASE Waited
  BY <1>9 DEF Waited, Moves
<1>10. CASE BridgeFails
  BY <1>10 DEF BridgeFails, Moves
<1>11. CASE SetDeadline
  BY <1>11 DEF SetDeadline
<1>12. CASE EscalateIfDue
  BY <1>12 DEF EscalateIfDue, Kill
<1>13. CASE HandlersRestored
  BY <1>13 DEF HandlersRestored, Moves, AfterHandlers
<1>14. CASE RestoreResize
  BY <1>14 DEF RestoreResize, Moves, ResizeRestored
<1>15. CASE RestoreTerminal
  BY <1>15 DEF RestoreTerminal, Moves
<1>16. CASE TerminalRefuses
  BY <1>16 DEF TerminalRefuses, Moves
<1>17. CASE NothingRemains
  BY <1>17 DEF NothingRemains, Moves, Remains, Reaped
<1>18. CASE BeginTermination
  BY <1>18 DEF BeginTermination, Moves, Remains, Reaped
<1>19. CASE EndsInTime
  BY <1>19 DEF EndsInTime, Moves
<1>20. CASE KillRemaining
  BY <1>20 DEF KillRemaining, Moves, Kill
<1>21. CASE Reap
  BY <1>21 DEF Reap, Moves
<1>22. CASE InterruptStarted
  BY <1>22 DEF InterruptStarted, Interrupt
<1>23. CASE InterruptSetup
  BY <1>23 DEF InterruptSetup, Interrupt, Setup
<1>24. CASE InterruptRestoring
  BY <1>24 DEF InterruptRestoring, Interrupt, AfterHandlers, ResizeRestored
<1>25. CASE InterruptTermination
  BY <1>25 DEF InterruptTermination, Interrupt
<1>26. CASE SupervisorDies
  BY <1>26 DEF SupervisorDies
<1>27. CASE LeaderEnds
  BY <1>27 DEF LeaderEnds
<1>28. CASE Fork
  BY <1>28 DEF Fork
<1>29. CASE OthersEnd
  BY <1>29 DEF OthersEnd
<1>30. CASE GraceEnds
  BY <1>30 DEF GraceEnds
<1>31. ASSUME NEW s \in Signals, Install(s) PROVE ChildInv'
  BY <1>31 DEF Install, Signals, Moves
<1>32. ASSUME NEW s \in Signals, RestoreHandler(s) PROVE ChildInv'
  BY <1>32 DEF RestoreHandler, Signals, Moves
<1>33. ASSUME NEW s \in Signals, ForwardSignal(s) PROVE ChildInv'
  BY <1>33 DEF ForwardSignal, Signals, Handles
<1>34. ASSUME NEW s \in Signals, KillOnSignal(s) PROVE ChildInv'
  BY <1>34 DEF KillOnSignal, Signals, Handles, Kill
<1> QED
  BY <1>1, <1>2, <1>3, <1>4, <1>5, <1>6, <1>7, <1>8, <1>9, <1>10, <1>11, <1>12, <1>13,
     <1>14, <1>15, <1>16, <1>17, <1>18, <1>19, <1>20, <1>21, <1>22, <1>23, <1>24, <1>25,
     <1>26, <1>27, <1>28, <1>29, <1>30, <1>31, <1>32, <1>33, <1>34
     DEF SupNext, Runs, Disturbed, GroupStep

\* Every step keeps what holds of the grace.
LEMMA GraceStep == SupInv /\ [SupNext]_supVars => GraceInv'
<1> SUFFICES ASSUME SupInv, [SupNext]_supVars PROVE GraceInv'
  OBVIOUS
<1> USE SignalsAssumption
        DEF SupInv, SupTypeOK, GraceInv, HandlersInv, ChildInv, GroupExists, Ended,
            supVars, handlerVars, terminalVars, groupVars, graceVars, historyVars
<1>1. CASE UNCHANGED supVars
  BY <1>1
<1>2. CASE Start
  BY <1>2 DEF Start, Moves
<1>3. CASE StartFails
  BY <1>3 DEF StartFails, Moves
<1>4. CASE EnterTry
  BY <1>4 DEF EnterTry, Moves
<1>5. CASE TakeTerminal
  BY <1>5 DEF TakeTerminal, Moves
<1>6. CASE SetResize
  BY <1>6 DEF SetResize, Moves
<1>7. CASE Assign
  BY <1>7 DEF Assign, Moves
<1>8. CASE SetupFails
  BY <1>8 DEF SetupFails, Moves
<1>9. CASE Waited
  BY <1>9 DEF Waited, Moves
<1>10. CASE BridgeFails
  BY <1>10 DEF BridgeFails, Moves
<1>11. CASE SetDeadline
  BY <1>11 DEF SetDeadline
<1>12. CASE EscalateIfDue
  BY <1>12 DEF EscalateIfDue, Kill
<1>13. CASE HandlersRestored
  BY <1>13 DEF HandlersRestored, Moves, AfterHandlers
<1>14. CASE RestoreResize
  BY <1>14 DEF RestoreResize, Moves, ResizeRestored
<1>15. CASE RestoreTerminal
  BY <1>15 DEF RestoreTerminal, Moves
<1>16. CASE TerminalRefuses
  BY <1>16 DEF TerminalRefuses, Moves
<1>17. CASE NothingRemains
  BY <1>17 DEF NothingRemains, Moves, Remains, Reaped
<1>18. CASE BeginTermination
  BY <1>18 DEF BeginTermination, Moves, Remains, Reaped
<1>19. CASE EndsInTime
  BY <1>19 DEF EndsInTime, Moves
<1>20. CASE KillRemaining
  BY <1>20 DEF KillRemaining, Moves, Kill
<1>21. CASE Reap
  BY <1>21 DEF Reap, Moves
<1>22. CASE InterruptStarted
  BY <1>22 DEF InterruptStarted, Interrupt
<1>23. CASE InterruptSetup
  BY <1>23 DEF InterruptSetup, Interrupt, Setup
<1>24. CASE InterruptRestoring
  BY <1>24 DEF InterruptRestoring, Interrupt, AfterHandlers, ResizeRestored
<1>25. CASE InterruptTermination
  BY <1>25 DEF InterruptTermination, Interrupt
<1>26. CASE SupervisorDies
  BY <1>26 DEF SupervisorDies
<1>27. CASE LeaderEnds
  BY <1>27 DEF LeaderEnds
<1>28. CASE Fork
  BY <1>28 DEF Fork
<1>29. CASE OthersEnd
  BY <1>29 DEF OthersEnd
<1>30. CASE GraceEnds
  BY <1>30 DEF GraceEnds
<1>31. ASSUME NEW s \in Signals, Install(s) PROVE GraceInv'
  BY <1>31 DEF Install, Signals, Moves
<1>32. ASSUME NEW s \in Signals, RestoreHandler(s) PROVE GraceInv'
  BY <1>32 DEF RestoreHandler, Signals, Moves
<1>33. ASSUME NEW s \in Signals, ForwardSignal(s) PROVE GraceInv'
  BY <1>33 DEF ForwardSignal, Signals, Handles
<1>34. ASSUME NEW s \in Signals, KillOnSignal(s) PROVE GraceInv'
  BY <1>34 DEF KillOnSignal, Signals, Handles, Kill
<1> QED
  BY <1>1, <1>2, <1>3, <1>4, <1>5, <1>6, <1>7, <1>8, <1>9, <1>10, <1>11, <1>12, <1>13,
     <1>14, <1>15, <1>16, <1>17, <1>18, <1>19, <1>20, <1>21, <1>22, <1>23, <1>24, <1>25,
     <1>26, <1>27, <1>28, <1>29, <1>30, <1>31, <1>32, <1>33, <1>34
     DEF SupNext, Runs, Disturbed, GroupStep

\* Every step keeps what holds at the end.
LEMMA EndStep == SupInv /\ [SupNext]_supVars => EndInv'
<1> SUFFICES ASSUME SupInv, [SupNext]_supVars PROVE EndInv'
  OBVIOUS
<1> USE SignalsAssumption
        DEF SupInv, SupTypeOK, EndInv, GroupIsOver, ChildInv, HandlersInv, Working,
            GroupExists, Unprotected, Exposed, Ended,
            supVars, handlerVars, terminalVars, groupVars, graceVars, historyVars
<1>1. CASE UNCHANGED supVars
  BY <1>1
<1>2. CASE Start
  BY <1>2 DEF Start, Moves
<1>3. CASE StartFails
  BY <1>3 DEF StartFails, Moves
<1>4. CASE EnterTry
  BY <1>4 DEF EnterTry, Moves
<1>5. CASE TakeTerminal
  BY <1>5 DEF TakeTerminal, Moves
<1>6. CASE SetResize
  BY <1>6 DEF SetResize, Moves
<1>7. CASE Assign
  BY <1>7 DEF Assign, Moves
<1>8. CASE SetupFails
  BY <1>8 DEF SetupFails, Moves
<1>9. CASE Waited
  BY <1>9 DEF Waited, Moves
<1>10. CASE BridgeFails
  BY <1>10 DEF BridgeFails, Moves
<1>11. CASE SetDeadline
  BY <1>11 DEF SetDeadline
<1>12. CASE EscalateIfDue
  BY <1>12 DEF EscalateIfDue, Kill
<1>13. CASE HandlersRestored
  BY <1>13 DEF HandlersRestored, Moves, AfterHandlers
<1>14. CASE RestoreResize
  BY <1>14 DEF RestoreResize, Moves, ResizeRestored
<1>15. CASE RestoreTerminal
  BY <1>15 DEF RestoreTerminal, Moves
<1>16. CASE TerminalRefuses
  BY <1>16 DEF TerminalRefuses, Moves
<1>17. CASE NothingRemains
  BY <1>17 DEF NothingRemains, Moves, Remains, Reaped
<1>18. CASE BeginTermination
  BY <1>18 DEF BeginTermination, Moves, Remains, Reaped
<1>19. CASE EndsInTime
  BY <1>19 DEF EndsInTime, Moves
<1>20. CASE KillRemaining
  BY <1>20 DEF KillRemaining, Moves, Kill
<1>21. CASE Reap
  BY <1>21 DEF Reap, Moves
<1>22. CASE InterruptStarted
  BY <1>22 DEF InterruptStarted, Interrupt
<1>23. CASE InterruptSetup
  BY <1>23 DEF InterruptSetup, Interrupt, Setup
<1>24. CASE InterruptRestoring
  BY <1>24 DEF InterruptRestoring, Interrupt, AfterHandlers, ResizeRestored
<1>25. CASE InterruptTermination
  BY <1>25 DEF InterruptTermination, Interrupt
<1>26. CASE SupervisorDies
  BY <1>26 DEF SupervisorDies
<1>27. CASE LeaderEnds
  BY <1>27 DEF LeaderEnds
<1>28. CASE Fork
  BY <1>28 DEF Fork
<1>29. CASE OthersEnd
  BY <1>29 DEF OthersEnd
<1>30. CASE GraceEnds
  BY <1>30 DEF GraceEnds
<1>31. ASSUME NEW s \in Signals, Install(s) PROVE EndInv'
  BY <1>31 DEF Install, Signals, Moves
<1>32. ASSUME NEW s \in Signals, RestoreHandler(s) PROVE EndInv'
  BY <1>32 DEF RestoreHandler, Signals, Moves
<1>33. ASSUME NEW s \in Signals, ForwardSignal(s) PROVE EndInv'
  BY <1>33 DEF ForwardSignal, Signals, Handles
<1>34. ASSUME NEW s \in Signals, KillOnSignal(s) PROVE EndInv'
  BY <1>34 DEF KillOnSignal, Signals, Handles, Kill
<1> QED
  BY <1>1, <1>2, <1>3, <1>4, <1>5, <1>6, <1>7, <1>8, <1>9, <1>10, <1>11, <1>12, <1>13,
     <1>14, <1>15, <1>16, <1>17, <1>18, <1>19, <1>20, <1>21, <1>22, <1>23, <1>24, <1>25,
     <1>26, <1>27, <1>28, <1>29, <1>30, <1>31, <1>32, <1>33, <1>34
     DEF SupNext, Runs, Disturbed, GroupStep

\* Every step keeps what holds of the terminal.
LEMMA TerminalStep == SupInv /\ [SupNext]_supVars => TerminalInv'
<1> SUFFICES ASSUME SupInv, [SupNext]_supVars PROVE TerminalInv'
  OBVIOUS
<1> USE SignalsAssumption
        DEF SupInv, SupTypeOK, TerminalInv, ChildInv, Ended, Exposed, Modes,
            supVars, handlerVars, terminalVars, groupVars, graceVars, historyVars
<1>1. CASE UNCHANGED supVars
  BY <1>1
<1>2. CASE Start
  BY <1>2 DEF Start, Moves
<1>3. CASE StartFails
  BY <1>3 DEF StartFails, Moves
<1>4. CASE EnterTry
  BY <1>4 DEF EnterTry, Moves
<1>5. CASE TakeTerminal
  BY <1>5 DEF TakeTerminal, Moves
<1>6. CASE SetResize
  BY <1>6 DEF SetResize, Moves
<1>7. CASE Assign
  BY <1>7 DEF Assign, Moves
<1>8. CASE SetupFails
  BY <1>8 DEF SetupFails, Moves
<1>9. CASE Waited
  BY <1>9 DEF Waited, Moves
<1>10. CASE BridgeFails
  BY <1>10 DEF BridgeFails, Moves
<1>11. CASE SetDeadline
  BY <1>11 DEF SetDeadline
<1>12. CASE EscalateIfDue
  BY <1>12 DEF EscalateIfDue, Kill
<1>13. CASE HandlersRestored
  BY <1>13 DEF HandlersRestored, Moves, AfterHandlers
<1>14. CASE RestoreResize
  BY <1>14 DEF RestoreResize, Moves, ResizeRestored
<1>15. CASE RestoreTerminal
  BY <1>15 DEF RestoreTerminal, Moves
<1>16. CASE TerminalRefuses
  BY <1>16 DEF TerminalRefuses, Moves
<1>17. CASE NothingRemains
  BY <1>17 DEF NothingRemains, Moves, Remains, Reaped
<1>18. CASE BeginTermination
  BY <1>18 DEF BeginTermination, Moves, Remains, Reaped
<1>19. CASE EndsInTime
  BY <1>19 DEF EndsInTime, Moves
<1>20. CASE KillRemaining
  BY <1>20 DEF KillRemaining, Moves, Kill
<1>21. CASE Reap
  BY <1>21 DEF Reap, Moves
<1>22. CASE InterruptStarted
  BY <1>22 DEF InterruptStarted, Interrupt
<1>23. CASE InterruptSetup
  BY <1>23 DEF InterruptSetup, Interrupt, Setup
<1>24. CASE InterruptRestoring
  BY <1>24 DEF InterruptRestoring, Interrupt, AfterHandlers, ResizeRestored
<1>25. CASE InterruptTermination
  BY <1>25 DEF InterruptTermination, Interrupt
<1>26. CASE SupervisorDies
  BY <1>26 DEF SupervisorDies
<1>27. CASE LeaderEnds
  BY <1>27 DEF LeaderEnds
<1>28. CASE Fork
  BY <1>28 DEF Fork
<1>29. CASE OthersEnd
  BY <1>29 DEF OthersEnd
<1>30. CASE GraceEnds
  BY <1>30 DEF GraceEnds
<1>31. ASSUME NEW s \in Signals, Install(s) PROVE TerminalInv'
  BY <1>31 DEF Install, Signals, Moves
<1>32. ASSUME NEW s \in Signals, RestoreHandler(s) PROVE TerminalInv'
  BY <1>32 DEF RestoreHandler, Signals, Moves
<1>33. ASSUME NEW s \in Signals, ForwardSignal(s) PROVE TerminalInv'
  BY <1>33 DEF ForwardSignal, Signals, Handles
<1>34. ASSUME NEW s \in Signals, KillOnSignal(s) PROVE TerminalInv'
  BY <1>34 DEF KillOnSignal, Signals, Handles, Kill
<1> QED
  BY <1>1, <1>2, <1>3, <1>4, <1>5, <1>6, <1>7, <1>8, <1>9, <1>10, <1>11, <1>12, <1>13,
     <1>14, <1>15, <1>16, <1>17, <1>18, <1>19, <1>20, <1>21, <1>22, <1>23, <1>24, <1>25,
     <1>26, <1>27, <1>28, <1>29, <1>30, <1>31, <1>32, <1>33, <1>34
     DEF SupNext, Runs, Disturbed, GroupStep

\* Every step keeps what holds of the window's size.
LEMMA ResizeStep == SupInv /\ [SupNext]_supVars => ResizeInv'
<1> SUFFICES ASSUME SupInv, [SupNext]_supVars PROVE ResizeInv'
  OBVIOUS
<1> USE SignalsAssumption
        DEF SupInv, SupTypeOK, ResizeInv, Clearing, Ended, Exposed, Modes,
            supVars, handlerVars, terminalVars, groupVars, graceVars, historyVars
<1>1. CASE UNCHANGED supVars
  BY <1>1
<1>2. CASE Start
  BY <1>2 DEF Start, Moves
<1>3. CASE StartFails
  BY <1>3 DEF StartFails, Moves
<1>4. CASE EnterTry
  BY <1>4 DEF EnterTry, Moves
<1>5. CASE TakeTerminal
  BY <1>5 DEF TakeTerminal, Moves
<1>6. CASE SetResize
  BY <1>6 DEF SetResize, Moves
<1>7. CASE Assign
  BY <1>7 DEF Assign, Moves
<1>8. CASE SetupFails
  BY <1>8 DEF SetupFails, Moves
<1>9. CASE Waited
  BY <1>9 DEF Waited, Moves
<1>10. CASE BridgeFails
  BY <1>10 DEF BridgeFails, Moves
<1>11. CASE SetDeadline
  BY <1>11 DEF SetDeadline
<1>12. CASE EscalateIfDue
  BY <1>12 DEF EscalateIfDue, Kill
<1>13. CASE HandlersRestored
  BY <1>13 DEF HandlersRestored, Moves, AfterHandlers
<1>14. CASE RestoreResize
  BY <1>14 DEF RestoreResize, Moves, ResizeRestored
<1>15. CASE RestoreTerminal
  BY <1>15 DEF RestoreTerminal, Moves
<1>16. CASE TerminalRefuses
  BY <1>16 DEF TerminalRefuses, Moves
<1>17. CASE NothingRemains
  BY <1>17 DEF NothingRemains, Moves, Remains, Reaped
<1>18. CASE BeginTermination
  BY <1>18 DEF BeginTermination, Moves, Remains, Reaped
<1>19. CASE EndsInTime
  BY <1>19 DEF EndsInTime, Moves
<1>20. CASE KillRemaining
  BY <1>20 DEF KillRemaining, Moves, Kill
<1>21. CASE Reap
  BY <1>21 DEF Reap, Moves
<1>22. CASE InterruptStarted
  BY <1>22 DEF InterruptStarted, Interrupt
<1>23. CASE InterruptSetup
  BY <1>23 DEF InterruptSetup, Interrupt, Setup
<1>24. CASE InterruptRestoring
  BY <1>24 DEF InterruptRestoring, Interrupt, AfterHandlers, ResizeRestored
<1>25. CASE InterruptTermination
  BY <1>25 DEF InterruptTermination, Interrupt
<1>26. CASE SupervisorDies
  BY <1>26 DEF SupervisorDies
<1>27. CASE LeaderEnds
  BY <1>27 DEF LeaderEnds
<1>28. CASE Fork
  BY <1>28 DEF Fork
<1>29. CASE OthersEnd
  BY <1>29 DEF OthersEnd
<1>30. CASE GraceEnds
  BY <1>30 DEF GraceEnds
<1>31. ASSUME NEW s \in Signals, Install(s) PROVE ResizeInv'
  BY <1>31 DEF Install, Signals, Moves
<1>32. ASSUME NEW s \in Signals, RestoreHandler(s) PROVE ResizeInv'
  BY <1>32 DEF RestoreHandler, Signals, Moves
<1>33. ASSUME NEW s \in Signals, ForwardSignal(s) PROVE ResizeInv'
  BY <1>33 DEF ForwardSignal, Signals, Handles
<1>34. ASSUME NEW s \in Signals, KillOnSignal(s) PROVE ResizeInv'
  BY <1>34 DEF KillOnSignal, Signals, Handles, Kill
<1> QED
  BY <1>1, <1>2, <1>3, <1>4, <1>5, <1>6, <1>7, <1>8, <1>9, <1>10, <1>11, <1>12, <1>13,
     <1>14, <1>15, <1>16, <1>17, <1>18, <1>19, <1>20, <1>21, <1>22, <1>23, <1>24, <1>25,
     <1>26, <1>27, <1>28, <1>29, <1>30, <1>31, <1>32, <1>33, <1>34
     DEF SupNext, Runs, Disturbed, GroupStep

\* The invariant is inductive.
LEMMA InvStep == SupInv /\ [SupNext]_supVars => SupInv'
BY TypeStep, HandlersStep, ChildStep, GraceStep, EndStep, TerminalStep, ResizeStep DEF SupInv

\* In the beginning there is neither a child nor a handler.
LEMMA InvInit == SupInit => SupInv
<1> SUFFICES ASSUME SupInit PROVE SupInv
  OBVIOUS
<1>1. SupTypeOK
  <2>1. /\ saved \in BOOLEAN /\ others \in BOOLEAN /\ warned \in BOOLEAN /\ killed \in BOOLEAN
        /\ refused \in BOOLEAN /\ handling \in BOOLEAN /\ escalated \in BOOLEAN /\ raised \in BOOLEAN
    BY DEF SupInit
  <2>2. signals \in 0..MaxSignals
    BY SignalsAssumption DEF SupInit
  <2> QED
    BY <2>1, <2>2 DEF SupInit, SupTypeOK, Places
<1>2. ~GroupExists /\ ~Working
  BY DEF SupInit, GroupExists, Working
<1>3. HandlersInv /\ ChildInv /\ GraceInv /\ EndInv /\ TerminalInv /\ ResizeInv
  BY <1>2 DEF SupInit, HandlersInv, ChildInv, GraceInv, EndInv, TerminalInv, ResizeInv,
              Clearing, GroupIsOver, Ended
<1> QED
  BY <1>1, <1>3 DEF SupInv

-----------------------------------------------------------------------------
(* The supervisor: its theorems *)

\* The invariant holds at every moment of a call, however many signals come.
THEOREM SupervisorInvariance == SupSpec => []SupInv
BY InvInit, InvStep, PTL DEF SupSpec

\* A call is left with its child running only by a KeyboardInterrupt before
\* the try, or in the last finally clause.
THEOREM LeftGroupIsOver == SupSpec => []GroupIsOver
<1>1. SupInv => GroupIsOver
  BY DEF SupInv, EndInv
<1> QED
  BY <1>1, SupervisorInvariance, PTL

\* A call that was left has put back the handlers and the terminal, except for
\* what a KeyboardInterrupt cut off between two of its steps or the system
\* refused; SIGINT's handler is put back on every path.
THEOREM LeftTerminalIsOwn == SupSpec => []TerminalGivenBack
<1>1. SupInv => TerminalGivenBack
  BY DEF SupInv, SupTypeOK, HandlersInv, TerminalInv, ResizeInv, Clearing, TerminalGivenBack
<1> QED
  BY <1>1, SupervisorInvariance, PTL

\* Every step that kills the group follows a warning, and the end of the grace
\* or a second signal.
LEMMA KillStep ==
  SupInv /\ [SupNext]_supVars =>
    ((killed' /\ ~killed) => warned /\ (GraceIsOver \/ signals' >= 2))
<1> SUFFICES ASSUME SupInv, [SupNext]_supVars, killed', ~killed
             PROVE  warned /\ (GraceIsOver \/ signals' >= 2)
  OBVIOUS
<1>1. (\E s \in Signals : KillOnSignal(s)) \/ EscalateIfDue \/ KillRemaining
  <2>1. SUFFICES ASSUME [SupNext]_supVars, ~EscalateIfDue, ~KillRemaining,
                        ~(\E s \in Signals : KillOnSignal(s))
                 PROVE  UNCHANGED killed
    OBVIOUS
  <2> USE DEF groupVars
  <2>2. CASE Disturbed
    BY <2>1, <2>2 DEF Disturbed, SetupFails, BridgeFails, TerminalRefuses, ForwardSignal,
         InterruptStarted, InterruptSetup, InterruptRestoring, InterruptTermination, Interrupt
  <2>3. CASE Runs
    BY <2>1, <2>3 DEF Runs, EnterTry, TakeTerminal, SetResize, Assign, Install,
         RestoreHandler, SetDeadline, Waited, HandlersRestored, RestoreResize,
         RestoreTerminal, NothingRemains, BeginTermination, EndsInTime, Reap
  <2>4. CASE Start \/ StartFails \/ SupervisorDies \/ GroupStep \/ UNCHANGED supVars
    BY <2>4 DEF Start, StartFails, SupervisorDies, GroupStep, LeaderEnds, Fork, OthersEnd,
         GraceEnds, supVars
  <2> QED
    BY <2>1, <2>2, <2>3, <2>4 DEF SupNext
<1>2. (deadline # "none" \/ ending # "none") /\ killed' = (killed \/ GroupExists)
  BY <1>1 DEF KillOnSignal, EscalateIfDue, KillRemaining, Kill
<1>3. warned
  BY <1>2 DEF SupInv, GraceInv
<1>4. GraceIsOver \/ signals' >= 2
  <2>1. CASE EscalateIfDue \/ KillRemaining
    BY <2>1 DEF EscalateIfDue, KillRemaining, GraceIsOver
  <2>2. ASSUME NEW s \in Signals, KillOnSignal(s) PROVE signals' >= 2
    <3>1. deadline # "none" /\ signals' = signals + 1 /\ signals \in Nat
      BY <2>2, SignalsAssumption DEF KillOnSignal, SupInv, SupTypeOK
    <3>2. signals >= 1
      BY <3>1 DEF SupInv, GraceInv
    <3> QED
      BY <3>1, <3>2
  <2> QED
    BY <1>1, <2>1, <2>2
<1> QED
  BY <1>3, <1>4

\* No path kills a group that was not asked to end, or before its grace is over
\* or a second signal has come.
THEOREM KillsAreEarned == SupSpec => KillIsEarned
<1>1. [][(killed' /\ ~killed) => warned /\ (GraceIsOver \/ signals' >= 2)]_supVars
      <=> KillIsEarned
  BY DEF KillIsEarned
<1> QED
  BY <1>1, KillStep, SupervisorInvariance, PTL DEF SupSpec

-----------------------------------------------------------------------------
(* Exec: its invariant *)

Preparing == {"asked", "resolved", "planned", "ready"}

LaunchTypeOK ==
  /\ phase \in Preparing \cup {"refused", "launched"}
  /\ life \in [Sessions -> {"new", "held", "closing", "left", "gone"}]
  /\ kept \in [Sessions -> SUBSET Files]

\* The supervised call begins with the launch, in a session that is complete
\* and that its owner holds until the call is over.
LaunchInv ==
  /\ place = "idle" <=> phase # "launched"
  /\ phase \in Preparing => life[Own] \in {"new", "held"}
  /\ life[Own] = "new" => kept[Own] = {}
  /\ phase \in {"planned", "ready"} => "marker" \in kept[Own]
  /\ (phase = "planned" /\ request.client \notin Clients) => "material" \in kept[Own]
  /\ phase = "ready" => "material" \in kept[Own]
  /\ Supervising => life[Own] = "held" /\ kept[Own] = Files

ExecInv == SupInv /\ LaunchTypeOK /\ LaunchInv

-----------------------------------------------------------------------------
(* Every exec is a run of the supervisor *)

\* Every step of Exec is a step of the supervisor, or leaves it alone.
LEMMA StepSupervises == [Next]_vars => [SupNext]_supVars
<1> SUFFICES ASSUME [Next]_vars PROVE [SupNext]_supVars
  OBVIOUS
<1>1. CASE UNCHANGED vars
  BY <1>1 DEF vars
<1>2. CASE StartChild
  BY <1>2 DEF StartChild, SupNext
<1>3. CASE Supervise
  BY <1>3 DEF Supervise, SupNext
<1>4. CASE ProcessDies
  BY <1>4 DEF ProcessDies, SupNext
<1>5. CASE Resolve \/ MakeSession \/ Plan \/ PrepareClient \/ PrepareOther \/ Refuse
             \/ Close \/ DiesElsewhere \/ Delete
  <2>1. UNCHANGED supVars
    BY <1>5 DEF Resolve, MakeSession, Plan, PrepareClient, PrepareOther, Refuse, Close,
                DiesElsewhere, Delete
  <2> QED
    BY <2>1
<1> QED
  BY <1>1, <1>2, <1>3, <1>4, <1>5 DEF Next

\* run_profile_session adds nothing to what run_supervised_process may do: the
\* theorems about the supervisor are theorems about exec.
THEOREM ExecSupervises == Spec => SupSpec
<1>1. Init => SupInit
  BY DEF Init
<1> QED
  BY <1>1, StepSupervises, PTL DEF Spec, SupSpec

-----------------------------------------------------------------------------
(* Exec: its invariant is inductive *)

\* Every step keeps the types.
LEMMA LaunchTypeStep == ExecInv /\ [Next]_vars => LaunchTypeOK'
<1> SUFFICES ASSUME ExecInv, [Next]_vars PROVE LaunchTypeOK'
  OBVIOUS
<1>0. LaunchTypeOK
  BY DEF ExecInv
<1> USE DEF LaunchTypeOK, Preparing, Sessions, Files, storeVars, launchVars
<1>1. CASE UNCHANGED vars
  BY <1>0, <1>1 DEF vars
<1>2. CASE Resolve \/ PrepareOther \/ Refuse
  BY <1>0, <1>2 DEF Resolve, PrepareOther, Refuse, Passes
<1>3. CASE MakeSession
  BY <1>0, <1>3 DEF MakeSession, Store!Make, Store!Becomes, Store!Write
<1>4. CASE Plan
  BY <1>0, <1>4 DEF Plan, Passes, Store!Write
<1>5. CASE PrepareClient
  <2>1. Passes("planned", "ready") /\ Store!Write(Own, "material")
    BY <1>5 DEF PrepareClient
  <2> QED
    BY <1>0, <2>1 DEF Passes, Store!Write
<1>6. CASE StartChild \/ Supervise
  BY <1>0, <1>6 DEF StartChild, Supervise
<1>7. CASE ProcessDies
  BY <1>0, <1>7 DEF ProcessDies, Store!Abandon, Store!Becomes
<1>8. CASE Close \/ DiesElsewhere
  BY <1>0, <1>8 DEF Close, DiesElsewhere, Store!Leave, Store!Abandon, Store!Becomes
<1>9. CASE Delete
  BY <1>0, <1>9 DEF Delete, Store!Remove, Store!Becomes, Store!Delete
<1> QED
  BY <1>1, <1>2, <1>3, <1>4, <1>5, <1>6, <1>7, <1>8, <1>9 DEF Next

\* A step of the running supervisor stays in the call or ends it.
LEMMA SuperviseStays ==
  ASSUME SupInv, Runs \/ Disturbed \/ GroupStep, place # "idle"
  PROVE  place' # "idle" /\ (Supervising' => Supervising)
<1>1. place' # "idle"
  BY DEF AfterHandlers, Runs, Disturbed, GroupStep, Moves, Interrupt,
       EnterTry, TakeTerminal, SetResize, Assign, Install, SetupFails, ForwardSignal,
       SetDeadline, KillOnSignal, EscalateIfDue, Waited, BridgeFails, RestoreHandler,
       HandlersRestored, RestoreResize, RestoreTerminal, TerminalRefuses, NothingRemains,
       BeginTermination, EndsInTime, KillRemaining, Reap, InterruptStarted, InterruptSetup,
       InterruptRestoring, InterruptTermination, LeaderEnds, Fork, OthersEnd, GraceEnds
<1>2. ~handling \/ place \notin Ended
  BY DEF SupInv, HandlersInv
<1>3. place \in Ended => place' = place
  BY <1>2
     DEF Ended, Setup, Runs, Disturbed, GroupStep, Moves, Interrupt, Handles,
       EnterTry, TakeTerminal, SetResize, Assign, Install, SetupFails, ForwardSignal,
       SetDeadline, KillOnSignal, EscalateIfDue, Waited, BridgeFails, RestoreHandler,
       HandlersRestored, RestoreResize, RestoreTerminal, TerminalRefuses, NothingRemains,
       BeginTermination, EndsInTime, KillRemaining, Reap, InterruptStarted, InterruptSetup,
       InterruptRestoring, InterruptTermination, LeaderEnds, Fork, OthersEnd, GraceEnds
<1> QED
  BY <1>1, <1>3 DEF Supervising

\* Before the launch there is nothing to supervise.
LEMMA IdleIsIdle ==
  ASSUME SupInv, Runs \/ Disturbed \/ GroupStep, place = "idle"
  PROVE  place' = "idle"
BY DEF Setup, Runs, Disturbed, GroupStep, Moves, Interrupt,
       EnterTry, TakeTerminal, SetResize, Assign, Install, SetupFails, ForwardSignal,
       SetDeadline, KillOnSignal, EscalateIfDue, Waited, BridgeFails, RestoreHandler,
       HandlersRestored, RestoreResize, RestoreTerminal, TerminalRefuses, NothingRemains,
       BeginTermination, EndsInTime, KillRemaining, Reap, InterruptStarted, InterruptSetup,
       InterruptRestoring, InterruptTermination, LeaderEnds, Fork, OthersEnd, GraceEnds

\* Every step keeps the launch and the session together.
LEMMA LaunchStep == ExecInv /\ [Next]_vars => LaunchInv'
<1> SUFFICES ASSUME ExecInv, [Next]_vars PROVE LaunchInv'
  OBVIOUS
<1>0. SupInv /\ LaunchTypeOK /\ LaunchInv
  BY DEF ExecInv
<1> USE DEF LaunchTypeOK, LaunchInv, Preparing, Supervising, Ended, Sessions, Files, storeVars,
            launchVars
<1>1. CASE UNCHANGED vars
  BY <1>0, <1>1 DEF vars, supVars
<1>2. CASE Resolve \/ Refuse
  BY <1>0, <1>2 DEF Resolve, Refuse, Passes, Forget, supVars
<1>3. CASE MakeSession
  BY <1>0, <1>3 DEF MakeSession, Store!Make, Store!Becomes, Store!Write, supVars
<1>4. CASE Plan
  BY <1>0, <1>4 DEF Plan, Passes, Store!Write, supVars
<1>5. CASE PrepareClient
  <2>1. /\ Passes("planned", "ready") /\ request.client \in Clients
        /\ Store!Write(Own, "material") /\ UNCHANGED <<request, supVars>>
    BY <1>5 DEF PrepareClient
  <2> QED
    BY <1>0, <2>1 DEF Passes, Store!Write, supVars
<1>6. CASE PrepareOther
  <2>1. request.client \notin Clients
    BY <1>6 DEF PrepareOther, Clients, GoClients, JavaClients
  <2> QED
    BY <1>0, <1>6, <2>1 DEF PrepareOther, Passes, supVars
<1>7. CASE StartChild
  <2>1. place = "idle" /\ place' \in {"started", "done"}
    BY <1>7 DEF StartChild, Start, StartFails, Moves
  <2>2. life[Own] = "held" /\ kept[Own] = Files
    BY <1>0, <1>7 DEF StartChild
  <2> QED
    BY <1>0, <1>7, <2>1, <2>2 DEF StartChild
<1>8. CASE Supervise
  <2>1. place' = "idle" <=> place = "idle"
    BY <1>0, <1>8, SuperviseStays, IdleIsIdle DEF Supervise
  <2>2. Supervising' => Supervising
    BY <1>0, <1>8, <2>1, SuperviseStays DEF Supervise
  <2> QED
    BY <1>0, <1>8, <2>1, <2>2 DEF Supervise
<1>9. CASE ProcessDies
  <2>1. place # "idle" /\ place' = "dead"
    BY <1>9 DEF ProcessDies, SupervisorDies
  <2> QED
    BY <1>0, <1>9, <2>1 DEF ProcessDies, Store!Abandon, Store!Becomes
<1>10. CASE Close
  BY <1>0, <1>10 DEF Close, Finished, Store!Leave, Store!Becomes, supVars
<1>11. CASE DiesElsewhere
  BY <1>0, <1>11 DEF DiesElsewhere, Store!Abandon, Store!Becomes, supVars
<1>12. CASE Delete
  BY <1>0, <1>12 DEF Delete, Store!Remove, Store!Becomes, Store!Delete, supVars
<1> QED
  BY <1>1, <1>2, <1>3, <1>4, <1>5, <1>6, <1>7, <1>8, <1>9, <1>10, <1>11, <1>12 DEF Next

\* The invariant is inductive.
LEMMA ExecInvStep == ExecInv /\ [Next]_vars => ExecInv'
BY StepSupervises, InvStep, LaunchTypeStep, LaunchStep DEF ExecInv

\* In the beginning nothing is launched and there is no session.
LEMMA ExecInvInit == Init => ExecInv
<1> SUFFICES ASSUME Init PROVE ExecInv
  OBVIOUS
<1>1. SupInv
  BY InvInit DEF Init
<1>2. LaunchTypeOK /\ LaunchInv
  BY DEF Init, SupInit, Store!Init, LaunchTypeOK, LaunchInv, Preparing, Supervising, Ended,
         Sessions, Files
<1> QED
  BY <1>1, <1>2 DEF ExecInv

-----------------------------------------------------------------------------
(* Exec: its theorems *)

\* close and the scans of other processes begin to delete the session's files
\* only when the child does not work any more, unless its supervisor died or
\* was interrupted where nothing protects it.
THEOREM FilesOutliveChild == Spec => []ChildKeepsItsFiles
<1>1. ExecInv => ChildKeepsItsFiles
  <2> SUFFICES ASSUME ExecInv, Working, ~killed, place # "dead",
                      interrupted \cap Unprotected = {}
               PROVE  life[Own] = "held" /\ kept[Own] = Files
    BY DEF ChildKeepsItsFiles
  <2>1. place # "idle"
    BY DEF ExecInv, SupInv, ChildInv, Working
  <2>2. place # "done"
    BY DEF ExecInv, SupInv, EndInv, GroupIsOver
  <2> QED
    BY <2>1, <2>2 DEF ExecInv, LaunchInv, Supervising, Ended
<1> QED
  BY <1>1, ExecInvInit, ExecInvStep, PTL DEF Spec

\* Of every exec: its group is over, unless a KeyboardInterrupt hit a place that
\* nothing protects; handlers and terminal are given back with the exceptions
\* that TerminalGivenBack names; and no kill is unearned.
THEOREM ExecEndsWell == Spec => []GroupIsOver /\ []TerminalGivenBack /\ KillIsEarned
BY ExecSupervises, LeftGroupIsOver, LeftTerminalIsOwn, KillsAreEarned, PTL

\* An exec uses its session directory as its contract allows: it writes only
\* what it holds, and nothing is deleted before it left the session.
THEOREM ExecKeepsStore == Spec => Store!Spec
<1>1. Init => Store!Init
  BY DEF Init
<1>2. [Next]_vars => [Store!Next]_storeVars
  <2> SUFFICES ASSUME [Next]_vars PROVE [Store!Next]_storeVars
    OBVIOUS
  <2> USE DEF Store!Next, Store!StoreStep, Sessions
  <2>1. CASE MakeSession
    BY <2>1 DEF MakeSession, Files
  <2>2. CASE Plan
    BY <2>2 DEF Plan, Files
  <2>3. CASE PrepareClient
    <3>1. Store!Write(Own, "material")
      BY <2>3 DEF PrepareClient
    <3> QED
      BY <3>1 DEF Files
  <2>4. CASE ProcessDies \/ DiesElsewhere
    BY <2>4 DEF ProcessDies, DiesElsewhere
  <2>5. CASE Close
    BY <2>5 DEF Close
  <2>6. CASE Delete
    BY <2>6 DEF Delete
  <2>7. CASE Resolve \/ PrepareOther \/ Refuse \/ StartChild \/ Supervise \/ UNCHANGED vars
    BY <2>7 DEF Resolve, PrepareOther, Refuse, StartChild, Supervise, vars
  <2> QED
    BY <2>1, <2>2, <2>3, <2>4, <2>5, <2>6, <2>7 DEF Next
<1> QED
  BY <1>1, <1>2, PTL DEF Spec, Store!Spec, storeVars, Store!storeVars

-----------------------------------------------------------------------------
(* What is planned and written, for every profile *)

\* What a file names, it requires: `requires` and the renderings agree.
LEMMA NamedIsRequired ==
  ASSUME NEW f, NEW k, NEW r
  PROVE  NamedIn(f, k, r) \subseteq Required(f, k, r)
<1>1. NamedFor(k, "kafka.key") \subseteq KafkaTrust(k) \cup KafkaIdentity(k, "kafka.key")
  BY DEF NamedFor, Tls, KafkaTrust, KafkaIdentity
<1>2. NamedFor(k, KafkaCopy(k)) \subseteq KafkaTrust(k) \cup KafkaIdentity(k, KafkaCopy(k))
  BY DEF NamedFor, Tls, KafkaTrust, KafkaIdentity
<1>3. /\ NamedForToken(k) \subseteq KafkaTokenTrust(k)
      /\ Tls(k, IF k.ca THEN {"kafka.ca"} ELSE {}) \subseteq KafkaTrust(k)
  BY DEF NamedForToken, Tls, KafkaTokenTrust, KafkaTrust
<1>4. /\ RegistryNamed(r, "registry.key") = RegistryTrust(r) \cup RegistryIdentity(r, "registry.key")
      /\ RegistryNamed(r, RegistryCopy(r)) = RegistryTrust(r) \cup RegistryIdentity(r, RegistryCopy(r))
  BY DEF RegistryNamed, RegistryTrust, RegistryIdentity
<1> QED
  BY <1>1, <1>2, <1>3, <1>4 DEF NamedIn, Required, RegistryTrust

\* A decrypted copy is required only by a file that names it.
LEMMA CopiesAreNamed ==
  ASSUME NEW g, NEW k \in KafkaShapes, NEW r \in RegistryShapes,
         NEW f \in Required(g, k, r) \cap Copies
  PROVE  f \in NamedIn(g, k, r)
<1>1. k.auth = "mtls" => k.tls
  BY DEF KafkaShapes
<1>2. f \notin KafkaTrust(k) /\ f \notin KafkaTokenTrust(k) /\ f \notin RegistryTrust(r)
  BY DEF Copies, KafkaTrust, KafkaTokenTrust, RegistryTrust
<1>3. f \notin KafkaIdentity(k, "kafka.key") /\ f \notin RegistryIdentity(r, "registry.key")
  BY DEF Copies, KafkaIdentity, RegistryIdentity
<1>4. \/ g \in {"kaf.yaml", "kcl.toml"} /\ f \in KafkaIdentity(k, KafkaCopy(k))
      \/ g = "kcl.toml" /\ f \in RegistryIdentity(r, RegistryCopy(r))
  BY <1>2, <1>3 DEF Required
<1>5. f \in KafkaIdentity(k, KafkaCopy(k)) => f \in NamedFor(k, KafkaCopy(k))
  BY <1>1 DEF KafkaIdentity, NamedFor, Tls
<1>6. f \in RegistryIdentity(r, RegistryCopy(r)) => f \in RegistryNamed(r, RegistryCopy(r))
  BY DEF RegistryIdentity, RegistryNamed
<1> QED
  BY <1>4, <1>5, <1>6 DEF NamedIn

\* Files that are selected without copies are written with all that they name,
\* and with no copy that none of them names.
LEMMA WrittenFits ==
  ASSUME NEW k \in KafkaShapes, NEW r \in RegistryShapes,
         NEW selected, selected \cap Copies = {},
         NEW files, files = WithRequired(selected, k, r)
  PROVE  /\ \A f \in selected : {f} \cup NamedIn(f, k, r) \subseteq files
         /\ \A f \in files \cap Copies : \E g \in files : f \in NamedIn(g, k, r)
<1>1. ASSUME NEW f \in selected PROVE {f} \cup NamedIn(f, k, r) \subseteq files
  BY NamedIsRequired DEF WithRequired
<1>2. ASSUME NEW f \in files \cap Copies PROVE \E g \in files : f \in NamedIn(g, k, r)
  <2>1. PICK g \in selected : f \in Required(g, k, r)
    BY <1>2 DEF WithRequired
  <2>2. f \in NamedIn(g, k, r)
    BY <1>2, <2>1, CopiesAreNamed
  <2>3. g \in files
    BY DEF WithRequired
  <2> QED
    BY <2>2, <2>3
<1> QED
  BY <1>1, <1>2

\* A direct command is told of no decrypted copy, and a profile can be mapped
\* to no configuration that is one.
LEMMA ToldIsNoCopy ==
  ASSUME NEW c \in Clients, NEW k, NEW r, NEW use
  PROVE  Told(c, k, r, use) \cap Copies = {}
<1>1. Configuration(c, ReadsRegistry(c, use)) \notin Copies
  BY DEF Configuration, Copies, Clients, GoClients, JavaClients
<1>2. RegistryTokenTrust(r) \cap Copies = {} /\ "kafui-home" \notin Copies
  BY DEF RegistryTokenTrust, Copies
<1> QED
  BY <1>1, <1>2 DEF Told

LEMMA ConfigurationsAreNoCopies ==
  ASSUME NEW k, NEW r
  PROVE  Configurations(k, r) \cap Copies = {}
BY DEF Configurations, Copies


\* While a request is prepared it is one of the requests; what was written is
\* what _write or write_all writes for it, and a direct command that is ready
\* passed _prepare_command.
PreparedInv ==
  /\ phase \in Preparing => request \in Requests
  /\ (phase \in {"planned", "ready"} /\ request.client \notin Clients) =>
       written = Everything(request.kafka, request.registry)
  /\ (phase = "ready" /\ request.client \in Clients) =>
       /\ argv \in Argvs(request.client)
       /\ Direct(request.client, request.kafka, request.registry,
                 argv.release, argv.fit, argv.use) = "run"
       /\ written = WithRequired(Told(request.client, request.kafka, request.registry, argv.use),
                                 request.kafka, request.registry)

\* Every step keeps what is written and what was asked for together.
LEMMA PreparedStep == PreparedInv /\ [Next]_vars => PreparedInv'
<1> SUFFICES ASSUME PreparedInv, [Next]_vars PROVE PreparedInv'
  OBVIOUS
<1> USE DEF PreparedInv, Preparing
<1>1. CASE UNCHANGED vars
  BY <1>1 DEF vars, launchVars
<1>2. CASE Resolve
  BY <1>2 DEF Resolve, Passes
<1>3. CASE MakeSession \/ Supervise \/ ProcessDies \/ Close \/ Delete
  <2>1. UNCHANGED launchVars
    BY <1>3 DEF MakeSession, Supervise, ProcessDies, Close, Delete
  <2> QED
    BY <2>1 DEF launchVars
<1>4. CASE Plan
  BY <1>4 DEF Plan, Passes
<1>5. CASE PrepareClient
  <2>1. /\ phase = "planned" /\ phase' = "ready"
        /\ request.client \in Clients /\ request' = request
    BY <1>5 DEF PrepareClient, Passes
  <2>2. PICK a \in Argvs(request.client) :
          /\ Direct(request.client, request.kafka, request.registry,
                    a.release, a.fit, a.use) = "run"
          /\ argv' = a
          /\ written' = WithRequired(Told(request.client, request.kafka, request.registry, a.use),
                                     request.kafka, request.registry)
    BY <1>5 DEF PrepareClient
  <2> QED
    BY <2>1, <2>2
<1>6. CASE PrepareOther
  BY <1>6 DEF PrepareOther, Passes, Clients, GoClients, JavaClients
<1>7. CASE Refuse \/ StartChild
  BY <1>7 DEF Refuse, StartChild, Passes
<1>8. CASE DiesElsewhere
  <2>1. phase' \notin Preparing
    BY <1>8 DEF DiesElsewhere
  <2> QED
    BY <2>1
<1> QED
  BY <1>1, <1>2, <1>3, <1>4, <1>5, <1>6, <1>7, <1>8 DEF Next

\* In the beginning nothing is written.
LEMMA PreparedInit == Init => PreparedInv
BY DEF Init, PreparedInv, Preparing

LEMMA PreparedAlways == Spec => []PreparedInv
BY PreparedInit, PreparedStep, PTL DEF Spec

\* A child that can be started has the files it is told of and the files these
\* name, whichever profile and client were asked for; no decrypted key is on
\* disk that no configuration names.
THEOREM FilesAlwaysFit == Spec => []FilesFit
<1>1. PreparedInv => FilesFit
  <2> SUFFICES ASSUME PreparedInv, phase = "ready"
               PROVE  /\ \A f \in ToldOf(request) :
                           {f} \cup NamedIn(f, request.kafka, request.registry) \subseteq written
                      /\ \A f \in written \cap Copies :
                           \E g \in written : f \in NamedIn(g, request.kafka, request.registry)
    BY DEF FilesFit
  <2>0. request.kafka \in KafkaShapes /\ request.registry \in RegistryShapes
    BY DEF PreparedInv, Preparing, Requests
  <2>1. CASE request.client \in Clients
    <3>1. ToldOf(request) = Told(request.client, request.kafka, request.registry, argv.use)
      BY <2>1 DEF ToldOf
    <3>2. written = WithRequired(ToldOf(request), request.kafka, request.registry)
      BY <2>1, <3>1 DEF PreparedInv
    <3>3. ToldOf(request) \cap Copies = {}
      BY <2>1, <3>1, ToldIsNoCopy
    <3> QED
      BY <2>0, <3>2, <3>3, WrittenFits
  <2>2. CASE request.client \notin Clients
    <3> DEFINE selected == Planned(request.kafka, request.registry) \ Copies
    <3>1. written = WithRequired(selected, request.kafka, request.registry)
      BY <2>2 DEF PreparedInv, Everything
    <3>2. selected \cap Copies = {}
      OBVIOUS
    <3>3. ToldOf(request) \subseteq selected
      BY <2>2, ConfigurationsAreNoCopies DEF ToldOf, Planned
    <3>4. /\ \A f \in selected :
               {f} \cup NamedIn(f, request.kafka, request.registry) \subseteq written
          /\ \A f \in written \cap Copies :
               \E g \in written : f \in NamedIn(g, request.kafka, request.registry)
      <4> HIDE DEF selected
      <4> QED
        BY <2>0, <3>1, <3>2, WrittenFits
    <3> QED
      BY <3>3, <3>4
  <2> QED
    BY <2>1, <2>2
<1> QED
  BY <1>1, PreparedAlways, PTL

-----------------------------------------------------------------------------
(* What the capability decision admits, for every profile *)

\* A Go client or a console whose Registry was admitted has its configuration.
LEMMA AdmittedHasItsFile ==
  ASSUME NEW c \in Clients, NEW k \in KafkaShapes, NEW r \in RegistryShapes,
         NEW release \in Releases,
         Capable(c, k, r, release), c = "console" => RegistryFits(c, r)
  PROVE  HasItsFile(c, k, r)
<1>1. CASE c \in {"kaf", "kafui"}
  <2>1. KafMapped(k, r)
    BY <1>1 DEF KafMapped, Capable, Speaks, TakesRegistry, GoClients
  <2>2. "kaf.yaml" \in Configurations(k, r)
    BY <2>1 DEF Configurations
  <2>3. Configuration(c, TRUE) = "kaf.yaml"
    BY <1>1 DEF Configuration
  <2> QED
    BY <2>2, <2>3 DEF HasItsFile, Planned
<1>2. CASE c = "kcl"
  <2>1. KclMapped(k, r)
    BY <1>2 DEF KclMapped, Capable, Speaks, TakesRegistry, GoClients
  <2>2. "kcl.toml" \in Configurations(k, r)
    BY <2>1 DEF Configurations
  <2>3. Configuration(c, TRUE) = "kcl.toml"
    BY <1>2 DEF Configuration
  <2> QED
    BY <2>2, <2>3 DEF HasItsFile, Planned
<1>3. CASE c = "console"
  <2>1. r.provider = "confluent"
    BY <1>3 DEF RegistryFits
  <2>2. "console.properties" \in Configurations(k, r)
    BY <2>1 DEF Configurations
  <2>3. Configuration(c, TRUE) = "console.properties"
    BY <1>3 DEF Configuration
  <2> QED
    BY <2>2, <2>3 DEF HasItsFile, Planned
<1>4. CASE c \notin {"kaf", "kafui", "kcl", "console"}
  BY <1>4 DEF HasItsFile, NeedsItsFile, GoClients
<1> QED
  BY <1>1, <1>2, <1>3, <1>4

\* A Registry that a console or Kaskade is admitted to can be rendered, but for
\* Apicurio's encrypted client key.
LEMMA FittingRenders ==
  ASSUME NEW r \in RegistryShapes
  PROVE  /\ RegistryFits("console", r) => ConsoleRenders(r)
         /\ RegistryFits("kaskade", r) =>
              RegistryRenders(r) \/ (r.provider = "apicurio" /\ r.locked)
<1>1. r.tokenCa # "none" => r.auth = "oauth"
  BY DEF RegistryShapes, NoRegistry
<1> QED
  BY <1>1 DEF RegistryFits, ConsoleRenders, RegistryRenders, SharedTrust


\* What the capability decision and the Registry's own check admit is prepared
\* without a configuration missing, and what a console or Kaskade reads the
\* Registry from has a Registry section.
LEMMA GateDecides ==
  ASSUME NEW c \in Clients, NEW k \in KafkaShapes, NEW r \in RegistryShapes,
         NEW a \in Argvs(c)
  PROVE  LET answer == Direct(c, k, r, a.release, a.fit, a.use) IN
         /\ answer # "configuration"
         /\ (answer = "run" /\ c = "console") => ConsoleRenders(r)
         /\ (answer = "run" /\ c = "kaskade" /\ ReadsRegistry(c, a.use)) =>
              RegistryRenders(r) \/ (r.provider = "apicurio" /\ r.locked)
<1> DEFINE answer == Direct(c, k, r, a.release, a.fit, a.use)
<1>0. a.release \in Releases /\ a.fit \in BOOLEAN /\ a.use \in Uses(c)
  BY DEF Argvs
<1>1. answer # "configuration"
  <2>1. SUFFICES ASSUME Capable(c, k, r, a.release), ~HasItsFile(c, k, r),
                        ReadsRegistry(c, a.use) => RegistryFits(c, r)
                 PROVE  FALSE
    BY DEF Direct
  <2> QED
    BY <1>0, <2>1, AdmittedHasItsFile DEF ReadsRegistry
<1>2. (answer = "run" /\ c = "console") => ConsoleRenders(r)
  BY FittingRenders DEF Direct, Adapted, ReadsRegistry
<1>3. (answer = "run" /\ c = "kaskade" /\ ReadsRegistry(c, a.use)) =>
        RegistryRenders(r) \/ (r.provider = "apicurio" /\ r.locked)
  <2> SUFFICES ASSUME answer = "run", c = "kaskade", ReadsRegistry(c, a.use)
               PROVE  RegistryRenders(r) \/ (r.provider = "apicurio" /\ r.locked)
    OBVIOUS
  <2>1. Adapted(c, a.use)
    BY DEF Adapted, ReadsRegistry
  <2> QED
    BY <2>1, FittingRenders DEF Direct
<1> QED
  BY <1>1, <1>2, <1>3

\* The decision is enough for every profile and every release.
THEOREM GateIsAlwaysEnough == Spec => []GateIsEnough
<1>1. PreparedInv => GateIsEnough
  <2> SUFFICES ASSUME PreparedInv, phase = "planned",
                      NEW c \in Clients, NEW a \in Argvs(c)
               PROVE  LET k == request.kafka
                          r == request.registry
                          answer == Direct(c, k, r, a.release, a.fit, a.use) IN
                      /\ answer # "configuration"
                      /\ (answer = "run" /\ c = "console") => ConsoleRenders(r)
                      /\ (answer = "run" /\ c = "kaskade" /\ ReadsRegistry(c, a.use)) =>
                           RegistryRenders(r) \/ (r.provider = "apicurio" /\ r.locked)
    BY DEF GateIsEnough
  <2>1. request.kafka \in KafkaShapes /\ request.registry \in RegistryShapes
    BY DEF PreparedInv, Preparing, Requests
  <2> QED
    BY <2>1, GateDecides
<1> QED
  BY <1>1, PreparedAlways, PTL

\* A shim and a direct command agree, but for a shim without a decision and for
\* the spelling that only the direct command reads.
LEMMA ShimAgrees ==
  ASSUME NEW c \in Clients, NEW k \in KafkaShapes, NEW r \in RegistryShapes,
         NEW a \in Argvs(c)
  PROVE  LET direct == Direct(c, k, r, a.release, a.fit, a.use) = "run"
             shim == ShimRuns(c, k, r, a.release, a.fit, a.use) IN
         \/ /\ direct = shim
            /\ direct => ReadsRegistry(c, a.use) = ShimReadsRegistry(c, a.use)
         \/ a.use = "short="
         \/ /\ c = "kcat" \/ (c = "kaskade" /\ a.use \in {"plain", "elsewhere", "other"})
            /\ ~Capable(c, k, r, a.release) /\ ~direct
<1> DEFINE direct == Direct(c, k, r, a.release, a.fit, a.use) = "run"
           shim   == ShimRuns(c, k, r, a.release, a.fit, a.use)
           able   == Capable(c, k, r, a.release)
           reads  == ReadsRegistry(c, a.use)
<1>0. a.release \in Releases /\ a.fit \in BOOLEAN /\ a.use \in Uses(c)
  BY DEF Argvs
<1>1. SUFFICES ASSUME a.use # "short="
               PROVE  \/ direct <=> shim
                      \/ /\ c = "kcat" \/ (c = "kaskade" /\ a.use \in {"plain", "elsewhere", "other"})
                         /\ ~able /\ ~direct
  BY DEF ReadsRegistry, ShimReadsRegistry, Direct, ShimRuns
<1>2. reads <=> ShimReadsRegistry(c, a.use)
  BY <1>1 DEF ReadsRegistry, ShimReadsRegistry
<1>3. able /\ (reads => RegistryFits(c, r)) => HasItsFile(c, k, r)
  BY <1>0, AdmittedHasItsFile DEF ReadsRegistry
<1>4. reads => Adapted(c, a.use)
  BY DEF ReadsRegistry, Adapted
<1>5. direct <=> /\ able
                 /\ Adapted(c, a.use) => a.fit
                 /\ reads => RegistryFits(c, r)
  BY <1>0, <1>3, <1>4 DEF Direct
<1>6. able => (direct <=> shim)
  BY <1>2, <1>3, <1>5 DEF ShimRuns
<1>7. CASE able
  BY <1>6, <1>7
<1>8. CASE ~able
  <2>1. ~direct
    BY <1>5, <1>8
  <2>2. CASE ShimIsGated(c, a.use)
    BY <1>8, <2>1, <2>2 DEF ShimRuns
  <2>3. CASE ~ShimIsGated(c, a.use)
    <3>1. c = "kcat" \/ (c = "kaskade" /\ ~ShimReadsRegistry(c, a.use))
      BY <2>3 DEF ShimIsGated
    <3>2. c = "kaskade" => a.use \in {"plain", "elsewhere", "other"}
      BY <1>0, <1>1, <3>1 DEF Uses, ShimReadsRegistry
    <3> QED
      BY <1>8, <2>1, <3>1, <3>2
  <2> QED
    BY <2>2, <2>3
<1> QED
  BY <1>7, <1>8

\* For every profile, release and argument, a client typed in the subshell runs
\* exactly when a direct command runs it, and on the same configuration, with two
\* exceptions: the spelling `-k=registry`, and the shims of kcat and of a Kaskade
\* without a Registry, which start a release that a direct command refuses.  The
\* trust Kaskade takes its tokens with is not compared.
THEOREM AnswersAgree == Spec => []SameAnswer
<1>1. PreparedInv => SameAnswer
  <2> SUFFICES ASSUME PreparedInv, phase = "planned",
                      NEW c \in Clients, NEW a \in Argvs(c)
               PROVE  LET k == request.kafka
                          r == request.registry
                          direct == Direct(c, k, r, a.release, a.fit, a.use) = "run"
                          shim == ShimRuns(c, k, r, a.release, a.fit, a.use) IN
                      \/ /\ direct = shim
                         /\ direct => ReadsRegistry(c, a.use) = ShimReadsRegistry(c, a.use)
                      \/ a.use = "short="
                      \/ /\ c = "kcat" \/ (c = "kaskade" /\ a.use \in {"plain", "elsewhere", "other"})
                         /\ ~Capable(c, k, r, a.release) /\ ~direct
    BY DEF SameAnswer
  <2>1. request.kafka \in KafkaShapes /\ request.registry \in RegistryShapes
    BY DEF PreparedInv, Preparing, Requests
  <2> QED
    BY <2>1, ShimAgrees
<1> QED
  BY <1>1, PreparedAlways, PTL

===============================================================================
