------------------------------ MODULE Supervisor ------------------------------
(***************************************************************************)
(* One run_supervised_process (supervisor.py): the supervisor starts a     *)
(* child in a process group of its own, or on a PTY of its own, forwards   *)
(* signals to it, kills it when its grace is over, and gives the terminal  *)
(* back.                                                                   *)
(*                                                                         *)
(* Python runs a signal handler between two steps of the main thread, also *)
(* inside another handler.  Where the forwarder is not installed, SIGINT   *)
(* raises KeyboardInterrupt and SIGTERM ends the supervisor.  SIGHUP is    *)
(* treated as SIGTERM throughout.  The model ends with the call: what a    *)
(* handler that was left does to the rest of the process is not in it.     *)
(***************************************************************************)
EXTENDS Naturals

CONSTANT MaxSignals   \* bound: signals that meet the forwarder

ASSUME SignalsAssumption == MaxSignals \in Nat

Signals == {"INT", "TERM"}
Modes   == {"oneoff", "interactive"}

\* Where the supervisor is; "done" when the call has returned or raised,
\* "dead" when its process was killed in the middle.
Places == {"idle", "started", "taking", "resizing", "assigning", "installing",
           "waiting", "restoring", "unresizing", "unterminal", "closing",
           "terminating", "reaping", "done", "dead"}
Setup == {"taking", "resizing", "assigning", "installing"}
Ended == {"done", "dead"}
\* Where a KeyboardInterrupt leaves the child alone, or a handler or the
\* terminal in doubt.
Unprotected == {"started", "closing", "terminating", "reaping"}
Exposed     == Unprotected \cup {"assigning", "restoring", "unresizing", "unterminal"}

VARIABLES
  mode,
  place,
  handlers,     \* signals the forwarder handles
  resize,       \* SIGWINCH's handler: none, set, or set and known to be so
  foreground,   \* who has the terminal, or has it in raw mode
  saved,        \* is there a terminal object that knows what to restore?
  leader,       \* the child: the leader of its group
  others,       \* are there descendants left in the child's group (or session)?
  warned,       \* history: the group was sent a signal other than SIGKILL
  killed,       \* the group was sent SIGKILL, which it cannot survive
  signals,      \* history: signals the forwarder handled
  handling,     \* a handler has sent its signal and not yet set the deadline
  deadline,     \* the forwarder's grace: not begun, running, or over
  ending,       \* the grace of the last finally clause, likewise
  escalated,
  raised,       \* the wait was left by an exception
  interrupted,  \* history: the exposed places KeyboardInterrupt was raised at
  refused       \* history: the terminal could not be given back

handlerVars  == <<handlers, resize>>
terminalVars == <<foreground, saved>>
groupVars    == <<leader, others, warned, killed>>
graceVars    == <<signals, handling, deadline, ending, escalated>>
historyVars  == <<interrupted, refused>>
supVars == <<mode, place, handlerVars, terminalVars, groupVars, graceVars, raised,
             historyVars>>

GroupExists == leader \in {"alive", "zombie"} \/ others

\* What the command line waits for: every process of a one-off command's
\* group, the shell itself of an interactive session.
Working == leader = "alive" \/ (mode = "oneoff" /\ others)

SupInit ==
  /\ mode \in Modes
  /\ place = "idle" /\ handlers = {} /\ resize = "none"
  /\ foreground = "own" /\ saved = FALSE
  /\ leader = "none" /\ others = FALSE /\ warned = FALSE /\ killed = FALSE
  /\ signals = 0 /\ handling = FALSE /\ deadline = "none" /\ ending = "none"
  /\ escalated = FALSE /\ raised = FALSE /\ interrupted = {} /\ refused = FALSE

Moves(from, to) == place = from /\ ~handling /\ place' = to

-----------------------------------------------------------------------------
(* Starting: _run_one_off, _run_interactive *)

\* Popen, or pty.fork after the terminal's attributes were saved.
Start ==
  /\ Moves("idle", "started")
  /\ leader' = "alive"
  /\ saved' = (mode = "interactive")
  /\ UNCHANGED <<mode, handlerVars, foreground, others, warned, killed, graceVars,
                 raised, historyVars>>

StartFails ==
  /\ Moves("idle", "done")
  /\ UNCHANGED <<mode, handlerVars, terminalVars, groupVars, graceVars, raised,
                 historyVars>>

EnterTry ==
  /\ Moves("started", "taking")
  /\ UNCHANGED <<mode, handlerVars, terminalVars, groupVars, graceVars, raised,
                 historyVars>>

\* The child's group becomes the foreground group, or the terminal raw, if
\* there is a terminal; tcsetpgrp may fail in silence.
TakeTerminal ==
  /\ Moves("taking", IF mode = "oneoff" THEN "assigning" ELSE "resizing")
  /\ foreground' \in {"own", "child"}
  /\ UNCHANGED <<mode, handlerVars, saved, groupVars, graceVars, raised, historyVars>>

\* A shell's window follows the terminal's size.
SetResize ==
  /\ Moves("resizing", "assigning")
  /\ resize' = "set"
  /\ UNCHANGED <<mode, handlers, terminalVars, groupVars, graceVars, raised,
                 historyVars>>

\* What was taken is remembered: the terminal object, or resize_installed.
Assign ==
  /\ Moves("assigning", "installing")
  /\ saved' = TRUE
  /\ resize' = IF mode = "interactive" THEN "known" ELSE resize
  /\ UNCHANGED <<mode, handlers, foreground, groupVars, graceVars, raised, historyVars>>

\* SIGINT is the first of _FORWARDED_SIGNALS.
Install(s) ==
  /\ s \notin handlers /\ (s = "INT" \/ "INT" \in handlers)
  /\ handlers' = handlers \cup {s}
  /\ Moves("installing", IF handlers' = Signals THEN "waiting" ELSE "installing")
  /\ UNCHANGED <<mode, resize, terminalVars, groupVars, graceVars, raised, historyVars>>

\* An OSError of a terminal call; a partly installed forwarder restores what it
\* has installed, like the finally clause.
SetupFails ==
  /\ \E from \in {"taking", "resizing", "installing"} : Moves(from, "restoring")
  /\ raised' = TRUE
  /\ UNCHANGED <<mode, handlerVars, terminalVars, groupVars, graceVars, historyVars>>

-----------------------------------------------------------------------------
(* Waiting: _SignalForwarder, _wait_for_process, _bridge_pty *)

\* Mutant of Kill: nothing is sent.
KillNobody == UNCHANGED killed
Kill == killed' = (killed \/ GroupExists)

Handles(s) == s \in handlers /\ place \notin Ended /\ signals < MaxSignals

\* The first signal is passed on; the deadline is set after that.
ForwardSignal(s) ==
  /\ Handles(s) /\ deadline = "none"
  /\ warned' = (warned \/ GroupExists)
  /\ handling' = TRUE /\ signals' = signals + 1
  /\ UNCHANGED <<mode, place, handlerVars, terminalVars, leader, others, killed,
                 deadline, ending, escalated, raised, historyVars>>

SetDeadline ==
  /\ handling
  /\ handling' = FALSE /\ deadline' = "running"
  /\ UNCHANGED <<mode, place, handlerVars, terminalVars, groupVars, signals, ending,
                 escalated, raised, historyVars>>

\* Once there is a deadline, the next signal kills.
KillOnSignal(s) ==
  /\ Handles(s) /\ deadline # "none" /\ ~escalated
  /\ Kill /\ escalated' = TRUE /\ signals' = signals + 1
  /\ UNCHANGED <<mode, place, handlerVars, terminalVars, leader, others, warned,
                 handling, deadline, ending, raised, historyVars>>

\* Mutant of EscalateIfDue: the deadline need not be over.
EscalateAtOnce ==
  /\ place = "waiting" /\ ~handling
  /\ deadline # "none" /\ ~escalated
  /\ Kill /\ escalated' = TRUE
  /\ UNCHANGED <<mode, place, handlerVars, terminalVars, leader, others, warned, signals,
                 handling, deadline, ending, raised, historyVars>>

EscalateIfDue ==
  /\ place = "waiting" /\ ~handling
  /\ deadline = "passed" /\ ~escalated
  /\ Kill /\ escalated' = TRUE
  /\ UNCHANGED <<mode, place, handlerVars, terminalVars, leader, others, warned, signals,
                 handling, deadline, ending, raised, historyVars>>

\* The child's status has been read.
Waited ==
  /\ Moves("waiting", "restoring")
  /\ leader = "zombie" /\ leader' = "reaped"
  /\ UNCHANGED <<mode, handlerVars, terminalVars, others, warned, killed, graceVars,
                 raised, historyVars>>

\* Reading or writing the terminal raises while the shell runs, or while its
\* last output is drained: then its status is lost, although it is reaped.
BridgeFails ==
  /\ mode = "interactive"
  /\ Moves("waiting", "restoring")
  /\ raised' = TRUE
  /\ leader' \in {leader, IF leader = "zombie" THEN "reaped" ELSE leader}
  /\ UNCHANGED <<mode, handlerVars, terminalVars, others, warned, killed, graceVars,
                 historyVars>>

-----------------------------------------------------------------------------
(* The finally clauses *)

AfterHandlers == IF mode = "oneoff" THEN "unterminal" ELSE "unresizing"

\* One signal at a time, in the order of their installation.
RestoreHandler(s) ==
  /\ Moves("restoring", "restoring")
  /\ s \in handlers /\ (s = "INT" \/ "INT" \notin handlers)
  /\ handlers' = handlers \ {s}
  /\ UNCHANGED <<mode, resize, terminalVars, groupVars, graceVars, raised, historyVars>>

HandlersRestored ==
  /\ handlers = {}
  /\ Moves("restoring", AfterHandlers)
  /\ UNCHANGED <<mode, handlerVars, terminalVars, groupVars, graceVars, raised,
                 historyVars>>

ResizeRestored == IF resize = "known" THEN "none" ELSE resize

RestoreResize ==
  /\ Moves("unresizing", "unterminal")
  /\ resize' = ResizeRestored
  /\ UNCHANGED <<mode, handlers, terminalVars, groupVars, graceVars, raised, historyVars>>

\* Mutant of RestoreTerminal: only after a wait that returned.
RestoreOnReturn ==
  /\ Moves("unterminal", "closing")
  /\ foreground' = IF saved /\ ~raised THEN "own" ELSE foreground
  /\ UNCHANGED <<mode, handlerVars, saved, groupVars, graceVars, raised, historyVars>>

RestoreTerminal ==
  /\ Moves("unterminal", "closing")
  /\ foreground' = IF saved THEN "own" ELSE foreground
  /\ UNCHANGED <<mode, handlerVars, saved, groupVars, graceVars, raised, historyVars>>

\* tcsetpgrp fails in silence; tcsetattr raises, and the next clause goes on.
TerminalRefuses ==
  /\ saved /\ foreground = "child"
  /\ Moves("unterminal", "closing")
  /\ refused' = TRUE
  /\ UNCHANGED <<mode, handlerVars, terminalVars, groupVars, graceVars, raised,
                 interrupted>>

\* What is left to end: the group of a one-off command (poll reaps a child
\* that has ended), the shell only if its status is not known.
Reaped == IF leader = "zombie" THEN "reaped" ELSE leader
Remains ==
  IF mode = "oneoff" THEN Reaped = "alive" \/ others ELSE raised

\* Mutant of NothingRemains: the status of the leader is enough.
StatusIsEnough ==
  /\ ~raised
  /\ Moves("closing", "done")
  /\ leader' = Reaped
  /\ UNCHANGED <<mode, handlerVars, terminalVars, others, warned, killed, graceVars,
                 raised, historyVars>>

NothingRemains ==
  /\ ~Remains
  /\ Moves("closing", "done")
  /\ leader' = IF mode = "oneoff" THEN Reaped ELSE leader
  /\ UNCHANGED <<mode, handlerVars, terminalVars, others, warned, killed, graceVars,
                 raised, historyVars>>

\* SIGTERM; a one-off command's grace began with the first forwarded signal.
BeginTermination ==
  /\ Remains
  /\ Moves("closing", "terminating")
  /\ leader' = IF mode = "oneoff" THEN Reaped ELSE leader
  /\ warned' = TRUE
  /\ ending' = IF mode = "oneoff" /\ deadline # "none" THEN deadline ELSE "running"
  /\ UNCHANGED <<mode, handlerVars, terminalVars, others, killed, signals, handling,
                 deadline, escalated, raised, historyVars>>

\* The group, or the child that is polled, has ended in time.
EndsInTime ==
  /\ IF mode = "oneoff" THEN ~GroupExists ELSE leader # "alive"
  /\ Moves("terminating", "reaping")
  /\ UNCHANGED <<mode, handlerVars, terminalVars, groupVars, graceVars, raised,
                 historyVars>>

KillRemaining ==
  /\ ending = "passed" /\ GroupExists
  /\ Moves("terminating", "reaping")
  /\ Kill
  /\ UNCHANGED <<mode, handlerVars, terminalVars, leader, others, warned, graceVars,
                 raised, historyVars>>

\* The final wait for a child whose status is not known yet.
Reap ==
  /\ leader # "alive"
  /\ Moves("reaping", "done")
  /\ leader' = "reaped"
  /\ UNCHANGED <<mode, handlerVars, terminalVars, others, warned, killed, graceVars,
                 raised, historyVars>>

-----------------------------------------------------------------------------
(* Signals that find no forwarder *)

\* KeyboardInterrupt, also out of a handler of the other signal.
Interrupt(from, to) ==
  /\ "INT" \notin handlers
  /\ place = from /\ place' = to
  /\ handling' = FALSE
  /\ interrupted' = interrupted \cup ({from} \cap Exposed)
  /\ UNCHANGED <<mode, handlers, saved, groupVars, signals, deadline, ending, escalated,
                 refused>>

\* Before the try: the call is left, whatever it has started.
InterruptStarted ==
  /\ Interrupt("started", "done")
  /\ UNCHANGED <<resize, foreground, raised>>

InterruptSetup ==
  /\ \E from \in Setup : Interrupt(from, "restoring")
  /\ raised' = TRUE
  /\ UNCHANGED <<resize, foreground>>

\* Inside the nested finally clauses: each goes on with the next, whatever is
\* left of it.
InterruptRestoring ==
  /\ \/ Interrupt("restoring", AfterHandlers) /\ UNCHANGED <<resize, foreground>>
     \/ /\ Interrupt("unresizing", "unterminal")
        /\ resize' \in {resize, ResizeRestored} /\ UNCHANGED foreground
     \/ /\ Interrupt("unterminal", "closing")
        /\ foreground' \in {foreground, IF saved THEN "own" ELSE foreground}
        /\ UNCHANGED resize
  /\ UNCHANGED raised

\* In the last of them: the exception leaves the group as it is.
InterruptTermination ==
  /\ \E from \in {"closing", "terminating", "reaping"} : Interrupt(from, "done")
  /\ UNCHANGED <<resize, foreground, raised>>

\* SIGTERM without a forwarder, or SIGKILL and power loss at any time.
SupervisorDies ==
  /\ place \notin Ended \cup {"idle"}
  /\ place' = "dead" /\ handlers' = {} /\ handling' = FALSE
  /\ UNCHANGED <<mode, resize, terminalVars, groupVars, signals, deadline, ending,
                 escalated, raised, historyVars>>

-----------------------------------------------------------------------------
(* The child and the clock *)

LeaderEnds ==
  /\ leader = "alive" /\ leader' = "zombie"
  /\ UNCHANGED <<mode, place, handlerVars, terminalVars, others, warned, killed, graceVars,
                 raised, historyVars>>

\* A killed group forks no more; a killed shell's other jobs may go on.
Fork ==
  /\ ~others /\ leader = "alive" /\ ~killed
  /\ others' = TRUE
  /\ UNCHANGED <<mode, place, handlerVars, terminalVars, leader, warned, killed, graceVars,
                 raised, historyVars>>

OthersEnd ==
  /\ others /\ others' = FALSE
  /\ UNCHANGED <<mode, place, handlerVars, terminalVars, leader, warned, killed, graceVars,
                 raised, historyVars>>

GraceEnds ==
  /\ \/ deadline = "running" /\ deadline' = "passed" /\ UNCHANGED ending
     \/ ending = "running" /\ ending' = "passed" /\ UNCHANGED deadline
  /\ UNCHANGED <<mode, place, handlerVars, terminalVars, groupVars, signals, handling,
                 escalated, raised, historyVars>>

-----------------------------------------------------------------------------
Runs ==
  \/ EnterTry \/ TakeTerminal \/ SetResize \/ Assign
  \/ \E s \in Signals : Install(s) \/ RestoreHandler(s)
  \/ SetDeadline \/ EscalateIfDue \/ Waited
  \/ HandlersRestored \/ RestoreResize \/ RestoreTerminal
  \/ NothingRemains \/ BeginTermination \/ EndsInTime \/ KillRemaining \/ Reap

Disturbed ==
  \/ SetupFails \/ BridgeFails \/ TerminalRefuses
  \/ \E s \in Signals : ForwardSignal(s) \/ KillOnSignal(s)
  \/ InterruptStarted \/ InterruptSetup \/ InterruptRestoring \/ InterruptTermination

GroupStep == LeaderEnds \/ Fork \/ OthersEnd \/ GraceEnds

SupNext == Start \/ StartFails \/ Runs \/ Disturbed \/ SupervisorDies \/ GroupStep
SupSpec == SupInit /\ [][SupNext]_supVars

-----------------------------------------------------------------------------
(* Properties *)

\* Every variable has its type.
SupTypeOK ==
  /\ mode \in Modes /\ place \in Places
  /\ handlers \subseteq Signals /\ resize \in {"none", "set", "known"}
  /\ foreground \in {"own", "child"} /\ saved \in BOOLEAN
  /\ leader \in {"none", "alive", "zombie", "reaped"}
  /\ others \in BOOLEAN /\ warned \in BOOLEAN /\ killed \in BOOLEAN
  /\ signals \in 0..MaxSignals /\ handling \in BOOLEAN
  /\ deadline \in {"none", "running", "passed"} /\ ending \in {"none", "running", "passed"}
  /\ escalated \in BOOLEAN /\ raised \in BOOLEAN
  /\ interrupted \subseteq Exposed /\ refused \in BOOLEAN

\* A group is killed only after it was asked to end, and then only when its
\* grace is over or a second signal came, on every path that can kill it.
GraceIsOver == deadline = "passed" \/ ending = "passed"
KillIsEarned ==
  [][(killed' /\ ~killed) => warned /\ (GraceIsOver \/ signals' >= 2)]_supVars

\* A KeyboardInterrupt between the start of the child and the try, or in the
\* last finally, is the only way to leave the call with the child running.
GroupIsOver ==
  (place = "done" /\ Working /\ ~killed) => interrupted \cap Unprotected # {}

\* A call that was left, by a return or by an exception, has put back the
\* signal handlers and the terminal.  SIGINT's handler is always put back; the
\* others stay if a KeyboardInterrupt comes between SIGINT's restoration and
\* theirs, SIGWINCH's if one comes before it is known or while it is restored;
\* the terminal is lost to one that comes before it is known to be taken or
\* while it is given back, and when the system refuses it.
TerminalGivenBack ==
  place = "done" =>
    /\ "INT" \notin handlers
    /\ handlers # {} => "restoring" \in interrupted
    /\ resize # "none" => interrupted \cap {"assigning", "unresizing"} # {}
    /\ foreground = "child" => refused \/ interrupted \cap {"assigning", "unterminal"} # {}
===============================================================================
