--------------------------------- MODULE Exec ---------------------------------
(***************************************************************************)
(* `kantrip exec`: a request is prepared in a session directory, and a     *)
(* supervised child uses what was written there (run_profile_session and   *)
(* _run_in_runtime of session.py).                                         *)
(*                                                                         *)
(* The composition of Supervisor with Clients and with SessionStore, the   *)
(* contract that Sessions implements, for one session Own.  The child      *)
(* starts when the session's files are written; `close` begins when the    *)
(* call has returned or raised; supervisor and owner are one process and   *)
(* die together.  What a dead owner leaves is deleted by the scans of      *)
(* other processes.                                                        *)
(***************************************************************************)
EXTENDS Supervisor, Clients

CONSTANTS Own,        \* the session
          Forgotten   \* the request of a call whose preparation is over

VARIABLES
  request,   \* what was asked for: the client and the profile's connections
  phase,     \* how far its preparation is
  argv,      \* how a direct command reads: release, fit, use
  written,   \* the planned files that are on disk
  life, kept

Sessions == {Own}
Files    == {"marker", "material"}

Store == INSTANCE SessionStore
storeVars == <<life, kept>>

launchVars == <<request, phase, argv, written>>
vars == <<supVars, launchVars, storeVars>>

\* An unsupported program runs as a direct command too; a shell has a PTY.
Requests ==
  [client : Clients \cup {"custom", "shell"}, kafka : KafkaShapes, registry : RegistryShapes]
Argvs(c) == [release : Releases, fit : BOOLEAN, use : Uses(c)]

Init ==
  /\ SupInit /\ Store!Init
  /\ request \in Requests
  /\ mode = IF request.client = "shell" THEN "interactive" ELSE "oneoff"
  /\ phase = "asked" /\ argv = Forgotten /\ written = {}

Passes(from, to) == place = "idle" /\ phase = from /\ phase' = to

\* The rest of the call needs none of it.
Forget == request' = Forgotten /\ argv' = Forgotten /\ written' = {}

-----------------------------------------------------------------------------
(* Preparing *)

\* The executable is there and the credentials were read.
Resolve ==
  /\ Passes("asked", "resolved")
  /\ UNCHANGED <<request, argv, written, supVars, storeVars>>

MakeSession ==
  /\ place = "idle" /\ phase = "resolved"
  /\ Store!Make(Own) \/ Store!Write(Own, "marker")
  /\ UNCHANGED <<launchVars, supVars>>

\* Shells and custom commands get every file that is not only a dependency.
Plan ==
  /\ "marker" \in kept[Own]
  /\ Passes("resolved", "planned")
  /\ IF request.client \in Clients
     THEN UNCHANGED <<written, storeVars>>
     ELSE /\ written' = Everything(request.kafka, request.registry)
          /\ Store!Write(Own, "material")
  /\ UNCHANGED <<request, argv, supVars>>

\* An adapter prepares the direct command; the files it names are written.
PrepareClient ==
  /\ Passes("planned", "ready")
  /\ request.client \in Clients
  /\ \E a \in Argvs(request.client) :
       LET k == request.kafka
           r == request.registry IN
       /\ Direct(request.client, k, r, a.release, a.fit, a.use) = "run"
       /\ argv' = a
       /\ written' = WithRequired(Told(request.client, k, r, a.use), k, r)
  /\ Store!Write(Own, "material")
  /\ UNCHANGED <<request, supVars>>

\* The shell's shims are rendered; a custom command is left as it is.
PrepareOther ==
  /\ Passes("planned", "ready")
  /\ request.client \in {"custom", "shell"}
  /\ UNCHANGED <<request, argv, written, supVars, storeVars>>

\* A refusal, an OSError or an interrupt while the request is prepared.
Refuse ==
  /\ \E from \in {"asked", "resolved", "planned", "ready"} : Passes(from, "refused")
  /\ Forget
  /\ UNCHANGED <<supVars, storeVars>>

-----------------------------------------------------------------------------
(* Running and closing *)

\* The process of Own is inside run_supervised_process.
Supervising == place \notin {"idle"} \cup Ended

\* The child is started once its files are there.
StartChild ==
  /\ phase = "ready" /\ phase' = "launched"
  /\ Start \/ StartFails
  /\ Forget
  /\ UNCHANGED storeVars

Supervise == (Runs \/ Disturbed \/ GroupStep) /\ UNCHANGED <<launchVars, storeVars>>

ProcessDies == SupervisorDies /\ Store!Abandon(Own) /\ UNCHANGED launchVars

Finished == phase = "refused" \/ (phase = "launched" /\ ~Supervising)

\* Mutant of Close: the call is not waited for.
CloseEarly ==
  /\ phase \in {"refused", "launched"}
  /\ Store!Leave(Own)
  /\ UNCHANGED <<launchVars, supVars>>

\* The `finally` of run_profile_session.
Close ==
  /\ Finished
  /\ Store!Leave(Own)
  /\ UNCHANGED <<launchVars, supVars>>

\* The process dies outside the supervised call.
DiesElsewhere ==
  /\ ~Supervising
  /\ phase' = IF phase = "launched" THEN phase ELSE "refused"
  /\ Forget
  /\ Store!Abandon(Own)
  /\ UNCHANGED supVars

\* Files that nobody holds are deleted, by close or by a later scan.
Delete ==
  /\ Store!Remove(Own) \/ \E f \in Files : Store!Delete(Own, f)
  /\ UNCHANGED <<launchVars, supVars>>

Next ==
  \/ Resolve \/ MakeSession \/ Plan \/ PrepareClient \/ PrepareOther \/ Refuse
  \/ StartChild \/ Supervise \/ ProcessDies \/ Close \/ DiesElsewhere \/ Delete

Spec == Init /\ [][Next]_vars

\* The supervisor goes on between its polls, the grace passes, a killed
\* process ends.  Nothing else is fair: a child may run for ever.
FairSpec ==
  /\ Spec
  /\ WF_vars(Runs /\ UNCHANGED <<launchVars, storeVars>>)
  /\ WF_vars(GraceEnds /\ UNCHANGED <<launchVars, storeVars>>)
  /\ WF_vars(killed /\ (LeaderEnds \/ OthersEnd) /\ UNCHANGED <<launchVars, storeVars>>)

-----------------------------------------------------------------------------
(* Properties *)

\* As long as the child works it has the files it was given: nobody, the
\* supervising process or a scan, has begun to delete them, unless that
\* process died or was interrupted where nothing protects it.
ChildKeepsItsFiles ==
  (Working /\ ~killed) =>
    \/ life[Own] = "held" /\ kept[Own] = Files
    \/ place = "dead"
    \/ interrupted \cap Unprotected # {}

\* A child that has ended, or that was sent a signal, is not waited for for
\* ever: the call ends.
CallEnds ==
  (place = "waiting" /\ (leader = "zombie" \/ deadline # "none")) ~> place \in Ended

\* Every file the child is told of is on disk, and so is every file that one
\* names; a decrypted key is there only for a configuration that names it.
ToldOf(q) ==
  IF q.client \in Clients
  THEN Told(q.client, q.kafka, q.registry, argv.use)
  ELSE Configurations(q.kafka, q.registry)
FilesFit ==
  phase = "ready" =>
    LET k == request.kafka
        r == request.registry IN
    /\ \A f \in ToldOf(request) : {f} \cup NamedIn(f, k, r) \subseteq written
    /\ \A f \in written \cap Copies : \E g \in written : f \in NamedIn(g, k, r)

\* What the capability decision admits can be prepared: no adapter finds its
\* configuration missing, and a Registry that is read is in the configuration,
\* but for Apicurio's encrypted client key, which is left out in silence.
GateIsEnough ==
  phase = "planned" =>
    \A c \in Clients : \A a \in Argvs(c) :
      LET k == request.kafka
          r == request.registry
          answer == Direct(c, k, r, a.release, a.fit, a.use) IN
      /\ answer # "configuration"
      /\ (answer = "run" /\ c = "console") => ConsoleRenders(r)
      /\ (answer = "run" /\ c = "kaskade" /\ ReadsRegistry(c, a.use)) =>
           RegistryRenders(r) \/ (r.provider = "apicurio" /\ r.locked)

\* A client typed in the subshell meets the answer a direct command meets, and
\* the same configuration.  The shims differ where they embed no decision (kcat,
\* and Kaskade without a Registry), and in the spelling `-k=registry`.  The trust
\* that Kaskade takes its tokens with is not compared.
SameAnswer ==
  phase = "planned" =>
    \A c \in Clients : \A a \in Argvs(c) :
      LET k == request.kafka
          r == request.registry
          direct == Direct(c, k, r, a.release, a.fit, a.use) = "run"
          shim == ShimRuns(c, k, r, a.release, a.fit, a.use) IN
      \/ /\ direct = shim
         /\ direct => ReadsRegistry(c, a.use) = ShimReadsRegistry(c, a.use)
      \/ a.use = "short="
      \/ /\ c = "kcat" \/ (c = "kaskade" /\ a.use \in {"plain", "elsewhere", "other"})
         /\ ~Capable(c, k, r, a.release) /\ ~direct
===============================================================================
