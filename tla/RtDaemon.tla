-------------------------------- MODULE RtDaemon --------------------------------
(***************************************************************************)
(* rtdaemon (rtdaemon.c), the process that init starts and that runs libsu *)
(* when it is asked to: one loop that accepts a connection, checks who is  *)
(* calling, reads one request with one read that has no time limit,        *)
(* answers a ping, and forks a process that answers and becomes the        *)
(* command.  Composed with RtStartup: a process of Requested runs libsu    *)
(* only if the daemon is asked for it, the others are run by a shell.      *)
(*                                                                         *)
(* The daemon's place is accept, check, read or fork.  A request is a ping,*)
(* run, many (more than five arguments), missing (a path that cannot be    *)
(* executed), or eof.                                                      *)
(***************************************************************************)
EXTENDS RtStartup

CONSTANT Requested   \* the processes that run if the daemon is asked

ASSUME RequestedAssumption == Requested \subseteq Procs \ Old

Requests == {"ping", "run", "many", "missing", "eof"}

VARIABLES
  dplace, dcli,  \* the daemon's place and the request it serves
  dfds,          \* the connections it has open
  link,          \* a client's connection: none, open, accepted, answered, closed
  caller,        \* has the client the right name and signature
  request,       \* what the client has sent
  kid,           \* the forked process: none, failed, running, zombie, reaped
  dchld          \* a SIGCHLD is pending

loopVars == <<dplace, dcli, dfds>>
kidVars  == <<kid, dchld>>
clientVars == <<link, caller, request>>
daemonVars == <<loopVars, clientVars, kidVars>>
bootVars == <<vars, daemonVars>>

BootInit ==
  /\ Init
  /\ dplace = "accept" /\ dcli = None /\ dfds = {}
  /\ link = [p \in Requested |-> "none"]
  /\ caller \in [Requested -> BOOLEAN]
  /\ request = [p \in Requested |-> "none"]
  /\ kid = [p \in Requested |-> "none"]
  /\ dchld = FALSE

(* close(socket) and the next turn.                                        *)
DHangUp ==
  /\ dplace' = "accept"
  /\ dcli' = None
  /\ dfds' = dfds \ {dcli}

Refuse ==
  /\ DHangUp
  /\ link' = [link EXCEPT ![dcli] = "closed"]
-----------------------------------------------------------------------------
DConnect(p) ==
  /\ link[p] = "none"
  /\ link' = [link EXCEPT ![p] = "open"]
  /\ UNCHANGED <<vars, loopVars, caller, request, kidVars>>

DSend(p) ==
  /\ link[p] \in {"open", "accepted"} /\ request[p] = "none"
  /\ \E r \in Requests : request' = [request EXCEPT ![p] = r]
  /\ UNCHANGED <<vars, loopVars, link, caller, kidVars>>

(* accept; one that a signal interrupts is repeated.                       *)
DAccept(p) ==
  /\ dplace = "accept"
  /\ link[p] = "open"
  /\ link' = [link EXCEPT ![p] = "accepted"]
  /\ dplace' = "check" /\ dcli' = p /\ dfds' = dfds \cup {p}
  /\ UNCHANGED <<vars, caller, request, kidVars>>

(* Fault: the caller is not looked at.                                     *)
DCheckSkipped ==
  /\ dplace = "check"
  /\ dplace' = "read"
  /\ UNCHANGED <<vars, dcli, dfds, clientVars, kidVars>>

(* get_360_pid and checksignature: a good caller may fail the check too.   *)
DCheckPasses ==
  /\ dplace = "check"
  /\ caller[dcli]
  /\ dplace' = "read"
  /\ UNCHANGED <<vars, dcli, dfds, clientVars, kidVars>>

(* Fault: a refused connection stays open.                                 *)
DCheckFailsSilently ==
  /\ dplace = "check"
  /\ dplace' = "accept" /\ dcli' = None
  /\ UNCHANGED <<vars, dfds, clientVars, kidVars>>

DCheckFails ==
  /\ dplace = "check"
  /\ Refuse
  /\ UNCHANGED <<vars, caller, request, kidVars>>

(* read: nothing, a ping, or a command.                                    *)
DReadNothing ==
  /\ dplace = "read"
  /\ request[dcli] = "eof"
  /\ Refuse
  /\ UNCHANGED <<vars, caller, request, kidVars>>

DPing ==
  /\ dplace = "read"
  /\ request[dcli] = "ping"
  /\ DHangUp
  /\ link' = [link EXCEPT ![dcli] = "answered"]
  /\ UNCHANGED <<vars, caller, request, kidVars>>

DRead ==
  /\ dplace = "read"
  /\ request[dcli] \in {"run", "many", "missing"}
  /\ dplace' = "fork"
  /\ UNCHANGED <<vars, dcli, dfds, clientVars, kidVars>>

(* fork: the process has the connection, the daemon closes its copy;       *)
DFork ==
  /\ dplace = "fork"
  /\ kid' = [kid EXCEPT ![dcli] = "running"]
  /\ DHangUp
  /\ UNCHANGED <<vars, clientVars, dchld>>

(* if it fails the connection is neither answered nor closed.              *)
DForkFails ==
  /\ dplace = "fork"
  /\ kid' = [kid EXCEPT ![dcli] = "failed"]
  /\ dplace' = "accept" /\ dcli' = None
  /\ UNCHANGED <<vars, dfds, clientVars, dchld>>

(* The forked process: too many arguments end it without an answer,        *)
KidGivesUp(p) ==
  /\ kid[p] = "running" /\ request[p] = "many"
  /\ link' = [link EXCEPT ![p] = "closed"]
  /\ kid' = [kid EXCEPT ![p] = "zombie"]
  /\ dchld' = TRUE
  /\ UNCHANGED <<vars, loopVars, caller, request>>

(* otherwise it answers "\n", before it knows whether execv succeeds.      *)
KidAnswers(p) ==
  /\ kid[p] = "running" /\ link[p] = "accepted"
  /\ request[p] # "many"
  /\ link' = [link EXCEPT ![p] = "answered"]
  /\ UNCHANGED <<vars, loopVars, caller, request, kidVars>>

KidExecFails(p) ==
  /\ kid[p] = "running" /\ link[p] = "answered"
  /\ request[p] = "missing"
  /\ kid' = [kid EXCEPT ![p] = "zombie"]
  /\ dchld' = TRUE
  /\ UNCHANGED <<vars, loopVars, clientVars>>

KidBecomesLibsu(p) ==
  /\ kid[p] = "running" /\ link[p] = "answered"
  /\ request[p] = "run"
  /\ Start(p)
  /\ UNCHANGED daemonVars

KidEnds(p) ==
  /\ kid[p] = "running" /\ at[p] = "done"
  /\ kid' = [kid EXCEPT ![p] = "zombie"]
  /\ dchld' = TRUE
  /\ UNCHANGED <<vars, loopVars, clientVars>>

(* sig_handler waits for one child, however many have ended.               *)
DReap ==
  /\ dchld
  /\ dchld' = FALSE
  /\ \/ \E p \in Requested : kid[p] = "zombie" /\ kid' = [kid EXCEPT ![p] = "reaped"]
     \/ (\A p \in Requested : kid[p] # "zombie") /\ UNCHANGED kid
  /\ UNCHANGED <<vars, loopVars, clientVars>>
-----------------------------------------------------------------------------
DLoop == \/ \E p \in Requested : DAccept(p)
         \/ DCheckPasses \/ DCheckFails
         \/ DReadNothing \/ DPing \/ DRead \/ DFork \/ DForkFails

Kid(p) == KidGivesUp(p) \/ KidAnswers(p) \/ KidExecFails(p) \/ KidBecomesLibsu(p) \/ KidEnds(p)

ShellStarts(p) == p \in Procs \ Requested /\ Start(p) /\ UNCHANGED daemonVars

LibsuRuns(p) ==
  /\ \/ Starting(p) \/ Notifying(p) \/ Serving(p)
     \/ Occupy(p) \/ Release(p) \/ JavaListens(p) \/ Fork(p)
     \/ \E h \in Forked : ForkedCloses(p, h)
  /\ UNCHANGED daemonVars

BootNext == \/ \E p \in Procs : ShellStarts(p) \/ LibsuRuns(p)
            \/ \E p \in Requested : DConnect(p) \/ DSend(p) \/ Kid(p)
            \/ DLoop \/ DReap

BootSpec == BootInit /\ [][BootNext]_bootVars

(* The daemon and what it forks are scheduled, its clients send or leave.  *)
DaemonFairness ==
  /\ WF_bootVars(DLoop) /\ WF_bootVars(DReap)
  /\ \A p \in Requested : WF_bootVars(Kid(p)) /\ WF_bootVars(DSend(p))

FairBootSpec == BootSpec /\ DaemonFairness /\ Scheduling /\ \A p \in Procs : WF_vars(Release(p))
-----------------------------------------------------------------------------
(* The type invariant.                                                     *)
BootTypeOK ==
  /\ TypeOK
  /\ dplace \in {"accept", "check", "read", "fork"}
  /\ dcli \in Requested \cup {None}
  /\ dfds \in SUBSET Requested
  /\ link \in [Requested -> {"none", "open", "accepted", "answered", "closed"}]
  /\ caller \in [Requested -> BOOLEAN]
  /\ request \in [Requested -> Requests \cup {"none"}]
  /\ kid \in [Requested -> {"none", "failed", "running", "zombie", "reaped"}]
  /\ dchld \in BOOLEAN

(* The daemon runs libsu only for a caller it has checked, for the request *)
(* that caller sent, and has answered it by then (lines 61-116).           *)
LaunchedWhenAsked ==
  \A p \in Requested : at[p] # "absent" =>
    caller[p] /\ request[p] = "run" /\ link[p] = "answered"

(* The daemon keeps open the connection it serves and, of all the others,  *)
(* only those whose fork failed (lines 53-127).                            *)
DaemonKeepsOnlyFailed ==
  dfds = {p \in Requested : kid[p] = "failed"} \cup (IF dplace = "accept" THEN {} ELSE {dcli})

(* The daemon's account of its callers.                                    *)
DaemonHonest == LaunchedWhenAsked /\ DaemonKeepsOnlyFailed

(* The request being served is a new one, accepted; what is forked has the *)
(* daemon's word that its caller was checked.                              *)
DaemonInv ==
  /\ dplace # "accept" => dcli \in Requested /\ link[dcli] = "accepted" /\ kid[dcli] = "none"
  /\ dplace \in {"read", "fork"} => caller[dcli]
  /\ \A p \in Requested : kid[p] # "none" => caller[p] /\ link[p] \notin {"none", "open"}

(* The inductive invariant of libsu's starts beside the daemon.            *)
BootInv == StartupInv /\ BootTypeOK /\ DaemonInv /\ DaemonHonest

(* Every caller whose fork does not fail is answered or refused.           *)
CallersEnd ==
  \A p \in Requested :
    link[p] = "open" ~> link[p] \in {"answered", "closed"} \/ kid[p] = "failed"

(* What a start has begun comes to its end: the start itself, the hold of  *)
(* those that have ended on their name, the notice to Java, the daemon's   *)
(* answer.                                                                 *)
BootSettles == StartsSettle /\ NameFreed /\ JavaHears /\ CallersEnd
=============================================================================
