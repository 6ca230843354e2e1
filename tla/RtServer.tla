-------------------------------- MODULE RtServer --------------------------------
(***************************************************************************)
(* libsu's server process (run_server of su.c): one loop that waits for a  *)
(* connection or for a deletion in the watched directory, accepts, checks  *)
(* who is calling, reads one request and answers it or forks a handler for *)
(* it (RtRequest).  Its children are the handlers, the process that tells  *)
(* Java of the start, and the processes that check a caller's signature;   *)
(* they are reaped by a SIGCHLD handler that calls waitpid once.           *)
(*                                                                         *)
(* The server's place is one of                                            *)
(*   select   in wait_event                accept   about to accept        *)
(*   check1   about to run _system         wait1    in its waitpid         *)
(*   check2   about to run _system2        wait2    reading its result     *)
(*   reap2    in its waitpid               read     reading the request    *)
(*   sleep    "files" was deleted          stat     about to look again    *)
(*   drain    waiting for the children     exited                          *)
(* A client connects once, sends one request or leaves; what becomes of a  *)
(* command's output is RtRequest's matter.                                 *)
(***************************************************************************)
EXTENDS Naturals, Sequences, FiniteSets

CONSTANTS Clients,    \* the processes that connect
          UidOf,      \* their user
          Root,       \* AID_ROOT
          Valid,      \* the users whose package has the right signature
          Backlog,    \* connections the listening socket holds
          Checker, Notifier,   \* names of two children
          None        \* no client

Requests == {"ping", "version", "term", "cmd"}
Children == Clients \cup {Checker, Notifier}
Users == {UidOf[c] : c \in Clients} \cup {Root}

ASSUME NamesAssumption == /\ Checker # Notifier
                          /\ {Checker, Notifier, None} \cap Clients = {}
ASSUME BacklogAssumption == Backlog \in Nat \ {0}

VARIABLES
  place, cli,      \* the server's place and the client it serves
  users,           \* user_list: the users found to be trusted
  fds,             \* the connections the server process has open
  blocked, chld,   \* is SIGCHLD blocked; is it pending
  proc,            \* the children: none, running, zombie, reaped
  verdict,         \* what the signature checker will say: 100 or not
  queue,           \* connections not yet accepted
  link,            \* a client's connection: none, queued, accepted, closed
  msg,             \* what a client has sent: none, a request, or eof
  deleted,         \* an event for "files" is waiting in the inotify queue
  package          \* here, cleared, leaving (being uninstalled), removed

serverVars == <<place, cli, users, fds>>
signalVars == <<blocked, chld>>
childVars  == <<proc, verdict>>
clientVars == <<queue, link, msg>>
watchVars  == <<deleted, package>>
vars == <<serverVars, signalVars, childVars, clientVars, watchVars>>

Init ==
  /\ place = "select" /\ cli = None
  /\ users = {} /\ fds = {}
  /\ blocked = FALSE /\ chld = FALSE
  /\ proc = [k \in Children |-> IF k = Notifier THEN "running" ELSE "none"]
  /\ verdict = FALSE
  /\ queue = <<>>
  /\ link = [c \in Clients |-> "none"]
  /\ msg = [c \in Clients |-> "none"]
  /\ deleted = FALSE /\ package = "here"

Serving == place \notin {"drain", "exited"}
Trusted(u) == u = Root \/ u \in users

(* The server is done with its client: close(cli_fd), next turn.           *)
HangUp ==
  /\ place' = "select"
  /\ cli' = None
  /\ fds' = fds \ {cli}
  /\ link' = [link EXCEPT ![cli] = "closed"]

(* The process ends: what it has not accepted is reset.                    *)
Exit ==
  /\ place' = "exited"
  /\ cli' = None
  /\ fds' = {}
  /\ queue' = <<>>
  /\ link' = [c \in Clients |->
                IF link[c] = "queued" \/ c \in fds THEN "closed" ELSE link[c]]
-----------------------------------------------------------------------------
(* wait_event returns 1: the listening socket is looked at first.          *)
SelectClient ==
  /\ place = "select"
  /\ queue # <<>>
  /\ place' = "accept"
  /\ UNCHANGED <<cli, users, fds, signalVars, childVars, clientVars, watchVars>>

(* wait_event returns 2, and the event is the deletion of "files".         *)
SelectDeletion ==
  /\ place = "select"
  /\ queue = <<>>
  /\ deleted
  /\ deleted' = FALSE
  /\ place' = "sleep"
  /\ UNCHANGED <<cli, users, fds, signalVars, childVars, clientVars, package>>

(* socket_accept: root and known users pass, others are checked.           *)
Accept ==
  LET c == Head(queue) IN
  /\ place = "accept"
  /\ cli' = c
  /\ queue' = Tail(queue)
  /\ link' = [link EXCEPT ![c] = "accepted"]
  /\ fds' = fds \cup {c}
  /\ place' = IF Trusted(UidOf[c]) THEN "read" ELSE "check1"
  /\ UNCHANGED <<users, signalVars, childVars, msg, watchVars>>

(* No credentials for the peer: the connection is closed at once.  (Here a *)
(* temporary server would exit if selresult were 0, but its select is      *)
(* commented out and it stays -1: lines 343-350, 872, 951.)                *)
AcceptUnknown ==
  LET c == Head(queue) IN
  /\ place = "accept"
  /\ queue' = Tail(queue)
  /\ link' = [link EXCEPT ![c] = "closed"]
  /\ place' = "select"
  /\ UNCHANGED <<cli, users, fds, signalVars, childVars, msg, watchVars>>

(* The jar that checks signatures cannot be put in place.                  *)
NoChecker ==
  /\ place = "check1"
  /\ HangUp
  /\ UNCHANGED <<users, signalVars, childVars, queue, msg, watchVars>>

(* The checker says 100 only for a good signature; it may fail on one.     *)
StartChecker ==
  /\ proc' = [proc EXCEPT ![Checker] = "running"]
  /\ verdict' \in BOOLEAN
  /\ verdict' => UidOf[cli] \in Valid

(* Fault: SIGCHLD is not blocked while the checker runs.                   *)
CheckUnblocked ==
  /\ place = "check1"
  /\ StartChecker
  /\ place' = "wait1"
  /\ UNCHANGED <<cli, users, fds, signalVars, clientVars, watchVars>>

(* _system: SIGCHLD is blocked and the checker forked, or not: the return  *)
(* for a failed fork leaves the signal blocked.                            *)
Check ==
  /\ place = "check1"
  /\ blocked' = TRUE
  /\ \/ /\ StartChecker
        /\ place' = "wait1"
     \/ /\ place' = "check2"
        /\ UNCHANGED childVars
  /\ UNCHANGED <<cli, users, fds, chld, clientVars, watchVars>>

(* The result is 100: the user is added to the list, if there is memory.   *)
Pass ==
  /\ users' \in {users, users \cup {UidOf[cli]}}
  /\ place' = "read"

(* Fault: the status of the checker is not looked at.                      *)
CheckedUnread ==
  /\ place = "wait1"
  /\ proc[Checker] \in {"zombie", "reaped"}
  /\ proc' = [proc EXCEPT ![Checker] = "none"]
  /\ blocked' = FALSE
  /\ Pass
  /\ UNCHANGED <<cli, fds, chld, verdict, clientVars, watchVars>>

(* waitpid(pid) in _system: the status, or an error if the child is gone;  *)
(* then SIGCHLD is unblocked.                                              *)
Checked ==
  /\ place = "wait1"
  /\ proc[Checker] \in {"zombie", "reaped"}
  /\ proc' = [proc EXCEPT ![Checker] = "none"]
  /\ blocked' = FALSE
  /\ IF proc[Checker] = "zombie" /\ verdict
       THEN Pass
       ELSE place' = "check2" /\ UNCHANGED users
  /\ UNCHANGED <<cli, fds, chld, verdict, clientVars, watchVars>>

(* _system2, for a first check that did not say 100.  It forks a process   *)
(* that forks the checker and exits; without a socket pair it returns with *)
(* SIGCHLD blocked, without a process it unblocks it.                      *)
Check2 ==
  /\ place = "check2"
  /\ blocked' = TRUE
  /\ StartChecker
  /\ place' = "wait2"
  /\ UNCHANGED <<cli, users, fds, chld, clientVars, watchVars>>

(* Fault: a refused connection is not closed.                              *)
Check2LeaksFd ==
  /\ place = "check2"
  /\ blocked' \in BOOLEAN
  /\ place' = "select"
  /\ cli' = None
  /\ UNCHANGED <<users, fds, chld, childVars, clientVars, watchVars>>

Check2Fails ==
  /\ place = "check2"
  /\ blocked' \in BOOLEAN
  /\ HangUp
  /\ UNCHANGED <<users, chld, childVars, queue, msg, watchVars>>

(* The result is read from the pair, or is not there in 15 s; SIGCHLD is   *)
(* unblocked before the child is waited for, so its handler may be first.  *)
Checked2 ==
  /\ place = "wait2"
  /\ blocked' = FALSE
  /\ place' = "reap2"
  /\ UNCHANGED <<cli, users, fds, chld, childVars, clientVars, watchVars>>

Reap2 ==
  /\ place = "reap2"
  /\ proc[Checker] \in {"zombie", "reaped"}
  /\ proc' = [proc EXCEPT ![Checker] = "none"]
  /\ IF verdict THEN Pass /\ UNCHANGED <<cli, fds, link>>
                ELSE HangUp /\ UNCHANGED users
  /\ UNCHANGED <<signalVars, verdict, queue, msg, watchVars>>
-----------------------------------------------------------------------------
(* Fault: the connection is kept when nothing could be read from it.       *)
ReadNothingKeeps ==
  /\ place = "read"
  /\ msg[cli] = "eof"
  /\ place' = "select"
  /\ cli' = None
  /\ UNCHANGED <<users, fds, signalVars, childVars, clientVars, watchVars>>

(* readx returns nothing: "-1", and the connection is closed.              *)
ReadNothing ==
  /\ place = "read"
  /\ msg[cli] = "eof"
  /\ HangUp
  /\ UNCHANGED <<users, signalVars, childVars, queue, msg, watchVars>>

(* do_ping and do_getversion answer at once.                               *)
AnswerAtOnce ==
  /\ place = "read"
  /\ msg[cli] \in {"ping", "version"}
  /\ HangUp
  /\ UNCHANGED <<users, signalVars, childVars, queue, msg, watchVars>>

(* A request to end: the listening socket is closed, "-1" sent, exit(0).   *)
Terminate ==
  /\ place = "read"
  /\ msg[cli] = "term"
  /\ Exit
  /\ UNCHANGED <<users, signalVars, childVars, msg, watchVars>>

(* A command: the handler has the connection, the server closes its copy.  *)
ForkHandler ==
  /\ place = "read"
  /\ msg[cli] = "cmd"
  /\ proc' = [proc EXCEPT ![cli] = "running"]
  /\ fds' = fds \ {cli}
  /\ cli' = None
  /\ place' = "select"
  /\ UNCHANGED <<users, signalVars, verdict, clientVars, watchVars>>

ForkFails ==
  /\ place = "read"
  /\ msg[cli] = "cmd"
  /\ HangUp
  /\ UNCHANGED <<users, signalVars, childVars, queue, msg, watchVars>>
-----------------------------------------------------------------------------
(* sleep(1): an uninstallation removes the directory in that time.         *)
SleepOver ==
  /\ place = "sleep"
  /\ package # "leaving"
  /\ place' = "stat"
  /\ UNCHANGED <<cli, users, fds, signalVars, childVars, clientVars, watchVars>>

(* Fault: the deletion of "files" is taken for an uninstallation.          *)
StatAlways ==
  /\ place = "stat"
  /\ place' = "drain"
  /\ queue' = <<>>
  /\ link' = [c \in Clients |-> IF link[c] = "queued" THEN "closed" ELSE link[c]]
  /\ UNCHANGED <<cli, users, fds, signalVars, childVars, msg, watchVars>>

(* The directory is gone: the listening socket is closed, queue and all,   *)
StatGone ==
  /\ place = "stat"
  /\ package = "removed"
  /\ place' = "drain"
  /\ queue' = <<>>
  /\ link' = [c \in Clients |-> IF link[c] = "queued" THEN "closed" ELSE link[c]]
  /\ UNCHANGED <<cli, users, fds, signalVars, childVars, msg, watchVars>>

(* or it is there: the package's data was cleared, or stat came too early. *)
StatThere ==
  /\ place = "stat"
  /\ package # "removed"
  /\ place' = "select"
  /\ UNCHANGED <<cli, users, fds, signalVars, childVars, clientVars, watchVars>>

(* wait(NULL) returns a child,                                             *)
DrainOne(k) ==
  /\ place = "drain"
  /\ proc[k] = "zombie"
  /\ proc' = [proc EXCEPT ![k] = "reaped"]
  /\ UNCHANGED <<serverVars, signalVars, verdict, clientVars, watchVars>>

(* or says that there is none, and the server exits.                       *)
DrainDone ==
  /\ place = "drain"
  /\ \A k \in Children : proc[k] \notin {"running", "zombie"}
  /\ Exit
  /\ UNCHANGED <<users, signalVars, childVars, msg, watchVars>>

(* mainsigchld: one waitpid for all the children that have exited.         *)
ReapOne ==
  \/ \E k \in Children : proc[k] = "zombie" /\ proc' = [proc EXCEPT ![k] = "reaped"]
  \/ /\ \A k \in Children : proc[k] # "zombie"
     /\ UNCHANGED proc

(* It may be called wherever the signal is not blocked; a select or read   *)
(* that it interrupts is repeated,                                         *)
Sigchld ==
  /\ chld /\ ~blocked
  /\ place \notin {"exited", "sleep"}
  /\ chld' = FALSE
  /\ ReapOne
  /\ UNCHANGED <<serverVars, blocked, verdict, clientVars, watchVars>>

(* but a sleep that it interrupts is over,                                 *)
SigchldInSleep ==
  /\ chld /\ ~blocked
  /\ place = "sleep"
  /\ chld' = FALSE
  /\ ReapOne
  /\ place' = "stat"
  /\ UNCHANGED <<cli, users, fds, blocked, verdict, clientVars, watchVars>>

(* and so is the draining: an interrupted wait returns -1 too.             *)
SigchldInDrain ==
  /\ chld /\ ~blocked
  /\ place = "drain"
  /\ chld' = FALSE
  /\ ReapOne
  /\ Exit
  /\ UNCHANGED <<users, blocked, verdict, msg, watchVars>>
-----------------------------------------------------------------------------
(* A child exits; signals that are pending already are not counted.        *)
ChildExits(k) ==
  /\ proc[k] = "running"
  /\ proc' = [proc EXCEPT ![k] = "zombie"]
  /\ chld' = TRUE
  /\ link' = IF k \in Clients THEN [link EXCEPT ![k] = "closed"] ELSE link
  /\ UNCHANGED <<serverVars, blocked, verdict, queue, msg, watchVars>>

(* A client connects; the backlog is what listen was told.                 *)
Connect(c) ==
  /\ Serving
  /\ link[c] = "none"
  /\ Len(queue) < Backlog
  /\ queue' = Append(queue, c)
  /\ link' = [link EXCEPT ![c] = "queued"]
  /\ UNCHANGED <<serverVars, signalVars, childVars, msg, watchVars>>

(* A connected client sends a request or leaves.                           *)
Send(c) ==
  /\ link[c] \in {"queued", "accepted"}
  /\ msg[c] = "none"
  /\ \E m \in Requests \cup {"eof"} : msg' = [msg EXCEPT ![c] = m]
  /\ UNCHANGED <<serverVars, signalVars, childVars, queue, link, watchVars>>

(* The package manager clears the data or begins to uninstall; either      *)
(* deletes "files".  An uninstallation then removes the directory.         *)
Delete ==
  /\ package = "here"
  /\ package' \in {"cleared", "leaving"}
  /\ deleted' = TRUE
  /\ UNCHANGED <<serverVars, signalVars, childVars, clientVars>>

Remove ==
  /\ package = "leaving"
  /\ package' = "removed"
  /\ UNCHANGED <<serverVars, signalVars, childVars, clientVars, deleted>>
-----------------------------------------------------------------------------
Server == \/ SelectClient \/ SelectDeletion \/ Accept \/ AcceptUnknown
          \/ NoChecker \/ Check \/ Checked \/ Check2 \/ Check2Fails \/ Checked2 \/ Reap2
          \/ ReadNothing \/ AnswerAtOnce \/ Terminate \/ ForkHandler \/ ForkFails
          \/ SleepOver \/ StatGone \/ StatThere
          \/ DrainDone \/ \E k \in Children : DrainOne(k)

Signals == Sigchld \/ SigchldInSleep \/ SigchldInDrain

Next == \/ Server \/ Signals
        \/ \E k \in Children : ChildExits(k)
        \/ \E c \in Clients : Connect(c) \/ Send(c)
        \/ Delete \/ Remove

Spec == Init /\ [][Next]_vars

(* The server is scheduled, its signals are delivered, its children end    *)
(* (RtRequest!RequestEnds), and an uninstallation is carried through.      *)
Scheduling == /\ WF_vars(Server) /\ WF_vars(Signals) /\ WF_vars(Remove)
              /\ \A k \in Children : WF_vars(ChildExits(k))

FairSpec == Spec /\ Scheduling
TalkingSpec == FairSpec /\ \A c \in Clients : WF_vars(Send(c))
-----------------------------------------------------------------------------
Places == {"select", "accept", "check1", "wait1", "check2", "wait2", "reap2",
           "read", "sleep", "stat", "drain", "exited"}

(* The type invariant.                                                     *)
TypeOK ==
  /\ place \in Places
  /\ cli \in Clients \cup {None}
  /\ users \in SUBSET Users
  /\ fds \in SUBSET Clients
  /\ blocked \in BOOLEAN
  /\ chld \in BOOLEAN
  /\ proc \in [Children -> {"none", "running", "zombie", "reaped"}]
  /\ verdict \in BOOLEAN
  /\ queue \in Seq(Clients) /\ Len(queue) <= Backlog
  /\ link \in [Clients -> {"none", "queued", "accepted", "closed"}]
  /\ msg \in [Clients -> Requests \cup {"none", "eof"}]
  /\ deleted \in BOOLEAN
  /\ package \in {"here", "cleared", "leaving", "removed"}

Examining == {"check1", "wait1", "check2", "wait2", "reap2", "read"}

(* The server has no connection open but the one it serves: every way out  *)
(* of the loop body closes it, and a handler's copy is its own (lines 948-1014). *)
NoLeakedConnection == fds = IF place \in Examining THEN {cli} ELSE {}

(* Commands run only for root and for users with a valid signature, however*)
(* the list of trusted users was filled (lines 362-388).                   *)
OnlyTrustedServed ==
  \A c \in Clients : proc[c] # "none" => UidOf[c] = Root \/ UidOf[c] \in Valid

(* The SIGCHLD handler, which waits for any child, never takes the exit    *)
(* status that _system is about to wait for: another child may exit at the *)
(* same time, but the signal is blocked (suutil.c, 161-188).         *)
StatusNotStolen == place = "wait1" => proc[Checker] \in {"running", "zombie"}

(* The server exits only for an uninstallation or a trusted user's request;*)
(* clearing the data of the package is neither (lines 881-941, 972-979).   *)
ExitOnlyWhenTold ==
  ~Serving => \/ package = "removed"
              \/ \E c \in Clients : msg[c] = "term" /\ (UidOf[c] = Root \/ UidOf[c] \in Valid)

(* Whoever connects is done with in the end, if clients send or leave:     *)
(* neither a check, nor a fork that fails, nor the end of the server       *)
(* leaves a connection open for ever.                                      *)
ConnectionsEnd == \A c \in Clients : link[c] = "queued" ~> link[c] = "closed"

CheckedUser(u) == u = Root \/ u \in Valid

(* Who may be given a handler, who has one, and who was dealt with.        *)
Entitled == {c \in Clients : CheckedUser(UidOf[c])}
Helped == {c \in Clients : proc[c] = "running"}
Done == {c \in Clients : link[c] = "closed"}

Line == INSTANCE RtLine WITH open <- Serving, waiting <- queue, now <- cli,
                             helped <- Helped, done <- Done

(* The clients see the line that RtLine promises: whatever way the server  *)
(* takes through its loop, and whichever of its children end meanwhile, it *)
(* takes them in their order and loses none (lines 879-1016).              *)
KeepsLine == Line!Spec
-----------------------------------------------------------------------------
(* The inductive invariant behind the safety properties.                   *)
TrustInv ==
  /\ users \subseteq Valid
  /\ place = "read" => CheckedUser(UidOf[cli])
  /\ place \in {"wait1", "wait2", "reap2"} /\ verdict => UidOf[cli] \in Valid
  /\ \A c \in Clients : proc[c] # "none" => CheckedUser(UidOf[c])

ServeInv ==
  /\ cli = None <=> place \notin Examining
  /\ NoLeakedConnection
  /\ place = "accept" => queue # <<>>
  /\ place = "wait1" => blocked

ChildInv ==
  /\ proc[Checker] # "none" <=> place \in {"wait1", "wait2", "reap2"}
  /\ StatusNotStolen

(* Each client is in one place: it has not come, stands in the queue, is   *)
(* served or has a handler, or is done with.                               *)
LineInv ==
  /\ \A i, j \in DOMAIN queue : i # j => queue[i] # queue[j]
  /\ \A c \in Clients : link[c] = "queued" <=> \E i \in DOMAIN queue : queue[i] = c
  /\ \A c \in Clients : link[c] = "accepted" <=> c = cli \/ proc[c] = "running"
  /\ \A c \in Clients : link[c] \in {"none", "queued"} \/ c = cli => proc[c] = "none"
  /\ ~Serving => queue = <<>> /\ cli = None

IInv == TypeOK /\ TrustInv /\ ServeInv /\ ChildInv /\ LineInv /\ ExitOnlyWhenTold
=============================================================================
