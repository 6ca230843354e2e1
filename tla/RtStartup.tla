------------------------------- MODULE RtStartup -------------------------------
(***************************************************************************)
(* How libsu's server comes to run (su.c: main, do_run_server,             *)
(* cleanup_process, create_server_socket, notify_java_server, and the part *)
(* of run_server before its loop).  A process started with -server asks    *)
(* the server that has the permanent socket name to end, takes the name    *)
(* and serves; if the name is taken it tells Java of an error and serves   *)
(* under a temporary name, as a process started with -c does at once.      *)
(*                                                                         *)
(* A process p is at                                                       *)
(*   absent    not started             connect   in cleanup_process        *)
(*   write     about to send "\n\n"    await     in its readx              *)
(*   bind      about to take the name  complain  telling Java of an error  *)
(*   loop      in its loop             held      serving somebody else     *)
(*   reading   has accepted a starter  closed    its listening descriptor  *)
(*                                               is closed, about to reply *)
(*   done      ended                                                       *)
(* RtServer models the loop; here it is what a starter can tell of it.     *)
(***************************************************************************)
EXTENDS Naturals, Sequences, FiniteSets

CONSTANTS Procs,      \* the processes that run libsu's main
          Silent,     \* those whose Java server is "--": init started them
          Old,        \* the server that runs already: one process or none
          Backlog,    \* connections a listening socket holds
          Tries,      \* how often the Java server is tried: i = 0..3
          None        \* no process

ASSUME ProcsAssumption == Silent \subseteq Procs /\ None \notin Procs
ASSUME OldAssumption == Old \subseteq Procs /\ \A p, q \in Old : p = q
ASSUME BacklogAssumption == Backlog \in Nat \ {0}
ASSUME TriesAssumption == Tries \in Nat \ {0}

Forked == {"notifier", "child"}

VARIABLES
  at,       \* where each process is
  name,     \* the name it is to bind or has bound: none, perm or temp
  holds,    \* who has its listening socket open: main and forked processes
  queue,    \* connections of starters it has not accepted
  cli,      \* the starter whose connection it has accepted
  conn,     \* a starter's connection: none, open, answered, reset
  server,   \* the process it is connected to
  tries,    \* attempts to reach Java
  notifier, \* the process that tells Java: none, failed, trying, done
  told,     \* what Java was told: error, perm, temp
  java      \* is Java's server socket there

socketVars == <<holds, queue, cli, conn, server>>
javaVars   == <<tries, notifier, told, java>>
vars == <<at, name, socketVars, javaVars>>

Init ==
  /\ at = [p \in Procs |-> IF p \in Old THEN "loop" ELSE "absent"]
  /\ name = [p \in Procs |-> IF p \in Old THEN "perm" ELSE "none"]
  /\ holds = [p \in Procs |-> IF p \in Old THEN {"main"} ELSE {}]
  /\ queue = [p \in Procs |-> <<>>]
  /\ cli = [p \in Procs |-> None]
  /\ conn = [p \in Procs |-> "none"]
  /\ server = [p \in Procs |-> None]
  /\ tries = [p \in Procs |-> 0]
  /\ notifier = [p \in Procs |-> IF p \in Old THEN "done" ELSE "none"]
  /\ told = [p \in Procs |-> <<>>]
  /\ java = [p \in Procs |-> FALSE]

(* The socket that has the permanent name lives while anybody has it open. *)
Owners == {p \in Procs : name[p] = "perm" /\ holds[p] # {}}

Queued(q, s) == \E i \in DOMAIN queue[s] : queue[s][i] = q

(* h closes its copy of p's socket; with the last one the connections that *)
(* were not accepted are reset.                                            *)
Close(p, h) ==
  /\ holds' = [holds EXCEPT ![p] = @ \ {h}]
  /\ IF holds[p] \subseteq {h}
       THEN /\ queue' = [queue EXCEPT ![p] = <<>>]
            /\ conn' = [q \in Procs |-> IF Queued(q, p) THEN "reset" ELSE conn[q]]
       ELSE UNCHANGED <<queue, conn>>
-----------------------------------------------------------------------------
(* main: -server and -c; too few arguments, another word or a name of more *)
(* than 64 characters end the process.                                     *)
StartServer(p) ==
  /\ at[p] = "absent"
  /\ at' = [at EXCEPT ![p] = "connect"]
  /\ name' = [name EXCEPT ![p] = "perm"]
  /\ UNCHANGED <<socketVars, javaVars>>

StartTemporary(p) ==
  /\ at[p] = "absent"
  /\ at' = [at EXCEPT ![p] = "bind"]
  /\ name' = [name EXCEPT ![p] = "temp"]
  /\ UNCHANGED <<socketVars, javaVars>>

BadArguments(p) ==
  /\ at[p] = "absent"
  /\ at' = [at EXCEPT ![p] = "done"]
  /\ UNCHANGED <<name, socketVars, javaVars>>

(* Not root: Java is told of an error, and that is all.                    *)
NotRoot(p) ==
  /\ at[p] = "absent"
  /\ at' = [at EXCEPT ![p] = "complain"]
  /\ UNCHANGED <<name, socketVars, javaVars>>

(* create_client_socket in cleanup_process.  Who has the name is asked;    *)
Ask(p, s) ==
  /\ at[p] = "connect"
  /\ s \in Owners
  /\ Len(queue[s]) < Backlog
  /\ queue' = [queue EXCEPT ![s] = Append(@, p)]
  /\ conn' = [conn EXCEPT ![p] = "open"]
  /\ server' = [server EXCEPT ![p] = s]
  /\ at' = [at EXCEPT ![p] = "write"]
  /\ UNCHANGED <<name, holds, cli, javaVars>>

(* if there is nobody, or the queue stays full for three seconds, nobody   *)
(* is asked.                                                               *)
AskNobody(p) ==
  /\ at[p] = "connect"
  /\ \A s \in Owners : Len(queue[s]) >= Backlog
  /\ at' = [at EXCEPT ![p] = "bind"]
  /\ UNCHANGED <<name, socketVars, javaVars>>

(* writex sends "\n\n".                                                    *)
SendTerm(p) ==
  /\ at[p] = "write"
  /\ conn[p] = "open"
  /\ at' = [at EXCEPT ![p] = "await"]
  /\ UNCHANGED <<name, socketVars, javaVars>>

(* On a connection that was reset it fails, and SIGPIPE, whose handler is  *)
(* set later, kills the starter unless it was started with it ignored.     *)
SendTermReset(p) ==
  /\ at[p] = "write"
  /\ conn[p] = "reset"
  /\ \E next \in {"bind", "done"} : at' = [at EXCEPT ![p] = next]
  /\ UNCHANGED <<name, socketVars, javaVars>>

(* Fault: a connection that ends without a reply is not noticed.           *)
AnsweredOnly(p) ==
  /\ at[p] = "await"
  /\ conn[p] = "answered"
  /\ at' = [at EXCEPT ![p] = "bind"]
  /\ UNCHANGED <<name, socketVars, javaVars>>

(* readx waits for the reply or the end of the connection; the read that   *)
(* times out after RW_TIMEOUT is repeated (suutil.c 140-148).              *)
Answered(p) ==
  /\ at[p] = "await"
  /\ conn[p] \in {"answered", "reset"}
  /\ at' = [at EXCEPT ![p] = "bind"]
  /\ UNCHANGED <<name, socketVars, javaVars>>

(* What the starter knew of the old server is over: close(fd).             *)
Forget(p) ==
  /\ conn' = [conn EXCEPT ![p] = "none"]
  /\ server' = [server EXCEPT ![p] = None]

(* Fault: nobody tells Java that the server is there.                      *)
ServeUntold(p) ==
  /\ at' = [at EXCEPT ![p] = "loop"]
  /\ holds' = [holds EXCEPT ![p] = {"main"}]
  /\ Forget(p)
  /\ UNCHANGED <<name, queue, cli, javaVars>>

(* create_server_socket: the permanent name, if it is free.  A process is  *)
(* forked to tell Java, which begins with the listening socket open; or    *)
(* fork fails.  The loop is entered in either case.                        *)
Serve(p) ==
  /\ at' = [at EXCEPT ![p] = "loop"]
  /\ tries' = [tries EXCEPT ![p] = 0]
  /\ \/ /\ holds' = [holds EXCEPT ![p] = {"main", "notifier"}]
        /\ notifier' = [notifier EXCEPT ![p] = "trying"]
     \/ /\ holds' = [holds EXCEPT ![p] = {"main"}]
        /\ notifier' = [notifier EXCEPT ![p] = "failed"]
  /\ Forget(p)
  /\ UNCHANGED <<name, queue, cli, told, java>>

(* Fault: the name is not looked at.                                       *)
BindAlways(p) ==
  /\ at[p] = "bind" /\ name[p] = "perm"
  /\ Serve(p)

BindPermanent(p) ==
  /\ at[p] = "bind" /\ name[p] = "perm"
  /\ Owners = {}
  /\ Serve(p)

BindTemporary(p) ==
  /\ at[p] = "bind" /\ name[p] = "temp"
  /\ Serve(p)

(* bind fails: the permanent name is taken, or no temporary one was made   *)
(* (two processes in the same microsecond).                                *)
BindFails(p) ==
  /\ at[p] = "bind"
  /\ name[p] = "perm" => Owners # {}
  /\ at' = [at EXCEPT ![p] = "complain"]
  /\ tries' = [tries EXCEPT ![p] = 0]
  /\ Forget(p)
  /\ UNCHANGED <<name, holds, queue, cli, notifier, told, java>>

(* Fault: the permanent name is tried again.                               *)
RetryAfterComplaint(p) ==
  /\ at' = [at EXCEPT ![p] = IF name[p] = "perm" THEN "bind" ELSE "done"]
  /\ UNCHANGED name

(* notify_java_server in the process itself: after it run_server returns,  *)
(* and do_run_server goes on to the temporary server or ends.              *)
AfterComplaint(p) ==
  IF name[p] = "perm"
    THEN /\ at' = [at EXCEPT ![p] = "bind"]
         /\ name' = [name EXCEPT ![p] = "temp"]
    ELSE /\ at' = [at EXCEPT ![p] = "done"]
         /\ UNCHANGED name

Complain(p) ==
  /\ at[p] = "complain"
  /\ p \notin Silent
  /\ java[p]
  /\ told' = [told EXCEPT ![p] = Append(@, "error")]
  /\ AfterComplaint(p)
  /\ UNCHANGED <<socketVars, tries, notifier, java>>

(* Fault: one attempt too many.                                            *)
ComplainOnceMore(p) ==
  /\ at[p] = "complain"
  /\ p \notin Silent
  /\ ~java[p]
  /\ tries[p] < Tries
  /\ tries' = [tries EXCEPT ![p] = @ + 1]
  /\ UNCHANGED <<at, name, socketVars, notifier, told, java>>

ComplainAgain(p) ==
  /\ at[p] = "complain"
  /\ p \notin Silent
  /\ ~java[p]
  /\ tries[p] + 1 < Tries
  /\ tries' = [tries EXCEPT ![p] = @ + 1]
  /\ UNCHANGED <<at, name, socketVars, notifier, told, java>>

ComplainInVain(p) ==
  /\ at[p] = "complain"
  /\ p \in Silent \/ (~java[p] /\ tries[p] + 1 = Tries)
  /\ AfterComplaint(p)
  /\ UNCHANGED <<socketVars, javaVars>>

(* notify_java_server in the forked process, beside the loop.              *)
Notifier(p) == notifier[p] = "trying" /\ "notifier" \notin holds[p]

TellAddress(p) ==
  /\ Notifier(p)
  /\ p \notin Silent
  /\ java[p]
  /\ told' = [told EXCEPT ![p] = Append(@, name[p])]
  /\ notifier' = [notifier EXCEPT ![p] = "done"]
  /\ UNCHANGED <<at, name, socketVars, tries, java>>

TellAgain(p) ==
  /\ Notifier(p)
  /\ p \notin Silent
  /\ ~java[p]
  /\ tries[p] + 1 < Tries
  /\ tries' = [tries EXCEPT ![p] = @ + 1]
  /\ UNCHANGED <<at, name, socketVars, notifier, told, java>>

TellInVain(p) ==
  /\ Notifier(p)
  /\ p \in Silent \/ (~java[p] /\ tries[p] + 1 = Tries)
  /\ notifier' = [notifier EXCEPT ![p] = "done"]
  /\ UNCHANGED <<at, name, socketVars, tries, told, java>>
-----------------------------------------------------------------------------
(* The loop, for a client that is not a starter: it is answered at once or *)
(* refused (no change), or keeps the server waiting for its request, and   *)
(* may have a child forked for it: a handler, which has the listening      *)
(* socket open until it closes it (line 996), or a signature check that    *)
(* outlives its 15 s, which never does (suutil.c 212-222).                 *)
Occupy(p) ==
  /\ at[p] = "loop"
  /\ at' = [at EXCEPT ![p] = "held"]
  /\ UNCHANGED <<name, socketVars, javaVars>>

Release(p) ==
  /\ at[p] = "held"
  /\ at' = [at EXCEPT ![p] = "loop"]
  /\ UNCHANGED <<name, socketVars, javaVars>>

Fork(p) ==
  /\ at[p] = "held"
  /\ holds' = [holds EXCEPT ![p] = @ \cup {"child"}]
  /\ UNCHANGED <<at, name, queue, cli, conn, server, javaVars>>

(* Fault: a forked child keeps the listening socket.                       *)
OnlyNotifierCloses(p, h) ==
  /\ h \in holds[p] \ {"child"}
  /\ Close(p, h)
  /\ UNCHANGED <<at, name, cli, server, javaVars>>

ForkedCloses(p, h) ==
  /\ h \in holds[p]
  /\ Close(p, h)
  /\ UNCHANGED <<at, name, cli, server, javaVars>>

(* A starter is accepted; it is root.                                      *)
AcceptStarter(p) ==
  /\ at[p] = "loop"
  /\ queue[p] # <<>>
  /\ cli' = [cli EXCEPT ![p] = Head(queue[p])]
  /\ queue' = [queue EXCEPT ![p] = Tail(@)]
  /\ at' = [at EXCEPT ![p] = "reading"]
  /\ UNCHANGED <<name, holds, conn, server, javaVars>>

(* Fault: the reply is sent before the listening socket is closed.         *)
ReplyFirst(p) ==
  /\ at[p] = "reading"
  /\ at[cli[p]] = "await"
  /\ conn' = [conn EXCEPT ![cli[p]] = "answered"]
  /\ at' = [at EXCEPT ![p] = "closed"]
  /\ UNCHANGED <<name, holds, queue, cli, server, javaVars>>

(* "\n\n" is read: close(sserv_fd),                                        *)
CloseListening(p) ==
  /\ at[p] = "reading"
  /\ at[cli[p]] = "await"
  /\ Close(p, "main")
  /\ at' = [at EXCEPT ![p] = "closed"]
  /\ UNCHANGED <<name, cli, server, javaVars>>

(* then "-1" is sent and the process exits.                                *)
ReplyAndExit(p) ==
  /\ at[p] = "closed"
  /\ conn' = [conn EXCEPT ![cli[p]] = "answered"]
  /\ at' = [at EXCEPT ![p] = "done"]
  /\ cli' = [cli EXCEPT ![p] = None]
  /\ UNCHANGED <<name, holds, queue, server, javaVars>>

(* Java creates its server socket.                                         *)
JavaListens(p) ==
  /\ ~java[p] /\ p \notin Silent
  /\ java' = [java EXCEPT ![p] = TRUE]
  /\ UNCHANGED <<at, name, socketVars, tries, notifier, told>>
-----------------------------------------------------------------------------
Start(p) == StartServer(p) \/ StartTemporary(p) \/ BadArguments(p) \/ NotRoot(p)

Starting(p) == \/ AskNobody(p) \/ \E s \in Procs : Ask(p, s)
               \/ SendTerm(p) \/ SendTermReset(p) \/ Answered(p)
               \/ BindPermanent(p) \/ BindTemporary(p) \/ BindFails(p)
               \/ Complain(p) \/ ComplainAgain(p) \/ ComplainInVain(p)

Notifying(p) == TellAddress(p) \/ TellAgain(p) \/ TellInVain(p)

Serving(p) == AcceptStarter(p) \/ CloseListening(p) \/ ReplyAndExit(p)

Next == \E p \in Procs :
  \/ Start(p) \/ Starting(p) \/ Notifying(p) \/ Serving(p)
  \/ Occupy(p) \/ Release(p) \/ JavaListens(p)
  \/ Fork(p)
  \/ \E h \in Forked : ForkedCloses(p, h)

Spec == Init /\ [][Next]_vars

(* Every process is scheduled, what it forks closes its descriptors, and   *)
(* connections are accepted in their order, so that a starter's is after a *)
(* few others'; clients come and Java listens as they like.                *)
Scheduling == \A p \in Procs :
  /\ WF_vars(Starting(p)) /\ WF_vars(Notifying(p))
  /\ SF_vars(Serving(p))
  /\ \A h \in Forked : WF_vars(ForkedCloses(p, h))

FairSpec == Spec /\ Scheduling

(* No client keeps the server waiting for ever.                            *)
TalkingSpec == FairSpec /\ \A p \in Procs : WF_vars(Release(p))
-----------------------------------------------------------------------------
Places == {"absent", "connect", "write", "await", "bind", "complain",
           "loop", "held", "reading", "closed", "done"}
Up == {"loop", "held", "reading"}

(* The type invariant.                                                     *)
TypeOK ==
  /\ at \in [Procs -> Places]
  /\ name \in [Procs -> {"perm", "temp", "none"}]
  /\ holds \in [Procs -> SUBSET (Forked \cup {"main"})]
  /\ queue \in [Procs -> Seq(Procs)]
  /\ cli \in [Procs -> Procs \cup {None}]
  /\ conn \in [Procs -> {"none", "open", "answered", "reset"}]
  /\ server \in [Procs -> Procs \cup {None}]
  /\ tries \in [Procs -> 0 .. Tries - 1]
  /\ notifier \in [Procs -> {"none", "failed", "trying", "done"}]
  /\ told \in [Procs -> Seq({"error", "perm", "temp"})]
  /\ java \in [Procs -> BOOLEAN]

(* However many processes are started with -server, whatever they leave    *)
(* forked, the permanent name belongs to one of them, and a process that   *)
(* serves has its listening socket (lines 255-304, 1044-1056).             *)
OneOwner == \A p, q \in Owners : p = q
OnePermanentServer ==
  /\ OneOwner
  /\ \A p \in Procs : at[p] \in Up => "main" \in holds[p]

(* "采用这种方式可以确保rt_server被关闭" (line 791): a starter that was     *)
(* answered finds the old server's process without its listening socket,   *)
(* and it never serves again.                                              *)
HandoverDone ==
  \A p \in Procs : conn[p] = "answered" =>
    /\ "main" \notin holds[server[p]]
    /\ at[server[p]] \in {"closed", "done"}

(* The permanent name passes from one server to the next.                  *)
Handover == OnePermanentServer /\ HandoverDone

(* What Java hears of one start: an error is only ever followed by another *)
(* error or by a temporary address, an address is the last word and is the *)
(* name that was bound (lines 799-827, 839-858).                           *)
JavaToldRightly ==
  \A p \in Procs : \A i \in DOMAIN told[p] :
    IF told[p][i] = "error" THEN name[p] # "perm"
                            ELSE told[p][i] = name[p] /\ i = Len(told[p])

-----------------------------------------------------------------------------
(* The inductive invariant.                                                *)

(* Who has a listening socket: nobody before it is bound, the process      *)
(* itself as long as it serves, and then only what it has forked.          *)
Before == {"absent", "connect", "write", "await", "bind", "complain"}
HoldInv ==
  \A p \in Procs :
    /\ at[p] \in Before => holds[p] = {}
    /\ at[p] \in Up => "main" \in holds[p]
    /\ at[p] \in {"closed", "done"} => "main" \notin holds[p]
    /\ at[p] = "absent" => name[p] = "none"
    /\ at[p] \in {"connect", "write", "await", "bind"} => name[p] # "none"

(* A starter s knows of is connected to s, waits, and is there once.       *)
Waits(q, s) == server[q] = s /\ conn[q] = "open" /\ at[q] \in {"write", "await"}
LineInv ==
  \A s \in Procs :
    /\ \A q \in Procs : Queued(q, s) => Waits(q, s) /\ cli[s] # q
    /\ \A i, j \in DOMAIN queue[s] : queue[s][i] = queue[s][j] => i = j
    /\ cli[s] # None => Waits(cli[s], s)
    /\ at[s] \in {"reading", "closed"} => cli[s] # None
    /\ conn[s] = "answered" => server[s] # None

(* An address is told by the notifier alone, which tells it once.          *)
JavaInv ==
  /\ JavaToldRightly
  /\ \A p \in Procs :
       /\ at[p] \in Before => notifier[p] = "none"
       /\ at[p] = "absent" => told[p] = <<>>
       /\ notifier[p] # "done" => \A i \in DOMAIN told[p] : told[p][i] = "error"
       /\ notifier[p] = "trying" => name[p] # "none"

StartupInv == TypeOK /\ OneOwner /\ HoldInv /\ LineInv /\ HandoverDone /\ JavaInv
-----------------------------------------------------------------------------
(* A process started with -server ends up serving, or ends: the old server *)
(* answers, or ends without answering, or is not there.                    *)
StartsSettle ==
  \A p \in Procs : at[p] = "connect" ~> at[p] \in Up \cup {"closed", "done"}

(* When a server has ended nobody keeps its name for ever: handlers and    *)
(* the notifier close the listening socket, a signature check ends.        *)
NameFreed == \A p \in Procs : at[p] = "done" ~> holds[p] = {}

(* Java hears of a start if it listens by then and a process can be forked *)
(* to tell it, be it that the start fails.                                 *)
JavaHears ==
  \A p \in Procs \ Silent :
    java[p] /\ at[p] = "bind" ~> told[p] # <<>> \/ notifier[p] = "failed"

(* "设置套接字超时，防止等待时间过长" (line 784): a starter does not wait for   *)
(* the old server for ever.                                                *)
AwaitBounded == \A p \in Procs : at[p] = "await" ~> at[p] # "await"
=============================================================================
