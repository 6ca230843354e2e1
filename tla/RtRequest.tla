------------------------------- MODULE RtRequest -------------------------------
(***************************************************************************)
(* One request to libsu's server, handled by the process that the server   *)
(* forks for it (handle_request of su.c).  Four processes take part:       *)
(*                                                                         *)
(*   the handler   checks the request, forks, copies the command's output  *)
(*                 from a socket pair to the client, reaps, closes;        *)
(*   the middle    forks the command and exits at once (line 486), so that *)
(*                 init adopts the command;                                *)
(*   the command   waits to be adopted, runs, writes to the pair, exits;   *)
(*   the client    reads the reply, or goes away.                          *)
(*                                                                         *)
(* The handler's place h is one of                                         *)
(*   check fork select read write mark wait finish abort close done        *)
(* A piece of output is what one read of the pair returns (<= 4096 bytes). *)
(***************************************************************************)
EXTENDS Naturals

CONSTANTS MaxOutput,       \* MAX_OUTPUT_BYTES, in pieces
          MaxPieces,       \* bound: what a command writes
          PairCapacity,    \* pieces the socket pair buffers
          ClientCapacity   \* pieces the client's connection buffers

ASSUME SizesAssumption ==
  /\ MaxOutput \in Nat /\ MaxPieces \in Nat
  /\ PairCapacity \in Nat \ {0} /\ ClientCapacity \in Nat \ {0}

VARIABLES
  kind,      \* the result type of the request, req[0]
  h, tries,  \* the handler's place; k, the selects that returned nothing
  expired,   \* has the time allowed for the current phase run out: 120 s of
             \* waiting for the first output, 90 s of copying
  sigchld,   \* a SIGCHLD of the middle process is pending in the handler
  mid,       \* the middle process
  cmd, produced,   \* the command, and what it wrote
  pair,      \* pieces in the socket pair, not yet read
  inbox,     \* pieces sent to the client, not yet read by it
  sent, ending, open,      \* the reply, as in RtReply
  client     \* "open" or "gone"

replyVars   == <<sent, ending, open>>
handlerVars == <<h, tries>>
cmdVars     == <<cmd, produced>>
vars == <<kind, handlerVars, expired, sigchld, mid, cmdVars, pair, inbox,
          replyVars, client>>

Kinds == {"STREAM", "INT", "SYSCALL_INT", "UNDEFINED"}

Init ==
  /\ kind \in Kinds
  /\ h = "check" /\ tries = 0
  /\ expired = FALSE /\ sigchld = FALSE
  /\ mid = "none"
  /\ cmd = "none" /\ produced = 0
  /\ pair = 0 /\ inbox = 0
  /\ sent = 0 /\ ending = "none" /\ open = TRUE
  /\ client = "open"

MidRuns == mid \in {"running", "forked"}
CmdRuns == cmd \in {"waiting", "running"}

(* Fault: the handler keeps the writing end of the pair open (line 574).   *)
NeverEof == FALSE

(* The pair has no writer left.                                            *)
Eof == ~MidRuns /\ ~CmdRuns

ClientAccepts == client = "open" /\ inbox < ClientCapacity

(* writex of a status line: lost when the client is gone.                  *)
Answer(e) ==
  IF client = "open" THEN ending' = e /\ inbox' = inbox + 1
                     ELSE UNCHANGED <<ending, inbox>>
-----------------------------------------------------------------------------
(* No command, a bad number of parameters, no signal handler or no pair:   *)
(* the failure exits of the function, by kind of result.                   *)
Refuse ==
  /\ h = "check"
  /\ h' = "close"
  /\ CASE kind = "STREAM" -> UNCHANGED <<ending, inbox>>
       [] kind = "INT"    -> Answer("zero")
       [] OTHER           -> Answer("minus")
  /\ UNCHANGED <<kind, tries, expired, sigchld, mid, cmdVars, pair, sent, open, client>>

Accept ==
  /\ h = "check"
  /\ h' = "fork"
  /\ UNCHANGED <<kind, tries, expired, sigchld, mid, cmdVars, pair, inbox, replyVars, client>>

ForkFails ==
  /\ h = "fork"
  /\ h' = "close"
  /\ Answer("minus")
  /\ UNCHANGED <<kind, tries, expired, sigchld, mid, cmdVars, pair, sent, open, client>>

Fork ==
  /\ h = "fork"
  /\ h' = "select"
  /\ mid' = "running"
  /\ UNCHANGED <<kind, tries, expired, sigchld, cmdVars, pair, inbox, replyVars, client>>

(* select says that the pair has data or has ended: copying begins.        *)
SelectReady ==
  /\ h = "select"
  /\ pair > 0 \/ Eof
  /\ h' = "read"
  /\ expired' = FALSE
  /\ UNCHANGED <<kind, tries, sigchld, mid, cmdVars, pair, inbox, replyVars, client>>

(* select returns nothing: its time has run out (tv keeps what is left of  *)
(* the 120 s, none, for the next try) or a signal interrupted it.          *)
Interrupted == sigchld /\ sigchld' = FALSE
TimedOut == expired /\ pair = 0 /\ ~Eof /\ UNCHANGED sigchld

(* Fault: an empty select is final at once.                                *)
SelectGivesUp ==
  /\ h = "select"
  /\ Interrupted \/ TimedOut
  /\ h' = "abort"
  /\ UNCHANGED <<kind, tries, expired, mid, cmdVars, pair, inbox, replyVars, client>>

SelectFails ==
  /\ h = "select"
  /\ Interrupted \/ TimedOut
  /\ IF tries >= 2 THEN h' = "abort" /\ UNCHANGED tries
                   ELSE tries' = tries + 1 /\ UNCHANGED h
  /\ UNCHANGED <<kind, expired, mid, cmdVars, pair, inbox, replyVars, client>>
-----------------------------------------------------------------------------
(* readx returns a piece of output,                                        *)
ReadPiece ==
  /\ h = "read"
  /\ pair > 0
  /\ pair' = pair - 1
  /\ h' = "write"
  /\ UNCHANGED <<kind, tries, expired, sigchld, mid, cmdVars, inbox, replyVars, client>>

(* Fault: a read that a signal interrupts is taken for the end.            *)
ReadEndOrSignal ==
  /\ h = "read"
  /\ pair = 0
  /\ Eof \/ sigchld
  /\ h' = "wait"
  /\ UNCHANGED <<kind, tries, expired, sigchld, mid, cmdVars, pair, inbox, replyVars, client>>

(* or the end of it.  A read that is interrupted or times out is repeated. *)
ReadEnd ==
  /\ h = "read"
  /\ pair = 0
  /\ Eof
  /\ h' = "wait"
  /\ UNCHANGED <<kind, tries, expired, sigchld, mid, cmdVars, pair, inbox, replyVars, client>>

(* writex to the client; then the limits on length and time are checked.   *)
WritePiece ==
  /\ h = "write"
  /\ ClientAccepts
  /\ sent' = sent + 1
  /\ inbox' = inbox + 1
  /\ h' = IF sent' > MaxOutput \/ expired THEN "mark" ELSE "read"
  /\ UNCHANGED <<kind, tries, expired, sigchld, mid, cmdVars, pair, ending, open, client>>

WriteFails ==
  /\ h = "write"
  /\ client = "gone"
  /\ h' = "abort"
  /\ UNCHANGED <<kind, tries, expired, sigchld, mid, cmdVars, pair, inbox, replyVars, client>>

(* Fault: output that is cut short looks like all of it.                   *)
CutWithoutMark ==
  /\ h = "mark"
  /\ h' = "wait"
  /\ UNCHANGED <<kind, tries, expired, sigchld, mid, cmdVars, pair, inbox, replyVars, client>>

(* Fault: no break after the mark.                                         *)
MarkAndGoOn ==
  /\ h = "mark"
  /\ ClientAccepts
  /\ ending' = "mark" /\ inbox' = inbox + 1
  /\ h' = "read"
  /\ UNCHANGED <<kind, tries, expired, sigchld, mid, cmdVars, pair, sent, open, client>>

(* Cut short: the mark is sent, and the process known as pid_in_child - the*)
(* middle one - is killed.                                                 *)
MarkCut ==
  /\ h = "mark"
  /\ \/ ClientAccepts /\ Answer("mark")
     \/ client = "gone" /\ UNCHANGED <<ending, inbox>>
  /\ mid' = IF MidRuns THEN "zombie" ELSE mid
  /\ h' = "wait"
  /\ UNCHANGED <<kind, tries, expired, sigchld, cmdVars, pair, sent, open, client>>

(* waitpid(-1): the handler's only child is the middle process.            *)
Wait ==
  /\ h = "wait"
  /\ ~MidRuns
  /\ mid' = "reaped"
  /\ h' = "finish"
  /\ UNCHANGED <<kind, tries, expired, sigchld, cmdVars, pair, inbox, replyVars, client>>

(* A request for an integer that had no output is answered with 0.         *)
Finish ==
  /\ h = "finish"
  /\ h' = "close"
  /\ IF kind = "INT" /\ sent = 0 THEN Answer("zero") ELSE UNCHANGED <<ending, inbox>>
  /\ UNCHANGED <<kind, tries, expired, sigchld, mid, cmdVars, pair, sent, open, client>>

(* kill(pid_in_child, SIGKILL), waitpid(pid_in_child): the middle process. *)
Abort ==
  /\ h = "abort"
  /\ mid' = "reaped"
  /\ h' = "close"
  /\ UNCHANGED <<kind, tries, expired, sigchld, cmdVars, pair, inbox, replyVars, client>>

(* Both descriptors are closed and the handler exits.                      *)
Close ==
  /\ h = "close"
  /\ open' = FALSE
  /\ h' = "done"
  /\ UNCHANGED <<kind, tries, expired, sigchld, mid, cmdVars, pair, inbox, sent, ending, client>>
-----------------------------------------------------------------------------
(* The time allowed for waiting, or for copying, runs out.                 *)
Expire ==
  /\ h \in {"select", "read", "write"}
  /\ ~expired
  /\ expired' = TRUE
  /\ UNCHANGED <<kind, handlerVars, sigchld, mid, cmdVars, pair, inbox, replyVars, client>>

(* SIGCHLD is delivered between system calls: its handler does nothing.    *)
Deliver ==
  /\ sigchld
  /\ sigchld' = FALSE
  /\ UNCHANGED <<kind, handlerVars, expired, mid, cmdVars, pair, inbox, replyVars, client>>

(* The middle process forks the command, or cannot,                        *)
MidForks ==
  /\ mid = "running"
  /\ mid' = "forked"
  /\ cmd' \in {"waiting", "none"}
  /\ UNCHANGED <<kind, handlerVars, expired, sigchld, produced, pair, inbox, replyVars, client>>

(* and exits in either case.                                               *)
MidExits ==
  /\ mid = "forked"
  /\ mid' = "zombie"
  /\ sigchld' = TRUE
  /\ UNCHANGED <<kind, handlerVars, expired, cmdVars, pair, inbox, replyVars, client>>

(* The command goes on when init has adopted it.                           *)
CmdStarts ==
  /\ cmd = "waiting"
  /\ ~MidRuns
  /\ cmd' = "running"
  /\ UNCHANGED <<kind, handlerVars, expired, sigchld, mid, produced, pair, inbox, replyVars, client>>

(* It writes to the pair; a direct system call has no output.              *)
CmdWrites ==
  /\ cmd = "running"
  /\ kind # "SYSCALL_INT"
  /\ h # "done"
  /\ produced < MaxPieces
  /\ pair < PairCapacity
  /\ produced' = produced + 1
  /\ pair' = pair + 1
  /\ UNCHANGED <<kind, handlerVars, expired, sigchld, mid, cmd, inbox, replyVars, client>>

(* It exits; with the pair closed, a write ends it by SIGPIPE.             *)
CmdExits ==
  /\ cmd = "running"
  /\ cmd' = "exited"
  /\ UNCHANGED <<kind, handlerVars, expired, sigchld, mid, produced, pair, inbox, replyVars, client>>

ClientReads ==
  /\ client = "open"
  /\ inbox > 0
  /\ inbox' = inbox - 1
  /\ UNCHANGED <<kind, handlerVars, expired, sigchld, mid, cmdVars, pair, replyVars, client>>

ClientLeaves ==
  /\ client = "open"
  /\ client' = "gone"
  /\ UNCHANGED <<kind, handlerVars, expired, sigchld, mid, cmdVars, pair, inbox, replyVars>>
-----------------------------------------------------------------------------
Handler == \/ Refuse \/ Accept \/ ForkFails \/ Fork
           \/ SelectReady \/ SelectFails
           \/ ReadPiece \/ ReadEnd \/ WritePiece \/ WriteFails
           \/ MarkCut \/ Wait \/ Finish \/ Abort \/ Close

Middle == MidForks \/ MidExits

Next == \/ Handler \/ Expire \/ Deliver
        \/ Middle
        \/ CmdStarts \/ CmdWrites \/ CmdExits
        \/ ClientReads \/ ClientLeaves

Spec == Init /\ [][Next]_vars

(* The processes are scheduled, time passes, and a client reads what it is *)
(* sent or goes away.                                                      *)
Scheduling == /\ WF_vars(Handler) /\ WF_vars(Middle) /\ WF_vars(CmdStarts)
              /\ WF_vars(Expire)
              /\ WF_vars(ClientReads \/ ClientLeaves)

EndingSpec == Spec /\ Scheduling /\ WF_vars(CmdExits)   \* and commands do end
-----------------------------------------------------------------------------
(* The type invariant; select is tried at most three times.                *)
Places == {"check", "fork", "select", "read", "write", "mark", "wait",
           "finish", "abort", "close", "done"}

TypeOK ==
  /\ kind \in Kinds
  /\ h \in Places
  /\ tries \in 0..2
  /\ expired \in BOOLEAN
  /\ sigchld \in BOOLEAN
  /\ mid \in {"none", "running", "forked", "zombie", "reaped"}
  /\ cmd \in {"none", "waiting", "running", "exited"}
  /\ produced \in Nat
  /\ pair \in Nat
  /\ inbox \in Nat
  /\ sent \in Nat
  /\ ending \in {"none", "zero", "minus", "mark"}
  /\ open \in BOOLEAN
  /\ client \in {"open", "gone"}

(* A status line is never mixed with output, nor output that was cut short *)
(* with a status line (lines 666-694).                                     *)
StatusAlone ==
  /\ ending \in {"zero", "minus"} => sent = 0
  /\ ending = "mark" => sent > 0

(* A client that was sent output and then, with no mark, the end of the    *)
(* connection has all the output of a command that has exited: neither a   *)
(* signal nor a timeout cuts it short unseen (lines 666-694).              *)
WholeOutput ==
  h = "done" /\ client = "open" /\ ending = "none" /\ sent > 0
    => sent = produced /\ cmd = "exited"

(* The wait for the first output is not given up before its 120 s are over,*)
(* although an interrupted select also counts as a try (lines 643-658).    *)
NoEarlyGiveUp == [][h = "select" /\ h' = "abort" => expired]_vars

(* The reply is one that RtReply allows.                                   *)
Reply == INSTANCE RtReply
KeepsReply == Reply!Spec

(* The handler ends, if the command does.                                  *)
RequestEnds == <>(h = "done")

(* "如果读取不到任何信息，直接将子进程退出" (line 648), "通知子进程退出" (650):   *)
(* giving up ends a running command.                                       *)
GiveUpStopsCommand ==
  [][h = "abort" /\ h' = "close" => ~(cmd = "running" /\ cmd' = "running")]_vars
-----------------------------------------------------------------------------
(* The inductive invariant behind StatusAlone and WholeOutput.             *)

(* No output is lost on the way from the command to the client.            *)
Complete == sent = produced /\ Eof

FlowInv ==
  /\ h \in {"check", "fork"} => mid = "none" /\ cmd = "none" /\ produced = 0
  /\ h \in {"check", "fork", "select"} => sent = 0
  /\ h \in {"check", "fork", "select", "read", "write"} =>
       produced = sent + pair + (IF h = "write" THEN 1 ELSE 0)
  /\ mid \in {"none", "running"} => cmd = "none"
  /\ cmd \in {"running", "exited"} => ~MidRuns
  /\ produced > 0 => cmd # "none"
  /\ sent <= produced

EndingInv ==
  /\ ending # "none" => h \in {"wait", "finish", "close", "done"}
  /\ ending \in {"zero", "minus"} => h \in {"close", "done"} /\ sent = 0
  /\ ending = "mark" => sent > 0
  /\ h = "mark" => sent > 0
  /\ h = "abort" => client = "gone" \/ sent = 0
  /\ h \in {"wait", "finish"} => client = "gone" \/ ending = "mark" \/ Complete
  /\ h \in {"close", "done"} =>
       client = "gone" \/ ending # "none" \/ sent = 0 \/ Complete
  /\ open <=> h # "done"

(* Before the time is over select has failed once at most, when the middle *)
(* process exited: its SIGCHLD is the only one that the handler gets.      *)
PatienceInv ==
  /\ sigchld => mid \in {"zombie", "reaped"}
  /\ h \in {"check", "fork", "select"} /\ ~expired =>
       \/ tries = 0
       \/ tries = 1 /\ ~sigchld /\ mid \in {"zombie", "reaped"}

IInv == TypeOK /\ FlowInv /\ EndingInv /\ PatienceInv
=============================================================================
