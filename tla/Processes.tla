------------------------------- MODULE Processes -------------------------------
(***************************************************************************)
(* libsu's ps and kill (cmds/ps.c, cmds/kill.c), while processes start and *)
(* end.  A process is its pid and its generation, for a pid is used again. *)
(* ps_line asks /proc three times for what it prints on one line.          *)
(***************************************************************************)
EXTENDS ToolState

CONSTANTS Pids,       \* process ids; an operand that is no number is 0 to atoi
          MaxChanges  \* bound: processes that start or end meanwhile

ASSUME PidsAssumption == Pids \subseteq Nat \ {0} /\ MaxChanges \in Nat

VARIABLES
  gen,      \* the generation at each pid: odd if there is a process
  changes,  \* how many started or ended
  unread,   \* ps: entries of /proc that are not read yet
  row,      \* ps_line: <<pid, user, command>>, generations, -1 for unknown; <<>> outside
  lines,    \* what was printed: <<pid, user, command, name>>
  born,     \* the generations when the command began
  tried, hit \* kill: operands tried, processes that got the signal

processVars == <<gen, changes, unread, row, lines, born, tried, hit>>

Alive(p) == gen[p] % 2 = 1

ProcessesInit ==
  /\ gen = [p \in Pids |-> 1]
  /\ changes = 0 /\ unread = {} /\ row = <<>> /\ lines = {}
  /\ born = gen /\ tried = <<>> /\ hit = {}

PsBegins ==
  /\ place = "main" /\ tool = "ps"
  /\ \/ /\ place' = "ps"
        /\ unread' = {p \in Pids : Alive(p)}
        /\ born' = gen
        /\ UNCHANGED <<said, code>>
     \/ Finish("nothing", "failed") /\ UNCHANGED <<unread, born>>
  /\ UNCHANGED <<direct, tool, opts, args, gen, changes, row, lines, tried, hit>>

(* The pids that the filter lets through; the last number given counts.    *)
Wanted == IF args = <<>> THEN Pids ELSE {args[Len(args)]}

(* ps_line: stat of /proc/pid gives the user; a process that has gone      *)
(* leaves it as it was on the stack.                                       *)
PsStat ==
  /\ place = "ps" /\ row = <<>>
  /\ \E p \in unread :
       /\ unread' = unread \ {p}
       /\ row' = IF p \in Wanted THEN <<p, IF Alive(p) THEN gen[p] ELSE -1>> ELSE <<>>
  /\ UNCHANGED <<toolVars, gen, changes, lines, born, tried, hit>>

(* /proc/pid/cmdline, empty if it cannot be read.                          *)
PsCommand ==
  /\ place = "ps" /\ Len(row) = 2
  /\ row' = Append(row, IF Alive(row[1]) THEN gen[row[1]] ELSE -1)
  /\ UNCHANGED <<toolVars, gen, changes, unread, lines, born, tried, hit>>

(* Fault: a line is printed for a process that has gone.                   *)
PsPrintsAnyway ==
  /\ place = "ps" /\ Len(row) = 3
  /\ lines' = lines \cup {Append(row, gen[row[1]])}
  /\ row' = <<>>
  /\ UNCHANGED <<toolVars, gen, changes, unread, born, tried, hit>>

(* /proc/pid/stat: without it there is no line; then the command is shown, *)
(* or the name if there is none, unless the name filter keeps it out.      *)
PsPrints ==
  /\ place = "ps" /\ Len(row) = 3
  /\ lines' = IF Alive(row[1]) THEN lines \cup {Append(row, gen[row[1]])} ELSE lines
  /\ row' = <<>>
  /\ UNCHANGED <<toolVars, gen, changes, unread, born, tried, hit>>

PsEnds ==
  /\ place = "ps" /\ unread = {} /\ row = <<>>
  /\ Finish("text", "ok")
  /\ UNCHANGED <<direct, tool, opts, args, processVars>>
-----------------------------------------------------------------------------
(* kill: every operand is tried; 0 is the process group of kill itself.    *)
(* No process, or one that must not be signalled, is a failure.            *)
Kills ==
  /\ place = "main" /\ tool = "kill" /\ args # <<>>
  /\ LET p == Head(args) IN
     /\ tried' = Append(tried, p)
     /\ IF p = 0 THEN hit' = hit \cup {<<0, 0>>} /\ Finish("nothing", "crash")
        ELSE /\ \/ Alive(p) /\ hit' = hit \cup {<<p, gen[p]>>} /\ UNCHANGED code
                \/ hit' = hit /\ code' = "failed"
             /\ UNCHANGED <<place, said>>
  /\ args' = Tail(args)
  /\ UNCHANGED <<direct, tool, opts, gen, changes, unread, row, lines, born>>

(* Fault: the last operand decides.                                        *)
KillEndsLast ==
  /\ place = "main" /\ tool = "kill" /\ args = <<>>
  /\ Finish(IF direct THEN "nothing" ELSE "0", "ok")
  /\ UNCHANGED <<direct, tool, opts, args, processVars>>

KillEnds ==
  /\ place = "main" /\ tool = "kill" /\ args = <<>>
  /\ IF direct THEN Finish("nothing", IF tried = <<>> THEN "failed" ELSE code)
               ELSE Finish(IF code = "ok" THEN "0" ELSE "-1", code)
  /\ UNCHANGED <<direct, tool, opts, args, processVars>>

(* A process starts or ends.                                               *)
ProcessChanges(p) ==
  /\ place \in {"main", "ps"} /\ changes < MaxChanges
  /\ tool \in {"ps", "kill"}
  /\ gen' = [gen EXCEPT ![p] = @ + 1]
  /\ changes' = changes + 1
  /\ unread' \in IF place = "ps" /\ gen'[p] % 2 = 1 THEN {unread, unread \cup {p}} ELSE {unread}
  /\ UNCHANGED <<toolVars, row, lines, born, tried, hit>>

ProcessStep == PsBegins \/ PsStat \/ PsCommand \/ PsPrints \/ PsEnds \/ Kills \/ KillEnds
-----------------------------------------------------------------------------
(* The type invariant.                                                     *)
ProcessesTypeOK ==
  /\ gen \in [Pids -> Nat] /\ changes \in 0 .. MaxChanges /\ unread \subseteq Pids
  /\ \A l \in lines : l[1] \in Pids /\ \A k \in 2 .. 4 : l[k] \in Nat \cup {-1}

(* ps lists each wanted process that was there from the beginning to the   *)
(* end, and no line is about a pid without a process; what a line says is  *)
(* of one process, unless that pid was given up while the line was made.   *)
PsComplete ==
  /\ place = "done" /\ tool = "ps" /\ said = "text" =>
       \A p \in Wanted \cap Pids :
         born[p] % 2 = 1 /\ gen[p] = born[p] => <<p, gen[p], gen[p], gen[p]>> \in lines
  /\ \A l \in lines :
       /\ l[4] % 2 = 1
       /\ l[2] # l[4] \/ l[3] # l[4] => changes > 0
       /\ \A k \in 2 .. 3 : l[k] <= l[4]

(* kill says "0" only if each of its operands got the signal, and tries    *)
(* them all, unless it signals its own group.                              *)
KillHonest ==
  place = "done" /\ tool = "kill" /\ code \in {"ok", "failed"} =>
    /\ said = "0" \/ (direct /\ code = "ok") =>
         \A k \in 1 .. Len(tried) : \E g \in 1 .. 2 * MaxChanges + 1 : <<tried[k], g>> \in hit
    /\ args = <<>>
=============================================================================
