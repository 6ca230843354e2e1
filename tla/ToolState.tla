------------------------------- MODULE ToolState -------------------------------
(***************************************************************************)
(* The process in which libsu runs a command of its own (su.c lines        *)
(* 528-548, cmds/toolbox.c, cmds/directsyscall.c): the command chosen, its *)
(* options and operands, and what the client is answered.  The modules of  *)
(* the commands extend this one; Toolbox puts them together.               *)
(***************************************************************************)
EXTENDS Integers, Sequences, FiniteSets

CONSTANTS Names, \* first words of requests
          ToolOf, \* the name that cmd_main looks for in each: behind @ or the last /
          CallOf \* the name of indices that each begins with, if it does

VARIABLES
  place,   \* "find", "main" or in the middle of the command, "done"
  direct,  \* a SYSCALL_INT request
  tool,    \* the command that was found
  opts,    \* its option letters
  args,    \* the operands that are left
  said,    \* the status printed: "nothing", "0", "-1", "1", "10", "255", or "text"
  code     \* how the process ended: "ok" is 0, "crash", or execv

toolVars == <<place, direct, tool, opts, args, said, code>>

(* The tools array.                                                        *)
Tools == {"mv", "chmod", "chown", "rm", "mount", "kill", "dd", "cat", "ls", "ps", "chattr"}

(* The indices array of the system calls.                                  *)
Direct == {"chmod", "chown", "kill", "mount", "mv", "rm"}

ToolInit ==
  /\ place = "find"
  /\ direct \in BOOLEAN
  /\ tool \in Names
  /\ opts = {} /\ args = <<>>
  /\ said = "nothing" /\ code = "ok"

(* The command is over: the status is printed and the process exits.       *)
Finish(text, c) ==
  /\ place' = "done"
  /\ said' = text /\ code' = c

(* cmd_main, or find_index, which does not look beyond the name it tries.  *)
Chosen == IF direct THEN CallOf[tool] ELSE ToolOf[tool]

(* The command is called with its operands.                                *)
Find(options, operands) ==
  /\ place = "find"
  /\ Chosen \in IF direct THEN Direct ELSE Tools
  /\ place' = "main"
  /\ tool' = Chosen
  /\ opts' = IF direct THEN {} ELSE options
  /\ args' = operands
  /\ UNCHANGED <<direct, said, code>>

(* No such tool: execv takes over, or the system call fails.               *)
NotFound ==
  /\ place = "find"
  /\ Chosen \notin IF direct THEN Direct ELSE Tools
  /\ Finish("nothing", IF direct THEN "failed" ELSE "exec")
  /\ UNCHANGED <<direct, tool, opts, args>>

ToolTypeOK ==
  /\ place \in {"find", "main", "walk", "cat", "ps", "mounting", "done"}
  /\ direct \in BOOLEAN
  /\ tool \in Names \cup Tools
  /\ said \in {"nothing", "0", "-1", "1", "10", "255", "text"}
  /\ code \in {"ok", "failed", "crash", "exec"}
=============================================================================
