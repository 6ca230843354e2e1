-------------------------------- MODULE Toolbox --------------------------------
(***************************************************************************)
(* The commands that libsu brings along: cmd_main finds the command of a   *)
(* request and runs it, or directsyscall_main one system call.  The        *)
(* commands are the modules FileTools, Cat, Mount, Processes and Dd, whose *)
(* input and output are files of their own.                                *)
(***************************************************************************)
EXTENDS FileTools, Cat, Mount, Processes, Dd

CONSTANT Requests \* what may be asked of each tool: <<option letters, operands>>

ASSUME RequestsAssumption ==
  \A t \in DOMAIN Requests : \A r \in Requests[t] :
    r[2] \in Seq(CASE t = "cat" -> Contents [] t \in {"kill", "ps"} -> Pids \cup {0} [] OTHER -> Paths)

allVars == <<toolVars, fileVars, catVars, mountVars, processVars, ddVars>>

Init == /\ ToolInit /\ FileInit /\ CatInit /\ MountInit /\ ProcessesInit /\ DdInit
        /\ pipe => Chosen = "dd"

(* A system call takes one operand, and rename two.                        *)
Fits(operands) == direct => Len(operands) <= IF Chosen = "mv" THEN 2 ELSE 1

Dispatch ==
  \/ /\ place = "find" /\ Chosen \in DOMAIN Requests
     /\ \E r \in Requests[Chosen] : Fits(r[2]) /\ Find(r[1], r[2])
  \/ NotFound

(* dd's exit is the end of the command; a signal may have killed it.       *)
Ended ==
  IF stage' # "done" THEN UNCHANGED <<place, said, code>>
  ELSE Finish(status', CASE status' = "1" -> "failed" [] interrupted' /\ status' = "nothing" -> "crash" [] OTHER -> "ok")
RunDd == tool = "dd" /\ place = "main" /\ DdStep /\ Ended /\ UNCHANGED <<direct, tool, opts, args>>
Signal == tool = "dd" /\ place = "main" /\ Interrupt /\ Ended /\ UNCHANGED <<direct, tool, opts, args>>

Step ==
  \/ /\ Dispatch \/ FileStep
     /\ (Dispatch => UNCHANGED fileVars)
     /\ UNCHANGED <<catVars, mountVars, processVars, ddVars>>
  \/ CatStep /\ UNCHANGED <<fileVars, mountVars, processVars, ddVars>>
  \/ MountStep /\ UNCHANGED <<fileVars, catVars, processVars, ddVars>>
  \/ ProcessStep /\ UNCHANGED <<fileVars, catVars, mountVars, ddVars>>
  \/ RunDd /\ UNCHANGED <<fileVars, catVars, mountVars, processVars>>

Environment ==
  \/ Others /\ UNCHANGED <<catVars, mountVars, processVars, ddVars>>
  \/ (\E p \in Pids : ProcessChanges(p)) /\ UNCHANGED <<fileVars, catVars, mountVars, ddVars>>
  \/ Signal /\ UNCHANGED <<fileVars, catVars, mountVars, processVars>>

Next == Step \/ Environment
Spec == Init /\ [][Next]_allVars
FairSpec == Spec /\ WF_allVars(Step)
-----------------------------------------------------------------------------
(* The type invariant.                                                     *)
ToolboxTypeOK == FileTypeOK /\ CatTypeOK /\ ProcessesTypeOK /\ DdTypeOK

(* What is answered is so: "0" means that the command did what it was      *)
(* asked, for all of its operands.                                         *)
StatusHonest == FilesHonest /\ MountHonest /\ KillHonest /\ SuccessComplete

(* A command changes what its operands and options name and nothing else,  *)
(* though a link leads out of them, and keeps what it is to keep.          *)
OnlyAsked == /\ ToolboxTypeOK
             /\ NothingElseLost /\ StackDescends /\ ChattrInside
             /\ ReadOnlyTold /\ BlocksAsked /\ SeekKeeps

(* What is listed or copied is complete and in its order, though reads are *)
(* short, writes are cut, and other processes change what is listed.       *)
OutputComplete == /\ LsComplete /\ PsComplete
                  /\ CatKeepsAll /\ CatLines
                  /\ BufferBound /\ NoByteLost

(* Every command ends, whatever other processes do meanwhile.              *)
ToolEnds == <>(place = "done")
=============================================================================
