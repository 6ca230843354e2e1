--------------------------------- MODULE Mount ---------------------------------
(***************************************************************************)
(* libsu's mount (cmds/mount.c): the options are folded into flags one by  *)
(* one, an image is attached to the loop device, and the file system types *)
(* of a list are tried in turn.                                            *)
(***************************************************************************)
EXTENDS ToolState

CONSTANTS Types \* the file system types of a list

VARIABLES
  flags,   \* "rdonly", "remount", "bind", "move"
  loop,    \* "no", "asked", "attached" to /dev/block/loop0
  types,   \* the types left to try; <<>> with none chosen is no type
  error,   \* do_mount's error: of the last mount that failed
  mounts,  \* what was mounted: <<type, "rw" or "ro">>
  result   \* of the last mount: "nothing", "ok" or its error

mountVars == <<flags, loop, types, error, mounts, result>>

Kinds == {"remount", "bind", "move"}
TypeLists == {<<>>} \cup {<<t>> : t \in Types} \cup {<<t, u>> : t, u \in Types}

MountInit ==
  /\ flags = {} /\ loop = "no" /\ types = <<>> /\ error = "nothing" /\ mounts = <<>> /\ result = "nothing"

(* Without arguments mount prints /proc/mounts.                            *)
PrintMounts ==
  /\ place = "main" /\ tool = "mount" /\ ~direct /\ opts = {}
  /\ \/ Finish("text", "ok") \/ Finish("text", "failed")
  /\ UNCHANGED <<direct, tool, opts, args, mountVars>>

(* One option of -o: a kind replaces the others ("nobind" drops them all); *)
(* -r and ro, -w and rw.  loop is what the last -o says.                   *)
Option(o) ==
  /\ flags' = CASE o \in Kinds -> (flags \ Kinds) \cup {o}
                [] o = "nobind" -> flags \ Kinds
                [] o = "ro" -> flags \cup {"rdonly"}
                [] o = "rw" -> flags \ {"rdonly"}
                [] OTHER -> flags
  /\ loop' \in IF o = "loop" THEN {"asked"} ELSE {loop, "no"}

MountOption ==
  /\ place = "main" /\ tool = "mount" /\ ~direct
  /\ \E o \in (Kinds \cup {"nobind", "ro", "rw", "loop"}) \ opts :
       /\ Option(o)
       /\ opts' = opts \cup {o}
  /\ Cardinality(opts) < 2
  /\ UNCHANGED <<place, direct, tool, args, said, code, types, error, mounts, result>>

(* No type, the wrong operands or an unknown option; a remount, a bind or  *)
(* a move has the type "none".                                             *)
MountUsage ==
  /\ place = "main" /\ tool = "mount" /\ ~direct
  /\ Finish("1", "failed")
  /\ UNCHANGED <<direct, tool, opts, args, mountVars>>

MountBegins ==
  /\ place = "main" /\ tool = "mount"
  /\ types' \in IF flags \cap Kinds # {} THEN {<<"none">>}
               ELSE IF direct THEN {<<t>> : t \in Types} ELSE TypeLists \ {<<>>}
  /\ place' = "mounting"
  /\ UNCHANGED <<direct, tool, opts, args, said, code, flags, loop, error, mounts, result>>

(* The loop device: open's result is compared with -1 the wrong way, so    *)
(* only the ioctl can fail.                                                *)
Attach ==
  /\ place = "mounting" /\ loop = "asked"
  /\ loop' = "attached"
  /\ UNCHANGED <<toolVars, flags, types, error, mounts, result>>

AttachFails ==
  /\ place = "mounting" /\ loop = "asked"
  /\ Finish("1", "failed")
  /\ UNCHANGED <<direct, tool, opts, args, mountVars>>

Tries == place = "mounting" /\ loop # "asked" /\ types # <<>>

(* The loop goes on after a success.                                       *)
Mounts ==
  /\ Tries
  /\ mounts' = Append(mounts, <<Head(types), IF "rdonly" \in flags THEN "ro" ELSE "rw">>)
  /\ types' = Tail(types)
  /\ result' = "ok"
  /\ UNCHANGED <<toolVars, flags, loop, error>>

(* Fault: a file system that is mounted read-only is not reported so.      *)
NotReadOnly == /\ Tries /\ flags \cap {"remount", "rdonly"} = {}
               /\ flags' = flags \cup {"rdonly"}
               /\ UNCHANGED <<toolVars, loop, types, error, mounts, result>>

(* Fault: the error of a type that is not known is forgotten.              *)
ErrorForgotten ==
  /\ Tries
  /\ \E e \in {"ENODEV", "EINVAL"} : result' = e
  /\ types' = Tail(types)
  /\ UNCHANGED <<toolVars, flags, loop, error, mounts>>

(* ENODEV and EINVAL: the next type; EACCES: once more, read-only; any     *)
(* other error ends the loop.                                              *)
NextType ==
  /\ Tries
  /\ \E e \in {"ENODEV", "EINVAL"} : error' = e /\ result' = e
  /\ types' = Tail(types)
  /\ UNCHANGED <<toolVars, flags, loop, mounts>>

ReadOnly ==
  /\ Tries /\ ~direct
  /\ error' = "EACCES" /\ result' = "EACCES"
  /\ flags \cap {"remount", "rdonly"} = {}
  /\ flags' = flags \cup {"rdonly"}
  /\ UNCHANGED <<toolVars, loop, types, mounts>>

MountFails ==
  /\ Tries
  /\ \E e \in {"EACCES", "EBUSY"} :
       /\ e = "EACCES" /\ ~direct => flags \cap {"remount", "rdonly"} # {}
       /\ error' = e /\ result' = e
  /\ types' = <<>>
  /\ UNCHANGED <<toolVars, flags, loop, mounts>>

(* Fault: the error is printed instead of 255.                             *)
MountSaysError ==
  /\ place = "mounting" /\ loop # "asked" /\ types = <<>>
  /\ Finish(error, IF error = "nothing" THEN "ok" ELSE "failed")
  /\ UNCHANGED <<direct, tool, opts, args, mountVars>>

MountEnds ==
  /\ place = "mounting" /\ loop # "asked" /\ types = <<>>
  /\ IF error # "nothing" THEN Finish(IF direct THEN "nothing" ELSE "255", "failed") ELSE Finish(IF direct THEN "nothing" ELSE "0", "ok")
  /\ UNCHANGED <<direct, tool, opts, args, mountVars>>

MountStep == \/ PrintMounts \/ MountOption \/ MountUsage \/ MountBegins \/ Attach \/ AttachFails
             \/ Mounts \/ NextType \/ ReadOnly \/ MountFails \/ MountEnds
-----------------------------------------------------------------------------
(* "0" means mounted, with the flags that were asked for.  The converse is *)
(* not true: error keeps an earlier type's error, or EACCES when the       *)
(* read-only mount has succeeded.                                          *)
MountHonest ==
  place = "done" /\ tool = "mount" /\ (said = "0" \/ (direct /\ code = "ok")) =>
    mounts # <<>> /\ result = "ok"

(* A mount is read-only only if it was asked for or the last answer was    *)
(* EACCES, and never writable after that; a remount is not made read-only. *)
ReadOnlyTold ==
  /\ \A k \in 1 .. Len(mounts) : mounts[k][2] = "ro" /\ opts \cap {"ro"} = {} => error # "nothing"
  /\ \A k \in 1 .. Len(mounts) - 1 : mounts[k][2] = "ro" => mounts[k + 1][2] = "ro"
=============================================================================
