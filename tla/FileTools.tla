------------------------------- MODULE FileTools -------------------------------
(***************************************************************************)
(* libsu's rm, mv, chmod, chown, ls and chattr (cmds/), on a tree of files *)
(* that other processes change at the same time.  A path is a sequence of  *)
(* names; each system call walks it anew, and follows the links on it.     *)
(* The recursive functions (unlink_recursive, listdir, change_attributes)  *)
(* keep a stack of calls:                                                  *)
(*   look  about to lstat the path        act   about to act on it         *)
(*   read  in the loop over the entries   deep  in listdir's second loop   *)
(***************************************************************************)
EXTENDS ToolState, SequencesExt

CONSTANTS Paths,   \* the paths there may be; <<>> is the working directory
          Inodes, KindOf, \* the files; "file", "dir", "link" or "device"
          LinkTo,  \* where the links lead
          Trees,   \* the trees to start with: functions from Paths
          Hidden,  \* the names that begin with a dot
          Flags,   \* attributes of a file: "D" is EXT2_DIRSYNC_FL
          Modifiers, \* what chattr may be asked: -, + and = and their flags
          Puts,    \* <<path, inode or None>>: what others may put where
          Moved,   \* <<path, path>>: what others may rename
          MaxOthers \* bound: changes by other processes

None == "none"

(* A path is a sequence of names; with a path there are those above it.    *)
ASSUME PathsAssumption ==
  /\ Paths \subseteq Seq(STRING) /\ <<>> \in Paths /\ LinkTo \in Paths
  /\ \A p \in Paths : \A k \in 0 .. Len(p) : SubSeq(p, 1, k) \in Paths

ASSUME InodesAssumption ==
  /\ None \notin Inodes /\ KindOf \in [Inodes -> {"file", "dir", "link", "device"}]
  /\ Modifiers \subseteq [mods : SUBSET {"+", "-", "=", "v"}, add : SUBSET Flags, drop : SUBSET Flags]
  /\ Puts \subseteq Paths \X (Inodes \cup {None}) /\ Moved \subseteq Paths \X Paths
  /\ MaxOthers \in Nat

(* What is above a file is a directory.                                    *)
IsTree(f) ==
  /\ f \in [Paths -> Inodes \cup {None}]
  /\ \A p, q \in Paths : IsStrictPrefix(p, q) /\ f[q] # None => f[p] # None /\ KindOf[f[p]] = "dir"

ASSUME TreesAssumption == \A f \in Trees : IsTree(f)

VARIABLES
  calls,   \* the stack of calls
  fs,      \* the inode at each path
  mode,    \* inodes whose mode or owner the command has set
  attr,    \* the attributes of each inode
  listed,  \* paths that ls has printed
  cut,     \* directories of which ls may have left something out
  todo,    \* mv: is the destination a directory; chattr: what to set
  old,     \* the tree when the command began and its operands
  steady,  \* paths at and above which no other process changed anything
  planted, \* paths at which other processes put a link
  others,  \* inodes that other processes put, moved or removed
  meddled  \* how many changes they made

othersVars == <<steady, planted, others, meddled>>
fileVars == <<calls, fs, mode, attr, listed, cut, todo, old, othersVars>>

Top == calls[1]
Below(p) == {q \in Paths : IsPrefix(p, q)}

(* The kind of the file that is right at a path.                           *)
Type(p) == IF fs[p] = None THEN None ELSE KindOf[fs[p]]
InDirectory(p) == Type(Front(p)) = "dir"

(* The links above a path (one at most, for there is nothing below a link) *)
(* and where the path leads in a tree: a link on the way is followed.      *)
(* Bound: a second link is not, so that there is nothing beyond it.        *)
Above(p) == {SubSeq(p, 1, k) : k \in 0 .. Len(p) - 1} \cap Paths
Way(tree, p) == {q \in Above(p) : tree[q] # None /\ KindOf[tree[q]] = "link"}
Through(q, p) == LinkTo \o SubSeq(p, Len(q) + 1, Len(p))
Leads(tree, p) == LET w == Way(tree, p) IN IF w = {} THEN p ELSE Through(CHOOSE q \in w : TRUE, p)
Real(p) == Leads(fs, p)

(* lstat; and what stat, open, opendir, chmod and chown reach: at the end  *)
(* of the path a link is followed, too.                                    *)
Node(p) == LET r == Real(p) IN IF r \in Paths THEN fs[r] ELSE None
Kind(p) == LET i == Node(p) IN IF i = None THEN None ELSE KindOf[i]
Follow(p) == IF Kind(p) = "link" THEN LinkTo ELSE p

(* readdir, of a directory or of that to which a link leads.               *)
Children(p) == {q \in Below(p) : Len(q) = Len(p) + 1 /\ Node(q) # None}

FileInit ==
  /\ fs \in Trees
  /\ calls = <<>> /\ mode = {} /\ listed = {} /\ cut = {}
  /\ attr = [i \in Inodes |-> Flags \ {"D"}]
  /\ todo = [dir |-> FALSE, add |-> {}, drop |-> {}, mods |-> {}]
  /\ old = [fs |-> fs, args |-> <<>>]
  /\ steady = Paths /\ planted = {} /\ others = {} /\ meddled = 0

Call(p) == [path |-> p, at |-> "look", saw |-> None, got |-> {}, unread |-> {}]
At(where) == calls' = [calls EXCEPT ![1].at = where]
Return == calls' = Tail(calls)

Ends(ok, good, bad) ==
  IF direct THEN Finish("nothing", IF ok THEN "ok" ELSE "failed")
            ELSE Finish(IF ok THEN good ELSE bad, IF ok THEN "ok" ELSE "failed")

(* The operands are used up, and no call is left.                          *)
AllDone(names) ==
  /\ place = "walk" /\ tool \in names /\ calls = <<>> /\ args = <<>>
  /\ IF tool \in {"ls", "chattr"} THEN Finish(said, code) ELSE Ends(TRUE, "0", "nothing")
  /\ UNCHANGED <<direct, tool, opts, args, fileVars>>

(* The whole command gives up.                                             *)
GiveUp(text) ==
  /\ Ends(FALSE, "nothing", text)
  /\ calls' = <<>>
  /\ UNCHANGED <<direct, tool, opts, args, fs, mode, attr, listed, cut, todo, old, othersVars>>

(* The next operand of a recursive command.                                *)
NextOperand ==
  /\ place = "walk" /\ tool \in {"rm", "ls", "chattr"}
  /\ calls = <<>> /\ args # <<>>
  /\ calls' = <<Call(Head(args))>>
  /\ args' = Tail(args)
  /\ UNCHANGED <<place, direct, tool, opts, said, code, fs, mode, attr, listed, cut, todo, old, othersVars>>

Begin(operands) ==
  /\ place' = "walk"
  /\ old' = [fs |-> fs, args |-> operands]
  /\ steady' = Paths /\ UNCHANGED <<planted, others, meddled>>
-----------------------------------------------------------------------------
(* rm: without -r every operand is unlinked; -r is an argument, too.       *)
RmBegins ==
  /\ place = "main" /\ tool = "rm"
  /\ IF args = <<>> /\ "r" \notin opts THEN Ends(FALSE, "nothing", "-1") /\ UNCHANGED <<old, othersVars>>
                    ELSE Begin(args) /\ UNCHANGED <<said, code>>
  /\ UNCHANGED <<direct, tool, opts, args, calls, fs, mode, attr, listed, cut, todo>>

InCall(name, at) == place = "walk" /\ tool = name /\ calls # <<>> /\ Top.at = at

(* lstat, in unlink_recursive and do_rm.                                   *)
RmLooks ==
  /\ InCall("rm", "look")
  /\ ("r" \in opts \/ direct) => Kind(Top.path) # None
  /\ calls' = [calls EXCEPT ![1].at = "act",
                            ![1].saw = IF "r" \in opts \/ direct THEN Kind(Top.path) ELSE "file"]
  /\ UNCHANGED <<toolVars, fs, mode, attr, listed, cut, todo, old, othersVars>>

(* unlink and rmdir do not follow a link at the end of the path.           *)
Unlink(p) == fs' = [fs EXCEPT ![Real(p)] = None]

RmUnlinks ==
  /\ InCall("rm", "act") /\ Top.saw # "dir"
  /\ Kind(Top.path) \notin {None, "dir"}
  /\ Unlink(Top.path)
  /\ Return
  /\ UNCHANGED <<toolVars, mode, attr, listed, cut, todo, old, othersVars>>

(* Fault: links are followed.                                              *)
RmOpensLinks ==
  /\ InCall("rm", "act") /\ Top.saw \in {"dir", "link"} /\ ~direct
  /\ calls' = [calls EXCEPT ![1].at = "read", ![1].unread = Children(Top.path)]
  /\ UNCHANGED <<toolVars, fs, mode, attr, listed, cut, todo, old, othersVars>>

(* opendir, of a link if that is there now.                                *)
RmOpens ==
  /\ InCall("rm", "act") /\ Top.saw = "dir" /\ ~direct
  /\ Kind(Follow(Top.path)) = "dir"
  /\ calls' = [calls EXCEPT ![1].at = "read", ![1].unread = Children(Top.path)]
  /\ UNCHANGED <<toolVars, fs, mode, attr, listed, cut, todo, old, othersVars>>

(* An entry is read, and removed first.                                    *)
ReadEntry(name) ==
  /\ InCall(name, "read")
  /\ \E q \in Top.unread :
       calls' = <<Call(q)>> \o [calls EXCEPT ![1].unread = @ \ {q}]
  /\ UNCHANGED <<toolVars, fs, mode, attr, listed, cut, todo, old, othersVars>>

(* The last entry was read, or readdir failed (errno < 0 is never true):   *)
(* the directory goes if it is empty.  do_rm comes here at once.           *)
RmRemovesDirectory ==
  /\ InCall("rm", "read") \/ (InCall("rm", "act") /\ direct /\ Top.saw = "dir")
  /\ Kind(Top.path) = "dir" /\ \A q \in Paths : IsStrictPrefix(Real(Top.path), q) => fs[q] = None
  /\ Unlink(Top.path)
  /\ Return
  /\ UNCHANGED <<toolVars, mode, attr, listed, cut, todo, old, othersVars>>

(* Fault: what fails inside a directory is not reported.                   *)
RmForgets ==
  /\ place = "walk" /\ tool = "rm" /\ calls # <<>>
  /\ Return
  /\ UNCHANGED <<toolVars, fs, mode, attr, listed, cut, todo, old, othersVars>>

(* Any of the calls may fail, and the first one that fails ends it all.    *)
RmFails ==
  /\ place = "walk" /\ tool = "rm" /\ calls # <<>>
  /\ GiveUp("-1")
-----------------------------------------------------------------------------
(* chmod and chown: the operands one after the other, links followed.  (A  *)
(* user that chown does not know is the one with the number atoi returns.) *)
SetBegins ==
  /\ place = "main" /\ tool \in {"chmod", "chown"}
  /\ IF args = <<>> THEN Ends(FALSE, "nothing", "10") /\ UNCHANGED <<old, othersVars>>
                    ELSE Begin(args) /\ UNCHANGED <<said, code>>
  /\ UNCHANGED <<direct, tool, opts, args, calls, fs, mode, attr, listed, cut, todo>>

Sets ==
  /\ place = "walk" /\ tool \in {"chmod", "chown"} /\ args # <<>>
  /\ Node(Follow(Head(args))) # None
  /\ mode' = mode \cup {Node(Follow(Head(args)))}
  /\ args' = Tail(args)
  /\ UNCHANGED <<place, direct, tool, opts, said, code, calls, fs, attr, listed, cut, todo, old, othersVars>>

(* A bad mode, or a file that cannot be changed; the rest is left.         *)
SetFails ==
  /\ place = "walk" /\ tool \in {"chmod", "chown"} /\ args # <<>>
  /\ GiveUp("10")
-----------------------------------------------------------------------------
(* mv: the kind of the destination is looked up once, before all renames;  *)
(* do_mv renames.                                                          *)
MvBegins ==
  /\ place = "main" /\ tool = "mv"
  /\ IF Len(args) < 2 THEN Ends(FALSE, "nothing", "-1") /\ UNCHANGED <<old, todo, othersVars>>
     ELSE /\ Begin(args)
          /\ todo' = [todo EXCEPT !.dir = ~direct /\ Kind(Follow(Last(args))) = "dir"]
          /\ UNCHANGED <<said, code>>
  /\ UNCHANGED <<direct, tool, opts, args, calls, fs, mode, attr, listed, cut>>

(* A source goes into a directory under its own name.                      *)
FullDest(s) == IF todo.dir THEN Append(Last(old.args), Last(s)) ELSE Last(old.args)

(* The tree with what is at s and below it moved to t (rename).            *)
Renamed(s, t) ==
  [p \in Paths |->
     LET from == s \o SubSeq(p, Len(t) + 1, Len(p)) IN
     IF IsPrefix(t, p) THEN (IF from \in Paths THEN fs[from] ELSE None)
     ELSE IF IsPrefix(s, p) THEN None ELSE fs[p]]

CanRename(s, t) ==
  /\ s \in Paths /\ fs[s] # None /\ t \in Paths /\ InDirectory(t)
  /\ ~IsStrictPrefix(s, t) /\ ~IsStrictPrefix(t, s)
  /\ \/ Type(t) = None
     \/ Type(s) # "dir" /\ Type(t) # "dir"
     \/ Type(s) = "dir" /\ Type(t) = "dir" /\ \A q \in Paths : IsStrictPrefix(t, q) => fs[q] = None
  /\ \A p \in Below(s) : fs[p] # None => t \o SubSeq(p, Len(s) + 1, Len(p)) \in Paths

Moves ==
  /\ place = "walk" /\ tool = "mv" /\ Len(args) > 1
  /\ LET s == Real(Head(args))
         t == Real(FullDest(Head(args))) IN
     /\ CanRename(s, t)
     /\ fs' = IF s = t THEN fs ELSE Renamed(s, t)
  /\ args' = Tail(args)
  /\ UNCHANGED <<place, direct, tool, opts, said, code, calls, mode, attr, listed, cut, todo, old, othersVars>>

MvFails ==
  /\ place = "walk" /\ tool = "mv" /\ Len(args) > 1
  /\ GiveUp("-1")

MvDone ==
  /\ place = "walk" /\ tool = "mv" /\ Len(args) = 1
  /\ Ends(TRUE, "0", "nothing")
  /\ UNCHANGED <<direct, tool, opts, args, fileVars>>
-----------------------------------------------------------------------------
(* ls: "l" asks for details (-l or -s), "a" for the hidden files, too, "R" *)
(* goes into directories, "d" lists them themselves.  Without operands the *)
(* working directory is listed.                                            *)
LsBegins ==
  /\ place = "main" /\ tool = "ls"
  /\ args' = IF args = <<>> THEN <<<<>>>> ELSE args
  /\ Begin(args')
  /\ UNCHANGED <<direct, tool, opts, said, code, calls, fs, mode, attr, listed, cut, todo>>

Skipped(p) == p # <<>> /\ Last(p) \in Hidden /\ "a" \notin opts

(* listfile, whose result the loop drops: for the details it looks at the  *)
(* entry, and without them it prints nothing.                              *)
Prints(p) ==
  \/ /\ "l" \in opts => Node(p) # None
     /\ listed' = listed \cup {p} /\ UNCHANGED cut
  \/ /\ "l" \in opts
     /\ cut' = IF Node(p) = None THEN cut ELSE cut \cup {Top.path}
     /\ UNCHANGED listed

(* listpath: lstat decides between listdir and listfile, which looks again *)
(* for the details.                                                        *)
LsLooks ==
  /\ InCall("ls", "look")
  /\ LET p == Top.path
         itself == Kind(p) # None /\ (Kind(p) # "dir" \/ "d" \in opts) IN
     \/ Kind(p) = None /\ Return /\ code' = "failed" /\ UNCHANGED listed
     \/ Kind(p) = "dir" /\ "d" \notin opts /\ At("act") /\ UNCHANGED <<listed, code>>
     \/ itself /\ "l" \in opts /\ At("list") /\ UNCHANGED <<listed, code>>
     \/ itself /\ "l" \notin opts /\ Return /\ listed' = listed \cup {p} /\ UNCHANGED code
  /\ UNCHANGED <<place, direct, tool, opts, args, said, fs, mode, attr, cut, todo, old, othersVars>>

LsLists ==
  /\ InCall("ls", "list")
  /\ Return
  /\ \/ Node(Top.path) # None /\ listed' = listed \cup {Top.path} /\ UNCHANGED code
     \/ code' = "failed" /\ UNCHANGED listed
  /\ UNCHANGED <<place, direct, tool, opts, args, said, fs, mode, attr, cut, todo, old, othersVars>>

(* listdir: opendir.                                                       *)
LsOpens ==
  /\ InCall("ls", "act")
  /\ Kind(Follow(Top.path)) = "dir"
  /\ calls' = [calls EXCEPT ![1].at = "read", ![1].unread = Children(Top.path)]
  /\ UNCHANGED <<toolVars, fs, mode, attr, listed, cut, todo, old, othersVars>>

(* opendir fails, or an entry cannot be looked at.  Only the failures of   *)
(* an operand's own listdir are counted.                                   *)
LsStops ==
  /\ InCall("ls", "act") \/ (InCall("ls", "deep") /\ \E q \in Top.unread : ~Skipped(q))
  /\ Return
  /\ code' = IF Len(calls) = 1 THEN "failed" ELSE code
  /\ UNCHANGED <<place, direct, tool, opts, args, said, fs, mode, attr, listed, cut, todo, old, othersVars>>

(* Fault: the directories are listed and no entries beside them.           *)
LsSkips ==
  /\ InCall("ls", "read")
  /\ \E q \in Top.unread :
       /\ listed' = IF Kind(q) = "dir" \/ Skipped(q) THEN listed ELSE listed \cup {q}
       /\ calls' = [calls EXCEPT ![1].unread = @ \ {q}]
  /\ UNCHANGED <<toolVars, fs, mode, attr, cut, todo, old, othersVars>>

(* The first loop prints an entry that is not hidden.                      *)
LsPrints ==
  /\ InCall("ls", "read")
  /\ \E q \in Top.unread :
       /\ IF Skipped(q) THEN UNCHANGED <<listed, cut>> ELSE Prints(q)
       /\ calls' = [calls EXCEPT ![1].unread = @ \ {q}]
  /\ UNCHANGED <<toolVars, fs, mode, attr, todo, old, othersVars>>

(* There are no more entries, or readdir failed, which is taken for the    *)
(* same: rewinddir and the second loop, with -R.                           *)
LsRewinds ==
  /\ InCall("ls", "read")
  /\ cut' = IF Top.unread = {} THEN cut ELSE cut \cup {Top.path}
  /\ IF "R" \in opts
       THEN calls' = [calls EXCEPT ![1].at = "deep", ![1].unread = Children(Top.path)]
       ELSE Return
  /\ UNCHANGED <<toolVars, fs, mode, attr, listed, todo, old, othersVars>>

(* Fault: a directory is not passed over once it was listed.               *)
LsRevisits ==
  /\ InCall("ls", "deep")
  /\ IF Top.unread = {} THEN Return
     ELSE \E q \in Top.unread :
            IF Kind(q) = "dir" THEN calls' = <<[Call(q) EXCEPT !.at = "act"]>> \o calls
                               ELSE calls' = [calls EXCEPT ![1].unread = @ \ {q}]
  /\ UNCHANGED <<toolVars, fs, mode, attr, listed, cut, todo, old, othersVars>>

(* An entry that is a directory is listed.                                 *)
LsDescends ==
  /\ InCall("ls", "deep")
  /\ \E q \in Top.unread :
       LET rest == [calls EXCEPT ![1].unread = @ \ {q}] IN
       /\ ~Skipped(q) => Node(q) # None
       /\ calls' = IF Kind(q) = "dir" /\ ~Skipped(q) THEN <<[Call(q) EXCEPT !.at = "act"]>> \o rest ELSE rest
  /\ UNCHANGED <<toolVars, fs, mode, attr, listed, cut, todo, old, othersVars>>

LsCloses ==
  /\ InCall("ls", "deep")
  /\ Return
  /\ UNCHANGED <<toolVars, fs, mode, attr, listed, cut, todo, old, othersVars>>
-----------------------------------------------------------------------------
(* chattr: the modifiers -, + and =, whose letters get_flag turns into     *)
(* flags (any flags for a letter it does not know: nothing is returned).   *)
(* The sanity checks print a message and go on, for bb_show_usage does     *)
(* nothing and bb_error_msg_and_die is printf.                             *)
Insane(t) == \/ args = <<>>
             \/ "=" \in t.mods /\ t.mods \cap {"+", "-"} # {}
             \/ t.add \cap t.drop # {}
             \/ t.mods = {}

ChattrBegins ==
  /\ place = "main" /\ tool = "chattr"
  /\ \E m \in Modifiers :
       /\ m.mods \cap {"+", "="} = {} => m.add = {}
       /\ "-" \notin m.mods => m.drop = {}
       /\ todo' = [todo EXCEPT !.add = m.add, !.drop = m.drop, !.mods = m.mods]
       /\ said' = IF args # <<>> /\ Insane(todo') THEN "text" ELSE said
  /\ Begin(args)
  /\ UNCHANGED <<direct, tool, opts, args, code, calls, fs, mode, attr, listed, cut>>

(* Without an operand, lstat gets NULL, and what lies behind the end of    *)
(* the operands is taken for the next one: it ends, or crashes.            *)
ChattrNoOperand ==
  /\ place = "walk" /\ tool = "chattr" /\ calls = <<>> /\ old.args = <<>>
  /\ \E c \in {"ok", "crash"} : Finish("text", c)
  /\ UNCHANGED <<direct, tool, opts, args, fileVars>>

(* Fault: links are changed when recursive, too.                           *)
ChangeableLinks(k) == k \in {"file", "dir", "link"}

(* change_attributes: only links met when not recursive, files and         *)
(* directories are changed.                                                *)
Changeable(k) == k \in {"file", "dir"} \/ (k = "link" /\ "R" \notin opts)

ChattrLooks ==
  /\ InCall("chattr", "look")
  /\ LET k == Kind(Top.path) IN
     /\ said' = IF k = None THEN "text" ELSE said
     /\ IF Changeable(k) THEN calls' = [calls EXCEPT ![1].at = "act", ![1].saw = k] ELSE Return
  /\ UNCHANGED <<place, direct, tool, opts, args, code, fs, mode, attr, listed, cut, todo, old, othersVars>>

NewFlags ==
  IF "=" \in todo.mods THEN todo.add
  ELSE LET g == (Top.got \ todo.drop) \cup todo.add IN IF Top.saw = "dir" THEN g ELSE g \ {"D"}

Descend == IF "R" \in opts /\ Top.saw = "dir" THEN At("open") ELSE Return

(* fgetsetflags looks at the file and opens it, and so do the two calls of *)
(* it one after the other: a link that is there by then is followed.       *)
Opened == Kind(Follow(Top.path)) \in {"file", "dir"}

ChattrGets ==
  /\ InCall("chattr", "act") /\ "=" \notin todo.mods
  /\ Opened
  /\ calls' = [calls EXCEPT ![1].at = "set", ![1].got = attr[Node(Follow(Top.path))]]
  /\ UNCHANGED <<toolVars, fs, mode, attr, listed, cut, todo, old, othersVars>>

ChattrSets ==
  /\ InCall("chattr", "set") \/ (InCall("chattr", "act") /\ "=" \in todo.mods)
  /\ Opened
  /\ attr' = [attr EXCEPT ![Node(Follow(Top.path))] = NewFlags]
  /\ said' \in {said} \cup IF "v" \in todo.mods THEN {"text"} ELSE {}
  /\ Descend
  /\ UNCHANGED <<place, direct, tool, opts, args, code, fs, mode, listed, cut, todo, old, othersVars>>

(* A message, and on to what is below.                                     *)
ChattrFails ==
  /\ InCall("chattr", "act") \/ InCall("chattr", "set")
  /\ said' = "text"
  /\ Descend
  /\ UNCHANGED <<place, direct, tool, opts, args, code, fs, mode, attr, listed, cut, todo, old, othersVars>>

(* iterate_on_dir: a directory that cannot be opened is passed over.       *)
ChattrOpens ==
  /\ InCall("chattr", "open")
  /\ \/ /\ Kind(Follow(Top.path)) = "dir"
        /\ calls' = [calls EXCEPT ![1].at = "read", ![1].unread = Children(Top.path)]
     \/ Return
  /\ UNCHANGED <<toolVars, fs, mode, attr, listed, cut, todo, old, othersVars>>

(* The last entry was read, or readdir failed.                             *)
ChattrCloses ==
  /\ InCall("chattr", "read")
  /\ Return
  /\ UNCHANGED <<toolVars, fs, mode, attr, listed, cut, todo, old, othersVars>>
-----------------------------------------------------------------------------
(* Other processes change the tree meanwhile.  A directory that is being   *)
(* read may show a new entry, or no longer one that has gone.              *)
Changed == {p \in Paths : fs'[p] # fs[p]}

Shown ==
  \/ UNCHANGED calls
  \/ \E k \in DOMAIN calls, p \in Changed :
       /\ calls[k].at \in {"read", "deep"} /\ p # <<>> /\ Front(p) = calls[k].path
       /\ calls' = [calls EXCEPT ![k].unread = IF fs'[p] = None THEN @ \ {p} ELSE @ \cup {p}]

Meddle ==
  /\ meddled' = meddled + 1
  /\ steady' = {p \in steady : \A q \in Changed : ~IsPrefix(q, p)}
  /\ planted' = planted \cup {p \in Changed : fs'[p] # None /\ KindOf[fs'[p]] = "link"}
  /\ others' = others \cup (({fs[p] : p \in Changed} \cup {fs'[p] : p \in Changed}) \ {None})
  /\ Shown
  /\ UNCHANGED <<toolVars, mode, attr, listed, cut, todo, old>>

(* What is at a path goes, with what is below it (out of the tree, or for  *)
(* good), and a file, a directory or a link comes in its place, or none.   *)
OthersPut(p, i) ==
  /\ p # <<>> /\ InDirectory(p) /\ fs[p] # i
  /\ i # None => \A q \in Paths : fs[q] # i
  /\ fs' = [q \in Paths |-> IF q = p THEN i ELSE IF IsPrefix(p, q) THEN None ELSE fs[q]]
  /\ Meddle

OthersMove(s, t) ==
  /\ s # t /\ CanRename(s, t)
  /\ fs' = Renamed(s, t)
  /\ Meddle

Others ==
  /\ place = "walk" /\ meddled < MaxOthers
  /\ \/ \E put \in Puts : OthersPut(put[1], put[2])
     \/ \E move \in Moved : OthersMove(move[1], move[2])

FileStep ==
  \/ NextOperand \/ AllDone({"rm", "chmod", "chown", "ls"})
  \/ (AllDone({"chattr"}) /\ old.args # <<>>)
  \/ RmBegins \/ RmLooks \/ RmUnlinks \/ RmOpens \/ ReadEntry("rm") \/ RmRemovesDirectory \/ RmFails
  \/ SetBegins \/ Sets \/ SetFails
  \/ MvBegins \/ Moves \/ MvFails \/ MvDone
  \/ LsBegins \/ LsLooks \/ LsLists \/ LsOpens \/ LsStops \/ LsPrints \/ LsRewinds \/ LsDescends \/ LsCloses
  \/ ChattrBegins \/ ChattrNoOperand \/ ChattrLooks \/ ChattrGets \/ ChattrSets \/ ChattrFails
  \/ ChattrOpens \/ ReadEntry("chattr") \/ ChattrCloses

(* The type invariant.                                                     *)
FileTypeOK ==
  /\ ToolTypeOK
  /\ fs \in [Paths -> Inodes \cup {None}]
  /\ \A k \in 1 .. Len(calls) :
       /\ calls[k].path \in Paths /\ calls[k].unread \subseteq Paths
       /\ calls[k].at \in {"look", "act", "set", "list", "read", "deep", "open"}
  /\ mode \subseteq Inodes /\ attr \in [Inodes -> SUBSET Flags]
  /\ listed \subseteq Paths /\ others \subseteq Inodes /\ meddled \in 0 .. MaxOthers

(* An operand's call is the one that calls the next: each call is about an *)
(* entry of the one below it on the stack.                                 *)
StackDescends ==
  \A k \in 1 .. Len(calls) - 1 :
    Len(calls[k].path) = Len(calls[k + 1].path) + 1 /\ IsPrefix(calls[k + 1].path, calls[k].path)

Succeeded == place = "done" /\ IF direct THEN code = "ok" ELSE said = "0"
Sources == {old.args[k] : k \in 1 .. Len(old.args) - 1}

(* Others changed nothing on the way to the file at p.                     *)
Alone(p) == {p, Real(p)} \subseteq steady

(* Where mv puts a source: under its name into the directory that the last *)
(* operand was when mv began, though it be a link; and where it may put    *)
(* it, if any name on the way is a link by then.                           *)
Into == Last(old.args)
IntoDirectory == IF old.fs[Into] # None /\ KindOf[old.fs[Into]] = "link" THEN LinkTo ELSE Into
OldDest(s) == Append(IntoDirectory, Last(s))
MayLead(p) == {p} \cup {Through(q, p) : q \in Above(p)}
Targets(s) == MayLead(FullDest(s))

(* The operands lead through no link, the sources have names of their own, *)
(* none of them is what another one becomes or is below it, and none of    *)
(* them is the destination, above it, or replaces it.                      *)
Apart ==
  /\ \A a \in ToSet(old.args) : Way(old.fs, a) = {}
  /\ \A s \in Sources : ~IsPrefix(s, Into) /\ OldDest(s) # Into
  /\ \A j, k \in 1 .. Len(old.args) - 1 :
       j # k => /\ Last(old.args[j]) # Last(old.args[k])
                /\ ~IsPrefix(OldDest(old.args[j]), old.args[k])

(* "0" means that all the operands were dealt with, apart from what other  *)
(* processes changed meanwhile: rm removed them (readdir's errors are not  *)
(* seen, but rmdir fails then), chmod and chown changed them, mv moved     *)
(* them into the directory, and chattr, which says nothing, set the flags. *)
FilesHonest ==
  /\ Succeeded /\ tool = "rm" => \A a \in ToSet(old.args) : Alone(a) => Node(a) = None
  /\ Succeeded /\ tool \in {"chmod", "chown"} =>
       \A a \in ToSet(old.args) : Alone(a) /\ Alone(Follow(a)) => Node(Follow(a)) \in mode
  /\ Succeeded /\ tool = "mv" /\ todo.dir /\ Apart /\ ToSet(old.args) \subseteq steady =>
       \A s \in Sources : OldDest(s) \in steady => fs[OldDest(s)] = old.fs[s]
  /\ place = "done" /\ tool = "chattr" /\ said = "nothing" /\ code = "ok" =>
       \A a \in ToSet(old.args) :
         Alone(a) /\ Kind(a) \in {"file", "dir"} => todo.add \ {"D"} \subseteq attr[Node(a)]

(* What a recursive command may reach: what is at or below an operand, or  *)
(* where that led when the command began.  lstat and the opendir or open   *)
(* after it name the file anew (rm.c lines 25-33, chattr.c 116-153,        *)
(* e2fs_lib.c 37 and 93-98): if others put a link above, at or below an    *)
(* operand in the meantime, then also what is below where links lead.      *)
Asked(p) == \E a \in ToSet(old.args) : IsPrefix(a, p) \/ IsPrefix(Leads(old.fs, a), p)
Near(p) == Asked(p) \/ \E a \in ToSet(old.args) : IsPrefix(p, a)
Diverted == \E q \in planted : Near(q)
Reached(p) == Asked(p) \/ (Diverted /\ IsPrefix(LinkTo, p))

(* A file disappears only if rm may reach it, if a source was moved onto   *)
(* it, or if it was moved itself with a source of several, of which        *)
(* another one can be renamed onto it: unless others put a link in its way *)
(* rm unlinks links and does not follow them, and no other command loses a *)
(* file.                                                                   *)
NothingElseLost ==
  \A p \in steady :
    LET i == old.fs[p] IN
    place \in {"walk", "done"} /\ i # None /\ (\A q \in Paths : fs[q] # i) =>
      \/ tool = "rm" /\ Reached(p)
      \/ tool = "mv" /\ \E s \in Sources : p \in Targets(s)
      \/ tool = "mv" /\ Len(old.args) > 2 /\ \E s \in Sources : \E r \in MayLead(s) : IsPrefix(r, p)
      \/ i \in others

(* "Ignore symlinks when working recursively" (chattr.c line 18): chattr   *)
(* -R changes only files that it may reach and what others put there; a    *)
(* link is followed only if others put it in its way.                      *)
ChattrInside ==
  tool = "chattr" /\ "R" \in opts =>
    \A i \in Inodes :
      attr[i] # Flags \ {"D"} => (\E p \in Paths : old.fs[p] = i /\ Reached(p)) \/ i \in others

(* A listing that ls ends with 0 has every entry of the directories it was *)
(* given that is not hidden, or every entry with -a, whatever others do to *)
(* the rest, unless readdir or a look at an entry failed, which ls does    *)
(* not tell (cut); and it has nothing that was not there.                  *)
LsComplete ==
  tool = "ls" /\ place = "done" /\ code = "ok" =>
    /\ \A p \in Paths : \A a \in ToSet(old.args) \ cut :
         /\ Alone(a) /\ Kind(a) = "dir" /\ "d" \notin opts
         /\ IsPrefix(a, p) /\ Len(p) = Len(a) + 1 /\ Alone(p) /\ Node(p) # None /\ ~Skipped(p)
         => p \in listed
    /\ \A p \in listed : Alone(p) => Node(p) # None
    /\ \A p \in listed : Skipped(p) => p \in ToSet(old.args)
=============================================================================
