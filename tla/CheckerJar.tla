------------------------------- MODULE CheckerJar -------------------------------
(***************************************************************************)
(* The jar of the signature checker (data.c): libsu carries it as text, two*)
(* characters for a byte, which tools/read.java has encoded.  Before every *)
(* check a server validates the file and, when it is not the jar, unlinks  *)
(* it and extracts it anew.  The permanent and the temporary servers use   *)
(* one path.  The place of a server is one of                              *)
(*   idle      between checks           stat    about to look at the size  *)
(*   open      about to open the file   compare reading it byte by byte    *)
(*   unlink    it is not the jar        create  about to create it         *)
(*   write     in extractjar's loop     giveup  extractjar failed          *)
(*   chmod     extracted                check   app_process is started     *)
(*   check2    _system2, after a first try that did not end with 100       *)
(***************************************************************************)
EXTENDS Integers, Sequences, FiniteSets

CONSTANTS Servers,
          Jar,         \* the bytes that read.java was given
          Before,      \* what may be at the path to begin with
          MaxFailures, \* bound: writes that the disk has no room for
          MaxCrashes   \* bound: servers killed in the middle of a check

None == 0
Inodes == 1 .. Cardinality(Servers) + 1

ASSUME ServersAssumption == IsFiniteSet(Servers)
ASSUME JarAssumption == /\ Jar \in Seq(0 .. 255) /\ Before \subseteq Seq(0 .. 255)
                        /\ MaxFailures \in Nat /\ MaxCrashes \in Nat

VARIABLES
  place,     \* of each server
  path,      \* the file at jar_path, or None
  content,   \* the bytes of each file
  fd,        \* the file each server has open, or None
  pos,       \* the byte of the text each has come to
  off,       \* the offset at which each writes
  verdict,   \* of its last check
  failures, crashes,
  disturbed  \* has another server, a full disk or a kill come into its check

vars == <<place, path, content, fd, pos, off, verdict, failures, crashes, disturbed>>
-----------------------------------------------------------------------------
(* The encoder.  Letters and digits stand for themselves; the other bytes  *)
(* below 128 are shifted to letters, range by range; those from 128 on are *)
(* encoded as the byte 128 below.                                          *)
Low(k) == IF k >= 128 THEN k - 128 ELSE k

(* Faulty: the last byte of the first range is left to the next.           *)
RankOpen(k) ==
  CASE Low(k) \in  0 ..  24 -> [index |-> 65, shift |-> 97]
    [] Low(k) \in 25 ..  47 -> [index |-> 66, shift |-> 71]
    [] Low(k) \in 58 ..  64 -> [index |-> 67, shift |-> 39]
    [] Low(k) \in 91 ..  96 -> [index |-> 68, shift |->  6]
    [] Low(k) \in 123 .. 127 -> [index |-> 69, shift |-> -5]
    [] OTHER -> [index |-> 121, shift |-> 0]
Rank(k) ==
  CASE Low(k) \in  0 ..  25 -> [index |-> 65, shift |-> 97]
    [] Low(k) \in 26 ..  47 -> [index |-> 66, shift |-> 71]
    [] Low(k) \in 58 ..  64 -> [index |-> 67, shift |-> 39]
    [] Low(k) \in 91 ..  96 -> [index |-> 68, shift |->  6]
    [] Low(k) \in 123 .. 127 -> [index |-> 69, shift |-> -5]
    [] OTHER -> [index |-> 121, shift |-> 0]

(* The two characters of a byte.                                           *)
Index(k) == Rank(k).index + (IF k < 128 THEN 0 ELSE IF Rank(k).index = 121 THEN 1 ELSE 32)
Char(k) == Low(k) + Rank(k).shift

(* pairs and findoffset; -1000 says that the text is not valid.            *)
FindOffset(index) ==
  CASE index =  65 -> -97 [] index =  97 -> -97 + 128
    [] index =  66 -> -71 [] index =  98 -> -71 + 128
    [] index =  67 -> -39 [] index =  99 -> -39 + 128
    [] index =  68 ->  -6 [] index = 100 ->  -6 + 128
    [] index =  69 ->   5 [] index = 101 ->   5 + 128
    [] index = 121 ->   0 [] index = 122 -> 128
    [] OTHER -> -1000

(* What the loops of extractjar and validatejar make of the text of k.     *)
Value(k) == Char(k) + FindOffset(Index(k))
-----------------------------------------------------------------------------
Init ==
  /\ place = [s \in Servers |-> "idle"]
  /\ path \in {None, 1}
  /\ content \in {[i \in Inodes |-> IF i = path THEN b ELSE <<>>] : b \in Before}
  /\ fd = [s \in Servers |-> None] /\ pos = [s \in Servers |-> 0] /\ off = [s \in Servers |-> 0]
  /\ verdict = [s \in Servers |-> "none"]
  /\ failures = 0 /\ crashes = 0
  /\ disturbed = [s \in Servers |-> FALSE]

Goes(s, to) == place' = [place EXCEPT ![s] = to]
Opens(s, i) ==
  /\ fd' = [fd EXCEPT ![s] = i]
  /\ pos' = [pos EXCEPT ![s] = 0] /\ off' = [off EXCEPT ![s] = 0]
Closes(s) == Opens(s, None)
(* The others that are at a check are disturbed by a step of s.            *)
Disturbs(s) == disturbed' = [x \in Servers |-> disturbed[x] \/ x # s]

(* The file with the byte b at offset k; what a truncation left is 0.      *)
Put(f, k, b) ==
  [i \in 1 .. (IF k >= Len(f) THEN k + 1 ELSE Len(f)) |->
     IF i = k + 1 THEN b ELSE IF i <= Len(f) THEN f[i] ELSE 0]

(* Files that nobody holds: with one more than servers there is always one.*)
Free == Inodes \ ({path} \cup {fd[s] : s \in Servers})
-----------------------------------------------------------------------------
Begin(s) ==
  /\ place[s] = "idle"
  /\ Goes(s, "stat")
  /\ disturbed' = [disturbed EXCEPT ![s] = FALSE]
  /\ UNCHANGED <<path, content, fd, pos, off, verdict, failures, crashes>>

(* Faulty: a file that is there is taken for the jar when its size fits.   *)
StatTrusts(s) ==
  /\ place[s] = "stat"
  /\ Goes(s, IF path # None /\ Len(content[path]) = Len(Jar) THEN "check" ELSE "unlink")
  /\ UNCHANGED <<path, content, fd, pos, off, verdict, failures, crashes, disturbed>>

(* validatejar: there is a file and it has the right size.                 *)
Stat(s) ==
  /\ place[s] = "stat"
  /\ Goes(s, IF path # None /\ Len(content[path]) = Len(Jar) THEN "open" ELSE "unlink")
  /\ UNCHANGED <<path, content, fd, pos, off, verdict, failures, crashes, disturbed>>

Open(s) ==
  /\ place[s] = "open"
  /\ Opens(s, path)
  /\ Goes(s, IF path = None THEN "unlink" ELSE "compare")
  /\ UNCHANGED <<path, content, verdict, failures, crashes, disturbed>>

(* Faulty: a read that finds the end of the file is repeated.              *)
CompareWaits(s) ==
  /\ place[s] = "compare"
  /\ LET k == pos[s] + 1 IN
       IF k \in DOMAIN content[fd[s]] /\ k <= Len(Jar) /\ content[fd[s]][k] = Value(Jar[k])
       THEN pos' = [pos EXCEPT ![s] = k] /\ UNCHANGED <<place, fd, off>>
       ELSE /\ pos[s] = Len(Jar) \/ k \in DOMAIN content[fd[s]]
            /\ Closes(s) /\ Goes(s, IF pos[s] = Len(Jar) THEN "check" ELSE "unlink")
  /\ UNCHANGED <<path, content, verdict, failures, crashes, disturbed>>

(* One byte is read and compared; the file is closed behind the last, at a *)
(* difference and at its end.                                              *)
Compare(s) ==
  /\ place[s] = "compare"
  /\ LET k == pos[s] + 1 IN
       IF k \in DOMAIN content[fd[s]] /\ k <= Len(Jar) /\ content[fd[s]][k] = Value(Jar[k])
       THEN pos' = [pos EXCEPT ![s] = k] /\ UNCHANGED <<place, fd, off>>
       ELSE Closes(s) /\ Goes(s, IF pos[s] = Len(Jar) THEN "check" ELSE "unlink")
  /\ UNCHANGED <<path, content, verdict, failures, crashes, disturbed>>

Unlink(s) ==
  /\ place[s] = "unlink"
  /\ path' = None
  /\ Goes(s, "create")
  /\ Disturbs(s)
  /\ UNCHANGED <<content, fd, pos, off, verdict, failures, crashes>>

(* open with O_CREAT and O_TRUNC: another server may have been faster.     *)
Create(s) ==
  /\ place[s] = "create"
  /\ path # None \/ Free # {}
  /\ \E i \in IF path = None THEN {CHOOSE j \in Free : TRUE} ELSE {path} :
       path' = i /\ content' = [content EXCEPT ![i] = <<>>] /\ Opens(s, i)
  /\ Goes(s, "write")
  /\ Disturbs(s)
  /\ UNCHANGED <<verdict, failures, crashes>>

CreateFails(s) ==
  /\ place[s] = "create"
  /\ failures < MaxFailures
  /\ failures' = failures + 1
  /\ Goes(s, "giveup")
  /\ UNCHANGED <<path, content, fd, pos, off, verdict, crashes, disturbed>>

Extracted(s) == pos[s] >= Len(Jar)
Unknown(s) == ~Extracted(s) /\ FindOffset(Index(Jar[pos[s] + 1])) = -1000

(* One byte is written.                                                    *)
Write(s) ==
  /\ place[s] = "write"
  /\ ~Extracted(s) /\ ~Unknown(s)
  /\ pos' = [pos EXCEPT ![s] = @ + 1] /\ off' = [off EXCEPT ![s] = @ + 1]
  /\ content' = [content EXCEPT ![fd[s]] = Put(@, off[s], Value(Jar[pos[s] + 1]) % 256)]
  /\ Disturbs(s)
  /\ UNCHANGED <<place, path, fd, verdict, failures, crashes>>

(* Faulty: the loop counts a byte that was not written twice.              *)
WriteLostSkips(s) ==
  /\ place[s] = "write"
  /\ ~Extracted(s) /\ ~Unknown(s)
  /\ failures < MaxFailures
  /\ failures' = failures + 1
  /\ pos' = [pos EXCEPT ![s] = @ + 2]
  /\ disturbed' = [disturbed EXCEPT ![s] = TRUE]
  /\ UNCHANGED <<place, path, content, fd, off, verdict, crashes>>

(* The disk has no room for it, which nobody looks at.                     *)
WriteLost(s) ==
  /\ place[s] = "write"
  /\ ~Extracted(s) /\ ~Unknown(s)
  /\ failures < MaxFailures
  /\ failures' = failures + 1
  /\ pos' = [pos EXCEPT ![s] = @ + 1]
  /\ disturbed' = [disturbed EXCEPT ![s] = TRUE]
  /\ UNCHANGED <<place, path, content, fd, off, verdict, crashes>>

(* The end of the text, or an index that is none.                          *)
EndOfText(s) ==
  /\ place[s] = "write"
  /\ Extracted(s) \/ Unknown(s)
  /\ Goes(s, IF Extracted(s) THEN "chmod" ELSE "giveup")
  /\ Closes(s)
  /\ UNCHANGED <<path, content, verdict, failures, crashes, disturbed>>

Says(s, v) == verdict' = [verdict EXCEPT ![s] = v] /\ Goes(s, "idle")

GiveUp(s) ==
  /\ place[s] = "giveup"
  /\ path' = None
  /\ Says(s, "refused")
  /\ Disturbs(s)
  /\ UNCHANGED <<content, fd, pos, off, failures, crashes>>

Chmod(s) ==
  /\ place[s] = "chmod"
  /\ IF path = None THEN Says(s, "refused") ELSE Goes(s, "check") /\ UNCHANGED verdict
  /\ UNCHANGED <<path, content, fd, pos, off, failures, crashes, disturbed>>

Whole == path # None /\ content[path] = Jar

(* app_process runs the checker for a client that it would accept; from a  *)
(* file that is not the jar nothing runs.  There is a second try.          *)
Check(s) ==
  /\ place[s] \in {"check", "check2"}
  /\ IF Whole THEN Says(s, "accepted")
     ELSE IF place[s] = "check" THEN Goes(s, "check2") /\ UNCHANGED verdict
     ELSE Says(s, "refused")
  /\ UNCHANGED <<path, content, fd, pos, off, failures, crashes, disturbed>>

(* A server is killed in the middle and another takes its place.           *)
Killed(s) ==
  /\ place[s] # "idle"
  /\ crashes < MaxCrashes
  /\ crashes' = crashes + 1
  /\ Goes(s, "idle") /\ Closes(s)
  /\ UNCHANGED <<path, content, verdict, failures, disturbed>>
-----------------------------------------------------------------------------
CheckStep(s) ==
  \/ Stat(s) \/ Open(s) \/ Compare(s) \/ Unlink(s) \/ Create(s) \/ CreateFails(s)
  \/ Write(s) \/ WriteLost(s) \/ EndOfText(s) \/ GiveUp(s) \/ Chmod(s) \/ Check(s)
Next == \E s \in Servers : Begin(s) \/ CheckStep(s) \/ Killed(s)
Spec == Init /\ [][Next]_vars
(* A check that was begun goes on.                                         *)
FairSpec == Spec /\ \A s \in Servers : WF_vars(CheckStep(s))
-----------------------------------------------------------------------------
(* The type invariant.                                                     *)
JarTypeOK ==
  /\ place \in [Servers -> {"idle", "stat", "open", "compare", "unlink", "create", "write",
                           "giveup", "chmod", "check", "check2"}]
  /\ path \in Inodes \cup {None}
  /\ content \in [Inodes -> Seq(0 .. 255)]
  /\ fd \in [Servers -> Inodes \cup {None}]
  /\ pos \in [Servers -> 0 .. Len(Jar)] /\ off \in [Servers -> Nat]
  /\ verdict \in [Servers -> {"none", "accepted", "refused"}]
  /\ disturbed \in [Servers -> BOOLEAN]

(* For every byte data.c makes of read.java's text the byte it was made    *)
(* from, and the text is of letters and digits, so that strlen sees all.   *)
CodecInverts ==
  \A k \in 0 .. 255 :
    /\ Value(k) = k
    /\ {Index(k), Char(k)} \subseteq (48 .. 57) \cup (65 .. 90) \cup (97 .. 122)

(* Whatever was at the path, a short file, a longer one or one with a      *)
(* wrong byte, a check that nobody disturbs has the whole jar when the     *)
(* checker is started (lines 239-253).                                     *)
UndisturbedWhole ==
  \A s \in Servers : place[s] \in {"check", "check2"} /\ ~disturbed[s] => Whole

(* What a server that nobody has disturbed knows at each place: the loops  *)
(* have passed what the open file holds, and behind them it is whole.      *)
Knows(s) ==
  /\ place[s] = "open" => path # None /\ Len(content[path]) = Len(Jar)
  /\ place[s] = "compare" => /\ path # None /\ fd[s] = path
                             /\ Len(content[path]) = Len(Jar)
                             /\ \A i \in 1 .. pos[s] : content[path][i] = Jar[i]
  /\ place[s] = "create" => path = None
  /\ place[s] = "write" => /\ path # None /\ fd[s] = path
                           /\ off[s] = pos[s] /\ Len(content[path]) = pos[s]
                           /\ \A i \in 1 .. pos[s] : content[path][i] = Jar[i]
  /\ place[s] \in {"chmod", "check", "check2"} => Whole

(* The inductive invariant.                                                *)
JarInv == JarTypeOK /\ \A s \in Servers : ~disturbed[s] => Knows(s)

(* Text and file agree: the codec loses no byte and the loops that write   *)
(* and compare lose none (read.java lines 28-110, data.c 51-139).          *)
JarSound == CodecInverts /\ JarInv

(* A check ends, and where only one server goes on checking the jar is     *)
(* whole in the end: a full disk, a kill or another server leave nothing   *)
(* that the next check does not repair.                                    *)
JarSettles ==
  \A s \in Servers :
    /\ place[s] = "stat" ~> place[s] = "idle"
    /\ (<>[](\A x \in Servers \ {s} : place[x] = "idle")) /\ []<>(place[s] = "stat") => <>[]Whole
=============================================================================
