---------------------------- MODULE CheckerJarProofs ----------------------------
(***************************************************************************)
(* Proofs about CheckerJar, for any jar, any number of servers and any     *)
(* file at the path to begin with: the decoder inverts the encoder, and an *)
(* undisturbed check has the whole jar.                                    *)
(***************************************************************************)
EXTENDS CheckerJar, FiniteSetTheorems, TLAPS

(* The rank of a byte, range by range, and the row of pairs that inverts   *)
(* it: read.java line 68 against data.c line 15.                           *)
LEMMA LowRange == ASSUME NEW k \in 0 .. 255 PROVE Low(k) \in 0 .. 127 /\ k = Low(k) + (IF k < 128 THEN 0 ELSE 128)
BY DEF Low

LEMMA Inverts ==
  ASSUME NEW k \in 0 .. 255
  PROVE  /\ Value(k) = k
         /\ Index(k) \in (48 .. 57) \cup (65 .. 90) \cup (97 .. 122)
         /\ Char(k) \in (48 .. 57) \cup (65 .. 90) \cup (97 .. 122)
<1>0. Low(k) \in 0 .. 127 /\ k = Low(k) + (IF k < 128 THEN 0 ELSE 128)
  BY LowRange
<1>1. CASE Low(k) \in 0 .. 25
  <2>1. Rank(k) = [index |-> 65, shift |-> 97]
    BY <1>0, <1>1 DEF Rank
  <2> QED BY <2>1, <1>0, <1>1 DEF Value, Index, Char, FindOffset
<1>2. CASE Low(k) \in 26 .. 47
  <2>1. Rank(k) = [index |-> 66, shift |-> 71]
    BY <1>0, <1>2 DEF Rank
  <2> QED BY <2>1, <1>0, <1>2 DEF Value, Index, Char, FindOffset
<1>3. CASE Low(k) \in 58 .. 64
  <2>1. Rank(k) = [index |-> 67, shift |-> 39]
    BY <1>0, <1>3 DEF Rank
  <2> QED BY <2>1, <1>0, <1>3 DEF Value, Index, Char, FindOffset
<1>4. CASE Low(k) \in 91 .. 96
  <2>1. Rank(k) = [index |-> 68, shift |-> 6]
    BY <1>0, <1>4 DEF Rank
  <2> QED BY <2>1, <1>0, <1>4 DEF Value, Index, Char, FindOffset
<1>5. CASE Low(k) \in 123 .. 127
  <2>1. Rank(k) = [index |-> 69, shift |-> -5]
    BY <1>0, <1>5 DEF Rank
  <2> QED BY <2>1, <1>0, <1>5 DEF Value, Index, Char, FindOffset
<1>6. CASE Low(k) \in (48 .. 57) \cup (65 .. 90) \cup (97 .. 122)
  <2>1. Rank(k) = [index |-> 121, shift |-> 0]
    BY <1>0, <1>6 DEF Rank
  <2> QED BY <2>1, <1>0, <1>6 DEF Value, Index, Char, FindOffset
<1> QED BY <1>0, <1>1, <1>2, <1>3, <1>4, <1>5, <1>6

(* For every byte data.c makes of read.java's text the byte it was made    *)
(* from, and the text is of letters and digits.                            *)
THEOREM Codec == CodecInverts
<1> SUFFICES ASSUME NEW k \in 0 .. 255
             PROVE  /\ Value(k) = k
                    /\ {Index(k), Char(k)} \subseteq (48 .. 57) \cup (65 .. 90) \cup (97 .. 122)
    BY DEF CodecInverts
<1>1. Value(k) = k /\ Index(k) \in (48 .. 57) \cup (65 .. 90) \cup (97 .. 122)
                     /\ Char(k) \in (48 .. 57) \cup (65 .. 90) \cup (97 .. 122)
  BY Inverts
<1> QED BY <1>1

-----------------------------------------------------------------------------
(* Two sequences with the same elements are the same.                      *)
LEMMA SameJar ==
  ASSUME NEW f \in Seq(0 .. 255), Len(f) = Len(Jar), \A i \in 1 .. Len(Jar) : f[i] = Jar[i]
  PROVE  f = Jar
<1>1. Jar \in Seq(0 .. 255)
  BY JarAssumption
<1> QED BY <1>1

LEMMA IsASeq ==
  ASSUME NEW n \in Nat, NEW S, NEW f \in [1 .. n -> S]
  PROVE  f \in Seq(S) /\ Len(f) = n
OBVIOUS

LEMMA ElementOfSeq ==
  ASSUME NEW S, NEW f \in Seq(S)
  PROVE  Len(f) \in Nat /\ \A i \in 1 .. Len(f) : f[i] \in S
OBVIOUS

(* A byte at an offset: the file stays a file, and behind its end it grows.*)
LEMMA PutType ==
  ASSUME NEW f \in Seq(0 .. 255), NEW k \in Nat, NEW b \in 0 .. 255
  PROVE  Put(f, k, b) \in Seq(0 .. 255)
<1> DEFINE n == IF k >= Len(f) THEN k + 1 ELSE Len(f)
<1>1. n \in Nat
  OBVIOUS
<1>2. \A i \in 1 .. n : (IF i = k + 1 THEN b ELSE IF i <= Len(f) THEN f[i] ELSE 0) \in 0 .. 255
  <2> SUFFICES ASSUME NEW i \in 1 .. n
               PROVE  (IF i = k + 1 THEN b ELSE IF i <= Len(f) THEN f[i] ELSE 0) \in 0 .. 255
      OBVIOUS
  <2>1. i <= Len(f) => f[i] \in 0 .. 255
    BY ElementOfSeq, <1>1
  <2> QED BY <2>1
<1>3. Put(f, k, b) \in [1 .. n -> 0 .. 255]
  BY <1>2 DEF Put
<1> HIDE DEF n
<1> QED BY <1>1, <1>3, IsASeq

LEMMA PutAppends ==
  ASSUME NEW f \in Seq(0 .. 255), NEW b \in 0 .. 255
  PROVE  /\ Len(Put(f, Len(f), b)) = Len(f) + 1
         /\ \A i \in 1 .. Len(f) : Put(f, Len(f), b)[i] = f[i]
         /\ Put(f, Len(f), b)[Len(f) + 1] = b
<1>0. Len(f) \in Nat
  OBVIOUS
<1>1. Put(f, Len(f), b) = [i \in 1 .. Len(f) + 1 |-> IF i = Len(f) + 1 THEN b ELSE IF i <= Len(f) THEN f[i] ELSE 0]
  BY <1>0 DEF Put
<1>2. Put(f, Len(f), b) \in [1 .. Len(f) + 1 -> 0 .. 255]
  <2>1. \A i \in 1 .. Len(f) : f[i] \in 0 .. 255
    BY <1>0, ElementOfSeq
  <2> QED BY <1>0, <1>1, <2>1
<1>3. Len(Put(f, Len(f), b)) = Len(f) + 1
  BY <1>0, <1>2, IsASeq
<1> QED BY <1>0, <1>1, <1>3

(* Jar's text is valid: no index is unknown, and what is written is Jar.   *)
LEMMA TextValid ==
  ASSUME NEW k \in 0 .. 255
  PROVE  FindOffset(Index(k)) # -1000 /\ Value(k) = k /\ Value(k) % 256 = k
<1>1. Value(k) = k /\ Char(k) \in (48 .. 57) \cup (65 .. 90) \cup (97 .. 122)
  BY Inverts
<1>2. FindOffset(Index(k)) = -1000 => Value(k) = Char(k) + -1000
  BY DEF Value
<1>3. FindOffset(Index(k)) # -1000
  BY <1>1, <1>2
<1> QED BY <1>1, <1>3

(* What the loops read of the jar: bytes, whose text is valid.             *)
Byte == 0 .. 255
GoodText(k) == FindOffset(Index(k)) # -1000 /\ Value(k) % 256 = k

LEMMA BytesHaveText == \A k \in Byte : GoodText(k)
BY TextValid DEF Byte, GoodText

LEMMA JarBytes == \A k \in 1 .. Len(Jar) : Jar[k] \in Byte /\ GoodText(Jar[k])
<1>1. \A k \in 1 .. Len(Jar) : Jar[k] \in Byte
  BY JarAssumption, ElementOfSeq DEF Byte
<1> QED BY <1>1, BytesHaveText

LEMMA InodesAre == None \notin Inodes /\ 1 \in Inodes
<1>1. Cardinality(Servers) \in Nat
  BY ServersAssumption, FS_CardinalityType
<1> QED BY <1>1 DEF None, Inodes

LEMMA InitInv == Init => JarInv
<1> SUFFICES ASSUME Init PROVE JarInv
    OBVIOUS
<1>1. Len(Jar) \in Nat
  BY JarAssumption, ElementOfSeq
<1>2. content \in [Inodes -> Seq(0 .. 255)]
  <2>1. PICK b \in Before : content = [i \in Inodes |-> IF i = path THEN b ELSE <<>>]
    BY DEF Init
  <2>2. b \in Seq(0 .. 255) /\ <<>> \in Seq(0 .. 255)
    BY JarAssumption
  <2> QED BY <2>1, <2>2
<1>3. JarTypeOK
  BY <1>1, <1>2, InodesAre DEF Init, JarTypeOK
<1>4. \A s \in Servers : Knows(s)
  BY DEF Init, Knows
<1> QED BY <1>3, <1>4 DEF JarInv

(* Servers whose steps leave the files alone take nothing from another.    *)
LEMMA OthersKnow ==
  ASSUME NEW s \in Servers, NEW t \in Servers, Knows(t), UNCHANGED <<path, content>>,
         place'[t] = place[t], fd'[t] = fd[t], pos'[t] = pos[t], off'[t] = off[t]
  PROVE  Knows(t)'
BY DEF Knows, Whole

(* The steps that leave the files alone.                                   *)
LEMMA BeginInv == ASSUME JarInv, NEW s \in Servers, Begin(s) PROVE JarInv'
<1> USE DEF JarInv
<1>1. JarTypeOK'
  BY DEF JarTypeOK, Begin, Goes
<1>2. Knows(s)'
  BY DEF JarTypeOK, Begin, Goes, Knows
<1>3. ASSUME NEW t \in Servers, t # s, ~disturbed'[t] PROVE Knows(t)'
  BY <1>3, OthersKnow DEF JarTypeOK, Begin, Goes
<1> QED BY <1>1, <1>2, <1>3

LEMMA StatInv == ASSUME JarInv, NEW s \in Servers, Stat(s) PROVE JarInv'
<1> USE DEF JarInv
<1>1. JarTypeOK'
  BY DEF JarTypeOK, Stat, Goes
<1>2. Knows(s)'
  BY DEF JarTypeOK, Stat, Goes, Knows
<1>3. ASSUME NEW t \in Servers, t # s, ~disturbed'[t] PROVE Knows(t)'
  BY <1>3, OthersKnow DEF JarTypeOK, Stat, Goes
<1> QED BY <1>1, <1>2, <1>3

LEMMA OpenInv == ASSUME JarInv, NEW s \in Servers, Open(s) PROVE JarInv'
<1> USE DEF JarInv
<1>0. Len(Jar) \in Nat
  BY JarAssumption, ElementOfSeq
<1>1. JarTypeOK'
  BY <1>0 DEF JarTypeOK, Open, Goes, Opens
<1>2. ~disturbed'[s] => Knows(s)'
  BY DEF JarTypeOK, Open, Goes, Opens, Knows
<1>3. ASSUME NEW t \in Servers, t # s, ~disturbed'[t] PROVE Knows(t)'
  BY <1>3, OthersKnow DEF JarTypeOK, Open, Goes, Opens
<1> QED BY <1>1, <1>2, <1>3

LEMMA CompareInv == ASSUME JarInv, NEW s \in Servers, Compare(s) PROVE JarInv'
<1> USE DEF JarInv
<1>0. Len(Jar) \in Nat /\ \A k \in 1 .. Len(Jar) : Jar[k] \in 0 .. 255
  BY JarAssumption, ElementOfSeq
<1>1. JarTypeOK'
  <2>1. pos'[s] \in 0 .. Len(Jar) /\ pos' = [pos EXCEPT ![s] = pos'[s]]
    <3>1. pos[s] + 1 <= Len(Jar) => pos[s] + 1 \in 0 .. Len(Jar)
      BY <1>0 DEF JarTypeOK
    <3>2. \/ pos' = [pos EXCEPT ![s] = 0]
          \/ pos[s] + 1 <= Len(Jar) /\ pos' = [pos EXCEPT ![s] = pos[s] + 1]
      BY DEF Compare, Closes, Opens
    <3> QED BY <1>0, <3>1, <3>2 DEF JarTypeOK
  <2>2. /\ fd' \in [Servers -> Inodes \cup {None}] /\ off' \in [Servers -> Nat]
        /\ UNCHANGED <<path, content, verdict, disturbed>>
    <3>1. \/ UNCHANGED <<fd, off>>
          \/ fd' = [fd EXCEPT ![s] = None] /\ off' = [off EXCEPT ![s] = 0]
      BY DEF Compare, Closes, Opens
    <3>2. off \in [Servers -> Nat] /\ fd \in [Servers -> Inodes \cup {None}]
      BY DEF JarTypeOK
    <3>3. off' \in [Servers -> Nat] /\ fd' \in [Servers -> Inodes \cup {None}]
      <4>1. CASE UNCHANGED <<fd, off>>
        BY <3>2, <4>1
      <4>2. CASE fd' = [fd EXCEPT ![s] = None] /\ off' = [off EXCEPT ![s] = 0]
        <5>1. 0 \in Nat
          OBVIOUS
        <5> QED BY <3>2, <4>2, <5>1
      <4> QED BY <3>1, <4>1, <4>2
    <3> QED BY <3>3 DEF Compare
  <2>3. place' = place \/ place' = [place EXCEPT ![s] = "check"] \/ place' = [place EXCEPT ![s] = "unlink"]
    BY DEF Compare, Goes
  <2> QED BY <2>1, <2>2, <2>3 DEF JarTypeOK
<1>2. ASSUME ~disturbed'[s] PROVE Knows(s)'
  <2>1. /\ path # None /\ fd[s] = path /\ path \in Inodes
        /\ Len(content[path]) = Len(Jar) /\ content[path] \in Seq(0 .. 255)
        /\ \A i \in 1 .. pos[s] : content[path][i] = Jar[i]
        /\ pos[s] \in 0 .. Len(Jar)
    BY <1>2 DEF Compare, Knows, JarTypeOK
  <2> DEFINE k == pos[s] + 1
  <2>2. CASE k \in DOMAIN content[fd[s]] /\ k <= Len(Jar) /\ content[fd[s]][k] = Value(Jar[k])
    <3>1. content[path][k] = Jar[k]
      <4>1. k \in 1 .. Len(Jar)
        BY <1>0, <2>1, <2>2
      <4> QED BY <1>0, <2>1, <2>2, <4>1, Inverts
    <3>2. pos' = [pos EXCEPT ![s] = k] /\ UNCHANGED <<place, fd, off, path, content>>
      BY <2>2 DEF Compare
    <3>3. pos'[s] = k
      BY <3>2 DEF JarTypeOK
    <3>4. \A i \in 1 .. k : content[path][i] = Jar[i]
      BY <1>0, <2>1, <3>1
    <3> QED BY <2>1, <3>2, <3>3, <3>4 DEF Compare, Knows
  <2>3. CASE ~(k \in DOMAIN content[fd[s]] /\ k <= Len(Jar) /\ content[fd[s]][k] = Value(Jar[k]))
    <3>1. /\ place' = [place EXCEPT ![s] = IF pos[s] = Len(Jar) THEN "check" ELSE "unlink"]
          /\ UNCHANGED <<path, content>>
      BY <2>3 DEF Compare, Goes
    <3>2. place'[s] = IF pos[s] = Len(Jar) THEN "check" ELSE "unlink"
      BY <3>1 DEF JarTypeOK
    <3>3. pos[s] = Len(Jar) => Whole
      BY <1>0, <2>1, SameJar DEF Whole
    <3> QED BY <3>1, <3>2, <3>3 DEF Knows, Whole
  <2> QED BY <2>2, <2>3
<1>3. ASSUME NEW t \in Servers, t # s, ~disturbed'[t] PROVE Knows(t)'
  BY <1>3, OthersKnow DEF JarTypeOK, Compare, Goes, Closes, Opens
<1> QED BY <1>1, <1>2, <1>3

LEMMA CreateFailsInv == ASSUME JarInv, NEW s \in Servers, CreateFails(s) PROVE JarInv'
<1> USE DEF JarInv
<1>1. JarTypeOK'
  BY DEF JarTypeOK, CreateFails, Goes
<1>2. ~disturbed'[s] => Knows(s)'
  BY DEF JarTypeOK, CreateFails, Goes, Knows, Whole
<1>3. ASSUME NEW t \in Servers, t # s, ~disturbed'[t] PROVE Knows(t)'
  BY <1>3, OthersKnow DEF JarTypeOK, CreateFails, Goes
<1> QED BY <1>1, <1>2, <1>3

LEMMA WriteLostInv == ASSUME JarInv, NEW s \in Servers, WriteLost(s) PROVE JarInv'
<1> USE DEF JarInv
<1>0. Len(Jar) \in Nat
  BY JarAssumption, ElementOfSeq
<1>1. JarTypeOK'
  <2>1. pos[s] + 1 \in 0 .. Len(Jar)
    BY <1>0 DEF JarTypeOK, WriteLost, Extracted
  <2> QED BY <1>0, <2>1 DEF JarTypeOK, WriteLost
<1>2. disturbed'[s]
  BY DEF JarTypeOK, WriteLost
<1>3. ASSUME NEW t \in Servers, t # s, ~disturbed'[t] PROVE Knows(t)'
  BY <1>3, OthersKnow DEF JarTypeOK, WriteLost
<1> QED BY <1>1, <1>2, <1>3

LEMMA EndOfTextInv == ASSUME JarInv, NEW s \in Servers, EndOfText(s) PROVE JarInv'
<1> USE DEF JarInv
<1>0. Len(Jar) \in Nat /\ \A k \in 1 .. Len(Jar) : Jar[k] \in 0 .. 255
  BY JarAssumption, ElementOfSeq
<1>a. pos[s] \in 0 .. Len(Jar)
  BY DEF JarTypeOK
<1>b. pos[s] = Len(Jar)
  <2>1. CASE Unknown(s)
    <3>1. pos[s] + 1 \in 1 .. Len(Jar)
      BY <1>0, <1>a, <2>1 DEF Unknown, Extracted
    <3>2. GoodText(Jar[pos[s] + 1])
      BY <3>1, JarBytes
    <3> QED BY <2>1, <3>2 DEF Unknown, GoodText
  <2>2. CASE Extracted(s)
    BY <1>0, <1>a, <2>2 DEF Extracted
  <2> QED BY <2>1, <2>2 DEF EndOfText
<1>1. JarTypeOK'
  BY <1>0 DEF JarTypeOK, EndOfText, Goes, Closes, Opens
<1>2. ASSUME ~disturbed'[s] PROVE Knows(s)'
  <2>1. /\ path # None /\ content[path] \in Seq(0 .. 255) /\ Len(content[path]) = pos[s]
        /\ \A i \in 1 .. pos[s] : content[path][i] = Jar[i]
    BY <1>2 DEF EndOfText, Knows, JarTypeOK
  <2>2. Whole
    BY <1>b, <2>1, SameJar DEF Whole
  <2>3. place'[s] \in {"chmod", "giveup"} /\ UNCHANGED <<path, content>>
    BY DEF EndOfText, Goes, JarTypeOK
  <2> QED BY <2>2, <2>3 DEF Knows, Whole
<1>3. ASSUME NEW t \in Servers, t # s, ~disturbed'[t] PROVE Knows(t)'
  BY <1>3, OthersKnow DEF JarTypeOK, EndOfText, Goes, Closes, Opens
<1> QED BY <1>1, <1>2, <1>3

LEMMA ChmodInv == ASSUME JarInv, NEW s \in Servers, Chmod(s) PROVE JarInv'
<1> USE DEF JarInv
<1>0. JarTypeOK
  OBVIOUS
<1>1. JarTypeOK'
  <2> HIDE DEF JarInv
  <2>1. CASE path = None
    BY <1>0, <2>1 DEF JarTypeOK, Chmod, Goes, Says
  <2>2. CASE path # None
    BY <1>0, <2>2 DEF JarTypeOK, Chmod, Goes
  <2> QED BY <2>1, <2>2
<1>2. ~disturbed'[s] => Knows(s)'
  BY DEF JarTypeOK, Chmod, Goes, Says, Knows, Whole
<1>3. ASSUME NEW t \in Servers, t # s, ~disturbed'[t] PROVE Knows(t)'
  BY <1>3, OthersKnow DEF JarTypeOK, Chmod, Goes, Says
<1> QED BY <1>1, <1>2, <1>3

LEMMA CheckInv == ASSUME JarInv, NEW s \in Servers, Check(s) PROVE JarInv'
<1> USE DEF JarInv
<1>0. JarTypeOK
  OBVIOUS
<1>1. JarTypeOK'
  <2> HIDE DEF JarInv
  <2>1. CASE Whole
    BY <1>0, <2>1 DEF JarTypeOK, Check, Goes, Says
  <2>2. CASE ~Whole
    <3>1. CASE place[s] = "check"
      BY <1>0, <2>2, <3>1 DEF JarTypeOK, Check, Goes
    <3>2. CASE place[s] # "check"
      BY <1>0, <2>2, <3>2 DEF JarTypeOK, Check, Goes, Says
    <3> QED BY <3>1, <3>2
  <2> QED BY <2>1, <2>2
<1>2. ~disturbed'[s] => Knows(s)'
  BY DEF JarTypeOK, Check, Goes, Says, Knows, Whole
<1>3. ASSUME NEW t \in Servers, t # s, ~disturbed'[t] PROVE Knows(t)'
  BY <1>3, OthersKnow DEF JarTypeOK, Check, Goes, Says
<1> QED BY <1>1, <1>2, <1>3

LEMMA KilledInv == ASSUME JarInv, NEW s \in Servers, Killed(s) PROVE JarInv'
<1> USE DEF JarInv
<1>0. Len(Jar) \in Nat
  BY JarAssumption, ElementOfSeq
<1>1. JarTypeOK'
  BY <1>0 DEF JarTypeOK, Killed, Goes, Closes, Opens
<1>2. Knows(s)'
  BY DEF JarTypeOK, Killed, Goes, Knows
<1>3. ASSUME NEW t \in Servers, t # s, ~disturbed'[t] PROVE Knows(t)'
  BY <1>3, OthersKnow DEF JarTypeOK, Killed, Goes, Closes, Opens
<1> QED BY <1>1, <1>2, <1>3

(* The steps that change a file: every other check is disturbed.           *)
LEMMA UnlinkInv == ASSUME JarInv, NEW s \in Servers, Unlink(s) PROVE JarInv'
<1> USE DEF JarInv
<1>1. JarTypeOK'
  BY DEF JarTypeOK, Unlink, Goes, Disturbs
<1>2. ~disturbed'[s] => Knows(s)'
  BY DEF JarTypeOK, Unlink, Goes, Knows, Whole
<1>3. \A t \in Servers : t # s => disturbed'[t]
  BY DEF Unlink, Disturbs
<1> QED BY <1>1, <1>2, <1>3

LEMMA GiveUpInv == ASSUME JarInv, NEW s \in Servers, GiveUp(s) PROVE JarInv'
<1> USE DEF JarInv
<1>1. JarTypeOK'
  BY DEF JarTypeOK, GiveUp, Goes, Says, Disturbs
<1>2. ~disturbed'[s] => Knows(s)'
  BY DEF JarTypeOK, GiveUp, Goes, Says, Knows, Whole
<1>3. \A t \in Servers : t # s => disturbed'[t]
  BY DEF GiveUp, Disturbs
<1> QED BY <1>1, <1>2, <1>3

LEMMA CreateInv == ASSUME JarInv, NEW s \in Servers, Create(s) PROVE JarInv'
<1> USE DEF JarInv
<1>0. Len(Jar) \in Nat
  BY JarAssumption, ElementOfSeq
<1>a. PICK i \in IF path = None THEN {CHOOSE j \in Free : TRUE} ELSE {path} :
        path' = i /\ content' = [content EXCEPT ![i] = <<>>] /\ Opens(s, i)
  BY DEF Create
<1>b. i \in Inodes /\ i # None
  <2>1. CASE path = None
    <3>1. i \in Free
      BY <1>a, <2>1 DEF Create
    <3> QED BY <3>1, InodesAre DEF Free
  <2>2. CASE path # None
    BY <1>a, <2>2 DEF JarTypeOK
  <2> QED BY <2>1, <2>2
<1>c. content' \in [Inodes -> Seq(0 .. 255)] /\ content'[i] = <<>>
  BY <1>a, <1>b DEF JarTypeOK
<1>1. JarTypeOK'
  BY <1>0, <1>a, <1>b, <1>c DEF JarTypeOK, Create, Goes, Opens, Disturbs
<1>2. Knows(s)'
  <2>1. place'[s] = "write" /\ fd'[s] = i /\ off'[s] = 0 /\ pos'[s] = 0 /\ path' = i
    BY <1>a DEF JarTypeOK, Create, Goes, Opens
  <2> QED BY <1>b, <1>c, <2>1 DEF Knows
<1>3. \A t \in Servers : t # s => disturbed'[t]
  BY DEF Create, Disturbs
<1> QED BY <1>1, <1>2, <1>3

LEMMA WriteInv == ASSUME JarInv, NEW s \in Servers, Write(s) PROVE JarInv'
<1> USE DEF JarInv
<1>0. Len(Jar) \in Nat /\ \A k \in 1 .. Len(Jar) : Jar[k] \in 0 .. 255
  BY JarAssumption, ElementOfSeq
<1> DEFINE b == Value(Jar[pos[s] + 1]) % 256
<1> DEFINE f == content[fd[s]]
<1>a. pos[s] \in 0 .. Len(Jar) /\ off[s] \in Nat
  BY DEF JarTypeOK
<1>b. pos[s] + 1 \in 1 .. Len(Jar)
  BY <1>0, <1>a DEF Write, Extracted
<1>c. b = Jar[pos[s] + 1] /\ b \in 0 .. 255
  <2> HIDE DEF JarInv
  <2>1. Jar[pos[s] + 1] \in Byte /\ GoodText(Jar[pos[s] + 1])
    BY <1>b, JarBytes
  <2> QED BY <2>1 DEF Byte, GoodText
<1>d. content' = [content EXCEPT ![fd[s]] = Put(f, off[s], b)]
  BY DEF Write
<1>e. fd[s] \in Inodes => /\ f \in Seq(0 .. 255)
                           /\ content'[fd[s]] = Put(f, off[s], b)
  BY <1>d DEF JarTypeOK
<1>f. content' \in [Inodes -> Seq(0 .. 255)]
  <2>1. CASE fd[s] \in Inodes
    <3>1. f \in Seq(0 .. 255) /\ b \in 0 .. 255 /\ off[s] \in Nat
      BY <1>a, <1>c, <1>e, <2>1
    <3>2. Put(f, off[s], b) \in Seq(0 .. 255)
      <4> HIDE DEF JarInv, f, b
      <4> QED BY <3>1, PutType
    <3> QED BY <1>d, <3>2 DEF JarTypeOK
  <2>2. CASE fd[s] \notin Inodes
    <3>1. content' = content
      BY <1>d, <2>2 DEF JarTypeOK
    <3> QED BY <3>1 DEF JarTypeOK
  <2> QED BY <2>1, <2>2
<1>1. JarTypeOK'
  <2>1. pos' \in [Servers -> 0 .. Len(Jar)] /\ off' \in [Servers -> Nat]
    BY <1>0, <1>a, <1>b DEF JarTypeOK, Write
  <2> QED BY <1>f, <2>1 DEF JarTypeOK, Write, Disturbs
<1>2. ASSUME ~disturbed'[s] PROVE Knows(s)'
  <2>1. ~disturbed[s]
    BY <1>2 DEF Write, Disturbs
  <2>2. /\ path # None /\ fd[s] = path /\ path \in Inodes
        /\ off[s] = pos[s] /\ Len(f) = pos[s] /\ f \in Seq(0 .. 255)
        /\ \A i \in 1 .. pos[s] : f[i] = Jar[i]
    BY <1>e, <2>1 DEF Write, Knows, JarTypeOK
  <2> DEFINE g == Put(f, Len(f), b)
  <2>3. /\ Len(g) = pos[s] + 1
        /\ \A i \in 1 .. pos[s] : g[i] = f[i]
        /\ g[pos[s] + 1] = b
    <3>1. b \in 0 .. 255 /\ f \in Seq(0 .. 255)
      BY <1>c, <2>2
    <3> HIDE DEF b, f
    <3>2. /\ Len(g) = Len(f) + 1
          /\ \A i \in 1 .. Len(f) : g[i] = f[i]
          /\ g[Len(f) + 1] = b
      BY <3>1, PutAppends
    <3> HIDE DEF g
    <3> QED BY <2>2, <3>2
  <2>4. content'[path] = g
    BY <1>e, <2>2
  <2>5. /\ place'[s] = "write" /\ path' = path /\ fd'[s] = path
        /\ pos'[s] = pos[s] + 1 /\ off'[s] = pos[s] + 1
    BY <2>2 DEF Write, JarTypeOK
  <2>6. \A i \in 1 .. pos[s] + 1 : g[i] = Jar[i]
    <3> SUFFICES ASSUME NEW i \in 1 .. pos[s] + 1 PROVE g[i] = Jar[i]
        OBVIOUS
    <3>1. CASE i = pos[s] + 1
      BY <1>c, <2>3, <3>1
    <3>2. CASE i \in 1 .. pos[s]
      BY <2>2, <2>3, <3>2
    <3> QED BY <1>a, <3>1, <3>2
  <2> HIDE DEF g, b, f
  <2> QED BY <2>2, <2>3, <2>4, <2>5, <2>6 DEF Knows
<1>3. \A t \in Servers : t # s => disturbed'[t]
  BY DEF Write, Disturbs
<1> QED BY <1>1, <1>2, <1>3

(* A step of any server keeps what the undisturbed know.                   *)
LEMMA NextInv == ASSUME JarInv, [Next]_vars PROVE JarInv'
<1>1. ASSUME NEW s \in Servers, CheckStep(s) PROVE JarInv'
  BY <1>1, StatInv, OpenInv, CompareInv, UnlinkInv, CreateInv, CreateFailsInv, WriteInv,
     WriteLostInv, EndOfTextInv, GiveUpInv, ChmodInv, CheckInv DEF CheckStep
<1>2. CASE UNCHANGED vars
  BY <1>2 DEF vars, JarInv, JarTypeOK, Knows, Whole
<1> QED BY <1>1, <1>2, BeginInv, KilledInv DEF Next

(* The invariant that the steps keep.                                      *)
THEOREM Inductive == Spec => []JarInv
<1> QED BY InitInv, NextInv, PTL DEF Spec

(* The codec loses no byte, and neither do the loops of an undisturbed     *)
(* check, for any jar, any servers and any file at the path.               *)
THEOREM JarSoundAlways == Spec => []JarSound
<1>1. JarInv => JarSound
  BY Codec DEF JarSound
<1> QED BY <1>1, Inductive, PTL

(* The type invariant, for any jar and any file at its path.               *)
THEOREM TypeCorrect == Spec => []JarTypeOK
<1>1. JarInv => JarTypeOK
  BY DEF JarInv
<1> QED BY <1>1, Inductive, PTL

(* Whatever was at the path, a check that nobody disturbs has the whole    *)
(* jar when the checker is started (data.c lines 239-253).                 *)
THEOREM UndisturbedWholeAlways == Spec => []UndisturbedWhole
<1>1. JarInv => UndisturbedWhole
  BY DEF JarInv, Knows, UndisturbedWhole
<1> QED BY <1>1, Inductive, PTL
=============================================================================
