----------------------------- MODULE ToolboxProofs -----------------------------
(***************************************************************************)
(* What libsu's commands keep for any tree of files, any operands, any     *)
(* processes and any sizes of dd's blocks and files.  Each command has an  *)
(* inductive invariant of its own, over its own variables and the place of *)
(* the process; the steps of the other commands leave those alone.         *)
(***************************************************************************)
EXTENDS Toolbox, SequenceTheorems, FunctionTheorems, FiniteSetTheorems, TLAPS

-----------------------------------------------------------------------------
(* dd.  Before the first block is read the files are what they were and    *)
(* nothing is counted.                                                     *)
Before == {"operands", "setup", "skip", "seek"}
OldFile == [i \in 1 .. OldLength |-> Old]

DdOptions ==
  /\ "bs" \in given => given \cap {"ibs", "obs"} = {} /\ opt.ibs = opt.obs
  /\ "seek" \notin given => opt.seek = 0

DdBefore ==
  stage \in Before =>
    /\ buf = <<>> /\ outp = 0 /\ ~closing
    /\ st.inFull = 0 /\ st.inPart = 0 /\ st.bytes = 0
    /\ stage \in {"operands", "setup"} \/ {"of", "seek"} \cap given # {"of"} => file = OldFile
    /\ stage = "skip" => blocks > 0
    /\ stage = "seek" => pos = start

(* Where dd_out is in the buffer; only dd_close writes what is less than a *)
(* block of def's, and leaves nothing.                                     *)
DdBuffer ==
  /\ stage \in {"read", "close"} => outp = 0
  /\ stage = "read" => ~closing /\ (Len(buf) < opt.obs \/ opt.obs = 0)
  /\ stage = "out" =>
       /\ outp + cnt <= Len(buf)
       /\ force => outp + cnt = Len(buf)
       /\ closing => force
  /\ stage = "close" => closing /\ buf = <<>>

DdCounts ==
  /\ opt.count > 0 => st.inFull + st.inPart <= opt.count
  /\ Copying => st.bytes = opos - Base
  /\ Copying /\ closing => CountReached \/ pos >= InputLength \/ opt.ibs = 0

DdInv ==
  /\ DdTypeOK /\ DdOptions /\ DdBefore /\ DdBuffer /\ NoByteLost /\ DdCounts /\ SeekKeeps
  /\ stage # "done" => status = "nothing"
  /\ SuccessComplete

-----------------------------------------------------------------------------
LEMMA NatTimes == \A i, j \in Nat : i * j \in Nat
OBVIOUS

(* Places in a file and in the buffer.                                     *)
LEMMA PutProperties ==
  ASSUME NEW f \in Seq(Int), NEW o \in Nat, NEW b \in Seq(Nat)
  PROVE  /\ Put(f, o, b) \in Seq(Int)
         /\ Len(Put(f, o, b)) = Most(Len(f), o + Len(b))
         /\ \A i \in 1 .. Len(f) : i <= o => Put(f, o, b)[i] = f[i]
         /\ \A i \in 1 .. Len(b) : Put(f, o, b)[o + i] = b[i]
<1> DEFINE m == Most(Len(f), o + Len(b))
           e(i) == IF i > o /\ i <= o + Len(b) THEN b[i - o] ELSE IF i <= Len(f) THEN f[i] ELSE Hole
<1>1. m \in Nat /\ m >= Len(f) /\ m >= o + Len(b)
  BY DEF Most
<1>2. \A i \in 1 .. m : e(i) \in Int
  BY DEF Hole
<1>3. Put(f, o, b) = [i \in 1 .. m |-> e(i)]
  BY DEF Put
<1>4. Put(f, o, b) \in Seq(Int) /\ Len(Put(f, o, b)) = m
  <2> HIDE DEF m, e
  <2> QED
    BY <1>1, <1>2, <1>3, IsASeq
<1>5. \A i \in 1 .. Len(f) : i <= o => Put(f, o, b)[i] = f[i]
  BY <1>1, <1>3
<1>6. \A i \in 1 .. Len(b) : Put(f, o, b)[o + i] = b[i]
  BY <1>1, <1>3
<1> QED
  BY <1>4, <1>5, <1>6

LEMMA TruncateProperties ==
  ASSUME NEW f \in Seq(Int), NEW k \in Nat
  PROVE  /\ Truncate(f, k) \in Seq(Int) /\ Len(Truncate(f, k)) = k
         /\ \A i \in 1 .. k : Truncate(f, k)[i] = IF i <= Len(f) THEN f[i] ELSE Hole
<1>1. \A i \in 1 .. k : (IF i <= Len(f) THEN f[i] ELSE Hole) \in Int
  BY DEF Hole
<1> QED
  BY <1>1, IsASeq DEF Truncate

LEMMA BytesProperties ==
  ASSUME NEW from \in Nat, NEW k \in Nat
  PROVE  /\ Bytes(from, k) \in Seq(Nat) /\ Len(Bytes(from, k)) = k
         /\ \A i \in 1 .. k : Bytes(from, k)[i] = from + i - 1
BY IsASeq DEF Bytes

LEMMA OldFileProperties ==
  /\ OldFile \in Seq(Int) /\ Len(OldFile) = OldLength
  /\ \A i \in 1 .. OldLength : OldFile[i] = Old
<1>1. Old \in Int
  BY DEF Old
<1> QED
  BY <1>1, IsASeq, LengthsAssumption DEF OldFile

LEMMA InitDdInv == DdInit => DdInv
<1> SUFFICES ASSUME DdInit PROVE DdInv
  OBVIOUS
<1>1. DdTypeOK
  <2>1. pipe \in BOOLEAN
    BY Zenon DEF DdInit
  <2>2. file \in Seq(Int)
    BY OldFileProperties DEF DdInit, OldFile
  <2>3. closing \in BOOLEAN /\ interrupted \in BOOLEAN /\ force \in BOOLEAN
    BY Zenon DEF DdInit
  <2>4. opt \in [ibs : Nat, obs : Nat, count : Nat, skip : Nat, seek : Nat, files : Nat]
    <3>1. opt = [ibs |-> DefaultSize, obs |-> DefaultSize, count |-> 0,
                 skip |-> 0, seek |-> 0, files |-> 1]
      BY DEF DdInit
    <3> QED
      BY <3>1, SizesAssumption
  <2>5. st \in [inFull : Nat, inPart : Nat, outFull : Nat, outPart : Nat, bytes : Nat, intr : Nat]
    BY DEF DdInit
  <2>6. buf \in Seq(Nat)
    BY DEF DdInit
  <2> QED
    BY <2>1, <2>2, <2>3, <2>4, <2>5, <2>6 DEF DdInit, DdTypeOK
<1>2. DdOptions /\ DdBuffer
  BY DEF DdInit, DdOptions, DdBuffer
<1>3. DdBefore
  BY DEF DdInit, DdBefore, OldFile
<1>4. NoByteLost /\ SeekKeeps /\ SuccessComplete /\ DdCounts
  <2>1. ~Copying /\ status = "nothing" /\ opt.count = 0
    BY DEF DdInit, Copying
  <2> QED
    <3>1. NoByteLost /\ SeekKeeps
      BY <2>1 DEF NoByteLost, SeekKeeps
    <3>2. SuccessComplete
      BY <2>1 DEF SuccessComplete
    <3>3. DdCounts
      BY <2>1 DEF DdCounts
    <3> QED
      BY <3>1, <3>2, <3>3
<1>5. status = "nothing"
  BY DEF DdInit
<1> QED
  BY <1>1, <1>2, <1>3, <1>4, <1>5 DEF DdInv

(* The steps that end the command, and those that change nothing but its   *)
(* place, keep all of it.                                                  *)
Untouched == UNCHANGED <<optVars, inVars, skipVars, outVars, ddFileVars, st, closing>>

LEMMA EndKeepsDdInv ==
  ASSUME DdInv, Untouched, stage # "done", stage' = "done",
         status' \in {"nothing", "0", "1"}, interrupted' \in BOOLEAN,
         status' = "0" /\ ~interrupted' => ~closing \/ stage = "close"
  PROVE  DdInv'
<1> USE DEF DdInv, Untouched, optVars, inVars, skipVars, outVars, ddFileVars
<1>1. DdTypeOK'
  <2>1. force' \in BOOLEAN /\ pipe' \in BOOLEAN /\ closing' \in BOOLEAN
    BY Zenon DEF DdTypeOK
  <2> QED
    BY <2>1 DEF DdTypeOK
<1>2. DdOptions' /\ DdBefore' /\ DdBuffer' /\ NoByteLost' /\ SeekKeeps'
  BY DEF DdOptions, DdBefore, Before, DdBuffer, NoByteLost, SeekKeeps, Copying
<1>3. DdCounts'
  BY DEF DdCounts, Copying
<1>4. SuccessComplete'
  <2> SUFFICES ASSUME status' = "0", ~interrupted', closing' PROVE buf = <<>> /\ (CountReached \/ pos >= InputLength \/ opt.ibs = 0) /\ st.bytes = pos - start
    BY DEF SuccessComplete, CountReached
  <2>1. stage = "close" /\ closing
    OBVIOUS
  <2>2. buf = <<>> /\ outp = 0
    BY <2>1 DEF DdBuffer
  <2>3. opos - Base = pos - start
    <3>1. Len(buf) - outp = 0
      BY <2>2
    <3>2. pos \in Nat /\ start \in Nat
      BY DEF DdTypeOK
    <3>3. opos - Base = pos - start - (Len(buf) - outp)
      BY <2>1 DEF NoByteLost, Copying
    <3> QED
      <4> HIDE DEF DdInv, Untouched, inVars, outVars
      <4> QED
        BY <3>1, <3>2, <3>3
  <2> QED
    BY <2>1, <2>2, <2>3 DEF DdCounts, Copying
<1> QED
  BY <1>1, <1>2, <1>3, <1>4

(* An operand sets one of the options that none before it excludes.        *)
LEMMA OperandKeepsDdInv ==
  ASSUME DdInv, NEW o \in DdOperands, Operand(o)
  PROVE  DdInv'
<1>0. DdTypeOK /\ DdOptions /\ DdBefore /\ stage = "operands" /\ status = "nothing"
  BY DEF DdInv, Operand
<1>1. PICK v \in Values(o) :
        /\ opt' = Apply(o, v)
        /\ IF o \in {"count", "files"} /\ v = 0 THEN Exit("0") ELSE UNCHANGED <<stage, status>>
  BY Zenon DEF Operand
<1>2. /\ given' = given \cup {o} /\ given \cap NoSet(o) = {}
      /\ UNCHANGED <<pipe, inVars, skipVars, outVars, ddFileVars, st, closing, interrupted>>
  BY DEF Operand
<1>3. v \in Nat
  BY <1>1, SizesAssumption DEF Values
<1>4. stage' \in {"operands", "done"} /\ status' \in {"nothing", "0"}
  BY <1>0, <1>1 DEF Exit
<1>5. opt' \in [ibs : Nat, obs : Nat, count : Nat, skip : Nat, seek : Nat, files : Nat]
  BY <1>0, <1>1, <1>3 DEF Apply, DdTypeOK
<1>6. DdTypeOK'
  <2>1. force' \in BOOLEAN /\ pipe' \in BOOLEAN /\ closing' \in BOOLEAN /\ interrupted' \in BOOLEAN
    BY <1>0, <1>2, Zenon DEF DdTypeOK, outVars
  <2>2. given' \in SUBSET DdOperands
    BY <1>0, <1>2 DEF DdTypeOK
  <2> QED
    BY <1>0, <1>2, <1>4, <1>5, <2>1, <2>2 DEF DdTypeOK, inVars, skipVars, outVars, ddFileVars
<1>7. DdOptions'
  <2>1. CASE o = "bs"
    BY <2>1, <1>0, <1>1, <1>2 DEF DdOptions, DdTypeOK, NoSet, Apply
  <2>2. CASE o \in {"ibs", "obs"}
    BY <2>2, <1>0, <1>1, <1>2 DEF DdOptions, DdTypeOK, NoSet, Apply
  <2>3. CASE o \notin {"bs", "ibs", "obs"}
    BY <2>3, <1>0, <1>1, <1>2 DEF DdOptions, DdTypeOK, NoSet, Apply
  <2> QED
    BY <2>1, <2>2, <2>3
<1>8. ~closing'
  BY <1>0, <1>2 DEF DdBefore, Before
<1>9. DdBefore'
  BY <1>0, <1>2, <1>4 DEF DdBefore, Before, inVars, outVars, ddFileVars
<1>10. DdBuffer' /\ NoByteLost' /\ SeekKeeps'
  BY <1>4 DEF DdBuffer, NoByteLost, SeekKeeps, Copying
<1>11. DdCounts'
  <2>1. st'.inFull = 0 /\ st'.inPart = 0
    BY <1>0, <1>2 DEF DdBefore, Before
  <2> QED
    BY <1>4, <1>5, <2>1 DEF DdCounts, Copying
<1>12. SuccessComplete'
  BY <1>8 DEF SuccessComplete
<1>13. stage' # "done" => status' = "nothing"
  BY <1>0, <1>1 DEF Exit
<1> QED
  BY <1>6, <1>7, <1>9, <1>10, <1>11, <1>12, <1>13 DEF DdInv

(* setup opens the files, and truncates the output unless seek is given.   *)
LEMMA SetupKeepsDdInv ==
  ASSUME DdInv, Setup
  PROVE  DdInv'
<1>0. DdTypeOK /\ DdOptions /\ DdBefore /\ stage = "setup" /\ status = "nothing" /\ opt.count >= 0
  BY DEF DdInv, Setup, DdTypeOK
<1>1. /\ stage' \in {"skip", "seek"}
      /\ stage' = "seek" => pos' = opt.skip * opt.ibs /\ start' = pos' /\ UNCHANGED skipVars
      /\ stage' = "skip" => opt.skip > 0 /\ toSkip' = opt.ibs /\ blocks' = opt.skip /\ UNCHANGED <<pos, start>>
  BY DEF Setup
<1>2. UNCHANGED <<optVars, buf, outVars, opos, st, endVars>>
  BY DEF Setup
<1>3. file' = IF "of" \in given /\ "seek" \notin given THEN <<>> ELSE file
  BY DEF Setup
<1>4. pos' \in Nat /\ start' \in Nat /\ toSkip' \in Nat /\ blocks' \in Nat
  <2>1. opt.skip \in Nat /\ opt.ibs \in Nat
    BY <1>0 DEF DdTypeOK
  <2>2. opt.skip * opt.ibs \in Nat
    BY <2>1, NatTimes
  <2> QED
    BY <1>0, <1>1, <2>1, <2>2 DEF DdTypeOK, skipVars
<1>5. DdTypeOK'
  <2>1. force' \in BOOLEAN /\ pipe' \in BOOLEAN /\ closing' \in BOOLEAN /\ interrupted' \in BOOLEAN
    BY <1>0, <1>2, Zenon DEF DdTypeOK, outVars, optVars, endVars
  <2>2. file' \in Seq(Int)
    BY <1>0, <1>3 DEF DdTypeOK
  <2> QED
    BY <1>0, <1>1, <1>2, <1>4, <2>1, <2>2 DEF DdTypeOK, optVars, outVars, endVars
<1>6. DdOptions'
  BY <1>0, <1>2 DEF DdOptions, optVars
<1>7. DdBefore'
  <2>1. buf' = <<>> /\ outp' = 0 /\ ~closing' /\ st'.inFull = 0 /\ st'.inPart = 0 /\ st'.bytes = 0
    BY <1>0, <1>2 DEF DdBefore, Before, outVars, endVars
  <2>2. {"of", "seek"} \cap given' # {"of"} => file' = OldFile
    BY <1>0, <1>2, <1>3 DEF DdBefore, Before, optVars
  <2> QED
    BY <1>1, <2>1, <2>2 DEF DdBefore
<1>8. DdBuffer' /\ NoByteLost' /\ SeekKeeps'
  BY <1>1 DEF DdBuffer, NoByteLost, SeekKeeps, Copying
<1>9. DdCounts'
  <2>1. st'.inFull = 0 /\ st'.inPart = 0 /\ opt'.count >= 0
    BY <1>0, <1>2 DEF DdBefore, Before, optVars
  <2> QED
    BY <1>1, <2>1 DEF DdCounts, Copying
<1>10. status' = "nothing"
  BY <1>0, <1>2 DEF endVars
<1>11. SuccessComplete'
  BY <1>10 DEF SuccessComplete
<1> QED
  BY <1>5, <1>6, <1>7, <1>8, <1>9, <1>10, <1>11 DEF DdInv

LEMMA LeastBound ==
  ASSUME NEW i \in Int, NEW j \in Int, NEW k \in 1 .. Least(i, j)
  PROVE  k \in Nat \ {0} /\ k <= i /\ k <= j
BY DEF Least

(* pos_in on a pipe.                                                       *)
LEMMA SkipKeepsDdInv ==
  ASSUME DdInv, SkipBytes
  PROVE  DdInv'
<1>0. DdTypeOK /\ DdOptions /\ DdBefore /\ stage = "skip" /\ status = "nothing" /\ opt.count >= 0
  BY DEF DdInv, SkipBytes, DdTypeOK
<1>1. PICK k \in 1 .. Least(toSkip, InputLength - pos) :
       /\ pos' = pos + k
       /\ IF k < toSkip
            THEN toSkip' = toSkip - k /\ UNCHANGED <<blocks, stage, start>>
            ELSE /\ toSkip' = opt.ibs /\ blocks' = blocks - 1
                 /\ IF blocks' = 0 THEN stage' = "seek" /\ start' = pos'
                                   ELSE UNCHANGED <<stage, start>>
  BY DEF SkipBytes
<1>2. UNCHANGED <<optVars, buf, outVars, ddFileVars, st, endVars>>
  BY DEF SkipBytes
<1>3. k \in Nat \ {0} /\ k <= toSkip /\ toSkip \in Nat /\ pos \in Nat /\ start \in Nat /\ opt.ibs \in Nat /\ blocks \in Nat
  BY <1>0, LeastBound, LengthsAssumption DEF DdTypeOK
<1>4. stage' \in {"skip", "seek"} /\ (stage' = "seek" => pos' = start') /\ blocks > 0
  BY <1>0, <1>1 DEF DdBefore, Before
<1>5. DdTypeOK'
  <2>1. force' \in BOOLEAN /\ pipe' \in BOOLEAN /\ closing' \in BOOLEAN /\ interrupted' \in BOOLEAN
    BY <1>0, <1>2, Zenon DEF DdTypeOK, outVars, optVars, endVars
  <2>2. pos' \in Nat /\ start' \in Nat /\ toSkip' \in Nat /\ blocks' \in Nat
    BY <1>1, <1>3, <1>4
  <2> QED
    BY <1>0, <1>2, <1>4, <2>1, <2>2 DEF DdTypeOK, optVars, outVars, ddFileVars, endVars
<1>6. DdOptions'
  BY <1>0, <1>2 DEF DdOptions, optVars
<1>7. DdBefore'
  <2>1. stage' = "skip" => blocks' > 0
    BY <1>0, <1>1, <1>3, <1>4
  <2> QED
    BY <1>0, <1>2, <1>4, <2>1 DEF DdBefore, Before, optVars, outVars, ddFileVars, endVars
<1>8. DdBuffer' /\ NoByteLost' /\ SeekKeeps'
  BY <1>4 DEF DdBuffer, NoByteLost, SeekKeeps, Copying
<1>9. DdCounts'
  <2>1. st'.inFull = 0 /\ st'.inPart = 0 /\ opt'.count >= 0
    BY <1>0, <1>2 DEF DdBefore, Before, optVars
  <2> QED
    BY <1>4, <2>1 DEF DdCounts, Copying
<1>10. status' = "nothing"
  BY <1>0, <1>2 DEF endVars
<1>11. SuccessComplete'
  BY <1>10 DEF SuccessComplete
<1> QED
  BY <1>5, <1>6, <1>7, <1>8, <1>9, <1>10, <1>11 DEF DdInv

(* pos_out puts the output where seek says and cuts off the rest of a file *)
(* that was not truncated before.                                          *)
LEMMA SeekOutKeepsDdInv ==
  ASSUME DdInv, SeekOut
  PROVE  DdInv'
<1>0. DdTypeOK /\ DdOptions /\ DdBefore /\ stage = "seek" /\ status = "nothing" /\ opt.count >= 0
  BY DEF DdInv, SeekOut, DdTypeOK
<1>1. /\ stage' = "read" /\ opos' = Base
      /\ opt.seek = 0 \/ "of" \in given
      /\ file' = IF {"of", "seek"} \subseteq given THEN Truncate(file, Base) ELSE file
  BY DEF SeekOut
<1>2. UNCHANGED <<optVars, inVars, skipVars, outVars, st, endVars>>
  BY DEF SeekOut
<1>3. Base \in Nat /\ Base' = Base /\ (opt.seek = 0 => Base = 0)
  <2>1. opt.seek \in Nat /\ opt.obs \in Nat /\ opt' = opt
    BY <1>0, <1>2 DEF DdTypeOK, optVars
  <2>2. \A x \in Nat : 0 * x = 0
    OBVIOUS
  <2> QED
    BY <2>1, <2>2, NatTimes DEF Base
<1>4. file' \in Seq(Int) /\ Len(file') >= opos'
  <2>1. CASE {"of", "seek"} \subseteq given
    BY <2>1, <1>0, <1>1, <1>3, TruncateProperties DEF DdTypeOK
  <2>2. CASE ~({"of", "seek"} \subseteq given)
    <3>1. Base = 0
      BY <2>2, <1>0, <1>1, <1>3 DEF DdOptions
    <3> QED
      BY <2>2, <3>1, <1>0, <1>1 DEF DdTypeOK
  <2> QED
    BY <2>1, <2>2
<1>5. DdTypeOK'
  <2>1. force' \in BOOLEAN /\ pipe' \in BOOLEAN /\ closing' \in BOOLEAN /\ interrupted' \in BOOLEAN
    BY <1>0, <1>2, Zenon DEF DdTypeOK, outVars, optVars, endVars
  <2> QED
    BY <1>0, <1>1, <1>2, <1>3, <1>4, <2>1 DEF DdTypeOK, optVars, inVars, skipVars, outVars, endVars
<1>6. DdOptions' /\ DdBefore'
  BY <1>0, <1>1, <1>2 DEF DdOptions, DdBefore, Before, optVars
<1>7. buf' = <<>> /\ outp' = 0 /\ ~closing' /\ pos' = start' /\ pos' \in Nat
      /\ st'.inFull = 0 /\ st'.inPart = 0 /\ st'.bytes = 0
  BY <1>0, <1>2, <1>5 DEF DdBefore, Before, DdTypeOK, inVars, outVars, endVars
<1>8. DdBuffer'
  BY <1>1, <1>5, <1>7 DEF DdBuffer, DdTypeOK
<1>9. NoByteLost'
  <2>1. opos' - Base' = 0 /\ pos' - start' - (Len(buf') - outp') = 0
    <3>1. opos' - Base' = 0
      BY <1>1, <1>3
    <3>2. pos' - start' - (Len(buf') - outp') = 0
      <4>1. Len(buf') = 0 /\ outp' = 0
        BY <1>7
      <4>2. pos' \in Nat /\ start' \in Nat /\ pos' = start'
        BY <1>7
      <4>3. \A x, y \in Nat : x = y => x - y = 0
        OBVIOUS
      <4>4. pos' - start' = 0
        BY <4>2, <4>3
      <4> QED
        BY <4>1, <4>4
    <3> QED
      BY <3>1, <3>2
  <2>2. \A i \in Base' + 1 .. opos' : FALSE
    BY <1>1, <1>3
  <2>3. \A j \in outp' + 1 .. Len(buf') : FALSE
    BY <1>7
  <2> QED
    BY <1>4, <2>1, <2>2, <2>3 DEF NoByteLost
<1>10. DdCounts'
  BY <1>0, <1>1, <1>2, <1>3, <1>7 DEF DdCounts, Copying, optVars
<1>11. SeekKeeps'
  <2> SUFFICES ASSUME "of" \in given, NEW i \in 1 .. Least(Base, Len(file'))
               PROVE  file'[i] = IF i <= OldLength THEN Old ELSE Hole
    BY <1>2, <1>3 DEF SeekKeeps, optVars
  <2>1. i \in 1 .. Base
    BY <1>3, <1>4 DEF Least
  <2>2. "seek" \in given /\ {"of", "seek"} \cap given # {"of"}
    BY <2>1, <1>0, <1>3 DEF DdOptions
  <2>3. file = OldFile
    BY <2>2, <1>0 DEF DdBefore, Before
  <2>4. file' = Truncate(OldFile, Base)
    BY <2>2, <2>3, <1>1
  <2> QED
    <3>1. file'[i] = IF i <= Len(OldFile) THEN OldFile[i] ELSE Hole
      BY <2>1, <2>4, <1>3, OldFileProperties, TruncateProperties
    <3> QED
      BY <3>1, <2>1, OldFileProperties, LengthsAssumption
<1>12. status' = "nothing"
  BY <1>0, <1>2 DEF endVars
<1>13. SuccessComplete'
  BY <1>12 DEF SuccessComplete
<1> QED
  BY <1>5, <1>6, <1>8, <1>9, <1>10, <1>11, <1>12, <1>13 DEF DdInv

(* dd_in: what is read comes behind what is in the buffer.                 *)
LEMMA ReadKeepsDdInv ==
  ASSUME DdInv, Read
  PROVE  DdInv'
<1>0. DdTypeOK /\ DdOptions /\ DdBuffer /\ NoByteLost /\ DdCounts /\ SeekKeeps
      /\ stage = "read" /\ Copying /\ status = "nothing" /\ ~CountReached
  BY DEF DdInv, Read, Copying
<1>1. PICK k \in 1 .. Least(opt.ibs, InputLength - pos) :
       /\ pos' = pos + k
       /\ buf' = buf \o Bytes(pos, k)
       /\ st' = IF k = opt.ibs THEN [st EXCEPT !.inFull = @ + 1] ELSE [st EXCEPT !.inPart = @ + 1]
       /\ IF "bs" \in given THEN EnterOut(TRUE, buf')
          ELSE IF Len(buf') >= opt.obs THEN EnterOut(FALSE, buf')
          ELSE UNCHANGED <<stage, outVars>>
  BY DEF Read
<1>2. UNCHANGED <<optVars, start, skipVars, ddFileVars, endVars>>
  BY DEF Read
<1>3. k \in Nat \ {0} /\ pos \in Nat /\ start \in Nat /\ opt.obs \in Nat /\ opt.ibs \in Nat /\ opt.count \in Nat /\ opt.seek \in Nat
  BY <1>0, LeastBound, LengthsAssumption DEF DdTypeOK
<1>4. /\ buf' \in Seq(Nat) /\ Len(buf') = Len(buf) + k
      /\ \A j \in 1 .. Len(buf) : buf'[j] = buf[j]
      /\ \A j \in Len(buf) + 1 .. Len(buf') : buf'[j] = pos + (j - Len(buf)) - 1
  <2> DEFINE b == Bytes(pos, k)
  <2>1. b \in Seq(Nat) /\ Len(b) = k /\ \A i \in 1 .. k : b[i] = pos + i - 1
    BY <1>3, BytesProperties
  <2>2. buf \in Seq(Nat) /\ buf' = buf \o b
    BY <1>0, <1>1 DEF DdTypeOK
  <2> HIDE DEF b
  <2> QED
    <3>1. b \in Seq(Nat) /\ Len(b) = k
      BY <2>1
    <3>2. /\ buf' \in Seq(Nat) /\ Len(buf') = Len(buf) + Len(b)
          /\ \A i \in 1 .. Len(buf) + Len(b) : buf'[i] = IF i <= Len(buf) THEN buf[i] ELSE b[i - Len(buf)]
      BY <3>1, <2>2, ConcatProperties
    <3>3. Len(buf) \in Nat
      BY <2>2
    <3>4. \A j \in Len(buf) + 1 .. Len(buf') : j - Len(buf) \in 1 .. k /\ buf'[j] = b[j - Len(buf)]
      <4> TAKE j \in Len(buf) + 1 .. Len(buf')
      <4>1. Len(buf') = Len(buf) + k
        BY <3>1, <3>2
      <4>2. j \in 1 .. Len(buf) + Len(b) /\ ~(j <= Len(buf)) /\ j - Len(buf) \in 1 .. k
        BY <4>1, <3>1, <3>3, <1>3
      <4> QED
        BY <4>2, <3>2
    <3>5. \A j \in 1 .. Len(buf) : buf'[j] = buf[j]
      <4> TAKE j \in 1 .. Len(buf)
      <4>1. j \in 1 .. Len(buf) + Len(b) /\ j <= Len(buf)
        BY <3>1, <3>3, <1>3
      <4> QED
        BY <4>1, <3>2
    <3>6. \A i \in 1 .. k : b[i] = pos + i - 1
      BY <2>1
    <3>7. \A j \in Len(buf) + 1 .. Len(buf') : buf'[j] = pos + (j - Len(buf)) - 1
      BY <3>4, <3>6
    <3> QED
      BY <3>1, <3>2, <3>5, <3>7
<1>5. st' \in [inFull : Nat, inPart : Nat, outFull : Nat, outPart : Nat, bytes : Nat, intr : Nat]
      /\ st'.bytes = st.bytes /\ st'.inFull + st'.inPart = st.inFull + st.inPart + 1
  <2>1. st \in [inFull : Nat, inPart : Nat, outFull : Nat, outPart : Nat, bytes : Nat, intr : Nat]
    BY <1>0 DEF DdTypeOK
  <2>2. CASE k = opt.ibs
    <3>1. st' = [st EXCEPT !.inFull = @ + 1]
      BY <2>2, <1>1
    <3> QED
      BY <2>1, <3>1
  <2>3. CASE k # opt.ibs
    <3>1. st' = [st EXCEPT !.inPart = @ + 1]
      BY <2>3, <1>1
    <3> QED
      BY <2>1, <3>1
  <2> QED
    BY <2>2, <2>3
<1>6. /\ stage' \in {"read", "out"} /\ outp' = 0
      /\ stage' = "read" => UNCHANGED outVars /\ Len(buf') < opt.obs
      /\ stage' = "out" => /\ n' = cnt' /\ cnt' \in Nat /\ cnt' <= Len(buf') /\ force' \in BOOLEAN
                           /\ force' => cnt' = Len(buf')
  <2>1. CASE "bs" \in given
    <3>1. force' = TRUE /\ stage' = "out" /\ n' = Len(buf') /\ cnt' = n' /\ outp' = 0
      BY <2>1, <1>1, Zenon DEF EnterOut
    <3>2. Len(buf') \in Nat
      BY <1>4
    <3> QED
      BY <3>1, <3>2
  <2>2. CASE "bs" \notin given /\ Len(buf') >= opt.obs
    BY <2>2, <1>1, <1>3, <1>4 DEF EnterOut
  <2>3. CASE "bs" \notin given /\ ~(Len(buf') >= opt.obs)
    BY <2>3, <1>0, <1>1, <1>3, <1>4 DEF outVars, DdBuffer
  <2> QED
    BY <2>1, <2>2, <2>3
<1>7. DdTypeOK'
  <2>1. pipe' \in BOOLEAN /\ closing' \in BOOLEAN /\ interrupted' \in BOOLEAN
    BY <1>0, <1>2, Zenon DEF DdTypeOK, optVars, endVars
  <2>2. n' \in Nat /\ cnt' \in Nat /\ outp' \in Nat /\ force' \in BOOLEAN
    BY <1>0, <1>6 DEF DdTypeOK, outVars
  <2>3. pos' \in Nat
    BY <1>1, <1>3
  <2> QED
    BY <1>0, <1>2, <1>4, <1>5, <1>6, <2>1, <2>2, <2>3 DEF DdTypeOK, optVars, skipVars, ddFileVars, endVars
<1>8. DdOptions' /\ DdBefore'
  BY <1>0, <1>2, <1>6 DEF DdOptions, DdBefore, Before, optVars
<1>9. ~closing'
  BY <1>0, <1>2 DEF DdBuffer, endVars
<1>10. DdBuffer'
  BY <1>2, <1>4, <1>6, <1>9, <1>3 DEF DdBuffer, optVars
<1>11. Base' = Base /\ Base \in Nat
  BY <1>2, <1>3, NatTimes DEF Base, optVars
<1>12. NoByteLost'
  <2>1. outp = 0 /\ opos' = opos /\ file' = file /\ start' = start /\ opos \in Nat /\ Len(buf) \in Nat
    BY <1>0, <1>2 DEF DdBuffer, ddFileVars, DdTypeOK
  <2>2. opos' - Base' = pos' - start' - (Len(buf') - outp')
    BY <2>1, <1>0, <1>1, <1>3, <1>4, <1>6, <1>11 DEF NoByteLost
  <2>3. \A j \in 1 .. Len(buf') : buf'[j] = pos' - Len(buf') + j - 1
    <3> TAKE j \in 1 .. Len(buf')
    <3>1. CASE j <= Len(buf)
      <4>1. buf[j] = pos - Len(buf) + j - 1
        BY <3>1, <2>1, <1>0 DEF NoByteLost
      <4> QED
        BY <4>1, <3>1, <2>1, <1>1, <1>3, <1>4
    <3>2. CASE j > Len(buf)
      <4>1. buf'[j] = pos + (j - Len(buf)) - 1
        <5>1. j \in Len(buf) + 1 .. Len(buf')
          BY <3>2, <2>1, <1>3, <1>4
        <5> QED
          BY <5>1, <1>4
      <4> QED
        BY <4>1, <2>1, <1>1, <1>3, <1>4
    <3> QED
      BY <3>1, <3>2, <2>1, <1>3, <1>4
  <2>4. Len(file') >= opos' /\ \A i \in Base' + 1 .. opos' : file'[i] = start' + (i - Base') - 1
    BY <2>1, <1>0, <1>11 DEF NoByteLost
  <2> QED
    BY <2>2, <2>3, <2>4, <1>6 DEF NoByteLost
<1>13. DdCounts'
  <2>1. opt.count > 0 => st.inFull + st.inPart < opt.count
    <3>1. st.inFull \in Nat /\ st.inPart \in Nat
      BY <1>0 DEF DdTypeOK
    <3>2. opt.count > 0 => ~(st.inFull + st.inPart >= opt.count)
      BY <1>0 DEF CountReached
    <3> QED
      BY <3>1, <3>2, <1>3
  <2>2. opt'.count > 0 => st'.inFull + st'.inPart <= opt'.count
    <3>1. st.inFull \in Nat /\ st.inPart \in Nat /\ opt' = opt
      BY <1>0, <1>2 DEF DdTypeOK, optVars
    <3> QED
      BY <3>1, <2>1, <1>3, <1>5
  <2>3. st'.bytes = opos' - Base'
    BY <1>0, <1>2, <1>5, <1>11 DEF DdCounts, ddFileVars
  <2> QED
    BY <2>2, <2>3, <1>9 DEF DdCounts
<1>14. SeekKeeps'
  BY <1>0, <1>2, <1>11 DEF SeekKeeps, ddFileVars, optVars
<1>15. status' = "nothing"
  BY <1>0, <1>2 DEF endVars
<1>16. SuccessComplete'
  BY <1>15 DEF SuccessComplete
<1> QED
  BY <1>7, <1>8, <1>10, <1>12, <1>13, <1>14, <1>15, <1>16 DEF DdInv

(* The last block was read: dd_close writes what is left.                  *)
LEMMA ReadEndsKeepsDdInv ==
  ASSUME DdInv, ReadEnds
  PROVE  DdInv'
<1>0. DdTypeOK /\ DdOptions /\ DdBuffer /\ NoByteLost /\ DdCounts /\ SeekKeeps
      /\ stage = "read" /\ Copying /\ status = "nothing" /\ outp = 0
  BY DEF DdInv, ReadEnds, Copying, DdBuffer
<1>1. /\ CountReached \/ Least(opt.ibs, InputLength - pos) <= 0
      /\ closing' = TRUE
      /\ IF buf # <<>> THEN EnterOut(TRUE, buf) ELSE stage' = "close" /\ UNCHANGED outVars
  BY DEF ReadEnds
<1>2. UNCHANGED <<optVars, inVars, skipVars, ddFileVars, st, interrupted, status>>
  BY DEF ReadEnds
<1>3. /\ stage' \in {"out", "close"} /\ outp' = 0
      /\ stage' = "close" => buf' = <<>> /\ UNCHANGED outVars
      /\ stage' = "out" => force' = TRUE /\ n' = Len(buf) /\ cnt' = n'
  <2>1. CASE buf # <<>>
    BY <2>1, <1>1, Zenon DEF EnterOut
  <2>2. CASE buf = <<>>
    BY <2>2, <1>0, <1>1, <1>2 DEF inVars, outVars
  <2> QED
    BY <2>1, <2>2
<1>4. pos \in Nat /\ opt.ibs \in Nat /\ opt.count \in Nat /\ Len(buf) \in Nat
  BY <1>0 DEF DdTypeOK
<1>5. DdTypeOK'
  <2>1. pipe' \in BOOLEAN /\ closing' \in BOOLEAN /\ interrupted' \in BOOLEAN
    BY <1>0, <1>1, <1>2, Zenon DEF DdTypeOK, optVars
  <2>2. force' \in BOOLEAN
    BY <1>0, <1>3, Zenon DEF DdTypeOK, outVars
  <2>3. n' \in Nat /\ cnt' \in Nat /\ outp' \in Nat
    BY <1>0, <1>3, <1>4 DEF DdTypeOK, outVars
  <2> QED
    BY <1>0, <1>2, <1>3, <2>1, <2>2, <2>3 DEF DdTypeOK, optVars, inVars, skipVars, ddFileVars
<1>6. DdOptions' /\ DdBefore'
  BY <1>0, <1>2, <1>3 DEF DdOptions, DdBefore, Before, optVars
<1>7. DdBuffer'
  <2>1. stage' = "out" => outp' + cnt' = Len(buf')
    BY <1>2, <1>3, <1>4 DEF inVars
  <2> QED
    BY <1>1, <1>2, <1>3, <1>4, <2>1 DEF DdBuffer, inVars
<1>8. Base' = Base /\ CountReached' = CountReached
  BY <1>2 DEF Base, CountReached, optVars
<1>9. NoByteLost'
  BY <1>0, <1>2, <1>3, <1>8 DEF NoByteLost, inVars, ddFileVars
<1>10. CountReached \/ pos >= InputLength \/ opt.ibs = 0
  BY <1>1, <1>4, LengthsAssumption DEF Least
<1>11. DdCounts'
  BY <1>0, <1>2, <1>8, <1>10 DEF DdCounts, inVars, ddFileVars, optVars
<1>12. SeekKeeps'
  BY <1>0, <1>2, <1>8 DEF SeekKeeps, ddFileVars, optVars
<1>13. status' = "nothing"
  BY <1>0, <1>2
<1>14. SuccessComplete'
  BY <1>13 DEF SuccessComplete
<1> QED
  BY <1>5, <1>6, <1>7, <1>9, <1>11, <1>12, <1>13, <1>14 DEF DdInv

(* What is left of the buffer when a block was written.                    *)
LEMMA LeftoverProperties ==
  ASSUME buf \in Seq(Nat), NEW k \in 0 .. Len(buf)
  PROVE  /\ Leftover(k) \in Seq(Nat) /\ Len(Leftover(k)) = k
         /\ \A j \in 1 .. k : Leftover(k)[j] = buf[Len(buf) - k + j]
         /\ k = 0 => Leftover(k) = <<>>
<1> DEFINE a == Len(buf) - k + 1
           z == Len(buf)
<1>1. a \in Int /\ z \in Int /\ a >= 1 /\ z - a + 1 = k
  OBVIOUS
<1>2. \A i \in a .. z : buf[i] \in Nat
  BY <1>1
<1>3. Leftover(k) = SubSeq(buf, a, z)
  BY DEF Leftover
<1>4. /\ SubSeq(buf, a, z) \in Seq(Nat)
      /\ Len(SubSeq(buf, a, z)) = IF a <= z THEN z - a + 1 ELSE 0
      /\ \A i \in 1 .. z - a + 1 : SubSeq(buf, a, z)[i] = buf[a + i - 1]
  <2> HIDE DEF a, z
  <2> QED
    BY <1>1, <1>2, SubSeqProperties
<1>5. Len(Leftover(k)) = k
  BY <1>1, <1>3, <1>4
<1>6. \A j \in 1 .. k : Leftover(k)[j] = buf[Len(buf) - k + j]
  <2> TAKE j \in 1 .. k
  <2>1. SubSeq(buf, a, z)[j] = buf[a + j - 1] /\ a + j - 1 = Len(buf) - k + j
    BY <1>1, <1>4
  <2> QED
    BY <2>1, <1>3
<1>7. k = 0 => Leftover(k) = <<>>
  BY <1>3, <1>4, <1>5, EmptySeq
<1> QED
  BY <1>3, <1>4, <1>5, <1>6, <1>7

(* Some of a block is written.                                             *)
LEMMA WriteKeepsDdInv ==
  ASSUME DdInv, Write
  PROVE  DdInv'
<1>0. DdTypeOK /\ DdOptions /\ DdBuffer /\ NoByteLost /\ DdCounts /\ SeekKeeps
      /\ stage = "out" /\ Copying /\ status = "nothing"
  BY DEF DdInv, Write, Copying
<1>1. PICK nw \in 1 .. cnt :
       /\ file' = Put(file, opos, SubSeq(buf, outp + 1, outp + nw))
       /\ opos' = opos + nw
       /\ st' = Counted(nw)
       /\ IF nw = cnt
            THEN BlockDone(outp + nw)
            ELSE cnt' = cnt - nw /\ outp' = outp + nw /\ UNCHANGED <<stage, buf, n, force>>
  BY DEF Write
<1>2. UNCHANGED <<optVars, pos, start, skipVars, endVars>>
  BY DEF Write
<1>3. /\ pos \in Nat /\ start \in Nat /\ opos \in Nat /\ cnt \in Nat /\ outp \in Nat /\ n \in Nat
      /\ buf \in Seq(Nat) /\ Len(buf) \in Nat /\ file \in Seq(Int) /\ Len(file) \in Nat
      /\ opt.obs \in Nat /\ opt.seek \in Nat
  BY <1>0 DEF DdTypeOK
<1>4. nw \in Nat \ {0} /\ nw <= cnt /\ outp + cnt <= Len(buf) /\ (force => outp + cnt = Len(buf)) /\ (closing => force)
  BY <1>0, <1>1, <1>3 DEF DdBuffer
<1> DEFINE rest == Len(buf) - (outp + nw)
<1>5. rest \in 0 .. Len(buf)
  BY <1>3, <1>4
<1>6. Base' = Base /\ Base \in Nat
  BY <1>2, <1>3, NatTimes DEF Base, optVars
<1>7. /\ opos - Base = pos - start - (Len(buf) - outp) /\ Len(file) >= opos
      /\ \A i \in Base + 1 .. opos : file[i] = start + (i - Base) - 1
      /\ \A j \in outp + 1 .. Len(buf) : buf[j] = pos - Len(buf) + j - 1
  BY <1>0 DEF NoByteLost
<1>8. st' \in [inFull : Nat, inPart : Nat, outFull : Nat, outPart : Nat, bytes : Nat, intr : Nat]
      /\ st'.bytes = st.bytes + nw /\ st'.inFull = st.inFull /\ st'.inPart = st.inPart
  <2> DEFINE full == IF nw = n /\ n = opt.obs THEN st.outFull + 1 ELSE st.outFull
             part == IF nw = n /\ n = opt.obs THEN st.outPart ELSE st.outPart + 1
  <2>1. st \in [inFull : Nat, inPart : Nat, outFull : Nat, outPart : Nat, bytes : Nat, intr : Nat]
    BY <1>0 DEF DdTypeOK
  <2>2. st' = [st EXCEPT !.bytes = st.bytes + nw, !.outFull = full, !.outPart = part]
    BY <1>1 DEF Counted
  <2>3. full \in Nat /\ part \in Nat /\ st.bytes + nw \in Nat
    BY <2>1, <1>4
  <2> HIDE DEF full, part
  <2> QED
    BY <2>1, <2>2, <2>3

(* The three ways on: the rest of the block, back to dd_in or dd_close,    *)
(* and the next block in the buffer.                                       *)
<1>9. \/ /\ stage' = "out" /\ outp' = outp + nw /\ cnt' \in Nat /\ outp' + cnt' <= Len(buf)
         /\ force' = force /\ (force => outp' + cnt' = Len(buf))
         /\ buf' = buf /\ n' \in Nat
      \/ /\ stage' = IF closing THEN "close" ELSE "read"
         /\ rest < opt.obs \/ rest = 0
         /\ closing => rest = 0
         /\ buf' = Leftover(rest)
         /\ n' = 0 /\ cnt' = 0 /\ outp' = 0 /\ force' = FALSE
  <2>1. CASE nw # cnt
    <3>1. cnt' = cnt - nw /\ outp' = outp + nw /\ UNCHANGED <<stage, buf, n, force>>
      BY <2>1, <1>1
    <3>2. cnt - nw \in Nat /\ outp + nw + (cnt - nw) = outp + cnt
      BY <1>3, <1>4
    <3> QED
      BY <3>1, <3>2, <1>0, <1>3, <1>4
  <2>2. CASE nw = cnt /\ (rest < opt.obs \/ force)
    <3>1. /\ stage' = IF closing THEN "close" ELSE "read"
          /\ buf' = Leftover(rest)
          /\ n' = 0 /\ cnt' = 0 /\ outp' = 0 /\ force' = FALSE
      BY <2>2, <1>1 DEF BlockDone
    <3>2. force => rest = 0
      BY <2>2, <1>3, <1>4
    <3> QED
      BY <2>2, <3>1, <3>2, <1>4
  <2>3. CASE nw = cnt /\ ~(rest < opt.obs \/ force)
    <3>1. n' = opt.obs /\ cnt' = opt.obs /\ outp' = outp + nw /\ UNCHANGED <<stage, buf, force>>
      BY <2>3, <1>1 DEF BlockDone
    <3>2. outp + nw + opt.obs <= Len(buf)
      BY <2>3, <1>3, <1>4, <1>5
    <3> QED
      BY <2>3, <3>1, <3>2, <1>0, <1>3
  <2> QED
    BY <2>1, <2>2, <2>3
<1>10. /\ stage' \in {"out", "read", "close"}
       /\ buf' \in Seq(Nat) /\ outp' \in Nat /\ n' \in Nat /\ cnt' \in Nat
       /\ Len(buf') - outp' = Len(buf) - outp - nw
       /\ \A j \in outp' + 1 .. Len(buf') : buf'[j] = pos - Len(buf') + j - 1
  <2>1. CASE stage' = "out"
    <3>1. buf' = buf /\ outp' = outp + nw /\ outp' \in Nat /\ n' \in Nat /\ cnt' \in Nat
      BY <2>1, <1>3, <1>4, <1>9
    <3>2. Len(buf') - outp' = Len(buf) - outp - nw
      BY <3>1, <1>3, <1>4
    <3>3. \A j \in outp' + 1 .. Len(buf') : buf'[j] = pos - Len(buf') + j - 1
      <4> TAKE j \in outp' + 1 .. Len(buf')
      <4>1. j \in outp + 1 .. Len(buf)
        BY <3>1, <1>3, <1>4
      <4> QED
        BY <4>1, <3>1, <1>7
    <3> QED
      BY <2>1, <3>1, <3>2, <3>3, <1>3
  <2>2. CASE stage' # "out"
    <3>1. /\ stage' \in {"read", "close"} /\ buf' = Leftover(rest) /\ n' = 0 /\ cnt' = 0 /\ outp' = 0
      BY <2>2, <1>9
    <3>2. /\ buf' \in Seq(Nat) /\ Len(buf') = rest
          /\ \A j \in 1 .. rest : buf'[j] = buf[Len(buf) - rest + j]
      BY <3>1, <1>3, <1>5, LeftoverProperties
    <3>3. Len(buf') - outp' = Len(buf) - outp - nw
      BY <3>1, <3>2, <1>3, <1>4
    <3>4. \A j \in outp' + 1 .. Len(buf') : buf'[j] = pos - Len(buf') + j - 1
      <4> TAKE j \in outp' + 1 .. Len(buf')
      <4>1. j \in 1 .. rest /\ Len(buf) - rest + j \in outp + 1 .. Len(buf) /\ j \in Int /\ rest \in Int
        <5>1. Len(buf') = rest /\ outp' = 0
          BY <3>1, <3>2
        <5>2. j \in 1 .. rest /\ j \in Int /\ rest \in Int
          BY <5>1, <1>5
        <5>3. Len(buf) - rest = outp + nw
          BY <1>3, <1>4
        <5> HIDE DEF rest
        <5> QED
          BY <5>2, <5>3, <1>3, <1>4, <1>5
      <4>2. buf'[j] = buf[Len(buf) - rest + j]
        BY <4>1, <3>2
      <4>3. buf[Len(buf) - rest + j] = pos - Len(buf) + (Len(buf) - rest + j) - 1
        BY <4>1, <1>7
      <4> HIDE DEF rest
      <4> QED
        BY <4>1, <4>2, <4>3, <3>2, <1>3
    <3> QED
      BY <3>1, <3>2, <3>3, <3>4
  <2> QED
    BY <2>1, <2>2
<1>11. /\ file' \in Seq(Int) /\ Len(file') >= opos'
       /\ \A i \in 1 .. opos : file'[i] = file[i]
       /\ \A i \in 1 .. nw : file'[opos + i] = buf[outp + i]
  <2> DEFINE w == SubSeq(buf, outp + 1, outp + nw)
  <2>1. /\ w \in Seq(Nat) /\ Len(w) = nw
        /\ \A i \in 1 .. nw : w[i] = buf[outp + i]
    <3>1. \A i \in outp + 1 .. outp + nw : buf[i] \in Nat
      BY <1>3, <1>4
    <3>2. outp + 1 \in Int /\ outp + nw \in Int /\ outp + 1 <= outp + nw /\ outp + nw - (outp + 1) + 1 = nw
      BY <1>3, <1>4
    <3> DEFINE p == outp + 1
               q == outp + nw
    <3>3. p \in Int /\ q \in Int /\ p <= q /\ q - p + 1 = nw /\ (\A i \in 1 .. nw : p + i - 1 = outp + i)
      BY <1>3, <1>4
    <3>4. w = SubSeq(buf, p, q) /\ (\A i \in p .. q : buf[i] \in Nat)
      BY <3>1
    <3> HIDE DEF p, q, w
    <3>5. /\ w \in Seq(Nat)
          /\ Len(w) = IF p <= q THEN q - p + 1 ELSE 0
          /\ \A i \in 1 .. q - p + 1 : w[i] = buf[p + i - 1]
      BY <3>3, <3>4, SubSeqProperties
    <3>6. Len(w) = nw
      BY <3>3, <3>5
    <3>7. \A i \in 1 .. nw : w[i] = buf[outp + i]
      BY <3>3, <3>5
    <3> QED
      BY <3>5, <3>6, <3>7
  <2>2. file' = Put(file, opos, w)
    BY <1>1
  <2> HIDE DEF w
  <2>3. /\ file' \in Seq(Int)
        /\ Len(file') = Most(Len(file), opos + Len(w))
        /\ \A i \in 1 .. Len(file) : i <= opos => file'[i] = file[i]
        /\ \A i \in 1 .. Len(w) : file'[opos + i] = w[i]
    <3>1. w \in Seq(Nat) /\ file \in Seq(Int) /\ opos \in Nat
      BY <2>1, <1>3
    <3> QED
      BY <3>1, <2>2, PutProperties
  <2>4. Len(file') >= opos'
    <3>1. Len(file') = Most(Len(file), opos + nw) /\ opos' = opos + nw
      BY <2>1, <2>3, <1>1
    <3>2. opos + nw \in Nat /\ Len(file) \in Nat
      BY <1>3, <1>4
    <3> QED
      BY <3>1, <3>2 DEF Most
  <2>5. \A i \in 1 .. opos : i \in 1 .. Len(file) /\ i <= opos
    BY <1>3, <1>7
  <2> QED
    BY <2>1, <2>3, <2>4, <2>5
<1>12. DdTypeOK'
  <2>1. pipe' \in BOOLEAN /\ closing' \in BOOLEAN /\ interrupted' \in BOOLEAN
    BY <1>0, <1>2, Zenon DEF DdTypeOK, optVars, endVars
  <2>2. force' \in BOOLEAN
    BY <1>0, <1>9, Zenon DEF DdTypeOK
  <2>3. opos' \in Nat
    BY <1>1, <1>3, <1>4
  <2> QED
    BY <1>0, <1>2, <1>8, <1>10, <1>11, <2>1, <2>2, <2>3 DEF DdTypeOK, optVars, skipVars, endVars
<1>13. DdOptions' /\ DdBefore'
  BY <1>0, <1>2, <1>10 DEF DdOptions, DdBefore, Before, optVars
<1>14. DdBuffer'
  <2>1. CASE stage' = "out"
    BY <2>1, <1>2, <1>4, <1>9 DEF DdBuffer, endVars
  <2>2. CASE stage' # "out"
    <3>1. /\ stage' = IF closing THEN "close" ELSE "read"
          /\ rest < opt.obs \/ rest = 0
          /\ closing => rest = 0
          /\ buf' = Leftover(rest) /\ outp' = 0
      BY <2>2, <1>9
    <3>2. Len(buf') = rest /\ (rest = 0 => buf' = <<>>)
      BY <3>1, <1>3, <1>5, LeftoverProperties
    <3>3. rest \in Nat /\ opt' = opt /\ closing' = closing
      BY <1>2, <1>5 DEF optVars, endVars
    <3> HIDE DEF rest
    <3> QED
      BY <3>1, <3>2, <3>3, <1>3 DEF DdBuffer
  <2> QED
    BY <2>1, <2>2
<1>15. opos' - Base' = pos' - start' - (Len(buf') - outp')
  <2>1. opos' = opos + nw /\ pos' = pos /\ start' = start /\ Base' = Base
    BY <1>1, <1>2, <1>6
  <2>2. Len(buf') - outp' = Len(buf) - outp - nw
    BY <1>10
  <2>3. \A a, o, l, s, p, k, c \in Int : o - a = p - s - (l - c) => o + k - a = p - s - (l - c - k)
    OBVIOUS
  <2>4. Base \in Int /\ opos \in Int /\ Len(buf) \in Int /\ start \in Int /\ pos \in Int /\ nw \in Int /\ outp \in Int
    BY <1>3, <1>4, <1>6
  <2>5. opos + nw - Base = pos - start - (Len(buf) - outp - nw)
    BY <2>3, <2>4, <1>7
  <2>6. opos' - Base' = opos + nw - Base
    BY <2>1, <2>4
  <2>7. pos' - start' - (Len(buf') - outp') = pos - start - (Len(buf) - outp - nw)
    BY <2>1, <2>2
  <2> QED
    BY <2>5, <2>6, <2>7
<1>16. NoByteLost'
  <2>1. \A i \in Base' + 1 .. opos' : file'[i] = start' + (i - Base') - 1
    <3> TAKE i \in Base' + 1 .. opos'
    <3>1. i \in Int /\ i >= Base + 1 /\ i <= opos + nw
      BY <1>1, <1>3, <1>4, <1>6
    <3>2. CASE i <= opos
      <4>1. i \in Base + 1 .. opos /\ i \in 1 .. opos
        BY <3>1, <3>2, <1>3, <1>6
      <4>2. file'[i] = file[i] /\ file[i] = start + (i - Base) - 1
        BY <4>1, <1>7, <1>11
      <4> QED
        BY <4>2, <1>2, <1>6
    <3>3. CASE i > opos
      <4> DEFINE k == i - opos
      <4>1. k \in 1 .. nw /\ opos + k = i /\ outp + k \in outp + 1 .. Len(buf)
        BY <3>1, <3>3, <1>3, <1>4
      <4>2. file'[i] = buf[outp + k]
        BY <4>1, <1>11
      <4>3. buf[outp + k] = pos - Len(buf) + (outp + k) - 1
        BY <4>1, <1>7
      <4>4. pos - Len(buf) + (outp + k) - 1 = start + (i - Base) - 1
        <5>1. opos - Base = pos - start - (Len(buf) - outp)
          BY <1>7
        <5>2. \A a, o, l, s, p, c, j \in Int :
                o - a = p - s - (l - c) => p - l + (c + (j - o)) - 1 = s + (j - a) - 1
          OBVIOUS
        <5>3. Base \in Int /\ opos \in Int /\ Len(buf) \in Int /\ start \in Int /\ pos \in Int /\ outp \in Int /\ i \in Int
          BY <3>1, <1>3, <1>6
        <5> QED
          BY <5>1, <5>2, <5>3
      <4> QED
        BY <4>2, <4>3, <4>4, <1>2, <1>6
    <3> QED
      BY <3>1, <3>2, <3>3, <1>3
  <2> QED
    BY <2>1, <1>2, <1>10, <1>11, <1>15 DEF NoByteLost
<1>17. DdCounts'
  <2>1. CountReached' = CountReached /\ pos' = pos /\ opt' = opt /\ closing' = closing
    BY <1>2, <1>8 DEF CountReached, optVars, endVars
  <2>2. st'.bytes = opos' - Base'
    <3>1. st.bytes = opos - Base
      BY <1>0 DEF DdCounts
    <3> QED
      BY <3>1, <1>1, <1>3, <1>4, <1>6, <1>8
  <2> QED
    BY <2>1, <2>2, <1>0, <1>8 DEF DdCounts
<1>18. SeekKeeps'
  <2> SUFFICES ASSUME "of" \in given, NEW i \in 1 .. Least(Base, Len(file'))
               PROVE  file'[i] = IF i <= OldLength THEN Old ELSE Hole
    BY <1>2, <1>6 DEF SeekKeeps, optVars
  <2>1. opos >= Base
    <3>1. Len(buf) - outp >= 0
      BY <1>3, <1>4
    <3>2. st.bytes = opos - Base /\ st.bytes \in Nat
      BY <1>0 DEF DdCounts, DdTypeOK
    <3> QED
      BY <3>2, <1>3, <1>6
  <2>2. i \in 1 .. Base /\ i \in 1 .. opos /\ i \in 1 .. Least(Base, Len(file))
    BY <2>1, <1>3, <1>6, <1>7 DEF Least
  <2>3. file[i] = IF i <= OldLength THEN Old ELSE Hole
    BY <2>2, <1>0 DEF SeekKeeps
  <2> QED
    BY <2>2, <2>3, <1>11
<1>19. status' = "nothing"
  BY <1>0, <1>2 DEF endVars
<1>20. SuccessComplete'
  BY <1>19 DEF SuccessComplete
<1> QED
  BY <1>12, <1>13, <1>14, <1>16, <1>17, <1>18, <1>19, <1>20 DEF DdInv

(* All the operands are read.                                              *)
LEMMA OperandsEndKeepsDdInv ==
  ASSUME DdInv, OperandsEnd
  PROVE  DdInv'
<1>0. DdTypeOK /\ DdOptions /\ DdBefore /\ DdCounts /\ stage = "operands" /\ status = "nothing"
  BY DEF DdInv, OperandsEnd
<1>1. UNCHANGED <<optVars, inVars, skipVars, outVars, ddFileVars, st, closing, interrupted>>
  BY DEF OperandsEnd
<1>2. CASE stage' = "done"
  <2>1. status' = "1" /\ interrupted' \in BOOLEAN
    BY <1>0, <1>1, <1>2 DEF OperandsEnd, Exit, DdTypeOK
  <2> QED
    BY <2>1, <1>0, <1>1, <1>2, EndKeepsDdInv DEF Untouched
<1>3. CASE stage' # "done"
  <2>1. stage' = "setup" /\ status' = "nothing"
    BY <1>0, <1>3 DEF OperandsEnd, Exit
  <2>2. DdTypeOK'
    <3>1. force' \in BOOLEAN /\ pipe' \in BOOLEAN /\ closing' \in BOOLEAN /\ interrupted' \in BOOLEAN
      BY <1>0, <1>1, Zenon DEF DdTypeOK, outVars, optVars
    <3> QED
      BY <3>1, <2>1, <1>0, <1>1 DEF DdTypeOK, optVars, inVars, skipVars, outVars, ddFileVars
  <2>3. DdOptions' /\ DdBefore'
    BY <2>1, <1>0, <1>1 DEF DdOptions, DdBefore, Before, optVars, inVars, outVars, ddFileVars
  <2>4. DdBuffer' /\ NoByteLost' /\ SeekKeeps'
    BY <2>1 DEF DdBuffer, NoByteLost, SeekKeeps, Copying
  <2>5. DdCounts'
    BY <2>1, <1>0, <1>1 DEF DdCounts, Copying, optVars
  <2>6. SuccessComplete'
    BY <2>1 DEF SuccessComplete
  <2> QED
    BY <2>1, <2>2, <2>3, <2>4, <2>5, <2>6 DEF DdInv
<1> QED
  BY <1>2, <1>3

LEMMA InterruptedWriteKeepsDdInv ==
  ASSUME DdInv, WriteInterrupted
  PROVE  DdInv'
<1>0. DdTypeOK /\ DdOptions /\ DdBuffer /\ NoByteLost /\ DdCounts /\ SeekKeeps
      /\ stage = "out" /\ status = "nothing"
  BY DEF DdInv, WriteInterrupted
<1>1. UNCHANGED <<stage, optVars, inVars, skipVars, outVars, ddFileVars, endVars>>
  BY DEF WriteInterrupted
<1>2. st' \in [inFull : Nat, inPart : Nat, outFull : Nat, outPart : Nat, bytes : Nat, intr : Nat]
      /\ st'.bytes = st.bytes /\ st'.inFull = st.inFull /\ st'.inPart = st.inPart
  <2>1. st \in [inFull : Nat, inPart : Nat, outFull : Nat, outPart : Nat, bytes : Nat, intr : Nat]
    BY <1>0 DEF DdTypeOK
  <2> DEFINE part == st.outPart + 1
             again == st.intr + 1
  <2>2. st' = [st EXCEPT !.outPart = part, !.intr = again]
    BY DEF WriteInterrupted
  <2>3. part \in Nat /\ again \in Nat
    BY <2>1
  <2> HIDE DEF part, again
  <2> QED
    BY <2>1, <2>2, <2>3
<1>3. DdTypeOK'
  <2>1. force' \in BOOLEAN /\ pipe' \in BOOLEAN /\ closing' \in BOOLEAN /\ interrupted' \in BOOLEAN
    BY <1>0, <1>1, Zenon DEF DdTypeOK, outVars, optVars, endVars
  <2> QED
    BY <2>1, <1>0, <1>1, <1>2 DEF DdTypeOK, optVars, inVars, skipVars, outVars, ddFileVars, endVars
<1>4. DdOptions' /\ DdBefore' /\ DdBuffer'
  BY <1>0, <1>1 DEF DdOptions, DdBefore, Before, DdBuffer, optVars, inVars, outVars, endVars
<1>5. Base' = Base /\ CountReached' = CountReached
  BY <1>1, <1>2 DEF Base, CountReached, optVars
<1>6. NoByteLost' /\ SeekKeeps'
  BY <1>0, <1>1, <1>5 DEF NoByteLost, SeekKeeps, Copying, optVars, inVars, outVars, ddFileVars
<1>7. DdCounts'
  BY <1>0, <1>1, <1>2, <1>5 DEF DdCounts, Copying, optVars, inVars, ddFileVars, endVars
<1>8. status' = "nothing"
  BY <1>0, <1>1 DEF endVars
<1>9. SuccessComplete'
  BY <1>8 DEF SuccessComplete
<1> QED
  BY <1>3, <1>4, <1>6, <1>7, <1>8, <1>9 DEF DdInv

LEMMA FailKeepsDdInv ==
  ASSUME DdInv, NEW at \in {"operands", "setup", "skip", "seek", "read", "out", "close"}, Fail(at)
  PROVE  DdInv'
<1>1. /\ stage # "done" /\ stage' = "done" /\ status' = "1" /\ interrupted' = interrupted
      /\ Untouched
  BY DEF Fail, Exit, Untouched
<1>2. interrupted' \in BOOLEAN
  BY <1>1, Zenon DEF DdInv, DdTypeOK
<1> QED
  BY <1>1, <1>2, EndKeepsDdInv

LEMMA CloseKeepsDdInv ==
  ASSUME DdInv, CloseFiles
  PROVE  DdInv'
<1>1. /\ stage = "close" /\ stage' = "done" /\ status' \in {"nothing", "0"} /\ interrupted' = interrupted
      /\ Untouched
  BY DEF CloseFiles, Exit, Untouched
<1>2. interrupted' \in BOOLEAN
  BY <1>1, Zenon DEF DdInv, DdTypeOK
<1> QED
  BY <1>1, <1>2, EndKeepsDdInv

LEMMA InterruptKeepsDdInv ==
  ASSUME DdInv, Interrupt
  PROVE  DdInv'
<1>1. stage # "done" /\ stage' = "done" /\ status' \in {"nothing", "0"} /\ interrupted' = TRUE /\ Untouched
  BY DEF Interrupt, Exit, Untouched
<1>2. interrupted' \in BOOLEAN /\ ~(~interrupted')
  BY <1>1, Zenon
<1> QED
  BY <1>1, <1>2, EndKeepsDdInv

LEMMA IdleKeepsDdInv ==
  ASSUME DdInv, UNCHANGED ddVars
  PROVE  DdInv'
<1> USE DEF ddVars, optVars, inVars, skipVars, outVars, ddFileVars, endVars
<1>1. DdTypeOK'
  <2>1. force' \in BOOLEAN /\ pipe' \in BOOLEAN /\ closing' \in BOOLEAN /\ interrupted' \in BOOLEAN
    BY Zenon DEF DdInv, DdTypeOK
  <2> QED
    BY <2>1 DEF DdInv, DdTypeOK
<1>2. DdOptions' /\ DdBefore' /\ DdBuffer'
  BY DEF DdInv, DdOptions, DdBefore, Before, DdBuffer
<1>3. NoByteLost' /\ SeekKeeps' /\ DdCounts'
  BY DEF DdInv, NoByteLost, SeekKeeps, DdCounts, Copying, Base, CountReached
<1>4. SuccessComplete' /\ (stage' # "done" => status' = "nothing")
  BY DEF DdInv, SuccessComplete, CountReached
<1> QED
  BY <1>1, <1>2, <1>3, <1>4 DEF DdInv

(* Every step of dd keeps the invariant.                                   *)
LEMMA NextDdInv ==
  ASSUME DdInv, [DdNext]_ddVars
  PROVE  DdInv'
<1>1. CASE UNCHANGED ddVars
  BY <1>1, IdleKeepsDdInv
<1>2. CASE Interrupt
  BY <1>2, InterruptKeepsDdInv
<1>3. CASE DdStep
  <2>1. CASE \E o \in DdOperands : Operand(o)
    BY <2>1, OperandKeepsDdInv
  <2>2. CASE BadOperand \/ SetupFails \/ SkipFails \/ SeekFails \/ ReadFails \/ WriteFails \/ CloseFails
    BY <2>2, FailKeepsDdInv DEF BadOperand, SetupFails, SkipFails, SeekFails, ReadFails, WriteFails, CloseFails
  <2>3. CASE OperandsEnd
    BY <2>3, OperandsEndKeepsDdInv
  <2>4. CASE Setup
    BY <2>4, SetupKeepsDdInv
  <2>5. CASE SkipBytes
    BY <2>5, SkipKeepsDdInv
  <2>6. CASE SeekOut
    BY <2>6, SeekOutKeepsDdInv
  <2>7. CASE Read
    BY <2>7, ReadKeepsDdInv
  <2>8. CASE ReadEnds
    BY <2>8, ReadEndsKeepsDdInv
  <2>9. CASE Write
    BY <2>9, WriteKeepsDdInv
  <2>10. CASE WriteInterrupted
    BY <2>10, InterruptedWriteKeepsDdInv
  <2>11. CASE CloseFiles
    BY <2>11, CloseKeepsDdInv
  <2> QED
    BY <1>3, <2>1, <2>2, <2>3, <2>4, <2>5, <2>6, <2>7, <2>8, <2>9, <2>10, <2>11 DEF DdStep
<1> QED
  BY <1>1, <1>2, <1>3 DEF DdNext

(* dd on its own: reblocking loses no byte, a success is complete, seek    *)
(* keeps what is before it, and the buffer is large enough.                *)
LEMMA DdInvImplies ==
  ASSUME DdInv
  PROVE  DdTypeOK /\ NoByteLost /\ SuccessComplete /\ SeekKeeps /\ BufferBound /\ BlocksAsked
<1>1. stage = "read" => Len(buf) \in Nat /\ opt.ibs \in Nat /\ opt.obs \in Nat
  BY DEF DdInv, DdTypeOK
<1>2. BufferBound
  BY <1>1 DEF DdInv, DdBuffer, BufferBound
<1>3. BlocksAsked
  BY DEF DdInv, DdOptions, DdCounts, BlocksAsked
<1> QED
  BY <1>2, <1>3 DEF DdInv
-----------------------------------------------------------------------------
(* The process: a command is found by its name, and only its own steps are *)
(* taken from then on.                                                     *)
FileNames == {"rm", "chmod", "chown", "mv", "ls", "chattr"}

PlaceInv ==
  /\ ToolTypeOK
  /\ place \in {"find", "main"} => said = "nothing"
  /\ place = "find" => args = <<>> /\ opts = {} /\ code = "ok"
  /\ place = "main" /\ tool # "kill" => code = "ok"
  /\ place # "done" => code \in {"ok", "failed"}
  /\ place = "walk" => tool \in FileNames
  /\ place = "cat" => tool = "cat"
  /\ place = "ps" => tool = "ps"
  /\ place = "mounting" => tool = "mount"

(* A step of one of these commands, which ends at one of these places.     *)
Of(names, places) ==
  /\ tool \in names /\ UNCHANGED <<direct, tool>>
  /\ place \in places \cup {"main"} /\ place' \in places \cup {"main", "done"}
  /\ (place' = "main" => place = "main" /\ said' = said /\ (tool # "kill" => code' = code))
  /\ said' \in {"nothing", "0", "-1", "1", "10", "255", "text"}
  /\ code' \in {"ok", "failed", "crash"}
  /\ place' # "done" => code' \in {"ok", "failed"}
  /\ place' = "ps" => tool = "ps"

LEMMA FileOf ==
  ASSUME PlaceInv, FileStep
  PROVE  Of(FileNames, {"walk"}) /\ UNCHANGED opts
<1>0. /\ said \in {"nothing", "0", "-1", "1", "10", "255", "text"}
      /\ place \in {"main", "walk"} => code \in {"ok", "failed"}
  BY DEF PlaceInv, ToolTypeOK
<1> DEFINE G == /\ tool \in FileNames /\ UNCHANGED <<direct, tool, opts>>
                /\ place \in {"main", "walk"} /\ place' \in {"walk", "done"}
                /\ said' \in {"nothing", "0", "-1", "1", "10", "255", "text"}
                /\ code' \in {"ok", "failed", "crash"}
                /\ place' # "done" => code' \in {"ok", "failed"}
<1> USE <1>0 DEF FileNames, InCall, toolVars
<1>1. ASSUME NextOperand \/ AllDone({"rm", "chmod", "chown", "ls"}) \/ (AllDone({"chattr"}) /\ old.args # <<>>) PROVE G
  BY <1>1 DEF NextOperand, AllDone, Ends, Finish
<1>2. ASSUME RmBegins \/ RmLooks \/ RmUnlinks \/ RmOpens \/ ReadEntry("rm") \/ RmRemovesDirectory \/ RmFails PROVE G
  <2>1. CASE RmBegins \/ RmFails
    BY <2>1 DEF RmBegins, RmFails, GiveUp, Begin, Ends, Finish
  <2>2. CASE RmLooks \/ RmUnlinks \/ RmOpens \/ ReadEntry("rm") \/ RmRemovesDirectory
    BY <2>2 DEF RmLooks, RmUnlinks, RmOpens, ReadEntry, RmRemovesDirectory
  <2> QED
    BY <1>2, <2>1, <2>2
<1>3. ASSUME SetBegins \/ Sets \/ SetFails PROVE G
  BY <1>3 DEF SetBegins, Sets, SetFails, GiveUp, Begin, Ends, Finish
<1>4. ASSUME MvBegins \/ Moves \/ MvFails \/ MvDone PROVE G
  <2>1. CASE MvBegins
    BY <2>1 DEF MvBegins, Begin, Ends, Finish
  <2>2. CASE Moves \/ MvFails \/ MvDone
    BY <2>2 DEF Moves, MvFails, MvDone, GiveUp, Ends, Finish
  <2> QED
    BY <1>4, <2>1, <2>2
<1>5. ASSUME LsBegins \/ LsLooks \/ LsLists \/ LsOpens \/ LsStops \/ LsPrints \/ LsRewinds \/ LsDescends \/ LsCloses PROVE G
  <2>1. CASE LsBegins
    BY <2>1 DEF LsBegins, Begin
  <2>2. CASE LsLooks \/ LsLists \/ LsStops
    BY <2>2 DEF LsLooks, LsLists, LsStops
  <2>3. CASE LsOpens \/ LsPrints \/ LsRewinds \/ LsDescends \/ LsCloses
    BY <2>3 DEF LsOpens, LsPrints, LsRewinds, LsDescends, LsCloses
  <2> QED
    BY <1>5, <2>1, <2>2, <2>3
<1>6. ASSUME ChattrBegins PROVE G
  BY <1>6 DEF ChattrBegins, Begin
<1>7. ASSUME ChattrNoOperand \/ ChattrLooks \/ ChattrFails PROVE G
  BY <1>7 DEF ChattrNoOperand, ChattrLooks, ChattrFails, Finish
<1>8. ASSUME ChattrGets \/ ChattrSets PROVE G
  BY <1>8 DEF ChattrGets, ChattrSets
<1>9. ASSUME ChattrOpens \/ ReadEntry("chattr") \/ ChattrCloses PROVE G
  BY <1>9 DEF ChattrOpens, ReadEntry, ChattrCloses
<1>10. G
  <2> HIDE DEF G, FileNames, InCall
  <2> QED
    BY <1>1, <1>2, <1>3, <1>4, <1>5, <1>6, <1>7, <1>8, <1>9 DEF FileStep
<1> QED
  BY <1>10 DEF Of

LEMMA CatOf ==
  ASSUME PlaceInv, CatStep
  PROVE  Of({"cat"}, {"cat"}) /\ UNCHANGED opts
<1>0. /\ said \in {"nothing", "0", "-1", "1", "10", "255", "text"}
      /\ place \in {"main", "cat"} => code \in {"ok", "failed"}
      /\ place = "cat" => tool = "cat"
  BY DEF PlaceInv, ToolTypeOK
<1> DEFINE G == /\ tool = "cat" /\ UNCHANGED <<direct, tool, opts>>
                /\ place \in {"main", "cat"} /\ place' \in {"cat", "done"}
                /\ said' \in {"nothing", "0", "-1", "1", "10", "255", "text"}
                /\ code' \in {"ok", "failed", "crash"}
                /\ place' # "done" => code' \in {"ok", "failed"}
<1> USE <1>0 DEF toolVars, Finish
<1>1. ASSUME CatBegins \/ CatOpens \/ CatSkips PROVE G
  BY <1>1 DEF CatBegins, CatOpens, CatSkips
<1>2. ASSUME CatCloses \/ CatEnds PROVE G
  BY <1>2 DEF CatCloses, CatEnds
<1>3. ASSUME RawRead \/ RawWrite \/ RawWriteFails PROVE G
  BY <1>3 DEF RawRead, RawWrite, RawWriteFails
<1>4. ASSUME Cook \/ CookFails PROVE G
  BY <1>4 DEF Cook, CookFails
<1>5. G
  <2> HIDE DEF G
  <2> QED
    BY <1>1, <1>2, <1>3, <1>4 DEF CatStep
<1> QED
  BY <1>5 DEF Of

LEMMA MountOf ==
  ASSUME PlaceInv, MountStep
  PROVE  Of({"mount"}, {"mounting"})
<1>0. /\ said \in {"nothing", "0", "-1", "1", "10", "255", "text"}
      /\ place \in {"main", "mounting"} => code \in {"ok", "failed"}
      /\ place = "mounting" => tool = "mount"
  BY DEF PlaceInv, ToolTypeOK
<1> DEFINE G == /\ tool = "mount" /\ UNCHANGED <<direct, tool>>
                /\ place \in {"main", "mounting"} /\ place' \in {"main", "mounting", "done"}
                /\ place' = "main" => place = "main" /\ said' = said /\ code' = code
                /\ said' \in {"nothing", "0", "-1", "1", "10", "255", "text"}
                /\ code' \in {"ok", "failed", "crash"}
                /\ place' # "done" => code' \in {"ok", "failed"}
<1> USE <1>0 DEF toolVars, Finish
<1>1. ASSUME PrintMounts \/ MountUsage \/ MountBegins PROVE G
  BY <1>1 DEF PrintMounts, MountUsage, MountBegins
<1>2. ASSUME MountOption PROVE G
  BY <1>2 DEF MountOption
<1>3. ASSUME Attach \/ AttachFails \/ MountEnds PROVE G
  BY <1>3 DEF Attach, AttachFails, MountEnds
<1>4. ASSUME Mounts \/ NextType \/ ReadOnly \/ MountFails PROVE G
  BY <1>4 DEF Mounts, NextType, ReadOnly, MountFails, Tries
<1>5. G
  <2> HIDE DEF G
  <2> QED
    BY <1>1, <1>2, <1>3, <1>4 DEF MountStep
<1> QED
  BY <1>5 DEF Of

LEMMA ProcessOf ==
  ASSUME PlaceInv, ProcessStep
  PROVE  Of({"ps", "kill"}, {"ps"}) /\ UNCHANGED opts
<1>0. /\ said \in {"nothing", "0", "-1", "1", "10", "255", "text"}
      /\ place \in {"main", "ps"} => code \in {"ok", "failed"}
      /\ place = "ps" => tool = "ps"
  BY DEF PlaceInv, ToolTypeOK
<1> DEFINE G == /\ tool \in {"ps", "kill"} /\ UNCHANGED <<direct, tool, opts>>
                /\ place \in {"main", "ps"} /\ place' \in {"main", "ps", "done"}
                /\ place' = "main" => place = "main" /\ tool = "kill" /\ said' = said
                /\ place' = "ps" => tool = "ps"
                /\ said' \in {"nothing", "0", "-1", "1", "10", "255", "text"}
                /\ code' \in {"ok", "failed", "crash"}
                /\ place' # "done" => code' \in {"ok", "failed"}
<1> USE <1>0 DEF toolVars, Finish
<1>1. ASSUME PsBegins \/ PsEnds PROVE G
  BY <1>1 DEF PsBegins, PsEnds
<1>2. ASSUME PsStat \/ PsCommand \/ PsPrints PROVE G
  BY <1>2 DEF PsStat, PsCommand, PsPrints
<1>3. ASSUME Kills PROVE G
  BY <1>3 DEF Kills
<1>4. ASSUME KillEnds PROVE G
  BY <1>4 DEF KillEnds
<1>5. G
  <2> HIDE DEF G
  <2> QED
    BY <1>1, <1>2, <1>3, <1>4 DEF ProcessStep
<1> QED
  BY <1>5 DEF Of

LEMMA DdOf ==
  ASSUME PlaceInv, RunDd \/ Signal, DdTypeOK'
  PROVE  Of({"dd"}, {}) /\ UNCHANGED <<opts, args>>
<1>0. /\ said \in {"nothing", "0", "-1", "1", "10", "255", "text"}
      /\ place = "main" => code \in {"ok", "failed"}
  BY DEF PlaceInv, ToolTypeOK
<1>1. status' \in {"nothing", "0", "1"}
  BY DEF DdTypeOK
<1>2. tool = "dd" /\ place = "main" /\ Ended /\ UNCHANGED <<direct, tool, opts, args>>
  BY DEF RunDd, Signal
<1> QED
  BY <1>0, <1>1, <1>2 DEF Of, Ended, Finish

(* The command is found, or there is no such command.                      *)
Starts ==
  /\ place = "find" /\ UNCHANGED direct
  /\ \/ /\ place' = "main" /\ tool' = Chosen /\ tool' \in Tools
        /\ UNCHANGED <<said, code>>
        /\ tool' \in DOMAIN Requests
        /\ \E r \in Requests[tool'] :
             Fits(r[2]) /\ opts' = (IF direct THEN {} ELSE r[1]) /\ args' = r[2]
     \/ /\ place' = "done" /\ said' = "nothing" /\ code' \in {"failed", "exec"}
        /\ direct => code' = "failed"
        /\ UNCHANGED <<tool, opts, args>>

LEMMA DispatchStarts ==
  ASSUME Dispatch
  PROVE  Starts
<1>1. CASE NotFound
  BY <1>1 DEF NotFound, Finish, Starts
<1>2. CASE ~NotFound
  <2>1. place = "find" /\ Chosen \in DOMAIN Requests /\ \E r \in Requests[Chosen] : Fits(r[2]) /\ Find(r[1], r[2])
    BY <1>2 DEF Dispatch
  <2>2. PICK r \in Requests[Chosen] : Fits(r[2]) /\ Find(r[1], r[2])
    BY <2>1
  <2>3. tool' = Chosen /\ tool' \in Tools
    BY <2>2 DEF Find, Direct, Tools
  <2> QED
    BY <2>1, <2>2, <2>3 DEF Find, Starts
<1> QED
  BY <1>1, <1>2

(* What the commands take turns with: each step is of one command, and     *)
(* leaves the state of the others alone.                                   *)
Idle == UNCHANGED <<toolVars, fileVars, catVars, mountVars, processVars, ddVars>>
Starting == Starts /\ UNCHANGED <<fileVars, catVars, mountVars, processVars, ddVars>>
Filing == /\ FileStep /\ Of(FileNames, {"walk"}) /\ UNCHANGED opts
          /\ UNCHANGED <<catVars, mountVars, processVars, ddVars>>
Disturbing == /\ Others /\ place = "walk" /\ UNCHANGED toolVars
              /\ UNCHANGED <<catVars, mountVars, processVars, ddVars>>
Catting == /\ CatStep /\ Of({"cat"}, {"cat"}) /\ UNCHANGED opts
           /\ UNCHANGED <<fileVars, mountVars, processVars, ddVars>>
Mounting == /\ MountStep /\ Of({"mount"}, {"mounting"})
            /\ UNCHANGED <<fileVars, catVars, processVars, ddVars>>
Processing == /\ ProcessStep /\ Of({"ps", "kill"}, {"ps"}) /\ UNCHANGED opts
              /\ UNCHANGED <<fileVars, catVars, mountVars, ddVars>>
Changing == /\ \E p \in Pids : ProcessChanges(p)
            /\ place \in {"main", "ps"} /\ tool \in {"ps", "kill"} /\ UNCHANGED toolVars
            /\ UNCHANGED <<fileVars, catVars, mountVars, ddVars>>
Copies == /\ RunDd \/ Signal
          /\ Of({"dd"}, {}) /\ UNCHANGED <<opts, args>>
          /\ UNCHANGED <<fileVars, catVars, mountVars, processVars>>
OneStep == \/ Idle \/ Starting \/ Filing \/ Disturbing \/ Catting \/ Mounting
           \/ Processing \/ Changing \/ Copies

(* Every step that is not of dd leaves dd's state alone.                   *)
LEMMA DdSteps ==
  ASSUME [Next]_allVars
  PROVE  [DdNext]_ddVars
<1>1. CASE UNCHANGED allVars
  BY <1>1 DEF allVars
<1>2. CASE Step
  <2>1. CASE RunDd
    BY <2>1 DEF RunDd, DdNext
  <2> QED
    BY <1>2, <2>1 DEF Step
<1>3. CASE Environment
  <2>1. CASE Signal
    BY <2>1 DEF Signal, DdNext
  <2> QED
    BY <1>3, <2>1 DEF Environment
<1> QED
  BY <1>1, <1>2, <1>3 DEF Next

LEMMA NextOneStep ==
  ASSUME PlaceInv, DdInv, [Next]_allVars
  PROVE  OneStep
<1>1. DdTypeOK'
  <2>1. DdInv'
    BY DdSteps, NextDdInv
  <2> QED
    BY <2>1 DEF DdInv
<1>2. CASE UNCHANGED allVars
  BY <1>2 DEF allVars, OneStep, Idle
<1>3. CASE Step
  <2>1. CASE Dispatch /\ UNCHANGED fileVars /\ UNCHANGED <<catVars, mountVars, processVars, ddVars>>
    BY <2>1, DispatchStarts DEF OneStep, Starting
  <2>2. CASE FileStep /\ UNCHANGED <<catVars, mountVars, processVars, ddVars>>
    BY <2>2, FileOf DEF OneStep, Filing
  <2>3. CASE CatStep /\ UNCHANGED <<fileVars, mountVars, processVars, ddVars>>
    BY <2>3, CatOf DEF OneStep, Catting
  <2>4. CASE MountStep /\ UNCHANGED <<fileVars, catVars, processVars, ddVars>>
    BY <2>4, MountOf DEF OneStep, Mounting
  <2>5. CASE ProcessStep /\ UNCHANGED <<fileVars, catVars, mountVars, ddVars>>
    BY <2>5, ProcessOf DEF OneStep, Processing
  <2>6. CASE RunDd /\ UNCHANGED <<fileVars, catVars, mountVars, processVars>>
    BY <1>1, <2>6, DdOf DEF OneStep, Copies
  <2> QED
    BY <1>3, <2>1, <2>2, <2>3, <2>4, <2>5, <2>6 DEF Step
<1>4. CASE Environment
  <2>1. CASE Others /\ UNCHANGED <<catVars, mountVars, processVars, ddVars>>
    <3>1. place = "walk" /\ UNCHANGED toolVars
      BY <2>1 DEF Others, OthersPut, OthersMove, Meddle
    <3> QED
      BY <2>1, <3>1 DEF OneStep, Disturbing
  <2>2. CASE (\E p \in Pids : ProcessChanges(p)) /\ UNCHANGED <<fileVars, catVars, mountVars, ddVars>>
    <3>1. place \in {"main", "ps"} /\ tool \in {"ps", "kill"} /\ UNCHANGED toolVars
      BY <2>2 DEF ProcessChanges
    <3> QED
      BY <2>2, <3>1 DEF OneStep, Changing
  <2>3. CASE Signal /\ UNCHANGED <<fileVars, catVars, mountVars, processVars>>
    BY <1>1, <2>3, DdOf DEF OneStep, Copies
  <2> QED
    BY <1>4, <2>1, <2>2, <2>3 DEF Environment
<1> QED
  BY <1>2, <1>3, <1>4 DEF Next

LEMMA OfKeepsPlaceInv ==
  ASSUME PlaceInv, NEW names, NEW places, Of(names, places),
         \/ names = FileNames /\ places = {"walk"} /\ UNCHANGED opts
         \/ names = {"cat"} /\ places = {"cat"}
         \/ names = {"mount"} /\ places = {"mounting"}
         \/ names = {"ps", "kill"} /\ places = {"ps"} /\ UNCHANGED opts
         \/ names = {"dd"} /\ places = {} /\ UNCHANGED <<opts, args>>
  PROVE  PlaceInv'
<1>1. ToolTypeOK'
  <2>1. direct' \in BOOLEAN
    BY Zenon DEF Of, PlaceInv, ToolTypeOK
  <2> QED
    BY <2>1 DEF PlaceInv, ToolTypeOK, Of
<1>2. /\ place' \in {"find", "main"} => said' = "nothing"
      /\ place' # "find"
      /\ place' = "main" /\ tool' # "kill" => code' = "ok"
      /\ place' # "done" => code' \in {"ok", "failed"}
  BY DEF PlaceInv, Of
<1>3. /\ place' = "walk" => tool' \in FileNames
      /\ place' = "cat" => tool' = "cat"
      /\ place' = "ps" => tool' = "ps"
      /\ place' = "mounting" => tool' = "mount"
  BY DEF PlaceInv, Of
<1> QED
  BY <1>1, <1>2, <1>3 DEF PlaceInv

LEMMA NextPlaceInv ==
  ASSUME PlaceInv, OneStep
  PROVE  PlaceInv'
<1> USE DEF OneStep
<1>1. CASE Idle \/ Disturbing \/ Changing
  <2>1. UNCHANGED toolVars
    BY <1>1 DEF Idle, Disturbing, Changing
  <2>2. direct' \in BOOLEAN
    BY <2>1, Zenon DEF PlaceInv, ToolTypeOK, toolVars
  <2> QED
    BY <2>1, <2>2 DEF PlaceInv, ToolTypeOK, toolVars
<1>2. CASE Starting
  <2>1. direct' \in BOOLEAN
    BY <1>2, Zenon DEF PlaceInv, ToolTypeOK, Starting, Starts
  <2>2. ToolTypeOK'
    BY <2>1, <1>2 DEF PlaceInv, ToolTypeOK, Starting, Starts
  <2> QED
    BY <2>2, <1>2 DEF PlaceInv, Starting, Starts
<1>3. CASE Filing
  BY <1>3, OfKeepsPlaceInv DEF Filing
<1>4. CASE Catting
  BY <1>4, OfKeepsPlaceInv DEF Catting
<1>5. CASE Mounting
  BY <1>5, OfKeepsPlaceInv DEF Mounting
<1>6. CASE Processing
  BY <1>6, OfKeepsPlaceInv DEF Processing
<1>7. CASE Copies
  BY <1>7, OfKeepsPlaceInv DEF Copies
<1> QED
  BY <1>1, <1>2, <1>3, <1>4, <1>5, <1>6, <1>7

LEMMA InitPlaceInv ==
  ASSUME Init
  PROVE  PlaceInv
BY DEF Init, ToolInit, PlaceInv, ToolTypeOK
-----------------------------------------------------------------------------
(* mount.  Before it begins nothing was mounted and no error is known; a   *)
(* read-only mount was asked for or comes after EACCES, and so does the    *)
(* flag, which then stays; without an error, types are left to try or the  *)
(* last one was mounted.                                                   *)
MountTypes == Types \cup {"none"}

MountInv ==
  /\ types \in Seq(MountTypes) /\ mounts \in Seq(MountTypes \X {"rw", "ro"})
  /\ place = "find" => flags = {}
  /\ place \in {"find", "main"} => mounts = <<>> /\ error = "nothing"
  /\ "rdonly" \in flags => "ro" \in opts \/ error # "nothing"
  /\ \A k \in 1 .. Len(mounts) : mounts[k][2] = "ro" => "ro" \in opts \/ error # "nothing"
  /\ \A k \in 1 .. Len(mounts) - 1 : mounts[k][2] = "ro" => mounts[k + 1][2] = "ro"
  /\ mounts # <<>> /\ mounts[Len(mounts)][2] = "ro" => "rdonly" \in flags
  /\ place = "mounting" /\ error = "nothing" => types # <<>> \/ (mounts # <<>> /\ result = "ok")
  /\ MountHonest

LEMMA InitMountInv ==
  ASSUME Init
  PROVE  MountInv
BY DEF Init, ToolInit, MountInit, MountInv, MountHonest

(* What a sequence is after one more element.                              *)
LEMMA Appended ==
  ASSUME NEW S, NEW s \in Seq(S), NEW x \in S
  PROVE  /\ Append(s, x) \in Seq(S) /\ Append(s, x) # <<>>
         /\ Len(Append(s, x)) = Len(s) + 1 /\ Len(s) \in Nat
         /\ Append(s, x)[Len(s) + 1] = x
         /\ \A k \in 1 .. Len(s) : Append(s, x)[k] = s[k]
BY AppendProperties

LEMMA MountsKeepsMountInv ==
  ASSUME PlaceInv, MountInv, Mounts
  PROVE  MountInv'
<1> DEFINE x == <<Head(types), IF "rdonly" \in flags THEN "ro" ELSE "rw">>
           last == Len(mounts)
<1>1. /\ place = "mounting" /\ types # <<>> /\ mounts' = Append(mounts, x) /\ types' = Tail(types)
      /\ result' = "ok" /\ UNCHANGED <<place, direct, tool, opts, said, code, flags, error>>
  BY DEF Mounts, Tries, toolVars
<1>2. types \in Seq(MountTypes) /\ mounts \in Seq(MountTypes \X {"rw", "ro"})
  BY DEF MountInv
<1>3. x \in MountTypes \X {"rw", "ro"} /\ types' \in Seq(MountTypes)
  BY <1>1, <1>2, HeadTailProperties
<1>4. x[2] = "ro" <=> "rdonly" \in flags
  OBVIOUS
<1> HIDE DEF x
<1>5. /\ mounts' \in Seq(MountTypes \X {"rw", "ro"}) /\ mounts' # <<>>
      /\ Len(mounts') = last + 1 /\ last \in Nat /\ mounts'[last + 1] = x
      /\ \A k \in 1 .. last : mounts'[k] = mounts[k]
  BY <1>1, <1>2, <1>3, Appended
<1>6. /\ \A k \in 1 .. last : mounts[k][2] = "ro" => "ro" \in opts \/ error # "nothing"
      /\ \A k \in 1 .. last - 1 : mounts[k][2] = "ro" => mounts[k + 1][2] = "ro"
      /\ "rdonly" \in flags => "ro" \in opts \/ error # "nothing"
      /\ mounts # <<>> /\ mounts[last][2] = "ro" => "rdonly" \in flags
  BY DEF MountInv
<1>7. \A k \in 1 .. Len(mounts') : mounts'[k][2] = "ro" => "ro" \in opts' \/ error' # "nothing"
  <2> TAKE k \in 1 .. Len(mounts')
  <2>1. k \in 1 .. last \/ k = last + 1
    BY <1>5
  <2> QED
    BY <2>1, <1>1, <1>4, <1>5, <1>6
<1>8. \A k \in 1 .. Len(mounts') - 1 : mounts'[k][2] = "ro" => mounts'[k + 1][2] = "ro"
  <2> TAKE k \in 1 .. Len(mounts') - 1
  <2>1. CASE k \in 1 .. last - 1
    <3>1. k \in 1 .. last /\ k + 1 \in 1 .. last
      BY <2>1, <1>5
    <3> QED
      BY <2>1, <3>1, <1>5, <1>6
  <2>2. CASE k = last
    <3>1. last \in 1 .. last /\ mounts # <<>>
      BY <2>2, <1>5, <1>2
    <3> QED
      BY <2>2, <3>1, <1>4, <1>5, <1>6
  <2> QED
    BY <2>1, <2>2, <1>5
<1>9. mounts'[Len(mounts')][2] = "ro" => "rdonly" \in flags'
  BY <1>1, <1>4, <1>5
<1> HIDE DEF last
<1>10. "rdonly" \in flags' => "ro" \in opts' \/ error' # "nothing"
  BY <1>1, <1>6
<1>11. place' = "mounting" /\ MountHonest'
  BY <1>1 DEF MountHonest
<1> QED
  BY <1>1, <1>3, <1>5, <1>7, <1>8, <1>9, <1>10, <1>11 DEF MountInv

(* The steps that leave what was mounted as it is.                         *)
LEMMA SameMountsKeepsMountInv ==
  ASSUME PlaceInv, MountInv,
         UNCHANGED mounts, types' \in Seq(MountTypes),
         place' # "find", place' = "main" => UNCHANGED <<place, error>>,
         opts \subseteq opts' \/ (place = "find" /\ UNCHANGED flags),
         error' = error \/ error' # "nothing",
         "rdonly" \in flags' => "rdonly" \in flags \/ "ro" \in opts' \/ error' # "nothing",
         "rdonly" \in flags => "rdonly" \in flags' \/ mounts = <<>>,
         place' = "mounting" /\ error' = "nothing" => types' # <<>> \/ (mounts' # <<>> /\ result' = "ok"),
         MountHonest'
  PROVE  MountInv'
<1>1. "rdonly" \in flags => "ro" \in opts \/ error # "nothing"
  BY DEF MountInv
<1>2. "rdonly" \in flags' => "ro" \in opts' \/ error' # "nothing"
  BY <1>1 DEF MountInv
<1>3. \A k \in 1 .. Len(mounts') : mounts'[k][2] = "ro" => "ro" \in opts' \/ error' # "nothing"
  <2>1. CASE opts \subseteq opts'
    BY <2>1 DEF MountInv
  <2>2. CASE place = "find"
    <3>1. mounts' = <<>>
      BY <2>2 DEF MountInv
    <3> QED
      BY <3>1
  <2> QED
    BY <2>1, <2>2
<1>4. place' = "main" => mounts' = <<>> /\ error' = "nothing"
  BY DEF MountInv
<1>5. mounts' # <<>> /\ mounts'[Len(mounts')][2] = "ro" => "rdonly" \in flags'
  BY DEF MountInv
<1>6. \A k \in 1 .. Len(mounts') - 1 : mounts'[k][2] = "ro" => mounts'[k + 1][2] = "ro"
  BY DEF MountInv
<1> QED
  BY <1>2, <1>3, <1>4, <1>5, <1>6 DEF MountInv

LEMMA MountingKeepsMountInv ==
  ASSUME PlaceInv, MountInv, Mounting
  PROVE  MountInv'
<1>0. /\ types \in Seq(MountTypes)
      /\ place \in {"find", "main"} => mounts = <<>> /\ error = "nothing"
      /\ place = "mounting" /\ error = "nothing" => types # <<>> \/ (mounts # <<>> /\ result = "ok")
  BY DEF MountInv
<1>1. CASE PrintMounts \/ MountUsage
  <2>1. UNCHANGED <<direct, opts, mountVars>> /\ place' = "done" /\ MountHonest'
    BY <1>1 DEF PrintMounts, MountUsage, Finish, MountHonest
  <2> QED
    BY <2>1, <1>0, SameMountsKeepsMountInv DEF mountVars
<1>2. CASE MountOption
  <2>1. PICK o \in (Kinds \cup {"nobind", "ro", "rw", "loop"}) \ opts : Option(o) /\ opts' = opts \cup {o}
    BY <1>2 DEF MountOption
  <2>2. place = "main" /\ UNCHANGED <<place, types, error, mounts, result>> /\ MountHonest'
    BY <1>2 DEF MountOption, MountHonest
  <2>3. "rdonly" \in flags' => "rdonly" \in flags \/ "ro" \in opts'
    BY <2>1 DEF Option, Kinds
  <2> QED
    BY <2>1, <2>2, <2>3, <1>0, SameMountsKeepsMountInv
<1>3. CASE MountBegins
  <2>1. /\ place = "main" /\ place' = "mounting"
        /\ UNCHANGED <<opts, flags, error, mounts, result>> /\ MountHonest'
    BY <1>3 DEF MountBegins, MountHonest
  <2>2. types' \in Seq(MountTypes) /\ types' # <<>>
    <3>1. CASE types' = <<"none">>
      BY <3>1 DEF MountTypes
    <3>2. CASE \E t \in Types : types' = <<t>>
      BY <3>2 DEF MountTypes
    <3>3. CASE \E t, u \in Types : types' = <<t, u>>
      BY <3>3 DEF MountTypes
    <3> QED
      BY <1>3, <3>1, <3>2, <3>3 DEF MountBegins, TypeLists
  <2> QED
    BY <2>1, <2>2, <1>0, SameMountsKeepsMountInv
<1>4. CASE Attach \/ AttachFails
  <2>1. /\ place = "mounting" /\ place' \in {"mounting", "done"}
        /\ UNCHANGED <<opts, flags, types, error, mounts, result>> /\ MountHonest'
    BY <1>4 DEF Attach, AttachFails, Finish, MountHonest, toolVars, mountVars
  <2> QED
    BY <2>1, <1>0, SameMountsKeepsMountInv
<1>5. CASE Mounts
  BY <1>5, MountsKeepsMountInv
<1>6. CASE NextType \/ MountFails
  <2>1. /\ place = "mounting" /\ place' = "mounting" /\ error' # "nothing"
        /\ UNCHANGED <<opts, flags, mounts>> /\ MountHonest' /\ types # <<>>
        /\ types' \in {Tail(types), <<>>}
    BY <1>6 DEF NextType, MountFails, Tries, MountHonest, toolVars
  <2>2. types' \in Seq(MountTypes)
    <3>1. Tail(types) \in Seq(MountTypes)
      BY <2>1, <1>0, HeadTailProperties
    <3>2. <<>> \in Seq(MountTypes)
      OBVIOUS
    <3> QED
      BY <2>1, <3>1, <3>2
  <2> QED
    BY <2>1, <2>2, SameMountsKeepsMountInv
<1>7. CASE ReadOnly
  <2>1. /\ place = "mounting" /\ place' = "mounting" /\ error' # "nothing" /\ flags' = flags \cup {"rdonly"}
        /\ UNCHANGED <<opts, types, mounts>> /\ MountHonest'
    BY <1>7 DEF ReadOnly, Tries, MountHonest, toolVars
  <2> QED
    BY <2>1, <1>0, SameMountsKeepsMountInv
<1>8. CASE MountEnds
  <2>1. place = "mounting" /\ types = <<>> /\ place' = "done" /\ UNCHANGED <<direct, opts, mountVars>>
    BY <1>8 DEF MountEnds, Finish
  <2>2. MountHonest'
    <3>1. error # "nothing" => said' \in {"nothing", "255"} /\ code' = "failed"
      BY <1>8 DEF MountEnds, Finish
    <3> QED
      BY <3>1, <2>1, <1>0 DEF MountHonest, mountVars
  <2> QED
    BY <2>1, <2>2, <1>0, SameMountsKeepsMountInv DEF mountVars
<1> QED
  BY <1>1, <1>2, <1>3, <1>4, <1>5, <1>6, <1>7, <1>8 DEF Mounting, MountStep

LEMMA NextMountInv ==
  ASSUME PlaceInv, MountInv, OneStep
  PROVE  MountInv'
<1>1. CASE Mounting
  BY <1>1, MountingKeepsMountInv
<1>2. CASE Starting
  <2>1. /\ UNCHANGED <<flags, types, error, mounts, result, direct>> /\ place = "find"
        /\ place' \in {"main", "done"}
    BY <1>2 DEF Starting, Starts, mountVars
  <2>2. flags = {} /\ mounts = <<>> /\ error = "nothing" /\ types \in Seq(MountTypes)
    BY <2>1 DEF MountInv
  <2>3. MountHonest'
    BY <2>1, <1>2 DEF Starting, Starts, MountHonest
  <2> QED
    BY <2>1, <2>2, <2>3 DEF MountInv
<1>3. CASE UNCHANGED <<toolVars, mountVars>>
  BY <1>3 DEF MountInv, MountHonest, toolVars, mountVars
<1>4. ASSUME UNCHANGED <<opts, mountVars>>, NEW names, NEW places, Of(names, places),
             "mount" \notin names, "mounting" \notin places, "find" \notin places
      PROVE  MountInv'
  <2>1. /\ place' \notin {"find", "mounting"}
        /\ place' = "main" => place = "main"
        /\ UNCHANGED <<flags, types, error, mounts, result>> /\ tool' # "mount"
    BY <1>4 DEF Of, mountVars
  <2>2. MountHonest'
    BY <2>1 DEF MountHonest
  <2>3. /\ types' \in Seq(MountTypes) /\ mounts' \in Seq(MountTypes \X {"rw", "ro"})
        /\ place' \in {"find", "main"} => mounts' = <<>> /\ error' = "nothing"
    BY <2>1 DEF MountInv
  <2>4. /\ "rdonly" \in flags' => "ro" \in opts' \/ error' # "nothing"
        /\ \A k \in 1 .. Len(mounts') : mounts'[k][2] = "ro" => "ro" \in opts' \/ error' # "nothing"
        /\ \A k \in 1 .. Len(mounts') - 1 : mounts'[k][2] = "ro" => mounts'[k + 1][2] = "ro"
        /\ mounts' # <<>> /\ mounts'[Len(mounts')][2] = "ro" => "rdonly" \in flags'
    BY <1>4, <2>1 DEF MountInv
  <2> QED
    BY <2>1, <2>2, <2>3, <2>4 DEF MountInv
<1> QED
  <2>1. CASE Idle \/ Disturbing \/ Changing
    BY <2>1, <1>3 DEF Idle, Disturbing, Changing
  <2>2. CASE Filing
    BY <2>2, <1>4 DEF Filing, FileNames
  <2>3. CASE Catting
    BY <2>3, <1>4 DEF Catting
  <2>4. CASE Processing
    BY <2>4, <1>4 DEF Processing
  <2>5. CASE Copies
    BY <2>5, <1>4 DEF Copies
  <2> QED
    BY <1>1, <1>2, <2>1, <2>2, <2>3, <2>4, <2>5 DEF OneStep

(* A read-only mount is told.                                              *)
LEMMA MountInvImplies ==
  ASSUME MountInv
  PROVE  MountHonest /\ ReadOnlyTold
BY DEF MountInv, ReadOnlyTold
-----------------------------------------------------------------------------
(* ps and kill.  A generation that ps has seen of a pid is not later than  *)
(* the pid's, and is the pid's if no process started or ended since the    *)
(* command began; a generation of 2 or more needs a change.                *)
Seen(p, x) ==
  /\ x \in Nat \cup {-1} /\ x <= gen[p]
  /\ x # gen[p] => changes > 0
  /\ born[p] % 2 = 1 /\ gen[p] = born[p] => x = gen[p]

(* What a line that was printed says.                                      *)
Line(p, x, y, z) ==
  /\ x \in Nat \cup {-1} /\ y \in Nat \cup {-1} /\ z \in Nat
  /\ z % 2 = 1 /\ x <= z /\ y <= z
  /\ x # z \/ y # z => changes > 0

Generations ==
  /\ gen \in [Pids -> Nat] /\ born \in [Pids -> Nat]
  /\ changes \in 0 .. MaxChanges /\ unread \subseteq Pids
  /\ \A p \in Pids : 1 <= gen[p] /\ gen[p] <= 1 + changes /\ born[p] <= gen[p]

RowSeen ==
  \/ row = <<>>
  \/ \E p \in Pids, x \in Nat \cup {-1} : row = <<p, x>> /\ Seen(p, x)
  \/ \E p \in Pids, x \in Nat \cup {-1}, y \in Nat \cup {-1} : row = <<p, x, y>> /\ Seen(p, x) /\ Seen(p, y)

LinesSeen ==
  \A l \in lines : \E p \in Pids, x \in Nat \cup {-1}, y \in Nat \cup {-1}, z \in Nat :
                     l = <<p, x, y, z>> /\ Line(p, x, y, z)

(* A wanted process that is there throughout is in the rest of /proc, on   *)
(* the line that is being made, or on a line that was printed.             *)
PsLeft ==
  place = "ps" \/ (place = "done" /\ tool = "ps" /\ said = "text") =>
    \A p \in Wanted \cap Pids :
      born[p] % 2 = 1 /\ gen[p] = born[p] =>
        \/ place = "ps" /\ p \in unread
        \/ place = "ps" /\ row # <<>> /\ row[1] = p
        \/ <<p, gen[p], gen[p], gen[p]>> \in lines

(* While no operand of kill has failed, each one that was tried was hit.   *)
KillHits ==
  /\ place = "find" => tried = <<>>
  /\ place = "main" /\ tool = "kill" => args \in Seq(Pids \cup {0})
  /\ tried \in Seq(Pids \cup {0})
  /\ tool = "kill" /\ code = "ok" =>
       \A k \in 1 .. Len(tried) : \E g \in 1 .. 2 * MaxChanges + 1 : <<tried[k], g>> \in hit
  /\ place = "done" /\ tool = "kill" /\ code \in {"ok", "failed"} =>
       /\ args = <<>>
       /\ said = "0" => code = "ok"

ProcessInv ==
  /\ Generations /\ RowSeen /\ LinesSeen /\ PsLeft /\ KillHits
  /\ place \in {"find", "main"} => row = <<>> /\ lines = {}

LEMMA InitProcessInv ==
  ASSUME Init
  PROVE  ProcessInv
<1>1. /\ gen = [p \in Pids |-> 1] /\ born = gen /\ changes = 0 /\ unread = {} /\ row = <<>> /\ lines = {}
      /\ tried = <<>> /\ place = "find"
  BY DEF Init, ToolInit, ProcessesInit
<1>2. Generations
  BY <1>1, PidsAssumption DEF Generations
<1> QED
  BY <1>1, <1>2 DEF RowSeen, LinesSeen, PsLeft, KillHits, ProcessInv

LEMMA ProcessInvImplies ==
  ASSUME ProcessInv
  PROVE  ProcessesTypeOK /\ PsComplete /\ KillHonest
<1>1. \A l \in lines : /\ l[1] \in Pids /\ \A k \in 2 .. 4 : l[k] \in Nat \cup {-1}
                       /\ l[4] % 2 = 1
                       /\ l[2] # l[4] \/ l[3] # l[4] => changes > 0
                       /\ \A k \in 2 .. 3 : l[k] <= l[4]
  <2> TAKE l \in lines
  <2>1. PICK p \in Pids, x \in Nat \cup {-1}, y \in Nat \cup {-1}, z \in Nat :
               l = <<p, x, y, z>> /\ Line(p, x, y, z)
    BY DEF ProcessInv, LinesSeen
  <2>2. l[1] = p /\ l[2] = x /\ l[3] = y /\ l[4] = z
    BY <2>1
  <2>3. \A k \in 2 .. 4 : k = 2 \/ k = 3 \/ k = 4
    OBVIOUS
  <2>4. \A k \in 2 .. 3 : k = 2 \/ k = 3
    OBVIOUS
  <2> QED
    BY <2>1, <2>2, <2>3, <2>4 DEF Line
<1>2. ProcessesTypeOK
  BY <1>1 DEF ProcessInv, Generations, ProcessesTypeOK
<1>3. PsComplete
  BY <1>1 DEF ProcessInv, PsLeft, PsComplete
<1>4. KillHonest
  BY DEF ProcessInv, KillHits, KillHonest
<1> QED
  BY <1>2, <1>3, <1>4

(* What ps sees now.                                                       *)
LEMMA SeenNow ==
  ASSUME Generations, NEW p \in Pids
  PROVE  Seen(p, IF Alive(p) THEN gen[p] ELSE -1)
<1>1. gen[p] \in Nat /\ changes \in Nat /\ 1 <= gen[p] /\ gen[p] <= 1 + changes
  BY PidsAssumption DEF Generations
<1>2. ~Alive(p) => changes > 0
  <2>1. changes = 0 => gen[p] = 1
    BY <1>1
  <2>2. 1 % 2 = 1
    OBVIOUS
  <2> QED
    BY <1>1, <2>1, <2>2 DEF Alive
<1> QED
  BY <1>1, <1>2 DEF Seen, Alive

(* One more element of a tuple.                                            *)
LEMMA AppendToPair ==
  ASSUME NEW S, NEW u \in S, NEW v \in S, NEW w \in S
  PROVE  Append(<<u, v>>, w) = <<u, v, w>>
<1> DEFINE pair == <<u, v>>
           s == Append(pair, w)
<1>1. pair \in Seq(S) /\ Len(pair) = 2 /\ pair[1] = u /\ pair[2] = v
  OBVIOUS
<1> HIDE DEF pair, s
<1>2. s = Append(pair, w)
  BY DEF s
<1>3. s \in Seq(S) /\ Len(s) = 3 /\ s[1] = u /\ s[2] = v /\ s[3] = w
  BY <1>1, <1>2, AppendProperties
<1>4. <<u, v, w>> \in Seq(S) /\ Len(<<u, v, w>>) = 3
  OBVIOUS
<1>5. \A i \in 1 .. 3 : s[i] = <<u, v, w>>[i]
  <2>1. \A i \in 1 .. 3 : i = 1 \/ i = 2 \/ i = 3
    OBVIOUS
  <2> QED
    BY <1>3, <2>1
<1> QED
  BY <1>3, <1>4, <1>5, SeqEqual DEF s, pair

LEMMA AppendToTriple ==
  ASSUME NEW S, NEW u \in S, NEW v \in S, NEW w \in S, NEW x \in S
  PROVE  Append(<<u, v, w>>, x) = <<u, v, w, x>>
<1> DEFINE triple == <<u, v, w>>
           s == Append(triple, x)
<1>1. triple \in Seq(S) /\ Len(triple) = 3 /\ triple[1] = u /\ triple[2] = v /\ triple[3] = w
  OBVIOUS
<1> HIDE DEF triple, s
<1>2. s = Append(triple, x)
  BY DEF s
<1>3. s \in Seq(S) /\ Len(s) = 4 /\ s[1] = u /\ s[2] = v /\ s[3] = w /\ s[4] = x
  BY <1>1, <1>2, AppendProperties
<1>4. <<u, v, w, x>> \in Seq(S) /\ Len(<<u, v, w, x>>) = 4
  OBVIOUS
<1>5. \A i \in 1 .. 4 : s[i] = <<u, v, w, x>>[i]
  <2>1. \A i \in 1 .. 4 : i = 1 \/ i = 2 \/ i = 3 \/ i = 4
    OBVIOUS
  <2> QED
    BY <1>3, <2>1
<1> QED
  BY <1>3, <1>4, <1>5, SeqEqual DEF s, triple

LEMMA PsBeginsKeepsProcessInv ==
  ASSUME PlaceInv, ProcessInv, PsBegins
  PROVE  ProcessInv'
<1>1. /\ place = "main" /\ tool = "ps" /\ place' \in {"ps", "done"} /\ row = <<>> /\ lines = {}
      /\ UNCHANGED <<direct, tool, opts, args, gen, changes, row, lines, tried, hit>>
      /\ Generations /\ KillHits
  BY DEF PsBegins, Finish, ProcessInv
<1>2. CASE place' = "ps"
  <2>1. unread' = {p \in Pids : Alive(p)} /\ born' = gen
    BY <1>1, <1>2 DEF PsBegins, Finish
  <2>2. Generations'
    <3>1. \A p \in Pids : gen[p] \in Nat
      BY <1>1 DEF Generations
    <3> QED
      BY <1>1, <2>1, <3>1 DEF Generations
  <2>3. PsLeft'
    BY <1>1, <1>2, <2>1 DEF PsLeft, Wanted, Alive
  <2> QED
    BY <1>1, <1>2, <2>2, <2>3 DEF ProcessInv, RowSeen, LinesSeen, KillHits
<1>3. CASE place' # "ps"
  <2>1. unread' = unread /\ born' = born /\ place' = "done" /\ said' = "nothing"
    BY <1>1, <1>3 DEF PsBegins, Finish
  <2>2. Generations'
    BY <1>1, <2>1 DEF Generations
  <2>3. PsLeft'
    BY <1>1, <2>1 DEF PsLeft
  <2> QED
    BY <1>1, <1>3, <2>1, <2>2, <2>3 DEF ProcessInv, RowSeen, LinesSeen, KillHits
<1> QED
  BY <1>2, <1>3

(* In the middle of ps, what kill has done and the generations are left.   *)
LEMMA InPs ==
  ASSUME PlaceInv, ProcessInv, place = "ps", UNCHANGED <<toolVars, gen, changes, born, tried, hit>>,
         unread' \subseteq unread, RowSeen', LinesSeen', PsLeft'
  PROVE  ProcessInv'
<1>1. place' = "ps" /\ tool' = "ps"
  BY DEF toolVars, PlaceInv
<1>2. Generations'
  BY DEF ProcessInv, Generations
<1>3. KillHits'
  BY <1>1 DEF ProcessInv, KillHits
<1> QED
  BY <1>1, <1>2, <1>3 DEF ProcessInv

LEMMA PsReadsKeepsProcessInv ==
  ASSUME PlaceInv, ProcessInv, PsStat \/ PsCommand
  PROVE  ProcessInv'
<1>1. /\ place = "ps" /\ UNCHANGED <<toolVars, gen, changes, lines, born, tried, hit>>
      /\ place' = place /\ args' = args
  BY DEF PsStat, PsCommand, toolVars
<1>2. Generations /\ LinesSeen /\ PsLeft /\ RowSeen
  BY DEF ProcessInv
<1>3. LinesSeen'
  BY <1>1, <1>2 DEF LinesSeen, Line
<1>4. CASE PsStat
  <2>1. PICK p \in unread : /\ row = <<>> /\ unread' = unread \ {p}
                            /\ row' = IF p \in Wanted THEN <<p, IF Alive(p) THEN gen[p] ELSE -1>> ELSE <<>>
    BY <1>4 DEF PsStat
  <2>2. p \in Pids /\ Seen(p, IF Alive(p) THEN gen[p] ELSE -1)
    BY <1>2, SeenNow DEF Generations
  <2> DEFINE x == IF Alive(p) THEN gen[p] ELSE -1
  <2>3. x \in Nat \cup {-1} /\ (row' = IF p \in Wanted THEN <<p, x>> ELSE <<>>)
    BY <2>1, <2>2 DEF Seen
  <2>4. Seen(p, x)
    BY <2>2
  <2> HIDE DEF x
  <2>5. RowSeen'
    BY <1>1, <2>2, <2>3, <2>4 DEF RowSeen, Seen
  <2>6. PsLeft'
    <3>1. row' # <<>> => row'[1] = p
      BY <2>3
    <3>2. p \in Wanted => row' # <<>>
      BY <2>3
    <3> QED
      BY <1>1, <1>2, <2>1, <3>1, <3>2 DEF PsLeft, Wanted
  <2> QED
    BY <1>1, <1>3, <2>1, <2>5, <2>6, InPs
<1>5. CASE PsCommand
  <2>1. Len(row) = 2 /\ row' = Append(row, IF Alive(row[1]) THEN gen[row[1]] ELSE -1) /\ unread' = unread
    BY <1>5 DEF PsCommand
  <2>2. PICK p \in Pids, x \in Nat \cup {-1} : row = <<p, x>> /\ Seen(p, x)
    <3>1. Len(row) = 2
      BY <2>1
    <3>2. row # <<>>
      BY <3>1
    <3>3. ~\E p, x, y : row = <<p, x, y>>
      BY <3>1
    <3> QED
      BY <1>2, <3>2, <3>3 DEF RowSeen
  <2>3. Seen(p, IF Alive(p) THEN gen[p] ELSE -1)
    BY <1>2, SeenNow
  <2> DEFINE y == IF Alive(p) THEN gen[p] ELSE -1
  <2>4. row' = <<p, x, y>> /\ row[1] = p
    <3>1. row[1] = p
      BY <2>2
    <3>2. p \in Int /\ x \in Int /\ y \in Int
      BY <2>2, <2>3, PidsAssumption DEF Seen
    <3>3. Append(<<p, x>>, y) = <<p, x, y>>
      BY <3>2, AppendToPair
    <3> QED
      BY <2>1, <2>2, <3>1, <3>3
  <2>5. y \in Nat \cup {-1} /\ Seen(p, y)
    BY <2>3 DEF Seen
  <2> HIDE DEF y
  <2>6. RowSeen'
    BY <1>1, <2>2, <2>4, <2>5 DEF RowSeen, Seen
  <2>7. PsLeft'
    <3>1. row' # <<>> /\ row'[1] = p
      BY <2>4
    <3> QED
      BY <1>1, <1>2, <2>1, <2>4, <3>1 DEF PsLeft, Wanted
  <2> QED
    BY <1>1, <1>3, <2>1, <2>6, <2>7, InPs
<1> QED
  BY <1>4, <1>5

LEMMA PsPrintsKeepsProcessInv ==
  ASSUME PlaceInv, ProcessInv, PsPrints
  PROVE  ProcessInv'
<1>1. /\ place = "ps" /\ UNCHANGED <<toolVars, gen, changes, unread, born, tried, hit>>
      /\ place' = place /\ args' = args /\ Len(row) = 3 /\ row' = <<>>
      /\ lines' = IF Alive(row[1]) THEN lines \cup {Append(row, gen[row[1]])} ELSE lines
  BY DEF PsPrints, toolVars
<1>2. Generations /\ LinesSeen /\ PsLeft /\ RowSeen
  BY DEF ProcessInv
<1>3. PICK p \in Pids, x \in Nat \cup {-1}, y \in Nat \cup {-1} : row = <<p, x, y>> /\ Seen(p, x) /\ Seen(p, y)
  <2>1. row # <<>>
    BY <1>1
  <2>2. ~\E p, x : row = <<p, x>>
    BY <1>1
  <2> QED
    BY <1>2, <2>1, <2>2 DEF RowSeen
<1>4. gen[p] \in Nat /\ row[1] = p
  BY <1>2, <1>3 DEF Generations
<1>5. Append(row, gen[p]) = <<p, x, y, gen[p]>>
  <2>1. p \in Int /\ x \in Int /\ y \in Int /\ gen[p] \in Int
    BY <1>3, <1>4, PidsAssumption
  <2> QED
    BY <1>3, <2>1, AppendToTriple
<1>6. \A l \in lines' : l \in lines \/ (l = <<p, x, y, gen[p]>> /\ Line(p, x, y, gen[p]))
  <2>1. Alive(p) => Line(p, x, y, gen[p])
    BY <1>3, <1>4 DEF Alive, Line, Seen
  <2> QED
    BY <1>1, <1>4, <1>5, <2>1
<1>7. LinesSeen'
  <2>1. \A q, u, v, w : Line(q, u, v, w) => Line(q, u, v, w)'
    BY <1>1 DEF Line
  <2> SUFFICES ASSUME NEW l \in lines'
               PROVE  \E q \in Pids, u \in Nat \cup {-1}, v \in Nat \cup {-1}, w \in Nat :
                        l = <<q, u, v, w>> /\ Line(q, u, v, w)'
    BY DEF LinesSeen
  <2>2. CASE l \in lines
    BY <1>2, <2>1, <2>2 DEF LinesSeen
  <2>3. CASE l = <<p, x, y, gen[p]>> /\ Line(p, x, y, gen[p])
    <3>1. gen[p] \in Nat /\ Line(p, x, y, gen[p])
      BY <1>4, <2>3
    <3> DEFINE w == gen[p]
    <3>2. w \in Nat /\ l = <<p, x, y, w>> /\ Line(p, x, y, w)
      BY <3>1, <2>3
    <3> HIDE DEF w
    <3>3. Line(p, x, y, w) => changes' = changes
      BY <1>1
    <3> QED
      BY <1>1, <3>2 DEF Line
  <2> QED
    BY <1>6, <2>2, <2>3
<1>8. PsLeft'
  <2> SUFFICES ASSUME NEW q \in Wanted \cap Pids, born[q] % 2 = 1, gen[q] = born[q]
               PROVE  q \in unread \/ <<q, gen[q], gen[q], gen[q]>> \in lines'
    BY <1>1 DEF PsLeft, Wanted
  <2>1. \/ q \in unread \/ (row # <<>> /\ row[1] = q) \/ <<q, gen[q], gen[q], gen[q]>> \in lines
    BY <1>1, <1>2 DEF PsLeft
  <2>2. lines \subseteq lines'
    BY <1>1
  <2>3. CASE row[1] = q
    <3>1. q = p /\ x = gen[p] /\ y = gen[p] /\ Alive(p)
      BY <1>3, <1>4, <2>3 DEF Seen, Alive
    <3>2. <<p, x, y, gen[p]>> \in lines'
      BY <1>1, <1>4, <1>5, <3>1
    <3> QED
      BY <3>1, <3>2
  <2> QED
    BY <2>1, <2>2, <2>3
<1>9. RowSeen'
  BY <1>1 DEF RowSeen
<1> QED
  BY <1>1, <1>7, <1>8, <1>9, InPs

LEMMA PsEndsKeepsProcessInv ==
  ASSUME PlaceInv, ProcessInv, PsEnds
  PROVE  ProcessInv'
<1>1. /\ place = "ps" /\ place' = "done" /\ unread = {} /\ row = <<>>
      /\ UNCHANGED <<tool, args, gen, changes, unread, row, lines, born, tried, hit>>
  BY DEF PsEnds, Finish, processVars
<1>2. tool' = "ps"
  BY <1>1 DEF PlaceInv
<1>3. Generations' /\ RowSeen' /\ LinesSeen'
  BY <1>1 DEF ProcessInv, Generations, RowSeen, Seen, LinesSeen, Line
<1>4. PsLeft'
  BY <1>1 DEF ProcessInv, PsLeft, Wanted
<1>5. KillHits'
  BY <1>1, <1>2 DEF ProcessInv, KillHits
<1> QED
  BY <1>1, <1>3, <1>4, <1>5 DEF ProcessInv

(* kill's steps leave what ps has seen alone.                              *)
LEMMA KillsKeepsProcessInv ==
  ASSUME PlaceInv, ProcessInv, Kills
  PROVE  ProcessInv'
<1> DEFINE p == Head(args)
           last == Len(tried)
<1>1. /\ place = "main" /\ tool = "kill" /\ args # <<>> /\ tool' = tool /\ args' = Tail(args)
      /\ tried' = Append(tried, p)
      /\ UNCHANGED <<gen, changes, unread, row, lines, born>>
      /\ place' \in {"main", "done"}
  BY DEF Kills, Finish
<1>2. Generations /\ KillHits /\ args \in Seq(Pids \cup {0}) /\ tried \in Seq(Pids \cup {0})
      /\ row = <<>> /\ lines = {}
  BY <1>1 DEF ProcessInv, KillHits
<1>3. p \in Pids \cup {0} /\ args' \in Seq(Pids \cup {0})
  BY <1>1, <1>2, HeadTailProperties
<1>4. CASE p = 0
  <2>1. place' = "done" /\ code' = "crash"
    BY <1>1, <1>4 DEF Kills, Finish
  <2>2. tried' \in Seq(Pids \cup {0})
    BY <1>1, <1>2, <1>3, AppendProperties
  <2>3. KillHits'
    BY <2>1, <2>2 DEF KillHits
  <2>4. Generations' /\ RowSeen' /\ LinesSeen' /\ PsLeft'
    BY <1>1, <1>2, <2>1 DEF Generations, RowSeen, LinesSeen, PsLeft
  <2> QED
    BY <2>1, <2>3, <2>4 DEF ProcessInv
<1>5. CASE p # 0
  <2>1. /\ (Alive(p) /\ hit' = hit \cup {<<p, gen[p]>>} /\ code' = code) \/ code' = "failed"
        /\ UNCHANGED <<place, said>>
    BY <1>5 DEF Kills
  <2>2. p \in Pids
    BY <1>3, <1>5
  <2>3. gen[p] \in 1 .. 2 * MaxChanges + 1
    <3>1. gen[p] \in Nat /\ changes \in 0 .. MaxChanges /\ MaxChanges \in Nat /\ 1 <= gen[p] /\ gen[p] <= 1 + changes
      BY <1>2, <2>2, PidsAssumption DEF Generations
    <3>2. \A i \in Nat, c \in Nat, m \in Nat : 1 <= i /\ i <= 1 + c /\ c <= m => i \in 1 .. 2 * m + 1
      OBVIOUS
    <3> QED
      BY <3>1, <3>2
  <2> HIDE DEF p
  <2>4. /\ tried' \in Seq(Pids \cup {0})
        /\ Len(tried') = last + 1 /\ last \in Nat /\ tried'[last + 1] = p
        /\ \A k \in 1 .. last : tried'[k] = tried[k]
    BY <1>1, <1>2, <1>3, Appended
  <2>5. code' = "ok" =>
          \A k \in 1 .. Len(tried') : \E g \in 1 .. 2 * MaxChanges + 1 : <<tried'[k], g>> \in hit'
    <3> SUFFICES ASSUME code' = "ok", NEW k \in 1 .. Len(tried')
                 PROVE  \E g \in 1 .. 2 * MaxChanges + 1 : <<tried'[k], g>> \in hit'
      OBVIOUS
    <3>1. code = "ok" /\ hit' = hit \cup {<<p, gen[p]>>}
      BY <2>1
    <3>2. CASE k \in 1 .. last
      <4>1. \E g \in 1 .. 2 * MaxChanges + 1 : <<tried[k], g>> \in hit
        BY <1>1, <1>2, <3>1, <3>2 DEF KillHits
      <4> QED
        BY <2>4, <3>1, <3>2, <4>1
    <3>3. CASE k = last + 1
      BY <2>3, <2>4, <3>1, <3>3
    <3>4. k \in 1 .. last \/ k = last + 1
      BY <2>4
    <3> QED
      BY <3>2, <3>3, <3>4
  <2>6. place' = "main" /\ tool' = "kill"
    BY <1>1, <2>1
  <2>7. KillHits'
    BY <1>3, <2>4, <2>5, <2>6 DEF KillHits
  <2>8. Generations' /\ RowSeen' /\ LinesSeen' /\ PsLeft'
    BY <1>1, <1>2, <2>6 DEF Generations, RowSeen, LinesSeen, PsLeft
  <2> QED
    BY <1>1, <1>2, <2>6, <2>7, <2>8 DEF ProcessInv
<1> QED
  BY <1>4, <1>5

LEMMA KillEndsKeepsProcessInv ==
  ASSUME PlaceInv, ProcessInv, KillEnds
  PROVE  ProcessInv'
<1>1. /\ place = "main" /\ tool = "kill" /\ args = <<>> /\ place' = "done"
      /\ UNCHANGED <<tool, args, gen, changes, unread, row, lines, born, tried, hit>>
      /\ code' = code \/ (code' = "failed" /\ said' = "nothing")
      /\ said' = "0" => code = "ok" /\ code' = "ok"
  BY DEF KillEnds, Finish, processVars
<1>2. Generations /\ KillHits /\ row = <<>> /\ lines = {}
  BY <1>1 DEF ProcessInv
<1>3. Generations' /\ RowSeen' /\ LinesSeen' /\ PsLeft'
  BY <1>1, <1>2 DEF Generations, RowSeen, LinesSeen, PsLeft
<1>4. KillHits'
  BY <1>1, <1>2 DEF KillHits
<1> QED
  BY <1>1, <1>3, <1>4 DEF ProcessInv

(* A process that starts or ends: its generation is not the one before.    *)
LEMMA ChangeKeepsProcessInv ==
  ASSUME PlaceInv, ProcessInv, NEW p \in Pids, ProcessChanges(p)
  PROVE  ProcessInv'
<1>1. /\ place \in {"main", "ps"} /\ changes < MaxChanges /\ changes' = changes + 1
      /\ gen' = [gen EXCEPT ![p] = @ + 1] /\ unread \subseteq unread' /\ unread' \subseteq unread \cup {p}
      /\ UNCHANGED <<toolVars, row, lines, born, tried, hit>>
  BY DEF ProcessChanges
<1>2. UNCHANGED <<place, tool, args, said, code>>
  BY <1>1 DEF toolVars
<1>3. Generations /\ RowSeen /\ LinesSeen /\ PsLeft /\ KillHits
  BY DEF ProcessInv
<1>4. \A q \in Pids : /\ gen[q] \in Nat /\ gen'[q] \in Nat /\ born[q] \in Nat
                      /\ gen'[q] = IF q = p THEN gen[q] + 1 ELSE gen[q]
                      /\ 1 <= gen[q] /\ gen[q] <= 1 + changes /\ born[q] <= gen[q]
  BY <1>1, <1>3 DEF Generations
<1>5. changes \in Nat /\ changes' \in Nat /\ MaxChanges \in Nat /\ changes' \in 0 .. MaxChanges /\ changes' > 0
  BY <1>1, <1>3, PidsAssumption DEF Generations
<1>6. Generations'
  <2>1. gen' \in [Pids -> Nat] /\ born' \in [Pids -> Nat] /\ unread' \subseteq Pids
    BY <1>1, <1>3, <1>4 DEF Generations
  <2>2. \A q \in Pids : 1 <= gen'[q] /\ gen'[q] <= 1 + changes' /\ born'[q] <= gen'[q]
    <3> TAKE q \in Pids
    <3>1. \A m, i, c, d \in Nat : /\ m = i \/ m = i + 1
                                  /\ 1 <= i /\ i <= 1 + c /\ d <= i
                                  => 1 <= m /\ m <= 1 + (c + 1) /\ d <= m
      OBVIOUS
    <3> QED
      BY <1>1, <1>4, <1>5, <3>1
  <2> QED
    BY <1>5, <2>1, <2>2 DEF Generations
<1>7. \A q \in Pids, x \in Nat \cup {-1} : Seen(q, x) => Seen(q, x)'
  <2> SUFFICES ASSUME NEW q \in Pids, NEW x \in Nat \cup {-1}, Seen(q, x)
               PROVE  /\ x <= gen'[q]
                      /\ x # gen'[q] => changes' > 0
                      /\ born'[q] % 2 = 1 /\ gen'[q] = born'[q] => x = gen'[q]
    BY DEF Seen
  <2>1. x <= gen'[q]
    BY <1>4 DEF Seen
  <2>2. gen'[q] = born'[q] => gen'[q] = gen[q] /\ gen[q] = born[q]
    BY <1>1, <1>4
  <2> QED
    BY <1>1, <1>5, <2>1, <2>2 DEF Seen
<1>8. RowSeen'
  <2>1. CASE row = <<>>
    BY <1>1, <2>1 DEF RowSeen
  <2>2. CASE \E q \in Pids, x \in Nat \cup {-1} : row = <<q, x>> /\ Seen(q, x)
    <3>1. PICK q \in Pids, x \in Nat \cup {-1} : row = <<q, x>> /\ Seen(q, x)
      BY <2>2
    <3>2. row' = <<q, x>> /\ Seen(q, x)'
      BY <1>1, <1>7, <3>1
    <3> QED
      BY <3>2 DEF RowSeen
  <2>3. CASE \E q \in Pids, x \in Nat \cup {-1}, y \in Nat \cup {-1} : row = <<q, x, y>> /\ Seen(q, x) /\ Seen(q, y)
    <3>1. PICK q \in Pids, x \in Nat \cup {-1}, y \in Nat \cup {-1} : row = <<q, x, y>> /\ Seen(q, x) /\ Seen(q, y)
      BY <2>3
    <3>2. row' = <<q, x, y>> /\ Seen(q, x)' /\ Seen(q, y)'
      BY <1>1, <1>7, <3>1
    <3> QED
      BY <3>2 DEF RowSeen
  <2> QED
    BY <1>3, <2>1, <2>2, <2>3 DEF RowSeen
<1>9. LinesSeen'
  <2>1. \A q, u, v, w : Line(q, u, v, w) => Line(q, u, v, w)'
    BY <1>5 DEF Line
  <2> QED
    BY <1>1, <1>3, <2>1 DEF LinesSeen
<1>10. PsLeft'
  <2>1. \A q \in Pids : gen'[q] = born'[q] => gen'[q] = gen[q] /\ gen[q] = born[q]
    BY <1>1, <1>4
  <2> QED
    BY <1>1, <1>2, <1>3, <2>1 DEF PsLeft, Wanted
<1>11. KillHits'
  BY <1>1, <1>2, <1>3 DEF KillHits
<1> QED
  BY <1>1, <1>2, <1>6, <1>8, <1>9, <1>10, <1>11 DEF ProcessInv

LEMMA NextProcessInv ==
  ASSUME PlaceInv, ProcessInv, OneStep
  PROVE  ProcessInv'
<1>0. ProcessInv => Generations /\ RowSeen /\ LinesSeen /\ PsLeft /\ KillHits
  BY DEF ProcessInv
<1>1. CASE Processing
  <2>1. PsBegins \/ PsStat \/ PsCommand \/ PsPrints \/ PsEnds \/ Kills \/ KillEnds
    BY <1>1 DEF Processing, ProcessStep
  <2> QED
    BY <2>1, PsBeginsKeepsProcessInv, PsReadsKeepsProcessInv, PsPrintsKeepsProcessInv,
       PsEndsKeepsProcessInv, KillsKeepsProcessInv, KillEndsKeepsProcessInv
<1>2. CASE Changing
  BY <1>2, ChangeKeepsProcessInv DEF Changing
<1>3. ASSUME UNCHANGED processVars
      PROVE  Generations' /\ RowSeen' /\ LinesSeen'
  BY <1>0, <1>3 DEF processVars, Generations, RowSeen, Seen, LinesSeen, Line
<1>4. CASE Starting
  <2>1. UNCHANGED <<row, lines, tried, hit>> /\ place = "find" /\ place' \in {"main", "done"}
    BY <1>4 DEF Starting, Starts, processVars
  <2>2. row = <<>> /\ lines = {} /\ tried = <<>>
    BY <1>0, <2>1 DEF ProcessInv, KillHits
  <2>3. place' = "main" /\ tool' = "kill" => args' \in Seq(Pids \cup {0})
    <3>1. ASSUME place' = "main", tool' = "kill"
          PROVE  "kill" \in DOMAIN Requests /\ \E r \in Requests["kill"] : args' = r[2]
      BY <1>4, <3>1 DEF Starting, Starts
    <3>2. "kill" \in DOMAIN Requests => \A r \in Requests["kill"] : r[2] \in Seq(Pids \cup {0})
      BY RequestsAssumption
    <3> QED
      BY <3>1, <3>2
  <2>4. place' = "done" => said' = "nothing" /\ args' = <<>>
    BY <1>4 DEF Starting, Starts, PlaceInv
  <2>5. KillHits'
    BY <2>1, <2>2, <2>3, <2>4 DEF KillHits
  <2>6. PsLeft'
    BY <2>1, <2>4 DEF PsLeft
  <2> QED
    BY <1>3, <1>4, <2>1, <2>2, <2>5, <2>6 DEF ProcessInv, Starting
<1>5. CASE UNCHANGED <<toolVars, processVars>>
  <2>1. KillHits' /\ PsLeft'
    BY <1>0, <1>5 DEF KillHits, PsLeft, Wanted, toolVars, processVars
  <2> QED
    BY <1>3, <1>5, <2>1 DEF ProcessInv, toolVars, processVars
<1>6. ASSUME UNCHANGED processVars, NEW names, NEW places, Of(names, places),
             "kill" \notin names, "ps" \notin names, "ps" \notin places, "find" \notin places
      PROVE  ProcessInv'
  <2>1. /\ place' \notin {"find", "ps"}
        /\ place' = "main" => place = "main"
        /\ UNCHANGED <<row, lines, tried>> /\ tool' \notin {"ps", "kill"}
    BY <1>6 DEF Of, processVars
  <2>2. KillHits' /\ PsLeft'
    BY <1>0, <2>1 DEF KillHits, PsLeft
  <2> QED
    BY <1>3, <1>6, <2>1, <2>2 DEF ProcessInv
<1> QED
  <2>1. CASE Idle \/ Disturbing
    BY <2>1, <1>5 DEF Idle, Disturbing
  <2>2. CASE Filing
    BY <2>2, <1>6 DEF Filing, FileNames
  <2>3. CASE Catting
    BY <2>3, <1>6 DEF Catting
  <2>4. CASE Mounting
    BY <2>4, <1>6 DEF Mounting
  <2>5. CASE Copies
    BY <2>5, <1>6 DEF Copies
  <2> QED
    BY <1>1, <1>2, <1>4, <2>1, <2>2, <2>3, <2>4, <2>5 DEF OneStep
-----------------------------------------------------------------------------
(* Paths: sequences of names, and those above them.                        *)
LEMMA PrefixMeans ==
  ASSUME NEW S, NEW s \in Seq(S), NEW t \in Seq(S)
  PROVE  IsPrefix(s, t) <=> Len(s) <= Len(t) /\ \A i \in 1 .. Len(s) : s[i] = t[i]
<1> DEFINE len == Len(s)
           u == SubSeq(t, 1, len)
<1>1. len \in Nat /\ Len(t) \in Nat /\ SubSeq(s, 1, len) = s
  BY LenProperties, SubSeqFull
<1>2. ASSUME len <= Len(t)
      PROVE  u \in Seq(S) /\ Len(u) = len /\ \A i \in 1 .. len : u[i] = t[i]
  <2>1. \A i \in 1 .. len : t[i] \in S
    BY <1>1, <1>2, ElementOfSeq
  <2> HIDE DEF len
  <2>2. u \in Seq(S) /\ Len(u) = (IF 1 <= len THEN len - 1 + 1 ELSE 0)
        /\ \A i \in 1 .. len - 1 + 1 : u[i] = t[1 + i - 1]
    BY <1>1, <2>1, SubSeqProperties
  <2> HIDE DEF u
  <2>3. \A i \in 1 .. len : i \in 1 .. len - 1 + 1 /\ 1 + i - 1 = i
    BY <1>1
  <2>4. (IF 1 <= len THEN len - 1 + 1 ELSE 0) = len
    BY <1>1
  <2> QED
    BY <2>2, <2>3, <2>4
<1>3. ASSUME len <= Len(t), s = u PROVE \A i \in 1 .. len : s[i] = t[i]
  <2> HIDE DEF u
  <2> QED
    BY <1>2, <1>3
<1>4. ASSUME len <= Len(t), \A i \in 1 .. len : s[i] = t[i] PROVE s = u
  <2> HIDE DEF u
  <2>1. u \in Seq(S) /\ Len(u) = Len(s) /\ \A i \in 1 .. Len(s) : s[i] = u[i]
    BY <1>2, <1>4
  <2> QED
    BY <2>1, SeqEqual
<1> QED
  BY <1>1, <1>3, <1>4 DEF IsPrefix

LEMMA PrefixItself ==
  ASSUME NEW S, NEW s \in Seq(S)
  PROVE  IsPrefix(s, s)
BY PrefixMeans, LenProperties

LEMMA PrefixTransitive ==
  ASSUME NEW S, NEW s \in Seq(S), NEW t \in Seq(S), NEW u \in Seq(S), IsPrefix(s, t), IsPrefix(t, u)
  PROVE  IsPrefix(s, u)
<1>1. /\ Len(s) <= Len(t) /\ \A i \in 1 .. Len(s) : s[i] = t[i]
      /\ Len(t) <= Len(u) /\ \A i \in 1 .. Len(t) : t[i] = u[i]
  BY PrefixMeans
<1>2. Len(s) \in Nat /\ Len(t) \in Nat /\ Len(u) \in Nat
  BY LenProperties
<1>3. \A i \in 1 .. Len(s) : i \in 1 .. Len(t)
  BY <1>1, <1>2
<1>4. Len(s) <= Len(u) /\ \A i \in 1 .. Len(s) : s[i] = u[i]
  BY <1>1, <1>2, <1>3
<1> QED
  BY <1>4, PrefixMeans

LEMMA PrefixSameLength ==
  ASSUME NEW S, NEW s \in Seq(S), NEW t \in Seq(S), IsPrefix(s, t), Len(t) <= Len(s)
  PROVE  s = t
<1>1. Len(s) <= Len(t) /\ \A i \in 1 .. Len(s) : s[i] = t[i]
  BY PrefixMeans
<1>2. Len(s) = Len(t)
  BY <1>1, LenProperties
<1> QED
  BY <1>1, <1>2, SeqEqual

(* Of two paths above the same one, one is above the other.                *)
LEMMA PrefixesNest ==
  ASSUME NEW S, NEW s \in Seq(S), NEW t \in Seq(S), NEW u \in Seq(S), IsPrefix(s, u), IsPrefix(t, u)
  PROVE  Len(s) <= Len(t) => IsPrefix(s, t)
<1>1. /\ \A i \in 1 .. Len(s) : s[i] = u[i]
      /\ \A i \in 1 .. Len(t) : t[i] = u[i]
  BY PrefixMeans
<1>2. Len(s) \in Nat /\ Len(t) \in Nat
  BY LenProperties
<1>3. Len(s) <= Len(t) => \A i \in 1 .. Len(s) : i \in 1 .. Len(t)
  BY <1>2
<1>4. Len(s) <= Len(t) => \A i \in 1 .. Len(s) : s[i] = t[i]
  BY <1>1, <1>3
<1> QED
  BY <1>4, PrefixMeans

(* The first names of a path.                                              *)
LEMMA FirstNames ==
  ASSUME NEW S, NEW s \in Seq(S), NEW k \in 0 .. Len(s)
  PROVE  SubSeq(s, 1, k) \in Seq(S) /\ Len(SubSeq(s, 1, k)) = k /\ IsPrefix(SubSeq(s, 1, k), s)
<1> DEFINE u == SubSeq(s, 1, k)
<1>1. Len(s) \in Nat /\ k \in Nat /\ k <= Len(s)
  BY LenProperties
<1>2. \A i \in 1 .. k : s[i] \in S
  BY <1>1, ElementOfSeq
<1>3. u \in Seq(S) /\ Len(u) = (IF 1 <= k THEN k - 1 + 1 ELSE 0)
      /\ \A i \in 1 .. k - 1 + 1 : u[i] = s[1 + i - 1]
  BY <1>1, <1>2, SubSeqProperties
<1> HIDE DEF u
<1>4. \A i \in 1 .. k : i \in 1 .. k - 1 + 1 /\ 1 + i - 1 = i
  BY <1>1
<1>5. (IF 1 <= k THEN k - 1 + 1 ELSE 0) = k
  BY <1>1
<1>6. u \in Seq(S) /\ Len(u) = k /\ \A i \in 1 .. k : u[i] = s[i]
  BY <1>3, <1>4, <1>5
<1>7. IsPrefix(u, s)
  BY <1>1, <1>6, PrefixMeans
<1> QED
  BY <1>6, <1>7 DEF u

(* What is above a path is its directory or above it.                      *)
LEMMA AboveFront ==
  ASSUME NEW S, NEW s \in Seq(S), s # <<>>
  PROVE  /\ Front(s) \in Seq(S) /\ Len(Front(s)) = Len(s) - 1 /\ IsPrefix(Front(s), s)
         /\ \A t \in Seq(S) : IsStrictPrefix(t, s) => IsPrefix(t, Front(s))
<1> DEFINE k == Len(s) - 1
<1>1. Len(s) \in Nat /\ Len(s) # 0 /\ k \in 0 .. Len(s)
  BY LenProperties, EmptySeq
<1>2. Front(s) \in Seq(S) /\ Len(Front(s)) = k /\ IsPrefix(Front(s), s)
  <2> HIDE DEF k
  <2>1. Front(s) = SubSeq(s, 1, k)
    BY DEF Front, k
  <2> QED
    BY <1>1, <2>1, FirstNames
<1>3. ASSUME NEW t \in Seq(S), IsStrictPrefix(t, s) PROVE IsPrefix(t, Front(s))
  <2>1. IsPrefix(t, s) /\ t # s
    BY <1>3 DEF IsStrictPrefix
  <2>2. Len(t) <= k
    <3>1. Len(t) \in Nat /\ ~(Len(s) <= Len(t))
      BY <2>1, LenProperties, PrefixSameLength
    <3> QED
      BY <1>1, <3>1
  <2> QED
    BY <1>2, <2>1, <2>2, PrefixesNest
<1> QED
  BY <1>2, <1>3

(* One more name.                                                          *)
LEMMA AppendedPath ==
  ASSUME NEW S, NEW s \in Seq(S), NEW x \in S
  PROVE  /\ IsPrefix(s, Append(s, x)) /\ Append(s, x) \in Seq(S)
         /\ Len(Append(s, x)) = Len(s) + 1
         /\ \A t \in Seq(S) : IsStrictPrefix(t, Append(s, x)) => IsPrefix(t, s)
<1> DEFINE u == Append(s, x)
<1>1. /\ u \in Seq(S) /\ Len(u) = Len(s) + 1 /\ Len(s) \in Nat
      /\ \A i \in 1 .. Len(s) : u[i] = s[i]
  BY AppendProperties, LenProperties
<1> HIDE DEF u
<1>2. IsPrefix(s, u)
  BY <1>1, PrefixMeans
<1>3. ASSUME NEW t \in Seq(S), IsStrictPrefix(t, u) PROVE IsPrefix(t, s)
  <2>1. IsPrefix(t, u) /\ t # u
    BY <1>3 DEF IsStrictPrefix
  <2>2. Len(t) <= Len(s)
    <3>1. Len(t) \in Nat /\ ~(Len(u) <= Len(t))
      BY <1>1, <2>1, LenProperties, PrefixSameLength
    <3> QED
      BY <1>1, <3>1
  <2> QED
    BY <1>1, <1>2, <2>1, <2>2, PrefixesNest
<1> QED
  BY <1>1, <1>2, <1>3 DEF u

(* What is at q, below t, comes from the same place below s.               *)
Graft(s, t, q) == s \o SubSeq(q, Len(t) + 1, Len(q))

LEMMA Grafted ==
  ASSUME NEW S, NEW s \in Seq(S), NEW t \in Seq(S), NEW q \in Seq(S), IsPrefix(t, q)
  PROVE  /\ Graft(s, t, q) \in Seq(S)
         /\ Len(Graft(s, t, q)) = Len(s) + (Len(q) - Len(t))
         /\ IsPrefix(s, Graft(s, t, q))
         /\ \A i \in 1 .. Len(q) - Len(t) : Graft(s, t, q)[Len(s) + i] = q[Len(t) + i]
<1> DEFINE a == Len(s)
           b == Len(t)
           c == Len(q)
           rest == SubSeq(q, b + 1, c)
           g == Graft(s, t, q)
<1>1. a \in Nat /\ b \in Nat /\ c \in Nat /\ b <= c
  BY LenProperties, PrefixMeans
<1>2. \A i \in b + 1 .. c : q[i] \in S
  BY <1>1, ElementOfSeq
<1>3. g = s \o rest
  BY DEF Graft
<1> HIDE DEF a, b, c, g
<1>4. /\ rest \in Seq(S) /\ Len(rest) = (IF b + 1 <= c THEN c - (b + 1) + 1 ELSE 0)
      /\ \A i \in 1 .. c - (b + 1) + 1 : rest[i] = q[(b + 1) + i - 1]
  BY <1>1, <1>2, SubSeqProperties
<1> HIDE DEF rest
<1>5. Len(rest) = c - b /\ \A i \in 1 .. c - b : rest[i] = q[b + i]
  <2>1. (IF b + 1 <= c THEN c - (b + 1) + 1 ELSE 0) = c - b
    BY <1>1
  <2>2. \A i \in 1 .. c - b : i \in 1 .. c - (b + 1) + 1 /\ (b + 1) + i - 1 = b + i
    BY <1>1
  <2> QED
    BY <1>4, <2>1, <2>2
<1>6. /\ g \in Seq(S) /\ Len(g) = a + Len(rest)
      /\ \A i \in 1 .. a + Len(rest) : g[i] = IF i <= a THEN s[i] ELSE rest[i - a]
  BY <1>3, <1>4, ConcatProperties DEF a
<1>7. \A i \in 1 .. c - b : g[a + i] = q[b + i]
  <2>1. \A i \in 1 .. c - b : a + i \in 1 .. a + Len(rest) /\ ~(a + i <= a) /\ (a + i) - a = i
    BY <1>1, <1>5
  <2> QED
    BY <1>5, <1>6, <2>1
<1>8. IsPrefix(s, g)
  <2>1. \A i \in 1 .. a : i \in 1 .. a + Len(rest) /\ i <= a
    BY <1>1, <1>5
  <2>2. \A i \in 1 .. a : s[i] = g[i]
    BY <1>6, <2>1
  <2>3. a <= Len(g)
    BY <1>1, <1>5, <1>6
  <2> QED
    BY <1>6, <2>2, <2>3, PrefixMeans DEF a
<1> QED
  BY <1>5, <1>6, <1>7, <1>8 DEF a, b, c, g

LEMMA GraftMonotone ==
  ASSUME NEW S, NEW s \in Seq(S), NEW t \in Seq(S), NEW r \in Seq(S), NEW q \in Seq(S),
         IsPrefix(t, r), IsStrictPrefix(r, q)
  PROVE  IsStrictPrefix(Graft(s, t, r), Graft(s, t, q))
<1> DEFINE g == Graft(s, t, r)
           h == Graft(s, t, q)
           a == Len(s)
           b == Len(t)
<1>1. IsPrefix(r, q) /\ r # q /\ IsPrefix(t, q)
  BY PrefixTransitive DEF IsStrictPrefix
<1>2. /\ g \in Seq(S) /\ Len(g) = a + (Len(r) - b) /\ IsPrefix(s, g)
      /\ \A i \in 1 .. Len(r) - b : g[a + i] = r[b + i]
      /\ h \in Seq(S) /\ Len(h) = a + (Len(q) - b) /\ IsPrefix(s, h)
      /\ \A i \in 1 .. Len(q) - b : h[a + i] = q[b + i]
  <2>1. g \in Seq(S) /\ IsPrefix(s, g) /\ h \in Seq(S) /\ IsPrefix(s, h)
    BY <1>1, Grafted
  <2>2. Len(g) = a + (Len(r) - b)
    BY Grafted
  <2>3. Len(h) = a + (Len(q) - b)
    BY <1>1, Grafted
  <2>4. \A i \in 1 .. Len(r) - b : g[a + i] = r[b + i]
    BY Grafted
  <2>5. \A i \in 1 .. Len(q) - b : h[a + i] = q[b + i]
    BY <1>1, Grafted
  <2> QED
    BY <2>1, <2>2, <2>3, <2>4, <2>5
<1>3. a \in Nat /\ b \in Nat /\ Len(r) \in Nat /\ Len(q) \in Nat /\ Len(g) \in Nat /\ b <= Len(r) /\ Len(r) < Len(q)
  <2>1. b <= Len(r) /\ Len(r) <= Len(q)
    BY <1>1, PrefixMeans
  <2>2. ~(Len(q) <= Len(r))
    BY <1>1, PrefixSameLength
  <2>3. a \in Nat /\ b \in Nat /\ Len(r) \in Nat /\ Len(q) \in Nat
    BY LenProperties
  <2> HIDE DEF a, b, g
  <2> QED
    BY <1>2, <2>1, <2>2, <2>3
<1> HIDE DEF g, h
<1>4. Len(g) < Len(h)
  BY <1>2, <1>3
<1>5. \A i \in 1 .. Len(g) : g[i] = h[i]
  <2> TAKE i \in 1 .. Len(g)
  <2>1. CASE i <= a
    <3>1. i \in 1 .. a
      BY <2>1, <1>3
    <3>2. g[i] = s[i] /\ h[i] = s[i]
      BY <1>2, <3>1, PrefixMeans
    <3> QED
      BY <3>2
  <2>2. CASE ~(i <= a)
    <3> DEFINE j == i - a
    <3>1. j \in 1 .. Len(r) - b /\ j \in 1 .. Len(q) - b /\ i = a + j /\ b + j \in 1 .. Len(r)
      BY <1>2, <1>3, <2>2
    <3> HIDE DEF j, a, b
    <3>2. r[b + j] = q[b + j]
      BY <1>1, <3>1, PrefixMeans
    <3> QED
      BY <1>2, <3>1, <3>2
  <2> QED
    BY <2>1, <2>2
<1>6. IsPrefix(g, h) /\ g # h
  BY <1>2, <1>3, <1>4, <1>5, PrefixMeans, LenProperties
<1> QED
  BY <1>6 DEF IsStrictPrefix, g, h

LEMMA GraftBack ==
  ASSUME NEW S, NEW s \in Seq(S), NEW t \in Seq(S), NEW p \in Seq(S), IsPrefix(s, p)
  PROVE  IsPrefix(t, Graft(t, s, p)) /\ Graft(s, t, Graft(t, s, p)) = p
<1> DEFINE q == Graft(t, s, p)
           g == Graft(s, t, q)
           a == Len(s)
           b == Len(t)
<1>1. /\ q \in Seq(S) /\ Len(q) = b + (Len(p) - a) /\ IsPrefix(t, q)
      /\ \A i \in 1 .. Len(p) - a : q[b + i] = p[a + i]
  <2>1. q \in Seq(S) /\ IsPrefix(t, q)
    BY Grafted
  <2>2. Len(q) = b + (Len(p) - a)
    BY Grafted
  <2>3. \A i \in 1 .. Len(p) - a : q[b + i] = p[a + i]
    BY Grafted
  <2> QED
    BY <2>1, <2>2, <2>3
<1> HIDE DEF q
<1>2. /\ g \in Seq(S) /\ Len(g) = a + (Len(q) - b) /\ IsPrefix(s, g)
      /\ \A i \in 1 .. Len(q) - b : g[a + i] = q[b + i]
  <2>0. q \in Seq(S) /\ IsPrefix(t, q)
    BY <1>1
  <2>1. g \in Seq(S) /\ IsPrefix(s, g)
    BY <2>0, Grafted
  <2>2. Len(g) = a + (Len(q) - b)
    BY <2>0, Grafted
  <2>3. \A i \in 1 .. Len(q) - b : g[a + i] = q[b + i]
    BY <2>0, Grafted
  <2> QED
    BY <2>1, <2>2, <2>3
<1> HIDE DEF g
<1>3. a \in Nat /\ b \in Nat /\ Len(p) \in Nat /\ Len(q) \in Nat /\ a <= Len(p)
  BY <1>1, PrefixMeans, LenProperties
<1>4. Len(g) = Len(p)
  BY <1>1, <1>2, <1>3
<1>5. \A i \in 1 .. Len(g) : g[i] = p[i]
  <2> TAKE i \in 1 .. Len(g)
  <2>1. CASE i <= a
    <3>1. i \in 1 .. a
      BY <1>3, <1>4, <2>1
    <3>2. s[i] = g[i] /\ s[i] = p[i]
      BY <1>2, <3>1, PrefixMeans
    <3> QED
      BY <3>2
  <2>2. CASE ~(i <= a)
    <3> DEFINE j == i - a
    <3>1. j \in 1 .. Len(q) - b /\ j \in 1 .. Len(p) - a /\ i = a + j
      BY <1>1, <1>3, <1>4, <2>2
    <3> HIDE DEF j, a, b
    <3> QED
      BY <1>1, <1>2, <3>1
  <2> QED
    BY <2>1, <2>2
<1> QED
  BY <1>1, <1>2, <1>4, <1>5, SeqEqual DEF q, g

LEMMA GraftItself ==
  ASSUME NEW S, NEW s \in Seq(S), NEW t \in Seq(S)
  PROVE  Graft(s, t, t) = s
<1> DEFINE g == Graft(t, s, s)
<1>1. IsPrefix(s, s)
  BY PrefixItself
<1>2. g \in Seq(S) /\ IsPrefix(t, g)
  BY <1>1, Grafted
<1>3. Len(g) = Len(t) + (Len(s) - Len(s))
  BY <1>1, Grafted
<1>4. Graft(s, t, g) = s
  BY <1>1, GraftBack
<1> HIDE DEF g
<1>5. Len(g) <= Len(t)
  BY <1>2, <1>3, LenProperties
<1>6. g = t
  BY <1>2, <1>5, PrefixSameLength
<1> QED
  BY <1>4, <1>6

(* The tree: what is above a file stays a directory, whatever is removed,  *)
(* created or renamed.                                                     *)
LEMMA PathFacts ==
  /\ \A p \in Paths : p \in Seq(STRING) /\ Len(p) \in Nat /\ IsPrefix(p, p)
  /\ \A p \in Paths : \A k \in 0 .. Len(p) : SubSeq(p, 1, k) \in Paths
  /\ \A p \in Paths : p # <<>> => Front(p) \in Paths
<1>1. \A p \in Paths : p \in Seq(STRING) /\ Len(p) \in Nat /\ IsPrefix(p, p)
  BY PathsAssumption, PrefixItself, LenProperties
<1>2. \A p \in Paths : \A k \in 0 .. Len(p) : SubSeq(p, 1, k) \in Paths
  BY PathsAssumption
<1>3. ASSUME NEW p \in Paths, p # <<>> PROVE Front(p) \in Paths
  <2> DEFINE k == Len(p) - 1
  <2>1. k \in 0 .. Len(p)
    BY <1>1, <1>3, EmptySeq
  <2> HIDE DEF k
  <2>2. SubSeq(p, 1, k) \in Paths
    BY <1>2, <2>1
  <2> QED
    BY <2>2 DEF Front, k
<1> QED
  BY <1>1, <1>2, <1>3

(* Every path above one is a path.                                         *)
LEMMA PathsAbove ==
  ASSUME NEW p \in Paths, NEW r \in Seq(STRING), IsPrefix(r, p)
  PROVE  r \in Paths
<1>1. p \in Seq(STRING) /\ Len(r) <= Len(p) /\ Len(r) \in Nat /\ Len(p) \in Nat
  BY PathFacts, PrefixMeans, LenProperties
<1>2. SubSeq(p, 1, Len(r)) = SubSeq(r, 1, Len(r)) /\ SubSeq(r, 1, Len(r)) = r
  BY SubSeqFull DEF IsPrefix
<1> DEFINE k == Len(r)
<1>3. k \in 0 .. Len(p)
  BY <1>1
<1> HIDE DEF k
<1>4. SubSeq(p, 1, k) \in Paths
  BY <1>3, PathFacts
<1> QED
  BY <1>2, <1>4 DEF k

(* A file goes that has nothing below it.                                  *)
LEMMA RemovingKeepsTree ==
  ASSUME IsTree(fs), NEW p \in Paths, \A q \in Paths : IsStrictPrefix(p, q) => fs[q] = None,
         fs' = [fs EXCEPT ![p] = None]
  PROVE  IsTree(fs')
<1>1. fs \in [Paths -> Inodes \cup {None}]
  BY DEF IsTree
<1>2. fs' \in [Paths -> Inodes \cup {None}]
  BY <1>1
<1>3. \A r \in Paths : fs'[r] = IF r = p THEN None ELSE fs[r]
  BY <1>1
<1>4. ASSUME NEW r \in Paths, NEW q \in Paths, IsStrictPrefix(r, q), fs'[q] # None
      PROVE  fs'[r] # None /\ KindOf[fs'[r]] = "dir"
  <2>1. fs[q] # None /\ q # p
    BY <1>3, <1>4
  <2>2. fs[r] # None /\ KindOf[fs[r]] = "dir"
    BY <1>4, <2>1 DEF IsTree
  <2>3. r # p
    BY <1>4, <2>1
  <2> QED
    BY <1>3, <2>2, <2>3
<1> QED
  BY <1>2, <1>4 DEF IsTree

(* Another file comes in the place of what is at p and below it, or none.  *)
LEMMA PuttingKeepsTree ==
  ASSUME IsTree(fs), NEW p \in Paths, NEW i \in Inodes \cup {None}, p # <<>>, InDirectory(p),
         fs' = [q \in Paths |-> IF q = p THEN i ELSE IF IsPrefix(p, q) THEN None ELSE fs[q]]
  PROVE  IsTree(fs')
<1>1. fs \in [Paths -> Inodes \cup {None}]
  BY DEF IsTree
<1>2. fs' \in [Paths -> Inodes \cup {None}]
  BY <1>1
<1>3. \A r \in Paths : fs'[r] = IF r = p THEN i ELSE IF IsPrefix(p, r) THEN None ELSE fs[r]
  OBVIOUS
<1>5. ASSUME NEW r \in Paths, NEW q \in Paths, IsStrictPrefix(r, q), fs'[q] # None
      PROVE  fs'[r] # None /\ KindOf[fs'[r]] = "dir"
  <2>0. r \in Seq(STRING) /\ q \in Seq(STRING) /\ p \in Seq(STRING) /\ IsPrefix(p, p)
    BY PathFacts
  <2>1. fs[r] # None /\ KindOf[fs[r]] = "dir" /\ ~IsPrefix(p, r)
    <3>1. CASE q = p
      <4>1. Front(p) \in Paths /\ fs[Front(p)] # None /\ KindOf[fs[Front(p)]] = "dir"
        BY PathFacts DEF InDirectory, Type, None
      <4>2. IsPrefix(r, Front(p))
        BY <1>5, <2>0, <3>1, AboveFront
      <4>3. fs[r] # None /\ KindOf[fs[r]] = "dir"
        BY <4>1, <4>2 DEF IsTree, IsStrictPrefix
      <4>4. ~IsPrefix(p, r)
        <5>1. IsPrefix(r, p) /\ r # p
          BY <1>5, <3>1 DEF IsStrictPrefix
        <5>2. Len(r) <= Len(p)
          BY <2>0, <5>1, PrefixMeans
        <5> QED
          BY <2>0, <5>1, <5>2, PrefixSameLength
      <4> QED
        BY <4>3, <4>4
    <3>2. CASE q # p
      <4>1. fs[q] # None /\ ~IsPrefix(p, q)
        BY <1>3, <1>5, <3>2
      <4>2. fs[r] # None /\ KindOf[fs[r]] = "dir"
        BY <1>5, <4>1 DEF IsTree
      <4>3. ~IsPrefix(p, r)
        BY <1>5, <2>0, <4>1, PrefixTransitive DEF IsStrictPrefix
      <4> QED
        BY <4>2, <4>3
    <3> QED
      BY <3>1, <3>2
  <2> QED
    BY <1>3, <2>0, <2>1
<1> QED
  BY <1>2, <1>5 DEF IsTree

(* rename.                                                                 *)
LEMMA RenamedAt ==
  ASSUME NEW s \in Paths, NEW t \in Paths, NEW p \in Paths
  PROVE  Renamed(s, t)[p] =
           IF IsPrefix(t, p) THEN (IF Graft(s, t, p) \in Paths THEN fs[Graft(s, t, p)] ELSE None)
           ELSE IF IsPrefix(s, p) THEN None ELSE fs[p]
BY DEF Renamed, Graft

LEMMA RenamesFreely ==
  ASSUME IsTree(fs), NEW s \in Paths, NEW t, CanRename(s, t)
  PROVE  /\ t \in Paths /\ fs[s] # None
         /\ \A q \in Paths : IsStrictPrefix(t, q) => fs[q] = None
         /\ ~IsStrictPrefix(s, t) /\ ~IsStrictPrefix(t, s)
         /\ \A p \in Paths : IsPrefix(s, p) /\ fs[p] # None => Graft(t, s, p) \in Paths
<1>1. t \in Paths /\ fs[s] # None
  BY DEF CanRename
<1>3. ASSUME NEW q \in Paths, IsStrictPrefix(t, q), fs[q] # None PROVE FALSE
  <2>1. fs[t] # None /\ Type(t) = "dir"
    BY <1>1, <1>3 DEF IsTree, Type
  <2> QED
    BY <1>3, <2>1 DEF CanRename, None
<1>4. \A p \in Paths : IsPrefix(s, p) /\ fs[p] # None => Graft(t, s, p) \in Paths
  BY DEF CanRename, Below, Graft
<1> QED
  BY <1>1, <1>3, <1>4 DEF CanRename

LEMMA RenamingKeepsTree ==
  ASSUME IsTree(fs), NEW s \in Paths, NEW t \in Paths, CanRename(s, t), s # t,
         fs' = Renamed(s, t)
  PROVE  IsTree(fs')
<1>0. s \in Seq(STRING) /\ t \in Seq(STRING)
  BY PathFacts
<1>1. fs \in [Paths -> Inodes \cup {None}]
  BY DEF IsTree
<1>2. \A p \in Paths : fs'[p] =
           IF IsPrefix(t, p) THEN (IF Graft(s, t, p) \in Paths THEN fs[Graft(s, t, p)] ELSE None)
           ELSE IF IsPrefix(s, p) THEN None ELSE fs[p]
  BY RenamedAt
<1>3. fs' \in [Paths -> Inodes \cup {None}]
  <2>1. \A p \in Paths : fs'[p] \in Inodes \cup {None}
    BY <1>1, <1>2
  <2>2. fs' = [p \in Paths |-> fs'[p]]
    BY DEF Renamed
  <2> QED
    BY <2>1, <2>2
<1>4. ASSUME NEW r \in Paths, NEW q \in Paths, IsStrictPrefix(r, q), fs'[q] # None
      PROVE  fs'[r] # None /\ KindOf[fs'[r]] = "dir"
  <2>0. /\ r \in Seq(STRING) /\ q \in Seq(STRING) /\ IsPrefix(r, q) /\ r # q
        /\ Len(r) \in Nat /\ Len(q) \in Nat /\ Len(t) \in Nat /\ Len(s) \in Nat
    BY <1>4, PathFacts DEF IsStrictPrefix
  <2>1. CASE IsPrefix(t, q) /\ IsPrefix(t, r)
    <3>1. Graft(s, t, q) \in Paths /\ fs[Graft(s, t, q)] # None
      BY <1>2, <1>4, <2>1
    <3>2. IsStrictPrefix(Graft(s, t, r), Graft(s, t, q))
      BY <1>0, <1>4, <2>0, <2>1, GraftMonotone
    <3>3. Graft(s, t, r) \in Paths
      <4>1. Graft(s, t, r) \in Seq(STRING)
        BY <1>0, <2>0, <2>1, Grafted
      <4> QED
        BY <3>1, <3>2, <4>1, PathsAbove DEF IsStrictPrefix
    <3>4. fs[Graft(s, t, r)] # None /\ KindOf[fs[Graft(s, t, r)]] = "dir"
      BY <3>1, <3>2, <3>3 DEF IsTree
    <3> QED
      BY <1>2, <2>1, <3>3, <3>4
  <2>2. CASE IsPrefix(t, q) /\ ~IsPrefix(t, r)
    <3>1. IsStrictPrefix(r, t)
      <4>1. IsPrefix(r, t) \/ IsPrefix(t, r)
        BY <1>0, <2>0, <2>2, PrefixesNest
      <4>2. r # t
        BY <2>0, <2>2, PathFacts
      <4> QED
        BY <2>2, <4>1, <4>2 DEF IsStrictPrefix
    <3>2. t # <<>>
      <4>1. IsPrefix(r, t) /\ r # t
        BY <3>1 DEF IsStrictPrefix
      <4>2. Len(r) <= Len(t) /\ ~(Len(t) <= Len(r))
        BY <1>0, <2>0, <4>1, PrefixMeans, PrefixSameLength
      <4> QED
        BY <2>0, <4>2, EmptySeq
    <3>3. Front(t) \in Paths /\ fs[Front(t)] # None /\ KindOf[fs[Front(t)]] = "dir"
      BY <3>2, PathFacts DEF CanRename, InDirectory, Type, None
    <3>4. IsPrefix(r, Front(t))
      BY <1>0, <2>0, <3>1, <3>2, AboveFront
    <3>5. fs[r] # None /\ KindOf[fs[r]] = "dir"
      BY <3>3, <3>4 DEF IsTree, IsStrictPrefix
    <3>6. ~IsPrefix(s, r)
      <4> SUFFICES ASSUME IsPrefix(s, r) PROVE FALSE
        OBVIOUS
      <4>1. IsPrefix(s, t)
        BY <1>0, <2>0, <3>1, PrefixTransitive DEF IsStrictPrefix
      <4> QED
        BY <4>1 DEF CanRename, IsStrictPrefix
    <3> QED
      BY <1>2, <2>2, <3>5, <3>6
  <2>3. CASE ~IsPrefix(t, q)
    <3>1. ~IsPrefix(s, q) /\ fs[q] # None
      BY <1>2, <1>4, <2>3
    <3>2. ~IsPrefix(t, r) /\ ~IsPrefix(s, r)
      BY <1>0, <2>0, <2>3, <3>1, PrefixTransitive
    <3>3. fs[r] # None /\ KindOf[fs[r]] = "dir"
      BY <1>4, <3>1 DEF IsTree
    <3> QED
      BY <1>2, <3>2, <3>3
  <2> QED
    BY <2>1, <2>2, <2>3
<1> QED
  BY <1>3, <1>4 DEF IsTree

(* What happens to the file at a path when s is renamed to t.              *)
LEMMA RenamedFile ==
  ASSUME IsTree(fs), NEW s \in Paths, NEW t \in Paths, CanRename(s, t), s # t,
         fs' = Renamed(s, t), NEW p \in Paths, fs[p] # None
  PROVE  \/ p = t
         \/ IsPrefix(s, p) /\ \E q \in Paths : fs'[q] = fs[p]
         \/ fs'[p] = fs[p] /\ ~IsPrefix(s, p)
<1>0. s \in Seq(STRING) /\ t \in Seq(STRING) /\ p \in Seq(STRING)
  BY PathFacts
<1>1. IsPrefix(t, p) => p = t
  BY RenamesFreely DEF IsStrictPrefix
<1>2. CASE IsPrefix(s, p)
  <2> DEFINE q == Graft(t, s, p)
  <2>1. q \in Paths
    BY <1>2, RenamesFreely
  <2>2. IsPrefix(t, q) /\ Graft(s, t, q) = p
    BY <1>0, <1>2, GraftBack
  <2> HIDE DEF q
  <2>3. fs'[q] = fs[p]
    BY <2>1, <2>2, RenamedAt
  <2> QED
    BY <1>2, <2>1, <2>3
<1>3. CASE ~IsPrefix(s, p) /\ ~IsPrefix(t, p)
  BY <1>3, RenamedAt
<1> QED
  BY <1>1, <1>2, <1>3
-----------------------------------------------------------------------------
(* Where paths lead.  There is nothing below a link, so that there is one  *)
(* at most above a path, and none above a file.                            *)
LEMMA PathsOnTheWay ==
  ASSUME NEW p \in Seq(STRING)
  PROVE  /\ \A q \in Above(p) : q \in Paths /\ IsStrictPrefix(q, p)
         /\ \A q \in Paths : IsStrictPrefix(q, p) => q \in Above(p)
<1>1. ASSUME NEW q \in Above(p) PROVE q \in Paths /\ IsStrictPrefix(q, p)
  <2>1. PICK k \in 0 .. Len(p) - 1 : q = SubSeq(p, 1, k)
    BY DEF Above
  <2>2. k \in 0 .. Len(p) /\ k < Len(p) /\ Len(p) \in Nat
    BY LenProperties
  <2>3. IsPrefix(q, p) /\ Len(q) = k
    BY <2>1, <2>2, FirstNames
  <2> QED
    BY <2>2, <2>3 DEF Above, IsStrictPrefix
<1>2. ASSUME NEW q \in Paths, IsStrictPrefix(q, p) PROVE q \in Above(p)
  <2>1. IsPrefix(q, p) /\ q # p /\ q \in Seq(STRING) /\ Len(q) \in Nat /\ Len(p) \in Nat
    BY <1>2, PathFacts, LenProperties DEF IsStrictPrefix
  <2>2. Len(q) <= Len(p) /\ ~(Len(p) <= Len(q))
    BY <2>1, PrefixMeans, PrefixSameLength
  <2> DEFINE k == Len(q)
  <2>3. k \in 0 .. Len(p) - 1
    BY <2>1, <2>2
  <2>4. SubSeq(p, 1, k) = SubSeq(q, 1, k) /\ SubSeq(q, 1, k) = q
    BY <2>1, SubSeqFull DEF IsPrefix
  <2> HIDE DEF k
  <2> QED
    BY <2>3, <2>4 DEF Above
<1> QED
  BY <1>1, <1>2

LEMMA LinkAbove ==
  ASSUME NEW f, NEW p \in Seq(STRING)
  PROVE  \A q \in Paths : q \in Way(f, p) <=> IsStrictPrefix(q, p) /\ f[q] # None /\ KindOf[f[q]] = "link"
BY PathsOnTheWay DEF Way

LEMMA OneLinkAbove ==
  ASSUME NEW f, IsTree(f), NEW p \in Seq(STRING), NEW q \in Way(f, p)
  PROVE  /\ q \in Paths /\ IsStrictPrefix(q, p) /\ f[q] # None /\ KindOf[f[q]] = "link"
         /\ Way(f, p) = {q} /\ Leads(f, p) = Graft(LinkTo, q, p)
         /\ Leads(f, p) \in Seq(STRING) /\ IsPrefix(LinkTo, Leads(f, p))
<1>1. \A r \in Way(f, p) : r \in Paths /\ IsStrictPrefix(r, p) /\ f[r] # None /\ KindOf[f[r]] = "link"
  BY PathsOnTheWay DEF Way
<1>2. ASSUME NEW r \in Way(f, p), NEW u \in Way(f, p), IsStrictPrefix(r, u) PROVE FALSE
  <2>1. r \in Paths /\ u \in Paths /\ f[u] # None /\ KindOf[f[r]] = "link"
    BY <1>1
  <2>2. KindOf[f[r]] = "dir"
    BY <1>2, <2>1 DEF IsTree
  <2> QED
    BY <2>1, <2>2
<1>3. ASSUME NEW r \in Way(f, p) PROVE r = q
  <2>1. r \in Seq(STRING) /\ q \in Seq(STRING) /\ IsPrefix(r, p) /\ IsPrefix(q, p) /\ Len(r) \in Nat /\ Len(q) \in Nat
    BY <1>1, PathFacts DEF IsStrictPrefix
  <2>2. IsPrefix(r, q) \/ IsPrefix(q, r)
    BY <2>1, PrefixesNest
  <2> QED
    BY <1>2, <2>2 DEF IsStrictPrefix
<1>4. Way(f, p) = {q}
  BY <1>3
<1>5. Leads(f, p) = Graft(LinkTo, q, p)
  <2>1. Leads(f, p) = Through(CHOOSE r \in Way(f, p) : TRUE, p)
    BY <1>4 DEF Leads
  <2>2. (CHOOSE r \in Way(f, p) : TRUE) = q
    BY <1>4
  <2> QED
    BY <2>1, <2>2 DEF Through, Graft
<1>6. LinkTo \in Seq(STRING) /\ q \in Seq(STRING) /\ IsPrefix(q, p)
  BY <1>1, PathsAssumption DEF IsStrictPrefix
<1>7. Graft(LinkTo, q, p) \in Seq(STRING) /\ IsPrefix(LinkTo, Graft(LinkTo, q, p))
  BY <1>6, Grafted
<1> QED
  BY <1>1, <1>4, <1>5, <1>7

LEMMA NoLinkAbove ==
  ASSUME NEW f, IsTree(f), NEW p \in Paths
  PROVE  f[p] # None => Way(f, p) = {} /\ Leads(f, p) = p
<1>1. p \in Seq(STRING)
  BY PathFacts
<1>2. ASSUME f[p] # None, NEW q \in Way(f, p) PROVE FALSE
  <2>1. q \in Paths /\ IsStrictPrefix(q, p) /\ KindOf[f[q]] = "link"
    BY <1>1, OneLinkAbove
  <2>2. KindOf[f[q]] = "dir"
    BY <1>2, <2>1 DEF IsTree
  <2> QED
    BY <2>1, <2>2
<1> QED
  BY <1>2 DEF Leads

(* It depends on what is above.                                            *)
LEMMA LeadsByWay ==
  ASSUME NEW f, NEW g, NEW p, Way(f, p) = Way(g, p)
  PROVE  Leads(f, p) = Leads(g, p)
BY DEF Leads

LEMMA SameWay ==
  ASSUME NEW f, NEW g, NEW p, \A q \in Above(p) : f[q] = g[q]
  PROVE  Way(f, p) = Way(g, p) /\ Leads(f, p) = Leads(g, p)
<1>1. Way(f, p) = Way(g, p)
  BY DEF Way
<1> QED
  BY <1>1 DEF Leads

LEMMA LeadsSomewhere ==
  ASSUME NEW f, IsTree(f), NEW p \in Seq(STRING)
  PROVE  Leads(f, p) \in Seq(STRING) /\ (Way(f, p) = {} => Leads(f, p) = p)
<1>1. CASE Way(f, p) = {}
  BY <1>1 DEF Leads
<1>2. CASE Way(f, p) # {}
  BY <1>2, OneLinkAbove
<1> QED
  BY <1>1, <1>2

(* Where a path through a link leads is where the link leads or below it.  *)
LEMMA BelowLinkTo ==
  ASSUME NEW f, IsTree(f)
  PROVE  IsPrefix(LinkTo, Leads(f, LinkTo))
<1>1. LinkTo \in Seq(STRING) /\ IsPrefix(LinkTo, LinkTo)
  BY PathsAssumption, PathFacts
<1>2. Way(f, LinkTo) = {} => Leads(f, LinkTo) = LinkTo
  BY <1>1, LeadsSomewhere
<1>3. ASSUME NEW q \in Way(f, LinkTo) PROVE IsPrefix(LinkTo, Leads(f, LinkTo))
  BY <1>1, OneLinkAbove
<1> QED
  BY <1>1, <1>2, <1>3

(* What lstat finds in a tree.                                             *)
NodeIn(f, p) == LET r == Leads(f, p) IN IF r \in Paths THEN f[r] ELSE None
KindIn(f, p) == LET i == NodeIn(f, p) IN IF i = None THEN None ELSE KindOf[i]
FollowIn(f, p) == IF KindIn(f, p) = "link" THEN LinkTo ELSE p

LEMMA InTheTree ==
  /\ \A p : Real(p) = Leads(fs, p) /\ Node(p) = NodeIn(fs, p) /\ Kind(p) = KindIn(fs, p) /\ Follow(p) = FollowIn(fs, p)
  /\ \A p : /\ Real(p)' = Leads(fs', p) /\ Node(p)' = NodeIn(fs', p)
            /\ Kind(p)' = KindIn(fs', p) /\ Follow(p)' = FollowIn(fs', p)
BY DEF Real, Node, Kind, Follow, NodeIn, KindIn, FollowIn

LEMMA FileAt ==
  ASSUME IsTree(fs), NEW p \in Paths
  PROVE  /\ fs[p] # None => Way(fs, p) = {} /\ Real(p) = p /\ Node(p) = fs[p] /\ Kind(p) = Type(p)
         /\ Way(fs, p) = {} => Real(p) = p /\ Node(p) = fs[p] /\ Kind(p) = Type(p)
         /\ Node(p) # None => Real(p) \in Paths /\ Node(p) = fs[Real(p)]
         /\ Kind(p) # None <=> Node(p) # None
         /\ Node(p) \in Inodes \cup {None}
         /\ Kind(p) # None => Kind(p) = KindOf[Node(p)]
         /\ Follow(p) \in Paths
<1>1. fs[p] # None => Way(fs, p) = {}
  BY NoLinkAbove
<1>2. Way(fs, p) = {} => Real(p) = p /\ Node(p) = fs[p] /\ Kind(p) = Type(p)
  BY DEF Real, Leads, Node, Kind, Type
<1>3. Node(p) # None => Real(p) \in Paths /\ Node(p) = fs[Real(p)]
  BY DEF Node
<1>4. Node(p) \in Inodes \cup {None}
  <2>1. \A r \in Paths : fs[r] \in Inodes \cup {None}
    BY DEF IsTree
  <2> QED
    BY <2>1 DEF Node
<1>5. Kind(p) # None <=> Node(p) # None
  <2>1. \A i \in Inodes : KindOf[i] # None
    BY InodesAssumption DEF None
  <2> QED
    BY <1>4, <2>1 DEF Kind
<1>6. Follow(p) \in Paths
  BY PathsAssumption DEF Follow
<1> QED
  BY <1>1, <1>2, <1>3, <1>4, <1>5, <1>6 DEF Kind

(* A step that leaves the tree alone.                                      *)
LEMMA SameTree ==
  ASSUME fs' = fs
  PROVE  \A p : /\ Real(p)' = Real(p) /\ Node(p)' = Node(p) /\ Kind(p)' = Kind(p) /\ Follow(p)' = Follow(p)
                /\ Type(p)' = Type(p) /\ (steady' = steady => (Alone(p)' <=> Alone(p)))
BY DEF Real, Node, Kind, Follow, Type, Alone

(* What others left alone is the same as before.                           *)
LEMMA AloneStays ==
  ASSUME steady' \subseteq steady, \A r \in steady' : \A q \in Paths : IsPrefix(q, r) => fs'[q] = fs[q],
         steady \subseteq Paths, NEW p \in Paths, Alone(p)'
  PROVE  Alone(p) /\ Real(p)' = Real(p) /\ Node(p)' = Node(p) /\ Kind(p)' = Kind(p) /\ Follow(p)' = Follow(p)
<1>1. p \in Seq(STRING)
  BY PathFacts
<1>2. p \in steady' /\ Leads(fs', p) \in steady'
  BY DEF Alone, Real
<1>3. \A q \in Above(p) : fs'[q] = fs[q]
  BY <1>1, <1>2, PathsOnTheWay DEF IsStrictPrefix
<1>4. Leads(fs', p) = Leads(fs, p)
  BY <1>3, SameWay
<1> DEFINE r == Leads(fs, p)
<1>5. r \in steady' /\ r \in Paths
  BY <1>2, <1>4
<1>6. fs'[r] = fs[r]
  BY <1>5, PathFacts
<1>7. NodeIn(fs', p) = NodeIn(fs, p)
  BY <1>4, <1>5, <1>6 DEF NodeIn
<1>8. KindIn(fs', p) = KindIn(fs, p)
  BY <1>7 DEF KindIn
<1>9. FollowIn(fs', p) = FollowIn(fs, p)
  BY <1>8 DEF FollowIn
<1>10. Alone(p)
  BY <1>2, <1>5 DEF Alone, Real
<1> QED
  BY <1>4, <1>7, <1>8, <1>9, <1>10, InTheTree

(* A file goes: the other paths lead where they led, or nowhere.           *)
LEMMA Removed ==
  ASSUME IsTree(fs), NEW r \in Paths, \A q \in Paths : IsStrictPrefix(r, q) => fs[q] = None,
         fs' = [fs EXCEPT ![r] = None], NEW p \in Paths
  PROVE  /\ Node(p)' = None \/ (Real(p)' = Real(p) /\ Node(p)' = Node(p))
         /\ Real(p) = r => Node(p)' = None
         /\ Kind(p)' \in {Kind(p), None}
<1>1. \A q \in Paths : fs'[q] = IF q = r THEN None ELSE fs[q]
  BY DEF IsTree
<1>2. p \in Seq(STRING)
  BY PathFacts
<1>3. \A q \in Paths : q \in Way(fs', p) <=> q \in Way(fs, p) /\ q # r
  <2>1. \A q \in Paths : q \in Way(fs, p) <=> IsStrictPrefix(q, p) /\ fs[q] # None /\ KindOf[fs[q]] = "link"
    BY <1>2, LinkAbove
  <2>2. \A q \in Paths : q \in Way(fs', p) <=> IsStrictPrefix(q, p) /\ fs'[q] # None /\ KindOf[fs'[q]] = "link"
    BY <1>2, LinkAbove
  <2>3. ASSUME NEW q \in Paths PROVE q \in Way(fs', p) <=> q \in Way(fs, p) /\ q # r
    <3>1. CASE q = r
      <4>1. fs'[q] = None
        BY <1>1, <3>1
      <4> QED
        BY <2>2, <3>1, <4>1
    <3>2. CASE q # r
      <4>1. fs'[q] = fs[q]
        BY <1>1, <3>2
      <4> QED
        BY <2>1, <2>2, <3>2, <4>1
    <3> QED
      BY <3>1, <3>2
  <2> QED
    BY <2>3
<1>4. Way(fs, p) \subseteq Paths /\ Way(fs', p) \subseteq Paths
  BY <1>2, PathsOnTheWay DEF Way
<1>5. CASE r \in Way(fs, p)
  <2>1. Way(fs, p) = {r} /\ IsStrictPrefix(r, p)
    BY <1>2, <1>5, OneLinkAbove
  <2>2. Way(fs', p) = {}
    BY <1>3, <1>4, <2>1
  <2>3. Leads(fs', p) = p
    BY <2>2 DEF Leads
  <2>4. fs'[p] = None
    BY <1>1, <2>1
  <2>5. NodeIn(fs', p) = None /\ KindIn(fs', p) = None
    BY <2>3, <2>4 DEF NodeIn, KindIn
  <2> QED
    BY <2>5, InTheTree
<1>6. CASE r \notin Way(fs, p)
  <2>1. Way(fs', p) = Way(fs, p)
    BY <1>3, <1>4, <1>6
  <2>2. Leads(fs', p) = Leads(fs, p)
    BY <2>1, LeadsByWay
  <2>3. NodeIn(fs', p) = IF Leads(fs, p) = r THEN None ELSE NodeIn(fs, p)
    BY <1>1, <2>2 DEF NodeIn
  <2>4. KindIn(fs', p) = IF Leads(fs, p) = r THEN None ELSE KindIn(fs, p)
    BY <2>3 DEF KindIn
  <2> QED
    BY <2>2, <2>3, <2>4, InTheTree
<1> QED
  BY <1>5, <1>6
-----------------------------------------------------------------------------
(***************************************************************************)
(* The file commands.  The calls on the stack are records; each directory  *)
(* that is being read lists what is in it, the calls of rm and chattr are  *)
(* below an operand, and no link is between the two unless others put one  *)
(* in the way; nor is what rm took for a directory or what chattr -R looks *)
(* at a link.  ls finds no entry that has gone and was left alone.         *)
CallSet == [path : Paths, at : {"look", "act", "set", "list", "read", "deep", "open"},
            saw : {None, "file", "dir", "link", "device"}, got : SUBSET Flags, unread : SUBSET Paths]

ChildPaths(p) == {q \in Paths : Len(q) = Len(p) + 1 /\ IsPrefix(p, q)}

Within(p) ==
  \E a \in ToSet(old.args) :
    /\ IsPrefix(a, p)
    /\ Diverted \/ \A q \in Paths : IsPrefix(a, q) /\ IsStrictPrefix(q, p) => Type(q) # "link"

Enters(c) == c.at # "look" /\ ((tool = "rm" /\ c.saw = "dir") \/ (tool = "chattr" /\ "R" \in opts))

GoodCalls ==
  {c \in CallSet :
     /\ c.unread \subseteq ChildPaths(c.path)
     /\ tool \in {"rm", "chattr"} => Within(c.path)
     /\ tool = "rm" /\ c.at = "read" => c.saw = "dir"
     /\ tool = "chattr" /\ c.at \in {"open", "read"} => "R" \in opts
     /\ Enters(c) => Diverted \/ Kind(c.path) # "link"
     /\ tool = "ls" => /\ \A q \in c.unread : Alone(q) => Node(q) # None
                       /\ c.at \in {"look", "list"} => c.path \in ToSet(old.args)}

Bottom == calls[Len(calls)]

TodoSet == [dir : BOOLEAN, add : SUBSET Flags, drop : SUBSET Flags, mods : SUBSET {"+", "-", "=", "v"}]

FileShape ==
  /\ IsTree(fs) /\ calls \in Seq(GoodCalls) /\ StackDescends
  /\ mode \subseteq Inodes /\ attr \in [Inodes -> SUBSET Flags] /\ listed \subseteq Paths
  /\ others \subseteq Inodes /\ meddled \in 0 .. MaxOthers
  /\ todo \in TodoSet /\ IsTree(old.fs) /\ old.args \in Seq(Paths) /\ steady \subseteq Paths
  /\ tool \in FileNames /\ place \in {"main", "walk"} => args \in Seq(Paths)
  /\ tool \in {"rm", "ls", "chattr"} /\ place = "walk" => ToSet(args) \subseteq ToSet(old.args)

(* Before a command begins nothing has happened to the files.              *)
Pristine ==
  /\ calls = <<>> /\ mode = {} /\ listed = {} /\ cut = {} /\ planted = {} /\ others = {}
  /\ attr = [i \in Inodes |-> Flags \ {"D"}]
  /\ todo = [dir |-> FALSE, add |-> {}, drop |-> {}, mods |-> {}]
  /\ old = [fs |-> fs, args |-> <<>>]
  /\ steady = Paths
Fresh == place \notin {"walk", "done"} => Pristine

(* Only rm and mv change the tree; the rest is what others did, and so are *)
(* all the links that were not there, but for those that mv moved.         *)
OnlyOthers ==
  /\ tool \notin {"rm", "mv"} =>
       /\ \A p \in steady : fs[p] = old.fs[p]
       /\ \A p \in Paths : fs[p] \in {old.fs[p], None} \cup others
  /\ tool # "mv" => \A q \in Paths : Type(q) = "link" => q \in planted \/ fs[q] = old.fs[q]

(* rm: an operand is gone, is yet to come, or is being removed.            *)
RmInv ==
  tool = "rm" =>
    /\ place = "walk" =>
         \A a \in ToSet(old.args) :
           Alone(a) => Node(a) = None \/ a \in ToSet(args) \/ (calls # <<>> /\ a = Bottom.path)
    /\ \A p \in steady : fs[p] = old.fs[p] \/ Reached(p)

(* chmod, chown: an operand is changed or is yet to come.                  *)
SetInv ==
  tool \in {"chmod", "chown"} /\ place = "walk" =>
    \A a \in ToSet(old.args) : Alone(a) /\ Alone(Follow(a)) => a \in ToSet(args) \/ Node(Follow(a)) \in mode

(* mv: how many sources were renamed; the destination, the sources that    *)
(* are left and those that were renamed are where they are to be; and a    *)
(* file that is lost has been replaced or was moved itself.                *)
Renamings == Len(old.args) - Len(args)

InPlace ==
  /\ Way(fs, Into) = {} /\ fs[Into] = old.fs[Into]
  /\ \A k \in Renamings + 1 .. Len(old.args) - 1 :
       Way(fs, old.args[k]) = {} /\ fs[old.args[k]] \in {old.fs[old.args[k]], None}
  /\ \A k \in 1 .. Renamings :
       OldDest(old.args[k]) \in steady => fs[OldDest(old.args[k])] = old.fs[old.args[k]]

MayLose(p) == \E s \in Sources : p \in Targets(s) \/ \E r \in MayLead(s) : IsPrefix(r, p)

MvInv ==
  tool = "mv" =>
    /\ place = "walk" =>
         /\ Len(args) <= Len(old.args) /\ 1 <= Len(args) /\ 2 <= Len(old.args)
         /\ \A k \in 1 .. Len(args) : args[k] = old.args[Renamings + k]
         /\ todo.dir /\ Apart /\ ToSet(old.args) \subseteq steady => InPlace
         /\ Len(args) = 2 /\ Len(old.args) = 2 => \A p \in steady : fs[p] = old.fs[p]
    /\ \A p \in steady : old.fs[p] # None => fs[p] = old.fs[p] \/ MayLose(p)
    /\ Len(old.args) = 2 =>
         \A p \in steady :
           old.fs[p] # None =>
             \/ \E s \in Sources : p \in Targets(s)
             \/ \E q \in Paths : fs[q] = old.fs[p]
             \/ old.fs[p] \in others

(* ls: the entries of an operand are listed, or it is yet to come, to be   *)
(* opened, or being read.                                                  *)
EntriesOf(a) == {p \in ChildPaths(a) : Alone(p) /\ Node(p) # None /\ ~Skipped(p)}

LsInv ==
  tool = "ls" =>
    /\ place = "walk" /\ code = "ok" /\ "d" \notin opts =>
         \A a \in ToSet(old.args) \ cut :
           Alone(a) /\ Kind(a) = "dir" =>
             \/ a \in ToSet(args)
             \/ calls # <<>> /\ a = Bottom.path /\ Bottom.at \in {"look", "act"}
             \/ calls # <<>> /\ a = Bottom.path /\ Bottom.at = "read" /\ EntriesOf(a) \subseteq listed \cup Bottom.unread
             \/ EntriesOf(a) \subseteq listed
    /\ \A p \in listed : Alone(p) => Node(p) # None
    /\ \A p \in listed : Skipped(p) => p \in ToSet(old.args)

(* chattr: as long as it has said nothing, the flags of an operand are     *)
(* set, or it is yet to come or to be changed; with -R it changed what it  *)
(* may reach, or what others have put there.                               *)
ChattrInv ==
  tool = "chattr" =>
    /\ place = "walk" /\ said = "nothing" =>
         \A a \in ToSet(old.args) :
           Alone(a) /\ Kind(a) \in {"file", "dir"} =>
             \/ todo.add \ {"D"} \subseteq attr[Node(a)]
             \/ a \in ToSet(args)
             \/ calls # <<>> /\ a = Bottom.path /\ Bottom.at \in {"look", "act", "set"}
    /\ ChattrInside

FileInv ==
  /\ FileShape /\ Fresh /\ OnlyOthers
  /\ RmInv /\ SetInv /\ MvInv /\ LsInv /\ ChattrInv
  /\ FilesHonest /\ LsComplete

NotBegun ==
  /\ Pristine /\ IsTree(fs) /\ place # "walk" /\ meddled \in 0 .. MaxOthers
  /\ tool \in FileNames /\ place \in {"main", "walk"} => args \in Seq(Paths)

LEMMA PristineFileInv == NotBegun => FileInv
<1> SUFFICES ASSUME NotBegun PROVE FileInv
  OBVIOUS
<1>0. /\ Pristine /\ IsTree(fs) /\ place # "walk" /\ meddled \in 0 .. MaxOthers
      /\ tool \in FileNames /\ place \in {"main", "walk"} => args \in Seq(Paths)
  BY DEF NotBegun
<1>1. /\ calls = <<>> /\ mode = {} /\ listed = {} /\ others = {} /\ steady = Paths
      /\ attr = [i \in Inodes |-> Flags \ {"D"}]
      /\ todo = [dir |-> FALSE, add |-> {}, drop |-> {}, mods |-> {}]
      /\ old.fs = fs /\ old.args = <<>>
  BY <1>0 DEF Pristine
<1>2. ToSet(old.args) = {} /\ Len(old.args) = 0 /\ Sources = {}
  BY <1>1 DEF ToSet, Sources
<1>3. FileShape
  <2>1. calls \in Seq(GoodCalls) /\ StackDescends
    BY <1>1 DEF StackDescends
  <2>2. old.fs = fs /\ old.args \in Seq(Paths)
    BY <1>1
  <2>3. todo \in TodoSet
    BY <1>1 DEF TodoSet
  <2>4. others \subseteq Inodes /\ meddled \in 0 .. MaxOthers
    BY <1>0, <1>1
  <2>5. mode \subseteq Inodes /\ attr \in [Inodes -> SUBSET Flags] /\ listed \subseteq Paths /\ steady \subseteq Paths
    BY <1>1
  <2> QED
    BY <1>0, <2>1, <2>2, <2>3, <2>4, <2>5 DEF FileShape
<1>4. Fresh /\ OnlyOthers
  <2>1. \A p \in Paths : fs[p] = old.fs[p]
    BY <1>1
  <2> QED
    BY <1>0, <1>1, <2>1 DEF Fresh, OnlyOthers
<1>5. RmInv /\ SetInv /\ LsInv
  BY <1>0, <1>1 DEF RmInv, SetInv, LsInv
<1>6. MvInv
  BY <1>0, <1>1, <1>2 DEF MvInv
<1>7. ChattrInv
  BY <1>0, <1>1 DEF ChattrInv, ChattrInside
<1>8. FilesHonest /\ LsComplete
  BY <1>1, <1>2 DEF FilesHonest, LsComplete
<1> QED
  BY <1>3, <1>4, <1>5, <1>6, <1>7, <1>8 DEF FileInv

LEMMA InitFileInv ==
  ASSUME Init
  PROVE  FileInv
<1>1. Pristine /\ place = "find" /\ fs \in Trees /\ meddled = 0
  BY DEF Init, ToolInit, FileInit, Pristine
<1>2. IsTree(fs)
  BY <1>1, TreesAssumption
<1>3. meddled \in 0 .. MaxOthers
  BY <1>1, InodesAssumption
<1> QED
  BY <1>1, <1>2, <1>3, PristineFileInv DEF NotBegun

(* The steps of the other commands.                                        *)
LEMMA ElsewhereKeepsFileInv ==
  ASSUME FileInv, UNCHANGED fileVars, place \notin {"walk", "done"}, place' # "walk",
         tool' \in FileNames /\ place' \in {"main", "walk"} => args' \in Seq(Paths)
  PROVE  FileInv'
<1>1. Pristine /\ IsTree(fs) /\ meddled \in 0 .. MaxOthers
  BY DEF FileInv, Fresh, FileShape
<1>2. NotBegun'
  BY <1>1 DEF NotBegun, Pristine, fileVars, othersVars, IsTree
<1>3. NotBegun' => FileInv'
  BY PristineFileInv, PTL
<1> QED
  BY <1>2, <1>3

(* The stack: another top, one more call, one less.                        *)
LEMMA AnotherTop ==
  ASSUME NEW C, NEW D, C \subseteq D, NEW s \in Seq(C), s # <<>>, NEW d \in D, NEW t,
         t = [s EXCEPT ![1] = d]
  PROVE  /\ t \in Seq(D) /\ t # <<>> /\ Len(t) = Len(s) /\ Len(s) \in Nat /\ 1 <= Len(s)
         /\ t[1] = d /\ \A k \in 2 .. Len(s) : t[k] = s[k]
<1>1. s \in Seq(D)
  BY SeqMonotonic
<1>2. Len(s) \in Nat /\ 1 <= Len(s)
  BY LenProperties, EmptySeq
<1>3. 1 \in 1 .. Len(s)
  BY <1>2
<1>4. t \in Seq(D) /\ Len(t) = Len(s) /\ \A j \in 1 .. Len(s) : t[j] = IF j = 1 THEN d ELSE s[j]
  BY <1>1, <1>3, ExceptSeq
<1>5. \A k \in 2 .. Len(s) : k \in 1 .. Len(s) /\ k # 1
  BY <1>2
<1>6. t # <<>>
  BY <1>2, <1>4, EmptySeq
<1> QED
  BY <1>2, <1>3, <1>4, <1>5, <1>6

LEMMA OneMore ==
  ASSUME NEW C, NEW s \in Seq(C), NEW c \in C, NEW t, t = <<c>> \o s
  PROVE  /\ t \in Seq(C) /\ t # <<>> /\ Len(t) = Len(s) + 1 /\ Len(s) \in Nat
         /\ t[1] = c /\ \A k \in 1 .. Len(s) : t[k + 1] = s[k]
<1> DEFINE one == <<c>>
<1>1. one \in Seq(C) /\ Len(one) = 1 /\ one[1] = c
  OBVIOUS
<1> HIDE DEF one
<1>2. Len(s) \in Nat
  BY LenProperties
<1>3. t = one \o s
  BY DEF one
<1>4. t \in Seq(C)
  BY <1>1, <1>3, ConcatProperties
<1>5. Len(t) = Len(one) + Len(s)
  BY <1>1, <1>3, ConcatProperties
<1>6. \A i \in 1 .. Len(one) + Len(s) : t[i] = IF i <= Len(one) THEN one[i] ELSE s[i - Len(one)]
  BY <1>1, <1>3, ConcatProperties
<1>7. Len(t) = Len(s) + 1
  BY <1>1, <1>2, <1>5
<1>8. t[1] = c
  <2>1. 1 \in 1 .. Len(one) + Len(s) /\ 1 <= Len(one)
    BY <1>1, <1>2
  <2> QED
    BY <1>1, <1>6, <2>1
<1>9. \A k \in 1 .. Len(s) : t[k + 1] = s[k]
  <2>1. \A k \in 1 .. Len(s) : k + 1 \in 1 .. Len(one) + Len(s) /\ ~(k + 1 <= Len(one)) /\ (k + 1) - Len(one) = k
    BY <1>1, <1>2
  <2> QED
    BY <1>6, <2>1
<1>10. t # <<>>
  BY <1>2, <1>4, <1>7, EmptySeq
<1> QED
  BY <1>2, <1>4, <1>7, <1>8, <1>9, <1>10

LEMMA OneLess ==
  ASSUME NEW C, NEW s \in Seq(C), s # <<>>, NEW t, t = Tail(s)
  PROVE  /\ t \in Seq(C) /\ Len(t) = Len(s) - 1 /\ Len(s) \in Nat /\ 1 <= Len(s)
         /\ \A k \in 1 .. Len(t) : t[k] = s[k + 1]
<1>1. Len(s) \in Nat /\ 1 <= Len(s)
  BY LenProperties, EmptySeq
<1> QED
  BY <1>1, HeadTailProperties

(* What these do to the stack of calls, and to the call at its bottom.     *)
LEMMA TopChanges ==
  ASSUME calls \in Seq(GoodCalls), StackDescends, GoodCalls \subseteq GoodCalls',
         calls # <<>>, NEW d \in GoodCalls', d.path = Top.path, calls' = [calls EXCEPT ![1] = d]
  PROVE  /\ calls' \in Seq(GoodCalls)' /\ StackDescends' /\ calls' # <<>>
         /\ Bottom' = IF Len(calls) = 1 THEN d ELSE Bottom
         /\ Bottom.path = Bottom'.path
<1> DEFINE G == GoodCalls
           H == GoodCalls'
<1>0. calls \in Seq(G) /\ G \subseteq H /\ d \in H
  OBVIOUS
<1> HIDE DEF G, H
<1>1. /\ calls' \in Seq(H) /\ calls' # <<>> /\ Len(calls') = Len(calls) /\ Len(calls) \in Nat /\ 1 <= Len(calls)
      /\ calls'[1] = d /\ \A k \in 2 .. Len(calls) : calls'[k] = calls[k]
  BY <1>0, AnotherTop
<1>2. \A k \in 1 .. Len(calls) : calls'[k].path = calls[k].path
  <2>1. \A k \in 1 .. Len(calls) : k = 1 \/ k \in 2 .. Len(calls)
    BY <1>1
  <2> QED
    BY <1>1, <2>1 DEF Top
<1>3. StackDescends'
  <2>1. \A k \in 1 .. Len(calls) - 1 : k \in 1 .. Len(calls) /\ k + 1 \in 1 .. Len(calls)
    BY <1>1
  <2>2. ASSUME NEW k \in 1 .. Len(calls') - 1
        PROVE  /\ Len(calls'[k].path) = Len(calls'[k + 1].path) + 1
               /\ IsPrefix(calls'[k + 1].path, calls'[k].path)
    <3>1. k \in 1 .. Len(calls) - 1 /\ calls'[k].path = calls[k].path /\ calls'[k + 1].path = calls[k + 1].path
      BY <1>1, <1>2, <2>1, <2>2
    <3> QED
      BY <3>1 DEF StackDescends
  <2> QED
    BY <2>2 DEF StackDescends
<1>4. Bottom' = (IF Len(calls) = 1 THEN d ELSE Bottom) /\ Bottom.path = Bottom'.path
  <2>1. Len(calls) # 1 => Len(calls) \in 2 .. Len(calls)
    BY <1>1
  <2>2. Len(calls) \in 1 .. Len(calls)
    BY <1>1
  <2> QED
    BY <1>1, <1>2, <2>1, <2>2 DEF Bottom
<1> QED
  BY <1>1, <1>3, <1>4 DEF H

LEMMA CallPushed ==
  ASSUME calls \in Seq(GoodCalls), StackDescends, GoodCalls \subseteq GoodCalls', calls # <<>>,
         NEW c \in GoodCalls', c.path \in Top.unread,
         NEW d \in GoodCalls', d.path = Top.path, calls' = <<c>> \o [calls EXCEPT ![1] = d]
  PROVE  /\ calls' \in Seq(GoodCalls)' /\ StackDescends' /\ calls' # <<>>
         /\ Bottom' = IF Len(calls) = 1 THEN d ELSE Bottom
         /\ Bottom.path = Bottom'.path
<1> DEFINE G == GoodCalls
           H == GoodCalls'
           s == [calls EXCEPT ![1] = d]
           h == Len(calls)
<1>0. calls \in Seq(G) /\ G \subseteq H /\ d \in H /\ c \in H
  OBVIOUS
<1>1. Top \in G
  BY LenProperties, EmptySeq, ElementOfSeq DEF Top
<1>2. Len(c.path) = Len(Top.path) + 1 /\ IsPrefix(Top.path, c.path)
  BY <1>1 DEF GoodCalls, ChildPaths
<1> HIDE DEF G, H, s, h
<1>3. /\ s \in Seq(H) /\ s # <<>> /\ Len(s) = h /\ h \in Nat /\ 1 <= h
      /\ s[1] = d /\ \A k \in 2 .. h : s[k] = calls[k]
  <2>1. s = [calls EXCEPT ![1] = d]
    BY DEF s
  <2> QED
    BY <1>0, <2>1, AnotherTop DEF h
<1>4. /\ calls' \in Seq(H) /\ calls' # <<>> /\ Len(calls') = h + 1
      /\ calls'[1] = c /\ \A k \in 1 .. h : calls'[k + 1] = s[k]
  <2>1. calls' = <<c>> \o s
    BY DEF s
  <2> QED
    BY <1>0, <1>3, <2>1, OneMore
<1>5. \A k \in 1 .. h : calls'[k + 1].path = calls[k].path
  <2>1. \A k \in 1 .. h : k = 1 \/ k \in 2 .. h
    BY <1>3
  <2> QED
    BY <1>3, <1>4, <2>1 DEF Top
<1>6. StackDescends'
  <2>1. ASSUME NEW k \in 1 .. Len(calls') - 1
        PROVE  /\ Len(calls'[k].path) = Len(calls'[k + 1].path) + 1
               /\ IsPrefix(calls'[k + 1].path, calls'[k].path)
    <3>1. CASE k = 1
      <4>1. calls'[1] = c /\ calls'[1 + 1].path = Top.path
        BY <1>3, <1>4, <1>5 DEF Top
      <4> QED
        BY <1>2, <3>1, <4>1
    <3>2. CASE k # 1
      <4> DEFINE j == k - 1
      <4>1. j \in 1 .. h - 1 /\ k = j + 1 /\ j \in 1 .. h /\ j + 1 \in 1 .. h
        BY <1>3, <1>4, <2>1, <3>2
      <4> HIDE DEF j
      <4>2. calls'[k].path = calls[j].path /\ calls'[k + 1].path = calls[j + 1].path
        BY <1>5, <4>1
      <4>3. j \in 1 .. Len(calls) - 1
        BY <4>1 DEF h
      <4> QED
        BY <4>2, <4>3 DEF StackDescends
    <3> QED
      BY <3>1, <3>2
  <2> QED
    BY <2>1 DEF StackDescends
<1>7. Bottom' = (IF h = 1 THEN d ELSE Bottom) /\ Bottom.path = Bottom'.path
  <2>1. h \in 1 .. h /\ (h # 1 => h \in 2 .. h)
    BY <1>3
  <2>2. Bottom' = s[h]
    BY <1>4, <2>1 DEF Bottom
  <2>3. Bottom = calls[h]
    BY DEF Bottom, h
  <2> QED
    BY <1>3, <1>4, <1>5, <2>1, <2>2, <2>3 DEF Top
<1> QED
  BY <1>4, <1>6, <1>7 DEF H, h

LEMMA CallReturns ==
  ASSUME calls \in Seq(GoodCalls), StackDescends, GoodCalls \subseteq GoodCalls', calls # <<>>, Return
  PROVE  /\ calls' \in Seq(GoodCalls)' /\ StackDescends'
         /\ Len(calls) = 1 => calls' = <<>> /\ Bottom = Top
         /\ Len(calls) # 1 => calls' # <<>> /\ Bottom' = Bottom
<1> DEFINE G == GoodCalls
           H == GoodCalls'
           h == Len(calls)
<1>0. calls \in Seq(G) /\ G \subseteq H /\ calls' = Tail(calls)
  BY DEF Return
<1> HIDE DEF G, H, h
<1>1. calls \in Seq(H)
  BY <1>0, SeqMonotonic
<1>2. /\ calls' \in Seq(H) /\ Len(calls') = h - 1 /\ h \in Nat /\ 1 <= h
      /\ \A k \in 1 .. Len(calls') : calls'[k] = calls[k + 1]
  BY <1>0, <1>1, OneLess DEF h
<1>3. StackDescends'
  <2>1. ASSUME NEW k \in 1 .. Len(calls') - 1
        PROVE  /\ Len(calls'[k].path) = Len(calls'[k + 1].path) + 1
               /\ IsPrefix(calls'[k + 1].path, calls'[k].path)
    <3> DEFINE j == k + 1
    <3>1. j \in 1 .. h - 1 /\ k \in 1 .. Len(calls') /\ k + 1 \in 1 .. Len(calls')
      BY <1>2, <2>1
    <3>2. calls'[k] = calls[j] /\ calls'[k + 1] = calls[j + 1]
      BY <1>2, <3>1
    <3> HIDE DEF j
    <3>3. j \in 1 .. Len(calls) - 1
      BY <3>1 DEF h
    <3> QED
      BY <3>2, <3>3 DEF StackDescends
  <2> QED
    BY <2>1 DEF StackDescends
<1>4. h = 1 => calls' = <<>> /\ Bottom = Top
  <2>1. h = 1 => Len(calls') = 0
    BY <1>2
  <2> QED
    BY <1>2, <2>1, EmptySeq DEF Bottom, Top, h
<1>5. h # 1 => calls' # <<>> /\ Bottom' = Bottom
  <2> SUFFICES ASSUME h # 1 PROVE calls' # <<>> /\ Bottom' = Bottom
    OBVIOUS
  <2>1. Len(calls') \in 1 .. Len(calls') /\ Len(calls') + 1 = h /\ Len(calls') # 0
    BY <1>2
  <2>2. Bottom' = calls[h]
    BY <1>2, <2>1 DEF Bottom
  <2> QED
    BY <2>1, <2>2, EmptySeq DEF Bottom, h
<1> QED
  BY <1>2, <1>3, <1>4, <1>5 DEF H, h

LEMMA FirstCall ==
  ASSUME NEW c \in GoodCalls', calls' = <<c>>
  PROVE  calls' \in Seq(GoodCalls)' /\ StackDescends' /\ calls' # <<>> /\ Bottom' = c
<1> DEFINE H == GoodCalls'
<1>0. c \in H
  OBVIOUS
<1> HIDE DEF H
<1>1. calls' \in Seq(H) /\ Len(calls') = 1 /\ calls'[1] = c /\ calls' # <<>>
  BY <1>0
<1> QED
  BY <1>1 DEF H, StackDescends, Bottom

LEMMA NoCall ==
  ASSUME calls' = <<>>
  PROVE  calls' \in Seq(GoodCalls)' /\ StackDescends'
BY DEF StackDescends
-----------------------------------------------------------------------------
(* What a command may reach.                                               *)
LEMMA OperandsArePaths ==
  ASSUME old.args \in Seq(Paths)
  PROVE  ToSet(old.args) \subseteq Paths
BY DEF ToSet

LEMMA Where ==
  ASSUME IsTree(fs), IsTree(old.fs), old.args \in Seq(Paths), NEW p \in Paths, Within(p),
         \A q \in Paths : Type(q) = "link" => q \in planted \/ fs[q] = old.fs[q]
  PROVE  Reached(Real(p))
<1>1. PICK a \in ToSet(old.args) :
        /\ IsPrefix(a, p)
        /\ Diverted \/ \A q \in Paths : IsPrefix(a, q) /\ IsStrictPrefix(q, p) => Type(q) # "link"
  BY DEF Within
<1>2. a \in Paths /\ a \in Seq(STRING) /\ p \in Seq(STRING) /\ LinkTo \in Seq(STRING)
  BY OperandsArePaths, PathFacts, PathsAssumption
<1>3. CASE Way(fs, p) = {}
  <2>1. Real(p) = p
    BY <1>3, FileAt
  <2> QED
    BY <1>1, <2>1 DEF Reached, Asked
<1>4. ASSUME NEW q \in Way(fs, p) PROVE Reached(Real(p))
  <2>1. /\ q \in Paths /\ IsStrictPrefix(q, p) /\ fs[q] # None /\ KindOf[fs[q]] = "link"
        /\ Leads(fs, p) = Graft(LinkTo, q, p) /\ IsPrefix(LinkTo, Leads(fs, p))
    BY <1>2, OneLinkAbove
  <2>2. Type(q) = "link" /\ IsPrefix(q, p) /\ q \in Seq(STRING) /\ Len(q) \in Nat /\ Len(a) \in Nat
    BY <1>2, <2>1, PathFacts DEF Type, IsStrictPrefix
  <2>3. CASE Diverted
    BY <2>1, <2>3 DEF Reached, Real
  <2>4. CASE ~Diverted
    <3>1. ~IsPrefix(a, q)
      BY <1>1, <2>1, <2>2, <2>4
    <3>2. IsPrefix(q, a) /\ q # a
      BY <1>1, <1>2, <2>2, <3>1, PrefixesNest, PathFacts
    <3>3. q \notin planted
      BY <2>4, <3>2 DEF Diverted, Near
    <3>4. old.fs[q] # None /\ KindOf[old.fs[q]] = "link" /\ IsStrictPrefix(q, a)
      BY <2>1, <2>2, <3>2, <3>3 DEF IsStrictPrefix
    <3>5. q \in Way(old.fs, a)
      BY <1>2, <2>1, <3>4, LinkAbove
    <3>6. Leads(old.fs, a) = Graft(LinkTo, q, a)
      BY <1>2, <3>5, OneLinkAbove
    <3>7. IsPrefix(Graft(LinkTo, q, a), Graft(LinkTo, q, p))
      <4>1. CASE a = p
        <5>1. Graft(LinkTo, q, p) \in Seq(STRING)
          BY <1>2, <2>2, Grafted
        <5> QED
          BY <4>1, <5>1, PrefixItself
      <4>2. CASE a # p
        <5>1. IsStrictPrefix(a, p)
          BY <1>1, <4>2 DEF IsStrictPrefix
        <5>2. IsStrictPrefix(Graft(LinkTo, q, a), Graft(LinkTo, q, p))
          BY <1>2, <2>2, <3>2, <5>1, GraftMonotone
        <5> QED
          BY <5>2 DEF IsStrictPrefix
      <4> QED
        BY <4>1, <4>2
    <3> QED
      BY <2>1, <3>6, <3>7 DEF Reached, Asked, Real
  <2> QED
    BY <2>3, <2>4
<1> QED
  BY <1>3, <1>4

(* An entry of a directory.                                                *)
LEMMA ChildWithin ==
  ASSUME IsTree(fs), old.args \in Seq(Paths), NEW p \in Paths, Within(p),
         Diverted \/ Kind(p) # "link", NEW q \in ChildPaths(p)
  PROVE  Within(q)
<1>1. PICK a \in ToSet(old.args) :
        /\ IsPrefix(a, p)
        /\ Diverted \/ \A r \in Paths : IsPrefix(a, r) /\ IsStrictPrefix(r, p) => Type(r) # "link"
  BY DEF Within
<1>2. a \in Seq(STRING) /\ p \in Seq(STRING) /\ q \in Seq(STRING) /\ IsPrefix(p, q) /\ Len(q) = Len(p) + 1
  BY OperandsArePaths, PathFacts DEF ChildPaths
<1>3. IsPrefix(a, q)
  BY <1>1, <1>2, PrefixTransitive
<1>4. ASSUME ~Diverted, NEW r \in Paths, IsPrefix(a, r), IsStrictPrefix(r, q) PROVE Type(r) # "link"
  <2>1. r \in Seq(STRING) /\ IsPrefix(r, q) /\ r # q /\ Len(r) \in Nat /\ Len(p) \in Nat
    BY <1>2, <1>4, PathFacts, LenProperties DEF IsStrictPrefix
  <2>2. IsPrefix(r, p)
    <3>1. Len(r) <= Len(q) /\ ~(Len(q) <= Len(r))
      BY <1>2, <2>1, PrefixMeans, PrefixSameLength
    <3>2. Len(r) <= Len(p)
      BY <1>2, <2>1, <3>1
    <3> QED
      BY <1>2, <2>1, <3>2, PrefixesNest
  <2>3. CASE r = p
    <3>1. Type(p) = "link" => Kind(p) = "link"
      BY FileAt DEF Type, None
    <3> QED
      BY <1>4, <2>3, <3>1
  <2>4. CASE r # p
    BY <1>1, <1>4, <2>2, <2>4 DEF IsStrictPrefix
  <2> QED
    BY <2>3, <2>4
<1> QED
  BY <1>3, <1>4 DEF Within

(* As long as neither the tree nor what others did to it changes, neither  *)
(* do these.                                                               *)
Calm == UNCHANGED <<tool, opts, fs, old, steady, planted>>

LEMMA CalmReach ==
  ASSUME Calm
  PROVE  /\ \A p : /\ Reached(p)' <=> Reached(p)
                   /\ Within(p)' <=> Within(p)
                   /\ Alone(p)' <=> Alone(p)
                   /\ Real(p)' = Real(p) /\ Node(p)' = Node(p) /\ Kind(p)' = Kind(p)
                   /\ Follow(p)' = Follow(p) /\ Skipped(p)' = Skipped(p)
         /\ Diverted' <=> Diverted
<1>1. fs' = fs /\ old' = old /\ steady' = steady /\ planted' = planted /\ opts' = opts
  BY DEF Calm
<1>2. \A p : Near(p)' <=> Near(p)
  BY <1>1 DEF Near, Asked
<1>3. Diverted' <=> Diverted
  BY <1>1, <1>2 DEF Diverted
<1>4. \A p : Reached(p)' <=> Reached(p)
  BY <1>1, <1>3 DEF Reached, Asked
<1>5. \A p : Within(p)' <=> Within(p)
  BY <1>1, <1>3 DEF Within, Type
<1>6. \A p : Skipped(p)' = Skipped(p)
  BY <1>1 DEF Skipped
<1> QED
  BY <1>1, <1>3, <1>4, <1>5, <1>6, SameTree

LEMMA CalmCalls ==
  ASSUME Calm
  PROVE  GoodCalls \subseteq GoodCalls'
<1> SUFFICES ASSUME NEW c \in GoodCalls PROVE c \in GoodCalls'
  OBVIOUS
<1>1. tool' = tool /\ opts' = opts /\ old' = old
  BY DEF Calm
<1>2. /\ c \in CallSet /\ c.unread \subseteq ChildPaths(c.path)
      /\ tool \in {"rm", "chattr"} => Within(c.path)
      /\ tool = "rm" /\ c.at = "read" => c.saw = "dir"
      /\ tool = "chattr" /\ c.at \in {"open", "read"} => "R" \in opts
      /\ Enters(c) => Diverted \/ Kind(c.path) # "link"
      /\ tool = "ls" => /\ \A q \in c.unread : Alone(q) => Node(q) # None
                        /\ c.at \in {"look", "list"} => c.path \in ToSet(old.args)
  BY DEF GoodCalls
<1>3. Enters(c)' <=> Enters(c)
  BY <1>1 DEF Enters
<1>4. (\A q \in c.unread : Alone(q) => Node(q) # None) => (\A q \in c.unread : Alone(q)' => Node(q)' # None)
  BY CalmReach
<1>5. (Within(c.path) => Within(c.path)') /\ (Diverted => Diverted') /\ Kind(c.path)' = Kind(c.path)
  BY CalmReach
<1> QED
  BY <1>1, <1>2, <1>3, <1>4, <1>5 DEF GoodCalls

(* Until the end there is nothing to answer for.                           *)
LEMMA NotYetDone ==
  ASSUME place' # "done"
  PROVE  FilesHonest' /\ LsComplete' /\ (place' = "walk" => Fresh')
BY DEF FilesHonest, LsComplete, Succeeded, Fresh

(* A prefix and the rest: Head and Tail.                                   *)
LEMMA HeadAndTail ==
  ASSUME NEW S, NEW s \in Seq(S), s # <<>>
  PROVE  /\ Head(s) \in S /\ Tail(s) \in Seq(S) /\ Head(s) = s[1]
         /\ ToSet(s) = {Head(s)} \cup ToSet(Tail(s))
         /\ Len(Tail(s)) = Len(s) - 1 /\ Len(s) \in Nat /\ 1 <= Len(s)
         /\ \A k \in 1 .. Len(Tail(s)) : Tail(s)[k] = s[k + 1]
<1>1. Len(s) \in Nat /\ 1 <= Len(s)
  BY LenProperties, EmptySeq
<1>2. /\ Head(s) \in S /\ Tail(s) \in Seq(S) /\ Head(s) = s[1] /\ Len(Tail(s)) = Len(s) - 1
      /\ \A k \in 1 .. Len(Tail(s)) : Tail(s)[k] = s[k + 1]
  BY <1>1
<1>3. ToSet(s) = {s[k] : k \in 1 .. Len(s)} /\ ToSet(Tail(s)) = {Tail(s)[k] : k \in 1 .. Len(Tail(s))}
  <2>1. \A t \in Seq(S) : ToSet(t) = {t[k] : k \in 1 .. Len(t)}
    BY DEF ToSet
  <2> QED
    BY <1>2, <2>1
<1>4. ASSUME NEW k \in 1 .. Len(s) PROVE s[k] = Head(s) \/ s[k] \in ToSet(Tail(s))
  <2>1. k = 1 \/ (k - 1 \in 1 .. Len(Tail(s)) /\ (k - 1) + 1 = k)
    BY <1>1, <1>2
  <2> QED
    BY <2>1, <1>2, <1>3
<1>5. \A k \in 1 .. Len(Tail(s)) : k + 1 \in 1 .. Len(s)
  BY <1>1, <1>2
<1>6. 1 \in 1 .. Len(s)
  BY <1>1
<1> QED
  BY <1>1, <1>2, <1>3, <1>4, <1>5, <1>6

(* A command begins.                                                       *)
LEMMA BeginningKeepsFileInv ==
  ASSUME FileInv, place = "main", tool \in FileNames, Begin(args'), args' \in Seq(Paths),
         UNCHANGED <<direct, tool, opts, code, calls, fs, mode, attr, listed, cut>>,
         todo' \in TodoSet, tool = "mv" => 2 <= Len(args')
  PROVE  FileInv'
<1>1. Pristine /\ IsTree(fs) /\ FileShape
  BY DEF FileInv, Fresh, FileShape
<1>2. /\ calls' = <<>> /\ mode' = {} /\ listed' = {} /\ others' = {} /\ planted' = {} /\ steady' = Paths
      /\ attr' = [i \in Inodes |-> Flags \ {"D"}] /\ place' = "walk" /\ meddled' = meddled
      /\ old'.fs = fs' /\ old'.args = args'
  BY <1>1 DEF Pristine, Begin
<1>3. FileShape'
  <2>1. calls' \in Seq(GoodCalls)' /\ StackDescends'
    BY <1>2, NoCall
  <2>2. IsTree(fs)' /\ IsTree(old.fs)'
    BY <1>1, <1>2 DEF IsTree
  <2>3. mode' \subseteq Inodes /\ attr' \in [Inodes -> SUBSET Flags] /\ listed' \subseteq Paths /\ steady' \subseteq Paths
    BY <1>2
  <2>4. others' \subseteq Inodes /\ meddled' \in 0 .. MaxOthers
    BY <1>1, <1>2 DEF FileShape
  <2>5. old'.args \in Seq(Paths) /\ ToSet(args') \subseteq ToSet(old'.args)
    BY <1>2
  <2> QED
    BY <2>1, <2>2, <2>3, <2>4, <2>5 DEF FileShape
<1>4. \A p \in Paths : fs'[p] = old'.fs[p]
  BY <1>2
<1>5. OnlyOthers'
  BY <1>2, <1>4 DEF OnlyOthers
<1>6. RmInv' /\ SetInv' /\ LsInv'
  BY <1>2, <1>4 DEF RmInv, SetInv, LsInv
<1>7. ChattrInv'
  BY <1>2 DEF ChattrInv, ChattrInside
<1>8. MvInv'
  <2> SUFFICES ASSUME tool = "mv" PROVE MvInv'
    BY DEF MvInv
  <2>1. 2 <= Len(args') /\ Len(args') \in Nat /\ old'.args = args'
    BY <1>2, LenProperties
  <2>2. Renamings' = 0
    BY <2>1 DEF Renamings
  <2>3. \A k \in 1 .. Len(args') : args'[k] = old'.args[0 + k]
    BY <2>1
  <2>4. ASSUME Apart' PROVE InPlace'
    <3>1. \A k \in 1 .. Len(old'.args) : Way(fs', old'.args[k]) = {}
      <4>1. \A a \in ToSet(old'.args) : Way(old'.fs, a) = {}
        BY <2>4 DEF Apart
      <4>2. \A k \in 1 .. Len(old'.args) : old'.args[k] \in ToSet(old'.args)
        BY DEF ToSet
      <4> QED
        BY <1>2, <4>1, <4>2
    <3>2. Into' = old'.args[Len(old'.args)] /\ Len(old'.args) \in 1 .. Len(old'.args)
      BY <2>1 DEF Into, Last
    <3>3. Way(fs', Into') = {} /\ fs'[Into'] = old'.fs[Into']
      BY <1>2, <3>1, <3>2
    <3>4. \A k \in 0 + 1 .. Len(old'.args) - 1 : k \in 1 .. Len(old'.args)
      BY <2>1
    <3>5. \A k \in 0 + 1 .. Len(old'.args) - 1 :
            Way(fs', old'.args[k]) = {} /\ fs'[old'.args[k]] \in {old'.fs[old'.args[k]], None}
      BY <1>2, <3>1, <3>4
    <3>6. \A k \in 1 .. 0 : FALSE
      OBVIOUS
    <3> QED
      BY <2>2, <3>3, <3>5, <3>6 DEF InPlace
  <2> QED
    BY <1>2, <1>4, <2>1, <2>2, <2>3, <2>4 DEF MvInv
<1> QED
  BY <1>2, <1>3, <1>5, <1>6, <1>7, <1>8, NotYetDone DEF FileInv

(* A command ends.                                                         *)
LEMMA EndingKeepsFileInv ==
  ASSUME FileInv, place = "walk", place' = "done", calls' = <<>> \/ calls' = calls,
         UNCHANGED <<tool, opts, fs, mode, attr, listed, cut, todo, old, othersVars>>,
         FilesHonest', LsComplete'
  PROVE  FileInv'
<1>0. /\ FileShape /\ calls \in Seq(GoodCalls) /\ StackDescends /\ Calm
      /\ UNCHANGED <<others, meddled>>
  BY DEF FileInv, FileShape, Calm, othersVars
<1>1. FileShape'
  <2>1. GoodCalls \subseteq GoodCalls'
    BY <1>0, CalmCalls
  <2>2. ASSUME calls' = calls PROVE calls' \in Seq(GoodCalls)' /\ StackDescends'
    <3>1. calls' \in Seq(GoodCalls')
      BY <2>1, <2>2, <1>0
    <3> QED
      BY <3>1, <2>2, <1>0 DEF StackDescends
  <2>3. calls' \in Seq(GoodCalls)' /\ StackDescends'
    BY <2>2, NoCall
  <2> QED
    BY <2>3, <1>0 DEF FileShape, IsTree, Calm
<1>2. OnlyOthers'
  BY <1>0 DEF FileInv, OnlyOthers, Calm, Type
<1>3. RmInv'
  <2>1. tool = "rm" => \A p \in steady : fs[p] = old.fs[p] \/ Reached(p)
    BY DEF FileInv, RmInv
  <2>2. tool = "rm" => \A p \in steady' : fs'[p] = old'.fs[p] \/ Reached(p)'
    BY <1>0, <2>1, CalmReach DEF Calm
  <2> QED
    BY <1>0, <2>2 DEF RmInv, Calm
<1>4. SetInv'
  BY DEF SetInv
<1>5. LsInv'
  <2>1. tool = "ls" => /\ \A p \in listed : Alone(p) => Node(p) # None
                       /\ \A p \in listed : Skipped(p) => p \in ToSet(old.args)
    BY DEF FileInv, LsInv
  <2>2. tool = "ls" => /\ \A p \in listed' : Alone(p)' => Node(p)' # None
                       /\ \A p \in listed' : Skipped(p)' => p \in ToSet(old'.args)
    BY <1>0, <2>1, CalmReach DEF Calm
  <2> QED
    BY <1>0, <2>2 DEF LsInv, Calm
<1>6. ChattrInv'
  <2>1. tool = "chattr" => ChattrInside
    BY DEF FileInv, ChattrInv
  <2>2. tool = "chattr" => ChattrInside'
    BY <1>0, <2>1, CalmReach DEF ChattrInside, Calm
  <2> QED
    BY <1>0, <2>2 DEF ChattrInv, Calm
<1>7. MvInv'
  <2>1. Sources' = Sources /\ \A s : Targets(s)' = Targets(s)
    BY <1>0 DEF Sources, Targets, FullDest, Calm
  <2>2. \A p : MayLose(p)' <=> MayLose(p)
    BY <2>1 DEF MayLose
  <2>3. MvInv
    BY DEF FileInv
  <2> SUFFICES ASSUME tool = "mv" PROVE MvInv'
    BY <1>0 DEF MvInv, Calm
  <2>4. \A p \in steady' : old'.fs[p] # None => fs'[p] = old'.fs[p] \/ MayLose(p)'
    BY <1>0, <2>2, <2>3 DEF MvInv, Calm
  <2>5. Len(old'.args) = 2 =>
          \A p \in steady' :
            old'.fs[p] # None =>
              \/ \E s \in Sources' : p \in Targets(s)'
              \/ \E q \in Paths : fs'[q] = old'.fs[p]
              \/ old'.fs[p] \in others'
    BY <1>0, <2>1, <2>3 DEF MvInv, Calm
  <2> QED
    BY <2>4, <2>5 DEF MvInv
<1>8. Fresh'
  BY DEF Fresh
<1> QED
  BY <1>1, <1>2, <1>3, <1>4, <1>5, <1>6, <1>7, <1>8 DEF FileInv

(* A command goes on.                                                      *)
LEMMA WalkingKeepsFileInv ==
  ASSUME FileInv, place = "walk", place' = "walk", UNCHANGED <<tool, todo, old, othersVars>>,
         calls' \in Seq(GoodCalls)', StackDescends', IsTree(fs'),
         args' \in Seq(Paths), tool \in {"rm", "ls", "chattr"} => ToSet(args') \subseteq ToSet(args),
         mode' \subseteq Inodes, attr' \in [Inodes -> SUBSET Flags], listed' \subseteq Paths,
         OnlyOthers', RmInv', SetInv', MvInv', LsInv', ChattrInv'
  PROVE  FileInv'
<1>1. FileShape'
  <2>1. FileShape
    BY DEF FileInv
  <2>2. others' = others /\ meddled' = meddled /\ steady' = steady /\ old' = old /\ todo' = todo /\ tool' = tool
    BY DEF othersVars
  <2>3. IsTree(old'.fs) /\ old'.args \in Seq(Paths) /\ steady' \subseteq Paths /\ others' \subseteq Inodes
        /\ meddled' \in 0 .. MaxOthers /\ todo' \in TodoSet
    BY <2>1, <2>2 DEF FileShape
  <2>4. tool' \in {"rm", "ls", "chattr"} => ToSet(args') \subseteq ToSet(old'.args)
    BY <2>1, <2>2 DEF FileShape
  <2> QED
    BY <2>3, <2>4 DEF FileShape
<1> QED
  BY <1>1, NotYetDone DEF FileInv

(* The tree does not change: every call stays a good one.                  *)
LEMMA NextOperandCalls ==
  ASSUME FileInv, NextOperand
  PROVE  /\ calls' \in Seq(GoodCalls)' /\ StackDescends' /\ calls' # <<>> /\ Calm
         /\ Bottom'.path = Head(args) /\ Bottom'.at = "look"
         /\ args' \in Seq(Paths) /\ ToSet(args) = {Head(args)} \cup ToSet(args')
<1>1. /\ args \in Seq(Paths) /\ args # <<>> /\ ToSet(args) \subseteq ToSet(old.args)
      /\ Calm
  BY DEF FileInv, FileShape, NextOperand, FileNames, Calm, othersVars
<1>2. /\ Head(args) \in Paths /\ args' \in Seq(Paths) /\ ToSet(args) = {Head(args)} \cup ToSet(args')
  BY <1>1, HeadAndTail DEF NextOperand
<1>3. Within(Head(args))
  <2>1. Head(args) \in Seq(STRING) /\ IsPrefix(Head(args), Head(args)) /\ Head(args) \in ToSet(old.args)
    BY <1>1, <1>2, PathFacts
  <2>2. ASSUME NEW q \in Paths, IsPrefix(Head(args), q), IsStrictPrefix(q, Head(args)) PROVE FALSE
    <3>1. q \in Seq(STRING) /\ IsPrefix(q, Head(args)) /\ q # Head(args)
      BY <2>2, PathFacts DEF IsStrictPrefix
    <3>2. Len(Head(args)) <= Len(q)
      BY <2>1, <2>2, <3>1, PrefixMeans
    <3> QED
      BY <2>1, <3>1, <3>2, PrefixSameLength
  <2> QED
    BY <2>1, <2>2 DEF Within
<1> DEFINE c == Call(Head(args))
<1>4. c \in CallSet /\ c.path = Head(args) /\ c.at = "look" /\ c.unread = {}
  BY <1>2 DEF Call, CallSet
<1>5. calls' = <<c>>
  BY DEF NextOperand
<1>6. Head(args) \in ToSet(old.args)
  BY <1>1, <1>2
<1> HIDE DEF c
<1>7. c \in GoodCalls
  BY <1>3, <1>4, <1>6 DEF GoodCalls, Enters
<1>8. c \in GoodCalls'
  BY <1>1, <1>7, CalmCalls
<1> QED
  BY <1>1, <1>2, <1>4, <1>5, <1>8, FirstCall

LEMMA ReadEntryCalls ==
  ASSUME FileInv, NEW name \in {"rm", "chattr"}, ReadEntry(name)
  PROVE  /\ calls' \in Seq(GoodCalls)' /\ StackDescends' /\ calls' # <<>> /\ Calm
         /\ Bottom.path = Bottom'.path
         /\ Bottom.at \in {"look", "act", "set"} => Bottom'.at = Bottom.at
<1>1. /\ calls \in Seq(GoodCalls) /\ StackDescends /\ calls # <<>> /\ Top.at = "read" /\ tool = name
      /\ Calm /\ IsTree(fs) /\ old.args \in Seq(Paths)
      /\ \E q \in Top.unread : calls' = <<Call(q)>> \o [calls EXCEPT ![1].unread = @ \ {q}]
  BY DEF FileInv, FileShape, ReadEntry, InCall, toolVars, Calm, othersVars
<1>2. GoodCalls \subseteq GoodCalls'
  BY <1>1, CalmCalls
<1>3. Top \in GoodCalls /\ Top \in CallSet /\ Top.unread \subseteq ChildPaths(Top.path) /\ Within(Top.path)
      /\ (Diverted \/ Kind(Top.path) # "link") /\ Top.path \in Paths
  BY <1>1 DEF Top, GoodCalls, Enters, CallSet
<1>4. PICK q \in Top.unread : calls' = <<Call(q)>> \o [calls EXCEPT ![1].unread = @ \ {q}]
  BY <1>1
<1>5. q \in Paths /\ Within(q)
  BY <1>1, <1>3, ChildWithin DEF ChildPaths
<1> DEFINE c == Call(q)
           d == [Top EXCEPT !.unread = @ \ {q}]
<1>7. /\ c \in CallSet /\ c.path = q /\ c.at = "look" /\ c.unread = {}
      /\ d \in CallSet /\ d.path = Top.path /\ d.at = Top.at /\ d.saw = Top.saw /\ d.unread \subseteq Top.unread
  BY <1>3, <1>5 DEF Call, CallSet
<1>8. calls' = <<c>> \o [calls EXCEPT ![1] = d]
  BY <1>4 DEF Top
<1> HIDE DEF c, d
<1>9. c \in GoodCalls /\ d \in GoodCalls
  <2>1. c \in GoodCalls
    BY <1>1, <1>5, <1>7 DEF GoodCalls, Enters
  <2>2. d.unread \subseteq ChildPaths(d.path) /\ Enters(d) = Enters(Top) /\ tool # "ls"
    BY <1>1, <1>3, <1>7 DEF Enters
  <2> QED
    BY <1>1, <1>3, <1>7, <2>1, <2>2 DEF GoodCalls
<1>10. Len(calls) = 1 => Bottom = Top
  BY DEF Bottom, Top
<1>11. /\ calls' \in Seq(GoodCalls)' /\ StackDescends' /\ calls' # <<>>
       /\ Bottom' = IF Len(calls) = 1 THEN d ELSE Bottom
       /\ Bottom.path = Bottom'.path
  BY <1>1, <1>2, <1>7, <1>8, <1>9, CallPushed
<1> QED
  BY <1>1, <1>7, <1>10, <1>11

(* The call on top goes on.                                                *)
LEMMA TopBecomes ==
  ASSUME FileInv, calls # <<>>, Calm,
         NEW d \in CallSet, d.path = Top.path, d.unread \subseteq Top.unread \cup Children(Top.path),
         tool = "rm" /\ d.at = "read" => d.saw = "dir",
         tool = "chattr" /\ d.at \in {"open", "read"} => "R" \in opts,
         Enters(d) => Diverted \/ Kind(d.path) # "link",
         tool = "ls" /\ d.at \in {"look", "list"} => Top.at \in {"look", "list"},
         calls' = [calls EXCEPT ![1] = d]
  PROVE  /\ calls' \in Seq(GoodCalls)' /\ StackDescends' /\ calls' # <<>>
         /\ Bottom' = (IF Len(calls) = 1 THEN d ELSE Bottom) /\ Bottom.path = Bottom'.path
         /\ Len(calls) = 1 => Bottom = Top
<1>1. calls \in Seq(GoodCalls) /\ StackDescends
  BY DEF FileInv, FileShape
<1>2. GoodCalls \subseteq GoodCalls'
  BY CalmCalls
<1>3. Top \in GoodCalls /\ Top \in CallSet
  BY <1>1 DEF Top, GoodCalls
<1>4. d.unread \subseteq ChildPaths(d.path)
  BY <1>3 DEF GoodCalls, Children, Below, ChildPaths
<1>5. tool \in {"rm", "chattr"} => Within(d.path)
  BY <1>3 DEF GoodCalls
<1>6. tool = "ls" => \A q \in d.unread : Alone(q) => Node(q) # None
  BY <1>3 DEF GoodCalls, Children
<1>7. tool = "ls" /\ d.at \in {"look", "list"} => d.path \in ToSet(old.args)
  BY <1>3 DEF GoodCalls
<1>8. d \in GoodCalls
  BY <1>4, <1>5, <1>6, <1>7 DEF GoodCalls
<1> QED
  BY <1>1, <1>2, <1>8, TopChanges DEF Bottom, Top

(* A directory is opened.                                                  *)
LEMMA OpensCalls ==
  ASSUME FileInv, calls # <<>>, Calm,
         NEW at \in {"read", "deep"},
         tool = "rm" => Top.saw = "dir" /\ Top.at # "look",
         tool = "chattr" => "R" \in opts /\ Top.at # "look",
         calls' = [calls EXCEPT ![1].at = at, ![1].unread = Children(Top.path)]
  PROVE  /\ calls' \in Seq(GoodCalls)' /\ StackDescends' /\ calls' # <<>>
         /\ Bottom.path = Bottom'.path
         /\ Len(calls) = 1 => Bottom = Top /\ Bottom'.at = at /\ Bottom'.unread = Children(Top.path)
         /\ Len(calls) # 1 => Bottom' = Bottom
<1>1. Top \in CallSet /\ Top \in GoodCalls
  BY DEF FileInv, FileShape, Top, GoodCalls
<1> DEFINE d == [Top EXCEPT !.at = at, !.unread = Children(Top.path)]
<1>2. d \in CallSet /\ d.path = Top.path /\ d.at = at /\ d.saw = Top.saw /\ d.unread = Children(Top.path)
  BY <1>1 DEF CallSet, Children, Below
<1>3. calls' = [calls EXCEPT ![1] = d]
  BY DEF Top
<1> HIDE DEF d
<1>4. Enters(d) => Diverted \/ Kind(d.path) # "link"
  BY <1>1, <1>2 DEF GoodCalls, Enters
<1> QED
  BY <1>2, <1>3, <1>4, TopBecomes

(* A call returns.                                                         *)
LEMMA ReturnCalls ==
  ASSUME FileInv, calls # <<>>, Return, GoodCalls \subseteq GoodCalls'
  PROVE  /\ calls' \in Seq(GoodCalls)' /\ StackDescends'
         /\ Len(calls) = 1 => calls' = <<>> /\ Bottom = Top
         /\ Len(calls) # 1 => calls' # <<>> /\ Bottom' = Bottom
BY CallReturns DEF FileInv, FileShape
-----------------------------------------------------------------------------
(* Other processes change the tree: nothing is different on the way to a   *)
(* path that they leave alone, and what is different is their doing.       *)
Disturbed ==
  /\ IsTree(fs') /\ steady' \subseteq steady
  /\ \A r \in steady' : \A q \in Paths : IsPrefix(q, r) => fs'[q] = fs[q]
  /\ planted \subseteq planted' /\ others \subseteq others' /\ others' \subseteq Inodes /\ meddled' \in 0 .. MaxOthers
  /\ \A p \in Paths :
       fs'[p] # fs[p] =>
         /\ fs[p] \in others' \cup {None} /\ fs'[p] \in others' \cup {None}
         /\ fs'[p] # None /\ KindOf[fs'[p]] = "link" => p \in planted'
  /\ UNCHANGED <<toolVars, mode, attr, listed, cut, todo, old>>
  /\ Shown

LEMMA OthersDisturb ==
  ASSUME FileInv, Others
  PROVE  Disturbed
<1>1. IsTree(fs) /\ others \subseteq Inodes /\ meddled \in 0 .. MaxOthers /\ meddled < MaxOthers /\ MaxOthers \in Nat
  BY InodesAssumption DEF FileInv, FileShape, Others
<1>2. IsTree(fs') /\ Meddle
  <2>1. CASE \E put \in Puts : OthersPut(put[1], put[2])
    <3>1. PICK put \in Puts : OthersPut(put[1], put[2])
      BY <2>1
    <3>2. put[1] \in Paths /\ put[2] \in Inodes \cup {None}
      BY InodesAssumption
    <3> DEFINE p == put[1]
               i == put[2]
    <3>3. p \in Paths /\ i \in Inodes \cup {None} /\ OthersPut(p, i)
      BY <3>1, <3>2
    <3> HIDE DEF p, i
    <3>4. IsTree(fs')
      BY <1>1, <3>3, PuttingKeepsTree DEF OthersPut
    <3> QED
      BY <3>3, <3>4 DEF OthersPut
  <2>2. CASE \E move \in Moved : OthersMove(move[1], move[2])
    <3>1. PICK move \in Moved : OthersMove(move[1], move[2])
      BY <2>2
    <3> DEFINE s == move[1]
               t == move[2]
    <3>2. s \in Paths /\ t \in Paths /\ OthersMove(s, t)
      BY <3>1, InodesAssumption
    <3> HIDE DEF s, t
    <3> QED
      BY <1>1, <3>2, RenamingKeepsTree DEF OthersMove
  <2> QED
    BY <2>1, <2>2 DEF Others
<1>3. /\ steady' = {p \in steady : \A q \in Changed : ~IsPrefix(q, p)}
      /\ planted' = planted \cup {p \in Changed : fs'[p] # None /\ KindOf[fs'[p]] = "link"}
      /\ others' = others \cup (({fs[p] : p \in Changed} \cup {fs'[p] : p \in Changed}) \ {None})
      /\ meddled' = meddled + 1 /\ Shown
      /\ UNCHANGED <<toolVars, mode, attr, listed, cut, todo, old>>
  BY <1>2 DEF Meddle
<1>4. \A p \in Paths : fs[p] \in Inodes \cup {None} /\ fs'[p] \in Inodes \cup {None}
  BY <1>1, <1>2 DEF IsTree
<1>5. \A p : p \in Changed <=> p \in Paths /\ fs'[p] # fs[p]
  BY DEF Changed
<1>6. meddled' \in 0 .. MaxOthers
  BY <1>1, <1>3
<1>7. others \subseteq others' /\ others' \subseteq Inodes
  BY <1>1, <1>3, <1>4, <1>5
<1>8. \A p \in Paths :
        fs'[p] # fs[p] =>
          /\ fs[p] \in others' \cup {None} /\ fs'[p] \in others' \cup {None}
          /\ fs'[p] # None /\ KindOf[fs'[p]] = "link" => p \in planted'
  BY <1>3, <1>5
<1>9. \A r \in steady' : \A q \in Paths : IsPrefix(q, r) => fs'[q] = fs[q]
  BY <1>3, <1>5
<1> QED
  BY <1>2, <1>3, <1>6, <1>7, <1>8, <1>9 DEF Disturbed

(* What a command may reach, it may reach now, too; and a link that it may *)
(* come to is one that others put in its way.                              *)
LEMMA ReachStays ==
  ASSUME Disturbed
  PROVE  /\ Diverted => Diverted'
         /\ \A p : /\ Asked(p)' <=> Asked(p)
                   /\ Near(p)' <=> Near(p)
                   /\ Reached(p) => Reached(p)'
<1>1. old' = old /\ planted \subseteq planted'
  BY DEF Disturbed
<1>2. \A p : (Asked(p)' <=> Asked(p)) /\ (Near(p)' <=> Near(p))
  BY <1>1 DEF Near, Asked
<1>3. Diverted => Diverted'
  BY <1>1, <1>2 DEF Diverted
<1> QED
  BY <1>2, <1>3 DEF Reached

LEMMA WithinStays ==
  ASSUME Disturbed, NEW p \in Paths, Within(p)
  PROVE  Within(p)'
<1>1. old' = old
  BY DEF Disturbed
<1>2. PICK a \in ToSet(old.args) :
        /\ IsPrefix(a, p)
        /\ Diverted \/ \A q \in Paths : IsPrefix(a, q) /\ IsStrictPrefix(q, p) => Type(q) # "link"
  BY DEF Within
<1>3. ASSUME ~Diverted', NEW q \in Paths, IsPrefix(a, q), IsStrictPrefix(q, p), Type(q)' = "link" PROVE FALSE
  <2>1. Type(q) # "link"
    BY <1>2, <1>3, ReachStays
  <2>2. fs'[q] # None /\ KindOf[fs'[q]] = "link"
    BY <1>3 DEF Type, None
  <2>3. fs'[q] # fs[q]
    BY <2>1, <2>2 DEF Type
  <2>4. q \in planted'
    BY <2>2, <2>3 DEF Disturbed
  <2>5. Near(q)
    BY <1>3 DEF Near, Asked
  <2> QED
    BY <1>3, <2>4, <2>5, ReachStays DEF Diverted
<1> QED
  BY <1>1, <1>2, <1>3 DEF Within

LEMMA NoLinkStays ==
  ASSUME FileInv, Disturbed, OnlyOthers', tool # "mv", NEW p \in Paths, Within(p), Diverted \/ Kind(p) # "link"
  PROVE  Diverted' \/ Kind(p)' # "link"
<1> SUFFICES ASSUME ~Diverted', Kind(p)' = "link" PROVE FALSE
  OBVIOUS
<1>1. /\ IsTree(fs) /\ IsTree(fs') /\ IsTree(old'.fs) /\ old'.args \in Seq(Paths) /\ old' = old /\ tool' = tool
      /\ p \in Seq(STRING) /\ ToSet(old.args) \subseteq Paths
  BY PathFacts, OperandsArePaths DEF Disturbed, FileInv, FileShape, toolVars
<1>2. Kind(p) # "link"
  BY ReachStays
<1>3. /\ Leads(fs', p) \in Paths /\ fs'[Leads(fs', p)] # None /\ KindOf[fs'[Leads(fs', p)]] = "link"
  <2>1. KindIn(fs', p) = "link"
    BY InTheTree
  <2> QED
    BY <2>1 DEF KindIn, NodeIn, None
<1> DEFINE r == Leads(fs', p)
<1>4. Near(r)
  <2>1. Within(p)'
    BY WithinStays
  <2>2. \A q \in Paths : Type(q)' = "link" => q \in planted' \/ fs'[q] = old'.fs[q]
    BY <1>1 DEF OnlyOthers
  <2>3. (/\ IsTree(fs) /\ IsTree(old.fs) /\ old.args \in Seq(Paths) /\ Within(p)
         /\ \A q \in Paths : Type(q) = "link" => q \in planted \/ fs[q] = old.fs[q]
         => Reached(Real(p)))'
    BY Where, PTL
  <2>4. Reached(Real(p))'
    BY <1>1, <2>1, <2>2, <2>3
  <2>5. Asked(Real(p))'
    BY <2>4 DEF Reached
  <2>6. Real(p)' = r
    BY InTheTree
  <2>7. Asked(r)
    BY <1>1, <2>5, <2>6 DEF Asked
  <2> QED
    BY <2>7 DEF Near
<1>5. r \notin planted'
  BY <1>4, ReachStays DEF Diverted
<1>6. fs[r] = fs'[r]
  BY <1>3, <1>5 DEF Disturbed
<1>7. CASE Way(fs', p) = {}
  <2>1. r = p
    BY <1>7 DEF Leads
  <2>2. fs[p] # None /\ Type(p) = "link"
    BY <1>3, <1>6, <2>1 DEF Type
  <2>3. Kind(p) = Type(p)
    BY <1>1, <2>2, FileAt
  <2> QED
    BY <1>2, <2>2, <2>3
<1>8. ASSUME NEW q \in Way(fs', p) PROVE FALSE
  <2>1. /\ q \in Paths /\ IsStrictPrefix(q, p) /\ fs'[q] # None /\ KindOf[fs'[q]] = "link"
        /\ r = Graft(LinkTo, q, p)
    BY <1>1, OneLinkAbove
  <2>2. CASE fs[q] = fs'[q]
    <3>1. q \in Way(fs, p)
      BY <1>1, <2>1, <2>2, LinkAbove
    <3>2. Leads(fs, p) = r
      BY <1>1, <2>1, <3>1, OneLinkAbove
    <3>3. KindIn(fs, p) = "link"
      BY <1>3, <1>6, <3>2 DEF KindIn, NodeIn
    <3> QED
      BY <1>2, <3>3, InTheTree
  <2>3. CASE fs[q] # fs'[q]
    <3>1. q \in planted'
      BY <2>1, <2>3 DEF Disturbed
    <3>2. PICK a \in ToSet(old.args) : IsPrefix(a, p)
      BY DEF Within
    <3>3. a \in Seq(STRING) /\ q \in Seq(STRING) /\ IsPrefix(q, p) /\ Len(a) \in Nat /\ Len(q) \in Nat
      BY <1>1, <2>1, PathFacts DEF IsStrictPrefix
    <3>4. IsPrefix(a, q) \/ IsPrefix(q, a)
      BY <1>1, <3>2, <3>3, PrefixesNest
    <3>5. Near(q)
      BY <3>4 DEF Near, Asked
    <3> QED
      BY <3>1, <3>5, ReachStays DEF Diverted
  <2> QED
    BY <2>2, <2>3
<1> QED
  BY <1>7, <1>8

LEMMA GoodCallsStay ==
  ASSUME FileInv, Disturbed, OnlyOthers'
  PROVE  GoodCalls \subseteq GoodCalls'
<1> SUFFICES ASSUME NEW c \in GoodCalls PROVE c \in GoodCalls'
  OBVIOUS
<1>1. tool' = tool /\ opts' = opts /\ old' = old /\ steady \subseteq Paths
  BY DEF Disturbed, toolVars, FileInv, FileShape
<1>2. /\ c \in CallSet /\ c.unread \subseteq ChildPaths(c.path) /\ c.path \in Paths /\ c.unread \subseteq Paths
      /\ tool \in {"rm", "chattr"} => Within(c.path)
      /\ tool = "rm" /\ c.at = "read" => c.saw = "dir"
      /\ tool = "chattr" /\ c.at \in {"open", "read"} => "R" \in opts
      /\ Enters(c) => Diverted \/ Kind(c.path) # "link"
      /\ tool = "ls" => /\ \A q \in c.unread : Alone(q) => Node(q) # None
                        /\ c.at \in {"look", "list"} => c.path \in ToSet(old.args)
  BY DEF GoodCalls, CallSet
<1>3. Enters(c)' <=> Enters(c)
  BY <1>1 DEF Enters
<1>4. ASSUME tool = "ls", NEW q \in c.unread, Alone(q)' PROVE Node(q)' # None
  <2>1. Alone(q) /\ Node(q)' = Node(q)
    BY <1>1, <1>2, <1>4, AloneStays DEF Disturbed
  <2> QED
    BY <1>2, <1>4, <2>1
<1>5. tool \in {"rm", "chattr"} => Within(c.path)'
  BY <1>2, WithinStays
<1>6. Enters(c) => Diverted' \/ Kind(c.path)' # "link"
  <2>1. Enters(c) => tool # "mv" /\ Within(c.path)
    BY <1>2 DEF Enters
  <2> QED
    BY <1>2, <2>1, NoLinkStays
<1> QED
  BY <1>1, <1>2, <1>3, <1>4, <1>5, <1>6 DEF GoodCalls

(* A directory that is being read shows what changes.                      *)
LEMMA OneCallChanges ==
  ASSUME calls \in Seq(GoodCalls), StackDescends, GoodCalls \subseteq GoodCalls',
         NEW k \in DOMAIN calls, NEW d \in GoodCalls', d.path = calls[k].path, calls' = [calls EXCEPT ![k] = d]
  PROVE  /\ calls' \in Seq(GoodCalls)' /\ StackDescends' /\ calls # <<>> /\ calls' # <<>>
         /\ Bottom' = IF Len(calls) = k THEN d ELSE Bottom
<1> DEFINE G == GoodCalls
           H == GoodCalls'
           h == Len(calls)
<1>0. calls \in Seq(G) /\ G \subseteq H /\ d \in H
  OBVIOUS
<1> HIDE DEF G, H
<1>1. calls \in Seq(H) /\ h \in Nat /\ k \in 1 .. h
  BY <1>0, SeqMonotonic, LenProperties
<1>2. calls' \in Seq(H) /\ Len(calls') = h /\ \A j \in 1 .. h : calls'[j] = IF j = k THEN d ELSE calls[j]
  BY <1>0, <1>1, ExceptSeq
<1>3. \A j \in 1 .. h : calls'[j].path = calls[j].path
  BY <1>2
<1>4. StackDescends'
  <2>1. \A j \in 1 .. h - 1 : j \in 1 .. h /\ j + 1 \in 1 .. h
    BY <1>1
  <2>2. ASSUME NEW j \in 1 .. Len(calls') - 1
        PROVE  Len(calls'[j].path) = Len(calls'[j + 1].path) + 1 /\ IsPrefix(calls'[j + 1].path, calls'[j].path)
    <3>1. j \in 1 .. Len(calls) - 1 /\ calls'[j].path = calls[j].path /\ calls'[j + 1].path = calls[j + 1].path
      BY <1>2, <1>3, <2>1, <2>2
    <3> QED
      BY <3>1 DEF StackDescends
  <2> QED
    BY <2>2 DEF StackDescends
<1>5. calls # <<>> /\ calls' # <<>> /\ h \in 1 .. h
  BY <1>1, <1>2, EmptySeq
<1>6. Bottom' = IF Len(calls) = k THEN d ELSE Bottom
  BY <1>2, <1>5 DEF Bottom
<1> QED
  BY <1>2, <1>4, <1>5, <1>6 DEF H

LEMMA OtherUnread ==
  ASSUME NEW c \in GoodCalls', NEW d \in CallSet, d.path = c.path, d.at = c.at, d.saw = c.saw,
         NEW p \in ChildPaths(c.path), ~Alone(p)', d.unread \subseteq c.unread \cup {p}
  PROVE  d \in GoodCalls'
<1>1. d.unread \subseteq ChildPaths(d.path)
  BY DEF GoodCalls
<1>2. Enters(d)' <=> Enters(c)'
  BY DEF Enters
<1>3. tool' = "ls" => \A q \in d.unread : Alone(q)' => Node(q)' # None
  BY DEF GoodCalls
<1>4. Within(d.path)' <=> Within(c.path)'
  BY DEF Within
<1>5. Kind(d.path)' = Kind(c.path)'
  BY DEF Kind, Node, Real
<1> QED
  BY <1>1, <1>2, <1>3, <1>4, <1>5 DEF GoodCalls

LEMMA ShownCalls ==
  ASSUME FileInv, Disturbed, OnlyOthers'
  PROVE  /\ calls' \in Seq(GoodCalls)' /\ StackDescends'
         /\ (calls # <<>>) <=> (calls' # <<>>)
         /\ calls # <<>> => /\ Bottom'.path = Bottom.path /\ Bottom'.at = Bottom.at
                            /\ \A q \in Bottom.unread : Alone(q)' => q \in Bottom'.unread
<1>1. calls \in Seq(GoodCalls) /\ StackDescends /\ GoodCalls \subseteq GoodCalls'
  BY GoodCallsStay DEF FileInv, FileShape
<1>2. Shown /\ tool' = tool /\ opts' = opts /\ old' = old
  BY DEF Disturbed, toolVars
<1>3. CASE UNCHANGED calls
  <2>1. calls \in Seq(GoodCalls')
    BY <1>1
  <2> QED
    BY <1>1, <1>3, <2>1 DEF StackDescends, Bottom
<1>4. ASSUME NEW k \in DOMAIN calls, NEW p \in Changed,
             calls[k].at \in {"read", "deep"}, p # <<>>, Front(p) = calls[k].path,
             calls' = [calls EXCEPT ![k].unread = IF fs'[p] = None THEN @ \ {p} ELSE @ \cup {p}]
      PROVE  /\ calls' \in Seq(GoodCalls)' /\ StackDescends' /\ calls # <<>> /\ calls' # <<>>
             /\ Bottom'.path = Bottom.path /\ Bottom'.at = Bottom.at
             /\ \A q \in Bottom.unread : Alone(q)' => q \in Bottom'.unread
  <2> DEFINE c == calls[k]
             d == [c EXCEPT !.unread = IF fs'[p] = None THEN @ \ {p} ELSE @ \cup {p}]
  <2>1. c \in GoodCalls /\ c \in GoodCalls' /\ c \in CallSet
    BY <1>1, ElementOfSeq DEF GoodCalls
  <2>2. p \in Paths /\ p \in Seq(STRING) /\ fs'[p] # fs[p]
    BY PathFacts DEF Changed
  <2>3. ~Alone(p)'
    BY <2>2, PathFacts DEF Disturbed, Alone
  <2>4. p \in ChildPaths(c.path)
    <3>1. Front(p) \in Seq(STRING) /\ Len(Front(p)) = Len(p) - 1 /\ IsPrefix(Front(p), p)
      BY <1>4, <2>2, AboveFront
    <3>2. Len(p) = Len(c.path) + 1 /\ IsPrefix(c.path, p)
      BY <1>4, <2>2, <3>1, LenProperties
    <3> QED
      BY <2>2, <3>2 DEF ChildPaths
  <2>5. /\ d.path = c.path /\ d.at = c.at /\ d.saw = c.saw /\ d \in CallSet
        /\ d.unread \subseteq c.unread \cup {p} /\ c.unread \ {p} \subseteq d.unread
    <3> DEFINE u == IF fs'[p] = None THEN c.unread \ {p} ELSE c.unread \cup {p}
    <3>1. u \subseteq Paths /\ u \subseteq c.unread \cup {p} /\ c.unread \ {p} \subseteq u
      BY <2>1, <2>2 DEF CallSet
    <3>2. d = [c EXCEPT !.unread = u]
      OBVIOUS
    <3> HIDE DEF u, c, d
    <3> QED
      BY <2>1, <3>1, <3>2 DEF CallSet
  <2>6. calls' = [calls EXCEPT ![k] = d]
    BY <1>4
  <2> HIDE DEF c, d
  <2>7. d \in GoodCalls'
    BY <2>1, <2>3, <2>4, <2>5, OtherUnread
  <2>8. d.path = calls[k].path
    BY <2>5 DEF c
  <2>9. /\ calls' \in Seq(GoodCalls)' /\ StackDescends' /\ calls # <<>> /\ calls' # <<>>
        /\ Bottom' = IF Len(calls) = k THEN d ELSE Bottom
    BY <1>1, <2>6, <2>7, <2>8, OneCallChanges
  <2>10. Len(calls) = k => Bottom = c
    BY DEF Bottom, c
  <2>11. ASSUME NEW q \in Bottom.unread, Alone(q)' PROVE q \in Bottom'.unread
    BY <2>3, <2>5, <2>9, <2>10, <2>11
  <2> QED
    BY <2>5, <2>9, <2>10, <2>11
<1> QED
  <2>1. CASE \E k \in DOMAIN calls, p \in Changed :
               /\ calls[k].at \in {"read", "deep"} /\ p # <<>> /\ Front(p) = calls[k].path
               /\ calls' = [calls EXCEPT ![k].unread = IF fs'[p] = None THEN @ \ {p} ELSE @ \cup {p}]
    BY <1>4, <2>1
  <2> QED
    BY <1>2, <1>3, <2>1 DEF Shown

LEMMA DisturbingKeepsFileInv ==
  ASSUME FileInv, place = "walk", Disturbed
  PROVE  FileInv'
<1>1. /\ FileShape
      /\ UNCHANGED <<place, direct, tool, opts, args, said, code, mode, attr, listed, cut, todo, old>>
      /\ steady \subseteq Paths /\ steady' \subseteq steady /\ others \subseteq others'
  BY DEF FileInv, FileShape, Disturbed, toolVars
<1>2. /\ \A p \in steady' : p \in Paths /\ p \in steady /\ fs'[p] = fs[p]
      /\ \A p \in Paths : fs'[p] = fs[p] \/ (fs[p] \in others' \cup {None} /\ fs'[p] \in others' \cup {None})
  BY <1>1, PathFacts DEF Disturbed
<1>3. \A p \in Paths : Alone(p)' =>
        Alone(p) /\ Real(p)' = Real(p) /\ Node(p)' = Node(p) /\ Kind(p)' = Kind(p) /\ Follow(p)' = Follow(p)
  BY <1>1, AloneStays DEF Disturbed
<1>4. OnlyOthers'
  <2>1. ASSUME tool \notin {"rm", "mv"}
        PROVE  /\ \A p \in steady' : fs'[p] = old.fs[p]
               /\ \A p \in Paths : fs'[p] \in {old.fs[p], None} \cup others'
    <3>1. /\ \A p \in steady : fs[p] = old.fs[p]
          /\ \A p \in Paths : fs[p] \in {old.fs[p], None} \cup others
      BY <2>1 DEF FileInv, OnlyOthers
    <3> QED
      BY <1>1, <1>2, <3>1
  <2>2. ASSUME tool # "mv", NEW q \in Paths, Type(q)' = "link" PROVE q \in planted' \/ fs'[q] = old.fs[q]
    <3>1. fs'[q] # None /\ KindOf[fs'[q]] = "link"
      BY <2>2 DEF Type, None
    <3>2. CASE fs'[q] # fs[q]
      BY <3>1, <3>2 DEF Disturbed
    <3>3. CASE fs'[q] = fs[q]
      <4>1. Type(q) = "link"
        BY <3>1, <3>3 DEF Type
      <4> QED
        BY <2>2, <3>3, <4>1 DEF FileInv, OnlyOthers, Disturbed
    <3> QED
      BY <3>2, <3>3
  <2> QED
    BY <1>1, <2>1, <2>2 DEF OnlyOthers
<1>5. /\ calls' \in Seq(GoodCalls)' /\ StackDescends'
      /\ (calls # <<>>) <=> (calls' # <<>>)
      /\ calls # <<>> => /\ Bottom'.path = Bottom.path /\ Bottom'.at = Bottom.at
                         /\ \A q \in Bottom.unread : Alone(q)' => q \in Bottom'.unread
  BY <1>4, ShownCalls
<1>6. FileShape'
  BY <1>1, <1>5 DEF FileShape, Disturbed
<1>7. ToSet(old.args) \subseteq Paths
  BY <1>1, OperandsArePaths DEF FileShape
<1>8. RmInv'
  <2> SUFFICES ASSUME tool = "rm" PROVE RmInv'
    BY <1>1 DEF RmInv
  <2>1. ASSUME NEW a \in ToSet(old.args), Alone(a)'
        PROVE  Node(a)' = None \/ a \in ToSet(args) \/ (calls' # <<>> /\ a = Bottom'.path)
    <3>1. Node(a) = None \/ a \in ToSet(args) \/ (calls # <<>> /\ a = Bottom.path)
      BY <1>3, <1>7, <2>1 DEF FileInv, RmInv
    <3> QED
      BY <1>3, <1>5, <1>7, <2>1, <3>1
  <2>2. ASSUME NEW p \in steady' PROVE fs'[p] = old.fs[p] \/ Reached(p)'
    BY <1>2, <2>2, ReachStays DEF FileInv, RmInv
  <2> QED
    BY <1>1, <2>1, <2>2 DEF RmInv
<1>9. SetInv'
  <2> SUFFICES ASSUME tool \in {"chmod", "chown"}, NEW a \in ToSet(old.args), Alone(a)', Alone(Follow(a))'
               PROVE  a \in ToSet(args) \/ Node(Follow(a))' \in mode
    BY <1>1 DEF SetInv
  <2>1. Alone(a) /\ Follow(a)' = Follow(a)
    BY <1>3, <1>7
  <2>2. Follow(a) \in Paths
    BY <1>1, <1>7, FileAt DEF FileShape
  <2> DEFINE b == Follow(a)
  <2>3. Alone(Follow(a))' <=> {Follow(a)', Leads(fs', Follow(a)')} \subseteq steady'
    BY DEF Alone, Real
  <2>4. {b, Leads(fs', b)} \subseteq steady'
    BY <2>1, <2>3
  <2>5. Leads(fs', b) = Leads(fs, b) /\ NodeIn(fs', b) = NodeIn(fs, b) /\ Alone(b)
    <3> HIDE DEF b
    <3>1. \A p \in Paths : {p, Leads(fs', p)} \subseteq steady' =>
            Alone(p) /\ Leads(fs', p) = Leads(fs, p) /\ NodeIn(fs', p) = NodeIn(fs, p)
      <4>1. \A p : Alone(p)' <=> {p, Leads(fs', p)} \subseteq steady'
        BY DEF Alone, Real
      <4> QED
        BY <1>3, <4>1, InTheTree
    <3>2. b \in Paths
      BY <2>2 DEF b
    <3> QED
      BY <2>4, <3>1, <3>2
  <2>6. Node(Follow(a))' = NodeIn(fs', Follow(a)')
    BY DEF Node, NodeIn, Real
  <2>7. Node(Follow(a)) = NodeIn(fs, b)
    BY InTheTree
  <2>8. Node(Follow(a))' = Node(Follow(a))
    BY <2>1, <2>5, <2>6, <2>7
  <2> QED
    BY <2>1, <2>5, <2>8 DEF FileInv, SetInv
<1>10. LsInv'
  <2> SUFFICES ASSUME tool = "ls" PROVE LsInv'
    BY <1>1 DEF LsInv
  <2>0. \A p : Skipped(p)' = Skipped(p)
    BY <1>1 DEF Skipped
  <2>1. ASSUME NEW a \in ToSet(old.args) \ cut, Alone(a)', Kind(a)' = "dir", code = "ok", "d" \notin opts
        PROVE  \/ a \in ToSet(args)
               \/ calls' # <<>> /\ a = Bottom'.path /\ Bottom'.at \in {"look", "act"}
               \/ calls' # <<>> /\ a = Bottom'.path /\ Bottom'.at = "read" /\ EntriesOf(a)' \subseteq listed \cup Bottom'.unread
               \/ EntriesOf(a)' \subseteq listed
    <3>1. Alone(a) /\ Kind(a) = "dir"
      BY <1>3, <1>7, <2>1
    <3>2. \A p \in EntriesOf(a)' : p \in EntriesOf(a) /\ Alone(p)'
      <4>1. \A p \in ChildPaths(a) : p \in Paths
        BY DEF ChildPaths
      <4>2. \A p : p \in EntriesOf(a)' <=> p \in ChildPaths(a) /\ Alone(p)' /\ Node(p)' # None /\ ~Skipped(p)'
        BY DEF EntriesOf
      <4>3. \A p : p \in EntriesOf(a) <=> p \in ChildPaths(a) /\ Alone(p) /\ Node(p) # None /\ ~Skipped(p)
        BY DEF EntriesOf
      <4> QED
        BY <1>3, <2>0, <4>1, <4>2, <4>3
    <3>3. \/ a \in ToSet(args)
          \/ calls # <<>> /\ a = Bottom.path /\ Bottom.at \in {"look", "act"}
          \/ calls # <<>> /\ a = Bottom.path /\ Bottom.at = "read" /\ EntriesOf(a) \subseteq listed \cup Bottom.unread
          \/ EntriesOf(a) \subseteq listed
      BY <2>1, <3>1 DEF FileInv, LsInv
    <3>4. calls # <<>> /\ EntriesOf(a) \subseteq listed \cup Bottom.unread => EntriesOf(a)' \subseteq listed \cup Bottom'.unread
      BY <1>5, <3>2
    <3> QED
      BY <1>5, <3>2, <3>3, <3>4
  <2>2. \A p \in listed : Alone(p)' => Node(p)' # None
    BY <1>1, <1>3 DEF FileInv, LsInv, FileShape
  <2>3. \A p \in listed : Skipped(p)' => p \in ToSet(old.args)
    BY <2>0 DEF FileInv, LsInv
  <2> QED
    BY <1>1, <2>1, <2>2, <2>3 DEF LsInv
<1>11. ChattrInv'
  <2> SUFFICES ASSUME tool = "chattr" PROVE ChattrInv'
    BY <1>1 DEF ChattrInv
  <2>1. ASSUME said = "nothing", NEW a \in ToSet(old.args), Alone(a)', Kind(a)' \in {"file", "dir"}
        PROVE  \/ todo.add \ {"D"} \subseteq attr[Node(a)']
               \/ a \in ToSet(args)
               \/ calls' # <<>> /\ a = Bottom'.path /\ Bottom'.at \in {"look", "act", "set"}
    <3>1. Alone(a) /\ Kind(a) \in {"file", "dir"} /\ Node(a)' = Node(a)
      BY <1>3, <1>7, <2>1
    <3>2. \/ todo.add \ {"D"} \subseteq attr[Node(a)]
          \/ a \in ToSet(args)
          \/ calls # <<>> /\ a = Bottom.path /\ Bottom.at \in {"look", "act", "set"}
      BY <2>1, <3>1 DEF FileInv, ChattrInv
    <3> QED
      BY <1>5, <3>1, <3>2
  <2>2. ASSUME "R" \in opts, NEW j \in Inodes, attr[j] # Flags \ {"D"}
        PROVE  (\E p \in Paths : old.fs[p] = j /\ Reached(p)') \/ j \in others'
    <3>1. (\E p \in Paths : old.fs[p] = j /\ Reached(p)) \/ j \in others
      BY <2>2 DEF FileInv, ChattrInv, ChattrInside
    <3> QED
      BY <1>1, <3>1, ReachStays
  <2>3. ChattrInside'
    BY <1>1, <2>2 DEF ChattrInside
  <2> QED
    BY <1>1, <2>1, <2>3 DEF ChattrInv
<1>12. MvInv'
  <2> SUFFICES ASSUME tool = "mv" PROVE MvInv'
    BY <1>1 DEF MvInv
  <2>0. MvInv
    BY DEF FileInv
  <2>1. /\ Sources' = Sources /\ Into' = Into /\ Renamings' = Renamings /\ Apart' = Apart
        /\ \A s : Targets(s)' = Targets(s)
        /\ \A s : OldDest(s)' = OldDest(s)
    BY <1>1 DEF Sources, Into, Renamings, Apart, Targets, OldDest, IntoDirectory, FullDest
  <2>2. \A p : MayLose(p)' <=> MayLose(p)
    BY <2>1 DEF MayLose
  <2>3. /\ Len(args) <= Len(old.args) /\ 1 <= Len(args) /\ 2 <= Len(old.args)
        /\ \A k \in 1 .. Len(args) : args[k] = old.args[Renamings + k]
    BY <2>0 DEF MvInv
  <2>4. ASSUME todo.dir, Apart, ToSet(old.args) \subseteq steady' PROVE InPlace'
    <3>1. InPlace
      BY <1>1, <2>0, <2>4 DEF MvInv
    <3>2. \A p \in steady' : Way(fs', p) = Way(fs, p)
      <4> TAKE p \in steady'
      <4>1. p \in Seq(STRING) /\ \A q \in Above(p) : q \in Paths /\ IsPrefix(q, p)
        BY <1>2, PathFacts, PathsOnTheWay DEF IsStrictPrefix
      <4>2. \A q \in Above(p) : fs'[q] = fs[q]
        BY <4>1 DEF Disturbed
      <4> QED
        BY <4>2, SameWay
    <3>3. \A k \in 1 .. Len(old.args) : old.args[k] \in steady'
      BY <2>4 DEF ToSet
    <3>4. Len(old.args) \in 1 .. Len(old.args) /\ Into = old.args[Len(old.args)]
      BY <2>3, LenProperties DEF Into, Last
    <3>5. Way(fs', Into) = {} /\ fs'[Into] = old.fs[Into]
      BY <1>2, <3>1, <3>2, <3>3, <3>4 DEF InPlace
    <3>6. \A k \in Renamings + 1 .. Len(old.args) - 1 : k \in 1 .. Len(old.args)
      <4>1. Len(old.args) \in Nat /\ Len(args) \in Int
        BY <1>1, <2>3, LenProperties DEF FileShape, FileNames
      <4> QED
        BY <2>3, <4>1 DEF Renamings
    <3>7. \A k \in Renamings + 1 .. Len(old.args) - 1 :
            Way(fs', old.args[k]) = {} /\ fs'[old.args[k]] \in {old.fs[old.args[k]], None}
      BY <1>2, <3>1, <3>2, <3>3, <3>6 DEF InPlace
    <3>8. \A k \in 1 .. Renamings :
            OldDest(old.args[k]) \in steady' => fs'[OldDest(old.args[k])] = old.fs[old.args[k]]
      BY <1>2, <3>1 DEF InPlace
    <3> QED
      BY <1>1, <2>1, <3>5, <3>7, <3>8 DEF InPlace
  <2>5. Len(args) = 2 /\ Len(old.args) = 2 => \A q \in steady' : fs'[q] = old.fs[q]
    BY <2>0, <1>2 DEF MvInv
  <2>6. \A q \in steady' : old.fs[q] # None => fs'[q] = old.fs[q] \/ MayLose(q)
    BY <2>0, <1>2 DEF MvInv
  <2>7. ASSUME Len(old.args) = 2, NEW q \in steady', old.fs[q] # None
        PROVE  \/ \E s \in Sources : q \in Targets(s)
               \/ \E r \in Paths : fs'[r] = old.fs[q]
               \/ old.fs[q] \in others'
    <3>1. \/ \E s \in Sources : q \in Targets(s)
          \/ \E r \in Paths : fs[r] = old.fs[q]
          \/ old.fs[q] \in others
      BY <2>0, <2>7, <1>2 DEF MvInv
    <3> QED
      BY <1>1, <1>2, <2>7, <3>1
  <2> QED
    BY <1>1, <2>1, <2>2, <2>3, <2>4, <2>5, <2>6, <2>7 DEF MvInv
<1> QED
  BY <1>1, <1>4, <1>6, <1>8, <1>9, <1>10, <1>11, <1>12, NotYetDone DEF FileInv
-----------------------------------------------------------------------------
(* rm.                                                                     *)
LEMMA RmGoesOn ==
  ASSUME FileInv, tool = "rm", place = "walk", place' = "walk",
         UNCHANGED <<tool, todo, old, othersVars, mode, attr, listed, cut>>,
         calls' \in Seq(GoodCalls)', StackDescends', IsTree(fs'), OnlyOthers',
         args' \in Seq(Paths), ToSet(args') \subseteq ToSet(args), RmInv'
  PROVE  FileInv'
BY WalkingKeepsFileInv DEF FileInv, FileShape, SetInv, MvInv, LsInv, ChattrInv

(* Where nothing happens to the tree.                                      *)
LEMMA RmOnlyCalls ==
  ASSUME FileInv, tool = "rm", place = "walk", place' = "walk",
         UNCHANGED <<tool, opts, todo, fs, old, othersVars, mode, attr, listed, cut>>,
         calls' \in Seq(GoodCalls)', StackDescends', args' \in Seq(Paths), ToSet(args') \subseteq ToSet(args),
         calls' # <<>>, calls # <<>> => Bottom.path = Bottom'.path,
         ToSet(args) \subseteq ToSet(args') \cup {Bottom'.path}
  PROVE  FileInv'
<1>1. Calm
  BY DEF Calm, othersVars
<1>2. RmInv'
  <2>1. ASSUME NEW a \in ToSet(old.args), Alone(a)
        PROVE  Node(a) = None \/ a \in ToSet(args') \/ a = Bottom'.path
    BY <2>1 DEF FileInv, RmInv
  <2>2. \A p \in steady : fs[p] = old.fs[p] \/ Reached(p)
    BY DEF FileInv, RmInv
  <2>3. \A a \in ToSet(old'.args) :
          Alone(a)' => Node(a)' = None \/ a \in ToSet(args') \/ (calls' # <<>> /\ a = Bottom'.path)
    BY <1>1, <2>1, CalmReach DEF Calm
  <2>4. \A p \in steady' : fs'[p] = old'.fs[p] \/ Reached(p)'
    BY <1>1, <2>2, CalmReach DEF Calm
  <2> QED
    BY <2>3, <2>4 DEF RmInv
<1>3. OnlyOthers'
  BY <1>1 DEF FileInv, OnlyOthers, Type, Calm, othersVars
<1>4. IsTree(fs')
  BY DEF FileInv, FileShape, IsTree
<1> QED
  BY <1>2, <1>3, <1>4, RmGoesOn

(* A file, or a directory with nothing in it, is removed, and the call     *)
(* returns.                                                                *)
LEMMA RmRemoves ==
  ASSUME FileInv, tool = "rm", place = "walk", calls # <<>>,
         Node(Top.path) # None, \A q \in Paths : IsStrictPrefix(Real(Top.path), q) => fs[q] = None,
         Unlink(Top.path), Return, UNCHANGED <<toolVars, mode, attr, listed, cut, todo, old, othersVars>>
  PROVE  FileInv'
<1>1. /\ IsTree(fs) /\ fs \in [Paths -> Inodes \cup {None}] /\ args \in Seq(Paths)
      /\ calls \in Seq(GoodCalls) /\ StackDescends /\ RmInv /\ OnlyOthers /\ steady \subseteq Paths
      /\ IsTree(old.fs) /\ old.args \in Seq(Paths) /\ ToSet(old.args) \subseteq Paths
  BY OperandsArePaths DEF FileInv, FileShape, IsTree, FileNames
<1>2. UNCHANGED <<place, tool, opts, args, old, steady, planted, todo, othersVars>>
  BY DEF toolVars, othersVars
<1>3. Top.path \in Paths /\ Within(Top.path)
  BY <1>1 DEF Top, GoodCalls, CallSet
<1> DEFINE r == Real(Top.path)
<1>4. r \in Paths
  BY <1>1, <1>3, FileAt
<1>5. fs' = [fs EXCEPT ![r] = None]
  BY DEF Unlink
<1>6. \A q \in Paths : IsStrictPrefix(r, q) => fs[q] = None
  OBVIOUS
<1>7. Reached(r)
  BY <1>1, <1>3, Where DEF OnlyOthers
<1>8. IsTree(fs')
  BY <1>1, <1>4, <1>5, <1>6, RemovingKeepsTree
<1>9. \A p \in Paths : /\ Node(p)' = None \/ (Real(p)' = Real(p) /\ Node(p)' = Node(p))
                       /\ Real(p) = r => Node(p)' = None
                       /\ Kind(p)' \in {Kind(p), None}
  BY <1>1, <1>4, <1>5, <1>6, Removed
<1>10. fs'[r] = None /\ \A p \in Paths : p # r => fs'[p] = fs[p]
  BY <1>1, <1>4, <1>5
<1>11. Real(Top.path) = r
  OBVIOUS
<1> HIDE DEF r
<1>12. \A p : (Reached(p)' <=> Reached(p)) /\ (Diverted' <=> Diverted)
  BY <1>2 DEF Reached, Asked, Diverted, Near
<1>13. \A q \in Paths : Type(q)' # "link" \/ Type(q)' = Type(q)
  BY <1>10 DEF Type, None
<1>14. GoodCalls \subseteq GoodCalls'
  <2>1. ASSUME NEW p \in Paths, Within(p) PROVE Within(p)'
    <3>1. PICK a \in ToSet(old.args) : /\ IsPrefix(a, p)
                                       /\ Diverted \/ \A q \in Paths : IsPrefix(a, q) /\ IsStrictPrefix(q, p) => Type(q) # "link"
      BY <2>1 DEF Within
    <3>2. Diverted' \/ \A q \in Paths : IsPrefix(a, q) /\ IsStrictPrefix(q, p) => Type(q)' # "link"
      BY <3>1, <1>12, <1>13
    <3> QED
      BY <3>1, <3>2, <1>2 DEF Within
  <2>2. ASSUME NEW c \in GoodCalls PROVE c \in GoodCalls'
    <3>1. c \in CallSet /\ c.path \in Paths
      BY <2>2 DEF GoodCalls, CallSet
    <3>2. Within(c.path)'
      BY <2>1, <2>2, <3>1 DEF GoodCalls
    <3>3. Enters(c)' => Diverted' \/ Kind(c.path)' # "link"
      <4>1. Enters(c) => Diverted \/ Kind(c.path) # "link"
        BY <2>2 DEF GoodCalls
      <4>2. Enters(c)' <=> Enters(c)
        BY <1>2 DEF Enters
      <4>3. Kind(c.path)' # "link" \/ Kind(c.path)' = Kind(c.path)
        BY <3>1, <1>9 DEF None
      <4> QED
        BY <4>1, <4>2, <4>3, <1>12
    <3> QED
      BY <2>2, <3>1, <3>2, <3>3, <1>2 DEF GoodCalls
  <2> QED
    BY <2>2
<1>15. /\ calls' \in Seq(GoodCalls)' /\ StackDescends'
       /\ Len(calls) = 1 => calls' = <<>> /\ Bottom = Top
       /\ Len(calls) # 1 => calls' # <<>> /\ Bottom' = Bottom
  BY <1>14, ReturnCalls
<1>16. RmInv'
  <2>1. ASSUME NEW a \in ToSet(old.args), Alone(a)'
        PROVE  Node(a)' = None \/ a \in ToSet(args) \/ (calls' # <<>> /\ a = Bottom'.path)
    <3>1. a \in Paths /\ a \in steady
      BY <1>1, <1>2, <2>1 DEF Alone
    <3> SUFFICES ASSUME Node(a)' # None PROVE a \in ToSet(args) \/ (calls' # <<>> /\ a = Bottom'.path)
      OBVIOUS
    <3>2. Real(a)' = Real(a) /\ Node(a)' = Node(a) /\ Real(a) # r
      BY <1>9, <3>1
    <3>3. Alone(a)
      BY <1>2, <2>1, <3>2 DEF Alone
    <3>4. a \in ToSet(args) \/ a = Bottom.path
      BY <1>1, <3>2, <3>3 DEF RmInv
    <3>5. Bottom = Top => a # Bottom.path
      BY <1>11, <3>2
    <3> QED
      BY <3>4, <3>5, <1>15
  <2>2. ASSUME NEW p \in steady PROVE fs'[p] = old.fs[p] \/ Reached(p)
    BY <1>1, <1>7, <1>10 DEF RmInv
  <2>3. \A a \in ToSet(old'.args) :
          Alone(a)' => Node(a)' = None \/ a \in ToSet(args') \/ (calls' # <<>> /\ a = Bottom'.path)
    BY <2>1, <1>2
  <2>4. \A p \in steady' : fs'[p] = old'.fs[p] \/ Reached(p)'
    BY <2>2, <1>2, <1>12
  <2> QED
    BY <2>3, <2>4 DEF RmInv
<1>17. OnlyOthers'
  <2>1. \A q \in Paths : Type(q) = "link" => q \in planted \/ fs[q] = old.fs[q]
    BY <1>1 DEF OnlyOthers
  <2>2. \A q \in Paths : Type(q)' = "link" => fs'[q] = fs[q] /\ Type(q) = "link"
    BY <1>10 DEF Type, None
  <2>3. \A q \in Paths : Type(q)' = "link" => q \in planted' \/ fs'[q] = old'.fs[q]
    BY <2>1, <2>2, <1>2
  <2> QED
    BY <2>3, <1>2 DEF OnlyOthers
<1>18. ToSet(args') \subseteq ToSet(args) /\ place' = "walk"
  BY <1>2
<1> QED
  BY <1>1, <1>2, <1>8, <1>15, <1>16, <1>17, <1>18, RmGoesOn

RmStep ==
  \/ NextOperand \/ AllDone({"rm", "chmod", "chown", "ls"})
  \/ RmBegins \/ RmLooks \/ RmUnlinks \/ RmOpens \/ ReadEntry("rm") \/ RmRemovesDirectory \/ RmFails

LEMMA RmKeepsFileInv ==
  ASSUME FileInv, tool = "rm", RmStep
  PROVE  FileInv'
<1>1. FileShape /\ RmInv /\ (place \in {"main", "walk"} => args \in Seq(Paths)) /\ FilesHonest
  BY DEF FileInv, FileShape, FileNames
<1>2. /\ IsTree(fs) /\ calls \in Seq(GoodCalls) /\ old.args \in Seq(Paths)
  BY <1>1 DEF FileShape
<1>3. calls # <<>> => Top \in CallSet /\ Top.path \in Paths
  BY <1>2 DEF Top, GoodCalls, CallSet
<1>4. ASSUME place = "walk", place' = "walk", calls # <<>>,
             UNCHANGED <<tool, opts, args, fs, mode, attr, listed, cut, todo, old, othersVars>>,
             calls' \in Seq(GoodCalls)', StackDescends', calls' # <<>>, Bottom.path = Bottom'.path
      PROVE  FileInv'
  BY <1>1, <1>4, RmOnlyCalls
<1>5. CASE NextOperand
  <2>1. /\ calls = <<>> /\ place = "walk" /\ place' = "walk"
        /\ UNCHANGED <<tool, opts, fs, mode, attr, listed, cut, todo, old, othersVars>>
    BY <1>5 DEF NextOperand
  <2>2. /\ calls' \in Seq(GoodCalls)' /\ StackDescends' /\ calls' # <<>>
        /\ Bottom'.path = Head(args) /\ args' \in Seq(Paths) /\ ToSet(args) = {Head(args)} \cup ToSet(args')
    BY <1>5, NextOperandCalls
  <2>3. ToSet(args) \subseteq ToSet(args') \cup {Bottom'.path} /\ ToSet(args') \subseteq ToSet(args)
    BY <2>2
  <2> QED
    BY <2>1, <2>2, <2>3, RmOnlyCalls
<1>6. CASE AllDone({"rm", "chmod", "chown", "ls"})
  <2>1. /\ place = "walk" /\ place' = "done" /\ calls = <<>> /\ args = <<>>
        /\ UNCHANGED <<tool, opts, args, calls, fs, mode, attr, listed, cut, todo, old, othersVars>>
    BY <1>6 DEF AllDone, Ends, Finish, fileVars
  <2>2. ToSet(args) = {}
    BY <2>1 DEF ToSet
  <2>3. \A a \in ToSet(old.args) : Alone(a) => Node(a) = None
    BY <1>1, <2>1, <2>2 DEF RmInv
  <2>4. Calm
    BY <2>1 DEF Calm, othersVars
  <2>5. \A a \in ToSet(old'.args) : Alone(a)' => Node(a)' = None
    BY <2>3, <2>4, CalmReach DEF Calm
  <2>6. FilesHonest' /\ LsComplete'
    BY <2>1, <2>5 DEF FilesHonest, LsComplete
  <2> QED
    BY <2>1, <2>6, EndingKeepsFileInv
<1>7. CASE RmBegins
  <2>1. CASE args = <<>> /\ "r" \notin opts
    <3>1. place = "main" /\ place' = "done" /\ UNCHANGED fileVars
      BY <1>7, <2>1 DEF RmBegins, Ends, Finish, fileVars
    <3> QED
      BY <3>1, ElsewhereKeepsFileInv
  <2>2. CASE ~(args = <<>> /\ "r" \notin opts)
    <3>1. /\ place = "main" /\ Begin(args') /\ args' = args
          /\ UNCHANGED <<direct, tool, opts, code, calls, fs, mode, attr, listed, cut>> /\ todo' = todo
      BY <1>7, <2>2 DEF RmBegins, Begin
    <3>2. todo' \in TodoSet /\ tool \in FileNames /\ args' \in Seq(Paths)
      BY <1>1, <3>1 DEF FileShape, FileNames
    <3> QED
      BY <3>1, <3>2, BeginningKeepsFileInv
  <2> QED
    BY <2>1, <2>2
<1>8. CASE RmLooks
  <2>1. /\ place = "walk" /\ place' = "walk" /\ calls # <<>>
        /\ UNCHANGED <<tool, opts, args, fs, mode, attr, listed, cut, todo, old, othersVars>>
    BY <1>8 DEF RmLooks, InCall, toolVars
  <2>2. Calm
    BY <2>1 DEF Calm, othersVars
  <2> DEFINE x == IF "r" \in opts \/ direct THEN Kind(Top.path) ELSE "file"
             d == [Top EXCEPT !.at = "act", !.saw = x]
  <2>3. x \in {None, "file", "dir", "link", "device"}
    <3>1. Kind(Top.path) \in {None, "file", "dir", "link", "device"}
      BY <1>2, <1>3, <2>1, InodesAssumption, FileAt
    <3> QED
      BY <3>1
  <2>4. x = "dir" => Kind(Top.path) = "dir"
    OBVIOUS
  <2>5. d \in CallSet /\ d.path = Top.path /\ d.unread = Top.unread /\ d.at = "act" /\ d.saw = x
    <3> HIDE DEF x
    <3> QED
      BY <1>3, <2>1, <2>3 DEF CallSet
  <2>6. calls' = [calls EXCEPT ![1] = d]
    BY <1>8 DEF RmLooks, Top
  <2> HIDE DEF d, x
  <2>7. Enters(d) => Kind(d.path) # "link"
    BY <2>4, <2>5 DEF Enters
  <2>8. calls' \in Seq(GoodCalls)' /\ StackDescends' /\ calls' # <<>> /\ Bottom.path = Bottom'.path
    BY <2>1, <2>2, <2>5, <2>6, <2>7, TopBecomes
  <2> QED
    BY <1>4, <2>1, <2>8
<1>9. CASE RmUnlinks
  <2>1. /\ place = "walk" /\ calls # <<>> /\ Kind(Top.path) \notin {None, "dir"} /\ Unlink(Top.path) /\ Return
        /\ UNCHANGED <<toolVars, mode, attr, listed, cut, todo, old, othersVars>>
    BY <1>9 DEF RmUnlinks, InCall
  <2>2. Node(Top.path) # None /\ Real(Top.path) \in Paths /\ Type(Real(Top.path)) = Kind(Top.path)
    BY <1>2, <1>3, <2>1, FileAt DEF Type
  <2>3. \A q \in Paths : IsStrictPrefix(Real(Top.path), q) => fs[q] = None
    BY <1>2, <2>1, <2>2 DEF IsTree, Type
  <2> QED
    BY <2>1, <2>2, <2>3, RmRemoves
<1>10. CASE RmRemovesDirectory
  <2>1. /\ place = "walk" /\ calls # <<>> /\ Kind(Top.path) = "dir" /\ Unlink(Top.path) /\ Return
        /\ \A q \in Paths : IsStrictPrefix(Real(Top.path), q) => fs[q] = None
        /\ UNCHANGED <<toolVars, mode, attr, listed, cut, todo, old, othersVars>>
    BY <1>10 DEF RmRemovesDirectory, InCall
  <2>2. Node(Top.path) # None
    BY <1>2, <1>3, <2>1, FileAt DEF None
  <2> QED
    BY <2>1, <2>2, RmRemoves
<1>11. CASE RmOpens
  <2>1. /\ place = "walk" /\ place' = "walk" /\ calls # <<>> /\ Top.saw = "dir" /\ Top.at = "act"
        /\ UNCHANGED <<tool, opts, args, fs, mode, attr, listed, cut, todo, old, othersVars>>
        /\ calls' = [calls EXCEPT ![1].at = "read", ![1].unread = Children(Top.path)]
    BY <1>11 DEF RmOpens, InCall, toolVars
  <2>2. Calm
    BY <2>1 DEF Calm, othersVars
  <2>3. calls' \in Seq(GoodCalls)' /\ StackDescends' /\ calls' # <<>> /\ Bottom.path = Bottom'.path
    BY <2>1, <2>2, OpensCalls
  <2> QED
    BY <1>4, <2>1, <2>3
<1>12. CASE ReadEntry("rm")
  <2>1. /\ place = "walk" /\ place' = "walk" /\ calls # <<>>
        /\ UNCHANGED <<tool, opts, args, fs, mode, attr, listed, cut, todo, old, othersVars>>
    BY <1>12 DEF ReadEntry, InCall, toolVars
  <2>2. calls' \in Seq(GoodCalls)' /\ StackDescends' /\ calls' # <<>> /\ Bottom.path = Bottom'.path
    BY <1>12, ReadEntryCalls
  <2> QED
    BY <1>4, <2>1, <2>2
<1>13. CASE RmFails
  <2>1. /\ place = "walk" /\ place' = "done" /\ calls' = <<>>
        /\ UNCHANGED <<tool, opts, args, fs, mode, attr, listed, cut, todo, old, othersVars>>
        /\ ~Succeeded'
    BY <1>13 DEF RmFails, GiveUp, Ends, Finish, Succeeded
  <2>2. FilesHonest' /\ LsComplete'
    BY <2>1 DEF FilesHonest, LsComplete
  <2> QED
    BY <2>1, <2>2, EndingKeepsFileInv
<1> QED
  BY <1>5, <1>6, <1>7, <1>8, <1>9, <1>10, <1>11, <1>12, <1>13 DEF RmStep

(* chmod and chown.                                                        *)
SetStep == AllDone({"rm", "chmod", "chown", "ls"}) \/ SetBegins \/ Sets \/ SetFails

LEMMA SetKeepsFileInv ==
  ASSUME FileInv, tool \in {"chmod", "chown"}, SetStep
  PROVE  FileInv'
<1>1. FileShape /\ SetInv /\ (place \in {"main", "walk"} => args \in Seq(Paths))
  BY DEF FileInv, FileShape, FileNames
<1>2. CASE AllDone({"rm", "chmod", "chown", "ls"})
  <2>1. /\ place = "walk" /\ place' = "done" /\ calls = <<>> /\ args = <<>>
        /\ UNCHANGED <<tool, opts, args, calls, fs, mode, attr, listed, cut, todo, old, othersVars>>
    BY <1>2 DEF AllDone, Ends, Finish, fileVars
  <2>2. ToSet(args) = {}
    BY <2>1 DEF ToSet
  <2>3. \A a \in ToSet(old.args) : Alone(a) /\ Alone(Follow(a)) => Node(Follow(a)) \in mode
    BY <1>1, <2>1, <2>2 DEF SetInv
  <2>4. Calm
    BY <2>1 DEF Calm, othersVars
  <2>5. \A a : /\ Alone(a)' <=> Alone(a)
               /\ Alone(Follow(a))' <=> Alone(Follow(a))
               /\ Node(Follow(a))' = Node(Follow(a))
    BY <2>4 DEF Calm, Alone, Follow, Kind, Node, Real
  <2>6. \A a \in ToSet(old'.args) : Alone(a)' /\ Alone(Follow(a))' => Node(Follow(a))' \in mode'
    BY <2>1, <2>3, <2>5
  <2>7. FilesHonest' /\ LsComplete'
    BY <2>1, <2>6 DEF FilesHonest, LsComplete
  <2> QED
    BY <2>1, <2>7, EndingKeepsFileInv
<1>3. CASE SetBegins
  <2>1. CASE args = <<>>
    <3>1. place = "main" /\ place' = "done" /\ UNCHANGED fileVars
      BY <1>3, <2>1 DEF SetBegins, Ends, Finish, fileVars
    <3> QED
      BY <3>1, ElsewhereKeepsFileInv
  <2>2. CASE args # <<>>
    <3>1. /\ place = "main" /\ Begin(args') /\ args' = args
          /\ UNCHANGED <<direct, tool, opts, code, calls, fs, mode, attr, listed, cut>> /\ todo' = todo
      BY <1>3, <2>2 DEF SetBegins, Begin
    <3>2. todo' \in TodoSet /\ tool \in FileNames /\ args' \in Seq(Paths)
      BY <1>1, <3>1 DEF FileShape, FileNames
    <3> QED
      BY <3>1, <3>2, BeginningKeepsFileInv
  <2> QED
    BY <2>1, <2>2
<1>4. CASE Sets
  <2> DEFINE h == Head(args)
  <2>1. /\ place = "walk" /\ place' = "walk" /\ args # <<>>
        /\ UNCHANGED <<tool, opts, calls, fs, attr, listed, cut, todo, old, othersVars>>
        /\ Node(Follow(h)) # None /\ mode' = mode \cup {Node(Follow(h))} /\ args' = Tail(args)
    BY <1>4 DEF Sets
  <2>2. h \in Paths /\ args' \in Seq(Paths) /\ ToSet(args) = {h} \cup ToSet(args')
    BY <1>1, <2>1, HeadAndTail
  <2> HIDE DEF h
  <2>3. Calm
    BY <2>1 DEF Calm, othersVars
  <2>4. /\ IsTree(fs) /\ mode \subseteq Inodes /\ attr \in [Inodes -> SUBSET Flags] /\ listed \subseteq Paths
        /\ calls \in Seq(GoodCalls) /\ StackDescends
    BY <1>1 DEF FileShape
  <2>5. Node(Follow(h)) \in Inodes
    <3>1. Follow(h) \in Paths
      BY <2>2, <2>4, FileAt
    <3> QED
      BY <3>1, <2>1, <2>4, FileAt
  <2>6. calls' \in Seq(GoodCalls)' /\ StackDescends'
    <3>1. GoodCalls \subseteq GoodCalls'
      BY <2>3, CalmCalls
    <3>2. calls' \in Seq(GoodCalls')
      BY <3>1, <2>1, <2>4
    <3> QED
      BY <3>2, <2>1, <2>4 DEF StackDescends
  <2>7. \A a : /\ Alone(a)' <=> Alone(a)
               /\ Alone(Follow(a))' <=> Alone(Follow(a))
               /\ Node(Follow(a))' = Node(Follow(a))
    BY <2>3 DEF Calm, Alone, Follow, Kind, Node, Real
  <2>8. SetInv'
    <3>1. ASSUME NEW a \in ToSet(old.args), Alone(a), Alone(Follow(a))
          PROVE  a \in ToSet(args') \/ Node(Follow(a)) \in mode'
      <4>1. a \in ToSet(args) \/ Node(Follow(a)) \in mode
        BY <1>1, <2>1, <3>1 DEF SetInv
      <4> QED
        BY <4>1, <2>1, <2>2
    <3>2. \A a \in ToSet(old'.args) : Alone(a)' /\ Alone(Follow(a))' => a \in ToSet(args') \/ Node(Follow(a))' \in mode'
      BY <3>1, <2>1, <2>7
    <3> QED
      BY <3>2 DEF SetInv
  <2>9. RmInv' /\ MvInv' /\ LsInv' /\ ChattrInv'
    BY <2>1 DEF RmInv, MvInv, LsInv, ChattrInv
  <2>10. OnlyOthers'
    BY <2>1, <2>3 DEF FileInv, OnlyOthers, Type, Calm, othersVars
  <2>11. mode' \subseteq Inodes /\ IsTree(fs') /\ attr' \in [Inodes -> SUBSET Flags] /\ listed' \subseteq Paths
    BY <2>1, <2>4, <2>5
  <2> QED
    BY <2>1, <2>2, <2>6, <2>8, <2>9, <2>10, <2>11, WalkingKeepsFileInv
<1>5. CASE SetFails
  <2>1. /\ place = "walk" /\ place' = "done" /\ calls' = <<>>
        /\ UNCHANGED <<tool, opts, args, fs, mode, attr, listed, cut, todo, old, othersVars>>
        /\ ~Succeeded'
    BY <1>5 DEF SetFails, GiveUp, Ends, Finish, Succeeded
  <2>2. FilesHonest' /\ LsComplete'
    BY <2>1 DEF FilesHonest, LsComplete
  <2> QED
    BY <2>1, <2>2, EndingKeepsFileInv
<1> QED
  BY <1>2, <1>3, <1>4, <1>5 DEF SetStep
-----------------------------------------------------------------------------
(* mv.                                                                     *)
LEMMA NameAppended ==
  ASSUME NEW S, NEW s \in Seq(S), NEW x, Append(s, x) \in Seq(S)
  PROVE  x \in S
<1>1. Len(s) + 1 \in 1 .. Len(Append(s, x)) /\ Append(s, x)[Len(s) + 1] = x
  BY LenProperties
<1> QED
  BY <1>1

LEMMA LastName ==
  ASSUME NEW S, NEW s \in Seq(S), s # <<>>
  PROVE  Last(s) \in S
<1>1. Len(s) \in 1 .. Len(s)
  BY LenProperties, EmptySeq
<1> QED
  BY <1>1 DEF Last

LEMMA AppendedGraft ==
  ASSUME NEW S, NEW s \in Seq(S), NEW t \in Seq(S), NEW x \in S
  PROVE  Graft(s, t, Append(t, x)) = Append(s, x)
<1> DEFINE len == Len(t)
           u == Append(t, x)
           one == SubSeq(u, len + 1, len + 1)
<1>1. len \in Nat /\ u \in Seq(S) /\ Len(u) = len + 1 /\ u[len + 1] = x
  BY LenProperties
<1>2. one = <<x>>
  <2>1. one \in Seq(S) /\ Len(one) = 1 /\ one[1] = x
    <3> DEFINE m == len + 1
    <3>1. m \in Int /\ (m - m) + 1 = 1 /\ m + 1 - 1 = m /\ u[m] = x /\ u[m] \in S
      BY <1>1
    <3> HIDE DEF m, u
    <3>2. \A i \in m .. m : u[i] \in S
      BY <3>1
    <3>3. /\ SubSeq(u, m, m) \in Seq(S)
          /\ Len(SubSeq(u, m, m)) = (IF m <= m THEN (m - m) + 1 ELSE 0)
          /\ \A i \in 1 .. (m - m) + 1 : SubSeq(u, m, m)[i] = u[m + i - 1]
      BY <3>1, <3>2, SubSeqProperties
    <3> QED
      BY <3>1, <3>3 DEF m
  <2> HIDE DEF one
  <2>2. <<x>> \in Seq(S) /\ Len(<<x>>) = 1 /\ <<x>>[1] = x
    OBVIOUS
  <2> QED
    BY <2>1, <2>2, SeqEqual
<1>3. Graft(s, t, u) = s \o one
  BY <1>1 DEF Graft
<1>4. s \o <<x>> = Append(s, x)
  OBVIOUS
<1> QED
  BY <1>2, <1>3, <1>4

(* The source that is renamed next.                                        *)
LEMMA NextSource ==
  ASSUME FileInv, tool = "mv", place = "walk", Len(args) > 1
  PROVE  /\ args \in Seq(Paths) /\ Len(args) \in Nat /\ old.args \in Seq(Paths) /\ Len(old.args) \in Nat
         /\ Renamings \in Nat /\ Len(args) = Len(old.args) - Renamings /\ Renamings + 1 \in 1 .. Len(old.args) - 1
         /\ Head(args) = old.args[Renamings + 1] /\ Head(args) \in Paths /\ Head(args) \in Sources
         /\ Into \in Paths
<1>1. /\ args \in Seq(Paths) /\ old.args \in Seq(Paths) /\ MvInv
  BY DEF FileInv, FileShape, FileNames
<1>2. /\ Len(args) <= Len(old.args) /\ args[1] = old.args[Renamings + 1]
      /\ Len(args) \in Nat /\ Len(old.args) \in Nat
  <2>1. Len(args) <= Len(old.args) /\ \A k \in 1 .. Len(args) : args[k] = old.args[Renamings + k]
    BY <1>1 DEF MvInv
  <2>2. 1 \in 1 .. Len(args)
    BY <1>1
  <2> QED
    BY <1>1, <2>1, <2>2
<1>3. Renamings \in Nat /\ Len(args) = Len(old.args) - Renamings /\ Renamings + 1 \in 1 .. Len(old.args) - 1
  BY <1>2 DEF Renamings
<1>4. Head(args) = args[1] /\ Head(args) \in Paths
  BY <1>1, HeadAndTail
<1>5. Into \in Paths
  BY <1>1, <1>2, <1>3 DEF Into, Last
<1> QED
  BY <1>1, <1>2, <1>3, <1>4, <1>5 DEF Sources

(* Where the source is and where it goes, if nothing is in the way.        *)
LEMMA MovesWhere ==
  ASSUME FileInv, tool = "mv", Moves, todo.dir, Apart, ToSet(old.args) \subseteq steady
  PROVE  /\ InPlace /\ Head(args) \in Paths /\ Head(args) # <<>> /\ Last(Head(args)) \in STRING
         /\ Real(Head(args)) = Head(args)
         /\ IntoDirectory \in Paths /\ Real(FullDest(Head(args))) = OldDest(Head(args))
<1> DEFINE h == Head(args)
           x == Last(h)
           d == Append(Into, x)
<1>1. place = "walk" /\ Len(args) > 1
  BY DEF Moves
<1>2. /\ Renamings \in Nat /\ Renamings + 1 \in 1 .. Len(old.args) - 1 /\ Len(old.args) \in Nat
      /\ h = old.args[Renamings + 1] /\ h \in Paths /\ h \in Sources /\ Into \in Paths
  BY <1>1, NextSource
<1>3. IsTree(fs) /\ InPlace
  BY <1>1 DEF FileInv, FileShape, MvInv
<1>4. Way(fs, h) = {} /\ Way(fs, Into) = {} /\ fs[Into] = old.fs[Into]
  <2>1. Renamings + 1 \in Renamings + 1 .. Len(old.args) - 1
    BY <1>2
  <2> QED
    BY <1>2, <1>3, <2>1 DEF InPlace
<1>5. d = FullDest(h)
  BY DEF FullDest, Into
<1>6. OldDest(h) = Append(IntoDirectory, x)
  BY DEF OldDest
<1> HIDE DEF h
<1>7. h \in Seq(STRING) /\ Into \in Seq(STRING) /\ LinkTo \in Seq(STRING) /\ LinkTo \in Paths
  BY <1>2, PathFacts, PathsAssumption
<1>8. h # <<>>
  <2>1. ~IsPrefix(h, Into)
    BY <1>2 DEF Apart
  <2>2. IsPrefix(<<>>, Into)
    <3>1. <<>> \in Seq(STRING) /\ Len(<<>>) = 0 /\ 0 <= Len(Into)
      BY <1>7, LenProperties
    <3>2. \A i \in 1 .. 0 : FALSE
      OBVIOUS
    <3> QED
      BY <3>1, <3>2, <1>7, PrefixMeans
  <2> QED
    BY <2>1, <2>2
<1>9. x \in STRING
  BY <1>7, <1>8, LastName
<1>10. Real(h) = h
  BY <1>2, <1>3, <1>4, FileAt
<1>11. IntoDirectory \in Paths
  BY <1>2, <1>7 DEF IntoDirectory
<1> HIDE DEF x
<1>12. /\ d \in Seq(STRING) /\ IsPrefix(Into, d) /\ Len(d) = Len(Into) + 1 /\ Len(Into) \in Nat
       /\ \A q \in Seq(STRING) : IsStrictPrefix(q, d) => IsPrefix(q, Into)
  BY <1>7, <1>9, AppendedPath, LenProperties
<1>13. IsStrictPrefix(Into, d)
  BY <1>12 DEF IsStrictPrefix
<1>14. Real(d) = Append(IntoDirectory, x)
  <2>1. CASE fs[Into] # None /\ KindOf[fs[Into]] = "link"
    <3>1. IntoDirectory = LinkTo
      BY <2>1, <1>4 DEF IntoDirectory
    <3> HIDE DEF d
    <3>2. Into \in Way(fs, d)
      BY <2>1, <1>2, <1>12, <1>13, LinkAbove
    <3>3. Leads(fs, d) = Graft(LinkTo, Into, d)
      BY <3>2, <1>3, <1>12, OneLinkAbove
    <3> QED
      BY <3>1, <3>3, <1>7, <1>9, AppendedGraft DEF Real, d
  <2>2. CASE ~(fs[Into] # None /\ KindOf[fs[Into]] = "link")
    <3>1. IntoDirectory = Into
      BY <2>2, <1>4 DEF IntoDirectory
    <3> HIDE DEF d
    <3>2. ASSUME NEW q \in Way(fs, d) PROVE FALSE
      <4>1. q \in Paths /\ IsStrictPrefix(q, d) /\ fs[q] # None /\ KindOf[fs[q]] = "link"
        <5>1. q \in Paths
          BY <3>2 DEF Way, Above
        <5> QED
          BY <3>2, <5>1, <1>12, LinkAbove
      <4>2. IsPrefix(q, Into) /\ q # Into
        BY <4>1, <2>2, <1>12, PathFacts
      <4>3. q \in Way(fs, Into)
        BY <4>1, <4>2, <1>7, LinkAbove DEF IsStrictPrefix
      <4> QED
        BY <4>3, <1>4
    <3>3. Leads(fs, d) = d
      BY <3>2, <1>3, <1>12, LeadsSomewhere
    <3> QED
      BY <3>1, <3>3 DEF Real, d
  <2> QED
    BY <2>1, <2>2
<1> QED
  BY <1>2, <1>3, <1>5, <1>6, <1>8, <1>9, <1>10, <1>11, <1>14 DEF h, x

(* The tree afterwards, while others leave the operands alone.             *)
LEMMA MovesHonestly ==
  ASSUME FileInv, tool = "mv", Moves, todo.dir, Apart, ToSet(old.args) \subseteq steady
  PROVE  /\ Way(fs', Into) = {} /\ fs'[Into] = old.fs[Into]
         /\ \A k \in Renamings + 2 .. Len(old.args) - 1 :
              Way(fs', old.args[k]) = {} /\ fs'[old.args[k]] \in {old.fs[old.args[k]], None}
         /\ \A k \in 1 .. Renamings + 1 :
              OldDest(old.args[k]) \in steady => fs'[OldDest(old.args[k])] = old.fs[old.args[k]]
<1> DEFINE s == Head(args)
           t == OldDest(s)
           j == Renamings + 1
<1>1. /\ place = "walk" /\ Len(args) > 1 /\ CanRename(s, t) /\ fs' = (IF s = t THEN fs ELSE Renamed(s, t))
      /\ InPlace /\ s \in Paths /\ s # <<>> /\ Last(s) \in STRING /\ IntoDirectory \in Paths
  BY MovesWhere DEF Moves
<1>2. /\ old.args \in Seq(Paths) /\ Len(old.args) \in Nat
      /\ Renamings \in Nat /\ j \in 1 .. Len(old.args) - 1
      /\ s = old.args[j] /\ s \in Sources /\ Into \in Paths
  BY <1>1, NextSource
<1>3. /\ IsTree(fs) /\ steady \subseteq Paths /\ Way(fs, Into) = {} /\ fs[Into] = old.fs[Into]
      /\ \A k \in j .. Len(old.args) - 1 :
           Way(fs, old.args[k]) = {} /\ fs[old.args[k]] \in {old.fs[old.args[k]], None}
      /\ \A k \in 1 .. Renamings :
           OldDest(old.args[k]) \in steady => fs[OldDest(old.args[k])] = old.fs[old.args[k]]
  BY <1>1 DEF FileInv, FileShape, InPlace
<1>4. IntoDirectory \in Seq(STRING)
  BY <1>1, PathFacts
<1>5. t = Append(IntoDirectory, Last(s))
  BY DEF OldDest
<1>6. /\ t \in Paths /\ fs[s] # None
      /\ \A q \in Paths : IsStrictPrefix(t, q) => fs[q] = None
      /\ ~IsStrictPrefix(s, t) /\ ~IsStrictPrefix(t, s)
  <2> HIDE DEF s, t
  <2> QED
    BY <1>1, <1>3, RenamesFreely
<1>7. fs[s] = old.fs[s]
  <2>1. j \in j .. Len(old.args) - 1
    BY <1>2
  <2> HIDE DEF j, s
  <2> QED
    BY <2>1, <1>2, <1>3, <1>6
<1>8. \A k \in j + 1 .. Len(old.args) - 1 :
        k \in j .. Len(old.args) - 1 /\ k # j /\ k \in 1 .. Len(old.args) - 1 /\ old.args[k] \in Paths
  <2>1. \A k \in j + 1 .. Len(old.args) - 1 :
          k \in j .. Len(old.args) - 1 /\ k # j /\ k \in 1 .. Len(old.args) - 1 /\ k \in 1 .. Len(old.args)
    BY <1>2
  <2> QED
    BY <2>1, <1>2
<1>9. \A k \in 1 .. j : k = j \/ (k \in 1 .. Renamings /\ k # j /\ k \in 1 .. Len(old.args) - 1)
  BY <1>2
<1>10. CASE s = t
  <2>1. fs' = fs
    BY <1>1, <1>10
  <2>2. ASSUME NEW k \in 1 .. j, OldDest(old.args[k]) \in steady
        PROVE  fs'[OldDest(old.args[k])] = old.fs[old.args[k]]
    <3>1. CASE k = j
      BY <3>1, <2>1, <2>2, <1>2, <1>7, <1>10
    <3>2. CASE k # j
      BY <3>2, <2>1, <2>2, <1>3, <1>9
    <3> QED
      BY <3>1, <3>2
  <2>3. \A k \in j + 1 .. Len(old.args) - 1 :
          Way(fs', old.args[k]) = {} /\ fs'[old.args[k]] \in {old.fs[old.args[k]], None}
    BY <2>1, <1>3, <1>8
  <2>4. j + 1 = Renamings + 2
    BY <1>2
  <2> QED
    BY <2>1, <2>2, <2>3, <2>4, <1>3
<1>11. CASE s # t
  <2> HIDE DEF s, t
  <2>1. /\ s \in Seq(STRING) /\ t \in Seq(STRING) /\ Into \in Seq(STRING)
        /\ fs' = Renamed(s, t)
    BY <1>1, <1>2, <1>6, <1>11, PathFacts
  <2>2. Last(s) \in STRING
    BY <1>1
  <2>3. /\ IsPrefix(IntoDirectory, t) /\ Len(t) = Len(IntoDirectory) + 1 /\ Len(IntoDirectory) \in Nat
        /\ \A q \in Seq(STRING) : IsStrictPrefix(q, t) => IsPrefix(q, IntoDirectory)
        /\ t[Len(IntoDirectory) + 1] = Last(s)
    BY <2>1, <2>2, <1>4, <1>5, AppendedPath, LenProperties
  <2>4. ~IsPrefix(s, IntoDirectory)
    <3>1. ASSUME IsPrefix(s, IntoDirectory) PROVE FALSE
      <4>1. IsPrefix(s, t)
        BY <3>1, <2>1, <2>3, <1>4, PrefixTransitive
      <4> QED
        BY <4>1, <1>6, <1>11 DEF IsStrictPrefix
    <3> QED
      BY <3>1
  <2>5. fs[Into] # None
    <3>1. InDirectory(t)
      BY <1>1 DEF CanRename
    <3>2. Front(t) = IntoDirectory
      <4>1. t # <<>> /\ Len(t) = Len(IntoDirectory) + 1
        BY <2>1, <2>3, <1>4
      <4>2. Front(t) \in Seq(STRING) /\ Len(Front(t)) = Len(t) - 1 /\ IsPrefix(Front(t), t)
        BY <2>1, <4>1, AboveFront
      <4>3. IsPrefix(IntoDirectory, Front(t))
        <5>1. IsStrictPrefix(IntoDirectory, t)
          BY <2>3, <2>1, <1>4, LenProperties DEF IsStrictPrefix
        <5> QED
          BY <5>1, <2>1, <4>1, <1>4, AboveFront
      <4>4. Len(Front(t)) <= Len(IntoDirectory)
        BY <4>1, <4>2, <1>4, LenProperties
      <4> QED
        BY <4>2, <4>3, <4>4, <1>4, PrefixSameLength
    <3>3. Type(IntoDirectory) = "dir"
      BY <3>1, <3>2 DEF InDirectory
    <3> QED
      BY <3>3, <1>3 DEF IntoDirectory, Type, None
  <2>6. ~IsPrefix(t, Into) /\ ~IsPrefix(s, Into)
    <3>1. t # Into /\ ~IsPrefix(s, Into)
      BY <1>2 DEF Apart, t
    <3>2. ~IsStrictPrefix(t, Into)
      BY <2>5, <1>2, <1>6
    <3> QED
      BY <3>1, <3>2 DEF IsStrictPrefix
  <2>7. fs'[Into] = old.fs[Into]
    BY <2>1, <2>6, <1>1, <1>2, <1>3, <1>6, RenamedAt
  <2>8. ASSUME NEW p \in Paths, ~IsPrefix(t, p), Way(fs, p) = {}
        PROVE  /\ fs'[p] \in {fs[p], None}
               /\ Way(fs', p) = {}
    <3>1. p \in Seq(STRING)
      BY PathFacts
    <3>2. \A q \in Paths : ~IsPrefix(t, q) => fs'[q] = IF IsPrefix(s, q) THEN None ELSE fs[q]
      BY <2>1, <1>1, <1>6, RenamedAt
    <3>3. ASSUME NEW q \in Way(fs', p) PROVE FALSE
      <4>1. q \in Paths
        BY <3>3 DEF Way, Above
      <4>2. IsStrictPrefix(q, p) /\ fs'[q] # None /\ KindOf[fs'[q]] = "link" /\ q \in Seq(STRING)
        BY <3>1, <3>3, <4>1, LinkAbove, PathFacts
      <4>3. ~IsPrefix(t, q)
        BY <2>1, <2>8, <3>1, <4>2, PrefixTransitive DEF IsStrictPrefix
      <4>4. fs[q] = fs'[q]
        BY <3>2, <4>1, <4>2, <4>3
      <4>5. q \in Way(fs, p)
        BY <3>1, <4>1, <4>2, <4>4, LinkAbove
      <4> QED
        BY <4>5, <2>8
    <3> QED
      BY <2>8, <3>2, <3>3
  <2>9. Way(fs', Into) = {}
    BY <2>6, <2>8, <1>2, <1>3
  <2>10. ASSUME NEW k \in j + 1 .. Len(old.args) - 1
         PROVE  Way(fs', old.args[k]) = {} /\ fs'[old.args[k]] \in {old.fs[old.args[k]], None}
    <3>1. ~IsPrefix(t, old.args[k])
      BY <1>2, <1>8 DEF Apart, t
    <3>2. /\ old.args[k] \in Paths /\ Way(fs, old.args[k]) = {}
          /\ fs[old.args[k]] \in {old.fs[old.args[k]], None}
      BY <2>10, <1>3, <1>8
    <3> QED
      BY <3>1, <3>2, <2>8
  <2>11. ASSUME NEW k \in 1 .. j, OldDest(old.args[k]) \in steady
         PROVE  fs'[OldDest(old.args[k])] = old.fs[old.args[k]]
    <3>1. CASE k = j
      <4>1. Graft(s, t, t) = s /\ IsPrefix(t, t)
        BY <2>1, GraftItself, PrefixItself
      <4>2. fs'[t] = fs[s]
        BY <4>1, <2>1, <1>1, <1>6, RenamedAt
      <4> QED
        BY <3>1, <4>2, <1>2, <1>7 DEF t
    <3>2. CASE k # j
      <4> DEFINE D == OldDest(old.args[k])
      <4>1. D \in Paths /\ D \in Seq(STRING) /\ D = Append(IntoDirectory, Last(old.args[k]))
        BY <2>11, <1>3, PathFacts DEF OldDest
      <4>2. Last(old.args[k]) # Last(s) /\ ~IsPrefix(D, s)
        BY <3>2, <1>2, <1>9 DEF Apart
      <4>3. fs[D] = old.fs[old.args[k]]
        BY <3>2, <2>11, <1>3, <1>9
      <4> HIDE DEF D
      <4>4. Last(old.args[k]) \in STRING
        BY <4>1, <1>4, NameAppended
      <4>5. /\ Len(D) = Len(IntoDirectory) + 1 /\ D[Len(IntoDirectory) + 1] = Last(old.args[k])
            /\ \A q \in Seq(STRING) : IsStrictPrefix(q, D) => IsPrefix(q, IntoDirectory)
        BY <4>1, <4>4, <1>4, AppendedPath
      <4>6. ~IsPrefix(t, D)
        <5>1. Len(D) <= Len(t)
          BY <4>5, <2>3, <1>4
        <5>2. t # D
          BY <4>2, <4>5, <2>3
        <5> QED
          BY <5>1, <5>2, <4>1, <2>1, PrefixSameLength
      <4>7. ~IsPrefix(s, D)
        <5>1. ~IsStrictPrefix(s, D)
          BY <4>5, <2>1, <2>4
        <5>2. s # D
          BY <4>1, <4>2, PrefixItself
        <5> QED
          BY <5>1, <5>2 DEF IsStrictPrefix
      <4>8. fs'[D] = fs[D]
        BY <4>1, <4>6, <4>7, <2>1, <1>1, <1>6, RenamedAt
      <4> QED
        BY <4>3, <4>8 DEF D
    <3> QED
      BY <3>1, <3>2
  <2>12. j + 1 = Renamings + 2
    BY <1>2
  <2> QED
    BY <2>7, <2>9, <2>10, <2>11, <2>12
<1> QED
  BY <1>10, <1>11

(* Where a path leads is one of the places where it may lead.              *)
LEMMA LeadsWhereItMay == \A p : Real(p) \in MayLead(p)
<1> TAKE p
<1> DEFINE w == Way(fs, p)
<1>1. CASE w = {}
  BY <1>1 DEF Real, Leads, MayLead
<1>2. CASE w # {}
  <2>1. (CHOOSE q \in w : TRUE) \in w
    BY <1>2
  <2>2. w \subseteq Above(p)
    BY DEF Way
  <2>3. Real(p) = Through(CHOOSE q \in w : TRUE, p)
    BY <1>2 DEF Real, Leads
  <2> QED
    BY <2>1, <2>2, <2>3 DEF MayLead
<1> QED
  BY <1>1, <1>2

(* What is lost.                                                           *)
LEMMA MovesLose ==
  ASSUME FileInv, tool = "mv", Moves
  PROVE  /\ \A p \in steady : old.fs[p] # None => fs'[p] = old.fs[p] \/ MayLose(p)
         /\ Len(old.args) = 2 =>
              \A p \in steady :
                old.fs[p] # None =>
                  (\E s \in Sources : p \in Targets(s)) \/ (\E q \in Paths : fs'[q] = old.fs[p])
         /\ IsTree(fs')
<1> DEFINE h == Head(args)
           s == Real(h)
           t == Real(FullDest(h))
<1>1. /\ place = "walk" /\ Len(args) > 1 /\ CanRename(s, t) /\ fs' = (IF s = t THEN fs ELSE Renamed(s, t))
  BY DEF Moves
<1>2. /\ h \in Sources /\ Len(args) \in Nat /\ Len(old.args) \in Nat
      /\ Len(args) = Len(old.args) - Renamings /\ Renamings \in Nat
  BY <1>1, NextSource
<1>3. /\ IsTree(fs) /\ steady \subseteq Paths
      /\ \A p \in steady : old.fs[p] # None => fs[p] = old.fs[p] \/ MayLose(p)
      /\ Len(args) = 2 /\ Len(old.args) = 2 => \A p \in steady : fs[p] = old.fs[p]
  BY <1>1 DEF FileInv, FileShape, MvInv
<1>4. t \in Targets(h) /\ s \in MayLead(h)
  BY LeadsWhereItMay DEF Targets
<1>5. t \in Paths /\ s \in Paths
  BY <1>1 DEF CanRename
<1> HIDE DEF h, s, t
<1>6. ASSUME NEW p \in Paths, fs[p] # None
      PROVE  \/ p = t
             \/ IsPrefix(s, p) /\ \E q \in Paths : fs'[q] = fs[p]
             \/ fs'[p] = fs[p]
  <2>1. CASE s = t
    BY <2>1, <1>1
  <2>2. CASE s # t
    BY <2>2, <1>1, <1>3, <1>5, <1>6, RenamedFile
  <2> QED
    BY <2>1, <2>2
<1>7. IsTree(fs')
  BY <1>1, <1>3, <1>5, RenamingKeepsTree
<1>8. ASSUME NEW p \in steady, old.fs[p] # None
      PROVE  fs'[p] = old.fs[p] \/ MayLose(p)
  <2>1. CASE fs[p] = old.fs[p]
    BY <2>1, <1>2, <1>3, <1>4, <1>6, <1>8 DEF MayLose
  <2>2. CASE fs[p] # old.fs[p]
    BY <2>2, <1>3, <1>8
  <2> QED
    BY <2>1, <2>2
<1>9. ASSUME Len(old.args) = 2, NEW p \in steady, old.fs[p] # None
      PROVE  (\E r \in Sources : p \in Targets(r)) \/ (\E q \in Paths : fs'[q] = old.fs[p])
  <2>1. Len(args) = 2
    BY <1>1, <1>2, <1>9
  <2>2. fs[p] = old.fs[p] /\ p \in Paths
    BY <2>1, <1>3, <1>9
  <2> QED
    BY <2>2, <1>2, <1>4, <1>6, <1>9
<1> QED
  BY <1>7, <1>8, <1>9

MvStep == MvBegins \/ Moves \/ MvFails \/ MvDone

LEMMA MvKeepsFileInv ==
  ASSUME FileInv, tool = "mv", MvStep
  PROVE  FileInv'
<1>1. FileShape /\ MvInv /\ (place \in {"main", "walk"} => args \in Seq(Paths))
  BY DEF FileInv, FileShape, FileNames
<1>2. CASE MvBegins
  <2>1. CASE Len(args) < 2
    <3>1. place = "main" /\ place' = "done" /\ UNCHANGED fileVars
      BY <1>2, <2>1 DEF MvBegins, Ends, Finish, fileVars
    <3> QED
      BY <3>1, ElsewhereKeepsFileInv
  <2>2. CASE ~(Len(args) < 2)
    <3>1. /\ place = "main" /\ Begin(args') /\ args' = args
          /\ todo' = [todo EXCEPT !.dir = ~direct /\ Kind(Follow(Last(args))) = "dir"]
          /\ UNCHANGED <<direct, tool, opts, code, calls, fs, mode, attr, listed, cut>>
      BY <1>2, <2>2 DEF MvBegins, Begin
    <3>2. 2 <= Len(args') /\ args' \in Seq(Paths)
      BY <2>2, <3>1, <1>1, LenProperties
    <3>3. todo' \in TodoSet
      <4> DEFINE b == ~direct /\ Kind(Follow(Last(args))) = "dir"
      <4>1. b \in BOOLEAN
        OBVIOUS
      <4>2. todo \in TodoSet
        BY <1>1 DEF FileShape
      <4>3. todo' = [todo EXCEPT !.dir = b]
        BY <3>1
      <4> HIDE DEF b
      <4> QED
        BY <4>1, <4>2, <4>3 DEF TodoSet
    <3>4. tool \in FileNames
      BY DEF FileNames
    <3> QED
      BY <3>1, <3>2, <3>3, <3>4, BeginningKeepsFileInv
  <2> QED
    BY <2>1, <2>2
<1>3. CASE Moves
  <2>1. /\ place = "walk" /\ place' = "walk" /\ Len(args) > 1 /\ args' = Tail(args)
        /\ UNCHANGED <<tool, opts, calls, mode, attr, listed, cut, todo, old, othersVars>>
    BY <1>3 DEF Moves
  <2>2. /\ args \in Seq(Paths) /\ Len(args) \in Nat /\ old.args \in Seq(Paths) /\ Len(old.args) \in Nat
        /\ Renamings \in Nat /\ Len(args) = Len(old.args) - Renamings
    BY <2>1, NextSource
  <2>3. /\ args' \in Seq(Paths) /\ Len(args') = Len(args) - 1
        /\ \A k \in 1 .. Len(args') : args'[k] = args[k + 1]
    BY <2>1, <2>2, HeadAndTail
  <2>4. Renamings' = Renamings + 1
    BY <2>1, <2>2, <2>3 DEF Renamings
  <2>5. \A k \in 1 .. Len(args) : args[k] = old.args[Renamings + k]
    BY <1>1, <2>1 DEF MvInv
  <2>6. /\ Len(args') <= Len(old.args) /\ 1 <= Len(args') /\ 2 <= Len(old.args)
        /\ ~(Len(args') = 2 /\ Len(old.args) = 2)
    <3>1. \A x, y, z, r \in Nat :
            x > 1 /\ x = y - r /\ z = x - 1 => z <= y /\ 1 <= z /\ 2 <= y /\ ~(z = 2 /\ y = 2)
      OBVIOUS
    <3>2. Len(args') \in Nat
      BY <2>3, LenProperties
    <3> QED
      BY <3>1, <3>2, <2>1, <2>2, <2>3
  <2>7. \A k \in 1 .. Len(args') : args'[k] = old.args[Renamings' + k]
    <3> SUFFICES ASSUME NEW k \in 1 .. Len(args') PROVE args'[k] = old.args[Renamings' + k]
      OBVIOUS
    <3>1. k + 1 \in 1 .. Len(args) /\ Renamings + (k + 1) = (Renamings + 1) + k
      BY <2>2, <2>3
    <3> QED
      BY <3>1, <2>3, <2>4, <2>5
  <2>8. /\ Sources' = Sources /\ Into' = Into /\ (Apart' <=> Apart)
        /\ \A s : Targets(s)' = Targets(s)
        /\ \A s : OldDest(s)' = OldDest(s)
        /\ \A p : MayLose(p)' <=> MayLose(p)
    <3>1. Sources' = Sources /\ Into' = Into
      BY <2>1 DEF Sources, Into
    <3>2. \A s : Targets(s)' = Targets(s)
      BY <2>1 DEF Targets, FullDest
    <3>3. \A s : OldDest(s)' = OldDest(s)
      BY <2>1, <3>1 DEF OldDest, IntoDirectory
    <3>4. Apart' <=> Apart
      BY <2>1, <3>1, <3>3 DEF Apart
    <3>5. \A p : MayLose(p)' <=> MayLose(p)
      BY <3>1, <3>2 DEF MayLose
    <3> QED
      BY <3>1, <3>2, <3>3, <3>4, <3>5
  <2>9. todo'.dir /\ Apart' /\ ToSet(old'.args) \subseteq steady' => InPlace'
    <3> SUFFICES ASSUME todo.dir, Apart, ToSet(old.args) \subseteq steady PROVE InPlace'
      BY <2>1, <2>8 DEF othersVars
    <3>1. Renamings' + 1 = Renamings + 2
      BY <2>2, <2>4
    <3>2. /\ Way(fs', Into) = {} /\ fs'[Into] = old.fs[Into]
          /\ \A k \in Renamings' + 1 .. Len(old.args) - 1 :
               Way(fs', old.args[k]) = {} /\ fs'[old.args[k]] \in {old.fs[old.args[k]], None}
          /\ \A k \in 1 .. Renamings' :
               OldDest(old.args[k]) \in steady => fs'[OldDest(old.args[k])] = old.fs[old.args[k]]
      BY <1>3, <2>4, <3>1, MovesHonestly
    <3> QED
      BY <2>1, <2>8, <3>2 DEF InPlace, othersVars
  <2>10. /\ \A p \in steady : old.fs[p] # None => fs'[p] = old.fs[p] \/ MayLose(p)
         /\ Len(old.args) = 2 =>
              \A p \in steady :
                old.fs[p] # None =>
                  (\E s \in Sources : p \in Targets(s)) \/ (\E q \in Paths : fs'[q] = old.fs[p])
         /\ IsTree(fs')
    BY <1>3, MovesLose
  <2>11. MvInv'
    <3>1. steady' = steady /\ others' = others /\ old' = old
      BY <2>1 DEF othersVars
    <3>2. \A p \in steady' : old'.fs[p] # None => fs'[p] = old'.fs[p] \/ MayLose(p)'
      BY <2>8, <2>10, <3>1
    <3>3. Len(old'.args) = 2 =>
            \A p \in steady' :
              old'.fs[p] # None =>
                \/ \E s \in Sources' : p \in Targets(s)'
                \/ \E q \in Paths : fs'[q] = old'.fs[p]
                \/ old'.fs[p] \in others'
      BY <2>8, <2>10, <3>1
    <3>4. ~(Len(args') = 2 /\ Len(old'.args) = 2) /\ Len(args') <= Len(old'.args) /\ 1 <= Len(args')
          /\ 2 <= Len(old'.args) /\ \A k \in 1 .. Len(args') : args'[k] = old'.args[Renamings' + k]
      BY <2>6, <2>7, <3>1
    <3> QED
      BY <2>9, <3>2, <3>3, <3>4 DEF MvInv
  <2>12. calls' \in Seq(GoodCalls)' /\ StackDescends'
    <3>1. GoodCalls \subseteq GoodCalls'
      BY <2>1 DEF GoodCalls, Enters
    <3>2. calls \in Seq(GoodCalls) /\ StackDescends
      BY <1>1 DEF FileShape
    <3>3. calls' \in Seq(GoodCalls')
      BY <3>1, <3>2, <2>1
    <3> QED
      BY <3>2, <3>3, <2>1 DEF StackDescends
  <2>13. OnlyOthers' /\ RmInv' /\ SetInv' /\ LsInv' /\ ChattrInv'
    BY <2>1 DEF OnlyOthers, RmInv, SetInv, LsInv, ChattrInv
  <2>14. mode' \subseteq Inodes /\ attr' \in [Inodes -> SUBSET Flags] /\ listed' \subseteq Paths
    BY <1>1, <2>1 DEF FileShape
  <2> QED
    BY <2>1, <2>3, <2>10, <2>11, <2>12, <2>13, <2>14, WalkingKeepsFileInv
<1>4. CASE MvFails
  <2>1. /\ place = "walk" /\ place' = "done" /\ calls' = <<>>
        /\ UNCHANGED <<tool, opts, args, fs, mode, attr, listed, cut, todo, old, othersVars>>
        /\ ~Succeeded'
    BY <1>4 DEF MvFails, GiveUp, Ends, Finish, Succeeded
  <2>2. FilesHonest' /\ LsComplete'
    BY <2>1 DEF FilesHonest, LsComplete
  <2> QED
    BY <2>1, <2>2, EndingKeepsFileInv
<1>5. CASE MvDone
  <2>1. /\ place = "walk" /\ place' = "done" /\ Len(args) = 1
        /\ UNCHANGED <<tool, opts, args, calls, fs, mode, attr, listed, cut, todo, old, othersVars>>
    BY <1>5 DEF MvDone, Ends, Finish, fileVars
  <2>2. old.args \in Seq(Paths) /\ Len(old.args) \in Nat
    BY <1>1 DEF FileShape
  <2>3. Renamings = Len(old.args) - 1
    BY <2>1 DEF Renamings
  <2>4. todo.dir /\ Apart /\ ToSet(old.args) \subseteq steady =>
          \A k \in 1 .. Len(old.args) - 1 :
            OldDest(old.args[k]) \in steady => fs[OldDest(old.args[k])] = old.fs[old.args[k]]
    BY <1>1, <2>1, <2>3 DEF MvInv, InPlace
  <2>5. todo.dir /\ Apart /\ ToSet(old.args) \subseteq steady =>
          \A s \in Sources : OldDest(s) \in steady => fs[OldDest(s)] = old.fs[s]
    BY <2>4 DEF Sources
  <2>6. /\ Sources' = Sources /\ (Apart' <=> Apart) /\ steady' = steady
        /\ \A s : OldDest(s)' = OldDest(s)
    BY <2>1 DEF Sources, Into, Apart, OldDest, IntoDirectory, othersVars
  <2>7. todo'.dir /\ Apart' /\ ToSet(old'.args) \subseteq steady' =>
          \A s \in Sources' : OldDest(s)' \in steady' => fs'[OldDest(s)'] = old'.fs[s]
    BY <2>1, <2>5, <2>6
  <2>8. FilesHonest' /\ LsComplete'
    BY <2>1, <2>7 DEF FilesHonest, LsComplete
  <2> QED
    BY <2>1, <2>8, EndingKeepsFileInv
<1> QED
  BY <1>2, <1>3, <1>4, <1>5 DEF MvStep
-----------------------------------------------------------------------------
(* ls.                                                                     *)
LEMMA LsGoesOn ==
  ASSUME FileInv, tool = "ls", place = "walk", place' = "walk",
         UNCHANGED <<tool, fs, mode, attr, todo, old, othersVars>>,
         calls' \in Seq(GoodCalls)', StackDescends',
         args' \in Seq(Paths), ToSet(args') \subseteq ToSet(args), listed' \subseteq Paths,
         LsInv'
  PROVE  FileInv'
<1>1. RmInv' /\ SetInv' /\ MvInv' /\ ChattrInv'
  BY DEF RmInv, SetInv, MvInv, ChattrInv
<1>2. OnlyOthers'
  BY DEF FileInv, OnlyOthers, Type, othersVars
<1>3. IsTree(fs') /\ mode' \subseteq Inodes /\ attr' \in [Inodes -> SUBSET Flags]
  BY DEF FileInv, FileShape, IsTree
<1> QED
  BY <1>1, <1>2, <1>3, WalkingKeepsFileInv

(* What a step of ls does to the call of an operand, when that is on top.  *)
LEMMA LsKeepsListing ==
  ASSUME FileInv, tool = "ls", place = "walk", place' = "walk", calls # <<>>,
         UNCHANGED <<tool, opts, args, fs, mode, attr, todo, old, othersVars>>,
         code' = "ok" => code = "ok", cut \subseteq cut',
         calls' \in Seq(GoodCalls)', StackDescends',
         listed \subseteq listed', listed' \subseteq Paths,
         \A p \in listed' : \/ p \in listed
                            \/ (Alone(p) => Node(p) # None) /\ (Skipped(p) => p \in ToSet(old.args)),
         Len(calls) = 1 => Bottom = Top,
         Len(calls) # 1 /\ code' = "ok" => calls' # <<>> /\ Bottom' = Bottom,
         NEW a, a = Top.path,
         /\ Len(calls) = 1 /\ code' = "ok" /\ "d" \notin opts /\ Kind(a) = "dir" /\ a \notin cut'
         /\ Top.at \in {"look", "act"} \/ (Top.at = "read" /\ EntriesOf(a) \subseteq listed \cup Top.unread)
         =>   \/ calls' # <<>> /\ a = Bottom'.path /\ Bottom'.at \in {"look", "act"}
              \/ calls' # <<>> /\ a = Bottom'.path /\ Bottom'.at = "read" /\ EntriesOf(a) \subseteq listed' \cup Bottom'.unread
              \/ EntriesOf(a) \subseteq listed'
  PROVE  FileInv'
<1>1. LsInv /\ args \in Seq(Paths) /\ Calm
  BY DEF FileInv, FileShape, FileNames, Calm, othersVars
<1>2. /\ \A p : (Alone(p)' <=> Alone(p)) /\ Node(p)' = Node(p) /\ Kind(p)' = Kind(p) /\ Skipped(p)' = Skipped(p)
      /\ \A b : EntriesOf(b)' = EntriesOf(b)
  <2>1. \A p : (Alone(p)' <=> Alone(p)) /\ Node(p)' = Node(p) /\ Kind(p)' = Kind(p) /\ Skipped(p)' = Skipped(p)
    BY <1>1, CalmReach
  <2> QED
    BY <2>1 DEF EntriesOf
<1>3. ASSUME code' = "ok", "d" \notin opts, NEW b \in ToSet(old.args) \ cut', Alone(b), Kind(b) = "dir"
      PROVE  \/ b \in ToSet(args)
             \/ calls' # <<>> /\ b = Bottom'.path /\ Bottom'.at \in {"look", "act"}
             \/ calls' # <<>> /\ b = Bottom'.path /\ Bottom'.at = "read" /\ EntriesOf(b) \subseteq listed' \cup Bottom'.unread
             \/ EntriesOf(b) \subseteq listed'
  <2>1. \/ b \in ToSet(args)
        \/ b = Bottom.path /\ Bottom.at \in {"look", "act"}
        \/ b = Bottom.path /\ Bottom.at = "read" /\ EntriesOf(b) \subseteq listed \cup Bottom.unread
        \/ EntriesOf(b) \subseteq listed
    BY <1>1, <1>3 DEF LsInv
  <2>2. CASE Len(calls) = 1
    BY <2>1, <2>2, <1>3
  <2>3. CASE Len(calls) # 1
    BY <2>1, <2>3, <1>3
  <2> QED
    BY <2>2, <2>3
<1>4. \A p \in listed' : (Alone(p) => Node(p) # None) /\ (Skipped(p) => p \in ToSet(old.args))
  BY <1>1 DEF LsInv
<1>5. LsInv'
  <2>1. place' = "walk" /\ code' = "ok" /\ "d" \notin opts' =>
          \A b \in ToSet(old'.args) \ cut' :
            Alone(b)' /\ Kind(b)' = "dir" =>
              \/ b \in ToSet(args')
              \/ calls' # <<>> /\ b = Bottom'.path /\ Bottom'.at \in {"look", "act"}
              \/ calls' # <<>> /\ b = Bottom'.path /\ Bottom'.at = "read" /\ EntriesOf(b)' \subseteq listed' \cup Bottom'.unread
              \/ EntriesOf(b)' \subseteq listed'
    BY <1>2, <1>3
  <2>2. \A p \in listed' : (Alone(p)' => Node(p)' # None) /\ (Skipped(p)' => p \in ToSet(old'.args))
    BY <1>2, <1>4
  <2> QED
    BY <2>1, <2>2 DEF LsInv
<1> QED
  BY <1>1, <1>5, LsGoesOn

LEMMA LsLooksKeepsFileInv ==
  ASSUME FileInv, tool = "ls", LsLooks \/ LsLists
  PROVE  FileInv'
<1>1. /\ place = "walk" /\ place' = "walk" /\ calls # <<>> /\ Top.at \in {"look", "list"}
      /\ UNCHANGED <<tool, opts, args, fs, mode, attr, cut, todo, old, othersVars>>
      /\ Calm
  BY DEF LsLooks, LsLists, InCall, Calm, othersVars
<1>2. /\ calls \in Seq(GoodCalls) /\ listed \subseteq Paths /\ IsTree(fs)
  BY DEF FileInv, FileShape
<1>3. Top \in CallSet /\ Top.path \in Paths /\ Top.path \in ToSet(old.args)
  BY <1>1, <1>2 DEF Top, GoodCalls, CallSet
<1> DEFINE a == Top.path
<1>4. Kind(a) # None <=> Node(a) # None
  BY <1>2, <1>3, FileAt
<1>5. GoodCalls \subseteq GoodCalls'
  BY <1>1, CalmCalls
<1>6. ASSUME Return, code' = "failed", listed' = listed PROVE FileInv'
  <2>1. /\ calls' \in Seq(GoodCalls)' /\ StackDescends'
        /\ Len(calls) = 1 => Bottom = Top
    BY <1>1, <1>5, <1>6, ReturnCalls
  <2> QED
    BY <1>1, <1>2, <1>6, <2>1, LsKeepsListing
<1>7. ASSUME Return, code' = code, listed' = listed \cup {a}, Node(a) # None,
             Top.at = "list" \/ Kind(a) # "dir" \/ "d" \in opts
      PROVE  FileInv'
  <2>1. /\ calls' \in Seq(GoodCalls)' /\ StackDescends'
        /\ Len(calls) = 1 => Bottom = Top
        /\ Len(calls) # 1 => calls' # <<>> /\ Bottom' = Bottom
    BY <1>1, <1>5, <1>7, ReturnCalls
  <2>2. listed \subseteq listed' /\ listed' \subseteq Paths
        /\ \A p \in listed' : \/ p \in listed
                              \/ (Alone(p) => Node(p) # None) /\ (Skipped(p) => p \in ToSet(old.args))
    BY <1>2, <1>3, <1>7
  <2> QED
    BY <1>1, <1>7, <2>1, <2>2, LsKeepsListing
<1>8. ASSUME NEW at \in {"act", "list"}, Top.at = "look", calls' = [calls EXCEPT ![1].at = at],
             UNCHANGED <<listed, code>>, at = "list" => Kind(a) # "dir" \/ "d" \in opts
      PROVE  FileInv'
  <2> DEFINE d == [Top EXCEPT !.at = at]
  <2>1. d \in CallSet /\ d.path = Top.path /\ d.at = at /\ d.unread = Top.unread
    BY <1>3 DEF CallSet
  <2>2. calls' = [calls EXCEPT ![1] = d]
    BY <1>8 DEF Top
  <2> HIDE DEF d
  <2>3. ~Enters(d)
    BY DEF Enters
  <2>4. /\ calls' \in Seq(GoodCalls)' /\ StackDescends' /\ calls' # <<>>
        /\ Bottom' = (IF Len(calls) = 1 THEN d ELSE Bottom)
        /\ Len(calls) = 1 => Bottom = Top
    BY <1>1, <1>8, <2>1, <2>2, <2>3, TopBecomes
  <2> QED
    BY <1>1, <1>2, <1>8, <2>1, <2>4, LsKeepsListing
<1>9. CASE LsLists
  <2>1. /\ Return /\ Top.at = "list"
        /\ \/ Node(a) # None /\ listed' = listed \cup {a} /\ UNCHANGED code
           \/ code' = "failed" /\ UNCHANGED listed
    BY <1>9 DEF LsLists, InCall
  <2> QED
    BY <2>1, <1>6, <1>7
<1>10. CASE LsLooks
  <2>0. Top.at = "look"
    BY <1>10 DEF LsLooks, InCall
  <2>1. CASE Kind(a) = None /\ Return /\ code' = "failed" /\ UNCHANGED listed
    BY <2>1, <1>6
  <2>2. CASE Kind(a) = "dir" /\ "d" \notin opts /\ At("act") /\ UNCHANGED <<listed, code>>
    BY <2>0, <2>2, <1>8 DEF At
  <2>3. CASE (Kind(a) # "dir" \/ "d" \in opts) /\ At("list") /\ UNCHANGED <<listed, code>>
    BY <2>0, <2>3, <1>8 DEF At
  <2>4. CASE /\ Kind(a) # None /\ (Kind(a) # "dir" \/ "d" \in opts)
             /\ Return /\ listed' = listed \cup {a} /\ UNCHANGED code
    BY <2>4, <1>4, <1>7
  <2> QED
    BY <1>10, <2>1, <2>2, <2>3, <2>4 DEF LsLooks
<1> QED
  BY <1>9, <1>10

LEMMA LsReadsKeepsFileInv ==
  ASSUME FileInv, tool = "ls", LsOpens \/ LsStops \/ LsPrints \/ LsRewinds \/ LsCloses
  PROVE  FileInv'
<1>1. /\ place = "walk" /\ place' = "walk" /\ calls # <<>> /\ Top.at \in {"act", "deep", "read"}
      /\ UNCHANGED <<tool, opts, args, fs, mode, attr, todo, old, othersVars>>
      /\ Calm
  BY DEF LsOpens, LsStops, LsPrints, LsRewinds, LsCloses, InCall, toolVars, Calm, othersVars
<1>2. calls \in Seq(GoodCalls) /\ listed \subseteq Paths
  BY DEF FileInv, FileShape
<1>3. Top \in GoodCalls /\ Top \in CallSet /\ Top.path \in Paths
  BY <1>1, <1>2 DEF Top, GoodCalls, CallSet
<1>4. GoodCalls \subseteq GoodCalls'
  BY <1>1, CalmCalls
<1>5. CASE LsOpens
  <2>1. /\ calls' = [calls EXCEPT ![1].at = "read", ![1].unread = Children(Top.path)]
        /\ UNCHANGED <<listed, code, cut>>
    BY <1>5 DEF LsOpens, toolVars
  <2>2. /\ calls' \in Seq(GoodCalls)' /\ StackDescends' /\ calls' # <<>>
        /\ Bottom.path = Bottom'.path
        /\ Len(calls) = 1 => Bottom = Top /\ Bottom'.at = "read" /\ Bottom'.unread = Children(Top.path)
        /\ Len(calls) # 1 => Bottom' = Bottom
    BY <1>1, <2>1, OpensCalls
  <2>3. EntriesOf(Top.path) \subseteq Children(Top.path)
    BY DEF EntriesOf, Children, ChildPaths, Below
  <2> QED
    BY <1>1, <1>2, <2>1, <2>2, <2>3, LsKeepsListing
<1>6. CASE LsStops
  <2>1. /\ Return /\ code' = (IF Len(calls) = 1 THEN "failed" ELSE code) /\ UNCHANGED <<listed, cut>>
    BY <1>6 DEF LsStops
  <2>2. /\ calls' \in Seq(GoodCalls)' /\ StackDescends'
        /\ Len(calls) = 1 => Bottom = Top
        /\ Len(calls) # 1 => calls' # <<>> /\ Bottom' = Bottom
    BY <2>1, <1>1, <1>4, ReturnCalls
  <2> QED
    BY <1>1, <1>2, <2>1, <2>2, LsKeepsListing
<1>7. CASE LsPrints
  <2>1. /\ Top.at = "read" /\ UNCHANGED code
        /\ \E q \in Top.unread :
             /\ IF Skipped(q) THEN UNCHANGED <<listed, cut>> ELSE Prints(q)
             /\ calls' = [calls EXCEPT ![1].unread = @ \ {q}]
    BY <1>7 DEF LsPrints, InCall, toolVars
  <2>2. PICK q \in Top.unread :
             /\ IF Skipped(q) THEN UNCHANGED <<listed, cut>> ELSE Prints(q)
             /\ calls' = [calls EXCEPT ![1].unread = @ \ {q}]
    BY <2>1
  <2>3. q \in Paths /\ (Alone(q) => Node(q) # None)
    BY <1>3 DEF GoodCalls, CallSet
  <2> DEFINE d == [Top EXCEPT !.unread = @ \ {q}]
  <2>4. d \in CallSet /\ d.path = Top.path /\ d.at = Top.at /\ d.unread = Top.unread \ {q}
    BY <1>3 DEF CallSet
  <2>5. calls' = [calls EXCEPT ![1] = d]
    BY <2>2 DEF Top
  <2> HIDE DEF d
  <2>6. ~Enters(d)
    BY DEF Enters
  <2>7. /\ calls' \in Seq(GoodCalls)' /\ StackDescends' /\ calls' # <<>>
        /\ Bottom' = (IF Len(calls) = 1 THEN d ELSE Bottom) /\ Bottom.path = Bottom'.path
        /\ Len(calls) = 1 => Bottom = Top
    BY <1>1, <2>1, <2>4, <2>5, <2>6, TopBecomes
  <2>8. /\ listed' \in {listed, listed \cup {q}} /\ (listed' # listed => ~Skipped(q)) /\ cut \subseteq cut'
        /\ q \in listed' \/ Skipped(q) \/ Node(q) = None \/ Top.path \in cut'
    <3>1. CASE Skipped(q)
      BY <2>2, <3>1
    <3>2. CASE ~Skipped(q)
      BY <2>2, <3>2 DEF Prints
    <3> QED
      BY <3>1, <3>2
  <2>9. /\ listed \subseteq listed' /\ listed' \subseteq Paths
        /\ \A p \in listed' : \/ p \in listed
                              \/ (Alone(p) => Node(p) # None) /\ (Skipped(p) => p \in ToSet(old.args))
    BY <1>2, <2>3, <2>8
  <2>10. Top.path \notin cut' /\ EntriesOf(Top.path) \subseteq listed \cup Top.unread =>
           EntriesOf(Top.path) \subseteq listed' \cup d.unread
    BY <2>4, <2>8 DEF EntriesOf
  <2> QED
    BY <1>1, <1>2, <2>1, <2>4, <2>7, <2>8, <2>9, <2>10, LsKeepsListing
<1>8. CASE LsRewinds
  <2>1. /\ Top.at = "read" /\ UNCHANGED <<code, listed>>
        /\ cut' = IF Top.unread = {} THEN cut ELSE cut \cup {Top.path}
        /\ IF "R" \in opts
             THEN calls' = [calls EXCEPT ![1].at = "deep", ![1].unread = Children(Top.path)]
             ELSE Return
    BY <1>8 DEF LsRewinds, InCall, toolVars
  <2>2. /\ calls' \in Seq(GoodCalls)' /\ StackDescends'
        /\ Len(calls) = 1 => Bottom = Top
        /\ Len(calls) # 1 => calls' # <<>> /\ Bottom' = Bottom
    <3>1. CASE "R" \in opts
      BY <3>1, <1>1, <2>1, OpensCalls
    <3>2. CASE "R" \notin opts
      BY <3>2, <1>1, <1>4, <2>1, ReturnCalls
    <3> QED
      BY <3>1, <3>2
  <2>3. cut \subseteq cut' /\ (Top.path \notin cut' => Top.unread = {})
    BY <2>1
  <2>4. Top.path \notin cut' /\ EntriesOf(Top.path) \subseteq listed \cup Top.unread => EntriesOf(Top.path) \subseteq listed
    BY <2>3
  <2> QED
    BY <1>1, <1>2, <2>1, <2>2, <2>3, <2>4, LsKeepsListing
<1>9. CASE LsCloses
  <2>1. /\ Return /\ UNCHANGED <<listed, cut, code>> /\ Top.at = "deep"
    BY <1>9 DEF LsCloses, InCall, toolVars
  <2>2. /\ calls' \in Seq(GoodCalls)' /\ StackDescends'
        /\ Len(calls) = 1 => Bottom = Top
        /\ Len(calls) # 1 => calls' # <<>> /\ Bottom' = Bottom
    BY <2>1, <1>1, <1>4, ReturnCalls
  <2> QED
    BY <1>1, <1>2, <2>1, <2>2, LsKeepsListing
<1> QED
  BY <1>5, <1>6, <1>7, <1>8, <1>9

LEMMA LsDescendsKeepsFileInv ==
  ASSUME FileInv, tool = "ls", LsDescends
  PROVE  FileInv'
<1>1. /\ place = "walk" /\ place' = "walk" /\ calls # <<>> /\ Top.at = "deep"
      /\ UNCHANGED <<tool, opts, args, fs, mode, attr, todo, old, othersVars, listed, cut, code>>
      /\ Calm
  BY DEF LsDescends, InCall, toolVars, Calm, othersVars
<1>2. calls \in Seq(GoodCalls) /\ listed \subseteq Paths /\ StackDescends
  BY DEF FileInv, FileShape
<1>3. Top \in GoodCalls /\ Top \in CallSet /\ Top.path \in Paths
  BY <1>1, <1>2 DEF Top, GoodCalls, CallSet
<1>4. PICK q \in Top.unread :
        calls' = LET rest == [calls EXCEPT ![1].unread = @ \ {q}] IN
                 IF Kind(q) = "dir" /\ ~Skipped(q) THEN <<[Call(q) EXCEPT !.at = "act"]>> \o rest ELSE rest
  BY DEF LsDescends
<1> DEFINE d == [Top EXCEPT !.unread = @ \ {q}]
           c == [Call(q) EXCEPT !.at = "act"]
           deeper == Kind(q) = "dir" /\ ~Skipped(q)
<1>5. q \in Paths /\ q \in ChildPaths(Top.path)
  BY <1>3 DEF GoodCalls, CallSet
<1>6. /\ d \in CallSet /\ d.path = Top.path /\ d.at = Top.at /\ d.unread \subseteq Top.unread
      /\ c \in CallSet /\ c.path = q /\ c.unread = {} /\ c.at = "act"
  BY <1>3, <1>5 DEF CallSet, Call
<1>7. calls' = IF deeper THEN <<c>> \o [calls EXCEPT ![1] = d] ELSE [calls EXCEPT ![1] = d]
  BY <1>4 DEF Top
<1> HIDE DEF d, c, deeper
<1>8. ~Enters(d)
  BY DEF Enters
<1>9. Len(calls) = 1 => Bottom = Top
  BY DEF Bottom, Top
<1>10. /\ calls' \in Seq(GoodCalls)' /\ StackDescends'
       /\ Len(calls) # 1 => calls' # <<>> /\ Bottom' = Bottom
  <2>1. CASE ~deeper
    <3>1. calls' = [calls EXCEPT ![1] = d]
      BY <2>1, <1>7
    <3> QED
      BY <3>1, <1>1, <1>6, <1>8, TopBecomes
  <2>2. CASE deeper
    <3>1. GoodCalls \subseteq GoodCalls'
      BY <1>1, CalmCalls
    <3>2. c \in GoodCalls /\ d \in GoodCalls
      <4>1. d.unread \subseteq ChildPaths(d.path) /\ \A r \in d.unread : Alone(r) => Node(r) # None
        BY <1>6, <1>3 DEF GoodCalls
      <4>2. ~Enters(c)
        BY DEF Enters
      <4> QED
        BY <4>1, <4>2, <1>1, <1>6, <1>8 DEF GoodCalls
    <3>3. c \in GoodCalls' /\ d \in GoodCalls'
      BY <3>1, <3>2
    <3>4. calls' = <<c>> \o [calls EXCEPT ![1] = d]
      BY <2>2, <1>7
    <3>5. /\ calls' \in Seq(GoodCalls)' /\ StackDescends' /\ calls' # <<>>
          /\ Bottom' = IF Len(calls) = 1 THEN d ELSE Bottom
      BY <3>1, <3>3, <3>4, <1>1, <1>2, <1>6, CallPushed
    <3> QED
      BY <3>5
  <2> QED
    BY <2>1, <2>2
<1> QED
  BY <1>1, <1>2, <1>9, <1>10, LsKeepsListing

LsStep ==
  \/ NextOperand \/ AllDone({"rm", "chmod", "chown", "ls"})
  \/ LsBegins \/ LsLooks \/ LsLists \/ LsOpens \/ LsStops \/ LsPrints \/ LsRewinds \/ LsDescends \/ LsCloses

LEMMA LsKeepsFileInv ==
  ASSUME FileInv, tool = "ls", LsStep
  PROVE  FileInv'
<1>1. FileShape /\ LsInv /\ (place \in {"main", "walk"} => args \in Seq(Paths))
  BY DEF FileInv, FileShape, FileNames
<1>2. CASE NextOperand
  <2>1. /\ calls = <<>> /\ place = "walk" /\ place' = "walk"
        /\ UNCHANGED <<tool, opts, code, fs, mode, attr, listed, cut, todo, old, othersVars>>
    BY <1>2 DEF NextOperand
  <2>2. /\ calls' \in Seq(GoodCalls)' /\ StackDescends' /\ calls' # <<>> /\ Calm
        /\ Bottom'.path = Head(args) /\ Bottom'.at = "look"
        /\ args' \in Seq(Paths) /\ ToSet(args) = {Head(args)} \cup ToSet(args')
    BY <1>2, NextOperandCalls
  <2>3. /\ \A p : (Alone(p)' <=> Alone(p)) /\ Node(p)' = Node(p) /\ Kind(p)' = Kind(p) /\ Skipped(p)' = Skipped(p)
        /\ \A b : EntriesOf(b)' = EntriesOf(b)
    <3>1. \A p : (Alone(p)' <=> Alone(p)) /\ Node(p)' = Node(p) /\ Kind(p)' = Kind(p) /\ Skipped(p)' = Skipped(p)
      BY <2>2, CalmReach
    <3> QED
      BY <3>1 DEF EntriesOf
  <2>4. LsInv'
    <3>1. ASSUME code = "ok", "d" \notin opts, NEW b \in ToSet(old.args) \ cut, Alone(b), Kind(b) = "dir"
          PROVE  \/ b \in ToSet(args')
                 \/ b = Bottom'.path /\ Bottom'.at \in {"look", "act"}
                 \/ EntriesOf(b) \subseteq listed
      BY <1>1, <2>1, <2>2, <3>1 DEF LsInv
    <3>2. \A b \in ToSet(old'.args) \ cut' :
            code' = "ok" /\ "d" \notin opts' /\ Alone(b)' /\ Kind(b)' = "dir" =>
              \/ b \in ToSet(args')
              \/ b = Bottom'.path /\ Bottom'.at \in {"look", "act"}
              \/ EntriesOf(b)' \subseteq listed'
      BY <2>1, <2>3, <3>1
    <3>3. \A p \in listed' : (Alone(p)' => Node(p)' # None) /\ (Skipped(p)' => p \in ToSet(old'.args))
      BY <1>1, <2>1, <2>3 DEF LsInv
    <3> QED
      BY <2>2, <3>2, <3>3 DEF LsInv
  <2>5. listed' \subseteq Paths /\ ToSet(args') \subseteq ToSet(args)
    BY <1>1, <2>1, <2>2 DEF FileShape
  <2> QED
    BY <2>1, <2>2, <2>4, <2>5, LsGoesOn
<1>3. CASE AllDone({"rm", "chmod", "chown", "ls"})
  <2>1. /\ place = "walk" /\ place' = "done" /\ calls = <<>> /\ args = <<>> /\ code' = code
        /\ UNCHANGED <<tool, opts, args, calls, fs, mode, attr, listed, cut, todo, old, othersVars>>
    BY <1>3 DEF AllDone, Finish, fileVars
  <2>2. ToSet(args) = {}
    BY <2>1 DEF ToSet
  <2>3. code = "ok" /\ "d" \notin opts =>
          \A a \in ToSet(old.args) \ cut : Alone(a) /\ Kind(a) = "dir" => EntriesOf(a) \subseteq listed
    BY <1>1, <2>1, <2>2 DEF LsInv
  <2>4. ASSUME code = "ok", NEW p \in Paths, NEW a \in ToSet(old.args) \ cut, Alone(a), Kind(a) = "dir", "d" \notin opts,
               IsPrefix(a, p), Len(p) = Len(a) + 1, Alone(p), Node(p) # None, ~Skipped(p)
        PROVE  p \in listed
    BY <2>3, <2>4 DEF EntriesOf, ChildPaths
  <2>5. \A p \in listed : (Alone(p) => Node(p) # None) /\ (Skipped(p) => p \in ToSet(old.args))
    BY <1>1 DEF LsInv
  <2>6. Calm
    BY <2>1 DEF Calm, othersVars
  <2>7. \A p : (Alone(p)' <=> Alone(p)) /\ Node(p)' = Node(p) /\ Kind(p)' = Kind(p) /\ Skipped(p)' = Skipped(p)
    BY <2>6, CalmReach
  <2>8. LsComplete'
    <3>1. \A p \in Paths : \A a \in ToSet(old'.args) \ cut' :
            /\ code' = "ok" /\ Alone(a)' /\ Kind(a)' = "dir" /\ "d" \notin opts'
            /\ IsPrefix(a, p) /\ Len(p) = Len(a) + 1 /\ Alone(p)' /\ Node(p)' # None /\ ~Skipped(p)'
            => p \in listed'
      BY <2>1, <2>4, <2>7
    <3>2. \A p \in listed' : (Alone(p)' => Node(p)' # None) /\ (Skipped(p)' => p \in ToSet(old'.args))
      BY <2>1, <2>5, <2>7
    <3> QED
      BY <3>1, <3>2 DEF LsComplete
  <2>9. FilesHonest'
    BY <2>1 DEF FilesHonest
  <2> QED
    BY <2>1, <2>8, <2>9, EndingKeepsFileInv
<1>4. CASE LsBegins
  <2>1. /\ place = "main" /\ Begin(args') /\ args' = (IF args = <<>> THEN <<<<>>>> ELSE args)
        /\ UNCHANGED <<direct, tool, opts, code, calls, fs, mode, attr, listed, cut, todo>>
    BY <1>4 DEF LsBegins
  <2>2. todo' \in TodoSet /\ tool \in FileNames
    BY <1>1, <2>1 DEF FileShape, FileNames
  <2>3. args' \in Seq(Paths)
    <3>1. <<<<>>>> \in Seq(Paths)
      BY PathsAssumption
    <3> QED
      BY <1>1, <2>1, <3>1
  <2> QED
    BY <2>1, <2>2, <2>3, BeginningKeepsFileInv
<1> QED
  BY <1>2, <1>3, <1>4, LsLooksKeepsFileInv, LsReadsKeepsFileInv, LsDescendsKeepsFileInv DEF LsStep
-----------------------------------------------------------------------------
(* chattr.                                                                 *)
LEMMA ChattrGoesOn ==
  ASSUME FileInv, tool = "chattr", place = "walk", place' = "walk",
         UNCHANGED <<tool, fs, mode, listed, todo, old, othersVars>>,
         calls' \in Seq(GoodCalls)', StackDescends', attr' \in [Inodes -> SUBSET Flags],
         args' \in Seq(Paths), ToSet(args') \subseteq ToSet(args), ChattrInv'
  PROVE  FileInv'
<1>1. RmInv' /\ SetInv' /\ MvInv' /\ LsInv'
  BY DEF RmInv, SetInv, MvInv, LsInv
<1>2. OnlyOthers'
  BY DEF FileInv, OnlyOthers, Type, othersVars
<1>3. IsTree(fs') /\ mode' \subseteq Inodes /\ listed' \subseteq Paths
  BY DEF FileInv, FileShape, IsTree
<1> QED
  BY <1>1, <1>2, <1>3, WalkingKeepsFileInv

(* What a step of chattr does to the flags, and to the call of an operand. *)
LEMMA ChattrKeepsFlags ==
  ASSUME FileInv, tool = "chattr", place = "walk", place' = "walk", calls # <<>>,
         UNCHANGED <<tool, opts, args, fs, mode, listed, todo, old, othersVars>>,
         said' = "nothing" => said = "nothing",
         calls' \in Seq(GoodCalls)', StackDescends', attr' \in [Inodes -> SUBSET Flags],
         \A i \in Inodes :
           \/ attr'[i] = attr[i]
           \/ /\ todo.add \ {"D"} \subseteq attr'[i]
              /\ "R" \in opts => (\E p \in Paths : old.fs[p] = i /\ Reached(p)) \/ i \in others,
         Len(calls) = 1 => Bottom = Top,
         Len(calls) # 1 => calls' # <<>> /\ Bottom'.path = Bottom.path,
         Len(calls) # 1 /\ Bottom.at \in {"look", "act", "set"} => Bottom'.at \in {"look", "act", "set"},
         NEW a, a = Top.path,
         Len(calls) = 1 /\ said' = "nothing" /\ Top.at \in {"look", "act", "set"} /\ Kind(a) \in {"file", "dir"} =>
            \/ calls' # <<>> /\ a = Bottom'.path /\ Bottom'.at \in {"look", "act", "set"}
            \/ todo.add \ {"D"} \subseteq attr'[Node(a)]
  PROVE  FileInv'
<1>1. ChattrInv /\ args \in Seq(Paths) /\ IsTree(fs) /\ Calm /\ ToSet(old.args) \subseteq Paths
  BY OperandsArePaths DEF FileInv, FileShape, FileNames, Calm, othersVars
<1>2. \A p : /\ Reached(p)' <=> Reached(p)
             /\ Alone(p)' <=> Alone(p)
             /\ Node(p)' = Node(p) /\ Kind(p)' = Kind(p)
  BY <1>1, CalmReach
<1>3. ASSUME said' = "nothing", NEW b \in ToSet(old.args), Alone(b), Kind(b) \in {"file", "dir"}
      PROVE  \/ todo.add \ {"D"} \subseteq attr'[Node(b)]
             \/ b \in ToSet(args)
             \/ calls' # <<>> /\ b = Bottom'.path /\ Bottom'.at \in {"look", "act", "set"}
  <2>1. \/ todo.add \ {"D"} \subseteq attr[Node(b)]
        \/ b \in ToSet(args)
        \/ b = Bottom.path /\ Bottom.at \in {"look", "act", "set"}
    BY <1>1, <1>3 DEF ChattrInv
  <2>2. Node(b) \in Inodes
    <3>1. Kind(b) # None
      BY <1>3 DEF None
    <3> QED
      BY <3>1, <1>1, FileAt
  <2>3. CASE todo.add \ {"D"} \subseteq attr[Node(b)]
    BY <2>2, <2>3
  <2>4. CASE b = Bottom.path /\ Bottom.at \in {"look", "act", "set"}
    <3>1. CASE Len(calls) = 1
      BY <2>4, <3>1, <1>3
    <3>2. CASE Len(calls) # 1
      BY <2>4, <3>2
    <3> QED
      BY <3>1, <3>2
  <2> QED
    BY <2>1, <2>3, <2>4
<1>4. ASSUME "R" \in opts, NEW i \in Inodes, attr'[i] # Flags \ {"D"}
      PROVE  (\E p \in Paths : old.fs[p] = i /\ Reached(p)) \/ i \in others
  BY <1>1, <1>4 DEF ChattrInv, ChattrInside
<1>5. ChattrInv'
  <2>1. \A b \in ToSet(old'.args) :
          said' = "nothing" /\ Alone(b)' /\ Kind(b)' \in {"file", "dir"} =>
            \/ todo'.add \ {"D"} \subseteq attr'[Node(b)']
            \/ b \in ToSet(args')
            \/ calls' # <<>> /\ b = Bottom'.path /\ Bottom'.at \in {"look", "act", "set"}
    BY <1>2, <1>3
  <2>2. "R" \in opts' =>
          \A i \in Inodes :
            attr'[i] # Flags \ {"D"} => (\E p \in Paths : old'.fs[p] = i /\ Reached(p)') \/ i \in others'
    BY <1>2, <1>4 DEF othersVars
  <2>3. ChattrInside'
    BY <2>2 DEF ChattrInside
  <2> QED
    BY <2>1, <2>3 DEF ChattrInv
<1> QED
  BY <1>1, <1>5, ChattrGoesOn

(* The flags are not touched.                                              *)
LEMMA ChattrLeavesFlags ==
  ASSUME FileInv, tool = "chattr", place = "walk", place' = "walk", calls # <<>>,
         UNCHANGED <<tool, opts, args, fs, mode, attr, listed, todo, old, othersVars>>,
         said' = "nothing" => said = "nothing",
         calls' \in Seq(GoodCalls)', StackDescends',
         Len(calls) = 1 => Bottom = Top,
         Len(calls) # 1 => calls' # <<>> /\ Bottom'.path = Bottom.path,
         Len(calls) # 1 /\ Bottom.at \in {"look", "act", "set"} => Bottom'.at \in {"look", "act", "set"},
         NEW a, a = Top.path,
         Len(calls) = 1 /\ said' = "nothing" /\ Top.at \in {"look", "act", "set"} /\ Kind(a) \in {"file", "dir"} =>
            calls' # <<>> /\ a = Bottom'.path /\ Bottom'.at \in {"look", "act", "set"}
  PROVE  FileInv'
<1>1. attr' \in [Inodes -> SUBSET Flags] /\ \A i \in Inodes : attr'[i] = attr[i]
  BY DEF FileInv, FileShape
<1> QED
  BY <1>1, ChattrKeepsFlags

LEMMA ChattrLooksKeepsFileInv ==
  ASSUME FileInv, tool = "chattr", ChattrLooks \/ ChattrGets
  PROVE  FileInv'
<1>1. /\ place = "walk" /\ place' = "walk" /\ calls # <<>> /\ Top.at \in {"look", "act"}
      /\ UNCHANGED <<tool, opts, args, fs, mode, attr, listed, todo, old, othersVars>>
      /\ Calm
  BY DEF ChattrLooks, ChattrGets, InCall, toolVars, Calm, othersVars
<1>2. /\ calls \in Seq(GoodCalls) /\ attr \in [Inodes -> SUBSET Flags] /\ IsTree(fs)
  BY DEF FileInv, FileShape
<1>3. Top \in GoodCalls /\ Top \in CallSet /\ Top.path \in Paths
  BY <1>1, <1>2 DEF Top, GoodCalls, CallSet
<1>4. GoodCalls \subseteq GoodCalls'
  BY <1>1, CalmCalls
<1>5. ASSUME NEW d \in CallSet, d.path = Top.path, d.unread = Top.unread, d.at \in {"act", "set"},
             "R" \in opts => Diverted \/ Kind(Top.path) # "link",
             calls' = [calls EXCEPT ![1] = d], said' = "nothing" => said = "nothing"
      PROVE  FileInv'
  <2>1. Enters(d) => Diverted \/ Kind(d.path) # "link"
    BY <1>5 DEF Enters
  <2>2. /\ calls' \in Seq(GoodCalls)' /\ StackDescends' /\ calls' # <<>>
        /\ Bottom' = (IF Len(calls) = 1 THEN d ELSE Bottom) /\ Bottom.path = Bottom'.path
        /\ Len(calls) = 1 => Bottom = Top
    BY <1>1, <1>5, <2>1, TopBecomes
  <2> QED
    BY <1>1, <1>5, <2>2, ChattrLeavesFlags
<1> DEFINE k == Kind(Top.path)
<1>6. k \in {None, "file", "dir", "link", "device"}
  BY <1>2, <1>3, InodesAssumption, FileAt
<1>7. CASE ChattrLooks
  <2>0. /\ said' = IF k = None THEN "text" ELSE said
        /\ IF Changeable(k) THEN calls' = [calls EXCEPT ![1].at = "act", ![1].saw = k] ELSE Return
    BY <1>7 DEF ChattrLooks
  <2>1. said' = "nothing" => said = "nothing"
    BY <2>0
  <2>2. CASE Changeable(k)
    <3> DEFINE d == [Top EXCEPT !.at = "act", !.saw = k]
    <3>1. d \in CallSet /\ d.path = Top.path /\ d.at = "act" /\ d.unread = Top.unread
      <4> HIDE DEF k
      <4> QED
        BY <1>3, <1>6 DEF CallSet
    <3>2. calls' = [calls EXCEPT ![1] = d]
      BY <2>0, <2>2 DEF Top
    <3>3. "R" \in opts => Kind(Top.path) # "link"
      BY <2>2 DEF Changeable
    <3> HIDE DEF d, k
    <3> QED
      BY <2>1, <3>1, <3>2, <3>3, <1>5
  <2>3. CASE ~Changeable(k)
    <3>1. Return /\ k \notin {"file", "dir"}
      BY <2>0, <2>3 DEF Changeable
    <3>2. /\ calls' \in Seq(GoodCalls)' /\ StackDescends'
          /\ Len(calls) = 1 => Bottom = Top
          /\ Len(calls) # 1 => calls' # <<>> /\ Bottom' = Bottom
      BY <3>1, <1>1, <1>4, ReturnCalls
    <3> QED
      BY <1>1, <2>1, <3>1, <3>2, ChattrLeavesFlags
  <2> QED
    BY <2>2, <2>3
<1>8. CASE ChattrGets
  <2>1. /\ Top.at = "act" /\ Opened /\ said' = said
        /\ calls' = [calls EXCEPT ![1].at = "set", ![1].got = attr[Node(Follow(Top.path))]]
    BY <1>8 DEF ChattrGets, InCall, toolVars
  <2>2. attr[Node(Follow(Top.path))] \subseteq Flags
    <3>1. Follow(Top.path) \in Paths /\ Kind(Follow(Top.path)) # None
      BY <1>2, <1>3, <2>1, FileAt DEF Opened, None
    <3>2. Node(Follow(Top.path)) \in Inodes
      BY <3>1, <1>2, FileAt
    <3> QED
      BY <3>2, <1>2
  <2> DEFINE g == attr[Node(Follow(Top.path))]
             d == [Top EXCEPT !.at = "set", !.got = g]
  <2>3. d \in CallSet /\ d.path = Top.path /\ d.at = "set" /\ d.unread = Top.unread
    <3>1. g \subseteq Flags
      BY <2>2
    <3> HIDE DEF g
    <3> QED
      BY <3>1, <1>3 DEF CallSet
  <2>4. calls' = [calls EXCEPT ![1] = d]
    BY <2>1 DEF Top
  <2>5. "R" \in opts => Diverted \/ Kind(Top.path) # "link"
    BY <1>3, <2>1 DEF GoodCalls, Enters
  <2> HIDE DEF d
  <2> QED
    BY <2>1, <2>3, <2>4, <2>5, <1>5
<1> QED
  BY <1>7, <1>8

(* The flags are set or not, and the call goes on or returns.              *)
LEMMA DescendCalls ==
  ASSUME FileInv, tool = "chattr", calls # <<>>, Top.at # "look", Descend, Calm
  PROVE  /\ calls' \in Seq(GoodCalls)' /\ StackDescends'
         /\ Len(calls) = 1 => Bottom = Top
         /\ Len(calls) # 1 => calls' # <<>> /\ Bottom' = Bottom
<1>0. GoodCalls \subseteq GoodCalls'
  BY CalmCalls
<1>1. CASE Return
  BY <1>0, <1>1, ReturnCalls
<1>2. CASE "R" \in opts /\ At("open")
  <2>1. Top \in CallSet /\ Top \in GoodCalls
    BY DEF FileInv, FileShape, Top, GoodCalls
  <2> DEFINE d == [Top EXCEPT !.at = "open"]
  <2>2. d \in CallSet /\ d.path = Top.path /\ d.at = "open" /\ d.unread = Top.unread
    BY <2>1 DEF CallSet
  <2>3. calls' = [calls EXCEPT ![1] = d]
    BY <1>2 DEF At, Top
  <2> HIDE DEF d
  <2>4. Enters(d) => Diverted \/ Kind(d.path) # "link"
    BY <1>2, <2>1, <2>2 DEF GoodCalls, Enters
  <2> QED
    BY <1>2, <2>2, <2>3, <2>4, TopBecomes
<1> QED
  BY <1>1, <1>2 DEF Descend

LEMMA ChattrSetsKeepsFileInv ==
  ASSUME FileInv, tool = "chattr", ChattrSets
  PROVE  FileInv'
<1> DEFINE i == Node(Follow(Top.path))
<1>1. /\ place = "walk" /\ place' = "walk" /\ calls # <<>> /\ Top.at \in {"act", "set"}
      /\ UNCHANGED <<tool, opts, args, fs, mode, listed, todo, old, othersVars>>
      /\ Descend /\ Opened /\ attr' = [attr EXCEPT ![i] = NewFlags]
      /\ Calm
  BY DEF ChattrSets, InCall, Calm, othersVars
<1>2. said' = "nothing" => said = "nothing"
  BY DEF ChattrSets
<1>3. /\ calls \in Seq(GoodCalls) /\ attr \in [Inodes -> SUBSET Flags] /\ IsTree(fs) /\ IsTree(old.fs)
      /\ todo.add \subseteq Flags /\ OnlyOthers /\ old.args \in Seq(Paths)
  BY DEF FileInv, FileShape, TodoSet
<1>4. Top \in GoodCalls /\ Top.path \in Paths /\ Within(Top.path) /\ Top.got \subseteq Flags
  BY <1>1, <1>3 DEF Top, GoodCalls, CallSet
<1>5. Follow(Top.path) \in Paths /\ i # None /\ i \in Inodes
      /\ Real(Follow(Top.path)) \in Paths /\ i = fs[Real(Follow(Top.path))]
  <2>1. Follow(Top.path) \in Paths
    BY <1>3, <1>4, FileAt
  <2>2. Kind(Follow(Top.path)) # None
    BY <1>1 DEF Opened, None
  <2> QED
    BY <2>1, <2>2, <1>3, FileAt
<1>6. NewFlags \subseteq Flags /\ todo.add \ {"D"} \subseteq NewFlags
  BY <1>3, <1>4 DEF NewFlags
<1>7. /\ attr' \in [Inodes -> SUBSET Flags] /\ attr'[i] = NewFlags
      /\ \A j \in Inodes : j # i => attr'[j] = attr[j]
  <2> HIDE DEF i
  <2> QED
    BY <1>1, <1>3, <1>5, <1>6
<1>8. "R" \in opts => (\E p \in Paths : old.fs[p] = i /\ Reached(p)) \/ i \in others
  <2> SUFFICES ASSUME "R" \in opts PROVE (\E p \in Paths : old.fs[p] = i /\ Reached(p)) \/ i \in others
    OBVIOUS
  <2> DEFINE r == Real(Follow(Top.path))
  <2>1. Reached(r)
    <3>1. CASE Kind(Top.path) # "link"
      <4>1. r = Real(Top.path)
        BY <3>1 DEF Follow
      <4> QED
        BY <4>1, <1>3, <1>4, Where DEF OnlyOthers
    <3>2. CASE Kind(Top.path) = "link"
      <4>1. r = Leads(fs, LinkTo)
        BY <3>2 DEF Follow, Real
      <4>2. IsPrefix(LinkTo, r)
        BY <4>1, <1>3, BelowLinkTo
      <4>3. Diverted
        BY <3>2, <1>1, <1>4 DEF GoodCalls, Enters
      <4> QED
        BY <4>2, <4>3 DEF Reached
    <3> QED
      BY <3>1, <3>2
  <2>2. fs[r] \in {old.fs[r], None} \cup others
    BY <1>3, <1>5 DEF OnlyOthers
  <2> QED
    BY <2>1, <2>2, <1>5
<1>9. Kind(Top.path) \in {"file", "dir"} => Node(Top.path) = i
  BY DEF Follow
<1>10. /\ calls' \in Seq(GoodCalls)' /\ StackDescends'
       /\ Len(calls) = 1 => Bottom = Top
       /\ Len(calls) # 1 => calls' # <<>> /\ Bottom' = Bottom
  BY <1>1, DescendCalls
<1> HIDE DEF i
<1>11. \A j \in Inodes :
         \/ attr'[j] = attr[j]
         \/ /\ todo.add \ {"D"} \subseteq attr'[j]
            /\ "R" \in opts => (\E p \in Paths : old.fs[p] = j /\ Reached(p)) \/ j \in others
  BY <1>6, <1>7, <1>8
<1>12. Kind(Top.path) \in {"file", "dir"} => todo.add \ {"D"} \subseteq attr'[Node(Top.path)]
  BY <1>6, <1>7, <1>9
<1>13. /\ Len(calls) # 1 => calls' # <<>> /\ Bottom'.path = Bottom.path
       /\ Len(calls) # 1 /\ Bottom.at \in {"look", "act", "set"} => Bottom'.at \in {"look", "act", "set"}
  BY <1>10
<1> QED
  BY <1>1, <1>2, <1>7, <1>10, <1>11, <1>12, <1>13, ChattrKeepsFlags

LEMMA ChattrReadsKeepsFileInv ==
  ASSUME FileInv, tool = "chattr", ChattrFails \/ ChattrOpens \/ ReadEntry("chattr") \/ ChattrCloses
  PROVE  FileInv'
<1>1. /\ place = "walk" /\ place' = "walk" /\ calls # <<>>
      /\ UNCHANGED <<tool, opts, args, fs, mode, attr, listed, todo, old, othersVars>>
      /\ said' = "nothing" => said = "nothing"
      /\ Calm
  BY DEF ChattrFails, ChattrOpens, ReadEntry, ChattrCloses, InCall, toolVars, Calm, othersVars
<1>2. Top \in GoodCalls /\ GoodCalls \subseteq GoodCalls'
  BY <1>1, CalmCalls DEF FileInv, FileShape, Top
<1>3. Len(calls) = 1 => Bottom = Top
  BY DEF Bottom, Top
<1>4. CASE ChattrFails
  <2>1. said' = "text" /\ Descend /\ Top.at # "look"
    BY <1>4 DEF ChattrFails, InCall
  <2>2. /\ calls' \in Seq(GoodCalls)' /\ StackDescends'
        /\ Len(calls) # 1 => calls' # <<>> /\ Bottom' = Bottom
    BY <1>1, <2>1, DescendCalls
  <2> QED
    BY <1>1, <1>3, <2>1, <2>2, ChattrLeavesFlags
<1>5. CASE ChattrOpens
  <2>1. /\ Top.at = "open"
        /\ \/ calls' = [calls EXCEPT ![1].at = "read", ![1].unread = Children(Top.path)]
           \/ Return
    BY <1>5 DEF ChattrOpens, InCall
  <2>2. "R" \in opts
    BY <1>2, <2>1 DEF GoodCalls
  <2>3. /\ calls' \in Seq(GoodCalls)' /\ StackDescends'
        /\ Len(calls) # 1 => calls' # <<>> /\ Bottom' = Bottom
    <3>1. CASE Return
      BY <3>1, <1>1, <1>2, ReturnCalls
    <3>2. CASE calls' = [calls EXCEPT ![1].at = "read", ![1].unread = Children(Top.path)]
      BY <3>2, <2>1, <2>2, <1>1, OpensCalls
    <3> QED
      BY <2>1, <3>1, <3>2
  <2> QED
    BY <1>1, <1>3, <2>1, <2>3, ChattrLeavesFlags
<1>6. CASE ReadEntry("chattr")
  <2>1. Top.at = "read"
    BY <1>6 DEF ReadEntry, InCall
  <2>2. /\ calls' \in Seq(GoodCalls)' /\ StackDescends' /\ calls' # <<>>
        /\ Bottom.path = Bottom'.path
        /\ Bottom.at \in {"look", "act", "set"} => Bottom'.at = Bottom.at
    BY <1>6, ReadEntryCalls
  <2> QED
    BY <1>1, <1>3, <2>1, <2>2, ChattrLeavesFlags
<1>7. CASE ChattrCloses
  <2>1. Top.at = "read" /\ Return
    BY <1>7 DEF ChattrCloses, InCall
  <2>2. /\ calls' \in Seq(GoodCalls)' /\ StackDescends'
        /\ Len(calls) # 1 => calls' # <<>> /\ Bottom' = Bottom
    BY <1>1, <1>2, <2>1, ReturnCalls
  <2> QED
    BY <1>1, <1>3, <2>1, <2>2, ChattrLeavesFlags
<1> QED
  BY <1>4, <1>5, <1>6, <1>7

ChattrStep ==
  \/ NextOperand \/ (AllDone({"chattr"}) /\ old.args # <<>>)
  \/ ChattrBegins \/ ChattrNoOperand \/ ChattrLooks \/ ChattrGets \/ ChattrSets \/ ChattrFails
  \/ ChattrOpens \/ ReadEntry("chattr") \/ ChattrCloses

LEMMA ChattrKeepsFileInv ==
  ASSUME FileInv, tool = "chattr", ChattrStep
  PROVE  FileInv'
<1>1. FileShape /\ ChattrInv /\ (place \in {"main", "walk"} => args \in Seq(Paths))
  BY DEF FileInv, FileShape, FileNames
<1>2. CASE NextOperand
  <2>1. /\ calls = <<>> /\ place = "walk" /\ place' = "walk"
        /\ UNCHANGED <<tool, opts, said, fs, mode, attr, listed, cut, todo, old, othersVars>>
    BY <1>2 DEF NextOperand
  <2>2. /\ calls' \in Seq(GoodCalls)' /\ StackDescends' /\ calls' # <<>> /\ Calm
        /\ Bottom'.path = Head(args) /\ Bottom'.at = "look"
        /\ args' \in Seq(Paths) /\ ToSet(args) = {Head(args)} \cup ToSet(args')
    BY <1>2, NextOperandCalls
  <2>3. \A p : /\ Reached(p)' <=> Reached(p)
               /\ Alone(p)' <=> Alone(p)
               /\ Node(p)' = Node(p) /\ Kind(p)' = Kind(p)
    BY <2>2, CalmReach
  <2>4. ChattrInv'
    <3>1. ASSUME said = "nothing", NEW a \in ToSet(old.args), Alone(a), Kind(a) \in {"file", "dir"}
          PROVE  \/ todo.add \ {"D"} \subseteq attr[Node(a)]
                 \/ a \in ToSet(args')
                 \/ a = Bottom'.path /\ Bottom'.at \in {"look", "act", "set"}
      BY <1>1, <2>1, <2>2, <3>1 DEF ChattrInv
    <3>2. \A a \in ToSet(old'.args) :
            said' = "nothing" /\ Alone(a)' /\ Kind(a)' \in {"file", "dir"} =>
              \/ todo'.add \ {"D"} \subseteq attr'[Node(a)']
              \/ a \in ToSet(args')
              \/ a = Bottom'.path /\ Bottom'.at \in {"look", "act", "set"}
      BY <2>1, <2>3, <3>1
    <3>3. ChattrInside'
      BY <1>1, <2>1, <2>3 DEF ChattrInv, ChattrInside, othersVars
    <3> QED
      BY <2>2, <3>2, <3>3 DEF ChattrInv
  <2>5. attr' \in [Inodes -> SUBSET Flags] /\ ToSet(args') \subseteq ToSet(args)
    BY <1>1, <2>1, <2>2 DEF FileShape
  <2> QED
    BY <2>1, <2>2, <2>4, <2>5, ChattrGoesOn
<1>3. CASE AllDone({"chattr"})
  <2>1. /\ place = "walk" /\ place' = "done" /\ calls = <<>> /\ args = <<>> /\ said' = said
        /\ UNCHANGED <<tool, opts, args, calls, fs, mode, attr, listed, cut, todo, old, othersVars>>
    BY <1>3 DEF AllDone, Finish, fileVars
  <2>2. ToSet(args) = {}
    BY <2>1 DEF ToSet
  <2>3. said = "nothing" =>
          \A a \in ToSet(old.args) :
            Alone(a) /\ Kind(a) \in {"file", "dir"} => todo.add \ {"D"} \subseteq attr[Node(a)]
    BY <1>1, <2>1, <2>2 DEF ChattrInv
  <2>4. Calm
    BY <2>1 DEF Calm, othersVars
  <2>5. \A b : (Alone(b)' <=> Alone(b)) /\ Kind(b)' = Kind(b) /\ Node(b)' = Node(b)
    BY <2>4, CalmReach
  <2>6. said' = "nothing" =>
          \A a \in ToSet(old'.args) :
            Alone(a)' /\ Kind(a)' \in {"file", "dir"} => todo'.add \ {"D"} \subseteq attr'[Node(a)']
    BY <2>1, <2>3, <2>5
  <2>7. FilesHonest' /\ LsComplete'
    BY <2>1, <2>6 DEF FilesHonest, LsComplete
  <2> QED
    BY <2>1, <2>7, EndingKeepsFileInv
<1>4. CASE ChattrBegins
  <2>1. /\ place = "main" /\ Begin(args') /\ args' = args
        /\ UNCHANGED <<direct, tool, opts, code, calls, fs, mode, attr, listed, cut>>
    BY <1>4 DEF ChattrBegins, Begin
  <2>2. todo' \in TodoSet
    <3>1. PICK m \in Modifiers : todo' = [todo EXCEPT !.add = m.add, !.drop = m.drop, !.mods = m.mods]
      BY <1>4 DEF ChattrBegins
    <3>2. todo \in TodoSet
      BY <1>1 DEF FileShape
    <3>3. m.add \subseteq Flags /\ m.drop \subseteq Flags /\ m.mods \subseteq {"+", "-", "=", "v"}
      BY <3>1, InodesAssumption
    <3> QED
      BY <3>1, <3>2, <3>3 DEF TodoSet
  <2>3. tool \in FileNames /\ args' \in Seq(Paths)
    BY <1>1, <2>1 DEF FileNames
  <2> QED
    BY <2>1, <2>2, <2>3, BeginningKeepsFileInv
<1>5. CASE ChattrNoOperand
  <2>1. /\ place = "walk" /\ place' = "done" /\ said' = "text"
        /\ UNCHANGED <<tool, opts, args, calls, fs, mode, attr, listed, cut, todo, old, othersVars>>
    BY <1>5 DEF ChattrNoOperand, Finish, fileVars
  <2>2. FilesHonest' /\ LsComplete'
    BY <2>1 DEF FilesHonest, LsComplete, Succeeded
  <2> QED
    BY <2>1, <2>2, EndingKeepsFileInv
<1> QED
  BY <1>2, <1>3, <1>4, <1>5, ChattrLooksKeepsFileInv, ChattrSetsKeepsFileInv, ChattrReadsKeepsFileInv DEF ChattrStep
-----------------------------------------------------------------------------
(* The file commands together.                                             *)
LEMMA StepsOfTools ==
  ASSUME FileStep
  PROVE  \/ tool = "rm" /\ RmStep
         \/ tool \in {"chmod", "chown"} /\ SetStep
         \/ tool = "mv" /\ MvStep
         \/ tool = "ls" /\ LsStep
         \/ tool = "chattr" /\ ChattrStep
<1> DEFINE G == \/ tool = "rm" /\ RmStep
                \/ tool \in {"chmod", "chown"} /\ SetStep
                \/ tool = "mv" /\ MvStep
                \/ tool = "ls" /\ LsStep
                \/ tool = "chattr" /\ ChattrStep
<1>1. ASSUME NextOperand PROVE G
  <2>1. tool \in {"rm", "ls", "chattr"}
    BY <1>1 DEF NextOperand
  <2> QED
    BY <1>1, <2>1 DEF RmStep, LsStep, ChattrStep
<1>2. ASSUME AllDone({"rm", "chmod", "chown", "ls"}) PROVE G
  <2>1. tool \in {"rm", "chmod", "chown", "ls"}
    BY <1>2 DEF AllDone
  <2> QED
    BY <1>2, <2>1 DEF RmStep, SetStep, LsStep
<1>3. ASSUME AllDone({"chattr"}), old.args # <<>> PROVE G
  <2>1. tool = "chattr"
    BY <1>3 DEF AllDone
  <2> QED
    BY <1>3, <2>1 DEF ChattrStep
<1>4. ASSUME RmBegins \/ RmLooks \/ RmUnlinks \/ RmOpens \/ ReadEntry("rm") \/ RmRemovesDirectory \/ RmFails PROVE G
  <2>1. tool = "rm"
    BY <1>4 DEF RmBegins, RmLooks, RmUnlinks, RmOpens, ReadEntry, RmRemovesDirectory, RmFails, InCall
  <2> QED
    BY <1>4, <2>1 DEF RmStep
<1>5. ASSUME SetBegins \/ Sets \/ SetFails PROVE G
  <2>1. tool \in {"chmod", "chown"}
    BY <1>5 DEF SetBegins, Sets, SetFails
  <2> QED
    BY <1>5, <2>1 DEF SetStep
<1>6. ASSUME MvBegins \/ Moves \/ MvFails \/ MvDone PROVE G
  <2>1. tool = "mv"
    BY <1>6 DEF MvBegins, Moves, MvFails, MvDone
  <2> QED
    BY <1>6, <2>1 DEF MvStep
<1>7. ASSUME LsBegins \/ LsLooks \/ LsLists \/ LsOpens \/ LsStops \/ LsPrints \/ LsRewinds \/ LsDescends \/ LsCloses PROVE G
  <2>1. tool = "ls"
    BY <1>7 DEF LsBegins, LsLooks, LsLists, LsOpens, LsStops, LsPrints, LsRewinds, LsDescends, LsCloses, InCall
  <2> QED
    BY <1>7, <2>1 DEF LsStep
<1>8. ASSUME \/ ChattrBegins \/ ChattrNoOperand \/ ChattrLooks \/ ChattrGets \/ ChattrSets \/ ChattrFails
             \/ ChattrOpens \/ ReadEntry("chattr") \/ ChattrCloses
      PROVE  G
  <2>1. tool = "chattr"
    BY <1>8 DEF ChattrBegins, ChattrNoOperand, ChattrLooks, ChattrGets, ChattrSets, ChattrFails, ChattrOpens, ReadEntry, ChattrCloses, InCall
  <2> QED
    BY <1>8, <2>1 DEF ChattrStep
<1>9. G
  <2> HIDE DEF G
  <2> QED
    BY <1>1, <1>2, <1>3, <1>4, <1>5, <1>6, <1>7, <1>8 DEF FileStep
<1> QED
  BY <1>9

LEMMA IdlingKeepsFileInv ==
  ASSUME FileInv, UNCHANGED <<toolVars, fileVars>>
  PROVE  FileInv'
<1>1. /\ UNCHANGED <<place, direct, tool, opts, args, said, code>>
      /\ UNCHANGED <<calls, fs, mode, attr, listed, cut, todo, old, steady, planted, others, meddled>>
      /\ Calm
  BY DEF toolVars, fileVars, othersVars, Calm
<1>2. /\ \A b : /\ Alone(b)' <=> Alone(b)
                /\ Reached(b)' <=> Reached(b)
                /\ Node(b)' = Node(b) /\ Kind(b)' = Kind(b) /\ Follow(b)' = Follow(b)
                /\ Skipped(b)' <=> Skipped(b)
      /\ Bottom' = Bottom /\ (Succeeded' <=> Succeeded)
  BY <1>1, CalmReach DEF Bottom, Succeeded
<1>3. FileShape'
  <2>1. GoodCalls \subseteq GoodCalls'
    BY <1>1, CalmCalls
  <2>2. calls \in Seq(GoodCalls) /\ StackDescends
    BY DEF FileInv, FileShape
  <2>3. calls' \in Seq(GoodCalls')
    BY <1>1, <2>1, <2>2
  <2>4. calls' \in Seq(GoodCalls)' /\ StackDescends'
    BY <1>1, <2>2, <2>3 DEF StackDescends
  <2> QED
    BY <1>1, <2>4 DEF FileInv, FileShape
<1>4. Fresh' /\ OnlyOthers'
  BY <1>1 DEF FileInv, Fresh, Pristine, OnlyOthers, Type
<1>5. RmInv' /\ SetInv'
  BY <1>1, <1>2 DEF FileInv, RmInv, SetInv
<1>6. LsInv'
  <2>1. \A b : EntriesOf(b)' = EntriesOf(b)
    BY <1>2 DEF EntriesOf
  <2> QED
    BY <1>1, <1>2, <2>1 DEF FileInv, LsInv
<1>7. ChattrInv'
  <2>1. ChattrInside => ChattrInside'
    BY <1>1, <1>2 DEF ChattrInside
  <2> QED
    BY <1>1, <1>2, <2>1 DEF FileInv, ChattrInv
<1>8. /\ Sources' = Sources /\ Into' = Into /\ Renamings' = Renamings
      /\ \A s : Targets(s)' = Targets(s) /\ OldDest(s)' = OldDest(s)
  BY <1>1 DEF Sources, Into, Renamings, Targets, FullDest, OldDest, IntoDirectory
<1>9. Apart' <=> Apart
  BY <1>1, <1>8 DEF Apart
<1>10. InPlace' <=> InPlace
  BY <1>1, <1>8 DEF InPlace
<1>11. MvInv'
  <2>1. \A p : MayLose(p)' <=> MayLose(p)
    BY <1>8 DEF MayLose
  <2> QED
    BY <1>1, <1>8, <1>9, <1>10, <2>1 DEF FileInv, MvInv
<1>12. FilesHonest'
  BY <1>1, <1>2, <1>8, <1>9 DEF FileInv, FilesHonest
<1>13. LsComplete'
  BY <1>1, <1>2 DEF FileInv, LsComplete
<1> QED
  BY <1>3, <1>4, <1>5, <1>6, <1>7, <1>11, <1>12, <1>13 DEF FileInv

LEMMA NextFileInv ==
  ASSUME PlaceInv, FileInv, OneStep
  PROVE  FileInv'
<1>1. CASE Idle
  BY <1>1, IdlingKeepsFileInv DEF Idle
<1>2. CASE Starting
  <2>1. /\ place = "find" /\ UNCHANGED fileVars /\ place' \in {"main", "done"}
    BY <1>2 DEF Starting, Starts
  <2>2. ASSUME tool' \in FileNames, place' = "main" PROVE args' \in Seq(Paths)
    <3>1. PICK r \in Requests[tool'] : args' = r[2]
      BY <1>2, <2>2 DEF Starting, Starts
    <3>2. tool' \in DOMAIN Requests
      BY <1>2, <2>2 DEF Starting, Starts
    <3>3. tool' \notin {"cat", "kill", "ps"}
      BY <2>2 DEF FileNames
    <3>4. r[2] \in Seq(Paths)
      BY <3>1, <3>2, <3>3, RequestsAssumption
    <3> QED
      BY <3>1, <3>4
  <2> QED
    BY <2>1, <2>2, ElsewhereKeepsFileInv
<1>3. CASE Filing
  BY <1>3, StepsOfTools, RmKeepsFileInv, SetKeepsFileInv, MvKeepsFileInv, LsKeepsFileInv, ChattrKeepsFileInv DEF Filing
<1>4. CASE Disturbing
  <2>1. Others /\ place = "walk"
    BY <1>4 DEF Disturbing
  <2> QED
    BY <2>1, OthersDisturb, DisturbingKeepsFileInv
<1>5. CASE Catting
  BY <1>5, ElsewhereKeepsFileInv DEF Catting, Of, FileNames
<1>6. CASE Mounting
  BY <1>6, ElsewhereKeepsFileInv DEF Mounting, Of, FileNames
<1>7. CASE Processing
  BY <1>7, ElsewhereKeepsFileInv DEF Processing, Of, FileNames
<1>8. CASE Changing
  BY <1>8, ElsewhereKeepsFileInv DEF Changing, FileNames, toolVars
<1>9. CASE Copies
  BY <1>9, ElsewhereKeepsFileInv DEF Copies, Of, FileNames
<1> QED
  BY <1>1, <1>2, <1>3, <1>4, <1>5, <1>6, <1>7, <1>8, <1>9 DEF OneStep

LEMMA FileInvImplies ==
  ASSUME PlaceInv, FileInv
  PROVE  FileTypeOK /\ NothingElseLost /\ StackDescends /\ ChattrInside /\ FilesHonest /\ LsComplete
<1>1. FileTypeOK
  <2>1. /\ IsTree(fs) /\ calls \in Seq(GoodCalls) /\ mode \subseteq Inodes /\ attr \in [Inodes -> SUBSET Flags]
        /\ listed \subseteq Paths /\ others \subseteq Inodes /\ meddled \in 0 .. MaxOthers
    BY DEF FileInv, FileShape
  <2>2. \A k \in 1 .. Len(calls) : calls[k] \in CallSet
    BY <2>1 DEF GoodCalls
  <2>3. \A k \in 1 .. Len(calls) :
          /\ calls[k].path \in Paths /\ calls[k].unread \subseteq Paths
          /\ calls[k].at \in {"look", "act", "set", "list", "read", "deep", "open"}
    BY <2>2 DEF CallSet
  <2> QED
    BY <2>1, <2>3 DEF PlaceInv, FileTypeOK, IsTree
<1>2. NothingElseLost
  <2> SUFFICES ASSUME NEW p \in steady, place \in {"walk", "done"}, old.fs[p] # None, \A q \in Paths : fs[q] # old.fs[p]
               PROVE  \/ tool = "rm" /\ Reached(p)
                      \/ tool = "mv" /\ \E s \in Sources : p \in Targets(s)
                      \/ tool = "mv" /\ Len(old.args) > 2 /\ \E s \in Sources : \E r \in MayLead(s) : IsPrefix(r, p)
                      \/ old.fs[p] \in others
    BY DEF NothingElseLost
  <2>1. fs[p] # old.fs[p]
    BY DEF FileInv, FileShape
  <2>2. tool \in {"rm", "mv"}
    BY <2>1 DEF FileInv, OnlyOthers
  <2>3. CASE tool = "rm"
    BY <2>1, <2>3 DEF FileInv, RmInv
  <2>4. CASE tool = "mv"
    <3>1. MayLose(p)
      BY <2>1, <2>4 DEF FileInv, MvInv
    <3>2. Len(old.args) = 2 => (\E s \in Sources : p \in Targets(s)) \/ old.fs[p] \in others
      BY <2>4 DEF FileInv, MvInv
    <3>3. Len(old.args) = 2 \/ Len(old.args) > 2
      <4>1. PICK k \in 1 .. Len(old.args) - 1 : TRUE
        BY <3>1 DEF MayLose, Sources
      <4>2. Len(old.args) \in Nat
        BY LenProperties DEF FileInv, FileShape
      <4>3. \A l \in Nat : \A j \in 1 .. l - 1 : l = 2 \/ l > 2
        OBVIOUS
      <4> QED
        BY <4>1, <4>2, <4>3
    <3> QED
      BY <2>4, <3>1, <3>2, <3>3 DEF MayLose
  <2> QED
    BY <2>2, <2>3, <2>4
<1>3. ChattrInside
  BY DEF FileInv, ChattrInv, ChattrInside
<1> QED
  BY <1>1, <1>2, <1>3 DEF FileInv, FileShape
-----------------------------------------------------------------------------
(* cat.  Without options what was read is what was written and what is in  *)
(* the buffer.  With some, the marks are besides; prev tells whether the   *)
(* last character ends a line, line how many numbers there are, and gobble *)
(* whether a blank line is one too many.                                   *)
Marked == ({"as"} \X Character) \cup ({"number"} \X Nat) \cup {<<"blanks", 0>>} \cup ({"mark"} \X {"$", "^", "M-"})

CatShape ==
  /\ left \in Seq(Character) /\ buffer \in Seq(Character) /\ taken \in Seq(Character)
  /\ out \in Seq(Marked)
  /\ CatTypeOK
  /\ buffer # <<>> => opened
  /\ tool = "cat" /\ place \in {"main", "cat"} => args \in Seq(Contents)

CatPristine ==
  /\ left = <<>> /\ buffer = <<>> /\ out = <<>> /\ taken = <<>>
  /\ prev = "nl" /\ gobble = FALSE /\ line = 0 /\ opened = FALSE
Unused == place # "cat" /\ (place = "done" => tool # "cat") => CatPristine

RawInv == ~Cooked => out \o AsAll(buffer) = AsAll(taken)

CookedInv ==
  Cooked =>
    /\ buffer = <<>>
    /\ ~Has("s") => SameOf(Written(Character), out, AsAll(taken))
    /\ SameOf(Written(Character \ {"nl"}), out, AsAll(taken))

(* How many numbers are among the first k, and what comes before each.     *)
NumbersTo(s, k) == {j \in 1 .. k : s[j][1] = "number"}
EndsLine(x) == x[2] \in {"nl", "highnl"}
NumberedInTurn(s, i) ==
  /\ i = Cardinality(NumbersTo(s, Len(s)))
  /\ \A k \in 1 .. Len(s) : s[k][1] = "number" => s[k][2] = Cardinality(NumbersTo(s, k))
  /\ \A k \in 2 .. Len(s) : s[k][1] = "number" => EndsLine(s[k - 1])
LineInv == Cooked => NumberedInTurn(out, line) /\ (prev = "nl" /\ out # <<>> => EndsLine(Last(out)))

(* -s: no three blank lines, and not two at the end unless gobble says so. *)
NoThree(s) == \A k \in 1 .. Len(s) - 2 : \E j \in k .. k + 2 : s[j] # As("nl")
EndsBlank(s) == s # <<>> /\ s[Len(s)] = As("nl")
EndsTwo(s) == 2 <= Len(s) /\ s[Len(s)] = As("nl") /\ s[Len(s) - 1] = As("nl")
BlankInv ==
  Has("s") =>
    /\ NoThree(out)
    /\ prev # "nl" => ~EndsBlank(out)
    /\ ~gobble => ~EndsTwo(out)

CatInv == CatShape /\ Unused /\ RawInv /\ CookedInv /\ LineInv /\ BlankInv

(* The elements of a set among those of a sequence.                        *)
LEMMA PositionsFinite ==
  ASSUME NEW T, NEW s \in Seq(T), NEW S
  PROVE  /\ IsFiniteSet(Positions(s, S)) /\ Positions(s, S) \subseteq 1 .. Len(s) /\ Len(s) \in Nat
         /\ Cardinality(Positions(s, S)) \in Nat
         /\ \A k : Turn(s, S, k) \in Nat /\ Turn(s, S, k) <= Cardinality(Positions(s, S))
<1>1. Positions(s, S) \subseteq 1 .. Len(s) /\ Len(s) \in Nat
  BY LenProperties DEF Positions
<1>2. IsFiniteSet(1 .. Len(s))
  BY <1>1, FS_Interval
<1>3. IsFiniteSet(Positions(s, S))
  BY <1>1, <1>2, FS_Subset
<1>4. Cardinality(Positions(s, S)) \in Nat
  BY <1>3, FS_CardinalityType
<1>5. ASSUME NEW k PROVE Turn(s, S, k) \in Nat /\ Turn(s, S, k) <= Cardinality(Positions(s, S))
  <2> DEFINE P == {j \in Positions(s, S) : j <= k}
  <2>1. P \in SUBSET Positions(s, S) /\ Turn(s, S, k) = Cardinality(P)
    BY DEF Turn
  <2> HIDE DEF P
  <2>2. IsFiniteSet(P) /\ Cardinality(P) <= Cardinality(Positions(s, S))
    BY <2>1, <1>3, FS_Subset
  <2>3. Cardinality(P) \in Nat
    BY <2>2, FS_CardinalityType
  <2> QED
    BY <2>1, <2>2, <2>3
<1> QED
  BY <1>1, <1>3, <1>4, <1>5

LEMMA TurnsDiffer ==
  ASSUME NEW T, NEW s \in Seq(T), NEW S, NEW j \in Positions(s, S), NEW k \in Positions(s, S), j < k
  PROVE  Turn(s, S, j) # Turn(s, S, k)
<1> DEFINE J == {i \in Positions(s, S) : i <= j}
           K == {i \in Positions(s, S) : i <= k}
<1>0. Positions(s, S) \subseteq 1 .. Len(s) /\ Len(s) \in Nat /\ IsFiniteSet(Positions(s, S))
  BY PositionsFinite
<1>1. IsFiniteSet(K) /\ j \in Int /\ k \in Int /\ Positions(s, S) \subseteq Int
  <2>1. K \in SUBSET Positions(s, S)
    OBVIOUS
  <2> HIDE DEF K
  <2> QED
    BY <1>0, <2>1, FS_Subset
<1>2. J \in SUBSET K /\ k \in K /\ k \notin J
  BY <1>1
<1>3. Turn(s, S, j) = Cardinality(J) /\ Turn(s, S, k) = Cardinality(K)
  BY DEF Turn
<1> HIDE DEF J, K
<1>4. Cardinality(K) = Cardinality(J) => K = J
  BY <1>1, <1>2, FS_Subset
<1> QED
  BY <1>2, <1>3, <1>4

LEMMA SameOfItself ==
  ASSUME NEW T, NEW s \in Seq(T), NEW S
  PROVE  SameOf(S, s, s)
<1>1. Positions(s, S) \subseteq Int
  BY PositionsFinite
<1>2. ASSUME NEW j \in Positions(s, S), NEW k \in Positions(s, S), Turn(s, S, j) = Turn(s, S, k)
      PROVE  s[j] = s[k]
  <2>1. ~(j < k) /\ ~(k < j)
    BY <1>2, TurnsDiffer
  <2>2. j = k
    BY <2>1, <1>1
  <2> QED
    BY <2>2
<1> QED
  BY <1>2 DEF SameOf

LEMMA SameOfSymmetric ==
  ASSUME NEW s, NEW t, NEW S, SameOf(S, s, t)
  PROVE  SameOf(S, t, s)
BY DEF SameOf

(* One more element of a sequence.                                         *)
LEMMA OneLonger ==
  ASSUME NEW T, NEW s \in Seq(T), NEW x \in T
  PROVE  /\ Append(s, x) \in Seq(T) /\ Append(s, x) # <<>> /\ Len(Append(s, x)) = Len(s) + 1 /\ Len(s) \in Nat
         /\ Append(s, x)[Len(s) + 1] = x
         /\ \A k \in 1 .. Len(s) : Append(s, x)[k] = s[k]
         /\ s \o <<x>> = Append(s, x)
<1>1. /\ Append(s, x) \in Seq(T) /\ Append(s, x) # <<>> /\ Len(Append(s, x)) = Len(s) + 1 /\ Len(s) \in Nat
      /\ Append(s, x)[Len(s) + 1] = x
      /\ \A k \in 1 .. Len(s) : Append(s, x)[k] = s[k]
  BY LenProperties
<1>2. s \o <<x>> = Append(s, x)
  BY AppendIsConcat
<1> QED
  BY <1>1, <1>2

LEMMA PositionsOneLonger ==
  ASSUME NEW T, NEW s \in Seq(T), NEW x \in T, NEW S
  PROVE  /\ Positions(Append(s, x), S) = IF x \in S THEN Positions(s, S) \cup {Len(s) + 1} ELSE Positions(s, S)
         /\ \A k \in Positions(s, S) : Append(s, x)[k] = s[k]
         /\ \A k \in Positions(s, S) : Turn(Append(s, x), S, k) = Turn(s, S, k)
         /\ x \in S => /\ Cardinality(Positions(Append(s, x), S)) = Cardinality(Positions(s, S)) + 1
                       /\ Turn(Append(s, x), S, Len(s) + 1) = Cardinality(Positions(s, S)) + 1
<1> DEFINE u == Append(s, x)
           P == Positions(s, S)
<1>1. /\ Len(u) = Len(s) + 1 /\ Len(s) \in Nat /\ u[Len(s) + 1] = x /\ \A k \in 1 .. Len(s) : u[k] = s[k]
  BY OneLonger
<1> HIDE DEF u
<1>2. P \subseteq 1 .. Len(s) /\ IsFiniteSet(P)
  BY PositionsFinite
<1>3. 1 .. Len(u) = (1 .. Len(s)) \cup {Len(s) + 1} /\ Len(s) + 1 \notin 1 .. Len(s)
  BY <1>1
<1>4. Positions(u, S) = IF x \in S THEN P \cup {Len(s) + 1} ELSE P
  BY <1>1, <1>3 DEF Positions
<1>5. \A k \in P : u[k] = s[k]
  BY <1>1, <1>2
<1>7. ASSUME NEW k \in P PROVE Turn(u, S, k) = Turn(s, S, k)
  <2>1. k \in 1 .. Len(s) /\ ~(Len(s) + 1 <= k)
    BY <1>1, <1>2
  <2>2. {j \in Positions(u, S) : j <= k} = {j \in P : j <= k}
    BY <1>4, <2>1
  <2> QED
    BY <1>1, <2>1, <2>2 DEF Turn
<1>6. ASSUME x \in S
      PROVE  /\ Cardinality(Positions(u, S)) = Cardinality(P) + 1
             /\ Turn(u, S, Len(s) + 1) = Cardinality(P) + 1
  <2>1. Cardinality(P \cup {Len(s) + 1}) = Cardinality(P) + 1
    <3> HIDE DEF P
    <3>1. Len(s) + 1 \notin P
      BY <1>2, <1>3
    <3> QED
      BY <3>1, <1>2, FS_AddElement
  <2>2. {j \in Positions(u, S) : j <= Len(s) + 1} = P \cup {Len(s) + 1}
    <3> HIDE DEF P
    <3>1. \A j \in P \cup {Len(s) + 1} : j <= Len(s) + 1
      BY <1>1, <1>2
    <3> QED
      BY <3>1, <1>4, <1>6
  <2> QED
    BY <2>1, <2>2, <1>4, <1>6 DEF Turn
<1> QED
  BY <1>4, <1>5, <1>6, <1>7 DEF u

LEMMA AppendOther ==
  ASSUME NEW T, NEW s \in Seq(T), NEW x \in T, NEW S, x \notin S, NEW t, SameOf(S, s, t)
  PROVE  SameOf(S, Append(s, x), t)
<1>1. Positions(Append(s, x), S) = Positions(s, S)
  BY PositionsOneLonger
<1>2. \A k \in Positions(s, S) : Append(s, x)[k] = s[k]
  BY PositionsOneLonger
<1>3. \A k \in Positions(s, S) : Turn(Append(s, x), S, k) = Turn(s, S, k)
  BY PositionsOneLonger
<1> QED
  BY <1>1, <1>2, <1>3 DEF SameOf

LEMMA AppendBoth ==
  ASSUME NEW T, NEW s \in Seq(T), NEW t \in Seq(T), NEW x \in T, NEW S, SameOf(S, s, t)
  PROVE  SameOf(S, Append(s, x), Append(t, x))
<1>1. CASE x \notin S
  BY <1>1, AppendOther, SameOfSymmetric
<1>2. CASE x \in S
  <2> DEFINE u == Append(s, x)
             v == Append(t, x)
             m == Len(s) + 1
             l == Len(t) + 1
             P == Positions(s, S)
             Q == Positions(t, S)
             N == Cardinality(P)
  <2>1. /\ Positions(u, S) = P \cup {m} /\ Positions(v, S) = Q \cup {l}
        /\ Turn(u, S, m) = N + 1 /\ Turn(v, S, l) = N + 1 /\ u[m] = x /\ v[l] = x
        /\ Cardinality(Positions(u, S)) = N + 1 /\ Cardinality(Positions(v, S)) = N + 1
    BY <1>2, PositionsOneLonger, OneLonger DEF SameOf
  <2>2. \A k \in P : u[k] = s[k]
    BY PositionsOneLonger
  <2>3. \A k \in P : Turn(u, S, k) = Turn(s, S, k)
    BY PositionsOneLonger
  <2>4. \A k \in P : Turn(s, S, k) <= N /\ Turn(s, S, k) \in Nat
    BY PositionsFinite
  <2>5. \A k \in Q : v[k] = t[k]
    BY PositionsOneLonger
  <2>6. \A k \in Q : Turn(v, S, k) = Turn(t, S, k)
    BY PositionsOneLonger
  <2>7. \A k \in Q : Turn(t, S, k) <= Cardinality(Q) /\ Turn(t, S, k) \in Nat
    BY PositionsFinite
  <2>8. Cardinality(Q) = N
    BY DEF SameOf
  <2>9. \A j \in P, k \in Q : Turn(s, S, j) = Turn(t, S, k) => s[j] = t[k]
    BY DEF SameOf
  <2>10. N \in Nat
    BY PositionsFinite
  <2> HIDE DEF u, v, m, l, P, Q, N
  <2>11. \A j \in P : Turn(u, S, j) # N + 1
    BY <2>3, <2>4, <2>10
  <2>12. \A k \in Q : Turn(v, S, k) # N + 1
    BY <2>6, <2>7, <2>8, <2>10
  <2>13. \A j \in P \cup {m}, k \in Q \cup {l} : Turn(u, S, j) = Turn(v, S, k) => u[j] = v[k]
    BY <2>1, <2>2, <2>3, <2>5, <2>6, <2>9, <2>11, <2>12
  <2>14. SameOf(S, u, v)
    BY <2>1, <2>13 DEF SameOf
  <2> QED
    BY <2>14 DEF u, v
<1> QED
  BY <1>1, <1>2

(* The characters of a file as they are written.                           *)
LEMMA AsAllProperties ==
  ASSUME NEW s \in Seq(Character)
  PROVE  /\ AsAll(s) \in Seq(Written(Character)) /\ AsAll(s) \in Seq(Marked)
         /\ Len(AsAll(s)) = Len(s) /\ Len(s) \in Nat
         /\ \A k \in 1 .. Len(s) : AsAll(s)[k] = As(s[k])
<1>1. Len(s) \in Nat /\ \A k \in 1 .. Len(s) : s[k] \in Character
  BY LenProperties
<1>2. AsAll(s) = [k \in 1 .. Len(s) |-> As(s[k])]
  BY DEF AsAll
<1>3. \A k \in 1 .. Len(s) : As(s[k]) \in Written(Character)
  BY <1>1 DEF Written
<1>4. AsAll(s) \in [1 .. Len(s) -> Written(Character)]
  BY <1>2, <1>3
<1>5. AsAll(s) \in Seq(Written(Character)) /\ Len(AsAll(s)) = Len(s)
  BY <1>1, <1>4
<1>6. Written(Character) \subseteq Marked
  BY DEF Written, As, Marked
<1>7. AsAll(s) \in Seq(Marked)
  BY <1>5, <1>6, SeqMonotonic
<1>8. \A k \in 1 .. Len(s) : AsAll(s)[k] = As(s[k])
  BY <1>2
<1> QED
  BY <1>1, <1>5, <1>7, <1>8

LEMMA AsAllOneLonger ==
  ASSUME NEW s \in Seq(Character), NEW x \in Character
  PROVE  AsAll(Append(s, x)) = Append(AsAll(s), As(x))
<1> DEFINE u == Append(s, x)
           v == Append(AsAll(s), As(x))
<1>1. /\ u \in Seq(Character) /\ Len(u) = Len(s) + 1 /\ Len(s) \in Nat /\ u[Len(s) + 1] = x
      /\ \A k \in 1 .. Len(s) : u[k] = s[k]
  BY OneLonger
<1>2. As(x) \in Marked
  BY DEF As, Marked
<1>3. /\ AsAll(s) \in Seq(Marked) /\ Len(AsAll(s)) = Len(s) /\ \A k \in 1 .. Len(s) : AsAll(s)[k] = As(s[k])
  BY AsAllProperties
<1>4. /\ v \in Seq(Marked) /\ Len(v) = Len(s) + 1 /\ v[Len(s) + 1] = As(x)
      /\ \A k \in 1 .. Len(s) : v[k] = AsAll(s)[k]
  BY <1>2, <1>3, OneLonger
<1> HIDE DEF u, v
<1>5. AsAll(u) \in Seq(Marked) /\ Len(AsAll(u)) = Len(u) /\ \A k \in 1 .. Len(u) : AsAll(u)[k] = As(u[k])
  BY <1>1, AsAllProperties
<1>6. ASSUME NEW k \in 1 .. Len(AsAll(u)) PROVE AsAll(u)[k] = v[k]
  <2>1. k \in 1 .. Len(s) \/ k = Len(s) + 1
    BY <1>1, <1>5
  <2>2. k \in 1 .. Len(u)
    BY <1>5
  <2> QED
    BY <2>1, <2>2, <1>1, <1>3, <1>4, <1>5
<1>7. Len(AsAll(u)) = Len(v)
  BY <1>1, <1>4, <1>5
<1>8. AsAll(u) = v
  BY <1>4, <1>5, <1>6, <1>7, SeqEqual
<1> QED
  BY <1>8 DEF u, v

LEMMA AsAllConcat ==
  ASSUME NEW s \in Seq(Character), NEW t \in Seq(Character)
  PROVE  s \o t \in Seq(Character) /\ AsAll(s \o t) = AsAll(s) \o AsAll(t)
<1> DEFINE u == s \o t
           v == AsAll(s) \o AsAll(t)
           l == Len(s)
           m == Len(t)
<1>1. /\ u \in Seq(Character) /\ Len(u) = l + m
      /\ \A k \in 1 .. l + m : u[k] = IF k <= l THEN s[k] ELSE t[k - l]
  BY ConcatProperties
<1>2. /\ AsAll(s) \in Seq(Marked) /\ Len(AsAll(s)) = l /\ l \in Nat /\ \A k \in 1 .. l : AsAll(s)[k] = As(s[k])
  BY AsAllProperties
<1>3. /\ AsAll(t) \in Seq(Marked) /\ Len(AsAll(t)) = m /\ m \in Nat /\ \A k \in 1 .. m : AsAll(t)[k] = As(t[k])
  BY AsAllProperties
<1>4. /\ v \in Seq(Marked) /\ Len(v) = l + m
      /\ \A k \in 1 .. l + m : v[k] = IF k <= l THEN AsAll(s)[k] ELSE AsAll(t)[k - l]
  BY <1>2, <1>3, ConcatProperties
<1> HIDE DEF u, v
<1>5. AsAll(u) \in Seq(Marked) /\ Len(AsAll(u)) = Len(u) /\ \A k \in 1 .. Len(u) : AsAll(u)[k] = As(u[k])
  BY <1>1, AsAllProperties
<1> HIDE DEF l, m
<1>6. ASSUME NEW k \in 1 .. Len(AsAll(u)) PROVE AsAll(u)[k] = v[k]
  <2>1. k \in 1 .. l + m /\ (k <= l => k \in 1 .. l) /\ (~(k <= l) => k - l \in 1 .. m)
    BY <1>1, <1>2, <1>3, <1>5
  <2>2. CASE k <= l
    BY <2>1, <2>2, <1>1, <1>2, <1>4, <1>5
  <2>3. CASE ~(k <= l)
    BY <2>1, <2>3, <1>1, <1>3, <1>4, <1>5
  <2> QED
    BY <2>2, <2>3
<1>7. Len(AsAll(u)) = Len(v)
  BY <1>1, <1>4, <1>5
<1>8. AsAll(u) = v
  BY <1>4, <1>5, <1>6, <1>7, SeqEqual
<1> QED
  BY <1>1, <1>8 DEF u, v

LEMMA Regrouped == \A x, y, z \in Seq(Marked) : (x \o y) \o z = x \o (y \o z)
<1> TAKE x, y, z \in Seq(Marked)
<1> QED
  BY ConcatAssociative

(* A sequence cut in two.                                                  *)
LEMMA CutInTwo ==
  ASSUME NEW T, NEW s \in Seq(T), NEW k \in 1 .. Len(s)
  PROVE  /\ SubSeq(s, 1, k) \in Seq(T) /\ SubSeq(s, k + 1, Len(s)) \in Seq(T)
         /\ SubSeq(s, 1, k) \o SubSeq(s, k + 1, Len(s)) = s
<1>1. Len(s) \in Nat /\ k \in Int /\ \A j \in 1 .. Len(s) : s[j] \in T
  BY LenProperties
<1>2. /\ 1 \in 1 .. Len(s) + 1 /\ k \in 1 - 1 .. Len(s) /\ Len(s) \in k .. Len(s)
      /\ \A j \in 1 .. k : j \in 1 .. Len(s)
      /\ \A j \in k + 1 .. Len(s) : j \in 1 .. Len(s)
  BY <1>1
<1>3. SubSeq(s, 1, k) \in Seq(T)
  BY <1>1, <1>2, SubSeqProperties
<1>4. SubSeq(s, k + 1, Len(s)) \in Seq(T)
  <2>1. k + 1 \in Int /\ Len(s) \in Int /\ \A j \in k + 1 .. Len(s) : s[j] \in T
    BY <1>1, <1>2
  <2> QED
    BY <2>1, SubSeqProperties
<1>5. SubSeq(s, 1, k) \o SubSeq(s, k + 1, Len(s)) = s
  BY <1>2, ConcatAdjacentSubSeq, SubSeqFull
<1> QED
  BY <1>3, <1>4, <1>5

(* The numbers among one more.                                             *)
LEMMA NumbersOneLonger ==
  ASSUME NEW s \in Seq(Marked), NEW x \in Marked
  PROVE  /\ \A k \in 1 .. Len(s) : NumbersTo(Append(s, x), k) = NumbersTo(s, k)
         /\ NumbersTo(Append(s, x), Len(s) + 1)
              = IF x[1] = "number" THEN NumbersTo(s, Len(s)) \cup {Len(s) + 1} ELSE NumbersTo(s, Len(s))
         /\ IsFiniteSet(NumbersTo(s, Len(s))) /\ Len(s) + 1 \notin NumbersTo(s, Len(s))
<1> DEFINE u == Append(s, x)
<1>1. /\ Len(s) \in Nat /\ u[Len(s) + 1] = x /\ \A k \in 1 .. Len(s) : u[k] = s[k]
  BY OneLonger
<1> HIDE DEF u
<1>2. ASSUME NEW k \in 1 .. Len(s) PROVE NumbersTo(u, k) = NumbersTo(s, k)
  <2>1. \A j \in 1 .. k : j \in 1 .. Len(s)
    BY <1>1
  <2> QED
    BY <1>1, <2>1 DEF NumbersTo
<1>3. 1 .. Len(s) + 1 = (1 .. Len(s)) \cup {Len(s) + 1} /\ Len(s) + 1 \notin 1 .. Len(s)
  BY <1>1
<1>4. NumbersTo(u, Len(s) + 1)
        = IF x[1] = "number" THEN NumbersTo(s, Len(s)) \cup {Len(s) + 1} ELSE NumbersTo(s, Len(s))
  BY <1>1, <1>3 DEF NumbersTo
<1>5. IsFiniteSet(NumbersTo(s, Len(s))) /\ Len(s) + 1 \notin NumbersTo(s, Len(s))
  <2>1. IsFiniteSet(1 .. Len(s))
    <3>1. 1 \in Int /\ Len(s) \in Int
      BY <1>1
    <3> QED
      BY <3>1, FS_Interval
  <2>2. NumbersTo(s, Len(s)) \in SUBSET (1 .. Len(s))
    BY DEF NumbersTo
  <2> QED
    BY <1>3, <2>1, <2>2, FS_Subset
<1> QED
  BY <1>2, <1>4, <1>5 DEF u

LEMMA AppendUnnumbered ==
  ASSUME NEW s \in Seq(Marked), NEW i, NumberedInTurn(s, i), NEW x \in Marked, x[1] # "number"
  PROVE  NumberedInTurn(Append(s, x), i)
<1> DEFINE u == Append(s, x)
<1>1. /\ Len(u) = Len(s) + 1 /\ Len(s) \in Nat /\ u[Len(s) + 1] = x /\ \A k \in 1 .. Len(s) : u[k] = s[k]
  BY OneLonger
<1>2. \A k \in 1 .. Len(s) : NumbersTo(u, k) = NumbersTo(s, k)
  BY NumbersOneLonger
<1>3. NumbersTo(u, Len(s) + 1) = NumbersTo(s, Len(s))
  BY NumbersOneLonger
<1> HIDE DEF u
<1>4. ASSUME NEW k \in 1 .. Len(u), u[k][1] = "number"
      PROVE  u[k][2] = Cardinality(NumbersTo(u, k))
  <2>1. k \in 1 .. Len(s)
    BY <1>1, <1>4
  <2> QED
    BY <2>1, <1>1, <1>2, <1>4 DEF NumberedInTurn
<1>5. ASSUME NEW k \in 2 .. Len(u), u[k][1] = "number" PROVE EndsLine(u[k - 1])
  <2>1. k \in 2 .. Len(s) /\ k \in 1 .. Len(s) /\ k - 1 \in 1 .. Len(s)
    BY <1>1, <1>5
  <2> QED
    BY <2>1, <1>1, <1>5 DEF NumberedInTurn
<1>6. i = Cardinality(NumbersTo(u, Len(u)))
  BY <1>1, <1>3 DEF NumberedInTurn
<1>7. NumberedInTurn(u, i)
  BY <1>4, <1>5, <1>6 DEF NumberedInTurn
<1> QED
  BY <1>7 DEF u

LEMMA AppendNumber ==
  ASSUME NEW s \in Seq(Marked), NEW i \in Nat, NumberedInTurn(s, i), s = <<>> \/ EndsLine(Last(s))
  PROVE  NumberedInTurn(Append(s, <<"number", i + 1>>), i + 1)
<1> DEFINE x == <<"number", i + 1>>
           u == Append(s, x)
<1>0. x \in Marked /\ x[1] = "number" /\ x[2] = i + 1
  BY DEF Marked
<1> HIDE DEF x
<1>1. /\ Len(u) = Len(s) + 1 /\ Len(s) \in Nat /\ u[Len(s) + 1] = x /\ \A k \in 1 .. Len(s) : u[k] = s[k]
  BY <1>0, OneLonger
<1>2. \A k \in 1 .. Len(s) : NumbersTo(u, k) = NumbersTo(s, k)
  BY <1>0, NumbersOneLonger
<1>3. /\ NumbersTo(u, Len(s) + 1) = NumbersTo(s, Len(s)) \cup {Len(s) + 1}
      /\ IsFiniteSet(NumbersTo(s, Len(s))) /\ Len(s) + 1 \notin NumbersTo(s, Len(s))
  BY <1>0, NumbersOneLonger
<1>4. Cardinality(NumbersTo(u, Len(s) + 1)) = i + 1
  BY <1>3, FS_AddElement DEF NumberedInTurn
<1> HIDE DEF u
<1>5. ASSUME NEW k \in 1 .. Len(u), u[k][1] = "number"
      PROVE  u[k][2] = Cardinality(NumbersTo(u, k))
  <2>1. k \in 1 .. Len(s) \/ k = Len(s) + 1
    BY <1>1
  <2>2. CASE k \in 1 .. Len(s)
    BY <2>2, <1>1, <1>2, <1>5 DEF NumberedInTurn
  <2>3. CASE k = Len(s) + 1
    BY <2>3, <1>0, <1>1, <1>4
  <2> QED
    BY <2>1, <2>2, <2>3
<1>6. ASSUME NEW k \in 2 .. Len(u), u[k][1] = "number" PROVE EndsLine(u[k - 1])
  <2>1. k \in 2 .. Len(s) \/ k = Len(s) + 1
    BY <1>1
  <2>2. CASE k \in 2 .. Len(s)
    <3>1. k \in 1 .. Len(s) /\ k - 1 \in 1 .. Len(s)
      BY <2>2, <1>1
    <3> QED
      BY <2>2, <3>1, <1>1, <1>6 DEF NumberedInTurn
  <2>3. CASE k = Len(s) + 1
    <3>1. k - 1 = Len(s) /\ Len(s) \in 1 .. Len(s)
      BY <2>3, <1>1
    <3>2. EndsLine(s[Len(s)])
      <4>1. s # <<>>
        BY <3>1
      <4> QED
        BY <4>1 DEF Last
    <3> QED
      BY <3>1, <3>2, <1>1
  <2> QED
    BY <2>1, <2>2, <2>3
<1>7. NumberedInTurn(u, i + 1)
  BY <1>1, <1>4, <1>5, <1>6 DEF NumberedInTurn
<1> QED
  BY <1>7 DEF u, x

(* The blank lines among one more.                                         *)
LEMMA AppendNotBlank ==
  ASSUME NEW s \in Seq(Marked), NoThree(s), NEW x \in Marked, x # As("nl")
  PROVE  NoThree(Append(s, x)) /\ ~EndsBlank(Append(s, x)) /\ ~EndsTwo(Append(s, x))
<1> DEFINE u == Append(s, x)
<1>1. /\ Len(u) = Len(s) + 1 /\ Len(s) \in Nat /\ u[Len(s) + 1] = x /\ \A k \in 1 .. Len(s) : u[k] = s[k]
  BY OneLonger
<1> HIDE DEF u
<1>2. ASSUME NEW k \in 1 .. Len(u) - 2 PROVE \E j \in k .. k + 2 : u[j] # As("nl")
  <2>1. CASE k \in 1 .. Len(s) - 2
    <3>1. PICK j \in k .. k + 2 : s[j] # As("nl")
      BY <2>1 DEF NoThree
    <3>2. j \in 1 .. Len(s)
      BY <1>1, <2>1
    <3> QED
      BY <3>1, <3>2, <1>1
  <2>2. CASE k = Len(s) - 1
    <3>1. Len(s) + 1 \in k .. k + 2
      BY <2>2, <1>1
    <3> QED
      BY <3>1, <1>1
  <2> QED
    BY <2>1, <2>2, <1>1
<1>3. NoThree(u) /\ ~EndsBlank(u) /\ ~EndsTwo(u)
  BY <1>1, <1>2 DEF NoThree, EndsBlank, EndsTwo
<1> QED
  BY <1>3 DEF u

LEMMA AppendBlank ==
  ASSUME NEW s \in Seq(Marked), NoThree(s), ~EndsTwo(s)
  PROVE  NoThree(Append(s, As("nl"))) /\ (~EndsBlank(s) => ~EndsTwo(Append(s, As("nl"))))
<1> DEFINE x == As("nl")
           u == Append(s, x)
<1>0. x \in Marked
  BY DEF As, Marked, Character
<1> HIDE DEF x
<1>1. /\ Len(u) = Len(s) + 1 /\ Len(s) \in Nat /\ u[Len(s) + 1] = x /\ \A k \in 1 .. Len(s) : u[k] = s[k]
  BY <1>0, OneLonger
<1> HIDE DEF u
<1>2. ASSUME NEW k \in 1 .. Len(u) - 2 PROVE \E j \in k .. k + 2 : u[j] # As("nl")
  <2>1. CASE k \in 1 .. Len(s) - 2
    <3>1. PICK j \in k .. k + 2 : s[j] # As("nl")
      BY <2>1 DEF NoThree
    <3>2. j \in 1 .. Len(s)
      BY <1>1, <2>1
    <3> QED
      BY <3>1, <3>2, <1>1
  <2>2. CASE k = Len(s) - 1
    <3>1. /\ Len(s) \in k .. k + 2 /\ Len(s) - 1 \in k .. k + 2 /\ 2 <= Len(s)
          /\ Len(s) \in 1 .. Len(s) /\ Len(s) - 1 \in 1 .. Len(s)
      BY <2>2, <1>1
    <3>2. s[Len(s)] # As("nl") \/ s[Len(s) - 1] # As("nl")
      BY <3>1 DEF EndsTwo
    <3> QED
      BY <3>1, <3>2, <1>1
  <2> QED
    BY <2>1, <2>2, <1>1
<1>3. ASSUME ~EndsBlank(s) PROVE ~EndsTwo(u)
  <2>1. CASE s = <<>>
    <3>1. Len(u) = 1
      BY <2>1, <1>1
    <3> QED
      BY <3>1 DEF EndsTwo
  <2>2. CASE s # <<>>
    <3>1. Len(s) \in 1 .. Len(s) /\ Len(u) - 1 = Len(s)
      BY <2>2, <1>1
    <3> QED
      BY <2>2, <3>1, <1>1, <1>3 DEF EndsTwo, EndsBlank
  <2> QED
    BY <2>1, <2>2
<1>4. NoThree(u)
  BY <1>2 DEF NoThree
<1> QED
  BY <1>3, <1>4 DEF u, x

LEMMA InitCatInv ==
  ASSUME Init
  PROVE  CatInv
<1>1. place = "find" /\ opts = {} /\ args = <<>> /\ CatInit
  BY DEF Init, ToolInit
<1>2. CatShape /\ Unused
  <2>1. gobble \in BOOLEAN /\ opened \in BOOLEAN
    BY <1>1 DEF CatInit
  <2>2. prev \in Character /\ line \in Nat
    BY <1>1 DEF CatInit, Character
  <2>3. /\ left \in Seq(Character) /\ buffer \in Seq(Character) /\ taken \in Seq(Character)
        /\ out \in Seq(Marked) /\ buffer = <<>>
    BY <1>1 DEF CatInit
  <2>4. CatPristine
    BY <1>1 DEF CatInit, CatPristine
  <2> QED
    BY <1>1, <2>1, <2>2, <2>3, <2>4 DEF CatShape, CatTypeOK, Unused
<1>3. ~Cooked /\ ~Has("s")
  BY <1>1 DEF Cooked, Has
<1>4. RawInv
  <2>1. <<>> \in Seq(Character) /\ <<>> \in Seq(Marked)
    OBVIOUS
  <2>2. AsAll(<<>>) = <<>>
    BY <2>1, AsAllProperties, EmptySeq
  <2> QED
    BY <1>1, <2>1, <2>2, ConcatEmptySeq DEF RawInv, CatInit
<1> QED
  BY <1>2, <1>3, <1>4 DEF CatInv, CookedInv, LineInv, BlankInv

(* Nothing of a file is kept when the next one is opened.                  *)
LEMMA CleanCatInv ==
  CatShape /\ Unused /\ buffer = <<>> /\ out = <<>> /\ taken = <<>> /\ line = 0 => CatInv
<1> SUFFICES ASSUME CatShape, Unused, buffer = <<>>, out = <<>>, taken = <<>>, line = 0
             PROVE  CatInv
  OBVIOUS
<1>1. <<>> \in Seq(Character) /\ <<>> \in Seq(Marked)
  OBVIOUS
<1>2. AsAll(<<>>) = <<>>
  BY <1>1, AsAllProperties, EmptySeq
<1>3. RawInv
  BY <1>1, <1>2, ConcatEmptySeq DEF RawInv
<1>4. CookedInv
  BY <1>1, <1>2, SameOfItself DEF CookedInv
<1>5. LineInv
  <2>1. Cardinality({}) = 0
    BY FS_EmptySet
  <2>2. NumbersTo(<<>>, 0) = {}
    BY DEF NumbersTo
  <2>3. NumberedInTurn(<<>>, 0)
    <3>1. Len(<<>>) = 0 /\ 1 .. 0 = {} /\ 2 .. 0 = {}
      OBVIOUS
    <3>2. Cardinality(NumbersTo(<<>>, Len(<<>>))) = 0
      BY <2>1, <2>2, <3>1
    <3> QED
      BY <3>1, <3>2 DEF NumberedInTurn
  <2> QED
    BY <2>3 DEF LineInv
<1>6. BlankInv
  <2>1. NoThree(<<>>) /\ ~EndsBlank(<<>>) /\ ~EndsTwo(<<>>)
    BY DEF NoThree, EndsBlank, EndsTwo
  <2> QED
    BY <2>1 DEF BlankInv
<1> QED
  BY <1>3, <1>4, <1>5, <1>6 DEF CatInv

(* A step that changes nothing of what was read and written.               *)
LEMMA SameTextKeepsCatInv ==
  ASSUME CatInv, UNCHANGED <<opts, buffer, out, taken, prev, gobble, line>>,
         left' \in Seq(Character), opened' \in BOOLEAN, Unused', buffer # <<>> => opened',
         tool' = "cat" /\ place' \in {"main", "cat"} => args' \in Seq(Contents)
  PROVE  CatInv'
<1>1. CatShape'
  <2>1. gobble' \in BOOLEAN
    BY Zenon DEF CatInv, CatShape, CatTypeOK
  <2> QED
    BY <2>1 DEF CatInv, CatShape, CatTypeOK
<1>2. RawInv'
  BY DEF CatInv, RawInv, Cooked
<1>3. CookedInv'
  BY DEF CatInv, CookedInv, Cooked, Has
<1>4. LineInv'
  BY DEF CatInv, LineInv, Cooked
<1>5. BlankInv'
  BY DEF CatInv, BlankInv, Has
<1> QED
  BY <1>1, <1>2, <1>3, <1>4, <1>5 DEF CatInv

LEMMA RawReadKeepsCatInv ==
  ASSUME CatInv, RawRead
  PROVE  CatInv'
<1>1. /\ place = "cat" /\ ~Cooked /\ buffer = <<>> /\ UNCHANGED <<toolVars, out, prev, gobble, line, opened>>
      /\ left \in Seq(Character) /\ taken \in Seq(Character) /\ out \in Seq(Marked)
      /\ out \o AsAll(buffer) = AsAll(taken) /\ opened
  BY DEF RawRead, CatInv, CatShape, RawInv
<1>2. PICK k \in 1 .. Len(left) : /\ buffer' = SubSeq(left, 1, k) /\ taken' = taken \o buffer'
                                  /\ left' = SubSeq(left, k + 1, Len(left))
  BY ContentsAssumption DEF RawRead
<1>3. buffer' \in Seq(Character) /\ left' \in Seq(Character)
  BY <1>1, <1>2, CutInTwo
<1>4. taken' \in Seq(Character) /\ AsAll(taken') = AsAll(taken) \o AsAll(buffer')
  BY <1>1, <1>2, <1>3, AsAllConcat
<1>5. out = AsAll(taken)
  <2>1. AsAll(<<>>) = <<>>
    <3>1. <<>> \in Seq(Character)
      OBVIOUS
    <3> QED
      BY <3>1, AsAllProperties, EmptySeq
  <2> QED
    BY <1>1, <2>1, ConcatEmptySeq
<1>6. RawInv'
  BY <1>1, <1>4, <1>5 DEF RawInv
<1>7. ~Cooked' /\ ~Has("s")' /\ place' = "cat"
  BY <1>1 DEF Cooked, Has, toolVars
<1>8. CatShape'
  <2>1. gobble' \in BOOLEAN /\ opened' \in BOOLEAN /\ opened'
    BY <1>1, Zenon DEF CatInv, CatShape, CatTypeOK
  <2>2. prev' \in Character /\ line' \in Nat /\ (tool' = "cat" /\ place' \in {"main", "cat"} => args' \in Seq(Contents))
    BY <1>1 DEF CatInv, CatShape, CatTypeOK, toolVars
  <2> QED
    BY <1>1, <1>3, <1>4, <2>1, <2>2 DEF CatShape, CatTypeOK
<1> QED
  BY <1>6, <1>7, <1>8 DEF CatInv, Unused, CookedInv, LineInv, BlankInv

LEMMA RawWriteKeepsCatInv ==
  ASSUME CatInv, RawWrite
  PROVE  CatInv'
<1>1. /\ place = "cat" /\ ~Cooked /\ UNCHANGED <<toolVars, left, taken, prev, gobble, line, opened>>
      /\ buffer \in Seq(Character) /\ taken \in Seq(Character) /\ out \in Seq(Marked) /\ left \in Seq(Character)
      /\ out \o AsAll(buffer) = AsAll(taken) /\ opened
  BY DEF RawWrite, CatInv, CatShape, RawInv
<1>2. PICK k \in 1 .. Len(buffer) : /\ out' = out \o AsAll(SubSeq(buffer, 1, k))
                                    /\ buffer' = SubSeq(buffer, k + 1, Len(buffer))
  BY DEF RawWrite
<1> DEFINE b == SubSeq(buffer, 1, k)
<1>3. b \in Seq(Character) /\ buffer' \in Seq(Character) /\ b \o buffer' = buffer
  BY <1>1, <1>2, CutInTwo
<1>4. out' = out \o AsAll(b)
  BY <1>2
<1> HIDE DEF b
<1>5. AsAll(b) \in Seq(Marked) /\ AsAll(buffer') \in Seq(Marked)
  BY <1>3, AsAllProperties
<1>6. AsAll(buffer) = AsAll(b) \o AsAll(buffer')
  BY <1>3, AsAllConcat
<1>7. out' \in Seq(Marked) /\ out' \o AsAll(buffer') = AsAll(taken')
  <2>1. (out \o AsAll(b)) \o AsAll(buffer') = out \o (AsAll(b) \o AsAll(buffer'))
    BY <1>1, <1>5, Regrouped
  <2>2. out \o AsAll(b) \in Seq(Marked)
    BY <1>1, <1>5, ConcatProperties
  <2> QED
    BY <1>1, <1>4, <1>6, <2>1, <2>2
<1>8. ~Cooked' /\ ~Has("s")' /\ place' = "cat"
  BY <1>1 DEF Cooked, Has, toolVars
<1>9. CatShape'
  <2>1. gobble' \in BOOLEAN /\ opened' \in BOOLEAN /\ opened'
    BY <1>1, Zenon DEF CatInv, CatShape, CatTypeOK
  <2>2. prev' \in Character /\ line' \in Nat /\ (tool' = "cat" /\ place' \in {"main", "cat"} => args' \in Seq(Contents))
    BY <1>1 DEF CatInv, CatShape, CatTypeOK, toolVars
  <2> QED
    BY <1>1, <1>3, <1>7, <2>1, <2>2 DEF CatShape, CatTypeOK
<1> QED
  BY <1>7, <1>8, <1>9 DEF CatInv, Unused, RawInv, CookedInv, LineInv, BlankInv

(* What cook_buf does with one character: s is what was written with the   *)
(* mark of the line, t with both marks.                                    *)
LineMarked(ch, s) ==
  \/ Numbered(ch) /\ s = Append(out, <<"number", line + 1>>)
  \/ ~Numbered(ch) /\ s = out
  \/ ~Numbered(ch) /\ ~Squeezed(ch) /\ s = Append(out, <<"blanks", 0>>)
CharMarked(ch, s, t) ==
  \/ t = s
  \/ ~Squeezed(ch) /\ \E m \in {"$", "^", "M-"} : t = Append(s, <<"mark", m>>)
CookWrites(ch, t) == out' = IF Squeezed(ch) /\ gobble THEN t ELSE Append(t, As(ch))

LEMMA CookAppends ==
  ASSUME CatInv, Cook, NEW ch, ch = Head(left)
  PROVE  /\ ch \in Character /\ As(ch) \in Marked
         /\ \E s, t \in Seq(Marked) : LineMarked(ch, s) /\ CharMarked(ch, s, t) /\ CookWrites(ch, t)
         /\ Numbered(ch) => ~Squeezed(ch)
<1>1. left \in Seq(Character) /\ left # <<>> /\ out \in Seq(Marked) /\ line \in Nat
  BY DEF Cook, CatInv, CatShape, CatTypeOK
<1>2. ch \in Character
  BY <1>1, HeadTailProperties
<1>3. As(ch) \in Marked
  BY <1>2 DEF As, Marked
<1>4. Numbered(ch) => ~Squeezed(ch)
  BY DEF Numbered
<1>5. ASSUME NEW u \in Seq(Marked), NEW x \in Marked
      PROVE  /\ u \o <<x>> = Append(u, x) /\ Append(u, x) \in Seq(Marked) /\ u \o <<>> = u
  BY OneLonger, ConcatEmptySeq
<1>6. LineMark(ch) \in Seq(Marked) /\ out \o LineMark(ch) \in Seq(Marked) /\ LineMarked(ch, out \o LineMark(ch))
  <2>1. <<"number", line + 1>> \in Marked /\ <<"blanks", 0>> \in Marked
    BY <1>1 DEF Marked
  <2>2. CASE Numbered(ch)
    <3> DEFINE x == <<"number", line + 1>>
    <3>1. LineMark(ch) = <<x>> /\ x \in Marked
      BY <2>1, <2>2 DEF LineMark
    <3>2. LineMarked(ch, Append(out, x))
      BY <2>2 DEF LineMarked
    <3> HIDE DEF x
    <3>3. <<x>> \in Seq(Marked) /\ out \o <<x>> = Append(out, x) /\ Append(out, x) \in Seq(Marked)
      BY <1>1, <1>5, <3>1
    <3> QED
      BY <3>1, <3>2, <3>3
  <2>3. CASE LineMark(ch) = <<>> /\ ~Numbered(ch)
    <3>1. <<>> \in Seq(Marked) /\ out \o <<>> = out
      BY <1>1, ConcatEmptySeq
    <3>2. LineMarked(ch, out)
      BY <2>3 DEF LineMarked
    <3> QED
      BY <1>1, <2>3, <3>1, <3>2
  <2>4. CASE LineMark(ch) = <<<<"blanks", 0>>>> /\ ~Numbered(ch) /\ ~Squeezed(ch)
    <3> DEFINE x == <<"blanks", 0>>
    <3>1. LineMark(ch) = <<x>> /\ x \in Marked
      BY <2>1, <2>4
    <3>2. LineMarked(ch, Append(out, x))
      BY <2>4 DEF LineMarked
    <3> HIDE DEF x
    <3>3. <<x>> \in Seq(Marked) /\ out \o <<x>> = Append(out, x) /\ Append(out, x) \in Seq(Marked)
      BY <1>1, <1>5, <3>1
    <3> QED
      BY <3>1, <3>2, <3>3
  <2> QED
    BY <2>2, <2>3, <2>4 DEF LineMark
<1> DEFINE s == out \o LineMark(ch)
           t == s \o CharMark(ch)
<1>7. CharMark(ch) \in Seq(Marked) /\ (s \in Seq(Marked) => t \in Seq(Marked) /\ CharMarked(ch, s, t))
  <2>1. \A m \in {"$", "^", "M-"} : <<"mark", m>> \in Marked
    BY DEF Marked
  <2>2. CASE CharMark(ch) = <<>>
    <3> HIDE DEF s
    <3>1. <<>> \in Seq(Marked) /\ <<"mark", "$">> \in Marked
      BY <2>1
    <3> QED
      BY <1>5, <2>2, <3>1 DEF CharMarked
  <2>3. CASE ~Squeezed(ch) /\ \E m \in {"$", "^", "M-"} : CharMark(ch) = <<<<"mark", m>>>>
    <3>1. PICK m \in {"$", "^", "M-"} : CharMark(ch) = <<<<"mark", m>>>>
      BY <2>3
    <3> DEFINE x == <<"mark", m>>
    <3>2. x \in Marked /\ CharMark(ch) = <<x>>
      BY <2>1, <3>1
    <3>3. ~Squeezed(ch) /\ m \in {"$", "^", "M-"}
      BY <2>3
    <3> HIDE DEF s
    <3>4. CharMark(ch) \in Seq(Marked)
      BY <3>2
    <3>5. s \in Seq(Marked) => s \o <<x>> = Append(s, x) /\ Append(s, x) \in Seq(Marked)
      BY <3>2, <1>5
    <3> QED
      BY <3>2, <3>3, <3>4, <3>5 DEF CharMarked
  <2> QED
    <3>1. Squeezed(ch) => ch = "nl"
      BY DEF Squeezed, Blank
    <3> QED
      BY <3>1, <2>2, <2>3 DEF CharMark
<1>8. t \in Seq(Marked) /\ out \o Marks(ch) = t
  <2>1. (out \o LineMark(ch)) \o CharMark(ch) = out \o (LineMark(ch) \o CharMark(ch))
    BY <1>1, <1>6, <1>7, Regrouped
  <2> QED
    BY <1>6, <1>7, <2>1 DEF Marks
<1>9. CookWrites(ch, t)
  <2>1. out' = out \o Marks(ch) \o (IF Squeezed(ch) /\ gobble THEN <<>> ELSE <<As(ch)>>)
    BY DEF Cook
  <2>2. out' = t \o (IF Squeezed(ch) /\ gobble THEN <<>> ELSE <<As(ch)>>)
    BY <1>8, <2>1
  <2> HIDE DEF t
  <2> QED
    BY <1>3, <1>5, <1>8, <2>2 DEF CookWrites
<1> HIDE DEF t
<1> HIDE DEF s
<1> QED
  BY <1>2, <1>3, <1>4, <1>6, <1>7, <1>8, <1>9 DEF s

LEMMA CookKeepsAll ==
  ASSUME CatInv, Cook
  PROVE  CatShape' /\ CookedInv'
<1> DEFINE ch == Head(left)
<1>1. /\ ch \in Character /\ As(ch) \in Marked
      /\ \E s, t \in Seq(Marked) : LineMarked(ch, s) /\ CharMarked(ch, s, t) /\ CookWrites(ch, t)
  BY CookAppends
<1>2. /\ taken' = Append(taken, ch) /\ left' = Tail(left) /\ left # <<>>
      /\ line' = IF Numbered(ch) THEN line + 1 ELSE line
      /\ gobble' = Squeezed(ch) /\ prev' = IF ch = "highnl" /\ Has("v") THEN "nl" ELSE ch
      /\ UNCHANGED <<toolVars, buffer, opened>> /\ Cooked
  BY DEF Cook
<1>3. /\ CatShape /\ CookedInv /\ left \in Seq(Character) /\ taken \in Seq(Character) /\ out \in Seq(Marked)
      /\ line \in Nat
  BY DEF CatInv, CatShape, CatTypeOK
<1> HIDE DEF ch
<1>4. PICK s \in Seq(Marked), t \in Seq(Marked) : LineMarked(ch, s) /\ CharMarked(ch, s, t) /\ CookWrites(ch, t)
  BY <1>1
<1>5. taken' \in Seq(Character) /\ left' \in Seq(Character) /\ out' \in Seq(Marked)
  <2>1. out' \in Seq(Marked)
    BY <1>1, <1>4, OneLonger DEF CookWrites
  <2>2. taken' \in Seq(Character)
    BY <1>1, <1>2, <1>3, OneLonger
  <2> QED
    BY <2>1, <2>2, <1>2, <1>3, HeadTailProperties
<1>6. CatShape'
  <2>1. gobble' \in BOOLEAN
    BY <1>2 DEF Squeezed, Blank
  <2>2. opened' \in BOOLEAN
    BY <1>2, <1>3, Zenon DEF CatShape, CatTypeOK
  <2>3. prev' \in Character /\ line' \in Nat
    BY <1>1, <1>2, <1>3 DEF Character
  <2>5. buffer' = <<>>
    BY <1>2, <1>3 DEF CookedInv
  <2>4. buffer' \in Seq(Character) /\ (tool' = "cat" /\ place' \in {"main", "cat"} => args' \in Seq(Contents))
    BY <1>2, <1>3 DEF CatShape, toolVars
  <2> QED
    BY <1>5, <2>1, <2>2, <2>3, <2>4, <2>5 DEF CatShape, CatTypeOK
<1>7. AsAll(taken) \in Seq(Marked) /\ AsAll(taken') = Append(AsAll(taken), As(ch))
  BY <1>1, <1>2, <1>3, AsAllProperties, AsAllOneLonger
<1>8. ASSUME NEW S, SameOf(S, out, AsAll(taken)), S \subseteq Written(Character)
      PROVE  SameOf(S, t, AsAll(taken))
  <2>1. \A x \in S : x[1] = "as"
    BY <1>8 DEF Written, As
  <2>2. ASSUME NEW x, x[1] # "as" PROVE x \notin S
    BY <2>1, <2>2
  <2>3. <<"number", line + 1>> \in Marked /\ <<"number", line + 1>> \notin S
    BY <1>3, <2>2 DEF Marked
  <2>4. <<"blanks", 0>> \in Marked /\ <<"blanks", 0>> \notin S
    BY <2>2 DEF Marked
  <2>5. SameOf(S, s, AsAll(taken))
    BY <1>3, <1>4, <1>8, <2>3, <2>4, AppendOther DEF LineMarked
  <2>6. ASSUME NEW m \in {"$", "^", "M-"} PROVE <<"mark", m>> \in Marked /\ <<"mark", m>> \notin S
    BY <2>2 DEF Marked
  <2>7. CASE t = s
    BY <2>5, <2>7
  <2>8. CASE \E m \in {"$", "^", "M-"} : t = Append(s, <<"mark", m>>)
    <3>1. PICK m \in {"$", "^", "M-"} : t = Append(s, <<"mark", m>>)
      BY <2>8
    <3> DEFINE x == <<"mark", m>>
    <3>2. x \in Marked /\ x \notin S /\ t = Append(s, x)
      BY <2>6, <3>1
    <3> HIDE DEF x
    <3> QED
      BY <1>4, <2>5, <3>2, AppendOther
  <2> QED
    BY <1>4, <2>7, <2>8 DEF CharMarked
<1>9. ASSUME NEW S, SameOf(S, t, AsAll(taken)), ~(Squeezed(ch) /\ gobble)
      PROVE  SameOf(S, out', AsAll(taken'))
  <2>1. out' = Append(t, As(ch))
    BY <1>4, <1>9 DEF CookWrites
  <2>2. SameOf(S, Append(t, As(ch)), Append(AsAll(taken), As(ch)))
    BY <1>1, <1>4, <1>7, <1>9, AppendBoth
  <2> QED
    BY <1>7, <2>1, <2>2
<1>10. ASSUME NEW S, SameOf(S, t, AsAll(taken)), Squeezed(ch) /\ gobble, As("nl") \notin S
       PROVE  SameOf(S, out', AsAll(taken'))
  <2>1. out' = t /\ ch = "nl"
    BY <1>4, <1>10 DEF CookWrites, Squeezed, Blank
  <2>2. SameOf(S, AsAll(taken), t)
    BY <1>10, SameOfSymmetric
  <2>3. SameOf(S, Append(AsAll(taken), As(ch)), t)
    BY <1>1, <1>7, <1>10, <2>1, <2>2, AppendOther
  <2> QED
    BY <1>7, <2>1, <2>3, SameOfSymmetric
<1>11. CookedInv'
  <2>1. buffer' = <<>>
    BY <1>2, <1>3 DEF CookedInv
  <2>2. ~Has("s")' => SameOf(Written(Character), out', AsAll(taken'))
    <3>1. ASSUME ~Has("s")' PROVE ~Has("s") /\ ~Squeezed(ch)
      BY <1>2, <3>1 DEF Has, Squeezed, toolVars
    <3>2. ASSUME ~Has("s") PROVE SameOf(Written(Character), t, AsAll(taken))
      BY <1>2, <1>3, <1>8, <3>2 DEF CookedInv
    <3> QED
      BY <3>1, <3>2, <1>9
  <2>3. SameOf(Written(Character \ {"nl"}), out', AsAll(taken'))
    <3>1. Written(Character \ {"nl"}) \subseteq Written(Character) /\ As("nl") \notin Written(Character \ {"nl"})
      BY DEF Written, As
    <3>2. SameOf(Written(Character \ {"nl"}), t, AsAll(taken))
      BY <1>2, <1>3, <1>8, <3>1 DEF CookedInv
    <3> QED
      BY <3>1, <3>2, <1>9, <1>10
  <2> QED
    BY <2>1, <2>2, <2>3 DEF CookedInv
<1> QED
  BY <1>6, <1>11

LEMMA CookKeepsLineInv ==
  ASSUME CatInv, Cook
  PROVE  LineInv'
<1> DEFINE ch == Head(left)
<1>1. /\ ch \in Character /\ As(ch) \in Marked
      /\ \E s, t \in Seq(Marked) : LineMarked(ch, s) /\ CharMarked(ch, s, t) /\ CookWrites(ch, t)
  BY CookAppends
<1>2. /\ line' = (IF Numbered(ch) THEN line + 1 ELSE line) /\ Cooked
      /\ prev' = IF ch = "highnl" /\ Has("v") THEN "nl" ELSE ch
  BY DEF Cook
<1>3. /\ out \in Seq(Marked) /\ line \in Nat /\ NumberedInTurn(out, line)
      /\ prev = "nl" /\ out # <<>> => EndsLine(Last(out))
  BY <1>2 DEF CatInv, CatShape, CatTypeOK, LineInv
<1> HIDE DEF ch
<1>4. PICK s \in Seq(Marked), t \in Seq(Marked) : LineMarked(ch, s) /\ CharMarked(ch, s, t) /\ CookWrites(ch, t)
  BY <1>1
<1>5. NumberedInTurn(s, line')
  <2>1. CASE Numbered(ch)
    <3>1. prev = "nl" /\ s = Append(out, <<"number", line + 1>>)
      BY <2>1, <1>4 DEF Numbered, LineMarked
    <3>2. NumberedInTurn(Append(out, <<"number", line + 1>>), line + 1)
      BY <1>3, <3>1, AppendNumber
    <3> QED
      BY <1>2, <2>1, <3>1, <3>2
  <2>2. CASE ~Numbered(ch)
    <3>1. <<"blanks", 0>> \in Marked /\ <<"blanks", 0>>[1] # "number"
      BY DEF Marked
    <3> QED
      BY <1>2, <1>3, <1>4, <2>2, <3>1, AppendUnnumbered DEF LineMarked
  <2> QED
    BY <2>1, <2>2
<1>6. NumberedInTurn(t, line')
  <2>1. CASE t = s
    BY <1>5, <2>1
  <2>2. CASE \E m \in {"$", "^", "M-"} : t = Append(s, <<"mark", m>>)
    <3>1. PICK m \in {"$", "^", "M-"} : t = Append(s, <<"mark", m>>)
      BY <2>2
    <3> DEFINE x == <<"mark", m>>
    <3>2. x \in Marked /\ x[1] # "number" /\ t = Append(s, x)
      BY <3>1 DEF Marked
    <3> HIDE DEF x
    <3> QED
      BY <1>4, <1>5, <3>2, AppendUnnumbered
  <2> QED
    BY <1>4, <2>1, <2>2 DEF CharMarked
<1>7. CASE Squeezed(ch) /\ gobble
  <2>1. ch = "nl" /\ prev = "nl" /\ ~Numbered(ch)
    BY <1>7 DEF Squeezed, Blank, Numbered
  <2>2. s = out
    BY <1>4, <1>7, <2>1 DEF LineMarked
  <2>3. t = s /\ out' = t
    BY <1>4, <1>7 DEF CharMarked, CookWrites
  <2> QED
    BY <1>3, <1>6, <2>1, <2>2, <2>3 DEF LineInv
<1>8. CASE ~(Squeezed(ch) /\ gobble)
  <2>1. out' = Append(t, As(ch))
    BY <1>4, <1>8 DEF CookWrites
  <2>2. As(ch)[1] # "number" /\ As(ch)[2] = ch
    BY DEF As
  <2>3. NumberedInTurn(out', line')
    <3> DEFINE x == As(ch)
               i == line'
    <3>1. x \in Marked
      BY <1>1
    <3>3. x[1] # "number"
      BY <2>2
    <3>4. out' = Append(t, x) /\ NumberedInTurn(t, i)
      BY <1>6, <2>1
    <3> HIDE DEF x, i
    <3>2. NumberedInTurn(Append(t, x), i)
      BY <1>4, <3>1, <3>3, <3>4, AppendUnnumbered
    <3> QED
      BY <3>2, <3>4 DEF i
  <2>4. Last(out') = As(ch)
    BY <1>1, <1>4, <2>1, OneLonger DEF Last
  <2>5. prev' = "nl" => EndsLine(Last(out'))
    BY <1>2, <2>2, <2>4 DEF EndsLine
  <2> QED
    BY <2>3, <2>5 DEF LineInv
<1> QED
  BY <1>7, <1>8

LEMMA CookKeepsBlankInv ==
  ASSUME CatInv, Cook
  PROVE  BlankInv'
<1> DEFINE ch == Head(left)
<1>1. /\ ch \in Character /\ As(ch) \in Marked
      /\ \E s, t \in Seq(Marked) : LineMarked(ch, s) /\ CharMarked(ch, s, t) /\ CookWrites(ch, t)
      /\ Numbered(ch) => ~Squeezed(ch)
  BY CookAppends
<1>2. /\ gobble' = Squeezed(ch) /\ UNCHANGED opts
      /\ prev' = IF ch = "highnl" /\ Has("v") THEN "nl" ELSE ch
  BY DEF Cook, toolVars
<1> HIDE DEF ch
<1>3. SUFFICES ASSUME Has("s")
               PROVE  NoThree(out') /\ (prev' # "nl" => ~EndsBlank(out')) /\ (~gobble' => ~EndsTwo(out'))
  BY <1>2 DEF BlankInv, Has
<1>4. /\ out \in Seq(Marked) /\ line \in Nat /\ NoThree(out)
      /\ prev # "nl" => ~EndsBlank(out)
      /\ ~gobble => ~EndsTwo(out)
  BY <1>3 DEF CatInv, CatShape, CatTypeOK, BlankInv
<1>5. PICK s \in Seq(Marked), t \in Seq(Marked) : LineMarked(ch, s) /\ CharMarked(ch, s, t) /\ CookWrites(ch, t)
  BY <1>1
<1>6. CASE Squeezed(ch)
  <2>1. ch = "nl" /\ prev' = "nl" /\ gobble'
    BY <1>2, <1>6 DEF Squeezed, Blank
  <2>2. s = out
    BY <1>1, <1>5, <1>6 DEF LineMarked
  <2>3. t = out
    BY <1>5, <1>6, <2>2 DEF CharMarked
  <2>4. CASE gobble
    BY <1>4, <1>5, <1>6, <2>1, <2>3, <2>4 DEF CookWrites
  <2>5. CASE ~gobble
    <3>1. out' = Append(out, As("nl"))
      BY <1>5, <1>6, <2>1, <2>3, <2>5 DEF CookWrites
    <3>2. NoThree(Append(out, As("nl")))
      BY <1>4, <2>5, AppendBlank
    <3> QED
      BY <2>1, <3>1, <3>2
  <2> QED
    BY <2>4, <2>5
<1>7. CASE ~Squeezed(ch)
  <2>1. ~gobble' /\ out' = Append(t, As(ch)) /\ (ch = "nl" => prev # "nl")
    BY <1>2, <1>3, <1>5, <1>7 DEF CookWrites, Squeezed, Blank
  <2>2. NoThree(s) /\ (prev # "nl" => ~EndsBlank(s))
    <3>1. <<"number", line + 1>> \in Marked /\ <<"number", line + 1>> # As("nl")
      BY <1>4 DEF Marked, As
    <3>2. <<"blanks", 0>> \in Marked /\ <<"blanks", 0>> # As("nl")
      BY DEF Marked, As
    <3> QED
      BY <1>4, <1>5, <3>1, <3>2, AppendNotBlank DEF LineMarked
  <2>3. NoThree(t) /\ (prev # "nl" => ~EndsBlank(t))
    <3>1. CASE t = s
      BY <2>2, <3>1
    <3>2. CASE \E m \in {"$", "^", "M-"} : t = Append(s, <<"mark", m>>)
      <4>1. PICK m \in {"$", "^", "M-"} : t = Append(s, <<"mark", m>>)
        BY <3>2
      <4> DEFINE x == <<"mark", m>>
      <4>2. x \in Marked /\ x # As("nl") /\ t = Append(s, x)
        BY <4>1 DEF Marked, As
      <4> HIDE DEF x
      <4> QED
        BY <1>5, <2>2, <4>2, AppendNotBlank
    <3> QED
      BY <1>5, <3>1, <3>2 DEF CharMarked
  <2>4. CASE ch # "nl"
    <3>1. As(ch) # As("nl")
      BY <2>4 DEF As
    <3> QED
      BY <1>1, <1>5, <2>1, <2>3, <3>1, AppendNotBlank
  <2>5. CASE ch = "nl"
    <3>1. prev' = "nl" /\ ~EndsBlank(t) /\ out' = Append(t, As("nl"))
      BY <1>2, <2>1, <2>3, <2>5
    <3>2. ~EndsTwo(t)
      <4>1. t # <<>> \/ Len(t) = 0
        BY EmptySeq
      <4> QED
        BY <3>1, <4>1 DEF EndsTwo, EndsBlank
    <3>3. NoThree(Append(t, As("nl"))) /\ ~EndsTwo(Append(t, As("nl")))
      BY <1>5, <2>3, <3>1, <3>2, AppendBlank
    <3> QED
      BY <3>1, <3>3
  <2> QED
    BY <2>4, <2>5
<1> QED
  BY <1>6, <1>7

LEMMA CattingKeepsCatInv ==
  ASSUME PlaceInv, CatInv, Catting
  PROVE  CatInv'
<1>0. /\ left \in Seq(Character) /\ opened \in BOOLEAN /\ UNCHANGED <<opts, direct, tool>> /\ tool = "cat"
      /\ place \in {"main", "cat"} /\ place' \in {"cat", "main", "done"} /\ args \in Seq(Contents)
      /\ buffer # <<>> => opened
  BY DEF CatInv, CatShape, CatTypeOK, Catting, Of
<1>1. Unused'
  <2>1. tool' = "cat" /\ (place' = "main" => place = "main")
    BY DEF Catting, Of
  <2>2. CASE place' = "main"
    <3>1. UNCHANGED catVars
      BY <2>1, <2>2 DEF Catting, CatStep, CatBegins, CatOpens, CatSkips, CatCloses, CatEnds, RawRead, RawWrite,
                        RawWriteFails, Cook, CookFails, Finish, toolVars
    <3>2. CatPristine
      BY <2>1, <2>2 DEF CatInv, Unused
    <3> QED
      BY <3>1, <3>2 DEF Unused, CatPristine, catVars
  <2>3. CASE place' # "main"
    BY <1>0, <2>1, <2>3 DEF Unused
  <2> QED
    BY <2>2, <2>3
<1>2. ASSUME CatBegins \/ RawWriteFails \/ CatEnds
      PROVE  UNCHANGED catVars /\ UNCHANGED args
  BY <1>2 DEF CatBegins, RawWriteFails, CatEnds
<1>3. CASE CatBegins \/ RawWriteFails \/ CatEnds
  BY <1>0, <1>1, <1>2, <1>3, SameTextKeepsCatInv DEF catVars
<1>4. CASE CatSkips
  <2>1. UNCHANGED catVars /\ args # <<>> /\ args' = Tail(args)
    BY <1>4 DEF CatSkips
  <2>2. args' \in Seq(Contents)
    BY <1>0, <2>1, HeadTailProperties
  <2> QED
    BY <1>0, <1>1, <2>1, <2>2, SameTextKeepsCatInv DEF catVars
<1>5. CASE CatCloses
  <2>1. opened' = FALSE /\ left' = <<>> /\ UNCHANGED <<place, args, buffer, out, taken, prev, gobble, line>>
    BY <1>5 DEF CatCloses
  <2>2. left' \in Seq(Character)
    BY <2>1
  <2>4. opened' \in BOOLEAN
    BY <2>1, Zenon
  <2>3. buffer = <<>>
    BY <1>5 DEF CatCloses
  <2> QED
    BY <1>0, <1>1, <2>1, <2>2, <2>3, <2>4, SameTextKeepsCatInv
<1>6. CASE CookFails
  <2>1. opened' = FALSE /\ left' = <<>> /\ UNCHANGED <<place, args, buffer, out, taken, prev, gobble, line>>
    BY <1>6 DEF CookFails
  <2>2. left' \in Seq(Character)
    BY <2>1
  <2>4. opened' \in BOOLEAN
    BY <2>1, Zenon
  <2>3. buffer = <<>>
    BY <1>6 DEF CookFails, CatInv, CookedInv
  <2> QED
    BY <1>0, <1>1, <2>1, <2>2, <2>3, <2>4, SameTextKeepsCatInv
<1>7. CASE RawRead
  BY <1>7, RawReadKeepsCatInv
<1>8. CASE RawWrite
  BY <1>8, RawWriteKeepsCatInv
<1>9. CASE Cook
  <2>1. CatShape' /\ CookedInv' /\ LineInv' /\ BlankInv'
    BY <1>9, CookKeepsAll, CookKeepsLineInv, CookKeepsBlankInv
  <2>2. Cooked'
    BY <1>9 DEF Cook, Cooked, toolVars
  <2> QED
    BY <1>1, <2>1, <2>2 DEF CatInv, RawInv
<1>10. CASE CatOpens
  <2>1. /\ args # <<>> /\ left' = Head(args) /\ args' = Tail(args) /\ opened' = TRUE
        /\ prev' = "nl" /\ gobble' = FALSE /\ line' = 0 /\ out' = <<>> /\ taken' = <<>>
        /\ UNCHANGED <<place, buffer>>
    BY <1>10 DEF CatOpens
  <2>2. args' \in Seq(Contents) /\ Head(args) \in Contents
    BY <1>0, <2>1, HeadTailProperties
  <2>3. CatShape'
    <3>1. left' \in Seq(Character) /\ buffer' \in Seq(Character)
      BY <2>1, <2>2, ContentsAssumption DEF CatInv, CatShape
    <3>4. buffer' = <<>>
      BY <1>10, <2>1 DEF CatInv, CatShape, CatOpens
    <3>2. opened' \in BOOLEAN /\ gobble' \in BOOLEAN
      BY <2>1
    <3>3. prev' \in Character /\ line' \in Nat /\ out' \in Seq(Marked) /\ taken' \in Seq(Character)
      BY <2>1 DEF Character
    <3> QED
      BY <2>2, <3>1, <3>2, <3>3, <3>4 DEF CatShape, CatTypeOK
  <2>4. buffer' = <<>>
    BY <1>10, <2>1 DEF CatInv, CatShape, CatOpens
  <2>5. (CatShape /\ Unused /\ buffer = <<>> /\ out = <<>> /\ taken = <<>> /\ line = 0 => CatInv)'
    BY CleanCatInv, PTL
  <2> QED
    BY <1>1, <2>1, <2>3, <2>4, <2>5
<1> QED
  BY <1>3, <1>4, <1>5, <1>6, <1>7, <1>8, <1>9, <1>10 DEF Catting, CatStep

LEMMA NextCatInv ==
  ASSUME PlaceInv, CatInv, OneStep
  PROVE  CatInv'
<1>0. /\ left \in Seq(Character) /\ opened \in BOOLEAN
      /\ buffer # <<>> => opened
      /\ (CatPristine => buffer = <<>> /\ out = <<>> /\ taken = <<>> /\ line = 0)
  <2>1. left \in Seq(Character) /\ opened \in BOOLEAN
    BY Zenon DEF CatInv, CatShape, CatTypeOK
  <2> QED
    BY <2>1 DEF CatInv, CatShape, CatPristine
<1>1. CASE Catting
  BY <1>1, CattingKeepsCatInv
<1>2. ASSUME UNCHANGED catVars, CatPristine,
             tool' = "cat" /\ place' \in {"main", "cat"} => args' \in Seq(Contents)
      PROVE  CatInv'
  <2>1. CatPristine' /\ UNCHANGED <<left, buffer, out, taken, prev, gobble, line, opened>>
    BY <1>2 DEF CatPristine, catVars
  <2>2. Unused'
    BY <2>1 DEF Unused
  <2>3. gobble' \in BOOLEAN /\ opened' \in BOOLEAN
    BY <2>1 DEF CatPristine
  <2>4. CatShape'
    BY <1>2, <2>1, <2>3 DEF CatInv, CatShape, CatTypeOK
  <2>5. (CatShape /\ Unused /\ buffer = <<>> /\ out = <<>> /\ taken = <<>> /\ line = 0 => CatInv)'
    BY CleanCatInv, PTL
  <2> QED
    BY <1>0, <1>2, <2>1, <2>2, <2>4, <2>5
<1>3. CASE Starting
  <2>1. place = "find" /\ Starts /\ UNCHANGED catVars
    BY <1>3 DEF Starting, Starts
  <2>2. CatPristine
    BY <2>1 DEF CatInv, Unused
  <2>3. ASSUME tool' = "cat", place' \in {"main", "cat"} PROVE args' \in Seq(Contents)
    <3>1. "cat" \in DOMAIN Requests /\ \E r \in Requests["cat"] : args' = r[2]
      BY <2>1, <2>3 DEF Starts
    <3>2. "cat" \in DOMAIN Requests => \A r \in Requests["cat"] : r[2] \in Seq(Contents)
      BY RequestsAssumption
    <3> QED
      BY <3>1, <3>2
  <2> QED
    BY <1>2, <2>1, <2>2, <2>3
<1>4. CASE UNCHANGED <<toolVars, catVars>>
  <2>1. Unused'
    BY <1>4 DEF CatInv, Unused, CatPristine, toolVars, catVars
  <2>2. tool' = "cat" /\ place' \in {"main", "cat"} => args' \in Seq(Contents)
    BY <1>4 DEF CatInv, CatShape, toolVars
  <2>3. UNCHANGED <<opts, buffer, out, taken, prev, gobble, line, left, opened>>
    BY <1>4 DEF toolVars, catVars
  <2>4. left' \in Seq(Character) /\ (buffer # <<>> => opened')
    BY <1>0, <2>3
  <2>5. opened' \in BOOLEAN
    BY <1>0, <2>3, Zenon
  <2> QED
    BY <2>1, <2>2, <2>3, <2>4, <2>5, SameTextKeepsCatInv
<1>5. ASSUME UNCHANGED catVars, NEW names, NEW places, Of(names, places), "cat" \notin names, "cat" \notin places
      PROVE  CatInv'
  <2>1. tool \in names /\ tool' = tool /\ place # "cat" /\ tool # "cat"
    BY <1>5 DEF Of
  <2>2. CatPristine
    BY <2>1 DEF CatInv, Unused
  <2> QED
    BY <1>2, <1>5, <2>1, <2>2
<1> QED
  <2>1. CASE Idle \/ Disturbing \/ Changing
    BY <2>1, <1>4 DEF Idle, Disturbing, Changing
  <2>2. CASE Filing
    BY <2>2, <1>5 DEF Filing, FileNames
  <2>3. CASE Mounting
    BY <2>3, <1>5 DEF Mounting
  <2>4. CASE Processing
    BY <2>4, <1>5 DEF Processing
  <2>5. CASE Copies
    BY <2>5, <1>5 DEF Copies
  <2> QED
    BY <1>1, <1>3, <2>1, <2>2, <2>3, <2>4, <2>5 DEF OneStep

(* What cat keeps follows.                                                 *)
LEMMA CatInvImplies ==
  ASSUME CatInv
  PROVE  CatTypeOK /\ CatKeepsAll /\ CatLines
<1>0. CatTypeOK /\ buffer \in Seq(Character) /\ taken \in Seq(Character) /\ out \in Seq(Marked)
  BY DEF CatInv, CatShape
<1>1. AsAll(taken) \in Seq(Marked) /\ Len(AsAll(taken)) = Len(taken)
      /\ \A k \in 1 .. Len(taken) : AsAll(taken)[k] = As(taken[k])
  BY <1>0, AsAllProperties
<1>2. AsAll(<<>>) = <<>>
  <2>1. <<>> \in Seq(Character)
    OBVIOUS
  <2> QED
    BY <2>1, AsAllProperties, EmptySeq
<1>3. Has("s") => Cooked
  BY DEF Has, Cooked
<1>4. CASE Cooked
  <2>1. buffer = <<>> /\ out \o AsAll(buffer) = out
    BY <1>0, <1>2, <1>4, ConcatEmptySeq DEF CatInv, CookedInv
  <2>2. CatKeepsAll
    BY <1>4, <2>1 DEF CatInv, CookedInv, CatKeepsAll
  <2>3. /\ \A k \in 1 .. Len(out) : out[k][1] = "number" => out[k][2] = Cardinality({j \in 1 .. k : out[j][1] = "number"})
        /\ \A k \in 2 .. Len(out) : out[k][1] = "number" => out[k - 1][2] \in {"nl", "highnl"}
    BY <1>4 DEF CatInv, LineInv, NumberedInTurn, NumbersTo, EndsLine
  <2>4. Has("s") => \A k \in 1 .. Len(out) - 2 : \E j \in k .. k + 2 : out[j] # As("nl")
    BY DEF CatInv, BlankInv, NoThree
  <2> QED
    BY <1>0, <2>2, <2>3, <2>4 DEF CatLines
<1>5. CASE ~Cooked
  <2>1. out \o AsAll(buffer) = AsAll(taken)
    BY <1>5 DEF CatInv, RawInv
  <2>2. CatKeepsAll
    BY <1>1, <2>1, SameOfItself DEF CatKeepsAll
  <2>3. ASSUME NEW k \in 1 .. Len(out) PROVE out[k][1] # "number"
    <3> DEFINE b == AsAll(buffer)
    <3>1. b \in Seq(Marked) /\ Len(b) \in Nat /\ Len(out) \in Nat
      BY <1>0, AsAllProperties, LenProperties
    <3>2. Len(out \o b) = Len(out) + Len(b) /\ \A i \in 1 .. Len(out) + Len(b) :
            (out \o b)[i] = IF i <= Len(out) THEN out[i] ELSE b[i - Len(out)]
      <4> HIDE DEF b
      <4> QED
        BY <1>0, <3>1, ConcatProperties
    <3>3. k \in 1 .. Len(out) + Len(b) /\ k <= Len(out)
      BY <3>1
    <3>4. out[k] = AsAll(taken)[k] /\ k \in 1 .. Len(taken)
      BY <1>1, <2>1, <3>2, <3>3
    <3>5. out[k] = As(taken[k])
      BY <1>1, <3>4
    <3> QED
      BY <3>5 DEF As
  <2>4. \A k \in 2 .. Len(out) : k \in 1 .. Len(out)
    OBVIOUS
  <2>5. CatLines
    BY <1>3, <1>5, <2>3, <2>4 DEF CatLines
  <2> QED
    BY <1>0, <2>2, <2>5
<1> QED
  BY <1>4, <1>5
-----------------------------------------------------------------------------
(* The commands together.                                                  *)
ToolboxInv == PlaceInv /\ DdInv /\ MountInv /\ ProcessInv /\ FileInv /\ CatInv

LEMMA InitToolboxInv == Init => ToolboxInv
<1> SUFFICES ASSUME Init PROVE ToolboxInv
  OBVIOUS
<1>1. DdInv
  BY InitDdInv DEF Init
<1> QED
  BY <1>1, InitPlaceInv, InitMountInv, InitProcessInv, InitFileInv, InitCatInv DEF ToolboxInv

LEMMA NextToolboxInv == ToolboxInv /\ [Next]_allVars => ToolboxInv'
<1> SUFFICES ASSUME ToolboxInv, [Next]_allVars PROVE ToolboxInv'
  OBVIOUS
<1>0. PlaceInv /\ DdInv /\ MountInv /\ ProcessInv /\ FileInv /\ CatInv
  BY DEF ToolboxInv
<1>1. OneStep
  BY <1>0, NextOneStep
<1>2. DdInv'
  BY <1>0, DdSteps, NextDdInv
<1>3. PlaceInv' /\ MountInv' /\ ProcessInv' /\ FileInv' /\ CatInv'
  BY <1>0, <1>1, NextPlaceInv, NextMountInv, NextProcessInv, NextFileInv, NextCatInv
<1> QED
  BY <1>2, <1>3 DEF ToolboxInv

(* The commands' states are kept apart, and each keeps its own invariant.  *)
THEOREM ToolboxInvariant == Spec => []ToolboxInv
<1> QED
  BY InitToolboxInv, NextToolboxInv, PTL DEF Spec

(* For any tree, operands and processes: "0" is answered only when mv, rm, *)
(* chmod, chown and chattr have done what they were asked for all of their *)
(* operands on whose way others changed nothing (FileTools), mount only    *)
(* without an error, kill only when every process got the signal, and dd's *)
(* success is that of the whole input.                                     *)
THEOREM AnswersHonest == Spec => []StatusHonest
<1>1. ToolboxInv => StatusHonest
  BY DdInvImplies, MountInvImplies, ProcessInvImplies, FileInvImplies DEF ToolboxInv, StatusHonest
<1> QED
  BY <1>1, ToolboxInvariant, PTL

(* A command goes no further than it was asked.  rm removes and chattr -R  *)
(* changes only what is at or below an operand, as long as no other        *)
(* process puts a link above, at or below one; if one does, then also what *)
(* is below where that leads, and still nothing else.  mv replaces only    *)
(* what is where a source goes.  The stack of directories descends, a      *)
(* read-only mount is told, and dd writes only from seek on and no more    *)
(* blocks than count.                                                      *)
THEOREM NothingUnasked == Spec => []OnlyAsked
<1>1. ToolboxInv => OnlyAsked
  BY DdInvImplies, MountInvImplies, ProcessInvImplies, FileInvImplies, CatInvImplies
     DEF ToolboxInv, OnlyAsked, ToolboxTypeOK
<1> QED
  BY <1>1, ToolboxInvariant, PTL

(* What is printed: of a directory that others leave alone, a listing that *)
(* ends with 0 has every entry that is not hidden (with -a every entry),   *)
(* unless readdir or the look at an entry failed, which ls does not tell;  *)
(* ps leaves nothing out, cat neither loses nor moves a character whatever *)
(* the writes and the marks, and dd loses no byte, with a buffer that is   *)
(* never overrun.                                                          *)
THEOREM OutputWhole == Spec => []OutputComplete
<1>1. ToolboxInv => OutputComplete
  BY DdInvImplies, ProcessInvImplies, FileInvImplies, CatInvImplies DEF ToolboxInv, OutputComplete
<1> QED
  BY <1>1, ToolboxInvariant, PTL
=============================================================================
