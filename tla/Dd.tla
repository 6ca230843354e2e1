----------------------------------- MODULE Dd -----------------------------------
(***************************************************************************)
(* libsu's dd command (cmds/dd.c, built with NO_CONV: no conversions).     *)
(* Operands are read one by one, the files are opened and positioned, and  *)
(* blocks are copied through one buffer: dd_in reads blocks of ibs, def    *)
(* collects them until there are obs bytes, dd_out writes them.  A block   *)
(* may be read short, a write may be cut, interrupted or fail.             *)
(*                                                                         *)
(* The byte at offset i of the input is i; what the output file held is    *)
(* Old, what seeking leaves between is Hole.  The stage is one of          *)
(*   operands  in jcl              setup  about to open the files          *)
(*   skip      in pos_in           seek   about to run pos_out             *)
(*   read      in dd_in            out    in dd_out, writing a block       *)
(*   close     in dd_close         done   exited                           *)
(***************************************************************************)
EXTENDS Integers, Sequences, FiniteSets

CONSTANTS InputLength,  \* bytes of input
          OldLength,    \* bytes that are in the output file
          DefaultSize,  \* the size of a block when none is given: 512
          Sizes,        \* the block sizes that operands give
          Counts,      \* the counts that operands give
          MaxInterrupts \* bound: interrupted writes in one run

Old == -1
Hole == -2

ASSUME LengthsAssumption == InputLength \in Nat /\ OldLength \in Nat
ASSUME SizesAssumption == /\ DefaultSize \in Nat \ {0} /\ Sizes \subseteq Nat
                          /\ Counts \subseteq Nat /\ MaxInterrupts \in Nat

VARIABLES
  stage,
  given, opt,    \* the operands given, and what they set
  pipe,          \* is the input a pipe
  pos, start,    \* the input's offset, and where copying starts
  buf,           \* the bytes in the buffer: in.dbcnt of them
  toSkip, blocks,\* pos_in on a pipe: bytes of the block, blocks to skip
  n, cnt, outp,  \* dd_out: the block's bytes, those to write, those written
  force,         \* dd_out writes what there is
  file, opos,    \* the output and its offset
  st,            \* statistics
  closing,       \* dd_close has begun
  interrupted,   \* by SIGINT
  status         \* what is printed: nothing, "0" or "1"

optVars  == <<given, opt, pipe>>
inVars   == <<pos, start, buf>>
skipVars == <<toSkip, blocks>>
outVars  == <<n, cnt, outp, force>>
ddFileVars == <<file, opos>>
endVars  == <<closing, interrupted, status>>
ddVars == <<stage, optVars, inVars, skipVars, outVars, ddFileVars, st, endVars>>

Least(a, b) == IF a < b THEN a ELSE b
Most(a, b) == IF a > b THEN a ELSE b
Bytes(from, k) == [i \in 1 .. k |-> from + i - 1]

(* The file with the bytes b written at offset o.                          *)
Put(f, o, b) ==
  [i \in 1 .. Most(Len(f), o + Len(b)) |->
     IF i > o /\ i <= o + Len(b) THEN b[i - o] ELSE IF i <= Len(f) THEN f[i] ELSE Hole]

(* ftruncate to k bytes, which may extend the file.                        *)
Truncate(f, k) == [i \in 1 .. k |-> IF i <= Len(f) THEN f[i] ELSE Hole]

DdInit ==
  /\ stage = "operands"
  /\ given = {}
  /\ opt = [ibs |-> DefaultSize, obs |-> DefaultSize, count |-> 0,
            skip |-> 0, seek |-> 0, files |-> 1]
  /\ pipe \in BOOLEAN
  /\ pos = 0 /\ start = 0 /\ buf = <<>>
  /\ toSkip = 0 /\ blocks = 0
  /\ n = 0 /\ cnt = 0 /\ outp = 0 /\ force = FALSE
  /\ file = [i \in 1 .. OldLength |-> Old] /\ opos = 0
  /\ st = [inFull |-> 0, inPart |-> 0, outFull |-> 0, outPart |-> 0, bytes |-> 0, intr |-> 0]
  /\ closing = FALSE /\ interrupted = FALSE /\ status = "nothing"

Base == opt.seek * opt.obs

(* exit: what is printed is lost if the output was stdout and is closed.   *)
Exit(s) ==
  /\ stage' = "done"
  /\ status' = s

(* Every error prints "1" and exits with 1.                                *)
Fail(at) ==
  /\ stage = at
  /\ Exit("1")
  /\ UNCHANGED <<optVars, inVars, skipVars, outVars, ddFileVars, st, closing, interrupted>>
-----------------------------------------------------------------------------
(* args: what each operand sets and what must not be set before it.        *)
DdOperands == {"bs", "cbs", "count", "files", "ibs", "if", "obs", "of", "seek", "skip"}
NoSet(o) == CASE o = "bs"  -> {"bs", "ibs", "obs"}
              [] o = "ibs" -> {"bs", "ibs"}
              [] o = "obs" -> {"bs", "obs"}
              [] OTHER     -> {o}

(* What sscanf leaves in result; nothing is stored for a blank value, and  *)
(* then result is whatever it was.                                         *)
Values(o) == CASE o \in {"bs", "ibs", "obs"} -> Sizes
               [] o \in {"count", "files", "seek", "skip"} -> Counts
               [] OTHER -> {0}

Apply(o, v) == CASE o = "bs" -> [opt EXCEPT !.ibs = v, !.obs = v]
                 [] o \in DOMAIN opt -> [opt EXCEPT ![o] = v]
                 [] OTHER -> opt

(* jcl: one operand.  A count of 0 ends the program at once, with "0".     *)
Operand(o) ==
  /\ stage = "operands"
  /\ given \cap NoSet(o) = {}
  /\ given' = given \cup {o}
  /\ \E v \in Values(o) :
       /\ opt' = Apply(o, v)
       /\ IF o \in {"count", "files"} /\ v = 0 THEN Exit("0") ELSE UNCHANGED <<stage, status>>
  /\ UNCHANGED <<pipe, inVars, skipVars, outVars, ddFileVars, st, closing, interrupted>>

(* An operand that is unknown, has no value, excludes another, or is conv. *)
BadOperand == Fail("operands")

(* cbs asks for a conversion, and there is none; more than one file needs  *)
(* a tape, and none is recognised.                                         *)
Unsupported == "cbs" \in given \/ opt.files > 1

OperandsEnd ==
  /\ stage = "operands"
  /\ IF Unsupported THEN Exit("1") ELSE stage' = "setup" /\ UNCHANGED status
  /\ UNCHANGED <<optVars, inVars, skipVars, outVars, ddFileVars, st, closing, interrupted>>

(* Fault: the output is truncated in spite of seek.                        *)
SetupTruncates ==
  /\ stage = "setup"
  /\ file' = IF "of" \in given THEN <<>> ELSE file
  /\ stage' = "seek"
  /\ pos' = opt.skip * opt.ibs /\ start' = pos'
  /\ UNCHANGED <<optVars, skipVars, buf, outVars, opos, st, endVars>>

(* setup: the input is opened; the output, if it has a name, is opened and *)
(* truncated unless seek is given; pos_in seeks, or will read a pipe.  The *)
(* size of the buffer wraps when both blocks are 0, and no memory is found.*)
Setup ==
  /\ stage = "setup"
  /\ opt.ibs + opt.obs > 0
  /\ file' = IF "of" \in given /\ "seek" \notin given THEN <<>> ELSE file
  /\ IF pipe /\ opt.skip > 0
       THEN /\ stage' = "skip"
            /\ toSkip' = opt.ibs /\ blocks' = opt.skip
            /\ UNCHANGED <<pos, start>>
       ELSE /\ stage' = "seek"
            /\ pos' = opt.skip * opt.ibs /\ start' = pos'
            /\ UNCHANGED skipVars
  /\ UNCHANGED <<optVars, buf, outVars, opos, st, endVars>>

SetupFails == Fail("setup")

(* pos_in on a pipe: a block is skipped when all its bytes were read.      *)
SkipBytes ==
  /\ stage = "skip"
  /\ \E k \in 1 .. Least(toSkip, InputLength - pos) :
       /\ pos' = pos + k
       /\ IF k < toSkip
            THEN toSkip' = toSkip - k /\ UNCHANGED <<blocks, stage, start>>
            ELSE /\ toSkip' = opt.ibs /\ blocks' = blocks - 1
                 /\ IF blocks' = 0 THEN stage' = "seek" /\ start' = pos'
                                   ELSE UNCHANGED <<stage, start>>
  /\ UNCHANGED <<optVars, buf, outVars, ddFileVars, st, endVars>>

(* The end of the input or an error while skipping is fatal.               *)
SkipFails == Fail("skip")

(* pos_out: to the output's place, which only a file has; then the rest of *)
(* a file that was positioned is cut off.                                  *)
SeekOut ==
  /\ stage = "seek"
  /\ opt.seek = 0 \/ "of" \in given
  /\ opos' = Base
  /\ file' = IF {"of", "seek"} \subseteq given THEN Truncate(file, Base) ELSE file
  /\ stage' = "read"
  /\ UNCHANGED <<optVars, inVars, skipVars, outVars, st, endVars>>

SeekFails == Fail("seek")
-----------------------------------------------------------------------------
(* Fault: one block is written however many there are.                     *)
OneBlock(written) ==
  LET rest == Len(buf) - written IN
  /\ stage' = IF closing THEN "close" ELSE "read"
  /\ buf' = SubSeq(buf, Len(buf) - rest + 1, Len(buf))
  /\ n' = 0 /\ cnt' = 0 /\ outp' = 0 /\ force' = FALSE

EnterOut(f, b) ==
  /\ stage' = "out"
  /\ force' = f
  /\ n' = IF f THEN Len(b) ELSE opt.obs
  /\ cnt' = n'
  /\ outp' = 0

(* Fault: the count is compared before the last block only.                *)
CountPassed == opt.count > 0 /\ st.inFull + st.inPart > opt.count

CountReached == opt.count > 0 /\ st.inFull + st.inPart >= opt.count

(* dd_in: one read, which a pipe may answer short.  With bs the block is   *)
(* written as it was read; otherwise def collects obs bytes first.         *)
Read ==
  /\ stage = "read"
  /\ ~CountReached
  /\ \E k \in 1 .. Least(opt.ibs, InputLength - pos) :
       /\ ~pipe => k = Least(opt.ibs, InputLength - pos)
       /\ pos' = pos + k
       /\ buf' = buf \o Bytes(pos, k)
       /\ st' = IF k = opt.ibs THEN [st EXCEPT !.inFull = @ + 1] ELSE [st EXCEPT !.inPart = @ + 1]
       /\ IF "bs" \in given THEN EnterOut(TRUE, buf')
          ELSE IF Len(buf') >= opt.obs THEN EnterOut(FALSE, buf')
          ELSE UNCHANGED <<stage, outVars>>
  /\ UNCHANGED <<optVars, start, skipVars, ddFileVars, endVars>>

(* The end of the input, or of the blocks to copy: dd_close writes what is *)
(* in the buffer.                                                          *)
ReadEnds ==
  /\ stage = "read"
  /\ CountReached \/ Least(opt.ibs, InputLength - pos) <= 0
  /\ closing' = TRUE
  /\ IF buf # <<>> THEN EnterOut(TRUE, buf) ELSE stage' = "close" /\ UNCHANGED outVars
  /\ UNCHANGED <<optVars, inVars, skipVars, ddFileVars, st, interrupted, status>>

ReadFails == Fail("read")
-----------------------------------------------------------------------------
Counted(nw) ==
  [st EXCEPT !.bytes = @ + nw,
             !.outFull = IF nw = n /\ n = opt.obs THEN @ + 1 ELSE @,
             !.outPart = IF nw = n /\ n = opt.obs THEN @ ELSE @ + 1]

(* Fault: what is left of the buffer is not moved to its beginning.        *)
LeftAtStart(k) == SubSeq(buf, 1, k)

(* What is left is moved to the beginning of the buffer.                   *)
Leftover(k) == SubSeq(buf, Len(buf) - k + 1, Len(buf))

(* A block is written: there is another one in the buffer, or dd_out       *)
(* returns.                                                                *)
BlockDone(written) ==
  LET rest == Len(buf) - written IN
  IF rest < opt.obs \/ force
    THEN /\ stage' = IF closing THEN "close" ELSE "read"
         /\ buf' = Leftover(rest)
         /\ n' = 0 /\ cnt' = 0 /\ outp' = 0 /\ force' = FALSE
    ELSE /\ n' = opt.obs /\ cnt' = opt.obs /\ outp' = written
         /\ UNCHANGED <<stage, buf, force>>

(* Fault: a write that was cut short is taken for a whole one.             *)
WriteOnce ==
  /\ stage = "out"
  /\ \E nw \in 1 .. cnt :
       /\ file' = Put(file, opos, SubSeq(buf, outp + 1, outp + nw))
       /\ opos' = opos + nw
       /\ st' = Counted(nw)
       /\ BlockDone(outp + cnt)
  /\ UNCHANGED <<optVars, pos, start, skipVars, endVars>>

(* bwrite takes some of the block.                                         *)
Write ==
  /\ stage = "out"
  /\ \E nw \in 1 .. cnt :
       /\ file' = Put(file, opos, SubSeq(buf, outp + 1, outp + nw))
       /\ opos' = opos + nw
       /\ st' = Counted(nw)
       /\ IF nw = cnt
            THEN BlockDone(outp + nw)
            ELSE cnt' = cnt - nw /\ outp' = outp + nw /\ UNCHANGED <<stage, buf, n, force>>
  /\ UNCHANGED <<optVars, pos, start, skipVars, endVars>>

(* EINTR: nothing is written and a partial block is counted.               *)
WriteInterrupted ==
  /\ stage = "out" /\ cnt > 0
  /\ st.intr < MaxInterrupts
  /\ st' = [st EXCEPT !.outPart = @ + 1, !.intr = @ + 1]
  /\ UNCHANGED <<stage, optVars, inVars, skipVars, outVars, ddFileVars, endVars>>

(* An error, or nothing written: "end of device", which a block of 0 is    *)
(* taken for too.                                                          *)
WriteFails == Fail("out")

(* fsync and close.                                                        *)
CloseFiles ==
  /\ stage = "close"
  /\ Exit(IF "of" \in given THEN "0" ELSE "nothing")
  /\ UNCHANGED <<optVars, inVars, skipVars, outVars, ddFileVars, st, closing, interrupted>>

CloseFails == Fail("close")

(* SIGINT ends the program until setup has returned; from then on terminate *)
(* prints "0", whatever was copied.                                        *)
Interrupt ==
  /\ stage # "done"
  /\ interrupted' = TRUE
  /\ Exit(IF stage \in {"operands", "setup", "skip", "seek"} THEN "nothing" ELSE "0")
  /\ UNCHANGED <<optVars, inVars, skipVars, outVars, ddFileVars, st, closing>>
-----------------------------------------------------------------------------
DdStep == \/ \E o \in DdOperands : Operand(o)
        \/ BadOperand \/ OperandsEnd
        \/ Setup \/ SetupFails \/ SkipBytes \/ SkipFails \/ SeekOut \/ SeekFails
        \/ Read \/ ReadEnds \/ ReadFails
        \/ Write \/ WriteInterrupted \/ WriteFails
        \/ CloseFiles \/ CloseFails

DdNext == DdStep \/ Interrupt
DdSpec == DdInit /\ [][DdNext]_ddVars
-----------------------------------------------------------------------------
(* The type invariant.                                                     *)
DdTypeOK ==
  /\ stage \in {"operands", "setup", "skip", "seek", "read", "out", "close", "done"}
  /\ given \in SUBSET DdOperands
  /\ opt \in [ibs : Nat, obs : Nat, count : Nat, skip : Nat, seek : Nat, files : Nat]
  /\ pipe \in BOOLEAN
  /\ pos \in Nat /\ start \in Nat /\ buf \in Seq(Nat)
  /\ toSkip \in Nat /\ blocks \in Nat
  /\ n \in Nat /\ cnt \in Nat /\ outp \in Nat /\ force \in BOOLEAN
  /\ file \in Seq(Int) /\ opos \in Nat
  /\ st \in [inFull : Nat, inPart : Nat, outFull : Nat, outPart : Nat, bytes : Nat, intr : Nat]
  /\ closing \in BOOLEAN /\ interrupted \in BOOLEAN /\ status \in {"nothing", "0", "1"}

Copying == stage \in {"read", "out", "close"}

(* "Worst case buffer calculation is (ibs + obs - 1)" (line 790): the next *)
(* block read fits behind what is in the buffer, however reads and writes  *)
(* are cut.                                                                *)
BufferBound == stage = "read" => Len(buf) + opt.ibs <= opt.ibs + opt.obs - 1 \/ opt.obs = 0

(* Reblocking loses, repeats and reorders no byte: the output from its     *)
(* place on is the input from its place on, and what is not written yet is *)
(* in the buffer (dd_in, def and dd_out).                                  *)
NoByteLost ==
  Copying =>
    /\ opos - Base = pos - start - (Len(buf) - outp)
    /\ Len(file) >= opos
    /\ \A i \in Base + 1 .. opos : file[i] = start + (i - Base) - 1
    /\ \A j \in outp + 1 .. Len(buf) : buf[j] = pos - Len(buf) + j - 1

(* "0" is printed only if everything that was to be copied is written, or  *)
(* nothing was to be, or the run was interrupted.                          *)
SuccessComplete ==
  status = "0" /\ ~interrupted /\ closing =>
    /\ buf = <<>>
    /\ CountReached \/ pos >= InputLength \/ opt.ibs = 0
    /\ st.bytes = pos - start

(* A given block size is the one of an operand that was not overridden,    *)
(* and no more blocks are read than count says.                            *)
BlocksAsked ==
  /\ "bs" \in given => given \cap {"ibs", "obs"} = {} /\ opt.ibs = opt.obs
  /\ opt.count > 0 => st.inFull + st.inPart <= opt.count

(* seek keeps what is before it in a file: the old bytes, or a hole.       *)
SeekKeeps ==
  Copying /\ "of" \in given =>
    \A i \in 1 .. Least(Base, Len(file)) :
      file[i] = IF i <= OldLength THEN Old ELSE Hole

=============================================================================
