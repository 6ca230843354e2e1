---------------------------- MODULE RtRequestProofs ----------------------------
(***************************************************************************)
(* What RtRequest guarantees whatever the limits, buffers and commands: a  *)
(* status line is never mixed with output, output that was cut short is    *)
(* never passed off as whole, and the reply is one that RtReply allows.    *)
(***************************************************************************)
EXTENDS RtRequest, TLAPS

(* The inductive invariant holds initially.                                *)
LEMMA InitIInv == Init => IInv
<1> SUFFICES ASSUME Init PROVE IInv
  OBVIOUS
<1>1. TypeOK
  <2>1. expired \in BOOLEAN /\ sigchld \in BOOLEAN /\ open \in BOOLEAN
    BY Zenon DEF Init
  <2> QED
    BY <2>1 DEF Init, TypeOK, Places
<1>2. FlowInv
  BY DEF Init, FlowInv, MidRuns
<1>3. EndingInv
  <2>1. open <=> h # "done"
    BY Zenon DEF Init
  <2> QED
    BY <2>1 DEF Init, EndingInv
<1>4. PatienceInv
  <2>1. tries = 0 /\ ~sigchld
    BY Zenon DEF Init
  <2> QED
    BY <2>1 DEF PatienceInv
<1> QED
  BY <1>1, <1>2, <1>3, <1>4 DEF IInv

(* Every step keeps the types.                                             *)
LEMMA KeepsTypeOK ==
  ASSUME IInv, [Next]_vars
  PROVE  TypeOK'
<1> USE SizesAssumption DEF IInv
<1>1. CASE Refuse
  BY <1>1 DEF Refuse, Answer, vars, handlerVars, replyVars, cmdVars, TypeOK, Places
<1>2. CASE Accept
  BY <1>2 DEF Accept, vars, handlerVars, replyVars, cmdVars, TypeOK, Places
<1>3. CASE ForkFails
  BY <1>3 DEF ForkFails, Answer, vars, handlerVars, replyVars, cmdVars, TypeOK, Places
<1>4. CASE Fork
  BY <1>4 DEF Fork, vars, handlerVars, replyVars, cmdVars, TypeOK, Places
<1>5. CASE SelectReady
  BY <1>5 DEF SelectReady, vars, handlerVars, replyVars, cmdVars, TypeOK, Places
<1>6. CASE SelectFails
  <2>1. sigchld' \in BOOLEAN
    BY <1>6, Zenon DEF SelectFails, Interrupted, TimedOut, TypeOK
  <2>2. h' \in Places /\ tries' \in 0..2
    BY <1>6 DEF SelectFails, TypeOK, Places
  <2>3. UNCHANGED <<kind, expired, mid, cmdVars, pair, inbox, replyVars, client>>
    BY <1>6 DEF SelectFails
  <2> QED
    BY <2>1, <2>2, <2>3 DEF replyVars, cmdVars, TypeOK
<1>7. CASE ReadPiece
  BY <1>7 DEF ReadPiece, vars, handlerVars, replyVars, cmdVars, TypeOK, Places
<1>8. CASE ReadEnd
  BY <1>8 DEF ReadEnd, vars, handlerVars, replyVars, cmdVars, TypeOK, Places
<1>9. CASE WritePiece
  BY <1>9 DEF WritePiece, ClientAccepts, vars, handlerVars, replyVars, cmdVars, TypeOK, Places
<1>10. CASE WriteFails
  BY <1>10 DEF WriteFails, vars, handlerVars, replyVars, cmdVars, TypeOK, Places
<1>11. CASE MarkCut
  BY <1>11 DEF MarkCut, Answer, ClientAccepts, vars, handlerVars, replyVars, cmdVars, TypeOK, Places
<1>12. CASE Wait
  BY <1>12 DEF Wait, vars, handlerVars, replyVars, cmdVars, TypeOK, Places
<1>13. CASE Finish
  BY <1>13 DEF Finish, Answer, vars, handlerVars, replyVars, cmdVars, TypeOK, Places
<1>14. CASE Abort
  BY <1>14 DEF Abort, vars, handlerVars, replyVars, cmdVars, TypeOK, Places
<1>15. CASE Close
  BY <1>15 DEF Close, vars, handlerVars, replyVars, cmdVars, TypeOK, Places
<1>16. CASE Expire
  BY <1>16 DEF Expire, vars, handlerVars, replyVars, cmdVars, TypeOK, Places
<1>17. CASE Deliver
  <2>1. sigchld' \in BOOLEAN
    BY <1>17, Zenon DEF Deliver
  <2>2. UNCHANGED <<kind, handlerVars, expired, mid, cmdVars, pair, inbox, replyVars, client>>
    BY <1>17 DEF Deliver
  <2> QED
    BY <2>1, <2>2 DEF handlerVars, replyVars, cmdVars, TypeOK
<1>18. CASE MidForks
  BY <1>18 DEF MidForks, vars, handlerVars, replyVars, cmdVars, TypeOK, Places
<1>19. CASE MidExits
  BY <1>19 DEF MidExits, vars, handlerVars, replyVars, cmdVars, TypeOK, Places
<1>20. CASE CmdStarts
  BY <1>20 DEF CmdStarts, vars, handlerVars, replyVars, cmdVars, TypeOK, Places
<1>21. CASE CmdWrites
  BY <1>21 DEF CmdWrites, vars, handlerVars, replyVars, cmdVars, TypeOK, Places
<1>22. CASE CmdExits
  BY <1>22 DEF CmdExits, vars, handlerVars, replyVars, cmdVars, TypeOK, Places
<1>23. CASE ClientReads
  BY <1>23 DEF ClientReads, vars, handlerVars, replyVars, cmdVars, TypeOK, Places
<1>24. CASE ClientLeaves
  BY <1>24 DEF ClientLeaves, vars, handlerVars, replyVars, cmdVars, TypeOK, Places
<1>25. CASE UNCHANGED vars
  BY <1>25 DEF vars, handlerVars, replyVars, cmdVars, TypeOK, Places
<1> QED
  BY <1>1, <1>2, <1>3, <1>4, <1>5, <1>6, <1>7, <1>8, <1>9, <1>10, <1>11, <1>12, <1>13, <1>14, <1>15, <1>16, <1>17, <1>18, <1>19, <1>20, <1>21, <1>22, <1>23, <1>24, <1>25 DEF Next, Handler, Middle

(* Every step keeps the account of the pieces and of the processes.        *)
LEMMA KeepsFlowInv ==
  ASSUME IInv, [Next]_vars
  PROVE  FlowInv'
<1> USE SizesAssumption DEF IInv
<1>1. CASE Refuse
  BY <1>1 DEF Refuse, Answer, vars, handlerVars, replyVars, cmdVars, TypeOK, FlowInv, MidRuns, CmdRuns, Eof
<1>2. CASE Accept
  BY <1>2 DEF Accept, vars, handlerVars, replyVars, cmdVars, TypeOK, FlowInv, MidRuns, CmdRuns, Eof
<1>3. CASE ForkFails
  BY <1>3 DEF ForkFails, Answer, vars, handlerVars, replyVars, cmdVars, TypeOK, FlowInv, MidRuns, CmdRuns, Eof
<1>4. CASE Fork
  BY <1>4 DEF Fork, vars, handlerVars, replyVars, cmdVars, TypeOK, FlowInv, MidRuns, CmdRuns, Eof
<1>5. CASE SelectReady
  BY <1>5 DEF SelectReady, vars, handlerVars, replyVars, cmdVars, TypeOK, FlowInv, MidRuns, CmdRuns, Eof
<1>6. CASE SelectFails
  BY <1>6 DEF SelectFails, Interrupted, TimedOut, vars, handlerVars, replyVars, cmdVars, TypeOK, FlowInv, MidRuns, CmdRuns, Eof
<1>7. CASE ReadPiece
  BY <1>7 DEF ReadPiece, vars, handlerVars, replyVars, cmdVars, TypeOK, FlowInv, MidRuns, CmdRuns, Eof
<1>8. CASE ReadEnd
  BY <1>8 DEF ReadEnd, vars, handlerVars, replyVars, cmdVars, TypeOK, FlowInv, MidRuns, CmdRuns, Eof
<1>9. CASE WritePiece
  BY <1>9 DEF WritePiece, ClientAccepts, vars, handlerVars, replyVars, cmdVars, TypeOK, FlowInv, MidRuns, CmdRuns, Eof
<1>10. CASE WriteFails
  BY <1>10 DEF WriteFails, vars, handlerVars, replyVars, cmdVars, TypeOK, FlowInv, MidRuns, CmdRuns, Eof
<1>11. CASE MarkCut
  BY <1>11 DEF MarkCut, Answer, ClientAccepts, vars, handlerVars, replyVars, cmdVars, TypeOK, FlowInv, MidRuns, CmdRuns, Eof
<1>12. CASE Wait
  BY <1>12 DEF Wait, vars, handlerVars, replyVars, cmdVars, TypeOK, FlowInv, MidRuns, CmdRuns, Eof
<1>13. CASE Finish
  BY <1>13 DEF Finish, Answer, vars, handlerVars, replyVars, cmdVars, TypeOK, FlowInv, MidRuns, CmdRuns, Eof
<1>14. CASE Abort
  BY <1>14 DEF Abort, vars, handlerVars, replyVars, cmdVars, TypeOK, FlowInv, MidRuns, CmdRuns, Eof
<1>15. CASE Close
  BY <1>15 DEF Close, vars, handlerVars, replyVars, cmdVars, TypeOK, FlowInv, MidRuns, CmdRuns, Eof
<1>16. CASE Expire
  BY <1>16 DEF Expire, vars, handlerVars, replyVars, cmdVars, TypeOK, FlowInv, MidRuns, CmdRuns, Eof
<1>17. CASE Deliver
  BY <1>17 DEF Deliver, vars, handlerVars, replyVars, cmdVars, TypeOK, FlowInv, MidRuns, CmdRuns, Eof
<1>18. CASE MidForks
  BY <1>18 DEF MidForks, vars, handlerVars, replyVars, cmdVars, TypeOK, FlowInv, MidRuns, CmdRuns, Eof
<1>19. CASE MidExits
  BY <1>19 DEF MidExits, vars, handlerVars, replyVars, cmdVars, TypeOK, FlowInv, MidRuns, CmdRuns, Eof
<1>20. CASE CmdStarts
  BY <1>20 DEF CmdStarts, vars, handlerVars, replyVars, cmdVars, TypeOK, FlowInv, MidRuns, CmdRuns, Eof
<1>21. CASE CmdWrites
  BY <1>21 DEF CmdWrites, vars, handlerVars, replyVars, cmdVars, TypeOK, FlowInv, MidRuns, CmdRuns, Eof
<1>22. CASE CmdExits
  BY <1>22 DEF CmdExits, vars, handlerVars, replyVars, cmdVars, TypeOK, FlowInv, MidRuns, CmdRuns, Eof
<1>23. CASE ClientReads
  BY <1>23 DEF ClientReads, vars, handlerVars, replyVars, cmdVars, TypeOK, FlowInv, MidRuns, CmdRuns, Eof
<1>24. CASE ClientLeaves
  BY <1>24 DEF ClientLeaves, vars, handlerVars, replyVars, cmdVars, TypeOK, FlowInv, MidRuns, CmdRuns, Eof
<1>25. CASE UNCHANGED vars
  BY <1>25 DEF vars, handlerVars, replyVars, cmdVars, TypeOK, FlowInv, MidRuns, CmdRuns, Eof
<1> QED
  BY <1>1, <1>2, <1>3, <1>4, <1>5, <1>6, <1>7, <1>8, <1>9, <1>10, <1>11, <1>12, <1>13, <1>14, <1>15, <1>16, <1>17, <1>18, <1>19, <1>20, <1>21, <1>22, <1>23, <1>24, <1>25 DEF Next, Handler, Middle

(* Every step keeps what is known of the reply's end.                      *)
LEMMA KeepsEndingInv ==
  ASSUME IInv, [Next]_vars
  PROVE  EndingInv'
<1> USE SizesAssumption DEF IInv
<1>1. CASE Refuse
  BY <1>1 DEF Refuse, Answer, vars, handlerVars, replyVars, cmdVars, TypeOK, FlowInv, EndingInv, MidRuns, CmdRuns, Eof, Complete
<1>2. CASE Accept
  BY <1>2 DEF Accept, vars, handlerVars, replyVars, cmdVars, TypeOK, FlowInv, EndingInv, MidRuns, CmdRuns, Eof, Complete
<1>3. CASE ForkFails
  BY <1>3 DEF ForkFails, Answer, vars, handlerVars, replyVars, cmdVars, TypeOK, FlowInv, EndingInv, MidRuns, CmdRuns, Eof, Complete
<1>4. CASE Fork
  BY <1>4 DEF Fork, vars, handlerVars, replyVars, cmdVars, TypeOK, FlowInv, EndingInv, MidRuns, CmdRuns, Eof, Complete
<1>5. CASE SelectReady
  BY <1>5 DEF SelectReady, vars, handlerVars, replyVars, cmdVars, TypeOK, FlowInv, EndingInv, MidRuns, CmdRuns, Eof, Complete
<1>6. CASE SelectFails
  BY <1>6 DEF SelectFails, Interrupted, TimedOut, vars, handlerVars, replyVars, cmdVars, TypeOK, FlowInv, EndingInv, MidRuns, CmdRuns, Eof, Complete
<1>7. CASE ReadPiece
  BY <1>7 DEF ReadPiece, vars, handlerVars, replyVars, cmdVars, TypeOK, FlowInv, EndingInv, MidRuns, CmdRuns, Eof, Complete
<1>8. CASE ReadEnd
  BY <1>8 DEF ReadEnd, vars, handlerVars, replyVars, cmdVars, TypeOK, FlowInv, EndingInv, MidRuns, CmdRuns, Eof, Complete
<1>9. CASE WritePiece
  BY <1>9 DEF WritePiece, ClientAccepts, vars, handlerVars, replyVars, cmdVars, TypeOK, FlowInv, EndingInv, MidRuns, CmdRuns, Eof, Complete
<1>10. CASE WriteFails
  BY <1>10 DEF WriteFails, vars, handlerVars, replyVars, cmdVars, TypeOK, FlowInv, EndingInv, MidRuns, CmdRuns, Eof, Complete
<1>11. CASE MarkCut
  BY <1>11 DEF MarkCut, Answer, ClientAccepts, vars, handlerVars, replyVars, cmdVars, TypeOK, FlowInv, EndingInv, MidRuns, CmdRuns, Eof, Complete
<1>12. CASE Wait
  BY <1>12 DEF Wait, vars, handlerVars, replyVars, cmdVars, TypeOK, FlowInv, EndingInv, MidRuns, CmdRuns, Eof, Complete
<1>13. CASE Finish
  BY <1>13 DEF Finish, Answer, vars, handlerVars, replyVars, cmdVars, TypeOK, FlowInv, EndingInv, MidRuns, CmdRuns, Eof, Complete
<1>14. CASE Abort
  BY <1>14 DEF Abort, vars, handlerVars, replyVars, cmdVars, TypeOK, FlowInv, EndingInv, MidRuns, CmdRuns, Eof, Complete
<1>15. CASE Close
  BY <1>15 DEF Close, vars, handlerVars, replyVars, cmdVars, TypeOK, FlowInv, EndingInv, MidRuns, CmdRuns, Eof, Complete
<1>16. CASE Expire
  BY <1>16 DEF Expire, vars, handlerVars, replyVars, cmdVars, TypeOK, FlowInv, EndingInv, MidRuns, CmdRuns, Eof, Complete
<1>17. CASE Deliver
  BY <1>17 DEF Deliver, vars, handlerVars, replyVars, cmdVars, TypeOK, FlowInv, EndingInv, MidRuns, CmdRuns, Eof, Complete
<1>18. CASE MidForks
  BY <1>18 DEF MidForks, vars, handlerVars, replyVars, cmdVars, TypeOK, FlowInv, EndingInv, MidRuns, CmdRuns, Eof, Complete
<1>19. CASE MidExits
  BY <1>19 DEF MidExits, vars, handlerVars, replyVars, cmdVars, TypeOK, FlowInv, EndingInv, MidRuns, CmdRuns, Eof, Complete
<1>20. CASE CmdStarts
  BY <1>20 DEF CmdStarts, vars, handlerVars, replyVars, cmdVars, TypeOK, FlowInv, EndingInv, MidRuns, CmdRuns, Eof, Complete
<1>21. CASE CmdWrites
  BY <1>21 DEF CmdWrites, vars, handlerVars, replyVars, cmdVars, TypeOK, FlowInv, EndingInv, MidRuns, CmdRuns, Eof, Complete
<1>22. CASE CmdExits
  BY <1>22 DEF CmdExits, vars, handlerVars, replyVars, cmdVars, TypeOK, FlowInv, EndingInv, MidRuns, CmdRuns, Eof, Complete
<1>23. CASE ClientReads
  BY <1>23 DEF ClientReads, vars, handlerVars, replyVars, cmdVars, TypeOK, FlowInv, EndingInv, MidRuns, CmdRuns, Eof, Complete
<1>24. CASE ClientLeaves
  BY <1>24 DEF ClientLeaves, vars, handlerVars, replyVars, cmdVars, TypeOK, FlowInv, EndingInv, MidRuns, CmdRuns, Eof, Complete
<1>25. CASE UNCHANGED vars
  BY <1>25 DEF vars, handlerVars, replyVars, cmdVars, TypeOK, FlowInv, EndingInv, MidRuns, CmdRuns, Eof, Complete
<1> QED
  BY <1>1, <1>2, <1>3, <1>4, <1>5, <1>6, <1>7, <1>8, <1>9, <1>10, <1>11, <1>12, <1>13, <1>14, <1>15, <1>16, <1>17, <1>18, <1>19, <1>20, <1>21, <1>22, <1>23, <1>24, <1>25 DEF Next, Handler, Middle

(* Every step keeps the handler patient.                                   *)
LEMMA KeepsPatienceInv ==
  ASSUME IInv, [Next]_vars
  PROVE  PatienceInv'
<1> USE SizesAssumption DEF IInv
<1>1. CASE Refuse
  BY <1>1 DEF Refuse, Answer, vars, handlerVars, replyVars, cmdVars, TypeOK, PatienceInv
<1>2. CASE Accept
  BY <1>2 DEF Accept, vars, handlerVars, replyVars, cmdVars, TypeOK, PatienceInv
<1>3. CASE ForkFails
  BY <1>3 DEF ForkFails, Answer, vars, handlerVars, replyVars, cmdVars, TypeOK, PatienceInv
<1>4. CASE Fork
  <2>1. mid = "none" /\ h = "fork" /\ UNCHANGED <<expired, tries, sigchld>>
    BY <1>4 DEF Fork, handlerVars, FlowInv
  <2> QED BY <2>1 DEF PatienceInv
<1>5. CASE SelectReady
  BY <1>5 DEF SelectReady, vars, handlerVars, replyVars, cmdVars, TypeOK, PatienceInv
<1>6. CASE SelectFails
  <2>1. /\ h = "select" /\ UNCHANGED <<expired, mid>>
        /\ h' = "abort" \/ (tries' = tries + 1 /\ h' = h)
    BY <1>6 DEF SelectFails
  <2>2. CASE Interrupted
    <3>1. sigchld /\ ~sigchld' /\ mid \in {"zombie", "reaped"}
      BY <2>2 DEF Interrupted, PatienceInv
    <3> QED BY <2>1, <3>1 DEF PatienceInv
  <2>3. CASE TimedOut
    <3>1. expired /\ expired' /\ sigchld' = sigchld
      BY <2>1, <2>3 DEF TimedOut
    <3> QED BY <2>1, <3>1 DEF PatienceInv
  <2> QED BY <1>6, <2>2, <2>3 DEF SelectFails
<1>7. CASE ReadPiece
  BY <1>7 DEF ReadPiece, vars, handlerVars, replyVars, cmdVars, TypeOK, PatienceInv
<1>8. CASE ReadEnd
  BY <1>8 DEF ReadEnd, vars, handlerVars, replyVars, cmdVars, TypeOK, PatienceInv
<1>9. CASE WritePiece
  BY <1>9 DEF WritePiece, ClientAccepts, vars, handlerVars, replyVars, cmdVars, TypeOK, PatienceInv
<1>10. CASE WriteFails
  BY <1>10 DEF WriteFails, vars, handlerVars, replyVars, cmdVars, TypeOK, PatienceInv
<1>11. CASE MarkCut
  BY <1>11 DEF MarkCut, Answer, ClientAccepts, vars, handlerVars, replyVars, cmdVars, TypeOK, PatienceInv
<1>12. CASE Wait
  BY <1>12 DEF Wait, vars, handlerVars, replyVars, cmdVars, TypeOK, PatienceInv
<1>13. CASE Finish
  BY <1>13 DEF Finish, Answer, vars, handlerVars, replyVars, cmdVars, TypeOK, PatienceInv
<1>14. CASE Abort
  BY <1>14 DEF Abort, vars, handlerVars, replyVars, cmdVars, TypeOK, PatienceInv
<1>15. CASE Close
  BY <1>15 DEF Close, vars, handlerVars, replyVars, cmdVars, TypeOK, PatienceInv
<1>16. CASE Expire
  BY <1>16 DEF Expire, vars, handlerVars, replyVars, cmdVars, TypeOK, PatienceInv
<1>17. CASE Deliver
  BY <1>17 DEF Deliver, vars, handlerVars, replyVars, cmdVars, TypeOK, PatienceInv
<1>18. CASE MidForks
  BY <1>18 DEF MidForks, vars, handlerVars, replyVars, cmdVars, TypeOK, PatienceInv
<1>19. CASE MidExits
  BY <1>19 DEF MidExits, vars, handlerVars, replyVars, cmdVars, TypeOK, PatienceInv
<1>20. CASE CmdStarts
  BY <1>20 DEF CmdStarts, vars, handlerVars, replyVars, cmdVars, TypeOK, PatienceInv
<1>21. CASE CmdWrites
  BY <1>21 DEF CmdWrites, vars, handlerVars, replyVars, cmdVars, TypeOK, PatienceInv
<1>22. CASE CmdExits
  BY <1>22 DEF CmdExits, vars, handlerVars, replyVars, cmdVars, TypeOK, PatienceInv
<1>23. CASE ClientReads
  BY <1>23 DEF ClientReads, vars, handlerVars, replyVars, cmdVars, TypeOK, PatienceInv
<1>24. CASE ClientLeaves
  BY <1>24 DEF ClientLeaves, vars, handlerVars, replyVars, cmdVars, TypeOK, PatienceInv
<1>25. CASE UNCHANGED vars
  BY <1>25 DEF vars, handlerVars, replyVars, cmdVars, TypeOK, PatienceInv
<1> QED
  BY <1>1, <1>2, <1>3, <1>4, <1>5, <1>6, <1>7, <1>8, <1>9, <1>10, <1>11, <1>12, <1>13, <1>14, <1>15, <1>16, <1>17, <1>18, <1>19, <1>20, <1>21, <1>22, <1>23, <1>24, <1>25 DEF Next, Handler, Middle

(* The inductive invariant holds in every state.                           *)
THEOREM Inductive == Spec => []IInv
<1>1. Init => IInv
  BY InitIInv
<1>2. IInv /\ [Next]_vars => IInv'
  BY KeepsTypeOK, KeepsFlowInv, KeepsEndingInv, KeepsPatienceInv DEF IInv
<1> QED
  BY <1>1, <1>2, PTL DEF Spec

(* Variables have their types, and select is tried at most three times.    *)
THEOREM TypeCorrect == Spec => []TypeOK
  BY Inductive, PTL DEF IInv

(* A status line is never mixed with output (lines 666-694).               *)
THEOREM StatusAloneAlways == Spec => []StatusAlone
<1>1. IInv => StatusAlone
  BY DEF IInv, EndingInv, StatusAlone
<1> QED
  BY <1>1, Inductive, PTL

(* Output that ends without the mark is all that the command wrote.        *)
THEOREM WholeOutputAlways == Spec => []WholeOutput
<1>1. IInv => WholeOutput
  BY DEF IInv, TypeOK, FlowInv, EndingInv, WholeOutput, Complete, Eof, CmdRuns
<1> QED
  BY <1>1, Inductive, PTL

(* The wait for the first output is not given up before its 120 s are over,*)
(* although an interrupted select also counts as a try (lines 643-658).    *)
THEOREM NeverGivesUpEarly == Spec => NoEarlyGiveUp
<1>1. IInv /\ [Next]_vars => (h = "select" /\ h' = "abort" => expired)
  <2> SUFFICES ASSUME IInv, [Next]_vars, h = "select", h' = "abort", ~expired
               PROVE  FALSE
      OBVIOUS
  <2>1. CASE SelectFails
    <3>1. tries = 2 /\ (Interrupted \/ TimedOut)
      BY <2>1 DEF SelectFails, IInv, TypeOK
    <3>2. sigchld
      BY <3>1 DEF Interrupted, TimedOut
    <3> QED BY <3>1 DEF IInv, PatienceInv
  <2>2. CASE ~SelectFails
    BY <2>2 DEF Next, Handler, Middle, vars, handlerVars, Refuse, Accept, ForkFails, Fork,
       SelectReady, ReadPiece, ReadEnd, WritePiece, WriteFails, MarkCut, Wait, Finish, Abort,
       Close, Expire, Deliver, MidForks, MidExits, CmdStarts, CmdWrites, CmdExits,
       ClientReads, ClientLeaves
  <2> QED BY <2>1, <2>2
<1> QED BY <1>1, Inductive, PTL DEF Spec, NoEarlyGiveUp

(* Every step of the handler is one that RtReply allows, or hidden from it.*)
LEMMA StepRefines ==
  ASSUME IInv, [Next]_vars
  PROVE  [Reply!Next]_(Reply!vars)
<1> USE DEF IInv, TypeOK, FlowInv, EndingInv
<1>1. CASE Refuse
  BY <1>1 DEF Refuse, Answer, vars, handlerVars, replyVars, cmdVars, Reply!vars, Reply!Next, Reply!Status
<1>2. CASE Accept
  BY <1>2 DEF Accept, vars, handlerVars, replyVars, cmdVars, Reply!vars
<1>3. CASE ForkFails
  BY <1>3 DEF ForkFails, Answer, vars, handlerVars, replyVars, cmdVars, Reply!vars, Reply!Next, Reply!Status
<1>4. CASE Fork
  BY <1>4 DEF Fork, vars, handlerVars, replyVars, cmdVars, Reply!vars
<1>5. CASE SelectReady
  BY <1>5 DEF SelectReady, vars, handlerVars, replyVars, cmdVars, Reply!vars
<1>6. CASE SelectFails
  BY <1>6 DEF SelectFails, Interrupted, TimedOut, vars, handlerVars, replyVars, cmdVars, Reply!vars
<1>7. CASE ReadPiece
  BY <1>7 DEF ReadPiece, vars, handlerVars, replyVars, cmdVars, Reply!vars
<1>8. CASE ReadEnd
  BY <1>8 DEF ReadEnd, vars, handlerVars, replyVars, cmdVars, Reply!vars
<1>9. CASE WritePiece
  BY <1>9 DEF WritePiece, ClientAccepts, vars, handlerVars, replyVars, cmdVars, Reply!vars, Reply!Next, Reply!Output
<1>10. CASE WriteFails
  BY <1>10 DEF WriteFails, vars, handlerVars, replyVars, cmdVars, Reply!vars
<1>11. CASE MarkCut
  BY <1>11 DEF MarkCut, Answer, ClientAccepts, vars, handlerVars, replyVars, cmdVars, Reply!vars, Reply!Next, Reply!Mark
<1>12. CASE Wait
  BY <1>12 DEF Wait, vars, handlerVars, replyVars, cmdVars, Reply!vars
<1>13. CASE Finish
  BY <1>13 DEF Finish, Answer, vars, handlerVars, replyVars, cmdVars, Reply!vars, Reply!Next, Reply!Status
<1>14. CASE Abort
  BY <1>14 DEF Abort, vars, handlerVars, replyVars, cmdVars, Reply!vars
<1>15. CASE Close
  BY <1>15 DEF Close, vars, handlerVars, replyVars, cmdVars, Reply!vars, Reply!Next, Reply!Close
<1>16. CASE Expire
  BY <1>16 DEF Expire, vars, handlerVars, replyVars, cmdVars, Reply!vars
<1>17. CASE Deliver
  BY <1>17 DEF Deliver, vars, handlerVars, replyVars, cmdVars, Reply!vars
<1>18. CASE MidForks
  BY <1>18 DEF MidForks, vars, handlerVars, replyVars, cmdVars, Reply!vars
<1>19. CASE MidExits
  BY <1>19 DEF MidExits, vars, handlerVars, replyVars, cmdVars, Reply!vars
<1>20. CASE CmdStarts
  BY <1>20 DEF CmdStarts, vars, handlerVars, replyVars, cmdVars, Reply!vars
<1>21. CASE CmdWrites
  BY <1>21 DEF CmdWrites, vars, handlerVars, replyVars, cmdVars, Reply!vars
<1>22. CASE CmdExits
  BY <1>22 DEF CmdExits, vars, handlerVars, replyVars, cmdVars, Reply!vars
<1>23. CASE ClientReads
  BY <1>23 DEF ClientReads, vars, handlerVars, replyVars, cmdVars, Reply!vars
<1>24. CASE ClientLeaves
  BY <1>24 DEF ClientLeaves, vars, handlerVars, replyVars, cmdVars, Reply!vars
<1>25. CASE UNCHANGED vars
  BY <1>25 DEF vars, replyVars, Reply!vars
<1> QED
  BY <1>1, <1>2, <1>3, <1>4, <1>5, <1>6, <1>7, <1>8, <1>9, <1>10, <1>11, <1>12, <1>13, <1>14, <1>15, <1>16, <1>17, <1>18, <1>19, <1>20, <1>21, <1>22, <1>23, <1>24, <1>25 DEF Next, Handler, Middle

(* The handler implements the promise of RtReply.                          *)
THEOREM Implements == Spec => KeepsReply
<1>1. Init => Reply!Init
  BY DEF Init, Reply!Init
<1>2. IInv /\ [Next]_vars => [Reply!Next]_(Reply!vars)
  BY StepRefines
<1> QED
  BY <1>1, <1>2, Inductive, PTL DEF Spec, Reply!Spec, KeepsReply
=============================================================================
