---------------------------- MODULE RtServerProofs ----------------------------
(***************************************************************************)
(* What libsu's server guarantees for any number of clients and users: it  *)
(* serves only trusted users, in the order in which they came, keeps no    *)
(* connection open that it has done with, never loses the exit status it   *)
(* waits for to its own SIGCHLD handler, and exits only when told to.      *)
(***************************************************************************)
EXTENDS RtServer, TLAPS

(* The inductive invariant holds initially.                                *)
LEMMA InitIInv == Init => IInv
<1> SUFFICES ASSUME Init PROVE IInv
  OBVIOUS
<1> USE NamesAssumption, BacklogAssumption
<1>1. TypeOK
  <2>1. /\ blocked \in BOOLEAN /\ chld \in BOOLEAN
        /\ verdict \in BOOLEAN /\ deleted \in BOOLEAN
    BY Zenon DEF Init
  <2> QED
    BY <2>1 DEF Init, TypeOK, Places
<1>2. TrustInv
  BY DEF Init, TrustInv, Children
<1>3. ServeInv
  BY DEF Init, ServeInv, NoLeakedConnection, Examining
<1>4. ChildInv
  BY DEF Init, ChildInv, StatusNotStolen, Children
<1>5. LineInv
  BY DEF Init, LineInv, Serving, Children
<1>6. ExitOnlyWhenTold
  BY DEF Init, ExitOnlyWhenTold, Serving
<1> QED
  BY <1>1, <1>2, <1>3, <1>4, <1>5, <1>6 DEF IInv

(* Every step keeps the types.                                             *)
LEMMA KeepsTypeOK ==
  ASSUME IInv, [Next]_vars
  PROVE  TypeOK'
<1> USE NamesAssumption, BacklogAssumption DEF IInv
<1>1. CASE SelectClient
  BY <1>1 DEF SelectClient, vars, serverVars, signalVars, childVars, clientVars, watchVars, TypeOK, Places, Requests, Children, Users, Examining, ServeInv
<1>2. CASE SelectDeletion
  BY <1>2 DEF SelectDeletion, vars, serverVars, signalVars, childVars, clientVars, watchVars, TypeOK, Places, Requests, Children, Users, Examining, ServeInv
<1>3. CASE Accept
  BY <1>3 DEF Accept, Trusted, vars, serverVars, signalVars, childVars, clientVars, watchVars, TypeOK, Places, Requests, Children, Users, Examining, ServeInv
<1>4. CASE AcceptUnknown
  BY <1>4 DEF AcceptUnknown, vars, serverVars, signalVars, childVars, clientVars, watchVars, TypeOK, Places, Requests, Children, Users, Examining, ServeInv
<1>5. CASE NoChecker
  BY <1>5 DEF NoChecker, HangUp, vars, serverVars, signalVars, childVars, clientVars, watchVars, TypeOK, Places, Requests, Children, Users, Examining, ServeInv
<1>6. CASE Check
  <2>1. verdict' \in BOOLEAN
    BY <1>6, Zenon DEF Check, StartChecker, childVars, TypeOK
  <2>2. blocked' \in BOOLEAN
    BY <1>6, Zenon DEF Check
  <2>3. /\ place' \in Places
        /\ proc' \in [Children -> {"none", "running", "zombie", "reaped"}]
        /\ UNCHANGED <<cli, users, fds, chld, clientVars, watchVars>>
    BY <1>6 DEF Check, StartChecker, childVars, TypeOK, Places, Children
  <2> QED
    BY <2>1, <2>2, <2>3 DEF clientVars, watchVars, TypeOK
<1>7. CASE Checked
  BY <1>7 DEF Checked, Pass, vars, serverVars, signalVars, childVars, clientVars, watchVars, TypeOK, Places, Requests, Children, Users, Examining, ServeInv
<1>8. CASE Check2
  <2>1. verdict' \in BOOLEAN
    BY <1>8, Zenon DEF Check2, StartChecker, childVars, TypeOK
  <2>2. blocked' \in BOOLEAN
    BY <1>8, Zenon DEF Check2
  <2>3. /\ place' \in Places
        /\ proc' \in [Children -> {"none", "running", "zombie", "reaped"}]
        /\ UNCHANGED <<cli, users, fds, chld, clientVars, watchVars>>
    BY <1>8 DEF Check2, StartChecker, childVars, TypeOK, Places, Children
  <2> QED
    BY <2>1, <2>2, <2>3 DEF clientVars, watchVars, TypeOK
<1>9. CASE Check2Fails
  BY <1>9 DEF Check2Fails, HangUp, vars, serverVars, signalVars, childVars, clientVars, watchVars, TypeOK, Places, Requests, Children, Users, Examining, ServeInv
<1>10. CASE Checked2
  BY <1>10 DEF Checked2, vars, serverVars, signalVars, childVars, clientVars, watchVars, TypeOK, Places, Requests, Children, Users, Examining, ServeInv
<1>11. CASE Reap2
  BY <1>11 DEF Reap2, Pass, HangUp, vars, serverVars, signalVars, childVars, clientVars, watchVars, TypeOK, Places, Requests, Children, Users, Examining, ServeInv
<1>12. CASE ReadNothing
  BY <1>12 DEF ReadNothing, HangUp, vars, serverVars, signalVars, childVars, clientVars, watchVars, TypeOK, Places, Requests, Children, Users, Examining, ServeInv
<1>13. CASE AnswerAtOnce
  BY <1>13 DEF AnswerAtOnce, HangUp, vars, serverVars, signalVars, childVars, clientVars, watchVars, TypeOK, Places, Requests, Children, Users, Examining, ServeInv
<1>14. CASE Terminate
  BY <1>14 DEF Terminate, Exit, vars, serverVars, signalVars, childVars, clientVars, watchVars, TypeOK, Places, Requests, Children, Users, Examining, ServeInv
<1>15. CASE ForkHandler
  BY <1>15 DEF ForkHandler, vars, serverVars, signalVars, childVars, clientVars, watchVars, TypeOK, Places, Requests, Children, Users, Examining, ServeInv
<1>16. CASE ForkFails
  BY <1>16 DEF ForkFails, HangUp, vars, serverVars, signalVars, childVars, clientVars, watchVars, TypeOK, Places, Requests, Children, Users, Examining, ServeInv
<1>17. CASE SleepOver
  BY <1>17 DEF SleepOver, vars, serverVars, signalVars, childVars, clientVars, watchVars, TypeOK, Places, Requests, Children, Users, Examining, ServeInv
<1>18. CASE StatGone
  BY <1>18 DEF StatGone, vars, serverVars, signalVars, childVars, clientVars, watchVars, TypeOK, Places, Requests, Children, Users, Examining, ServeInv
<1>19. CASE StatThere
  BY <1>19 DEF StatThere, vars, serverVars, signalVars, childVars, clientVars, watchVars, TypeOK, Places, Requests, Children, Users, Examining, ServeInv
<1>20. CASE DrainDone
  BY <1>20 DEF DrainDone, Exit, vars, serverVars, signalVars, childVars, clientVars, watchVars, TypeOK, Places, Requests, Children, Users, Examining, ServeInv
<1>21. CASE Sigchld
  BY <1>21 DEF Sigchld, ReapOne, vars, serverVars, signalVars, childVars, clientVars, watchVars, TypeOK, Places, Requests, Children, Users, Examining, ServeInv
<1>22. CASE SigchldInSleep
  BY <1>22 DEF SigchldInSleep, ReapOne, vars, serverVars, signalVars, childVars, clientVars, watchVars, TypeOK, Places, Requests, Children, Users, Examining, ServeInv
<1>23. CASE SigchldInDrain
  <2>1. chld' \in BOOLEAN
    BY <1>23, Zenon DEF SigchldInDrain
  <2>2. proc' \in [Children -> {"none", "running", "zombie", "reaped"}]
    BY <1>23 DEF SigchldInDrain, ReapOne, TypeOK
  <2>3. /\ link' \in [Clients -> {"none", "queued", "accepted", "closed"}]
        /\ queue' = <<>> /\ fds' = {} /\ cli' = None /\ place' = "exited"
        /\ UNCHANGED <<users, blocked, verdict, msg, watchVars>>
    BY <1>23 DEF SigchldInDrain, Exit, TypeOK
  <2> QED
    BY <2>1, <2>2, <2>3 DEF watchVars, TypeOK, Places
<1>24. CASE Delete
  BY <1>24 DEF Delete, vars, serverVars, signalVars, childVars, clientVars, watchVars, TypeOK, Places, Requests, Children, Users, Examining, ServeInv
<1>25. CASE Remove
  BY <1>25 DEF Remove, vars, serverVars, signalVars, childVars, clientVars, watchVars, TypeOK, Places, Requests, Children, Users, Examining, ServeInv
<1>26. ASSUME NEW k \in Children, ChildExits(k) PROVE TypeOK'
  BY <1>26 DEF ChildExits, vars, serverVars, signalVars, childVars, clientVars, watchVars, TypeOK, Places, Requests, Children, Users, Examining, ServeInv
<1>27. ASSUME NEW k \in Children, DrainOne(k) PROVE TypeOK'
  BY <1>27 DEF DrainOne, vars, serverVars, signalVars, childVars, clientVars, watchVars, TypeOK, Places, Requests, Children, Users, Examining, ServeInv
<1>28. ASSUME NEW c \in Clients, Connect(c) PROVE TypeOK'
  BY <1>28 DEF Connect, vars, serverVars, signalVars, childVars, clientVars, watchVars, TypeOK, Places, Requests, Children, Users, Examining, ServeInv
<1>29. ASSUME NEW c \in Clients, Send(c) PROVE TypeOK'
  BY <1>29 DEF Send, vars, serverVars, signalVars, childVars, clientVars, watchVars, TypeOK, Places, Requests, Children, Users, Examining, ServeInv
<1>30. CASE UNCHANGED vars
  BY <1>30 DEF vars, serverVars, signalVars, childVars, clientVars, watchVars, TypeOK, Places, Requests, Children, Users, Examining, ServeInv
<1> QED
  BY <1>1, <1>2, <1>3, <1>4, <1>5, <1>6, <1>7, <1>8, <1>9, <1>10, <1>11, <1>12, <1>13, <1>14, <1>15, <1>16, <1>17, <1>18, <1>19, <1>20, <1>21, <1>22, <1>23, <1>24, <1>25, <1>26, <1>27, <1>28, <1>29, <1>30
  DEF Next, Server, Signals

(* Every step keeps the list of trusted users and the handlers honest.     *)
LEMMA KeepsTrustInv ==
  ASSUME IInv, [Next]_vars
  PROVE  TrustInv'
<1> USE NamesAssumption, BacklogAssumption DEF IInv
<1>1. CASE SelectClient
  BY <1>1 DEF SelectClient, vars, serverVars, signalVars, childVars, clientVars, watchVars, TypeOK, TrustInv, ServeInv, CheckedUser, Children, Examining
<1>2. CASE SelectDeletion
  BY <1>2 DEF SelectDeletion, vars, serverVars, signalVars, childVars, clientVars, watchVars, TypeOK, TrustInv, ServeInv, CheckedUser, Children, Examining
<1>3. CASE Accept
  BY <1>3 DEF Accept, Trusted, vars, serverVars, signalVars, childVars, clientVars, watchVars, TypeOK, TrustInv, ServeInv, CheckedUser, Children, Examining
<1>4. CASE AcceptUnknown
  BY <1>4 DEF AcceptUnknown, vars, serverVars, signalVars, childVars, clientVars, watchVars, TypeOK, TrustInv, ServeInv, CheckedUser, Children, Examining
<1>5. CASE NoChecker
  BY <1>5 DEF NoChecker, HangUp, vars, serverVars, signalVars, childVars, clientVars, watchVars, TypeOK, TrustInv, ServeInv, CheckedUser, Children, Examining
<1>6. CASE Check
  BY <1>6 DEF Check, StartChecker, vars, serverVars, signalVars, childVars, clientVars, watchVars, TypeOK, TrustInv, ServeInv, CheckedUser, Children, Examining
<1>7. CASE Checked
  BY <1>7 DEF Checked, Pass, vars, serverVars, signalVars, childVars, clientVars, watchVars, TypeOK, TrustInv, ServeInv, CheckedUser, Children, Examining
<1>8. CASE Check2
  BY <1>8 DEF Check2, StartChecker, vars, serverVars, signalVars, childVars, clientVars, watchVars, TypeOK, TrustInv, ServeInv, CheckedUser, Children, Examining
<1>9. CASE Check2Fails
  BY <1>9 DEF Check2Fails, HangUp, vars, serverVars, signalVars, childVars, clientVars, watchVars, TypeOK, TrustInv, ServeInv, CheckedUser, Children, Examining
<1>10. CASE Checked2
  BY <1>10 DEF Checked2, vars, serverVars, signalVars, childVars, clientVars, watchVars, TypeOK, TrustInv, ServeInv, CheckedUser, Children, Examining
<1>11. CASE Reap2
  BY <1>11 DEF Reap2, Pass, HangUp, vars, serverVars, signalVars, childVars, clientVars, watchVars, TypeOK, TrustInv, ServeInv, CheckedUser, Children, Examining
<1>12. CASE ReadNothing
  BY <1>12 DEF ReadNothing, HangUp, vars, serverVars, signalVars, childVars, clientVars, watchVars, TypeOK, TrustInv, ServeInv, CheckedUser, Children, Examining
<1>13. CASE AnswerAtOnce
  BY <1>13 DEF AnswerAtOnce, HangUp, vars, serverVars, signalVars, childVars, clientVars, watchVars, TypeOK, TrustInv, ServeInv, CheckedUser, Children, Examining
<1>14. CASE Terminate
  BY <1>14 DEF Terminate, Exit, vars, serverVars, signalVars, childVars, clientVars, watchVars, TypeOK, TrustInv, ServeInv, CheckedUser, Children, Examining
<1>15. CASE ForkHandler
  BY <1>15 DEF ForkHandler, vars, serverVars, signalVars, childVars, clientVars, watchVars, TypeOK, TrustInv, ServeInv, CheckedUser, Children, Examining
<1>16. CASE ForkFails
  BY <1>16 DEF ForkFails, HangUp, vars, serverVars, signalVars, childVars, clientVars, watchVars, TypeOK, TrustInv, ServeInv, CheckedUser, Children, Examining
<1>17. CASE SleepOver
  BY <1>17 DEF SleepOver, vars, serverVars, signalVars, childVars, clientVars, watchVars, TypeOK, TrustInv, ServeInv, CheckedUser, Children, Examining
<1>18. CASE StatGone
  BY <1>18 DEF StatGone, vars, serverVars, signalVars, childVars, clientVars, watchVars, TypeOK, TrustInv, ServeInv, CheckedUser, Children, Examining
<1>19. CASE StatThere
  BY <1>19 DEF StatThere, vars, serverVars, signalVars, childVars, clientVars, watchVars, TypeOK, TrustInv, ServeInv, CheckedUser, Children, Examining
<1>20. CASE DrainDone
  BY <1>20 DEF DrainDone, Exit, vars, serverVars, signalVars, childVars, clientVars, watchVars, TypeOK, TrustInv, ServeInv, CheckedUser, Children, Examining
<1>21. CASE Sigchld
  BY <1>21 DEF Sigchld, ReapOne, vars, serverVars, signalVars, childVars, clientVars, watchVars, TypeOK, TrustInv, ServeInv, CheckedUser, Children, Examining
<1>22. CASE SigchldInSleep
  BY <1>22 DEF SigchldInSleep, ReapOne, vars, serverVars, signalVars, childVars, clientVars, watchVars, TypeOK, TrustInv, ServeInv, CheckedUser, Children, Examining
<1>23. CASE SigchldInDrain
  BY <1>23 DEF SigchldInDrain, ReapOne, Exit, vars, serverVars, signalVars, childVars, clientVars, watchVars, TypeOK, TrustInv, ServeInv, CheckedUser, Children, Examining
<1>24. CASE Delete
  BY <1>24 DEF Delete, vars, serverVars, signalVars, childVars, clientVars, watchVars, TypeOK, TrustInv, ServeInv, CheckedUser, Children, Examining
<1>25. CASE Remove
  BY <1>25 DEF Remove, vars, serverVars, signalVars, childVars, clientVars, watchVars, TypeOK, TrustInv, ServeInv, CheckedUser, Children, Examining
<1>26. ASSUME NEW k \in Children, ChildExits(k) PROVE TrustInv'
  BY <1>26 DEF ChildExits, vars, serverVars, signalVars, childVars, clientVars, watchVars, TypeOK, TrustInv, ServeInv, CheckedUser, Children, Examining
<1>27. ASSUME NEW k \in Children, DrainOne(k) PROVE TrustInv'
  BY <1>27 DEF DrainOne, vars, serverVars, signalVars, childVars, clientVars, watchVars, TypeOK, TrustInv, ServeInv, CheckedUser, Children, Examining
<1>28. ASSUME NEW c \in Clients, Connect(c) PROVE TrustInv'
  BY <1>28 DEF Connect, vars, serverVars, signalVars, childVars, clientVars, watchVars, TypeOK, TrustInv, ServeInv, CheckedUser, Children, Examining
<1>29. ASSUME NEW c \in Clients, Send(c) PROVE TrustInv'
  BY <1>29 DEF Send, vars, serverVars, signalVars, childVars, clientVars, watchVars, TypeOK, TrustInv, ServeInv, CheckedUser, Children, Examining
<1>30. CASE UNCHANGED vars
  BY <1>30 DEF vars, serverVars, signalVars, childVars, clientVars, watchVars, TypeOK, TrustInv, ServeInv, CheckedUser, Children, Examining
<1> QED
  BY <1>1, <1>2, <1>3, <1>4, <1>5, <1>6, <1>7, <1>8, <1>9, <1>10, <1>11, <1>12, <1>13, <1>14, <1>15, <1>16, <1>17, <1>18, <1>19, <1>20, <1>21, <1>22, <1>23, <1>24, <1>25, <1>26, <1>27, <1>28, <1>29, <1>30
  DEF Next, Server, Signals

(* Every step keeps the account of the connections that are open.          *)
LEMMA KeepsServeInv ==
  ASSUME IInv, [Next]_vars
  PROVE  ServeInv'
<1> USE NamesAssumption, BacklogAssumption DEF IInv
<1>1. CASE SelectClient
  BY <1>1 DEF SelectClient, vars, serverVars, signalVars, childVars, clientVars, watchVars, TypeOK, ServeInv, NoLeakedConnection, Examining, Children
<1>2. CASE SelectDeletion
  BY <1>2 DEF SelectDeletion, vars, serverVars, signalVars, childVars, clientVars, watchVars, TypeOK, ServeInv, NoLeakedConnection, Examining, Children
<1>3. CASE Accept
  BY <1>3 DEF Accept, Trusted, vars, serverVars, signalVars, childVars, clientVars, watchVars, TypeOK, ServeInv, NoLeakedConnection, Examining, Children
<1>4. CASE AcceptUnknown
  BY <1>4 DEF AcceptUnknown, vars, serverVars, signalVars, childVars, clientVars, watchVars, TypeOK, ServeInv, NoLeakedConnection, Examining, Children
<1>5. CASE NoChecker
  BY <1>5 DEF NoChecker, HangUp, vars, serverVars, signalVars, childVars, clientVars, watchVars, TypeOK, ServeInv, NoLeakedConnection, Examining, Children
<1>6. CASE Check
  BY <1>6 DEF Check, StartChecker, vars, serverVars, signalVars, childVars, clientVars, watchVars, TypeOK, ServeInv, NoLeakedConnection, Examining, Children
<1>7. CASE Checked
  BY <1>7 DEF Checked, Pass, vars, serverVars, signalVars, childVars, clientVars, watchVars, TypeOK, ServeInv, NoLeakedConnection, Examining, Children
<1>8. CASE Check2
  BY <1>8 DEF Check2, StartChecker, vars, serverVars, signalVars, childVars, clientVars, watchVars, TypeOK, ServeInv, NoLeakedConnection, Examining, Children
<1>9. CASE Check2Fails
  BY <1>9 DEF Check2Fails, HangUp, vars, serverVars, signalVars, childVars, clientVars, watchVars, TypeOK, ServeInv, NoLeakedConnection, Examining, Children
<1>10. CASE Checked2
  BY <1>10 DEF Checked2, vars, serverVars, signalVars, childVars, clientVars, watchVars, TypeOK, ServeInv, NoLeakedConnection, Examining, Children
<1>11. CASE Reap2
  BY <1>11 DEF Reap2, Pass, HangUp, vars, serverVars, signalVars, childVars, clientVars, watchVars, TypeOK, ServeInv, NoLeakedConnection, Examining, Children
<1>12. CASE ReadNothing
  BY <1>12 DEF ReadNothing, HangUp, vars, serverVars, signalVars, childVars, clientVars, watchVars, TypeOK, ServeInv, NoLeakedConnection, Examining, Children
<1>13. CASE AnswerAtOnce
  BY <1>13 DEF AnswerAtOnce, HangUp, vars, serverVars, signalVars, childVars, clientVars, watchVars, TypeOK, ServeInv, NoLeakedConnection, Examining, Children
<1>14. CASE Terminate
  BY <1>14 DEF Terminate, Exit, vars, serverVars, signalVars, childVars, clientVars, watchVars, TypeOK, ServeInv, NoLeakedConnection, Examining, Children
<1>15. CASE ForkHandler
  BY <1>15 DEF ForkHandler, vars, serverVars, signalVars, childVars, clientVars, watchVars, TypeOK, ServeInv, NoLeakedConnection, Examining, Children
<1>16. CASE ForkFails
  BY <1>16 DEF ForkFails, HangUp, vars, serverVars, signalVars, childVars, clientVars, watchVars, TypeOK, ServeInv, NoLeakedConnection, Examining, Children
<1>17. CASE SleepOver
  BY <1>17 DEF SleepOver, vars, serverVars, signalVars, childVars, clientVars, watchVars, TypeOK, ServeInv, NoLeakedConnection, Examining, Children
<1>18. CASE StatGone
  BY <1>18 DEF StatGone, vars, serverVars, signalVars, childVars, clientVars, watchVars, TypeOK, ServeInv, NoLeakedConnection, Examining, Children
<1>19. CASE StatThere
  BY <1>19 DEF StatThere, vars, serverVars, signalVars, childVars, clientVars, watchVars, TypeOK, ServeInv, NoLeakedConnection, Examining, Children
<1>20. CASE DrainDone
  BY <1>20 DEF DrainDone, Exit, vars, serverVars, signalVars, childVars, clientVars, watchVars, TypeOK, ServeInv, NoLeakedConnection, Examining, Children
<1>21. CASE Sigchld
  BY <1>21 DEF Sigchld, ReapOne, vars, serverVars, signalVars, childVars, clientVars, watchVars, TypeOK, ServeInv, NoLeakedConnection, Examining, Children
<1>22. CASE SigchldInSleep
  BY <1>22 DEF SigchldInSleep, ReapOne, vars, serverVars, signalVars, childVars, clientVars, watchVars, TypeOK, ServeInv, NoLeakedConnection, Examining, Children
<1>23. CASE SigchldInDrain
  BY <1>23 DEF SigchldInDrain, ReapOne, Exit, vars, serverVars, signalVars, childVars, clientVars, watchVars, TypeOK, ServeInv, NoLeakedConnection, Examining, Children
<1>24. CASE Delete
  BY <1>24 DEF Delete, vars, serverVars, signalVars, childVars, clientVars, watchVars, TypeOK, ServeInv, NoLeakedConnection, Examining, Children
<1>25. CASE Remove
  BY <1>25 DEF Remove, vars, serverVars, signalVars, childVars, clientVars, watchVars, TypeOK, ServeInv, NoLeakedConnection, Examining, Children
<1>26. ASSUME NEW k \in Children, ChildExits(k) PROVE ServeInv'
  BY <1>26 DEF ChildExits, vars, serverVars, signalVars, childVars, clientVars, watchVars, TypeOK, ServeInv, NoLeakedConnection, Examining, Children
<1>27. ASSUME NEW k \in Children, DrainOne(k) PROVE ServeInv'
  BY <1>27 DEF DrainOne, vars, serverVars, signalVars, childVars, clientVars, watchVars, TypeOK, ServeInv, NoLeakedConnection, Examining, Children
<1>28. ASSUME NEW c \in Clients, Connect(c) PROVE ServeInv'
  BY <1>28 DEF Connect, vars, serverVars, signalVars, childVars, clientVars, watchVars, TypeOK, ServeInv, NoLeakedConnection, Examining, Children
<1>29. ASSUME NEW c \in Clients, Send(c) PROVE ServeInv'
  BY <1>29 DEF Send, vars, serverVars, signalVars, childVars, clientVars, watchVars, TypeOK, ServeInv, NoLeakedConnection, Examining, Children
<1>30. CASE UNCHANGED vars
  BY <1>30 DEF vars, serverVars, signalVars, childVars, clientVars, watchVars, TypeOK, ServeInv, NoLeakedConnection, Examining, Children
<1> QED
  BY <1>1, <1>2, <1>3, <1>4, <1>5, <1>6, <1>7, <1>8, <1>9, <1>10, <1>11, <1>12, <1>13, <1>14, <1>15, <1>16, <1>17, <1>18, <1>19, <1>20, <1>21, <1>22, <1>23, <1>24, <1>25, <1>26, <1>27, <1>28, <1>29, <1>30
  DEF Next, Server, Signals

(* Every step keeps the checker and its exit status where they belong.     *)
LEMMA KeepsChildInv ==
  ASSUME IInv, [Next]_vars
  PROVE  ChildInv'
<1> USE NamesAssumption, BacklogAssumption DEF IInv
<1>1. CASE SelectClient
  BY <1>1 DEF SelectClient, vars, serverVars, signalVars, childVars, clientVars, watchVars, TypeOK, ServeInv, ChildInv, StatusNotStolen, Examining, Children
<1>2. CASE SelectDeletion
  BY <1>2 DEF SelectDeletion, vars, serverVars, signalVars, childVars, clientVars, watchVars, TypeOK, ServeInv, ChildInv, StatusNotStolen, Examining, Children
<1>3. CASE Accept
  BY <1>3 DEF Accept, Trusted, vars, serverVars, signalVars, childVars, clientVars, watchVars, TypeOK, ServeInv, ChildInv, StatusNotStolen, Examining, Children
<1>4. CASE AcceptUnknown
  BY <1>4 DEF AcceptUnknown, vars, serverVars, signalVars, childVars, clientVars, watchVars, TypeOK, ServeInv, ChildInv, StatusNotStolen, Examining, Children
<1>5. CASE NoChecker
  BY <1>5 DEF NoChecker, HangUp, vars, serverVars, signalVars, childVars, clientVars, watchVars, TypeOK, ServeInv, ChildInv, StatusNotStolen, Examining, Children
<1>6. CASE Check
  BY <1>6 DEF Check, StartChecker, vars, serverVars, signalVars, childVars, clientVars, watchVars, TypeOK, ServeInv, ChildInv, StatusNotStolen, Examining, Children
<1>7. CASE Checked
  BY <1>7 DEF Checked, Pass, vars, serverVars, signalVars, childVars, clientVars, watchVars, TypeOK, ServeInv, ChildInv, StatusNotStolen, Examining, Children
<1>8. CASE Check2
  BY <1>8 DEF Check2, StartChecker, vars, serverVars, signalVars, childVars, clientVars, watchVars, TypeOK, ServeInv, ChildInv, StatusNotStolen, Examining, Children
<1>9. CASE Check2Fails
  BY <1>9 DEF Check2Fails, HangUp, vars, serverVars, signalVars, childVars, clientVars, watchVars, TypeOK, ServeInv, ChildInv, StatusNotStolen, Examining, Children
<1>10. CASE Checked2
  BY <1>10 DEF Checked2, vars, serverVars, signalVars, childVars, clientVars, watchVars, TypeOK, ServeInv, ChildInv, StatusNotStolen, Examining, Children
<1>11. CASE Reap2
  BY <1>11 DEF Reap2, Pass, HangUp, vars, serverVars, signalVars, childVars, clientVars, watchVars, TypeOK, ServeInv, ChildInv, StatusNotStolen, Examining, Children
<1>12. CASE ReadNothing
  BY <1>12 DEF ReadNothing, HangUp, vars, serverVars, signalVars, childVars, clientVars, watchVars, TypeOK, ServeInv, ChildInv, StatusNotStolen, Examining, Children
<1>13. CASE AnswerAtOnce
  BY <1>13 DEF AnswerAtOnce, HangUp, vars, serverVars, signalVars, childVars, clientVars, watchVars, TypeOK, ServeInv, ChildInv, StatusNotStolen, Examining, Children
<1>14. CASE Terminate
  BY <1>14 DEF Terminate, Exit, vars, serverVars, signalVars, childVars, clientVars, watchVars, TypeOK, ServeInv, ChildInv, StatusNotStolen, Examining, Children
<1>15. CASE ForkHandler
  BY <1>15 DEF ForkHandler, vars, serverVars, signalVars, childVars, clientVars, watchVars, TypeOK, ServeInv, ChildInv, StatusNotStolen, Examining, Children
<1>16. CASE ForkFails
  BY <1>16 DEF ForkFails, HangUp, vars, serverVars, signalVars, childVars, clientVars, watchVars, TypeOK, ServeInv, ChildInv, StatusNotStolen, Examining, Children
<1>17. CASE SleepOver
  BY <1>17 DEF SleepOver, vars, serverVars, signalVars, childVars, clientVars, watchVars, TypeOK, ServeInv, ChildInv, StatusNotStolen, Examining, Children
<1>18. CASE StatGone
  BY <1>18 DEF StatGone, vars, serverVars, signalVars, childVars, clientVars, watchVars, TypeOK, ServeInv, ChildInv, StatusNotStolen, Examining, Children
<1>19. CASE StatThere
  BY <1>19 DEF StatThere, vars, serverVars, signalVars, childVars, clientVars, watchVars, TypeOK, ServeInv, ChildInv, StatusNotStolen, Examining, Children
<1>20. CASE DrainDone
  BY <1>20 DEF DrainDone, Exit, vars, serverVars, signalVars, childVars, clientVars, watchVars, TypeOK, ServeInv, ChildInv, StatusNotStolen, Examining, Children
<1>21. CASE Sigchld
  BY <1>21 DEF Sigchld, ReapOne, vars, serverVars, signalVars, childVars, clientVars, watchVars, TypeOK, ServeInv, ChildInv, StatusNotStolen, Examining, Children
<1>22. CASE SigchldInSleep
  BY <1>22 DEF SigchldInSleep, ReapOne, vars, serverVars, signalVars, childVars, clientVars, watchVars, TypeOK, ServeInv, ChildInv, StatusNotStolen, Examining, Children
<1>23. CASE SigchldInDrain
  BY <1>23 DEF SigchldInDrain, ReapOne, Exit, vars, serverVars, signalVars, childVars, clientVars, watchVars, TypeOK, ServeInv, ChildInv, StatusNotStolen, Examining, Children
<1>24. CASE Delete
  BY <1>24 DEF Delete, vars, serverVars, signalVars, childVars, clientVars, watchVars, TypeOK, ServeInv, ChildInv, StatusNotStolen, Examining, Children
<1>25. CASE Remove
  BY <1>25 DEF Remove, vars, serverVars, signalVars, childVars, clientVars, watchVars, TypeOK, ServeInv, ChildInv, StatusNotStolen, Examining, Children
<1>26. ASSUME NEW k \in Children, ChildExits(k) PROVE ChildInv'
  BY <1>26 DEF ChildExits, vars, serverVars, signalVars, childVars, clientVars, watchVars, TypeOK, ServeInv, ChildInv, StatusNotStolen, Examining, Children
<1>27. ASSUME NEW k \in Children, DrainOne(k) PROVE ChildInv'
  BY <1>27 DEF DrainOne, vars, serverVars, signalVars, childVars, clientVars, watchVars, TypeOK, ServeInv, ChildInv, StatusNotStolen, Examining, Children
<1>28. ASSUME NEW c \in Clients, Connect(c) PROVE ChildInv'
  BY <1>28 DEF Connect, vars, serverVars, signalVars, childVars, clientVars, watchVars, TypeOK, ServeInv, ChildInv, StatusNotStolen, Examining, Children
<1>29. ASSUME NEW c \in Clients, Send(c) PROVE ChildInv'
  BY <1>29 DEF Send, vars, serverVars, signalVars, childVars, clientVars, watchVars, TypeOK, ServeInv, ChildInv, StatusNotStolen, Examining, Children
<1>30. CASE UNCHANGED vars
  BY <1>30 DEF vars, serverVars, signalVars, childVars, clientVars, watchVars, TypeOK, ServeInv, ChildInv, StatusNotStolen, Examining, Children
<1> QED
  BY <1>1, <1>2, <1>3, <1>4, <1>5, <1>6, <1>7, <1>8, <1>9, <1>10, <1>11, <1>12, <1>13, <1>14, <1>15, <1>16, <1>17, <1>18, <1>19, <1>20, <1>21, <1>22, <1>23, <1>24, <1>25, <1>26, <1>27, <1>28, <1>29, <1>30
  DEF Next, Server, Signals

(* Every step keeps the reason for which the server exits.                 *)
LEMMA KeepsExitOnlyWhenTold ==
  ASSUME IInv, [Next]_vars
  PROVE  ExitOnlyWhenTold'
<1> USE NamesAssumption, BacklogAssumption DEF IInv
<1>1. CASE SelectClient
  BY <1>1 DEF SelectClient, vars, serverVars, signalVars, childVars, clientVars, watchVars, TypeOK, TrustInv, ServeInv, ExitOnlyWhenTold, Serving, CheckedUser, Examining
<1>2. CASE SelectDeletion
  BY <1>2 DEF SelectDeletion, vars, serverVars, signalVars, childVars, clientVars, watchVars, TypeOK, TrustInv, ServeInv, ExitOnlyWhenTold, Serving, CheckedUser, Examining
<1>3. CASE Accept
  BY <1>3 DEF Accept, Trusted, vars, serverVars, signalVars, childVars, clientVars, watchVars, TypeOK, TrustInv, ServeInv, ExitOnlyWhenTold, Serving, CheckedUser, Examining
<1>4. CASE AcceptUnknown
  BY <1>4 DEF AcceptUnknown, vars, serverVars, signalVars, childVars, clientVars, watchVars, TypeOK, TrustInv, ServeInv, ExitOnlyWhenTold, Serving, CheckedUser, Examining
<1>5. CASE NoChecker
  BY <1>5 DEF NoChecker, HangUp, vars, serverVars, signalVars, childVars, clientVars, watchVars, TypeOK, TrustInv, ServeInv, ExitOnlyWhenTold, Serving, CheckedUser, Examining
<1>6. CASE Check
  BY <1>6 DEF Check, StartChecker, vars, serverVars, signalVars, childVars, clientVars, watchVars, TypeOK, TrustInv, ServeInv, ExitOnlyWhenTold, Serving, CheckedUser, Examining
<1>7. CASE Checked
  BY <1>7 DEF Checked, Pass, vars, serverVars, signalVars, childVars, clientVars, watchVars, TypeOK, TrustInv, ServeInv, ExitOnlyWhenTold, Serving, CheckedUser, Examining
<1>8. CASE Check2
  BY <1>8 DEF Check2, StartChecker, vars, serverVars, signalVars, childVars, clientVars, watchVars, TypeOK, TrustInv, ServeInv, ExitOnlyWhenTold, Serving, CheckedUser, Examining
<1>9. CASE Check2Fails
  BY <1>9 DEF Check2Fails, HangUp, vars, serverVars, signalVars, childVars, clientVars, watchVars, TypeOK, TrustInv, ServeInv, ExitOnlyWhenTold, Serving, CheckedUser, Examining
<1>10. CASE Checked2
  BY <1>10 DEF Checked2, vars, serverVars, signalVars, childVars, clientVars, watchVars, TypeOK, TrustInv, ServeInv, ExitOnlyWhenTold, Serving, CheckedUser, Examining
<1>11. CASE Reap2
  BY <1>11 DEF Reap2, Pass, HangUp, vars, serverVars, signalVars, childVars, clientVars, watchVars, TypeOK, TrustInv, ServeInv, ExitOnlyWhenTold, Serving, CheckedUser, Examining
<1>12. CASE ReadNothing
  BY <1>12 DEF ReadNothing, HangUp, vars, serverVars, signalVars, childVars, clientVars, watchVars, TypeOK, TrustInv, ServeInv, ExitOnlyWhenTold, Serving, CheckedUser, Examining
<1>13. CASE AnswerAtOnce
  BY <1>13 DEF AnswerAtOnce, HangUp, vars, serverVars, signalVars, childVars, clientVars, watchVars, TypeOK, TrustInv, ServeInv, ExitOnlyWhenTold, Serving, CheckedUser, Examining
<1>14. CASE Terminate
  BY <1>14 DEF Terminate, Exit, vars, serverVars, signalVars, childVars, clientVars, watchVars, TypeOK, TrustInv, ServeInv, ExitOnlyWhenTold, Serving, CheckedUser, Examining
<1>15. CASE ForkHandler
  BY <1>15 DEF ForkHandler, vars, serverVars, signalVars, childVars, clientVars, watchVars, TypeOK, TrustInv, ServeInv, ExitOnlyWhenTold, Serving, CheckedUser, Examining
<1>16. CASE ForkFails
  BY <1>16 DEF ForkFails, HangUp, vars, serverVars, signalVars, childVars, clientVars, watchVars, TypeOK, TrustInv, ServeInv, ExitOnlyWhenTold, Serving, CheckedUser, Examining
<1>17. CASE SleepOver
  BY <1>17 DEF SleepOver, vars, serverVars, signalVars, childVars, clientVars, watchVars, TypeOK, TrustInv, ServeInv, ExitOnlyWhenTold, Serving, CheckedUser, Examining
<1>18. CASE StatGone
  BY <1>18 DEF StatGone, vars, serverVars, signalVars, childVars, clientVars, watchVars, TypeOK, TrustInv, ServeInv, ExitOnlyWhenTold, Serving, CheckedUser, Examining
<1>19. CASE StatThere
  BY <1>19 DEF StatThere, vars, serverVars, signalVars, childVars, clientVars, watchVars, TypeOK, TrustInv, ServeInv, ExitOnlyWhenTold, Serving, CheckedUser, Examining
<1>20. CASE DrainDone
  BY <1>20 DEF DrainDone, Exit, vars, serverVars, signalVars, childVars, clientVars, watchVars, TypeOK, TrustInv, ServeInv, ExitOnlyWhenTold, Serving, CheckedUser, Examining
<1>21. CASE Sigchld
  BY <1>21 DEF Sigchld, ReapOne, vars, serverVars, signalVars, childVars, clientVars, watchVars, TypeOK, TrustInv, ServeInv, ExitOnlyWhenTold, Serving, CheckedUser, Examining
<1>22. CASE SigchldInSleep
  BY <1>22 DEF SigchldInSleep, ReapOne, vars, serverVars, signalVars, childVars, clientVars, watchVars, TypeOK, TrustInv, ServeInv, ExitOnlyWhenTold, Serving, CheckedUser, Examining
<1>23. CASE SigchldInDrain
  BY <1>23 DEF SigchldInDrain, ReapOne, Exit, vars, serverVars, signalVars, childVars, clientVars, watchVars, TypeOK, TrustInv, ServeInv, ExitOnlyWhenTold, Serving, CheckedUser, Examining
<1>24. CASE Delete
  BY <1>24 DEF Delete, vars, serverVars, signalVars, childVars, clientVars, watchVars, TypeOK, TrustInv, ServeInv, ExitOnlyWhenTold, Serving, CheckedUser, Examining
<1>25. CASE Remove
  BY <1>25 DEF Remove, vars, serverVars, signalVars, childVars, clientVars, watchVars, TypeOK, TrustInv, ServeInv, ExitOnlyWhenTold, Serving, CheckedUser, Examining
<1>26. ASSUME NEW k \in Children, ChildExits(k) PROVE ExitOnlyWhenTold'
  BY <1>26 DEF ChildExits, vars, serverVars, signalVars, childVars, clientVars, watchVars, TypeOK, TrustInv, ServeInv, ExitOnlyWhenTold, Serving, CheckedUser, Examining
<1>27. ASSUME NEW k \in Children, DrainOne(k) PROVE ExitOnlyWhenTold'
  BY <1>27 DEF DrainOne, vars, serverVars, signalVars, childVars, clientVars, watchVars, TypeOK, TrustInv, ServeInv, ExitOnlyWhenTold, Serving, CheckedUser, Examining
<1>28. ASSUME NEW c \in Clients, Connect(c) PROVE ExitOnlyWhenTold'
  BY <1>28 DEF Connect, vars, serverVars, signalVars, childVars, clientVars, watchVars, TypeOK, TrustInv, ServeInv, ExitOnlyWhenTold, Serving, CheckedUser, Examining
<1>29. ASSUME NEW c \in Clients, Send(c) PROVE ExitOnlyWhenTold'
  BY <1>29 DEF Send, vars, serverVars, signalVars, childVars, clientVars, watchVars, TypeOK, TrustInv, ServeInv, ExitOnlyWhenTold, Serving, CheckedUser, Examining
<1>30. CASE UNCHANGED vars
  BY <1>30 DEF vars, serverVars, signalVars, childVars, clientVars, watchVars, TypeOK, TrustInv, ServeInv, ExitOnlyWhenTold, Serving, CheckedUser, Examining
<1> QED
  BY <1>1, <1>2, <1>3, <1>4, <1>5, <1>6, <1>7, <1>8, <1>9, <1>10, <1>11, <1>12, <1>13, <1>14, <1>15, <1>16, <1>17, <1>18, <1>19, <1>20, <1>21, <1>22, <1>23, <1>24, <1>25, <1>26, <1>27, <1>28, <1>29, <1>30
  DEF Next, Server, Signals

(* Who stands in a line, and a line in which nobody stands twice.          *)
Holds(q, c) == \E i \in DOMAIN q : q[i] = c
Distinct(q) == \A i, j \in DOMAIN q : i # j => q[i] # q[j]

(* The first leaves the line, and nobody else.                             *)
LEMMA FirstLeaves ==
  ASSUME NEW q \in Seq(Clients), q # <<>>, Distinct(q)
  PROVE  /\ Head(q) \in Clients /\ Holds(q, Head(q)) /\ Distinct(Tail(q))
         /\ \A c : Holds(Tail(q), c) <=> c # Head(q) /\ Holds(q, c)
<1>1. /\ Len(q) \in Nat \ {0} /\ DOMAIN q = 1 .. Len(q) /\ Head(q) = q[1] /\ Head(q) \in Clients
      /\ DOMAIN Tail(q) = 1 .. Len(q) - 1 /\ \A i \in 1 .. Len(q) - 1 : Tail(q)[i] = q[i + 1]
  OBVIOUS
<1>2. Holds(q, Head(q))
  BY <1>1 DEF Holds
<1>3. Distinct(Tail(q))
  <2> SUFFICES ASSUME NEW i \in DOMAIN Tail(q), NEW j \in DOMAIN Tail(q), i # j PROVE Tail(q)[i] # Tail(q)[j]
    BY DEF Distinct
  <2>1. i + 1 \in DOMAIN q /\ j + 1 \in DOMAIN q /\ i + 1 # j + 1
    BY <1>1
  <2>2. q[i + 1] # q[j + 1]
    BY <2>1 DEF Distinct
  <2> QED
    BY <1>1, <2>2
<1>4. ASSUME NEW c, Holds(Tail(q), c) PROVE c # Head(q) /\ Holds(q, c)
  <2>1. PICK i \in DOMAIN Tail(q) : Tail(q)[i] = c
    BY <1>4 DEF Holds
  <2>2. i + 1 \in DOMAIN q /\ 1 \in DOMAIN q /\ i + 1 # 1 /\ q[i + 1] = c
    BY <1>1, <2>1
  <2> QED
    BY <1>1, <2>2 DEF Holds, Distinct
<1>5. ASSUME NEW c, c # Head(q), Holds(q, c) PROVE Holds(Tail(q), c)
  <2>1. PICK i \in DOMAIN q : q[i] = c
    BY <1>5 DEF Holds
  <2>2. i # 1
    BY <1>1, <1>5, <2>1
  <2>3. i - 1 \in DOMAIN Tail(q) /\ i - 1 + 1 = i
    BY <1>1, <2>1, <2>2
  <2>4. Tail(q)[i - 1] = c
    BY <1>1, <2>1, <2>3
  <2> QED
    BY <2>3, <2>4 DEF Holds
<1> QED
  BY <1>1, <1>2, <1>3, <1>4, <1>5

(* Who comes is the last of the line.                                      *)
LEMMA LastJoins ==
  ASSUME NEW q \in Seq(Clients), NEW c \in Clients, Distinct(q), ~Holds(q, c)
  PROVE  /\ Distinct(Append(q, c))
         /\ \A d : Holds(Append(q, c), d) <=> Holds(q, d) \/ d = c
<1> DEFINE r == Append(q, c)
<1>1. /\ Len(q) \in Nat /\ DOMAIN q = 1 .. Len(q) /\ DOMAIN r = DOMAIN q \cup {Len(q) + 1}
      /\ r[Len(q) + 1] = c /\ \A i \in DOMAIN q : r[i] = q[i]
  OBVIOUS
<1> HIDE DEF r
<1>2. \A i \in DOMAIN q : q[i] # c
  BY DEF Holds
<1>3. Distinct(r)
  BY <1>1, <1>2 DEF Distinct
<1>4. \A d : Holds(r, d) <=> Holds(q, d) \/ d = c
  BY <1>1 DEF Holds
<1> QED
  BY <1>3, <1>4 DEF r

(* A client that connects is in the line, where it was nowhere before.     *)
LEMMA KeepsLineConnect ==
  ASSUME IInv, NEW c \in Clients, Connect(c)
  PROVE  LineInv'
<1>1. /\ link[c] = "none" /\ queue' = Append(queue, c) /\ link' = [link EXCEPT ![c] = "queued"]
      /\ Serving /\ UNCHANGED <<place, cli, proc>>
  BY DEF Connect, serverVars, childVars
<1>2. queue \in Seq(Clients) /\ Distinct(queue) /\ \A d \in Clients : link[d] = "queued" <=> Holds(queue, d)
  BY DEF IInv, TypeOK, LineInv, Holds, Distinct
<1>3. Distinct(queue') /\ \A d : Holds(queue', d) <=> Holds(queue, d) \/ d = c
  BY <1>1, <1>2, LastJoins
<1>4. link'[c] = "queued" /\ \A d \in Clients : d # c => link'[d] = link[d]
  BY <1>1 DEF IInv, TypeOK
<1>5. \A d \in Clients : link'[d] = "queued" <=> Holds(queue', d)
  BY <1>2, <1>3, <1>4
<1>6. c # cli /\ proc[c] = "none"
  BY <1>1 DEF IInv, LineInv
<1>7. \A d \in Clients : link'[d] = "accepted" <=> d = cli' \/ proc'[d] = "running"
  BY <1>1, <1>4, <1>6 DEF IInv, LineInv
<1>8. \A d \in Clients : link'[d] \in {"none", "queued"} \/ d = cli' => proc'[d] = "none"
  BY <1>1, <1>4, <1>6 DEF IInv, LineInv
<1>9. Serving'
  BY <1>1 DEF Serving
<1> QED
  BY <1>3, <1>5, <1>7, <1>8, <1>9 DEF LineInv, Holds, Distinct

(* Taking or turning away the first of the queue keeps the line.           *)
LEMMA KeepsLineAccept ==
  ASSUME IInv, Accept \/ AcceptUnknown
  PROVE  LineInv'
<1> USE NamesAssumption, BacklogAssumption
<1>1. place = "accept" /\ queue # <<>> /\ cli = None /\ queue \in Seq(Clients) /\ Distinct(queue) /\ queue' = Tail(queue)
  BY DEF IInv, TypeOK, ServeInv, LineInv, Distinct, Accept, AcceptUnknown, Examining
<1>2. PICK first : first = Head(queue)
  OBVIOUS
<1>3. /\ first \in Clients /\ Holds(queue, first) /\ Distinct(queue')
      /\ \A c : Holds(queue', c) <=> c # first /\ Holds(queue, c)
  BY <1>1, <1>2, FirstLeaves
<1>4. \A c \in Clients : link[c] = "queued" <=> Holds(queue, c)
  BY DEF IInv, LineInv, Holds
<1>5. /\ link[first] = "queued" /\ proc[first] = "none" /\ UNCHANGED proc
      /\ \A c \in Clients : c # first => link'[c] = link[c]
      /\ \/ cli' = first /\ link'[first] = "accepted"
         \/ cli' = None /\ link'[first] = "closed"
  BY <1>1, <1>2, <1>3, <1>4 DEF IInv, LineInv, TypeOK, Accept, AcceptUnknown, childVars
<1>6. \A c \in Clients : link'[c] = "queued" <=> Holds(queue', c)
  BY <1>3, <1>4, <1>5
<1>7. \A c \in Clients : link'[c] = "accepted" <=> c = cli' \/ proc'[c] = "running"
  BY <1>1, <1>3, <1>5 DEF IInv, LineInv
<1>8. \A c \in Clients : link'[c] \in {"none", "queued"} \/ c = cli' => proc'[c] = "none"
  BY <1>1, <1>3, <1>5 DEF IInv, LineInv
<1>9. Serving'
  BY DEF Serving, Accept, AcceptUnknown
<1> QED
  BY <1>3, <1>6, <1>7, <1>8, <1>9 DEF LineInv, Holds, Distinct

(* Every step keeps each client in one place.                              *)
LEMMA KeepsLineInv ==
  ASSUME IInv, [Next]_vars
  PROVE  LineInv'
<1> USE NamesAssumption, BacklogAssumption DEF IInv
<1>1. CASE SelectClient
  BY <1>1 DEF SelectClient, childVars, clientVars, LineInv, Serving
<1>2. CASE SelectDeletion
  BY <1>2 DEF SelectDeletion, childVars, clientVars, LineInv, Serving
<1>3. CASE Accept
  BY <1>3, KeepsLineAccept
<1>4. CASE AcceptUnknown
  BY <1>4, KeepsLineAccept
<1>5. CASE NoChecker
  BY <1>5 DEF NoChecker, HangUp, childVars, TypeOK, LineInv, Serving
<1>6. CASE Check
  BY <1>6 DEF Check, StartChecker, childVars, clientVars, TypeOK, LineInv, Serving, Children
<1>7. CASE Checked
  BY <1>7 DEF Checked, Pass, clientVars, LineInv, Serving
<1>8. CASE Check2
  BY <1>8 DEF Check2, StartChecker, clientVars, LineInv, Serving
<1>9. CASE Check2Fails
  BY <1>9 DEF Check2Fails, HangUp, childVars, TypeOK, LineInv, Serving
<1>10. CASE Checked2
  BY <1>10 DEF Checked2, childVars, clientVars, LineInv, Serving
<1>11. CASE Reap2
  BY <1>11 DEF Reap2, Pass, HangUp, TypeOK, LineInv, Serving
<1>12. CASE ReadNothing
  BY <1>12 DEF ReadNothing, HangUp, childVars, TypeOK, LineInv, Serving
<1>13. CASE AnswerAtOnce
  BY <1>13 DEF AnswerAtOnce, HangUp, childVars, TypeOK, LineInv, Serving
<1>14. CASE Terminate
  BY <1>14 DEF Terminate, Exit, childVars, ServeInv, LineInv, NoLeakedConnection
<1>15. CASE ForkHandler
  BY <1>15 DEF ForkHandler, clientVars, TypeOK, LineInv, Serving, Children
<1>16. CASE ForkFails
  BY <1>16 DEF ForkFails, HangUp, childVars, TypeOK, LineInv, Serving
<1>17. CASE SleepOver
  BY <1>17 DEF SleepOver, childVars, clientVars, LineInv, Serving
<1>18. CASE StatGone
  BY <1>18 DEF StatGone, childVars, ServeInv, LineInv, Examining
<1>19. CASE StatThere
  BY <1>19 DEF StatThere, childVars, clientVars, LineInv, Serving
<1>20. CASE DrainDone
  BY <1>20 DEF DrainDone, Exit, childVars, ServeInv, LineInv, NoLeakedConnection
<1>21. CASE Sigchld
  BY <1>21 DEF Sigchld, ReapOne, serverVars, clientVars, TypeOK, LineInv, Serving, Children
<1>22. CASE SigchldInSleep
  BY <1>22 DEF SigchldInSleep, ReapOne, clientVars, TypeOK, LineInv, Serving, Children
<1>23. CASE SigchldInDrain
  BY <1>23 DEF SigchldInDrain, ReapOne, Exit, TypeOK, ServeInv, LineInv, NoLeakedConnection, Children
<1>24. CASE Delete
  BY <1>24 DEF Delete, serverVars, childVars, clientVars, LineInv, Serving
<1>25. CASE Remove
  BY <1>25 DEF Remove, serverVars, childVars, clientVars, LineInv, Serving
<1>26. ASSUME NEW k \in Children, ChildExits(k) PROVE LineInv'
  BY <1>26 DEF ChildExits, serverVars, TypeOK, LineInv, Serving
<1>27. ASSUME NEW k \in Children, DrainOne(k) PROVE LineInv'
  BY <1>27 DEF DrainOne, serverVars, clientVars, LineInv, Serving
<1>28. ASSUME NEW c \in Clients, Connect(c) PROVE LineInv'
  BY <1>28, KeepsLineConnect
<1>29. ASSUME NEW c \in Clients, Send(c) PROVE LineInv'
  BY <1>29 DEF Send, serverVars, childVars, LineInv, Serving
<1>30. CASE UNCHANGED vars
  BY <1>30 DEF vars, serverVars, childVars, clientVars, LineInv, Serving
<1> QED
  BY <1>1, <1>2, <1>3, <1>4, <1>5, <1>6, <1>7, <1>8, <1>9, <1>10, <1>11, <1>12, <1>13, <1>14, <1>15, <1>16, <1>17, <1>18, <1>19, <1>20, <1>21, <1>22, <1>23, <1>24, <1>25, <1>26, <1>27, <1>28, <1>29, <1>30
  DEF Next, Server, Signals

(* The inductive invariant holds in every state.                           *)
THEOREM Inductive == Spec => []IInv
<1>1. Init => IInv
  BY InitIInv
<1>2. IInv /\ [Next]_vars => IInv'
  BY KeepsTypeOK, KeepsTrustInv, KeepsServeInv, KeepsChildInv, KeepsLineInv, KeepsExitOnlyWhenTold DEF IInv
<1> QED
  BY <1>1, <1>2, PTL DEF Spec

(* Variables have their types, and the backlog its bound.                  *)
THEOREM TypeCorrect == Spec => []TypeOK
  BY Inductive, PTL DEF IInv

(* Commands run only for root and users with a valid signature.            *)
THEOREM OnlyTrustedServedAlways == Spec => []OnlyTrustedServed
<1>1. IInv => OnlyTrustedServed
  BY DEF IInv, TrustInv, CheckedUser, OnlyTrustedServed
<1> QED
  BY <1>1, Inductive, PTL

(* The server has no connection open but the one it serves.                *)
THEOREM NoLeakedConnectionAlways == Spec => []NoLeakedConnection
  BY Inductive, PTL DEF IInv, ServeInv

(* The SIGCHLD handler never takes the status that _system waits for.      *)
THEOREM StatusNotStolenAlways == Spec => []StatusNotStolen
  BY Inductive, PTL DEF IInv, ChildInv

(* The server exits only for an uninstallation or a trusted request.       *)
THEOREM ExitOnlyWhenToldAlways == Spec => []ExitOnlyWhenTold
  BY Inductive, PTL DEF IInv

(* Every step of the server is a step of the line that its clients see, or *)
(* none of it.                                                             *)
LEMMA StepRefines ==
  ASSUME IInv, [Next]_vars
  PROVE  [Line!Next]_(Line!vars)
<1> USE NamesAssumption, BacklogAssumption DEF IInv
<1>1. CASE SelectClient
  BY <1>1 DEF SelectClient, childVars, clientVars, Serving, Line!vars, Helped, Done
<1>2. CASE SelectDeletion
  BY <1>2 DEF SelectDeletion, childVars, clientVars, Serving, Line!vars, Helped, Done
<1>3. CASE Accept
  BY <1>3 DEF Accept, childVars, ServeInv, LineInv, Serving, Examining, Line!Next, Line!Take, Helped, Done
<1>4. CASE AcceptUnknown
  BY <1>4 DEF AcceptUnknown, childVars, TypeOK, ServeInv, Serving, Examining, Line!Next, Line!TurnAway, Helped, Done
<1>5. CASE NoChecker
  BY <1>5 DEF NoChecker, HangUp, childVars, TypeOK, ServeInv, Serving, Examining, Line!Next, Line!Finish, Helped, Done
<1>6. CASE Check
  BY <1>6 DEF Check, StartChecker, childVars, clientVars, TypeOK, Serving, Children, Line!vars, Helped, Done
<1>7. CASE Checked
  BY <1>7 DEF Checked, Pass, clientVars, Serving, Line!vars, Helped, Done
<1>8. CASE Check2
  BY <1>8 DEF Check2, StartChecker, clientVars, Serving, Line!vars, Helped, Done
<1>9. CASE Check2Fails
  BY <1>9 DEF Check2Fails, HangUp, childVars, TypeOK, ServeInv, Serving, Examining, Line!Next, Line!Finish, Helped, Done
<1>10. CASE Checked2
  BY <1>10 DEF Checked2, childVars, clientVars, Serving, Line!vars, Helped, Done
<1>11. CASE Reap2
  BY <1>11 DEF Reap2, Pass, HangUp, TypeOK, Serving, Line!vars, Line!Next, Line!Finish, Helped, Done
<1>12. CASE ReadNothing
  BY <1>12 DEF ReadNothing, HangUp, childVars, TypeOK, ServeInv, Serving, Examining, Line!Next, Line!Finish, Helped, Done
<1>13. CASE AnswerAtOnce
  BY <1>13 DEF AnswerAtOnce, HangUp, childVars, TypeOK, ServeInv, Serving, Examining, Line!Next, Line!Finish, Helped, Done
<1>14. CASE Terminate
  BY <1>14 DEF Terminate, Exit, childVars, TypeOK, ServeInv, LineInv, TrustInv, Serving, NoLeakedConnection, Line!Next, Line!Close, Line!Standing, Entitled, Helped, Done
<1>15. CASE ForkHandler
  BY <1>15 DEF ForkHandler, clientVars, TypeOK, ServeInv, TrustInv, Serving, Examining, Children, Line!Next, Line!Delegate, Entitled, Helped, Done
<1>16. CASE ForkFails
  BY <1>16 DEF ForkFails, HangUp, childVars, TypeOK, ServeInv, Serving, Examining, Line!Next, Line!Finish, Helped, Done
<1>17. CASE SleepOver
  BY <1>17 DEF SleepOver, childVars, clientVars, Serving, Line!vars, Helped, Done
<1>18. CASE StatGone
  BY <1>18 DEF StatGone, childVars, TypeOK, ServeInv, LineInv, Serving, Examining, Line!Next, Line!Close, Line!Standing, Helped, Done
<1>19. CASE StatThere
  BY <1>19 DEF StatThere, childVars, clientVars, Serving, Line!vars, Helped, Done
<1>20. CASE DrainDone
  BY <1>20 DEF DrainDone, Exit, childVars, ServeInv, LineInv, Serving, NoLeakedConnection, Line!vars, Helped, Done
<1>21. CASE Sigchld
  BY <1>21 DEF Sigchld, ReapOne, serverVars, clientVars, TypeOK, Serving, Children, Line!vars, Helped, Done
<1>22. CASE SigchldInSleep
  BY <1>22 DEF SigchldInSleep, ReapOne, clientVars, TypeOK, Serving, Children, Line!vars, Helped, Done
<1>23. CASE SigchldInDrain
  BY <1>23 DEF SigchldInDrain, ReapOne, Exit, TypeOK, ServeInv, LineInv, Serving, NoLeakedConnection, Children, Line!vars, Helped, Done
<1>24. CASE Delete
  BY <1>24 DEF Delete, serverVars, childVars, clientVars, Serving, Line!vars, Helped, Done
<1>25. CASE Remove
  BY <1>25 DEF Remove, serverVars, childVars, clientVars, Serving, Line!vars, Helped, Done
<1>26. ASSUME NEW k \in Children, ChildExits(k) PROVE [Line!Next]_(Line!vars)
  BY <1>26 DEF ChildExits, serverVars, TypeOK, Serving, Line!vars, Line!Next, Line!HelperEnds, Helped, Done
<1>27. ASSUME NEW k \in Children, DrainOne(k) PROVE [Line!Next]_(Line!vars)
  BY <1>27 DEF DrainOne, serverVars, clientVars, Serving, Line!vars, Helped, Done
<1>28. ASSUME NEW c \in Clients, Connect(c) PROVE [Line!Next]_(Line!vars)
  BY <1>28 DEF Connect, serverVars, childVars, LineInv, Serving, Line!vars, Line!Next, Line!Come, Line!Standing, Helped, Done
<1>29. ASSUME NEW c \in Clients, Send(c) PROVE [Line!Next]_(Line!vars)
  BY <1>29 DEF Send, serverVars, childVars, Serving, Line!vars, Helped, Done
<1>30. CASE UNCHANGED vars
  BY <1>30 DEF vars, serverVars, childVars, clientVars, Serving, Line!vars, Helped, Done
<1> QED
  BY <1>1, <1>2, <1>3, <1>4, <1>5, <1>6, <1>7, <1>8, <1>9, <1>10, <1>11, <1>12, <1>13, <1>14, <1>15, <1>16, <1>17, <1>18, <1>19, <1>20, <1>21, <1>22, <1>23, <1>24, <1>25, <1>26, <1>27, <1>28, <1>29, <1>30
  DEF Next, Server, Signals

(* The server implements the promise of RtLine.                            *)
THEOREM Implements == Spec => KeepsLine
<1>1. Init => Line!Init
  BY NamesAssumption DEF Init, Line!Init, Serving, Helped, Done, Children
<1>2. IInv /\ [Next]_vars => [Line!Next]_(Line!vars)
  BY StepRefines
<1> QED
  BY <1>1, <1>2, Inductive, PTL DEF Spec, Line!Spec, KeepsLine
=============================================================================
