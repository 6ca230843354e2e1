----------------------------- MODULE RtStartupProofs -----------------------------
(***************************************************************************)
(* What libsu's starts guarantee for any number of processes: one server   *)
(* has the permanent name, a starter that was answered finds the old       *)
(* server without its socket, and Java is never told of a name that is not *)
(* the one bound.  And what rtdaemon and these starts guarantee together,  *)
(* for any number of callers: the daemon drives libsu only as RtStartup    *)
(* says it may be driven, so that all of RtStartup's invariants hold       *)
(* beside it, and it launches libsu only for a caller it has checked and   *)
(* answered.                                                               *)
(***************************************************************************)
EXTENDS RtDaemon, TLAPS

(* Who stands in a line behind which x comes to stand.                     *)
LEMMA AppendLine ==
  ASSUME NEW S, NEW Q \in Seq(S), NEW x \in S,
         \A i \in DOMAIN Q : Q[i] # x,
         \A i, j \in DOMAIN Q : Q[i] = Q[j] => i = j
  PROVE  /\ \A q : (\E i \in DOMAIN Append(Q, x) : Append(Q, x)[i] = q) => q = x \/ \E i \in DOMAIN Q : Q[i] = q
         /\ \A i, j \in DOMAIN Append(Q, x) : Append(Q, x)[i] = Append(Q, x)[j] => i = j
<1>1. DOMAIN Append(Q, x) = DOMAIN Q \cup {Len(Q) + 1}
  OBVIOUS
<1>2. \A i \in DOMAIN Q : Append(Q, x)[i] = Q[i]
  OBVIOUS
<1>3. Append(Q, x)[Len(Q) + 1] = x
  OBVIOUS
<1> QED BY <1>1, <1>2, <1>3

(* Who stands in a line that the first has left.                           *)
LEMMA TailLine ==
  ASSUME NEW S, NEW Q \in Seq(S), Q # <<>>,
         \A i, j \in DOMAIN Q : Q[i] = Q[j] => i = j
  PROVE  /\ \A q : (\E i \in DOMAIN Tail(Q) : Tail(Q)[i] = q) => q # Head(Q) /\ \E i \in DOMAIN Q : Q[i] = q
         /\ \A i, j \in DOMAIN Tail(Q) : Tail(Q)[i] = Tail(Q)[j] => i = j
         /\ Head(Q) \in S /\ \E i \in DOMAIN Q : Q[i] = Head(Q)
<1>1. \A i \in DOMAIN Tail(Q) : i + 1 \in DOMAIN Q /\ i + 1 # 1 /\ Tail(Q)[i] = Q[i + 1]
  OBVIOUS
<1>2. 1 \in DOMAIN Q /\ Head(Q) = Q[1] /\ Q[1] \in S
  OBVIOUS
<1>3. \A i \in DOMAIN Tail(Q) : i \in Nat
  OBVIOUS
<1> QED BY <1>1, <1>2, <1>3

(* Closing a descriptor keeps the types.                                   *)
LEMMA CloseTypes ==
  ASSUME TypeOK, NEW p \in Procs, NEW h, Close(p, h)
  PROVE  /\ holds' \in [Procs -> SUBSET (Forked \cup {"main"})]
         /\ queue' \in [Procs -> Seq(Procs)]
         /\ conn' \in [Procs -> {"none", "open", "answered", "reset"}]
<1>1. holds' \in [Procs -> SUBSET (Forked \cup {"main"})]
  BY DEF Close, TypeOK
<1>2. CASE holds[p] \subseteq {h}
  <2>1. queue' = [queue EXCEPT ![p] = <<>>]
    BY <1>2 DEF Close
  <2>2. conn' = [q \in Procs |-> IF Queued(q, p) THEN "reset" ELSE conn[q]]
    BY <1>2 DEF Close
  <2>3. queue' \in [Procs -> Seq(Procs)]
    BY <2>1 DEF TypeOK
  <2>4. conn' \in [Procs -> {"none", "open", "answered", "reset"}]
    BY <2>2 DEF TypeOK
  <2> QED BY <1>1, <2>3, <2>4
<1>3. CASE ~(holds[p] \subseteq {h})
  BY <1>1, <1>3 DEF Close, TypeOK
<1> QED BY <1>2, <1>3

(* What beginning to serve does.                                           *)
LEMMA ServeEffect ==
  ASSUME TypeOK, NEW p \in Procs, Serve(p)
  PROVE  \E H \in {{"main", "notifier"}, {"main"}}, n \in {"trying", "failed"} :
           /\ holds' = [holds EXCEPT ![p] = H]
           /\ notifier' = [notifier EXCEPT ![p] = n]
BY DEF Serve

(* What follows a complaint.                                               *)
LEMMA ComplaintEffect ==
  ASSUME TypeOK, NEW p \in Procs, AfterComplaint(p)
  PROVE  /\ at' = [at EXCEPT ![p] = IF name[p] = "perm" THEN "bind" ELSE "done"]
         /\ name' = [name EXCEPT ![p] = IF name[p] = "perm" THEN "temp" ELSE name[p]]
<1>1. CASE name[p] = "perm"
  BY <1>1 DEF AfterComplaint
<1>2. CASE name[p] # "perm"
  <2>1. name = [name EXCEPT ![p] = name[p]]
    BY DEF TypeOK
  <2> QED BY <1>2, <2>1 DEF AfterComplaint
<1> QED BY <1>1, <1>2

(* A step that leaves the queues alone and those who wait in them keeps    *)
(* LineInv.                                                                *)
LEMMA LineFrame ==
  ASSUME StartupInv, UNCHANGED <<queue, cli>>,
         \A q, s \in Procs : Waits(q, s) => Waits(q, s)',
         \A s \in Procs : at'[s] \in {"reading", "closed"} => at[s] \in {"reading", "closed"},
         \A s \in Procs : conn'[s] = "answered" => conn[s] = "answered" /\ server'[s] = server[s]
  PROVE  LineInv'
<1>1. \A q, s \in Procs : Queued(q, s)' <=> Queued(q, s)
  BY DEF Queued
<1>2. \A s \in Procs : cli[s] \in Procs \cup {None}
  BY DEF StartupInv, TypeOK
<1> SUFFICES ASSUME NEW s \in Procs
             PROVE  /\ \A q \in Procs : Queued(q, s)' => Waits(q, s)' /\ cli'[s] # q
                    /\ \A i, j \in DOMAIN queue'[s] : queue'[s][i] = queue'[s][j] => i = j
                    /\ cli'[s] # None => Waits(cli[s], s)'
                    /\ at'[s] \in {"reading", "closed"} => cli'[s] # None
                    /\ conn'[s] = "answered" => server'[s] # None
  BY DEF LineInv, Waits
<1> QED BY <1>1, <1>2 DEF StartupInv, LineInv

(* Closing a descriptor keeps the line.                                    *)
LEMMA CloseKeepsLine ==
  ASSUME StartupInv, NEW p \in Procs, NEW h, Close(p, h), UNCHANGED <<cli, server>>,
         \A q \in Procs : at[q] \in {"write", "await"} => at'[q] = at[q],
         \A t \in Procs : at'[t] \in {"reading", "closed"} => at[t] \in {"reading", "closed"}
  PROVE  LineInv'
<1> USE DEF StartupInv
<1>1. CASE UNCHANGED <<queue, conn>>
  <2>1. \A q, t \in Procs : Waits(q, t) => Waits(q, t)'
    BY <1>1 DEF Waits
  <2> QED BY <1>1, <2>1, LineFrame
<1>2. CASE /\ queue' = [queue EXCEPT ![p] = <<>>]
           /\ conn' = [q \in Procs |-> IF Queued(q, p) THEN "reset" ELSE conn[q]]
  <2>1. \A q, t \in Procs : Queued(q, t)' => t # p /\ Queued(q, t)
    BY <1>2 DEF Queued, TypeOK
  <2>2. \A q, t \in Procs : Waits(q, t) /\ (t # p \/ ~Queued(q, p)) => Waits(q, t)'
    BY <1>2 DEF Waits, LineInv
  <2>3. \A t \in Procs : \A i, j \in DOMAIN queue'[t] : queue'[t][i] = queue'[t][j] => i = j
    BY <1>2 DEF LineInv, TypeOK
  <2>4. \A t \in Procs : conn'[t] = "answered" => conn[t] = "answered"
    BY <1>2
  <2>5. \A t \in Procs : cli[t] # None => cli[t] \in Procs /\ (t = p => ~Queued(cli[t], p))
    BY DEF TypeOK, LineInv
  <2>6. (\A t \in Procs : cli[t] # None => Waits(cli[t], t))'
    BY <2>2, <2>5 DEF LineInv
  <2> QED BY <2>1, <2>2, <2>3, <2>4, <2>6 DEF LineInv
<1> QED BY <1>1, <1>2 DEF Close

(* Every step keeps the types.                                             *)
LEMMA KeepsTypeOK ==
  ASSUME StartupInv, [Next]_vars
  PROVE  TypeOK'
<1> USE ProcsAssumption, OldAssumption, BacklogAssumption, TriesAssumption DEF StartupInv
<1>1. ASSUME NEW p \in Procs, StartServer(p) PROVE TypeOK'
  BY <1>1
     DEF StartServer, vars, socketVars, javaVars, TypeOK, Places, Forked,
         HoldInv, JavaInv
<1>2. ASSUME NEW p \in Procs, StartTemporary(p) PROVE TypeOK'
  BY <1>2
     DEF StartTemporary, vars, socketVars, javaVars, TypeOK, Places, Forked,
         HoldInv, JavaInv
<1>3. ASSUME NEW p \in Procs, BadArguments(p) PROVE TypeOK'
  BY <1>3
     DEF BadArguments, vars, socketVars, javaVars, TypeOK, Places, Forked,
         HoldInv, JavaInv
<1>4. ASSUME NEW p \in Procs, NotRoot(p) PROVE TypeOK'
  BY <1>4
     DEF NotRoot, vars, socketVars, javaVars, TypeOK, Places, Forked,
         HoldInv, JavaInv
<1>5. ASSUME NEW p \in Procs, NEW s \in Procs, Ask(p, s) PROVE TypeOK'
  BY <1>5
     DEF Ask, vars, socketVars, javaVars, TypeOK, Places, Forked, HoldInv,
         JavaInv
<1>6. ASSUME NEW p \in Procs, AskNobody(p) PROVE TypeOK'
  BY <1>6
     DEF AskNobody, vars, socketVars, javaVars, TypeOK, Places, Forked,
         HoldInv, JavaInv
<1>7. ASSUME NEW p \in Procs, SendTerm(p) PROVE TypeOK'
  BY <1>7
     DEF SendTerm, vars, socketVars, javaVars, TypeOK, Places, Forked,
         HoldInv, JavaInv
<1>8. ASSUME NEW p \in Procs, SendTermReset(p) PROVE TypeOK'
  BY <1>8
     DEF SendTermReset, vars, socketVars, javaVars, TypeOK, Places, Forked,
         HoldInv, JavaInv
<1>9. ASSUME NEW p \in Procs, Answered(p) PROVE TypeOK'
  BY <1>9
     DEF Answered, vars, socketVars, javaVars, TypeOK, Places, Forked,
         HoldInv, JavaInv
<1>10. ASSUME NEW p \in Procs, BindPermanent(p) PROVE TypeOK'
  <2>1. at' \in [Procs -> Places] /\ UNCHANGED <<name, queue, cli, told, java>>
    BY <1>10 DEF BindPermanent, Serve, TypeOK, Places
  <2>2. tries' \in [Procs -> 0 .. Tries - 1]
    BY <1>10 DEF BindPermanent, Serve, TypeOK
  <2>3. conn' \in [Procs -> {"none", "open", "answered", "reset"}] /\ server' \in [Procs -> Procs \cup {None}]
    BY <1>10 DEF BindPermanent, Serve, Forget, TypeOK
  <2>4. TypeOK /\ Serve(p)
    BY <1>10 DEF BindPermanent
  <2>5. PICK H \in {{"main", "notifier"}, {"main"}}, n \in {"trying", "failed"} :
          holds' = [holds EXCEPT ![p] = H] /\ notifier' = [notifier EXCEPT ![p] = n]
    BY <2>4, ServeEffect
  <2>6. /\ holds' \in [Procs -> SUBSET (Forked \cup {"main"})]
        /\ notifier' \in [Procs -> {"none", "failed", "trying", "done"}]
    BY <2>5 DEF Forked, TypeOK
  <2> QED BY <2>1, <2>2, <2>3, <2>6 DEF TypeOK
<1>11. ASSUME NEW p \in Procs, BindTemporary(p) PROVE TypeOK'
  <2>1. at' \in [Procs -> Places] /\ UNCHANGED <<name, queue, cli, told, java>>
    BY <1>11 DEF BindTemporary, Serve, TypeOK, Places
  <2>2. tries' \in [Procs -> 0 .. Tries - 1]
    BY <1>11 DEF BindTemporary, Serve, TypeOK
  <2>3. conn' \in [Procs -> {"none", "open", "answered", "reset"}] /\ server' \in [Procs -> Procs \cup {None}]
    BY <1>11 DEF BindTemporary, Serve, Forget, TypeOK
  <2>4. TypeOK /\ Serve(p)
    BY <1>11 DEF BindTemporary
  <2>5. PICK H \in {{"main", "notifier"}, {"main"}}, n \in {"trying", "failed"} :
          holds' = [holds EXCEPT ![p] = H] /\ notifier' = [notifier EXCEPT ![p] = n]
    BY <2>4, ServeEffect
  <2>6. /\ holds' \in [Procs -> SUBSET (Forked \cup {"main"})]
        /\ notifier' \in [Procs -> {"none", "failed", "trying", "done"}]
    BY <2>5 DEF Forked, TypeOK
  <2> QED BY <2>1, <2>2, <2>3, <2>6 DEF TypeOK
<1>12. ASSUME NEW p \in Procs, BindFails(p) PROVE TypeOK'
  BY <1>12
     DEF BindFails, Forget, vars, socketVars, javaVars, TypeOK, Places,
         Forked, HoldInv, JavaInv
<1>13. ASSUME NEW p \in Procs, Complain(p) PROVE TypeOK'
  <2>0. TypeOK /\ AfterComplaint(p)
    BY <1>13 DEF Complain
  <2>1. /\ at' = [at EXCEPT ![p] = IF name[p] = "perm" THEN "bind" ELSE "done"]
        /\ name' = [name EXCEPT ![p] = IF name[p] = "perm" THEN "temp" ELSE name[p]]
    BY <2>0, ComplaintEffect
  <2>2. at' \in [Procs -> Places] /\ name' \in [Procs -> {"perm", "temp", "none"}]
    BY <2>1 DEF TypeOK, Places
  <2>3. told' \in [Procs -> Seq({"error", "perm", "temp"})]
    BY <1>13 DEF Complain, javaVars, TypeOK
  <2> QED BY <1>13, <2>2, <2>3 DEF Complain, socketVars, javaVars, TypeOK
<1>14. ASSUME NEW p \in Procs, ComplainAgain(p) PROVE TypeOK'
  BY <1>14
     DEF ComplainAgain, vars, socketVars, javaVars, TypeOK, Places, Forked,
         HoldInv, JavaInv
<1>15. ASSUME NEW p \in Procs, ComplainInVain(p) PROVE TypeOK'
  <2>0. TypeOK /\ AfterComplaint(p)
    BY <1>15 DEF ComplainInVain
  <2>1. /\ at' = [at EXCEPT ![p] = IF name[p] = "perm" THEN "bind" ELSE "done"]
        /\ name' = [name EXCEPT ![p] = IF name[p] = "perm" THEN "temp" ELSE name[p]]
    BY <2>0, ComplaintEffect
  <2>2. at' \in [Procs -> Places] /\ name' \in [Procs -> {"perm", "temp", "none"}]
    BY <2>1 DEF TypeOK, Places
  <2>3. told' \in [Procs -> Seq({"error", "perm", "temp"})]
    BY <1>15 DEF ComplainInVain, javaVars, TypeOK
  <2> QED BY <1>15, <2>2, <2>3 DEF ComplainInVain, socketVars, javaVars, TypeOK
<1>16. ASSUME NEW p \in Procs, TellAddress(p) PROVE TypeOK'
  BY <1>16
     DEF TellAddress, Notifier, vars, socketVars, javaVars, TypeOK, Places,
         Forked, HoldInv, JavaInv
<1>17. ASSUME NEW p \in Procs, TellAgain(p) PROVE TypeOK'
  BY <1>17
     DEF TellAgain, Notifier, vars, socketVars, javaVars, TypeOK, Places,
         Forked, HoldInv, JavaInv
<1>18. ASSUME NEW p \in Procs, TellInVain(p) PROVE TypeOK'
  BY <1>18
     DEF TellInVain, Notifier, vars, socketVars, javaVars, TypeOK, Places,
         Forked, HoldInv, JavaInv
<1>19. ASSUME NEW p \in Procs, AcceptStarter(p) PROVE TypeOK'
  BY <1>19
     DEF AcceptStarter, vars, socketVars, javaVars, TypeOK, Places, Forked,
         HoldInv, JavaInv
<1>20. ASSUME NEW p \in Procs, CloseListening(p) PROVE TypeOK'
  BY <1>20, CloseTypes DEF CloseListening, javaVars, TypeOK, Places, Forked
<1>21. ASSUME NEW p \in Procs, ReplyAndExit(p) PROVE TypeOK'
  BY <1>21
     DEF ReplyAndExit, vars, socketVars, javaVars, TypeOK, Places, Forked,
         HoldInv, JavaInv
<1>22. ASSUME NEW p \in Procs, Occupy(p) PROVE TypeOK'
  BY <1>22
     DEF Occupy, vars, socketVars, javaVars, TypeOK, Places, Forked, HoldInv,
         JavaInv
<1>23. ASSUME NEW p \in Procs, Release(p) PROVE TypeOK'
  BY <1>23
     DEF Release, vars, socketVars, javaVars, TypeOK, Places, Forked,
         HoldInv, JavaInv
<1>24. ASSUME NEW p \in Procs, JavaListens(p) PROVE TypeOK'
  BY <1>24
     DEF JavaListens, vars, socketVars, javaVars, TypeOK, Places, Forked,
         HoldInv, JavaInv
<1>25. ASSUME NEW p \in Procs, Fork(p) PROVE TypeOK'
  BY <1>25
     DEF Fork, vars, socketVars, javaVars, TypeOK, Places, Forked, HoldInv,
         JavaInv
<1>26. ASSUME NEW p \in Procs, NEW h \in Forked, ForkedCloses(p, h) PROVE TypeOK'
  BY <1>26, CloseTypes DEF ForkedCloses, javaVars, TypeOK, Places, Forked
<1>27. CASE UNCHANGED vars
  BY <1>27
     DEF vars, socketVars, javaVars, TypeOK, Places, Forked, HoldInv, JavaInv
<1> QED
  BY <1>1, <1>2, <1>3, <1>4, <1>5, <1>6, <1>7, <1>8, <1>9, <1>10, <1>11, <1>12,
     <1>13, <1>14, <1>15, <1>16, <1>17, <1>18, <1>19, <1>20, <1>21, <1>22,
     <1>23, <1>24, <1>25, <1>26, <1>27
  DEF Next, Start, Starting, Notifying, Serving

(* The permanent name has one owner.                                       *)
LEMMA KeepsOneOwner ==
  ASSUME StartupInv, [Next]_vars
  PROVE  OneOwner'
<1> USE ProcsAssumption, OldAssumption, BacklogAssumption, TriesAssumption DEF StartupInv
<1>1. ASSUME NEW p \in Procs, StartServer(p) PROVE OneOwner'
  <2>1. Owners' \subseteq Owners
    BY <1>1
       DEF StartServer, vars, socketVars, javaVars, TypeOK, HoldInv, Owners,
           Before, Up
  <2> QED BY <2>1 DEF OneOwner
<1>2. ASSUME NEW p \in Procs, StartTemporary(p) PROVE OneOwner'
  <2>1. Owners' \subseteq Owners
    BY <1>2
       DEF StartTemporary, vars, socketVars, javaVars, TypeOK, HoldInv,
           Owners, Before, Up
  <2> QED BY <2>1 DEF OneOwner
<1>3. ASSUME NEW p \in Procs, BadArguments(p) PROVE OneOwner'
  <2>1. Owners' \subseteq Owners
    BY <1>3
       DEF BadArguments, vars, socketVars, javaVars, TypeOK, HoldInv, Owners,
           Before, Up
  <2> QED BY <2>1 DEF OneOwner
<1>4. ASSUME NEW p \in Procs, NotRoot(p) PROVE OneOwner'
  <2>1. Owners' \subseteq Owners
    BY <1>4
       DEF NotRoot, vars, socketVars, javaVars, TypeOK, HoldInv, Owners,
           Before, Up
  <2> QED BY <2>1 DEF OneOwner
<1>5. ASSUME NEW p \in Procs, NEW s \in Procs, Ask(p, s) PROVE OneOwner'
  <2>1. Owners' \subseteq Owners
    BY <1>5
       DEF Ask, vars, socketVars, javaVars, TypeOK, HoldInv, Owners, Before,
           Up
  <2> QED BY <2>1 DEF OneOwner
<1>6. ASSUME NEW p \in Procs, AskNobody(p) PROVE OneOwner'
  <2>1. Owners' \subseteq Owners
    BY <1>6
       DEF AskNobody, vars, socketVars, javaVars, TypeOK, HoldInv, Owners,
           Before, Up
  <2> QED BY <2>1 DEF OneOwner
<1>7. ASSUME NEW p \in Procs, SendTerm(p) PROVE OneOwner'
  <2>1. Owners' \subseteq Owners
    BY <1>7
       DEF SendTerm, vars, socketVars, javaVars, TypeOK, HoldInv, Owners,
           Before, Up
  <2> QED BY <2>1 DEF OneOwner
<1>8. ASSUME NEW p \in Procs, SendTermReset(p) PROVE OneOwner'
  <2>1. Owners' \subseteq Owners
    BY <1>8
       DEF SendTermReset, vars, socketVars, javaVars, TypeOK, HoldInv,
           Owners, Before, Up
  <2> QED BY <2>1 DEF OneOwner
<1>9. ASSUME NEW p \in Procs, Answered(p) PROVE OneOwner'
  <2>1. Owners' \subseteq Owners
    BY <1>9
       DEF Answered, vars, socketVars, javaVars, TypeOK, HoldInv, Owners,
           Before, Up
  <2> QED BY <2>1 DEF OneOwner
<1>10. ASSUME NEW p \in Procs, BindPermanent(p) PROVE OneOwner'
  <2>1. Owners' \subseteq {p}
    BY <1>10 DEF BindPermanent, Serve, TypeOK, Owners
  <2> QED BY <2>1 DEF OneOwner
<1>11. ASSUME NEW p \in Procs, BindTemporary(p) PROVE OneOwner'
  <2>1. Owners' \subseteq Owners
    BY <1>11
       DEF BindTemporary, Serve, Forget, vars, socketVars, javaVars, TypeOK,
           HoldInv, Owners, Before, Up
  <2> QED BY <2>1 DEF OneOwner
<1>12. ASSUME NEW p \in Procs, BindFails(p) PROVE OneOwner'
  <2>1. Owners' \subseteq Owners
    BY <1>12
       DEF BindFails, Forget, vars, socketVars, javaVars, TypeOK, HoldInv,
           Owners, Before, Up
  <2> QED BY <2>1 DEF OneOwner
<1>13. ASSUME NEW p \in Procs, Complain(p) PROVE OneOwner'
  <2>1. Owners' \subseteq Owners
    BY <1>13
       DEF Complain, AfterComplaint, vars, socketVars, javaVars, TypeOK,
           HoldInv, Owners, Before, Up
  <2> QED BY <2>1 DEF OneOwner
<1>14. ASSUME NEW p \in Procs, ComplainAgain(p) PROVE OneOwner'
  <2>1. Owners' \subseteq Owners
    BY <1>14
       DEF ComplainAgain, vars, socketVars, javaVars, TypeOK, HoldInv,
           Owners, Before, Up
  <2> QED BY <2>1 DEF OneOwner
<1>15. ASSUME NEW p \in Procs, ComplainInVain(p) PROVE OneOwner'
  <2>1. Owners' \subseteq Owners
    BY <1>15
       DEF ComplainInVain, AfterComplaint, vars, socketVars, javaVars,
           TypeOK, HoldInv, Owners, Before, Up
  <2> QED BY <2>1 DEF OneOwner
<1>16. ASSUME NEW p \in Procs, TellAddress(p) PROVE OneOwner'
  <2>1. Owners' \subseteq Owners
    BY <1>16
       DEF TellAddress, Notifier, vars, socketVars, javaVars, TypeOK,
           HoldInv, Owners, Before, Up
  <2> QED BY <2>1 DEF OneOwner
<1>17. ASSUME NEW p \in Procs, TellAgain(p) PROVE OneOwner'
  <2>1. Owners' \subseteq Owners
    BY <1>17
       DEF TellAgain, Notifier, vars, socketVars, javaVars, TypeOK, HoldInv,
           Owners, Before, Up
  <2> QED BY <2>1 DEF OneOwner
<1>18. ASSUME NEW p \in Procs, TellInVain(p) PROVE OneOwner'
  <2>1. Owners' \subseteq Owners
    BY <1>18
       DEF TellInVain, Notifier, vars, socketVars, javaVars, TypeOK, HoldInv,
           Owners, Before, Up
  <2> QED BY <2>1 DEF OneOwner
<1>19. ASSUME NEW p \in Procs, AcceptStarter(p) PROVE OneOwner'
  <2>1. Owners' \subseteq Owners
    BY <1>19
       DEF AcceptStarter, vars, socketVars, javaVars, TypeOK, HoldInv,
           Owners, Before, Up
  <2> QED BY <2>1 DEF OneOwner
<1>20. ASSUME NEW p \in Procs, CloseListening(p) PROVE OneOwner'
  <2>1. Owners' \subseteq Owners
    BY <1>20
       DEF CloseListening, Close, vars, socketVars, javaVars, TypeOK,
           HoldInv, Owners, Before, Up
  <2> QED BY <2>1 DEF OneOwner
<1>21. ASSUME NEW p \in Procs, ReplyAndExit(p) PROVE OneOwner'
  <2>1. Owners' \subseteq Owners
    BY <1>21
       DEF ReplyAndExit, vars, socketVars, javaVars, TypeOK, HoldInv, Owners,
           Before, Up
  <2> QED BY <2>1 DEF OneOwner
<1>22. ASSUME NEW p \in Procs, Occupy(p) PROVE OneOwner'
  <2>1. Owners' \subseteq Owners
    BY <1>22
       DEF Occupy, vars, socketVars, javaVars, TypeOK, HoldInv, Owners,
           Before, Up
  <2> QED BY <2>1 DEF OneOwner
<1>23. ASSUME NEW p \in Procs, Release(p) PROVE OneOwner'
  <2>1. Owners' \subseteq Owners
    BY <1>23
       DEF Release, vars, socketVars, javaVars, TypeOK, HoldInv, Owners,
           Before, Up
  <2> QED BY <2>1 DEF OneOwner
<1>24. ASSUME NEW p \in Procs, JavaListens(p) PROVE OneOwner'
  <2>1. Owners' \subseteq Owners
    BY <1>24
       DEF JavaListens, vars, socketVars, javaVars, TypeOK, HoldInv, Owners,
           Before, Up
  <2> QED BY <2>1 DEF OneOwner
<1>25. ASSUME NEW p \in Procs, Fork(p) PROVE OneOwner'
  <2>1. Owners' \subseteq Owners
    BY <1>25
       DEF Fork, vars, socketVars, javaVars, TypeOK, HoldInv, Owners, Before,
           Up
  <2> QED BY <2>1 DEF OneOwner
<1>26. ASSUME NEW p \in Procs, NEW h \in Forked, ForkedCloses(p, h) PROVE OneOwner'
  <2>1. Owners' \subseteq Owners
    BY <1>26
       DEF ForkedCloses, Close, vars, socketVars, javaVars, TypeOK, HoldInv,
           Owners, Before, Up
  <2> QED BY <2>1 DEF OneOwner
<1>27. CASE UNCHANGED vars
  <2>1. Owners' \subseteq Owners
    BY <1>27 DEF vars, socketVars, javaVars, TypeOK, HoldInv, Owners, Before, Up
  <2> QED BY <2>1 DEF OneOwner
<1> QED
  BY <1>1, <1>2, <1>3, <1>4, <1>5, <1>6, <1>7, <1>8, <1>9, <1>10, <1>11, <1>12,
     <1>13, <1>14, <1>15, <1>16, <1>17, <1>18, <1>19, <1>20, <1>21, <1>22,
     <1>23, <1>24, <1>25, <1>26, <1>27
  DEF Next, Start, Starting, Notifying, Serving

(* Every step keeps a listening socket where it belongs.                   *)
LEMMA KeepsHoldInv ==
  ASSUME StartupInv, [Next]_vars
  PROVE  HoldInv'
<1> USE ProcsAssumption, OldAssumption, BacklogAssumption, TriesAssumption DEF StartupInv
<1>1. ASSUME NEW p \in Procs, StartServer(p) PROVE HoldInv'
  BY <1>1
     DEF StartServer, vars, socketVars, javaVars, TypeOK, Places, Forked,
         HoldInv, Before, Up
<1>2. ASSUME NEW p \in Procs, StartTemporary(p) PROVE HoldInv'
  BY <1>2
     DEF StartTemporary, vars, socketVars, javaVars, TypeOK, Places, Forked,
         HoldInv, Before, Up
<1>3. ASSUME NEW p \in Procs, BadArguments(p) PROVE HoldInv'
  BY <1>3
     DEF BadArguments, vars, socketVars, javaVars, TypeOK, Places, Forked,
         HoldInv, Before, Up
<1>4. ASSUME NEW p \in Procs, NotRoot(p) PROVE HoldInv'
  BY <1>4
     DEF NotRoot, vars, socketVars, javaVars, TypeOK, Places, Forked,
         HoldInv, Before, Up
<1>5. ASSUME NEW p \in Procs, NEW s \in Procs, Ask(p, s) PROVE HoldInv'
  BY <1>5
     DEF Ask, vars, socketVars, javaVars, TypeOK, Places, Forked, HoldInv,
         Before, Up
<1>6. ASSUME NEW p \in Procs, AskNobody(p) PROVE HoldInv'
  BY <1>6
     DEF AskNobody, vars, socketVars, javaVars, TypeOK, Places, Forked,
         HoldInv, Before, Up
<1>7. ASSUME NEW p \in Procs, SendTerm(p) PROVE HoldInv'
  BY <1>7
     DEF SendTerm, vars, socketVars, javaVars, TypeOK, Places, Forked,
         HoldInv, Before, Up
<1>8. ASSUME NEW p \in Procs, SendTermReset(p) PROVE HoldInv'
  BY <1>8
     DEF SendTermReset, vars, socketVars, javaVars, TypeOK, Places, Forked,
         HoldInv, Before, Up
<1>9. ASSUME NEW p \in Procs, Answered(p) PROVE HoldInv'
  BY <1>9
     DEF Answered, vars, socketVars, javaVars, TypeOK, Places, Forked,
         HoldInv, Before, Up
<1>10. ASSUME NEW p \in Procs, BindPermanent(p) PROVE HoldInv'
  BY <1>10
     DEF BindPermanent, Serve, Forget, vars, socketVars, javaVars, TypeOK,
         Places, Forked, HoldInv, Before, Up
<1>11. ASSUME NEW p \in Procs, BindTemporary(p) PROVE HoldInv'
  BY <1>11
     DEF BindTemporary, Serve, Forget, vars, socketVars, javaVars, TypeOK,
         Places, Forked, HoldInv, Before, Up
<1>12. ASSUME NEW p \in Procs, BindFails(p) PROVE HoldInv'
  BY <1>12
     DEF BindFails, Forget, vars, socketVars, javaVars, TypeOK, Places,
         Forked, HoldInv, Before, Up
<1>13. ASSUME NEW p \in Procs, Complain(p) PROVE HoldInv'
  <2>0. TypeOK /\ AfterComplaint(p)
    BY <1>13 DEF Complain
  <2>1. /\ at' = [at EXCEPT ![p] = IF name[p] = "perm" THEN "bind" ELSE "done"]
        /\ name' = [name EXCEPT ![p] = IF name[p] = "perm" THEN "temp" ELSE name[p]]
    BY <2>0, ComplaintEffect
  <2> QED BY <1>13, <2>1
             DEF Complain, vars, socketVars, javaVars, TypeOK, Places,
                 Forked, HoldInv, Before, Up
<1>14. ASSUME NEW p \in Procs, ComplainAgain(p) PROVE HoldInv'
  BY <1>14
     DEF ComplainAgain, vars, socketVars, javaVars, TypeOK, Places, Forked,
         HoldInv, Before, Up
<1>15. ASSUME NEW p \in Procs, ComplainInVain(p) PROVE HoldInv'
  <2>0. TypeOK /\ AfterComplaint(p)
    BY <1>15 DEF ComplainInVain
  <2>1. /\ at' = [at EXCEPT ![p] = IF name[p] = "perm" THEN "bind" ELSE "done"]
        /\ name' = [name EXCEPT ![p] = IF name[p] = "perm" THEN "temp" ELSE name[p]]
    BY <2>0, ComplaintEffect
  <2> QED BY <1>15, <2>1
             DEF ComplainInVain, vars, socketVars, javaVars, TypeOK, Places,
                 Forked, HoldInv, Before, Up
<1>16. ASSUME NEW p \in Procs, TellAddress(p) PROVE HoldInv'
  BY <1>16
     DEF TellAddress, Notifier, vars, socketVars, javaVars, TypeOK, Places,
         Forked, HoldInv, Before, Up
<1>17. ASSUME NEW p \in Procs, TellAgain(p) PROVE HoldInv'
  BY <1>17
     DEF TellAgain, Notifier, vars, socketVars, javaVars, TypeOK, Places,
         Forked, HoldInv, Before, Up
<1>18. ASSUME NEW p \in Procs, TellInVain(p) PROVE HoldInv'
  BY <1>18
     DEF TellInVain, Notifier, vars, socketVars, javaVars, TypeOK, Places,
         Forked, HoldInv, Before, Up
<1>19. ASSUME NEW p \in Procs, AcceptStarter(p) PROVE HoldInv'
  BY <1>19
     DEF AcceptStarter, vars, socketVars, javaVars, TypeOK, Places, Forked,
         HoldInv, Before, Up
<1>20. ASSUME NEW p \in Procs, CloseListening(p) PROVE HoldInv'
  BY <1>20
     DEF CloseListening, Close, vars, socketVars, javaVars, TypeOK, Places,
         Forked, HoldInv, Before, Up
<1>21. ASSUME NEW p \in Procs, ReplyAndExit(p) PROVE HoldInv'
  BY <1>21
     DEF ReplyAndExit, vars, socketVars, javaVars, TypeOK, Places, Forked,
         HoldInv, Before, Up
<1>22. ASSUME NEW p \in Procs, Occupy(p) PROVE HoldInv'
  BY <1>22
     DEF Occupy, vars, socketVars, javaVars, TypeOK, Places, Forked, HoldInv,
         Before, Up
<1>23. ASSUME NEW p \in Procs, Release(p) PROVE HoldInv'
  BY <1>23
     DEF Release, vars, socketVars, javaVars, TypeOK, Places, Forked,
         HoldInv, Before, Up
<1>24. ASSUME NEW p \in Procs, JavaListens(p) PROVE HoldInv'
  BY <1>24
     DEF JavaListens, vars, socketVars, javaVars, TypeOK, Places, Forked,
         HoldInv, Before, Up
<1>25. ASSUME NEW p \in Procs, Fork(p) PROVE HoldInv'
  BY <1>25
     DEF Fork, vars, socketVars, javaVars, TypeOK, Places, Forked, HoldInv,
         Before, Up
<1>26. ASSUME NEW p \in Procs, NEW h \in Forked, ForkedCloses(p, h) PROVE HoldInv'
  BY <1>26
     DEF ForkedCloses, Close, vars, socketVars, javaVars, TypeOK, Places,
         Forked, HoldInv, Before, Up
<1>27. CASE UNCHANGED vars
  BY <1>27
     DEF vars, socketVars, javaVars, TypeOK, Places, Forked, HoldInv, Before,
         Up
<1> QED
  BY <1>1, <1>2, <1>3, <1>4, <1>5, <1>6, <1>7, <1>8, <1>9, <1>10, <1>11, <1>12,
     <1>13, <1>14, <1>15, <1>16, <1>17, <1>18, <1>19, <1>20, <1>21, <1>22,
     <1>23, <1>24, <1>25, <1>26, <1>27
  DEF Next, Start, Starting, Notifying, Serving

(* Every step keeps the starters in line.                                  *)
LEMMA KeepsLineInv ==
  ASSUME StartupInv, [Next]_vars
  PROVE  LineInv'
<1> USE ProcsAssumption, OldAssumption, BacklogAssumption, TriesAssumption DEF StartupInv
<1>1. ASSUME NEW p \in Procs, StartServer(p) PROVE LineInv'
  <2>1. \A q, s \in Procs : Waits(q, s) => Waits(q, s)'
        BY <1>1 DEF StartServer, vars, socketVars, javaVars, TypeOK, Waits
  <2>2. /\ UNCHANGED <<queue, cli>>
        /\ \A s \in Procs : at'[s] \in {"reading", "closed"} => at[s] \in {"reading", "closed"}
        BY <1>1 DEF StartServer, vars, socketVars, javaVars, TypeOK
  <2>3. \A s \in Procs : conn'[s] = "answered" => conn[s] = "answered" /\ server'[s] = server[s]
        BY <1>1 DEF StartServer, vars, socketVars, javaVars, TypeOK
  <2> QED BY <2>1, <2>2, <2>3, LineFrame
<1>2. ASSUME NEW p \in Procs, StartTemporary(p) PROVE LineInv'
  <2>1. \A q, s \in Procs : Waits(q, s) => Waits(q, s)'
        BY <1>2 DEF StartTemporary, vars, socketVars, javaVars, TypeOK, Waits
  <2>2. /\ UNCHANGED <<queue, cli>>
        /\ \A s \in Procs : at'[s] \in {"reading", "closed"} => at[s] \in {"reading", "closed"}
        BY <1>2 DEF StartTemporary, vars, socketVars, javaVars, TypeOK
  <2>3. \A s \in Procs : conn'[s] = "answered" => conn[s] = "answered" /\ server'[s] = server[s]
        BY <1>2 DEF StartTemporary, vars, socketVars, javaVars, TypeOK
  <2> QED BY <2>1, <2>2, <2>3, LineFrame
<1>3. ASSUME NEW p \in Procs, BadArguments(p) PROVE LineInv'
  <2>1. \A q, s \in Procs : Waits(q, s) => Waits(q, s)'
    BY <1>3 DEF BadArguments, socketVars, TypeOK, Waits
  <2> QED BY <1>3, <2>1, LineFrame DEF BadArguments, socketVars, TypeOK
<1>4. ASSUME NEW p \in Procs, NotRoot(p) PROVE LineInv'
  <2>1. \A q, s \in Procs : Waits(q, s) => Waits(q, s)'
        BY <1>4 DEF NotRoot, vars, socketVars, javaVars, TypeOK, Waits
  <2>2. /\ UNCHANGED <<queue, cli>>
        /\ \A s \in Procs : at'[s] \in {"reading", "closed"} => at[s] \in {"reading", "closed"}
        BY <1>4 DEF NotRoot, vars, socketVars, javaVars, TypeOK
  <2>3. \A s \in Procs : conn'[s] = "answered" => conn[s] = "answered" /\ server'[s] = server[s]
        BY <1>4 DEF NotRoot, vars, socketVars, javaVars, TypeOK
  <2> QED BY <2>1, <2>2, <2>3, LineFrame
<1>5. ASSUME NEW p \in Procs, NEW s \in Procs, Ask(p, s) PROVE LineInv'
  <2>1. \A t \in Procs : cli[t] # p /\ ~Queued(p, t)
    BY <1>5 DEF Ask, LineInv, Waits
  <2>2. /\ queue[s] \in Seq(Procs)
        /\ queue'[s] = Append(queue[s], p) /\ \A t \in Procs \ {s} : queue'[t] = queue[t]
        /\ UNCHANGED cli
    BY <1>5 DEF Ask, TypeOK
  <2>a. /\ \A i \in DOMAIN queue[s] : queue[s][i] # p
        /\ \A i, j \in DOMAIN queue[s] : queue[s][i] = queue[s][j] => i = j
    BY <2>1 DEF Queued, LineInv
  <2>b. /\ \A q : (\E i \in DOMAIN queue'[s] : queue'[s][i] = q) => q = p \/ \E i \in DOMAIN queue[s] : queue[s][i] = q
        /\ \A i, j \in DOMAIN queue'[s] : queue'[s][i] = queue'[s][j] => i = j
    BY <2>2, <2>a, AppendLine
  <2>3. \A q, t \in Procs : Queued(q, t)' => (q = p /\ t = s) \/ Queued(q, t)
    BY <2>2, <2>b DEF Queued
  <2>4. \A t \in Procs : \A i, j \in DOMAIN queue'[t] : queue'[t][i] = queue'[t][j] => i = j
    BY <2>2, <2>b DEF LineInv
  <2>5. Waits(p, s)' /\ \A q, t \in Procs : Waits(q, t) => Waits(q, t)'
    BY <1>5 DEF Ask, TypeOK, Waits
  <2>6. \A t \in Procs : /\ at'[t] \in {"reading", "closed"} => cli'[t] # None
                         /\ conn'[t] = "answered" => server'[t] # None
    BY <1>5 DEF Ask, TypeOK, LineInv
  <2>7. (\A t \in Procs : cli[t] # None => Waits(cli[t], t))'
    BY <2>2, <2>5 DEF LineInv, TypeOK
  <2>8. \A q, t \in Procs : Queued(q, t)' => Waits(q, t)' /\ cli'[t] # q
    BY <2>1, <2>2, <2>3, <2>5 DEF LineInv
  <2> SUFFICES ASSUME NEW t \in Procs
               PROVE  /\ \A q \in Procs : Queued(q, t)' => Waits(q, t)' /\ cli'[t] # q
                      /\ \A i, j \in DOMAIN queue'[t] : queue'[t][i] = queue'[t][j] => i = j
                      /\ (cli[t] # None => Waits(cli[t], t))'
                      /\ at'[t] \in {"reading", "closed"} => cli'[t] # None
                      /\ conn'[t] = "answered" => server'[t] # None
    BY DEF LineInv
  <2>t1. \A q \in Procs : Queued(q, t)' => Waits(q, t)' /\ cli'[t] # q
    BY <2>8
  <2>t2. \A i, j \in DOMAIN queue'[t] : queue'[t][i] = queue'[t][j] => i = j
    BY <2>4
  <2>t3. (cli[t] # None => Waits(cli[t], t))'
    BY <2>7
  <2>t4. /\ at'[t] \in {"reading", "closed"} => cli'[t] # None
         /\ conn'[t] = "answered" => server'[t] # None
    BY <2>6
  <2> QED BY <2>t1, <2>t2, <2>t3, <2>t4
<1>6. ASSUME NEW p \in Procs, AskNobody(p) PROVE LineInv'
  <2>1. \A q, s \in Procs : Waits(q, s) => Waits(q, s)'
        BY <1>6 DEF AskNobody, vars, socketVars, javaVars, TypeOK, Waits
  <2>2. /\ UNCHANGED <<queue, cli>>
        /\ \A s \in Procs : at'[s] \in {"reading", "closed"} => at[s] \in {"reading", "closed"}
        BY <1>6 DEF AskNobody, vars, socketVars, javaVars, TypeOK
  <2>3. \A s \in Procs : conn'[s] = "answered" => conn[s] = "answered" /\ server'[s] = server[s]
        BY <1>6 DEF AskNobody, vars, socketVars, javaVars, TypeOK
  <2> QED BY <2>1, <2>2, <2>3, LineFrame
<1>7. ASSUME NEW p \in Procs, SendTerm(p) PROVE LineInv'
  <2>1. \A q, s \in Procs : Waits(q, s) => Waits(q, s)'
        BY <1>7 DEF SendTerm, vars, socketVars, javaVars, TypeOK, Waits
  <2>2. /\ UNCHANGED <<queue, cli>>
        /\ \A s \in Procs : at'[s] \in {"reading", "closed"} => at[s] \in {"reading", "closed"}
        BY <1>7 DEF SendTerm, vars, socketVars, javaVars, TypeOK
  <2>3. \A s \in Procs : conn'[s] = "answered" => conn[s] = "answered" /\ server'[s] = server[s]
        BY <1>7 DEF SendTerm, vars, socketVars, javaVars, TypeOK
  <2> QED BY <2>1, <2>2, <2>3, LineFrame
<1>8. ASSUME NEW p \in Procs, SendTermReset(p) PROVE LineInv'
  <2>1. \A q, s \in Procs : Waits(q, s) => Waits(q, s)'
        BY <1>8 DEF SendTermReset, vars, socketVars, javaVars, TypeOK, Waits
  <2>2. /\ UNCHANGED <<queue, cli>>
        /\ \A s \in Procs : at'[s] \in {"reading", "closed"} => at[s] \in {"reading", "closed"}
        BY <1>8 DEF SendTermReset, vars, socketVars, javaVars, TypeOK
  <2>3. \A s \in Procs : conn'[s] = "answered" => conn[s] = "answered" /\ server'[s] = server[s]
        BY <1>8 DEF SendTermReset, vars, socketVars, javaVars, TypeOK
  <2> QED BY <2>1, <2>2, <2>3, LineFrame
<1>9. ASSUME NEW p \in Procs, Answered(p) PROVE LineInv'
  <2>1. \A q, s \in Procs : Waits(q, s) => Waits(q, s)'
        BY <1>9 DEF Answered, vars, socketVars, javaVars, TypeOK, Waits
  <2>2. /\ UNCHANGED <<queue, cli>>
        /\ \A s \in Procs : at'[s] \in {"reading", "closed"} => at[s] \in {"reading", "closed"}
        BY <1>9 DEF Answered, vars, socketVars, javaVars, TypeOK
  <2>3. \A s \in Procs : conn'[s] = "answered" => conn[s] = "answered" /\ server'[s] = server[s]
        BY <1>9 DEF Answered, vars, socketVars, javaVars, TypeOK
  <2> QED BY <2>1, <2>2, <2>3, LineFrame
<1>10. ASSUME NEW p \in Procs, BindPermanent(p) PROVE LineInv'
  <2>1. \A q, s \in Procs : Waits(q, s) => Waits(q, s)'
        BY <1>10 DEF BindPermanent, Serve, Forget, vars, socketVars, javaVars,
       TypeOK, Waits
  <2>2. /\ UNCHANGED <<queue, cli>>
        /\ \A s \in Procs : at'[s] \in {"reading", "closed"} => at[s] \in {"reading", "closed"}
        BY <1>10 DEF BindPermanent, Serve, Forget, vars, socketVars, javaVars,
       TypeOK
  <2>3. \A s \in Procs : conn'[s] = "answered" => conn[s] = "answered" /\ server'[s] = server[s]
        BY <1>10 DEF BindPermanent, Serve, Forget, vars, socketVars, javaVars,
       TypeOK
  <2> QED BY <2>1, <2>2, <2>3, LineFrame
<1>11. ASSUME NEW p \in Procs, BindTemporary(p) PROVE LineInv'
  <2>1. \A q, s \in Procs : Waits(q, s) => Waits(q, s)'
        BY <1>11 DEF BindTemporary, Serve, Forget, vars, socketVars, javaVars,
       TypeOK, Waits
  <2>2. /\ UNCHANGED <<queue, cli>>
        /\ \A s \in Procs : at'[s] \in {"reading", "closed"} => at[s] \in {"reading", "closed"}
        BY <1>11 DEF BindTemporary, Serve, Forget, vars, socketVars, javaVars,
       TypeOK
  <2>3. \A s \in Procs : conn'[s] = "answered" => conn[s] = "answered" /\ server'[s] = server[s]
        BY <1>11 DEF BindTemporary, Serve, Forget, vars, socketVars, javaVars,
       TypeOK
  <2> QED BY <2>1, <2>2, <2>3, LineFrame
<1>12. ASSUME NEW p \in Procs, BindFails(p) PROVE LineInv'
  <2>1. \A q, s \in Procs : Waits(q, s) => Waits(q, s)'
        BY <1>12 DEF BindFails, Forget, vars, socketVars, javaVars, TypeOK,
       Waits
  <2>2. /\ UNCHANGED <<queue, cli>>
        /\ \A s \in Procs : at'[s] \in {"reading", "closed"} => at[s] \in {"reading", "closed"}
        BY <1>12 DEF BindFails, Forget, vars, socketVars, javaVars, TypeOK
  <2>3. \A s \in Procs : conn'[s] = "answered" => conn[s] = "answered" /\ server'[s] = server[s]
        BY <1>12 DEF BindFails, Forget, vars, socketVars, javaVars, TypeOK
  <2> QED BY <2>1, <2>2, <2>3, LineFrame
<1>13. ASSUME NEW p \in Procs, Complain(p) PROVE LineInv'
  <2>0. TypeOK /\ AfterComplaint(p)
    BY <1>13 DEF Complain
  <2>1. /\ at' = [at EXCEPT ![p] = IF name[p] = "perm" THEN "bind" ELSE "done"]
        /\ name' = [name EXCEPT ![p] = IF name[p] = "perm" THEN "temp" ELSE name[p]]
    BY <2>0, ComplaintEffect
  <2>2. \A q, s \in Procs : Waits(q, s) => Waits(q, s)'
    BY <1>13, <2>1 DEF Complain, socketVars, TypeOK, Waits
  <2>3. /\ UNCHANGED <<queue, cli>>
        /\ \A s \in Procs : at'[s] \in {"reading", "closed"} => at[s] \in {"reading", "closed"}
    BY <1>13, <2>1 DEF Complain, socketVars, TypeOK
  <2>4. \A s \in Procs : conn'[s] = "answered" => conn[s] = "answered" /\ server'[s] = server[s]
    BY <1>13, <2>1 DEF Complain, socketVars, TypeOK
  <2> QED BY <2>2, <2>3, <2>4, LineFrame
<1>14. ASSUME NEW p \in Procs, ComplainAgain(p) PROVE LineInv'
  <2>1. \A q, s \in Procs : Waits(q, s) => Waits(q, s)'
        BY <1>14 DEF ComplainAgain, vars, socketVars, javaVars, TypeOK, Waits
  <2>2. /\ UNCHANGED <<queue, cli>>
        /\ \A s \in Procs : at'[s] \in {"reading", "closed"} => at[s] \in {"reading", "closed"}
        BY <1>14 DEF ComplainAgain, vars, socketVars, javaVars, TypeOK
  <2>3. \A s \in Procs : conn'[s] = "answered" => conn[s] = "answered" /\ server'[s] = server[s]
        BY <1>14 DEF ComplainAgain, vars, socketVars, javaVars, TypeOK
  <2> QED BY <2>1, <2>2, <2>3, LineFrame
<1>15. ASSUME NEW p \in Procs, ComplainInVain(p) PROVE LineInv'
  <2>0. TypeOK /\ AfterComplaint(p)
    BY <1>15 DEF ComplainInVain
  <2>1. /\ at' = [at EXCEPT ![p] = IF name[p] = "perm" THEN "bind" ELSE "done"]
        /\ name' = [name EXCEPT ![p] = IF name[p] = "perm" THEN "temp" ELSE name[p]]
    BY <2>0, ComplaintEffect
  <2>2. \A q, s \in Procs : Waits(q, s) => Waits(q, s)'
    BY <1>15, <2>1 DEF ComplainInVain, socketVars, TypeOK, Waits
  <2>3. /\ UNCHANGED <<queue, cli>>
        /\ \A s \in Procs : at'[s] \in {"reading", "closed"} => at[s] \in {"reading", "closed"}
    BY <1>15, <2>1 DEF ComplainInVain, socketVars, TypeOK
  <2>4. \A s \in Procs : conn'[s] = "answered" => conn[s] = "answered" /\ server'[s] = server[s]
    BY <1>15, <2>1 DEF ComplainInVain, socketVars, TypeOK
  <2> QED BY <2>2, <2>3, <2>4, LineFrame
<1>16. ASSUME NEW p \in Procs, TellAddress(p) PROVE LineInv'
  <2>1. \A q, s \in Procs : Waits(q, s) => Waits(q, s)'
        BY <1>16 DEF TellAddress, Notifier, vars, socketVars, javaVars,
       TypeOK, Waits
  <2>2. /\ UNCHANGED <<queue, cli>>
        /\ \A s \in Procs : at'[s] \in {"reading", "closed"} => at[s] \in {"reading", "closed"}
        BY <1>16 DEF TellAddress, Notifier, vars, socketVars, javaVars, TypeOK
  <2>3. \A s \in Procs : conn'[s] = "answered" => conn[s] = "answered" /\ server'[s] = server[s]
        BY <1>16 DEF TellAddress, Notifier, vars, socketVars, javaVars, TypeOK
  <2> QED BY <2>1, <2>2, <2>3, LineFrame
<1>17. ASSUME NEW p \in Procs, TellAgain(p) PROVE LineInv'
  <2>1. \A q, s \in Procs : Waits(q, s) => Waits(q, s)'
        BY <1>17 DEF TellAgain, Notifier, vars, socketVars, javaVars, TypeOK,
       Waits
  <2>2. /\ UNCHANGED <<queue, cli>>
        /\ \A s \in Procs : at'[s] \in {"reading", "closed"} => at[s] \in {"reading", "closed"}
        BY <1>17 DEF TellAgain, Notifier, vars, socketVars, javaVars, TypeOK
  <2>3. \A s \in Procs : conn'[s] = "answered" => conn[s] = "answered" /\ server'[s] = server[s]
        BY <1>17 DEF TellAgain, Notifier, vars, socketVars, javaVars, TypeOK
  <2> QED BY <2>1, <2>2, <2>3, LineFrame
<1>18. ASSUME NEW p \in Procs, TellInVain(p) PROVE LineInv'
  <2>1. \A q, s \in Procs : Waits(q, s) => Waits(q, s)'
        BY <1>18 DEF TellInVain, Notifier, vars, socketVars, javaVars, TypeOK,
       Waits
  <2>2. /\ UNCHANGED <<queue, cli>>
        /\ \A s \in Procs : at'[s] \in {"reading", "closed"} => at[s] \in {"reading", "closed"}
        BY <1>18 DEF TellInVain, Notifier, vars, socketVars, javaVars, TypeOK
  <2>3. \A s \in Procs : conn'[s] = "answered" => conn[s] = "answered" /\ server'[s] = server[s]
        BY <1>18 DEF TellInVain, Notifier, vars, socketVars, javaVars, TypeOK
  <2> QED BY <2>1, <2>2, <2>3, LineFrame
<1>19. ASSUME NEW p \in Procs, AcceptStarter(p) PROVE LineInv'
  <2>1. /\ queue[p] \in Seq(Procs) /\ queue[p] # <<>>
        /\ queue'[p] = Tail(queue[p]) /\ \A t \in Procs \ {p} : queue'[t] = queue[t]
        /\ cli'[p] = Head(queue[p]) /\ \A t \in Procs \ {p} : cli'[t] = cli[t]
        /\ UNCHANGED <<conn, server>>
    BY <1>19 DEF AcceptStarter, TypeOK
  <2>a. \A i, j \in DOMAIN queue[p] : queue[p][i] = queue[p][j] => i = j
    BY DEF LineInv
  <2>b. /\ \A q : (\E i \in DOMAIN queue'[p] : queue'[p][i] = q) => q # Head(queue[p]) /\ \E i \in DOMAIN queue[p] : queue[p][i] = q
        /\ \A i, j \in DOMAIN queue'[p] : queue'[p][i] = queue'[p][j] => i = j
        /\ Head(queue[p]) \in Procs /\ \E i \in DOMAIN queue[p] : queue[p][i] = Head(queue[p])
    BY <2>1, <2>a, TailLine
  <2>2. /\ \A q, t \in Procs : Queued(q, t)' => Queued(q, t) /\ (t = p => q # Head(queue[p]))
        /\ Head(queue[p]) \in Procs /\ Queued(Head(queue[p]), p)
    <3>1. \A q, t \in Procs : t # p => (Queued(q, t)' <=> Queued(q, t))
      BY <2>1 DEF Queued
    <3>2. \A q \in Procs : Queued(q, p)' => Queued(q, p) /\ q # Head(queue[p])
      BY <2>b DEF Queued
    <3>3. Head(queue[p]) \in Procs /\ Queued(Head(queue[p]), p)
      BY <2>b DEF Queued
    <3> QED BY <3>1, <3>2, <3>3
  <2>3. \A t \in Procs : \A i, j \in DOMAIN queue'[t] : queue'[t][i] = queue'[t][j] => i = j
    <3>1. \A t \in Procs \ {p} : queue'[t] = queue[t]
      BY <2>1
    <3>2. \A t \in Procs : \A i, j \in DOMAIN queue[t] : queue[t][i] = queue[t][j] => i = j
      BY DEF LineInv
    <3>3. \A i, j \in DOMAIN queue'[p] : queue'[p][i] = queue'[p][j] => i = j
      BY <2>b
    <3> SUFFICES ASSUME NEW t \in Procs
                 PROVE  \A i, j \in DOMAIN queue'[t] : queue'[t][i] = queue'[t][j] => i = j
        OBVIOUS
    <3> HIDE DEF StartupInv
    <3>4. CASE t = p
      BY <3>3, <3>4
    <3>5. CASE t # p
      BY <3>1, <3>2, <3>5
    <3> QED BY <3>4, <3>5
  <2>4. \A q, t \in Procs : Waits(q, t) => Waits(q, t)'
    BY <1>19, <2>1 DEF AcceptStarter, TypeOK, Waits
  <2>5. \A t \in Procs : /\ at'[t] \in {"reading", "closed"} => cli'[t] # None
                         /\ conn'[t] = "answered" => server'[t] # None
    <3>1. /\ at' = [at EXCEPT ![p] = at'[p]] /\ at \in [Procs -> Places]
          /\ cli'[p] # None
      BY <1>19, <2>1, <2>2, ProcsAssumption DEF AcceptStarter, TypeOK
    <3>2. \A t \in Procs \ {p} : at'[t] = at[t] /\ cli'[t] = cli[t]
      BY <2>1, <3>1
    <3>3. \A t \in Procs : /\ at[t] \in {"reading", "closed"} => cli[t] # None
                           /\ conn[t] = "answered" => server[t] # None
      BY DEF LineInv
    <3> HIDE DEF StartupInv
    <3> QED BY <2>1, <3>1, <3>2, <3>3
  <2>6. \A t \in Procs : cli'[t] # None => Queued(cli'[t], t) \/ (cli'[t] = cli[t] /\ Waits(cli[t], t))
    BY <2>1, <2>2 DEF LineInv
  <2>7. \A t \in Procs : cli'[t] \in Procs \cup {None}
    BY <2>1, <2>2 DEF TypeOK
  <2>8. (\A t \in Procs : cli[t] # None => Waits(cli[t], t))'
    BY <2>4, <2>6, <2>7 DEF LineInv
  <2>9. \A q, t \in Procs : Queued(q, t)' => Waits(q, t)' /\ cli'[t] # q
    BY <2>1, <2>2, <2>4 DEF LineInv
  <2> SUFFICES ASSUME NEW t \in Procs
               PROVE  /\ \A q \in Procs : Queued(q, t)' => Waits(q, t)' /\ cli'[t] # q
                      /\ \A i, j \in DOMAIN queue'[t] : queue'[t][i] = queue'[t][j] => i = j
                      /\ (cli[t] # None => Waits(cli[t], t))'
                      /\ at'[t] \in {"reading", "closed"} => cli'[t] # None
                      /\ conn'[t] = "answered" => server'[t] # None
    BY DEF LineInv
  <2>t1. \A q \in Procs : Queued(q, t)' => Waits(q, t)' /\ cli'[t] # q
    BY <2>9
  <2>t2. \A i, j \in DOMAIN queue'[t] : queue'[t][i] = queue'[t][j] => i = j
    BY <2>3
  <2>t3. (cli[t] # None => Waits(cli[t], t))'
    BY <2>8
  <2>t4. /\ at'[t] \in {"reading", "closed"} => cli'[t] # None
         /\ conn'[t] = "answered" => server'[t] # None
    BY <2>5
  <2> QED BY <2>t1, <2>t2, <2>t3, <2>t4
<1>20. ASSUME NEW p \in Procs, CloseListening(p) PROVE LineInv'
  <2>1. /\ UNCHANGED <<cli, server>>
        /\ \A q \in Procs : at[q] \in {"write", "await"} => at'[q] = at[q]
        /\ \A t \in Procs : at'[t] \in {"reading", "closed"} => at[t] \in {"reading", "closed"}
    BY <1>20 DEF CloseListening, TypeOK
  <2>2. Close(p, "main")
    BY <1>20 DEF CloseListening
  <2> QED BY <2>1, <2>2, CloseKeepsLine
<1>21. ASSUME NEW p \in Procs, ReplyAndExit(p) PROVE LineInv'
  <2>1. /\ UNCHANGED <<queue, server>> /\ cli[p] # None /\ cli[p] \in Procs
        /\ cli'[p] = None /\ \A t \in Procs \ {p} : cli'[t] = cli[t]
    BY <1>21 DEF ReplyAndExit, TypeOK, LineInv
  <2>2. \A q, t \in Procs : Queued(q, t)' <=> Queued(q, t)
    BY <2>1 DEF Queued
  <2>3. server[cli[p]] = p
    BY <2>1 DEF LineInv, Waits
  <2>4. \A q, t \in Procs : Waits(q, t) /\ q # cli[p] => Waits(q, t)'
    BY <1>21 DEF ReplyAndExit, TypeOK, Waits
  <2>5. \A t \in Procs \ {p} : cli[t] # cli[p] /\ ~Queued(cli[p], t)
    BY <2>1, <2>3 DEF LineInv, Waits
  <2>6. ~Queued(cli[p], p)
    BY <2>1 DEF LineInv
  <2>7. \A t \in Procs : /\ at'[t] \in {"reading", "closed"} => cli'[t] # None
                         /\ conn'[t] = "answered" => server'[t] # None
    BY <1>21, <2>1, <2>3 DEF ReplyAndExit, TypeOK, LineInv
  <2>8. (\A t \in Procs : cli[t] # None => Waits(cli[t], t))'
    <3>1. \A t \in Procs : cli[t] \in Procs \cup {None} /\ (cli[t] # None => Waits(cli[t], t))
      BY DEF LineInv, TypeOK
    <3> HIDE DEF StartupInv
    <3>2. ASSUME NEW t \in Procs, cli'[t] # None PROVE Waits(cli[t], t)'
      <4>1. t # p /\ cli'[t] = cli[t]
        BY <2>1, <3>2
      <4>2. cli[t] \in Procs /\ cli[t] # cli[p] /\ Waits(cli[t], t)
        BY <2>5, <3>1, <3>2, <4>1
      <4>3. Waits(cli[t], t) => /\ server'[cli[t]] = t /\ conn'[cli[t]] = "open"
                                /\ at'[cli[t]] \in {"write", "await"}
        BY <2>4, <4>2 DEF Waits
      <4> QED BY <4>1, <4>2, <4>3 DEF Waits
    <3> QED BY <3>2
  <2>9. \A q, t \in Procs : Queued(q, t)' => Waits(q, t)' /\ cli'[t] # q
    BY <2>1, <2>2, <2>4, <2>5, <2>6 DEF LineInv
  <2> SUFFICES ASSUME NEW t \in Procs
               PROVE  /\ \A q \in Procs : Queued(q, t)' => Waits(q, t)' /\ cli'[t] # q
                      /\ \A i, j \in DOMAIN queue'[t] : queue'[t][i] = queue'[t][j] => i = j
                      /\ (cli[t] # None => Waits(cli[t], t))'
                      /\ at'[t] \in {"reading", "closed"} => cli'[t] # None
                      /\ conn'[t] = "answered" => server'[t] # None
    BY DEF LineInv
  <2>t1. \A q \in Procs : Queued(q, t)' => Waits(q, t)' /\ cli'[t] # q
    BY <2>9
  <2>t2. \A i, j \in DOMAIN queue'[t] : queue'[t][i] = queue'[t][j] => i = j
    BY <2>1 DEF LineInv
  <2>t3. (cli[t] # None => Waits(cli[t], t))'
    BY <2>8
  <2>t4. /\ at'[t] \in {"reading", "closed"} => cli'[t] # None
         /\ conn'[t] = "answered" => server'[t] # None
    BY <2>7
  <2> QED BY <2>t1, <2>t2, <2>t3, <2>t4
<1>22. ASSUME NEW p \in Procs, Occupy(p) PROVE LineInv'
  <2>1. \A q, s \in Procs : Waits(q, s) => Waits(q, s)'
        BY <1>22 DEF Occupy, vars, socketVars, javaVars, TypeOK, Waits
  <2>2. /\ UNCHANGED <<queue, cli>>
        /\ \A s \in Procs : at'[s] \in {"reading", "closed"} => at[s] \in {"reading", "closed"}
        BY <1>22 DEF Occupy, vars, socketVars, javaVars, TypeOK
  <2>3. \A s \in Procs : conn'[s] = "answered" => conn[s] = "answered" /\ server'[s] = server[s]
        BY <1>22 DEF Occupy, vars, socketVars, javaVars, TypeOK
  <2> QED BY <2>1, <2>2, <2>3, LineFrame
<1>23. ASSUME NEW p \in Procs, Release(p) PROVE LineInv'
  <2>1. \A q, s \in Procs : Waits(q, s) => Waits(q, s)'
        BY <1>23 DEF Release, vars, socketVars, javaVars, TypeOK, Waits
  <2>2. /\ UNCHANGED <<queue, cli>>
        /\ \A s \in Procs : at'[s] \in {"reading", "closed"} => at[s] \in {"reading", "closed"}
        BY <1>23 DEF Release, vars, socketVars, javaVars, TypeOK
  <2>3. \A s \in Procs : conn'[s] = "answered" => conn[s] = "answered" /\ server'[s] = server[s]
        BY <1>23 DEF Release, vars, socketVars, javaVars, TypeOK
  <2> QED BY <2>1, <2>2, <2>3, LineFrame
<1>24. ASSUME NEW p \in Procs, JavaListens(p) PROVE LineInv'
  <2>1. \A q, s \in Procs : Waits(q, s) => Waits(q, s)'
        BY <1>24 DEF JavaListens, vars, socketVars, javaVars, TypeOK, Waits
  <2>2. /\ UNCHANGED <<queue, cli>>
        /\ \A s \in Procs : at'[s] \in {"reading", "closed"} => at[s] \in {"reading", "closed"}
        BY <1>24 DEF JavaListens, vars, socketVars, javaVars, TypeOK
  <2>3. \A s \in Procs : conn'[s] = "answered" => conn[s] = "answered" /\ server'[s] = server[s]
        BY <1>24 DEF JavaListens, vars, socketVars, javaVars, TypeOK
  <2> QED BY <2>1, <2>2, <2>3, LineFrame
<1>25. ASSUME NEW p \in Procs, Fork(p) PROVE LineInv'
  <2>1. \A q, s \in Procs : Waits(q, s) => Waits(q, s)'
        BY <1>25 DEF Fork, vars, socketVars, javaVars, TypeOK, Waits
  <2>2. /\ UNCHANGED <<queue, cli>>
        /\ \A s \in Procs : at'[s] \in {"reading", "closed"} => at[s] \in {"reading", "closed"}
        BY <1>25 DEF Fork, vars, socketVars, javaVars, TypeOK
  <2>3. \A s \in Procs : conn'[s] = "answered" => conn[s] = "answered" /\ server'[s] = server[s]
        BY <1>25 DEF Fork, vars, socketVars, javaVars, TypeOK
  <2> QED BY <2>1, <2>2, <2>3, LineFrame
<1>26. ASSUME NEW p \in Procs, NEW h \in Forked, ForkedCloses(p, h) PROVE LineInv'
  <2>1. /\ UNCHANGED <<cli, server>>
        /\ \A q \in Procs : at[q] \in {"write", "await"} => at'[q] = at[q]
        /\ \A t \in Procs : at'[t] \in {"reading", "closed"} => at[t] \in {"reading", "closed"}
    BY <1>26 DEF ForkedCloses, TypeOK
  <2>2. Close(p, h)
    BY <1>26 DEF ForkedCloses
  <2> QED BY <2>1, <2>2, CloseKeepsLine
<1>27. CASE UNCHANGED vars
  <2>1. \A q, s \in Procs : Waits(q, s) => Waits(q, s)'
        BY <1>27 DEF vars, socketVars, javaVars, TypeOK, Waits
  <2>2. /\ UNCHANGED <<queue, cli>>
        /\ \A s \in Procs : at'[s] \in {"reading", "closed"} => at[s] \in {"reading", "closed"}
        BY <1>27 DEF vars, socketVars, javaVars, TypeOK
  <2>3. \A s \in Procs : conn'[s] = "answered" => conn[s] = "answered" /\ server'[s] = server[s]
        BY <1>27 DEF vars, socketVars, javaVars, TypeOK
  <2> QED BY <2>1, <2>2, <2>3, LineFrame
<1> QED
  BY <1>1, <1>2, <1>3, <1>4, <1>5, <1>6, <1>7, <1>8, <1>9, <1>10, <1>11, <1>12,
     <1>13, <1>14, <1>15, <1>16, <1>17, <1>18, <1>19, <1>20, <1>21, <1>22,
     <1>23, <1>24, <1>25, <1>26, <1>27
  DEF Next, Start, Starting, Notifying, Serving

(* No step brings a server back that has answered.                         *)
LEMMA KeepsHandoverDone ==
  ASSUME StartupInv, [Next]_vars
  PROVE  HandoverDone'
<1> USE ProcsAssumption, OldAssumption, BacklogAssumption, TriesAssumption DEF StartupInv
<1>1. ASSUME NEW p \in Procs, StartServer(p) PROVE HandoverDone'
  BY <1>1
     DEF StartServer, vars, socketVars, javaVars, TypeOK, Places, HoldInv,
         LineInv, Waits, HandoverDone, Before, Forked
<1>2. ASSUME NEW p \in Procs, StartTemporary(p) PROVE HandoverDone'
  BY <1>2
     DEF StartTemporary, vars, socketVars, javaVars, TypeOK, Places, HoldInv,
         LineInv, Waits, HandoverDone, Before, Forked
<1>3. ASSUME NEW p \in Procs, BadArguments(p) PROVE HandoverDone'
  BY <1>3
     DEF BadArguments, vars, socketVars, javaVars, TypeOK, Places, HoldInv,
         LineInv, Waits, HandoverDone, Before, Forked
<1>4. ASSUME NEW p \in Procs, NotRoot(p) PROVE HandoverDone'
  BY <1>4
     DEF NotRoot, vars, socketVars, javaVars, TypeOK, Places, HoldInv,
         LineInv, Waits, HandoverDone, Before, Forked
<1>5. ASSUME NEW p \in Procs, NEW s \in Procs, Ask(p, s) PROVE HandoverDone'
  BY <1>5
     DEF Ask, vars, socketVars, javaVars, TypeOK, Places, HoldInv, LineInv,
         Waits, HandoverDone, Before, Forked
<1>6. ASSUME NEW p \in Procs, AskNobody(p) PROVE HandoverDone'
  BY <1>6
     DEF AskNobody, vars, socketVars, javaVars, TypeOK, Places, HoldInv,
         LineInv, Waits, HandoverDone, Before, Forked
<1>7. ASSUME NEW p \in Procs, SendTerm(p) PROVE HandoverDone'
  BY <1>7
     DEF SendTerm, vars, socketVars, javaVars, TypeOK, Places, HoldInv,
         LineInv, Waits, HandoverDone, Before, Forked
<1>8. ASSUME NEW p \in Procs, SendTermReset(p) PROVE HandoverDone'
  BY <1>8
     DEF SendTermReset, vars, socketVars, javaVars, TypeOK, Places, HoldInv,
         LineInv, Waits, HandoverDone, Before, Forked
<1>9. ASSUME NEW p \in Procs, Answered(p) PROVE HandoverDone'
  BY <1>9
     DEF Answered, vars, socketVars, javaVars, TypeOK, Places, HoldInv,
         LineInv, Waits, HandoverDone, Before, Forked
<1>10. ASSUME NEW p \in Procs, BindPermanent(p) PROVE HandoverDone'
  BY <1>10
     DEF BindPermanent, Serve, Forget, vars, socketVars, javaVars, TypeOK,
         Places, HoldInv, LineInv, Waits, HandoverDone, Before, Forked
<1>11. ASSUME NEW p \in Procs, BindTemporary(p) PROVE HandoverDone'
  BY <1>11
     DEF BindTemporary, Serve, Forget, vars, socketVars, javaVars, TypeOK,
         Places, HoldInv, LineInv, Waits, HandoverDone, Before, Forked
<1>12. ASSUME NEW p \in Procs, BindFails(p) PROVE HandoverDone'
  BY <1>12
     DEF BindFails, Forget, vars, socketVars, javaVars, TypeOK, Places,
         HoldInv, LineInv, Waits, HandoverDone, Before, Forked
<1>13. ASSUME NEW p \in Procs, Complain(p) PROVE HandoverDone'
  <2>0. TypeOK /\ AfterComplaint(p)
    BY <1>13 DEF Complain
  <2>1. /\ at' = [at EXCEPT ![p] = IF name[p] = "perm" THEN "bind" ELSE "done"]
        /\ name' = [name EXCEPT ![p] = IF name[p] = "perm" THEN "temp" ELSE name[p]]
    BY <2>0, ComplaintEffect
  <2> QED BY <1>13, <2>1
             DEF Complain, vars, socketVars, javaVars, TypeOK, Places,
                 HoldInv, LineInv, Waits, HandoverDone, Before, Forked
<1>14. ASSUME NEW p \in Procs, ComplainAgain(p) PROVE HandoverDone'
  BY <1>14
     DEF ComplainAgain, vars, socketVars, javaVars, TypeOK, Places, HoldInv,
         LineInv, Waits, HandoverDone, Before, Forked
<1>15. ASSUME NEW p \in Procs, ComplainInVain(p) PROVE HandoverDone'
  <2>0. TypeOK /\ AfterComplaint(p)
    BY <1>15 DEF ComplainInVain
  <2>1. /\ at' = [at EXCEPT ![p] = IF name[p] = "perm" THEN "bind" ELSE "done"]
        /\ name' = [name EXCEPT ![p] = IF name[p] = "perm" THEN "temp" ELSE name[p]]
    BY <2>0, ComplaintEffect
  <2> QED BY <1>15, <2>1
             DEF ComplainInVain, vars, socketVars, javaVars, TypeOK, Places,
                 HoldInv, LineInv, Waits, HandoverDone, Before, Forked
<1>16. ASSUME NEW p \in Procs, TellAddress(p) PROVE HandoverDone'
  BY <1>16
     DEF TellAddress, Notifier, vars, socketVars, javaVars, TypeOK, Places,
         HoldInv, LineInv, Waits, HandoverDone, Before, Forked
<1>17. ASSUME NEW p \in Procs, TellAgain(p) PROVE HandoverDone'
  BY <1>17
     DEF TellAgain, Notifier, vars, socketVars, javaVars, TypeOK, Places,
         HoldInv, LineInv, Waits, HandoverDone, Before, Forked
<1>18. ASSUME NEW p \in Procs, TellInVain(p) PROVE HandoverDone'
  BY <1>18
     DEF TellInVain, Notifier, vars, socketVars, javaVars, TypeOK, Places,
         HoldInv, LineInv, Waits, HandoverDone, Before, Forked
<1>19. ASSUME NEW p \in Procs, AcceptStarter(p) PROVE HandoverDone'
  BY <1>19
     DEF AcceptStarter, vars, socketVars, javaVars, TypeOK, Places, HoldInv,
         LineInv, Waits, HandoverDone, Before, Forked
<1>20. ASSUME NEW p \in Procs, CloseListening(p) PROVE HandoverDone'
  BY <1>20
     DEF CloseListening, Close, vars, socketVars, javaVars, TypeOK, Places,
         HoldInv, LineInv, Waits, HandoverDone, Before, Forked
<1>21. ASSUME NEW p \in Procs, ReplyAndExit(p) PROVE HandoverDone'
  BY <1>21
     DEF ReplyAndExit, vars, socketVars, javaVars, TypeOK, Places, HoldInv,
         LineInv, Waits, HandoverDone, Before, Forked
<1>22. ASSUME NEW p \in Procs, Occupy(p) PROVE HandoverDone'
  BY <1>22
     DEF Occupy, vars, socketVars, javaVars, TypeOK, Places, HoldInv,
         LineInv, Waits, HandoverDone, Before, Forked
<1>23. ASSUME NEW p \in Procs, Release(p) PROVE HandoverDone'
  BY <1>23
     DEF Release, vars, socketVars, javaVars, TypeOK, Places, HoldInv,
         LineInv, Waits, HandoverDone, Before, Forked
<1>24. ASSUME NEW p \in Procs, JavaListens(p) PROVE HandoverDone'
  BY <1>24
     DEF JavaListens, vars, socketVars, javaVars, TypeOK, Places, HoldInv,
         LineInv, Waits, HandoverDone, Before, Forked
<1>25. ASSUME NEW p \in Procs, Fork(p) PROVE HandoverDone'
  BY <1>25
     DEF Fork, vars, socketVars, javaVars, TypeOK, Places, HoldInv, LineInv,
         Waits, HandoverDone, Before, Forked
<1>26. ASSUME NEW p \in Procs, NEW h \in Forked, ForkedCloses(p, h) PROVE HandoverDone'
  BY <1>26
     DEF ForkedCloses, Close, vars, socketVars, javaVars, TypeOK, Places,
         HoldInv, LineInv, Waits, HandoverDone, Before, Forked
<1>27. CASE UNCHANGED vars
  BY <1>27
     DEF vars, socketVars, javaVars, TypeOK, Places, HoldInv, LineInv, Waits,
         HandoverDone, Before, Forked
<1> QED
  BY <1>1, <1>2, <1>3, <1>4, <1>5, <1>6, <1>7, <1>8, <1>9, <1>10, <1>11, <1>12,
     <1>13, <1>14, <1>15, <1>16, <1>17, <1>18, <1>19, <1>20, <1>21, <1>22,
     <1>23, <1>24, <1>25, <1>26, <1>27
  DEF Next, Start, Starting, Notifying, Serving

(* Java is told the truth.                                                 *)
LEMMA KeepsJavaInv ==
  ASSUME StartupInv, [Next]_vars
  PROVE  JavaInv'
<1> USE ProcsAssumption, OldAssumption, BacklogAssumption, TriesAssumption DEF StartupInv
<1>1. ASSUME NEW p \in Procs, StartServer(p) PROVE JavaInv'
  BY <1>1
     DEF StartServer, vars, socketVars, javaVars, TypeOK, Places, HoldInv,
         JavaInv, JavaToldRightly, Before
<1>2. ASSUME NEW p \in Procs, StartTemporary(p) PROVE JavaInv'
  BY <1>2
     DEF StartTemporary, vars, socketVars, javaVars, TypeOK, Places, HoldInv,
         JavaInv, JavaToldRightly, Before
<1>3. ASSUME NEW p \in Procs, BadArguments(p) PROVE JavaInv'
  BY <1>3
     DEF BadArguments, vars, socketVars, javaVars, TypeOK, Places, HoldInv,
         JavaInv, JavaToldRightly, Before
<1>4. ASSUME NEW p \in Procs, NotRoot(p) PROVE JavaInv'
  BY <1>4
     DEF NotRoot, vars, socketVars, javaVars, TypeOK, Places, HoldInv,
         JavaInv, JavaToldRightly, Before
<1>5. ASSUME NEW p \in Procs, NEW s \in Procs, Ask(p, s) PROVE JavaInv'
  BY <1>5
     DEF Ask, vars, socketVars, javaVars, TypeOK, Places, HoldInv, JavaInv,
         JavaToldRightly, Before
<1>6. ASSUME NEW p \in Procs, AskNobody(p) PROVE JavaInv'
  BY <1>6
     DEF AskNobody, vars, socketVars, javaVars, TypeOK, Places, HoldInv,
         JavaInv, JavaToldRightly, Before
<1>7. ASSUME NEW p \in Procs, SendTerm(p) PROVE JavaInv'
  BY <1>7
     DEF SendTerm, vars, socketVars, javaVars, TypeOK, Places, HoldInv,
         JavaInv, JavaToldRightly, Before
<1>8. ASSUME NEW p \in Procs, SendTermReset(p) PROVE JavaInv'
  BY <1>8
     DEF SendTermReset, vars, socketVars, javaVars, TypeOK, Places, HoldInv,
         JavaInv, JavaToldRightly, Before
<1>9. ASSUME NEW p \in Procs, Answered(p) PROVE JavaInv'
  BY <1>9
     DEF Answered, vars, socketVars, javaVars, TypeOK, Places, HoldInv,
         JavaInv, JavaToldRightly, Before
<1>10. ASSUME NEW p \in Procs, BindPermanent(p) PROVE JavaInv'
  BY <1>10
     DEF BindPermanent, Serve, Forget, vars, socketVars, javaVars, TypeOK,
         Places, HoldInv, JavaInv, JavaToldRightly, Before
<1>11. ASSUME NEW p \in Procs, BindTemporary(p) PROVE JavaInv'
  BY <1>11
     DEF BindTemporary, Serve, Forget, vars, socketVars, javaVars, TypeOK,
         Places, HoldInv, JavaInv, JavaToldRightly, Before
<1>12. ASSUME NEW p \in Procs, BindFails(p) PROVE JavaInv'
  BY <1>12
     DEF BindFails, Forget, vars, socketVars, javaVars, TypeOK, Places,
         HoldInv, JavaInv, JavaToldRightly, Before
<1>13. ASSUME NEW p \in Procs, Complain(p) PROVE JavaInv'
  <2>0. TypeOK /\ AfterComplaint(p)
    BY <1>13 DEF Complain
  <2>1. /\ at' = [at EXCEPT ![p] = IF name[p] = "perm" THEN "bind" ELSE "done"]
        /\ name' = [name EXCEPT ![p] = IF name[p] = "perm" THEN "temp" ELSE name[p]]
    BY <2>0, ComplaintEffect
  <2>2. told'[p] = Append(told[p], "error") /\ \A q \in Procs \ {p} : told'[q] = told[q]
    BY <1>13 DEF Complain, TypeOK
  <2>3. \A i \in DOMAIN told[p] : told[p][i] = "error"
    BY <1>13 DEF Complain, JavaInv, Before
  <2>4. \A i \in DOMAIN told'[p] : told'[p][i] = "error"
    BY <2>2, <2>3 DEF TypeOK
  <2>5. name'[p] # "perm" /\ at'[p] \in {"bind", "done"} /\ notifier' = notifier
    BY <1>13, <2>1 DEF Complain, TypeOK
  <2>6. \A q \in Procs \ {p} : at'[q] = at[q] /\ name'[q] = name[q]
    BY <2>1 DEF TypeOK
  <2>7. notifier[p] = "none"
    BY <1>13 DEF Complain, JavaInv, Before
  <2>8. JavaToldRightly'
    <3>1. JavaToldRightly
      BY DEF JavaInv
    <3> HIDE DEF StartupInv
    <3> QED BY <2>2, <2>4, <2>5, <2>6, <3>1 DEF JavaToldRightly
  <2> QED BY <2>2, <2>4, <2>5, <2>6, <2>7, <2>8 DEF JavaInv, Before
<1>14. ASSUME NEW p \in Procs, ComplainAgain(p) PROVE JavaInv'
  BY <1>14
     DEF ComplainAgain, vars, socketVars, javaVars, TypeOK, Places, HoldInv,
         JavaInv, JavaToldRightly, Before
<1>15. ASSUME NEW p \in Procs, ComplainInVain(p) PROVE JavaInv'
  <2>0. TypeOK /\ AfterComplaint(p)
    BY <1>15 DEF ComplainInVain
  <2>1. /\ at' = [at EXCEPT ![p] = IF name[p] = "perm" THEN "bind" ELSE "done"]
        /\ name' = [name EXCEPT ![p] = IF name[p] = "perm" THEN "temp" ELSE name[p]]
    BY <2>0, ComplaintEffect
  <2>3. \A i \in DOMAIN told[p] : told[p][i] = "error"
    BY <1>15 DEF ComplainInVain, JavaInv, Before
  <2>5. /\ name'[p] # "perm" /\ at'[p] \in {"bind", "done"}
        /\ UNCHANGED <<notifier, told>>
    BY <1>15, <2>1 DEF ComplainInVain, javaVars, TypeOK
  <2>6. \A q \in Procs \ {p} : at'[q] = at[q] /\ name'[q] = name[q]
    BY <2>1 DEF TypeOK
  <2>7. notifier[p] = "none"
    BY <1>15 DEF ComplainInVain, JavaInv, Before
  <2>8. JavaToldRightly'
    BY <2>3, <2>5, <2>6 DEF JavaInv, JavaToldRightly
  <2> QED BY <2>3, <2>5, <2>6, <2>7, <2>8 DEF JavaInv, Before
<1>16. ASSUME NEW p \in Procs, TellAddress(p) PROVE JavaInv'
  BY <1>16
     DEF TellAddress, Notifier, vars, socketVars, javaVars, TypeOK, Places,
         HoldInv, JavaInv, JavaToldRightly, Before
<1>17. ASSUME NEW p \in Procs, TellAgain(p) PROVE JavaInv'
  BY <1>17
     DEF TellAgain, Notifier, vars, socketVars, javaVars, TypeOK, Places,
         HoldInv, JavaInv, JavaToldRightly, Before
<1>18. ASSUME NEW p \in Procs, TellInVain(p) PROVE JavaInv'
  BY <1>18
     DEF TellInVain, Notifier, vars, socketVars, javaVars, TypeOK, Places,
         HoldInv, JavaInv, JavaToldRightly, Before
<1>19. ASSUME NEW p \in Procs, AcceptStarter(p) PROVE JavaInv'
  BY <1>19
     DEF AcceptStarter, vars, socketVars, javaVars, TypeOK, Places, HoldInv,
         JavaInv, JavaToldRightly, Before
<1>20. ASSUME NEW p \in Procs, CloseListening(p) PROVE JavaInv'
  BY <1>20
     DEF CloseListening, Close, vars, socketVars, javaVars, TypeOK, Places,
         HoldInv, JavaInv, JavaToldRightly, Before
<1>21. ASSUME NEW p \in Procs, ReplyAndExit(p) PROVE JavaInv'
  BY <1>21
     DEF ReplyAndExit, vars, socketVars, javaVars, TypeOK, Places, HoldInv,
         JavaInv, JavaToldRightly, Before
<1>22. ASSUME NEW p \in Procs, Occupy(p) PROVE JavaInv'
  BY <1>22
     DEF Occupy, vars, socketVars, javaVars, TypeOK, Places, HoldInv,
         JavaInv, JavaToldRightly, Before
<1>23. ASSUME NEW p \in Procs, Release(p) PROVE JavaInv'
  BY <1>23
     DEF Release, vars, socketVars, javaVars, TypeOK, Places, HoldInv,
         JavaInv, JavaToldRightly, Before
<1>24. ASSUME NEW p \in Procs, JavaListens(p) PROVE JavaInv'
  BY <1>24
     DEF JavaListens, vars, socketVars, javaVars, TypeOK, Places, HoldInv,
         JavaInv, JavaToldRightly, Before
<1>25. ASSUME NEW p \in Procs, Fork(p) PROVE JavaInv'
  BY <1>25
     DEF Fork, vars, socketVars, javaVars, TypeOK, Places, HoldInv, JavaInv,
         JavaToldRightly, Before
<1>26. ASSUME NEW p \in Procs, NEW h \in Forked, ForkedCloses(p, h) PROVE JavaInv'
  BY <1>26
     DEF ForkedCloses, Close, vars, socketVars, javaVars, TypeOK, Places,
         HoldInv, JavaInv, JavaToldRightly, Before
<1>27. CASE UNCHANGED vars
  BY <1>27
     DEF vars, socketVars, javaVars, TypeOK, Places, HoldInv, JavaInv,
         JavaToldRightly, Before
<1> QED
  BY <1>1, <1>2, <1>3, <1>4, <1>5, <1>6, <1>7, <1>8, <1>9, <1>10, <1>11, <1>12,
     <1>13, <1>14, <1>15, <1>16, <1>17, <1>18, <1>19, <1>20, <1>21, <1>22,
     <1>23, <1>24, <1>25, <1>26, <1>27
  DEF Next, Start, Starting, Notifying, Serving

(* The state in which one server runs or none.                             *)
LEMMA InitStartupInv == Init => StartupInv
<1> SUFFICES ASSUME Init PROVE StartupInv
  OBVIOUS
<1> USE ProcsAssumption, OldAssumption, BacklogAssumption, TriesAssumption DEF Init
<1>1. TypeOK
  BY DEF TypeOK, Places, Forked
<1>2. OneOwner
  BY DEF OneOwner, Owners
<1>3. HoldInv
  BY DEF HoldInv, Before, Up
<1>4. LineInv
  BY DEF LineInv, Queued, Waits
<1>5. HandoverDone
  BY DEF HandoverDone
<1>6. JavaInv
  BY DEF JavaInv, JavaToldRightly, Before
<1> QED BY <1>1, <1>2, <1>3, <1>4, <1>5, <1>6 DEF StartupInv

(* The invariant is inductive.                                             *)
LEMMA StartupStep == StartupInv /\ [Next]_vars => StartupInv'
<1> SUFFICES ASSUME StartupInv, [Next]_vars PROVE StartupInv'
  OBVIOUS
<1> QED BY KeepsTypeOK, KeepsOneOwner, KeepsHoldInv, KeepsLineInv,
           KeepsHandoverDone, KeepsJavaInv
        DEF StartupInv

(* What the invariant is for.                                              *)
LEMMA StartupGives == StartupInv => Handover /\ JavaToldRightly
BY DEF StartupInv, Handover, OnePermanentServer, HoldInv, JavaInv

(* However many processes of libsu are started, with whatever clients and  *)
(* whatever they leave forked, the state is one the invariant describes    *)
(* (su.c: main, do_run_server, cleanup_process, create_server_socket,      *)
(* notify_java_server).                                                    *)
THEOREM StartupInvariant == Spec => []StartupInv
<1> QED BY InitStartupInv, StartupStep, PTL DEF Spec

(* One process owns the permanent name, and a starter that was answered    *)
(* finds the old server's listening socket closed, for good.               *)
THEOREM HandoverAlways == Spec => []Handover
<1> QED BY StartupInvariant, StartupGives, PTL

(* Java is told the address that was bound, once and last.                 *)
THEOREM JavaToldRightlyAlways == Spec => []JavaToldRightly
<1> QED BY StartupInvariant, StartupGives, PTL
-----------------------------------------------------------------------------
(* A daemon's step is a step of libsu's starts, or none of theirs.         *)
LEMMA DaemonStepsAreStarts == [BootNext]_bootVars => [Next]_vars
<1> SUFFICES ASSUME [BootNext]_bootVars PROVE [Next]_vars
  OBVIOUS
<1> USE RequestedAssumption
<1>1. ASSUME NEW p \in Procs, ShellStarts(p) PROVE Next
  BY <1>1 DEF ShellStarts, Next
<1>2. ASSUME NEW p \in Procs, LibsuRuns(p) PROVE Next
  BY <1>2 DEF LibsuRuns, Next
<1>3. ASSUME NEW p \in Requested, Kid(p) PROVE [Next]_vars
  <2>1. CASE KidBecomesLibsu(p)
    BY <2>1 DEF KidBecomesLibsu, Next
  <2>2. CASE KidGivesUp(p) \/ KidAnswers(p) \/ KidExecFails(p) \/ KidEnds(p)
    BY <2>2 DEF KidGivesUp, KidAnswers, KidExecFails, KidEnds
  <2> QED BY <1>3, <2>1, <2>2 DEF Kid
<1>4. ASSUME NEW p \in Requested, DConnect(p) \/ DSend(p) PROVE UNCHANGED vars
  BY <1>4 DEF DConnect, DSend
<1>5. ASSUME DLoop \/ DReap PROVE UNCHANGED vars
  BY <1>5
     DEF DLoop, DAccept, DCheckPasses, DCheckFails, DReadNothing, DPing,
         DRead, DFork, DForkFails, DReap
<1>6. CASE UNCHANGED bootVars
  BY <1>6 DEF bootVars
<1> QED BY <1>1, <1>2, <1>3, <1>4, <1>5, <1>6 DEF BootNext

(* libsu beside rtdaemon is libsu: every behaviour of the composition is   *)
(* one of RtStartup.                                                       *)
THEOREM DaemonImplementsStartup == BootSpec => Spec
<1>1. BootInit => Init
  BY DEF BootInit
<1> QED BY <1>1, DaemonStepsAreStarts, PTL DEF BootSpec, Spec

(* What a process of libsu does once it runs changes no process that has   *)
(* not been started.                                                       *)
LEMMA RunningStartsNobody ==
  ASSUME StartupInv, NEW p \in Procs, LibsuRuns(p), NEW q \in Procs
  PROVE  at'[q] = "absent" <=> at[q] = "absent"
<1> USE DEF StartupInv
<1>1. CASE Starting(p)
  <2>0. ASSUME AfterComplaint(p)
        PROVE  at' = [at EXCEPT ![p] = IF name[p] = "perm" THEN "bind" ELSE "done"]
    BY <2>0, ComplaintEffect
  <2>2. CASE \E s \in Procs : Ask(p, s)
    BY <2>2 DEF Ask, TypeOK
  <2>3. CASE AskNobody(p) \/ SendTerm(p) \/ SendTermReset(p) \/ Answered(p)
    BY <2>3 DEF AskNobody, SendTerm, SendTermReset, Answered, TypeOK
  <2>4. CASE BindPermanent(p) \/ BindTemporary(p) \/ BindFails(p)
    BY <2>4 DEF BindPermanent, BindTemporary, BindFails, Serve, Forget, TypeOK
  <2>5. CASE Complain(p)
    BY <2>5, <2>0 DEF Complain, TypeOK
  <2>6. CASE ComplainAgain(p)
    BY <2>6 DEF ComplainAgain, TypeOK
  <2>7. CASE ComplainInVain(p)
    BY <2>7, <2>0 DEF ComplainInVain, TypeOK
  <2> QED BY <1>1, <2>2, <2>3, <2>4, <2>5, <2>6, <2>7 DEF Starting
<1>2. CASE Notifying(p)
  BY <1>2 DEF Notifying, TellAddress, TellAgain, TellInVain, Notifier, TypeOK
<1>3. CASE Serving(p)
  BY <1>3 DEF Serving, AcceptStarter, CloseListening, ReplyAndExit, TypeOK
<1>4. CASE Occupy(p) \/ Release(p) \/ JavaListens(p) \/ Fork(p)
  BY <1>4 DEF Occupy, Release, JavaListens, Fork, TypeOK
<1>5. CASE \E h \in Forked : ForkedCloses(p, h)
  BY <1>5 DEF ForkedCloses
<1> QED BY <1>1, <1>2, <1>3, <1>4, <1>5 DEF LibsuRuns

(* A start begins with a process that was absent, and changes it alone.    *)
LEMMA StartChanges ==
  ASSUME NEW p \in Procs, Start(p), TypeOK
  PROVE  /\ at[p] = "absent"
         /\ \A q \in Procs \ {p} : at'[q] = at[q]
BY DEF Start, StartServer, StartTemporary, BadArguments, NotRoot, TypeOK

(* Every step keeps the daemon's types.                                    *)
LEMMA KeepsBootTypes ==
  ASSUME BootInv, [BootNext]_bootVars
  PROVE  BootTypeOK'
<1> USE RequestedAssumption, ProcsAssumption, OldAssumption DEF BootInv
<1>t. TypeOK'
  BY DaemonStepsAreStarts, KeepsTypeOK
<1>1. ASSUME NEW p \in Procs, ShellStarts(p) PROVE BootTypeOK'
  BY <1>1, <1>t
     DEF ShellStarts, loopVars, kidVars, clientVars, daemonVars, BootTypeOK,
         Requests
<1>2. ASSUME NEW p \in Procs, LibsuRuns(p) PROVE BootTypeOK'
  BY <1>2, <1>t
     DEF LibsuRuns, loopVars, kidVars, clientVars, daemonVars, BootTypeOK,
         Requests
<1>3. ASSUME NEW p \in Requested, DConnect(p) PROVE BootTypeOK'
  BY <1>3, <1>t
     DEF DConnect, loopVars, kidVars, clientVars, daemonVars, BootTypeOK,
         Requests
<1>4. ASSUME NEW p \in Requested, DSend(p) PROVE BootTypeOK'
  BY <1>4, <1>t
     DEF DSend, loopVars, kidVars, clientVars, daemonVars, BootTypeOK,
         Requests
<1>5. ASSUME NEW p \in Requested, KidGivesUp(p) PROVE BootTypeOK'
  BY <1>5, <1>t
     DEF KidGivesUp, loopVars, kidVars, clientVars, daemonVars, BootTypeOK,
         Requests
<1>6. ASSUME NEW p \in Requested, KidAnswers(p) PROVE BootTypeOK'
  BY <1>6, <1>t
     DEF KidAnswers, loopVars, kidVars, clientVars, daemonVars, BootTypeOK,
         Requests
<1>7. ASSUME NEW p \in Requested, KidExecFails(p) PROVE BootTypeOK'
  BY <1>7, <1>t
     DEF KidExecFails, loopVars, kidVars, clientVars, daemonVars, BootTypeOK,
         Requests
<1>8. ASSUME NEW p \in Requested, KidBecomesLibsu(p) PROVE BootTypeOK'
  BY <1>8, <1>t
     DEF KidBecomesLibsu, loopVars, kidVars, clientVars, daemonVars,
         BootTypeOK, Requests
<1>9. ASSUME NEW p \in Requested, KidEnds(p) PROVE BootTypeOK'
  BY <1>9, <1>t
     DEF KidEnds, loopVars, kidVars, clientVars, daemonVars, BootTypeOK,
         Requests
<1>10. ASSUME NEW p \in Requested, DAccept(p) PROVE BootTypeOK'
  BY <1>10, <1>t
     DEF DAccept, loopVars, kidVars, clientVars, daemonVars, BootTypeOK,
         Requests
<1>11. ASSUME DCheckPasses PROVE BootTypeOK'
  BY <1>11, <1>t
     DEF DCheckPasses, loopVars, kidVars, clientVars, daemonVars, BootTypeOK,
         Requests
<1>12. ASSUME DCheckFails PROVE BootTypeOK'
  BY <1>12, <1>t
     DEF DCheckFails, Refuse, DHangUp, loopVars, kidVars, clientVars,
         daemonVars, BootTypeOK, Requests
<1>13. ASSUME DReadNothing PROVE BootTypeOK'
  BY <1>13, <1>t
     DEF DReadNothing, Refuse, DHangUp, loopVars, kidVars, clientVars,
         daemonVars, BootTypeOK, Requests
<1>14. ASSUME DPing PROVE BootTypeOK'
  BY <1>14, <1>t
     DEF DPing, DHangUp, loopVars, kidVars, clientVars, daemonVars,
         BootTypeOK, Requests
<1>15. ASSUME DRead PROVE BootTypeOK'
  BY <1>15, <1>t
     DEF DRead, loopVars, kidVars, clientVars, daemonVars, BootTypeOK,
         Requests
<1>16. ASSUME DFork PROVE BootTypeOK'
  BY <1>16, <1>t
     DEF DFork, DHangUp, loopVars, kidVars, clientVars, daemonVars,
         BootTypeOK, Requests
<1>17. ASSUME DForkFails PROVE BootTypeOK'
  BY <1>17, <1>t
     DEF DForkFails, loopVars, kidVars, clientVars, daemonVars, BootTypeOK,
         Requests
<1>18. ASSUME DReap PROVE BootTypeOK'
  BY <1>18, <1>t
     DEF DReap, loopVars, kidVars, clientVars, daemonVars, BootTypeOK,
         Requests
<1>19. CASE UNCHANGED bootVars
  BY <1>19, <1>t
     DEF bootVars, loopVars, kidVars, clientVars, daemonVars, BootTypeOK,
         Requests
<1> QED
  BY <1>1, <1>2, <1>3, <1>4, <1>5, <1>6, <1>7, <1>8, <1>9, <1>10, <1>11, <1>12,
     <1>13, <1>14, <1>15, <1>16, <1>17, <1>18, <1>19
  DEF BootNext, Kid, DLoop

(* Every step keeps what is known of the request being served.             *)
LEMMA KeepsDaemonInv ==
  ASSUME BootInv, [BootNext]_bootVars
  PROVE  DaemonInv'
<1> USE RequestedAssumption, ProcsAssumption, OldAssumption DEF BootInv
<1>1. ASSUME NEW p \in Procs, ShellStarts(p) PROVE DaemonInv'
  BY <1>1
     DEF ShellStarts, loopVars, kidVars, clientVars, daemonVars, BootTypeOK,
         Requests, DaemonInv
<1>2. ASSUME NEW p \in Procs, LibsuRuns(p) PROVE DaemonInv'
  BY <1>2
     DEF LibsuRuns, loopVars, kidVars, clientVars, daemonVars, BootTypeOK,
         Requests, DaemonInv
<1>3. ASSUME NEW p \in Requested, DConnect(p) PROVE DaemonInv'
  BY <1>3
     DEF DConnect, loopVars, kidVars, clientVars, daemonVars, BootTypeOK,
         Requests, DaemonInv
<1>4. ASSUME NEW p \in Requested, DSend(p) PROVE DaemonInv'
  BY <1>4
     DEF DSend, loopVars, kidVars, clientVars, daemonVars, BootTypeOK,
         Requests, DaemonInv
<1>5. ASSUME NEW p \in Requested, KidGivesUp(p) PROVE DaemonInv'
  BY <1>5
     DEF KidGivesUp, loopVars, kidVars, clientVars, daemonVars, BootTypeOK,
         Requests, DaemonInv
<1>6. ASSUME NEW p \in Requested, KidAnswers(p) PROVE DaemonInv'
  BY <1>6
     DEF KidAnswers, loopVars, kidVars, clientVars, daemonVars, BootTypeOK,
         Requests, DaemonInv
<1>7. ASSUME NEW p \in Requested, KidExecFails(p) PROVE DaemonInv'
  BY <1>7
     DEF KidExecFails, loopVars, kidVars, clientVars, daemonVars, BootTypeOK,
         Requests, DaemonInv
<1>8. ASSUME NEW p \in Requested, KidBecomesLibsu(p) PROVE DaemonInv'
  BY <1>8
     DEF KidBecomesLibsu, loopVars, kidVars, clientVars, daemonVars,
         BootTypeOK, Requests, DaemonInv
<1>9. ASSUME NEW p \in Requested, KidEnds(p) PROVE DaemonInv'
  BY <1>9
     DEF KidEnds, loopVars, kidVars, clientVars, daemonVars, BootTypeOK,
         Requests, DaemonInv
<1>10. ASSUME NEW p \in Requested, DAccept(p) PROVE DaemonInv'
  BY <1>10
     DEF DAccept, loopVars, kidVars, clientVars, daemonVars, BootTypeOK,
         Requests, DaemonInv
<1>11. ASSUME DCheckPasses PROVE DaemonInv'
  BY <1>11
     DEF DCheckPasses, loopVars, kidVars, clientVars, daemonVars, BootTypeOK,
         Requests, DaemonInv
<1>12. ASSUME DCheckFails PROVE DaemonInv'
  BY <1>12
     DEF DCheckFails, Refuse, DHangUp, loopVars, kidVars, clientVars,
         daemonVars, BootTypeOK, Requests, DaemonInv
<1>13. ASSUME DReadNothing PROVE DaemonInv'
  BY <1>13
     DEF DReadNothing, Refuse, DHangUp, loopVars, kidVars, clientVars,
         daemonVars, BootTypeOK, Requests, DaemonInv
<1>14. ASSUME DPing PROVE DaemonInv'
  BY <1>14
     DEF DPing, DHangUp, loopVars, kidVars, clientVars, daemonVars,
         BootTypeOK, Requests, DaemonInv
<1>15. ASSUME DRead PROVE DaemonInv'
  BY <1>15
     DEF DRead, loopVars, kidVars, clientVars, daemonVars, BootTypeOK,
         Requests, DaemonInv
<1>16. ASSUME DFork PROVE DaemonInv'
  BY <1>16
     DEF DFork, DHangUp, loopVars, kidVars, clientVars, daemonVars,
         BootTypeOK, Requests, DaemonInv
<1>17. ASSUME DForkFails PROVE DaemonInv'
  BY <1>17
     DEF DForkFails, loopVars, kidVars, clientVars, daemonVars, BootTypeOK,
         Requests, DaemonInv
<1>18. ASSUME DReap PROVE DaemonInv'
  BY <1>18
     DEF DReap, loopVars, kidVars, clientVars, daemonVars, BootTypeOK,
         Requests, DaemonInv
<1>19. CASE UNCHANGED bootVars
  BY <1>19
     DEF bootVars, loopVars, kidVars, clientVars, daemonVars, BootTypeOK,
         Requests, DaemonInv
<1> QED
  BY <1>1, <1>2, <1>3, <1>4, <1>5, <1>6, <1>7, <1>8, <1>9, <1>10, <1>11, <1>12,
     <1>13, <1>14, <1>15, <1>16, <1>17, <1>18, <1>19
  DEF BootNext, Kid, DLoop

(* Every step keeps the daemon's account true.                             *)
LEMMA KeepsDaemonHonest ==
  ASSUME BootInv, [BootNext]_bootVars
  PROVE  DaemonHonest'
<1> USE RequestedAssumption, ProcsAssumption, OldAssumption DEF BootInv
<1>1. ASSUME NEW p \in Procs, ShellStarts(p) PROVE DaemonHonest'
  <2>1. p \notin Requested /\ \A q \in Procs \ {p} : at'[q] = at[q]
    BY <1>1, StartChanges DEF ShellStarts, StartupInv
  <2> QED BY <1>1, <2>1
             DEF ShellStarts, loopVars, kidVars, clientVars, daemonVars,
                 BootTypeOK, Requests, DaemonInv, DaemonHonest,
                 LaunchedWhenAsked, DaemonKeepsOnlyFailed, vars
<1>2. ASSUME NEW p \in Procs, LibsuRuns(p) PROVE DaemonHonest'
  <2>1. \A q \in Procs : at'[q] = "absent" <=> at[q] = "absent"
    BY <1>2, RunningStartsNobody
  <2> QED BY <1>2, <2>1
             DEF LibsuRuns, loopVars, kidVars, clientVars, daemonVars,
                 BootTypeOK, Requests, DaemonInv, DaemonHonest,
                 LaunchedWhenAsked, DaemonKeepsOnlyFailed, vars
<1>3. ASSUME NEW p \in Requested, DConnect(p) PROVE DaemonHonest'
  BY <1>3
     DEF DConnect, loopVars, kidVars, clientVars, daemonVars, BootTypeOK,
         Requests, DaemonInv, DaemonHonest, LaunchedWhenAsked,
         DaemonKeepsOnlyFailed, vars
<1>4. ASSUME NEW p \in Requested, DSend(p) PROVE DaemonHonest'
  BY <1>4
     DEF DSend, loopVars, kidVars, clientVars, daemonVars, BootTypeOK,
         Requests, DaemonInv, DaemonHonest, LaunchedWhenAsked,
         DaemonKeepsOnlyFailed, vars
<1>5. ASSUME NEW p \in Requested, KidGivesUp(p) PROVE DaemonHonest'
  BY <1>5
     DEF KidGivesUp, loopVars, kidVars, clientVars, daemonVars, BootTypeOK,
         Requests, DaemonInv, DaemonHonest, LaunchedWhenAsked,
         DaemonKeepsOnlyFailed, vars
<1>6. ASSUME NEW p \in Requested, KidAnswers(p) PROVE DaemonHonest'
  BY <1>6
     DEF KidAnswers, loopVars, kidVars, clientVars, daemonVars, BootTypeOK,
         Requests, DaemonInv, DaemonHonest, LaunchedWhenAsked,
         DaemonKeepsOnlyFailed, vars
<1>7. ASSUME NEW p \in Requested, KidExecFails(p) PROVE DaemonHonest'
  BY <1>7
     DEF KidExecFails, loopVars, kidVars, clientVars, daemonVars, BootTypeOK,
         Requests, DaemonInv, DaemonHonest, LaunchedWhenAsked,
         DaemonKeepsOnlyFailed, vars
<1>8. ASSUME NEW p \in Requested, KidBecomesLibsu(p) PROVE DaemonHonest'
  <2>1. \A q \in Procs \ {p} : at'[q] = at[q]
    BY <1>8, StartChanges DEF KidBecomesLibsu, StartupInv
  <2> QED BY <1>8, <2>1
             DEF KidBecomesLibsu, loopVars, kidVars, clientVars, daemonVars,
                 BootTypeOK, Requests, DaemonInv, DaemonHonest,
                 LaunchedWhenAsked, DaemonKeepsOnlyFailed, vars
<1>9. ASSUME NEW p \in Requested, KidEnds(p) PROVE DaemonHonest'
  BY <1>9
     DEF KidEnds, loopVars, kidVars, clientVars, daemonVars, BootTypeOK,
         Requests, DaemonInv, DaemonHonest, LaunchedWhenAsked,
         DaemonKeepsOnlyFailed, vars
<1>10. ASSUME NEW p \in Requested, DAccept(p) PROVE DaemonHonest'
  BY <1>10
     DEF DAccept, loopVars, kidVars, clientVars, daemonVars, BootTypeOK,
         Requests, DaemonInv, DaemonHonest, LaunchedWhenAsked,
         DaemonKeepsOnlyFailed, vars
<1>11. ASSUME DCheckPasses PROVE DaemonHonest'
  BY <1>11
     DEF DCheckPasses, loopVars, kidVars, clientVars, daemonVars, BootTypeOK,
         Requests, DaemonInv, DaemonHonest, LaunchedWhenAsked,
         DaemonKeepsOnlyFailed, vars
<1>12. ASSUME DCheckFails PROVE DaemonHonest'
  BY <1>12
     DEF DCheckFails, Refuse, DHangUp, loopVars, kidVars, clientVars,
         daemonVars, BootTypeOK, Requests, DaemonInv, DaemonHonest,
         LaunchedWhenAsked, DaemonKeepsOnlyFailed, vars
<1>13. ASSUME DReadNothing PROVE DaemonHonest'
  BY <1>13
     DEF DReadNothing, Refuse, DHangUp, loopVars, kidVars, clientVars,
         daemonVars, BootTypeOK, Requests, DaemonInv, DaemonHonest,
         LaunchedWhenAsked, DaemonKeepsOnlyFailed, vars
<1>14. ASSUME DPing PROVE DaemonHonest'
  BY <1>14
     DEF DPing, DHangUp, loopVars, kidVars, clientVars, daemonVars,
         BootTypeOK, Requests, DaemonInv, DaemonHonest, LaunchedWhenAsked,
         DaemonKeepsOnlyFailed, vars
<1>15. ASSUME DRead PROVE DaemonHonest'
  BY <1>15
     DEF DRead, loopVars, kidVars, clientVars, daemonVars, BootTypeOK,
         Requests, DaemonInv, DaemonHonest, LaunchedWhenAsked,
         DaemonKeepsOnlyFailed, vars
<1>16. ASSUME DFork PROVE DaemonHonest'
  BY <1>16
     DEF DFork, DHangUp, loopVars, kidVars, clientVars, daemonVars,
         BootTypeOK, Requests, DaemonInv, DaemonHonest, LaunchedWhenAsked,
         DaemonKeepsOnlyFailed, vars
<1>17. ASSUME DForkFails PROVE DaemonHonest'
  BY <1>17
     DEF DForkFails, loopVars, kidVars, clientVars, daemonVars, BootTypeOK,
         Requests, DaemonInv, DaemonHonest, LaunchedWhenAsked,
         DaemonKeepsOnlyFailed, vars
<1>18. ASSUME DReap PROVE DaemonHonest'
  BY <1>18
     DEF DReap, loopVars, kidVars, clientVars, daemonVars, BootTypeOK,
         Requests, DaemonInv, DaemonHonest, LaunchedWhenAsked,
         DaemonKeepsOnlyFailed, vars
<1>19. CASE UNCHANGED bootVars
  BY <1>19
     DEF bootVars, loopVars, kidVars, clientVars, daemonVars, BootTypeOK,
         Requests, DaemonInv, DaemonHonest, LaunchedWhenAsked,
         DaemonKeepsOnlyFailed, vars
<1> QED
  BY <1>1, <1>2, <1>3, <1>4, <1>5, <1>6, <1>7, <1>8, <1>9, <1>10, <1>11, <1>12,
     <1>13, <1>14, <1>15, <1>16, <1>17, <1>18, <1>19
  DEF BootNext, Kid, DLoop

(* Nobody has called yet, and at most the old server runs.                 *)
LEMMA InitBootInv == BootInit => BootInv
<1> SUFFICES ASSUME BootInit PROVE BootInv
  OBVIOUS
<1> USE RequestedAssumption, ProcsAssumption, OldAssumption DEF BootInit
<1>1. StartupInv
  BY InitStartupInv
<1>2. BootTypeOK
  BY <1>1 DEF BootTypeOK, StartupInv, Requests
<1>3. DaemonInv
  BY DEF DaemonInv
<1>4. DaemonHonest
  BY DEF DaemonHonest, LaunchedWhenAsked, DaemonKeepsOnlyFailed, Init
<1> QED BY <1>1, <1>2, <1>3, <1>4 DEF BootInv

(* libsu's starts and rtdaemon keep what each of them is to keep, together *)
(* (su.c: main, do_run_server; rtdaemon.c: main).                          *)
THEOREM BootInvariant == BootSpec => []BootInv
<1>1. ASSUME BootInv, [BootNext]_bootVars PROVE BootInv'
  <2>1. StartupInv'
    BY <1>1, DaemonStepsAreStarts, StartupStep DEF BootInv
  <2> QED BY <1>1, <2>1, KeepsBootTypes, KeepsDaemonInv, KeepsDaemonHonest
             DEF BootInv
<1> QED BY <1>1, InitBootInv, PTL DEF BootSpec

(* The permanent name passes from one server to the next beside a daemon   *)
(* that launches servers of its own.                                       *)
THEOREM HandoverBesideDaemon == BootSpec => []Handover
<1> QED BY DaemonImplementsStartup, HandoverAlways, PTL

(* Java hears only of the address that was bound, whoever launched libsu.  *)
THEOREM JavaToldBesideDaemon == BootSpec => []JavaToldRightly
<1> QED BY DaemonImplementsStartup, JavaToldRightlyAlways, PTL

(* The daemon runs libsu for a caller it has checked and answered, and     *)
(* keeps open no connection but the one it serves and those whose fork     *)
(* failed (rtdaemon.c lines 53-127).                                       *)
THEOREM DaemonHonestAlways == BootSpec => []DaemonHonest
<1>1. BootInv => DaemonHonest
  BY DEF BootInv
<1> QED BY <1>1, BootInvariant, PTL
=============================================================================
