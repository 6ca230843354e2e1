----------------------- MODULE ServiceManagerProofs -----------------------
(***************************************************************************)
(* Proofs about ServiceManager, for any threads, clients, services and     *)
(* number of lives of the server: IInv is inductive, the properties that   *)
(* the model checker checks on small instances follow from it, and the     *)
(* framework implements the promise of ServiceDirectory: its initial state *)
(* is one of the directory's, and each of its steps is a step of the       *)
(* directory or leaves it unchanged.  What a process is bound to is its    *)
(* channel, the phase of a thread follows from its position.               *)
(***************************************************************************)
EXTENDS ServiceManager, FiniteSetTheorems, TLAPS

USE ServerAssumption, ProcOfAssumption, IdsAssumption, NoneAssumption DEF Procs,
   Alive, IsLocal, At, Goto, serverVars, procVars, deathVars, threadVars

(* What a process knows of its wrappers stays true of a step that leaves   *)
(* the binders alone, when it is true of the wrappers newly held.          *)
LEMMA EntryFrame ==
  ASSUME EntryInv, UNCHANGED <<channel, impl, inc, up, cache>>,
         \A u \in Threads : Holding(u)' => \/ Holding(u) /\ held'[u] = held[u] /\ req'[u] = req[u]
                                          \/ GoodEntry(held'[u], ProcOf[u], req'[u])
  PROVE  EntryInv'
<1>1. ASSUME NEW p \in Procs, NEW id \in Ids, cache'[p][id] # None
      PROVE  GoodEntry(cache[p][id], p, id)'
  <2>1. GoodEntry(cache'[p][id], p, id)
    BY <1>1 DEF EntryInv
  <2> QED BY <2>1 DEF GoodEntry
<1>2. ASSUME NEW u \in Threads, Holding(u)'
      PROVE  GoodEntry(held[u], ProcOf[u], req[u])'
  <2>1. GoodEntry(held'[u], ProcOf[u], req'[u])
    BY <1>2 DEF EntryInv
  <2> QED BY <2>1 DEF GoodEntry
<1> QED BY <1>1, <1>2 DEF EntryInv

(* The initial state satisfies the inductive invariant.                    *)
LEMMA InitInv == Init => IInv
<1> SUFFICES ASSUME Init PROVE IInv OBVIOUS
<1>1. TypeOK
    BY DEF Init, TypeOK, Labels, Holding, HeldImpl, Using, GoodEntry, Refetching
<1>2. IncarnationInv
    BY DEF Init, IncarnationInv, Labels, Holding, HeldImpl, Using, GoodEntry,
       Refetching
<1>3. LockInv
    BY DEF Init, LockInv, Labels, Holding, HeldImpl, Using, GoodEntry,
       Refetching
<1>4. ChannelInv
    BY DEF Init, ChannelInv, Labels, Holding, HeldImpl, Using, GoodEntry,
       Refetching
<1>5. ThreadInv
    BY DEF Init, ThreadInv, Labels, Holding, HeldImpl, Using, GoodEntry,
       Refetching
<1>6. EntryInv
    BY DEF Init, EntryInv, Labels, Holding, HeldImpl, Using, GoodEntry,
       Refetching
<1>7. BinderInv
    BY DEF Init, BinderInv, Labels, Holding, HeldImpl, Using, GoodEntry,
       Refetching
<1>8. RefetchInv
    BY DEF Init, RefetchInv, Labels, Holding, HeldImpl, Using, GoodEntry,
       Refetching
<1> QED BY <1>1, <1>2, <1>3, <1>4, <1>5, <1>6, <1>7, <1>8 DEF IInv

(* Every step preserves it: one step per action, one part of the invariant *)
(* under each.                                                             *)
LEMMA NextInv == IInv /\ [Next]_vars => IInv'
<1> SUFFICES ASSUME IInv, [Next]_vars PROVE IInv' OBVIOUS
<1> USE DEF IInv
<1>1. ASSUME NEW t \in Threads, ReadChannel(t) PROVE IInv'
  <2>1. TypeOK' BY <1>1 DEF ReadChannel, TypeOK, Labels
  <2>2. IncarnationInv' BY <1>1 DEF ReadChannel, TypeOK, IncarnationInv
  <2>3. LockInv' BY <1>1 DEF ReadChannel, TypeOK, LockInv
  <2>4. ChannelInv' BY <1>1 DEF ReadChannel, TypeOK, ChannelInv, LockInv
  <2>5. ThreadInv' BY <1>1 DEF ReadChannel, TypeOK, ThreadInv, Using, ChannelInv
  <2>6. EntryInv'
      BY <1>1 DEF ReadChannel, TypeOK, EntryInv, GoodEntry, Holding, HeldImpl,
         ChannelInv, ThreadInv
  <2>7. BinderInv'
      BY <1>1 DEF ReadChannel, TypeOK, BinderInv, ChannelInv, ThreadInv
  <2>8. RefetchInv' BY <1>1 DEF ReadChannel, TypeOK, RefetchInv, Refetching
  <2> QED BY <2>1, <2>2, <2>3, <2>4, <2>5, <2>6, <2>7, <2>8
<1>2. ASSUME NEW t \in Threads, EnterQuery(t) PROVE IInv'
  <2>1. TypeOK'
    <3>a. pc \in [Threads -> Labels]
      BY DEF TypeOK
    <3>b. pc' = [pc EXCEPT ![t] = "query"] \/ pc' = [pc EXCEPT ![t] = "fetch"]
      BY <1>2 DEF EnterQuery
    <3>1. pc' \in [Threads -> Labels]
      BY <3>a, <3>b DEF Labels
    <3>c. lock \in [Procs -> Threads \cup {None}] /\ svc \in [Threads -> Nat] /\ channel \in [Procs -> Nat]
      BY DEF TypeOK
    <3>2. lock' \in [Procs -> Threads \cup {None}]
      <4>1. lock' = lock \/ lock' = [lock EXCEPT ![ProcOf[t]] = t]
        BY <1>2 DEF EnterQuery
      <4> QED BY <3>c, <4>1
    <3>3. svc' \in [Threads -> Nat]
      <4>1. svc' = svc \/ svc' = [svc EXCEPT ![t] = channel[ProcOf[t]]]
        BY <1>2 DEF EnterQuery
      <4> QED BY <3>c, <4>1
    <3> QED BY <1>2, <3>1, <3>2, <3>3 DEF EnterQuery, TypeOK
  <2>2. IncarnationInv' BY <1>2 DEF EnterQuery, TypeOK, IncarnationInv
  <2>3. LockInv'
    <3>1. CASE /\ pc' = [pc EXCEPT ![t] = "query"]
               /\ lock' = [lock EXCEPT ![ProcOf[t]] = t]
      BY <1>2, <3>1 DEF EnterQuery, TypeOK, LockInv
    <3>2. CASE /\ pc' = [pc EXCEPT ![t] = "fetch"]
               /\ lock' = lock
      BY <1>2, <3>2 DEF EnterQuery, TypeOK, LockInv
    <3> QED BY <1>2, <3>1, <3>2 DEF EnterQuery
  <2>4. ChannelInv' BY <1>2 DEF EnterQuery, TypeOK, ChannelInv, LockInv
  <2>5. ThreadInv' BY <1>2 DEF EnterQuery, TypeOK, ThreadInv, Using, ChannelInv
  <2>6. EntryInv'
      BY <1>2 DEF EnterQuery, TypeOK, EntryInv, GoodEntry, Holding, HeldImpl,
         ChannelInv, ThreadInv
  <2>7. BinderInv'
      BY <1>2 DEF EnterQuery, TypeOK, BinderInv, ChannelInv, ThreadInv
  <2>8. RefetchInv' BY <1>2 DEF EnterQuery, TypeOK, RefetchInv, Refetching
  <2> QED BY <2>1, <2>2, <2>3, <2>4, <2>5, <2>6, <2>7, <2>8
<1>3. ASSUME NEW t \in Threads, QueryAnswered(t) PROVE IInv'
  <2>1. TypeOK' BY <1>3 DEF QueryAnswered, TypeOK, Labels
  <2>2. IncarnationInv' BY <1>3 DEF QueryAnswered, TypeOK, IncarnationInv
  <2>3. LockInv' BY <1>3 DEF QueryAnswered, TypeOK, LockInv
  <2>4. ChannelInv'
      BY <1>3 DEF QueryAnswered, TypeOK, ChannelInv, LockInv, IncarnationInv
  <2>5. ThreadInv'
      BY <1>3 DEF QueryAnswered, TypeOK, ThreadInv, Using, ChannelInv
  <2>6. EntryInv'
      BY <1>3 DEF QueryAnswered, TypeOK, EntryInv, GoodEntry, Holding, HeldImpl,
         ChannelInv, ThreadInv
  <2>7. BinderInv'
      BY <1>3 DEF QueryAnswered, TypeOK, BinderInv, ChannelInv, ThreadInv
  <2>8. RefetchInv' BY <1>3 DEF QueryAnswered, TypeOK, RefetchInv, Refetching
  <2> QED BY <2>1, <2>2, <2>3, <2>4, <2>5, <2>6, <2>7, <2>8
<1>4. ASSUME NEW t \in Threads, QueryFailed(t) PROVE IInv'
  <2>1. TypeOK' BY <1>4 DEF QueryFailed, NoBinder, TypeOK, Labels
  <2>2. IncarnationInv'
      BY <1>4 DEF QueryFailed, NoBinder, TypeOK, IncarnationInv
  <2>3. LockInv' BY <1>4 DEF QueryFailed, NoBinder, TypeOK, LockInv
  <2>4. ChannelInv'
      BY <1>4 DEF QueryFailed, NoBinder, TypeOK, ChannelInv, LockInv
  <2>5. ThreadInv'
      BY <1>4 DEF QueryFailed, NoBinder, TypeOK, ThreadInv, Using, ChannelInv
  <2>6. EntryInv'
      BY <1>4 DEF QueryFailed, NoBinder, TypeOK, EntryInv, GoodEntry, Holding,
         HeldImpl, ChannelInv, ThreadInv
  <2>7. BinderInv'
      BY <1>4 DEF QueryFailed, NoBinder, TypeOK, BinderInv, ChannelInv,
         ThreadInv
  <2>8. RefetchInv'
      BY <1>4 DEF QueryFailed, NoBinder, TypeOK, RefetchInv, Refetching
  <2> QED BY <2>1, <2>2, <2>3, <2>4, <2>5, <2>6, <2>7, <2>8
<1>5. ASSUME NEW t \in Threads, Publish(t) PROVE IInv'
  <2>1. TypeOK' BY <1>5 DEF Publish, TypeOK, Labels
  <2>2. IncarnationInv' BY <1>5 DEF Publish, TypeOK, IncarnationInv, ChannelInv
  <2>3. LockInv' BY <1>5 DEF Publish, TypeOK, LockInv
  <2>4. ChannelInv' BY <1>5 DEF Publish, TypeOK, ChannelInv, LockInv
  <2>5. ThreadInv' BY <1>5 DEF Publish, TypeOK, ThreadInv, Using, ChannelInv
  <2>6. EntryInv'
      BY <1>5 DEF Publish, TypeOK, EntryInv, GoodEntry, Holding, HeldImpl,
         ChannelInv, ThreadInv
  <2>7. BinderInv' BY <1>5 DEF Publish, TypeOK, BinderInv, ChannelInv, ThreadInv
  <2>8. RefetchInv'
    <3>1. channel[ProcOf[t]] = 0
      BY <1>5 DEF Publish, ChannelInv
    <3>2. \A u \in Threads : ProcOf[u] = ProcOf[t] => ~Refetching(u)
      BY <3>1 DEF Refetching, Holding, EntryInv, GoodEntry
    <3>3. \A u \in Threads : Refetching(u)' => Refetching(u)
      BY <1>5 DEF Publish, Refetching, TypeOK
    <3>4. ASSUME NEW u \in Threads, Refetching(u)'
          PROVE  channel'[ProcOf[u]] = channel[ProcOf[u]] /\ ~Alive(channel[ProcOf[u]])
      BY <1>5, <3>2, <3>3, <3>4 DEF Publish, TypeOK, RefetchInv
    <3> QED BY <1>5, <3>4 DEF Publish, RefetchInv
  <2> QED BY <2>1, <2>2, <2>3, <2>4, <2>5, <2>6, <2>7, <2>8
<1>6. ASSUME NEW t \in Threads, LinkManager(t) PROVE IInv'
  <2>1. TypeOK' BY <1>6 DEF LinkManager, TypeOK, Labels
  <2>2. IncarnationInv' BY <1>6 DEF LinkManager, TypeOK, IncarnationInv
  <2>3. LockInv' BY <1>6 DEF LinkManager, TypeOK, LockInv
  <2>4. ChannelInv' BY <1>6 DEF LinkManager, TypeOK, ChannelInv, LockInv
  <2>5. ThreadInv' BY <1>6 DEF LinkManager, TypeOK, ThreadInv, Using, ChannelInv
  <2>6. EntryInv'
      BY <1>6 DEF LinkManager, TypeOK, EntryInv, GoodEntry, Holding, HeldImpl,
         ChannelInv, ThreadInv
  <2>7. BinderInv'
      BY <1>6 DEF LinkManager, TypeOK, BinderInv, ChannelInv, ThreadInv
  <2>8. RefetchInv' BY <1>6 DEF LinkManager, TypeOK, RefetchInv, Refetching
  <2> QED BY <2>1, <2>2, <2>3, <2>4, <2>5, <2>6, <2>7, <2>8
<1>7. ASSUME NEW t \in Threads, FetchTooEarly(t) PROVE IInv'
  <2>1. TypeOK' BY <1>7 DEF FetchTooEarly, NoBinder, TypeOK, Labels
  <2>2. IncarnationInv'
      BY <1>7 DEF FetchTooEarly, NoBinder, TypeOK, IncarnationInv
  <2>3. LockInv' BY <1>7 DEF FetchTooEarly, NoBinder, TypeOK, LockInv
  <2>4. ChannelInv'
      BY <1>7 DEF FetchTooEarly, NoBinder, TypeOK, ChannelInv, LockInv
  <2>5. ThreadInv'
      BY <1>7 DEF FetchTooEarly, NoBinder, TypeOK, ThreadInv, Using, ChannelInv
  <2>6. EntryInv'
      BY <1>7 DEF FetchTooEarly, NoBinder, TypeOK, EntryInv, GoodEntry, Holding,
         HeldImpl, ChannelInv, ThreadInv
  <2>7. BinderInv'
      BY <1>7 DEF FetchTooEarly, NoBinder, TypeOK, BinderInv, ChannelInv,
         ThreadInv
  <2>8. RefetchInv'
      BY <1>7 DEF FetchTooEarly, NoBinder, TypeOK, RefetchInv, Refetching
  <2> QED BY <2>1, <2>2, <2>3, <2>4, <2>5, <2>6, <2>7, <2>8
<1>8. ASSUME NEW t \in Threads, FetchOutOfRange(t) PROVE IInv'
  <2>1. TypeOK' BY <1>8 DEF FetchOutOfRange, TypeOK, Labels
  <2>2. IncarnationInv' BY <1>8 DEF FetchOutOfRange, TypeOK, IncarnationInv
  <2>3. LockInv' BY <1>8 DEF FetchOutOfRange, TypeOK, LockInv
  <2>4. ChannelInv' BY <1>8 DEF FetchOutOfRange, TypeOK, ChannelInv, LockInv
  <2>5. ThreadInv'
      BY <1>8 DEF FetchOutOfRange, TypeOK, ThreadInv, Using, ChannelInv
  <2>6. EntryInv'
      BY <1>8 DEF FetchOutOfRange, TypeOK, EntryInv, GoodEntry, Holding,
         HeldImpl, ChannelInv, ThreadInv
  <2>7. BinderInv'
      BY <1>8 DEF FetchOutOfRange, TypeOK, BinderInv, ChannelInv, ThreadInv
  <2>8. RefetchInv' BY <1>8 DEF FetchOutOfRange, TypeOK, RefetchInv, Refetching
  <2> QED BY <2>1, <2>2, <2>3, <2>4, <2>5, <2>6, <2>7, <2>8
<1>9. ASSUME NEW t \in Threads, FetchNotInstalled(t) PROVE IInv'
  <2>1. TypeOK' BY <1>9 DEF FetchNotInstalled, NoBinder, TypeOK, Labels
  <2>2. IncarnationInv'
      BY <1>9 DEF FetchNotInstalled, NoBinder, TypeOK, IncarnationInv
  <2>3. LockInv' BY <1>9 DEF FetchNotInstalled, NoBinder, TypeOK, LockInv
  <2>4. ChannelInv'
      BY <1>9 DEF FetchNotInstalled, NoBinder, TypeOK, ChannelInv, LockInv
  <2>5. ThreadInv'
      BY <1>9 DEF FetchNotInstalled, NoBinder, TypeOK, ThreadInv, Using,
         ChannelInv
  <2>6. EntryInv'
      BY <1>9 DEF FetchNotInstalled, NoBinder, TypeOK, EntryInv, GoodEntry,
         Holding, HeldImpl, ChannelInv, ThreadInv
  <2>7. BinderInv'
      BY <1>9 DEF FetchNotInstalled, NoBinder, TypeOK, BinderInv, ChannelInv,
         ThreadInv
  <2>8. RefetchInv'
      BY <1>9 DEF FetchNotInstalled, NoBinder, TypeOK, RefetchInv, Refetching
  <2> QED BY <2>1, <2>2, <2>3, <2>4, <2>5, <2>6, <2>7, <2>8
<1>10. ASSUME NEW t \in Threads, FetchInstalled(t) PROVE IInv'
  <2>1. TypeOK' BY <1>10 DEF FetchInstalled, TypeOK, Labels
  <2>2. IncarnationInv' BY <1>10 DEF FetchInstalled, TypeOK, IncarnationInv
  <2>3. LockInv' BY <1>10 DEF FetchInstalled, TypeOK, LockInv
  <2>4. ChannelInv' BY <1>10 DEF FetchInstalled, TypeOK, ChannelInv, LockInv
  <2>5. ThreadInv'
      BY <1>10 DEF FetchInstalled, TypeOK, ThreadInv, Using, ChannelInv
  <2>6. EntryInv'
      BY <1>10 DEF FetchInstalled, TypeOK, EntryInv, GoodEntry, Holding,
         HeldImpl, ChannelInv, ThreadInv
  <2>7. BinderInv'
      BY <1>10 DEF FetchInstalled, TypeOK, BinderInv, ChannelInv, ThreadInv
  <2>8. RefetchInv' BY <1>10 DEF FetchInstalled, TypeOK, RefetchInv, Refetching
  <2> QED BY <2>1, <2>2, <2>3, <2>4, <2>5, <2>6, <2>7, <2>8
<1>11. ASSUME NEW t \in Threads, CreateInstance(t) PROVE IInv'
  <2>1. TypeOK' BY <1>11 DEF CreateInstance, TypeOK, Labels, ThreadInv
  <2>2. IncarnationInv' BY <1>11 DEF CreateInstance, TypeOK, IncarnationInv
  <2>3. LockInv' BY <1>11 DEF CreateInstance, TypeOK, LockInv
  <2>4. ChannelInv' BY <1>11 DEF CreateInstance, TypeOK, ChannelInv, LockInv
  <2>5. ThreadInv'
      BY <1>11 DEF CreateInstance, TypeOK, ThreadInv, Using, ChannelInv
  <2>6. EntryInv'
      BY <1>11 DEF CreateInstance, TypeOK, EntryInv, GoodEntry, Holding,
         HeldImpl, ChannelInv, ThreadInv
  <2>7. BinderInv'
      BY <1>11 DEF CreateInstance, TypeOK, BinderInv, ChannelInv, ThreadInv
  <2>8. RefetchInv' BY <1>11 DEF CreateInstance, TypeOK, RefetchInv, Refetching
  <2> QED BY <2>1, <2>2, <2>3, <2>4, <2>5, <2>6, <2>7, <2>8
<1>12. ASSUME NEW t \in Threads, Reply(t) PROVE IInv'
  <2>1. TypeOK'
    <3>1. \E l \in Labels : pc' = [pc EXCEPT ![t] = l]
      BY <1>12 DEF Reply, Labels
    <3>2. [inc |-> svc[t], id |-> req[t], n |-> instance[req[t]]] \in Binder
      BY <1>12 DEF Reply, TypeOK, ThreadInv, Binder
    <3>3. remote' \in [Threads -> Binder \cup {None}]
      BY <1>12, <3>2 DEF Reply, TypeOK
    <3>4. cont' \in [Threads -> {"new", "asif", "send"}] /\ svc' \in [Threads -> Nat]
      BY <1>12 DEF Reply, TypeOK
    <3>5. UNCHANGED <<serverVars, procVars, deathVars, req, held, out>>
      BY <1>12 DEF Reply
    <3>6. pc' \in [Threads -> Labels]
      BY <3>1 DEF TypeOK
    <3> QED BY <3>3, <3>4, <3>5, <3>6 DEF TypeOK
  <2>2. IncarnationInv' BY <1>12 DEF Reply, Binder, TypeOK, IncarnationInv
  <2>3. LockInv'
    <3>1. /\ lock' = lock
          /\ pc[t] = "reply"
          /\ \E l \in {"ready", "wrap", "send"} : pc' = [pc EXCEPT ![t] = l]
      BY <1>12 DEF Reply
    <3> QED BY <3>1 DEF TypeOK, LockInv
  <2>4. ChannelInv' BY <1>12 DEF Reply, Binder, TypeOK, ChannelInv, LockInv
  <2>5. ThreadInv'
      BY <1>12 DEF Reply, Binder, TypeOK, ThreadInv, Using, ChannelInv
  <2>6. EntryInv'
      BY <1>12 DEF Reply, Binder, TypeOK, EntryInv, GoodEntry, Holding,
         HeldImpl, ChannelInv, ThreadInv
  <2>7. BinderInv'
      BY <1>12 DEF Reply, Binder, TypeOK, BinderInv, ChannelInv, ThreadInv
  <2>8. RefetchInv' BY <1>12 DEF Reply, Binder, TypeOK, RefetchInv, Refetching
  <2> QED BY <2>1, <2>2, <2>3, <2>4, <2>5, <2>6, <2>7, <2>8
<1>13. ASSUME NEW t \in Threads, FetchDied(t) PROVE IInv'
  <2>1. TypeOK' BY <1>13 DEF FetchDied, NoBinder, TypeOK, Labels
  <2>2. IncarnationInv' BY <1>13 DEF FetchDied, NoBinder, TypeOK, IncarnationInv
  <2>3. LockInv' BY <1>13 DEF FetchDied, NoBinder, TypeOK, LockInv
  <2>4. ChannelInv'
      BY <1>13 DEF FetchDied, NoBinder, TypeOK, ChannelInv, LockInv
  <2>5. ThreadInv'
      BY <1>13 DEF FetchDied, NoBinder, TypeOK, ThreadInv, Using, ChannelInv
  <2>6. EntryInv'
      BY <1>13 DEF FetchDied, NoBinder, TypeOK, EntryInv, GoodEntry, Holding,
         HeldImpl, ChannelInv, ThreadInv
  <2>7. BinderInv'
      BY <1>13 DEF FetchDied, NoBinder, TypeOK, BinderInv, ChannelInv, ThreadInv
  <2>8. RefetchInv'
      BY <1>13 DEF FetchDied, NoBinder, TypeOK, RefetchInv, Refetching
  <2> QED BY <2>1, <2>2, <2>3, <2>4, <2>5, <2>6, <2>7, <2>8
<1>14. ASSUME NEW t \in Threads, Wrap(t) PROVE IInv'
  <2>1. TypeOK' BY <1>14 DEF Wrap, TypeOK, Labels, ThreadInv, Wrapper, Using
  <2>2. IncarnationInv' BY <1>14 DEF Wrap, TypeOK, IncarnationInv
  <2>3. LockInv' BY <1>14 DEF Wrap, TypeOK, LockInv
  <2>4. ChannelInv' BY <1>14 DEF Wrap, TypeOK, ChannelInv, LockInv
  <2>5. ThreadInv' BY <1>14 DEF Wrap, TypeOK, ThreadInv, Using, ChannelInv
  <2>6. EntryInv'
    <3>1. /\ remote[t] \in Binder
          /\ req[t] \in Installed
          /\ remote[t].inc = channel[ProcOf[t]]
          /\ remote[t].inc # 0
      BY <1>14 DEF Wrap, ThreadInv, Using
    <3>2. /\ impl'[t][req[t]] # None
          /\ \A u \in Threads, id \in Ids : impl'[u][id] = None => impl[u][id] = None
      BY <1>14, <3>1 DEF Wrap, TypeOK
    <3>3. \A v, p, id : GoodEntry(v, p, id) => GoodEntry(v, p, id)'
      BY <1>14, <3>2 DEF Wrap, GoodEntry, Wrapper
    <3>4. held'[t] = [owner |-> t, id |-> req[t]]
      BY <1>14 DEF Wrap, TypeOK
    <3>5. UNCHANGED <<channel, cache, req>>
      BY <1>14 DEF Wrap
    <3>6. GoodEntry(held[t], ProcOf[t], req[t])'
      BY <3>1, <3>2, <3>4, <3>5 DEF GoodEntry, Wrapper
    <3>7. \A u \in Threads : u # t /\ Holding(u)' => Holding(u) /\ held'[u] = held[u] /\ req'[u] = req[u]
      BY <1>14 DEF Wrap, Holding, TypeOK
    <3>8. \A u \in Threads : Holding(u)' => GoodEntry(held[u], ProcOf[u], req[u])'
      BY <3>3, <3>6, <3>7 DEF EntryInv
    <3> QED BY <3>3, <3>5, <3>8 DEF EntryInv
  <2>7. BinderInv'
      BY <1>14 DEF Wrap, TypeOK, BinderInv, ChannelInv, ThreadInv, Wrapper,
         Using
  <2>8. RefetchInv' BY <1>14 DEF Wrap, TypeOK, RefetchInv, Refetching
  <2> QED BY <2>1, <2>2, <2>3, <2>4, <2>5, <2>6, <2>7, <2>8
<1>15. ASSUME NEW t \in Threads, Put(t) PROVE IInv'
  <2>1. TypeOK' BY <1>15 DEF Put, TypeOK, Labels
  <2>2. IncarnationInv' BY <1>15 DEF Put, TypeOK, IncarnationInv
  <2>3. LockInv' BY <1>15 DEF Put, TypeOK, LockInv
  <2>4. ChannelInv' BY <1>15 DEF Put, TypeOK, ChannelInv, LockInv
  <2>5. ThreadInv' BY <1>15 DEF Put, TypeOK, ThreadInv, Using, ChannelInv
  <2>6. EntryInv'
    <3>1. UNCHANGED <<channel, impl, inc, up, held, req, cont>> /\ pc[t] = "put"
      BY <1>15 DEF Put
    <3>2. \A u \in Threads : Holding(u)' => Holding(u)
      BY <1>15 DEF Put, TypeOK, Holding
    <3>3. GoodEntry(held[t], ProcOf[t], req[t])
      BY <3>1 DEF EntryInv, Holding
    <3>4. \A p \in Procs, id \in Ids :
             cache'[p][id] = IF p = ProcOf[t] /\ id = req[t] THEN held[t] ELSE cache[p][id]
      BY <1>15 DEF Put, TypeOK
    <3>5. ASSUME NEW p \in Procs, NEW id \in Ids, cache'[p][id] # None
          PROVE  GoodEntry(cache[p][id], p, id)'
      <4>1. GoodEntry(cache'[p][id], p, id)
        BY <3>3, <3>4, <3>5 DEF EntryInv
      <4> QED BY <3>1, <4>1 DEF GoodEntry
    <3>6. ASSUME NEW u \in Threads, Holding(u)'
          PROVE  GoodEntry(held[u], ProcOf[u], req[u])'
      <4>1. GoodEntry(held[u], ProcOf[u], req[u])
        BY <3>2, <3>6 DEF EntryInv
      <4> QED BY <3>1, <4>1 DEF GoodEntry
    <3> QED BY <3>5, <3>6 DEF EntryInv
  <2>7. BinderInv' BY <1>15 DEF Put, TypeOK, BinderInv, ChannelInv, ThreadInv
  <2>8. RefetchInv' BY <1>15 DEF Put, TypeOK, RefetchInv, Refetching
  <2> QED BY <2>1, <2>2, <2>3, <2>4, <2>5, <2>6, <2>7, <2>8
<1>16. ASSUME NEW t \in Threads, AsInterface(t) PROVE IInv'
  <2>1. TypeOK' BY <1>16 DEF AsInterface, HeldImpl, TypeOK, Labels
  <2>2. IncarnationInv'
      BY <1>16 DEF AsInterface, HeldImpl, TypeOK, IncarnationInv
  <2>3. LockInv'
    <3>1. /\ lock' = lock
          /\ pc[t] = "asif"
          /\ \E l \in {"ready", "channel"} : pc' = [pc EXCEPT ![t] = l]
      BY <1>16 DEF AsInterface
    <3> QED BY <3>1 DEF TypeOK, LockInv
  <2>4. ChannelInv'
      BY <1>16 DEF AsInterface, HeldImpl, TypeOK, ChannelInv, LockInv
  <2>5. ThreadInv'
      BY <1>16 DEF AsInterface, HeldImpl, TypeOK, ThreadInv, Using, ChannelInv
  <2>6. EntryInv'
      BY <1>16 DEF AsInterface, HeldImpl, TypeOK, EntryInv, GoodEntry, Holding,
         ChannelInv, ThreadInv
  <2>7. BinderInv'
      BY <1>16 DEF AsInterface, HeldImpl, TypeOK, BinderInv, ChannelInv,
         ThreadInv
  <2>8. RefetchInv'
    <3>1. HeldImpl(t) = None => ~Alive(channel[ProcOf[t]])
      BY <1>16 DEF AsInterface, HeldImpl, Holding, EntryInv, GoodEntry
    <3>2. Refetching(t)' => HeldImpl(t) = None
      BY <1>16 DEF AsInterface, Refetching, TypeOK, ThreadInv
    <3>3. \A u \in Threads : u # t /\ Refetching(u)' => Refetching(u)
      BY <1>16 DEF AsInterface, Refetching, TypeOK
    <3>4. UNCHANGED <<channel, up, inc>>
      BY <1>16 DEF AsInterface
    <3> QED BY <3>1, <3>2, <3>3, <3>4 DEF RefetchInv
  <2> QED BY <2>1, <2>2, <2>3, <2>4, <2>5, <2>6, <2>7, <2>8
<1>17. ASSUME NEW t \in Threads, GetRemoteBinder(t) PROVE IInv'
  <2>1. TypeOK'
    <3>1. HeldImpl(t) \in Binder \cup {None}
      BY <1>17 DEF GetRemoteBinder, HeldImpl, TypeOK, EntryInv, GoodEntry,
         Holding, Wrapper
    <3>2. \/ remote' = [remote EXCEPT ![t] = HeldImpl(t)]
          \/ remote' = remote
      BY <1>17 DEF GetRemoteBinder
    <3>3. \E l \in {"send", "channel"} : pc' = [pc EXCEPT ![t] = l]
      BY <1>17 DEF GetRemoteBinder
    <3>4. remote' \in [Threads -> Binder \cup {None}]
      BY <3>1, <3>2 DEF TypeOK
    <3>5. pc' \in [Threads -> Labels]
      BY <3>3 DEF TypeOK, Labels
    <3>6. UNCHANGED <<serverVars, procVars, deathVars, cont, req, svc, held, out>>
      BY <1>17 DEF GetRemoteBinder
    <3> QED BY <3>4, <3>5, <3>6 DEF TypeOK
  <2>2. IncarnationInv'
      BY <1>17 DEF GetRemoteBinder, HeldImpl, TypeOK, IncarnationInv
  <2>3. LockInv'
    <3>1. /\ lock' = lock
          /\ pc[t] = "transact"
          /\ \E l \in {"send", "channel"} : pc' = [pc EXCEPT ![t] = l]
      BY <1>17 DEF GetRemoteBinder
    <3> QED BY <3>1 DEF TypeOK, LockInv
  <2>4. ChannelInv'
      BY <1>17 DEF GetRemoteBinder, HeldImpl, TypeOK, ChannelInv, LockInv
  <2>5. ThreadInv'
      BY <1>17 DEF GetRemoteBinder, HeldImpl, TypeOK, ThreadInv, BinderInv,
         Using, EntryInv, GoodEntry, Holding, Wrapper
  <2>6. EntryInv'
    <3>1. UNCHANGED <<channel, impl, inc, up, cache, held, req, cont>>
      BY <1>17 DEF GetRemoteBinder
    <3>2. \A u \in Threads : Holding(u)' => Holding(u)
      BY <1>17 DEF GetRemoteBinder, TypeOK, Holding
    <3> QED BY <3>1, <3>2, EntryFrame
  <2>7. BinderInv'
      BY <1>17 DEF GetRemoteBinder, HeldImpl, TypeOK, BinderInv, ChannelInv,
         ThreadInv
  <2>8. RefetchInv'
    <3>1. HeldImpl(t) = None => ~Alive(channel[ProcOf[t]])
      BY <1>17 DEF GetRemoteBinder, HeldImpl, Holding, EntryInv, GoodEntry
    <3>2. Refetching(t)' => HeldImpl(t) = None
      BY <1>17 DEF GetRemoteBinder, Refetching, TypeOK, ThreadInv
    <3>3. \A u \in Threads : u # t /\ Refetching(u)' => Refetching(u)
      BY <1>17 DEF GetRemoteBinder, Refetching, TypeOK
    <3>4. UNCHANGED <<channel, up, inc>>
      BY <1>17 DEF GetRemoteBinder
    <3> QED BY <3>1, <3>2, <3>3, <3>4 DEF RefetchInv
  <2> QED BY <2>1, <2>2, <2>3, <2>4, <2>5, <2>6, <2>7, <2>8
<1>18. ASSUME NEW t \in Threads, Transact(t) PROVE IInv'
  <2>1. TypeOK' BY <1>18 DEF Transact, Outcomes, TypeOK, Labels
  <2>2. IncarnationInv' BY <1>18 DEF Transact, TypeOK, IncarnationInv
  <2>3. LockInv' BY <1>18 DEF Transact, TypeOK, LockInv
  <2>4. ChannelInv' BY <1>18 DEF Transact, TypeOK, ChannelInv, LockInv
  <2>5. ThreadInv' BY <1>18 DEF Transact, TypeOK, ThreadInv, Using, ChannelInv
  <2>6. EntryInv'
      BY <1>18 DEF Transact, TypeOK, EntryInv, GoodEntry, Holding, HeldImpl,
         ChannelInv, ThreadInv
  <2>7. BinderInv'
      BY <1>18 DEF Transact, TypeOK, BinderInv, ChannelInv, ThreadInv
  <2>8. RefetchInv' BY <1>18 DEF Transact, TypeOK, RefetchInv, Refetching
  <2> QED BY <2>1, <2>2, <2>3, <2>4, <2>5, <2>6, <2>7, <2>8
<1>19. ASSUME NEW t \in Threads, NEW id \in Ids, Lookup(t, id) PROVE IInv'
  <2>1. TypeOK' BY <1>19 DEF Lookup, TypeOK, Labels
  <2>2. IncarnationInv' BY <1>19 DEF Lookup, TypeOK, IncarnationInv
  <2>3. LockInv' BY <1>19 DEF Lookup, TypeOK, LockInv
  <2>4. ChannelInv' BY <1>19 DEF Lookup, TypeOK, ChannelInv, LockInv
  <2>5. ThreadInv' BY <1>19 DEF Lookup, TypeOK, ThreadInv, Using, ChannelInv
  <2>6. EntryInv'
    <3>1. UNCHANGED <<channel, impl, inc, up, cache>>
      BY <1>19 DEF Lookup
    <3>2. /\ held'[t] = cache[ProcOf[t]][id] /\ req'[t] = id
          /\ pc'[t] = IF held'[t] = None THEN "channel" ELSE "asif"
          /\ cont'[t] = "new"
      BY <1>19 DEF Lookup, TypeOK
    <3>3. Holding(t)' => GoodEntry(held'[t], ProcOf[t], req'[t])
      BY <3>2 DEF Holding, EntryInv
    <3>4. \A u \in Threads \ {t} : /\ Holding(u)' => Holding(u)
                                   /\ held'[u] = held[u] /\ req'[u] = req[u]
      BY <1>19 DEF Lookup, TypeOK, Holding
    <3> QED BY <3>1, <3>3, <3>4, EntryFrame
  <2>7. BinderInv' BY <1>19 DEF Lookup, TypeOK, BinderInv, ChannelInv, ThreadInv
  <2>8. RefetchInv' BY <1>19 DEF Lookup, TypeOK, RefetchInv, Refetching
  <2> QED BY <2>1, <2>2, <2>3, <2>4, <2>5, <2>6, <2>7, <2>8
<1>20. ASSUME NEW t \in Threads, Invoke(t) PROVE IInv'
  <2>1. TypeOK' BY <1>20 DEF Invoke, TypeOK, Labels
  <2>2. IncarnationInv' BY <1>20 DEF Invoke, TypeOK, IncarnationInv
  <2>3. LockInv' BY <1>20 DEF Invoke, TypeOK, LockInv
  <2>4. ChannelInv' BY <1>20 DEF Invoke, TypeOK, ChannelInv, LockInv
  <2>5. ThreadInv' BY <1>20 DEF Invoke, TypeOK, ThreadInv, Using, ChannelInv
  <2>6. EntryInv'
      BY <1>20 DEF Invoke, TypeOK, EntryInv, GoodEntry, Holding, HeldImpl,
         ChannelInv, ThreadInv
  <2>7. BinderInv' BY <1>20 DEF Invoke, TypeOK, BinderInv, ChannelInv, ThreadInv
  <2>8. RefetchInv' BY <1>20 DEF Invoke, TypeOK, RefetchInv, Refetching
  <2> QED BY <2>1, <2>2, <2>3, <2>4, <2>5, <2>6, <2>7, <2>8
<1>21. ASSUME NEW t \in Threads, Drop(t) PROVE IInv'
  <2>1. TypeOK' BY <1>21 DEF Drop, TypeOK, Labels
  <2>2. IncarnationInv' BY <1>21 DEF Drop, TypeOK, IncarnationInv
  <2>3. LockInv' BY <1>21 DEF Drop, TypeOK, LockInv
  <2>4. ChannelInv' BY <1>21 DEF Drop, TypeOK, ChannelInv, LockInv
  <2>5. ThreadInv' BY <1>21 DEF Drop, TypeOK, ThreadInv, Using, ChannelInv
  <2>6. EntryInv'
      BY <1>21 DEF Drop, TypeOK, EntryInv, GoodEntry, Holding, HeldImpl,
         ChannelInv, ThreadInv
  <2>7. BinderInv' BY <1>21 DEF Drop, TypeOK, BinderInv, ChannelInv, ThreadInv
  <2>8. RefetchInv' BY <1>21 DEF Drop, TypeOK, RefetchInv, Refetching
  <2> QED BY <2>1, <2>2, <2>3, <2>4, <2>5, <2>6, <2>7, <2>8
<1>22. CASE StartServer
  <2>1. TypeOK' BY <1>22 DEF StartServer, TypeOK, Labels
  <2>2. IncarnationInv' BY <1>22 DEF StartServer, TypeOK, IncarnationInv
  <2>3. LockInv' BY <1>22 DEF StartServer, TypeOK, LockInv
  <2>4. ChannelInv' BY <1>22 DEF StartServer, TypeOK, ChannelInv, LockInv
  <2>5. ThreadInv'
      BY <1>22 DEF StartServer, TypeOK, ThreadInv, Using, ChannelInv
  <2>6. EntryInv'
      BY <1>22 DEF StartServer, TypeOK, EntryInv, GoodEntry, Holding, HeldImpl,
         IncarnationInv
  <2>7. BinderInv'
      BY <1>22 DEF StartServer, TypeOK, BinderInv, IncarnationInv, Binder
  <2>8. RefetchInv'
      BY <1>22 DEF StartServer, TypeOK, RefetchInv, Refetching, IncarnationInv
  <2> QED BY <2>1, <2>2, <2>3, <2>4, <2>5, <2>6, <2>7, <2>8
<1>23. CASE AppCreated
  <2>1. TypeOK' BY <1>23 DEF AppCreated, TypeOK, Labels
  <2>2. IncarnationInv' BY <1>23 DEF AppCreated, TypeOK, IncarnationInv
  <2>3. LockInv' BY <1>23 DEF AppCreated, TypeOK, LockInv
  <2>4. ChannelInv' BY <1>23 DEF AppCreated, TypeOK, ChannelInv, LockInv
  <2>5. ThreadInv' BY <1>23 DEF AppCreated, TypeOK, ThreadInv, Using, ChannelInv
  <2>6. EntryInv'
      BY <1>23 DEF AppCreated, TypeOK, EntryInv, GoodEntry, Holding, HeldImpl,
         ChannelInv, ThreadInv
  <2>7. BinderInv'
      BY <1>23 DEF AppCreated, TypeOK, BinderInv, ChannelInv, ThreadInv
  <2>8. RefetchInv' BY <1>23 DEF AppCreated, TypeOK, RefetchInv, Refetching
  <2> QED BY <2>1, <2>2, <2>3, <2>4, <2>5, <2>6, <2>7, <2>8
<1>24. CASE ServerDies
  <2>1. TypeOK' BY <1>24 DEF ServerDies, Survivors, TypeOK, Labels
  <2>2. IncarnationInv'
      BY <1>24 DEF ServerDies, Survivors, TypeOK, IncarnationInv
  <2>3. LockInv' BY <1>24 DEF ServerDies, Survivors, TypeOK, LockInv
  <2>4. ChannelInv'
      BY <1>24 DEF ServerDies, Survivors, TypeOK, ChannelInv, LockInv
  <2>5. ThreadInv'
      BY <1>24 DEF ServerDies, Survivors, TypeOK, ThreadInv, Using, ChannelInv
  <2>6. EntryInv'
    <3>1. ~up' /\ channel' = [channel EXCEPT ![Server] = 0] /\ Server \in Procs
      BY <1>24 DEF ServerDies
    <3>3. /\ \A id \in Ids : cache'[Server][id] = None
          /\ \A q \in Procs \ {Server}, id \in Ids : cache'[q][id] = cache[q][id]
      BY <1>24 DEF ServerDies, TypeOK
    <3>4. \A u \in Threads : IF ProcOf[u] = Server THEN ~Holding(u)'
                             ELSE /\ Holding(u)' => Holding(u)
                                  /\ held'[u] = held[u] /\ req'[u] = req[u]
      BY <1>24 DEF ServerDies, Survivors, TypeOK, Holding
    <3>5. ASSUME NEW q \in Procs, NEW id \in Ids, cache'[q][id] # None
          PROVE  GoodEntry(cache[q][id], q, id)'
      <4>1. q # Server /\ cache'[q][id] = cache[q][id] /\ GoodEntry(cache[q][id], q, id)
        BY <3>3, <3>5 DEF EntryInv
      <4>2. channel'[q] = channel[q]
        BY <3>1, <4>1 DEF TypeOK
      <4> QED BY <3>1, <4>1, <4>2 DEF GoodEntry
    <3>6. ASSUME NEW u \in Threads, Holding(u)'
          PROVE  GoodEntry(held[u], ProcOf[u], req[u])'
      <4>1. /\ ProcOf[u] # Server /\ held'[u] = held[u] /\ req'[u] = req[u]
            /\ GoodEntry(held[u], ProcOf[u], req[u])
        BY <3>4, <3>6 DEF EntryInv
      <4>2. channel'[ProcOf[u]] = channel[ProcOf[u]]
        BY <3>1, <4>1 DEF TypeOK
      <4> QED BY <3>1, <4>1, <4>2 DEF GoodEntry
    <3> QED BY <3>5, <3>6 DEF EntryInv
  <2>7. BinderInv'
      BY <1>24 DEF ServerDies, Survivors, TypeOK, BinderInv, Wrapper
  <2>8. RefetchInv'
      BY <1>24 DEF ServerDies, Survivors, TypeOK, RefetchInv, Refetching
  <2> QED BY <2>1, <2>2, <2>3, <2>4, <2>5, <2>6, <2>7, <2>8
<1>25. ASSUME NEW w \in linked, Obituary(w) PROVE IInv'
  <2>1. TypeOK' BY <1>25 DEF Obituary, TypeOK, Labels, BinderInv, Wrapper
  <2>2. IncarnationInv' BY <1>25 DEF Obituary, TypeOK, IncarnationInv
  <2>3. LockInv' BY <1>25 DEF Obituary, TypeOK, LockInv
  <2>4. ChannelInv' BY <1>25 DEF Obituary, TypeOK, ChannelInv, LockInv
  <2>5. ThreadInv' BY <1>25 DEF Obituary, TypeOK, ThreadInv, Using, ChannelInv
  <2>6. EntryInv'
    <3>1. UNCHANGED <<channel, impl, inc, up, cache, pc, held, req, cont>>
      BY <1>25 DEF Obituary
    <3>2. \A u \in Threads : Holding(u)' => Holding(u)
      BY <3>1 DEF Holding
    <3> QED BY <3>1, <3>2, EntryFrame
  <2>7. BinderInv'
    <3> DEFINE b == impl[w.owner][w.id]
    <3>1. /\ UNCHANGED <<impl, channel, linked, inc, up>>
          /\ obits' = [obits EXCEPT ![ProcOf[w.owner]] = @ \cup {b}]
          /\ ~Alive(b.inc)
      BY <1>25 DEF Obituary
    <3>2. w \in Wrapper /\ b # None /\ b \in Binder
      BY DEF BinderInv, TypeOK, Wrapper
    <3>3. b.inc <= inc
      BY <3>2 DEF IncarnationInv, TypeOK, BinderInv, Wrapper
    <3>4. \A p \in Procs : \A c \in obits'[p] : c \in obits[p] \/ c = b
      BY <3>1 DEF TypeOK
    <3> QED BY <3>1, <3>3, <3>4 DEF BinderInv
  <2>8. RefetchInv' BY <1>25 DEF Obituary, TypeOK, RefetchInv, Refetching
  <2> QED BY <2>1, <2>2, <2>3, <2>4, <2>5, <2>6, <2>7, <2>8
<1>26. ASSUME NEW w \in linked, BinderDied(w) PROVE IInv'
  <2>1. TypeOK' BY <1>26 DEF BinderDied, TypeOK, Labels
  <2>2. IncarnationInv' BY <1>26 DEF BinderDied, TypeOK, IncarnationInv
  <2>3. LockInv' BY <1>26 DEF BinderDied, TypeOK, LockInv
  <2>4. ChannelInv' BY <1>26 DEF BinderDied, TypeOK, ChannelInv, LockInv
  <2>5. ThreadInv' BY <1>26 DEF BinderDied, TypeOK, ThreadInv, Using, ChannelInv
  <2>6. EntryInv'
    <3>1. w \in Wrapper /\ impl[w.owner][w.id] # None
      BY DEF TypeOK, BinderInv
    <3>2. w.owner \in Threads /\ w.id \in Ids /\ ProcOf[w.owner] \in Procs
      BY <3>1 DEF Wrapper
    <3>3. /\ impl[w.owner][w.id] \in obits[ProcOf[w.owner]]
          /\ impl' = [impl EXCEPT ![w.owner][w.id] = None]
          /\ UNCHANGED <<up, inc, channel, cache, pc, cont, req, held>>
      BY <1>26 DEF BinderDied
    <3>4. ~Alive(channel[ProcOf[w.owner]])
      BY <3>1, <3>2, <3>3 DEF BinderInv
    <3>5. \A u \in Threads, id \in Ids :
            impl'[u][id] = None => impl[u][id] = None \/ (u = w.owner /\ id = w.id)
      BY <3>2, <3>3 DEF TypeOK
    <3>6. \A v, p, id : GoodEntry(v, p, id) => GoodEntry(v, p, id)'
      BY <3>3, <3>4, <3>5 DEF GoodEntry, Wrapper
    <3>7. \A u \in Threads : Holding(u)' = Holding(u)
      BY <3>3 DEF Holding
    <3> QED BY <3>3, <3>6, <3>7 DEF EntryInv
  <2>7. BinderInv'
    <3>1. \A v \in linked' : v # w /\ v \in linked /\ v \in Wrapper /\ w \in Wrapper
      BY <1>26 DEF BinderDied, TypeOK
    <3>2. \A v \in linked' : v.owner # w.owner \/ v.id # w.id
      BY <3>1 DEF Wrapper
    <3>3. \A v \in linked' : impl'[v.owner][v.id] = impl[v.owner][v.id]
      BY <1>26, <3>1, <3>2 DEF BinderDied, TypeOK, Wrapper
    <3>4. \A v \in linked' : ~IsLocal(v.owner) /\ impl'[v.owner][v.id] # None
      BY <3>1, <3>3 DEF BinderInv
    <3>5. \A u \in Threads, id \in Ids : impl'[u][id] # None => impl'[u][id] = impl[u][id]
      BY <1>26, <3>1 DEF BinderDied, TypeOK, Wrapper
    <3> QED BY <1>26, <3>4, <3>5 DEF BinderDied, BinderInv
  <2>8. RefetchInv' BY <1>26 DEF BinderDied, TypeOK, RefetchInv, Refetching
  <2> QED BY <2>1, <2>2, <2>3, <2>4, <2>5, <2>6, <2>7, <2>8
<1>27. CASE UNCHANGED vars
  <2>1. TypeOK' BY <1>27 DEF vars, TypeOK, Labels
  <2>2. IncarnationInv' BY <1>27 DEF vars, TypeOK, IncarnationInv
  <2>3. LockInv' BY <1>27 DEF vars, TypeOK, LockInv
  <2>4. ChannelInv' BY <1>27 DEF vars, TypeOK, ChannelInv, LockInv
  <2>5. ThreadInv' BY <1>27 DEF vars, TypeOK, ThreadInv, Using, ChannelInv
  <2>6. EntryInv'
      BY <1>27 DEF vars, TypeOK, EntryInv, GoodEntry, Holding, HeldImpl,
         ChannelInv, ThreadInv
  <2>7. BinderInv' BY <1>27 DEF vars, TypeOK, BinderInv, ChannelInv, ThreadInv
  <2>8. RefetchInv' BY <1>27 DEF vars, TypeOK, RefetchInv, Refetching
  <2> QED BY <2>1, <2>2, <2>3, <2>4, <2>5, <2>6, <2>7, <2>8
<1> QED
    BY <1>1, <1>2, <1>3, <1>4, <1>5, <1>6, <1>7, <1>8, <1>9, <1>10, <1>11,
       <1>12, <1>13, <1>14, <1>15, <1>16, <1>17, <1>18, <1>19, <1>20, <1>21,
       <1>22, <1>23, <1>24, <1>25, <1>26, <1>27 DEF Next, Step

(* Hence it holds in every reachable state.                                *)
THEOREM Inductive == Spec => []IInv
<1>1. Init => IInv BY InitInv
<1>2. IInv /\ [Next]_vars => IInv' BY NextInv
<1> QED BY <1>1, <1>2, PTL DEF Spec

(* The state has its type in every reachable state, for any number of      *)
(* clients, threads, services and lives of the server.                     *)
THEOREM TypeCorrect == Spec => []TypeOK
<1>1. IInv => TypeOK BY DEF IInv
<1> QED BY <1>1, Inductive, PTL

(* Every binder a process wraps, caches or sends to comes from the one     *)
(* server whose manager the process has (ServiceManager.java 44-99).       *)
THEOREM OneServer == Spec => []OneServerPerProcess
<1>1. IInv => OneServerPerProcess
  <2> SUFFICES ASSUME IInv, NEW t \in Threads
               PROVE  LET c == channel[ProcOf[t]] IN
                        /\ Using(t) => remote[t].inc = c
                        /\ Holding(t) /\ HeldImpl(t) # None => HeldImpl(t).inc = c
      BY DEF OneServerPerProcess
  <2>1. Using(t) => remote[t].inc = channel[ProcOf[t]]
      BY DEF IInv, ThreadInv
  <2>2. ASSUME Holding(t), HeldImpl(t) # None
        PROVE  HeldImpl(t).inc = channel[ProcOf[t]]
    <3>1. held[t] \in Wrapper /\ ProcOf[held[t].owner] = ProcOf[t]
      BY <2>2 DEF IInv, EntryInv, GoodEntry
    <3> QED BY <3>1, <2>2 DEF IInv, BinderInv, HeldImpl, Wrapper
  <2> QED BY <2>1, <2>2
<1> QED BY <1>1, Inductive, PTL

(* Whatever a thread is about to wrap, cache or call is a binder for the   *)
(* service it asked for.                                                   *)
THEOREM OwnServiceAlways == Spec => []OwnService
<1>1. IInv => OwnService
  <2> SUFFICES ASSUME IInv, NEW t \in Threads
               PROVE  /\ Using(t) => remote[t].id = req[t]
                      /\ Holding(t) => held[t].id = req[t]
                      /\ Holding(t) /\ HeldImpl(t) # None => HeldImpl(t).id = req[t]
      BY DEF OwnService
  <2>1. Using(t) => remote[t].id = req[t]
      BY DEF IInv, ThreadInv
  <2>2. Holding(t) => held[t] \in Wrapper /\ held[t].id = req[t]
      BY DEF IInv, EntryInv, GoodEntry
  <2>3. Holding(t) /\ HeldImpl(t) # None => HeldImpl(t).id = req[t]
      BY <2>2 DEF IInv, BinderInv, HeldImpl, Wrapper
  <2> QED BY <2>1, <2>2, <2>3
<1> QED BY <1>1, Inductive, PTL

(* A cleared wrapper's second request to the manager (getRemoteBinder,     *)
(* lines 204-208) can never bring a live binder: the manager is dead.      *)
THEOREM RefetchIsFutile == Spec => []RefetchFutile
<1>1. IInv => RefetchFutile
  <2> SUFFICES ASSUME IInv, NEW t \in Threads, Holding(t), HeldImpl(t) = None
               PROVE  ~Alive(channel[ProcOf[t]])
      BY DEF RefetchFutile
  <2> QED BY DEF IInv, EntryInv, GoodEntry, HeldImpl
<1> QED BY <1>1, Inductive, PTL

(* getInterface never dereferences a null Service (ServiceList.java 82).   *)
THEOREM NoNullService == Spec => []InterfaceInstalled
<1>1. IInv => InterfaceInstalled
  BY DEF IInv, EntryInv, GoodEntry, InterfaceInstalled
<1> QED BY <1>1, Inductive, PTL

(* mServerManagerImpl is written once in the life of a client process.     *)
THEOREM ChannelIsSetOnce == Spec => ChannelSetOnce
<1>1. IInv /\ [Next]_vars
        => \A p \in Clients : channel[p] # 0 => channel'[p] = channel[p]
  <2> SUFFICES ASSUME IInv, [Next]_vars, NEW p \in Clients, channel[p] # 0
               PROVE  channel'[p] = channel[p]
      OBVIOUS
  <2>1. ASSUME NEW t \in Threads, Publish(t)
        PROVE  channel'[p] = channel[p]
    <3>1. channel[ProcOf[t]] = 0
      BY <2>1 DEF IInv, ChannelInv, Publish
    <3> QED BY <2>1, <3>1 DEF Publish, IInv, TypeOK
  <2>2. CASE ServerDies
      BY <2>2 DEF ServerDies, IInv, TypeOK
  <2>3. ASSUME NEW t \in Threads, Step(t), ~Publish(t)
        PROVE  channel'[p] = channel[p]
      BY <2>3 DEF Step, ReadChannel, EnterQuery, QueryAnswered, QueryFailed,
         LinkManager, FetchTooEarly, FetchOutOfRange, FetchNotInstalled, FetchInstalled,
         CreateInstance, Reply, FetchDied, Wrap, Put, AsInterface,
         GetRemoteBinder, Transact
  <2>4. CASE \/ \E t \in Threads, id \in Ids : Lookup(t, id)
             \/ \E t \in Threads : Invoke(t) \/ Drop(t)
             \/ StartServer \/ AppCreated
             \/ \E w \in linked : Obituary(w) \/ BinderDied(w)
             \/ UNCHANGED vars
      BY <2>4 DEF Lookup, Invoke, Drop, StartServer, AppCreated, Obituary,
         BinderDied, vars
  <2> QED BY <2>1, <2>2, <2>3, <2>4 DEF Next
<1> QED BY <1>1, Inductive, PTL DEF ChannelSetOnce, Spec

(* A client's wrapper is registered for its binder's death, or its binder  *)
(* was dead when it was built and stays so.                                *)
THEOREM WatchedOrDeadAlways == Spec => []WatchedOrDead
<1>1. Init => WatchedOrDead
  BY DEF Init, WatchedOrDead
<1>2. IInv /\ WatchedOrDead /\ [Next]_vars => WatchedOrDead'
  <2> SUFFICES ASSUME IInv, WatchedOrDead, [Next]_vars,
                      NEW u \in Threads, NEW i \in Ids,
                      ~IsLocal(u), impl'[u][i] # None
               PROVE  \/ [owner |-> u, id |-> i] \in linked'
                      \/ ~Alive(impl[u][i].inc)'
      BY DEF WatchedOrDead
  <2>a. impl[u][i] # None => \/ [owner |-> u, id |-> i] \in linked
                             \/ ~Alive(impl[u][i].inc)
      BY DEF WatchedOrDead
  <2>b. impl[u][i] # None => impl[u][i].inc <= inc /\ impl[u][i].inc \in Nat
      BY DEF IInv, TypeOK, BinderInv, IncarnationInv, Binder
  <2>1. ASSUME NEW t \in Threads, Wrap(t)
        PROVE  \/ [owner |-> u, id |-> i] \in linked'
               \/ ~Alive(impl[u][i].inc)'
    <3>1. CASE t = u /\ req[t] = i
      <4>1. impl'[u][i] = remote[t]
        BY <2>1, <3>1 DEF Wrap, IInv, TypeOK
      <4>2. remote[t] \in obits[ProcOf[t]] => ~Alive(remote[t].inc)
        BY DEF IInv, BinderInv
      <4> QED BY <2>1, <3>1, <4>1, <4>2 DEF Wrap
    <3>2. CASE ~(t = u /\ req[t] = i)
      <4>1. impl'[u][i] = impl[u][i]
        BY <2>1, <3>2 DEF Wrap, IInv, TypeOK
      <4> QED BY <2>1, <2>a, <4>1 DEF Wrap
    <3> QED BY <3>1, <3>2
  <2>2. ASSUME NEW w \in linked, BinderDied(w)
        PROVE  \/ [owner |-> u, id |-> i] \in linked'
               \/ ~Alive(impl[u][i].inc)'
    <3>1. w \in Wrapper
      BY DEF IInv, TypeOK
    <3>2. w # [owner |-> u, id |-> i]
      BY <2>2, <3>1 DEF BinderDied, IInv, TypeOK, Wrapper
    <3>3. impl'[u][i] = impl[u][i]
      BY <2>2, <3>1, <3>2 DEF BinderDied, IInv, TypeOK, Wrapper
    <3> QED BY <2>2, <2>a, <3>2, <3>3 DEF BinderDied
  <2>3. CASE StartServer
      BY <2>3, <2>a, <2>b DEF StartServer, IInv, TypeOK
  <2>4. CASE ServerDies
      BY <2>4, <2>a DEF ServerDies, Survivors, IInv, TypeOK
  <2>5. ASSUME NEW t \in Threads, Step(t), ~Wrap(t)
        PROVE  UNCHANGED <<up, inc, impl, linked>>
      BY <2>5 DEF Step, ReadChannel, EnterQuery, QueryAnswered, QueryFailed,
         Publish, LinkManager, FetchTooEarly, FetchOutOfRange, FetchNotInstalled,
         FetchInstalled, CreateInstance, Reply, FetchDied, Put, AsInterface,
         GetRemoteBinder, Transact
  <2>6. CASE \/ \E t \in Threads, id \in Ids : Lookup(t, id)
             \/ \E t \in Threads : Invoke(t) \/ Drop(t)
             \/ AppCreated
             \/ \E w \in linked : Obituary(w)
             \/ UNCHANGED vars
    <3>1. UNCHANGED <<up, inc, impl, linked>>
      BY <2>6 DEF Lookup, Invoke, Drop, AppCreated, Obituary, vars
    <3> QED BY <3>1, <2>a
  <2> QED BY <2>1, <2>2, <2>3, <2>4, <2>5, <2>6, <2>a DEF Next
<1> QED BY <1>1, <1>2, Inductive, PTL DEF Spec

(* No step brings one more thread to create an object that is there: the   *)
(* step that creates one takes its thread away, and a thread begins only   *)
(* where it has seen none.                                                 *)
LEMMA CreatingShrinks ==
  ASSUME IInv, [Next]_vars, NEW id \in Ids, instance[id] # 0
  PROVE  \/ Creating(id)' \subseteq Creating(id) /\ instance'[id] \in 0 .. instance[id]
         \/ \E t \in Creating(id) : /\ Creating(id)' \subseteq Creating(id) \ {t}
                                   /\ instance'[id] = instance[id] + 1
<1>1. ASSUME NEW t \in Threads, CreateInstance(t), req[t] = id
      PROVE  /\ t \in Creating(id) /\ Creating(id)' \subseteq Creating(id) \ {t}
             /\ instance'[id] = instance[id] + 1
  BY <1>1 DEF CreateInstance, Creating, IInv, TypeOK
<1>2. ASSUME NEW t \in Threads, CreateInstance(t), req[t] # id
      PROVE  Creating(id)' \subseteq Creating(id) /\ instance'[id] = instance[id]
  BY <1>2 DEF CreateInstance, Creating, IInv, TypeOK
<1>3. ASSUME NEW t \in Threads, FetchInstalled(t)
      PROVE  Creating(id)' \subseteq Creating(id) /\ instance'[id] = instance[id]
  <2>1. /\ pc[t] = "fetch" /\ pc' = [pc EXCEPT ![t] = IF instance[req[t]] = 0 THEN "create" ELSE "reply"]
        /\ UNCHANGED <<req, instance>>
    BY <1>3 DEF FetchInstalled
  <2> QED BY <2>1 DEF Creating, IInv, TypeOK
<1>4. ASSUME ServerDies
      PROVE  Creating(id)' \subseteq Creating(id) /\ instance'[id] = instance[id]
  BY <1>4 DEF ServerDies, Survivors, Creating
<1>5. CASE StartServer
  BY <1>5 DEF StartServer, Creating, IInv, TypeOK
<1>6. ASSUME NEW t \in Threads, Step(t), ~CreateInstance(t), ~FetchInstalled(t)
      PROVE  Creating(id)' \subseteq Creating(id) /\ instance'[id] = instance[id]
  <2>1. /\ UNCHANGED <<req, instance>>
        /\ \E l \in Labels \ {"create"} : pc' = [pc EXCEPT ![t] = l]
    BY <1>6 DEF Step, ReadChannel, EnterQuery, QueryAnswered, QueryFailed, NoBinder, Publish,
       LinkManager, FetchTooEarly, FetchOutOfRange, FetchNotInstalled, Reply, FetchDied,
       Wrap, Put, AsInterface, GetRemoteBinder, Transact, Labels
  <2> QED BY <2>1 DEF Creating, IInv, TypeOK
<1>7. ASSUME NEW t \in Threads, NEW i \in Ids, Lookup(t, i)
      PROVE  Creating(id)' \subseteq Creating(id) /\ instance'[id] = instance[id]
  BY <1>7 DEF Lookup, Creating, IInv, TypeOK
<1>8. ASSUME NEW t \in Threads, Invoke(t) \/ Drop(t)
      PROVE  Creating(id)' \subseteq Creating(id) /\ instance'[id] = instance[id]
  BY <1>8 DEF Invoke, Drop, Creating, IInv, TypeOK
<1>9. ASSUME AppCreated \/ (\E w \in linked : Obituary(w) \/ BinderDied(w)) \/ UNCHANGED vars
      PROVE  Creating(id)' \subseteq Creating(id) /\ instance'[id] = instance[id]
  BY <1>9 DEF AppCreated, Obituary, BinderDied, vars, Creating
<1>10. instance[id] \in Nat
  BY DEF IInv, TypeOK
<1> QED BY <1>1, <1>2, <1>3, <1>4, <1>5, <1>6, <1>7, <1>8, <1>9, <1>10 DEF Next, Step

(* The lazy singleton settles: once a service object exists, the objects   *)
(* made and the creations in flight never grow in number                   *)
(* (StopPackageService.getService, lines 55-61).                           *)
THEOREM InstanceSettles == Spec => SettledInstance
<1>1. IInv /\ [Next]_vars => \A id \in Ids : instance[id] # 0 =>
         instance'[id] + Cardinality(Creating(id)') <= instance[id] + Cardinality(Creating(id))
  <2> SUFFICES ASSUME IInv, [Next]_vars, NEW id \in Ids, instance[id] # 0
               PROVE  instance'[id] + Cardinality(Creating(id)')
                        <= instance[id] + Cardinality(Creating(id))
      OBVIOUS
  <2> DEFINE C == Creating(id)
  <2>1. IsFiniteSet(C) /\ Cardinality(C) \in Nat /\ instance[id] \in Nat
    BY ThreadsAssumption, FS_Subset, FS_CardinalityType DEF Creating, IInv, TypeOK
  <2>2. CASE C' \subseteq C /\ instance'[id] \in 0 .. instance[id]
    <3>1. Cardinality(C') \in Nat /\ Cardinality(C') <= Cardinality(C)
      BY <2>1, <2>2, FS_Subset, FS_CardinalityType
    <3> QED BY <2>1, <2>2, <3>1
  <2>3. ASSUME NEW t \in C, C' \subseteq C \ {t}, instance'[id] = instance[id] + 1
        PROVE  instance'[id] + Cardinality(C') <= instance[id] + Cardinality(C)
    <3>1. IsFiniteSet(C \ {t}) /\ Cardinality(C \ {t}) = Cardinality(C) - 1
      BY <2>1, FS_RemoveElement
    <3>2. Cardinality(C') \in Nat /\ Cardinality(C') <= Cardinality(C \ {t})
      BY <2>3, <3>1, FS_Subset, FS_CardinalityType
    <3> QED BY <2>1, <2>3, <3>1, <3>2
  <2> QED BY <2>2, <2>3, CreatingShrinks
<1> QED BY <1>1, Inductive, PTL DEF Spec, SettledInstance
-----------------------------------------------------------------------------
(* The phase of a thread at label l that was asked to continue with c.     *)
PhaseOf(l, c) == CASE l = "idle"  -> "idle"
                   [] l = "ready" -> "holding"
                   [] l \notin {"idle", "ready"} /\ c = "send" -> "calling"
                   [] OTHER -> "getting"

LEMMA PhaseAt == \A t \in Threads : Phase[t] = PhaseOf(pc[t], cont[t])
BY DEF Phase, PhaseOf

(* A thread that moves changes its own phase only.                         *)
LEMMA PhaseMove ==
  ASSUME IInv, NEW t \in Threads, NEW l \in Labels,
         NEW c \in {"new", "asif", "send"},
         pc' = [pc EXCEPT ![t] = l], cont' = [cont EXCEPT ![t] = c]
  PROVE  Phase' = [Phase EXCEPT ![t] = PhaseOf(l, c)]
BY DEF Phase, PhaseOf, IInv, TypeOK

(* The same, of a thread that goes on with what it is doing.               *)
LEMMA PhaseGoto ==
  ASSUME IInv, NEW t \in Threads, NEW l \in Labels,
         pc' = [pc EXCEPT ![t] = l], cont' = cont
  PROVE  Phase' = [Phase EXCEPT ![t] = PhaseOf(l, cont[t])]
BY DEF Phase, PhaseOf, IInv, TypeOK

(* A thread that stays in its phase leaves the phases unchanged.           *)
LEMMA PhaseStays ==
  ASSUME IInv, NEW t \in Threads, NEW l \in Labels \ {"idle", "ready"},
         pc[t] \notin {"idle", "ready"},
         pc' = [pc EXCEPT ![t] = l], cont' = cont
  PROVE  UNCHANGED Phase
BY DEF Phase, IInv, TypeOK

LEMMA InitRefines == Init => Directory!Init
BY DEF Init, Directory!Init, Phase

(* A thread that is holding an entry knows a bound process and an          *)
(* installed service.                                                      *)
LEMMA HoldingFacts ==
  ASSUME IInv, NEW t \in Threads, Holding(t)
  PROVE  /\ req[t] \in Installed
         /\ channel[ProcOf[t]] # 0
BY DEF IInv, EntryInv, GoodEntry

LEMMA StepRefines ==
  ASSUME IInv, [Next]_vars
  PROVE  [Directory!Next]_(Directory!vars)
<1> USE DEF Directory!Serving
<1>1. ASSUME NEW t \in Threads, ReadChannel(t)
      PROVE  UNCHANGED Directory!vars
  <2>1. UNCHANGED Phase
    BY <1>1, PhaseStays DEF ReadChannel, Labels
  <2> QED BY <1>1, <2>1 DEF ReadChannel, Directory!vars
<1>2. ASSUME NEW t \in Threads, EnterQuery(t)
      PROVE  UNCHANGED Directory!vars
  <2>1. UNCHANGED Phase
    BY <1>2, PhaseStays DEF EnterQuery, Labels
  <2> QED BY <1>2, <2>1 DEF EnterQuery, Directory!vars
<1>3. ASSUME NEW t \in Threads, QueryAnswered(t)
      PROVE  UNCHANGED Directory!vars
  <2>1. UNCHANGED Phase
    BY <1>3, PhaseStays DEF QueryAnswered, Labels
  <2> QED BY <1>3, <2>1 DEF QueryAnswered, Directory!vars
<1>4. ASSUME NEW t \in Threads, LinkManager(t)
      PROVE  UNCHANGED Directory!vars
  <2>1. UNCHANGED Phase
    BY <1>4, PhaseStays DEF LinkManager, Labels
  <2> QED BY <1>4, <2>1 DEF LinkManager, Directory!vars
<1>5. ASSUME NEW t \in Threads, FetchInstalled(t)
      PROVE  UNCHANGED Directory!vars
  <2>1. UNCHANGED Phase
    BY <1>5, PhaseStays DEF FetchInstalled, Labels
  <2> QED BY <1>5, <2>1 DEF FetchInstalled, Directory!vars
<1>6. ASSUME NEW t \in Threads, CreateInstance(t)
      PROVE  UNCHANGED Directory!vars
  <2>1. UNCHANGED Phase
    BY <1>6, PhaseStays DEF CreateInstance, Labels
  <2> QED BY <1>6, <2>1 DEF CreateInstance, Directory!vars
<1>7. ASSUME NEW t \in Threads, Wrap(t)
      PROVE  UNCHANGED Directory!vars
  <2>1. UNCHANGED Phase
    BY <1>7, PhaseStays DEF Wrap, Labels
  <2> QED BY <1>7, <2>1 DEF Wrap, Directory!vars
<1>8. ASSUME NEW t \in Threads, Put(t)
      PROVE  UNCHANGED Directory!vars
  <2>1. UNCHANGED Phase
    BY <1>8, PhaseStays DEF Put, Labels
  <2> QED BY <1>8, <2>1 DEF Put, Directory!vars
<1>9. ASSUME NEW t \in Threads, GetRemoteBinder(t)
      PROVE  UNCHANGED Directory!vars
  <2>1. UNCHANGED Phase
    BY <1>9, PhaseStays DEF GetRemoteBinder, Labels
  <2> QED BY <1>9, <2>1 DEF GetRemoteBinder, Directory!vars
<1>10. ASSUME NEW t \in Threads, Publish(t)
      PROVE  Directory!Bind(ProcOf[t])
  <2>1. UNCHANGED Phase
    BY <1>10, PhaseStays DEF Publish, Labels
  <2>2. channel[ProcOf[t]] = 0 /\ svc[t] \in 1..inc
    BY <1>10 DEF Publish, IInv, ChannelInv
  <2> QED BY <1>10, <2>1, <2>2 DEF Publish, Directory!Bind
<1>11. ASSUME NEW t \in Threads, QueryFailed(t)
      PROVE  Directory!ObtainNull(t)
  <2>1. channel[ProcOf[t]] = 0
    BY <1>11 DEF QueryFailed, IInv, ChannelInv
  <2>2. cont[t] = "new"
    BY <1>11, <2>1, HoldingFacts DEF QueryFailed, Holding
  <2>3. Phase' = [Phase EXCEPT ![t] = "idle"] /\ Phase[t] = "getting"
    BY <1>11, <2>2, PhaseMove, PhaseAt DEF QueryFailed, NoBinder, Labels, PhaseOf
  <2>4. out' = [out EXCEPT ![t] = "null"]
    BY <1>11, <2>2 DEF QueryFailed, NoBinder
  <2> QED BY <1>11, <2>1, <2>3, <2>4
      DEF QueryFailed, Directory!ObtainNull, Directory!Move
<1>12. ASSUME NEW t \in Threads, FetchOutOfRange(t)
      PROVE  Directory!ObtainThrow(t)
  <2>1. cont[t] = "new"
    BY <1>12, HoldingFacts DEF FetchOutOfRange, Holding, IInv, TypeOK
  <2>2. Phase' = [Phase EXCEPT ![t] = "idle"] /\ Phase[t] = "getting"
    BY <1>12, <2>1, PhaseGoto, PhaseAt DEF FetchOutOfRange, Labels, PhaseOf
  <2>3. Directory!Serving(ProcOf[t])
    BY <1>12 DEF FetchOutOfRange, IInv, ChannelInv
  <2> QED BY <1>12, <2>2, <2>3
      DEF FetchOutOfRange, Directory!ObtainThrow, Directory!Move
<1>13. ASSUME NEW t \in Threads, FetchTooEarly(t)
      PROVE  Directory!ObtainNull(t)
  <2>1. cont[t] = "new"
    BY <1>13 DEF FetchTooEarly, IInv, RefetchInv, Refetching, ChannelInv
  <2>2. Phase' = [Phase EXCEPT ![t] = "idle"] /\ Phase[t] = "getting"
    BY <1>13, <2>1, PhaseMove, PhaseAt DEF FetchTooEarly, NoBinder, Labels, PhaseOf
  <2>3. out' = [out EXCEPT ![t] = "null"]
    BY <1>13, <2>1 DEF FetchTooEarly, NoBinder
  <2> QED BY <1>13, <2>2, <2>3
      DEF FetchTooEarly, Directory!ObtainNull, Directory!Move
<1>14. ASSUME NEW t \in Threads, FetchNotInstalled(t)
      PROVE  Directory!ObtainNull(t)
  <2>1. cont[t] = "new"
    BY <1>14, HoldingFacts DEF FetchNotInstalled, Holding
  <2>2. Phase' = [Phase EXCEPT ![t] = "idle"] /\ Phase[t] = "getting"
    BY <1>14, <2>1, PhaseMove, PhaseAt DEF FetchNotInstalled, NoBinder, Labels, PhaseOf
  <2>3. out' = [out EXCEPT ![t] = "null"]
    BY <1>14, <2>1 DEF FetchNotInstalled, NoBinder
  <2> QED BY <1>14, <2>2, <2>3
      DEF FetchNotInstalled, Directory!ObtainNull, Directory!Move
<1>15. ASSUME NEW t \in Threads, Reply(t)
      PROVE  Directory!Obtain(t) \/ UNCHANGED Directory!vars
  <2>1. CASE cont[t] = "asif"
    <3>1. Phase' = [Phase EXCEPT ![t] = "holding"] /\ Phase[t] = "getting"
      BY <1>15, <2>1, PhaseMove, PhaseAt DEF Reply, Labels, PhaseOf
    <3>2. req[t] \in Installed /\ channel[ProcOf[t]] # 0
      BY <1>15, <2>1, HoldingFacts DEF Reply, Holding
    <3>a. out[t] = "none" /\ out' = out
      BY <1>15 DEF Reply, IInv, ThreadInv
    <3>3. out' = [out EXCEPT ![t] = "none"]
      BY <3>a DEF IInv, TypeOK
    <3> QED BY <1>15, <3>1, <3>2, <3>3 DEF Reply, Directory!Obtain, Directory!Move
  <2>2. CASE cont[t] # "asif"
    <3>1. UNCHANGED Phase
      BY <1>15, <2>2, PhaseStays DEF Reply, Labels
    <3> QED BY <1>15, <3>1 DEF Reply, Directory!vars
  <2> QED BY <2>1, <2>2
<1>16. ASSUME NEW t \in Threads, FetchDied(t)
      PROVE  Directory!ObtainNull(t) \/ Directory!Obtain(t) \/ Directory!Fail(t)
  <2>1. ~Directory!Serving(ProcOf[t])
    BY <1>16 DEF FetchDied, IInv, ChannelInv
  <2>2. CASE cont[t] = "new"
    <3>1. Phase' = [Phase EXCEPT ![t] = "idle"] /\ Phase[t] = "getting"
      BY <1>16, <2>2, PhaseMove, PhaseAt DEF FetchDied, NoBinder, Labels, PhaseOf
    <3>2. out' = [out EXCEPT ![t] = "null"]
      BY <1>16, <2>2 DEF FetchDied, NoBinder
    <3> QED BY <1>16, <2>1, <3>1, <3>2 DEF FetchDied, Directory!ObtainNull, Directory!Move
  <2>3. CASE cont[t] = "asif"
    <3>1. Phase' = [Phase EXCEPT ![t] = "holding"] /\ Phase[t] = "getting"
      BY <1>16, <2>3, PhaseMove, PhaseAt DEF FetchDied, NoBinder, Labels, PhaseOf
    <3>2. req[t] \in Installed /\ channel[ProcOf[t]] # 0
      BY <1>16, <2>3, HoldingFacts DEF FetchDied, Holding
    <3>3. out' = [out EXCEPT ![t] = "none"]
      BY <1>16, <2>3 DEF FetchDied, NoBinder, IInv, ThreadInv
    <3> QED BY <1>16, <3>1, <3>2, <3>3 DEF FetchDied, Directory!Obtain, Directory!Move
  <2>4. CASE cont[t] = "send"
    <3>1. Phase' = [Phase EXCEPT ![t] = "holding"] /\ Phase[t] = "calling"
      BY <1>16, <2>4, PhaseMove, PhaseAt DEF FetchDied, NoBinder, Labels, PhaseOf
    <3>2. out' = [out EXCEPT ![t] = "dead"]
      BY <1>16, <2>4 DEF FetchDied, NoBinder
    <3> QED BY <1>16, <2>1, <3>1, <3>2 DEF FetchDied, Directory!Fail, Directory!Move
  <2> QED BY <2>2, <2>3, <2>4 DEF IInv, TypeOK
<1>17. ASSUME NEW t \in Threads, AsInterface(t)
      PROVE  Directory!Obtain(t) \/ UNCHANGED Directory!vars
  <2>1. cont[t] = "new" /\ out[t] = "none"
    BY <1>17 DEF AsInterface, IInv, ThreadInv
  <2>2. req[t] \in Installed /\ channel[ProcOf[t]] # 0
    BY <1>17, HoldingFacts DEF AsInterface, Holding
  <2>3. UNCHANGED <<serverVars, procVars, deathVars, req, svc, remote, held, out>>
    BY <1>17 DEF AsInterface
  <2>4. CASE pc' = [pc EXCEPT ![t] = "ready"] /\ cont' = cont
    <3>1. Phase' = [Phase EXCEPT ![t] = "holding"] /\ Phase[t] = "getting"
      BY <1>17, <2>1, <2>4, PhaseGoto, PhaseAt DEF AsInterface, Labels, PhaseOf
    <3>2. out' = [out EXCEPT ![t] = "none"]
      BY <2>1, <2>3 DEF IInv, TypeOK
    <3> QED BY <2>2, <2>3, <3>1, <3>2 DEF Directory!Obtain, Directory!Move
  <2>5. CASE pc' = [pc EXCEPT ![t] = "channel"] /\ cont' = [cont EXCEPT ![t] = "asif"]
    <3>1. Phase' = [Phase EXCEPT ![t] = "getting"] /\ Phase[t] = "getting"
      BY <1>17, <2>1, <2>5, PhaseMove, PhaseAt DEF AsInterface, Labels, PhaseOf
    <3>2. UNCHANGED Phase
      BY <3>1 DEF Phase
    <3> QED BY <2>3, <3>2 DEF Directory!vars
  <2> QED BY <1>17, <2>4, <2>5 DEF AsInterface
<1>18. ASSUME NEW t \in Threads, Transact(t)
      PROVE  \/ Directory!Execute(t) \/ Directory!Throw(t)
             \/ Directory!Refuse(t) \/ Directory!Fail(t)
  <2>1. /\ cont[t] = "send"
        /\ remote[t].inc = channel[ProcOf[t]]
        /\ remote[t].inc # 0
    BY <1>18 DEF Transact, IInv, ThreadInv, Using
  <2>2. Phase' = [Phase EXCEPT ![t] = "holding"] /\ Phase[t] = "calling"
    BY <1>18, <2>1, PhaseMove, PhaseAt DEF Transact, Labels, PhaseOf
  <2>3. UNCHANGED <<up, created, inc, channel, req>>
    BY <1>18 DEF Transact, serverVars, procVars
  <2>4. CASE Alive(remote[t].inc)
    <3>1. Directory!Serving(ProcOf[t])
      BY <2>1, <2>4 DEF Alive, Directory!Serving
    <3>2. PICK o \in Outcomes(t) : out' = [out EXCEPT ![t] = o]
      BY <1>18, <2>4 DEF Transact
    <3>3. CASE o = "ok"
      BY <2>2, <2>3, <3>1, <3>2, <3>3 DEF Directory!Execute, Directory!Move
    <3>4. CASE o = "threw" /\ req[t] \in Throwing
      BY <2>2, <2>3, <3>1, <3>2, <3>4 DEF Directory!Throw, Directory!Move
    <3>5. CASE o = "large" /\ req[t] \in Large /\ ~IsLocal(t)
      BY <2>2, <2>3, <3>1, <3>2, <3>5 DEF Directory!Refuse, Directory!Move, IsLocal
    <3> QED BY <3>2, <3>3, <3>4, <3>5 DEF Outcomes
  <2>5. CASE ~Alive(remote[t].inc)
    <3>1. ~Directory!Serving(ProcOf[t])
      BY <2>1, <2>5 DEF Alive, Directory!Serving
    <3>2. out' = [out EXCEPT ![t] = "dead"]
      BY <1>18, <2>5 DEF Transact
    <3> QED BY <2>2, <2>3, <3>1, <3>2 DEF Directory!Fail, Directory!Move
  <2> QED BY <2>4, <2>5
<1>19. ASSUME NEW t \in Threads, NEW id \in Ids, Lookup(t, id)
      PROVE  Directory!Ask(t, id)
  <2>1. Phase' = [Phase EXCEPT ![t] = "getting"] /\ Phase[t] = "idle"
    BY <1>19, PhaseMove, PhaseAt DEF Lookup, Labels, PhaseOf
  <2> QED BY <1>19, <2>1 DEF Lookup, Directory!Ask, Directory!Move
<1>20. ASSUME NEW t \in Threads, Invoke(t)
      PROVE  Directory!Invoke(t)
  <2>1. Phase' = [Phase EXCEPT ![t] = "calling"] /\ Phase[t] = "holding"
    BY <1>20, PhaseMove, PhaseAt DEF Invoke, Labels, PhaseOf
  <2> QED BY <1>20, <2>1 DEF Invoke, Directory!Invoke, Directory!Move
<1>21. ASSUME NEW t \in Threads, Drop(t)
      PROVE  Directory!Drop(t)
  <2>1. Phase' = [Phase EXCEPT ![t] = "idle"] /\ Phase[t] = "holding"
    BY <1>21, PhaseGoto, PhaseAt DEF Drop, Labels, PhaseOf
  <2>2. out' = [out EXCEPT ![t] = out[t]]
    BY <1>21 DEF Drop, IInv, TypeOK
  <2> QED BY <1>21, <2>1, <2>2 DEF Drop, Directory!Drop, Directory!Move
<1>22. CASE StartServer
  <2>1. UNCHANGED Phase
    BY <1>22 DEF StartServer, Phase
  <2>2. Directory!Start
    BY <1>22, <2>1 DEF StartServer, Directory!Start
  <2> QED BY <2>2 DEF Directory!Next
<1>23. CASE AppCreated
  <2>1. UNCHANGED Phase
    BY <1>23 DEF AppCreated, Phase
  <2>2. Directory!Started
    BY <1>23, <2>1 DEF AppCreated, Directory!Started
  <2> QED BY <2>2 DEF Directory!Next
<1>24. CASE ServerDies
  <2>1. Phase' = Directory!Survivors(Phase, "idle")
    BY <1>24 DEF ServerDies, Survivors, Phase, Directory!Survivors
  <2>2. Directory!Crash
    BY <1>24, <2>1 DEF ServerDies, Survivors, Directory!Crash, Directory!Survivors
  <2> QED BY <2>2 DEF Directory!Next
<1>25. CASE \/ \E w \in linked : Obituary(w) \/ BinderDied(w)
           \/ UNCHANGED vars
  <2>1. UNCHANGED <<up, created, inc, channel, req, out, pc, cont>>
    BY <1>25 DEF Obituary, BinderDied, vars
  <2> QED BY <2>1 DEF Phase, Directory!vars
<1> QED
  BY <1>1, <1>2, <1>3, <1>4, <1>5, <1>6, <1>7, <1>8, <1>9, <1>10, <1>11, <1>12, <1>13, <1>14, <1>15, <1>16, <1>17, <1>18, <1>19, <1>20, <1>21, <1>22, <1>23, <1>24, <1>25
  DEF Next, Step, Directory!Next

(* Every behaviour of the framework is one the directory allows.           *)
THEOREM Implements == Spec => KeepsPromise
<1>1. Init => Directory!Init
  BY InitRefines
<1>2. IInv /\ [Next]_vars => [Directory!Next]_(Directory!vars)
  BY StepRefines
<1> QED BY <1>1, <1>2, Inductive, PTL DEF Spec, Directory!Spec, KeepsPromise
=============================================================================
