--------------------------- MODULE ServiceManager ---------------------------
(***************************************************************************)
(* The cross-process service framework of com.multiprocess.crossprocess:   *)
(* ServiceManager (client side), ServiceManagerProvider (server side), the *)
(* cache of ServiceList and the lazily created service singletons.         *)
(*                                                                         *)
(* Every thread is a small program whose position is pc[t]:                *)
(*                                                                         *)
(*   idle      between requests              ServiceManager.getService     *)
(*   channel   about to read mServerManagerImpl   getServerManagerService  *)
(*   lock      about to enter queryService (synchronized)                  *)
(*   query     the provider is being queried                               *)
(*   publish   about to store the answer in mServerManagerImpl             *)
(*   link      stored; about to link to the manager's death and unlock     *)
(*   fetch     IServiceManagerService.getService(id) is being called       *)
(*   create    the server saw a null singleton and is creating it          *)
(*   reply     the server is about to read the singleton and reply         *)
(*   wrap      the reply arrived; about to wrap it and link to its death   *)
(*   put       about to put the wrapper into the cache                     *)
(*   asif      about to turn the cached binder into an interface           *)
(*   ready     the caller holds the interface                              *)
(*   transact  about to read mRemoteBinderImpl for a call                  *)
(*   send      the transaction is being sent to the binder read            *)
(*                                                                         *)
(* A wrapper whose binder died is null inside and asks the manager again:  *)
(* it runs channel..reply too, and cont[t] says what for.  A process keeps *)
(* its statics for life; a client process that is restarted is another     *)
(* element of Clients (it has made no request yet).                        *)
(***************************************************************************)
EXTENDS Naturals, FiniteSets

CONSTANTS Threads,         \* the threads that call ServiceManager.getService
          Clients,         \* the client processes
          Server,          \* the process named ":server" in the manifest
          ProcOf,          \* the process of each thread
          Ids,             \* the ids asked for
          InRange,         \* those in MIN_ID .. MAX_ID
          Installed,       \* those ServiceList's static block installs
          Throwing,        \* those of which a method throws (killSysWait)
          Large,           \* those of which a method passes more than a
                           \* transaction holds (getTransactLargeData)
          MaxIncarnation,  \* bound: how many lives the server may have
          None             \* Java's null

Procs == Clients \cup {Server}
Binder == [inc : Nat, id : Ids, n : Nat]
Wrapper == [owner : Threads, id : Ids]

ASSUME ThreadsAssumption == IsFiniteSet(Threads)
ASSUME ServerAssumption == Server \notin Clients
ASSUME ProcOfAssumption == ProcOf \in [Threads -> Procs]
ASSUME IdsAssumption == Installed \subseteq InRange /\ InRange \subseteq Ids
ASSUME MaxIncarnationAssumption == MaxIncarnation \in Nat
ASSUME NoneAssumption ==
  None \notin Threads /\ None \notin Ids /\ None \notin Binder /\ None \notin Wrapper

VARIABLES
  up,        \* is the server process running, its provider published
  created,   \* has App.onCreate run in it, which comes after that
  inc,       \* the number of its current or last life
  instance,  \* the singleton of each service in it: its number, 0 is null
  channel,   \* mServerManagerImpl of each process: the incarnation whose
             \* manager it is the proxy of, 0 is null
  lock,      \* who holds the monitor of sServiceManagerWrapper
  cache,     \* ServiceList.sCache of each process
  impl,      \* mRemoteBinderImpl of the wrapper that t made for id
  linked,    \* wrappers registered as death recipients, not yet called
  obits,     \* binders whose obituary has reached the process
  pc, cont, req, svc, remote, held, out   \* the threads' locals

serverVars == <<up, created, inc, instance>>
procVars   == <<channel, lock, cache>>
deathVars  == <<impl, linked, obits>>
threadVars == <<pc, cont, req, svc, remote, held, out>>
vars == <<serverVars, procVars, deathVars, threadVars>>

(* The server process that holds the objects of incarnation i is running.  *)
Alive(i) == up /\ i = inc

IsLocal(t) == ProcOf[t] = Server
Goto(t, l) == pc' = [pc EXCEPT ![t] = l]
At(t, l) == pc[t] = l

Init ==
  /\ up = FALSE
  /\ created = FALSE
  /\ inc = 0
  /\ instance = [id \in Ids |-> 0]
  /\ channel = [p \in Procs |-> 0]
  /\ lock = [p \in Procs |-> None]
  /\ cache = [p \in Procs |-> [id \in Ids |-> None]]
  /\ impl = [t \in Threads |-> [id \in Ids |-> None]]
  /\ linked = {}
  /\ obits = [p \in Procs |-> {}]
  /\ pc = [t \in Threads |-> "idle"]
  /\ cont = [t \in Threads |-> "new"]
  /\ req = [t \in Threads |-> None]
  /\ svc = [t \in Threads |-> 0]
  /\ remote = [t \in Threads |-> None]
  /\ held = [t \in Threads |-> None]
  /\ out = [t \in Threads |-> "none"]
-----------------------------------------------------------------------------

(* A request: ServiceManager.getService(id), up to the cache lookup.       *)
Lookup(t, id) ==
  LET entry == cache[ProcOf[t]][id] IN
  /\ At(t, "idle")
  /\ IsLocal(t) => created
  /\ Goto(t, IF entry = None THEN "channel" ELSE "asif")
  /\ cont' = [cont EXCEPT ![t] = "new"]
  /\ req' = [req EXCEPT ![t] = id]
  /\ held' = [held EXCEPT ![t] = entry]
  /\ out' = [out EXCEPT ![t] = "none"]
  /\ UNCHANGED <<serverVars, procVars, deathVars, svc, remote>>

(* getServerManagerService: the unlocked read of mServerManagerImpl.       *)
ReadChannel(t) ==
  LET c == channel[ProcOf[t]] IN
  /\ At(t, "channel")
  /\ svc' = [svc EXCEPT ![t] = c]
  /\ Goto(t, IF c = 0 THEN "lock" ELSE "fetch")
  /\ UNCHANGED <<serverVars, procVars, deathVars, cont, req, remote, held, out>>

(* Fault: double-checked locking without the second check.                 *)
EnterQueryUnchecked(t) ==
  LET p == ProcOf[t] IN
  /\ At(t, "lock")
  /\ lock[p] = None
  /\ Goto(t, "query")
  /\ lock' = [lock EXCEPT ![p] = t]
  /\ UNCHANGED <<serverVars, channel, cache, deathVars, cont, req, svc, remote, held, out>>

(* Fault: queryService that is not synchronized.                           *)
EnterQueryUnlocked(t) ==
  LET p == ProcOf[t] IN
  /\ At(t, "lock")
  /\ channel[p] = 0
  /\ Goto(t, "query")
  /\ UNCHANGED <<serverVars, procVars, deathVars, cont, req, svc, remote, held, out>>

(* queryService, entered: the second check, under the monitor.             *)
EnterQuery(t) ==
  LET p == ProcOf[t] IN
  /\ At(t, "lock")
  /\ lock[p] = None
  /\ \/ /\ channel[p] = 0
        /\ Goto(t, "query")
        /\ lock' = [lock EXCEPT ![p] = t]
        /\ UNCHANGED svc
     \/ /\ channel[p] # 0
        /\ Goto(t, "fetch")
        /\ svc' = [svc EXCEPT ![t] = channel[p]]
        /\ UNCHANGED lock
  /\ UNCHANGED <<serverVars, channel, cache, deathVars, cont, req, remote, held, out>>

(* What the caller makes of no binder: getService returns null, the        *)
(* queryLocalInterface of asInterface swallows the RemoteException that    *)
(* getRemoteBinder throws, transact passes it on.                          *)
NoBinder(t) ==
  /\ Goto(t, IF cont[t] = "new" THEN "idle" ELSE "ready")
  /\ cont' = [cont EXCEPT ![t] = "new"]
  /\ svc' = [svc EXCEPT ![t] = 0]
  /\ out' = [out EXCEPT ![t] = CASE cont[t] = "new"  -> "null"
                                 [] cont[t] = "send" -> "dead"
                                 [] OTHER            -> out[t]]

(* The provider answers with the manager of the running server,            *)
QueryAnswered(t) ==
  /\ At(t, "query")
  /\ up
  /\ svc' = [svc EXCEPT ![t] = inc]
  /\ Goto(t, "publish")
  /\ UNCHANGED <<serverVars, procVars, deathVars, cont, req, remote, held, out>>

(* Fault: a failed query leaves the monitor held.                          *)
QueryFailedKeepsLock(t) ==
  /\ At(t, "query")
  /\ ~up
  /\ NoBinder(t)
  /\ UNCHANGED <<serverVars, procVars, deathVars, req, remote, held>>

(* or the query throws because the server is gone: caught, null returned.  *)
QueryFailed(t) ==
  /\ At(t, "query")
  /\ ~up
  /\ lock' = [lock EXCEPT ![ProcOf[t]] = None]
  /\ NoBinder(t)
  /\ UNCHANGED <<serverVars, channel, cache, deathVars, req, remote, held>>

(* mServerManagerImpl = service, which lock-free readers see at once.      *)
Publish(t) ==
  /\ At(t, "publish")
  /\ channel' = [channel EXCEPT ![ProcOf[t]] = svc[t]]
  /\ Goto(t, "link")
  /\ UNCHANGED <<serverVars, lock, cache, deathVars, cont, req, svc, remote, held, out>>

(* linkToDeath on the manager (its RemoteException is swallowed, and its   *)
(* recipient does nothing when called), then the monitor is left.          *)
LinkManager(t) ==
  /\ At(t, "link")
  /\ lock' = [lock EXCEPT ![ProcOf[t]] = None]
  /\ Goto(t, "fetch")
  /\ UNCHANGED <<serverVars, channel, cache, deathVars, cont, req, svc, remote, held, out>>
-----------------------------------------------------------------------------
(* The manager in the server handles getService(id).  Providers are        *)
(* published before App.onCreate runs: until it has set the process type,  *)
(* every id is answered with null,                                         *)
FetchTooEarly(t) ==
  /\ At(t, "fetch")
  /\ Alive(svc[t])
  /\ ~created
  /\ NoBinder(t)
  /\ UNCHANGED <<serverVars, procVars, deathVars, req, remote, held>>

(* then comes the range check, whose exception reaches the caller,         *)
FetchOutOfRange(t) ==
  /\ At(t, "fetch")
  /\ Alive(svc[t])
  /\ created
  /\ req[t] \notin InRange
  /\ Goto(t, "idle")
  /\ out' = [out EXCEPT ![t] = "threw"]
  /\ svc' = [svc EXCEPT ![t] = 0]
  /\ UNCHANGED <<serverVars, procVars, deathVars, cont, req, remote, held>>

(* no Service under this id: a null reply,                                 *)
FetchNotInstalled(t) ==
  /\ At(t, "fetch")
  /\ Alive(svc[t])
  /\ created
  /\ req[t] \in InRange \ Installed
  /\ NoBinder(t)
  /\ UNCHANGED <<serverVars, procVars, deathVars, req, remote, held>>

(* Fault: the singleton is made anew for every request.                    *)
FetchNew(t) ==
  /\ At(t, "fetch")
  /\ Alive(svc[t])
  /\ created
  /\ req[t] \in Installed
  /\ Goto(t, "create")
  /\ UNCHANGED <<serverVars, procVars, deathVars, cont, req, svc, remote, held, out>>

(* or the service's getService, which tests its static instance.           *)
FetchInstalled(t) ==
  /\ At(t, "fetch")
  /\ Alive(svc[t])
  /\ created
  /\ req[t] \in Installed
  /\ Goto(t, IF instance[req[t]] = 0 THEN "create" ELSE "reply")
  /\ UNCHANGED <<serverVars, procVars, deathVars, cont, req, svc, remote, held, out>>

(* instance = new StopPackageService(): another thread may have done it.   *)
CreateInstance(t) ==
  /\ At(t, "create")
  /\ Alive(svc[t])
  /\ instance' = [instance EXCEPT ![req[t]] = @ + 1]
  /\ Goto(t, "reply")
  /\ UNCHANGED <<up, created, inc, procVars, deathVars, cont, req, svc, remote, held, out>>

(* return instance, as the static reads then: the caller gets the binder.  *)
Reply(t) ==
  LET b == [inc |-> svc[t], id |-> req[t], n |-> instance[req[t]]] IN
  /\ At(t, "reply")
  /\ Alive(svc[t])
  /\ svc' = [svc EXCEPT ![t] = 0]
  /\ \/ /\ cont[t] = "asif"    \* queryLocalInterface of a proxy is null
        /\ Goto(t, "ready")
        /\ cont' = [cont EXCEPT ![t] = "new"]
        /\ UNCHANGED remote
     \/ /\ cont[t] # "asif"
        /\ Goto(t, IF cont[t] = "new" THEN "wrap" ELSE "send")
        /\ remote' = [remote EXCEPT ![t] = b]
        /\ UNCHANGED cont
  /\ UNCHANGED <<serverVars, procVars, deathVars, req, held, out>>

(* The server died before it replied: DeadObjectException.                 *)
FetchDied(t) ==
  /\ pc[t] \in {"fetch", "create", "reply"}
  /\ ~Alive(svc[t])
  /\ NoBinder(t)
  /\ UNCHANGED <<serverVars, procVars, deathVars, req, remote, held>>
-----------------------------------------------------------------------------
(* Fault: the wrapper does not link to the death of its binder.            *)
WrapUnlinked(t) ==
  /\ At(t, "wrap")
  /\ impl' = [impl EXCEPT ![t][req[t]] = remote[t]]
  /\ held' = [held EXCEPT ![t] = [owner |-> t, id |-> req[t]]]
  /\ Goto(t, "put")
  /\ remote' = [remote EXCEPT ![t] = None]
  /\ UNCHANGED <<serverVars, procVars, linked, obits, cont, req, svc, out>>

(* RemoteBinderWrapper.getService.  In the server it returns the binder    *)
(* itself: an entry whose impl is never cleared.  Elsewhere it returns a   *)
(* new wrapper whose constructor links to the binder's death; linkToDeath  *)
(* throws, and the exception is swallowed, when the process has had the    *)
(* binder's obituary already.                                              *)
Wrap(t) ==
  LET w == [owner |-> t, id |-> req[t]] IN
  /\ At(t, "wrap")
  /\ impl' = [impl EXCEPT ![t][req[t]] = remote[t]]
  /\ linked' = IF IsLocal(t) \/ remote[t] \in obits[ProcOf[t]]
                 THEN linked ELSE linked \cup {w}
  /\ held' = [held EXCEPT ![t] = w]
  /\ Goto(t, "put")
  /\ remote' = [remote EXCEPT ![t] = None]
  /\ UNCHANGED <<serverVars, procVars, obits, cont, req, svc, out>>

(* ServiceList.putCacheBinder(id, binder): the last writer wins.           *)
Put(t) ==
  /\ At(t, "put")
  /\ cache' = [cache EXCEPT ![ProcOf[t]][req[t]] = held[t]]
  /\ Goto(t, "asif")
  /\ UNCHANGED <<serverVars, channel, lock, deathVars, cont, req, svc, remote, held, out>>

(* The field mRemoteBinderImpl of the wrapper that thread t holds.         *)
HeldImpl(t) == impl[held[t].owner][held[t].id]

(* ServiceList.getInterface: Stub.asInterface calls queryLocalInterface,   *)
(* for which a cleared wrapper first asks the manager again.               *)
AsInterface(t) ==
  /\ At(t, "asif")
  /\ \/ /\ HeldImpl(t) # None
        /\ Goto(t, "ready")
        /\ UNCHANGED cont
     \/ /\ HeldImpl(t) = None
        /\ Goto(t, "channel")
        /\ cont' = [cont EXCEPT ![t] = "asif"]
  /\ UNCHANGED <<serverVars, procVars, deathVars, req, svc, remote, held, out>>

(* The caller calls a method of the interface: Proxy -> wrapper.transact.  *)
Invoke(t) ==
  /\ At(t, "ready")
  /\ Goto(t, "transact")
  /\ cont' = [cont EXCEPT ![t] = "send"]
  /\ out' = [out EXCEPT ![t] = "none"]
  /\ UNCHANGED <<serverVars, procVars, deathVars, req, svc, remote, held>>

(* getRemoteBinder: the wrapper's binder, or else the manager's again,     *)
(* which is used for this call only and not stored.                        *)
GetRemoteBinder(t) ==
  /\ At(t, "transact")
  /\ \/ /\ HeldImpl(t) # None
        /\ Goto(t, "send")
        /\ remote' = [remote EXCEPT ![t] = HeldImpl(t)]
     \/ /\ HeldImpl(t) = None
        /\ Goto(t, "channel")
        /\ UNCHANGED remote
  /\ UNCHANGED <<serverVars, procVars, deathVars, cont, req, svc, held, out>>

(* Fault: the transaction is sent one way, nobody learns that it was lost. *)
TransactOneWay(t) ==
  /\ At(t, "send")
  /\ Goto(t, "ready")
  /\ out' = [out EXCEPT ![t] = "ok"]
  /\ cont' = [cont EXCEPT ![t] = "new"]
  /\ remote' = [remote EXCEPT ![t] = None]
  /\ UNCHANGED <<serverVars, procVars, deathVars, req, svc, held>>

(* How a call of a live service may end: its exception is in the reply,    *)
(* and a transaction of another process fails if the data do not fit.      *)
Outcomes(t) == {"ok"}
  \cup (IF req[t] \in Throwing THEN {"threw"} ELSE {})
  \cup (IF req[t] \in Large /\ ~IsLocal(t) THEN {"large"} ELSE {})

(* The transaction reaches the service object, or its process is dead.     *)
Transact(t) ==
  /\ At(t, "send")
  /\ Goto(t, "ready")
  /\ \E o \in IF Alive(remote[t].inc) THEN Outcomes(t) ELSE {"dead"} :
       out' = [out EXCEPT ![t] = o]
  /\ cont' = [cont EXCEPT ![t] = "new"]
  /\ remote' = [remote EXCEPT ![t] = None]
  /\ UNCHANGED <<serverVars, procVars, deathVars, req, svc, held>>

(* The caller lets go of the interface.                                    *)
Drop(t) ==
  /\ At(t, "ready")
  /\ Goto(t, "idle")
  /\ held' = [held EXCEPT ![t] = None]
  /\ UNCHANGED <<serverVars, procVars, deathVars, cont, req, svc, remote, out>>
-----------------------------------------------------------------------------
(* The activity manager starts the provider's process for a query.         *)
StartServer ==
  /\ ~up
  /\ \E t \in Threads : At(t, "query")
  /\ up' = TRUE
  /\ inc' = inc + 1
  /\ instance' = [id \in Ids |-> 0]
  /\ UNCHANGED <<created, procVars, deathVars, threadVars>>

(* App.onCreate sets the process type; requests of the server's own        *)
(* threads come after it.                                                  *)
AppCreated ==
  /\ up
  /\ ~created
  /\ created' = TRUE
  /\ UNCHANGED <<up, inc, instance, procVars, deathVars, threadVars>>

(* Attribute f of the threads when the server's own threads start afresh.  *)
Survivors(f, reset) == [t \in Threads |-> IF IsLocal(t) THEN reset ELSE f[t]]

(* The server process dies, and with it its statics and its threads.       *)
ServerDies ==
  /\ up
  /\ inc < MaxIncarnation
  /\ up' = FALSE
  /\ created' = FALSE
  /\ channel' = [channel EXCEPT ![Server] = 0]
  /\ lock' = [lock EXCEPT ![Server] = None]
  /\ cache' = [cache EXCEPT ![Server] = [id \in Ids |-> None]]
  /\ impl' = Survivors(impl, [id \in Ids |-> None])
  /\ pc' = Survivors(pc, "idle")
  /\ cont' = Survivors(cont, "new")
  /\ req' = Survivors(req, None)
  /\ svc' = Survivors(svc, 0)
  /\ remote' = Survivors(remote, None)
  /\ held' = Survivors(held, None)
  /\ out' = Survivors(out, "none")
  /\ UNCHANGED <<inc, instance, linked, obits>>

(* The obituary of a dead binder reaches a process with a recipient for it *)
Obituary(w) ==
  LET b == impl[w.owner][w.id]
      p == ProcOf[w.owner] IN
  /\ w \in linked
  /\ ~Alive(b.inc)
  /\ b \notin obits[p]
  /\ obits' = [obits EXCEPT ![p] = @ \cup {b}]
  /\ UNCHANGED <<serverVars, procVars, impl, linked, threadVars>>

(* Fault: binderDied is called although the binder lives.                  *)
BinderDiedSpurious(w) ==
  /\ w \in linked
  /\ impl' = [impl EXCEPT ![w.owner][w.id] = None]
  /\ linked' = linked \ {w}
  /\ UNCHANGED <<serverVars, procVars, obits, threadVars>>

(* Fault: a binderDied that does nothing, as that of the manager's proxy.  *)
BinderDiedIgnored(w) ==
  /\ w \in linked
  /\ impl[w.owner][w.id] \in obits[ProcOf[w.owner]]
  /\ UNCHANGED vars

(* and its recipients are called one by one: mRemoteBinderImpl = null.     *)
BinderDied(w) ==
  /\ w \in linked
  /\ impl[w.owner][w.id] \in obits[ProcOf[w.owner]]
  /\ impl' = [impl EXCEPT ![w.owner][w.id] = None]
  /\ linked' = linked \ {w}
  /\ UNCHANGED <<serverVars, procVars, obits, threadVars>>
-----------------------------------------------------------------------------
(* What a thread does once it has made a request, without the caller.      *)
Step(t) ==
  \/ ReadChannel(t)
  \/ EnterQuery(t)
  \/ QueryAnswered(t)
  \/ QueryFailed(t)
  \/ Publish(t)
  \/ LinkManager(t)
  \/ FetchTooEarly(t)
  \/ FetchOutOfRange(t)
  \/ FetchNotInstalled(t)
  \/ FetchInstalled(t)
  \/ CreateInstance(t)
  \/ Reply(t)
  \/ FetchDied(t)
  \/ Wrap(t)
  \/ Put(t)
  \/ AsInterface(t)
  \/ GetRemoteBinder(t)
  \/ Transact(t)

Next ==
  \/ \E t \in Threads : Step(t)
  \/ \E t \in Threads, id \in Ids : Lookup(t, id)
  \/ \E t \in Threads : Invoke(t) \/ Drop(t)
  \/ StartServer
  \/ AppCreated
  \/ ServerDies
  \/ \E w \in linked : Obituary(w) \/ BinderDied(w)

Spec == Init /\ [][Next]_vars

(* Threads are scheduled, the system starts a process that it is asked for *)
(* again and again, and the binder driver delivers obituaries.  Nothing    *)
(* makes a caller call and nothing makes the server die.                   *)
Fairness ==
  /\ \A t \in Threads : WF_vars(Step(t))
  /\ SF_vars(StartServer)
  /\ WF_vars(AppCreated)
  /\ \A w \in Wrapper : WF_vars(Obituary(w)) /\ WF_vars(BinderDied(w))

FairSpec == Spec /\ Fairness
-----------------------------------------------------------------------------
(* The type invariant.  A thread that waits for a reply has a manager, one *)
(* past the cache has a wrapper, one about to send has a binder.           *)
Labels == {"idle", "channel", "lock", "query", "publish", "link", "fetch",
           "create", "reply", "wrap", "put", "asif", "ready", "transact", "send"}

TypeOK ==
  /\ up \in BOOLEAN
  /\ created \in BOOLEAN
  /\ inc \in Nat
  /\ instance \in [Ids -> Nat]
  /\ channel \in [Procs -> Nat]
  /\ lock \in [Procs -> Threads \cup {None}]
  /\ cache \in [Procs -> [Ids -> Wrapper \cup {None}]]
  /\ impl \in [Threads -> [Ids -> Binder \cup {None}]]
  /\ linked \in SUBSET Wrapper
  /\ obits \in [Procs -> SUBSET Binder]
  /\ pc \in [Threads -> Labels]
  /\ cont \in [Threads -> {"new", "asif", "send"}]
  /\ req \in [Threads -> Ids \cup {None}]
  /\ svc \in [Threads -> Nat]
  /\ remote \in [Threads -> Binder \cup {None}]
  /\ held \in [Threads -> Wrapper \cup {None}]
  /\ out \in [Threads -> {"none", "ok", "dead", "large", "null", "threw"}]

(* Thread t is past the cache lookup with a cached or new binder in hand.  *)
Holding(t) == \/ pc[t] \in {"put", "asif", "ready", "transact", "send"}
              \/ pc[t] # "idle" /\ cont[t] # "new"

(* The binder that thread t is about to wrap or to send to.                *)
Using(t) == pc[t] \in {"wrap", "send"}

(* All binders a process uses come from the one server whose manager it    *)
(* has: no interleaving of the unlocked check, the monitor and the death   *)
(* of the server mixes binders of two servers in a process (lines 44-99).  *)
OneServerPerProcess ==
  \A t \in Threads : LET c == channel[ProcOf[t]] IN
    /\ Using(t) => remote[t].inc = c
    /\ Holding(t) /\ HeldImpl(t) # None => HeldImpl(t).inc = c

(* A binder is only ever used for the service it was asked for: the cache, *)
(* the wrappers and the re-fetch of a cleared wrapper keep the ids apart.  *)
OwnService ==
  \A t \in Threads :
    /\ Using(t) => remote[t].id = req[t]
    /\ Holding(t) => held[t].id = req[t]
    /\ Holding(t) /\ HeldImpl(t) # None => HeldImpl(t).id = req[t]

(* The recovery written into getRemoteBinder (lines 204-208) never helps:  *)
(* when a wrapper has been cleared, the manager it would ask is dead too.  *)
RefetchFutile ==
  \A t \in Threads :
    Holding(t) /\ HeldImpl(t) = None => ~Alive(channel[ProcOf[t]])

(* A wrapper of a client is watched: it is registered for its binder's     *)
(* death, or was built after the process had that binder's obituary, in    *)
(* which case its binder is dead and stays in it (lines 185-197).          *)
WatchedOrDead ==
  \A t \in Threads, id \in Ids :
    ~IsLocal(t) /\ impl[t][id] # None =>
      \/ [owner |-> t, id |-> id] \in linked
      \/ ~Alive(impl[t][id].inc)

(* ServiceList.getInterface does not dereference a null Service (line 82). *)
InterfaceInstalled == \A t \in Threads : Holding(t) => req[t] \in Installed

(* mServerManagerImpl is set once in the life of a process: the second     *)
(* check under the monitor keeps a late query from replacing it (58-61).   *)
ChannelSetOnce ==
  [][\A p \in Clients : channel[p] # 0 => channel'[p] = channel[p]]_vars

(* Once a service object exists, the objects made and the creations in     *)
(* flight never grow in number: only threads that saw a null static before *)
(* the first store can replace it, so the lazy singleton settles           *)
(* (StopPackageService.getService, lines 55-61).                           *)
Creating(id) == {t \in Threads : At(t, "create") /\ req[t] = id}
SettledInstance ==
  [][\A id \in Ids : instance[id] # 0 =>
       instance'[id] + Cardinality(Creating(id)')
         <= instance[id] + Cardinality(Creating(id))]_vars

(* Every request and every call comes to an end, whatever the server does. *)
CallsEnd ==
  \A t \in Threads :
    pc[t] \notin {"idle", "ready"} ~> pc[t] \in {"idle", "ready"}

(* A registered wrapper whose binder has died is cleared in the end.       *)
DeadWrapperCleared ==
  \A w \in Wrapper :
    w \in linked /\ ~Alive(impl[w.owner][w.id].inc) ~> w \notin linked

(* What the threads and the death of a server have begun comes to its end. *)
FrameworkSettles == CallsEnd /\ DeadWrapperCleared

-----------------------------------------------------------------------------
(* The inductive invariant behind OneServerPerProcess, OwnService,         *)
(* RefetchFutile and the refinement, in named parts.                       *)

(* Incarnations: nothing refers to a future one, and the server's own      *)
(* threads and statics belong to the running one, after App.onCreate.      *)
IncarnationInv ==
  /\ up => inc > 0
  /\ created => up
  /\ \A p \in Procs : channel[p] <= inc
  /\ channel[Server] # 0 => up /\ channel[Server] = inc
  /\ \A t \in Threads :
       IsLocal(t) => /\ pc[t] # "idle" => created
                     /\ svc[t] # 0 => up /\ svc[t] = inc

(* The monitor is held exactly by the thread inside queryService.          *)
LockInv ==
  /\ \A t \in Threads :
       pc[t] \in {"query", "publish", "link"} => lock[ProcOf[t]] = t
  /\ \A p \in Procs : lock[p] # None =>
       /\ ProcOf[lock[p]] = p
       /\ pc[lock[p]] \in {"query", "publish", "link"}

(* The manager a thread works with is the one its process keeps.           *)
ChannelInv ==
  \A t \in Threads : LET c == channel[ProcOf[t]] IN
    /\ pc[t] \in {"query", "publish"} => c = 0
    /\ pc[t] = "publish" => svc[t] \in 1..inc
    /\ pc[t] \in {"link", "fetch", "create", "reply"} => svc[t] = c /\ c # 0

(* A thread's locals: the service asked for, the binder, the wrapper.      *)
ThreadInv ==
  \A t \in Threads :
    /\ pc[t] # "idle" => req[t] \in Ids
    /\ pc[t] \in {"create", "reply", "wrap"} => req[t] \in Installed
    /\ pc[t] \in {"wrap", "put", "asif"} => cont[t] = "new"
    /\ pc[t] \in {"transact", "send"} => cont[t] = "send"
    /\ pc[t] \notin {"idle", "ready"} => out[t] = "none"
    /\ Using(t) => /\ remote[t] \in Binder
                   /\ remote[t].inc = channel[ProcOf[t]]
                   /\ remote[t].inc # 0
                   /\ remote[t].id = req[t]

(* What is known of a wrapper that process p refers to for service id:     *)
(* when it has been cleared, the process's manager is dead.                *)
GoodEntry(w, p, id) ==
  /\ w \in Wrapper
  /\ w.id = id
  /\ id \in Installed
  /\ ProcOf[w.owner] = p
  /\ channel[p] # 0
  /\ impl[w.owner][id] = None => ~Alive(channel[p])

EntryInv ==
  /\ \A p \in Procs, id \in Ids :
       cache[p][id] # None => GoodEntry(cache[p][id], p, id)
  /\ \A t \in Threads : Holding(t) => GoodEntry(held[t], ProcOf[t], req[t])

(* A thread that asks the manager once more, for a cleared wrapper, asks a *)
(* dead one, although the wrapper may have been cleared long before.       *)
Refetching(t) ==
  /\ pc[t] \in {"channel", "lock", "query", "publish", "link",
                "fetch", "create", "reply"}
  /\ cont[t] # "new"

RefetchInv ==
  \A t \in Threads : Refetching(t) => ~Alive(channel[ProcOf[t]])

(* A wrapper's binder is of the process's server; obituaries are true.     *)
BinderInv ==
  /\ \A t \in Threads, id \in Ids : impl[t][id] # None =>
       /\ impl[t][id].inc = channel[ProcOf[t]]
       /\ impl[t][id].inc # 0
       /\ impl[t][id].id = id
  /\ \A p \in Procs : \A b \in obits[p] : b.inc <= inc /\ ~Alive(b.inc)
  /\ \A w \in linked : ~IsLocal(w.owner) /\ impl[w.owner][w.id] # None

IInv == /\ TypeOK
        /\ IncarnationInv
        /\ LockInv
        /\ ChannelInv
        /\ ThreadInv
        /\ EntryInv
        /\ BinderInv
        /\ RefetchInv

(* The detailed framework implements the promise of ServiceDirectory.      *)
Phase == [t \in Threads |->
            CASE pc[t] = "idle"  -> "idle"
              [] pc[t] = "ready" -> "holding"
              [] pc[t] \notin {"idle", "ready"} /\ cont[t] = "send" -> "calling"
              [] OTHER -> "getting"]

Directory == INSTANCE ServiceDirectory WITH
               ready <- created, bound <- channel,
               phase <- Phase, want <- req
KeepsPromise == Directory!Spec
=============================================================================
