-------------------------- MODULE ServiceDirectory --------------------------
(***************************************************************************)
(* What the cross-process service framework of com.multiprocess promises   *)
(* to a thread that asks for a service by its id and then calls it.        *)
(*                                                                         *)
(* The services live in the ":server" process, which is started on demand  *)
(* and may die and be started again: each life is an incarnation.  A       *)
(* process that uses the services is bound to ONE incarnation, the one it  *)
(* found first, for as long as it lives.  The promise is then              *)
(*   - a call that succeeds was executed by the incarnation to which the   *)
(*     caller's process is bound, while that incarnation was up;           *)
(*   - a call finds the server dead only at a moment when that incarnation *)
(*     is not up, a request for an installed service gets null only then   *)
(*     or while the server is still starting;                              *)
(*   - a call to a live server fails only if its data do not fit into a    *)
(*     transaction between two processes, and an exception reaches the     *)
(*     caller only from the bounds check of the manager or from a service  *)
(*     of which a method throws.                                           *)
(* ServiceManager implements this with caches, wrappers and death notices. *)
(***************************************************************************)
EXTENDS Naturals

CONSTANTS Threads,      \* the threads that use the services
          Procs,        \* the processes they belong to, the server included
          ProcOf,       \* the process of each thread
          Server,       \* the server process
          Ids,          \* the service ids that threads ask for
          InRange,      \* those in ServiceList.MIN_ID .. MAX_ID
          Installed,    \* those with an installed Service
          Throwing,     \* those of which a method throws
          Large,        \* those of which a method passes very much
          None

VARIABLES up,           \* is the server process running
          ready,        \* has it finished starting
          inc,          \* the number of its current or last incarnation
          bound,        \* the incarnation a process is bound to, 0: none yet
          phase,        \* what a thread is doing
          want,         \* the service it does it with
          out           \* how its last request ended

vars == <<up, ready, inc, bound, phase, want, out>>

(* The incarnation to which process p is bound is running.                 *)
Serving(p) == up /\ bound[p] # 0 /\ bound[p] = inc

Init == /\ up = FALSE
        /\ ready = FALSE
        /\ inc = 0
        /\ bound = [p \in Procs |-> 0]
        /\ phase = [t \in Threads |-> "idle"]
        /\ want = [t \in Threads |-> None]
        /\ out = [t \in Threads |-> "none"]

Start == /\ ~up
         /\ up' = TRUE
         /\ inc' = inc + 1
         /\ UNCHANGED <<ready, bound, phase, want, out>>

(* The server has started: it serves requests from now on.                 *)
Started == /\ up
           /\ ready' = TRUE
           /\ UNCHANGED <<up, inc, bound, phase, want, out>>

(* What a crash leaves of a per-thread attribute f.                        *)
Survivors(f, reset) ==
  [t \in Threads |-> IF ProcOf[t] = Server THEN reset ELSE f[t]]

(* The server dies: its own threads and its own binding go with it.        *)
Crash == /\ up
         /\ up' = FALSE
         /\ ready' = FALSE
         /\ bound' = [bound EXCEPT ![Server] = 0]
         /\ phase' = Survivors(phase, "idle")
         /\ want' = Survivors(want, None)
         /\ out' = Survivors(out, "none")
         /\ UNCHANGED inc

(* A process binds to the server it found, which may have died since.      *)
Bind(p) == /\ bound[p] = 0
           /\ \E i \in 1..inc : bound' = [bound EXCEPT ![p] = i]
           /\ UNCHANGED <<up, ready, inc, phase, want, out>>

(* Thread t leaves phase a for phase b, its last outcome being o.          *)
Move(t, a, b, o) == /\ phase[t] = a
                    /\ phase' = [phase EXCEPT ![t] = b]
                    /\ out' = [out EXCEPT ![t] = o]
                    /\ UNCHANGED <<up, ready, inc, bound>>

(* A thread asks for the interface of a service...                         *)
Ask(t, id) == /\ Move(t, "idle", "getting", "none")
              /\ want' = [want EXCEPT ![t] = id]

(* ... and gets one, which may be of a server that has died since,         *)
Obtain(t) == /\ Move(t, "getting", "holding", "none")
             /\ want[t] \in Installed
             /\ bound[ProcOf[t]] # 0
             /\ UNCHANGED want

(* or null,                                                                *)
ObtainNull(t) == /\ Move(t, "getting", "idle", "null")
                 /\ \/ want[t] \in InRange \ Installed
                    \/ ~Serving(ProcOf[t])
                    \/ ~ready
                 /\ UNCHANGED want

(* or IllegalArgumentException.                                            *)
ObtainThrow(t) == /\ Move(t, "getting", "idle", "threw")
                  /\ want[t] \notin InRange
                  /\ Serving(ProcOf[t]) /\ ready
                  /\ UNCHANGED want

(* It calls a method through the interface it holds...                     *)
Invoke(t) == /\ Move(t, "holding", "calling", "none")
             /\ UNCHANGED want

(* ... and the service executes it,                                        *)
Execute(t) == /\ Move(t, "calling", "holding", "ok")
              /\ Serving(ProcOf[t])
              /\ UNCHANGED want

(* or throws while it does,                                                *)
Throw(t) == /\ Move(t, "calling", "holding", "threw")
            /\ want[t] \in Throwing
            /\ Serving(ProcOf[t])
            /\ UNCHANGED want

(* or what is passed is too large (TransactionTooLargeException),          *)
Refuse(t) == /\ Move(t, "calling", "holding", "large")
             /\ want[t] \in Large /\ ProcOf[t] # Server
             /\ Serving(ProcOf[t])
             /\ UNCHANGED want

(* or the service is gone.                                                 *)
Fail(t) == /\ Move(t, "calling", "holding", "dead")
           /\ ~Serving(ProcOf[t])
           /\ UNCHANGED want

Drop(t) == /\ Move(t, "holding", "idle", out[t])
           /\ UNCHANGED want

Next == \/ Start
        \/ Started
        \/ Crash
        \/ \E p \in Procs : Bind(p)
        \/ \E t \in Threads :
             \/ \E id \in Ids : Ask(t, id)
             \/ Obtain(t)
             \/ ObtainNull(t)
             \/ ObtainThrow(t)
             \/ Invoke(t)
             \/ Execute(t)
             \/ Throw(t)
             \/ Refuse(t)
             \/ Fail(t)
             \/ Drop(t)

Spec == Init /\ [][Next]_vars
=============================================================================
