-------------------------- MODULE MCServiceManager --------------------------
(* Instances of ServiceManager for TLC: which thread is in which process.  *)
EXTENDS ServiceManager, TLC

CONSTANTS t1, t2, t3, app, other, server

(* Two threads of one client process race for its statics.                 *)
OneClient == (t1 :> app) @@ (t2 :> app)

(* A client, another client and a thread inside the server.                *)
ThreeProcesses == (t1 :> app) @@ (t2 :> other) @@ (t3 :> server)
=============================================================================
