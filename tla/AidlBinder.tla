------------------------------ MODULE AidlBinder ------------------------------
(***************************************************************************)
(* What the Java does that aidl generates for an interface                 *)
(* (generate_java_binder.cpp): the proxy marshals a call, the stub in      *)
(* another process unmarshals it, calls the service and marshals what it   *)
(* gave, and the proxy unmarshals that.  Oneway calls are queued.  The     *)
(* process of the service may die, and the service may throw.              *)
(***************************************************************************)
EXTENDS AidlOutput

CONSTANT MaxCalls  \* calls made in a behaviour
ASSUME MaxCallsAssumption == MaxCalls \in Nat

VARIABLES
  client,  \* the calling thread and the call it makes
  queue,   \* oneway transactions that were sent
  alive,   \* the process of the service
  calls,   \* calls made
  last,    \* the last call that ended
  wire     \* has every read found what was written for it

binderVars == <<client, queue, alive, calls, last, wire>>

Idle == [pc |-> "idle", method |-> 0, args |-> <<>>, data |-> <<>>, reply |-> <<>>, held |-> {},
         saw |-> <<>>, outs |-> <<>>, result |-> "none", threw |-> "nothing"]
NoCall == [kind |-> "none", call |-> Idle, got |-> <<>>, result |-> "none"]

BinderInit ==
  /\ client = Idle /\ queue = <<>> /\ alive = TRUE
  /\ calls = 0 /\ last = NoCall /\ wire = TRUE

-----------------------------------------------------------------------------
(* The interface; generated is compiled by javac and runs when its Java is *)
(* accepted.                                                               *)

Methods == generated.methods
Oneway(m) == generated.oneway \/ m.oneway
HasResult(m) == m.type # VoidType
IsEvent(m) == m.type = EventType
IsVoid(m) == m.type \in {VoidType, EventType}
Ins(m) == {k \in DOMAIN m.args : In(m.args[k])}
Outs(m) == {k \in DOMAIN m.args : Out(m.args[k])}

(* rpc, generate_results_method: a callback only for what comes back.      *)
NeedsResult(m) == ~m.oneway /\ (~IsVoid(m) \/ Outs(m) # {})

(* EnsureClassLoader declares cl in the first body that uses it, which is  *)
(* the stub's; the proxy then uses it without a declaration.               *)
Loads(a) == a.dimension = 0 /\ a.type.loader
StubLoads(m) == \E k \in DOMAIN m.args : In(m.args[k]) /\ Loads(m.args[k])
ProxyLoads(m) == ~Oneway(m) /\ \/ m.dimension = 0 /\ m.type.loader
                               \/ \E k \in DOMAIN m.args : Out(m.args[k]) /\ Loads(m.args[k])
Undeclared(m) == StubLoads(m) /\ ProxyLoads(m)

(* The variables that are declared beside the argument a.                  *)
Variables(kind, m, a) ==
  IF kind = "interface"
  THEN {"_data"} \cup (IF Oneway(m) THEN {} ELSE {"_reply"}) \cup (IF HasResult(m) THEN {"_result"} ELSE {})
  ELSE (IF In(a) THEN {"_data", "_errors"} ELSE {})
       \cup (IF NeedsResult(m) /\ (In(a) \/ ~IsVoid(m)) THEN {"_result"} ELSE {})

(* The rest of what javac rejects in what aidl accepts: a void argument, a *)
(* result that a oneway proxy never reads, a new Map, a name used twice.   *)
Compiles(kind, m) ==
  /\ ~Unimplemented(kind, m)
  /\ m.type = VoidType => m.dimension = 0
  /\ \A k \in DOMAIN m.args :
       /\ m.args[k].type # VoidType
       /\ ~In(m.args[k]) /\ m.args[k].dimension = 0 => m.args[k].type.instantiable
       /\ m.args[k].name \notin Variables(kind, m, m.args[k])
       /\ \A l \in DOMAIN m.args : k # l => m.args[k].name # m.args[l].name
  /\ kind = "interface" => ~Undeclared(m) /\ ~(Oneway(m) /\ HasResult(m))

Running(kind) ==
  /\ commands = <<>> /\ stage = "end" /\ generated.kind = kind
  /\ \A i \in DOMAIN Methods : Compiles(kind, Methods[i])

ValuesOf(t, dimension) ==
  IF dimension = 1 \/ t.package # "none" THEN {"null", "a"}
  ELSE IF t.form = "boolean" THEN {"true", "false"} ELSE {"a"}
(* What takes a value of each of the sets.                                 *)
Tuples(sets) == {s \in [DOMAIN sets -> UNION Range(sets)] : \A k \in DOMAIN sets : s[k] \in sets[k]}
ArgsOf(m) == Tuples([k \in DOMAIN m.args |-> ValuesOf(m.args[k].type, m.args[k].dimension)])

-----------------------------------------------------------------------------
(* The proxy                                                               *)

(* An array that is only out is sent by its length.                        *)
RequestOf(a, v) ==
  CASE ~In(a) /\ a.dimension # 0 -> <<Item("Int", IF v = "null" THEN "-1" ELSE "1")>>
    [] In(a) -> Write(a.type, a.dimension, v)
    [] OTHER -> <<>>
Token == Item("Token", generated.name)
Request(m, args) == <<Token>> \o FlattenSeq([k \in DOMAIN m.args |-> RequestOf(m.args[k], args[k])])

BinderCall ==
  /\ client.pc = "idle" /\ calls < MaxCalls /\ Running("interface")
  /\ \E i \in DOMAIN Methods : \E args \in ArgsOf(Methods[i]) :
       client' = [Idle EXCEPT !.pc = "built", !.method = i, !.args = args, !.data = Request(Methods[i], args),
                              !.held = {"data"} \cup (IF Oneway(Methods[i]) THEN {} ELSE {"reply"})]
  /\ calls' = calls + 1 /\ last' = NoCall
  /\ UNCHANGED <<queue, alive, wire, compilerVars>>

(* Faulty: the parcels are recycled where the body ends.                   *)
EndsWithoutFinally(kind, got, r) ==
  /\ client' = [Idle EXCEPT !.held = IF kind \in {"returned", "sent"} THEN {} ELSE client.held]
  /\ last' = [kind |-> kind, call |-> client, got |-> got, result |-> r]
(* The call ends: the parcels are recycled by the finally block.           *)
Ends(kind, got, r) ==
  /\ client' = [Idle EXCEPT !.held = client.held \ {"data", "reply"}]
  /\ last' = [kind |-> kind, call |-> client, got |-> got, result |-> r]

Object(a) == a.type.form = "nullable" \/ a.dimension = 1
(* An object's own writeToParcel throws while the request is made.         *)
MarshallingThrows ==
  /\ client.pc = "built"
  /\ \E k \in DOMAIN client.args : LET a == Methods[client.method].args[k] IN In(a) /\ Object(a) /\ client.args[k] # "null"
  /\ Ends("own exception", <<>>, "none")
  /\ UNCHANGED <<queue, alive, calls, wire, compilerVars>>

Transact ==
  /\ client.pc = "built"
  /\ IF ~alive THEN Ends("remote exception", <<>>, "none") /\ UNCHANGED queue
     ELSE IF Oneway(Methods[client.method])
     THEN queue' = Append(queue, client) /\ Ends("sent", <<>>, "none")
     ELSE client' = [client EXCEPT !.pc = "sent"] /\ UNCHANGED <<queue, last>>
  /\ UNCHANGED <<alive, calls, wire, compilerVars>>

-----------------------------------------------------------------------------
(* The stub                                                                *)

(* Faulty: the length of an array that is only out is not taken.           *)
StubArgNoLength(a, data) ==
  IF In(a) THEN Create(a.type, a.dimension, data) ELSE Taken(TRUE, "new", data)
(* What the stub makes of one argument, from what is left of the data.     *)
StubArg(a, data) ==
  LET length == Take(data, "Int") IN
  IF In(a) THEN Create(a.type, a.dimension, data)
  ELSE IF a.dimension = 0 THEN Taken(TRUE, "new", data)
  ELSE Taken(length.ok, IF length.value = "-1" THEN "null" ELSE "new", length.rest)
StubArgs(m, data) ==
  LET token == Take(data, "Token")
      read[k \in 0 .. Len(m.args)] ==
        IF k = 0 THEN [ok |-> token.ok, rest |-> token.rest, values |-> <<>>]
        ELSE LET before == read[k - 1]
                 t == StubArg(m.args[k], before.rest)
             IN [ok |-> before.ok /\ t.ok, rest |-> t.rest, values |-> Append(before.values, t.value)]
  IN read[Len(m.args)]

(* What the service may make of its arguments: it changes the objects that *)
(* go back, and cannot make another of a null.                             *)
Outcomes(m, saw) ==
  Tuples([k \in DOMAIN m.args |-> IF Out(m.args[k]) /\ saw[k] # "null" THEN {saw[k], "b"} ELSE {saw[k]}])
Results(m) == IF HasResult(m) THEN ValuesOf(m.type, m.dimension) ELSE {"none"}

(* Faulty: the result is written behind the arguments.                     *)
ReplyResultLast(m, outs, r) ==
  <<Item("NoException", "0")>>
  \o FlattenSeq([k \in DOMAIN m.args |-> IF Out(m.args[k]) THEN Write(m.args[k].type, m.args[k].dimension, outs[k]) ELSE <<>>])
  \o (IF HasResult(m) THEN Write(m.type, m.dimension, r) ELSE <<>>)
Reply(m, outs, r) ==
  (IF Oneway(m) THEN <<>> ELSE <<Item("NoException", "0")>>)
  \o (IF HasResult(m) THEN Write(m.type, m.dimension, r) ELSE <<>>)
  \o FlattenSeq([k \in DOMAIN m.args |-> IF Out(m.args[k]) THEN Write(m.args[k].type, m.args[k].dimension, outs[k]) ELSE <<>>])

(* Faulty: the error is written after what is there.                       *)
CaughtBehind(written) == written \o <<Item("Exception", "-3"), Item("String", "stack")>>
(* onTransact catches a RuntimeException and no other, goes back to the    *)
(* start of the reply and writes the error over what is there.             *)
Caught(written) ==
  <<Item("Exception", "-3"), Item("String", "stack")>> \o SubSeq(written, 3, Len(written))

(* The stub runs the transaction c: the method of its code, all of whose   *)
(* arguments are read.  The reply is complete, or a RuntimeException comes *)
(* out of the service or of a result that is written, or the service throws*)
(* the RemoteException that each method declares: it leaves onTransact, and*)
(* the framework has no reply to send.                                     *)
Answers(c, run) ==
  IF c.pc = "sent" THEN client' = [run EXCEPT !.pc = "replied"] /\ UNCHANGED last
                ELSE last' = [kind |-> "served", call |-> run, got |-> <<>>, result |-> "none"] /\ UNCHANGED client
Runs(c) ==
  \E j \in {k \in DOMAIN Methods : Methods[k].value = Methods[c.method].value} : \E read \in {StubArgs(Methods[j], c.data)} :
    /\ wire' = (wire /\ read.ok /\ read.rest = <<>>)
    /\ \E outs \in Outcomes(Methods[j], read.values) : \E r \in Results(Methods[j]) : \E reply \in {Reply(Methods[j], outs, r)} :
         LET seen == [c EXCEPT !.saw = read.values, !.outs = outs, !.result = r]
         IN \/ Answers(c, [seen EXCEPT !.reply = reply])
            \/ Answers(c, [seen EXCEPT !.reply = Caught(<<>>), !.threw = "runtime"])
            \/ \E n \in 1 .. Len(reply) - 1 : Answers(c, [seen EXCEPT !.reply = Caught(SubSeq(reply, 1, n)), !.threw = "runtime"])
            \/ Answers(c, [seen EXCEPT !.reply = <<>>, !.threw = "remote"])

StubTransact ==
  /\ client.pc = "sent" /\ alive
  /\ Runs(client)
  /\ UNCHANGED <<queue, alive, calls, compilerVars>>

(* Oneway transactions are taken in order; their replies go nowhere.       *)
StubOneway ==
  /\ queue # <<>> /\ alive
  /\ Runs(Head(queue))
  /\ queue' = Tail(queue)
  /\ UNCHANGED <<alive, calls, compilerVars>>

Dies ==
  /\ alive /\ calls > 0 /\ Running("interface")
  /\ alive' = FALSE /\ queue' = <<>>
  /\ UNCHANGED <<client, calls, last, wire, compilerVars>>

(* The driver tells the caller that the process is gone.                   *)
CallDies ==
  /\ client.pc = "sent" /\ ~alive
  /\ Ends("remote exception", <<>>, "none")
  /\ UNCHANGED <<queue, alive, calls, wire, compilerVars>>

-----------------------------------------------------------------------------
(* The proxy reads the reply.                                              *)

ReadOuts(m, args, reply) ==
  LET read[k \in 0 .. Len(m.args)] ==
        IF k = 0 THEN [ok |-> TRUE, rest |-> reply, values |-> <<>>, throws |-> FALSE]
        ELSE LET before == read[k - 1]
                 a == m.args[k]
                 t == ReadInto(a.type, a.dimension, args[k], before.rest)
             IN IF ~Out(a) THEN [before EXCEPT !.values = Append(@, args[k])]
                ELSE [ok |-> before.ok /\ t.ok, rest |-> t.rest, values |-> Append(before.values, t.value),
                      throws |-> before.throws \/ ReadThrows(a.type, a.dimension, args[k], before.rest)]
  IN read[Len(m.args)]

(* What transact returns is not looked at: an empty reply, of a service    *)
(* that left onTransact, reads as one without an exception.                *)
Returns ==
  /\ client.pc = "replied"
  /\ IF client.reply # <<>> /\ client.reply[1].format = "Exception"
     THEN Ends("exception", <<>>, "none") /\ UNCHANGED wire
     ELSE LET m == Methods[client.method]
              head == Take(client.reply, "NoException")
          IN \E r \in {IF HasResult(m) THEN Create(m.type, m.dimension, head.rest) ELSE Taken(TRUE, "none", head.rest)} :
             \E outs \in {ReadOuts(m, client.args, r.rest)} :
               IF outs.throws THEN Ends("own exception", <<>>, "none") /\ UNCHANGED wire
               ELSE /\ Ends("returned", outs.values, r.value)
                    /\ wire' = (wire /\ (client.reply = <<>> \/ (head.ok /\ r.ok /\ outs.ok /\ outs.rest = <<>>)))
  /\ UNCHANGED <<queue, alive, calls, compilerVars>>

(* asInterface gives a caller in the process of the service the service    *)
(* itself: its objects are not copied, and a oneway call is as any other.  *)
LocalCall ==
  /\ client.pc = "idle" /\ calls < MaxCalls /\ alive /\ Running("interface")
  /\ calls' = calls + 1
  /\ \E i \in DOMAIN Methods : \E args \in ArgsOf(Methods[i]) :
       \E outs \in Outcomes(Methods[i], args) : \E r \in Results(Methods[i]) :
         LET c == [Idle EXCEPT !.method = i, !.args = args, !.saw = args, !.outs = outs, !.result = r]
         IN \/ last' = [kind |-> "returned", call |-> c, got |-> outs, result |-> r]
            \/ \E thrown \in {"runtime", "remote"} :
                 last' = [kind |-> "exception", call |-> [c EXCEPT !.threw = thrown], got |-> <<>>, result |-> "none"]
  /\ UNCHANGED <<client, queue, alive, wire, compilerVars>>

BinderStep ==
  BinderCall \/ LocalCall \/ MarshallingThrows \/ Transact \/ StubTransact \/ StubOneway \/ Dies \/ CallDies \/ Returns
=============================================================================
