-------------------------------- MODULE AidlRpc --------------------------------
(***************************************************************************)
(* What the Java does that aidl generates for an rpc interface             *)
(* (generate_java_rpc.cpp): the proxy puts the arguments into an RpcData   *)
(* under their names and hands it to the broker with a result dispatcher;  *)
(* the endpoint base finds the method by name; the result dispatcher finds *)
(* the callback by number.  Events are pushed to a presenter that the      *)
(* proxy has registered.  The broker delivers in any order.                *)
(***************************************************************************)
EXTENDS AidlBinder

VARIABLES
  requests, results,      \* sent and not yet processed; answered and not yet dispatched
  presenter, registered,  \* the proxy's _presenter; the presenters the broker delivers to
  events,                 \* pushed and not yet delivered
  sent,                   \* requests, pushes and presenters made
  answer, event,          \* the last callback made for a result, for an event
  keys                    \* has every get found what was put for it

rpcVars == <<requests, results, presenter, registered, events, sent, answer, event, keys>>

NoAnswer == [method |-> 0, request |-> [method |-> 0, args |-> <<>>], saw |-> <<>>, outs |-> <<>>, result |-> "none", got |-> <<>>, gotResult |-> "none"]

RpcInit ==
  /\ requests = <<>> /\ results = <<>>
  /\ presenter = 0 /\ registered = {} /\ events = <<>>
  /\ sent = 0 /\ answer = NoAnswer /\ event = NoAnswer /\ keys = TRUE

(* RpcData: what is under each key.                                        *)
Put(key, t, v) == {[key |-> key, format |-> t.calls.put, value |-> v]}
Get(data, key, t) ==
  IF \E d \in data : d.key = key
  THEN LET d == CHOOSE d \in data : d.key = key IN [ok |-> d.format = t.calls.get, value |-> d.value]
  ELSE [ok |-> FALSE, value |-> "garbage"]
PutArgs(m, values, passed) ==
  UNION {Put(m.args[k].name, m.args[k].type, values[k]) : k \in passed}
(* The proxy's method: sendRpc.                                            *)
RpcSend ==
  /\ sent < MaxCalls /\ Running("rpc")
  /\ \E i \in DOMAIN Methods : \E args \in ArgsOf(Methods[i]) :
       LET m == Methods[i] IN
       /\ ~IsEvent(m)
       /\ requests' = Append(requests, [action |-> m.name, data |-> PutArgs(m, args, Ins(m)), method |-> i, args |-> args,
                                        handler |-> IF NeedsResult(m) THEN i ELSE 0])
  /\ sent' = sent + 1
  /\ UNCHANGED <<results, presenter, registered, events, answer, event, keys, compilerVars, binderVars>>

(* What process reads of the arguments of the method m.                    *)
ReadArgs(m, data) ==
  [k \in DOMAIN m.args |-> IF In(m.args[k]) THEN Get(data, m.args[k].name, m.args[k].type) ELSE [ok |-> TRUE, value |-> "new"]]
(* The if chain on the action.                                             *)
Named(action) == {j \in DOMAIN Methods : Methods[j].name = action}

(* EndpointBase.process, for any request; the result is null when nothing  *)
(* comes back.                                                             *)
Process ==
  /\ \E n \in DOMAIN requests : \E j \in Named(requests[n].action) :
       LET q == requests[n]
           m == Methods[j]
           read == ReadArgs(m, q.data)
           saw == [k \in DOMAIN m.args |-> read[k].value]
       IN /\ keys' = (keys /\ \A k \in DOMAIN read : read[k].ok)
          /\ requests' = RemoveAt(requests, n)
          /\ \/ \E outs \in Outcomes(m, saw) : \E r \in Results(m) :
                  results' = IF q.handler = 0 THEN results
                             ELSE Append(results, [request |-> q, saw |-> saw, outs |-> outs, result |-> r,
                                            data |-> PutArgs(m, outs, Outs(m))
                                                     \cup (IF IsVoid(m) THEN {} ELSE Put("_result", m.type, r))])
             \/ UNCHANGED results  \* it throws, and the broker tells the error listener
  /\ UNCHANGED <<presenter, registered, events, sent, answer, event, compilerVars, binderVars>>

(* Faulty: the methods with a result are numbered on their own.            *)
CaseOfResults(number) ==
  LET needing == SelectSeq([i \in DOMAIN Methods |-> i], LAMBDA i : NeedsResult(Methods[i]))
  IN IF number \in DOMAIN needing THEN needing[number] ELSE number
(* The case labels of onResult: the place of the method among the items.   *)
CaseOf(number) == number

(* _ResultDispatcher.onResult, for any result.                             *)
OnResult ==
  /\ \E n \in DOMAIN results :
       LET a == results[n]
           j == CaseOf(a.request.handler)
           m == Methods[j]
           r == IF IsVoid(m) THEN [ok |-> TRUE, value |-> "none"] ELSE Get(a.data, "_result", m.type)
           outs == [k \in DOMAIN m.args |-> IF Out(m.args[k]) THEN Get(a.data, m.args[k].name, m.args[k].type)
                                            ELSE [ok |-> TRUE, value |-> "none"]]
       IN /\ results' = RemoveAt(results, n)
          /\ answer' = [method |-> j, request |-> [method |-> a.request.method, args |-> a.request.args], saw |-> a.saw,
                        outs |-> a.outs, result |-> a.result, got |-> [k \in DOMAIN outs |-> outs[k].value], gotResult |-> r.value]
          /\ keys' = (keys /\ r.ok /\ \A k \in DOMAIN outs : outs[k].ok)
  /\ UNCHANGED <<requests, presenter, registered, events, sent, event, compilerVars, binderVars>>

-----------------------------------------------------------------------------
(* Listeners.  startListening stops the presenter that is there; both are  *)
(* called by one thread.                                                   *)

Listens == \E i \in DOMAIN Methods : IsEvent(Methods[i])
(* Faulty: the presenter that is there is not stopped.                     *)
StartListeningAgain ==
  /\ sent < MaxCalls /\ Running("rpc") /\ Listens
  /\ sent' = sent + 1
  /\ presenter' = sent'
  /\ registered' = registered \cup {presenter'}
  /\ UNCHANGED <<requests, results, events, answer, event, keys, compilerVars, binderVars>>
StartListening ==
  /\ sent < MaxCalls /\ Running("rpc") /\ Listens
  /\ sent' = sent + 1
  /\ presenter' = sent'
  /\ registered' = (registered \ {presenter}) \cup {presenter'}
  /\ UNCHANGED <<requests, results, events, answer, event, keys, compilerVars, binderVars>>
StopListening ==
  /\ presenter # 0
  /\ registered' = registered \ {presenter}
  /\ presenter' = 0
  /\ UNCHANGED <<requests, results, events, sent, answer, event, keys, compilerVars, binderVars>>

(* The endpoint's push method: every argument goes out.                    *)
Push ==
  /\ sent < MaxCalls /\ Running("rpc")
  /\ \E i \in DOMAIN Methods : \E args \in ArgsOf(Methods[i]) :
       /\ IsEvent(Methods[i])
       /\ events' = Append(events, [action |-> Methods[i].name, data |-> PutArgs(Methods[i], args, DOMAIN args),
                                    method |-> i, args |-> args])
  /\ sent' = sent + 1
  /\ UNCHANGED <<requests, results, presenter, registered, answer, event, keys, compilerVars, binderVars>>

(* Presenter.process, of any event; without a presenter it is dropped.     *)
Deliver ==
  /\ \E n \in DOMAIN events : \E j \in Named(events[n].action) :
       LET q == events[n]
           read == ReadArgs(Methods[j], q.data)
       IN /\ events' = RemoveAt(events, n)
          /\ IF registered = {} THEN UNCHANGED <<event, keys>>
             ELSE /\ event' = [NoAnswer EXCEPT !.method = j, !.request = [method |-> q.method, args |-> q.args],
                                               !.saw = [k \in DOMAIN read |-> read[k].value]]
                  /\ keys' = (keys /\ \A k \in DOMAIN read : read[k].ok)
  /\ UNCHANGED <<requests, results, presenter, registered, sent, answer, compilerVars, binderVars>>

RpcStep == RpcSend \/ Process \/ OnResult \/ StartListening \/ StopListening \/ Push \/ Deliver
=============================================================================
