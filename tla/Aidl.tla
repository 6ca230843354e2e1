---------------------------------- MODULE Aidl ----------------------------------
(***************************************************************************)
(* The aidl compiler with what it is for: a build runs command lines of it *)
(* (AidlCompiler, AidlOutput), and the Java it wrote for a binder          *)
(* interface (AidlBinder) or an rpc interface (AidlRpc) then runs, with    *)
(* the type table the compiler had.                                        *)
(***************************************************************************)
EXTENDS AidlRpc

vars == <<compilerVars, binderVars, rpcVars>>

Init == CompilerInit /\ BinderInit /\ RpcInit
Compile == CompilerStep /\ UNCHANGED <<binderVars, rpcVars>>
Binder == BinderStep /\ UNCHANGED rpcVars
Next == Compile \/ Binder \/ RpcStep
Spec == Init /\ [][Next]_vars

(* The compiler runs; so do the threads of a call, in the processes that   *)
(* live.  Nobody has to make a call.                                       *)
CallGoesOn == (Transact \/ StubTransact \/ CallDies \/ Returns) /\ UNCHANGED rpcVars
FairSpec == Spec /\ WF_compilerVars(Compile) /\ WF_client(CallGoesOn)

-----------------------------------------------------------------------------
(* The compiler                                                            *)

(* Every variable has its type; a transaction code is an int.              *)
AidlTypeOK ==
  /\ stage \in {"start", "preprocess", "preprocessed", "main", "imports", "filenames", "gather", "types", "one", "ids",
                "output", "dep", "java", "end"}
  /\ err \in BOOLEAN /\ onlyParcelable \in BOOLEAN
  /\ result \in {"none", "0", "1", "abort"}
  /\ \A i \in DOMAIN ids : ids[i] \in -(Word \div 2) .. (Word \div 2) - 1
  /\ \A i \in DOMAIN names : names[i].kind \in {"builtin", "userdata", "interface", "generated"}
  /\ client.pc \in {"idle", "built", "sent", "replied"} /\ alive \in BOOLEAN
  /\ calls \in 0 .. MaxCalls /\ sent \in 0 .. MaxCalls /\ presenter \in 0 .. MaxCalls

(* Whatever was reported in a pass, by whichever of its checks, there is   *)
(* no output and the pass does not succeed (compile_aidl gathers err); but *)
(* for the redefinitions in preprocessed files, which DroppedLose is about.*)
ErrorsStop == (result = "0" /\ stage = "end") \/ stage \in {"filenames", "dep", "java"} => found = {}

(* parse_preprocessed_file drops the error of a line that redefines a name,*)
(* and the pass goes on: with the name as it was, of another kind than the *)
(* line says, whatever is declared after that.                             *)
DroppedLose ==
  \A line \in dropped :
    LET t == FindName(names, ItemName(Declared(line)))
    IN t # NoType /\ t.kind # TypeOf(Declared(line)).kind

Checked == stage \in {"dep", "java"} /\ IsInterface(main[1])
RpcArray(m) == m.dimension > 0 \/ \E k \in DOMAIN m.args : m.args[k].dimension > 0
Unmarshalled(kind) == {Ref("java.io", "PrintWriter", <<>>), Ref("java.io", "StringWriter", <<>>)}
                      \cup (IF kind = "rpc" THEN {QualifiedName(CharSequenceType)} ELSE {})
UsesUnmarshalled(kind, m) == \/ QualifiedName(m.type) \in Unmarshalled(kind)
                             \/ \E k \in DOMAIN m.args : QualifiedName(m.args[k].type) \in Unmarshalled(kind)

(* For a method that the checks let through every marshalling call it      *)
(* needs exists, except for arrays in rpc interfaces, the two writers of   *)
(* java.io, and CharSequence in rpc interfaces: check_method and the       *)
(* overrides in Type.cpp, CanBeArray among them, agree everywhere else.    *)
GapsKnown ==
  Checked => \A m \in ResolvedMethods(names, main[1]) :
    Unimplemented(main[1].kind, m)
      => UsesUnmarshalled(main[1].kind, m) \/ (main[1].kind = "rpc" /\ RpcArray(m))

(* Two methods that the stub must tell apart have different transaction    *)
(* codes, of those a user may have, however the ids were written or chosen.*)
CodesDistinct ==
  Checked /\ main[1].kind = "interface" =>
    /\ \A i, j \in DOMAIN ids : i # j => ids[i] # ids[j]
    /\ \A i \in DOMAIN ids : ids[i] \in 0 .. MaxUserSetMethodId

(* The compiler's variables have their types, an error stops it or changes *)
(* nothing, and what it accepts can be marshalled and told apart.          *)
CompilerSound == AidlTypeOK /\ ErrorsStop /\ DroppedLose /\ GapsKnown /\ CodesDistinct

PassEnded(task) == stage = "end" /\ options.task = task
(* After a pass that succeeds the preprocessed file names what each of the *)
(* files declares first, in their order, unless it is one of these files   *)
(* (preprocess_aidl).                                                      *)
PreprocessedWhole ==
  PassEnded("preprocess") /\ result = "0" =>
    LET from == options.filesToPreprocess
        lines == Content(options.output).lines
    IN options.output \notin ToSet(from) =>
         /\ Content(options.output).is = "lines" /\ DOMAIN lines = DOMAIN from
         /\ \A i \in DOMAIN from : /\ lines[i].package = Content(from[i]).package
                                   /\ lines[i].name = Content(from[i]).items[1].name

(* The lines that parse_preprocessed_file reads: those of the files, and   *)
(* what one of them left in the buffers.                                   *)
LineTypes == {"parcelable", "flattenable", "interface"}
TheLines == UNION {ToSet(Content(f).lines) : f \in ToSet(options.preprocessedFiles)}
ReadLines == {line \in TheLines \cup {LeftBehind(l) : l \in TheLines} : line.type \in LineTypes}
(* Every line that is read for a name says the same of it.                 *)
Agreed(l) == \A line \in ReadLines : line.package = l.package /\ line.name = l.name => line.type = l.type

(* A type that a compilation has from a preprocessed file is the type that *)
(* the file has from which the line was made, but for a flattenable, which *)
(* can then no longer be written to a parcel, and a oneway interface, which*)
(* is no longer oneway; unless the compiler has a type of that name itself *)
(* (preprocess_aidl, parse_preprocessed_file, gather_types).               *)
SameType(t, s) == t.kind = s.kind /\ t.canWriteToRpcData = s.canWriteToRpcData
                  /\ (s.canWriteToRpcData \/ t.canWriteToParcel = s.canWriteToParcel)
PreprocessKeeps ==
  stage = "main" =>
    \A f \in ToSet(options.preprocessedFiles) : \A l \in ToSet(Content(f).lines) : \A p \in DOMAIN files :
      LET t == FindName(names, Ref(l.package, l.name, <<>>))
      IN files[p].is = "aidl" /\ files[p].items # <<>> /\ l = PreprocessLine(ItemsOf(p)[1]) /\ Agreed(l)
         => t.kind \in {"builtin", "generated"} \/ SameType(t, TypeOf(ItemsOf(p)[1]))

(* What the methods of the compiled interface name.                        *)
Used == UNION {LET m == main[1].methods[i]
                   refs == {m.type} \cup {m.args[k].type : k \in DOMAIN m.args}
               IN refs \cup UNION {ToSet(r.args) : r \in refs} : i \in DOMAIN main[1].methods}
Declares(p, t) == \E i \in DOMAIN Content(p).items : Content(p).package = t.package /\ Content(p).items[i].name = t.name
(* Where a type of the compilation was declared: a line of a preprocessed  *)
(* file, or what such a line left in the buffers.                          *)
FromLine(t) ==
  \E f \in ToSet(options.preprocessedFiles) : \E l \in ToSet(Content(f).lines) :
    \E line \in {l, LeftBehind(l)} : line.package = t.package /\ line.name = t.name
(* The files that the compilation has read.                                *)
SourceFiles == {options.input} \cup ToSet(options.preprocessedFiles) \cup {x.filename : x \in ToSet(imports)}
(* A dependency file that lists the prerequisites, and is none of them,    *)
(* names a file that declares each of the types the interface uses, unless *)
(* a preprocessed file does: a change to any of them has the interface     *)
(* compiled anew (generate_dep_file).                                      *)
DepsComplete ==
  stage = "java" /\ DepName \notin SourceFiles /\ Content(DepName).lines = Prerequisites /\ IsInterface(main[1]) =>
    \A r \in Used :
      LET t == SearchPlain(names, r)
      IN t.kind \in {"userdata", "interface"} => FromLine(t) \/ \E p \in ToSet(Content(DepName).lines) : Declares(p, t)

(* What one command line leaves in files, another reads out of them; in    *)
(* every build.                                                            *)
FilesAgree == PreprocessedWhole /\ PreprocessKeeps /\ DepsComplete

(* The same of the steps themselves, whatever else a build does to files.  *)
(* All that preprocess_aidl changes is its output, which is then gone, or  *)
(* names what each file declares first, in their order, and it succeeds.   *)
WritesWhole ==
  stage = "preprocess" /\ files' # files =>
    LET from == options.filesToPreprocess
        output == files'[options.output]
    IN /\ \A p \in DOMAIN files \ {options.output} : files'[p] = files[p]
       /\ output.is # "absent" =>
            /\ result' = "0" /\ DOMAIN output.lines = DOMAIN from
            /\ \A i \in DOMAIN from :
                 /\ output.lines[i].package = Content(from[i]).package
                 /\ output.lines[i].name = Content(from[i]).items[1].name

(* The line that preprocess_aidl would write for a file gives the type     *)
(* that the file gives, when it is what declares the name.                 *)
LineKeepsType ==
  stage = "preprocessed" /\ names' # names =>
    LET l == Content(options.preprocessedFiles[cursor[1]]).lines[cursor[2]]
    IN \A p \in DOMAIN files :
         files[p].is = "aidl" /\ files[p].items # <<>> /\ l = PreprocessLine(ItemsOf(p)[1])
           => SameType(FindName(names', Ref(l.package, l.name, <<>>)), TypeOf(ItemsOf(p)[1]))

(* A dependency file that is written names, for each type that the         *)
(* interface uses, the file whose declaration was taken, unless that was a *)
(* line of a preprocessed file, or what such a line left in the buffers.   *)
DepNamesSources ==
  stage = "dep" /\ files' # files /\ IsInterface(main[1]) =>
    \A r \in Used :
      LET t == SearchPlain(names, r)
      IN t.kind \in {"userdata", "interface"} => FromLine(t) \/ \E p \in ToSet(files'[DepName].lines) : Declares(p, t)

(* What a step writes into a file, or reads from one that others wrote.    *)
FilesWritten == [][WritesWhole /\ LineKeepsType /\ DepNamesSources]_vars

-----------------------------------------------------------------------------
(* The generated binder code                                               *)

(* Every read of a request, and of a reply that was sent, finds what was   *)
(* written for it, of the same format, in order, and leaves nothing: the   *)
(* four method bodies that generate_method writes, and the pairs of calls  *)
(* that each class in Type.cpp writes, agree.                              *)
WireAgrees == wire

(* A call that returns has given the service what its caller passed in,    *)
(* and, when the service returned, its caller what the service returned    *)
(* and made of the arguments that come back.  So has a oneway call that was*)
(* served given the service its arguments.                                 *)
CallsFaithful ==
  last.kind \in {"returned", "served"} =>
    LET c == last.call
        m == Methods[c.method]
    IN /\ \A k \in DOMAIN m.args : In(m.args[k]) => c.saw[k] = c.args[k]
       /\ last.kind = "returned" /\ c.threw = "nothing" =>
            /\ last.result = c.result
            /\ \A k \in DOMAIN m.args : Out(m.args[k]) => last.got[k] = c.outs[k]

(* What an empty reply reads as: nothing that a service has returned.      *)
Nothing == {"none", "nothing", "null", "0", "false"}
(* A call whose service threw a RuntimeException, or whose reply could not *)
(* be written to its end, does not return as if it had been answered (the  *)
(* catch of onTransact).  One whose service threw a RemoteException may:   *)
(* then all that its caller gets is nothing, and what it passed itself.    *)
ThrowsReach ==
  last.kind = "returned" =>
    /\ last.call.threw # "runtime"
    /\ last.call.threw = "remote" =>
         /\ last.result \in Nothing
         /\ \A k \in DOMAIN last.got : last.got[k] \in Nothing \cup {last.call.args[k]}

(* However a call ends, its parcels are recycled (the finally block).      *)
ParcelsRecycled == client.pc = "idle" => client.held = {}

(* Proxy and stub carry a call and its failure across.                     *)
BinderFaithful == WireAgrees /\ CallsFaithful /\ ThrowsReach /\ ParcelsRecycled

-----------------------------------------------------------------------------
(* The generated rpc code                                                  *)

(* Every get finds what a put put under its name, of the same format.      *)
KeysAgree == keys

(* A callback is the one of the method that was called, with what the      *)
(* endpoint returned for what the caller passed, in whatever order the     *)
(* answers come; an event's listener method is the one that was pushed.    *)
AnswersFaithful ==
  /\ answer.method # 0 =>
       /\ answer.method = answer.request.method
       /\ answer.gotResult = answer.result
       /\ \A k \in DOMAIN Methods[answer.method].args :
            LET a == Methods[answer.method].args[k]
            IN (In(a) => answer.saw[k] = answer.request.args[k]) /\ (Out(a) => answer.got[k] = answer.outs[k])
  /\ event.method # 0 => event.method = event.request.method /\ event.saw = event.request.args

(* The broker delivers events to the presenter that the proxy holds and to *)
(* no other: starting anew stops the old one, and stopping leaves none.    *)
OneListener == registered = {presenter} \ {0}

(* Proxy, endpoint and dispatcher carry requests, answers and events.      *)
RpcFaithful == KeysAgree /\ AnswersFaithful /\ OneListener

-----------------------------------------------------------------------------
(* Every command line of a build ends, and every call: imports that import *)
(* each other do not keep the compiler, nor a death of the service its     *)
(* caller (of at most MaxCalls calls, so it is idle at last).              *)
AidlEnds == <>[](commands = <<>> /\ stage = "end" /\ client.pc = "idle")
=============================================================================
