------------------------------ MODULE AidlOutput ------------------------------
(***************************************************************************)
(* The second half of the aidl compiler (aidl.cpp, generate_java.cpp): the *)
(* checks of types and methods, the transaction codes, and what is         *)
(* written: Java, a dependency file, a preprocessed file.                  *)
(***************************************************************************)
EXTENDS AidlCompiler

CONSTANT Keywords  \* the names that matches_keyword knows

(* convert_direction: what is not in or out is inout.                      *)
In(a) == a.direction # "out"
Out(a) == a.direction \notin {"none", "in"}

IsInterface(item) == item.kind \in {"interface", "rpc"}
Marshalled(kind, t) == IF kind = "interface" THEN t.canWriteToParcel ELSE t.canWriteToRpcData

(* NAMES.Search, of the result and of each argument.                       *)
Resolved(known, m) ==
  [m EXCEPT !.type = Search(known, m.type),
            !.args = [k \in DOMAIN m.args |-> [m.args[k] EXCEPT !.type = Search(known, m.args[k].type)]]]

(* check_method, of a resolved method.                                     *)
ReturnErrors(kind, m) ==
  LET t == m.type
  IN (IF t = EventType THEN IF kind # "rpc" THEN {"event methods only for rpc"} ELSE {}
      ELSE IF ~Marshalled(kind, t) THEN {"return type can't be marshalled"} ELSE {})
     \cup (IF m.dimension > 0 /\ ~CanBeArray(t) THEN {"return type can't be an array"} ELSE {})
     \cup (IF m.dimension > 1 THEN {"only one dimension"} ELSE {})

(* The checks of one argument; those after the third are left out when an  *)
(* event has an out argument.                                              *)
ArgErrors(kind, m, a) ==
  LET t == a.type
      event == m.type = EventType
  IN CASE t = NoType -> {"unknown type"}
       [] t = EventType -> {"event as a parameter"}
       [] OTHER ->
          (IF ~Marshalled(kind, t) THEN {"can't be marshalled"} ELSE {})
          \cup (IF event /\ Out(a) THEN {"parameters on events must be in"}
                ELSE (IF a.direction = "none" /\ (a.dimension # 0 \/ t.canBeOut) THEN {"must be in, out or inout"} ELSE {})
                     \cup (IF Out(a) /\ ~t.canBeOut /\ a.dimension = 0 THEN {"can only be in"} ELSE {})
                     \cup (IF a.dimension > 0 /\ ~CanBeArray(t) THEN {"can't be an array"} ELSE {})
                     \cup (IF a.dimension > 1 THEN {"only one dimension"} ELSE {})
                     \cup (IF a.name \in Keywords THEN {"named like a keyword"} ELSE {}))

(* Faulty: only the first argument is checked.                             *)
FirstArgErrors(kind, m) ==
  IF m.type = NoType THEN {"unknown return type"}
  ELSE ReturnErrors(kind, m) \cup UNION {ArgErrors(kind, m, m.args[i]) : i \in DOMAIN m.args \cap {1}}
(* An unknown return type ends it.                                         *)
MethodErrors(kind, m) ==
  IF m.type = NoType THEN {"unknown return type"}
  ELSE ReturnErrors(kind, m) \cup UNION {ArgErrors(kind, m, m.args[i]) : i \in DOMAIN m.args}

ResolvedMethods(known, item) == {Resolved(known, item.methods[j]) : j \in DOMAIN item.methods}
TypeErrors(known, items) ==
  (IF \E i \in DOMAIN items : \E j, k \in DOMAIN items[i].methods :
         j < k /\ items[i].methods[j].name = items[i].methods[k].name
   THEN {"method redefined"} ELSE {})
  \cup UNION {UNION {MethodErrors(items[i].kind, m) : m \in ResolvedMethods(known, items[i])}
              : i \in {k \in DOMAIN items : IsInterface(items[k])}}

CheckTypes ==
  /\ stage = "types"
  /\ Report(TypeErrors(names, main))
  /\ stage' = "one"
  /\ UNCHANGED <<commands, files, options, names, document, main, imports, cursor, stale, onlyParcelable, ids, result, generated, dropped>>

(* exactly_one_interface looks at the first two items; when the second is  *)
(* an interface it leaves onlyParcelable as it is.                         *)
ExactlyOneInterface ==
  LET second == Len(main) > 1 /\ IsInterface(main[2])
      data == main[1].kind = "data"
  IN /\ stage = "one"
     /\ Report(CASE second -> {"only one interface per file"}
                 [] ~second /\ data /\ options.failOnParcelable -> {"only interfaces"}
                 [] OTHER -> {})
     /\ onlyParcelable' = (~second /\ data)
     /\ stage' = "ids"
     /\ UNCHANGED <<commands, files, options, names, document, main, imports, cursor, stale, ids, result, generated, dropped>>

-----------------------------------------------------------------------------
(* check_and_assign_method_ids                                             *)

(* Faulty: the number does not lose its high bits.                         *)
AtoiWide(n, long) == n
(* atoi of a number that does not fit: the low word where long is longer   *)
(* than int, the largest int where it is not.                              *)
Signed(n) == IF n >= Word \div 2 THEN n - Word ELSE n
Atoi(n, long) == IF n < Word \div 2 THEN n ELSE IF long THEN Signed(n % Word) ELSE (Word \div 2) - 1

HasId(m) == m.id # "none"
Number(m, long) == Atoi(m.value, long)
(* Faulty: an id is compared with the one before it.                       *)
UsedJustBefore(methods, i, long) == {Number(methods[j], long) : j \in {k \in DOMAIN methods : k = i - 1 /\ HasId(methods[k])}}
(* usedIds when the method i is looked at.                                 *)
UsedIds(methods, i, long) == {Number(methods[j], long) : j \in {k \in 1 .. i - 1 : HasId(methods[k])}}
IdErrors(methods, long) ==
  LET set == {i \in DOMAIN methods : HasId(methods[i])}
  IN (IF \E i \in set : Number(methods[i], long) \in UsedIds(methods, i, long) THEN {"duplicate id"} ELSE {})
     \cup (IF \E i \in set : Number(methods[i], long) \notin 0 .. MaxUserSetMethodId THEN {"id out of bounds"} ELSE {})
     \cup (IF set \notin {{}, DOMAIN methods} THEN {"ids for all methods or for none"} ELSE {})
AssignedIds(methods, long) == [i \in DOMAIN methods |-> IF HasId(methods[i]) THEN Number(methods[i], long) ELSE i - 1]

(* When two items were found the first may be a parcelable, which is read  *)
(* as an interface past its end.                                           *)
AssignMethodIds ==
  /\ stage = "ids"
  /\ IF onlyParcelable
     THEN stage' = "output" /\ UNCHANGED <<err, found, ids, result>>
     ELSE IF ~IsInterface(main[1])
     THEN /\ \/ stage' = "output" /\ UNCHANGED result
             \/ End("abort")
          /\ UNCHANGED <<err, found, ids>>
     ELSE /\ \E long \in BOOLEAN :
               /\ Report(IdErrors(main[1].methods, long))
               /\ ids' = AssignedIds(main[1].methods, long)
          /\ stage' = "output" /\ UNCHANGED result
  /\ UNCHANGED <<commands, files, options, names, document, main, imports, cursor, stale, onlyParcelable, generated, dropped>>

-----------------------------------------------------------------------------
(* Output                                                                  *)

(* generate_outputFileName: a string is made of the package, null or not.  *)
OutputName ==
  IF options.output # <<>> \/ options.base = <<>> THEN options.output
  ELSE options.base \o <<"/", main[1].package, "/", main[1].name, ".java">>
NameOutput ==
  /\ stage = "output"
  /\ IF err THEN End("1") /\ UNCHANGED options
     ELSE IF options.output = <<>> /\ options.base # <<>> /\ main[1].package = "none" THEN End("abort") /\ UNCHANGED options
     ELSE stage' = "dep" /\ options' = [options EXCEPT !.output = OutputName] /\ UNCHANGED result
  /\ UNCHANGED <<commands, files, err, found, names, document, main, imports, cursor, stale, onlyParcelable, ids, generated, dropped>>

ImportedFrom(import) == IF import.filename = <<>> THEN <<>> ELSE <<import.filename>>
(* Faulty: the last import is left out.                                    *)
PrerequisitesShort == <<options.input>> \o FlattenSeq([i \in 1 .. Len(imports) - 1 |-> ImportedFrom(imports[i])])
(* generate_dep_file: the input and each import that was found in a file.  *)
Prerequisites == <<options.input>> \o FlattenSeq([i \in DOMAIN imports |-> ImportedFrom(imports[i])])
DepName == IF options.autoDep THEN options.output \o <<".d">> ELSE options.dep
WriteDepFile ==
  /\ stage = "dep"
  /\ \/ /\ (options.autoDep \/ options.dep # <<>>) /\ ~(onlyParcelable /\ options.failOnParcelable)
        /\ files' = Written(DepName, [Absent EXCEPT !.is = "dep", !.lines = Prerequisites])
     \/ UNCHANGED files  \* not asked for, or it cannot be opened
  /\ IF onlyParcelable /\ ~options.failOnParcelable THEN End("0") ELSE stage' = "java" /\ UNCHANGED result
  /\ UNCHANGED <<commands, options, err, found, names, document, main, imports, cursor, stale, onlyParcelable, ids, generated, dropped>>

(* The marshalling calls that are generated for an argument and a result.  *)
ArgCalls(kind, a) ==
  CASE kind = "interface" /\ a.dimension = 0 -> (IF In(a) THEN {"write", "read"} ELSE {}) \cup (IF Out(a) THEN {"write", "readInto"} ELSE {})
    [] kind = "interface" /\ a.dimension = 1 -> (IF In(a) THEN {"writeArray", "createArray"} ELSE {}) \cup (IF Out(a) THEN {"writeArray", "readArray"} ELSE {})
    [] kind = "rpc" /\ a.dimension = 0 -> {"put", "get"}
    [] OTHER -> {"rpc array"}
ResultCalls(kind, m) ==
  IF m.type \in {VoidType, EventType} THEN {}
  ELSE IF kind = "rpc" THEN IF m.dimension = 0 THEN {"put", "get"} ELSE {"rpc array"}
  ELSE IF m.dimension = 0 THEN {"write", "read"} ELSE {"writeArray", "createArray"}
Lacks(t, calls) == "rpc array" \in calls \/ \E c \in calls \cap DOMAIN t.calls : t.calls[c] = "none"
(* An internal error is reported while the method is generated.            *)
Unimplemented(kind, m) ==
  \/ Lacks(m.type, ResultCalls(kind, m))
  \/ \E i \in DOMAIN m.args : Lacks(m.args[i].type, ArgCalls(kind, m.args[i]))
(* rpc: an array that is only out makes the compiler exit.                 *)
Exits(m) == \E i \in DOMAIN m.args : m.args[i].dimension = 1 /\ ~In(m.args[i])
(* rpc: a call is written with an argument that was never given.           *)
Wild(m) == \E t \in {m.type} \cup {m.args[i].type : i \in DOMAIN m.args} : MissingArgument(t)

(* generate_java: the file is opened, written and closed; that a write     *)
(* fails is not noticed.                                                   *)
Java(whole) == [Absent EXCEPT !.is = "java", !.ok = whole, !.items = <<main[1]>>]
(* Its methods have their types, and their codes as values.                *)
Interface ==
  [main[1] EXCEPT !.methods = [i \in DOMAIN main[1].methods |-> [Resolved(names, main[1].methods[i]) EXCEPT !.value = ids[i]]]]
GenerateJava ==
  /\ stage = "java"
  /\ \E java \in {Interface} :
       LET ms == java.methods
           rpc == java.kind = "rpc"
       IN IF rpc /\ \E i \in DOMAIN ms : Exits(ms[i]) THEN End("1") /\ UNCHANGED <<files, generated>>
          ELSE \/ End("1") /\ UNCHANGED <<files, generated>>   \* it cannot be opened
               \/ /\ \E whole \in BOOLEAN : /\ files' = Written(options.output, Java(whole))
                                            /\ generated' = IF whole THEN java ELSE NoItem
                  /\ End("0")
               \/ /\ rpc /\ \E i \in DOMAIN ms : Wild(ms[i])
                  /\ files' = Written(options.output, Java(FALSE))
                  /\ End("abort") /\ UNCHANGED generated
  /\ UNCHANGED <<commands, options, err, found, names, document, main, imports, cursor, stale, onlyParcelable, ids, dropped>>

-----------------------------------------------------------------------------
(* preprocess_aidl                                                         *)

(* Faulty: every line of a data type says parcelable.                      *)
PreprocessLineAlike(item) ==
  [type |-> IF item.kind # "data" THEN "interface" ELSE "parcelable", package |-> item.package, name |-> item.name]
(* A flattenable is one that can also be written to a parcel; its line     *)
(* says flattenable, every interface's line interface.                     *)
PreprocessLine(item) ==
  [type |-> IF item.kind # "data" THEN "interface" ELSE IF "rpc" \in item.flat THEN "flattenable" ELSE "parcelable",
   package |-> item.package, name |-> item.name]

(* The next file; only its first item gets a line, and none is a crash.    *)
PreprocessFile ==
  LET f == options.filesToPreprocess[cursor[1]] IN
  /\ stage = "preprocess" /\ cursor[1] <= Len(options.filesToPreprocess)
  /\ document' = IF Content(f).is = "aidl" THEN ItemsOf(f) ELSE document
  /\ Report(ParseErrors(f))
  /\ IF ParseErrors(f) # {} THEN End("1") /\ UNCHANGED <<cursor, main>>
     ELSE IF document' = Null THEN End("abort") /\ UNCHANGED <<cursor, main>>
     ELSE /\ cursor' = <<cursor[1] + 1, 1>> /\ main' = Append(main, document'[1])
          /\ UNCHANGED <<stage, result>>
  /\ UNCHANGED <<commands, files, options, names, imports, stale, onlyParcelable, ids, generated, dropped>>

(* Faulty: what was written before a write failed is left.                 *)
WritePreprocessedKeeps ==
  /\ stage = "preprocess" /\ cursor[1] > Len(options.filesToPreprocess)
  /\ \E n \in 0 .. Len(main) :
       /\ files' = Written(options.output, [Absent EXCEPT !.is = "lines", !.lines = [i \in 1 .. n |-> PreprocessLine(main[i])]])
       /\ IF n = Len(main) THEN End("0") ELSE End("1")
  /\ UNCHANGED <<commands, options, err, found, names, document, main, imports, cursor, stale, onlyParcelable, ids, generated, dropped>>

(* The lines are written; when that fails the file is removed.             *)
WritePreprocessed ==
  /\ stage = "preprocess" /\ cursor[1] > Len(options.filesToPreprocess)
  /\ \/ /\ files' = Written(options.output, [Absent EXCEPT !.is = "lines", !.lines = [i \in DOMAIN main |-> PreprocessLine(main[i])]])
        /\ End("0")
     \/ files' = Written(options.output, Absent) /\ End("1")
     \/ UNCHANGED files /\ End("1")
  /\ UNCHANGED <<commands, options, err, found, names, document, main, imports, cursor, stale, onlyParcelable, ids, generated, dropped>>

CompilerStep ==
  \/ Start \/ ReadPreprocessedLine \/ EndPreprocessedFile \/ EndPreprocessed
  \/ ParseMain \/ ParseImport \/ EndImports \/ CheckFilenames \/ GatherTypes \/ EndGathering
  \/ CheckTypes \/ ExactlyOneInterface \/ AssignMethodIds \/ NameOutput \/ WriteDepFile \/ GenerateJava
  \/ PreprocessFile \/ WritePreprocessed
=============================================================================
