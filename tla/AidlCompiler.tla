----------------------------- MODULE AidlCompiler -----------------------------
(***************************************************************************)
(* The aidl compiler (aidl/aidl.cpp, options.cpp, search_path.cpp and the  *)
(* parse_aidl of aidl_language_l.l): a sequence of command lines is run on *)
(* a file system; each is a pass through the stages of compile_aidl or     *)
(* preprocess_aidl.  A path is a sequence of tokens, "/" among them; the   *)
(* contents of a file are what the grammar makes of it.                    *)
(***************************************************************************)
EXTENDS AidlTypes, FiniteSets

CONSTANTS
  Builds,      \* the builds: a file system and the command lines run on it
  Cwd,         \* the directory aidl runs in
  ShortNames,  \* the paths of fewer than five characters
  MaxUserSetMethodId,
  Word         \* 2^32: the width of an int

VARIABLES
  commands, files,         \* command lines to run; what each path holds
  stage, options,
  err, found,              \* the variable err; the errors reported in this pass, but for
  dropped,                 \* the preprocessed lines whose errors are reported and dropped
  names,                   \* NAMES
  document, main, imports, \* g_document, mainDoc, g_imports
  cursor, stale,           \* place in a list of files; the line buffer of parse_preprocessed_file
  onlyParcelable, ids,     \* locals of compile_aidl; the methods' assigned_id
  result,                  \* what the pass ended with: "0", "1", "abort"
  generated                \* the interface whose Java the pass wrote, or NoItem

compilerVars == <<commands, files, stage, options, err, found, names, document, main, imports,
                  cursor, stale, onlyParcelable, ids, result, generated, dropped>>

(* What the grammar makes of names, of what a file declares, and of a      *)
(* preprocessed file; a flag "none" is no flag, a package "none" none.     *)
PlainRefs == [package : STRING, name : STRING, args : {<<>>}]
RefSet == [package : STRING, name : STRING, args : Seq(PlainRefs)]
ArgSet == [direction : {"none", "in", "out", "inout"}, type : RefSet, dimension : Nat, name : STRING]
MethodSet == [name : STRING, type : RefSet, dimension : Nat, oneway : BOOLEAN, id : STRING, value : Nat, args : Seq(ArgSet)]
ItemSet == [kind : {"data", "interface", "rpc"}, package : STRING, name : STRING \ {"none"},
          flat : {{}, {"parcel"}, {"parcel", "rpc"}}, oneway : BOOLEAN, methods : Seq(MethodSet)]
LineSet == [type : STRING, package : STRING, name : STRING]
NamedLines == {l \in LineSet : l.type \notin {"none", "//"} => l.name # "none"}

(* A command line is a list of flags and what follows them.                *)
ArgumentSet == [flag : STRING, value : Seq(STRING)]

(* A class is declared parcelable, or flattenable, which is both; an       *)
(* interface has a code for each method; a code is an int.                 *)
SmallItemSet ==
  {i \in ItemSet : Len(i.methods) <= MaxUserSetMethodId + 1 /\ (i.kind = "data" => "parcel" \in i.flat)}
BuildsAssumption ==
  \A b \in Builds :
    /\ b.commands \in Seq(Seq(ArgumentSet))
    /\ \A p \in DOMAIN b.files :
         /\ b.files[p].package \in STRING /\ b.files[p].imports \in Seq(RefSet)
         /\ b.files[p].is = "aidl" => b.files[p].items \in Seq(SmallItemSet)
         /\ b.files[p].is = "lines" => b.files[p].lines \in Seq(NamedLines)
WordAssumption ==
  /\ Word \in Nat /\ Word = 2 * (Word \div 2)
  /\ MaxUserSetMethodId \in Nat /\ MaxUserSetMethodId < Word \div 2
ASSUME CompilerAssumption == BuildsAssumption /\ WordAssumption

Null == <<>>   \* a null document list, or an empty one
Absent == [is |-> "absent", package |-> "none", imports |-> <<>>, items |-> <<>>, ok |-> TRUE, lines |-> <<>>]
NoItem == [kind |-> "none", package |-> "none", name |-> "none", flat |-> {}, oneway |-> FALSE, methods |-> <<>>]
Content(path) == IF path \in DOMAIN files THEN files[path] ELSE Absent
Written(path, content) == [p \in DOMAIN files \cup {path} |-> IF p = path THEN content ELSE files[p]]

NoOptions == [task |-> "compile", failOnParcelable |-> FALSE, importPaths |-> <<>>, preprocessedFiles |-> <<>>,
              input |-> <<>>, output |-> <<>>, base |-> <<>>, dep |-> <<>>, autoDep |-> FALSE, filesToPreprocess |-> <<>>]

CompilerInit ==
  /\ \E b \in Builds : commands = b.commands /\ files = b.files
  /\ stage = "start" /\ options = NoOptions
  /\ err = FALSE /\ found = {} /\ dropped = {} /\ names = <<>>
  /\ document = Null /\ main = Null /\ imports = <<>>
  /\ cursor = <<1, 1>> /\ stale = [type |-> "garbage", package |-> "none", name |-> "none"]
  /\ onlyParcelable = FALSE /\ ids = <<>>
  /\ result = "none" /\ generated = NoItem

End(r) == stage' = "end" /\ result' = r
(* Faulty: err = ... instead.                                              *)
ReportLast(es) == err' = (es # {}) /\ found' = found \cup es
(* A stage that reports the errors es: err |= ...                          *)
Report(es) == err' = (err \/ (es # {})) /\ found' = found \cup es

-----------------------------------------------------------------------------
(* parse_options.  An argument is a flag and what follows it.              *)

IsFlag(a) == a.flag # "none"
NeedsValue(a) == a.flag \in {"-I", "-d", "-p", "-o"}
BadFlag(a) == a.flag \notin {"-I", "-d", "-a", "-p", "-o", "-b"} \/ (NeedsValue(a) /\ a.value = <<>>)
Apply(o, a) ==
  CASE a.flag = "-I" -> [o EXCEPT !.importPaths = Append(@, a.value)]
    [] a.flag = "-d" -> [o EXCEPT !.dep = a.value]
    [] a.flag = "-a" -> [o EXCEPT !.autoDep = TRUE]
    [] a.flag = "-p" -> [o EXCEPT !.preprocessedFiles = Append(@, a.value)]
    [] a.flag = "-o" -> [o EXCEPT !.base = a.value]
    [] OTHER -> [o EXCEPT !.failOnParcelable = TRUE]

Preprocesses(argv) == Len(argv) > 0 /\ argv[1].flag = "--preprocess"
(* --preprocess OUTPUT INPUT...                                            *)
PreprocessOptions(argv) ==
  /\ Preprocesses(argv)
  /\ IF Len(argv) < 3 THEN End("1") /\ UNCHANGED options
     ELSE /\ stage' = "preprocess" /\ UNCHANGED result
          /\ options' = [NoOptions EXCEPT !.task = "preprocess", !.output = argv[2].value,
                                          !.filesToPreprocess = [i \in 1 .. Len(argv) - 2 |-> argv[i + 2].value]]

(* The options end with the first argument that is not one: INPUT, OUTPUT. *)
(* Without OUTPUT and -o the .aidl of INPUT becomes .java; where INPUT has *)
(* fewer than five characters the place to compare at wraps around.        *)
CompileOptions(argv) ==
  LET flags == SelectInSeq(argv, LAMBDA a : ~IsFlag(a))
      n == IF flags = 0 THEN Len(argv) ELSE flags - 1
      o == FoldLeft(Apply, NoOptions, SubSeq(argv, 1, n))
      rest == SubSeq(argv, n + 1, Len(argv))
      input == rest[1].value
      java == Front(input) \o <<".java">>
  IN /\ ~Preprocesses(argv)
     /\ IF (\E i \in 1 .. n : BadFlag(argv[i])) \/ Len(rest) \notin 1 .. 2 THEN End("1") /\ UNCHANGED options
        ELSE IF Len(rest) = 2 \/ o.base # <<>>
        THEN /\ options' = [o EXCEPT !.input = input, !.output = IF Len(rest) = 2 THEN rest[2].value ELSE <<>>]
             /\ stage' = "preprocessed" /\ UNCHANGED result
        ELSE IF input \in ShortNames THEN End("abort") /\ UNCHANGED options
        ELSE IF Last(input) # ".aidl" THEN End("1") /\ UNCHANGED options
        ELSE /\ options' = [o EXCEPT !.input = input, !.output = java]
             /\ stage' = "preprocessed" /\ UNCHANGED result

(* main: a command line is run by a new process.                           *)
Start ==
  /\ stage \in {"start", "end"} /\ commands # <<>>
  /\ commands' = Tail(commands)
  /\ PreprocessOptions(Head(commands)) \/ CompileOptions(Head(commands))
  /\ err' = FALSE /\ found' = {} /\ dropped' = {} /\ names' = BaseTypes
  /\ document' = Null /\ main' = Null /\ imports' = <<>> /\ cursor' = <<1, 1>>
  /\ stale' = [type |-> "garbage", package |-> "none", name |-> "none"]
  /\ onlyParcelable' = FALSE /\ ids' = <<>> /\ generated' = NoItem
  /\ UNCHANGED files

-----------------------------------------------------------------------------
(* gather_types: the types that a list of document items declares.         *)

TypeOf(item) ==
  IF item.kind = "data"
  THEN UserDataType(item.package, item.name, FALSE, "parcel" \in item.flat, "rpc" \in item.flat)
  ELSE InterfaceType(item.package, item.name, item.oneway)
Beside(item, suffix) == [Internal(item.package, item.name \o suffix) EXCEPT !.kind = "generated"]
ItemName(item) == Ref(item.package, item.name, <<>>)
GatherItem(known, item) ==
  IF FindName(known, ItemName(item)) # NoType THEN known
  ELSE known \o <<TypeOf(item)>>
       \o (CASE item.kind = "interface" -> Added(known, Beside(item, ".Stub")) \o Added(known, Beside(item, ".Stub.Proxy"))
             [] item.kind = "rpc" -> Added(known, Beside(item, ".ServiceBase"))
             [] OTHER -> <<>>)
GatherErrors(known, item) ==
  LET old == FindName(known, ItemName(item))
  IN IF old = NoType \/ old.kind = TypeOf(item).kind THEN {}
     ELSE IF old.kind = "builtin" THEN {"built in class redefined"} ELSE {"redefined as something else"}

-----------------------------------------------------------------------------
(* The preprocessed files: one declaration on a line.                      *)

Declared(line) ==
  [NoItem EXCEPT !.kind = IF line.type = "interface" THEN "interface" ELSE "data",
                 !.package = line.package, !.name = line.name,
                 !.flat = CASE line.type = "parcelable" -> {"parcel"} [] line.type = "flattenable" -> {"rpc"} [] OTHER -> {}]
(* The buffers after a line: the name has lost what follows its last dot.  *)
LeftBehind(line) == [type |-> line.type, package |-> "none", name |-> IF line.package = "none" THEN line.name ELSE line.package]

(* An empty line is a line with a newline: sscanf fails on it and leaves   *)
(* the buffers as they are.  What gather_types reports of a line, that it  *)
(* redefines a class, is dropped: the err that it sets is a local one, and *)
(* the file returns 0.                                                     *)
ReadPreprocessedLine ==
  LET f == options.preprocessedFiles[cursor[1]]
      text == Content(f).lines[cursor[2]]
      line == IF text.type = "none" THEN stale ELSE text
  IN /\ stage = "preprocessed" /\ cursor[1] <= Len(options.preprocessedFiles)
     /\ Content(f).is = "lines" /\ cursor[2] <= Len(Content(f).lines)
     /\ IF text.type = "//" THEN /\ cursor' = <<cursor[1], cursor[2] + 1>>
                                 /\ UNCHANGED <<err, found, dropped, names, stale>>
        ELSE IF line.type \notin {"parcelable", "flattenable", "interface"}
        THEN /\ Report({"bad type in line"})
             /\ cursor' = <<cursor[1] + 1, 1>> /\ UNCHANGED <<dropped, names, stale>>
        ELSE /\ names' = GatherItem(names, Declared(line))
             /\ dropped' = dropped \cup {l \in {line} : GatherErrors(names, Declared(l)) # {}}
             /\ stale' = LeftBehind(line)
             /\ cursor' = <<cursor[1], cursor[2] + 1>>
             /\ UNCHANGED <<err, found>>
     /\ UNCHANGED <<commands, files, stage, options, document, main, imports, onlyParcelable, ids, result, generated>>

(* The end of a file, or one that cannot be opened.  The buffers of the    *)
(* next call are on the stack, at the same place or not.                   *)
EndPreprocessedFile ==
  LET f == options.preprocessedFiles[cursor[1]] IN
  /\ stage = "preprocessed" /\ cursor[1] <= Len(options.preprocessedFiles)
  /\ Content(f).is = "lines" => cursor[2] > Len(Content(f).lines)
  /\ Report(IF Content(f).is = "lines" THEN {} ELSE {"can't open preprocessed file"})
  /\ cursor' = <<cursor[1] + 1, 1>>
  /\ stale' \in {stale, [type |-> "garbage", package |-> "none", name |-> "none"]}
  /\ UNCHANGED <<commands, files, stage, options, names, document, main, imports, onlyParcelable, ids, result, generated, dropped>>

EndPreprocessed ==
  /\ stage = "preprocessed" /\ cursor[1] > Len(options.preprocessedFiles)
  /\ IF err THEN End("1") ELSE stage' = "main" /\ UNCHANGED result
  /\ cursor' = <<1, 1>>
  /\ UNCHANGED <<commands, files, options, err, found, names, document, main, imports, stale, onlyParcelable, ids, generated, dropped>>

-----------------------------------------------------------------------------
(* Parsing.  The imports of a file come in its order, in front of those    *)
(* that are known: the parser reduces the last first, and each is put in   *)
(* front of the list.                                                      *)

Import(ref, from) == [class |-> ref, from |-> from, filename |-> <<>>, document |-> Null]
ImportsOf(path) == [i \in DOMAIN Content(path).imports |-> Import(Content(path).imports[i], path)]
ItemsOf(path) == [i \in DOMAIN Content(path).items |-> [Content(path).items[i] EXCEPT !.package = Content(path).package]]
ParseErrors(path) ==
  IF Content(path).is # "aidl" THEN {"unable to open file"} ELSE IF Content(path).ok THEN {} ELSE {"syntax error"}

ParseMain ==
  /\ stage = "main"
  /\ Report(ParseErrors(options.input))
  /\ main' = IF Content(options.input).is = "aidl" THEN ItemsOf(options.input) ELSE Null
  /\ imports' = IF Content(options.input).is = "aidl" THEN ImportsOf(options.input) ELSE <<>>
  /\ document' = Null
  /\ stage' = "imports"
  /\ UNCHANGED <<commands, files, options, names, cursor, stale, onlyParcelable, ids, result, generated, dropped>>

PathOf(ref) == (IF ref.package = "none" THEN <<>> ELSE <<ref.package, "/">>) \o <<ref.name, ".aidl">>
SearchPath(dir) == IF dir = <<>> THEN <<".", "/">> ELSE IF Last(dir) = "/" THEN dir ELSE dir \o <<"/">>
InPath(i, ref) == SearchPath(options.importPaths[i]) \o PathOf(ref)
(* find_import_file: the first of the import paths that has it.            *)
Candidates(ref) == {i \in DOMAIN options.importPaths : Content(InPath(i, ref)).is # "absent"}
ImportFile(ref) == InPath(Min(Candidates(ref)), ref)

(* Faulty: the loop does not step on when nothing was put in front.        *)
AfterNothing(k, more) == IF more = 0 THEN k ELSE k + more + 1
(* The place of the next import when more were put in front.               *)
After(k, more) == k + more + 1
(* The imports of main are visited.  Those of an imported file are put in  *)
(* front, where the loop does not come: they keep no file and no document. *)
ParseImport ==
  LET k == cursor[1]
      i == imports[k]
      c == ImportFile(i.class)
  IN /\ stage = "imports" /\ k <= Len(imports)
     /\ IF FindName(names, i.class) # NoType
        THEN /\ cursor' = <<k + 1, 1>>
             /\ UNCHANGED <<err, found, document, imports>>
        ELSE IF Candidates(i.class) = {}
        THEN /\ Report({"couldn't find import"})
             /\ cursor' = <<k + 1, 1>>
             /\ UNCHANGED <<document, imports>>
        ELSE LET more == ImportsOf(c) IN
             /\ document' = IF Content(c).is = "aidl" THEN ItemsOf(c) ELSE document
             /\ Report(ParseErrors(c) \cup (IF document' = Null THEN {"empty import"} ELSE {}))
             /\ imports' = more \o [imports EXCEPT ![k] = [i EXCEPT !.filename = c, !.document = document']]
             /\ cursor' = <<After(k, Len(more)), 1>>
     /\ UNCHANGED <<commands, files, stage, options, names, main, stale, onlyParcelable, ids, result, generated, dropped>>

EndImports ==
  /\ stage = "imports" /\ cursor[1] > Len(imports)
  /\ IF err \/ main = Null THEN End("1") ELSE stage' = "filenames" /\ UNCHANGED result
  /\ UNCHANGED <<commands, files, options, err, found, names, document, main, imports, cursor, stale,
                 onlyParcelable, ids, generated, dropped>>

(* check_filename: the end of the absolute path is compared, wherever in a *)
(* component it begins.                                                    *)
FullName(path) == IF path # <<>> /\ path[1] = "/" THEN path ELSE Cwd \o <<"/">> \o path
FilenameErrors(path, items) ==
  IF \A i \in DOMAIN items : IsSuffix(PathOf(Ref(items[i].package, items[i].name, <<>>)), FullName(path))
  THEN {} ELSE {"should be declared in another file"}
CheckFilenames ==
  /\ stage = "filenames"
  /\ Report(FilenameErrors(options.input, main)
            \cup UNION {FilenameErrors(imports[i].filename, imports[i].document) : i \in DOMAIN imports})
  /\ stage' = "gather" /\ cursor' = <<0, 1>>
  /\ UNCHANGED <<commands, files, options, names, document, main, imports, stale, onlyParcelable, ids, result, generated, dropped>>

(* The main file's types are gathered, then those of each import.          *)
Gathering == IF cursor[1] = 0 THEN main ELSE imports[cursor[1]].document
GatherTypes ==
  /\ stage = "gather" /\ cursor[1] <= Len(imports)
  /\ IF cursor[2] \in DOMAIN Gathering
     THEN \E item \in {Gathering[cursor[2]]} :
            /\ names' = GatherItem(names, item) /\ Report(GatherErrors(names, item))
            /\ cursor' = <<cursor[1], cursor[2] + 1>>
     ELSE cursor' = <<cursor[1] + 1, 1>> /\ UNCHANGED <<names, err, found>>
  /\ UNCHANGED <<commands, files, stage, options, document, main, imports, stale, onlyParcelable, ids, result, generated, dropped>>
EndGathering ==
  /\ stage = "gather" /\ cursor[1] > Len(imports)
  /\ stage' = "types"
  /\ UNCHANGED <<commands, files, options, err, found, names, document, main, imports, cursor, stale, onlyParcelable,
                 ids, result, generated, dropped>>
=============================================================================
