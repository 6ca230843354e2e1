# Verification of TestActivity

TLA+ models of the programs in this repository that have state worth checking,
the TLC runs over small instances of them, and theorems about them that the
TLAPS proof system checks for every value of their constants.

The repository is an Android application used as a bench for platform features.
Around its list of demonstrations it holds four programs:

* a **cross-process service framework** (`src/com/multiprocess`): clients obtain
  binders of services that live in the process `:server`, through a cache and
  wrappers that are meant to survive the death of that process;
* **libsu** (`jni/libsu`): a server that runs as root, checks who connects to
  its local socket, and runs commands for those it trusts, each in processes of
  its own; with it come `rtdaemon`, which init starts, the jar of a signature
  checker, and a set of shell commands (`cmds/`);
* the **aidl compiler** (`jni/aidl`), and through it the Java that it writes;
* **Sedroid** (`src/com/qihoo360/sedroid`): a hot-patch manager that replaces
  methods of running code.

Paths below are relative to `src/`; `su.c` etc. are in `jni/libsu/`.

## 1. Inventory

### Cross-process service framework — modelled

| | |
|---|---|
| Code | `crossprocess/ServiceManager.java`, `ServiceManagerProvider.java`, `ServiceList.java`, `Service.java`, `service/*Service.java`, `com/zero/App.java` |
| State | per process: `mServerManagerImpl` (proxy of the manager), the monitor of `sServiceManagerWrapper`, `ServiceList.sCache`; per wrapper: `mRemoteBinderImpl` and its registration as a death recipient; in the server: the process type set by `App.onCreate`, one lazily created singleton per service |
| Operations | `ServiceManager.getService`, `queryService`, the manager's `getService`, the constructor of `RemoteBinderWrapper`, `getInterface`, `transact`, `getRemoteBinder`, `binderDied` |
| Interaction | a content-provider query starts the server and returns the manager's binder in a cursor; all else is binder calls and death notices |
| Hard | double-checked locking on an unsynchronized static; caches shared by threads; the server dies and is restarted between any two steps; obituaries are delivered late; the provider answers before `App.onCreate` has run |
| Correct if | binders of two lives of the server are never mixed in a process, a binder is used only for its service, while the server it is bound to is up a call fails only because the service throws or its data are too large, every call ends, dead binders are cleared |

### libsu: the server loop — modelled

| | |
|---|---|
| Code | `su.c` 15-158 (users), 307-397 (`wait_event`, `socket_accept`), 720-738 (`mainsigchld`), 839-1018 (`run_server`); `suutil.c` 161-280 (`_system`, `_system2`); `data.c` `checksignature` |
| State | the trusted users, the connection being served, the signal mask and the pending SIGCHLD, the children, the inotify queue |
| Operations | accept, the two ways of running the signature checker, read a request, answer ping and version, terminate, fork a handler, look whether the package is gone, drain, the signal handler |
| Interaction | clients over a local socket; handlers (below) and the checker as child processes; the package manager through inotify |
| Hard | a signal handler that waits for *any* child races with `waitpid` in `_system`; several ways out of one turn that must all close the connection; a sleep, a `wait` and a read that a signal may cut short; a client that says nothing; an exit with children running |
| Correct if | only trusted users' commands run, no connection leaks, no exit status is lost to the signal handler, the server exits when, and only when, it is told to |

### libsu: the request handler — modelled

| | |
|---|---|
| Code | `su.c` 400-718 (`handle_request`), with `run_cmd` and `readx`/`writex` of `suutil.c` |
| State | the result type, the place in the function, the tries of `select`, the middle process and the command, the socket pair and the client's connection |
| Operations | check, fork, wait for output with a limit in time and in tries, copy output with a limit in length and in time, reap, one of the four failure exits, close |
| Hard | the handler kills and waits for a *middle* process that has long exited and orphaned the command; the end of file needs every holder of the pair to be gone; a SIGCHLD inside `select` counts as a try; ten failure exits share four labels |
| Correct if | a status line is never mixed with output, output without a mark is complete, waiting is not given up early, the request ends if its command does |

### Sedroid — modelled

| | |
|---|---|
| Code | `Sedroid.java`, `Patch.java`, `DexPatch.java`, `ApkOrJarPatch.java` |
| State | `isSetuped`, the list `sPatches` with a status per patch, the method table of the runtime |
| Operations | `setup` (load the bundled patch, initialise all, apply all), `addPatch` |
| Hard | failure at every point of two passes and a retry that starts from what the failed attempt left; patches that replace the same method; `addPatch` that throws half-way |
| Correct if | a patch that says `Fixed` is in force, after a successful setup the last patch of a method wins and none is left out, patches of other processes are never applied |

### libsu: startup and handover, rtdaemon — modelled

| | |
|---|---|
| Code | `su.c` 255-304 (`create_server_socket`), 741-858 (`create_client_socket`, `cleanup_process`, `notify_java_server`, `run_server` up to its loop), 972-979 (termination), 1020-1129 (`do_run_server`, `main`); `proxy.c`; `rtdaemon.c` |
| State | of each process of libsu: its place, the name it binds, who has its listening socket open, the queue of that socket, what Java was told; of the daemon: its place, its open connections, the forked processes |
| Operations | ask the old server to end and wait until it has, bind the permanent or a temporary name, tell Java of an error or an address with four tries, serve; the daemon's accept, check, read, ping, fork, answer, execution |
| Interaction | a new server and the old one over the old one's socket; both and their forked children through the listening socket they inherit; Java's server socket; rtdaemon executes libsu |
| Hard | two starts at once; a name that stays taken while a forked child has the socket; a reply that must come behind the close; a notifier that runs beside the server; a retry that undoes a timeout; a fork that fails |
| Correct if | the permanent name has one owner, a starter that was answered finds the old server without its socket, Java hears the address that was bound as the last word, libsu runs only for callers that were checked, every start and every caller comes to an end |

### The checker's jar — modelled

| | |
|---|---|
| Code | `tools/read.java`, `data.c` (`pairs`, `findoffset`, `validatejar`, `extractjar`, `checksignature`) |
| State | the file at one path, and of each server its descriptor, its offset in the text and in the file |
| Operations | encode and decode a byte; look at the size, compare byte by byte, unlink, create, write, start the checker and try a second time |
| Hard | twelve ranges and a table that must be inverse to each other; a write whose result nobody looks at; two servers with one path; a kill in the middle |
| Correct if | the table inverts the encoder for every byte, an undisturbed check starts the whole jar, and what went wrong is repaired by a later check |

### libsu's commands — modelled

| | |
|---|---|
| Code | `cmds/*.c`, of which `dd.c` is the largest; `su.c` 528-548 |
| State | the command's place and status, its stack of directories, its buffers; the tree of files, the processes and the mounts of the system |
| Operations | each command of the table with its options and operands, one system call a step |
| Interaction | the file system and the process table change while a command goes through them; the client sees its output and `0` or an error |
| Hard | entries that vanish or become others between two calls, links that lead out of the operands, retries over file system types, blocks of one size collected into blocks of another with short reads, cut writes and signals |
| Correct if | `0` means that all was done, nothing is touched that was not asked for unless a link is put in the way, nothing is lost from what is copied, a listing leaves out only what is hidden or could not be read, every command ends |

### The aidl compiler — modelled but for its scanner and parser

| | |
|---|---|
| Code | `aidl.cpp`, `options.cpp`, `search_path.cpp`, `Type.cpp`, `generate_java.cpp`, `generate_java_binder.cpp`, `generate_java_rpc.cpp` |
| State | the options, the list of imports, the type table, the files; of the generated code: the parcels of a call, the map of callbacks, the presenters |
| Operations | parse the command line, parse and gather imports and preprocessed files, check types and methods, give out transaction codes, write Java, dependencies and preprocessed files; a call, a oneway call, an rpc request and its answer, events and their listeners |
| Interaction | files that one command line writes and another reads; proxy and stub in two processes; an rpc broker that delivers in any order |
| Hard | ids from `atoi` without a check of overflow; two sides written by different functions that must read and write the same; failures in the middle of a reply; answers that overtake each other |
| Correct if | an error stops a pass before it writes, what is accepted is marshalled whole and in one order, codes are distinct, files carry what later passes need, an exception that the stub catches reaches the caller |

### Not modelled

| Part | Why |
|---|---|
| Signature checker (`tools/Authencation.java`) | asks the package manager about a user, compares signatures with two constants and exits with 100, 90 or 0: no state and no retry, and all it decides by is in the platform. RtServer, RtDaemon and CheckerJar keep what it says |
| Scanner and parser of aidl (`aidl_language_*`, `lex.yy.c`), `AST.cpp` | generated from a grammar, taken as the function from a file to its declarations; AST.cpp lays out text |
| `jni/inject-jni`, `jni/injectso-jni` | a straight line of ptrace calls on another process, no state of its own |
| `jni/exec-jni`, `jni/exec-mmap`, `jni/lib-jni` | samples that log process ids, list a directory, map one file |
| `com/badlogic/gdx` | vendored bindings of a native library that is not here |
| `com/zero` activities, utilities and widgets, `com/euler` | life cycle, drawing, logging and single calls into the platform; classes to be patched. `App.onCreate` and the two demonstrations that call the framework are in ServiceManager |
| The byte layout of `req[]`, of what `ls`, `ps` and `dd` print, and of the Java that aidl writes | formatting; what is written there is modelled, how it is laid out is not |

`PROJECT.json` lists the same parts under `components`, and under `hazards` each
place where the code can go wrong in a way a test would hardly reach, with the
properties that watch it. Three hazards, all in `su.c`, have no property; each
says why: a request split between two reads (966), the unreachable exit of a
temporary server (951), a trusted user whose package is replaced (366).

## 2. Modules

    ServiceDirectory            what the framework promises
      ^ refined by
    ServiceManager              the framework, one thread step at a time
      MCServiceManager          instances for TLC
      ServiceManagerProofs      safety theorems and the refinement

    RtReply                     what a client of libsu may see
      ^ refined by
    RtRequest                   one request and its processes
      RtRequestProofs           safety theorems and the refinement

    RtLine                      what those who connect to libsu are promised
      ^ refined by
    RtServer                    the server loop
      MCRtServer                instances for TLC
      RtServerProofs            safety theorems and the refinement

    RtStartup                   starts of libsu and the handover of the name
      RtDaemon                  RtStartup composed with rtdaemon
        RtStartupProofs         safety theorems of both; the composition
                                implements RtStartup

    CheckerJar                  codec, validation and extraction of the jar
      MCCheckerJar              instance for TLC
      CheckerJarProofs          the codec theorem and the safety theorems

    ToolState                   a command, its options, operands and answer
      FileTools Cat Mount       the commands, each a module
      Processes Dd
        Toolbox                 puts them together, with cmd_main
          MCToolbox             instance for TLC
          ToolboxProofs         safety theorems of every command

    AidlTypes                   Type.cpp: what can be marshalled, and how
      AidlCompiler              command line, imports, type table
        AidlOutput              checks, codes, the files written
          AidlBinder            the generated Java of a binder interface runs
            AidlRpc             the generated Java of an rpc interface runs
              Aidl              builds, and the properties
                MCAidl          instance for TLC
                AidlProofs      compiler and both kinds of generated code

    SedroidPatches              setup and addPatch
      SedroidPatchesProofs      safety theorems

RtServer and RtRequest meet at one action: `RtServer!ForkHandler` starts what
RtRequest describes, and `RtServer!ChildExits` for a client is the end that
`RtRequest!RequestEnds` promises. `RtServer`'s fairness on `ChildExits` rests
on that property. RtStartup has the loop only as far as a starter can tell of
it: free, held by somebody, or serving a starter. CheckerJar is what
`RtServer!Check` does inside.

Definitions whose comment begins with *Fault:* or *Faulty:* are mutations of the definition
after them: what the code would be with one plausible mistake. No behaviour of
the system uses them. They show that each property can fail: put in the place
of the original, TLC finds the property violated.

### ServiceManager

Each thread is a program counter `pc[t]` whose labels name the places of the
code between which another thread, another process or a death can come. `cont[t]`
is the return address of the one path that three callers share (ask the manager
for a binder: a new request, `asInterface` on a cleared wrapper, `transact` on a
cleared wrapper).

| Code | Model |
|---|---|
| `sCache` lookup, `putCacheBinder` | `Lookup`, `Put` (separate steps: two threads can both miss) |
| `getServerManagerService`, unlocked read | `ReadChannel` |
| `queryService` with its monitor and second check | `EnterQuery`, `QueryAnswered`, `QueryFailed`, `Publish`, `LinkManager` |
| the manager's `getService` | `FetchTooEarly`, `FetchOutOfRange`, `FetchNotInstalled`, `FetchInstalled`, `CreateInstance`, `Reply`, `FetchDied` |
| `RemoteBinderWrapper` | `Wrap`, `GetRemoteBinder`, `Transact`, `BinderDied` |
| `ServiceList.getInterface` | `AsInterface` |
| process life | `StartServer`, `AppCreated`, `ServerDies`, `Obituary` |

Modelling decisions:

* A binder is the record of the server's life it belongs to, its service and the
  number of the singleton object. A wrapper is named by the thread that made it
  and its service: a thread makes at most one wrapper of a service in the life
  of its process, because once it has put it into the cache the entry stays.
* In the server process `RemoteBinderWrapper.getService` returns the binder
  itself; the model keeps an entry whose `impl` is never cleared.
* A client process keeps its statics for its life. A client that is killed and
  started again has an empty state and is another element of `Clients`.
* The provider is published before `Application.onCreate` runs, so a request
  may reach the manager while the process type is still unset and be answered
  with null (`FetchTooEarly`).
* `SparseArray.get` and `put` are atomic; the inside of that class is platform
  code.
* Calls are two-way. The only one-way method, `transactLargeData`, is called
  nowhere (its call is commented out). What the services do is abstracted to how
  a call may end (`Outcomes`): a service of `Throwing` may throw into the reply, as
  `StopPackageService.killSysWait` does (line 108); one of `Large` may have more to
  pass than a transaction between processes holds, as `getTransactLargeData` has
  (`TestTransactionTooLarge` catches its `TransactionTooLargeException`); and if the
  server is dead the call fails. So `KeepsPromise` says which failures there may be
  while the server lives, and that no others come.

### RtRequest and RtReply

The handler's place `h` follows `handle_request` from the checks to `close`; the
middle process, the command, the client and time take their own steps. A piece
of output is what one `read` returns. Pieces of at most 4096 bytes are one
buffer of a local stream socket, so `writex` sends all of a piece or fails.
Each of the two limits in time is a Boolean, `expired`, which `Expire` may set at
any moment. `MAX_OUTPUT_BYTES` is a number of pieces (its value in `su.c` is
1 MiB; the comment at line 10 says 20K). The integer that kind 32 was to return
is compiled out in the code, so the model has no exit status.

### RtServer and RtLine

One place per point of the loop at which a signal, a child or a client can
interfere. The process mask and the pending signal are Booleans: several
children that exit raise one SIGCHLD, and `mainsigchld` waits once, so zombies
may remain, as in the code. `_system2` and `_system` leave SIGCHLD blocked on
two of their error returns (`Check`, `Check2Fails`). A client sends one request
and either is read or leaves. `Valid` is the set of users for whom the checker
can answer 100; it may also fail on them. The exit of a temporary server
(line 951) is unreachable because `selresult` keeps its initial -1, and the model
has no such step.

`RtLine` is the same loop as its clients see it: a line in which they come, are
taken in their order, are turned away, answered or given a helper, and which
closes for all of them at once. The mapping reads the line off the server's
state:

| `RtLine` | `RtServer` |
|---|---|
| `open` | `Serving`: the listening socket is open |
| `waiting`, `now` | `queue`, `cli` |
| `helped` | clients with a running handler |
| `done` | clients whose connection is closed |
| `Entitled` | clients of root or of a user in `Valid` |

That a client is in only one of these at a time is not part of the state's shape:
a connection could be accepted twice, kept by a refused check, or cut off when
the server ends with a handler still running. `LineInv` says that it is not.

### RtStartup and RtDaemon

| Code | Model |
|---|---|
| `main` with `-server` or `-c`, `do_run_server`'s checks | `StartServer`, `StartTemporary`, `BadArguments`, `NotRoot` |
| `cleanup_process` | `Ask`, `AskNobody`, `SendTerm`, `SendTermReset`, `Answered` |
| `create_server_socket`, `run_server` up to its loop | `BindPermanent`, `BindTemporary`, `BindFails`, `Serve` |
| `notify_java_server`, in the process itself or forked | `Complain`, `ComplainAgain`, `ComplainInVain`, `TellAddress`, `TellAgain`, `TellInVain` |
| the loop's answer to `"\n\n"` | `AcceptStarter`, `CloseListening`, `ReplyAndExit` |
| other clients, and children that inherit the socket | `Occupy`, `Release`, `Fork`, `ForkedCloses` |
| rtdaemon's loop | `DAccept`, `DCheckPasses`, `DCheckFails`, `DReadNothing`, `DPing`, `DRead`, `DFork`, `DForkFails` |
| what it forks, and its signal handler | `KidGivesUp`, `KidAnswers`, `KidExecFails`, `KidBecomesLibsu`, `KidEnds`, `DReap` |

A socket is a name, the set of those who have it open and a queue; `Close` by the
last holder resets those in the queue. The name is taken as long as somebody
holds the socket (`Owners`). rtdaemon's read has no time limit and its SIGCHLD
handler waits for one child; both are as in the code. `KidBecomesLibsu` is
`RtStartup!Start` of a process of `Requested`; the other processes are started by
a shell (`ShellStarts`, `proxy.c`).

### CheckerJar

`Rank`, `Index` and `Char` are `read.java`'s encoder, `FindOffset` and `Value` the
table and decoder of `data.c`, over bytes 0..255. A server's check is `Begin`,
`Stat`, `Open`, `Compare` (one byte a step), `Unlink`, `Create`, `Write` (one byte a
step; `WriteLost` is a write that the full disk drops and nobody notices),
`EndOfText`, `Chmod`, `Check`. An unlinked file stays with those that have it open.
`disturbed` records that another server, a full disk or a kill came into a
check; nothing reads it.

### The toolbox

`Toolbox` chooses a command as `cmd_main` does, or one system call as
`directsyscall_main` does (whose `find_index` looks no further than the name it
tries, so that `rmdir` is `rm`), and runs it one system call a step. The recursive
functions (`unlink_recursive`, `listdir`, `change_attributes`) are a stack of calls.
Beside the command, `Processes` lets processes end and start with a pid that was
used before, `Cat` and `Dd` let reads be short and writes be cut or fail, and `Dd`
lets a signal come at any step.

A path is a sequence of names, and each system call walks it anew (`Real`): a link
on the way is followed, and one at its end by `stat`, `open` and `opendir` but not
by `lstat` and `unlink` (`Follow`). A file is an inode. Other processes put a file, a
directory or a link in the place of an entry, remove one (`OthersPut`) or rename one
(`OthersMove`) between any two calls; what they touch is remembered in `steady`,
`planted` and `others`. So a name may be another file when it is used than it was
when it was looked at, and the properties say what then holds:

* `OnlyAsked`: `rm -r` and `chattr -R` look at a name with `lstat` and name it again to
  open it (`rm.c` lines 25-33, `e2fs_lib.c` lines 37 and 93-98). If another process
  puts a link above, at or below an operand in between, they go on below where it
  leads: the model has runs in which that happens. `Reached` says how far: what is
  at or below an operand, and with such a link what is below its target; never
  anything else.
* `OutputComplete`: `ls` prints no hidden entry without `-a` (`Skipped`), takes a
  `readdir` that fails for the end of the directory (`LsRewinds`, `LsCloses`) and does
  not tell that it could not look at an entry (`Prints`). The directories in which
  that happened are in `cut`; of the others a listing that ends with 0 is complete.
* `StatusHonest`: an operand counts as long as others changed nothing on the way to
  it (`Alone`).

A name that ends in a slash, at which `ls` looks with `stat`, is left out.
`rm -r` without an operand answers `0`, as the code does; `chown` of a user that is
not known is one to the number that `atoi` makes of it; `kill` fails for a process
that is gone or is not the caller's; an error of a read that `cat` cooks does not
reach its status (`CatCloses`). A byte of `dd`'s input is its offset. What was written of a file and what was read of
it are compared by `SameOf`: as many characters, and the one that comes in a turn
here is the one that comes in that turn there. `dd` is built with `NO_CONV`: its conversions
are not part of the program.

### The aidl compiler

A build is a sequence of command lines run on one file system. `AidlCompiler`
and `AidlOutput` take a command line through the stages of `compile_aidl` or
`preprocess_aidl`: options, parse, imports along the path, type table, checks,
transaction codes, output. A file is what the grammar makes of it; a type is
what its class in `Type.cpp` says of it: whether it goes into a `Parcel` or an
`RpcData`, and which call writes, creates and reads it. So when the interface
that a pass accepted is *run* (`AidlBinder`, `AidlRpc`), every generated read is a
read of a certain format from what the other side's generated writes have put
there, and `WireAgrees` can fail. The integers that `atoi` reads wrap at `Word`.

Three places where the code is not what one expects, and what the properties make
of them:

* `parse_preprocessed_file` reports a line that redefines a name and drops the error
  (`aidl.cpp` lines 853 and 864): the pass goes on. `dropped` keeps such lines, and
  `DroppedLose` says that the type they redefine stays what it was. All other
  errors stop the pass (`ErrorsStop`).
* `CanBeArray` is what each class overrides (`Arrayed`). `IBinderType` has the calls for
  arrays and does not override it, so `IBinder[]` is refused.
* The generated `onTransact` catches a `RuntimeException` only. A `RemoteException`,
  which each generated method may throw, leaves it; the framework (external:
  `Binder.execTransact`) then sends no reply, and the proxy, which does not look at
  what `transact` returned, reads an empty parcel. `ThrowsReach` says that a
  `RuntimeException` always reaches the caller, and that after a `RemoteException`
  the caller gets nothing but zeros, nulls and what it passed itself.

### SedroidPatches

One step per patch in the pass of `initPatches`, one per replaced method and one
per patch in that of `applyAll`, each with its failure. The monitor of the
instance makes `setup` and `addPatch` exclusive, so `step` and `pos` belong to the
one call that runs. The native library and the loading of dex files are
external: they work or fail. `mPatchClasses` is never assigned, so `addPatch`
throws after the patch's `init` (`AddInited`). At this commit the calls of `setup` in
`App.java` (line 61) and `ServiceManagerProvider.java` (line 117) are commented
out; the model is of the class.

## 3. Runs

| Run | Instance | States | Shows |
|---|---|---|---|
| `service_one_client` | 2 threads of a client, an installed and an absent service, 2 lives | 35 k | the races inside one client process: `OneServerPerProcess`, `RefetchFutile`, `WatchedOrDead`, the inductive `IInv`; and `FrameworkSettles`: every call ends, every wrapper of a dead binder is cleared |
| `service_three_processes` | 2 clients and a thread in the server; an installed, an absent and an out-of-range id; 2 lives | 1.6 M | the lazy singleton settles (`SettledInstance`), and the framework implements `ServiceDirectory` (`KeepsPromise`) |
| `request` | 2 pieces allowed, 4 written, buffers of 2 | 25 k | `WholeOutput`, `NoEarlyGiveUp`, `IInv`, `RequestEnds`, and the handler implements `RtReply` (`KeepsReply`) |
| `request_orphan` | the same | 1 k | **violated**: `GiveUpStopsCommand` |
| `server_safe` | clients of root, of a valid and of an invalid user, backlog 2 | 2.8 M | `OnlyTrustedServed`, `StatusNotStolen`, `ExitOnlyWhenTold`, `IInv`, and the server implements `RtLine` (`KeepsLine`) |
| `server_ends` | 2 clients of one valid user | 178 k | `ConnectionsEnd` |
| `boot` | an old server, a start from a shell, one through rtdaemon; backlog 1, 2 tries | 45 k | `Handover`, `JavaToldRightly`, `DaemonHonest`, the inductive `BootInv`, and `BootSettles` |
| `startup_held` | an old server and one start | 536 | **violated**: `AwaitBounded` |
| `jar` | 2 servers, a jar of a shifted and a high byte, five files at the path, one lost write, one kill | 185 k | `JarSound`, `UndisturbedWhole`, `JarSettles` |
| `toolbox` | each command with a few operands; a tree with a directory, a link out of it and a device; 1 change by others (a file, a directory, a link or nothing at one of the paths, or a renaming), 3 of processes; `dd` of 5 bytes with every block size from 0 to 3 | 425 k | `StatusHonest`, `OnlyAsked`, `OutputComplete`, `ToolEnds` |
| `aidl` | builds of one or two command lines; each type as argument and result of either kind of method; ids at their bounds; 2 calls | 76 k | `CompilerSound`, `FilesAgree`, `FilesWritten`, `BinderFaithful`, `RpcFaithful`, `AidlEnds` |
| `patches` | 2 methods, up to 4 patches, either kind of process | 22 k | `FixedInForce`, `LastFixedWins`, `NoPatchLeftOut`, `IInv` |

Each `IInv` contains its module's type invariant (as do `BootInv`, `JarSound`,
`OnlyAsked` and `CompilerSound`). Properties that speak of several parts are
conjunctions of named ones:

* `FrameworkSettles` = `CallsEnd` and `DeadWrapperCleared`;
* `Handover` = `OnePermanentServer` and `HandoverDone`; `DaemonHonest` =
  `LaunchedWhenAsked` and `DaemonKeepsOnlyFailed`; `BootSettles` = `StartsSettle`,
  `NameFreed`, `JavaHears` and `CallersEnd`;
* `JarSound` = `CodecInverts` and the inductive `JarInv`;
* `StatusHonest` = `FilesHonest`, `MountHonest`, `KillHonest`, `SuccessComplete` (of
  `dd`); `OnlyAsked` = `NothingElseLost`, `StackDescends`, `ChattrInside`,
  `ReadOnlyTold` (of `mount`), `BlocksAsked` and `SeekKeeps` (of `dd`);
  `OutputComplete` = `LsComplete`, `PsComplete`, `CatKeepsAll`, `CatLines`,
  `BufferBound` and `NoByteLost` (of `dd`);
* `CompilerSound` = `ErrorsStop`, `DroppedLose`, `GapsKnown` (what is accepted and cannot be
  marshalled is one of the listed gaps of `Type.cpp`), `CodesDistinct`;
  `FilesAgree` = `PreprocessedWhole`, `PreprocessKeeps`, `DepsComplete`, of the files at
  rest: what a pass left, and what a later pass has of it. Each holds of every build, with
  what the code leaves to its user as its premise: that the output is none of the inputs,
  that all lines read for a name say the same (`Agreed`), that the dependency file is no
  source; `FilesWritten` = `WritesWhole`, `LineKeepsType`, `DepNamesSources`, of the single
  steps that write and read these files;
  `BinderFaithful` = `WireAgrees`, `CallsFaithful`, `ThrowsReach`,
  `ParcelsRecycled`; `RpcFaithful` = `KeysAgree`, `AnswersFaithful`, `OneListener`.

Deadlock is checked in the service runs and in `jar`, whose threads and servers
go on for ever. The other systems may stop: a request is done, a server has
exited or nobody connects, a command or a build has ended, the list of patches
is full.

### Why the bounds are enough

* *Lives of the server.* Two lives give every case the code can tell apart: no
  server, the bound one, a dead one, another one. `MaxIncarnation` bounds
  `ServerDies` only; the proofs hold for any value.
* *Threads.* The cache, the monitor and the wrappers are shared between two
  threads of a process in one run, the server between three processes in
  another. The proofs hold for any number.
* *Output.* Limit 2 and 4 pieces put commands on both sides of the limit;
  buffers of 2 make every writer block.
* *Clients of the server.* Three clients give one queued, one served and one
  with a running handler at once; two of the same user give the remembered
  verdict.
* *Starts.* Three processes give an old server and two starts at once, the
  smallest number at which both can wait for the same server and one finds the
  name taken; a backlog of 1 makes the queue full; two tries give a failed one
  and a last one. The proofs hold for any number.
* *The jar.* Two bytes give a first and a last, and take both halves of the
  table; `CodecInverts` ranges over all 256 bytes.
* *Commands.* A directory in a directory beside a link and a file makes every
  recursion go down, come back and meet a link; one change by others can fall
  between any two calls, and one link is what the race between a look and an open
  needs; five bytes are no multiple of a block size but 1.
* *aidl.* One method shows each type in each position; two methods show codes,
  names and overtaking answers; a word of 4 bits and a largest id of 6 make
  ids overflow and collide.
* *Patches.* Four positions hold two attempts of setup and two added patches;
  contents `{m1}` and `{m1, m2}` make patches overlap on one method and not on
  the other.

### What the code does not do

Two runs state what a comment of the code says and show a behaviour that breaks
it. `findings` in `PROJECT.json` quotes the lines.

* **`request_orphan`** — on a timeout, a write error or the output limit the
  handler kills `pid_in_child`, the middle process, which exited long before; the
  command goes on.
* **`startup_held`** — the receive timeout that is to bound the wait for the old
  server makes `read` fail with EAGAIN, which `readx` retries: while a silent
  client holds the old server the new one waits. The same retry lets a silent
  client stop the server's loop, which is why `server_ends` and `boot` assume
  that clients talk.

Properties that hold can say the like: `RefetchFutile` is that the recovery in
`getRemoteBinder` never helps, since the manager's dead proxy is never cleared
(`ServiceManager.java` 143); `DaemonKeepsOnlyFailed` that rtdaemon keeps the
connections whose fork failed; `GapsKnown` names the types for which aidl writes
a comment where a call should be; `PreprocessKeeps` that a preprocessed file
forgets that an interface is oneway.

### Fairness

* *ServiceManager.* Weak fairness of each thread's own steps (threads are
  scheduled), of `App.onCreate`, and of the delivery of obituaries; strong
  fairness of `StartServer`, since the activity manager starts the process for
  every query that finds it missing. Nothing makes a caller call or the server
  die.
* *RtRequest.* Weak fairness of the handler, the middle process, the start of
  the command, the clock, and of a client that reads what it is sent or leaves;
  for `RequestEnds` also that the command exits, because the code has no way
  to end it (see `request_orphan`).
* *RtServer.* Weak fairness of the server, of signal delivery, of an
  uninstallation that has begun and of the exit of children. `TalkingSpec` adds
  that a connected client sends or leaves.
* *RtStartup, RtDaemon.* Weak fairness of each process, of the notifier and of
  forked children closing what they inherited; strong fairness of the loop's
  step for a starter, since `accept` takes connections in their order and other
  clients hold the server only in between; weak fairness of the daemon, of what
  it forks and of its clients. For `BootSettles` also that a client releases
  the server; `startup_held` drops that.
* *CheckerJar, Toolbox, Aidl.* Weak fairness of the one program that runs (of
  each server's check, of the command, of the compiler and of a call). Other
  processes, signals and failures are never owed, and are bounded.

## 4. Proofs

All theorems hold for every value of the constants under the assumptions named
in the modules: which are names, which are numbers, `Installed \subseteq InRange`,
`Bundled \subseteq Methods`, `Old` has at most one element, `Jar` and `Before` are
byte sequences, `Requested` are processes that do not run yet. Of the toolbox: paths are sequences of names
and inodes are names; a tree (`IsTree`) has a directory above whatever it has;
a second link behind a link is not followed; the operands of `cat` are contents, those of `kill` and `ps` numbers,
those of the others paths; sizes are numbers, and `dd`'s default block is not empty.
Of aidl: command lines are lists of arguments; the files of a build hold what the
grammar makes of them (`ItemSet`, `NamedLines`: declarations have names, what is
declared flattenable is a parcelable too), an interface has no more methods than
there are codes, a word is even and the largest code of a user fits into an int.
TLC evaluates these on every run. Each inductive invariant (`IInv`, `BootInv` with
`StartupInv`, `JarInv`) is an invariant of a run, so that it was checked before it
was proved; `ToolboxInv`'s parts were checked on the instance of `toolbox`, and
`CompilerInv`, `SourceInv`, `AgreeInv`, `BinderInv` and `RpcInv` on that of `aidl`.

| Theorem | Statement |
|---|---|
| `ServiceManagerProofs`: `TypeCorrect`, `Inductive`, `OneServer`, `OwnServiceAlways`, `RefetchIsFutile`, `NoNullService`, `ChannelIsSetOnce`, `WatchedOrDeadAlways`, `InstanceSettles`, `Implements` | the safety properties of the framework, the action property `SettledInstance`, and `Spec => KeepsPromise` |
| `RtRequestProofs`: `TypeCorrect`, `Inductive`, `StatusAloneAlways`, `WholeOutputAlways`, `NeverGivesUpEarly`, `Implements` | the handler's safety, the action property `NoEarlyGiveUp`, and `Spec => KeepsReply` |
| `RtServerProofs`: `TypeCorrect`, `Inductive`, `NoLeakedConnectionAlways`, `OnlyTrustedServedAlways`, `StatusNotStolenAlways`, `ExitOnlyWhenToldAlways`, `Implements` | the server's safety, and `Spec => KeepsLine` |
| `RtStartupProofs`: `StartupInvariant`, `HandoverAlways`, `JavaToldRightlyAlways` | one owner of the name, a handover that is complete, true notices, for any number of starts |
| `RtStartupProofs`, with rtdaemon: `DaemonImplementsStartup`, `BootInvariant`, `HandoverBesideDaemon`, `JavaToldBesideDaemon`, `DaemonHonestAlways` | `BootSpec => Spec`: what rtdaemon launches is a start like any other; and the daemon's own account |
| `CheckerJarProofs`: `Codec`, `TypeCorrect`, `Inductive`, `JarSoundAlways`, `UndisturbedWholeAlways` | the table inverts the encoder; an undisturbed check has the whole jar, for any jar and any file at the path |
| `ToolboxProofs`: `ToolboxInvariant`, `AnswersHonest`, `NothingUnasked`, `OutputWhole` | `StatusHonest`, `OnlyAsked` and `OutputComplete` of every command, for any tree, operands, processes and sizes, whatever others put where, with what each property allows for that |
| `AidlProofs`: `CompilerInvariant`, `CompilerIsSound` | `CompilerSound`: errors stop a pass (dropped ones change nothing), what is accepted is marshalled and has its own code, for any files and command lines |
| `AidlProofs`: `SourceInvariant`, `FilesAreWritten` | the action property `FilesWritten`: a preprocessed file is whole, a line declares what its item declares, a dependency file names the sources used, for any files and command lines |
| `AidlProofs`: `AgreeInvariant`, `FilesAgreeAlways` | `FilesAgree`: a preprocessed file names what its inputs declare, a compilation that reads it has the same types, a dependency file lists the sources used, for any files and command lines |
| `AidlProofs`: `BinderInvariant`, `BinderIsFaithful`, `RpcInvariant`, `RpcIsFaithful` | the generated Java of every accepted interface carries calls, results and the exceptions that it catches, for any number of calls |
| `SedroidPatchesProofs`: `TypeCorrect`, `Inductive`, `FixedInForceAlways`, `LastFixedWinsAlways`, `NoPatchLeftOutAlways`, `ForeignUntouchedAlways` | the patch manager's safety |

The arguments:

* **ServiceManager.** `OneServerPerProcess` is not inductive: it says nothing of
  a thread that is still asking. `LockInv` (the monitor is held exactly by the
  thread inside `queryService`) gives `ChannelInv` (while it is, the channel is
  null; after it, the thread's manager is the process's). From that a reply's
  binder belongs to the channel's life, which `ThreadInv`, `BinderInv` and
  `EntryInv` carry from the reply into wrapper, cache and holder. The clause of
  `GoodEntry` that a cleared wrapper means a dead manager rests on obituaries
  being true (`BinderInv`) and on the server's life counter, of which a past life
  never comes back (`IncarnationInv`). `RefetchInv` is that clause for a thread
  that already is on its way to the manager, and is what makes the refinement
  work: such a request fails, and may.
* **Refinement.** `Directory` maps a thread to idle, getting, holding or calling;
  every step of the framework is a step of `ServiceDirectory` or changes nothing
  it sees. `StepRefines` has a case for each action. The two that need the
  invariant are `NoBinder` (a failure is allowed only when the bound life is
  down or still starting) and `Transact` (a success, an exception of the service and
  data too large only when it is up, a dead server only when it is not).
* **RtRequest.** `FlowInv` counts the output: what the command produced is what
  was sent, what is in the pair and the piece in hand. At the end of file
  nothing is in the pair and nobody can add to it, so all was sent;
  `EndingInv` carries this to `done` past the exits that are allowed to have sent
  less because there is a mark, a status line, or no client.
* **RtServer.** `TrustInv` follows a valid user from the verdict, through
  `verdict` while the checker runs, to `users` and the read. `ServeInv` says
  which places have a client and that its descriptor is the only one open.
  `StatusNotStolen` needs SIGCHLD to be blocked at `wait1`, and that the checker
  runs only at three places. `KeepsLine` rests on `LineInv`: each client has not
  come, stands in the queue once, is served or has a handler, or is done with.
  `FirstLeaves` and `LastJoins` say what `Tail` and `Append` do to a line
  without repetition; `StepRefines` then takes the actions one by one.
* **RtStartup.** `OneOwner` needs `HoldInv`: who has a listening socket open at
  which place; a name is bound only when nobody holds it, and a place behind
  the close never gets it back. `HandoverDone` speaks of an answered starter and
  a server that closed, so between the two `LineInv` follows the starter: whoever
  stands in a server's queue or is its accepted starter is connected to it and
  waits, stands there once, and in no other line. A close by the last holder
  resets exactly those, an answer goes to one whose server is at `closed`.
  `JavaInv` says that only errors were told before the notifier is done, and that
  it tells once.
* **RtDaemon.** Every step of `BootNext` is a step of `Next` or leaves libsu's
  variables alone (`DaemonStepsAreStarts`), so the theorems of RtStartup hold of
  the composition as they stand. `DaemonInv` follows one request from the check
  to the fork; a running libsu starts nobody (`RunningStartsNobody`), so that a
  process of `Requested` leaves `absent` only at `KidBecomesLibsu`.
* **CheckerJar.** The codec is proved by cases over the twelve ranges. `Knows`
  says place by place what an undisturbed check has seen or written: behind
  `Compare` the open file agrees with the jar up to `pos`, behind `Write` it *is*
  the jar up to `pos`; at the end of the text it is the jar.
* **The toolbox.** One of eight commands runs and leaves the variables of the
  others alone (`OneStep`), so `ToolboxInv` has a part per command. `DdInv` counts:
  what was read is what was written and what is in the buffers. `MountInv` ties
  the read-only flag of the mount to an option or to an error that was told.
  `FileInv` ties the answer to the tree and to what is still on the stack of
  calls. What others may do is one relation (`Disturbed`): nothing differs on the way
  to a path of `steady`, what differs is in `others`, and a link that is new is in
  `planted`; all of `FileInv` is kept by it (`DisturbingKeepsFileInv`). For `OnlyAsked`
  every call of `rm` and `chattr` on the stack is `Within` an operand: no link is
  between the two, unless one was planted; then `Where` says where its path leads.
  `CatInv` says of raw copying that what was written
  and what is in the buffer are what was taken, and of the numbering that the
  text is the same, with the counters and flags (`LineInv`, `BlankInv`) what the
  last characters written make of them.
* **The aidl compiler.** `CompilerInv` says of each stage what the ones before it
  have settled if nothing was reported (`StageInv`), and of the type table that
  every type in it is `Good`: it is read with the calls it is written with
  (`Paired`), and has the calls its flags promise (`Covered`). Both hold of each
  class of `Type.cpp` and are kept by whatever is gathered or found, so
  `check_method`, which looks at the flags, lets only methods through whose calls
  exist: `GapsKnown`. `CodesDistinct` follows from how `AssignedIds` steps over the
  codes that are used.
* **The files of aidl.** `FilesWritten` speaks of single steps, and each needs to know
  where what is written came from: `SourceInv`. What a command line sets are
  options (`FlagsSet`, along the fold); the documents at hand are those of the
  files to preprocess, or what the input holds; the fields that a line is read into
  come from lines; and a type of a declared kind in the table is declared by a
  preprocessed line, by the input or by an import whose file was found. The last
  is what `DepNamesSources` needs: the types that an interface uses are looked up in
  that table, and the prerequisites are the input and the found imports. The
  exception in it, a line or what a line left behind, is the code's: a preprocessed
  type has no file name, so that the dependency file cannot have it.
  `FilesAgree` compares files after several steps, which `AgreeInv` adds: a pass does
  what its options say (`TaskInv`), and while preprocessed files are read the table
  has a declared type only for a line read, and a type for each line that was
  (`LinesInv`, along the cursor). The second half makes the first bite: without it
  `PreprocessKeeps` would be true of a reader that skips lines, and without the first
  the type found under a name could be anything. A line can also be what one
  left in the buffers (`LeftBehind`), and the premise `Agreed` counts those.
* **The generated binder code.** `BinderInv` ties each call under way to its request
  and its reply to what the service made. What a read does is said of a parcel that
  goes on with *anything* behind the item (`Reads`), so that a parcel of `n` items is
  read from its front: the request by `StubArgsRead`, the reply by `ReplyRead`. These
  are inductions over the arguments. The library's theorems take the induction
  hypothesis as an operator, which cannot be instantiated; `Induct` has a *set* in
  its place and rests on the least element of a set of numbers (`LeastNumber`). The
  recursive functions of the model, which are `CHOOSE` of a function that satisfies
  its equation, are shown to exist in the same way (`StubArgsFromIs`, `OutsFromIs`,
  `FlattenSplits`).
* **The generated rpc code.** The data of a message is a set of entries, and its
  keys differ: names of arguments differ or the Java does not compile, and
  `_result` is no argument's name. So each `Get` finds one entry (`GetArg`), and
  the order of the messages does not matter.
* **SedroidPatches.** `PassInv`: before the second pass begins every patch that
  concerns the process is `Inited` again, even those that were `Fixed`. So during
  the pass the patches before `pos` are `Fixed` and the rest are not, and none
  that says `Fixed` can be overwritten by an earlier one.

Only model-checked:

* liveness (`FrameworkSettles`, `RequestEnds`, `ConnectionsEnd`, `BootSettles`,
  `JarSettles`, `ToolEnds`, `AidlEnds`), which needs fairness. Every invariant and
  action property of a passing run is stated by a theorem.

## 5. What is left

All the parts of the system that keep state are modelled. What could be added:

* RtServer with RtRequest in one specification, in which `ChildExits` is the
  end of a request, so that `ConnectionsEnd` follows from commands that end. The
  product of the two has too many states for one run; it would be a theorem of
  the kind of `DaemonImplementsStartup`.
* `Valid` of RtServer as a variable, for the package that is replaced while its
  user is trusted. The code promises nothing there (the test that would drop
  the user is under `#if 0`).
