---------------------------- MODULE SedroidPatches ----------------------------
(***************************************************************************)
(* The hot-patch manager of com.qihoo360.sedroid: Sedroid.setup loads the  *)
(* bundled patch, initialises every patch of the list and applies those    *)
(* that concern this process, method by method; addPatch puts one more     *)
(* patch on the list.  Both hold the monitor of the one Sedroid instance;  *)
(* the patched methods are seen by every thread at once.                   *)
(*                                                                         *)
(* A setup that fails may be tried again.  It starts from whatever the     *)
(* failed one left: the list keeps its patches and gets the bundled one    *)
(* once more, patches that were Fixed are initialised and applied again.   *)
(*                                                                         *)
(* step is "idle" outside the monitor; "init" and "apply" are the two      *)
(* passes of setup, over patch pos; "added" is addPatch before its init.   *)
(***************************************************************************)
EXTENDS Naturals

CONSTANTS Methods,     \* the methods that patches replace
          Bundled,     \* those that patches/test_patch.dex replaces
          Contents,    \* the sets of methods that added patches replace
          MaxPatches   \* bound: the length of the list

Slots == 1..MaxPatches

ASSUME ContentsAssumption == Bundled \subseteq Methods /\ Contents \subseteq SUBSET Methods
ASSUME MaxPatchesAssumption == MaxPatches \in Nat

VARIABLES
  inServer,            \* App.runInServerProcess(): it never changes
  setuped,             \* isSetuped
  count,               \* sPatches.size()
  kind, fixes, status, \* of each patch: its class, what it replaces, mStatus
  replaced,            \* the patch whose code a method runs, 0: its own
  step, pos, done      \* the call that is running

listVars == <<inServer, count, kind, fixes>>
callVars == <<step, pos, done>>
vars == <<setuped, listVars, status, replaced, callVars>>

Init ==
  /\ inServer \in BOOLEAN
  /\ setuped = FALSE
  /\ count = 0
  /\ kind = [k \in Slots |-> "dex"]
  /\ fixes = [k \in Slots |-> {}]
  /\ status = [k \in Slots |-> "Unloaded"]
  /\ replaced = [m \in Methods |-> 0]
  /\ step = "idle" /\ pos = 0 /\ done = {}

(* isCurrentProcessApply: a DexPatch is for the server process, an         *)
(* ApkOrJarPatch for every process.                                        *)
Applies(k) == kind[k] = "jar" \/ inServer

Return == step' = "idle" /\ pos' = 0 /\ done' = {}

(* sPatches.add(patch); patch.mStatus = Loaded.                            *)
Load(c, s) ==
  /\ count < MaxPatches
  /\ count' = count + 1
  /\ kind' = [kind EXCEPT ![count + 1] = c]
  /\ fixes' = [fixes EXCEPT ![count + 1] = s]
  /\ status' = [status EXCEPT ![count + 1] = "Loaded"]
  /\ UNCHANGED inServer
-----------------------------------------------------------------------------
(* setup: the native part is there and the bundled patch is loaded.  (When *)
(* either fails, setup returns false and leaves everything as it was.)     *)
Setup ==
  /\ step = "idle"
  /\ ~setuped
  /\ Load("dex", Bundled)
  /\ step' = "init" /\ pos' = 1 /\ done' = {}
  /\ UNCHANGED <<setuped, replaced>>

(* initPatches: Patch.init finds every class and method of the patch,      *)
InitPatch ==
  /\ step = "init"
  /\ pos <= count
  /\ Applies(pos)
  /\ status' = [status EXCEPT ![pos] = "Inited"]
  /\ pos' = pos + 1
  /\ UNCHANGED <<setuped, listVars, replaced, step, done>>

(* Fault: a patch that cannot be initialised is passed over.               *)
InitFailsGoesOn ==
  /\ step = "init"
  /\ pos <= count
  /\ Applies(pos)
  /\ pos' = pos + 1
  /\ UNCHANGED <<setuped, listVars, status, replaced, step, done>>

(* or does not (a class or method is missing): setup returns false,        *)
InitFails ==
  /\ step = "init"
  /\ pos <= count
  /\ Applies(pos)
  /\ Return
  /\ UNCHANGED <<setuped, listVars, status, replaced>>

(* or is not asked to, because the patch is for another process.           *)
InitSkips ==
  /\ step = "init"
  /\ pos <= count
  /\ ~Applies(pos)
  /\ pos' = pos + 1
  /\ UNCHANGED <<setuped, listVars, status, replaced, step, done>>

InitEnds ==
  /\ step = "init"
  /\ pos > count
  /\ step' = "apply" /\ pos' = 1 /\ done' = {}
  /\ UNCHANGED <<setuped, listVars, status, replaced>>

(* applyAll: replaceMethod, one pair at a time; the classes come in the    *)
(* order of a HashMap, that is in any order.                               *)
Replace(m) ==
  /\ step = "apply"
  /\ pos <= count
  /\ status[pos] = "Inited"
  /\ m \in fixes[pos] \ done
  /\ replaced' = [replaced EXCEPT ![m] = pos]
  /\ done' = done \cup {m}
  /\ UNCHANGED <<setuped, listVars, status, step, pos>>

(* Fault: Fixed is said before the methods are replaced.                   *)
PatchFixedEarly ==
  /\ step = "apply"
  /\ pos <= count
  /\ status[pos] = "Inited"
  /\ status' = [status EXCEPT ![pos] = "Fixed"]
  /\ pos' = pos + 1
  /\ done' = {}
  /\ UNCHANGED <<setuped, listVars, replaced, step>>

PatchFixed ==
  /\ step = "apply"
  /\ pos <= count
  /\ status[pos] = "Inited"
  /\ done = fixes[pos]
  /\ status' = [status EXCEPT ![pos] = "Fixed"]
  /\ pos' = pos + 1
  /\ done' = {}
  /\ UNCHANGED <<setuped, listVars, replaced, step>>

ApplySkips ==
  /\ step = "apply"
  /\ pos <= count
  /\ status[pos] # "Inited"
  /\ pos' = pos + 1
  /\ UNCHANGED <<setuped, listVars, status, replaced, step, done>>

(* Fault: what applyAll returns is not looked at.                          *)
ApplyFailsUnseen ==
  /\ step = "apply"
  /\ pos <= count
  /\ status[pos] = "Inited"
  /\ setuped' = TRUE
  /\ Return
  /\ UNCHANGED <<listVars, status, replaced>>

(* A pair cannot be applied: setup returns false half-way.                 *)
ApplyFails ==
  /\ step = "apply"
  /\ pos <= count
  /\ status[pos] = "Inited"
  /\ Return
  /\ UNCHANGED <<setuped, listVars, status, replaced>>

SetupDone ==
  /\ step = "apply"
  /\ pos > count
  /\ setuped' = TRUE
  /\ Return
  /\ UNCHANGED <<listVars, status, replaced>>
-----------------------------------------------------------------------------
(* addPatch, before or after a setup.                                      *)
AddPatch(c, s) ==
  /\ step = "idle"
  /\ Load(c, s)
  /\ step' = "added" /\ pos' = count + 1 /\ done' = {}
  /\ UNCHANGED <<setuped, replaced>>

(* Its init fails or is for another process: the patch stays Loaded.       *)
AddRefused ==
  /\ step = "added"
  /\ Return
  /\ UNCHANGED <<setuped, listVars, status, replaced>>

(* Or it succeeds; the loop over getPatchClasses(), which is null (nothing *)
(* assigns mPatchClasses), then throws, and the patch stays Inited.        *)
AddInited ==
  /\ step = "added"
  /\ Applies(pos)
  /\ status' = [status EXCEPT ![pos] = "Inited"]
  /\ Return
  /\ UNCHANGED <<setuped, listVars, replaced>>
-----------------------------------------------------------------------------
Next ==
  \/ Setup
  \/ InitPatch \/ InitFails \/ InitSkips \/ InitEnds
  \/ \E m \in Methods : Replace(m)
  \/ PatchFixed \/ ApplySkips \/ ApplyFails \/ SetupDone
  \/ \E c \in {"dex", "jar"}, s \in Contents : AddPatch(c, s)
  \/ AddRefused \/ AddInited

Spec == Init /\ [][Next]_vars
-----------------------------------------------------------------------------
(* The type invariant; a call's position is on the list or just after it.  *)
TypeOK ==
  /\ inServer \in BOOLEAN
  /\ setuped \in BOOLEAN
  /\ count \in 0..MaxPatches
  /\ kind \in [Slots -> {"dex", "jar"}]
  /\ fixes \in [Slots -> SUBSET Methods]
  /\ status \in [Slots -> {"Unloaded", "Loaded", "Inited", "Fixed"}]
  /\ replaced \in [Methods -> 0..count]
  /\ step \in {"idle", "init", "apply", "added"}
  /\ pos \in 0..(count + 1)
  /\ done \in SUBSET Methods

Patches == 1..count

(* A patch that says Fixed is in force: each of its methods runs its code  *)
(* or that of a later patch, even while a setup is tried again and earlier *)
(* patches are applied over later ones (Sedroid.java 155-201).             *)
FixedInForce ==
  \A k \in Patches : status[k] = "Fixed" => \A m \in fixes[k] : replaced[m] >= k

(* After a successful setup a method runs the code of the last patch that  *)
(* is Fixed and replaces it, whatever failed attempts left behind; code of *)
(* a patch that was only half applied is nowhere (Sedroid.java 77-117).    *)
LastFixedWins ==
  setuped => \A m \in Methods : LET k == replaced[m] IN
    /\ k # 0 => status[k] = "Fixed" /\ m \in fixes[k]
    /\ \A j \in Patches : status[j] = "Fixed" /\ m \in fixes[j] => j <= k

(* setup succeeds only if every patch before a Fixed one that concerns the *)
(* process is Fixed as well, those that addPatch had to leave Inited or    *)
(* Loaded included (lines 180-201).                                        *)
NoPatchLeftOut ==
  setuped => \A j, k \in Patches :
    j < k /\ status[k] = "Fixed" /\ Applies(j) => status[j] = "Fixed"

(* No method ever runs code of a patch that is for another process.        *)
ForeignUntouched ==
  \A m \in Methods : replaced[m] # 0 => Applies(replaced[m])
-----------------------------------------------------------------------------
(* The inductive invariant.  During the second pass the patches before pos *)
(* are Fixed and those from pos on Inited, so nothing that says Fixed can  *)
(* be overwritten by an earlier patch.                                     *)
PassInv ==
  /\ step = "init" => \A k \in Patches : k < pos /\ Applies(k) => status[k] = "Inited"
  /\ step = "apply" =>
       /\ \A k \in Patches : Applies(k) => status[k] = IF k < pos THEN "Fixed" ELSE "Inited"
       /\ pos > count => done = {}
       /\ \A m \in done : replaced[m] = pos
  /\ step \in {"init", "apply"} => ~setuped /\ pos >= 1
  /\ step = "added" => pos = count /\ status[pos] = "Loaded"

ListInv ==
  /\ \A k \in Patches : status[k] \in {"Inited", "Fixed"} => Applies(k)
  /\ \A m \in Methods : replaced[m] # 0 =>
       /\ m \in fixes[replaced[m]]
       /\ status[replaced[m]] \in {"Inited", "Fixed"}
       /\ setuped => status[replaced[m]] = "Fixed"

IInv == TypeOK /\ PassInv /\ ListInv /\ FixedInForce /\ NoPatchLeftOut
=============================================================================
