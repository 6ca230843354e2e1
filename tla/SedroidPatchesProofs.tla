------------------------- MODULE SedroidPatchesProofs -------------------------
(***************************************************************************)
(* Proofs about SedroidPatches, for any methods, contents of patches and   *)
(* length of the list: IInv is inductive, and the properties of the run    *)
(* follow from it.                                                         *)
(***************************************************************************)
EXTENDS SedroidPatches, TLAPS

USE ContentsAssumption, MaxPatchesAssumption DEF Slots, Patches, Applies, listVars, callVars

(* The initial state satisfies the inductive invariant.                    *)
LEMMA InitInv == Init => IInv
<1> SUFFICES ASSUME Init
             PROVE  IInv
    OBVIOUS
<1>1. inServer \in BOOLEAN /\ setuped \in BOOLEAN
  BY Zenon DEF Init
<1>2. TypeOK
  BY <1>1 DEF Init, TypeOK
<1>3. PassInv /\ ListInv /\ FixedInForce /\ NoPatchLeftOut
  BY DEF Init, PassInv, ListInv, FixedInForce, NoPatchLeftOut
<1> QED BY <1>2, <1>3 DEF IInv

(* Every step preserves it: one step per action, one part of the invariant *)
(* under each.                                                             *)
LEMMA NextInv == IInv /\ [Next]_vars => IInv'
<1> SUFFICES ASSUME IInv, [Next]_vars
             PROVE  IInv'
    OBVIOUS
<1> USE DEF IInv
<1>1. CASE Setup
  <2>1. TypeOK'
    BY <1>1 DEF Setup, Load, TypeOK
  <2>2. PassInv'
    BY <1>1 DEF Setup, Load, TypeOK, PassInv, ListInv
  <2>3. ListInv'
    BY <1>1 DEF Setup, Load, TypeOK, PassInv, ListInv
  <2>4. FixedInForce'
    BY <1>1 DEF Setup, Load, TypeOK, PassInv, FixedInForce, ListInv
  <2>5. NoPatchLeftOut'
    BY <1>1 DEF Setup, Load, TypeOK, PassInv, ListInv, NoPatchLeftOut
  <2> QED BY <2>1, <2>2, <2>3, <2>4, <2>5
<1>2. CASE InitPatch
  <2>1. TypeOK'
    <3>1. inServer' \in BOOLEAN /\ setuped' \in BOOLEAN
      BY <1>2, Zenon DEF InitPatch, TypeOK
    <3>2. UNCHANGED <<count, kind, fixes, replaced>>
      BY <1>2 DEF InitPatch
    <3>3. status' \in [Slots -> {"Unloaded", "Loaded", "Inited", "Fixed"}]
      BY <1>2 DEF InitPatch, TypeOK
    <3>4. step' \in {"idle", "init", "apply", "added"} /\ done' \in SUBSET Methods
      BY <1>2 DEF InitPatch, Return, TypeOK
    <3>5. pos' \in 0..(count + 1)
      BY <1>2 DEF InitPatch, Return, TypeOK
    <3> QED BY <3>1, <3>2, <3>3, <3>4, <3>5 DEF TypeOK
  <2>2. PassInv'
    BY <1>2 DEF InitPatch, TypeOK, PassInv, ListInv
  <2>3. ListInv'
    BY <1>2 DEF InitPatch, TypeOK, PassInv, ListInv
  <2>4. FixedInForce'
    BY <1>2 DEF InitPatch, TypeOK, PassInv, FixedInForce, ListInv
  <2>5. NoPatchLeftOut'
    BY <1>2 DEF InitPatch, TypeOK, PassInv, ListInv, NoPatchLeftOut
  <2> QED BY <2>1, <2>2, <2>3, <2>4, <2>5
<1>3. CASE InitFails
  <2>1. TypeOK'
    BY <1>3 DEF InitFails, Return, TypeOK
  <2>2. PassInv'
    BY <1>3 DEF InitFails, Return, TypeOK, PassInv, ListInv
  <2>3. ListInv'
    BY <1>3 DEF InitFails, Return, TypeOK, PassInv, ListInv
  <2>4. FixedInForce'
    BY <1>3 DEF InitFails, Return, TypeOK, PassInv, FixedInForce, ListInv
  <2>5. NoPatchLeftOut'
    BY <1>3 DEF InitFails, Return, TypeOK, PassInv, ListInv, NoPatchLeftOut
  <2> QED BY <2>1, <2>2, <2>3, <2>4, <2>5
<1>4. CASE InitSkips
  <2>1. TypeOK'
    BY <1>4 DEF InitSkips, TypeOK
  <2>2. PassInv'
    BY <1>4 DEF InitSkips, TypeOK, PassInv, ListInv
  <2>3. ListInv'
    BY <1>4 DEF InitSkips, TypeOK, PassInv, ListInv
  <2>4. FixedInForce'
    BY <1>4 DEF InitSkips, TypeOK, PassInv, FixedInForce, ListInv
  <2>5. NoPatchLeftOut'
    BY <1>4 DEF InitSkips, TypeOK, PassInv, ListInv, NoPatchLeftOut
  <2> QED BY <2>1, <2>2, <2>3, <2>4, <2>5
<1>5. CASE InitEnds
  <2>1. TypeOK'
    BY <1>5 DEF InitEnds, TypeOK
  <2>2. PassInv'
    BY <1>5 DEF InitEnds, TypeOK, PassInv, ListInv
  <2>3. ListInv'
    BY <1>5 DEF InitEnds, TypeOK, PassInv, ListInv
  <2>4. FixedInForce'
    BY <1>5 DEF InitEnds, TypeOK, PassInv, FixedInForce, ListInv
  <2>5. NoPatchLeftOut'
    BY <1>5 DEF InitEnds, TypeOK, PassInv, ListInv, NoPatchLeftOut
  <2> QED BY <2>1, <2>2, <2>3, <2>4, <2>5
<1>6. ASSUME NEW m \in Methods, Replace(m)
      PROVE  IInv'
  <2>1. TypeOK'
    BY <1>6 DEF Replace, TypeOK
  <2>2. PassInv'
    BY <1>6 DEF Replace, TypeOK, PassInv, ListInv
  <2>3. ListInv'
    BY <1>6 DEF Replace, TypeOK, PassInv, ListInv
  <2>4. FixedInForce'
    BY <1>6 DEF Replace, TypeOK, PassInv, FixedInForce, ListInv
  <2>5. NoPatchLeftOut'
    BY <1>6 DEF Replace, TypeOK, PassInv, ListInv, NoPatchLeftOut
  <2> QED BY <2>1, <2>2, <2>3, <2>4, <2>5
<1>7. CASE PatchFixed
  <2>1. TypeOK'
    <3>1. inServer' \in BOOLEAN /\ setuped' \in BOOLEAN
      BY <1>7, Zenon DEF PatchFixed, TypeOK
    <3>2. UNCHANGED <<count, kind, fixes, replaced>>
      BY <1>7 DEF PatchFixed
    <3>3. status' \in [Slots -> {"Unloaded", "Loaded", "Inited", "Fixed"}]
      BY <1>7 DEF PatchFixed, TypeOK
    <3>4. step' \in {"idle", "init", "apply", "added"} /\ done' \in SUBSET Methods
      BY <1>7 DEF PatchFixed, Return, TypeOK
    <3>5. pos' \in 0..(count + 1)
      BY <1>7 DEF PatchFixed, Return, TypeOK
    <3> QED BY <3>1, <3>2, <3>3, <3>4, <3>5 DEF TypeOK
  <2>2. PassInv'
    BY <1>7 DEF PatchFixed, TypeOK, PassInv, ListInv
  <2>3. ListInv'
    BY <1>7 DEF PatchFixed, TypeOK, PassInv, ListInv
  <2>4. FixedInForce'
    BY <1>7 DEF PatchFixed, TypeOK, PassInv, FixedInForce, ListInv
  <2>5. NoPatchLeftOut'
    BY <1>7 DEF PatchFixed, TypeOK, PassInv, ListInv, NoPatchLeftOut
  <2> QED BY <2>1, <2>2, <2>3, <2>4, <2>5
<1>8. CASE ApplySkips
  <2>1. TypeOK'
    BY <1>8 DEF ApplySkips, TypeOK
  <2>2. PassInv'
    <3>1. pos <= count /\ pos >= 1 /\ ~Applies(pos)
      BY <1>8 DEF ApplySkips, TypeOK, PassInv
    <3>2. done = {}
      BY <1>8, <3>1 DEF ApplySkips, TypeOK, PassInv, ListInv
    <3>3. UNCHANGED <<inServer, setuped, count, kind, status, replaced, step, done>>
      BY <1>8 DEF ApplySkips
    <3>4. step = "apply" /\ pos' = pos + 1
      BY <1>8 DEF ApplySkips
    <3> QED BY <3>1, <3>2, <3>3, <3>4 DEF TypeOK, PassInv
  <2>3. ListInv'
    BY <1>8 DEF ApplySkips, TypeOK, PassInv, ListInv
  <2>4. FixedInForce'
    BY <1>8 DEF ApplySkips, TypeOK, PassInv, FixedInForce, ListInv
  <2>5. NoPatchLeftOut'
    BY <1>8 DEF ApplySkips, TypeOK, PassInv, ListInv, NoPatchLeftOut
  <2> QED BY <2>1, <2>2, <2>3, <2>4, <2>5
<1>9. CASE ApplyFails
  <2>1. TypeOK'
    BY <1>9 DEF ApplyFails, Return, TypeOK
  <2>2. PassInv'
    BY <1>9 DEF ApplyFails, Return, TypeOK, PassInv, ListInv
  <2>3. ListInv'
    BY <1>9 DEF ApplyFails, Return, TypeOK, PassInv, ListInv
  <2>4. FixedInForce'
    BY <1>9 DEF ApplyFails, Return, TypeOK, PassInv, FixedInForce, ListInv
  <2>5. NoPatchLeftOut'
    BY <1>9 DEF ApplyFails, Return, TypeOK, PassInv, ListInv, NoPatchLeftOut
  <2> QED BY <2>1, <2>2, <2>3, <2>4, <2>5
<1>10. CASE SetupDone
  <2>1. TypeOK'
    BY <1>10 DEF SetupDone, Return, TypeOK
  <2>2. PassInv'
    BY <1>10 DEF SetupDone, Return, TypeOK, PassInv, ListInv
  <2>3. ListInv'
    BY <1>10 DEF SetupDone, Return, TypeOK, PassInv, ListInv
  <2>4. FixedInForce'
    BY <1>10 DEF SetupDone, Return, TypeOK, PassInv, FixedInForce, ListInv
  <2>5. NoPatchLeftOut'
    BY <1>10 DEF SetupDone, Return, TypeOK, PassInv, ListInv, NoPatchLeftOut
  <2> QED BY <2>1, <2>2, <2>3, <2>4, <2>5
<1>11. ASSUME NEW c \in {"dex", "jar"}, NEW s \in Contents, AddPatch(c, s)
      PROVE  IInv'
  <2>1. TypeOK'
    BY <1>11 DEF AddPatch, Load, TypeOK
  <2>2. PassInv'
    BY <1>11 DEF AddPatch, Load, TypeOK, PassInv, ListInv
  <2>3. ListInv'
    BY <1>11 DEF AddPatch, Load, TypeOK, PassInv, ListInv
  <2>4. FixedInForce'
    BY <1>11 DEF AddPatch, Load, TypeOK, PassInv, FixedInForce, ListInv
  <2>5. NoPatchLeftOut'
    BY <1>11 DEF AddPatch, Load, TypeOK, PassInv, ListInv, NoPatchLeftOut
  <2> QED BY <2>1, <2>2, <2>3, <2>4, <2>5
<1>12. CASE AddRefused
  <2>1. TypeOK'
    BY <1>12 DEF AddRefused, Return, TypeOK
  <2>2. PassInv'
    BY <1>12 DEF AddRefused, Return, TypeOK, PassInv, ListInv
  <2>3. ListInv'
    BY <1>12 DEF AddRefused, Return, TypeOK, PassInv, ListInv
  <2>4. FixedInForce'
    BY <1>12 DEF AddRefused, Return, TypeOK, PassInv, FixedInForce, ListInv
  <2>5. NoPatchLeftOut'
    BY <1>12 DEF AddRefused, Return, TypeOK, PassInv, ListInv, NoPatchLeftOut
  <2> QED BY <2>1, <2>2, <2>3, <2>4, <2>5
<1>13. CASE AddInited
  <2>1. TypeOK'
    <3>1. inServer' \in BOOLEAN /\ setuped' \in BOOLEAN
      BY <1>13, Zenon DEF AddInited, TypeOK
    <3>2. UNCHANGED <<count, kind, fixes, replaced>>
      BY <1>13 DEF AddInited
    <3>3. status' \in [Slots -> {"Unloaded", "Loaded", "Inited", "Fixed"}]
      BY <1>13 DEF AddInited, TypeOK
    <3>4. step' \in {"idle", "init", "apply", "added"} /\ done' \in SUBSET Methods
      BY <1>13 DEF AddInited, Return, TypeOK
    <3>5. pos' \in 0..(count + 1)
      BY <1>13 DEF AddInited, Return, TypeOK
    <3> QED BY <3>1, <3>2, <3>3, <3>4, <3>5 DEF TypeOK
  <2>2. PassInv'
    BY <1>13 DEF AddInited, Return, TypeOK, PassInv, ListInv
  <2>3. ListInv'
    BY <1>13 DEF AddInited, Return, TypeOK, PassInv, ListInv
  <2>4. FixedInForce'
    BY <1>13 DEF AddInited, Return, TypeOK, PassInv, FixedInForce, ListInv
  <2>5. NoPatchLeftOut'
    BY <1>13 DEF AddInited, Return, TypeOK, PassInv, ListInv, NoPatchLeftOut
  <2> QED BY <2>1, <2>2, <2>3, <2>4, <2>5
<1>14. CASE UNCHANGED vars
  <2>1. TypeOK'
    BY <1>14 DEF vars, TypeOK
  <2>2. PassInv'
    BY <1>14 DEF vars, TypeOK, PassInv, ListInv
  <2>3. ListInv'
    BY <1>14 DEF vars, TypeOK, PassInv, ListInv
  <2>4. FixedInForce'
    BY <1>14 DEF vars, TypeOK, PassInv, FixedInForce, ListInv
  <2>5. NoPatchLeftOut'
    BY <1>14 DEF vars, TypeOK, PassInv, ListInv, NoPatchLeftOut
  <2> QED BY <2>1, <2>2, <2>3, <2>4, <2>5
<1> QED BY <1>1, <1>2, <1>3, <1>4, <1>5, <1>6, <1>7, <1>8, <1>9, <1>10, <1>11, <1>12, <1>13, <1>14 DEF Next

(* Hence it holds in every reachable state.                                *)
THEOREM Inductive == Spec => []IInv
<1>1. Init => IInv
  BY InitInv
<1>2. IInv /\ [Next]_vars => IInv'
  BY NextInv
<1> QED BY <1>1, <1>2, PTL DEF Spec

(* The state has its type in every reachable state, for a list of any      *)
(* length (Sedroid.java 26-28, Patch.java 26-55).                          *)
THEOREM TypeCorrect == Spec => []TypeOK
<1>1. IInv => TypeOK
  BY DEF IInv
<1> QED BY <1>1, Inductive, PTL

(* A patch that says Fixed is in force for each of its methods, retries of *)
(* setup included (Sedroid.java 155-201).                                  *)
THEOREM FixedInForceAlways == Spec => []FixedInForce
<1>1. IInv => FixedInForce
  BY DEF IInv
<1> QED BY <1>1, Inductive, PTL

(* After a successful setup each method runs the code of the last Fixed    *)
(* patch that replaces it (Sedroid.java 77-117).                           *)
THEOREM LastFixedWinsAlways == Spec => []LastFixedWins
<1>1. IInv => LastFixedWins
  BY DEF IInv, TypeOK, ListInv, FixedInForce, LastFixedWins
<1> QED BY <1>1, Inductive, PTL

(* A successful setup has left out no patch of the process before a Fixed  *)
(* one (Sedroid.java 180-201).                                             *)
THEOREM NoPatchLeftOutAlways == Spec => []NoPatchLeftOut
<1>1. IInv => NoPatchLeftOut
  BY DEF IInv
<1> QED BY <1>1, Inductive, PTL

(* No method runs code of a patch for another process.                     *)
THEOREM ForeignUntouchedAlways == Spec => []ForeignUntouched
<1>1. IInv => ForeignUntouched
  BY DEF IInv, TypeOK, ListInv, ForeignUntouched
<1> QED BY <1>1, Inductive, PTL
=============================================================================
