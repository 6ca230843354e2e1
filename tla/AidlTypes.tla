------------------------------- MODULE AidlTypes -------------------------------
(***************************************************************************)
(* The types of the aidl compiler (aidl/Type.cpp).  A type knows whether   *)
(* it can be marshalled and the calls that the generated Java makes on a   *)
(* Parcel or an RpcData to do it.  A call is given by the format that it   *)
(* puts or takes: writeIntArray, createIntArray and readIntArray all use   *)
(* "IntArray", readHashMap takes a "Map", readArrayList a "List"; "none"   *)
(* means that the class leaves the method of Type in place, which reports  *)
(* an internal error and generates a comment instead of a call.  "none" is *)
(* also a package, a direction or a value that is not there.               *)
(***************************************************************************)
EXTENDS Integers, Sequences, SequencesExt

Calls(write, read, readInto, writeArray, createArray, readArray, put, get) ==
  [write |-> write, read |-> read, readInto |-> readInto, writeArray |-> writeArray,
   createArray |-> createArray, readArray |-> readArray, put |-> put, get |-> get]
NoCalls == Calls("none", "none", "none", "none", "none", "none", "none", "none")

(* form is how a value is laid out: "plain", "boolean" (as a number) or    *)
(* "nullable" (after a number that tells whether it is null).  canBeArray  *)
(* is what CanBeArray returns: FALSE but in the classes that override it.  *)
Type(package, name, kind, parcel, rpc, canBeOut, form, calls) ==
  [package |-> package, name |-> name, args |-> <<>>, kind |-> kind,
   canWriteToParcel |-> parcel, canWriteToRpcData |-> rpc, canBeOut |-> canBeOut,
   canBeArray |-> FALSE, creator |-> <<>>, rpcCreator |-> <<>>, instantiable |-> TRUE, loader |-> FALSE,
   oneway |-> FALSE, form |-> form, calls |-> calls]

NoType == Type("none", "none", "none", FALSE, FALSE, FALSE, "plain", NoCalls)

(* Type names as they are written: a package or "none", a name, and for a  *)
(* generic the names between < and >.                                      *)
Ref(package, name, args) == [package |-> package, name |-> name, args |-> args]
QualifiedName(t) == Ref(t.package, t.name, t.args)
CanBeArray(t) == t.canBeArray
Arrayed(t) == [t EXCEPT !.canBeArray = TRUE]

(* A class that is only named in generated code.                           *)
Internal(package, name) == Type(package, name, "builtin", FALSE, FALSE, FALSE, "plain", NoCalls)

BasicType(name, c) == Arrayed(Type("none", name, "builtin", TRUE, TRUE, FALSE, "plain", c))
Basic(name, f, a, r) == BasicType(name, Calls(f, f, "none", a, a, a, r, r))

(* Faulty: it is got from an RpcData as the number it is in a parcel.      *)
BooleanTypeAsInt ==
  Arrayed(Type("none", "boolean", "builtin", TRUE, TRUE, FALSE, "boolean",
               Calls("Int", "Int", "none", "BooleanArray", "BooleanArray", "BooleanArray", "Boolean", "Integer")))
BooleanType ==
  Arrayed(Type("none", "boolean", "builtin", TRUE, TRUE, FALSE, "boolean",
               Calls("Int", "Int", "none", "BooleanArray", "BooleanArray", "BooleanArray", "Boolean", "Boolean")))
CharType ==
  Arrayed(Type("none", "char", "builtin", TRUE, TRUE, FALSE, "plain",
               Calls("Int", "Int", "none", "CharArray", "CharArray", "CharArray", "Char", "Char")))
StringType ==
  [Type("java.lang", "String", "builtin", TRUE, TRUE, FALSE, "plain",
        Calls("String", "String", "none", "StringArray", "StringArray", "StringArray", "String", "String"))
   EXCEPT !.creator = <<"STRING_CREATOR">>, !.canBeArray = TRUE]
CharSequenceType ==
  [Type("java.lang", "CharSequence", "builtin", TRUE, TRUE, FALSE, "nullable",
        Calls("CharSequence", "CharSequence", "none", "none", "none", "none", "none", "none"))
   EXCEPT !.creator = <<"STRING_CREATOR">>]
(* It has the calls for arrays and does not override CanBeArray.           *)
IBinderType ==
  Type("android.os", "IBinder", "builtin", TRUE, FALSE, FALSE, "plain",
       Calls("StrongBinder", "StrongBinder", "none", "BinderArray", "BinderArray", "BinderArray", "none", "none"))
(* java.util.Map has no InstantiableName of its own, and cannot be made.   *)
MapType ==
  [Type("java.util", "Map", "builtin", TRUE, FALSE, TRUE, "plain",
        Calls("Map", "Map", "Map", "none", "none", "none", "none", "none"))
   EXCEPT !.instantiable = FALSE, !.loader = TRUE]
ListType ==
  [Type("java.util", "List", "builtin", TRUE, TRUE, TRUE, "plain",
        Calls("List", "List", "List", "none", "none", "none", "List", "List"))
   EXCEPT !.loader = TRUE]

UserDataType(package, name, builtIn, parcel, rpc) ==
  [Type(package, name, IF builtIn THEN "builtin" ELSE "userdata", parcel, rpc, TRUE, "nullable",
        Calls(name, name, name, "TypedArray", "TypedArray", "TypedArray", "Flattenable", "Flattenable"))
   EXCEPT !.creator = <<package, name, "CREATOR">>, !.rpcCreator = <<package, name, "RPC_CREATOR">>,
          !.canBeArray = TRUE]
RpcDataType ==
  [UserDataType("android.support.place.rpc", "RpcData", TRUE, TRUE, TRUE)
   EXCEPT !.calls.put = "RpcData", !.calls.get = "RpcData"]

InterfaceType(package, name, oneway) ==
  [Type(package, name, "interface", TRUE, FALSE, FALSE, "plain",
        Calls("StrongBinder", "StrongBinder", "none", "none", "none", "none", "none", "none"))
   EXCEPT !.oneway = oneway]

(* A list whose elements have no creator is written as one of binders:     *)
(* IBinder has none either.                                                *)
ListFormat(element) == CASE element.creator = StringType.creator -> "StringList"
                         [] element.creator = IBinderType.creator -> "BinderList"
                         [] OTHER -> "TypedList"
ListKey(element) == IF QualifiedName(element) = QualifiedName(RpcDataType) THEN "RpcDataList"
                    ELSE IF element.rpcCreator # <<>> THEN "FlattenableList" ELSE "List"
GenericListType(elements) ==
  LET f == ListFormat(elements[1])
      k == ListKey(elements[1])
  IN [Type("java.util", "List", "builtin", TRUE, TRUE, TRUE, "plain", Calls(f, f, f, "none", "none", "none", k, k))
      EXCEPT !.args = [i \in DOMAIN elements |-> QualifiedName(elements[i])],
             !.creator = <<"arrayListCreator">>]

(* getRpcDataList is generated with two arguments of which one is given.   *)
MissingArgument(t) == t.calls.get = "RpcDataList"

VoidType == BasicType("void", Calls("XXX", "XXX", "none", "XXX", "XXX", "XXX", "XXX", "XXX"))
EventType == Internal("none", "event")

(* Classes that generated code uses; no value of theirs is marshalled, as  *)
(* their flags say, though some have the calls for it.                     *)
Exceptions == <<Internal("android.os", "RemoteException"), Internal("java.lang", "RuntimeException")>>
Binders ==
  <<Internal("android.os", "IInterface"), Internal("android.os", "Binder"), Internal("android.os", "BinderProxy"),
    Internal("android.os", "Parcel"), Internal("android.os", "Parcelable")>>
(* These have the flags and not the calls.                                 *)
Writers == <<Type("java.io", "PrintWriter", "builtin", TRUE, TRUE, FALSE, "plain", NoCalls),
             Type("java.io", "StringWriter", "builtin", TRUE, TRUE, FALSE, "plain", NoCalls)>>

(* register_base_types, in its order; RpcError's flags are a file name and *)
(* a line number, which count as true.                                     *)
BaseTypes ==
  <<VoidType>> \o Writers
  \o <<Internal("java.io", "IOException"), BooleanType, Basic("byte", "Byte", "ByteArray", "Byte"), CharType,
       Basic("int", "Int", "IntArray", "Integer"), Basic("long", "Long", "LongArray", "Long"),
       Basic("float", "Float", "FloatArray", "Float"), Basic("double", "Double", "DoubleArray", "Double"),
       StringType, Internal("java.lang", "Object"), CharSequenceType, MapType, ListType, Internal("android.text", "TextUtils")>>
  \o Exceptions \o <<IBinderType>> \o Binders
  \o <<Internal("android.content", "Context"), RpcDataType,
       UserDataType("android.support.place.rpc", "RpcError", TRUE, TRUE, TRUE), EventType, Internal("java.lang", "ClassLoader")>>

-----------------------------------------------------------------------------
(* The namespace NAMES: a sequence of types.                               *)

(* The first of the types whose places are in S.                           *)
FirstAt(names, S) == IF S = {} THEN NoType ELSE names[Min(S)]
FindName(names, ref) ==
  FirstAt(names, {i \in DOMAIN names : names[i].name = ref.name /\ QualifiedName(names[i]) = ref})
(* What Add puts behind the names.                                         *)
Added(names, t) == IF FindName(names, QualifiedName(t)) = NoType THEN <<t>> ELSE <<>>

(* An exact match, or else the first type with that class name.            *)
SearchPlain(names, ref) ==
  LET exact == FindName(names, ref)
  IN IF exact # NoType THEN exact
     ELSE FirstAt(names, {i \in DOMAIN names : names[i].name = ref.name /\ ref.package = "none" /\ ref.args = <<>>})

GenericBase(ref) == ref.package \in {"none", "java.util"} /\ ref.name \in {"List", "Map"}

(* Search: a generic is made from the types its arguments name; only List  *)
(* can be (make_generic_type), with any number of arguments.  That it is   *)
(* added to the names is left out: it is found there as it is made here.   *)
Search(names, ref) ==
  LET plain == SearchPlain(names, ref)
      elements == [i \in DOMAIN ref.args |-> SearchPlain(names, ref.args[i])]
  IN IF plain # NoType \/ ref.args = <<>> \/ ~GenericBase(ref) \/ ref.name # "List"
          \/ NoType \in {elements[i] : i \in DOMAIN elements}
     THEN plain ELSE GenericListType(elements)

-----------------------------------------------------------------------------
(* What the generated calls do to a parcel, which is a sequence of items.  *)

Item(format, value) == [format |-> format, value |-> value]
Taken(ok, value, rest) == [ok |-> ok, value |-> value, rest |-> rest]
(* A parcel at its end gives the number 0, a null or no elements.          *)
Take(parcel, format) ==
  CASE parcel = <<>> -> Taken(FALSE, IF format = "Int" THEN "0" ELSE "nothing", parcel)
    [] OTHER -> Taken(Head(parcel).format = format, Head(parcel).value, Tail(parcel))

(* WriteToParcel and WriteArrayToParcel.                                   *)
Write(t, dimension, v) ==
  IF dimension = 1 THEN <<Item(t.calls.writeArray, v)>> ELSE
  CASE t.form = "boolean" -> <<Item(t.calls.write, IF v = "true" THEN "1" ELSE "0")>>
    [] t.form = "nullable" -> IF v # "null" THEN <<Item("Int", "1"), Item(t.calls.write, v)>> ELSE <<Item("Int", "0")>>
    [] OTHER -> <<Item(t.calls.write, v)>>

(* CreateFromParcel and CreateArrayFromParcel.                             *)
Create(t, dimension, parcel) ==
  LET first == Take(parcel, "Int") IN
  IF dimension = 1 THEN Take(parcel, t.calls.createArray) ELSE
  CASE t.form = "boolean" -> Taken(first.ok, IF first.value # "0" THEN "true" ELSE "false", first.rest)
    [] t.form = "nullable" -> IF first.value = "0" THEN Taken(first.ok, "null", first.rest)
                              ELSE [Take(first.rest, t.calls.read) EXCEPT !.ok = @ /\ first.ok]
    [] OTHER -> Take(parcel, t.calls.read)

(* ReadFromParcel and ReadArrayFromParcel: into v, the caller's object.  A *)
(* null user object stays as it is when the parcel holds a null.           *)
ReadInto(t, dimension, v, parcel) ==
  LET first == Take(parcel, "Int")
  IN IF dimension = 1 THEN Take(parcel, t.calls.readArray)
     ELSE IF t.form # "nullable" THEN Take(parcel, t.calls.readInto)
     ELSE IF first.value = "0" THEN Taken(first.ok, v, first.rest)
     ELSE [Take(first.rest, t.calls.readInto) EXCEPT !.ok = @ /\ first.ok]
(* Such a read follows v: into a null it ends with an exception, and into  *)
(* an array that has another length than what is there.                    *)
ReadThrows(t, dimension, v, parcel) ==
  \/ v = "null" /\ ~(dimension = 0 /\ t.form = "nullable" /\ Take(parcel, "Int").value = "0")
  \/ dimension = 1 /\ parcel = <<>>
=============================================================================
