------------------------------ MODULE AidlProofs ------------------------------
(***************************************************************************)
(* What the compiler and the code that it generates keep for any files,    *)
(* command lines and calls: what is accepted can be marshalled and told    *)
(* apart, what is marshalled is read as it was written, and what is left   *)
(* in a file names where it comes from.  There are five inductive          *)
(* invariants: one for the compiler and, standing on it, one for each kind *)
(* of generated code, one for the sources of lines and types, and on that  *)
(* one for what files say of each other.                                   *)
(***************************************************************************)
EXTENDS Aidl, SequenceTheorems, WellFoundedInduction, TLAPS

-----------------------------------------------------------------------------
(* Numbers and sequences.                                                  *)

(* Every set of numbers that is not empty has a least.                     *)
LEMMA LeastNumber ==
  ASSUME NEW T, T \subseteq Nat, T # {}
  PROVE  \E x \in T : \A y \in T : x <= y
<1> DEFINE R == OpToRel(<, Nat)
<1>1. \E x \in T : \A y \in T : ~ (<<y, x>> \in R)
  <2> HIDE DEF R
  <2>1. IsWellFoundedOn(R, Nat)
    BY NatLessThanWellFounded DEF R
  <2> QED
    BY <2>1, WFMin
<1>2. \A x, y \in Nat : <<y, x>> \in R <=> y < x
  BY DEF OpToRel
<1> HIDE DEF R
<1>3. PICK x \in T : \A y \in T : ~ (<<y, x>> \in R)
  BY <1>1
<1>4. ASSUME NEW y \in T PROVE x <= y
  <2>1. x \in Nat /\ y \in Nat
    OBVIOUS
  <2>2. ~ (y < x)
    BY <1>2, <1>3, <2>1
  <2> QED
    BY <2>1, <2>2
<1> QED
  BY <1>4

(* What holds of 0, and of n + 1 when it holds of n, holds of every number.*)
LEMMA Induct ==
  ASSUME NEW T, 0 \in T, \A n \in Nat : n \in T => n + 1 \in T
  PROVE  Nat \subseteq T
<1> SUFFICES ASSUME Nat \ T # {} PROVE FALSE
  OBVIOUS
<1>1. PICK x \in Nat \ T : \A y \in Nat \ T : x <= y
  <2>1. Nat \ T \subseteq Nat
    OBVIOUS
  <2> QED
    BY <2>1, LeastNumber
<1>2. x # 0 /\ x - 1 \in Nat /\ x - 1 \in T
  BY <1>1
<1> QED
  BY <1>1, <1>2

(* s is a sequence, of whatever.                                           *)
IsSeq(s) == s \in Seq(ToSet(s))

(* A sequence of elements of S is a function on 1 .. n, with its values in *)
(* S.                                                                      *)
LEMMA SeqIsSeq ==
  ASSUME NEW S, NEW s \in Seq(S)
  PROVE  IsSeq(s) /\ ToSet(s) \subseteq S
<1>1. s \in [1 .. Len(s) -> S] /\ Len(s) \in Nat
  BY LenProperties
<1>2. ToSet(s) \subseteq S
  BY <1>1 DEF ToSet
<1>3. s \in [1 .. Len(s) -> ToSet(s)]
  BY <1>1 DEF ToSet
<1>4. s \in Seq(ToSet(s))
  BY <1>1, <1>3, SeqDef
<1> QED
  BY <1>2, <1>4 DEF IsSeq

(* A function on 1 .. n is a sequence of its values.                       *)
LEMMA IsSeqOf ==
  ASSUME NEW s, IsSeq(s), NEW S, ToSet(s) \subseteq S
  PROVE  s \in Seq(S) /\ DOMAIN s = 1 .. Len(s) /\ Len(s) \in Nat
BY LenProperties, SeqMonotonic DEF IsSeq

(* Two sequences one behind the other.                                     *)
LEMMA Joined ==
  ASSUME NEW s, NEW t, IsSeq(s), IsSeq(t)
  PROVE  /\ IsSeq(s \o t)
         /\ ToSet(s \o t) \subseteq ToSet(s) \cup ToSet(t)
<1> DEFINE S == ToSet(s) \cup ToSet(t)
<1>1. s \in Seq(S) /\ t \in Seq(S)
  BY IsSeqOf
<1> HIDE DEF S
<1>2. s \o t \in Seq(S)
  BY <1>1, ConcatProperties
<1> QED
  BY <1>2, SeqIsSeq DEF S

(* A sequence whose elements are exchanged one by one.                     *)
LEMMA Mapped ==
  ASSUME NEW s, NEW t, IsSeq(s), DOMAIN t = DOMAIN s, t = [i \in DOMAIN s |-> t[i]]
  PROVE  IsSeq(t)
<1>1. DOMAIN s = 1 .. Len(s) /\ Len(s) \in Nat
  BY IsSeqOf
<1>2. t \in [1 .. Len(s) -> ToSet(t)]
  BY <1>1 DEF ToSet
<1>3. t \in Seq(ToSet(t))
  BY <1>1, <1>2, SeqDef
<1> QED
  BY <1>3 DEF IsSeq

(* The empty sequence, and a sequence of one.                              *)
LEMMA SmallSeqs ==
  /\ IsSeq(<<>>) /\ ToSet(<<>>) = {}
  /\ \A x : IsSeq(<<x>>) /\ ToSet(<<x>>) = {x}
<1>1. IsSeq(<<>>) /\ ToSet(<<>>) = {}
  <2>1. ToSet(<<>>) = {}
    BY DEF ToSet
  <2> QED
    BY <2>1 DEF IsSeq
<1>2. ASSUME NEW x PROVE IsSeq(<<x>>) /\ ToSet(<<x>>) = {x}
  <2>1. ToSet(<<x>>) = {x}
    BY DEF ToSet
  <2>2. <<x>> \in Seq({x})
    OBVIOUS
  <2> QED
    BY <2>1, <2>2 DEF IsSeq
<1> QED
  BY <1>1, <1>2

-----------------------------------------------------------------------------
(* The types.  What writes a value and what reads it use the same format,  *)
(* and a class has the calls that its flags promise, but for the known     *)
(* gaps.                                                                   *)

(* What t is read with is what it is written with, alone, in an array and  *)
(* as a map entry.                                                         *)
Paired(t) ==
  /\ t.calls.read = t.calls.write
  /\ t.calls.readInto \in {"none", t.calls.write} /\ "readInto" \in DOMAIN t.calls
  /\ t.calls.createArray = t.calls.writeArray
  /\ t.calls.readArray = t.calls.writeArray
  /\ t.calls.get = t.calls.put
  /\ t.form \in {"plain", "boolean", "nullable"}
  /\ t.form = "boolean" => t.package = "none" /\ t.calls.write = "Int" /\ t.calls.readInto = "none"

(* Where a flag of t promises a call, the class has it, but for the known  *)
(* gaps.                                                                   *)
Covered(t) ==
  /\ t.canWriteToParcel /\ QualifiedName(t) \notin Unmarshalled("interface") => t.calls.write # "none"
  /\ t.canWriteToRpcData /\ QualifiedName(t) \notin Unmarshalled("rpc") => t.calls.put # "none"
  /\ t.canBeOut => t.calls.readInto # "none"
  /\ CanBeArray(t) => t.calls.writeArray # "none"

Kinds4 == {"builtin", "userdata", "interface", "generated"}
Good(t) == Paired(t) /\ Covered(t) /\ t.kind \in Kinds4

(* The calls of a type, by name.                                           *)
LEMMA CallsFields ==
  ASSUME NEW a, NEW b, NEW c, NEW d, NEW e, NEW f, NEW g, NEW h
  PROVE  LET k == Calls(a, b, c, d, e, f, g, h)
         IN /\ k.write = a /\ k.read = b /\ k.readInto = c /\ k.writeArray = d
            /\ k.createArray = e /\ k.readArray = f /\ k.put = g /\ k.get = h
            /\ "readInto" \in DOMAIN k
BY DEF Calls

(* The fields of a type, by name.                                          *)
LEMMA TypeFields ==
  ASSUME NEW p, NEW n, NEW k, NEW x, NEW y, NEW z, NEW f, NEW c
  PROVE  LET t == Type(p, n, k, x, y, z, f, c)
         IN /\ t.package = p /\ t.name = n /\ t.kind = k /\ t.canWriteToParcel = x /\ t.canWriteToRpcData = y
            /\ t.canBeOut = z /\ t.form = f /\ t.calls = c /\ t.args = <<>> /\ t.canBeArray = FALSE
BY DEF Type

(* A class that the generator only names has no calls and promises none.   *)
LEMMA InternalGood ==
  ASSUME NEW p, NEW n
  PROVE  Good(Internal(p, n)) /\ Good([Internal(p, n) EXCEPT !.kind = "generated"])
<1>1. ASSUME NEW t, t.kind \in Kinds4, t.calls = NoCalls, t.form = "plain",
             ~ t.canWriteToParcel, ~ t.canWriteToRpcData, ~ t.canBeOut, ~ t.canBeArray
      PROVE  Good(t)
  <2>1. Paired(t)
    BY <1>1, CallsFields DEF Paired, NoCalls
  <2> QED
    BY <1>1, <2>1 DEF Good, Covered, CanBeArray
<1> DEFINE t == Internal(p, n)
           u == [Internal(p, n) EXCEPT !.kind = "generated"]
<1>2. /\ t.kind = "builtin" /\ t.calls = NoCalls /\ t.form = "plain"
      /\ ~ t.canWriteToParcel /\ ~ t.canWriteToRpcData /\ ~ t.canBeOut /\ ~ t.canBeArray
  BY DEF Internal, Type
<1>3. /\ u.kind = "generated" /\ u.calls = NoCalls /\ u.form = "plain"
      /\ ~ u.canWriteToParcel /\ ~ u.canWriteToRpcData /\ ~ u.canBeOut /\ ~ u.canBeArray
  BY DEF Internal, Type
<1> HIDE DEF t, u
<1>4. t.kind \in Kinds4 /\ u.kind \in Kinds4
  BY <1>2, <1>3 DEF Kinds4
<1>5. Good(t) /\ Good(u)
  BY <1>1, <1>2, <1>3, <1>4
<1> QED
  BY <1>5 DEF t, u

(* The types of Java, written by the format f and by arrays of a.          *)
LEMMA BasicGood ==
  ASSUME NEW n, NEW f, NEW a, NEW r, f # "none", a # "none", r # "none"
  PROVE  Good(Basic(n, f, a, r))
BY DEF Good, Paired, Covered, CanBeArray, Basic, BasicType, Arrayed, Kinds4, Type, Calls

(* A class that a parcelable declares.                                     *)
LEMMA UserDataGood ==
  ASSUME NEW p, NEW n, NEW b, NEW x, NEW y, n # "none"
  PROVE  Good(UserDataType(p, n, b, x, y))
<1> DEFINE c == Calls(n, n, n, "TypedArray", "TypedArray", "TypedArray", "Flattenable", "Flattenable")
           t == Type(p, n, IF b THEN "builtin" ELSE "userdata", x, y, TRUE, "nullable", c)
           u == UserDataType(p, n, b, x, y)
<1>1. /\ u.package = t.package /\ u.kind = t.kind /\ u.calls = t.calls /\ u.form = t.form
      /\ u.canBeOut = t.canBeOut
  BY DEF UserDataType, Type
<1>2. u.calls = c /\ u.form = "nullable" /\ u.kind \in Kinds4
  BY <1>1 DEF Kinds4, Type
<1>3. /\ u.calls.write = n /\ u.calls.read = n /\ u.calls.readInto = n /\ u.calls.put = "Flattenable" /\ u.calls.get = "Flattenable"
      /\ u.calls.writeArray = "TypedArray" /\ u.calls.createArray = "TypedArray" /\ u.calls.readArray = "TypedArray"
      /\ "readInto" \in DOMAIN u.calls
  BY <1>2, CallsFields
<1> QED
  <2> HIDE DEF u
  <2>1. Paired(u)
    BY <1>2, <1>3 DEF Paired
  <2>2. Covered(u)
    BY <1>3, n # "none" DEF Covered, CanBeArray
  <2> QED
    BY <1>2, <2>1, <2>2 DEF Good, u

(* An interface, which goes as its binder.                                 *)
LEMMA InterfaceGood ==
  ASSUME NEW p, NEW n, NEW o
  PROVE  Good(InterfaceType(p, n, o))
<1> DEFINE u == InterfaceType(p, n, o)
           c == Calls("StrongBinder", "StrongBinder", "none", "none", "none", "none", "none", "none")
<1>1. /\ u.kind = "interface" /\ u.calls = c /\ u.form = "plain"
      /\ u.canBeOut = FALSE /\ u.canWriteToRpcData = FALSE /\ u.canBeArray = FALSE
  BY DEF InterfaceType, Type
<1> HIDE DEF u
<1>2. Paired(u)
  BY <1>1, CallsFields DEF Paired
<1>3. Covered(u)
  BY <1>1, CallsFields DEF Covered, CanBeArray
<1> QED
  BY <1>1, <1>2, <1>3 DEF Good, u, Kinds4

(* NULL in place of a type makes no calls at all.                          *)
LEMMA NoTypePaired == Paired(NoType)
BY DEF NoType, Paired, NoCalls, Type, Calls

(* A list of some type.                                                    *)
LEMMA GenericGood ==
  ASSUME NEW elements
  PROVE  Good(GenericListType(elements))
<1> DEFINE f == ListFormat(elements[1])
           k == ListKey(elements[1])
           c == Calls(f, f, f, "none", "none", "none", k, k)
           u == GenericListType(elements)
<1>1. /\ u.kind = "builtin" /\ u.calls = c /\ u.form = "plain" /\ u.canBeArray = FALSE
  BY DEF GenericListType, Type
<1>2. f # "none"
  BY DEF ListFormat
<1>3. k # "none"
  BY DEF ListKey
<1> HIDE DEF u, f, k
<1>4. Paired(u)
  BY <1>1, CallsFields DEF Paired
<1>5. Covered(u)
  BY <1>1, <1>2, <1>3, CallsFields DEF Covered, CanBeArray
<1> QED
  BY <1>1, <1>4, <1>5 DEF Good, u, Kinds4

(* A namespace of good types.                                              *)
AllGood(s) == IsSeq(s) /\ \A t \in ToSet(s) : Good(t)

(* Two namespaces one behind the other.                                    *)
LEMMA AllGoodJoined ==
  ASSUME NEW s, NEW t, AllGood(s), AllGood(t)
  PROVE  AllGood(s \o t)
BY Joined DEF AllGood

(* An empty namespace, and one of a single type.                           *)
LEMMA AllGoodSmall ==
  /\ AllGood(<<>>)
  /\ \A t : Good(t) => AllGood(<<t>>)
BY SmallSeqs DEF AllGood

(* A sequence of types that are all good.                                  *)
LEMMA AllGoodTuple ==
  ASSUME NEW S, NEW s \in Seq(S), \A t \in S : Good(t)
  PROVE  AllGood(s)
BY SeqIsSeq DEF AllGood

(* The tuples that the model writes out: two and five types.               *)
LEMMA TuplesGood ==
  /\ \A a, b : Good(a) /\ Good(b) => AllGood(<<a, b>>)
  /\ \A a, b, c, d, e : Good(a) /\ Good(b) /\ Good(c) /\ Good(d) /\ Good(e) => AllGood(<<a, b, c, d, e>>)
<1>1. ASSUME NEW a, NEW b, Good(a), Good(b) PROVE AllGood(<<a, b>>)
  <2> DEFINE S == {a, b}
  <2>1. <<a, b>> \in Seq(S)
    OBVIOUS
  <2>2. \A t \in S : Good(t)
    BY <1>1
  <2> HIDE DEF S
  <2> QED
    BY <2>1, <2>2, AllGoodTuple
<1>2. ASSUME NEW a, NEW b, NEW c, NEW d, NEW e, Good(a), Good(b), Good(c), Good(d), Good(e)
      PROVE  AllGood(<<a, b, c, d, e>>)
  <2> DEFINE S == {a, b, c, d, e}
  <2>1. <<a, b, c, d, e>> \in Seq(S)
    OBVIOUS
  <2>2. \A t \in S : Good(t)
    BY <1>2
  <2> HIDE DEF S
  <2> QED
    BY <2>1, <2>2, AllGoodTuple
<1> QED
  BY <1>1, <1>2

(* And fourteen of them.                                                   *)
LEMMA TupleGood14 ==
  ASSUME NEW a, NEW b, NEW c, NEW d, NEW e, NEW f, NEW g, NEW h, NEW i, NEW j, NEW k, NEW l, NEW m, NEW n,
         Good(a), Good(b), Good(c), Good(d), Good(e), Good(f), Good(g), Good(h), Good(i), Good(j), Good(k), Good(l), Good(m), Good(n)
  PROVE  AllGood(<<a, b, c, d, e, f, g, h, i, j, k, l, m, n>>)
<1> DEFINE S == {a, b, c, d, e, f, g, h, i, j, k, l, m, n}
<1>1. <<a, b, c, d, e, f, g, h, i, j, k, l, m, n>> \in Seq(S)
  OBVIOUS
<1>2. \A t \in S : Good(t)
  OBVIOUS
<1> HIDE DEF S
<1> QED
  BY <1>1, <1>2, AllGoodTuple

(* register_base_types() registers good types only.                        *)
LEMMA BaseTypesGood == AllGood(BaseTypes)
<1>1. Good(VoidType)
  BY DEF Good, Paired, Covered, CanBeArray, VoidType, BasicType, Arrayed, Kinds4, Type, Calls
<1>2. Good(BooleanType)
  BY DEF Good, Paired, Covered, CanBeArray, BooleanType, Arrayed, Kinds4, Type, Calls
<1>3. Good(CharType)
  BY DEF Good, Paired, Covered, CanBeArray, CharType, Arrayed, Kinds4, Type, Calls
<1>4. Good(StringType)
  BY DEF Good, Paired, Covered, CanBeArray, StringType, Kinds4, Type, Calls
<1>5. Good(CharSequenceType)
  <2>1. CharSequenceType.calls.put = "none" /\ CharSequenceType.calls.write = "CharSequence"
    BY DEF CharSequenceType, Type, Calls
  <2>2. QualifiedName(CharSequenceType) \in Unmarshalled("rpc")
    BY DEF Unmarshalled
  <2>3. CharSequenceType.canBeOut = FALSE /\ CharSequenceType.canBeArray = FALSE
    BY DEF CharSequenceType, Type
  <2>4. Paired(CharSequenceType) /\ CharSequenceType.kind \in Kinds4
    BY DEF Paired, CharSequenceType, Kinds4, Type, Calls
  <2> QED
    BY <2>1, <2>2, <2>3, <2>4 DEF Good, Covered, CanBeArray
<1>6. Good(IBinderType)
  BY DEF Good, Paired, Covered, CanBeArray, IBinderType, Kinds4, Type, Calls
<1>7. Good(MapType) /\ Good(ListType)
  BY DEF Good, Paired, Covered, CanBeArray, MapType, ListType, Kinds4, Type, Calls
<1>8. Good(RpcDataType)
  <2> DEFINE u == UserDataType("android.support.place.rpc", "RpcData", TRUE, TRUE, TRUE)
             r == RpcDataType
  <2>1. /\ r.package = u.package /\ r.name = u.name /\ r.args = u.args /\ r.kind = u.kind /\ r.form = u.form
        /\ r.canBeOut = u.canBeOut
    BY DEF RpcDataType, UserDataType, Type
  <2>2. /\ u.kind = "builtin" /\ u.form = "nullable"
        /\ u.calls.write = "RpcData" /\ u.calls.read = "RpcData" /\ u.calls.readInto = "RpcData"
        /\ u.calls.writeArray = "TypedArray" /\ u.calls.createArray = "TypedArray" /\ u.calls.readArray = "TypedArray"
    BY DEF UserDataType, Type, Calls
  <2>3. /\ r.calls.write = u.calls.write /\ r.calls.read = u.calls.read /\ r.calls.readInto = u.calls.readInto
        /\ r.calls.writeArray = u.calls.writeArray /\ r.calls.createArray = u.calls.createArray
        /\ r.calls.readArray = u.calls.readArray /\ r.calls.put = "RpcData" /\ r.calls.get = "RpcData"
        /\ "readInto" \in DOMAIN r.calls
    <3> DEFINE k == Calls("RpcData", "RpcData", "RpcData", "TypedArray", "TypedArray", "TypedArray", "Flattenable", "Flattenable")
               l == [k EXCEPT !.put = "RpcData", !.get = "RpcData"]
    <3>1. r.calls = l /\ u.calls = k
      <4> HIDE DEF k
      <4>1. u.calls = k /\ "calls" \in DOMAIN u
        BY DEF UserDataType, Type, k
      <4> HIDE DEF u
      <4>2. r.calls = [[u.calls EXCEPT !.put = "RpcData"] EXCEPT !.get = "RpcData"]
        BY <4>1 DEF RpcDataType, u
      <4> QED
        BY <4>1, <4>2
    <3>2. /\ l.write = k.write /\ l.read = k.read /\ l.readInto = k.readInto
          /\ l.writeArray = k.writeArray /\ l.createArray = k.createArray
          /\ l.readArray = k.readArray /\ l.put = "RpcData" /\ l.get = "RpcData"
          /\ "readInto" \in DOMAIN l
      BY DEF Calls
    <3> QED
      BY <3>1, <3>2
  <2> HIDE DEF u, r
  <2>4. Paired(r) /\ r.kind \in Kinds4
    BY <2>1, <2>2, <2>3 DEF Paired, Kinds4
  <2>5. Covered(r)
    <3>1. r.calls.write # "none" /\ r.calls.put # "none" /\ r.calls.readInto # "none" /\ r.calls.writeArray # "none"
      BY <2>2, <2>3
    <3> QED
      BY <3>1 DEF Covered
  <2> QED
    BY <2>4, <2>5 DEF Good, r
<1>9. ASSUME NEW n \in {"PrintWriter", "StringWriter"}
      PROVE  Good(Type("java.io", n, "builtin", TRUE, TRUE, FALSE, "plain", NoCalls))
  <2> DEFINE t == Type("java.io", n, "builtin", TRUE, TRUE, FALSE, "plain", NoCalls)
  <2>1. /\ t.package = "java.io" /\ t.name = n /\ t.args = <<>> /\ t.kind = "builtin" /\ t.form = "plain" /\ t.calls = NoCalls
        /\ ~ t.canBeOut /\ ~ t.canBeArray
    BY DEF Type
  <2> HIDE DEF t
  <2>2. \A k : QualifiedName(t) \in Unmarshalled(k)
    BY <2>1 DEF Unmarshalled, QualifiedName
  <2>3. Paired(t) /\ t.kind \in Kinds4
    BY <2>1, CallsFields DEF Paired, NoCalls, Kinds4
  <2> QED
    BY <2>1, <2>2, <2>3 DEF Good, Covered, CanBeArray, t
<1>10. Good(UserDataType("android.support.place.rpc", "RpcError", TRUE, TRUE, TRUE)) /\ Good(EventType)
  BY UserDataGood, InternalGood DEF EventType
<1>11. AllGood(<<VoidType>>) /\ AllGood(<<IBinderType>>)
  BY <1>1, <1>6, AllGoodSmall
<1>12. AllGood(Writers)
  BY <1>9, TuplesGood DEF Writers
<1>13. AllGood(Exceptions)
  BY InternalGood, TuplesGood DEF Exceptions
<1>14. AllGood(Binders)
  <2>1. \A n : Good(Internal("android.os", n))
    BY InternalGood
  <2> QED
    BY <2>1, TuplesGood DEF Binders
<1> DEFINE first == <<Internal("java.io", "IOException"), BooleanType, Basic("byte", "Byte", "ByteArray", "Byte"), CharType,
                      Basic("int", "Int", "IntArray", "Integer"), Basic("long", "Long", "LongArray", "Long"),
                      Basic("float", "Float", "FloatArray", "Float"), Basic("double", "Double", "DoubleArray", "Double"),
                      StringType, Internal("java.lang", "Object"), CharSequenceType, MapType, ListType, Internal("android.text", "TextUtils")>>
           last5 == <<Internal("android.content", "Context"), RpcDataType,
                      UserDataType("android.support.place.rpc", "RpcError", TRUE, TRUE, TRUE), EventType, Internal("java.lang", "ClassLoader")>>
<1>15. AllGood(first)
  <2>1. \A p, n : Good(Internal(p, n))
    BY InternalGood
  <2>2. /\ Good(Basic("byte", "Byte", "ByteArray", "Byte")) /\ Good(Basic("int", "Int", "IntArray", "Integer"))
        /\ Good(Basic("long", "Long", "LongArray", "Long")) /\ Good(Basic("float", "Float", "FloatArray", "Float"))
        /\ Good(Basic("double", "Double", "DoubleArray", "Double"))
    BY BasicGood
  <2> QED
    BY <2>1, <2>2, <1>2, <1>3, <1>4, <1>5, <1>7, TupleGood14
<1>16. AllGood(last5)
  <2>1. Good(Internal("android.content", "Context")) /\ Good(Internal("java.lang", "ClassLoader"))
    BY InternalGood
  <2> QED
    BY <2>1, <1>8, <1>10, TuplesGood
<1> HIDE DEF first, last5
<1> DEFINE part1 == <<VoidType>> \o Writers
           part2 == part1 \o first
           part3 == part2 \o Exceptions
           part4 == part3 \o <<IBinderType>>
           part5 == part4 \o Binders
<1>17. AllGood(part1)
  BY <1>11, <1>12, AllGoodJoined
<1>18. AllGood(part2)
  <2> HIDE DEF part1
  <2> QED
    BY <1>17, <1>15, AllGoodJoined
<1>19. AllGood(part3)
  <2> HIDE DEF part2
  <2> QED
    BY <1>18, <1>13, AllGoodJoined
<1>20. AllGood(part4)
  <2> HIDE DEF part3
  <2> QED
    BY <1>19, <1>11, AllGoodJoined
<1>21. AllGood(part5)
  <2> HIDE DEF part4
  <2> QED
    BY <1>20, <1>14, AllGoodJoined
<1>22. AllGood(part5 \o last5)
  <2> HIDE DEF part5
  <2> QED
    BY <1>21, <1>16, AllGoodJoined
<1> QED
  BY <1>22 DEF BaseTypes, first, last5

-----------------------------------------------------------------------------
(* The namespace: what is found there is good, and what is gathered is.    *)

(* The least of a set of numbers is one of them.                           *)
LEMMA MinIsThere ==
  ASSUME NEW S, S \subseteq Nat, S # {}
  PROVE  Min(S) \in S
BY LeastNumber DEF Min

(* The first of some places holds a good type, if there is one.            *)
LEMMA FirstAtGood ==
  ASSUME NEW known, AllGood(known), NEW S, S \subseteq DOMAIN known
  PROVE  FirstAt(known, S) = NoType \/ Good(FirstAt(known, S))
<1>1. CASE S = {}
  BY <1>1 DEF FirstAt
<1>2. CASE S # {}
  <2>1. DOMAIN known = 1 .. Len(known) /\ Len(known) \in Nat
    BY IsSeqOf DEF AllGood
  <2>2. S \subseteq Nat
    BY <2>1
  <2>3. Min(S) \in DOMAIN known
    BY <1>2, <2>2, MinIsThere
  <2>4. known[Min(S)] \in ToSet(known)
    BY <2>3 DEF ToSet
  <2> QED
    BY <1>2, <2>4 DEF FirstAt, AllGood
<1> QED
  BY <1>1, <1>2

(* Namespace::Find, of a name that is no generic type.                     *)
LEMMA SearchPlainGood ==
  ASSUME NEW known, AllGood(known), NEW ref
  PROVE  SearchPlain(known, ref) = NoType \/ Good(SearchPlain(known, ref))
<1>1. FindName(known, ref) = NoType \/ Good(FindName(known, ref))
  <2> DEFINE S == {i \in DOMAIN known : known[i].name = ref.name /\ QualifiedName(known[i]) = ref}
  <2>1. FirstAt(known, S) = NoType \/ Good(FirstAt(known, S))
    BY FirstAtGood
  <2> QED
    BY <2>1 DEF FindName
<1>2. DEFINE S == {i \in DOMAIN known : known[i].name = ref.name /\ ref.package = "none" /\ ref.args = <<>>}
<1>3. FirstAt(known, S) = NoType \/ Good(FirstAt(known, S))
  BY FirstAtGood
<1> HIDE DEF S
<1>4. SearchPlain(known, ref) \in {FindName(known, ref), FirstAt(known, S)}
  BY DEF SearchPlain, S
<1> QED
  BY <1>1, <1>3, <1>4

(* NAMES.Search: NULL or a good type.                                      *)
LEMMA SearchGood ==
  ASSUME NEW known, AllGood(known), NEW ref
  PROVE  Search(known, ref) = NoType \/ Good(Search(known, ref))
<1> DEFINE elements == [i \in DOMAIN ref.args |-> SearchPlain(known, ref.args[i])]
<1>1. Search(known, ref) \in {SearchPlain(known, ref), GenericListType(elements)}
  BY DEF Search
<1> HIDE DEF elements
<1> QED
  BY <1>1, SearchPlainGood, GenericGood

(* What it finds is written and read alike, NULL too.                      *)
LEMMA SearchPaired ==
  ASSUME NEW known, AllGood(known), NEW ref
  PROVE  Paired(Search(known, ref))
BY SearchGood, NoTypePaired DEF Good

(* An item of a file, whatever its names.                                  *)
IsItem(item) ==
  /\ DOMAIN item = {"kind", "package", "name", "flat", "oneway", "methods"}
  /\ item.kind \in {"data", "interface", "rpc"} /\ item.name # "none"
  /\ item.methods \in Seq(MethodSet) /\ Len(item.methods) <= MaxUserSetMethodId + 1

(* What gather_types adds for an item is good.                             *)
LEMMA GatherItemGood ==
  ASSUME NEW known, AllGood(known), NEW item, IsItem(item)
  PROVE  AllGood(GatherItem(known, item))
<1>1. item.name # "none" /\ item.kind \in {"data", "interface", "rpc"}
  BY DEF IsItem
<1>2. Good(TypeOf(item))
  BY <1>1, UserDataGood, InterfaceGood DEF TypeOf
<1>3. AllGood(<<TypeOf(item)>>)
  BY <1>2, AllGoodSmall
<1>4. \A suffix : AllGood(Added(known, Beside(item, suffix)))
  <2>1. \A suffix : Good(Beside(item, suffix))
    BY InternalGood DEF Beside
  <2> QED
    BY <2>1, AllGoodSmall DEF Added
<1> DEFINE others == CASE item.kind = "interface" -> Added(known, Beside(item, ".Stub")) \o Added(known, Beside(item, ".Stub.Proxy"))
                       [] item.kind = "rpc" -> Added(known, Beside(item, ".ServiceBase"))
                       [] OTHER -> <<>>
           first == known \o <<TypeOf(item)>>
<1>5. AllGood(others)
  <2>1. AllGood(Added(known, Beside(item, ".Stub")) \o Added(known, Beside(item, ".Stub.Proxy")))
    BY <1>4, AllGoodJoined
  <2>2. AllGood(Added(known, Beside(item, ".ServiceBase"))) /\ AllGood(<<>>)
    BY <1>4, AllGoodSmall
  <2> QED
    BY <1>1, <2>1, <2>2
<1>6. AllGood(first)
  BY <1>3, AllGoodJoined
<1> HIDE DEF others, first
<1>7. AllGood(first \o others)
  BY <1>5, <1>6, AllGoodJoined
<1>8. GatherItem(known, item) \in {known, first \o others}
  BY DEF GatherItem, others, first
<1> QED
  BY <1>7, <1>8

-----------------------------------------------------------------------------
(* The compiler's invariant.                                               *)

(* A document_item_type list: the items of a file.                         *)
IsDocument(d) == IsSeq(d) /\ \A i \in ToSet(d) : IsItem(i)

(* The lines of a preprocessed file: one that declares has a name.         *)
IsLines(ls) == IsSeq(ls) /\ \A l \in ToSet(ls) : l.type \notin {"none", "//"} => l.name # "none"

(* The files hold what the parser and the writers leave in them.           *)
FilesInv ==
  \A p \in DOMAIN files :
    /\ IsSeq(files[p].imports)
    /\ files[p].is = "aidl" => IsDocument(files[p].items)
    /\ files[p].is = "lines" => IsLines(files[p].lines)

(* The namespace NAMES.                                                    *)
NamesInv == AllGood(names)

(* The fields of an import_info.                                           *)
ImportFields == {"class", "from", "filename", "document"}

(* The documents that were parsed.                                         *)
DocsInv ==
  /\ IsDocument(document) /\ IsDocument(main)
  /\ IsSeq(imports)
  /\ \A i \in ToSet(imports) : DOMAIN i = ImportFields /\ IsDocument(i.document)

(* What the last line of a preprocessed file left in the local variables.  *)
StaleInv == stale.type # "garbage" => stale.name # "none"

(* The position in the lists that the loops of options.cpp and aidl.cpp    *)
(* walk.                                                                   *)
CursorInv == cursor \in Nat \X (Nat \ {0})

(* err is set when something was reported, and not before.                 *)
ErrInv == err \in BOOLEAN /\ (err <=> found # {})

(* The places in compile_aidl and preprocess_aidl.                         *)
Stages == {"start", "preprocess", "preprocessed", "main", "imports", "filenames", "gather", "types", "one", "ids",
           "output", "dep", "java", "end"}

(* Where the program is and what it returned.                              *)
PlacesInv ==
  /\ stage \in Stages /\ result \in {"none", "0", "1", "abort"}
  /\ onlyParcelable \in BOOLEAN

(* What an int can hold.                                                   *)
Ints == -(Word \div 2) .. (Word \div 2) - 1

(* The transaction codes are ints.                                         *)
IdsInv == \A i \in DOMAIN ids : ids[i] \in Ints

(* What a stage knows from those before it, if none reported an error.     *)
IdsRight(methods, codes) == \E long \in BOOLEAN : IdErrors(methods, long) = {} /\ codes = AssignedIds(methods, long)
StageInv ==
  /\ stage \in {"preprocess", "filenames", "dep", "java"} => found = {}
  /\ stage = "end" /\ result = "0" => found = {}
  /\ stage \in {"filenames", "gather", "types", "one", "ids", "output", "dep", "java"} => main # <<>>
  /\ stage \in {"one", "ids", "output", "dep", "java"} /\ found = {} => TypeErrors(names, main) = {}
  /\ stage = "ids" /\ onlyParcelable => main[1].kind = "data"
  /\ stage \in {"output", "dep", "java"} /\ found = {} /\ IsInterface(main[1]) => IdsRight(main[1].methods, ids)

(* The Java that was written: what the compiler has checked of it.         *)
SoundMethod(kind, m) ==
  /\ Paired(m.type)
  /\ IsSeq(m.args)
  /\ \A k \in DOMAIN m.args : Paired(m.args[k].type)
  /\ kind \in {"interface", "rpc"} /\ m.type = EventType => \A k \in DOMAIN m.args : ~Out(m.args[k])
SoundJava(java) ==
  /\ IsSeq(java.methods)
  /\ \A i \in DOMAIN java.methods : SoundMethod(java.kind, java.methods[i])
  /\ \A i, j \in DOMAIN java.methods : i # j => java.methods[i].name # java.methods[j].name
  /\ java.kind = "interface" => \A i, j \in DOMAIN java.methods : i # j => java.methods[i].value # java.methods[j].value

(* The class that is compiled into the applications.                       *)
GeneratedInv == SoundJava(generated)

(* All of it.                                                              *)
CompilerInv ==
  /\ FilesInv /\ NamesInv /\ DocsInv /\ StaleInv /\ CursorInv
  /\ ErrInv /\ PlacesInv /\ IdsInv /\ StageInv /\ GeneratedInv

(* Before anything is generated there is nothing to go wrong.              *)
LEMMA NoItemSound == SoundJava(NoItem)
BY SmallSeqs DEF SoundJava, NoItem

(* The invariant holds when the program starts.                            *)
LEMMA InitCompilerInv == CompilerInit => CompilerInv
<1> SUFFICES ASSUME CompilerInit PROVE CompilerInv
  OBVIOUS
<1>1. /\ stage = "start" /\ err = FALSE /\ found = {} /\ names = <<>>
      /\ document = Null /\ main = Null /\ imports = <<>> /\ cursor = <<1, 1>>
      /\ stale = [type |-> "garbage", package |-> "none", name |-> "none"]
      /\ onlyParcelable = FALSE /\ ids = <<>> /\ result = "none" /\ generated = NoItem
  BY DEF CompilerInit
<1>2. FilesInv
  <2>1. PICK b \in Builds : files = b.files
    BY DEF CompilerInit
  <2>2. ASSUME NEW p \in DOMAIN files, files[p].is = "aidl"
        PROVE  IsDocument(files[p].items)
    <3>1. files[p].items \in Seq(SmallItemSet)
      BY <2>1, <2>2, CompilerAssumption DEF BuildsAssumption
    <3>2. \A i \in SmallItemSet : IsItem(i)
      BY DEF SmallItemSet, ItemSet, IsItem
    <3> QED
      BY <3>1, <3>2, SeqIsSeq DEF IsDocument
  <2>3. ASSUME NEW p \in DOMAIN files, files[p].is = "lines"
        PROVE  IsLines(files[p].lines)
    <3>1. files[p].lines \in Seq(NamedLines)
      BY <2>1, <2>3, CompilerAssumption DEF BuildsAssumption
    <3>2. \A l \in NamedLines : l.type \notin {"none", "//"} => l.name # "none"
      BY DEF NamedLines
    <3> QED
      BY <3>1, <3>2, SeqIsSeq DEF IsLines
  <2>4. ASSUME NEW p \in DOMAIN files PROVE IsSeq(files[p].imports)
    <3>1. files[p].imports \in Seq(RefSet)
      BY <2>1, CompilerAssumption DEF BuildsAssumption
    <3> QED
      BY <3>1, SeqIsSeq
  <2> QED
    BY <2>2, <2>3, <2>4 DEF FilesInv
<1>3. NamesInv
  BY <1>1, AllGoodSmall DEF NamesInv
<1>4. DocsInv
  <2>1. ToSet(imports) = {} /\ IsSeq(imports)
    BY <1>1, SmallSeqs
  <2>2. document = <<>> /\ main = <<>>
    BY <1>1 DEF Null
  <2>3. IsDocument(<<>>)
    BY SmallSeqs DEF IsDocument
  <2> QED
    BY <2>1, <2>2, <2>3 DEF DocsInv
<1>5. StaleInv /\ CursorInv
  <2>1. stale.type = "garbage"
    BY DEF CompilerInit
  <2>2. CursorInv
    BY <1>1 DEF CursorInv
  <2> QED
    BY <2>1, <2>2 DEF StaleInv
<1>6. ErrInv
  BY <1>1 DEF ErrInv
<1>7. PlacesInv /\ IdsInv /\ StageInv
  <2>1. onlyParcelable \in BOOLEAN
    BY <1>1, Zenon
  <2>2. PlacesInv
    BY <1>1, <2>1 DEF PlacesInv, Stages
  <2>3. IdsInv /\ StageInv
    BY <1>1 DEF IdsInv, StageInv
  <2> QED
    BY <2>2, <2>3
<1>8. GeneratedInv
  BY <1>1, NoItemSound DEF GeneratedInv
<1> QED
  BY <1>2, <1>3, <1>4, <1>5, <1>6, <1>7, <1>8 DEF CompilerInv

(* A file's items are items, its imports a sequence.                       *)
LEMMA ContentTyped ==
  ASSUME FilesInv, NEW path
  PROVE  /\ IsSeq(Content(path).imports)
         /\ Content(path).is = "aidl" => IsDocument(Content(path).items)
         /\ Content(path).is = "lines" => IsLines(Content(path).lines)
<1>1. CASE path \in DOMAIN files
  BY <1>1 DEF Content, FilesInv
<1>2. CASE path \notin DOMAIN files
  <2>1. Content(path).is = "absent" /\ Content(path).imports = <<>>
    BY <1>2 DEF Content, Absent
  <2> QED
    BY <2>1, SmallSeqs
<1> QED
  BY <1>1, <1>2

(* The items of a file that parses.                                        *)
LEMMA ItemsTyped ==
  ASSUME FilesInv, NEW path, Content(path).is = "aidl"
  PROVE  IsDocument(ItemsOf(path))
<1> DEFINE items == Content(path).items
           f(i) == [items[i] EXCEPT !.package = Content(path).package]
<1>1. IsDocument(items)
  BY ContentTyped
<1>2. ItemsOf(path) = [i \in DOMAIN items |-> f(i)]
  BY DEF ItemsOf
<1> HIDE DEF items
<1>3. ASSUME NEW i \in DOMAIN items PROVE IsItem(f(i))
  <2>1. IsItem(items[i])
    BY <1>1 DEF IsDocument, ToSet
  <2> QED
    BY <2>1 DEF IsItem
<1>4. IsSeq(ItemsOf(path))
  BY <1>1, <1>2, Mapped DEF IsDocument
<1>5. ASSUME NEW x \in ToSet(ItemsOf(path)) PROVE IsItem(x)
  <2>1. PICK i \in DOMAIN items : x = f(i)
    BY <1>2 DEF ToSet
  <2> QED
    BY <1>3, <2>1
<1> QED
  BY <1>4, <1>5 DEF IsDocument

(* The imports of a file, as find_import_file takes them.                  *)
LEMMA ImportsTyped ==
  ASSUME FilesInv, NEW path
  PROVE  /\ IsSeq(ImportsOf(path)) /\ Len(ImportsOf(path)) \in Nat
         /\ \A i \in ToSet(ImportsOf(path)) : DOMAIN i = ImportFields /\ IsDocument(i.document)
<1>2. IsSeq(Content(path).imports)
  BY ContentTyped
<1>3. IsSeq(ImportsOf(path))
  BY <1>2, Mapped DEF ImportsOf
<1>4. Len(ImportsOf(path)) \in Nat
  BY <1>3, IsSeqOf
<1>5. ASSUME NEW i \in ToSet(ImportsOf(path)) PROVE DOMAIN i = ImportFields /\ IsDocument(i.document)
  <2>1. PICK k \in DOMAIN Content(path).imports : i = Import(Content(path).imports[k], path)
    BY DEF ImportsOf, ToSet
  <2>2. DOMAIN i = ImportFields /\ i.document = <<>>
    BY <2>1 DEF Import, ImportFields, Null
  <2>3. IsDocument(<<>>)
    BY SmallSeqs DEF IsDocument
  <2> QED
    BY <2>2, <2>3
<1> QED
  BY <1>3, <1>4, <1>5

(* What a step leaves alone keeps what is known of it.                     *)
LEMMA Same ==
  /\ FilesInv /\ UNCHANGED files => FilesInv'
  /\ NamesInv /\ UNCHANGED names => NamesInv'
  /\ DocsInv /\ UNCHANGED <<document, main, imports>> => DocsInv'
  /\ StaleInv /\ UNCHANGED stale => StaleInv'
  /\ CursorInv /\ UNCHANGED cursor => CursorInv'
  /\ ErrInv /\ UNCHANGED <<err, found>> => ErrInv'
  /\ IdsInv /\ UNCHANGED ids => IdsInv'
  /\ GeneratedInv /\ UNCHANGED generated => GeneratedInv'
BY DEF FilesInv, NamesInv, DocsInv, StaleInv, CursorInv, ErrInv, IdsInv, GeneratedInv

(* A report sets err.                                                      *)
LEMMA ReportKeepsErrInv ==
  ASSUME ErrInv, NEW es, Report(es)
  PROVE  ErrInv' /\ (found' = {} <=> found = {} /\ es = {})
<1>1. err' \in BOOLEAN
  BY Zenon DEF Report
<1>2. err' <=> err \/ es # {}
  BY DEF Report
<1>3. found' = found \cup es
  BY DEF Report
<1> QED
  BY <1>1, <1>2, <1>3 DEF ErrInv

(* Where parse_options leads to.                                           *)
LEMMA OptionsStage ==
  ASSUME NEW argv, PreprocessOptions(argv) \/ CompileOptions(argv)
  PROVE  \/ stage' \in {"preprocess", "preprocessed"} /\ result' = result
         \/ stage' = "end" /\ result' \in {"1", "abort"}
<1>1. CASE PreprocessOptions(argv)
  BY <1>1 DEF PreprocessOptions, End
<1>2. CASE CompileOptions(argv)
  BY <1>2 DEF CompileOptions, End
<1> QED
  BY <1>1, <1>2

(* main(): the options are read.                                           *)
LEMMA StartKeepsCompilerInv == CompilerInv /\ Start => CompilerInv'
<1> SUFFICES ASSUME CompilerInv, Start PROVE CompilerInv'
  OBVIOUS
<1>0. FilesInv /\ PlacesInv
  BY DEF CompilerInv
<1>1. /\ found' = {} /\ names' = BaseTypes /\ document' = <<>> /\ main' = <<>> /\ imports' = <<>> /\ cursor' = <<1, 1>>
      /\ ids' = <<>> /\ generated' = NoItem
      /\ UNCHANGED files
  BY DEF Start, Null
<1>2. FilesInv'
  BY <1>0, <1>1, Same
<1>3. NamesInv'
  BY <1>1, BaseTypesGood DEF NamesInv
<1>4. DocsInv'
  <2>1. IsDocument(<<>>) /\ IsSeq(<<>>) /\ ToSet(<<>>) = {}
    BY SmallSeqs DEF IsDocument
  <2> QED
    BY <1>1, <2>1 DEF DocsInv
<1>5. StaleInv'
  <2>1. stale' = [type |-> "garbage", package |-> "none", name |-> "none"]
    BY DEF Start
  <2> QED
    BY <2>1 DEF StaleInv
<1>6. CursorInv'
  BY <1>1 DEF CursorInv
<1>7. ErrInv'
  <2>1. err' = FALSE
    BY DEF Start
  <2>2. err' \in BOOLEAN
    BY <2>1, Zenon
  <2> QED
    BY <1>1, <2>1, <2>2 DEF ErrInv
<1>8. PlacesInv'
  <2>1. onlyParcelable' = FALSE
    BY DEF Start
  <2>2. onlyParcelable' \in BOOLEAN
    BY <2>1, Zenon
  <2>3. PreprocessOptions(Head(commands)) \/ CompileOptions(Head(commands))
    BY DEF Start
  <2>4. stage' \in Stages /\ result' \in {"none", "0", "1", "abort"}
    BY <1>0, <2>3, OptionsStage DEF PlacesInv, Stages
  <2> QED
    BY <2>2, <2>4 DEF PlacesInv
<1>9. IdsInv'
  BY <1>1 DEF IdsInv
<1>10. StageInv'
  <2>1. PreprocessOptions(Head(commands)) \/ CompileOptions(Head(commands))
    BY DEF Start
  <2>2. stage' \in {"preprocess", "preprocessed", "end"}
    BY <2>1, OptionsStage
  <2> QED
    BY <1>1, <2>2 DEF StageInv
<1>11. GeneratedInv'
  BY <1>1, NoItemSound DEF GeneratedInv
<1> QED
  BY <1>2, <1>3, <1>4, <1>5, <1>6, <1>7, <1>8, <1>9, <1>10, <1>11 DEF CompilerInv

(* parse_preprocessed_file: a line.                                        *)
LEMMA ReadPreprocessedLineKeepsCompilerInv == CompilerInv /\ ReadPreprocessedLine => CompilerInv'
<1> SUFFICES ASSUME CompilerInv, ReadPreprocessedLine PROVE CompilerInv'
  OBVIOUS
<1>0. /\ FilesInv /\ NamesInv /\ DocsInv /\ StaleInv /\ CursorInv
      /\ ErrInv /\ PlacesInv /\ IdsInv /\ StageInv /\ GeneratedInv
  BY DEF CompilerInv
<1> DEFINE f == options.preprocessedFiles[cursor[1]]
           text == Content(f).lines[cursor[2]]
           line == IF text.type = "none" THEN stale ELSE text
<1>1. /\ stage = "preprocessed" /\ Content(f).is = "lines" /\ cursor[2] <= Len(Content(f).lines)
      /\ UNCHANGED <<commands, files, stage, options, document, main, imports, onlyParcelable, ids, result, generated>>
  BY DEF ReadPreprocessedLine
<1>2. \/ text.type = "//" /\ cursor' = <<cursor[1], cursor[2] + 1>> /\ UNCHANGED <<err, found, names, stale>>
      \/ Report({"bad type in line"}) /\ cursor' = <<cursor[1] + 1, 1>> /\ UNCHANGED <<names, stale>>
      \/ /\ text.type # "//" /\ line.type \in {"parcelable", "flattenable", "interface"}
         /\ names' = GatherItem(names, Declared(line)) /\ stale' = LeftBehind(line)
         /\ cursor' = <<cursor[1], cursor[2] + 1>> /\ UNCHANGED <<err, found>>
  BY DEF ReadPreprocessedLine
<1> HIDE DEF f
<1>3. FilesInv' /\ DocsInv' /\ IdsInv' /\ GeneratedInv'
  BY <1>0, <1>1, Same
<1>4. text.type \notin {"none", "//"} => text.name # "none"
  <2>1. IsLines(Content(f).lines)
    BY <1>0, <1>1, ContentTyped
  <2>2. cursor[2] \in Nat \ {0}
    BY <1>0 DEF CursorInv
  <2>3. cursor[2] \in DOMAIN Content(f).lines
    BY <1>1, <2>1, <2>2, IsSeqOf DEF IsLines
  <2>4. text \in ToSet(Content(f).lines)
    BY <2>3 DEF ToSet
  <2> QED
    BY <2>1, <2>4 DEF IsLines
<1> HIDE DEF text
<1>5. line.type \in {"parcelable", "flattenable", "interface"} /\ text.type # "//" => line.name # "none"
  BY <1>0, <1>4 DEF StaleInv
<1> HIDE DEF line
<1>6. NamesInv'
  <2>1. ASSUME line.name # "none" PROVE IsItem(Declared(line))
    <3>1. <<>> \in Seq(MethodSet) /\ Len(<<>>) = 0
      OBVIOUS
    <3>2. 0 <= MaxUserSetMethodId + 1
      BY CompilerAssumption DEF WordAssumption
    <3> QED
      BY <2>1, <3>1, <3>2 DEF IsItem, Declared, NoItem
  <2>2. ASSUME line.name # "none" PROVE AllGood(GatherItem(names, Declared(line)))
    BY <1>0, <2>1, <2>2, GatherItemGood DEF NamesInv
  <2> QED
    BY <1>0, <1>2, <1>5, <2>2 DEF NamesInv
<1>7. StaleInv'
  <2>1. LeftBehind(line).name = IF line.package = "none" THEN line.name ELSE line.package
    BY DEF LeftBehind
  <2> QED
    BY <1>0, <1>2, <1>5, <2>1 DEF StaleInv
<1>8. CursorInv'
  <2>1. cursor[1] \in Nat /\ cursor[2] \in Nat
    BY <1>0 DEF CursorInv
  <2>2. cursor' = <<cursor[1], cursor[2] + 1>> \/ cursor' = <<cursor[1] + 1, 1>>
    BY <1>2
  <2> QED
    BY <2>1, <2>2 DEF CursorInv
<1>9. ErrInv'
  BY <1>0, <1>2, ReportKeepsErrInv, Same
<1>10. PlacesInv' /\ StageInv'
  BY <1>0, <1>1 DEF PlacesInv, StageInv
<1> QED
  BY <1>3, <1>6, <1>7, <1>8, <1>9, <1>10 DEF CompilerInv

(* parse_preprocessed_file: the end of a file.                             *)
LEMMA EndPreprocessedFileKeepsCompilerInv == CompilerInv /\ EndPreprocessedFile => CompilerInv'
<1> SUFFICES ASSUME CompilerInv, EndPreprocessedFile PROVE CompilerInv'
  OBVIOUS
<1>0. /\ FilesInv /\ NamesInv /\ DocsInv /\ StaleInv /\ CursorInv
      /\ ErrInv /\ PlacesInv /\ IdsInv /\ StageInv /\ GeneratedInv
  BY DEF CompilerInv
<1>1. /\ stage = "preprocessed" /\ cursor' = <<cursor[1] + 1, 1>>
      /\ stale' \in {stale, [type |-> "garbage", package |-> "none", name |-> "none"]}
      /\ UNCHANGED <<commands, files, stage, options, names, document, main, imports, onlyParcelable, ids, result, generated>>
  BY DEF EndPreprocessedFile
<1>2. FilesInv' /\ NamesInv' /\ DocsInv' /\ IdsInv' /\ GeneratedInv'
  BY <1>0, <1>1, Same
<1>3. StaleInv'
  BY <1>0, <1>1 DEF StaleInv
<1>4. CursorInv'
  BY <1>0, <1>1 DEF CursorInv
<1>5. ErrInv'
  <2>1. \E es : Report(es)
    BY DEF EndPreprocessedFile
  <2> QED
    BY <1>0, <2>1, ReportKeepsErrInv
<1>6. PlacesInv' /\ StageInv'
  BY <1>0, <1>1 DEF PlacesInv, StageInv
<1> QED
  BY <1>2, <1>3, <1>4, <1>5, <1>6 DEF CompilerInv

(* compile_aidl: all preprocessed files are read.                          *)
LEMMA EndPreprocessedKeepsCompilerInv == CompilerInv /\ EndPreprocessed => CompilerInv'
<1> SUFFICES ASSUME CompilerInv, EndPreprocessed PROVE CompilerInv'
  OBVIOUS
<1>0. /\ FilesInv /\ NamesInv /\ DocsInv /\ StaleInv /\ CursorInv
      /\ ErrInv /\ PlacesInv /\ IdsInv /\ StageInv /\ GeneratedInv
  BY DEF CompilerInv
<1>1. /\ cursor' = <<1, 1>>
      /\ (stage' = "end" /\ result' = "1") \/ (stage' = "main" /\ UNCHANGED result)
      /\ UNCHANGED <<commands, files, options, err, found, names, document, main, imports, stale, onlyParcelable, ids, generated>>
  BY DEF EndPreprocessed, End
<1>2. FilesInv' /\ NamesInv' /\ DocsInv' /\ StaleInv' /\ ErrInv' /\ IdsInv' /\ GeneratedInv'
  BY <1>0, <1>1, Same
<1>3. CursorInv'
  BY <1>1 DEF CursorInv
<1>4. PlacesInv'
  BY <1>0, <1>1 DEF PlacesInv, Stages
<1>5. StageInv'
  BY <1>1 DEF StageInv
<1> QED
  BY <1>2, <1>3, <1>4, <1>5 DEF CompilerInv

(* compile_aidl: the main file is parsed.                                  *)
LEMMA ParseMainKeepsCompilerInv == CompilerInv /\ ParseMain => CompilerInv'
<1> SUFFICES ASSUME CompilerInv, ParseMain PROVE CompilerInv'
  OBVIOUS
<1>0. /\ FilesInv /\ NamesInv /\ DocsInv /\ StaleInv /\ CursorInv
      /\ ErrInv /\ PlacesInv /\ IdsInv /\ StageInv /\ GeneratedInv
  BY DEF CompilerInv
<1> DEFINE f == options.input
<1>1. /\ stage' = "imports" /\ Report(ParseErrors(f)) /\ document' = <<>>
      /\ main' = IF Content(f).is = "aidl" THEN ItemsOf(f) ELSE <<>>
      /\ imports' = IF Content(f).is = "aidl" THEN ImportsOf(f) ELSE <<>>
      /\ UNCHANGED <<files, names, cursor, stale, onlyParcelable, ids, result, generated>>
  BY DEF ParseMain, Null
<1> HIDE DEF f
<1>2. FilesInv' /\ NamesInv' /\ StaleInv' /\ CursorInv' /\ IdsInv' /\ GeneratedInv'
  BY <1>0, <1>1, Same
<1>3. DocsInv'
  <2>1. IsDocument(<<>>) /\ IsSeq(<<>>) /\ ToSet(<<>>) = {}
    BY SmallSeqs DEF IsDocument
  <2>2. IsDocument(main')
    BY <1>0, <1>1, <2>1, ItemsTyped
  <2>3. IsSeq(imports') /\ \A i \in ToSet(imports') : DOMAIN i = ImportFields /\ IsDocument(i.document)
    <3>1. CASE Content(f).is = "aidl"
      <4>1. imports' = ImportsOf(f)
        BY <1>1, <3>1
      <4> QED
        BY <1>0, <3>1, <4>1, ImportsTyped
    <3>2. CASE Content(f).is # "aidl"
      BY <1>1, <2>1, <3>2
    <3> QED
      BY <3>1, <3>2
  <2> QED
    BY <1>1, <2>1, <2>2, <2>3 DEF DocsInv
<1>4. ErrInv'
  BY <1>0, <1>1, ReportKeepsErrInv
<1>5. PlacesInv' /\ StageInv'
  BY <1>0, <1>1 DEF PlacesInv, StageInv, Stages
<1> QED
  BY <1>2, <1>3, <1>4, <1>5 DEF CompilerInv

(* compile_aidl: an import is found and parsed.                            *)
LEMMA ParseImportKeepsCompilerInv == CompilerInv /\ ParseImport => CompilerInv'
<1> SUFFICES ASSUME CompilerInv, ParseImport PROVE CompilerInv'
  OBVIOUS
<1>0. /\ FilesInv /\ NamesInv /\ DocsInv /\ StaleInv /\ CursorInv
      /\ ErrInv /\ PlacesInv /\ IdsInv /\ StageInv /\ GeneratedInv
  BY DEF CompilerInv
<1> DEFINE k == cursor[1]
           i == imports[k]
           p == ImportFile(i.class)
           more == ImportsOf(p)
           kept == [i EXCEPT !.filename = p, !.document = document']
<1>1. /\ stage = "imports"
      /\ UNCHANGED <<commands, files, stage, options, names, main, stale, onlyParcelable, ids, result, generated>>
  BY DEF ParseImport
<1>2. \/ cursor' = <<k + 1, 1>> /\ UNCHANGED <<err, found, document, imports>>
      \/ Report({"couldn't find import"}) /\ cursor' = <<k + 1, 1>> /\ UNCHANGED <<document, imports>>
      \/ /\ document' = IF Content(p).is = "aidl" THEN ItemsOf(p) ELSE document
         /\ \E es : Report(es)
         /\ imports' = more \o [imports EXCEPT ![k] = kept]
         /\ cursor' = <<After(k, Len(more)), 1>>
  BY DEF ParseImport
<1>3. FilesInv' /\ NamesInv' /\ StaleInv' /\ IdsInv' /\ GeneratedInv'
  BY <1>0, <1>1, Same
<1>4. IsDocument(document')
  <2>1. IsDocument(document)
    BY <1>0 DEF DocsInv
  <2> HIDE DEF p, more
  <2> QED
    BY <1>0, <1>2, <2>1, ItemsTyped
<1>5. DocsInv'
  <2>1. CASE UNCHANGED imports
    BY <1>0, <1>1, <1>4, <2>1 DEF DocsInv
  <2>2. CASE imports' = more \o [imports EXCEPT ![k] = kept]
    <3> DEFINE rest == [imports EXCEPT ![k] = kept]
    <3>1. IsSeq(more) /\ \A j \in ToSet(more) : DOMAIN j = ImportFields /\ IsDocument(j.document)
      <4> HIDE DEF p
      <4> QED
        BY <1>0, ImportsTyped
    <3>2. IsSeq(rest)
      <4>1. IsSeq(imports)
        BY <1>0 DEF DocsInv
      <4> HIDE DEF kept
      <4> QED
        BY <4>1, Mapped
    <3>3. ASSUME NEW j \in ToSet(rest) PROVE DOMAIN j = ImportFields /\ IsDocument(j.document)
      <4>1. PICK n \in DOMAIN imports : j = rest[n]
        BY DEF ToSet
      <4>2. DOMAIN imports[n] = ImportFields /\ IsDocument(imports[n].document)
        BY <1>0 DEF DocsInv, ToSet
      <4>3. CASE n = k
        <5> HIDE DEF p
        <5>1. j = [imports[n] EXCEPT !.filename = p, !.document = document']
          BY <4>1, <4>3
        <5> QED
          BY <1>4, <4>2, <5>1 DEF ImportFields
      <4>4. CASE n # k
        <5> HIDE DEF kept
        <5> QED
          BY <4>1, <4>2, <4>4
      <4> QED
        BY <4>3, <4>4
    <3> HIDE DEF more, rest
    <3>4. IsSeq(more \o rest) /\ ToSet(more \o rest) \subseteq ToSet(more) \cup ToSet(rest)
      BY <3>1, <3>2, Joined
    <3>5. imports' = more \o rest
      BY <2>2 DEF rest
    <3>6. IsDocument(main')
      BY <1>0, <1>1 DEF DocsInv
    <3> QED
      BY <1>4, <3>1, <3>3, <3>4, <3>5, <3>6 DEF DocsInv
  <2> QED
    BY <1>2, <2>1, <2>2
<1>8. CursorInv'
  <2>1. k \in Nat
    BY <1>0 DEF CursorInv
  <2>2. Len(more) \in Nat
    BY <1>0, ImportsTyped
  <2> HIDE DEF k, more
  <2>3. After(k, Len(more)) \in Nat
    BY <2>1, <2>2 DEF After
  <2>4. cursor' = <<k + 1, 1>> \/ cursor' = <<After(k, Len(more)), 1>>
    BY <1>2
  <2> QED
    BY <2>1, <2>3, <2>4 DEF CursorInv
<1>6. ErrInv'
  BY <1>0, <1>2, ReportKeepsErrInv, Same
<1>7. PlacesInv' /\ StageInv'
  BY <1>0, <1>1 DEF PlacesInv, StageInv
<1> QED
  BY <1>3, <1>5, <1>6, <1>7, <1>8 DEF CompilerInv

(* compile_aidl: all imports are read.                                     *)
LEMMA EndImportsKeepsCompilerInv == CompilerInv /\ EndImports => CompilerInv'
<1> SUFFICES ASSUME CompilerInv, EndImports PROVE CompilerInv'
  OBVIOUS
<1>0. /\ FilesInv /\ NamesInv /\ DocsInv /\ StaleInv /\ CursorInv
      /\ ErrInv /\ PlacesInv /\ IdsInv /\ StageInv /\ GeneratedInv
  BY DEF CompilerInv
<1>1. /\ \/ stage' = "end" /\ result' = "1"
         \/ ~err /\ main # <<>> /\ stage' = "filenames" /\ UNCHANGED result
      /\ UNCHANGED <<commands, files, options, err, found, names, document, main, imports, cursor, stale,
                     onlyParcelable, ids, generated>>
  BY DEF EndImports, End, Null
<1>2. FilesInv' /\ NamesInv' /\ DocsInv' /\ StaleInv' /\ CursorInv' /\ ErrInv' /\ IdsInv' /\ GeneratedInv'
  BY <1>0, <1>1, Same
<1>3. PlacesInv'
  BY <1>0, <1>1 DEF PlacesInv, Stages
<1>4. StageInv'
  BY <1>0, <1>1 DEF StageInv, ErrInv
<1> QED
  BY <1>2, <1>3, <1>4 DEF CompilerInv

(* compile_aidl: check_filenames.                                          *)
LEMMA CheckFilenamesKeepsCompilerInv == CompilerInv /\ CheckFilenames => CompilerInv'
<1> SUFFICES ASSUME CompilerInv, CheckFilenames PROVE CompilerInv'
  OBVIOUS
<1>0. /\ FilesInv /\ NamesInv /\ DocsInv /\ StaleInv /\ CursorInv
      /\ ErrInv /\ PlacesInv /\ IdsInv /\ StageInv /\ GeneratedInv
  BY DEF CompilerInv
<1>1. /\ stage = "filenames" /\ stage' = "gather" /\ cursor' = <<0, 1>>
      /\ UNCHANGED <<commands, files, options, names, document, main, imports, stale, onlyParcelable, ids, result, generated>>
  BY DEF CheckFilenames
<1>2. FilesInv' /\ NamesInv' /\ DocsInv' /\ StaleInv' /\ IdsInv' /\ GeneratedInv'
  BY <1>0, <1>1, Same
<1>3. CursorInv'
  BY <1>1 DEF CursorInv
<1>4. ErrInv'
  <2>1. \E es : Report(es)
    BY DEF CheckFilenames
  <2> QED
    BY <1>0, <2>1, ReportKeepsErrInv
<1>5. PlacesInv' /\ StageInv'
  BY <1>0, <1>1 DEF PlacesInv, StageInv, Stages
<1> QED
  BY <1>2, <1>3, <1>4, <1>5 DEF CompilerInv

(* compile_aidl: gather_types of a document.                               *)
LEMMA GatherTypesKeepsCompilerInv == CompilerInv /\ GatherTypes => CompilerInv'
<1> SUFFICES ASSUME CompilerInv, GatherTypes PROVE CompilerInv'
  OBVIOUS
<1>0. /\ FilesInv /\ NamesInv /\ DocsInv /\ StaleInv /\ CursorInv
      /\ ErrInv /\ PlacesInv /\ IdsInv /\ StageInv /\ GeneratedInv
  BY DEF CompilerInv
<1>1. /\ stage = "gather" /\ cursor[1] <= Len(imports)
      /\ UNCHANGED <<commands, files, stage, options, document, main, imports, stale, onlyParcelable, ids, result, generated>>
  BY DEF GatherTypes
<1>2. \/ /\ cursor[2] \in DOMAIN Gathering
         /\ names' = GatherItem(names, Gathering[cursor[2]]) /\ Report(GatherErrors(names, Gathering[cursor[2]]))
         /\ cursor' = <<cursor[1], cursor[2] + 1>>
      \/ cursor' = <<cursor[1] + 1, 1>> /\ UNCHANGED <<names, err, found>>
  BY DEF GatherTypes
<1>3. FilesInv' /\ DocsInv' /\ StaleInv' /\ IdsInv' /\ GeneratedInv'
  BY <1>0, <1>1, Same
<1>4. IsDocument(Gathering)
  <2>1. IsSeq(imports)
    BY <1>0 DEF DocsInv
  <2>2. cursor[1] \in Nat
    BY <1>0 DEF CursorInv
  <2>3. cursor[1] # 0 => cursor[1] \in DOMAIN imports
    BY <1>1, <2>1, <2>2, IsSeqOf
  <2>4. cursor[1] # 0 => imports[cursor[1]] \in ToSet(imports)
    BY <2>3 DEF ToSet
  <2> QED
    BY <1>0, <2>4 DEF DocsInv, Gathering
<1>5. NamesInv'
  <2>1. CASE UNCHANGED names
    BY <1>0, <2>1, Same
  <2>2. CASE cursor[2] \in DOMAIN Gathering /\ names' = GatherItem(names, Gathering[cursor[2]])
    <3>1. IsItem(Gathering[cursor[2]])
      BY <1>4, <2>2 DEF IsDocument, ToSet
    <3> QED
      BY <1>0, <2>2, <3>1, GatherItemGood DEF NamesInv
  <2> QED
    BY <1>2, <2>1, <2>2
<1>6. CursorInv'
  <2>1. cursor[1] \in Nat /\ cursor[2] \in Nat
    BY <1>0 DEF CursorInv
  <2>2. cursor' = <<cursor[1], cursor[2] + 1>> \/ cursor' = <<cursor[1] + 1, 1>>
    BY <1>2
  <2> QED
    BY <2>1, <2>2 DEF CursorInv
<1>7. ErrInv'
  BY <1>0, <1>2, ReportKeepsErrInv, Same
<1>8. PlacesInv' /\ StageInv'
  BY <1>0, <1>1 DEF PlacesInv, StageInv
<1> QED
  BY <1>3, <1>5, <1>6, <1>7, <1>8 DEF CompilerInv

(* compile_aidl: all types are gathered.                                   *)
LEMMA EndGatheringKeepsCompilerInv == CompilerInv /\ EndGathering => CompilerInv'
<1> SUFFICES ASSUME CompilerInv, EndGathering PROVE CompilerInv'
  OBVIOUS
<1>0. /\ FilesInv /\ NamesInv /\ DocsInv /\ StaleInv /\ CursorInv
      /\ ErrInv /\ PlacesInv /\ IdsInv /\ StageInv /\ GeneratedInv
  BY DEF CompilerInv
<1>1. /\ stage = "gather" /\ stage' = "types"
      /\ UNCHANGED <<commands, files, options, err, found, names, document, main, imports, cursor, stale, onlyParcelable,
                     ids, result, generated>>
  BY DEF EndGathering
<1>2. FilesInv' /\ NamesInv' /\ DocsInv' /\ StaleInv' /\ CursorInv' /\ ErrInv' /\ IdsInv' /\ GeneratedInv'
  BY <1>0, <1>1, Same
<1>3. PlacesInv' /\ StageInv'
  BY <1>0, <1>1 DEF PlacesInv, StageInv, Stages
<1> QED
  BY <1>2, <1>3 DEF CompilerInv

(* compile_aidl: check_types.                                              *)
LEMMA CheckTypesKeepsCompilerInv == CompilerInv /\ CheckTypes => CompilerInv'
<1> SUFFICES ASSUME CompilerInv, CheckTypes PROVE CompilerInv'
  OBVIOUS
<1>0. /\ FilesInv /\ NamesInv /\ DocsInv /\ StaleInv /\ CursorInv
      /\ ErrInv /\ PlacesInv /\ IdsInv /\ StageInv /\ GeneratedInv
  BY DEF CompilerInv
<1>1. /\ stage = "types" /\ stage' = "one" /\ Report(TypeErrors(names, main))
      /\ UNCHANGED <<commands, files, options, names, document, main, imports, cursor, stale, onlyParcelable, ids, result, generated>>
  BY DEF CheckTypes
<1>2. FilesInv' /\ NamesInv' /\ DocsInv' /\ StaleInv' /\ CursorInv' /\ IdsInv' /\ GeneratedInv'
  BY <1>0, <1>1, Same
<1>3. ErrInv' /\ (found' = {} => TypeErrors(names, main) = {})
  BY <1>0, <1>1, ReportKeepsErrInv
<1>4. TypeErrors(names, main)' = TypeErrors(names, main)
  BY <1>1
<1>5. PlacesInv' /\ StageInv'
  BY <1>0, <1>1, <1>3, <1>4 DEF PlacesInv, StageInv, Stages
<1> QED
  BY <1>2, <1>3, <1>5 DEF CompilerInv

(* compile_aidl: exactly_one_interface.                                    *)
LEMMA ExactlyOneInterfaceKeepsCompilerInv == CompilerInv /\ ExactlyOneInterface => CompilerInv'
<1> SUFFICES ASSUME CompilerInv, ExactlyOneInterface PROVE CompilerInv'
  OBVIOUS
<1>0. /\ FilesInv /\ NamesInv /\ DocsInv /\ StaleInv /\ CursorInv
      /\ ErrInv /\ PlacesInv /\ IdsInv /\ StageInv /\ GeneratedInv
  BY DEF CompilerInv
<1>1. /\ stage = "one" /\ stage' = "ids" /\ \E es : Report(es)
      /\ UNCHANGED <<commands, files, options, names, document, main, imports, cursor, stale, ids, result, generated>>
  BY DEF ExactlyOneInterface
<1>2. FilesInv' /\ NamesInv' /\ DocsInv' /\ StaleInv' /\ CursorInv' /\ IdsInv' /\ GeneratedInv'
  BY <1>0, <1>1, Same
<1>3. ErrInv' /\ (found' = {} => found = {})
  BY <1>0, <1>1, ReportKeepsErrInv
<1>4. onlyParcelable' \in BOOLEAN
  BY Zenon DEF ExactlyOneInterface
<1>5. onlyParcelable' => main[1].kind = "data"
  BY DEF ExactlyOneInterface
<1>6. TypeErrors(names, main)' = TypeErrors(names, main) /\ main' = main
  BY <1>1
<1>7. PlacesInv'
  BY <1>0, <1>1, <1>4 DEF PlacesInv, Stages
<1>8. StageInv'
  BY <1>0, <1>1, <1>3, <1>5, <1>6 DEF StageInv
<1> QED
  BY <1>2, <1>3, <1>7, <1>8 DEF CompilerInv

(* An id of a method is an int, whatever number the file says.             *)
LEMMA NumbersAreInts ==
  ASSUME NEW methods \in Seq(MethodSet), Len(methods) <= MaxUserSetMethodId + 1, NEW long \in BOOLEAN
  PROVE  \A i \in DOMAIN methods : AssignedIds(methods, long)[i] \in Ints
<1> DEFINE half == Word \div 2
<1>1. Word \in Nat /\ half \in Nat /\ Word = 2 * half /\ MaxUserSetMethodId \in Nat /\ MaxUserSetMethodId < half
  BY CompilerAssumption DEF WordAssumption
<1> HIDE DEF half
<1>2. ASSUME NEW n \in Nat PROVE Atoi(n, long) \in -half .. half - 1
  <2>1. n % Word \in 0 .. Word - 1
    BY <1>1, <1>2
  <2>2. Signed(n % Word) \in -half .. half - 1
    BY <1>1, <2>1 DEF Signed, half
  <2> QED
    BY <1>1, <2>2 DEF Atoi, half
<1>3. ASSUME NEW i \in DOMAIN methods PROVE AssignedIds(methods, long)[i] \in -half .. half - 1
  <2>1. i \in 1 .. Len(methods) /\ Len(methods) \in Nat
    OBVIOUS
  <2>2. methods[i] \in MethodSet
    BY <2>1
  <2>3. methods[i].value \in Nat
    BY <2>2 DEF MethodSet
  <2>4. Number(methods[i], long) \in -half .. half - 1
    BY <1>2, <2>3 DEF Number
  <2>5. i - 1 \in -half .. half - 1
    BY <1>1, <2>1
  <2> QED
    BY <2>4, <2>5 DEF AssignedIds
<1> QED
  BY <1>3 DEF Ints, half

(* Ids that are not reported are different and of those a user may have,   *)
(* written or assigned.                                                    *)
LEMMA IdsDistinct ==
  ASSUME NEW methods \in Seq(MethodSet), Len(methods) <= MaxUserSetMethodId + 1, NEW codes, IdsRight(methods, codes)
  PROVE  /\ DOMAIN codes = DOMAIN methods
         /\ \A i, j \in DOMAIN codes : i # j => codes[i] # codes[j]
         /\ \A i \in DOMAIN codes : codes[i] \in 0 .. MaxUserSetMethodId
<1>1. PICK long \in BOOLEAN : IdErrors(methods, long) = {} /\ codes = AssignedIds(methods, long)
  BY DEF IdsRight
<1> DEFINE set == {i \in DOMAIN methods : HasId(methods[i])}
<1>2. /\ \A i \in set : Number(methods[i], long) \notin UsedIds(methods, i, long)
      /\ \A i \in set : Number(methods[i], long) \in 0 .. MaxUserSetMethodId
      /\ set \in {{}, DOMAIN methods}
  BY <1>1 DEF IdErrors
<1>3. DOMAIN methods = 1 .. Len(methods) /\ Len(methods) \in Nat /\ MaxUserSetMethodId \in Nat
  BY CompilerAssumption DEF WordAssumption
<1>4. /\ DOMAIN codes = DOMAIN methods
      /\ \A i \in DOMAIN methods : codes[i] = IF i \in set THEN Number(methods[i], long) ELSE i - 1
  BY <1>1 DEF AssignedIds
<1>5. CASE set = {}
  <2>1. \A i \in DOMAIN methods : codes[i] = i - 1
    BY <1>4, <1>5
  <2> HIDE DEF set
  <2> QED
    BY <1>3, <1>4, <2>1
<1>6. CASE set = DOMAIN methods
  <2>1. \A i \in DOMAIN methods : codes[i] = Number(methods[i], long)
    BY <1>4, <1>6
  <2>2. ASSUME NEW i \in DOMAIN methods, NEW j \in DOMAIN methods, j < i
        PROVE  codes[i] # codes[j]
    <3>1. j \in 1 .. i - 1 /\ HasId(methods[j])
      BY <1>3, <1>6, <2>2
    <3>2. Number(methods[j], long) \in UsedIds(methods, i, long)
      BY <3>1 DEF UsedIds
    <3> QED
      BY <1>2, <1>6, <2>1, <3>2
  <2>3. \A i, j \in DOMAIN methods : i # j => i < j \/ j < i
    BY <1>3
  <2> HIDE DEF set
  <2> QED
    BY <1>2, <1>4, <1>6, <2>1, <2>2, <2>3
<1> QED
  BY <1>2, <1>5, <1>6

(* The main document that is not empty has a first item.                   *)
LEMMA FirstItem ==
  ASSUME DocsInv, main # <<>>
  PROVE  1 \in DOMAIN main /\ IsItem(main[1])
<1>1. IsSeq(main) /\ \A i \in ToSet(main) : IsItem(i)
  BY DEF DocsInv, IsDocument
<1>2. main \in Seq(ToSet(main)) /\ DOMAIN main = 1 .. Len(main) /\ Len(main) \in Nat
  BY <1>1, IsSeqOf
<1>3. Len(main) # 0
  BY <1>2, EmptySeq
<1>4. 1 \in DOMAIN main
  BY <1>2, <1>3
<1> QED
  BY <1>1, <1>4 DEF ToSet

(* compile_aidl: check_and_assign_method_ids.                              *)
LEMMA AssignMethodIdsKeepsCompilerInv == CompilerInv /\ AssignMethodIds => CompilerInv'
<1> SUFFICES ASSUME CompilerInv, AssignMethodIds PROVE CompilerInv'
  OBVIOUS
<1>0. /\ FilesInv /\ NamesInv /\ DocsInv /\ StaleInv /\ CursorInv
      /\ ErrInv /\ PlacesInv /\ IdsInv /\ StageInv /\ GeneratedInv
  BY DEF CompilerInv
<1>1. /\ stage = "ids"
      /\ UNCHANGED <<commands, files, options, names, document, main, imports, cursor, stale, onlyParcelable, generated>>
  BY DEF AssignMethodIds
<1> DEFINE ms == main[1].methods
<1>2. \/ onlyParcelable /\ stage' = "output" /\ UNCHANGED <<err, found, ids, result>>
      \/ /\ ~IsInterface(main[1]) /\ UNCHANGED <<err, found, ids>>
         /\ (stage' = "output" /\ result' = result) \/ (stage' = "end" /\ result' = "abort")
      \/ /\ \E long \in BOOLEAN : Report(IdErrors(ms, long)) /\ ids' = AssignedIds(ms, long)
         /\ stage' = "output" /\ UNCHANGED result
  BY DEF AssignMethodIds, End
<1>3. FilesInv' /\ NamesInv' /\ DocsInv' /\ StaleInv' /\ CursorInv' /\ GeneratedInv'
  BY <1>0, <1>1, Same
<1>4. PlacesInv'
  <2>1. stage' \in Stages /\ result' \in {"none", "0", "1", "abort"}
    BY <1>0, <1>2 DEF PlacesInv, Stages
  <2>2. onlyParcelable' \in BOOLEAN
    BY <1>0, <1>1 DEF PlacesInv
  <2> QED
    BY <2>1, <2>2 DEF PlacesInv
<1>5. ms \in Seq(MethodSet) /\ Len(ms) <= MaxUserSetMethodId + 1
  <2>1. main # <<>>
    BY <1>0, <1>1 DEF StageInv
  <2> QED
    BY <1>0, <2>1, FirstItem DEF IsItem
<1>6. onlyParcelable => ~IsInterface(main[1])
  BY <1>0, <1>1 DEF StageInv, IsInterface
<1>7. TypeErrors(names, main)' = TypeErrors(names, main) /\ main' = main
  BY <1>1
<1>8. CASE ~IsInterface(main[1]) /\ UNCHANGED <<err, found, ids>>
  <2>1. ErrInv' /\ IdsInv'
    BY <1>0, <1>8, Same
  <2>2. stage' = "output" \/ (stage' = "end" /\ result' = "abort")
    BY <1>2
  <2>3. StageInv'
    BY <1>0, <1>1, <1>7, <1>8, <2>2 DEF StageInv
  <2> QED
    BY <1>3, <1>4, <2>1, <2>3 DEF CompilerInv
<1>9. ASSUME NEW long \in BOOLEAN, Report(IdErrors(ms, long)), ids' = AssignedIds(ms, long), stage' = "output", result' = result
      PROVE  CompilerInv'
  <2>1. ErrInv' /\ (found' = {} => found = {} /\ IdErrors(ms, long) = {})
    BY <1>0, <1>9, ReportKeepsErrInv
  <2>2. IdsInv'
    <3>1. \A i \in DOMAIN ms : AssignedIds(ms, long)[i] \in Ints
      BY <1>5, NumbersAreInts
    <3>2. DOMAIN AssignedIds(ms, long) = DOMAIN ms
      BY DEF AssignedIds
    <3> QED
      BY <1>9, <3>1, <3>2 DEF IdsInv
  <2>3. found' = {} => IdsRight(main'[1].methods, ids')
    BY <1>7, <1>9, <2>1 DEF IdsRight
  <2>4. StageInv'
    BY <1>0, <1>1, <1>7, <1>9, <2>1, <2>3 DEF StageInv
  <2> QED
    BY <1>3, <1>4, <2>1, <2>2, <2>4 DEF CompilerInv
<1> QED
  BY <1>2, <1>6, <1>8, <1>9

(* compile_aidl: the name of the output file.                              *)
LEMMA NameOutputKeepsCompilerInv == CompilerInv /\ NameOutput => CompilerInv'
<1> SUFFICES ASSUME CompilerInv, NameOutput PROVE CompilerInv'
  OBVIOUS
<1>0. /\ FilesInv /\ NamesInv /\ DocsInv /\ StaleInv /\ CursorInv
      /\ ErrInv /\ PlacesInv /\ IdsInv /\ StageInv /\ GeneratedInv
  BY DEF CompilerInv
<1>1. /\ stage = "output"
      /\ UNCHANGED <<commands, files, err, found, names, document, main, imports, cursor, stale, onlyParcelable, ids, generated>>
  BY DEF NameOutput
<1>2. \/ stage' = "end" /\ result' \in {"1", "abort"}
      \/ ~err /\ stage' = "dep" /\ result' = result
  BY DEF NameOutput, End
<1>3. FilesInv' /\ NamesInv' /\ DocsInv' /\ StaleInv' /\ CursorInv' /\ ErrInv' /\ IdsInv' /\ GeneratedInv'
  BY <1>0, <1>1, Same
<1>4. PlacesInv'
  BY <1>0, <1>1, <1>2 DEF PlacesInv, Stages
<1>5. ~err => found = {}
  BY <1>0 DEF ErrInv
<1>6. TypeErrors(names, main)' = TypeErrors(names, main) /\ main' = main /\ ids' = ids
  BY <1>1
<1>7. StageInv'
  BY <1>0, <1>1, <1>2, <1>5, <1>6 DEF StageInv
<1> QED
  BY <1>3, <1>4, <1>7 DEF CompilerInv

(* A file that is written.                                                 *)
LEMMA WrittenKeepsFilesInv ==
  ASSUME FilesInv, NEW path, NEW content, files' = Written(path, content), IsSeq(content.imports),
         content.is # "aidl", content.is = "lines" => IsLines(content.lines)
  PROVE  FilesInv'
<1> SUFFICES ASSUME NEW p \in DOMAIN files'
             PROVE  /\ IsSeq(files'[p].imports)
                    /\ files'[p].is = "aidl" => IsDocument(files'[p].items)
                    /\ files'[p].is = "lines" => IsLines(files'[p].lines)
  BY DEF FilesInv
<1>1. p \in DOMAIN files \cup {path} /\ files'[p] = IF p = path THEN content ELSE files[p]
  BY DEF Written
<1>2. CASE p = path
  BY <1>1, <1>2
<1>3. CASE p # path
  <2>1. p \in DOMAIN files /\ files'[p] = files[p]
    BY <1>1, <1>3
  <2> QED
    BY <2>1 DEF FilesInv
<1> QED
  BY <1>2, <1>3

(* compile_aidl: generate_dep_file.                                        *)
LEMMA WriteDepFileKeepsCompilerInv == CompilerInv /\ WriteDepFile => CompilerInv'
<1> SUFFICES ASSUME CompilerInv, WriteDepFile PROVE CompilerInv'
  OBVIOUS
<1>0. /\ FilesInv /\ NamesInv /\ DocsInv /\ StaleInv /\ CursorInv
      /\ ErrInv /\ PlacesInv /\ IdsInv /\ StageInv /\ GeneratedInv
  BY DEF CompilerInv
<1> DEFINE content == [Absent EXCEPT !.is = "dep", !.lines = Prerequisites]
<1>1. /\ stage = "dep"
      /\ (stage' = "end" /\ result' = "0") \/ (stage' = "java" /\ result' = result)
      /\ UNCHANGED <<commands, options, err, found, names, document, main, imports, cursor, stale, onlyParcelable, ids, generated>>
  BY DEF WriteDepFile, End
<1>2. files' = Written(DepName, content) \/ files' = files
  BY DEF WriteDepFile
<1>3. FilesInv'
  <2>1. content.is = "dep" /\ content.imports = <<>>
    BY DEF Absent
  <2> HIDE DEF content
  <2>2. IsSeq(content.imports)
    BY <2>1, SmallSeqs
  <2> QED
    BY <1>0, <1>2, <2>1, <2>2, WrittenKeepsFilesInv, Same
<1>4. NamesInv' /\ DocsInv' /\ StaleInv' /\ CursorInv' /\ ErrInv' /\ IdsInv' /\ GeneratedInv'
  BY <1>0, <1>1, Same
<1>5. PlacesInv'
  BY <1>0, <1>1 DEF PlacesInv, Stages
<1>6. TypeErrors(names, main)' = TypeErrors(names, main) /\ main' = main /\ ids' = ids
  BY <1>1
<1>7. StageInv'
  BY <1>0, <1>1, <1>6 DEF StageInv
<1> QED
  BY <1>3, <1>4, <1>5, <1>7 DEF CompilerInv

(* What check_method lets through.                                         *)
LEMMA CheckedMethod ==
  ASSUME NEW kind, NEW m, MethodErrors(kind, m) = {}
  PROVE  /\ m.type # NoType /\ ReturnErrors(kind, m) = {}
         /\ \A k \in DOMAIN m.args : ArgErrors(kind, m, m.args[k]) = {}
<1>1. m.type # NoType
  BY DEF MethodErrors
<1>2. ReturnErrors(kind, m) \cup UNION {ArgErrors(kind, m, m.args[i]) : i \in DOMAIN m.args} = {}
  BY <1>1 DEF MethodErrors
<1> QED
  BY <1>1, <1>2

(* What check_types lets through: methods that check_method accepts, with  *)
(* names of their own.                                                     *)
LEMMA CheckedItem ==
  ASSUME NEW known, NEW items, TypeErrors(known, items) = {}, NEW i \in DOMAIN items
  PROVE  /\ IsInterface(items[i]) => \A m \in ResolvedMethods(known, items[i]) : MethodErrors(items[i].kind, m) = {}
         /\ \A j, k \in DOMAIN items[i].methods : j < k => items[i].methods[j].name # items[i].methods[k].name
<1> DEFINE U == UNION {UNION {MethodErrors(items[n].kind, m) : m \in ResolvedMethods(known, items[n])}
                       : n \in {k \in DOMAIN items : IsInterface(items[k])}}
           T == \E n \in DOMAIN items : \E j, k \in DOMAIN items[n].methods :
                  j < k /\ items[n].methods[j].name = items[n].methods[k].name
<1>1. TypeErrors(known, items) = (IF T THEN {"method redefined"} ELSE {}) \cup U
  BY Zenon DEF TypeErrors
<1>2. U = {} /\ ~T
  <2> HIDE DEF U, T
  <2> QED
    BY <1>1
<1>3. ASSUME IsInterface(items[i]), NEW m \in ResolvedMethods(known, items[i])
      PROVE  MethodErrors(items[i].kind, m) = {}
  <2>1. UNION {MethodErrors(items[i].kind, n) : n \in ResolvedMethods(known, items[i])} = {}
    BY <1>2, <1>3
  <2> QED
    BY <2>1
<1> QED
  BY <1>2, <1>3

(* An event has no argument that comes back.                               *)
LEMMA EventIsIn ==
  ASSUME NEW kind, NEW m, MethodErrors(kind, m) = {}, m.type = EventType, NEW k \in DOMAIN m.args
  PROVE  ~Out(m.args[k])
<1>1. ArgErrors(kind, m, m.args[k]) = {}
  BY CheckedMethod
<1> QED
  BY <1>1 DEF ArgErrors

(* What is generated is sound, when the checks before it reported nothing. *)
LEMMA InterfaceSound ==
  ASSUME CompilerInv, main # <<>>, TypeErrors(names, main) = {},
         IsInterface(main[1]) => IdsRight(main[1].methods, ids)
  PROVE  SoundJava(Interface)
<1> DEFINE item == main[1]
           m(i) == Resolved(names, item.methods[i])
           ms == [i \in DOMAIN item.methods |-> [m(i) EXCEPT !.value = ids[i]]]
<1>0. NamesInv /\ DocsInv
  BY DEF CompilerInv
<1>1. 1 \in DOMAIN main /\ IsItem(item)
  BY <1>0, FirstItem
<1>2. Interface = [item EXCEPT !.methods = ms]
  BY DEF Interface
<1>3. Interface.methods = ms /\ Interface.kind = item.kind
  BY <1>1, <1>2 DEF IsItem
<1>4. item.methods \in Seq(MethodSet) /\ Len(item.methods) <= MaxUserSetMethodId + 1
  BY <1>1 DEF IsItem
<1>5. IsSeq(ms)
  <2>1. IsSeq(item.methods)
    BY <1>4, SeqIsSeq
  <2> HIDE DEF m, item
  <2> QED
    BY <2>1, Mapped
<1>6. ASSUME NEW i \in DOMAIN item.methods
      PROVE  /\ ms[i].type = m(i).type /\ ms[i].args = m(i).args /\ ms[i].name = item.methods[i].name /\ ms[i].value = ids[i]
             /\ m(i).type = Search(names, item.methods[i].type)
             /\ DOMAIN m(i).args = DOMAIN item.methods[i].args
             /\ \A k \in DOMAIN m(i).args : m(i).args[k] = [item.methods[i].args[k] EXCEPT !.type = Search(names, item.methods[i].args[k].type)]
             /\ item.methods[i].args \in Seq(ArgSet)
  <2>1. item.methods[i] \in MethodSet
    BY <1>4
  <2>2. DOMAIN item.methods[i] = {"name", "type", "dimension", "oneway", "id", "value", "args"} /\ item.methods[i].args \in Seq(ArgSet)
    BY <2>1 DEF MethodSet
  <2>3. m(i).type = Search(names, item.methods[i].type)
    BY <2>2 DEF Resolved
  <2>4. m(i).args = [k \in DOMAIN item.methods[i].args |-> [item.methods[i].args[k] EXCEPT !.type = Search(names, item.methods[i].args[k].type)]]
    BY <2>2 DEF Resolved
  <2>5. m(i).name = item.methods[i].name /\ DOMAIN m(i) = {"name", "type", "dimension", "oneway", "id", "value", "args"}
    BY <2>2 DEF Resolved
  <2>6. ms[i] = [m(i) EXCEPT !.value = ids[i]]
    OBVIOUS
  <2> HIDE DEF m, item, ms
  <2> QED
    BY <2>2, <2>3, <2>4, <2>5, <2>6
<1> HIDE DEF ms
<1>7. ASSUME NEW i \in DOMAIN item.methods PROVE SoundMethod(item.kind, ms[i])
  <2>1. Paired(ms[i].type)
    BY <1>0, <1>6, SearchPaired DEF NamesInv
  <2>2. DOMAIN ms[i].args = DOMAIN item.methods[i].args /\ IsSeq(item.methods[i].args)
    BY <1>6, SeqIsSeq
  <2>3. IsSeq(ms[i].args)
    <3>1. ms[i].args = [k \in DOMAIN item.methods[i].args |-> ms[i].args[k]]
      <4>1. m(i).args = [k \in DOMAIN item.methods[i].args |-> m(i).args[k]]
        <5>1. item.methods[i] \in MethodSet
          BY <1>4
        <5>2. DOMAIN item.methods[i] = {"name", "type", "dimension", "oneway", "id", "value", "args"}
          BY <5>1 DEF MethodSet
        <5> HIDE DEF item
        <5> QED
          BY <5>2 DEF Resolved
      <4> QED
        BY <1>6, <4>1
    <3> QED
      BY <2>2, <3>1, Mapped
  <2>4. ASSUME NEW k \in DOMAIN ms[i].args PROVE Paired(ms[i].args[k].type)
    <3>1. item.methods[i].args[k] \in ArgSet
      BY <1>6, <2>2
    <3>2. DOMAIN item.methods[i].args[k] = {"direction", "type", "dimension", "name"}
      BY <3>1 DEF ArgSet
    <3>3. ms[i].args[k] = [item.methods[i].args[k] EXCEPT !.type = Search(names, item.methods[i].args[k].type)]
      <4>1. k \in DOMAIN m(i).args
        BY <1>6
      <4>2. m(i).args[k] = [item.methods[i].args[k] EXCEPT !.type = Search(names, item.methods[i].args[k].type)]
        BY <1>6, <4>1
      <4>3. ms[i].args[k] = m(i).args[k]
        BY <1>6
      <4> QED
        BY <4>2, <4>3
    <3>4. ms[i].args[k].type = Search(names, item.methods[i].args[k].type)
      <4> HIDE DEF item
      <4> QED
        BY <3>2, <3>3
    <3> QED
      BY <1>0, <3>4, SearchPaired DEF NamesInv
  <2>5. ASSUME item.kind \in {"interface", "rpc"}, ms[i].type = EventType, NEW k \in DOMAIN ms[i].args
        PROVE  ~Out(ms[i].args[k])
    <3>1. MethodErrors(item.kind, m(i)) = {}
      <4>1. IsInterface(item)
        BY <2>5 DEF IsInterface
      <4>2. m(i) \in ResolvedMethods(names, item)
        BY DEF ResolvedMethods
      <4> HIDE DEF m
      <4> QED
        BY <1>1, <4>1, <4>2, CheckedItem
    <3>2. m(i).type = EventType /\ ms[i].args = m(i).args
      BY <1>6, <2>5
    <3> HIDE DEF m
    <3> QED
      BY <2>5, <3>1, <3>2, EventIsIn
  <2> QED
    BY <2>1, <2>3, <2>4, <2>5 DEF SoundMethod
<1>8. DOMAIN ms = DOMAIN item.methods
  BY DEF ms
<1>9. ASSUME NEW i \in DOMAIN ms, NEW j \in DOMAIN ms, i # j PROVE ms[i].name # ms[j].name
  <2>1. \A x, y \in DOMAIN item.methods : x < y => item.methods[x].name # item.methods[y].name
    BY <1>1, CheckedItem
  <2>2. i < j \/ j < i
    <3>1. i \in Int /\ j \in Int
      BY <1>4, <1>8
    <3> QED
      BY <1>9, <3>1
  <2> QED
    BY <1>6, <1>8, <2>1, <2>2
<1>10. ASSUME item.kind = "interface", NEW i \in DOMAIN ms, NEW j \in DOMAIN ms, i # j PROVE ms[i].value # ms[j].value
  <2>1. IdsRight(item.methods, ids)
    BY <1>10 DEF IsInterface
  <2>2. /\ DOMAIN ids = DOMAIN item.methods
        /\ \A x, y \in DOMAIN ids : x # y => ids[x] # ids[y]
    BY <1>4, <2>1, IdsDistinct
  <2> QED
    BY <1>6, <1>8, <1>10, <2>2
<1> QED
  BY <1>3, <1>5, <1>7, <1>8, <1>9, <1>10 DEF SoundJava

(* compile_aidl: generate_java.                                            *)
LEMMA GenerateJavaKeepsCompilerInv == CompilerInv /\ GenerateJava => CompilerInv'
<1> SUFFICES ASSUME CompilerInv, GenerateJava PROVE CompilerInv'
  OBVIOUS
<1>0. /\ FilesInv /\ NamesInv /\ DocsInv /\ StaleInv /\ CursorInv
      /\ ErrInv /\ PlacesInv /\ IdsInv /\ StageInv /\ GeneratedInv
  BY DEF CompilerInv
<1>1. /\ stage = "java" /\ stage' = "end" /\ result' \in {"0", "1", "abort"}
      /\ (\E whole \in BOOLEAN : files' = Written(options.output, Java(whole))) \/ files' = files
      /\ generated' \in {Interface, NoItem, generated}
      /\ UNCHANGED <<commands, options, err, found, names, document, main, imports, cursor, stale, onlyParcelable, ids>>
  BY DEF GenerateJava, End
<1>2. NamesInv' /\ DocsInv' /\ StaleInv' /\ CursorInv' /\ ErrInv' /\ IdsInv'
  BY <1>0, <1>1, Same
<1>3. FilesInv'
  <2>1. ASSUME NEW whole \in BOOLEAN, files' = Written(options.output, Java(whole)) PROVE FilesInv'
    <3>1. Java(whole).is = "java" /\ Java(whole).imports = <<>>
      BY DEF Java, Absent
    <3>2. IsSeq(Java(whole).imports)
      BY <3>1, SmallSeqs
    <3> QED
      BY <1>0, <2>1, <3>1, <3>2, WrittenKeepsFilesInv
  <2> QED
    BY <1>0, <1>1, <2>1, Same
<1>4. PlacesInv'
  BY <1>0, <1>1 DEF PlacesInv, Stages
<1>5. found = {} /\ main # <<>> /\ TypeErrors(names, main) = {} /\ (IsInterface(main[1]) => IdsRight(main[1].methods, ids))
  BY <1>0, <1>1 DEF StageInv
<1>6. StageInv'
  BY <1>1, <1>5 DEF StageInv
<1>7. GeneratedInv'
  <2>1. SoundJava(Interface) /\ SoundJava(NoItem) /\ SoundJava(generated)
    BY <1>0, <1>5, InterfaceSound, NoItemSound DEF GeneratedInv
  <2> QED
    BY <1>1, <2>1 DEF GeneratedInv
<1> QED
  BY <1>2, <1>3, <1>4, <1>6, <1>7 DEF CompilerInv

(* preprocess_aidl: a file is parsed.                                      *)
LEMMA PreprocessFileKeepsCompilerInv == CompilerInv /\ PreprocessFile => CompilerInv'
<1> SUFFICES ASSUME CompilerInv, PreprocessFile PROVE CompilerInv'
  OBVIOUS
<1>0. /\ FilesInv /\ NamesInv /\ DocsInv /\ StaleInv /\ CursorInv
      /\ ErrInv /\ PlacesInv /\ IdsInv /\ StageInv /\ GeneratedInv
  BY DEF CompilerInv
<1> DEFINE f == options.filesToPreprocess[cursor[1]]
<1>1. /\ stage = "preprocess" /\ Report(ParseErrors(f))
      /\ document' = IF Content(f).is = "aidl" THEN ItemsOf(f) ELSE document
      /\ UNCHANGED <<commands, files, options, names, imports, stale, onlyParcelable, ids, generated>>
  BY DEF PreprocessFile
<1>2. \/ stage' = "end" /\ result' \in {"1", "abort"} /\ UNCHANGED <<cursor, main>>
      \/ /\ ParseErrors(f) = {} /\ document' # <<>>
         /\ cursor' = <<cursor[1] + 1, 1>> /\ main' = Append(main, document'[1])
         /\ UNCHANGED <<stage, result>>
  BY DEF PreprocessFile, End, Null
<1> HIDE DEF f
<1>3. FilesInv' /\ NamesInv' /\ StaleInv' /\ IdsInv' /\ GeneratedInv'
  BY <1>0, <1>1, Same
<1>4. IsDocument(document') /\ IsDocument(main) /\ imports' = imports
  BY <1>0, <1>1, ItemsTyped DEF DocsInv
<1>5. IsDocument(main')
  <2>1. CASE main' = main
    BY <1>4, <2>1
  <2>2. CASE document' # <<>> /\ main' = Append(main, document'[1])
    <3> DEFINE d == document'
    <3>1. d \in Seq(ToSet(d)) /\ DOMAIN d = 1 .. Len(d) /\ Len(d) \in Nat
      BY <1>4, IsSeqOf DEF IsDocument
    <3>2. Len(d) # 0
      BY <2>2, <3>1, EmptySeq
    <3>3. d[1] \in ToSet(d)
      BY <3>1, <3>2 DEF ToSet
    <3>4. IsItem(d[1])
      BY <1>4, <3>3 DEF IsDocument
    <3> DEFINE x == d[1]
               S == ToSet(main) \cup {x}
    <3>5. main \in Seq(S) /\ x \in S
      BY <1>4, IsSeqOf DEF IsDocument
    <3>6. \A i \in S : IsItem(i)
      BY <1>4, <3>4 DEF IsDocument
    <3> HIDE DEF x, S
    <3>7. Append(main, x) \in Seq(S)
      BY <3>5, AppendProperties
    <3>8. IsDocument(Append(main, x))
      BY <3>6, <3>7, SeqIsSeq DEF IsDocument
    <3> QED
      BY <2>2, <3>8 DEF x
  <2> QED
    BY <1>2, <2>1, <2>2
<1>6. DocsInv'
  BY <1>0, <1>4, <1>5 DEF DocsInv
<1>7. CursorInv'
  <2>1. cursor[1] \in Nat
    BY <1>0 DEF CursorInv
  <2>2. cursor' = cursor \/ cursor' = <<cursor[1] + 1, 1>>
    BY <1>2
  <2> QED
    BY <1>0, <2>1, <2>2 DEF CursorInv
<1>8. ErrInv' /\ (ParseErrors(f) = {} /\ found = {} => found' = {})
  BY <1>0, <1>1, ReportKeepsErrInv
<1>9. PlacesInv'
  <2>1. stage' \in Stages /\ result' \in {"none", "0", "1", "abort"}
    BY <1>0, <1>1, <1>2 DEF PlacesInv, Stages
  <2> QED
    BY <1>0, <1>1, <2>1 DEF PlacesInv
<1>10. StageInv'
  <2>1. (stage' = "end" /\ result' \in {"1", "abort"}) \/ (stage' = "preprocess" /\ found' = {})
    BY <1>0, <1>1, <1>2, <1>8 DEF StageInv
  <2> QED
    BY <2>1 DEF StageInv
<1> QED
  BY <1>3, <1>6, <1>7, <1>8, <1>9, <1>10 DEF CompilerInv

(* preprocess_aidl: the output is written.                                 *)
LEMMA WritePreprocessedKeepsCompilerInv == CompilerInv /\ WritePreprocessed => CompilerInv'
<1> SUFFICES ASSUME CompilerInv, WritePreprocessed PROVE CompilerInv'
  OBVIOUS
<1>0. /\ FilesInv /\ NamesInv /\ DocsInv /\ StaleInv /\ CursorInv
      /\ ErrInv /\ PlacesInv /\ IdsInv /\ StageInv /\ GeneratedInv
  BY DEF CompilerInv
<1> DEFINE ls == [i \in DOMAIN main |-> PreprocessLine(main[i])]
           content == [Absent EXCEPT !.is = "lines", !.lines = ls]
<1>1. /\ stage = "preprocess" /\ stage' = "end" /\ result' \in {"0", "1"}
      /\ UNCHANGED <<commands, options, err, found, names, document, main, imports, cursor, stale, onlyParcelable, ids, generated>>
  BY DEF WritePreprocessed, End
<1>2. files' \in {Written(options.output, content), Written(options.output, Absent), files}
  BY DEF WritePreprocessed
<1>3. NamesInv' /\ DocsInv' /\ StaleInv' /\ CursorInv' /\ ErrInv' /\ IdsInv' /\ GeneratedInv'
  BY <1>0, <1>1, Same
<1>4. IsLines(ls)
  <2>1. IsDocument(main)
    BY <1>0 DEF DocsInv
  <2>2. IsSeq(ls)
    BY <2>1, Mapped DEF IsDocument
  <2>3. ASSUME NEW l \in ToSet(ls) PROVE l.name # "none"
    <3>1. PICK i \in DOMAIN main : l = PreprocessLine(main[i])
      BY DEF ToSet
    <3>2. IsItem(main[i])
      BY <2>1 DEF IsDocument, ToSet
    <3> QED
      BY <3>1, <3>2 DEF PreprocessLine, IsItem
  <2> QED
    BY <2>2, <2>3 DEF IsLines
<1>5. FilesInv'
  <2>1. content.is = "lines" /\ content.lines = ls /\ content.imports = <<>> /\ Absent.is = "absent" /\ Absent.imports = <<>>
    BY DEF Absent
  <2> HIDE DEF content, ls
  <2>2. IsSeq(content.imports) /\ IsSeq(Absent.imports)
    BY <2>1, SmallSeqs
  <2>3. CASE files' = Written(options.output, content)
    BY <1>0, <1>4, <2>1, <2>2, <2>3, WrittenKeepsFilesInv
  <2>4. CASE files' = Written(options.output, Absent)
    BY <1>0, <2>1, <2>2, <2>4, WrittenKeepsFilesInv
  <2> QED
    BY <1>0, <1>2, <2>3, <2>4, Same
<1>6. PlacesInv' /\ StageInv'
  BY <1>0, <1>1 DEF PlacesInv, StageInv, Stages
<1> QED
  BY <1>3, <1>5, <1>6 DEF CompilerInv

(* Every step of the compiler keeps its invariant,                         *)
LEMMA CompilerStepKeepsCompilerInv == CompilerInv /\ CompilerStep => CompilerInv'
BY StartKeepsCompilerInv, ReadPreprocessedLineKeepsCompilerInv, EndPreprocessedFileKeepsCompilerInv,
   EndPreprocessedKeepsCompilerInv, ParseMainKeepsCompilerInv, ParseImportKeepsCompilerInv, EndImportsKeepsCompilerInv,
   CheckFilenamesKeepsCompilerInv, GatherTypesKeepsCompilerInv, EndGatheringKeepsCompilerInv, CheckTypesKeepsCompilerInv,
   ExactlyOneInterfaceKeepsCompilerInv, AssignMethodIdsKeepsCompilerInv, NameOutputKeepsCompilerInv,
   WriteDepFileKeepsCompilerInv, GenerateJavaKeepsCompilerInv, PreprocessFileKeepsCompilerInv,
   WritePreprocessedKeepsCompilerInv
DEF CompilerStep

(* and so does every step of the others,                                   *)
LEMMA CompilerStays == CompilerInv /\ UNCHANGED compilerVars => CompilerInv'
<1> SUFFICES ASSUME CompilerInv, UNCHANGED compilerVars PROVE CompilerInv'
  OBVIOUS
<1>0. /\ FilesInv /\ NamesInv /\ DocsInv /\ StaleInv /\ CursorInv
      /\ ErrInv /\ PlacesInv /\ IdsInv /\ StageInv /\ GeneratedInv
  BY DEF CompilerInv
<1>1. UNCHANGED <<files, stage, err, found, names, document, main, imports, cursor, stale, onlyParcelable, ids, result, generated>>
  BY DEF compilerVars
<1>2. /\ FilesInv' /\ NamesInv' /\ DocsInv' /\ StaleInv' /\ CursorInv'
      /\ ErrInv' /\ IdsInv' /\ GeneratedInv'
  BY <1>0, <1>1, Same
<1>3. PlacesInv' /\ StageInv'
  BY <1>0, <1>1 DEF PlacesInv, StageInv
<1> QED
  BY <1>2, <1>3 DEF CompilerInv

(* which leave the compiler alone.                                         *)
LEMMA BinderLeavesCompiler == BinderStep \/ RpcStep => UNCHANGED compilerVars
<1>1. BinderStep => UNCHANGED compilerVars
  BY DEF BinderStep, BinderCall, LocalCall, MarshallingThrows, Transact, StubTransact, StubOneway, Dies, CallDies, Returns
<1>2. RpcStep => UNCHANGED compilerVars
  BY DEF RpcStep, RpcSend, Process, OnResult, StartListening, StopListening, Push, Deliver
<1> QED
  BY <1>1, <1>2

(* What is gathered, checked, numbered and generated stays in line, for    *)
(* any files, any command lines and any sequence of builds.                *)
THEOREM CompilerInvariant == Spec => []CompilerInv
<1>1. Init => CompilerInv
  BY InitCompilerInv DEF Init
<1>2. CompilerInv /\ [Next]_vars => CompilerInv'
  BY CompilerStepKeepsCompilerInv, CompilerStays, BinderLeavesCompiler DEF Next, Compile, Binder, vars
<1> QED
  BY <1>1, <1>2, PTL DEF Spec

-----------------------------------------------------------------------------
(* What the compiler accepts.                                              *)

(* An argument that was accepted and lacks a call is one of the known      *)
(* gaps.                                                                   *)
LEMMA ArgumentCovered ==
  ASSUME NEW kind \in {"interface", "rpc"}, NEW m, NEW a, ArgErrors(kind, m, a) = {},
         a.type = NoType \/ Good(a.type), a.dimension \in Nat,
         Lacks(a.type, ArgCalls(kind, a))
  PROVE  QualifiedName(a.type) \in Unmarshalled(kind) \/ (kind = "rpc" /\ a.dimension > 0)
<1> DEFINE t == a.type
           n == a.dimension
<1>1. t # NoType /\ t # EventType
  BY DEF ArgErrors
<1>2. /\ Marshalled(kind, t)
      /\ Out(a) /\ n = 0 => t.canBeOut
      /\ n > 0 => CanBeArray(t)
      /\ ~(n > 1)
  <2> HIDE DEF t, n
  <2> QED
    BY <1>1 DEF ArgErrors, t, n
<1>3. Paired(t) /\ Covered(t)
  BY <1>1 DEF Good
<1> SUFFICES ASSUME QualifiedName(t) \notin Unmarshalled(kind), kind = "rpc" => n = 0
             PROVE  FALSE
  OBVIOUS
<1>4. CASE kind = "rpc"
  <2>1. ArgCalls(kind, a) = {"put", "get"}
    BY <1>4 DEF ArgCalls
  <2>2. t.calls.put # "none" /\ t.calls.get = t.calls.put
    BY <1>2, <1>3, <1>4 DEF Marshalled, Covered, Paired
  <2> QED
    BY <2>1, <2>2 DEF Lacks
<1>5. CASE kind = "interface" /\ n = 0
  <2>1. ArgCalls(kind, a) \subseteq {"write", "read"} \cup (IF Out(a) THEN {"readInto"} ELSE {})
    BY <1>5 DEF ArgCalls
  <2>2. t.calls.write # "none" /\ t.calls.read = t.calls.write /\ (Out(a) => t.calls.readInto # "none")
    BY <1>2, <1>3, <1>5 DEF Marshalled, Covered, Paired
  <2> QED
    BY <2>1, <2>2 DEF Lacks
<1>6. CASE kind = "interface" /\ n = 1
  <2>1. ArgCalls(kind, a) \subseteq {"writeArray", "createArray", "readArray"}
    BY <1>6 DEF ArgCalls
  <2>2. t.calls.writeArray # "none" /\ t.calls.createArray = t.calls.writeArray /\ t.calls.readArray = t.calls.writeArray
    BY <1>2, <1>3, <1>6 DEF Covered, Paired
  <2> QED
    BY <2>1, <2>2 DEF Lacks
<1> QED
  BY <1>2, <1>4, <1>5, <1>6

(* The same of the type that a method returns.                             *)
LEMMA ResultCovered ==
  ASSUME NEW kind \in {"interface", "rpc"}, NEW m, ReturnErrors(kind, m) = {}, Good(m.type), m.dimension \in Nat,
         Lacks(m.type, ResultCalls(kind, m))
  PROVE  QualifiedName(m.type) \in Unmarshalled(kind) \/ (kind = "rpc" /\ m.dimension > 0)
<1> DEFINE t == m.type
           n == m.dimension
<1>1. t \notin {VoidType, EventType}
  <2> SUFFICES ASSUME m.type \in {VoidType, EventType} PROVE FALSE
    OBVIOUS
  <2>1. ResultCalls(kind, m) = {}
    BY DEF ResultCalls
  <2> QED
    BY <2>1 DEF Lacks
<1>2. Marshalled(kind, t) /\ (n > 0 => CanBeArray(t))
  <2> HIDE DEF t, n
  <2> QED
    BY <1>1 DEF ReturnErrors, t, n
<1>3. Paired(t) /\ Covered(t)
  BY DEF Good
<1> SUFFICES ASSUME QualifiedName(t) \notin Unmarshalled(kind), kind = "rpc" => n = 0
             PROVE  FALSE
  OBVIOUS
<1>4. CASE kind = "rpc"
  <2>1. ResultCalls(kind, m) = {"put", "get"}
    BY <1>1, <1>4 DEF ResultCalls
  <2>2. t.calls.put # "none" /\ t.calls.get = t.calls.put
    BY <1>2, <1>3, <1>4 DEF Marshalled, Covered, Paired
  <2> QED
    BY <2>1, <2>2 DEF Lacks
<1>5. CASE kind = "interface" /\ n = 0
  <2>1. ResultCalls(kind, m) \subseteq {"write", "read"}
    BY <1>5 DEF ResultCalls
  <2>2. t.calls.write # "none" /\ t.calls.read = t.calls.write
    BY <1>2, <1>3, <1>5 DEF Marshalled, Covered, Paired
  <2> QED
    BY <2>1, <2>2 DEF Lacks
<1>6. CASE kind = "interface" /\ n # 0
  <2>1. ResultCalls(kind, m) \subseteq {"writeArray", "createArray"}
    BY <1>6 DEF ResultCalls
  <2>2. t.calls.writeArray # "none" /\ t.calls.createArray = t.calls.writeArray
    BY <1>2, <1>3, <1>6 DEF Covered, Paired
  <2> QED
    BY <2>1, <2>2 DEF Lacks
<1> QED
  BY <1>4, <1>5, <1>6

(* The fields of a resolved method.                                        *)
LEMMA ResolvedFields ==
  ASSUME NEW known, NEW m \in MethodSet
  PROVE  LET r == Resolved(known, m)
         IN /\ r.type = Search(known, m.type) /\ r.dimension = m.dimension /\ r.name = m.name /\ r.oneway = m.oneway
            /\ DOMAIN r.args = DOMAIN m.args
            /\ \A k \in DOMAIN m.args : r.args[k].type = Search(known, m.args[k].type) /\ r.args[k].dimension \in Nat
<1>1. DOMAIN m = {"name", "type", "dimension", "oneway", "id", "value", "args"} /\ m.args \in Seq(ArgSet)
  BY DEF MethodSet
<1> DEFINE as == [k \in DOMAIN m.args |-> [m.args[k] EXCEPT !.type = Search(known, m.args[k].type)]]
<1>2. ASSUME NEW k \in DOMAIN m.args
      PROVE  as[k].type = Search(known, m.args[k].type) /\ as[k].dimension \in Nat
  <2>1. m.args[k] \in ArgSet
    BY <1>1
  <2>2. DOMAIN m.args[k] = {"direction", "type", "dimension", "name"} /\ m.args[k].dimension \in Nat
    BY <2>1 DEF ArgSet
  <2> QED
    BY <2>2
<1>3. Resolved(known, m) = [m EXCEPT !.type = Search(known, m.type), !.args = as]
  BY DEF Resolved
<1>4. DOMAIN as = DOMAIN m.args
  OBVIOUS
<1> HIDE DEF as
<1> QED
  BY <1>1, <1>2, <1>3, <1>4

(* What check_method accepts and the generated code cannot marshal is one  *)
(* of the known gaps.                                                      *)
LEMMA GapsAreKnown == CompilerInv => GapsKnown
<1> SUFFICES ASSUME CompilerInv, Checked, NEW r \in ResolvedMethods(names, main[1]), Unimplemented(main[1].kind, r)
             PROVE  UsesUnmarshalled(main[1].kind, r) \/ (main[1].kind = "rpc" /\ RpcArray(r))
  BY DEF GapsKnown
<1> DEFINE kind == main[1].kind
<1>1. stage \in {"dep", "java"} /\ kind \in {"interface", "rpc"}
  BY DEF Checked, IsInterface
<1>2. StageInv /\ DocsInv /\ NamesInv
  BY DEF CompilerInv
<1>3. main # <<>> /\ TypeErrors(names, main) = {}
  BY <1>1, <1>2 DEF StageInv
<1>4. MethodErrors(kind, r) = {}
  BY <1>1, <1>2, <1>3, FirstItem, CheckedItem DEF Checked
<1>5. PICK m \in MethodSet : r = Resolved(names, m)
  <2>1. PICK j \in DOMAIN main[1].methods : r = Resolved(names, main[1].methods[j])
    BY DEF ResolvedMethods
  <2>2. main[1].methods \in Seq(MethodSet)
    BY <1>2, <1>3, FirstItem DEF IsItem
  <2>3. main[1].methods[j] \in MethodSet
    BY <2>1, <2>2
  <2> QED
    BY <2>1, <2>3
<1>6. m.dimension \in Nat
  BY DEF MethodSet
<1>7. /\ r.type = NoType \/ Good(r.type)
      /\ r.dimension \in Nat
      /\ \A k \in DOMAIN r.args : (r.args[k].type = NoType \/ Good(r.args[k].type)) /\ r.args[k].dimension \in Nat
  BY <1>2, <1>5, <1>6, ResolvedFields, SearchGood DEF NamesInv
<1>8. r.type # NoType /\ ReturnErrors(kind, r) = {} /\ \A k \in DOMAIN r.args : ArgErrors(kind, r, r.args[k]) = {}
  BY <1>4, CheckedMethod
<1> HIDE DEF kind
<1>9. CASE Lacks(r.type, ResultCalls(kind, r))
  <2>1. QualifiedName(r.type) \in Unmarshalled(kind) \/ (kind = "rpc" /\ r.dimension > 0)
    BY <1>1, <1>7, <1>8, <1>9, ResultCovered DEF kind
  <2> QED
    BY <2>1 DEF UsesUnmarshalled, RpcArray, kind
<1>10. ASSUME NEW k \in DOMAIN r.args, Lacks(r.args[k].type, ArgCalls(kind, r.args[k]))
       PROVE  UsesUnmarshalled(kind, r) \/ (kind = "rpc" /\ RpcArray(r))
  <2>1. QualifiedName(r.args[k].type) \in Unmarshalled(kind) \/ (kind = "rpc" /\ r.args[k].dimension > 0)
    BY <1>1, <1>7, <1>8, <1>10, ArgumentCovered DEF kind
  <2> QED
    BY <2>1 DEF UsesUnmarshalled, RpcArray
<1> QED
  BY <1>9, <1>10 DEF Unimplemented, kind

(* No two methods of the class that is generated share a transaction code. *)
LEMMA CodesAreDistinct == CompilerInv => CodesDistinct
<1> SUFFICES ASSUME CompilerInv, Checked, main[1].kind = "interface"
             PROVE  /\ \A i, j \in DOMAIN ids : i # j => ids[i] # ids[j]
                    /\ \A i \in DOMAIN ids : ids[i] \in 0 .. MaxUserSetMethodId
  BY DEF CodesDistinct
<1>1. StageInv /\ DocsInv
  BY DEF CompilerInv
<1>2. main # <<>> /\ IdsRight(main[1].methods, ids)
  BY <1>1 DEF StageInv, Checked
<1>3. main[1].methods \in Seq(MethodSet) /\ Len(main[1].methods) <= MaxUserSetMethodId + 1
  BY <1>1, <1>2, FirstItem DEF IsItem
<1> QED
  BY <1>2, <1>3, IdsDistinct

(* No class is generated once an error was reported that counts.           *)
LEMMA ErrorsDoStop == CompilerInv => ErrorsStop
BY DEF CompilerInv, StageInv, ErrorsStop

-----------------------------------------------------------------------------
(* The rpc code.                                                           *)

(* A compiler that has ended takes no step, but starts anew.               *)
LEMMA CompilerIsDone == CompilerStep => ~(commands = <<>> /\ stage = "end")
BY DEF CompilerStep, Start, ReadPreprocessedLine, EndPreprocessedFile, EndPreprocessed, ParseMain, ParseImport, EndImports,
       CheckFilenames, GatherTypes, EndGathering, CheckTypes, ExactlyOneInterface, AssignMethodIds, NameOutput, WriteDepFile,
       GenerateJava, PreprocessFile, WritePreprocessed

(* A sequence without one of its elements.                                 *)
LEMMA AllButOne ==
  ASSUME NEW s, IsSeq(s), NEW n \in DOMAIN s
  PROVE  IsSeq(RemoveAt(s, n)) /\ ToSet(RemoveAt(s, n)) \subseteq ToSet(s)
<1>1. s \in Seq(ToSet(s)) /\ n \in 1 .. Len(s) /\ Len(s) \in Nat
  BY IsSeqOf
<1> DEFINE S == ToSet(s)
           a == SubSeq(s, 1, n - 1)
           b == SubSeq(s, n + 1, Len(s))
<1>2. \A i \in 1 .. Len(s) : s[i] \in S
  BY <1>1
<1> HIDE DEF S
<1>3. a \in Seq(S)
  BY <1>1, <1>2, SubSeqProperties DEF S
<1>4. b \in Seq(S)
  BY <1>1, <1>2, SubSeqProperties DEF S
<1> HIDE DEF a, b
<1>5. a \o b \in Seq(S)
  BY <1>3, <1>4, ConcatProperties
<1>6. RemoveAt(s, n) = a \o b
  BY DEF RemoveAt, a, b
<1> QED
  BY <1>5, <1>6, SeqIsSeq DEF S

(* A sequence with one more element at its end.                            *)
LEMMA OneMore ==
  ASSUME NEW s, IsSeq(s), NEW x
  PROVE  IsSeq(Append(s, x)) /\ ToSet(Append(s, x)) \subseteq ToSet(s) \cup {x}
<1> DEFINE S == ToSet(s) \cup {x}
<1>1. s \in Seq(S) /\ x \in S
  BY IsSeqOf
<1> HIDE DEF S
<1>2. Append(s, x) \in Seq(S)
  BY <1>1, AppendProperties
<1> QED
  BY <1>2, SeqIsSeq DEF S

(* What was put under a key is got from there, whatever is put beside it   *)
(* under other keys.                                                       *)
LEMMA GetPut ==
  ASSUME NEW data, NEW key, NEW t, NEW u, NEW v, t.calls.get = t.calls.put,
         Put(key, t, v) \subseteq data,
         \A d \in data : d.key = key => d \in Put(key, t, v)
  PROVE  Get(data, key, t).ok /\ Get(data, key, t).value = v
<1> DEFINE e == [key |-> key, format |-> t.calls.put, value |-> v]
<1>1. Put(key, t, v) = {e}
  BY DEF Put
<1>2. e \in data /\ e.key = key /\ e.format = t.calls.put /\ e.value = v
  BY <1>1
<1> HIDE DEF e
<1>3. (CHOOSE d \in data : d.key = key) = e
  BY <1>1, <1>2
<1>4. Get(data, key, t) = [ok |-> e.format = t.calls.get, value |-> e.value]
  BY <1>2, <1>3 DEF Get
<1>5. Get(data, key, t).ok
  <2>1. \A x, y : [ok |-> x, value |-> y].ok = x
    OBVIOUS
  <2>2. Get(data, key, t).ok = (e.format = t.calls.get)
    BY <1>4, <2>1, Zenon
  <2>3. e.format = t.calls.get
    BY <1>2
  <2> QED
    BY <2>2, <2>3, Zenon
<1>6. Get(data, key, t).value = e.value
  BY <1>4
<1> QED
  BY <1>2, <1>5, <1>6

(* The argument k is found in the data with its value.                     *)
Finds(data, m, values, k) ==
  Get(data, m.args[k].name, m.args[k].type).ok /\ Get(data, m.args[k].name, m.args[k].type).value = values[k]

(* Nothing in the data has this key.                                       *)
Clear(data, key) == \A d \in data : d.key # key

(* An argument that was put under its name is found, whatever is put under *)
(* other names.                                                            *)
LEMMA GetArg ==
  ASSUME NEW m, SoundMethod("rpc", m), Compiles("rpc", m), NEW values, NEW passed, passed \subseteq DOMAIN m.args,
         NEW k \in passed, NEW more, Clear(more, m.args[k].name)
  PROVE  Finds(PutArgs(m, values, passed) \cup more, m, values, k)
<1> DEFINE key == m.args[k].name
           t == m.args[k].type
           put(l) == Put(m.args[l].name, m.args[l].type, values[l])
           data == UNION {put(l) : l \in passed} \cup more
<1>1. t.calls.get = t.calls.put
  BY DEF SoundMethod, Paired
<1>2. \A l \in passed : l # k => m.args[l].name # key
  BY DEF Compiles
<1>3. Put(key, t, values[k]) \subseteq (UNION {put(l) : l \in passed}) \cup more
  <2> HIDE DEF put
  <2>1. put(k) \subseteq UNION {put(l) : l \in passed}
    OBVIOUS
  <2> QED
    BY <2>1 DEF put
<1>4. ASSUME NEW d \in (UNION {put(l) : l \in passed}) \cup more, d.key = key
      PROVE  d \in Put(key, t, values[k])
  <2>1. d \notin more
    BY <1>4 DEF Clear
  <2>2. PICK l \in passed : d \in put(l)
    <3> HIDE DEF put
    <3> QED
      BY <1>4, <2>1
  <2>3. d.key = m.args[l].name
    BY <2>2 DEF Put
  <2>4. l = k
    BY <1>2, <1>4, <2>3
  <2> QED
    BY <2>2, <2>4
<1>5. PutArgs(m, values, passed) = UNION {put(l) : l \in passed}
  BY DEF PutArgs
<1> HIDE DEF put, key, t
<1>6. Get((UNION {put(l) : l \in passed}) \cup more, key, t).ok /\ Get((UNION {put(l) : l \in passed}) \cup more, key, t).value = values[k]
  BY <1>1, <1>3, <1>4, GetPut
<1> QED
  BY <1>5, <1>6 DEF key, t, Finds

(* The messages that are under way: they hold what was passed.             *)
IsRequest(q) ==
  LET m == Methods[q.method]
  IN /\ q.method \in DOMAIN Methods /\ ~IsEvent(m)
     /\ q.action = m.name /\ q.data = PutArgs(m, q.args, Ins(m))
     /\ q.handler = IF NeedsResult(m) THEN q.method ELSE 0

(* What the skeleton puts into its answer.                                 *)
AnswerData(m, outs, r) ==
  PutArgs(m, outs, Outs(m)) \cup (IF IsVoid(m) THEN {} ELSE Put("_result", m.type, r))

(* An answer to a request: it saw what was sent and carries what it made   *)
(* of it.                                                                  *)
IsAnswer(a) ==
  LET m == Methods[a.request.method]
  IN /\ IsRequest(a.request) /\ a.request.handler # 0
     /\ \A k \in Ins(m) : a.saw[k] = a.request.args[k]
     /\ IsVoid(m) => a.result = "none"
     /\ a.data = AnswerData(m, a.outs, a.result)

(* An event on its way, with all its arguments.                            *)
IsPushed(e) ==
  LET m == Methods[e.method]
  IN /\ e.method \in DOMAIN Methods /\ IsEvent(m)
     /\ e.action = m.name /\ e.data = PutArgs(m, e.args, DOMAIN m.args)
     /\ e.args = [k \in DOMAIN m.args |-> e.args[k]]

(* Nothing is under way.                                                   *)
RpcQuiet == requests = <<>> /\ results = <<>> /\ events = <<>> /\ answer.method = 0 /\ event.method = 0

(* The messages that are under way.                                        *)
MessagesInv ==
  /\ IsSeq(requests) /\ \A q \in ToSet(requests) : IsRequest(q)
  /\ IsSeq(results) /\ \A a \in ToSet(results) : IsAnswer(a)
  /\ IsSeq(events) /\ \A e \in ToSet(events) : IsPushed(e)

(* All of it, with the faithfulness of the answers and events received     *)
(* last.                                                                   *)
RpcInv ==
  /\ Running("rpc") \/ RpcQuiet
  /\ MessagesInv /\ AnswersFaithful /\ KeysAgree /\ OneListener
  /\ sent \in 0 .. MaxCalls /\ presenter \in 0 .. sent

(* The invariant holds at the start.                                       *)
LEMMA InitRpcInv == RpcInit => RpcInv
<1> SUFFICES ASSUME RpcInit PROVE RpcInv
  OBVIOUS
<1>1. /\ requests = <<>> /\ results = <<>> /\ presenter = 0 /\ registered = {} /\ events = <<>>
      /\ sent = 0 /\ answer = NoAnswer /\ event = NoAnswer
  BY DEF RpcInit
<1>2. KeysAgree
  BY Zenon DEF RpcInit, KeysAgree
<1>3. answer.method = 0 /\ event.method = 0
  BY <1>1 DEF NoAnswer
<1>4. RpcQuiet
  BY <1>1, <1>3 DEF RpcQuiet
<1>5. MessagesInv
  BY <1>1, SmallSeqs DEF MessagesInv
<1>6. AnswersFaithful
  BY <1>3 DEF AnswersFaithful
<1>7. OneListener
  BY <1>1 DEF OneListener
<1>8. sent \in 0 .. MaxCalls /\ presenter \in 0 .. sent
  BY <1>1, MaxCallsAssumption
<1> QED
  BY <1>2, <1>4, <1>5, <1>6, <1>7, <1>8 DEF RpcInv

(* Before the Java runs nothing is under way; once it runs the compiler    *)
(* has done what it had to.                                                *)
LEMMA CompileKeepsRpcInv == RpcInv /\ CompilerStep /\ UNCHANGED rpcVars => RpcInv'
<1> SUFFICES ASSUME RpcInv, CompilerStep, UNCHANGED rpcVars PROVE RpcInv'
  OBVIOUS
<1>1. UNCHANGED <<requests, results, presenter, registered, events, sent, answer, event, keys>>
  BY DEF rpcVars
<1>2. ~Running("rpc")
  BY CompilerIsDone DEF Running
<1>3. RpcQuiet /\ KeysAgree /\ OneListener /\ sent \in 0 .. MaxCalls /\ presenter \in 0 .. sent
  BY <1>2 DEF RpcInv
<1>4. RpcQuiet'
  BY <1>1, <1>3 DEF RpcQuiet
<1>5. MessagesInv'
  BY <1>4, SmallSeqs DEF MessagesInv, RpcQuiet
<1>6. AnswersFaithful'
  BY <1>4 DEF AnswersFaithful, RpcQuiet
<1>7. KeysAgree'
  BY <1>1, <1>3, Zenon DEF KeysAgree
<1>8. OneListener' /\ sent' \in 0 .. MaxCalls /\ presenter' \in 0 .. sent'
  BY <1>1, <1>3 DEF OneListener
<1> QED
  BY <1>4, <1>5, <1>6, <1>7, <1>8 DEF RpcInv

(* What the compiler's variables say stays as it is.                       *)
LEMMA JavaStays ==
  ASSUME UNCHANGED compilerVars
  PROVE  /\ Running("rpc")' = Running("rpc") /\ Running("interface")' = Running("interface")
         /\ Methods' = Methods
         /\ \A x : IsRequest(x)' = IsRequest(x) /\ IsAnswer(x)' = IsAnswer(x) /\ IsPushed(x)' = IsPushed(x)
<1>1. commands' = commands /\ stage' = stage /\ generated' = generated
  BY DEF compilerVars
<1> QED
  BY <1>1 DEF Running, Methods, IsRequest, IsAnswer, IsPushed, Compiles, Variables, Undeclared, StubLoads, ProxyLoads, Oneway,
     Ins, Outs, NeedsResult, IsVoid, IsEvent, PutArgs, Put, AnswerData

(* What is known of a method while the Java of its interface runs.         *)
LEMMA RunningMethod ==
  ASSUME CompilerInv, NEW kind, Running(kind), NEW i \in DOMAIN Methods
  PROVE  SoundMethod(kind, Methods[i]) /\ Compiles(kind, Methods[i])
BY DEF CompilerInv, GeneratedInv, SoundJava, Running, Methods

(* Names find methods.                                                     *)
LEMMA NamedIsOne ==
  ASSUME CompilerInv, NEW i \in DOMAIN Methods, NEW j \in Named(Methods[i].name)
  PROVE  j = i
BY DEF CompilerInv, GeneratedInv, SoundJava, Methods, Named

(* The tuples of some sets.                                                *)
LEMMA TuplesAre ==
  ASSUME NEW sets, NEW s \in Tuples(sets)
  PROVE  s = [k \in DOMAIN sets |-> s[k]] /\ \A k \in DOMAIN sets : s[k] \in sets[k]
BY DEF Tuples

(* The arguments of a call.                                                *)
LEMMA ArgsAre ==
  ASSUME NEW m, NEW args \in ArgsOf(m)
  PROVE  /\ args = [k \in DOMAIN m.args |-> args[k]]
         /\ \A k \in DOMAIN m.args : args[k] \in ValuesOf(m.args[k].type, m.args[k].dimension)
<1> DEFINE sets == [k \in DOMAIN m.args |-> ValuesOf(m.args[k].type, m.args[k].dimension)]
<1>1. args \in Tuples(sets) /\ DOMAIN sets = DOMAIN m.args
  BY DEF ArgsOf
<1>2. \A k \in DOMAIN m.args : sets[k] = ValuesOf(m.args[k].type, m.args[k].dimension)
  OBVIOUS
<1> HIDE DEF sets
<1> QED
  BY <1>1, <1>2, TuplesAre

(* An argument is found among the arguments alone.                         *)
LEMMA GetArgAlone ==
  ASSUME NEW m, SoundMethod("rpc", m), Compiles("rpc", m), NEW values, NEW passed, passed \subseteq DOMAIN m.args,
         NEW k \in passed
  PROVE  Finds(PutArgs(m, values, passed), m, values, k)
<1> DEFINE nothing == {}
           key == m.args[k].name
           data == PutArgs(m, values, passed)
<1>1. data \cup nothing = data
  OBVIOUS
<1>2. \A d \in nothing : d.key # key
  OBVIOUS
<1> HIDE DEF nothing, key
<1>3. Clear(nothing, key)
  BY <1>2 DEF Clear
<1> HIDE DEF data
<1>4. Finds(PutArgs(m, values, passed) \cup nothing, m, values, k)
  BY <1>3, GetArg DEF key
<1>5. Finds(data \cup nothing, m, values, k)
  BY <1>4 DEF data
<1> QED
  BY <1>1, <1>5 DEF data

(* What process reads is what was passed.                                  *)
LEMMA ReadsWhatWasPut ==
  ASSUME NEW m, SoundMethod("rpc", m), Compiles("rpc", m), NEW values, NEW passed, passed \subseteq DOMAIN m.args,
         Ins(m) \subseteq passed
  PROVE  LET read == ReadArgs(m, PutArgs(m, values, passed))
         IN /\ DOMAIN read = DOMAIN m.args
            /\ \A k \in DOMAIN read : read[k].ok
            /\ \A k \in Ins(m) : read[k].value = values[k]
<1> DEFINE data == PutArgs(m, values, passed)
           got(k) == IF In(m.args[k]) THEN Get(data, m.args[k].name, m.args[k].type) ELSE [ok |-> TRUE, value |-> "new"]
           read == ReadArgs(m, data)
<1>1. read = [k \in DOMAIN m.args |-> got(k)]
  BY DEF ReadArgs
<1>2. ASSUME NEW k \in Ins(m) PROVE got(k).ok /\ got(k).value = values[k]
  <2>1. k \in passed
    OBVIOUS
  <2>6. Finds(data, m, values, k)
    BY <2>1, GetArgAlone
  <2>4. In(m.args[k])
    BY DEF Ins
  <2>5. got(k) = Get(data, m.args[k].name, m.args[k].type)
    BY <2>4
  <2> HIDE DEF data, got
  <2> QED
    BY <2>5, <2>6 DEF Finds
<1>3. ASSUME NEW k \in DOMAIN m.args, k \notin Ins(m) PROVE got(k).ok
  <2>1. ~In(m.args[k])
    BY <1>3 DEF Ins
  <2>2. got(k) = [ok |-> TRUE, value |-> "new"]
    BY <2>1
  <2> HIDE DEF got
  <2> QED
    BY <2>2
<1>4. Ins(m) \subseteq DOMAIN m.args
  BY DEF Ins
<1> HIDE DEF got, read
<1>5. DOMAIN read = DOMAIN m.args /\ \A k \in DOMAIN m.args : read[k] = got(k)
  BY <1>1
<1>6. \A k \in DOMAIN read : read[k].ok
  BY <1>2, <1>3, <1>5
<1>7. \A k \in Ins(m) : read[k].value = values[k]
  BY <1>2, <1>4, <1>5
<1> QED
  BY <1>5, <1>6, <1>7 DEF read

(* The client sends a request.                                             *)
LEMMA RpcSendKeepsRpcInv == CompilerInv /\ RpcInv /\ RpcSend => RpcInv'
<1> SUFFICES ASSUME CompilerInv, RpcInv, RpcSend PROVE RpcInv'
  OBVIOUS
<1>0. MessagesInv /\ AnswersFaithful /\ KeysAgree /\ OneListener /\ sent \in 0 .. MaxCalls /\ presenter \in 0 .. sent
  BY DEF RpcInv
<1>1. /\ sent < MaxCalls /\ Running("rpc") /\ sent' = sent + 1
      /\ UNCHANGED <<results, presenter, registered, events, answer, event, keys, compilerVars, binderVars>>
  BY DEF RpcSend
<1>2. PICK i \in DOMAIN Methods : \E args \in ArgsOf(Methods[i]) :
         /\ ~IsEvent(Methods[i])
         /\ requests' = Append(requests, [action |-> Methods[i].name, data |-> PutArgs(Methods[i], args, Ins(Methods[i])), method |-> i,
                                          args |-> args, handler |-> IF NeedsResult(Methods[i]) THEN i ELSE 0])
  BY DEF RpcSend
<1>3. PICK args \in ArgsOf(Methods[i]) :
         /\ ~IsEvent(Methods[i])
         /\ requests' = Append(requests, [action |-> Methods[i].name, data |-> PutArgs(Methods[i], args, Ins(Methods[i])), method |-> i,
                                          args |-> args, handler |-> IF NeedsResult(Methods[i]) THEN i ELSE 0])
  BY <1>2
<1> DEFINE q == [action |-> Methods[i].name, data |-> PutArgs(Methods[i], args, Ins(Methods[i])), method |-> i,
                 args |-> args, handler |-> IF NeedsResult(Methods[i]) THEN i ELSE 0]
<1>4. IsRequest(q)
  BY <1>3 DEF IsRequest
<1> HIDE DEF q
<1>5. UNCHANGED compilerVars
  BY <1>1
<1>6. Running("rpc")' /\ Methods' = Methods
  BY <1>1, <1>5, JavaStays
<1>7. MessagesInv'
  <2>1. IsSeq(requests') /\ \A x \in ToSet(requests') : IsRequest(x)
    <3>1. requests' = Append(requests, q) /\ IsSeq(requests) /\ \A x \in ToSet(requests) : IsRequest(x)
      BY <1>0, <1>3 DEF MessagesInv, q
    <3> QED
      BY <1>4, <3>1, OneMore
  <2>2. results' = results /\ events' = events
    BY <1>1
  <2> QED
    BY <1>0, <1>5, <2>1, <2>2, JavaStays DEF MessagesInv
<1>8. AnswersFaithful' /\ OneListener'
  BY <1>0, <1>1, <1>6 DEF AnswersFaithful, OneListener
<1>9. KeysAgree'
  BY <1>0, <1>1, Zenon DEF KeysAgree
<1>10. sent' \in 0 .. MaxCalls /\ presenter' \in 0 .. sent'
  BY <1>0, <1>1, MaxCallsAssumption
<1> QED
  BY <1>6, <1>7, <1>8, <1>9, <1>10 DEF RpcInv

(* The client starts to listen for events, or stops.                       *)
LEMMA ListeningKeepsRpcInv == RpcInv /\ (StartListening \/ StopListening) => RpcInv'
<1> SUFFICES ASSUME RpcInv, StartListening \/ StopListening PROVE RpcInv'
  OBVIOUS
<1>0. MessagesInv /\ AnswersFaithful /\ KeysAgree /\ OneListener /\ sent \in 0 .. MaxCalls /\ presenter \in 0 .. sent
  BY DEF RpcInv
<1>1. UNCHANGED <<requests, results, events, answer, event, keys, compilerVars, binderVars>>
  BY DEF StartListening, StopListening
<1>2. \/ sent < MaxCalls /\ sent' = sent + 1 /\ presenter' = sent' /\ registered' = (registered \ {presenter}) \cup {presenter'}
      \/ sent' = sent /\ presenter' = 0 /\ registered' = registered \ {presenter}
  BY DEF StartListening, StopListening
<1>3. UNCHANGED compilerVars
  BY <1>1
<1>4. Running("rpc") => Running("rpc")'
  BY <1>3, JavaStays
<1>5. Methods' = Methods
  BY <1>3, JavaStays
<1>6. MessagesInv'
  BY <1>0, <1>1, <1>3, JavaStays DEF MessagesInv
<1>7. AnswersFaithful'
  BY <1>0, <1>1, <1>5 DEF AnswersFaithful
<1>8. KeysAgree'
  BY <1>0, <1>1, Zenon DEF KeysAgree
<1>9. OneListener' /\ sent' \in 0 .. MaxCalls /\ presenter' \in 0 .. sent'
  BY <1>0, <1>2, MaxCallsAssumption DEF OneListener
<1>10. Running("rpc")' \/ RpcQuiet'
  BY <1>1, <1>4 DEF RpcInv, RpcQuiet
<1> QED
  BY <1>6, <1>7, <1>8, <1>9, <1>10 DEF RpcInv

(* All arguments of an event are passed in.                                *)
LEMMA EventsGoIn ==
  ASSUME NEW m, SoundMethod("rpc", m), IsEvent(m)
  PROVE  Ins(m) = DOMAIN m.args
<1>1. \A k \in DOMAIN m.args : ~Out(m.args[k])
  BY DEF SoundMethod, IsEvent
<1>2. \A a : ~Out(a) => In(a)
  BY DEF In, Out
<1> QED
  BY <1>1, <1>2 DEF Ins

(* The service pushes an event.                                            *)
LEMMA PushKeepsRpcInv == CompilerInv /\ RpcInv /\ Push => RpcInv'
<1> SUFFICES ASSUME CompilerInv, RpcInv, Push PROVE RpcInv'
  OBVIOUS
<1>0. MessagesInv /\ AnswersFaithful /\ KeysAgree /\ OneListener /\ sent \in 0 .. MaxCalls /\ presenter \in 0 .. sent
  BY DEF RpcInv
<1>1. /\ sent < MaxCalls /\ Running("rpc") /\ sent' = sent + 1
      /\ UNCHANGED <<requests, results, presenter, registered, answer, event, keys, compilerVars, binderVars>>
  BY DEF Push
<1>20. PICK i \in DOMAIN Methods : \E args \in ArgsOf(Methods[i]) :
         /\ IsEvent(Methods[i])
         /\ events' = Append(events, [action |-> Methods[i].name, data |-> PutArgs(Methods[i], args, DOMAIN args),
                                      method |-> i, args |-> args])
  BY DEF Push
<1>2. PICK args \in ArgsOf(Methods[i]) :
         /\ IsEvent(Methods[i])
         /\ events' = Append(events, [action |-> Methods[i].name, data |-> PutArgs(Methods[i], args, DOMAIN args),
                                      method |-> i, args |-> args])
  BY <1>20
<1> DEFINE e == [action |-> Methods[i].name, data |-> PutArgs(Methods[i], args, DOMAIN args), method |-> i, args |-> args]
<1>3. args = [k \in DOMAIN Methods[i].args |-> args[k]]
  BY ArgsAre
<1>4. IsPushed(e)
  <2>1. DOMAIN args = DOMAIN Methods[i].args
    BY <1>3
  <2>2. e.action = Methods[i].name /\ e.data = PutArgs(Methods[i], args, DOMAIN args) /\ e.method = i /\ e.args = args
    OBVIOUS
  <2> HIDE DEF e
  <2> QED
    BY <1>2, <1>3, <2>1, <2>2 DEF IsPushed
<1> HIDE DEF e
<1>5. UNCHANGED compilerVars
  BY <1>1
<1>6. Running("rpc")' /\ Methods' = Methods
  BY <1>1, <1>5, JavaStays
<1>7. MessagesInv'
  <2>1. IsSeq(events') /\ \A x \in ToSet(events') : IsPushed(x)
    <3>1. events' = Append(events, e) /\ IsSeq(events) /\ \A x \in ToSet(events) : IsPushed(x)
      BY <1>0, <1>2 DEF MessagesInv, e
    <3> QED
      BY <1>4, <3>1, OneMore
  <2>2. results' = results /\ requests' = requests
    BY <1>1
  <2> QED
    BY <1>0, <1>5, <2>1, <2>2, JavaStays DEF MessagesInv
<1>8. AnswersFaithful' /\ OneListener'
  BY <1>0, <1>1, <1>6 DEF AnswersFaithful, OneListener
<1>9. KeysAgree'
  BY <1>0, <1>1, Zenon DEF KeysAgree
<1>10. sent' \in 0 .. MaxCalls /\ presenter' \in 0 .. sent'
  BY <1>0, <1>1, MaxCallsAssumption
<1> QED
  BY <1>6, <1>7, <1>8, <1>9, <1>10 DEF RpcInv

(* The skeleton takes a request and answers it.                            *)
LEMMA ProcessKeepsRpcInv == CompilerInv /\ RpcInv /\ Process => RpcInv'
<1> SUFFICES ASSUME CompilerInv, RpcInv, Process PROVE RpcInv'
  OBVIOUS
<1>0. MessagesInv /\ AnswersFaithful /\ KeysAgree /\ OneListener /\ sent \in 0 .. MaxCalls /\ presenter \in 0 .. sent
  BY DEF RpcInv
<1>1. UNCHANGED <<presenter, registered, events, sent, answer, event, compilerVars, binderVars>>
  BY DEF Process
<1>2. PICK n \in DOMAIN requests : \E j \in Named(requests[n].action) :
       LET q == requests[n]
           m == Methods[j]
           read == ReadArgs(m, q.data)
           saw == [k \in DOMAIN m.args |-> read[k].value]
       IN /\ keys' = (keys /\ \A k \in DOMAIN read : read[k].ok)
          /\ requests' = RemoveAt(requests, n)
          /\ \/ \E outs \in Outcomes(m, saw) : \E r \in Results(m) :
                  results' = IF q.handler = 0 THEN results
                             ELSE Append(results, [request |-> q, saw |-> saw, outs |-> outs, result |-> r,
                                            data |-> PutArgs(m, outs, Outs(m))
                                                     \cup (IF IsVoid(m) THEN {} ELSE Put("_result", m.type, r))])
             \/ UNCHANGED results
  BY DEF Process
<1> DEFINE q == requests[n]
           m == Methods[q.method]
           read == ReadArgs(m, q.data)
           saw == [k \in DOMAIN m.args |-> read[k].value]
<1>3. IsRequest(q)
  BY <1>0 DEF MessagesInv, ToSet
<1>4. q.method \in DOMAIN Methods /\ q.action = m.name /\ q.data = PutArgs(m, q.args, Ins(m)) /\ ~IsEvent(m)
      /\ q.handler = IF NeedsResult(m) THEN q.method ELSE 0
  BY <1>3 DEF IsRequest
<1>5. \A j \in Named(q.action) : j = q.method
  BY <1>4, NamedIsOne
<1>6. /\ keys' = (keys /\ \A k \in DOMAIN read : read[k].ok)
      /\ requests' = RemoveAt(requests, n)
      /\ \/ \E outs \in Outcomes(m, saw) : \E r \in Results(m) :
              results' = IF q.handler = 0 THEN results
                         ELSE Append(results, [request |-> q, saw |-> saw, outs |-> outs, result |-> r,
                                        data |-> PutArgs(m, outs, Outs(m))
                                                 \cup (IF IsVoid(m) THEN {} ELSE Put("_result", m.type, r))])
         \/ UNCHANGED results
  BY <1>2, <1>5
<1>7. Running("rpc")
  <2>1. requests # <<>>
    BY <1>2
  <2> QED
    BY <2>1 DEF RpcInv, RpcQuiet
<1>8. SoundMethod("rpc", m) /\ Compiles("rpc", m)
  BY <1>4, <1>7, RunningMethod
<1>9. /\ DOMAIN read = DOMAIN m.args
      /\ \A k \in DOMAIN read : read[k].ok
      /\ \A k \in Ins(m) : read[k].value = q.args[k]
  <2>1. Ins(m) \subseteq DOMAIN m.args
    BY DEF Ins
  <2> HIDE DEF m, q
  <2> QED
    BY <1>4, <1>8, <2>1, ReadsWhatWasPut
<1>10. KeysAgree'
  <2>1. keys
    BY <1>0 DEF KeysAgree
  <2> HIDE DEF read
  <2> QED
    BY <1>6, <1>9, <2>1, Zenon DEF KeysAgree
<1>11. \A k \in Ins(m) : saw[k] = q.args[k]
  <2>1. Ins(m) \subseteq DOMAIN m.args
    BY DEF Ins
  <2> HIDE DEF read, m, q
  <2> QED
    BY <1>9, <2>1
<1>12. UNCHANGED compilerVars
  BY <1>1
<1>13. IsSeq(requests') /\ \A x \in ToSet(requests') : IsRequest(x)
  <2>1. IsSeq(requests) /\ \A x \in ToSet(requests) : IsRequest(x)
    BY <1>0 DEF MessagesInv
  <2> QED
    BY <1>2, <1>6, <2>1, AllButOne
<1> HIDE DEF read, saw, m, q
<1>14. IsSeq(results') /\ \A x \in ToSet(results') : IsAnswer(x)
  <2>1. IsSeq(results) /\ \A x \in ToSet(results) : IsAnswer(x)
    BY <1>0 DEF MessagesInv
  <2>2. CASE results' = results
    BY <2>1, <2>2
  <2>3. ASSUME NEW outs \in Outcomes(m, saw), NEW r \in Results(m), q.handler # 0,
               NEW a, a = [request |-> q, saw |-> saw, outs |-> outs, result |-> r,
                           data |-> PutArgs(m, outs, Outs(m)) \cup (IF IsVoid(m) THEN {} ELSE Put("_result", m.type, r))],
               results' = Append(results, a)
        PROVE  IsSeq(results') /\ \A x \in ToSet(results') : IsAnswer(x)
    <3>1. IsVoid(m) => r = "none"
      BY <1>4, <2>3 DEF IsVoid, IsEvent, Results, HasResult
    <3>2. /\ a.request = q /\ a.saw = saw /\ a.outs = outs /\ a.result = r
          /\ a.data = PutArgs(m, outs, Outs(m)) \cup (IF IsVoid(m) THEN {} ELSE Put("_result", m.type, r))
      BY <2>3
    <3>3. IsAnswer(a)
      BY <1>3, <1>11, <2>3, <3>1, <3>2 DEF IsAnswer, AnswerData, m
    <3>4. results' = Append(results, a)
      BY <2>3
    <3>5. IsSeq(Append(results, a)) /\ ToSet(Append(results, a)) \subseteq ToSet(results) \cup {a}
      BY <2>1, OneMore
    <3> QED
      BY <2>1, <3>3, <3>4, <3>5
  <2> QED
    BY <1>6, <2>2, <2>3
<1>15. MessagesInv'
  <2>1. events' = events
    BY <1>1
  <2> QED
    BY <1>0, <1>12, <1>13, <1>14, <2>1, JavaStays DEF MessagesInv
<1>16. Running("rpc")' /\ Methods' = Methods
  BY <1>7, <1>12, JavaStays
<1>17. AnswersFaithful' /\ OneListener'
  BY <1>0, <1>1, <1>16 DEF AnswersFaithful, OneListener
<1>18. sent' \in 0 .. MaxCalls /\ presenter' \in 0 .. sent'
  BY <1>0, <1>1
<1> QED
  BY <1>10, <1>15, <1>16, <1>17, <1>18 DEF RpcInv

(* What the dispatcher reads of an answer is what was answered.            *)
LEMMA AnswerRead ==
  ASSUME NEW m, SoundMethod("rpc", m), Compiles("rpc", m), ~IsVoid(m) => NeedsResult(m), NEW outs, NEW r
  PROVE  /\ ~IsVoid(m) => /\ Get(AnswerData(m, outs, r), "_result", m.type).ok
                          /\ Get(AnswerData(m, outs, r), "_result", m.type).value = r
         /\ \A k \in Outs(m) : Finds(AnswerData(m, outs, r), m, outs, k)
<1> DEFINE data == AnswerData(m, outs, r)
<1>9. data = PutArgs(m, outs, Outs(m)) \cup (IF IsVoid(m) THEN {} ELSE Put("_result", m.type, r))
  BY DEF AnswerData
<1> HIDE DEF data
<1>0. Outs(m) \subseteq DOMAIN m.args
  BY DEF Outs
<1>1. ~IsVoid(m) => \A k \in DOMAIN m.args : m.args[k].name # "_result"
  BY DEF Compiles, Variables
<1> DEFINE more == IF IsVoid(m) THEN {} ELSE Put("_result", m.type, r)
<1>2. \A k \in Outs(m) : Clear(more, m.args[k].name)
  <2>1. \A d \in more : ~IsVoid(m) /\ d.key = "_result"
    BY DEF Put
  <2> HIDE DEF more
  <2> QED
    BY <1>0, <1>1, <2>1 DEF Clear
<1>3. ASSUME ~IsVoid(m) PROVE Get(data, "_result", m.type).ok /\ Get(data, "_result", m.type).value = r
  <2>1. more = Put("_result", m.type, r)
    BY <1>3
  <2>2. \A d \in PutArgs(m, outs, Outs(m)) : d.key # "_result"
    <3>1. ASSUME NEW k \in Outs(m), NEW d \in Put(m.args[k].name, m.args[k].type, outs[k]) PROVE d.key # "_result"
      <4>1. d.key = m.args[k].name
        BY <3>1 DEF Put
      <4> QED
        BY <1>0, <1>1, <1>3, <4>1
    <3> QED
      BY <3>1 DEF PutArgs
  <2>3. m.type.calls.get = m.type.calls.put
    BY DEF SoundMethod, Paired
  <2> DEFINE key == "_result"
             t == m.type
  <2>4. Put(key, t, r) \subseteq data /\ \A d \in data : d.key = key => d \in Put(key, t, r)
    <3>1. data = PutArgs(m, outs, Outs(m)) \cup Put(key, t, r)
      BY <1>9, <2>1
    <3> QED
      BY <2>2, <3>1
  <2> HIDE DEF key, t
  <2>5. Get(data, key, t).ok /\ Get(data, key, t).value = r
    BY <2>3, <2>4, GetPut DEF t
  <2> QED
    BY <2>5 DEF key, t
<1> HIDE DEF more
<1>4. ASSUME NEW k \in Outs(m) PROVE Finds(data, m, outs, k)
  <2>1. Finds(PutArgs(m, outs, Outs(m)) \cup more, m, outs, k)
    BY <1>0, <1>2, GetArg
  <2> QED
    BY <1>9, <2>1 DEF more
<1> QED
  BY <1>3, <1>4 DEF data

(* The client takes an answer.                                             *)
LEMMA OnResultKeepsRpcInv == CompilerInv /\ RpcInv /\ OnResult => RpcInv'
<1> SUFFICES ASSUME CompilerInv, RpcInv, OnResult PROVE RpcInv'
  OBVIOUS
<1>0. MessagesInv /\ AnswersFaithful /\ KeysAgree /\ OneListener /\ sent \in 0 .. MaxCalls /\ presenter \in 0 .. sent
  BY DEF RpcInv
<1>1. UNCHANGED <<requests, presenter, registered, events, sent, event, compilerVars, binderVars>>
  BY DEF OnResult
<1>2. PICK n \in DOMAIN results :
       LET a == results[n]
           j == CaseOf(a.request.handler)
           m == Methods[j]
           r == IF IsVoid(m) THEN [ok |-> TRUE, value |-> "none"] ELSE Get(a.data, "_result", m.type)
           outs == [k \in DOMAIN m.args |-> IF Out(m.args[k]) THEN Get(a.data, m.args[k].name, m.args[k].type)
                                            ELSE [ok |-> TRUE, value |-> "none"]]
       IN /\ results' = RemoveAt(results, n)
          /\ answer' = [method |-> j, request |-> [method |-> a.request.method, args |-> a.request.args], saw |-> a.saw,
                        outs |-> a.outs, result |-> a.result, got |-> [k \in DOMAIN outs |-> outs[k].value], gotResult |-> r.value]
          /\ keys' = (keys /\ r.ok /\ \A k \in DOMAIN outs : outs[k].ok)
  BY DEF OnResult
<1> DEFINE a == results[n]
           j == a.request.method
           m == Methods[j]
           r == IF IsVoid(m) THEN [ok |-> TRUE, value |-> "none"] ELSE Get(a.data, "_result", m.type)
           got(k) == IF Out(m.args[k]) THEN Get(a.data, m.args[k].name, m.args[k].type) ELSE [ok |-> TRUE, value |-> "none"]
           outs == [k \in DOMAIN m.args |-> got(k)]
<1>3. IsAnswer(a)
  BY <1>0 DEF MessagesInv, ToSet
<1>4. /\ IsRequest(a.request) /\ a.request.handler # 0
      /\ \A k \in Ins(m) : a.saw[k] = a.request.args[k]
      /\ IsVoid(m) => a.result = "none"
      /\ a.data = AnswerData(m, a.outs, a.result)
  BY <1>3 DEF IsAnswer
<1>5. j \in DOMAIN Methods /\ NeedsResult(m) /\ CaseOf(a.request.handler) = j
  BY <1>4 DEF IsRequest, CaseOf
<1>6. /\ results' = RemoveAt(results, n)
      /\ answer' = [method |-> j, request |-> [method |-> j, args |-> a.request.args], saw |-> a.saw,
                    outs |-> a.outs, result |-> a.result, got |-> [k \in DOMAIN outs |-> outs[k].value], gotResult |-> r.value]
      /\ keys' = (keys /\ r.ok /\ \A k \in DOMAIN outs : outs[k].ok)
  BY <1>2, <1>5
<1>7. Running("rpc")
  <2>1. n \in DOMAIN results
    BY <1>2, Zenon
  <2>2. results # <<>>
    BY <2>1
  <2> QED
    BY <2>2 DEF RpcInv, RpcQuiet
<1>8. SoundMethod("rpc", m) /\ Compiles("rpc", m)
  BY <1>5, <1>7, RunningMethod
<1>9. /\ ~IsVoid(m) => Get(a.data, "_result", m.type).ok /\ Get(a.data, "_result", m.type).value = a.result
      /\ \A k \in Outs(m) : Finds(a.data, m, a.outs, k)
  <2> HIDE DEF m
  <2> DEFINE os == a.outs
             res == a.result
  <2>1. a.data = AnswerData(m, os, res)
    BY <1>4
  <2> HIDE DEF a, os, res
  <2>2. /\ ~IsVoid(m) => /\ Get(AnswerData(m, os, res), "_result", m.type).ok
                         /\ Get(AnswerData(m, os, res), "_result", m.type).value = res
        /\ \A k \in Outs(m) : Finds(AnswerData(m, os, res), m, os, k)
    BY <1>5, <1>8, AnswerRead
  <2> QED
    BY <2>1, <2>2 DEF os, res
<1>10. r.ok /\ r.value = a.result
  <2>1. CASE IsVoid(m)
    <3>1. r = [ok |-> TRUE, value |-> "none"]
      BY <2>1
    <3> HIDE DEF r
    <3> QED
      BY <1>4, <2>1, <3>1
  <2>2. CASE ~IsVoid(m)
    <3>1. r = Get(a.data, "_result", m.type)
      BY <2>2
    <3> HIDE DEF r
    <3> QED
      BY <1>9, <2>2, <3>1
  <2> QED
    BY <2>1, <2>2
<1>11. ASSUME NEW k \in DOMAIN m.args PROVE got(k).ok /\ (Out(m.args[k]) => got(k).value = a.outs[k])
  <2>1. CASE Out(m.args[k])
    <3>1. got(k) = Get(a.data, m.args[k].name, m.args[k].type)
      BY <2>1
    <3>2. Finds(a.data, m, a.outs, k)
      <4>1. k \in Outs(m)
        BY <2>1 DEF Outs
      <4> HIDE DEF m, a
      <4> QED
        BY <1>9, <4>1
    <3> HIDE DEF got
    <3> QED
      BY <3>1, <3>2 DEF Finds
  <2>2. CASE ~Out(m.args[k])
    <3>1. got(k) = [ok |-> TRUE, value |-> "none"]
      BY <2>2
    <3> HIDE DEF got
    <3> QED
      BY <2>2, <3>1
  <2> QED
    BY <2>1, <2>2
<1>12. DOMAIN outs = DOMAIN m.args /\ \A k \in DOMAIN m.args : outs[k] = got(k)
  OBVIOUS
<1> HIDE DEF r, got, outs
<1>13. KeysAgree'
  <2>1. keys
    BY <1>0 DEF KeysAgree
  <2>2. \A k \in DOMAIN outs : outs[k].ok
    BY <1>11, <1>12
  <2> QED
    BY <1>6, <1>10, <2>1, <2>2, Zenon DEF KeysAgree
<1>14. UNCHANGED compilerVars
  BY <1>1
<1>15. Running("rpc")' /\ Methods' = Methods
  BY <1>7, <1>14, JavaStays
<1>16. MessagesInv'
  <2>1. IsSeq(results') /\ \A x \in ToSet(results') : IsAnswer(x)
    <3>1. IsSeq(results) /\ \A x \in ToSet(results) : IsAnswer(x)
      BY <1>0 DEF MessagesInv
    <3> QED
      BY <1>2, <1>6, <3>1, AllButOne
  <2>2. events' = events /\ requests' = requests
    BY <1>1
  <2> QED
    BY <1>0, <1>14, <2>1, <2>2, JavaStays DEF MessagesInv
<1>17. AnswersFaithful'
  <2>1. event' = event
    BY <1>1
  <2>2. /\ answer'.method = j /\ answer'.request.method = j /\ answer'.request.args = a.request.args
        /\ answer'.saw = a.saw /\ answer'.outs = a.outs /\ answer'.result = a.result
        /\ answer'.got = [k \in DOMAIN outs |-> outs[k].value] /\ answer'.gotResult = r.value
    BY <1>6
  <2>3. \A k \in DOMAIN m.args : /\ In(m.args[k]) => a.saw[k] = a.request.args[k]
                                 /\ Out(m.args[k]) => answer'.got[k] = a.outs[k]
    <3>1. \A k \in DOMAIN m.args : In(m.args[k]) => a.saw[k] = a.request.args[k]
      BY <1>4 DEF Ins
    <3>2. \A k \in DOMAIN m.args : answer'.got[k] = got(k).value
      BY <1>12, <2>2
    <3> HIDE DEF m, a
    <3> QED
      BY <1>11, <3>1, <3>2
  <2>4. Methods'[j] = m
    BY <1>15
  <2> HIDE DEF m, a, j
  <2> QED
    BY <1>0, <1>10, <1>15, <2>1, <2>2, <2>3, <2>4 DEF AnswersFaithful
<1>18. OneListener' /\ sent' \in 0 .. MaxCalls /\ presenter' \in 0 .. sent'
  BY <1>0, <1>1 DEF OneListener
<1> QED
  BY <1>13, <1>15, <1>16, <1>17, <1>18 DEF RpcInv

(* The client takes an event.                                              *)
LEMMA DeliverKeepsRpcInv == CompilerInv /\ RpcInv /\ Deliver => RpcInv'
<1> SUFFICES ASSUME CompilerInv, RpcInv, Deliver PROVE RpcInv'
  OBVIOUS
<1>0. MessagesInv /\ AnswersFaithful /\ KeysAgree /\ OneListener /\ sent \in 0 .. MaxCalls /\ presenter \in 0 .. sent
  BY DEF RpcInv
<1>1. UNCHANGED <<requests, results, presenter, registered, sent, answer, compilerVars, binderVars>>
  BY DEF Deliver
<1>2. PICK n \in DOMAIN events : \E j \in Named(events[n].action) :
       LET q == events[n]
           read == ReadArgs(Methods[j], q.data)
       IN /\ events' = RemoveAt(events, n)
          /\ IF registered = {} THEN UNCHANGED <<event, keys>>
             ELSE /\ event' = [NoAnswer EXCEPT !.method = j, !.request = [method |-> q.method, args |-> q.args],
                                               !.saw = [k \in DOMAIN read |-> read[k].value]]
                  /\ keys' = (keys /\ \A k \in DOMAIN read : read[k].ok)
  BY DEF Deliver
<1> DEFINE q == events[n]
           m == Methods[q.method]
           read == ReadArgs(m, q.data)
           saw == [k \in DOMAIN read |-> read[k].value]
<1>3. IsPushed(q)
  BY <1>0 DEF MessagesInv, ToSet
<1>4. /\ q.method \in DOMAIN Methods /\ IsEvent(m) /\ q.action = m.name /\ q.data = PutArgs(m, q.args, DOMAIN m.args)
      /\ q.args = [k \in DOMAIN m.args |-> q.args[k]]
  BY <1>3 DEF IsPushed
<1>5. \A j \in Named(q.action) : j = q.method
  BY <1>4, NamedIsOne
<1>6. /\ events' = RemoveAt(events, n)
      /\ \/ UNCHANGED <<event, keys>>
         \/ /\ event' = [NoAnswer EXCEPT !.method = q.method, !.request = [method |-> q.method, args |-> q.args], !.saw = saw]
            /\ keys' = (keys /\ \A k \in DOMAIN read : read[k].ok)
  BY <1>2, <1>5
<1>7. Running("rpc")
  <2>1. events # <<>>
    BY <1>2
  <2> QED
    BY <2>1 DEF RpcInv, RpcQuiet
<1>8. SoundMethod("rpc", m) /\ Compiles("rpc", m)
  BY <1>4, <1>7, RunningMethod
<1>9. /\ DOMAIN read = DOMAIN m.args
      /\ \A k \in DOMAIN read : read[k].ok
      /\ \A k \in DOMAIN m.args : read[k].value = q.args[k]
  <2>1. Ins(m) = DOMAIN m.args
    BY <1>4, <1>8, EventsGoIn
  <2> HIDE DEF m, q
  <2> QED
    BY <1>4, <1>8, <2>1, ReadsWhatWasPut
<1>10. saw = q.args
  <2> HIDE DEF read, m
  <2>1. saw = [k \in DOMAIN m.args |-> q.args[k]]
    BY <1>9
  <2> QED
    BY <1>4, <2>1
<1>11. UNCHANGED compilerVars
  BY <1>1
<1>12. Running("rpc")' /\ Methods' = Methods
  BY <1>7, <1>11, JavaStays
<1>13. KeysAgree'
  <2>1. keys
    BY <1>0 DEF KeysAgree
  <2>2. keys' = keys \/ keys' = (keys /\ \A k \in DOMAIN read : read[k].ok)
    <3> HIDE DEF read, saw, q
    <3> QED
      BY <1>6
  <2> HIDE DEF read
  <2> QED
    BY <1>9, <2>1, <2>2, Zenon DEF KeysAgree
<1>14. MessagesInv'
  <2>1. IsSeq(events') /\ \A x \in ToSet(events') : IsPushed(x)
    <3>1. IsSeq(events) /\ \A x \in ToSet(events) : IsPushed(x)
      BY <1>0 DEF MessagesInv
    <3>2. events' = RemoveAt(events, n)
      BY <1>6
    <3> QED
      BY <1>2, <3>1, <3>2, AllButOne
  <2>2. results' = results /\ requests' = requests
    BY <1>1
  <2> QED
    BY <1>0, <1>11, <2>1, <2>2, JavaStays DEF MessagesInv
<1>15. AnswersFaithful'
  <2>1. answer' = answer
    BY <1>1
  <2>2. \/ event' = event
        \/ event'.method = q.method /\ event'.request.method = q.method /\ event'.saw = saw /\ event'.request.args = q.args
    <3> HIDE DEF read, saw, q
    <3>1. event' = event \/ event' = [NoAnswer EXCEPT !.method = q.method, !.request = [method |-> q.method, args |-> q.args], !.saw = saw]
      BY <1>6
    <3>2. ASSUME event' = [NoAnswer EXCEPT !.method = q.method, !.request = [method |-> q.method, args |-> q.args], !.saw = saw]
          PROVE  event'.method = q.method /\ event'.request.method = q.method /\ event'.saw = saw /\ event'.request.args = q.args
      <4> DEFINE request == [method |-> q.method, args |-> q.args]
      <4>1. request.method = q.method /\ request.args = q.args
        OBVIOUS
      <4> HIDE DEF request
      <4>2. DOMAIN NoAnswer = {"method", "request", "saw", "outs", "result", "got", "gotResult"}
        BY DEF NoAnswer
      <4>3. event' = [NoAnswer EXCEPT !.method = q.method, !.request = request, !.saw = saw]
        BY <3>2 DEF request
      <4>4. event'.method = q.method /\ event'.request = request /\ event'.saw = saw
        BY <4>2, <4>3
      <4> QED
        BY <4>1, <4>4
    <3> QED
      BY <3>1, <3>2
  <2> HIDE DEF saw, q
  <2> QED
    BY <1>0, <1>10, <1>12, <2>1, <2>2 DEF AnswersFaithful
<1>16. OneListener' /\ sent' \in 0 .. MaxCalls /\ presenter' \in 0 .. sent'
  BY <1>0, <1>1 DEF OneListener
<1> QED
  BY <1>12, <1>13, <1>14, <1>15, <1>16 DEF RpcInv

(* The compiler, while it runs, leaves the rpc code alone.                 *)
LEMMA RpcStays == RpcInv /\ UNCHANGED <<compilerVars, rpcVars>> => RpcInv'
<1> SUFFICES ASSUME RpcInv, UNCHANGED <<compilerVars, rpcVars>> PROVE RpcInv'
  OBVIOUS
<1>0. MessagesInv /\ AnswersFaithful /\ KeysAgree /\ OneListener /\ sent \in 0 .. MaxCalls /\ presenter \in 0 .. sent
  BY DEF RpcInv
<1>1. UNCHANGED <<requests, results, presenter, registered, events, sent, answer, event, keys>> /\ UNCHANGED compilerVars
  BY DEF rpcVars
<1>2. Running("rpc") => Running("rpc")'
  BY <1>1, JavaStays
<1>3. Running("rpc")' \/ RpcQuiet'
  BY <1>1, <1>2 DEF RpcInv, RpcQuiet
<1>4. MessagesInv'
  BY <1>0, <1>1, JavaStays DEF MessagesInv
<1>5. AnswersFaithful'
  BY <1>0, <1>1, JavaStays DEF AnswersFaithful
<1>6. KeysAgree'
  BY <1>0, <1>1, Zenon DEF KeysAgree
<1>7. OneListener' /\ sent' \in 0 .. MaxCalls /\ presenter' \in 0 .. sent'
  BY <1>0, <1>1 DEF OneListener
<1> QED
  BY <1>3, <1>4, <1>5, <1>6, <1>7 DEF RpcInv

(* What is under way between the rpc code of two applications is what one  *)
(* of them put into it, under keys that the other looks for.               *)
THEOREM RpcInvariant == Spec => []RpcInv
<1>1. Init => RpcInv
  BY InitRpcInv DEF Init
<1>2. CompilerInv /\ RpcInv /\ [Next]_vars => RpcInv'
  <2>1. BinderStep => UNCHANGED compilerVars
    BY BinderLeavesCompiler
  <2> QED
    BY <2>1, RpcStays, CompileKeepsRpcInv, RpcSendKeepsRpcInv, ProcessKeepsRpcInv, OnResultKeepsRpcInv, ListeningKeepsRpcInv,
       PushKeepsRpcInv, DeliverKeepsRpcInv
    DEF Next, Compile, Binder, RpcStep, vars
<1> QED
  BY <1>1, <1>2, CompilerInvariant, PTL DEF Spec

(* The rpc code carries a call, its answer and an event across: what one   *)
(* side takes out is what the other put in.                                *)
THEOREM RpcIsFaithful == Spec => []RpcFaithful
<1>1. RpcInv => RpcFaithful
  BY DEF RpcInv, RpcFaithful
<1> QED
  BY <1>1, RpcInvariant, PTL

-----------------------------------------------------------------------------
(* The binder code: what is read from a parcel.                            *)

(* A read finds v in front of s.                                           *)
Reads(read, v, s) == read.ok /\ read.value = v /\ read.rest = s

(* x in front of a sequence: what is read first, and what is left.         *)
LEMMA Behind ==
  ASSUME NEW s, IsSeq(s), NEW x
  PROVE  /\ <<x>> \o s # <<>> /\ Head(<<x>> \o s) = x /\ Tail(<<x>> \o s) = s
         /\ IsSeq(<<x>> \o s)
<1> DEFINE S == ToSet(s) \cup {x}
<1>1. s \in Seq(S) /\ <<x>> \in Seq(S)
  <2>1. s \in Seq(S) /\ x \in S
    BY IsSeqOf
  <2> HIDE DEF S
  <2> QED
    BY <2>1
<1> HIDE DEF S
<1>2. <<x>> \o s \in Seq(S) /\ Len(<<x>> \o s) = 1 + Len(s) /\ (<<x>> \o s)[1] = x /\ Len(s) \in Nat
      /\ \A i \in 1 .. Len(s) : (<<x>> \o s)[i + 1] = s[i]
  BY <1>1, ConcatProperties
<1>3. <<x>> \o s # <<>> /\ Head(<<x>> \o s) = x
  BY <1>2
<1>4. Tail(<<x>> \o s) = s
  <2> DEFINE t == Tail(<<x>> \o s)
  <2>1. t \in Seq(S) /\ Len(t) = Len(s) /\ \A i \in 1 .. Len(t) : t[i] = (<<x>> \o s)[i + 1]
    BY <1>2, <1>3, HeadTailProperties
  <2> HIDE DEF t
  <2>2. t = s
    BY <1>1, <1>2, <2>1, SeqEqual
  <2> QED
    BY <2>2 DEF t
<1> QED
  BY <1>2, <1>3, <1>4, SeqIsSeq

(* The fields of what was taken.                                           *)
LEMMA TakenIs ==
  ASSUME NEW x, NEW v, NEW s
  PROVE  (Taken(x, v, s).ok = x) /\ Taken(x, v, s).value = v /\ Taken(x, v, s).rest = s
<1>1. \A a, b, c : [ok |-> a, value |-> b, rest |-> c].ok = a
  OBVIOUS
<1>2. Taken(x, v, s).value = v /\ Taken(x, v, s).rest = s
  BY DEF Taken
<1>3. Taken(x, v, s).ok = x
  BY <1>1, Zenon DEF Taken
<1> QED
  BY <1>2, <1>3, Zenon

(* A read takes the item that lies first, if it is of its format.          *)
LEMMA TakeFirst ==
  ASSUME NEW s, IsSeq(s), NEW format, NEW v
  PROVE  Reads(Take(<<Item(format, v)>> \o s, format), v, s)
<1> DEFINE x == Item(format, v)
<1>1. x.format = format /\ x.value = v
  BY DEF Item
<1> HIDE DEF x
<1> DEFINE p == <<x>> \o s
<1>2. p # <<>> /\ Head(p) = x /\ Tail(p) = s
  BY Behind
<1> HIDE DEF p
<1>3. Take(p, format) = Taken(x.format = format, v, s)
  BY <1>1, <1>2 DEF Take
<1>4. (Take(p, format).ok = (x.format = format)) /\ Take(p, format).value = v /\ Take(p, format).rest = s
  <2> DEFINE t == Taken(x.format = format, v, s)
  <2>1. (t.ok = (x.format = format)) /\ t.value = v /\ t.rest = s
    BY TakenIs
  <2> HIDE DEF t
  <2>2. Take(p, format) = t
    BY <1>3 DEF t
  <2> QED
    BY <2>1, <2>2, Zenon
<1>5. Take(p, format).ok
  BY <1>1, <1>4, Zenon
<1> QED
  BY <1>4, <1>5 DEF Reads, p, x

(* Of an object and an array that were written: a number of whether there  *)
(* is one, and then the object.                                            *)
LEMMA TakeSecond ==
  ASSUME NEW s, IsSeq(s), NEW format, NEW v
  PROVE  LET p == <<Item("Int", "1"), Item(format, v)>> \o s
             first == Take(p, "Int")
         IN /\ Reads(first, "1", first.rest)
            /\ Reads([Take(first.rest, format) EXCEPT !.ok = @ /\ first.ok], v, s)
<1> DEFINE n == Item("Int", "1")
           x == Item(format, v)
           p == <<n, x>> \o s
           first == Take(p, "Int")
           second == Take(first.rest, format)
<1>1. IsSeq(<<x>> \o s)
  BY Behind
<1>2. p = <<n>> \o (<<x>> \o s)
  <2> DEFINE S == ToSet(s) \cup {n, x}
  <2>1. s \in Seq(S)
    BY IsSeqOf
  <2>2. <<n>> \in Seq(S) /\ <<x>> \in Seq(S)
    OBVIOUS
  <2> HIDE DEF S, n, x
  <2>3. (<<n>> \o <<x>>) \o s = <<n>> \o (<<x>> \o s)
    BY <2>1, <2>2, ConcatAssociative
  <2>4. <<n>> \o <<x>> = <<n, x>>
    <3> DEFINE T == {n, x}
    <3>1. <<n>> \in Seq(T) /\ <<x>> \in Seq(T) /\ <<n, x>> \in Seq(T)
      OBVIOUS
    <3> HIDE DEF T
    <3>2. <<n>> \o <<x>> \in Seq(T) /\ Len(<<n>> \o <<x>>) = 2
          /\ \A i \in 1 .. 2 : (<<n>> \o <<x>>)[i] = IF i <= 1 THEN <<n>>[i] ELSE <<x>>[i - 1]
      BY <3>1, ConcatProperties
    <3>3. \A i \in 1 .. 2 : (<<n>> \o <<x>>)[i] = <<n, x>>[i]
      BY <3>2
    <3> QED
      BY <3>1, <3>2, <3>3, SeqEqual
  <2> QED
    BY <2>3, <2>4
<1>3. Reads(first, "1", <<x>> \o s)
  BY <1>1, <1>2, TakeFirst
<1>4. Reads(second, v, s)
  <2>1. first.rest = <<x>> \o s
    BY <1>3 DEF Reads
  <2> HIDE DEF first
  <2>2. Reads(Take(<<x>> \o s, format), v, s)
    BY TakeFirst
  <2> QED
    BY <2>1, <2>2
<1>5. DOMAIN second = {"ok", "value", "rest"}
  BY DEF Take, Taken
<1> HIDE DEF first, second
<1> DEFINE both == [second EXCEPT !.ok = @ /\ first.ok]
<1>6. both.value = v /\ both.rest = s
  BY <1>4, <1>5 DEF Reads
<1>7. both.ok = (second.ok /\ first.ok)
  <2>1. \A y : [second EXCEPT !.ok = y].ok = y
    BY <1>5
  <2> QED
    BY <2>1, Zenon
<1>8. both.ok
  BY <1>3, <1>4, <1>7, Zenon DEF Reads
<1> HIDE DEF both
<1>9. Reads(both, v, s) /\ Reads(first, "1", first.rest)
  BY <1>3, <1>6, <1>8 DEF Reads
<1> QED
  BY <1>9 DEF both, first, second, p, n, x

(* A sequence of two.                                                      *)
LEMMA TwoItems ==
  ASSUME NEW x, NEW y
  PROVE  IsSeq(<<x, y>>)
<1> DEFINE S == {x, y}
<1>1. x \in S /\ y \in S
  OBVIOUS
<1> HIDE DEF S
<1>2. <<x, y>> \in Seq(S)
  BY <1>1
<1> QED
  BY <1>2, SeqIsSeq

(* What each class writes, it reads: into a new object, or into the        *)
(* caller's.                                                               *)
LEMMA CreateReads ==
  ASSUME NEW t, Paired(t), NEW n, NEW v \in ValuesOf(t, n), NEW s, IsSeq(s)
  PROVE  IsSeq(Write(t, n, v)) /\ Reads(Create(t, n, Write(t, n, v) \o s), v, s)
<1>1. CASE n = 1
  <2>1. Write(t, n, v) = <<Item(t.calls.writeArray, v)>>
    BY <1>1 DEF Write
  <2>2. \A p : Create(t, n, p) = Take(p, t.calls.writeArray)
    BY <1>1 DEF Create, Paired
  <2> QED
    BY <2>1, <2>2, TakeFirst, SmallSeqs
<1>2. CASE n # 1 /\ t.form = "plain"
  <2>1. Write(t, n, v) = <<Item(t.calls.write, v)>>
    BY <1>2 DEF Write
  <2>2. \A p : Create(t, n, p) = Take(p, t.calls.write)
    BY <1>2 DEF Create, Paired
  <2> QED
    BY <2>1, <2>2, TakeFirst, SmallSeqs
<1>3. CASE n # 1 /\ t.form = "boolean"
  <2> DEFINE number == IF v = "true" THEN "1" ELSE "0"
             p == Write(t, n, v) \o s
             first == Take(p, "Int")
  <2>1. v \in {"true", "false"} /\ t.calls.write = "Int"
    BY <1>3 DEF ValuesOf, Paired
  <2>2. Write(t, n, v) = <<Item("Int", number)>>
    BY <1>3, <2>1 DEF Write
  <2>3. Reads(first, number, s)
    BY <2>2, TakeFirst
  <2>4. Create(t, n, p) = Taken(first.ok, IF first.value # "0" THEN "true" ELSE "false", first.rest)
    BY <1>3 DEF Create
  <2>5. (IF first.value # "0" THEN "true" ELSE "false") = v
    BY <2>1, <2>3 DEF Reads
  <2> HIDE DEF first, p
  <2>6. Create(t, n, p) = Taken(first.ok, v, s)
    BY <2>3, <2>4, <2>5 DEF Reads
  <2> DEFINE made == Taken(first.ok, v, s)
  <2>7. (made.ok = first.ok) /\ made.value = v /\ made.rest = s
    BY TakenIs
  <2> HIDE DEF made
  <2>8. made.ok
    BY <2>3, <2>7, Zenon DEF Reads
  <2>9. Reads(made, v, s)
    BY <2>7, <2>8, Zenon DEF Reads
  <2>10. Create(t, n, p) = made
    BY <2>6 DEF made
  <2> QED
    BY <2>2, <2>9, <2>10, SmallSeqs DEF p
<1>4. CASE n # 1 /\ t.form = "nullable"
  <2>1. CASE v = "null"
    <3> DEFINE p == Write(t, n, v) \o s
               first == Take(p, "Int")
               made == Taken(first.ok, v, s)
    <3>1. Write(t, n, v) = <<Item("Int", "0")>>
      BY <1>4, <2>1 DEF Write
    <3>2. Reads(first, "0", s)
      BY <3>1, TakeFirst
    <3>3. Create(t, n, p) = IF first.value = "0" THEN Taken(first.ok, "null", first.rest)
                            ELSE [Take(first.rest, t.calls.read) EXCEPT !.ok = @ /\ first.ok]
      BY <1>4 DEF Create
    <3> HIDE DEF first, p
    <3>4. Create(t, n, p) = made
      BY <2>1, <3>2, <3>3 DEF Reads
    <3>5. (made.ok = first.ok) /\ made.value = v /\ made.rest = s
      BY TakenIs
    <3> HIDE DEF made
    <3>6. Reads(made, v, s)
      BY <3>2, <3>5, Zenon DEF Reads
    <3> QED
      BY <3>1, <3>4, <3>6, SmallSeqs DEF p
  <2>2. CASE v # "null"
    <3> DEFINE format == t.calls.write
               p == <<Item("Int", "1"), Item(format, v)>> \o s
               first == Take(p, "Int")
               both == [Take(first.rest, format) EXCEPT !.ok = @ /\ first.ok]
    <3>1. Write(t, n, v) = <<Item("Int", "1"), Item(format, v)>>
      BY <1>4, <2>2 DEF Write
    <3>2. Reads(first, "1", first.rest) /\ Reads(both, v, s)
      BY TakeSecond
    <3>3. Create(t, n, p) = IF first.value = "0" THEN Taken(first.ok, "null", first.rest) ELSE both
      BY <1>4 DEF Create, Paired
    <3>4. Create(t, n, p) = both
      <4> HIDE DEF first, both, p
      <4> QED
        BY <3>2, <3>3 DEF Reads
    <3>5. IsSeq(<<Item("Int", "1"), Item(format, v)>>)
      BY TwoItems
    <3> HIDE DEF both, first
    <3> QED
      BY <3>1, <3>2, <3>4, <3>5
  <2> QED
    BY <2>1, <2>2
<1> QED
  BY <1>1, <1>2, <1>3, <1>4 DEF Paired

(* v0 is the caller's object, which stays when the parcel holds a null.    *)
LEMMA ReadIntoReads ==
  ASSUME NEW t, Paired(t), NEW n, n = 1 \/ t.calls.readInto # "none", NEW v, NEW v0, v = "null" => v0 = "null",
         NEW s, IsSeq(s)
  PROVE  IsSeq(Write(t, n, v)) /\ Reads(ReadInto(t, n, v0, Write(t, n, v) \o s), v, s)
<1>1. CASE n = 1
  <2>1. Write(t, n, v) = <<Item(t.calls.writeArray, v)>>
    BY <1>1 DEF Write
  <2>2. \A p : ReadInto(t, n, v0, p) = Take(p, t.calls.writeArray)
    BY <1>1 DEF ReadInto, Paired
  <2> QED
    BY <2>1, <2>2, TakeFirst, SmallSeqs
<1>2. CASE n # 1 /\ t.form = "plain"
  <2>1. Write(t, n, v) = <<Item(t.calls.write, v)>>
    BY <1>2 DEF Write
  <2>2. \A p : ReadInto(t, n, v0, p) = Take(p, t.calls.write)
    BY <1>2 DEF ReadInto, Paired
  <2> QED
    BY <2>1, <2>2, TakeFirst, SmallSeqs
<1>3. CASE n # 1 /\ t.form = "nullable"
  <2>0. t.calls.readInto = t.calls.write
    BY <1>3 DEF Paired
  <2>1. CASE v = "null"
    <3> DEFINE p == Write(t, n, v) \o s
               first == Take(p, "Int")
               made == Taken(first.ok, v, s)
    <3>1. Write(t, n, v) = <<Item("Int", "0")>>
      BY <1>3, <2>1 DEF Write
    <3>2. Reads(first, "0", s)
      BY <3>1, TakeFirst
    <3>3. ReadInto(t, n, v0, p) = IF first.value = "0" THEN Taken(first.ok, v0, first.rest)
                                  ELSE [Take(first.rest, t.calls.readInto) EXCEPT !.ok = @ /\ first.ok]
      BY <1>3 DEF ReadInto
    <3> HIDE DEF first, p
    <3>4. ReadInto(t, n, v0, p) = made
      BY <2>1, <3>2, <3>3 DEF Reads
    <3>5. (made.ok = first.ok) /\ made.value = v /\ made.rest = s
      BY TakenIs
    <3> HIDE DEF made
    <3>6. Reads(made, v, s)
      BY <3>2, <3>5, Zenon DEF Reads
    <3> QED
      BY <3>1, <3>4, <3>6, SmallSeqs DEF p
  <2>2. CASE v # "null"
    <3> DEFINE format == t.calls.write
               p == <<Item("Int", "1"), Item(format, v)>> \o s
               first == Take(p, "Int")
               both == [Take(first.rest, format) EXCEPT !.ok = @ /\ first.ok]
    <3>1. Write(t, n, v) = <<Item("Int", "1"), Item(format, v)>>
      BY <1>3, <2>2 DEF Write
    <3>2. Reads(first, "1", first.rest) /\ Reads(both, v, s)
      BY TakeSecond
    <3>3. ReadInto(t, n, v0, p) = IF first.value = "0" THEN Taken(first.ok, v0, first.rest) ELSE both
      BY <1>3, <2>0 DEF ReadInto
    <3>4. ReadInto(t, n, v0, p) = both
      <4> HIDE DEF first, both, p
      <4> QED
        BY <3>2, <3>3 DEF Reads
    <3>5. IsSeq(<<Item("Int", "1"), Item(format, v)>>)
      BY TwoItems
    <3> HIDE DEF both, first
    <3> QED
      BY <3>1, <3>2, <3>4, <3>5
  <2> QED
    BY <2>1, <2>2
<1> QED
  BY <1>1, <1>2, <1>3 DEF Paired

(* What is made of a sequence of sequences, and what is left of it when    *)
(* the first k of them are taken off.                                      *)
Splits(seqs, n, rests) == rests[n] = <<>> /\ \A k \in 1 .. n : rests[k - 1] = seqs[k] \o rests[k]

(* FlattenSeq of the community modules, by its definition.                 *)
LEMMA FlattenIs ==
  ASSUME NEW seqs, Len(seqs) # 0
  PROVE  FlattenSeq(seqs)
         = (CHOOSE f : f = [i \in 1 .. Len(seqs) |-> IF i = 1 THEN seqs[i] ELSE f[i - 1] \o seqs[i]])[Len(seqs)]
BY DEF FlattenSeq

(* f holds the joins of the first sequences, up to k of them.              *)
Sums(seqs, f, k) == f = [i \in 1 .. k |-> IF i = 1 THEN seqs[i] ELSE f[i - 1] \o seqs[i]]

(* What is flattened is the first sequence and the rest, the rest the      *)
(* second and its rest, and so on.                                         *)
LEMMA FlattenSplits ==
  ASSUME NEW n \in Nat, NEW S, NEW seqs \in [1 .. n -> Seq(S)]
  PROVE  \E rests \in [0 .. n -> Seq(S)] : FlattenSeq(seqs) = rests[0] /\ Splits(seqs, n, rests)
<1>0. Len(seqs) = n
  <2>1. seqs \in Seq(Seq(S))
    OBVIOUS
  <2> QED
    OBVIOUS
<1>3. ASSUME NEW x \in Seq(S), NEW y \in Seq(S), NEW z \in Seq(S) PROVE (x \o y) \o z = x \o (y \o z)
  BY ConcatAssociative
<1>1. CASE n = 0
  <2>1. FlattenSeq(seqs) = <<>>
    BY <1>0, <1>1 DEF FlattenSeq
  <2> DEFINE rests == [k \in 0 .. n |-> <<>>]
  <2>2. rests \in [0 .. n -> Seq(S)] /\ rests[0] = <<>> /\ Splits(seqs, n, rests)
    BY <1>1 DEF Splits
  <2> QED
    BY <2>1, <2>2
<1>2. CASE n # 0
  <2> DEFINE T == {k \in Nat : k <= n => \E f : Sums(seqs, f, k)}
  <2>1. 0 \in T
    <3> DEFINE f == [i \in {} |-> i]
    <3>1. Sums(seqs, f, 0)
      <4>1. 1 .. 0 = {}
        OBVIOUS
      <4> QED
        BY <4>1, Zenon DEF Sums
    <3> HIDE DEF f
    <3>2. 0 <= n => \E g : Sums(seqs, g, 0)
      BY <3>1
    <3> QED
      BY <3>2
  <2>2. ASSUME NEW k \in Nat, k \in T PROVE k + 1 \in T
    <3> SUFFICES ASSUME k + 1 <= n PROVE \E f : Sums(seqs, f, k + 1)
      OBVIOUS
    <3>0. k <= n => \E g : Sums(seqs, g, k)
      <4> QED
        BY <2>2
    <3>1. PICK g : Sums(seqs, g, k)
      <4>1. k <= n
        OBVIOUS
      <4> QED
        BY <3>0, <4>1
    <3> DEFINE h == [i \in 1 .. k + 1 |-> IF i <= k THEN g[i] ELSE IF k = 0 THEN seqs[1] ELSE g[k] \o seqs[k + 1]]
    <3>2. ASSUME NEW i \in 1 .. k + 1
          PROVE  h[i] = IF i = 1 THEN seqs[i] ELSE h[i - 1] \o seqs[i]
      <4>1. CASE i <= k
        <5>0. i \in 1 .. k
          BY <4>1
        <5>1. h[i] = g[i] /\ (i # 1 => h[i - 1] = g[i - 1])
          BY <4>1
        <5>2. g[i] = IF i = 1 THEN seqs[i] ELSE g[i - 1] \o seqs[i]
          BY <3>1, <5>0 DEF Sums
        <5> HIDE DEF h
        <5> QED
          BY <5>1, <5>2
      <4>2. CASE i = k + 1
        <5>1. h[i] = IF k = 0 THEN seqs[1] ELSE g[k] \o seqs[k + 1]
          BY <4>2
        <5>2. k # 0 => h[i - 1] = g[k]
          BY <4>2
        <5> HIDE DEF h
        <5> QED
          BY <4>2, <5>1, <5>2
      <4> QED
        BY <4>1, <4>2
    <3>3. Sums(seqs, h, k + 1)
      BY <3>2 DEF Sums
    <3> QED
      BY <3>3
  <2> HIDE DEF T
  <2>3. Nat \subseteq T
    BY <2>1, <2>2, Induct
  <2>4. \E f : Sums(seqs, f, n)
    <3> QED
      BY <2>3 DEF T
  <2> DEFINE f == CHOOSE f : Sums(seqs, f, n)
  <2>5. Sums(seqs, f, n)
    BY <2>4
  <2>6. FlattenSeq(seqs) = f[n]
    BY <1>0, <1>2, FlattenIs DEF Sums
  <2> HIDE DEF f
  <2>7. \A i \in 1 .. n : f[i] = IF i = 1 THEN seqs[i] ELSE f[i - 1] \o seqs[i]
    BY <2>5 DEF Sums
  <2> DEFINE U == {k \in Nat : k <= n => \E rests \in [0 .. k -> Seq(S)] : (k # 0 => f[k] = rests[0]) /\ Splits(seqs, k, rests)}
  <2>8. 0 \in U
    <3> DEFINE rests == [k \in 0 .. 0 |-> <<>>]
    <3>1. rests \in [0 .. 0 -> Seq(S)] /\ Splits(seqs, 0, rests)
      BY DEF Splits
    <3> QED
      BY <3>1
  <2>9. ASSUME NEW k \in Nat, k \in U PROVE k + 1 \in U
    <3> SUFFICES ASSUME k + 1 <= n
                 PROVE  \E rests \in [0 .. k + 1 -> Seq(S)] : f[k + 1] = rests[0] /\ Splits(seqs, k + 1, rests)
      OBVIOUS
    <3>1. PICK before \in [0 .. k -> Seq(S)] : (k # 0 => f[k] = before[0]) /\ Splits(seqs, k, before)
      BY <2>9
    <3>10. PICK s : s = seqs[k + 1]
      OBVIOUS
    <3> DEFINE rests == [i \in 0 .. k + 1 |-> IF i <= k THEN before[i] \o s ELSE <<>>]
    <3>2. s \in Seq(S)
      BY <3>10
    <3>3. before[k] = <<>> /\ \A i \in 1 .. k : before[i - 1] = seqs[i] \o before[i]
      BY <3>1 DEF Splits
    <3>4. \A i \in 0 .. k : before[i] \o s \in Seq(S)
      BY <3>1, <3>2, ConcatProperties
    <3>5. rests \in [0 .. k + 1 -> Seq(S)]
      BY <3>4
    <3>11. \A i \in 0 .. k : rests[i] = before[i] \o s
      OBVIOUS
    <3>6. f[k + 1] = rests[0]
      <4>1. f[k + 1] = IF k = 0 THEN s ELSE f[k] \o s
        BY <2>7, <3>10
      <4>2. rests[0] = before[0] \o s
        OBVIOUS
      <4>3. k = 0 => before[0] \o s = s
        BY <3>2, <3>3, ConcatEmptySeq
      <4> QED
        BY <3>1, <4>1, <4>2, <4>3
    <3>7. ASSUME NEW i \in 1 .. k + 1 PROVE rests[i - 1] = seqs[i] \o rests[i]
      <4>1. CASE i <= k
        <5>0. i \in 1 .. k
          BY <4>1
        <5>1. rests[i - 1] = before[i - 1] \o s /\ rests[i] = before[i] \o s
          <6>1. i \in 0 .. k /\ i - 1 \in 0 .. k
            BY <5>0
          <6> HIDE DEF rests
          <6> QED
            BY <3>11, <6>1
        <5>2. before[i - 1] = seqs[i] \o before[i]
          BY <3>3, <5>0
        <5>3. seqs[i] \in Seq(S) /\ before[i] \in Seq(S)
          BY <3>1, <5>0
        <5> HIDE DEF rests
        <5>4. (seqs[i] \o before[i]) \o s = seqs[i] \o (before[i] \o s)
          <6> DEFINE a == seqs[i]
                     b == before[i]
          <6>1. a \in Seq(S) /\ b \in Seq(S)
            BY <5>3
          <6> HIDE DEF a, b
          <6>2. (a \o b) \o s = a \o (b \o s)
            BY <1>3, <3>2, <6>1, Zenon
          <6> QED
            BY <6>2 DEF a, b
        <5> QED
          BY <5>1, <5>2, <5>4
      <4>2. CASE i = k + 1
        <5>1. rests[i - 1] = before[k] \o s /\ rests[i] = <<>>
          BY <4>2
        <5>2. <<>> \o s = s /\ s \o <<>> = s
          BY <3>2, ConcatEmptySeq
        <5> HIDE DEF rests
        <5> QED
          BY <3>3, <3>10, <4>2, <5>1, <5>2
      <4>3. i <= k \/ i = k + 1
        OBVIOUS
      <4> HIDE DEF rests
      <4> QED
        BY <4>1, <4>2, <4>3
    <3>8. rests[k + 1] = <<>>
      OBVIOUS
    <3>9. Splits(seqs, k + 1, rests)
      BY <3>7, <3>8 DEF Splits
    <3> HIDE DEF rests
    <3> QED
      BY <3>5, <3>6, <3>9
  <2> HIDE DEF U
  <2>10. Nat \subseteq U
    BY <2>8, <2>9, Induct
  <2>11. \E rests \in [0 .. n -> Seq(S)] : f[n] = rests[0] /\ Splits(seqs, n, rests)
    BY <1>2, <2>10 DEF U
  <2> QED
    BY <2>6, <2>11
<1> QED
  BY <1>1, <1>2

-----------------------------------------------------------------------------
(* The stub reads the request.                                             *)

(* What the service sees of the argument a whose value is v.               *)
Seen(a, v) ==
  IF In(a) THEN v
  ELSE IF a.dimension = 0 THEN "new"
  ELSE IF v = "null" THEN "null" ELSE "new"

(* What was taken well was read.                                           *)
LEMMA TakenReads ==
  ASSUME NEW x, x, NEW v, NEW s
  PROVE  Reads(Taken(x, v, s), v, s)
<1>1. \A a, b, c : [ok |-> a, value |-> b, rest |-> c].ok = a
  OBVIOUS
<1>2. Taken(x, v, s).ok
  BY <1>1, Zenon DEF Taken
<1>3. Taken(x, v, s).value = v /\ Taken(x, v, s).rest = s
  BY DEF Taken
<1> QED
  BY <1>2, <1>3, Zenon DEF Reads

(* The stub reads an argument as the proxy wrote it.                       *)
LEMMA StubArgReads ==
  ASSUME NEW a, Paired(a.type), NEW v \in ValuesOf(a.type, a.dimension), NEW s, IsSeq(s)
  PROVE  IsSeq(RequestOf(a, v)) /\ Reads(StubArg(a, RequestOf(a, v) \o s), Seen(a, v), s)
<1>1. CASE In(a)
  <2>1. RequestOf(a, v) = Write(a.type, a.dimension, v)
    BY <1>1 DEF RequestOf
  <2>2. \A p : StubArg(a, p) = Create(a.type, a.dimension, p)
    BY <1>1 DEF StubArg
  <2>3. Seen(a, v) = v
    BY <1>1 DEF Seen
  <2> QED
    BY <2>1, <2>2, <2>3, CreateReads
<1>2. CASE ~In(a) /\ a.dimension = 0
  <2>1. RequestOf(a, v) = <<>>
    BY <1>2 DEF RequestOf
  <2>2. <<>> \o s = s
    BY ConcatEmptySeq DEF IsSeq
  <2> DEFINE made == Taken(TRUE, "new", s)
  <2>3. StubArg(a, s) = made
    BY <1>2 DEF StubArg
  <2>6. Reads(made, "new", s)
    BY TakenReads
  <2> HIDE DEF made
  <2>7. Seen(a, v) = "new"
    BY <1>2 DEF Seen
  <2> QED
    BY <2>1, <2>2, <2>3, <2>6, <2>7, SmallSeqs
<1>3. CASE ~In(a) /\ a.dimension # 0
  <2> DEFINE number == IF v = "null" THEN "-1" ELSE "1"
             seen == IF v = "null" THEN "null" ELSE "new"
             p == <<Item("Int", number)>> \o s
             length == Take(p, "Int")
             made == Taken(length.ok, seen, s)
  <2>1. RequestOf(a, v) = <<Item("Int", number)>>
    BY <1>3 DEF RequestOf
  <2>2. Reads(length, number, s)
    BY TakeFirst
  <2>3. StubArg(a, p) = Taken(length.ok, IF length.value = "-1" THEN "null" ELSE "new", length.rest)
    BY <1>3 DEF StubArg
  <2>4. (made.ok = length.ok) /\ made.value = seen /\ made.rest = s
    BY TakenIs
  <2> HIDE DEF length, p
  <2>5. StubArg(a, p) = made
    BY <2>2, <2>3 DEF Reads
  <2>6. Seen(a, v) = seen
    BY <1>3 DEF Seen
  <2> HIDE DEF made, seen
  <2>7. made.ok
    BY <2>2, <2>4, Zenon DEF Reads
  <2>8. Reads(made, seen, s)
    BY <2>4, <2>7 DEF Reads
  <2> QED
    BY <2>1, <2>5, <2>6, <2>8, SmallSeqs DEF p
<1> QED
  BY <1>1, <1>2, <1>3

(* The token of the interface is read first,                               *)
FirstRead(data) == [ok |-> Take(data, "Token").ok, rest |-> Take(data, "Token").rest, values |-> <<>>]

(* then argument by argument.                                              *)
NextRead(m, k, before) ==
  [ok |-> before.ok /\ StubArg(m.args[k], before.rest).ok, rest |-> StubArg(m.args[k], before.rest).rest,
   values |-> Append(before.values, StubArg(m.args[k], before.rest).value)]

(* read holds what was read after 0 .. n arguments.                        *)
StubArgsFrom(m, data, read, n) == read = [k \in 0 .. n |-> IF k = 0 THEN FirstRead(data) ELSE NextRead(m, k, read[k - 1])]

(* StubArgs is the last of these.                                          *)
LEMMA StubArgsIs ==
  ASSUME NEW m, NEW data
  PROVE  StubArgs(m, data) = (CHOOSE read : StubArgsFrom(m, data, read, Len(m.args)))[Len(m.args)]
BY DEF StubArgs, StubArgsFrom, FirstRead, NextRead

(* There is such a function: by induction on n.                            *)
LEMMA StubArgsFromIs ==
  ASSUME NEW m, NEW data, NEW n \in Nat
  PROVE  \E read : StubArgsFrom(m, data, read, n)
<1> DEFINE T == {k \in Nat : \E read : StubArgsFrom(m, data, read, k)}
<1>1. 0 \in T
  <2> DEFINE f == [k \in 0 .. 0 |-> FirstRead(data)]
  <2>1. StubArgsFrom(m, data, f, 0)
    BY DEF StubArgsFrom
  <2> HIDE DEF f
  <2> QED
    BY <2>1
<1>2. ASSUME NEW k \in Nat, k \in T PROVE k + 1 \in T
  <2>1. PICK g : StubArgsFrom(m, data, g, k)
    BY <1>2
  <2>2. \A i \in 0 .. k : g[i] = IF i = 0 THEN FirstRead(data) ELSE NextRead(m, i, g[i - 1])
    BY <2>1 DEF StubArgsFrom
  <2> DEFINE h == [i \in 0 .. k + 1 |-> IF i <= k THEN g[i] ELSE NextRead(m, k + 1, g[k])]
  <2>3. ASSUME NEW i \in 0 .. k + 1
        PROVE  h[i] = IF i = 0 THEN FirstRead(data) ELSE NextRead(m, i, h[i - 1])
    <3>1. CASE i \in 0 .. k
      <4>1. h[i] = g[i] /\ (i # 0 => h[i - 1] = g[i - 1])
        BY <3>1
      <4> HIDE DEF h
      <4> QED
        BY <2>2, <3>1, <4>1
    <3>2. CASE i = k + 1
      <4>1. h[i] = NextRead(m, k + 1, g[k]) /\ h[i - 1] = g[k]
        BY <3>2
      <4> HIDE DEF h
      <4> QED
        BY <3>2, <4>1
    <3> QED
      BY <3>1, <3>2
  <2>4. StubArgsFrom(m, data, h, k + 1)
    BY <2>3 DEF StubArgsFrom
  <2> HIDE DEF h
  <2> QED
    BY <2>4
<1> HIDE DEF T
<1>3. Nat \subseteq T
  BY <1>1, <1>2, Induct
<1> QED
  BY <1>3 DEF T

(* The first k of the values of seen have been read, and rest is left.     *)
HasRead(read, k, seen, rest) ==
  /\ read.ok /\ read.rest = rest
  /\ IsSeq(read.values) /\ Len(read.values) = k /\ \A j \in 1 .. k : read.values[j] = seen[j]

(* One more value was read.                                                *)
LEMMA OneMoreRead ==
  ASSUME NEW values, IsSeq(values), NEW k \in Nat, Len(values) = k, NEW seen, \A j \in 1 .. k : values[j] = seen[j],
         NEW x, x = seen[k + 1]
  PROVE  /\ IsSeq(Append(values, x)) /\ Len(Append(values, x)) = k + 1
         /\ \A j \in 1 .. k + 1 : Append(values, x)[j] = seen[j]
<1> DEFINE S == ToSet(values) \cup {x}
<1>1. values \in Seq(S) /\ x \in S
  BY IsSeqOf
<1> HIDE DEF S
<1> DEFINE t == Append(values, x)
<1>2. t \in Seq(S) /\ Len(t) = k + 1 /\ (\A i \in 1 .. k : t[i] = values[i]) /\ t[k + 1] = x
  BY <1>1, AppendProperties
<1> HIDE DEF t
<1>3. IsSeq(t) /\ \A j \in 1 .. k + 1 : t[j] = seen[j]
  BY <1>2, SeqIsSeq
<1> QED
  BY <1>2, <1>3 DEF t

(* When k arguments were read and the next read finds its value, k + 1     *)
(* were.                                                                   *)
LEMMA NextReads ==
  ASSUME NEW m, NEW k \in Nat, NEW before, NEW seen, NEW rest, NEW left,
         HasRead(before, k, seen, rest), Reads(StubArg(m.args[k + 1], rest), seen[k + 1], left)
  PROVE  HasRead(NextRead(m, k + 1, before), k + 1, seen, left)
<1> DEFINE t == StubArg(m.args[k + 1], rest)
           now == NextRead(m, k + 1, before)
<1>1. before.ok /\ before.rest = rest /\ t.ok /\ t.value = seen[k + 1] /\ t.rest = left
  BY DEF HasRead, Reads
<1>2. now = [ok |-> before.ok /\ t.ok, rest |-> t.rest, values |-> Append(before.values, t.value)]
  <2> HIDE DEF t
  <2> QED
    BY <1>1 DEF NextRead, t
<1> HIDE DEF now, t
<1>3. now.rest = left /\ now.values = Append(before.values, seen[k + 1])
  BY <1>1, <1>2
<1>4. now.ok
  <2>1. \A a, b, c : [ok |-> a, rest |-> b, values |-> c].ok = a
    OBVIOUS
  <2>2. now.ok = (before.ok /\ t.ok)
    BY <1>2, <2>1, Zenon
  <2> QED
    BY <1>1, <2>2, Zenon
<1>5. /\ IsSeq(now.values) /\ Len(now.values) = k + 1
      /\ \A j \in 1 .. k + 1 : now.values[j] = seen[j]
  <2>1. IsSeq(before.values) /\ Len(before.values) = k /\ \A j \in 1 .. k : before.values[j] = seen[j]
    BY DEF HasRead
  <2> DEFINE vs == before.values
             x == seen[k + 1]
  <2>2. /\ IsSeq(Append(vs, x)) /\ Len(Append(vs, x)) = k + 1
        /\ \A j \in 1 .. k + 1 : Append(vs, x)[j] = seen[j]
    BY <2>1, OneMoreRead
  <2> QED
    BY <1>3, <2>2
<1> QED
  BY <1>3, <1>4, <1>5 DEF HasRead, now

(* Everything that the stub reads of a request.                            *)
LEMMA StubArgsRead ==
  ASSUME NEW m, IsSeq(m.args), \A k \in DOMAIN m.args : Paired(m.args[k].type), NEW args \in ArgsOf(m)
  PROVE  LET read == StubArgs(m, Request(m, args))
         IN read.ok /\ read.rest = <<>> /\ \A k \in DOMAIN m.args : read.values[k] = Seen(m.args[k], args[k])
<1> DEFINE n == Len(m.args)
           seqs == [k \in DOMAIN m.args |-> RequestOf(m.args[k], args[k])]
           seen == [k \in DOMAIN m.args |-> Seen(m.args[k], args[k])]
           data == Request(m, args)
<1>1. n \in Nat /\ DOMAIN m.args = 1 .. n
  BY IsSeqOf
<1>2. \A k \in 1 .. n : args[k] \in ValuesOf(m.args[k].type, m.args[k].dimension)
  BY <1>1, ArgsAre
<1>3. ASSUME NEW k \in 1 .. n
      PROVE  /\ IsSeq(seqs[k])
             /\ \A s : IsSeq(s) => Reads(StubArg(m.args[k], seqs[k] \o s), seen[k], s)
  <2> DEFINE a == m.args[k]
             v == args[k]
  <2>1. Paired(a.type) /\ v \in ValuesOf(a.type, a.dimension)
    BY <1>1, <1>2
  <2>2. seqs[k] = RequestOf(a, v) /\ seen[k] = Seen(a, v)
    BY <1>1
  <2> HIDE DEF a, v, seqs, seen
  <2>3. ASSUME NEW s, IsSeq(s) PROVE IsSeq(RequestOf(a, v)) /\ Reads(StubArg(a, RequestOf(a, v) \o s), Seen(a, v), s)
    BY <2>1, <2>3, StubArgReads
  <2> QED
    BY <2>2, <2>3, SmallSeqs DEF a
<1>4. data = <<Token>> \o FlattenSeq(seqs)
  BY DEF Request
<1>5. DOMAIN seqs = 1 .. n /\ seqs = [k \in 1 .. n |-> seqs[k]]
  BY <1>1
<1> HIDE DEF seqs, data
<1> DEFINE S == UNION {ToSet(seqs[k]) : k \in 1 .. n}
<1>6. seqs \in [1 .. n -> Seq(S)]
  <2>1. ASSUME NEW k \in 1 .. n PROVE seqs[k] \in Seq(S)
    <3>1. ToSet(seqs[k]) \subseteq S
      OBVIOUS
    <3> HIDE DEF S
    <3> QED
      BY <1>3, <3>1, IsSeqOf
  <2> HIDE DEF S
  <2> QED
    BY <1>5, <2>1
<1> HIDE DEF S, n
<1>7. PICK rests \in [0 .. n -> Seq(S)] : FlattenSeq(seqs) = rests[0] /\ Splits(seqs, n, rests)
  BY <1>1, <1>6, FlattenSplits
<1>8. \A k \in 0 .. n : IsSeq(rests[k])
  BY SeqIsSeq
<1>9. PICK read : StubArgsFrom(m, data, read, n) /\ StubArgs(m, data) = read[n]
  <2> DEFINE f == CHOOSE f : StubArgsFrom(m, data, f, n)
  <2>1. StubArgsFrom(m, data, f, n)
    BY <1>1, StubArgsFromIs
  <2>2. StubArgs(m, data) = f[n]
    BY StubArgsIs DEF n
  <2> HIDE DEF f
  <2> QED
    BY <2>1, <2>2
<1>10. \A k \in 0 .. n : read[k] = IF k = 0 THEN FirstRead(data) ELSE NextRead(m, k, read[k - 1])
  BY <1>9 DEF StubArgsFrom
<1> DEFINE T == {k \in Nat : k <= n => HasRead(read[k], k, seen, rests[k])}
<1> HIDE DEF seen
<1>11. 0 \in T
  <2> DEFINE taken == Take(data, "Token")
             rest0 == rests[0]
  <2>1. IsSeq(rest0) /\ data = <<Token>> \o rest0
    BY <1>1, <1>4, <1>7, <1>8
  <2>2. Reads(taken, generated.name, rest0)
    BY <2>1, TakeFirst DEF Token
  <2>3. read[0] = FirstRead(data)
    BY <1>1, <1>10
  <2> DEFINE none == <<>>
  <2>4. read[0] = [ok |-> taken.ok, rest |-> taken.rest, values |-> none]
    BY <2>3 DEF FirstRead
  <2> HIDE DEF taken, none
  <2>5. read[0].rest = rest0 /\ read[0].values = <<>>
    BY <2>2, <2>4 DEF Reads, none
  <2>6. read[0].ok
    <3>1. \A a, b, c : [ok |-> a, rest |-> b, values |-> c].ok = a
      OBVIOUS
    <3> DEFINE now == read[0]
    <3>2. now = [ok |-> taken.ok, rest |-> taken.rest, values |-> none]
      BY <2>4
    <3> HIDE DEF now
    <3>3. now.ok = taken.ok
      BY <3>1, <3>2, Zenon
    <3>4. now.ok
      BY <2>2, <3>3, Zenon DEF Reads
    <3> QED
      BY <3>4 DEF now
  <2>7. HasRead(read[0], 0, seen, rest0)
    BY <2>5, <2>6, SmallSeqs DEF HasRead
  <2> QED
    BY <2>7
<1>12. ASSUME NEW k \in Nat, k \in T PROVE k + 1 \in T
  <2> SUFFICES ASSUME k + 1 <= n PROVE HasRead(read[k + 1], k + 1, seen, rests[k + 1])
    OBVIOUS
  <2>1. k + 1 \in 1 .. n /\ k \in 0 .. n /\ k + 1 \in 0 .. n
    BY <1>1
  <2>2. HasRead(read[k], k, seen, rests[k])
    BY <1>12, <2>1
  <2>3. rests[k] = seqs[k + 1] \o rests[k + 1]
    <3>1. rests[(k + 1) - 1] = seqs[k + 1] \o rests[k + 1]
      BY <1>7, <2>1 DEF Splits
    <3>2. (k + 1) - 1 = k
      OBVIOUS
    <3> QED
      BY <3>1, <3>2
  <2>4. IsSeq(rests[k + 1])
    BY <1>8, <2>1
  <2>5. Reads(StubArg(m.args[k + 1], rests[k]), seen[k + 1], rests[k + 1])
    BY <1>3, <2>1, <2>3, <2>4
  <2>6. read[k + 1] = NextRead(m, k + 1, read[k])
    BY <1>10, <2>1
  <2> QED
    BY <2>2, <2>5, <2>6, NextReads
<1> HIDE DEF T
<1>13. Nat \subseteq T
  BY <1>11, <1>12, Induct
<1>14. HasRead(read[n], n, seen, rests[n])
  BY <1>1, <1>13 DEF T
<1>15. rests[n] = <<>>
  BY <1>7 DEF Splits
<1>16. \A k \in DOMAIN m.args : seen[k] = Seen(m.args[k], args[k])
  BY DEF seen
<1> QED
  BY <1>1, <1>9, <1>14, <1>15, <1>16 DEF HasRead, data

-----------------------------------------------------------------------------
(* The proxy reads the reply.                                              *)

(* Nothing is read yet of what the reply carries for the arguments,        *)
FirstOut(reply) == [ok |-> TRUE, rest |-> reply, values |-> <<>>, throws |-> FALSE]

(* then argument by argument, of those that come back.                     *)
NextOut(m, args, k, before) ==
  LET a == m.args[k]
      t == ReadInto(a.type, a.dimension, args[k], before.rest)
  IN IF ~Out(a) THEN [before EXCEPT !.values = Append(@, args[k])]
     ELSE [ok |-> before.ok /\ t.ok, rest |-> t.rest, values |-> Append(before.values, t.value),
           throws |-> before.throws \/ ReadThrows(a.type, a.dimension, args[k], before.rest)]

(* read holds what was read after 0 .. n arguments.                        *)
OutsFrom(m, args, reply, read, n) ==
  read = [k \in 0 .. n |-> IF k = 0 THEN FirstOut(reply) ELSE NextOut(m, args, k, read[k - 1])]

(* ReadOuts is the last of these.                                          *)
LEMMA ReadOutsIs ==
  ASSUME NEW m, NEW args, NEW reply
  PROVE  ReadOuts(m, args, reply) = (CHOOSE read : OutsFrom(m, args, reply, read, Len(m.args)))[Len(m.args)]
BY DEF ReadOuts, OutsFrom, FirstOut, NextOut

(* There is such a function: by induction on n.                            *)
LEMMA OutsFromIs ==
  ASSUME NEW m, NEW args, NEW reply, NEW n \in Nat
  PROVE  \E read : OutsFrom(m, args, reply, read, n)
<1> DEFINE T == {k \in Nat : \E read : OutsFrom(m, args, reply, read, k)}
<1>1. 0 \in T
  <2> DEFINE f == [k \in 0 .. 0 |-> FirstOut(reply)]
  <2>1. OutsFrom(m, args, reply, f, 0)
    BY DEF OutsFrom
  <2> HIDE DEF f
  <2> QED
    BY <2>1
<1>2. ASSUME NEW k \in Nat, k \in T PROVE k + 1 \in T
  <2>1. PICK g : OutsFrom(m, args, reply, g, k)
    BY <1>2
  <2>2. \A i \in 0 .. k : g[i] = IF i = 0 THEN FirstOut(reply) ELSE NextOut(m, args, i, g[i - 1])
    BY <2>1 DEF OutsFrom
  <2> DEFINE h == [i \in 0 .. k + 1 |-> IF i <= k THEN g[i] ELSE NextOut(m, args, k + 1, g[k])]
  <2>3. ASSUME NEW i \in 0 .. k + 1
        PROVE  h[i] = IF i = 0 THEN FirstOut(reply) ELSE NextOut(m, args, i, h[i - 1])
    <3>1. CASE i \in 0 .. k
      <4>1. h[i] = g[i] /\ (i # 0 => h[i - 1] = g[i - 1])
        BY <3>1
      <4> HIDE DEF h
      <4> QED
        BY <2>2, <3>1, <4>1
    <3>2. CASE i = k + 1
      <4>1. h[i] = NextOut(m, args, k + 1, g[k]) /\ h[i - 1] = g[k]
        BY <3>2
      <4> HIDE DEF h
      <4> QED
        BY <3>2, <4>1
    <3> QED
      BY <3>1, <3>2
  <2>4. OutsFrom(m, args, reply, h, k + 1)
    BY <2>3 DEF OutsFrom
  <2> HIDE DEF h
  <2> QED
    BY <2>4
<1> HIDE DEF T
<1>3. Nat \subseteq T
  BY <1>1, <1>2, Induct
<1> QED
  BY <1>3 DEF T

(* The fields of what is read.                                             *)
OutFields == {"ok", "rest", "values", "throws"}

(* v comes back of the argument a whose value was v0.                      *)
OutIsRead(a, v0, v, rest, left) ==
  IF Out(a) THEN Reads(ReadInto(a.type, a.dimension, v0, rest), v, left) ELSE v = v0 /\ left = rest

(* When k arguments were read back and the next is, k + 1 were.            *)
LEMMA NextOutRead ==
  ASSUME NEW m, NEW args, NEW k \in Nat, NEW before, DOMAIN before = OutFields, NEW seen, NEW rest, NEW left,
         HasRead(before, k, seen, rest),
         OutIsRead(m.args[k + 1], args[k + 1], seen[k + 1], rest, left)
  PROVE  /\ HasRead(NextOut(m, args, k + 1, before), k + 1, seen, left)
         /\ DOMAIN NextOut(m, args, k + 1, before) = OutFields
<1> DEFINE a == m.args[k + 1]
           t == ReadInto(a.type, a.dimension, args[k + 1], rest)
           x == seen[k + 1]
           vs == before.values
           now == NextOut(m, args, k + 1, before)
<1>1. /\ before.ok /\ before.rest = rest
      /\ IsSeq(vs) /\ Len(vs) = k /\ \A j \in 1 .. k : vs[j] = seen[j]
  BY DEF HasRead
<1>2. /\ IsSeq(Append(vs, x)) /\ Len(Append(vs, x)) = k + 1
      /\ \A j \in 1 .. k + 1 : Append(vs, x)[j] = seen[j]
  BY <1>1, OneMoreRead
<1>3. CASE ~Out(a)
  <2>1. x = args[k + 1] /\ left = rest
    BY <1>3 DEF OutIsRead
  <2> DEFINE more == Append(vs, x)
  <2>2. now = [before EXCEPT !.values = more]
    BY <1>3, <2>1 DEF NextOut
  <2> HIDE DEF now, more
  <2>3. DOMAIN now = OutFields /\ now.values = more /\ now.rest = rest
    BY <1>1, <2>2 DEF OutFields
  <2>4. now.ok = before.ok
    BY <2>2 DEF OutFields
  <2>5. now.ok
    BY <1>1, <2>4, Zenon
  <2>6. HasRead(now, k + 1, seen, left)
    BY <1>2, <2>1, <2>3, <2>5 DEF HasRead, more
  <2> QED
    BY <2>3, <2>6 DEF now
<1>4. CASE Out(a)
  <2>1. t.ok /\ t.value = x /\ t.rest = left
    BY <1>4 DEF Reads, OutIsRead
  <2> DEFINE more == Append(vs, x)
             ok == before.ok /\ t.ok
             throws == before.throws \/ ReadThrows(a.type, a.dimension, args[k + 1], rest)
  <2>2. now = [ok |-> ok, rest |-> left, values |-> more, throws |-> throws]
    <3> HIDE DEF t
    <3> QED
      BY <1>1, <1>4, <2>1 DEF NextOut, t
  <2>3. ok
    BY <1>1, <2>1
  <2> HIDE DEF now, more, ok, throws, t
  <2>4. DOMAIN now = OutFields /\ now.values = more /\ now.rest = left
    BY <2>2 DEF OutFields
  <2>5. now.ok
    <3>1. \A b, c, d, e : [ok |-> b, rest |-> c, values |-> d, throws |-> e].ok = b
      OBVIOUS
    <3>2. now.ok = ok
      BY <2>2, <3>1, Zenon
    <3> QED
      BY <2>3, <3>2, Zenon
  <2>6. HasRead(now, k + 1, seen, left)
    BY <1>2, <2>4, <2>5 DEF HasRead, more
  <2> QED
    BY <2>4, <2>6 DEF now
<1> QED
  BY <1>3, <1>4

(* What comes back, in the order of the arguments.                         *)
OutsOf(m, outs) ==
  FlattenSeq([k \in DOMAIN m.args |-> IF Out(m.args[k]) THEN Write(m.args[k].type, m.args[k].dimension, outs[k]) ELSE <<>>])

(* The proxy reads back every argument that the stub wrote, and nothing is *)
(* left.                                                                   *)
LEMMA ReadOutsRead ==
  ASSUME NEW m, IsSeq(m.args), \A k \in DOMAIN m.args : Paired(m.args[k].type),
         \A k \in Outs(m) : m.args[k].dimension = 1 \/ m.args[k].type.calls.readInto # "none",
         NEW args, NEW outs, \A k \in Outs(m) : outs[k] = "null" => args[k] = "null"
  PROVE  /\ IsSeq(OutsOf(m, outs))
         /\ LET read == ReadOuts(m, args, OutsOf(m, outs))
            IN read.ok /\ read.rest = <<>> /\ \A k \in Outs(m) : read.values[k] = outs[k]
<1> DEFINE n == Len(m.args)
           seqs == [k \in DOMAIN m.args |-> IF Out(m.args[k]) THEN Write(m.args[k].type, m.args[k].dimension, outs[k]) ELSE <<>>]
           seen == [k \in DOMAIN m.args |-> IF Out(m.args[k]) THEN outs[k] ELSE args[k]]
           reply == OutsOf(m, outs)
<1>1. n \in Nat /\ DOMAIN m.args = 1 .. n
  BY IsSeqOf
<1>2. ASSUME NEW k \in 1 .. n
      PROVE  /\ IsSeq(seqs[k])
             /\ \A s : IsSeq(s) =>
                  IF Out(m.args[k])
                  THEN Reads(ReadInto(m.args[k].type, m.args[k].dimension, args[k], seqs[k] \o s), seen[k], s)
                  ELSE seen[k] = args[k] /\ s = seqs[k] \o s
  <2>1. CASE Out(m.args[k])
    <3> DEFINE t == m.args[k].type
               d == m.args[k].dimension
               v == outs[k]
               v0 == args[k]
    <3>1. k \in Outs(m)
      BY <1>1, <2>1 DEF Outs
    <3>2. Paired(t) /\ (d = 1 \/ t.calls.readInto # "none") /\ (v = "null" => v0 = "null")
      BY <1>1, <3>1
    <3>3. seqs[k] = Write(t, d, v) /\ seen[k] = v
      BY <1>1, <2>1
    <3> HIDE DEF t, d, v, v0, seqs, seen
    <3>4. ASSUME NEW s, IsSeq(s) PROVE IsSeq(Write(t, d, v)) /\ Reads(ReadInto(t, d, v0, Write(t, d, v) \o s), v, s)
      BY <3>2, <3>4, ReadIntoReads
    <3> QED
      BY <2>1, <3>3, <3>4, SmallSeqs DEF t, d, v0
  <2>2. CASE ~Out(m.args[k])
    <3>1. seqs[k] = <<>> /\ seen[k] = args[k]
      BY <1>1, <2>2
    <3> HIDE DEF seqs, seen
    <3>2. \A s : IsSeq(s) => <<>> \o s = s
      BY ConcatEmptySeq DEF IsSeq
    <3> QED
      BY <2>2, <3>1, <3>2, SmallSeqs
  <2> QED
    BY <2>1, <2>2
<1>4. reply = FlattenSeq(seqs)
  BY DEF OutsOf
<1>5. DOMAIN seqs = 1 .. n /\ seqs = [k \in 1 .. n |-> seqs[k]]
  BY <1>1
<1> HIDE DEF seqs, reply
<1> DEFINE S == UNION {ToSet(seqs[k]) : k \in 1 .. n}
<1>6. seqs \in [1 .. n -> Seq(S)]
  <2>1. ASSUME NEW k \in 1 .. n PROVE seqs[k] \in Seq(S)
    <3>1. ToSet(seqs[k]) \subseteq S
      OBVIOUS
    <3> HIDE DEF S
    <3> QED
      BY <1>2, <3>1, IsSeqOf
  <2> HIDE DEF S
  <2> QED
    BY <1>5, <2>1
<1> HIDE DEF S, n
<1>7. PICK rests \in [0 .. n -> Seq(S)] : FlattenSeq(seqs) = rests[0] /\ Splits(seqs, n, rests)
  BY <1>1, <1>6, FlattenSplits
<1>8. \A k \in 0 .. n : IsSeq(rests[k])
  BY SeqIsSeq
<1>9. PICK read : OutsFrom(m, args, reply, read, n) /\ ReadOuts(m, args, reply) = read[n]
  <2> DEFINE f == CHOOSE f : OutsFrom(m, args, reply, f, n)
  <2>1. OutsFrom(m, args, reply, f, n)
    BY <1>1, OutsFromIs
  <2>2. ReadOuts(m, args, reply) = f[n]
    BY ReadOutsIs DEF n
  <2> HIDE DEF f
  <2> QED
    BY <2>1, <2>2
<1>10. \A k \in 0 .. n : read[k] = IF k = 0 THEN FirstOut(reply) ELSE NextOut(m, args, k, read[k - 1])
  BY <1>9 DEF OutsFrom
<1> DEFINE T == {k \in Nat : k <= n => HasRead(read[k], k, seen, rests[k]) /\ DOMAIN read[k] = OutFields}
<1> HIDE DEF seen
<1>11. 0 \in T
  <2> DEFINE none == <<>>
             now == read[0]
  <2>1. now = FirstOut(reply)
    BY <1>1, <1>10
  <2>2. now = [ok |-> TRUE, rest |-> reply, values |-> none, throws |-> FALSE]
    BY <2>1 DEF FirstOut
  <2> HIDE DEF none, now
  <2>3. now.rest = rests[0] /\ now.values = <<>> /\ DOMAIN now = OutFields
    BY <1>4, <1>7, <2>2 DEF none, OutFields
  <2>4. now.ok
    BY <2>2
  <2>5. HasRead(now, 0, seen, rests[0])
    BY <2>3, <2>4, SmallSeqs DEF HasRead
  <2> QED
    BY <2>3, <2>5 DEF now
<1>12. ASSUME NEW k \in Nat, k \in T PROVE k + 1 \in T
  <2> SUFFICES ASSUME k + 1 <= n PROVE HasRead(read[k + 1], k + 1, seen, rests[k + 1]) /\ DOMAIN read[k + 1] = OutFields
    OBVIOUS
  <2>1. k + 1 \in 1 .. n /\ k \in 0 .. n /\ k + 1 \in 0 .. n
    BY <1>1
  <2>2. HasRead(read[k], k, seen, rests[k]) /\ DOMAIN read[k] = OutFields
    BY <1>12, <2>1
  <2>3. rests[k] = seqs[k + 1] \o rests[k + 1]
    <3>1. rests[(k + 1) - 1] = seqs[k + 1] \o rests[k + 1]
      BY <1>7, <2>1 DEF Splits
    <3>2. (k + 1) - 1 = k
      OBVIOUS
    <3> QED
      BY <3>1, <3>2
  <2>4. IsSeq(rests[k + 1])
    BY <1>8, <2>1
  <2>5. OutIsRead(m.args[k + 1], args[k + 1], seen[k + 1], rests[k], rests[k + 1])
    BY <1>2, <2>1, <2>3, <2>4 DEF OutIsRead
  <2>6. read[k + 1] = NextOut(m, args, k + 1, read[k])
    BY <1>10, <2>1
  <2> QED
    <3> DEFINE before == read[k]
               rest == rests[k]
               left == rests[k + 1]
    <3>1. /\ DOMAIN before = OutFields /\ HasRead(before, k, seen, rest)
          /\ OutIsRead(m.args[k + 1], args[k + 1], seen[k + 1], rest, left)
      BY <2>2, <2>5
    <3>2. read[k + 1] = NextOut(m, args, k + 1, before)
      BY <2>6
    <3> HIDE DEF before, rest, left
    <3>3. /\ HasRead(NextOut(m, args, k + 1, before), k + 1, seen, left)
          /\ DOMAIN NextOut(m, args, k + 1, before) = OutFields
      BY <3>1, NextOutRead
    <3> QED
      BY <3>2, <3>3 DEF left
<1> HIDE DEF T
<1>13. Nat \subseteq T
  BY <1>11, <1>12, Induct
<1>14. HasRead(read[n], n, seen, rests[n])
  BY <1>1, <1>13 DEF T
<1>15. rests[n] = <<>>
  BY <1>7 DEF Splits
<1>16. \A k \in Outs(m) : k \in 1 .. n /\ seen[k] = outs[k]
  BY <1>1 DEF seen, Outs
<1>17. IsSeq(reply)
  BY <1>1, <1>4, <1>7, <1>8
<1> QED
  BY <1>9, <1>14, <1>15, <1>16, <1>17 DEF HasRead, reply

-----------------------------------------------------------------------------
(* A call of the binder code.                                              *)

(* An argument that comes back has a call that reads into it, if the Java  *)
(* compiles.                                                               *)
LEMMA OutsCanBeRead ==
  ASSUME NEW m, SoundMethod("interface", m), Compiles("interface", m), NEW k \in Outs(m)
  PROVE  m.args[k].dimension = 1 \/ m.args[k].type.calls.readInto # "none"
<1> DEFINE a == m.args[k]
           t == a.type
<1>1. k \in DOMAIN m.args /\ Out(a)
  BY DEF Outs
<1>2. ~Lacks(t, ArgCalls("interface", a))
  BY <1>1 DEF Compiles, Unimplemented
<1>3. "readInto" \in DOMAIN t.calls
  BY <1>1 DEF SoundMethod, Paired
<1> HIDE DEF t, a
<1>4. CASE a.dimension = 0
  <2>1. "readInto" \in ArgCalls("interface", a)
    BY <1>1, <1>4 DEF ArgCalls
  <2>2. t.calls["readInto"] # "none"
    BY <1>2, <1>3, <2>1 DEF Lacks
  <2> QED
    BY <2>2 DEF t, a
<1>5. CASE a.dimension = 1
  BY <1>5 DEF a
<1>6. CASE a.dimension # 0 /\ a.dimension # 1
  <2>1. ArgCalls("interface", a) = {"rpc array"}
    BY <1>6 DEF ArgCalls
  <2> QED
    BY <1>2, <2>1 DEF Lacks
<1> QED
  BY <1>4, <1>5, <1>6

(* What the service saw: what the caller passed, but for what only comes   *)
(* back.                                                                   *)
SawAll(m, args, saw) == \A k \in DOMAIN m.args : saw[k] = Seen(m.args[k], args[k])

(* The service can make a null only of an array that was null: it cannot   *)
(* exchange its argument.                                                  *)
LEMMA NullsComeFromNulls ==
  ASSUME NEW m, NEW args, NEW saw, SawAll(m, args, saw) \/ \A k \in DOMAIN m.args : saw[k] = args[k],
         NEW outs \in Outcomes(m, saw), NEW k \in Outs(m), outs[k] = "null"
  PROVE  args[k] = "null"
<1> DEFINE sets == [l \in DOMAIN m.args |-> IF Out(m.args[l]) /\ saw[l] # "null" THEN {saw[l], "b"} ELSE {saw[l]}]
<1>1. outs \in Tuples(sets) /\ DOMAIN sets = DOMAIN m.args
  BY DEF Outcomes
<1>2. k \in DOMAIN m.args
  BY DEF Outs
<1>3. sets[k] = IF Out(m.args[k]) /\ saw[k] # "null" THEN {saw[k], "b"} ELSE {saw[k]}
  BY <1>2
<1> HIDE DEF sets
<1>4. outs[k] \in sets[k]
  BY <1>1, <1>2, TuplesAre
<1>5. saw[k] = "null"
  BY <1>3, <1>4
<1>6. saw[k] = args[k] \/ saw[k] = Seen(m.args[k], args[k])
  BY <1>2 DEF SawAll
<1> QED
  BY <1>5, <1>6 DEF Seen

(* What the stub writes of the result,                                     *)
ResultOf(m, r) == IF HasResult(m) THEN Write(m.type, m.dimension, r) ELSE <<>>

(* behind the mark that no exception was thrown.                           *)
Head0(m) == IF Oneway(m) THEN <<>> ELSE <<Item("NoException", "0")>>

(* The reply, part by part.                                                *)
LEMMA ReplyIs ==
  ASSUME NEW m, SoundMethod("interface", m), Compiles("interface", m), NEW args, NEW outs, NEW r \in Results(m),
         \A k \in Outs(m) : outs[k] = "null" => args[k] = "null"
  PROVE  /\ IsSeq(ResultOf(m, r)) /\ IsSeq(OutsOf(m, outs)) /\ IsSeq(Reply(m, outs, r))
         /\ IsSeq(ResultOf(m, r) \o OutsOf(m, outs))
         /\ Reply(m, outs, r) = Head0(m) \o (ResultOf(m, r) \o OutsOf(m, outs))
<1> DEFINE a == Head0(m)
           b == ResultOf(m, r)
           c == OutsOf(m, outs)
<1>1. IsSeq(a)
  BY SmallSeqs DEF Head0
<1>2. IsSeq(b)
  <2>1. CASE HasResult(m)
    <3> DEFINE t == m.type
               d == m.dimension
    <3>1. Paired(t) /\ r \in ValuesOf(t, d) /\ b = Write(t, d, r)
      BY <2>1 DEF SoundMethod, Results, ResultOf
    <3> HIDE DEF t, d, b
    <3>2. IsSeq(Write(t, d, r))
      BY <3>1, CreateReads, SmallSeqs
    <3> QED
      BY <3>1, <3>2
  <2>2. CASE ~HasResult(m)
    BY <2>2, SmallSeqs DEF ResultOf
  <2> QED
    BY <2>1, <2>2
<1>3. IsSeq(c)
  BY OutsCanBeRead, ReadOutsRead DEF SoundMethod
<1>4. Reply(m, outs, r) = (a \o b) \o c
  BY DEF Reply, Head0, ResultOf, OutsOf
<1> HIDE DEF a, b, c
<1> DEFINE S == ToSet(a) \cup ToSet(b) \cup ToSet(c)
<1>5. a \in Seq(S) /\ b \in Seq(S) /\ c \in Seq(S)
  BY <1>1, <1>2, <1>3, IsSeqOf
<1> HIDE DEF S
<1>6. (a \o b) \o c = a \o (b \o c)
  BY <1>5, ConcatAssociative
<1>7. IsSeq(b \o c)
  BY <1>2, <1>3, Joined
<1>8. IsSeq(a \o (b \o c))
  BY <1>1, <1>7, Joined
<1> QED
  BY <1>2, <1>3, <1>4, <1>6, <1>7, <1>8 DEF a, b, c

(* A reply to a caught exception begins with it.                           *)
LEMMA CaughtIs ==
  ASSUME NEW s, IsSeq(s)
  PROVE  Caught(s) # <<>> /\ Caught(s)[1].format = "Exception"
<1> DEFINE x == Item("Exception", "-3")
           y == Item("String", "stack")
           head == <<x, y>>
           tail == SubSeq(s, 3, Len(s))
           S == ToSet(s) \cup {x, y}
<1>1. s \in Seq(S) /\ Len(s) \in Nat /\ x \in S /\ y \in S
  BY IsSeqOf
<1>2. x.format = "Exception"
  BY DEF Item
<1> HIDE DEF x, y, S
<1>3. \A i \in 3 .. Len(s) : s[i] \in S
  BY <1>1
<1>4. tail \in Seq(S)
  BY <1>1, <1>3, SubSeqProperties
<1>5. head \in Seq(S) /\ Len(head) = 2 /\ head[1] = x
  BY <1>1
<1>6. Caught(s) = head \o tail
  BY DEF Caught, x, y
<1> HIDE DEF head, tail
<1>7. /\ head \o tail \in Seq(S) /\ Len(head \o tail) = Len(head) + Len(tail)
      /\ \A i \in 1 .. Len(head) + Len(tail) : (head \o tail)[i] = IF i <= Len(head) THEN head[i] ELSE tail[i - Len(head)]
  BY <1>4, <1>5, ConcatProperties
<1>10. Len(tail) \in Nat
  BY <1>4
<1>8. (head \o tail)[1] = x
  <2>1. 1 \in 1 .. Len(head) + Len(tail) /\ 1 <= Len(head)
    BY <1>5, <1>10
  <2> QED
    BY <1>5, <1>7, <2>1
<1>9. head \o tail # <<>>
  BY <1>5, <1>7, <1>10
<1> QED
  BY <1>2, <1>6, <1>8, <1>9

(* The fields of a call.                                                   *)
CallFields == {"pc", "method", "args", "data", "reply", "held", "saw", "outs", "result", "threw"}

(* A call of a method, with its arguments and the request that carries     *)
(* them.                                                                   *)
IsCall(c) ==
  /\ DOMAIN c = CallFields
  /\ c.method \in DOMAIN Methods /\ c.args \in ArgsOf(Methods[c.method])
  /\ c.data = Request(Methods[c.method], c.args)
(* The service ran the call c: it saw what was passed in; c.reply carries  *)
(* what it made of it, or an exception.                                    *)
Ran(c) ==
  LET m == Methods[c.method]
  IN /\ \A k \in Ins(m) : c.saw[k] = c.args[k]
     /\ \A k \in Outs(m) : c.outs[k] = "null" => c.args[k] = "null"
     /\ c.result \in Results(m)

(* The reply carries an exception, or what the service made, or is empty   *)
(* when it threw a RemoteException.                                        *)
Carries(c) ==
  \/ c.threw = "runtime" /\ c.reply # <<>> /\ c.reply[1].format = "Exception"
  \/ c.threw = "nothing" /\ c.reply = Reply(Methods[c.method], c.outs, c.result)
  \/ c.threw = "remote" /\ c.reply = <<>>

(* The call that the proxy makes.                                          *)
ClientInv ==
  /\ client.pc \in {"idle", "built", "sent", "replied"}
  /\ client.pc = "idle" => client.held = {}
  /\ client.pc # "idle" => IsCall(client) /\ client.held \subseteq {"data", "reply"}
  /\ client.pc \in {"built", "sent"} => client.threw = "nothing"
  /\ client.pc \in {"sent", "replied"} => ~Oneway(Methods[client.method])
  /\ client.pc = "replied" => Ran(client) /\ Carries(client)

(* The calls that wait for the service.                                    *)
QueueInv == IsSeq(queue) /\ \A c \in ToSet(queue) : IsCall(c) /\ c.threw = "nothing" /\ c.pc # "sent"

(* No call has been made, and none is under way.                           *)
BinderQuiet == client.pc = "idle" /\ queue = <<>> /\ last.kind \notin {"returned", "served"}

(* All of it, with the faithfulness of the last call that ended.           *)
BinderInv ==
  /\ Running("interface") \/ BinderQuiet
  /\ ClientInv /\ QueueInv
  /\ alive \in BOOLEAN /\ calls \in 0 .. MaxCalls
  /\ WireAgrees /\ CallsFaithful /\ ThrowsReach

(* run is the call c as the service has run it.                            *)
RunOf(c, run) ==
  /\ DOMAIN run = CallFields
  /\ run.pc = c.pc /\ run.method = c.method /\ run.args = c.args /\ run.data = c.data /\ run.held = c.held
  /\ Ran(run) /\ Carries(run)

(* A call with its outcome: what changes and what does not.                *)
LEMMA CallChanged ==
  ASSUME NEW c, DOMAIN c = CallFields, NEW saw, NEW outs, NEW r, NEW reply, NEW thrown
  PROVE  LET seen == [c EXCEPT !.saw = saw, !.outs = outs, !.result = r]
             run == [seen EXCEPT !.reply = reply]
             caught == [seen EXCEPT !.reply = reply, !.threw = thrown]
         IN /\ DOMAIN run = CallFields
            /\ run.pc = c.pc /\ run.method = c.method /\ run.args = c.args /\ run.data = c.data /\ run.held = c.held
            /\ run.saw = saw /\ run.outs = outs /\ run.result = r /\ run.reply = reply
            /\ c.threw = "nothing" => run.threw = "nothing"
            /\ DOMAIN caught = CallFields
            /\ caught.pc = c.pc /\ caught.method = c.method /\ caught.args = c.args /\ caught.data = c.data
            /\ caught.held = c.held
            /\ caught.saw = saw /\ caught.outs = outs /\ caught.result = r /\ caught.reply = reply
            /\ caught.threw = thrown
BY DEF CallFields

(* What the service gives for the call c of the method m, having read.     *)
Gives(c, m, read) ==
  /\ wire' = (wire /\ read.ok /\ read.rest = <<>>)
  /\ \E outs \in Outcomes(m, read.values) : \E r \in Results(m) : \E reply \in {Reply(m, outs, r)} :
       LET seen == [c EXCEPT !.saw = read.values, !.outs = outs, !.result = r]
       IN \/ Answers(c, [seen EXCEPT !.reply = reply])
          \/ Answers(c, [seen EXCEPT !.reply = Caught(<<>>), !.threw = "runtime"])
          \/ \E n \in 1 .. Len(reply) - 1 : Answers(c, [seen EXCEPT !.reply = Caught(SubSeq(reply, 1, n)), !.threw = "runtime"])
          \/ Answers(c, [seen EXCEPT !.reply = <<>>, !.threw = "remote"])

(* The stub runs a call: it reads what was written, and answers what the   *)
(* service made of it.                                                     *)
LEMMA RunsIs ==
  ASSUME CompilerInv, Running("interface"), WireAgrees, NEW c, IsCall(c), c.threw = "nothing", Runs(c)
  PROVE  WireAgrees' /\ \E run : Answers(c, run) /\ RunOf(c, run)
<1> DEFINE m == Methods[c.method]
           args == c.args
           read == StubArgs(m, c.data)
           saw == read.values
<1>1. DOMAIN c = CallFields /\ c.method \in DOMAIN Methods /\ args \in ArgsOf(m) /\ c.data = Request(m, args)
  BY DEF IsCall
<1>2. SoundMethod("interface", m) /\ Compiles("interface", m)
  BY <1>1, RunningMethod
<1>3. \A j \in DOMAIN Methods : Methods[j].value = m.value => j = c.method
  BY <1>1 DEF CompilerInv, GeneratedInv, SoundJava, Running, Methods
<1>4. PICK j \in {k \in DOMAIN Methods : Methods[k].value = m.value} : Gives(c, Methods[j], StubArgs(Methods[j], c.data))
  <2>1. PICK j \in {k \in DOMAIN Methods : Methods[k].value = m.value} : \E x \in {StubArgs(Methods[j], c.data)} : Gives(c, Methods[j], x)
    BY Zenon DEF Runs, Gives
  <2> QED
    BY <2>1
<1>5. j = c.method
  BY <1>3, <1>4
<1>6. Gives(c, m, read)
  BY <1>4, <1>5
<1> HIDE DEF m, args
<1>7. read.ok /\ read.rest = <<>> /\ \A k \in DOMAIN m.args : saw[k] = Seen(m.args[k], args[k])
  BY <1>1, <1>2, StubArgsRead DEF SoundMethod
<1> HIDE DEF read
<1>8. WireAgrees'
  <2>1. read.rest = <<>>
    BY <1>7
  <2> QED
    BY <1>6, <1>7, <2>1, Zenon DEF WireAgrees, Gives
<1>9. SawAll(m, args, saw)
  BY <1>7 DEF SawAll
<1>10. \A k \in Ins(m) : saw[k] = args[k]
  BY <1>7 DEF Ins, Seen
<1>11. PICK outs \in Outcomes(m, saw) : \E r \in Results(m) :
           LET seen == [c EXCEPT !.saw = saw, !.outs = outs, !.result = r]
               reply == Reply(m, outs, r)
           IN \/ Answers(c, [seen EXCEPT !.reply = reply])
              \/ Answers(c, [seen EXCEPT !.reply = Caught(<<>>), !.threw = "runtime"])
              \/ \E n \in 1 .. Len(reply) - 1 : Answers(c, [seen EXCEPT !.reply = Caught(SubSeq(reply, 1, n)), !.threw = "runtime"])
              \/ Answers(c, [seen EXCEPT !.reply = <<>>, !.threw = "remote"])
  BY <1>6 DEF Gives, saw
<1> HIDE DEF saw
<1>12. PICK r \in Results(m) :
           LET seen == [c EXCEPT !.saw = saw, !.outs = outs, !.result = r]
               reply == Reply(m, outs, r)
           IN \/ Answers(c, [seen EXCEPT !.reply = reply])
              \/ Answers(c, [seen EXCEPT !.reply = Caught(<<>>), !.threw = "runtime"])
              \/ \E n \in 1 .. Len(reply) - 1 : Answers(c, [seen EXCEPT !.reply = Caught(SubSeq(reply, 1, n)), !.threw = "runtime"])
              \/ Answers(c, [seen EXCEPT !.reply = <<>>, !.threw = "remote"])
  BY <1>11
<1> DEFINE seen == [c EXCEPT !.saw = saw, !.outs = outs, !.result = r]
           reply == Reply(m, outs, r)
           run == [seen EXCEPT !.reply = reply]
           caught(x) == [seen EXCEPT !.reply = Caught(x), !.threw = "runtime"]
           none == <<>>
           left == [seen EXCEPT !.reply = none, !.threw = "remote"]
<1>13. \A k \in Outs(m) : outs[k] = "null" => args[k] = "null"
  BY <1>9, NullsComeFromNulls
<1>14. IsSeq(reply)
  BY <1>2, <1>13, ReplyIs
<1>15. RunOf(c, run)
  <2>1. /\ DOMAIN run = CallFields
        /\ run.pc = c.pc /\ run.method = c.method /\ run.args = c.args /\ run.data = c.data /\ run.held = c.held
        /\ run.saw = saw /\ run.outs = outs /\ run.result = r /\ run.reply = reply
        /\ run.threw = "nothing"
    BY <1>1, CallChanged
  <2> HIDE DEF run, reply
  <2>2. Ran(run)
    BY <1>10, <1>13, <2>1 DEF Ran, m, args
  <2>3. Carries(run)
    BY <2>1 DEF Carries, m, reply
  <2> QED
    BY <2>1, <2>2, <2>3 DEF RunOf
<1>16. ASSUME NEW x, IsSeq(x) PROVE RunOf(c, caught(x))
  <2> DEFINE y == Caught(x)
             z == [seen EXCEPT !.reply = y, !.threw = "runtime"]
  <2>1. y # <<>> /\ y[1].format = "Exception"
    BY <1>16, CaughtIs
  <2> HIDE DEF y
  <2>2. /\ DOMAIN z = CallFields
        /\ z.pc = c.pc /\ z.method = c.method /\ z.args = c.args /\ z.data = c.data /\ z.held = c.held
        /\ z.saw = saw /\ z.outs = outs /\ z.result = r /\ z.reply = y /\ z.threw = "runtime"
    BY <1>1, CallChanged
  <2> HIDE DEF z
  <2>3. Ran(z)
    BY <1>10, <1>13, <2>2 DEF Ran, m, args
  <2>4. Carries(z)
    BY <2>1, <2>2 DEF Carries
  <2>5. RunOf(c, z)
    BY <2>2, <2>3, <2>4 DEF RunOf
  <2> QED
    BY <2>5 DEF z, y
<1>19. RunOf(c, left)
  <2>1. /\ DOMAIN left = CallFields
        /\ left.pc = c.pc /\ left.method = c.method /\ left.args = c.args /\ left.data = c.data /\ left.held = c.held
        /\ left.saw = saw /\ left.outs = outs /\ left.result = r /\ left.reply = none /\ left.threw = "remote"
    <3> HIDE DEF none
    <3> QED
      BY <1>1, CallChanged
  <2> HIDE DEF left
  <2>2. Ran(left)
    BY <1>10, <1>13, <2>1 DEF Ran, m, args
  <2>3. Carries(left)
    BY <2>1 DEF Carries, none
  <2> QED
    BY <2>1, <2>2, <2>3 DEF RunOf
<1>17. \A n \in 1 .. Len(reply) - 1 : IsSeq(SubSeq(reply, 1, n))
  <2>1. reply \in Seq(ToSet(reply)) /\ Len(reply) \in Nat
    BY <1>14, IsSeqOf
  <2> HIDE DEF reply
  <2>2. ASSUME NEW n \in 1 .. Len(reply) - 1 PROVE SubSeq(reply, 1, n) \in Seq(ToSet(reply))
    <3>1. \A i \in 1 .. n : reply[i] \in ToSet(reply)
      BY <2>1
    <3> QED
      BY <3>1, SubSeqProperties
  <2> QED
    BY <2>2, SeqIsSeq
<1>18. \/ Answers(c, run)
       \/ Answers(c, caught(<<>>))
       \/ \E n \in 1 .. Len(reply) - 1 : Answers(c, caught(SubSeq(reply, 1, n)))
       \/ Answers(c, left)
  BY <1>12
<1> HIDE DEF run, caught, reply, left
<1> QED
  BY <1>8, <1>15, <1>16, <1>17, <1>18, <1>19, SmallSeqs

(* What a call is depends on the class that was generated alone.           *)
LEMMA CallsStay ==
  ASSUME UNCHANGED compilerVars
  PROVE  /\ Running("interface")' = Running("interface") /\ Methods' = Methods
         /\ \A m : Oneway(m)' = Oneway(m)
         /\ \A x : IsCall(x)' = IsCall(x) /\ Ran(x)' = Ran(x) /\ Carries(x)' = Carries(x)
<1>1. commands' = commands /\ stage' = stage /\ generated' = generated
  BY DEF compilerVars
<1>2. Running("interface")' = Running("interface") /\ Methods' = Methods
  BY JavaStays
<1>3. \A m : Oneway(m)' = Oneway(m)
  BY <1>1 DEF Oneway
<1>4. \A m, args : Request(m, args)' = Request(m, args)
  BY <1>1 DEF Request, RequestOf, Token
<1>5. \A m, outs, r : Reply(m, outs, r)' = Reply(m, outs, r)
  BY <1>3 DEF Reply, HasResult
<1>6. ASSUME NEW x PROVE IsCall(x)' = IsCall(x)
  <2>1. DOMAIN Methods' = DOMAIN Methods /\ Methods'[x.method] = Methods[x.method]
    BY <1>2
  <2>2. \A m : ArgsOf(m)' = ArgsOf(m)
    BY DEF ArgsOf, Tuples
  <2> QED
    BY <1>4, <2>1, <2>2 DEF IsCall
<1>7. ASSUME NEW x PROVE Ran(x)' = Ran(x)
  BY <1>2 DEF Ran, Ins, Outs, Results, HasResult
<1>8. ASSUME NEW x PROVE Carries(x)' = Carries(x)
  <2>1. Methods'[x.method] = Methods[x.method]
    BY <1>2
  <2> QED
    BY <1>5, <2>1 DEF Carries
<1> QED
  BY <1>2, <1>3, <1>6, <1>7, <1>8

(* The invariant holds at the start.                                       *)
LEMMA InitBinderInv == BinderInit => BinderInv
<1> SUFFICES ASSUME BinderInit PROVE BinderInv
  OBVIOUS
<1>1. client = Idle /\ queue = <<>> /\ calls = 0 /\ last = NoCall
  BY DEF BinderInit
<1>2. client.pc = "idle" /\ client.held = {} /\ last.kind = "none"
  BY <1>1 DEF Idle, NoCall
<1>3. WireAgrees /\ alive \in BOOLEAN
  BY Zenon DEF BinderInit, WireAgrees
<1>4. ClientInv
  BY <1>2 DEF ClientInv
<1>5. QueueInv
  BY <1>1, SmallSeqs DEF QueueInv
<1>6. CallsFaithful /\ ThrowsReach
  BY <1>2 DEF CallsFaithful, ThrowsReach
<1>7. calls \in 0 .. MaxCalls
  BY <1>1, MaxCallsAssumption
<1>8. BinderQuiet
  BY <1>1, <1>2 DEF BinderQuiet
<1> QED
  BY <1>3, <1>4, <1>5, <1>6, <1>7, <1>8 DEF BinderInv

(* The compiler runs while no generated class does.                        *)
LEMMA CompileKeepsBinderInv == BinderInv /\ CompilerStep /\ UNCHANGED binderVars => BinderInv'
<1> SUFFICES ASSUME BinderInv, CompilerStep, UNCHANGED binderVars PROVE BinderInv'
  OBVIOUS
<1>1. UNCHANGED <<client, queue, alive, calls, last, wire>>
  BY DEF binderVars
<1>2. ~Running("interface")
  BY CompilerIsDone DEF Running
<1>3. BinderQuiet /\ ClientInv /\ WireAgrees /\ alive \in BOOLEAN /\ calls \in 0 .. MaxCalls
  BY <1>2 DEF BinderInv
<1>4. BinderQuiet'
  BY <1>1, <1>3 DEF BinderQuiet
<1>5. ClientInv'
  BY <1>1, <1>3 DEF ClientInv, BinderQuiet
<1>6. QueueInv'
  BY <1>4, SmallSeqs DEF QueueInv, BinderQuiet
<1>7. WireAgrees' /\ alive' \in BOOLEAN
  BY <1>1, <1>3, Zenon DEF WireAgrees
<1>8. calls' \in 0 .. MaxCalls
  BY <1>1, <1>3
<1>9. CallsFaithful' /\ ThrowsReach'
  BY <1>4 DEF CallsFaithful, ThrowsReach, BinderQuiet
<1> QED
  BY <1>4, <1>5, <1>6, <1>7, <1>8, <1>9 DEF BinderInv

(* What a step that leaves these alone keeps.                              *)
LEMMA QueueStays == QueueInv /\ UNCHANGED <<queue, compilerVars>> => QueueInv'
BY CallsStay DEF QueueInv

(* The last call stays what it was,                                        *)
LEMMA LastStays == CallsFaithful /\ ThrowsReach /\ UNCHANGED <<last, compilerVars>> => CallsFaithful' /\ ThrowsReach'
<1> SUFFICES ASSUME CallsFaithful, ThrowsReach, UNCHANGED <<last, compilerVars>> PROVE CallsFaithful' /\ ThrowsReach'
  OBVIOUS
<1>1. last' = last /\ Methods' = Methods
  BY CallsStay
<1> QED
  BY <1>1 DEF CallsFaithful, ThrowsReach

(* and so do the others.                                                   *)
LEMMA BinderStays == BinderInv /\ UNCHANGED <<compilerVars, binderVars>> => BinderInv'
<1> SUFFICES ASSUME BinderInv, UNCHANGED <<compilerVars, binderVars>> PROVE BinderInv'
  OBVIOUS
<1>0. ClientInv /\ QueueInv /\ CallsFaithful /\ ThrowsReach /\ WireAgrees /\ alive \in BOOLEAN /\ calls \in 0 .. MaxCalls
  BY DEF BinderInv
<1>1. UNCHANGED <<client, queue, alive, calls, last, wire>> /\ UNCHANGED compilerVars
  BY DEF binderVars
<1>2. Running("interface")' \/ BinderQuiet'
  BY <1>1, CallsStay DEF BinderInv, BinderQuiet
<1>3. ClientInv'
  <2>1. client' = client /\ Methods' = Methods
    BY <1>1, CallsStay
  <2> QED
    BY <1>0, <1>1, <2>1, CallsStay DEF ClientInv
<1>4. QueueInv' /\ CallsFaithful' /\ ThrowsReach'
  BY <1>0, <1>1, QueueStays, LastStays
<1>5. WireAgrees' /\ alive' \in BOOLEAN
  BY <1>0, <1>1, Zenon DEF WireAgrees
<1> QED
  BY <1>0, <1>1, <1>2, <1>3, <1>4, <1>5 DEF BinderInv

(* The end of a call.                                                      *)
LEMMA EndsIdle ==
  ASSUME ClientInv, client.pc # "idle", NEW kind, NEW got, NEW r, Ends(kind, got, r)
  PROVE  /\ ClientInv'
         /\ last'.kind = kind /\ last'.call = client /\ last'.got = got /\ last'.result = r
<1>1. client.held \subseteq {"data", "reply"}
  BY DEF ClientInv
<1> DEFINE left == client.held \ {"data", "reply"}
<1>2. left = {}
  BY <1>1
<1> HIDE DEF left
<1>3. client' = [Idle EXCEPT !.held = left]
  BY DEF Ends, left
<1>4. client'.pc = "idle" /\ client'.held = {}
  BY <1>2, <1>3 DEF Idle
<1>5. ClientInv'
  BY <1>4 DEF ClientInv
<1>6. last' = [kind |-> kind, call |-> client, got |-> got, result |-> r]
  BY DEF Ends
<1> QED
  BY <1>5, <1>6

(* A call that ends without an answer owes nothing.                        *)
LEMMA EndsUnanswered ==
  ASSUME NEW kind, last'.kind = kind, kind \notin {"returned", "served"}
  PROVE  CallsFaithful' /\ ThrowsReach'
BY DEF CallsFaithful, ThrowsReach

(* The proxy builds a request.                                             *)
LEMMA BinderCallKeepsBinderInv == BinderInv /\ BinderCall => BinderInv'
<1> SUFFICES ASSUME BinderInv, BinderCall PROVE BinderInv'
  OBVIOUS
<1>0. QueueInv /\ WireAgrees /\ alive \in BOOLEAN /\ calls \in 0 .. MaxCalls
  BY DEF BinderInv
<1>1. /\ calls < MaxCalls /\ Running("interface") /\ calls' = calls + 1 /\ last' = NoCall
      /\ UNCHANGED <<queue, alive, wire, compilerVars>>
  BY DEF BinderCall
<1>2. PICK i \in DOMAIN Methods : \E args \in ArgsOf(Methods[i]) :
         client' = [Idle EXCEPT !.pc = "built", !.method = i, !.args = args, !.data = Request(Methods[i], args),
                                !.held = {"data"} \cup (IF Oneway(Methods[i]) THEN {} ELSE {"reply"})]
  BY DEF BinderCall
<1>3. PICK args \in ArgsOf(Methods[i]) :
         client' = [Idle EXCEPT !.pc = "built", !.method = i, !.args = args, !.data = Request(Methods[i], args),
                                !.held = {"data"} \cup (IF Oneway(Methods[i]) THEN {} ELSE {"reply"})]
  BY <1>2
<1> DEFINE data == Request(Methods[i], args)
           held == {"data"} \cup (IF Oneway(Methods[i]) THEN {} ELSE {"reply"})
<1>4. held \subseteq {"data", "reply"}
  OBVIOUS
<1> HIDE DEF data, held
<1>5. client' = [Idle EXCEPT !.pc = "built", !.method = i, !.args = args, !.data = data, !.held = held]
  BY <1>3 DEF data, held
<1>6. /\ DOMAIN client' = CallFields /\ client'.pc = "built" /\ client'.method = i /\ client'.args = args
      /\ client'.data = data /\ client'.held = held /\ client'.threw = "nothing"
  BY <1>5 DEF Idle, CallFields
<1>7. IsCall(client')
  BY <1>6 DEF IsCall, data
<1>8. UNCHANGED compilerVars /\ UNCHANGED queue
  BY <1>1
<1>9. IsCall(client)'
  <2>1. \A x : IsCall(x)' <=> IsCall(x)
    BY <1>8, CallsStay
  <2> QED
    BY <1>7, <1>8, CallsStay DEF IsCall
<1>10. ClientInv'
  BY <1>4, <1>6, <1>9 DEF ClientInv
<1>11. Running("interface")' /\ QueueInv'
  BY <1>0, <1>1, <1>8, CallsStay, QueueStays
<1>12. last'.kind = "none"
  BY <1>1 DEF NoCall
<1>13. CallsFaithful' /\ ThrowsReach'
  BY <1>12, EndsUnanswered
<1>14. WireAgrees' /\ alive' \in BOOLEAN
  BY <1>0, <1>1, Zenon DEF WireAgrees
<1>15. calls' \in 0 .. MaxCalls
  BY <1>0, <1>1, MaxCallsAssumption
<1> QED
  BY <1>10, <1>11, <1>13, <1>14, <1>15 DEF BinderInv

(* The service is in the same process: a plain call.                       *)
LEMMA LocalCallKeepsBinderInv == BinderInv /\ LocalCall => BinderInv'
<1> SUFFICES ASSUME BinderInv, LocalCall PROVE BinderInv'
  OBVIOUS
<1>0. ClientInv /\ QueueInv /\ WireAgrees /\ alive \in BOOLEAN /\ calls \in 0 .. MaxCalls
  BY DEF BinderInv
<1>1. /\ calls < MaxCalls /\ Running("interface") /\ calls' = calls + 1
      /\ UNCHANGED <<client, queue, alive, wire, compilerVars>>
  BY DEF LocalCall
<1>2. PICK i \in DOMAIN Methods : \E args \in ArgsOf(Methods[i]) :
       \E outs \in Outcomes(Methods[i], args) : \E r \in Results(Methods[i]) :
         LET c == [Idle EXCEPT !.method = i, !.args = args, !.saw = args, !.outs = outs, !.result = r]
         IN \/ last' = [kind |-> "returned", call |-> c, got |-> outs, result |-> r]
            \/ \E thrown \in {"runtime", "remote"} :
                 last' = [kind |-> "exception", call |-> [c EXCEPT !.threw = thrown], got |-> <<>>, result |-> "none"]
  BY DEF LocalCall
<1>3. PICK args, outs, r :
         LET c == [Idle EXCEPT !.method = i, !.args = args, !.saw = args, !.outs = outs, !.result = r]
         IN \/ last' = [kind |-> "returned", call |-> c, got |-> outs, result |-> r]
            \/ \E thrown \in {"runtime", "remote"} :
                 last' = [kind |-> "exception", call |-> [c EXCEPT !.threw = thrown], got |-> <<>>, result |-> "none"]
  BY <1>2
<1> DEFINE c == [Idle EXCEPT !.method = i, !.args = args, !.saw = args, !.outs = outs, !.result = r]
<1>4. c.args = args /\ c.saw = args /\ c.outs = outs /\ c.result = r /\ c.threw = "nothing"
  BY DEF Idle
<1>5. \/ last'.kind = "returned" /\ last'.call = c /\ last'.got = outs /\ last'.result = r
      \/ last'.kind = "exception"
  BY <1>3
<1> HIDE DEF c
<1>6. CallsFaithful'
  BY <1>4, <1>5 DEF CallsFaithful
<1>7. ThrowsReach'
  BY <1>4, <1>5 DEF ThrowsReach
<1>8. UNCHANGED compilerVars /\ UNCHANGED client /\ UNCHANGED queue
  BY <1>1
<1>9. Running("interface")' /\ QueueInv'
  BY <1>0, <1>1, <1>8, CallsStay, QueueStays
<1>10. ClientInv'
  <2>1. client' = client /\ Methods' = Methods
    BY <1>8, CallsStay
  <2> QED
    BY <1>0, <1>8, <2>1, CallsStay DEF ClientInv
<1>11. WireAgrees' /\ alive' \in BOOLEAN
  BY <1>0, <1>1, Zenon DEF WireAgrees
<1>12. calls' \in 0 .. MaxCalls
  BY <1>0, <1>1, MaxCallsAssumption
<1> QED
  BY <1>6, <1>7, <1>9, <1>10, <1>11, <1>12 DEF BinderInv

(* The calls that end with an exception.                                   *)
LEMMA FailuresKeepBinderInv == BinderInv /\ (MarshallingThrows \/ CallDies) => BinderInv'
<1> SUFFICES ASSUME BinderInv, MarshallingThrows \/ CallDies PROVE BinderInv'
  OBVIOUS
<1>0. ClientInv /\ QueueInv /\ WireAgrees /\ alive \in BOOLEAN /\ calls \in 0 .. MaxCalls
  BY DEF BinderInv
<1>1. PICK kind \in {"own exception", "remote exception"} : Ends(kind, <<>>, "none")
  BY DEF MarshallingThrows, CallDies
<1>2. client.pc # "idle" /\ UNCHANGED <<queue, alive, calls, wire, compilerVars>>
  BY DEF MarshallingThrows, CallDies
<1>3. ClientInv' /\ last'.kind = kind
  BY <1>0, <1>1, <1>2, EndsIdle
<1>4. CallsFaithful' /\ ThrowsReach'
  BY <1>3, EndsUnanswered
<1>5. Running("interface")'
  BY <1>2, CallsStay DEF BinderInv, BinderQuiet
<1>6. QueueInv'
  BY <1>0, <1>2, QueueStays
<1>7. WireAgrees' /\ alive' \in BOOLEAN
  BY <1>0, <1>2, Zenon DEF WireAgrees
<1> QED
  BY <1>0, <1>2, <1>3, <1>4, <1>5, <1>6, <1>7 DEF BinderInv

(* The proxy transacts.                                                    *)
LEMMA TransactKeepsBinderInv == BinderInv /\ Transact => BinderInv'
<1> SUFFICES ASSUME BinderInv, Transact PROVE BinderInv'
  OBVIOUS
<1>0. ClientInv /\ QueueInv /\ CallsFaithful /\ ThrowsReach /\ WireAgrees /\ alive \in BOOLEAN /\ calls \in 0 .. MaxCalls
  BY DEF BinderInv
<1>1. client.pc = "built" /\ UNCHANGED <<alive, calls, wire, compilerVars>>
  BY DEF Transact
<1>2. IsCall(client) /\ client.threw = "nothing" /\ client.held \subseteq {"data", "reply"}
  BY <1>0, <1>1 DEF ClientInv
<1>3. UNCHANGED compilerVars
  BY <1>1
<1>4. Running("interface")'
  BY <1>1, <1>3, CallsStay DEF BinderInv, BinderQuiet
<1>5. WireAgrees' /\ alive' \in BOOLEAN
  BY <1>0, <1>1, Zenon DEF WireAgrees
<1>6. CASE ~alive
  <2>1. Ends("remote exception", <<>>, "none") /\ UNCHANGED queue
    BY <1>6 DEF Transact
  <2>2. ClientInv' /\ last'.kind = "remote exception"
    BY <1>0, <1>1, <2>1, EndsIdle
  <2>3. CallsFaithful' /\ ThrowsReach'
    BY <2>2, EndsUnanswered
  <2>4. QueueInv'
    BY <1>0, <1>3, <2>1, QueueStays
  <2> QED
    BY <1>0, <1>1, <1>4, <1>5, <2>2, <2>3, <2>4 DEF BinderInv
<1>7. CASE alive /\ Oneway(Methods[client.method])
  <2>1. Ends("sent", <<>>, "none") /\ queue' = Append(queue, client)
    BY <1>7 DEF Transact
  <2>2. ClientInv' /\ last'.kind = "sent"
    BY <1>0, <1>1, <2>1, EndsIdle
  <2>3. CallsFaithful' /\ ThrowsReach'
    BY <2>2, EndsUnanswered
  <2>4. IsSeq(queue') /\ \A c \in ToSet(queue') : IsCall(c) /\ c.threw = "nothing" /\ c.pc # "sent"
    <3>1. IsSeq(queue) /\ \A c \in ToSet(queue) : IsCall(c) /\ c.threw = "nothing" /\ c.pc # "sent"
      BY <1>0 DEF QueueInv
    <3> QED
      BY <1>1, <1>2, <2>1, <3>1, OneMore
  <2>5. QueueInv'
    BY <1>3, <2>4, CallsStay DEF QueueInv
  <2> QED
    BY <1>0, <1>1, <1>4, <1>5, <2>2, <2>3, <2>5 DEF BinderInv
<1>8. CASE alive /\ ~Oneway(Methods[client.method])
  <2>1. client' = [client EXCEPT !.pc = "sent"] /\ UNCHANGED <<queue, last>>
    BY <1>8 DEF Transact
  <2>2. DOMAIN client = CallFields
    BY <1>2 DEF IsCall
  <2>3. /\ DOMAIN client' = CallFields /\ client'.pc = "sent" /\ client'.method = client.method
        /\ client'.args = client.args /\ client'.data = client.data /\ client'.held = client.held
        /\ client'.threw = "nothing"
    BY <1>2, <2>1, <2>2 DEF CallFields
  <2>4. IsCall(client')
    BY <1>2, <2>3 DEF IsCall
  <2>5. IsCall(client)'
    BY <1>3, <2>4, CallsStay DEF IsCall
  <2>6. ~Oneway(Methods[client.method])'
    <3>1. Methods'[client'.method] = Methods[client.method]
      BY <1>3, <2>3, CallsStay
    <3> QED
      BY <1>3, <1>8, <3>1, CallsStay DEF Oneway
  <2>7. ClientInv'
    BY <1>2, <2>3, <2>5, <2>6 DEF ClientInv
  <2>8. QueueInv' /\ CallsFaithful' /\ ThrowsReach'
    BY <1>0, <1>3, <2>1, QueueStays, LastStays
  <2> QED
    BY <1>0, <1>1, <1>4, <1>5, <2>7, <2>8 DEF BinderInv
<1> QED
  BY <1>6, <1>7, <1>8

(* The process of the service dies.                                        *)
LEMMA DiesKeepsBinderInv == BinderInv /\ Dies => BinderInv'
<1> SUFFICES ASSUME BinderInv, Dies PROVE BinderInv'
  OBVIOUS
<1>0. ClientInv /\ CallsFaithful /\ ThrowsReach /\ WireAgrees /\ calls \in 0 .. MaxCalls
  BY DEF BinderInv
<1>1. Running("interface") /\ queue' = <<>> /\ UNCHANGED <<client, calls, last, wire, compilerVars>>
  BY DEF Dies
<1>2. alive' \in BOOLEAN
  BY Zenon DEF Dies
<1>3. UNCHANGED compilerVars /\ UNCHANGED client /\ UNCHANGED last
  BY <1>1
<1>4. Running("interface")' /\ CallsFaithful' /\ ThrowsReach'
  BY <1>0, <1>1, <1>3, CallsStay, LastStays
<1>5. ClientInv'
  <2>1. client' = client /\ Methods' = Methods
    BY <1>3, CallsStay
  <2> QED
    BY <1>0, <1>3, <2>1, CallsStay DEF ClientInv
<1>6. QueueInv'
  BY <1>1, SmallSeqs DEF QueueInv
<1>7. WireAgrees'
  BY <1>0, <1>1, Zenon DEF WireAgrees
<1> QED
  BY <1>0, <1>1, <1>2, <1>4, <1>5, <1>6, <1>7 DEF BinderInv

(* The stub answers a call.                                                *)
LEMMA StubTransactKeepsBinderInv == CompilerInv /\ BinderInv /\ StubTransact => BinderInv'
<1> SUFFICES ASSUME CompilerInv, BinderInv, StubTransact PROVE BinderInv'
  OBVIOUS
<1>0. ClientInv /\ QueueInv /\ CallsFaithful /\ ThrowsReach /\ WireAgrees /\ alive \in BOOLEAN /\ calls \in 0 .. MaxCalls
  BY DEF BinderInv
<1>1. client.pc = "sent" /\ Runs(client) /\ UNCHANGED <<queue, alive, calls, compilerVars>>
  BY DEF StubTransact
<1>2. IsCall(client) /\ client.threw = "nothing" /\ client.held \subseteq {"data", "reply"} /\ ~Oneway(Methods[client.method])
  BY <1>0, <1>1 DEF ClientInv
<1>3. Running("interface")
  BY <1>1 DEF BinderInv, BinderQuiet
<1>4. WireAgrees' /\ \E run : Answers(client, run) /\ RunOf(client, run)
  BY <1>0, <1>1, <1>2, <1>3, RunsIs
<1>5. PICK run : Answers(client, run) /\ RunOf(client, run)
  BY <1>4
<1>6. /\ DOMAIN run = CallFields
      /\ run.method = client.method /\ run.args = client.args /\ run.data = client.data /\ run.held = client.held
      /\ Ran(run) /\ Carries(run)
  BY <1>5 DEF RunOf
<1>7. client' = [run EXCEPT !.pc = "replied"] /\ UNCHANGED last
  BY <1>1, <1>5 DEF Answers
<1>8. /\ DOMAIN client' = CallFields /\ client'.pc = "replied" /\ client'.method = client.method
      /\ client'.args = client.args /\ client'.data = client.data /\ client'.held = client.held
      /\ client'.saw = run.saw /\ client'.outs = run.outs /\ client'.result = run.result /\ client'.reply = run.reply
      /\ client'.threw = run.threw
  BY <1>6, <1>7 DEF CallFields
<1>9. UNCHANGED compilerVars
  BY <1>1
<1>10. IsCall(client')
  BY <1>2, <1>8 DEF IsCall
<1>11. Ran(client')
  BY <1>6, <1>8 DEF Ran
<1>12. Carries(client')
  BY <1>6, <1>8 DEF Carries
<1>13. IsCall(client)' /\ Ran(client)' /\ Carries(client)'
  <2>1. \A x : (IsCall(x)' <=> IsCall(x)) /\ (Ran(x)' <=> Ran(x)) /\ (Carries(x)' <=> Carries(x))
    BY <1>9, CallsStay
  <2>2. IsCall(client)'
    BY <1>9, <1>10, CallsStay DEF IsCall
  <2>3. Ran(client)'
    BY <1>9, <1>11, CallsStay DEF Ran
  <2>4. Carries(client)'
    BY <1>9, <1>12, CallsStay DEF Carries
  <2> QED
    BY <2>2, <2>3, <2>4
<1>14. ~Oneway(Methods[client.method])'
  <2>1. Methods'[client'.method] = Methods[client.method]
    BY <1>8, <1>9, CallsStay
  <2> QED
    BY <1>2, <1>9, <2>1, CallsStay DEF Oneway
<1>15. ClientInv'
  BY <1>2, <1>8, <1>13, <1>14 DEF ClientInv
<1>16. QueueInv' /\ CallsFaithful' /\ ThrowsReach' /\ Running("interface")'
  BY <1>0, <1>1, <1>3, <1>7, <1>9, QueueStays, LastStays, CallsStay
<1>17. alive' \in BOOLEAN
  BY <1>0, <1>1, Zenon
<1> QED
  BY <1>0, <1>1, <1>4, <1>15, <1>16, <1>17 DEF BinderInv

(* The stub runs a oneway call.                                            *)
LEMMA StubOnewayKeepsBinderInv == CompilerInv /\ BinderInv /\ StubOneway => BinderInv'
<1> SUFFICES ASSUME CompilerInv, BinderInv, StubOneway PROVE BinderInv'
  OBVIOUS
<1>0. ClientInv /\ QueueInv /\ CallsFaithful /\ ThrowsReach /\ WireAgrees /\ alive \in BOOLEAN /\ calls \in 0 .. MaxCalls
  BY DEF BinderInv
<1> DEFINE c == Head(queue)
<1>1. queue # <<>> /\ Runs(c) /\ queue' = Tail(queue) /\ UNCHANGED <<alive, calls, compilerVars>>
  BY DEF StubOneway
<1>2. c \in ToSet(queue) /\ IsSeq(Tail(queue)) /\ ToSet(Tail(queue)) \subseteq ToSet(queue)
  <2>1. queue \in Seq(ToSet(queue))
    BY <1>0, IsSeqOf DEF QueueInv
  <2> DEFINE S == ToSet(queue)
  <2> HIDE DEF S
  <2>2. queue \in Seq(S)
    BY <2>1 DEF S
  <2>3. Head(queue) \in S /\ Tail(queue) \in Seq(S)
    BY <1>1, <2>2, HeadTailProperties
  <2> QED
    BY <2>3, SeqIsSeq DEF S
<1>3. IsCall(c) /\ c.threw = "nothing" /\ c.pc # "sent"
  BY <1>0, <1>2 DEF QueueInv
<1>4. Running("interface")
  BY <1>1 DEF BinderInv, BinderQuiet
<1> HIDE DEF c
<1>5. WireAgrees' /\ \E run : Answers(c, run) /\ RunOf(c, run)
  BY <1>0, <1>1, <1>3, <1>4, RunsIs
<1>6. PICK run : Answers(c, run) /\ RunOf(c, run)
  BY <1>5
<1>7. last' = [kind |-> "served", call |-> run, got |-> <<>>, result |-> "none"] /\ UNCHANGED client
  BY <1>3, <1>6 DEF Answers
<1>8. last'.kind = "served" /\ last'.call = run
  BY <1>7
<1>9. UNCHANGED compilerVars /\ UNCHANGED client
  BY <1>1, <1>7
<1>10. Methods' = Methods /\ Running("interface")'
  BY <1>4, <1>9, CallsStay
<1>11. \A k \in Ins(Methods[run.method]) : run.saw[k] = run.args[k]
  BY <1>6 DEF RunOf, Ran
<1>12. CallsFaithful' /\ ThrowsReach'
  BY <1>8, <1>10, <1>11 DEF CallsFaithful, ThrowsReach, Ins
<1>13. QueueInv'
  BY <1>0, <1>1, <1>2, <1>9, CallsStay DEF QueueInv
<1>14. ClientInv'
  BY <1>0, <1>9, <1>10, CallsStay DEF ClientInv
<1>15. alive' \in BOOLEAN
  BY <1>0, <1>1, Zenon
<1> QED
  BY <1>0, <1>1, <1>5, <1>10, <1>12, <1>13, <1>14, <1>15 DEF BinderInv

(* The reply is the one that carries x and the outs: the proxy reads each of them. *)
ReadsReply(m, args, outs, x, reply) ==
  LET head == Take(reply, "NoException")
      r == IF HasResult(m) THEN Create(m.type, m.dimension, head.rest) ELSE Taken(TRUE, "none", head.rest)
      got == ReadOuts(m, args, r.rest)
  IN /\ head.ok /\ r.ok /\ r.value = x
     /\ got.ok /\ got.rest = <<>> /\ \A k \in Outs(m) : got.values[k] = outs[k]

(* What the proxy reads of the reply that carries what the service made.   *)
LEMMA ReplyRead ==
  ASSUME NEW m, SoundMethod("interface", m), Compiles("interface", m), ~Oneway(m), NEW args, NEW outs, NEW x \in Results(m),
         \A k \in Outs(m) : outs[k] = "null" => args[k] = "null"
  PROVE  ReadsReply(m, args, outs, x, Reply(m, outs, x))
<1> DEFINE back == OutsOf(m, outs)
           written == ResultOf(m, x)
           behind == written \o back
           reply == Reply(m, outs, x)
           head == Take(reply, "NoException")
           r == IF HasResult(m) THEN Create(m.type, m.dimension, head.rest) ELSE Taken(TRUE, "none", head.rest)
           got == ReadOuts(m, args, r.rest)
<1>1. /\ IsSeq(written) /\ IsSeq(back) /\ IsSeq(behind)
      /\ reply = <<Item("NoException", "0")>> \o behind
  BY ReplyIs DEF Head0
<1> HIDE DEF behind, back, written, reply
<1>2. Reads(head, "0", behind)
  BY <1>1, TakeFirst
<1> HIDE DEF head
<1>3. Reads(r, x, back)
  <2>1. CASE HasResult(m)
    <3> DEFINE t == m.type
               d == m.dimension
    <3>1. Paired(t) /\ x \in ValuesOf(t, d) /\ written = Write(t, d, x)
      BY <2>1 DEF SoundMethod, Results, written, ResultOf
    <3>2. r = Create(t, d, written \o back)
      BY <1>2, <2>1 DEF Reads, behind
    <3> HIDE DEF t, d, r
    <3>3. Reads(Create(t, d, Write(t, d, x) \o back), x, back)
      BY <1>1, <3>1, CreateReads
    <3> QED
      BY <3>1, <3>2, <3>3
  <2>2. CASE ~HasResult(m)
    <3>1. x = "none" /\ written = <<>>
      BY <2>2 DEF Results, written, ResultOf
    <3>2. behind = back
      BY <1>1, <3>1, ConcatEmptySeq DEF behind, IsSeq
    <3>3. r = Taken(TRUE, x, back)
      BY <1>2, <2>2, <3>1, <3>2 DEF Reads
    <3> HIDE DEF r
    <3>4. Reads(Taken(TRUE, x, back), x, back)
      BY TakenReads
    <3> QED
      BY <3>3, <3>4
  <2> QED
    BY <2>1, <2>2
<1> HIDE DEF r
<1>4. got.ok /\ got.rest = <<>> /\ \A k \in Outs(m) : got.values[k] = outs[k]
  <2>1. got = ReadOuts(m, args, back)
    BY <1>3 DEF Reads
  <2>2. LET read == ReadOuts(m, args, OutsOf(m, outs))
        IN read.ok /\ read.rest = <<>> /\ \A k \in Outs(m) : read.values[k] = outs[k]
    BY OutsCanBeRead, ReadOutsRead DEF SoundMethod
  <2> HIDE DEF got
  <2> QED
    BY <2>1, <2>2 DEF back
<1>5. head.ok /\ r.ok /\ r.value = x
  BY <1>2, <1>3 DEF Reads
<1> HIDE DEF got
<1> QED
  BY <1>4, <1>5, Zenon DEF ReadsReply, got, r, head, reply

(* An empty parcel gives nothing,                                          *)
LEMMA NothingTaken ==
  ASSUME NEW format
  PROVE  /\ Take(<<>>, format).value \in Nothing /\ Take(<<>>, format).rest = <<>> /\ Take(<<>>, "Int").value = "0"
         /\ \A ok, value, rest : Taken(ok, value, rest).value = value /\ Taken(ok, value, rest).rest = rest
BY DEF Take, Taken, Nothing

(* nor does what is created from it,                                       *)
LEMMA NothingCreated ==
  ASSUME NEW t, NEW d
  PROVE  Create(t, d, <<>>).value \in Nothing /\ Create(t, d, <<>>).rest = <<>>
<1> DEFINE first == Take(<<>>, "Int")
           plain == Take(<<>>, t.calls.read)
           array == Take(<<>>, t.calls.createArray)
<1>1. first.value = "0" /\ first.rest = <<>>
  BY NothingTaken
<1>2. /\ plain.value \in Nothing /\ plain.rest = <<>>
      /\ array.value \in Nothing /\ array.rest = <<>>
  BY NothingTaken
<1>3. Create(t, d, <<>>) \in {plain, array, Taken(first.ok, "false", first.rest), Taken(first.ok, "null", first.rest)}
  <2> HIDE DEF plain, array, first
  <2>1. Create(t, d, <<>>) =
          IF d = 1 THEN array ELSE
          CASE t.form = "boolean" -> Taken(first.ok, IF first.value # "0" THEN "true" ELSE "false", first.rest)
            [] t.form = "nullable" -> IF first.value = "0" THEN Taken(first.ok, "null", first.rest)
                                      ELSE [Take(first.rest, t.calls.read) EXCEPT !.ok = @ /\ first.ok]
            [] OTHER -> plain
    BY DEF Create, first, plain, array
  <2> QED
    BY <1>1, <2>1
<1> HIDE DEF plain, array, first
<1>4. \A ok, value, rest : Taken(ok, value, rest).value = value /\ Taken(ok, value, rest).rest = rest
  BY NothingTaken
<1> QED
  BY <1>1, <1>2, <1>3, <1>4 DEF Nothing

(* and what is read into an object leaves it or changes it to nothing.     *)
LEMMA NothingInto ==
  ASSUME NEW t, NEW d, NEW v
  PROVE  ReadInto(t, d, v, <<>>).value \in Nothing \cup {v} /\ ReadInto(t, d, v, <<>>).rest = <<>>
<1> DEFINE first == Take(<<>>, "Int")
           plain == Take(<<>>, t.calls.readInto)
           array == Take(<<>>, t.calls.readArray)
<1>1. first.value = "0" /\ first.rest = <<>>
  BY NothingTaken
<1>2. /\ plain.value \in Nothing /\ plain.rest = <<>>
      /\ array.value \in Nothing /\ array.rest = <<>>
  BY NothingTaken
<1>3. ReadInto(t, d, v, <<>>) \in {plain, array, Taken(first.ok, v, first.rest)}
  <2> HIDE DEF plain, array, first
  <2>1. ReadInto(t, d, v, <<>>) =
          IF d = 1 THEN array ELSE IF t.form # "nullable" THEN plain
          ELSE IF first.value = "0" THEN Taken(first.ok, v, first.rest)
          ELSE [Take(first.rest, t.calls.readInto) EXCEPT !.ok = @ /\ first.ok]
    BY DEF ReadInto, first, plain, array
  <2> QED
    BY <1>1, <2>1
<1> HIDE DEF plain, array, first
<1>4. \A ok, value, rest : Taken(ok, value, rest).value = value /\ Taken(ok, value, rest).rest = rest
  BY NothingTaken
<1> QED
  BY <1>1, <1>2, <1>3, <1>4

(* k arguments were read back from an empty reply.                         *)
HasNothing(read, k, args) ==
  /\ DOMAIN read = OutFields /\ read.rest = <<>>
  /\ IsSeq(read.values) /\ Len(read.values) = k
  /\ \A j \in 1 .. k : read.values[j] \in Nothing \cup {args[j]}

(* So is the next.                                                         *)
LEMMA NextOutNothing ==
  ASSUME NEW m, NEW args, NEW k \in Nat, NEW before, HasNothing(before, k, args)
  PROVE  HasNothing(NextOut(m, args, k + 1, before), k + 1, args)
<1> DEFINE a == m.args[k + 1]
           t == ReadInto(a.type, a.dimension, args[k + 1], <<>>)
           x == IF Out(a) THEN t.value ELSE args[k + 1]
           vs == before.values
           more == Append(vs, x)
           now == NextOut(m, args, k + 1, before)
<1>1. x \in Nothing \cup {args[k + 1]} /\ t.rest = <<>>
  BY NothingInto
<1>2. IsSeq(vs) /\ Len(vs) = k /\ before.rest = <<>> /\ DOMAIN before = OutFields
  BY DEF HasNothing
<1> DEFINE seen == [j \in 1 .. k + 1 |-> more[j]]
<1>3. IsSeq(more) /\ Len(more) = k + 1 /\ \A j \in 1 .. k : more[j] = vs[j]
  <2> HIDE DEF x, vs
  <2>1. vs \in Seq(ToSet(vs) \cup {x})
    BY <1>2, IsSeqOf
  <2> DEFINE S == ToSet(vs) \cup {x}
  <2>2. vs \in Seq(S) /\ x \in S
    BY <2>1
  <2> HIDE DEF S
  <2>3. Append(vs, x) \in Seq(S) /\ Len(Append(vs, x)) = Len(vs) + 1 /\ \A j \in 1 .. Len(vs) : Append(vs, x)[j] = vs[j]
    BY <2>2, AppendProperties
  <2> QED
    BY <1>2, <2>3, SeqIsSeq
<1>4. more[k + 1] = x
  <2> HIDE DEF x, vs
  <2>1. vs \in Seq(ToSet(vs) \cup {x})
    BY <1>2, IsSeqOf
  <2> DEFINE S == ToSet(vs) \cup {x}
  <2>2. vs \in Seq(S) /\ x \in S
    BY <2>1
  <2> HIDE DEF S
  <2> QED
    BY <1>2, <2>2, AppendProperties
<1>5. \A j \in 1 .. k + 1 : more[j] \in Nothing \cup {args[j]}
  <2>1. \A j \in 1 .. k : vs[j] \in Nothing \cup {args[j]}
    BY DEF HasNothing
  <2> HIDE DEF more, x
  <2> QED
    BY <1>1, <1>3, <1>4, <2>1
<1>6. now.values = more /\ now.rest = <<>> /\ DOMAIN now = OutFields
  <2>1. CASE ~Out(a)
    <3>1. now = [before EXCEPT !.values = more]
      BY <2>1 DEF NextOut
    <3> HIDE DEF more, now
    <3> QED
      BY <1>2, <3>1 DEF OutFields
  <2>2. CASE Out(a)
    <3> DEFINE ok == before.ok /\ t.ok
               throws == before.throws \/ ReadThrows(a.type, a.dimension, args[k + 1], before.rest)
               none == <<>>
    <3>1. now = [ok |-> ok, rest |-> none, values |-> more, throws |-> throws]
      <4> HIDE DEF t
      <4> QED
        BY <1>1, <1>2, <2>2 DEF NextOut, t
    <3> HIDE DEF ok, throws, more, now, none
    <3>2. now.values = more /\ now.rest = none /\ DOMAIN now = OutFields
      BY <3>1 DEF OutFields
    <3> QED
      BY <3>2 DEF none
  <2> QED
    BY <2>1, <2>2
<1> HIDE DEF more, now
<1> QED
  BY <1>3, <1>5, <1>6 DEF HasNothing, now

(* So are all of them.                                                     *)
LEMMA NothingRead ==
  ASSUME NEW m, IsSeq(m.args), NEW args, NEW reply, reply = <<>>
  PROVE  LET values == ReadOuts(m, args, reply).values
         IN \A k \in DOMAIN values : values[k] \in Nothing \cup {args[k]}
<1> DEFINE n == Len(m.args)
<1>1. n \in Nat
  BY IsSeqOf
<1>2. PICK read : OutsFrom(m, args, reply, read, n) /\ ReadOuts(m, args, reply) = read[n]
  <2> DEFINE f == CHOOSE f : OutsFrom(m, args, reply, f, n)
  <2>1. OutsFrom(m, args, reply, f, n)
    BY <1>1, OutsFromIs
  <2>2. ReadOuts(m, args, reply) = f[n]
    BY ReadOutsIs DEF n
  <2> HIDE DEF f
  <2> QED
    BY <2>1, <2>2
<1>3. \A k \in 0 .. n : read[k] = IF k = 0 THEN FirstOut(reply) ELSE NextOut(m, args, k, read[k - 1])
  BY <1>2 DEF OutsFrom
<1> HIDE DEF n
<1> DEFINE T == {k \in Nat : k <= n => HasNothing(read[k], k, args)}
<1>4. 0 \in T
  <2> DEFINE none == <<>>
             now == read[0]
  <2>1. now = FirstOut(reply)
    BY <1>1, <1>3
  <2>2. now = [ok |-> TRUE, rest |-> none, values |-> none, throws |-> FALSE]
    BY <2>1 DEF FirstOut
  <2> HIDE DEF none, now
  <2>3. DOMAIN now = OutFields /\ now.rest = none /\ now.values = none
    BY <2>2 DEF OutFields
  <2>4. HasNothing(now, 0, args)
    BY <2>3, SmallSeqs DEF HasNothing, none
  <2> QED
    BY <2>4 DEF now
<1>5. ASSUME NEW k \in Nat, k \in T PROVE k + 1 \in T
  <2> SUFFICES ASSUME k + 1 <= n PROVE HasNothing(read[k + 1], k + 1, args)
    OBVIOUS
  <2>1. HasNothing(read[k], k, args)
    BY <1>1, <1>5
  <2>2. read[k + 1] = NextOut(m, args, k + 1, read[k])
    BY <1>1, <1>3
  <2> DEFINE before == read[k]
  <2> HIDE DEF before
  <2>3. HasNothing(before, k, args) /\ read[k + 1] = NextOut(m, args, k + 1, before)
    BY <2>1, <2>2 DEF before
  <2> QED
    BY <2>3, NextOutNothing
<1> HIDE DEF T
<1>6. HasNothing(read[n], n, args)
  <2>1. n \in T
    BY <1>1, <1>4, <1>5, Induct
  <2> QED
    BY <2>1 DEF T
<1>7. DOMAIN read[n].values = 1 .. n
  BY <1>6, IsSeqOf DEF HasNothing
<1> QED
  BY <1>2, <1>6, <1>7 DEF HasNothing

(* The proxy reads the reply and returns.                                  *)
LEMMA ReturnsKeepsBinderInv == CompilerInv /\ BinderInv /\ Returns => BinderInv'
<1> SUFFICES ASSUME CompilerInv, BinderInv, Returns PROVE BinderInv'
  OBVIOUS
<1>0. ClientInv /\ QueueInv /\ WireAgrees /\ alive \in BOOLEAN /\ calls \in 0 .. MaxCalls
  BY DEF BinderInv
<1>1. client.pc = "replied" /\ UNCHANGED <<queue, alive, calls, compilerVars>>
  BY DEF Returns
<1>2. UNCHANGED compilerVars
  BY <1>1
<1>3. Running("interface") /\ Running("interface")' /\ Methods' = Methods
  BY <1>1, <1>2, CallsStay DEF BinderInv, BinderQuiet
<1>4. IsCall(client) /\ Ran(client) /\ Carries(client) /\ ~Oneway(Methods[client.method])
  BY <1>0, <1>1 DEF ClientInv
<1>5. QueueInv' /\ calls' \in 0 .. MaxCalls
  BY <1>0, <1>1, <1>2, QueueStays
<1>6. alive' \in BOOLEAN
  BY <1>0, <1>1, Zenon
<1>7. ASSUME NEW kind \in {"exception", "own exception"}, Ends(kind, <<>>, "none"), UNCHANGED wire
      PROVE  BinderInv'
  <2>1. ClientInv' /\ last'.kind = kind
    BY <1>0, <1>1, <1>7, EndsIdle
  <2>2. CallsFaithful' /\ ThrowsReach'
    BY <2>1, EndsUnanswered
  <2>3. WireAgrees'
    BY <1>0, <1>7, Zenon DEF WireAgrees
  <2> QED
    BY <1>3, <1>5, <1>6, <2>1, <2>2, <2>3 DEF BinderInv
<1>11. client.reply = <<>> => client.threw = "remote"
  <2> SUFFICES ASSUME client.reply = <<>>, client.threw = "nothing" PROVE FALSE
    BY <1>4 DEF Carries
  <2>1. client.reply = Reply(Methods[client.method], client.outs, client.result)
    BY <1>4 DEF Carries
  <2> DEFINE m == Methods[client.method]
             outs == client.outs
             x == client.result
             behind == ResultOf(m, x) \o OutsOf(m, outs)
  <2>2. SoundMethod("interface", m) /\ Compiles("interface", m)
    BY <1>3, <1>4, RunningMethod DEF IsCall
  <2>3. x \in Results(m) /\ \A k \in Outs(m) : outs[k] = "null" => client.args[k] = "null"
    BY <1>4 DEF Ran
  <2>4. ~Oneway(m)
    BY <1>4
  <2> HIDE DEF m, outs, x
  <2>5. IsSeq(behind) /\ Reply(m, outs, x) = <<Item("NoException", "0")>> \o behind
    BY <2>2, <2>3, <2>4, ReplyIs DEF Head0
  <2> HIDE DEF behind
  <2>6. <<Item("NoException", "0")>> \o behind # <<>>
    BY <2>5, Behind
  <2> QED
    BY <2>1, <2>5, <2>6 DEF m, outs, x
<1>8. CASE client.reply # <<>> /\ client.reply[1].format = "Exception"
  <2>1. Ends("exception", <<>>, "none") /\ UNCHANGED wire
    BY <1>8 DEF Returns
  <2> QED
    BY <1>7, <2>1
<1> DEFINE excepted == client.reply # <<>> /\ client.reply[1].format = "Exception"
<1>9. CASE ~excepted /\ client.reply # <<>>
  <2> DEFINE m == Methods[client.method]
             head == Take(client.reply, "NoException")
             r == IF HasResult(m) THEN Create(m.type, m.dimension, head.rest) ELSE Taken(TRUE, "none", head.rest)
             got == ReadOuts(m, client.args, r.rest)
  <2>1. client.threw = "nothing" /\ client.reply = Reply(m, client.outs, client.result)
    BY <1>4, <1>9 DEF Carries
  <2>2. SoundMethod("interface", m) /\ Compiles("interface", m)
    BY <1>3, <1>4, RunningMethod DEF IsCall
  <2>3. /\ \A k \in Ins(m) : client.saw[k] = client.args[k]
        /\ \A k \in Outs(m) : client.outs[k] = "null" => client.args[k] = "null"
        /\ client.result \in Results(m) /\ ~Oneway(m)
    BY <1>4 DEF Ran
  <2>4. /\ head.ok /\ r.ok /\ r.value = client.result
        /\ got.ok /\ got.rest = <<>> /\ \A k \in Outs(m) : got.values[k] = client.outs[k]
    <3> DEFINE args == client.args
               outs == client.outs
               x == client.result
    <3>1. x \in Results(m) /\ \A k \in Outs(m) : outs[k] = "null" => args[k] = "null"
      BY <2>3
    <3> HIDE DEF args, outs, x, m
    <3>2. ReadsReply(m, args, outs, x, Reply(m, outs, x))
      BY <2>2, <2>3, <3>1, ReplyRead
    <3>3. client.reply = Reply(m, outs, x)
      BY <2>1 DEF outs, x
    <3>4. ReadsReply(m, args, outs, x, client.reply)
      BY <3>2, <3>3
    <3> HIDE DEF head
    <3>5. head = Take(client.reply, "NoException")
      BY DEF head
    <3> QED
      BY <3>4, Zenon DEF ReadsReply, args, outs, x, head
  <2>5. IF got.throws THEN Ends("own exception", <<>>, "none") /\ UNCHANGED wire
        ELSE /\ Ends("returned", got.values, r.value)
             /\ wire' = (wire /\ (client.reply = <<>> \/ (head.ok /\ r.ok /\ got.ok /\ got.rest = <<>>)))
    BY <1>9 DEF Returns
  <2> HIDE DEF head, r, got
  <2>6. CASE got.throws
    BY <1>7, <2>5, <2>6
  <2>7. CASE ~got.throws
    <3>1. Ends("returned", got.values, r.value)
      BY <2>5, <2>7
    <3>2. /\ ClientInv' /\ last'.kind = "returned" /\ last'.call = client /\ last'.got = got.values
          /\ last'.result = r.value
      BY <1>0, <1>1, <3>1, EndsIdle
    <3>3. WireAgrees'
      <4>1. wire' = (wire /\ (client.reply = <<>> \/ (head.ok /\ r.ok /\ got.ok /\ got.rest = <<>>)))
        BY <2>5, <2>7
      <4>2. got.rest = <<>>
        BY <2>4
      <4> QED
        BY <1>0, <2>4, <4>1, <4>2, Zenon DEF WireAgrees
    <3>4. ThrowsReach'
      BY <2>1, <3>2 DEF ThrowsReach
    <3>5. CallsFaithful'
      BY <1>3, <2>3, <2>4, <3>2 DEF CallsFaithful, Ins, Outs
    <3> QED
      BY <1>3, <1>5, <1>6, <3>2, <3>3, <3>4, <3>5 DEF BinderInv
  <2> QED
    BY <2>6, <2>7
<1>10. CASE client.reply = <<>>
  <2> DEFINE m == Methods[client.method]
             head == Take(client.reply, "NoException")
             r == IF HasResult(m) THEN Create(m.type, m.dimension, head.rest) ELSE Taken(TRUE, "none", head.rest)
             got == ReadOuts(m, client.args, r.rest)
  <2>1. IF got.throws THEN Ends("own exception", <<>>, "none") /\ UNCHANGED wire
        ELSE /\ Ends("returned", got.values, r.value)
             /\ wire' = (wire /\ (client.reply = <<>> \/ (head.ok /\ r.ok /\ got.ok /\ got.rest = <<>>)))
    BY <1>10 DEF Returns
  <2>2. r.value \in Nothing /\ r.rest = <<>>
    <3>1. head.rest = <<>>
      BY <1>10, NothingTaken
    <3>2. CASE HasResult(m)
      BY <3>1, <3>2, NothingCreated
    <3>3. CASE ~HasResult(m)
      <4>1. r = Taken(TRUE, "none", <<>>)
        BY <3>1, <3>3
      <4> DEFINE none == <<>>
      <4>2. \A ok, value, rest : Taken(ok, value, rest).value = value /\ Taken(ok, value, rest).rest = rest
        BY NothingTaken
      <4>3. r = Taken(TRUE, "none", none)
        BY <4>1
      <4> HIDE DEF r, none
      <4>4. r.value = "none" /\ r.rest = none
        BY <4>2, <4>3, Zenon
      <4> QED
        BY <4>4 DEF Nothing, none
    <3> QED
      BY <3>2, <3>3
  <2>3. IsSeq(m.args)
    BY <1>3, <1>4, RunningMethod DEF IsCall, SoundMethod
  <2> DEFINE args == client.args
             values == got.values
  <2>4. \A k \in DOMAIN values : values[k] \in Nothing \cup {args[k]}
    BY <2>2, <2>3, NothingRead
  <2>5. client.threw \in {"nothing", "remote"} /\ \A k \in Ins(m) : client.saw[k] = client.args[k]
    BY <1>4, <1>10 DEF Carries, Ran
  <2> HIDE DEF head, r, got
  <2>6. CASE got.throws
    BY <1>7, <2>1, <2>6
  <2>7. CASE ~got.throws
    <3>1. Ends("returned", values, r.value)
      BY <2>1, <2>7
    <3> HIDE DEF values, args
    <3>2. /\ ClientInv' /\ last'.kind = "returned" /\ last'.call = client /\ last'.got = values
          /\ last'.result = r.value
      BY <1>0, <1>1, <3>1, EndsIdle
    <3>3. WireAgrees'
      <4>1. wire' = (wire /\ (client.reply = <<>> \/ (head.ok /\ r.ok /\ got.ok /\ got.rest = <<>>)))
        BY <2>1, <2>7
      <4> QED
        BY <1>0, <1>10, <4>1, Zenon DEF WireAgrees
    <3>4. ThrowsReach'
      BY <2>2, <2>4, <2>5, <3>2 DEF ThrowsReach, Nothing, args
    <3>5. CallsFaithful'
      BY <1>3, <1>10, <1>11, <2>5, <3>2 DEF CallsFaithful, Ins
    <3> QED
      BY <1>3, <1>5, <1>6, <3>2, <3>3, <3>4, <3>5 DEF BinderInv
  <2> QED
    BY <2>6, <2>7
<1> QED
  BY <1>8, <1>9, <1>10

(* Every step of the binder code keeps its invariant.                      *)
LEMMA BinderStepKeepsBinderInv == CompilerInv /\ BinderInv /\ BinderStep => BinderInv'
BY BinderCallKeepsBinderInv, LocalCallKeepsBinderInv, FailuresKeepBinderInv, TransactKeepsBinderInv,
   StubTransactKeepsBinderInv, StubOnewayKeepsBinderInv, DiesKeepsBinderInv, ReturnsKeepsBinderInv DEF BinderStep

(* What is under way, in the proxy and in the queue, is a call of a method *)
(* with its request, and a reply that carries what the service made of it. *)
THEOREM BinderInvariant == Spec => []BinderInv
<1>1. Init => BinderInv
  BY InitBinderInv DEF Init
<1>2. CompilerInv /\ BinderInv /\ [Next]_vars => BinderInv'
  <2>1. RpcStep => UNCHANGED <<compilerVars, binderVars>>
    BY DEF RpcStep, RpcSend, Process, OnResult, StartListening, StopListening, Push, Deliver
  <2> QED
    BY <2>1, BinderStays, CompileKeepsBinderInv, BinderStepKeepsBinderInv DEF Next, Compile, Binder, vars
<1> QED
  BY <1>1, <1>2, CompilerInvariant, PTL DEF Spec

(* Proxy and stub carry a call and its failure across: every read finds    *)
(* what was written, for every interface that the compiler lets through.   *)
THEOREM BinderIsFaithful == Spec => []BinderFaithful
<1>1. BinderInv => BinderFaithful
  BY DEF BinderInv, BinderFaithful, ClientInv, ParcelsRecycled
<1> QED
  BY <1>1, BinderInvariant, PTL

-----------------------------------------------------------------------------
(* What a command line says: the options, folded up argument by argument.  *)

OptionSet ==
  [task : {"compile"}, failOnParcelable : BOOLEAN, importPaths : Seq(Seq(STRING)),
   preprocessedFiles : Seq(Seq(STRING)), input : Seq(STRING), output : Seq(STRING), base : Seq(STRING),
   dep : Seq(STRING), autoDep : BOOLEAN, filesToPreprocess : {<<>>}]

(* An argument sets an option, or adds to one.                             *)
LEMMA ApplyTyped ==
  ASSUME NEW o \in OptionSet, NEW a \in ArgumentSet
  PROVE  Apply(o, a) \in OptionSet
<1> DEFINE v == a.value
<1>1. v \in Seq(STRING)
  BY DEF ArgumentSet
<1> HIDE DEF v
<1>2. [o EXCEPT !.importPaths = Append(@, v)] \in OptionSet
  <2>1. o.importPaths \in Seq(Seq(STRING))
    BY DEF OptionSet
  <2>2. Append(o.importPaths, v) \in Seq(Seq(STRING))
    BY <1>1, <2>1
  <2> QED
    BY <2>2 DEF OptionSet
<1>3. [o EXCEPT !.preprocessedFiles = Append(@, v)] \in OptionSet
  <2>1. o.preprocessedFiles \in Seq(Seq(STRING))
    BY DEF OptionSet
  <2>2. Append(o.preprocessedFiles, v) \in Seq(Seq(STRING))
    BY <1>1, <2>1
  <2> QED
    BY <2>2 DEF OptionSet
<1>5. [o EXCEPT !.dep = v] \in OptionSet
  BY <1>1 DEF OptionSet
<1>6. [o EXCEPT !.base = v] \in OptionSet
  BY <1>1 DEF OptionSet
<1>7. [o EXCEPT !.autoDep = TRUE] \in OptionSet
  BY DEF OptionSet
<1>8. [o EXCEPT !.failOnParcelable = TRUE] \in OptionSet
  BY DEF OptionSet
<1>4. Apply(o, a) \in {[o EXCEPT !.importPaths = Append(@, v)], [o EXCEPT !.dep = v], [o EXCEPT !.autoDep = TRUE],
                       [o EXCEPT !.preprocessedFiles = Append(@, v)], [o EXCEPT !.base = v],
                       [o EXCEPT !.failOnParcelable = TRUE]}
  BY DEF Apply, v
<1> QED
  BY <1>2, <1>3, <1>4, <1>5, <1>6, <1>7, <1>8

(* iter folds up the arguments whose places are in a set, of the first n.  *)
FoldsTo(s, n, iter) ==
  iter = [S \in SUBSET (1 .. n) |-> IF S = {} THEN NoOptions ELSE Apply(iter[S \ {Max(S)}], s[Max(S)])]

(* FoldLeft of the community modules, by its definition.                   *)
LEMMA FoldIs ==
  ASSUME NEW s, DOMAIN s = 1 .. Len(s)
  PROVE  FoldLeft(Apply, NoOptions, s) = (CHOOSE iter : FoldsTo(s, Len(s), iter))[1 .. Len(s)]
BY DEF FoldLeft, MapThenFoldSet, FoldsTo

(* The largest of some of the first numbers that has the last among them.  *)
LEMMA LastIsMax ==
  ASSUME NEW k \in Nat, NEW S, S \subseteq 1 .. k + 1, k + 1 \in S
  PROVE  Max(S) = k + 1
<1>1. \A y \in S : k + 1 >= y
  OBVIOUS
<1>2. \E x \in S : \A y \in S : x >= y
  BY <1>1
<1>3. Max(S) \in S /\ \A y \in S : Max(S) >= y
  BY <1>2 DEF Max
<1>4. PICK m : m = Max(S)
  OBVIOUS
<1>5. m \in 1 .. k + 1 /\ m >= k + 1
  BY <1>3, <1>4
<1>6. m = k + 1
  BY <1>5
<1> QED
  BY <1>4, <1>6

(* There is such a function: by induction on n.                            *)
LEMMA FoldsToIs ==
  ASSUME NEW s, NEW n \in Nat
  PROVE  \E iter : FoldsTo(s, n, iter)
<1> DEFINE T == {k \in Nat : \E iter : FoldsTo(s, k, iter)}
<1>1. 0 \in T
  <2> DEFINE iter == [S \in SUBSET (1 .. 0) |-> NoOptions]
  <2>1. SUBSET (1 .. 0) = {{}}
    OBVIOUS
  <2>2. FoldsTo(s, 0, iter)
    BY <2>1, Zenon DEF FoldsTo
  <2> HIDE DEF iter
  <2> QED
    BY <2>2
<1>2. ASSUME NEW k \in Nat, k \in T PROVE k + 1 \in T
  <2>1. PICK g : FoldsTo(s, k, g)
    BY <1>2
  <2> DEFINE h == [S \in SUBSET (1 .. k + 1) |-> IF k + 1 \in S THEN Apply(g[S \ {k + 1}], s[k + 1]) ELSE g[S]]
  <2>2. ASSUME NEW S \in SUBSET (1 .. k + 1)
        PROVE  h[S] = IF S = {} THEN NoOptions ELSE Apply(h[S \ {Max(S)}], s[Max(S)])
    <3>1. CASE k + 1 \in S
      <4>1. Max(S) = k + 1 /\ S # {}
        BY <3>1, LastIsMax
      <4>2. h[S] = Apply(g[S \ {k + 1}], s[k + 1])
        BY <3>1
      <4>3. S \ {k + 1} \in SUBSET (1 .. k + 1) /\ k + 1 \notin S \ {k + 1}
        OBVIOUS
      <4>4. h[S \ {k + 1}] = g[S \ {k + 1}]
        BY <4>3
      <4> HIDE DEF h
      <4> QED
        BY <4>1, <4>2, <4>4
    <3>2. CASE k + 1 \notin S
      <4>1. S \in SUBSET (1 .. k)
        BY <3>2
      <4>2. h[S] = g[S]
        BY <3>2
      <4>3. g[S] = IF S = {} THEN NoOptions ELSE Apply(g[S \ {Max(S)}], s[Max(S)])
        BY <2>1, <4>1 DEF FoldsTo
      <4>4. S \ {Max(S)} \in SUBSET (1 .. k + 1) /\ k + 1 \notin S \ {Max(S)}
        BY <3>2
      <4>5. h[S \ {Max(S)}] = g[S \ {Max(S)}]
        BY <4>4
      <4> HIDE DEF h
      <4> QED
        BY <4>2, <4>3, <4>5
    <3> QED
      BY <3>1, <3>2
  <2>3. h = [S \in SUBSET (1 .. k + 1) |-> h[S]]
    OBVIOUS
  <2> HIDE DEF h
  <2>4. FoldsTo(s, k + 1, h)
    BY <2>2, <2>3, Zenon DEF FoldsTo
  <2> QED
    BY <2>4
<1> HIDE DEF T
<1>3. Nat \subseteq T
  BY <1>1, <1>2, Induct
<1> QED
  BY <1>3 DEF T

(* The options of a command line have their types.                         *)
LEMMA FoldedOptions ==
  ASSUME NEW s \in Seq(ArgumentSet)
  PROVE  FoldLeft(Apply, NoOptions, s) \in OptionSet
<1> DEFINE n == Len(s)
<1>1. n \in Nat /\ DOMAIN s = 1 .. n /\ \A i \in 1 .. n : s[i] \in ArgumentSet
  OBVIOUS
<1>2. PICK iter : FoldsTo(s, n, iter) /\ FoldLeft(Apply, NoOptions, s) = iter[1 .. n]
  BY <1>1, FoldsToIs, FoldIs
<1>3. \A S \in SUBSET (1 .. n) : iter[S] = IF S = {} THEN NoOptions ELSE Apply(iter[S \ {Max(S)}], s[Max(S)])
  BY <1>2 DEF FoldsTo
<1> HIDE DEF n
<1> DEFINE T == {k \in Nat : k <= n => iter[1 .. k] \in OptionSet}
<1>4. 0 \in T
  <2>1. 1 .. 0 = {}
    OBVIOUS
  <2>2. iter[{}] = NoOptions
    BY <1>3
  <2>3. NoOptions \in OptionSet
    BY DEF NoOptions, OptionSet
  <2> QED
    BY <2>1, <2>2, <2>3
<1>5. ASSUME NEW k \in Nat, k \in T PROVE k + 1 \in T
  <2> SUFFICES ASSUME k + 1 <= n PROVE iter[1 .. k + 1] \in OptionSet
    OBVIOUS
  <2>1. iter[1 .. k] \in OptionSet
    <3>1. k <= n
      BY <1>1
    <3> QED
      BY <1>5, <3>1
  <2>2. 1 .. k + 1 \in SUBSET (1 .. n) /\ 1 .. k + 1 # {} /\ k + 1 \in 1 .. n
    BY <1>1
  <2>3. Max(1 .. k + 1) = k + 1
    BY LastIsMax
  <2>4. (1 .. k + 1) \ {k + 1} = 1 .. k
    OBVIOUS
  <2>5. iter[1 .. k + 1] = Apply(iter[1 .. k], s[k + 1])
    BY <1>3, <2>2, <2>3, <2>4
  <2>6. s[k + 1] \in ArgumentSet
    BY <1>1, <2>2
  <2> QED
    BY <2>1, <2>5, <2>6, ApplyTyped
<1> HIDE DEF T
<1>6. Nat \subseteq T
  BY <1>4, <1>5, Induct
<1>7. iter[1 .. n] \in OptionSet
  BY <1>1, <1>6 DEF T
<1> QED
  BY <1>2, <1>7

-----------------------------------------------------------------------------
(* Where the lines, the types and the documents come from.                 *)

(* The command lines that are left are lists of arguments.                 *)
CommandsInv == commands \in Seq(Seq(ArgumentSet))

(* A class that can be written at all can be written to a parcel.          *)
FlatInv ==
  \A p \in DOMAIN files : files[p].is = "aidl" =>
    \A i \in ToSet(files[p].items) : i.kind = "data" => "parcel" \in i.flat

(* The fields of Options.                                                  *)
OptionFields == {"task", "failOnParcelable", "importPaths", "preprocessedFiles", "input", "output", "base", "dep", "autoDep",
                 "filesToPreprocess"}

(* The lists of files and directories that options.cpp makes.              *)
OptionsTyped(o) ==
  /\ DOMAIN o = OptionFields
  /\ IsSeq(o.preprocessedFiles) /\ IsSeq(o.importPaths)
  /\ \A dir \in ToSet(o.importPaths) : IsSeq(dir)
OptionsInv == OptionsTyped(options)

(* The documents of preprocess_aidl are the first items of the files that  *)
(* it has come to, in their order.                                         *)
PreprocessInv ==
  stage = "preprocess" =>
    /\ IsSeq(options.filesToPreprocess)
    /\ cursor[1] \in 1 .. Len(options.filesToPreprocess) + 1
    /\ DOMAIN main = 1 .. cursor[1] - 1
    /\ \A i \in DOMAIN main : /\ main[i].package = Content(options.filesToPreprocess[i]).package
                              /\ main[i].name = Content(options.filesToPreprocess[i]).items[1].name

(* The buffers hold what a line of a preprocessed file left, and the files *)
(* are counted from one.                                                   *)
LeftByLine(b) ==
  \E f \in ToSet(options.preprocessedFiles) : \E l \in ToSet(Content(f).lines) : b = LeftBehind(l)
BuffersInv == stage = "preprocessed" => cursor[1] # 0 /\ (stale.type # "garbage" => LeftByLine(stale))

(* The documents that compile_aidl keeps are what the files hold.          *)
Gathered == {"gather", "types", "one", "ids", "output", "dep"}
HasFile(x) == x.document # Null => x.filename # <<>> /\ x.document = ItemsOf(x.filename)
ParsedInv ==
  stage \in {"imports", "filenames"} \cup Gathered =>
    /\ main # Null => main = ItemsOf(options.input)
    /\ found = {} => \A x \in ToSet(imports) : HasFile(x)

(* A type that a file has declared is from a line of a preprocessed file,  *)
(* the main file, or a file that was imported.                             *)
IsDeclared(t) == t.kind \in {"userdata", "interface"}
FromImport(t) == \E x \in ToSet(imports) : x.filename # <<>> /\ Declares(x.filename, t)
HasSource(t) == FromLine(t) \/ Declares(options.input, t) \/ FromImport(t)
SourcesInv ==
  /\ stage \in {"preprocessed", "main", "imports", "filenames"} => \A t \in ToSet(names) : IsDeclared(t) => FromLine(t)
  /\ stage \in Gathered /\ found = {} => \A t \in ToSet(names) : IsDeclared(t) => HasSource(t)

(* All of it.                                                              *)
SourceInv == CommandsInv /\ FlatInv /\ OptionsInv /\ PreprocessInv /\ BuffersInv /\ ParsedInv /\ SourcesInv

(* What the flags of a command line set are options.                       *)
LEMMA FlagsSet ==
  ASSUME NEW argv \in Seq(ArgumentSet), NEW n \in 0 .. Len(argv)
  PROVE  FoldLeft(Apply, NoOptions, SubSeq(argv, 1, n)) \in OptionSet
<1>1. SubSeq(argv, 1, n) \in Seq(ArgumentSet)
  OBVIOUS
<1> QED
  BY <1>1, FoldedOptions

(* So they have the fields and the lists of Options.                       *)
LEMMA OptionSetTyped ==
  ASSUME NEW o \in OptionSet
  PROVE  OptionsTyped(o) /\ o.task = "compile"
<1>1. DOMAIN o = OptionFields
  BY DEF OptionSet, OptionFields
<1>2. o.preprocessedFiles \in Seq(Seq(STRING)) /\ o.importPaths \in Seq(Seq(STRING))
  BY DEF OptionSet
<1>3. \A dir \in ToSet(o.importPaths) : IsSeq(dir)
  BY <1>2, SeqIsSeq
<1>4. o.task = "compile"
  BY DEF OptionSet
<1> QED
  BY <1>1, <1>2, <1>3, <1>4, SeqIsSeq DEF OptionsTyped

(* INPUT and OUTPUT are set.                                               *)
LEMMA NamedTyped ==
  ASSUME NEW o, OptionsTyped(o), NEW x, NEW y
  PROVE  OptionsTyped([o EXCEPT !.input = x, !.output = y]) /\ [o EXCEPT !.input = x, !.output = y].task = o.task
BY DEF OptionsTyped, OptionFields

(* OUTPUT is set, and INPUT and the preprocessed files stay.               *)
LEMMA OutputTyped ==
  ASSUME NEW o, OptionsTyped(o), NEW y
  PROVE  /\ OptionsTyped([o EXCEPT !.output = y])
         /\ [o EXCEPT !.output = y].input = o.input /\ [o EXCEPT !.output = y].task = o.task
         /\ [o EXCEPT !.output = y].preprocessedFiles = o.preprocessedFiles
BY DEF OptionsTyped, OptionFields

(* The options before anything is set.                                     *)
LEMMA NoOptionsTyped == OptionsTyped(NoOptions)
<1>1. NoOptions \in OptionSet
  BY DEF NoOptions, OptionSet
<1> QED
  BY <1>1, OptionSetTyped

(* parse_options, of a command line that compiles.                         *)
LEMMA CompileTyped ==
  ASSUME OptionsInv, NEW argv \in Seq(ArgumentSet), CompileOptions(argv)
  PROVE  OptionsInv' /\ stage' \in {"preprocessed", "end"} /\ (stage' = "preprocessed" => options'.task = "compile")
<1> DEFINE flags == SelectInSeq(argv, LAMBDA a : ~IsFlag(a))
           n == IF flags = 0 THEN Len(argv) ELSE flags - 1
           o == FoldLeft(Apply, NoOptions, SubSeq(argv, 1, n))
<1>1. \/ UNCHANGED options /\ stage' = "end"
      \/ stage' = "preprocessed" /\ \E x, y : options' = [o EXCEPT !.input = x, !.output = y]
  BY DEF CompileOptions, End
<1>2. flags \in 0 .. Len(argv) /\ Len(argv) \in Nat
  <2> DEFINE I == {i \in 1 .. Len(argv) : ~IsFlag(argv[i])}
  <2>1. flags = IF I # {} THEN Min(I) ELSE 0
    BY DEF SelectInSeq
  <2>2. Len(argv) \in Nat /\ I \subseteq 1 .. Len(argv)
    OBVIOUS
  <2> HIDE DEF I, flags
  <2>3. CASE I = {}
    BY <2>1, <2>2, <2>3
  <2>4. CASE I # {}
    <3>1. I \subseteq Nat
      BY <2>2
    <3>2. Min(I) \in I
      BY <2>4, <3>1, MinIsThere
    <3>3. Min(I) \in 1 .. Len(argv)
      BY <2>2, <3>2, Zenon
    <3>4. 1 .. Len(argv) \subseteq 0 .. Len(argv)
      OBVIOUS
    <3>5. Min(I) \in 0 .. Len(argv)
      BY <3>3, <3>4, Zenon
    <3> QED
      BY <2>1, <2>2, <2>4, <3>5
  <2> QED
    BY <2>3, <2>4
<1> HIDE DEF flags
<1>3. n \in 0 .. Len(argv)
  BY <1>2
<1> HIDE DEF n
<1>4. o \in OptionSet
  BY <1>3, FlagsSet
<1> HIDE DEF o
<1>5. OptionsTyped(o) /\ o.task = "compile"
  BY <1>4, OptionSetTyped
<1>6. CASE stage' = "preprocessed"
  <2>1. PICK x, y : options' = [o EXCEPT !.input = x, !.output = y]
    BY <1>1, <1>6
  <2> DEFINE named == [o EXCEPT !.input = x, !.output = y]
  <2>2. OptionsTyped(named) /\ named.task = "compile"
    BY <1>5, NamedTyped
  <2> HIDE DEF named
  <2>3. options' = named
    BY <2>1 DEF named
  <2> QED
    BY <1>6, <2>2, <2>3 DEF OptionsInv
<1> QED
  BY <1>1, <1>6 DEF OptionsInv

(* parse_options, of a command line that preprocesses.                     *)
LEMMA PreprocessTyped ==
  ASSUME OptionsInv, NEW argv \in Seq(ArgumentSet), PreprocessOptions(argv)
  PROVE  /\ OptionsInv' /\ stage' \in {"preprocess", "end"}
         /\ stage' = "preprocess" => IsSeq(options.filesToPreprocess)' /\ options'.task = "preprocess"
<1> DEFINE from == [i \in 1 .. Len(argv) - 2 |-> argv[i + 2].value]
           o == [NoOptions EXCEPT !.task = "preprocess", !.output = argv[2].value, !.filesToPreprocess = from]
<1>1. \/ UNCHANGED options /\ stage' = "end"
      \/ stage' = "preprocess" /\ options' = o /\ ~(Len(argv) < 3)
  BY DEF PreprocessOptions, End
<1>2. ~(Len(argv) < 3) => IsSeq(from)
  <2> SUFFICES ASSUME ~(Len(argv) < 3) PROVE IsSeq(from)
    OBVIOUS
  <2>1. Len(argv) - 2 \in Nat
    OBVIOUS
  <2>2. from \in [1 .. Len(argv) - 2 -> ToSet(from)] /\ DOMAIN from = 1 .. Len(argv) - 2
    BY DEF ToSet
  <2> HIDE DEF from
  <2>3. from \in Seq(ToSet(from))
    BY <2>1, <2>2, SeqDef
  <2> QED
    BY <2>3 DEF IsSeq
<1> HIDE DEF from
<1>3. OptionsTyped(o) /\ o.filesToPreprocess = from /\ o.task = "preprocess"
  <2>1. DOMAIN NoOptions = OptionFields /\ NoOptions.preprocessedFiles = <<>> /\ NoOptions.importPaths = <<>>
    BY DEF NoOptions, OptionFields
  <2>2. DOMAIN o = OptionFields /\ o.preprocessedFiles = <<>> /\ o.importPaths = <<>> /\ o.filesToPreprocess = from
        /\ o.task = "preprocess"
    BY <2>1 DEF OptionFields
  <2> HIDE DEF o
  <2> QED
    BY <2>2, SmallSeqs DEF OptionsTyped
<1> HIDE DEF o
<1> QED
  BY <1>1, <1>2, <1>3 DEF OptionsInv

(* A namespace of nothing that a file declares.                            *)
AllBuiltIn(s) == IsSeq(s) /\ \A t \in ToSet(s) : t.kind = "builtin"

(* Two of them one behind the other.                                      *)
LEMMA BuiltInJoined ==
  ASSUME NEW s, NEW t, AllBuiltIn(s), AllBuiltIn(t)
  PROVE  AllBuiltIn(s \o t)
BY Joined DEF AllBuiltIn

(* One that is written out.                                                *)
LEMMA BuiltInTuple ==
  ASSUME NEW S, NEW s \in Seq(S), \A t \in S : t.kind = "builtin"
  PROVE  AllBuiltIn(s)
BY SeqIsSeq DEF AllBuiltIn

(* register_base_types() registers no type that a file declares.           *)
LEMMA BaseTypesBuiltIn == AllBuiltIn(BaseTypes)
<1>1. \A p, n : Internal(p, n).kind = "builtin"
  BY DEF Internal, Type
<1>2. \A n, a, b, c : Basic(n, a, b, c).kind = "builtin"
  BY DEF Basic, BasicType, Arrayed, Type
<1>3. /\ VoidType.kind = "builtin" /\ BooleanType.kind = "builtin" /\ CharType.kind = "builtin"
      /\ EventType.kind = "builtin"
  BY DEF VoidType, BasicType, BooleanType, CharType, EventType, Internal, Arrayed, Type
<1>4. /\ StringType.kind = "builtin" /\ CharSequenceType.kind = "builtin" /\ IBinderType.kind = "builtin"
      /\ MapType.kind = "builtin" /\ ListType.kind = "builtin"
  BY DEF StringType, CharSequenceType, IBinderType, MapType, ListType, Type
<1>5. \A p, n : UserDataType(p, n, TRUE, TRUE, TRUE).kind = "builtin"
  BY DEF UserDataType, Type
<1>6. RpcDataType.kind = "builtin"
  <2> DEFINE u == UserDataType("android.support.place.rpc", "RpcData", TRUE, TRUE, TRUE)
  <2>1. RpcDataType.kind = u.kind
    BY DEF RpcDataType, UserDataType, Type
  <2> QED
    BY <2>1, <1>5
<1>7. AllBuiltIn(<<VoidType>>) /\ AllBuiltIn(<<IBinderType>>)
  BY <1>3, <1>4, SmallSeqs DEF AllBuiltIn
<1>8. AllBuiltIn(Writers)
  <2> DEFINE a == Type("java.io", "PrintWriter", "builtin", TRUE, TRUE, FALSE, "plain", NoCalls)
             b == Type("java.io", "StringWriter", "builtin", TRUE, TRUE, FALSE, "plain", NoCalls)
  <2>1. a.kind = "builtin" /\ b.kind = "builtin"
    BY DEF Type
  <2> HIDE DEF a, b
  <2> DEFINE S == {a, b}
  <2>2. <<a, b>> \in Seq(S)
    OBVIOUS
  <2>3. \A t \in S : t.kind = "builtin"
    BY <2>1
  <2> HIDE DEF S
  <2>4. AllBuiltIn(<<a, b>>)
    BY <2>2, <2>3, BuiltInTuple
  <2> QED
    BY <2>4 DEF Writers, a, b
<1>9. AllBuiltIn(Exceptions)
  <2> DEFINE a == Internal("android.os", "RemoteException")
             b == Internal("java.lang", "RuntimeException")
  <2>1. a.kind = "builtin" /\ b.kind = "builtin"
    BY <1>1
  <2> HIDE DEF a, b
  <2> DEFINE S == {a, b}
  <2>2. <<a, b>> \in Seq(S)
    OBVIOUS
  <2>3. \A t \in S : t.kind = "builtin"
    BY <2>1
  <2> HIDE DEF S
  <2>4. AllBuiltIn(<<a, b>>)
    BY <2>2, <2>3, BuiltInTuple
  <2> QED
    BY <2>4 DEF Exceptions, a, b
<1>10. ASSUME NEW a, NEW b, NEW c, NEW d, NEW e, a.kind = "builtin", b.kind = "builtin", c.kind = "builtin",
              d.kind = "builtin", e.kind = "builtin"
       PROVE  AllBuiltIn(<<a, b, c, d, e>>)
  <2> DEFINE S == {a, b, c, d, e}
  <2>1. <<a, b, c, d, e>> \in Seq(S)
    OBVIOUS
  <2>2. \A t \in S : t.kind = "builtin"
    BY <1>10
  <2> HIDE DEF S
  <2> QED
    BY <2>1, <2>2, BuiltInTuple
<1>11. AllBuiltIn(Binders)
  BY <1>1, <1>10 DEF Binders
<1> DEFINE first == <<Internal("java.io", "IOException"), BooleanType, Basic("byte", "Byte", "ByteArray", "Byte"), CharType,
                      Basic("int", "Int", "IntArray", "Integer"), Basic("long", "Long", "LongArray", "Long"),
                      Basic("float", "Float", "FloatArray", "Float"), Basic("double", "Double", "DoubleArray", "Double"),
                      StringType, Internal("java.lang", "Object"), CharSequenceType, MapType, ListType, Internal("android.text", "TextUtils")>>
           last5 == <<Internal("android.content", "Context"), RpcDataType,
                      UserDataType("android.support.place.rpc", "RpcError", TRUE, TRUE, TRUE), EventType, Internal("java.lang", "ClassLoader")>>
<1>12. AllBuiltIn(last5)
  BY <1>1, <1>3, <1>5, <1>6, <1>10
<1>13. AllBuiltIn(first)
  <2> DEFINE S == {Internal("java.io", "IOException"), BooleanType, Basic("byte", "Byte", "ByteArray", "Byte"), CharType,
                   Basic("int", "Int", "IntArray", "Integer"), Basic("long", "Long", "LongArray", "Long"),
                   Basic("float", "Float", "FloatArray", "Float"), Basic("double", "Double", "DoubleArray", "Double"),
                   StringType, Internal("java.lang", "Object"), CharSequenceType, MapType, ListType, Internal("android.text", "TextUtils")}
  <2>1. first \in Seq(S)
    OBVIOUS
  <2>2. \A t \in S : t.kind = "builtin"
    BY <1>1, <1>2, <1>3, <1>4
  <2> HIDE DEF S, first
  <2> QED
    BY <2>1, <2>2, BuiltInTuple
<1> HIDE DEF first, last5
<1> DEFINE part1 == <<VoidType>> \o Writers
           part2 == part1 \o first
           part3 == part2 \o Exceptions
           part4 == part3 \o <<IBinderType>>
           part5 == part4 \o Binders
<1>17. AllBuiltIn(part1)
  BY <1>7, <1>8, BuiltInJoined
<1>18. AllBuiltIn(part2)
  <2> HIDE DEF part1
  <2> QED
    BY <1>17, <1>13, BuiltInJoined
<1>19. AllBuiltIn(part3)
  <2> HIDE DEF part2
  <2> QED
    BY <1>18, <1>9, BuiltInJoined
<1>20. AllBuiltIn(part4)
  <2> HIDE DEF part3
  <2> QED
    BY <1>19, <1>7, BuiltInJoined
<1>21. AllBuiltIn(part5)
  <2> HIDE DEF part4
  <2> QED
    BY <1>20, <1>11, BuiltInJoined
<1>22. AllBuiltIn(part5 \o last5)
  <2> HIDE DEF part5
  <2> QED
    BY <1>21, <1>12, BuiltInJoined
<1> QED
  BY <1>22 DEF BaseTypes, first, last5

(* It holds when the program starts.                                       *)
LEMMA InitSourceInv == CompilerInit => SourceInv
<1> SUFFICES ASSUME CompilerInit PROVE SourceInv
  OBVIOUS
<1>1. PICK b \in Builds : commands = b.commands /\ files = b.files
  BY DEF CompilerInit
<1>2. CommandsInv
  BY <1>1, CompilerAssumption DEF BuildsAssumption, CommandsInv
<1>3. FlatInv
  <2> SUFFICES ASSUME NEW p \in DOMAIN files, files[p].is = "aidl", NEW i \in ToSet(files[p].items), i.kind = "data"
               PROVE  "parcel" \in i.flat
    BY DEF FlatInv
  <2>1. files[p].items \in Seq(SmallItemSet)
    BY <1>1, CompilerAssumption DEF BuildsAssumption
  <2>2. i \in SmallItemSet
    BY <2>1, SeqIsSeq
  <2> QED
    BY <2>2 DEF SmallItemSet
<1>4. OptionsInv
  <2>1. options = NoOptions
    BY DEF CompilerInit
  <2> QED
    BY <2>1, NoOptionsTyped DEF OptionsInv
<1>5. stage = "start"
  BY DEF CompilerInit
<1>6. PreprocessInv /\ BuffersInv /\ ParsedInv /\ SourcesInv
  BY <1>5 DEF PreprocessInv, BuffersInv, ParsedInv, SourcesInv, Gathered
<1> QED
  BY <1>2, <1>3, <1>4, <1>6 DEF SourceInv

(* main(): the options are read.                                           *)
LEMMA StartKeepsSourceInv == SourceInv /\ Start => SourceInv'
<1> SUFFICES ASSUME SourceInv, Start PROVE SourceInv'
  OBVIOUS
<1>0. CommandsInv /\ FlatInv /\ OptionsInv
  BY DEF SourceInv
<1> DEFINE argv == Head(commands)
<1>1. /\ commands # <<>> /\ commands' = Tail(commands)
      /\ PreprocessOptions(argv) \/ CompileOptions(argv)
      /\ names' = BaseTypes /\ main' = <<>> /\ cursor' = <<1, 1>>
      /\ stale' = [type |-> "garbage", package |-> "none", name |-> "none"]
      /\ UNCHANGED files
  BY DEF Start, Null
<1>2. argv \in Seq(ArgumentSet) /\ CommandsInv'
  <2>1. commands \in Seq(Seq(ArgumentSet))
    BY <1>0 DEF CommandsInv
  <2> QED
    BY <1>1, <2>1 DEF CommandsInv
<1> HIDE DEF argv
<1>3. /\ OptionsInv' /\ stage' \in {"preprocess", "preprocessed", "end"}
      /\ stage' = "preprocess" => IsSeq(options.filesToPreprocess)'
  BY <1>0, <1>1, <1>2, CompileTyped, PreprocessTyped
<1>4. FlatInv'
  BY <1>0, <1>1 DEF FlatInv
<1>5. PreprocessInv'
  <2> SUFFICES ASSUME stage' = "preprocess"
               PROVE  /\ IsSeq(options'.filesToPreprocess)
                      /\ cursor'[1] \in 1 .. Len(options'.filesToPreprocess) + 1
                      /\ DOMAIN main' = 1 .. cursor'[1] - 1
                      /\ DOMAIN main' = {}
    BY DEF PreprocessInv
  <2>1. IsSeq(options'.filesToPreprocess) /\ Len(options'.filesToPreprocess) \in Nat
    BY <1>3, IsSeqOf
  <2>2. DOMAIN main' = {} /\ cursor'[1] = 1
    BY <1>1
  <2>3. 1 .. 1 - 1 = {}
    OBVIOUS
  <2> QED
    BY <2>1, <2>2, <2>3
<1>6. BuffersInv' /\ ParsedInv'
  BY <1>1, <1>3 DEF BuffersInv, ParsedInv, Gathered
<1>7. SourcesInv'
  <2>1. \A t \in ToSet(names') : ~IsDeclared(t)
    BY <1>1, BaseTypesBuiltIn DEF AllBuiltIn, IsDeclared
  <2> QED
    BY <2>1 DEF SourcesInv
<1> QED
  BY <1>2, <1>3, <1>4, <1>5, <1>6, <1>7 DEF SourceInv

(* What gather_types adds for an item is its type, and what it generates.  *)
LEMMA GatherAdds ==
  ASSUME NEW known, IsSeq(known), NEW item, NEW t \in ToSet(GatherItem(known, item))
  PROVE  t \in ToSet(known) \/ t = TypeOf(item) \/ t.kind = "generated"
<1> DEFINE Fine(s) == IsSeq(s) /\ \A u \in ToSet(s) : u \in ToSet(known) \/ u = TypeOf(item) \/ u.kind = "generated"
<1>1. ASSUME NEW r, NEW s, Fine(r), Fine(s) PROVE Fine(r \o s)
  BY <1>1, Joined
<1>2. Fine(<<>>) /\ Fine(<<TypeOf(item)>>) /\ Fine(known)
  BY SmallSeqs
<1>3. ASSUME NEW suffix PROVE Fine(Added(known, Beside(item, suffix)))
  <2> DEFINE u == Beside(item, suffix)
  <2>1. u.kind = "generated"
    BY DEF Beside, Internal, Type
  <2> HIDE DEF u
  <2>2. Fine(<<u>>)
    BY <2>1, SmallSeqs
  <2>3. Added(known, u) = <<u>> \/ Added(known, u) = <<>>
    BY DEF Added
  <2> HIDE DEF Fine
  <2> QED
    BY <1>2, <2>2, <2>3 DEF u
<1> DEFINE others == CASE item.kind = "interface" -> Added(known, Beside(item, ".Stub")) \o Added(known, Beside(item, ".Stub.Proxy"))
                       [] item.kind = "rpc" -> Added(known, Beside(item, ".ServiceBase"))
                       [] OTHER -> <<>>
           first == known \o <<TypeOf(item)>>
<1> HIDE DEF Fine
<1>4. Fine(others)
  <2>1. Fine(Added(known, Beside(item, ".Stub")) \o Added(known, Beside(item, ".Stub.Proxy")))
    BY <1>1, <1>3
  <2>2. Fine(Added(known, Beside(item, ".ServiceBase")))
    BY <1>3
  <2> QED
    BY <1>2, <2>1, <2>2
<1>5. Fine(first)
  BY <1>1, <1>2
<1> HIDE DEF others, first
<1>6. Fine(first \o others)
  BY <1>1, <1>4, <1>5
<1>7. GatherItem(known, item) \in {known, first \o others}
  BY DEF GatherItem, others, first
<1>8. Fine(GatherItem(known, item))
  BY <1>2, <1>6, <1>7
<1> QED
  BY <1>8 DEF Fine

(* A type has the names of its item, and nothing in angle brackets.        *)
LEMMA TypeOfNames ==
  ASSUME NEW item
  PROVE  TypeOf(item).package = item.package /\ TypeOf(item).name = item.name /\ TypeOf(item).args = <<>>
BY DEF TypeOf, UserDataType, InterfaceType, Type

(* A line stays where it is while nothing is written.                      *)
LEMMA LineStays ==
  ASSUME UNCHANGED files, options'.preprocessedFiles = options.preprocessedFiles, NEW t, FromLine(t)
  PROVE  FromLine(t)'
BY DEF FromLine, Content

(* parse_preprocessed_file: a line.                                        *)
LEMMA ReadPreprocessedLineKeepsSourceInv == CompilerInv /\ SourceInv /\ ReadPreprocessedLine => SourceInv'
<1> SUFFICES ASSUME CompilerInv, SourceInv, ReadPreprocessedLine PROVE SourceInv'
  OBVIOUS
<1>0. /\ CommandsInv /\ FlatInv /\ OptionsInv /\ PreprocessInv /\ BuffersInv /\ ParsedInv /\ SourcesInv
      /\ FilesInv /\ NamesInv /\ CursorInv
  BY DEF SourceInv, CompilerInv
<1> DEFINE f == options.preprocessedFiles[cursor[1]]
           text == Content(f).lines[cursor[2]]
           line == IF text.type = "none" THEN stale ELSE text
<1>1. /\ stage = "preprocessed" /\ cursor[1] <= Len(options.preprocessedFiles)
      /\ Content(f).is = "lines" /\ cursor[2] <= Len(Content(f).lines)
      /\ UNCHANGED <<commands, files, stage, options, document, main, imports>>
  BY DEF ReadPreprocessedLine
<1>2. \/ UNCHANGED <<names, stale>> /\ cursor' \in {<<cursor[1], cursor[2] + 1>>, <<cursor[1] + 1, 1>>}
      \/ /\ text.type # "//" /\ line.type \in {"parcelable", "flattenable", "interface"}
         /\ names' = GatherItem(names, Declared(line)) /\ stale' = LeftBehind(line)
         /\ cursor' = <<cursor[1], cursor[2] + 1>>
  BY DEF ReadPreprocessedLine
<1>3. f \in ToSet(options.preprocessedFiles) /\ text \in ToSet(Content(f).lines)
  <2>1. cursor[1] \in Nat \ {0} /\ cursor[2] \in Nat \ {0}
    BY <1>0, <1>1 DEF CursorInv, BuffersInv
  <2>2. cursor[1] \in DOMAIN options.preprocessedFiles
    BY <1>0, <1>1, <2>1, IsSeqOf DEF OptionsInv, OptionsTyped
  <2>3. f \in ToSet(options.preprocessedFiles)
    BY <2>2 DEF ToSet
  <2> HIDE DEF f
  <2>4. IsSeq(Content(f).lines)
    BY <1>0, <1>1, ContentTyped DEF IsLines
  <2>5. cursor[2] \in DOMAIN Content(f).lines
    BY <1>1, <2>1, <2>4, IsSeqOf
  <2> QED
    BY <2>3, <2>5 DEF ToSet
<1> HIDE DEF f, text
<1>4. ASSUME line.type \in {"parcelable", "flattenable", "interface"}
      PROVE  \E g \in ToSet(options.preprocessedFiles) : \E l \in ToSet(Content(g).lines) : line \in {l, LeftBehind(l)}
  <2>1. CASE text.type = "none"
    <3>1. LeftByLine(stale)
      BY <1>0, <1>1, <1>4, <2>1 DEF BuffersInv
    <3> QED
      BY <2>1, <3>1 DEF LeftByLine
  <2>2. CASE text.type # "none"
    BY <1>3, <2>2
  <2> QED
    BY <2>1, <2>2
<1> HIDE DEF line
<1>5. PreprocessInv' /\ ParsedInv'
  BY <1>1 DEF PreprocessInv, ParsedInv, Gathered
<1>6. BuffersInv'
  <2>1. cursor'[1] # 0
    <3>1. cursor[1] \in Nat /\ cursor[1] # 0
      BY <1>0, <1>1 DEF CursorInv, BuffersInv
    <3> QED
      BY <1>2, <3>1
  <2>2. stale'.type # "garbage" => LeftByLine(stale')
    <3>1. CASE UNCHANGED stale
      BY <1>0, <1>1, <3>1 DEF BuffersInv
    <3>2. CASE line.type \in {"parcelable", "flattenable", "interface"} /\ stale' = LeftBehind(line)
      <4>1. PICK g \in ToSet(options.preprocessedFiles) : \E l \in ToSet(Content(g).lines) : line \in {l, LeftBehind(l)}
        BY <1>4, <3>2
      <4>2. PICK l \in ToSet(Content(g).lines) : line \in {l, LeftBehind(l)}
        BY <4>1
      <4>3. LeftBehind(LeftBehind(l)) = LeftBehind(l)
        BY DEF LeftBehind
      <4>4. stale' = LeftBehind(l)
        BY <3>2, <4>2, <4>3
      <4> QED
        BY <4>4 DEF LeftByLine
    <3> QED
      BY <1>2, <3>1, <3>2
  <2>3. LeftByLine(stale')  => LeftByLine(stale)'
    BY <1>1 DEF LeftByLine, Content
  <2> QED
    BY <2>1, <2>2, <2>3 DEF BuffersInv
<1>7. SourcesInv'
  <2>1. \A t \in ToSet(names) : IsDeclared(t) => FromLine(t)
    BY <1>0, <1>1 DEF SourcesInv
  <2>2. ASSUME NEW t \in ToSet(names'), IsDeclared(t) PROVE FromLine(t)
    <3>1. CASE t \in ToSet(names)
      BY <2>1, <2>2, <3>1
    <3>2. CASE /\ line.type \in {"parcelable", "flattenable", "interface"}
               /\ names' = GatherItem(names, Declared(line)) /\ t \notin ToSet(names)
      <4>1. t = TypeOf(Declared(line))
        <5>1. t.kind # "generated"
          BY <2>2 DEF IsDeclared
        <5> QED
          BY <1>0, <3>2, <5>1, GatherAdds DEF NamesInv, AllGood
      <4>2. t.package = line.package /\ t.name = line.name
        <5>1. Declared(line).package = line.package /\ Declared(line).name = line.name
          BY DEF Declared, NoItem
        <5> QED
          BY <4>1, <5>1, TypeOfNames
      <4> QED
        BY <1>4, <3>2, <4>2 DEF FromLine
    <3> QED
      BY <1>2, <3>1, <3>2
  <2>3. \A t \in ToSet(names') : IsDeclared(t) => FromLine(t)'
    BY <1>1, <2>2, LineStays
  <2>4. stage' \notin Gathered
    BY <1>1 DEF Gathered
  <2> QED
    BY <2>3, <2>4 DEF SourcesInv, IsDeclared
<1>8. CommandsInv' /\ FlatInv' /\ OptionsInv'
  BY <1>0, <1>1 DEF CommandsInv, FlatInv, OptionsInv
<1> QED
  BY <1>5, <1>6, <1>7, <1>8 DEF SourceInv

(* The types that are known stay from lines while none is gathered.        *)
LEMMA LinesStay ==
  ASSUME SourcesInv, stage \in {"preprocessed", "main", "imports", "filenames"}, stage' \notin Gathered,
         UNCHANGED <<files, options, names>>
  PROVE  SourcesInv'
<1>1. \A t \in ToSet(names) : IsDeclared(t) => FromLine(t)
  BY DEF SourcesInv
<1>2. \A t \in ToSet(names') : IsDeclared(t) => FromLine(t)'
  BY <1>1, LineStays
<1> QED
  BY <1>2 DEF SourcesInv, IsDeclared

(* parse_preprocessed_file: the end of a file.                             *)
LEMMA EndPreprocessedFileKeepsSourceInv == CompilerInv /\ SourceInv /\ EndPreprocessedFile => SourceInv'
<1> SUFFICES ASSUME CompilerInv, SourceInv, EndPreprocessedFile PROVE SourceInv'
  OBVIOUS
<1>0. /\ CommandsInv /\ FlatInv /\ OptionsInv /\ BuffersInv /\ SourcesInv /\ CursorInv
  BY DEF SourceInv, CompilerInv
<1>1. /\ stage = "preprocessed" /\ cursor' = <<cursor[1] + 1, 1>>
      /\ stale' \in {stale, [type |-> "garbage", package |-> "none", name |-> "none"]}
      /\ UNCHANGED <<commands, files, stage, options, names, document, main, imports, onlyParcelable, ids, result, generated>>
  BY DEF EndPreprocessedFile
<1>2. CommandsInv' /\ FlatInv' /\ OptionsInv'
  BY <1>0, <1>1 DEF CommandsInv, FlatInv, OptionsInv
<1>3. PreprocessInv' /\ ParsedInv'
  BY <1>1 DEF PreprocessInv, ParsedInv, Gathered
<1>4. SourcesInv'
  <2>1. stage' \notin Gathered
    BY <1>1 DEF Gathered
  <2> QED
    BY <1>0, <1>1, <2>1, LinesStay
<1>5. BuffersInv'
  <2>1. cursor'[1] # 0
    BY <1>0, <1>1 DEF CursorInv
  <2>2. LeftByLine(stale) => LeftByLine(stale)' \/ stale'.type = "garbage"
    BY <1>1 DEF LeftByLine, Content
  <2>3. stale'.type # "garbage" => stale.type # "garbage"
    BY <1>1
  <2> QED
    BY <1>0, <1>1, <2>1, <2>2, <2>3 DEF BuffersInv
<1> QED
  BY <1>2, <1>3, <1>4, <1>5 DEF SourceInv

(* compile_aidl: all preprocessed files are read.                          *)
LEMMA EndPreprocessedKeepsSourceInv == SourceInv /\ EndPreprocessed => SourceInv'
<1> SUFFICES ASSUME SourceInv, EndPreprocessed PROVE SourceInv'
  OBVIOUS
<1>0. CommandsInv /\ FlatInv /\ OptionsInv /\ SourcesInv
  BY DEF SourceInv
<1>1. /\ stage = "preprocessed" /\ stage' \in {"main", "end"}
      /\ UNCHANGED <<commands, files, options, names, main, imports>>
  BY DEF EndPreprocessed, End
<1>2. CommandsInv' /\ FlatInv' /\ OptionsInv'
  BY <1>0, <1>1 DEF CommandsInv, FlatInv, OptionsInv
<1>3. PreprocessInv' /\ BuffersInv' /\ ParsedInv'
  BY <1>1 DEF PreprocessInv, BuffersInv, ParsedInv, Gathered
<1>4. SourcesInv'
  <2>1. stage' \notin Gathered
    BY <1>1 DEF Gathered
  <2> QED
    BY <1>0, <1>1, <2>1, LinesStay
<1> QED
  BY <1>2, <1>3, <1>4 DEF SourceInv

(* compile_aidl: the main file is parsed.                                  *)
LEMMA ParseMainKeepsSourceInv == CompilerInv /\ SourceInv /\ ParseMain => SourceInv'
<1> SUFFICES ASSUME CompilerInv, SourceInv, ParseMain PROVE SourceInv'
  OBVIOUS
<1>0. CommandsInv /\ FlatInv /\ OptionsInv /\ SourcesInv /\ FilesInv
  BY DEF SourceInv, CompilerInv
<1> DEFINE f == options.input
<1>1. /\ stage = "main" /\ stage' = "imports"
      /\ main' = IF Content(f).is = "aidl" THEN ItemsOf(f) ELSE <<>>
      /\ imports' = IF Content(f).is = "aidl" THEN ImportsOf(f) ELSE <<>>
      /\ UNCHANGED <<commands, files, options, names>>
  BY DEF ParseMain, Null
<1>2. CommandsInv' /\ FlatInv' /\ OptionsInv'
  BY <1>0, <1>1 DEF CommandsInv, FlatInv, OptionsInv
<1>3. PreprocessInv' /\ BuffersInv'
  BY <1>1 DEF PreprocessInv, BuffersInv
<1>4. SourcesInv'
  <2>1. stage' \notin Gathered
    BY <1>1 DEF Gathered
  <2> QED
    BY <1>0, <1>1, <2>1, LinesStay
<1>5. ParsedInv'
  <2>1. main' # Null => main' = ItemsOf(options.input)'
    <3>1. ItemsOf(options.input)' = ItemsOf(options.input)
      BY <1>1 DEF ItemsOf, Content
    <3> QED
      BY <1>1, <3>1 DEF Null
  <2>2. ASSUME NEW x \in ToSet(imports') PROVE x.document = Null
    <3>1. ToSet(<<>>) = {}
      BY SmallSeqs
    <3>2. imports' = ImportsOf(f)
      BY <1>1, <3>1
    <3>3. PICK i \in DOMAIN Content(f).imports : x = Import(Content(f).imports[i], f)
      BY <3>2 DEF ImportsOf, ToSet
    <3> QED
      BY <3>3 DEF Import
  <2>3. \A x \in ToSet(imports') : HasFile(x)'
    BY <2>2 DEF HasFile
  <2> QED
    BY <2>1, <2>3 DEF ParsedInv, HasFile
<1> QED
  BY <1>2, <1>3, <1>4, <1>5 DEF SourceInv

(* find_import_file finds a path that is not empty.                        *)
LEMMA ImportHasName ==
  ASSUME OptionsInv, NEW ref, Candidates(ref) # {}
  PROVE  ImportFile(ref) # <<>>
<1>1. IsSeq(options.importPaths) /\ \A dir \in ToSet(options.importPaths) : IsSeq(dir)
  BY DEF OptionsInv, OptionsTyped
<1>2. Candidates(ref) \subseteq DOMAIN options.importPaths
  BY DEF Candidates
<1>3. Min(Candidates(ref)) \in DOMAIN options.importPaths
  <2>1. DOMAIN options.importPaths = 1 .. Len(options.importPaths)
    BY <1>1, IsSeqOf
  <2>2. Candidates(ref) \subseteq Nat
    BY <1>2, <2>1
  <2> QED
    BY <1>2, <2>2, MinIsThere
<1> DEFINE dir == options.importPaths[Min(Candidates(ref))]
<1>4. IsSeq(dir)
  BY <1>1, <1>3 DEF ToSet
<1> HIDE DEF dir
<1>5. IsSeq(SearchPath(dir))
  <2>1. IsSeq(<<".", "/">>)
    <3>1. <<".", "/">> \in Seq({".", "/"})
      OBVIOUS
    <3> QED
      BY <3>1, SeqIsSeq
  <2>2. IsSeq(dir \o <<"/">>)
    BY <1>4, SmallSeqs, Joined
  <2> QED
    BY <1>4, <2>1, <2>2 DEF SearchPath
<1> DEFINE s == SearchPath(dir)
           p == PathOf(ref)
<1>6. PICK S : s \in Seq(S) /\ p \in Seq(S) /\ Len(p) \in Nat \ {0}
  <2> DEFINE q == <<ref.name, ".aidl">>
             r == IF ref.package = "none" THEN <<>> ELSE <<ref.package, "/">>
             A == {ref.name, ".aidl", ref.package, "/"}
             S == ToSet(s) \cup A
  <2>1. p = r \o q
    BY DEF PathOf
  <2> HIDE DEF s, p
  <2>2. q \in Seq(S) /\ r \in Seq(S)
    <3>1. ref.name \in S /\ ".aidl" \in S /\ ref.package \in S /\ "/" \in S
      OBVIOUS
    <3> HIDE DEF S
    <3>2. q \in Seq(S) /\ <<ref.package, "/">> \in Seq(S) /\ <<>> \in Seq(S)
      BY <3>1
    <3> QED
      BY <3>2
  <2>3. Len(q) = 2
    OBVIOUS
  <2>4. s \in Seq(S)
    BY <1>5, IsSeqOf DEF s
  <2> HIDE DEF S, q, r
  <2>5. r \o q \in Seq(S) /\ Len(r \o q) = Len(r) + Len(q) /\ Len(r) \in Nat
    BY <2>2, ConcatProperties
  <2>6. p \in Seq(S) /\ Len(p) \in Nat \ {0}
    BY <2>1, <2>3, <2>5
  <2> QED
    BY <2>4, <2>6
<1>7. ImportFile(ref) = s \o p
  BY DEF ImportFile, InPath, dir
<1> HIDE DEF s, p
<1>8. Len(s \o p) = Len(s) + Len(p) /\ Len(s) \in Nat
  BY <1>6, ConcatProperties
<1>9. Len(s \o p) # 0
  BY <1>6, <1>8
<1>10. Len(<<>>) = 0
  OBVIOUS
<1> QED
  BY <1>7, <1>9, <1>10, Zenon

(* compile_aidl: an import is found and parsed.                            *)
LEMMA ParseImportKeepsSourceInv == CompilerInv /\ SourceInv /\ ParseImport => SourceInv'
<1> SUFFICES ASSUME CompilerInv, SourceInv, ParseImport PROVE SourceInv'
  OBVIOUS
<1>0. /\ CommandsInv /\ FlatInv /\ OptionsInv /\ ParsedInv /\ SourcesInv /\ FilesInv /\ DocsInv
  BY DEF SourceInv, CompilerInv
<1> DEFINE k == cursor[1]
           i == imports[k]
           p == ImportFile(i.class)
           more == ImportsOf(p)
           kept == [i EXCEPT !.filename = p, !.document = document']
<1>1. /\ stage = "imports" /\ stage' = "imports"
      /\ UNCHANGED <<commands, files, options, names, main>>
  BY DEF ParseImport
<1>2. \/ found' = found /\ imports' = imports
      \/ found' # {} /\ imports' = imports
      \/ /\ Candidates(i.class) # {}
         /\ document' = IF Content(p).is = "aidl" THEN ItemsOf(p) ELSE document
         /\ found' = found \cup (ParseErrors(p) \cup (IF document' = Null THEN {"empty import"} ELSE {}))
         /\ imports' = more \o [imports EXCEPT ![k] = kept]
  BY DEF ParseImport, Report
<1>3. CommandsInv' /\ FlatInv' /\ OptionsInv'
  BY <1>0, <1>1 DEF CommandsInv, FlatInv, OptionsInv
<1>4. PreprocessInv' /\ BuffersInv'
  BY <1>1 DEF PreprocessInv, BuffersInv
<1>5. SourcesInv'
  <2>1. stage' \notin Gathered
    BY <1>1 DEF Gathered
  <2> QED
    BY <1>0, <1>1, <2>1, LinesStay
<1>6. /\ main # Null => main = ItemsOf(options.input)
      /\ found = {} => \A x \in ToSet(imports) : HasFile(x)
  BY <1>0, <1>1 DEF ParsedInv
<1>7. ASSUME found' = {} PROVE \A x \in ToSet(imports') : HasFile(x)
  <2>1. CASE found' = found /\ imports' = imports
    BY <1>6, <1>7, <2>1
  <2>2. CASE /\ Candidates(i.class) # {}
             /\ document' = IF Content(p).is = "aidl" THEN ItemsOf(p) ELSE document
             /\ found' = found \cup (ParseErrors(p) \cup (IF document' = Null THEN {"empty import"} ELSE {}))
             /\ imports' = more \o [imports EXCEPT ![k] = kept]
    <3> DEFINE rest == [imports EXCEPT ![k] = kept]
    <3>1. p # <<>>
      BY <1>0, <2>2, ImportHasName
    <3>2. found = {} /\ ParseErrors(p) = {}
      <4> HIDE DEF p
      <4> QED
        BY <1>7, <2>2
    <3>3. Content(p).is = "aidl"
      <4> HIDE DEF p
      <4> QED
        BY <3>2 DEF ParseErrors
    <3>4. document' = ItemsOf(p)
      BY <2>2, <3>3
    <3>5. IsSeq(more) /\ \A x \in ToSet(more) : x.document = Null
      <4> HIDE DEF p
      <4>1. IsSeq(more)
        BY <1>0, ImportsTyped
      <4>2. ASSUME NEW x \in ToSet(more) PROVE x.document = Null
        <5>1. PICK n \in DOMAIN Content(p).imports : x = Import(Content(p).imports[n], p)
          BY DEF ImportsOf, ToSet
        <5> QED
          BY <5>1 DEF Import
      <4> QED
        BY <4>1, <4>2
    <3>6. IsSeq(imports)
      BY <1>0 DEF DocsInv
    <3>7. IsSeq(rest)
      <4> HIDE DEF kept
      <4> QED
        BY <3>6, Mapped
    <3>8. ASSUME NEW x \in ToSet(rest) PROVE HasFile(x)
      <4>1. PICK n \in DOMAIN imports : x = rest[n]
        BY DEF ToSet
      <4>2. imports[n] \in ToSet(imports)
        BY DEF ToSet
      <4>3. HasFile(imports[n])
        BY <1>6, <3>2, <4>2
      <4>4. DOMAIN imports[n] = ImportFields
        BY <1>0, <4>2 DEF DocsInv
      <4>5. CASE n = k
        <5> HIDE DEF p
        <5>1. x = [imports[n] EXCEPT !.filename = p, !.document = document']
          BY <4>1, <4>5
        <5>2. x.filename = p /\ x.document = document'
          BY <4>4, <5>1 DEF ImportFields
        <5> QED
          BY <3>1, <3>4, <5>2 DEF HasFile
      <4>6. CASE n # k
        <5> HIDE DEF kept
        <5> QED
          BY <4>1, <4>3, <4>6
      <4> QED
        BY <4>5, <4>6
    <3> HIDE DEF more, rest
    <3>9. ToSet(more \o rest) \subseteq ToSet(more) \cup ToSet(rest)
      BY <3>5, <3>7, Joined
    <3>10. imports' = more \o rest
      BY <2>2 DEF rest
    <3>11. \A x \in ToSet(more) : HasFile(x)
      BY <3>5 DEF HasFile
    <3> QED
      BY <3>8, <3>9, <3>10, <3>11
  <2> QED
    BY <1>2, <1>7, <2>1, <2>2
<1>8. ParsedInv'
  <2>1. ItemsOf(options.input)' = ItemsOf(options.input)
    BY <1>1 DEF ItemsOf, Content
  <2>2. ASSUME NEW x, HasFile(x) PROVE HasFile(x)'
    BY <1>1, <2>2 DEF HasFile, ItemsOf, Content
  <2>3. found' = {} => \A x \in ToSet(imports') : HasFile(x)'
    BY <1>7, <2>2
  <2>4. main' # Null => main' = ItemsOf(options.input)'
    BY <1>1, <1>6, <2>1
  <2> QED
    BY <2>3, <2>4 DEF ParsedInv, HasFile
<1> QED
  BY <1>3, <1>4, <1>5, <1>8 DEF SourceInv

(* What has a source keeps it while nothing is read or written.            *)
LEMMA SourceStays ==
  ASSUME UNCHANGED <<files, imports>>, options'.input = options.input,
         options'.preprocessedFiles = options.preprocessedFiles, NEW t, HasSource(t)
  PROVE  HasSource(t)'
<1>1. FromLine(t) => FromLine(t)'
  BY LineStays
<1>2. Declares(options.input, t) => Declares(options.input, t)'
  BY DEF Declares, Content
<1>3. FromImport(t) => FromImport(t)'
  BY DEF FromImport, Declares, Content
<1> QED
  BY <1>1, <1>2, <1>3 DEF HasSource

(* The stages after the imports keep it, which gather no type.             *)
LEMMA LaterKeepsSourceInv ==
  ASSUME SourceInv, UNCHANGED <<commands, files, names, main, imports>>, OptionsInv', options'.input = options.input,
         options'.preprocessedFiles = options.preprocessedFiles, found' = {} => found = {},
         \/ stage = "imports" /\ stage' = "filenames"
         \/ stage \in {"filenames"} \cup Gathered /\ stage' \in Gathered
         \/ stage' = "end"
  PROVE  SourceInv'
<1>0. CommandsInv /\ FlatInv /\ ParsedInv /\ SourcesInv
  BY DEF SourceInv
<1>1. CommandsInv' /\ FlatInv'
  BY <1>0 DEF CommandsInv, FlatInv
<1>2. PreprocessInv' /\ BuffersInv'
  BY DEF PreprocessInv, BuffersInv, Gathered
<1>3. ParsedInv'
  <2>1. CASE stage' = "end"
    BY <2>1 DEF ParsedInv, Gathered
  <2>2. CASE stage' # "end"
    <3>1. /\ main # Null => main = ItemsOf(options.input)
          /\ found = {} => \A x \in ToSet(imports) : HasFile(x)
      BY <1>0, <2>2 DEF ParsedInv
    <3>2. ItemsOf(options.input)' = ItemsOf(options.input)
      BY DEF ItemsOf, Content
    <3>3. ASSUME NEW x, HasFile(x) PROVE HasFile(x)'
      BY <3>3 DEF HasFile, ItemsOf, Content
    <3>4. found' = {} => \A x \in ToSet(imports') : HasFile(x)'
      BY <3>1, <3>3
    <3>5. main' # Null => main' = ItemsOf(options.input)'
      BY <3>1, <3>2
    <3> QED
      BY <3>4, <3>5 DEF ParsedInv, HasFile
  <2> QED
    BY <2>1, <2>2
<1>4. SourcesInv'
  <2>1. CASE stage \in {"imports", "filenames"}
    <3>1. \A t \in ToSet(names) : IsDeclared(t) => FromLine(t)
      BY <1>0, <2>1 DEF SourcesInv
    <3>2. \A t \in ToSet(names') : IsDeclared(t) => FromLine(t)'
      BY <3>1, LineStays
    <3>3. \A t \in ToSet(names') : IsDeclared(t) => HasSource(t)'
      BY <3>2 DEF HasSource
    <3> QED
      BY <3>2, <3>3 DEF SourcesInv, IsDeclared
  <2>2. CASE stage \in Gathered /\ stage' \in Gathered
    <3>1. found = {} => \A t \in ToSet(names) : IsDeclared(t) => HasSource(t)
      BY <1>0, <2>2 DEF SourcesInv
    <3>2. found' = {} => \A t \in ToSet(names') : IsDeclared(t) => HasSource(t)'
      BY <3>1, SourceStays
    <3>3. stage' \notin {"preprocessed", "main", "imports", "filenames"}
      BY <2>2 DEF Gathered
    <3> QED
      BY <3>2, <3>3 DEF SourcesInv, IsDeclared
  <2>3. CASE stage' = "end"
    BY <2>3 DEF SourcesInv, Gathered
  <2> QED
    BY <2>1, <2>2, <2>3
<1> QED
  BY <1>1, <1>2, <1>3, <1>4 DEF SourceInv

(* The stages between: the checks of file names, of types, of the          *)
(* interface and of the transaction codes.                                 *)
LEMMA ChecksKeepSourceInv ==
  SourceInv /\ (EndImports \/ CheckFilenames \/ EndGathering \/ CheckTypes \/ ExactlyOneInterface \/ AssignMethodIds)
    => SourceInv'
<1> SUFFICES ASSUME SourceInv,
                    EndImports \/ CheckFilenames \/ EndGathering \/ CheckTypes \/ ExactlyOneInterface \/ AssignMethodIds
             PROVE  SourceInv'
  OBVIOUS
<1>1. UNCHANGED <<commands, files, options, names, main, imports>>
  BY DEF EndImports, CheckFilenames, EndGathering, CheckTypes, ExactlyOneInterface, AssignMethodIds
<1>2. ASSUME NEW es, Report(es) PROVE found' = {} => found = {}
  BY <1>2 DEF Report
<1>3. OptionsInv'
  BY <1>1 DEF OptionsInv, SourceInv
<1>4. CASE EndImports
  <2>1. found' = found /\ stage = "imports" /\ stage' \in {"filenames", "end"}
    BY <1>4 DEF EndImports, End
  <2> QED
    BY <1>1, <1>3, <2>1, LaterKeepsSourceInv
<1>5. CASE CheckFilenames
  <2>1. stage = "filenames" /\ stage' \in Gathered /\ \E es : Report(es)
    BY <1>5 DEF CheckFilenames, Gathered
  <2> QED
    BY <1>1, <1>2, <1>3, <2>1, LaterKeepsSourceInv
<1>6. CASE EndGathering
  <2>1. stage \in Gathered /\ stage' \in Gathered /\ found' = found
    BY <1>6 DEF EndGathering, Gathered
  <2> QED
    BY <1>1, <1>3, <2>1, LaterKeepsSourceInv
<1>7. CASE CheckTypes
  <2>1. stage \in Gathered /\ stage' \in Gathered /\ \E es : Report(es)
    BY <1>7 DEF CheckTypes, Gathered
  <2> QED
    BY <1>1, <1>2, <1>3, <2>1, LaterKeepsSourceInv
<1>8. CASE ExactlyOneInterface
  <2>1. stage \in Gathered /\ stage' \in Gathered /\ \E es : Report(es)
    BY <1>8, Zenon DEF ExactlyOneInterface, Gathered
  <2> QED
    BY <1>1, <1>2, <1>3, <2>1, LaterKeepsSourceInv
<1>9. CASE AssignMethodIds
  <2>1. stage \in Gathered
    BY <1>9 DEF AssignMethodIds, Gathered
  <2>2. stage' \in Gathered \cup {"end"}
    BY <1>9 DEF AssignMethodIds, Gathered, End
  <2>3. found' = found \/ \E es : Report(es)
    BY <1>9 DEF AssignMethodIds
  <2> QED
    BY <1>1, <1>2, <1>3, <2>1, <2>2, <2>3, LaterKeepsSourceInv
<1> QED
  BY <1>4, <1>5, <1>6, <1>7, <1>8, <1>9

(* generate_outputFileName changes the output's name only.                 *)
LEMMA NameOutputKeepsSourceInv == SourceInv /\ NameOutput => SourceInv'
<1> SUFFICES ASSUME SourceInv, NameOutput PROVE SourceInv'
  OBVIOUS
<1>1. stage = "output" /\ UNCHANGED <<commands, files, names, found, main, imports>>
  BY DEF NameOutput
<1>2. \/ stage' = "end" /\ UNCHANGED options
      \/ stage' = "dep" /\ options' = [options EXCEPT !.output = OutputName]
  BY DEF NameOutput, End
<1>3. OptionsTyped(options)
  BY DEF SourceInv, OptionsInv
<1>4. OptionsInv' /\ options'.input = options.input /\ options'.preprocessedFiles = options.preprocessedFiles
  <2> DEFINE y == OutputName
             named == [options EXCEPT !.output = y]
  <2>1. OptionsTyped(named) /\ named.input = options.input /\ named.preprocessedFiles = options.preprocessedFiles
    <3> HIDE DEF y
    <3> QED
      BY <1>3, OutputTyped
  <2>2. options' = options \/ options' = named
    BY <1>2
  <2> HIDE DEF named
  <2>3. OptionsInv' <=> OptionsTyped(options')
    BY DEF OptionsInv
  <2> QED
    BY <1>3, <2>1, <2>2, <2>3
<1>5. stage \in Gathered /\ stage' \in Gathered \cup {"end"}
  BY <1>1, <1>2 DEF Gathered
<1> QED
  BY <1>1, <1>4, <1>5, LaterKeepsSourceInv

(* compile_aidl: the types of an item are gathered.                        *)
LEMMA GatherTypesKeepsSourceInv == CompilerInv /\ SourceInv /\ GatherTypes => SourceInv'
<1> SUFFICES ASSUME CompilerInv, SourceInv, GatherTypes PROVE SourceInv'
  OBVIOUS
<1>0. /\ CommandsInv /\ FlatInv /\ OptionsInv /\ ParsedInv /\ SourcesInv
      /\ NamesInv /\ DocsInv /\ CursorInv
  BY DEF SourceInv, CompilerInv
<1>1. /\ stage = "gather" /\ stage' = "gather" /\ cursor[1] <= Len(imports)
      /\ UNCHANGED <<commands, files, options, main, imports>>
  BY DEF GatherTypes
<1>2. \/ /\ cursor[2] \in DOMAIN Gathering
         /\ names' = GatherItem(names, Gathering[cursor[2]]) /\ Report(GatherErrors(names, Gathering[cursor[2]]))
      \/ UNCHANGED <<names, found>>
  BY DEF GatherTypes
<1>3. CommandsInv' /\ FlatInv' /\ OptionsInv'
  BY <1>0, <1>1 DEF CommandsInv, FlatInv, OptionsInv
<1>4. PreprocessInv' /\ BuffersInv'
  BY <1>1 DEF PreprocessInv, BuffersInv
<1>5. found' = {} => found = {}
  BY <1>2 DEF Report
<1>6. /\ main # Null => main = ItemsOf(options.input)
      /\ found = {} => \A x \in ToSet(imports) : HasFile(x)
  BY <1>0, <1>1 DEF ParsedInv, Gathered
<1>7. ParsedInv'
  <2>1. ItemsOf(options.input)' = ItemsOf(options.input)
    BY <1>1 DEF ItemsOf, Content
  <2>2. ASSUME NEW x, HasFile(x) PROVE HasFile(x)'
    BY <1>1, <2>2 DEF HasFile, ItemsOf, Content
  <2>3. found' = {} => \A x \in ToSet(imports') : HasFile(x)'
    BY <1>1, <1>5, <1>6, <2>2
  <2>4. main' # Null => main' = ItemsOf(options.input)'
    BY <1>1, <1>6, <2>1
  <2> QED
    BY <2>3, <2>4 DEF ParsedInv, HasFile
<1>8. ASSUME found = {}, cursor[2] \in DOMAIN Gathering, NEW t, t = TypeOf(Gathering[cursor[2]])
      PROVE  HasSource(t)
  <2> DEFINE n == cursor[2]
  <2>1. ASSUME NEW p, Gathering = ItemsOf(p) PROVE Declares(p, t)
    <3>1. n \in DOMAIN Content(p).items
      BY <1>8, <2>1 DEF ItemsOf
    <3>2. Gathering[n] = [Content(p).items[n] EXCEPT !.package = Content(p).package]
      BY <2>1, <3>1 DEF ItemsOf
    <3>3. IsItem(Gathering[n])
      <4>1. IsDocument(Gathering)
        <5>1. IsSeq(imports) /\ cursor[1] \in Nat
          BY <1>0 DEF DocsInv, CursorInv
        <5>2. cursor[1] # 0 => imports[cursor[1]] \in ToSet(imports)
          BY <1>1, <5>1, IsSeqOf DEF ToSet
        <5> QED
          BY <1>0, <5>2 DEF DocsInv, Gathering
      <4> QED
        BY <1>8, <4>1 DEF IsDocument, ToSet
    <3>4. DOMAIN Gathering[n] = DOMAIN Content(p).items[n]
      BY <3>2
    <3>5. "package" \in DOMAIN Content(p).items[n] /\ "name" \in DOMAIN Content(p).items[n]
      BY <3>3, <3>4 DEF IsItem
    <3>6. Gathering[n].package = Content(p).package /\ Gathering[n].name = Content(p).items[n].name
      BY <3>2, <3>5
    <3>7. t.package = Content(p).package /\ t.name = Content(p).items[n].name
      BY <1>8, <3>6, TypeOfNames
    <3> QED
      BY <3>1, <3>7 DEF Declares
  <2>2. CASE cursor[1] = 0
    <3>1. Gathering = main
      BY <2>2 DEF Gathering
    <3>2. main # Null
      BY <1>8, <3>1 DEF Null
    <3> QED
      BY <1>6, <2>1, <3>1, <3>2 DEF HasSource
  <2>3. CASE cursor[1] # 0
    <3> DEFINE x == imports[cursor[1]]
    <3>1. Gathering = x.document
      BY <2>3 DEF Gathering
    <3>2. x \in ToSet(imports)
      <4>1. IsSeq(imports) /\ cursor[1] \in Nat
        BY <1>0 DEF DocsInv, CursorInv
      <4> QED
        BY <1>1, <2>3, <4>1, IsSeqOf DEF ToSet
    <3> HIDE DEF x
    <3>3. x.document # Null
      BY <1>8, <3>1 DEF Null
    <3>4. x.filename # <<>> /\ x.document = ItemsOf(x.filename)
      BY <1>6, <1>8, <3>2, <3>3 DEF HasFile
    <3>5. Declares(x.filename, t)
      BY <2>1, <3>1, <3>4
    <3> QED
      BY <3>2, <3>4, <3>5 DEF HasSource, FromImport
  <2> QED
    BY <2>2, <2>3
<1>9. SourcesInv'
  <2>1. found = {} => \A t \in ToSet(names) : IsDeclared(t) => HasSource(t)
    BY <1>0, <1>1 DEF SourcesInv, Gathered
  <2>2. ASSUME found' = {}, NEW t \in ToSet(names'), IsDeclared(t) PROVE HasSource(t)
    <3>1. CASE t \in ToSet(names)
      BY <1>5, <2>1, <2>2, <3>1
    <3>2. CASE t \notin ToSet(names)
      <4>1. cursor[2] \in DOMAIN Gathering /\ names' = GatherItem(names, Gathering[cursor[2]])
        BY <1>2, <2>2, <3>2
      <4>2. t.kind # "generated" /\ IsSeq(names)
        BY <1>0, <2>2 DEF IsDeclared, NamesInv, AllGood
      <4>3. t = TypeOf(Gathering[cursor[2]])
        BY <2>2, <3>2, <4>1, <4>2, GatherAdds
      <4> QED
        BY <1>5, <1>8, <2>2, <4>1, <4>3
    <3> QED
      BY <3>1, <3>2
  <2>3. found' = {} => \A t \in ToSet(names') : IsDeclared(t) => HasSource(t)'
    BY <1>1, <2>2, SourceStays
  <2> QED
    BY <1>1, <2>3 DEF SourcesInv, IsDeclared
<1> QED
  BY <1>3, <1>4, <1>7, <1>9 DEF SourceInv

(* preprocess_aidl: the next file.                                         *)
LEMMA PreprocessFileKeepsSourceInv == CompilerInv /\ SourceInv /\ PreprocessFile => SourceInv'
<1> SUFFICES ASSUME CompilerInv, SourceInv, PreprocessFile PROVE SourceInv'
  OBVIOUS
<1>0. /\ CommandsInv /\ FlatInv /\ OptionsInv /\ PreprocessInv /\ FilesInv /\ DocsInv
  BY DEF SourceInv, CompilerInv
<1> DEFINE from == options.filesToPreprocess
           k == cursor[1]
           f == from[k]
<1>1. /\ stage = "preprocess" /\ k <= Len(from)
      /\ document' = IF Content(f).is = "aidl" THEN ItemsOf(f) ELSE document
      /\ UNCHANGED <<commands, files, options>>
  BY DEF PreprocessFile
<1>2. \/ stage' = "end"
      \/ /\ ParseErrors(f) = {} /\ document' # <<>>
         /\ cursor' = <<k + 1, 1>> /\ main' = Append(main, document'[1])
         /\ stage' = "preprocess"
  BY DEF PreprocessFile, End, Null
<1>3. CommandsInv' /\ FlatInv' /\ OptionsInv'
  BY <1>0, <1>1 DEF CommandsInv, FlatInv, OptionsInv
<1>4. BuffersInv' /\ ParsedInv' /\ SourcesInv'
  BY <1>2 DEF BuffersInv, ParsedInv, SourcesInv, Gathered
<1>5. /\ IsSeq(from) /\ Len(from) \in Nat /\ k \in 1 .. Len(from) + 1
      /\ DOMAIN main = 1 .. k - 1
      /\ \A i \in DOMAIN main : main[i].package = Content(from[i]).package /\ main[i].name = Content(from[i]).items[1].name
  BY <1>0, <1>1, IsSeqOf DEF PreprocessInv
<1>6. PreprocessInv'
  <2>1. CASE stage' = "end"
    BY <2>1 DEF PreprocessInv
  <2>2. CASE /\ ParseErrors(f) = {} /\ document' # <<>>
             /\ cursor' = <<k + 1, 1>> /\ main' = Append(main, document'[1])
    <3> DEFINE item == document'[1]
    <3>1. Content(f).is = "aidl" /\ document' = ItemsOf(f)
      <4> HIDE DEF f
      <4> QED
        BY <1>1, <2>2 DEF ParseErrors
    <3>2. item.package = Content(f).package /\ item.name = Content(f).items[1].name
      <4> HIDE DEF f
      <4>1. IsDocument(Content(f).items) /\ IsSeq(ItemsOf(f))
        BY <1>0, <3>1, ContentTyped, ItemsTyped DEF IsDocument
      <4>2. 1 \in DOMAIN ItemsOf(f)
        <5> DEFINE d == ItemsOf(f)
        <5>1. d \in Seq(ToSet(d)) /\ DOMAIN d = 1 .. Len(d) /\ Len(d) \in Nat /\ d # <<>>
          BY <2>2, <3>1, <4>1, IsSeqOf DEF IsSeq
        <5> HIDE DEF d
        <5>2. Len(d) # 0
          BY <5>1, EmptySeq
        <5>3. 1 \in DOMAIN d
          BY <5>1, <5>2
        <5> QED
          BY <5>3 DEF d
      <4>3. 1 \in DOMAIN Content(f).items /\ ItemsOf(f)[1] = [Content(f).items[1] EXCEPT !.package = Content(f).package]
        BY <4>2 DEF ItemsOf
      <4>4. IsItem(Content(f).items[1])
        BY <4>1, <4>3 DEF IsDocument, ToSet
      <4> QED
        BY <3>1, <4>3, <4>4 DEF IsItem
    <3> HIDE DEF item, from
    <3>3. main \in Seq(ToSet(main)) /\ Len(main) = k - 1
      <4>1. IsSeq(main)
        BY <1>0 DEF DocsInv, IsDocument
      <4>2. DOMAIN main = 1 .. Len(main) /\ Len(main) \in Nat
        BY <4>1, IsSeqOf
      <4> QED
        BY <1>5, <4>1, <4>2 DEF IsSeq
    <3> DEFINE longer == Append(main, item)
    <3>4. main' = longer
      BY <2>2 DEF item
    <3>5. /\ DOMAIN longer = 1 .. Len(main) + 1
          /\ \A i \in 1 .. Len(main) : longer[i] = main[i]
          /\ longer[Len(main) + 1] = item
      <4> DEFINE S == ToSet(main) \cup {item}
      <4>1. main \in Seq(S) /\ item \in S
        BY <3>3, SeqMonotonic
      <4> HIDE DEF S
      <4>2. /\ longer \in Seq(S) /\ Len(longer) = Len(main) + 1
            /\ \A i \in 1 .. Len(main) : longer[i] = main[i]
            /\ longer[Len(main) + 1] = item
        BY <4>1, AppendProperties
      <4> HIDE DEF longer
      <4> QED
        BY <4>2
    <3> HIDE DEF longer
    <3>6. k \in Nat /\ k # 0 /\ Len(main) + 1 = k
      BY <1>5, <3>3
    <3>7. DOMAIN longer = 1 .. k /\ longer[k] = item /\ \A i \in 1 .. k : i # k => i \in DOMAIN main /\ longer[i] = main[i]
      <4>1. \A i \in 1 .. k : i # k => i \in 1 .. Len(main)
        BY <3>6
      <4>2. DOMAIN main = 1 .. Len(main)
        BY <1>5, <3>3
      <4> QED
        BY <3>5, <3>6, <4>1, <4>2
    <3>8. ASSUME NEW i \in DOMAIN main'
          PROVE  main'[i].package = Content(from[i]).package /\ main'[i].name = Content(from[i]).items[1].name
      <4>1. CASE i = k
        BY <3>2, <3>4, <3>7, <4>1
      <4>2. CASE i # k
        BY <1>5, <3>4, <3>7, <4>2
      <4> QED
        BY <4>1, <4>2
    <3>9. \A p : Content(p)' = Content(p)
      BY <1>1 DEF Content
    <3>10. options'.filesToPreprocess = from
      BY <1>1 DEF from
    <3>11. cursor'[1] = k + 1 /\ k + 1 \in 1 .. Len(from) + 1 /\ (k + 1) - 1 = k
      BY <1>1, <1>5, <2>2, <3>6
    <3>12. DOMAIN main' = 1 .. cursor'[1] - 1
      BY <3>4, <3>7, <3>11
    <3>13. \A i \in DOMAIN main' : /\ main'[i].package = Content(options.filesToPreprocess[i])'.package
                                   /\ main'[i].name = Content(options.filesToPreprocess[i])'.items[1].name
      BY <3>8, <3>9, <3>10
    <3> QED
      BY <1>5, <3>10, <3>11, <3>12, <3>13 DEF PreprocessInv
  <2> QED
    BY <1>2, <2>1, <2>2
<1> QED
  BY <1>3, <1>4, <1>6 DEF SourceInv

(* What is written is no aidl file.                                        *)
LEMMA WrittenKeepsFlatInv ==
  ASSUME FlatInv, NEW path, NEW content, files' = Written(path, content), content.is # "aidl"
  PROVE  FlatInv'
<1> SUFFICES ASSUME NEW p \in DOMAIN files', files'[p].is = "aidl", NEW i \in ToSet(files'[p].items), i.kind = "data"
             PROVE  "parcel" \in i.flat
  BY DEF FlatInv
<1>1. p \in DOMAIN files \cup {path} /\ files'[p] = IF p = path THEN content ELSE files[p]
  BY DEF Written
<1>2. p \in DOMAIN files /\ files'[p] = files[p]
  BY <1>1
<1> QED
  BY <1>2 DEF FlatInv

(* A step that writes a file is the last that needs to know what is in it. *)
LEMMA WritersKeepSourceInv == SourceInv /\ (WriteDepFile \/ GenerateJava \/ WritePreprocessed) => SourceInv'
<1> SUFFICES ASSUME SourceInv, WriteDepFile \/ GenerateJava \/ WritePreprocessed PROVE SourceInv'
  OBVIOUS
<1>0. CommandsInv /\ FlatInv /\ OptionsInv
  BY DEF SourceInv
<1>1. stage' \in {"java", "end"} /\ UNCHANGED <<commands, options>>
  <2>1. CASE WriteDepFile
    BY <2>1 DEF WriteDepFile, End
  <2>2. CASE GenerateJava
    BY <2>2 DEF GenerateJava, End
  <2>3. CASE WritePreprocessed
    BY <2>3 DEF WritePreprocessed, End
  <2> QED
    BY <2>1, <2>2, <2>3
<1>2. files' = files \/ \E path, content : files' = Written(path, content) /\ content.is # "aidl"
  <2>1. /\ \A ls : [Absent EXCEPT !.is = "dep", !.lines = ls].is # "aidl"
        /\ \A ls : [Absent EXCEPT !.is = "lines", !.lines = ls].is # "aidl"
        /\ Absent.is # "aidl" /\ \A whole : Java(whole).is # "aidl"
    BY DEF Absent, Java
  <2>2. CASE WriteDepFile
    <3>1. files' = files \/ \E ls : files' = Written(DepName, [Absent EXCEPT !.is = "dep", !.lines = ls])
      BY <2>2 DEF WriteDepFile
    <3> QED
      BY <2>1, <3>1
  <2>3. CASE GenerateJava
    <3>1. files' = files \/ \E whole : files' = Written(options.output, Java(whole))
      BY <2>3, Zenon DEF GenerateJava
    <3> QED
      BY <2>1, <3>1
  <2>4. CASE WritePreprocessed
    <3>1. \/ files' = files \/ files' = Written(options.output, Absent)
          \/ \E ls : files' = Written(options.output, [Absent EXCEPT !.is = "lines", !.lines = ls])
      BY <2>4 DEF WritePreprocessed
    <3> QED
      BY <2>1, <3>1
  <2> QED
    BY <2>2, <2>3, <2>4
<1>3. FlatInv'
  <2>1. CASE files' = files
    BY <1>0, <2>1 DEF FlatInv
  <2>2. CASE \E path, content : files' = Written(path, content) /\ content.is # "aidl"
    BY <1>0, <2>2, WrittenKeepsFlatInv
  <2> QED
    BY <1>2, <2>1, <2>2
<1>4. CommandsInv' /\ OptionsInv'
  BY <1>0, <1>1 DEF CommandsInv, OptionsInv
<1>5. PreprocessInv' /\ BuffersInv' /\ ParsedInv' /\ SourcesInv'
  BY <1>1 DEF PreprocessInv, BuffersInv, ParsedInv, SourcesInv, Gathered
<1> QED
  BY <1>3, <1>4, <1>5 DEF SourceInv

(* Every step of the compiler keeps it,                                    *)
LEMMA CompilerStepKeepsSourceInv == CompilerInv /\ SourceInv /\ CompilerStep => SourceInv'
BY StartKeepsSourceInv, ReadPreprocessedLineKeepsSourceInv, EndPreprocessedFileKeepsSourceInv, EndPreprocessedKeepsSourceInv,
   ParseMainKeepsSourceInv, ParseImportKeepsSourceInv, ChecksKeepSourceInv, GatherTypesKeepsSourceInv,
   NameOutputKeepsSourceInv, PreprocessFileKeepsSourceInv, WritersKeepSourceInv
DEF CompilerStep

(* and the others leave it.                                                *)
LEMMA SourceInvStays == SourceInv /\ UNCHANGED compilerVars => SourceInv'
<1> SUFFICES ASSUME SourceInv, UNCHANGED compilerVars PROVE SourceInv'
  OBVIOUS
<1>1. UNCHANGED <<commands, files, stage, options, found, names, main, imports, cursor, stale>>
  BY DEF compilerVars
<1>2. CommandsInv' /\ FlatInv' /\ OptionsInv'
  BY <1>1 DEF SourceInv, CommandsInv, FlatInv, OptionsInv
<1>3. PreprocessInv'
  BY <1>1 DEF SourceInv, PreprocessInv, Content
<1>4. BuffersInv'
  BY <1>1 DEF SourceInv, BuffersInv, LeftByLine, Content
<1>5. ParsedInv'
  <2>1. ItemsOf(options.input)' = ItemsOf(options.input)
    BY <1>1 DEF ItemsOf, Content
  <2>2. ASSUME NEW x, HasFile(x) PROVE HasFile(x)'
    BY <1>1, <2>2 DEF HasFile, ItemsOf, Content
  <2>3. ParsedInv
    BY DEF SourceInv
  <2>4. ASSUME stage' \in {"imports", "filenames"} \cup Gathered
        PROVE  /\ main' # Null => main' = ItemsOf(options.input)'
               /\ found' = {} => \A x \in ToSet(imports') : HasFile(x)'
    <3>1. /\ main # Null => main = ItemsOf(options.input)
          /\ found = {} => \A x \in ToSet(imports) : HasFile(x)
      BY <1>1, <2>3, <2>4 DEF ParsedInv
    <3> QED
      BY <1>1, <2>1, <2>2, <3>1
  <2> QED
    BY <2>4 DEF ParsedInv, HasFile
<1>6. SourcesInv'
  <2>1. \A t : (FromLine(t) => FromLine(t)') /\ (HasSource(t) => HasSource(t)')
    BY <1>1, LineStays, SourceStays
  <2> QED
    BY <1>1, <2>1 DEF SourceInv, SourcesInv, IsDeclared
<1> QED
  BY <1>2, <1>3, <1>4, <1>5, <1>6 DEF SourceInv

(* What the compiler has of lines, documents and types is what the files   *)
(* hold that it read, for any build.                                       *)
THEOREM SourceInvariant == Spec => []SourceInv
<1>1. Init => SourceInv
  BY InitSourceInv DEF Init
<1>2. CompilerInv /\ SourceInv /\ [Next]_vars => SourceInv'
  BY CompilerStepKeepsSourceInv, SourceInvStays, BinderLeavesCompiler DEF Next, Compile, Binder, vars
<1> QED
  BY <1>1, <1>2, CompilerInvariant, PTL DEF Spec

-----------------------------------------------------------------------------
(* What the compiler writes into a file, and reads out of one.             *)

(* The least of a set that has a number below all others of it.            *)
LEMMA LeastIs ==
  ASSUME NEW S, S \subseteq Nat, NEW m \in S, \A x \in S : m <= x
  PROVE  Min(S) = m
<1>1. \E x \in S : \A y \in S : x <= y
  OBVIOUS
<1>2. Min(S) \in S /\ \A y \in S : Min(S) <= y
  BY <1>1 DEF Min
<1>3. PICK x : x = Min(S)
  OBVIOUS
<1>4. x \in S /\ \A y \in S : x <= y
  BY <1>2, <1>3
<1>5. x \in Nat /\ m \in Nat /\ x <= m /\ m <= x
  BY <1>4
<1>6. x = m
  BY <1>5
<1> QED
  BY <1>3, <1>6

(* Both parts of a joined sequence are in it.                              *)
LEMMA JoinedHas ==
  ASSUME NEW s, NEW t, IsSeq(s), IsSeq(t)
  PROVE  ToSet(s) \subseteq ToSet(s \o t) /\ ToSet(t) \subseteq ToSet(s \o t)
<1> DEFINE S == ToSet(s) \cup ToSet(t)
           u == s \o t
<1>1. s \in Seq(S) /\ t \in Seq(S)
  BY IsSeqOf
<1> HIDE DEF S
<1>2. /\ u \in Seq(S) /\ Len(u) = Len(s) + Len(t) /\ Len(s) \in Nat /\ Len(t) \in Nat
      /\ \A i \in 1 .. Len(s) : u[i] = s[i]
      /\ \A i \in 1 .. Len(t) : u[Len(s) + i] = t[i]
  BY <1>1, ConcatProperties
<1> HIDE DEF u
<1>3. DOMAIN u = 1 .. Len(s) + Len(t) /\ DOMAIN s = 1 .. Len(s) /\ DOMAIN t = 1 .. Len(t)
  BY <1>1, <1>2
<1>4. ASSUME NEW x \in ToSet(s) PROVE x \in ToSet(u)
  <2>1. PICK i \in 1 .. Len(s) : x = s[i]
    BY <1>3 DEF ToSet
  <2>2. i \in DOMAIN u /\ u[i] = x
    BY <1>2, <1>3, <2>1
  <2> QED
    BY <2>2 DEF ToSet
<1>5. ASSUME NEW x \in ToSet(t) PROVE x \in ToSet(u)
  <2>1. PICK i \in 1 .. Len(t) : x = t[i]
    BY <1>3 DEF ToSet
  <2>2. Len(s) + i \in DOMAIN u /\ u[Len(s) + i] = x
    BY <1>2, <1>3, <2>1
  <2> QED
    BY <2>2 DEF ToSet
<1> QED
  BY <1>4, <1>5 DEF u

(* So are all of a sequence of sequences that is flattened.                *)
LEMMA FlattenHas ==
  ASSUME NEW n \in Nat, NEW S, NEW seqs \in [1 .. n -> Seq(S)], NEW i \in 1 .. n
  PROVE  ToSet(seqs[i]) \subseteq ToSet(FlattenSeq(seqs)) /\ FlattenSeq(seqs) \in Seq(S)
<1>1. PICK rests \in [0 .. n -> Seq(S)] : FlattenSeq(seqs) = rests[0] /\ Splits(seqs, n, rests)
  BY FlattenSplits
<1>2. ASSUME NEW k \in 1 .. n
      PROVE  ToSet(seqs[k]) \subseteq ToSet(rests[k - 1]) /\ ToSet(rests[k]) \subseteq ToSet(rests[k - 1])
  <2>1. rests[k - 1] = seqs[k] \o rests[k]
    BY <1>1 DEF Splits
  <2>2. seqs[k] \in Seq(S) /\ rests[k] \in Seq(S)
    OBVIOUS
  <2> QED
    BY <2>1, <2>2, SeqIsSeq, JoinedHas
<1> DEFINE T == {k \in Nat : k <= n => ToSet(rests[k]) \subseteq ToSet(rests[0])}
<1>3. 0 \in T
  OBVIOUS
<1>4. ASSUME NEW k \in Nat, k \in T PROVE k + 1 \in T
  <2> SUFFICES ASSUME k + 1 <= n PROVE ToSet(rests[k + 1]) \subseteq ToSet(rests[0])
    OBVIOUS
  <2>1. k <= n /\ k + 1 \in 1 .. n /\ (k + 1) - 1 = k
    OBVIOUS
  <2>2. ToSet(rests[k]) \subseteq ToSet(rests[0])
    BY <1>4, <2>1
  <2>3. ToSet(rests[k + 1]) \subseteq ToSet(rests[(k + 1) - 1])
    BY <1>2, <2>1
  <2> QED
    BY <2>1, <2>2, <2>3
<1> HIDE DEF T
<1>5. Nat \subseteq T
  BY <1>3, <1>4, Induct
<1>6. i - 1 \in Nat /\ i - 1 <= n
  OBVIOUS
<1>7. ToSet(rests[i - 1]) \subseteq ToSet(rests[0])
  BY <1>5, <1>6 DEF T
<1>8. ToSet(seqs[i]) \subseteq ToSet(rests[i - 1])
  BY <1>2
<1>9. rests[0] \in Seq(S)
  OBVIOUS
<1> QED
  BY <1>1, <1>7, <1>8, <1>9

(* A type that is put behind a namespace without its name is found there.  *)
LEMMA FoundBehind ==
  ASSUME NEW known, AllGood(known), NEW t, NEW others, IsSeq(others), NEW ref, QualifiedName(t) = ref,
         FindName(known, ref) = NoType
  PROVE  FindName((known \o <<t>>) \o others, ref) = t
<1> DEFINE n == Len(known)
           first == known \o <<t>>
           new == first \o others
           S0 == {i \in DOMAIN known : known[i].name = ref.name /\ QualifiedName(known[i]) = ref}
           S == {i \in DOMAIN new : new[i].name = ref.name /\ QualifiedName(new[i]) = ref}
<1>1. IsSeq(known) /\ DOMAIN known = 1 .. n /\ n \in Nat
  BY IsSeqOf DEF AllGood
<1>2. S0 = {}
  <2> SUFFICES ASSUME S0 # {} PROVE FALSE
    OBVIOUS
  <2>1. S0 \subseteq Nat
    BY <1>1
  <2>2. Min(S0) \in DOMAIN known
    <3> HIDE DEF n
    <3>1. S0 \subseteq DOMAIN known
      OBVIOUS
    <3> HIDE DEF S0
    <3> QED
      BY <2>1, <3>1, MinIsThere
  <2>3. FindName(known, ref) = known[Min(S0)]
    BY DEF FindName, FirstAt
  <2>4. Good(known[Min(S0)])
    BY <2>2 DEF AllGood, ToSet
  <2> HIDE DEF S0
  <2>5. NoType.kind = "none"
    BY DEF NoType, Type
  <2>6. NoType.kind \in Kinds4
    BY <2>3, <2>4 DEF Good
  <2> QED
    BY <2>5, <2>6 DEF Kinds4
<1>3. /\ IsSeq(first) /\ Len(first) = n + 1
      /\ \A i \in 1 .. n : first[i] = known[i]
      /\ first[n + 1] = t
  <2> DEFINE A == ToSet(known) \cup {t}
  <2>1. known \in Seq(A) /\ <<t>> \in Seq(A)
    BY <1>1, IsSeqOf
  <2> HIDE DEF A
  <2>2. /\ first \in Seq(A) /\ Len(first) = n + Len(<<t>>)
        /\ \A i \in 1 .. n : first[i] = known[i]
        /\ \A i \in 1 .. Len(<<t>>) : first[n + i] = <<t>>[i]
    BY <2>1, ConcatProperties
  <2>3. Len(<<t>>) = 1 /\ <<t>>[1] = t
    OBVIOUS
  <2>4. 1 \in 1 .. Len(<<t>>)
    BY <2>3
  <2> HIDE DEF first, n
  <2> QED
    BY <2>2, <2>3, <2>4, SeqIsSeq
<1> HIDE DEF first, n
<1>4. /\ IsSeq(new) /\ DOMAIN new = 1 .. Len(new) /\ Len(new) \in Nat /\ Len(new) >= n + 1
      /\ \A i \in 1 .. n + 1 : new[i] = first[i]
  <2> DEFINE A == ToSet(first) \cup ToSet(others)
  <2>1. first \in Seq(A) /\ others \in Seq(A)
    BY <1>3, IsSeqOf
  <2> HIDE DEF A
  <2>2. /\ new \in Seq(A) /\ Len(new) = Len(first) + Len(others) /\ Len(others) \in Nat
        /\ \A i \in 1 .. Len(first) : new[i] = first[i]
    BY <2>1, ConcatProperties
  <2> HIDE DEF new
  <2> QED
    BY <1>1, <1>3, <2>2, SeqIsSeq
<1> HIDE DEF new
<1>5. S \subseteq Nat /\ n + 1 \in S
  <2>1. new[n + 1] = t /\ n + 1 \in DOMAIN new
    BY <1>1, <1>3, <1>4
  <2>2. t.name = ref.name
    BY DEF QualifiedName, Ref
  <2>3. S \subseteq Nat
    BY <1>4
  <2> QED
    BY <2>1, <2>2, <2>3
<1>6. ASSUME NEW i \in S PROVE n + 1 <= i
  <2> SUFFICES ASSUME ~(n + 1 <= i) PROVE FALSE
    OBVIOUS
  <2>1. i \in 1 .. n /\ i \in 1 .. n + 1
    BY <1>1, <1>4
  <2>2. new[i] = known[i]
    BY <1>3, <1>4, <2>1
  <2>3. i \in S0
    BY <1>1, <2>1, <2>2
  <2> QED
    BY <1>2, <2>3
<1> HIDE DEF S
<1>7. Min(S) = n + 1
  BY <1>5, <1>6, LeastIs
<1>8. FindName(new, ref) = new[n + 1]
  BY <1>5, <1>7 DEF FindName, FirstAt, S
<1>9. new[n + 1] = t
  BY <1>1, <1>3, <1>4
<1> QED
  BY <1>8, <1>9 DEF new, first

(* The type of a class that can be written to an RpcData,                  *)
LEMMA DataFields ==
  ASSUME NEW p, NEW n, NEW x \in BOOLEAN, NEW t, t = UserDataType(p, n, FALSE, x, TRUE)
  PROVE  t.kind = "userdata" /\ t.canWriteToRpcData = TRUE
BY DEF UserDataType, Type

(* and of one that can be written to a parcel only.                        *)
LEMMA ParcelFields ==
  ASSUME NEW p, NEW n, NEW t, t = UserDataType(p, n, FALSE, TRUE, FALSE)
  PROVE  t.kind = "userdata" /\ t.canWriteToRpcData = FALSE /\ t.canWriteToParcel = TRUE
BY DEF UserDataType, Type

(* The line that is written for an item declares a type like its own.      *)
LEMMA LineIsAlike ==
  ASSUME NEW item, item.kind \in {"data", "interface", "rpc"}, item.kind = "data" => "parcel" \in item.flat
  PROVE  SameType(TypeOf(Declared(PreprocessLine(item))), TypeOf(item))
<1> DEFINE line == PreprocessLine(item)
           d == Declared(line)
           t == TypeOf(d)
           s == TypeOf(item)
<1>1. CASE item.kind # "data"
  <2>1. line.type = "interface"
    BY <1>1 DEF PreprocessLine
  <2> HIDE DEF line
  <2>2. d.kind = "interface"
    BY <2>1 DEF Declared, NoItem
  <2> HIDE DEF d
  <2>3. t = InterfaceType(d.package, d.name, d.oneway) /\ s = InterfaceType(item.package, item.name, item.oneway)
    BY <1>1, <2>2 DEF TypeOf
  <2>4. \A p, n, o : /\ InterfaceType(p, n, o).kind = "interface" /\ InterfaceType(p, n, o).canWriteToParcel = TRUE
                     /\ InterfaceType(p, n, o).canWriteToRpcData = FALSE
    BY DEF InterfaceType, Type
  <2>5. /\ t.kind = "interface" /\ s.kind = "interface" /\ t.canWriteToParcel = TRUE /\ s.canWriteToParcel = TRUE
        /\ t.canWriteToRpcData = FALSE /\ s.canWriteToRpcData = FALSE
    BY <2>3, <2>4
  <2> HIDE DEF t, s
  <2>6. SameType(t, s)
    BY <2>5, Zenon DEF SameType
  <2> QED
    BY <2>6 DEF t, s, d, line
<1>2. CASE item.kind = "data" /\ "rpc" \in item.flat
  <2>1. line.type = "flattenable"
    BY <1>2 DEF PreprocessLine
  <2> HIDE DEF line
  <2>2. d.kind = "data" /\ d.flat = {"rpc"}
    BY <2>1 DEF Declared, NoItem
  <2> HIDE DEF d
  <2>3. t = UserDataType(d.package, d.name, FALSE, "parcel" \in d.flat, "rpc" \in d.flat)
    BY <2>2, Zenon DEF TypeOf
  <2>4. s = UserDataType(item.package, item.name, FALSE, "parcel" \in item.flat, "rpc" \in item.flat)
    BY <1>2, Zenon DEF TypeOf
  <2>5. t = UserDataType(d.package, d.name, FALSE, FALSE, TRUE)
    <3>1. ("parcel" \in d.flat) = FALSE /\ ("rpc" \in d.flat) = TRUE
      BY <2>2
    <3> HIDE DEF t
    <3> QED
      BY <2>3, <3>1
  <2>6. s = UserDataType(item.package, item.name, FALSE, TRUE, TRUE)
    <3>1. ("parcel" \in item.flat) = TRUE /\ ("rpc" \in item.flat) = TRUE
      BY <1>2
    <3> HIDE DEF s
    <3> QED
      BY <2>4, <3>1
  <2> HIDE DEF t, s
  <2>7. t.kind = "userdata" /\ s.kind = "userdata" /\ t.canWriteToRpcData = TRUE /\ s.canWriteToRpcData = TRUE
    BY <2>5, <2>6, DataFields
  <2>8. SameType(t, s)
    BY <2>7, Zenon DEF SameType
  <2> QED
    BY <2>8 DEF t, s, d, line
<1>3. CASE item.kind = "data" /\ "rpc" \notin item.flat
  <2>1. line.type = "parcelable"
    BY <1>3 DEF PreprocessLine
  <2> HIDE DEF line
  <2>2. d.kind = "data" /\ d.flat = {"parcel"}
    BY <2>1 DEF Declared, NoItem
  <2> HIDE DEF d
  <2>3. t = UserDataType(d.package, d.name, FALSE, "parcel" \in d.flat, "rpc" \in d.flat)
    BY <2>2, Zenon DEF TypeOf
  <2>4. s = UserDataType(item.package, item.name, FALSE, "parcel" \in item.flat, "rpc" \in item.flat)
    BY <1>3, Zenon DEF TypeOf
  <2>5. t = UserDataType(d.package, d.name, FALSE, TRUE, FALSE)
    <3>1. ("parcel" \in d.flat) = TRUE /\ ("rpc" \in d.flat) = FALSE
      BY <2>2
    <3> HIDE DEF t
    <3> QED
      BY <2>3, <3>1
  <2>6. s = UserDataType(item.package, item.name, FALSE, TRUE, FALSE)
    <3>1. ("parcel" \in item.flat) = TRUE /\ ("rpc" \in item.flat) = FALSE
      BY <1>3
    <3> HIDE DEF s
    <3> QED
      BY <2>4, <3>1
  <2> HIDE DEF t, s
  <2>7. /\ t.kind = "userdata" /\ s.kind = "userdata" /\ t.canWriteToRpcData = FALSE /\ s.canWriteToRpcData = FALSE
        /\ t.canWriteToParcel = TRUE /\ s.canWriteToParcel = TRUE
    BY <2>5, <2>6, ParcelFields
  <2>8. SameType(t, s)
    BY <2>7, Zenon DEF SameType
  <2> QED
    BY <2>8 DEF t, s, d, line
<1> QED
  BY <1>1, <1>2, <1>3

(* The steps that write a file.                                            *)
LEMMA FileWriters ==
  ASSUME [Next]_vars, files' # files
  PROVE  WriteDepFile \/ GenerateJava \/ WritePreprocessed
<1>1. CompilerStep
  <2>1. ~(UNCHANGED compilerVars)
    BY DEF compilerVars
  <2> QED
    BY <2>1, BinderLeavesCompiler DEF Next, Compile, Binder, vars
<1> QED
  BY <1>1 DEF CompilerStep, Start, ReadPreprocessedLine, EndPreprocessedFile, EndPreprocessed, ParseMain, ParseImport, EndImports,
     CheckFilenames, GatherTypes, EndGathering, CheckTypes, ExactlyOneInterface, AssignMethodIds, NameOutput, PreprocessFile

(* preprocess_aidl leaves a file that names what each of its files         *)
(* declares, or none.                                                      *)
LEMMA OutputIsWhole ==
  ASSUME CompilerInv, SourceInv, [Next]_vars
  PROVE  WritesWhole
<1> SUFFICES ASSUME stage = "preprocess", files' # files
             PROVE  WritesWhole
  BY DEF WritesWhole
<1> DEFINE from == options.filesToPreprocess
           output == files'[options.output]
           ls == [i \in DOMAIN main |-> PreprocessLine(main[i])]
           content == [Absent EXCEPT !.is = "lines", !.lines = ls]
<1>1. WritePreprocessed
  <2>1. WriteDepFile \/ GenerateJava \/ WritePreprocessed
    BY FileWriters
  <2> QED
    BY <2>1 DEF WriteDepFile, GenerateJava
<1>2. /\ cursor[1] > Len(from)
      /\ \/ files' = Written(options.output, content) /\ result' = "0"
         \/ files' = Written(options.output, Absent)
  BY <1>1 DEF WritePreprocessed, End
<1>3. DOMAIN main = DOMAIN from
  <2>1. IsSeq(from) /\ cursor[1] \in 1 .. Len(from) + 1 /\ DOMAIN main = 1 .. cursor[1] - 1
    BY DEF SourceInv, PreprocessInv
  <2>2. DOMAIN from = 1 .. Len(from) /\ Len(from) \in Nat
    BY <2>1, IsSeqOf
  <2> HIDE DEF from
  <2>3. cursor[1] - 1 = Len(from)
    BY <1>2, <2>1, <2>2
  <2> QED
    BY <2>1, <2>2, <2>3
<1>4. /\ content.is = "lines" /\ content.lines = ls /\ Absent.is = "absent"
  BY DEF Absent
<1> HIDE DEF content
<1>5. \A p \in DOMAIN files \ {options.output} : files'[p] = files[p]
  BY <1>2 DEF Written
<1>6. ASSUME output.is # "absent"
      PROVE  result' = "0" /\ output = content
  <2>1. output \in {content, Absent} /\ (files' = Written(options.output, Absent) => output = Absent)
        /\ (files' = Written(options.output, content) => output = content)
    BY <1>2 DEF Written
  <2> QED
    BY <1>2, <1>4, <1>6, <2>1
<1>7. ASSUME output.is # "absent", NEW i \in DOMAIN from
      PROVE  /\ output.lines[i].package = Content(from[i]).package
             /\ output.lines[i].name = Content(from[i]).items[1].name
  <2>1. output.lines = ls
    BY <1>4, <1>6, <1>7
  <2> HIDE DEF output, from
  <2>2. i \in DOMAIN main
    BY <1>3
  <2>3. output.lines[i] = PreprocessLine(main[i])
    BY <2>1, <2>2
  <2>4. main[i].package = Content(from[i]).package /\ main[i].name = Content(from[i]).items[1].name
    BY <2>2 DEF SourceInv, PreprocessInv, from
  <2> QED
    BY <2>3, <2>4 DEF PreprocessLine
<1>8. output.is # "absent" => DOMAIN output.lines = DOMAIN from
  <2>1. DOMAIN ls = DOMAIN main
    OBVIOUS
  <2> QED
    BY <1>3, <1>4, <1>6, <2>1
<1> HIDE DEF output, from
<1> QED
  BY <1>5, <1>6, <1>7, <1>8 DEF WritesWhole, output, from

(* What a file declares first.                                             *)
LEMMA FirstDeclaration ==
  ASSUME CompilerInv, SourceInv, NEW p \in DOMAIN files, files[p].is = "aidl", files[p].items # <<>>
  PROVE  /\ ItemsOf(p)[1].kind \in {"data", "interface", "rpc"}
         /\ ItemsOf(p)[1].kind = "data" => "parcel" \in ItemsOf(p)[1].flat
<1> DEFINE items == files[p].items
<1>1. Content(p) = files[p]
  BY DEF Content
<1>2. IsDocument(items) /\ items # <<>>
  BY DEF CompilerInv, FilesInv
<1>3. items \in Seq(ToSet(items)) /\ DOMAIN items = 1 .. Len(items) /\ Len(items) \in Nat
  BY <1>2, IsSeqOf DEF IsDocument
<1> HIDE DEF items
<1>4. 1 \in DOMAIN items
  <2>1. Len(items) # 0
    BY <1>2, <1>3, EmptySeq
  <2> QED
    BY <1>3, <2>1
<1>5. items[1] \in ToSet(items) /\ IsItem(items[1])
  BY <1>2, <1>4 DEF ToSet, IsDocument
<1>6. items[1].kind = "data" => "parcel" \in items[1].flat
  BY <1>5 DEF SourceInv, FlatInv, items
<1>7. PICK item : item = ItemsOf(p)[1]
  OBVIOUS
<1>8. item = [items[1] EXCEPT !.package = Content(p).package]
  BY <1>1, <1>4, <1>7 DEF ItemsOf, items
<1>9. item.kind = items[1].kind /\ item.flat = items[1].flat
  BY <1>5, <1>8 DEF IsItem
<1>10. item.kind \in {"data", "interface", "rpc"} /\ (item.kind = "data" => "parcel" \in item.flat)
  BY <1>5, <1>6, <1>9 DEF IsItem
<1> QED
  BY <1>7, <1>10

(* A line that was written for an item is read as a type like the item's.  *)
LEMMA LinesKeepTypes ==
  ASSUME CompilerInv, SourceInv, [Next]_vars
  PROVE  LineKeepsType
<1> SUFFICES ASSUME stage = "preprocessed", names' # names
             PROVE  LineKeepsType
  BY DEF LineKeepsType
<1>1. ReadPreprocessedLine
  <2>1. CompilerStep
    <3>1. ~(UNCHANGED compilerVars)
      BY DEF compilerVars
    <3> QED
      BY <3>1, BinderLeavesCompiler DEF Next, Compile, Binder, vars
  <2> QED
    BY <2>1 DEF CompilerStep, Start, EndPreprocessedFile, EndPreprocessed, ParseMain, ParseImport, EndImports,
       CheckFilenames, GatherTypes, EndGathering, CheckTypes, ExactlyOneInterface, AssignMethodIds, NameOutput, WriteDepFile,
       GenerateJava, PreprocessFile, WritePreprocessed
<1> DEFINE f == options.preprocessedFiles[cursor[1]]
           l == Content(f).lines[cursor[2]]
           line == IF l.type = "none" THEN stale ELSE l
<1>2. names' = GatherItem(names, Declared(line))
  BY <1>1 DEF ReadPreprocessedLine
<1> HIDE DEF f, l
<1>3. ASSUME NEW p \in DOMAIN files, files[p].is = "aidl", files[p].items # <<>>, l = PreprocessLine(ItemsOf(p)[1])
      PROVE  SameType(FindName(names', Ref(l.package, l.name, <<>>)), TypeOf(ItemsOf(p)[1]))
  <2> DEFINE item == ItemsOf(p)[1]
             d == Declared(l)
             ref == Ref(l.package, l.name, <<>>)
  <2>1. item.kind \in {"data", "interface", "rpc"} /\ (item.kind = "data" => "parcel" \in item.flat)
    BY <1>3, FirstDeclaration
  <2> HIDE DEF item
  <2>2. SameType(TypeOf(d), TypeOf(item))
    BY <1>3, <2>1, LineIsAlike DEF item
  <2>3. line = l
    <3>1. l.type # "none"
      BY <1>3 DEF PreprocessLine
    <3> QED
      BY <3>1
  <2>4. d.package = l.package /\ d.name = l.name
    BY DEF Declared, NoItem
  <2> HIDE DEF line, d
  <2>5. ItemName(d) = ref
    BY <2>4 DEF ItemName
  <2>6. QualifiedName(TypeOf(d)) = ref
    BY <2>4, TypeOfNames DEF QualifiedName
  <2> HIDE DEF ref
  <2>7. names' = GatherItem(names, d)
    BY <1>2, <2>3 DEF d
  <2>8. /\ FindName(names, ref) = NoType
        /\ \E others : IsSeq(others) /\ names' = (names \o <<TypeOf(d)>>) \o others
    <3>1. FindName(names, ref) = NoType
      BY <2>5, <2>7 DEF GatherItem
    <3> DEFINE others == CASE d.kind = "interface" -> Added(names, Beside(d, ".Stub")) \o Added(names, Beside(d, ".Stub.Proxy"))
                           [] d.kind = "rpc" -> Added(names, Beside(d, ".ServiceBase"))
                           [] OTHER -> <<>>
    <3>2. names' = (names \o <<TypeOf(d)>>) \o others
      BY <2>5, <2>7, <3>1 DEF GatherItem
    <3>3. \A x : IsSeq(Added(names, x))
      BY SmallSeqs DEF Added
    <3>4. IsSeq(Added(names, Beside(d, ".Stub")) \o Added(names, Beside(d, ".Stub.Proxy")))
      BY <3>3, Joined
    <3>5. IsSeq(others)
      BY <3>3, <3>4, SmallSeqs
    <3> HIDE DEF others
    <3> QED
      BY <3>1, <3>2, <3>5
  <2>9. FindName(names', ref) = TypeOf(d)
    <3>1. PICK others : IsSeq(others) /\ names' = (names \o <<TypeOf(d)>>) \o others
      BY <2>8
    <3>2. AllGood(names)
      BY DEF CompilerInv, NamesInv
    <3> DEFINE t == TypeOf(d)
    <3>3. FindName((names \o <<t>>) \o others, ref) = t
      <4> HIDE DEF t
      <4>1. QualifiedName(t) = ref
        BY <2>6 DEF t
      <4> QED
        BY <2>8, <3>1, <3>2, <4>1, FoundBehind
    <3> QED
      BY <3>1, <3>3
  <2> QED
    BY <2>2, <2>9 DEF ref, item
<1> QED
  BY <1>3 DEF LineKeepsType, l, f

(* The prerequisites are the input and each file that was imported.        *)
LEMMA PrerequisitesHave ==
  ASSUME IsSeq(imports)
  PROVE  /\ options.input \in ToSet(Prerequisites)
         /\ \A x \in ToSet(imports) : x.filename # <<>> => x.filename \in ToSet(Prerequisites)
<1> DEFINE n == Len(imports)
           S == {imports[i].filename : i \in 1 .. n}
           seqs == [i \in DOMAIN imports |-> ImportedFrom(imports[i])]
           input == <<options.input>>
<1>1. DOMAIN imports = 1 .. n /\ n \in Nat
  BY IsSeqOf
<1> HIDE DEF n
<1>2. ASSUME NEW i \in 1 .. n PROVE ImportedFrom(imports[i]) \in Seq(S)
  <2> DEFINE name == imports[i].filename
  <2>1. name \in S
    OBVIOUS
  <2>2. ImportedFrom(imports[i]) = <<>> \/ ImportedFrom(imports[i]) = <<name>>
    BY DEF ImportedFrom
  <2> HIDE DEF S, name
  <2>3. <<>> \in Seq(S) /\ <<name>> \in Seq(S)
    BY <2>1
  <2> QED
    BY <2>2, <2>3
<1>3. seqs \in [1 .. n -> Seq(S)]
  <2> HIDE DEF S
  <2> QED
    BY <1>1, <1>2
<1> HIDE DEF S
<1>4. ToSet(input) = {options.input} /\ IsSeq(input)
  BY SmallSeqs
<1>5. IsSeq(FlattenSeq(seqs))
  <2> HIDE DEF seqs
  <2>1. CASE n = 0
    <3>1. Len(seqs) = 0
      BY <1>3, <2>1
    <3>2. FlattenSeq(seqs) = <<>>
      BY <3>1 DEF FlattenSeq
    <3> QED
      BY <3>2, SmallSeqs
  <2>2. CASE n # 0
    <3>1. 1 \in 1 .. n
      BY <1>1, <2>2
    <3>2. FlattenSeq(seqs) \in Seq(S)
      BY <1>1, <1>3, <3>1, FlattenHas
    <3> QED
      BY <3>2, SeqIsSeq
  <2> QED
    BY <2>1, <2>2
<1> DEFINE flat == FlattenSeq(seqs)
<1>6. Prerequisites = input \o flat
  BY DEF Prerequisites
<1>7. ASSUME NEW x \in ToSet(imports), x.filename # <<>> PROVE x.filename \in ToSet(flat)
  <2>1. PICK i \in 1 .. n : x = imports[i]
    BY <1>1 DEF ToSet
  <2>2. seqs[i] = <<x.filename>>
    BY <1>1, <1>7, <2>1 DEF ImportedFrom
  <2> HIDE DEF seqs
  <2>3. ToSet(seqs[i]) \subseteq ToSet(flat)
    BY <1>1, <1>3, FlattenHas
  <2>4. ToSet(seqs[i]) = {x.filename}
    BY <2>2, SmallSeqs
  <2> QED
    BY <2>3, <2>4
<1> HIDE DEF flat, input, seqs
<1>8. ToSet(input) \subseteq ToSet(input \o flat) /\ ToSet(flat) \subseteq ToSet(input \o flat)
  BY <1>4, <1>5, JoinedHas DEF flat
<1> QED
  BY <1>4, <1>6, <1>7, <1>8

(* A type that is found is one of those that are known.                    *)
LEMMA FoundIsKnown ==
  ASSUME NEW known, AllGood(known), NEW ref
  PROVE  SearchPlain(known, ref) = NoType \/ SearchPlain(known, ref) \in ToSet(known)
<1>1. ASSUME NEW S, S \subseteq DOMAIN known
      PROVE  FirstAt(known, S) = NoType \/ FirstAt(known, S) \in ToSet(known)
  <2>1. DOMAIN known = 1 .. Len(known)
    BY IsSeqOf DEF AllGood
  <2>2. S \subseteq Nat
    BY <1>1, <2>1
  <2>3. CASE S # {}
    <3>1. Min(S) \in DOMAIN known
      BY <1>1, <2>2, <2>3, MinIsThere
    <3>2. known[Min(S)] \in ToSet(known)
      BY <3>1 DEF ToSet
    <3> QED
      BY <2>3, <3>2 DEF FirstAt
  <2>4. CASE S = {}
    BY <2>4 DEF FirstAt
  <2> QED
    BY <2>3, <2>4
<1> DEFINE S1 == {i \in DOMAIN known : known[i].name = ref.name /\ QualifiedName(known[i]) = ref}
           S2 == {i \in DOMAIN known : known[i].name = ref.name /\ ref.package = "none" /\ ref.args = <<>>}
<1>2. S1 \subseteq DOMAIN known /\ S2 \subseteq DOMAIN known
  OBVIOUS
<1>3. SearchPlain(known, ref) \in {FirstAt(known, S1), FirstAt(known, S2)}
  BY DEF SearchPlain, FindName
<1> HIDE DEF S1, S2
<1> QED
  BY <1>1, <1>2, <1>3

(* The dependency file names where each type comes from.                   *)
LEMMA DepsAreNamed ==
  ASSUME CompilerInv, SourceInv, [Next]_vars
  PROVE  DepNamesSources
<1> SUFFICES ASSUME stage = "dep", files' # files, NEW r \in Used,
                    SearchPlain(names, r).kind \in {"userdata", "interface"}
             PROVE  \/ FromLine(SearchPlain(names, r))
                    \/ \E p \in ToSet(files'[DepName].lines) : Declares(p, SearchPlain(names, r))
  BY DEF DepNamesSources
<1> DEFINE t == SearchPlain(names, r)
           content == [Absent EXCEPT !.is = "dep", !.lines = Prerequisites]
<1>1. WriteDepFile
  <2>1. WriteDepFile \/ GenerateJava \/ WritePreprocessed
    BY FileWriters
  <2> QED
    BY <2>1 DEF WritePreprocessed, GenerateJava
<1>2. files' = Written(DepName, content)
  BY <1>1 DEF WriteDepFile
<1>3. content.lines = Prerequisites
  BY DEF Absent
<1> HIDE DEF content
<1>4. files'[DepName].lines = Prerequisites
  BY <1>2, <1>3 DEF Written
<1>5. t \in ToSet(names)
  <2>1. AllGood(names)
    BY DEF CompilerInv, NamesInv
  <2>2. t # NoType
    BY DEF NoType, Type
  <2> QED
    BY <2>1, <2>2, FoundIsKnown
<1>6. HasSource(t)
  <2>1. found = {}
    BY DEF CompilerInv, StageInv
  <2>2. stage \in Gathered
    BY DEF Gathered
  <2>3. IsDeclared(t)
    BY DEF IsDeclared
  <2>4. SourcesInv
    BY DEF SourceInv
  <2> HIDE DEF t
  <2> QED
    BY <1>5, <2>1, <2>2, <2>3, <2>4 DEF SourcesInv
<1> HIDE DEF t
<1>7. IsSeq(imports)
  BY DEF CompilerInv, DocsInv
<1>8. FromLine(t) \/ \E p \in ToSet(Prerequisites) : Declares(p, t)
  <2>1. CASE FromLine(t)
    BY <2>1
  <2>2. CASE Declares(options.input, t)
    BY <1>7, <2>2, PrerequisitesHave
  <2>3. CASE FromImport(t)
    <3>1. PICK x \in ToSet(imports) : x.filename # <<>> /\ Declares(x.filename, t)
      BY <2>3 DEF FromImport
    <3> QED
      BY <1>7, <3>1, PrerequisitesHave
  <2> QED
    BY <1>6, <2>1, <2>2, <2>3 DEF HasSource
<1> QED
  BY <1>4, <1>8 DEF t

(* For any build: what preprocess_aidl writes is whole, what a line that   *)
(* it wrote declares is what the item declares, and what generate_dep_file *)
(* writes names the source of every type that the interface uses.          *)
THEOREM FilesAreWritten == Spec => FilesWritten
<1>1. CompilerInv /\ SourceInv /\ [Next]_vars => [WritesWhole /\ LineKeepsType /\ DepNamesSources]_vars
  BY OutputIsWhole, LinesKeepTypes, DepsAreNamed
<1> QED
  BY <1>1, CompilerInvariant, SourceInvariant, PTL DEF Spec, FilesWritten

-----------------------------------------------------------------------------
(* What is in the files when a pass is over, or was read out of them.      *)

(* A name has a type.                                                      *)
Known(known, ref) == \E t \in ToSet(known) : QualifiedName(t) = ref
RefOf(l) == Ref(l.package, l.name, <<>>)

(* A pass does what its options say.                                       *)
CompileStages == {"preprocessed", "main", "imports", "filenames"} \cup Gathered \cup {"java"}
TaskInv ==
  /\ stage = "preprocess" => options.task = "preprocess"
  /\ stage \in CompileStages => options.task = "compile"

(* What the preprocessed files have declared so far is what a line of them *)
(* declares, and every line that was read has a type, unless an error      *)
(* ended a file.                                                           *)
IsBefore(i, j) == stage = "main" \/ i < cursor[1] \/ (i = cursor[1] /\ j \in 1 .. cursor[2] - 1)
LinesInv ==
  stage \in {"preprocessed", "main"} =>
    /\ \A t \in ToSet(names) : IsDeclared(t) => \E line \in ReadLines : t = TypeOf(Declared(line))
    /\ stage = "main" => ~err
    /\ ~err => \A i \in DOMAIN options.preprocessedFiles :
                 LET f == options.preprocessedFiles[i]
                 IN /\ IsBefore(i, 0) => Content(f).is = "lines"
                    /\ Content(f).is = "lines" =>
                         \A l \in DOMAIN Content(f).lines :
                           IsBefore(i, l) /\ Content(f).lines[l].type \in LineTypes => Known(names, RefOf(Content(f).lines[l]))

AgreeInv == TaskInv /\ LinesInv /\ PreprocessedWhole /\ DepsComplete

(* What is found by a name has the name.                                   *)
LEMMA FoundHasName ==
  ASSUME NEW known, AllGood(known), NEW ref
  PROVE  /\ FindName(known, ref) # NoType => FindName(known, ref) \in ToSet(known) /\ QualifiedName(FindName(known, ref)) = ref
         /\ Known(known, ref) => FindName(known, ref) # NoType
<1> DEFINE S == {i \in DOMAIN known : known[i].name = ref.name /\ QualifiedName(known[i]) = ref}
<1>1. DOMAIN known = 1 .. Len(known)
  BY IsSeqOf DEF AllGood
<1>2. S \subseteq Nat
  BY <1>1
<1>3. FindName(known, ref) = IF S = {} THEN NoType ELSE known[Min(S)]
  BY DEF FindName, FirstAt
<1>4. ASSUME S # {}
      PROVE  known[Min(S)] \in ToSet(known) /\ QualifiedName(known[Min(S)]) = ref /\ known[Min(S)] # NoType
  <2> HIDE DEF S
  <2>1. Min(S) \in S
    BY <1>2, <1>4, MinIsThere
  <2>2. Min(S) \in DOMAIN known /\ QualifiedName(known[Min(S)]) = ref
    BY <2>1 DEF S
  <2>3. known[Min(S)] \in ToSet(known)
    BY <2>2 DEF ToSet
  <2>4. known[Min(S)].kind \in Kinds4
    BY <2>3 DEF AllGood, Good
  <2>5. NoType.kind \notin Kinds4
    BY DEF NoType, Type, Kinds4
  <2> QED
    BY <2>2, <2>3, <2>4, <2>5
<1>5. Known(known, ref) => S # {}
  <2> SUFFICES ASSUME NEW t \in ToSet(known), QualifiedName(t) = ref PROVE S # {}
    BY DEF Known
  <2>1. PICK i \in DOMAIN known : t = known[i]
    BY DEF ToSet
  <2>2. t.name = ref.name
    BY DEF QualifiedName, Ref
  <2> QED
    BY <2>1, <2>2
<1> QED
  BY <1>3, <1>4, <1>5

(* gather_types keeps the types it finds, and has one for the item then.   *)
LEMMA GatherKnows ==
  ASSUME NEW known, AllGood(known), NEW item
  PROVE  ToSet(known) \subseteq ToSet(GatherItem(known, item)) /\ Known(GatherItem(known, item), ItemName(item))
<1> DEFINE t == TypeOf(item)
           others == CASE item.kind = "interface" -> Added(known, Beside(item, ".Stub")) \o Added(known, Beside(item, ".Stub.Proxy"))
                       [] item.kind = "rpc" -> Added(known, Beside(item, ".ServiceBase"))
                       [] OTHER -> <<>>
           first == known \o <<t>>
<1>1. CASE FindName(known, ItemName(item)) # NoType
  <2>1. GatherItem(known, item) = known
    BY <1>1 DEF GatherItem
  <2> QED
    BY <1>1, <2>1, FoundHasName DEF Known
<1>2. CASE FindName(known, ItemName(item)) = NoType
  <2>1. GatherItem(known, item) = first \o others
    BY <1>2 DEF GatherItem
  <2>2. IsSeq(others)
    <3>1. \A x : IsSeq(Added(known, x))
      BY SmallSeqs DEF Added
    <3>2. IsSeq(Added(known, Beside(item, ".Stub")) \o Added(known, Beside(item, ".Stub.Proxy")))
      BY <3>1, Joined
    <3> QED
      BY <3>1, <3>2, SmallSeqs
  <2> HIDE DEF others
  <2>3. QualifiedName(t) = ItemName(item)
    BY TypeOfNames DEF QualifiedName, ItemName
  <2> HIDE DEF t
  <2>4. IsSeq(known) /\ IsSeq(<<t>>) /\ ToSet(<<t>>) = {t}
    BY SmallSeqs DEF AllGood
  <2>5. IsSeq(first) /\ ToSet(known) \subseteq ToSet(first) /\ ToSet(<<t>>) \subseteq ToSet(first)
    BY <2>4, Joined, JoinedHas
  <2> HIDE DEF first
  <2>6. ToSet(first) \subseteq ToSet(first \o others)
    BY <2>2, <2>5, JoinedHas
  <2>7. t \in ToSet(first \o others)
    BY <2>4, <2>5, <2>6
  <2> QED
    BY <2>1, <2>3, <2>5, <2>6, <2>7 DEF Known
<1> QED
  BY <1>1, <1>2

(* A line that is of a file, or what it left, is one of those read.        *)
LEMMA ReadLine ==
  ASSUME NEW f \in ToSet(options.preprocessedFiles), NEW l \in ToSet(Content(f).lines), NEW line \in {l, LeftBehind(l)},
         line.type \in LineTypes
  PROVE  line \in ReadLines
BY DEF ReadLines, TheLines

(* They stay while nothing is written.                                     *)
LEMMA ReadLinesStay ==
  ASSUME UNCHANGED files, options'.preprocessedFiles = options.preprocessedFiles
  PROVE  ReadLines' = ReadLines /\ \A p : Content(p)' = Content(p)
BY DEF ReadLines, TheLines, Content

(* The steps of a pass stay in it, and keep what it was told to do.        *)
LEMMA PassGoesOn ==
  ASSUME SourceInv, CompilerStep, ~Start
  PROVE  /\ options'.task = options.task
         /\ stage' \in {stage, "end"} \/ (stage \in CompileStages /\ stage' \in CompileStages)
         /\ stage # "end"
<1>1. CASE NameOutput
  <2>1. options' = options \/ options' = [options EXCEPT !.output = OutputName]
    BY <1>1 DEF NameOutput
  <2>2. OptionsTyped(options)
    BY DEF SourceInv, OptionsInv
  <2>3. options'.task = options.task
    BY <2>1, <2>2, OutputTyped
  <2>4. stage = "output" /\ stage' \in {"end", "dep"}
    BY <1>1 DEF NameOutput, End
  <2> QED
    BY <2>3, <2>4 DEF CompileStages, Gathered
<1>2. CASE ~NameOutput
  <2>1. options' = options
    BY <1>2 DEF CompilerStep, ReadPreprocessedLine, EndPreprocessedFile, EndPreprocessed, ParseMain, ParseImport, EndImports,
       CheckFilenames, GatherTypes, EndGathering, CheckTypes, ExactlyOneInterface, AssignMethodIds, WriteDepFile, GenerateJava,
       PreprocessFile, WritePreprocessed
  <2>2. CASE ReadPreprocessedLine \/ EndPreprocessedFile \/ EndPreprocessed \/ PreprocessFile \/ WritePreprocessed
    <3>1. \/ stage \in {"preprocessed", "preprocess"} /\ stage' \in {stage, "end"}
          \/ stage = "preprocessed" /\ stage' = "main"
      BY <2>2 DEF ReadPreprocessedLine, EndPreprocessedFile, EndPreprocessed, PreprocessFile, WritePreprocessed, End
    <3> QED
      BY <2>1, <3>1 DEF CompileStages, Gathered
  <2>3. CASE ParseMain \/ ParseImport \/ EndImports \/ CheckFilenames \/ GatherTypes \/ EndGathering
    <3>1. /\ stage \in {"main", "imports", "filenames", "gather"} /\ stage' \in {"imports", "filenames", "gather", "types", "end"}
      BY <2>3 DEF ParseMain, ParseImport, EndImports, CheckFilenames, GatherTypes, EndGathering, End
    <3> QED
      BY <2>1, <3>1 DEF CompileStages, Gathered
  <2>4. CASE CheckTypes \/ ExactlyOneInterface \/ AssignMethodIds \/ WriteDepFile \/ GenerateJava
    <3>1. /\ stage \in {"types", "one", "ids", "dep", "java"} /\ stage' \in {"one", "ids", "output", "java", "end"}
      <4>1. CASE CheckTypes \/ ExactlyOneInterface \/ AssignMethodIds
        BY <4>1 DEF CheckTypes, ExactlyOneInterface, AssignMethodIds, End
      <4>2. CASE WriteDepFile
        BY <4>2 DEF WriteDepFile, End
      <4>3. CASE GenerateJava
        BY <4>3 DEF GenerateJava, End
      <4> QED
        BY <2>4, <4>1, <4>2, <4>3
    <3> QED
      BY <2>1, <3>1 DEF CompileStages, Gathered
  <2> QED
    BY <1>2, <2>2, <2>3, <2>4 DEF CompilerStep
<1> QED
  BY <1>1, <1>2

(* A pass keeps the task that it has from its command line.               *)
LEMMA StepKeepsTask == SourceInv /\ TaskInv /\ CompilerStep => TaskInv'
<1> SUFFICES ASSUME SourceInv, TaskInv, CompilerStep PROVE TaskInv'
  OBVIOUS
<1>1. CASE Start
  <2>1. Head(commands) \in Seq(ArgumentSet) /\ OptionsInv
    BY <1>1 DEF Start, SourceInv, CommandsInv
  <2>2. PreprocessOptions(Head(commands)) \/ CompileOptions(Head(commands))
    BY <1>1 DEF Start
  <2> DEFINE argv == Head(commands)
  <2> HIDE DEF argv
  <2>3. /\ stage' \in {"preprocess", "preprocessed", "end"}
        /\ stage' = "preprocessed" => options'.task = "compile"
        /\ stage' = "preprocess" => options'.task = "preprocess"
    <3>1. argv \in Seq(ArgumentSet)
      BY <2>1 DEF argv
    <3>2. CASE PreprocessOptions(argv)
      BY <2>1, <3>1, <3>2, PreprocessTyped
    <3>3. CASE CompileOptions(argv)
      BY <2>1, <3>1, <3>3, CompileTyped
    <3> QED
      BY <2>2, <3>2, <3>3 DEF argv
  <2>4. stage' \in CompileStages => stage' = "preprocessed"
    BY <2>3 DEF CompileStages, Gathered
  <2> QED
    BY <2>3, <2>4 DEF TaskInv
<1>2. CASE ~Start
  <2>1. /\ options'.task = options.task
        /\ stage' \in {stage, "end"} \/ (stage \in CompileStages /\ stage' \in CompileStages)
    BY <1>2, PassGoesOn
  <2>2. "preprocess" \notin CompileStages /\ "end" \notin CompileStages
    BY DEF CompileStages, Gathered
  <2> QED
    BY <2>1, <2>2 DEF TaskInv
<1> QED
  BY <1>1, <1>2

(* Nothing is read yet when a pass starts.                                 *)
LEMMA StartKeepsLines == SourceInv /\ Start => LinesInv'
<1> SUFFICES ASSUME SourceInv, Start PROVE LinesInv'
  OBVIOUS
<1>1. SourceInv'
  BY StartKeepsSourceInv
<1>2. stage' # "main" /\ names' = BaseTypes /\ cursor' = <<1, 1>>
  <2>1. \/ PreprocessOptions(Head(commands)) /\ stage' \in {"preprocess", "end"}
        \/ CompileOptions(Head(commands)) /\ stage' \in {"preprocessed", "end"}
    BY DEF Start, PreprocessOptions, CompileOptions, End
  <2> QED
    BY <2>1 DEF Start
<1>3. \A t \in ToSet(names') : ~IsDeclared(t)
  BY <1>2, BaseTypesBuiltIn DEF AllBuiltIn, IsDeclared
<1>4. ASSUME NEW i \in DOMAIN options'.preprocessedFiles, NEW j PROVE ~IsBefore(i, j)'
  <2>1. IsSeq(options'.preprocessedFiles)
    BY <1>1 DEF SourceInv, OptionsInv, OptionsTyped
  <2>2. DOMAIN options'.preprocessedFiles = 1 .. Len(options'.preprocessedFiles)
    BY <2>1, IsSeqOf
  <2>3. i \in Nat \ {0}
    BY <2>2
  <2>4. cursor'[1] = 1 /\ cursor'[2] = 1
    BY <1>2
  <2>5. ~(i < 1)
    BY <2>3
  <2>6. 1 .. cursor'[2] - 1 = {}
    BY <2>4
  <2> QED
    BY <1>2, <2>4, <2>5, <2>6 DEF IsBefore
<1> QED
  BY <1>2, <1>3, <1>4 DEF LinesInv, IsDeclared

(* parse_preprocessed_file: a line.                                        *)
LEMMA ReadPreprocessedLineKeepsLines == CompilerInv /\ SourceInv /\ LinesInv /\ ReadPreprocessedLine => LinesInv'
<1> SUFFICES ASSUME CompilerInv, SourceInv, LinesInv, ReadPreprocessedLine PROVE LinesInv'
  OBVIOUS
<1>0. OptionsInv /\ BuffersInv /\ NamesInv /\ CursorInv /\ FilesInv /\ ErrInv
  BY DEF SourceInv, CompilerInv
<1> DEFINE f == options.preprocessedFiles[cursor[1]]
           text == Content(f).lines[cursor[2]]
           line == IF text.type = "none" THEN stale ELSE text
           bad == {"bad type in line"}
<1>1. /\ stage = "preprocessed" /\ cursor[1] <= Len(options.preprocessedFiles)
      /\ Content(f).is = "lines" /\ cursor[2] <= Len(Content(f).lines)
      /\ UNCHANGED <<files, stage, options>>
  BY DEF ReadPreprocessedLine
<1>2. \/ /\ text.type = "//" /\ UNCHANGED <<names, err>> /\ cursor' = <<cursor[1], cursor[2] + 1>>
      \/ /\ Report(bad) /\ UNCHANGED names /\ cursor' = <<cursor[1] + 1, 1>>
      \/ /\ line.type \in LineTypes
         /\ names' = GatherItem(names, Declared(line)) /\ UNCHANGED err
         /\ cursor' = <<cursor[1], cursor[2] + 1>>
  BY DEF ReadPreprocessedLine, LineTypes
<1>3. /\ f \in ToSet(options.preprocessedFiles) /\ text \in ToSet(Content(f).lines)
      /\ cursor[1] \in Nat \ {0} /\ cursor[2] \in Nat \ {0}
  <2>1. cursor[1] \in Nat \ {0} /\ cursor[2] \in Nat \ {0}
    BY <1>0, <1>1 DEF CursorInv, BuffersInv
  <2>2. cursor[1] \in DOMAIN options.preprocessedFiles
    BY <1>0, <1>1, <2>1, IsSeqOf DEF OptionsInv, OptionsTyped
  <2>3. f \in ToSet(options.preprocessedFiles)
    BY <2>2 DEF ToSet
  <2> HIDE DEF f
  <2>4. IsSeq(Content(f).lines)
    BY <1>0, <1>1, ContentTyped DEF IsLines
  <2>5. cursor[2] \in DOMAIN Content(f).lines
    BY <1>1, <2>1, <2>4, IsSeqOf
  <2> QED
    BY <2>1, <2>3, <2>5 DEF ToSet
<1> HIDE DEF f, text
<1>4. ReadLines' = ReadLines /\ \A p : Content(p)' = Content(p)
  BY <1>1, ReadLinesStay
<1>5. line.type \in LineTypes => line \in ReadLines
  <2> SUFFICES ASSUME line.type \in LineTypes PROVE line \in ReadLines
    OBVIOUS
  <2>1. CASE text.type = "none"
    <3>1. stale.type \in LineTypes /\ LeftByLine(stale) /\ line = stale
      BY <1>0, <1>1, <2>1 DEF BuffersInv, LineTypes
    <3>2. PICK g \in ToSet(options.preprocessedFiles) : \E l \in ToSet(Content(g).lines) : stale = LeftBehind(l)
      BY <3>1 DEF LeftByLine
    <3> QED
      BY <3>1, <3>2, ReadLine
  <2>2. CASE text.type # "none"
    BY <1>3, <2>2, ReadLine
  <2> QED
    BY <2>1, <2>2
<1>6. /\ ToSet(names) \subseteq ToSet(names')
      /\ line.type \in LineTypes /\ names' = GatherItem(names, Declared(line)) => Known(names', RefOf(line))
  <2>1. ItemName(Declared(line)) = RefOf(line)
    <3> HIDE DEF line
    <3> QED
      BY DEF ItemName, RefOf, Declared, NoItem
  <2> HIDE DEF line
  <2> QED
    BY <1>0, <1>2, <2>1, GatherKnows DEF NamesInv
<1>7. ASSUME NEW t \in ToSet(names'), IsDeclared(t)
      PROVE  \E r \in ReadLines : t = TypeOf(Declared(r))
  <2>1. CASE t \in ToSet(names)
    BY <1>1, <1>7, <2>1 DEF LinesInv
  <2>2. CASE t \notin ToSet(names)
    <3>1. line.type \in LineTypes /\ names' = GatherItem(names, Declared(line))
      BY <1>2, <1>7, <2>2
    <3>2. t.kind # "generated"
      BY <1>7 DEF IsDeclared
    <3> HIDE DEF line
    <3>3. t = TypeOf(Declared(line))
      BY <1>0, <1>7, <2>2, <3>1, <3>2, GatherAdds DEF NamesInv, AllGood
    <3> QED
      BY <1>5, <3>1, <3>3
  <2> QED
    BY <2>1, <2>2
<1>8. ASSUME ~err', NEW i \in DOMAIN options.preprocessedFiles
      PROVE  LET g == options.preprocessedFiles[i]
             IN /\ IsBefore(i, 0)' => Content(g).is = "lines"
                /\ Content(g).is = "lines" =>
                     \A l \in DOMAIN Content(g).lines :
                       IsBefore(i, l)' /\ Content(g).lines[l].type \in LineTypes => Known(names', RefOf(Content(g).lines[l]))
  <2> DEFINE g == options.preprocessedFiles[i]
  <2>1. /\ ~err /\ cursor' = <<cursor[1], cursor[2] + 1>>
        /\ text.type = "//" \/ (line.type \in LineTypes /\ names' = GatherItem(names, Declared(line)))
    <3>1. bad # {}
      OBVIOUS
    <3>2. ~Report(bad)
      BY <1>8, <3>1 DEF Report
    <3> HIDE DEF bad, line
    <3> QED
      BY <1>2, <1>8, <3>2
  <2>2. \A l : IsBefore(i, l)' => IsBefore(i, l) \/ (i = cursor[1] /\ l = cursor[2])
    <3>1. cursor'[1] = cursor[1] /\ cursor'[2] = cursor[2] + 1
      BY <2>1
    <3>2. \A l : l \in 1 .. cursor'[2] - 1 => l = cursor[2] \/ l \in 1 .. cursor[2] - 1
      BY <1>3, <3>1
    <3> QED
      BY <1>1, <3>1, <3>2 DEF IsBefore
  <2>3. /\ IsBefore(i, 0) => Content(g).is = "lines"
        /\ Content(g).is = "lines" =>
             \A l \in DOMAIN Content(g).lines :
               IsBefore(i, l) /\ Content(g).lines[l].type \in LineTypes => Known(names, RefOf(Content(g).lines[l]))
    BY <1>1, <2>1 DEF LinesInv
  <2>4. IsBefore(i, 0)' => IsBefore(i, 0)
    BY <1>3, <2>2
  <2>5. ASSUME NEW l \in DOMAIN Content(g).lines, Content(g).is = "lines", IsBefore(i, l)', Content(g).lines[l].type \in LineTypes
        PROVE  Known(names', RefOf(Content(g).lines[l]))
    <3>1. CASE IsBefore(i, l)
      <4>1. Known(names, RefOf(Content(g).lines[l]))
        BY <2>3, <2>5, <3>1
      <4> QED
        BY <1>6, <4>1 DEF Known
    <3>2. CASE i = cursor[1] /\ l = cursor[2]
      <4>1. Content(g).lines[l] = text
        BY <3>2 DEF text, f
      <4>2. line = text /\ text.type # "//"
        BY <2>5, <4>1 DEF LineTypes
      <4> HIDE DEF line
      <4> QED
        BY <1>6, <2>1, <2>5, <4>1, <4>2
    <3> QED
      BY <2>2, <2>5, <3>1, <3>2
  <2> QED
    BY <2>3, <2>4, <2>5
<1>9. stage' # "main"
  BY <1>1
<1> HIDE DEF line
<1> QED
  BY <1>1, <1>4, <1>7, <1>8, <1>9 DEF LinesInv, IsDeclared, LineTypes, Known

(* parse_preprocessed_file: the end of a file.                             *)
LEMMA EndPreprocessedFileKeepsLines == CompilerInv /\ SourceInv /\ LinesInv /\ EndPreprocessedFile => LinesInv'
<1> SUFFICES ASSUME CompilerInv, SourceInv, LinesInv, EndPreprocessedFile PROVE LinesInv'
  OBVIOUS
<1>0. OptionsInv /\ CursorInv /\ FilesInv /\ BuffersInv
  BY DEF SourceInv, CompilerInv
<1> DEFINE f == options.preprocessedFiles[cursor[1]]
           unread == {"can't open preprocessed file"}
<1>1. /\ stage = "preprocessed" /\ cursor' = <<cursor[1] + 1, 1>>
      /\ Content(f).is = "lines" => cursor[2] > Len(Content(f).lines)
      /\ Report(IF Content(f).is = "lines" THEN {} ELSE unread)
      /\ UNCHANGED <<files, stage, options, names>>
  BY DEF EndPreprocessedFile
<1>2. ReadLines' = ReadLines /\ \A p : Content(p)' = Content(p)
  BY <1>1, ReadLinesStay
<1>3. cursor[1] \in Nat \ {0} /\ cursor[2] \in Nat \ {0}
  BY <1>0, <1>1 DEF CursorInv, BuffersInv
<1>4. \A t \in ToSet(names') : IsDeclared(t) => \E line \in ReadLines : t = TypeOf(Declared(line))
  BY <1>1 DEF LinesInv
<1>5. ASSUME ~err', NEW i \in DOMAIN options.preprocessedFiles
      PROVE  LET g == options.preprocessedFiles[i]
             IN /\ IsBefore(i, 0)' => Content(g).is = "lines"
                /\ Content(g).is = "lines" =>
                     \A l \in DOMAIN Content(g).lines :
                       IsBefore(i, l)' /\ Content(g).lines[l].type \in LineTypes => Known(names', RefOf(Content(g).lines[l]))
  <2> DEFINE g == options.preprocessedFiles[i]
  <2>1. ~err /\ Content(f).is = "lines"
    <3>1. unread # {}
      OBVIOUS
    <3> HIDE DEF unread
    <3> QED
      BY <1>1, <1>5, <3>1 DEF Report
  <2>2. i \in Nat \ {0}
    BY <1>0, IsSeqOf DEF OptionsInv, OptionsTyped
  <2>3. \A l : IsBefore(i, l)' => i < cursor[1] \/ i = cursor[1]
    <3>1. cursor'[1] = cursor[1] + 1 /\ cursor'[2] = 1 /\ stage' # "main"
      BY <1>1
    <3>2. 1 .. cursor'[2] - 1 = {}
      BY <3>1
    <3>3. \A l : IsBefore(i, l)' => i < cursor[1] + 1
      BY <3>1, <3>2 DEF IsBefore
    <3> QED
      BY <1>3, <2>2, <3>3
  <2>4. /\ IsBefore(i, 0) => Content(g).is = "lines"
        /\ Content(g).is = "lines" =>
             \A l \in DOMAIN Content(g).lines :
               IsBefore(i, l) /\ Content(g).lines[l].type \in LineTypes => Known(names, RefOf(Content(g).lines[l]))
    BY <1>1, <2>1 DEF LinesInv
  <2>5. IsBefore(i, 0)' => Content(g).is = "lines"
    BY <2>1, <2>3, <2>4 DEF IsBefore
  <2>6. ASSUME NEW l \in DOMAIN Content(g).lines, Content(g).is = "lines", IsBefore(i, l)'
        PROVE  IsBefore(i, l)
    <3>1. CASE i < cursor[1]
      BY <3>1 DEF IsBefore
    <3>2. CASE i = cursor[1]
      <4>1. Content(g).is = "lines" /\ cursor[2] > Len(Content(g).lines)
        BY <1>1, <2>6, <3>2
      <4>2. IsSeq(Content(g).lines)
        BY <1>0, <4>1, ContentTyped DEF IsLines
      <4> HIDE DEF g
      <4>3. l \in 1 .. Len(Content(g).lines) /\ Len(Content(g).lines) \in Nat
        BY <2>6, <4>2, IsSeqOf
      <4>4. l \in 1 .. cursor[2] - 1
        BY <1>3, <4>1, <4>3
      <4> QED
        BY <3>2, <4>4 DEF IsBefore
    <3> QED
      BY <2>3, <2>6, <3>1, <3>2
  <2>7. \A l \in DOMAIN Content(g).lines : Content(g).is = "lines" /\ IsBefore(i, l)' /\ Content(g).lines[l].type \in LineTypes
                                             => Known(names, RefOf(Content(g).lines[l]))
    BY <2>4, <2>6
  <2> QED
    BY <1>1, <2>5, <2>7
<1> HIDE DEF f, unread
<1>6. stage' # "main"
  BY <1>1
<1> QED
  BY <1>1, <1>2, <1>4, <1>5, <1>6 DEF LinesInv, IsDeclared, LineTypes, Known

(* compile_aidl: all of them are read, without an error.                   *)
LEMMA EndPreprocessedKeepsLines == CompilerInv /\ SourceInv /\ LinesInv /\ EndPreprocessed => LinesInv'
<1> SUFFICES ASSUME CompilerInv, SourceInv, LinesInv, EndPreprocessed, stage' = "main" PROVE LinesInv'
  BY DEF EndPreprocessed, End, LinesInv
<1>1. /\ stage = "preprocessed" /\ cursor[1] > Len(options.preprocessedFiles) /\ ~err
      /\ UNCHANGED <<files, options, names, err>>
  BY DEF EndPreprocessed, End
<1>2. ReadLines' = ReadLines /\ \A p : Content(p)' = Content(p)
  BY <1>1, ReadLinesStay
<1>3. \A i \in DOMAIN options.preprocessedFiles : i < cursor[1]
  <2>1. IsSeq(options.preprocessedFiles) /\ cursor[1] \in Nat
    BY DEF SourceInv, OptionsInv, OptionsTyped, CompilerInv, CursorInv
  <2> QED
    BY <1>1, <2>1, IsSeqOf
<1>4. \A i \in DOMAIN options.preprocessedFiles : \A l : IsBefore(i, l)
  BY <1>3 DEF IsBefore
<1>5. \A i \in DOMAIN options.preprocessedFiles :
        LET f == options.preprocessedFiles[i]
        IN /\ Content(f).is = "lines"
           /\ \A l \in DOMAIN Content(f).lines : Content(f).lines[l].type \in LineTypes => Known(names, RefOf(Content(f).lines[l]))
  BY <1>1, <1>4 DEF LinesInv
<1>6. \A t \in ToSet(names) : IsDeclared(t) => \E line \in ReadLines : t = TypeOf(Declared(line))
  BY <1>1 DEF LinesInv
<1> QED
  BY <1>1, <1>2, <1>5, <1>6 DEF LinesInv, IsDeclared, LineTypes, Known

(* Nothing of it is needed once the main file is parsed.                   *)
LEMMA StepKeepsLines == CompilerInv /\ SourceInv /\ LinesInv /\ CompilerStep => LinesInv'
<1> SUFFICES ASSUME CompilerInv, SourceInv, LinesInv, CompilerStep PROVE LinesInv'
  OBVIOUS
<1>1. CASE Start \/ ReadPreprocessedLine \/ EndPreprocessedFile \/ EndPreprocessed
  BY <1>1, StartKeepsLines, ReadPreprocessedLineKeepsLines, EndPreprocessedFileKeepsLines, EndPreprocessedKeepsLines
<1>2. CASE ~(Start \/ ReadPreprocessedLine \/ EndPreprocessedFile \/ EndPreprocessed)
  <2>1. stage' \notin {"preprocessed", "main"}
    <3>1. CASE ParseMain \/ ParseImport \/ EndImports \/ CheckFilenames \/ GatherTypes \/ EndGathering \/ CheckTypes
      BY <3>1 DEF ParseMain, ParseImport, EndImports, CheckFilenames, GatherTypes, EndGathering, CheckTypes, End
    <3>2. CASE ExactlyOneInterface \/ AssignMethodIds \/ NameOutput
      BY <3>2 DEF ExactlyOneInterface, AssignMethodIds, NameOutput, End
    <3>3. CASE WriteDepFile
      BY <3>3 DEF WriteDepFile, End
    <3>4. CASE GenerateJava
      BY <3>4 DEF GenerateJava, End
    <3>5. CASE PreprocessFile \/ WritePreprocessed
      BY <3>5 DEF PreprocessFile, WritePreprocessed, End
    <3> QED
      BY <1>2, <3>1, <3>2, <3>3, <3>4, <3>5 DEF CompilerStep
  <2> QED
    BY <2>1 DEF LinesInv
<1> QED
  BY <1>1, <1>2

(* A pass that ends without an error has written its output.               *)
LEMMA EndsWell ==
  ASSUME CompilerStep, stage' = "end", result' = "0"
  PROVE  WriteDepFile \/ GenerateJava \/ WritePreprocessed
<1>1. ~Start
  <2> SUFFICES ASSUME Start PROVE FALSE
    OBVIOUS
  <2>1. PreprocessOptions(Head(commands)) \/ CompileOptions(Head(commands))
    BY DEF Start
  <2>2. CASE PreprocessOptions(Head(commands))
    BY <2>2 DEF PreprocessOptions, End
  <2>3. CASE CompileOptions(Head(commands))
    BY <2>3 DEF CompileOptions, End
  <2> QED
    BY <2>1, <2>2, <2>3
<1>2. ~(ReadPreprocessedLine \/ EndPreprocessedFile \/ EndPreprocessed \/ ParseMain \/ ParseImport \/ EndImports)
  BY DEF ReadPreprocessedLine, EndPreprocessedFile, EndPreprocessed, ParseMain, ParseImport, EndImports, End
<1>3. ~(CheckFilenames \/ GatherTypes \/ EndGathering \/ CheckTypes \/ ExactlyOneInterface \/ AssignMethodIds \/ NameOutput \/ PreprocessFile)
  BY DEF CheckFilenames, GatherTypes, EndGathering, CheckTypes, ExactlyOneInterface, AssignMethodIds, NameOutput, PreprocessFile, End
<1> QED
  BY <1>1, <1>2, <1>3 DEF CompilerStep

(* What preprocess_aidl writes.                                            *)
LEMMA WritesPreprocessed ==
  ASSUME SourceInv, WritePreprocessed, result' = "0"
  PROVE  PreprocessedWhole'
<1> SUFFICES ASSUME options.output \notin ToSet(options.filesToPreprocess) PROVE PreprocessedWhole'
  <2>1. UNCHANGED options
    BY DEF WritePreprocessed
  <2> QED
    BY <2>1 DEF PreprocessedWhole
<1> DEFINE from == options.filesToPreprocess
           ls == [i \in DOMAIN main |-> PreprocessLine(main[i])]
           content == [Absent EXCEPT !.is = "lines", !.lines = ls]
<1>1. /\ stage = "preprocess" /\ cursor[1] > Len(from) /\ files' = Written(options.output, content) /\ UNCHANGED options
  BY DEF WritePreprocessed, End
<1>2. DOMAIN main = DOMAIN from
  <2>1. IsSeq(from) /\ cursor[1] \in 1 .. Len(from) + 1 /\ DOMAIN main = 1 .. cursor[1] - 1
    BY <1>1 DEF SourceInv, PreprocessInv
  <2>2. DOMAIN from = 1 .. Len(from) /\ Len(from) \in Nat
    BY <2>1, IsSeqOf
  <2> HIDE DEF from
  <2>3. cursor[1] - 1 = Len(from)
    BY <1>1, <2>1, <2>2
  <2> QED
    BY <2>1, <2>2, <2>3
<1>3. content.is = "lines" /\ content.lines = ls
  BY DEF Absent
<1> HIDE DEF content
<1>4. \A p : Content(p)' = IF p = options.output THEN content ELSE Content(p)
  BY <1>1 DEF Content, Written
<1>5. Content(options.output)' = content /\ content.lines = ls
  BY <1>1, <1>3, <1>4
<1>6. ASSUME NEW i \in DOMAIN from
      PROVE  /\ ls[i].package = Content(from[i])'.package
             /\ ls[i].name = Content(from[i])'.items[1].name
  <2>1. main[i].package = Content(from[i]).package /\ main[i].name = Content(from[i]).items[1].name
    BY <1>1, <1>2 DEF SourceInv, PreprocessInv
  <2>2. from[i] # options.output
    BY DEF ToSet
  <2>3. Content(from[i])' = Content(from[i])
    BY <1>1, <1>4, <2>2
  <2>4. ls[i] = PreprocessLine(main[i])
    BY <1>2
  <2> HIDE DEF ls
  <2> QED
    BY <2>1, <2>3, <2>4 DEF PreprocessLine
<1>7. DOMAIN ls = DOMAIN from
  BY <1>2
<1> HIDE DEF ls, from
<1>8. /\ Content(options.output)'.is = "lines" /\ DOMAIN Content(options.output)'.lines = DOMAIN from
      /\ \A i \in DOMAIN from : /\ Content(options.output)'.lines[i].package = Content(from[i])'.package
                                /\ Content(options.output)'.lines[i].name = Content(from[i])'.items[1].name
  BY <1>3, <1>5, <1>6, <1>7
<1> QED
  BY <1>1, <1>8 DEF PreprocessedWhole, from

LEMMA StepKeepsPreprocessed == SourceInv /\ TaskInv /\ CompilerStep => PreprocessedWhole'
<1> SUFFICES ASSUME SourceInv, TaskInv, CompilerStep, stage' = "end", options'.task = "preprocess", result' = "0"
             PROVE  PreprocessedWhole'
  BY DEF PreprocessedWhole, PassEnded
<1>1. WriteDepFile \/ GenerateJava \/ WritePreprocessed
  BY EndsWell
<1>2. CASE WriteDepFile \/ GenerateJava
  <2>1. options' = options /\ stage \in {"dep", "java"}
    <3>1. CASE WriteDepFile
      BY <3>1 DEF WriteDepFile
    <3>2. CASE GenerateJava
      BY <3>2 DEF GenerateJava
    <3> QED
      BY <1>2, <3>1, <3>2
  <2>2. options.task = "compile"
    BY <2>1 DEF TaskInv, CompileStages, Gathered
  <2> QED
    BY <2>1, <2>2
<1>3. CASE WritePreprocessed
  BY <1>3, WritesPreprocessed
<1> QED
  BY <1>1, <1>2, <1>3

(* What has a source still has it when something else was written.         *)
LEMMA SourceKept ==
  ASSUME UNCHANGED <<options, imports>>, NEW path, path \notin SourceFiles,
         \A p : p # path => Content(p)' = Content(p), NEW t, HasSource(t)
  PROVE  \/ FromLine(t)'
         \/ Declares(options.input, t)'
         \/ \E x \in ToSet(imports) : x.filename # <<>> /\ Declares(x.filename, t)'
<1>1. \A p \in SourceFiles : Content(p)' = Content(p)
  OBVIOUS
<1>2. FromLine(t) => FromLine(t)'
  <2>1. \A f \in ToSet(options.preprocessedFiles) : Content(f)' = Content(f)
    BY <1>1 DEF SourceFiles
  <2> QED
    BY <2>1 DEF FromLine
<1>3. ASSUME NEW p \in SourceFiles, Declares(p, t) PROVE Declares(p, t)'
  BY <1>1, <1>3 DEF Declares
<1> QED
  BY <1>2, <1>3 DEF HasSource, FromImport, SourceFiles

(* What generate_dep_file leaves.                                          *)
LEMMA StepKeepsDeps == CompilerInv /\ SourceInv /\ CompilerStep => DepsComplete'
<1> SUFFICES ASSUME CompilerInv, SourceInv, CompilerStep, stage' = "java", DepName' \notin SourceFiles',
                    Content(DepName)'.lines = Prerequisites'
             PROVE  DepsComplete'
  BY DEF DepsComplete
<1>1. WriteDepFile
  <2>1. ~Start
    BY DEF Start, PreprocessOptions, CompileOptions, End
  <2>2. ~(ReadPreprocessedLine \/ EndPreprocessedFile \/ EndPreprocessed \/ ParseMain \/ ParseImport \/ EndImports)
    BY DEF ReadPreprocessedLine, EndPreprocessedFile, EndPreprocessed, ParseMain, ParseImport, EndImports, End
  <2>3. ~(CheckFilenames \/ GatherTypes \/ EndGathering \/ CheckTypes \/ ExactlyOneInterface \/ AssignMethodIds \/ NameOutput)
    BY DEF CheckFilenames, GatherTypes, EndGathering, CheckTypes, ExactlyOneInterface, AssignMethodIds, NameOutput, End
  <2>4. ~GenerateJava /\ ~PreprocessFile /\ ~WritePreprocessed
    BY DEF GenerateJava, PreprocessFile, WritePreprocessed, End
  <2> QED
    BY <2>1, <2>2, <2>3, <2>4 DEF CompilerStep
<1>2. stage = "dep" /\ UNCHANGED <<options, names, imports, main>>
  BY <1>1 DEF WriteDepFile
<1>3. DepName' = DepName /\ SourceFiles' = SourceFiles /\ Prerequisites' = Prerequisites /\ Used' = Used
  BY <1>2 DEF DepName, SourceFiles, Prerequisites, Used
<1>4. \A p : p # DepName => Content(p)' = Content(p)
  <2>1. files' = files \/ \E content : files' = Written(DepName, content)
    BY <1>1 DEF WriteDepFile
  <2> QED
    BY <2>1 DEF Content, Written
<1>5. ASSUME NEW r \in Used, SearchPlain(names, r).kind \in {"userdata", "interface"}
      PROVE  HasSource(SearchPlain(names, r))
  <2> DEFINE t == SearchPlain(names, r)
  <2>1. AllGood(names) /\ SourcesInv /\ stage \in Gathered /\ found = {}
    BY <1>2 DEF CompilerInv, NamesInv, StageInv, SourceInv, Gathered
  <2>2. t # NoType /\ IsDeclared(t)
    BY <1>5 DEF NoType, Type, IsDeclared
  <2>3. t \in ToSet(names)
    BY <2>1, <2>2, FoundIsKnown
  <2> HIDE DEF t
  <2> QED
    BY <2>1, <2>2, <2>3 DEF SourcesInv, t
<1>6. \A t : HasSource(t) => \/ FromLine(t)' \/ Declares(options.input, t)'
                             \/ \E x \in ToSet(imports) : x.filename # <<>> /\ Declares(x.filename, t)'
  <2> SUFFICES ASSUME NEW t, HasSource(t)
               PROVE  \/ FromLine(t)' \/ Declares(options.input, t)'
                      \/ \E x \in ToSet(imports) : x.filename # <<>> /\ Declares(x.filename, t)'
    OBVIOUS
  <2>1. UNCHANGED <<options, imports>> /\ DepName \notin SourceFiles
    BY <1>2, <1>3
  <2>2. PICK path : path = DepName
    OBVIOUS
  <2> QED
    BY <1>4, <2>1, <2>2, SourceKept
<1>7. /\ options.input \in ToSet(Prerequisites)
      /\ \A x \in ToSet(imports) : x.filename # <<>> => x.filename \in ToSet(Prerequisites)
  BY PrerequisitesHave DEF CompilerInv, DocsInv
<1>8. \A t : HasSource(t) => FromLine(t)' \/ \E p \in ToSet(Prerequisites) : Declares(p, t)'
  BY <1>2, <1>6, <1>7
<1>9. \A r \in Used : SearchPlain(names, r).kind \in {"userdata", "interface"} =>
        \/ FromLine(SearchPlain(names, r))'
        \/ \E p \in ToSet(Content(DepName)'.lines) : Declares(p, SearchPlain(names, r))'
  BY <1>2, <1>3, <1>5, <1>8
<1> QED
  BY <1>2, <1>3, <1>9 DEF DepsComplete

(* Nothing is read before the first pass.                                  *)
LEMMA InitAgreeInv == CompilerInit => AgreeInv
<1> SUFFICES ASSUME stage = "start" PROVE AgreeInv
  BY DEF CompilerInit
<1> QED
  BY DEF AgreeInv, TaskInv, CompileStages, Gathered, LinesInv, PreprocessedWhole, PassEnded, DepsComplete

(* It stays while the compiler does not move.                              *)
LEMMA AgreeInvStays == AgreeInv /\ UNCHANGED compilerVars => AgreeInv'
<1> SUFFICES ASSUME AgreeInv, UNCHANGED compilerVars PROVE AgreeInv'
  OBVIOUS
<1>1. UNCHANGED <<files, stage, options, err, names, main, imports, cursor, result>>
  BY DEF compilerVars
<1>2. ReadLines' = ReadLines /\ \A p : Content(p)' = Content(p)
  BY <1>1, ReadLinesStay
<1>3. TaskInv'
  BY <1>1 DEF AgreeInv, TaskInv
<1>4. LinesInv'
  <2>1. \A i, j : IsBefore(i, j)' = IsBefore(i, j)
    BY <1>1 DEF IsBefore
  <2> QED
    BY <1>1, <1>2, <2>1 DEF AgreeInv, LinesInv, IsDeclared
<1>5. PreprocessedWhole'
  BY <1>1, <1>2 DEF AgreeInv, PreprocessedWhole, PassEnded
<1>6. DepsComplete'
  <2>1. DepName' = DepName /\ SourceFiles' = SourceFiles /\ Prerequisites' = Prerequisites /\ Used' = Used
    BY <1>1 DEF DepName, SourceFiles, Prerequisites, Used
  <2>2. \A t : FromLine(t)' = FromLine(t) /\ \A p : Declares(p, t)' = Declares(p, t)
    BY <1>1, <1>2 DEF FromLine, Declares
  <2> QED
    BY <1>1, <1>2, <2>1, <2>2 DEF AgreeInv, DepsComplete
<1> QED
  BY <1>3, <1>4, <1>5, <1>6 DEF AgreeInv

(* A step of the compiler keeps it.                                        *)
LEMMA StepKeepsAgreeInv == CompilerInv /\ SourceInv /\ AgreeInv /\ CompilerStep => AgreeInv'
BY StepKeepsTask, StepKeepsLines, StepKeepsPreprocessed, StepKeepsDeps DEF AgreeInv

(* A pass does what its options say, has a type for every line that it has *)
(* read and no others, and what is in the files when it is over agrees     *)
(* with what they were made from, for any build (main, preprocess_aidl,    *)
(* parse_preprocessed_file, generate_dep_file).                            *)
THEOREM AgreeInvariant == Spec => []AgreeInv
<1>1. Init => AgreeInv
  BY InitAgreeInv DEF Init
<1>2. CompilerInv /\ SourceInv /\ AgreeInv /\ [Next]_vars => AgreeInv'
  BY StepKeepsAgreeInv, AgreeInvStays, BinderLeavesCompiler DEF Next, Compile, Binder, vars
<1> QED
  BY <1>1, <1>2, CompilerInvariant, SourceInvariant, PTL DEF Spec

(* Lines that agree in all that is read of them declare the same.          *)
LEMMA SameLineDeclaresSame ==
  ASSUME NEW line, NEW l, line.type = l.type, line.package = l.package, line.name = l.name
  PROVE  Declared(line) = Declared(l)
BY DEF Declared

(* What the compilation has for the first item of a file that has a line.  *)
LEMMA LinesAreKept == CompilerInv /\ SourceInv /\ AgreeInv => PreprocessKeeps
<1> SUFFICES ASSUME CompilerInv, SourceInv, AgreeInv, stage = "main", NEW f \in ToSet(options.preprocessedFiles),
                    NEW l \in ToSet(Content(f).lines), NEW p \in DOMAIN files, files[p].is = "aidl", files[p].items # <<>>,
                    l = PreprocessLine(ItemsOf(p)[1]), Agreed(l)
             PROVE  LET t == FindName(names, Ref(l.package, l.name, <<>>))
                    IN t.kind \in {"builtin", "generated"} \/ SameType(t, TypeOf(ItemsOf(p)[1]))
  BY DEF PreprocessKeeps
<1> DEFINE item == ItemsOf(p)[1]
           ref == Ref(l.package, l.name, <<>>)
           t == FindName(names, ref)
<1>1. item.kind \in {"data", "interface", "rpc"} /\ (item.kind = "data" => "parcel" \in item.flat)
  BY FirstDeclaration
<1>2. l.type \in LineTypes
  BY DEF PreprocessLine, LineTypes
<1>3. PICK i \in DOMAIN options.preprocessedFiles : f = options.preprocessedFiles[i]
  BY DEF ToSet
<1>4. PICK k \in DOMAIN Content(f).lines : l = Content(f).lines[k]
  BY DEF ToSet
<1>5. Known(names, ref)
  <2>1. ~err /\ \A j : IsBefore(i, j)
    BY DEF AgreeInv, LinesInv, IsBefore
  <2>2. Content(f).is = "lines"
    BY <1>3, <2>1 DEF AgreeInv, LinesInv
  <2>3. Known(names, RefOf(Content(f).lines[k]))
    BY <1>2, <1>3, <1>4, <2>1, <2>2 DEF AgreeInv, LinesInv
  <2> QED
    BY <1>4, <2>3 DEF RefOf
<1> HIDE DEF item, ref
<1>6. t \in ToSet(names) /\ QualifiedName(t) = ref
  <2>1. AllGood(names)
    BY DEF CompilerInv, NamesInv
  <2> QED
    BY <1>5, <2>1, FoundHasName
<1> HIDE DEF t
<1>7. t.kind \in Kinds4
  BY <1>6 DEF CompilerInv, NamesInv, AllGood, Good
<1>8. CASE IsDeclared(t)
  <2>1. PICK line \in ReadLines : t = TypeOf(Declared(line))
    BY <1>6, <1>8 DEF AgreeInv, LinesInv
  <2>2. line.package = l.package /\ line.name = l.name
    <3>1. Declared(line).package = line.package /\ Declared(line).name = line.name
      BY DEF Declared, NoItem
    <3>2. t.package = line.package /\ t.name = line.name
      BY <2>1, <3>1, TypeOfNames
    <3> QED
      BY <1>6, <3>2 DEF QualifiedName, Ref, ref
  <2>3. line.type = l.type
    BY <2>2 DEF Agreed
  <2>4. t = TypeOf(Declared(l))
    BY <2>1, <2>2, <2>3, SameLineDeclaresSame
  <2>5. SameType(TypeOf(Declared(PreprocessLine(item))), TypeOf(item))
    BY <1>1, LineIsAlike
  <2> QED
    BY <2>4, <2>5 DEF item, t, ref
<1>9. CASE ~IsDeclared(t)
  <2>1. t.kind \in {"builtin", "generated"}
    BY <1>7, <1>9 DEF IsDeclared, Kinds4
  <2> QED
    BY <2>1 DEF t, ref
<1> QED
  BY <1>8, <1>9

(* What one command line leaves in files, another reads out of them as it  *)
(* was meant, for any build (preprocess_aidl, parse_preprocessed_file,     *)
(* generate_dep_file).                                                     *)
THEOREM FilesAgreeAlways == Spec => []FilesAgree
<1>1. CompilerInv /\ SourceInv /\ AgreeInv => FilesAgree
  BY LinesAreKept DEF AgreeInv, FilesAgree
<1> QED
  BY <1>1, CompilerInvariant, SourceInvariant, AgreeInvariant, PTL

-----------------------------------------------------------------------------
(* The lines of preprocessed files whose errors are dropped.               *)

(* The least number of a set.                                              *)
LEMMA MinIsLeast ==
  ASSUME NEW S, S \subseteq Nat, S # {}, NEW i \in S
  PROVE  Min(S) <= i
<1>1. \E x \in S : \A y \in S : x <= y
  BY LeastNumber
<1> QED
  BY <1>1 DEF Min

(* A name that is found stays what it was when others come behind.         *)
LEMMA FoundStays ==
  ASSUME NEW known, IsSeq(known), NEW others, IsSeq(others), NEW ref, FindName(known, ref) # NoType
  PROVE  FindName(known \o others, ref) = FindName(known, ref)
<1> DEFINE n == Len(known)
           new == known \o others
           S0 == {i \in DOMAIN known : known[i].name = ref.name /\ QualifiedName(known[i]) = ref}
           S == {i \in DOMAIN new : new[i].name = ref.name /\ QualifiedName(new[i]) = ref}
<1>1. DOMAIN known = 1 .. n /\ n \in Nat
  BY IsSeqOf
<1>2. S0 # {} /\ FindName(known, ref) = known[Min(S0)]
  BY DEF FindName, FirstAt
<1>3. DOMAIN new = 1 .. Len(new) /\ Len(new) \in Nat /\ Len(new) >= n /\ \A i \in 1 .. n : new[i] = known[i]
  <2> DEFINE A == ToSet(known) \cup ToSet(others)
  <2>1. known \in Seq(A) /\ others \in Seq(A)
    BY IsSeqOf
  <2> HIDE DEF A
  <2>2. /\ new \in Seq(A) /\ Len(new) = n + Len(others) /\ Len(others) \in Nat
        /\ \A i \in 1 .. n : new[i] = known[i]
    BY <2>1, ConcatProperties
  <2> HIDE DEF new, n
  <2>3. IsSeq(new)
    BY <2>2, SeqIsSeq
  <2>4. DOMAIN new = 1 .. Len(new) /\ Len(new) \in Nat
    BY <2>3, IsSeqOf
  <2> QED
    BY <1>1, <2>2, <2>4
<1> HIDE DEF new, n
<1> DEFINE first == Min(S0)
<1>4. first \in S0
  <2>1. S0 \subseteq Nat
    BY <1>1
  <2> HIDE DEF S0
  <2> QED
    BY <1>2, <2>1, MinIsThere
<1>5. S0 \subseteq S /\ S \subseteq Nat
  BY <1>1, <1>3
<1>6. ASSUME NEW i \in S PROVE first <= i
  <2>1. CASE i \in 1 .. n
    <3>1. i \in S0
      BY <1>1, <1>3, <2>1
    <3> HIDE DEF S0
    <3>2. S0 \subseteq Nat
      BY <1>5
    <3> QED
      BY <1>2, <3>1, <3>2, MinIsLeast
  <2>2. CASE i \notin 1 .. n
    <3>1. i \in Nat /\ i >= 1
      BY <1>3
    <3>2. first \in 1 .. n
      BY <1>1, <1>4
    <3> QED
      BY <1>1, <2>2, <3>1, <3>2
  <2> QED
    BY <2>1, <2>2
<1>7. first \in S /\ first \in 1 .. n
  BY <1>1, <1>4, <1>5
<1>8. new[first] = known[first] /\ FindName(known, ref) = known[first]
  BY <1>2, <1>3, <1>7
<1> HIDE DEF S, first
<1>9. Min(S) = first
  BY <1>5, <1>6, <1>7, LeastIs
<1>10. FindName(new, ref) = new[first]
  <2>1. S # {}
    BY <1>7
  <2> QED
    BY <1>9, <2>1 DEF FindName, FirstAt, S
<1> QED
  BY <1>8, <1>10 DEF new

(* gather_types never changes what a name is.                              *)
LEMMA GatherKeeps ==
  ASSUME NEW known, AllGood(known), NEW item, NEW ref, FindName(known, ref) # NoType
  PROVE  FindName(GatherItem(known, item), ref) = FindName(known, ref)
<1> DEFINE t == TypeOf(item)
           others == CASE item.kind = "interface" -> Added(known, Beside(item, ".Stub")) \o Added(known, Beside(item, ".Stub.Proxy"))
                       [] item.kind = "rpc" -> Added(known, Beside(item, ".ServiceBase"))
                       [] OTHER -> <<>>
           first == known \o <<t>>
<1>1. CASE FindName(known, ItemName(item)) # NoType
  <2>1. GatherItem(known, item) = known
    BY <1>1 DEF GatherItem
  <2> QED
    BY <2>1
<1>2. CASE FindName(known, ItemName(item)) = NoType
  <2>1. GatherItem(known, item) = first \o others
    BY <1>2 DEF GatherItem
  <2>2. IsSeq(others)
    <3>1. \A x : IsSeq(Added(known, x))
      BY SmallSeqs DEF Added
    <3>2. IsSeq(Added(known, Beside(item, ".Stub")) \o Added(known, Beside(item, ".Stub.Proxy")))
      BY <3>1, Joined
    <3> QED
      BY <3>1, <3>2, SmallSeqs
  <2> HIDE DEF others, t
  <2>3. IsSeq(known) /\ IsSeq(<<t>>)
    BY SmallSeqs DEF AllGood
  <2>4. FindName(first, ref) = FindName(known, ref) /\ IsSeq(first)
    BY <2>3, FoundStays, Joined
  <2> HIDE DEF first
  <2>5. FindName(first \o others, ref) = FindName(first, ref)
    BY <2>2, <2>4, FoundStays
  <2> QED
    BY <2>1, <2>4, <2>5
<1> QED
  BY <1>1, <1>2

(* A line whose error was dropped, for the names known.                    *)
Lost(known, line) ==
  LET t == FindName(known, ItemName(Declared(line)))
  IN t # NoType /\ t.kind # TypeOf(Declared(line)).kind

(* Every step of the compiler keeps the names as they were for these lines.*)
LEMMA StepKeepsDropped == CompilerInv /\ DroppedLose /\ CompilerStep => DroppedLose'
<1> SUFFICES ASSUME CompilerInv, DroppedLose, CompilerStep PROVE DroppedLose'
  OBVIOUS
<1>1. AllGood(names) /\ \A line \in dropped : Lost(names, line)
  BY DEF CompilerInv, NamesInv, DroppedLose, Lost
<1>2. SUFFICES \A line \in dropped' : Lost(names', line)
  BY DEF DroppedLose, Lost
<1>3. ASSUME NEW item, names' = GatherItem(names, item), NEW line \in dropped PROVE Lost(names', line)
  <2> DEFINE ref == ItemName(Declared(line))
  <2>1. FindName(names, ref) # NoType /\ FindName(names, ref).kind # TypeOf(Declared(line)).kind
    BY <1>1, <1>3 DEF Lost
  <2> HIDE DEF ref
  <2>2. FindName(names', ref) = FindName(names, ref)
    BY <1>1, <1>3, <2>1, GatherKeeps
  <2> QED
    BY <2>1, <2>2 DEF Lost, ref
<1>4. CASE Start
  BY <1>4 DEF Start
<1>5. CASE ReadPreprocessedLine
  <2> DEFINE f == options.preprocessedFiles[cursor[1]]
             text == Content(f).lines[cursor[2]]
             line == IF text.type = "none" THEN stale ELSE text
  <2>1. \/ UNCHANGED <<dropped, names>>
        \/ /\ names' = GatherItem(names, Declared(line))
           /\ dropped' = dropped \cup {l \in {line} : GatherErrors(names, Declared(l)) # {}}
    BY <1>5 DEF ReadPreprocessedLine
  <2> HIDE DEF line
  <2>2. CASE UNCHANGED <<dropped, names>>
    BY <1>1, <2>2
  <2>3. CASE /\ names' = GatherItem(names, Declared(line))
             /\ dropped' = dropped \cup {l \in {line} : GatherErrors(names, Declared(l)) # {}}
    <3>1. ASSUME NEW l \in dropped', l \notin dropped PROVE Lost(names', l)
      <4>1. l = line /\ GatherErrors(names, Declared(l)) # {}
        BY <2>3, <3>1
      <4> DEFINE old == FindName(names, ItemName(Declared(l)))
      <4>2. old # NoType /\ old.kind # TypeOf(Declared(l)).kind
        BY <4>1 DEF GatherErrors
      <4>3. names' = names
        BY <2>3, <4>1, <4>2 DEF GatherItem
      <4> QED
        BY <4>2, <4>3 DEF Lost
    <3> QED
      BY <1>3, <2>3, <3>1
  <2> QED
    BY <2>1, <2>2, <2>3
<1>6. CASE GatherTypes
  <2>1. dropped' = dropped /\ (names' = names \/ \E item : names' = GatherItem(names, item))
    BY <1>6 DEF GatherTypes
  <2> QED
    BY <1>1, <1>3, <2>1
<1>7. CASE UNCHANGED <<dropped, names>>
  BY <1>1, <1>7
<1>8. Start \/ ReadPreprocessedLine \/ GatherTypes \/ UNCHANGED <<dropped, names>>
  BY DEF CompilerStep, EndPreprocessedFile, EndPreprocessed, ParseMain, ParseImport, EndImports, CheckFilenames, EndGathering,
     CheckTypes, ExactlyOneInterface, AssignMethodIds, NameOutput, WriteDepFile, GenerateJava, PreprocessFile, WritePreprocessed
<1> QED
  BY <1>4, <1>5, <1>6, <1>7, <1>8

(* So a redefinition that is reported and dropped changes no name.         *)
LEMMA DroppedChangeNothing == Spec => []DroppedLose
<1>1. Init => DroppedLose
  BY DEF Init, CompilerInit, DroppedLose
<1>2. CompilerInv /\ DroppedLose /\ [Next]_vars => DroppedLose'
  <2>1. DroppedLose /\ UNCHANGED compilerVars => DroppedLose'
    BY DEF DroppedLose, compilerVars
  <2> QED
    BY <2>1, StepKeepsDropped, BinderLeavesCompiler DEF Next, Compile, Binder, vars
<1> QED
  BY <1>1, <1>2, CompilerInvariant, PTL DEF Spec

(* An error that the compiler counts stops it; one that it drops changes   *)
(* nothing; and what it accepts can be marshalled and told apart.          *)
THEOREM CompilerIsSound == Spec => []CompilerSound
<1>1. CompilerInv /\ RpcInv /\ BinderInv => AidlTypeOK
  <2> SUFFICES ASSUME CompilerInv, RpcInv, BinderInv PROVE AidlTypeOK
    OBVIOUS
  <2>1. /\ stage \in Stages /\ result \in {"none", "0", "1", "abort"}
        /\ onlyParcelable \in BOOLEAN /\ err \in BOOLEAN
    BY Zenon DEF CompilerInv, PlacesInv, ErrInv
  <2>2. \A i \in DOMAIN ids : ids[i] \in -(Word \div 2) .. (Word \div 2) - 1
    BY DEF CompilerInv, IdsInv, Ints
  <2>3. \A i \in DOMAIN names : names[i].kind \in Kinds4
    BY DEF CompilerInv, NamesInv, AllGood, Good, ToSet
  <2>4. client.pc \in {"idle", "built", "sent", "replied"} /\ calls \in 0 .. MaxCalls
    BY DEF BinderInv, ClientInv
  <2>5. alive \in BOOLEAN
    BY Zenon DEF BinderInv
  <2>6. sent \in 0 .. MaxCalls /\ presenter \in 0 .. MaxCalls
    BY MaxCallsAssumption DEF RpcInv
  <2>7. /\ stage \in {"start", "preprocess", "preprocessed", "main", "imports", "filenames", "gather", "types", "one", "ids",
                      "output", "dep", "java", "end"}
        /\ \A i \in DOMAIN names : names[i].kind \in {"builtin", "userdata", "interface", "generated"}
    BY <2>1, <2>3 DEF Stages, Kinds4
  <2> QED
    BY <2>1, <2>2, <2>4, <2>5, <2>6, <2>7, Zenon DEF AidlTypeOK
<1>2. CompilerInv /\ RpcInv /\ BinderInv /\ DroppedLose => CompilerSound
  BY <1>1, ErrorsDoStop, GapsAreKnown, CodesAreDistinct DEF CompilerSound
<1> QED
  BY <1>2, CompilerInvariant, RpcInvariant, BinderInvariant, DroppedChangeNothing, PTL
===============================================================================
