------------------------ MODULE ThriftTransport_proof ------------------------
(***************************************************************************)
(* Proofs about ThriftTransport, for buffers of every length and for every *)
(* choice of the methods that the subclasses implement: a readAll that     *)
(* returns has filled the buffer, and every call reaches the code of the   *)
(* proper subclass.                                                        *)
(***************************************************************************)
EXTENDS ThriftTransport, TLAPS

-----------------------------------------------------------------------------
(* Which function a call reaches.                                          *)

(* Lowest, the class the dispatch chooses, is the greatest of the set.     *)
LEMMA LowestIs ==
  ASSUME NEW S \in SUBSET Classes, NEW c \in S, \A d \in S : d <= c
  PROVE  Lowest(S) = c
<1>1. \A d \in S : d \in Nat
  BY DEF Classes, TTransport, Derived
<1>2. \A e \in S : (\A d \in S : d <= e) => e = c
  BY <1>1
<1> QED  BY <1>2 DEF Lowest

(* Lowest of a set of classes that has the root is a member of it.         *)
LEMMA LowestIn ==
  ASSUME NEW S \in SUBSET Classes, TTransport \in S
  PROVE  Lowest(S) \in S
<1>1. \E c \in S : \A d \in S : d <= c
  <2>1. \A d \in S : d \in {1, 2, 3, 4, 5, 6}
    BY DEF Classes, TTransport, Derived
  <2>2. 1 \in S
    BY DEF TTransport
  <2>3. CASE 6 \in S
    BY <2>1, <2>3
  <2>4. CASE 6 \notin S /\ 5 \in S
    BY <2>1, <2>4
  <2>5. CASE 6 \notin S /\ 5 \notin S /\ 4 \in S
    BY <2>1, <2>5
  <2>6. CASE 6 \notin S /\ 5 \notin S /\ 4 \notin S /\ 3 \in S
    BY <2>1, <2>6
  <2>7. CASE 6 \notin S /\ 5 \notin S /\ 4 \notin S /\ 3 \notin S
    <3>1. \A d \in S : d \in {1, 2}
      BY <2>1, <2>7
    <3> QED  BY <3>1, <2>2
  <2> QED  BY <2>3, <2>4, <2>5, <2>6, <2>7
<1> QED  BY <1>1 DEF Lowest

(* A call through any static type reaches a function of some class.        *)
LEMMA MethodType ==
  ASSUME NEW c \in Classes, NEW m \in Methods
  PROVE  /\ Method(c, m) \in Frames
         /\ Method(c, m).m = m
         /\ ~Method(c, m).virt
         /\ Method(c, m) # NoFrame
<1> DEFINE S == {d \in Classes : d <= c /\ Declares(d, m)}
<1>1. TTransport \in S
  BY DEF Classes, TTransport, TTransportDefaults, Derived, Declares
<1>2. S \in SUBSET Classes
  OBVIOUS
<1>3. Lowest(S) \in Classes
  BY <1>1, <1>2, LowestIn
<1> QED  BY <1>3 DEF Method, Frames, NoFrame, Methods

(* The function of the class itself, or of the adapter above it, that a    *)
(* virtual call reaches.                                                   *)
LEMMA VirtualIs ==
  ASSUME cls \in UserClasses, NEW m \in Methods
  PROVE  VirtualMethod(m) = [cls |-> cls - 1, m |-> m, virt |-> TRUE]
<1> DEFINE S == {d \in Adapters \cup {TTransport} : d <= cls}
<1> USE DEF Adapters, UserClasses, TTransport, BaseVirtual, Base, DerivedVirtual, Derived, Classes
<1>1. S \in SUBSET Classes /\ cls - 1 \in S /\ (\A d \in S : d <= cls - 1)
  OBVIOUS
<1>2. Lowest(S) = cls - 1
  BY <1>1, LowestIs
<1> QED  BY <1>2 DEF VirtualMethod

(* The implementation nearest to the object's class is TTransport's        *)
(* default, or one of a user class that has the method.                    *)
LEMMA ImplementerIs ==
  ASSUME cls \in UserClasses, overrides \in [UserClasses -> SUBSET Methods], NEW m \in Methods
  PROVE  /\ Implementer(cls, m) \in {TTransport, Base, Derived}
         /\ Implementer(cls, m) <= cls
         /\ Implementer(cls, m) \in UserClasses => m \in overrides[Implementer(cls, m)]
         /\ \A d \in UserClasses : d <= cls /\ m \in overrides[d] => d <= Implementer(cls, m)
         /\ m \in overrides[cls] => Implementer(cls, m) = cls
<1> DEFINE S == {TTransport} \cup {d \in UserClasses : d <= cls /\ m \in overrides[d]}
<1> USE DEF UserClasses, TTransport, Base, Derived, Classes
<1>1. S \in SUBSET Classes /\ TTransport \in S
  OBVIOUS
<1>2. CASE Derived \in S
  <2>1. \A d \in S : d <= Derived
    OBVIOUS
  <2>2. Lowest(S) = Derived
    BY <1>1, <1>2, <2>1, LowestIs
  <2> QED  BY <1>2, <2>2 DEF Implementer
<1>3. CASE Derived \notin S /\ Base \in S
  <2>1. \A d \in S : d <= Base
    BY <1>3
  <2>2. Lowest(S) = Base
    BY <1>1, <1>3, <2>1, LowestIs
  <2> QED  BY <1>3, <2>2 DEF Implementer
<1>4. CASE Derived \notin S /\ Base \notin S
  <2>1. \A d \in S : d <= TTransport
    BY <1>4
  <2>2. Lowest(S) = TTransport
    BY <1>1, <1>4, <2>1, LowestIs
  <2> QED  BY <1>4, <2>2 DEF Implementer
<1> QED  BY <1>2, <1>3, <1>4

(* A call through the object's own class reaches the nearest               *)
(* implementation of a user class, or the default of TTransportDefaults.   *)
LEMMA MethodIs ==
  ASSUME cls \in UserClasses, overrides \in [UserClasses -> SUBSET Methods],
         NEW m \in Methods, m # "readAll"
  PROVE  Method(cls, m).cls = IF Implementer(cls, m) = TTransport THEN TTransportDefaults
                              ELSE Implementer(cls, m)
<1> DEFINE S == {d \in Classes : d <= cls /\ Declares(d, m)}
           c == IF Implementer(cls, m) = TTransport THEN TTransportDefaults ELSE Implementer(cls, m)
<1> USE DEF UserClasses, TTransport, TTransportDefaults, Base, Derived, BaseVirtual,
            DerivedVirtual, Adapters, Classes
<1>1. S \in SUBSET Classes
  OBVIOUS
<1>2. c \in S
  BY ImplementerIs DEF Declares
<1>3. \A d \in S : d <= c
  BY ImplementerIs DEF Declares
<1>4. Lowest(S) = c
  BY <1>1, <1>2, <1>3, LowestIs
<1> QED  BY <1>4 DEF Method

(* readAll through the object's own class: its own, or the adapter's.      *)
LEMMA ReadAllIs ==
  ASSUME cls \in UserClasses, overrides \in [UserClasses -> SUBSET Methods]
  PROVE  Method(cls, "readAll").cls = IF "readAll" \in overrides[cls] THEN cls ELSE cls - 1
<1> DEFINE S == {d \in Classes : d <= cls /\ Declares(d, "readAll")}
           c == IF "readAll" \in overrides[cls] THEN cls ELSE cls - 1
<1> USE DEF UserClasses, TTransport, TTransportDefaults, Base, Derived, BaseVirtual,
            DerivedVirtual, Adapters, Classes
<1>1. S \in SUBSET Classes
  OBVIOUS
<1>2. c \in S
  BY DEF Declares
<1>3. \A d \in S : d <= c
  BY DEF Declares
<1>4. Lowest(S) = c
  BY <1>1, <1>2, <1>3, LowestIs
<1> QED  BY <1>4 DEF Method

(* A call through TTransport& reaches TTransport's own function.           *)
LEMMA RootIs ==
  ASSUME NEW m \in Methods
  PROVE  Method(TTransport, m) = [cls |-> TTransport, m |-> m, virt |-> FALSE]
<1> DEFINE S == {d \in Classes : d <= TTransport /\ Declares(d, m)}
<1>1. S \in SUBSET Classes /\ TTransport \in S /\ (\A d \in S : d <= TTransport)
  BY DEF Classes, TTransport, TTransportDefaults, Derived, Declares
<1>2. Lowest(S) = TTransport
  BY <1>1, LowestIs
<1> QED  BY <1>2 DEF Method

-----------------------------------------------------------------------------
(* The buffer.                                                             *)

\* Between the steps of a call: what has been read is where it belongs.
ReadInv ==
  /\ TypeOK
  /\ frame # NoFrame => result = Nothing
  /\ trans = 0 /\ frame # NoFrame => have = 0 /\ pos = 0
  /\ trans # 0 => /\ have = pos /\ have <= len
                  /\ \A i \in 1..MaxLen : buf[i] = IF i <= pos THEN i ELSE 0
  /\ trans # 0 /\ frame # NoFrame => frame.m = "read" /\ have < len
  /\ trans = 0 /\ frame # NoFrame => buf = Blank
  /\ trans # 0 /\ result.kind = "returned" => have = len /\ result.val = len

(* The sum have + get of readAll does not wrap around.                     *)
LEMMA NoWrap ==
  ASSUME NEW a \in 0..MaxLen
  PROVE  a % Modulus = a
BY LenAssumption

LEMMA ReadInit == Init => ReadInv
<1> SUFFICES ASSUME Init PROVE ReadInv
  OBVIOUS
<1>1. TypeOK
  BY LenAssumption DEF Init, TypeOK, NoFrame, Nothing, Blank, Classes, TTransport, Derived, Methods
<1> QED  BY <1>1 DEF Init, ReadInv, Nothing

(* A read inside readAll.                                                  *)
LEMMA UserReadStep ==
  ASSUME ReadInv, UserRead
  PROVE  ReadInv'
<1> USE LenAssumption
<1>0. frame # NoFrame
  BY DEF UserRead, UserClasses, NoFrame, TTransport, Base, Derived
<1>1. /\ cls \in UserClasses /\ overrides \in [UserClasses -> SUBSET Methods]
      /\ view \in {TTransport} \cup UserClasses /\ call \in Methods /\ len \in 0..MaxLen
      /\ trans \in {0, TTransport} \cup UserClasses
      /\ have \in 0..(Modulus - 1) /\ pos \in 0..MaxLen
      /\ buf \in [1..MaxLen -> 0..MaxLen] /\ served \in SUBSET Classes
      /\ result = Nothing
  BY <1>0 DEF ReadInv, TypeOK
<1>2. served' \subseteq Classes
  <2>1. frame.cls \in UserClasses /\ served' = served \cup {frame.cls}
    BY DEF UserRead
  <2>2. UserClasses \subseteq Classes
    BY DEF UserClasses, Classes, TTransport, Base, Derived
  <2> QED  BY <1>1, <2>1, <2>2
<1>3. CASE End(Thrown) /\ UNCHANGED <<have, buf, pos>>
  BY <1>0, <1>1, <1>2, <1>3 DEF ReadInv, TypeOK, End, Thrown, NoFrame
<1>4. ASSUME NEW n \in 0..Room,
             buf' = [i \in 1..MaxLen |-> IF i > have /\ i <= have + n
                                         THEN pos + (i - have) ELSE buf[i]],
             pos' = pos + n,
             IF trans = 0 THEN End(Value(n)) /\ UNCHANGED have ELSE ReadAllGot(n)
      PROVE  ReadInv'
  <2>1. have <= len /\ have = pos /\ have + n \in 0..MaxLen /\ n \in 0..MaxLen
    BY <1>0, <1>1, <1>4 DEF ReadInv, Room
  <2>2. pos' \in 0..MaxLen /\ pos' <= len
    BY <1>1, <1>4, <2>1 DEF Room
  <2>3. buf' \in [1..MaxLen -> 0..MaxLen]
    <3>1. ASSUME NEW i \in 1..MaxLen
          PROVE  (IF i > have /\ i <= have + n THEN pos + (i - have) ELSE buf[i]) \in 0..MaxLen
      BY <1>1, <2>1
    <3> QED  BY <1>4, <3>1
  <2>4. CASE trans = 0
    <3>1. /\ frame' = NoFrame /\ result' = Value(n) /\ have' = have
          /\ UNCHANGED <<cls, overrides, view, call, len, trans>>
      BY <1>4, <2>4 DEF End
    <3>2. result' \in [kind : {"none", "returned", "thrown"}, val : 0..(Modulus - 1)]
      BY <3>1, <2>1 DEF Value
    <3>3. TypeOK'
      BY <1>1, <1>2, <2>2, <2>3, <3>1, <3>2 DEF TypeOK
    <3> QED  BY <2>4, <3>1, <3>3 DEF ReadInv
  <2>5. CASE trans # 0
    <3>0. \A i \in 1..MaxLen : buf[i] = IF i <= pos THEN i ELSE 0
      BY <2>5 DEF ReadInv
    <3>1. ReadAllGot(n)
      BY <1>4, <2>5
    <3>2. \A i \in 1..MaxLen : buf'[i] = IF i <= pos' THEN i ELSE 0
      BY <1>1, <1>4, <2>1, <3>0
    <3>3. UNCHANGED <<cls, overrides, view, call, len, trans>>
      BY <3>1 DEF ReadAllGot, End
    <3>4. CASE n = 0
      <4>1. End(Thrown) /\ have' = have
        BY <3>1, <3>4 DEF ReadAllGot
      <4>2. frame' = NoFrame /\ result' = Thrown
        BY <4>1 DEF End
      <4>3. TypeOK'
        BY <1>1, <1>2, <2>2, <2>3, <3>3, <4>1, <4>2 DEF TypeOK, Thrown
      <4> QED  BY <1>4, <3>4, <2>5, <2>1, <2>2, <3>2, <3>3, <4>1, <4>2, <4>3, <1>1 DEF ReadInv, Thrown
    <3>5. CASE n # 0
      <4>1. have' = have + n /\ have' = pos'
        <5>1. have' = (have + n) % Modulus
          BY <3>1, <3>5 DEF ReadAllGot
        <5> QED  BY <5>1, <1>4, <2>1, NoWrap
      <4>2. CASE have' >= len
        <5>1. End(Value(have'))
          BY <3>1, <3>5, <4>2 DEF ReadAllGot
        <5>2. frame' = NoFrame /\ result' = Value(have') /\ have' = len
          BY <5>1, <4>1, <4>2, <2>2, <1>1 DEF End
        <5>3. TypeOK'
          BY <1>1, <1>2, <2>2, <2>3, <3>3, <4>1, <5>2 DEF TypeOK, Value
        <5> QED  BY <5>2, <5>3, <4>1, <2>2, <2>5, <3>2, <3>3 DEF ReadInv, Value
      <4>3. CASE ~(have' >= len)
        <5>1. frame' = Method(trans, "read") /\ result' = result
          BY <3>1, <3>5, <4>3 DEF ReadAllGot
        <5>2. trans \in Classes
          BY <1>1, <2>5 DEF Classes, UserClasses, TTransport, Base, Derived
        <5>3. frame' \in Frames /\ frame'.m = "read"
          BY <5>1, <5>2, MethodType DEF Methods
        <5>4. TypeOK'
          BY <1>1, <1>2, <2>2, <2>3, <3>3, <4>1, <5>1, <5>3 DEF TypeOK, Nothing
        <5>5. have' < len'
          BY <4>3, <4>1, <2>2, <3>3, <1>1
        <5> QED  BY <5>1, <5>3, <5>4, <5>5, <4>1, <2>2, <2>5, <3>2, <3>3, <1>1 DEF ReadInv, Nothing
      <4> QED  BY <4>2, <4>3
    <3> QED  BY <3>4, <3>5
  <2> QED  BY <2>4, <2>5
<1> QED  BY <1>3, <1>4 DEF UserRead

LEMMA ReadNext ==
  ASSUME ReadInv, [Next]_vars
  PROVE  ReadInv'
<1> USE LenAssumption
<1>0. TypeOK
  BY DEF ReadInv
<1>a. UserClasses \subseteq Classes /\ TTransport \in Classes /\ 0 \notin UserClasses
  BY DEF UserClasses, Classes, TTransport, Base, Derived
<1>1. ASSUME NEW m \in Methods, NEW v \in {TTransport} \cup UserClasses, NEW n \in 0..MaxLen,
             Call(m, v, n)
      PROVE  ReadInv'
  <2>1. Method(v, m) \in Frames
    BY <1>a, MethodType
  <2>2. Blank \in [1..MaxLen -> 0..MaxLen]
    BY DEF Blank
  <2>3. TypeOK'
    BY <1>0, <1>1, <2>1, <2>2 DEF TypeOK, Call, Nothing
  <2> QED  BY <1>1, <2>3 DEF ReadInv, Call, Nothing
<1>2. CASE Forward
  <2>0. frame \in Frames /\ frame # NoFrame
    BY <1>0, <1>2 DEF Forward, TypeOK
  <2>1. frame.m \in Methods /\ frame.cls \in Classes /\ frame.virt \in BOOLEAN
    BY <2>0 DEF Frames
  <2>2. CASE frame.cls = TTransport /\ ~frame.virt
    <3>1. frame' = VirtualMethod(frame.m)
      BY <1>2, <2>1, <2>2 DEF Forward, Target, TTransport, TTransportDefaults, Adapters, BaseVirtual,
                              DerivedVirtual
    <3>2. cls - 1 \in Classes
      BY <1>0 DEF TypeOK, UserClasses, Classes, TTransport, Base, Derived
    <3>3. frame' = [cls |-> cls - 1, m |-> frame.m, virt |-> TRUE]
      BY <3>1, <1>0, <2>1, VirtualIs DEF TypeOK
    <3>5. frame' \in Frames /\ frame'.m = frame.m
      BY <3>3, <3>2, <2>1 DEF Frames
    <3>4. TypeOK'
      BY <1>0, <1>2, <3>5 DEF TypeOK, Forward
    <3> QED  BY <1>2, <2>0, <3>5, <3>4 DEF ReadInv, Forward
  <2>3. CASE frame.cls = TTransportDefaults /\ ~frame.virt
    <3>1. frame' = [frame EXCEPT !.cls = TTransport, !.virt = TRUE]
      BY <1>2, <2>3 DEF Forward, Target, TTransport, TTransportDefaults
    <3>3. frame' \in Frames /\ frame'.m = frame.m
      BY <3>1, <2>0, <1>a DEF Frames
    <3>4. TypeOK'
      BY <1>0, <1>2, <3>3 DEF TypeOK, Forward
    <3> QED  BY <1>2, <2>0, <3>3, <3>4 DEF ReadInv, Forward
  <2>4. CASE frame.cls \in Adapters /\ frame.virt
    <3>1. frame' = Method(Transport_(frame.cls), frame.m)
      BY <1>2, <2>4 DEF Forward, Target, TTransport, TTransportDefaults
    <3>2. Transport_(frame.cls) \in Classes
      BY <2>4 DEF Transport_, Adapters, BaseVirtual, DerivedVirtual, Classes, TTransport, Derived
    <3>3. frame' \in Frames /\ frame'.m = frame.m
      BY <3>1, <3>2, <2>1, MethodType
    <3>4. TypeOK'
      BY <1>0, <1>2, <3>3 DEF TypeOK, Forward
    <3> QED  BY <1>2, <2>0, <3>3, <3>4 DEF ReadInv, Forward
  <2>5. Target(frame) # frame
    BY <1>2 DEF Forward
  <2> QED  BY <2>2, <2>3, <2>4, <2>5 DEF Target
<1>3. CASE RootFunction
  <2>1. frame # NoFrame
    BY <1>3 DEF RootFunction, NoFrame
  <2>2. served' \subseteq Classes
    BY <1>0, <1>3, <1>a DEF RootFunction, TypeOK
  <2>3. frame' = NoFrame /\ (result' = Thrown \/ (frame.m = "borrow" /\ result' = Value(0)))
        /\ UNCHANGED <<cls, overrides, view, call, len, trans, have, buf, pos>>
    BY <1>3 DEF RootFunction, End
  <2>4. TypeOK'
    BY <1>0, <2>2, <2>3 DEF TypeOK, Thrown, Value
  <2> QED  BY <2>1, <2>3, <2>4 DEF ReadInv, Thrown, Value
<1>4. CASE EnterReadAll
  <2>1. frame # NoFrame /\ frame.m = "readAll"
    BY <1>4 DEF EnterReadAll, NoFrame
  <2>2. trans = 0 /\ have = 0 /\ pos = 0 /\ buf = Blank /\ result = Nothing
    BY <2>1 DEF ReadInv
  <2>3. trans' \in {TTransport} \cup UserClasses
    BY <1>4 DEF EnterReadAll, Transport_, Adapters, UserClasses, BaseVirtual, DerivedVirtual,
                Base, Derived
  <2>4. Method(trans', "read") \in Frames /\ Method(trans', "read").m = "read"
    BY <2>3, <1>a, MethodType DEF Methods
  <2>5. UNCHANGED <<cls, overrides, view, call, len, have, buf, pos, served>>
    BY <1>4 DEF EnterReadAll
  <2>6. \A i \in 1..MaxLen : buf'[i] = IF i <= pos' THEN i ELSE 0
    BY <2>2, <2>5 DEF Blank
  <2>7. CASE have < len /\ frame' = Method(trans', "read") /\ UNCHANGED result
    <3>1. TypeOK'
      BY <1>0, <2>3, <2>4, <2>5, <2>7 DEF TypeOK
    <3> QED  BY <3>1, <2>2, <2>3, <2>4, <2>5, <2>6, <2>7, <1>0 DEF ReadInv, Nothing, TypeOK
  <2>8. CASE have >= len /\ frame' = NoFrame /\ result' = Value(have)
    <3>1. TypeOK'
      BY <1>0, <2>2, <2>3, <2>5, <2>8 DEF TypeOK, Value
    <3> QED  BY <3>1, <2>2, <2>5, <2>6, <2>8, <1>0 DEF ReadInv, Value, TypeOK
  <2> QED  BY <1>4, <2>7, <2>8 DEF EnterReadAll
<1>5. CASE UserRead
  BY <1>5, UserReadStep
<1>6. CASE UserOther
  <2>1. frame # NoFrame /\ frame.m # "read"
    BY <1>6 DEF UserOther, UserClasses, NoFrame, TTransport, Base, Derived
  <2>2. served' \subseteq Classes
    BY <1>0, <1>6, <1>a DEF UserOther, TypeOK
  <2>3. frame' = NoFrame /\ result' \in {Thrown, Value(0)}
        /\ UNCHANGED <<cls, overrides, view, call, len, trans, have, buf, pos>>
    BY <1>6 DEF UserOther, End
  <2>4. TypeOK'
    BY <1>0, <2>2, <2>3 DEF TypeOK, Thrown, Value
  <2> QED  BY <2>1, <2>3, <2>4 DEF ReadInv
<1>7. CASE UNCHANGED vars
  BY <1>7 DEF vars, ReadInv, TypeOK
<1> QED  BY <1>1, <1>2, <1>3, <1>4, <1>5, <1>6, <1>7 DEF Next, Step

(* Every variable keeps its type: a readAll never asks for more than the   *)
(* room that is left (TTransport.h, readAll).                              *)
THEOREM TypeCorrect ==
  Spec => []TypeOK
<1>1. ReadInv => TypeOK
  BY DEF ReadInv
<1>2. ReadInv /\ [Next]_vars => ReadInv'
  BY ReadNext
<1> QED  BY ReadInit, <1>1, <1>2, PTL DEF Spec

(* readAll loses, repeats or reorders no byte however the stream splits    *)
(* them, and fills the buffer when it returns.                             *)
THEOREM WholeBuffer ==
  Spec => []ReadAllWhole
<1>1. ReadInv => ReadAllWhole
  BY DEF ReadInv, ReadAllWhole
<1>2. ReadInv /\ [Next]_vars => ReadInv'
  BY ReadNext
<1> QED  BY ReadInit, <1>1, <1>2, PTL DEF Spec

-----------------------------------------------------------------------------
(* The class that serves a call.                                           *)

(* The functions a call of m runs through, when it is made through         *)
(* TTransport& or through the object's own class.                          *)
Path(m) ==
  {[cls |-> TTransport, m |-> m, virt |-> FALSE],
   [cls |-> cls - 1, m |-> m, virt |-> TRUE],
   Method(cls, m)}
  \cup {f \in {[cls |-> TTransport, m |-> m, virt |-> TRUE]} :
          m # "readAll" /\ Implementer(cls, m) = TTransport}

PathInv ==
  view \in {TTransport, cls} =>
    /\ trans = 0 /\ frame # NoFrame => served = {} /\ frame \in Path(call)
    /\ trans # 0 => /\ trans = cls /\ call = "readAll" /\ "readAll" \notin overrides[cls]
                    /\ served \subseteq {Implementer(cls, "read")}
                    /\ frame # NoFrame => frame \in Path("read")
    /\ ProperSubclass

(* What the functions of a path are: each calls the next one, and only the *)
(* nearest implementation ends it.                                         *)
LEMMA PathFacts ==
  ASSUME cls \in UserClasses, overrides \in [UserClasses -> SUBSET Methods],
         NEW m \in Methods, NEW f \in Path(m)
  PROVE  /\ f.m = m
         /\ Target(f) \in Path(m)
         /\ f.cls \in UserClasses /\ ~f.virt =>
              IF m = "readAll" THEN f.cls = cls /\ m \in overrides[cls]
              ELSE f.cls = Implementer(cls, m)
         /\ f.cls = TTransport /\ f.virt => m # "readAll" /\ Implementer(cls, m) = TTransport
         /\ f.cls \in Adapters /\ ~f.virt =>
              m = "readAll" /\ f.cls = cls - 1 /\ m \notin overrides[cls]
<1> USE DEF UserClasses, Adapters, TTransport, TTransportDefaults, BaseVirtual, Base,
            DerivedVirtual, Derived, Classes
<1>0. Method(cls, m).m = m /\ ~Method(cls, m).virt /\ Method(cls, m).cls \in Classes
      /\ Method(cls, m) = [cls |-> Method(cls, m).cls, m |-> m, virt |-> FALSE]
  BY MethodType DEF Frames, Method
<1>1. CASE f = [cls |-> TTransport, m |-> m, virt |-> FALSE]
  <2>1. Target(f) = VirtualMethod(m)
    BY <1>1 DEF Target
  <2>2. Target(f) = [cls |-> cls - 1, m |-> m, virt |-> TRUE]
    BY <2>1, VirtualIs
  <2> QED  BY <1>1, <2>2 DEF Path
<1>2. CASE f = [cls |-> cls - 1, m |-> m, virt |-> TRUE]
  <2>1. Target(f) = Method(Transport_(cls - 1), m)
    BY <1>2 DEF Target
  <2>2. Transport_(cls - 1) = cls
    BY DEF Transport_
  <2> QED  BY <1>2, <2>1, <2>2 DEF Path
<1>3. CASE f = Method(cls, m) /\ m # "readAll" /\ Implementer(cls, m) = TTransport
  <2>1. f = [cls |-> TTransportDefaults, m |-> m, virt |-> FALSE]
    BY <1>0, <1>3, MethodIs
  <2>2. Target(f) = [f EXCEPT !.cls = TTransport, !.virt = TRUE]
    BY <2>1 DEF Target
  <2>3. Target(f) = [cls |-> TTransport, m |-> m, virt |-> TRUE]
    BY <2>1, <2>2
  <2> QED  BY <1>3, <2>1, <2>3 DEF Path
<1>4. CASE f = Method(cls, m) /\ m # "readAll" /\ Implementer(cls, m) # TTransport
  <2>1. f = [cls |-> Implementer(cls, m), m |-> m, virt |-> FALSE]
    BY <1>0, <1>4, MethodIs
  <2>2. Implementer(cls, m) \in UserClasses
    BY <1>4, ImplementerIs
  <2>3. Target(f) = f
    BY <2>1, <2>2 DEF Target
  <2> QED  BY <1>4, <2>1, <2>2, <2>3
<1>5. CASE f = Method(cls, m) /\ m = "readAll"
  <2>1. f = [cls |-> IF m \in overrides[cls] THEN cls ELSE cls - 1, m |-> m, virt |-> FALSE]
    BY <1>0, <1>5, ReadAllIs
  <2>2. Target(f) = f
    BY <2>1 DEF Target
  <2> QED  BY <1>5, <2>1, <2>2
<1>6. CASE f = [cls |-> TTransport, m |-> m, virt |-> TRUE] /\ m # "readAll"
           /\ Implementer(cls, m) = TTransport
  <2>1. Target(f) = f
    BY <1>6 DEF Target
  <2> QED  BY <1>6, <2>1
<1> QED  BY <1>1, <1>2, <1>3, <1>4, <1>5, <1>6 DEF Path

LEMMA PathInit == Init => PathInv
BY DEF Init, PathInv, ProperSubclass, UserClasses, Base, Derived

(* Paths and implementers depend on the class and its methods alone.       *)
LEMMA PathSame ==
  ASSUME cls' = cls, overrides' = overrides, NEW m \in Methods
  PROVE  /\ Path(m)' = Path(m)
         /\ Implementer(cls, m)' = Implementer(cls, m)
<1>1. Implementer(cls, m)' = Implementer(cls, m)
  BY DEF Implementer
<1>2. Method(cls, m)' = Method(cls, m)
  BY DEF Method, Declares
<1> QED  BY <1>1, <1>2 DEF Path

LEMMA PathNext ==
  ASSUME ReadInv, PathInv, [Next]_vars
  PROVE  PathInv'
<1>0. /\ cls \in UserClasses /\ overrides \in [UserClasses -> SUBSET Methods]
      /\ call \in Methods /\ "read" \in Methods /\ "readAll" \in Methods
  BY DEF ReadInv, TypeOK, Methods
<1>1. cls' = cls /\ overrides' = overrides
  BY DEF Next, Step, vars, Call, Forward, RootFunction, EnterReadAll, UserRead, UserOther, End,
         ReadAllGot
<1>2. \A m \in Methods : Path(m)' = Path(m) /\ Implementer(cls, m)' = Implementer(cls, m)
  BY <1>1, PathSame
<1>3. ASSUME NEW m \in Methods, NEW v \in {TTransport} \cup UserClasses, NEW n \in 0..MaxLen,
             Call(m, v, n)
      PROVE  PathInv'
  <2>1. v \in {TTransport, cls} => Method(v, m) \in Path(m)
    BY RootIs DEF Path
  <2>2. trans' = 0 /\ served' = {} /\ frame' = Method(v, m) /\ view' = v /\ call' = m
    BY <1>3 DEF Call
  <2> QED  BY <1>1, <1>2, <2>1, <2>2 DEF PathInv, ProperSubclass
<1>4. ASSUME view \in {TTransport, cls}, Step
      PROVE  PathInv'
  <2>0. view' = view /\ call' = call
    BY <1>4 DEF Step, Forward, RootFunction, EnterReadAll, UserRead, UserOther, End, ReadAllGot
  <2>1. frame # NoFrame
    BY <1>4 DEF Step, Forward, RootFunction, EnterReadAll, UserRead, UserOther, NoFrame,
                UserClasses, TTransport, Base, Derived
  <2>2. /\ trans = 0 => served = {} /\ frame \in Path(call)
        /\ trans # 0 => /\ trans = cls /\ call = "readAll" /\ "readAll" \notin overrides[cls]
                        /\ served \subseteq {Implementer(cls, "read")}
                        /\ frame \in Path("read")
    BY <1>4, <2>1 DEF PathInv
  <2>3. ASSUME NEW m \in Methods, frame \in Path(m)
        PROVE  /\ frame.m = m
               /\ Target(frame) \in Path(m)
               /\ frame.cls \in UserClasses /\ ~frame.virt =>
                    IF m = "readAll" THEN frame.cls = cls /\ m \in overrides[cls]
                    ELSE frame.cls = Implementer(cls, m)
               /\ frame.cls = TTransport /\ frame.virt => m # "readAll" /\ Implementer(cls, m) = TTransport
               /\ frame.cls \in Adapters /\ ~frame.virt =>
                    m = "readAll" /\ frame.cls = cls - 1 /\ m \notin overrides[cls]
    BY <1>0, <2>3, PathFacts
  <2>4. CASE Forward
    <3>1. frame' = Target(frame) /\ trans' = trans /\ served' = served
      BY <2>4 DEF Forward
    <3>2. ProperSubclass'
      BY <1>0, <1>1, <1>2, <2>0, <2>2, <3>1 DEF ProperSubclass
    <3> QED  BY <1>0, <1>1, <1>2, <2>0, <2>2, <2>3, <3>1, <3>2 DEF PathInv
  <2>5. CASE RootFunction
    <3>1. /\ frame' = NoFrame /\ trans' = trans /\ served' = served \cup {TTransport}
          /\ frame.cls = TTransport /\ frame.virt
      BY <2>5 DEF RootFunction, End
    <3>2. CASE trans = 0
      <4>1. call # "readAll" /\ served' = {Implementer(cls, call)}
        BY <1>0, <2>2, <2>3, <3>1, <3>2
      <4> QED  BY <1>0, <1>1, <1>2, <2>0, <3>1, <3>2, <4>1 DEF PathInv, ProperSubclass
    <3>3. CASE trans # 0
      <4>1. served' \subseteq {Implementer(cls, "read")}
        BY <1>0, <2>2, <2>3, <3>1, <3>3
      <4> QED  BY <1>0, <1>1, <1>2, <2>0, <2>2, <3>1, <3>3, <4>1 DEF PathInv, ProperSubclass
    <3> QED  BY <3>2, <3>3
  <2>6. CASE EnterReadAll
    <3>1. frame.m = "readAll" /\ served' = served
      BY <2>6 DEF EnterReadAll
    <3>2. trans = 0 /\ call = "readAll" /\ served = {} /\ frame \in Path("readAll")
      BY <1>0, <2>2, <2>3, <3>1
    <3>3. frame.cls \in Adapters /\ ~frame.virt /\ trans' = Transport_(frame.cls)
      BY <1>0, <2>3, <2>6, <3>2 DEF EnterReadAll
    <3>4. trans' = cls /\ "readAll" \notin overrides[cls]
      BY <1>0, <2>3, <3>2, <3>3 DEF Transport_, UserClasses, Base, Derived
    <3>5. frame' = NoFrame \/ frame' = Method(cls, "read")
      <4>1. frame' = NoFrame \/ frame' = Method(trans', "read")
        BY <2>6 DEF EnterReadAll
      <4> QED  BY <3>4, <4>1
    <3>6. frame' # NoFrame => frame' \in Path("read")
      BY <3>5 DEF Path
    <3> QED  BY <1>0, <1>1, <1>2, <2>0, <3>1, <3>2, <3>4, <3>6
             DEF PathInv, ProperSubclass, UserClasses, Base, Derived
  <2>7. CASE UserRead
    <3>1. /\ frame.m = "read" /\ frame.cls \in UserClasses /\ ~frame.virt
          /\ served' = served \cup {frame.cls} /\ trans' = trans
          /\ frame' = NoFrame \/ (trans # 0 /\ frame' = Method(trans, "read"))
      BY <2>7 DEF UserRead, End, ReadAllGot
    <3>2. CASE trans = 0
      <4>1. call = "read" /\ served' = {Implementer(cls, call)}
        BY <1>0, <2>2, <2>3, <3>1, <3>2
      <4> QED  BY <1>0, <1>1, <1>2, <2>0, <3>1, <3>2, <4>1 DEF PathInv, ProperSubclass
    <3>3. CASE trans # 0
      <4>1. served' \subseteq {Implementer(cls, "read")}
        BY <1>0, <2>2, <2>3, <3>1, <3>3
      <4>2. frame' # NoFrame => frame' \in Path("read")
        BY <2>2, <3>1, <3>3 DEF Path
      <4> QED  BY <1>0, <1>1, <1>2, <2>0, <2>2, <3>1, <3>3, <4>1, <4>2 DEF PathInv, ProperSubclass
    <3> QED  BY <3>2, <3>3
  <2>8. CASE UserOther
    <3>1. /\ frame.m # "read" /\ frame.cls \in UserClasses /\ ~frame.virt
          /\ served' = served \cup {frame.cls} /\ trans' = trans /\ frame' = NoFrame
      BY <2>8 DEF UserOther, End
    <3>2. trans = 0
      BY <1>0, <2>2, <2>3, <3>1
    <3>3. served' = {frame.cls} /\ frame \in Path(call)
      BY <2>2, <3>1, <3>2
    <3>4. IF call = "readAll" THEN frame.cls = cls /\ call \in overrides[cls]
          ELSE frame.cls = Implementer(cls, call)
      BY <1>0, <2>3, <3>1, <3>3
    <3> QED  BY <1>0, <1>1, <1>2, <2>0, <3>1, <3>2, <3>3, <3>4 DEF PathInv, ProperSubclass
  <2> QED  BY <1>4, <2>4, <2>5, <2>6, <2>7, <2>8 DEF Step
<1>5. ASSUME view \notin {TTransport, cls}, Step
      PROVE  PathInv'
  <2>1. view' = view
    BY <1>5 DEF Step, Forward, RootFunction, EnterReadAll, UserRead, UserOther, End, ReadAllGot
  <2> QED  BY <1>1, <1>5, <2>1 DEF PathInv
<1>6. CASE UNCHANGED vars
  BY <1>0, <1>1, <1>2, <1>6 DEF vars, PathInv, ProperSubclass
<1> QED  BY <1>3, <1>4, <1>5, <1>6 DEF Next

(* Whether an object is used through TTransport& or through its own class, *)
(* the implementation nearest to that class serves the call, and a readAll *)
(* it does not implement reads with that class's read.                     *)
THEOREM NearestServes ==
  Spec => []ProperSubclass
<1>1. ReadInv /\ PathInv => ProperSubclass
  BY DEF PathInv, ProperSubclass
<1>2. ReadInv /\ PathInv /\ [Next]_vars => (ReadInv /\ PathInv)'
  BY ReadNext, PathNext
<1> QED  BY ReadInit, PathInit, <1>1, <1>2, PTL DEF Spec

=============================================================================
