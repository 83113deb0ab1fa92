--------------------------- MODULE ThriftTransport ---------------------------
(***************************************************************************)
(* The transport interface of src/interface: which function a call of a    *)
(* transport's method reaches (TTransport.h, TVirtualTransport.h), and the *)
(* helper readAll, which reads until a buffer is full.                     *)
(*                                                                         *)
(* The object is of a class Base, declared as                              *)
(*    class Base : public TVirtualTransport<Base>                          *)
(* or of a class Derived, declared as                                      *)
(*    class Derived : public TVirtualTransport<Derived, Base>,             *)
(* each of which implements any of the methods itself.  Their own code is  *)
(* external.                                                               *)
(***************************************************************************)
EXTENDS Naturals

CONSTANTS
  Modulus,   \* uint32_t counts modulo this, 2^32 in the code
  MaxLen     \* bound: length of a buffer

ASSUME LenAssumption == MaxLen \in Nat /\ Modulus \in Nat /\ MaxLen < Modulus

Methods == {"read", "readAll", "write", "borrow", "consume"}

\* The classes of the hierarchy, from the root down.
TTransport         == 1
TTransportDefaults == 2
BaseVirtual        == 3  \* TVirtualTransport<Base>
Base               == 4
DerivedVirtual     == 5  \* TVirtualTransport<Derived, Base>
Derived            == 6
Classes     == TTransport..Derived
UserClasses == {Base, Derived}
Adapters    == {BaseVirtual, DerivedVirtual}

VARIABLES
  cls,        \* class of the object
  overrides,  \* external: the methods each user class implements
  view,       \* static type of the reference the call is made through
  call,       \* the method called
  len,        \* its length argument
  frame,      \* the function that runs, NoFrame between calls
  trans,      \* static type of trans in the helper readAll, 0 outside it
  have,       \* local of readAll: bytes read so far
  buf,        \* the buffer: which byte of the stream each place holds
  pos,        \* external: bytes the subclass has taken from its stream
  result,     \* outcome of the call
  served      \* history: the classes whose code served read, or the call

vars == <<cls, overrides, view, call, len, frame, trans, have, buf, pos, result, served>>

(* A function of a class: method m, or its virtual counterpart m_virt.     *)
Frames  == [cls : Classes, m : Methods, virt : BOOLEAN]
NoFrame == [cls |-> TTransport, m |-> "none", virt |-> FALSE]

Value(v) == [kind |-> "returned", val |-> v]
Thrown   == [kind |-> "thrown", val |-> 0]
Nothing  == [kind |-> "none", val |-> 0]

TypeOK ==
  /\ cls \in UserClasses
  /\ overrides \in [UserClasses -> SUBSET Methods]
  /\ view \in {TTransport} \cup UserClasses
  /\ call \in Methods
  /\ len \in 0..MaxLen
  /\ frame \in Frames \cup {NoFrame}
  /\ trans \in {0, TTransport} \cup UserClasses
  /\ have \in 0..(Modulus - 1)
  /\ buf \in [1..MaxLen -> 0..MaxLen]
  /\ pos \in 0..MaxLen
  /\ result \in [kind : {"none", "returned", "thrown"}, val : 0..(Modulus - 1)]
  /\ served \subseteq Classes

Blank == [i \in 1..MaxLen |-> 0]

Init ==
  /\ cls \in UserClasses
  /\ overrides \in [UserClasses -> SUBSET Methods]
  /\ cls = Base => overrides[Derived] = {}
  /\ view = TTransport
  /\ call = "read"
  /\ len = 0
  /\ frame = NoFrame
  /\ trans = 0
  /\ have = 0
  /\ buf = Blank
  /\ pos = 0
  /\ result = Nothing
  /\ served = {}

-----------------------------------------------------------------------------
(* Which function a call reaches.                                          *)

Lowest(S) == CHOOSE c \in S : \A d \in S : d <= c

\* Mutant: TVirtualTransport provides no readAll.
DeclaresNoReadAll(c, m) ==
  \/ c \in {TTransport, TTransportDefaults}
  \/ c \in UserClasses /\ m \in overrides[c]

\* Whether class c has a non-virtual method m of its own.
Declares(c, m) ==
  \/ c \in {TTransport, TTransportDefaults}
  \/ c \in Adapters /\ m = "readAll"
  \/ c \in UserClasses /\ m \in overrides[c]

\* A call obj.m() through static type c.
Method(c, m) ==
  [cls |-> Lowest({d \in Classes : d <= c /\ Declares(d, m)}), m |-> m, virt |-> FALSE]

\* A virtual call obj.m_virt(): declared by TTransport and by the adapters.
VirtualMethod(m) ==
  [cls |-> Lowest({d \in Adapters \cup {TTransport} : d <= cls}), m |-> m, virt |-> TRUE]

\* Transport_ of an adapter: the class it is the base of.
Transport_(c) == c + 1

\* Mutant: TTransportDefaults calls the virtual function virtually.
TargetVirtual(f) ==
  CASE f.cls \in {TTransport, TTransportDefaults} /\ ~f.virt -> VirtualMethod(f.m)
    [] f.cls \in Adapters /\ f.virt -> Method(Transport_(f.cls), f.m)
    [] OTHER -> f

(* The functions that only call another one: those of TTransport call the  *)
(* virtual function, those of TTransportDefaults call TTransport's version *)
(* of it directly, the virtual ones of an adapter call the subclass.       *)
Target(f) ==
  CASE f.cls = TTransport /\ ~f.virt         -> VirtualMethod(f.m)
    [] f.cls = TTransportDefaults /\ ~f.virt -> [f EXCEPT !.cls = TTransport, !.virt = TRUE]
    [] f.cls \in Adapters /\ f.virt          -> Method(Transport_(f.cls), f.m)
    [] OTHER                                 -> f

-----------------------------------------------------------------------------
(* The steps of a call.                                                    *)

\* A call from outside, through TTransport& or through a user class.
Call(m, v, n) ==
  /\ frame = NoFrame
  /\ v <= cls
  /\ view' = v
  /\ call' = m
  /\ len' = n
  /\ frame' = Method(v, m)
  /\ buf' = Blank
  /\ result' = Nothing
  /\ served' = {}
  /\ trans' = 0
  /\ have' = 0
  /\ pos' = 0
  /\ UNCHANGED <<cls, overrides>>

Forward ==
  /\ frame # NoFrame
  /\ Target(frame) # frame
  /\ frame' = Target(frame)
  /\ UNCHANGED <<cls, overrides, view, call, len, trans, have, buf, pos, result, served>>

\* The call ends with outcome r.
End(r) ==
  /\ frame' = NoFrame
  /\ result' = r
  /\ UNCHANGED <<cls, overrides, view, call, len, trans>>

(* TTransport's own virtual functions: read, write and consume throw,      *)
(* borrow returns NULL.                                                    *)
RootFunction ==
  /\ frame.cls = TTransport /\ frame.virt
  /\ \/ frame.m \in {"read", "write", "consume"} /\ End(Thrown)
     \/ frame.m = "borrow" /\ End(Value(0))
  /\ served' = served \cup {TTransport}
  /\ UNCHANGED <<have, buf, pos>>

(* The helper readAll is entered from TTransport's readAll_virt, with      *)
(* trans a TTransport&, or from an adapter's readAll, with trans of the    *)
(* subclass's type.                                                        *)
EnterReadAll ==
  /\ frame.m = "readAll"
  /\ \/ frame.cls = TTransport /\ frame.virt /\ trans' = TTransport
     \/ frame.cls \in Adapters /\ ~frame.virt /\ trans' = Transport_(frame.cls)
  /\ \/ have < len /\ frame' = Method(trans', "read") /\ UNCHANGED result
     \/ have >= len /\ frame' = NoFrame /\ result' = Value(have)
  /\ UNCHANGED <<cls, overrides, view, call, len, have, buf, pos, served>>

\* Mutant: the loop stops one byte early.
ReadAllGotShort(get) ==
  IF get = 0 THEN End(Thrown) /\ UNCHANGED have
  ELSE /\ have' = (have + get) % Modulus
       /\ IF have' + 1 >= len THEN End(Value(have'))
          ELSE /\ frame' = Method(trans, "read")
               /\ UNCHANGED <<cls, overrides, view, call, len, trans, result>>

(* trans.read has returned get.  "get <= 0" holds of an unsigned value     *)
(* only when it is 0.                                                      *)
ReadAllGot(get) ==
  IF get = 0 THEN End(Thrown) /\ UNCHANGED have
  ELSE /\ have' = (have + get) % Modulus
       /\ IF have' >= len THEN End(Value(have'))
          ELSE /\ frame' = Method(trans, "read")
               /\ UNCHANGED <<cls, overrides, view, call, len, trans, result>>

\* Mutant: readAll asks for len bytes every time.
RoomWhole == len

\* The length passed to read: len - have in readAll, len (have = 0) in a direct call.
Room == len - have

(* External: a subclass's read puts up to as many bytes as it was asked    *)
(* for at buf + have and returns their number, or throws.                  *)
UserRead ==
  /\ frame.cls \in UserClasses /\ frame.m = "read" /\ ~frame.virt
  /\ served' = served \cup {frame.cls}
  /\ \/ \E n \in 0..Room :
          /\ buf' = [i \in 1..MaxLen |-> IF i > have /\ i <= have + n
                                         THEN pos + (i - have) ELSE buf[i]]
          /\ pos' = pos + n
          /\ IF trans = 0 THEN End(Value(n)) /\ UNCHANGED have ELSE ReadAllGot(n)
     \/ End(Thrown) /\ UNCHANGED <<have, buf, pos>>

\* External: any other method of a subclass.
UserOther ==
  /\ frame.cls \in UserClasses /\ frame.m # "read" /\ ~frame.virt
  /\ served' = served \cup {frame.cls}
  /\ End(Value(0)) \/ End(Thrown)
  /\ UNCHANGED <<have, buf, pos>>

Step == Forward \/ RootFunction \/ EnterReadAll \/ UserRead \/ UserOther

Next ==
  \/ \E m \in Methods, v \in {TTransport} \cup UserClasses, n \in 0..MaxLen : Call(m, v, n)
  \/ Step

Spec == Init /\ [][Next]_vars

\* A thread in a call goes on, and a subclass's methods return.
FairSpec == Spec /\ WF_vars(Step)

-----------------------------------------------------------------------------
(* Comment of readAll, "Reads the given amount of data in its entirety no  *)
(* matter what": at every moment the buffer holds the bytes taken from the *)
(* stream in their order and without a gap, so that a short read, however  *)
(* the stream splits it, or an exception loses none of them; and a readAll *)
(* that returns has filled the buffer and took nothing beyond it.          *)
ReadAllWhole ==
  trans # 0 =>
    /\ pos = have
    /\ \A i \in 1..MaxLen : buf[i] = IF i <= pos THEN i ELSE 0
    /\ result.kind = "returned" => pos = len /\ result.val = len

\* The class that implements method m for objects of class c.
Implementer(c, m) == Lowest({TTransport} \cup {d \in UserClasses : d <= c /\ m \in overrides[d]})

(* Comment of TVirtualTransport: the virtual functions call "the           *)
(* non-virtual versions of these functions in the proper subclass".  So it *)
(* makes no difference whether an object is used through TTransport& or    *)
(* through its own class: a call runs the implementation nearest to that   *)
(* class, and a readAll that the class does not implement itself reads     *)
(* with that class's read, even if a parent has a readAll of its own.      *)
ProperSubclass ==
  view \in {TTransport, cls} =>
    served \subseteq
      IF call # "readAll" THEN {Implementer(cls, call)}
      ELSE IF "readAll" \in overrides[cls] THEN {cls} ELSE {Implementer(cls, "read")}

(* Comment of TTransportDefaults: it is there to "prevent infinite         *)
(* recursion if one of its subclasses does not override the TTransport     *)
(* implementation of these methods".  Every call ends, through whichever   *)
(* type it is made and whichever methods the subclasses leave out.         *)
CallEnds == frame # NoFrame ~> frame = NoFrame

=============================================================================
