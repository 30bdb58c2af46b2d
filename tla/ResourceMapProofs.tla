-------------------------- MODULE ResourceMapProofs --------------------------
(***************************************************************************)
(* For any number of sessions, names and addresses: the tables of a        *)
(* BackgroundResourceMap agree, and no handle reaches the object of        *)
(* another one, however often addresses are used again.                    *)
(***************************************************************************)
EXTENDS ResourceMap, TLAPS

\* What is at an address belongs there, and its handle still points there.
Located ==
    \A a \in Addr : LET g == resourceMap_[a] IN
        g # 0 => g \in known /\ home[g] = a /\ handle[g] = a

\* A handle that scripts can have is registered, or was reset to 0.
Reset == \A g \in known :
             handle[g] # None => handle[g] \in Addr /\ resourceMap_[handle[g]] = g

\* A new object is at a free address; nobody else has it in hand.
Fresh ==
    \A c \in Client : call[c].at = "add" =>
        LET g == call[c].obj IN
        /\ g \in 1..created /\ g \notin known
        /\ handle[g] = home[g] /\ home[g] \in Addr
        /\ resourceMap_[home[g]] = 0

\* Sessions that have objects of the same address in hand, where one is new,
\* are one session.
Apart ==
    \A c, d \in Client :
        /\ call[c].at = "add" /\ call[d].obj # 0 /\ c # d
        => home[call[c].obj] # home[call[d].obj]

InHand ==
    \A c \in Client :
        /\ call[c].at \in {"get", "use"} => call[c].handle \in known
        /\ call[c].at = "use" => call[c].obj = call[c].handle

NullPair == resourceMap_[None] = 0

IInv == TypeOK /\ MapsAgree /\ NullPair /\ Located /\ Reset /\ Fresh /\ Apart /\ InHand

-----------------------------------------------------------------------------
\* The initial state.
LEMMA InitInv == Init => IInv
  BY MapAssumption, SMT DEF Init, IInv, TypeOK, MapsAgree, NullPair, Located, Reset,
     Fresh, Apart, InHand, Obj, CallState, Idle

\* An object in hand has been created.
LEMMA ObjCreated ==
  ASSUME IInv, NEW c \in Client, call[c].obj # 0
  PROVE  call[c].obj \in 1..created
  BY SMT DEF IInv, TypeOK, Fresh, InHand, CallState, Idle

\* The handles that scripts can have are among the numbered ones.
LEMMA KnownRange == IInv => \A h \in known : h \in 1..MaxObj
  BY MapAssumption, SMT DEF IInv, TypeOK, Obj

\* A new object and its handle.
LEMMA NewObjectInv ==
  ASSUME IInv, NEW c \in Client, NewObject(c)
  PROVE  IInv'
<1> USE MapAssumption DEF NewObject, Call
<1>1. PICK a \in Addr : /\ resourceMap_[a] = 0 /\ ~Held(a)
                        /\ home' = [home EXCEPT ![created + 1] = a]
                        /\ handle' = [handle EXCEPT ![created + 1] = a]
  OBVIOUS
<1>2. created + 1 \in 1..MaxObj /\ created \in Nat
  BY SMT DEF IInv, TypeOK, Obj
<1>3. TypeOK'
  BY <1>1, <1>2, SMT DEF IInv, TypeOK, Obj, CallState
<1>4. MapsAgree' /\ NullPair'
  BY DEF IInv, MapsAgree, NullPair
<1>5. Located' /\ Reset'
  BY <1>1, <1>2, SMT DEF IInv, TypeOK, Located, Reset
<1>6. Fresh'
  BY <1>1, <1>2, SMT DEF IInv, TypeOK, Fresh
<1>7. Apart'
  <2> SUFFICES ASSUME NEW e \in Client, NEW d \in Client, e # d,
                      call'[e].at = "add", call'[d].obj # 0
               PROVE  home'[call'[e].obj] # home'[call'[d].obj]
    BY DEF Apart
  <2> DEFINE g == created + 1
  <2>1. /\ call'[c].obj = g
        /\ \A x \in Client : x # c => call'[x] = call[x]
    BY DEF IInv, TypeOK
  <2>2. \A x \in Client : call[x].obj # 0 =>
           /\ home'[call[x].obj] = home[call[x].obj]
           /\ home[call[x].obj] # a
    BY <1>1, <1>2, ObjCreated, SMT DEF IInv, TypeOK, Held
  <2>3. home'[g] = a
    BY <1>1, <1>2 DEF IInv, TypeOK
  <2>4. \A x \in Client : call[x].at = "add" => call[x].obj # 0
    BY <1>2, SMT DEF IInv, Fresh
  <2> HIDE DEF g
  <2>5. CASE e # c /\ d # c
    BY <2>1, <2>2, <2>4, <2>5 DEF IInv, Apart
  <2>6. CASE e = c
    BY <2>1, <2>2, <2>3, <2>6
  <2>7. CASE d = c
    BY <2>1, <2>2, <2>3, <2>4, <2>7
  <2> QED BY <2>5, <2>6, <2>7
<1>8. InHand'
  BY SMT DEF IInv, TypeOK, InHand
<1> QED BY <1>3, <1>4, <1>5, <1>6, <1>7, <1>8 DEF IInv

\* safeAdd, whether it registers the object or throws.
LEMMA SafeAddInv ==
  ASSUME IInv, NEW c \in Client, NEW n \in Name, SafeAdd(c, n)
  PROVE  IInv'
<1> DEFINE g == call[c].obj
           a == handle[g]
<1>1. /\ call[c].at = "add" /\ call' = [call EXCEPT ![c] = Idle]
      /\ UNCHANGED <<home, handle, created>>
  BY DEF SafeAdd
<1>2. /\ g \in 1..created /\ g \in 1..MaxObj /\ g \notin known
      /\ a = home[g] /\ a \in Addr /\ a # None /\ resourceMap_[a] = 0
  BY <1>1, MapAssumption, SMT DEF IInv, TypeOK, Fresh, Obj
<1>3. \A d \in Client : d # c => call'[d] = call[d]
  BY <1>1 DEF IInv, TypeOK
<1>4. call'[c] = Idle
  BY <1>1 DEF IInv, TypeOK
<1>5. CASE Registrable(g, n)
  <2>1. /\ resourceMap_' = [resourceMap_ EXCEPT ![a] = g]
        /\ dataMap_' = [dataMap_ EXCEPT ![n] = a]
        /\ reverseDataMap_' = [reverseDataMap_ EXCEPT ![a] = n]
        /\ known' = known \union {g}
    BY <1>5 DEF SafeAdd
  <2> HIDE DEF a, g
  <2>2. TypeOK'
    BY <1>1, <1>2, <2>1, SMT DEF IInv, TypeOK, Obj, CallState
  <2>3. MapsAgree' /\ NullPair'
    BY <1>2, <1>5, <2>1, MapAssumption, SMT
       DEF IInv, TypeOK, MapsAgree, NullPair, Registrable, a
  <2>4. Located' /\ Reset'
    BY <1>1, <1>2, <2>1, SMT DEF IInv, TypeOK, Located, Reset, a
  <2>5. Fresh'
    <3> SUFFICES ASSUME NEW d \in Client, call'[d].at = "add"
                 PROVE  /\ call[d].obj \in 1..created' /\ call[d].obj \notin known'
                        /\ handle'[call[d].obj] = home'[call[d].obj]
                        /\ home'[call[d].obj] \in Addr
                        /\ resourceMap_'[home'[call[d].obj]] = 0
      BY <1>3, <1>4 DEF Fresh, Idle
    <3>1. d # c /\ call[d].at = "add"
      BY <1>3, <1>4 DEF Idle
    <3>2. call[d].obj # 0 /\ home[call[d].obj] # a /\ call[d].obj # g
      BY <1>1, <1>2, <3>1, SMT DEF IInv, TypeOK, Fresh, Apart, g
    <3> QED BY <1>1, <1>2, <2>1, <3>1, <3>2, SMT DEF IInv, TypeOK, Fresh
  <2>6. Apart' /\ InHand'
    BY <1>1, <1>3, <1>4, <2>1, SMT DEF IInv, Apart, InHand, Idle
  <2> QED BY <2>2, <2>3, <2>4, <2>5, <2>6 DEF IInv
<1>6. CASE ~Registrable(g, n)
  <2>1. UNCHANGED <<resourceMap_, dataMap_, reverseDataMap_, known>>
    BY <1>6 DEF SafeAdd
  <2>2. TypeOK'
    BY <1>1, <2>1, SMT DEF IInv, TypeOK, CallState
  <2>3. MapsAgree' /\ NullPair' /\ Located' /\ Reset'
    BY <1>1, <2>1 DEF IInv, MapsAgree, NullPair, Located, Reset
  <2>4. Fresh' /\ Apart' /\ InHand'
    BY <1>1, <1>3, <1>4, <2>1, SMT DEF IInv, Fresh, Apart, InHand, Idle
  <2> QED BY <2>2, <2>3, <2>4 DEF IInv
<1> QED BY <1>5, <1>6

\* The steps that only change what a session has in hand: it gets a handle,
\* or it is done.
LEMMA InHandInv ==
  ASSUME IInv, NEW c \in Client,
         \/ PassHandle(c)
         \/ \E n \in Name : GetHandleByName(c, n)
         \/ Return(c)
         \/ SafeGet(c)
  PROVE  IInv'
<1>1. UNCHANGED <<resourceMap_, dataMap_, reverseDataMap_, home, handle, known, created>>
  BY DEF PassHandle, GetHandleByName, Return, SafeGet
<1>2. MapsAgree' /\ NullPair' /\ Located' /\ Reset'
  BY <1>1 DEF IInv, MapsAgree, NullPair, Located, Reset
<1>3. CASE \E h \in known : call' = [call EXCEPT ![c] = Call("get", h, 0)]
  <2>1. PICK h \in known : call' = [call EXCEPT ![c] = [at |-> "get", handle |-> h, obj |-> 0]]
    BY <1>3 DEF Call
  <2>2. h \in 1..MaxObj
    BY KnownRange
  <2>3. TypeOK'
    BY <1>1, <2>1, <2>2, SMT DEF IInv, TypeOK, CallState
  <2>4. Fresh' /\ InHand'
    BY <1>1, <2>1, SMT DEF IInv, TypeOK, Fresh, InHand
  <2>5. Apart'
    BY <1>1, <2>1, SMT DEF IInv, TypeOK, Apart
  <2> QED BY <1>2, <2>3, <2>4, <2>5 DEF IInv
<1>4. CASE call' = [call EXCEPT ![c] = Idle]
  BY <1>1, <1>2, <1>4, SMT DEF IInv, TypeOK, Fresh, Apart, InHand, CallState, Idle
<1>5. CASE SafeGet(c) /\ Registered(call[c].handle)
  <2> DEFINE h == call[c].handle
  <2>1. h \in known /\ h \in 1..MaxObj /\ h # 0
    <3>1. h \in known
      BY <1>5 DEF IInv, InHand, SafeGet
    <3> QED BY <3>1, KnownRange, MapAssumption, SMT
  <2>2. handle[h] \in Addr /\ resourceMap_[handle[h]] = h /\ home[h] = handle[h]
    BY <1>5, <2>1 DEF IInv, Registered, Reset, Located
  <2>3. call' = [call EXCEPT ![c] = [at |-> "use", handle |-> h, obj |-> h]]
    BY <1>5, <2>2 DEF SafeGet, Call
  <2> HIDE DEF h
  <2>4. TypeOK'
    BY <1>1, <2>1, <2>3, SMT DEF IInv, TypeOK, CallState
  <2>5. Fresh' /\ InHand'
    BY <1>1, <2>1, <2>3, SMT DEF IInv, TypeOK, Fresh, InHand
  <2>6. Apart'
    BY <1>1, <2>1, <2>2, <2>3, SMT DEF IInv, TypeOK, Fresh, Apart
  <2> QED BY <1>2, <2>4, <2>5, <2>6 DEF IInv
<1>6. PassHandle(c) => \E h \in known : call' = [call EXCEPT ![c] = Call("get", h, 0)]
  BY DEF PassHandle
<1>7. ASSUME NEW n \in Name, GetHandleByName(c, n)
      PROVE  \E h \in known : call' = [call EXCEPT ![c] = Call("get", h, 0)]
  BY <1>7 DEF GetHandleByName, IInv, TypeOK, Located
<1>8. Return(c) => call' = [call EXCEPT ![c] = Idle]
  BY DEF Return
<1>9. SafeGet(c) /\ ~Registered(call[c].handle) => call' = [call EXCEPT ![c] = Idle]
  BY DEF SafeGet
<1> QED BY <1>3, <1>4, <1>5, <1>6, <1>7, <1>8, <1>9

\* safeRemove, whether it erases the pair or throws.
LEMMA SafeRemoveInv ==
  ASSUME IInv, NEW c \in Client, SafeRemove(c)
  PROVE  IInv'
<1> DEFINE h == call[c].handle
           a == handle[h]
<1>1. /\ call[c].at \in {"get", "use"} /\ call' = [call EXCEPT ![c] = Idle]
      /\ UNCHANGED <<home, known, created>>
  BY DEF SafeRemove
<1>2. h \in known /\ h \in 1..MaxObj
  BY <1>1, KnownRange DEF IInv, InHand
<1>3. \A d \in Client : d # c => call'[d] = call[d]
  BY <1>1 DEF IInv, TypeOK
<1>4. call'[c] = Idle
  BY <1>1 DEF IInv, TypeOK
<1>5. CASE Registered(h)
  <2>1. /\ handle' = [handle EXCEPT ![h] = None]
        /\ dataMap_' = [n \in Name |-> IF n = reverseDataMap_[a]
                                       THEN None ELSE dataMap_[n]]
        /\ reverseDataMap_' = [reverseDataMap_ EXCEPT ![a] = None]
        /\ resourceMap_' = [resourceMap_ EXCEPT ![a] = 0]
    BY <1>5 DEF SafeRemove, Erase
  <2>2. a \in Addr /\ resourceMap_[a] = h /\ a # None
    BY <1>2, <1>5 DEF IInv, Reset, Registered
  <2> HIDE DEF h, a
  <2>3. TypeOK'
    <3>1. dataMap_' \in [Name -> Addr \union {None}]
      BY <2>1 DEF IInv, TypeOK
    <3>2. /\ resourceMap_' \in [Addr \union {None} -> Obj]
          /\ reverseDataMap_' \in [Addr -> Name \union {None}]
          /\ handle' \in [1..MaxObj -> Addr \union {None}]
      BY <1>2, <2>1, <2>2, MapAssumption, SMT DEF IInv, TypeOK, Obj
    <3>3. call' \in [Client -> CallState]
      BY <1>1 DEF IInv, TypeOK, CallState
    <3> QED BY <1>1, <3>1, <3>2, <3>3 DEF IInv, TypeOK
  <2>4. MapsAgree' /\ NullPair'
    BY <2>1, <2>2, MapAssumption, SMT DEF IInv, TypeOK, MapsAgree, NullPair
  <2>5. Located'
    BY <1>1, <1>2, <2>1, <2>2, SMT DEF IInv, TypeOK, Located, Obj
  <2>6. Reset'
    BY <1>1, <1>2, <2>1, <2>2, SMT DEF IInv, TypeOK, Reset, Obj
  <2>7. Fresh'
    <3> SUFFICES ASSUME NEW d \in Client, call'[d].at = "add"
                 PROVE  /\ call[d].obj \in 1..created /\ call[d].obj \notin known
                        /\ handle'[call[d].obj] = home[call[d].obj]
                        /\ home[call[d].obj] \in Addr
                        /\ resourceMap_'[home[call[d].obj]] = 0
      BY <1>1, <1>3, <1>4 DEF Fresh, Idle
    <3>1. call[d].at = "add"
      BY <1>3, <1>4 DEF Idle
    <3> QED BY <1>2, <2>1, <2>2, <3>1, SMT DEF IInv, TypeOK, Fresh, Obj
  <2>8. Apart' /\ InHand'
    BY <1>1, <1>3, <1>4, SMT DEF IInv, Apart, InHand, Idle
  <2> QED BY <2>3, <2>4, <2>5, <2>6, <2>7, <2>8 DEF IInv
<1>6. CASE ~Registered(h)
  <2>1. UNCHANGED <<resourceMap_, dataMap_, reverseDataMap_, handle>>
    BY <1>6 DEF SafeRemove
  <2>2. TypeOK'
    BY <1>1, <2>1, SMT DEF IInv, TypeOK, CallState
  <2>3. MapsAgree' /\ NullPair' /\ Located' /\ Reset'
    BY <1>1, <2>1 DEF IInv, MapsAgree, NullPair, Located, Reset
  <2>4. Fresh' /\ Apart' /\ InHand'
    BY <1>1, <1>3, <1>4, <2>1, SMT DEF IInv, Fresh, Apart, InHand, Idle
  <2> QED BY <2>2, <2>3, <2>4 DEF IInv
<1> QED BY <1>5, <1>6

\* Every step preserves the inductive invariant.
LEMMA NextInv == IInv /\ [Next]_vars => IInv'
<1> SUFFICES ASSUME IInv, [Next]_vars PROVE IInv'
  OBVIOUS
<1>1. CASE UNCHANGED vars
  BY <1>1 DEF vars, IInv, TypeOK, MapsAgree, NullPair, Located, Reset, Fresh, Apart, InHand
<1>2. ASSUME NEW c \in Client, NewObject(c) PROVE IInv'
  BY <1>2, NewObjectInv
<1>3. ASSUME NEW c \in Client, NEW n \in Name, SafeAdd(c, n) PROVE IInv'
  BY <1>3, SafeAddInv
<1>4. ASSUME NEW c \in Client,
             \/ PassHandle(c) \/ SafeGet(c) \/ Return(c)
             \/ \E n \in Name : GetHandleByName(c, n)
      PROVE  IInv'
  BY <1>4, InHandInv
<1>5. ASSUME NEW c \in Client, SafeRemove(c) PROVE IInv'
  BY <1>5, SafeRemoveInv
<1> QED BY <1>1, <1>2, <1>3, <1>4, <1>5 DEF Next

\* The invariant of the specification.
LEMMA Invariant == Spec => []IInv
  BY InitInv, NextInv, PTL DEF Spec

-----------------------------------------------------------------------------
\* The variables keep their types; safeGet never hands out a null pointer.
THEOREM TypeCorrect == Spec => []TypeOK
<1>1. IInv => TypeOK
  BY DEF IInv
<1> QED BY <1>1, Invariant, PTL

\* resourceMap_ and the two directions of nameMap_ always agree, whatever
\* checks of safeAdd and safeRemove throw.
THEOREM TablesConsistent == Spec => []MapsAgree
<1>1. IInv => MapsAgree
  BY DEF IInv
<1> QED BY <1>1, Invariant, PTL

\* A handle that a script kept reaches its own object or nothing, although
\* the addresses by which objects are found are used again.
THEOREM NoStaleObject == Spec => []HandleReachesItsObject
<1>1. IInv => HandleReachesItsObject
  BY DEF IInv, InHand, HandleReachesItsObject
<1> QED BY <1>1, Invariant, PTL
=============================================================================
