----------------------------- MODULE ResourceMap -----------------------------
(***************************************************************************)
(* BackgroundResourceMap and BiMap of include/ddbplugin/Plugin.h: the      *)
(* tables in which redis, kafka, pulsar, insight, amdQuote and TCPSocket   *)
(* keep their connections and jobs.                                        *)
(*                                                                         *)
(* Every method holds resourceLock_ throughout, so it is one step; what    *)
(* interleaves are the calls of which a plugin function is made: look up a *)
(* handle by name, get the object, use it, remove the handle.              *)
(*                                                                         *)
(* Objects are numbered in the order of their creation and object g comes  *)
(* with one resource handle, also g.  home[g] is the address of the object *)
(* and handle[g] the long in the handle: that address, or 0 once removed.  *)
(* An object lives while the map or a plugin function has a smart pointer  *)
(* to it; after that its address may be given to a new object.             *)
(***************************************************************************)
EXTENDS Integers

CONSTANTS
    Client,              \* sessions inside a plugin function
    Name,                \* names of handles
    Addr,                \* addresses operator new can return
    None,                \* no name, or no address (a null pointer)
    MaxObj               \* bound: objects created

ASSUME MapAssumption ==
    /\ None \notin Name
    /\ None \notin Addr
    /\ MaxObj \in Nat

VARIABLES
    resourceMap_,        \* resourceMap_[a]: the pair (handle, object) at a, or 0
                         \* (operator[] makes a null pair of an unknown key)
    dataMap_,            \* BiMap: the address of a name
    reverseDataMap_,     \* BiMap: the name of an address
    home, handle,
    call,                \* call[c]: what session c has in hand
    known,               \* handles that scripts can have
    created              \* objects created so far

vars == <<resourceMap_, dataMap_, reverseDataMap_, home, handle, call, known,
          created>>

Idle == [at |-> "idle", handle |-> 0, obj |-> 0]
Call(at, h, o) == [at |-> at, handle |-> h, obj |-> o]

Held(a) == \E c \in Client : call[c].obj # 0 /\ home[call[c].obj] = a

Init ==
    /\ resourceMap_ = [a \in Addr \union {None} |-> 0]
    /\ dataMap_ = [n \in Name |-> None]
    /\ reverseDataMap_ = [a \in Addr |-> None]
    /\ home = [g \in 1..MaxObj |-> None]
    /\ handle = [g \in 1..MaxObj |-> None]
    /\ call = [c \in Client |-> Idle]
    /\ known = {}
    /\ created = 0

-----------------------------------------------------------------------------
\* The plugin creates its object and Util::createResource the handle of it.
NewObject(c) ==
    /\ call[c] = Idle
    /\ created < MaxObj
    /\ created' = created + 1
    /\ \E a \in Addr :
          /\ resourceMap_[a] = 0 /\ ~Held(a)
          /\ home' = [home EXCEPT ![created'] = a]
          /\ handle' = [handle EXCEPT ![created'] = a]
    /\ call' = [call EXCEPT ![c] = Call("add", created', created')]
    /\ UNCHANGED <<resourceMap_, dataMap_, reverseDataMap_, known>>

\* The checks of safeAdd; the ones on the handle itself hold of a new one.
Registrable(g, n) ==
    /\ resourceMap_[handle[g]] = 0
    /\ reverseDataMap_[handle[g]] = None
    /\ dataMap_[n] = None

\* safeAdd(handle, handlePtr, name).  On an exception the object and its
\* handle are dropped with the plugin function that made them.
SafeAdd(c, n) ==
    LET g == call[c].obj IN
    /\ call[c].at = "add"
    /\ \/ /\ Registrable(g, n)
          /\ resourceMap_' = [resourceMap_ EXCEPT ![handle[g]] = g]
          /\ dataMap_' = [dataMap_ EXCEPT ![n] = handle[g]]
          /\ reverseDataMap_' = [reverseDataMap_ EXCEPT ![handle[g]] = n]
          /\ known' = known \union {g}
       \/ /\ ~Registrable(g, n)
          /\ UNCHANGED <<resourceMap_, dataMap_, reverseDataMap_, known>>
    /\ call' = [call EXCEPT ![c] = Idle]
    /\ UNCHANGED <<home, handle, created>>

\* A plugin function that is called with a handle.
PassHandle(c) ==
    /\ call[c] = Idle
    /\ \E g \in known : call' = [call EXCEPT ![c] = Call("get", g, 0)]
    /\ UNCHANGED <<resourceMap_, dataMap_, reverseDataMap_, home, handle, known,
                   created>>

\* getHandleByName(name), which throws when the name is unknown.
GetHandleByName(c, n) ==
    /\ call[c] = Idle
    /\ dataMap_[n] # None
    /\ resourceMap_[dataMap_[n]] # 0
    /\ call' = [call EXCEPT ![c] = Call("get", resourceMap_[dataMap_[n]], 0)]
    /\ UNCHANGED <<resourceMap_, dataMap_, reverseDataMap_, home, handle, known,
                   created>>

\* handleValidCheck and the look-up, in safeGet and safeRemove.
Registered(h) == handle[h] # None /\ resourceMap_[handle[h]] # 0

\* safeGet(handle): the object, or an exception.  It is the second half of
\* safeGetByName too.
SafeGet(c) ==
    LET h == call[c].handle IN
    /\ call[c].at = "get"
    /\ call' = [call EXCEPT ![c] = IF Registered(h)
                                   THEN Call("use", h, resourceMap_[handle[h]])
                                   ELSE Idle]
    /\ UNCHANGED <<resourceMap_, dataMap_, reverseDataMap_, home, handle, known,
                   created>>

\* Mutant: nameMap_.removeValue is forgotten.
MutEraseKeepsName(h) ==
    /\ handle' = [handle EXCEPT ![h] = None]
    /\ resourceMap_' = [resourceMap_ EXCEPT ![handle[h]] = 0]
    /\ UNCHANGED <<dataMap_, reverseDataMap_>>

\* Mutant: handle->setLong(0) is forgotten.
MutEraseKeepsHandle(h) ==
    /\ UNCHANGED handle
    /\ dataMap_' = [n \in Name |-> IF n = reverseDataMap_[handle[h]]
                                   THEN None ELSE dataMap_[n]]
    /\ reverseDataMap_' = [reverseDataMap_ EXCEPT ![handle[h]] = None]
    /\ resourceMap_' = [resourceMap_ EXCEPT ![handle[h]] = 0]

\* handle->setLong(0), nameMap_.removeValue and resourceMap_.erase.
Erase(h) ==
    /\ handle' = [handle EXCEPT ![h] = None]
    /\ dataMap_' = [n \in Name |-> IF n = reverseDataMap_[handle[h]]
                                   THEN None ELSE dataMap_[n]]
    /\ reverseDataMap_' = [reverseDataMap_ EXCEPT ![handle[h]] = None]
    /\ resourceMap_' = [resourceMap_ EXCEPT ![handle[h]] = 0]

\* safeRemove(handle), by a function that has the object in use (redis,
\* insight) or has only the handle (kafka, the onClose procedures).
SafeRemove(c) ==
    LET h == call[c].handle IN
    /\ call[c].at \in {"get", "use"}
    /\ \/ Registered(h) /\ Erase(h)
       \/ /\ ~Registered(h)
          /\ UNCHANGED <<resourceMap_, dataMap_, reverseDataMap_, handle>>
    /\ call' = [call EXCEPT ![c] = Idle]
    /\ UNCHANGED <<home, known, created>>

\* The plugin function returns and drops its smart pointer.
Return(c) ==
    /\ call[c].at = "use"
    /\ call' = [call EXCEPT ![c] = Idle]
    /\ UNCHANGED <<resourceMap_, dataMap_, reverseDataMap_, home, handle, known,
                   created>>

Next ==
    \E c \in Client :
        \/ NewObject(c)
        \/ \E n \in Name : SafeAdd(c, n) \/ GetHandleByName(c, n)
        \/ PassHandle(c)
        \/ SafeGet(c)
        \/ SafeRemove(c)
        \/ Return(c)

Spec == Init /\ [][Next]_vars

-----------------------------------------------------------------------------
(***************************************************************************)
(* Properties                                                              *)
(***************************************************************************)

Obj == 0..MaxObj
CallState ==
    {Idle} \union [at : {"add", "use"}, handle : 1..MaxObj, obj : 1..MaxObj]
           \union [at : {"get"}, handle : 1..MaxObj, obj : {0}]

TypeOK ==
    /\ resourceMap_ \in [Addr \union {None} -> Obj]
    /\ dataMap_ \in [Name -> Addr \union {None}]
    /\ reverseDataMap_ \in [Addr -> Name \union {None}]
    /\ home \in [1..MaxObj -> Addr \union {None}]
    /\ handle \in [1..MaxObj -> Addr \union {None}]
    /\ call \in [Client -> CallState]
    /\ known \subseteq 1..created
    /\ created \in Obj

\* The three tables agree: names and addresses are paired one to one, and an
\* address has a name exactly if it has an object.  safeAdd and safeRemove
\* change them one after the other, and several of their checks can throw.
MapsAgree ==
    /\ \A n \in Name, a \in Addr : dataMap_[n] = a <=> reverseDataMap_[a] = n
    /\ \A a \in Addr : reverseDataMap_[a] # None <=> resourceMap_[a] # 0

\* Whoever passes a handle, or a name that is resolved to one, works on the
\* object of that handle or gets an exception; never on another object that
\* was meanwhile created at the address of a removed one.  safeGetByName
\* takes the lock twice, and a script may keep a handle for ever.
HandleReachesItsObject ==
    \A c \in Client : call[c].at = "use" => call[c].obj = call[c].handle
=============================================================================
