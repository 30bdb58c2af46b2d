------------------------------ MODULE UniqueID ------------------------------
(***************************************************************************)
(* The UniqueID plugin: IDGeneratorManager and IDGenerator of              *)
(* UniqueID/src/IDGenerator.h and IDGenerator.cpp.                         *)
(*                                                                         *)
(* The manager maps names to addresses under spinlock_ and addresses to    *)
(* shared pointers in a lock-free table.  A resource handle is the bare    *)
(* address, so it may outlive its generator; newId looks the address up    *)
(* without the lock and then loops on compare_exchange_weak.               *)
(*                                                                         *)
(* An address is free for a new generator once the table has dropped it    *)
(* and no call of newId still holds its shared pointer.  gen numbers the   *)
(* generators ever created, to tell two generators at one address apart.   *)
(***************************************************************************)
EXTENDS Integers, Sequences

CONSTANTS
    Client,             \* sessions that call the plugin's functions
    Name,               \* generator names
    Addr,               \* addresses make_shared can return
    Size,               \* values of size passed to generate
    StartId,            \* values of id passed to createGenerator
    MaxLong,            \* numeric_limits<long>::max()
    MaxGen              \* bound: generators created

ASSUME UidAssumption ==
    /\ Name # {}
    /\ MaxLong \in Nat
    /\ MaxGen \in Nat
    /\ Size \subseteq 1..MaxLong     \* uid_generate refuses size <= 0
    /\ StartId \subseteq (-MaxLong - 1)..MaxLong

VARIABLES
    nameGenerators_,    \* the addresses bound to names: a set of pairs
    resourceGenerators_, \* the addresses in the table
    gen,                \* gen[a]: number of the generator last built at a
    lastId_,            \* lastId_[a]: its counter
    nameOf,             \* nameOf[a]: its name
    call,               \* call[c]: the newId call client c is inside
    created,            \* generators created so far
    issued              \* history: the ranges returned by newId

vars == <<nameGenerators_, resourceGenerators_, gen, lastId_, nameOf, call,
          created, issued>>

Long == (-MaxLong - 1)..MaxLong

NoCall == [at |-> "idle"]

\* Signed addition of two longs, wrapping as the hardware does.
Wrap(n) == IF n > MaxLong THEN n - 2 * MaxLong - 2 ELSE n

Holds(c, a) == call[c] # NoCall /\ call[c].addr = a

\* make_shared never returns memory that is still in use.
Free(a) ==
    /\ a \notin resourceGenerators_
    /\ \A c \in Client : ~Holds(c, a)

Bound(n) == \E a \in Addr : <<n, a>> \in nameGenerators_

Init ==
    /\ nameGenerators_ = {}
    /\ resourceGenerators_ = {}
    /\ gen = [a \in Addr |-> 0]
    /\ lastId_ = [a \in Addr |-> 0]
    /\ nameOf = [a \in Addr |-> CHOOSE n \in Name : TRUE]
    /\ call = [c \in Client |-> NoCall]
    /\ created = 0
    /\ issued = <<>>

-----------------------------------------------------------------------------
(***************************************************************************)
(* Under spinlock_: each of these is one step for everyone else, since     *)
(* newId reads only the table and names are read only under the lock.      *)
(***************************************************************************)

\* Mutant: the name is not checked.
MutCreateDuplicate(n, id) ==
    /\ created < MaxGen
    /\ \E a \in Addr :
          /\ Free(a)
          /\ resourceGenerators_' = resourceGenerators_ \union {a}
          /\ nameGenerators_' =
                {b \in nameGenerators_ : b[1] # n} \union {<<n, a>>}
          /\ gen' = [gen EXCEPT ![a] = created + 1]
          /\ lastId_' = [lastId_ EXCEPT ![a] = id]
          /\ nameOf' = [nameOf EXCEPT ![a] = n]
    /\ created' = created + 1
    /\ UNCHANGED <<call, issued>>

\* createNewGenerator(name, lastId); throws when the name is taken.
CreateNewGenerator(n, id) ==
    /\ created < MaxGen
    /\ ~Bound(n)
    /\ \E a \in Addr :
          /\ Free(a)
          /\ resourceGenerators_' = resourceGenerators_ \union {a}
          /\ nameGenerators_' = nameGenerators_ \union {<<n, a>>}
          /\ gen' = [gen EXCEPT ![a] = created + 1]
          /\ lastId_' = [lastId_ EXCEPT ![a] = id]
          /\ nameOf' = [nameOf EXCEPT ![a] = n]
    /\ created' = created + 1
    /\ UNCHANGED <<call, issued>>

\* destroyGenerator(address), by any handle, stale or not; throws when the
\* address is not in the table.
DestroyByAddress(a) ==
    /\ a \in resourceGenerators_
    /\ resourceGenerators_' = resourceGenerators_ \ {a}
    /\ nameGenerators_' = {b \in nameGenerators_ : b[1] # nameOf[a]}
    /\ UNCHANGED <<gen, lastId_, nameOf, call, created, issued>>

\* destroyGenerator(name).
DestroyByName(n) ==
    /\ \E a \in Addr :
          /\ <<n, a>> \in nameGenerators_
          /\ resourceGenerators_' = resourceGenerators_ \ {a}
    /\ nameGenerators_' = {b \in nameGenerators_ : b[1] # n}
    /\ UNCHANGED <<gen, lastId_, nameOf, call, created, issued>>

-----------------------------------------------------------------------------
(***************************************************************************)
(* newId: lock-free                                                        *)
(***************************************************************************)

\* resourceGenerators_.find copies the shared pointer, or newId throws.
FindGenerator(c, a, size) ==
    /\ call[c] = NoCall
    /\ a \in resourceGenerators_
    /\ call' = [call EXCEPT
                  ![c] = [at |-> "load", addr |-> a, size |-> size]]
    /\ UNCHANGED <<nameGenerators_, resourceGenerators_, gen, lastId_, nameOf,
                   created, issued>>

\* long current = lastId_.load(), and again after a failed exchange, which
\* reloads current.
Reading(c, current) ==
    call' = [call EXCEPT ![c] = [at |-> "cas", addr |-> call[c].addr,
                                 size |-> call[c].size, current |-> current]]

LoadLastId(c) ==
    /\ call[c].at = "load"
    /\ Reading(c, lastId_[call[c].addr])
    /\ UNCHANGED <<nameGenerators_, resourceGenerators_, gen, lastId_, nameOf,
                   created, issued>>

\* Mutant: the overflow check is gone.
MutOverflows(c) == call[c].current > MaxLong

Overflows(c) == call[c].current > MaxLong - call[c].size

\* throw RuntimeException("ID overflow!").
OverflowThrow(c) ==
    /\ call[c].at = "cas"
    /\ Overflows(c)
    /\ call' = [call EXCEPT ![c] = NoCall]
    /\ UNCHANGED <<nameGenerators_, resourceGenerators_, gen, lastId_, nameOf,
                   created, issued>>

\* Mutant: a plain store in place of the exchange.
MutExchangeStores(c) ==
    /\ call[c].at = "cas"
    /\ ~Overflows(c)
    /\ lastId_' = [lastId_ EXCEPT
                     ![call[c].addr] = Wrap(call[c].current + call[c].size)]
    /\ issued' = Append(issued, [gen   |-> gen[call[c].addr],
                                 first |-> call[c].current,
                                 size  |-> call[c].size])
    /\ call' = [call EXCEPT ![c] = NoCall]
    /\ UNCHANGED <<nameGenerators_, resourceGenerators_, gen, nameOf, created>>

\* lastId_.compare_exchange_weak(current, current + size): succeeds only on
\* the value read, and may fail even then.
Exchange(c) ==
    /\ call[c].at = "cas"
    /\ ~Overflows(c)
    /\ LET a == call[c].addr IN
       \/ /\ lastId_[a] = call[c].current
          /\ lastId_' = [lastId_ EXCEPT ![a] = Wrap(@ + call[c].size)]
          /\ issued' = Append(issued, [gen   |-> gen[a],
                                       first |-> call[c].current,
                                       size  |-> call[c].size])
          /\ call' = [call EXCEPT ![c] = NoCall]
       \/ /\ Reading(c, lastId_[a])
          /\ UNCHANGED <<lastId_, issued>>
    /\ UNCHANGED <<nameGenerators_, resourceGenerators_, gen, nameOf, created>>

-----------------------------------------------------------------------------
NewId(c) ==
    \/ \E a \in Addr, size \in Size : FindGenerator(c, a, size)
    \/ LoadLastId(c)
    \/ OverflowThrow(c)
    \/ Exchange(c)

Next ==
    \/ \E n \in Name, id \in StartId : CreateNewGenerator(n, id)
    \/ \E a \in Addr : DestroyByAddress(a)
    \/ \E n \in Name : DestroyByName(n)
    \/ \E c \in Client : NewId(c)

Spec == Init /\ [][Next]_vars

-----------------------------------------------------------------------------
(***************************************************************************)
(* Properties                                                              *)
(***************************************************************************)

Call ==
    {NoCall} \union [at : {"load"}, addr : Addr, size : Size]
             \union [at : {"cas"}, addr : Addr, size : Size, current : Long]

Range == [gen : Nat, first : Long, size : Size]

TypeOK ==
    /\ nameGenerators_ \subseteq Name \X Addr
    /\ resourceGenerators_ \subseteq Addr
    /\ gen \in [Addr -> Nat]
    /\ lastId_ \in [Addr -> Long]
    /\ nameOf \in [Addr -> Name]
    /\ call \in [Client -> Call]
    /\ created \in Nat
    /\ issued \in Seq(Range)

\* Two calls of newId on one generator never return the same id, whatever
\* their sizes and however they race with each other and with destroy.
DisjointIds ==
    \A i, j \in 1..Len(issued) :
        i < j /\ issued[i].gen = issued[j].gen =>
            issued[i].first + issued[i].size =< issued[j].first

\* Every id of a returned range is a long: no range runs past the maximum and
\* the counter of a generator never wraps back below its start.
NoOverflow ==
    \A i \in 1..Len(issued) : issued[i].first + issued[i].size =< MaxLong

\* The two maps agree: a name leads to a generator in the table that bears
\* this name, and each generator in the table is reached by its name alone.
RegistryConsistent ==
    /\ \A b \in nameGenerators_ : b[2] \in resourceGenerators_ /\ nameOf[b[2]] = b[1]
    /\ \A a \in resourceGenerators_ : <<nameOf[a], a>> \in nameGenerators_
    /\ \A b1, b2 \in nameGenerators_ : b1[1] = b2[1] => b1 = b2
=============================================================================
