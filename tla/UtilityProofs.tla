---------------------------- MODULE UtilityProofs ----------------------------
(***************************************************************************)
(* Proofs about two components that stand alone: the snapshot protocol     *)
(* (Persistence) and the id generators (UniqueID).  Each has an inductive  *)
(* invariant of its own, SnapshotInv and IInv.                             *)
(***************************************************************************)
EXTENDS Persistence, UniqueID, TLAPS

-----------------------------------------------------------------------------
(***************************************************************************)
(* LatestSurvives for any number of saves, crashes and readers.  It is not *)
(* inductive: that removing the backup is harmless rests on what the       *)
(* writer has already seen (Moving), that the backup then is the snapshot  *)
(* before on the rename in between (Vacated), and that renaming the        *)
(* temporary file publishes all that was flushed on what the writer has    *)
(* already done (Written).                                                 *)
(***************************************************************************)

\* Between fileExists(snapshotPath_) and the rename that follows it the last
\* committed snapshot is under its own name.
Moving ==
    writer \in {"rmBak", "mvBak"} =>
        committed > 0 /\ snapshot = Image(committed, cut)

\* Past that rename the snapshot's name is free.
Vacated ==
    writer \in {"open", "write", "close", "commit"} => snapshot = NoFile

\* A temporary file the writer is about to publish holds all of its version,
\* unless the flush failed.
Written ==
    /\ writer = "commit" => tmp \in {NoFile, Image(ver, ~flushed)}
    /\ writer \in {"write", "close"} => tmp \in {NoFile, Part(ver)}
    /\ writer # "idle" => ver > 0

SnapshotInv ==
    /\ SnapshotTypeOK /\ LatestSurvives /\ ReadableWhenQuiet
    /\ Moving /\ Vacated /\ Written

\* What a path can hold: nothing, a whole snapshot or a part of one.
LEMMA FileFacts ==
    /\ NoFile \in File /\ ~Exists(NoFile)
    /\ \A v \in Nat : Whole(v) \in File /\ Part(v) \in File /\ Whole(v) # Part(v)
    /\ \A v \in Nat \ {0} : Exists(Whole(v)) /\ Exists(Part(v))
    /\ \A f \in File : Exists(f) <=> f # NoFile
    /\ \A v \in Nat, c \in BOOLEAN : Image(v, c) \in {Whole(v), Part(v)}
    /\ \A v \in Nat : \A c \in BOOLEAN : Image(v, c) \in File
    /\ \A v \in Nat \ {0}, c \in BOOLEAN : Exists(Image(v, c)) /\ Image(v, c) # NoFile
  BY DEF File, NoFile, Whole, Part, Exists, Image

\* The invariant holds before the first save.
LEMMA SnapshotInitInv == SnapshotInit => SnapshotInv
PROOF
  <1> SUFFICES ASSUME SnapshotInit PROVE SnapshotInv
    OBVIOUS
  <1> USE DEF SnapshotInit
  <1>1. SnapshotTypeOK
    BY FileFacts DEF SnapshotTypeOK, WriterPC
  <1>2. LatestSurvives /\ ReadableWhenQuiet
    BY DEF LatestSurvives, ReadableWhenQuiet
  <1>3. Moving /\ Vacated /\ Written
    BY DEF Moving, Vacated, Written
  <1> QED
    BY <1>1, <1>2, <1>3 DEF SnapshotInv

\* No system call, failure or crash breaks it.
LEMMA SnapshotStepInv == SnapshotInv /\ [SnapshotNext]_snapshotVars => SnapshotInv'
PROOF
  <1> SUFFICES ASSUME SnapshotInv, [SnapshotNext]_snapshotVars PROVE SnapshotInv'
    OBVIOUS
  <1> USE DEF SnapshotInv, SnapshotTypeOK, LatestSurvives, ReadableWhenQuiet, Moving, Vacated,
              Written, WriterPC, history
  <1> USE FileFacts
  <1>1. CASE UNCHANGED snapshotVars
    BY <1>1 DEF snapshotVars, fileVars
  <1>2. CASE OpenWriter
    BY <1>2 DEF OpenWriter, fileVars
  <1>3. CASE WriterRemoveTmp
    BY <1>3 DEF WriterRemoveTmp
  <1>4. CASE CheckSnapshot
    <2>1. Exists(snapshot) => committed > 0 /\ snapshot = Image(committed, cut)
      OBVIOUS
    <2> QED
      BY <1>4, <2>1 DEF CheckSnapshot, fileVars
  <1>5. CASE RemoveBak
    BY <1>5 DEF RemoveBak
  <1>6. CASE MoveToBak
    BY <1>6 DEF MoveToBak, GiveUp
  <1>7. CASE OpenTmp
    BY <1>7 DEF OpenTmp, GiveUp
  <1>8. CASE Write
    BY <1>8 DEF Write, GiveUp
  <1>9. CASE Close
    BY <1>9 DEF Close
  <1>10. CASE Commit
    <2>1. CASE /\ Exists(tmp)
               /\ snapshot' = tmp
               /\ tmp' = NoFile
               /\ writer' = "idle"
               /\ Committed
               /\ UNCHANGED bak
      <3>1. ver > 0 /\ tmp = Image(ver, ~flushed) /\ ver' = ver /\ reader' = reader
        BY <1>10, <2>1 DEF Commit
      <3> USE DEF Committed
      <3>5. committed > 0 => bak = Image(committed, cut)
        BY <1>10 DEF Commit
      <3>2. SnapshotTypeOK'
        BY <2>1, <3>1
      <3>3. LatestSurvives' /\ ReadableWhenQuiet'
        BY <2>1, <3>1, <3>5
      <3>4. Moving' /\ Vacated' /\ Written'
        BY <2>1, <3>1
      <3> QED
        BY <3>2, <3>3, <3>4
    <2>2. CASE GiveUp /\ UNCHANGED tmp
      BY <1>10, <2>2 DEF Commit, GiveUp
    <2> QED
      BY <1>10, <2>1, <2>2 DEF Commit
  <1>11. CASE OpenReader
    BY <1>11 DEF OpenReader, fileVars
  <1>12. CASE ReaderRemoveTmp
    BY <1>12 DEF ReaderRemoveTmp
  <1>13. CASE CheckReadable
    BY <1>13 DEF CheckReadable, fileVars
  <1>14. CASE Read
    BY <1>14 DEF Read, fileVars
  <1>15. CASE Crash
    BY <1>15 DEF Crash, fileVars
  <1> QED
    BY <1>1, <1>2, <1>3, <1>4, <1>5, <1>6, <1>7, <1>8, <1>9, <1>10, <1>11,
       <1>12, <1>13, <1>14, <1>15 DEF SnapshotNext

\* Whatever crashes, fails or overlaps, the last snapshot for which commit()
\* returned is under the snapshot's name or the backup's, and whole unless the
\* flush failed that Serializer::close does not look at.
THEOREM LatestAlwaysSurvives == SnapshotSpec => []LatestSurvives
PROOF
  <1>1. SnapshotInv => LatestSurvives
    BY DEF SnapshotInv
  <1> QED
    BY SnapshotInitInv, SnapshotStepInv, <1>1, PTL DEF SnapshotSpec

\* With no save under way or given up, the reading constructor finds it, and
\* the one committed before it is the backup, whether or not it was cut.
THEOREM AlwaysReadableWhenQuiet == SnapshotSpec => []ReadableWhenQuiet
PROOF
  <1>1. SnapshotInv => ReadableWhenQuiet
    BY DEF SnapshotInv
  <1> QED
    BY SnapshotInitInv, SnapshotStepInv, <1>1, PTL DEF SnapshotSpec

-----------------------------------------------------------------------------
(***************************************************************************)
(* DisjointIds, NoOverflow and RegistryConsistent of UniqueID for any      *)
(* clients, names, addresses, sizes and width of long.                     *)
(*                                                                         *)
(* DisjointIds is not inductive.  It rests on Watermark: a generator's     *)
(* counter is past every range it has returned; and, because addresses are *)
(* used again, on GenFresh: no two addresses carry the same generator, and *)
(* whatever a call of newId holds has been created.                        *)
(***************************************************************************)

\* Generators are told apart by their number, and every number in use, by
\* the table, a call or a returned range, has been given out.
GenFresh ==
    /\ \A a \in Addr : gen[a] \in 0..created
    /\ \A a, b \in Addr : gen[a] = gen[b] /\ gen[a] # 0 => a = b
    /\ \A a \in resourceGenerators_ : gen[a] # 0
    /\ \A c \in Client : call[c] # NoCall => gen[call[c].addr] # 0
    /\ \A i \in 1..Len(issued) : issued[i].gen \in 1..created

\* A generator's counter is at or past the end of all its ranges.
Watermark ==
    \A i \in 1..Len(issued), a \in Addr :
        issued[i].gen = gen[a] => issued[i].first + issued[i].size =< lastId_[a]

IInv ==
    TypeOK /\ GenFresh /\ Watermark /\ DisjointIds /\ NoOverflow
           /\ RegistryConsistent

\* The constants a call can hold are integers.
LEMMA ConstFacts ==
    /\ MaxLong \in Int
    /\ Size \subseteq Int /\ \A s \in Size : s >= 1 /\ s =< MaxLong
    /\ StartId \subseteq Long
    /\ Long \subseteq Int
  BY UidAssumption DEF Long

\* Where a call stands determines what its record holds.
LEMMA CallFacts ==
    ASSUME TypeOK, NEW c \in Client
    PROVE  /\ call[c].at = "load" =>
                call[c] # NoCall /\ call[c].addr \in Addr /\ call[c].size \in Size
           /\ call[c].at = "cas" =>
                /\ call[c] # NoCall /\ call[c].addr \in Addr
                /\ call[c].size \in Size /\ call[c].current \in Long
           /\ call[c] # NoCall => call[c].addr \in Addr
PROOF
  <1>1. call[c] \in Call
    BY DEF TypeOK
  <1> QED
    BY <1>1 DEF Call, NoCall

\* Rereading the counter changes nothing but the call.
LEMMA ReadingKeepsInv ==
    ASSUME IInv, NEW c \in Client, call[c].at \in {"load", "cas"},
           Reading(c, lastId_[call[c].addr]),
           UNCHANGED <<nameGenerators_, resourceGenerators_, gen, lastId_,
                       nameOf, created, issued>>
    PROVE  IInv'
PROOF
  <1>1. /\ call[c] # NoCall /\ call[c].addr \in Addr /\ call[c].size \in Size
        /\ lastId_[call[c].addr] \in Long
    BY CallFacts DEF IInv, TypeOK
  <1> DEFINE new == [at |-> "cas", addr |-> call[c].addr,
                     size |-> call[c].size,
                     current |-> lastId_[call[c].addr]]
  <1>2. new \in Call /\ new # NoCall /\ new.addr = call[c].addr
    BY <1>1 DEF Call, NoCall
  <1>3. call' = [call EXCEPT ![c] = new]
    BY DEF Reading
  <1>4. TypeOK'
    BY <1>2, <1>3 DEF IInv, TypeOK
  <1>5. GenFresh'
    BY <1>1, <1>2, <1>3 DEF IInv, TypeOK, GenFresh
  <1>6. Watermark' /\ DisjointIds' /\ NoOverflow' /\ RegistryConsistent'
    BY DEF IInv, Watermark, DisjointIds, NoOverflow, RegistryConsistent
  <1> QED
    BY <1>4, <1>5, <1>6 DEF IInv

\* The heart of the argument: an exchange that succeeds on the value read
\* returns a range that starts where all earlier ones of its generator end.
LEMMA SuccessKeepsInv ==
    ASSUME IInv, NEW c \in Client, NEW a \in Addr, NEW cur \in Long,
           NEW s \in Size, cur + s \in Long, gen[a] # 0, lastId_[a] = cur,
           lastId_' = [lastId_ EXCEPT ![a] = cur + s],
           issued' = Append(issued, [gen |-> gen[a], first |-> cur, size |-> s]),
           call' = [call EXCEPT ![c] = NoCall],
           UNCHANGED <<nameGenerators_, resourceGenerators_, gen, nameOf,
                       created>>
    PROVE  IInv'
PROOF
  <1> DEFINE r == [gen |-> gen[a], first |-> cur, size |-> s]
             n == Len(issued)
  <1>0. TypeOK /\ GenFresh /\ Watermark /\ DisjointIds /\ NoOverflow
        /\ RegistryConsistent
    BY DEF IInv
  <1>1. /\ r \in Range /\ NoCall \in Call
        /\ r.gen = gen[a] /\ r.first = cur /\ r.size = s
        /\ cur \in Int /\ s \in Int /\ s >= 1
    BY <1>0, ConstFacts DEF Range, Call, TypeOK
  <1>2. issued \in Seq(Range) /\ n \in Nat
    BY <1>0 DEF TypeOK
  <1> HIDE DEF r
  <1>3. issued' \in Seq(Range)
    BY <1>1, <1>2 DEF r
  <1>4. /\ Len(issued') = n + 1
        /\ issued'[n + 1] = r
        /\ \A i \in 1..n : issued'[i] = issued[i]
    BY <1>1, <1>2 DEF r
  <1>5. \A i \in 1..n : issued[i] \in Range
    BY <1>2
  <1>6. \A i \in 1..n :
            issued[i].gen \in Nat /\ issued[i].first \in Int /\ issued[i].size \in Int
    BY <1>5, ConstFacts DEF Range
  <1>7. lastId_' \in [Addr -> Long] /\ call' \in [Client -> Call]
    BY <1>0, <1>1 DEF TypeOK
  <1>8. TypeOK'
    BY <1>0, <1>3, <1>7 DEF TypeOK
  <1>9. GenFresh'
    <2>1. \A i \in 1..Len(issued') : issued'[i].gen \in 1..created
      <3>1. gen[a] \in 1..created
        BY <1>0 DEF GenFresh, TypeOK
      <3>2. \A i \in 1..n : issued[i].gen \in 1..created
        BY <1>0 DEF GenFresh
      <3> QED
        BY <1>1, <1>2, <1>4, <3>1, <3>2
    <2>2. \A d \in Client : call'[d] # NoCall => gen[call'[d].addr] # 0
      BY <1>0 DEF GenFresh, TypeOK
    <2> QED
      BY <1>0, <2>1, <2>2 DEF GenFresh
  <1>10. \A b \in Addr :
            /\ lastId_[b] \in Int /\ lastId_'[b] \in Int
            /\ lastId_[b] =< lastId_'[b]
    <2> SUFFICES ASSUME NEW b \in Addr
                 PROVE  /\ lastId_[b] \in Int /\ lastId_'[b] \in Int
                        /\ lastId_[b] =< lastId_'[b]
      OBVIOUS
    <2>1. lastId_[b] \in Int
      BY <1>0, ConstFacts DEF TypeOK
    <2>2. lastId_'[b] = IF b = a THEN cur + s ELSE lastId_[b]
      BY <1>0 DEF TypeOK
    <2> QED
      BY <1>1, <2>1, <2>2
  <1>11. Watermark'
    <2> SUFFICES ASSUME NEW i \in 1..(n + 1), NEW b \in Addr,
                        issued'[i].gen = gen[b]
                 PROVE  issued'[i].first + issued'[i].size =< lastId_'[b]
      BY <1>4 DEF Watermark
    <2>1. CASE i = n + 1
      <3>1. a = b
        BY <1>0, <1>1, <1>4, <2>1 DEF GenFresh
      <3>2. lastId_'[a] = cur + s
        BY <1>0 DEF TypeOK
      <3> QED
        BY <1>1, <1>4, <2>1, <3>1, <3>2
    <2>2. CASE i \in 1..n
      <3>1. issued[i].first + issued[i].size =< lastId_[b]
        BY <1>0, <1>4, <2>2 DEF Watermark
      <3> QED
        BY <1>4, <1>6, <1>10, <2>2, <3>1
    <2> QED
      BY <1>2, <2>1, <2>2
  <1>12. DisjointIds'
    <2> SUFFICES ASSUME NEW i \in 1..(n + 1), NEW j \in 1..(n + 1), i < j,
                        issued'[i].gen = issued'[j].gen
                 PROVE  issued'[i].first + issued'[i].size =< issued'[j].first
      BY <1>4 DEF DisjointIds
    <2>1. i \in 1..n
      BY <1>2
    <2>2. CASE j = n + 1
      BY <1>0, <1>1, <1>4, <2>1, <2>2 DEF Watermark
    <2>3. CASE j \in 1..n
      BY <1>0, <1>4, <2>1, <2>3 DEF DisjointIds
    <2> QED
      BY <1>2, <2>2, <2>3
  <1>13. NoOverflow'
    <2>1. cur + s =< MaxLong
      BY UidAssumption DEF Long
    <2> QED
      BY <1>0, <1>1, <1>2, <1>4, <2>1 DEF NoOverflow
  <1>14. RegistryConsistent'
    BY <1>0 DEF RegistryConsistent
  <1> QED
    BY <1>8, <1>9, <1>11, <1>12, <1>13, <1>14 DEF IInv

\* The invariant holds of an empty registry.
LEMMA InitInv == Init => IInv
PROOF
  <1> SUFFICES ASSUME Init PROVE IInv
    OBVIOUS
  <1>1. TypeOK
    <2>1. (CHOOSE n \in Name : TRUE) \in Name
      BY UidAssumption
    <2>2. 0 \in Long
      BY UidAssumption DEF Long
    <2>3. call \in [Client -> Call]
      BY DEF Init, Call
    <2> QED
      BY <2>1, <2>2, <2>3 DEF Init, TypeOK
  <1> QED
    BY <1>1 DEF Init, IInv, GenFresh, Watermark, DisjointIds, NoOverflow,
                RegistryConsistent

\* No session's step breaks it.
LEMMA StepInv == IInv /\ [Next]_vars => IInv'
PROOF
  <1> SUFFICES ASSUME IInv, [Next]_vars PROVE IInv'
    OBVIOUS
  <1> USE DEF IInv
  <1>1. CASE UNCHANGED vars
    BY <1>1 DEF vars, TypeOK, GenFresh, Watermark, DisjointIds, NoOverflow,
                RegistryConsistent
  <1>2. ASSUME NEW n \in Name, NEW id \in StartId, CreateNewGenerator(n, id)
        PROVE  IInv'
    <2>1. PICK a \in Addr :
            /\ Free(a)
            /\ resourceGenerators_' = resourceGenerators_ \union {a}
            /\ nameGenerators_' = nameGenerators_ \union {<<n, a>>}
            /\ gen' = [gen EXCEPT ![a] = created + 1]
            /\ lastId_' = [lastId_ EXCEPT ![a] = id]
            /\ nameOf' = [nameOf EXCEPT ![a] = n]
      BY <1>2 DEF CreateNewGenerator
    <2>2. /\ created' = created + 1 /\ call' = call /\ issued' = issued
          /\ ~Bound(n)
      BY <1>2 DEF CreateNewGenerator
    <2>3. TypeOK'
      BY <2>1, <2>2, ConstFacts DEF TypeOK
    <2>4. GenFresh'
      BY <2>1, <2>2, CallFacts DEF TypeOK, GenFresh, Free, Holds
    <2>5. Watermark' /\ DisjointIds' /\ NoOverflow'
      <3>1. Watermark'
        <4> SUFFICES ASSUME NEW i \in 1..Len(issued), NEW b \in Addr,
                            issued[i].gen = gen'[b]
                     PROVE  issued[i].first + issued[i].size =< lastId_'[b]
          BY <2>2 DEF Watermark
        <4>1. issued[i].gen \in 1..created /\ created \in Nat
          BY DEF GenFresh, TypeOK
        <4>2. b # a
          BY <2>1, <4>1 DEF TypeOK
        <4> QED
          BY <2>1, <4>2 DEF Watermark, TypeOK
      <3> QED
        BY <2>2, <3>1 DEF DisjointIds, NoOverflow
    <2>6. RegistryConsistent'
      <3>1. \A b \in nameGenerators_ : b[1] # n /\ b[2] # a
        BY <2>1, <2>2 DEF Bound, Free, RegistryConsistent, TypeOK
      <3>2. \A b \in Addr : b # a => nameOf'[b] = nameOf[b]
        BY <2>1 DEF TypeOK
      <3>3. nameOf'[a] = n
        BY <2>1 DEF TypeOK
      <3>4. \A b \in nameGenerators_ : b[2] \in Addr
        BY DEF TypeOK
      <3>5. \A b \in nameGenerators_' :
                b[2] \in resourceGenerators_' /\ nameOf'[b[2]] = b[1]
        BY <2>1, <3>1, <3>2, <3>3, <3>4 DEF RegistryConsistent
      <3>6. \A b \in resourceGenerators_' : <<nameOf'[b], b>> \in nameGenerators_'
        BY <2>1, <3>2, <3>3 DEF RegistryConsistent, TypeOK
      <3>7. \A b1, b2 \in nameGenerators_' : b1[1] = b2[1] => b1 = b2
        BY <2>1, <3>1 DEF RegistryConsistent
      <3> QED
        BY <3>5, <3>6, <3>7 DEF RegistryConsistent
    <2> QED
      BY <2>3, <2>4, <2>5, <2>6
  <1>3. ASSUME NEW a \in Addr, DestroyByAddress(a)
        PROVE  IInv'
    BY <1>3 DEF DestroyByAddress, TypeOK, GenFresh, Watermark, DisjointIds,
                NoOverflow, RegistryConsistent
  <1>4. ASSUME NEW n \in Name, DestroyByName(n)
        PROVE  IInv'
    BY <1>4 DEF DestroyByName, TypeOK, GenFresh, Watermark, DisjointIds,
                NoOverflow, RegistryConsistent
  <1>5. ASSUME NEW c \in Client, NEW a \in Addr, NEW size \in Size,
               FindGenerator(c, a, size)
        PROVE  IInv'
    <2>1. [at |-> "load", addr |-> a, size |-> size] \in Call
      BY DEF Call
    <2> QED
      BY <1>5, <2>1 DEF FindGenerator, TypeOK, GenFresh, Watermark,
         DisjointIds, NoOverflow, RegistryConsistent
  <1>6. ASSUME NEW c \in Client, LoadLastId(c)
        PROVE  IInv'
    BY <1>6, ReadingKeepsInv DEF LoadLastId, TypeOK
  <1>7. ASSUME NEW c \in Client, OverflowThrow(c)
        PROVE  IInv'
    <2>1. NoCall \in Call
      BY DEF Call
    <2> QED
      BY <1>7, <2>1 DEF OverflowThrow, TypeOK, GenFresh, Watermark,
         DisjointIds, NoOverflow, RegistryConsistent
  <1>8. ASSUME NEW c \in Client, Exchange(c)
        PROVE  IInv'
    <2> DEFINE a == call[c].addr
    <2>1. CASE Reading(c, lastId_[a]) /\ UNCHANGED <<lastId_, issued>>
      BY <1>8, <2>1, ReadingKeepsInv DEF Exchange
    <2>2. CASE /\ lastId_[a] = call[c].current
               /\ lastId_' = [lastId_ EXCEPT ![a] = Wrap(@ + call[c].size)]
               /\ issued' = Append(issued, [gen   |-> gen[a],
                                            first |-> call[c].current,
                                            size  |-> call[c].size])
               /\ call' = [call EXCEPT ![c] = NoCall]
      <3>1. /\ a \in Addr /\ call[c].size \in Size /\ gen[a] # 0
            /\ call[c].current \in Long
        BY <1>8, CallFacts DEF Exchange, TypeOK, GenFresh
      <3>2. call[c].current + call[c].size \in Long
        BY <1>8, <3>1, ConstFacts, UidAssumption DEF Exchange, Overflows, Long
      <3>3. lastId_' = [lastId_ EXCEPT ![a] = call[c].current + call[c].size]
        <4>1. Wrap(call[c].current + call[c].size) = call[c].current + call[c].size
          BY <3>2, UidAssumption DEF Wrap, Long
        <4> QED
          BY <2>2, <3>1, <4>1 DEF TypeOK
      <3>4. UNCHANGED <<nameGenerators_, resourceGenerators_, gen, nameOf, created>>
        BY <1>8 DEF Exchange
      <3> HIDE DEF a
      <3> QED
        BY <2>2, <3>1, <3>2, <3>3, <3>4, SuccessKeepsInv
    <2> QED
      BY <1>8, <2>1, <2>2 DEF Exchange
  <1> QED
    BY <1>1, <1>2, <1>3, <1>4, <1>5, <1>6, <1>7, <1>8 DEF Next, NewId

-----------------------------------------------------------------------------
\* No id is returned twice by one generator, for any number of clients.
THEOREM IdsDisjoint == Spec => []DisjointIds
PROOF
  <1>1. IInv => DisjointIds
    BY DEF IInv
  <1> QED
    BY InitInv, StepInv, <1>1, PTL DEF Spec

\* No generator hands out an id past the largest long, for any width of long.
THEOREM IdsNeverOverflow == Spec => []NoOverflow
PROOF
  <1>1. IInv => NoOverflow
    BY DEF IInv
  <1> QED
    BY InitInv, StepInv, <1>1, PTL DEF Spec

\* The name map and the address table always agree.
THEOREM RegistryAgrees == Spec => []RegistryConsistent
PROOF
  <1>1. IInv => RegistryConsistent
    BY DEF IInv
  <1> QED
    BY InitInv, StepInv, <1>1, PTL DEF Spec
=============================================================================
