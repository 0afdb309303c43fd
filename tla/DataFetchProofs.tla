-------------------------- MODULE DataFetchProofs --------------------------
(***************************************************************************)
(* Proofs about DataFetch, for any list of symbols, size of the pool,      *)
(* network and content of the cache directory.                             *)
(***************************************************************************)
EXTENDS DataFetch, FiniteSetTheorems, TLAPS

TypeOK ==
  /\ blocked \in BOOLEAN /\ switchable \in BOOLEAN /\ csrf \in BOOLEAN
  /\ lock \in Nat /\ attempts \in Nat
  /\ file \in [Symbol -> {"absent", "torn", "empty", "whole"}]
  /\ opener \in [Symbol -> Nat]
  /\ pc \in [Fetches -> Places]
  /\ frame \in [Fetches -> {"none", "data", "empty", "limited", "raised"}]
  /\ began \in [Fetches -> BOOLEAN] /\ turned \in [Fetches -> BOOLEAN]
  /\ result \in [is : {"none", "raising", "error", "dict"}, at : 0..Len(Calls)]

\* A fetch asks for a symbol.
LEMMA CallTyped ==
  /\ Len(Calls) \in Nat
  /\ \A i \in Fetches : Calls[i] \in Symbol /\ i \in Nat /\ i # 0
BY FetchAssumption DEF Fetches, Symbol

LEMMA TypeStart == Init => TypeOK
<1> SUFFICES ASSUME Init PROVE TypeOK
  OBVIOUS
<1>1. file \in [Symbol -> {"absent", "torn", "empty", "whole"}]
  BY FetchAssumption DEF Init
<1>2. result \in [is : {"none", "raising", "error", "dict"}, at : 0..Len(Calls)]
  BY CallTyped DEF Init
<1> QED  BY <1>1, <1>2 DEF Init, TypeOK, Places

\* What a step of one fetch leaves of the types.
LEMMA TypeFetch ==
  ASSUME TypeOK, NEW i \in Fetches, Fetch(i)
  PROVE  TypeOK'
<1> USE CallTyped DEF TypeOK, Places, WorldUnchanged, FilesUnchanged, SwitchUnchanged, Goto, Hold,
                      FileBecomes
<1>1. CASE Start(i)     BY <1>1 DEF Start
<1>2. CASE Lookup(i)    BY <1>2 DEF Lookup
<1>3. CASE Read(i)      BY <1>3 DEF Read
<1>4. CASE Discard(i)
  <2>1. CASE file[Calls[i]] = "absent"
    BY <1>4, <2>1 DEF Discard
  <2>2. CASE file[Calls[i]] # "absent"
    <3>1. file' = [file EXCEPT ![Calls[i]] = "absent"] /\ opener' = [opener EXCEPT ![Calls[i]] = 0]
      BY <1>4, <2>2 DEF Discard, Unlink
    <3>2. pc' = [pc EXCEPT ![i] = "download"] /\ UNCHANGED <<frame, began>>
      BY <1>4, <2>2 DEF Discard, Refetch
    <3>3. file' \in [Symbol -> {"absent", "torn", "empty", "whole"}] /\ opener' \in [Symbol -> Nat]
      BY <3>1
    <3>4. pc' \in [Fetches -> Places]  BY <3>2
    <3> QED  BY <1>4, <3>2, <3>3, <3>4 DEF Discard
  <2> QED  BY <2>1, <2>2
<1>5. CASE Download(i)
  <2>1. PICK answer \in Answers(i) :
          /\ Hold(i, answer)
          /\ Goto(i, CASE answer = "data" -> "store" [] answer \in NoRows -> "lock"
                       [] OTHER -> "returned")
    BY <1>5 DEF Download
  <2>2. answer \in {"data", "empty", "limited", "raised"}  BY DEF Answers
  <2> QED  BY <1>5, <2>1, <2>2 DEF Download
<1>6. CASE Lock(i)      BY <1>6 DEF Lock
<1>7. CASE Check(i)
  <2>1. CASE csrf
    BY <1>7, <2>1 DEF Check
  <2>2. CASE ~csrf
    BY <1>7, <2>2 DEF Check
  <2> QED  BY <2>1, <2>2
<1>8. CASE Switch(i)    BY <1>8 DEF Switch, Unlock, AfterSwitch
<1>9. CASE Retry(i)
  <2>1. PICK answer \in Answers(i) :
          Hold(i, answer) /\ Goto(i, IF answer = "data" THEN "store" ELSE "returned")
    BY <1>9 DEF Retry
  <2>2. answer \in {"data", "empty", "limited", "raised"}  BY DEF Answers
  <2> QED  BY <1>9, <2>1, <2>2 DEF Retry
<1>10. CASE Store(i)    BY <1>10 DEF Store
<1>11. CASE Fill(i)     BY <1>11 DEF Fill
<1> QED  BY <1>1, <1>2, <1>3, <1>4, <1>5, <1>6, <1>7, <1>8, <1>9, <1>10, <1>11 DEF Fetch

LEMMA TypeStep == TypeOK /\ [Next]_vars => TypeOK'
<1> SUFFICES ASSUME TypeOK, [Next]_vars PROVE TypeOK'
  OBVIOUS
<1>1. CASE Gather
  <2>1. PICK i \in InOrder :
          result' = [is |-> IF frame[i] = "raised" THEN "raising" ELSE "none", at |-> i]
    BY <1>1 DEF Gather, NextFuture
  <2>2. i \in 0..Len(Calls)  BY CallTyped DEF InOrder, Fetches
  <2> QED  BY <1>1, <2>1, <2>2 DEF Gather, TypeOK, FilesUnchanged, SwitchUnchanged
<1>2. CASE Leave
  BY <1>2 DEF Leave, TypeOK, FilesUnchanged, SwitchUnchanged
<1>3. CASE \E i \in Fetches : Fetch(i)
  BY <1>3, TypeFetch
<1>4. CASE UNCHANGED vars
  BY <1>4 DEF vars, TypeOK
<1> QED  BY <1>1, <1>2, <1>3, <1>4 DEF Next
-----------------------------------------------------------------------------
\* Of the places and frames a step of a fetch changes its own only, it never
\* starts from "returned", and it makes no file empty.
LEMMA FetchIsLocal ==
  ASSUME TypeOK, NEW i \in Fetches, Fetch(i)
  PROVE  /\ pc[i] # "returned" /\ UNCHANGED <<blocked, switchable, result>>
         /\ \A j \in Fetches \ {i} : /\ pc'[j] = pc[j] /\ frame'[j] = frame[j]
                                     /\ began'[j] = began[j] /\ turned'[j] = turned[j]
         /\ \A s \in Symbol : file'[s] = "empty" => file[s] = "empty"
<1> USE CallTyped DEF TypeOK, WorldUnchanged, FilesUnchanged, SwitchUnchanged, Goto, Hold, FileBecomes
<1>1. CASE Start(i)     BY <1>1 DEF Start
<1>2. CASE Lookup(i)    BY <1>2 DEF Lookup
<1>3. CASE Read(i)
  <2>1. \A j \in Fetches \ {i} : pc'[j] = pc[j] /\ frame'[j] = frame[j]
    BY <1>3 DEF Read
  <2> QED  BY <1>3, <2>1 DEF Read
<1>4. CASE Discard(i)
  <2>1. CASE file[Calls[i]] = "absent"
    BY <1>4, <2>1 DEF Discard
  <2>2. CASE file[Calls[i]] # "absent"
    <3>1. file' = [file EXCEPT ![Calls[i]] = "absent"]
      BY <1>4, <2>2 DEF Discard, Unlink
    <3>2. pc' = [pc EXCEPT ![i] = "download"] /\ UNCHANGED <<frame, began>>
      BY <1>4, <2>2 DEF Discard, Refetch
    <3>3. \A s \in Symbol : file'[s] = "empty" => file[s] = "empty"  BY <3>1
    <3>4. \A j \in Fetches \ {i} : pc'[j] = pc[j]  BY <3>2
    <3> QED  BY <1>4, <3>2, <3>3, <3>4 DEF Discard
  <2> QED  BY <2>1, <2>2
<1>5. CASE Download(i)  BY <1>5 DEF Download
<1>6. CASE Lock(i)      BY <1>6 DEF Lock
<1>7. CASE Check(i)     BY <1>7 DEF Check
<1>8. CASE Switch(i)    BY <1>8 DEF Switch
<1>9. CASE Retry(i)     BY <1>9 DEF Retry
<1>10. CASE Store(i)    BY <1>10 DEF Store
<1>11. CASE Fill(i)
  <2>1. pc' = [pc EXCEPT ![i] = "returned"] /\ pc[i] = "fill" /\ UNCHANGED <<frame, began>>
        /\ UNCHANGED <<blocked, switchable, result, turned>>
    BY <1>11 DEF Fill
  <2>2. file' = [file EXCEPT ![Calls[i]] = "whole"] \/ file' = file
    BY <1>11 DEF Fill
  <2>3. \A s \in Symbol : file'[s] = "empty" => file[s] = "empty"  BY <2>2
  <2> QED  BY <2>1, <2>3
<1> QED  BY <1>1, <1>2, <1>3, <1>4, <1>5, <1>6, <1>7, <1>8, <1>9, <1>10, <1>11 DEF Fetch

\* The lock belongs to the fetch in the critical section, which finds the
\* strategy inactive if it switches; a retry comes after a switch that worked.
SwitchInv ==
  /\ \A i \in Fetches : /\ pc[i] \in {"check", "switch"} <=> lock = i
                        /\ pc[i] = "switch" => ~csrf
                        /\ pc[i] = "retry" => csrf
  /\ csrf => switchable
  /\ switchable => attempts = IF csrf THEN 1 ELSE 0

LEMMA SwitchFetch ==
  ASSUME TypeOK, SwitchInv, NEW i \in Fetches, Fetch(i)
  PROVE  SwitchInv' /\ (csrf => csrf')
<1> USE CallTyped DEF TypeOK, SwitchInv, SwitchUnchanged, WorldUnchanged, Goto
<1>0. /\ \A j \in Fetches \ {i} : pc'[j] = pc[j]
      /\ switchable' = switchable
  BY FetchIsLocal
<1>1. ASSUME SwitchUnchanged, pc[i] \notin {"check", "switch"},
             pc'[i] \notin {"check", "switch", "retry"}
      PROVE  SwitchInv' /\ (csrf => csrf')
  BY <1>0, <1>1
<1>2. CASE Start(i)     BY <1>1, <1>2 DEF Start
<1>3. CASE Lookup(i)    BY <1>1, <1>3 DEF Lookup
<1>4. CASE Read(i)
  <2>1. pc'[i] \in {"discard", "returned"} /\ pc[i] = "read" /\ SwitchUnchanged
    BY <1>4 DEF Read
  <2> QED  BY <1>1, <2>1
<1>5. CASE Discard(i)
  <2>1. pc'[i] \in {"download", "returned"} /\ pc[i] = "discard" /\ SwitchUnchanged
    BY <1>5 DEF Discard, Refetch
  <2> QED  BY <1>1, <2>1
<1>6. CASE Download(i)
  <2>1. pc'[i] \in {"store", "lock", "returned"} /\ pc[i] = "download" /\ SwitchUnchanged
    BY <1>6 DEF Download
  <2> QED  BY <1>1, <2>1
<1>7. CASE Lock(i)
  <2>1. lock = 0 /\ lock' = i /\ pc'[i] = "check" /\ UNCHANGED <<csrf, attempts>>
    BY <1>7 DEF Lock, LockIsFree
  <2> QED  BY <1>0, <2>1
<1>8. CASE Check(i)
  <2>1. pc[i] = "check" /\ lock = i /\ UNCHANGED <<csrf, attempts>>
    BY <1>8 DEF Check
  <2>2. CASE csrf
    <3>1. lock' = 0 /\ pc'[i] = "returned"  BY <1>8, <2>2 DEF Check
    <3> QED  BY <1>0, <2>1, <3>1
  <2>3. CASE ~csrf
    <3>1. lock' = lock /\ pc'[i] = "switch"  BY <1>8, <2>3 DEF Check
    <3> QED  BY <1>0, <2>1, <2>3, <3>1
  <2> QED  BY <2>2, <2>3
<1>9. CASE Switch(i)
  <2>1. /\ pc[i] = "switch" /\ lock = i /\ lock' = 0 /\ attempts' = attempts + 1 /\ ~csrf
        /\ csrf' = switchable /\ pc'[i] = IF switchable THEN "retry" ELSE "returned"
    BY <1>9 DEF Switch, Unlock, AfterSwitch
  <2>2. \A j \in Fetches \ {i} : pc[j] \notin {"check", "switch"}  BY <2>1
  <2>3. \A j \in Fetches \ {i} : pc[j] # "retry"  BY <2>1
  <2> QED  BY <1>0, <2>1, <2>2, <2>3
<1>10. CASE Retry(i)
  <2>1. pc'[i] \in {"store", "returned"} /\ pc[i] = "retry" /\ SwitchUnchanged
    BY <1>10 DEF Retry
  <2> QED  BY <1>1, <2>1
<1>11. CASE Store(i)    BY <1>1, <1>11 DEF Store
<1>12. CASE Fill(i)     BY <1>1, <1>12 DEF Fill
<1> QED  BY <1>2, <1>3, <1>4, <1>5, <1>6, <1>7, <1>8, <1>9, <1>10, <1>11, <1>12 DEF Fetch

LEMMA SwitchStep == TypeOK /\ SwitchInv /\ [Next]_vars => SwitchInv' /\ (csrf => csrf')
<1> SUFFICES ASSUME TypeOK, SwitchInv, [Next]_vars PROVE SwitchInv' /\ (csrf => csrf')
  OBVIOUS
<1>1. CASE Gather
  BY <1>1 DEF Gather, SwitchInv, SwitchUnchanged
<1>2. CASE Leave
  BY <1>2 DEF Leave, SwitchInv, SwitchUnchanged
<1>3. CASE \E i \in Fetches : Fetch(i)
  BY <1>3, SwitchFetch
<1>4. CASE UNCHANGED vars
  BY <1>4 DEF vars, SwitchInv
<1> QED  BY <1>1, <1>2, <1>3, <1>4 DEF Next

LEMMA SwitchStart == Init => SwitchInv
BY CallTyped DEF Init, SwitchInv

\* The process-wide client is switched at most once with success, and by one
\* thread at a time, whatever the number of threads.
THEOREM SwitchHappensOnce == Spec => []SwitchedOnce
<1>1. TypeOK /\ SwitchInv => SwitchedOnce
  <2> SUFFICES ASSUME TypeOK, SwitchInv PROVE SwitchedOnce
    OBVIOUS
  <2> DEFINE inside == {i \in Fetches : pc[i] \in {"check", "switch"}}
  <2>1. switchable => attempts <= 1  BY DEF SwitchInv
  <2>2. inside \subseteq {lock}  BY DEF SwitchInv
  <2>3. Cardinality(inside) <= 1
    <3> HIDE DEF inside
    <3>1. inside = {} \/ inside = {lock}  BY <2>2
    <3>2. Cardinality({}) = 0 /\ Cardinality({lock}) = 1  BY FS_EmptySet, FS_Singleton
    <3> QED  BY <3>1, <3>2
  <2> QED  BY <2>1, <2>3 DEF SwitchedOnce
<1> QED  BY TypeStart, TypeStep, SwitchStart, SwitchStep, <1>1, PTL DEF Spec
-----------------------------------------------------------------------------
\* What a fetch may hold, and what its symbol's file may be, at its place.
FrameSound(i) ==
  /\ frame[i] = "raised" => pc[i] = "returned"
  /\ frame[i] = "empty" /\ Calls[i] \notin Delisted => blocked /\ ~began[i]
  /\ pc[i] \in {"store", "fill"} => frame[i] = "data"
  /\ turned[i] => pc[i] \in {"switch", "retry", "store", "fill", "returned"}
  /\ turned[i] /\ pc[i] = "returned" /\ Calls[i] \notin Delisted /\ switchable =>
       frame[i] # "empty"
  /\ pc[i] \notin {"queued", "lookup", "read", "discard"} /\ frame[i] # "raised" =>
       file[Calls[i]] # "empty"

FrameInv == \A i \in Fetches : FrameSound(i)

\* The steps of the other fetches do not disturb it.
LEMMA OthersKeepFrame ==
  ASSUME TypeOK, FrameInv, NEW i \in Fetches, Fetch(i), NEW j \in Fetches \ {i}
  PROVE  FrameSound(j)'
<1>1. /\ pc'[j] = pc[j] /\ frame'[j] = frame[j] /\ began'[j] = began[j] /\ turned'[j] = turned[j]
      /\ switchable' = switchable /\ blocked' = blocked /\ Calls[j] \in Symbol
      /\ file'[Calls[j]] = "empty" => file[Calls[j]] = "empty"
  BY FetchIsLocal, CallTyped
<1>2. FrameSound(j)  BY DEF FrameInv
<1> QED  BY <1>1, <1>2 DEF FrameSound

LEMMA OwnFrame ==
  ASSUME TypeOK, SwitchInv, FrameInv, NEW i \in Fetches, Fetch(i)
  PROVE  FrameSound(i)'
<1>0. /\ Calls[i] \in Symbol /\ switchable' = switchable /\ blocked' = blocked
      /\ file'[Calls[i]] = "empty" => file[Calls[i]] = "empty"
  BY FetchIsLocal, CallTyped
<1>00. FrameSound(i)  BY DEF FrameInv
<1> USE CallTyped DEF TypeOK, FilesUnchanged, SwitchUnchanged, Goto, Hold, FileBecomes
<1>1. CASE Start(i)     BY <1>0, <1>00, <1>1 DEF Start, FrameSound
<1>2. CASE Lookup(i)    BY <1>0, <1>00, <1>2 DEF Lookup, FrameSound
<1>3. CASE Read(i)
  <2>1. /\ pc[i] = "read" /\ UNCHANGED <<began, turned, file>>
        /\ \/ file[Calls[i]] = "whole" /\ pc'[i] = "returned" /\ frame'[i] = "data"
           \/ pc'[i] = "discard" /\ frame' = frame
           \/ pc'[i] = "returned" /\ frame'[i] = "raised"
    BY <1>3 DEF Read
  <2> QED  BY <1>0, <1>00, <2>1 DEF FrameSound
<1>4. CASE Discard(i)
  <2>1. pc[i] = "discard" /\ UNCHANGED <<began, turned>>
    BY <1>4 DEF Discard
  <2>2. CASE file[Calls[i]] = "absent"
    <3>1. pc'[i] = "returned" /\ frame'[i] = "raised"  BY <1>4, <2>2 DEF Discard
    <3> QED  BY <1>0, <1>00, <2>1, <3>1 DEF FrameSound
  <2>3. CASE file[Calls[i]] # "absent"
    <3>1. pc'[i] = "download" /\ frame' = frame  BY <1>4, <2>3 DEF Discard, Refetch
    <3>2. file'[Calls[i]] = "absent"  BY <1>0, <1>4, <2>3 DEF Discard, Unlink
    <3> QED  BY <1>0, <1>00, <2>1, <3>1, <3>2 DEF FrameSound
  <2> QED  BY <2>2, <2>3
<1>5. CASE Download(i)
  <2>1. PICK answer \in Answers(i) :
          /\ frame'[i] = answer
          /\ pc'[i] = CASE answer = "data" -> "store" [] answer \in NoRows -> "lock"
                       [] OTHER -> "returned"
    BY <1>5 DEF Download
  <2>2. pc[i] = "download" /\ began'[i] = csrf /\ UNCHANGED <<turned, file>>
    BY <1>5 DEF Download
  <2>3. answer \in {"data", "empty", "limited", "raised"}
        /\ (answer = "empty" /\ Calls[i] \notin Delisted => blocked /\ ~csrf)
    BY DEF Answers
  <2>4. ~turned[i] /\ file[Calls[i]] # "empty"
    BY <1>00, <2>2 DEF FrameSound
  <2>5. pc'[i] \in {"store", "lock", "returned"}
        /\ (pc'[i] = "store" => answer = "data") /\ (answer = "raised" => pc'[i] = "returned")
    BY <2>1, <2>3 DEF NoRows
  <2> QED  BY <1>0, <2>1, <2>2, <2>3, <2>4, <2>5 DEF FrameSound
<1>6. CASE Lock(i)      BY <1>0, <1>00, <1>6 DEF Lock, FrameSound
<1>7. CASE Check(i)
  <2>1. pc[i] = "check" /\ UNCHANGED <<frame, began, file>> /\ turned'[i] = ~csrf
    BY <1>7 DEF Check
  <2>2. pc'[i] = IF csrf THEN "returned" ELSE "switch"
    BY <1>7 DEF Check
  <2> QED  BY <1>0, <1>00, <2>1, <2>2 DEF FrameSound
<1>8. CASE Switch(i)
  <2>1. /\ pc[i] = "switch" /\ UNCHANGED <<frame, began, turned, file>>
        /\ pc'[i] = IF switchable THEN "retry" ELSE "returned"
    BY <1>8 DEF Switch, AfterSwitch
  <2> QED  BY <1>0, <1>00, <2>1 DEF FrameSound
<1>9. CASE Retry(i)
  <2>1. PICK answer \in Answers(i) :
          frame'[i] = answer /\ pc'[i] = IF answer = "data" THEN "store" ELSE "returned"
    BY <1>9 DEF Retry
  <2>2. pc[i] = "retry" /\ csrf /\ UNCHANGED <<began, turned, file>>
    BY <1>9 DEF Retry, SwitchInv
  <2>3. answer \in {"data", "empty", "limited", "raised"}
        /\ (answer = "empty" => Calls[i] \in Delisted)
    BY <2>2 DEF Answers
  <2>4. file[Calls[i]] # "empty"  BY <1>00, <2>2 DEF FrameSound
  <2> QED  BY <1>0, <2>1, <2>2, <2>3, <2>4 DEF FrameSound
<1>10. CASE Store(i)    BY <1>0, <1>00, <1>10 DEF Store, FrameSound
<1>11. CASE Fill(i)     BY <1>0, <1>00, <1>11 DEF Fill, FrameSound
<1> QED  BY <1>1, <1>2, <1>3, <1>4, <1>5, <1>6, <1>7, <1>8, <1>9, <1>10, <1>11 DEF Fetch

LEMMA FrameStep == TypeOK /\ SwitchInv /\ FrameInv /\ [Next]_vars => FrameInv'
<1> SUFFICES ASSUME TypeOK, SwitchInv, FrameInv, [Next]_vars PROVE FrameInv'
  OBVIOUS
<1>1. CASE Gather
  BY <1>1 DEF Gather, FrameInv, FrameSound, SwitchUnchanged, FilesUnchanged
<1>2. CASE Leave
  BY <1>2 DEF Leave, FrameInv, FrameSound, SwitchUnchanged, FilesUnchanged
<1>3. CASE \E i \in Fetches : Fetch(i)
  BY <1>3, OwnFrame, OthersKeepFrame DEF FrameInv
<1>4. CASE UNCHANGED vars
  BY <1>4 DEF vars, FrameInv, FrameSound
<1> QED  BY <1>1, <1>2, <1>3, <1>4 DEF Next

LEMMA FrameStart == Init => FrameInv
BY DEF Init, FrameInv, FrameSound

\* A symbol with data comes back empty only to a fetch that began before the
\* switch and did not switch, and no fetch leaves an empty file behind.
THEOREM EmptyFramesAreStale == Spec => []EmptyOnlyInFirstWave
<1>1. FrameInv => EmptyOnlyInFirstWave
  BY DEF FrameInv, FrameSound, EmptyOnlyInFirstWave
<1> QED
  BY TypeStart, TypeStep, SwitchStart, SwitchStep, FrameStart, FrameStep, <1>1, PTL DEF Spec
-----------------------------------------------------------------------------
\* The results gathered so far, and the error that ended them.
GatherInv ==
  /\ \A j \in 1..result.at : pc[j] = "returned"
  /\ \A j \in 1 .. result.at - 1 : frame[j] # "raised"
  /\ result.at # 0 => (frame[result.at] = "raised" <=> result.is \in {"raising", "error"})
  /\ result.at = 0 => result.is \in {"none", "dict"}
  /\ result.is = "dict" => result.at = Len(Calls)
  /\ result.is \in {"error", "dict"} => \A i \in Fetches : pc[i] = "returned"

LEMMA GatherStep == TypeOK /\ GatherInv /\ [Next]_vars => GatherInv'
<1> SUFFICES ASSUME TypeOK, GatherInv, [Next]_vars PROVE GatherInv'
  OBVIOUS
<1>0. result.at \in 0..Len(Calls) /\ Len(Calls) \in Nat /\ Fetches = 1..Len(Calls)
  BY CallTyped DEF TypeOK, Fetches
<1>1. CASE Gather
  <2>1. PICK i \in {result.at + 1} \cap Fetches :
          /\ pc[i] = "returned"
          /\ result' = [is |-> IF frame[i] = "raised" THEN "raising" ELSE "none", at |-> i]
    BY <1>1 DEF Gather, NextFuture, InOrder
  <2>2. i = result.at + 1 /\ i \in Nat  BY <1>0, <2>1
  <2>3. UNCHANGED <<pc, frame>> /\ result.is = "none"  BY <1>1 DEF Gather
  <2>4. result'.at = i /\ result'.is = IF frame[i] = "raised" THEN "raising" ELSE "none"
    BY <2>1
  <2>5. \A j \in 1..i : j \in 1..result.at \/ j = i  BY <1>0, <2>2
  <2>6. \A j \in 1 .. i - 1 : frame[j] # "raised"
    <3>1. \A j \in 1 .. i - 1 : j \in 1 .. result.at - 1 \/ (j = result.at /\ result.at # 0)
      BY <1>0, <2>2
    <3>2. result.at # 0 => frame[result.at] # "raised"  BY <2>3 DEF GatherInv
    <3> QED  BY <3>1, <3>2 DEF GatherInv
  <2>7. \A j \in 1..i : pc[j] = "returned"  BY <2>1, <2>5 DEF GatherInv
  <2>8. frame[i] = "raised" <=> result'.is \in {"raising", "error"}  BY <2>4
  <2>9. result'.is \notin {"error", "dict"} /\ i # 0  BY <2>2, <2>4, <1>0
  <2> QED  BY <2>3, <2>4, <2>6, <2>7, <2>8, <2>9 DEF GatherInv
<1>2. CASE Leave
  <2>1. /\ UNCHANGED <<pc, frame>> /\ \A i \in Fetches : pc[i] = "returned"
        /\ result' = [result EXCEPT !.is = IF @ = "raising" THEN "error" ELSE "dict"]
        /\ result.is = "raising" \/ (result.is = "none" /\ result.at = Len(Calls))
    BY <1>2 DEF Leave, WaitForAll
  <2>2. result'.at = result.at /\ result'.is = IF result.is = "raising" THEN "error" ELSE "dict"
    BY <2>1 DEF TypeOK
  <2> QED  BY <1>0, <2>1, <2>2 DEF GatherInv
<1>3. ASSUME NEW i \in Fetches, Fetch(i) PROVE GatherInv'
  <2>1. /\ pc[i] # "returned" /\ result' = result
        /\ \A j \in Fetches \ {i} : pc'[j] = pc[j] /\ frame'[j] = frame[j]
    BY <1>3, FetchIsLocal
  <2>2. i \notin 1..result.at  BY <2>1 DEF GatherInv
  <2>3. \A j \in 1..result.at : pc'[j] = pc[j] /\ frame'[j] = frame[j]
    BY <1>0, <2>1, <2>2
  <2>4. result.is \notin {"error", "dict"}  BY <2>1 DEF GatherInv
  <2>5. \A j \in 1 .. result.at - 1 : j \in 1..result.at  BY <1>0
  <2>6. result.at # 0 => result.at \in 1..result.at  BY <1>0
  <2> QED  BY <2>1, <2>3, <2>4, <2>5, <2>6 DEF GatherInv
<1>4. CASE UNCHANGED vars
  BY <1>4 DEF vars, GatherInv
<1> QED  BY <1>1, <1>2, <1>3, <1>4 DEF Next

\* _fetch_all ends when every fetch has, with the first error in the order of
\* the symbols if there is one.
THEOREM FirstErrorIsRaised == Spec => []RaisesFirstInOrder
<1>1. Init => GatherInv
  BY CallTyped DEF Init, GatherInv
<1>2. TypeOK /\ GatherInv => RaisesFirstInOrder
  <2> SUFFICES ASSUME TypeOK, GatherInv, result.is \in {"error", "dict"}
               PROVE  /\ \A i \in Fetches : pc[i] = "returned"
                      /\ IF result.is = "error"
                         THEN frame[result.at] = "raised"
                              /\ \A j \in 1 .. result.at - 1 : frame[j] # "raised"
                         ELSE \A i \in Fetches : frame[i] # "raised"
    BY DEF RaisesFirstInOrder
  <2>1. result.at \in 0..Len(Calls) /\ Len(Calls) \in Nat /\ Fetches = 1..Len(Calls)
    BY CallTyped DEF TypeOK, Fetches
  <2>2. \A i \in Fetches : pc[i] = "returned"  BY DEF GatherInv
  <2>3. CASE result.is = "error"
    BY <2>1, <2>2, <2>3 DEF GatherInv
  <2>4. CASE result.is = "dict"
    <3>1. result.at = Len(Calls)  BY <2>4 DEF GatherInv
    <3>2. \A i \in Fetches : i \in 1 .. result.at - 1 \/ (i = result.at /\ result.at # 0)
      BY <2>1, <3>1
    <3> QED  BY <2>2, <2>4, <3>2 DEF GatherInv
  <2> QED  BY <2>3, <2>4
<1> QED  BY TypeStart, TypeStep, <1>1, GatherStep, <1>2, PTL DEF Spec
=============================================================================
