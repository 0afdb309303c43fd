------------------------ MODULE ProfileStoreProofs ------------------------
(***************************************************************************)
(* Proofs about ProfileStore, for any number of threads, names and slider  *)
(* values and any slug function, as long as two saves with one slug do not *)
(* overlap: the saved files are never partial.                             *)
(***************************************************************************)
EXTENDS ProfileStore, TLAPS

\* The temporary file of a save in progress is its own: truncated until it is
\* written, whole until it is renamed.
OneSaver == \A t, u \in Threads :
              pc[t] \in {"fill", "replace"} /\ pc[u] \in {"fill", "replace"} /\ Of(t) = Of(u)
                => t = u
OpenIsEmpty  == \A t \in Threads : pc[t] = "fill" => handle[t] = "tmp" /\ tmp[Of(t)] = Empty
ClosedIsWhole == \A t \in Threads : pc[t] = "replace" => tmp[Of(t)] \in Whole
Inv == TypeOK /\ FileIsWhole /\ OneSaver /\ OpenIsEmpty /\ ClosedIsWhole

\* What tells the contents of a file apart, and the profile of a whole one.
LEMMA Kinds ==
  /\ Absent \notin Whole /\ Empty \notin Whole
  /\ \A p \in Profiles : Holds(p) \in Whole
  /\ \A c \in Whole : c.of \in Profiles
  /\ Whole \subseteq Contents /\ {Absent, Empty, Garbled} \subseteq Contents
<1>1. \A c \in Whole : c.is = "profile" /\ c.of \in Profiles
  BY DEF Whole, Holds
<1>2. Absent.is # "profile" /\ Empty.is # "profile"
  BY DEF Absent, Empty
<1>3. Absent \notin Whole /\ Empty \notin Whole
  BY <1>1, <1>2
<1> QED
  BY <1>1, <1>3 DEF Whole, Contents

\* Slugs of names are the domain of the files.
LEMMA OfIsSlug ==
  ASSUME TypeOK, NEW t \in Threads, pc[t] \in {"fill", "replace", "read", "unlink"}
  PROVE  req[t].name \in Names /\ Of(t) \in Slugs
BY DEF TypeOK, Requests, Of, Slugs

\* The store starts empty.
LEMMA Initially == Init => Inv
<1> SUFFICES ASSUME Init PROVE Inv
  OBVIOUS
<1> USE DEF Init
<1>1. TypeOK
  BY Kinds DEF TypeOK, Answers, NoAnswer, NoRequest, Requests
<1>2. FileIsWhole /\ OneSaver /\ OpenIsEmpty /\ ClosedIsWhole
  BY DEF FileIsWhole, OneSaver, OpenIsEmpty, ClosedIsWhole
<1> QED
  BY <1>1, <1>2 DEF Inv

-----------------------------------------------------------------------------
\* Every step keeps the types.
LEMMA TypeStep ==
  ASSUME TypeOK, [Next]_vars
  PROVE  TypeOK'
<1> USE DEF Goto, Answer, GoOn, FilesUnchanged, ListUnchanged, Arrive, Answers, NoAnswer, Ok, Refusal
<1>1. CASE Crash
  BY <1>1 DEF Crash, TypeOK, NoRequest, Requests
<1>2. ASSUME NEW t \in Threads, NEW n \in Names, NEW v \in Sliders, Save(t, n, v)
      PROVE  TypeOK'
  <2>1. Slug(n) \in Slugs
    BY DEF Slugs
  <2>2. [op |-> "save", name |-> n, sliders |-> v] \in Requests
    BY DEF Requests
  <2> QED
    BY <1>2, <2>1, <2>2, Kinds DEF Save, TypeOK, Present
<1>3. ASSUME NEW t \in Threads, Fill(t)
      PROVE  TypeOK'
  <2>1. Of(t) \in Slugs /\ req[t].op = "save"
    BY <1>3, OfIsSlug DEF Fill, TypeOK
  <2>2. \A old : Written(t, old) \subseteq Contents
    <3>1. [name |-> req[t].name, sliders |-> req[t].sliders] \in Profiles
      BY <2>1 DEF TypeOK, Requests, Profiles
    <3> QED
      BY <3>1, Kinds DEF Written
  <2>3. path' \in [Slugs -> Contents] /\ tmp' \in [Slugs -> Contents]
    <3>1. CASE handle[t] = "tmp"
      BY <1>3, <2>1, <2>2, <3>1 DEF Fill, TypeOK
    <3>2. CASE handle[t] = "path"
      BY <1>3, <2>1, <2>2, <3>2 DEF Fill, TypeOK
    <3>3. CASE handle[t] = "none"
      BY <1>3, <3>3 DEF Fill, TypeOK
    <3> QED
      BY <1>3, <3>1, <3>2, <3>3 DEF Fill
  <2> QED
    BY <1>3, <2>1, <2>3 DEF Fill, Close, TypeOK
<1>4. ASSUME NEW t \in Threads, Replace(t)
      PROVE  TypeOK'
  <2>1. Of(t) \in Slugs
    BY <1>4, OfIsSlug DEF Replace
  <2>2. path' \in [Slugs -> Contents] /\ tmp' \in [Slugs -> Contents]
    BY <1>4, <2>1, Kinds DEF Replace, Replaced, TypeOK
  <2>3. /\ handle' \in [Threads -> {"tmp", "path", "none"}]
        /\ \A u \in Threads : handle'[u] # "none" => handle[u] # "none"
    BY <1>4 DEF Replace, Follow, TypeOK
  <2>4. pc[t] = "replace" /\ handle[t] = "none"
    BY <1>4 DEF Replace, TypeOK
  <2>5. pc' = [pc EXCEPT ![t] = "idle"] /\ UNCHANGED <<req, left, got, kept>>
    BY <1>4 DEF Replace
  <2>6. answer' \in [Threads -> Answers]
    BY <1>4 DEF Replace, TypeOK
  <2> QED
    BY <2>2, <2>3, <2>4, <2>5, <2>6 DEF TypeOK
<1>5. ASSUME NEW t \in Threads, NEW n \in Names, Load(t, n)
      PROVE  TypeOK'
  <2>1. [op |-> "load", name |-> n] \in Requests
    BY DEF Requests
  <2>2. n \in Presets => Preset(n) \in Listed
    BY DEF Listed
  <2>3. UNCHANGED <<path, tmp, handle, left, got>> /\ pc[t] = "idle"
    BY <1>5 DEF Load
  <2>4. /\ req' = [req EXCEPT ![t] = [op |-> "load", name |-> n]]
        /\ kept' = [kept EXCEPT ![t] = Present]
    BY <1>5 DEF Load
  <2>5. pc' = [pc EXCEPT ![t] = "idle"] \/ pc' = [pc EXCEPT ![t] = "read"]
    BY <1>5 DEF Load
  <2>6. answer' \in [Threads -> Answers]
    BY <1>5, <2>2 DEF Load, TypeOK
  <2>7. req' \in [Threads -> Requests] /\ kept' \in [Threads -> SUBSET Slugs]
    BY <2>1, <2>4 DEF TypeOK, Present
  <2> QED
    BY <2>3, <2>4, <2>5, <2>6, <2>7 DEF TypeOK
<1>6. ASSUME NEW t \in Threads, Read(t)
      PROVE  TypeOK'
  BY <1>6, Kinds, OfIsSlug DEF Read, TypeOK
<1>7. ASSUME NEW t \in Threads, List(t)
      PROVE  TypeOK'
  <2>1. [op |-> "list"] \in Requests
    BY DEF Requests
  <2> QED
    BY <1>7, <2>1 DEF List, TypeOK, Present
<1>8. ASSUME NEW t \in Threads, ListNext(t)
      PROVE  TypeOK'
  <2>1. UNCHANGED <<path, tmp, handle, kept, req>> /\ pc[t] = "list"
    BY <1>8 DEF ListNext
  <2>2. left' \in [Threads -> SUBSET Slugs] /\ got' \in [Threads -> SUBSET Profiles]
    <3>1. CASE left[t] = {}
      BY <1>8, <3>1 DEF ListNext, TypeOK
    <3>2. CASE left[t] # {}
      <4>1. PICK s \in left[t] :
              /\ left' = [left EXCEPT ![t] = @ \ {s}]
              /\ \/ path[s] \in Whole /\ got' = [got EXCEPT ![t] = @ \cup {path[s].of}]
                 \/ UNCHANGED got
        BY <1>8, <3>2 DEF ListNext
      <4> QED
        BY <4>1, Kinds DEF TypeOK
    <3> QED
      BY <3>1, <3>2
  <2>3. pc' = pc \/ pc' = [pc EXCEPT ![t] = "idle"]
    BY <1>8 DEF ListNext
  <2>4. answer' \in [Threads -> Answers]
    <3>1. [is |-> "ok", profiles |-> Listed \cup got[t]] \in Answers
      BY DEF TypeOK
    <3>2. [is |-> "error", profiles |-> {}] \in Answers
      OBVIOUS
    <3>3. \/ UNCHANGED answer
          \/ answer' = [answer EXCEPT ![t] = [is |-> "ok", profiles |-> Listed \cup got[t]]]
          \/ answer' = [answer EXCEPT ![t] = [is |-> "error", profiles |-> {}]]
      BY <1>8 DEF ListNext
    <3>4. answer \in [Threads -> Answers]
      BY DEF TypeOK
    <3> HIDE DEF Answers
    <3> QED
      BY <3>1, <3>2, <3>3, <3>4
  <2> QED
    BY <2>1, <2>2, <2>3, <2>4 DEF TypeOK
<1>9. ASSUME NEW t \in Threads, NEW n \in Names, Delete(t, n)
      PROVE  TypeOK'
  <2>1. [op |-> "delete", name |-> n] \in Requests
    BY DEF Requests
  <2>3. UNCHANGED <<path, tmp, handle, left, got>> /\ pc[t] = "idle"
    BY <1>9 DEF Delete
  <2>4. /\ req' = [req EXCEPT ![t] = [op |-> "delete", name |-> n]]
        /\ kept' = [kept EXCEPT ![t] = Present]
    BY <1>9 DEF Delete
  <2>5. pc' = [pc EXCEPT ![t] = "idle"] \/ pc' = [pc EXCEPT ![t] = "unlink"]
    BY <1>9 DEF Delete
  <2>6. answer' \in [Threads -> Answers]
    BY <1>9 DEF Delete, TypeOK
  <2>7. req' \in [Threads -> Requests] /\ kept' \in [Threads -> SUBSET Slugs]
    BY <2>1, <2>4 DEF TypeOK, Present
  <2> QED
    BY <2>3, <2>4, <2>5, <2>6, <2>7 DEF TypeOK
<1>10. ASSUME NEW t \in Threads, Unlink(t)
       PROVE  TypeOK'
  <2>1. UNCHANGED <<tmp, req, left, got>> /\ pc[t] = "unlink" /\ Of(t) \in Slugs
    BY <1>10, OfIsSlug DEF Unlink
  <2>2. path' \in [Slugs -> Contents] /\ kept' \in [Threads -> SUBSET Slugs]
    BY <1>10, <2>1, Kinds DEF Unlink, TypeOK
  <2>3. /\ handle' \in [Threads -> {"tmp", "path", "none"}]
        /\ \A u \in Threads : handle'[u] # "none" => handle[u] # "none"
    BY <1>10 DEF Unlink, TypeOK
  <2>4. pc' = [pc EXCEPT ![t] = "idle"]
    BY <1>10 DEF Unlink
  <2>5. answer' \in [Threads -> Answers]
    BY <1>10 DEF Unlink, TypeOK
  <2> QED
    BY <2>1, <2>2, <2>3, <2>4, <2>5 DEF TypeOK
<1>11. CASE UNCHANGED vars
  BY <1>11 DEF vars, TypeOK
<1> QED
  BY <1>1, <1>2, <1>3, <1>4, <1>5, <1>6, <1>7, <1>8, <1>9, <1>10, <1>11
  DEF Next, Request, Continue

\* Every variable keeps its type, for any threads, names and slugs, and
\* whether or not saves overlap.
THEOREM TypeCorrect == Spec => []TypeOK
<1>1. Init => TypeOK
  BY Initially DEF Inv
<1>2. TypeOK /\ [Next]_vars => TypeOK'
  BY TypeStep
<1> QED
  BY <1>1, <1>2, PTL DEF Spec
-----------------------------------------------------------------------------
\* A step of a thread that touches neither files nor saves keeps the invariant.
LEMMA OthersKeepFiles ==
  ASSUME Inv, TypeOK', UNCHANGED <<path, tmp, handle>>,
         \A u \in Threads : pc'[u] \in {"fill", "replace"} => pc'[u] = pc[u] /\ req'[u] = req[u]
  PROVE  Inv'
<1>1. FileIsWhole'
  BY DEF Inv, FileIsWhole
<1>2. OneSaver'
  BY DEF Inv, OneSaver, Of
<1>3. OpenIsEmpty' /\ ClosedIsWhole'
  BY DEF Inv, OpenIsEmpty, ClosedIsWhole, Of
<1> QED
  BY <1>1, <1>2, <1>3 DEF Inv

\* Every step keeps the invariant.
LEMMA InvStep ==
  ASSUME ~Racing, Inv, [Next]_vars
  PROVE  Inv'
<1>0. TypeOK /\ TypeOK'
  BY TypeStep DEF Inv
<1> USE DEF Goto, Answer, GoOn, FilesUnchanged, ListUnchanged, Arrive
<1>1. CASE Crash
  BY <1>0, <1>1 DEF Crash, Inv, FileIsWhole, OneSaver, OpenIsEmpty, ClosedIsWhole
<1>2. ASSUME NEW t \in Threads, NEW n \in Names, NEW v \in Sliders, Save(t, n, v)
      PROVE  Inv'
  <2>1. pc[t] = "idle" /\ Saving(Slug(n)) = {}
    BY <1>2 DEF Save
  <2>2. /\ pc' = [pc EXCEPT ![t] = "fill"] /\ UNCHANGED path
        /\ req' = [req EXCEPT ![t] = [op |-> "save", name |-> n, sliders |-> v]]
        /\ tmp' = [tmp EXCEPT ![Slug(n)] = Empty] /\ handle' = [handle EXCEPT ![t] = "tmp"]
    BY <1>2 DEF Save
  <2>3. Slug(n) \in Slugs /\ Of(t)' = Slug(n)
    BY <1>0, <2>2 DEF Slugs, Of, TypeOK
  <2>4. ASSUME NEW u \in Threads, u # t
        PROVE  /\ pc'[u] = pc[u] /\ handle'[u] = handle[u] /\ Of(u)' = Of(u)
               /\ pc[u] \in {"fill", "replace"} => Of(u) # Slug(n) /\ tmp'[Of(u)] = tmp[Of(u)]
    BY <1>0, <2>1, <2>2, <2>4, OfIsSlug DEF TypeOK, Saving, Of
  <2>5. pc'[t] = "fill" /\ handle'[t] = "tmp" /\ tmp'[Of(t)'] = Empty
    BY <1>0, <2>2, <2>3 DEF TypeOK
  <2>6. FileIsWhole'
    BY <2>2 DEF Inv, FileIsWhole
  <2>7. OneSaver'
    BY <2>3, <2>4 DEF Inv, OneSaver
  <2>8. OpenIsEmpty' /\ ClosedIsWhole'
    BY <2>4, <2>5 DEF Inv, OpenIsEmpty, ClosedIsWhole
  <2> QED
    BY <1>0, <2>6, <2>7, <2>8 DEF Inv
<1>3. ASSUME NEW t \in Threads, Fill(t)
      PROVE  Inv'
  <2>1. pc[t] = "fill" /\ Of(t) \in Slugs /\ req[t].op = "save"
    BY <1>0, <1>3, OfIsSlug DEF Fill, TypeOK
  <2>2. handle[t] = "tmp" /\ tmp[Of(t)] = Empty
    BY <2>1 DEF Inv, OpenIsEmpty
  <2>3. \A c \in Written(t, tmp[Of(t)]) : c \in Whole
    <3>1. [name |-> req[t].name, sliders |-> req[t].sliders] \in Profiles
      BY <1>0, <2>1 DEF TypeOK, Requests, Profiles
    <3> QED
      BY <2>2, <3>1, Kinds DEF Written
  <2>4. PICK c \in Whole : tmp' = [tmp EXCEPT ![Of(t)] = c] /\ UNCHANGED path
    BY <1>3, <2>2, <2>3 DEF Fill
  <2>5. /\ pc' = [pc EXCEPT ![t] = "replace"] /\ UNCHANGED req
        /\ handle' = [handle EXCEPT ![t] = "none"]
    BY <1>3 DEF Fill, Close
  <2>6. ASSUME NEW u \in Threads, u # t
        PROVE  /\ pc'[u] = pc[u] /\ handle'[u] = handle[u]
               /\ pc[u] \in {"fill", "replace"} => tmp'[Of(u)] = tmp[Of(u)]
    BY <1>0, <2>1, <2>4, <2>5, <2>6, OfIsSlug DEF TypeOK, Inv, OneSaver
  <2>7. pc'[t] = "replace" /\ tmp'[Of(t)] \in Whole
    BY <1>0, <2>1, <2>4, <2>5 DEF TypeOK
  <2>8. \A u \in Threads : Of(u)' = Of(u)
    BY <2>5 DEF Of
  <2>9. FileIsWhole'
    BY <2>4 DEF Inv, FileIsWhole
  <2>10. OneSaver'
    BY <2>1, <2>6, <2>8 DEF Inv, OneSaver
  <2>11. OpenIsEmpty' /\ ClosedIsWhole'
    BY <2>6, <2>7, <2>8 DEF Inv, OpenIsEmpty, ClosedIsWhole
  <2> QED
    BY <1>0, <2>9, <2>10, <2>11 DEF Inv
<1>4. ASSUME NEW t \in Threads, Replace(t)
      PROVE  Inv'
  <2>1. pc[t] = "replace" /\ Of(t) \in Slugs
    BY <1>4, <1>0, OfIsSlug DEF Replace
  <2>2. tmp[Of(t)] \in Whole /\ tmp[Of(t)] # Absent
    BY <2>1, Kinds DEF Inv, ClosedIsWhole
  <2>3. /\ path' = [path EXCEPT ![Of(t)] = tmp[Of(t)]] /\ tmp' = [tmp EXCEPT ![Of(t)] = Absent]
        /\ pc' = [pc EXCEPT ![t] = "idle"] /\ UNCHANGED req
        /\ Follow(Of(t))
    BY <1>4, <2>2 DEF Replace, Replaced
  <2>4. ASSUME NEW u \in Threads, u # t
        PROVE  /\ pc'[u] = pc[u] /\ Of(u)' = Of(u)
               /\ pc[u] \in {"fill", "replace"} =>
                    Of(u) # Of(t) /\ handle'[u] = handle[u] /\ tmp'[Of(u)] = tmp[Of(u)]
    <3>1. pc'[u] = pc[u] /\ Of(u)' = Of(u)
      BY <1>0, <2>3, <2>4 DEF TypeOK, Of
    <3>2. ASSUME pc[u] \in {"fill", "replace"}
          PROVE  Of(u) # Of(t) /\ Of(u) \in Slugs
      BY <1>0, <2>1, <2>4, <3>2, OfIsSlug DEF Inv, OneSaver
    <3>3. ASSUME pc[u] \in {"fill", "replace"}
          PROVE  handle'[u] = handle[u] /\ tmp'[Of(u)] = tmp[Of(u)]
      <4>1. tmp'[Of(u)] = tmp[Of(u)]
        BY <1>0, <2>1, <2>3, <3>2, <3>3 DEF TypeOK
      <4>2. u \notin Saving(Of(t))
        BY <3>2, <3>3 DEF Saving
      <4> QED
        BY <2>3, <4>1, <4>2 DEF Follow
    <3> QED
      BY <3>1, <3>2, <3>3
  <2>5. pc'[t] = "idle"
    BY <1>0, <2>3 DEF TypeOK
  <2>6. FileIsWhole'
    BY <1>0, <2>1, <2>2, <2>3 DEF Inv, FileIsWhole, TypeOK
  <2>7. OneSaver'
    BY <2>4, <2>5 DEF Inv, OneSaver
  <2>8. OpenIsEmpty' /\ ClosedIsWhole'
    BY <2>4, <2>5 DEF Inv, OpenIsEmpty, ClosedIsWhole
  <2> QED
    BY <1>0, <2>6, <2>7, <2>8 DEF Inv
<1>5. ASSUME NEW t \in Threads, \/ \E n \in Names : Load(t, n) \/ Delete(t, n)
                                \/ Read(t) \/ List(t) \/ ListNext(t)
      PROVE  Inv'
  <2>1. UNCHANGED <<path, tmp, handle>>
    BY <1>5 DEF Load, Delete, Read, List, ListNext
  <2>2. \/ pc' = pc
        \/ \E place \in {"idle", "read", "list", "unlink"} : pc' = [pc EXCEPT ![t] = place]
    <3>1. \A n \in Names : Load(t, n) =>
            \E place \in {"idle", "read"} : pc' = [pc EXCEPT ![t] = place]
      BY DEF Load
    <3>2. \A n \in Names : Delete(t, n) =>
            \E place \in {"idle", "unlink"} : pc' = [pc EXCEPT ![t] = place]
      BY DEF Delete
    <3>3. Read(t) => pc' = [pc EXCEPT ![t] = "idle"]
      BY DEF Read
    <3>4. List(t) => pc' = [pc EXCEPT ![t] = "list"]
      BY DEF List
    <3>5. ListNext(t) => pc' = pc \/ pc' = [pc EXCEPT ![t] = "idle"]
      BY DEF ListNext
    <3> QED
      BY <1>5, <3>1, <3>2, <3>3, <3>4, <3>5
  <2>3. req' = req \/ \E r \in Requests : req' = [req EXCEPT ![t] = r]
    BY <1>5 DEF Load, Delete, Read, List, ListNext, Requests
  <2>4. \A u \in Threads : u # t => pc'[u] = pc[u] /\ req'[u] = req[u]
    BY <1>0, <2>2, <2>3 DEF TypeOK
  <2>5. pc[t] \in {"idle", "read", "list"}
    BY <1>5 DEF Load, Delete, Read, List, ListNext
  <2>6. pc'[t] \in {"idle", "read", "list", "unlink"}
    BY <1>0, <2>2, <2>5 DEF TypeOK
  <2> QED
    BY <1>0, <2>1, <2>4, <2>6, OthersKeepFiles
<1>6. ASSUME NEW t \in Threads, Unlink(t)
      PROVE  Inv'
  <2>1. UNCHANGED <<tmp, req>> /\ pc' = [pc EXCEPT ![t] = "idle"] /\ Of(t) \in Slugs
    BY <1>0, <1>6, OfIsSlug DEF Unlink
  <2>2. FileIsWhole'
    BY <1>0, <1>6, <2>1 DEF Unlink, Inv, FileIsWhole, TypeOK
  <2>3. \A u \in Threads : Of(u)' = Of(u) /\ (pc'[u] \in {"fill", "replace"} => pc'[u] = pc[u])
    BY <1>0, <2>1 DEF Of, TypeOK
  <2>4. \A u \in Threads : handle[u] = "tmp" => handle'[u] = "tmp"
    BY <1>6 DEF Unlink
  <2>5. OneSaver' /\ OpenIsEmpty' /\ ClosedIsWhole'
    BY <2>1, <2>3, <2>4 DEF Inv, OneSaver, OpenIsEmpty, ClosedIsWhole
  <2> QED
    BY <1>0, <2>2, <2>5 DEF Inv
<1>7. CASE UNCHANGED vars
  BY <1>0, <1>7, OthersKeepFiles DEF vars
<1> QED
  BY <1>1, <1>2, <1>3, <1>4, <1>5, <1>6, <1>7 DEF Next, Request, Continue

\* As long as saves with one slug follow each other, no crash and no other
\* request ever leaves a partial file under a profile's name.
THEOREM FilesAreWhole ==
  ASSUME ~Racing
  PROVE  Spec => []FileIsWhole
<1>1. Init => Inv
  BY Initially
<1>2. Inv /\ [Next]_vars => Inv'
  BY InvStep
<1>3. Inv => FileIsWhole
  BY DEF Inv
<1> QED
  BY <1>1, <1>2, <1>3, PTL DEF Spec
-----------------------------------------------------------------------------
(***************************************************************************)
(* What is read: a file that stays is found.                               *)
(***************************************************************************)
KeptExists == \A t \in Threads : \A s \in kept[t] : path[s] # Absent

\* A profile is in the file that its name gives.
SlugsMatch ==
  \A s \in Slugs : /\ path[s] \in Whole => Slug(path[s].of.name) = s
                   /\ tmp[s] \in Whole => Slug(tmp[s].of.name) = s

\* What a listing has not read yet is still on its list.
ListOwes ==
  \A t \in Threads : pc[t] = "list" =>
    /\ req[t].op = "list"
    /\ \A s \in kept[t] : s \in left[t] \/ \E p \in got[t] : Slug(p.name) = s

LoadFinds ==
  \A t \in Threads :
    req[t].op = "load" /\ pc[t] = "idle" /\ Slug(req[t].name) \in kept[t] => answer[t].is = "ok"

ReadInv == Inv /\ KeptExists /\ SlugsMatch /\ ListOwes /\ LoadFinds

LEMMA ReadInvInit == Init => ReadInv
<1> SUFFICES ASSUME Init PROVE ReadInv
  OBVIOUS
<1>1. KeptExists /\ ListOwes /\ LoadFinds
  BY DEF Init, KeptExists, ListOwes, LoadFinds, NoRequest
<1>2. SlugsMatch
  BY Kinds DEF Init, SlugsMatch
<1> QED BY <1>1, <1>2, Initially DEF ReadInv

\* A request that arrives remembers the files there are.
LEMMA ArriveKeeps ==
  ASSUME ReadInv, Inv', NEW t \in Threads, UNCHANGED path,
         kept' = [kept EXCEPT ![t] = Present],
         \A s \in Slugs : tmp'[s] = tmp[s] \/ tmp'[s] = Empty,
         \A u \in Threads \ {t} : /\ pc'[u] = pc[u] /\ req'[u] = req[u] /\ answer'[u] = answer[u]
                                  /\ left'[u] = left[u] /\ got'[u] = got[u],
         pc'[t] = "list" => left'[t] = Present /\ req'[t].op = "list",
         req'[t].op = "load" /\ pc'[t] = "idle" /\ Slug(req'[t].name) \in Present
           => answer'[t].is = "ok"
  PROVE  ReadInv'
<1>1. kept'[t] = Present /\ \A u \in Threads \ {t} : kept'[u] = kept[u]
  BY DEF ReadInv, Inv, TypeOK
<1>2. KeptExists'
  BY <1>1 DEF ReadInv, KeptExists, Present
<1>3. SlugsMatch'
  BY Kinds DEF ReadInv, SlugsMatch
<1>4. ListOwes'
  BY <1>1 DEF ReadInv, ListOwes
<1>5. LoadFinds'
  BY <1>1 DEF ReadInv, LoadFinds
<1> QED BY <1>2, <1>3, <1>4, <1>5 DEF ReadInv

LEMMA ReadInvStep ==
  ASSUME ~Racing, ReadInv, [Next]_vars
  PROVE  ReadInv'
<1>0. Inv /\ Inv' /\ TypeOK /\ TypeOK'
  BY InvStep DEF ReadInv, Inv
<1> USE DEF Goto, Answer, GoOn, FilesUnchanged, ListUnchanged, Arrive
<1>1. CASE Crash
  <2>1. KeptExists' /\ ListOwes' /\ LoadFinds'
    BY <1>1 DEF Crash, KeptExists, ListOwes, LoadFinds, NoRequest
  <2>2. SlugsMatch'
    BY <1>1 DEF Crash, ReadInv, SlugsMatch
  <2> QED BY <1>0, <2>1, <2>2 DEF ReadInv
<1>2. ASSUME NEW t \in Threads, NEW n \in Names, NEW v \in Sliders, Save(t, n, v)
      PROVE  ReadInv'
  <2>1. /\ UNCHANGED <<path, left, got>> /\ kept' = [kept EXCEPT ![t] = Present]
        /\ tmp' = [tmp EXCEPT ![Slug(n)] = Empty] /\ pc' = [pc EXCEPT ![t] = "fill"]
        /\ req' = [req EXCEPT ![t] = [op |-> "save", name |-> n, sliders |-> v]]
        /\ answer' = [answer EXCEPT ![t] = NoAnswer]
    BY <1>2 DEF Save
  <2>2. /\ pc'[t] = "fill"
        /\ \A u \in Threads \ {t} : pc'[u] = pc[u] /\ req'[u] = req[u] /\ answer'[u] = answer[u]
        /\ \A s \in Slugs : tmp'[s] = tmp[s] \/ tmp'[s] = Empty
    BY <1>0, <2>1 DEF TypeOK
  <2> QED BY <1>0, <2>1, <2>2, ArriveKeeps
<1>3. ASSUME NEW t \in Threads, NEW n \in Names, Load(t, n)
      PROVE  ReadInv'
  <2>1. /\ UNCHANGED <<path, tmp, left, got>> /\ kept' = [kept EXCEPT ![t] = Present]
        /\ req' = [req EXCEPT ![t] = [op |-> "load", name |-> n]]
    BY <1>3 DEF Load
  <2>2. /\ \E place \in {"idle", "read"} : pc' = [pc EXCEPT ![t] = place]
        /\ \E a : answer' = [answer EXCEPT ![t] = a]
    BY <1>3 DEF Load
  <2>3. /\ pc'[t] \in {"idle", "read"} /\ req'[t].name = n
        /\ \A u \in Threads \ {t} : pc'[u] = pc[u] /\ req'[u] = req[u] /\ answer'[u] = answer[u]
    BY <1>0, <2>1, <2>2 DEF TypeOK
  <2>4. pc'[t] = "idle" /\ Slug(n) \in Present => answer'[t].is = "ok"
    BY <1>0, <1>3 DEF Load, Present, TypeOK, Ok
  <2> QED BY <1>0, <2>1, <2>3, <2>4, ArriveKeeps
<1>4. ASSUME NEW t \in Threads, NEW n \in Names, Delete(t, n)
      PROVE  ReadInv'
  <2>1. /\ UNCHANGED <<path, tmp, left, got>> /\ kept' = [kept EXCEPT ![t] = Present]
        /\ req' = [req EXCEPT ![t] = [op |-> "delete", name |-> n]]
    BY <1>4 DEF Delete
  <2>2. /\ \E place \in {"idle", "unlink"} : pc' = [pc EXCEPT ![t] = place]
        /\ \E a : answer' = [answer EXCEPT ![t] = a]
    BY <1>4 DEF Delete
  <2>3. /\ pc'[t] \in {"idle", "unlink"} /\ req'[t].op = "delete"
        /\ \A u \in Threads \ {t} : pc'[u] = pc[u] /\ req'[u] = req[u] /\ answer'[u] = answer[u]
    BY <1>0, <2>1, <2>2 DEF TypeOK
  <2> QED BY <1>0, <2>1, <2>3, ArriveKeeps
<1>5. ASSUME NEW t \in Threads, List(t)
      PROVE  ReadInv'
  <2>1. /\ UNCHANGED <<path, tmp>> /\ kept' = [kept EXCEPT ![t] = Present]
        /\ req' = [req EXCEPT ![t] = [op |-> "list"]] /\ pc' = [pc EXCEPT ![t] = "list"]
        /\ left' = [left EXCEPT ![t] = Present] /\ got' = [got EXCEPT ![t] = {}]
        /\ answer' = [answer EXCEPT ![t] = NoAnswer]
    BY <1>5 DEF List
  <2>2. /\ pc'[t] = "list" /\ left'[t] = Present /\ req'[t].op = "list"
        /\ \A u \in Threads \ {t} : /\ pc'[u] = pc[u] /\ req'[u] = req[u] /\ answer'[u] = answer[u]
                                    /\ left'[u] = left[u] /\ got'[u] = got[u]
    BY <1>0, <2>1 DEF TypeOK
  <2> QED BY <1>0, <2>1, <2>2, ArriveKeeps
<1>6. ASSUME NEW t \in Threads, Fill(t)
      PROVE  ReadInv'
  <2>1. pc[t] = "fill" /\ Of(t) \in Slugs /\ req[t].op = "save"
    BY <1>0, <1>6, OfIsSlug DEF Fill, TypeOK
  <2>2. handle[t] = "tmp" /\ tmp[Of(t)] = Empty
    BY <1>0, <2>1 DEF Inv, OpenIsEmpty
  <2> DEFINE p == [name |-> req[t].name, sliders |-> req[t].sliders]
  <2>3. tmp' = [tmp EXCEPT ![Of(t)] = Holds(p)] /\ UNCHANGED <<path, req, answer, kept, left, got>>
        /\ pc' = [pc EXCEPT ![t] = "replace"]
    BY <1>6, <2>2 DEF Fill, Written
  <2>4. Slug(Holds(p).of.name) = Of(t)
    BY DEF Holds, Of
  <2>5. SlugsMatch'
    <3>1. \A s \in Slugs : tmp'[s] = IF s = Of(t) THEN Holds(p) ELSE tmp[s]
      BY <1>0, <2>3 DEF TypeOK
    <3> QED BY <2>3, <2>4, <3>1 DEF ReadInv, SlugsMatch
  <2>6. \A u \in Threads : u # t => pc'[u] = pc[u]
    BY <1>0, <2>3 DEF TypeOK
  <2>7. pc'[t] = "replace"
    BY <1>0, <2>3 DEF TypeOK
  <2>8. KeptExists' /\ ListOwes' /\ LoadFinds'
    BY <2>3, <2>6, <2>7 DEF ReadInv, KeptExists, ListOwes, LoadFinds
  <2> QED BY <1>0, <2>5, <2>8 DEF ReadInv
<1>7. ASSUME NEW t \in Threads, Replace(t)
      PROVE  ReadInv'
  <2>1. pc[t] = "replace" /\ Of(t) \in Slugs /\ req[t].op = "save"
    BY <1>7, <1>0, OfIsSlug DEF Replace, TypeOK
  <2>2. tmp[Of(t)] \in Whole /\ tmp[Of(t)] # Absent
    BY <1>0, <2>1, Kinds DEF Inv, ClosedIsWhole
  <2>3. /\ path' = [path EXCEPT ![Of(t)] = tmp[Of(t)]] /\ tmp' = [tmp EXCEPT ![Of(t)] = Absent]
        /\ pc' = [pc EXCEPT ![t] = "idle"] /\ UNCHANGED <<req, kept, left, got>>
        /\ answer' = [answer EXCEPT ![t] = Ok({})]
    BY <1>7, <2>2 DEF Replace, Replaced
  <2>4. \A s \in Slugs : /\ path'[s] = IF s = Of(t) THEN tmp[s] ELSE path[s]
                         /\ tmp'[s] = IF s = Of(t) THEN Absent ELSE tmp[s]
    BY <1>0, <2>3 DEF TypeOK
  <2>5. SlugsMatch'
    BY <2>4, Kinds DEF ReadInv, SlugsMatch
  <2>6. KeptExists'
    <3>1. \A u \in Threads : kept[u] \subseteq Slugs
      BY <1>0 DEF TypeOK
    <3> QED BY <2>2, <2>3, <2>4, <3>1 DEF ReadInv, KeptExists
  <2>7. \A u \in Threads : u # t => pc'[u] = pc[u] /\ answer'[u] = answer[u]
    BY <1>0, <2>3 DEF TypeOK
  <2>8. pc'[t] = "idle"
    BY <1>0, <2>3 DEF TypeOK
  <2>9. ListOwes' /\ LoadFinds'
    BY <2>1, <2>3, <2>7, <2>8 DEF ReadInv, ListOwes, LoadFinds
  <2> QED BY <1>0, <2>5, <2>6, <2>9 DEF ReadInv
<1>8. ASSUME NEW t \in Threads, Read(t)
      PROVE  ReadInv'
  <2>1. pc[t] = "read" /\ UNCHANGED <<path, tmp, kept, req, left, got>>
        /\ pc' = [pc EXCEPT ![t] = "idle"]
    BY <1>8 DEF Read
  <2>2. \A u \in Threads : u # t => pc'[u] = pc[u] /\ answer'[u] = answer[u]
    BY <1>0, <1>8 DEF Read, TypeOK
  <2>3. pc'[t] = "idle"
    BY <1>0, <2>1 DEF TypeOK
  <2>4. Of(t) \in kept[t] => answer'[t].is = "ok"
    <3> SUFFICES ASSUME Of(t) \in kept[t] PROVE answer'[t].is = "ok"
      OBVIOUS
    <3>1. path[Of(t)] # Absent /\ Of(t) \in Slugs
      BY <1>0 DEF ReadInv, KeptExists, TypeOK
    <3>2. path[Of(t)] \in Whole
      BY <1>0, <3>1 DEF Inv, FileIsWhole
    <3>3. answer' = [answer EXCEPT ![t] = Ok({path[Of(t)].of})]
      BY <1>8, <3>1, <3>2 DEF Read
    <3> QED BY <1>0, <3>3 DEF TypeOK, Ok
  <2>5. LoadFinds'
    BY <2>1, <2>2, <2>4 DEF ReadInv, LoadFinds, Of
  <2>6. KeptExists' /\ SlugsMatch' /\ ListOwes'
    BY <2>1, <2>2, <2>3 DEF ReadInv, KeptExists, SlugsMatch, ListOwes
  <2> QED BY <1>0, <2>5, <2>6 DEF ReadInv
<1>9. ASSUME NEW t \in Threads, ListNext(t)
      PROVE  ReadInv'
  <2>1. UNCHANGED <<path, tmp, kept, req>> /\ pc[t] = "list"
    BY <1>9 DEF ListNext
  <2>2. req[t].op = "list"
    BY <2>1 DEF ReadInv, ListOwes
  <2>3. \A u \in Threads : u # t => /\ pc'[u] = pc[u] /\ answer'[u] = answer[u]
                                    /\ left'[u] = left[u] /\ got'[u] = got[u]
    BY <1>0, <1>9 DEF ListNext, TypeOK
  <2>4. pc'[t] = "list" =>
          \A s \in kept[t] : s \in left'[t] \/ \E p \in got'[t] : Slug(p.name) = s
    <3> SUFFICES ASSUME pc'[t] = "list", NEW s \in kept[t]
                 PROVE  s \in left'[t] \/ \E p \in got'[t] : Slug(p.name) = s
      OBVIOUS
    <3>1. PICK r \in left[t] :
            /\ left' = [left EXCEPT ![t] = @ \ {r}] /\ path[r] \in Whole
            /\ got' = [got EXCEPT ![t] = @ \cup {path[r].of}]
      BY <1>0, <1>9 DEF ListNext, TypeOK
    <3>2. left'[t] = left[t] \ {r} /\ got'[t] = got[t] \cup {path[r].of} /\ r \in Slugs
      BY <1>0, <3>1 DEF TypeOK
    <3>3. Slug(path[r].of.name) = r
      BY <3>1, <3>2 DEF ReadInv, SlugsMatch
    <3>4. s \in left[t] \/ \E p \in got[t] : Slug(p.name) = s
      BY <2>1 DEF ReadInv, ListOwes
    <3> QED BY <3>2, <3>3, <3>4
  <2>5. ListOwes'
    BY <2>1, <2>3, <2>4 DEF ReadInv, ListOwes
  <2>6. KeptExists' /\ SlugsMatch'
    BY <2>1 DEF ReadInv, KeptExists, SlugsMatch
  <2>7. LoadFinds'
    BY <2>1, <2>2, <2>3 DEF ReadInv, LoadFinds
  <2> QED BY <1>0, <2>5, <2>6, <2>7 DEF ReadInv
<1>10. ASSUME NEW t \in Threads, Unlink(t)
       PROVE  ReadInv'
  <2>1. pc[t] = "unlink" /\ UNCHANGED <<tmp, req, left, got>> /\ pc' = [pc EXCEPT ![t] = "idle"]
        /\ Of(t) \in Slugs
    BY <1>0, <1>10, OfIsSlug DEF Unlink
  <2>2. \A u \in Threads : u # t => pc'[u] = pc[u] /\ answer'[u] = answer[u]
    BY <1>0, <1>10 DEF Unlink, TypeOK
  <2>3. \/ UNCHANGED <<path, kept>> /\ path[Of(t)] = Absent
        \/ /\ path' = [path EXCEPT ![Of(t)] = Absent]
           /\ kept' = [u \in Threads |-> kept[u] \ {Of(t)}]
    BY <1>10 DEF Unlink
  <2>4. \A u \in Threads : kept'[u] \subseteq kept[u] /\ kept[u] \subseteq Slugs
    BY <1>0, <2>3 DEF TypeOK
  <2>5. KeptExists'
    BY <1>0, <2>1, <2>3 DEF ReadInv, KeptExists, TypeOK
  <2>6. SlugsMatch'
    <3>1. \A s \in Slugs : path'[s] = path[s] \/ path'[s] = Absent
      BY <1>0, <2>3 DEF TypeOK
    <3> QED BY <2>1, <3>1, Kinds DEF ReadInv, SlugsMatch
  <2>7. pc'[t] = "idle"
    BY <1>0, <2>1 DEF TypeOK
  <2>8. ListOwes'
    BY <2>1, <2>2, <2>4, <2>7 DEF ReadInv, ListOwes
  <2>9. Of(t) \notin kept'[t]
    BY <1>0, <2>1, <2>3 DEF ReadInv, KeptExists, TypeOK
  <2>10. LoadFinds'
    BY <2>1, <2>2, <2>4, <2>9 DEF ReadInv, LoadFinds, Of
  <2> QED BY <1>0, <2>5, <2>6, <2>8, <2>10 DEF ReadInv
<1>11. CASE UNCHANGED vars
  <2>1. UNCHANGED <<path, tmp, pc, req, left, got, answer, kept>>
    BY <1>11 DEF vars
  <2> QED BY <1>0, <2>1 DEF ReadInv, KeptExists, SlugsMatch, ListOwes, LoadFinds
<1> QED
  BY <1>1, <1>2, <1>3, <1>4, <1>5, <1>6, <1>7, <1>8, <1>9, <1>10, <1>11 DEF Next, Request, Continue

\* A listing that ends has everything it owes; one that fails has met a file
\* that was deleted since its request.
LEMMA ListEndsComplete ==
  ASSUME ~Racing, ReadInv, [Next]_vars, NEW t \in Threads, pc[t] = "list", pc'[t] = "idle"
  PROVE  CASE answer'[t].is = "ok" ->
                \A s \in kept[t] : \E p \in answer'[t].profiles : Slug(p.name) = s
           [] answer'[t].is = "error" -> \E s \in left[t] : s \notin kept[t]
           [] OTHER -> answer'[t] = NoAnswer
<1>0. Inv /\ TypeOK
  BY DEF ReadInv, Inv
<1>1. CASE Crash
  <2>1. answer'[t] = NoAnswer
    BY <1>1 DEF Crash
  <2> QED BY <2>1 DEF NoAnswer
<1>2. CASE ListNext(t)
  <2>1. CASE left[t] = {}
    <3>1. answer'[t] = Ok(Listed \cup got[t])
      BY <1>0, <1>2, <2>1 DEF ListNext, Answer, TypeOK
    <3>2. \A s \in kept[t] : \E p \in got[t] : Slug(p.name) = s
      BY <2>1 DEF ReadInv, ListOwes
    <3> QED BY <3>1, <3>2 DEF Ok
  <2>2. CASE left[t] # {}
    <3>1. PICK s \in left[t] : path[s] \notin Whole /\ answer' = [answer EXCEPT ![t] = Refusal("error")]
      BY <1>0, <1>2, <2>2 DEF ListNext, Answer, TypeOK
    <3>2. path[s] = Absent
      BY <1>0, <3>1 DEF Inv, FileIsWhole, TypeOK
    <3>3. s \notin kept[t]
      BY <3>2 DEF ReadInv, KeptExists
    <3>4. answer'[t].is = "error"
      BY <1>0, <3>1 DEF TypeOK, Refusal
    <3> QED BY <3>3, <3>4
  <2> QED BY <2>1, <2>2
<1>3. CASE \E u \in Threads \ {t} : Request(u) \/ Continue(u)
  <2>1. PICK u \in Threads \ {t} : Request(u) \/ Continue(u)
    BY <1>3
  <2>2. pc' = pc \/ \E place : pc' = [pc EXCEPT ![u] = place]
    <3>1. ASSUME NEW n \in Names, Load(u, n) \/ Delete(u, n) PROVE \E place : pc' = [pc EXCEPT ![u] = place]
      BY <3>1 DEF Load, Delete, Answer, GoOn, Goto
    <3>2. ASSUME NEW n \in Names, NEW v \in Sliders, Save(u, n, v)
          PROVE  \E place : pc' = [pc EXCEPT ![u] = place]
      BY <3>2 DEF Save, GoOn, Goto
    <3>3. CASE List(u) \/ Fill(u) \/ Read(u)
      BY <3>3 DEF List, Fill, Read, Answer, GoOn, Goto
    <3>4. CASE Replace(u) \/ Unlink(u) \/ ListNext(u)
      BY <3>4 DEF Replace, Unlink, ListNext, Answer, Goto
    <3> QED BY <2>1, <3>1, <3>2, <3>3, <3>4 DEF Request, Continue
  <2>3. pc'[t] = pc[t]
    BY <1>0, <2>2 DEF TypeOK
  <2> QED BY <2>3
<1>4. CASE UNCHANGED vars
  BY <1>4 DEF vars
<1>5. CASE Request(t) \/ (Continue(t) /\ ~ListNext(t))
  <2>1. FALSE
    BY <1>5 DEF Request, Continue, List, Load, Delete, Save, Fill, Replace, Read, Unlink, Arrive
  <2> QED BY <2>1
<1> QED BY <1>1, <1>2, <1>3, <1>4, <1>5 DEF Next

\* As long as saves with one slug follow each other: whatever is saved, deleted
\* or listed meanwhile, a listing misses no profile that stays, fails only if
\* one goes, and a profile that stays is loaded (store.py:79-130).
THEOREM KeptProfilesAreSeen ==
  ASSUME ~Racing
  PROVE  Spec => KeptIsSeen
<1>1. Init => ReadInv
  BY ReadInvInit
<1>2. ReadInv /\ [Next]_vars => ReadInv'
  BY ReadInvStep
<1>3. ReadInv /\ [Next]_vars =>
        [\A t \in Threads : pc[t] = "list" /\ pc'[t] = "idle" =>
           CASE answer'[t].is = "ok" ->
                  \A s \in kept[t] : \E p \in answer'[t].profiles : Slug(p.name) = s
             [] answer'[t].is = "error" -> \E s \in left[t] : s \notin kept[t]
             [] OTHER -> answer'[t] = NoAnswer]_vars
  BY ListEndsComplete
<1>4. ReadInv => \A t \in Threads :
        req[t].op = "load" /\ pc[t] = "idle" /\ Slug(req[t].name) \in kept[t] => answer[t].is = "ok"
  BY DEF ReadInv, LoadFinds
<1> QED
  BY <1>1, <1>2, <1>3, <1>4, PTL DEF Spec, KeptIsSeen
=============================================================================
