---------------------------- MODULE ProfileStore ----------------------------
(***************************************************************************)
(* The saved profiles (engine/src/funnel/profiles/store.py) and the        *)
(* handlers that use them (api/app.py: get_profiles, post_profile,         *)
(* delete_profile_endpoint, _resolve_profile).  The handlers run on the    *)
(* web server's threads and no lock orders them: they meet in the          *)
(* directory, where every profile is one file, named by its slug.          *)
(*                                                                         *)
(* A save writes <slug>.json.tmp and renames it.  Whoever has that file    *)
(* open follows it through a rename, so a writer's handle is modelled by   *)
(* the name its file has now.                                              *)
(***************************************************************************)
EXTENDS FiniteSets

CONSTANTS
  Threads,   \* request threads
  Names,     \* profile names
  Slug(_),   \* _slugify
  Sliders,   \* slider values
  Presets,   \* the names of PRESETS
  Racing     \* may two saves with the same slug overlap?

ASSUME StoreAssumption == Presets \subseteq Names /\ Racing \in BOOLEAN

VARIABLES
  path,      \* <slug>.json
  tmp,       \* <slug>.json.tmp
  pc,        \* each thread's place in its handler
  req,       \* its request
  handle,    \* save: the name its open file has now: "tmp", "path" or "none"
  left,      \* list: the files it has still to read
  got,       \* list: the profiles it has read
  answer,    \* the answer to its last request
  kept       \* history: the slugs that had a file all along since the request

vars == <<path, tmp, pc, req, handle, left, got, answer, kept>>

Slugs    == {Slug(n) : n \in Names}
Profiles == [name : Names, sliders : Sliders]
Preset(n) == [name |-> n, sliders |-> "preset"]
Listed   == {Preset(n) : n \in Presets}

Absent  == [is |-> "absent"]
Empty   == [is |-> "empty"]                  \* truncated, nothing written yet
Garbled == [is |-> "garbled"]                \* the remains of two writes
Holds(p) == [is |-> "profile", of |-> p]
Whole    == {Holds(p) : p \in Profiles}
Contents == {Absent, Empty, Garbled} \cup Whole

Answers   == [is : {"none", "ok", "missing", "refused", "error"},
              profiles : SUBSET (Profiles \cup Listed)]
NoAnswer  == [is |-> "none", profiles |-> {}]
Ok(ps)    == [is |-> "ok", profiles |-> ps]
Refusal(status) == [is |-> status, profiles |-> {}]      \* 403, 404 and 500
NoRequest == [op |-> "none"]
Requests  == [op : {"none", "list"}] \cup [op : {"load", "delete"}, name : Names]
               \cup [op : {"save"}, name : Names, sliders : Sliders]

Init ==
  /\ path = [s \in Slugs |-> Absent] /\ tmp = [s \in Slugs |-> Absent]
  /\ pc     = [t \in Threads |-> "idle"]
  /\ req    = [t \in Threads |-> NoRequest]
  /\ handle = [t \in Threads |-> "none"]
  /\ left   = [t \in Threads |-> {}] /\ got = [t \in Threads |-> {}]
  /\ answer = [t \in Threads |-> NoAnswer]
  /\ kept   = [t \in Threads |-> {}]

Of(t)          == Slug(req[t].name)
Present        == {s \in Slugs : path[s] # Absent}
Goto(t, place) == pc' = [pc EXCEPT ![t] = place]
Answer(t, a)   == Goto(t, "idle") /\ answer' = [answer EXCEPT ![t] = a]
GoOn(t, place) == Goto(t, place) /\ answer' = [answer EXCEPT ![t] = NoAnswer]
FilesUnchanged == UNCHANGED <<path, tmp, handle, kept>>
ListUnchanged  == UNCHANGED <<left, got>>

Arrive(t, r) ==
  /\ pc[t] = "idle"
  /\ req'  = [req EXCEPT ![t] = r]
  /\ kept' = [kept EXCEPT ![t] = Present]
-----------------------------------------------------------------------------
\* post_profile, save_profile: open the temporary file, truncating it
Saving(s) == {u \in Threads : pc[u] \in {"fill", "replace"} /\ Of(u) = s}

Save(t, n, v) ==
  /\ Racing \/ Saving(Slug(n)) = {}
  /\ Arrive(t, [op |-> "save", name |-> n, sliders |-> v])
  /\ tmp'    = [tmp EXCEPT ![Slug(n)] = Empty]
  /\ handle' = [handle EXCEPT ![t] = "tmp"]
  /\ GoOn(t, "fill")
  /\ UNCHANGED path /\ ListUnchanged

Unflushed(t, old) == {old}                   \* fault: renamed before it is closed
Written(t, old) ==
  LET new == Holds([name |-> req[t].name, sliders |-> req[t].sliders])
  IN IF old = Empty THEN {new} ELSE {new, Garbled}     \* over a longer text, or not

Close(t) == handle' = [handle EXCEPT ![t] = "none"]

\* write it from its start and close it, wherever it is by now
Fill(t) ==
  /\ pc[t] = "fill"
  /\ \/ /\ handle[t] = "tmp"
        /\ \E c \in Written(t, tmp[Of(t)]) : tmp' = [tmp EXCEPT ![Of(t)] = c]
        /\ UNCHANGED path
     \/ /\ handle[t] = "path"
        /\ \E c \in Written(t, path[Of(t)]) : path' = [path EXCEPT ![Of(t)] = c]
        /\ UNCHANGED tmp
     \/ handle[t] = "none" /\ UNCHANGED <<path, tmp>>
  /\ Close(t)
  /\ Goto(t, "replace")
  /\ UNCHANGED <<req, answer, kept>> /\ ListUnchanged

\* fault: the old file is unlinked, and the new one renamed at the next save
Unlinked(s) == /\ path' = [path EXCEPT ![s] = IF @ = Absent THEN tmp[s] ELSE Absent]
               /\ tmp'  = [tmp EXCEPT ![s] = IF path[s] = Absent THEN Absent ELSE @]
Replaced(s) == path' = [path EXCEPT ![s] = tmp[s]] /\ tmp' = [tmp EXCEPT ![s] = Absent]

\* those who have the replaced file open lose it, the others follow theirs
Follow(s) ==
  handle' = [u \in Threads |-> IF u \notin Saving(s) THEN handle[u]
                              ELSE IF handle[u] = "tmp" THEN "path" ELSE "none"]

\* os.replace, which raises if another save has renamed the file already
Replace(t) ==
  /\ pc[t] = "replace"
  /\ IF tmp[Of(t)] = Absent
     THEN Answer(t, Refusal("error")) /\ UNCHANGED <<path, tmp, handle, kept>>
     ELSE /\ Answer(t, Ok({}))
          /\ Replaced(Of(t)) /\ Follow(Of(t))
          /\ UNCHANGED kept
  /\ UNCHANGED req /\ ListUnchanged
-----------------------------------------------------------------------------
\* _resolve_profile, load_profile: the presets first, then path.exists()
Load(t, n) ==
  /\ Arrive(t, [op |-> "load", name |-> n])
  /\ CASE n \in Presets          -> Answer(t, Ok({Preset(n)}))
       [] n \notin Presets /\ path[Slug(n)] = Absent -> Answer(t, Refusal("missing"))
       [] OTHER                  -> GoOn(t, "read")
  /\ UNCHANGED <<path, tmp, handle>> /\ ListUnchanged

\* read_text: a file that is gone by now is a 404 as well
Read(t) ==
  /\ pc[t] = "read"
  /\ LET found == path[Of(t)]
     IN Answer(t, CASE found = Absent  -> Refusal("missing")
                    [] found \in Whole -> Ok({found.of})
                    [] OTHER           -> Refusal("error"))
  /\ UNCHANGED req /\ FilesUnchanged /\ ListUnchanged

\* get_profiles, list_profiles: glob("*.json")
List(t) ==
  /\ Arrive(t, [op |-> "list"])
  /\ left'   = [left EXCEPT ![t] = Present]
  /\ got'    = [got EXCEPT ![t] = {}]
  /\ GoOn(t, "list")
  /\ UNCHANGED <<path, tmp, handle>>

\* read the files, one by one (their order is left open); one that is gone
\* by now, or cannot be parsed, is a 500
ListNext(t) ==
  /\ pc[t] = "list"
  /\ IF left[t] = {} THEN Answer(t, Ok(Listed \cup got[t])) /\ ListUnchanged
     ELSE \E s \in left[t] :
            /\ left' = [left EXCEPT ![t] = @ \ {s}]
            /\ IF path[s] \in Whole
               THEN got' = [got EXCEPT ![t] = @ \cup {path[s].of}] /\ UNCHANGED <<pc, answer>>
               ELSE Answer(t, Refusal("error")) /\ UNCHANGED got
  /\ UNCHANGED req /\ FilesUnchanged

\* delete_profile_endpoint, delete_profile: presets are refused
Delete(t, n) ==
  /\ Arrive(t, [op |-> "delete", name |-> n])
  /\ CASE n \in Presets          -> Answer(t, Refusal("refused"))
       [] n \notin Presets /\ path[Slug(n)] = Absent -> Answer(t, Refusal("missing"))
       [] OTHER                  -> GoOn(t, "unlink")
  /\ UNCHANGED <<path, tmp, handle>> /\ ListUnchanged

Unlink(t) ==
  /\ pc[t] = "unlink"
  /\ IF path[Of(t)] = Absent
     THEN Answer(t, Refusal("missing")) /\ FilesUnchanged
     ELSE /\ Answer(t, Ok({}))
          /\ path'   = [path EXCEPT ![Of(t)] = Absent]
          /\ handle' = [u \in Threads |-> IF u \in Saving(Of(t)) /\ handle[u] = "path"
                                          THEN "none" ELSE handle[u]]
          /\ kept'   = [u \in Threads |-> kept[u] \ {Of(t)}]
          /\ UNCHANGED tmp
  /\ UNCHANGED req /\ ListUnchanged
-----------------------------------------------------------------------------
\* The server dies and is started again: only the files stay.
Crash ==
  /\ pc'     = [t \in Threads |-> "idle"]
  /\ req'    = [t \in Threads |-> NoRequest]
  /\ handle' = [t \in Threads |-> "none"]
  /\ left'   = [t \in Threads |-> {}] /\ got' = [t \in Threads |-> {}]
  /\ answer' = [t \in Threads |-> NoAnswer]
  /\ kept'   = [t \in Threads |-> {}]
  /\ UNCHANGED <<path, tmp>>

Request(t) == \/ List(t)
              \/ \E n \in Names : \/ Load(t, n) \/ Delete(t, n)
                                  \/ \E v \in Sliders : Save(t, n, v)
Continue(t) == Fill(t) \/ Replace(t) \/ Read(t) \/ ListNext(t) \/ Unlink(t)
Next == Crash \/ \E t \in Threads : Request(t) \/ Continue(t)

Spec == Init /\ [][Next]_vars
-----------------------------------------------------------------------------
\* Every variable keeps its type, and a thread past the arrival of a request
\* holds one of the kind its place belongs to.
TypeOK ==
  /\ path \in [Slugs -> Contents] /\ tmp \in [Slugs -> Contents]
  /\ pc \in [Threads -> {"idle", "fill", "replace", "read", "list", "unlink"}]
  /\ handle \in [Threads -> {"tmp", "path", "none"}]
  /\ \A t \in Threads : handle[t] # "none" => pc[t] = "fill"
  /\ left \in [Threads -> SUBSET Slugs] /\ kept \in [Threads -> SUBSET Slugs]
  /\ got \in [Threads -> SUBSET Profiles]
  /\ req \in [Threads -> Requests]
  /\ answer \in [Threads -> Answers]
  /\ \A t \in Threads :
       /\ pc[t] \in {"fill", "replace"} => req[t].op = "save"
       /\ pc[t] \in {"read", "unlink"} => req[t].op \in {"load", "delete"}

\* store.py:3-5: a crash between any two steps of a save leaves no corrupt
\* profile behind, and neither does a later save that finds the temporary file
\* of the dead one: what has a profile's name is a whole profile.
FileIsWhole == \A s \in Slugs : path[s] \in Whole \cup {Absent}

\* list_profiles reads the directory first and the files later.  Whatever is
\* saved meanwhile, it finds every profile that is not deleted before its end,
\* and it fails only if one is; and a load of a profile that was there at the
\* request and is not deleted meanwhile succeeds.
KeptIsSeen ==
  /\ [][\A t \in Threads : pc[t] = "list" /\ pc'[t] = "idle" =>
          CASE answer'[t].is = "ok" ->
                 \A s \in kept[t] : \E p \in answer'[t].profiles : Slug(p.name) = s
            [] answer'[t].is = "error" -> \E s \in left[t] : s \notin kept[t]
            [] OTHER -> answer'[t] = NoAnswer]_vars
  /\ [](\A t \in Threads :
          req[t].op = "load" /\ pc[t] = "idle" /\ Slug(req[t].name) \in kept[t] =>
            answer[t].is = "ok")

\* store.py:82-84: "a partially written file can never be observed by a
\* concurrent reader".
NoPartialFileIsRead ==
  \A t \in Threads : req[t].op = "load" => answer[t].is # "error"
=============================================================================
