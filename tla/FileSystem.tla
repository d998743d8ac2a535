---------------------------- MODULE FileSystem ----------------------------
(***************************************************************************)
(* The files of one user: the requests of FileSystemService                *)
(* (src/frontend/filesystem_service.hpp) on the row <user>_files, and the  *)
(* registration that creates it (src/frontend/account_service.hpp).  A     *)
(* directory is a column that lists ids; a request reads it, computes and  *)
(* writes it back, by calls to the storage that other requests come        *)
(* between and that may fail.                                              *)
(*                                                                         *)
(* Simplifications.  A list is the set of its ids, so of several entries   *)
(* with the name looked for any may be found, where the code takes the     *)
(* first.  The names of the entries of a directory are read in one step    *)
(* with its list.  Files and folders have names from different sets, and a *)
(* path is made of names of folders: for a path that leads to a file,      *)
(* parsing its content as a list throws.  A PUT takes effect for all       *)
(* readers at once (module RowLog takes this apart).                       *)
(***************************************************************************)
EXTENDS Naturals, Sequences, FiniteSets

CONSTANTS
  NewIds,       \* what get_unique_id returns
  FileNames,    \* names of files
  FolderNames,  \* names users give to folders
  TrashNames,   \* those of them that contain "Trash"
  Paths,        \* the paths in requests
  Movable,      \* bound: directories of Dirs that requests are about
  Threads,      \* threads of the frontends
  None,         \* no name, no id
  MaxRequests,  \* bound: requests in a behaviour
  MaxFaults     \* bound: calls to the storage that go wrong

Dirs  == {"root", "trash", "recents"}
Ids   == NewIds \cup Dirs
DirNames == FolderNames \cup {"Trash", "Recents"}
Names == FileNames \cup DirNames

ASSUME IdAssumption ==
  NewIds \cap Dirs = {} /\ Movable \subseteq Dirs /\ None \notin Ids
ASSUME NameAssumption ==
  /\ FileNames \cap DirNames = {} /\ None \notin Names
  /\ TrashNames \subseteq FolderNames
ASSUME PathAssumption  == Paths \subseteq Seq(DirNames)
ASSUME BoundAssumption == MaxRequests \in Nat /\ MaxFaults \in Nat

VARIABLES
  registered,  \* the row <user>_acc has a password
  stored,      \* the ids that have a content column
  content,     \* id -> what it lists, {} for a file
  name,        \* id -> its name column
  metadata,    \* id -> what its metadata column makes of it
  job,         \* thread -> the request it handles, with its locals
  drawn,       \* ids that were drawn
  requests,    \* requests so far, for the bound
  faults,      \* calls that went wrong so far, for the bound
  home,        \* history: id -> the directory a PUT answered OK put it in last
  via_recents, \* history: ids uploaded into Recents, or moved out of it
  stale        \* history: directories written from a list that was not current

columns == <<registered, stored, content, name, metadata>>
history == <<home, via_recents, stale>>
vars == <<columns, job, drawn, requests, faults, history>>

Kinds  == {"file", "folder"}
ASSUME KindAssumption == None \notin Kinds

Stages == {"idle", "exists", "walk", "read", "read_new", "put", "recents", "put_recents"}
Ops    == {"none", "signup", "upload", "folder", "download", "rename", "star", "delete", "move"}

(* A PUT: column and id, for a list the one that was read and the new one, *)
(* for a name the name.                                                    *)
PutType == [col : {"password", "content", "name", "metadata"}, id : Ids,
            was : SUBSET Ids, list : SUBSET Ids, name : Names \cup {None}]
PutList(d, old, new) ==
  [col |-> "content", id |-> d, was |-> old, list |-> new, name |-> None]
PutColumn(c, i, n) == [col |-> c, id |-> i, was |-> {}, list |-> {}, name |-> n]

(* What is left of a path, the directory it has led to, the path that is   *)
(* walked next (move_file), the directory an entry is taken from and its   *)
(* list, the PUTs that are left, and whether the first has been made.      *)
JobType ==
  [op : Ops, stage : Stages, path : Seq(DirNames), next_path : Seq(DirNames),
   dir : Ids \cup {None}, from : Ids \cup {None}, old : SUBSET Ids, id : Ids \cup {None},
   name : Names \cup {None}, in_trash : BOOLEAN, todo : Seq(PutType), again : BOOLEAN]

Idle == [op |-> "none", stage |-> "idle", path |-> <<>>, next_path |-> <<>>, dir |-> None,
         from |-> None, old |-> {}, id |-> None, name |-> None, in_trash |-> FALSE,
         todo |-> <<>>, again |-> FALSE]

At(t, stage) == job[t].stage = stage
Goes(t, j)   == job' = [job EXCEPT ![t] = j]
Ends(t)     == Goes(t, Idle)

(* What register_new_user puts into the row <user>_files.                  *)
Registered ==
  /\ registered = TRUE /\ stored = Dirs
  /\ content  = [i \in Ids |-> IF i = "root" THEN {"trash", "recents"} ELSE {}]
  /\ name     = [i \in Ids |-> CASE i = "trash" -> "Trash" [] i = "recents" -> "Recents"
                                 [] OTHER -> None]
  /\ metadata = [i \in Ids |-> IF i \in {"trash", "recents"} THEN "folder" ELSE None]

Unregistered ==
  /\ registered = FALSE /\ stored = {}
  /\ content  = [i \in Ids |-> {}]
  /\ name     = [i \in Ids |-> None]
  /\ metadata = [i \in Ids |-> None]

Init ==
  /\ Registered \/ Unregistered
  /\ job = [t \in Threads |-> Idle]
  /\ drawn = {} /\ requests = 0 /\ faults = 0
  /\ home = [i \in Ids |-> None] /\ via_recents = {} /\ stale = {}

(* navigate shows the entries with a name and metadata, and clients know   *)
(* no other ids.                                                           *)
Shown == {i \in NewIds \cup Movable : name[i] # None /\ metadata[i] # None}

-----------------------------------------------------------------------------
(* update_recents follows an upload or a download and precedes a delete,   *)
(* and whether it succeeds is ignored.                                     *)
AfterRecents(j) ==
  IF j.op = "delete" THEN [j EXCEPT !.stage = "read", !.todo = <<>>, !.again = FALSE]
  ELSE Idle

(* What a request does next once its path has led to j.dir.                *)
Resolved(j) ==
  CASE j.op = "upload" -> [j EXCEPT !.stage = "read"]
    [] j.op = "folder" -> IF j.dir \in {"trash", "recents"} THEN Idle
                          ELSE [j EXCEPT !.stage = "read"]
    [] j.op = "delete" -> [j EXCEPT !.stage = "recents", !.from = j.dir,
                                    !.dir = IF j.in_trash THEN None ELSE "trash"]
    [] j.op = "move"   -> IF "recents" \in {j.from, j.dir} THEN Idle
                          ELSE [j EXCEPT !.stage = "read"]

(* move_file walks the second path like the first.                         *)
Walked(j) ==
  IF j.path # <<>> THEN j
  ELSE IF j.op = "move" /\ j.from = None
       THEN IF j.next_path = <<>> THEN Resolved([j EXCEPT !.from = j.dir, !.dir = "root"])
            ELSE [j EXCEPT !.from = j.dir, !.dir = "root", !.path = j.next_path,
                           !.next_path = <<>>]
       ELSE Resolved(j)

(* get_id_from_path starts at "root".                                      *)
Walking(op, path) == [Idle EXCEPT !.op = op, !.stage = "walk", !.path = path, !.dir = "root"]

(* Names that make delete_file take a path for one inside the trash.       *)
InTrash(path) == \E k \in DOMAIN path : path[k] \in TrashNames \cup {"Trash"}

(* A client that has registered or logged in, which takes no more than the *)
(* password, sends a request; the ids of new entries are unique.           *)
Starts(t, j) ==
  /\ registered /\ At(t, "idle") /\ requests < MaxRequests
  /\ requests' = requests + 1
  /\ Goes(t, j)
  /\ UNCHANGED <<columns, faults, history>>

upload(t, i, path, n) ==
  /\ i \in NewIds \ drawn /\ drawn' = drawn \cup {i} /\ n \in FileNames
  /\ Starts(t, Walked([Walking("upload", path) EXCEPT !.id = i, !.name = n]))

add_folder(t, i, path, n) ==
  /\ i \in NewIds \ drawn /\ drawn' = drawn \cup {i} /\ n \in FolderNames
  /\ Starts(t, Walked([Walking("folder", path) EXCEPT !.id = i, !.name = n]))

move_file(t, i, path, new_path) ==
  /\ i \in Shown
  /\ Starts(t, Walked([Walking("move", path) EXCEPT !.id = i, !.next_path = new_path]))
  /\ UNCHANGED drawn

delete_file(t, i, path) ==
  /\ i \in Shown
  /\ Starts(t, Walked([Walking("delete", path) EXCEPT !.id = i, !.in_trash = InTrash(path)]))
  /\ UNCHANGED drawn

(* rename writes the name at once, star the metadata it has read.          *)
rename(t, i, n) ==
  /\ i \in Shown /\ n \in (IF metadata[i] = "file" THEN FileNames ELSE FolderNames)
  /\ Starts(t, [Idle EXCEPT !.op = "rename", !.stage = "put", !.id = i, !.name = n,
                            !.todo = <<PutColumn("name", i, n)>>])
  /\ UNCHANGED drawn

OnEntry(t, i, op) ==
  /\ i \in Shown /\ op \in {"download", "star"}
  /\ Starts(t, [Idle EXCEPT !.op = op, !.stage = "read", !.id = i])
  /\ UNCHANGED drawn

(* register_new_user looks for the password first.                         *)
signup(t) ==
  /\ At(t, "idle") /\ requests < MaxRequests
  /\ requests' = requests + 1
  /\ Goes(t, [Idle EXCEPT !.op = "signup", !.stage = "exists"])
  /\ UNCHANGED <<columns, drawn, faults, history>>

SignupPuts ==
  << PutColumn("password", "root", None),
     PutList("root", {}, {"trash", "recents"}), PutList("trash", {}, {}),
     PutList("recents", {}, {}),
     PutColumn("name", "trash", "Trash"), PutColumn("name", "recents", "Recents"),
     PutColumn("metadata", "trash", None), PutColumn("metadata", "recents", None) >>

Registering(j) == [j EXCEPT !.stage = "put", !.todo = SignupPuts]

-----------------------------------------------------------------------------
(* GETs.                                                                   *)
Reads == UNCHANGED <<columns, drawn, requests, faults, history>>

check_user_exists(t) ==
  /\ At(t, "exists")
  /\ IF registered THEN Ends(t)
     ELSE Goes(t, Registering(job[t]))
  /\ Reads

(* One component of a path.                                                *)
Walk(t) ==
  LET j == job[t]
      found == {c \in content[j.dir] : name[c] = Head(j.path)}
  IN
  /\ At(t, "walk")
  /\ IF j.dir \notin stored \/ found = {} THEN Ends(t)
     ELSE \E c \in found : Goes(t, Walked([j EXCEPT !.path = Tail(@), !.dir = c]))
  /\ Reads

(* Mutant: the name of a folder is put before its list.                    *)
NameFirst(j) ==
  << PutColumn("name", j.id, j.name), PutColumn("metadata", j.id, None), PutList(j.id, {}, {}) >>

(* upload and add_folder read the list for an entry of the same name and   *)
(* write it back with the new entry before the columns of the entry.       *)
EntryPuts(j) ==
  IF j.op = "upload"
  THEN << PutColumn("name", j.id, j.name), PutColumn("metadata", j.id, None),
          PutList(j.id, {}, {}) >>
  ELSE << PutList(j.id, {}, {}), PutColumn("name", j.id, j.name),
          PutColumn("metadata", j.id, None) >>

(* Mutant: the list that is written back is a new one.                     *)
ReadParentForgets(t) ==
  LET j == job[t] IN
  /\ At(t, "read") /\ j.op \in {"upload", "folder"}
  /\ IF j.dir \notin stored \/ \E c \in content[j.dir] : name[c] = j.name
     THEN Ends(t)
     ELSE Goes(t, [j EXCEPT !.stage = "put",
                            !.todo = <<PutList(j.dir, content[j.dir], {j.id})>> \o EntryPuts(j)])
  /\ Reads

ParentRead(j) ==
  [j EXCEPT !.stage = "put",
            !.todo = <<PutList(j.dir, content[j.dir], content[j.dir] \cup {j.id})>>
                     \o EntryPuts(j)]

Namesakes(j) == {c \in content[j.dir] : name[c] = j.name}

ReadParent(t) ==
  LET j == job[t] IN
  /\ At(t, "read") /\ j.op \in {"upload", "folder"}
  /\ IF j.dir \notin stored \/ Namesakes(j) # {} THEN Ends(t) ELSE Goes(t, ParentRead(j))
  /\ Reads

Fault == faults < MaxFaults /\ faults' = faults + 1

(* An entry whose name cannot be read is passed over.                      *)
OverlookName(t) ==
  LET j == job[t] IN
  /\ At(t, "read") /\ j.op \in {"upload", "folder"} /\ Fault
  /\ j.dir \in stored /\ \E c \in content[j.dir] : Namesakes(j) = {c}
  /\ Goes(t, ParentRead(j))
  /\ UNCHANGED <<columns, drawn, requests, history>>

Complete(i) == i \in stored /\ name[i] # None /\ metadata[i] = "file"

ReadEntry(t) ==
  LET j == job[t] IN
  /\ At(t, "read")
  /\ \/ /\ j.op = "download" /\ Complete(j.id)
        /\ Goes(t, [j EXCEPT !.stage = "recents"])
     \/ /\ j.op = "star"
        /\ IF name[j.id] # None /\ metadata[j.id] # None
           THEN Goes(t, [j EXCEPT !.stage = "put", !.todo = <<PutColumn("metadata", j.id, None)>>])
           ELSE Ends(t)
  /\ Reads

(* move_helper, and the branch of delete_file that erases: nothing is done *)
(* for a move into the same directory; otherwise the lists are read, and   *)
(* the entry must be in the old one.                                       *)
ReadOld(t) ==
  LET j == job[t] IN
  /\ At(t, "read") /\ j.op \in {"move", "delete"}
  /\ IF j.from = j.dir \/ j.from \notin stored THEN Ends(t)
     ELSE IF j.dir # None THEN Goes(t, [j EXCEPT !.stage = "read_new", !.old = content[j.from]])
     ELSE IF j.id \notin content[j.from] THEN Ends(t)
     ELSE Goes(t, [j EXCEPT !.stage = "put",
                            !.todo = <<PutList(j.from, content[j.from], content[j.from] \ {j.id})>>])
  /\ Reads

(* Mutant: the new list is written first.                                  *)
MovePutsNewFirst(j) ==
  << PutList(j.dir, content[j.dir], content[j.dir] \cup {j.id}),
     PutList(j.from, j.old, j.old \ {j.id}) >>

MovePuts(j) ==
  << PutList(j.from, j.old, j.old \ {j.id}),
     PutList(j.dir, content[j.dir], content[j.dir] \cup {j.id}) >>

ReadNew(t) ==
  LET j == job[t] IN
  /\ At(t, "read_new")
  /\ IF j.dir \notin stored \/ j.id \notin j.old THEN Ends(t)
     ELSE Goes(t, [j EXCEPT !.stage = "put", !.todo = MovePuts(j)])
  /\ Reads

ReadRecents(t) ==
  LET j == job[t]
      others == content["recents"] \ {j.id}
  IN
  /\ At(t, "recents")
  /\ Goes(t, IF "recents" \notin stored THEN AfterRecents(j)
             ELSE [j EXCEPT !.stage = "put_recents",
                            !.todo = <<PutList("recents", content["recents"],
                                         IF j.op = "delete" THEN others
                                         ELSE others \cup {j.id})>>])
  /\ Reads

-----------------------------------------------------------------------------
(* PUTs.                                                                   *)

(* A list is as it was when the thread read it, or, if the PUT has been    *)
(* executed before, as the thread wrote it; register_new_user has seen     *)
(* that there was none.                                                    *)
Current(t, p) ==
  IF job[t].again THEN content[p.id] = p.list
  ELSE IF job[t].op = "signup" THEN p.id \notin stored
  ELSE content[p.id] = p.was

(* The storage executes the PUT a thread is making.                        *)
Put(t) ==
  LET p == Head(job[t].todo) IN
  /\ registered' = (registered \/ p.col = "password")
  /\ stored'   = IF p.col = "content" THEN stored \cup {p.id} ELSE stored
  /\ content'  = IF p.col = "content" THEN [content EXCEPT ![p.id] = p.list] ELSE content
  /\ name'     = IF p.col = "name" THEN [name EXCEPT ![p.id] = p.name] ELSE name
  /\ metadata' = IF p.col # "metadata" THEN metadata
                 ELSE [metadata EXCEPT ![p.id] =
                         CASE job[t].op = "upload" -> "file"
                           [] job[t].op = "star"   -> @
                           [] OTHER                -> "folder"]
  /\ stale' = IF p.col = "content" /\ ~ Current(t, p) THEN stale \cup {p.id} ELSE stale

(* Where a PUT of a list leaves the entry the request is about.            *)
Leaves(t, answered) ==
  LET j == job[t]
      p == Head(j.todo)
      lists == At(t, "put") /\ p.col = "content" /\ j.id \notin {None, p.id}
  IN
  /\ home' = IF ~ lists THEN home
             ELSE [home EXCEPT ![j.id] =
                     IF answered /\ j.id \in p.list /\ p.id # "recents" THEN p.id ELSE None]
  /\ via_recents' = via_recents \cup (IF lists /\ p.id = "recents" THEN {j.id} ELSE {})

(* Mutant: the thread goes on after the last PUT.                          *)
AfterPutOffByOne(j) == [j EXCEPT !.todo = Tail(@), !.again = FALSE]

AfterPut(j) ==
  IF Len(j.todo) > 1 THEN [j EXCEPT !.todo = Tail(@), !.again = FALSE]
  ELSE IF j.stage = "put_recents" THEN AfterRecents(j)
  ELSE IF j.op = "upload" THEN [j EXCEPT !.stage = "recents", !.todo = <<>>, !.again = FALSE]
  ELSE Idle

Puts(t) == At(t, "put") \/ At(t, "put_recents")

PutAnswered(t) ==
  /\ Puts(t)
  /\ Put(t) /\ Leaves(t, TRUE)
  /\ Goes(t, AfterPut(job[t]))
  /\ UNCHANGED <<drawn, requests, faults>>

(* The PUT is executed, but its answer does not arrive: it is made again.  *)
LoseAnswer(t) ==
  /\ Puts(t) /\ Fault
  /\ Put(t) /\ Leaves(t, FALSE)
  /\ Goes(t, [job[t] EXCEPT !.again = TRUE])
  /\ UNCHANGED <<drawn, requests>>

(* Mutant: an upload of which a PUT failed is put into Recents.            *)
GivenUpListed(j) ==
  IF j.op = "upload" /\ j.stage = "put" THEN [j EXCEPT !.stage = "recents", !.todo = <<>>]
  ELSE IF j.stage \in {"recents", "put_recents"} THEN AfterRecents(j) ELSE Idle

(* All tries of a call fail, and the request with it; but a call of        *)
(* update_recents is not missed, and a password that cannot be read is     *)
(* taken for none.  The storage may have executed a PUT.                   *)
GivenUp(j) ==
  CASE j.stage \in {"recents", "put_recents"} -> AfterRecents(j)
    [] j.stage = "exists" -> Registering(j)
    [] OTHER -> Idle

GiveUp(t) ==
  /\ ~ At(t, "idle") /\ Fault
  /\ Goes(t, GivenUp(job[t]))
  /\ \/ Puts(t) /\ Put(t) /\ Leaves(t, FALSE)
     \/ UNCHANGED <<columns, history>>
  /\ UNCHANGED <<drawn, requests>>

(* The end of the frontend that t is a thread of, with others; the storage *)
(* may have executed a PUT that one of them was making.                    *)
Terminates(t) ==
  \E S \in SUBSET Threads :
    /\ t \in S
    /\ job' = [u \in Threads |-> IF u \in S THEN Idle ELSE job[u]]
    /\ \/ \E u \in S : Puts(u) /\ Put(u) /\ Leaves(u, FALSE)
       \/ UNCHANGED <<columns, history>>

(* A download that fails has no metadata, and taking the content type out  *)
(* of it throws an exception that nobody catches.                          *)
DownloadThrows(t) ==
  /\ At(t, "read") /\ job[t].op = "download" /\ ~ Complete(job[t].id)
  /\ Terminates(t)
  /\ UNCHANGED <<drawn, requests, faults>>

(* The same when a GET of a download or of rename's answer fails, or when  *)
(* the master is asked for replicas and gives none (rand() % 0).           *)
Crash(t) ==
  /\ ~ At(t, "idle") /\ Fault
  /\ Terminates(t)
  /\ UNCHANGED <<drawn, requests>>

-----------------------------------------------------------------------------
Request(t) ==
  \/ signup(t)
  \/ \E i \in Ids, path \in Paths :
       \/ \E n \in Names : upload(t, i, path, n) \/ add_folder(t, i, path, n)
       \/ \E new_path \in Paths : move_file(t, i, path, new_path)
       \/ delete_file(t, i, path)
  \/ \E i \in Ids :
       \/ \E n \in Names : rename(t, i, n)
       \/ \E op \in {"download", "star"} : OnEntry(t, i, op)

Serve(t) ==
  \/ check_user_exists(t) \/ Walk(t)
  \/ ReadParent(t) \/ ReadEntry(t) \/ ReadOld(t) \/ ReadNew(t) \/ ReadRecents(t)
  \/ OverlookName(t) \/ DownloadThrows(t)
  \/ PutAnswered(t) \/ LoseAnswer(t) \/ GiveUp(t) \/ Crash(t)

Rest == (\A t \in Threads : At(t, "idle")) /\ UNCHANGED vars

Next == (\E t \in Threads : Request(t) \/ Serve(t)) \/ Rest

Spec == Init /\ [][Next]_vars

-----------------------------------------------------------------------------
TypeOK ==
  /\ registered \in BOOLEAN /\ stored \subseteq Ids
  /\ content  \in [Ids -> SUBSET Ids]
  /\ name     \in [Ids -> Names \cup {None}]
  /\ metadata \in [Ids -> Kinds \cup {None}]
  /\ job \in [Threads -> JobType]
  /\ \A t \in Threads : /\ Puts(t) => job[t].todo # <<>>
                        /\ At(t, "walk") => job[t].path # <<>> /\ job[t].dir \in Ids
  /\ drawn \subseteq NewIds /\ requests \in Nat /\ faults \in Nat
  /\ home \in [Ids -> Ids \cup {None}] /\ via_recents \subseteq Ids /\ stale \subseteq Ids

(* Whatever calls fail, an entry is never in two directories, unless some  *)
(* directory was written from a list that had changed since it was read:   *)
(* move_helper takes an entry out before it puts it in (line 533).  Not so *)
(* for a delete through Recents: if update_recents fails there, the entry  *)
(* is moved from Recents to the trash and stays in its own directory.      *)
PlacedOnce ==
  stale = {} => \A i \in Ids \ via_recents, c, d \in Ids \ {"recents"} :
    i \in content[c] /\ i \in content[d] => c = d

(* An entry stays in the directory that a PUT answered OK put it in, until *)
(* a request takes it out, whatever other requests do and whatever calls   *)
(* fail, as long as that directory is written from current lists only.     *)
AnsweredPlaced ==
  \A i \in Ids : home[i] \notin {None} \cup stale => i \in content[home[i]]

(* Recents lists files that can be downloaded (line 333), apart from       *)
(* uploads into Recents itself, under any interleaving and failure.        *)
RecentsComplete == \A i \in content["recents"] \ via_recents : Complete(i)

(* A folder that a path can lead to has a list: no look-up ends at an      *)
(* entry that add_folder has not finished or given up (line 663).          *)
FoldersCanBeEntered == \A i \in Ids : name[i] \in DirNames => i \in stored
=============================================================================
