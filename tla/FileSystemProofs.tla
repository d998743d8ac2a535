------------------------- MODULE FileSystemProofs -------------------------
(***************************************************************************)
(* What is proved of FileSystem for any ids, names, paths, threads and     *)
(* bounds: its types; that an entry that was put into a directory with an  *)
(* OK stays there while the directory is written from current lists only;  *)
(* that Recents lists files that can be downloaded; that every folder a    *)
(* path leads to has a list; and that an entry is in one directory at      *)
(* most, whatever calls fail and whichever frontends end.                  *)
(***************************************************************************)
EXTENDS FileSystem, SequenceTheorems, TLAPS

USE IdAssumption, NameAssumption, PathAssumption, BoundAssumption, KindAssumption

-----------------------------------------------------------------------------
(* The invariant of a request, part by part.                               *)

(* What the stage of a request says of its locals.                         *)
Shaped(j) ==
  /\ j \in JobType
  /\ j.stage \in {"put", "put_recents"} => j.todo # <<>>
  /\ j.stage \notin {"put", "put_recents"} => j.todo = <<>>
  /\ j.stage = "exists" => j.op = "signup"
  /\ j.stage = "walk" =>
       j.path # <<>> /\ j.dir \in Ids /\ j.op \in {"upload", "folder", "delete", "move"}
  /\ j.stage \in {"recents", "put_recents"} => j.op \in {"upload", "download", "delete"}
  /\ j.stage = "read_new" => j.from \in Ids /\ j.op \in {"move", "delete"}
  /\ j.op \notin {"none", "signup"} => j.id \in Ids

(* The PUTs an upload has still to make are those its entry lacks.         *)
Done(c, i) ==
  \/ c = "content"  /\ i \in stored
  \/ c = "name"     /\ name[i] # None
  \/ c = "metadata" /\ metadata[i] = "file"

Pending(j, c) == \E k \in 1 .. Len(j.todo) : j.todo[k].col = c /\ j.todo[k].id = j.id

(* Recents may list these.                                                 *)
Listable(i) == Complete(i) \/ i \in via_recents

(* A folder is not yet a file; a file is put into Recents once it is       *)
(* complete.                                                               *)
Owned(j) ==
  /\ j.op = "upload" => j.name \in FileNames
  /\ j.op = "folder" => j.name \in FolderNames /\ metadata[j.id] # "file"
  /\ j.op = "move" /\ j.stage \in {"read", "read_new"} => "recents" \notin {j.from, j.dir}
  /\ j.op = "delete" /\ j.stage # "walk" => j.dir \in {"trash", None}
  /\ j.op \in {"upload", "download"} /\ j.stage \in {"recents", "put_recents"} =>
       Complete(j.id)
  /\ j.op = "upload" /\ j.stage = "put" =>
       \A c \in {"content", "name", "metadata"} : Done(c, j.id) \/ Pending(j, c)
  /\ j.stage = "read_new" /\ j.from = "recents" => \A x \in j.old : Listable(x)

(* A list is written back with at most the entry of the request missing,   *)
(* and a column is that of the request's entry.                            *)
PutSound(j, p) ==
  /\ p.col = "content" /\ j.op # "signup" => p.was \ {j.id} \subseteq p.list
  /\ p.col = "content" /\ p.id = "recents" =>
       \A x \in p.list : Listable(x) \/ (x = j.id /\ j.stage = "put" /\ j.id # "recents")
  /\ p.col = "name" => p.name # None
  /\ p.col = "metadata" => \/ j.op \in {"upload", "folder"} /\ p.id = j.id
                           \/ j.op = "signup" /\ p.id \in Dirs
                           \/ j.op = "star"
  /\ j.stage = "put_recents" => p.id = "recents"

(* A PUT that makes a folder of an id finds its list there, or an earlier  *)
(* PUT of the request makes it.                                            *)
MakesFolder(j, p) ==
  \/ p.col = "name" /\ p.name \in DirNames
  \/ p.col = "metadata" /\ j.op \notin {"upload", "star"}

Backed(j, k) ==
  \/ j.todo[k].id \in stored
  \/ \E l \in 1 .. k - 1 : j.todo[l].col = "content" /\ j.todo[l].id = j.todo[k].id

PutsSound(j) ==
  \A k \in 1 .. Len(j.todo) :
    /\ PutSound(j, j.todo[k])
    /\ MakesFolder(j, j.todo[k]) => Backed(j, k)

Sound(j) == Shaped(j) /\ Owned(j) /\ PutsSound(j)

(* The invariant of the row.                                               *)
ColumnTypes ==
  /\ registered \in BOOLEAN /\ stored \subseteq Ids
  /\ content  \in [Ids -> SUBSET Ids]
  /\ name     \in [Ids -> Names \cup {None}]
  /\ metadata \in [Ids -> Kinds \cup {None}]
  /\ drawn \subseteq NewIds /\ requests \in Nat /\ faults \in Nat
  /\ home \in [Ids -> Ids \cup {None}] /\ via_recents \subseteq Ids /\ stale \subseteq Ids

HomesKnown ==
  \A i \in Ids : home[i] # None => home[i] \in stored /\ home[i] \notin {i, "recents"}

FilesDrawn   == \A i \in Ids : metadata[i] = "file" => i \in drawn
FoldersList  == \A i \in Ids : metadata[i] = "folder" => i \in stored
JobsSound    == job \in [Threads -> JobType] /\ \A t \in Threads : Sound(job[t])

(* An upload or folder is about an id it has drawn, and no other is.       *)
Adds(j) == j.op \in {"upload", "folder"}
OneOwner ==
  \A t \in Threads : Adds(job[t]) =>
    /\ job[t].id \in drawn
    /\ \A u \in Threads : Adds(job[u]) /\ job[u].id = job[t].id => t = u

RowInv ==
  /\ ColumnTypes /\ HomesKnown /\ FilesDrawn /\ FoldersList
  /\ AnsweredPlaced /\ RecentsComplete /\ FoldersCanBeEntered

FilesInv == RowInv /\ JobsSound /\ OneOwner

-----------------------------------------------------------------------------
LEMMA IdleSound == Idle \in JobType /\ Sound(Idle)
<1>1. Idle \in JobType
  BY DEF Idle, JobType, Ops, Stages
<1>2. Shaped(Idle)
  BY <1>1 DEF Shaped, Idle
<1>3. Owned(Idle)
  BY DEF Owned, Idle
<1>4. PutsSound(Idle)
  BY DEF PutsSound, Idle
<1> QED
  BY <1>1, <1>2, <1>3, <1>4 DEF Sound

LEMMA FilesInit == Init => FilesInv
<1> SUFFICES ASSUME Init PROVE FilesInv
  OBVIOUS
<1>1. ColumnTypes
  <2>1. CASE Registered
    <3>1. content \in [Ids -> SUBSET Ids]
      BY <2>1 DEF Registered, Ids, Dirs
    <3>2. name \in [Ids -> Names \cup {None}] /\ metadata \in [Ids -> Kinds \cup {None}]
      BY <2>1 DEF Registered, Names, DirNames, Kinds
    <3> QED
      BY <2>1, <3>1, <3>2 DEF Init, ColumnTypes, Registered, Ids
  <2>2. CASE Unregistered
    BY <2>2 DEF Init, ColumnTypes, Unregistered
  <2> QED
    BY <2>1, <2>2 DEF Init
<1>2. HomesKnown /\ AnsweredPlaced
  BY DEF Init, HomesKnown, AnsweredPlaced
<1>3. FilesDrawn /\ FoldersList /\ FoldersCanBeEntered
  <2>1. None \notin DirNames
    BY DEF Names
  <2>2. CASE Registered
    <3>1. \A i \in Ids : (name[i] \in DirNames \/ metadata[i] = "folder") => i \in Dirs
      BY <2>1, <2>2 DEF Registered, Dirs, Kinds
    <3>2. \A i \in Ids : metadata[i] # "file"
      BY <2>2 DEF Registered, Kinds
    <3> QED
      BY <2>2, <3>1, <3>2 DEF Registered, FilesDrawn, FoldersList, FoldersCanBeEntered
  <2>3. CASE Unregistered
    BY <2>1, <2>3 DEF Unregistered, FilesDrawn, FoldersList, FoldersCanBeEntered, Kinds
  <2> QED
    BY <2>2, <2>3 DEF Init
<1>4. RecentsComplete
  BY DEF Init, Registered, Unregistered, RecentsComplete, Ids, Dirs
<1>5. JobsSound /\ OneOwner
  <2>1. job = [t \in Threads |-> Idle] /\ Idle.op = "none"
    BY DEF Init, Idle
  <2> QED
    BY <2>1, IdleSound DEF JobsSound, OneOwner, Adds
<1> QED
  BY <1>1, <1>2, <1>3, <1>4, <1>5 DEF FilesInv, RowInv

-----------------------------------------------------------------------------
(* What no step takes back.                                                *)
Grows ==
  /\ stored \subseteq stored' /\ via_recents \subseteq via_recents'
  /\ \A i \in Ids : name[i] # None => name'[i] # None
  /\ \A i \in Ids : metadata[i] = "file" => metadata'[i] = "file"

LEMMA GrowsKeeps ==
  ASSUME Grows, ColumnTypes
  PROVE  /\ \A i : Complete(i) => Complete(i)'
         /\ \A i : Listable(i) => Listable(i)'
         /\ \A c : \A i \in Ids : Done(c, i) => Done(c, i)'
BY DEF Grows, ColumnTypes, Complete, Listable, Done

LEMMA SoundGrows ==
  ASSUME NEW j, Sound(j), Grows, ColumnTypes, j.op = "folder" => metadata'[j.id] # "file"
  PROVE  Sound(j)'
<1> USE DEF Sound
<1>1. Shaped(j)'
  BY DEF Shaped
<1>2. Owned(j)'
  <2>1. j.id \in Ids \/ j.op # "upload"
    BY DEF Shaped
  <2>2. ASSUME j.op = "upload", j.stage = "put", NEW c \in {"content", "name", "metadata"}
        PROVE  Done(c, j.id)' \/ Pending(j, c)
    <3>1. Done(c, j.id) \/ Pending(j, c)
      BY <2>2 DEF Owned
    <3> QED
      BY <2>1, <2>2, <3>1, GrowsKeeps
  <2> QED
    BY <2>2, GrowsKeeps DEF Owned, Pending
<1>3. PutsSound(j)'
  <2> SUFFICES ASSUME NEW k \in 1 .. Len(j.todo)
               PROVE  /\ PutSound(j, j.todo[k])'
                      /\ MakesFolder(j, j.todo[k]) => Backed(j, k)'
    BY DEF PutsSound, MakesFolder
  <2>1. PutSound(j, j.todo[k]) /\ (MakesFolder(j, j.todo[k]) => Backed(j, k))
    BY DEF PutsSound
  <2>2. PutSound(j, j.todo[k])'
    BY <2>1, GrowsKeeps DEF PutSound
  <2>3. Backed(j, k) => Backed(j, k)'
    BY DEF Backed, Grows
  <2> QED
    BY <2>1, <2>2, <2>3
<1> QED
  BY <1>1, <1>2, <1>3

(* One request goes on as j, and the others are as before.                 *)
LEMMA JobStep ==
  ASSUME FilesInv, NEW t \in Threads, NEW j, Goes(t, j), Sound(j)', Grows,
         drawn \subseteq drawn',
         Adds(j) => /\ j.id \in drawn'
                    /\ (Adds(job[t]) /\ j.id = job[t].id) \/ j.id \notin drawn,
         \A u \in Threads \ {t} : job[u].op = "folder" => metadata'[job[u].id] # "file"
  PROVE  JobsSound' /\ OneOwner'
<1>1. /\ job' \in [Threads -> JobType] /\ job'[t] = j
      /\ \A u \in Threads \ {t} : job'[u] = job[u]
  BY DEF FilesInv, JobsSound, Goes, Sound, Shaped
<1>2. ASSUME NEW u \in Threads PROVE Sound(job[u])'
  <2>1. CASE u = t
    BY <1>1, <2>1
  <2>2. CASE u # t
    BY <1>1, <2>2, SoundGrows DEF FilesInv, JobsSound, RowInv
  <2> QED
    BY <2>1, <2>2
<1>3. OneOwner'
  <2>1. ASSUME NEW u \in Threads, Adds(job[u])' PROVE job'[u].id \in drawn'
    BY <1>1, <2>1 DEF FilesInv, OneOwner, Adds
  <2>2. ASSUME NEW u \in Threads, NEW v \in Threads, Adds(job[u])', Adds(job[v])',
               job'[u].id = job'[v].id
        PROVE u = v
    BY <1>1, <2>2 DEF FilesInv, OneOwner, Adds
  <2> QED
    BY <2>1, <2>2 DEF OneOwner
<1> QED
  BY <1>1, <1>2, <1>3 DEF JobsSound

(* A step that reads, or starts a request.                                 *)
LEMMA ReadStep ==
  ASSUME FilesInv, NEW t \in Threads, NEW j, Goes(t, j), Sound(j),
         UNCHANGED <<columns, history>>, requests' \in Nat, faults' \in Nat,
         drawn \subseteq drawn', drawn' \subseteq NewIds,
         Adds(j) => /\ j.id \in drawn'
                    /\ (Adds(job[t]) /\ j.id = job[t].id) \/ j.id \notin drawn
  PROVE  FilesInv'
<1> USE DEF columns, history
<1>1. Grows
  BY DEF Grows
<1>2. ColumnTypes /\ ColumnTypes'
  BY DEF FilesInv, RowInv, ColumnTypes
<1>3. RowInv'
  BY <1>2 DEF FilesInv, RowInv, HomesKnown, FilesDrawn, FoldersList, AnsweredPlaced,
         RecentsComplete, Complete, FoldersCanBeEntered
<1>4. \A u \in Threads : job[u].op = "folder" => metadata'[job[u].id] # "file"
  BY DEF FilesInv, JobsSound, Sound, Owned
<1>5. j.op = "folder" => metadata'[j.id] # "file"
  BY DEF Sound, Owned
<1>6. Sound(j)'
  BY <1>1, <1>2, <1>5, SoundGrows
<1> QED
  BY <1>1, <1>3, <1>4, <1>6, JobStep DEF FilesInv

-----------------------------------------------------------------------------
(* Requests that look a path up.                                           *)
Walkable(j) ==
  /\ j \in JobType /\ j.stage = "walk" /\ j.todo = <<>>
  /\ j.op \in {"upload", "folder", "delete", "move"} /\ j.id \in Ids /\ j.dir \in Ids
  /\ j.op = "upload" => j.name \in FileNames
  /\ j.op = "folder" => j.name \in FolderNames /\ metadata[j.id] # "file"

(* The new locals are those of the same request, or it has ended.          *)
Continues(j, old) == j = Idle \/ (j.op = old.op /\ j.id = old.id)

LEMMA UnwrittenSound ==
  ASSUME NEW j, Shaped(j), Owned(j), j.stage \notin {"put", "put_recents"}
  PROVE  Sound(j)
<1>1. Len(j.todo) = 0
  BY DEF Shaped
<1> QED
  BY <1>1 DEF Sound, PutsSound

LEMMA ResolvedSound ==
  ASSUME NEW j, Walkable(j), j.op = "move" => j.from \in Ids
  PROVE  Sound(Resolved(j)) /\ Continues(Resolved(j), j)
<1> DEFINE r == Resolved(j)
<1>0. j \in JobType
  BY DEF Walkable
<1>1. CASE r = Idle
  BY <1>1, IdleSound DEF Continues
<1>2. CASE /\ r = [j EXCEPT !.stage = "read"]
           /\ j.op \in {"upload", "folder"} \/ (j.op = "move" /\ "recents" \notin {j.from, j.dir})
  <2>1. /\ r \in JobType /\ r.stage = "read" /\ r.op = j.op /\ r.id = j.id
        /\ r.name = j.name /\ r.todo = j.todo /\ r.from = j.from /\ r.dir = j.dir
    BY <1>0, <1>2 DEF JobType, Stages
  <2> HIDE DEF r
  <2>2. Shaped(r) /\ Owned(r)
    BY <1>2, <2>1 DEF Walkable, Shaped, Owned
  <2> QED
    BY <2>1, <2>2, UnwrittenSound DEF Continues, r
<1>3. CASE /\ j.op = "delete"
           /\ r = [j EXCEPT !.stage = "recents", !.from = j.dir,
                            !.dir = IF j.in_trash THEN None ELSE "trash"]
  <2>1. "trash" \in Ids
    BY DEF Ids, Dirs
  <2>2. /\ r \in JobType /\ r.stage = "recents" /\ r.op = j.op /\ r.id = j.id
        /\ r.todo = j.todo /\ r.dir \in {"trash", None}
    BY <1>0, <1>3, <2>1 DEF JobType, Stages, Walkable
  <2> HIDE DEF r
  <2>3. Shaped(r) /\ Owned(r)
    BY <1>3, <2>2 DEF Walkable, Shaped, Owned
  <2> QED
    BY <2>2, <2>3, UnwrittenSound DEF Continues, r
<1> QED
  BY <1>1, <1>2, <1>3 DEF Resolved, Walkable

LEMMA WalkedSound ==
  ASSUME NEW j, Walkable(j)
  PROVE  Sound(Walked(j)) /\ Continues(Walked(j), j)
<1>0. j \in JobType /\ "root" \in Ids
  BY DEF Walkable, Ids, Dirs
<1>1. CASE j.path # <<>>
  <2>1. Walked(j) = j
    BY <1>1 DEF Walked
  <2>2. Shaped(j) /\ Owned(j)
    BY <1>1 DEF Walkable, Shaped, Owned
  <2> QED
    BY <2>1, <2>2, UnwrittenSound DEF Continues, Walkable
<1>2. CASE j.path = <<>> /\ ~ (j.op = "move" /\ j.from = None)
  <2>1. j.op = "move" => j.from \in Ids
    BY <1>0, <1>2 DEF JobType
  <2> QED
    BY <1>2, <2>1, ResolvedSound DEF Walked
<1>3. CASE j.path = <<>> /\ j.op = "move" /\ j.from = None
  <2>1. CASE j.next_path = <<>>
    <3> DEFINE x == [j EXCEPT !.from = j.dir, !.dir = "root"]
    <3>1. Walkable(x) /\ x.from \in Ids /\ x.op = j.op /\ x.id = j.id
      BY <1>0, <1>3 DEF Walkable, JobType
    <3>2. Walked(j) = Resolved(x)
      BY <1>3, <2>1 DEF Walked
    <3> HIDE DEF x
    <3> QED
      BY <3>1, <3>2, ResolvedSound DEF Continues
  <2>2. CASE j.next_path # <<>>
    <3> DEFINE x == [j EXCEPT !.from = j.dir, !.dir = "root", !.path = j.next_path,
                              !.next_path = <<>>]
    <3>1. /\ x \in JobType /\ x.stage = "walk" /\ x.todo = <<>> /\ x.op = "move"
          /\ x.id = j.id /\ x.id \in Ids /\ x.dir \in Ids /\ x.path # <<>>
      BY <1>0, <1>3, <2>2 DEF Walkable, JobType
    <3>2. Walked(j) = x
      BY <1>3, <2>2 DEF Walked
    <3> HIDE DEF x
    <3>3. Shaped(x) /\ Owned(x)
      BY <3>1 DEF Shaped, Owned
    <3> QED
      BY <1>3, <3>1, <3>2, <3>3, UnwrittenSound DEF Continues
  <2> QED
    BY <2>1, <2>2
<1> QED
  BY <1>1, <1>2, <1>3

LEMMA WalkingTypes ==
  ASSUME NEW op \in Ops, NEW path \in Paths
  PROVE  /\ Walking(op, path) \in JobType /\ Walking(op, path).stage = "walk"
         /\ Walking(op, path).op = op /\ Walking(op, path).dir \in Ids
         /\ Walking(op, path).todo = <<>>
<1>1. path \in Seq(DirNames) /\ "root" \in Ids
  BY DEF Ids, Dirs
<1>2. Idle \in JobType /\ Idle.todo = <<>>
  BY IdleSound DEF Idle
<1> QED
  BY <1>1, <1>2 DEF Walking, JobType, Stages

(* What Starts changes besides the locals.                                 *)
LEMMA StartsFrame ==
  ASSUME FilesInv, NEW t, NEW j, Starts(t, j)
  PROVE  /\ Goes(t, j) /\ UNCHANGED <<columns, history>>
         /\ requests' \in Nat /\ faults' \in Nat /\ drawn \in SUBSET NewIds
BY DEF Starts, FilesInv, RowInv, ColumnTypes

LEMMA AddKeeps ==
  ASSUME FilesInv, NEW t \in Threads, NEW i \in Ids, NEW path \in Paths, NEW n \in Names,
         upload(t, i, path, n) \/ add_folder(t, i, path, n)
  PROVE  FilesInv'
<1>1. PICK op \in {"upload", "folder"} :
        /\ i \in NewIds \ drawn /\ drawn' = drawn \cup {i}
        /\ n \in IF op = "upload" THEN FileNames ELSE FolderNames
        /\ Starts(t, Walked([Walking(op, path) EXCEPT !.id = i, !.name = n]))
  BY DEF upload, add_folder
<1> DEFINE j == [Walking(op, path) EXCEPT !.id = i, !.name = n]
<1>2. metadata[i] # "file"
  BY <1>1 DEF FilesInv, RowInv, FilesDrawn
<1>3. /\ j \in JobType /\ j.stage = "walk" /\ j.todo = <<>> /\ j.op = op /\ j.id = i
      /\ j.name = n /\ j.dir \in Ids
  <2> DEFINE w == Walking(op, path)
  <2>1. w \in JobType /\ w.stage = "walk" /\ w.op = op /\ w.dir \in Ids /\ w.todo = <<>>
    BY WalkingTypes DEF Ops
  <2>2. j = [w EXCEPT !.id = i, !.name = n]
    OBVIOUS
  <2> HIDE DEF w, j
  <2> QED
    BY <2>1, <2>2 DEF JobType
<1> HIDE DEF j
<1>4. Walkable(j)
  BY <1>1, <1>2, <1>3 DEF Walkable
<1>5. Sound(Walked(j)) /\ Continues(Walked(j), j) /\ Starts(t, Walked(j))
  BY <1>1, <1>4, WalkedSound DEF j
<1>6. Adds(Walked(j)) => Walked(j).id \in drawn' /\ Walked(j).id \notin drawn
  BY <1>1, <1>3, <1>5 DEF Continues, Adds, Idle
<1>7. drawn' \subseteq NewIds
  BY <1>1 DEF FilesInv, RowInv, ColumnTypes
<1> QED
  BY <1>1, <1>5, <1>6, <1>7, StartsFrame, ReadStep

LEMMA WalkKeepsId ==
  ASSUME FilesInv, NEW t \in Threads, NEW j, Walkable(j), ~ Adds(j), Starts(t, Walked(j)),
         UNCHANGED drawn
  PROVE  FilesInv'
<1>1. Sound(Walked(j)) /\ ~ Adds(Walked(j))
  BY WalkedSound DEF Continues, Adds, Idle
<1> QED
  BY <1>1, StartsFrame, ReadStep

LEMMA MoveDeleteKeeps ==
  ASSUME FilesInv, NEW t \in Threads, NEW i \in Ids, NEW path \in Paths, NEW new_path \in Paths,
         move_file(t, i, path, new_path) \/ delete_file(t, i, path)
  PROVE  FilesInv'
<1>1. CASE move_file(t, i, path, new_path)
  <2> DEFINE j == [Walking("move", path) EXCEPT !.id = i, !.next_path = new_path]
  <2>1. new_path \in Seq(DirNames) /\ "move" \in Ops
    BY DEF Ops
  <2>2. /\ j \in JobType /\ j.stage = "walk" /\ j.todo = <<>> /\ j.op = "move"
        /\ j.id \in Ids /\ j.dir \in Ids
    <3> DEFINE w == Walking("move", path)
    <3>1. w \in JobType /\ w.stage = "walk" /\ w.op = "move" /\ w.dir \in Ids /\ w.todo = <<>>
      BY <2>1, WalkingTypes
    <3>2. j = [w EXCEPT !.id = i, !.next_path = new_path]
      OBVIOUS
    <3> HIDE DEF w, j
    <3> QED
      BY <2>1, <3>1, <3>2 DEF JobType
  <2>3. Starts(t, Walked(j)) /\ UNCHANGED drawn
    BY <1>1 DEF move_file
  <2> HIDE DEF j
  <2>4. Walkable(j) /\ ~ Adds(j)
    BY <2>2 DEF Walkable, Adds
  <2> QED
    BY <2>3, <2>4, WalkKeepsId
<1>2. CASE delete_file(t, i, path)
  <2> DEFINE j == [Walking("delete", path) EXCEPT !.id = i, !.in_trash = InTrash(path)]
  <2>1. InTrash(path) \in BOOLEAN /\ "delete" \in Ops
    BY DEF Ops, InTrash
  <2>2. /\ j \in JobType /\ j.stage = "walk" /\ j.todo = <<>> /\ j.op = "delete"
        /\ j.id \in Ids /\ j.dir \in Ids
    <3> DEFINE w == Walking("delete", path)
    <3>1. w \in JobType /\ w.stage = "walk" /\ w.op = "delete" /\ w.dir \in Ids /\ w.todo = <<>>
      BY <2>1, WalkingTypes
    <3>2. j = [w EXCEPT !.id = i, !.in_trash = InTrash(path)]
      OBVIOUS
    <3> HIDE DEF w, j
    <3> QED
      BY <2>1, <3>1, <3>2 DEF JobType
  <2>3. Starts(t, Walked(j)) /\ UNCHANGED drawn
    BY <1>2 DEF delete_file
  <2> HIDE DEF j
  <2>4. Walkable(j) /\ ~ Adds(j)
    BY <2>2 DEF Walkable, Adds
  <2> QED
    BY <2>3, <2>4, WalkKeepsId
<1> QED
  BY <1>1, <1>2

(* One PUT of a name: a folder that is renamed has a list.                 *)
LEMMA RenameKeeps ==
  ASSUME FilesInv, NEW t \in Threads, NEW i \in Ids, NEW n \in Names, rename(t, i, n)
  PROVE  FilesInv'
<1> DEFINE p == PutColumn("name", i, n)
           j == [Idle EXCEPT !.op = "rename", !.stage = "put", !.id = i, !.name = n,
                             !.todo = <<p>>]
<1>1. /\ p \in PutType /\ p.col = "name" /\ p.id = i /\ p.name = n
  BY DEF PutColumn, PutType
<1> HIDE DEF p
<1>2. Idle \in JobType /\ Idle.stage = "idle"
  BY IdleSound DEF Idle
<1>3. /\ j \in JobType /\ j.op = "rename" /\ j.stage = "put" /\ j.id = i /\ j.todo = <<p>>
  <2>1. <<p>> \in Seq(PutType)
    BY <1>1
  <2> QED
    BY <1>2, <2>1 DEF JobType, Ops, Stages
<1>4. n \in DirNames => i \in stored
  <2>1. CASE metadata[i] = "file"
    BY <2>1 DEF rename
  <2>2. CASE metadata[i] # "file"
    <3>1. metadata[i] = "folder"
      BY <2>2 DEF rename, Shown, FilesInv, RowInv, ColumnTypes, Kinds
    <3> QED
      BY <3>1 DEF FilesInv, RowInv, FoldersList
  <2> QED
    BY <2>1, <2>2
<1>5. Starts(t, j) /\ UNCHANGED drawn
  BY DEF rename, p
<1> HIDE DEF j
<1>6. Shaped(j) /\ Owned(j)
  BY <1>3 DEF Shaped, Owned
<1>7. PutsSound(j)
  BY <1>1, <1>3, <1>4 DEF PutsSound, PutSound, MakesFolder, Backed
<1>8. Sound(j) /\ ~ Adds(j)
  BY <1>3, <1>6, <1>7 DEF Sound, Adds
<1> QED
  BY <1>5, <1>8, StartsFrame, ReadStep

LEMMA OnEntryKeeps ==
  ASSUME FilesInv, NEW t \in Threads, NEW i \in Ids, NEW op, OnEntry(t, i, op)
  PROVE  FilesInv'
<1> DEFINE j == [Idle EXCEPT !.op = op, !.stage = "read", !.id = i]
<1>1. op \in {"download", "star"} /\ Starts(t, j) /\ UNCHANGED drawn
  BY DEF OnEntry
<1>2. Idle \in JobType /\ Idle.todo = <<>>
  BY IdleSound DEF Idle
<1>3. j \in JobType /\ j.op = op /\ j.stage = "read" /\ j.id = i /\ j.todo = <<>>
  BY <1>1, <1>2 DEF JobType, Ops, Stages
<1> HIDE DEF j
<1>4. Shaped(j) /\ Owned(j) /\ ~ Adds(j)
  BY <1>1, <1>3 DEF Shaped, Owned, Adds
<1>5. Sound(j)
  BY <1>3, <1>4, UnwrittenSound
<1> QED
  BY <1>1, <1>4, <1>5, StartsFrame, ReadStep

LEMMA SignupKeeps ==
  ASSUME FilesInv, NEW t \in Threads, signup(t)
  PROVE  FilesInv'
<1> DEFINE j == [Idle EXCEPT !.op = "signup", !.stage = "exists"]
<1>1. Goes(t, j) /\ UNCHANGED <<columns, drawn, faults, history>> /\ requests' = requests + 1
  BY DEF signup
<1>2. Idle \in JobType /\ Idle.todo = <<>>
  BY IdleSound DEF Idle
<1>3. j \in JobType /\ j.op = "signup" /\ j.stage = "exists" /\ j.todo = <<>>
  BY <1>2 DEF JobType, Ops, Stages
<1> HIDE DEF j
<1>4. Shaped(j) /\ Owned(j) /\ ~ Adds(j)
  BY <1>3 DEF Shaped, Owned, Adds
<1>5. Sound(j)
  BY <1>3, <1>4, UnwrittenSound
<1>6. requests' \in Nat /\ faults' \in Nat /\ drawn' \subseteq NewIds
  BY <1>1 DEF FilesInv, RowInv, ColumnTypes
<1> QED
  BY <1>1, <1>4, <1>5, <1>6, ReadStep

-----------------------------------------------------------------------------
(* Reads.                                                                  *)
LEMMA ReadsKeeps ==
  ASSUME FilesInv, NEW t \in Threads, NEW j, Goes(t, j), Reads, Sound(j), Continues(j, job[t])
  PROVE  FilesInv'
<1>1. /\ UNCHANGED <<columns, history>> /\ requests' \in Nat /\ faults' \in Nat
      /\ drawn' = drawn /\ drawn' \subseteq NewIds
  BY DEF Reads, FilesInv, RowInv, ColumnTypes
<1>2. Adds(j) => Adds(job[t]) /\ j.id = job[t].id /\ j.id \in drawn'
  BY <1>1 DEF Continues, Adds, Idle, FilesInv, OneOwner
<1> QED
  BY <1>1, <1>2, ReadStep

LEMMA FailedReadKeeps ==
  ASSUME FilesInv, NEW t \in Threads, NEW j, Goes(t, j), Sound(j), Continues(j, job[t]),
         UNCHANGED <<columns, history, drawn, requests>>, faults' \in Nat
  PROVE  FilesInv'
<1>1. requests' \in Nat /\ drawn' \subseteq NewIds
  BY DEF FilesInv, RowInv, ColumnTypes
<1>2. Adds(j) => Adds(job[t]) /\ j.id = job[t].id /\ j.id \in drawn'
  BY DEF Continues, Adds, Idle, FilesInv, OneOwner
<1> QED
  BY <1>1, <1>2, ReadStep

LEMMA EndsKeeps ==
  ASSUME FilesInv, NEW t \in Threads, Ends(t), Reads
  PROVE  FilesInv'
BY IdleSound, ReadsKeeps DEF Ends, Continues

LEMMA JobFacts ==
  ASSUME FilesInv, NEW t \in Threads
  PROVE  /\ job[t] \in JobType /\ Sound(job[t]) /\ Shaped(job[t]) /\ Owned(job[t])
         /\ PutsSound(job[t])
         /\ Adds(job[t]) => job[t].id \in NewIds
BY DEF FilesInv, JobsSound, Sound, OneOwner, RowInv, ColumnTypes

LEMMA RecentsListable ==
  ASSUME FilesInv
  PROVE  \A x \in content["recents"] : Listable(x)
BY DEF FilesInv, RowInv, RecentsComplete, Listable

LEMMA WritingSound ==
  ASSUME NEW j \in JobType, NEW stage \in {"put", "put_recents"}, NEW todo \in Seq(PutType)
  PROVE  LET x == [j EXCEPT !.stage = stage, !.todo = todo]
         IN  /\ x \in JobType /\ x.stage = stage /\ x.todo = todo /\ x.op = j.op
             /\ x.id = j.id /\ x.dir = j.dir /\ x.from = j.from /\ x.name = j.name
             /\ x.again = j.again
BY DEF JobType, Stages

LEMMA PutListTypes ==
  ASSUME NEW d \in Ids, NEW was \in SUBSET Ids, NEW list \in SUBSET Ids
  PROVE  LET p == PutList(d, was, list)
         IN  /\ p \in PutType /\ p.col = "content" /\ p.id = d /\ p.was = was
             /\ p.list = list
BY DEF PutList, PutType

LEMMA PutColumnTypes ==
  ASSUME NEW c \in {"password", "name", "metadata"}, NEW i \in Ids, NEW n \in Names \cup {None}
  PROVE  LET p == PutColumn(c, i, n)
         IN  p \in PutType /\ p.col = c /\ p.id = i /\ p.name = n
BY DEF PutColumn, PutType

LEMMA WalkKeeps ==
  ASSUME FilesInv, NEW t \in Threads, Walk(t)
  PROVE  FilesInv'
<1> DEFINE j == job[t]
<1>1. Reads
  BY DEF Walk
<1>2. CASE Ends(t)
  BY <1>1, <1>2, EndsKeeps
<1>3. CASE \E c \in content[j.dir] : Goes(t, Walked([j EXCEPT !.path = Tail(@), !.dir = c]))
  <2>1. PICK c \in content[j.dir] : Goes(t, Walked([j EXCEPT !.path = Tail(j.path), !.dir = c]))
    BY <1>3
  <2>2. /\ j \in JobType /\ j.stage = "walk" /\ j.path # <<>> /\ j.dir \in Ids /\ j.id \in Ids
        /\ j.op \in {"upload", "folder", "delete", "move"} /\ j.todo = <<>>
        /\ j.op = "upload" => j.name \in FileNames
        /\ j.op = "folder" => j.name \in FolderNames /\ metadata[j.id] # "file"
    BY JobFacts DEF Walk, At, Shaped, Owned
  <2>3. c \in Ids
    BY <2>1, <2>2 DEF FilesInv, RowInv, ColumnTypes
  <2> DEFINE x == [j EXCEPT !.path = Tail(j.path), !.dir = c]
  <2> HIDE DEF j
  <2>4. j.path \in Seq(DirNames)
    BY <2>2 DEF JobType
  <2>5. Tail(j.path) \in Seq(DirNames)
    BY <2>2, <2>4
  <2>6. /\ x \in JobType /\ x.stage = j.stage /\ x.op = j.op /\ x.id = j.id /\ x.dir = c
        /\ x.todo = j.todo /\ x.name = j.name
    BY <2>2, <2>3, <2>5 DEF JobType
  <2> HIDE DEF x
  <2>7. Walkable(x)
    BY <2>2, <2>3, <2>6 DEF Walkable
  <2>8. Sound(Walked(x)) /\ Continues(Walked(x), j)
    BY <2>6, <2>7, WalkedSound DEF Continues
  <2> QED
    BY <1>1, <2>1, <2>8, ReadsKeeps DEF x, j
<1> QED
  BY <1>2, <1>3 DEF Walk

(* register_new_user puts the lists before it names them.                  *)
LEMMA SignupPutsTypes ==
  /\ SignupPuts \in Seq(PutType) /\ Len(SignupPuts) = 8 /\ SignupPuts # <<>>
  /\ SignupPuts[1].col = "password"
  /\ \A k \in 2 .. 4 : SignupPuts[k].col = "content" /\ (SignupPuts[k].id = "recents" => k = 4)
  /\ SignupPuts[2].id = "root" /\ SignupPuts[2].list = {"trash", "recents"}
  /\ SignupPuts[3].id = "trash" /\ SignupPuts[3].list = {}
  /\ SignupPuts[4].id = "recents" /\ SignupPuts[4].list = {}
  /\ \A k \in {5, 6} : SignupPuts[k].col = "name" /\ SignupPuts[k].name \in DirNames
  /\ \A k \in {7, 8} : SignupPuts[k].col = "metadata"
  /\ \A k \in {5, 7} : SignupPuts[k].id = "trash"
  /\ \A k \in {6, 8} : SignupPuts[k].id = "recents"
<1>1. /\ {"root", "trash", "recents"} \subseteq Ids
      /\ {"Trash", "Recents"} \subseteq DirNames /\ DirNames \subseteq Names
  BY DEF Ids, Dirs, DirNames, Names
<1> DEFINE a == PutColumn("password", "root", None)
           b == PutList("root", {}, {"trash", "recents"})
           c == PutList("trash", {}, {})
           d == PutList("recents", {}, {})
           e == PutColumn("name", "trash", "Trash")
           f == PutColumn("name", "recents", "Recents")
           g == PutColumn("metadata", "trash", None)
           h == PutColumn("metadata", "recents", None)
<1>2. a \in PutType /\ a.col = "password"
  BY <1>1, PutColumnTypes
<1>3. /\ b \in PutType /\ b.col = "content" /\ b.id = "root"
      /\ b.list = {"trash", "recents"}
      /\ c \in PutType /\ c.col = "content" /\ c.id = "trash" /\ c.list = {}
      /\ d \in PutType /\ d.col = "content" /\ d.id = "recents" /\ d.list = {}
  BY <1>1 DEF PutList, PutType
<1>4. /\ e \in PutType /\ e.col = "name" /\ e.id = "trash" /\ e.name = "Trash"
      /\ f \in PutType /\ f.col = "name" /\ f.id = "recents" /\ f.name = "Recents"
  BY <1>1 DEF PutColumn, PutType
<1>5. /\ g \in PutType /\ g.col = "metadata" /\ g.id = "trash"
      /\ h \in PutType /\ h.col = "metadata" /\ h.id = "recents"
  BY <1>1 DEF PutColumn, PutType
<1>6. SignupPuts = <<a, b, c, d, e, f, g, h>>
  BY DEF SignupPuts
<1> HIDE DEF a, b, c, d, e, f, g, h
<1>7. SignupPuts \in Seq(PutType) /\ Len(SignupPuts) = 8 /\ SignupPuts # <<>>
  BY <1>2, <1>3, <1>4, <1>5, <1>6
<1>8. /\ SignupPuts[1] = a /\ SignupPuts[2] = b /\ SignupPuts[3] = c /\ SignupPuts[4] = d
      /\ SignupPuts[5] = e /\ SignupPuts[6] = f /\ SignupPuts[7] = g /\ SignupPuts[8] = h
  BY <1>6
<1>9. \A k \in 2 .. 4 : SignupPuts[k].col = "content" /\ (SignupPuts[k].id = "recents" => k = 4)
  BY <1>3, <1>8
<1>10. /\ SignupPuts[2].id = "root" /\ SignupPuts[2].list = {"trash", "recents"}
       /\ SignupPuts[3].id = "trash" /\ SignupPuts[3].list = {}
       /\ SignupPuts[4].id = "recents" /\ SignupPuts[4].list = {}
  BY <1>3, <1>8
<1>11. /\ \A k \in {5, 6} : SignupPuts[k].col = "name" /\ SignupPuts[k].name \in DirNames
       /\ SignupPuts[5].id = "trash" /\ SignupPuts[6].id = "recents"
  BY <1>1, <1>4, <1>8
<1>12. /\ \A k \in {7, 8} : SignupPuts[k].col = "metadata"
       /\ SignupPuts[7].id = "trash" /\ SignupPuts[8].id = "recents"
  BY <1>5, <1>8
<1>13. SignupPuts[1].col = "password"
  BY <1>2, <1>8
<1> HIDE DEF SignupPuts
<1> QED
  BY <1>7, <1>9, <1>10, <1>11, <1>12, <1>13

LEMMA RegisteringSound ==
  ASSUME NEW j \in JobType, j.op = "signup"
  PROVE  Sound(Registering(j)) /\ Continues(Registering(j), j)
<1> DEFINE x == [j EXCEPT !.stage = "put", !.todo = SignupPuts]
<1>2. /\ x \in JobType /\ x.stage = "put" /\ x.todo = SignupPuts /\ x.op = "signup"
      /\ x.id = j.id
  <2>1. SignupPuts \in Seq(PutType) /\ "put" \in Stages
    BY SignupPutsTypes DEF Stages
  <2>2. DOMAIN j = DOMAIN x /\ x.stage = "put" /\ x.todo = SignupPuts
    BY DEF JobType
  <2>3. x.op = "signup" /\ x.id = j.id
    BY DEF JobType
  <2>4. x \in JobType
    BY <2>1 DEF JobType
  <2> QED
    BY <2>2, <2>3, <2>4
<1> HIDE DEF x
<1>3. Shaped(x) /\ Owned(x)
  BY <1>2, SignupPutsTypes DEF Shaped, Owned
<1>4. ASSUME NEW k \in 1 .. Len(x.todo)
      PROVE  PutSound(x, x.todo[k]) /\ (MakesFolder(x, x.todo[k]) => Backed(x, k))
  <2> USE DEF PutSound, MakesFolder, Backed
  <2>1. "trash" \in Dirs /\ "recents" \in Dirs /\ None \notin DirNames
    BY DEF Dirs, Names
  <2>2. k \in 1 .. 8
    BY <1>2, SignupPutsTypes
  <2>3. CASE k \in 1 .. 4
    BY <1>2, <2>2, <2>3, SignupPutsTypes
  <2>4. CASE k \in {5, 7}
    <3>1. 3 \in 1 .. k - 1 /\ x.todo[3].col = "content" /\ x.todo[3].id = x.todo[k].id
      BY <1>2, <2>4, SignupPutsTypes
    <3>2. PutSound(x, x.todo[k])
      BY <1>2, <2>1, <2>4, SignupPutsTypes
    <3> QED
      BY <3>1, <3>2
  <2>5. CASE k \in {6, 8}
    <3>1. 4 \in 1 .. k - 1 /\ x.todo[4].col = "content" /\ x.todo[4].id = x.todo[k].id
      BY <1>2, <2>5, SignupPutsTypes
    <3>2. PutSound(x, x.todo[k])
      BY <1>2, <2>1, <2>5, SignupPutsTypes
    <3> QED
      BY <3>1, <3>2
  <2> QED
    BY <2>2, <2>3, <2>4, <2>5
<1>5. Sound(x)
  BY <1>3, <1>4 DEF Sound, PutsSound
<1> QED
  BY <1>2, <1>5 DEF Continues, Registering, x

LEMMA CheckUserKeeps ==
  ASSUME FilesInv, NEW t \in Threads, check_user_exists(t)
  PROVE  FilesInv'
<1>1. job[t] \in JobType /\ job[t].op = "signup"
  BY JobFacts DEF check_user_exists, At, Shaped
<1>2. CASE Ends(t)
  BY <1>2, EndsKeeps DEF check_user_exists
<1>3. CASE Goes(t, Registering(job[t]))
  BY <1>1, <1>3, RegisteringSound, ReadsKeeps DEF check_user_exists
<1> QED
  BY <1>2, <1>3 DEF check_user_exists

LEMMA FourPuts ==
  ASSUME NEW S, NEW p \in S, NEW s \in Seq(S), Len(s) = 3
  PROVE  LET q == <<p>> \o s
         IN  /\ q \in Seq(S) /\ Len(q) = 4 /\ q # <<>>
             /\ q[1] = p /\ q[2] = s[1] /\ q[3] = s[2] /\ q[4] = s[3]
<1> DEFINE o == <<p>>
<1>1. o \in Seq(S) /\ Len(o) = 1 /\ o[1] = p
  OBVIOUS
<1> HIDE DEF o
<1>2. /\ o \o s \in Seq(S) /\ Len(o \o s) = Len(o) + Len(s)
      /\ \A i \in 1 .. Len(o) + Len(s) :
           (o \o s)[i] = IF i <= Len(o) THEN o[i] ELSE s[i - Len(o)]
  BY <1>1, ConcatProperties, SMTT(30)
<1>3. Len(o \o s) = 4 /\ o \o s # <<>>
  BY <1>1, <1>2
<1> QED
  BY <1>1, <1>2, <1>3 DEF o

(* The PUTs of a new entry, as ReadParent puts them together.              *)
LEMMA EntryPutsTypes ==
  ASSUME NEW j \in JobType, NEW p \in PutType, j.id \in Ids, Adds(j)
  PROVE  LET q == <<p>> \o EntryPuts(j)
             n == IF j.op = "upload" THEN 2 ELSE 3
             l == IF j.op = "upload" THEN 4 ELSE 2
         IN  /\ q \in Seq(PutType) /\ Len(q) = 4 /\ q # <<>> /\ q[1] = p
             /\ q[n].col = "name" /\ q[n].id = j.id /\ q[n].name = j.name
             /\ q[n + 1].col = "metadata" /\ q[n + 1].id = j.id
             /\ q[l].col = "content" /\ q[l].id = j.id /\ q[l].was = {} /\ q[l].list = {}
<1> DEFINE a == PutColumn("name", j.id, j.name)
           b == PutColumn("metadata", j.id, None)
           c == PutList(j.id, {}, {})
<1>1. a \in PutType /\ a.col = "name" /\ a.id = j.id /\ a.name = j.name
  BY DEF PutColumn, PutType, JobType
<1>2. b \in PutType /\ b.col = "metadata" /\ b.id = j.id
  BY DEF PutColumn, PutType
<1>3. c \in PutType /\ c.col = "content" /\ c.id = j.id /\ c.was = {} /\ c.list = {}
  BY DEF PutList, PutType
<1>4. EntryPuts(j) = IF j.op = "upload" THEN <<a, b, c>> ELSE <<c, a, b>>
  BY DEF EntryPuts
<1> HIDE DEF a, b, c
<1> DEFINE e == EntryPuts(j)
<1>5. CASE j.op = "upload"
  <2>1. e \in Seq(PutType) /\ Len(e) = 3 /\ e[1] = a /\ e[2] = b /\ e[3] = c
    BY <1>1, <1>2, <1>3, <1>4, <1>5
  <2> HIDE DEF e
  <2> DEFINE q == <<p>> \o e
  <2>2. /\ q \in Seq(PutType) /\ Len(q) = 4 /\ q # <<>>
        /\ q[1] = p /\ q[2] = a /\ q[3] = b /\ q[4] = c
    BY <2>1, FourPuts
  <2> HIDE DEF q
  <2> QED
    BY <1>1, <1>2, <1>3, <1>5, <2>2 DEF q, e
<1>6. CASE j.op # "upload"
  <2>1. e \in Seq(PutType) /\ Len(e) = 3 /\ e[1] = c /\ e[2] = a /\ e[3] = b
    BY <1>1, <1>2, <1>3, <1>4, <1>6
  <2> HIDE DEF e
  <2> DEFINE q == <<p>> \o e
  <2>2. /\ q \in Seq(PutType) /\ Len(q) = 4 /\ q # <<>>
        /\ q[1] = p /\ q[2] = c /\ q[3] = a /\ q[4] = b
    BY <2>1, FourPuts
  <2> HIDE DEF q
  <2> QED
    BY <1>1, <1>2, <1>3, <1>6, <2>2 DEF q, e
<1> QED
  BY <1>5, <1>6

LEMMA ParentReadSound ==
  ASSUME FilesInv, NEW t \in Threads, At(t, "read"), job[t].op \in {"upload", "folder"},
         job[t].dir \in stored
  PROVE  Sound(ParentRead(job[t])) /\ Continues(ParentRead(job[t]), job[t])
<1> DEFINE j == job[t]
           p == PutList(j.dir, content[j.dir], content[j.dir] \cup {j.id})
           q == <<p>> \o EntryPuts(j)
           x == [j EXCEPT !.stage = "put", !.todo = q]
<1>0. x = ParentRead(j) /\ j.dir \in stored
  BY DEF ParentRead
<1>1. /\ j \in JobType /\ j.stage = "read" /\ Adds(j) /\ j.id \in NewIds /\ j.id \in Ids
      /\ Shaped(j) /\ Owned(j)
  BY JobFacts DEF At, Adds, Ids
<1>2. j.dir \in Ids /\ content[j.dir] \in SUBSET Ids
  BY DEF FilesInv, RowInv, ColumnTypes
<1>3. /\ p \in PutType /\ p.col = "content" /\ p.id = j.dir /\ p.was = content[j.dir]
      /\ p.list = content[j.dir] \cup {j.id}
  BY <1>1, <1>2, PutListTypes
<1>4. p.id = "recents" => \A y \in p.list : Listable(y) \/ y = j.id
  BY <1>3, RecentsListable
<1> HIDE DEF j, p
<1>5. /\ q \in Seq(PutType) /\ Len(q) = 4 /\ q # <<>> /\ q[1] = p
      /\ j.op = "upload" =>
           /\ q[2].col = "name" /\ q[2].id = j.id /\ q[2].name = j.name
           /\ q[3].col = "metadata" /\ q[3].id = j.id
           /\ q[4].col = "content" /\ q[4].id = j.id /\ q[4].was = {} /\ q[4].list = {}
      /\ j.op = "folder" =>
           /\ q[2].col = "content" /\ q[2].id = j.id /\ q[2].was = {} /\ q[2].list = {}
           /\ q[3].col = "name" /\ q[3].id = j.id /\ q[3].name = j.name
           /\ q[4].col = "metadata" /\ q[4].id = j.id
  BY <1>1, <1>3, EntryPutsTypes
<1> HIDE DEF q
<1>6. /\ x \in JobType /\ x.stage = "put" /\ x.todo = q /\ x.op = j.op /\ x.id = j.id
      /\ x.name = j.name
  <2>1. q \in Seq(PutType) /\ j \in JobType
    BY <1>1, <1>5
  <2> QED
    BY <2>1 DEF JobType, Stages
<1> HIDE DEF x
<1>7. Shaped(x)
  BY <1>1, <1>5, <1>6 DEF Shaped
<1>8. Owned(x)
  <2>1. ASSUME j.op = "upload", NEW c \in {"content", "name", "metadata"}
        PROVE  Pending(x, c)
    <3>1. 2 \in 1 .. Len(x.todo) /\ 3 \in 1 .. Len(x.todo) /\ 4 \in 1 .. Len(x.todo)
      <4>1. Len(x.todo) = 4
        BY <1>5, <1>6
      <4> QED
        BY <4>1
    <3> QED
      BY <1>5, <1>6, <2>1, <3>1 DEF Pending
  <2> QED
    BY <1>1, <1>6, <2>1 DEF Owned, Adds
<1>9. ASSUME NEW k \in 1 .. Len(x.todo)
      PROVE  PutSound(x, x.todo[k]) /\ (MakesFolder(x, x.todo[k]) => Backed(x, k))
  <2>1. k \in 1 .. 4 /\ j.op \in {"upload", "folder"}
    BY <1>1, <1>5, <1>6 DEF Adds
  <2>2. /\ j.id # "recents" /\ j.name # None
        /\ j.op = "upload" => j.name \notin DirNames
    BY <1>1, <2>1 DEF Owned, Dirs, Names, DirNames
  <2>3. CASE k = 1
    BY <1>3, <1>4, <1>5, <1>6, <2>1, <2>2, <2>3 DEF PutSound, MakesFolder
  <2>4. CASE j.op = "upload" /\ k \in 2 .. 4
    BY <1>5, <1>6, <2>2, <2>4 DEF PutSound, MakesFolder
  <2>5. CASE j.op = "folder" /\ k \in 2 .. 4
    <3>1. PutSound(x, x.todo[k])
      BY <1>5, <1>6, <2>2, <2>5 DEF PutSound
    <3>2. k = 2 \/ Backed(x, k)
      <4>1. k # 2 => 2 \in 1 .. k - 1 /\ x.todo[2].id = x.todo[k].id /\ x.todo[2].col = "content"
        BY <1>5, <1>6, <2>5
      <4> QED
        BY <4>1 DEF Backed
    <3>3. k = 2 => ~ MakesFolder(x, x.todo[k])
      BY <1>5, <1>6, <2>5 DEF MakesFolder
    <3> QED
      BY <3>1, <3>2, <3>3
  <2> QED
    BY <2>1, <2>3, <2>4, <2>5
<1>10. Sound(x)
  BY <1>7, <1>8, <1>9 DEF Sound, PutsSound
<1> QED
  BY <1>0, <1>6, <1>10 DEF Continues, j

LEMMA ReadParentKeeps ==
  ASSUME FilesInv, NEW t \in Threads, ReadParent(t)
  PROVE  FilesInv'
<1>1. At(t, "read") /\ job[t].op \in {"upload", "folder"} /\ Reads
  BY DEF ReadParent
<1>2. CASE Ends(t)
  BY <1>1, <1>2, EndsKeeps
<1>3. CASE job[t].dir \in stored /\ Goes(t, ParentRead(job[t]))
  BY <1>1, <1>3, ParentReadSound, ReadsKeeps
<1> QED
  BY <1>2, <1>3 DEF ReadParent

LEMMA OverlookNameKeeps ==
  ASSUME FilesInv, NEW t \in Threads, OverlookName(t)
  PROVE  FilesInv'
<1>1. /\ At(t, "read") /\ job[t].op \in {"upload", "folder"} /\ job[t].dir \in stored
      /\ Goes(t, ParentRead(job[t])) /\ UNCHANGED <<columns, drawn, requests, history>>
  BY DEF OverlookName
<1>2. faults' \in Nat
  BY DEF OverlookName, Fault, FilesInv, RowInv, ColumnTypes
<1> QED
  BY <1>1, <1>2, ParentReadSound, FailedReadKeeps

(* A request that goes on to make one PUT.                                 *)
LEMMA OnePut ==
  ASSUME FilesInv, NEW t \in Threads, Reads, NEW stage \in {"put", "put_recents"},
         NEW p \in PutType, Shaped(job[t]),
         Goes(t, [job[t] EXCEPT !.stage = stage, !.todo = <<p>>]),
         LET x == [job[t] EXCEPT !.stage = stage, !.todo = <<p>>]
         IN  Owned(x) /\ PutSound(x, p) /\ ~ MakesFolder(x, p),
         stage = "put_recents" => job[t].op \in {"upload", "download", "delete"}
  PROVE  FilesInv'
<1> DEFINE j == job[t]
           x == [j EXCEPT !.stage = stage, !.todo = <<p>>]
<1>1. j \in JobType /\ (j.op \notin {"none", "signup"} => j.id \in Ids)
  BY DEF Shaped
<1>2. <<p>> \in Seq(PutType) /\ <<p>> # <<>> /\ Len(<<p>>) = 1 /\ <<p>>[1] = p
  OBVIOUS
<1>3. Goes(t, x) /\ Owned(x) /\ PutSound(x, p) /\ ~ MakesFolder(x, p)
  OBVIOUS
<1>4. stage = "put_recents" => j.op \in {"upload", "download", "delete"}
  OBVIOUS
<1> DEFINE q == <<p>>
<1>5. x = [j EXCEPT !.stage = stage, !.todo = q]
  OBVIOUS
<1> HIDE DEF j, q, x
<1>6. /\ x \in JobType /\ x.stage = stage /\ x.todo = q /\ x.op = j.op /\ x.id = j.id
  BY <1>1, <1>2, <1>5 DEF JobType, Stages, q
<1>7. Shaped(x)
  BY <1>1, <1>2, <1>4, <1>6 DEF Shaped, q
<1>8. PutsSound(x)
  BY <1>2, <1>3, <1>6 DEF PutsSound, q
<1> QED
  BY <1>3, <1>6, <1>7, <1>8, ReadsKeeps DEF Sound, Continues, j

LEMMA ReadEntryKeeps ==
  ASSUME FilesInv, NEW t \in Threads, ReadEntry(t)
  PROVE  FilesInv'
<1> DEFINE j == job[t]
           p == PutColumn("metadata", j.id, None)
           x == [j EXCEPT !.stage = "put", !.todo = <<p>>]
           y == [j EXCEPT !.stage = "recents"]
<1>1. j \in JobType /\ j.stage = "read" /\ Shaped(j) /\ Owned(j) /\ Reads
  BY JobFacts DEF ReadEntry, At
<1>2. CASE Ends(t)
  BY <1>1, <1>2, EndsKeeps
<1>3. CASE j.op = "download" /\ Complete(j.id) /\ Goes(t, y)
  <2> HIDE DEF j
  <2>1. y \in JobType /\ y.stage = "recents" /\ y.op = j.op /\ y.id = j.id /\ y.todo = j.todo
    BY <1>1 DEF JobType, Stages
  <2> HIDE DEF y
  <2>2. Shaped(y) /\ Owned(y)
    BY <1>1, <1>3, <2>1 DEF Shaped, Owned
  <2> QED
    BY <1>1, <1>3, <2>1, <2>2, UnwrittenSound, ReadsKeeps DEF Continues, j
<1>4. CASE j.op = "star" /\ Goes(t, x)
  <2>1. p \in PutType /\ p.col = "metadata" /\ p.id = j.id
    BY <1>1, <1>4, PutColumnTypes DEF Shaped
  <2>2. x.stage = "put" /\ x.op = j.op /\ x.id = j.id
    BY <1>1 DEF JobType
  <2>3. Goes(t, [job[t] EXCEPT !.stage = "put", !.todo = <<p>>])
    BY <1>4
  <2>4. Owned(x) /\ PutSound(x, p) /\ ~ MakesFolder(x, p)
    <3> HIDE DEF x, p, j
    <3> QED
      BY <1>4, <2>1, <2>2 DEF Owned, PutSound, MakesFolder
  <2> HIDE DEF p
  <2> QED
    BY <1>1, <2>1, <2>3, <2>4, OnePut
<1> QED
  BY <1>2, <1>3, <1>4 DEF ReadEntry

LEMMA ReadOldKeeps ==
  ASSUME FilesInv, NEW t \in Threads, ReadOld(t)
  PROVE  FilesInv'
<1> DEFINE j == job[t]
           p == PutList(j.from, content[j.from], content[j.from] \ {j.id})
           x == [j EXCEPT !.stage = "put", !.todo = <<p>>]
           y == [j EXCEPT !.stage = "read_new", !.old = content[j.from]]
<1>1. /\ j \in JobType /\ j.stage = "read" /\ Shaped(j) /\ Owned(j) /\ Reads
      /\ j.op \in {"move", "delete"} /\ j.id \in Ids
  BY JobFacts DEF ReadOld, At, Shaped
<1>2. CASE Ends(t)
  BY <1>1, <1>2, EndsKeeps
<1>3. ASSUME j.from \in stored
      PROVE  /\ j.from \in Ids /\ content[j.from] \in SUBSET Ids
             /\ j.from = "recents" => \A e \in content[j.from] : Listable(e)
  BY <1>3, RecentsListable DEF FilesInv, RowInv, ColumnTypes
<1>4. CASE j.from \in stored /\ Goes(t, y)
  <2>1. content[j.from] \in SUBSET Ids
    BY <1>3, <1>4
  <2>2. j.from = "recents" => \A e \in content[j.from] : Listable(e)
    BY <1>3, <1>4
  <2>3. j.from \in Ids
    BY <1>3, <1>4
  <2> HIDE DEF j
  <2>4. /\ y \in JobType /\ y.stage = "read_new" /\ y.op = j.op /\ y.id = j.id
        /\ y.todo = j.todo /\ y.from = j.from /\ y.dir = j.dir /\ y.old = content[j.from]
    BY <1>1, <2>1 DEF JobType, Stages
  <2> HIDE DEF y
  <2>5. Shaped(y)
    BY <1>1, <2>3, <2>4 DEF Shaped
  <2>6. Owned(y)
    BY <1>1, <2>2, <2>4 DEF Owned
  <2> QED
    BY <1>1, <1>4, <2>4, <2>5, <2>6, UnwrittenSound, ReadsKeeps DEF Continues, j
<1>5. CASE j.from \in stored /\ Goes(t, x)
  <2>1. /\ p \in PutType /\ p.col = "content" /\ p.id = j.from /\ p.was = content[j.from]
        /\ p.list = content[j.from] \ {j.id}
    BY <1>3, <1>5, PutListTypes
  <2>2. x.stage = "put" /\ x.op = j.op /\ x.id = j.id /\ x.dir = j.dir
    BY <1>1 DEF JobType
  <2>3. Goes(t, [job[t] EXCEPT !.stage = "put", !.todo = <<p>>])
    BY <1>5
  <2>4. p.id = "recents" => \A e \in p.list : Listable(e)
    BY <1>3, <1>5, <2>1
  <2>5. Owned(x) /\ PutSound(x, p) /\ ~ MakesFolder(x, p)
    <3> HIDE DEF x, p, j
    <3>1. Owned(x)
      BY <1>1, <2>2 DEF Owned
    <3>2. PutSound(x, p) /\ ~ MakesFolder(x, p)
      BY <2>1, <2>2, <2>4 DEF PutSound, MakesFolder
    <3> QED
      BY <3>1, <3>2
  <2> HIDE DEF p
  <2> QED
    BY <1>1, <2>1, <2>3, <2>5, OnePut
<1> QED
  BY <1>2, <1>4, <1>5 DEF ReadOld

LEMMA ReadNewKeeps ==
  ASSUME FilesInv, NEW t \in Threads, ReadNew(t)
  PROVE  FilesInv'
<1> DEFINE j == job[t]
           a == PutList(j.from, j.old, j.old \ {j.id})
           b == PutList(j.dir, content[j.dir], content[j.dir] \cup {j.id})
           q == <<a, b>>
           x == [j EXCEPT !.stage = "put", !.todo = q]
<1>1. /\ j \in JobType /\ j.stage = "read_new" /\ Shaped(j) /\ Owned(j) /\ Reads
      /\ j.op \in {"move", "delete"} /\ j.id \in Ids /\ j.from \in Ids /\ j.old \in SUBSET Ids
  BY JobFacts DEF ReadNew, At, Shaped, JobType
<1>2. CASE Ends(t)
  BY <1>1, <1>2, EndsKeeps
<1>3. CASE j.dir \in stored /\ Goes(t, x)
  <2>1. j.dir \in Ids /\ content[j.dir] \in SUBSET Ids
    BY <1>3 DEF FilesInv, RowInv, ColumnTypes
  <2>2. j.dir # "recents"
    BY <1>1, <2>1 DEF Owned, Dirs, Ids
  <2>3. /\ a \in PutType /\ a.col = "content" /\ a.id = j.from /\ a.was = j.old
        /\ a.list = j.old \ {j.id}
    BY <1>1, PutListTypes
  <2>4. /\ b \in PutType /\ b.col = "content" /\ b.id = j.dir /\ b.was = content[j.dir]
        /\ b.list = content[j.dir] \cup {j.id}
    BY <1>1, <2>1, PutListTypes
  <2>5. j.from = "recents" => \A e \in a.list : Listable(e)
    BY <1>1, <2>3 DEF Owned
  <2> HIDE DEF a, b
  <2>6. q \in Seq(PutType) /\ Len(q) = 2 /\ q # <<>> /\ q[1] = a /\ q[2] = b
    BY <2>3, <2>4
  <2> HIDE DEF q, j
  <2>7. /\ x \in JobType /\ x.stage = "put" /\ x.todo = q /\ x.op = j.op /\ x.id = j.id
        /\ x.dir = j.dir
    BY <1>1, <2>6 DEF JobType, Stages
  <2> HIDE DEF x
  <2>8. Shaped(x)
    BY <1>1, <2>6, <2>7 DEF Shaped
  <2>9. Owned(x)
    BY <1>1, <2>7 DEF Owned
  <2>10. PutsSound(x)
    <3>1. PutSound(x, a) /\ ~ MakesFolder(x, a)
      BY <2>3, <2>5, <2>7 DEF PutSound, MakesFolder
    <3>2. PutSound(x, b) /\ ~ MakesFolder(x, b)
      BY <2>2, <2>4, <2>7 DEF PutSound, MakesFolder
    <3>3. ASSUME NEW k \in 1 .. Len(x.todo) PROVE x.todo[k] \in {a, b}
      <4>1. k \in 1 .. 2
        BY <2>6, <2>7
      <4> QED
        BY <2>6, <2>7, <4>1
    <3> QED
      BY <3>1, <3>2, <3>3 DEF PutsSound
  <2>11. MovePuts(job[t]) = q
    BY DEF MovePuts, q, a, b, j
  <2> QED
    BY <1>1, <1>3, <2>7, <2>8, <2>9, <2>10, ReadsKeeps DEF Sound, Continues, j
<1>4. Ends(t) \/ (j.dir \in stored /\ Goes(t, x))
  BY DEF ReadNew, MovePuts
<1> QED
  BY <1>2, <1>3, <1>4

(* After update_recents a delete goes on, other requests have ended.       *)
LEMMA AfterRecentsSound ==
  ASSUME NEW j, Shaped(j), Owned(j), j.stage \in {"recents", "put_recents"}
  PROVE  Sound(AfterRecents(j)) /\ Continues(AfterRecents(j), j)
<1>1. CASE j.op # "delete"
  BY <1>1, IdleSound DEF AfterRecents, Continues
<1>2. CASE j.op = "delete"
  <2> DEFINE x == [j EXCEPT !.stage = "read", !.todo = <<>>, !.again = FALSE]
  <2>1. j \in JobType /\ j.id \in Ids /\ <<>> \in Seq(PutType)
    BY <1>2 DEF Shaped
  <2>2. /\ x \in JobType /\ x.stage = "read" /\ x.todo = <<>> /\ x.op = "delete"
        /\ x.id = j.id /\ x.dir = j.dir
    BY <1>2, <2>1 DEF JobType, Stages
  <2>3. AfterRecents(j) = x
    BY <1>2 DEF AfterRecents
  <2> HIDE DEF x
  <2>4. Shaped(x) /\ Owned(x)
    BY <1>2, <2>1, <2>2 DEF Shaped, Owned
  <2> QED
    BY <1>2, <2>2, <2>3, <2>4, UnwrittenSound DEF Continues
<1> QED
  BY <1>1, <1>2

LEMMA ReadRecentsKeeps ==
  ASSUME FilesInv, NEW t \in Threads, ReadRecents(t)
  PROVE  FilesInv'
<1> DEFINE j == job[t]
           others == content["recents"] \ {j.id}
           list == IF j.op = "delete" THEN others ELSE others \cup {j.id}
           p == PutList("recents", content["recents"], list)
           x == [j EXCEPT !.stage = "put_recents", !.todo = <<p>>]
<1>1. /\ j \in JobType /\ j.stage = "recents" /\ Shaped(j) /\ Owned(j) /\ Reads
      /\ j.op \in {"upload", "download", "delete"} /\ j.id \in Ids
  BY JobFacts DEF ReadRecents, At, Shaped
<1>2. CASE Goes(t, AfterRecents(j))
  <2>1. Sound(AfterRecents(j)) /\ Continues(AfterRecents(j), j)
    BY <1>1, AfterRecentsSound
  <2> QED
    BY <1>1, <1>2, <2>1, ReadsKeeps
<1>3. CASE Goes(t, x)
  <2>1. "recents" \in Ids
    BY DEF Ids, Dirs
  <2>2. content["recents"] \in SUBSET Ids
    BY <2>1 DEF FilesInv, RowInv, ColumnTypes
  <2>3. list \in SUBSET Ids /\ content["recents"] \ {j.id} \subseteq list
    BY <1>1, <2>2
  <2>4. \A e \in list : Listable(e)
    BY <1>1, RecentsListable DEF Owned, Listable
  <2> HIDE DEF list
  <2>5. /\ p \in PutType /\ p.col = "content" /\ p.id = "recents"
        /\ p.was = content["recents"] /\ p.list = list
    BY <2>1, <2>2, <2>3, PutListTypes
  <2>6. /\ x.stage = "put_recents" /\ x.op = j.op /\ x.id = j.id /\ x.dir = j.dir
        /\ x.name = j.name
    BY <1>1 DEF JobType
  <2>7. Goes(t, [job[t] EXCEPT !.stage = "put_recents", !.todo = <<p>>])
    BY <1>3
  <2>8. Owned(x) /\ PutSound(x, p) /\ ~ MakesFolder(x, p)
    <3> HIDE DEF x, p, j
    <3>1. Owned(x)
      BY <1>1, <2>6 DEF Owned
    <3>2. PutSound(x, p) /\ ~ MakesFolder(x, p)
      BY <2>3, <2>4, <2>5, <2>6 DEF PutSound, MakesFolder
    <3> QED
      BY <3>1, <3>2
  <2> HIDE DEF p
  <2> QED
    BY <1>1, <2>5, <2>7, <2>8, OnePut
<1> QED
  BY <1>2, <1>3 DEF ReadRecents

-----------------------------------------------------------------------------
(* PUTs.                                                                   *)
LEMMA PutFacts ==
  ASSUME FilesInv, NEW t \in Threads, Puts(t)
  PROVE  LET j == job[t]
             p == Head(j.todo)
         IN  /\ j.todo \in Seq(PutType) /\ j.todo # <<>> /\ p = j.todo[1] /\ p \in PutType
             /\ PutSound(j, p) /\ (MakesFolder(j, p) => p.id \in stored)
<1> DEFINE j == job[t]
<1>1. j.todo \in Seq(PutType) /\ j.todo # <<>> /\ PutsSound(j)
  BY JobFacts DEF Puts, At, Shaped, JobType
<1> HIDE DEF j
<1>2. 1 \in 1 .. Len(j.todo) /\ Head(j.todo) = j.todo[1] /\ j.todo[1] \in PutType
  BY <1>1
<1>3. MakesFolder(j, j.todo[1]) => j.todo[1].id \in stored
  <2>1. 1 .. 1 - 1 = {}
    OBVIOUS
  <2> QED
    BY <1>1, <1>2, <2>1 DEF PutsSound, Backed
<1>4. PutSound(j, j.todo[1])
  BY <1>1, <1>2 DEF PutsSound
<1> QED
  BY <1>1, <1>2, <1>3, <1>4 DEF j

(* What a PUT does to the columns of its id.                               *)
LEMMA PutColumns ==
  ASSUME FilesInv, NEW t \in Threads, Puts(t), Put(t)
  PROVE  LET j == job[t]
             p == Head(j.todo)
         IN  /\ p.id \in Ids
             /\ stored' = IF p.col = "content" THEN stored \cup {p.id} ELSE stored
             /\ content' \in [Ids -> SUBSET Ids] /\ name' \in [Ids -> Names \cup {None}]
             /\ metadata' \in [Ids -> Kinds \cup {None}]
             /\ p.col = "content" => content'[p.id] = p.list
             /\ p.col = "name" => name'[p.id] = p.name
             /\ p.col = "metadata" =>
                  metadata'[p.id] = IF j.op = "upload" THEN "file"
                                    ELSE IF j.op = "star" THEN metadata[p.id] ELSE "folder"
             /\ \A i \in Ids :
                  /\ i # p.id \/ p.col # "content" => content'[i] = content[i]
                  /\ i # p.id \/ p.col # "name" => name'[i] = name[i]
                  /\ i # p.id \/ p.col # "metadata" => metadata'[i] = metadata[i]
<1> DEFINE j == job[t]
           p == Head(j.todo)
<1>1. p \in PutType
  BY PutFacts
<1> HIDE DEF p
<1>2. p.id \in Ids /\ p.list \in SUBSET Ids /\ p.name \in Names \cup {None}
  BY <1>1 DEF PutType
<1>3. stored' = IF p.col = "content" THEN stored \cup {p.id} ELSE stored
  BY DEF Put, p
<1>4. content' = IF p.col = "content" THEN [content EXCEPT ![p.id] = p.list] ELSE content
  BY DEF Put, p
<1>5. name' = IF p.col = "name" THEN [name EXCEPT ![p.id] = p.name] ELSE name
  BY DEF Put, p
<1> DEFINE kind == IF j.op = "upload" THEN "file"
                   ELSE IF j.op = "star" THEN metadata[p.id] ELSE "folder"
<1>6. metadata' = IF p.col # "metadata" THEN metadata ELSE [metadata EXCEPT ![p.id] = kind]
  BY DEF Put, p
<1>7. /\ content \in [Ids -> SUBSET Ids] /\ name \in [Ids -> Names \cup {None}]
      /\ metadata \in [Ids -> Kinds \cup {None}]
  BY DEF FilesInv, RowInv, ColumnTypes
<1>8. kind \in Kinds \cup {None}
  BY <1>2, <1>7 DEF Kinds
<1> HIDE DEF kind
<1>9. /\ content' \in [Ids -> SUBSET Ids] /\ (p.col = "content" => content'[p.id] = p.list)
      /\ \A i \in Ids : i # p.id \/ p.col # "content" => content'[i] = content[i]
  BY <1>2, <1>4, <1>7
<1>10. /\ name' \in [Ids -> Names \cup {None}] /\ (p.col = "name" => name'[p.id] = p.name)
       /\ \A i \in Ids : i # p.id \/ p.col # "name" => name'[i] = name[i]
  BY <1>2, <1>5, <1>7
<1>11. /\ metadata' \in [Ids -> Kinds \cup {None}]
       /\ p.col = "metadata" => metadata'[p.id] = kind
       /\ \A i \in Ids : i # p.id \/ p.col # "metadata" => metadata'[i] = metadata[i]
  BY <1>2, <1>6, <1>7, <1>8
<1> QED
  BY <1>2, <1>3, <1>9, <1>10, <1>11 DEF p, kind

LEMMA PutGrows ==
  ASSUME FilesInv, NEW t \in Threads, Puts(t), Put(t), NEW answered \in BOOLEAN, Leaves(t, answered)
  PROVE  /\ Grows
         /\ \A u \in Threads : job[u].op = "folder" => metadata'[job[u].id] # "file"
<1> DEFINE j == job[t]
           p == Head(j.todo)
<1>1. PutSound(j, p) /\ Sound(j)
  BY PutFacts, JobFacts
<1>2. stored \subseteq stored' /\ via_recents \subseteq via_recents'
  BY PutColumns DEF Leaves
<1>3. \A i \in Ids : name[i] # None => name'[i] # None
  <2>1. p.col = "name" => p.name # None
    BY <1>1 DEF PutSound
  <2> QED
    BY <2>1, PutColumns
<1>4. ASSUME NEW i \in Ids, metadata[i] = "file" PROVE metadata'[i] = "file"
  <2>1. CASE p.col # "metadata" \/ p.id # i \/ j.op \in {"upload", "star"}
    BY <1>4, <2>1, PutColumns
  <2>2. CASE p.col = "metadata" /\ p.id = i /\ j.op \notin {"upload", "star"}
    <3>1. (j.op = "folder" /\ i = j.id) \/ i \in Dirs
      BY <1>1, <2>2 DEF PutSound
    <3>2. i \notin Dirs
      BY <1>4 DEF FilesInv, RowInv, FilesDrawn, ColumnTypes
    <3>3. j.op = "folder" => metadata[j.id] # "file"
      BY <1>1 DEF Sound, Owned
    <3> QED
      BY <1>4, <3>1, <3>2, <3>3
  <2> QED
    BY <2>1, <2>2
<1>5. ASSUME NEW u \in Threads, job[u].op = "folder", metadata'[job[u].id] = "file" PROVE FALSE
  <2>1. metadata[job[u].id] # "file" /\ job[u].id \in Ids
    BY <1>5, JobFacts DEF Owned, Shaped
  <2>2. p.col = "metadata" /\ p.id = job[u].id /\ j.op = "upload"
    BY <1>5, <2>1, PutColumns
  <2>3. p.id = j.id
    BY <1>1, <2>2 DEF PutSound
  <2>4. u = t
    BY <1>5, <2>2, <2>3 DEF FilesInv, OneOwner, Adds
  <2> QED
    BY <1>5, <2>2, <2>4
<1> QED
  BY <1>2, <1>3, <1>4, <1>5 DEF Grows

(* A PUT keeps what the row promises.                                      *)
LEMMA PutKeepsColumns ==
  ASSUME FilesInv, NEW t \in Threads, Puts(t), Put(t), NEW answered \in BOOLEAN, Leaves(t, answered),
         UNCHANGED <<drawn, requests>>, faults' \in Nat
  PROVE  ColumnTypes' /\ FilesDrawn' /\ FoldersList' /\ FoldersCanBeEntered'
<1> DEFINE j == job[t]
           p == Head(j.todo)
<1>1. PutSound(j, p) /\ (MakesFolder(j, p) => p.id \in stored) /\ Sound(j) /\ p.id \in Ids
  BY PutFacts, JobFacts, PutColumns
<1>2. ColumnTypes'
  <2>1. /\ registered' \in BOOLEAN /\ stored' \subseteq Ids
        /\ drawn' \subseteq NewIds /\ requests' \in Nat /\ faults' \in Nat
        /\ stale' \subseteq Ids
    BY <1>1, PutColumns DEF Put, FilesInv, RowInv, ColumnTypes
  <2>2. j.id \in Ids \cup {None}
    BY JobFacts DEF JobType
  <2>3. home' \in [Ids -> Ids \cup {None}]
    BY <1>1, <2>2 DEF Leaves, FilesInv, RowInv, ColumnTypes
  <2>4. via_recents' \subseteq Ids
    BY <2>2 DEF Leaves, FilesInv, RowInv, ColumnTypes
  <2> QED
    BY <2>1, <2>3, <2>4, PutColumns DEF ColumnTypes
<1>3. ASSUME NEW i \in Ids, metadata'[i] = "file" PROVE i \in drawn'
  <2>1. CASE metadata[i] = "file"
    BY <2>1 DEF FilesInv, RowInv, FilesDrawn
  <2>2. CASE metadata[i] # "file"
    <3>1. p.col = "metadata" /\ p.id = i /\ j.op = "upload"
      BY <1>3, <2>2, PutColumns
    <3>2. i = j.id
      BY <1>1, <3>1 DEF PutSound
    <3> QED
      BY <3>1, <3>2 DEF FilesInv, OneOwner, Adds
  <2> QED
    BY <2>1, <2>2
<1>4. ASSUME NEW i \in Ids, metadata'[i] = "folder" PROVE i \in stored'
  <2>1. CASE metadata[i] = "folder"
    BY <2>1, PutColumns DEF FilesInv, RowInv, FoldersList
  <2>2. CASE metadata[i] # "folder"
    <3>1. p.col = "metadata" /\ p.id = i /\ j.op \notin {"upload", "star"}
      BY <1>4, <2>2, PutColumns
    <3> QED
      BY <1>1, <3>1, PutColumns DEF MakesFolder
  <2> QED
    BY <2>1, <2>2
<1>5. ASSUME NEW i \in Ids, name'[i] \in DirNames PROVE i \in stored'
  <2>1. CASE name[i] \in DirNames
    BY <2>1, PutColumns DEF FilesInv, RowInv, FoldersCanBeEntered
  <2>2. CASE name[i] \notin DirNames
    <3>1. p.col = "name" /\ p.id = i /\ p.name \in DirNames
      BY <1>5, <2>2, PutColumns
    <3> QED
      BY <1>1, <3>1, PutColumns DEF MakesFolder
  <2> QED
    BY <2>1, <2>2
<1> QED
  BY <1>2, <1>3, <1>4, <1>5 DEF FilesDrawn, FoldersList, FoldersCanBeEntered

(* Entries stay where a PUT answered OK has put them.                      *)
LEMMA PutKeepsPlaces ==
  ASSUME FilesInv, NEW t \in Threads, Puts(t), Put(t), NEW answered \in BOOLEAN, Leaves(t, answered)
  PROVE  HomesKnown' /\ AnsweredPlaced'
<1> DEFINE j == job[t]
           p == Head(j.todo)
           lists == At(t, "put") /\ p.col = "content" /\ j.id \notin {None, p.id}
<1>1. PutSound(j, p) /\ p.id \in Ids /\ j.id \in Ids \cup {None}
  BY PutFacts, JobFacts, PutColumns DEF JobType
<1>2. home \in [Ids -> Ids \cup {None}] /\ HomesKnown
  BY DEF FilesInv, RowInv, ColumnTypes
<1>3. home' = IF ~ lists THEN home
              ELSE [home EXCEPT ![j.id] =
                      IF answered /\ j.id \in p.list /\ p.id # "recents" THEN p.id ELSE None]
  BY DEF Leaves
<1>4. ASSUME NEW i \in Ids, ~ (lists /\ i = j.id) PROVE home'[i] = home[i]
  BY <1>1, <1>2, <1>3, <1>4
<1>5. ASSUME lists, home'[j.id] # None
      PROVE  j.id \in Ids /\ home'[j.id] = p.id /\ p.id \notin {j.id, "recents"} /\ j.id \in p.list
  BY <1>1, <1>2, <1>3, <1>5
<1>6. ASSUME NEW i \in Ids, home'[i] # None
      PROVE  home'[i] \in stored' /\ home'[i] \notin {i, "recents"}
  <2>1. CASE lists /\ i = j.id
    BY <1>5, <1>6, <2>1, PutColumns
  <2>2. CASE ~ (lists /\ i = j.id)
    BY <1>2, <1>4, <1>6, <2>2, PutColumns DEF HomesKnown
  <2> QED
    BY <2>1, <2>2
<1>7. ASSUME NEW i \in Ids, home'[i] \notin {None} \cup stale'
      PROVE  i \in content'[home'[i]]
  <2>1. CASE lists /\ i = j.id
    BY <1>5, <1>7, <2>1, PutColumns
  <2>2. CASE ~ (lists /\ i = j.id)
    <3> DEFINE h == home[i]
    <3>1. h = home'[i] /\ h \in Ids /\ h \in stored /\ h \notin {i, "recents"}
      BY <1>2, <1>4, <1>7, <2>2 DEF HomesKnown
    <3>2. stale \subseteq stale'
      BY DEF Put
    <3>3. i \in content[h]
      BY <1>7, <3>1, <3>2 DEF FilesInv, RowInv, AnsweredPlaced
    <3> HIDE DEF h
    <3>4. CASE h # p.id \/ p.col # "content"
      BY <3>1, <3>3, <3>4, PutColumns
    <3>5. CASE h = p.id /\ p.col = "content"
      <4>1. Current(t, p)
        BY <1>7, <3>1, <3>5 DEF Put
      <4>2. content'[h] = p.list
        BY <3>5, PutColumns
      <4>3. CASE job[t].again
        BY <3>1, <3>3, <3>5, <4>1, <4>2, <4>3 DEF Current
      <4>4. CASE ~ job[t].again
        <5>1. j.op # "signup" /\ content[h] = p.was
          BY <3>1, <3>5, <4>1, <4>4 DEF Current
        <5>2. i # j.id
          BY <1>1, <2>2, <3>1, <3>5 DEF Puts, At, PutSound
        <5>3. p.was \ {j.id} \subseteq p.list
          BY <1>1, <3>5, <5>1 DEF PutSound
        <5> QED
          BY <3>1, <3>3, <4>2, <5>1, <5>2, <5>3
      <4> QED
        BY <4>3, <4>4
    <3> QED
      BY <3>4, <3>5
  <2> QED
    BY <2>1, <2>2
<1> QED
  BY <1>6, <1>7 DEF HomesKnown, AnsweredPlaced

(* Recents gets only what it may list.                                     *)
LEMMA PutKeepsRecents ==
  ASSUME FilesInv, NEW t \in Threads, Puts(t), Put(t), NEW answered \in BOOLEAN, Leaves(t, answered)
  PROVE  RecentsComplete'
<1> DEFINE j == job[t]
           p == Head(j.todo)
<1>1. PutSound(j, p) /\ j.id \in Ids \cup {None} /\ p \in PutType
  BY PutFacts, JobFacts DEF JobType
<1>2. ColumnTypes /\ Grows
  BY PutGrows DEF FilesInv, RowInv
<1>3. "recents" \in Ids
  BY DEF Ids, Dirs
<1>4. ASSUME NEW i \in content'["recents"], i \notin via_recents' PROVE Complete(i)'
  <2>1. CASE p.col = "content" /\ p.id = "recents"
    <3>1. i \in p.list /\ i \in Ids
      BY <1>1, <1>4, <2>1, PutColumns DEF PutType
    <3>2. ~ (i = j.id /\ j.stage = "put" /\ j.id # "recents")
      BY <1>4, <2>1, <3>1 DEF Leaves, At
    <3>3. Listable(i)
      BY <1>1, <2>1, <3>1, <3>2 DEF PutSound
    <3> QED
      BY <1>2, <1>4, <3>3, GrowsKeeps DEF Listable
  <2>2. CASE ~ (p.col = "content" /\ p.id = "recents")
    <3>1. i \in content["recents"]
      BY <1>3, <1>4, <2>2, PutColumns
    <3>2. Listable(i)
      BY <3>1, RecentsListable
    <3> QED
      BY <1>2, <1>4, <3>2, GrowsKeeps DEF Listable
  <2> QED
    BY <2>1, <2>2
<1> QED
  BY <1>4 DEF RecentsComplete

-----------------------------------------------------------------------------
(* The request after a PUT.                                                *)

(* A request that makes the same PUTs, or none, stays sound.               *)
LEMMA AgainSound ==
  ASSUME FilesInv, NEW t \in Threads, Puts(t)
  PROVE  LET x == [job[t] EXCEPT !.again = TRUE] IN Sound(x) /\ Continues(x, job[t])
<1> DEFINE j == job[t]
           x == [j EXCEPT !.again = TRUE]
<1>1. j \in JobType /\ Sound(j)
  BY JobFacts
<1> HIDE DEF j
<1>2. /\ x \in JobType /\ x.op = j.op /\ x.stage = j.stage /\ x.path = j.path /\ x.dir = j.dir
      /\ x.from = j.from /\ x.old = j.old /\ x.id = j.id /\ x.name = j.name /\ x.todo = j.todo
  BY <1>1 DEF JobType
<1> HIDE DEF x
<1>3. Shaped(x)
  BY <1>1, <1>2 DEF Sound, Shaped
<1>4. Owned(x)
  BY <1>1, <1>2 DEF Sound, Owned, Pending
<1>5. PutsSound(x)
  BY <1>1, <1>2 DEF Sound, PutsSound, PutSound, MakesFolder, Backed
<1> QED
  BY <1>2, <1>3, <1>4, <1>5 DEF Sound, Continues, x, j

LEMMA GivenUpSound ==
  ASSUME FilesInv, NEW t \in Threads
  PROVE  Sound(GivenUp(job[t])) /\ Continues(GivenUp(job[t]), job[t])
<1>1. CASE job[t].stage \in {"recents", "put_recents"}
  BY <1>1, JobFacts, AfterRecentsSound DEF GivenUp
<1>2. CASE job[t].stage = "exists"
  <2>1. job[t] \in JobType /\ job[t].op = "signup"
    BY <1>2, JobFacts DEF Shaped
  <2> QED
    BY <1>2, <2>1, RegisteringSound DEF GivenUp
<1>3. CASE job[t].stage \notin {"recents", "put_recents", "exists"}
  BY <1>3, IdleSound DEF GivenUp, Continues
<1> QED
  BY <1>1, <1>2, <1>3

LEMMA TailTypes ==
  ASSUME NEW S, NEW s \in Seq(S), Len(s) > 1
  PROVE  /\ Tail(s) \in Seq(S) /\ Len(Tail(s)) = Len(s) - 1 /\ Tail(s) # <<>>
         /\ \A k \in 1 .. Len(s) - 1 : Tail(s)[k] = s[k + 1]
<1>1. s # <<>> /\ Len(s) \in Nat
  OBVIOUS
<1>2. /\ Tail(s) \in Seq(S) /\ Len(Tail(s)) = Len(s) - 1
      /\ \A k \in 1 .. Len(Tail(s)) : Tail(s)[k] = s[k + 1]
  BY <1>1, HeadTailProperties
<1>3. Tail(s) # <<>>
  <2>1. Len(Tail(s)) # 0 /\ Len(<<>>) = 0
    BY <1>1, <1>2
  <2> DEFINE q == Tail(s)
  <2> HIDE DEF q
  <2>2. Len(q) # Len(<<>>)
    BY <2>1 DEF q
  <2> QED
    BY <2>2 DEF q
<1> QED
  BY <1>2, <1>3

(* The PUT that has been made leaves the list of those to make.            *)
LEMMA NextPutSound ==
  ASSUME FilesInv, NEW t \in Threads, Puts(t), Put(t), NEW answered \in BOOLEAN, Leaves(t, answered),
         NEW j, j = job[t], Len(j.todo) > 1
  PROVE  LET x == [j EXCEPT !.todo = Tail(j.todo), !.again = FALSE]
         IN  Sound(x)' /\ Continues(x, j)
<1> DEFINE p == j.todo[1]
           q == Tail(j.todo)
           x == [j EXCEPT !.todo = q, !.again = FALSE]
<1>1. /\ j \in JobType /\ Shaped(j) /\ Owned(j) /\ PutsSound(j) /\ Sound(j)
      /\ j.stage \in {"put", "put_recents"} /\ j.todo \in Seq(PutType)
  BY JobFacts DEF Puts, At, JobType
<1>2. p = Head(job[t].todo) /\ PutSound(j, p)
  BY PutFacts
<1>3. /\ p.col = "content" => p.id \in stored'
      /\ p.col = "name" => name'[p.id] # None
      /\ p.col = "metadata" /\ j.op = "upload" => metadata'[p.id] = "file"
  BY <1>2, PutColumns DEF PutSound
<1>4. /\ ColumnTypes /\ Grows
      /\ j.op = "folder" => metadata'[j.id] # "file"
  BY PutGrows DEF FilesInv, RowInv
<1>5. Sound(j)'
  BY <1>1, <1>4, SoundGrows
<1> HIDE DEF p
<1>6. /\ q \in Seq(PutType) /\ Len(q) = Len(j.todo) - 1 /\ q # <<>>
      /\ \A k \in 1 .. Len(j.todo) - 1 : q[k] = j.todo[k + 1]
  BY <1>1, TailTypes
<1> HIDE DEF q
<1>7. /\ x \in JobType /\ x.op = j.op /\ x.stage = j.stage /\ x.path = j.path /\ x.dir = j.dir
      /\ x.from = j.from /\ x.old = j.old /\ x.id = j.id /\ x.name = j.name /\ x.todo = q
  BY <1>1, <1>6 DEF JobType
<1> HIDE DEF x
<1>8. Shaped(x)'
  BY <1>1, <1>6, <1>7 DEF Shaped
<1>9. Owned(x)'
  <2>1. ASSUME j.op = "upload", j.stage = "put", NEW c \in {"content", "name", "metadata"}
        PROVE  Done(c, j.id)' \/ Pending(x, c)
    <3>1. CASE Done(c, j.id)'
      BY <3>1
    <3>2. CASE ~ Done(c, j.id)'
      <4>1. PICK k \in 1 .. Len(j.todo) : j.todo[k].col = c /\ j.todo[k].id = j.id
        BY <1>5, <2>1, <3>2 DEF Sound, Owned, Pending
      <4>2. k # 1
        BY <1>3, <2>1, <3>2, <4>1 DEF Done, p
      <4>3. k - 1 \in 1 .. Len(j.todo) - 1 /\ k - 1 \in 1 .. Len(q) /\ (k - 1) + 1 = k
        BY <1>1, <1>6, <4>1, <4>2
      <4>4. q[k - 1] = j.todo[k]
        BY <1>6, <4>3
      <4> QED
        BY <1>7, <4>1, <4>3, <4>4 DEF Pending
    <3> QED
      BY <3>1, <3>2
  <2>2. Owned(j)'
    BY <1>5 DEF Sound
  <2> QED
    BY <1>7, <2>1, <2>2 DEF Owned, Pending
<1>10. ASSUME NEW k \in 1 .. Len(x.todo)
       PROVE  PutSound(x, x.todo[k])' /\ (MakesFolder(x, x.todo[k]) => Backed(x, k)')
  <2>1. k \in 1 .. Len(j.todo) - 1 /\ k + 1 \in 1 .. Len(j.todo) /\ x.todo[k] = j.todo[k + 1]
    BY <1>1, <1>6, <1>7
  <2>2. PutSound(j, j.todo[k + 1])' /\ (MakesFolder(j, j.todo[k + 1]) => Backed(j, k + 1)')
    BY <1>5, <2>1 DEF Sound, PutsSound, MakesFolder
  <2>3. PutSound(x, x.todo[k])'
    BY <1>7, <2>1, <2>2 DEF PutSound
  <2>4. ASSUME MakesFolder(x, x.todo[k]) PROVE Backed(x, k)'
    <3>1. Backed(j, k + 1)'
      BY <1>7, <2>1, <2>2, <2>4 DEF MakesFolder
    <3>2. CASE x.todo[k].id \in stored'
      BY <3>2 DEF Backed
    <3>3. CASE x.todo[k].id \notin stored'
      <4>1. PICK l \in 1 .. k : j.todo[l].col = "content" /\ j.todo[l].id = x.todo[k].id
        BY <2>1, <3>1, <3>3 DEF Backed
      <4>2. l # 1
        BY <1>3, <3>3, <4>1 DEF p
      <4>3. l - 1 \in 1 .. k - 1 /\ l - 1 \in 1 .. Len(j.todo) - 1 /\ (l - 1) + 1 = l
        BY <1>1, <2>1, <4>1, <4>2
      <4>4. x.todo[l - 1] = j.todo[l]
        BY <1>6, <1>7, <4>3
      <4> QED
        BY <4>1, <4>3, <4>4 DEF Backed
    <3> QED
      BY <3>2, <3>3
  <2> QED
    BY <2>3, <2>4
<1>11. PutsSound(x)'
  BY <1>10 DEF PutsSound, MakesFolder
<1> QED
  BY <1>7, <1>8, <1>9, <1>11 DEF Sound, Continues, x, q

(* An upload whose last PUT has been made is complete.                     *)
LEMMA UploadedSound ==
  ASSUME FilesInv, NEW t \in Threads, Puts(t), Put(t), NEW answered \in BOOLEAN, Leaves(t, answered),
         NEW j, j = job[t], ~ Len(j.todo) > 1, j.op = "upload", j.stage = "put"
  PROVE  LET x == [j EXCEPT !.stage = "recents", !.todo = <<>>, !.again = FALSE]
         IN  Sound(x)' /\ Continues(x, j)
<1> DEFINE p == j.todo[1]
           x == [j EXCEPT !.stage = "recents", !.todo = <<>>, !.again = FALSE]
<1>1. /\ j \in JobType /\ Shaped(j) /\ Owned(j) /\ j.id \in Ids
      /\ j.todo \in Seq(PutType) /\ <<>> \in Seq(PutType)
  BY JobFacts DEF Shaped, JobType
<1>2. p = Head(job[t].todo) /\ PutSound(j, p)
  BY PutFacts
<1>3. /\ p.col = "content" => p.id \in stored'
      /\ p.col = "name" => name'[p.id] # None
      /\ p.col = "metadata" => metadata'[p.id] = "file"
  BY <1>2, PutColumns DEF PutSound
<1>4. ColumnTypes /\ Grows
  BY PutGrows DEF FilesInv, RowInv
<1> HIDE DEF p
<1>5. ASSUME NEW c \in {"content", "name", "metadata"} PROVE Done(c, j.id)'
  <2>1. CASE Done(c, j.id)
    BY <1>1, <1>4, <2>1, GrowsKeeps
  <2>2. CASE Pending(j, c)
    <3>1. p.col = c /\ p.id = j.id
      BY <1>1, <2>2 DEF Pending, p
    <3> QED
      BY <1>3, <3>1 DEF Done
  <2> QED
    BY <1>1, <2>1, <2>2 DEF Owned
<1>6. Complete(j.id)'
  BY <1>5 DEF Done, Complete
<1>7. /\ x \in JobType /\ x.stage = "recents" /\ x.todo = <<>> /\ x.op = "upload" /\ x.id = j.id
      /\ x.name = j.name
  BY <1>1 DEF JobType, Stages
<1> HIDE DEF x
<1>8. Shaped(x)' /\ Owned(x)'
  BY <1>1, <1>6, <1>7 DEF Shaped, Owned
<1>9. PutsSound(x)'
  <2>1. 1 .. Len(x.todo) = {}
    BY <1>7
  <2> QED
    BY <2>1 DEF PutsSound
<1> QED
  BY <1>7, <1>8, <1>9 DEF Sound, Continues, x

LEMMA AfterPutSound ==
  ASSUME FilesInv, NEW t \in Threads, Puts(t), Put(t), NEW answered \in BOOLEAN, Leaves(t, answered),
         NEW j, j = job[t]
  PROVE  Sound(AfterPut(j))' /\ Continues(AfterPut(j), j)
<1>1. /\ Shaped(j) /\ Owned(j) /\ ColumnTypes /\ Grows /\ j.stage \in {"put", "put_recents"}
  BY JobFacts, PutGrows DEF FilesInv, RowInv, Puts, At
<1>2. Sound(Idle)'
  BY <1>1, IdleSound, SoundGrows DEF Idle
<1>3. CASE Len(j.todo) > 1
  BY <1>3, NextPutSound DEF AfterPut
<1>4. CASE ~ Len(j.todo) > 1 /\ j.stage = "put_recents"
  <2>1. Sound(AfterRecents(j)) /\ Continues(AfterRecents(j), j)
    BY <1>1, <1>4, AfterRecentsSound
  <2>2. AfterRecents(j).op # "folder"
    BY <1>1, <1>4, <2>1 DEF Continues, Idle, Shaped
  <2>3. Sound(AfterRecents(j))'
    BY <1>1, <2>1, <2>2, SoundGrows
  <2> QED
    BY <1>4, <2>1, <2>3 DEF AfterPut
<1>5. CASE ~ Len(j.todo) > 1 /\ j.stage = "put" /\ j.op = "upload"
  BY <1>5, UploadedSound DEF AfterPut
<1>6. CASE ~ Len(j.todo) > 1 /\ j.stage = "put" /\ j.op # "upload"
  BY <1>2, <1>6 DEF AfterPut, Continues
<1> QED
  BY <1>1, <1>3, <1>4, <1>5, <1>6

LEMMA PutStep ==
  ASSUME FilesInv, NEW t \in Threads, Puts(t), Put(t), NEW answered \in BOOLEAN, Leaves(t, answered),
         NEW j, Goes(t, j), Continues(j, job[t]), Sound(j)', UNCHANGED <<drawn, requests>>,
         faults' \in Nat
  PROVE  FilesInv'
<1>1. RowInv'
  BY PutKeepsColumns, PutKeepsPlaces, PutKeepsRecents DEF RowInv
<1>2. /\ Grows
      /\ \A u \in Threads : job[u].op = "folder" => metadata'[job[u].id] # "file"
  BY PutGrows
<1>3. Adds(j) => Adds(job[t]) /\ j.id = job[t].id /\ j.id \in drawn'
  BY DEF Continues, Adds, Idle, FilesInv, OneOwner
<1>4. JobsSound' /\ OneOwner'
  BY <1>2, <1>3, JobStep
<1> QED
  BY <1>1, <1>4 DEF FilesInv

LEMMA PutAnsweredKeeps ==
  ASSUME FilesInv, NEW t \in Threads, PutAnswered(t)
  PROVE  FilesInv'
<1>1. PICK j : j = job[t]
  OBVIOUS
<1>2. /\ Puts(t) /\ Put(t) /\ Leaves(t, TRUE) /\ Goes(t, AfterPut(j))
      /\ UNCHANGED <<drawn, requests>> /\ faults' \in Nat
  BY <1>1 DEF PutAnswered, FilesInv, RowInv, ColumnTypes
<1>3. Sound(AfterPut(j))' /\ Continues(AfterPut(j), job[t])
  BY <1>1, <1>2, AfterPutSound
<1> QED
  BY <1>2, <1>3, PutStep

LEMMA FailedPutKeeps ==
  ASSUME FilesInv, NEW t \in Threads, NEW j, Sound(j), Continues(j, job[t]), Goes(t, j),
         Puts(t), Put(t), Leaves(t, FALSE), UNCHANGED <<drawn, requests>>, faults' \in Nat
  PROVE  FilesInv'
<1>1. /\ ColumnTypes /\ Grows
      /\ \A u \in Threads : job[u].op = "folder" => metadata'[job[u].id] # "file"
  BY PutGrows DEF FilesInv, RowInv
<1>2. j.op = "folder" => metadata'[j.id] # "file"
  BY <1>1 DEF Continues, Idle
<1>3. Sound(j)'
  BY <1>1, <1>2, SoundGrows
<1> QED
  BY <1>3, PutStep

LEMMA FaultKeeps ==
  ASSUME FilesInv, NEW t \in Threads, LoseAnswer(t) \/ GiveUp(t)
  PROVE  FilesInv'
<1>1. UNCHANGED <<drawn, requests>> /\ faults' \in Nat
  <2>1. UNCHANGED <<drawn, requests>> /\ faults' = faults + 1
    BY DEF LoseAnswer, GiveUp, Fault
  <2>2. faults \in Nat
    BY DEF FilesInv, RowInv, ColumnTypes
  <2> QED
    BY <2>1, <2>2
<1>2. CASE LoseAnswer(t)
  <2> DEFINE x == [job[t] EXCEPT !.again = TRUE]
  <2>1. Puts(t) /\ Put(t) /\ Leaves(t, FALSE) /\ Goes(t, x)
    BY <1>2 DEF LoseAnswer
  <2>2. Sound(x) /\ Continues(x, job[t])
    BY <2>1, AgainSound
  <2> QED
    BY <1>1, <2>1, <2>2, FailedPutKeeps
<1>3. CASE GiveUp(t)
  <2>1. Sound(GivenUp(job[t])) /\ Continues(GivenUp(job[t]), job[t])
    BY GivenUpSound
  <2>2. Goes(t, GivenUp(job[t]))
    BY <1>3 DEF GiveUp
  <2>3. CASE Puts(t) /\ Put(t) /\ Leaves(t, FALSE)
    BY <1>1, <2>1, <2>2, <2>3, FailedPutKeeps
  <2>4. CASE UNCHANGED <<columns, history>>
    BY <1>1, <2>1, <2>2, <2>4, FailedReadKeeps
  <2> QED
    BY <1>3, <2>3, <2>4 DEF GiveUp
<1> QED
  BY <1>2, <1>3

(* Requests that end together leave the others as they are, and the rows   *)
(* as the PUT of one of them leaves them, or as they were.                 *)
LEMMA TerminatesKeeps ==
  ASSUME FilesInv, NEW t \in Threads, Terminates(t), UNCHANGED <<drawn, requests>>, faults' \in Nat
  PROVE  FilesInv'
<1>1. PICK S \in SUBSET Threads :
        /\ job' = [u \in Threads |-> IF u \in S THEN Idle ELSE job[u]]
        /\ \/ \E u \in S : Puts(u) /\ Put(u) /\ Leaves(u, FALSE)
           \/ UNCHANGED <<columns, history>>
  BY DEF Terminates
<1>2. /\ RowInv' /\ Grows
      /\ \A v \in Threads : job[v].op = "folder" => metadata'[job[v].id] # "file"
  <2>1. CASE \E u \in S : Puts(u) /\ Put(u) /\ Leaves(u, FALSE)
    <3>1. PICK u \in Threads : Puts(u) /\ Put(u) /\ Leaves(u, FALSE)
      BY <2>1
    <3> QED
      BY <3>1, PutGrows, PutKeepsColumns, PutKeepsPlaces, PutKeepsRecents DEF RowInv
  <2>2. CASE UNCHANGED <<columns, history>>
    <3> USE <2>2 DEF columns, history
    <3>1. ColumnTypes'
      BY DEF FilesInv, RowInv, ColumnTypes
    <3>2. RowInv'
      BY <3>1 DEF FilesInv, RowInv, HomesKnown, FilesDrawn, FoldersList, AnsweredPlaced,
             RecentsComplete, Complete, FoldersCanBeEntered
    <3>3. Grows
      BY DEF Grows
    <3>4. \A v \in Threads : job[v].op = "folder" => metadata'[job[v].id] # "file"
      BY DEF FilesInv, JobsSound, Sound, Owned
    <3> QED
      BY <3>2, <3>3, <3>4
  <2> QED
    BY <1>1, <2>1, <2>2
<1>3. ASSUME NEW v \in Threads PROVE job'[v] \in JobType /\ Sound(job[v])'
  <2>1. CASE v \in S
    <3>1. job'[v] = Idle /\ Idle.op = "none"
      BY <1>1, <2>1 DEF Idle
    <3>2. Sound(Idle)'
      BY <1>2, <3>1, IdleSound, SoundGrows DEF FilesInv, RowInv
    <3> QED
      BY <3>1, <3>2, IdleSound
  <2>2. CASE v \notin S
    <3>1. job'[v] = job[v]
      BY <1>1, <2>2
    <3> QED
      BY <1>2, <3>1, JobFacts, SoundGrows DEF FilesInv, RowInv
  <2> QED
    BY <2>1, <2>2
<1>4. JobsSound'
  <2>1. job' \in [Threads -> JobType]
    BY <1>1, <1>3
  <2> QED
    BY <1>3, <2>1 DEF JobsSound
<1>5. OneOwner'
  <2>1. \A v \in Threads : Adds(job'[v]) => job'[v] = job[v]
    BY <1>1 DEF Adds, Idle
  <2> QED
    BY <2>1 DEF FilesInv, OneOwner, Adds
<1> QED
  BY <1>2, <1>4, <1>5 DEF FilesInv

LEMMA ThrowKeeps ==
  ASSUME FilesInv, NEW t \in Threads, DownloadThrows(t) \/ Crash(t)
  PROVE  FilesInv'
<1>1. Terminates(t) /\ UNCHANGED <<drawn, requests>>
  BY DEF DownloadThrows, Crash
<1>2. faults' \in Nat
  BY DEF DownloadThrows, Crash, Fault, FilesInv, RowInv, ColumnTypes
<1> QED
  BY <1>1, <1>2, TerminatesKeeps

-----------------------------------------------------------------------------
LEMMA FilesStep == FilesInv /\ [Next]_vars => FilesInv'
<1> SUFFICES ASSUME FilesInv, [Next]_vars PROVE FilesInv'
  OBVIOUS
<1>1. ASSUME NEW t \in Threads, Request(t) PROVE FilesInv'
  BY <1>1, SignupKeeps, AddKeeps, MoveDeleteKeeps, RenameKeeps, OnEntryKeeps DEF Request
<1>2. ASSUME NEW t \in Threads, Serve(t) PROVE FilesInv'
  BY <1>2, CheckUserKeeps, WalkKeeps, ReadParentKeeps, ReadEntryKeeps, ReadOldKeeps, ReadNewKeeps,
     ReadRecentsKeeps, OverlookNameKeeps, PutAnsweredKeeps, FaultKeeps, ThrowKeeps DEF Serve
<1>3. CASE UNCHANGED vars
  <2>1. Grows
    BY <1>3 DEF vars, columns, history, Grows
  <2>2. RowInv'
    BY <1>3 DEF vars, columns, history, FilesInv, RowInv, ColumnTypes, HomesKnown, FilesDrawn,
           FoldersList, AnsweredPlaced, RecentsComplete, Complete, FoldersCanBeEntered
  <2>3. \A u \in Threads : job[u].op = "folder" => metadata'[job[u].id] # "file"
    BY <1>3 DEF vars, columns, FilesInv, JobsSound, Sound, Owned
  <2>4. ASSUME NEW u \in Threads PROVE Sound(job[u])'
    BY <1>3, <2>1, <2>3, SoundGrows DEF vars, FilesInv, JobsSound, RowInv
  <2>5. JobsSound' /\ OneOwner'
    BY <1>3, <2>4 DEF vars, FilesInv, JobsSound, OneOwner, Adds
  <2> QED
    BY <2>2, <2>5 DEF FilesInv
<1> QED
  BY <1>1, <1>2, <1>3 DEF Next, Rest

(* The inductive invariant: what every request has read and has still to   *)
(* put, whatever other requests have done since.                           *)
THEOREM FilesInvariant == Spec => []FilesInv
BY FilesInit, FilesStep, PTL DEF Spec

(* The rows and the requests stay within their types.                      *)
THEOREM FilesTypeOK == Spec => []TypeOK
<1>1. FilesInv => TypeOK
  <2> SUFFICES ASSUME FilesInv PROVE TypeOK
    OBVIOUS
  <2>1. ASSUME NEW t \in Threads
        PROVE  /\ Puts(t) => job[t].todo # <<>>
               /\ At(t, "walk") => job[t].path # <<>> /\ job[t].dir \in Ids
    BY JobFacts DEF Shaped, Puts, At
  <2> QED
    BY <2>1 DEF TypeOK, FilesInv, RowInv, ColumnTypes, JobsSound
<1> QED
  BY <1>1, FilesInvariant, PTL

(* move_helper and upload write back the list they have read with one      *)
(* entry changed: what an answered PUT has put into a directory stays      *)
(* there, as long as that directory is written from current lists.         *)
THEOREM AnsweredPlacedHolds == Spec => []AnsweredPlaced
<1>1. FilesInv => AnsweredPlaced
  BY DEF FilesInv, RowInv
<1> QED
  BY <1>1, FilesInvariant, PTL

(* update_recents follows the last PUT of an upload and the checks of a    *)
(* download: what Recents lists can be downloaded, whatever calls fail.    *)
THEOREM RecentsCompleteHolds == Spec => []RecentsComplete
<1>1. FilesInv => RecentsComplete
  BY DEF FilesInv, RowInv
<1> QED
  BY <1>1, FilesInvariant, PTL

(* add_folder and register_new_user put the list of a folder before its    *)
(* name, so that no path leads to a folder without one.                    *)
THEOREM FoldersCanBeEnteredHolds == Spec => []FoldersCanBeEntered
<1>1. FilesInv => FoldersCanBeEntered
  BY DEF FilesInv, RowInv
<1> QED
  BY <1>1, FilesInvariant, PTL
-----------------------------------------------------------------------------
(* PlacedOnce is not inductive: a request that is about to add its entry   *)
(* to a list must know that no directory has the entry.  An upload has     *)
(* drawn the id and shown it to nobody; a move has taken the entry out of  *)
(* the directory it was in, and no other request can have done the same.   *)

Directories == Ids \ {"recents"}

(* The request will add its entry to a directory and has not done so.      *)
Bears(j) ==
  \/ Adds(j) /\ j.stage \in {"walk", "read"}
  \/ Adds(j) /\ j.stage = "put" /\ Len(j.todo) = 4 /\ ~ j.again
  \/ /\ j.op \in {"move", "delete"} /\ j.stage = "put" /\ j.dir # None
     /\ (Len(j.todo) = 2 /\ j.again) \/ (Len(j.todo) = 1 /\ ~ j.again)

(* The PUTs a request has still to make, by what it does.                  *)
AddPuts(j) ==
  /\ Len(j.todo) <= 4
  /\ \A k \in 1 .. Len(j.todo) :
       LET p == j.todo[k] IN
       /\ p.col = "name" => p.id = j.id
       /\ p.col = "content" =>
            IF Len(j.todo) = 4 /\ k = 1 THEN p.list = p.was \cup {j.id} ELSE p.list = {}

TakePut(j, p) ==
  p.col = "content" /\ p.id = j.from /\ j.id \in p.was /\ p.list = p.was \ {j.id}

GivePut(j, p) ==
  p.col = "content" /\ p.id = j.dir /\ j.dir \in Directories /\ p.list = p.was \cup {j.id}

MovingPuts(j) ==
  \/ Len(j.todo) = 1 /\ IF j.dir = None THEN TakePut(j, j.todo[1]) ELSE GivePut(j, j.todo[1])
  \/ Len(j.todo) = 2 /\ TakePut(j, j.todo[1]) /\ GivePut(j, j.todo[2])

SigningPuts(j) ==
  \A k \in 1 .. Len(j.todo) :
    LET p == j.todo[k] IN
    /\ p.col = "name" => p.id \in Dirs
    /\ p.col = "content" =>
         \/ p.id = "root" /\ p.list = {"trash", "recents"}
         \/ /\ p.list = {}
            /\ \/ "root" \in stored
               \/ \E l \in 1 .. k - 1 : j.todo[l].col = "content" /\ j.todo[l].id = "root"

(* A request on an entry that is there.                                    *)
OldEntry(j) == j.op \in {"download", "rename", "star", "move", "delete"}

ColumnPuts(j) ==
  \A k \in 1 .. Len(j.todo) :
    j.todo[k].col # "content" /\ (j.todo[k].col = "name" => j.todo[k].id = j.id)

PutsPlaced(j) ==
  /\ j.stage = "put" =>
       /\ j.op \in {"upload", "folder"} => AddPuts(j)
       /\ j.op \in {"move", "delete"} => MovingPuts(j)
       /\ j.op = "signup" => SigningPuts(j)
       /\ j.op \notin {"upload", "folder", "move", "delete", "signup"} =>
            OldEntry(j) /\ ColumnPuts(j)
  /\ j.stage = "put_recents" =>
       Len(j.todo) = 1 /\ j.todo[1].col = "content" /\ "root" \in stored
  /\ j.stage \in {"read_new", "put"} /\ j.op \in {"upload", "folder", "move", "delete"}
       => "root" \in stored
  /\ j.stage \notin {"put", "put_recents"} => ~ j.again

(* An entry that a request found has a name; one that is being made has    *)
(* none before a directory lists it.                                       *)
TargetsNamed ==
  /\ \A t \in Threads : OldEntry(job[t]) => name[job[t].id] # None
  /\ \A t \in Threads : Adds(job[t]) /\ Bears(job[t]) => name[job[t].id] = None
  /\ \A i \in NewIds : name[i] # None => i \in drawn

(* Registration makes the root before it makes anything else.              *)
RootFirst == stored # {} => "root" \in stored

NothingUnrooted == "root" \notin stored => \A c \in Ids : content[c] = {}

ListedDrawn == \A c \in Directories : content[c] \cap NewIds \subseteq drawn

BorneNowhere ==
  \A t \in Threads : Bears(job[t]) /\ job[t].id \notin via_recents =>
    \A c \in Directories : job[t].id \notin content[c]

BorneOnce ==
  \A t, u \in Threads :
    Bears(job[t]) /\ Bears(job[u]) /\ job[t].id = job[u].id /\ job[t].id \notin via_recents
      => t = u

Settled == ListedDrawn /\ BorneNowhere /\ BorneOnce

PlacementInv ==
  /\ \A t \in Threads : PutsPlaced(job[t])
  /\ TargetsNamed /\ RootFirst /\ NothingUnrooted /\ "recents" \notin via_recents
  /\ stale = {} => Settled
  /\ PlacedOnce

-----------------------------------------------------------------------------
LEMMA IdlePlaced == PutsPlaced(Idle) /\ ~ Bears(Idle) /\ ~ OldEntry(Idle) /\ ~ Adds(Idle)
BY DEF PutsPlaced, Bears, OldEntry, Adds, Idle

LEMMA PlacementInit == Init => PlacementInv
<1> SUFFICES ASSUME Init PROVE PlacementInv
  OBVIOUS
<1>1. \A t \in Threads : job[t] = Idle
  BY DEF Init
<1>2. \A c \in Ids : c # "root" => content[c] = {}
  BY DEF Init, Registered, Unregistered
<1>3. PlacedOnce
  BY <1>2 DEF PlacedOnce
<1>4. RootFirst /\ NothingUnrooted
  BY DEF Init, Registered, Unregistered, RootFirst, NothingUnrooted, Dirs
<1>5. ListedDrawn
  <2>1. \A c \in Ids : content[c] \cap NewIds = {}
    <3>1. CASE Registered
      BY <3>1 DEF Registered, Dirs
    <3>2. CASE Unregistered
      BY <3>2 DEF Unregistered
    <3> QED
      BY <3>1, <3>2 DEF Init
  <2> QED
    BY <2>1 DEF ListedDrawn, Directories
<1>6. BorneNowhere /\ BorneOnce
  BY <1>1, IdlePlaced DEF BorneNowhere, BorneOnce
<1>7. TargetsNamed
  <2>1. \A i \in NewIds : name[i] = None
    <3>1. \A i \in NewIds : i \in Ids /\ i # "trash" /\ i # "recents"
      BY DEF Ids, Dirs
    <3> QED
      BY <3>1 DEF Init, Registered, Unregistered
  <2> QED
    BY <1>1, <2>1, IdlePlaced DEF TargetsNamed
<1>8. \A t \in Threads : PutsPlaced(job[t])
  BY <1>1, IdlePlaced
<1> QED
  BY <1>3, <1>4, <1>5, <1>6, <1>7, <1>8 DEF PlacementInv, Settled, Init

(* A step that executes no PUT, after which one request goes on as j and   *)
(* others may have ended.                                                  *)
LEMMA UnwrittenKeeps ==
  ASSUME FilesInv, PlacementInv, NEW t \in Threads, NEW j,
         \A u \in Threads : job'[u] \in {job[u], Idle} \/ (u = t /\ job'[u] = j),
         UNCHANGED <<columns, history>>, drawn \subseteq drawn', Adds(j) => j.id \in Ids,
         PutsPlaced(j), OldEntry(j) => name[j.id] # None,
         Bears(j) => \/ Bears(job[t]) /\ j.id = job[t].id /\ j.op = job[t].op
                     \/ Adds(j) /\ j.id \in NewIds \ drawn
  PROVE  PlacementInv'
<1> USE DEF columns, history
<1>1. \A u \in Threads : Adds(job[u]) => job[u].id \in drawn
  BY DEF FilesInv, OneOwner
<1>2. \A u \in Threads : Bears(job[u]) => Adds(job[u]) \/ OldEntry(job[u])
  BY DEF Bears, OldEntry
<1>3. \A i \in NewIds \ drawn : name[i] = None
  BY DEF PlacementInv, TargetsNamed
<1>4. \A u \in Threads : PutsPlaced(job'[u])
  BY IdlePlaced DEF PlacementInv
<1>5. (\A u \in Threads : PutsPlaced(job[u]))'
  BY <1>4 DEF PutsPlaced, SigningPuts
<1>6. TargetsNamed'
  <2>1. \A u \in Threads : OldEntry(job'[u]) => name'[job'[u].id] # None
    BY IdlePlaced DEF PlacementInv, TargetsNamed
  <2>2. ASSUME NEW u \in Threads, Adds(job'[u]), Bears(job'[u])
        PROVE  name'[job'[u].id] = None
    <3>1. CASE job'[u] = job[u]
      BY <2>2, <3>1 DEF PlacementInv, TargetsNamed
    <3>2. CASE job'[u] = j
      <4>1. CASE j.id \in NewIds \ drawn
        BY <1>3, <3>2, <4>1
      <4>2. CASE Bears(job[t]) /\ j.id = job[t].id /\ j.op = job[t].op
        BY <2>2, <3>2, <4>2 DEF PlacementInv, TargetsNamed, Adds
      <4> QED
        BY <2>2, <3>2, <4>1, <4>2
    <3> QED
      BY <2>2, <3>1, <3>2, IdlePlaced
  <2>3. \A i \in NewIds : name'[i] # None => i \in drawn'
    BY DEF PlacementInv, TargetsNamed
  <2> QED
    BY <2>1, <2>2, <2>3 DEF TargetsNamed
<1>7. RootFirst' /\ NothingUnrooted' /\ PlacedOnce' /\ "recents" \notin via_recents'
  BY DEF PlacementInv, RootFirst, NothingUnrooted, PlacedOnce
<1>8. ASSUME stale' = {} PROVE Settled'
  <2>1. Settled
    BY <1>8 DEF PlacementInv
  <2>2. ListedDrawn'
    BY <2>1 DEF Settled, ListedDrawn
  <2>3. \A i \in NewIds \ drawn, c \in Directories : i \notin content[c]
    BY <2>1 DEF Settled, ListedDrawn
  <2>4. BorneNowhere'
    <3> SUFFICES ASSUME NEW u \in Threads, Bears(job'[u]), job'[u].id \notin via_recents,
                        NEW c \in Directories
                 PROVE  job'[u].id \notin content[c]
      BY DEF BorneNowhere, Directories
    <3>1. CASE job'[u] = job[u]
      BY <2>1, <3>1 DEF Settled, BorneNowhere
    <3>2. CASE job'[u] = j
      BY <2>1, <2>3, <3>2 DEF Settled, BorneNowhere
    <3> QED
      BY <3>1, <3>2, IdlePlaced
  <2>5. BorneOnce'
    <3> SUFFICES ASSUME NEW u \in Threads, NEW v \in Threads, Bears(job'[u]), Bears(job'[v]),
                        job'[u].id = job'[v].id, job'[u].id \notin via_recents
                 PROVE  u = v
      BY DEF BorneOnce
    <3>1. \A w \in Threads : Bears(job'[w]) => job'[w] = job[w] \/ (w = t /\ job'[w] = j)
      BY IdlePlaced
    <3>2. \A w \in Threads : Bears(job[w]) => job[w].id \notin NewIds \ drawn
      BY <1>1, <1>2, <1>3 DEF PlacementInv, TargetsNamed
    <3>3. \A w, x \in Threads : Bears(job[w]) /\ Bears(job[x]) /\ job[w].id = job[x].id
            /\ job[w].id \notin via_recents => w = x
      BY <2>1 DEF Settled, BorneOnce
    <3> QED
      BY <3>1, <3>2, <3>3
  <2> QED
    BY <2>2, <2>4, <2>5 DEF Settled
<1> QED
  BY <1>5, <1>6, <1>7, <1>8 DEF PlacementInv

(* The same for a request that goes on.                                    *)
LEMMA GoesOnKeeps ==
  ASSUME FilesInv, PlacementInv, NEW t \in Threads, NEW j, Goes(t, j), Continues(j, job[t]),
         UNCHANGED <<columns, history, drawn>>, PutsPlaced(j), Bears(j) => Bears(job[t])
  PROVE  PlacementInv'
<1>1. \A u \in Threads : job'[u] \in {job[u], Idle} \/ (u = t /\ job'[u] = j)
  BY DEF Goes, FilesInv, JobsSound
<1>2. OldEntry(j) => name[j.id] # None
  BY DEF Continues, OldEntry, Idle, PlacementInv, TargetsNamed
<1>3. Adds(j) => j.id \in Ids
  BY JobFacts DEF Continues, Adds, Idle, Ids
<1>4. Bears(j) => Bears(job[t]) /\ j.id = job[t].id /\ j.op = job[t].op
  BY IdlePlaced DEF Continues
<1> QED
  BY <1>1, <1>2, <1>3, <1>4, UnwrittenKeeps

LEMMA EndsPlaced ==
  ASSUME FilesInv, PlacementInv, NEW t \in Threads, Ends(t), UNCHANGED <<columns, history, drawn>>
  PROVE  PlacementInv'
BY IdlePlaced, GoesOnKeeps DEF Ends, Continues

-----------------------------------------------------------------------------
(* Requests that start, and walks.                                         *)
Calm(j) == j.stage \in {"idle", "exists", "walk", "read", "recents"} /\ ~ j.again

LEMMA CalmPlaced ==
  ASSUME NEW j, Calm(j)
  PROVE  PutsPlaced(j) /\ (Bears(j) => Adds(j) /\ j.stage \in {"walk", "read"})
BY DEF Calm, PutsPlaced, Bears

LEMMA ResolvedCalm ==
  ASSUME NEW j \in JobType, j.stage = "walk", ~ j.again,
         j.op \in {"upload", "folder", "delete", "move"}
  PROVE  Calm(Resolved(j))
<1>1. CASE Resolved(j) = Idle
  BY <1>1 DEF Calm, Idle
<1>2. CASE Resolved(j) = [j EXCEPT !.stage = "read"]
  BY <1>2 DEF Calm, JobType
<1>3. CASE Resolved(j) = [j EXCEPT !.stage = "recents", !.from = j.dir,
                                   !.dir = IF j.in_trash THEN None ELSE "trash"]
  BY <1>3 DEF Calm, JobType
<1> QED
  BY <1>1, <1>2, <1>3 DEF Resolved

LEMMA WalkedCalm ==
  ASSUME NEW j, Walkable(j), ~ j.again
  PROVE  Calm(Walked(j))
<1>0. /\ j \in JobType /\ "root" \in Ids /\ j.stage = "walk" /\ j.dir \in Ids
      /\ j.op \in {"upload", "folder", "delete", "move"}
  BY DEF Walkable, Ids, Dirs
<1>1. CASE Walked(j) = j
  BY <1>0, <1>1 DEF Calm
<1>2. CASE Walked(j) = Resolved(j)
  BY <1>0, <1>2, ResolvedCalm
<1> DEFINE x == [j EXCEPT !.from = j.dir, !.dir = "root"]
           y == [j EXCEPT !.from = j.dir, !.dir = "root", !.path = j.next_path, !.next_path = <<>>]
<1>3. CASE Walked(j) = Resolved(x)
  <2>1. x \in JobType /\ x.stage = "walk" /\ ~ x.again /\ x.op = j.op
    BY <1>0 DEF JobType
  <2> HIDE DEF x
  <2> QED
    BY <1>0, <1>3, <2>1, ResolvedCalm
<1>4. CASE Walked(j) = y
  BY <1>0, <1>4 DEF Calm, JobType
<1> QED
  BY <1>1, <1>2, <1>3, <1>4 DEF Walked

LEMMA StartsPlaced ==
  ASSUME FilesInv, PlacementInv, NEW t \in Threads, NEW j, Starts(t, j), Calm(j),
         drawn \subseteq drawn', OldEntry(j) => name[j.id] # None,
         Adds(j) => j.id \in NewIds \ drawn
  PROVE  PlacementInv'
<1>1. \A u \in Threads : job'[u] \in {job[u], Idle} \/ (u = t /\ job'[u] = j)
  BY DEF Starts, Goes, FilesInv, JobsSound
<1>2. UNCHANGED <<columns, history>>
  BY DEF Starts
<1>3. PutsPlaced(j) /\ (Bears(j) => Adds(j))
  BY CalmPlaced
<1>4. Adds(j) => j.id \in Ids
  BY DEF Ids
<1> QED
  BY <1>1, <1>2, <1>3, <1>4, UnwrittenKeeps

LEMMA WalkingAgain == \A op, path : Walking(op, path).again = FALSE
BY DEF Walking, Idle

LEMMA AddPlaced ==
  ASSUME FilesInv, PlacementInv, NEW t \in Threads, NEW i \in Ids, NEW path \in Paths,
         NEW n \in Names, upload(t, i, path, n) \/ add_folder(t, i, path, n)
  PROVE  PlacementInv'
<1>1. PICK op \in {"upload", "folder"} :
        /\ i \in NewIds \ drawn /\ drawn' = drawn \cup {i}
        /\ n \in IF op = "upload" THEN FileNames ELSE FolderNames
        /\ Starts(t, Walked([Walking(op, path) EXCEPT !.id = i, !.name = n]))
  BY DEF upload, add_folder
<1> DEFINE j == [Walking(op, path) EXCEPT !.id = i, !.name = n]
<1>2. metadata[i] # "file"
  BY <1>1 DEF FilesInv, RowInv, FilesDrawn
<1>3. /\ j \in JobType /\ j.stage = "walk" /\ j.todo = <<>> /\ j.op = op /\ j.id = i
      /\ j.name = n /\ j.dir \in Ids /\ ~ j.again
  <2> DEFINE w == Walking(op, path)
  <2>1. /\ w \in JobType /\ w.stage = "walk" /\ w.op = op /\ w.dir \in Ids /\ w.todo = <<>>
        /\ ~ w.again
    BY WalkingTypes, WalkingAgain DEF Ops
  <2>2. j = [w EXCEPT !.id = i, !.name = n]
    OBVIOUS
  <2> HIDE DEF w, j
  <2> QED
    BY <2>1, <2>2 DEF JobType
<1> HIDE DEF j
<1>4. Walkable(j)
  BY <1>1, <1>2, <1>3 DEF Walkable
<1>5. Calm(Walked(j)) /\ Continues(Walked(j), j) /\ Starts(t, Walked(j))
  BY <1>1, <1>3, <1>4, WalkedSound, WalkedCalm DEF j
<1>6. /\ ~ OldEntry(Walked(j)) /\ (Adds(Walked(j)) => Walked(j).id = i)
  BY <1>1, <1>3, <1>5 DEF Continues, Adds, OldEntry, Idle
<1> QED
  BY <1>1, <1>5, <1>6, StartsPlaced

LEMMA EmptyWalking ==
  ASSUME NEW op \in {"move", "delete"}, NEW path \in Paths, NEW i, NEW p, NEW b
  PROVE  /\ [Walking(op, path) EXCEPT !.id = i, !.next_path = p]
              = [Walking(op, path) EXCEPT !.id = i, !.next_path = p, !.in_trash = FALSE]
         /\ [Walking(op, path) EXCEPT !.id = i, !.in_trash = b]
              = [Walking(op, path) EXCEPT !.id = i, !.next_path = <<>>, !.in_trash = b]
<1> DEFINE w == Walking(op, path)
<1>1. w \in JobType
  BY WalkingTypes DEF Ops
<1>2. w.in_trash = FALSE /\ w.next_path = <<>>
  BY DEF Walking, Idle
<1> HIDE DEF w
<1>3. [w EXCEPT !.id = i, !.next_path = p]
        = [w EXCEPT !.id = i, !.next_path = p, !.in_trash = FALSE]
  BY <1>1, <1>2 DEF JobType
<1>4. [w EXCEPT !.id = i, !.in_trash = b]
        = [w EXCEPT !.id = i, !.next_path = <<>>, !.in_trash = b]
  BY <1>1, <1>2 DEF JobType
<1> QED
  BY <1>3, <1>4 DEF w

LEMMA MoveDeletePlaced ==
  ASSUME FilesInv, PlacementInv, NEW t \in Threads, NEW i \in Ids, NEW path \in Paths,
         NEW new_path \in Paths, move_file(t, i, path, new_path) \/ delete_file(t, i, path)
  PROVE  PlacementInv'
<1>1. PICK op \in {"move", "delete"}, next_path \in {<<>>, new_path}, in_trash \in BOOLEAN :
        Starts(t, Walked([Walking(op, path) EXCEPT !.id = i, !.next_path = next_path,
                                                   !.in_trash = in_trash]))
  <2>1. CASE move_file(t, i, path, new_path)
    <3>1. [Walking("move", path) EXCEPT !.id = i, !.next_path = new_path]
            = [Walking("move", path) EXCEPT !.id = i, !.next_path = new_path, !.in_trash = FALSE]
      BY EmptyWalking, ZenonT(30)
    <3>2. Starts(t, Walked([Walking("move", path) EXCEPT !.id = i, !.next_path = new_path]))
      BY <2>1 DEF move_file
    <3> QED
      BY <3>1, <3>2
  <2>2. CASE delete_file(t, i, path)
    <3>1. [Walking("delete", path) EXCEPT !.id = i, !.in_trash = InTrash(path)]
            = [Walking("delete", path) EXCEPT !.id = i, !.next_path = <<>>,
                                              !.in_trash = InTrash(path)]
      BY EmptyWalking
    <3>2. Starts(t, Walked([Walking("delete", path) EXCEPT !.id = i, !.in_trash = InTrash(path)]))
      BY <2>2 DEF delete_file
    <3>3. InTrash(path) \in BOOLEAN
      BY DEF InTrash
    <3> QED
      BY <3>1, <3>2, <3>3
  <2> QED
    BY <2>1, <2>2
<1>2. name[i] # None /\ drawn' = drawn
  BY DEF move_file, delete_file, Shown
<1> DEFINE j == [Walking(op, path) EXCEPT !.id = i, !.next_path = next_path,
                                          !.in_trash = in_trash]
<1>3. /\ j \in JobType /\ j.stage = "walk" /\ j.todo = <<>> /\ j.op = op /\ j.id = i
      /\ j.dir \in Ids /\ ~ j.again
  <2> DEFINE w == Walking(op, path)
  <2>1. /\ w \in JobType /\ w.stage = "walk" /\ w.op = op /\ w.dir \in Ids /\ w.todo = <<>>
        /\ ~ w.again
    BY WalkingTypes, WalkingAgain DEF Ops
  <2>2. j = [w EXCEPT !.id = i, !.next_path = next_path, !.in_trash = in_trash]
    OBVIOUS
  <2>3. next_path \in Seq(DirNames)
    <3>1. <<>> \in Seq(DirNames)
      OBVIOUS
    <3> QED
      BY <3>1
  <2> HIDE DEF w, j
  <2> QED
    BY <2>1, <2>2, <2>3 DEF JobType
<1>4. Starts(t, Walked(j))
  BY <1>1
<1> HIDE DEF j
<1>5. Walkable(j)
  BY <1>3 DEF Walkable
<1>6. Calm(Walked(j)) /\ Continues(Walked(j), j)
  BY <1>3, <1>5, WalkedSound, WalkedCalm
<1>7. ~ Adds(Walked(j)) /\ (OldEntry(Walked(j)) => Walked(j).id = i)
  BY <1>3, <1>6 DEF Continues, Adds, OldEntry, Idle
<1> QED
  BY <1>2, <1>4, <1>6, <1>7, StartsPlaced

LEMMA EntryPlaced ==
  ASSUME FilesInv, PlacementInv, NEW t \in Threads, NEW i \in Ids, NEW op, NEW n,
         OnEntry(t, i, op) \/ rename(t, i, n)
  PROVE  PlacementInv'
<1>1. Idle.again = FALSE /\ Idle \in JobType
  BY IdleSound DEF Idle
<1>2. CASE OnEntry(t, i, op)
  <2> DEFINE j == [Idle EXCEPT !.op = op, !.stage = "read", !.id = i]
  <2>1. j.stage = "read" /\ ~ j.again /\ j.op = op /\ j.id = i
    BY <1>1 DEF JobType
  <2>2. op \in {"download", "star"} /\ Starts(t, j) /\ drawn' = drawn /\ name[i] # None
    BY <1>2 DEF OnEntry, Shown
  <2> HIDE DEF j
  <2>3. Calm(j) /\ ~ Adds(j)
    BY <2>1, <2>2 DEF Calm, Adds
  <2> QED
    BY <2>1, <2>2, <2>3, StartsPlaced
<1>3. CASE rename(t, i, n)
  <2> DEFINE p == PutColumn("name", i, n)
             j == [Idle EXCEPT !.op = "rename", !.stage = "put", !.id = i, !.name = n,
                               !.todo = <<p>>]
  <2>1. p.col = "name" /\ p.id = i
    BY DEF PutColumn
  <2>2. Starts(t, j) /\ drawn' = drawn /\ name[i] # None
    BY <1>3 DEF rename, Shown
  <2> HIDE DEF p
  <2>3. j.stage = "put" /\ ~ j.again /\ j.op = "rename" /\ j.id = i /\ j.todo = <<p>>
    BY <1>1 DEF JobType
  <2> HIDE DEF j
  <2>4. PutsPlaced(j) /\ ~ Bears(j) /\ ~ Adds(j)
    BY <2>1, <2>3 DEF PutsPlaced, ColumnPuts, OldEntry, Bears, Adds
  <2>5. \A u \in Threads : job'[u] \in {job[u], Idle} \/ (u = t /\ job'[u] = j)
    BY <2>2 DEF Starts, Goes, FilesInv, JobsSound
  <2>6. UNCHANGED <<columns, history>>
    BY <2>2 DEF Starts
  <2> QED
    BY <2>2, <2>3, <2>4, <2>5, <2>6, UnwrittenKeeps
<1> QED
  BY <1>2, <1>3

LEMMA SignupPlaced ==
  ASSUME FilesInv, PlacementInv, NEW t \in Threads, signup(t)
  PROVE  PlacementInv'
<1> DEFINE j == [Idle EXCEPT !.op = "signup", !.stage = "exists"]
<1>1. Goes(t, j) /\ UNCHANGED <<columns, drawn, history>>
  BY DEF signup
<1>2. j.op = "signup" /\ j.stage = "exists" /\ ~ j.again
  BY DEF Idle
<1> HIDE DEF j
<1>3. Calm(j) /\ ~ Adds(j) /\ ~ OldEntry(j)
  BY <1>2 DEF Calm, Adds, OldEntry
<1>4. \A u \in Threads : job'[u] \in {job[u], Idle} \/ (u = t /\ job'[u] = j)
  BY <1>1 DEF Goes, FilesInv, JobsSound
<1> QED
  BY <1>1, <1>3, <1>4, CalmPlaced, UnwrittenKeeps

LEMMA WalkPlaced ==
  ASSUME FilesInv, PlacementInv, NEW t \in Threads, Walk(t)
  PROVE  PlacementInv'
<1> DEFINE j == job[t]
<1>1. UNCHANGED <<columns, history, drawn>>
  BY DEF Walk, Reads
<1>2. CASE Ends(t)
  BY <1>1, <1>2, EndsPlaced
<1>3. CASE \E c \in content[j.dir] : Goes(t, Walked([j EXCEPT !.path = Tail(@), !.dir = c]))
  <2>1. PICK c \in content[j.dir] : Goes(t, Walked([j EXCEPT !.path = Tail(j.path), !.dir = c]))
    BY <1>3
  <2>2. /\ j \in JobType /\ j.stage = "walk" /\ j.path # <<>> /\ j.dir \in Ids /\ j.id \in Ids
        /\ j.op \in {"upload", "folder", "delete", "move"} /\ j.todo = <<>>
        /\ j.op = "upload" => j.name \in FileNames
        /\ j.op = "folder" => j.name \in FolderNames /\ metadata[j.id] # "file"
    BY JobFacts DEF Walk, At, Shaped, Owned
  <2>3. c \in Ids
    BY <2>1, <2>2 DEF FilesInv, RowInv, ColumnTypes
  <2>4. ~ j.again
    BY <2>2 DEF PlacementInv, PutsPlaced
  <2> DEFINE x == [j EXCEPT !.path = Tail(j.path), !.dir = c]
  <2> HIDE DEF j
  <2>5. j.path \in Seq(DirNames)
    BY <2>2 DEF JobType
  <2>6. Tail(j.path) \in Seq(DirNames)
    BY <2>2, <2>5
  <2>7. /\ x \in JobType /\ x.stage = j.stage /\ x.op = j.op /\ x.id = j.id /\ x.dir = c
        /\ x.todo = j.todo /\ x.name = j.name /\ ~ x.again
    BY <2>2, <2>3, <2>4, <2>6 DEF JobType
  <2> HIDE DEF x
  <2>8. Walkable(x)
    BY <2>2, <2>3, <2>7 DEF Walkable
  <2>9. Calm(Walked(x)) /\ Continues(Walked(x), j)
    BY <2>7, <2>8, WalkedSound, WalkedCalm DEF Continues
  <2>10. PutsPlaced(Walked(x)) /\ (Bears(Walked(x)) => Adds(Walked(x)))
    BY <2>9, CalmPlaced
  <2>11. Bears(Walked(x)) => Bears(j)
    BY <2>2, <2>9, <2>10 DEF Continues, Adds, Bears, Idle
  <2> QED
    BY <1>1, <2>1, <2>9, <2>10, <2>11, GoesOnKeeps DEF x, j
<1> QED
  BY <1>2, <1>3 DEF Walk

-----------------------------------------------------------------------------
(* GETs.                                                                   *)
LEMMA RegisteringPlaced ==
  ASSUME NEW j \in JobType, j.op = "signup"
  PROVE  PutsPlaced(Registering(j)) /\ ~ Bears(Registering(j))
<1> DEFINE x == [j EXCEPT !.stage = "put", !.todo = SignupPuts]
<1>1. x.stage = "put" /\ x.todo = SignupPuts /\ x.op = "signup"
  BY DEF JobType
<1> HIDE DEF x
<1>2. ASSUME NEW k \in 1 .. Len(x.todo)
      PROVE  LET p == x.todo[k] IN
             /\ p.col = "name" => p.id \in Dirs
             /\ p.col = "content" =>
                  \/ p.id = "root" /\ p.list = {"trash", "recents"}
                  \/ /\ p.list = {}
                     /\ \/ "root" \in stored
                        \/ \E l \in 1 .. k - 1 : x.todo[l].col = "content" /\ x.todo[l].id = "root"
  <2>1. k \in 1 .. 8
    BY <1>1, SignupPutsTypes
  <2>2. CASE k \in {1, 2, 7, 8}
    BY <1>1, <2>2, SignupPutsTypes
  <2>3. CASE k \in {3, 4}
    <3>1. 2 \in 1 .. k - 1 /\ x.todo[2].col = "content" /\ x.todo[2].id = "root"
      BY <1>1, <2>3, SignupPutsTypes
    <3>2. x.todo[k].col = "content" /\ x.todo[k].list = {}
      BY <1>1, <2>3, SignupPutsTypes
    <3> QED
      BY <3>1, <3>2
  <2>4. CASE k \in {5, 6}
    BY <1>1, <2>4, SignupPutsTypes DEF Dirs
  <2> QED
    BY <2>1, <2>2, <2>3, <2>4
<1> QED
  BY <1>1, <1>2 DEF PutsPlaced, SigningPuts, Bears, Adds, Registering, x

LEMMA CheckUserPlaced ==
  ASSUME FilesInv, PlacementInv, NEW t \in Threads, check_user_exists(t)
  PROVE  PlacementInv'
<1>1. job[t] \in JobType /\ job[t].op = "signup" /\ UNCHANGED <<columns, history, drawn>>
  BY JobFacts DEF check_user_exists, At, Shaped, Reads
<1>2. CASE Ends(t)
  BY <1>1, <1>2, EndsPlaced
<1>3. CASE Goes(t, Registering(job[t]))
  BY <1>1, <1>3, RegisteringSound, RegisteringPlaced, GoesOnKeeps
<1> QED
  BY <1>2, <1>3 DEF check_user_exists

LEMMA ParentReadPlaced ==
  ASSUME FilesInv, PlacementInv, NEW t \in Threads, At(t, "read"),
         job[t].op \in {"upload", "folder"}, job[t].dir \in stored,
         Goes(t, ParentRead(job[t])), UNCHANGED <<columns, history, drawn>>
  PROVE  PlacementInv'
<1> DEFINE j == job[t]
           p == PutList(j.dir, content[j.dir], content[j.dir] \cup {j.id})
           q == <<p>> \o EntryPuts(j)
           x == [j EXCEPT !.stage = "put", !.todo = q]
<1>0. x = ParentRead(j) /\ j.dir \in stored
  BY DEF ParentRead
<1>1. j \in JobType /\ j.stage = "read" /\ Adds(j) /\ j.id \in Ids /\ ~ j.again
  BY JobFacts DEF At, Adds, Ids, PlacementInv, PutsPlaced
<1>2. j.dir \in Ids /\ content[j.dir] \in SUBSET Ids /\ "root" \in stored
  BY DEF FilesInv, RowInv, ColumnTypes, PlacementInv, RootFirst
<1>3. /\ p \in PutType /\ p.col = "content" /\ p.was = content[j.dir]
      /\ p.list = content[j.dir] \cup {j.id}
  BY <1>1, <1>2, PutListTypes
<1> HIDE DEF j, p
<1>4. /\ q \in Seq(PutType) /\ Len(q) = 4 /\ q[1] = p
      /\ j.op = "upload" =>
           /\ q[2].col = "name" /\ q[2].id = j.id /\ q[3].col = "metadata"
           /\ q[4].col = "content" /\ q[4].list = {}
      /\ j.op = "folder" =>
           /\ q[2].col = "content" /\ q[2].list = {}
           /\ q[3].col = "name" /\ q[3].id = j.id /\ q[4].col = "metadata"
  BY <1>1, <1>3, EntryPutsTypes
<1> HIDE DEF q
<1>5. x.stage = "put" /\ x.todo = q /\ x.op = j.op /\ x.id = j.id /\ ~ x.again
  BY <1>1, <1>4 DEF JobType
<1> HIDE DEF x
<1>6. AddPuts(x)
  <2>0. Len(x.todo) = 4
    BY <1>4, <1>5
  <2> SUFFICES ASSUME NEW k \in 1 .. Len(x.todo)
               PROVE  LET r == x.todo[k] IN
                      /\ r.col = "name" => r.id = x.id
                      /\ r.col = "content" =>
                           IF Len(x.todo) = 4 /\ k = 1 THEN r.list = r.was \cup {x.id}
                           ELSE r.list = {}
    BY <2>0 DEF AddPuts
  <2>1. k \in 1 .. 4
    BY <2>0
  <2> QED
    BY <1>1, <1>3, <1>4, <1>5, <2>1 DEF Adds
<1>7. PutsPlaced(x)
  BY <1>1, <1>2, <1>5, <1>6 DEF PutsPlaced, Adds
<1>8. Bears(j)
  BY <1>1 DEF Bears
<1> QED
  BY <1>0, <1>5, <1>7, <1>8, GoesOnKeeps DEF Continues, j

LEMMA ReadParentPlaced ==
  ASSUME FilesInv, PlacementInv, NEW t \in Threads, ReadParent(t) \/ OverlookName(t)
  PROVE  PlacementInv'
<1>1. /\ At(t, "read") /\ job[t].op \in {"upload", "folder"}
      /\ UNCHANGED <<columns, history, drawn>>
  BY DEF ReadParent, OverlookName, Reads
<1>2. CASE Ends(t)
  BY <1>1, <1>2, EndsPlaced
<1>3. CASE job[t].dir \in stored /\ Goes(t, ParentRead(job[t]))
  BY <1>1, <1>3, ParentReadPlaced
<1> QED
  BY <1>2, <1>3 DEF ReadParent, OverlookName

LEMMA ReadEntryPlaced ==
  ASSUME FilesInv, PlacementInv, NEW t \in Threads, ReadEntry(t)
  PROVE  PlacementInv'
<1> DEFINE j == job[t]
           p == PutColumn("metadata", j.id, None)
           q == <<p>>
           x == [j EXCEPT !.stage = "put", !.todo = q]
           y == [j EXCEPT !.stage = "recents"]
<1>1. /\ j \in JobType /\ j.stage = "read" /\ Shaped(j) /\ ~ j.again
      /\ UNCHANGED <<columns, history, drawn>>
  BY JobFacts DEF ReadEntry, At, Reads, PlacementInv, PutsPlaced
<1>2. CASE Ends(t)
  BY <1>1, <1>2, EndsPlaced
<1>3. CASE j.op = "download" /\ Goes(t, y)
  <2> HIDE DEF j
  <2>1. y.stage = "recents" /\ y.op = j.op /\ y.id = j.id /\ ~ y.again
    BY <1>1 DEF JobType
  <2> HIDE DEF y
  <2>2. PutsPlaced(y) /\ ~ Bears(y)
    BY <2>1, CalmPlaced DEF Calm
  <2> QED
    BY <1>1, <1>3, <2>1, <2>2, GoesOnKeeps DEF Continues, j
<1>4. CASE j.op = "star" /\ Goes(t, x)
  <2>1. p \in PutType /\ p.col = "metadata"
    BY <1>1, <1>4, PutColumnTypes DEF Shaped
  <2> HIDE DEF p, j
  <2>2. q \in Seq(PutType) /\ \A k \in 1 .. Len(q) : q[k] = p
    BY <2>1
  <2> HIDE DEF q
  <2>3. x.stage = "put" /\ x.todo = q /\ x.op = j.op /\ x.id = j.id
    BY <1>1, <2>2 DEF JobType
  <2> HIDE DEF x
  <2>4. PutsPlaced(x) /\ ~ Bears(x)
    BY <1>4, <2>1, <2>2, <2>3
       DEF PutsPlaced, ColumnPuts, OldEntry, Bears, Adds
  <2> QED
    BY <1>1, <1>4, <2>3, <2>4, GoesOnKeeps DEF Continues, j
<1> QED
  BY <1>2, <1>3, <1>4 DEF ReadEntry

LEMMA ReadOldPlaced ==
  ASSUME FilesInv, PlacementInv, NEW t \in Threads, ReadOld(t)
  PROVE  PlacementInv'
<1> DEFINE j == job[t]
           p == PutList(j.from, content[j.from], content[j.from] \ {j.id})
           q == <<p>>
           x == [j EXCEPT !.stage = "put", !.todo = q]
           y == [j EXCEPT !.stage = "read_new", !.old = content[j.from]]
<1>1. /\ j \in JobType /\ j.stage = "read" /\ ~ j.again /\ j.op \in {"move", "delete"}
      /\ j.id \in Ids /\ UNCHANGED <<columns, history, drawn>>
  BY JobFacts DEF ReadOld, At, Shaped, Reads, PlacementInv, PutsPlaced
<1>2. CASE Ends(t)
  BY <1>1, <1>2, EndsPlaced
<1>3. ASSUME j.from \in stored
      PROVE  j.from \in Ids /\ content[j.from] \in SUBSET Ids /\ "root" \in stored
  BY <1>3 DEF FilesInv, RowInv, ColumnTypes, PlacementInv, RootFirst
<1>4. CASE j.from \in stored /\ Goes(t, y)
  <2>1. "root" \in stored
    BY <1>3, <1>4
  <2> HIDE DEF j
  <2>2. y.stage = "read_new" /\ y.op = j.op /\ y.id = j.id /\ ~ y.again
    BY <1>1 DEF JobType
  <2> HIDE DEF y
  <2>3. PutsPlaced(y) /\ ~ Bears(y)
    BY <2>1, <2>2 DEF PutsPlaced, Bears
  <2> QED
    BY <1>1, <1>4, <2>2, <2>3, GoesOnKeeps DEF Continues, j
<1>5. CASE j.dir = None /\ j.id \in content[j.from] /\ j.from \in stored /\ Goes(t, x)
  <2>1. "root" \in stored
    BY <1>3, <1>5
  <2>2. /\ p \in PutType /\ p.col = "content" /\ p.id = j.from /\ p.was = content[j.from]
        /\ p.list = content[j.from] \ {j.id} /\ j.id \in p.was
    BY <1>3, <1>5, PutListTypes
  <2> HIDE DEF p, j
  <2>3. Len(q) = 1 /\ q[1] = p /\ q \in Seq(PutType)
    BY <2>2
  <2> HIDE DEF q
  <2>4. /\ x.stage = "put" /\ x.todo = q /\ x.op = j.op /\ x.id = j.id /\ x.dir = j.dir
        /\ x.from = j.from
    BY <1>1, <2>3 DEF JobType
  <2> HIDE DEF x
  <2>5. TakePut(x, p)
    BY <2>2, <2>4 DEF TakePut
  <2>6. PutsPlaced(x) /\ ~ Bears(x)
    BY <1>1, <1>5, <2>1, <2>3, <2>4, <2>5 DEF PutsPlaced, MovingPuts, Bears, Adds
  <2> QED
    BY <1>1, <1>5, <2>4, <2>6, GoesOnKeeps DEF Continues, j
<1> QED
  BY <1>2, <1>4, <1>5 DEF ReadOld

LEMMA ReadNewPlaced ==
  ASSUME FilesInv, PlacementInv, NEW t \in Threads, ReadNew(t)
  PROVE  PlacementInv'
<1> DEFINE j == job[t]
           a == PutList(j.from, j.old, j.old \ {j.id})
           b == PutList(j.dir, content[j.dir], content[j.dir] \cup {j.id})
           q == <<a, b>>
           x == [j EXCEPT !.stage = "put", !.todo = q]
<1>1. /\ j \in JobType /\ j.stage = "read_new" /\ ~ j.again /\ Owned(j)
      /\ j.op \in {"move", "delete"} /\ j.id \in Ids /\ j.from \in Ids /\ j.old \in SUBSET Ids
      /\ UNCHANGED <<columns, history, drawn>> /\ "root" \in stored
  BY JobFacts DEF ReadNew, At, Shaped, JobType, Reads, PlacementInv, PutsPlaced
<1>2. CASE Ends(t)
  BY <1>1, <1>2, EndsPlaced
<1>3. CASE j.dir \in stored /\ j.id \in j.old /\ Goes(t, x)
  <2>1. j.dir \in Ids /\ content[j.dir] \in SUBSET Ids
    BY <1>3 DEF FilesInv, RowInv, ColumnTypes
  <2>2. j.dir \in Directories
    BY <1>1, <2>1 DEF Owned, Dirs, Ids, Directories
  <2>3. /\ a \in PutType /\ a.col = "content" /\ a.id = j.from /\ a.was = j.old
        /\ a.list = j.old \ {j.id}
    BY <1>1, PutListTypes
  <2>4. /\ b \in PutType /\ b.col = "content" /\ b.id = j.dir /\ b.was = content[j.dir]
        /\ b.list = content[j.dir] \cup {j.id}
    BY <1>1, <2>1, PutListTypes
  <2> HIDE DEF a, b
  <2>5. q \in Seq(PutType) /\ Len(q) = 2 /\ q[1] = a /\ q[2] = b
    BY <2>3, <2>4
  <2> HIDE DEF q, j
  <2>6. /\ x.stage = "put" /\ x.todo = q /\ x.op = j.op /\ x.id = j.id /\ x.dir = j.dir
        /\ x.from = j.from /\ ~ x.again
    BY <1>1, <2>5 DEF JobType
  <2> HIDE DEF x
  <2>7. TakePut(x, a) /\ GivePut(x, b)
    BY <1>3, <2>2, <2>3, <2>4, <2>6 DEF TakePut, GivePut
  <2>8. MovingPuts(x) /\ Len(x.todo) = 2
    BY <2>5, <2>6, <2>7 DEF MovingPuts
  <2>9. PutsPlaced(x)
    BY <1>1, <2>6, <2>8 DEF PutsPlaced
  <2>10. ~ Bears(x)
    BY <1>1, <2>6, <2>8 DEF Bears, Adds
  <2>11. MovePuts(job[t]) = q
    BY DEF MovePuts, q, a, b, j
  <2> QED
    BY <1>1, <1>3, <2>6, <2>9, <2>10, GoesOnKeeps DEF Continues, j
<1>4. Ends(t) \/ (j.dir \in stored /\ j.id \in j.old /\ Goes(t, x))
  BY DEF ReadNew, MovePuts
<1> QED
  BY <1>2, <1>3, <1>4

LEMMA AfterRecentsPlaced ==
  ASSUME NEW j \in JobType
  PROVE  PutsPlaced(AfterRecents(j)) /\ ~ Bears(AfterRecents(j))
<1>1. CASE j.op # "delete"
  BY <1>1, IdlePlaced DEF AfterRecents
<1>2. CASE j.op = "delete"
  <2> DEFINE x == [j EXCEPT !.stage = "read", !.todo = <<>>, !.again = FALSE]
  <2>1. x.stage = "read" /\ x.op = "delete" /\ ~ x.again /\ AfterRecents(j) = x
    BY <1>2 DEF JobType, AfterRecents
  <2> HIDE DEF x
  <2> QED
    BY <2>1 DEF PutsPlaced, Bears, Adds
<1> QED
  BY <1>1, <1>2

LEMMA ReadRecentsPlaced ==
  ASSUME FilesInv, PlacementInv, NEW t \in Threads, ReadRecents(t)
  PROVE  PlacementInv'
<1> DEFINE j == job[t]
           others == content["recents"] \ {j.id}
           list == IF j.op = "delete" THEN others ELSE others \cup {j.id}
           p == PutList("recents", content["recents"], list)
           q == <<p>>
           x == [j EXCEPT !.stage = "put_recents", !.todo = q]
<1>1. /\ j \in JobType /\ j.stage = "recents" /\ Shaped(j) /\ Owned(j) /\ j.id \in Ids
      /\ UNCHANGED <<columns, history, drawn>>
  BY JobFacts DEF ReadRecents, At, Shaped, Reads
<1>2. CASE Goes(t, AfterRecents(j))
  BY <1>1, <1>2, AfterRecentsSound, AfterRecentsPlaced, GoesOnKeeps
<1>3. CASE "recents" \in stored /\ Goes(t, x)
  <2>1. "recents" \in Ids /\ "root" \in stored
    BY <1>3 DEF Ids, Dirs, PlacementInv, RootFirst
  <2>2. content["recents"] \in SUBSET Ids
    BY <2>1 DEF FilesInv, RowInv, ColumnTypes
  <2>3. list \in SUBSET Ids
    BY <1>1, <2>2
  <2> HIDE DEF list
  <2>4. p \in PutType /\ p.col = "content"
    BY <2>1, <2>2, <2>3, PutListTypes
  <2> HIDE DEF p, j
  <2>5. Len(q) = 1 /\ q[1] = p /\ q \in Seq(PutType)
    BY <2>4
  <2> HIDE DEF q
  <2>6. x.stage = "put_recents" /\ x.todo = q /\ x.op = j.op /\ x.id = j.id
    BY <1>1, <2>5 DEF JobType
  <2> HIDE DEF x
  <2>7. PutsPlaced(x) /\ ~ Bears(x)
    BY <2>1, <2>4, <2>5, <2>6 DEF PutsPlaced, Bears
  <2> QED
    BY <1>1, <1>3, <2>6, <2>7, GoesOnKeeps DEF Continues, j
<1> QED
  BY <1>2, <1>3 DEF ReadRecents

-----------------------------------------------------------------------------
(* PUTs: what a request goes on with.                                      *)

(* The request has just taken its entry out of the old directory.          *)
Took(j) == j.op \in {"move", "delete"} /\ j.stage = "put" /\ j.dir # None /\ Len(j.todo) = 2

LEMMA PlacedGrows ==
  ASSUME NEW j, PutsPlaced(j), stored \subseteq stored'
  PROVE  PutsPlaced(j)'
<1>1. SigningPuts(j) => SigningPuts(j)'
  BY DEF SigningPuts
<1> QED
  BY <1>1 DEF PutsPlaced

LEMMA HeadPlaced ==
  ASSUME FilesInv, PlacementInv, NEW t \in Threads, Puts(t)
  PROVE  LET j == job[t]
             p == Head(j.todo)
         IN  /\ j \in JobType /\ j.todo \in Seq(PutType) /\ PutsPlaced(j)
             /\ Len(j.todo) \in Nat /\ 1 \in 1 .. Len(j.todo) /\ p = j.todo[1] /\ p \in PutType
             /\ j.stage \in {"put", "put_recents"}
BY JobFacts, PutFacts DEF PlacementInv, Puts, At

LEMMA AgainPlaced ==
  ASSUME FilesInv, PlacementInv, NEW t \in Threads, Puts(t)
  PROVE  LET x == [job[t] EXCEPT !.again = TRUE] IN PutsPlaced(x) /\ (Bears(x) => Took(job[t]))
<1> DEFINE j == job[t]
           x == [j EXCEPT !.again = TRUE]
<1>1. /\ j \in JobType /\ PutsPlaced(j) /\ j.stage \in {"put", "put_recents"}
  BY HeadPlaced
<1> HIDE DEF j
<1>2. /\ x.op = j.op /\ x.stage = j.stage /\ x.dir = j.dir /\ x.from = j.from /\ x.id = j.id
      /\ x.todo = j.todo /\ x.again
  BY <1>1 DEF JobType
<1> HIDE DEF x
<1>3. PutsPlaced(x)
  <2>1. AddPuts(j) => AddPuts(x)
    BY <1>2 DEF AddPuts
  <2>2. MovingPuts(j) => MovingPuts(x)
    BY <1>2 DEF MovingPuts, TakePut, GivePut
  <2>3. SigningPuts(j) => SigningPuts(x)
    BY <1>2 DEF SigningPuts
  <2>4. OldEntry(j) /\ ColumnPuts(j) => OldEntry(x) /\ ColumnPuts(x)
    BY <1>2 DEF ColumnPuts, OldEntry
  <2> QED
    BY <1>1, <1>2, <2>1, <2>2, <2>3, <2>4 DEF PutsPlaced
<1>4. Bears(x) => Took(j)
  BY <1>1, <1>2 DEF Bears, Took
<1> QED
  BY <1>3, <1>4 DEF x, j

LEMMA NextPutPlaced ==
  ASSUME FilesInv, PlacementInv, NEW t \in Threads, Puts(t), Put(t), stored \subseteq stored',
         NEW j, j = job[t], Len(j.todo) > 1
  PROVE  LET x == [j EXCEPT !.todo = Tail(j.todo), !.again = FALSE]
         IN  PutsPlaced(x)' /\ (Bears(x) => Took(j))
<1> DEFINE p == j.todo[1]
           q == Tail(j.todo)
           x == [j EXCEPT !.todo = q, !.again = FALSE]
<1>1. /\ j \in JobType /\ PutsPlaced(j) /\ j.stage = "put" /\ j.todo \in Seq(PutType)
      /\ Len(j.todo) \in Nat
  <2>1. /\ j \in JobType /\ PutsPlaced(j) /\ j.stage \in {"put", "put_recents"}
        /\ j.todo \in Seq(PutType) /\ Len(j.todo) \in Nat
    BY HeadPlaced
  <2>2. Len(j.todo) # 1
    <3> DEFINE n == Len(j.todo)
    <3>1. n \in Nat /\ n > 1
      BY <2>1
    <3> HIDE DEF n
    <3>2. n # 1
      BY <3>1
    <3> QED
      BY <3>2 DEF n
  <2>3. j.stage # "put_recents"
    BY <2>1, <2>2, Zenon DEF PutsPlaced
  <2> QED
    BY <2>1, <2>3
<1>2. p.col = "content" => p.id \in stored'
  BY HeadPlaced, PutColumns
<1> HIDE DEF p
<1>3. /\ Len(q) = Len(j.todo) - 1 /\ q \in Seq(PutType)
      /\ \A k \in 1 .. Len(j.todo) - 1 : q[k] = j.todo[k + 1]
  BY <1>1, TailTypes
<1> HIDE DEF q
<1>4. /\ x.op = j.op /\ x.stage = j.stage /\ x.dir = j.dir /\ x.from = j.from /\ x.id = j.id
      /\ x.todo = q /\ ~ x.again
  BY <1>1, <1>3 DEF JobType
<1> HIDE DEF x
<1>5. \A k \in 1 .. Len(x.todo) :
        k + 1 \in 1 .. Len(j.todo) /\ k + 1 # 1 /\ x.todo[k] = j.todo[k + 1]
  BY <1>1, <1>3, <1>4
<1>6. CASE j.op \in {"upload", "folder"}
  <2>1. AddPuts(j)
    BY <1>1, <1>6 DEF PutsPlaced
  <2>2. Len(x.todo) <= 3 /\ Len(x.todo) # 4
    BY <1>1, <1>3, <1>4, <2>1 DEF AddPuts
  <2>3. AddPuts(x)
    BY <1>4, <1>5, <2>1, <2>2 DEF AddPuts
  <2>4. PutsPlaced(x)
    BY <1>1, <1>4, <1>6, <2>3 DEF PutsPlaced
  <2>5. ~ Bears(x)
    BY <1>1, <1>4, <1>6, <2>2 DEF Bears
  <2> QED
    BY <2>4, <2>5, PlacedGrows DEF x, q
<1>7. CASE j.op \in {"move", "delete"}
  <2>1. Len(j.todo) = 2 /\ GivePut(j, j.todo[2])
    BY <1>1, <1>7 DEF PutsPlaced, MovingPuts
  <2>2. Len(x.todo) = 1 /\ GivePut(x, x.todo[1]) /\ x.dir # None
    BY <1>3, <1>4, <2>1 DEF GivePut, Directories
  <2>3. MovingPuts(x)
    BY <2>2 DEF MovingPuts
  <2>4. Took(j)
    BY <1>1, <1>4, <1>7, <2>1, <2>2 DEF Took
  <2>5. PutsPlaced(x)
    BY <1>1, <1>4, <1>7, <2>3 DEF PutsPlaced
  <2> QED
    BY <2>4, <2>5, PlacedGrows DEF x, q
<1>8. CASE j.op = "signup"
  <2>1. SigningPuts(j)
    BY <1>1, <1>8 DEF PutsPlaced
  <2>2. ASSUME NEW k \in 1 .. Len(x.todo)
        PROVE  LET r == x.todo[k] IN
               /\ r.col = "name" => r.id \in Dirs
               /\ r.col = "content" =>
                    \/ r.id = "root" /\ r.list = {"trash", "recents"}
                    \/ /\ r.list = {}
                       /\ \/ "root" \in stored'
                          \/ \E l \in 1 .. k - 1 : x.todo[l].col = "content" /\ x.todo[l].id = "root"
    <3>1. x.todo[k] = j.todo[k + 1] /\ k + 1 \in 1 .. Len(j.todo) /\ k \in 1 .. Len(j.todo) - 1
      BY <1>1, <1>3, <1>4, <1>5
    <3>2. ASSUME NEW l \in 1 .. (k + 1) - 1, j.todo[l].col = "content", j.todo[l].id = "root"
          PROVE  \/ "root" \in stored'
                 \/ \E m \in 1 .. k - 1 : x.todo[m].col = "content" /\ x.todo[m].id = "root"
      <4>1. CASE l = 1
        BY <1>2, <3>2, <4>1 DEF p
      <4>2. CASE l # 1
        <5>1. l - 1 \in 1 .. k - 1 /\ l - 1 \in 1 .. Len(j.todo) - 1 /\ (l - 1) + 1 = l
          BY <1>1, <3>1, <4>2
        <5> QED
          BY <1>3, <1>4, <3>2, <5>1
      <4> QED
        BY <4>1, <4>2
    <3> QED
      BY <2>1, <3>1, <3>2 DEF SigningPuts
  <2>3. SigningPuts(x)'
    BY <2>2 DEF SigningPuts
  <2>4. PutsPlaced(x)'
    BY <1>1, <1>4, <1>8, <2>3 DEF PutsPlaced
  <2>5. ~ Bears(x)
    BY <1>4, <1>8 DEF Bears, Adds
  <2> QED
    BY <2>4, <2>5 DEF x, q
<1>9. CASE j.op \notin {"upload", "folder", "move", "delete", "signup"}
  <2>1. OldEntry(j) /\ ColumnPuts(j)
    BY <1>1, <1>9 DEF PutsPlaced
  <2>2. OldEntry(x) /\ ColumnPuts(x)
    BY <1>4, <1>5, <2>1 DEF OldEntry, ColumnPuts
  <2>3. PutsPlaced(x)
    BY <1>1, <1>4, <1>9, <2>2 DEF PutsPlaced
  <2>4. ~ Bears(x)
    BY <1>4, <1>9 DEF Bears, Adds
  <2> QED
    BY <2>3, <2>4, PlacedGrows DEF x, q
<1> QED
  BY <1>6, <1>7, <1>8, <1>9

LEMMA AfterPutPlaced ==
  ASSUME FilesInv, PlacementInv, NEW t \in Threads, Puts(t), Put(t), stored \subseteq stored',
         NEW j, j = job[t]
  PROVE  PutsPlaced(AfterPut(j))' /\ (Bears(AfterPut(j)) => Took(j))
<1>1. j \in JobType /\ j.stage \in {"put", "put_recents"}
  BY HeadPlaced
<1>2. CASE Len(j.todo) > 1
  BY <1>2, NextPutPlaced DEF AfterPut
<1>3. CASE ~ Len(j.todo) > 1 /\ j.stage = "put_recents"
  BY <1>1, <1>3, AfterRecentsPlaced, PlacedGrows DEF AfterPut
<1>4. CASE ~ Len(j.todo) > 1 /\ j.stage = "put" /\ j.op = "upload"
  <2> DEFINE x == [j EXCEPT !.stage = "recents", !.todo = <<>>, !.again = FALSE]
  <2>1. x.stage = "recents" /\ ~ x.again /\ AfterPut(j) = x
    BY <1>1, <1>4 DEF JobType, AfterPut
  <2> HIDE DEF x
  <2> QED
    BY <2>1, CalmPlaced, PlacedGrows DEF Calm
<1>5. CASE ~ Len(j.todo) > 1 /\ j.stage = "put" /\ j.op # "upload"
  BY <1>5, IdlePlaced, PlacedGrows DEF AfterPut
<1> QED
  BY <1>1, <1>2, <1>3, <1>4, <1>5

LEMMA GivenUpPlaced ==
  ASSUME FilesInv, NEW t \in Threads
  PROVE  PutsPlaced(GivenUp(job[t])) /\ ~ Bears(GivenUp(job[t]))
<1>1. job[t] \in JobType /\ (job[t].stage = "exists" => job[t].op = "signup")
  BY JobFacts DEF Shaped
<1> QED
  BY <1>1, AfterRecentsPlaced, RegisteringPlaced, IdlePlaced DEF GivenUp

-----------------------------------------------------------------------------
(* PUTs: what becomes of the columns.                                      *)

(* What the threads do when the storage has executed a PUT of t's.         *)
GoOn(t, x) ==
  /\ \A u \in Threads \ {t} : job'[u] \in {job[u], Idle}
  /\ job'[t] \in {Idle, x}
  /\ PutsPlaced(x)' /\ Continues(x, job[t]) /\ (Bears(x) => Took(job[t]))
  /\ drawn' = drawn

LEMMA PutNames ==
  ASSUME FilesInv, PlacementInv, NEW t \in Threads, Puts(t)
  PROVE  LET j == job[t]
             p == Head(j.todo)
         IN  /\ p.col = "name" => p.id \in Dirs \/ (p.id = j.id /\ (Adds(j) \/ OldEntry(j)))
             /\ p.col = "content" =>
                  \/ "root" \in stored
                  \/ j.op = "signup" /\ p.id = "root" /\ p.list = {"trash", "recents"}
             /\ Took(j) => p.col = "content"
<1> DEFINE j == job[t]
           p == j.todo[1]
<1>1. PutsPlaced(j) /\ 1 \in 1 .. Len(j.todo) /\ j.stage \in {"put", "put_recents"} /\ p = Head(j.todo)
  BY HeadPlaced
<1> HIDE DEF j
<1> SUFFICES /\ p.col = "name" => p.id \in Dirs \/ (p.id = j.id /\ (Adds(j) \/ OldEntry(j)))
             /\ p.col = "content" =>
                  \/ "root" \in stored
                  \/ j.op = "signup" /\ p.id = "root" /\ p.list = {"trash", "recents"}
             /\ Took(j) => p.col = "content"
  BY <1>1 DEF j
<1>2. CASE j.stage = "put_recents"
  BY <1>1, <1>2 DEF PutsPlaced, Took
<1>3. CASE j.stage = "put" /\ j.op \in {"upload", "folder"}
  BY <1>1, <1>3 DEF PutsPlaced, AddPuts, Adds, Took
<1>4. CASE j.stage = "put" /\ j.op \in {"move", "delete"}
  BY <1>1, <1>4 DEF PutsPlaced, MovingPuts, TakePut, GivePut
<1>5. CASE j.stage = "put" /\ j.op = "signup"
  <2>1. 1 .. 1 - 1 = {}
    OBVIOUS
  <2> QED
    BY <1>1, <1>5, <2>1 DEF PutsPlaced, SigningPuts, Took
<1>6. CASE j.stage = "put" /\ j.op \notin {"upload", "folder", "move", "delete", "signup"}
  BY <1>1, <1>6 DEF PutsPlaced, ColumnPuts, Took
<1> QED
  BY <1>1, <1>2, <1>3, <1>4, <1>5, <1>6

LEMMA WrittenNames ==
  ASSUME FilesInv, PlacementInv, NEW t \in Threads, Puts(t), Put(t),
         NEW answered \in BOOLEAN, Leaves(t, answered), NEW x, GoOn(t, x)
  PROVE  TargetsNamed'
<1> DEFINE j == job[t]
           p == Head(j.todo)
<1>1. /\ TargetsNamed /\ Continues(x, j) /\ (Bears(x) => Took(j))
      /\ \A u \in Threads \ {t} : job'[u] \in {job[u], Idle}
      /\ job'[t] \in {Idle, x} /\ drawn' = drawn
  BY DEF PlacementInv, GoOn
<1>2. \A i \in Ids : name[i] # None => name'[i] # None
  BY PutGrows DEF Grows
<1>3. /\ p.id \in Ids
      /\ \A i \in Ids : name'[i] # name[i] => p.col = "name" /\ i = p.id
  BY PutColumns
<1>4. p.col = "name" => p.id \in Dirs \/ (p.id = j.id /\ (Adds(j) \/ OldEntry(j)))
  BY PutNames
<1>5. \A u \in Threads : OldEntry(job[u]) => job[u].id \in Ids
  BY JobFacts DEF Shaped, OldEntry
<1>6. \A u \in Threads : Adds(job[u]) => job[u].id \in NewIds /\ job[u].id \in drawn
  BY JobFacts DEF FilesInv, OneOwner
<1>7. \A u \in Threads : Adds(job[u]) /\ Adds(j) /\ job[u].id = j.id => u = t
  BY DEF FilesInv, OneOwner
<1>8. NewIds \subseteq Ids /\ NewIds \cap Dirs = {}
  BY DEF Ids
<1> HIDE DEF p, j
<1>9. \A u \in Threads : OldEntry(job'[u]) => name'[job'[u].id] # None
  <2>1. OldEntry(x) => OldEntry(j) /\ x.id = j.id
    BY <1>1 DEF Continues, OldEntry, Idle
  <2> QED
    BY <1>1, <1>2, <1>5, <2>1, IdlePlaced DEF TargetsNamed, j
<1>10. \A u \in Threads : Adds(job'[u]) /\ Bears(job'[u]) => name'[job'[u].id] = None
  <2> SUFFICES ASSUME NEW u \in Threads, Adds(job'[u]), Bears(job'[u])
               PROVE  name'[job'[u].id] = None
    OBVIOUS
  <2>1. ~ (Adds(x) /\ Bears(x))
    BY <1>1 DEF Continues, Adds, Took, Idle
  <2>2. u # t /\ job'[u] = job[u]
    BY <1>1, <2>1, IdlePlaced
  <2>3. name[job[u].id] = None /\ job[u].id \in NewIds
    BY <1>1, <1>6, <2>2 DEF TargetsNamed
  <2>4. ~ (p.col = "name" /\ job[u].id = p.id)
    BY <1>1, <1>4, <1>7, <1>8, <2>2, <2>3 DEF TargetsNamed, j
  <2> QED
    BY <1>3, <1>8, <2>2, <2>3, <2>4
<1>11. \A i \in NewIds : name'[i] # None => i \in drawn'
  BY <1>1, <1>3, <1>4, <1>6, <1>8 DEF TargetsNamed, j
<1> QED
  BY <1>9, <1>10, <1>11 DEF TargetsNamed

LEMMA WrittenRooted ==
  ASSUME FilesInv, PlacementInv, NEW t \in Threads, Puts(t), Put(t),
         NEW answered \in BOOLEAN, Leaves(t, answered)
  PROVE  RootFirst' /\ NothingUnrooted' /\ "recents" \notin via_recents'
<1> DEFINE p == Head(job[t].todo)
<1>1. /\ stored' = IF p.col = "content" THEN stored \cup {p.id} ELSE stored
      /\ p.col # "content" => \A i \in Ids : content'[i] = content[i]
  BY PutColumns
<1>2. p.col = "content" => "root" \in stored \/ p.id = "root"
  BY PutNames
<1>3. RootFirst /\ NothingUnrooted /\ "recents" \notin via_recents
  BY DEF PlacementInv
<1> HIDE DEF p
<1>4. RootFirst' /\ NothingUnrooted'
  BY <1>1, <1>2, <1>3 DEF RootFirst, NothingUnrooted
<1>5. "recents" \notin via_recents'
  BY <1>3 DEF Leaves
<1> QED
  BY <1>4, <1>5

(* The directories lose entries, get the entry of a request that was to    *)
(* add it, or lose that of a request that will put it elsewhere.           *)
Loses == \A c \in Directories : content'[c] \subseteq content[c]

LEMMA LosesKeeps ==
  ASSUME Settled, stale = {}, PlacedOnce, via_recents \subseteq via_recents', drawn' = drawn, Loses,
         \A u \in Threads : Bears(job'[u]) => Bears(job[u]) /\ job'[u].id = job[u].id
  PROVE  Settled' /\ PlacedOnce'
<1>1. ListedDrawn'
  BY DEF Settled, ListedDrawn, Loses
<1>2. BorneNowhere'
  BY DEF Settled, BorneNowhere, Loses
<1>3. BorneOnce'
  BY DEF Settled, BorneOnce
<1>4. PlacedOnce'
  BY DEF PlacedOnce, Loses, Directories
<1> QED
  BY <1>1, <1>2, <1>3, <1>4 DEF Settled

LEMMA GivesKeeps ==
  ASSUME Settled, stale = {}, PlacedOnce, via_recents \subseteq via_recents', drawn' = drawn,
         NEW t \in Threads, Bears(job[t]), job[t].id \in NewIds => job[t].id \in drawn,
         NEW d \in Directories, content'[d] \subseteq content[d] \cup {job[t].id},
         \A c \in Directories \ {d} : content'[c] = content[c],
         \A u \in Threads : Bears(job'[u]) => u # t /\ Bears(job[u]) /\ job'[u].id = job[u].id
  PROVE  Settled' /\ PlacedOnce'
<1>1. ListedDrawn'
  BY DEF Settled, ListedDrawn
<1>2. BorneNowhere'
  BY DEF Settled, BorneNowhere, BorneOnce
<1>3. BorneOnce'
  BY DEF Settled, BorneOnce
<1>4. PlacedOnce'
  <2> SUFFICES ASSUME NEW i \in Ids \ via_recents', NEW c \in Directories, NEW e \in Directories,
                      i \in content'[c], i \in content'[e]
               PROVE  c = e
    BY DEF PlacedOnce, Directories
  <2>1. \A a \in Directories : i \in content'[a] => i \in content[a] \/ (a = d /\ i = job[t].id)
    OBVIOUS
  <2>2. i = job[t].id => \A a \in Directories : i \notin content[a]
    BY DEF Settled, BorneNowhere
  <2>3. \A a, b \in Directories : i \in content[a] /\ i \in content[b] => a = b
    BY DEF PlacedOnce, Directories
  <2> QED
    BY <2>1, <2>2, <2>3
<1> QED
  BY <1>1, <1>2, <1>3, <1>4 DEF Settled

LEMMA TakesKeeps ==
  ASSUME Settled, stale = {}, PlacedOnce, via_recents \subseteq via_recents', drawn' = drawn, Loses,
         NEW t \in Threads, NEW i \in Ids, i = job[t].id,
         \/ i \in via_recents'
         \/ \E d \in Directories : i \in content[d] /\ i \notin content'[d],
         \A u \in Threads : Bears(job'[u]) => job'[u].id = job[u].id /\ (u = t \/ Bears(job[u]))
  PROVE  Settled' /\ PlacedOnce'
<1>1. ListedDrawn' /\ PlacedOnce'
  BY DEF Settled, ListedDrawn, Loses, PlacedOnce, Directories
<1>2. ASSUME i \notin via_recents'
      PROVE  /\ \A c \in Directories : i \notin content'[c]
             /\ \E d \in Directories : i \in content[d]
  <2>1. PICK d \in Directories : i \in content[d] /\ i \notin content'[d]
    BY <1>2
  <2>2. \A c \in Directories : i \in content[c] => c = d
    BY <1>2, <2>1 DEF PlacedOnce, Directories
  <2> QED
    BY <2>1, <2>2 DEF Loses
<1>3. BorneNowhere'
  BY <1>2 DEF Settled, BorneNowhere, Loses
<1>4. BorneOnce'
  BY <1>2 DEF Settled, BorneOnce, BorneNowhere
<1> QED
  BY <1>1, <1>3, <1>4 DEF Settled

LEMMA WrittenSettled ==
  ASSUME FilesInv, PlacementInv, NEW t \in Threads, Puts(t), Put(t),
         NEW answered \in BOOLEAN, Leaves(t, answered), NEW x, GoOn(t, x), stale' = {}
  PROVE  Settled' /\ PlacedOnce'
<1> DEFINE j == job[t]
           p == j.todo[1]
<1>1. /\ PutsPlaced(j) /\ j.stage \in {"put", "put_recents"} /\ p = Head(j.todo) /\ p \in PutType
      /\ 1 \in 1 .. Len(j.todo) /\ PutSound(j, p)
  BY HeadPlaced, PutFacts
<1>2. stale = {} /\ (p.col = "content" => Current(t, p))
  BY <1>1 DEF Put
<1>3. /\ Settled /\ PlacedOnce /\ TargetsNamed /\ NothingUnrooted /\ "recents" \notin via_recents
      /\ via_recents \subseteq via_recents' /\ drawn' = drawn
  BY <1>2 DEF PlacementInv, Leaves, GoOn
<1>4. /\ p.id \in Ids
      /\ p.col = "content" => content'[p.id] = p.list
      /\ \A i \in Ids : i # p.id \/ p.col # "content" => content'[i] = content[i]
  BY <1>1, PutColumns
<1>5. ASSUME NEW u \in Threads, Bears(job'[u])
      PROVE  /\ job'[u].id = job[u].id /\ (u = t => Took(j))
             /\ u # t => Bears(job[u])
  BY <1>5, IdlePlaced DEF GoOn, Continues
<1>6. /\ Adds(j) => j.id \in NewIds /\ j.id \in drawn
      /\ OldEntry(j) => j.id \in Ids /\ (j.id \in NewIds => j.id \in drawn)
  BY <1>3, JobFacts DEF FilesInv, OneOwner, Shaped, OldEntry, TargetsNamed
<1>7. Directories \subseteq Ids /\ NewIds \subseteq Ids /\ Ids \ Directories = {"recents"}
  BY DEF Directories, Ids, Dirs
<1>8. p.col = "content" /\ At(t, "put") /\ p.id = "recents" /\ j.id \notin {None, "recents"}
        => j.id \in via_recents'
  BY <1>1 DEF Leaves
<1> HIDE DEF p
<1>9. CASE p.col # "content"
  <2>1. Loses
    BY <1>4, <1>7, <1>9 DEF Loses
  <2>2. ~ Took(j)
    BY <1>1, <1>9, PutNames
  <2> QED
    BY <1>2, <1>3, <1>5, <2>1, <2>2, LosesKeeps
<1>10. CASE p.col = "content" /\ j.again
  <2>1. Loses
    BY <1>2, <1>4, <1>7, <1>10 DEF Loses, Current
  <2>2. Took(j) => Bears(j)
    BY <1>10 DEF Took, Bears
  <2> QED
    BY <1>2, <1>3, <1>5, <2>1, <2>2, LosesKeeps
<1>11. CASE p.col = "content" /\ j.stage = "put_recents"
  <2>1. p.id = "recents"
    BY <1>1, <1>11 DEF PutSound
  <2>2. Loses
    BY <1>4, <1>7, <2>1 DEF Loses, Directories
  <2>3. ~ Took(j)
    BY <1>11 DEF Took
  <2> QED
    BY <1>2, <1>3, <1>5, <2>2, <2>3, LosesKeeps
<1>12. CASE p.col = "content" /\ ~ j.again /\ j.stage = "put" /\ j.op = "signup"
  <2>1. /\ (p.id = "root" /\ p.list = {"trash", "recents"}) \/ p.list = {}
        /\ p.id \notin stored /\ ~ Took(j)
    BY <1>1, <1>2, <1>12 DEF PutsPlaced, SigningPuts, Current, Took, p
  <2>2. CASE p.list = {}
    <3>1. Loses
      BY <1>4, <1>7, <1>12, <2>2 DEF Loses
    <3> QED
      BY <1>2, <1>3, <1>5, <2>1, <3>1, LosesKeeps
  <2>3. CASE p.id = "root" /\ p.list = {"trash", "recents"}
    <3>1. "root" \notin stored /\ \A c \in Ids : content[c] = {}
      BY <1>3, <2>1, <2>3 DEF NothingUnrooted
    <3>2. \A c \in Ids : IF c = "root" THEN content'[c] = {"trash", "recents"} ELSE content'[c] = {}
      BY <1>4, <1>12, <2>3, <3>1
    <3>3. \A u \in Threads : Bears(job'[u]) => Bears(job[u]) /\ job'[u].id = job[u].id
      BY <1>5, <2>1
    <3>4. \A u \in Threads : Bears(job[u]) => job[u].id \in NewIds
      <4>1. \A u \in Threads : Bears(job[u]) => Adds(job[u])
        BY <3>1 DEF Bears, Adds, PlacementInv, PutsPlaced
      <4> QED
        BY <4>1, JobFacts
    <3>5. ListedDrawn' /\ BorneNowhere'
      BY <1>7, <3>2, <3>3, <3>4 DEF ListedDrawn, BorneNowhere, Dirs
    <3>6. BorneOnce'
      BY <1>3, <3>3 DEF Settled, BorneOnce
    <3>7. PlacedOnce'
      BY <3>2 DEF PlacedOnce
    <3> QED
      BY <3>5, <3>6, <3>7 DEF Settled
  <2> QED
    BY <2>1, <2>2, <2>3
<1>13. ASSUME ~ j.again, j.stage = "put", p.col = "content", j.op # "signup"
       PROVE  content[p.id] = p.was
  BY <1>2, <1>13 DEF Current
<1>14. CASE p.col = "content" /\ ~ j.again /\ j.stage = "put" /\ j.op \in {"upload", "folder"}
  <2>1. ~ Took(j) /\ Adds(j)
    BY <1>14 DEF Took, Adds
  <2>2. IF Len(j.todo) = 4 THEN p.list = p.was \cup {j.id} ELSE p.list = {}
    BY <1>1, <1>14 DEF PutsPlaced, AddPuts, p
  <2>3. CASE Len(j.todo) = 4 /\ p.id # "recents"
    <3>1. Bears(j) /\ p.id \in Directories /\ content'[p.id] \subseteq content[p.id] \cup {j.id}
      BY <1>4, <1>7, <1>13, <1>14, <2>1, <2>2, <2>3 DEF Bears
    <3>2. \A c \in Directories \ {p.id} : content'[c] = content[c]
      BY <1>4, <1>7
    <3> QED
      BY <1>2, <1>3, <1>5, <1>6, <2>1, <3>1, <3>2, GivesKeeps
  <2>4. CASE Len(j.todo) # 4 \/ p.id = "recents"
    <3>1. Loses
      BY <1>4, <1>7, <1>14, <2>2, <2>4 DEF Loses, Directories
    <3> QED
      BY <1>2, <1>3, <1>5, <2>1, <3>1, LosesKeeps
  <2> QED
    BY <2>3, <2>4
<1>15. CASE p.col = "content" /\ ~ j.again /\ j.stage = "put" /\ j.op \in {"move", "delete"}
  <2>0. MovingPuts(j) /\ OldEntry(j) /\ content[p.id] = p.was
    BY <1>1, <1>13, <1>15 DEF PutsPlaced, OldEntry
  <2>1. CASE Len(j.todo) = 1 /\ j.dir = None
    <3>1. p.list \subseteq p.was
      BY <2>0, <2>1 DEF MovingPuts, TakePut, p
    <3>2. Loses /\ ~ Took(j)
      BY <1>4, <1>7, <1>15, <2>0, <2>1, <3>1 DEF Loses, Took
    <3> QED
      BY <1>2, <1>3, <1>5, <3>2, LosesKeeps
  <2>2. CASE Len(j.todo) = 1 /\ j.dir # None
    <3>1. p.id \in Directories /\ p.list = p.was \cup {j.id}
      BY <2>0, <2>2 DEF MovingPuts, GivePut, p
    <3>2. /\ Bears(j) /\ ~ Took(j)
          /\ content'[p.id] \subseteq content[p.id] \cup {j.id}
          /\ \A c \in Directories \ {p.id} : content'[c] = content[c]
      BY <1>4, <1>7, <1>15, <2>0, <2>2, <3>1 DEF Bears, Took
    <3> QED
      BY <1>2, <1>3, <1>5, <1>6, <2>0, <3>1, <3>2, GivesKeeps
  <2>3. CASE Len(j.todo) = 2
    <3>1. j.id \in p.was /\ p.list = p.was \ {j.id}
      BY <2>0, <2>3 DEF MovingPuts, TakePut, p
    <3>2. Loses /\ j.id \in content[p.id] /\ j.id \notin content'[p.id]
      BY <1>4, <1>7, <1>15, <2>0, <3>1 DEF Loses
    <3>3. ASSUME p.id = "recents" PROVE j.id \in via_recents'
      <4>1. j.id # "recents"
        <5>1. \A i \in content["recents"] \ via_recents : i \in NewIds
          BY DEF FilesInv, RowInv, RecentsComplete, FilesDrawn, Complete, ColumnTypes
        <5> QED
          BY <1>3, <3>2, <3>3, <5>1 DEF Dirs
      <4> QED
        BY <1>6, <1>8, <1>15, <2>0, <3>3, <4>1 DEF At
    <3>4. \/ j.id \in via_recents'
          \/ \E d \in Directories : j.id \in content[d] /\ j.id \notin content'[d]
      BY <1>4, <1>7, <3>2, <3>3
    <3> QED
      BY <1>2, <1>3, <1>5, <1>6, <2>0, <3>2, <3>4, TakesKeeps
  <2> QED
    BY <2>0, <2>1, <2>2, <2>3 DEF MovingPuts
<1>16. CASE /\ p.col = "content" /\ j.stage = "put"
            /\ j.op \notin {"upload", "folder", "move", "delete", "signup"}
  BY <1>1, <1>16 DEF PutsPlaced, ColumnPuts, p
<1> QED
  BY <1>1, <1>9, <1>10, <1>11, <1>12, <1>14, <1>15, <1>16

LEMMA WrittenPlaced ==
  ASSUME FilesInv, PlacementInv, NEW t \in Threads, Puts(t), Put(t),
         NEW answered \in BOOLEAN, Leaves(t, answered), NEW x, GoOn(t, x)
  PROVE  PlacementInv'
<1>1. stored \subseteq stored'
  BY PutGrows DEF Grows
<1>2. ASSUME NEW u \in Threads PROVE PutsPlaced(job[u])'
  <2>1. PutsPlaced(job[u]) /\ PutsPlaced(Idle) /\ PutsPlaced(x)'
    BY IdlePlaced DEF PlacementInv, GoOn
  <2>2. job'[u] \in {job[u], Idle, x}
    BY DEF GoOn
  <2>3. PICK j : j = job[u]
    OBVIOUS
  <2>4. PutsPlaced(j)' /\ PutsPlaced(Idle)'
    BY <1>1, <2>1, <2>3, PlacedGrows
  <2>5. job'[u] \in {j, Idle, x}
    BY <2>2, <2>3
  <2> QED
    BY <2>1, <2>4, <2>5
<1>3. TargetsNamed' /\ RootFirst' /\ NothingUnrooted' /\ "recents" \notin via_recents'
  BY WrittenNames, WrittenRooted
<1>4. stale' = {} => Settled' /\ PlacedOnce'
  BY WrittenSettled
<1>5. PlacedOnce'
  BY <1>4 DEF PlacedOnce
<1> QED
  BY <1>2, <1>3, <1>4, <1>5 DEF PlacementInv

LEMMA PutAnsweredPlaced ==
  ASSUME FilesInv, PlacementInv, NEW t \in Threads, PutAnswered(t) \/ LoseAnswer(t)
  PROVE  PlacementInv'
<1>1. PICK j : j = job[t]
  OBVIOUS
<1>2. PICK answered \in BOOLEAN : Leaves(t, answered)
  BY DEF PutAnswered, LoseAnswer
<1>3. Puts(t) /\ Put(t) /\ drawn' = drawn
  BY DEF PutAnswered, LoseAnswer
<1>4. stored \subseteq stored' /\ job \in [Threads -> JobType]
  BY <1>2, <1>3, PutGrows DEF Grows, FilesInv, JobsSound
<1> DEFINE x == [j EXCEPT !.again = TRUE]
<1>5. CASE PutAnswered(t)
  <2>1. Goes(t, AfterPut(j))
    BY <1>1, <1>5 DEF PutAnswered
  <2>2. PutsPlaced(AfterPut(j))' /\ (Bears(AfterPut(j)) => Took(j)) /\ Continues(AfterPut(j), j)
    BY <1>1, <1>2, <1>3, <1>4, AfterPutPlaced, AfterPutSound
  <2>3. GoOn(t, AfterPut(j))
    BY <1>1, <1>3, <1>4, <2>1, <2>2 DEF GoOn, Goes
  <2> QED
    BY <1>2, <1>3, <2>3, WrittenPlaced
<1>6. CASE LoseAnswer(t)
  <2>1. Goes(t, x)
    BY <1>1, <1>6 DEF LoseAnswer
  <2>2. PutsPlaced(x) /\ (Bears(x) => Took(j)) /\ Continues(x, j)
    BY <1>1, <1>3, AgainPlaced, AgainSound
  <2> HIDE DEF x
  <2>3. PutsPlaced(x)'
    BY <1>4, <2>2, PlacedGrows
  <2>4. GoOn(t, x)
    BY <1>1, <1>3, <1>4, <2>1, <2>2, <2>3 DEF GoOn, Goes
  <2> QED
    BY <1>2, <1>3, <2>4, WrittenPlaced
<1> QED
  BY <1>5, <1>6

LEMMA GiveUpPlaced ==
  ASSUME FilesInv, PlacementInv, NEW t \in Threads, GiveUp(t)
  PROVE  PlacementInv'
<1>1. PICK j : j = GivenUp(job[t])
  OBVIOUS
<1>2. /\ Goes(t, j) /\ drawn' = drawn /\ PutsPlaced(j) /\ ~ Bears(j) /\ Continues(j, job[t])
      /\ job \in [Threads -> JobType]
  BY <1>1, GivenUpPlaced, GivenUpSound DEF GiveUp, FilesInv, JobsSound
<1>3. CASE Puts(t) /\ Put(t) /\ Leaves(t, FALSE)
  <2>1. stored \subseteq stored'
    BY <1>3, PutGrows DEF Grows
  <2>2. PutsPlaced(j)'
    BY <1>2, <2>1, PlacedGrows
  <2>3. GoOn(t, j)
    BY <1>2, <2>2 DEF GoOn, Goes
  <2> QED
    BY <1>3, <2>3, WrittenPlaced
<1>4. CASE UNCHANGED <<columns, history>>
  BY <1>2, <1>4, GoesOnKeeps
<1> QED
  BY <1>3, <1>4 DEF GiveUp

LEMMA TerminatesPlaced ==
  ASSUME FilesInv, PlacementInv, NEW t \in Threads, DownloadThrows(t) \/ Crash(t)
  PROVE  PlacementInv'
<1>1. PICK S \in SUBSET Threads :
        /\ job' = [u \in Threads |-> IF u \in S THEN Idle ELSE job[u]]
        /\ \/ \E u \in S : Puts(u) /\ Put(u) /\ Leaves(u, FALSE)
           \/ UNCHANGED <<columns, history>>
  BY DEF DownloadThrows, Crash, Terminates
<1>2. drawn' = drawn /\ (\A u \in Threads : job'[u] \in {job[u], Idle})
  BY <1>1 DEF DownloadThrows, Crash
<1>3. CASE \E u \in S : Puts(u) /\ Put(u) /\ Leaves(u, FALSE)
  <2>1. PICK u \in S : Puts(u) /\ Put(u) /\ Leaves(u, FALSE)
    BY <1>3
  <2>2. u \in Threads /\ job'[u] = Idle /\ stored \subseteq stored'
    BY <1>1, <2>1, PutGrows DEF Grows
  <2>3. GoOn(u, Idle)
    BY <1>2, <2>2, IdlePlaced, PlacedGrows DEF GoOn, Continues
  <2> QED
    BY <2>1, <2>2, <2>3, WrittenPlaced
<1>4. CASE UNCHANGED <<columns, history>>
  BY <1>2, <1>4, IdlePlaced, UnwrittenKeeps
<1> QED
  BY <1>1, <1>3, <1>4

-----------------------------------------------------------------------------
LEMMA PlacementStep == FilesInv /\ PlacementInv /\ [Next]_vars => PlacementInv'
<1> SUFFICES ASSUME FilesInv, PlacementInv, [Next]_vars PROVE PlacementInv'
  OBVIOUS
<1>1. ASSUME NEW t \in Threads, Request(t) PROVE PlacementInv'
  <2>1. CASE signup(t)
    BY <2>1, SignupPlaced
  <2>2. CASE \E i \in Ids, path \in Paths, n \in Names : upload(t, i, path, n) \/ add_folder(t, i, path, n)
    BY <2>2, AddPlaced
  <2>3. CASE \E i \in Ids, path \in Paths :
               (\E new_path \in Paths : move_file(t, i, path, new_path)) \/ delete_file(t, i, path)
    BY <2>3, MoveDeletePlaced
  <2>4. CASE \E i \in Ids : \/ \E n \in Names : rename(t, i, n)
                            \/ \E op \in {"download", "star"} : OnEntry(t, i, op)
    BY <2>4, EntryPlaced
  <2> QED
    BY <1>1, <2>1, <2>2, <2>3, <2>4 DEF Request
<1>2. ASSUME NEW t \in Threads, Serve(t) PROVE PlacementInv'
  BY <1>2, CheckUserPlaced, WalkPlaced, ReadParentPlaced, ReadEntryPlaced, ReadOldPlaced,
     ReadNewPlaced, ReadRecentsPlaced, PutAnsweredPlaced, GiveUpPlaced, TerminatesPlaced DEF Serve
<1>3. CASE UNCHANGED vars
  <2>1. UNCHANGED <<columns, history>> /\ job' = job /\ drawn' = drawn
    BY <1>3 DEF vars
  <2>2. CASE Threads = {}
    BY <2>1, <2>2 DEF PlacementInv, TargetsNamed, RootFirst, NothingUnrooted, Settled, ListedDrawn,
           BorneNowhere, BorneOnce, PlacedOnce, columns, history
  <2>3. CASE Threads # {}
    <3>1. PICK t \in Threads : TRUE
      BY <2>3
    <3> QED
      BY <2>1, IdlePlaced, UnwrittenKeeps
  <2> QED
    BY <2>2, <2>3
<1> QED
  BY <1>1, <1>2, <1>3 DEF Next, Rest

(* move_helper takes an entry out of a directory before it puts it into    *)
(* another (line 533), and an upload puts an id nobody else has into one:  *)
(* under any interleaving and failure an entry is in one directory at      *)
(* most, as long as every directory is written from current lists.         *)
THEOREM PlacedOnceHolds == Spec => []PlacedOnce
<1>1. PlacementInv => PlacedOnce
  BY DEF PlacementInv
<1>2. Spec => []PlacementInv
  BY FilesInvariant, PlacementInit, PlacementStep, PTL DEF Spec
<1> QED
  BY <1>1, <1>2, PTL
=============================================================================
