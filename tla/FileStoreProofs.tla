---------------------------- MODULE FileStoreProofs ----------------------------
(***************************************************************************)
(* The file SessionStore is crash safe for any number of Sessions, keys,   *)
(* revisions, failures and crashes: every file a loss of power may leave   *)
(* can be read (AlwaysReadable), a Commit that is answered names the place *)
(* of its entry (AnswersTrue), the Store implements the durable log        *)
(* (DurableLogSpec), and a traversal of the listing misses nothing and     *)
(* repeats nothing (WalkComplete).                                         *)
(*                                                                         *)
(* The invariant says of every file that may be left what makes a document *)
(* sound, that its log is a prefix of the one the process sees and reaches *)
(* as far as any caller was told, and of the operation at work that its    *)
(* document adds one entry, once.  The traversal has an invariant of its   *)
(* own (WalkInv): while its cursor is honoured, what is written leaves the *)
(* part that is still to come.                                             *)
(***************************************************************************)
EXTENDS FileStore, FiniteSetTheorems, TLAPS

Items == Keys \cup {"created", "recovered"}

\* Positions of two logs agree as far as the first one goes.
Prefix(l, m) == Len(l) <= Len(m) /\ \A i \in 1..Len(l) : l[i] = m[i]

Shape(doc) == DOMAIN doc = DOMAIN NoFile

\* Every record of a key names its entry, and every entry of a key has a record.
Recording(doc) ==
  /\ \A r \in doc.idem : /\ r.revision \in 1..Len(doc.log)
                         /\ doc.log[r.revision] = r.request.key
  /\ \A i \in 1..Len(doc.log) :
       doc.log[i] \in Keys => \E r \in doc.idem : r.request.key = doc.log[i]

Sound(doc) ==
  /\ Shape(doc)
  /\ doc.log \in Seq(Items) /\ Len(doc.log) <= MaxRevision
  /\ ~doc.torn /\ doc.hooks \in BOOLEAN /\ doc.format \in {1, 2}
  /\ (doc.format = 2) <=> doc.hooks
  /\ Recording(doc)

FilesInv ==
  /\ DOMAIN dir = Sessions /\ DOMAIN disk = Sessions
  /\ kept \in [Sessions -> 0..MaxRevision]
  /\ \A s \in Sessions :
       /\ dir[s] \in disk[s]
       /\ \A doc \in disk[s] : /\ Sound(doc) /\ Prefix(doc.log, dir[s].log)
                               /\ kept[s] <= Len(doc.log)

\* The document of op adds the entry e to the log l.
Adds(l, e) ==
  /\ op.doc.log = Append(l, e)
  /\ e \in Keys => \A i \in 1..Len(l) : l[i] # e
  /\ op.kind = "commit" => e = op.key

OpInv ==
  /\ DOMAIN op = DOMAIN NoOp /\ op.session \in Sessions
  /\ op.step \in {"none", "written", "synced", "renamed"}
  /\ (op.step = "none") <=> (op = NoOp)
  /\ op.step # "none" => Sound(op.doc)
  /\ op.step \in {"written", "synced"} => \E e \in Items : Adds(dir[op.session].log, e)
  /\ op.step = "renamed" =>
       /\ dir[op.session] = op.doc
       /\ op.kind = "commit" => op.doc.log[Len(op.doc.log)] = op.key /\ op.doc.log # <<>>

ListInv ==
  /\ DOMAIN index = DOMAIN ResetIndex(0)
  /\ index.generation \in Nat
  /\ index.created \in [Sessions -> 0..index.generation]
  /\ DOMAIN walk = DOMAIN NoWalk
  /\ walk.state \in {"none", "open", "done"}
  /\ opened \in BOOLEAN /\ trouble \in 0..MaxTrouble

IInv == FilesInv /\ OpInv /\ ListInv

\* The bounds are numbers, and the Store's own entries are no keys.
LEMMA Constants ==
  /\ MaxRevision \in Nat /\ MaxTrouble \in Nat
  /\ "created" \notin Keys /\ "recovered" \notin Keys
BY FileAssumption

\* The empty file is a sound document.
LEMMA NoFileSound == Sound(NoFile) /\ NoFile.log = <<>>
<1>1. NoFile.log = <<>> /\ NoFile.format = 1 /\ NoFile.idem = {}
  BY DEF NoFile
<1>2. <<>> \in Seq(Items) /\ Len(<<>>) = 0
  OBVIOUS
<1>3. Recording(NoFile)
  BY <1>1, <1>2 DEF Recording
<1>4. ~NoFile.torn /\ ~NoFile.hooks /\ NoFile.hooks \in BOOLEAN
  BY DEF NoFile
<1> QED
  BY <1>1, <1>2, <1>3, <1>4, Constants DEF Sound, Shape

\* A sound document can be read.
LEMMA SoundReadable ==
  ASSUME NEW doc, Sound(doc)
  PROVE  Readable(doc)
<1>1. doc.hooks \in BOOLEAN /\ ((doc.format = 2) <=> doc.hooks) /\ ~doc.torn
  BY DEF Sound
<1>2. (doc.format = 2) = doc.hooks
  BY <1>1, Zenon
<1> QED
  BY <1>1, <1>2 DEF Readable

\* An empty directory satisfies the invariant.
LEMMA InitInv == Init => IInv
<1> SUFFICES ASSUME Init PROVE IInv
  OBVIOUS
<1>1. FilesInv
  BY NoFileSound, Constants DEF Init, FilesInv, Prefix
<1>2. OpInv
  BY ListAssumption DEF Init, OpInv, NoOp, Sessions
<1>3. ListInv
  <2>1. /\ ResetIndex(0).generation = 0 /\ ResetIndex(0).created = [s \in Sessions |-> 0]
        /\ NoWalk.state = "none"
    BY DEF ResetIndex, NoWalk
  <2> QED
    <3>1. opened \in BOOLEAN
      BY DEF Init
    <3>2. trouble \in 0..MaxTrouble
      BY Constants DEF Init
    <3> QED
      BY <2>1, <3>1, <3>2 DEF Init, ListInv
<1> QED
  BY <1>1, <1>2, <1>3 DEF IInv

-----------------------------------------------------------------------------
(* The documents that operations write.                                    *)

\* Create writes a sound document.
LEMMA CreatedSound ==
  ASSUME NEW t, 0 < MaxRevision
  PROVE  LET doc == [NoFile EXCEPT !.log = <<"created">>, !.at = t]
         IN  Sound(doc) /\ doc.log = Append(NoFile.log, "created")
<1> DEFINE doc == [NoFile EXCEPT !.log = <<"created">>, !.at = t]
<1>1. /\ DOMAIN doc = DOMAIN NoFile /\ doc.log = <<"created">>
      /\ doc.format = 1 /\ doc.idem = {}
  BY DEF NoFile
<1>0. ~doc.torn /\ ~doc.hooks /\ doc.hooks \in BOOLEAN
  BY DEF NoFile
<1> HIDE DEF doc
<1>2. <<"created">> \in Seq(Items) /\ Len(<<"created">>) = 1 /\ <<"created">>[1] = "created"
  BY DEF Items
<1>3. Shape(doc) /\ Recording(doc)
  BY <1>1, <1>2, Constants DEF Shape, Recording
<1>4. Sound(doc)
  BY <1>0, <1>1, <1>2, <1>3, Constants DEF Sound
<1>5. doc.log = Append(NoFile.log, "created")
  BY <1>1, NoFileSound
<1> QED
  BY <1>4, <1>5 DEF doc

\* What a log becomes when an entry is appended.
LEMMA AppendLog ==
  ASSUME NEW l \in Seq(Items), NEW e \in Items
  PROVE  /\ Append(l, e) \in Seq(Items) /\ Len(Append(l, e)) = Len(l) + 1
         /\ Append(l, e)[Len(l) + 1] = e
         /\ \A i \in 1..Len(l) : Append(l, e)[i] = l[i]
OBVIOUS

\* Recover writes a sound document.
LEMMA RecoveredSound ==
  ASSUME NEW old, Sound(old), Len(old.log) < MaxRevision, NEW t
  PROVE  LET doc == [old EXCEPT !.log = Append(@, "recovered"), !.run = FALSE, !.at = t]
         IN  Sound(doc) /\ doc.log = Append(old.log, "recovered")
<1> DEFINE doc == [old EXCEPT !.log = Append(@, "recovered"), !.run = FALSE, !.at = t]
           log == Append(old.log, "recovered")
<1>1. DOMAIN NoFile = {"log", "torn", "run", "hooks", "format", "idem", "at"}
  BY DEF NoFile
<1>2. /\ DOMAIN doc = DOMAIN NoFile /\ doc.log = log /\ doc.torn = old.torn
      /\ doc.hooks = old.hooks /\ doc.format = old.format /\ doc.idem = old.idem
  BY <1>1 DEF Sound, Shape
<1>3. /\ log \in Seq(Items) /\ Len(log) = Len(old.log) + 1 /\ log[Len(old.log) + 1] = "recovered"
      /\ \A i \in 1..Len(old.log) : log[i] = old.log[i]
  BY AppendLog DEF Sound, Items
<1>4. Len(old.log) \in Nat /\ MaxRevision \in Nat
  BY Constants DEF Sound
<1> HIDE DEF doc, log
<1>5. Recording(doc)
  <2>1. \A i \in 1..Len(log) : log[i] \in Keys => i \in 1..Len(old.log)
    BY <1>3, <1>4, Constants
  <2>2. Recording(old)
    BY DEF Sound
  <2> QED
    BY <1>2, <1>3, <1>4, <2>1, <2>2 DEF Recording
<1>6. Sound(doc)
  BY <1>2, <1>3, <1>4, <1>5 DEF Sound, Shape
<1> QED
  BY <1>2, <1>6 DEF doc, log

\* A key that no record names has no entry.
LEMMA FreshNotInLog ==
  ASSUME NEW doc, Sound(doc), NEW request, Fresh(doc, request), request.key \in Keys
  PROVE  \A i \in 1..Len(doc.log) : doc.log[i] # request.key
<1>1. \A r \in doc.idem : r.request.key # request.key
  BY DEF Fresh, Recorded
<1> QED
  BY <1>1 DEF Sound, Recording

\* Commit writes a sound document.
LEMMA CommittedSound ==
  ASSUME NEW old, Sound(old), Len(old.log) < MaxRevision,
         NEW request, request.key \in Keys, NEW t
  PROVE  /\ Sound(Committed(old, request, t))
         /\ Committed(old, request, t).log = Append(old.log, request.key)
<1> DEFINE doc == Committed(old, request, t)
           log == Append(old.log, request.key)
           rec == RecordOf(old, request)
<1>1. DOMAIN NoFile = {"log", "torn", "run", "hooks", "format", "idem", "at"}
  BY DEF NoFile
<1>2. /\ DOMAIN doc = DOMAIN NoFile /\ doc.log = log /\ doc.torn = old.torn
      /\ doc.hooks = (old.hooks \/ request.change = "hook")
      /\ doc.format = IF old.format = 1 /\ (old.hooks \/ request.change = "hook")
                      THEN 2 ELSE old.format
      /\ doc.idem = old.idem \cup {rec}
  BY <1>1 DEF Sound, Shape, Committed
<1>3. /\ log \in Seq(Items) /\ Len(log) = Len(old.log) + 1 /\ log[Len(old.log) + 1] = request.key
      /\ \A i \in 1..Len(old.log) : log[i] = old.log[i]
  BY AppendLog DEF Sound, Items
<1>4. Len(old.log) \in Nat /\ MaxRevision \in Nat
  BY Constants DEF Sound
<1>5. rec.request = request /\ rec.revision = Len(old.log) + 1
  BY DEF RecordOf, Revision
<1>6. /\ ~doc.torn /\ doc.hooks \in BOOLEAN /\ doc.format \in {1, 2}
      /\ (doc.format = 2) <=> doc.hooks
  <2>0. old.hooks \in BOOLEAN /\ old.format \in {1, 2} /\ ((old.format = 2) <=> old.hooks) /\ ~old.torn
    BY DEF Sound
  <2>00. 1 # 2
    OBVIOUS
  <2> HIDE DEF doc
  <2>1. doc.hooks \in BOOLEAN /\ ~doc.torn
    BY <1>2, <2>0, Zenon
  <2>2. CASE old.format = 2
    <3>1. old.hooks /\ doc.hooks
      BY <1>2, <2>0, <2>2, Zenon
    <3>2. doc.format = 2
      BY <1>2, <2>2, <2>00, Zenon
    <3> QED
      BY <2>1, <3>1, <3>2, Zenon
  <2>3. CASE old.format = 1
    <3>1. ~old.hooks
      BY <2>0, <2>3, <2>00, Zenon
    <3>2. CASE request.change = "hook"
      <4>1. doc.hooks /\ doc.format = 2
        BY <1>2, <2>3, <3>2, Zenon
      <4> QED
        BY <2>1, <4>1, Zenon
    <3>3. CASE request.change # "hook"
      <4>1. ~doc.hooks /\ doc.format = 1
        BY <1>2, <2>3, <3>1, <3>3, Zenon
      <4> QED
        BY <2>1, <4>1, <2>00, Zenon
    <3> QED
      BY <3>2, <3>3
  <2> QED
    BY <2>0, <2>2, <2>3, Zenon
<1> HIDE DEF doc, log, rec
<1>7. Recording(doc)
  <2>1. Recording(old)
    BY DEF Sound
  <2>2. ASSUME NEW r \in doc.idem
        PROVE  r.revision \in 1..Len(doc.log) /\ doc.log[r.revision] = r.request.key
    <3>1. CASE r \in old.idem
      BY <1>2, <1>3, <1>4, <2>1, <3>1 DEF Recording
    <3>2. CASE r = rec
      BY <1>2, <1>3, <1>4, <1>5, <3>2
    <3> QED
      BY <1>2, <3>1, <3>2
  <2>3. ASSUME NEW i \in 1..Len(doc.log), doc.log[i] \in Keys
        PROVE  \E r \in doc.idem : r.request.key = doc.log[i]
    <3>1. CASE i = Len(old.log) + 1
      BY <1>2, <1>3, <1>5, <3>1
    <3>2. CASE i \in 1..Len(old.log)
      BY <1>2, <1>3, <2>1, <2>3, <3>2 DEF Recording
    <3> QED
      BY <1>2, <1>3, <1>4, <3>1, <3>2
  <2> QED
    BY <2>2, <2>3 DEF Recording
<1>8. Sound(doc)
  <2>1. Shape(doc)
    BY <1>2 DEF Shape
  <2>2. doc.log \in Seq(Items) /\ Len(doc.log) <= MaxRevision
    BY <1>2, <1>3, <1>4
  <2> QED
    BY <1>6, <1>7, <2>1, <2>2 DEF Sound
<1> QED
  BY <1>2, <1>8 DEF doc, log
-----------------------------------------------------------------------------
(* The steps.                                                              *)

\* A step that leaves the files and the operation alone.
LEMMA FilesFrame ==
  ASSUME FilesInv, UNCHANGED <<dir, disk, kept>>
  PROVE  FilesInv'
BY DEF FilesInv

LEMMA OpFrame ==
  ASSUME OpInv, UNCHANGED <<dir, op>>
  PROVE  OpInv'
BY DEF OpInv, Adds

\* persistLocked begins with a sound document that adds one entry.
LEMMA PersistKeeps ==
  ASSUME IInv, NEW kind, NEW s \in Sessions, NEW doc, NEW key, NEW e \in Items,
         Persist(kind, s, doc, key), UNCHANGED <<dir, disk, kept>>,
         Sound(doc), doc.log = Append(dir[s].log, e),
         e \in Keys => \A i \in 1..Len(dir[s].log) : dir[s].log[i] # e,
         kind = "commit" => e = key
  PROVE  FilesInv' /\ OpInv' /\ DOMAIN walk' = DOMAIN NoWalk
         /\ walk'.state \in {"none", "open", "done"}
<1>1. FilesInv'
  BY FilesFrame DEF IInv
<1>2. /\ op'.step = "written" /\ op'.kind = kind /\ op'.session = s /\ op'.doc = doc
      /\ op'.key = key /\ DOMAIN op' = DOMAIN NoOp
  BY DEF Persist, NoOp
<1>3. op' # NoOp
  BY <1>2 DEF NoOp
<1>4. Adds(dir[s].log, e)'
  BY <1>2 DEF Adds
<1>5. OpInv'
  BY <1>2, <1>3, <1>4 DEF OpInv
<1>6. DOMAIN walk' = DOMAIN NoWalk /\ walk'.state \in {"none", "open", "done"}
  <2>1. DOMAIN NoWalk = {"cursor", "returned", "start", "moved", "state"}
    BY DEF NoWalk
  <2>2. DOMAIN walk = DOMAIN NoWalk /\ walk.state \in {"none", "open", "done"}
    BY DEF IInv, ListInv
  <2> QED
    BY <2>1, <2>2 DEF Persist
<1> QED
  BY <1>1, <1>5, <1>6

\* What the index becomes keeps its shape and its creation times in range.
LEMMA StampKeeps ==
  ASSUME ListInv, NEW at, index' = Stamped(index, at)
  PROVE  /\ DOMAIN index' = DOMAIN ResetIndex(0) /\ index'.generation \in Nat
         /\ index'.created \in [Sessions -> 0..index'.generation]
<1>1. DOMAIN ResetIndex(0) = {"epoch", "generation", "created", "last"}
  BY DEF ResetIndex
<1>2. DOMAIN index' = DOMAIN index /\ index'.generation = index.generation
      /\ index'.created = index.created
  BY <1>1 DEF Stamped, ListInv
<1> QED
  BY <1>2 DEF ListInv

LEMMA CreateKeepsIndex ==
  ASSUME ListInv, NEW s \in Sessions, NEW at, index' = RecordCreate(index, s, at)
  PROVE  /\ DOMAIN index' = DOMAIN ResetIndex(0) /\ index'.generation \in Nat
         /\ index'.created \in [Sessions -> 0..index'.generation]
<1>1. DOMAIN ResetIndex(0) = {"epoch", "generation", "created", "last"}
  BY DEF ResetIndex
<1>2. /\ DOMAIN index' = DOMAIN index /\ index'.generation = index.generation + 1
      /\ index'.created = [index.created EXCEPT ![s] = index.generation + 1]
  BY <1>1 DEF RecordCreate, ListInv
<1> QED
  BY <1>2 DEF ListInv

\* The list's part of the invariant only speaks of what a step leaves there.
LEMMA ListStep ==
  ASSUME ListInv, opened' \in BOOLEAN, trouble' \in 0..MaxTrouble,
         DOMAIN walk' = DOMAIN NoWalk, walk'.state \in {"none", "open", "done"},
         DOMAIN index' = DOMAIN ResetIndex(0), index'.generation \in Nat,
         index'.created \in [Sessions -> 0..index'.generation]
  PROVE  ListInv'
BY DEF ListInv

\* A Session's document is sound.
LEMMA DirSound ==
  ASSUME FilesInv, NEW s \in Sessions
  PROVE  Sound(dir[s])
BY DEF FilesInv

\* What Create, Commit and Recover write adds one entry to a sound document,
\* once; a key's only if the Session has none of that key.
LEMMA CreateKeeps ==
  ASSUME IInv, NEW s \in Sessions, Create(s)
  PROVE  IInv' /\ \E t : Persist("create", s, [NoFile EXCEPT !.log = <<"created">>, !.at = t], "none")
<1> USE DEF IInv
<1>1. PICK now \in Times :
        LET at == NextUpdatedAt(index, 0, now) IN
        /\ index' = RecordCreate(index, s, at)
        /\ Persist("create", s, [NoFile EXCEPT !.log = <<"created">>, !.at = at], "none")
  BY DEF Create
<1> DEFINE at == NextUpdatedAt(index, 0, now)
           doc == [NoFile EXCEPT !.log = <<"created">>, !.at = at]
<1>2. index' = RecordCreate(index, s, at) /\ Persist("create", s, doc, "none")
  BY <1>1
<1>3. dir[s] = NoFile /\ Len(dir[s].log) = 0 /\ Len(dir[s].log) < MaxRevision
  <2>1. dir[s] = NoFile
    BY DEF Create, Exists
  <2>2. Len(dir[s].log) < MaxRevision
    BY DEF Create, Room, Revision
  <2> QED
    BY <2>1, <2>2, NoFileSound
<1>4. Sound(doc) /\ doc.log = Append(dir[s].log, "created")
  BY <1>3, CreatedSound
<1>5. "created" \in Items /\ "created" \notin Keys /\ "create" # "commit"
  BY Constants DEF Items
<1>6. UNCHANGED <<dir, disk, opened, kept, trouble>>
  BY DEF Create
<1> HIDE DEF doc
<1>7. FilesInv' /\ OpInv' /\ DOMAIN walk' = DOMAIN NoWalk /\ walk'.state \in {"none", "open", "done"}
  BY <1>2, <1>4, <1>5, <1>6, PersistKeeps
<1> HIDE DEF at
<1>8. ListInv'
  <2>1. opened' \in BOOLEAN /\ trouble' \in 0..MaxTrouble
    BY <1>6 DEF ListInv
  <2> QED
    BY <1>2, <1>7, <2>1, CreateKeepsIndex, ListStep
<1>9. Persist("create", s, [NoFile EXCEPT !.log = <<"created">>, !.at = at], "none")
  BY <1>2 DEF doc
<1> QED
  BY <1>7, <1>8, <1>9

LEMMA CommitKeeps ==
  ASSUME IInv, NEW s \in Sessions, NEW request \in Requests, Commit(s, request)
  PROVE  IInv'
<1> USE DEF IInv
<1>1. PICK now \in Times :
        LET at == NextUpdatedAt(index, dir[s].at, now) IN
        /\ index' = Stamped(index, at)
        /\ Persist("commit", s, Committed(dir[s], request, at), request.key)
  BY DEF Commit
<1> DEFINE at == NextUpdatedAt(index, dir[s].at, now)
           doc == Committed(dir[s], request, at)
<1>2. index' = Stamped(index, at) /\ Persist("commit", s, doc, request.key)
  BY <1>1
<1>3. Len(dir[s].log) < MaxRevision /\ Sound(dir[s]) /\ Fresh(dir[s], request)
  BY DirSound DEF Commit, Room, Revision
<1>4. request.key \in Keys /\ request.key \in Items
  BY DEF Requests, Items
<1>5. Sound(doc) /\ doc.log = Append(dir[s].log, request.key)
  BY <1>3, <1>4, CommittedSound
<1>6. \A i \in 1..Len(dir[s].log) : dir[s].log[i] # request.key
  BY <1>3, <1>4, FreshNotInLog
<1>7. UNCHANGED <<dir, disk, opened, kept, trouble>>
  BY DEF Commit
<1> HIDE DEF doc, at
<1>8. FilesInv' /\ OpInv' /\ DOMAIN walk' = DOMAIN NoWalk /\ walk'.state \in {"none", "open", "done"}
  BY <1>2, <1>4, <1>5, <1>6, <1>7, PersistKeeps
<1>9. ListInv'
  <2>1. opened' \in BOOLEAN /\ trouble' \in 0..MaxTrouble
    BY <1>7 DEF ListInv
  <2> QED
    BY <1>2, <1>8, <2>1, StampKeeps, ListStep
<1> QED
  BY <1>8, <1>9

LEMMA RecoverKeeps ==
  ASSUME IInv, NEW s \in Sessions, Recover(s)
  PROVE  IInv'
<1> USE DEF IInv
<1>1. PICK now \in Times :
        LET at == NextUpdatedAt(index, dir[s].at, now) IN
        /\ index' = Stamped(index, at)
        /\ Persist("recover", s,
                   [dir[s] EXCEPT !.log = Append(@, "recovered"), !.run = FALSE, !.at = at], "none")
  BY DEF Recover
<1> DEFINE at == NextUpdatedAt(index, dir[s].at, now)
           doc == [dir[s] EXCEPT !.log = Append(@, "recovered"), !.run = FALSE, !.at = at]
<1>2. index' = Stamped(index, at) /\ Persist("recover", s, doc, "none")
  BY <1>1
<1>3. Len(dir[s].log) < MaxRevision /\ Sound(dir[s])
  BY DirSound DEF Recover, Room, Revision
<1>4. Sound(doc) /\ doc.log = Append(dir[s].log, "recovered")
  BY <1>3, RecoveredSound
<1>5. "recovered" \in Items /\ "recovered" \notin Keys /\ "recover" # "commit"
  BY Constants DEF Items
<1>6. UNCHANGED <<dir, disk, opened, kept, trouble>>
  BY DEF Recover
<1> HIDE DEF doc, at
<1>7. FilesInv' /\ OpInv' /\ DOMAIN walk' = DOMAIN NoWalk /\ walk'.state \in {"none", "open", "done"}
  BY <1>2, <1>4, <1>5, <1>6, PersistKeeps
<1>8. ListInv'
  <2>1. opened' \in BOOLEAN /\ trouble' \in 0..MaxTrouble
    BY <1>6 DEF ListInv
  <2> QED
    BY <1>2, <1>7, <2>1, StampKeeps, ListStep
<1> QED
  BY <1>7, <1>8

\* The steps that leave the files and the operation alone.
Quiet ==
  \/ Open \/ Close \/ ListSessions \/ CursorRefused
  \/ \E s \in Sessions, request \in Requests : Replay(s, request)

LEMMA QuietKeeps ==
  ASSUME IInv, Quiet
  PROVE  IInv'
<1>1. UNCHANGED <<dir, disk, kept, op, trouble>>
  BY DEF Quiet, Open, Close, ListSessions, CursorRefused, Replay
<1>2. FilesInv' /\ OpInv'
  BY <1>1, FilesFrame, OpFrame DEF IInv
<1>3. ListInv
  BY DEF IInv
<1>4. trouble' \in 0..MaxTrouble
  BY <1>1, <1>3 DEF ListInv
<1>5. DOMAIN ResetIndex(0) = {"epoch", "generation", "created", "last"}
  BY DEF ResetIndex
<1>6. DOMAIN NoWalk = {"cursor", "returned", "start", "moved", "state"}
  BY DEF NoWalk
<1>7. DOMAIN walk = DOMAIN NoWalk /\ walk.state \in {"none", "open", "done"} /\ opened \in BOOLEAN
  BY <1>3 DEF ListInv
<1>8. /\ DOMAIN index = DOMAIN ResetIndex(0) /\ index.generation \in Nat
      /\ index.created \in [Sessions -> 0..index.generation]
  BY <1>3 DEF ListInv
<1>9. ASSUME NEW seen, seen = Observed(index, Summaries)
      PROVE  /\ DOMAIN seen = DOMAIN ResetIndex(0) /\ seen.generation \in Nat
             /\ seen.created \in [Sessions -> 0..seen.generation]
  BY <1>5, <1>8, <1>9 DEF Observed
<1>10. CASE Open
  <2>1. opened' \in BOOLEAN /\ walk' = walk /\ index' = ResetIndex(index.epoch + 1)
    BY <1>10 DEF Open
  <2>2. /\ DOMAIN index' = DOMAIN ResetIndex(0) /\ index'.generation = 0
        /\ index'.created = [s \in Sessions |-> 0]
    BY <2>1 DEF ResetIndex
  <2>3. index'.generation \in Nat /\ index'.created \in [Sessions -> 0..index'.generation]
    BY <2>2
  <2>4. DOMAIN walk' = DOMAIN NoWalk /\ walk'.state \in {"none", "open", "done"}
    BY <1>7, <2>1
  <2> QED
    BY <1>2, <1>3, <1>4, <2>1, <2>2, <2>3, <2>4, ListStep DEF IInv
<1>11. CASE Close \/ \E s \in Sessions, request \in Requests : Replay(s, request)
  <2>1. opened' \in BOOLEAN
    BY <1>7, <1>11 DEF Close, Replay
  <2>2. walk' = walk /\ index' = index
    BY <1>11 DEF Close, Replay
  <2> QED
    BY <1>2, <1>3, <1>4, <1>7, <1>8, <2>1, <2>2, ListStep DEF IInv
<1>12. CASE ListSessions
  <2>1. index' = Observed(index, Summaries) /\ opened' = opened
    BY <1>12 DEF ListSessions
  <2>2. DOMAIN walk' = DOMAIN NoWalk /\ walk'.state \in {"none", "open", "done"}
    BY <1>6, <1>12 DEF ListSessions
  <2> QED
    BY <1>2, <1>3, <1>4, <1>7, <1>9, <2>1, <2>2, ListStep DEF IInv
<1>13. CASE CursorRefused
  <2>1. index' = Observed(index, Summaries) /\ opened' = opened /\ walk' = NoWalk
    BY <1>13 DEF CursorRefused
  <2>2. walk'.state \in {"none", "open", "done"}
    BY <2>1 DEF NoWalk
  <2> QED
    BY <1>2, <1>3, <1>4, <1>7, <1>9, <2>1, <2>2, ListStep DEF IInv
<1> QED
  BY <1>10, <1>11, <1>12, <1>13 DEF Quiet

\* A step of the operation at work leaves the listing alone.
LEMMA ListFrame ==
  ASSUME ListInv, UNCHANGED <<index, walk, trouble>>, opened' \in BOOLEAN
  PROVE  ListInv'
BY DEF ListInv

\* What op's EXCEPT to another step changes.
LEMMA NextStep ==
  ASSUME OpInv, NEW step, op' = [op EXCEPT !.step = step]
  PROVE  /\ DOMAIN op' = DOMAIN NoOp /\ op'.step = step /\ op'.kind = op.kind
         /\ op'.session = op.session /\ op'.doc = op.doc /\ op'.key = op.key
<1>1. DOMAIN NoOp = {"step", "kind", "session", "doc", "key"}
  BY DEF NoOp
<1> QED
  BY <1>1 DEF OpInv

LEMMA SyncTempKeeps ==
  ASSUME IInv, SyncTemp
  PROVE  IInv'
<1> USE DEF IInv
<1>1. UNCHANGED <<dir, disk, opened, index, kept, walk, trouble>>
  BY DEF SyncTemp
<1>2. op.step = "written" /\ op' = [op EXCEPT !.step = "synced"]
  BY DEF SyncTemp
<1>3. FilesInv' /\ ListInv'
  <2>1. opened' \in BOOLEAN
    BY <1>1 DEF ListInv
  <2> QED
    BY <1>1, <2>1, FilesFrame, ListFrame
<1>4. /\ DOMAIN op' = DOMAIN NoOp /\ op'.step = "synced" /\ op'.kind = op.kind
      /\ op'.session = op.session /\ op'.doc = op.doc /\ op'.key = op.key
  BY <1>2, NextStep
<1>5. op' # NoOp
  BY <1>4 DEF NoOp
<1>6. Sound(op.doc) /\ op.session \in Sessions /\ \E e \in Items : Adds(dir[op.session].log, e)
  BY <1>2 DEF OpInv
<1>7. (\E e \in Items : Adds(dir[op.session].log, e))'
  BY <1>1, <1>4, <1>6 DEF Adds
<1> QED
  BY <1>3, <1>4, <1>5, <1>6, <1>7 DEF OpInv

\* A log is a prefix of itself and of what it becomes when entries are added.
LEMMA PrefixGrows ==
  ASSUME NEW l \in Seq(Items), NEW m \in Seq(Items), NEW e \in Items, Prefix(l, m)
  PROVE  Prefix(l, Append(m, e)) /\ Prefix(m, m)
BY DEF Prefix

LEMMA RenameKeeps ==
  ASSUME IInv, Rename
  PROVE  IInv'
<1> USE DEF IInv
<1>1. op.step = "synced" /\ op.session \in Sessions /\ Sound(op.doc)
  BY DEF Rename, CanRename, OpInv
<1>2. /\ dir' = [dir EXCEPT ![op.session] = op.doc]
      /\ disk' = [disk EXCEPT ![op.session] = @ \cup {op.doc}]
      /\ op' = [op EXCEPT !.step = "renamed"]
      /\ UNCHANGED <<opened, index, kept, walk, trouble>>
  BY <1>1 DEF Rename, Left
<1>3. PICK e \in Items : Adds(dir[op.session].log, e)
  BY <1>1 DEF OpInv
<1>4. op.doc.log = Append(dir[op.session].log, e) /\ (op.kind = "commit" => e = op.key)
  BY <1>3 DEF Adds
<1>5. FilesInv'
  <2>1. /\ DOMAIN dir' = Sessions /\ DOMAIN disk' = Sessions
        /\ kept' \in [Sessions -> 0..MaxRevision]
    BY <1>2 DEF FilesInv
  <2>2. ASSUME NEW s \in Sessions, s # op.session
        PROVE  dir'[s] = dir[s] /\ disk'[s] = disk[s] /\ kept'[s] = kept[s]
    BY <1>2, <2>2 DEF FilesInv
  <2>3. /\ dir'[op.session] = op.doc /\ disk'[op.session] = disk[op.session] \cup {op.doc}
        /\ kept'[op.session] = kept[op.session]
    BY <1>1, <1>2 DEF FilesInv
  <2>4. Sound(dir[op.session]) /\ dir[op.session] \in disk[op.session]
        /\ kept[op.session] <= Len(dir[op.session].log) /\ kept[op.session] \in Nat
    BY <1>1 DEF FilesInv
  <2>5. dir[op.session].log \in Seq(Items) /\ op.doc.log \in Seq(Items)
    BY <1>1, <2>4 DEF Sound
  <2>6. Len(op.doc.log) = Len(dir[op.session].log) + 1
    BY <1>4, <2>5, AppendLog
  <2>7. ASSUME NEW doc \in disk'[op.session]
        PROVE  /\ Sound(doc) /\ Prefix(doc.log, dir'[op.session].log)
               /\ kept'[op.session] <= Len(doc.log)
    <3>1. CASE doc \in disk[op.session]
      <4>1. /\ Sound(doc) /\ Prefix(doc.log, dir[op.session].log)
            /\ kept[op.session] <= Len(doc.log)
        BY <1>1, <3>1 DEF FilesInv
      <4>2. doc.log \in Seq(Items)
        BY <4>1 DEF Sound
      <4>3. Prefix(doc.log, op.doc.log)
        BY <1>4, <2>5, <4>1, <4>2, PrefixGrows
      <4> QED
        BY <2>3, <4>1, <4>3
    <3>2. CASE doc = op.doc
      <4>1. Prefix(op.doc.log, op.doc.log)
        BY <2>5 DEF Prefix
      <4> QED
        BY <1>1, <2>3, <2>4, <2>5, <2>6, <3>2, <4>1
    <3> QED
      BY <2>3, <3>1, <3>2
  <2>8. ASSUME NEW s \in Sessions
        PROVE  dir'[s] \in disk'[s] /\
               \A doc \in disk'[s] : /\ Sound(doc) /\ Prefix(doc.log, dir'[s].log)
                                     /\ kept'[s] <= Len(doc.log)
    <3>1. CASE s = op.session
      BY <2>3, <2>7, <3>1
    <3>2. CASE s # op.session
      BY <2>2, <3>2 DEF FilesInv
    <3> QED
      BY <3>1, <3>2
  <2> QED
    BY <2>1, <2>8 DEF FilesInv
<1>6. OpInv'
  <2>1. /\ DOMAIN op' = DOMAIN NoOp /\ op'.step = "renamed" /\ op'.kind = op.kind
        /\ op'.session = op.session /\ op'.doc = op.doc /\ op'.key = op.key
    BY <1>2, NextStep
  <2>2. op' # NoOp
    BY <2>1 DEF NoOp
  <2>3. dir'[op.session] = op.doc
    BY <1>1, <1>2 DEF FilesInv
  <2>4. dir[op.session].log \in Seq(Items)
    BY <1>1, DirSound DEF Sound
  <2>5. op.doc.log[Len(op.doc.log)] = e /\ op.doc.log # <<>>
    BY <1>4, <2>4
  <2> QED
    BY <1>1, <1>4, <2>1, <2>2, <2>3, <2>5 DEF OpInv
<1>7. ListInv'
  BY <1>2, ListFrame DEF ListInv
<1> QED
  BY <1>5, <1>6, <1>7

\* No operation at work.
LEMMA IdleOp ==
  ASSUME op' = NoOp
  PROVE  OpInv'
BY ListAssumption DEF OpInv, NoOp, Sessions

\* What may be left once the directory is synced is the document itself.
LEMMA SettledIsDir ==
  ASSUME FilesInv, NEW s \in Sessions
  PROVE  Settled[s] = {dir[s]}
<1>1. TornFile \notin disk[s]
  <2>1. TornFile.torn
    BY DEF TornFile, NoFile
  <2> QED
    BY <2>1 DEF FilesInv, Sound
<1> QED
  BY <1>1 DEF FilesInv, Settled

LEMMA SyncDirectoryKeeps ==
  ASSUME IInv, SyncDirectory
  PROVE  IInv'
<1> USE DEF IInv
<1>1. op.step = "renamed" /\ op.session \in Sessions /\ Sound(op.doc) /\ dir[op.session] = op.doc
  BY DEF SyncDirectory, CanAnswer, OpInv
<1>2. /\ disk' = Settled /\ kept' = [kept EXCEPT ![op.session] = Len(op.doc.log)]
      /\ op' = NoOp /\ UNCHANGED <<dir, opened, index, walk, trouble>>
  BY DEF SyncDirectory, Revision
<1>3. FilesInv'
  <2>1. Len(op.doc.log) \in 0..MaxRevision
    BY <1>1, Constants DEF Sound
  <2>2. DOMAIN dir' = Sessions /\ DOMAIN disk' = Sessions /\ kept' \in [Sessions -> 0..MaxRevision]
    BY <1>2, <2>1 DEF FilesInv, Settled
  <2>3. ASSUME NEW s \in Sessions
        PROVE  dir'[s] \in disk'[s] /\
               \A doc \in disk'[s] : /\ Sound(doc) /\ Prefix(doc.log, dir'[s].log)
                                     /\ kept'[s] <= Len(doc.log)
    <3>1. dir'[s] = dir[s] /\ disk'[s] = {dir[s]}
      BY <1>2, SettledIsDir
    <3>2. Sound(dir[s]) /\ kept[s] <= Len(dir[s].log)
      BY DEF FilesInv
    <3>3. dir[s].log \in Seq(Items)
      BY <3>2 DEF Sound
    <3>4. Prefix(dir[s].log, dir[s].log)
      BY <3>3 DEF Prefix
    <3>5. kept'[s] <= Len(dir[s].log)
      BY <1>1, <1>2, <3>2, <3>3 DEF FilesInv
    <3> QED
      BY <3>1, <3>2, <3>4, <3>5
  <2> QED
    BY <2>2, <2>3 DEF FilesInv
<1>4. OpInv' /\ ListInv'
  BY <1>2, IdleOp, ListFrame DEF ListInv
<1> QED
  BY <1>3, <1>4

LEMMA PersistFailsKeeps ==
  ASSUME IInv, PersistFails
  PROVE  IInv'
<1> USE DEF IInv
<1>1. /\ op' = NoOp /\ UNCHANGED <<dir, disk, opened, index, kept, walk>>
      /\ trouble < MaxTrouble /\ trouble' = trouble + 1
  BY DEF PersistFails, Spend
<1>2. FilesInv' /\ OpInv'
  BY <1>1, FilesFrame, IdleOp
<1>3. trouble' \in 0..MaxTrouble
  BY <1>1, Constants DEF ListInv
<1> QED
  BY <1>1, <1>2, <1>3 DEF ListInv

\* What a crash leaves of a Session is a file that may be left of it.
LEMMA CrashLeaves ==
  ASSUME FilesInv, Crash, NEW s \in Sessions
  PROVE  dir'[s] \in disk[s] /\ disk'[s] = {dir'[s]} /\ DOMAIN dir' = Sessions
         /\ DOMAIN disk' = Sessions
BY DEF Crash, FilesInv

LEMMA CrashKeeps ==
  ASSUME IInv, Crash
  PROVE  IInv'
<1> USE DEF IInv
<1>1. /\ op' = NoOp /\ ~opened' /\ UNCHANGED <<index, kept, walk>>
      /\ trouble < MaxTrouble /\ trouble' = trouble + 1
  BY DEF Crash, Spend
<1>2. FilesInv'
  <2>1. ASSUME NEW s \in Sessions
        PROVE  dir'[s] \in disk'[s] /\
               \A doc \in disk'[s] : /\ Sound(doc) /\ Prefix(doc.log, dir'[s].log)
                                     /\ kept'[s] <= Len(doc.log)
    <3>1. dir'[s] \in disk[s] /\ disk'[s] = {dir'[s]}
      BY CrashLeaves
    <3>2. Sound(dir'[s]) /\ kept'[s] <= Len(dir'[s].log)
      BY <1>1, <3>1 DEF FilesInv
    <3>3. Prefix(dir'[s].log, dir'[s].log)
      BY <3>2 DEF Prefix, Sound
    <3> QED
      BY <3>1, <3>2, <3>3
  <2>2. DOMAIN dir' = Sessions /\ DOMAIN disk' = Sessions
    BY DEF Crash
  <2> QED
    BY <1>1, <2>1, <2>2 DEF FilesInv
<1>3. opened' \in BOOLEAN
  BY DEF Crash
<1>4. trouble' \in 0..MaxTrouble
  BY <1>1, Constants DEF ListInv
<1> QED
  BY <1>1, <1>2, <1>3, <1>4, IdleOp DEF ListInv

\* Every step keeps the invariant.
LEMMA NextKeeps ==
  ASSUME IInv, [Next]_vars
  PROVE  IInv'
<1>1. CASE Operation
  <2>1. CASE Quiet
    BY <2>1, QuietKeeps
  <2>2. CASE \E s \in Sessions : Create(s)
    BY <2>2, CreateKeeps
  <2>3. CASE \E s \in Sessions : Recover(s)
    BY <2>3, RecoverKeeps
  <2>4. CASE \E s \in Sessions, request \in Requests : Commit(s, request)
    BY <2>4, CommitKeeps
  <2> QED
    BY <1>1, <2>1, <2>2, <2>3, <2>4 DEF Operation, Quiet
<1>2. CASE SyncTemp
  BY <1>2, SyncTempKeeps
<1>3. CASE Rename
  BY <1>3, RenameKeeps
<1>4. CASE SyncDirectory
  BY <1>4, SyncDirectoryKeeps
<1>5. CASE PersistFails
  BY <1>5, PersistFailsKeeps
<1>6. CASE Crash
  BY <1>6, CrashKeeps
<1>7. CASE UNCHANGED vars
  BY <1>7 DEF vars, IInv, FilesInv, OpInv, Adds, ListInv
<1> QED
  BY <1>1, <1>2, <1>3, <1>4, <1>5, <1>6, <1>7 DEF Next

\* The invariant holds throughout every run.
THEOREM Invariance == Spec => []IInv
<1>1. Init => IInv
  BY InitInv
<1>2. IInv /\ [Next]_vars => IInv'
  BY NextKeeps
<1> QED
  BY <1>1, <1>2, PTL DEF Spec

\* Every file that a loss of power may leave can be read.
LEMMA ReadableFiles ==
  ASSUME IInv
  PROVE  AlwaysReadable
<1> USE DEF IInv
<1>1. ASSUME NEW s \in Sessions
      PROVE  dir[s] \in disk[s] /\ Revision(dir[s]) \in 0..MaxRevision
  BY Constants, DirSound DEF FilesInv, Sound, Revision
<1>2. TypeOK
  BY <1>1 DEF TypeOK, FilesInv, OpInv, ListInv
<1>3. ASSUME NEW doc \in Files
      PROVE  Readable(doc)
  <2>1. \E s \in Sessions : doc \in disk[s]
    BY DEF Files
  <2> QED
    BY <2>1, SoundReadable DEF FilesInv
<1> QED
  BY <1>2, <1>3 DEF AlwaysReadable

(***************************************************************************)
(* Whatever a loss of power leaves in the place of a Session's document    *)
(* can be opened again (persistLocked, validateFileDocument).              *)
(***************************************************************************)
THEOREM EveryFileReadable == Spec => []AlwaysReadable
<1>1. IInv => AlwaysReadable
  BY ReadableFiles
<1> QED
  BY <1>1, Invariance, PTL
-----------------------------------------------------------------------------
(* Answers.                                                                *)

\* What a step that answers nothing leaves.
Silent == answer' = answer \/ answer' = NoAnswer

LEMMA SilentSteps ==
  ASSUME Next
  PROVE  \/ Silent
         \/ \E s \in Sessions, request \in Requests : Replay(s, request)
         \/ SyncDirectory
         \/ PersistFails
<1>1. CASE Open \/ Close \/ ListSessions \/ CursorRefused
  BY <1>1 DEF Open, Close, ListSessions, CursorRefused, Silent
<1>2. CASE \E s \in Sessions, request \in Requests : Commit(s, request)
  BY <1>2 DEF Commit, Persist, Silent
<1>3. CASE \E s \in Sessions : Create(s) \/ Recover(s)
  BY <1>3 DEF Create, Recover, Persist, Silent
<1>4. CASE SyncTemp \/ Rename \/ Crash
  BY <1>4 DEF SyncTemp, Rename, Crash, Silent
<1> QED
  BY <1>1, <1>2, <1>3, <1>4 DEF Next, Operation

LEMMA AnswerStep ==
  ASSUME IInv, [Next]_vars, answer' # answer, answer'.kind \in {"applied", "replayed"}
  PROVE  dir'[answer'.session].log[answer'.revision] = answer'.key
<1> USE DEF IInv
<1>1. NoAnswer.kind = "none"
  BY DEF NoAnswer
<1>2. ~Silent /\ Next
  BY <1>1 DEF Silent, vars
<1>3. CASE \E s \in Sessions, request \in Requests : Replay(s, request)
  <2>1. PICK s \in Sessions, request \in Requests : Replay(s, request)
    BY <1>3
  <2>2. PICK r \in Recorded(dir[s], request.key) :
           answer' = [kind |-> "replayed", session |-> s, key |-> r.request.key,
                      revision |-> r.revision]
    BY <2>1 DEF Replay
  <2>3. answer'.session = s /\ answer'.key = r.request.key /\ answer'.revision = r.revision
    BY <2>2
  <2>4. dir' = dir /\ r \in dir[s].idem
    BY <2>1 DEF Replay, Recorded
  <2>5. Recording(dir[s])
    BY DirSound DEF Sound
  <2> QED
    BY <2>3, <2>4, <2>5 DEF Recording
<1>4. CASE SyncDirectory
  <2>1. /\ dir' = dir /\ Answered("applied")
        /\ op.step = "renamed" /\ op.session \in Sessions /\ dir[op.session] = op.doc
    BY <1>4 DEF SyncDirectory, CanAnswer, OpInv
  <2>2. op.kind = "commit"
    BY <1>1, <2>1 DEF Answered
  <2>3. op.doc.log[Len(op.doc.log)] = op.key
    BY <2>1, <2>2 DEF OpInv
  <2>4. /\ answer'.session = op.session /\ answer'.key = op.key
        /\ answer'.revision = Len(op.doc.log)
    BY <2>1, <2>2 DEF Answered, Revision
  <2> QED
    BY <2>1, <2>3, <2>4
<1>5. CASE PersistFails
  <2>1. Answered("failed")
    BY <1>5 DEF PersistFails
  <2>2. answer'.kind \in {"failed", "none"}
    BY <1>1, <2>1 DEF Answered
  <2> QED
    BY <2>2
<1> QED
  BY <1>2, <1>3, <1>4, <1>5, SilentSteps

(***************************************************************************)
(* An answered Commit, applied now or found to be a retry, names the       *)
(* revision at which its entry stands (Commit, idempotency records).       *)
(***************************************************************************)
THEOREM AnswersNameEntries == Spec => AnswersTrue
<1>1. IInv /\ [Next]_vars =>
        [answer' # answer /\ answer'.kind \in {"applied", "replayed"} =>
           LET log == dir'[answer'.session].log
           IN  log[answer'.revision] = answer'.key]_vars
  BY AnswerStep
<1> QED
  BY <1>1, Invariance, PTL DEF Spec, AnswersTrue
-----------------------------------------------------------------------------
(* The Store is a durable log.                                             *)

Logs == [s \in Sessions |-> dir[s].log]

\* The initial directory is an empty log.
LEMMA LogInit == Init => Log!Init
BY NoFileSound DEF Init, Log!Init

\* A prefix by positions is one of sequences.
LEMMA PrefixIsPrefix ==
  ASSUME NEW l \in Seq(Items), NEW m \in Seq(Items), Prefix(l, m)
  PROVE  Log!IsPrefix(l, m)
BY DEF Prefix, Log!IsPrefix

\* A rename extends a Session's log by one entry.
LEMMA RenameExtends ==
  ASSUME IInv, Rename
  PROVE  Log!Next
<1> USE DEF IInv
<1>1. op.step = "synced" /\ op.session \in Sessions
  BY DEF Rename, CanRename, OpInv
<1>2. dir' = [dir EXCEPT ![op.session] = op.doc] /\ kept' = kept
  BY DEF Rename
<1>3. PICK e \in Items : Adds(dir[op.session].log, e)
  BY <1>1 DEF OpInv
<1>4. op.doc.log = Append(dir[op.session].log, e)
      /\ (e \in Keys => \A i \in 1..Len(dir[op.session].log) : dir[op.session].log[i] # e)
  BY <1>3 DEF Adds
<1>5. Logs' = [Logs EXCEPT ![op.session] = Append(@, e)]
  BY <1>1, <1>2, <1>4 DEF Logs, FilesInv
<1>6. e \in Keys => ~Log!Contains(Logs[op.session], e)
  BY <1>1, <1>4 DEF Logs, Log!Contains
<1>7. Log!Extend(op.session, e)
  BY <1>2, <1>5, <1>6 DEF Log!Extend, Logs
<1>8. e \in Keys \cup {"created", "recovered"}
  BY DEF Items
<1> QED
  BY <1>1, <1>7, <1>8 DEF Log!Next

\* The answer after the directory is synced says how far the log is kept.
LEMMA SyncDirectoryKept ==
  ASSUME IInv, SyncDirectory
  PROVE  Log!Next
<1>1. op.session \in Sessions /\ dir[op.session] = op.doc
  BY DEF IInv, OpInv, SyncDirectory, CanAnswer
<1>2. dir' = dir /\ kept' = [kept EXCEPT ![op.session] = Len(dir[op.session].log)]
  BY <1>1 DEF SyncDirectory, Revision
<1>3. Log!Keep(op.session)
  BY <1>1, <1>2 DEF Log!Keep
<1> QED
  BY <1>1, <1>3 DEF Log!Next

\* A crash loses entries at the end of a log that nobody was told of.
LEMMA CrashLoses ==
  ASSUME IInv, Crash
  PROVE  Log!Next
<1>1. ASSUME NEW s \in Sessions
      PROVE  Log!IsPrefix(dir'[s].log, dir[s].log) /\ Len(dir'[s].log) >= kept[s]
  <2>1. dir'[s] \in disk[s]
    BY CrashLeaves DEF IInv
  <2>2. Prefix(dir'[s].log, dir[s].log) /\ kept[s] <= Len(dir'[s].log)
        /\ Sound(dir'[s]) /\ Sound(dir[s]) /\ kept[s] \in Nat
    BY <2>1 DEF IInv, FilesInv
  <2>3. dir'[s].log \in Seq(Items) /\ dir[s].log \in Seq(Items)
    BY <2>2 DEF Sound
  <2> QED
    BY <2>2, <2>3, PrefixIsPrefix
<1>2. kept' = kept
  BY DEF Crash
<1>3. Log!Lose
  BY <1>1, <1>2 DEF Log!Lose
<1> QED
  BY <1>3 DEF Log!Next

\* Every other step leaves the log and what was told of it alone.
LEMMA LogStep ==
  ASSUME IInv, [Next]_vars
  PROVE  [Log!Next]_<<Logs, kept>>
<1>1. CASE Rename \/ SyncDirectory \/ Crash
  BY <1>1, RenameExtends, SyncDirectoryKept, CrashLoses
<1>2. CASE Open \/ Close \/ ListSessions \/ CursorRefused \/ SyncTemp \/ PersistFails
  BY <1>2 DEF Open, Close, ListSessions, CursorRefused, SyncTemp, PersistFails, Logs
<1>3. CASE \E s \in Sessions, request \in Requests : Commit(s, request) \/ Replay(s, request)
  BY <1>3 DEF Commit, Replay, Logs
<1>4. CASE \E s \in Sessions : Create(s) \/ Recover(s)
  BY <1>4 DEF Create, Recover, Logs
<1>5. CASE UNCHANGED vars
  BY <1>5 DEF vars, Logs
<1> QED
  BY <1>1, <1>2, <1>3, <1>4, <1>5 DEF Next, Operation

(***************************************************************************)
(* The Store implements the durable log: a commit is applied at most once  *)
(* however often it is retried, an operation adds one entry to one         *)
(* Session, and no crash loses what a caller was told was applied.         *)
(***************************************************************************)
THEOREM StoreIsDurableLog == Spec => DurableLogSpec
<1>1. Init => Log!Init
  BY LogInit
<1>2. IInv /\ [Next]_vars => [Log!Next]_<<Logs, kept>>
  BY LogStep
<1>3. Logs = [s \in Sessions |-> dir[s].log]
  BY DEF Logs
<1> QED
  BY <1>1, <1>2, <1>3, Invariance, PTL DEF Spec, DurableLogSpec, Log!Spec, Logs

-----------------------------------------------------------------------------
(* The order of the listing.  The number of summaries before one grows     *)
(* along the order and takes every value below the number of summaries, so *)
(* Sorted is well defined.                                                 *)

\* Summaries as the Store has them: finitely many, one of each Session.
Listing(S) ==
  /\ IsFiniteSet(S)
  /\ \A d \in S : d.at \in Nat /\ d.id \in Nat
  /\ \A d \in S, e \in S : d.id = e.id => d = e

Earlier(S, d) == {e \in S : Before(e, d)}

\* Before is a strict total order of a listing.
LEMMA BeforeOrders ==
  ASSUME NEW S, Listing(S)
  PROVE  /\ \A d \in S : ~Before(d, d)
         /\ \A d \in S, e \in S, f \in S : Before(d, e) /\ Before(e, f) => Before(d, f)
         /\ \A d \in S, e \in S : d # e => Before(d, e) \/ Before(e, d)
<1>1. \A d \in S : d.at \in Nat /\ d.id \in Nat
  BY DEF Listing
<1>2. \A d \in S, e \in S : d.id = e.id => d = e
  BY DEF Listing
<1>3. \A d \in S : ~Before(d, d)
  BY <1>1 DEF Before
<1>4. \A d \in S, e \in S, f \in S : Before(d, e) /\ Before(e, f) => Before(d, f)
  BY <1>1 DEF Before
<1>5. \A d \in S, e \in S : d # e => Before(d, e) \/ Before(e, d)
  BY <1>1, <1>2 DEF Before
<1> QED
  BY <1>3, <1>4, <1>5

\* A part of a listing is a listing.
LEMMA PartOfListing ==
  ASSUME NEW S, Listing(S), NEW T \in SUBSET S
  PROVE  Listing(T)
BY FS_Subset DEF Listing

\* A summary has fewer before it than those after it have, and than there are.
LEMMA PlaceGrows ==
  ASSUME NEW S, Listing(S), NEW d \in S
  PROVE  /\ Cardinality(S) \in Nat
         /\ Cardinality(Earlier(S, d)) \in 0..(Cardinality(S) - 1)
         /\ \A e \in S : Before(d, e) => Cardinality(Earlier(S, d)) < Cardinality(Earlier(S, e))
<1>1. IsFiniteSet(S) /\ Cardinality(S) \in Nat
  BY FS_CardinalityType DEF Listing
<1>2. ASSUME NEW e \in S
      PROVE  IsFiniteSet(Earlier(S, e)) /\ Cardinality(Earlier(S, e)) \in Nat
  <2>1. Earlier(S, e) \in SUBSET S
    BY DEF Earlier
  <2> QED
    BY <1>1, <2>1, FS_Subset, FS_CardinalityType
<1>3. d \notin Earlier(S, d) /\ Earlier(S, d) \subseteq S
  BY BeforeOrders DEF Earlier
<1>4. Cardinality(Earlier(S, d)) < Cardinality(S)
  BY <1>1, <1>2, <1>3, FS_Subset
<1>5. ASSUME NEW e \in S, Before(d, e)
      PROVE  Cardinality(Earlier(S, d)) < Cardinality(Earlier(S, e))
  <2>1. Earlier(S, d) \subseteq Earlier(S, e)
    BY <1>5, BeforeOrders DEF Earlier
  <2>2. d \in Earlier(S, e)
    BY <1>5 DEF Earlier
  <2> QED
    BY <1>2, <1>3, <2>1, <2>2, FS_Subset
<1> QED
  BY <1>1, <1>2, <1>4, <1>5

\* Some summary has n before it, for every n below the number of summaries.
LEMMA PlaceTaken ==
  ASSUME NEW S, Listing(S), NEW n \in 0..(Cardinality(S) - 1)
  PROVE  \E d \in S : Cardinality(Earlier(S, d)) = n
<1> DEFINE m == Cardinality(S)
           Places == 0..(m - 1)
           place == [d \in S |-> Cardinality(Earlier(S, d))]
<1>1. IsFiniteSet(S) /\ m \in Nat
  BY FS_CardinalityType DEF Listing
<1>2. IsFiniteSet(Places) /\ Cardinality(Places) = m
  <2>1. 0 \in Int /\ m - 1 \in Int /\ (0 > m - 1 => m = 0)
    BY <1>1
  <2>2. /\ IsFiniteSet(0..(m - 1))
        /\ Cardinality(0..(m - 1)) = IF 0 > m - 1 THEN 0 ELSE (m - 1) - 0 + 1
    BY <2>1, FS_Interval
  <2> QED
    BY <1>1, <2>1, <2>2
<1>3. place \in Injection(S, Places)
  <2>1. place \in [S -> Places]
    BY PlaceGrows
  <2>2. ASSUME NEW d \in S, NEW e \in S, place[d] = place[e]
        PROVE  d = e
    <3>1. Cardinality(Earlier(S, d)) = Cardinality(Earlier(S, e))
      BY <2>2
    <3>2. Cardinality(Earlier(S, d)) \in Int
      BY PlaceGrows
    <3>3. ~Before(d, e) /\ ~Before(e, d)
      BY <3>1, <3>2, PlaceGrows
    <3> QED
      BY <3>3, BeforeOrders
  <2> QED
    BY <2>1, <2>2 DEF Injection, IsInjective
<1>4. place \in Surjection(S, Places)
  <2> HIDE DEF place, Places
  <2> QED
    BY <1>2, <1>3, FS_Injection
<1> QED
  BY <1>4 DEF Surjection

\* Sorted lists every summary, in order.
LEMMA SortedIs ==
  ASSUME NEW S, Listing(S)
  PROVE  /\ Sorted(S) \in Seq(S)
         /\ Len(Sorted(S)) = Cardinality(S) /\ Cardinality(S) \in Nat
         /\ \A i \in 1..Cardinality(S), j \in 1..Cardinality(S) :
              i < j => Before(Sorted(S)[i], Sorted(S)[j])
         /\ \A d \in S : \E i \in 1..Cardinality(S) : Sorted(S)[i] = d
<1> DEFINE m == Cardinality(S)
           At(n) == CHOOSE d \in S : Cardinality({e \in S : Before(e, d)}) = n - 1
<1>1. m \in Nat
  BY FS_CardinalityType DEF Listing
<1>2. ASSUME NEW n \in 1..m
      PROVE  /\ At(n) \in S /\ Cardinality(Earlier(S, At(n))) = n - 1
             /\ Sorted(S)[n] = At(n)
  <2>1. n - 1 \in 0..(Cardinality(S) - 1)
    BY <1>1
  <2>2. \E d \in S : Cardinality({e \in S : Before(e, d)}) = n - 1
    BY <2>1, PlaceTaken DEF Earlier
  <2>3. At(n) \in S /\ Cardinality({e \in S : Before(e, At(n))}) = n - 1
    BY <2>2
  <2>4. Sorted(S)[n] = At(n)
    BY DEF Sorted
  <2> QED
    BY <2>3, <2>4 DEF Earlier
<1>3. Sorted(S) \in Seq(S) /\ Len(Sorted(S)) = m
  <2>1. Sorted(S) = [n \in 1..m |-> At(n)]
    BY DEF Sorted
  <2>2. \A n \in 1..m : At(n) \in S
    BY <1>2
  <2> HIDE DEF m, At
  <2>3. Sorted(S) \in [1..m -> S]
    BY <2>1, <2>2
  <2> QED
    BY <1>1, <2>3
<1>4. ASSUME NEW i \in 1..m, NEW j \in 1..m, i < j
      PROVE  Before(Sorted(S)[i], Sorted(S)[j])
  <2>1. /\ At(i) \in S /\ Cardinality(Earlier(S, At(i))) = i - 1
        /\ At(j) \in S /\ Cardinality(Earlier(S, At(j))) = j - 1
        /\ Sorted(S)[i] = At(i) /\ Sorted(S)[j] = At(j)
    BY <1>2
  <2> HIDE DEF At
  <2>2. At(i) # At(j)
    BY <1>1, <1>4, <2>1
  <2>3. ~Before(At(j), At(i))
    BY <1>1, <1>4, <2>1, PlaceGrows
  <2> QED
    BY <2>1, <2>2, <2>3, BeforeOrders
<1>5. ASSUME NEW d \in S
      PROVE  \E i \in 1..m : Sorted(S)[i] = d
  <2> DEFINE i == Cardinality(Earlier(S, d)) + 1
  <2>1. i \in 1..m /\ i - 1 = Cardinality(Earlier(S, d)) /\ Cardinality(Earlier(S, d)) \in Nat
    BY <1>1, PlaceGrows
  <2> HIDE DEF i
  <2>2. /\ At(i) \in S /\ Cardinality(Earlier(S, At(i))) = Cardinality(Earlier(S, d))
        /\ Sorted(S)[i] = At(i)
    BY <1>2, <2>1
  <2> HIDE DEF At
  <2>3. ~Before(At(i), d) /\ ~Before(d, At(i))
    BY <2>1, <2>2, PlaceGrows
  <2>4. At(i) = d
    BY <2>2, <2>3, BeforeOrders
  <2> QED
    BY <2>1, <2>2, <2>4
<1> QED
  BY <1>1, <1>3, <1>4, <1>5

\* The largest of a set that has one.
LEMMA MaxIs ==
  ASSUME NEW S, NEW m \in S, \A k \in S : m >= k
  PROVE  Max(S) \in S /\ \A k \in S : Max(S) >= k
BY DEF Max

\* The largest of a number and of the update times of a listing.
LEMMA LatestIs ==
  ASSUME NEW S, Listing(S), NEW n \in Nat
  PROVE  LET last == Max({n} \cup {d.at : d \in S})
         IN  last \in Nat /\ last >= n /\ \A d \in S : last >= d.at
<1> DEFINE T == {n} \cup {d.at : d \in S}
<1>1. \A d \in S : d.at \in Nat
  BY DEF Listing
<1>2. \A k \in T : k \in Nat
  BY <1>1
<1>3. \E m \in T : \A k \in T : m >= k
  <2>1. CASE S = {}
    BY <2>1
  <2>2. CASE S # {}
    <3> DEFINE first == Sorted(S)[1]
    <3>1. 1 \in 1..Cardinality(S)
      BY <2>2, SortedIs
    <3>2. first \in S
      BY <3>1, SortedIs
    <3>3. ASSUME NEW d \in S
          PROVE  first.at >= d.at
      <4>1. PICK i \in 1..Cardinality(S) : Sorted(S)[i] = d
        BY SortedIs
      <4>2. CASE i = 1
        BY <1>1, <3>2, <4>1, <4>2
      <4>3. CASE i # 1
        <5>1. Before(first, d)
          BY <3>1, <4>1, <4>3, SortedIs
        <5> HIDE DEF first
        <5> QED
          BY <1>1, <3>2, <5>1 DEF Before
      <4> QED
        BY <4>2, <4>3
    <3> HIDE DEF first
    <3>4. CASE first.at >= n
      BY <1>1, <3>2, <3>3, <3>4
    <3>5. CASE ~(first.at >= n)
      <4>1. \A d \in S : n >= d.at
        BY <1>1, <3>2, <3>3, <3>5
      <4> QED
        BY <4>1
    <3> QED
      BY <3>4, <3>5
  <2> QED
    BY <2>1, <2>2
<1>4. Max(T) \in T /\ \A k \in T : Max(T) >= k
  <2> HIDE DEF T
  <2> QED
    BY <1>3, MaxIs
<1> QED
  BY <1>2, <1>4

\* An update follows every update time the index has seen.
LEMMA UpdateTimeGrows ==
  ASSUME NEW i, i.last \in Nat, NEW previous \in Nat, NEW now \in Nat
  PROVE  NextUpdatedAt(i, previous, now) \in Nat /\ NextUpdatedAt(i, previous, now) > i.last
<1> DEFINE T == {now, previous + 1, i.last + 1}
<1>1. \A k \in T : k \in Nat
  OBVIOUS
<1>2. \E m \in T : \A k \in T : m >= k
  <2>1. CASE now >= previous + 1 /\ now >= i.last + 1
    BY <2>1
  <2>2. CASE previous + 1 >= now /\ previous + 1 >= i.last + 1
    BY <2>2
  <2>3. CASE i.last + 1 >= now /\ i.last + 1 >= previous + 1
    BY <2>3
  <2> QED
    BY <2>1, <2>2, <2>3
<1>3. i.last + 1 \in T
  OBVIOUS
<1>4. Max(T) \in T /\ \A k \in T : Max(T) >= k
  <2> HIDE DEF T
  <2> QED
    BY <1>2, MaxIs
<1>5. Max(T) \in Nat /\ Max(T) >= i.last + 1
  BY <1>1, <1>3, <1>4
<1> QED
  <2> HIDE DEF T
  <2>1. Max(T) > i.last
    BY <1>5
  <2> QED
    BY <1>5, <2>1 DEF NextUpdatedAt, T

\* The summaries of the directory are a listing.
LEMMA SummariesListing ==
  ASSUME \A s \in Sessions : dir[s].at \in Nat
  PROVE  Listing(Summaries) /\ \A d \in Summaries : d.id \in Visible /\ d.at = dir[d.id].at
<1>1. \A d \in Summaries : d.id \in Sessions /\ d.id \in Visible /\ d.at = dir[d.id].at
  BY DEF Summaries, Visible
<1>2. \A d \in Summaries, e \in Summaries : d.id = e.id => d = e
  BY DEF Summaries
<1>3. IsFiniteSet(Sessions)
  BY ListAssumption, FS_Interval DEF Sessions
<1>4. IsFiniteSet(Summaries)
  <2> DEFINE f == [d \in Summaries |-> d.id]
  <2>1. f \in Injection(Summaries, Sessions)
    BY <1>1, <1>2 DEF Injection, IsInjective
  <2> HIDE DEF f
  <2> QED
    BY <1>3, <2>1, FS_Injection
<1>5. \A d \in Summaries : d.at \in Nat /\ d.id \in Nat
  BY <1>1, ListAssumption DEF Sessions
<1> QED
  BY <1>1, <1>2, <1>4, <1>5 DEF Listing

\* A page is in order; what it leaves out comes after its last summary, which
\* the next cursor names; an empty cursor leaves nothing out.
LEMMA PageIs ==
  ASSUME NEW i, NEW c, NEW S, Listing(S), i.epoch \in Nat \ {0}
  PROVE  LET E == Eligible(i, c, S)
             page == Paginate(i, c, S).page
             next == Paginate(i, c, S).next
         IN  /\ page \in Seq(E)
             /\ \A m \in DOMAIN page, n \in DOMAIN page : m < n => Before(page[m], page[n])
             /\ next = NoCursor => \A d \in E : \E n \in DOMAIN page : page[n] = d
             /\ next # NoCursor =>
                  \E last \in E :
                    /\ next = [epoch |-> i.epoch,
                               cutoff |-> IF c = NoCursor THEN i.generation ELSE c.cutoff,
                               at |-> last.at, id |-> last.id]
                    /\ \A n \in DOMAIN page : ~Before(last, page[n])
                    /\ \A d \in E : (\E n \in DOMAIN page : page[n] = d) \/ Before(last, d)
<1> DEFINE E == Eligible(i, c, S)
           all == Sorted(E)
           m == Cardinality(E)
           page == Paginate(i, c, S).page
           next == Paginate(i, c, S).next
           cut == IF c = NoCursor THEN i.generation ELSE c.cutoff
<1>1. Listing(E)
  BY PartOfListing DEF Eligible
<1>2. /\ all \in Seq(E) /\ Len(all) = m /\ m \in Nat
      /\ \A a \in 1..m, b \in 1..m : a < b => Before(all[a], all[b])
      /\ \A d \in E : \E a \in 1..m : all[a] = d
  <2> HIDE DEF E
  <2> QED
    BY <1>1, SortedIs
<1>3. PageLimit \in Nat /\ PageLimit >= 1
  BY ListAssumption
<1>4. CASE m <= PageLimit
  <2>1. page = all /\ next = NoCursor
    BY <1>2, <1>4 DEF Paginate
  <2>2. DOMAIN all = 1..m
    BY <1>2
  <2> HIDE DEF E, all, m, page, next
  <2> QED
    BY <1>2, <2>1, <2>2 DEF E, page, next
<1>5. CASE ~(m <= PageLimit)
  <2> DEFINE last == SubSeq(all, 1, PageLimit)[PageLimit]
             cursor == [epoch |-> i.epoch, cutoff |-> cut, at |-> last.at, id |-> last.id]
  <2>1. page = SubSeq(all, 1, PageLimit) /\ next = cursor
    BY <1>2, <1>5 DEF Paginate
  <2>2. next # NoCursor
    <3> HIDE DEF last
    <3>1. cursor.epoch # NoCursor.epoch
      BY DEF NoCursor
    <3> QED
      BY <2>1, <3>1
  <2> HIDE DEF E, all, m, page, next, cut
  <2>3. /\ SubSeq(all, 1, PageLimit) \in Seq(E)
        /\ DOMAIN SubSeq(all, 1, PageLimit) = 1..PageLimit
        /\ \A a \in 1..PageLimit : SubSeq(all, 1, PageLimit)[a] = all[a]
        /\ PageLimit \in 1..m /\ \A a \in 1..PageLimit : a \in 1..m
    BY <1>2, <1>3, <1>5
  <2>4. /\ page \in Seq(E) /\ DOMAIN page = 1..PageLimit
        /\ \A a \in 1..PageLimit : page[a] = all[a]
        /\ last = all[PageLimit]
    BY <1>3, <2>1, <2>3
  <2> HIDE DEF last
  <2>5. last \in E
    BY <1>2, <2>3, <2>4
  <2>6. \A a \in DOMAIN page, b \in DOMAIN page : a < b => Before(page[a], page[b])
    BY <1>2, <2>3, <2>4
  <2>7. \A n \in DOMAIN page : ~Before(last, page[n])
    <3> SUFFICES ASSUME NEW n \in 1..PageLimit
                 PROVE  ~Before(last, all[n])
      BY <2>4
    <3>1. all[n] \in E
      BY <1>2, <2>3
    <3>2. n = PageLimit \/ Before(all[n], last)
      BY <1>2, <1>3, <2>3, <2>4
    <3> QED
      BY <1>1, <2>4, <2>5, <3>1, <3>2, BeforeOrders
  <2>8. \A d \in E : (\E n \in DOMAIN page : page[n] = d) \/ Before(last, d)
    <3> SUFFICES ASSUME NEW d \in E
                 PROVE  (\E n \in DOMAIN page : page[n] = d) \/ Before(last, d)
      OBVIOUS
    <3>1. PICK a \in 1..m : all[a] = d
      BY <1>2
    <3>2. CASE a <= PageLimit
      <4>1. a \in 1..PageLimit
        BY <1>3, <3>2
      <4> QED
        BY <2>4, <3>1, <4>1
    <3>3. CASE ~(a <= PageLimit)
      <4>1. PageLimit < a
        BY <1>2, <1>3, <3>3
      <4> QED
        BY <1>2, <2>3, <2>4, <3>1, <4>1
    <3> QED
      BY <3>2, <3>3
  <2> QED
    BY <2>1, <2>2, <2>4, <2>5, <2>6, <2>7, <2>8 DEF E, page, next, cut
<1> QED
  BY <1>4, <1>5

-----------------------------------------------------------------------------
(* A traversal of the listing.                                             *)

Entry(s) == [id |-> s, at |-> dir[s].at]

\* The cursor that the client holds is one of this lifetime of the Store.
Live == opened /\ walk.state = "open" /\ walk.cursor.epoch = index.epoch

TimesInv ==
  /\ index.epoch \in Nat /\ index.last \in Nat
  /\ opened => index.epoch >= 1
  /\ \A s \in Sessions : \A doc \in disk[s] : doc.at \in Nat
  /\ op.doc.at \in Nat
  /\ op # NoOp => opened

WalkShape ==
  /\ walk.returned \in Seq(Sessions) /\ walk.start \in SUBSET Sessions
  /\ walk.state = "none" => walk = NoWalk
  /\ walk.state = "open" =>
       /\ walk.cursor.epoch \in 1..index.epoch
       /\ walk.cursor.cutoff \in Nat /\ walk.cursor.at \in Nat /\ walk.cursor.id \in Nat

\* What was not there at the first page was created after it; what was there and
\* was not written since was returned or is still to come; what was returned
\* does not come again, and what is being written does not come at all.
LiveInv == Live =>
  /\ walk.cursor.cutoff <= index.generation /\ walk.cursor.at <= index.last
  /\ \A s \in Sessions \ walk.start :
       Exists(s) \/ (op # NoOp /\ op.session = s) => index.created[s] > walk.cursor.cutoff
  /\ \A s \in walk.start \ walk.moved :
       /\ Exists(s) /\ index.created[s] <= walk.cursor.cutoff
       /\ s \in ToSet(walk.returned) \/ AfterPosition(Entry(s), walk.cursor)
  /\ \A s \in ToSet(walk.returned) : ~AfterPosition(Entry(s), walk.cursor)
  /\ op # NoOp => op.session \in walk.moved /\ op.doc.at > walk.cursor.at

WalkInv == TimesInv /\ WalkShape /\ WalkComplete /\ LiveInv

\* Nothing has been listed yet.
LEMMA EmptyWalk ==
  /\ NoWalk.returned = <<>> /\ NoWalk.start = {} /\ NoWalk.moved = {}
  /\ NoWalk.cursor = NoCursor /\ NoWalk.state = "none" /\ ToSet(<<>>) = {}
BY DEF NoWalk, ToSet

\* A traversal that has not begun.
LEMMA NoWalkIsFine ==
  ASSUME walk = NoWalk
  PROVE  WalkShape /\ WalkComplete
<1>1. IsInjective(<<>>)
  BY DEF IsInjective
<1>2. <<>> \in Seq(Sessions)
  OBVIOUS
<1> QED
  BY <1>1, <1>2, EmptyWalk DEF WalkShape, WalkComplete

\* A traversal that no step touches, while the Store's lifetimes are counted on.
LEMMA WalkKept ==
  ASSUME WalkShape, WalkComplete, walk' = walk, index.epoch \in Nat, index'.epoch \in Nat,
         index.epoch <= index'.epoch
  PROVE  WalkShape' /\ WalkComplete'
<1>1. WalkComplete'
  BY DEF WalkComplete
<1>2. walk.state = "open" => walk.cursor.epoch \in 1..index'.epoch
  BY DEF WalkShape
<1> QED
  BY <1>1, <1>2 DEF WalkShape

\* No Store, no traversal.
LEMMA WalkInit ==
  ASSUME Init
  PROVE  WalkInv
<1>1. WalkShape /\ WalkComplete
  BY NoWalkIsFine DEF Init
<1>2. LiveInv
  BY EmptyWalk DEF Init, LiveInv, Live
<1>3. TimesInv
  <2>1. ResetIndex(0).epoch = 0 /\ ResetIndex(0).last = 0
    BY DEF ResetIndex
  <2>2. NoFile.at = 0 /\ NoOp.doc = NoFile
    BY DEF NoFile, NoOp
  <2> QED
    BY <2>1, <2>2 DEF Init, TimesInv
<1> QED
  BY <1>1, <1>2, <1>3 DEF WalkInv

\* What is stored in the place of a document carries a time.
LEMMA TimesAreNat ==
  ASSUME IInv, TimesInv, NEW s \in Sessions
  PROVE  dir[s].at \in Nat
BY DEF IInv, FilesInv, TimesInv

\* An operation writes a document: it is stamped after every time the index has
\* seen, so it leaves the part of the listing that is still to come.
LEMMA PersistWalk ==
  ASSUME IInv, WalkInv, Ready, NEW s \in Sessions, NEW kind, NEW doc, NEW key,
         Persist(kind, s, doc, key), UNCHANGED <<dir, disk, opened>>,
         doc.at \in Nat, doc.at > index.last, index'.last = doc.at,
         index'.epoch = index.epoch, index'.generation \in Nat,
         index.generation <= index'.generation,
         \A r \in Sessions : r # s => index'.created[r] = index.created[r],
         \/ Exists(s) /\ index'.created[s] = index.created[s]
         \/ ~Exists(s) /\ index'.created[s] > index.generation,
         index'.created[s] \in Nat
  PROVE  WalkInv'
<1>1. op'.doc = doc /\ op'.session = s
  BY DEF Persist
<1>2. TimesInv'
  BY <1>1 DEF WalkInv, TimesInv, Ready
<1>3. CASE walk.state = "open"
  <2>1. DOMAIN walk = {"cursor", "returned", "start", "moved", "state"}
    BY DEF IInv, ListInv, NoWalk
  <2>2. walk' = [walk EXCEPT !.moved = @ \cup {s}]
    BY <1>3 DEF Persist
  <2>3. /\ walk'.cursor = walk.cursor /\ walk'.returned = walk.returned
        /\ walk'.start = walk.start /\ walk'.state = walk.state
        /\ walk'.moved = walk.moved \cup {s}
    BY <2>1, <2>2
  <2>4. walk'.state # "done" /\ walk'.state # "none"
    BY <1>3, <2>3
  <2>5. WalkComplete'
    BY <2>3, <2>4 DEF WalkInv, WalkComplete
  <2>6. WalkShape'
    BY <2>3, <2>4 DEF WalkInv, WalkShape
  <2>7. LiveInv'
    <3> SUFFICES ASSUME Live'
                 PROVE  LiveInv'
      BY DEF LiveInv
    <3>1. Live
      BY <2>3 DEF Live
    <3>2. /\ walk.cursor.cutoff <= index.generation /\ walk.cursor.at <= index.last
          /\ \A r \in Sessions \ walk.start : Exists(r) => index.created[r] > walk.cursor.cutoff
          /\ \A r \in walk.start \ walk.moved :
               /\ Exists(r) /\ index.created[r] <= walk.cursor.cutoff
               /\ r \in ToSet(walk.returned) \/ AfterPosition(Entry(r), walk.cursor)
          /\ \A r \in ToSet(walk.returned) : ~AfterPosition(Entry(r), walk.cursor)
      BY <3>1 DEF WalkInv, LiveInv
    <3>3. /\ walk.cursor.cutoff \in Nat /\ walk.cursor.at \in Nat /\ index.generation \in Nat
          /\ index.last \in Nat /\ walk.start \in SUBSET Sessions
      BY <1>3 DEF WalkInv, WalkShape, TimesInv, IInv, ListInv
    <3>4. (\A r : Entry(r)' = Entry(r)) /\ (\A r : Exists(r)' <=> Exists(r))
      BY DEF Entry, Exists
    <3>5. walk'.cursor.cutoff <= index'.generation /\ walk'.cursor.at <= index'.last
      BY <2>3, <3>2, <3>3
    <3>6. ASSUME NEW r \in Sessions \ walk.start, Exists(r) \/ r = s
          PROVE  index'.created[r] > walk.cursor.cutoff
      <4>1. CASE r # s
        BY <3>2, <3>6, <4>1
      <4>2. CASE r = s /\ Exists(s)
        BY <3>2, <3>6, <4>2
      <4>3. CASE r = s /\ ~Exists(s)
        BY <3>2, <3>3, <4>3
      <4> QED
        BY <4>1, <4>2, <4>3
    <3>7. ASSUME NEW r \in walk.start \ (walk.moved \cup {s})
          PROVE  /\ Exists(r) /\ index'.created[r] <= walk.cursor.cutoff
                 /\ r \in ToSet(walk.returned) \/ AfterPosition(Entry(r), walk.cursor)
      BY <3>2, <3>3
    <3>8. op'.session \in walk'.moved /\ op'.doc.at > walk'.cursor.at
      BY <1>1, <2>3, <3>2, <3>3
    <3>9. \A r \in Sessions \ walk'.start :
            Exists(r)' \/ (op' # NoOp /\ op'.session = r) => index'.created[r] > walk'.cursor.cutoff
      BY <1>1, <2>3, <3>4, <3>6
    <3>10. \A r \in walk'.start \ walk'.moved :
             /\ Exists(r)' /\ index'.created[r] <= walk'.cursor.cutoff
             /\ r \in ToSet(walk'.returned) \/ AfterPosition(Entry(r)', walk'.cursor)
      BY <2>3, <3>4, <3>7
    <3>11. \A r \in ToSet(walk'.returned) : ~AfterPosition(Entry(r)', walk'.cursor)
      BY <2>3, <3>2, <3>4
    <3> QED
      BY <3>5, <3>8, <3>9, <3>10, <3>11 DEF LiveInv
  <2> QED
    BY <1>2, <2>5, <2>6, <2>7 DEF WalkInv
<1>4. CASE walk.state # "open"
  <2>1. walk' = walk
    BY <1>4 DEF Persist
  <2>2. WalkShape' /\ WalkComplete'
    BY <2>1, WalkKept DEF WalkInv, TimesInv
  <2>3. LiveInv'
    BY <1>4, <2>1 DEF LiveInv, Live
  <2> QED
    BY <1>2, <2>2, <2>3 DEF WalkInv
<1> QED
  BY <1>3, <1>4

\* Create gives its Session the next generation.
LEMMA CreateWalk ==
  ASSUME IInv, WalkInv, NEW s \in Sessions, Create(s)
  PROVE  WalkInv'
<1>1. PICK now \in Times :
        LET at == NextUpdatedAt(index, 0, now) IN
        /\ index' = RecordCreate(index, s, at)
        /\ Persist("create", s, [NoFile EXCEPT !.log = <<"created">>, !.at = at], "none")
  BY DEF Create
<1> DEFINE at == NextUpdatedAt(index, 0, now)
           doc == [NoFile EXCEPT !.log = <<"created">>, !.at = at]
<1>2. index' = RecordCreate(index, s, at) /\ Persist("create", s, doc, "none")
  BY <1>1
<1>3. now \in Nat /\ index.last \in Nat /\ index.epoch \in Nat
  BY FileAssumption DEF WalkInv, TimesInv
<1>4. at \in Nat /\ at > index.last
  BY <1>3, UpdateTimeGrows
<1>5. doc.at = at
  BY DEF NoFile
<1> HIDE DEF at, doc
<1>6. /\ index.generation \in Nat /\ index.created \in [Sessions -> 0..index.generation]
      /\ DOMAIN index = {"epoch", "generation", "created", "last"}
  BY DEF IInv, ListInv, ResetIndex
<1>7. /\ index'.last = at /\ index'.epoch = index.epoch
      /\ index'.generation = index.generation + 1
      /\ index'.created = [index.created EXCEPT ![s] = index.generation + 1]
  BY <1>2, <1>6 DEF RecordCreate
<1>8. /\ index'.created[s] = index.generation + 1
      /\ \A r \in Sessions : r # s => index'.created[r] = index.created[r]
  BY <1>6, <1>7
<1>9. UNCHANGED <<dir, disk, opened>> /\ Ready /\ ~Exists(s)
  BY DEF Create
<1>10. /\ index'.created[s] > index.generation /\ index'.created[s] \in Nat
       /\ index'.generation \in Nat /\ index.generation <= index'.generation
  BY <1>6, <1>7, <1>8
<1>11. doc.at \in Nat /\ doc.at > index.last /\ index'.last = doc.at
  BY <1>4, <1>5, <1>7
<1> QED
  BY <1>2, <1>7, <1>8, <1>9, <1>10, <1>11, PersistWalk

\* A commit and a recovery stamp a document that is there.
LEMMA StampWalk ==
  ASSUME IInv, WalkInv, Ready, NEW s \in Sessions, Exists(s), NEW kind, NEW doc, NEW key,
         NEW now \in Times,
         doc.at = NextUpdatedAt(index, dir[s].at, now),
         index' = Stamped(index, NextUpdatedAt(index, dir[s].at, now)),
         Persist(kind, s, doc, key), UNCHANGED <<dir, disk, opened>>
  PROVE  WalkInv'
<1> DEFINE at == NextUpdatedAt(index, dir[s].at, now)
<1>1. now \in Nat /\ index.last \in Nat /\ index.epoch \in Nat /\ dir[s].at \in Nat
  BY FileAssumption, TimesAreNat DEF WalkInv, TimesInv
<1>2. at \in Nat /\ at > index.last
  BY <1>1, UpdateTimeGrows
<1>3. index' = Stamped(index, at) /\ doc.at = at
  OBVIOUS
<1> HIDE DEF at
<1>4. /\ index.generation \in Nat /\ index.created \in [Sessions -> 0..index.generation]
      /\ DOMAIN index = {"epoch", "generation", "created", "last"}
  BY DEF IInv, ListInv, ResetIndex
<1>5. /\ index'.last = at /\ index'.epoch = index.epoch
      /\ index'.generation = index.generation /\ index'.created = index.created
  BY <1>3, <1>4 DEF Stamped
<1>6. index'.created[s] \in Nat /\ index'.generation \in Nat /\ index.generation <= index'.generation
  BY <1>4, <1>5
<1>7. \A r \in Sessions : r # s => index'.created[r] = index.created[r]
  BY <1>5
<1>8. doc.at \in Nat /\ doc.at > index.last /\ index'.last = doc.at
  BY <1>2, <1>3, <1>5
<1> QED
  BY <1>5, <1>6, <1>7, <1>8, PersistWalk

\* Commit and Recover stamp the Session's document.
LEMMA CommitWalk ==
  ASSUME IInv, WalkInv, NEW s \in Sessions, NEW request \in Requests, Commit(s, request)
  PROVE  WalkInv'
<1>1. PICK now \in Times :
        LET at == NextUpdatedAt(index, dir[s].at, now) IN
        /\ index' = Stamped(index, at)
        /\ Persist("commit", s, Committed(dir[s], request, at), request.key)
  BY DEF Commit
<1> DEFINE at == NextUpdatedAt(index, dir[s].at, now)
           doc == Committed(dir[s], request, at)
<1>2. index' = Stamped(index, at) /\ Persist("commit", s, doc, request.key)
  BY <1>1
<1>3. Sound(dir[s])
  BY DirSound DEF IInv
<1>4. doc.at = at
  <2>1. "at" \in DOMAIN dir[s]
    BY <1>3 DEF Sound, Shape, NoFile
  <2> HIDE DEF at
  <2> QED
    BY <2>1 DEF Committed
<1>5. UNCHANGED <<dir, disk, opened>> /\ Ready /\ Exists(s)
  BY DEF Commit
<1> HIDE DEF doc
<1> QED
  BY <1>2, <1>4, <1>5, StampWalk

LEMMA RecoverWalk ==
  ASSUME IInv, WalkInv, NEW s \in Sessions, Recover(s)
  PROVE  WalkInv'
<1>1. PICK now \in Times :
        LET at == NextUpdatedAt(index, dir[s].at, now) IN
        /\ index' = Stamped(index, at)
        /\ Persist("recover", s,
                   [dir[s] EXCEPT !.log = Append(@, "recovered"), !.run = FALSE, !.at = at], "none")
  BY DEF Recover
<1> DEFINE at == NextUpdatedAt(index, dir[s].at, now)
           doc == [dir[s] EXCEPT !.log = Append(@, "recovered"), !.run = FALSE, !.at = at]
<1>2. index' = Stamped(index, at) /\ Persist("recover", s, doc, "none")
  BY <1>1
<1>3. Sound(dir[s])
  BY DirSound DEF IInv
<1>4. doc.at = at
  <2>1. "at" \in DOMAIN dir[s]
    BY <1>3 DEF Sound, Shape, NoFile
  <2> HIDE DEF at
  <2> QED
    BY <2>1
<1>5. UNCHANGED <<dir, disk, opened>> /\ Ready /\ Exists(s)
  BY DEF Recover
<1> HIDE DEF doc
<1> QED
  BY <1>2, <1>4, <1>5, StampWalk

\* A new lifetime of the Store honours no cursor of an earlier one.
LEMMA OpenWalk ==
  ASSUME IInv, WalkInv, Open
  PROVE  WalkInv'
<1>1. /\ index' = ResetIndex(index.epoch + 1) /\ opened' = TRUE
      /\ UNCHANGED <<dir, disk, op, walk>>
  BY DEF Open
<1>2. index'.epoch = index.epoch + 1 /\ index'.last = 0
  BY <1>1 DEF ResetIndex
<1>3. index.epoch \in Nat
  BY DEF WalkInv, TimesInv
<1>4. TimesInv'
  BY <1>1, <1>2, <1>3 DEF WalkInv, TimesInv
<1>5. WalkShape' /\ WalkComplete'
  BY <1>1, <1>2, <1>3, WalkKept DEF WalkInv
<1>6. ~Live'
  <2>1. walk.state = "open" => walk.cursor.epoch \in 1..index.epoch
    BY DEF WalkInv, WalkShape
  <2> QED
    BY <1>1, <1>2, <1>3, <2>1 DEF Live
<1>7. LiveInv'
  BY <1>6 DEF LiveInv
<1> QED
  BY <1>4, <1>5, <1>7 DEF WalkInv

\* A Store that is no longer open honours no cursor.
LEMMA CloseWalk ==
  ASSUME IInv, WalkInv, Close \/ Crash
  PROVE  WalkInv'
<1>1. opened' = FALSE /\ UNCHANGED <<index, walk>>
  BY DEF Close, Crash
<1>2. WalkShape' /\ WalkComplete'
  BY <1>1, WalkKept DEF WalkInv, TimesInv
<1>3. LiveInv'
  BY <1>1 DEF LiveInv, Live
<1>4. TimesInv'
  <2>1. CASE Close
    <3>1. UNCHANGED <<disk, op>> /\ op = NoOp
      BY <2>1 DEF Close, Ready, Idle
    <3> QED
      BY <1>1, <3>1 DEF WalkInv, TimesInv
  <2>2. CASE Crash
    <3>1. op' = NoOp /\ NoOp.doc.at = 0
      BY <2>2 DEF Crash, NoOp, NoFile
    <3>2. \A s \in Sessions : dir'[s] \in disk[s] /\ disk'[s] = {dir'[s]}
      BY <2>2, CrashLeaves DEF IInv
    <3>3. \A s \in Sessions : \A doc \in disk'[s] : doc.at \in Nat
      BY <3>2 DEF WalkInv, TimesInv
    <3> QED
      BY <1>1, <3>1, <3>3 DEF WalkInv, TimesInv
  <2> QED
    BY <2>1, <2>2
<1> QED
  BY <1>2, <1>3, <1>4 DEF WalkInv

\* A step that neither lists nor writes: a Session's document may only be replaced
\* by the one that is being written.
LEMMA QuietWalk ==
  ASSUME IInv, WalkInv, UNCHANGED <<opened, index, walk>>,
         op' = NoOp \/ (op # NoOp /\ op'.session = op.session /\ op'.doc = op.doc),
         \A s \in Sessions : dir'[s] = dir[s] \/ (op # NoOp /\ s = op.session /\ dir'[s] = op.doc),
         \A s \in Sessions : disk'[s] \subseteq disk[s] \cup {op.doc}
  PROVE  WalkInv'
<1>1. NoOp.doc.at = 0
  BY DEF NoOp, NoFile
<1>2. TimesInv'
  <2>1. \A s \in Sessions : \A doc \in disk'[s] : doc.at \in Nat
    BY DEF WalkInv, TimesInv
  <2> QED
    BY <1>1, <2>1 DEF WalkInv, TimesInv
<1>3. WalkShape' /\ WalkComplete'
  BY WalkKept DEF WalkInv, TimesInv
<1>4. LiveInv'
  <2> SUFFICES ASSUME Live'
               PROVE  LiveInv'
    BY DEF LiveInv
  <2>1. Live
    BY DEF Live
  <2>2. /\ walk.cursor.cutoff <= index.generation /\ walk.cursor.at <= index.last
        /\ \A s \in Sessions \ walk.start :
             Exists(s) \/ (op # NoOp /\ op.session = s) => index.created[s] > walk.cursor.cutoff
        /\ \A s \in walk.start \ walk.moved :
             /\ Exists(s) /\ index.created[s] <= walk.cursor.cutoff
             /\ s \in ToSet(walk.returned) \/ AfterPosition(Entry(s), walk.cursor)
        /\ \A s \in ToSet(walk.returned) : ~AfterPosition(Entry(s), walk.cursor)
        /\ op # NoOp => op.session \in walk.moved /\ op.doc.at > walk.cursor.at
    BY <2>1 DEF WalkInv, LiveInv
  <2>3. /\ walk.start \in SUBSET Sessions /\ walk.returned \in Seq(Sessions)
        /\ walk.cursor.at \in Nat /\ op.doc.at \in Nat
    BY <2>1 DEF WalkInv, WalkShape, TimesInv, Live
  <2>4. op' # NoOp => op # NoOp /\ op'.session = op.session /\ op'.doc = op.doc
    OBVIOUS
  <2>5. ASSUME NEW s \in Sessions
        PROVE  \/ Entry(s)' = Entry(s) /\ (Exists(s)' <=> Exists(s))
               \/ op # NoOp /\ s = op.session /\ Entry(s)' = [id |-> s, at |-> op.doc.at]
    BY DEF Entry, Exists
  <2>6. \A s \in Sessions \ walk.start :
          Exists(s)' \/ (op' # NoOp /\ op'.session = s) => index'.created[s] > walk'.cursor.cutoff
    BY <2>2, <2>4, <2>5
  <2>7. \A s \in walk'.start \ walk'.moved :
          /\ Exists(s)' /\ index'.created[s] <= walk'.cursor.cutoff
          /\ s \in ToSet(walk'.returned) \/ AfterPosition(Entry(s)', walk'.cursor)
    BY <2>2, <2>3, <2>5
  <2>8. \A s \in ToSet(walk'.returned) : ~AfterPosition(Entry(s)', walk'.cursor)
    <3> SUFFICES ASSUME NEW s \in ToSet(walk.returned)
                 PROVE  ~AfterPosition(Entry(s)', walk.cursor)
      OBVIOUS
    <3>1. s \in Sessions
      BY <2>3 DEF ToSet
    <3>2. CASE Entry(s)' = Entry(s)
      BY <2>2, <3>2
    <3>3. CASE op # NoOp /\ Entry(s)' = [id |-> s, at |-> op.doc.at]
      <4>1. Entry(s)'.at = op.doc.at
        BY <3>3
      <4> QED
        BY <2>2, <2>3, <3>3, <4>1 DEF AfterPosition
    <3> QED
      BY <2>5, <3>1, <3>2, <3>3
  <2> QED
    BY <2>2, <2>4, <2>6, <2>7, <2>8 DEF LiveInv
<1> QED
  BY <1>2, <1>3, <1>4 DEF WalkInv

\* The steps of persistLocked only put op's document in its place.
LEMMA WriteWalk ==
  ASSUME IInv, WalkInv, SyncTemp \/ Rename \/ SyncDirectory \/ PersistFails
  PROVE  WalkInv'
<1>1. UNCHANGED <<opened, index, walk>>
  BY DEF SyncTemp, Rename, SyncDirectory, PersistFails
<1>2. OpInv /\ FilesInv
  BY DEF IInv
<1>3. CASE SyncTemp
  <2>1. op # NoOp /\ op' = [op EXCEPT !.step = "synced"] /\ UNCHANGED <<dir, disk>>
    BY <1>3 DEF SyncTemp, NoOp
  <2>2. op'.session = op.session /\ op'.doc = op.doc
    BY <1>2, <2>1, NextStep
  <2> QED
    BY <1>1, <2>1, <2>2, QuietWalk
<1>4. CASE Rename
  <2>1. op.step = "synced"
    BY <1>4 DEF Rename, CanRename
  <2>2. op # NoOp
    BY <2>1 DEF NoOp
  <2>3. op' = [op EXCEPT !.step = "renamed"]
    BY <1>4 DEF Rename
  <2>4. op'.session = op.session /\ op'.doc = op.doc
    BY <1>2, <2>3, NextStep
  <2>5. /\ dir' = [dir EXCEPT ![op.session] = op.doc]
        /\ disk' = [disk EXCEPT ![op.session] = @ \cup {op.doc}]
    BY <1>4, <2>1 DEF Rename, Left
  <2>6. \A s \in Sessions : dir'[s] = dir[s] \/ (op # NoOp /\ s = op.session /\ dir'[s] = op.doc)
    BY <1>2, <2>2, <2>5 DEF FilesInv
  <2>7. \A s \in Sessions : disk'[s] \subseteq disk[s] \cup {op.doc}
    BY <1>2, <2>5 DEF FilesInv
  <2> QED
    BY <1>1, <2>2, <2>4, <2>6, <2>7, QuietWalk
<1>5. CASE SyncDirectory
  <2>1. op' = NoOp /\ dir' = dir /\ disk' = Settled
    BY <1>5 DEF SyncDirectory
  <2>2. \A s \in Sessions : disk'[s] \subseteq disk[s]
    BY <1>2, <2>1, SettledIsDir DEF FilesInv
  <2> QED
    BY <1>1, <2>1, <2>2, QuietWalk
<1>6. CASE PersistFails
  <2>1. op' = NoOp /\ UNCHANGED <<dir, disk>>
    BY <1>6 DEF PersistFails
  <2> QED
    BY <1>1, <2>1, QuietWalk
<1> QED
  BY <1>3, <1>4, <1>5, <1>6

\* What the index has seen once the documents are read.
LEMMA SeenIs ==
  ASSUME IInv, TimesInv
  PROVE  LET seen == Observed(index, Summaries)
         IN  /\ Listing(Summaries)
             /\ \A d \in Summaries : d.id \in Visible /\ d = Entry(d.id)
             /\ seen.epoch = index.epoch /\ seen.generation = index.generation
             /\ seen.created = index.created /\ seen.last \in Nat /\ seen.last >= index.last
             /\ \A d \in Summaries : seen.last >= d.at
<1> DEFINE seen == Observed(index, Summaries)
<1>1. /\ Listing(Summaries)
      /\ \A d \in Summaries : d.id \in Visible /\ d = Entry(d.id)
  <2>1. \A d \in Summaries : d = Entry(d.id)
    BY DEF Summaries, Entry
  <2> QED
    BY <2>1, TimesAreNat, SummariesListing
<1>2. DOMAIN index = {"epoch", "generation", "created", "last"}
  BY DEF IInv, ListInv, ResetIndex
<1>3. /\ seen.epoch = index.epoch /\ seen.generation = index.generation
      /\ seen.created = index.created
      /\ seen.last = Max({index.last} \cup {d.at : d \in Summaries})
  BY <1>2 DEF Observed
<1>4. index.last \in Nat
  BY DEF TimesInv
<1> HIDE DEF seen
<1>5. seen.last \in Nat /\ seen.last >= index.last /\ \A d \in Summaries : seen.last >= d.at
  BY <1>1, <1>3, <1>4, LatestIs
<1> QED
  BY <1>1, <1>3, <1>5 DEF seen

\* Two sequences without repetition that share no element.
LEMMA JoinInjective ==
  ASSUME NEW T, NEW p \in Seq(T), NEW q \in Seq(T), IsInjective(p), IsInjective(q),
         ToSet(p) \cap ToSet(q) = {}
  PROVE  /\ p \o q \in Seq(T) /\ IsInjective(p \o q)
         /\ ToSet(p \o q) = ToSet(p) \cup ToSet(q)
<1> DEFINE r == p \o q
<1>1. r \in Seq(T) /\ Len(r) = Len(p) + Len(q) /\ Len(p) \in Nat /\ Len(q) \in Nat
  OBVIOUS
<1>2. \A i \in 1..Len(r) : r[i] = IF i <= Len(p) THEN p[i] ELSE q[i - Len(p)]
  OBVIOUS
<1>3. DOMAIN p = 1..Len(p) /\ DOMAIN q = 1..Len(q) /\ DOMAIN r = 1..Len(r)
  OBVIOUS
<1> HIDE DEF r
<1>4. ASSUME NEW i \in 1..Len(r)
      PROVE  \/ i \in 1..Len(p) /\ r[i] = p[i] /\ r[i] \in ToSet(p)
             \/ i - Len(p) \in 1..Len(q) /\ r[i] = q[i - Len(p)] /\ r[i] \in ToSet(q)
  <2>1. CASE i <= Len(p)
    <3>1. i \in 1..Len(p) /\ r[i] = p[i]
      BY <1>1, <1>2, <2>1
    <3> QED
      BY <1>3, <3>1 DEF ToSet
  <2>2. CASE ~(i <= Len(p))
    <3>1. i - Len(p) \in 1..Len(q) /\ r[i] = q[i - Len(p)]
      BY <1>1, <1>2, <2>2
    <3> QED
      BY <1>3, <3>1 DEF ToSet
  <2> QED
    BY <2>1, <2>2
<1>5. IsInjective(r)
  <2> SUFFICES ASSUME NEW i \in 1..Len(r), NEW j \in 1..Len(r), r[i] = r[j]
               PROVE  i = j
    BY <1>3 DEF IsInjective
  <2>1. CASE i \in 1..Len(p) /\ r[i] = p[i] /\ r[i] \in ToSet(p)
    <3>1. j \in 1..Len(p) /\ r[j] = p[j]
      BY <1>4, <2>1
    <3> QED
      BY <1>3, <2>1, <3>1 DEF IsInjective
  <2>2. CASE i - Len(p) \in 1..Len(q) /\ r[i] = q[i - Len(p)] /\ r[i] \in ToSet(q)
    <3>1. j - Len(p) \in 1..Len(q) /\ r[j] = q[j - Len(p)]
      BY <1>4, <2>2
    <3>2. i - Len(p) = j - Len(p)
      BY <1>3, <2>2, <3>1 DEF IsInjective
    <3> QED
      BY <1>1, <3>2
  <2> QED
    BY <1>4, <2>1, <2>2
<1>6. ToSet(r) \subseteq ToSet(p) \cup ToSet(q)
  BY <1>3, <1>4 DEF ToSet
<1>7. ToSet(p) \subseteq ToSet(r)
  <2> SUFFICES ASSUME NEW i \in 1..Len(p)
               PROVE  \E j \in 1..Len(r) : r[j] = p[i]
    BY <1>3 DEF ToSet
  <2>1. i \in 1..Len(r) /\ r[i] = p[i]
    BY <1>1, <1>2
  <2> QED
    BY <2>1
<1>8. ToSet(q) \subseteq ToSet(r)
  <2> SUFFICES ASSUME NEW i \in 1..Len(q)
               PROVE  \E j \in 1..Len(r) : r[j] = q[i]
    BY <1>3 DEF ToSet
  <2>1. i + Len(p) \in 1..Len(r) /\ ~(i + Len(p) <= Len(p)) /\ i + Len(p) - Len(p) = i
    BY <1>1
  <2>2. r[i + Len(p)] = q[i]
    BY <1>2, <2>1
  <2> QED
    BY <2>1, <2>2
<1> QED
  BY <1>1, <1>5, <1>6, <1>7, <1>8 DEF r

\* The Sessions of a page, in its order.
Ids(page) == [n \in DOMAIN page |-> page[n].id]

\* A page names no Session twice.
LEMMA PageIds ==
  ASSUME NEW E, Listing(E), \A d \in E : d.id \in Sessions, NEW page \in Seq(E),
         \A m \in DOMAIN page, n \in DOMAIN page : m < n => Before(page[m], page[n])
  PROVE  /\ Ids(page) \in Seq(Sessions) /\ IsInjective(Ids(page))
         /\ \A s : s \in ToSet(Ids(page)) <=> \E n \in DOMAIN page : page[n].id = s
<1>1. DOMAIN page = 1..Len(page) /\ Len(page) \in Nat /\ \A n \in DOMAIN page : page[n] \in E
  OBVIOUS
<1>2. DOMAIN Ids(page) = 1..Len(page) /\ \A n \in 1..Len(page) : Ids(page)[n] = page[n].id
  BY <1>1 DEF Ids
<1>3. Ids(page) \in Seq(Sessions)
  <2>1. \A n \in 1..Len(page) : page[n].id \in Sessions
    BY <1>1
  <2>2. Ids(page) = [n \in 1..Len(page) |-> page[n].id]
    BY <1>1 DEF Ids
  <2>3. Ids(page) \in [1..Len(page) -> Sessions]
    BY <2>1, <2>2
  <2> QED
    BY <1>1, <2>3
<1>4. ASSUME NEW m \in 1..Len(page), NEW n \in 1..Len(page), Ids(page)[m] = Ids(page)[n]
      PROVE  m = n
  <2>1. page[m] = page[n] /\ page[m] \in E
    BY <1>1, <1>2, <1>4 DEF Listing
  <2>2. ~Before(page[m], page[n]) /\ ~Before(page[n], page[m])
    BY <2>1, BeforeOrders
  <2> QED
    BY <1>1, <2>2
<1> QED
  BY <1>1, <1>2, <1>3, <1>4 DEF IsInjective, ToSet

\* What the listing that begins or goes on is entitled to: start and moved are those of
\* the walk after it, cutoff the generation it keeps to, E what is still to come.
Entitled(start, moved, returned, c, cutoff, E) ==
  /\ returned \in Seq(Sessions) /\ IsInjective(returned) /\ ToSet(returned) \subseteq start
  /\ start \in SUBSET Sessions /\ cutoff \in Nat /\ cutoff <= index.generation
  /\ \A d \in E : d = Entry(d.id) /\ d.id \in start /\ d.id \notin ToSet(returned)
  /\ \A s \in start \ moved : s \in ToSet(returned) \/ Entry(s) \in E
  /\ \A s \in ToSet(returned) : \A d \in E : ~Before(d, Entry(s))
  /\ \A s \in Sessions \ start : Exists(s) => index.created[s] > cutoff
  /\ \A s \in start \ moved : Exists(s) /\ index.created[s] <= cutoff

\* The first page is entitled to every Session there is.
LEMMA FirstPage ==
  ASSUME IInv, WalkInv, walk.state = "none", NEW seen, seen.created = index.created,
         seen.generation = index.generation, Listing(Summaries),
         \A d \in Summaries : d.id \in Visible /\ d = Entry(d.id)
  PROVE  /\ walk.cursor = NoCursor
         /\ Entitled(Visible, {}, walk.returned, walk.cursor, index.generation,
                     Eligible(seen, walk.cursor, Summaries))
<1> DEFINE E == Eligible(seen, walk.cursor, Summaries)
<1>1. walk.cursor = NoCursor /\ walk.returned = <<>> /\ ToSet(walk.returned) = {}
  BY EmptyWalk DEF WalkInv, WalkShape
<1>2. index.generation \in Nat /\ index.created \in [Sessions -> 0..index.generation]
  BY DEF IInv, ListInv
<1>3. Visible \in SUBSET Sessions /\ \A s \in Sessions : Exists(s) <=> s \in Visible
  BY DEF Visible
<1>4. \A s \in Visible : Entry(s) \in Summaries /\ Entry(s).id = s
  BY DEF Summaries, Entry
<1>5. \A s \in Visible : index.created[s] <= index.generation
  BY <1>2, <1>3
<1>6. E = Summaries
  BY <1>1, <1>4, <1>5 DEF Eligible
<1>7. IsInjective(<<>>) /\ <<>> \in Seq(Sessions)
  BY DEF IsInjective
<1> HIDE DEF E
<1>8. \A d \in E : d = Entry(d.id) /\ d.id \in Visible /\ d.id \notin ToSet(walk.returned)
  BY <1>1, <1>6
<1>9. \A s \in Visible \ {} : s \in ToSet(walk.returned) \/ Entry(s) \in E
  BY <1>4, <1>6
<1> QED
  BY <1>1, <1>2, <1>3, <1>5, <1>7, <1>8, <1>9 DEF Entitled, E

\* Every further page is entitled to what the pages before it left.
LEMMA LaterPage ==
  ASSUME IInv, WalkInv, opened, op = NoOp, walk.state = "open", CursorAccepted(index, walk.cursor),
         NEW seen, seen.created = index.created, seen.generation = index.generation,
         Listing(Summaries), \A d \in Summaries : d.id \in Visible /\ d = Entry(d.id)
  PROVE  /\ walk.cursor # NoCursor
         /\ Entitled(walk.start, walk.moved, walk.returned, walk.cursor, walk.cursor.cutoff,
                     Eligible(seen, walk.cursor, Summaries))
<1> DEFINE c == walk.cursor
           E == Eligible(seen, c, Summaries)
<1>1. /\ c.epoch \in 1..index.epoch /\ c.cutoff \in Nat /\ c.at \in Nat /\ c.id \in Nat
      /\ walk.returned \in Seq(Sessions) /\ walk.start \in SUBSET Sessions
      /\ index.epoch \in Nat
  BY DEF WalkInv, WalkShape, TimesInv
<1>2. c # NoCursor
  BY <1>1 DEF NoCursor
<1>3. Live
  BY <1>2 DEF CursorAccepted, Live
<1>4. /\ c.cutoff <= index.generation
      /\ \A s \in Sessions \ walk.start : Exists(s) => index.created[s] > c.cutoff
      /\ \A s \in walk.start \ walk.moved :
           /\ Exists(s) /\ index.created[s] <= c.cutoff
           /\ s \in ToSet(walk.returned) \/ AfterPosition(Entry(s), c)
      /\ \A s \in ToSet(walk.returned) : ~AfterPosition(Entry(s), c)
  BY <1>3 DEF WalkInv, LiveInv
<1>5. IsInjective(walk.returned) /\ ToSet(walk.returned) \subseteq walk.start
  BY DEF WalkInv, WalkComplete
<1>6. E = {d \in Summaries : index.created[d.id] <= c.cutoff /\ AfterPosition(d, c)}
  BY <1>2 DEF Eligible
<1>7. Visible \in SUBSET Sessions /\ \A s \in Sessions : Exists(s) <=> s \in Visible
  BY DEF Visible
<1>8. \A s \in Visible : Entry(s) \in Summaries /\ Entry(s).id = s
  BY DEF Summaries, Entry
<1>9. index.generation \in Nat /\ index.created \in [Sessions -> 0..index.generation]
  BY DEF IInv, ListInv
<1> HIDE DEF c, E
<1>10. ASSUME NEW d \in E
       PROVE  d = Entry(d.id) /\ d.id \in walk.start /\ d.id \notin ToSet(walk.returned)
  <2>1. d \in Summaries /\ index.created[d.id] <= c.cutoff /\ AfterPosition(d, c)
    BY <1>6
  <2>2. d = Entry(d.id) /\ d.id \in Sessions /\ Exists(d.id)
    BY <1>7, <2>1
  <2>3. index.created[d.id] \in Nat
    BY <1>9, <2>2
  <2>4. d.id \in walk.start
    BY <1>1, <1>4, <2>1, <2>2, <2>3
  <2> QED
    BY <1>4, <2>1, <2>2, <2>4
<1>11. ASSUME NEW s \in walk.start \ walk.moved
       PROVE  s \in ToSet(walk.returned) \/ Entry(s) \in E
  BY <1>1, <1>4, <1>6, <1>7, <1>8
<1>12. ASSUME NEW s \in ToSet(walk.returned), NEW d \in E
       PROVE  ~Before(d, Entry(s))
  <2>1. AfterPosition(d, c) /\ ~AfterPosition(Entry(s), c)
    BY <1>4, <1>6
  <2>2. d \in Summaries /\ d.at \in Nat /\ d.id \in Nat
    BY <1>6 DEF Listing
  <2>3. s \in Sessions
    BY <1>1 DEF ToSet
  <2>4. Entry(s).at \in Nat /\ Entry(s).id \in Nat
    BY <2>3, TimesAreNat, ListAssumption DEF WalkInv, Entry, Sessions
  <2> QED
    BY <1>1, <2>1, <2>2, <2>4 DEF AfterPosition, Before
<1>13. \A s \in walk.start \ walk.moved : Exists(s) /\ index.created[s] <= c.cutoff
  BY <1>4
<1> QED
  BY <1>1, <1>2, <1>4, <1>5, <1>9, <1>10, <1>11, <1>12, <1>13 DEF Entitled, c, E

\* A page, the first or a later one, keeps the invariant.
LEMMA ListWalk ==
  ASSUME IInv, WalkInv, ListSessions
  PROVE  WalkInv'
<1> DEFINE seen == Observed(index, Summaries)
           c == walk.cursor
           E == Eligible(seen, c, Summaries)
           page == Paginate(seen, c, Summaries).page
           next == Paginate(seen, c, Summaries).next
           start == IF walk.state = "none" THEN Visible ELSE walk.start
           moved == IF walk.state = "none" THEN {} ELSE walk.moved
           cutoff == IF c = NoCursor THEN seen.generation ELSE c.cutoff
<1>1. /\ opened /\ op = NoOp /\ walk.state # "done" /\ CursorAccepted(index, c)
      /\ index' = seen /\ UNCHANGED <<dir, disk, opened, op>>
  BY DEF ListSessions, Ready, Idle
<1>2. walk' = [cursor |-> next, returned |-> walk.returned \o Ids(page), start |-> start,
               moved |-> moved, state |-> IF next = NoCursor THEN "done" ELSE "open"]
  BY DEF ListSessions, Ids
<1>3. /\ Listing(Summaries) /\ \A d \in Summaries : d.id \in Visible /\ d = Entry(d.id)
      /\ seen.epoch = index.epoch /\ seen.generation = index.generation
      /\ seen.created = index.created /\ seen.last \in Nat /\ seen.last >= index.last
      /\ \A d \in Summaries : seen.last >= d.at
  BY SeenIs DEF WalkInv
<1>4. index.epoch \in Nat \ {0} /\ index.last \in Nat /\ index.generation \in Nat
  BY <1>1 DEF WalkInv, TimesInv, IInv, ListInv
<1>5. walk.state \in {"none", "open", "done"}
  BY DEF IInv, ListInv
<1> HIDE DEF seen
<1>6. Entitled(start, moved, walk.returned, c, cutoff, E)
  <2>1. CASE walk.state = "none"
    BY <1>3, <2>1, FirstPage
  <2>2. CASE walk.state = "open"
    BY <1>1, <1>3, <2>2, LaterPage
  <2> QED
    BY <1>1, <1>5, <2>1, <2>2
<1>7. /\ page \in Seq(E)
      /\ \A m \in DOMAIN page, n \in DOMAIN page : m < n => Before(page[m], page[n])
      /\ next = NoCursor => \A d \in E : \E n \in DOMAIN page : page[n] = d
      /\ next # NoCursor =>
           \E last \in E :
             /\ next = [epoch |-> seen.epoch, cutoff |-> cutoff, at |-> last.at, id |-> last.id]
             /\ \A n \in DOMAIN page : ~Before(last, page[n])
             /\ \A d \in E : (\E n \in DOMAIN page : page[n] = d) \/ Before(last, d)
  <2>1. seen.epoch \in Nat \ {0}
    BY <1>3, <1>4
  <2> QED
    BY <1>3, <2>1, PageIs
<1>8. E \in SUBSET Summaries /\ Listing(E)
  <2>1. E \in SUBSET Summaries
    BY DEF Eligible
  <2> HIDE DEF E
  <2> QED
    BY <1>3, <2>1, PartOfListing
<1> HIDE DEF E, page, next, start, moved, cutoff
<1>9. /\ walk.returned \in Seq(Sessions) /\ IsInjective(walk.returned)
      /\ ToSet(walk.returned) \subseteq start /\ start \in SUBSET Sessions
      /\ cutoff \in Nat /\ cutoff <= index.generation
      /\ \A d \in E : d = Entry(d.id) /\ d.id \in start /\ d.id \notin ToSet(walk.returned)
      /\ \A s \in start \ moved : s \in ToSet(walk.returned) \/ Entry(s) \in E
      /\ \A s \in ToSet(walk.returned) : \A d \in E : ~Before(d, Entry(s))
      /\ \A s \in Sessions \ start : Exists(s) => index.created[s] > cutoff
      /\ \A s \in start \ moved : Exists(s) /\ index.created[s] <= cutoff
  BY <1>6 DEF Entitled
<1>10. /\ Ids(page) \in Seq(Sessions) /\ IsInjective(Ids(page))
       /\ \A s : s \in ToSet(Ids(page)) <=> \E n \in DOMAIN page : page[n].id = s
  <2>1. \A d \in E : d.id \in Sessions
    BY <1>9
  <2> QED
    BY <1>7, <1>8, <2>1, PageIds
<1>11. \A n \in DOMAIN page : page[n] \in E
  BY <1>7
<1>12. ToSet(walk.returned) \cap ToSet(Ids(page)) = {}
  BY <1>9, <1>10, <1>11
<1> DEFINE returned == walk.returned \o Ids(page)
<1>13. /\ returned \in Seq(Sessions) /\ IsInjective(returned)
       /\ ToSet(returned) = ToSet(walk.returned) \cup ToSet(Ids(page))
  BY <1>9, <1>10, <1>12, JoinInjective
<1> HIDE DEF returned
<1>14. ToSet(returned) \subseteq start
  BY <1>9, <1>10, <1>11, <1>13
<1>15. ASSUME NEW s, Entry(s) \in E, \E n \in DOMAIN page : page[n] = Entry(s)
       PROVE  s \in ToSet(returned)
  <2>1. Entry(s).id = s
    BY DEF Entry
  <2> QED
    BY <1>10, <1>13, <1>15, <2>1
<1>16. /\ walk'.cursor = next /\ walk'.returned = returned /\ walk'.start = start
       /\ walk'.moved = moved /\ walk'.state = IF next = NoCursor THEN "done" ELSE "open"
  BY <1>2 DEF returned
<1>17. WalkComplete'
  <2>1. next = NoCursor => start \ moved \subseteq ToSet(returned)
    BY <1>7, <1>9, <1>13, <1>15
  <2> QED
    BY <1>13, <1>14, <1>16, <2>1 DEF WalkComplete
<1>18. TimesInv'
  BY <1>1, <1>3, <1>4 DEF WalkInv, TimesInv
<1>19. CASE next = NoCursor
  <2>1. WalkShape' /\ LiveInv'
    BY <1>9, <1>13, <1>16, <1>19 DEF WalkShape, LiveInv, Live
  <2> QED
    BY <1>17, <1>18, <2>1 DEF WalkInv
<1>20. CASE next # NoCursor
  <2>1. PICK last \in E :
          /\ next = [epoch |-> seen.epoch, cutoff |-> cutoff, at |-> last.at, id |-> last.id]
          /\ \A n \in DOMAIN page : ~Before(last, page[n])
          /\ \A d \in E : (\E n \in DOMAIN page : page[n] = d) \/ Before(last, d)
    BY <1>7, <1>20
  <2>2. /\ next.epoch = index.epoch /\ next.cutoff = cutoff
        /\ next.at = last.at /\ next.id = last.id
    BY <1>3, <2>1
  <2>3. last.at \in Nat /\ last.id \in Nat /\ last \in Summaries
    BY <1>8 DEF Listing
  <2>4. ASSUME NEW s \in Sessions
        PROVE  AfterPosition(Entry(s), next) <=> Before(last, Entry(s))
    <3>1. Entry(s).at \in Nat /\ Entry(s).id \in Nat
      BY TimesAreNat, ListAssumption DEF WalkInv, Entry, Sessions
    <3> QED
      BY <2>2, <2>3, <3>1 DEF AfterPosition, Before
  <2>5. WalkShape'
    <3>1. index'.epoch = index.epoch /\ next.epoch \in 1..index.epoch
      BY <1>1, <1>3, <1>4, <2>2
    <3> QED
      BY <1>9, <1>13, <1>16, <1>20, <2>2, <2>3, <3>1 DEF WalkShape
  <2>6. LiveInv'
    <3>1. next.cutoff <= index'.generation /\ next.at <= index'.last
      BY <1>1, <1>3, <1>9, <2>2, <2>3
    <3>2. (\A s : Entry(s)' = Entry(s)) /\ (\A s : Exists(s)' <=> Exists(s))
      BY <1>1 DEF Entry, Exists
    <3>3. op' = NoOp /\ index'.created = index.created
      BY <1>1, <1>3
    <3>4. \A s \in Sessions \ start : Exists(s) => index.created[s] > next.cutoff
      BY <1>9, <2>2
    <3>5. ASSUME NEW s \in start \ moved
          PROVE  /\ Exists(s) /\ index.created[s] <= next.cutoff
                 /\ s \in ToSet(returned) \/ AfterPosition(Entry(s), next)
      <4>1. Exists(s) /\ index.created[s] <= next.cutoff
        BY <1>9, <2>2
      <4>2. CASE s \in ToSet(walk.returned)
        BY <1>13, <4>1, <4>2
      <4>3. CASE Entry(s) \in E
        BY <1>9, <1>15, <2>1, <2>4, <4>1, <4>3
      <4> QED
        BY <1>9, <4>2, <4>3
    <3>6. ASSUME NEW s \in ToSet(returned)
          PROVE  ~AfterPosition(Entry(s), next)
      <4>1. s \in Sessions
        BY <1>9, <1>14
      <4>2. CASE s \in ToSet(walk.returned)
        BY <1>9, <2>4, <4>1, <4>2
      <4>3. CASE \E n \in DOMAIN page : page[n].id = s
        <5>1. PICK n \in DOMAIN page : page[n].id = s
          BY <4>3
        <5>2. page[n] = Entry(s)
          BY <1>9, <1>11, <5>1
        <5> QED
          BY <2>1, <2>4, <4>1, <5>2
      <4> QED
        BY <1>10, <1>13, <4>2, <4>3
    <3>7. \A s \in Sessions \ walk'.start :
            Exists(s)' \/ (op' # NoOp /\ op'.session = s) => index'.created[s] > walk'.cursor.cutoff
      BY <1>16, <3>2, <3>3, <3>4
    <3>8. \A s \in walk'.start \ walk'.moved :
            /\ Exists(s)' /\ index'.created[s] <= walk'.cursor.cutoff
            /\ s \in ToSet(walk'.returned) \/ AfterPosition(Entry(s)', walk'.cursor)
      BY <1>16, <3>2, <3>3, <3>5
    <3>9. \A s \in ToSet(walk'.returned) : ~AfterPosition(Entry(s)', walk'.cursor)
      BY <1>16, <3>2, <3>6
    <3> QED
      BY <1>16, <3>1, <3>3, <3>7, <3>8, <3>9 DEF LiveInv
  <2> QED
    BY <1>17, <1>18, <2>5, <2>6 DEF WalkInv
<1> QED
  BY <1>19, <1>20

\* A client whose cursor is refused starts over.
LEMMA RefusedWalk ==
  ASSUME IInv, WalkInv, CursorRefused
  PROVE  WalkInv'
<1>1. /\ index' = Observed(index, Summaries) /\ walk' = NoWalk
      /\ UNCHANGED <<dir, disk, opened, op>>
  BY DEF CursorRefused
<1>2. index'.epoch = index.epoch /\ index'.last \in Nat
  BY <1>1, SeenIs DEF WalkInv
<1>3. TimesInv'
  BY <1>1, <1>2 DEF WalkInv, TimesInv
<1>4. WalkShape' /\ WalkComplete'
  <2>1. IsInjective(<<>>) /\ <<>> \in Seq(Sessions)
    BY DEF IsInjective
  <2> QED
    BY <1>1, <2>1, EmptyWalk DEF WalkShape, WalkComplete
<1>5. LiveInv'
  BY <1>1, EmptyWalk DEF LiveInv, Live
<1> QED
  BY <1>3, <1>4, <1>5 DEF WalkInv

\* Every step keeps the invariant of the traversal.
LEMMA WalkStep ==
  ASSUME IInv, WalkInv, [Next]_vars
  PROVE  WalkInv'
<1>1. CASE Next
  <2>1. CASE Open
    BY <2>1, OpenWalk
  <2>2. CASE Close \/ Crash
    BY <2>2, CloseWalk
  <2>3. CASE ListSessions
    BY <2>3, ListWalk
  <2>4. CASE CursorRefused
    BY <2>4, RefusedWalk
  <2>5. CASE \E s \in Sessions : Create(s) \/ Recover(s)
    BY <2>5, CreateWalk, RecoverWalk
  <2>6. CASE \E s \in Sessions, request \in Requests : Commit(s, request)
    BY <2>6, CommitWalk
  <2>7. CASE \E s \in Sessions, request \in Requests : Replay(s, request)
    <3>1. UNCHANGED <<dir, disk, opened, index, op, walk>> /\ op = NoOp
      BY <2>7 DEF Replay, Ready, Idle
    <3> QED
      BY <3>1, QuietWalk
  <2>8. CASE SyncTemp \/ Rename \/ SyncDirectory \/ PersistFails
    BY <2>8, WriteWalk
  <2> QED
    BY <1>1, <2>1, <2>2, <2>3, <2>4, <2>5, <2>6, <2>7, <2>8 DEF Next, Operation
<1>2. CASE UNCHANGED vars
  <2>1. UNCHANGED <<dir, disk, opened, index, op, walk>>
    BY <1>2 DEF vars
  <2>2. op' = NoOp \/ (op # NoOp /\ op'.session = op.session /\ op'.doc = op.doc)
    BY <2>1
  <2> QED
    BY <2>1, <2>2, QuietWalk
<1> QED
  BY <1>1, <1>2

(***************************************************************************)
(* A traversal of the listing returns a Session at most once, none created *)
(* after its first page, and when it ends every Session of its first       *)
(* page's time that was not written since, whatever the clock shows and    *)
(* wherever the Store crashes or is opened again (nextUpdatedAt, paginate, *)
(* sortSessionSummaries).                                                  *)
(***************************************************************************)
THEOREM TraversalIsComplete == Spec => []WalkComplete
<1>1. Init => IInv /\ WalkInv
  BY InitInv, WalkInit
<1>2. IInv /\ WalkInv /\ [Next]_vars => IInv' /\ WalkInv'
  BY NextKeeps, WalkStep
<1>3. IInv /\ WalkInv => WalkComplete
  BY DEF WalkInv
<1> QED
  BY <1>1, <1>2, <1>3, PTL DEF Spec

=============================================================================
