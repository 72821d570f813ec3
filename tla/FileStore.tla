----------------------------- MODULE FileStore -----------------------------
(***************************************************************************)
(* The file SessionStore (session/file_store.go): one document per         *)
(* Session, replaced as a whole by every operation that changes it.        *)
(*                                                                         *)
(* dir is the directory as the process sees it; disk holds, for each       *)
(* Session, every file a loss of power may leave in its place, because a   *)
(* rename is durable only once the directory is synced and the bytes of a  *)
(* file only once the file is.  An operation holds the Store's mutex from  *)
(* the read of the document to its answer, so op is the only one at work;  *)
(* its steps are separate because each may fail and the process may crash  *)
(* between any two.                                                        *)
(*                                                                         *)
(* A document is reduced to its log (what was committed, in order), to     *)
(* whether a Run is active, to whether it has hook records (which decides  *)
(* its format) and to its idempotency records.                             *)
(***************************************************************************)
EXTENDS SessionList

CONSTANTS
    Keys,           \* idempotency keys
    Times,          \* what the wall clock may show, in any order
    MaxRevision,    \* bound on a Session's revision
    MaxWrites,      \* bound on the revisions of all Sessions together
    MaxEpoch,       \* bound on how often the Store is opened
    MaxTrouble      \* bound on failures and crashes

ASSUME FileAssumption ==
    /\ Times \subseteq Nat
    /\ {MaxRevision, MaxWrites, MaxEpoch, MaxTrouble} \subseteq Nat
    /\ {"created", "recovered"} \cap Keys = {}     \* the Store's own entries are no client's

VARIABLES
    dir,            \* the file of each Session, as the process sees it
    disk,           \* the files a loss of power may leave instead
    opened,         \* FileStore.opened
    index,          \* FileStore.list
    op,             \* the operation that holds the mutex
    answer,         \* the last answer of a Commit
    kept,           \* revision each Session's clients were told was applied
    walk,           \* one traversal of the listing by a client
    trouble         \* failures and crashes so far

vars == <<dir, disk, opened, index, op, answer, kept, walk, trouble>>

Changes == {"start", "hook"}
Requests == [key : Keys, expected : 1..MaxRevision, change : Changes]

NoFile == [log |-> <<>>, torn |-> FALSE, run |-> FALSE, hooks |-> FALSE, format |-> 1,
           idem |-> {}, at |-> 0]
TornFile == [NoFile EXCEPT !.torn = TRUE]

Exists(s) == dir[s] # NoFile
Revision(doc) == Len(doc.log)

\* readDocumentLocked decodes the file and validateFileDocument accepts it.
Readable(doc) == ~doc.torn /\ (doc.format = 2) = doc.hooks

NoOp == [step |-> "none", kind |-> "none", session |-> 1, doc |-> NoFile, key |-> "none"]
NoAnswer == [kind |-> "none", session |-> 1, key |-> "none", revision |-> 0]

NoWalk == [cursor |-> NoCursor, returned |-> <<>>, start |-> {}, moved |-> {}, state |-> "none"]

Init ==
    /\ dir = [s \in Sessions |-> NoFile]
    /\ disk = [s \in Sessions |-> {NoFile}]
    /\ opened = FALSE
    /\ index = ResetIndex(0)
    /\ op = NoOp
    /\ answer = NoAnswer
    /\ kept = [s \in Sessions |-> 0]
    /\ walk = NoWalk
    /\ trouble = 0

Spend == trouble < MaxTrouble /\ trouble' = trouble + 1

Room(s) ==
    /\ Revision(dir[s]) < MaxRevision
    /\ FoldFunction(LAMBDA doc, sum : Revision(doc) + sum, 0, dir) < MaxWrites

Idle == op = NoOp
Ready == opened /\ Idle
-----------------------------------------------------------------------------
(* Opening and closing the Store.                                          *)

Open ==
    /\ ~opened /\ Idle
    /\ index.epoch < MaxEpoch
    /\ opened' = TRUE
    /\ index' = ResetIndex(index.epoch + 1)
    /\ answer' = NoAnswer
    /\ UNCHANGED <<dir, disk, op, kept, walk, trouble>>

Close ==
    /\ Ready
    /\ opened' = FALSE
    /\ answer' = NoAnswer
    /\ UNCHANGED <<dir, disk, index, op, kept, walk, trouble>>
-----------------------------------------------------------------------------
(* The operations up to persistLocked.                                     *)

\* persistLocked begins: the document, stamped by the list index, is written to
\* a temporary file, which nobody sees.
Persist(kind, s, doc, key) ==
    /\ op' = [step |-> "written", kind |-> kind, session |-> s, doc |-> doc, key |-> key]
    /\ answer' = NoAnswer
    /\ walk' = IF walk.state = "open" THEN [walk EXCEPT !.moved = @ \cup {s}] ELSE walk

Create(s) ==
    /\ Ready /\ ~Exists(s) /\ Room(s)
    /\ \E now \in Times :
         LET at == NextUpdatedAt(index, 0, now) IN
         /\ index' = RecordCreate(index, s, at)
         /\ Persist("create", s, [NoFile EXCEPT !.log = <<"created">>, !.at = at], "none")
    /\ UNCHANGED <<dir, disk, opened, kept, trouble>>

\* The record that Commit keeps of a key: its request and its revision.
Recorded(doc, key) == {r \in doc.idem : r.request.key = key}

\* applyChanges accepts the request.
Applies(doc, change) == change = "start" => ~doc.run

\* A record taken before the revision is advanced.
RecordOfOld(doc, request) == [request |-> request, revision |-> Revision(doc)]

RecordOf(doc, request) == [request |-> request, revision |-> Revision(doc) + 1]

\* The document that a commit writes.  The first hook record turns a v1
\* document into a v2 one.
Committed(doc, request, at) ==
    LET hooks == doc.hooks \/ request.change = "hook" IN
    [doc EXCEPT !.log = Append(@, request.key),
                !.run = @ \/ request.change = "start",
                !.hooks = hooks,
                !.format = IF @ = 1 /\ hooks THEN 2 ELSE @,
                !.idem = @ \cup {RecordOf(doc, request)},
                !.at = at]

\* The same request again: the answer of the first time, Applied = FALSE.
Replay(s, request) ==
    /\ Ready /\ Exists(s) /\ Readable(dir[s])
    /\ \E r \in Recorded(dir[s], request.key) :
         /\ r.request = request
         /\ answer' = [kind |-> "replayed", session |-> s, key |-> r.request.key,
                       revision |-> r.revision]
    /\ UNCHANGED <<dir, disk, opened, index, op, kept, walk, trouble>>

\* Idempotency that is left to the revision check.
FreshByRevision(doc, request) ==
    request.expected = Revision(doc) /\ Applies(doc, request.change)

\* Another request under the same key, or a stale or inapplicable one.
Fresh(doc, request) ==
    /\ Recorded(doc, request.key) = {}
    /\ request.expected = Revision(doc)
    /\ Applies(doc, request.change)

Commit(s, request) ==
    /\ Ready /\ Exists(s) /\ Readable(dir[s])
    /\ Room(s)
    /\ Fresh(dir[s], request)
    /\ \E now \in Times :
         LET at == NextUpdatedAt(index, dir[s].at, now) IN
         /\ index' = Stamped(index, at)
         /\ Persist("commit", s, Committed(dir[s], request, at), request.key)
    /\ UNCHANGED <<dir, disk, opened, kept, trouble>>

\* Recover: an active Run is interrupted; nothing is written when there is none.
Recover(s) ==
    /\ Ready /\ Exists(s) /\ Readable(dir[s])
    /\ dir[s].run
    /\ Room(s)
    /\ \E now \in Times :
         LET at == NextUpdatedAt(index, dir[s].at, now) IN
         /\ index' = Stamped(index, at)
         /\ Persist("recover", s,
                    [dir[s] EXCEPT !.log = Append(@, "recovered"), !.run = FALSE, !.at = at],
                    "none")
    /\ UNCHANGED <<dir, disk, opened, kept, trouble>>
-----------------------------------------------------------------------------
(* persistLocked, step by step.                                            *)

SyncTemp ==
    /\ op.step = "written"
    /\ op' = [op EXCEPT !.step = "synced"]
    /\ UNCHANGED <<dir, disk, opened, index, answer, kept, walk, trouble>>

\* The temporary file replaces the document.  Its bytes are safe if it was
\* synced; the directory entry is not safe yet.
Left(doc, step) == IF step = "synced" THEN {doc} ELSE {doc, TornFile}

\* A rename that does not wait for the bytes.
CanRenameEarly(step) == step \in {"written", "synced"}

CanRename(step) == step = "synced"

Rename ==
    /\ CanRename(op.step)
    /\ dir' = [dir EXCEPT ![op.session] = op.doc]
    /\ disk' = [disk EXCEPT ![op.session] = @ \cup Left(op.doc, op.step)]
    /\ op' = [op EXCEPT !.step = "renamed"]
    /\ UNCHANGED <<opened, index, answer, kept, walk, trouble>>

\* What a loss of power may leave once the directory is synced.
Settled == [s \in Sessions |-> disk[s] \cap {dir[s], TornFile}]

Answered(kind) ==
    IF op.kind = "commit"
    THEN answer' = [kind |-> kind, session |-> op.session, key |-> op.key,
                    revision |-> Revision(op.doc)]
    ELSE answer' = NoAnswer

\* The directory is synced, the file's new name is durable and the caller is
\* told so.
CanAnswer(step) == step = "renamed"

SyncDirectory ==
    /\ CanAnswer(op.step)
    /\ disk' = Settled
    /\ Answered("applied")
    /\ kept' = [kept EXCEPT ![op.session] = Revision(op.doc)]
    /\ op' = NoOp
    /\ UNCHANGED <<dir, opened, index, walk, trouble>>

\* An error before the rename discards the temporary file; one after it (the
\* directory cannot be opened, synced or closed) leaves the new document in
\* place.  The caller is told the same.
PersistFails ==
    /\ ~Idle /\ Spend
    /\ Answered("failed")
    /\ op' = NoOp
    /\ UNCHANGED <<dir, disk, opened, index, kept, walk>>

\* The process dies, and possibly the machine: each Session is left with one of
\* the files that may be there.
Crash ==
    /\ opened /\ Spend
    /\ \E left \in [Sessions -> UNION {disk[s] : s \in Sessions}] :
         /\ \A s \in Sessions : left[s] \in disk[s] \cup {dir[s]}
         /\ dir' = left
         /\ disk' = [s \in Sessions |-> {left[s]}]
    /\ opened' = FALSE
    /\ op' = NoOp
    /\ answer' = NoAnswer
    /\ UNCHANGED <<index, kept, walk>>
-----------------------------------------------------------------------------
(* The listing.                                                            *)

Visible == {s \in Sessions : Exists(s)}
Summaries == {[id |-> s, at |-> dir[s].at] : s \in Visible}

\* A page: the first of a traversal, or the one its cursor stands for.
ListSessions ==
    /\ Ready
    /\ \A s \in Visible : Readable(dir[s])
    /\ walk.state # "done"
    /\ CursorAccepted(index, walk.cursor)
    /\ LET seen == Observed(index, Summaries)
           result == Paginate(seen, walk.cursor, Summaries)
           first == walk.state = "none"
       IN  /\ index' = seen
           /\ walk' = [cursor |-> result.next,
                       returned |-> walk.returned \o [i \in DOMAIN result.page |-> result.page[i].id],
                       start |-> IF first THEN Visible ELSE walk.start,
                       moved |-> IF first THEN {} ELSE walk.moved,
                       state |-> IF result.next = NoCursor THEN "done" ELSE "open"]
    /\ answer' = NoAnswer
    /\ UNCHANGED <<dir, disk, opened, op, kept, trouble>>

\* A cursor of another lifetime of the Store is refused, after the documents
\* were read; the client starts over.
CursorRefused ==
    /\ Ready
    /\ \A s \in Visible : Readable(dir[s])
    /\ ~CursorAccepted(index, walk.cursor)
    /\ index' = Observed(index, Summaries)
    /\ walk' = NoWalk
    /\ answer' = NoAnswer
    /\ UNCHANGED <<dir, disk, opened, op, kept, trouble>>
-----------------------------------------------------------------------------
Operation ==
    \/ Open \/ Close \/ ListSessions \/ CursorRefused
    \/ \E s \in Sessions :
         \/ Create(s) \/ Recover(s)
         \/ \E request \in Requests : Commit(s, request) \/ Replay(s, request)

Next ==
    \/ Operation
    \/ SyncTemp \/ Rename \/ SyncDirectory
    \/ PersistFails \/ Crash

Spec == Init /\ [][Next]_vars
-----------------------------------------------------------------------------
Files == {doc \in UNION {disk[s] : s \in Sessions} : doc # NoFile}

TypeOK ==
    /\ \A s \in Sessions : dir[s] \in disk[s] /\ Revision(dir[s]) \in 0..MaxRevision
    /\ opened \in BOOLEAN
    /\ index.created \in [Sessions -> 0..index.generation]
    /\ op.step \in {"none", "written", "synced", "renamed"}
    /\ kept \in [Sessions -> 0..MaxRevision]
    /\ walk.state \in {"none", "open", "done"}
    /\ trouble \in 0..MaxTrouble

(***************************************************************************)
(* Whatever a loss of power leaves in the place of a Session's document    *)
(* can be opened again: it is complete and its format matches what it      *)
(* holds (persistLocked, validateFileDocument).                            *)
(***************************************************************************)
AlwaysReadable == TypeOK /\ \A doc \in Files : Readable(doc)

(***************************************************************************)
(* An answered Commit names the revision at which its entry stands in the  *)
(* document, whether it was applied now or found to be a retry             *)
(* (Commit, idempotency records), even when the first answer was an error. *)
(***************************************************************************)
AnswersTrue ==
    [][answer' # answer /\ answer'.kind \in {"applied", "replayed"} =>
         LET log == dir'[answer'.session].log
         IN  log[answer'.revision] = answer'.key]_vars

(***************************************************************************)
(* A traversal of the listing returns a Session at most once, although     *)
(* Sessions are updated between its pages and the clock may be set back,   *)
(* and none created after its first page; when it ends it has returned     *)
(* every Session of its first page's time that was not written since, with *)
(* equal times after a restart too (nextUpdatedAt, paginate).              *)
(***************************************************************************)
WalkComplete ==
    /\ IsInjective(walk.returned)
    /\ ToSet(walk.returned) \subseteq walk.start
    /\ walk.state = "done" => walk.start \ walk.moved \subseteq ToSet(walk.returned)

Log == INSTANCE DurableLog
    WITH Names <- Sessions, Entries <- Keys,
         log <- [s \in Sessions |-> dir[s].log], kept <- kept

(***************************************************************************)
(* The Store is a durable log: a commit is applied at most once however    *)
(* often it is retried, an operation changes one Session by one entry, and *)
(* no crash loses what a caller was told was applied.                      *)
(***************************************************************************)
DurableLogSpec == Log!Spec

-----------------------------------------------------------------------------
(* What the documentation says and the code does not do (see README).      *)

(***************************************************************************)
(* A Commit whose success a client was told of, by a retry too, survives   *)
(* every later crash.                                                      *)
(***************************************************************************)
AcknowledgedKept ==
    answer.kind \in {"applied", "replayed"} =>
        \A doc \in disk[answer.session] : Contains(doc.log, answer.key)
=============================================================================
