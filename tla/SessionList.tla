---------------------------- MODULE SessionList ----------------------------
(***************************************************************************)
(* The list index of a SessionStore (session/list.go): logical update      *)
(* times, creation generations and the cursors of a paged listing.         *)
(*                                                                         *)
(* A cursor is sealed with a key of the index's lifetime, so a forged one  *)
(* and one of another lifetime are both refused; the model keeps the       *)
(* lifetime (epoch) and leaves the cryptography out.  All Sessions belong  *)
(* to one Agent and Workspace.                                             *)
(***************************************************************************)
EXTENDS Integers, Sequences, FiniteSets, SequencesExt

CONSTANTS
    NumSessions,    \* Sessions are numbered; their order is that of their IDs
    PageLimit       \* ListRequest.Limit

ASSUME ListAssumption == NumSessions \in Nat \ {0} /\ PageLimit \in Nat \ {0}

Sessions == 1..NumSessions

NoCursor == [epoch |-> 0, cutoff |-> 0, at |-> 0, id |-> 0]

\* An index that lives in the given epoch and has seen nothing.
ResetIndex(epoch) ==
    [epoch |-> epoch, generation |-> 0, created |-> [s \in Sessions |-> 0], last |-> 0]

\* The update time that follows previous when the wall clock shows now: the
\* clock may have been set back, update times never are.
NextUpdatedAt(index, previous, now) ==
    Max({now, previous + 1, index.last + 1})

Stamped(index, at) == [index EXCEPT !.last = at]

RecordCreate(index, s, at) ==
    [index EXCEPT !.generation = @ + 1,
                  !.created[s] = index.generation + 1,
                  !.last = at]

Observed(index, summaries) ==
    [index EXCEPT !.last = Max({@} \cup {d.at : d \in summaries})]

\* Newest first, then by ID.
Before(a, b) == a.at > b.at \/ (a.at = b.at /\ a.id < b.id)

\* A position without its tie break.
AfterPositionStrict(summary, cursor) == summary.at < cursor.at

AfterPosition(summary, cursor) ==
    summary.at < cursor.at \/ (summary.at = cursor.at /\ summary.id > cursor.id)

CursorAccepted(index, cursor) ==
    \/ cursor = NoCursor
    \/ cursor.epoch = index.epoch /\ cursor.cutoff <= index.generation

Eligible(index, cursor, summaries) ==
    LET cutoff == IF cursor = NoCursor THEN index.generation ELSE cursor.cutoff
    IN  {d \in summaries : /\ index.created[d.id] <= cutoff
                           /\ cursor = NoCursor \/ AfterPosition(d, cursor)}

\* A set of summaries in their order: the n-th has n - 1 before it.
Sorted(summaries) ==
    [n \in 1..Cardinality(summaries) |->
       CHOOSE d \in summaries : Cardinality({e \in summaries : Before(e, d)}) = n - 1]

\* One page of a traversal and the cursor of the next one; an empty cursor ends
\* the traversal.
Paginate(index, cursor, summaries) ==
    LET eligible == Sorted(Eligible(index, cursor, summaries))
        page == SubSeq(eligible, 1, PageLimit)
        last == page[PageLimit]
    IN  IF Len(eligible) <= PageLimit
        THEN [page |-> eligible, next |-> NoCursor]
        ELSE [page |-> page,
              next |-> [epoch |-> index.epoch,
                        cutoff |-> IF cursor = NoCursor THEN index.generation ELSE cursor.cutoff,
                        at |-> last.at, id |-> last.id]]
=============================================================================
