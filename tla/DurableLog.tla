----------------------------- MODULE DurableLog -----------------------------
(***************************************************************************)
(* What a crash-safe SessionStore promises about the commits of each       *)
(* Session, whatever it stores them in: a log that grows by one entry at a *)
(* time, takes a client's entry at most once, and of which a crash can     *)
(* only take entries at the end that nobody was told to be committed.      *)
(***************************************************************************)
EXTENDS Naturals, Sequences, SequencesExt

CONSTANTS Names,    \* the Sessions
          Entries   \* what a client may commit once

VARIABLES log,      \* the entries each Session's log holds
          kept      \* how many of them its clients were told of

Init ==
    /\ log = [s \in Names |-> <<>>]
    /\ kept = [s \in Names |-> 0]

\* An entry is appended: a client's, once, or one of the Store's own.
Extend(s, e) ==
    /\ e \in Entries => ~Contains(log[s], e)
    /\ log' = [log EXCEPT ![s] = Append(@, e)]
    /\ UNCHANGED kept

\* A client learns that the log is committed as far as it goes.
Keep(s) ==
    /\ kept' = [kept EXCEPT ![s] = Len(log[s])]
    /\ UNCHANGED log

\* A crash: each log loses a part of its end that nobody was told of.
Lose ==
    /\ \A s \in Names : IsPrefix(log'[s], log[s]) /\ Len(log'[s]) >= kept[s]
    /\ UNCHANGED kept

Next ==
    \/ \E s \in Names : \E e \in Entries \cup {"created", "recovered"} : Extend(s, e)
    \/ \E s \in Names : Keep(s)
    \/ DOMAIN log' = Names /\ Lose

Spec == Init /\ [][Next]_<<log, kept>>
=============================================================================
