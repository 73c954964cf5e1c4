---------------------------- MODULE PostingCursor ----------------------------
(***************************************************************************)
(* What the iterator of a posting list promises to the evaluation of a     *)
(* query: it stands on an entry of the list (or before the first), Next    *)
(* moves to the following one, SkipTo to the first one at or after a       *)
(* document, and a bound holds for every entry of the range it is given    *)
(* for.  A posting is a document with its frequency, in the list's order;  *)
(* an answer holds the call and the posting it found, or the end of a      *)
(* range and its bound.                                                    *)
(***************************************************************************)
EXTENDS Integers, Sequences, FiniteSetsExt

CONSTANTS
    Documents,
    Lists       \* the possible families of lists, one list per term

VARIABLES lists, at, answer

None == <<>>

Init ==
    /\ lists \in Lists
    /\ at = [t \in DOMAIN lists |-> 0]
    /\ answer = None

\* A new iterator.
Open(t) ==
    /\ at' = [at EXCEPT ![t] = 0]
    /\ answer' = None
    /\ UNCHANGED lists

\* The iterator moves to the first of the entries, or to the end if there is none.
MoveTo(call, t, entries) ==
    /\ at' = [at EXCEPT ![t] = IF entries = {} THEN Len(lists[t]) ELSE Min(entries)]
    /\ answer' = [call |-> call, found |-> IF entries = {} THEN None ELSE lists[t][Min(entries)]]
    /\ UNCHANGED lists

Next(t) == MoveTo(<<"Next", t>>, t, at[t] + 1 .. Len(lists[t]))

\* The current entry counts.
SkipTo(t, target) ==
    MoveTo(<<"SkipTo", t, target>>, t,
           {i \in Max({at[t], 1}) .. Len(lists[t]) : lists[t][i].doc >= target})

\* A bound for the entries from target, or from the current one, on.
Bound(t, target) ==
    /\ answer'.call = <<"Bound", t, target>>
    /\ answer'.found # None =>
          /\ answer'.found.doc >= target
          /\ \A i \in 1 .. Len(lists[t]) :
                lists[t][i].doc \in target .. answer'.found.doc
                    => lists[t][i].tf <= answer'.found.tf
    /\ UNCHANGED <<lists, at>>

Step ==
    \E t \in DOMAIN lists :
        \/ Open(t)
        \/ answer' # None /\ Next(t)
        \/ answer' # None /\ \E target \in Documents : SkipTo(t, target) \/ Bound(t, target)

Spec == Init /\ [][Step]_<<lists, at, answer>>
=============================================================================
