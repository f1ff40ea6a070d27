---------------------------- MODULE BookAbstract ----------------------------
(***************************************************************************)
(* What the book of tsclientlib promises its user (spec 4.6 and 8.5),      *)
(* without the messages that drive it: a map from entity ids to entities,  *)
(* and with every change the list of events that reports it.               *)
(*                                                                         *)
(* An entity id is a tuple <<kind, x>>; a field of it is <<kind, x, f>>.   *)
(* A step changes the book in any way that keeps every entity well formed, *)
(* and reports it: an entity that appears is Added with its value, one     *)
(* that disappears is Removed with its last value, a field that changes    *)
(* is PropertyChanged with the value it had.  No id is reported twice in   *)
(* one step; a PropertyChanged for a field that keeps its value (an edit   *)
(* to the same value) carries that value.                                  *)
(***************************************************************************)
EXTENDS Sequences, SequencesExt

CONSTANTS
    Entities,      \* the entity ids <<kind, x>> the book can hold
    IsValue(_, _)  \* IsValue(e, v): v is a well formed entity for id e

VARIABLES
    book,    \* Entities -> entity, or <<>> when absent
    events   \* the events reported for the last change

vars == <<book, events>>

Absent == <<>>

Init ==
    /\ book = [e \in Entities |-> Absent]
    /\ events = <<>>

\* The events one change from b to b2 must report.
Added(b, b2) ==
    {[kind |-> "Added", id |-> e, val |-> b2[e]] : e \in {e \in Entities : b[e] = Absent /\ b2[e] # Absent}}
Removed(b, b2) ==
    {[kind |-> "Removed", id |-> e, val |-> b[e]] : e \in {e \in Entities : b[e] # Absent /\ b2[e] = Absent}}
Kept(b, b2) == {e \in Entities : b[e] # Absent /\ b2[e] # Absent}
KeptFields(b, b2) == UNION {{<<e, f>> : f \in DOMAIN b[e]} : e \in Kept(b, b2)}
PropertyChanged(p, b) == [kind |-> "PropertyChanged", id |-> Append(p[1], p[2]), val |-> b[p[1]][p[2]]]
Changed(b, b2) ==
    {PropertyChanged(p, b) : p \in {p \in KeptFields(b, b2) : b[p[1]][p[2]] # b2[p[1]][p[2]]}}
\* The events a change may also report: a field rewritten with its value.
Rewritten(b, b2) ==
    {PropertyChanged(p, b) : p \in {p \in KeptFields(b, b2) : b[p[1]][p[2]] = b2[p[1]][p[2]]}}

Reports(b, b2, evs) ==
    /\ \A i, j \in DOMAIN evs : evs[i].id = evs[j].id => i = j
    /\ Added(b, b2) \cup Removed(b, b2) \cup Changed(b, b2) \subseteq ToSet(evs)
    /\ ToSet(evs) \subseteq Added(b, b2) \cup Removed(b, b2) \cup Changed(b, b2) \cup Rewritten(b, b2)

\* One change of the book.  book' is not enumerated: the step is checked
\* against the states of a detailed specification.
Change ==
    /\ DOMAIN book' = Entities
    /\ \A e \in Entities : book'[e] = Absent \/ IsValue(e, book'[e])
    /\ Reports(book, book', events')

Spec == Init /\ [][Change]_vars

=============================================================================
