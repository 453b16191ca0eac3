------------------------------ MODULE TargetPages ------------------------------
(***************************************************************************)
(* list_targets of service.py: one page is a count statement and a page    *)
(* statement, each seeing what is committed when it runs, and a caller     *)
(* walks the pages while has_more says so.  Meanwhile targets are          *)
(* registered, and enter and leave the filter when their status changes.   *)
(***************************************************************************)
EXTENDS Naturals, FiniteSets

CONSTANTS
  Refs,       \* target_refs, numbered in their order
  PageSize,
  MaxChanges  \* bound on the changes of the fleet

\* What an instance assumes.
PageBounds ==
  /\ Refs \subseteq Nat /\ IsFiniteSet(Refs)
  /\ PageSize \in Nat \ {0} /\ MaxChanges \in Nat

VARIABLES
  matching,   \* the targets the filter selects
  page,       \* the page the caller asks for
  step,       \* what the call under way does next
  total,      \* what its count statement answered
  shown,      \* how often the walk has shown each target
  changes,    \* how often the fleet changed
  throughout  \* the targets the filter has selected since the walk began

pageVars == <<matching, page, step, total, shown, changes, throughout>>

\* No page is asked for that lies beyond the whole fleet.
TypeOK ==
  /\ matching \subseteq Refs
  /\ page \in Nat \ {0}
  /\ page > 1 => (page - 1) * PageSize < Cardinality(Refs)
  /\ step \in {"count", "page", "done"}
  /\ total \in 0..Cardinality(Refs)
  /\ shown \in [Refs -> Nat]
  /\ changes \in 0..MaxChanges
  /\ throughout \subseteq Refs

Init ==
  /\ matching \in SUBSET Refs
  /\ page = 1
  /\ step = "count"
  /\ total = 0
  /\ shown = [r \in Refs |-> 0]
  /\ changes = 0
  /\ throughout = matching

-----------------------------------------------------------------------------
\* Where a target stands in ORDER BY target_ref.
Position(r) == Cardinality({q \in matching : q <= r})

\* OFFSET (page - 1) * page_size LIMIT page_size.
PageOf(number) ==
  {r \in matching : (number - 1) * PageSize < Position(r) /\ Position(r) <= number * PageSize}

HasMore == page * PageSize < total

CountMatching ==
  /\ step = "count"
  /\ total' = Cardinality(matching)
  /\ step' = "page"
  /\ UNCHANGED <<matching, page, shown, changes, throughout>>

ReadPage ==
  /\ step = "page"
  /\ shown' = [r \in Refs |-> shown[r] + (IF r \in PageOf(page) THEN 1 ELSE 0)]
  /\ IF HasMore THEN step' = "count" /\ page' = page + 1
                ELSE step' = "done" /\ page' = page
  /\ UNCHANGED <<matching, total, changes, throughout>>

\* A registration, or a change of status that the filter asks for.
ChangeFleet(r) ==
  /\ step # "done"
  /\ changes < MaxChanges
  /\ changes' = changes + 1
  /\ matching' = IF r \in matching THEN matching \ {r} ELSE matching \cup {r}
  /\ throughout' = throughout \ {r}
  /\ UNCHANGED <<page, step, total, shown>>

Next == CountMatching \/ ReadPage \/ \E r \in Refs : ChangeFleet(r)

Spec == Init /\ [][Next]_pageVars

-----------------------------------------------------------------------------
Missed == {r \in throughout : step = "done" /\ shown[r] = 0}
Repeated == {r \in throughout : shown[r] > 1}

\* A page is an offset into the fleet as it is when its statement runs, so a
\* change of the fleet shifts the pages that follow and makes the count stale.
\* Of the targets that were there all along, a walk misses at most one for each
\* change and repeats at most one: a quiet fleet is shown completely and once.  One
\* insertion can do both, repeating a row of the page before and, after the count,
\* pushing another behind the last page.
EachChangeCostsOne ==
  Cardinality(Missed) <= changes /\ Cardinality(Repeated) <= changes
=============================================================================
