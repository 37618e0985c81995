------------------------- MODULE MCExecutorDispatch -------------------------
(* Small instances of ExecutorDispatch: a root and two ideas, or a chain. *)
EXTENDS ExecutorDispatch

CONSTANT Statuses  \* what TreeUpdateNode may say

DistinctPairs == {<<n, m>> : n, m \in NodeIds} \ {<<n, n>> : n \in NodeIds}
Duplicates == {<<n, n>> : n \in NodeIds}
AnyPairs == DistinctPairs \cup Duplicates

Updates ==
  {[status |-> s, code_ref |-> NoBranch] : s \in Statuses}

\* A branch of the first idea's, which another may be at work on or continue.
Sibling == BaseName(<<1>>, 0)
Continuation ==
  [status |-> "needs_retry", code_ref |-> Sibling]
UpdatesAndRefs == Updates \cup {Continuation}
SiblingOnly == {Sibling}
TrunkOnly == {Trunk}
=============================================================================
