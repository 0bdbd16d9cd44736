--------------------------- MODULE MCSharedStore ---------------------------
(***************************************************************************)
(* Instance of SharedStore for TLC.  Processes, ids and approvals are only *)
(* compared with each other.                                               *)
(***************************************************************************)
EXTENDS SharedStore, TLC

\* A third response comes into play at the first ticks only, and the clock
\* goes on for two: all of both instances, in one run
Clock == now <= 1 \/ \E r \in ResponseIds : owner[r] = Unused

\* A turn asks for a response on file, or for one whose record_pending is under
\* way: of any other, resolve finds nothing, or what no approval hangs off.
Named ==
  \A p \in Processes : call[p].op = "resolve" =>
    \/ call[p].key \in known
    \/ \E q \in Processes :
         call[q].op = "record_pending" /\ call[q].key = call[p].key

Bound == Clock /\ Named

Symmetry == Permutations(Processes) \cup Permutations(ResponseIds)
              \cup Permutations(Approvals)
=============================================================================
