----------------------------- MODULE MCDocTable -----------------------------
(* Instances of DocTable for TLC. *)
EXTENDS DocTable, TLC

\* Processes have no names.
ProcSymmetry == Permutations(Proc)

\* Bound: builds of the table and the sidecar race as they like; where an index is built or
\* is there, only the process whose table it is runs.
IndexersAreAlone ==
    \/ \A k \in Kind : index[k] = NoIndex /\ \A c \in Proc : job[c].op # "index"
    \/ Cardinality({c \in Proc : job[c] # Idle} \cup owner) <= 1

\* Nobody dies.
RacingSpec == Init /\ [][Store \/ \E p \in Proc : Work(p)]_vars

=============================================================================
