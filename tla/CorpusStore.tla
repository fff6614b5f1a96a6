---------------------------- MODULE CorpusStore -----------------------------
(***************************************************************************)
(* What the passage store promises of one corpus, whatever runs beside it: *)
(* its passages appear in one step and, where one run at a time was in the *)
(* directory they come from, stay as they are until the user deletes them. *)
(* A run that was never interrupted stores every passage once; a run that  *)
(* was resumed once stores none twice and may miss up to Slack of them; of *)
(* any other nothing is promised.  Two runs in one directory may store     *)
(* anything, and change it afterwards.                                     *)
(***************************************************************************)
EXTENDS Naturals, FiniteSets

CONSTANTS Passages, \* the passages of the corpus
          Slack,    \* how many passages one resume may lose
          Absent    \* no passage of the corpus is stored

VARIABLES stored, \* passage -> how often it is stored, or Absent
          broken, \* whether a file of what is stored cannot be read
          how     \* the run that stored it: none, clean, resumed, unsure, shared

vars == <<stored, broken, how>>

Lacking(s) == {r \in Passages : s[r] = 0}
Nothing == how = "none" /\ stored = Absent /\ broken = FALSE

Init == Nothing

StoreClean ==
    /\ Nothing /\ how' = "clean"
    /\ stored' = [r \in Passages |-> 1] /\ broken' = FALSE

StoreResumed ==
    /\ Nothing /\ how' = "resumed"
    /\ stored' \in [Passages -> {0, 1}] /\ broken' = FALSE
    /\ Cardinality(Lacking(stored')) <= Slack

StoreUnsure ==
    /\ Nothing /\ how' = "unsure"
    /\ stored' \in [Passages -> Nat] /\ broken' \in BOOLEAN

StoreShared ==
    /\ Nothing /\ how' = "shared"
    /\ stored' \in [Passages -> Nat] /\ broken' \in BOOLEAN

ChangeShared ==
    /\ how = "shared" /\ UNCHANGED how
    /\ stored' \in [Passages -> Nat] /\ broken' \in BOOLEAN

Delete == ~Nothing /\ Nothing'

Next == StoreClean \/ StoreResumed \/ StoreUnsure \/ StoreShared \/ ChangeShared \/ Delete

Spec == Init /\ [][Next]_vars
=============================================================================
