------------------------------ MODULE Passages ------------------------------
(***************************************************************************)
(* The passage store as the catalog and the tools read it: a sequence of   *)
(* rows in scan order, one for each passage, and the order in which a work *)
(* is read (storage.rs, commands/catalog_index.rs, tools/engine.rs).       *)
(*                                                                         *)
(* Names are numbers, so that they have an order; a div_path and a         *)
(* heading_path are the sequences of their segments; of a text only its    *)
(* length matters and where a chunk may end well.                          *)
(***************************************************************************)
EXTENDS Integers, Sequences, FiniteSets, SequencesExt, FiniteSetsExt, Functions

CONSTANTS NumDocs,  \* length of the document table
          Parquets  \* the passage stores there may be: sequences of rows

Doc == 0 .. NumDocs - 1
None == -1           \* Option::None of a doc id; a passage the table has not
Row == [doc : Doc \cup {None}, corpus : Nat, canon : Nat, work : Nat, file : Nat,
        path : Seq(Nat), heading : Seq(Nat), cjk : Nat, rank : Nat, lb : Nat,
        text : Seq(BOOLEAN)] \* character by character: is it a full stop

ASSUME SizeAssumption == NumDocs \in Nat
\* A passage id names one row, as DocTable has it.
ASSUME ParquetAssumption ==
    \A p \in Parquets : /\ p \in Seq(Row)
                        /\ \A i, j \in DOMAIN p : p[i].doc = p[j].doc /\ i # j => p[i].doc = None

VARIABLE parquet   \* the rows of the store, in scan order

Passage == DOMAIN parquet

\* Lexicographic order of two keys of the same length.
KeyBefore(k, l) == \E n \in DOMAIN k : k[n] < l[n] /\ \A m \in 1 .. n - 1 : k[m] = l[m]

\* ORDER BY period_rank, source_rel_path, from_lb, xml_id.
ReadsBefore(i, j) ==
    LET key(n) == <<parquet[n].rank, parquet[n].file, parquet[n].lb, n>> IN KeyBefore(key(i), key(j))
InReadingOrder(S) == SetToSortSeq(S, ReadsBefore)

FirstOf(s, limit) == SubSeq(s, 1, Min({limit, Len(s)}))
=============================================================================
