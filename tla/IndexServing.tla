---------------------------- MODULE IndexServing ----------------------------
(***************************************************************************)
(* A serving process (ToolEngine, tools/engine.rs) beside the CLI          *)
(* processes of DocTable, on the same files.  It reads the document table  *)
(* once and keeps it.  Before it uses an index it compares the fingerprint *)
(* in the header of the file with the table it keeps and with the sidecar  *)
(* on disk, and then opens the file; some indexes it keeps open, others it *)
(* checks and opens again for every request.                               *)
(***************************************************************************)
EXTENDS DocTable

VARIABLES
    cached,  \* the table the engine loaded, or NoTable
    request, \* the request at work, or the index it left open
    steady   \* history: since the engine began to look, only appends and their indexes

serving == <<cached, request, steady>>

Request == [at : {"idle", "header", "matched", "open"}, kind : SUBSET Kind,
            fp : FingerprintSet, ids : Assignment]
NoRequest == [at |-> "idle", kind |-> {}, fp |-> NoFingerprint, ids |-> EmptyMap]

ServingTypeOK ==
    /\ cached \in Table
    /\ request \in Request
    /\ steady \in BOOLEAN
    /\ request.at # "idle" => Cardinality(request.kind) = 1
    /\ request.at \in {"matched", "open"} => Exists(cached)

ServingInit ==
    /\ Init
    /\ cached = NoTable
    /\ request = NoRequest
    /\ steady = TRUE

\* doc_table(): a OnceCell, read from disk by the first request that needs it.
LoadTable ==
    /\ ~ Exists(cached) /\ Exists(table)
    /\ cached' = table
    /\ steady' = (steady /\ ~ renumbered)
    /\ UNCHANGED <<vars, request>>

\* The header of the index file, read alone, and before the table is asked for.
ReadHeader(k) ==
    /\ request.at = "idle" /\ Exists(index[k])
    /\ request' = [NoRequest EXCEPT !.at = "header", !.kind = {k}, !.fp = index[k].fp]
    /\ UNCHANGED <<vars, cached, steady>>

Accepted(fp) == MatchIndexFingerprint(cached, fp) \in {"full", "base"}

\* Mutants of MatchHeader: whatever the sidecar says; before the table is there.
MatchAnything ==
    /\ request.at = "header" /\ Exists(cached)
    /\ request' = [request EXCEPT !.at = "matched"]
    /\ UNCHANGED <<vars, cached, steady>>
MatchWithoutTable ==
    /\ request.at = "header"
    /\ request' = IF Accepted(request.fp) \/ ~ Exists(cached)
                  THEN [request EXCEPT !.at = "matched"] ELSE NoRequest
    /\ UNCHANGED <<vars, cached, steady>>

\* match_index_fingerprint with the table that is kept and the sidecar of now; a
\* mismatch or a torn sidecar ends the request.
MatchHeader ==
    /\ request.at = "header" /\ Exists(cached)
    /\ request' = IF Accepted(request.fp)
                  THEN [request EXCEPT !.at = "matched"] ELSE NoRequest
    /\ UNCHANGED <<vars, cached, steady>>

\* Then the file is opened, which may be a later one.
OpenIndex ==
    /\ request.at = "matched"
    /\ \E k \in request.kind : request' = [request EXCEPT !.at = "open",
          !.fp = NoFingerprint, !.ids = index[k].ids]
    /\ UNCHANGED <<vars, cached, steady>>

\* The phrase index is closed with its request.  The TF-IDF index stays in a
\* OnceCell and is never closed: the behaviours in which this step is not taken.
CloseIndex ==
    /\ request.at = "open"
    /\ request' = NoRequest
    /\ UNCHANGED <<vars, cached, steady>>

Serve ==
    \/ LoadTable \/ MatchHeader \/ OpenIndex \/ CloseIndex
    \/ \E k \in Kind : ReadHeader(k)

\* The engine holds a table, or the header of an index.
Looking == Exists(cached) \/ request.at # "idle"

\* This step leaves every earlier doc_id what it was: it appends to the table, or
\* publishes an index of the table on disk or of one it was appended to.
Appending ==
    /\ ~ renumbered'
    /\ table' # table => Front(table'.fp) = table.fp
    /\ \A k \in Kind : index'[k] # index[k] => IsAncestor(index'[k].fp, table.fp)

\* A step of the CLI processes or of the store.
Outside ==
    /\ Next
    /\ steady' = (steady /\ (Looking => Appending))
    /\ UNCHANGED <<cached, request>>

ServingNext == Outside \/ Serve

ServingSpec == ServingInit /\ [][ServingNext]_<<vars, serving>>

-----------------------------------------------------------------------------
\* A posting of the index in use resolves, through the table the engine keeps, to
\* the passage it was made for or to none.
ServedResolves ==
    \A p \in DOMAIN request.ids, q \in DOMAIN cached.ids :
        cached.ids[q] = request.ids[p] => q = p

\* So it is while the others only append and index, whatever they publish between
\* the check and the opening of the file, and however old the table that the
\* engine keeps has become.
ServedWhileAppended == steady => ServedResolves

-----------------------------------------------------------------------------
(* Why it holds: while `steady`, the table kept and the index in use both  *)
(* come from tables that the one on disk extends, so it refutes no doc_id  *)
(* of either, and it gives no doc_id to two passages.                      *)

Known(fp) == IsAncestor(fp, table.fp)

\* The index file is the one whose header was read, or was published since.
HeaderInv  == request.at = "header" =>
    \A k \in request.kind : index[k].fp = request.fp \/ Known(index[k].fp)
MatchedInv == request.at = "matched" => \A k \in request.kind : Known(index[k].fp)
OpenInv    == request.at = "open" => Extends(table.ids, request.ids)

ServingInv ==
    /\ ServingTypeOK
    /\ TableInv(cached)
    /\ request.at # "open" => request.ids = EmptyMap
    /\ steady => /\ Exists(cached) => ~ renumbered /\ Known(cached.fp)
                 /\ HeaderInv /\ MatchedInv /\ OpenInv

=============================================================================
