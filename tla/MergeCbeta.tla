----------------------------- MODULE MergeCbeta -----------------------------
(***************************************************************************)
(* `merge-cbeta` (commands/merge_cbeta.rs): of up to three distributions   *)
(* of CBETA, each work is taken from the one that has most of it, and its  *)
(* files are copied one by one into <out>/xml-merged, which `ingest cbeta  *)
(* <out>` is to read next (tei.rs, scan_cbeta_corpus).                     *)
(*                                                                         *)
(* A file is a work, its fascicle (0: one file for the work), its size and *)
(* its edition; work and fascicle are its path.  A dry run changes nothing *)
(* and is no action.                                                       *)
(***************************************************************************)
EXTENDS Integers, Sequences, FiniteSets, SequencesExt, FiniteSetsExt

CONSTANTS Releases,   \* distributions there may be: functions from Source to roots
          Beside,     \* other distributions that may lie in the output directory
          MaxMerges   \* bound: runs started

VARIABLES
    release,   \* the distributions as they lie on the disk
    merged,    \* the files of <out>/xml-merged: path -> [file, whole]
    beside,    \* directories of other distributions in <out>
    merge,     \* the run
    merges     \* history: how many runs, the distributions of the last, and of all alike

mergeVars == <<release, merged, beside, merge, merges>>

-----------------------------------------------------------------------------
(* scan_cbeta_corpus: a root is a name, the subdirectories of it that have *)
(* the name of a distribution, and the files that lie elsewhere in it.     *)

Distributions == <<"xml-p5", "xml-iso", "xml-p5t", "xml-merged">>
Unreadable == [distribution |-> "none", files |-> {}]

\* What stands for `--extra` where the command has none.
NotGiven == [name |-> "none", dirs |-> <<>>, loose |-> {}]

\* Files by path.  resolve_xml_root takes the first subdirectory of that name.
Scan(root) ==
    LET nested == {k \in DOMAIN Distributions : Distributions[k] \in DOMAIN root.dirs}
        all    == root.loose \cup UNION {root.dirs[d] : d \in DOMAIN root.dirs}
    IN  IF nested # {}
        THEN [distribution |-> Distributions[Min(nested)], files |-> root.dirs[Distributions[Min(nested)]]]
        ELSE IF all = {} THEN Unreadable
        ELSE [distribution |-> IF root.name \in ToSet(Distributions) THEN root.name ELSE "unknown",
              files |-> all]

PathOf(f) == <<f.work, f.fascicle>>

Source == {"github", "iso", "extra"}
NoRelease == [s \in Source |-> Unreadable]
ASSUME ReleasesAssumption ==
    \A rel \in Releases : /\ rel # NoRelease
        /\ \A s \in Source :
             LET files == Scan(rel[s]).files IN
             /\ IsFiniteSet(files)
             /\ \A f \in files : {f.work, f.fascicle, f.bytes} \subseteq Nat
             /\ \A f, g \in files : PathOf(f) = PathOf(g) => f = g

-----------------------------------------------------------------------------
(* The choice.                                                             *)

SourceOrder == <<"github", "iso", "extra">>

\* build_work_map: the files of a work, and how many bytes they are.
WorkFiles(rel, s, w) == {f \in Scan(rel[s]).files : f.work = w}
TotalBytes(files)    == MapThenSumSet(LAMBDA f : f.bytes, files)
Works(rel)           == {f.work : f \in UNION {Scan(rel[s]).files : s \in Source}}

Candidates(rel, w) == {k \in 1 .. 3 : WorkFiles(rel, SourceOrder[k], w) # {}}

\* max_by_key: of those that have most bytes, the last.
MostOf(rel, w, S) ==
    LET bytes == [k \in S |-> TotalBytes(WorkFiles(rel, SourceOrder[k], w))]
    IN  SourceOrder[Max({k \in S : \A j \in S : bytes[j] <= bytes[k]})]

\* Mutant of Winner: the first source that has the work.
FirstOf(rel, w) == SourceOrder[Min(Candidates(rel, w))]

Winner(rel, w) == MostOf(rel, w, Candidates(rel, w))

WinningFiles(rel, w) == WorkFiles(rel, Winner(rel, w), w)

ToCopy(rel) == UNION {WinningFiles(rel, w) : w \in Works(rel)}

-----------------------------------------------------------------------------
(* The run.                                                                *)

NoMerge == [at |-> "rest", todo |-> {}, done |-> FALSE]

\* A distribution that has no XML ends the run before anything is written; only the third may be
\* left out.
StartMerge ==
    /\ merge.at = "rest" /\ merges.count < MaxMerges
    /\ \A s \in Source : \/ Scan(release[s]) # Unreadable
                         \/ s = "extra" /\ release[s] = NotGiven
    /\ merges' = [count |-> merges.count + 1, of |-> release,
                  alike |-> merges.alike /\ merges.of \in {NoRelease, release}]
    /\ merge' = [at |-> "open", todo |-> ToCopy(release), done |-> FALSE]
    /\ UNCHANGED <<release, merged, beside>>

\* Work by work, and of a work in the order of the paths.
IsNext(f) == \A g \in merge.todo \ {f} :
                f.work < g.work \/ (f.work = g.work /\ f.fascicle < g.fascicle)

\* fs::copy truncates what is there of that name.
OpenCopy(f) ==
    /\ merge.at = "open" /\ IsNext(f)
    /\ merged' = [path \in DOMAIN merged \cup {PathOf(f)} |->
                     IF path = PathOf(f) THEN [file |-> f, whole |-> FALSE] ELSE merged[path]]
    /\ merge' = [merge EXCEPT !.at = "close"]
    /\ UNCHANGED <<release, beside, merges>>

CloseCopy(f) ==
    /\ merge.at = "close" /\ IsNext(f)
    /\ merged' = [merged EXCEPT ![PathOf(f)].whole = TRUE]
    /\ merge' = [merge EXCEPT !.at = "open", !.todo = @ \ {f}]
    /\ UNCHANGED <<release, beside, merges>>

\* write_manifest, when all is copied.
WriteManifest ==
    /\ merge.at = "open" /\ merge.todo = {}
    /\ merge' = [NoMerge EXCEPT !.done = TRUE]
    /\ UNCHANGED <<release, merged, beside, merges>>

DieMerging ==
    /\ merge.at # "rest"
    /\ merge' = NoMerge
    /\ UNCHANGED <<release, merged, beside, merges>>

\* Between two runs the person replaces a distribution by another release.
Replace ==
    /\ merge.at = "rest" /\ merges.count > 0
    /\ release' \in Releases \ {release}
    /\ UNCHANGED <<merged, beside, merge, merges>>

MergeInit ==
    /\ release \in Releases
    /\ merged = <<>>
    /\ beside \in Beside
    /\ merge = NoMerge
    /\ merges = [count |-> 0, of |-> NoRelease, alike |-> TRUE]

MergeNext == \/ StartMerge \/ WriteManifest \/ DieMerging \/ Replace
             \/ \E f \in merge.todo : OpenCopy(f) \/ CloseCopy(f)

-----------------------------------------------------------------------------
(* Properties.                                                             *)

MergedFiles == {merged[path].file : path \in DOMAIN merged}
OutRoot == [name |-> "out", loose |-> {},
            dirs |-> [d \in beside \cup {"xml-merged"} |->
                         IF d = "xml-merged" THEN MergedFiles ELSE {}]]

\* After a run that finished, every work of every source (merge_cbeta.rs:11-12) is there, with all
\* the files that one of its sources has of it, whole, and with no fewer bytes than GitHub or the
\* ISO has.  If all runs so far were of these distributions, whatever deaths there were, nothing else
\* is there: no work is mixed of two sources.  The command it says to run next reads just these
\* files, where no other distribution lies in the directory.  Whether --extra may win a work that
\* another source has (lines 12-13 say that it does not, and it does) is left open.
MergeLosesNothing ==
    merge.done =>
        LET rel == merges.of
            Of(w) == {f \in MergedFiles : f.work = w}
            IsWhole(f) == PathOf(f) \in DOMAIN merged /\ merged[PathOf(f)] = [file |-> f, whole |-> TRUE]
        IN  /\ \A w \in Works(rel) :
                  /\ \E s \in Source : LET fs == WorkFiles(rel, s, w) IN
                        /\ fs # {} /\ \A f \in fs : IsWhole(f)
                        /\ merges.alike => Of(w) = fs
                  /\ \A s \in {"github", "iso"} :
                        TotalBytes(Of(w)) >= TotalBytes(WorkFiles(rel, s, w))
            /\ merges.alike => {f.work : f \in MergedFiles} = Works(rel)
            /\ beside = {} => Scan(OutRoot) = [distribution |-> "xml-merged", files |-> MergedFiles]

=============================================================================
