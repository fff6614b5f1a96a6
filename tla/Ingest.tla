------------------------------- MODULE Ingest -------------------------------
(***************************************************************************)
(* `sinorag ingest cbeta`: extraction of a corpus into a staging directory *)
(* with a checkpoint, --resume, and promotion of the finished partition    *)
(* into the passage store (commands/ingest.rs).                            *)
(*                                                                         *)
(* A run may die at any step (a signal, or an error such as a full disk);  *)
(* what it wrote to files stays, the open batch is gone.  Nothing keeps    *)
(* two runs out of one staging directory: a directory can be resumed while *)
(* a run is in it, and two runs that start in one second have the same.    *)
(*                                                                         *)
(* Of the jsonl file the model has whether it is there, not its lines.     *)
(***************************************************************************)
EXTENDS Naturals, Sequences, FiniteSets, SequencesExt

CONSTANTS Rows,       \* passages of each corpus file, in scan order
          BatchSize,  \* PARQUET_BATCH_SIZE
          Interval,   \* CHECKPOINT_FLUSH_INTERVAL
          Proc,       \* CLI processes
          MaxDirs,    \* bound: staging directories ever created
          MaxResumes, \* bound: resumes of one staging directory
          Others,     \* whether other corpora are in the store already
          Absent      \* a file that does not exist

ASSUME RowsAssumption == Rows \in Seq(Nat \ {0})
ASSUME SizeAssumption == BatchSize \in Nat \ {0} /\ Interval \in Nat \ {0}
ASSUME BoundAssumption == MaxDirs \in Nat /\ MaxResumes \in Nat
ASSUME OthersAssumption == Others \in BOOLEAN

VARIABLES
    staging,   \* directory -> what is under .staging/ingest-<utc>/
    created,   \* how many directories were ever made
    published, \* passages.parquet/source_corpus=cbeta: its parts, or Absent
    out_jsonl, \* whether there is data/passages.jsonl
    job,       \* process -> its run
    resumes,   \* history: directory -> how often it was resumed
    lost,      \* history: directory -> rows checkpointed but in no kept part
    late,      \* history: directories whose run died between the last flush
               \* and the last checkpoint
    shared,    \* history: directories that two runs were in at once
    origin     \* history: the directory the partition was promoted from

disk    == <<staging, created, published, out_jsonl>>
history == <<resumes, lost, late, shared, origin>>
vars    == <<staging, created, published, out_jsonl, job, resumes, lost, late, shared, origin>>

-----------------------------------------------------------------------------
(* Files.                                                                  *)

File == 1 .. Len(Rows)
Row  == UNION {{f} \X (1 .. Rows[f]) : f \in File}
RowsOf(files) == {r \in Row : r[1] \in files}
Dir  == 1 .. MaxDirs

\* A part file is its rows; one that is still being written, or is not there, has no readable row.
Torn    == <<>>
Parts   == Seq(Seq(Row))
NoParts == <<>>
Put(parts, i, rows) ==
    [k \in 1 .. (IF i < Len(parts) THEN Len(parts) ELSE i + 1) |->
        IF k = i + 1 THEN rows ELSE IF k <= Len(parts) THEN parts[k] ELSE Torn]

Checkpoint == [state : {"absent", "torn", "whole"}, done : Nat, next : Nat]
NoCheckpoint   == [state |-> "absent", done |-> 0, next |-> 0]
TornCheckpoint == [state |-> "torn", done |-> 0, next |-> 0]

Staging == [exists : BOOLEAN, parts : Parts, jsonl : BOOLEAN, checkpoint : Checkpoint]
NoStaging == [exists |-> FALSE, parts |-> NoParts, jsonl |-> FALSE,
              checkpoint |-> NoCheckpoint]

ASSUME AbsentAssumption == Absent \notin Nat \cup Parts \cup [Row -> Nat]

-----------------------------------------------------------------------------
(* Runs.                                                                   *)

Stage == {"idle", "emit", "part", "checkpoint", "last", "flush", "final",
          "promote", "rename", "jsonl", "unlink", "sweep"}
Handle == {"none", "staged", "published", "gone"}
Job  == [at : Stage, dir : Dir \cup {0}, append : BOOLEAN,
         file : Nat, row : Nat,          \* the passage emitted next
         batch : Seq(Row), part : Nat,   \* the open batch and its part index
         fd : Handle]                    \* where the file lies that it is writing
Idle == [at |-> "idle", dir |-> 0, append |-> FALSE, file |-> 0, row |-> 0,
         batch |-> <<>>, part |-> 0, fd |-> "none"]

TypeOK ==
    /\ staging \in [Dir -> Staging]
    /\ created \in 0 .. MaxDirs
    /\ published \in Parts \cup {Absent}
    /\ out_jsonl \in BOOLEAN
    /\ job \in [Proc -> Job]
    /\ resumes \in [Dir -> 0 .. MaxResumes]
    /\ lost \in [Dir -> SUBSET Row]
    /\ late \in SUBSET Dir
    /\ shared \in SUBSET Dir
    /\ origin \in Dir \cup {0}

Init ==
    /\ staging = [d \in Dir |-> NoStaging]
    /\ created = 0
    /\ published = Absent
    /\ out_jsonl \in IF Others THEN BOOLEAN ELSE {FALSE}
    /\ job = [p \in Proc |-> Idle]
    /\ resumes = [d \in Dir |-> 0]
    /\ lost = [d \in Dir |-> {}]
    /\ late = {}
    /\ shared = {}
    /\ origin = 0

Here(p) == staging[job[p].dir]
Runs(d) == {p \in Proc : job[p].dir = d}
Refuse(p) == job' = [job EXCEPT ![p] = Idle]

-----------------------------------------------------------------------------
(* Starting.  The command refuses when the partition is there already.     *)

AppendJsonl == Others /\ out_jsonl

\* Without --resume a new directory is made before the target jsonl is looked at; a refusal
\* leaves it behind, empty.  Its name is the second of the start: a run that is still on may be in
\* it already.
StartFresh(p) ==
    /\ job[p].at = "idle" /\ published = Absent
    /\ \E d \in Dir :
          LET refused == ~ AppendJsonl /\ out_jsonl IN
          /\ d = created + 1 \/ (d = created /\ Runs(d) # {})
          /\ created' = d
          /\ staging' = [staging EXCEPT ![d].exists = TRUE, ![d].jsonl = @ \/ ~ refused]
          /\ job' = IF refused THEN job
                    ELSE [job EXCEPT ![p] = [Idle EXCEPT !.at = "emit", !.dir = d,
                             !.append = AppendJsonl, !.file = 1, !.row = 1]]
          /\ shared' = IF Runs(d) # {} THEN shared \cup {d} ELSE shared
    /\ UNCHANGED <<published, out_jsonl, resumes, lost, late, origin>>

\* --resume <dir>, or --resume auto, which takes the freshest: any directory with a checkpoint, also
\* one that a run is in.  The open batch is empty: what it held at the checkpoint was either lost
\* or written to a part the resume will overwrite.
Resume(p, d) ==
    /\ job[p].at = "idle" /\ published = Absent
    /\ staging[d].exists /\ staging[d].checkpoint.state = "whole"
    /\ resumes[d] < MaxResumes /\ resumes' = [resumes EXCEPT ![d] = @ + 1]
    /\ LET s    == staging[d]
           cp   == s.checkpoint
           kept == UNION {Range(s.parts[i]) : i \in {j \in DOMAIN s.parts : j <= cp.next}}
       IN  /\ job' = [job EXCEPT ![p] = [Idle EXCEPT
                         !.at = "emit", !.dir = d, !.append = AppendJsonl,
                         !.file = cp.done + 1, !.row = 1, !.part = cp.next]]
           /\ lost' = [lost EXCEPT ![d] = RowsOf(1 .. cp.done) \ kept]
    /\ staging' = [staging EXCEPT ![d].jsonl = TRUE]
    /\ shared' = IF Runs(d) # {} THEN shared \cup {d} ELSE shared
    /\ UNCHANGED <<created, published, out_jsonl, late, origin>>

-----------------------------------------------------------------------------
(* Extraction.                                                             *)

\* write_parquet_part_partitioned makes the directories that are not there and creates the file,
\* which empties it.
EmptyPart(d, i) ==
    staging' = [staging EXCEPT ![d].exists = TRUE, ![d].parts = Put(@, i, Torn)]

\* emit: a line to the jsonl, the passage to the batch; a full batch is to be written to the next
\* part file.
EmitRow(p) ==
    LET j == job[p]
        r == <<j.file, j.row>>
        full == Len(j.batch) + 1 >= BatchSize
    IN  /\ j.at = "emit" /\ r \in Row
        /\ IF full THEN EmptyPart(j.dir, j.part) ELSE UNCHANGED staging
        /\ job' = [job EXCEPT ![p].batch = Append(@, r), ![p].row = @ + 1,
                      ![p].at = IF full THEN "part" ELSE "emit",
                      ![p].fd = IF full THEN "staged" ELSE "none"]
        /\ UNCHANGED <<created, published, out_jsonl, history>>

\* What writing rows makes of a part: over one that another has written since it was created,
\* the end of the other's may stay, and what is read first is the end of a part.
Written(parts, i, rows) ==
    {Put(parts, i, rows)} \cup IF parts[i + 1] = Torn THEN {} ELSE {Put(parts, i, Torn)}

\* The part goes to the file that was created, wherever it lies by now.
FillPart(p, rows) ==
    LET j == job[p]
    IN  \/ /\ j.fd = "staged"
           /\ \E parts \in Written(Here(p).parts, j.part, rows) :
                 staging' = [staging EXCEPT ![j.dir].parts = parts]
           /\ UNCHANGED published
        \/ /\ j.fd = "published"
           /\ published' \in Written(published, j.part, rows)
           /\ UNCHANGED staging
        \/ j.fd = "gone" /\ UNCHANGED <<staging, published>>

WritePart(p) ==
    /\ job[p].at = "part"
    /\ FillPart(p, job[p].batch)
    /\ job' = [job EXCEPT ![p].at = "emit", ![p].batch = <<>>, ![p].part = @ + 1, ![p].fd = "none"]
    /\ UNCHANGED <<created, out_jsonl, history>>

\* save_checkpoint is a plain fs::write: it truncates, then fills.  It fails where another run has
\* removed the directory.
TruncateCheckpoint(p, then) ==
    IF Here(p).exists
    THEN /\ staging' = [staging EXCEPT ![job[p].dir].checkpoint = TornCheckpoint]
         /\ job' = [job EXCEPT ![p] = [then EXCEPT !.fd = "staged"]]
    ELSE Refuse(p) /\ UNCHANGED staging

\* A file is processed; at every multiple of the interval the checkpoint is saved.
FinishFile(p) ==
    LET j == job[p]
        next == [j EXCEPT !.file = @ + 1, !.row = 1]
    IN  /\ j.at = "emit" /\ j.file \in File /\ j.row > Rows[j.file]
        /\ IF j.file % Interval = 0
           THEN TruncateCheckpoint(p, [next EXCEPT !.at = "checkpoint"])
           ELSE job' = [job EXCEPT ![p] = next] /\ UNCHANGED staging
        /\ UNCHANGED <<created, published, out_jsonl, history>>

\* Mutants of CheckpointOf: one part too many, or a file that is not processed yet.
CheckpointSkipsPart(j) == [state |-> "whole", done |-> j.file - 1, next |-> j.part + 1]
CheckpointSkipsFile(j) == [state |-> "whole", done |-> j.file, next |-> j.part]

CheckpointOf(j) == [state |-> "whole", done |-> j.file - 1, next |-> j.part]

\* Over a checkpoint that another run has written since, it may end in the rest of that one; one
\* that another has removed is gone.
WriteCheckpoint(p) ==
    LET j == job[p]
        torn == Here(p).checkpoint.state = "torn"
    IN  /\ j.at \in {"checkpoint", "final"}
        /\ \/ /\ j.fd = "staged"
              /\ \E cp \in {CheckpointOf(j)} \cup IF torn THEN {} ELSE {TornCheckpoint} :
                    staging' = [staging EXCEPT ![j.dir].checkpoint = cp]
           \/ j.fd = "gone" /\ UNCHANGED staging
        /\ job' = [job EXCEPT ![p].at = IF j.at = "final" THEN "promote" ELSE "emit",
                              ![p].fd = "none"]
        /\ UNCHANGED <<created, published, out_jsonl, history>>

\* After the last file: what is left in the batch is the last part.
StartLastPart(p) ==
    LET j == job[p]
    IN  /\ j.at = "emit" /\ j.file > Len(Rows)
        /\ IF j.batch = <<>>
           THEN UNCHANGED staging /\ job' = [job EXCEPT ![p].at = "flush"]
           ELSE /\ EmptyPart(j.dir, j.part)
                /\ job' = [job EXCEPT ![p].at = "last", ![p].fd = "staged"]
        /\ UNCHANGED <<created, published, out_jsonl, history>>

WriteLastPart(p) ==
    /\ job[p].at = "last"
    /\ FillPart(p, job[p].batch)
    /\ job' = [job EXCEPT ![p].at = "flush", ![p].batch = <<>>, ![p].part = @ + 1, ![p].fd = "none"]
    /\ UNCHANGED <<created, out_jsonl, history>>

FlushJsonl(p) ==
    /\ job[p].at = "flush"
    /\ TruncateCheckpoint(p, [job[p] EXCEPT !.at = "final"])
    /\ UNCHANGED <<created, published, out_jsonl, history>>

-----------------------------------------------------------------------------
(* promote_staging.                                                        *)

\* What is to be moved is listed and its target looked at.
CheckTargets(p) ==
    LET j == job[p]
        moves == Here(p).parts # NoParts
        taken == (moves /\ published # Absent) \/ (~ j.append /\ out_jsonl)
    IN  /\ j.at = "promote"
        /\ IF taken THEN Refuse(p)
           ELSE job' = [job EXCEPT ![p].at = IF moves THEN "rename" ELSE "jsonl"]
        /\ UNCHANGED <<disk, history>>

\* What the others have open in a partition goes where that goes; `from` and `to` are its places.
Moved(q, from, to, in) ==
    [job[q] EXCEPT !.fd = IF job[q].dir \in in /\ job[q].at \in {"part", "last"} /\ @ = from
                          THEN to ELSE @]

\* The rename of a directory over one that is not empty fails, and so does that of one that another
\* run has moved.
RenamePartition(p) ==
    LET j == job[p]
    IN  /\ j.at = "rename"
        /\ IF Here(p).parts = NoParts \/ published # Absent
           THEN Refuse(p) /\ UNCHANGED <<staging, published, origin>>
           ELSE /\ job' = [q \in Proc |-> IF q = p THEN [j EXCEPT !.at = "jsonl"]
                                          ELSE Moved(q, "staged", "published", {j.dir})]
                /\ staging' = [staging EXCEPT ![j.dir].parts = NoParts]
                /\ published' = Here(p).parts
                /\ origin' = j.dir
        /\ UNCHANGED <<created, out_jsonl, resumes, lost, late, shared>>

\* A jsonl that another run has taken is passed over.
MoveJsonl(p) ==
    LET j == job[p]
        copied == j.append /\ out_jsonl
    IN  /\ j.at = "jsonl"
        /\ IF Here(p).jsonl
           THEN /\ out_jsonl' = TRUE
                /\ staging' = [staging EXCEPT ![j.dir].jsonl = copied]
                /\ job' = [job EXCEPT ![p].at = IF copied THEN "unlink" ELSE "sweep"]
           ELSE job' = [job EXCEPT ![p].at = "sweep"] /\ UNCHANGED <<staging, out_jsonl>>
        /\ UNCHANGED <<created, published, history>>

UnlinkJsonl(p) ==
    /\ job[p].at = "unlink"
    /\ staging' = [staging EXCEPT ![job[p].dir].jsonl = FALSE]
    /\ job' = [job EXCEPT ![p].at = "sweep"]
    /\ UNCHANGED <<created, published, out_jsonl, history>>

\* The checkpoint goes, and the directories if nothing is left in them; post_ingest follows.
Sweep(p) ==
    LET d == job[p].dir
        left == Here(p).parts # NoParts \/ Here(p).jsonl
    IN  /\ job[p].at = "sweep"
        /\ staging' = [staging EXCEPT ![d].exists = left, ![d].checkpoint = NoCheckpoint]
        /\ job' = [q \in Proc |->
              IF q = p THEN Idle
              ELSE IF job[q].dir = d /\ job[q].at \in {"checkpoint", "final"}
              THEN [job[q] EXCEPT !.fd = "gone"] ELSE job[q]]
        /\ UNCHANGED <<created, published, out_jsonl, history>>

-----------------------------------------------------------------------------
(* What happens to a run, and what the user does between runs.             *)

\* The file that it was writing is torn, if another run has filled it meanwhile; it was so before
\* if none has.
Crash(p) ==
    LET j == job[p]
    IN  /\ j.at # "idle"
        /\ Refuse(p)
        /\ late' = IF j.at \in {"last", "flush", "final"} THEN late \cup {j.dir} ELSE late
        /\ \/ UNCHANGED <<staging, published>>
           \/ j.at \in {"part", "last"} /\ FillPart(p, Torn)
           \/ /\ j.at \in {"checkpoint", "final"} /\ j.fd = "staged"
              /\ staging' = [staging EXCEPT ![j.dir].checkpoint = TornCheckpoint]
              /\ UNCHANGED published
        /\ UNCHANGED <<created, out_jsonl, resumes, lost, shared, origin>>

\* "Delete that partition directory to re-ingest it"; "Move/delete first".
DeletePartition ==
    /\ published # Absent /\ published' = Absent /\ origin' = 0
    /\ job' = [q \in Proc |-> Moved(q, "published", "gone", Dir)]
    /\ UNCHANGED <<staging, created, out_jsonl, resumes, lost, late, shared>>
DeleteJsonl ==
    /\ out_jsonl /\ out_jsonl' = FALSE
    /\ UNCHANGED <<staging, created, published, job, history>>

-----------------------------------------------------------------------------
Step(p) ==
    \/ StartFresh(p) \/ \E d \in Dir : Resume(p, d)
    \/ EmitRow(p) \/ WritePart(p) \/ FinishFile(p) \/ WriteCheckpoint(p)
    \/ StartLastPart(p) \/ WriteLastPart(p) \/ FlushJsonl(p)
    \/ CheckTargets(p) \/ RenamePartition(p) \/ MoveJsonl(p) \/ UnlinkJsonl(p)
    \/ Sweep(p) \/ Crash(p)

Next == DeletePartition \/ DeleteJsonl \/ \E p \in Proc : Step(p)

Spec == Init /\ [][Next]_vars

-----------------------------------------------------------------------------
(* What ingest promises.                                                   *)

\* Where row r is found in a partition.
Places(parts, r) == UNION {{i} \X {k \in DOMAIN parts[i] : parts[i][k] = r} : i \in DOMAIN parts}
Intact(parts) == \A i \in DOMAIN parts : parts[i] # Torn

\* A partition promoted by a run that was never interrupted, alone in its directory, holds every
\* passage of the corpus exactly once, in part files that are all readable.
UninterruptedIsExact ==
    published # Absent /\ resumes[origin] = 0 /\ origin \notin shared =>
        Intact(published) /\ \A r \in Row : Cardinality(Places(published, r)) = 1

\* What a promoted partition misses is what was in memory at the checkpoint it was resumed from,
\* less than one batch for each resume, where one run at a time was in the directory.
LosesOnlyTheBatch ==
    published # Absent /\ origin \notin shared =>
        /\ \A r \in Row : Places(published, r) = {} => r \in lost[origin]
        /\ resumes[origin] <= 1 => Cardinality(lost[origin]) < BatchSize

\* What is promoted is the corpus, but for what a death may cost.  Of a directory that was resumed
\* while a run was in it (ingest.rs:83-117 does not ask), or that two runs of one second have,
\* nothing is promised: they overwrite each other's parts and checkpoints, also after one has
\* promoted them.
IngestIsExact == TypeOK /\ UninterruptedIsExact /\ LosesOnlyTheBatch

\* Ingest implements CorpusStore: seen from the partition, a promotion is one step, and what it
\* stores depends only on whether the run that it came from had its directory for itself, and on
\* how often it was resumed.
HowStored == IF published = Absent THEN "none"
             ELSE IF origin \in shared THEN "shared"
             ELSE IF resumes[origin] = 0 THEN "clean"
             ELSE IF resumes[origin] = 1 /\ origin \notin late THEN "resumed" ELSE "unsure"
Store == INSTANCE CorpusStore WITH
             Passages <- Row, Slack <- BatchSize - 1,
             stored <- IF published = Absent THEN Absent
                       ELSE [r \in Row |-> Cardinality(Places(published, r))],
             broken <- published # Absent /\ ~Intact(published),
             how    <- HowStored
ImplementsCorpusStore == Store!Spec

-----------------------------------------------------------------------------
(* What a comment says and an interrupted run does not bear out.            *)

\* "Already-written part files are kept; resume continues at this index"
\* (ingest.rs:52-53): no passage is missing from a promoted partition.
NothingLost ==
    published # Absent => \A r \in Row : Places(published, r) # {}

=============================================================================
