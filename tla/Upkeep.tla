------------------------------- MODULE Upkeep -------------------------------
(***************************************************************************)
(* A person who keeps a data directory by what the program says: status    *)
(* lists what to run next, a command that ends or is refused names others.  *)
(* What is told is put against what the command line takes and what the     *)
(* commands then ask for, over directories that commands which failed or    *)
(* died, and files that were deleted, leave behind.                        *)
(*                                                                          *)
(* Of an index it matters only that it is there: whether it is of the table *)
(* is DocTable's and Install's.                                            *)
(***************************************************************************)
EXTENDS CommandLine, Integers

CONSTANT MaxWhims   \* bound: commands nobody told, files deleted, commands that do not end well

ASSUME UpkeepAssumption == MaxWhims \in Nat

VARIABLES
    stored, \* the partitions of passages.parquet
    root,   \* there is a passages.parquet, if an empty one
    jsonl,  \* there is a passages.jsonl
    made,   \* the files in data/derived
    todo,   \* what the command that runs has still to do, and what it says at its end
    told,   \* what was said last
    whims   \* bound

upkeepVars == <<stored, root, jsonl, made, todo, told, whims>>

Source == {"cbeta", "cef"}
Lexical == {"phrase", "tfidf"}
Fast == {"doc_table", "catalog"} \cup Lexical
Artefact == Fast \cup {"vector"}

AtRest == [steps |-> <<>>, ends |-> {}]

-----------------------------------------------------------------------------
(* What is said.                                                            *)

\* A line to type, the corpora it may be given, and whether it is for afterwards.
Say(path, given) == [line |-> Line(path, given), corpora |-> {}, later |-> FALSE]
SayIngest(corpora, more) ==
    [line |-> Line(<<"ingest">>, {"<source>", "<path>"} \cup more), corpora |-> corpora,
     later |-> FALSE]

AddSemantic == Say(<<"index", "vector-update">>, {"model"})
LookAgain == Say(<<"status">>, {})

LexicalAdvice(missing) ==
    CASE missing = Lexical -> {Say(<<"indexes", "lexical">>, {})}
      [] missing = {"phrase"} -> {Say(<<"index", "phrase">>, {})}
      [] missing = {"tfidf"} -> {Say(<<"index", "tfidf">>, {})}
      [] OTHER -> {}

\* Mutant of StatusAdvice: the group is misspelt.
StatusAdviceMisspelt ==
    CASE stored = {} -> {SayIngest({"cbeta"}, {})}
      [] stored # {} /\ "doc_table" \notin made -> {Say(<<"init">>, {})}
      [] OTHER -> {Say(<<"index", "lexical">>, {})}
\* status, "Suggested next".
StatusAdvice ==
    CASE stored = {} -> {SayIngest({"cbeta"}, {})}
      [] stored # {} /\ "doc_table" \notin made ->
            {Say(<<"init">>, {}), [AddSemantic EXCEPT !.later = TRUE]}
      [] OTHER -> LexicalAdvice(Lexical \ made)
                  \cup {Say(<<"tool-call">>, {"<tool>", "json"}), Say(<<"setup", "opencode">>, {}),
                        Say(<<"agent">>, {}), Say(<<"run-tools">>, {"input", "output"})}
                  \cup (IF "vector" \in made THEN {} ELSE {AddSemantic})

CompleteAdvice == {LookAgain, Say(<<"init">>, {"force"}), AddSemantic}
ReadyAdvice == {LookAgain, AddSemantic, SayIngest({"cef"}, {})}
\* print_next_steps: by the flags of the run, not by what is there.
IngestedAdvice(built) ==
    {LookAgain} \cup LexicalAdvice(Lexical \ built)
    \cup (IF Lexical \subseteq built THEN {} ELSE {Say(<<"indexes", "semantic">>, {})})

-----------------------------------------------------------------------------
(* What the commands ask for, and what they do.                             *)

Does(steps, ends) == [refused |-> FALSE, steps |-> steps, ends |-> ends]
Refuse(ends) == [refused |-> TRUE, steps |-> <<>>, ends |-> ends]

\* check_index_prerequisites, then the steps.
WithPrerequisites(steps) ==
    CASE stored = {} -> Refuse({SayIngest(Source, {}), LookAgain})
      [] stored # {} /\ "doc_table" \notin made -> Refuse({Say(<<"init">>, {}), LookAgain})
      [] OTHER -> Does(steps, {})

\* ingest: not twice, and a jsonl without a corpus is in the way, unless another is named.
IngestCorpus(c, given) ==
    LET built == (IF "build-phrase-index" \in given THEN {"phrase"} ELSE {})
                 \cup (IF "build-tfidf" \in given THEN {"tfidf"} ELSE {})
        ordered == (IF "phrase" \in built THEN <<"phrase">> ELSE <<>>)
                   \o (IF "tfidf" \in built THEN <<"tfidf">> ELSE <<>>)
        writes == IF c = "cbeta" /\ "out-jsonl" \notin given THEN <<"cbeta", "jsonl">> ELSE <<c>>
    IN  CASE c \in stored -> Refuse({})
          [] c = "cbeta" /\ stored = {} /\ jsonl /\ "out-jsonl" \notin given ->
                Refuse({SayIngest({"cbeta"}, {"out-jsonl"})})
          [] OTHER -> Does(writes \o <<"doc_table", "catalog">> \o ordered, IngestedAdvice(built))

\* The refusal is ingest's, and so is the flag it names.
NoSuchFlag == Say(<<"init">>, {"from-raw", "out-jsonl"})

\* Mutant of InitComplete: one of the indexes is enough.
InitCompleteAny == Fast \cap made # {}
InitComplete == Fast \subseteq made
\* init: rebuild, take what is local, or download.
RunInit(given) ==
    LET rebuild == <<"doc_table", "catalog", "phrase", "tfidf">> IN
    IF "cbeta" \in stored /\ "force" \notin given
    THEN IF InitComplete THEN Does(<<>>, CompleteAdvice) ELSE Does(rebuild, ReadyAdvice)
    ELSE IF "from-raw" \in given
    THEN IF jsonl THEN Refuse({NoSuchFlag})
         ELSE Does(<<"cbeta", "jsonl", "doc_table", "catalog">>, IngestedAdvice({}))
    ELSE IF "cbeta" \in stored THEN Does(<<>>, {})
    ELSE Does(<<"pack">> \o rebuild, ReadyAdvice)

\* catalog-index-build and doc-table-build ask for less: of an empty store they make an empty
\* table and tree.
BuildCatalogAlone ==
    CASE "doc_table" \notin made -> Refuse({Say(<<"doc-table-build">>, {})})
      [] "doc_table" \in made /\ ~root -> Refuse({})
      [] OTHER -> Does(<<"catalog">>, {})
BuildTableAlone == IF root THEN Does(<<"doc_table">>, {}) ELSE Refuse({})
UpdateVectors == IF "doc_table" \in made THEN Does(<<"vector">>, {}) ELSE Refuse({})

Run(line, c) ==
    LET path == line.path IN
    CASE path = <<"ingest">> -> IngestCorpus(c, line.given)
      [] path = <<"init">> -> RunInit(line.given)
      [] path = <<"indexes", "lexical">> -> WithPrerequisites(<<"phrase", "tfidf">>)
      [] path = <<"index", "phrase">> -> WithPrerequisites(<<"phrase">>)
      [] path = <<"index", "tfidf">> -> WithPrerequisites(<<"tfidf">>)
      [] path = <<"index", "catalog">> -> WithPrerequisites(<<"catalog">>)
      [] path = <<"catalog-index-build">> -> BuildCatalogAlone
      [] path = <<"doc-table-build">> -> BuildTableAlone
      [] path \in {<<"index", "vector-update">>, <<"indexes", "semantic">>} -> UpdateVectors
      [] path = <<"status">> -> Does(<<>>, StatusAdvice)
      [] OTHER -> Does(<<>>, {})

\* Told of a corpus, the person takes one that is allowed; of none, it does not matter.
Choices(a) == IF a.corpora = {} THEN {"none"} ELSE a.corpora

-----------------------------------------------------------------------------
(* The person and the commands.                                             *)

IsSemantic(a) == a.line.path \in {<<"index", "vector-update">>, <<"indexes", "semantic">>}
\* Advice that changes the directory; the rest is how to use it.
Builds(a) == a.line.path \in {<<"ingest">>, <<"init">>, <<"indexes", "lexical">>,
                              <<"index", "phrase">>, <<"index", "tfidf">>, <<"doc-table-build">>}
             /\ a.line.given \cap {"force"} = {}

Type(line, c) ==
    LET r == Run(line, c) IN
    /\ todo.steps = <<>>
    /\ IF r.steps = <<>> THEN told' = r.ends /\ UNCHANGED todo
       ELSE told' = {} /\ todo' = [steps |-> r.steps, ends |-> r.ends]
    /\ UNCHANGED <<stored, root, jsonl, made>>

Followed(a) == Parses(a.line) /\ Builds(a) /\ ~a.later /\ Choices(a) \ stored # {}

\* Nothing is left to do of what was told.
LookAround == ~(\E a \in told : Followed(a)) /\ Type(Line(<<"status">>, {}), "none") /\ UNCHANGED whims

FollowAdvice ==
    /\ \E a \in told : Followed(a) /\ \E c \in Choices(a) \ stored : Type(a.line, c)
    /\ UNCHANGED whims

FollowSemantic == (\E a \in told : IsSemantic(a) /\ ~a.later /\ Type(a.line, "none")) /\ UNCHANGED whims

OwnLines ==
    {Line(<<"init">>, given) : given \in {{}, {"force"}, {"from-raw"}}}
    \cup {Line(<<"ingest">>, {"<source>", "<path>"} \cup more) :
            more \in SUBSET {"build-phrase-index", "build-tfidf"}}
    \cup {Line(path, {}) : path \in {<<"index", "catalog">>, <<"index", "tfidf">>,
                                     <<"catalog-index-build">>}}
OwnCommand ==
    /\ whims < MaxWhims /\ whims' = whims + 1
    /\ \E line \in OwnLines, c \in Source : Type(line, c)

\* A pack with the other name for its directory is not renamed over a store that is there.
DoStep ==
    /\ todo.steps # <<>>
    /\ LET s == Head(todo.steps) IN
       /\ \/ stored' = stored \cup ({s} \cap Source) \cup (IF s = "pack" THEN {"cbeta"} ELSE {})
          \/ s = "pack" /\ stored # {} /\ UNCHANGED stored
       /\ root' = (root \/ stored' # {})
       /\ jsonl' = (jsonl \/ s = "jsonl")
       /\ made' = made \cup ({s} \cap Artefact)
    /\ IF Len(todo.steps) = 1 THEN todo' = AtRest /\ told' = todo.ends
       ELSE todo' = [todo EXCEPT !.steps = Tail(@)] /\ UNCHANGED told
    /\ UNCHANGED whims

\* The embeddings can fail for good, of a model or a store that does not fit.
FailSemantic ==
    /\ todo.steps # <<>> /\ Head(todo.steps) = "vector"
    /\ todo' = AtRest /\ UNCHANGED <<stored, root, jsonl, made, told, whims>>

\* The command fails or dies; what it wrote before stays.
StopShort ==
    /\ todo.steps # <<>>
    /\ whims < MaxWhims /\ whims' = whims + 1
    /\ todo' = AtRest /\ UNCHANGED <<stored, root, jsonl, made, told>>

DeleteSomething ==
    /\ todo.steps = <<>>
    /\ whims < MaxWhims /\ whims' = whims + 1
    /\ \/ \E c \in stored : stored' = stored \ {c} /\ UNCHANGED made
       \/ \E i \in made : made' = made \ {i} /\ UNCHANGED stored
    /\ told' = {} /\ UNCHANGED <<root, jsonl, todo>>

UpkeepInit ==
    /\ stored = {} /\ root = FALSE /\ jsonl = FALSE /\ made = {} /\ todo = AtRest /\ told = {} /\ whims = 0

UpkeepNext ==
    \/ LookAround
    \/ FollowAdvice
    \/ FollowSemantic
    \/ OwnCommand
    \/ DoStep
    \/ FailSemantic
    \/ StopShort
    \/ DeleteSomething

-----------------------------------------------------------------------------

UpkeepTypeOK ==
    /\ stored \subseteq Source /\ {root, jsonl} \subseteq BOOLEAN /\ made \subseteq Artefact
    /\ Len(todo.steps) <= 6 /\ whims \in 0 .. MaxWhims

\* Whatever is told can be typed, and is not refused as things stand, unless the refusal names
\* what is not (status.rs:100-148, init.rs:95-112 and 489-492, ingest.rs:532-568, against
\* cli.rs and the guards of the commands).  Two exceptions: init has no --out-jsonl, which its
\* refusal of a second --from-raw names, and doc-table-build needs a passages.parquet.
Accepted(a) ==
    \/ Choices(a) \subseteq stored
    \/ \E c \in Choices(a) : ~Run(a.line, c).refused
AdviceIsRunnable ==
    \A a \in told \ {NoSuchFlag} :
        /\ Parses(a.line)
        /\ todo.steps = <<>> /\ ~a.later =>
             \/ Accepted(a)
             \/ ~root /\ a.line.path = <<"doc-table-build">>
             \/ \E c \in Choices(a) : \E b \in Run(a.line, c).ends :
                  b \notin {LookAgain, NoSuchFlag} /\ Parses(b.line) /\ Accepted(b)

\* Wherever commands that ended badly, deletions and commands of one's own have led, who does
\* what status says comes to have a corpus, its table and both lexical indexes.
AdviceLeadsHome == <>[](stored # {} /\ {"doc_table"} \cup Lexical \subseteq made)
=============================================================================
