----------------------------- MODULE Algorithms -----------------------------
(***************************************************************************)
(* The pure functions of the server, each beside what it is relied upon    *)
(* for: a behaviour takes one problem and stores the answer to it.         *)
(***************************************************************************)
EXTENDS Detection, TomlEditor, Reports

CONSTANTS
    SampleLines, MaxLines, Edits,  \* bounds: lines of a file, updates
    SampleItems, MaxItems,         \* bounds: findings in a list
    MaxCards                       \* bound: layers in a report

ASSUME SamplesAssumption == SampleLines \subseteq TomlLines /\ \A u \in Edits : IsUpdate(u)

VARIABLES problem, answer

vars == <<problem, answer>>

Langs == {"js", "py"}

UploadProblems ==
    [kind: {"upload"}, hint: Hints, ext: Extensions, blob: {b \in Uploads : Possible(b)}]

EditProblems == [kind: {"edit"}, lines: BoundedSeq(SampleLines, MaxLines), updates: Edits]

(* run_js never looks for the candidates of run_py, nor that for a js list.  *)
CodeProblems ==
    {p \in [kind: {"code"}, lang: Langs, dir: Directories] :
        \A f \in Files : p.dir[f] # "missing" =>
            \/ f \in Layers \cup {Output}
            \/ (f = IocReport) = (p.lang = "js")}

PlaceProblems ==
    [kind: {"place"}, place: [{"flat", "stem", "other"} -> {"report", "code", "bare", "absent"}]]

CardProblems == [kind: {"cards"}, ids: BoundedSeq(LayerNumbers \cup {0}, MaxCards)]

Lists == BoundedSeq(SampleItems, MaxItems)

(* Objects have a list under one key, or short ones under two of them. *)
Documents ==
    {[kind |-> "none"]} \cup [kind: {"list"}, list: Lists]
        \cup [kind: {"object"}, lists: UNION {[{key} -> Lists] : key \in Range(ListKeys)}]
        \cup [kind: {"object"}, lists: UNION {[keys -> BoundedSeq(SampleItems, 1)] :
                                                keys \in kSubset(2, Range(ListKeys))}]

FindingsProblems ==
    [kind: {"findings"}, lang: Langs, autoIoc: BOOLEAN, embedded: Documents, file: Documents]

Open == [kind |-> "open"]

Init ==
    /\ answer = Open
    /\ \/ problem \in UploadProblems \/ problem \in EditProblems \/ problem \in CodeProblems
       \/ problem \in PlaceProblems \/ problem \in CardProblems \/ problem \in FindingsProblems

Solve(kind, solution) ==
    /\ answer = Open /\ problem.kind = kind
    /\ answer' = solution
    /\ UNCHANGED problem

Detect == Solve("upload", [kind |-> "lang", lang |-> DetectLang(problem.hint, problem.ext, problem.blob)])

Edit == Solve("edit", [kind |-> "lines", lines |-> UpdateToml(problem.lines, problem.updates)])

ShowCode ==
    problem.kind = "code" /\ \E shown \in Clean(problem.lang, problem.dir) :
        Solve("code", [kind |-> "shown", shown |-> shown])

FindReport == Solve("place", [kind |-> "found", place |-> ResultPlace(problem.place)])

ShowCards == Solve("cards", [kind |-> "ids", ids |-> CardIds(problem.ids)])

ShowFindings ==
    problem.kind = "findings" /\
        LET iocs == Iocs(problem.lang, problem.autoIoc, problem.embedded, problem.file)
        IN  Solve("findings", [kind |-> "iocs", iocs |-> iocs, mitre |-> Mitre(problem.lang, iocs),
                               sev |-> SessionSeverity(iocs)])

Next == Detect \/ Edit \/ ShowCode \/ FindReport \/ ShowCards \/ ShowFindings

Spec == Init /\ [][Next]_vars

-----------------------------------------------------------------------------

(* An upload goes to the engine that its hint, an unambiguous extension, or  *)
(* its content says, whatever its line ends and its name.                    *)
DetectionRouted ==
    answer.kind = "lang" => Routed(problem.hint, problem.ext, problem.blob, answer.lang)

(* What is written into a flat llm_config.toml reads back, quotes, hashes    *)
(* and backslashes in it too; prompts that span lines, comments, other keys  *)
(* and sections stay as they were.                                           *)
EditReadsBack ==
    answer.kind = "lines" /\ Flat(problem.lines, problem.updates) =>
        ReadsBack(problem.lines, problem.updates, answer.lines)

(* A result shows the newest code there is, cards that can be told apart,    *)
(* and every finding, with the severity and the techniques that follow.      *)
ReportShown ==
    /\ answer.kind = "shown" => CodeShown(problem.lang, problem.dir, answer.shown)
    /\ answer.kind = "found" => ReportFound(problem.place, answer.place)
    /\ answer.kind = "ids"   => CardsDistinct(problem.ids, answer.ids)
    /\ answer.kind = "iocs" /\ problem.autoIoc =>
          FindingsShown(problem.lang, problem.embedded, problem.file,
                        answer.iocs, answer.mitre, answer.sev)

=============================================================================
