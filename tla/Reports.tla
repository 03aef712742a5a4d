------------------------------- MODULE Reports -------------------------------
(***************************************************************************)
(* What run_js and run_py (runner.py) read back once the backend has       *)
(* exited with 0: the clean code, the layer cards, the findings, and what  *)
(* is derived from these: ATT&CK techniques and the severity of a session  *)
(* (main.py).  A text is known by the file it stands in, and may be empty. *)
(***************************************************************************)
EXTENDS Naturals, Sequences, FiniteSets, FiniteSetsExt, SequencesExt

CONSTANT LayerNumbers     \* of the layer files; a backend counts from 1

ASSUME ReportsAssumption == LayerNumbers \subseteq Nat \ {0}

(* Files: what the report calls outputPath, the upload, the candidates of a  *)
(* result directory, the layers and the findings that lie among them.        *)
File(kind)  == [kind |-> kind, n |-> 0]
Layer(n)    == [kind |-> "layer", n |-> n]
Output      == File("output")
Input       == File("input")
IocReport   == File("layer_0_ioc_report")
Nothing     == File("nothing")
Layers      == {Layer(n) : n \in LayerNumbers}
Files       == Layers \cup {Output, Input, IocReport} \cup
                   {File(k) : k \in {"final_result", "stem", "name", "decompiled"}}

(* A directory says of each file whether it is missing, empty or has a text; *)
(* it has finitely many files.                                               *)
Directories ==
    {dir \in [Files -> {"missing", "empty", "text"}] : IsFiniteSet({f \in Files : dir[f] # "missing"})}

There(dir)   == {f \in Files : dir[f] # "missing"}
Read(dir, f) == IF f \in Files /\ dir[f] = "text" THEN f ELSE Nothing

(* _trailing_int of the stem: the findings' file counts as 0. *)
TrailingInt(f) == f.n

(* Mutant: layers in the order of their names. *)
LastByName(files) ==
    LET word(n) == IF n < 10 THEN 10 * n ELSE n
    IN  {f \in files : \A g \in files : word(g.n) <= word(f.n)}

(* sorted(glob, key=_trailing_int)[-1]: one of these, as files are listed    *)
LastLayers(files) == {f \in files : \A g \in files : TrailingInt(g) <= TrailingInt(f)}

(* run_js: "layer_*.js" takes the findings' file in. *)
JsClean(dir) ==
    LET last == LastLayers({f \in There(dir) : f \in Layers \cup {IocReport}})
    IN  IF Read(dir, Output) # Nothing THEN {Output}
        ELSE IF last = {} THEN {Nothing} ELSE {Read(dir, f) : f \in last}

(* _py_find_clean: the first of these that is there, whatever stands in it   *)
PyFound(dir) ==
    LET last   == LastLayers(There(dir) \cap Layers)
        wanted == [i \in 1 .. 4 |-> {File(<<"final_result", "stem", "name", "decompiled">>[i])}
                                       \cap There(dir)] \o <<last>>
        first  == SelectInSeq(wanted, LAMBDA s : s # {})
    IN  IF first = 0 THEN {Nothing} ELSE {Read(dir, f) : f \in wanted[first]}

(* run_py: the upload itself when nothing was found *)
PyClean(dir) ==
    IF Read(dir, Output) # Nothing THEN {Output}
    ELSE {IF f = Nothing THEN Read(dir, Input) ELSE f : f \in PyFound(dir)}

Clean(lang, dir) == IF lang = "js" THEN JsClean(dir) ELSE PyClean(dir)

(* Ids of the cards; a report without layerId (0) gets its position.         *)
CardIds(ids) == [i \in DOMAIN ids |-> IF ids[i] = 0 THEN i ELSE ids[i]]

(* _py_find_result_dir: the three places a result can be in, each with a     *)
(* report, with code only, bare, or absent                                   *)
ResultPlace(place) ==
    LET result(p) == place[p] \in {"report", "code"}
    IN  IF result("flat") THEN "flat"
        ELSE IF place["stem"] # "absent" THEN "stem"
        ELSE IF result("other") THEN "other" ELSE "none"

-----------------------------------------------------------------------------
(* Findings.  A list holds findings and other values ("scalar"); a document  *)
(* is a list, an object with lists under some keys, or neither (also: the    *)
(* file is missing or cannot be parsed).                                     *)

ListKeys == <<"findings", "iocs", "items", "results">>

(* _ioc_items_from_data: of the first key that has a list; findings keep     *)
(* their places in it.                                                       *)
Items(doc) ==
    LET key  == SelectInSeq(ListKeys, LAMBDA k : doc.kind = "object" /\ k \in DOMAIN doc.lists)
        list == CASE doc.kind = "list" -> doc.list
                  [] doc.kind = "object" /\ key # 0 -> doc.lists[ListKeys[key]]
                  [] OTHER -> <<>>
    IN  RestrictValues(list, LAMBDA item : item.type # "scalar")

(* _normalize_ioc_items *)
Severity(s) == IF s = "medium" THEN "med" ELSE IF s \in {"low", "med", "high"} THEN s ELSE "low"

Normalized(items) ==
    [i \in DOMAIN items |->
        [type |-> IF items[i].type = "absent" THEN "misc" ELSE items[i].type,
         sev  |-> Severity(items[i].sev)]]

(* _js_iocs, _py_iocs and run_job *)
Iocs(lang, autoIoc, embedded, file) ==
    IF ~autoIoc THEN <<>>
    ELSE IF lang = "py" /\ Items(embedded) # <<>> THEN Normalized(Items(embedded))
    ELSE Normalized(Items(file))

Types(iocs) == {iocs[i].type : i \in DOMAIN iocs}

(* derive_mitre *)
Mitre(lang, iocs) ==
    {"T1027", IF lang = "js" THEN "T1059.007" ELSE "T1059.006"}
        \cup (IF Types(iocs) \cap {"url", "domain", "ip"} # {} THEN {"T1041"} ELSE {})
        \cup (IF "path" \in Types(iocs) THEN {"T1547.001"} ELSE {})
        \cup (IF Types(iocs) \cap {"key", "wallet"} # {} THEN {"T1552.001"} ELSE {})

(* _session_view *)
SessionSeverity(iocs) ==
    LET has(sev) == \E i \in DOMAIN iocs : iocs[i].sev = sev
    IN  IF has("high") THEN "high" ELSE IF has("med") THEN "med" ELSE "low"

-----------------------------------------------------------------------------
(* What a reader of the result relies on *)

(* Some text is shown where there is one: a Python run falls back to the     *)
(* upload.  An older layer is not shown beside a newer one, nor the upload   *)
(* or the list of findings beside a layer.                                   *)
CodeShown(lang, dir, shown) ==
    LET last == Max({0} \cup {f.n : f \in There(dir) \cap Layers}) IN
    /\ dir[Output] = "text" => shown = Output
    /\ lang = "py" /\ dir[Input] = "text" => shown # Nothing
    /\ shown.kind = "layer" => shown.n = last
    /\ last # 0 /\ dir[Layer(last)] = "text" /\ (\A f \in Files : dir[f] # "empty") =>
          shown \notin {Nothing, Input, IocReport}

(* A report that is in one of the known layouts is found, unless a bare      *)
(* directory named after the upload stands before it.                        *)
ReportFound(place, found) ==
    \A p \in {"flat", "stem", "other"} :
        /\ place[p] = "report" /\ (p = "other" => place["stem"] = "absent")
        /\ \A q \in {"flat", "stem", "other"} \ {p} : place[q] \in {"bare", "absent"}
        => found = p

(* Cards have ids of their own when the report numbers its layers throughout *)
(* or not at all.                                                            *)
CardsDistinct(ids, shown) ==
    (0 \notin Range(ids) /\ IsInjective(ids)) \/ Range(ids) = {0} => IsInjective(shown)

Rank(s) == CASE s = "high" -> 3 [] s \in {"med", "medium"} -> 2 [] OTHER -> 1

(* The lists of a document, under whatever key, and the findings of a list   *)
ListsOf(doc) ==
    CASE doc.kind = "list" -> {doc.list} [] doc.kind = "object" -> Range(doc.lists) [] OTHER -> {}

Findings(list) == {i \in DOMAIN list : list[i].type # "scalar"}

(* Every finding of a list as the list says it, and no other *)
Shows(iocs, list) ==
    /\ DOMAIN iocs = Findings(list)
    /\ \A i \in DOMAIN iocs :
          /\ Rank(iocs[i].sev) = Rank(list[i].sev)
          /\ list[i].type # "absent" => iocs[i].type = list[i].type

(* Every finding of the findings' file is shown, for Python unless           *)
(* report.json has findings, which then are all shown instead: _py_iocs says *)
(* so, against the README, which has them come from ioc_report.json.  Of a   *)
(* document with several lists one is read.  Nothing is shown that no        *)
(* document says; the session is as severe as the worst that is shown, and a *)
(* technique is named when one of these calls for it.                        *)
FindingsShown(lang, embedded, file, iocs, mitre, sev) ==
    LET own    == lang = "py" /\ \E list \in ListsOf(embedded) : Findings(list) # {}
        read   == ListsOf(IF own THEN embedded ELSE file)
        calls(types) == \E i \in DOMAIN iocs : iocs[i].type \in types
    IN  /\ \A list \in read : read = {list} => Shows(iocs, list)
        /\ DOMAIN iocs # {} =>
              \E list \in ListsOf(file) \cup (IF lang = "py" THEN ListsOf(embedded) ELSE {}) :
                  Shows(iocs, list)
        /\ Rank(sev) = Max({1} \cup {Rank(iocs[i].sev) : i \in DOMAIN iocs})
        /\ "T1041" \in mitre <=> calls({"url", "domain", "ip"})
        /\ "T1547.001" \in mitre <=> calls({"path"})
        /\ "T1552.001" \in mitre <=> calls({"key", "wallet"})

=============================================================================
