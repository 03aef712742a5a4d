------------------------- MODULE Algorithms_proofs --------------------------
(***************************************************************************)
(* Theorems about Algorithms: detection for any upload, editing any flat   *)
(* llm_config.toml, reading a report for any layers and any findings.      *)
(***************************************************************************)
EXTENDS Algorithms, TomlEditor_proofs

-----------------------------------------------------------------------------
(* Detection *)

(* The first of the five opinions that says something *)
LEMMA FirstOpinion ==
  ASSUME NEW hint \in Hints, NEW ext \in Extensions, NEW blob
  PROVE  DetectLang(hint, ext, blob) =
            IF hint # "none" THEN hint
            ELSE IF Unambiguous[ext] # "none" THEN Unambiguous[ext]
            ELSE IF SniffBinary(blob) # "none" THEN SniffBinary(blob)
            ELSE IF SniffMarkers(blob) # "none" THEN SniffMarkers(blob)
            ELSE Fallback[ext]
<1> DEFINE opinions == <<hint, Unambiguous[ext], SniffBinary(blob), SniffMarkers(blob), Fallback[ext]>>
           I == {i \in 1 .. Len(opinions) : opinions[i] # "none"}
           first == SelectInSeq(opinions, LAMBDA o : o # "none")
<1>1. DetectLang(hint, ext, blob) = opinions[first]
  BY DEF DetectLang
<1>2. first = IF I # {} THEN Min(I) ELSE 0
  BY DEF SelectInSeq
<1>3. Len(opinions) = 5 /\ I \in SUBSET Nat
  OBVIOUS
<1>4. opinions[5] # "none"
  BY DEF Fallback, Extensions
<1>5. 5 \in I
  BY <1>3, <1>4
<1> HIDE DEF first
<1>6. ASSUME NEW i \in I, \A k \in 1 .. i - 1 : opinions[k] = "none"
      PROVE  DetectLang(hint, ext, blob) = opinions[i]
  <2>1. \A k \in I : i <= k
    BY <1>3, <1>6
  <2>2. Min(I) = i
    BY <1>3, <2>1, MinIs
  <2> QED BY <2>2, <1>1, <1>2, <1>5
<1>7. CASE hint # "none"
  BY <1>3, <1>6, <1>7
<1>8. CASE hint = "none" /\ Unambiguous[ext] # "none"
  <2>1. 2 \in I /\ \A k \in 1 .. 2 - 1 : opinions[k] = "none"
    BY <1>3, <1>8
  <2> QED BY <1>6, <1>8, <2>1
<1>9. CASE hint = "none" /\ Unambiguous[ext] = "none" /\ SniffBinary(blob) # "none"
  <2>1. 3 \in I /\ \A k \in 1 .. 3 - 1 : opinions[k] = "none"
    BY <1>3, <1>9
  <2> QED BY <1>6, <1>9, <2>1
<1>10. CASE /\ hint = "none" /\ Unambiguous[ext] = "none" /\ SniffBinary(blob) = "none"
            /\ SniffMarkers(blob) # "none"
  <2>1. 4 \in I /\ \A k \in 1 .. 4 - 1 : opinions[k] = "none"
    BY <1>3, <1>10
  <2> QED BY <1>6, <1>10, <2>1
<1>11. CASE /\ hint = "none" /\ Unambiguous[ext] = "none" /\ SniffBinary(blob) = "none"
            /\ SniffMarkers(blob) = "none"
  <2>1. \A k \in 1 .. 5 - 1 : opinions[k] = "none"
    BY <1>3, <1>11
  <2> QED BY <1>5, <1>6, <1>11, <2>1
<1> QED BY <1>7, <1>8, <1>9, <1>10, <1>11

(* What is said of an upload that exists decides where it goes.              *)
LEMMA DetectRouted ==
  ASSUME NEW hint \in Hints, NEW ext \in Extensions, NEW blob \in Uploads, Possible(blob)
  PROVE  Routed(hint, ext, blob, DetectLang(hint, ext, blob))
<1> DEFINE lang == DetectLang(hint, ext, blob)
<1>1. hint # "none" => lang = hint
  BY FirstOpinion
<1>2. hint = "none" /\ Unambiguous[ext] # "none" => lang = Unambiguous[ext]
  BY FirstOpinion
<1>3. ASSUME hint = "none", Unambiguous[ext] = "none"
      PROVE  TextStaysText(blob, lang) /\ PythonFound(blob, lang) /\ ExecutableToPython(ext, blob, lang)
  <2>1. lang = IF SniffBinary(blob) # "none" THEN SniffBinary(blob)
               ELSE IF SniffMarkers(blob) # "none" THEN SniffMarkers(blob)
               ELSE Fallback[ext]
    BY <1>3, FirstOpinion
  <2>2. /\ blob.junk \in BOOLEAN /\ blob.cookie \in BOOLEAN /\ blob.packer \in BOOLEAN
        /\ blob.crlf \in BOOLEAN /\ blob.py \in 0 .. 2 /\ blob.js \in 0 .. 2
    BY DEF Uploads
  <2>3. ext \in {"executable", "other"}
    BY <1>3 DEF Unambiguous, Extensions
  <2> DEFINE full == Size(blob) > 0
             cut  == CutsCharacter(blob)
  <2>4. blob.junk \/ blob.cookie \/ blob.packer \/ blob.py > 0 \/ blob.js > 0 => full
    BY DEF Possible
  <2>5. SniffBinary(blob) =
           IF full /\ (blob.cookie \/ blob.packer \/ (blob.crlf /\ full /\ (blob.junk \/ cut)))
             THEN "py" ELSE "none"
    BY DEF SniffBinary, Bytecode, LooksBinary
  <2> HIDE DEF full, cut
  <2>6. TextStaysText(blob, lang)
    <3> SUFFICES ASSUME ~blob.junk, ~cut, ~blob.cookie, ~blob.packer, blob.js >= 2, blob.py = 0
                 PROVE  lang = "js"
      BY DEF TextStaysText, Text, cut
    <3>1. SniffBinary(blob) = "none"
      BY <2>5
    <3>2. SniffMarkers(blob) = "js"
      BY DEF SniffMarkers
    <3> QED BY <2>1, <3>1, <3>2
  <2>7. PythonFound(blob, lang)
    <3>1. CASE blob.cookie \/ blob.packer \/ (blob.crlf /\ blob.junk)
      <4>1. SniffBinary(blob) = "py"
        BY <2>4, <2>5, <3>1
      <4> QED BY <2>1, <4>1 DEF PythonFound
    <3>2. CASE blob.py >= 2 /\ blob.js = 0
      <4>1. SniffMarkers(blob) = "py"
        BY <3>2 DEF SniffMarkers
      <4> QED BY <2>1, <2>5, <4>1 DEF PythonFound
    <3> QED BY <2>2, <3>1, <3>2 DEF PythonFound, Text
  <2>8. ExecutableToPython(ext, blob, lang)
    <3> SUFFICES ASSUME ext = "executable", blob.js < 2 \/ blob.py > 0
                 PROVE  lang = "py"
      BY DEF ExecutableToPython
    <3>1. SniffMarkers(blob) \in {"py", "none"}
      BY <2>2 DEF SniffMarkers
    <3>2. Fallback[ext] = "py"
      BY DEF Fallback
    <3> QED BY <2>1, <2>5, <3>1, <3>2
  <2> QED BY <2>6, <2>7, <2>8
<1> QED BY <1>1, <1>2, <1>3 DEF Routed

-----------------------------------------------------------------------------
(* The code that is shown *)

Candidates == {File("final_result"), File("stem"), File("name"), File("decompiled")}

(* A text that was read stands in the file it was read from.                 *)
LEMMA ReadIs ==
  ASSUME NEW dir \in Directories, NEW f \in Files
  PROVE  /\ Read(dir, f) \in {f, Nothing}
         /\ dir[f] = "text" => Read(dir, f) = f
  BY DEF Read

(* What a Python result directory yields: nothing, or what stands in one of  *)
(* the candidates or, when none of these is there, in a last layer.          *)
LEMMA PyFoundIs ==
  ASSUME NEW dir \in Directories, NEW f \in PyFound(dir)
  PROVE  \/ f = Nothing /\ LastLayers(There(dir) \cap Layers) = {}
         \/ \E g \in There(dir) \cap (Candidates \cup LastLayers(There(dir) \cap Layers)) : f = Read(dir, g)
<1> DEFINE last   == LastLayers(There(dir) \cap Layers)
           four   == [i \in 1 .. 4 |-> {File(<<"final_result", "stem", "name", "decompiled">>[i])}
                                           \cap There(dir)]
           wanted == four \o <<last>>
           first  == SelectInSeq(wanted, LAMBDA s : s # {})
           I      == {i \in 1 .. Len(wanted) : wanted[i] # {}}
<1>1. PyFound(dir) = IF first = 0 THEN {Nothing} ELSE {Read(dir, g) : g \in wanted[first]}
  BY DEF PyFound
<1>2. first = IF I # {} THEN Min(I) ELSE 0
  BY DEF SelectInSeq
<1>3. four \in Seq(SUBSET There(dir)) /\ Len(four) = 4
  <2>1. four \in [1 .. 4 -> SUBSET There(dir)]
    OBVIOUS
  <2> QED BY <2>1
<1>4. Len(wanted) = 5 /\ wanted[5] = last /\ \A i \in 1 .. 4 : wanted[i] = four[i]
  <2>1. <<last>> \in Seq(SUBSET There(dir)) /\ Len(<<last>>) = 1 /\ <<last>>[1] = last
    BY DEF LastLayers
  <2> HIDE DEF four, last
  <2>2. /\ Len(wanted) = Len(four) + Len(<<last>>)
        /\ \A i \in 1 .. Len(four) + Len(<<last>>) :
              wanted[i] = IF i <= Len(four) THEN four[i] ELSE <<last>>[i - Len(four)]
    BY <1>3, <2>1, ConcatProperties, Zenon
  <2> HIDE DEF wanted
  <2> QED BY <1>3, <2>1, <2>2
<1>5. \A i \in 1 .. 4 : four[i] \subseteq There(dir) \cap Candidates
  BY DEF Candidates
<1>6. last \subseteq There(dir)
  BY DEF LastLayers
<1>7. \A i \in 1 .. 5 : wanted[i] \subseteq There(dir) \cap (Candidates \cup last)
  <2> HIDE DEF wanted, four, last
  <2> QED BY <1>4, <1>5, <1>6
<1> HIDE DEF first, wanted, four, last
<1>8. CASE first = 0
  <2>1. I = {}
    <3> SUFFICES ASSUME NEW i \in I PROVE FALSE
      OBVIOUS
    <3>1. Min(I) \in I
      <4>1. I \in SUBSET Nat /\ I # {}
        OBVIOUS
      <4> HIDE DEF I
      <4> QED BY <4>1, LeastExists
    <3> QED BY <1>2, <1>4, <1>8, <3>1
  <2>2. last = {}
    BY <1>4, <2>1
  <2> QED BY <1>1, <1>8, <2>2 DEF last
<1>9. CASE first # 0
  <2>1. I # {} /\ I \in SUBSET Nat
    BY <1>2, <1>9
  <2>2. Min(I) \in I
    <3> HIDE DEF I
    <3> QED BY <2>1, LeastExists
  <2>3. first \in 1 .. 5
    BY <1>2, <1>4, <2>1, <2>2
  <2>4. PICK g \in wanted[first] : f = Read(dir, g)
    BY <1>1, <1>9
  <2> QED BY <1>7, <2>3, <2>4 DEF last
<1> QED BY <1>8, <1>9

(* The number of the last layer that is there, or 0                          *)
LastNumber(dir) == Max({0} \cup {f.n : f \in There(dir) \cap Layers})

(* The greatest number of a layer in a directory                             *)
LEMMA LastNumberIs ==
  ASSUME NEW dir \in Directories
  PROVE  /\ LastNumber(dir) \in Nat
         /\ \A f \in There(dir) \cap Layers : f.n \in Nat \ {0} /\ f.n <= LastNumber(dir)
         /\ LastNumber(dir) # 0 => Layer(LastNumber(dir)) \in There(dir) \cap Layers
<1> DEFINE F == There(dir) \cap Layers
           N == {f.n : f \in F}
           number == [f \in F |-> f.n]
<1>1. IsFiniteSet(F)
  <2>1. IsFiniteSet(There(dir))
    BY DEF There, Directories
  <2> QED BY <2>1, FS_Subset
<1>2. number \in Surjection(F, N)
  <2>1. number \in [F -> N]
    OBVIOUS
  <2>2. \A n \in N : \E f \in F : number[f] = n
    OBVIOUS
  <2> HIDE DEF number, F, N
  <2> QED BY <2>1, <2>2 DEF Surjection
<1>3. IsFiniteSet(N)
  <2> HIDE DEF number, F, N
  <2> QED BY <1>1, <1>2, FS_Surjection
<1>4. IsFiniteSet({0} \cup N)
  <2> HIDE DEF N
  <2>1. {0} \cup N = N \cup {0}
    OBVIOUS
  <2> QED BY <1>3, <2>1, FS_AddElement
<1>5. \A f \in F : f = Layer(f.n) /\ f.n \in Nat \ {0}
  BY ReportsAssumption DEF Layers, Layer
<1>6. {0} \cup N \in SUBSET Nat
  BY <1>5
<1>7. LastNumber(dir) \in {0} \cup N /\ \A i \in {0} \cup N : i <= LastNumber(dir)
  <2>1. LastNumber(dir) = Max({0} \cup N)
    BY DEF LastNumber
  <2> HIDE DEF N
  <2> QED BY <1>4, <1>6, <2>1, FiniteHasMax
<1> QED BY <1>5, <1>6, <1>7

(* A last layer among some files has the last number, if layers are among    *)
(* these and all else counts as 0.                                           *)
LEMMA LastLayersAre ==
  ASSUME NEW dir \in Directories, NEW files \in SUBSET There(dir),
         There(dir) \cap Layers \subseteq files, \A f \in files \ Layers : f.n = 0
  PROVE  /\ \A f \in LastLayers(files) \cap Layers : f.n = LastNumber(dir)
         /\ LastNumber(dir) # 0 => LastLayers(files) # {} /\ LastLayers(files) \subseteq Layers
<1> DEFINE last == LastNumber(dir)
<1>1. /\ last \in Nat
      /\ \A f \in There(dir) \cap Layers : f.n \in Nat \ {0} /\ f.n <= last
      /\ last # 0 => Layer(last) \in There(dir) \cap Layers
  BY LastNumberIs
<1>2. Layer(last).n = last
  BY DEF Layer
<1> HIDE DEF last
<1>3. \A f \in files : f.n \in Nat /\ f.n <= last
  BY <1>1
<1>4. ASSUME NEW f \in LastLayers(files) \cap Layers PROVE f.n = last
  <2>1. f \in files /\ \A g \in files : g.n <= f.n
    BY DEF LastLayers, TrailingInt
  <2>2. f.n \in Nat \ {0} /\ f.n <= last
    BY <1>1, <2>1
  <2>3. Layer(last) \in files
    BY <1>1, <2>2
  <2> QED BY <1>1, <1>2, <2>1, <2>2, <2>3
<1>5. ASSUME last # 0 PROVE LastLayers(files) # {} /\ LastLayers(files) \subseteq Layers
  <2>1. Layer(last) \in files
    BY <1>1, <1>5
  <2>2. Layer(last) \in LastLayers(files)
    BY <1>2, <1>3, <2>1 DEF LastLayers, TrailingInt
  <2>3. ASSUME NEW f \in LastLayers(files) PROVE f \in Layers
    <3>1. f \in files /\ last <= f.n
      BY <1>2, <2>1 DEF LastLayers, TrailingInt
    <3> QED BY <1>1, <1>5, <3>1
  <2> QED BY <2>2, <2>3
<1> QED BY <1>4, <1>5 DEF last

Named == Candidates \cup {Output, Input, IocReport, Nothing}

(* Files are told apart by their kind.                                       *)
LEMMA Kinds ==
  /\ \A f \in Named : f.kind # "layer" /\ f.n = 0
  /\ \A f \in Layers : f.kind = "layer"
  /\ Candidates \cap {Output, Input, IocReport, Nothing} = {}
  /\ Nothing \notin {Output, Input, IocReport}
  /\ Output \notin {Input, IocReport}
  /\ Layers \cup Candidates \cup {Output, Input, IocReport} = Files
<1>1. \A f \in Candidates : f.kind \in {"final_result", "stem", "name", "decompiled"} /\ f.n = 0
  BY DEF Candidates, File
<1>2. /\ Output.kind = "output" /\ Output.n = 0 /\ Input.kind = "input" /\ Input.n = 0
      /\ IocReport.kind = "layer_0_ioc_report" /\ IocReport.n = 0
      /\ Nothing.kind = "nothing" /\ Nothing.n = 0
  BY DEF Output, Input, IocReport, Nothing, File
<1>3. \A f \in Layers : f.kind = "layer"
  BY DEF Layers, Layer
<1>4. Layers \cup Candidates \cup {Output, Input, IocReport} = Files
  BY DEF Files, Candidates
<1> HIDE DEF Candidates
<1> QED BY <1>1, <1>2, <1>3, <1>4 DEF Named

(* run_js shows the newest code there is.                                    *)
LEMMA JsCodeShown ==
  ASSUME NEW dir \in Directories, NEW shown \in JsClean(dir)
  PROVE  CodeShown("js", dir, shown)
<1> DEFINE files == {f \in There(dir) : f \in Layers \cup {IocReport}}
           last == LastNumber(dir)
<1>1. /\ There(dir) \subseteq Files /\ {Output, IocReport} \subseteq Files
      /\ files \in SUBSET There(dir) /\ There(dir) \cap Layers \subseteq files
      /\ LastLayers(files) \subseteq files
  BY Kinds DEF There, LastLayers
<1>2. \A f \in files \ Layers : f.n = 0
  BY Kinds DEF Named
<1>3. /\ \A f \in LastLayers(files) \cap Layers : f.n = last
      /\ last # 0 => LastLayers(files) # {} /\ LastLayers(files) \subseteq Layers
  <2> HIDE DEF files
  <2> QED BY <1>1, <1>2, LastLayersAre
<1>4. JsClean(dir) = IF Read(dir, Output) # Nothing THEN {Output}
                     ELSE IF LastLayers(files) = {} THEN {Nothing}
                     ELSE {Read(dir, f) : f \in LastLayers(files)}
  BY DEF JsClean
<1>5. \A f \in Files : Read(dir, f) \in {f, Nothing} /\ (dir[f] = "text" => Read(dir, f) = f)
  BY ReadIs
<1>6. \A f \in files : f \in Files /\ dir[f] \in {"empty", "text"}
  BY <1>1 DEF There, Directories
<1> HIDE DEF files, last
<1>7. dir[Output] = "text" => shown = Output
  BY <1>1, <1>4, <1>5, Kinds
<1>8. shown.kind = "layer" => shown.n = last
  <2> SUFFICES ASSUME shown.kind = "layer" PROVE shown.n = last
    OBVIOUS
  <2>1. shown \notin {Output, Nothing}
    BY Kinds DEF Named
  <2>2. PICK f \in LastLayers(files) : shown = Read(dir, f)
    BY <1>4, <2>1
  <2>3. shown = f
    BY <1>1, <1>5, <1>6, <2>1, <2>2
  <2>4. f \in Layers
    BY <1>1, <2>3, Kinds DEF files, Named
  <2> QED BY <1>3, <2>3, <2>4
<1>9. ASSUME last # 0, \A f \in Files : dir[f] # "empty"
      PROVE  shown \notin {Nothing, Input, IocReport}
  <2>1. CASE shown = Output
    BY <2>1, Kinds
  <2>2. CASE shown # Output
    <3>1. PICK f \in LastLayers(files) : shown = Read(dir, f)
      BY <1>3, <1>4, <1>9, <2>2
    <3>2. shown = f /\ f \in Layers
      BY <1>1, <1>3, <1>5, <1>6, <1>9, <3>1
    <3>3. shown \notin Named
      BY <3>2, Kinds
    <3> QED BY <3>3 DEF Named
  <2> QED BY <2>1, <2>2
<1> QED BY <1>7, <1>8, <1>9 DEF CodeShown, last, LastNumber

(* So does run_py.                                                           *)
LEMMA PyCodeShown ==
  ASSUME NEW dir \in Directories, NEW shown \in PyClean(dir)
  PROVE  CodeShown("py", dir, shown)
<1> DEFINE layers == There(dir) \cap Layers
           last == LastNumber(dir)
<1>1. /\ There(dir) \subseteq Files /\ {Output, Input} \subseteq Files
      /\ layers \in SUBSET There(dir) /\ There(dir) \cap Layers \subseteq layers
      /\ LastLayers(layers) \subseteq layers
  BY Kinds DEF There, LastLayers
<1>2. \A f \in layers \ Layers : f.n = 0
  OBVIOUS
<1>3. /\ \A f \in LastLayers(layers) \cap Layers : f.n = last
      /\ last # 0 => LastLayers(layers) # {} /\ LastLayers(layers) \subseteq Layers
  <2> HIDE DEF layers
  <2> QED BY <1>1, <1>2, LastLayersAre
<1>4. PyClean(dir) = IF Read(dir, Output) # Nothing THEN {Output}
                     ELSE {IF f = Nothing THEN Read(dir, Input) ELSE f : f \in PyFound(dir)}
  BY DEF PyClean
<1>5. \A f \in Files : Read(dir, f) \in {f, Nothing} /\ (dir[f] = "text" => Read(dir, f) = f)
  BY ReadIs
<1>6. \A f \in There(dir) : f \in Files /\ dir[f] \in {"empty", "text"}
  BY <1>1 DEF There, Directories
<1>7. \A f \in PyFound(dir) :
         \/ f = Nothing /\ LastLayers(layers) = {}
         \/ \E g \in There(dir) \cap (Candidates \cup LastLayers(layers)) : f = Read(dir, g)
  BY PyFoundIs
<1> HIDE DEF layers, last
<1>8. dir[Output] = "text" => shown = Output
  BY <1>1, <1>4, <1>5, Kinds
<1>9. dir[Input] = "text" => shown # Nothing
  BY <1>1, <1>4, <1>5, Kinds
<1>10. shown.kind = "layer" => shown.n = last
  <2> SUFFICES ASSUME shown.kind = "layer" PROVE shown.n = last
    OBVIOUS
  <2>1. shown \notin Named
    BY Kinds
  <2>2. shown \in PyFound(dir)
    BY <1>1, <1>4, <1>5, <2>1 DEF Named
  <2>3. PICK g \in There(dir) \cap (Candidates \cup LastLayers(layers)) : shown = Read(dir, g)
    BY <1>7, <2>1, <2>2 DEF Named
  <2>4. shown = g
    BY <1>5, <1>6, <2>1, <2>3 DEF Named
  <2>5. g \in LastLayers(layers) /\ g \in Layers
    BY <1>1, <2>1, <2>3, <2>4 DEF Named, layers
  <2> QED BY <1>3, <2>4, <2>5
<1>11. ASSUME last # 0, \A f \in Files : dir[f] # "empty"
       PROVE  shown \notin {Nothing, Input, IocReport}
  <2>1. CASE shown = Output
    BY <2>1, Kinds
  <2>2. CASE shown # Output
    <3>1. PICK f \in PyFound(dir) : shown = IF f = Nothing THEN Read(dir, Input) ELSE f
      BY <1>4, <2>2
    <3>2. PICK g \in There(dir) \cap (Candidates \cup LastLayers(layers)) : f = Read(dir, g)
      BY <1>3, <1>7, <1>11, <3>1
    <3>3. f = g
      BY <1>5, <1>6, <1>11, <3>2
    <3>4. g \in Candidates \cup Layers
      BY <1>3, <1>11, <3>2
    <3>5. g \notin {Nothing, Input, IocReport}
      BY <3>4, Kinds DEF Named
    <3> QED BY <3>1, <3>3, <3>5
  <2> QED BY <2>1, <2>2
<1> QED BY <1>8, <1>9, <1>10, <1>11 DEF CodeShown, last, LastNumber

-----------------------------------------------------------------------------
(* Result directories, cards and findings *)

(* A report with neither code nor another report about is found.             *)
LEMMA PlaceFound ==
  ASSUME NEW place \in [{"flat", "stem", "other"} -> {"report", "code", "bare", "absent"}]
  PROVE  ReportFound(place, ResultPlace(place))
<1>1. CASE place["flat"] \in {"report", "code"}
  <2>1. ResultPlace(place) = "flat"
    BY <1>1 DEF ResultPlace
  <2> QED BY <1>1, <2>1 DEF ReportFound
<1>2. CASE place["flat"] \notin {"report", "code"} /\ place["stem"] # "absent"
  <2>1. ResultPlace(place) = "stem"
    BY <1>2 DEF ResultPlace
  <2> QED BY <1>2, <2>1 DEF ReportFound
<1>3. CASE place["flat"] \notin {"report", "code"} /\ place["stem"] = "absent"
  <2>1. place["other"] \in {"report", "code"} => ResultPlace(place) = "other"
    BY <1>3 DEF ResultPlace
  <2> QED BY <1>3, <2>1 DEF ReportFound
<1> QED BY <1>1, <1>2, <1>3

(* Layers with different numbers get different cards.                        *)
LEMMA CardsApart ==
  ASSUME NEW ids \in BoundedSeq(LayerNumbers \cup {0}, MaxCards)
  PROVE  CardsDistinct(ids, CardIds(ids))
<1>1. DOMAIN CardIds(ids) = DOMAIN ids
  BY DEF CardIds
<1>2. ASSUME 0 \notin Range(ids), IsInjective(ids) PROVE IsInjective(CardIds(ids))
  <2>1. \A i \in DOMAIN ids : CardIds(ids)[i] = ids[i]
    BY <1>2 DEF CardIds, Range
  <2> QED BY <1>1, <1>2, <2>1 DEF IsInjective
<1>3. ASSUME Range(ids) = {0} PROVE IsInjective(CardIds(ids))
  <2>1. \A i \in DOMAIN ids : ids[i] = 0
    BY <1>3 DEF Range
  <2>2. \A i \in DOMAIN ids : CardIds(ids)[i] = i
    BY <2>1 DEF CardIds
  <2> QED BY <1>1, <2>2 DEF IsInjective
<1> QED BY <1>2, <1>3 DEF CardsDistinct

(* A severity keeps its rank when it is normalized.                          *)
LEMMA SeverityRank == \A s : Rank(Severity(s)) = Rank(s) /\ Severity(s) \in {"low", "med", "high"}
  BY DEF Rank, Severity

(* What the result keeps of each finding of its source                       *)
LEMMA NormalizedKeeps ==
  ASSUME NEW items
  PROVE  /\ DOMAIN Normalized(items) = DOMAIN items
         /\ \A i \in DOMAIN items :
              /\ Rank(Normalized(items)[i].sev) = Rank(items[i].sev)
              /\ Normalized(items)[i].sev \in {"low", "med", "high"}
              /\ items[i].type # "absent" => Normalized(items)[i].type = items[i].type
<1>1. \A i \in DOMAIN items :
         /\ Normalized(items)[i].type = IF items[i].type = "absent" THEN "misc" ELSE items[i].type
         /\ Normalized(items)[i].sev = Severity(items[i].sev)
  BY DEF Normalized
<1>2. DOMAIN Normalized(items) = DOMAIN items
  BY DEF Normalized
<1> QED BY <1>1, <1>2, SeverityRank

(* The severity of a session is that of its worst finding.                   *)
LEMMA WorstShown ==
  ASSUME NEW iocs, \A i \in DOMAIN iocs : iocs[i].sev \in {"low", "med", "high"}
  PROVE  Rank(SessionSeverity(iocs)) = Max({1} \cup {Rank(iocs[i].sev) : i \in DOMAIN iocs})
<1> DEFINE ranks == {1} \cup {Rank(iocs[i].sev) : i \in DOMAIN iocs}
<1>2. Rank("high") = 3 /\ Rank("med") = 2 /\ Rank("low") = 1
  BY DEF Rank
<1>3. ranks \in SUBSET {1, 2, 3}
  BY <1>2
<1>4. \A i \in DOMAIN iocs : Rank(iocs[i].sev) \in ranks
  OBVIOUS
<1>5. CASE \E i \in DOMAIN iocs : iocs[i].sev = "high"
  <2>1. SessionSeverity(iocs) = "high"
    BY <1>5 DEF SessionSeverity
  <2>2. 3 \in ranks
    BY <1>2, <1>4, <1>5
  <2> HIDE DEF ranks
  <2>3. Max(ranks) = 3
    BY <1>3, <2>2, MaxIs
  <2> QED BY <1>2, <2>1, <2>3 DEF ranks
<1>6. CASE /\ ~\E i \in DOMAIN iocs : iocs[i].sev = "high"
           /\ \E i \in DOMAIN iocs : iocs[i].sev = "med"
  <2>1. SessionSeverity(iocs) = "med"
    BY <1>6 DEF SessionSeverity
  <2>2. 2 \in ranks
    BY <1>2, <1>4, <1>6
  <2>3. 3 \notin ranks
    BY <1>2, <1>6
  <2> HIDE DEF ranks
  <2>4. \A i \in ranks : i = 1 \/ i = 2
    BY <1>3, <2>3, Zenon
  <2>5. ranks \in SUBSET Nat /\ \A i \in ranks : i <= 2
    BY <2>4
  <2>6. Max(ranks) = 2
    BY <2>2, <2>5, MaxIs
  <2> QED BY <1>2, <2>1, <2>6 DEF ranks
<1>7. CASE ~\E i \in DOMAIN iocs : iocs[i].sev \in {"high", "med"}
  <2>1. SessionSeverity(iocs) = "low"
    BY <1>7 DEF SessionSeverity
  <2>2. 2 \notin ranks /\ 3 \notin ranks /\ 1 \in ranks
    BY <1>2, <1>7
  <2> HIDE DEF ranks
  <2>3. \A i \in ranks : i = 1
    BY <1>3, <2>2, Zenon
  <2>4. ranks \in SUBSET Nat /\ \A i \in ranks : i <= 1
    BY <2>3
  <2>5. Max(ranks) = 1
    BY <2>2, <2>4, MaxIs
  <2> QED BY <1>2, <2>1, <2>5 DEF ranks
<1> QED BY <1>5, <1>6, <1>7

IsDocument(doc) ==
    /\ doc.kind \in {"none", "list", "object"}
    /\ doc.kind = "object" => DOMAIN doc.lists \subseteq Range(ListKeys)

(* Of a document one list is read, if it has any.                            *)
LEMMA ItemsRead ==
  ASSUME NEW doc, IsDocument(doc)
  PROVE  \/ ListsOf(doc) = {} /\ DOMAIN Items(doc) = {} /\ Items(doc) = <<>>
         \/ \E list \in ListsOf(doc) :
               /\ DOMAIN Items(doc) = Findings(list)
               /\ \A i \in Findings(list) : Items(doc)[i] = list[i]
               /\ Items(doc) = <<>> <=> Findings(list) = {}
<1> DEFINE finds(list) == RestrictValues(list, LAMBDA item : item.type # "scalar")
<1>1. ASSUME NEW list
      PROVE  /\ DOMAIN finds(list) = Findings(list)
             /\ \A i \in Findings(list) : finds(list)[i] = list[i]
             /\ finds(list) = <<>> <=> Findings(list) = {}
  <2>1. finds(list) = [i \in Findings(list) |-> list[i]]
    BY DEF RestrictValues, Restrict, Findings
  <2>2. ASSUME Findings(list) = {} PROVE finds(list) = <<>>
    <3>1. finds(list) \in [1 .. 0 -> {}]
      BY <2>1, <2>2
    <3>2. finds(list) \in Seq({}) /\ Len(finds(list)) = 0
      BY <3>1
    <3> HIDE DEF finds
    <3> QED BY <3>2, EmptySeq
  <2>3. ASSUME finds(list) = <<>> PROVE Findings(list) = {}
    BY <2>1, <2>3
  <2> QED BY <2>1, <2>2, <2>3
<1>2. CASE doc.kind = "list"
  <2>1. Items(doc) = finds(doc.list) /\ doc.list \in ListsOf(doc)
    BY <1>2 DEF Items, ListsOf
  <2> QED BY <1>1, <2>1
<1>3. CASE doc.kind = "object"
  <2> DEFINE I   == {i \in 1 .. Len(ListKeys) : ListKeys[i] \in DOMAIN doc.lists}
             key == SelectInSeq(ListKeys, LAMBDA k : doc.kind = "object" /\ k \in DOMAIN doc.lists)
  <2>1. key = IF I # {} THEN Min(I) ELSE 0
    BY <1>3 DEF SelectInSeq
  <2>2. Items(doc) = finds(IF key # 0 THEN doc.lists[ListKeys[key]] ELSE <<>>)
    BY <1>3 DEF Items
  <2>3. ListsOf(doc) = {doc.lists[k] : k \in DOMAIN doc.lists}
    BY <1>3 DEF ListsOf, Range
  <2>4. Len(ListKeys) = 4 /\ Range(ListKeys) = {ListKeys[i] : i \in 1 .. 4}
    BY DEF ListKeys, Range
  <2>5. CASE I = {}
    <3>1. DOMAIN doc.lists = {}
      BY <1>3, <2>4, <2>5 DEF IsDocument
    <3>2. Items(doc) = finds(<<>>) /\ ListsOf(doc) = {}
      BY <2>1, <2>2, <2>3, <2>5, <3>1
    <3>3. Findings(<<>>) = {}
      BY DEF Findings
    <3>4. DOMAIN Items(doc) = {} /\ Items(doc) = <<>>
      <4> HIDE DEF finds
      <4> QED BY <1>1, <3>2, <3>3
    <3> QED BY <3>2, <3>4
  <2>6. CASE I # {}
    <3>1. I \in SUBSET Nat
      BY <2>4
    <3>2. Min(I) \in I
      <4> HIDE DEF I
      <4> QED BY <2>6, <3>1, LeastExists
    <3>3. key \in I /\ key # 0
      BY <2>1, <2>4, <2>6, <3>2
    <3>4. Items(doc) = finds(doc.lists[ListKeys[key]]) /\ doc.lists[ListKeys[key]] \in ListsOf(doc)
      BY <2>2, <2>3, <3>3
    <3> HIDE DEF finds, key, I
    <3> QED BY <1>1, <3>4
  <2> QED BY <2>5, <2>6
<1>4. CASE doc.kind = "none"
  <2>1. Items(doc) = finds(<<>>) /\ ListsOf(doc) = {}
    BY <1>4 DEF Items, ListsOf
  <2>2. Findings(<<>>) = {}
    BY DEF Findings
  <2> HIDE DEF finds
  <2> QED BY <1>1, <2>1, <2>2
<1> QED BY <1>2, <1>3, <1>4 DEF IsDocument

(* What is read of a document is shown.                                      *)
LEMMA ReadShown ==
  ASSUME NEW doc, IsDocument(doc), NEW iocs, iocs = Normalized(Items(doc))
  PROVE  /\ \A list \in ListsOf(doc) : ListsOf(doc) = {list} => Shows(iocs, list)
         /\ DOMAIN iocs # {} => \E list \in ListsOf(doc) : Shows(iocs, list)
<1>1. /\ DOMAIN iocs = DOMAIN Items(doc)
      /\ \A i \in DOMAIN iocs :
            /\ Rank(iocs[i].sev) = Rank(Items(doc)[i].sev)
            /\ Items(doc)[i].type # "absent" => iocs[i].type = Items(doc)[i].type
  BY NormalizedKeeps
<1>2. CASE ListsOf(doc) = {} /\ DOMAIN Items(doc) = {}
  BY <1>1, <1>2
<1>3. ASSUME NEW list \in ListsOf(doc), DOMAIN Items(doc) = Findings(list),
             \A i \in Findings(list) : Items(doc)[i] = list[i]
      PROVE  Shows(iocs, list)
  BY <1>1, <1>3 DEF Shows
<1>4. CASE \E list \in ListsOf(doc) : Shows(iocs, list)
  BY <1>4
<1> QED BY <1>2, <1>3, <1>4, ItemsRead

(* No finding is lost, and severity and techniques follow from them.         *)
LEMMA AllFindingsShown ==
  ASSUME NEW lang \in Langs, NEW embedded, IsDocument(embedded), NEW file, IsDocument(file)
  PROVE  LET iocs == Iocs(lang, TRUE, embedded, file)
         IN  FindingsShown(lang, embedded, file, iocs, Mitre(lang, iocs), SessionSeverity(iocs))
<1> DEFINE own    == lang = "py" /\ \E list \in ListsOf(embedded) : Findings(list) # {}
           source == IF lang = "py" /\ Items(embedded) # <<>> THEN embedded ELSE file
           iocs   == Iocs(lang, TRUE, embedded, file)
           calls(types) == \E i \in DOMAIN iocs : iocs[i].type \in types
           read   == ListsOf(IF own THEN embedded ELSE file)
<1>1. iocs = Normalized(Items(source)) /\ IsDocument(source)
  BY DEF Iocs
<1>2. lang = "py" /\ Items(embedded) # <<>> => own
  BY ItemsRead
<1>3. own /\ Items(embedded) = <<>> => \A list \in ListsOf(embedded) : ListsOf(embedded) # {list}
  <2> SUFFICES ASSUME own, Items(embedded) = <<>>, NEW list \in ListsOf(embedded),
                      ListsOf(embedded) = {list}
               PROVE  FALSE
    OBVIOUS
  <2> QED BY ItemsRead
<1> HIDE DEF iocs
<1>4. /\ \A list \in ListsOf(source) : ListsOf(source) = {list} => Shows(iocs, list)
      /\ DOMAIN iocs # {} => \E list \in ListsOf(source) : Shows(iocs, list)
  <2> HIDE DEF source
  <2> QED BY <1>1, ReadShown
<1>5. \A list \in read : read = {list} => Shows(iocs, list)
  <2>1. CASE lang = "py" /\ Items(embedded) # <<>>
    <3>1. own /\ source = embedded
      BY <1>2, <2>1
    <3> HIDE DEF own, source
    <3> QED BY <1>4, <3>1
  <2>2. CASE ~(lang = "py" /\ Items(embedded) # <<>>)
    <3>1. source = file /\ (own => Items(embedded) = <<>>)
      BY <2>2
    <3> HIDE DEF own, source
    <3> QED BY <1>3, <1>4, <3>1
  <2> QED BY <2>1, <2>2
<1>6. DOMAIN iocs # {} =>
         \E list \in ListsOf(file) \cup (IF lang = "py" THEN ListsOf(embedded) ELSE {}) : Shows(iocs, list)
  BY <1>4
<1>7. Rank(SessionSeverity(iocs)) = Max({1} \cup {Rank(iocs[i].sev) : i \in DOMAIN iocs})
  <2>1. \A i \in DOMAIN iocs : iocs[i].sev \in {"low", "med", "high"}
    <3> HIDE DEF source
    <3> QED BY <1>1, NormalizedKeeps
  <2> QED BY <2>1, WorstShown
<1>8. \A types \in SUBSET {"url", "domain", "ip", "path", "key", "wallet"} :
         Types(iocs) \cap types # {} <=> calls(types)
  BY DEF Types
<1>9. "T1041" \in Mitre(lang, iocs) <=> Types(iocs) \cap {"url", "domain", "ip"} # {}
  BY DEF Mitre, Langs
<1>10. "T1547.001" \in Mitre(lang, iocs) <=> Types(iocs) \cap {"path"} # {}
  BY DEF Mitre, Langs
<1>11. "T1552.001" \in Mitre(lang, iocs) <=> Types(iocs) \cap {"key", "wallet"} # {}
  BY DEF Mitre, Langs
<1>12. /\ "T1041" \in Mitre(lang, iocs) <=> calls({"url", "domain", "ip"})
       /\ "T1547.001" \in Mitre(lang, iocs) <=> calls({"path"})
       /\ "T1552.001" \in Mitre(lang, iocs) <=> calls({"key", "wallet"})
  <2> HIDE DEF calls
  <2> QED BY <1>8, <1>9, <1>10, <1>11
<1> QED BY <1>5, <1>6, <1>7, <1>12 DEF FindingsShown, iocs

-----------------------------------------------------------------------------
(* The specification *)

Problems ==
    UploadProblems \cup EditProblems \cup CodeProblems \cup PlaceProblems \cup CardProblems
        \cup FindingsProblems

(* What answers a problem *)
Solves(a, p) ==
    \/ p.kind = "upload" /\ a = [kind |-> "lang", lang |-> DetectLang(p.hint, p.ext, p.blob)]
    \/ p.kind = "edit" /\ a = [kind |-> "lines", lines |-> UpdateToml(p.lines, p.updates)]
    \/ p.kind = "code" /\ \E shown \in Clean(p.lang, p.dir) : a = [kind |-> "shown", shown |-> shown]
    \/ p.kind = "place" /\ a = [kind |-> "found", place |-> ResultPlace(p.place)]
    \/ p.kind = "cards" /\ a = [kind |-> "ids", ids |-> CardIds(p.ids)]
    \/ p.kind = "findings" /\
          LET iocs == Iocs(p.lang, p.autoIoc, p.embedded, p.file)
          IN  a = [kind |-> "iocs", iocs |-> iocs, mitre |-> Mitre(p.lang, iocs),
                   sev |-> SessionSeverity(iocs)]

AnswerInv == problem \in Problems /\ (answer = Open \/ Solves(answer, problem))

(* The only step of a problem answers it.                                    *)
LEMMA StepAnswers == AnswerInv /\ [Next]_vars => AnswerInv'
<1> SUFFICES ASSUME AnswerInv, [Next]_vars PROVE AnswerInv'
  OBVIOUS
<1> USE DEF AnswerInv
<1>1. CASE UNCHANGED vars
  BY <1>1 DEF vars, Solves
<1>2. ASSUME NEW kind, NEW solution, Solve(kind, solution)
      PROVE  UNCHANGED problem /\ answer' = solution /\ problem.kind = kind
  BY <1>2 DEF Solve
<1>3. CASE Detect
  BY <1>2, <1>3 DEF Detect, Solves, Solve
<1>4. CASE Edit
  BY <1>4 DEF Edit, Solves, Solve
<1>5. CASE ShowCode
  BY <1>5 DEF ShowCode, Solves, Solve
<1>6. CASE FindReport
  BY <1>6 DEF FindReport, Solves, Solve
<1>7. CASE ShowCards
  BY <1>7 DEF ShowCards, Solves, Solve
<1>8. CASE ShowFindings
  BY <1>8 DEF ShowFindings, Solves, Solve
<1> QED BY <1>1, <1>3, <1>4, <1>5, <1>6, <1>7, <1>8 DEF Next

(* A problem stays as it was posed, and only its answer is stored.           *)
LEMMA AnswersHold == Spec => []AnswerInv
<1>1. Init => AnswerInv
  BY DEF Init, AnswerInv, Problems
<1> QED BY <1>1, StepAnswers, PTL DEF Spec

(* The kind of a problem says what it holds.                                 *)
LEMMA ProblemTypes ==
  ASSUME problem \in Problems
  PROVE  /\ problem.kind = "upload" => problem \in UploadProblems
         /\ problem.kind = "edit" => problem \in EditProblems
         /\ problem.kind = "code" => problem \in CodeProblems
         /\ problem.kind = "place" => problem \in PlaceProblems
         /\ problem.kind = "cards" => problem \in CardProblems
         /\ problem.kind = "findings" => problem \in FindingsProblems
<1>1. /\ \A p \in UploadProblems : p.kind = "upload"
      /\ \A p \in EditProblems : p.kind = "edit"
      /\ \A p \in CodeProblems : p.kind = "code"
      /\ \A p \in PlaceProblems : p.kind = "place"
      /\ \A p \in CardProblems : p.kind = "cards"
      /\ \A p \in FindingsProblems : p.kind = "findings"
  BY DEF UploadProblems, EditProblems, CodeProblems, PlaceProblems, CardProblems, FindingsProblems
<1> QED BY <1>1 DEF Problems

(* What answers a problem is known by its kind.                              *)
LEMMA AnswerKinds ==
  ASSUME AnswerInv
  PROVE  /\ answer.kind = "lang" =>
              problem.kind = "upload" /\ answer.lang = DetectLang(problem.hint, problem.ext, problem.blob)
         /\ answer.kind = "lines" => problem.kind = "edit" /\ answer.lines = UpdateToml(problem.lines, problem.updates)
         /\ answer.kind = "shown" => problem.kind = "code" /\ answer.shown \in Clean(problem.lang, problem.dir)
         /\ answer.kind = "found" => problem.kind = "place" /\ answer.place = ResultPlace(problem.place)
         /\ answer.kind = "ids" => problem.kind = "cards" /\ answer.ids = CardIds(problem.ids)
         /\ answer.kind = "iocs" =>
              /\ problem.kind = "findings"
              /\ answer.iocs = Iocs(problem.lang, problem.autoIoc, problem.embedded, problem.file)
              /\ answer.mitre = Mitre(problem.lang, answer.iocs)
              /\ answer.sev = SessionSeverity(answer.iocs)
  BY DEF AnswerInv, Solves, Open

(* DetectionRouted (detect_lang in main.py): for any number of bytes looked  *)
(* at and uploads of any length, the engine is the one that hint, extension  *)
(* or content call for.                                                      *)
THEOREM DetectionHolds == Spec => []DetectionRouted
<1>1. ASSUME AnswerInv PROVE DetectionRouted
  <2> SUFFICES ASSUME answer.kind = "lang"
               PROVE  Routed(problem.hint, problem.ext, problem.blob, answer.lang)
    BY DEF DetectionRouted
  <2>1. problem \in UploadProblems /\ answer.lang = DetectLang(problem.hint, problem.ext, problem.blob)
    BY <1>1, AnswerKinds, ProblemTypes DEF AnswerInv
  <2>2. problem.hint \in Hints /\ problem.ext \in Extensions /\ problem.blob \in Uploads /\ Possible(problem.blob)
    BY <2>1 DEF UploadProblems
  <2> QED BY <2>1, <2>2, DetectRouted
<1> QED BY <1>1, AnswersHold, PTL

(* EditReadsBack (_update_toml_file in llm_config.py): for any file of TOML  *)
(* lines that Flat describes and any updates, what was written reads back    *)
(* and the rest of the file reads as before.                                 *)
THEOREM EditsHold == Spec => []EditReadsBack
<1>1. ASSUME AnswerInv PROVE EditReadsBack
  <2> SUFFICES ASSUME answer.kind = "lines", Flat(problem.lines, problem.updates)
               PROVE  ReadsBack(problem.lines, problem.updates, answer.lines)
    BY DEF EditReadsBack
  <2>1. problem \in EditProblems /\ answer.lines = UpdateToml(problem.lines, problem.updates)
    BY <1>1, AnswerKinds, ProblemTypes DEF AnswerInv
  <2>2. problem.lines \in BoundedSeq(SampleLines, MaxLines) /\ problem.updates \in Edits
    BY <2>1 DEF EditProblems
  <2>3. problem.lines \in Seq(TomlLines)
    <3>1. PICK n \in 0 .. MaxLines : problem.lines \in [1 .. n -> SampleLines]
      BY <2>2 DEF BoundedSeq, SeqOf
    <3>2. problem.lines \in [1 .. n -> TomlLines]
      BY <3>1, SamplesAssumption
    <3> QED BY <3>2
  <2>4. IsUpdate(problem.updates)
    BY <2>2, SamplesAssumption
  <2> QED BY <2>1, <2>3, <2>4, EditorReadsBack
<1> QED BY <1>1, AnswersHold, PTL

(* ReportShown (runner.py): for any layers in a directory of finitely many   *)
(* files, any numbering of cards and any findings.                           *)
THEOREM ReportsHold == Spec => []ReportShown
<1>1. ASSUME AnswerInv PROVE ReportShown
  <2>1. ASSUME answer.kind = "shown" PROVE CodeShown(problem.lang, problem.dir, answer.shown)
    <3>1. problem \in CodeProblems /\ answer.shown \in Clean(problem.lang, problem.dir)
      BY <1>1, <2>1, AnswerKinds, ProblemTypes DEF AnswerInv
    <3>2. problem.lang \in Langs /\ problem.dir \in Directories
      BY <3>1 DEF CodeProblems
    <3>3. CASE problem.lang = "js"
      BY <3>1, <3>2, <3>3, JsCodeShown DEF Clean
    <3>4. CASE problem.lang = "py"
      BY <3>1, <3>2, <3>4, PyCodeShown DEF Clean
    <3> QED BY <3>2, <3>3, <3>4 DEF Langs
  <2>2. ASSUME answer.kind = "found" PROVE ReportFound(problem.place, answer.place)
    <3>1. problem \in PlaceProblems /\ answer.place = ResultPlace(problem.place)
      BY <1>1, <2>2, AnswerKinds, ProblemTypes DEF AnswerInv
    <3> QED BY <3>1, PlaceFound DEF PlaceProblems
  <2>3. ASSUME answer.kind = "ids" PROVE CardsDistinct(problem.ids, answer.ids)
    <3>1. problem \in CardProblems /\ answer.ids = CardIds(problem.ids)
      BY <1>1, <2>3, AnswerKinds, ProblemTypes DEF AnswerInv
    <3> QED BY <3>1, CardsApart DEF CardProblems
  <2>4. ASSUME answer.kind = "iocs", problem.autoIoc
        PROVE  FindingsShown(problem.lang, problem.embedded, problem.file,
                             answer.iocs, answer.mitre, answer.sev)
    <3>1. problem \in FindingsProblems
      BY <1>1, <2>4, AnswerKinds, ProblemTypes DEF AnswerInv
    <3>2. problem.lang \in Langs /\ problem.autoIoc = TRUE
      BY <2>4, <3>1 DEF FindingsProblems
    <3>3. /\ answer.iocs = Iocs(problem.lang, TRUE, problem.embedded, problem.file)
          /\ answer.mitre = Mitre(problem.lang, answer.iocs)
          /\ answer.sev = SessionSeverity(answer.iocs)
      BY <1>1, <2>4, <3>2, AnswerKinds
    <3>4. IsDocument(problem.embedded) /\ IsDocument(problem.file)
      <4>1. \A keys \in kSubset(2, Range(ListKeys)) : keys \subseteq Range(ListKeys)
        BY DEF kSubset
      <4>2. ASSUME NEW doc \in Documents PROVE IsDocument(doc)
        <5>1. CASE doc = [kind |-> "none"]
          BY <5>1 DEF IsDocument
        <5>2. CASE doc \in [kind: {"list"}, list: Lists]
          BY <5>2 DEF IsDocument
        <5>3. ASSUME NEW keys \in SUBSET Range(ListKeys), NEW S,
                     doc.kind = "object", doc.lists \in [keys -> S]
              PROVE  IsDocument(doc)
          BY <5>3 DEF IsDocument
        <5>4. CASE doc \in [kind: {"object"}, lists: UNION {[{key} -> Lists] : key \in Range(ListKeys)}]
          <6>1. PICK key \in Range(ListKeys) : doc.lists \in [{key} -> Lists]
            BY <5>4
          <6> QED BY <5>3, <5>4, <6>1
        <5>5. CASE doc \in [kind: {"object"}, lists: UNION {[keys -> BoundedSeq(SampleItems, 1)] :
                                                               keys \in kSubset(2, Range(ListKeys))}]
          <6>1. PICK keys \in kSubset(2, Range(ListKeys)) : doc.lists \in [keys -> BoundedSeq(SampleItems, 1)]
            BY <5>5
          <6> QED BY <4>1, <5>3, <5>5, <6>1
        <5> QED BY <5>1, <5>2, <5>4, <5>5 DEF Documents
      <4> QED BY <3>1, <4>2 DEF FindingsProblems
    <3> QED BY <3>2, <3>3, <3>4, AllFindingsShown
  <2> QED BY <2>1, <2>2, <2>3, <2>4 DEF ReportShown
<1> QED BY <1>1, AnswersHold, PTL

=============================================================================
