------------------------------ MODULE Detection ------------------------------
(***************************************************************************)
(* detect_lang and its sniffers (main.py): which engine an upload goes to. *)
(*                                                                         *)
(* An upload is cut to what the code asks of it.  Its text is the widths   *)
(* in bytes of its characters, followed by what else is in it; names are   *)
(* classes of extensions; markers are counted in the head, up to two.      *)
(***************************************************************************)
EXTENDS Naturals, Sequences, SequencesExt

CONSTANTS
    HeadBytes,     \* bytes looked at for text and markers: 8192
    MaxChars       \* bound: characters of an upload

ASSUME DetectionAssumption == HeadBytes \in Nat \ {0} /\ MaxChars \in Nat

Hints == {"js", "py", "none"}

(* Extensions: Python's, those of JavaScript but .js, executables, the rest. *)
Extensions == {"python", "javascript", "executable", "other"}

(* widths: of the characters, in order; the others say what stands in it:    *)
(* junk: a NUL or an invalid byte in the head; cookie: of PyInstaller,       *)
(* anywhere; packer: Nuitka or py2exe in the first two million bytes; crlf:  *)
(* "\r\n" at bytes 2 and 3; py, js: markers in the head.                     *)
Uploads == [widths: BoundedSeq(1 .. 4, MaxChars), junk: BOOLEAN, cookie: BOOLEAN,
            packer: BOOLEAN, crlf: BOOLEAN, py: 0 .. 2, js: 0 .. 2]

(* Bytes of the first n characters *)
SizeOf(blob, n) == FoldLeft(LAMBDA size, w : size + w, 0, SubSeq(blob.widths, 1, n))

Size(blob) == SizeOf(blob, Len(blob.widths))

(* Uploads that exist: what is said of an upload needs room in it.           *)
Possible(blob) ==
    /\ blob.crlf => \E n \in 0 .. Len(blob.widths) - 2 :
          SizeOf(blob, n) = 2 /\ blob.widths[n + 1] = 1 /\ blob.widths[n + 2] = 1
    /\ blob.junk \/ blob.cookie \/ blob.packer \/ blob.py > 0 \/ blob.js > 0 => Size(blob) > 0

(* The head ends inside a character: strict decoding of it fails.            *)
CutsCharacter(blob) ==
    /\ Size(blob) > HeadBytes
    /\ \A n \in 0 .. Len(blob.widths) : SizeOf(blob, n) # HeadBytes

(* _looks_binary *)
LooksBinary(blob) == Size(blob) > 0 /\ (blob.junk \/ CutsCharacter(blob))

(* Mutant: any "\r\n" at bytes 2 and 3 is bytecode. *)
AnyCrlf(blob) == blob.crlf

(* The magic of a .pyc, on content that is binary *)
Bytecode(blob) == blob.crlf /\ LooksBinary(blob)

(* _sniff_binary_lang *)
SniffBinary(blob) ==
    IF Size(blob) > 0 /\ (blob.cookie \/ blob.packer \/ Bytecode(blob)) THEN "py" ELSE "none"

(* _sniff_lang *)
SniffMarkers(blob) ==
    IF blob.py >= 2 /\ blob.js = 0 THEN "py"
    ELSE IF blob.js >= 2 /\ blob.py = 0 THEN "js"
    ELSE "none"

(* What an extension says by itself, before and after the content was read.  *)
Unambiguous == [python |-> "py", javascript |-> "js", executable |-> "none", other |-> "none"]
Fallback    == [python |-> "py", javascript |-> "js", executable |-> "py", other |-> "js"]

(* detect_lang: the first of these that says something *)
DetectLang(hint, ext, blob) ==
    LET opinions == <<hint, Unambiguous[ext], SniffBinary(blob), SniffMarkers(blob), Fallback[ext]>>
    IN  opinions[SelectInSeq(opinions, LAMBDA o : o # "none")]

-----------------------------------------------------------------------------
(* What the comments of the code say of it, for uploads that no hint and no  *)
(* unambiguous extension decides.                                            *)

Text(blob) == ~blob.junk

(* A text that has JavaScript's markers only is not sent to the Python       *)
(* engine, whatever line ends it starts with, ...                            *)
TextStaysText(blob, lang) ==
    Text(blob) /\ ~CutsCharacter(blob) /\ ~blob.cookie /\ ~blob.packer
        /\ blob.js >= 2 /\ blob.py = 0 => lang = "js"

(* ... a Python sample goes there under any name, ...                        *)
PythonFound(blob, lang) ==
    blob.cookie \/ blob.packer \/ (blob.crlf /\ ~Text(blob)) \/ (blob.py >= 2 /\ blob.js = 0)
        => lang = "py"

(* ... and so does an executable without a packer that is known, but not one *)
(* that has two of JavaScript's markers in its head.                         *)
ExecutableToPython(ext, blob, lang) ==
    ext = "executable" /\ (blob.js < 2 \/ blob.py > 0) => lang = "py"

Routed(hint, ext, blob, lang) ==
    /\ hint # "none" => lang = hint
    /\ hint = "none" /\ Unambiguous[ext] # "none" => lang = Unambiguous[ext]
    /\ hint = "none" /\ Unambiguous[ext] = "none" =>
          TextStaysText(blob, lang) /\ PythonFound(blob, lang) /\ ExecutableToPython(ext, blob, lang)

=============================================================================
