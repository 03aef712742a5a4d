----------------------------- MODULE TomlEditor -----------------------------
(***************************************************************************)
(* _update_toml_file (llm_config.py) edits llm_config.toml line by line;   *)
(* tomllib reads it.  Here both work on lines: what is in a line that the  *)
(* editor or a TOML parser asks for.  A value is a sequence of characters, *)
(* of which only the special ones have a name.                             *)
(***************************************************************************)
EXTENDS Naturals, Sequences, SequencesExt

CONSTANTS Keys, NoKey

ASSUME TomlAssumption == NoKey \notin Keys

(* Characters: " ' \ # and any other *)
Quote == "quote"
Tick  == "tick"
Slash == "slash"
Hash  == "hash"
Plain == "plain"
Chars == {Quote, Tick, Slash, Hash, Plain}

(* A line: the key it seems to assign (NoKey: none), what follows the = ,    *)
(* the triple delimiter in it (never both) and how often, and for a line     *)
(* that begins with a bracket which kind of header it is: a plain [section], *)
(* one with a comment after it, or a [[array]] header.                       *)
Line(key, raw, delim, count, head) ==
    [key |-> key, raw |-> raw, delim |-> delim, count |-> count, head |-> head]

Assign(key, raw)  == Line(key, raw, "none", 0, "none")
Fence(key, delim) == Line(key, <<>>, delim, 1, "none")
Header(head)      == Line(NoKey, <<>>, "none", 0, head)
Blank             == Header("none")
Comment           == Line(NoKey, <<Hash>>, "none", 0, "none")

TomlLines ==
    {Header(head) : head \in {"section", "noted", "array"}} \cup
    {line \in [key: Keys \cup {NoKey}, raw: Seq(Chars), delim: {"none", "basic", "literal"},
               count: Nat, head: {"none"}] : line.count > 0 => line.delim # "none"}

(* What to write: values for some of the keys                                *)
IsUpdate(u) == DOMAIN u \subseteq Keys /\ IsFiniteSet(DOMAIN u) /\ u \in [DOMAIN u -> Seq(Chars)]

-----------------------------------------------------------------------------
(* Writing *)

(* Escapes of a basic string *)
Escape(c) == IF c \in {Quote, Slash} THEN <<Slash, c>> ELSE <<c>>

Escaped(v) == FoldLeft(LAMBDA out, c : out \o Escape(c), <<>>, v)

(* _toml_value of a string *)
TomlValue(v) == <<Quote>> \o Escaped(v) \o <<Quote>>

(* _find_unquoted_hash: 0 for None *)
UnquotedHash(raw) ==
    LET step(s, i) ==
            IF s.at > 0 THEN s
            ELSE IF s.skip THEN [s EXCEPT !.skip = FALSE]
            ELSE IF s.quote # "none"
              THEN IF raw[i] = Slash THEN [s EXCEPT !.skip = TRUE]
                   ELSE IF raw[i] = s.quote THEN [s EXCEPT !.quote = "none"] ELSE s
            ELSE IF raw[i] \in {Quote, Tick} THEN [s EXCEPT !.quote = raw[i]]
            ELSE IF raw[i] = Hash THEN [s EXCEPT !.at = i] ELSE s
    IN  FoldLeftDomain(step, [at |-> 0, skip |-> FALSE, quote |-> "none"], raw).at

(* The trailing comment that a replaced line keeps *)
CommentOf(raw) ==
    IF UnquotedHash(raw) = 0 THEN <<>> ELSE SubSeq(raw, UnquotedHash(raw), Len(raw))

Replaced(line, v) == Assign(line.key, TomlValue(v) \o CommentOf(line.raw))

(* Mutant: any delimiter ends a text. *)
ToggledByAny(delim, line) ==
    IF line.count = 0 \/ line.count % 2 = 0 THEN delim
    ELSE IF delim = "none" THEN line.delim ELSE "none"

(* in_triple and triple_delim after a line: "none" is outside *)
Toggled(delim, line) ==
    IF line.count % 2 = 0 THEN delim
    ELSE IF delim = "none" THEN line.delim
    ELSE IF delim = line.delim THEN "none" ELSE delim

(* The loop of _update_toml_file.  insert: where the first plain header is   *)
(* in what was written, 0 for none yet; todo: remaining.                     *)
EditLine(u, s, line) ==
    LET delim == Toggled(s.delim, line)
        hit   == delim = "none" /\ line.key \in s.todo
    IN  [delim  |-> delim,
         insert |-> IF s.insert = 0 /\ delim = "none" /\ line.head = "section"
                      THEN Len(s.out) + 1 ELSE s.insert,
         todo   |-> IF hit THEN s.todo \ {line.key} ELSE s.todo,
         out    |-> Append(s.out, IF hit THEN Replaced(line, u[line.key]) ELSE line)]

(* The loop from before the first line to behind the last                    *)
EditStart(u) == [delim |-> "none", insert |-> 0, todo |-> DOMAIN u, out |-> <<>>]

EditLines(u, lines) == FoldLeft(LAMBDA s, line : EditLine(u, s, line), EditStart(u), lines)

(* A blank line between what is there and what is added *)
Spaced(lines) == IF lines # <<>> /\ Last(lines) # Blank THEN Append(lines, Blank) ELSE lines

(* new_lines: an assignment for each key that no line was found for          *)
NewLines(u, keys) == [i \in DOMAIN keys |-> Assign(keys[i], TomlValue(u[keys[i]]))]

(* _update_toml_file; u maps the keys to update to their values. *)
UpdateToml(lines, u) ==
    LET s   == EditLines(u, lines)
        new == NewLines(u, SetToSeq(s.todo))
    IN  IF DOMAIN u = {} THEN lines
        ELSE IF s.todo = {} THEN s.out
        ELSE IF s.insert = 0 THEN Spaced(s.out) \o new
        ELSE Spaced(SubSeq(s.out, 1, s.insert - 1)) \o new \o <<Blank>>
                 \o SubSeq(s.out, s.insert, Len(s.out))

-----------------------------------------------------------------------------
(* Reading, as TOML has it *)

(* Where the string that begins a value ends: only basic strings know \ .    *)
EndStep(raw, s, i) ==
    IF s.end > 0 \/ i = 1 THEN s
    ELSE IF s.skip THEN [s EXCEPT !.skip = FALSE]
    ELSE IF raw[1] = Quote /\ raw[i] = Slash THEN [s EXCEPT !.skip = TRUE]
    ELSE IF raw[i] = raw[1] THEN [s EXCEPT !.end = i] ELSE s

StringEnd(raw) ==
    FoldLeftDomain(LAMBDA s, i : EndStep(raw, s, i), [end |-> 0, skip |-> FALSE], raw).end

(* The characters that a basic string stands for *)
UnescapeStep(s, c) ==
    IF ~s.skip /\ c = Slash THEN [s EXCEPT !.skip = TRUE]
    ELSE [skip |-> FALSE, out |-> Append(s.out, c)]

Unescape(cs) == FoldLeft(UnescapeStep, [skip |-> FALSE, out |-> <<>>], cs).out

Absent == [kind |-> "absent", chars |-> <<>>, note |-> <<>>, text |-> <<>>]

(* A multi-line value, as the lines it stands on *)
TextValue(text) == [Absent EXCEPT !.kind = "text", !.text = text]

(* The value of an assignment and the comment behind it; a number ends where *)
(* the comment begins.                                                       *)
Value(raw) ==
    LET isString == raw[1] \in {Quote, Tick}
        hash     == SelectInSeq(raw, LAMBDA c : c = Hash)
        end      == IF isString THEN StringEnd(raw) ELSE IF hash = 0 THEN Len(raw) ELSE hash - 1
        inside   == SubSeq(raw, 2, end - 1)
    IN  [Absent EXCEPT
           !.kind  = "line",
           !.chars = IF ~isString THEN SubSeq(raw, 1, end)
                     ELSE IF raw[1] = Quote THEN Unescape(inside) ELSE inside,
           !.note  = SubSeq(raw, end + 1, Len(raw))]

(* top: values of the top-level keys; text: raw lines of the open multi-line *)
(* value of key; rest: all lines from the first header on, blank ones aside. *)
ReadLine(s, line) ==
    LET rest == IF s.rest = <<>> \/ line = Blank THEN s.rest ELSE Append(s.rest, line)
        into(key, v) ==
            IF s.rest # <<>> \/ key = NoKey THEN [s EXCEPT !.rest = rest]
            ELSE [s EXCEPT !.top[key] = v, !.bad = @ \/ s.top[key] # Absent]
    IN  CASE s.delim # "none" ->
               IF line.count > 0 /\ line.delim = s.delim
                 THEN [into(s.key, TextValue(Append(s.text, line))) EXCEPT
                            !.delim = "none", !.bad = @ \/ line.count > 1]
                 ELSE [s EXCEPT !.text = Append(@, line), !.rest = rest]
          [] s.delim = "none" /\ line.head # "none" ->
               [s EXCEPT !.rest = Append(@, line)]
          [] s.delim = "none" /\ line.head = "none" /\ line.count = 1 ->
               [s EXCEPT !.delim = line.delim, !.key = line.key, !.text = <<line>>,
                         !.rest = rest, !.bad = @ \/ line.key = NoKey]
          [] s.delim = "none" /\ line.head = "none" /\ line.count # 1 ->
               IF line.key = NoKey THEN s
               ELSE into(line.key, IF line.count > 0 THEN TextValue(<<line>>)
                                   ELSE Value(line.raw))

(* Reading lines from a state, and a file from its beginning                 *)
ReadStart ==
    [top |-> [k \in Keys |-> Absent], delim |-> "none", key |-> NoKey,
     text |-> <<>>, rest |-> <<>>, bad |-> FALSE]

ReadFrom(s, lines) == FoldLeft(ReadLine, s, lines)

ReadToml(lines) == ReadFrom(ReadStart, lines)

Valid(lines) == ~ReadToml(lines).bad /\ ReadToml(lines).delim = "none"

-----------------------------------------------------------------------------
(* What the editor promises, and of which files *)

(* A flat file is TOML.  No line of it has a third triple delimiter.  The    *)
(* keys to update are on lines of their own above all sections, each with a  *)
(* comment, if any, where the editor looks for it; and the first section, if *)
(* a key is to be added above it, has a header that the editor knows.        *)
Flat(lines, u) ==
    LET before == ReadToml(lines)
        named  == {i \in DOMAIN lines : lines[i].key \in DOMAIN u}
    IN  /\ Valid(lines)
        /\ \A i \in DOMAIN lines : lines[i].count <= 2
        /\ \A i \in named :
              lines[i].count = 0 /\ CommentOf(lines[i].raw) = Value(lines[i].raw).note
        /\ \A i \in DOMAIN before.rest : before.rest[i].key \notin DOMAIN u
        /\ (\E key \in DOMAIN u : before.top[key] = Absent) /\ before.rest # <<>> =>
              before.rest[1].head = "section"

(* The values that are updated read back as they were given, their comments, *)
(* every other key, the multi-line texts and the sections as they were.      *)
ReadsBack(lines, u, edited) ==
    LET before == ReadToml(lines)
        after  == ReadToml(edited)
    IN  /\ Valid(edited)
        /\ after.rest = before.rest
        /\ \A key \in Keys :
              after.top[key] = IF key \in DOMAIN u
                                 THEN [Absent EXCEPT !.kind = "line", !.chars = u[key], !.note = before.top[key].note]
                                 ELSE before.top[key]

=============================================================================
