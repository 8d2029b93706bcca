---------------------------- MODULE StreamParser ----------------------------
(***************************************************************************)
(* StreamingFieldExtractor (teaching_agent/stream_parser.py): cuts the     *)
(* markdown a model streams into sections, at its **Header** marks, while  *)
(* it arrives in chunks that may split a mark anywhere.                    *)
(*                                                                         *)
(* A character is one of a few classes, and a field is named by one        *)
(* letter: "e" stands for the streamed fields (explanation, notes,         *)
(* example), "d" for the diagram, which is kept back; "x" is any other     *)
(* character of a word, "nl" a newline.  It carries its place in the text, *)
(* which no step looks at: by the places the properties tell one "x" from  *)
(* another.                                                                *)
(***************************************************************************)
EXTENDS Integers, SequencesExt

CONSTANTS
  Texts,      \* what the model may write, each a sequence of Char
  MaxChunk    \* bound: the length of a chunk

Word       == {"e", "d", "x"}     \* \w
White      == {" ", "nl"}         \* \s
Char       == Word \cup White \cup {"*"}
Streamable == {"e"}               \* _STREAMABLE_FIELDS
Fields     == {"e", "d"}          \* _ALL_FIELDS

ASSUME ParserAssumption == Texts \subseteq Seq(Char) /\ MaxChunk \in Nat \ {0}

Placed == [char : Char, at : Nat]
Place(t) == [i \in 1..Len(t) |-> [char |-> t[i], at |-> i]]

VARIABLES
  text, position,   \* the model's text, and how much of it has been fed
  scanning,         \* inside the loop of feed()
  finished,         \* finalize() has returned
  chunk,            \* _chunk_buffer
  field,            \* _current_field, or "none"
  buffer,           \* _diagram_buffer
  final,            \* _final_diagram; empty for None
  progressed,       \* _fields_with_progress
  out               \* the events sent, one for each character

parserVars == <<text, position, scanning, finished, chunk, field, buffer, final, progressed, out>>

\* What the callback is given: a field and a character, or the name of a field.
Event == [field : Streamable \cup {"_progress"}, char : Char, at : Nat]

ParserTypeOK ==
  /\ text \in Seq(Placed) /\ position \in 0..Len(text)
  /\ scanning \in BOOLEAN /\ finished \in BOOLEAN
  /\ {chunk, buffer, final} \subseteq Seq(Placed)
  /\ field \in Fields \cup {"none"} /\ progressed \subseteq Fields
  /\ out \in Seq(Event)

Solid(c)     == c.char \notin White
Blank(s)     == \A i \in 1..Len(s) : ~Solid(s[i])
Stripped(s)  == LET full == {i \in 1..Len(s) : Solid(s[i])}
                IN  IF full = {} THEN <<>> ELSE SubSeq(s, Min(full), Max(full))
Rest(s, i)   == SubSeq(s, i, Len(s))

\* _SECTION_HEADER_RE matches s from i to j.
IsHeader(s, i, j) ==
  /\ j \in 1..Len(s) /\ i + 4 <= j
  /\ \A k \in {i, i + 1, j - 1, j} : s[k].char = "*"
  /\ \A k \in i + 2..j - 2 : s[k].char \in Word
HeadersOf(s) == LET opens == {i \in 1..Len(s) : i + 4 <= Len(s) /\ s[i].char = "*"}
                IN  {ij \in opens \X (1..Len(s)) : IsHeader(s, ij[1], ij[2])}
FirstHeader(s) == CHOOSE ij \in HeadersOf(s) : \A other \in HeadersOf(s) : ij[1] <= other[1]

\* The field a header names; any word that is no field is "none".
Name(s, i, j) == IF j = i + 4 /\ s[i + 2].char \in Fields THEN s[i + 2].char ELSE "none"

\* _PARTIAL_HEADER_TAIL_RE matches the whole of s, but for a newline at its end,
\* which $ allows.
IsTail(s) ==
  \E stars \in 1..2, last \in 0..1, end \in 1..Len(s) :
    /\ stars + last <= end
    /\ \A k \in 1..end : IF k <= stars \/ k > end - last THEN s[k].char = "*"
                                                          ELSE s[k].char \in Word
    /\ \A k \in end + 1..Len(s) : k = Len(s) /\ s[k].char = "nl"

\* Mutant: everything is held back from the first star on.
FirstStar(s) == Min({i \in 1..Len(s) : s[i].char = "*"} \cup {Len(s) + 1})

\* _split_at_possible_partial_header: where what is held back begins.
TailStart(s) == Min({i \in 1..Len(s) : IsTail(Rest(s, i))} \cup {Len(s) + 1})

Tokens(s) == [k \in 1..Len(s) |-> [field |-> field, char |-> s[k].char, at |-> s[k].at]]

ParserInit ==
  /\ text \in {Place(t) : t \in Texts} /\ position = 0
  /\ scanning = FALSE /\ finished = FALSE
  /\ chunk = <<>> /\ field = "none" /\ buffer = <<>> /\ final = <<>>
  /\ progressed = {} /\ out = <<>>

\* A chunk arrives.
Feed ==
  /\ ~scanning /\ ~finished
  /\ \E n \in 1..MaxChunk :
       /\ position + n <= Len(text)
       /\ position' = position + n
       /\ chunk' = chunk \o SubSeq(text, position + 1, position + n)
  /\ scanning' = TRUE
  /\ UNCHANGED <<text, finished, field, buffer, final, progressed, out>>

\* One turn of the loop: the first header ends what came before it.
NextHeader ==
  /\ scanning /\ HeadersOf(chunk) /= {}
  /\ LET at     == FirstHeader(chunk)
         before == SubSeq(chunk, 1, at[1] - 1)
         name   == Name(chunk, at[1], at[2])
         kept   == IF field = "d" /\ ~Blank(before) THEN buffer \o before ELSE buffer
         ends   == field = "d" /\ ~Blank(kept)
         sent   == IF field \in Streamable /\ ~Blank(before) THEN Tokens(before) ELSE <<>>
         news   == IF name \in Fields \ progressed
                     THEN <<[field |-> "_progress", char |-> name, at |-> chunk[at[1]].at]>>
                     ELSE <<>>
     IN  /\ chunk' = Rest(chunk, at[2] + 1)
         /\ final' = IF ends THEN Stripped(kept) ELSE final
         /\ buffer' = IF ends THEN <<>> ELSE kept
         /\ out' = out \o sent \o news
         /\ progressed' = progressed \cup ({name} \cap Fields)
         /\ field' = IF name \in Fields THEN name ELSE field
  /\ UNCHANGED <<text, position, scanning, finished>>

\* Mutant: only stars are held back, not the beginning of a name.
FlushTooMuch ==
  /\ scanning /\ HeadersOf(chunk) = {}
  /\ LET start == Min({i \in 1..Len(chunk) : \A k \in i..Len(chunk) : chunk[k].char = "*"}
                        \cup {Len(chunk) + 1})
         safe  == SubSeq(chunk, 1, start - 1)
     IN  /\ chunk' = Rest(chunk, start)
         /\ out' = IF field \in Streamable THEN out \o Tokens(safe) ELSE out
         /\ buffer' = IF field = "d" THEN buffer \o safe ELSE buffer
  /\ scanning' = FALSE
  /\ UNCHANGED <<text, position, finished, field, final, progressed>>

\* The last turn of the loop: what cannot become a header is let go.
Flush ==
  /\ scanning /\ HeadersOf(chunk) = {}
  /\ LET start == TailStart(chunk)
         safe  == SubSeq(chunk, 1, start - 1)
     IN  /\ chunk' = Rest(chunk, start)
         /\ out' = IF field \in Streamable THEN out \o Tokens(safe) ELSE out
         /\ buffer' = IF field = "d" THEN buffer \o safe ELSE buffer
  /\ scanning' = FALSE
  /\ UNCHANGED <<text, position, finished, field, final, progressed>>

Finalize ==
  /\ ~scanning /\ ~finished /\ position = Len(text)
  /\ finished' = TRUE /\ chunk' = <<>>
  /\ out' = IF field \in Streamable /\ ~Blank(chunk) THEN out \o Tokens(chunk) ELSE out
  /\ LET kept == IF field = "d" /\ ~Blank(chunk) THEN buffer \o chunk ELSE buffer
     IN  /\ final' = IF ~Blank(kept) THEN Stripped(kept) ELSE final
         /\ buffer' = IF ~Blank(kept) THEN <<>> ELSE kept
  /\ UNCHANGED <<text, position, scanning, field, progressed>>

ParserNext == Feed \/ NextHeader \/ Flush \/ Finalize
ParserSpec == ParserInit /\ [][ParserNext]_parserVars
-----------------------------------------------------------------------------
(* What the text says, read at once.  Every bold word is a header for the  *)
(* code, also one that names no field.                                     *)

\* The headers that count: all that do not begin inside one that counts.
IsReading(marks, headers) ==
  \A h \in headers : h \in marks <=> ~\E m \in marks : m[1] < h[1] /\ h[1] <= m[2]
Marks(s) == LET headers == HeadersOf(s)
            IN  CHOOSE marks \in SUBSET headers : IsReading(marks, headers)

FieldOf(s, m)        == Name(s, m[1], m[2])
FieldMarks(s, marks) == {m \in marks : FieldOf(s, m) \in Fields}

\* Place p is in the section of f: the last field header before it names f.
InSection(s, marks, p, f) ==
  \E m \in FieldMarks(s, marks) :
    /\ m[2] < p /\ FieldOf(s, m) = f
    /\ \A n \in FieldMarks(s, marks) : n[2] < p => n[2] <= m[2]
Inside(p, marks) == \E m \in marks : m[1] <= p /\ p <= m[2]

\* The places of the text of f, and the headers that announce a field.
PlacesOf(s, marks, f) ==
  {p \in 1..Len(s) : Solid(s[p]) /\ ~Inside(p, marks) /\ InSection(s, marks, p, f)}
Announcing(s, marks) ==
  {m \in FieldMarks(s, marks) :
     \A n \in FieldMarks(s, marks) : FieldOf(s, n) = FieldOf(s, m) => m[1] <= n[1]}

\* The events that carry what s says.
Token(s, f, p)  == [field |-> f, char |-> s[p].char, at |-> p]
Progress(s, m)  == [field |-> "_progress", char |-> FieldOf(s, m), at |-> m[1]]
AllSaid(s, marks) ==
  {Progress(s, m) : m \in Announcing(s, marks)}
    \cup UNION {{Token(s, f, p) : p \in PlacesOf(s, marks, f)} : f \in Streamable}

\* The diagram of s: the diagram text no mark separates from the last of it.
LastStretch(marks, places) ==
  {p \in places : ~\E m \in marks, q \in places : p < m[1] /\ m[2] < q}
Drawn(s, marks) == LastStretch(marks, PlacesOf(s, marks, "d"))

InOrder(q) == \A a, b \in 1..Len(q) : a < b => q[a].at < q[b].at
Ink(q)     == {c \in {q[i] : i \in 1..Len(q)} : Solid(c)}
Heard      == Ink(out)

\* However the text is cut into chunks (stream_parser.py:35-74), the listener hears
\* what the whole of it says, each section's characters in their order and each
\* field announced once, before them, up to blanks; and the diagram is the last
\* stretch of diagram text.
ChunksDoNotMatter ==
  finished => LET marks == Marks(text)
              IN  /\ Heard = AllSaid(text, marks) /\ InOrder(out)
                  /\ Ink(final) = {text[p] : p \in Drawn(text, marks)} /\ InOrder(final)

\* What is held back is never more than a header could need, and all that the text
\* says before it has been heard (stream_parser.py:95-104).
LagIsOneHeader ==
  ~scanning /\ ~finished =>
     /\ chunk /= <<>> => IsTail(chunk)
     /\ Heard = {e \in AllSaid(text, Marks(text)) : e.at <= position - Len(chunk)}
=============================================================================
