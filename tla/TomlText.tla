------------------------------ MODULE TomlText ------------------------------
(***************************************************************************)
(* How a value becomes text and a line of text a value again:              *)
(* src/toml-codec.ts.  encodeTOML quotes a value; decodeTOML first takes   *)
(* comments off every line, character by character, and then undoes the    *)
(* quoting.  A text is a sequence of the characters that matter.           *)
(***************************************************************************)
EXTENDS Naturals, Sequences, SequencesExt

CONSTANT MaxText        \* bound on the length of a value

Quote == "quote"        \* "
Slash == "slash"        \* \
Tick == "tick"          \* '
Hash == "hash"          \* #
Other == "other"        \* any other but the end of a line
Chars == {Quote, Slash, Tick, Hash, Other}

VARIABLES
    value,      \* what was encoded
    line,       \* its text
    at,         \* the scanner's place in the line
    inDouble, inSingle, escaped,
    cut         \* where a comment begins, or 0

textVars == <<value, line, at, inDouble, inSingle, escaped, cut>>

\* Every occurrence of a pair of characters, from the left, for a shorter
\* or a longer text.
Replaced(s, pair, by) ==
    LET rest[k \in 1..(Len(s) + 2)] ==
          IF k > Len(s) THEN <<>>
          ELSE IF k < Len(s) /\ SubSeq(s, k, k + 1) = pair THEN by \o rest[k + 2]
          ELSE <<s[k]>> \o rest[k + 1]
    IN rest[1]

Escaped(s, char) == FlattenSeq([k \in DOMAIN s |-> IF s[k] = char THEN <<Slash, char>> ELSE <<s[k]>>])

Quoted(s) == <<Quote>> \o s \o <<Quote>>

\* Mutant: quotes are escaped before the escapes.
TSwapped(s) == Quoted(Escaped(Escaped(s, Quote), Slash))

T(s) == Quoted(Escaped(Escaped(s, Slash), Quote))

\* A quoted text, without its quotes.
Unquoted(v) ==
    Replaced(Replaced(SubSeq(v, 2, Len(v) - 1), <<Slash, Quote>>, <<Quote>>),
             <<Slash, Slash>>, <<Slash>>)

\* /^"((?:[^"\\]|\\.)*)"$/: between the quotes, every quote has a slash of
\* its own.
IsQuoted(v) ==
    LET inner == SubSeq(v, 2, Len(v) - 1)
        free[k \in 1..(Len(inner) + 2)] ==     \* nothing wrong from k on
          k > Len(inner)
            \/ IF inner[k] = Slash THEN k < Len(inner) /\ free[k + 2]
               ELSE inner[k] # Quote /\ free[k + 1]
    IN Len(v) > 1 /\ v[1] = Quote /\ v[Len(v)] = Quote /\ free[1]

\* str: a quoted text, or one in ticks, or the text as it stands.
str(v) ==
    IF IsQuoted(v) THEN Unquoted(v)
    ELSE IF Len(v) > 1 /\ v[1] = Tick /\ v[Len(v)] = Tick THEN SubSeq(v, 2, Len(v) - 1)
    ELSE v

TextInit ==
    /\ value \in SeqOf(Chars, MaxText)
    /\ \E comment \in {<<>>, <<Hash, Quote, Other>>} : line = T(value) \o comment
    /\ at = 1 /\ cut = 0
    /\ inDouble = FALSE /\ inSingle = FALSE /\ escaped = FALSE

\* One turn of the loop.
stripInlineComment ==
    /\ at <= Len(line) /\ cut = 0
    /\ LET ch == line[at]
           double == ch = Quote /\ ~escaped /\ ~inSingle
           single == ch = Tick /\ ~escaped /\ ~inDouble
       IN /\ at' = at + 1
          /\ escaped' = (~escaped /\ ch = Slash /\ inDouble)
          /\ inDouble' = (inDouble # double)
          /\ inSingle' = (inSingle # single)
          /\ cut' = IF ch = Hash /\ ~escaped /\ ~inDouble /\ ~inSingle THEN at ELSE 0
    /\ UNCHANGED <<value, line>>

TextNext == stripInlineComment

TextSpec == TextInit /\ [][TextNext]_textVars /\ WF_textVars(TextNext)

TextTypeOK ==
    /\ value \in Seq(Chars) /\ at \in 1..(Len(line) + 1) /\ cut \in 0..Len(line)
    /\ {inDouble, inSingle, escaped} \subseteq BOOLEAN

Stripped == IF cut # 0 THEN SubSeq(line, 1, cut - 1) ELSE line

\* A value that was written is read again as it was, with or without a
\* comment after it, whatever quotes, slashes and hashes it has.
ValueComesBack == (cut # 0 \/ at > Len(line)) => str(Stripped) = value
=============================================================================
