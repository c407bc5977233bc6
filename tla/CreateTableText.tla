--------------------------- MODULE CreateTableText ---------------------------
(***************************************************************************)
(* internal/server/resource.go: normalizeCreateTableDDL, which takes the   *)
(* table's AUTO_INCREMENT counter, and nothing else, out of the text of    *)
(* SHOW CREATE TABLE.  It scans bytes and knows three kinds of quotes,     *)
(* comments and parentheses.  A text is a sequence of symbols; a run of    *)
(* bytes that the scanner treats as one is one symbol: the opening and the *)
(* closing of a comment, the word AUTO_INCREMENT, a number.                *)
(***************************************************************************)
EXTENDS Integers, Sequences, FiniteSets, SequencesExt

Quotes == {"quote", "backtick"}    \* of ' and ", which are treated alike, and of `
Option == "AUTO_INCREMENT"
Word == "word"          \* any other identifier byte
Number == "1"
Blank == " "
Symbols == Quotes \cup {Option, Word, Number, Blank, "backslash", "slashStar", "starSlash",
                       "(", ")", "=", "other"}

IsIdentifier(x) == x \in {Word, Option, Number}

At(text, i, x) == i <= Len(text) /\ text[i] = x

\* Mutant: a comment is read like the rest of the text.
OpensQuotes(x) == IF x \in Quotes THEN x ELSE "text"

\* What the scanner is in after a symbol of the text itself.
Opens(x) == IF x \in Quotes THEN x ELSE IF x = "slashStar" THEN "comment" ELSE "text"

\* In a quote: the symbol that follows is skipped, whatever it is.
Skips(text, i, quote) == \/ text[i] = "backslash" /\ quote # "backtick"
                         \/ text[i] = quote /\ At(text, i + 1, quote)

(***************************************************************************)
(* Both loops read the text alike, the second going on where the first has *)
(* stopped: what they are in after symbol i, and how deep in parentheses.  *)
(* A comment that is not closed goes on to the end.                        *)
(***************************************************************************)
ModeAfter(mode, text, i) ==
  CASE mode = "text"       -> Opens(text[i])
    [] mode = "comment"    -> IF text[i] = "starSlash" THEN "text" ELSE mode
    [] mode \in Quotes     -> IF Skips(text, i, mode) THEN IF mode = "quote" THEN "skip" ELSE "backskip"
                              ELSE IF text[i] = mode THEN "text" ELSE mode
    [] mode = "skip"       -> "quote"
    [] mode = "backskip"   -> "backtick"

DepthAfter(depth, x) == IF x = "(" THEN depth + 1
                        ELSE IF x = ")" /\ depth > 0 THEN depth - 1 ELSE depth

Read(at, text, i) ==
  [mode  |-> ModeAfter(at.mode, text, i),
   depth |-> IF at.mode = "text" THEN DepthAfter(at.depth, text[i]) ELSE at.depth]

ScanText(text) ==
  LET scan[i \in 0..Len(text)] == IF i = 0 THEN [mode |-> "text", depth |-> 0]
                                  ELSE Read(scan[i - 1], text, i)
  IN scan

(***************************************************************************)
(* createTableOptionsStart: what follows the parenthesis that closes the   *)
(* list of columns; 0 if there is none.                                    *)
(***************************************************************************)
OptionsStart(text) ==
  LET scan == ScanText(text)
      closing == {i \in 1..Len(text) : text[i] = ")" /\ scan[i - 1] = [mode |-> "text", depth |-> 1]}
  IN IF closing = {} THEN 0 ELSE Min(closing) + 1

\* The first symbol from i on that is no blank.
SkipBlanks(text, i) == Min({k \in i..(Len(text) + 2) : ~At(text, k, Blank)})

\* The last symbol of the option that starts at i, or 0: a word of its own, "=", digits.
OptionEnd(text, i, from) ==
  LET equals == SkipBlanks(text, i + 1)
      value == SkipBlanks(text, equals + 1)
  IN IF /\ text[i] = Option
        /\ ~(i > from /\ IsIdentifier(text[i - 1]))
        /\ At(text, equals, "=") /\ At(text, value, Number)
     THEN value ELSE 0

\* findAutoIncrementOption: where the option starts, or 0.
FindOption(text, from) ==
  LET scan == ScanText(text)
      found == {i \in from..Len(text) : OptionEnd(text, i, from) # 0 /\ scan[i - 1].mode = "text"}
  IN IF found = {} THEN 0 ELSE Min(found)

\* The blanks before the option go with it, not those of the column list.
SkipBack(text, i, from) ==
  Min({k \in from..i : \A j \in k..(i - 1) : text[j] = Blank})

NormalizeCreateTableDDL(text) ==
  LET from == OptionsStart(text)
      found == IF from = 0 THEN 0 ELSE FindOption(text, from)
  IN IF found = 0 THEN text
     ELSE SubSeq(text, 1, SkipBack(text, found, from) - 1)
          \o SubSeq(text, OptionEnd(text, found, from) + 1, Len(text))
=============================================================================
