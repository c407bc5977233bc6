--------------------------- MODULE TableTextGrammar ---------------------------
(***************************************************************************)
(* What the text of SHOW CREATE TABLE is made of, in MySQL's own lexical   *)
(* grammar: it says where a token ends without scanning for it, and is     *)
(* what the scanner of CreateTableText is compared with.                   *)
(***************************************************************************)
EXTENDS CreateTableText

\* The symbols that do not stand for themselves in a string of quote q.
Escapes(q) == IF q = "backtick" THEN {q} ELSE {q, "backslash"}

\* A string from i to k: each of those symbols in it is one of a pair that stands
\* for one character, a quote or what a backslash escapes.
IsString(text, i, k) ==
  LET special == {m \in (i + 1)..(k - 1) : text[m] \in Escapes(text[i])}
  IN /\ text[i] \in Quotes /\ i < k /\ text[k] = text[i] /\ ~At(text, k + 1, text[i])
     /\ \E pairs \in SUBSET (special \ {k - 1}) :
          /\ \A m \in pairs : m + 1 \notin pairs /\ (text[m] = text[i] => text[m + 1] = text[i])
          /\ \A m \in special : m \in pairs \/ m - 1 \in pairs

IsComment(text, i, k) == /\ text[i] = "slashStar" /\ i < k /\ text[k] = "starSlash"
                         /\ \A m \in (i + 1)..(k - 1) : text[m] # "starSlash"

IsToken(text, i, k) == \/ i = k /\ text[i] \notin Quotes \cup {"slashStar"}
                       \/ IsString(text, i, k) \/ IsComment(text, i, k)

\* A text of tokens: each ends where the next begins.
Lexed(text, ends) == /\ text \in Seq(Symbols) /\ {0, Len(text)} \subseteq ends /\ ends \subseteq 0..Len(text)
                     /\ \A k \in ends \ {0} : \E j \in ends : j < k /\ IsToken(text, j + 1, k)

\* How often the token x is among the first k symbols.
Tokens(text, ends, k, x) == Cardinality({i \in 1..k : i - 1 \in ends /\ text[i] = x})

\* The parenthesis at k closes the first one that is opened.
ClosesFirst(text, ends, k) ==
  LET Opened(i) == Tokens(text, ends, i, "(")
      Closed(i) == Tokens(text, ends, i, ")")
  IN /\ {k - 1, k} \subseteq ends /\ text[k] = ")" /\ Opened(k) = Closed(k) /\ Opened(k) > 0
     /\ \A i \in 1..(k - 1) : Opened(i) > Closed(i) \/ (Opened(i) = 0 /\ Closed(i) = 0)
=============================================================================
