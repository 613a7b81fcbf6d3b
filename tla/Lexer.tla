--------------------------------- MODULE Lexer ---------------------------------
(***************************************************************************)
(* The lexer (parser/lexer.cpp): characters are taken from the input one   *)
(* by one, as long as what has been read matches a token, and the first    *)
(* that does not match is put back.  One action is one pass of the loop of *)
(* Lexer::GetNextToken, which GetAllTokens calls until the input ends.     *)
(*                                                                         *)
(* A text is a sequence of characters.  A token is kept with the place     *)
(* where it was found instead of its value, a string with its characters.  *)
(***************************************************************************)
EXTENDS Integers, Sequences, SequencesExt, FiniteSets, TLC

CONSTANT Inputs  \* the texts to be read

ASSUME InputsAssumption == \A s \in Inputs : s \in Seq(Range(s))

Chars(word) == [i \in 1 .. Len(word) |-> SubSeq(word, i, i)]
CharSet(word) == Range(Chars(word))

NL == "\n"
Quote == "\""
Blanks == {" ", "\t"}
Digit == CharSet("0123456789")
Letter == CharSet("_abcdefghijklmnopqrstuvwxyzABCDEFGHIJKLMNOPQRSTUVWXYZ")

-----------------------------------------------------------------------------
(* GetMatchingTokens: the tokens a text is, in the order of the code.      *)

All(s, set) == Range(s) \subseteq set
From(s, k) == SubSeq(s, k, Len(s))
StartsWith(s, c) == s # <<>> /\ s[1] = c

\* Digits after an optional "0x" or "0b".  These two alone count as a number, for
\* the search to go on.
Radix == {Chars("0x"), Chars("0b")}
IsInt(s) ==
  \/ s \in Radix
  \/ \E r \in Radix \cup {<<>>} :
       IsPrefix(r, s) /\ Len(s) > Len(r) /\ All(From(s, Len(r) + 1), Digit)

\* A bit set throws if it is given other digits.
BadBits(s) ==
  /\ IsPrefix(Chars("0b"), s) /\ All(From(s, 3), Digit)
  /\ ~All(From(s, 3), {"0", "1"})

\* Digits, and optionally a point with digits and an exponent with digits, of
\* which there may be none.
IsMantissa(s) ==
  \E k \in 1 .. Len(s) :
    /\ All(SubSeq(s, 1, k), Digit)
    /\ k = Len(s) \/ (s[k + 1] = "." /\ All(From(s, k + 2), Digit))
IsExponent(s) ==
  \/ s = <<>>
  \/ /\ s[1] \in {"E", "e"}
     /\ All(From(s, IF Len(s) > 1 /\ s[2] \in {"+", "-"} THEN 3 ELSE 2), Digit)
IsReal(s) ==
  \E k \in 1 .. Len(s) : IsMantissa(SubSeq(s, 1, k)) /\ IsExponent(From(s, k + 1))

\* The tokens of words given by their spelling.
Spelled(table) ==
  [s \in {Chars(w) : w \in DOMAIN table} |-> table[CHOOSE w \in DOMAIN table : Chars(w) = s]]

Keywords == Spelled(
  [if |-> "IF", then |-> "THEN", else |-> "ELSE", while |-> "WHILE", break |-> "BREAK",
   exit |-> "BREAK", next |-> "NEXT", cycle |-> "NEXT", do |-> "DO", select |-> "SELECT",
   case |-> "CASE", default |-> "DEFAULT", end |-> "END", recursive |-> "RECURSIVE",
   function |-> "FUNC", procedure |-> "PROC", subroutine |-> "PROC", intent |-> "INTENT",
   in |-> "IN", out |-> "OUT", return |-> "RET", result |-> "RESULTS", results |-> "RESULTS",
   assign |-> "ASSIGN", integer |-> "INTDECL", real |-> "REALDECL", logical |-> "BOOLDECL",
   complex |-> "CPLXDECL", quaternion |-> "QUATDECL", string |-> "STRINGDECL",
   dimension |-> "DIM", program |-> "PROGRAM", goto |-> "GOTO", comefrom |-> "COMEFROM",
   read |-> "READ", print |-> "PRINT"]
  @@ ".true." :> "BOOL" @@ ".false." :> "BOOL")

IsName(s) == s # <<>> /\ s[1] \in Letter /\ All(s, Letter \cup Digit)
IsLabel(s) == StartsWith(s, ".") /\ IsName(Tail(s))
\* The beginning of a word such as ".true.".
IsPartial(s) == StartsWith(s, ".") /\ All(Tail(s), Letter)

Word(s) ==
  CASE s \in DOMAIN Keywords -> <<Keywords[s]>>
    [] s \notin DOMAIN Keywords /\ IsName(s) -> <<"IDENT">>
    [] s \notin DOMAIN Keywords /\ IsLabel(s) -> <<"LABEL">>
    [] s \notin DOMAIN Keywords /\ ~IsLabel(s) /\ IsPartial(s) -> <<"PARTIAL">>
    [] OTHER -> <<>>

\* Operators of one character are their own tokens.
Themselves == CharSet("+-*/%:,=()[]><|&")
Operators == Spelled(
  "==" :> "EQU" @@ ".eq." :> "EQU" @@ "/=" :> "NEQ" @@ ".ne." :> "NEQ"
  @@ "||" :> "OR" @@ ".or." :> "OR" @@ "&&" :> "AND" @@ ".and." :> "AND"
  @@ "<=" :> "LEQ" @@ ".le." :> "LEQ" @@ ">=" :> "GEQ" @@ ".ge." :> "GEQ"
  @@ ".lt." :> "<" @@ ".gt." :> ">" @@ ".not." :> "NOT" @@ "xor" :> "XOR"
  @@ "::" :> "TYPESEP" @@ "**" :> "POW" @@ "~" :> "RANGE" @@ [c \in Themselves |-> c])

Only(condition, token) == IF condition THEN <<token>> ELSE <<>>
MatchingTokens(s) ==
  Only(IsInt(s), "INT") \o Only(IsReal(s), "REAL") \o Word(s)
  \o (IF s \in DOMAIN Operators THEN <<Operators[s]>> ELSE <<>>)

\* What the lists of spellings have to satisfy for reading on to find the longest
\* match: what a word begins with is a token, too.  No word holds the end of a line
\* or is given a token that is not made from words.
Spellings == DOMAIN Keywords \cup DOMAIN Operators \cup Radix
ASSUME SpellingsAssumption ==
  /\ NL \notin Digit \cup Letter
  /\ \A s \in Spellings :
       /\ s \in Seq(Range(s)) /\ NL \notin Range(s)
       /\ \A k \in 1 .. Len(s) : MatchingTokens(SubSeq(s, 1, k)) # <<>>
  /\ {"STR", "HALT"} \cap (Range(Keywords) \cup Range(Operators)) = {}

-----------------------------------------------------------------------------
VARIABLES
  text,     \* what m_istr reads
  pos,      \* the number of characters taken from it
  line,     \* line of GetAllTokens
  tokens,   \* the tokens so far
  status,   \* "reading", "done", or "throws" for an exception
  input, longest, inComment, inString,  \* the variables of GetNextToken
  start     \* history: where the token that is read begins

vars == <<text, pos, line, tokens, status, input, longest, inComment, inString, start>>
stream == <<text, status>>

Init ==
  /\ text \in Inputs
  /\ pos = 0 /\ line = 1 /\ tokens = <<>> /\ status = "reading"
  /\ input = <<>> /\ longest = <<>> /\ inComment = FALSE /\ inString = FALSE
  /\ start = 0

\* A character can be read.
Reading == status = "reading" /\ pos < Len(text)
Char == text[pos + 1]
Take == pos' = pos + 1

\* Faulty variant: the text of the token is kept for the next one.
ReturnDirty(id, from, to, value) ==
  /\ tokens' = Append(tokens, [id |-> id, from |-> from, to |-> to, line |-> line,
                               value |-> value])
  /\ longest' = <<>> /\ inComment' = FALSE /\ inString' = FALSE
  /\ UNCHANGED <<input, line, start, stream>>

\* GetNextToken returns, and is called again.
Return(id, from, to, value) ==
  /\ tokens' = Append(tokens, [id |-> id, from |-> from, to |-> to, line |-> line,
                               value |-> value])
  /\ input' = <<>> /\ longest' = <<>> /\ inComment' = FALSE /\ inString' = FALSE
  /\ UNCHANGED <<line, start, stream>>

SkipComment ==
  /\ Reading /\ inComment /\ Char # NL
  /\ Take
  /\ UNCHANGED <<text, line, tokens, status, input, longest, inComment, inString, start>>

\* Outside of comments and of any match.
Free == Reading /\ longest = <<>> /\ (inComment => Char = NL)

OpenString ==
  /\ Free /\ Char = Quote /\ ~inString
  /\ inString' = TRUE /\ start' = pos + 1
  /\ Take
  /\ UNCHANGED <<text, line, tokens, status, input, longest, inComment>>

\* replace_escapes: a backslash and a letter become one character.
Escapes == Chars("\\n") :> NL @@ Chars("\\t") :> "\t" @@ Chars("\\r") :> "\r"
Unescaped(s) ==
  FoldLeft(LAMBDA done, c :
    IF done # <<>> /\ <<Last(done), c>> \in DOMAIN Escapes
      THEN Append(Front(done), Escapes[<<Last(done), c>>]) ELSE Append(done, c), <<>>, s)

CloseString ==
  /\ Free /\ Char = Quote /\ inString
  /\ Return("STR", start, pos + 1, Unescaped(input))
  /\ Take

BeginComment ==
  /\ Free /\ Char = "!" /\ ~inString
  /\ inComment' = TRUE
  /\ Take
  /\ UNCHANGED <<text, line, tokens, status, input, longest, inString, start>>

Blank ==
  /\ Free /\ Char \in Blanks /\ ~inString
  /\ Take
  /\ UNCHANGED <<text, line, tokens, status, input, longest, inComment, inString, start>>

\* Faulty variant: only the end of a comment counts as the end of a line.
NewLineUncounted ==
  /\ Free /\ Char = NL
  /\ inComment' = FALSE
  /\ line' = IF inComment THEN line + 1 ELSE line
  /\ Take
  /\ UNCHANGED <<text, tokens, status, input, longest, inString, start>>

\* The end of a line, also inside of a string, which goes on without it.
NewLine ==
  /\ Free /\ Char = NL
  /\ inComment' = FALSE
  /\ line' = line + 1
  /\ Take
  /\ UNCHANGED <<text, tokens, status, input, longest, inString, start>>

StringChar ==
  /\ Free /\ inString /\ Char \notin {Quote, NL}
  /\ input' = Append(input, Char)
  /\ Take
  /\ UNCHANGED <<text, line, tokens, status, longest, inComment, inString, start>>

\* The character is added to the input and the matches of that are searched.
Special == Blanks \cup {NL, Quote, "!"}
Searching == Reading /\ ~inComment /\ ~inString /\ (longest = <<>> => Char \notin Special)
Extended == Append(input, Char)
Begin == IF longest = <<>> THEN pos + 1 ELSE start

\* Faulty variant: a longer match does not replace the first one.
MatchStale ==
  /\ Searching /\ ~BadBits(Extended) /\ MatchingTokens(Extended) # <<>>
  /\ pos + 1 < Len(text)
  /\ input' = Extended /\ start' = Begin
  /\ longest' = IF longest = <<>> THEN MatchingTokens(Extended) ELSE longest
  /\ Take
  /\ UNCHANGED <<text, line, tokens, status, inComment, inString>>

\* The search goes on with whatever follows a match.
Match ==
  /\ Searching /\ ~BadBits(Extended) /\ MatchingTokens(Extended) # <<>>
  /\ pos + 1 < Len(text)
  /\ input' = Extended /\ longest' = MatchingTokens(Extended) /\ start' = Begin
  /\ Take
  /\ UNCHANGED <<text, line, tokens, status, inComment, inString>>

\* The last character of the input is matched, too.
MatchAtEnd ==
  /\ Searching /\ ~BadBits(Extended) /\ MatchingTokens(Extended) # <<>>
  /\ pos + 1 = Len(text)
  /\ Return(MatchingTokens(Extended)[1], Begin, pos + 1, <<>>)
  /\ Take

\* Faulty variant: the character that does not match is lost.
NoMatchLost ==
  /\ Searching /\ ~BadBits(Extended) /\ MatchingTokens(Extended) = <<>>
  /\ longest # <<>>
  /\ Return(longest[1], start, pos, <<>>)
  /\ Take

\* The character does not match: it is put back, and the longest match is found.
NoMatch ==
  /\ Searching /\ ~BadBits(Extended) /\ MatchingTokens(Extended) = <<>>
  /\ longest # <<>>
  /\ Return(longest[1], start, pos, <<>>)
  /\ UNCHANGED pos

\* Faulty variant: the character is put back instead of rejected.
InvalidPutBack ==
  /\ Searching
  /\ BadBits(Extended) \/ (MatchingTokens(Extended) = <<>> /\ longest = <<>>)
  /\ input' = <<>> /\ longest' = <<>>
  /\ UNCHANGED <<text, pos, line, tokens, status, inComment, inString, start>>

\* There was no match before, or the value of a number cannot be made.
Invalid ==
  /\ Searching
  /\ BadBits(Extended) \/ (MatchingTokens(Extended) = <<>> /\ longest = <<>>)
  /\ status' = "throws"
  /\ UNCHANGED <<text, pos, line, tokens, input, longest, inComment, inString, start>>

\* A string that has not been closed is forgotten.
EndOfInput ==
  /\ status = "reading" /\ pos = Len(text)
  /\ tokens' = Append(tokens, [id |-> "HALT", from |-> pos + 1, to |-> pos, line |-> line,
                               value |-> <<>>])
  /\ status' = "done"
  /\ UNCHANGED <<text, pos, line, input, longest, inComment, inString, start>>

GetNextToken ==
  \/ SkipComment \/ OpenString \/ CloseString \/ BeginComment \/ Blank \/ NewLine
  \/ StringChar \/ Match \/ MatchAtEnd \/ NoMatch \/ Invalid \/ EndOfInput

Stopped == status # "reading" /\ UNCHANGED vars

Next == GetNextToken \/ Stopped

Spec == Init /\ [][Next]_vars
FairSpec == Spec /\ WF_vars(GetNextToken)

-----------------------------------------------------------------------------
\* The variables of GetNextToken agree: text is collected for a match or a string
\* and never left over from the token before, and no match waits for a character
\* that does not come.
TypeOK ==
  /\ text \in Inputs /\ pos \in 0 .. Len(text) /\ start \in 0 .. Len(text)
  /\ status \in {"reading", "done", "throws"}
  /\ input # <<>> => inString \/ longest # <<>>
  /\ inString \/ inComment => longest = <<>>
  /\ longest # <<>> => pos < Len(text) /\ input = SubSeq(text, start, pos)

\* Nothing but blanks and comments, from character i to character j.
Skippable(i, j) ==
  \A p \in i .. j :
    \/ text[p] \in Blanks \cup {NL}
    \/ \E q \in i .. p : text[q] = "!" /\ \A r \in q .. p : text[r] # NL

\* A string begins at character i that is not closed.
Unclosed(i) == text[i] = Quote /\ \A p \in i + 1 .. Len(text) : text[p] # Quote

\* Taking characters and putting them back loses and repeats none: each is in one
\* token, in order, or is blank or in a comment.  A string that is not closed is
\* the exception.
Follows(t, previous) ==
  /\ previous < t.from
  /\ \/ Skippable(previous + 1, t.from - 1)
     \/ /\ t.id = "HALT"
        /\ \E i \in previous + 1 .. Len(text) : Skippable(previous + 1, i - 1) /\ Unclosed(i)
  /\ t.id = "STR" =>
       {p \in t.from .. t.to : text[p] = Quote} = {t.from, t.to} /\ t.from < t.to
EveryCharacterOnce ==
  \A k \in DOMAIN tokens : Follows(tokens[k], IF k = 1 THEN 0 ELSE tokens[k - 1].to)

\* Reading on as long as there is a match finds the longest beginning of the rest
\* of the text that is a token, whatever follows it, and its first meaning; there
\* is no such beginning where the lexer gives up.
Beginnings(i) == {n \in 1 .. Len(text) - i + 1 : MatchingTokens(SubSeq(text, i, i + n - 1)) # <<>>}
IsLongest(t) ==
  /\ MatchingTokens(SubSeq(text, t.from, t.to))[1] = t.id
  /\ \A n \in Beginnings(t.from) : n <= t.to - t.from + 1
LongestMatch ==
  /\ \A k \in DOMAIN tokens : tokens[k].id \notin {"STR", "HALT"} => IsLongest(tokens[k])
  /\ status = "throws" => BadBits(Extended) \/ Beginnings(pos + 1) = {}

\* A token has the number of the line it ends in, also after comments, strings of
\* several lines and characters that were put back.
LineEnds(n) == {p \in 1 .. n : text[p] = NL}
RightLine ==
  \A k \in DOMAIN tokens : tokens[k].line = 1 + Cardinality(LineEnds(tokens[k].to))

\* Every text is read to its end or rejected.
Terminates == <>(status # "reading")

\* The comment on PARTIAL in lexer.h: it "should not be left after final lexer run".
NoPartialLeft == \A k \in DOMAIN tokens : tokens[k].id # "PARTIAL"
=============================================================================
