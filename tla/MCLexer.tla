-------------------------------- MODULE MCLexer --------------------------------
(***************************************************************************)
(* Texts for the lexer: all short texts over a few characters that belong   *)
(* together, and some longer ones.                                          *)
(***************************************************************************)
EXTENDS Lexer

UpTo(word, n) == UNION {[1 .. k -> CharSet(word)] : k \in 0 .. n}

\* Words with dots and numbers; numbers of all kinds; strings, comments and lines;
\* operators; keywords and names.
Dotted == UpTo(".eq1", 5)
Numbers == UpTo("0xb2e.+", 4)
Layout == UpTo("\"!\n a", 5) \cup UpTo("\"\\nt", 4)
Symbols == UpTo("=<>/*:|&~.", 3)
Words == {Chars(w) : w \in {
  "if(x)then", "end if", "do i=1~3", "integer::a", "integers", "xor", "a xor b", "in intent",
  ".true.", ".false.", ".truest", ".not..true.", "a.and.b", ".end goto .end", "1.eq.2",
  "1 .eq. 2", "x=.5", "0xff", "0b12", "0b101", "1.5e-3-2", "a@b", "print\"a\\tb\",x",
  "a!b\"c\nd", "_a1.b2", "a\r\n", "\"a\nb\"c\nd"}}

MCInputs == Dotted \cup Numbers \cup Layout \cup Symbols \cup Words
MCFinding == Words
=============================================================================
