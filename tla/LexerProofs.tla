------------------------------ MODULE LexerProofs ------------------------------
(***************************************************************************)
(* Proofs about the lexer: for any set of texts, no character is lost or   *)
(* read twice, every token is the longest match, and has its line.         *)
(***************************************************************************)
EXTENDS Lexer, SequenceLemmas, FiniteSetTheorems

-----------------------------------------------------------------------------
(* Sequences.                                                              *)

LEMMA Single ==
  ASSUME NEW S, NEW x \in S
  PROVE  <<x>> \in Seq(S) /\ <<x>> # <<>> /\ <<x>>[1] = x
OBVIOUS

LEMMA NonEmpty ==
  ASSUME NEW S, NEW s \in Seq(S)
  PROVE  s # <<>> <=> Len(s) > 0
OBVIOUS

\* A part of a text is a sequence of its characters.
LEMMA Part ==
  ASSUME NEW S, NEW s \in Seq(S), NEW i \in 1 .. Len(s) + 1, NEW j \in i - 1 .. Len(s)
  PROVE  /\ SubSeq(s, i, j) \in Seq(S) /\ Len(SubSeq(s, i, j)) = j - i + 1
         /\ \A k \in 1 .. j - i + 1 : SubSeq(s, i, j)[k] = s[i + k - 1]
<1>1. Len(s) \in Nat
  BY LenProperties
<1>2. \A k \in i .. j : s[k] \in S
  BY <1>1, ElementOfSeq
<1> QED BY <1>1, <1>2, SubSeqProperties

\* Reading one character more.
LEMMA PartGrows ==
  ASSUME NEW S, NEW s \in Seq(S), NEW i \in 1 .. Len(s), NEW j \in i - 1 .. Len(s) - 1
  PROVE  Append(SubSeq(s, i, j), s[j + 1]) = SubSeq(s, i, j + 1)
<1>1. Len(s) \in Nat /\ s[j + 1] \in S
  BY LenProperties, ElementOfSeq
<1> DEFINE a == Append(SubSeq(s, i, j), s[j + 1])
           b == SubSeq(s, i, j + 1)
<1>2. /\ SubSeq(s, i, j) \in Seq(S) /\ Len(SubSeq(s, i, j)) = j - i + 1
      /\ \A k \in 1 .. j - i + 1 : SubSeq(s, i, j)[k] = s[i + k - 1]
  BY <1>1, Part
<1>3. /\ b \in Seq(S) /\ Len(b) = j - i + 2
      /\ \A k \in 1 .. j - i + 2 : b[k] = s[i + k - 1]
  BY <1>1, Part
<1>4. /\ a \in Seq(S) /\ Len(a) = j - i + 2
      /\ \A k \in 1 .. j - i + 1 : a[k] = s[i + k - 1]
      /\ a[j - i + 2] = s[j + 1]
  BY <1>1, <1>2, AppendProperties
<1>5. \A k \in 1 .. Len(a) : a[k] = b[k]
  BY <1>3, <1>4
<1> HIDE DEF a, b
<1>6. a = b
  BY <1>3, <1>4, <1>5, SeqEqual
<1> QED BY <1>6 DEF a, b

-----------------------------------------------------------------------------
(* Tokens.                                                                 *)

\* A text has the tokens of numbers, words and operators, and no others: the lexer
\* makes strings and the end of the input without them.
Ids == {"INT", "REAL", "IDENT", "LABEL", "PARTIAL"} \cup Range(Keywords) \cup Range(Operators)

LEMMA NoIds == "STR" \notin Ids /\ "HALT" \notin Ids
BY SpellingsAssumption DEF Ids

LEMMA WordTokens ==
  ASSUME NEW s
  PROVE  /\ Word(s) \in Seq(Ids)
         /\ Word(s) # <<>> <=> s \in DOMAIN Keywords \/ IsName(s) \/ IsLabel(s) \/ IsPartial(s)
<1>1. CASE s \in DOMAIN Keywords
  <2>1. Word(s) = <<Keywords[s]>>
    BY <1>1 DEF Word
  <2>2. Keywords[s] \in Ids
    BY <1>1 DEF Range, Ids
  <2> QED BY <1>1, <2>1, <2>2, Single
<1>2. CASE s \notin DOMAIN Keywords
  <2>1. Word(s) \in {<<"IDENT">>, <<"LABEL">>, <<"PARTIAL">>, <<>>}
    BY <1>2 DEF Word
  <2>2. Word(s) # <<>> <=> IsName(s) \/ IsLabel(s) \/ IsPartial(s)
    BY <1>2 DEF Word
  <2>3. {"IDENT", "LABEL", "PARTIAL"} \subseteq Ids
    BY DEF Ids
  <2> QED BY <1>2, <2>1, <2>2, <2>3, Single, EmptySeq
<1> QED BY <1>1, <1>2

LEMMA OnlyToken ==
  ASSUME NEW S, NEW condition \in BOOLEAN, NEW token \in S
  PROVE  /\ Only(condition, token) \in Seq(S)
         /\ Only(condition, token) # <<>> <=> condition
BY Single, EmptySeq DEF Only

LEMMA Tokens ==
  ASSUME NEW s
  PROVE  /\ MatchingTokens(s) # <<>> <=>
              IsInt(s) \/ IsReal(s) \/ Word(s) # <<>> \/ s \in DOMAIN Operators
         /\ MatchingTokens(s) # <<>> => MatchingTokens(s)[1] \notin {"STR", "HALT"}
<1> DEFINE a == Only(IsInt(s), "INT")
           b == Only(IsReal(s), "REAL")
           c == Word(s)
           d == IF s \in DOMAIN Operators THEN <<Operators[s]>> ELSE <<>>
<1>1. a \in Seq(Ids) /\ (a # <<>> <=> IsInt(s))
  <2>1. IsInt(s) \in BOOLEAN
    BY DEF IsInt
  <2>2. "INT" \in Ids
    BY DEF Ids
  <2> QED BY <2>1, <2>2, OnlyToken
<1>2. b \in Seq(Ids) /\ (b # <<>> <=> IsReal(s))
  <2>1. IsReal(s) \in BOOLEAN
    BY DEF IsReal
  <2>2. "REAL" \in Ids
    BY DEF Ids
  <2> QED BY <2>1, <2>2, OnlyToken
<1>3. c \in Seq(Ids)
  BY WordTokens
<1>4. d \in Seq(Ids) /\ (d # <<>> <=> s \in DOMAIN Operators)
  <2>1. s \in DOMAIN Operators => Operators[s] \in Ids
    BY DEF Range, Ids
  <2>2. d = IF s \in DOMAIN Operators THEN <<Operators[s]>> ELSE <<>>
    OBVIOUS
  <2> HIDE DEF d
  <2> QED BY <2>1, <2>2, Single, EmptySeq
<1>5. MatchingTokens(s) = ((a \o b) \o c) \o d
  BY DEF MatchingTokens
<1> HIDE DEF a, b, c, d
<1>6. /\ a \o b \in Seq(Ids) /\ (a \o b) \o c \in Seq(Ids)
      /\ MatchingTokens(s) \in Seq(Ids)
  BY <1>1, <1>2, <1>3, <1>4, <1>5, ConcatProperties
<1>7. MatchingTokens(s) # <<>> <=> a # <<>> \/ b # <<>> \/ c # <<>> \/ d # <<>>
  BY <1>1, <1>2, <1>3, <1>4, <1>5, <1>6, ConcatEqualIffEmpty, ConcatEmptySeq
<1>8. MatchingTokens(s) # <<>> => MatchingTokens(s)[1] \in Ids
  BY <1>6
<1> QED BY <1>1, <1>2, <1>4, <1>7, <1>8, NoIds DEF c

-----------------------------------------------------------------------------
(* What a token begins with is a token.                                    *)

LEMMA AllCharacters ==
  ASSUME NEW S, NEW s \in Seq(S), NEW set
  PROVE  All(s, set) <=> \A j \in 1 .. Len(s) : s[j] \in set
BY RangeEquality DEF All

LEMMA AllFrom ==
  ASSUME NEW S, NEW s \in Seq(S), NEW m \in 1 .. Len(s) + 1, NEW set
  PROVE  All(From(s, m), set) <=> \A j \in m .. Len(s) : s[j] \in set
<1>1. Len(s) \in Nat
  BY LenProperties
<1>2. /\ From(s, m) \in Seq(S) /\ Len(From(s, m)) = Len(s) - m + 1
      /\ \A k \in 1 .. Len(s) - m + 1 : From(s, m)[k] = s[m + k - 1]
  BY <1>1, Part DEF From
<1>3. All(From(s, m), set) <=> \A k \in 1 .. Len(s) - m + 1 : s[m + k - 1] \in set
  BY <1>2, AllCharacters
<1>4. ASSUME NEW j \in m .. Len(s)
      PROVE  j - m + 1 \in 1 .. Len(s) - m + 1 /\ s[j] = s[m + (j - m + 1) - 1]
  BY <1>1
<1>5. ASSUME NEW k \in 1 .. Len(s) - m + 1
      PROVE  m + k - 1 \in m .. Len(s)
  BY <1>1
<1> QED BY <1>3, <1>4, <1>5

LEMMA AllTo ==
  ASSUME NEW S, NEW s \in Seq(S), NEW m \in 0 .. Len(s), NEW set
  PROVE  All(SubSeq(s, 1, m), set) <=> \A j \in 1 .. m : s[j] \in set
<1> DEFINE b == SubSeq(s, 1, m)
<1>1. Len(s) \in Nat
  BY LenProperties
<1>2. b \in Seq(S) /\ Len(b) = m /\ \A j \in 1 .. m : b[j] = s[j]
  BY <1>1, Part
<1> HIDE DEF b
<1>3. All(b, set) <=> \A j \in 1 .. m : s[j] \in set
  BY <1>2, AllCharacters
<1> QED BY <1>3 DEF b

\* The beginning of a beginning, and what is left of a text after its beginning.
LEMMA PartOfBeginning ==
  ASSUME NEW S, NEW s \in Seq(S), NEW k \in 1 .. Len(s), NEW i \in 1 .. k + 1, NEW j \in i - 1 .. k
  PROVE  SubSeq(SubSeq(s, 1, k), i, j) = SubSeq(s, i, j)
<1> DEFINE b == SubSeq(s, 1, k)
<1>1. Len(s) \in Nat
  BY LenProperties
<1>2. b \in Seq(S) /\ Len(b) = k /\ \A l \in 1 .. k : b[l] = s[l]
  BY <1>1, Part
<1>3. /\ SubSeq(b, i, j) \in Seq(S) /\ Len(SubSeq(b, i, j)) = j - i + 1
      /\ \A l \in 1 .. j - i + 1 : SubSeq(b, i, j)[l] = b[i + l - 1]
  <2> HIDE DEF b
  <2> QED BY <1>1, <1>2, Part
<1>4. /\ SubSeq(s, i, j) \in Seq(S) /\ Len(SubSeq(s, i, j)) = j - i + 1
      /\ \A l \in 1 .. j - i + 1 : SubSeq(s, i, j)[l] = s[i + l - 1]
  BY <1>1, Part
<1>5. \A l \in 1 .. j - i + 1 : SubSeq(b, i, j)[l] = SubSeq(s, i, j)[l]
  BY <1>1, <1>2, <1>3, <1>4
<1> HIDE DEF b
<1>6. SubSeq(b, i, j) = SubSeq(s, i, j)
  BY <1>3, <1>4, <1>5, SeqEqual
<1> QED BY <1>6 DEF b

\* A spelling that a text begins with.
LEMMA SpellingBegins ==
  ASSUME NEW S, NEW s \in Seq(S), NEW r \in Spellings, IsPrefix(r, s), NEW k \in 1 .. Len(r)
  PROVE  MatchingTokens(SubSeq(s, 1, k)) # <<>>
<1>1. r \in Seq(Range(r)) /\ Len(r) \in Nat /\ Len(s) \in Nat /\ Len(r) <= Len(s)
  BY SpellingsAssumption, LenProperties DEF IsPrefix
<1>2. SubSeq(s, 1, Len(r)) = r
  BY <1>1, SubSeqFull DEF IsPrefix
<1>3. SubSeq(s, 1, k) = SubSeq(r, 1, k)
  BY <1>1, <1>2, PartOfBeginning
<1>4. MatchingTokens(SubSeq(r, 1, k)) # <<>>
  BY SpellingsAssumption
<1> QED BY <1>3, <1>4

\* Every spelling is one of the two signs of a radix, a keyword or an operator, and
\* a text begins with itself.
LEMMA Spelling ==
  ASSUME NEW S, NEW s \in Seq(S), s \in Spellings, NEW k \in 1 .. Len(s)
  PROVE  MatchingTokens(SubSeq(s, 1, k)) # <<>>
<1>1. IsPrefix(s, s)
  BY LenProperties DEF IsPrefix
<1> QED BY <1>1, SpellingBegins

LEMMA IntBegins ==
  ASSUME NEW S, NEW s \in Seq(S), IsInt(s), NEW k \in 1 .. Len(s)
  PROVE  MatchingTokens(SubSeq(s, 1, k)) # <<>>
<1> DEFINE b == SubSeq(s, 1, k)
<1>1. CASE s \in Radix
  BY <1>1, Spelling DEF Spellings
<1>2. ASSUME NEW r \in Radix \cup {<<>>},
             IsPrefix(r, s), Len(s) > Len(r), All(From(s, Len(r) + 1), Digit)
      PROVE  MatchingTokens(b) # <<>>
  <2>1. Len(s) \in Nat /\ Len(r) \in Nat
    <3>1. r \in Radix => r \in Seq(Range(r))
      BY SpellingsAssumption DEF Spellings
    <3>2. Len(<<>>) = 0
      OBVIOUS
    <3> QED BY <3>1, <3>2, LenProperties
  <2>2. CASE k <= Len(r)
    <3>1. k \in 1 .. Len(r) /\ r \in Spellings
      BY <2>1, <2>2 DEF Spellings
    <3> QED BY <1>2, <3>1, SpellingBegins
  <2>3. CASE k > Len(r)
    <3>1. b \in Seq(S) /\ Len(b) = k /\ \A j \in 1 .. k : b[j] = s[j]
      BY <2>1, Part
    <3>2. IsPrefix(r, b)
      <4>1. SubSeq(b, 1, Len(r)) = SubSeq(s, 1, Len(r))
        BY <2>1, <2>3, PartOfBeginning
      <4> QED BY <1>2, <2>1, <2>3, <3>1, <4>1 DEF IsPrefix
    <3>3. All(From(b, Len(r) + 1), Digit)
      <4>1. \A j \in Len(r) + 1 .. Len(s) : s[j] \in Digit
        BY <1>2, <2>1, AllFrom
      <4>2. \A j \in Len(r) + 1 .. k : b[j] \in Digit
        BY <2>1, <3>1, <4>1
      <4> HIDE DEF b
      <4> QED BY <2>1, <2>3, <3>1, <4>2, AllFrom
    <3>4. IsInt(b)
      <4> HIDE DEF b
      <4> QED BY <2>3, <3>1, <3>2, <3>3 DEF IsInt
    <3> QED BY <3>4, Tokens
  <2> QED BY <2>1, <2>2, <2>3
<1> HIDE DEF b
<1>3. MatchingTokens(b) # <<>>
  BY <1>1, <1>2 DEF IsInt, b
<1> QED BY <1>3 DEF b

LEMMA WordBegins ==
  ASSUME NEW S, NEW s \in Seq(S), Word(s) # <<>>, NEW k \in 1 .. Len(s)
  PROVE  MatchingTokens(SubSeq(s, 1, k)) # <<>>
<1> DEFINE b == SubSeq(s, 1, k)
<1>1. Len(s) \in Nat /\ s # <<>>
  BY LenProperties
<1>2. b \in Seq(S) /\ Len(b) = k /\ b # <<>> /\ \A j \in 1 .. k : b[j] = s[j]
  BY <1>1, Part
<1> HIDE DEF b
<1>3. ASSUME NEW set, All(s, set)
      PROVE  All(b, set)
  BY <1>1, <1>2, <1>3, AllCharacters
<1>4. CASE s \in DOMAIN Keywords
  BY <1>4, Spelling DEF Spellings
<1>5. CASE IsName(s)
  <2>1. IsName(b)
    BY <1>1, <1>2, <1>3, <1>5 DEF IsName
  <2> QED BY <2>1, Tokens, WordTokens DEF b
<1>6. CASE StartsWith(s, ".") /\ k = 1
  <2>1. Tail(b) \in Seq(S) /\ Len(Tail(b)) = 0
    BY <1>2, <1>6, HeadTailProperties
  <2>2. All(Tail(b), Letter)
    <3> DEFINE t == Tail(b)
    <3>1. \A j \in 1 .. Len(t) : t[j] \in Letter
      BY <2>1
    <3> HIDE DEF t
    <3>2. t \in Seq(S)
      BY <2>1 DEF t
    <3>3. All(t, Letter)
      BY <3>1, <3>2, AllCharacters
    <3> QED BY <3>3 DEF t
  <2>3. IsPartial(b)
    BY <1>2, <1>6, <2>2 DEF IsPartial, StartsWith
  <2> QED BY <2>3, Tokens, WordTokens DEF b
<1>7. ASSUME StartsWith(s, "."), k > 1
      PROVE  /\ StartsWith(b, ".") /\ Tail(b) # <<>> /\ Tail(b)[1] = Tail(s)[1] /\ Tail(s) # <<>>
             /\ \A set : All(Tail(s), set) => All(Tail(b), set)
  <2>1. /\ Tail(b) \in Seq(S) /\ Len(Tail(b)) = k - 1
        /\ \A j \in 1 .. k - 1 : Tail(b)[j] = b[j + 1]
    BY <1>1, <1>2, HeadTailProperties
  <2>2. /\ Tail(s) \in Seq(S) /\ Len(Tail(s)) = Len(s) - 1
        /\ \A j \in 1 .. Len(s) - 1 : Tail(s)[j] = s[j + 1]
    BY <1>1, HeadTailProperties
  <2>3. \A j \in 1 .. k - 1 : j \in 1 .. Len(s) - 1 /\ Tail(b)[j] = Tail(s)[j]
    BY <1>1, <1>2, <2>1, <2>2
  <2>4. ASSUME NEW set, All(Tail(s), set)
        PROVE  All(Tail(b), set)
    <3>1. \A j \in 1 .. Len(Tail(s)) : Tail(s)[j] \in set
      BY <2>2, <2>4, AllCharacters
    <3>2. \A j \in 1 .. Len(Tail(b)) : Tail(b)[j] \in set
      BY <1>1, <1>2, <2>1, <2>2, <2>3, <3>1
    <3> QED BY <2>1, <3>2, AllCharacters
  <2>5. Tail(b) # <<>> /\ Tail(s) # <<>> /\ Tail(b)[1] = Tail(s)[1]
    <3>1. 1 \in 1 .. k - 1 /\ Len(Tail(b)) > 0 /\ Len(Tail(s)) > 0
      BY <1>1, <1>7, <2>1, <2>2
    <3>2. Tail(b) # <<>> /\ Tail(s) # <<>>
      BY <2>1, <2>2, <3>1, NonEmpty
    <3> QED BY <2>3, <3>1, <3>2
  <2> QED BY <1>2, <1>7, <2>4, <2>5 DEF StartsWith
<1>8. CASE IsLabel(s) /\ k > 1
  <2>1. IsLabel(b)
    BY <1>7, <1>8 DEF IsLabel, IsName
  <2> QED BY <2>1, Tokens, WordTokens DEF b
<1>9. CASE IsPartial(s) /\ k > 1
  <2>1. IsPartial(b)
    BY <1>7, <1>9 DEF IsPartial
  <2> QED BY <2>1, Tokens, WordTokens DEF b
<1>10. IsLabel(s) \/ IsPartial(s) => StartsWith(s, ".")
  BY DEF IsLabel, IsPartial
<1>11. k = 1 \/ k > 1
  OBVIOUS
<1> QED BY <1>4, <1>5, <1>6, <1>8, <1>9, <1>10, <1>11, WordTokens

LEMMA MantissaBegins ==
  ASSUME NEW S, NEW s \in Seq(S), IsMantissa(s), NEW k \in 1 .. Len(s)
  PROVE  IsMantissa(SubSeq(s, 1, k))
<1> DEFINE b == SubSeq(s, 1, k)
<1>1. Len(s) \in Nat
  BY LenProperties
<1>2. b \in Seq(S) /\ Len(b) = k /\ \A j \in 1 .. k : b[j] = s[j]
  BY <1>1, Part
<1>3. PICK m \in 1 .. Len(s) :
        /\ All(SubSeq(s, 1, m), Digit)
        /\ m = Len(s) \/ (s[m + 1] = "." /\ All(From(s, m + 2), Digit))
  BY DEF IsMantissa
<1>4. \A j \in 1 .. m : s[j] \in Digit
  BY <1>1, <1>3, AllTo
<1> DEFINE n == IF k <= m THEN k ELSE m
<1>5. n \in 1 .. k /\ n \in 1 .. m
  BY <1>1
<1>6. All(SubSeq(b, 1, n), Digit)
  <2>1. n \in 0 .. Len(b) /\ \A j \in 1 .. n : b[j] \in Digit
    BY <1>1, <1>2, <1>4, <1>5
  <2> HIDE DEF b, n
  <2> QED BY <1>2, <2>1, AllTo
<1>7. CASE k <= m
  <2>1. n = k
    BY <1>7
  <2> HIDE DEF b, n
  <2> QED BY <1>2, <1>5, <1>6, <2>1 DEF IsMantissa, b
<1>8. CASE k > m
  <2>1. n = m /\ m < Len(s) /\ m + 2 \in 1 .. k + 1 /\ m + 2 \in 1 .. Len(s) + 1
    BY <1>1, <1>8
  <2>2. s[m + 1] = "." /\ All(From(s, m + 2), Digit)
    BY <1>3, <2>1
  <2>3. \A j \in m + 2 .. Len(s) : s[j] \in Digit
    BY <2>1, <2>2, AllFrom
  <2>4. b[m + 1] = "." /\ \A j \in m + 2 .. k : b[j] \in Digit
    BY <1>1, <1>2, <1>8, <2>2, <2>3
  <2> HIDE DEF b, n
  <2>5. All(From(b, m + 2), Digit)
    BY <1>2, <2>1, <2>4, AllFrom
  <2> QED BY <1>2, <1>5, <1>6, <2>1, <2>4, <2>5 DEF IsMantissa, b
<1>9. k <= m \/ k > m
  BY <1>1
<1> QED BY <1>7, <1>8, <1>9

LEMMA ExponentBegins ==
  ASSUME NEW S, NEW s \in Seq(S), IsExponent(s), NEW k \in 1 .. Len(s)
  PROVE  IsExponent(SubSeq(s, 1, k))
<1> DEFINE b == SubSeq(s, 1, k)
           Signed(e) == Len(e) > 1 /\ e[2] \in {"+", "-"}
           Digits(e) == IF Signed(e) THEN 3 ELSE 2
<1>1. Len(s) \in Nat /\ s # <<>>
  BY LenProperties
<1>2. b \in Seq(S) /\ Len(b) = k /\ \A j \in 1 .. k : b[j] = s[j]
  BY <1>1, Part
<1>3. s[1] \in {"E", "e"} /\ All(From(s, Digits(s)), Digit)
  BY <1>1 DEF IsExponent
<1>4. Digits(s) \in 2 .. Len(s) + 1
  BY <1>1
<1>5. \A j \in Digits(s) .. Len(s) : s[j] \in Digit
  <2> HIDE DEF Digits
  <2>1. Digits(s) \in 1 .. Len(s) + 1
    BY <1>1, <1>4
  <2> QED BY <1>3, <2>1, AllFrom
<1>6. Digits(b) \in 1 .. k + 1 /\ (k > 1 => Digits(b) = Digits(s)) /\ (k = 1 => Digits(b) = 2)
  BY <1>1, <1>2
<1>7. \A j \in Digits(b) .. k : b[j] \in Digit
  <2> HIDE DEF b, Digits
  <2> QED BY <1>1, <1>2, <1>4, <1>5, <1>6
<1>8. All(From(b, Digits(b)), Digit)
  <2> HIDE DEF b, Digits
  <2> QED BY <1>2, <1>6, <1>7, AllFrom
<1>9. b[1] \in {"E", "e"}
  BY <1>1, <1>2, <1>3
<1> HIDE DEF b
<1>10. IsExponent(b)
  BY <1>8, <1>9 DEF IsExponent
<1> QED BY <1>10 DEF b

LEMMA RealBegins ==
  ASSUME NEW S, NEW s \in Seq(S), IsReal(s), NEW k \in 1 .. Len(s)
  PROVE  MatchingTokens(SubSeq(s, 1, k)) # <<>>
<1> DEFINE b == SubSeq(s, 1, k)
<1>1. Len(s) \in Nat
  BY LenProperties
<1>2. b \in Seq(S) /\ Len(b) = k
  BY <1>1, Part
<1>3. PICK m \in 1 .. Len(s) : IsMantissa(SubSeq(s, 1, m)) /\ IsExponent(From(s, m + 1))
  BY DEF IsReal
<1>4. CASE k <= m
  <2>1. SubSeq(s, 1, m) \in Seq(S) /\ Len(SubSeq(s, 1, m)) = m /\ k \in 1 .. m
    BY <1>1, <1>4, Part
  <2>2. SubSeq(SubSeq(s, 1, m), 1, k) = b
    BY <1>1, <2>1, PartOfBeginning
  <2>3. IsMantissa(b)
    BY <1>3, <2>1, <2>2, MantissaBegins
  <2> HIDE DEF b
  <2>4. SubSeq(b, 1, k) = b
    BY <1>2, SubSeqFull
  <2>5. From(b, k + 1) = <<>>
    BY <1>1, <1>2, SubSeqEmpty DEF From
  <2>6. IsReal(b)
    <3>1. IsExponent(From(b, k + 1))
      BY <2>5 DEF IsExponent
    <3>2. IsMantissa(SubSeq(b, 1, k))
      BY <2>3, <2>4
    <3>3. k \in 1 .. Len(b)
      BY <1>1, <1>2
    <3> QED BY <3>1, <3>2, <3>3 DEF IsReal
  <2> QED BY <2>6, Tokens DEF b
<1>5. CASE k > m
  <2>1. SubSeq(b, 1, m) = SubSeq(s, 1, m)
    BY <1>1, <1>5, PartOfBeginning
  <2>2. From(b, m + 1) = SubSeq(s, m + 1, k)
    BY <1>1, <1>2, <1>5, PartOfBeginning DEF From
  <2> DEFINE e == From(s, m + 1)
  <2>3. /\ e \in Seq(S) /\ Len(e) = Len(s) - m
        /\ \A j \in 1 .. Len(s) - m : e[j] = s[m + j]
    BY <1>1, <1>5, Part DEF From
  <2>4. SubSeq(e, 1, k - m) = SubSeq(s, m + 1, k)
    <3> DEFINE x == SubSeq(e, 1, k - m)
               y == SubSeq(s, m + 1, k)
    <3>1. /\ y \in Seq(S) /\ Len(y) = k - m
          /\ \A j \in 1 .. k - m : y[j] = s[m + j]
      BY <1>1, <1>5, Part
    <3>2. x \in Seq(S) /\ Len(x) = k - m /\ \A j \in 1 .. k - m : x[j] = e[j]
      <4> HIDE DEF e
      <4> QED BY <1>1, <1>5, <2>3, Part
    <3>3. \A j \in 1 .. Len(x) : x[j] = y[j]
      BY <1>1, <1>5, <2>3, <3>1, <3>2
    <3> HIDE DEF x, y
    <3>4. x = y
      BY <3>1, <3>2, <3>3, SeqEqual
    <3> QED BY <3>4 DEF x, y
  <2>5. IsExponent(SubSeq(e, 1, k - m))
    <3> HIDE DEF e
    <3>1. k - m \in 1 .. Len(e)
      BY <1>1, <1>5, <2>3
    <3> QED BY <1>3, <2>3, <3>1, ExponentBegins DEF e
  <2> HIDE DEF b, e
  <2>6. IsReal(b)
    <3>1. IsMantissa(SubSeq(b, 1, m))
      BY <1>3, <2>1
    <3>2. IsExponent(From(b, m + 1))
      BY <2>2, <2>4, <2>5
    <3>3. m \in 1 .. Len(b)
      BY <1>1, <1>2, <1>5
    <3> QED BY <3>1, <3>2, <3>3 DEF IsReal
  <2> QED BY <2>6, Tokens DEF b
<1>6. k <= m \/ k > m
  BY <1>1
<1> QED BY <1>4, <1>5, <1>6

\* Reading can stop at the first character with which there is no match: nothing
\* longer is a token, either (GetNextToken breaks its loop there).
THEOREM TokensBegin ==
  ASSUME NEW S, NEW s \in Seq(S), MatchingTokens(s) # <<>>, NEW k \in 1 .. Len(s)
  PROVE  MatchingTokens(SubSeq(s, 1, k)) # <<>>
<1>1. s \in DOMAIN Operators => s \in Spellings
  BY DEF Spellings
<1> QED BY <1>1, Tokens, IntBegins, RealBegins, WordBegins, Spelling

\* No token holds the end of a line.
LEMMA NoLineEnd ==
  ASSUME NEW S, NEW s \in Seq(S), MatchingTokens(s) # <<>>, NEW k \in 1 .. Len(s)
  PROVE  s[k] # NL
<1>1. Len(s) \in Nat /\ NL \notin Digit /\ NL \notin Letter /\ NL # "." /\ NL \notin {"E", "e", "+", "-"}
  BY LenProperties, SpellingsAssumption DEF NL
<1>2. CASE s \in Spellings
  BY <1>2, SpellingsAssumption, RangeEquality
<1>3. CASE s \notin Radix /\ IsInt(s)
  <2>1. PICK r \in Radix \cup {<<>>} :
          IsPrefix(r, s) /\ Len(s) > Len(r) /\ All(From(s, Len(r) + 1), Digit)
    BY <1>3 DEF IsInt
  <2>2. Len(r) \in Nat
    <3>1. r \in Radix => r \in Seq(Range(r))
      BY SpellingsAssumption DEF Spellings
    <3>2. Len(<<>>) = 0
      OBVIOUS
    <3> QED BY <3>1, <3>2, LenProperties
  <2>3. CASE k > Len(r)
    BY <1>1, <2>1, <2>2, <2>3, AllFrom
  <2>4. CASE k <= Len(r)
    <3>1. k \in 1 .. Len(r) /\ r \in Spellings
      BY <2>1, <2>2, <2>4 DEF Spellings
    <3>2. r \in Seq(Range(r)) /\ r[k] # NL
      BY <3>1, SpellingsAssumption, RangeEquality
    <3>3. SubSeq(r, 1, Len(r)) = r
      BY <3>2, SubSeqFull
    <3>4. SubSeq(s, 1, Len(r))[k] = s[k]
      BY <1>1, <2>1, <2>2, <3>1, Part
    <3> QED BY <2>1, <3>2, <3>3, <3>4 DEF IsPrefix
  <2> QED BY <1>1, <2>2, <2>3, <2>4
<1>4. CASE IsReal(s)
  <2>1. PICK m \in 1 .. Len(s) : IsMantissa(SubSeq(s, 1, m)) /\ IsExponent(From(s, m + 1))
    BY <1>4 DEF IsReal
  <2>2. CASE k <= m
    <3> DEFINE t == SubSeq(s, 1, m)
    <3>1. t \in Seq(S) /\ Len(t) = m /\ \A j \in 1 .. m : t[j] = s[j]
      BY <1>1, Part
    <3> HIDE DEF t
    <3>2. PICK n \in 1 .. Len(t) :
            /\ All(SubSeq(t, 1, n), Digit)
            /\ n = Len(t) \/ (t[n + 1] = "." /\ All(From(t, n + 2), Digit))
      BY <2>1 DEF IsMantissa, t
    <3>3. CASE k <= n
      <4>1. n \in 0 .. Len(t) /\ k \in 1 .. n
        BY <1>1, <3>1, <3>2, <3>3
      <4>2. t[k] \in Digit
        BY <3>1, <3>2, <4>1, AllTo
      <4> QED BY <1>1, <2>2, <3>1, <4>2
    <3>4. CASE k = n + 1
      BY <1>1, <2>2, <3>1, <3>2, <3>4
    <3>5. CASE k > n + 1
      <4>1. n + 2 \in 1 .. Len(t) + 1 /\ k \in n + 2 .. Len(t) /\ n # Len(t)
        BY <1>1, <2>2, <3>1, <3>2, <3>5
      <4> QED BY <1>1, <2>2, <3>1, <3>2, <4>1, AllFrom
    <3> QED BY <1>1, <3>3, <3>4, <3>5
  <2>3. CASE k > m
    <3> DEFINE e == From(s, m + 1)
    <3>1. e \in Seq(S) /\ Len(e) = Len(s) - m /\ \A j \in 1 .. Len(s) - m : e[j] = s[m + j]
      BY <1>1, <2>3, Part DEF From
    <3> HIDE DEF e
    <3>2. Len(e) > 0 /\ e # <<>>
      BY <1>1, <2>3, <3>1, NonEmpty
    <3> DEFINE d == IF Len(e) > 1 /\ e[2] \in {"+", "-"} THEN 3 ELSE 2
    <3>3. e[1] \in {"E", "e"} /\ All(From(e, d), Digit)
      BY <2>1, <3>2 DEF IsExponent, e
    <3>4. d \in 1 .. Len(e) + 1 /\ (d = 3 => e[2] \in {"+", "-"}) /\ d \in {2, 3}
      BY <1>1, <3>1, <3>2
    <3> HIDE DEF d
    <3>5. \A j \in d .. Len(e) : e[j] \in Digit
      BY <3>1, <3>3, <3>4, AllFrom
    <3>6. k - m \in 1 .. Len(e) /\ e[k - m] = s[k]
      BY <1>1, <2>3, <3>1
    <3>7. k - m = 1 \/ (k - m = 2 /\ d = 3) \/ k - m \in d .. Len(e)
      BY <1>1, <3>1, <3>4, <3>6
    <3>8. e[k - m] # NL
      BY <1>1, <3>3, <3>4, <3>5, <3>7
    <3> QED BY <3>6, <3>8
  <2> QED BY <1>1, <2>2, <2>3
<1>5. CASE Word(s) # <<>> /\ s \notin Spellings
  <2>1. IsName(s) \/ IsLabel(s) \/ IsPartial(s)
    BY <1>5, WordTokens DEF Spellings
  <2>2. CASE IsName(s)
    BY <1>1, <2>2, AllCharacters DEF IsName
  <2>3. CASE IsLabel(s) \/ IsPartial(s)
    <3>1. s[1] = "." /\ s # <<>>
      BY <2>3 DEF IsLabel, IsPartial, StartsWith
    <3>2. /\ Tail(s) \in Seq(S) /\ Len(Tail(s)) = Len(s) - 1
          /\ \A j \in 1 .. Len(s) - 1 : Tail(s)[j] = s[j + 1]
      BY <3>1, HeadTailProperties
    <3>3. All(Tail(s), Letter \cup Digit)
      BY <2>3, <3>2, AllCharacters DEF IsLabel, IsName, IsPartial
    <3>4. CASE k > 1
      <4>1. k - 1 \in 1 .. Len(Tail(s)) /\ Tail(s)[k - 1] = s[k]
        BY <1>1, <3>2, <3>4
      <4>2. Tail(s)[k - 1] \in Letter \cup Digit
        BY <3>2, <3>3, <4>1, AllCharacters
      <4> QED BY <1>1, <4>1, <4>2
    <3> QED BY <1>1, <3>1, <3>4
  <2> QED BY <2>1, <2>2, <2>3
<1> QED BY <1>2, <1>3, <1>4, <1>5, Tokens DEF Spellings

-----------------------------------------------------------------------------
(* The inductive invariant.                                                *)

\* Where the last token ends.
LastEnd == IF tokens = <<>> THEN 0 ELSE tokens[Len(tokens)].to

\* What EveryCharacterOnce, LongestMatch and RightLine say of a token after another
\* that ends at character previous, and of all tokens.
Correct(t, previous) ==
  /\ Follows(t, previous)
  /\ t.id \notin {"STR", "HALT"} => IsLongest(t)
  /\ t.line = 1 + Cardinality(LineEnds(t.to))
TokensInv ==
  /\ tokens \in Seq(Range(tokens))
  /\ \A k \in DOMAIN tokens : Correct(tokens[k], IF k = 1 THEN 0 ELSE tokens[k - 1].to)
Rejected == status = "throws" => BadBits(Extended) \/ Beginnings(pos + 1) = {}

\* A match, and what has been read of a string, begins at start.
TypeInv ==
  /\ TypeOK
  /\ longest # <<>> => start \in 1 .. pos /\ longest = MatchingTokens(input)
  /\ inString => /\ ~inComment /\ start \in 1 .. pos
                 /\ text[start] = Quote /\ \A p \in start + 1 .. pos : text[p] # Quote

\* What was read after the last token can be skipped, but for what is being read.
ReadInv ==
  /\ LastEnd \in 0 .. pos
  /\ longest # <<>> \/ inString => LastEnd < start /\ Skippable(LastEnd + 1, start - 1)
  /\ longest = <<>> /\ ~inString => Skippable(LastEnd + 1, pos)
  /\ inComment => \E q \in LastEnd + 1 .. pos : text[q] = "!" /\ \A r \in q .. pos : text[r] # NL
  /\ line = 1 + Cardinality(LineEnds(pos))

IInv == TypeInv /\ TokensInv /\ Rejected /\ (status = "reading" => ReadInv)

\* What a token has to satisfy depends on nothing but the text.
LEMMA SameText ==
  ASSUME text' = text
  PROVE  \A t, previous : Correct(t, previous)' <=> Correct(t, previous)
<1>1. \A i, j : Skippable(i, j)' <=> Skippable(i, j)
  BY DEF Skippable
<1>2. \A i : Unclosed(i)' <=> Unclosed(i)
  BY DEF Unclosed
<1>3. \A i : Beginnings(i)' = Beginnings(i)
  BY DEF Beginnings
<1>4. \A n : LineEnds(n)' = LineEnds(n)
  BY DEF LineEnds
<1>5. \A t, previous : Follows(t, previous)' <=> Follows(t, previous)
  BY <1>1, <1>2 DEF Follows
<1>6. \A t : IsLongest(t)' <=> IsLongest(t)
  BY <1>3 DEF IsLongest
<1> QED BY <1>4, <1>5, <1>6 DEF Correct

LEMMA TokensKept ==
  ASSUME TokensInv, UNCHANGED <<text, tokens>>
  PROVE  TokensInv' /\ LastEnd' = LastEnd
BY SameText DEF TokensInv, LastEnd

LEMMA TokenAdded ==
  ASSUME TokensInv, text' = text,
         NEW id, NEW from, NEW to, NEW value,
         Correct([id |-> id, from |-> from, to |-> to, line |-> line, value |-> value], LastEnd),
         tokens' = Append(tokens, [id |-> id, from |-> from, to |-> to, line |-> line,
                                   value |-> value])
  PROVE  TokensInv' /\ LastEnd' = to
<1> DEFINE t == [id |-> id, from |-> from, to |-> to, line |-> line, value |-> value]
<1>1. /\ tokens' \in Seq(Range(tokens'))
      /\ Len(tokens) \in Nat /\ Len(tokens') = Len(tokens) + 1
      /\ DOMAIN tokens = 1 .. Len(tokens) /\ DOMAIN tokens' = 1 .. Len(tokens) + 1
      /\ \A i \in 1 .. Len(tokens) : tokens'[i] = tokens[i]
      /\ tokens'[Len(tokens) + 1] = t
  BY AppendAny DEF TokensInv
<1>2. (tokens \in Seq(Range(tokens)))'
  BY <1>1 DEF Range
<1> DEFINE before(k) == IF k = 1 THEN 0 ELSE tokens[k - 1].to
<1>3. ASSUME NEW k \in DOMAIN tokens'
      PROVE  Correct(tokens[k], before(k))'
  <2>1. Correct(tokens'[k], IF k = 1 THEN 0 ELSE tokens'[k - 1].to)
    <3>1. CASE k = Len(tokens) + 1
      <4>1. tokens'[k] = t
        BY <1>1, <3>1
      <4>2. (IF k = 1 THEN 0 ELSE tokens'[k - 1].to) = LastEnd
        <5>1. tokens # <<>> <=> Len(tokens) > 0
          BY NonEmpty DEF TokensInv
        <5>2. k = 1 <=> tokens = <<>>
          BY <1>1, <3>1, <5>1
        <5>3. PICK n \in Nat : n = Len(tokens) /\ k = n + 1
          BY <1>1, <3>1
        <5>4. k - 1 = n /\ (k # 1 => n \in 1 .. Len(tokens))
          BY <1>1, <5>3
        <5> QED BY <1>1, <5>2, <5>3, <5>4 DEF LastEnd
      <4> QED BY <4>1, <4>2
    <3>2. CASE k # Len(tokens) + 1
      <4>1. k \in 1 .. Len(tokens) /\ (k # 1 => k - 1 \in 1 .. Len(tokens))
        BY <1>1, <3>2
      <4>2. tokens'[k] = tokens[k] /\ (k # 1 => tokens'[k - 1] = tokens[k - 1])
        BY <1>1, <4>1
      <4>3. Correct(tokens[k], before(k))
        BY <1>1, <4>1 DEF TokensInv
      <4> QED BY <4>2, <4>3
    <3> QED BY <3>1, <3>2
  <2> QED BY <2>1, SameText
<1>4. LastEnd' = to
  BY <1>1 DEF LastEnd
<1>5. TokensInv'
  BY <1>2, <1>3 DEF TokensInv
<1> QED BY <1>4, <1>5

-----------------------------------------------------------------------------
(* What is read between two tokens, and in one.                            *)

LEMMA TextType ==
  ASSUME TypeOK
  PROVE  text \in Seq(Range(text)) /\ Len(text) \in Nat /\ pos \in 0 .. Len(text)
BY InputsAssumption, LenProperties DEF TypeOK

\* The longest match is found where reading stops: no token begins at i and goes
\* beyond a character j with which there is no match.
LEMMA StopsAtLongest ==
  ASSUME TypeOK, NEW i \in 1 .. Len(text), NEW j \in i .. Len(text),
         MatchingTokens(SubSeq(text, i, j)) = <<>>
  PROVE  \A n \in Beginnings(i) : n <= j - i
<1>1. text \in Seq(Range(text)) /\ Len(text) \in Nat
  BY TextType
<1> SUFFICES ASSUME NEW n \in Beginnings(i), n > j - i
             PROVE  FALSE
  BY <1>1 DEF Beginnings
<1>2. /\ n \in 1 .. Len(text) - i + 1
      /\ MatchingTokens(SubSeq(text, i, i + n - 1)) # <<>>
  BY DEF Beginnings
<1> DEFINE s == SubSeq(text, i, i + n - 1)
           k == j - i + 1
<1>3. k \in 1 .. n
  BY <1>1, <1>2
<1>4. /\ s \in Seq(Range(text)) /\ Len(s) = n
      /\ \A l \in 1 .. n : s[l] = text[i + l - 1]
  <2>1. PICK m \in i - 1 .. Len(text) : m = i + n - 1
    BY <1>1, <1>2
  <2>2. i \in 1 .. Len(text) + 1 /\ m - i + 1 = n
    BY <1>1, <1>2, <2>1
  <2>3. /\ SubSeq(text, i, m) \in Seq(Range(text)) /\ Len(SubSeq(text, i, m)) = m - i + 1
        /\ \A l \in 1 .. m - i + 1 : SubSeq(text, i, m)[l] = text[i + l - 1]
    BY <1>1, <2>2, Part
  <2> QED BY <2>1, <2>2, <2>3
<1> HIDE DEF s, k
<1>5. MatchingTokens(SubSeq(s, 1, k)) # <<>>
  BY <1>2, <1>3, <1>4, TokensBegin DEF s
<1>6. SubSeq(s, 1, k) = SubSeq(text, i, j)
  <2> DEFINE x == SubSeq(s, 1, k)
             y == SubSeq(text, i, j)
  <2>1. x \in Seq(Range(text)) /\ Len(x) = k /\ \A l \in 1 .. k : x[l] = s[l]
    BY <1>2, <1>3, <1>4, Part
  <2>2. y \in Seq(Range(text)) /\ Len(y) = k /\ \A l \in 1 .. k : y[l] = text[i + l - 1]
    BY <1>1, <1>2, Part, SMTT(30) DEF k
  <2>3. \A l \in 1 .. k : x[l] = y[l]
    BY <1>2, <1>3, <1>4, <2>1, <2>2
  <2> HIDE DEF x, y
  <2>4. x = y
    BY <2>1, <2>2, <2>3, SeqEqual
  <2> QED BY <2>4 DEF x, y
<1> QED BY <1>5, <1>6

\* What the search looks at.
LEMMA Searched ==
  ASSUME TypeInv, Searching
  PROVE  /\ Begin \in 1 .. pos + 1 /\ pos + 1 \in 1 .. Len(text)
         /\ Extended = SubSeq(text, Begin, pos + 1)
<1>1. /\ text \in Seq(Range(text)) /\ Len(text) \in Nat /\ pos \in 0 .. Len(text)
      /\ pos < Len(text)
  BY TextType DEF TypeInv, Searching, Reading
<1>2. CASE longest = <<>>
  <2>1. input = <<>> /\ Begin = pos + 1
    BY <1>2 DEF TypeInv, TypeOK, Searching, Begin
  <2>2. SubSeq(text, pos + 1, pos) = <<>>
    BY <1>1, SubSeqEmpty
  <2> QED BY <1>1, <2>1, <2>2, PartGrows DEF Extended, Char
<1>3. CASE longest # <<>>
  <2>1. start \in 1 .. pos /\ input = SubSeq(text, start, pos) /\ Begin = start
    BY <1>3 DEF TypeInv, TypeOK, Begin
  <2> QED BY <1>1, <2>1, PartGrows DEF Extended, Char
<1> QED BY <1>2, <1>3

\* The line that GetAllTokens counts.
LEMMA LineTaken ==
  ASSUME NEW n \in Nat
  PROVE  /\ Cardinality(LineEnds(n)) \in Nat
         /\ text[n + 1] # NL => LineEnds(n + 1) = LineEnds(n)
         /\ text[n + 1] = NL => Cardinality(LineEnds(n + 1)) = Cardinality(LineEnds(n)) + 1
<1>1. IsFiniteSet(LineEnds(n)) /\ n + 1 \notin LineEnds(n)
  <2>1. IsFiniteSet(1 .. n) /\ LineEnds(n) \subseteq 1 .. n
    BY FS_Interval DEF LineEnds
  <2> QED BY <2>1, FS_Subset
<1>2. text[n + 1] = NL => LineEnds(n + 1) = LineEnds(n) \cup {n + 1}
  BY DEF LineEnds
<1>3. text[n + 1] # NL => LineEnds(n + 1) = LineEnds(n)
  BY DEF LineEnds
<1> QED BY <1>1, <1>2, <1>3, FS_AddElement, FS_CardinalityType

LEMMA LineStep ==
  ASSUME pos \in Nat, line = 1 + Cardinality(LineEnds(pos)), text' = text, pos' = pos + 1,
         line' = IF Char = NL THEN line + 1 ELSE line
  PROVE  (line = 1 + Cardinality(LineEnds(pos)))'
<1> DEFINE c == Cardinality(LineEnds(pos))
           d == Cardinality(LineEnds(pos + 1))
<1>1. /\ c \in Nat /\ (Char = NL => d = c + 1) /\ (Char # NL => d = c)
  BY LineTaken DEF Char
<1>2. line = 1 + c
  OBVIOUS
<1>3. line' = 1 + d
  <2> HIDE DEF c, d
  <2> QED BY <1>1, <1>2
<1> QED BY <1>3 DEF LineEnds

\* A blank, the end of a line and a character of a comment can be skipped.
LEMMA Skipped ==
  ASSUME NEW i \in Nat, NEW j \in Nat, Skippable(i, j),
         \/ text[j + 1] \in Blanks \cup {NL}
         \/ \E q \in i .. j + 1 : text[q] = "!" /\ \A r \in q .. j + 1 : text[r] # NL
  PROVE  Skippable(i, j + 1)
BY DEF Skippable

-----------------------------------------------------------------------------
(* Every step keeps the invariant.                                         *)

LEMMA QuoteInLine == Quote # NL
BY DEF Quote, NL

LEMMA TypeInvStep == TypeInv /\ [Next]_vars => TypeInv'
<1> SUFFICES ASSUME TypeInv, [Next]_vars
             PROVE  TypeInv'
  OBVIOUS
<1>1. /\ text \in Seq(Range(text)) /\ Len(text) \in Nat /\ pos \in 0 .. Len(text)
      /\ TypeOK
  BY TextType DEF TypeInv
<1> USE DEF TypeInv, TypeOK, stream
<1>2. CASE SkipComment
  BY <1>1, <1>2 DEF SkipComment, Reading, Take
<1>3. CASE OpenString
  BY <1>1, <1>3, QuoteInLine DEF OpenString, Free, Reading, Take, Char
<1>4. CASE CloseString
  BY <1>1, <1>4 DEF CloseString, Return, Free, Reading, Take
<1>5. CASE BeginComment
  BY <1>1, <1>5 DEF BeginComment, Free, Reading, Take
<1>6. CASE Blank
  BY <1>1, <1>6 DEF Blank, Free, Reading, Take
<1>7. CASE NewLine
  BY <1>1, <1>7, QuoteInLine DEF NewLine, Free, Reading, Take, Char
<1>8. CASE StringChar
  BY <1>1, <1>8 DEF StringChar, Free, Reading, Take, Char
<1>9. CASE Match
  <2>1. Begin \in 1 .. pos + 1 /\ Extended = SubSeq(text, Begin, pos + 1)
    BY <1>9, Searched DEF Match
  <2> QED BY <1>1, <1>9, <2>1 DEF Match, Searching, Reading, Take
<1>10. CASE MatchAtEnd
  BY <1>1, <1>10 DEF MatchAtEnd, Return, Take
<1>11. CASE NoMatch
  BY <1>1, <1>11 DEF NoMatch, Return
<1>12. CASE Invalid
  BY <1>1, <1>12 DEF Invalid
<1>13. CASE EndOfInput
  BY <1>1, <1>13 DEF EndOfInput
<1>14. CASE Stopped \/ UNCHANGED vars
  BY <1>1, <1>14 DEF Stopped, vars
<1> QED BY <1>2, <1>3, <1>4, <1>5, <1>6, <1>7, <1>8, <1>9, <1>10, <1>11, <1>12, <1>13, <1>14
        DEF Next, GetNextToken

\* The tokens that are returned.
LEMMA StringCorrect ==
  ASSUME IInv, CloseString, NEW value
  PROVE  Correct([id |-> "STR", from |-> start, to |-> pos + 1, line |-> line, value |-> value],
                 LastEnd)
<1> DEFINE t == [id |-> "STR", from |-> start, to |-> pos + 1, line |-> line, value |-> value]
<1>1. Len(text) \in Nat /\ pos \in 0 .. Len(text) /\ pos < Len(text)
  BY TextType DEF IInv, TypeInv, CloseString, Free, Reading
<1>2. ReadInv /\ inString /\ Char = Quote
  BY DEF IInv, CloseString, Free, Reading
<1>3. LastEnd < start /\ Skippable(LastEnd + 1, start - 1)
  BY <1>2 DEF ReadInv
<1>4. /\ start \in 1 .. pos
      /\ text[start] = Quote /\ \A p \in start + 1 .. pos : text[p] # Quote
  BY <1>2 DEF IInv, TypeInv
<1>5. {p \in start .. pos + 1 : text[p] = Quote} = {start, pos + 1} /\ start < pos + 1
  BY <1>1, <1>2, <1>4 DEF Char
<1>6. Follows(t, LastEnd)
  BY <1>3, <1>5 DEF Follows
<1>7. line = 1 + Cardinality(LineEnds(pos + 1))
  <2>1. pos \in Nat /\ text[pos + 1] # NL
    BY <1>1, <1>2, QuoteInLine DEF Char
  <2> QED BY <1>2, <2>1, LineTaken DEF ReadInv
<1> QED BY <1>6, <1>7 DEF Correct

LEMMA EndCorrect ==
  ASSUME IInv, EndOfInput
  PROVE  Correct([id |-> "HALT", from |-> pos + 1, to |-> pos, line |-> line, value |-> <<>>],
                 LastEnd)
<1> DEFINE t == [id |-> "HALT", from |-> pos + 1, to |-> pos, line |-> line, value |-> <<>>]
<1>1. Len(text) \in Nat /\ pos = Len(text) /\ longest = <<>>
  BY TextType DEF IInv, TypeInv, TypeOK, EndOfInput
<1>2. ReadInv
  BY DEF IInv, EndOfInput
<1>3. LastEnd \in 0 .. pos
  BY <1>2 DEF ReadInv
<1>4. CASE ~inString
  <2>1. Skippable(LastEnd + 1, pos + 1 - 1)
    BY <1>1, <1>2, <1>4 DEF ReadInv
  <2> QED BY <1>1, <1>2, <1>3, <2>1 DEF Correct, Follows, ReadInv
<1>5. CASE inString
  <2>1. LastEnd < start /\ Skippable(LastEnd + 1, start - 1) /\ start \in 1 .. pos
    BY <1>2, <1>5 DEF IInv, TypeInv, ReadInv
  <2>2. Unclosed(start)
    BY <1>1, <1>5 DEF IInv, TypeInv, Unclosed
  <2>3. start \in LastEnd + 1 .. Len(text)
    BY <1>1, <1>3, <2>1
  <2> QED BY <1>1, <1>2, <1>3, <2>1, <2>2, <2>3 DEF Correct, Follows, ReadInv
<1> QED BY <1>4, <1>5

\* A match that cannot be made longer, because the text ends or there is no match
\* with the next character.
LEMMA MatchCorrect ==
  ASSUME IInv, ReadInv, NEW from, NEW to \in Nat, from \in 1 .. to, to \in pos .. Len(text),
         LastEnd < from, Skippable(LastEnd + 1, from - 1),
         MatchingTokens(SubSeq(text, from, to)) # <<>>,
         to = pos \/ to = pos + 1,
         to = Len(text) \/ MatchingTokens(SubSeq(text, from, to + 1)) = <<>>
  PROVE  Correct([id |-> MatchingTokens(SubSeq(text, from, to))[1], from |-> from, to |-> to,
                  line |-> line, value |-> <<>>], LastEnd)
<1> DEFINE id == MatchingTokens(SubSeq(text, from, to))[1]
           t == [id |-> id, from |-> from, to |-> to, line |-> line, value |-> <<>>]
<1>1. text \in Seq(Range(text)) /\ Len(text) \in Nat /\ pos \in 0 .. Len(text)
  BY TextType DEF IInv, TypeInv
<1>2. id # "STR" /\ id # "HALT"
  BY Tokens
<1>3. Follows(t, LastEnd)
  BY <1>2 DEF Follows
<1>4. \A n \in Beginnings(from) : n <= to - from + 1
  <2>1. CASE to = Len(text)
    BY <1>1, <2>1 DEF Beginnings
  <2>2. CASE to # Len(text)
    <3>1. to + 1 \in from .. Len(text) /\ from \in 1 .. Len(text) /\ to + 1 - from = to - from + 1
      BY <1>1, <2>2
    <3>2. \A n \in Beginnings(from) : n <= to + 1 - from
      BY <2>2, <3>1, StopsAtLongest DEF IInv, TypeInv
    <3> QED BY <3>1, <3>2
  <2> QED BY <2>1, <2>2
<1>5. IsLongest(t)
  BY <1>4 DEF IsLongest
<1>6. line = 1 + Cardinality(LineEnds(to))
  <2>1. CASE to = pos
    BY <2>1 DEF ReadInv
  <2>2. CASE to = pos + 1
    <3> DEFINE s == SubSeq(text, from, to)
    <3>1. PICK k \in Nat : k = to - from + 1 /\ k \in 1 .. k /\ from + k - 1 = to
      BY <1>1
    <3>2. s \in Seq(Range(text)) /\ Len(s) = k /\ s[k] = text[to]
      BY <1>1, <3>1, Part, SMTT(30)
    <3> HIDE DEF s
    <3>3. text[to] # NL
      BY <3>1, <3>2, NoLineEnd DEF s
    <3>4. pos \in Nat /\ text[pos + 1] # NL
      BY <1>1, <2>2, <3>3
    <3> QED BY <2>2, <3>4, LineTaken DEF ReadInv
  <2> QED BY <2>1, <2>2
<1> QED BY <1>2, <1>3, <1>5, <1>6 DEF Correct

\* A character that is not part of a token: nothing is returned.
LEMMA SkipStep ==
  ASSUME IInv, TokensInv', UNCHANGED <<text, tokens>>, ReadInv, status = "reading",
         pos' = pos + 1, pos < Len(text), longest' = <<>>, longest = <<>>,
         ~inString, ~inString',
         line' = IF Char = NL THEN line + 1 ELSE line,
         \/ Char \in Blanks \cup {NL} /\ ~inComment'
         \/ Char # NL /\ (Char = "!" \/ inComment)
  PROVE  ReadInv'
<1>1. Len(text) \in Nat /\ pos \in 0 .. Len(text) /\ LastEnd' = LastEnd /\ LastEnd \in 0 .. pos
  BY TextType, TokensKept DEF IInv, TypeInv, ReadInv
<1>2. (line = 1 + Cardinality(LineEnds(pos)))'
  BY <1>1, LineStep DEF ReadInv
<1>3. ASSUME Char # NL, Char = "!" \/ inComment
      PROVE  \E q \in LastEnd + 1 .. pos + 1 : text[q] = "!" /\ \A r \in q .. pos + 1 : text[r] # NL
  <2>1. CASE Char = "!"
    <3>1. pos + 1 \in LastEnd + 1 .. pos + 1 /\ \A r \in pos + 1 .. pos + 1 : r = pos + 1
      BY <1>1
    <3> QED BY <1>3, <2>1, <3>1 DEF Char
  <2>2. CASE inComment
    <3>1. PICK q \in LastEnd + 1 .. pos : text[q] = "!" /\ \A r \in q .. pos : text[r] # NL
      BY <2>2 DEF ReadInv
    <3>2. q \in LastEnd + 1 .. pos + 1 /\ \A r \in q .. pos + 1 : r \in q .. pos \/ r = pos + 1
      BY <1>1, <3>1
    <3>3. \A r \in q .. pos + 1 : text[r] # NL
      BY <1>3, <3>1, <3>2 DEF Char
    <3> QED BY <3>1, <3>2, <3>3
  <2> QED BY <1>3, <2>1, <2>2
<1>4. Skippable(LastEnd + 1, pos + 1)
  <2>1. LastEnd + 1 \in Nat /\ pos \in Nat /\ Skippable(LastEnd + 1, pos)
    BY <1>1 DEF ReadInv
  <2>2. CASE Char \in Blanks \cup {NL}
    BY <2>1, <2>2, Skipped DEF Char
  <2>3. CASE Char # NL /\ (Char = "!" \/ inComment)
    BY <1>3, <2>1, <2>3, Skipped
  <2> QED BY <2>2, <2>3
<1>5. Skippable(LastEnd + 1, pos)' /\ (LastEnd \in 0 .. pos)'
  BY <1>1, <1>4 DEF Skippable
<1>6. (inComment => \E q \in LastEnd + 1 .. pos : text[q] = "!" /\ \A r \in q .. pos : text[r] # NL)'
  BY <1>1, <1>3
<1> QED BY <1>2, <1>5, <1>6 DEF ReadInv

\* A character of a token that is not complete: it does not begin outside.
LEMMA InsideStep ==
  ASSUME IInv, TokensInv', UNCHANGED <<text, tokens>>, ReadInv, status = "reading",
         pos' = pos + 1, pos < Len(text), ~inComment',
         longest' # <<>> \/ inString',
         IF longest = <<>> /\ ~inString THEN start' = pos + 1 ELSE start' = start,
         line' = IF Char = NL THEN line + 1 ELSE line
  PROVE  ReadInv'
<1>1. Len(text) \in Nat /\ pos \in 0 .. Len(text) /\ LastEnd' = LastEnd /\ LastEnd \in 0 .. pos
  BY TextType, TokensKept DEF IInv, TypeInv, ReadInv
<1>2. (line = 1 + Cardinality(LineEnds(pos)))'
  BY <1>1, LineStep DEF ReadInv
<1>3. LastEnd < start' /\ Skippable(LastEnd + 1, start' - 1)
  <2>1. CASE longest = <<>> /\ ~inString
    <3>1. start' = pos + 1 /\ start' - 1 = pos /\ Skippable(LastEnd + 1, pos)
      BY <1>1, <2>1 DEF ReadInv
    <3> QED BY <1>1, <3>1
  <2>2. CASE longest # <<>> \/ inString
    BY <2>2 DEF ReadInv
  <2> QED BY <2>1, <2>2
<1>4. (LastEnd < start /\ Skippable(LastEnd + 1, start - 1))' /\ (LastEnd \in 0 .. pos)'
  BY <1>1, <1>3 DEF Skippable
<1> QED BY <1>2, <1>4 DEF ReadInv

\* The token is returned, and nothing has been read after it.
LEMMA AfterToken ==
  ASSUME TypeInv', LastEnd' = pos', longest' = <<>>, ~inString', ~inComment',
         text' = text, line' = line, line = 1 + Cardinality(LineEnds(pos'))
  PROVE  ReadInv'
<1>1. PICK n \in Nat : pos' = n /\ LastEnd' = n
  BY DEF TypeInv, TypeOK
<1>2. (line = 1 + Cardinality(LineEnds(pos)))'
  BY DEF LineEnds
<1>3. n \in 0 .. n /\ \A p \in n + 1 .. n : FALSE
  OBVIOUS
<1>4. (LastEnd \in 0 .. pos)' /\ Skippable(LastEnd + 1, pos)'
  BY <1>1, <1>3 DEF Skippable
<1> QED BY <1>2, <1>4 DEF ReadInv

LEMMA IInvInit == Init => IInv
<1> SUFFICES ASSUME Init
             PROVE  IInv
  OBVIOUS
<1> USE DEF Init
<1>1. TypeInv
  <2>1. text \in Seq(Range(text)) /\ Len(text) \in Nat
    BY InputsAssumption, LenProperties
  <2> QED BY <2>1 DEF TypeInv, TypeOK
<1>2. TokensInv
  <2>1. tokens \in Seq(Range(tokens)) /\ DOMAIN tokens = {}
    BY EmptySeq
  <2> QED BY <2>1 DEF TokensInv
<1>3. ReadInv
  <2>1. LineEnds(0) = {} /\ LastEnd = 0
    BY DEF LineEnds, LastEnd
  <2>2. Cardinality(LineEnds(0)) = 0
    BY <2>1, FS_EmptySet
  <2>3. Skippable(1, 0)
    BY DEF Skippable
  <2> QED BY <2>1, <2>2, <2>3 DEF ReadInv
<1>4. Rejected
  BY DEF Rejected
<1> QED BY <1>1, <1>2, <1>3, <1>4 DEF IInv

LEMMA IInvStep == IInv /\ [Next]_vars => IInv'
<1> SUFFICES ASSUME IInv, [Next]_vars
             PROVE  IInv'
  OBVIOUS
<1>1. TypeInv /\ TypeInv' /\ TokensInv
  BY TypeInvStep DEF IInv
<1>2. /\ text \in Seq(Range(text)) /\ Len(text) \in Nat /\ pos \in 0 .. Len(text)
      /\ inString \/ inComment => longest = <<>>
      /\ ~(inString /\ inComment)
  BY <1>1, TextType DEF TypeInv, TypeOK
<1>3. status = "reading" => ReadInv
  BY DEF IInv
<1>4. ASSUME UNCHANGED <<text, tokens>>
      PROVE  TokensInv' /\ LastEnd' = LastEnd
  BY <1>1, <1>4, TokensKept
<1>5. ASSUME TokensInv', status = "reading", status' = status, ReadInv'
      PROVE  IInv'
  BY <1>1, <1>5 DEF IInv, Rejected
<1> USE DEF stream
<1>6. CASE SkipComment
  <2>1. ReadInv'
    BY <1>2, <1>3, <1>4, <1>6, SkipStep DEF SkipComment, Reading, Take
  <2> QED BY <1>4, <1>5, <1>6, <2>1 DEF SkipComment, Reading
<1>7. CASE OpenString
  <2>1. ReadInv'
    BY <1>1, <1>2, <1>3, <1>4, <1>7, QuoteInLine, InsideStep DEF OpenString, Free, Reading, Take
  <2> QED BY <1>4, <1>5, <1>7, <2>1 DEF OpenString, Free, Reading
<1>8. CASE CloseString
  <2>1. Correct([id |-> "STR", from |-> start, to |-> pos + 1, line |-> line,
                 value |-> Unescaped(input)], LastEnd)
    BY <1>8, StringCorrect
  <2>2. TokensInv' /\ LastEnd' = pos + 1
    BY <1>1, <1>8, <2>1, TokenAdded DEF CloseString, Return
  <2>3. line = 1 + Cardinality(LineEnds(pos + 1))
    BY <2>1 DEF Correct
  <2>4. ReadInv'
    BY <1>1, <1>8, <2>2, <2>3, AfterToken DEF CloseString, Return, Take
  <2> QED BY <1>5, <2>2, <2>4, <1>8 DEF CloseString, Return, Free, Reading
<1>9. CASE BeginComment
  <2>1. Char # NL
    BY <1>9 DEF BeginComment, NL
  <2>2. ReadInv'
    BY <1>2, <1>3, <1>4, <1>9, <2>1, SkipStep DEF BeginComment, Free, Reading, Take
  <2> QED BY <1>4, <1>5, <1>9, <2>2 DEF BeginComment, Free, Reading
<1>10. CASE Blank
  <2>1. Char # NL /\ ~inComment
    BY <1>10 DEF Blank, Free, Blanks, NL
  <2>2. ReadInv'
    BY <1>2, <1>3, <1>4, <1>10, <2>1, SkipStep DEF Blank, Free, Reading, Take
  <2> QED BY <1>4, <1>5, <1>10, <2>2 DEF Blank, Free, Reading
<1>11. CASE NewLine
  <2>1. CASE inString
    <3>1. ReadInv'
      BY <1>2, <1>3, <1>4, <1>11, <2>1, InsideStep DEF NewLine, Free, Reading, Take
    <3> QED BY <1>4, <1>5, <1>11, <3>1 DEF NewLine, Free, Reading
  <2>2. CASE ~inString
    <3>1. ReadInv'
      BY <1>2, <1>3, <1>4, <1>11, <2>2, SkipStep DEF NewLine, Free, Reading, Take
    <3> QED BY <1>4, <1>5, <1>11, <3>1 DEF NewLine, Free, Reading
  <2> QED BY <2>1, <2>2
<1>12. CASE StringChar
  <2>1. ReadInv'
    BY <1>2, <1>3, <1>4, <1>12, InsideStep DEF StringChar, Free, Reading, Take
  <2> QED BY <1>4, <1>5, <1>12, <2>1 DEF StringChar, Free, Reading
<1>13. ASSUME Searching, MatchingTokens(Extended) # <<>>
       PROVE  Char # NL
  <2> DEFINE s == SubSeq(text, Begin, pos + 1)
  <2>1. Begin \in 1 .. pos + 1 /\ pos + 1 \in 1 .. Len(text) /\ Extended = s
    BY <1>1, <1>13, Searched
  <2>2. PICK k \in Nat : k = pos + 1 - Begin + 1 /\ k \in 1 .. k /\ Begin + k - 1 = pos + 1
    BY <1>2, <2>1
  <2>3. s \in Seq(Range(text)) /\ Len(s) = k /\ s[k] = text[pos + 1]
    BY <1>2, <2>1, <2>2, Part
  <2> HIDE DEF s
  <2> QED BY <1>13, <2>1, <2>2, <2>3, NoLineEnd DEF Char
<1>14. ASSUME Searching
       PROVE  /\ LastEnd < Begin /\ Skippable(LastEnd + 1, Begin - 1)
              /\ longest # <<>> => Begin = start /\ SubSeq(text, start, pos) = input
                                   /\ longest = MatchingTokens(input) /\ start \in 1 .. pos
  <2>1. ReadInv /\ ~inString
    BY <1>3, <1>14 DEF Searching, Reading
  <2>2. CASE longest = <<>>
    BY <1>2, <2>1, <2>2 DEF ReadInv, Begin
  <2>3. CASE longest # <<>>
    BY <1>1, <2>1, <2>3 DEF ReadInv, Begin, TypeInv, TypeOK
  <2> QED BY <2>2, <2>3
<1>15. CASE Match
  <2>1. Char # NL
    BY <1>13, <1>15 DEF Match
  <2>2. ReadInv'
    BY <1>2, <1>3, <1>4, <1>15, <2>1, InsideStep DEF Match, Searching, Reading, Take, Begin
  <2> QED BY <1>4, <1>5, <1>15, <2>2 DEF Match, Searching, Reading
<1>16. CASE MatchAtEnd
  <2>1. /\ Begin \in 1 .. pos + 1 /\ pos + 1 = Len(text) /\ pos + 1 \in Nat
        /\ Extended = SubSeq(text, Begin, pos + 1)
        /\ pos + 1 \in pos .. Len(text)
    BY <1>1, <1>2, <1>16, Searched DEF MatchAtEnd
  <2>2. Correct([id |-> MatchingTokens(Extended)[1], from |-> Begin, to |-> pos + 1, line |-> line,
                 value |-> <<>>], LastEnd)
    BY <1>3, <1>14, <1>16, <2>1, MatchCorrect DEF MatchAtEnd, Searching, Reading
  <2>3. TokensInv' /\ LastEnd' = pos + 1
    BY <1>1, <1>16, <2>2, TokenAdded DEF MatchAtEnd, Return
  <2>4. line = 1 + Cardinality(LineEnds(pos + 1))
    BY <2>2 DEF Correct
  <2>5. ReadInv'
    BY <1>1, <1>16, <2>3, <2>4, AfterToken DEF MatchAtEnd, Return, Take
  <2> QED BY <1>5, <1>16, <2>3, <2>5 DEF MatchAtEnd, Return, Searching, Reading
<1>17. CASE NoMatch
  <2>1. /\ pos + 1 \in 1 .. Len(text) /\ Extended = SubSeq(text, start, pos + 1)
        /\ start \in 1 .. pos /\ pos \in Nat /\ pos \in pos .. Len(text)
        /\ longest = MatchingTokens(SubSeq(text, start, pos))
    <3>1. Searching /\ longest # <<>>
      BY <1>17 DEF NoMatch
    <3>2. Begin = start /\ SubSeq(text, start, pos) = input /\ longest = MatchingTokens(input)
          /\ start \in 1 .. pos
      BY <1>14, <3>1
    <3>3. pos + 1 \in 1 .. Len(text) /\ Extended = SubSeq(text, Begin, pos + 1)
      BY <1>1, <3>1, Searched
    <3> QED BY <1>2, <3>2, <3>3
  <2>2. Correct([id |-> longest[1], from |-> start, to |-> pos, line |-> line, value |-> <<>>],
                LastEnd)
    BY <1>3, <1>14, <1>17, <2>1, MatchCorrect DEF NoMatch, Searching, Reading
  <2>3. TokensInv' /\ LastEnd' = pos
    BY <1>1, <1>17, <2>2, TokenAdded DEF NoMatch, Return
  <2>4. line = 1 + Cardinality(LineEnds(pos))
    BY <2>2 DEF Correct
  <2>5. ReadInv'
    BY <1>1, <1>17, <2>3, <2>4, AfterToken DEF NoMatch, Return
  <2> QED BY <1>5, <1>17, <2>3, <2>5 DEF NoMatch, Return, Searching, Reading
<1>18. CASE Invalid
  <2>1. BadBits(Extended) \/ Beginnings(pos + 1) = {}
    <3> SUFFICES ASSUME ~BadBits(Extended)
                 PROVE  Beginnings(pos + 1) = {}
      OBVIOUS
    <3>1. Searching /\ longest = <<>> /\ MatchingTokens(Extended) = <<>>
      BY <1>18 DEF Invalid
    <3>2. PICK i \in 1 .. Len(text) : i = pos + 1 /\ i \in i .. Len(text) /\ i - i = 0
      BY <1>1, <1>2, <3>1, Searched
    <3>3. MatchingTokens(SubSeq(text, i, i)) = <<>>
      BY <1>1, <3>1, <3>2, Searched DEF Begin
    <3>4. \A n \in Beginnings(i) : n <= 0
      BY <1>1, <3>2, <3>3, StopsAtLongest DEF TypeInv
    <3>5. \A n \in Beginnings(i) : n \in Nat /\ n >= 1
      BY <1>2, <3>2 DEF Beginnings
    <3>6. \A n \in Beginnings(i) : FALSE
      BY <3>4, <3>5
    <3> QED BY <3>2, <3>6
  <2>2. Rejected'
    BY <1>18, <2>1 DEF Rejected, Invalid, Extended, Char, Beginnings
  <2> QED BY <1>1, <1>4, <1>18, <2>2 DEF IInv, Invalid
<1>19. CASE EndOfInput
  <2>1. TokensInv'
    BY <1>1, <1>19, EndCorrect, TokenAdded DEF EndOfInput
  <2> QED BY <1>1, <1>19, <2>1 DEF IInv, EndOfInput, Rejected
<1>20. CASE Stopped \/ UNCHANGED vars
  <2>1. UNCHANGED vars
    BY <1>20 DEF Stopped
  <2> QED BY <1>1, <1>4, <2>1
          DEF vars, IInv, Rejected, Extended, Char, Beginnings, ReadInv, LastEnd, Skippable, LineEnds
<1> QED BY <1>6, <1>7, <1>8, <1>9, <1>10, <1>11, <1>12, <1>15, <1>16, <1>17, <1>18, <1>19, <1>20
        DEF Next, GetNextToken

-----------------------------------------------------------------------------
(* The results.                                                            *)

LEMMA Invariance == Spec => []IInv
BY IInvInit, IInvStep, PTL DEF Spec

\* Text is collected for a match or a string and never left over from the token
\* before (GetNextToken).
THEOREM TypesCorrect == Spec => []TypeOK
<1>1. IInv => TypeOK
  BY DEF IInv, TypeInv
<1> QED BY <1>1, Invariance, PTL

\* Taking characters and putting them back loses and repeats none, in any text
\* (GetNextToken, GetAllTokens).
THEOREM CharactersOnce == Spec => []EveryCharacterOnce
<1>1. IInv => EveryCharacterOnce
  BY DEF IInv, TokensInv, Correct, EveryCharacterOnce
<1> QED BY <1>1, Invariance, PTL

\* The token that is returned is the longest that the text goes on with, and no
\* text is rejected that goes on with a token (GetNextToken, GetMatchingTokens).
THEOREM MatchesLongest == Spec => []LongestMatch
<1>1. IInv => LongestMatch
  BY DEF IInv, TokensInv, Rejected, Correct, LongestMatch
<1> QED BY <1>1, Invariance, PTL

\* Every token has the line it ends in (GetAllTokens).
THEOREM LinesRight == Spec => []RightLine
<1>1. IInv => RightLine
  BY DEF IInv, TokensInv, Correct, RightLine
<1> QED BY <1>1, Invariance, PTL
=============================================================================
