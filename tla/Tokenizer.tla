----------------------------- MODULE Tokenizer -----------------------------
(***************************************************************************)
(* src/parser/Tokenizer.cpp: the characters of a clause become tokens.     *)
(*                                                                         *)
(* A text is a sequence of pieces.  A piece is one character, or a run of  *)
(* digits, or a run of letters, digits and underscores that stands for a   *)
(* name or a keyword; its value is the number, or the number given to the  *)
(* name; behind the dot of a number one digit counts.  Two pieces of a run *)
(* that meet make a longer one: a name followed by digits is another name. *)
(* Keywords count in upper and lower case.                                 *)
(***************************************************************************)
EXTENDS Integers, Sequences

Keywords == { "SELECT", "INSERT", "UPDATE", "DELETE", "WHERE", "FROM", "JOIN", "ON",
              "AND", "OR", "NOT" }

\* "other" is any other character.
Kinds == Keywords \union { "name", "digits", "underscore", ".", "space", "quote", "(", ")",
                           "+", "-", "*", "%", "=", "!", "<", ">", "other" }

Piece(kind, value) == [kind |-> kind, value |-> value]
Text == Seq([kind : Kinds, value : Int])

Tok(type, value) == [type |-> type, value |-> value]

\* The value of an identifier that is no name anybody knows.
Unknown == 0

KindAt(s, i) == IF i \in DOMAIN s THEN s[i].kind ELSE "end"

\* The position of the last piece of the run that starts at i.
RunEnd(s, i, kinds) ==
  CHOOSE j \in i .. Len(s) : /\ \A m \in i .. j : s[m].kind \in kinds
                             /\ KindAt(s, j + 1) \notin kinds

\* A token and where the next one starts.
Read(token, next) == [token |-> token, next |-> next]

NamePieces == Keywords \union {"name", "digits", "underscore", "."}

\* A keyword is one only if nothing of a name comes behind it.
IdentifierOrKeyword(s, i) ==
  LET j == RunEnd(s, i, NamePieces)
  IN  IF j > i THEN Read(Tok("IDENTIFIER", Unknown), j + 1)
      ELSE IF s[i].kind \in Keywords THEN Read(Tok(s[i].kind, 0), j + 1)
      ELSE Read(Tok("IDENTIFIER", s[i].value), j + 1)

\* The parts of a float that count.
Tenths == 10

\* A number with a dot anywhere is a float; its value is in tenths.
Number(s, i) ==
  LET j == RunEnd(s, i, {"digits", "."})
      fraction == IF KindAt(s, i + 2) = "digits" THEN s[i + 2].value ELSE 0
  IN  IF \E m \in i .. j : s[m].kind = "."
        THEN Read(Tok("NUMBER_FLOAT", Tenths * s[i].value + fraction), j + 1)
        ELSE Read(Tok("NUMBER_INT", s[i].value), j + 1)

\* Up to the closing quote, or to the end if there is none; i is the opening one.
String(s, i) ==
  LET end == CHOOSE j \in i + 1 .. Len(s) + 1 : /\ KindAt(s, j) \in {"quote", "end"}
                                                /\ \A m \in i + 1 .. j - 1 : s[m].kind # "quote"
      value == IF end = i + 2 THEN s[i + 1].value ELSE Unknown
  IN  Read(Tok("STRING_LITERAL", value), IF end > Len(s) THEN end ELSE end + 1)

Arithmetics == [x \in {"+", "-", "*", "%"} |->
                  CASE x = "+" -> "PLUS" [] x = "-" -> "MINUS"
                    [] x = "*" -> "MULTIPLY" [] x = "%" -> "MODULO"]
Comparisons == [x \in {"=", "!", "<", ">"} |->
                  CASE x = "=" -> "EQUALS" [] x = "!" -> "NOT"
                    [] x = "<" -> "LESS" [] x = ">" -> "GREATER"]
WithEqualSign == [x \in {"=", "!", "<", ">"} |->
                    CASE x = "=" -> "EQUALS" [] x = "!" -> "NOT_EQUALS"
                      [] x = "<" -> "LESS_EQ" [] x = ">" -> "GREATER_EQ"]

\* Mutation: an operator is one character.
Operator_OneCharacter(s, i) ==
  LET c == s[i].kind
  IN  IF c \in DOMAIN Arithmetics THEN Read(Tok(Arithmetics[c], 0), i + 1)
      ELSE Read(Tok(Comparisons[c], 0), i + 1)

Operator(s, i) ==
  LET c == s[i].kind
  IN  IF c \in DOMAIN Arithmetics THEN Read(Tok(Arithmetics[c], 0), i + 1)
      ELSE IF KindAt(s, i + 1) = "=" THEN Read(Tok(WithEqualSign[c], 0), i + 2)
      ELSE Read(Tok(Comparisons[c], 0), i + 1)

\* nextToken at position i, which is not a space; any other character is an
\* identifier of its own.
NextToken(s, i) ==
  LET c == s[i].kind
  IN  CASE c = "("                                        -> Read(Tok("LPAREN", 0), i + 1)
        [] c = ")"                                        -> Read(Tok("RPAREN", 0), i + 1)
        [] c = "quote"                                    -> String(s, i)
        [] c \in Keywords \union {"name", "underscore"}   -> IdentifierOrKeyword(s, i)
        [] c = "digits"                                   -> Number(s, i)
        [] c \in DOMAIN Arithmetics \union DOMAIN Comparisons -> Operator(s, i)
        [] OTHER                                          -> Read(Tok("IDENTIFIER", Unknown), i + 1)

\* The tokens from each position on; spaces are skipped.
TokensFrom(s) ==
  LET from[i \in 1 .. Len(s) + 1] ==
        IF i > Len(s) THEN << >>
        ELSE IF s[i].kind = "space" THEN from[i + 1]
        ELSE << NextToken(s, i).token >> \o from[NextToken(s, i).next]
  IN  from

TokenizeAll(s) == TokensFrom(s)[1]
=============================================================================
