------------------------------- MODULE Lexer -------------------------------
(***************************************************************************)
(* The lexer, src/frontend/lexer.py: rules that ply tries in their order,  *)
(* the functions first and then the longest expression, and two further    *)
(* states for strings and comments.                                        *)
(*                                                                         *)
(* The input is a sequence of symbols.  "n" is a letter that is also an    *)
(* escape (\n); "1" an octal digit; "marker" a line marker of cpp without  *)
(* its line end, `# 7 "f"'.  All else is one character.                    *)
(***************************************************************************)
EXTENDS Integers, SequencesExt

Symbols == {"dq", "sq", "bs", "nl", "/", "*", "=", "%", "n", "1", "marker"}
MarkerLine == 7

CONSTANTS MaxLength     \* bound: symbols of the input

ASSUME LengthAssumption == MaxLength \in Nat

VARIABLES
  input,
  lexpos,               \* symbols consumed
  lexstate,             \* "INITIAL", "string" or "comment"
  string_start, string_buf, string_escape, in_charconst,
  lineno, last_newline_pos,
  tokens,
  outcome               \* "running", "end", "error" or "crash"

string == <<string_start, string_buf, string_escape, in_charconst>>
lines == <<lineno, last_newline_pos>>
vars == <<input, lexpos, lexstate, string, lines, tokens, outcome>>

----------------------------------------------------------------------------
(* What a symbol is a part of, from left to right and one at a time.       *)

(* The mode after a symbol, given the one before it.                       *)
After(before, sym) ==
  CASE before \in {"code", "slash"} ->
         IF sym = "dq" THEN "string"
         ELSE IF sym = "sq" THEN "char"
         ELSE IF sym = "/" THEN IF before = "code" THEN "slash" ELSE "line"
         ELSE IF sym = "*" /\ before = "slash" THEN "comment" ELSE "code"
    [] before = "line" -> IF sym = "nl" THEN "code" ELSE "line"
    [] before \in {"comment", "star"} ->
         IF sym = "*" THEN "star"
         ELSE IF sym = "/" /\ before = "star" THEN "code" ELSE "comment"
    [] before = "string" -> IF sym = "dq" THEN "code"
                            ELSE IF sym = "bs" THEN "string escape" ELSE "string"
    [] before = "char" -> IF sym = "sq" THEN "code"
                          ELSE IF sym = "bs" THEN "char escape" ELSE "char"
    [] before = "string escape" -> IF sym = "nl" THEN before ELSE "string"
    [] before = "char escape" -> IF sym = "nl" THEN before ELSE "char"

Mode(text) ==
  LET mode[p \in 0..Len(text)] ==
        IF p = 0 THEN "code" ELSE After(mode[p - 1], text[p])
  IN mode

(* cpp puts line markers on lines of their own, outside of literals.       *)
Inputs ==
  {text \in UNION {[1..len -> Symbols] : len \in 0..MaxLength} :
     \A p \in DOMAIN text : text[p] = "marker" =>
       /\ p > 1 => text[p - 1] = "nl"
       /\ p < Len(text) => text[p + 1] = "nl"
       /\ Mode(text)[p - 1] = "code"}

(* create_lexer                                                            *)
Init ==
  /\ input \in Inputs
  /\ lexpos = 0 /\ lexstate = "INITIAL"
  /\ string_start = 0 /\ string_buf = <<>>
  /\ string_escape = FALSE /\ in_charconst = FALSE
  /\ lineno = 1 /\ last_newline_pos = -1
  /\ tokens = <<>> /\ outcome = "running"

Symbol(p) == IF p \in DOMAIN input THEN input[p] ELSE "eof"
next == Symbol(lexpos + 1)
Pair == <<next, Symbol(lexpos + 2)>>
InState(state) == outcome = "running" /\ lexstate = state

(* How many of the next symbols are all in S.                              *)
RunOf(S) ==
  Max({k \in 0..(Len(input) - lexpos) : \A i \in 1..k : Symbol(lexpos + i) \in S})
Consume(k) == lexpos' = lexpos + k /\ UNCHANGED <<input, outcome>>
Skip(k) == Consume(k) /\ UNCHANGED <<lexstate, string, lines, tokens>>

(* ply gives a token the line the lexer is in; "column" is what            *)
(* token_error would report for it.                                        *)
Token(type, pos, value, end) ==
  [type |-> type, lexpos |-> pos, value |-> value, end |-> end,
   lineno |-> lineno, column |-> pos - last_newline_pos]
Emit(type, k) ==
  /\ Consume(k)
  /\ tokens' = Append(tokens, Token(type, lexpos,
                                    SubSeq(input, lexpos + 1, lexpos + k), lexpos + k))
  /\ UNCHANGED <<lexstate, string, lines>>

(* t_error, or t_string_char's own error.  The message is formatted once   *)
(* more, without arguments, which fails when it quotes a %.                *)
token_error ==
  /\ outcome' = IF next = "%" THEN "crash" ELSE "error"
  /\ UNCHANGED <<input, lexpos, lexstate, string, lines, tokens>>

----------------------------------------------------------------------------
(* Outside of strings and comments                                         *)

(* Keywords are identifiers that are looked up in reserved_map.            *)
t_ID == InState("INITIAL") /\ next = "n" /\ Emit("ID", RunOf({"n", "1"}))
t_number == InState("INITIAL") /\ next = "1" /\ Emit("INTCONST", RunOf({"1"}))

Begin(char) ==
  /\ lexstate' = "string"
  /\ string_start' = lexpos + 1 /\ string_buf' = <<>>
  /\ string_escape' = FALSE /\ in_charconst' = char
  /\ Consume(1) /\ UNCHANGED <<lines, tokens>>
t_string == InState("INITIAL") /\ next = "dq" /\ Begin(FALSE)
t_char == InState("INITIAL") /\ next = "sq" /\ Begin(TRUE)

t_comment ==
  /\ InState("INITIAL") /\ Pair = <<"/", "*">>
  /\ lexstate' = "comment"
  /\ Consume(2) /\ UNCHANGED <<string, lines, tokens>>

(* t_MODIFY, t_EQ, t_ignore_COMMENT, and the others of one symbol.         *)
Operators ==
  /\ InState("INITIAL") /\ next \in {"/", "*", "%", "="} /\ Pair # <<"/", "*">>
  /\ CASE Pair[2] = "=" -> Emit(IF next = "=" THEN "EQ" ELSE "MODIFY", 2)
       [] Pair = <<"/", "/">> -> Skip(RunOf(Symbols \ {"nl"}))
       [] Pair[2] # "=" /\ Pair # <<"/", "/">> -> Emit(next, 1)

(* The flags of a marker may be on the next line, as \s is also a line     *)
(* end.                                                                    *)
t_cpp_line_marker ==
  /\ InState("INITIAL") /\ next = "marker"
  /\ LET flags(k) == \A i \in 1..k :
           Symbol(lexpos + 2 * i) = "nl" /\ Symbol(lexpos + 2 * i + 1) = "1"
     IN Consume(1 + 2 * Max({k \in 0..MaxLength : flags(k)}))
  /\ lineno' = MarkerLine - 1
  /\ UNCHANGED <<lexstate, string, last_newline_pos, tokens>>

t_error == InState("INITIAL") /\ next = "bs" /\ token_error

----------------------------------------------------------------------------
(* Line ends, in all states                                                *)

(* Mutant: several line ends at once count as one.                         *)
t_ANY_newlineOnce ==
  /\ outcome = "running" /\ next = "nl"
  /\ LET k == RunOf({"nl"})
     IN /\ lineno' = lineno + 1
        /\ last_newline_pos' = lexpos + k - 1
        /\ Consume(k) /\ UNCHANGED <<lexstate, string, tokens>>

t_ANY_newline ==
  /\ outcome = "running" /\ next = "nl"
  /\ LET k == RunOf({"nl"})
     IN /\ lineno' = lineno + k
        /\ last_newline_pos' = lexpos + k - 1
        /\ Consume(k) /\ UNCHANGED <<lexstate, string, tokens>>

----------------------------------------------------------------------------
(* In comments                                                             *)

(* Mutant: a star is a symbol of its own first.                            *)
t_comment_endStars ==
  /\ InState("comment") /\ next \notin {"nl", "eof"}
  /\ IF Pair = <<"*", "/">> /\ input[lexpos] # "*"
       THEN lexstate' = "INITIAL" /\ Consume(2) /\ UNCHANGED <<string, lines, tokens>>
       ELSE Skip(1)

t_comment_end ==
  /\ InState("comment") /\ next \notin {"nl", "eof"}
  /\ IF Pair = <<"*", "/">>
       THEN lexstate' = "INITIAL" /\ Consume(2) /\ UNCHANGED <<string, lines, tokens>>
       ELSE Skip(1)

----------------------------------------------------------------------------
(* In strings and characters                                               *)

InString == InState("string") /\ next \notin {"nl", "eof"}
(* reverse_trans, the inverse of StringConst.trans, has an entry for n.    *)
Unescaped(sym) == IF sym = "n" THEN "newline" ELSE sym

(* NotImplementedError for octal and hexadecimal ones.                     *)
EscapedChar ==
  /\ InString /\ string_escape
  /\ IF next = "1"
       THEN /\ outcome' = "crash"
            /\ UNCHANGED <<input, lexpos, lexstate, string, lines, tokens>>
       ELSE /\ string_buf' = Append(string_buf, Unescaped(next))
            /\ string_escape' = FALSE
            /\ Consume(1)
            /\ UNCHANGED <<lexstate, string_start, in_charconst, lines, tokens>>

BeginEscape ==
  /\ InString /\ ~string_escape /\ next = "bs"
  /\ string_escape' = TRUE
  /\ Consume(1)
  /\ UNCHANGED <<lexstate, string_start, string_buf, in_charconst, lines, tokens>>

Quote == IF in_charconst THEN "sq" ELSE "dq"
(* The assertion is on the length of a character's buffer.                 *)
EndOfString ==
  /\ InString /\ ~string_escape /\ next = Quote
  /\ IF in_charconst /\ Len(string_buf) # 1
       THEN /\ outcome' = "crash"
            /\ UNCHANGED <<input, lexpos, lexstate, string, lines, tokens>>
       ELSE /\ lexstate' = "INITIAL"
            /\ tokens' = Append(tokens,
                 Token(IF in_charconst THEN "CHARCONST" ELSE "STRINGCONST",
                       string_start, string_buf, lexpos + 1))
            /\ Consume(1) /\ UNCHANGED <<string, lines>>

Plain == InString /\ ~string_escape /\ next \notin {"bs", Quote}
(* Mutant: no second character is too many.                                *)
PlainCharAny ==
  /\ Plain
  /\ string_buf' = Append(string_buf, next)
  /\ Consume(1)
  /\ UNCHANGED <<lexstate, string_start, string_escape, in_charconst, lines, tokens>>
PlainChar ==
  /\ Plain
  /\ IF in_charconst /\ string_buf # <<>> THEN token_error
     ELSE /\ string_buf' = Append(string_buf, next)
          /\ Consume(1)
          /\ UNCHANGED <<lexstate, string_start, string_escape, in_charconst, lines, tokens>>

t_string_char == EscapedChar \/ BeginEscape \/ EndOfString \/ PlainChar

(* The end is the end in all states: the parser is told of no string that  *)
(* is open.                                                                *)
End ==
  /\ outcome = "running" /\ next = "eof"
  /\ outcome' = "end"
  /\ UNCHANGED <<input, lexpos, lexstate, string, lines, tokens>>

Next ==
  \/ t_ID \/ t_number \/ t_string \/ t_char \/ t_comment \/ Operators
  \/ t_cpp_line_marker \/ t_error
  \/ t_ANY_newline \/ t_comment_end \/ t_string_char \/ End

Spec == Init /\ [][Next]_vars

----------------------------------------------------------------------------
(* What the parser makes of positions and of string constants              *)

(* parser.py's own column of a token: with no line end before it, the line *)
(* begins at 1.                                                            *)
column(token) ==
  LET ends == {p \in 1..token.lexpos : input[p] = "nl"}
      last_cr == IF ends = {} THEN -1 ELSE Max(ends) - 1
  IN token.lexpos - Max({last_cr, 1})

(* CharConst.__str__ and StringConst.escape, between the quotes.           *)
(* Mutant: the backslash itself is not escaped.                            *)
escapeNoBackslash(value, quote) ==
  LET escaped(c) == IF c = "newline" THEN <<"bs", "n">>
                    ELSE IF c = quote THEN <<"bs", c>> ELSE <<c>>
  IN FlattenSeq([i \in DOMAIN value |-> escaped(value[i])])
escape(value, quote) ==
  LET escaped(c) == IF c = "newline" THEN <<"bs", "n">>
                    ELSE IF c \in {"bs", quote} THEN <<"bs", c>> ELSE <<c>>
  IN FlattenSeq([i \in DOMAIN value |-> escaped(value[i])])

(* p_stringconst: from the quote before the string to where its printed    *)
(* form would end.                                                         *)
StringSpan(token) ==
  LET start == column(token) - 1
  IN <<start, start + Len(escape(token.value, "dq")) + 1>>

----------------------------------------------------------------------------
(* Properties                                                              *)

TypeOK ==
  /\ lexpos \in 0..Len(input) /\ lexstate \in {"INITIAL", "string", "comment"}
  /\ string_start \in 0..Len(input) /\ string_buf \in Seq(Symbols \cup {"newline"})
  /\ string_escape \in BOOLEAN /\ in_charconst \in BOOLEAN
  /\ lineno \in 1..(MarkerLine + MaxLength) /\ last_newline_pos \in -1..Len(input)
  /\ \A i \in DOMAIN tokens : tokens[i].end \in 1..lexpos
  /\ outcome \in {"running", "end", "error", "crash"}

Literals == {"string", "char", "string escape", "char escape"}

(* The rules and their order (lexer.py:95-200) amount to reading the input *)
(* symbol by symbol: where a rule ends, the lexer is in a comment, string  *)
(* or character, before an escaped symbol or not, as the text says.        *)
StatesExact ==
  LET mode == Mode(input)[lexpos]
  IN /\ TypeOK
     /\ lexstate = "comment" <=> mode \in {"comment", "star"}
     /\ lexstate = "string" <=> mode \in Literals
     /\ mode \in Literals =>
          /\ in_charconst <=> mode \in {"char", "char escape"}
          /\ string_escape <=> mode \in {"string escape", "char escape"}

Constant(token) == token.type \in {"STRINGCONST", "CHARCONST"}
Span(token) == (token.lexpos + IF Constant(token) THEN 0 ELSE 1)..token.end
(* Symbols that belong to a token; the quote that opens a constant does.   *)
Tokens ==
  {p \in DOMAIN input :
     LET before == Mode(input)[p - 1]
     IN \/ before \in Literals
        \/ /\ before \in {"code", "slash"} /\ input[p] \notin {"nl", "marker"}
           /\ ~(before = "slash" /\ input[p] \in {"/", "*"})
           /\ ~(Mode(input)[p] = "slash" /\ Symbol(p + 1) \in {"/", "*"})}
SwallowedLine(p) ==
  \E m \in 1..p : input[m] = "marker" /\ Symbol(m + 1) = "nl" /\ Symbol(m + 2) = "1"
Joined ==
  ({"ID"} \X {"ID", "INTCONST"}) \cup {<<"INTCONST", "INTCONST">>}
  \cup ({"/", "*", "%", "="} \X {"=", "EQ"})

(* Every symbol of the program ends up in one token, tokens are as long as *)
(* they can be, and reading stops early only at a character that begins    *)
(* nothing, a second one in quotes, an unsupported escape (lexer.py:148,   *)
(* :151), empty quotes (:166) or when a % is to be reported (util.py:133); *)
(* a second character that is escaped is not noticed by itself (:142), and *)
(* fails the assertion (:166) when the quote follows.                      *)
(* What is lost: a string that is not closed (lexer.py:113), and a digit   *)
(* at the beginning of the line after a line marker (:212).                *)
NothingLost ==
  /\ outcome = "end" /\ lexstate # "string" /\ ~SwallowedLine(Len(input)) =>
       \A p \in DOMAIN input :
         Cardinality({i \in DOMAIN tokens : p \in Span(tokens[i])})
           = IF p \in Tokens THEN 1 ELSE 0
  /\ \A i \in 1..(Len(tokens) - 1) :
       Span(tokens[i + 1]) \cap {tokens[i].end + 1} # {} =>
         <<tokens[i].type, tokens[i + 1].type>> \notin Joined
  /\ outcome \in {"error", "crash"} =>
       IF lexstate = "INITIAL" THEN next = "bs"
       ELSE IF string_escape THEN outcome = "crash" /\ next = "1"
       ELSE /\ in_charconst /\ next # "bs"
            /\ outcome = "crash" <=> next \in {"sq", "%"}
            /\ string_buf = <<>> <=> next = "sq" /\ Len(string_buf) < 2
            /\ Len(string_buf) > 1 =>
                 \E p \in (string_start + 1)..lexpos : input[p] = "bs"

(* What a symbol of a literal stands for.                                  *)
Meaning(before, sym) ==
  CASE sym = "nl" -> <<>>
    [] sym # "nl" /\ before \in {"string escape", "char escape"} -> <<Unescaped(sym)>>
    [] sym # "nl" /\ before \in {"string", "char"} -> IF sym = "bs" THEN <<>> ELSE <<sym>>

(* The characters a literal without its quotes stands for, when read after *)
(* its opening quote.                                                      *)
ValueOf(text, quote) ==
  LET mode == Mode(<<quote>> \o text)
  IN FlattenSeq([p \in DOMAIN text |-> Meaning(mode[p], text[p])])

(* The value of a string or character constant is what its text stands     *)
(* for; a character constant has one character; and the constant printed   *)
(* as source (fennec_ast.py:445, :473) is read back as the same value and  *)
(* ends where it should.                                                   *)
ValuesExact ==
  \A i \in DOMAIN tokens : Constant(tokens[i]) =>
    LET token == tokens[i]
        quote == input[token.lexpos]
        printed == escape(token.value, quote)
        mode == Mode(<<quote>> \o printed \o <<quote>>)
    IN /\ token.value = ValueOf(SubSeq(input, token.lexpos + 1, token.end - 1), quote)
       /\ token.type = "CHARCONST" => Len(token.value) = 1
       /\ ValueOf(printed, quote) = token.value
       /\ \A p \in DOMAIN printed : mode[p + 1] \in Literals
       /\ mode[Len(printed) + 2] = "code"

(* Lines are counted from the marker before; columns from 1.               *)
TrueLine(p) ==
  LET markers == {m \in 1..p : input[m] = "marker"}
      from == IF markers = {} THEN 0 ELSE Max(markers)
      first == IF markers = {} THEN 1 ELSE MarkerLine - 1
  IN first + Cardinality({q \in (from + 1)..p : input[q] = "nl"})
TrueColumn(p) == p - Max({0} \cup {q \in 1..p : input[q] = "nl"}) + 1

(* A token is reported where it is, constants at the symbol after their    *)
(* quote: by the lexer and by the parser, which finds columns on its own   *)
(* (parser.py:330), and for strings up to the closing quote (:277).        *)
(* Exceptions: constants with a line end in them have the last line and a  *)
(* column that counts from there, which is below 1; the line after a       *)
(* marker that begins with a digit; the parser's columns on the first line *)
(* (of a source that cpp has not seen) are two less, and one less after an *)
(* empty first one; strings with escapes that are not needed end early.    *)
PositionsTrue ==
  \A i \in DOMAIN tokens :
    LET token == tokens[i]
        pos == token.lexpos
        inside == {p \in (pos + 1)..token.end : input[p] = "nl"}
        before == {p \in 1..pos : input[p] = "nl"}
    IN /\ inside = {} /\ ~SwallowedLine(pos) =>
            token.lineno = TrueLine(pos) /\ token.column = TrueColumn(pos)
       /\ inside # {} /\ ~SwallowedLine(pos) =>
            token.lineno = TrueLine(token.end) /\ token.column < 1
       /\ column(token) = TrueColumn(pos) - (IF before = {} THEN 2
                                             ELSE IF before = {1} THEN 1 ELSE 0)
       /\ token.type = "STRINGCONST" /\ inside = {}
            /\ (\A p \in (pos + 2)..(token.end - 1) :
                  input[p - 1] = "bs" /\ input[p] # "bs" => input[p] \in {"n", "dq"}) =>
            StringSpan(token) = <<column(token) - 1, column(token) + token.end - pos - 1>>
=============================================================================
