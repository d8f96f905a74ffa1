------------------------------- MODULE Lexer --------------------------------
(***************************************************************************)
(* The lexer: LexicalTokens( const std::string& ) in                       *)
(* src/project/parser/src/lexical_tokens/lexical_tokens.cpp.               *)
(*                                                                         *)
(* It reads the text once, with one character of look-ahead, and counts    *)
(* lines and columns as it goes.  One action per branch of its loop; the   *)
(* branches that collect a number, a string or a word have an inner loop   *)
(* of their own, one action per character.                                 *)
(*                                                                         *)
(* A token keeps where its text begins and ends in the source text instead *)
(* of a copy of it; its length is that of its text.                        *)
(***************************************************************************)
EXTENDS Integers, Sequences

CONSTANT Texts        \* the texts that are read: sequences of characters

ASSUME TextsAssumption == \A t \in Texts : t \in Seq(STRING)

NL == "\n"
Quote == "\""

didgits == {"0", "1", "2", "3", "4", "5", "6", "7", "8", "9"}

alphabet ==
  {"a", "b", "c", "d", "e", "f", "g", "h", "i", "j", "k", "l", "m",
   "n", "o", "p", "q", "r", "s", "t", "u", "v", "w", "x", "y", "z", "_",
   "A", "B", "C", "D", "E", "F", "G", "H", "I", "J", "K", "L", "M",
   "N", "O", "P", "Q", "R", "S", "T", "U", "V", "W", "X", "Y", "Z"}

terminals ==
  {"+", "-", "/", "*", "(", ")", "=", "<", ">", ";", ":", "{", "}", "[", "]",
   ",", ".", "!"}

terminal_token_type(c) ==
  CASE c = "+" -> "PLUS"                [] c = "-" -> "MINUS"
    [] c = "*" -> "ASTERISK"            [] c = "/" -> "SLASH"
    [] c = "(" -> "OPEN_CIRCLE_BRACKET" [] c = ")" -> "CLOSE_CIRCLE_BRACKET"
    [] c = "{" -> "OPEN_CURLY_BRACKET"  [] c = "}" -> "CLOSE_CURLY_BRACKET"
    [] c = "[" -> "OPEN_SQUARE_BRACKET" [] c = "]" -> "CLOSE_SQUARE_BRACKET"
    [] c = "=" -> "EQUAL"               [] c = "!" -> "NOT"
    [] c = "<" -> "LESS"                [] c = ">" -> "MORE"
    [] c = ";" -> "SEMICOLON"           [] c = ":" -> "COLON"
    [] c = "," -> "COMMA"               [] c = "." -> "DOT"
    [] OTHER -> "NO"

word_token_type(word) ==
  CASE word = <<"i", "f">> -> "IF"
    [] word = <<"e", "l", "s", "e">> -> "ELSE"
    [] word = <<"w", "h", "i", "l", "e">> -> "WHILE"
    [] word = <<"p", "r", "i", "n", "t">> -> "PRINT"
    [] word = <<"r", "e", "t", "u", "r", "n">> -> "RETURN"
    [] word = <<"f", "u", "n", "c", "t", "i", "o", "n">> -> "FUNCTION"
    [] word = <<"v", "a", "r">> -> "VAR"
    [] OTHER -> "NAME"

TerminalTypes == {terminal_token_type(c) : c \in terminals}
WordTypes ==
  {"IF", "ELSE", "WHILE", "PRINT", "RETURN", "FUNCTION", "VAR", "NAME"}
NumberTypes == {"INT", "DOUBLE"}
EndTypes == {"BOL", "EOL"}

VARIABLES
  text,               \* the text
  at,                 \* the index of chars.current, one past the end for none
  line, col,          \* its line and column
  is_comment_state,
  token,              \* where the token that is being collected begins
  tokens,             \* result
  state               \* "scanning", "number", "string" or "word" in an inner
                      \* loop, then "done", or "failed" for the exception

vars == <<text, at, line, col, is_comment_state, token, tokens, state>>

(* A token of the given type whose text is that of positions first..last. *)
LexicalToken(type, first, last, l, c) ==
  [type |-> type, first |-> first, last |-> last, line |-> l, col |-> c]

BOL == LexicalToken("BOL", 1, 0, 0, 0)
EOL == LexicalToken("EOL", 1, 0, 0, 0)

NoToken == [first |-> 1, line |-> 0, col |-> 0, is_dot_met |-> FALSE]

(* Before the first character of the text. *)
AtStart ==
  /\ at = 1 /\ line = 0 /\ col = 0
  /\ is_comment_state = FALSE
  /\ token = NoToken
  /\ tokens = <<BOL>>
  /\ state = "scanning"

Init == text \in Texts /\ AtStart

(***************************************************************************)
(* The characters.                                                         *)
(***************************************************************************)
AtEnd == at > Len(text)

Current(chars) == ~AtEnd /\ text[at] \in chars

(* Mutant: the column goes on after a line break. *)
next_charsKeepingColumn ==
  /\ at' = at + 1
  /\ line' = IF text[at] = NL THEN line + 1 ELSE line
  /\ col' = col + 1

next_chars ==
  /\ at' = at + 1
  /\ line' = IF text[at] = NL THEN line + 1 ELSE line
  /\ col' = IF text[at] = NL THEN 0 ELSE col + 1

Stay == UNCHANGED <<at, line, col>>

(* chars.next.value() of a slash: there is a next character to look at. *)
HasNext == at < Len(text)

(* Mutant: one slash begins a comment. *)
OneSlash == Current({"/"}) /\ HasNext

TwoSlashes == Current({"/"}) /\ HasNext /\ text[at + 1] = "/"

InComment == is_comment_state \/ TwoSlashes

Scanning == state = "scanning" /\ ~AtEnd /\ (Current({"/"}) => HasNext)

(***************************************************************************)
(* The branches of the loop.                                               *)
(***************************************************************************)
(* A slash that ends the text: there is no next character. *)
LoneSlash ==
  /\ state = "scanning" /\ Current({"/"}) /\ ~HasNext
  /\ state' = "failed"
  /\ Stay /\ UNCHANGED <<text, is_comment_state, token, tokens>>

(* Mutant: the line break that ends a comment is left to the next one. *)
SkipCommentForGood ==
  /\ Scanning /\ InComment
  /\ is_comment_state' = TRUE
  /\ next_chars /\ UNCHANGED <<text, token, tokens, state>>

(* Mutant: a comment is skipped two characters at a time. *)
SkipCommentByTwo ==
  /\ Scanning /\ InComment
  /\ is_comment_state' = (text[at] # NL)
  /\ at' = at + 2 /\ line' = line /\ col' = col + 2
  /\ UNCHANGED <<text, token, tokens, state>>

SkipComment ==
  /\ Scanning /\ InComment
  /\ is_comment_state' = (text[at] # NL)
  /\ next_chars /\ UNCHANGED <<text, token, tokens, state>>

Terminal ==
  /\ Scanning /\ ~InComment /\ Current(terminals)
  /\ tokens' =
       Append(tokens,
              LexicalToken(terminal_token_type(text[at]), at, at, line, col))
  /\ next_chars /\ UNCHANGED <<text, is_comment_state, token, state>>

(* The current character begins a token: its line and column are kept. *)
Begin(kind, first) ==
  /\ state' = kind
  /\ token' = [first |-> first, line |-> line, col |-> col, is_dot_met |-> FALSE]
  /\ UNCHANGED <<text, is_comment_state, tokens>>

(* The token that was collected ends before the current character. *)
End(type) ==
  /\ state' = "scanning"
  /\ tokens' = Append(tokens, LexicalToken(type, token.first, at - 1,
                                           token.line, token.col))
  /\ token' = NoToken
  /\ UNCHANGED <<text, is_comment_state>>

BeginNumber ==
  /\ Scanning /\ ~InComment /\ Current(didgits)
  /\ Begin("number", at) /\ Stay

(* Mutant: every dot is taken for a part of the number. *)
InNumberManyDots == Current(didgits) \/ Current({"."})

InNumber == Current(didgits) \/ (~token.is_dot_met /\ Current({"."}))

NumberCharacter ==
  /\ state = "number" /\ InNumber
  /\ token' = [token EXCEPT !.is_dot_met = @ \/ text[at] = "."]
  /\ next_chars /\ UNCHANGED <<text, is_comment_state, tokens, state>>

EndNumber ==
  /\ state = "number" /\ ~InNumber
  /\ End(IF token.is_dot_met THEN "DOUBLE" ELSE "INT") /\ Stay

(* The text of a string begins after its opening quote. *)
BeginString ==
  /\ Scanning /\ ~InComment /\ Current({Quote})
  /\ Begin("string", at + 1) /\ next_chars

StringCharacter ==
  /\ state = "string" /\ ~AtEnd /\ text[at] # Quote
  /\ next_chars /\ UNCHANGED <<text, is_comment_state, token, tokens, state>>

(* Mutant: the closing quote is not passed. *)
EndStringAtQuote ==
  /\ state = "string" /\ Current({Quote})
  /\ End("STRING") /\ Stay

EndString ==
  /\ state = "string" /\ Current({Quote})
  /\ End("STRING") /\ next_chars

BeginWord ==
  /\ Scanning /\ ~InComment /\ Current(alphabet)
  /\ Begin("word", at) /\ Stay

WordCharacter ==
  /\ state = "word" /\ Current(alphabet \cup didgits)
  /\ next_chars /\ UNCHANGED <<text, is_comment_state, token, tokens, state>>

EndWord ==
  /\ state = "word" /\ ~AtEnd /\ text[at] \notin alphabet \cup didgits
  /\ End(word_token_type(SubSeq(text, token.first, at - 1))) /\ Stay

(* The loops of strings and words take the value of a character that is    *)
(* not there.                                                              *)
CutOff ==
  /\ state \in {"string", "word"} /\ AtEnd
  /\ state' = "failed"
  /\ Stay /\ UNCHANGED <<text, is_comment_state, token, tokens>>

(* Mutant: a character that begins nothing is not passed. *)
SkipOtherStaying ==
  /\ Scanning /\ ~InComment
  /\ text[at] \notin terminals \cup didgits \cup alphabet \cup {Quote}
  /\ Stay /\ UNCHANGED <<text, is_comment_state, token, tokens, state>>

SkipOther ==
  /\ Scanning /\ ~InComment
  /\ text[at] \notin terminals \cup didgits \cup alphabet \cup {Quote}
  /\ next_chars /\ UNCHANGED <<text, is_comment_state, token, tokens, state>>

Finish ==
  /\ state = "scanning" /\ AtEnd
  /\ tokens' = Append(tokens, EOL)
  /\ state' = "done"
  /\ Stay /\ UNCHANGED <<text, is_comment_state, token>>

Next ==
  \/ LoneSlash \/ SkipComment \/ Terminal
  \/ BeginNumber \/ NumberCharacter \/ EndNumber
  \/ BeginString \/ StringCharacter \/ EndString
  \/ BeginWord \/ WordCharacter \/ EndWord
  \/ CutOff \/ SkipOther \/ Finish

(* The constructor runs until it returns or throws. *)
Spec == Init /\ [][Next]_vars /\ WF_vars(Next)
=============================================================================
