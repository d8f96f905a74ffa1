---------------------------- MODULE LexerProofs ----------------------------
(***************************************************************************)
(* The lexer's invariants, for every set of texts.                         *)
(***************************************************************************)
EXTENDS LexerProperties, NatSets, FiniteSetTheorems, TLAPS

(* The types of the tokens do not depend on the characters. *)
LEMMA WordTypesKnown == \A word : word_token_type(word) \in WordTypes
BY Zenon DEF word_token_type, WordTypes

LEMMA TerminalTypesKnown ==
  \A c \in terminals : terminal_token_type(c) \in TerminalTypes
BY DEF TerminalTypes

(* A token appended to tokens leaves tokens. *)
LEMMA TokenAppended ==
  ASSUME NEW s \in Seq(Tokens), NEW type, NEW first \in Nat, NEW last \in Nat,
         NEW l \in Nat, NEW c \in Nat,
         type \in TerminalTypes \cup WordTypes \cup NumberTypes \cup EndTypes
                    \cup {"STRING"}
  PROVE  Append(s, LexicalToken(type, first, last, l, c)) \in Seq(Tokens)
BY DEF Tokens, LexicalToken

(***************************************************************************)
(* Type correctness.                                                       *)
(***************************************************************************)
LEMMA CharacterPassed ==
  ASSUME TypeOK, ~AtEnd, next_chars
  PROVE  /\ at' = at + 1 /\ at' \in 1..(Len(text) + 1)
         /\ line' \in Nat /\ col' \in Nat
BY DEF TypeOK, AtEnd, next_chars

LEMMA TypeOKInit == Init => TypeOK
<1> SUFFICES ASSUME Init PROVE TypeOK
  OBVIOUS
<1>1. text \in Seq(STRING)
  BY TextsAssumption DEF Init
<1>2. tokens \in Seq(Tokens)
  <2>1. BOL \in Tokens
    BY DEF BOL, LexicalToken, Tokens, EndTypes
  <2> QED
    BY <2>1 DEF Init, AtStart
<1>3. token \in Positions
  BY DEF Init, AtStart, NoToken, Positions
<1>4. at \in 1..(Len(text) + 1)
  BY <1>1 DEF Init, AtStart
<1> QED
  BY <1>1, <1>2, <1>3, <1>4 DEF Init, AtStart, TypeOK

LEMMA TypeOKStep ==
  ASSUME TypeOK, [Next]_vars
  PROVE  TypeOK'
<1> DEFINE Rest == /\ text' \in Seq(STRING) /\ is_comment_state' \in BOOLEAN
                   /\ state' \in {"scanning", "number", "string", "word",
                                  "done", "failed"}
           Place == /\ at' \in 1..(Len(text') + 1) /\ line' \in Nat /\ col' \in Nat
<1>1. Place
  <2>1. CASE Stay /\ text' = text
    BY <2>1 DEF Stay, TypeOK
  <2>2. CASE ~AtEnd /\ next_chars /\ text' = text
    BY <2>2, CharacterPassed
  <2>3. CASE UNCHANGED vars
    BY <2>3 DEF vars, TypeOK
  <2>4. \/ (Stay \/ (~AtEnd /\ next_chars)) /\ text' = text
        \/ UNCHANGED vars
    BY DEF Next, LoneSlash, SkipComment, Terminal, BeginNumber, NumberCharacter,
           EndNumber, BeginString, StringCharacter, EndString, BeginWord,
           WordCharacter, EndWord, CutOff, SkipOther, Finish, Scanning, Current,
           InNumber, Begin, End
  <2> QED
    BY <2>1, <2>2, <2>3, <2>4
<1>2. Rest
  BY DEF Next, LoneSlash, SkipComment, Terminal, BeginNumber, NumberCharacter,
         EndNumber, BeginString, StringCharacter, EndString, BeginWord,
         WordCharacter, EndWord, CutOff, SkipOther, Finish, Begin, End, vars,
         TypeOK
<1>3. token' \in Positions
  <2>1. CASE UNCHANGED token
    BY <2>1 DEF TypeOK
  <2>2. CASE NumberCharacter
    BY <2>2 DEF NumberCharacter, TypeOK, Positions
  <2>3. ASSUME NEW kind, NEW first \in Nat, Begin(kind, first)
        PROVE  token' \in Positions
    BY <2>3 DEF Begin, TypeOK, Positions
  <2>4. CASE token' = NoToken
    BY <2>4 DEF NoToken, Positions
  <2>5. at \in Nat /\ at + 1 \in Nat
    BY DEF TypeOK
  <2> QED
    BY <2>1, <2>2, <2>3, <2>4, <2>5
    DEF Next, LoneSlash, SkipComment, Terminal, BeginNumber, EndNumber,
        BeginString, StringCharacter, EndString, BeginWord, WordCharacter,
        EndWord, CutOff, SkipOther, Finish, End, vars
<1>4. tokens' \in Seq(Tokens)
  <2>1. CASE UNCHANGED tokens
    BY <2>1 DEF TypeOK
  <2>2. ASSUME NEW type \in WordTypes \cup NumberTypes \cup {"STRING"}, End(type)
        PROVE  tokens' \in Seq(Tokens)
    <3>1. /\ token.first \in Nat /\ at - 1 \in Nat
          /\ token.line \in Nat /\ token.col \in Nat /\ tokens \in Seq(Tokens)
      BY DEF TypeOK, Positions
    <3> QED
      BY <2>2, <3>1, TokenAppended DEF End
  <2>3. CASE Terminal
    <3>1. /\ at \in Nat /\ line \in Nat /\ col \in Nat /\ tokens \in Seq(Tokens)
      BY DEF TypeOK
    <3>2. terminal_token_type(text[at]) \in TerminalTypes
      BY <2>3, TerminalTypesKnown DEF Terminal, Current
    <3> QED
      BY <2>3, <3>1, <3>2, TokenAppended DEF Terminal
  <2>4. CASE Finish
    BY <2>4, TokenAppended DEF Finish, EOL, EndTypes, TypeOK
  <2>5. CASE EndNumber
    BY <2>5, <2>2 DEF EndNumber, NumberTypes
  <2>6. CASE EndString
    BY <2>6, <2>2 DEF EndString
  <2>7. CASE EndWord
    BY <2>7, <2>2, WordTypesKnown DEF EndWord
  <2> QED
    BY <2>1, <2>3, <2>4, <2>5, <2>6, <2>7
    DEF Next, LoneSlash, SkipComment, BeginNumber, NumberCharacter, BeginString,
        StringCharacter, BeginWord, WordCharacter, CutOff, SkipOther, Begin, vars
<1> QED
  BY <1>1, <1>2, <1>3, <1>4 DEF TypeOK

(* The lexer never leaves the text; what it returns are tokens of known    *)
(* types, whatever the texts are.                                          *)
THEOREM LexerTypeCorrect == Spec => []TypeOK
<1>1. Init => TypeOK
  BY TypeOKInit
<1>2. TypeOK /\ [Next]_vars => TypeOK'
  BY TypeOKStep
<1> QED
  BY <1>1, <1>2, PTL DEF Spec

(***************************************************************************)
(* Places.  The line and the column of the current character are counted   *)
(* along; a token that is begun keeps them.  No token that was read        *)
(* reaches the character where the next one may begin.                     *)
(***************************************************************************)
TokenStart == IF state = "string" THEN token.first - 1 ELSE token.first

Free == IF Collecting THEN TokenStart ELSE at

Here == Placed(at, line, col)

CollectedPlaced ==
  Collecting => /\ TokenStart \in 1..at
                /\ state = "string" => token.first <= at
                /\ Placed(TokenStart, token.line, token.col)

ReadBehind ==
  \A i \in DOMAIN tokens : Proper(tokens[i]) => Stop(tokens[i]) < Free

PlacesInv ==
  TypeOK /\ Here /\ CollectedPlaced /\ ReadBehind /\ TokensPlaced /\ TokensInOrder

LEMMA BreaksFinite ==
  ASSUME NEW i \in Nat
  PROVE  IsFiniteSet(Breaks(i)) /\ Breaks(i) \subseteq 1..(i - 1)
<1>1. IsFiniteSet(1..(i - 1))
  BY FS_Interval
<1>2. Breaks(i) \subseteq 1..(i - 1)
  BY DEF Breaks
<1> QED
  BY <1>1, <1>2, FS_Subset

(* The place of the next character, as next_chars computes it. *)
LEMMA NextPlaced ==
  ASSUME NEW i \in Nat \ {0}, NEW l \in Nat, NEW c \in Nat, Placed(i, l, c)
  PROVE  Placed(i + 1, IF text[i] = NL THEN l + 1 ELSE l,
                       IF text[i] = NL THEN 0 ELSE c + 1)
<1>1. IsFiniteSet(Breaks(i)) /\ i \notin Breaks(i)
  BY BreaksFinite
<1>2. CASE text[i] = NL
  <2>1. Breaks(i + 1) = Breaks(i) \cup {i}
    BY <1>2 DEF Breaks
  <2>2. Cardinality(Breaks(i + 1)) = l + 1
    BY <1>1, <2>1, FS_AddElement DEF Placed
  <2>3. \A j \in (i + 1 - 0)..(i + 1 - 1) : text[j] # NL
    OBVIOUS
  <2>4. text[i + 1 - 0 - 1] = NL
    BY <1>2
  <2> QED
    BY <1>2, <2>2, <2>3, <2>4 DEF Placed
<1>3. CASE text[i] # NL
  <2>1. Breaks(i + 1) = Breaks(i)
    BY <1>3 DEF Breaks
  <2>2. c \in 0..(i - 1) /\ c + 1 \in 0..(i + 1 - 1)
    BY DEF Placed
  <2>3. \A j \in (i + 1 - (c + 1))..(i + 1 - 1) : text[j] # NL
    BY <1>3, <2>2 DEF Placed
  <2>4. c + 1 = i + 1 - 1 \/ text[i + 1 - (c + 1) - 1] = NL
    <3>1. i + 1 - (c + 1) - 1 = i - c - 1
      OBVIOUS
    <3> QED
      BY <3>1 DEF Placed
  <2> QED
    BY <1>3, <2>1, <2>2, <2>3, <2>4 DEF Placed
<1> QED
  BY <1>2, <1>3

(* The first character is in column zero of line zero. *)
LEMMA FirstPlaced == Placed(1, 0, 0)
<1>1. Breaks(1) = {}
  BY DEF Breaks
<1> QED
  BY <1>1, FS_EmptySet DEF Placed

LEMMA TextKept == ASSUME [Next]_vars PROVE text' = text
BY DEF Next, LoneSlash, SkipComment, Terminal, BeginNumber, NumberCharacter,
       EndNumber, BeginString, StringCharacter, EndString, BeginWord,
       WordCharacter, EndWord, CutOff, SkipOther, Finish, Begin, End, vars

LEMMA PassOrStay ==
  ASSUME [Next]_vars
  PROVE  UNCHANGED <<at, line, col>> \/ (~AtEnd /\ next_chars)
BY DEF Next, LoneSlash, SkipComment, Terminal, BeginNumber, NumberCharacter,
       EndNumber, BeginString, StringCharacter, EndString, BeginWord,
       WordCharacter, EndWord, CutOff, SkipOther, Finish, Scanning, Current,
       InNumber, Begin, End, Stay, vars

LEMMA HereStep ==
  ASSUME TypeOK, Here, [Next]_vars
  PROVE  Here'
<1>1. text' = text
  BY TextKept
<1>2. CASE UNCHANGED <<at, line, col>>
  BY <1>1, <1>2 DEF Here, Placed, Breaks
<1>3. CASE next_chars
  <2>1. at \in Nat \ {0} /\ line \in Nat /\ col \in Nat
    BY DEF TypeOK
  <2>2. Placed(at + 1, line', col')
    BY <2>1, <1>3, NextPlaced DEF Here, next_chars
  <2> QED
    BY <1>1, <1>3, <2>2 DEF Here, Placed, Breaks, next_chars
<1> QED
  BY <1>2, <1>3, PassOrStay

(* What is being collected began at a place that stays its place. *)
LEMMA CollectedStep ==
  ASSUME TypeOK, Here, CollectedPlaced, [Next]_vars
  PROVE  CollectedPlaced'
<1>1. text' = text
  BY TextKept
<1>2. \A i, l, c : Placed(i, l, c)' = Placed(i, l, c)
  BY <1>1 DEF Placed, Breaks
<1>3. /\ at \in 1..(Len(text) + 1) /\ at \in Nat
      /\ token.first \in Nat /\ line \in Nat /\ col \in Nat
  BY DEF TypeOK, Positions
<1>4. ASSUME state' = state, at' = at \/ at' = at + 1,
             token'.first = token.first, token'.line = token.line,
             token'.col = token.col
      PROVE  CollectedPlaced'
  <2>1. TokenStart' = TokenStart /\ Collecting' = Collecting
    BY <1>4 DEF TokenStart, Collecting
  <2> QED
    BY <1>2, <1>3, <1>4, <2>1 DEF CollectedPlaced, TokenStart
<1>5. ASSUME NEW kind \in {"number", "word"}, Begin(kind, at), Stay
      PROVE  CollectedPlaced'
  <2>1. TokenStart' = at /\ state' # "string" /\ token'.line = line /\ token'.col = col
    BY <1>5 DEF Begin, TokenStart
  <2> QED
    BY <1>2, <1>3, <1>5, <2>1 DEF CollectedPlaced, Here, Stay
<1>6. CASE BeginString
  <2>1. /\ token'.first = at + 1 /\ token'.line = line /\ token'.col = col
        /\ state' = "string" /\ at' = at + 1
    BY <1>6 DEF BeginString, Begin, next_chars
  <2>2. TokenStart' = at
    BY <1>3, <2>1 DEF TokenStart
  <2> QED
    BY <1>2, <1>3, <2>1, <2>2 DEF CollectedPlaced, Here
<1>7. CASE NumberCharacter
  <2>1. /\ token'.first = token.first /\ token'.line = token.line
        /\ token'.col = token.col
    BY <1>7 DEF NumberCharacter, TypeOK, Positions
  <2> QED
    BY <1>4, <1>7, <2>1 DEF NumberCharacter, next_chars
<1>8. CASE state' \notin {"number", "string", "word"}
  BY <1>8 DEF CollectedPlaced, Collecting
<1>9. CASE \/ SkipComment \/ Terminal \/ StringCharacter \/ WordCharacter
           \/ SkipOther \/ UNCHANGED vars
  BY <1>4, <1>9 DEF SkipComment, Terminal, StringCharacter, WordCharacter,
                    SkipOther, next_chars, vars
<1> QED
  BY <1>5, <1>6, <1>7, <1>8, <1>9
  DEF Next, LoneSlash, BeginNumber, EndNumber, EndString, BeginWord, EndWord,
      CutOff, Finish, End

(* Nothing that is collected later begins before what is free now. *)
LEMMA FreeGrows ==
  ASSUME TypeOK, CollectedPlaced, [Next]_vars
  PROVE  Free' \in Nat /\ Free \in Nat /\ Free <= Free'
<1>1. at \in Nat /\ token.first \in Nat /\ Free \in Nat
  BY DEF TypeOK, Positions, Free, CollectedPlaced
<1>2. Free <= at
  BY <1>1 DEF Free, CollectedPlaced
<1>3. CASE at' \in {at, at + 1} /\ ~Collecting'
  BY <1>1, <1>2, <1>3 DEF Free
<1>4. ASSUME state' = state, token'.first = token.first, at' \in {at, at + 1}
      PROVE  Free' \in Nat /\ Free <= Free'
  BY <1>1, <1>4 DEF Free, Collecting, TokenStart
<1>5. ASSUME NEW kind \in {"number", "word"}, Begin(kind, at), ~Collecting
      PROVE  Free' \in Nat /\ Free <= Free'
  BY <1>1, <1>5 DEF Begin, Free, Collecting, TokenStart
<1>6. CASE BeginString
  BY <1>1, <1>6 DEF BeginString, Begin, Free, Collecting, TokenStart, Scanning
<1>7. token'.first = token.first \/ ~NumberCharacter
  BY DEF NumberCharacter, TypeOK, Positions
<1>8. at' \in {at, at + 1}
  BY PassOrStay DEF next_chars
<1> QED
  BY <1>1, <1>3, <1>4, <1>5, <1>6, <1>7, <1>8
  DEF Next, LoneSlash, SkipComment, Terminal, BeginNumber, NumberCharacter,
      EndNumber, StringCharacter, EndString, BeginWord, WordCharacter, EndWord,
      CutOff, SkipOther, Finish, End, Scanning, Collecting, vars

(***************************************************************************)
(* The tokens that were read.  A step leaves them alone or appends one     *)
(* that begins where the text was free.                                    *)
(***************************************************************************)
LEMMA StopsKnown ==
  ASSUME TypeOK
  PROVE  \A i \in DOMAIN tokens :
           tokens[i].last \in Nat /\ tokens[i].first \in Nat /\ Stop(tokens[i]) \in Int
<1> SUFFICES ASSUME NEW i \in DOMAIN tokens
             PROVE  tokens[i].last \in Nat /\ tokens[i].first \in Nat
                      /\ Stop(tokens[i]) \in Int
  OBVIOUS
<1>1. tokens \in Seq(Tokens)
  BY DEF TypeOK
<1>2. tokens[i] \in Tokens
  BY <1>1
<1>3. tokens[i].last \in Nat /\ tokens[i].first \in Nat
  BY <1>2 DEF Tokens
<1> QED
  BY <1>3 DEF Stop

LEMMA TokenPlaced ==
  ASSUME TypeOK, ReadBehind, TokensPlaced, TokensInOrder, CollectedPlaced,
         [Next]_vars, NEW t, tokens' = Append(tokens, t),
         Proper(t) => /\ Start(t) = Free /\ Placed(Start(t), t.line, t.col)
                      /\ Stop(t) < Free'
  PROVE  ReadBehind' /\ TokensPlaced' /\ TokensInOrder'
<1>1. tokens \in Seq(Tokens) /\ Len(tokens) \in Nat
  BY DEF TypeOK
<1>2. /\ DOMAIN tokens' = DOMAIN tokens \cup {Len(tokens) + 1}
      /\ \A i \in DOMAIN tokens : tokens'[i] = tokens[i]
      /\ tokens'[Len(tokens) + 1] = t
      /\ \A i \in DOMAIN tokens : i < Len(tokens) + 1
  BY <1>1
<1>3. \A i, l, c : Placed(i, l, c)' = Placed(i, l, c)
  BY TextKept DEF Placed, Breaks
<1>4. \A i \in DOMAIN tokens : Proper(tokens[i]) =>
        Stop(tokens[i]) < Free /\ Stop(tokens[i]) < Free' /\ Stop(tokens[i]) \in Int
  BY StopsKnown, FreeGrows DEF ReadBehind
<1>5. ReadBehind'
  <2> SUFFICES ASSUME NEW i \in DOMAIN tokens', Proper(tokens'[i])
               PROVE  Stop(tokens'[i]) < Free'
    BY DEF ReadBehind
  <2> QED
    BY <1>2, <1>4
<1>6. TokensPlaced'
  <2> SUFFICES ASSUME NEW i \in DOMAIN tokens', Proper(tokens'[i])
               PROVE  Placed(Start(tokens'[i]), tokens'[i].line, tokens'[i].col)
    BY <1>3 DEF TokensPlaced
  <2> QED
    BY <1>2 DEF TokensPlaced
<1>7. TokensInOrder'
  <2> SUFFICES ASSUME NEW i \in DOMAIN tokens', NEW j \in DOMAIN tokens', i < j,
                      Proper(tokens'[i]), Proper(tokens'[j])
               PROVE  Stop(tokens'[i]) < Start(tokens'[j])
    BY DEF TokensInOrder
  <2>1. i \in DOMAIN tokens
    BY <1>1, <1>2
  <2> QED
    BY <1>2, <1>4, <2>1 DEF TokensInOrder
<1> QED
  BY <1>5, <1>6, <1>7

LEMMA TerminalTypesProper ==
  \A c : terminal_token_type(c) # "STRING" /\ terminal_token_type(c) \notin EndTypes
BY Zenon DEF terminal_token_type, EndTypes

LEMMA TokensStep ==
  ASSUME PlacesInv, [Next]_vars
  PROVE  ReadBehind' /\ TokensPlaced' /\ TokensInOrder'
<1> USE DEF PlacesInv
<1>1. /\ at \in Nat \ {0} /\ token.first \in Nat
  BY DEF TypeOK, Positions
<1>2. CASE UNCHANGED tokens
  <2>1. \A i, l, c : Placed(i, l, c)' = Placed(i, l, c)
    BY TextKept DEF Placed, Breaks
  <2>2. TokensPlaced' /\ TokensInOrder'
    BY <1>2, <2>1 DEF TokensPlaced, TokensInOrder
  <2>3. ReadBehind'
    BY <1>2, StopsKnown, FreeGrows DEF ReadBehind
  <2> QED
    BY <2>2, <2>3
<1>3. CASE Terminal
  <2> DEFINE t == LexicalToken(terminal_token_type(text[at]), at, at, line, col)
  <2>1. ~Collecting /\ ~Collecting' /\ Free = at /\ Free' = at + 1
    BY <1>3 DEF Terminal, Scanning, Collecting, Free, next_chars
  <2>2. Start(t) = at /\ Stop(t) = at /\ t.line = line /\ t.col = col
    BY TerminalTypesProper DEF LexicalToken, Start, Stop
  <2>3. tokens' = Append(tokens, t)
    BY <1>3 DEF Terminal
  <2> HIDE DEF t
  <2> QED
    BY <1>1, <2>1, <2>2, <2>3, TokenPlaced DEF Here
<1>4. ASSUME NEW type \in WordTypes \cup NumberTypes, End(type), Stay,
             state \in {"number", "word"}
      PROVE  ReadBehind' /\ TokensPlaced' /\ TokensInOrder'
  <2> DEFINE t == LexicalToken(type, token.first, at - 1, token.line, token.col)
  <2>1. Collecting /\ ~Collecting' /\ Free = token.first /\ Free' = at
    BY <1>4 DEF End, Stay, Collecting, Free, TokenStart
  <2>2. Start(t) = token.first /\ Stop(t) = at - 1
        /\ t.line = token.line /\ t.col = token.col
    BY <1>4 DEF LexicalToken, Start, Stop, WordTypes, NumberTypes
  <2>3. tokens' = Append(tokens, t)
    BY <1>4 DEF End
  <2>4. TokenStart = token.first
    BY <1>4 DEF TokenStart
  <2> HIDE DEF t
  <2> QED
    BY <1>1, <2>1, <2>2, <2>3, <2>4, TokenPlaced DEF CollectedPlaced
<1>5. CASE EndString
  <2> DEFINE t == LexicalToken("STRING", token.first, at - 1, token.line, token.col)
  <2>1. Collecting /\ ~Collecting' /\ Free = TokenStart /\ Free' = at + 1
    BY <1>5 DEF EndString, End, Collecting, Free, next_chars
  <2>2. Start(t) = TokenStart /\ Stop(t) = at - 1 + 1
        /\ t.line = token.line /\ t.col = token.col
    BY <1>5 DEF EndString, LexicalToken, Start, Stop, TokenStart
  <2>3. tokens' = Append(tokens, t)
    BY <1>5 DEF EndString, End
  <2> HIDE DEF t
  <2> QED
    BY <1>1, <2>1, <2>2, <2>3, TokenPlaced DEF CollectedPlaced
<1>6. CASE Finish
  <2>1. ~Proper(EOL) /\ tokens' = Append(tokens, EOL)
    BY <1>6 DEF Finish, Proper, EOL, LexicalToken, EndTypes
  <2> QED
    BY <2>1, TokenPlaced
<1>7. CASE EndNumber
  BY <1>4, <1>7 DEF EndNumber, NumberTypes
<1>8. CASE EndWord
  BY <1>4, <1>8, WordTypesKnown DEF EndWord
<1> QED
  BY <1>2, <1>3, <1>5, <1>6, <1>7, <1>8
  DEF Next, LoneSlash, SkipComment, BeginNumber, NumberCharacter, BeginString,
      StringCharacter, BeginWord, WordCharacter, CutOff, SkipOther, Begin, vars

LEMMA PlacesStart == Init => PlacesInv
<1> SUFFICES ASSUME Init PROVE PlacesInv
  OBVIOUS
<1>1. at = 1 /\ line = 0 /\ col = 0 /\ ~Collecting /\ tokens = <<BOL>>
  BY DEF Init, AtStart, Collecting
<1>2. Here
  BY <1>1, FirstPlaced DEF Here
<1>3. \A i \in DOMAIN tokens : ~Proper(tokens[i])
  BY <1>1 DEF Proper, BOL, LexicalToken, EndTypes
<1> QED
  BY <1>1, <1>2, <1>3, TypeOKInit
  DEF PlacesInv, CollectedPlaced, ReadBehind, TokensPlaced, TokensInOrder

LEMMA PlacesKept == PlacesInv /\ [Next]_vars => PlacesInv'
BY TypeOKStep, HereStep, CollectedStep, TokensStep DEF PlacesInv

LEMMA PlacesInvariant == Spec => []PlacesInv
BY PlacesStart, PlacesKept, PTL DEF Spec

(* The line and the column of every token are those of its first           *)
(* character: the error messages point at the right place.                 *)
THEOREM TokensArePlaced == Spec => []TokensPlaced
<1>1. PlacesInv => TokensPlaced
  BY DEF PlacesInv
<1> QED
  BY <1>1, PlacesInvariant, PTL

(* The tokens are in the order of the text, and apart. *)
THEOREM TokensAreInOrder == Spec => []TokensInOrder
<1>1. PlacesInv => TokensInOrder
  BY DEF PlacesInv
<1> QED
  BY <1>1, PlacesInvariant, PTL

(***************************************************************************)
(* Extents.  is_comment_state says that a comment that began before the    *)
(* current character has not been ended by a line break; and which         *)
(* characters before the current one belong to tokens never changes.       *)
(***************************************************************************)
Begins(k) == k < Len(text) /\ text[k] = "/" /\ text[k + 1] = "/" /\ ~Taken(k)

OpenComment ==
  \E k \in 1..(at - 1) : Begins(k) /\ \A m \in k..(at - 1) : text[m] # NL

CommentsInv ==
  state # "failed" => /\ is_comment_state <=> OpenComment
                      /\ Collecting => ~is_comment_state
                      /\ OnlyCommentsLeftOut

InTokens(j) ==
  \E i \in DOMAIN tokens :
    Proper(tokens[i]) /\ Start(tokens[i]) <= j /\ j <= Stop(tokens[i])

LEMMA TakenMeans ==
  \A j : /\ Taken(j) <=> InTokens(j) \/ (Collecting /\ Free <= j)
         /\ Taken(j)' <=> InTokens(j)' \/ (Collecting' /\ Free' <= j)
BY DEF Taken, InTokens, Free, TokenStart, Collecting

LEMMA InTokensKept ==
  ASSUME UNCHANGED tokens PROVE \A j : InTokens(j)' <=> InTokens(j)
BY DEF InTokens

LEMMA InTokensGrow ==
  ASSUME TypeOK, NEW t, tokens' = Append(tokens, t)
  PROVE  \A j : InTokens(j)' <=>
           InTokens(j) \/ (Proper(t) /\ Start(t) <= j /\ j <= Stop(t))
<1>1. tokens \in Seq(Tokens) /\ Len(tokens) \in Nat
  BY DEF TypeOK
<1>2. /\ DOMAIN tokens' = DOMAIN tokens \cup {Len(tokens) + 1}
      /\ \A i \in DOMAIN tokens : tokens'[i] = tokens[i]
      /\ tokens'[Len(tokens) + 1] = t
  BY <1>1
<1> QED
  BY <1>2 DEF InTokens

(* Nothing that is free belongs to a token. *)
LEMMA FreeIsFree ==
  ASSUME TypeOK, ReadBehind
  PROVE  \A j \in Int : Free <= j /\ Free \in Int => ~InTokens(j)
BY StopsKnown DEF ReadBehind, InTokens

LEMMA TakenStep ==
  ASSUME PlacesInv, [Next]_vars, state # "failed", state' # "failed"
  PROVE  /\ \A j \in 1..(at - 1) : Taken(j)' <=> Taken(j)
         /\ at' = at + 1 => \A j \in {at} : Taken(j)' <=> ~SkipComment /\ ~SkipOther
<1> USE DEF PlacesInv
<1>1. /\ at \in Nat \ {0} /\ token.first \in Nat /\ Free \in Nat /\ Free <= at
      /\ Len(text) \in Nat
  BY FreeGrows DEF TypeOK, Positions, Free, CollectedPlaced
<1>2. ~InTokens(at)
  BY <1>1, FreeIsFree
<1>3. \A j \in 1..(at - 1) : j \in Int /\ j < at
  BY <1>1
<1>4. CASE SkipComment \/ SkipOther
  <2>1. ~Collecting /\ ~Collecting' /\ UNCHANGED tokens
    BY <1>4 DEF SkipComment, SkipOther, Scanning, Collecting
  <2>2. \A j : Taken(j)' <=> Taken(j)
    BY <2>1, TakenMeans, InTokensKept
  <2>3. \A j \in {at} : ~Taken(j)'
    BY <1>2, <2>1, TakenMeans, InTokensKept
  <2> QED
    BY <1>4, <2>2, <2>3
<1>5. CASE Terminal
  <2> DEFINE t == LexicalToken(terminal_token_type(text[at]), at, at, line, col)
  <2>1. ~Collecting /\ ~Collecting' /\ tokens' = Append(tokens, t)
    BY <1>5 DEF Terminal, Scanning, Collecting
  <2>2. Start(t) = at /\ Stop(t) = at /\ Proper(t)
    BY TerminalTypesProper DEF LexicalToken, Start, Stop, Proper
  <2>3. ~SkipComment /\ ~SkipOther
    BY <1>5 DEF Terminal, SkipComment, SkipOther, Current
  <2> HIDE DEF t
  <2>4. \A j \in 1..(at - 1) : Taken(j)' <=> Taken(j)
    BY <1>1, <1>3, <2>1, <2>2, TakenMeans, InTokensGrow
  <2>5. \A j \in {at} : Taken(j)'
    BY <1>1, <2>1, <2>2, TakenMeans, InTokensGrow
  <2> QED
    BY <2>3, <2>4, <2>5
<1>6. CASE BeginNumber \/ BeginWord
  <2>1. /\ UNCHANGED tokens /\ ~Collecting /\ Collecting' /\ Free' = at
        /\ Free = at /\ at' = at
    BY <1>6 DEF BeginNumber, BeginWord, Begin, Scanning, Collecting, Free,
                TokenStart, Stay
  <2> QED
    BY <1>1, <1>3, <2>1, TakenMeans, InTokensKept
<1>7. CASE BeginString
  <2>1. UNCHANGED tokens /\ ~Collecting /\ Collecting' /\ Free = at
    BY <1>7 DEF BeginString, Begin, Scanning, Collecting, Free
  <2>2. Free' = at
    BY <1>1, <1>7 DEF BeginString, Begin, Collecting, Free, TokenStart
  <2>3. ~SkipComment /\ ~SkipOther
    BY <1>7 DEF BeginString, Begin, SkipComment, SkipOther, Scanning
  <2>4. \A j \in 1..(at - 1) : Taken(j)' <=> Taken(j)
    BY <1>1, <1>3, <2>1, <2>2, TakenMeans, InTokensKept
  <2>5. \A j \in {at} : Taken(j)'
    BY <1>1, <2>1, <2>2, TakenMeans
  <2> QED
    BY <2>3, <2>4, <2>5
<1>8. CASE NumberCharacter \/ StringCharacter \/ WordCharacter
  <2>1. UNCHANGED tokens /\ Collecting /\ Collecting' /\ state' = state
    BY <1>8 DEF NumberCharacter, StringCharacter, WordCharacter, Collecting
  <2>2. token'.first = token.first
    BY <1>8 DEF NumberCharacter, StringCharacter, WordCharacter, TypeOK, Positions
  <2>3. Free' = Free
    BY <2>1, <2>2 DEF Free, TokenStart, Collecting
  <2>4. ~SkipComment /\ ~SkipOther
    BY <1>8 DEF NumberCharacter, StringCharacter, WordCharacter, SkipComment,
                SkipOther, Scanning
  <2> QED
    BY <1>1, <2>1, <2>3, <2>4, TakenMeans, InTokensKept
<1>9. ASSUME NEW type \in WordTypes \cup NumberTypes, End(type),
              state \in {"number", "word"}
       PROVE  \A j \in 1..(at - 1) : Taken(j)' <=> Taken(j)
  <2> DEFINE t == LexicalToken(type, token.first, at - 1, token.line, token.col)
  <2>1. Collecting /\ ~Collecting' /\ Free = token.first
    BY <1>9 DEF End, Collecting, Free, TokenStart
  <2>2. Start(t) = token.first /\ Stop(t) = at - 1 /\ Proper(t)
    BY <1>9 DEF LexicalToken, Start, Stop, Proper, WordTypes, NumberTypes, EndTypes
  <2>3. tokens' = Append(tokens, t)
    BY <1>9 DEF End
  <2> HIDE DEF t
  <2> QED
    BY <1>1, <1>3, <2>1, <2>2, <2>3, TakenMeans, InTokensGrow
<1>10. CASE EndNumber
  BY <1>1, <1>9, <1>10 DEF EndNumber, NumberTypes, Stay
<1>11. CASE EndWord
  BY <1>1, <1>9, <1>11, WordTypesKnown DEF EndWord, Stay
<1>12. CASE EndString
  <2> DEFINE t == LexicalToken("STRING", token.first, at - 1, token.line, token.col)
  <2>1. Collecting /\ ~Collecting' /\ Free = TokenStart
    BY <1>12 DEF EndString, End, Collecting, Free
  <2>2. Start(t) = TokenStart /\ Stop(t) = at - 1 + 1 /\ Proper(t)
    BY <1>12 DEF EndString, LexicalToken, Start, Stop, TokenStart, Proper, EndTypes
  <2>3. tokens' = Append(tokens, t)
    BY <1>12 DEF EndString, End
  <2>4. ~SkipComment /\ ~SkipOther
    BY <1>12 DEF EndString, SkipComment, SkipOther, Scanning
  <2> HIDE DEF t
  <2>5. \A j \in 1..(at - 1) : Taken(j)' <=> Taken(j)
    BY <1>1, <1>3, <2>1, <2>2, <2>3, TakenMeans, InTokensGrow
  <2>6. \A j \in {at} : Taken(j)'
    BY <1>1, <2>1, <2>2, <2>3, TakenMeans, InTokensGrow
  <2> QED
    BY <2>4, <2>5, <2>6
<1>13. CASE Finish
  <2>1. ~Proper(EOL) /\ tokens' = Append(tokens, EOL)
    BY <1>13 DEF Finish, Proper, EOL, LexicalToken, EndTypes
  <2>2. ~Collecting /\ ~Collecting' /\ at' = at
    BY <1>13 DEF Finish, Collecting, Stay
  <2> QED
    BY <1>1, <2>1, <2>2, TakenMeans, InTokensGrow
<1>14. CASE UNCHANGED vars
  BY <1>1, <1>14 DEF vars, Taken, Collecting
<1> QED
  BY <1>4, <1>5, <1>6, <1>7, <1>8, <1>10, <1>11, <1>12, <1>13, <1>14
  DEF Next, LoneSlash, CutOff

LEMMA CommentsStep ==
  ASSUME PlacesInv, CommentsInv, [Next]_vars
  PROVE  CommentsInv'
<1> SUFFICES ASSUME state' # "failed" PROVE CommentsInv'
  BY DEF CommentsInv
<1>1. state # "failed"
  BY DEF Next, LoneSlash, SkipComment, Terminal, BeginNumber, NumberCharacter,
         EndNumber, BeginString, StringCharacter, EndString, BeginWord,
         WordCharacter, EndWord, CutOff, SkipOther, Finish, Scanning, vars
<1>2. /\ is_comment_state <=> OpenComment
      /\ Collecting => ~is_comment_state
      /\ OnlyCommentsLeftOut
  BY <1>1 DEF CommentsInv
<1>3. text' = text /\ at \in Nat \ {0} /\ Len(text) \in Nat
  BY TextKept DEF PlacesInv, TypeOK
<1>4. /\ \A j \in 1..(at - 1) : Taken(j)' <=> Taken(j)
      /\ at' = at + 1 => \A j \in {at} : Taken(j)' <=> ~SkipComment /\ ~SkipOther
  BY <1>1, TakenStep
<1>5. \A j \in 1..(at - 1) : Begins(j)' <=> Begins(j)
  BY <1>3, <1>4 DEF Begins
<1>6. \A j \in 1..(at - 1) : InAComment(j)' <=> InAComment(j)
  <2> SUFFICES ASSUME NEW j \in 1..(at - 1)
               PROVE  InAComment(j)' <=> InAComment(j)
    OBVIOUS
  <2>1. InAComment(j) <=> \E k \in 1..j : Begins(k) /\ \A m \in k..(j - 1) : text[m] # NL
    BY DEF InAComment, Begins
  <2>2. InAComment(j)' <=> \E k \in 1..j : Begins(k)' /\ \A m \in k..(j - 1) : text[m] # NL
    BY <1>3 DEF InAComment, Begins
  <2>3. \A k \in 1..j : k \in 1..(at - 1)
    BY <1>3
  <2> QED
    BY <1>5, <2>1, <2>2, <2>3
<1>7. \A j \in 1..(at - 1) :
        text[j] \in Significant => (Taken(j)' <=> ~InAComment(j)')
  BY <1>1, <1>2, <1>4, <1>6 DEF OnlyCommentsLeftOut
(* The current character, when it is passed. *)
<1> DEFINE Last(j) == /\ text[j] \in Significant => (Taken(j)' <=> ~InAComment(j)')
                      /\ is_comment_state' <=> InAComment(j)' /\ text[j] # NL
<1>8. \A j \in {at} :
        InAComment(j)' <=> OpenComment \/ Begins(j)'
  <2> SUFFICES ASSUME NEW j, j = at
               PROVE  InAComment(j)' <=> OpenComment \/ Begins(j)'
    OBVIOUS
  <2>1. InAComment(j)' <=> \E k \in 1..j : Begins(k)' /\ \A m \in k..(j - 1) : text[m] # NL
    BY <1>3 DEF InAComment, Begins
  <2>2. OpenComment <=> \E k \in 1..(j - 1) : Begins(k)' /\ \A m \in k..(j - 1) : text[m] # NL
    BY <1>5 DEF OpenComment
  <2>3. 1..j = 1..(j - 1) \cup {j} /\ \A m \in j..(j - 1) : FALSE
    BY <1>3
  <2> QED
    BY <2>1, <2>2, <2>3
<1>9. ASSUME at' = at + 1 PROVE \A j \in {at} : Last(j)
  <2>1. CASE SkipComment
    <3>1. \A j \in {at} : ~Taken(j)'
      BY <1>4, <1>9, <2>1
    <3>2. \A j \in {at} : TwoSlashes => Begins(j)'
      BY <1>3, <3>1 DEF TwoSlashes, Begins, Current, HasNext
    <3>3. \A j \in {at} : InAComment(j)'
      BY <1>2, <1>8, <2>1, <3>2 DEF SkipComment, InComment
    <3>4. is_comment_state' = (text[at] # NL)
      BY <2>1 DEF SkipComment
    <3> QED
      BY <3>1, <3>3, <3>4
  <2>2. CASE SkipOther
    <3>1. text[at] \notin Significant /\ text[at] # "/" /\ ~is_comment_state
          /\ is_comment_state' = is_comment_state
      BY <2>2 DEF SkipOther, Significant, terminals, InComment
    <3>2. \A j \in {at} : ~Begins(j)'
      BY <1>3, <3>1 DEF Begins
    <3> QED
      BY <1>2, <1>8, <3>1, <3>2
  <2>3. CASE ~SkipComment /\ ~SkipOther
    <3>1. \A j \in {at} : Taken(j)'
      BY <1>4, <1>9, <2>3
    <3>2. \A j \in {at} : ~Begins(j)'
      BY <3>1 DEF Begins
    <3>3. ~is_comment_state /\ is_comment_state' = is_comment_state
      BY <1>2, <1>3, <1>9, <2>3
      DEF Next, LoneSlash, Terminal, BeginNumber, NumberCharacter, EndNumber,
          BeginString, StringCharacter, EndString, BeginWord, WordCharacter,
          EndWord, CutOff, Finish, Begin, End, vars, InComment, Collecting, Stay
    <3> QED
      BY <1>2, <1>8, <3>1, <3>2, <3>3
  <2> QED
    BY <2>1, <2>2, <2>3
<1>10. CASE UNCHANGED <<at, line, col>>
  <2>1. is_comment_state' = is_comment_state
    BY <1>3, <1>10
    DEF Next, LoneSlash, SkipComment, Terminal, BeginNumber, NumberCharacter,
        EndNumber, BeginString, StringCharacter, EndString, BeginWord,
        WordCharacter, EndWord, CutOff, SkipOther, Finish, Begin, End, vars,
        next_chars
  <2>2. OpenComment' <=> OpenComment
    BY <1>3, <1>5, <1>10 DEF OpenComment
  <2>3. Collecting' => ~is_comment_state
    BY <1>2 DEF Next, LoneSlash, SkipComment, Terminal, BeginNumber,
        NumberCharacter, EndNumber, BeginString, StringCharacter, EndString,
        BeginWord, WordCharacter, EndWord, CutOff, SkipOther, Finish, Begin,
        End, vars, InComment, Collecting
  <2>4. OnlyCommentsLeftOut'
    BY <1>3, <1>7, <1>10 DEF OnlyCommentsLeftOut, Significant
  <2> QED
    BY <1>2, <2>1, <2>2, <2>3, <2>4 DEF CommentsInv
<1>11. CASE next_chars
  <2>1. at' = at + 1 /\ 1..(at' - 1) = 1..(at - 1) \cup {at}
    BY <1>3, <1>11 DEF next_chars
  <2>2. \A j \in {at} : Last(j)
    BY <1>9, <2>1
  <2>3. OnlyCommentsLeftOut'
    BY <1>3, <1>7, <2>1, <2>2 DEF OnlyCommentsLeftOut, Significant
  <2>4. OpenComment' <=> \A j \in {at} : InAComment(j)' /\ text[j] # NL
    <3>1. OpenComment' <=> \E k \in 1..at : Begins(k)' /\ \A m \in k..at : text[m] # NL
      <4>1. at' - 1 = at
        BY <1>3, <2>1
      <4> QED
        BY <1>3, <4>1 DEF OpenComment
    <3>2. \A j \in {at} : InAComment(j)' <=>
            \E k \in 1..at : Begins(k)' /\ \A m \in k..(at - 1) : text[m] # NL
      BY <1>3 DEF InAComment, Begins
    <3>3. \A k \in 1..at : k..at = k..(at - 1) \cup {at}
      BY <1>3
    <3> QED
      BY <3>1, <3>2, <3>3
  <2>5. is_comment_state' <=> OpenComment'
    BY <2>2, <2>4
  <2>6. Collecting' => ~is_comment_state'
    BY <1>2 DEF Next, LoneSlash, SkipComment, Terminal, BeginNumber,
        NumberCharacter, EndNumber, BeginString, StringCharacter, EndString,
        BeginWord, WordCharacter, EndWord, CutOff, SkipOther, Finish, Begin,
        End, vars, InComment, Collecting, Scanning
  <2> QED
    BY <2>3, <2>5, <2>6 DEF CommentsInv
<1> QED
  BY <1>10, <1>11, PassOrStay

(* What the lexer leaves out are the comments, the blanks and the          *)
(* characters the language does not know; nothing else is lost, and        *)
(* nothing in a comment becomes a token.                                   *)
THEOREM OnlyCommentsAreLeftOut == Spec => []OnlyCommentsLeftOut
<1> DEFINE Inv == PlacesInv /\ CommentsInv
<1>1. Init => CommentsInv
  <2> SUFFICES ASSUME Init PROVE CommentsInv
    OBVIOUS
  <2>1. at = 1 /\ is_comment_state = FALSE /\ ~Collecting
    BY DEF Init, AtStart, Collecting
  <2>2. 1..(at - 1) = {}
    BY <2>1
  <2> QED
    BY <2>1, <2>2 DEF CommentsInv, OpenComment, OnlyCommentsLeftOut
<1>2. Inv /\ [Next]_vars => Inv'
  BY PlacesKept, CommentsStep
<1>3. Inv => OnlyCommentsLeftOut
  BY DEF CommentsInv, OnlyCommentsLeftOut
<1> QED
  BY <1>1, <1>2, <1>3, PlacesStart, PTL DEF Spec

(***************************************************************************)
(* Whole tokens.  What has been collected so far is the beginning of what  *)
(* its state says, and is_dot_met whether there is a dot in it.            *)
(***************************************************************************)
Run == token.first..(at - 1)

CollectedWhole ==
  /\ Collecting => token.first <= at
  /\ state = "number" =>
       /\ token.first <= Len(text) /\ text[token.first] \in didgits
       /\ \A j \in Run : text[j] \in didgits \cup {"."}
       /\ ~token.is_dot_met => \A j \in Run : text[j] # "."
       /\ token.is_dot_met => \E d \in Run : text[d] = "." /\ \A j \in Run : text[j] = "." => j = d
  /\ state = "string" => text[token.first - 1] = Quote /\ \A j \in Run : text[j] # Quote
  /\ state = "word" =>
       /\ token.first <= Len(text) /\ text[token.first] \in alphabet
       /\ \A j \in Run : text[j] \in alphabet \cup didgits

WholeInv == TypeOK /\ CollectedWhole /\ TokensWhole

(* The next character of what is being collected. *)
LEMMA RunGrows ==
  ASSUME TypeOK, token.first <= at, at' = at + 1, token'.first = token.first
  PROVE  Run' = Run \cup {at} /\ token'.first <= at'
BY DEF TypeOK, Positions, Run

LEMMA CollectedWholeStep ==
  ASSUME WholeInv, [Next]_vars
  PROVE  CollectedWhole'
<1> USE DEF WholeInv
<1>1. text' = text
  BY TextKept
<1>2. /\ at \in 1..(Len(text) + 1) /\ token.first \in Nat /\ Len(text) \in Nat
      /\ token.is_dot_met \in BOOLEAN
  BY DEF TypeOK, Positions
<1>3. CASE state' \notin {"number", "string", "word"}
  BY <1>3 DEF CollectedWhole, Collecting
<1>4. CASE UNCHANGED <<at, token, state>>
  BY <1>1, <1>4 DEF CollectedWhole, Collecting, Run
<1>5. CASE BeginNumber
  <2>1. /\ state' = "number" /\ token'.first = at /\ ~token'.is_dot_met /\ at' = at
        /\ at <= Len(text) /\ text[at] \in didgits
    BY <1>2, <1>5 DEF BeginNumber, Begin, Stay, Current, AtEnd
  <2>2. Run' = {}
    BY <1>2, <2>1 DEF Run
  <2> QED
    BY <1>1, <2>1, <2>2, <1>2 DEF CollectedWhole
<1>6. CASE BeginWord
  <2>1. /\ state' = "word" /\ token'.first = at /\ at' = at
        /\ at <= Len(text) /\ text[at] \in alphabet
    BY <1>2, <1>6 DEF BeginWord, Begin, Stay, Current, AtEnd
  <2>2. Run' = {}
    BY <1>2, <2>1 DEF Run
  <2> QED
    BY <1>1, <2>1, <2>2, <1>2 DEF CollectedWhole
<1>7. CASE BeginString
  <2>1. /\ state' = "string" /\ token'.first = at + 1 /\ at' = at + 1 /\ text[at] = Quote
    BY <1>2, <1>7 DEF BeginString, Begin, next_chars, Current
  <2>2. Run' = {} /\ token'.first - 1 = at
    BY <1>2, <2>1 DEF Run
  <2> QED
    BY <1>1, <2>1, <2>2, <1>2 DEF CollectedWhole
<1>8. CASE StringCharacter \/ WordCharacter
  <2>1. /\ state' = state /\ state \in {"string", "word"} /\ token' = token /\ at' = at + 1
        /\ state = "string" => text[at] # Quote
        /\ state = "word" => text[at] \in alphabet \cup didgits
    BY <1>8 DEF StringCharacter, WordCharacter, next_chars, Current
  <2>2. Run' = Run \cup {at} /\ token'.first <= at'
    BY <2>1, RunGrows DEF CollectedWhole, Collecting
  <2> QED
    BY <1>1, <2>1, <2>2 DEF CollectedWhole
<1>9. CASE NumberCharacter
  <2>1. /\ state' = "number" /\ state = "number" /\ at' = at + 1
        /\ token'.first = token.first /\ token'.is_dot_met = (token.is_dot_met \/ text[at] = ".")
        /\ text[at] \in didgits \/ (~token.is_dot_met /\ text[at] = ".")
    BY <1>9 DEF NumberCharacter, InNumber, Current, next_chars, TypeOK, Positions
  <2>2. Run' = Run \cup {at} /\ token'.first <= at' /\ at \notin Run
    BY <2>1, <1>2, RunGrows DEF CollectedWhole, Collecting, Run
  <2>3. /\ token.first <= Len(text) /\ text[token.first] \in didgits
        /\ \A j \in Run : text[j] \in didgits \cup {"."}
        /\ ~token.is_dot_met => \A j \in Run : text[j] # "."
        /\ token.is_dot_met => \E d \in Run : text[d] = "." /\ \A j \in Run : text[j] = "." => j = d
    BY <2>1 DEF CollectedWhole
  <2>4. "." \notin didgits
    BY DEF didgits
  <2>5. ~token'.is_dot_met => \A j \in Run' : text[j] # "."
    BY <2>1, <2>2, <2>3
  <2>6. token'.is_dot_met =>
          \E d \in Run' : text[d] = "." /\ \A j \in Run' : text[j] = "." => j = d
    <3>1. CASE token.is_dot_met
      BY <2>1, <2>2, <2>3, <2>4, <3>1
    <3>2. CASE ~token.is_dot_met
      BY <2>1, <2>2, <2>3, <3>2
    <3> QED
      BY <3>1, <3>2
  <2>7. \A j \in Run' : text[j] \in didgits \cup {"."}
    BY <2>1, <2>2, <2>3
  <2> QED
    BY <1>1, <2>1, <2>2, <2>3, <2>5, <2>6, <2>7 DEF CollectedWhole
<1>10. CASE SkipComment \/ Terminal \/ SkipOther
  BY <1>3, <1>10 DEF SkipComment, Terminal, SkipOther, Scanning
<1> QED
  BY <1>3, <1>4, <1>5, <1>6, <1>7, <1>8, <1>9, <1>10
  DEF Next, LoneSlash, EndNumber, EndString, EndWord, CutOff, Finish, End, vars

(* A token that is whole, appended to tokens that are. *)
LEMMA WholeAppended ==
  ASSUME TokensWhole, tokens \in Seq(Tokens), text' = text, NEW t, Whole(t), tokens' = Append(tokens, t)
  PROVE  TokensWhole'
<1>1. \A u : Whole(u)' = Whole(u)
  BY DEF Whole, GoesOn, Dots
<1>2. \A i \in DOMAIN tokens' : (i \in DOMAIN tokens /\ tokens'[i] = tokens[i]) \/ tokens'[i] = t
  OBVIOUS
<1> QED
  BY <1>1, <1>2 DEF TokensWhole

LEMMA OtherTypes ==
  /\ \A c : terminal_token_type(c) \notin {"INT", "DOUBLE", "STRING"} \cup WordTypes
  /\ "INT" \notin WordTypes /\ "DOUBLE" \notin WordTypes /\ "STRING" \notin WordTypes
  /\ "EOL" \notin WordTypes /\ "BOL" \notin WordTypes
<1>1. \A c : terminal_token_type(c) \notin {"INT", "DOUBLE", "STRING"} \cup WordTypes
  BY Zenon DEF terminal_token_type, WordTypes
<1> QED
  BY <1>1 DEF WordTypes

LEMMA TokensWholeStep ==
  ASSUME WholeInv, [Next]_vars
  PROVE  TokensWhole'
<1> USE DEF WholeInv
<1>1. text' = text
  BY TextKept
<1>2. /\ at \in 1..(Len(text) + 1) /\ token.first \in Nat /\ Len(text) \in Nat
      /\ tokens \in Seq(Tokens) /\ token.is_dot_met \in BOOLEAN /\ (at - 1) + 1 = at
  BY DEF TypeOK, Positions
<1>3. CASE UNCHANGED tokens
  <2>1. \A u : Whole(u)' = Whole(u)
    BY <1>1 DEF Whole, GoesOn, Dots
  <2> QED
    BY <1>3, <2>1 DEF TokensWhole
<1>4. CASE Terminal
  <2> DEFINE t == LexicalToken(terminal_token_type(text[at]), at, at, line, col)
  <2>1. t.type = terminal_token_type(text[at]) /\ tokens' = Append(tokens, t)
    BY <1>4 DEF Terminal, LexicalToken
  <2> HIDE DEF t
  <2>2. Whole(t)
    BY <2>1, OtherTypes DEF Whole
  <2> QED
    BY <1>1, <1>2, <2>1, <2>2, WholeAppended
<1>5. CASE Finish
  <2>1. EOL.type = "EOL" /\ tokens' = Append(tokens, EOL)
    BY <1>5 DEF Finish, EOL, LexicalToken
  <2>2. Whole(EOL)
    BY <2>1, OtherTypes DEF Whole
  <2> QED
    BY <1>1, <1>2, <2>1, <2>2, WholeAppended
<1>6. CASE EndNumber
  <2> DEFINE type == IF token.is_dot_met THEN "DOUBLE" ELSE "INT"
             t    == LexicalToken(type, token.first, at - 1, token.line, token.col)
  <2>1. /\ state = "number" /\ tokens' = Append(tokens, t) /\ ~InNumber
        /\ t.type = type /\ t.first = token.first /\ t.last = at - 1
    BY <1>6 DEF EndNumber, End, LexicalToken
  <2>2. /\ token.first <= Len(text) /\ text[token.first] \in didgits /\ token.first <= at
        /\ \A j \in Run : text[j] \in didgits \cup {"."}
        /\ ~token.is_dot_met => \A j \in Run : text[j] # "."
        /\ token.is_dot_met => \E d \in Run : text[d] = "." /\ \A j \in Run : text[j] = "." => j = d
    BY <2>1 DEF CollectedWhole, Collecting
  <2>3. ~GoesOn(at, didgits) /\ (~token.is_dot_met => ~GoesOn(at, didgits \cup {"."}))
    BY <1>2, <2>1 DEF InNumber, Current, AtEnd, GoesOn
  <2>4. token.first <= at - 1
    <3>1. token.first # at
      BY <2>2, <2>3 DEF GoesOn
    <3> QED
      BY <1>2, <2>2, <3>1
  <2> HIDE DEF t
  <2>5. Whole(t)
    <3>1. CASE token.is_dot_met
      <4>1. t.type = "DOUBLE"
        BY <2>1, <3>1
      <4>2. PICK d \in Run : text[d] = "." /\ \A j \in Run : text[j] = "." => j = d
        BY <2>2, <3>1
      <4>3. Dots(t) = {d}
        BY <2>1, <4>2 DEF Dots, Run
      <4>4. Cardinality(Dots(t)) = 1
        BY <4>3, FS_Singleton
      <4> QED
        BY <1>2, <2>1, <2>2, <2>3, <4>1, <4>4, OtherTypes DEF Whole, Run
    <3>2. CASE ~token.is_dot_met
      <4>1. t.type = "INT"
        BY <2>1, <3>2
      <4>2. \A j \in Run : text[j] \in didgits
        BY <2>2, <3>2
      <4> QED
        BY <1>2, <2>1, <2>3, <2>4, <3>2, <4>1, <4>2, OtherTypes DEF Whole, Run
    <3> QED
      BY <3>1, <3>2
  <2> QED
    BY <1>1, <1>2, <2>1, <2>5, WholeAppended
<1>7. CASE EndString
  <2> DEFINE t == LexicalToken("STRING", token.first, at - 1, token.line, token.col)
  <2>1. /\ state = "string" /\ tokens' = Append(tokens, t) /\ text[at] = Quote
        /\ t.type = "STRING" /\ t.first = token.first /\ t.last = at - 1
    BY <1>7 DEF EndString, End, LexicalToken, Current
  <2>2. text[token.first - 1] = Quote /\ \A j \in Run : text[j] # Quote
    BY <2>1 DEF CollectedWhole
  <2> HIDE DEF t
  <2>3. Whole(t)
    BY <1>2, <2>1, <2>2, OtherTypes DEF Whole, Run
  <2> QED
    BY <1>1, <1>2, <2>1, <2>3, WholeAppended
<1>8. CASE EndWord
  <2> DEFINE type == word_token_type(SubSeq(text, token.first, at - 1))
             t    == LexicalToken(type, token.first, at - 1, token.line, token.col)
  <2>1. /\ state = "word" /\ tokens' = Append(tokens, t) /\ text[at] \notin alphabet \cup didgits
        /\ t.type = type /\ t.first = token.first /\ t.last = at - 1
    BY <1>8 DEF EndWord, End, LexicalToken
  <2>2. text[token.first] \in alphabet /\ \A j \in Run : text[j] \in alphabet \cup didgits
    BY <2>1 DEF CollectedWhole
  <2>3. type \in WordTypes
    BY WordTypesKnown
  <2> HIDE DEF t, type
  <2>4. t.type \in WordTypes /\ t.type \notin {"INT", "DOUBLE", "STRING"}
    BY <2>1, <2>3, OtherTypes
  <2>5. ~GoesOn(at, alphabet \cup didgits)
    BY <2>1 DEF GoesOn
  <2>6. Whole(t)
    BY <1>2, <2>1, <2>2, <2>4, <2>5 DEF Whole, Run
  <2> QED
    BY <1>1, <1>2, <2>1, <2>6, WholeAppended
<1> QED
  BY <1>3, <1>4, <1>5, <1>6, <1>7, <1>8
  DEF Next, LoneSlash, SkipComment, BeginNumber, NumberCharacter, BeginString,
      StringCharacter, BeginWord, WordCharacter, CutOff, SkipOther, Begin, vars

(* Every number, string and word is what its type says, and is as long as  *)
(* it can be: the inner loops neither stop early nor go too far.           *)
THEOREM TokensAreWhole == Spec => []TokensWhole
<1>1. Init => WholeInv
  <2> SUFFICES ASSUME Init PROVE WholeInv
    OBVIOUS
  <2>1. ~Collecting /\ tokens = <<BOL>> /\ state = "scanning"
    BY DEF Init, AtStart, Collecting
  <2>2. BOL.type = "BOL"
    BY DEF BOL, LexicalToken
  <2>3. Whole(BOL)
    BY <2>2, OtherTypes DEF Whole
  <2>4. \A i \in DOMAIN tokens : tokens[i] = BOL
    BY <2>1
  <2> QED
    BY <2>1, <2>3, <2>4, TypeOKInit DEF WholeInv, CollectedWhole, TokensWhole
<1>2. WholeInv /\ [Next]_vars => WholeInv'
  BY TypeOKStep, CollectedWholeStep, TokensWholeStep DEF WholeInv
<1>3. WholeInv => TokensWhole
  BY DEF WholeInv
<1> QED
  BY <1>1, <1>2, <1>3, PTL DEF Spec

(***************************************************************************)
(* Braces.  The consoles' scan and the lexer go through a text together:   *)
(* the scan is in a string when the lexer is, and its balance is what the  *)
(* tokens read so far amount to.  Scanned is a recursive function over the *)
(* characters.                                                             *)
(***************************************************************************)
ScannedUpTo(f, input, n) ==
  f = [i \in 0..n |-> IF i = 0 THEN NothingRead ELSE PastCharacter(f[i - 1], input[i])]

LEMMA ScanExists ==
  ASSUME NEW input, NEW n \in Nat
  PROVE  \E f : ScannedUpTo(f, input, n)
<1> DEFINE T == {m \in Nat : \E f : ScannedUpTo(f, input, m)}
<1>1. 0 \in T
  <2>1. ScannedUpTo([i \in 0..0 |-> NothingRead], input, 0)
    BY DEF ScannedUpTo
  <2> QED
    BY <2>1
<1>2. ASSUME NEW m \in T PROVE m + 1 \in T
  <2>1. PICK f : ScannedUpTo(f, input, m)
    OBVIOUS
  <2> DEFINE last == PastCharacter(f[m], input[m + 1])
             g == [i \in 0..(m + 1) |-> IF i = m + 1 THEN last ELSE f[i]]
  <2>2. ASSUME NEW i \in 0..(m + 1)
        PROVE  g[i] = IF i = 0 THEN NothingRead ELSE PastCharacter(g[i - 1], input[i])
    <3>1. CASE i = m + 1
      <4>1. i # 0 /\ g[i - 1] = f[m] /\ g[i] = last /\ input[i] = input[m + 1]
        BY <3>1
      <4> HIDE DEF g
      <4> QED
        BY <4>1, Zenon
    <3>2. CASE i \in 0..m
      <4>1. g[i] = f[i] /\ (i # 0 => g[i - 1] = f[i - 1])
        BY <3>2
      <4>2. f[i] = IF i = 0 THEN NothingRead ELSE PastCharacter(f[i - 1], input[i])
        BY <2>1, <3>2 DEF ScannedUpTo
      <4> HIDE DEF g
      <4> QED
        BY <4>1, <4>2, Zenon
    <3> QED
      BY <3>1, <3>2
  <2>3. ScannedUpTo(g, input, m + 1)
    <3> HIDE DEF last
    <3>1. g = [i \in 0..(m + 1) |-> g[i]]
      OBVIOUS
    <3> HIDE DEF g
    <3> QED
      BY <2>2, <3>1, Zenon DEF ScannedUpTo
  <2> QED
    BY <2>3
<1> HIDE DEF T
<1>3. T = Nat
  BY <1>1, <1>2, EveryNatural DEF T
<1> QED
  BY <1>3 DEF T

(* The scan begins with nothing and goes on by one character at a time. *)
LEMMA ScanStep ==
  ASSUME NEW input, Len(input) \in Nat
  PROVE  /\ Scanned(input)[0] = NothingRead
         /\ \A k \in 1..Len(input) :
              Scanned(input)[k] = PastCharacter(Scanned(input)[k - 1], input[k])
<1> DEFINE f == CHOOSE f : ScannedUpTo(f, input, Len(input))
           Body(i) == IF i = 0 THEN NothingRead ELSE PastCharacter(f[i - 1], input[i])
<1>1. ScannedUpTo(f, input, Len(input))
  BY ScanExists
<1>2. Scanned(input) = f
  BY DEF Scanned, ScannedUpTo
<1>3. \A i \in 0..Len(input) : f[i] = Body(i)
  <2> HIDE DEF f
  <2> QED
    BY <1>1 DEF ScannedUpTo
<1> HIDE DEF f
<1>4. f[0] = NothingRead
  BY <1>3
<1>5. ASSUME NEW k \in 1..Len(input)
      PROVE  f[k] = PastCharacter(f[k - 1], input[k])
  <2>1. k \in 0..Len(input) /\ k # 0
    OBVIOUS
  <2>2. f[k] = Body(k)
    BY <1>3, <2>1
  <2> QED
    BY <2>1, <2>2, Zenon
<1> QED
  BY <1>2, <1>4, <1>5

LEMMA BracesCounted ==
  ASSUME TypeOK, NEW type
  PROVE  Braces(type) \in Nat /\ IsFiniteSet({i \in DOMAIN tokens : tokens[i].type = type})
<1> DEFINE are == {i \in DOMAIN tokens : tokens[i].type = type}
<1>1. Len(tokens) \in Nat /\ are \subseteq 1..Len(tokens)
  BY DEF TypeOK
<1>2. IsFiniteSet(1..Len(tokens))
  BY <1>1, FS_Interval
<1> QED
  BY <1>1, <1>2, FS_Subset, FS_CardinalityType DEF Braces

(* What a token more adds to the braces. *)
LEMMA BracesAppended ==
  ASSUME TypeOK, NEW t, NEW type, tokens' = Append(tokens, t)
  PROVE  /\ Braces(type) \in Nat
         /\ Braces(type)' = Braces(type) + (IF t.type = type THEN 1 ELSE 0)
<1> DEFINE were == {i \in DOMAIN tokens : tokens[i].type = type}
           n    == Len(tokens) + 1
<1>1. tokens \in Seq(Tokens) /\ Len(tokens) \in Nat /\ DOMAIN tokens = 1..Len(tokens)
  BY DEF TypeOK
<1>2. IsFiniteSet(were) /\ Cardinality(were) \in Nat
  BY BracesCounted DEF Braces
<1>3. DOMAIN tokens' = DOMAIN tokens \cup {n} /\ n \notin DOMAIN tokens
  BY <1>1
<1>4. tokens'[n] = t /\ \A i \in DOMAIN tokens : tokens'[i] = tokens[i]
  BY <1>1
<1> DEFINE are == {i \in DOMAIN tokens' : tokens'[i].type = type}
<1>5. (t.type = type => are = were \cup {n}) /\ (t.type # type => are = were)
  BY <1>3, <1>4
<1>6. Cardinality(were \cup {n}) = Cardinality(were) + 1
  BY <1>2, <1>3, FS_AddElement
<1>7. Braces(type) = Cardinality(were)
  BY DEF Braces
<1>8. Braces(type)' = Cardinality(are)
  BY DEF Braces
<1> HIDE DEF were, are
<1>9. CASE t.type = type
  BY <1>2, <1>5, <1>6, <1>7, <1>8, <1>9
<1>10. CASE t.type # type
  BY <1>2, <1>5, <1>7, <1>8, <1>10
<1> QED
  BY <1>9, <1>10

(* What one more character tells, outside of strings and in one.           *)
IsScan(seen) ==
  /\ seen = [string_char |-> seen.string_char, previous |-> seen.previous,
             balance |-> seen.balance]
  /\ seen.balance \in Int

Weight(c) == CASE c = "{" -> 1 [] c = "}" -> -1 [] OTHER -> 0

LEMMA OutsideString ==
  ASSUME NEW seen, NEW c, IsScan(seen), seen.string_char = Outside
  PROVE  LET past == PastCharacter(seen, c) IN
         /\ IsScan(past) /\ past.previous = c
         /\ past.string_char = (IF c \in {"'", Quote} THEN c ELSE Outside)
         /\ past.balance = seen.balance + Weight(c)
<1> DEFINE string  == IF c \in {"'", Quote} THEN c ELSE Outside
           balance == CASE c = "{" -> seen.balance + 1
                        [] c = "}" -> seen.balance - 1
                        [] OTHER -> seen.balance
<1>1. PastCharacter(seen, c) =
        [string_char |-> string, previous |-> c, balance |-> balance]
  BY DEF PastCharacter, Quote
<1>2. /\ c = "{" => balance = seen.balance + 1 /\ Weight(c) = 1
      /\ c = "}" => balance = seen.balance - 1 /\ Weight(c) = -1
      /\ c # "{" /\ c # "}" => balance = seen.balance /\ Weight(c) = 0
  BY Zenon DEF Weight
<1> HIDE DEF string, balance
<1>3. balance = seen.balance + Weight(c) /\ balance \in Int
  <2>1. \/ balance = seen.balance + 1 /\ Weight(c) = 1
        \/ balance = seen.balance - 1 /\ Weight(c) = -1
        \/ balance = seen.balance /\ Weight(c) = 0
    BY <1>2, Zenon
  <2> QED
    BY <2>1 DEF IsScan
<1> QED
  BY <1>1, <1>3 DEF IsScan, string

LEMMA InsideString ==
  ASSUME NEW seen, NEW c, IsScan(seen), seen.string_char = Quote
  PROVE  LET past == PastCharacter(seen, c) IN
         /\ IsScan(past) /\ past.previous = c /\ past.balance = seen.balance
         /\ c # Quote => past.string_char = Quote
         /\ c = Quote /\ seen.previous # "\\" => past.string_char = Outside
<1> DEFINE string == IF c = seen.string_char /\ seen.previous # "\\" THEN Outside
                     ELSE seen.string_char
<1>1. PastCharacter(seen, c) = [seen EXCEPT !.previous = c, !.string_char = string]
  BY Zenon DEF PastCharacter, Outside, Quote
<1>2. PastCharacter(seen, c) =
        [string_char |-> string, previous |-> c, balance |-> seen.balance]
  <2> HIDE DEF string
  <2> QED
    BY <1>1 DEF IsScan
<1> QED
  BY <1>2 DEF IsScan

(* Wherever it stands, a character that is no brace leaves the balance.    *)
LEMMA AnyCharacter ==
  ASSUME NEW seen, NEW c, IsScan(seen)
  PROVE  LET past == PastCharacter(seen, c) IN
         /\ IsScan(past) /\ past.previous = c
         /\ c \notin {"{", "}"} => past.balance = seen.balance
<1>1. CASE seen.string_char = Outside
  <2>1. c \notin {"{", "}"} => Weight(c) = 0
    BY Zenon DEF Weight
  <2>2. /\ IsScan(PastCharacter(seen, c)) /\ PastCharacter(seen, c).previous = c
        /\ PastCharacter(seen, c).balance = seen.balance + Weight(c)
    BY <1>1, OutsideString, Zenon
  <2>3. seen.balance \in Int
    BY DEF IsScan
  <2>4. Weight(c) = 0 => seen.balance + Weight(c) = seen.balance
    BY <2>3
  <2> QED
    BY <2>1, <2>2, <2>4, Zenon
<1>2. CASE seen.string_char # Outside
  <2> DEFINE string == IF c = seen.string_char /\ seen.previous # "\\" THEN Outside
                       ELSE seen.string_char
  <2>1. PastCharacter(seen, c) = [seen EXCEPT !.previous = c, !.string_char = string]
    BY <1>2, Zenon DEF PastCharacter
  <2> HIDE DEF string
  <2>2. PastCharacter(seen, c) =
          [string_char |-> string, previous |-> c, balance |-> seen.balance]
    BY <2>1 DEF IsScan
  <2> QED
    BY <2>2 DEF IsScan
<1> QED
  BY <1>1, <1>2

(* What the characters and the tokens weigh. *)
TypeWeight(type) ==
  CASE type = "OPEN_CURLY_BRACKET" -> 1 [] type = "CLOSE_CURLY_BRACKET" -> -1 [] OTHER -> 0

LEMMA Weights ==
  /\ \A c : Weight(c) \in {-1, 0, 1}
  /\ \A c \in didgits \cup alphabet \cup {"."} : c # Quote /\ Weight(c) = 0
  /\ \A c : c \notin terminals => Weight(c) = 0
  /\ \A c \in terminals : c # Quote /\ Weight(c) = TypeWeight(terminal_token_type(c))
  /\ \A type \in WordTypes \cup NumberTypes \cup EndTypes \cup {"STRING"} :
       TypeWeight(type) = 0
<1>1. \A c : Weight(c) \in {-1, 0, 1}
  BY Zenon DEF Weight
<1>2. \A c \in didgits \cup alphabet \cup {"."} : c # Quote /\ Weight(c) = 0
  BY ZenonT(40) DEF Weight, didgits, alphabet, Quote
<1>3. \A c : c \notin terminals => Weight(c) = 0
  BY Zenon DEF Weight, terminals
<1>4. \A c \in terminals : c # Quote
  BY Zenon DEF terminals, Quote
<1>5. \A c \in terminals : Weight(c) = TypeWeight(terminal_token_type(c))
  <2>1. \A c \in terminals :
          /\ (terminal_token_type(c) = "OPEN_CURLY_BRACKET") <=> (c = "{")
          /\ (terminal_token_type(c) = "CLOSE_CURLY_BRACKET") <=> (c = "}")
    BY ZenonT(60) DEF terminal_token_type, terminals
  <2>2. "{" # "}" /\ "OPEN_CURLY_BRACKET" # "CLOSE_CURLY_BRACKET"
    OBVIOUS
  <2> QED
    BY <2>1, <2>2, Zenon DEF Weight, TypeWeight
<1>6. \A type \in WordTypes \cup NumberTypes \cup EndTypes \cup {"STRING"} :
        TypeWeight(type) = 0
  BY Zenon DEF TypeWeight, WordTypes, NumberTypes, EndTypes
<1> QED
  BY <1>1, <1>2, <1>3, <1>4, <1>5, <1>6, Zenon

Balance == Braces("OPEN_CURLY_BRACKET") - Braces("CLOSE_CURLY_BRACKET")

LEMMA BalanceAppended ==
  ASSUME TypeOK, NEW t, tokens' = Append(tokens, t)
  PROVE  Balance \in Int /\ Balance' = Balance + TypeWeight(t.type)
<1>1. /\ Braces("OPEN_CURLY_BRACKET") \in Nat /\ Braces("CLOSE_CURLY_BRACKET") \in Nat
      /\ Braces("OPEN_CURLY_BRACKET")' =
           Braces("OPEN_CURLY_BRACKET") + (IF t.type = "OPEN_CURLY_BRACKET" THEN 1 ELSE 0)
      /\ Braces("CLOSE_CURLY_BRACKET")' =
           Braces("CLOSE_CURLY_BRACKET") + (IF t.type = "CLOSE_CURLY_BRACKET" THEN 1 ELSE 0)
  BY BracesAppended
<1> QED
  BY <1>1 DEF Balance, TypeWeight

(* The scan of what the lexer has read. *)
Scan == Scanned(text)[at - 1]

(* One of the consoles' own rules has been met. *)
Ruled == \E i \in 1..(at - 1) : OwnRule(text, i)

(* Until then, the scan is in a string where the lexer is.  From then on   *)
(* there are no more braces, so that only the balance matters.             *)
BracesInv ==
  ~OwnRules(text) =>
    /\ IsScan(Scan) /\ Scan.balance = Balance
    /\ Scan.previous = "\\" => at > 1 /\ text[at - 1] = "\\"
    /\ ~Ruled =>
         /\ is_comment_state = FALSE
         /\ state # "failed" =>
              Scan.string_char = (IF state = "string" THEN Quote ELSE Outside)

(* A step stays where it is or reads one character; and of all tokens only *)
(* those of braces count.                                                  *)
LEMMA StepWeighs ==
  ASSUME TypeOK, [Next]_vars
  PROVE  /\ Balance \in Int
         /\ \/ Stay /\ Balance' = Balance
            \/ /\ ~AtEnd /\ next_chars
               /\ IF Terminal THEN Balance' = Balance + Weight(text[at])
                               ELSE Balance' = Balance
<1>1. Balance \in Int
  <2>1. Braces("OPEN_CURLY_BRACKET") \in Nat /\ Braces("CLOSE_CURLY_BRACKET") \in Nat
    BY BracesCounted
  <2> QED
    BY <2>1 DEF Balance
<1>2. ASSUME UNCHANGED tokens PROVE Balance' = Balance
  BY <1>2 DEF Balance, Braces
<1>3. CASE \/ LoneSlash \/ CutOff \/ BeginNumber \/ BeginWord \/ UNCHANGED vars
  BY <1>1, <1>2, <1>3 DEF LoneSlash, CutOff, BeginNumber, BeginWord, Begin, vars, Stay
<1>4. CASE Terminal
  <2> DEFINE t == LexicalToken(terminal_token_type(text[at]), at, at, line, col)
  <2>1. tokens' = Append(tokens, t) /\ t.type = terminal_token_type(text[at])
        /\ text[at] \in terminals /\ ~AtEnd /\ next_chars
    BY <1>4 DEF Terminal, LexicalToken, Current
  <2> HIDE DEF t
  <2> QED
    BY <1>1, <1>4, <2>1, BalanceAppended, Weights
<1>5. CASE SkipComment \/ NumberCharacter \/ BeginString \/ StringCharacter \/ WordCharacter
           \/ SkipOther
  <2>1. ~AtEnd /\ next_chars /\ UNCHANGED tokens
    BY <1>5
    DEF SkipComment, NumberCharacter, BeginString, StringCharacter, WordCharacter, SkipOther,
        InNumber, Begin, Current, Scanning
  <2>2. ~Terminal
    <3>1. Terminal => tokens' # tokens
      <4> DEFINE t == LexicalToken(terminal_token_type(text[at]), at, at, line, col)
      <4>1. Terminal => tokens' = Append(tokens, t)
        BY DEF Terminal
      <4>2. Len(tokens) \in Nat /\ Len(Append(tokens, t)) = Len(tokens) + 1
        BY DEF TypeOK
      <4> HIDE DEF t
      <4> QED
        BY <4>1, <4>2
    <3> QED
      BY <2>1, <3>1
  <2> QED
    BY <1>1, <1>2, <2>1, <2>2
<1>6. CASE EndNumber \/ EndWord \/ Finish \/ EndString
  <2>1. PICK t : /\ tokens' = Append(tokens, t)
                 /\ t.type \in WordTypes \cup NumberTypes \cup EndTypes \cup {"STRING"}
    <3>1. CASE Finish
      BY <3>1 DEF Finish, EOL, LexicalToken, EndTypes
    <3>2. ASSUME NEW type \in WordTypes \cup NumberTypes \cup {"STRING"}, End(type)
          PROVE  \E t : /\ tokens' = Append(tokens, t)
                        /\ t.type \in WordTypes \cup NumberTypes \cup EndTypes \cup {"STRING"}
      BY <3>2 DEF End, LexicalToken
    <3> QED
      BY <1>6, <3>1, <3>2, WordTypesKnown DEF EndNumber, EndWord, EndString, NumberTypes
  <2>2. Balance' = Balance
    BY <1>1, <2>1, BalanceAppended, Weights
  <2>3. ~Terminal
    BY <1>6
    DEF EndNumber, EndWord, Finish, EndString, Terminal, Scanning
  <2>4. Stay \/ (~AtEnd /\ next_chars)
    BY <1>6 DEF EndNumber, EndWord, Finish, EndString, Current
  <2> QED
    BY <1>1, <2>2, <2>3, <2>4
<1> QED
  BY <1>3, <1>4, <1>5, <1>6 DEF Next

LEMMA BracesStep ==
  ASSUME TypeOK, BracesInv, [Next]_vars
  PROVE  BracesInv'
<1> SUFFICES ASSUME ~OwnRules(text)
             PROVE  /\ IsScan(Scan') /\ Scan'.balance = Balance'
                    /\ Scan'.previous = "\\" => at' > 1 /\ text'[at' - 1] = "\\"
                    /\ ~Ruled' =>
                         /\ is_comment_state' = FALSE
                         /\ state' # "failed" =>
                              Scan'.string_char = (IF state' = "string" THEN Quote ELSE Outside)
  BY TextKept DEF BracesInv
<1>1. /\ text' = text /\ Len(text) \in Nat /\ at \in 1..(Len(text) + 1)
      /\ DOMAIN text = 1..Len(text)
  BY TextKept DEF TypeOK
<1>2. /\ IsScan(Scan) /\ Scan.balance = Balance
      /\ Scan.previous = "\\" => at > 1 /\ text[at - 1] = "\\"
      /\ ~Ruled =>
           /\ is_comment_state = FALSE
           /\ state # "failed" =>
                Scan.string_char = (IF state = "string" THEN Quote ELSE Outside)
  BY DEF BracesInv
<1>3. ASSUME Stay
      PROVE  Scan' = Scan /\ at' = at /\ Ruled' = Ruled
  BY <1>1, <1>3 DEF Scan, Stay, Ruled
<1>4. ASSUME ~AtEnd, next_chars
      PROVE  /\ at \in 1..Len(text) /\ at' = at + 1
             /\ Scan' = PastCharacter(Scan, text[at])
             /\ Ruled => text[at] \notin {"{", "}"}
             /\ ~Ruled' => ~Ruled /\ ~OwnRule(text, at)
  <2>1. at \in 1..Len(text) /\ at' = at + 1
    BY <1>1, <1>4 DEF AtEnd, next_chars
  <2>2. Scan' = Scanned(text)[at]
    BY <1>1, <2>1 DEF Scan
  <2>3. Scanned(text)[at] = PastCharacter(Scanned(text)[at - 1], text[at])
    BY <1>1, <2>1, ScanStep
  <2>4. Ruled => text[at] \notin {"{", "}"}
    BY <1>1, <2>1 DEF Ruled, OwnRules
  <2>5. Ruled' = \E i \in 1..at : OwnRule(text, i)
    BY <1>1, <2>1 DEF Ruled
  <2>6. ~Ruled' => ~Ruled /\ ~OwnRule(text, at)
    BY <1>1, <2>1, <2>5 DEF Ruled
  <2> QED
    BY <2>1, <2>2, <2>3, <2>4, <2>6 DEF Scan
<1>5. ASSUME ~AtEnd, next_chars
      PROVE  /\ IsScan(Scan')
             /\ Scan'.previous = "\\" => at' > 1 /\ text'[at' - 1] = "\\"
             /\ text[at] \notin {"{", "}"} => Scan'.balance = Scan.balance
  <2> DEFINE past == PastCharacter(Scan, text[at])
  <2>1. /\ IsScan(past) /\ past.previous = text[at]
        /\ text[at] \notin {"{", "}"} => past.balance = Scan.balance
    BY <1>2, AnyCharacter, Zenon
  <2>2. Scan' = past /\ at \in 1..Len(text) /\ at' = at + 1
    BY <1>4, <1>5
  <2>3. at' > 1 /\ text'[at' - 1] = text[at]
    BY <1>1, <2>2
  <2> HIDE DEF past
  <2> QED
    BY <2>1, <2>2, <2>3
(* The scan is in a string where the lexer is. *)
<1>6. ASSUME ~AtEnd, next_chars, ~Ruled, state \notin {"string", "failed"}
      PROVE  /\ Scan'.balance = Scan.balance + Weight(text[at])
             /\ ~Ruled' => Scan'.string_char = (IF text[at] = Quote THEN Quote ELSE Outside)
  <2>1. /\ Scan'.string_char = (IF text[at] \in {"'", Quote} THEN text[at] ELSE Outside)
        /\ Scan'.balance = Scan.balance + Weight(text[at])
    <3>1. IsScan(Scan) /\ Scan.string_char = Outside
      BY <1>2, <1>6
    <3>2. Scan' = PastCharacter(Scan, text[at])
      BY <1>4, <1>6
    <3> QED
      BY <3>1, <3>2, OutsideString, Zenon
  <2>2. text[at] = "'" => Ruled'
    BY <1>4, <1>6 DEF OwnRule
  <2> QED
    BY <2>1, <2>2
<1>7. ASSUME ~AtEnd, next_chars, ~Ruled, state = "string"
      PROVE  /\ Scan'.balance = Scan.balance
             /\ ~Ruled' => Scan'.string_char = (IF text[at] = Quote THEN Outside ELSE Quote)
  <2>1. text[at] = Quote => Scan.previous # "\\"
    <3> SUFFICES ASSUME text[at] = Quote, Scan.previous = "\\" PROVE FALSE
      OBVIOUS
    <3>1. at > 1 /\ text[at - 1] = "\\"
      BY <1>2
    <3>2. at - 1 \in 1..(at - 1) /\ (at - 1) + 1 = at
      BY <1>1, <3>1
    <3>3. OwnRule(text, at - 1)
      BY <3>1, <3>2 DEF OwnRule, Quote
    <3> QED
      BY <1>7, <3>2, <3>3 DEF Ruled
  <2> DEFINE past == PastCharacter(Scan, text[at])
  <2>2. IsScan(Scan) /\ Scan.string_char = Quote
    BY <1>2, <1>7
  <2>3. /\ past.balance = Scan.balance
        /\ text[at] # Quote => past.string_char = Quote
        /\ text[at] = Quote /\ Scan.previous # "\\" => past.string_char = Outside
    BY <2>2, InsideString, Zenon
  <2>4. Scan' = past
    BY <1>4, <1>7
  <2> HIDE DEF past
  <2> QED
    BY <2>1, <2>3, <2>4
<1>8. Scan'.balance = Balance'
  <2>1. CASE Stay /\ Balance' = Balance
    BY <1>2, <1>3, <2>1
  <2>2. CASE /\ ~AtEnd /\ next_chars
             /\ IF Terminal THEN Balance' = Balance + Weight(text[at])
                             ELSE Balance' = Balance
    <3>1. CASE text[at] \notin {"{", "}"}
      <4>1. Weight(text[at]) = 0
        BY <3>1, Zenon DEF Weight
      <4> QED
        <5>1. Balance' = Balance
          BY <2>2, <4>1, StepWeighs
        <5>2. Scan'.balance = Scan.balance
          BY <1>5, <2>2, <3>1
        <5> QED
          BY <1>2, <5>1, <5>2
    <3>2. CASE text[at] \in {"{", "}"}
      <4>1. ~Ruled /\ ~InComment /\ text[at] # Quote /\ text[at] \in terminals
        BY <1>2, <1>4, <2>2, <3>2 DEF InComment, TwoSlashes, Current, Quote, terminals
      <4>2. CASE Terminal
        BY <1>2, <1>6, <2>2, <4>1, <4>2 DEF Terminal, Scanning
      <4>3. CASE ~Terminal
        <5>1. state = "string"
          <6>1. text[at] \notin didgits \cup alphabet \cup {"."}
            BY <3>2, ZenonT(40) DEF didgits, alphabet
          <6>2. at' = at + 1 /\ at \in Nat
            BY <1>1, <2>2 DEF next_chars
          <6> QED
            BY <2>2, <4>1, <4>3, <6>1, <6>2
            DEF Next, LoneSlash, SkipComment, BeginNumber, NumberCharacter, EndNumber,
                BeginString, StringCharacter, EndString, BeginWord, WordCharacter, EndWord,
                CutOff, SkipOther, Finish, InNumber, Current, Stay, vars
        <5> QED
          BY <1>2, <1>7, <2>2, <4>1, <4>3, <5>1
      <4> QED
        BY <4>2, <4>3
    <3> QED
      BY <3>1, <3>2
  <2> QED
    BY <2>1, <2>2, StepWeighs
<1>9. IsScan(Scan') /\ (Scan'.previous = "\\" => at' > 1 /\ text'[at' - 1] = "\\")
  BY <1>1, <1>2, <1>3, <1>5, StepWeighs
<1>10. ASSUME ~Ruled'
       PROVE  /\ is_comment_state' = FALSE
              /\ state' # "failed" =>
                   Scan'.string_char = (IF state' = "string" THEN Quote ELSE Outside)
  <2>1. ~Ruled
    BY <1>3, <1>4, <1>10, StepWeighs
  <2>2. ~is_comment_state
    BY <1>2, <2>1
  <2>3. CASE LoneSlash \/ CutOff \/ BeginNumber \/ BeginWord \/ EndNumber \/ EndWord
             \/ Finish \/ UNCHANGED vars
    <3>1. /\ Stay /\ is_comment_state' = is_comment_state
          /\ state' # "failed" => (state' = "string") = (state = "string") /\ state # "failed"
      BY <2>3
      DEF LoneSlash, CutOff, BeginNumber, BeginWord, EndNumber, EndWord, Finish, Begin, End,
          Scanning, Stay, vars
    <3> QED
      BY <1>2, <1>3, <2>1, <3>1
  <2>4. CASE SkipComment
    <3>1. ~AtEnd /\ next_chars /\ TwoSlashes
      BY <2>2, <2>4 DEF SkipComment, InComment, TwoSlashes, Current
    <3> QED
      BY <1>4, <1>10, <3>1 DEF TwoSlashes, Current, OwnRule
  <2>5. CASE Terminal \/ NumberCharacter \/ WordCharacter \/ SkipOther
    <3>1. /\ ~AtEnd /\ next_chars /\ state \notin {"string", "failed"}
          /\ state' = state /\ is_comment_state' = is_comment_state
      BY <2>5
      DEF Terminal, NumberCharacter, WordCharacter, SkipOther, InNumber, Current, Scanning
    <3>2. text[at] # Quote
      BY <2>5, Weights
      DEF Terminal, NumberCharacter, WordCharacter, SkipOther, InNumber, Current
    <3> QED
      BY <1>6, <1>10, <2>1, <2>2, <3>1, <3>2 DEF TypeOK
  <2>6. CASE BeginString
    <3>1. /\ ~AtEnd /\ next_chars /\ state \notin {"string", "failed"} /\ text[at] = Quote
          /\ state' = "string" /\ UNCHANGED is_comment_state
      BY <2>6 DEF BeginString, Begin, Current, Scanning
    <3> QED
      BY <1>6, <1>10, <2>1, <2>2, <3>1 DEF TypeOK
  <2>7. CASE StringCharacter \/ EndString
    <3>1. /\ ~AtEnd /\ next_chars /\ state = "string" /\ UNCHANGED is_comment_state
          /\ state' = (IF text[at] = Quote THEN "scanning" ELSE "string")
      BY <2>7 DEF StringCharacter, EndString, End, Current
    <3> QED
      BY <1>7, <1>10, <2>1, <2>2, <3>1 DEF TypeOK
  <2> QED
    BY <2>3, <2>4, <2>5, <2>6, <2>7 DEF Next
<1> QED
  BY <1>8, <1>9, <1>10

(* For every line in which no brace comes after what the consoles have     *)
(* rules of their own for - an apostrophe, a backslash before a quote, a   *)
(* comment - isInputComplete says what the tokens of the line say.         *)
THEOREM ConsolesAgreeWithLexer == Spec => []CompleteAsLexed
<1> DEFINE Inv == TypeOK /\ BracesInv /\ (state = "done" => at = Len(text) + 1)
<1>1. Init => Inv
  <2> SUFFICES ASSUME Init PROVE Inv
    OBVIOUS
  <2>1. TypeOK /\ at = 1 /\ tokens = <<BOL>> /\ state = "scanning" /\ ~is_comment_state
    BY TypeOKInit DEF Init, AtStart
  <2>2. Scan = NothingRead
    BY <2>1, ScanStep DEF Scan, TypeOK
  <2>3. Balance = 0
    <3>1. \A i \in DOMAIN tokens : tokens[i].type = "BOL"
      BY <2>1 DEF BOL, LexicalToken
    <3>2. /\ {i \in DOMAIN tokens : tokens[i].type = "OPEN_CURLY_BRACKET"} = {}
          /\ {i \in DOMAIN tokens : tokens[i].type = "CLOSE_CURLY_BRACKET"} = {}
      BY <3>1
    <3> QED
      BY <3>2, FS_EmptySet DEF Balance, Braces
  <2>4. /\ IsScan(NothingRead) /\ NothingRead.previous # "\\"
        /\ NothingRead.string_char = Outside /\ NothingRead.balance = 0
    BY DEF IsScan, NothingRead
  <2> QED
    BY <2>1, <2>2, <2>3, <2>4 DEF BracesInv
<1>2. Inv /\ [Next]_vars => Inv'
  <2> SUFFICES ASSUME Inv, [Next]_vars PROVE Inv'
    OBVIOUS
  <2>1. TypeOK' /\ BracesInv'
    BY TypeOKStep, BracesStep
  <2>2. text' = text /\ Len(text) \in Nat /\ at \in 1..(Len(text) + 1)
    BY TextKept DEF TypeOK
  <2>3. ASSUME state' = "done" PROVE at' = Len(text) + 1
    BY <2>2, <2>3
    DEF Next, LoneSlash, SkipComment, Terminal, BeginNumber, NumberCharacter, EndNumber,
        BeginString, StringCharacter, EndString, BeginWord, WordCharacter, EndWord, CutOff,
        SkipOther, Finish, Begin, End, Scanning, Stay, AtEnd, vars
  <2> QED
    BY <2>1, <2>2, <2>3
<1>3. Inv => CompleteAsLexed
  <2> SUFFICES ASSUME Inv, state = "done", ~OwnRules(text)
               PROVE  isInputComplete(text) <=>
                        Braces("OPEN_CURLY_BRACKET") <= Braces("CLOSE_CURLY_BRACKET")
    BY DEF CompleteAsLexed
  <2>1. Scan = Scanned(text)[Len(text)]
    BY DEF Scan, TypeOK
  <2>2. Scan.balance = Balance
    BY DEF BracesInv
  <2>3. Braces("OPEN_CURLY_BRACKET") \in Nat /\ Braces("CLOSE_CURLY_BRACKET") \in Nat
    BY BracesCounted
  <2> QED
    BY <2>1, <2>2, <2>3 DEF isInputComplete, Balance
<1> QED
  BY <1>1, <1>2, <1>3, PTL DEF Spec
=============================================================================
