------------------------------ MODULE Console -------------------------------
(***************************************************************************)
(* The interactive consoles: main() of                                     *)
(* src/project/interpreters/bytecode-based-vm-interpreter/repl/src/main.cpp*)
(* and its twin in the tree-walking interpreter.  They gather lines into   *)
(* programs, run them, and keep the programs in a history that the arrow   *)
(* keys walk through and a file preserves.                                 *)
(*                                                                         *)
(* A text is the sequence of its lines, at least one; a line is a sequence *)
(* of characters.                                                          *)
(***************************************************************************)
EXTENDS InputComplete, SequencesExt

CONSTANTS
  Line,         \* the lines that are typed
  MaxPrograms,  \* a bound on the programs that are run
  MaxLines,     \* a bound on the lines of a program
  MaxStarts     \* a bound on the times the console is started

ASSUME ConsoleAssumption ==
  /\ <<>> \in Line
  /\ MaxPrograms \in Nat /\ {MaxLines, MaxStarts} \subseteq Nat \ {0}

Empty == <<>>

Text == SeqOf(Line, MaxLines) \ {<<>>}

VARIABLES
  file,               \* the lines of the history file, decoded: texts
  history,            \* readline's history list
  history_offset,     \* readline's place in it, Len(history) past its end
  rl_line_buffer,     \* the line that is being edited
  rl_undo_list,       \* <<the line it was before it was edited>>, or <<>>
  buffer,             \* the lines that were entered, <<>> for none
  g_ml_lines,         \* the lines of a recalled text that has several
  g_ml_index,         \* the one of them that is being edited, or -1
  code,               \* the program that was committed last
  state               \* "reading", "opened" (the file is truncated, not yet
                      \* written), "running" or "gone"

VARIABLES              \* for the properties only
  ran,                \* the programs committed since ever
  torn,               \* the process died while the file was being written
  recalled,           \* <<what is shown>> of a text that was recalled: its
                      \* lines as edited and the place of the cursor, or <<>>
  edited,             \* the texts of several lines that were edited while
                      \* readline stood at them in its history
  starts              \* how often the console was started

line_vars == <<rl_line_buffer, g_ml_lines, g_ml_index>>
vars == <<file, history, history_offset, line_vars, rl_undo_list, buffer, code,
          state, ran, torn, recalled, edited, starts>>

(* The text that a sequence of lines is, when std::getline splits it: a    *)
(* line break at the end does not begin another line.                      *)
Split(text) ==
  IF Len(text) > 1 /\ Last(text) = Empty THEN Front(text) ELSE text

(* load_history_file: entry by entry, and an empty one is not added. *)
Loaded(entries) ==
  LET Load[i \in 0..Len(entries)] ==
        IF i = 0 THEN <<>>
        ELSE IF entries[i] = <<Empty>> THEN Load[i - 1]
        ELSE Append(Load[i - 1], entries[i])
  IN  Load[Len(entries)]

Init ==
  /\ file = <<>> /\ history = <<>> /\ history_offset = 0
  /\ rl_line_buffer = Empty /\ g_ml_lines = <<>> /\ g_ml_index = -1
  /\ rl_undo_list = <<>> /\ buffer = <<>> /\ code = <<Empty>>
  /\ state = "reading"
  /\ ran = <<>> /\ torn = FALSE /\ recalled = <<>> /\ edited = {} /\ starts = 1

(***************************************************************************)
(* The call of readline().                                                 *)
(***************************************************************************)
(* It begins with an empty line at the end of the history. *)
NewLine ==
  /\ rl_line_buffer' = Empty /\ rl_undo_list' = <<>>
  /\ history_offset' = Len(history')
  /\ recalled' = <<>>

(* The place in the history that readline stands at, as a set. *)
Current == {history_offset + 1} \cap 1..Len(history)

(* When it returns a line, readline takes back the edits of the entry that *)
(* it stands at: the entry becomes the line that the editor had shown -    *)
(* one line, though the entry may have had several.                        *)
Returned ==
  [i \in DOMAIN history |->
     IF i \in Current /\ rl_undo_list # <<>> THEN rl_undo_list ELSE history[i]]

(***************************************************************************)
(* Programs.                                                               *)
(***************************************************************************)
(* Mutant: the history is saved when the program has come back. *)
CommitUnsaved(text) ==
  /\ Len(ran) < MaxPrograms
  /\ code' = text
  /\ history' = Append(Returned, text) /\ rl_undo_list' = <<>>
  /\ state' = "running"
  /\ ran' = Append(ran, text)
  /\ UNCHANGED <<file, torn, edited, starts>>

(* commit_and_run: add_history, and save_history_file opens the file. *)
Commit(text) ==
  /\ Len(ran) < MaxPrograms
  /\ code' = text
  /\ history' = Append(Returned, text) /\ rl_undo_list' = <<>>
  /\ file' = <<>>
  /\ state' = "opened"
  /\ ran' = Append(ran, text)
  /\ UNCHANGED <<torn, edited, starts>>

(* The rest of save_history_file; then the interpreter runs the program. *)
Save ==
  /\ state = "opened"
  /\ file' = history
  /\ state' = "running"
  /\ UNCHANGED <<history, history_offset, line_vars, rl_undo_list, buffer, code,
                 ran, torn, recalled, edited, starts>>

(* The result or the error was printed. *)
Return ==
  /\ state = "running"
  /\ state' = "reading"
  /\ UNCHANGED <<file, history, g_ml_lines, g_ml_index, buffer, code, ran, torn,
                 edited, starts>>
  /\ NewLine

(***************************************************************************)
(* The end of the process, in order or not, and its start.                 *)
(***************************************************************************)
(* Ctrl-D on an empty line. *)
Exit ==
  /\ state = "reading" /\ rl_line_buffer = Empty
  /\ history' = Returned /\ rl_undo_list' = <<>>
  /\ file' = IF history = <<>> THEN file ELSE history'
  /\ state' = "gone"
  /\ UNCHANGED <<history_offset, line_vars, buffer, code, ran, torn, recalled,
                 edited, starts>>

(* Ctrl-C, or a program that takes the process with it. *)
Die ==
  /\ state \in {"reading", "opened", "running"}
  /\ state' = "gone"
  /\ torn' = (torn \/ state = "opened")
  /\ UNCHANGED <<file, history, history_offset, line_vars, rl_undo_list, buffer,
                 code, ran, recalled, edited, starts>>

Start ==
  /\ state = "gone" /\ starts < MaxStarts
  /\ history' = Loaded(file)
  /\ g_ml_lines' = <<>> /\ g_ml_index' = -1 /\ buffer' = <<>>
  /\ state' = "reading"
  /\ starts' = starts + 1
  /\ NewLine
  /\ UNCHANGED <<file, code, ran, torn, edited>>

(***************************************************************************)
(* The keys.                                                               *)
(***************************************************************************)
Recalling == g_ml_index >= 0

Becomes(line) ==
  /\ state = "reading"
  /\ rl_line_buffer' = line
  /\ recalled' = [i \in DOMAIN recalled |->
                    [recalled[i] EXCEPT !.lines[recalled[i].place] = line]]
  /\ UNCHANGED <<file, history, history_offset, g_ml_lines, g_ml_index, buffer,
                 code, state, ran, torn, starts>>

(* Keys that make another line of it. *)
Edit(line) ==
  /\ Becomes(line) /\ line # rl_line_buffer
  /\ rl_undo_list' = IF rl_undo_list = <<>> THEN <<rl_line_buffer>> ELSE rl_undo_list
  /\ edited' = edited \cup {history[i] : i \in {j \in Current : Len(history[j]) > 1}}

(* readline's undo, as often as it has an effect. *)
Undo ==
  /\ rl_undo_list # <<>>
  /\ Becomes(rl_undo_list[1])
  /\ rl_undo_list' = <<>>
  /\ UNCHANGED edited

Lines == [g_ml_lines EXCEPT ![g_ml_index + 1] = rl_line_buffer]

(* Mutant: the index stays when the text has run. *)
EnterRecalledKeepingIndex ==
  /\ state = "reading" /\ Recalling
  /\ Commit(Lines)
  /\ g_ml_index' = g_ml_index /\ g_ml_lines' = <<>> /\ buffer' = <<>>
  /\ UNCHANGED <<rl_line_buffer, history_offset, recalled>>

EnterRecalled ==
  /\ state = "reading" /\ Recalling
  /\ Commit(Lines)
  /\ g_ml_index' = -1 /\ g_ml_lines' = <<>> /\ buffer' = <<>>
  /\ UNCHANGED <<rl_line_buffer, history_offset, recalled>>

Entering == state = "reading" /\ ~Recalling

(* An empty line runs the lines that were gathered, if there are any. *)
EnterEmpty ==
  /\ Entering /\ rl_line_buffer = Empty /\ buffer # <<>>
  /\ Commit(buffer)
  /\ buffer' = <<>>
  /\ UNCHANGED <<line_vars, history_offset, recalled>>

EnterNothing ==
  /\ Entering /\ rl_line_buffer = Empty /\ buffer = <<>>
  /\ history' = Returned
  /\ UNCHANGED <<file, g_ml_lines, g_ml_index, buffer, code, state, ran, torn,
                 edited, starts>>
  /\ NewLine

EnterComplete ==
  /\ Entering /\ rl_line_buffer # Empty
  /\ buffer = <<>> /\ isInputComplete(rl_line_buffer)
  /\ Commit(<<rl_line_buffer>>)
  /\ UNCHANGED <<line_vars, buffer, history_offset, recalled>>

(* A first line that leaves braces open, and every line after it. *)
EnterMore ==
  /\ Entering /\ rl_line_buffer # Empty
  /\ buffer # <<>> \/ ~isInputComplete(rl_line_buffer)
  /\ Len(buffer) < MaxLines
  /\ buffer' = Append(buffer, rl_line_buffer)
  /\ history' = Returned
  /\ UNCHANGED <<file, g_ml_lines, g_ml_index, code, state, ran, torn, edited,
                 starts>>
  /\ NewLine

(* Mutant: next_history goes on past the end. *)
AdjacentPastEnd(dir) == history_offset + dir

(* previous_history and next_history: the place they go to. *)
Adjacent(dir) ==
  IF dir < 0 THEN history_offset - 1
  ELSE IF history_offset = Len(history) THEN history_offset ELSE history_offset + 1

PlaceMoved(dir) ==
  recalled' = [i \in DOMAIN recalled |-> [recalled[i] EXCEPT !.place = @ + dir]]

(* Mutant: the line that is left is not put back into its text. *)
MoveWithinForgetting(dir) ==
  /\ state = "reading" /\ Recalling
  /\ g_ml_index + dir \in 0..(Len(g_ml_lines) - 1)
  /\ g_ml_lines' = g_ml_lines
  /\ g_ml_index' = g_ml_index + dir
  /\ rl_line_buffer' = g_ml_lines[g_ml_index + dir + 1]
  /\ rl_undo_list' = <<>>
  /\ PlaceMoved(dir)
  /\ UNCHANGED <<file, history, history_offset, buffer, code, state, ran, torn,
                 edited, starts>>

(* navigate_history, to the next line of the text that is shown. *)
MoveWithin(dir) ==
  /\ state = "reading" /\ Recalling
  /\ g_ml_index + dir \in 0..(Len(g_ml_lines) - 1)
  /\ g_ml_lines' = Lines
  /\ g_ml_index' = g_ml_index + dir
  /\ rl_line_buffer' = Lines[g_ml_index + dir + 1]
  /\ rl_undo_list' = <<>>
  /\ PlaceMoved(dir)
  /\ UNCHANGED <<file, history, history_offset, buffer, code, state, ran, torn,
                 edited, starts>>

LeavesText(dir) ==
  Recalling => g_ml_index + dir \notin 0..(Len(g_ml_lines) - 1)

(* navigate_history, beyond the first or the last text: the line stays,    *)
(* but a text of several lines is no longer recalled.                      *)
MoveBeyond(dir) ==
  /\ state = "reading" /\ LeavesText(dir)
  /\ Adjacent(dir) \notin 0..(Len(history) - 1)
  /\ g_ml_index' = -1 /\ g_ml_lines' = <<>>
  /\ history_offset' = IF dir < 0 THEN history_offset ELSE Adjacent(dir)
  /\ recalled' = <<>>
  /\ UNCHANGED <<file, history, rl_line_buffer, rl_undo_list, buffer, code, state,
                 ran, torn, edited, starts>>

(* navigate_history, to the text before or after. *)
MoveTo(dir) ==
  /\ state = "reading" /\ LeavesText(dir)
  /\ Adjacent(dir) \in 0..(Len(history) - 1)
  /\ LET text == history[Adjacent(dir) + 1]
         lines == Split(text)
         shown == IF dir < 0 THEN 1 ELSE Len(lines)
     IN  IF Len(text) > 1
         THEN /\ g_ml_lines' = lines /\ g_ml_index' = shown - 1
              /\ rl_line_buffer' = lines[shown]
              /\ recalled' = <<[lines |-> lines, place |-> shown]>>
         ELSE /\ g_ml_lines' = <<>> /\ g_ml_index' = -1
              /\ rl_line_buffer' = text[1]
              /\ recalled' = <<[lines |-> text, place |-> 1]>>
  /\ history_offset' = Adjacent(dir) /\ rl_undo_list' = <<>>
  /\ UNCHANGED <<file, history, buffer, code, state, ran, torn, edited, starts>>

Arrow(dir) == MoveWithin(dir) \/ MoveBeyond(dir) \/ MoveTo(dir)

Next ==
  \/ Save \/ Return \/ Exit \/ Die \/ Start
  \/ \E line \in Line : Edit(line)
  \/ Undo
  \/ EnterRecalled \/ EnterEmpty \/ EnterNothing \/ EnterComplete \/ EnterMore
  \/ Arrow(-1) \/ Arrow(1)

Spec == Init /\ [][Next]_vars
-----------------------------------------------------------------------------
TypeOK ==
  /\ {file, history, ran} \subseteq Seq(Text)
  /\ history_offset \in 0..Len(history)
  /\ rl_line_buffer \in Line /\ g_ml_index \in -1..(MaxLines - 1)
  /\ buffer \in SeqOf(Line, MaxLines) /\ g_ml_lines \in SeqOf(Line, MaxLines)
  /\ code \in Text
  /\ state \in {"reading", "opened", "running", "gone"}
  /\ recalled \in SeqOf([lines : Text, place : 1..MaxLines], 1)
  /\ rl_undo_list \in SeqOf(Line, 1) /\ edited \subseteq Text
  /\ torn \in BOOLEAN /\ starts \in 1..MaxStarts

(* g_ml_index is used as an index without a check in three places: while   *)
(* it is not negative it points at a line of the recalled text, and        *)
(* otherwise no text is left over from an earlier recall.                  *)
RecalledLineExists ==
  IF g_ml_index >= 0 THEN g_ml_index < Len(g_ml_lines)
  ELSE g_ml_index = -1 /\ g_ml_lines = <<>>

(* What a program may be in the history: itself, or, when it has several   *)
(* lines and was edited while readline stood at it, any one line.          *)
Remains(text) == {text} \cup IF text \in edited THEN {<<line>> : line \in Line} ELSE {}

(* The entries are all programs ever committed, in order. *)
Keeps(entries) ==
  \E kept \in [DOMAIN ran -> UNION {Remains(ran[i]) : i \in DOMAIN ran}] :
    /\ \A i \in DOMAIN ran : kept[i] \in Remains(ran[i])
    /\ Loaded(entries) = Loaded(kept)

(* Every program ever committed is in the history and will be in that of   *)
(* the next start, in order, however the process ended - except programs   *)
(* that are the empty text, and unless the process died in the moment in   *)
(* which the file is truncated but not yet written.  A program of several  *)
(* lines that is recalled and edited may be lost but for a line: readline  *)
(* puts the line that was edited in the place of the whole entry.  Every   *)
(* other program is kept, whatever was recalled, edited, left and undone.  *)
HistoryKept ==
  ~torn => Keeps(IF state = "gone" THEN file ELSE history)

(* The lines of a recalled text are put back into it only when the cursor  *)
(* leaves them; Enter, on whichever line, runs the text as it was edited.  *)
(* A text that is left beyond the end of the history is not recalled any   *)
(* more, though its line stays, and lines that were gathered before come   *)
(* in front of a recalled text of one line.                                *)
RunsWhatIsShown ==
  [][recalled # <<>> /\ state = "reading" /\ state' = "opened"
       /\ (buffer = <<>> \/ Recalling) =>
     code' = recalled[1].lines]_vars
=============================================================================
