---------------------------- MODULE ShellWords ----------------------------
(***************************************************************************)
(* The budget guard's reader of command lines (budget.py): the names of    *)
(* every command that the words of a command line may run.                 *)
(*                                                                         *)
(* A character is a string.  A run of ordinary characters that the reader  *)
(* never takes apart ("sbatch", "-c", "bin/") counts as one; the special   *)
(* characters, which it tells apart one by one, stand for themselves, "nl" *)
(* for the line break and "tab" for the tab.  A word and a script are      *)
(* sequences of characters.                                                *)
(***************************************************************************)
EXTENDS Naturals, SequencesExt

CONSTANTS
    Guarded,      \* the names (words) that the patterns of guard_commands match
    Identifiers,  \* the characters that can be part of a variable's name
    Options,      \* the characters that begin with - or + and are longer than that
    MaxDepth      \* _MAX_DEPTH: how deep nested shells and wrappers are followed

\* Stands for a command nested too deeply to follow.
TooDeep == <<"too deep">>

Shells == {<<"sh">>, <<"bash">>}
\* Options of a shell that hold a c: the next plain word is a script.
ScriptClusters == {"-c", "-ec"}
ShellValueOptions == {<<"-o">>, <<"+o">>, <<"--rcfile">>}
Keywords == {<<"if">>, <<"then">>, <<"do">>, <<"while">>, <<"!">>}

\* Commands that run a command given in their arguments: the options that take
\* the next word, the options whose value is a script, and how many plain words
\* come before the command.  One wrapper of each kind stands for the table.
Wrappers ==
    LET wrapper(values, scripts, plain) ==
            [values |-> values, scripts |-> scripts, plain |-> plain]
    IN  <<"env">>     :> wrapper({"-u"}, {"-S"}, 0)
     @@ <<"command">> :> wrapper({}, {}, 0)
     @@ <<"sudo">>    :> wrapper({"-u"}, {}, 0)
     @@ <<"timeout">> :> wrapper({"-k"}, {}, 1)
     @@ <<"flock">>   :> wrapper({"-w"}, {"-c", "--command"}, 1)
     @@ <<"su">>      :> wrapper({"-s"}, {"-c", "--command"}, 1)
     @@ <<"ssh">>     :> wrapper({"-p"}, {}, 1)
     @@ <<"watch">>   :> wrapper({"-n"}, {}, 0)

\* Wrappers that hand the rest of their words to a shell as one command line.
JoinedWrappers == {<<"ssh">>, <<"watch">>}

-----------------------------------------------------------------------------
(* Words.                                                                  *)

\* VAR=value; the value of the code's regular expression holds no line break.
IsAssignment(w) ==
    /\ "nl" \notin Range(w)
    /\ \E k \in 2..Len(w) : w[k] = "=" /\ \A j \in 1..(k - 1) : w[j] \in Identifiers

\* os.path.basename: what follows the last slash.
BaseName(w) ==
    LET slashes == {k \in DOMAIN w : w[k] = "bin/"}
    IN  SubSeq(w, Max(slashes \cup {0}) + 1, Len(w))

IsOption(w) == w # <<>> /\ w[1] \in Options

HasValue(w) == \E k \in DOMAIN w : w[k] = "="

\* The words as one command line, with a blank between them.
Joined(words) ==
    FoldLeft(LAMBDA line, w : IF line = <<>> THEN w ELSE line \o <<" ">> \o w, <<>>, words)

Rest(s, k) == SubSeq(s, k, Len(s))

\* Where the character c is next, from position k on; behind the end if nowhere.
NextPlace(code, c, k) ==
    LET places == {p \in k..Len(code) : code[p] = c}
    IN  IF places = {} THEN Len(code) + 1 ELSE Min(places)

-----------------------------------------------------------------------------
(* Splitting a script.                                                     *)

RECURSIVE ClosingFrom(_, _, _, _, _)
ClosingFrom(code, k, brackets, depth, quote) ==
    LET c == code[k]
        go(step, d, q) == ClosingFrom(code, k + step, brackets, d, q)
        starts == IF c = "$" THEN "$'" ELSE c
        dollar == c = "$" /\ k < Len(code) /\ code[k + 1] = "'"
    IN  IF k > Len(code) THEN Len(code) + 1
        ELSE IF quote # "" THEN
            IF c = (IF quote = "$'" THEN "'" ELSE quote) THEN go(1, depth, "")
            ELSE go(IF c = "\\" /\ quote # "'" THEN 2 ELSE 1, depth, quote)
        ELSE CASE c \in {"'", "\""} \/ dollar -> go(IF dollar THEN 2 ELSE 1, depth, starts)
               [] c = "\\" -> go(2, depth, "")
               [] c = brackets[1] -> go(1, depth + 1, "")
               [] c = brackets[2] -> IF depth = 1 THEN k ELSE go(1, depth - 1, "")
               [] OTHER -> go(1, depth, "")

\* Where the bracket that was opened just before `start` is closed.
Closing(code, start, brackets) == ClosingFrom(code, start, brackets, 1, "")

\* Mistake: the lines of a here-document are read like the rest.
HeredocsRead(code, pos, docs) == pos

RECURSIVE SkipHeredocs(_, _, _)
\* Where the code goes on after the here-documents that begin at `pos`.
SkipHeredocs(code, pos, docs) ==
    LET end  == NextPlace(code, "nl", pos)
        read == SubSeq(code, pos, end - 1)
        line == IF Head(docs).tabs
                THEN Rest(read, Min({k \in DOMAIN read : read[k] # "tab"} \cup {Len(read) + 1}))
                ELSE read
    IN  IF docs = <<>> \/ pos > Len(code) THEN pos
        ELSE SkipHeredocs(code, end + 1, IF line = Head(docs).delimiter THEN Tail(docs) ELSE docs)

\* The reader: the open word, what it is going to be ("" a word of the command,
\* ">" a redirection's target, "<<" or "<<-" a here-document's delimiter), the
\* open command, and what it has found.
NewReader ==
    [quote |-> "", word |-> <<>>, started |-> FALSE, target |-> "",
     words |-> <<>>, commands |-> {}, substitutions |-> {}, docs |-> <<>>]

\* finish(): the open word ends.
FinishWord(s) ==
    LET kept == CASE ~s.started \/ s.target = ">" -> s
                  [] s.started /\ s.target = "" -> [s EXCEPT !.words = Append(@, s.word)]
                  [] OTHER -> [s EXCEPT !.docs =
                         Append(@, [delimiter |-> s.word, tabs |-> s.target = "<<-"])]
    IN  [kept EXCEPT !.word = <<>>, !.started = FALSE, !.target = ""]

FinishCommand(s) ==
    LET f == FinishWord(s)
    IN  [f EXCEPT !.commands = @ \cup ({f.words} \ {<<>>}), !.words = <<>>]

AddToWord(s, chars) == [s EXCEPT !.word = @ \o chars, !.started = TRUE]

\* Inside '...' and $'...'.
InLiteral(code, k, s) ==
    CASE code[k] = "'" -> [next |-> k + 1, reader |-> [s EXCEPT !.quote = ""]]
      [] code[k] = "\\" /\ s.quote = "$'" /\ k < Len(code) ->
            [next |-> k + 2, reader |-> AddToWord(s, <<code[k + 1]>>)]
      [] OTHER -> [next |-> k + 1, reader |-> AddToWord(s, <<code[k]>>)]

\* Inside "...".
InDoubleQuotes(code, k, s) ==
    CASE code[k] = "\"" -> [next |-> k + 1, reader |-> [s EXCEPT !.quote = ""]]
      [] code[k] = "\\" /\ k < Len(code) ->
            [next |-> k + 2, reader |-> AddToWord(s, <<code[k + 1]>>)]
      [] OTHER -> [next |-> k + 1, reader |-> AddToWord(s, <<code[k]>>)]

Follows(code, k, c) == k < Len(code) /\ code[k + 1] = c

StartsSubstitution(code, k) ==
    code[k] = "bq" \/ (code[k] = "$" /\ Follows(code, k, "("))

\* $(...) and `...`: the code comes back on its own; a $ keeps the word open.
Substitution(code, k, s) ==
    LET start == IF code[k] = "bq" THEN k + 1 ELSE k + 2
        end   == IF code[k] = "bq" THEN NextPlace(code, "bq", start)
                                  ELSE Closing(code, start, <<"(", ")">>)
    IN  [next |-> end + 1,
         reader |-> [AddToWord(s, <<"$">>) EXCEPT
                        !.substitutions = @ \cup {SubSeq(code, start, end - 1)}]]

\* Mistake: a substitution inside ${...} is taken for text.
ParameterIsText(code, k, s) ==
    LET end == Closing(code, k + 2, <<"{", "}">>)
    IN  [next |-> end + 1, reader |-> AddToWord(s, SubSeq(code, k, k + 1))]

\* ${...} stays one word; it is code too when it holds a substitution.
Parameter(code, k, s) ==
    LET end  == Closing(code, k + 2, <<"{", "}">>)
        body == SubSeq(code, k + 2, end - 1)
        runs == \E p \in DOMAIN body : StartsSubstitution(body, p)
    IN  [next |-> end + 1,
         reader |-> [AddToWord(s, SubSeq(code, k, IF end > Len(code) THEN Len(code) ELSE end)) EXCEPT
                        !.substitutions = IF runs THEN @ \cup {body} ELSE @]]

\* A redirection: a number just before it is a file descriptor, and what comes
\* after it is no word of the command.
Redirection(code, k, s) ==
    LET descriptor == s.target = "" /\ s.word = <<"2">> /\ code[k - 1] = "2"
        f    == FinishWord(IF descriptor THEN [s EXCEPT !.word = <<>>, !.started = FALSE] ELSE s)
        stop == Min({p \in k..Len(code) : code[p] \notin {"<", ">", "&", "|", "-"}} \cup {Len(code) + 1})
        op   == SubSeq(code, k, stop - 1)
        heredoc == Len(op) >= 2 /\ op[1] = "<" /\ op[2] = "<"
    IN  [next |-> Min({p \in stop..Len(code) : code[p] \notin {" ", "tab"}} \cup {Len(code) + 1}),
         reader |-> [f EXCEPT !.target =
             CASE heredoc /\ Len(op) >= 3 /\ op[3] = "-" -> "<<-"
               [] heredoc /\ op # <<"<", "<", "<">> /\ (Len(op) >= 3 => op[3] # "-") -> "<<"
               [] OTHER -> ">"]]

Separators == {";", "&", "|", "(", ")", "{", "}", "nl"}

\* A separator ends the command; the bodies of here-documents follow a line break.
Separator(code, k, s) ==
    LET f == FinishCommand(s)
    IN  IF code[k] = "nl" /\ f.docs # <<>>
        THEN [next |-> SkipHeredocs(code, k + 1, f.docs), reader |-> [f EXCEPT !.docs = <<>>]]
        ELSE [next |-> k + 1, reader |-> f]

StartsRedirection(code, k) ==
    code[k] \in {"<", ">"} \/ (code[k] = "&" /\ Follows(code, k, ">"))

\* Outside quotes.
Unquoted(code, k, s) ==
    LET c    == code[k]
        open(q, n) == [next |-> k + n, reader |-> [s EXCEPT !.quote = q, !.started = TRUE]]
    IN  CASE c = "\\" /\ k < Len(code) /\ code[k + 1] # "nl" ->
                [next |-> k + 2, reader |-> AddToWord(s, <<code[k + 1]>>)]
          [] c = "\\" /\ (k = Len(code) \/ Follows(code, k, "nl")) -> [next |-> k + 2, reader |-> s]
          [] c \in {"'", "\""} -> open(c, 1)
          [] c = "$" /\ Follows(code, k, "'") -> open("$'", 2)
          [] c = "$" /\ Follows(code, k, "{") -> Parameter(code, k, s)
          [] c = "#" /\ ~s.started -> [next |-> NextPlace(code, "nl", k), reader |-> s]
          [] c \in {" ", "tab"} -> [next |-> k + 1, reader |-> FinishWord(s)]
          [] StartsRedirection(code, k) -> Redirection(code, k, s)
          [] c \in Separators /\ ~StartsRedirection(code, k) -> Separator(code, k, s)
          [] OTHER -> [next |-> k + 1, reader |-> AddToWord(s, <<c>>)]

RECURSIVE LexFrom(_, _, _)
LexFrom(code, k, s) ==
    LET read == CASE s.quote \in {"'", "$'"} -> InLiteral(code, k, s)
                  [] s.quote \in {"", "\""} /\ StartsSubstitution(code, k) -> Substitution(code, k, s)
                  [] s.quote = "\"" /\ ~StartsSubstitution(code, k) -> InDoubleQuotes(code, k, s)
                  [] OTHER -> Unquoted(code, k, s)
    IN  IF k > Len(code) THEN FinishCommand(s) ELSE LexFrom(code, read.next, read.reader)

\* _lex: the words of each command, and the code of each substitution.
Lex(code) == LexFrom(code, 1, NewReader)

-----------------------------------------------------------------------------
(* What the words of a command run.                                        *)

RECURSIVE SimpleCommand(_, _), CommandAt(_, _, _), Shell(_, _, _),
          Wrapped(_, _, _, _, _), Script(_, _), ExecCommands(_)

SimpleCommand(words, depth) ==
    LET first == SelectInSeq(words, LAMBDA w : ~IsAssignment(w) /\ w \notin Keywords)
    IN  CASE depth > MaxDepth -> {TooDeep}
          [] depth <= MaxDepth /\ first = 0 -> {}
          [] OTHER -> CommandAt(BaseName(words[first]), Rest(words, first + 1), depth)

\* The command and what it runs in turn.
CommandAt(name, args, depth) ==
    {name} \cup
    CASE name \in Shells -> Shell(args, FALSE, depth)
      [] name = <<"eval">> -> Script(Joined(args), depth + 1)
      [] name = <<"find">> -> UNION {SimpleCommand(words, depth + 1) : words \in ExecCommands(args)}
      [] name \in DOMAIN Wrappers -> Wrapped(name, args, TRUE, Wrappers[name].plain, depth)
      [] OTHER -> {}

\* The commands of find's -exec, each up to its ; or +.
ExecCommands(args) ==
    LET at    == SelectInSeq(args, LAMBDA w : w = <<"-exec">>)
        after == Rest(args, at + 1)
        end   == SelectInSeq(after, LAMBDA w : w \in {<<";">>, <<"+">>})
    IN  CASE at = 0 -> {}
          [] at > 0 /\ end = 0 -> {after}
          [] OTHER -> {SubSeq(after, 1, end - 1)} \cup ExecCommands(Rest(after, end + 1))

\* The script a shell runs with -c: its first plain word after the options.
Shell(args, hasC, depth) ==
    LET w == Head(args)
        script(words) == IF hasC /\ words # <<>> THEN Script(Head(words), depth + 1) ELSE {}
    IN  CASE args = <<>> -> {}
          [] args # <<>> /\ w = <<"--">> -> script(Tail(args))
          [] args # <<>> /\ w \in ShellValueOptions -> Shell(Rest(args, 3), hasC, depth)
          [] args # <<>> /\ IsOption(w) /\ w \notin ShellValueOptions \cup {<<"--">>} ->
                Shell(Tail(args), hasC \/ w[1] \in ScriptClusters, depth)
          [] OTHER -> script(args)

\* What a wrapper runs: the command after its options and leading plain words,
\* or the command line in a script option.
Wrapped(name, args, options, plain, depth) ==
    LET w    == Head(args)
        skip(n, o, p) == Wrapped(name, Rest(args, n + 1), o, p, depth)
        value == IF HasValue(w) THEN Rest(w, 3) ELSE IF Len(args) > 1 THEN args[2] ELSE <<>>
        asOption ==
            CASE w[1] \in Wrappers[name].scripts -> Script(value, depth + 1)
              [] name = <<"command">> /\ w[1] = "-v" -> {}
              [] w[1] \in Wrappers[name].values /\ ~HasValue(w) -> skip(2, options, plain)
              [] OTHER -> skip(1, options, plain)
        passed == \/ name = <<"env">> /\ IsAssignment(w)
                  \/ name = <<"su">> /\ options /\ w = <<"-">>
    IN  IF args = <<>> THEN {}
        ELSE IF options /\ w = <<"--">> THEN skip(1, FALSE, plain)
        ELSE IF options /\ IsOption(w) THEN asOption
        ELSE IF passed THEN skip(1, options, plain)
        ELSE IF plain > 0 THEN skip(1, options, plain - 1)
        ELSE IF name \in JoinedWrappers THEN Script(Joined(args), depth + 1)
        ELSE SimpleCommand(args, depth + 1)

\* The command names in shell code, its substitutions included.
Script(code, depth) ==
    LET read == Lex(code)
    IN  IF depth > MaxDepth THEN {TooDeep}
        ELSE UNION {SimpleCommand(words, depth) : words \in read.commands}
             \cup UNION {Script(inner, depth + 1) : inner \in read.substitutions}

CommandNames(words) == SimpleCommand(words, 0)

-----------------------------------------------------------------------------
(* Whether the guard has to look at a command line.                        *)

\* Mistake: the first word is taken for the command even if it is an assignment.
FirstWordName(words) == IF words = <<>> THEN <<>> ELSE BaseName(words[1])

\* The bare name of the first word after leading assignments; empty if none.
FirstTokenName(words) ==
    LET first == SelectInSeq(words, LAMBDA w : ~IsAssignment(w))
    IN  IF first = 0 THEN <<>> ELSE BaseName(words[first])

IsGuarded(words, scope) ==
    IF scope = "first-command" THEN FirstTokenName(words) \in Guarded
    ELSE CommandNames(words) \cap (Guarded \cup {TooDeep}) # {}
=============================================================================
