--------------------------- MODULE CommandLines ---------------------------
(***************************************************************************)
(* Shell scripts, built up construct by construct, and what the guard's    *)
(* reader makes of them (ShellWords).                                      *)
(*                                                                         *)
(* `submits` says whether a shell that is given `text` runs a guarded      *)
(* command.  It is kept along with the text, from what each construct of   *)
(* the shell does, and not read off the characters: the reader's verdict   *)
(* is compared with it.                                                    *)
(***************************************************************************)
EXTENDS ShellWords

CONSTANT MaxSteps    \* how many constructs are put around or behind a command

VARIABLES
    text,      \* the script, a sequence of characters
    submits,   \* whether a shell that runs it runs a guarded command
    steps

vars == <<text, submits, steps>>

-----------------------------------------------------------------------------
(* Commands.                                                               *)

\* Commands that run sbatch, bare or behind prefixes, wrappers and redirections.
Submitting ==
    {<<"bin/", "sbatch">>,
     <<"X", "=", "2", " ", "sbatch">>,
     <<"!", " ", "sba", "'", "tch", "'">>,
     <<"sba", "\\", "nl", "tch">>,
     <<"2", ">", "job", " ", "sbatch", " ", "job">>,
     <<"timeout", " ", "-k", " ", "2", " ", "2", " ", "sbatch">>,
     <<"env", " ", "-u", " ", "X", " ", "X", "=", "2", " ", "sbatch">>,
     <<"ssh", " ", "-p", " ", "2", " ", "job", " ", "sbatch">>,
     <<"su", " ", "-", " ", "job", " ", "--command", "=", "sbatch">>,
     <<"find", " ", "job", " ", "-exec", " ", "sbatch", " ", "\\", ";">>,
     <<"cat", " ", "<", "<", "E", "nl", "job", "nl", "E", "nl", "sbatch">>}

\* Commands in which sbatch is an argument, a file, a value or a comment.
Harmless ==
    {<<"echo", " ", "\"", ";", "sbatch", "\"">>,
     <<"echo", " ", "\\", ";", " ", "sbatch">>,
     <<"echo", " ", "$", "'", "\\", "'", ";", "sbatch", "'">>,
     <<"#", "sbatch", "nl", "echo", " ", "job", "#", " ", "job">>,
     <<"echo", " ", "2", ">", "sbatch">>,
     <<"X", "=", "sbatch", " ", "echo", " ", ">", "&", "2">>,
     <<"echo", " ", "<", "<", "<", "sbatch">>,
     <<"echo", " ", "$", "{", "X", ":-", "sbatch", "}">>,
     <<"cat", " ", "<", "<", "-", "E", "nl", "tab", "sbatch", "nl", "tab", "E", "nl", "echo">>,
     <<"command", " ", "-v", " ", "sbatch">>,
     <<"timeout", " ", "2", " ", "echo", " ", "sbatch">>,
     <<"bash", " ", "job", " ", "-c", " ", "sbatch">>}

-----------------------------------------------------------------------------
(* Constructs: what comes before and after the text, and the characters    *)
(* that the text may not hold there.                                       *)

Form(before, after, bars) == [before |-> before, after |-> after, bars |-> bars]

Fits(form) == Range(text) \cap form.bars = {}
Around(form) == form.before \o text \o form.after

\* Control structures and substitutions: the shell runs what is inside.
Compounds ==
    {Form(<<"(", " ">>, <<")">>, {}),
     Form(<<"{", " ">>, <<"nl", "}">>, {}),
     Form(<<"if", " ">>, <<"nl", "then", " ", "echo", "nl", "fi">>, {}),
     Form(<<"while", " ", "job", "nl", "do", " ">>, <<"nl", "done">>, {})}

Substitutions ==
    {Form(<<"echo", " ", "$", "(">>, <<")">>, {}),
     Form(<<"X", "=", "\"", "$", "(">>, <<")", "\"">>, {}),
     Form(<<"echo", " ", "bq">>, <<"bq">>, {"bq", "\\"}),
     Form(<<"echo", " ", "$", "{", "X", ":-", "$", "(">>, <<")", "}">>, {})}

\* Strings that a shell is given as a script.
Scripts ==
    {Form(<<"bash", " ", "-o", " ", "job", " ", "-ec", " ", "'">>, <<"'", " ", "job">>, {"'"}),
     Form(<<"sh", " ", "-c", " ", "\"">>, <<"\"">>, {"\"", "\\", "$", "bq"}),
     Form(<<"eval", " ", "'">>, <<"'">>, {"'"}),
     Form(<<"flock", " ", "job", " ", "-c", " ", "'">>, <<"'">>, {"'"}),
     Form(<<"watch", " ", "-n", " ", "2", " ", "'">>, <<"'">>, {"'"}),
     Form(<<"find", " ", "job", " ", "-exec", " ", "sh", " ", "-c", " ", "'">>,
          <<"'", " ", "\\", ";">>, {"'"})}

\* Text that no shell runs: quoted, a here-document, a comment, an argument.
Mentions ==
    {Form(<<"echo", " ", "'">>, <<"'">>, {"'"}),
     Form(<<"cat", " ", "<", "<", "'", "E", "'", "nl">>, <<"nl", "E", "nl", "echo">>, {"E"}),
     Form(<<"echo", " ", "#">>, <<"nl", "echo">>, {"nl"}),
     Form(<<"sh", " ", "job", " ", "-c", " ", "'">>, <<"'">>, {"'"})}

Joints == {<<";">>, <<"nl">>, <<"|">>, <<" ", "&", "&", " ">>}

\* What is put behind a joint: one command that submits and one that does not.
Followers == {<<"sbatch", " ", "job">>, <<"echo", " ", "sbatch">>}

-----------------------------------------------------------------------------
Init ==
    /\ text \in Submitting \cup Harmless
    /\ submits = (text \in Submitting)
    /\ steps = 0

\* Another command follows, in the same list, on the next line or in a pipe.
Follow ==
    \E joint \in Joints, command \in Followers :
        /\ text' = text \o joint \o command
        /\ submits' = (submits \/ command[1] = "sbatch")

\* The text becomes the body of a compound command or of a substitution.
Enclose ==
    \E form \in Compounds \cup Substitutions :
        /\ Fits(form)
        /\ text' = Around(form)
        /\ UNCHANGED submits

\* The text becomes a string that a shell runs.
HandToShell ==
    \E form \in Scripts :
        /\ Fits(form)
        /\ text' = Around(form)
        /\ UNCHANGED submits

\* The text becomes data.
Mention ==
    \E form \in Mentions :
        /\ Fits(form)
        /\ text' = Around(form)
        /\ submits' = FALSE

Next ==
    /\ steps < MaxSteps
    /\ steps' = steps + 1
    /\ \/ Follow
       \/ Enclose
       \/ HandToShell
       \/ Mention

Spec == Init /\ [][Next]_vars

-----------------------------------------------------------------------------
(* How a command line of `ctun run` hands the text to a shell: words       *)
(* before and after it.                                                    *)

Hands ==
    {<<<< <<"bash">>, <<"-c">> >>, <<>> >>,
     <<<< <<"X", "=", "2">>, <<"bin/", "sh">>, <<"-o">>, <<"job">>, <<"-ec">> >>, << <<"job">> >> >>,
     <<<< <<"timeout">>, <<"2">>, <<"bash">>, <<"-c">> >>, <<>> >>,
     <<<< <<"ssh">>, <<"job">> >>, <<>> >>,
     <<<< <<"find">>, <<"job">>, <<"-exec">>, <<"sh">>, <<"-c">> >>, << <<"+">> >> >>}

Lines == {hand[1] \o <<text>> \o hand[2] : hand \in Hands}

\* However a script that submits a job is written and handed to a shell, the
\* guard of scope every-command looks at it (budget.is_guarded): whatever is
\* before it, around it or quoted next to it does not hide the submission.
NothingMissed == submits => \A line \in Lines : IsGuarded(line, "every-command")

\* The guard is not applied to a script that only mentions a submission: no
\* guarded name is read out of a string, a comment, a file name, a value or a
\* here-document (budget._lex).  Only a nesting too deep to follow is guarded
\* without one.
NothingMadeUp == ~submits => \A line \in Lines : CommandNames(line) \cap Guarded = {}

\* On a command line that names its program directly, both scopes say the same,
\* whatever its arguments hold (budget.is_guarded).
ScopesAgree ==
    \A program \in Guarded \cup {<<"bin/", "sbatch">>, <<"echo">>}, scope \in {"first-command", "every-command"} :
        IsGuarded(<< <<"X", "=", "job">>, program, text, <<"sbatch">> >>, scope)
            <=> BaseName(program) \in Guarded

=============================================================================
