-------------------------- MODULE MCCommandLines --------------------------
EXTENDS CommandLines

MCGuarded == {<<"sbatch">>, <<"sba", "tch">>}
MCIdentifiers == {"X", "job", "sbatch", "echo"}
MCOptions == {"-c", "-ec", "-o", "-k", "-u", "-S", "-w", "-s", "-p", "-n", "-v",
              "-exec", "--command", "--rcfile", "+o"}
=============================================================================
