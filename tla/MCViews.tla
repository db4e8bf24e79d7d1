------------------------------ MODULE MCViews ------------------------------
\* The instance of Views that TLC checks.
EXTENDS Views

CONSTANTS solo, task, rest

MCIdOf == solo :> <<"10">> @@ task :> <<"20", "1">> @@ rest :> <<"20", "rest">>
MCRawOf == solo :> <<"10">> @@ task :> <<"21">> @@ rest :> <<"20">>

\* A job and an array, with records of the array and of a task; for the overview
\* these two may be older than its window.
MCIds == {<<"10">>, <<"20">>, <<"20", "1">>}
MCProjects == {<<>>, <<"a">>, <<"a", "b">>, <<"a", "b", "b">>, <<"ab">>}
MCStores ==
    {[id \in ids |-> <<>>] : ids \in SUBSET (MCIds \ {<<"10">>})} \cup [MCIds -> MCProjects]

\* A rename to another name, into the project, out of it, and an empty level.
MCRawNames == {<<"a">>, <<"", "a", "b">>, <<"ab", "">>, <<"c">>, <<"">>}

\* Two records that fill a call, and one that is longer than a call may be.
MCSizeOf == <<"10">> :> 2 @@ <<"20">> :> 7 @@ <<"20", "1">> :> 4
=============================================================================
