------------------------------ MODULE MCToolCalls ------------------------------
(* Small runs with tools and commands for TLC.                             *)
EXTENDS ToolCalls

Allowing(writes, shell, denied) ==
    [allow_file_writes |-> writes, allow_shell |-> shell, denied_tools |-> denied]

MCPolicies ==
    {Allowing(FALSE, FALSE, {}), Allowing(TRUE, TRUE, {"file"}),
     Allowing(TRUE, TRUE, {"shell"})}

ShellOnly == {Allowing(FALSE, TRUE, {})}

MCVerifierLists == {<<"file">>, <<"file", "command">>}

NoVerifier == {<<>>}
==============================================================================
