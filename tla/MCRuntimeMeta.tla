--------------------------- MODULE MCRuntimeMeta ---------------------------
EXTENDS RuntimeMeta

\* A CRI-O container, a containerd one after a run that is too short, the
\* shim of the former, and a name whose run is too long.
MCBasenames ==
    {<<"crio-", "a", "a">>, <<"a", "-", "b", "b">>, <<"crio-", "conmon-", "a", "a">>,
     <<"b", "b", "b">>}
MCSandboxes == {<<"a", "a">>, <<"b", "b">>}
MCNamed == {<<"a", "a">>}
MCLayered == {<<"a", "a">>}
=============================================================================
