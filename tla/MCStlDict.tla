----------------------------- MODULE MCStlDict -----------------------------
EXTENDS StlDict

CONSTANTS v1, v2

MCVals == {v1, v2}

\* Keys where one is a prefix of another, "1-a" and "1-ab".
MCKeysPrefix == {<<"1", "-", "a">>, <<"1", "-", "a", "b">>}
=============================================================================
