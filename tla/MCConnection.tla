---------------------------- MODULE MCConnection ----------------------------
EXTENDS Connection

SomeLengths == <<3, 2, 8>>

\* the first message is one character of two bytes
SomeWide == {[first |-> 1, last |-> 2]}

SomeKinds == <<"routed", "keepAlive", "invalid">>
=============================================================================
