--------------------------- MODULE MCUpdateClient ----------------------------
EXTENDS UpdateClient

CONSTANTS c1, c2

Version(n, d) == [sequence |-> n, digest |-> d]
MCVersions == {Version(1, "a"), Version(1, "b"), Version(2, "a")}
MCNewest == Version(2, "a")
MCObjects == <<"copy", "document", "envelope">>
=============================================================================
