----------------------------- MODULE MCWebGraph -----------------------------
EXTENDS WebGraph

NameSet == {"a", "b", "c", "d"}
TieSet == {{"a", "b"}, {"b", "c"}}
Few == {1, 2}
=============================================================================
