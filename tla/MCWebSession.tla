---------------------------- MODULE MCWebSession ----------------------------
EXTENDS WebSession

UserSet == {"ann", "bob"}
=============================================================================
