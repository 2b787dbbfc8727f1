------------------------------- MODULE WebTabs -------------------------------
(***************************************************************************)
(* Which tab of the WebUI is in front (App.tsx).  Every tab stays mounted; *)
(* the effects of Melchior and Balthasar depend on it.  The other tabs are *)
(* left out.                                                               *)
(***************************************************************************)
VARIABLE tab    \* currentTab

Tabs == {"documents", "melchior", "balthasar"}
=============================================================================
