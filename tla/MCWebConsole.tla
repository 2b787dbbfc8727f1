---------------------------- MODULE MCWebConsole ----------------------------
EXTENDS WebConsole

RestOf == [episodes |-> {"ep"}]
OwnerOf == [a \in Atoms |-> IF a = "a1" THEN "e1" ELSE "rel"]

(* Three calls of two agents                                               *)
PayloadOf ==
    [initial |-> [agent |-> "main", entities |-> {"e1"}, walked |-> {},
                  frontier |-> {}, found |-> {}],
     c1 |-> [agent |-> "sub", entities |-> {"e2"}, walked |-> {},
             frontier |-> {"e2"}, found |-> {{"e2", "e3"}}],
     c2 |-> [agent |-> "sub", entities |-> {"e3"}, walked |-> {{"e3", "e4"}},
             frontier |-> {"e4"}, found |-> {}]]

(* No partition, then a community with a provisional member, then two      *)
HomeOf(c, p) == [community |-> c, provisional |-> p]
HomesOf ==
    [n \in 0..2 |-> [e \in {"m1", "m2", "m3", "m4", "m5"} |->
        CASE n = 0 -> HomeOf(Nowhere, FALSE)
          [] n = 1 -> HomeOf(IF e \in {"m1", "m2", "m3"} THEN "c1" ELSE "c2", e = "m3")
          [] OTHER -> HomeOf(IF e \in {"m1", "m2"} THEN "c1" ELSE "c2", e = "m5")]]
TiesOf == {<<"m1", "m2">>, <<"m1", "m3">>, <<"m2", "m4">>, <<"m3", "m4">>}

(* A header that stays as it starts, starts with both workspaces.          *)
MCInit ==
    /\ Init
    /\ "header" \notin DOMAIN left => exists = Workspaces /\ active = Default
MCSpec == MCInit /\ [][Next]_vars /\ Fairness

BudgetSet == {
    [toolbar |-> 3],
    [toolbar |-> 2, panels |-> 1, dialogs |-> 2],
    [toolbar |-> 1, panels |-> 2, dialogs |-> 3],
    [toolbar |-> 1, panels |-> 1, dialogs |-> 4],
    [toolbar |-> 1, panels |-> 1, dialogs |-> 2, login |-> 1],
    [header |-> 2, toolbar |-> 1],
    [header |-> 1, toolbar |-> 1, panels |-> 1],
    [header |-> 1, tabs |-> 1, trace |-> 2],
    [tabs |-> 1, trace |-> 5],
    [tabs |-> 2, trace |-> 3],
    [tabs |-> 2, dream |-> 1, status |-> 2],
    [tabs |-> 2, dream |-> 1, status |-> 1, login |-> 1],
    [tabs |-> 1, trace |-> 2, login |-> 1],
    [header |-> 1, models |-> 1, login |-> 1],
    [tabs |-> 1, dream |-> 2, status |-> 1],
    [tabs |-> 1, dream |-> 1, look |-> 2],
    [tabs |-> 1, dream |-> 1, status |-> 1, look |-> 1],
    [header |-> 1, tabs |-> 1, dream |-> 1],
    [header |-> 1, models |-> 2],
    [models |-> 5]}
=============================================================================
