------------------------------- MODULE MCHub -------------------------------
(* The hub for TLC: four connections of up to three players, with every        *)
(* player on one connection, or with one of them on two tabs.                  *)
EXTENDS HubPromise, TLC

CONSTANTS conn1, conn2, conn3, conn4, ann, bob, eve

OnePerPlayer == (conn1 :> ann @@ conn2 :> bob @@ conn3 :> eve)
TwoTabs == (conn1 :> ann @@ conn2 :> ann @@ conn3 :> bob)
TabsAndTwo == (conn1 :> ann @@ conn2 :> ann @@ conn3 :> bob @@ conn4 :> eve)

(* Matches, tokens and modes are interchangeable, and so are the players where *)
(* each has one connection, and the two tabs of one player.                    *)
Identities == {f @@ g @@ h : f \in Permutations(Match), g \in Permutations(Token),
                              h \in Permutations(Mode)}
SinglePlayers == {f @@ [x \in Player |->
                         OnePerPlayer[f[CHOOSE k \in Client : OnePerPlayer[k] = x]]] :
                  f \in Permutations(Client)}
SingleSymmetry == {f @@ g : f \in SinglePlayers, g \in Identities}
TabsSymmetry == {f @@ g : f \in Permutations({conn1, conn2}), g \in Identities}
=============================================================================
