------------------------------ MODULE Machine ------------------------------
(* The screen machine of the browser (web/machine.js): which screen an event   *)
(* leads to. An event a screen has no edge for is dropped and changes nothing. *)

State == {"lobby", "waiting", "matched", "countdown", "shoot", "locked", "result",
          "ladder", "history"}

(* A snapshot, the first frame of every stream, is obeyed from any screen *)
SnapshotEdge == {<<"snapshot:idle", "lobby">>, <<"snapshot:waiting", "waiting">>,
                 <<"snapshot:matched", "matched">>, <<"snapshot:countdown", "countdown">>,
                 <<"snapshot:shoot", "shoot">>}

LobbyEdge == {<<"queue", "waiting">>, <<"waiting", "waiting">>, <<"matched", "matched">>,
              <<"climb", "ladder">>, <<"history", "history">>}
WaitingEdge == {<<"cancel", "lobby">>, <<"matched", "matched">>, <<"waiting", "waiting">>,
                <<"stateIdle", "lobby">>}
MatchedEdge == {<<"cancel", "lobby">>, <<"matched", "matched">>, <<"countdown", "countdown">>,
                <<"result", "result">>, <<"opponentLeft", "result">>, <<"stateIdle", "lobby">>,
                <<"waiting", "waiting">>}
CountdownEdge == {<<"countdown", "countdown">>, <<"matched", "countdown">>, <<"shoot", "shoot">>,
                  <<"result", "result">>, <<"opponentLeft", "result">>, <<"stateIdle", "lobby">>}
ShootEdge == {<<"move", "locked">>, <<"lock", "locked">>, <<"reject", "locked">>,
              <<"result", "result">>, <<"opponentLeft", "result">>, <<"stateIdle", "lobby">>}
LockedEdge == {<<"move", "locked">>, <<"reject", "locked">>, <<"result", "result">>,
               <<"opponentLeft", "result">>, <<"stateIdle", "lobby">>}
ResultEdge == {<<"matched", "matched">>, <<"countdown", "countdown">>,
               <<"opponentLeft", "result">>, <<"rematch:online", "waiting">>, <<"mode", "lobby">>,
               <<"climb", "ladder">>}
LadderEdge == {<<"matched", "matched">>, <<"mode", "lobby">>}
HistoryEdge == {<<"mode", "lobby">>, <<"waiting", "waiting">>, <<"matched", "matched">>}

Edge(s) == SnapshotEdge \union
    CASE s = "lobby" -> LobbyEdge [] s = "waiting" -> WaitingEdge [] s = "matched" -> MatchedEdge
      [] s = "countdown" -> CountdownEdge [] s = "shoot" -> ShootEdge [] s = "locked" -> LockedEdge
      [] s = "result" -> ResultEdge [] s = "ladder" -> LadderEdge [] s = "history" -> HistoryEdge

Takes(s, ev) == \E e \in Edge(s) : e[1] = ev
To(s, ev) == (CHOOSE e \in Edge(s) : e[1] = ev)[2]
=============================================================================
