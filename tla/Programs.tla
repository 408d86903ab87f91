-------------------------------- MODULE Programs --------------------------------
(* Programs that share no state, side by side: a behaviour is one of one of them, which *)
(* says what the shared variables stand for, and a variable that it lacks stays as it is. *)

VARIABLES program, v1, v2, v3, v4, v5, v6, v7, v8, v9, v10, v11, v12

all == <<program, v1, v2, v3, v4, v5, v6, v7, v8, v9, v10, v11, v12>>
after1 == <<program, v2, v3, v4, v5, v6, v7, v8, v9, v10, v11, v12>>
after3 == <<program, v4, v5, v6, v7, v8, v9, v10, v11, v12>>
after5 == <<program, v6, v7, v8, v9, v10, v11, v12>>
after7 == <<program, v8, v9, v10, v11, v12>>
after8 == <<program, v9, v10, v11, v12>>
after9 == <<program, v10, v11, v12>>

Idle9 == v10 = "" /\ v11 = "" /\ v12 = ""
Idle8 == v9 = "" /\ Idle9
Idle7 == v8 = "" /\ Idle8
Idle5 == v6 = "" /\ v7 = "" /\ Idle7
Idle3 == v4 = "" /\ v5 = "" /\ Idle5
Idle1 == v2 = "" /\ v3 = "" /\ Idle3
=============================================================================
