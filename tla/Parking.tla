------------------------------- MODULE Parking -------------------------------
(* What park and wake promise a green task (grenat_green task.rs,            *)
(* scheduler.rs): park waits until the task is woken, or returns at once if  *)
(* it was woken before; a wake is kept until then, or until the task yields. *)
(*                                                                           *)
(* GreenScheduler implements it, with states, queue and workers; GreenSync   *)
(* takes it for granted, and makes locks, channels and sleep of it.          *)
CONSTANT Tasks

VARIABLE place     \* where each task is with respect to park

(* "noted": woken, and has not parked since; "parked": in park, and not      *)
(* woken; "ready": in park, woken, and to return from it.                    *)
Places == {"going", "noted", "parked", "ready"}

Wakes   == {<<"going", "noted">>, <<"parked", "ready">>}
Parks   == {<<"going", "parked">>, <<"noted", "ready">>}
Returns == {<<"ready", "going">>}
Yields  == {<<"noted", "going">>}

Init == place = [t \in Tasks |-> "going"]

Moves(t) == <<place[t], place'[t]>> \in Wakes \cup Parks \cup Returns \cup Yields

(* Each task moves by itself: one may park as it wakes another.              *)
Next ==
    /\ place' \in [Tasks -> Places]
    /\ \A t \in Tasks : place'[t] = place[t] \/ Moves(t)

Spec == Init /\ [][Next]_place
==============================================================================
