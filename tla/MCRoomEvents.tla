---------------------------- MODULE MCRoomEvents -----------------------------
(* Three sockets, two of them accounts and the third the API key or a link guest. *)
EXTENDS RoomEvents

CONSTANTS s1, s2, s3, b1, b2

Kinds == {"join", "leave", "drop", "fault", "revoke", "regrade", "change", "expire", "sweep",
          "follow", "unfollow", "view", "lock", "free", "draft", "present", "vote",
          "cast", "timer", "replace", "tick"}

May(some) == [k \in Kinds |-> IF k \in DOMAIN some THEN some[k] ELSE 0]

Own(x, y, z) == [s \in {s1, s2, s3} |-> [d \in {b1, b2} |->
    CASE d = b1 -> (CASE s = s1 -> x [] s = s2 -> y [] OTHER -> z)
      [] s = s1 -> View
      [] OTHER  -> NoAccess]]

Links(x) == [d \in {b1, b2} |-> IF d = b1 THEN x ELSE 0]

Scene(on, come, own, l, some) ==
    [on |-> on, come |-> come, home |-> b1, standing |-> own, link |-> Links(l), left |-> May(some)]

MCScenes == {
    \* joining by a link whose worth changes
    Scene({}, {s1}, Own(0, 3, 0), 2,
          [join |-> 1, leave |-> 1, regrade |-> 1, change |-> 1, sweep |-> 1]),
    \* joins, and what overtakes them
    Scene({}, {s1}, Own(2, 3, 0), 0, [join |-> 3, leave |-> 1, drop |-> 1]),
    \* the API key is revoked
    Scene({}, {s3}, Own(0, 3, 1), 1, [join |-> 1, revoke |-> 1, fault |-> 1]),
    \* access lost while it is read
    Scene({s1, s2}, {}, Own(0, 1, 0), 1, [change |-> 1, expire |-> 1, sweep |-> 1, fault |-> 1]),
    \* a link changes and expires; a switch of boards
    Scene({s1}, {}, Own(0, 1, 0), 1,
          [change |-> 1, expire |-> 1, sweep |-> 1, join |-> 1]),
    \* two accounts, one of which switches boards
    Scene({s1, s2}, {}, Own(1, 2, 0), 0, [change |-> 1, sweep |-> 1, join |-> 1]),
    \* who follows whom
    Scene({s1, s2, s3}, {}, Own(3, 2, 1), 0, [follow |-> 3, drop |-> 1]),
    \* UNFOLLOW, and viewports passed on
    Scene({s1, s2, s3}, {}, Own(3, 2, 1), 0,
          [follow |-> 2, unfollow |-> 1, view |-> 1]),
    \* a target that switches boards and loses access
    Scene({s1, s2}, {}, Own(0, 3, 0), 1, [follow |-> 1, expire |-> 1, join |-> 1, sweep |-> 1]),
    \* following, leaving and losing access
    Scene({s1, s2}, {}, Own(3, 1, 0), 0,
          [follow |-> 1, view |-> 1, change |-> 1, leave |-> 1]),
    \* both switch boards while a viewport is passed on
    [Scene({s1, s2}, {}, Own(3, 2, 0), 0, [follow |-> 2, view |-> 1, join |-> 2])
        EXCEPT !.standing[s2][b2] = View],
    \* locks and drafts
    Scene({s1, s2}, {}, Own(3, 2, 0), 0,
          [lock |-> 2, free |-> 1, draft |-> 2, leave |-> 1]),
    \* a document is replaced under a lock
    Scene({s1, s2}, {}, Own(3, 2, 0), 0,
          [lock |-> 3, free |-> 1, replace |-> 1, drop |-> 1]),
    \* presenting
    Scene({s1, s2}, {}, Own(3, 2, 0), 0, [present |-> 4, drop |-> 1]),
    \* voting
    Scene({s1, s2}, {}, Own(3, 2, 0), 0, [vote |-> 3, cast |-> 2]),
    \* the timer
    Scene({s1}, {}, Own(3, 2, 0), 0, [timer |-> 3, tick |-> 3, leave |-> 1])
}
==============================================================================
