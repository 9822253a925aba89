--------------------------- MODULE MCNotifications ---------------------------
(* A company with an administrator "ann", an operator "root" of the platform *)
(* and a database that fails from time to time.  A behaviour tells one of    *)
(* three stories, each of which needs many steps of its own kind.            *)
EXTENDS Notifications

VARIABLE story

MCMessageHash == [m \in {"down"} |-> 1]
MCCompanyOf == [u \in Users |-> IF u = "root" THEN None ELSE "company"]
MCRoleOf == [u \in Users |-> "admin"]
MCLinkedPoints == [u \in Users |-> {}]
MCPointOf == [x \in Cameras |-> "gate"]

DatabaseDown == BuildSystemErrorNotification("company", "database", 500, "down")

MCProblems == {DatabaseDown}
\* No row yet, or a company that forbids to override its settings.
MCFormerSettings == [{"system.error"} ->
    {None, [enabled |-> TRUE, filters |-> None, allowUserOverride |-> FALSE]}]
\* A request may also send a severity or a kind of filter that the type does not know.
MCFilterChoices ==
    "system.error" :> {"severities" :> {"critical"}, "severities" :> {"fatal"}, "plates" :> {"A"}}

-----------------------------------------------------------------------------

\* How much happens: dispatches, changes (edits, readings, ageings) and faults.
\* "problem": dispatch after dispatch next to one edit, as windows expire.
\* "settings": two requests edit during one dispatch.
\* "retention": rows are read and grow old.
Most(counter) ==
    CASE story = "problem" -> [started |-> 3, changes |-> 1, faults |-> 1][counter]
      [] story = "settings" -> [started |-> 1, changes |-> 3, faults |-> 0][counter]
      [] story = "retention" -> [started |-> 1, changes |-> 5, faults |-> 1][counter]

Service ==
    \/ Crash
    \/ \E e \in Events : Publish(e)
    \/ \E d \in Dispatches : Dispatch(d) \/ Fail(d)

Configure(c) ==
    \/ PreferenceSave(c) \/ SettingSave(c)
    \/ \E u \in Users, t \in Types : PreferenceLoad(c, u, t) \/ SettingLoad(c, u, t)

Use(c) == MarkReadLoad(c) \/ MarkReadSave(c)

Leave == (\E u \in Users : RemoveUser(u)) \/ (\E x \in Cameras : RemoveCamera(x))

StoryNext ==
    /\ \/ Service
       \/ story = "problem" /\ (Tick \/ Configure(1) \/ Leave)
       \/ story = "settings" /\ \E c \in Editors : Configure(c)
       \/ /\ story = "retention"
          /\ \/ Purge \/ Own \/ Leave
             \/ \E c \in Editors : Use(c)
             \/ \E u \in Users : MarkAllRead(u)
    /\ started' <= Most("started") /\ changes' <= Most("changes") /\ faults' <= Most("faults")
    /\ UNCHANGED story

StoryInit == Init /\ story \in {"problem", "settings", "retention"}

\* Only "problem" has the time and the repetition that Fairness asks for: the
\* other stories are about safety.
StorySpec == StoryInit /\ [][StoryNext]_<<vars, story>> /\ Fairness
=============================================================================
