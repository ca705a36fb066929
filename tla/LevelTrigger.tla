---------------------------- MODULE LevelTrigger ----------------------------
(***************************************************************************)
(* The pure part of trigger.c: which trigger function a rule names, what   *)
(* its addins configure, and when a reading makes it act.  A trigger has   *)
(* hysteresis: once it has acted it does nothing until a reading reaches   *)
(* its reset level.                                                        *)
(***************************************************************************)
EXTENDS Naturals

\* What a rule may ask a worker's channel to watch for.
TriggerNames == {"light_level_falls_below", "light_level_rises_above",
                 "distance_falls_below", "distance_rises_above"}

\* "NULL" where the channel has no such trigger; the button channel has none.
find_trigger(channel, name) ==
    CASE channel = "light" /\ name = "light_level_falls_below" -> "falls_below"
      [] channel = "light" /\ name = "light_level_rises_above" -> "rises_above"
      [] channel = "distance" /\ name = "distance_falls_below" -> "falls_below"
      [] channel = "distance" /\ name = "distance_rises_above" -> "rises_above"
      [] OTHER -> "NULL"

\* parse_addins: addins maps keys to levels.  The thread's memory comes from
\* its stack and nothing calls init_memory, so ready, and a level the addins
\* leave out, are whatever garbage holds.
parse_addins(addins, garbage) ==
    [ready         |-> garbage.ready,
     trigger_level |-> IF "trigger_level" \in DOMAIN addins
                       THEN addins["trigger_level"]
                       ELSE garbage.trigger_level,
     reset_level   |-> IF "reset_level" \in DOMAIN addins
                       THEN addins["reset_level"]
                       ELSE garbage.reset_level]

\* The key that names the line; any other, "line_id" too, is passed over.  A key
\* stands for every prefix of it as well, since strncmp stops where the key does.
AddinsAccepted(addins) == "line" \in DOMAIN addins

\* A slip: the trigger stays ready after it has acted.
falls_belowStaysReady(m, value) ==
    [acts  |-> m.ready /\ value <= m.trigger_level,
     ready |-> m.ready \/ value >= m.reset_level]

\* falls_below and rises_above: whether the trigger acts on value, and its
\* ready flag afterwards.
falls_below(m, value) ==
    [acts  |-> m.ready /\ value <= m.trigger_level,
     ready |-> \/ m.ready /\ value > m.trigger_level
               \/ ~m.ready /\ value >= m.reset_level]

rises_above(m, value) ==
    [acts  |-> m.ready /\ value >= m.trigger_level,
     ready |-> \/ m.ready /\ value < m.trigger_level
               \/ ~m.ready /\ value <= m.reset_level]

trigger_func(channel, name, m, value) ==
    IF find_trigger(channel, name) = "falls_below"
    THEN falls_below(m, value)
    ELSE rises_above(m, value)
=============================================================================
