------------------------------- MODULE Config -------------------------------
(***************************************************************************)
(* config.Load: environment variables, their defaults, parsing and ranges.  *)
(* An environment is a function from the settings to their texts.  Numbers  *)
(* and durations are integers; ALERT_HEALTH_MIN is in hundredths, or NaN.   *)
(***************************************************************************)
EXTENDS Integers, Sequences

CONSTANTS Unset,     \* the variable is not in the environment
          Garbage,   \* a text that neither Atoi, ParseDuration nor ParseFloat takes
          NaN,       \* the text "NaN", which ParseFloat takes
          Default    \* the default of each setting

\* The order in which Load parses, and the one in which validate looks.
Parsed == <<"PORT", "PIX_PENDING_THRESHOLD", "BOLETO_PENDING_THRESHOLD",
            "ALERT_ORPHANED_THRESHOLD", "ALERT_GHOST_THRESHOLD", "ALERT_HEALTH_MIN",
            "SERVER_READ_TIMEOUT", "SERVER_WRITE_TIMEOUT", "SERVER_IDLE_TIMEOUT",
            "SHUTDOWN_TIMEOUT">>

Checked == <<"PORT", "PIX_PENDING_THRESHOLD", "BOLETO_PENDING_THRESHOLD",
             "SERVER_READ_TIMEOUT", "SERVER_WRITE_TIMEOUT", "SERVER_IDLE_TIMEOUT",
             "SHUTDOWN_TIMEOUT", "ALERT_HEALTH_MIN",
             "ALERT_ORPHANED_THRESHOLD", "ALERT_GHOST_THRESHOLD">>

Settings == {Parsed[i] : i \in DOMAIN Parsed}

Durations == {"PIX_PENDING_THRESHOLD", "BOLETO_PENDING_THRESHOLD", "SERVER_READ_TIMEOUT",
              "SERVER_WRITE_TIMEOUT", "SERVER_IDLE_TIMEOUT", "SHUTDOWN_TIMEOUT"}

\* getInt, getDuration, getFloat
Parses(setting, text) ==
  /\ text # Garbage
  /\ text = NaN => setting = "ALERT_HEALTH_MIN"

Value(env, setting) == IF env[setting] = Unset THEN Default[setting] ELSE env[setting]

\* float64 x < y: false whenever one of them is NaN.
FloatLess(x, y) == x # NaN /\ y # NaN /\ x < y

OutOfRange(setting, v) ==
  CASE setting = "PORT"             -> v <= 0 \/ v > 65535
    [] setting = "ALERT_HEALTH_MIN" -> FloatLess(v, 0) \/ FloatLess(100, v)
    [] setting \in Durations        -> v <= 0
    [] OTHER                        -> v < 0

\* The first setting of a list that is bad, "" if none is.
FirstOf(list, bad) ==
  LET found == {i \in DOMAIN list : list[i] \in bad}
  IN  IF found = {} THEN "" ELSE list[CHOOSE i \in found : \A j \in found : i <= j]

\* Load's error: the setting it names.
LoadError(env) ==
  LET unparsed == FirstOf(Parsed, {s \in Settings : ~Parses(s, env[s])})
  IN  IF unparsed # "" THEN unparsed
      ELSE FirstOf(Checked, {s \in Settings : OutOfRange(s, Value(env, s))})

Loaded(env) == [s \in Settings |-> Value(env, s)]
=============================================================================
