---------------------------- MODULE BridgeConfig ----------------------------
(***************************************************************************)
(* The configuration of the bridge: command line flags, the config file    *)
(* that the config commands write, environment and defaults, and the flags *)
(* that codexb start hands on to the daemon it spawns.  The keys do not    *)
(* depend on one another, so a behaviour follows one of them.  Values that *)
(* the code tells apart: empty and blank texts, texts that begin with a    *)
(* dash, the empty list of origins, numbers that are not positive, and two *)
(* ordinary ones.                                                          *)
(***************************************************************************)
EXTENDS Naturals

Keys == {"host", "bridgeUrl", "port", "corsOrigins", "logPath"}
Plain == {"a", "b"}
Values == Plain \cup {"empty", "blank", "dash", "emptyList", "zero"}
None == "none"

VARIABLES
  confKey,   \* the key
  confEnv,   \* its value in the environment
  confFile,  \* its value in the config file
  confSet,   \* history: the value that config set wrote last
  confDaemon \* the daemon: the value asked for at the command line, its own

confVars == <<confKey, confEnv, confFile, confSet, confDaemon>>

Typed(key) ==
  CASE key = "port" -> Plain \cup {"zero"}
    [] key = "corsOrigins" -> Plain \cup {"empty", "blank", "dash", "emptyList"}
    [] OTHER -> Plain \cup {"empty", "blank", "dash"}

ConfTypeOK ==
  /\ confKey \in Keys
  /\ confEnv \in Plain \cup {"dash", "emptyList", None}
  /\ confFile \in Typed(confKey) \cup {None}
  /\ confSet \in Plain \cup {"emptyList", None}
  /\ confDaemon \in [flag : Values \cup {None},
                     asked : Values \cup {"all", "runtimeRoot", None},
                     got : Values \cup {"all", "runtimeRoot", "failed", None}]

ConfInit ==
  /\ confKey \in Keys
  /\ confEnv \in {None} \cup (Typed(confKey) \ {"empty", "blank", "zero"})
  /\ confFile = None /\ confSet = None
  /\ confDaemon = [flag |-> None, asked |-> None, got |-> None]

-----------------------------------------------------------------------------
(* loadBridgeServerConfig                                                  *)

Usable(v) == v \in Plain \cup {"dash"}
or(v, w) == IF v = None THEN w ELSE v          \* the operator ??
normalize(v) == IF Usable(v) THEN v ELSE None  \* normalizeText, normalizePort

\* A list without origins allows all; a blank path is the runtime root.
normalizeCorsOrigins(v) == IF Usable(v) THEN v ELSE "all"
normalizePathOverride(v) == IF v = None \/ Usable(v) THEN v ELSE "runtimeRoot"

\* Blank origins are dropped.
readBridgeConfigFile(key, v) == IF key = "corsOrigins" /\ v \in {"empty", "blank"} THEN "emptyList" ELSE v

\* Faulty: the environment before the file.
LoadEnvironmentFirst(key, flag, file, env) ==
  or(normalize(flag), or(normalize(env), normalize(readBridgeConfigFile(key, file))))

Load(key, flag, file, env) ==
  LET first == or(flag, or(readBridgeConfigFile(key, file), env))
  IN  CASE key = "host" -> first
        [] key \in {"bridgeUrl", "port"} ->
             or(normalize(flag), or(normalize(readBridgeConfigFile(key, file)), normalize(env)))
        [] key = "corsOrigins" -> normalizeCorsOrigins(first)
        [] key = "logPath" -> normalizePathOverride(first)

\* What config get prints
getBridgeConfigValue(key) == Load(key, None, confFile, confEnv)

-----------------------------------------------------------------------------
(* The command line                                                        *)

normalizePositiveInt(v) == v \in Plain
requireValue(v) == v \notin {"empty", "dash"}

\* --flag value and --flag=value; a value of its own may not be empty or begin
\* with a dash.
parseArgs(key, form, v) ==
  /\ key = "port" => normalizePositiveInt(v)
  /\ form = "spaced" => requireValue(v)

\* Faulty: a flag is not handed on.
SerializeWithoutLogPath(key, flag) == IF key = "logPath" \/ flag = "emptyList" THEN None ELSE flag

serializeConfigArgs(key, flag) == IF flag = "emptyList" THEN None ELSE flag

Spawned(flag) ==
  LET arg == serializeConfigArgs(confKey, flag)
  IN  IF arg # None /\ ~parseArgs(confKey, "spaced", arg) THEN "failed"
      ELSE Load(confKey, arg, confFile, confEnv)

\* start, with at most one flag for the key.
HandleStart(form, flag) ==
  /\ flag = None \/ (flag \in Typed(confKey) /\ parseArgs(confKey, form, flag))
  /\ confDaemon' = [flag |-> flag, asked |-> Load(confKey, flag, confFile, confEnv),
                    got |-> Spawned(flag)]
  /\ UNCHANGED <<confKey, confEnv, confFile, confSet>>

-----------------------------------------------------------------------------
(* config set, edit and reset                                              *)

Writes(v, set) == confFile' = v /\ confSet' = set /\ UNCHANGED <<confKey, confEnv, confDaemon>>

\* Blank values are refused; a list of nothing but commas is not, and a number
\* must be positive.
ConfigSet(v) ==
  /\ v \in Typed(confKey) \cap (Plain \cup {"emptyList"})
  /\ Writes(v, v)

ConfigEdit == \E v \in Typed(confKey) : Writes(v, None)

ConfigReset == Writes(None, None)

ConfNext ==
  \/ \E v \in Values : ConfigSet(v)
  \/ ConfigEdit \/ ConfigReset
  \/ \E form \in {"spaced", "equals"}, flag \in Values \cup {None} : HandleStart(form, flag)

-----------------------------------------------------------------------------
(* Properties                                                              *)

\* The daemon that start spawns is configured as run would configure it with
\* the same flags, unless a value cannot be handed on: it is empty or begins
\* with a dash, or is a list of origins without any.
SpawnedAsAsked ==
  confDaemon.flag \notin {"empty", "dash", "emptyList"} => confDaemon.got = confDaemon.asked

\* What config set wrote is what a command without flags works with, whatever
\* the environment says.
SetIsEffective ==
  confSet # None =>
    getBridgeConfigValue(confKey) = IF confSet = "emptyList" THEN "all" ELSE confSet
=============================================================================
