------------------------------- MODULE Config --------------------------------
(***************************************************************************)
(* internal/bridge/config.go: the function from the process environment to *)
(* a configuration or to the variables the startup error names.            *)
(*                                                                         *)
(* An environment maps variables to values.  `unset' is a variable that is *)
(* absent, "" one that is present and empty, which the code treats alike   *)
(* by several routes.  strconv and time are external: which values they    *)
(* parse is given by tables, and durations are in seconds.                 *)
(***************************************************************************)
EXTENDS Integers

unset == "unset"

EnvService == "DD_SERVICE"
EnvFlaggingProviderEnabled == "DD_EXPERIMENTAL_FLAGGING_PROVIDER_ENABLED"
EnvTraceEnabled == "DD_TRACE_ENABLED"
EnvTraceAgentURL == "DD_TRACE_AGENT_URL"
EnvAgentHost == "DD_AGENT_HOST"
EnvTraceAgentPort == "DD_TRACE_AGENT_PORT"
EnvListenAddr == "DDFLAGD_LISTEN_ADDR"
EnvAdminAddr == "DDFLAGD_ADMIN_ADDR"
EnvPprofEnabled == "DDFLAGD_PPROF_ENABLED"
EnvAPIKey == "DDFLAGD_API_KEY"
EnvDrainDelay == "DDFLAGD_DRAIN_DELAY"
EnvInitTimeout == "DDFLAGD_INIT_TIMEOUT"
EnvShutdownTimeout == "DDFLAGD_SHUTDOWN_TIMEOUT"
EnvHandlerTimeout == "DDFLAGD_HANDLER_TIMEOUT"

Timeouts == {EnvInitTimeout, EnvShutdownTimeout, EnvHandlerTimeout}
Durations == Timeouts \cup {EnvDrainDelay}

DefaultListenAddr == "127.0.0.1:8016"
DefaultAdminAddr == "0.0.0.0:8017"

\* The handler timeout, 200 ms, is rounded up to a second.
DefaultDuration(name) ==
    CASE name = EnvDrainDelay      -> 5
      [] name = EnvInitTimeout     -> 30
      [] name = EnvShutdownTimeout -> 10
      [] name = EnvHandlerTimeout  -> 1

\* Which values strconv.ParseBool reads as true and as false after TrimSpace,
\* and what time.ParseDuration makes of the ones it accepts.
TrueWords == {"true", " true ", "1"}
FalseWords == {"false", "0"}
DurationWords == [d \in {"-1s", "0s", "1s", " 1s "} |->
                    CASE d = "-1s" -> -1 [] d = "0s" -> 0 [] OTHER -> 1]

------------------------------------------------------------------------------
(* Reading a variable *)

Getenv(env, name) == IF env[name] = unset THEN "" ELSE env[name]

stringEnv(env, name, default) ==
    IF env[name] \in {unset, ""} THEN default ELSE env[name]

parseBool(v, default) ==
    IF v \in TrueWords THEN TRUE ELSE IF v \in FalseWords THEN FALSE ELSE default

boolEnv(env, name, default) ==
    IF env[name] = unset THEN default ELSE parseBool(env[name], default)

\* A value that is no duration is an error and leaves the default in place.
durationEnv(env, name) ==
    LET default == DefaultDuration(name)
    IN  CASE env[name] \in {unset, ""}         -> [ok |-> TRUE, value |-> default]
          [] env[name] \in DOMAIN DurationWords -> [ok |-> TRUE, value |-> DurationWords[env[name]]]
          [] OTHER                              -> [ok |-> FALSE, value |-> default]

\* The Agent endpoint dd-trace-go will use, for reporting: a URL wins over a
\* host and a port, either of which completes the other.
agentURL(env) ==
    LET host == stringEnv(env, EnvAgentHost, "localhost")
        port == stringEnv(env, EnvTraceAgentPort, "8126")
    IN  IF Getenv(env, EnvTraceAgentURL) # "" THEN <<env[EnvTraceAgentURL]>>
        ELSE IF Getenv(env, EnvAgentHost) = "" /\ Getenv(env, EnvTraceAgentPort) = "" THEN << >>
        ELSE <<host, port>>

------------------------------------------------------------------------------
(* LoadConfig *)

\* The variables the errors of Validate name.
Validate(c, env) ==
    {name \in {EnvService} : c.Service = ""}
    \cup {name \in {EnvFlaggingProviderEnabled} : ~boolEnv(env, name, FALSE)}
    \cup {name \in {EnvTraceEnabled} : env[name] # unset /\ ~parseBool(env[name], TRUE)}
    \cup {name \in {EnvListenAddr} : c.ListenAddr = ""}
    \cup {name \in {EnvAdminAddr} : c.AdminAddr = ""}
    \cup {name \in {EnvListenAddr, EnvAdminAddr} : c.ListenAddr = c.AdminAddr}
    \cup {name \in {EnvDrainDelay} : c.duration[name] < 0}
    \cup {name \in Timeouts : c.duration[name] <= 0}

configOf(env) ==
    [Service |-> Getenv(env, EnvService),
     AgentURL |-> agentURL(env),
     ListenAddr |-> stringEnv(env, EnvListenAddr, DefaultListenAddr),
     AdminAddr |-> stringEnv(env, EnvAdminAddr, DefaultAdminAddr),
     PprofEnabled |-> boolEnv(env, EnvPprofEnabled, FALSE),
     APIKey |-> Getenv(env, EnvAPIKey),
     duration |-> [name \in Durations |-> durationEnv(env, name).value]]

unparsable(env) == {name \in Durations : ~durationEnv(env, name).ok}

\* MUTANT of LoadConfig: the first loop returns on its own errors.
LoadConfigEarly(env) ==
    [config |-> configOf(env),
     errors |-> IF unparsable(env) # {} THEN unparsable(env) ELSE Validate(configOf(env), env)]

\* Every error is collected before the configuration is refused.
LoadConfig(env) ==
    [config |-> configOf(env),
     errors |-> unparsable(env) \cup Validate(configOf(env), env)]

------------------------------------------------------------------------------
(* Properties of what LoadConfig makes of an environment *)

\* One start names every problem: a variable that is refused in an otherwise
\* good environment is refused beside any other problem.  Only the two
\* addresses depend on each other.
NoProblemHides(env, good) ==
    \A name \in DOMAIN env \ {EnvListenAddr, EnvAdminAddr} :
        name \in LoadConfig([good EXCEPT ![name] = env[name]]).errors
            => name \in LoadConfig(env).errors
==============================================================================
