------------------------------ MODULE SafetyGate ------------------------------
(***************************************************************************)
(* The safety gate (src/safety_gate.py) in front of mutating operations,   *)
(* with its configuration (src/safety_config.py) and its decision log      *)
(* (src/audit.py).  A caller asks the gate and then acts, unless the gate  *)
(* raised; the configuration file may be edited and the server restarted   *)
(* between the two.                                                        *)
(***************************************************************************)
EXTENDS Integers

CONSTANTS
    Callers,
    Namespaces,
    ConfigFiles,  \* what safety.yaml may hold: the lists that match a namespace
    Actions, MutatingActions,
    MaxLoads,     \* bound: server starts
    NoConfig      \* missing, unparseable or not a mapping

Lists == {"trading", "system", "web", "batch"}

VARIABLES
    file,      \* safety.yaml
    config,    \* the SafetyConfig of the running server, or NoConfig
    loads,
    asked,     \* what a caller asked last, with the gate's answer
    decisions, \* the decision log: [ns, action, allowed]
    acted      \* what callers did after the gate let them: [ns, action, lists]

gateVars == <<file, config, loads, asked, decisions, acted>>

Idle == [ns |-> "none", action |-> "none", granted |-> FALSE]

GateInit ==
    /\ file \in ConfigFiles \cup {NoConfig}
    /\ config = NoConfig
    /\ loads = 0
    /\ asked = [c \in Callers |-> Idle]
    /\ decisions = {} /\ acted = {}

-----------------------------------------------------------------------------
\* SafetyConfig.load(): an absent section is an empty list; what is not a
\* mapping raises and the server does not start.
Load ==
    /\ loads < MaxLoads
    /\ loads' = loads + 1
    /\ config' = file
    /\ asked' = [c \in Callers |-> Idle]
    /\ UNCHANGED <<file, decisions, acted>>

EditConfig(f) ==
    /\ file' = f
    /\ UNCHANGED <<config, loads, asked, decisions, acted>>

\* Mutant: the lists are tried in the order they are listed in the file.
CategorizeReversed(ns) ==
    LET in(list) == list \in config[ns]
    IN  IF in("batch") THEN "BATCH"
        ELSE IF in("web") THEN "STATELESS_WEB"
        ELSE IF in("system") THEN "SYSTEM"
        ELSE IF in("trading") THEN "TRADING"
        ELSE "UNKNOWN"

\* _categorize(): the first list with the exact name or a matching pattern.
Categorize(ns) ==
    LET in(list) == list \in config[ns]
    IN  IF in("trading") THEN "TRADING"
        ELSE IF in("system") THEN "SYSTEM"
        ELSE IF in("web") THEN "STATELESS_WEB"
        ELSE IF in("batch") THEN "BATCH"
        ELSE "UNKNOWN"

Permitted(ns, action) ==
    ~(Categorize(ns) \in {"TRADING", "SYSTEM"} /\ action \in MutatingActions)

\* check(): the decision is logged first; when the log cannot be written the
\* gate raises as it does for a denied action.
Check(c, ns, action, logFails) ==
    /\ config # NoConfig
    /\ ~asked[c].granted
    /\ decisions' = IF logFails THEN decisions
                    ELSE decisions \cup {[ns |-> ns, action |-> action,
                                          allowed |-> Permitted(ns, action)]}
    /\ asked' = [asked EXCEPT ![c] =
                    [ns |-> ns, action |-> action,
                     granted |-> Permitted(ns, action) /\ ~logFails]]
    /\ UNCHANGED <<file, config, loads, acted>>

\* The caller goes on with what it asked for.
Act(c) ==
    /\ asked[c].granted
    /\ acted' = acted \cup {[ns |-> asked[c].ns, action |-> asked[c].action,
                             lists |-> config[asked[c].ns]]}
    /\ asked' = [asked EXCEPT ![c] = Idle]
    /\ UNCHANGED <<file, config, loads, decisions>>

GateNext ==
    \/ Load
    \/ \E f \in ConfigFiles \cup {NoConfig} : EditConfig(f)
    \/ \E c \in Callers, ns \in Namespaces, a \in Actions, e \in BOOLEAN : Check(c, ns, a, e)
    \/ \E c \in Callers : Act(c)

GateSpec == GateInit /\ [][GateNext]_gateVars

-----------------------------------------------------------------------------
GateTypeOK ==
    /\ file \in ConfigFiles \cup {NoConfig} /\ config \in ConfigFiles \cup {NoConfig}
    /\ loads \in 0 .. MaxLoads
    /\ asked \in [Callers -> [ns : Namespaces \cup {"none"}, action : Actions \cup {"none"},
                              granted : BOOLEAN]]
    /\ decisions \subseteq [ns : Namespaces, action : Actions, allowed : BOOLEAN]
    /\ acted \subseteq [ns : Namespaces, action : Actions, lists : SUBSET Lists]

\* Nothing is done that the log does not show as allowed, and no mutating
\* action in a namespace that the trading or the system list matches, whatever
\* other lists match it and however the file is edited meanwhile.
GateFirst ==
    \A x \in acted :
        /\ [ns |-> x.ns, action |-> x.action, allowed |-> TRUE] \in decisions
        /\ x.action \in MutatingActions => x.lists \cap {"trading", "system"} = {}
=============================================================================
