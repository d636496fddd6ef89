\* One call of Init, under every configuration.
\* The Obs may be down and every span sent: the process may stop.
CONSTANTS
    Inits = {i1}
    NoInit = none
    Configs <- AllConfigs
SPECIFICATION Spec
CHECK_DEADLOCK FALSE
INVARIANTS
    AcceptedIsUsable
