SPECIFICATION Spec
CONSTANTS
    Commands = {c, d}
    Terminals = {c}
    Updaters = {u, w}
    MaxVersion = 2
    Bad = {2}
    Breaking = {}
    Modes = {"notify", "auto"}
    KeepBackups = 1
    MaxTrouble = 1
INVARIANTS AlwaysRuns
PROPERTIES OneStartAtATime NewsGetsOut StaysCurrent
