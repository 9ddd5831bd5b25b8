SPECIFICATION ConsoleSpec
CONSTANTS
    Items = {i1, i2}
    Detected = {i2}
    Reports = {r1, r2}
    Actionable = {r1}
    Healthy = {r2}
    Fixes = {f1}
    QueueFilters = {"active", "fixed"}
    Real = {pa, pb}
    EnvKeys = {pa}
    Analyses = {n1, n2}
    Filters = {failed}
    PageSize = 2
    MaxRows = 3
    MaxLoads = 4
    Namespaced = {pod}
    ClusterScoped = {node}
    Namespaces = {"demo", "other"}
    MaxRuns = 2
    MaxPolls = 2
    Scenarios = {crashloop}
    ResourceOf <- MCResourceOf
    Tabs = {t1, t2}
    Clients = {c1, c2}
    Limit = 2
    Window = 2
    LastTime = 4
INVARIANTS
    ConsoleTypeOK PaneIsCurrent ProposedFromOwnReport Provenance OverrideBelongs
    KeysBelong ShownIsStored RowsAnswer TargetIsListed ProgressIsReal DemoAgrees
    LimitIsExact
CONSTRAINT OneAtWork
CHECK_DEADLOCK FALSE
