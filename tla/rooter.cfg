CONSTANTS
    Machines = {m1, m2}
    Routes = {"none", "inetsim", "tor", "internet", "false"}
    NoOne = NoOne
    Boot = Boot
    Required = FALSE
    Line = TRUE
    Faults = {"stop", "cape", "exception", "interface"}
    MaxFaults = 1
SPECIFICATION FairSpec
INVARIANTS TypeOK RoutedAsAsked NothingLeft LineReset
 
