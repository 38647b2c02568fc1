---- MODULE MCDriftBoard ----
EXTENDS DriftBoard
MCTrips == [jan |-> <<3, 2, 2>>, mar |-> <<3, 1, 0>>, apr |-> <<1, 0, 0>>]
MCMoved == [jan |-> {}, mar |-> {"hour", Target}, apr |-> {"hour", "PULocationID"}]
MCReference == <<3, 3, 3>>
MCDrillMonths == <<"jan", "mar">>
MCPredicted == {"mar"}
MCPatience == [settle |-> 1, observe |-> 2, cleared |-> 1, newpod |-> 1,
               settled |-> 1, absent |-> 3, returns |-> 1]
MCDeployments == {[volume |-> "written", wiring |-> {"rules", "alertmanager"}],
                  [volume |-> "elsewhere", wiring |-> {"rules", "alertmanager"}],
                  [volume |-> "unnamed", wiring |-> {"rules", "alertmanager"}],
                  [volume |-> "written", wiring |-> {"rules"}],
                  [volume |-> "written", wiring |-> {"alertmanager"}]}
====
