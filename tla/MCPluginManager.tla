---------------------------- MODULE MCPluginManager ----------------------------
(* Three plugins, for TLC.                                                  *)
EXTENDS PluginManager

CONSTANTS a, b, c

Kind == {"No", "Required", "Optional"}

Graph(edges) == [p \in Plugins |-> [q \in Plugins |->
    IF \E e \in edges : e[1] = p /\ e[2] = q
    THEN (CHOOSE e \in edges : e[1] = p /\ e[2] = q)[3] ELSE "No"]]

(* All graphs with at most n dependencies, circles included.                *)
Graphs(n) == {g \in [Plugins -> [Plugins -> Kind]] :
    /\ \A p \in Plugins : g[p][p] = "No"
    /\ Cardinality({pq \in Plugins \X Plugins : g[pq[1]][pq[2]] # "No"}) <= n}

(* One plugin may have unresolved dependencies.  With few dependencies, b   *)
(* and c may be disabled by the settings, or c not be for the platform.     *)
AnyConfiguration ==
    LET Configured(n, enabled, available) ==
            {conf \in [depends : Graphs(n), unresolved : {{}} \cup {{p} : p \in Plugins},
                       enabled : enabled, available : available, required : {{c}}] :
                \A p \in conf.unresolved, q \in Plugins : conf.depends[p][q] = "No"}
    IN  Configured(3, {Plugins}, {Plugins})
          \cup Configured(2, {Plugins, {a}}, {Plugins, {a, b}})

(* A chain, a fork and a circle.                                            *)
SomeConfigurations ==
    [depends : {Graph({<<a, b, "Required">>, <<b, c, "Required">>}),
                Graph({<<a, b, "Optional">>, <<c, b, "Required">>}),
                Graph({<<a, c, "Required">>, <<a, b, "Optional">>, <<b, a, "Optional">>})},
     unresolved : {{}}, enabled : {Plugins, {a}}, available : {Plugins}, required : {{c}}]

(* Every way to start, and these also after crashes.                        *)
AllConfigurations == AnyConfiguration \cup SomeConfigurations
Starts == [conf \in AllConfigurations |-> IF conf \in SomeConfigurations THEN 3 ELSE 1]
OneStart == [conf \in SomeConfigurations |-> 1]

ByName == <<a, b, c>>
Orders == {<<a, b, c>>, <<c, b, a>>}
=============================================================================
