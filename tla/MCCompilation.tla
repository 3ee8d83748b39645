---------------------------- MODULE MCCompilation ----------------------------
(* Two small scenarios with the edits, parameters and backends that         *)
(* model-check Compilation.                                                 *)
EXTENDS Compilation

CONSTANTS Image, Size, Host,   \* variables
          Linux, Windows       \* operating systems

Body(kind, value, refs) == [kind |-> kind, value |-> value, refs |-> refs]
Plainly == Body("", NoValue, Nothing)
With(refs) == Body("", NoValue, refs)
Count(n, refs) == Body("", n, refs)

Site ==
    <<"nodes", "lan">> :> Body("switch", NoValue, Nothing)
    @@ <<"nodes", "web">> :> Body("vm", Image, [features |-> {"site", "base"},
                                               conditions |-> {"up"}])
    @@ <<"nodes", "db">> :> Body("vm", Linux, [features |-> {"base"}])
    @@ <<"infrastructure", "lan">> :> Count(1, Nothing)
    @@ <<"infrastructure", "web">> :> Count(1, [links |-> {"lan"}, dependencies |-> {"db"}])
    @@ <<"infrastructure", "db">> :> Count(Size, [links |-> {"lan"}])
    @@ <<"features", "base">> :> Plainly
    @@ <<"features", "site">> :> With([dependencies |-> {"base"}])
    @@ <<"conditions", "up">> :> Plainly
    @@ <<"content", "page">> :> Body("file", NoValue, [target |-> {Host}])
    @@ <<"entities", "team">> :> Plainly
    @@ <<"agents", "red">> :> With([entity |-> {"team"}, hosts |-> {"db"},
            allowed_subnets |-> {"lan"}, operating_scope |-> {"web", "page"}])
    @@ <<"relationships", "serves">> :> With([source |-> {"page"}, target |-> {Host}])
    @@ <<"variables", Image>> :> Body("", NoValue, [allowed_values |-> {Linux, Windows}])
    @@ <<"variables", Size>> :> Body("required", NoValue, [allowed_values |-> {1, 2}])
    @@ <<"variables", Host>> :> Body("", "web", Nothing)

Exercise ==
    <<"nodes", "web">> :> Body("vm", Linux, [conditions |-> {"up"}, injects |-> {"mail"}])
    @@ <<"conditions", "up">> :> Plainly
    @@ <<"injects", "mail">> :> Plainly
    @@ <<"metrics", "load">> :> Body("conditional", 10, [condition |-> {"up"}])
    @@ <<"evaluations", "grade">> :> Body("", 5, [metrics |-> {"load"}])
    @@ <<"tlos", "serve">> :> With([evaluation |-> {"grade"}])
    @@ <<"goals", "win">> :> With([tlos |-> {"serve"}])
    @@ <<"events", "outage">> :> With([conditions |-> {"up"}, injects |-> {"mail"}])
    @@ <<"scripts", "day">> :> With([events |-> {"outage"}])
    @@ <<"scripts", "night">> :> With([events |-> {"outage"}])
    @@ <<"stories", "week">> :> With([scripts |-> {"day"}])
    @@ <<"workflows", "flow">> :> Body("retry", NoValue,
            [conditions |-> {"up"}, steps |-> {"probe"}])
    @@ <<"objectives", "first">> :> With([goals |-> {"win"}, stories |-> {"week"},
            events |-> {"outage"}, workflows |-> {"flow"}, steps |-> {<<"flow", "probe">>}])
    @@ <<"objectives", "second">> :> With([conditions |-> {"up"}, depends_on |-> {"first"}])

\* Names of mounted modules: the features of lab and of lab.web share addresses.
Lab ==
    <<"nodes", "lab">> :> Body("vm", Linux, [features |-> {"web.tls", "web.site"}])
    @@ <<"nodes", "lab.web">> :> Body("vm", Linux, [features |-> {"tls", "site"}])
    @@ <<"features", "web.tls">> :> With([dependencies |-> {"web.site"}])
    @@ <<"features", "web.site">> :> Plainly
    @@ <<"features", "tls">> :> Plainly
    @@ <<"features", "site">> :> With([dependencies |-> {"tls"}])

MCFirstDrafts == {Site, Exercise, Lab}

MCDrafts ==
    <<"nodes", "web">> :>
        {Body("vm", Windows, [conditions |-> {"up"}, injects |-> {"mail"}]),
         Body("vm", Image, [features |-> {"site"}, conditions |-> {"up"}]),
         Body("vm", Image, [features |-> {"site", "base"}])}
    @@ <<"nodes", "db">> :>
        {Body("vm", Linux, [conditions |-> {"up"}]), Body("switch", NoValue, Nothing)}
    @@ <<"infrastructure", "db">> :>
        {Count(Size, [links |-> {"lan"}, dependencies |-> {"web"}]),
         Count(2, [links |-> {"web"}]), Count(2, Nothing)}
    @@ <<"features", "base">> :>
        {Body("", Windows, Nothing), With([dependencies |-> {"site"}])}
    @@ <<"nodes", "lab.web">> :> {Body("vm", Linux, [features |-> {"site"}])}
    @@ <<"features", "tls">> :> {With([dependencies |-> {"site"}])}
    @@ <<"content", "page">> :> {Body("file", NoValue, [target |-> {"db"}])}
    @@ <<"content", "web">> :> {Body("file", NoValue, [target |-> {"web"}])}
    @@ <<"conditions", "up">> :> {Body("", Windows, Nothing)}
    @@ <<"injects", "mail">> :> {Body("", Windows, Nothing)}
    @@ <<"metrics", "load">> :>
        {Body("conditional", 4, [condition |-> {"up"}]), Body("manual", 10, Nothing)}
    @@ <<"scripts", "day">> :> {With([events |-> {"outage"}]), With(Nothing)}
    @@ <<"workflows", "flow">> :>
        {Body("loop", NoValue, [objective |-> {"second"}, steps |-> {"probe"}]),
         Body("retry", NoValue, [conditions |-> {"up"}, steps |-> {"wait"}])}
    @@ <<"objectives", "first">> :>
        {With([metrics |-> {"load"}, scripts |-> {"day"}, depends_on |-> {"second"}]),
         With([tlos |-> {"serve"}, stories |-> {"week"}, scripts |-> {"night"}]),
         With([evaluations |-> {"grade"}, stories |-> {"week"}, scripts |-> {"day"}])}
    @@ <<"objectives", "second">> :> {With([conditions |-> {"up"}])}

MCParameters ==
    {Nothing, Size :> 1, Image :> Windows @@ Size :> 2, Image :> Linux @@ Size :> 1,
     Image :> Linux @@ Size :> 1 @@ Host :> "db", Image :> Linux @@ Size :> 1 @@ Host :> "lan"}

Everywhere == {"vm", "switch", "file", "retry", "loop", "accounts", "acls", "scoring",
    "condition-refs", "inject-bindings", "orchestrator", "evaluator", "conditions"}
    \cup OrchestrationSections \cup EvaluationSections

MCManifests ==
    {[supports |-> Everywhere, os |-> {Linux, Windows}, total |-> 4],
     [supports |-> Everywhere, os |-> {Linux}, total |-> NoValue],
     [supports |-> Everywhere \ {"retry"}, os |-> {Linux, Windows}, total |-> 3]}

MCLabels ==
    [n \in {e[2] : e \in Everything} |->
        CASE n = "lab.web" -> <<"lab", "web">>
          [] n = "web.tls" -> <<"web", "tls">>
          [] n = "web.site" -> <<"web", "site">>
          [] OTHER -> <<n>>]
MCPosition == "lan" :> 1 @@ "web" :> 2 @@ "db" :> 3 @@ "lab" :> 4 @@ "lab.web" :> 5
=============================================================================
