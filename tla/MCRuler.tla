-------------------------------- MODULE MCRuler --------------------------------
(***************************************************************************)
(* Rulers and rule files for RulerRules: one ruler among three sources,    *)
(* the same with a selector of its own, and two rulers in one namespace.   *)
(***************************************************************************)
EXTENDS RulerRules, TLC

File(key, place, size, rules) ==
    [key |-> key, place |-> place, size |-> size, rules |-> rules, label |-> {}, matcher |-> {}]
RuleConfigMap(name, labels, files) == Object("ConfigMap", name, labels, [data |-> files])
PrometheusRule(name, labels, file) == Object("PrometheusRule", name, labels, [data |-> {file}])

Rule  == DefaultRuleLabels
Of(tenant) == DefaultRuleLabels @@ Label("tenant", tenant)

\* Names are placed "a-x" < "b" < "b-x" < "c-x".
A(size)  == RuleConfigMap(<<"a">>, Rule, {File(<<"x">>, 1, size, "r")})
B(labels, size, rules) == RuleConfigMap(<<"b">>, labels, {File(<<"x">>, 3, size, rules)})
P(labels, size) == PrometheusRule(<<"b">>, labels, File(<<>>, 2, size, "r"))
C == RuleConfigMap(<<"c">>, Rule, {File(<<"x">>, 4, 1, "r")})

RuleSourceForms ==
    {A(1), A(2), B(Rule, 1, "r"), B(Of(Value("t")), 1, "r"), B(Of(Value("t")), 2, Clashing),
     B(Rule, 1, Garbage), B(Of(EmptyValue), 1, "r"), B(NoLabels, 1, "r"),
     RuleConfigMap(<<"b">>, Rule, {File(<<"x">>, 3, 1, "r"), File(<<"y">>, 5, 1, "r")}),
     P(Rule, 1), P(Of(Value("u")), 1), P(Of(Value("u")), 2), P(Rule, 3), C}

Spec1 == [ruleConfigSelector |-> [kind |-> "labels", match |-> Rule], tenancy |-> {}]
Tenanted == [Spec1 EXCEPT !.tenancy = {[specifier |-> "tenant", identifier |-> "tenant_id"]}]

OneRuler  == <<"r">> :> {Spec1, Tenanted}
\* A ruler whose selector gives the label of rule files another value.
OtherValue == <<"r">> :> {[Spec1 EXCEPT !.ruleConfigSelector.match =
                             Label("prometheus-rule", Value("other"))]}
TwoRulers == (<<"r">> :> {Spec1}) @@ (<<"s">> :> {Spec1})
Everything == {"edit", "spec", "loss", "restart", "failure"}
EditsOnly  == {"edit"}
=============================================================================
