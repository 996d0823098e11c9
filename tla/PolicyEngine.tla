---------------------------- MODULE PolicyEngine ----------------------------
(***************************************************************************)
(* Policy rules (policy/engine.py): conditions over the metrics of one     *)
(* collector, and the report of all rules.  A condition is the sequence of *)
(* the nodes of its syntax tree, each after its operands and the root at   *)
(* the end: [op, args] with the places of the operands,                    *)
(* [op |-> "name", id, args] and [op |-> "const", n, args] with none.      *)
(* Text that does not parse is the empty sequence.  A truth value is the   *)
(* number 1 or 0, as in Python; lists, tuples, dicts, attributes,          *)
(* subscripts, in, is and chains of comparisons are left out, and a        *)
(* quotient is rounded down.                                               *)
(***************************************************************************)
EXTENDS Integers, Sequences, FiniteSets

Number(n) == [kind |-> "number", n |-> n]
Nothing == [kind |-> "none", n |-> 0]
Raises == [kind |-> "raises", n |-> 0]
IsNumber(v) == v.kind = "number"
Truth(p) == Number(IF p THEN 1 ELSE 0)
IsTrue(v) == IsNumber(v) /\ v.n # 0

Allowed == {"name", "const", "not", "neg", "add", "sub", "mul", "div", "mod",
            "and", "or", "==", "!=", "<", "<=", ">", ">="}

(* Mutant of Lookup: what was not measured is zero. *)
LookupZero(context, id) == IF id \in DOMAIN context THEN context[id] ELSE Number(0)

(* A name that is no metric is None, and so is a metric that is null. *)
Lookup(context, id) == IF id \in DOMAIN context THEN context[id] ELSE Nothing

(* A division by zero is zero, whatever is divided; other arithmetic with None raises. *)
Arithmetic(op, a, b) ==
    IF op \in {"div", "mod"} /\ b = Number(0) THEN Number(0)
    ELSE IF ~IsNumber(a) \/ ~IsNumber(b) THEN Raises
    ELSE Number(CASE op = "add" -> a.n + b.n
                  [] op = "sub" -> a.n - b.n
                  [] op = "mul" -> a.n * b.n
                  [] op = "div" -> a.n \div b.n
                  [] op = "mod" -> a.n % b.n)

(* None equals None and is ordered with nothing. *)
Compare(op, a, b) ==
    CASE op = "==" -> a = b
      [] op = "!=" -> a # b
      [] OTHER -> /\ IsNumber(a) /\ IsNumber(b)
                  /\ CASE op = "<" -> a.n < b.n [] op = "<=" -> a.n <= b.n
                       [] op = ">" -> a.n > b.n [] op = ">=" -> a.n >= b.n

(* and, or: the operands in order, up to the first that settles it. *)
Settled(values, truth) ==
    LET stops == {i \in DOMAIN values : values[i] = Raises \/ IsTrue(values[i]) = truth}
    IN  IF stops = {} THEN Truth(~truth)
        ELSE LET first == CHOOSE i \in stops : \A j \in stops : i <= j
             IN  IF values[first] = Raises THEN Raises ELSE Truth(truth)

(* The value of a node whose operands have the values args. *)
EvalNode(node, args, context) ==
    LET a == args[1]
        b == args[2]
    IN  CASE node.op = "const" -> Number(node.n)
          [] node.op = "name" -> Lookup(context, node.id)
          [] node.op = "and" -> Settled(args, FALSE)
          [] node.op = "or" -> Settled(args, TRUE)
          [] node.op \notin {"const", "name", "and", "or"} /\ Raises \in {args[i] : i \in DOMAIN args} -> Raises
          [] node.op = "not" /\ a # Raises -> Truth(~IsTrue(a))
          [] node.op = "neg" /\ a # Raises -> IF IsNumber(a) THEN Number(-a.n) ELSE Raises
          [] node.op \in {"add", "sub", "mul", "div", "mod"} /\ Raises \notin {a, b} -> Arithmetic(node.op, a, b)
          [] node.op \in {"==", "!=", "<", "<=", ">", ">="} /\ Raises \notin {a, b} ->
                Truth(Compare(node.op, a, b))

Values(condition, context) ==
    LET value[i \in DOMAIN condition] ==
            EvalNode(condition[i], [k \in DOMAIN condition[i].args |-> value[condition[i].args[k]]], context)
    IN  value

Names(condition) == {condition[i].id : i \in {j \in DOMAIN condition : condition[j].op = "name"}}

(* What does not parse, and what has another node (a call, a lambda), is refused as a whole. *)
EvaluateExpression(condition, context) ==
    IF condition # << >> /\ {condition[i].op : i \in DOMAIN condition} \subseteq Allowed
    THEN Values(condition, context)[Len(condition)] ELSE Raises

-----------------------------------------------------------------------------
Const(n) == [op |-> "const", n |-> n, args |-> << >>]
Name(id) == [op |-> "name", id |-> id, args |-> << >>]
Cmp(id, op, n) == <<Name(id), Const(n), [op |-> op, args |-> <<1, 2>>]>>
Both(id, op, n, other, op2, n2) ==
    <<Name(id), Const(n), [op |-> op, args |-> <<1, 2>>],
      Name(other), Const(n2), [op |-> op2, args |-> <<4, 5>>],
      [op |-> "and", args |-> <<3, 6>>]>>

PolicyRule(target, severity, condition) ==
    [target |-> target, severity |-> severity, condition |-> condition, enabled |-> TRUE]

(* DEFAULT_ENTERPRISE_RULES, by rule_id. *)
DefaultEnterpriseRules ==
    [IAM1 |-> PolicyRule("iam_access_review", "CRITICAL", Cmp("mfa_enforced_percentage", ">=", 100)),
     IAM2 |-> PolicyRule("iam_access_review", "HIGH", Cmp("orphaned_accounts", "==", 0)),
     IAM3 |-> PolicyRule("iam_access_review", "MEDIUM", Cmp("review_days", "<=", 90)),
     LOG1 |-> PolicyRule("log_aggregator", "CRITICAL",
                  Both("log_streams", ">=", 1, "completeness", ">=", 95)),
     LOG2 |-> PolicyRule("log_aggregator", "HIGH", Cmp("retention_days", ">=", 365)),
     NET1 |-> PolicyRule("config_drift", "CRITICAL", Cmp("open_sgs", "==", 0)),
     CRY1 |-> PolicyRule("encryption_status", "CRITICAL",
                  Both("unencrypted_stores", "==", 0, "at_rest_pct", ">=", 100)),
     CRY2 |-> PolicyRule("encryption_status", "HIGH", Cmp("transit_pct", ">=", 100)),
     VCS1 |-> PolicyRule("github_vcs", "CRITICAL",
                  Both("branch_protection_enforced", "==", 1, "required_approvals", ">=", 1)),
     VCS2 |-> PolicyRule("github_vcs", "HIGH", Cmp("critical_vulnerabilities", "==", 0)),
     RES1 |-> PolicyRule("resilience_testing", "HIGH", Cmp("success_24h", ">=", 1)),
     RES2 |-> PolicyRule("resilience_testing", "HIGH", Cmp("restore_tested_90d", "==", 1))]

-----------------------------------------------------------------------------
(***************************************************************************)
(* load_rules_from_file: content lists pairs <<rule_id, rule>>, and        *)
(* "broken" for an item no rule can be made of.  The rules before it are   *)
(* registered, and the answer is that none was.                            *)
(***************************************************************************)
LoadRulesFromFile(rules, content) ==
    LET bad   == {i \in DOMAIN content : content[i][1] = "broken"}
        upto  == IF bad = {} THEN Len(content) ELSE (CHOOSE i \in bad : \A j \in bad : i <= j) - 1
        newest(id) == CHOOSE i \in 1..upto : /\ content[i][1] = id
                                             /\ \A j \in 1..upto : content[j][1] = id => j <= i
        loaded == {content[i][1] : i \in 1..upto}
    IN  [rules |-> [id \in loaded \cup DOMAIN rules |->
                       IF id \in loaded THEN content[newest(id)][2] ELSE rules[id]],
         count |-> IF bad = {} THEN upto ELSE 0]

(***************************************************************************)
(* PolicyEngine.evaluate, for data collector |-> [control_id, metrics]: a  *)
(* rule finds its metrics under the collector's name or its control.       *)
(***************************************************************************)
MetricsByTarget(data) ==
    [t \in DOMAIN data \cup {data[c].control_id : c \in DOMAIN data} |->
        IF t \in DOMAIN data THEN data[t].metrics
        ELSE data[CHOOSE c \in DOMAIN data : data[c].control_id = t].metrics]

RuleStatus(rule, metrics) ==
    IF rule.target \notin DOMAIN metrics THEN "SKIPPED"
    ELSE LET v == EvaluateExpression(rule.condition, metrics[rule.target])
         IN  IF v = Raises THEN "ERROR" ELSE IF IsTrue(v) THEN "PASS" ELSE "FAIL"

EvaluateRules(rules, data) ==
    LET metrics  == MetricsByTarget(data)
        results  == [id \in {r \in DOMAIN rules : rules[r].enabled} |->
                        RuleStatus(rules[id], metrics)]
        With(S)  == {id \in DOMAIN results : results[id] \in S}
        passed   == Cardinality(With({"PASS"}))
        failed   == Cardinality(With({"FAIL", "ERROR"}))
    IN  [results |-> results, passed |-> failed = 0, violations |-> With({"FAIL"}),
         skipped |-> With({"SKIPPED"}),
         critical |-> {id \in With({"FAIL"}) : rules[id].severity = "CRITICAL"},
         score |-> IF passed + failed = 0 THEN 0 ELSE (1000 * passed) \div (passed + failed)]

(* sentinel policy evaluate: the exit code, and the outcome the dashboard emits. *)
PolicyExit(report) == IF report.passed THEN 0 ELSE 1
=============================================================================
