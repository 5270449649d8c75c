---------------------------- MODULE MCGovernance ----------------------------
(* A small instance of Governance for TLC: one operation with an approval, *)
(* a deny and an allow that conditions tell apart, and a sibling domain    *)
(* with a limit.                                                           *)
EXTENDS Governance
CONSTANTS run, exec, tokens, level, stop, r1, alice

Compare(op, v) == [node |-> "comparison", fact |-> level, op |-> op, value |-> v]
Upto == Compare("lte", 1)
From == Compare("gte", 1)
Within == [node |-> "boolean", op |-> "and", operands |-> <<Upto, [node |-> "set", fact |-> level, op |-> "in", values |-> {1, 2}]>>]
Nodes == {Upto, From, Within, Within.operands[2]}

Rule(id, domain, selector, kind, value, cond) ==
  [id |-> id, domain |-> domain, operation |-> run, selector |-> selector,
   kind |-> kind, value |-> value, cond |-> cond, final |-> FALSE]
Document(scope, name, rules) == [scope |-> scope, name |-> name, vocabulary |-> 1, rules |-> rules]

Ceiling == Rule(9, tokens, AnyResource, "LIMIT", 5, Within)
Base == Document("system", 1, {Rule(1, exec, AnyResource, "REQUIRE_APPROVAL", None, NoCondition), Ceiling})
Split == Document("user", 1, {Rule(1, exec, 1, "DENY", None, From), Rule(2, exec, AnyResource, "ALLOW", None, Upto)})
Docs == {Base, Split}
Terms(v, ops) == [version |-> v, domains |-> {exec, tokens}, facts |-> {level},
                  operations |-> {<<exec, run>>, <<tokens, run>>} \cup ops]
Words == {Terms(1, {}), Terms(2, {<<exec, stop>>})}

Ask(r, v) == [request |-> r, principal |-> alice, domain |-> exec, operation |-> run, resource |-> 1,
              facts |-> [f \in {level} |-> v]]
Asks == {Ask(r1, 1)}
Everyone == [r \in Requests |-> alice]
=============================================================================
