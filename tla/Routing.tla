------------------------------- MODULE Routing -------------------------------
(***************************************************************************)
(* Config::default_agent_for: the agent of the longest configured project  *)
(* path that contains the working directory.  A canonical path is the      *)
(* sequence of its components, the root the empty one; a rule is a path    *)
(* with an agent, and an empty agent is NoAgent.                           *)
(***************************************************************************)
EXTENDS Naturals, Sequences, SequencesExt

CONSTANT NoAgent

\* cwd == P, or cwd begins with P + "/".  For the root that would be "//", with
\* which no path begins.
Covers(path, cwd) == path = cwd \/ (path # <<>> /\ IsStrictPrefix(path, cwd))

\* The size of a path's text, which is not empty even for the root.
Size(path) == Len(path) + 1

NoRule == [size |-> 0, agent |-> NoAgent]

ConsiderLast(cwd, best, rule) ==
    IF Covers(rule.path, cwd) THEN [size |-> Size(rule.path), agent |-> rule.agent] ELSE best
\* One turn of the loop: a strictly longer path that contains cwd is better.
Consider(cwd, best, rule) ==
    IF Covers(rule.path, cwd) /\ Size(rule.path) > best.size
    THEN [size |-> Size(rule.path), agent |-> rule.agent] ELSE best

\* The best rule after each turn of the loop.
Bests(rules, cwd) ==
    LET best[k \in 0..Len(rules)] ==
            IF k = 0 THEN NoRule ELSE Consider(cwd, best[k - 1], rules[k])
    IN best

DefaultAgentFor(rules, cwd) == Bests(rules, cwd)[Len(rules)].agent

-----------------------------------------------------------------------------

\* The rule that decides, by definition: the first of the longest that match.
Decides(rules, cwd, k) ==
    /\ Covers(rules[k].path, cwd)
    /\ \A j \in DOMAIN rules :
          Covers(rules[j].path, cwd) =>
              /\ Len(rules[j].path) <= Len(rules[k].path)
              /\ j < k => Len(rules[j].path) < Len(rules[k].path)
=============================================================================
