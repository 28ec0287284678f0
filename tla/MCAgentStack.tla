----------------------------- MODULE MCAgentStack -----------------------------
(* The small instance of AgentStack that TLC checks. *)
EXTENDS AgentStack, TLC

\* Agents either drive the two system-suite verbs over the test stack, or every other verb.
MCVerbGroups ==
    {{"run_system_tests", "seed_dump"},
     {"down", "restart", "build", "up", "tools", "test_build", "test_up", "migrate",
      "migrate_status", "ps", "logs", "db_tables", "http_get"}}

StackSymmetry == Permutations(Gens) \cup Permutations(Versions)
=============================================================================
