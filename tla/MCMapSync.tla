----------------------------- MODULE MCMapSync ------------------------------
EXTENDS MapSync

\* Everyone writes under Martin; under tipg, where a plan is no different from
\* an MCP paint and a filter's application from a saved layer, those that are.
MCKinds ==
    [b \in Backend |-> IF b = "tipg" THEN {"paint", "mcp", "analysis", "layer"}
                       ELSE {"paint", "mcp", "plan", "analysis", "apply"}]
=============================================================================
