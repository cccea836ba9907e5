------------------------------- MODULE MCCli -------------------------------
(* Model checking of Cli: every line of up to MaxArgs tokens.             *)
EXTENDS Cli

\* Words that can be a country, a year and a format; flags that take a value
\* and flags that take none, given in both forms; one that no handler has; "--".
MCToken == {Plain("PL"), Plain("2025"), Plain("csv"), Plain("--"), Bare("json"), Bare("csv"),
            Bare("lang"), Bare("region"), Bare("bogus"),
            Assigned("json", "false"), Assigned("format", "csv")}
=============================================================================
