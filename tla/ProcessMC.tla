----------------------------- MODULE ProcessMC -----------------------------
EXTENDS Process
Env(k, n, u, s) == [key |-> k, num |-> n, unit |-> u, sound |-> s]
\* Two keys, a session of two seconds, one that is too long for an integer,
\* and settings that do not parse.
MCSettings == {Env("k1", 1, 2, TRUE), Env("k2", 1, 2, TRUE),
               Env("k1", 5, 2, TRUE), Env("k1", 1, 2, FALSE)}
=============================================================================
