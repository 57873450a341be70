---- MODULE MCSandboxVerification ----
\* A server start and the operator's verification, one command, and an update of the backend.
EXTENDS SandboxVerification

CONSTANTS s1, s2, l1, b1, b2

MCStarters == {s1, s2}
MCForced == {s2}
MCLaunches == {l1}
MCCasts == {MCStarters, {s2, l1}}
MCBackends == {b1, b2}
====
