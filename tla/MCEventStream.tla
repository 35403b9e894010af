---- MODULE MCEventStream ----
EXTENDS EventStream, TLC
\* The tabs are interchangeable, but not for the temporal property.
Tabs == Permutations(Clients)
====
