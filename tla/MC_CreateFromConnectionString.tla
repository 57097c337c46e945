------------------- MODULE MC_CreateFromConnectionString -------------------
EXTENDS CreateFromConnectionString

\* HostName values: split into a name and a suffix, or with no '.'.
MCHostVals == {[name |-> n, suffix |-> s] : n \in {"a", "b"}, s \in {"net", NULL}}
=============================================================================
