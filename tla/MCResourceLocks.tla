-------------------------- MODULE MCResourceLocks --------------------------
EXTENDS ResourceLocks
Wide == <<0, 0>>
Fs == <<1, 0>>
FsA == <<1, 1>>
Task == <<2, 1>>
MCRequests == {Wide, Fs, FsA, Task}
MCSingle == {{r} : r \in MCRequests}
=============================================================================
