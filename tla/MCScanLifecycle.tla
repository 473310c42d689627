-------------------------- MODULE MCScanLifecycle --------------------------
\* Small instances of ScanLifecycle for TLC.  No symmetry: both configurations
\* check liveness.
EXTENDS ScanLifecycle

\* A process may be started with settings that scan_policy() accepts or not.
AnySettings == BOOLEAN
============================================================================
