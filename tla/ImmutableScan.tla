--------------------------- MODULE ImmutableScan ---------------------------
(***************************************************************************)
(* What the platform promises of a scan: it is created PENDING, runs once, *)
(* and either fails without content or is completed with its whole content *)
(* in one step; after that nothing changes it, and a retry is a new scan.  *)
(***************************************************************************)
CONSTANTS
    Scans,
    Contents        \* the complete contents a scan may be sealed with

VARIABLES
    phase,          \* the status a client can observe
    content         \* what readers of the scan are shown, {} before it is sealed

scanVars == <<phase, content>>

Init ==
    /\ phase = [s \in Scans |-> "ABSENT"]
    /\ content = [s \in Scans |-> {}]

Move(s, from, to) ==
    /\ phase[s] = from
    /\ phase' = [phase EXCEPT ![s] = to]

Create(s)   == Move(s, "ABSENT", "PENDING") /\ UNCHANGED content
Begin(s)    == Move(s, "PENDING", "RUNNING") /\ UNCHANGED content
Fail(s)     == Move(s, "RUNNING", "FAILED") /\ UNCHANGED content
Complete(s) ==
    /\ Move(s, "RUNNING", "COMPLETED")
    /\ \E c \in Contents : content' = [content EXCEPT ![s] = c]

Next == \E s \in Scans : Create(s) \/ Begin(s) \/ Fail(s) \/ Complete(s)

Spec == Init /\ [][Next]_scanVars
============================================================================
