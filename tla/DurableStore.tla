---------------------------- MODULE DurableStore ----------------------------
(***************************************************************************)
(* What the directory promises a client about its writes, with no WAL, no  *)
(* checkpoint and no counter in sight: committed changes form one log, a   *)
(* reader sees a prefix of it, an acknowledgement covers a prefix of it,   *)
(* and a crash may cut the log only behind what was acknowledged.          *)
(***************************************************************************)
EXTENDS Naturals, Sequences

CONSTANT Change          \* the change sets a client may commit

VARIABLES
    log,      \* every change committed and not lost, in commit order
    visible,  \* readers see the effect of the first `visible` changes
    acked,    \* the first `acked` changes were acknowledged
    up        \* whether the store serves requests

vars == <<log, visible, acked, up>>

TypeOK ==
    /\ log \in Seq(Change)
    /\ visible \in 0..Len(log)
    /\ acked \in 0..Len(log)
    /\ up \in BOOLEAN

Init ==
    /\ log = <<>>
    /\ visible = 0
    /\ acked = 0
    /\ up = FALSE

Commit ==
    /\ up
    /\ \E change \in Change : log' = Append(log, change)
    /\ UNCHANGED <<visible, acked, up>>

Show ==
    /\ up
    /\ visible < Len(log)
    /\ visible' = visible + 1
    /\ UNCHANGED <<log, acked, up>>

Acknowledge ==
    /\ up
    /\ acked' \in acked + 1 .. visible
    /\ UNCHANGED <<log, visible, up>>

(* A crash forgets a suffix nobody was told about, and what readers saw.   *)
Crash ==
    /\ \E kept \in acked .. Len(log) : log' = SubSeq(log, 1, kept)
    /\ visible' = 0
    /\ up' = FALSE
    /\ UNCHANGED acked

(* A restart serves every change that was kept, not only the acknowledged. *)
Restart ==
    /\ ~up
    /\ up' = TRUE
    /\ visible' = Len(log)
    /\ UNCHANGED <<log, acked>>

Next == Commit \/ Show \/ Acknowledge \/ Crash \/ Restart

Spec == Init /\ [][Next]_vars

=============================================================================
