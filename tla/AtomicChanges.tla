--------------------------- MODULE AtomicChanges ---------------------------
(***************************************************************************)
(* What a file transaction promises, without journals, checkpoints, locks  *)
(* or crashes: one change at a time is under way; it happens to all of its *)
(* files at once or to none, and never once it has been given up; and no   *)
(* file that is not part of it is changed.  A file somebody else changes   *)
(* in the meantime is no longer spoken of, until the next change begins    *)
(* and reads it.  FileTransactions implements this.                        *)
(***************************************************************************)
CONSTANTS Files, Versions

VARIABLES
    known, \* the versions of the files nobody else has changed
    state, \* of the change under way: "none", "open" or "doomed"
    after  \* the versions it is to leave

cvars == <<known, state, after>>

NoChange == state = "none" /\ after = <<>>

ChangeInit ==
    /\ known \in [Files -> Versions]
    /\ NoChange

\* Every file is looked at again.
BeginChange ==
    /\ state = "none" /\ state' = "open"
    /\ DOMAIN known' = Files /\ \A f \in Files : known'[f] \in Versions
    /\ \A f \in DOMAIN known : known'[f] = known[f]
    /\ DOMAIN after' \subseteq Files
    /\ \A f \in DOMAIN after' : after'[f] \in Versions

CommitChange ==
    /\ state = "open" /\ NoChange'
    /\ known' = [f \in DOMAIN known |->
                    IF f \in DOMAIN after THEN after[f] ELSE known[f]]

\* It failed, or whoever was making it died.
GiveUp ==
    /\ state = "open"
    /\ state' = "doomed" /\ UNCHANGED <<known, after>>

AbandonChange ==
    /\ state # "none" /\ NoChange'
    /\ UNCHANGED known

OthersChange(f) ==
    /\ f \in DOMAIN known \ DOMAIN known'
    /\ known' = [g \in DOMAIN known \ {f} |-> known[g]]
    /\ UNCHANGED <<state, after>>

ChangeNext ==
    \/ BeginChange \/ CommitChange \/ GiveUp \/ AbandonChange
    \/ \E f \in Files : OthersChange(f)

ChangeSpec == ChangeInit /\ [][ChangeNext]_cvars

=============================================================================
