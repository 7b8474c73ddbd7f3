------------------------------- MODULE Vault -------------------------------
(***************************************************************************)
(* What the store promises its users, without files, requests or failures: *)
(* documents with attachments.  A document is created once, may be         *)
(* replaced while it exists and, once dropped, never comes back.  An       *)
(* attachment belongs to the document it was attached to until it is       *)
(* detached or the document is dropped, and is never attached again, to    *)
(* that document or to another.                                            *)
(***************************************************************************)
CONSTANTS RecordId, AttId, Blob, None

VARIABLES doc,    \* id -> content, None where there is no document
          owner,  \* attachment -> its document, None where it has none
          dead,   \* documents that were dropped
          spent   \* attachments that can no longer be attached

vars == <<doc, owner, dead, spent>>

Attached == {a \in AttId : owner[a] # None}

Init ==
    /\ doc = [r \in RecordId |-> None]
    /\ owner = [a \in AttId |-> None]
    /\ dead = {}
    /\ spent = {}

\* An upload may be given up at any time; what was given up stays so.
Spend(S) == spent \union S \subseteq spent' /\ spent' \subseteq AttId

Create(r) ==
    /\ doc[r] = None /\ r \notin dead
    /\ \E b \in Blob : doc' = [doc EXCEPT ![r] = b]
    /\ Spend({})
    /\ UNCHANGED <<owner, dead>>

Replace(r) ==
    /\ doc[r] # None
    /\ \E b \in Blob : doc' = [doc EXCEPT ![r] = b]
    /\ Spend({})
    /\ UNCHANGED <<owner, dead>>

Drop(r) ==
    LET mine == {a \in AttId : owner[a] = r} IN
    /\ doc[r] # None
    /\ doc' = [doc EXCEPT ![r] = None]
    /\ owner' = [a \in AttId |-> IF a \in mine THEN None ELSE owner[a]]
    /\ dead' = dead \union {r}
    /\ Spend(mine)

Attach(r, a) ==
    /\ doc[r] # None
    /\ a \notin spent /\ owner[a] = None
    /\ owner' = [owner EXCEPT ![a] = r]
    /\ Spend({}) /\ a \notin spent'
    /\ UNCHANGED <<doc, dead>>

Detach(a) ==
    /\ owner[a] # None
    /\ owner' = [owner EXCEPT ![a] = None]
    /\ Spend({a})
    /\ UNCHANGED <<doc, dead>>

GiveUp == Spend({}) /\ UNCHANGED <<doc, owner, dead>>

Next ==
    \/ \E r \in RecordId : Create(r) \/ Replace(r) \/ Drop(r)
    \/ \E r \in RecordId, a \in AttId : Attach(r, a)
    \/ \E a \in AttId : Detach(a)
    \/ GiveUp

Spec == Init /\ [][Next]_vars
=============================================================================
