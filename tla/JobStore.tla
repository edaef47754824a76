------------------------------ MODULE JobStore ------------------------------
(***************************************************************************)
(* The rows of a job store and what each call of the store contract does   *)
(* to one of them: job/contract.zig, as job/table.zig answers it in SQL    *)
(* and job/memory.zig answers it under a lock.  Constant level: a          *)
(* specification that EXTENDS this module owns the rows.                   *)
(***************************************************************************)
EXTENDS Integers

CONSTANTS
    Ids,        \* the row ids a bounded instance may use
    Kinds,      \* the kinds the program declares
    Keys,       \* the unique keys a push may carry
    NoKey,      \* unique_key = NULL, and the key of a push without `.unique`
    NoKind,     \* the kind of a row that is not there
    Priority    \* Priority[k]: 0 is high, 1 normal, 2 low

ASSUME StoreAssumption ==
    /\ NoKey \notin Keys
    /\ NoKind \notin Kinds
    /\ Priority \in [Kinds -> 0..2]

States == {"absent", "queued", "running", "done", "dead"}

(* A row, without the payload, the error text and the timestamps no call   *)
(* decides by.  "absent" is an id nothing was inserted under, or whose row *)
(* was deleted.                                                            *)
Row == [state : States, kind : Kinds \cup {NoKind}, key : Keys \cup {NoKey},
        run_at : Nat, lease_until : Nat, attempts : Nat]

Absent == [state |-> "absent", kind |-> NoKind, key |-> NoKey,
           run_at |-> 0, lease_until |-> 0, attempts |-> 0]

Live(r) == r.state \in {"queued", "running"}

-----------------------------------------------------------------------------
(* push: the unique index on (kind, unique_key) is what refuses a second   *)
(* row; NULLs do not collide.                                              *)

Queued(k, u, at) ==
    [state |-> "queued", kind |-> k, key |-> u,
     run_at |-> at, lease_until |-> 0, attempts |-> 0]

KeyTaken(rows, k, u) ==
    u # NoKey /\ \E i \in Ids : rows[i].kind = k /\ rows[i].key = u

(* claim: the most urgent due row, or a running one whose lease is over.   *)

DueWhileLeased(r, now) ==
    r.run_at <= now /\ r.state \in {"queued", "running"}
DueOnce(r, now) == r.state = "queued" /\ r.run_at <= now
Due(r, now) ==
    \/ r.state = "queued" /\ r.run_at <= now
    \/ r.state = "running" /\ r.lease_until <= now

MoreUrgent(r, s) ==
    \/ Priority[r.kind] < Priority[s.kind]
    \/ Priority[r.kind] = Priority[s.kind] /\ r.run_at < s.run_at

(* SQL leaves the order among equals to the database, so any of the first  *)
(* may be the one.                                                         *)
MostUrgent(rows, S) == {i \in S : \A j \in S : ~MoreUrgent(rows[j], rows[i])}

Claimed(r, until) ==
    [r EXCEPT !.state = "running", !.lease_until = until, !.attempts = @ + 1]

(* The fence the calls about a held row carry: still running, still at the *)
(* attempt the claim answered.                                             *)
HeldByAny(r, attempts) == r.state = "running" /\ attempts > 0
Held(r, attempts) == r.state = "running" /\ r.attempts = attempts

DoneKeyed(r) == [r EXCEPT !.state = "done", !.lease_until = 0]
Done(r) == [r EXCEPT !.state = "done", !.lease_until = 0, !.key = NoKey]

Retried(r, at) == [r EXCEPT !.state = "queued", !.lease_until = 0, !.run_at = at]

Dead(r) == [r EXCEPT !.state = "dead", !.lease_until = 0, !.key = NoKey]

Unkeyed(r) == [r EXCEPT !.key = NoKey]

Released(r) ==
    [r EXCEPT !.state = "queued", !.lease_until = 0, !.attempts = @ - 1]

Revived(r, now) == [r EXCEPT !.state = "queued", !.run_at = now, !.attempts = 0]
=============================================================================
