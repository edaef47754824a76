----------------------------- MODULE Idempotent -----------------------------
(***************************************************************************)
(* Requests that carry one Idempotency-Key (http/typed.zig wrap,           *)
(* idempotentBegin and idempotentFinish, over http/idempotent.zig) and the *)
(* row the answers are kept in, shared by the instances (sql/replays.zig). *)
(*                                                                         *)
(* A request claims the key with a marker that lives MarkerTtl, runs the   *)
(* handler and puts the answer over the marker, or frees the key when it   *)
(* fails.  One that finds the key taken reads what is there.  Each action  *)
(* is one statement on the row with what the request does before its next  *)
(* one; the claim is two, and the clock they go by is read before both, so *)
(* it may be behind by the time they land.  A statement can fail, having   *)
(* landed or not, and a process can die between any two.  The refusals     *)
(* before the claim (no key, a key too long) touch nothing and are left    *)
(* out.                                                                    *)
(***************************************************************************)
EXTENDS Integers, FiniteSets

CONSTANTS
    Requests,   \* the requests that carry the key
    Body,       \* what each of them asks, as its fingerprint tells it
    Nobody,     \* not a request
    MarkerTtl,  \* marker_ttl_s
    AnswerTtl,  \* the store's ttl_s
    MaxNow,     \* bound: the last instant
    Failing     \* whether statements fail and processes die

ASSUME IdempotentAssumption ==
    /\ IsFiniteSet(Requests)
    /\ Nobody \notin Requests
    /\ MarkerTtl \in Nat \ {0}
    /\ AnswerTtl \in Nat \ {0}
    /\ MaxNow \in Nat
    /\ Failing \in BOOLEAN

VARIABLES
    now,        \* nowMicros, the same for every instance
    row,        \* the row of the key
    pc,         \* where each request is
    asked,      \* putIfAbsentFor's `now`
    until,      \* when the marker of a request that won the claim runs out
    placed,     \* idempotentFinish's `placed`
    heard,      \* what the client was told
    source,     \* history: whose answer a replay was
    cut,        \* history: the requests that died or lost the store
    slips       \* history: the ways requests got out of step, see Slips

vars == <<now, row, pc, asked, until, placed, heard, source, cut, slips>>

Fingerprints == {Body[r] : r \in Requests}

Free == [kind |-> "free", by |-> Nobody, print |-> Nobody, until |-> 0]

Records ==
    {Free} \cup [kind : {"in_flight", "answer"}, by : Requests,
                 print : Fingerprints, until : Nat]

Replies == {"nothing", "503", "409", "422", "failure", "answer", "replay", "cut off"}

(* The ways a request can act on a key that is not its own: it works with  *)
(* no claim, it works after its marker ran out, or it frees the key twice. *)
Slips == {"unclaimed", "late", "twice"}

Live == row.kind # "free" /\ row.until > now

(* The requests between a won claim, or a read that found nothing, and the *)
(* end of their handler.                                                   *)
Working == {r \in Requests : pc[r] \in {"arguments", "handler"}}

TypeOK ==
    /\ now \in 0..MaxNow
    /\ row \in Records
    /\ pc \in [Requests -> {"new", "claiming", "taken", "lost", "arguments", "handler", "sending", "done"}]
    /\ asked \in [Requests -> 0..MaxNow]
    /\ until \in [Requests -> Nat]
    /\ placed \in [Requests -> BOOLEAN]
    /\ heard \in [Requests -> Replies]
    /\ source \in [Requests -> Requests \cup {Nobody}]
    /\ cut \in SUBSET Requests
    /\ slips \in SUBSET Slips

Init ==
    /\ now = 0
    /\ row = Free
    /\ pc = [r \in Requests |-> "new"]
    /\ asked = [r \in Requests |-> 0]
    /\ until = [r \in Requests |-> 0]
    /\ placed = [r \in Requests |-> FALSE]
    /\ heard = [r \in Requests |-> "nothing"]
    /\ source = [r \in Requests |-> Nobody]
    /\ cut = {}
    /\ slips = {}

-----------------------------------------------------------------------------

Goto(r, where) == pc' = [pc EXCEPT ![r] = where]

(* The request is over, its client was told `reply`, its claim is no more. *)
Reply(r, reply) ==
    /\ Goto(r, "done")
    /\ heard' = [heard EXCEPT ![r] = reply]
    /\ asked' = [asked EXCEPT ![r] = 0]
    /\ until' = [until EXCEPT ![r] = 0]

Marker(r, since) ==
    [kind |-> "in_flight", by |-> r, print |-> Body[r], until |-> since + MarkerTtl]

Answer(r) ==
    [kind |-> "answer", by |-> r, print |-> Body[r], until |-> now + AnswerTtl]

(* putIfAbsentFor reads the clock.                                         *)
Ask(r) ==
    /\ pc[r] = "new"
    /\ asked' = [asked EXCEPT ![r] = now]
    /\ Goto(r, "claiming")
    /\ UNCHANGED <<now, row, until, placed, heard, source, cut, slips>>

(* The request holds the key, by a marker that may have run out already.   *)
Wins(r) ==
    /\ row' = Marker(r, asked[r])
    /\ until' = [until EXCEPT ![r] = Marker(r, asked[r]).until]
    /\ slips' = slips \cup IF row'.until <= now THEN {"late"} ELSE {}
    /\ Goto(r, "arguments")

(* INSERT ... ON CONFLICT DO NOTHING: any row, run out or not, conflicts.  *)
Insert(r) ==
    /\ pc[r] = "claiming"
    /\ \/ row.kind = "free" /\ Wins(r)
       \/ /\ row.kind # "free"
          /\ Goto(r, "taken")
          /\ UNCHANGED <<row, until, slips>>
    /\ UNCHANGED <<now, asked, placed, heard, source, cut>>

(* UPDATE ... WHERE expires_at <= now, with the `now` of the insert.       *)
TakeOverAny(r) ==
    /\ pc[r] = "taken"
    /\ row' = Marker(r, asked[r])
    /\ until' = [until EXCEPT ![r] = Marker(r, asked[r]).until]
    /\ Goto(r, "arguments")
    /\ UNCHANGED <<now, asked, placed, heard, source, cut, slips>>
TakeOver(r) ==
    /\ pc[r] = "taken"
    /\ \/ row.kind # "free" /\ row.until <= asked[r] /\ Wins(r)
       \/ /\ row.kind = "free" \/ row.until > asked[r]
          /\ Goto(r, "lost")
          /\ UNCHANGED <<row, until, slips>>
    /\ UNCHANGED <<now, asked, placed, heard, source, cut>>

(* The claim could not be taken, as far as this request can tell: 503.     *)
ClaimFails(r) ==
    /\ Failing
    /\ pc[r] \in {"claiming", "taken"}
    /\ \/ UNCHANGED row
       \/ pc[r] = "claiming" /\ row.kind = "free" /\ row' = Marker(r, asked[r])
       \/ pc[r] = "taken" /\ row.kind # "free" /\ row.until <= asked[r] /\ row' = Marker(r, asked[r])
    /\ cut' = cut \cup {r}
    /\ Reply(r, "503")
    /\ UNCHANGED <<now, placed, source, slips>>

(* Somebody was first: what the row says decides.  Nothing there any more  *)
(* and this request goes on as the first, with no claim.  A row that does  *)
(* not decode would be the same slip, but only encode writes rows.         *)
ReadUnchecked(r) ==
    /\ pc[r] = "lost"
    /\ \/ /\ ~Live
          /\ slips' = slips \cup {"unclaimed"}
          /\ Goto(r, "arguments")
          /\ UNCHANGED <<heard, source, asked, until>>
       \/ /\ Live
          /\ \/ row.kind = "in_flight" /\ Reply(r, "409") /\ UNCHANGED source
             \/ row.kind = "answer" /\ Reply(r, "replay") /\ source' = [source EXCEPT ![r] = row.by]
          /\ UNCHANGED slips
    /\ UNCHANGED <<now, row, placed, cut>>
Read(r) ==
    /\ pc[r] = "lost"
    /\ \/ /\ ~Live
          /\ slips' = slips \cup {"unclaimed"}
          /\ Goto(r, "arguments")
          /\ UNCHANGED <<heard, source, asked, until>>
       \/ /\ Live
          /\ \/ row.print # Body[r] /\ Reply(r, "422") /\ UNCHANGED source
             \/ row.print = Body[r] /\ row.kind = "in_flight" /\ Reply(r, "409") /\ UNCHANGED source
             \/ /\ row.print = Body[r] /\ row.kind = "answer"
                /\ Reply(r, "replay")
                /\ source' = [source EXCEPT ![r] = row.by]
          /\ UNCHANGED slips
    /\ UNCHANGED <<now, row, placed, cut>>

ReadFails(r) ==
    /\ Failing
    /\ pc[r] = "lost"
    /\ cut' = cut \cup {r}
    /\ Reply(r, "503")
    /\ UNCHANGED <<now, row, placed, source, slips>>

(* Every argument was read, and the handler runs.                          *)
Call(r) ==
    /\ pc[r] = "arguments"
    /\ Goto(r, "handler")
    /\ UNCHANGED <<now, row, asked, until, placed, heard, source, cut, slips>>

(* release: the key is freed, whoever's it is, or the store is away and    *)
(* the failure is only logged.                                             *)
Release(r) ==
    \/ row' = Free /\ UNCHANGED cut
    \/ Failing /\ UNCHANGED row /\ cut' = cut \cup {r}

(* The errdefer of wrap's reads, and of idempotentFinish: an argument that *)
(* does not read, or a handler, a rendering or a check of the headers that *)
(* fails.                                                                  *)
Fail(r) ==
    /\ r \in Working
    /\ Release(r)
    /\ Reply(r, "failure")
    /\ UNCHANGED <<now, placed, source, slips>>

(* encode: more headers than a record holds.  The key is freed with        *)
(* `placed` still false.                                                   *)
TooManyHeaders(r) ==
    /\ pc[r] = "handler"
    /\ Release(r)
    /\ Goto(r, "sending")
    /\ UNCHANGED <<now, asked, until, placed, heard, source, slips>>

(* keep: the answer over whatever is there; a store that fails leaves the  *)
(* marker where it is, as far as this request can tell.                    *)
Keep(r) ==
    /\ pc[r] = "handler"
    /\ \/ row' = Answer(r) /\ UNCHANGED cut
       \/ Failing /\ row' \in {row, Answer(r)} /\ cut' = cut \cup {r}
    /\ placed' = [placed EXCEPT ![r] = TRUE]
    /\ Goto(r, "sending")
    /\ UNCHANGED <<now, asked, until, heard, source, slips>>

(* keep: an answer larger than the store takes is sent and not kept.       *)
TooLargeUnreleased(r) ==
    /\ pc[r] = "handler"
    /\ placed' = [placed EXCEPT ![r] = TRUE]
    /\ Goto(r, "sending")
    /\ UNCHANGED <<now, row, asked, until, heard, source, cut, slips>>
TooLarge(r) ==
    /\ pc[r] = "handler"
    /\ Release(r)
    /\ placed' = [placed EXCEPT ![r] = TRUE]
    /\ Goto(r, "sending")
    /\ UNCHANGED <<now, asked, until, heard, source, slips>>

(* sendRendered, which waits on the client and may find it gone.           *)
Send(r) ==
    /\ pc[r] = "sending"
    /\ Reply(r, "answer")
    /\ UNCHANGED <<now, row, placed, source, cut, slips>>

SendFailsUnplaced(r) ==
    /\ pc[r] = "sending"
    /\ Release(r)
    /\ Reply(r, "cut off")
    /\ UNCHANGED <<now, placed, source, slips>>
SendFails(r) ==
    /\ pc[r] = "sending"
    /\ \/ placed[r] /\ UNCHANGED <<row, cut, slips>>
       \/ ~placed[r] /\ Release(r) /\ slips' = slips \cup {"twice"}
    /\ Reply(r, "cut off")
    /\ UNCHANGED <<now, placed, source>>

(* The process of r dies.                                                  *)
Die(r) ==
    /\ Failing
    /\ pc[r] \notin {"new", "done"}
    /\ cut' = cut \cup {r}
    /\ Reply(r, "cut off")
    /\ UNCHANGED <<now, row, placed, source, slips>>

(* sweep, from a job of the program's own.                                 *)
Sweep ==
    /\ row.kind # "free" /\ row.until < now
    /\ row' = Free
    /\ UNCHANGED <<now, pc, asked, until, placed, heard, source, cut, slips>>

Tick ==
    /\ now < MaxNow
    /\ now' = now + 1
    /\ slips' = slips \cup IF \E r \in Working : until[r] <= now' THEN {"late"} ELSE {}
    /\ UNCHANGED <<row, pc, asked, until, placed, heard, source, cut>>

Step(r) ==
    \/ Ask(r)
    \/ Insert(r)
    \/ TakeOver(r)
    \/ ClaimFails(r)
    \/ Read(r)
    \/ ReadFails(r)
    \/ Call(r)
    \/ Fail(r)
    \/ TooManyHeaders(r)
    \/ Keep(r)
    \/ TooLarge(r)
    \/ Send(r)
    \/ SendFails(r)
    \/ Die(r)

Next == Sweep \/ Tick \/ \E r \in Requests : Step(r)

Spec == Init /\ [][Next]_vars

-----------------------------------------------------------------------------

(* What the comment on the claim and ADR 268 say: requests that race for   *)
(* one key get one handler run between them, and never two at once.        *)
OneRunAtATime == Cardinality({r \in Requests : pc[r] = "handler"}) <= 1

(* What the code does keep: as long as nobody got out of step, one request *)
(* works at a time, under a marker of its own that has not run out, and    *)
(* none works while an answer is kept or while the marker of a request     *)
(* that was cut off has time left.                                         *)
OneRunBetweenThem ==
    slips = {} =>
        \A r \in Working : row.kind = "in_flight" /\ row.by = r /\ Live

(* A kept answer stays until it runs out: unless somebody got out of step, *)
(* no failure, retry or late answer frees it or puts another over it.      *)
KeptUntilItExpires ==
    [][slips' = {} /\ row.kind = "answer" /\ Live => row' = row]_vars

(* Whatever went out of step, a replay is the answer a handler gave to the *)
(* same request: one that shares the key and nothing else never gets it.   *)
ReplayIsOfTheSameRequest ==
    \A r \in Requests :
        heard[r] = "replay" =>
            /\ source[r] \in Requests \ {r}
            /\ Body[source[r]] = Body[r]
            /\ placed[source[r]]

(* From the claim on, no request leaves its marker behind: the marker in   *)
(* the row is that of a request still at work, or of one that died or lost *)
(* the store.                                                              *)
NoMarkerLeftBehind ==
    row.kind = "in_flight" => row.by \in Working \cup cut
=============================================================================
