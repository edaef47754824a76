-------------------------------- MODULE Room --------------------------------
(***************************************************************************)
(* A Room (http/room.zig): seats that connections take and give up, and    *)
(* posts that any fiber says to everybody seated.                          *)
(*                                                                         *)
(* A speaker holds the roster's lock for a whole broadcast and each seat's *)
(* lock for one put, so a connection may take from its ring between two    *)
(* puts but not sit or stand.  A post is one counted allocation: the       *)
(* speaker, every ring, the kept posts and whoever is writing it hold a    *)
(* reference each.  A connection drains its seat, parks on its bell, and   *)
(* leaves when a write fails, its client goes or the server stops; an      *)
(* event stream that comes back asks for what was said since the last post *)
(* it saw.  A section under a lock that nobody else can see into is one    *)
(* step.  A post here always has an id, which is what the docs of          *)
(* `history` ask of a room that keeps posts.                               *)
(***************************************************************************)
EXTENDS Integers, Sequences, FiniteSets

CONSTANTS
    Seats,          \* how many seats; they are numbered from 0
    Backlog,        \* how many posts a ring holds
    DropOldest,     \* full = .drop_oldest, else .drop_newest
    History,        \* how many posts are kept
    HistoryBytes,   \* kept_limit
    Conns,          \* clients, each with at most one connection at a time
    Streams,        \* those of them on an event stream, which is text only
    Speakers,       \* fibers that say something
    Nobody,
    MaxPosts,       \* bound: posts said
    Binary,         \* the posts that are binary
    Size,           \* Size[p]: the bytes of a post's block
    MaxSits,        \* bound: seats taken
    MaxCancels      \* bound: speakers cancelled while they want a lock

Index == 0..(Seats - 1)
Posts == 1..MaxPosts

ASSUME RoomAssumption ==
    /\ Seats \in Nat /\ Backlog \in Nat \ {0}
    /\ DropOldest \in BOOLEAN
    /\ History \in Nat /\ HistoryBytes \in Nat
    /\ IsFiniteSet(Conns) /\ IsFiniteSet(Speakers)
    /\ Streams \subseteq Conns /\ Nobody \notin Conns \cup Speakers
    /\ MaxPosts \in Nat /\ MaxSits \in Nat /\ MaxCancels \in Nat
    /\ Binary \subseteq Posts
    /\ Size \in [Posts -> Nat \ {0}]

VARIABLES
    seat,       \* seats: what each Seat holds
    roll,       \* roll
    here,       \* here
    kept,       \* the kept posts, oldest first
    refs,       \* Post.refs of each post, 0 before it is made and once freed
    made,       \* how many posts have been made
    roster,     \* who holds the roster's lock across steps
    talk,       \* where each speaker is, its post and its place on the roll
    conn,       \* where each connection is, its ticket and the posts in its hand
    bell,       \* Wake: notified and not yet waited for
    left,       \* what is left of the bounds
    said,       \* history: the posts in the order they were handed out
    seen,       \* history: the posts each client was given, over all its connections
    since       \* history: how this stay of a client began, and the puts refused it

vars == <<seat, roll, here, kept, refs, made, roster, talk, conn, bell, left, said, seen, since>>

NoTicket == [index |-> 0, era |-> 0]
Quiet == [pc |-> "quiet", post |-> 0, at |-> 0]
Away == [pc |-> "away", ticket |-> NoTicket, hand |-> <<>>]

NoStay == [from |-> 0, sat |-> 0, wrote |-> 0, refused |-> 0]

Chairs == [taken : BOOLEAN, era : Nat, slot : Index, waker : Conns \cup {Nobody},
           text_only : BOOLEAN, ring : Seq(Posts), dropped : Nat]
Talks == [pc : {"quiet", "reserved", "putting", "said"}, post : Posts \cup {0}, at : 0..Seats]
Tickets == [index : 0..Seats, era : Nat]
Places == [pc : {"away", "writing", "parked", "leaving"}, ticket : Tickets, hand : Seq(Posts)]
Stays == [from : Nat, sat : Nat, wrote : Nat, refused : Nat]

TypeOK ==
    /\ seat \in [Index -> Chairs]
    /\ \A s \in Index : Len(seat[s].ring) <= Backlog
    /\ roll \in [Index -> Index]
    /\ here \in 0..Seats
    /\ kept \in Seq(Posts) /\ Len(kept) <= History
    /\ refs \in [Posts -> Nat]
    /\ made \in 0..MaxPosts
    /\ roster \in Speakers \cup {Nobody}
    /\ talk \in [Speakers -> Talks]
    /\ conn \in [Conns -> Places]
    /\ bell \in [Conns -> BOOLEAN]
    /\ left \in [sits : Nat, cancels : Nat]
    /\ said \in Seq(Posts)
    /\ seen \in [Conns -> Seq(Posts)]
    /\ since \in [Conns -> Stays]

Init ==
    /\ seat = [s \in Index |-> [taken |-> FALSE, era |-> 0, slot |-> 0, waker |-> Nobody,
                                text_only |-> FALSE, ring |-> <<>>, dropped |-> 0]]
    /\ roll = [i \in Index |-> i]
    /\ here = 0
    /\ kept = <<>>
    /\ refs = [p \in Posts |-> 0]
    /\ made = 0
    /\ roster = Nobody
    /\ talk = [f \in Speakers |-> Quiet]
    /\ conn = [c \in Conns |-> Away]
    /\ bell = [c \in Conns |-> FALSE]
    /\ left = [sits |-> MaxSits, cancels |-> MaxCancels]
    /\ said = <<>>
    /\ seen = [c \in Conns |-> <<>>]
    /\ since = [c \in Conns |-> NoStay]

-----------------------------------------------------------------------------
(* References.                                                             *)

Has(s, p) == \E i \in DOMAIN s : s[i] = p
Count(s, p) == Cardinality({i \in DOMAIN s : s[i] = p})

(* release, once for each time a post is in s.                             *)
Released(r, s) == [p \in Posts |-> r[p] - Count(s, p)]
Retained(r, s) == [p \in Posts |-> r[p] + Count(s, p)]

First(s, n) == SubSeq(s, 1, n)
From(s, n) == SubSeq(s, n, Len(s))

-----------------------------------------------------------------------------
(* Speaking.                                                               *)

Empty == here = 0 /\ History = 0

(* say, event, ...: nobody here costs nothing; else the post is made, with *)
(* the speaker's own reference.                                            *)
Reserve(f) ==
    /\ talk[f].pc = "quiet" /\ ~Empty
    /\ made < MaxPosts
    /\ made' = made + 1
    /\ refs' = [refs EXCEPT ![made + 1] = 1]
    /\ talk' = [talk EXCEPT ![f] = [pc |-> "reserved", post |-> made + 1, at |-> 0]]
    /\ UNCHANGED <<seat, roll, here, kept, roster, conn, bell, left, said, seen, since>>

(* handOut: the roster's lock, held to the end of the walk.                *)
LockRoster(f) ==
    /\ talk[f].pc = "reserved" /\ roster = Nobody
    /\ roster' = f
    /\ talk' = [talk EXCEPT ![f].pc = "putting"]
    /\ said' = Append(said, talk[f].post)
    /\ UNCHANGED <<seat, roll, here, kept, refs, made, conn, bell, left, seen, since>>

(* A cancelled speaker is refused the lock and its post is freed.          *)
RosterRefused(f) ==
    /\ talk[f].pc = "reserved" /\ left.cancels > 0
    /\ left' = [left EXCEPT !.cancels = @ - 1]
    /\ refs' = Released(refs, <<talk[f].post>>)
    /\ talk' = [talk EXCEPT ![f] = Quiet]
    /\ UNCHANGED <<seat, roll, here, kept, made, roster, conn, bell, said, seen, since>>

(* put: what becomes of seat e given post p, and the posts it lets go.     *)
Unwritable(e, p) == e.text_only /\ p \in Binary
Full(e) == Len(e.ring) = Backlog
PutUncounted(e, p) ==
    IF Unwritable(e, p) \/ (Full(e) /\ ~DropOldest) THEN e
    ELSE IF Full(e) THEN [e EXCEPT !.ring = Append(Tail(@), p)]
    ELSE [e EXCEPT !.ring = Append(@, p)]
Put(e, p) ==
    IF Unwritable(e, p) \/ (Full(e) /\ ~DropOldest) THEN [e EXCEPT !.dropped = @ + 1]
    ELSE IF Full(e) THEN [e EXCEPT !.dropped = @ + 1, !.ring = Append(Tail(@), p)]
    ELSE [e EXCEPT !.ring = Append(@, p)]

PutNext(f) ==
    LET s == roll[talk[f].at]
        e == seat[s]
        p == talk[f].post
        now == Put(e, p)
        pushed == now.ring # e.ring
    IN  /\ talk[f].pc = "putting" /\ talk[f].at < here
        /\ seat' = [seat EXCEPT ![s] = now]
        /\ refs' = IF ~pushed THEN refs
                   ELSE IF Full(e) THEN Released(Retained(refs, <<p>>), <<Head(e.ring)>>)
                   ELSE Retained(refs, <<p>>)
        /\ bell' = IF pushed /\ e.waker # Nobody THEN [bell EXCEPT ![e.waker] = TRUE] ELSE bell
        /\ talk' = [talk EXCEPT ![f].at = @ + 1]
        /\ UNCHANGED <<roll, here, kept, made, roster, conn, left, said, seen, since>>

(* put, by a cancelled speaker that is refused the seat's lock.            *)
PutRefused(f) ==
    LET c == seat[roll[talk[f].at]].waker
    IN  /\ talk[f].pc = "putting" /\ talk[f].at < here /\ left.cancels > 0
        /\ left' = [left EXCEPT !.cancels = @ - 1]
        /\ talk' = [talk EXCEPT ![f].at = @ + 1]
        /\ since' = [since EXCEPT ![c].refused = @ + 1]
        /\ UNCHANGED <<seat, roll, here, kept, refs, made, roster, conn, bell, said, seen>>

(* keep: the newest posts that fit both bounds.                            *)
Bytes(s) ==
    LET sum[n \in 0..Len(s)] == IF n = 0 THEN 0 ELSE sum[n - 1] + Size[s[n]]
    IN  sum[Len(s)]
Keepable(p) == p \notin Binary /\ Size[p] <= HistoryBytes
Trimmed(s) ==
    LET fit == {n \in 1..Len(s) : Len(s) - n < History /\ Bytes(From(s, n)) <= HistoryBytes}
    IN  From(s, CHOOSE n \in fit : \A m \in fit : n <= m)

EndHandOutLocked(f) ==
    LET p == talk[f].post
        all == Append(kept, p)
    IN  /\ talk[f].pc = "putting" /\ talk[f].at = here
        /\ IF History > 0 /\ Keepable(p)
             THEN /\ kept' = Trimmed(all)
                  /\ refs' = Released(Retained(refs, <<p>>), First(all, Len(all) - Len(kept')))
             ELSE UNCHANGED <<kept, refs>>
        /\ talk' = [talk EXCEPT ![f].pc = "said"]
        /\ UNCHANGED <<seat, roll, here, made, roster, conn, bell, left, said, seen, since>>
EndHandOut(f) ==
    LET p == talk[f].post
        all == Append(kept, p)
    IN  /\ talk[f].pc = "putting" /\ talk[f].at = here
        /\ IF History > 0 /\ Keepable(p)
             THEN /\ kept' = Trimmed(all)
                  /\ refs' = Released(Retained(refs, <<p>>), First(all, Len(all) - Len(kept')))
             ELSE UNCHANGED <<kept, refs>>
        /\ roster' = Nobody
        /\ talk' = [talk EXCEPT ![f].pc = "said"]
        /\ UNCHANGED <<seat, roll, here, made, conn, bell, left, said, seen, since>>

(* The speaker's own reference goes.                                       *)
ReleaseOwn(f) ==
    /\ talk[f].pc = "said"
    /\ refs' = Released(refs, <<talk[f].post>>)
    /\ talk' = [talk EXCEPT ![f] = Quiet]
    /\ UNCHANGED <<seat, roll, here, kept, made, roster, conn, bell, left, said, seen, since>>

-----------------------------------------------------------------------------
(* Sitting, draining and standing up.                                      *)

(* Last-Event-ID: the last post that came to a stream's client.            *)
LastId(c) == IF c \in Streams /\ seen[c] # <<>> THEN seen[c][Len(seen[c])] ELSE 0

(* keptAfter: the kept posts after the one with that id.                   *)
KeptFrom(id) ==
    IF Has(kept, id) THEN From(kept, CHOOSE i \in DOMAIN kept : kept[i] = id) ELSE <<>>
KeptAfter(id) ==
    IF Has(kept, id) THEN From(kept, 1 + (CHOOSE i \in DOMAIN kept : kept[i] = id)) ELSE <<>>

Where(s, p) == CHOOSE i \in DOMAIN s : s[i] = p

(* sitAfter: the seat at the front of the roll's free half, and under the  *)
(* same lock the posts this client missed.                                 *)
Sit(c) ==
    LET i == roll[here]
        again == KeptAfter(LastId(c))
    IN  /\ conn[c].pc = "away" /\ roster = Nobody
        /\ left.sits > 0 /\ here < Seats
        /\ seat' = [seat EXCEPT ![i] =
             [taken |-> TRUE, era |-> seat[i].era + 1, slot |-> here, waker |-> c,
              text_only |-> c \in Streams, ring |-> seat[i].ring, dropped |-> 0]]
        /\ here' = here + 1
        /\ conn' = [conn EXCEPT ![c] = [pc |-> "writing", hand |-> again,
                                        ticket |-> [index |-> i, era |-> seat[i].era + 1]]]
        /\ refs' = Retained(refs, again)
        /\ left' = [left EXCEPT !.sits = @ - 1]
        /\ since' = [since EXCEPT ![c] =
             [from |-> IF Has(kept, LastId(c)) THEN Where(said, LastId(c)) ELSE Len(said),
              sat |-> Len(said), wrote |-> Len(seen[c]), refused |-> 0]]
        /\ UNCHANGED <<roll, kept, made, roster, talk, bell, said, seen>>

Mine(c) == seat[conn[c].ticket.index]
StillMine(c) == Mine(c).taken /\ Mine(c).era = conn[c].ticket.era

(* replay, deliver: one post is written and released.                      *)
Write(c) ==
    /\ conn[c].pc = "writing" /\ conn[c].hand # <<>>
    /\ seen' = [seen EXCEPT ![c] = Append(@, Head(conn[c].hand))]
    /\ refs' = Released(refs, <<Head(conn[c].hand)>>)
    /\ conn' = [conn EXCEPT ![c].hand = Tail(@)]
    /\ UNCHANGED <<seat, roll, here, kept, made, roster, talk, bell, left, said, since>>

(* take: the oldest post of the ring; its reference goes with it.          *)
Take(c) ==
    /\ conn[c].pc = "writing" /\ conn[c].hand = <<>>
    /\ StillMine(c) /\ Mine(c).ring # <<>>
    /\ seat' = [seat EXCEPT ![conn[c].ticket.index].ring = Tail(@)]
    /\ conn' = [conn EXCEPT ![c].hand = <<Head(Mine(c).ring)>>]
    /\ UNCHANGED <<roll, here, kept, refs, made, roster, talk, bell, left, said, seen, since>>

(* take answers null, and the connection goes to wait.                     *)
Park(c) ==
    /\ conn[c].pc = "writing" /\ conn[c].hand = <<>>
    /\ Mine(c).ring = <<>>
    /\ conn' = [conn EXCEPT ![c].pc = "parked"]
    /\ UNCHANGED <<seat, roll, here, kept, refs, made, roster, talk, bell, left, said, seen, since>>

(* Waker.wait answers .posted; the next look at the seat follows.          *)
Woken(c) ==
    /\ conn[c].pc = "parked" /\ bell[c]
    /\ bell' = [bell EXCEPT ![c] = FALSE]
    /\ conn' = [conn EXCEPT ![c].pc = "writing"]
    /\ UNCHANGED <<seat, roll, here, kept, refs, made, roster, talk, left, said, seen, since>>

(* Waker.wait answers .timed_out: a keep-alive is written, a socket is     *)
(* pinged, and the seat is looked at again.                                *)
KeepAlive(c) ==
    /\ conn[c].pc = "parked"
    /\ conn' = [conn EXCEPT ![c].pc = "writing"]
    /\ UNCHANGED <<seat, roll, here, kept, refs, made, roster, talk, bell, left, said, seen, since>>

(* What a stream's client has of this stay: the last of what was written   *)
(* may be lost with the connection, and is not in the id it reports back.  *)
Arrives(c) ==
    IF c \in Streams
    THEN \E n \in since[c].wrote..Len(seen[c]) : seen' = [seen EXCEPT ![c] = First(@, n)]
    ELSE UNCHANGED seen

(* The connection ends: what is in its hand is released, unwritten.        *)
GoHolding(c) ==
    /\ conn[c].pc \in {"writing", "parked"}
    /\ conn' = [conn EXCEPT ![c].pc = "leaving", ![c].hand = <<>>]
    /\ Arrives(c)
    /\ UNCHANGED <<seat, roll, here, kept, refs, made, roster, talk, bell, left, said, since>>
Go(c) ==
    /\ conn[c].pc \in {"writing", "parked"}
    /\ refs' = Released(refs, conn[c].hand)
    /\ conn' = [conn EXCEPT ![c].pc = "leaving", ![c].hand = <<>>]
    /\ Arrives(c)
    /\ UNCHANGED <<seat, roll, here, kept, made, roster, talk, bell, left, said, since>>

(* stand, giveUp, drain, giveUpSlot: under the roster's lock the ring is   *)
(* emptied and the seat changes places with the last taken one.            *)
GiveUpUnmoved(c) ==
    LET i == conn[c].ticket.index
        moved == roll[here - 1]
    IN  /\ conn[c].pc = "leaving" /\ roster = Nobody
        /\ StillMine(c)
        /\ refs' = Released(refs, seat[i].ring)
        /\ roll' = [roll EXCEPT ![here - 1] = i, ![seat[i].slot] = moved]
        /\ seat' = [seat EXCEPT ![i].taken = FALSE, ![i].waker = Nobody, ![i].ring = <<>>]
        /\ here' = here - 1
        /\ conn' = [conn EXCEPT ![c] = Away]
        /\ bell' = [bell EXCEPT ![c] = FALSE]
        /\ since' = [since EXCEPT ![c] = NoStay]
        /\ UNCHANGED <<kept, made, roster, talk, left, said, seen>>
GiveUp(c) ==
    LET i == conn[c].ticket.index
        moved == roll[here - 1]
    IN  /\ conn[c].pc = "leaving" /\ roster = Nobody
        /\ StillMine(c)
        /\ refs' = Released(refs, seat[i].ring)
        /\ roll' = [roll EXCEPT ![here - 1] = i, ![seat[i].slot] = moved]
        /\ seat' = [[seat EXCEPT ![i].taken = FALSE, ![i].waker = Nobody, ![i].ring = <<>>]
                      EXCEPT ![moved].slot = seat[i].slot]
        /\ here' = here - 1
        /\ conn' = [conn EXCEPT ![c] = Away]
        /\ bell' = [bell EXCEPT ![c] = FALSE]
        /\ since' = [since EXCEPT ![c] = NoStay]
        /\ UNCHANGED <<kept, made, roster, talk, left, said, seen>>

-----------------------------------------------------------------------------

Speaks(f) ==
    \/ Reserve(f) \/ LockRoster(f) \/ RosterRefused(f) \/ PutNext(f) \/ PutRefused(f)
    \/ EndHandOut(f) \/ ReleaseOwn(f)

Listens(c) ==
    \/ Sit(c) \/ Write(c) \/ Take(c) \/ Park(c) \/ Woken(c) \/ KeepAlive(c) \/ Go(c) \/ GiveUp(c)

Next == (\E f \in Speakers : Speaks(f)) \/ (\E c \in Conns : Listens(c))

Spec == Init /\ [][Next]_vars

(* A fiber that can go on does; nobody need speak, sit or go.  The posts   *)
(* are bounded, so a lock that is wanted is free for good in the end.      *)
FairSpec ==
    /\ Spec
    /\ \A f \in Speakers :
         /\ WF_vars(LockRoster(f) \/ RosterRefused(f))
         /\ WF_vars(PutNext(f) \/ PutRefused(f))
         /\ WF_vars(EndHandOut(f)) /\ WF_vars(ReleaseOwn(f))
    /\ \A c \in Conns :
         /\ WF_vars(Write(c)) /\ WF_vars(Take(c)) /\ WF_vars(Park(c)) /\ WF_vars(Woken(c))
         /\ WF_vars(GiveUp(c))

-----------------------------------------------------------------------------

(* A post is freed when, and only when, nobody can reach it any more: its  *)
(* count is the number of speakers, rings, kept places and hands it is in. *)
RefsAreExact ==
    \A p \in Posts :
        refs[p] = Cardinality({f \in Speakers : talk[f].post = p})
                  + Cardinality({s \in Index : Has(seat[s].ring, p)})
                  + Count(kept, p)
                  + Cardinality({c \in Conns : Has(conn[c].hand, p)})

(* Everything has its type, no ring and no history is over its bound, the  *)
(* roll is every seat once, the taken ones in front, each where its slot   *)
(* says; and every taken seat is some connection's whose frame is still    *)
(* there to be rung.                                                       *)
RollIsRight ==
    /\ TypeOK
    /\ \A s \in Index : \E i \in Index : roll[i] = s
    /\ \A i \in Index : seat[roll[i]].taken <=> i < here
    /\ \A i \in 0..(here - 1) :
         /\ seat[roll[i]].slot = i
         /\ \E c \in Conns : /\ seat[roll[i]].waker = c /\ conn[c].pc # "away"
                             /\ conn[c].ticket = [index |-> roll[i], era |-> seat[roll[i]].era]
    /\ \A s \in Index : ~seat[s].taken => seat[s].ring = <<>>

(* A connection never sleeps on a post: it waits with something in its     *)
(* ring only when its bell has been rung.                                  *)
BellIsHeard ==
    \A c \in Conns : conn[c].pc = "parked" /\ Mine(c).ring # <<>> => bell[c]

(* A seat is what its occupant and the speakers take it for: listed where  *)
(* it is, and rung when there is something in it.                          *)
SeatsAreSound == RollIsRight /\ BellIsHeard

Waiting(c) == IF conn[c].pc = "away" THEN <<>> ELSE conn[c].hand \o Mine(c).ring

(* Everything a client is given, over all its connections, it is given     *)
(* once and in the order it was said, whatever reconnects, replays and     *)
(* broadcasts fall between and whatever was lost with a connection; and    *)
(* nothing said before it came, or to the one who had the seat before it.  *)
OnceAndInOrder ==
    \A c \in Conns :
        LET all == seen[c] \o Waiting(c)
        IN  /\ \A i, j \in DOMAIN all : i < j => Where(said, all[i]) < Where(said, all[j])
            /\ conn[c].pc # "away" => \A i \in DOMAIN Mine(c).ring :
                                        Where(said, Mine(c).ring[i]) > since[c].sat

(* Whether the broadcast of said[n] has come to seat s.                    *)
Reached(n, s) ==
    roster = Nobody \/ n < Len(said) \/ seat[s].slot < talk[roster].at

(* The posts meant for c since the one its stay goes on from: what was     *)
(* kept of the ones said before it sat, and every one said since.          *)
MeantFor(c) ==
    {n \in (since[c].from + 1)..Len(said) :
        IF n <= since[c].sat THEN Keepable(said[n]) ELSE Reached(n, conn[c].ticket.index)}

(* Nothing goes missing uncounted: of the posts meant for a connection,    *)
(* each is written, on its way, counted in `dropped`, or was refused to a  *)
(* speaker being cancelled.                                                *)
NothingGoesMissing ==
    \A c \in Conns : conn[c].pc \in {"writing", "parked"} =>
        Cardinality(MeantFor(c)) =
            Len(seen[c]) - since[c].wrote + Len(Waiting(c)) + Mine(c).dropped + since[c].refused

(* What a connection is given is exact: once, in order, and nothing        *)
(* missing that is not counted.                                            *)
DeliveryIsExact == OnceAndInOrder /\ NothingGoesMissing

(* What is put in a ring is taken out of it.                               *)
RingsDrain ==
    \A s \in Index : seat[s].ring # <<>> ~> seat[s].ring = <<>>

(* A connection on its way out gets there.                                 *)
LeaversGetOut ==
    \A c \in Conns : conn[c].pc = "leaving" ~> conn[c].pc = "away"

(* Neither waits for ever on a broadcast, on a lock or on its bell.        *)
NobodyIsStuck == RingsDrain /\ LeaversGetOut
=============================================================================
