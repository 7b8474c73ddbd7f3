------------------------------ MODULE Limiter ------------------------------
(***************************************************************************)
(* The login rate limiter (src/ratelimit.rs) and the two places that use   *)
(* it: post_login (src/routes.rs) and the ApiAuth extractor (src/api.rs),  *)
(* which share one bucket per address.                                     *)
(*                                                                         *)
(* check, record_failure and record_success each hold the limiter's mutex, *)
(* but a request calls check, compares the key and then records: requests  *)
(* on other threads run in between.  Time is counted in ticks, several to  *)
(* a second, and Instant::now() is read under the mutex.                   *)
(***************************************************************************)
EXTENDS Integers, Sequences, FiniteSets

CONSTANTS Thread,       \* requests that may be in progress at once
          Ip,           \* client addresses
          MAX_FAILURES, \* 5 in the code
          WINDOW,       \* 5 minutes in the code, here in ticks
          Second,       \* ticks in a second
          MaxTime,      \* bound: the last tick of a behaviour
          None

ASSUME LimiterAssumption ==
    /\ IsFiniteSet(Thread)
    /\ MAX_FAILURES \in Nat \ {0}
    /\ WINDOW \in Nat \ {0}
    /\ Second \in Nat \ {0}
    /\ MaxTime \in Nat

VARIABLES
    now,       \* the clock
    failures,  \* address -> queue of the times of its failures
    req,       \* thread -> the request it is between check and record in
    guesses,   \* history: address -> times of the wrong keys judged within
               \* the last WINDOW and since the last successful login
    promised   \* history: address -> when the last 429 said it may come back,
               \* while nothing has been recorded for the address since

vars == <<now, failures, req, guesses, promised>>

NoReq == [ip |-> None, via |-> "none", cred |-> "none"]
Requests == [ip : Ip, via : {"login"}, cred : {"right", "wrong"}]
              \union [ip : Ip, via : {"api"}, cred : {"right", "wrong", "none"}]

\* Mutants of the window's boundary.
ExpiredLate(t) == now - t > WINDOW
ExpiredEarly(t) == now - t >= WINDOW - 1

Expired(t) == now - t >= WINDOW

\* drain_old pops the front while it is old.
OldPrefix(q) ==
    CHOOSE n \in 0..Len(q) :
        /\ \A i \in 1..n : Expired(q[i])
        /\ n < Len(q) => ~Expired(q[n + 1])
Drained(q) == SubSeq(q, OldPrefix(q) + 1, Len(q))

\* History: what the window that ends at "at" sees of times that are in order,
\* told by how many are too old and not by where the first one is that is not.
TooOld(q, at) == Cardinality({i \in 1..Len(q) : at - q[i] >= WINDOW})
Recent(q, at) == SubSeq(q, TooOld(q, at) + 1, Len(q))

Locked(q) == Len(q) >= MAX_FAILURES

\* Err(remaining), never less than a second.
Remaining(q) ==
    LET left == WINDOW - (now - Head(q)) IN
    IF left >= Second THEN left ELSE Second

\* What the 429 says of it, as_secs(): the fraction of a second is cut off.
AsSecs(left) == left - (left % Second)

-----------------------------------------------------------------------------
\* limiter.check, the first thing a login or an API request does.
Admit(t, r) ==
    LET q == Drained(failures[r.ip]) IN
    /\ failures' = [failures EXCEPT ![r.ip] = q]
    /\ \/ /\ ~Locked(q)
          /\ req' = [req EXCEPT ![t] = r]
          /\ UNCHANGED promised
       \/ /\ Locked(q)
          /\ promised' = [promised EXCEPT ![r.ip] =
                            IF Len(q) = MAX_FAILURES
                            THEN now + AsSecs(Remaining(q)) ELSE None]
          /\ UNCHANGED req
    /\ UNCHANGED <<now, guesses>>

Check(t) == req[t] = NoReq /\ \E r \in Requests : Admit(t, r)

\* Mutant: the new failure goes to the wrong end of the queue.
RecordAtFront(t) ==
    LET ip == req[t].ip IN
    /\ req[t].cred = "wrong"
    /\ failures' = [failures EXCEPT ![ip] = <<now>> \o Drained(@)]
    /\ guesses' = [guesses EXCEPT ![ip] = Append(@, now)]
    /\ promised' = [promised EXCEPT ![ip] = None]
    /\ req' = [req EXCEPT ![t] = NoReq]
    /\ UNCHANGED now

\* A wrong key is recorded on either path.
RecordFailure(t) ==
    LET ip == req[t].ip IN
    /\ req[t].cred = "wrong"
    /\ failures' = [failures EXCEPT ![ip] = Append(Drained(@), now)]
    /\ guesses' = [guesses EXCEPT ![ip] = Append(@, now)]
    /\ promised' = [promised EXCEPT ![ip] = None]
    /\ req' = [req EXCEPT ![t] = NoReq]
    /\ UNCHANGED now

\* Only a login clears the address.
RecordSuccess(t) ==
    LET ip == req[t].ip IN
    /\ req[t].cred = "right" /\ req[t].via = "login"
    /\ failures' = [failures EXCEPT ![ip] = <<>>]
    /\ guesses' = [guesses EXCEPT ![ip] = <<>>]
    /\ req' = [req EXCEPT ![t] = NoReq]
    /\ UNCHANGED <<now, promised>>

\* Mutant: an API request that clears the address, as a login does.
ApiClears(t) ==
    LET ip == req[t].ip IN
    /\ req[t].via = "api" /\ req[t].cred # "wrong"
    /\ failures' = [failures EXCEPT ![ip] = <<>>]
    /\ req' = [req EXCEPT ![t] = NoReq]
    /\ UNCHANGED <<now, guesses, promised>>

\* An API request with the right key, or with no usable header, changes
\* nothing.
ApiPasses(t) ==
    /\ req[t].via = "api" /\ req[t].cred # "wrong"
    /\ req' = [req EXCEPT ![t] = NoReq]
    /\ UNCHANGED <<now, failures, guesses, promised>>

Tick ==
    /\ now < MaxTime
    /\ now' = now + 1
    /\ guesses' = [ip \in Ip |-> Recent(guesses[ip], now + 1)]
    /\ UNCHANGED <<failures, req, promised>>

Init ==
    /\ now = 0
    /\ failures = [ip \in Ip |-> <<>>]
    /\ req = [t \in Thread |-> NoReq]
    /\ guesses = [ip \in Ip |-> <<>>]
    /\ promised = [ip \in Ip |-> None]

Judge(t) == RecordFailure(t) \/ RecordSuccess(t) \/ ApiPasses(t)

Next == (\E t \in Thread : Check(t) \/ Judge(t)) \/ Tick

Spec == Init /\ [][Next]_vars

-----------------------------------------------------------------------------
\* Times in order, none of them in the future.
Queue(q) ==
    /\ q \in Seq(0..MaxTime)
    /\ \A i \in 1..Len(q) : q[i] <= now
    /\ \A i, k \in 1..Len(q) : i <= k => q[i] <= q[k]

(* The failures of an address are a queue, and every request in progress is a *)
(* possible one.                                                             *)
TypeOK ==
    /\ now \in 0..MaxTime
    /\ failures \in [Ip -> Seq(0..MaxTime)]
    /\ \A ip \in Ip : Queue(failures[ip])
    /\ req \in [Thread -> Requests \union {NoReq}]
    /\ guesses \in [Ip -> Seq(0..MaxTime)]
    /\ promised \in [Ip -> Nat \union {None}]

\* However requests of one address overlap, and whichever of the two doors
\* they use, no window sees more wrong keys judged than the limit allows to
\* one request after the other, plus one for each other request in progress.
GuessBound ==
    \A ip \in Ip : Len(guesses[ip]) <= MAX_FAILURES - 1 + Cardinality(Thread)

\* The limiter forgets no wrong key before its window is over, except by a
\* login: what it counts is what was judged.
CountsEveryGuess ==
    \A ip \in Ip : Recent(failures[ip], now) = guesses[ip]

\* SPEC 7.4, the lockout is what is left of the window: an address that was
\* locked out by exactly the limit, and comes back when the 429 told it to and
\* the fraction of a second that as_secs() cut off is over too, is not refused
\* again, whatever was refused to it in between.  Exactly when it was told to,
\* it may be.
LockoutEnds ==
    \A ip \in Ip :
        (promised[ip] # None /\ now >= promised[ip] + (Second - 1))
            => ~Locked(Drained(failures[ip]))

-----------------------------------------------------------------------------
(* Why they hold.                                                           *)

\* The requests of an address that are past the check with a wrong key.
Wrong(ip) == {t \in Thread : req[t].ip = ip /\ req[t].cred = "wrong"}

\* A wrong key that is still to be judged has its place under the bound.
RoomForWrong ==
    \A ip \in Ip :
        Len(guesses[ip]) + Cardinality(Wrong(ip))
            <= MAX_FAILURES - 1 + Cardinality(Thread)

\* Who was told when to come back is refused, until then, by no more than the
\* limit, and the oldest of these failures will be too old less than a second
\* after.
PromiseKept ==
    \A ip \in Ip : promised[ip] # None =>
        /\ Len(failures[ip]) <= MAX_FAILURES
        /\ Len(failures[ip]) = MAX_FAILURES
              => failures[ip][1] + WINDOW <= promised[ip] + (Second - 1)

\* Inductive (LimiterProofs).
LimiterInvariant ==
    TypeOK /\ CountsEveryGuess /\ RoomForWrong /\ PromiseKept
=============================================================================
