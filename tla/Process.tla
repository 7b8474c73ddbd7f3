------------------------------ MODULE Process ------------------------------
(***************************************************************************)
(* A process and its successors on one data directory, with the settings   *)
(* each is started with (src/config.rs) and the sessions they issue        *)
(* (src/session.rs).                                                       *)
(*                                                                         *)
(* A session is a signed cookie that says when it expires.  The server     *)
(* keeps no list of them: what it knows of a session is the cookie it is   *)
(* shown, the key it was started with and the clock.  Numbers are u64 in   *)
(* the code: here they wrap at Modulus, as in a release build.             *)
(***************************************************************************)
EXTENDS Startup, Integers

CONSTANTS Settings, \* environments: ACCESS_KEY, the number and the unit of
                    \* SESSION_TTL, and whether every setting parses
          Modulus,  \* 2^64 in the code: integers wrap there
          MaxClock, MaxLogins, MaxEdits \* bounds

ASSUME ProcessAssumption ==
    /\ \A e \in Settings : e.num \in Nat /\ e.unit \in Nat /\ e.sound \in BOOLEAN
    /\ Modulus \in Nat \ {0}
    /\ MaxClock \in Nat /\ MaxLogins \in Nat /\ MaxEdits \in Nat

VARIABLES
    env,    \* the settings the next process will read
    cfg,    \* those the latest process was configured with
    clock,  \* the wall clock, in seconds
    issued, \* the cookies handed out, by any process
    opener, \* history: the cookie that opened the stream, while it is open
    edits

session == <<env, cfg, clock, issued, edits>>
all == <<vars, session, opener>>

Wrap(n) == n % Modulus

\* parse_duration: the number times its unit.
SessionTtl(e) == Wrap(e.num * e.unit)

\* Mutant: a cookie is good up to and in the second it expires in.
AcceptsLate(c) == c.key = cfg.key /\ c.expiry >= clock
\* Mutant: the signature is not compared.
AcceptsAny(c) == c.expiry > clock

\* SessionManager::validate: the expiry, then the signature.
Accepts(c) == c.expiry > clock /\ c.key = cfg.key

\* Mutant: a setting that does not parse is passed over.
ReadConfigAnyway ==
    /\ Configure(TRUE)
    /\ cfg' = env
    /\ UNCHANGED <<env, clock, issued, opener, edits>>

\* Config::from_env, by the process that starts.
ReadConfig ==
    /\ Configure(env.sound)
    /\ cfg' = IF env.sound THEN env ELSE cfg
    /\ UNCHANGED <<env, clock, issued, opener, edits>>

\* Mutant: the unit of the duration is forgotten.
LoginUnitless ==
    /\ pc = "serving" /\ Cardinality(issued) < MaxLogins
    /\ issued' = issued \union {[key |-> cfg.key, at |-> clock,
                                 ttl |-> cfg.num * cfg.unit,
                                 expiry |-> Wrap(clock + cfg.num)]}
    /\ UNCHANGED <<vars, env, cfg, clock, opener, edits>>

\* post_login with the right key: SessionManager::issue.
Login ==
    /\ pc = "serving" /\ Cardinality(issued) < MaxLogins
    /\ issued' = issued \union {[key |-> cfg.key, at |-> clock,
                                 ttl |-> cfg.num * cfg.unit,
                                 expiry |-> Wrap(clock + SessionTtl(cfg))]}
    /\ UNCHANGED <<vars, env, cfg, clock, opener, edits>>

\* /events is behind require_auth; what is asked with the bearer key is not.
\* The cookie is looked at once, when the stream is opened.
Events ==
    /\ \E c \in issued : Accepts(c) /\ opener' = {c}
    /\ Subscribe
    /\ UNCHANGED session

\* The operator edits the environment, which a running process does not see.
Edit ==
    /\ edits < MaxEdits
    /\ \E e \in Settings \ {env} : env' = e
    /\ edits' = edits + 1
    /\ UNCHANGED <<vars, cfg, clock, issued, opener>>

Tick ==
    /\ clock < MaxClock /\ clock' = clock + 1
    /\ UNCHANGED <<vars, env, cfg, issued, opener, edits>>

\* What a process does, or what happens to it, whatever its sessions.
Rest ==
    /\ \/ Launch \/ Boot
       \/ StartFails \/ BeginHandler \/ Serve \/ EndHandler
       \/ Unsubscribe \/ Terminate \/ Stop \/ GraceOver \/ Kill
    /\ opener' = IF stream' THEN opener ELSE {}
    /\ UNCHANGED session

ProcessInit ==
    /\ Init
    /\ env \in Settings /\ cfg = env
    /\ clock = 0 /\ issued = {} /\ opener = {} /\ edits = 0

ProcessNext == ReadConfig \/ Login \/ Events \/ Edit \/ Tick \/ Rest

Progress == ReadConfig \/ ((Launch \/ Boot) /\ Rest)

ProcessSpec ==
    /\ ProcessInit /\ [][ProcessNext]_all
    /\ WF_all(Progress) /\ WF_all(GraceOver /\ Rest)

-----------------------------------------------------------------------------
\* Variables have their types, and no process gets past its configuration with
\* settings that do not parse.
ProcessTypeOK ==
    /\ env \in Settings /\ cfg \in Settings
    /\ pc \notin {"down", "config", "failed"} => cfg.sound
    /\ clock \in 0..MaxClock /\ edits \in 0..MaxEdits
    /\ \A c \in issued : c.at <= clock /\ c.expiry < Modulus

\* SPEC 7.2.1: a session outlives restarts and changes of SESSION_TTL, ends
\* with the ACCESS_KEY it was issued under, and is accepted for exactly the
\* time it was issued for; if SESSION_TTL and the time it leads to fit an
\* integer, which the code does not check.
Fits(c) == c.at + c.ttl < Modulus
SessionExact ==
    Handling => \A c \in issued :
      Fits(c) => (Accepts(c) <=> c.key = cfg.key /\ clock < c.at + c.ttl)

\* An open stream is not looked at again and may outlive the session that
\* opened it, but not the key of that very session: the key changes with the
\* process, and no stream survives that.
StreamFollowsKey ==
    stream => opener # {} /\ \A c \in opener : c \in issued /\ c.key = cfg.key

\* A database whose schema is complete serves again after any kills, stops,
\* failing calls and edits, unless the settings do not parse.
Restarts == (version = 1) ~> (pc = "serving" \/ ~env.sound)
=============================================================================
