---------------------------- MODULE OAuthTokens ----------------------------
(***************************************************************************)
(* OAuthTokenManager (mcp/mcp.go): the token of one server, fetched when   *)
(* it is missing or about to expire, behind a lock that is taken only if   *)
(* the token that is there will not do.  Each server has a lock and a      *)
(* token of its own, so one is enough.                                     *)
(*                                                                         *)
(* The manager counts the lifetime of a token from the moment the answer   *)
(* has arrived, the server from the moment it made it: at most MaxDelay    *)
(* earlier (the client gives up after 15 seconds).  The goroutines'        *)
(* unlocked access to the map of tokens is taken to be atomic.             *)
(***************************************************************************)
EXTENDS Integers, FiniteSets

CONSTANTS
  Callers, None,
  Skew,         \* RefreshSkewSeconds
  Lifetimes,    \* what expires_in may say
  MaxDelay,
  MaxTime       \* bound of the clock

VARIABLES
  now,
  token,        \* tokens[serverName]: [made, said, expires], or None
  lock,         \* its holder, or None
  stage,        \* of each caller
  answer,       \* what the server has made for a caller
  header        \* history: the token that went out last, when, and whether it was kept: [token, at, cached]

vars == <<now, token, lock, stage, answer, header>>

Times   == 0..MaxTime
Answers == [made : Times, said : Lifetimes]
Tokens  == [made : Times, said : Lifetimes, expires : Int]

ConstantsAssumption ==
  /\ Skew \in Int /\ Lifetimes \subseteq Int /\ MaxDelay \in Nat \ {0} /\ MaxTime \in Nat
  /\ None \notin Callers \union Answers

TypeOK ==
  /\ now \in Times
  /\ token = None \/ token \in Tokens
  /\ lock \in Callers \union {None}
  /\ header = None \/ header \in [token : Tokens, at : Times, cached : BOOLEAN]
  /\ stage \in [Callers -> {"idle", "wait", "check", "post", "made"}]
  /\ \A c \in Callers : answer[c] # None <=> stage[c] = "made"
  /\ \A c \in Callers : stage[c] \in {"check", "post", "made"} <=> lock = c

Init ==
  /\ now = 0 /\ token = None /\ lock = None
  /\ stage = [c \in Callers |-> "idle"]
  /\ answer = [c \in Callers |-> None]
  /\ header = None

Goto(c, s) == stage' = [stage EXCEPT ![c] = s]

(* How much earlier than it expires a token is replaced.                     *)
Ahead == IF Skew < 0 THEN 0 ELSE Skew

(* Faulty: the last moment counts as well. *)
ExpiringLate(t) == t.expires < now + Ahead

Expiring(t) == t.expires <= now + Ahead

Usable == token # None /\ ~Expiring(token)

Return(t, cached) == header' = [token |-> t, at |-> now, cached |-> cached]

Unlock(c) == lock' = None

(* GetAuthorizationHeader: the look without the lock.                        *)
Ask(c) ==
  /\ stage[c] = "idle"
  /\ IF Usable THEN Return(token, TRUE) /\ Goto(c, "idle") ELSE Goto(c, "wait") /\ UNCHANGED header
  /\ UNCHANGED <<now, token, lock, answer>>

(* Faulty: every waiter goes on to fetch. *)
UsableNow == FALSE

(* The second look, with the lock, is the one that decides.                   *)
UsableStill == Usable

Enter(c) ==
  /\ stage[c] = "wait" /\ lock = None
  /\ lock' = c /\ Goto(c, "check")
  /\ UNCHANGED <<now, token, answer, header>>

Look(c) ==
  /\ stage[c] = "check"
  /\ IF UsableStill
     THEN Return(token, TRUE) /\ Unlock(c) /\ Goto(c, "idle")
     ELSE Goto(c, "post") /\ UNCHANGED <<lock, header>>
  /\ UNCHANGED <<now, token, answer>>

(* The server makes a token.                                                 *)
Make(c) ==
  /\ stage[c] = "post" /\ Goto(c, "made")
  /\ \E n \in Lifetimes : answer' = [answer EXCEPT ![c] = [made |-> now, said |-> n]]
  /\ UNCHANGED <<now, token, lock, header>>

(* parseTokenResponse.                                                       *)
Lifetime(n) == IF n < 1 THEN 1 ELSE n

Store(c) ==
  /\ stage[c] = "made"
  /\ LET t == [made |-> answer[c].made, said |-> answer[c].said, expires |-> now + Lifetime(answer[c].said)]
     IN token' = t /\ Return(t, FALSE)
  /\ answer' = [answer EXCEPT ![c] = None]
  /\ Unlock(c) /\ Goto(c, "idle")
  /\ UNCHANGED now

(* No connection, an error status, an answer that does not parse, a timeout. *)
Fail(c) ==
  /\ stage[c] \in {"post", "made"}
  /\ answer' = [answer EXCEPT ![c] = None]
  /\ Unlock(c) /\ Goto(c, "idle")
  /\ UNCHANGED <<now, token, header>>

Tick ==
  /\ now < MaxTime
  /\ \A c \in Callers : answer[c] # None => now < answer[c].made + MaxDelay
  /\ now' = now + 1
  /\ UNCHANGED <<token, lock, stage, answer, header>>

Next ==
  \/ \E c \in Callers : Ask(c) \/ Enter(c) \/ Look(c) \/ Make(c) \/ Store(c) \/ Fail(c)
  \/ Tick

Spec == Init /\ [][Next]_vars

-----------------------------------------------------------------------------
(* Properties.                                                               *)

(* A token handed out again has not expired for its server longer ago than   *)
(* what the skew leaves of the time that an answer may take; it has not at   *)
(* all, even if the server said that it does not live, when the skew leaves  *)
(* nothing of it.  The skew is 0 unless the configuration says otherwise.    *)
HandedOutIsAccepted ==
  header # None /\ header.cached =>
    /\ header.at + Ahead < header.token.made + Lifetime(header.token.said) + MaxDelay
    /\ MaxDelay <= Ahead => header.at < header.token.made + header.token.said

(* Callers that find the token expiring at the same time fetch one between   *)
(* them: a token is replaced only when it would not do any more.             *)
ReplaceStep == token' # token => token = None \/ Expiring(token)

ReplacedWhenExpiring == [][ReplaceStep]_vars
=============================================================================
