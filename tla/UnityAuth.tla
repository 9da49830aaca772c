------------------------------ MODULE UnityAuth ------------------------------
(***************************************************************************)
(* The OAuth bearer of one Unity Catalog session                           *)
(* (crates/lakehouse-catalog/src/unity/auth.rs): the requests of a         *)
(* statement's legs share one cached token, look it up under the lock,     *)
(* mint outside of it, and store what they minted in any order.            *)
(*                                                                         *)
(* Time is unbounded.  Of a request's way through CatalogHttp only its     *)
(* bounds are kept: an attempt is sent again within SendTime, and a        *)
(* minted token is in the caller's hands within MintTime of its issue.     *)
(***************************************************************************)
EXTENDS Integers

CONSTANTS
    Callers,                   \* tasks that send requests on the session
    OAUTH_REFRESH_SKEW_SECS,
    MintTime,                  \* longest way of an issued token to its caller
    SendTime,                  \* longest time over which a request is re-sent
    Lifetimes                  \* the expires_in values the grant answers with

\* The skew covers both ways and no token lives shorter than the skew.
Timely ==
    /\ OAUTH_REFRESH_SKEW_SECS \in Nat
    /\ MintTime \in Nat /\ SendTime \in Nat
    /\ MintTime + SendTime <= OAUTH_REFRESH_SKEW_SECS
    /\ Lifetimes \subseteq {n \in Nat : n > OAUTH_REFRESH_SKEW_SECS}

VARIABLES
    now,
    cached,      \* the cache holds a token
    cache,       \* that token [born, life]
    refresh_at,  \* when it is no longer taken from the cache
    stage,       \* per caller: "idle", "minting", "issued" or "sending"
    bearer,      \* per caller: the token in its hands
    sent         \* per caller: when its request was first sent

vars == <<now, cached, cache, refresh_at, stage, bearer, sent>>

Tokens == [born : Nat, life : Lifetimes]

TypeOK ==
    /\ now \in Nat
    /\ cached \in {"yes", "no"}
    /\ cached = "yes" => cache \in Tokens /\ refresh_at \in Nat
    /\ stage \in [Callers -> {"idle", "minting", "issued", "sending"}]
    /\ DOMAIN bearer = Callers
    /\ \A c \in Callers : stage[c] \in {"issued", "sending"} => bearer[c] \in Tokens
    /\ sent \in [Callers -> Nat]

Init ==
    /\ now \in Nat
    /\ cached = "no"
    /\ cache = "none"
    /\ refresh_at = 0
    /\ stage = [c \in Callers |-> "idle"]
    /\ bearer = [c \in Callers |-> "none"]
    /\ sent = [c \in Callers |-> 0]

\* Time passes, but no answer takes longer than CatalogHttp lets it.
Tick(t) ==
    /\ t > now
    /\ \A c \in Callers : stage[c] = "issued" => t <= bearer[c].born + MintTime
    /\ \A c \in Callers : stage[c] = "sending" => t <= sent[c] + SendTime
    /\ now' = t
    /\ UNCHANGED <<cached, cache, refresh_at, stage, bearer, sent>>

\* bearer: the cached token is taken while the clock is before refresh_at.
UseCached(c) ==
    /\ stage[c] = "idle"
    /\ cached = "yes" /\ now < refresh_at
    /\ stage' = [stage EXCEPT ![c] = "sending"]
    /\ bearer' = [bearer EXCEPT ![c] = cache]
    /\ sent' = [sent EXCEPT ![c] = now]
    /\ UNCHANGED <<now, cached, cache, refresh_at>>

\* The lock is released before the mint: several callers may mint at once.
BeginMint(c) ==
    /\ stage[c] = "idle"
    /\ cached = "no" \/ now >= refresh_at
    /\ stage' = [stage EXCEPT ![c] = "minting"]
    /\ UNCHANGED <<now, cached, cache, refresh_at, bearer, sent>>

\* The token endpoint issues a token; it is not in the caller's hands yet.
Issue(c, life) ==
    /\ stage[c] = "minting"
    /\ stage' = [stage EXCEPT ![c] = "issued"]
    /\ bearer' = [bearer EXCEPT ![c] = [born |-> now, life |-> life]]
    /\ UNCHANGED <<now, cached, cache, refresh_at, sent>>

\* The grant fails, or answers without a token or a usable expires_in.
MintFails(c) ==
    /\ stage[c] \in {"minting", "issued"}
    /\ stage' = [stage EXCEPT ![c] = "idle"]
    /\ UNCHANGED <<now, cached, cache, refresh_at, bearer, sent>>

\* expires_in.saturating_sub(OAUTH_REFRESH_SKEW_SECS)
Usable(life) ==
    IF life < OAUTH_REFRESH_SKEW_SECS THEN 0 ELSE life - OAUTH_REFRESH_SKEW_SECS

\* The clock is read after the mint returned, and whoever stores last wins.
StoreMinted(c) ==
    /\ stage[c] = "issued"
    /\ cached' = "yes"
    /\ cache' = bearer[c]
    /\ refresh_at' = now + Usable(bearer[c].life)
    /\ stage' = [stage EXCEPT ![c] = "sending"]
    /\ sent' = [sent EXCEPT ![c] = now]
    /\ UNCHANGED <<now, bearer>>

\* The request returned; the caller may send another one.
Done(c) ==
    /\ stage[c] = "sending"
    /\ stage' = [stage EXCEPT ![c] = "idle"]
    /\ UNCHANGED <<now, cached, cache, refresh_at, bearer, sent>>

Next ==
    \/ \E t \in Nat : Tick(t)
    \/ \E c \in Callers :
         \/ UseCached(c) \/ BeginMint(c) \/ MintFails(c) \/ StoreMinted(c) \/ Done(c)
         \/ \E life \in Lifetimes : Issue(c, life)

Spec == Init /\ [][Next]_vars

-----------------------------------------------------------------------------
\* "Refresh this early so a bearer never expires in flight": as long as a
\* request may still be sent again, its token has not expired, whichever of two
\* racing mints was stored last.
BearerLive ==
    \A c \in Callers :
        stage[c] = "sending" => now < bearer[c].born + bearer[c].life

\* A cached token outlives a request first sent just before its refresh point.
CacheSound ==
    cached = "yes" => refresh_at + SendTime <= cache.born + cache.life

\* The inductive part: what each caller holds, relative to when it was sent.
BearerSound ==
    \A c \in Callers :
        /\ stage[c] = "issued" =>
             bearer[c].born <= now /\ now <= bearer[c].born + MintTime
        /\ stage[c] = "sending" =>
             /\ now <= sent[c] + SendTime
             /\ sent[c] + SendTime < bearer[c].born + bearer[c].life

IInv == TypeOK /\ CacheSound /\ BearerSound
=============================================================================
