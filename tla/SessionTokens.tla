---------------------------- MODULE SessionTokens ----------------------------
(***************************************************************************)
(* The sessions of one user (app/services/auth_service.py, change_password *)
(* in client_account_service.py, refresh_token_repository.py and           *)
(* user_repository.py).  A login issues a refresh token and an access      *)
(* token; the access token carries the token_version of the user and is    *)
(* refused when the user has another one.  A refresh revokes its token and *)
(* issues a successor; log-out-everywhere, a change and a reset of the     *)
(* password revoke every refresh token and add one to token_version.       *)
(*                                                                         *)
(* Every request reads without a lock, one SELECT after the other, and     *)
(* writes at its commit what it computed from the values read:             *)
(* token_version is written as a number.  The user stays active: nothing   *)
(* in the application sets is_active.                                       *)
(***************************************************************************)
EXTENDS Integers, FiniteSets

CONSTANTS
    Tokens,        \* ids of refresh tokens, each used once
    Logins,        \* ids of logins, each used once
    TWorkers,      \* requests in flight at once
    MaxVersion,    \* bounds token_version, an unbounded counter
    NoToken,
    NoLogin

ASSUME TokenAssumption ==
    /\ NoToken \notin Tokens
    /\ NoLogin \notin Logins
    /\ MaxVersion \in Nat \ {0}

VARIABLES
    token,       \* refresh_tokens: none (no row yet), live, expired or revoked
    chain,       \* the login a token descends from
    issued,      \* token_version in the access token issued with it
    version,     \* users.token_version
    t_step,      \* per worker, how far its request has come
    t_token,     \* the refresh token it was given
    t_read,      \* the token_version it has read
    t_found,     \* the tokens it found unrevoked
    ended,       \* history: logins that had an unrevoked token when a request
                 \* that has since ended every session read them
    crossed,     \* history: logins refreshed by a request that overlapped one
                 \* that ends sessions or another refresh of the same token
    rewound      \* history: a write of token_version did not raise it

t_rows    == <<token, chain, issued, version>>
t_reqs    == <<t_step, t_token, t_read, t_found>>
t_history == <<ended, crossed, rewound>>
tokenVars == <<t_rows, t_reqs, t_history>>

-----------------------------------------------------------------------------
(* Definitions *)

(* revoked_at is not set; an expired token may be among them. *)
Unrevoked == {t \in Tokens : token[t] \in {"live", "expired"}}

Revoke(S) == [t \in Tokens |-> IF t \in S THEN "revoked" ELSE token[t]]

(* get_current_user accepts the access token issued with t. *)
Accepted(t) == token[t] # "none" /\ issued[t] = version

(* The logins of a set of tokens. *)
LoginsOf(S) == {chain[t] : t \in S}

(* A new row gets an id not used before; which one makes no difference. *)
AnyOf(S) == IF S = {} THEN {} ELSE {CHOOSE x \in S : TRUE}

NewToken == AnyOf({t \in Tokens : token[t] = "none"})

NewLogin == AnyOf(Logins \ {chain[t] : t \in Tokens})

TGoto(w, s, t, v, S) ==
    /\ t_step' = [t_step EXCEPT ![w] = s]
    /\ t_token' = [t_token EXCEPT ![w] = t]
    /\ t_read' = [t_read EXCEPT ![w] = v]
    /\ t_found' = [t_found EXCEPT ![w] = S]

TDone(w) == TGoto(w, "idle", NoToken, 0, {})

(* What the request leaves of the token it was given. *)
NotRotated(w) == {}      \* mutant: a refresh keeps its token

Rotated(w) == {t_token[w]} \ {NoToken}

(* _issue_tokens: an access token with the version read, and a new row. *)
Issue(w, t, l) ==
    /\ token' = [Revoke(Rotated(w)) EXCEPT ![t] = "live"]
    /\ chain' = [chain EXCEPT ![t] = l]
    /\ issued' = [issued EXCEPT ![t] = t_read[w]]

-----------------------------------------------------------------------------
(* Login, refresh and log-out *)

(* The password is right and the account may use the application. *)
StartLogin(w) ==
    /\ t_step[w] = "idle"
    /\ TGoto(w, "login", NoToken, version, {})
    /\ UNCHANGED <<t_rows, t_history>>

Login(w, t, l) ==
    /\ t_step[w] = "login"
    /\ t \in NewToken
    /\ l \in NewLogin
    /\ Issue(w, t, l)
    /\ TDone(w)
    /\ UNCHANGED <<version, t_history>>

(* refresh: a token that is live will be rotated, with the version its user *)
(* has then; for one that is revoked, all that are not will be.  One that   *)
(* has expired is refused.                                                  *)
StartRefresh(w, t) ==
    /\ t_step[w] = "idle"
    /\ \/ token[t] = "live" /\ TGoto(w, "rotate", t, 0, {})
       \/ token[t] = "revoked" /\ TGoto(w, "reused", NoToken, 0, {})
    /\ UNCHANGED <<t_rows, t_history>>

LoadUser(w) ==
    /\ t_step[w] = "rotate"
    /\ TGoto(w, "refresh", t_token[w], version, {})
    /\ UNCHANGED <<t_rows, t_history>>

Refresh(w, t) ==
    /\ t_step[w] = "refresh"
    /\ t \in NewToken
    /\ Issue(w, t, chain[t_token[w]])
    /\ crossed' = IF token[t_token[w]] = "revoked" \/ \E v \in TWorkers : t_token[w] \in t_found[v]
                  THEN crossed \cup {chain[t_token[w]]} ELSE crossed
    /\ TDone(w)
    /\ UNCHANGED <<version, ended, rewound>>

(* logout finds the token valid and revokes it; revoked meanwhile, it is    *)
(* revoked again, so one step stands for both.                              *)
Logout(w, t) ==
    /\ t_step[w] = "idle"
    /\ token[t] = "live"
    /\ token' = Revoke({t})
    /\ UNCHANGED <<chain, issued, version, t_reqs, t_history>>

-----------------------------------------------------------------------------
(* Ending every session *)

(* logout_all_sessions and change_password take an access token, which the *)
(* request has had accepted; reset_password takes a token of its own.  The  *)
(* user is loaded first.                                                    *)
StartEndSessions(w) ==
    /\ t_step[w] = "idle"
    /\ TGoto(w, "ending", NoToken, version, {})
    /\ UNCHANGED <<t_rows, t_history>>

(* The SELECT of revoke_all_for_user. *)
FindTokens(w) ==
    /\ \/ t_step[w] = "ending" /\ TGoto(w, "end", NoToken, t_read[w], Unrevoked)
       \/ t_step[w] = "reused" /\ TGoto(w, "reuse", NoToken, 0, Unrevoked)
    /\ UNCHANGED <<t_rows, t_history>>

(* bump_token_version *)
SameVersion(w) == t_read[w]      \* mutant: access tokens are left alone

NextVersion(w) == t_read[w] + 1

(* revoke_all_for_user, over the rows found. *)
OnlyOne(w) == {t \in t_found[w] : issued[t] = version}      \* mutant

AllFound(w) == t_found[w]

EndSessions(w) ==
    /\ t_step[w] = "end"
    /\ NextVersion(w) <= MaxVersion
    /\ token' = Revoke(AllFound(w))
    /\ version' = NextVersion(w)
    /\ ended' = ended \cup LoginsOf(t_found[w])
    /\ rewound' = (rewound \/ t_read[w] # version)
    /\ TDone(w)
    /\ UNCHANGED <<chain, issued, crossed>>

RevokeReused(w) ==
    /\ t_step[w] = "reuse"
    /\ token' = Revoke(AllFound(w))
    /\ TDone(w)
    /\ UNCHANGED <<chain, issued, version, t_history>>

-----------------------------------------------------------------------------

(* expires_at passes. *)
Expire(t) ==
    /\ token[t] = "live"
    /\ token' = [token EXCEPT ![t] = "expired"]
    /\ UNCHANGED <<chain, issued, version, t_reqs, t_history>>

(* The request fails or its process dies before the commit. *)
Abandon(w) ==
    /\ t_step[w] # "idle"
    /\ TDone(w)
    /\ UNCHANGED <<t_rows, t_history>>

TokenInit ==
    /\ token = [t \in Tokens |-> "none"]
    /\ chain = [t \in Tokens |-> NoLogin]
    /\ issued = [t \in Tokens |-> 0]
    /\ version = 1
    /\ t_step = [w \in TWorkers |-> "idle"]
    /\ t_token = [w \in TWorkers |-> NoToken]
    /\ t_read = [w \in TWorkers |-> 0]
    /\ t_found = [w \in TWorkers |-> {}]
    /\ ended = {}
    /\ crossed = {}
    /\ rewound = FALSE

TokenRequest(w) ==
    \/ StartLogin(w)
    \/ \E t \in Tokens, l \in Logins : Login(w, t, l)
    \/ \E t \in Tokens : StartRefresh(w, t) \/ Refresh(w, t) \/ Logout(w, t)
    \/ LoadUser(w)
    \/ StartEndSessions(w)
    \/ FindTokens(w)
    \/ EndSessions(w)
    \/ RevokeReused(w)
    \/ Abandon(w)

TokenNext ==
    \/ \E w \in TWorkers : TokenRequest(w)
    \/ \E t \in Tokens : Expire(t)

TokenSpec == TokenInit /\ [][TokenNext]_tokenVars

-----------------------------------------------------------------------------
(* Properties *)

TokenTypeOK ==
    /\ token \in [Tokens -> {"none", "live", "expired", "revoked"}]
    /\ chain \in [Tokens -> Logins \cup {NoLogin}]
    /\ issued \in [Tokens -> 0..MaxVersion]
    /\ version \in 1..MaxVersion
    /\ t_step \in [TWorkers -> {"idle", "login", "rotate", "refresh", "reused", "reuse",
                             "ending", "end"}]
    /\ t_token \in [TWorkers -> Tokens \cup {NoToken}]
    /\ t_read \in [TWorkers -> 0..MaxVersion]
    /\ t_found \in [TWorkers -> SUBSET Tokens]
    /\ ended \subseteq Logins
    /\ crossed \subseteq Logins
    /\ rewound \in BOOLEAN

(* A login that a log-out-everywhere, a password change or a reset has found *)
(* is over for good: all its refresh tokens are revoked, unless a refresh    *)
(* overlapped the request, and none of its access tokens is accepted, unless *)
(* two such requests overlapped and token_version was written back.          *)
EndedForGood ==
    \A t \in Tokens : chain[t] \in ended =>
       /\ t \in Unrevoked => chain[t] \in crossed
       /\ Accepted(t) => chain[t] \in crossed \/ rewound

(* Rotation leaves one refresh token of a login unrevoked, unless two        *)
(* refreshes of one token overlapped and forked it.                          *)
OneLivePerLogin ==
    \A t1, t2 \in Unrevoked : chain[t1] = chain[t2] /\ t1 # t2 => chain[t1] \in crossed
=============================================================================
