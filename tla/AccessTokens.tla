---------------------------- MODULE AccessTokens ----------------------------
(***************************************************************************)
(* Access tokens (gateway/token.go, requireAuth in auth.go) beside the     *)
(* sessions of PgSessions.  They are signed, not stored: nothing revokes   *)
(* one, it only expires.  So they add no state: when the last one of a     *)
(* session expires follows from its refresh tokens.  JWT_SECRET is set:    *)
(* the key is the same in every process.                                   *)
(***************************************************************************)
EXTENDS PgSessions

CONSTANT AccessTTL   \* lifetime of an access token, in clock ticks

ASSUME AccessAssumption == AccessTTL \in Nat \ {0}

\* issueSession signs the access token just before it fixes the expiry of the
\* refresh token, and hands both out once the latter is stored: one was handed
\* out with every refresh token issued, purged or not.
SignedAt(t) == expires[t] - RefreshTTL

\* TokenIssuer.Issue: the claim ExpiresAt.
ExpiresAt(t) == SignedAt(t) + AccessTTL

\* TokenIssuer.Verify.
Verify(t) == now < ExpiresAt(t)

\* requireAuth lets a request pass that bears the access token handed out with t.
\* A bearer token the gateway never signed is refused.
requireAuth(t) == t \in Issued /\ Verify(t)

\* "They cannot be revoked server-side before they expire" (token.go:15), so the
\* TTL is the most a session outlives its end.  Whoever ended it and however many
\* refreshes were under way: a session without a credential gets no other one,
\* and its access tokens, if still accepted, are not for longer than AccessTTL.
SignOutTakesEffect ==
  [][\A f \in Token : family[f] = f /\ Dead(f) =>
       /\ Dead(f)'
       /\ \A t \in Token : family'[t] = f /\ requireAuth(t)' =>
            ExpiresAt(t)' <= now + AccessTTL]_vars
============================================================================
