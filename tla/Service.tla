------------------------------- MODULE Service -------------------------------
(***************************************************************************)
(* The web service that the clients talk to, beside the token server: it   *)
(* issues pairs of tokens at its token endpoint and checks access tokens.  *)
(* Tokens are numbered by generation; pair n + 1 is issued in exchange for *)
(* refresh token n.                                                        *)
(***************************************************************************)
EXTENDS TokenFile

CONSTANT MaxExpired   \* bound: how many access tokens expire in a behaviour

ASSUME MaxExpiredAssumption == MaxExpired \in Nat

VARIABLES issued,   \* generation of the latest token pair
          expired,  \* access tokens up to this one are expired
          revoked   \* the user withdrew the consent

serviceVars == <<issued, expired, revoked>>

ServiceTypeOK ==
  /\ issued \in Generation
  /\ expired \in 0..MaxExpired
  /\ revoked \in BOOLEAN

ServiceInit ==
  /\ issued = 1
  /\ expired = 0
  /\ revoked = FALSE

-----------------------------------------------------------------------------
Accepts(token) == token > expired /\ ~revoked

\* A refresh token is good for one exchange.
Unspent(refresh) == refresh = issued /\ ~revoked

\* The token endpoint answers the POST, or its answer is lost.
Exchange ==
  /\ m_spLockForRenew # NULL
  /\ m_spLockForRenew.status = "sent"
  /\ LET pair == [access |-> issued + 1, refresh |-> issued + 1] IN
     \/ /\ Unspent(m_spLockForRenew.body)
        /\ issued' = issued + 1
        /\ \/ RenewAnswered("200", pair, 3)
           \/ "garbled" \in Faults /\ \E parsed \in 0..2 : RenewAnswered("200", pair, parsed)
           \/ "lost" \in Faults /\ RenewAnswered("other", NoTokens, 3)
     \/ /\ ~Unspent(m_spLockForRenew.body)
        /\ RenewAnswered("400", NoTokens, 3)
        /\ UNCHANGED issued
     \/ /\ "lost" \in Faults
        /\ RenewAnswered("other", NoTokens, 3)
        /\ UNCHANGED issued
  /\ UNCHANGED <<expired, revoked>>

ExpireToken ==
  /\ expired < issued
  /\ expired < MaxExpired
  /\ expired' = expired + 1
  /\ UNCHANGED <<tfVars, issued, revoked>>

RevokeConsent ==
  /\ "revoke" \in Faults
  /\ ~revoked
  /\ revoked' = TRUE
  /\ UNCHANGED <<tfVars, issued, expired>>

-----------------------------------------------------------------------------
(* What server, clients and service keep together *)

\* A refresh token is used once: no POST that is being sent carries one that
\* the service has already exchanged (LockForRenew and UnLockFromRenew).
RefreshTokenUnspent ==
  m_spLockForRenew # NULL /\ m_spLockForRenew.status \in {"open", "sent"}
    => m_spLockForRenew.body = issued

\* One expired access token costs one renew (the comparison of tokens in
\* CanRetryImmediately, the lock in LockForRenew).
OneRenewPerExpiry == issued <= expired + 1

=============================================================================
