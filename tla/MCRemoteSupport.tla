--------------------------- MODULE MCRemoteSupport ---------------------------
(***************************************************************************)
(* RemoteSupport for TLC: the traffic and the provider's answers of each   *)
(* run.                                                                    *)
(***************************************************************************)
EXTENDS RemoteSupport, TLC

CONSTANTS s1, s2, r1, r2

OneSession == {s1}
TwoSessions == {s1, s2}
OneRequest == {r1}
TwoRequests == {r1, r2}

AllTraffic == {"decide", "launch", "connect", "revoke", "end", "sync"}

\* What the poll can get from a provider, after the mapping of poll_provider_status.
ProviderAnswers == {"active", "connecting", "completed", "terminated", "expired"}
PolledAnswers == {"active", "completed"}

Symmetry == Permutations(Requests)
=============================================================================
