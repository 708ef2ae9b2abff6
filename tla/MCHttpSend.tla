----------------------------- MODULE MCHttpSend -----------------------------
(***************************************************************************)
(* Small instances of HttpSend for TLC.                                    *)
(***************************************************************************)
EXTENDS HttpSend, TLC

CONSTANTS r1, r2, r3

\* The KhConnectionPoolKey of a request: host A, B or C, plain, automatic ALPN,
\* explicit h2, and a second TLS identity towards host A.
plainA == [quota |-> "A80", ident |-> "", https |-> FALSE, alpn |-> "", auto |-> FALSE]
autoA  == [quota |-> "A", ident |-> "", https |-> TRUE, alpn |-> "", auto |-> TRUE]
h2A    == [quota |-> "A", ident |-> "", https |-> TRUE, alpn |-> "h2", auto |-> FALSE]
certA  == [quota |-> "A", ident |-> "cert", https |-> TRUE, alpn |-> "h2", auto |-> FALSE]
plainC == [quota |-> "C80", ident |-> "", https |-> FALSE, alpn |-> "", auto |-> FALSE]
plainB == [quota |-> "B80", ident |-> "", https |-> FALSE, alpn |-> "", auto |-> FALSE]

MCHosts == {"A", "A80", "B80", "C80"}
MCIdentities == {"cert"}
MCKeys == {plainA, autoA, h2A, certA, plainB, plainC}

Reuse(key, safe) == [key |-> key, policy |-> "ReuseOrCreate", safe |-> safe]
With(key, policy) == [key |-> key, policy |-> policy, safe |-> TRUE]

\* Connections with a single user each, to more hosts than there are slots.
ExclusiveKinds ==
    {Reuse(plainA, TRUE), Reuse(plainB, FALSE), With(plainA, "ForceNew"),
     With(plainB, "NoPool"), Reuse(plainC, FALSE)}

\* A secure session: identities, automatic ALPN and explicit h2 side by side.
SecureKinds == {Reuse(autoA, TRUE), Reuse(h2A, TRUE), Reuse(certA, FALSE)}

\* Requests that share HTTP/2 connections and are not replayed.
SharedKinds == {Reuse(h2A, FALSE), Reuse(autoA, FALSE)}

\* The same, with methods that are replayed.
SharedRetryKinds == {Reuse(h2A, TRUE)}

Threads == Permutations({r1, r2, r3})
=============================================================================
