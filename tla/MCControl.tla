------------------------------ MODULE MCControl ------------------------------
(***************************************************************************)
(* What the control server guards: the limit on requests and the change of *)
(* TLS settings.  They share no state, so a behaviour follows one of them  *)
(* and no interleaving of interest is lost.                                *)
(***************************************************************************)
EXTENDS RateLimiter, TlsReload

VARIABLE part

vars == <<limitVars, tlsVars, part>>

Init ==
    /\ LimitInit /\ TlsInit /\ part \in {"limits", "tls"}
    /\ part = "limits" => pending = <<>>

Next ==
    \/ part = "limits" /\ LimitNext /\ UNCHANGED <<tlsVars, part>>
    \/ part = "tls" /\ TlsNext /\ UNCHANGED <<limitVars, part>>

Spec == Init /\ [][Next]_vars /\ (part = "tls" => TlsFairness)

\* Both parts have their types, the table of limits and the queue of flags
\* stay within what is allocated for them.
TypeOK == LimitTypeOK /\ TlsTypeOK

=============================================================================
