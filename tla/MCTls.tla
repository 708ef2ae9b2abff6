-------------------------------- MODULE MCTls --------------------------------
(***************************************************************************)
(* TlsHandshake on small sets of options and tickets, and TlsConnection on *)
(* the connections it leaves: a behaviour shows one of the two.            *)
(***************************************************************************)
EXTENDS TlsHandshake, TlsConnection

Opt(min, max, policy, alpn, resume, early, cred, verify) ==
    [name |-> "a", policy |-> policy, min |-> min, max |-> max, alpn |-> alpn,
     resume |-> resume, early |-> early, cred |-> cred, verify |-> verify]

Resuming == Opt(12, 12, "modern", {"h2"}, TRUE, "no", FALSE, TRUE)
Elsewhere == {[Resuming EXCEPT !.name = "b", !.alpn = {}]}

MCOptions ==
    <<{Opt(12, 13, "modern", {"h2"}, TRUE, "no", FALSE, TRUE),
       Opt(12, 13, "modern", {"h2"}, TRUE, "safe", TRUE, TRUE),
       Opt(13, 13, "modern", {"http/1.1"}, TRUE, "safe", FALSE, TRUE),
       Opt(12, 12, "compat", {}, FALSE, "no", TRUE, TRUE),
       Opt(12, 13, "modern", {}, FALSE, "no", FALSE, FALSE),
       Opt(12, 12, "modern", {}, FALSE, "safe", FALSE, TRUE),
       Opt(13, 12, "modern", {}, FALSE, "no", FALSE, TRUE),
       Opt(13, 13, "modern", {}, FALSE, "unsafe", FALSE, TRUE),
       Opt(12, 12, "broken", {}, FALSE, "no", FALSE, TRUE), Resuming} \cup Elsewhere,
      {Resuming}>>

Ticket == [NoSession EXCEPT !.id = 1, !.ticket = 1, !.life = 2, !.issued = 1, !.name = "a", !.alpn = "h2",
                            !.suite = "aes128", !.policy = "modern", !.early = TRUE]
Ticket384 == [Ticket EXCEPT !.suite = "aes256", !.alpn = "http/1.1"]
MCTickets == {<<Ticket384, Ticket>>}

vars == <<hs, sessions, tickets, clock, rec>>
Connecting == HsInit /\ rec = Closed
Connected == hs = [NoConnection EXCEPT !.n = Len(Options)] /\ sessions = <<>> /\ tickets = <<>> /\ clock = MaxClock
             /\ RecInit

Quiet == hs.pc \in {"idle", "established", "failed"} /\ UNCHANGED vars
Next == (HsNext /\ UNCHANGED rec) \/ (RecNext /\ UNCHANGED hsVars) \/ Quiet
Spec == (Connecting \/ Connected) /\ [][Next]_vars
====
