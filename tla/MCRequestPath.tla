---------------------------- MODULE MCRequestPath ----------------------------
(* Requests that meet at a limit, and requests of a few kinds of users.    *)
EXTENDS RequestPath

CONSTANTS r1, r2, r3, ann, ben, sue, kiosk, zoe, app, portal, acme, brown, agency

MCSystemUser == (portal :> kiosk) @@ (app :> None)

Token(l, e, c) == [login |-> l, email |-> e, cid |-> c]
Koddi(u) == Token(None, [name |-> u, suffix |-> "+kap"], app)
Kong(u) == Token(u, None, app)
Api == Token(None, None, portal)
Unreadable == Token(None, None, None)

Sent(kind, header, token, account) ==
    [kind |-> kind, header |-> header, token |-> token, account |-> account, valid |-> TRUE]
With(kind, token, account) == Sent(kind, "bearer", token, account)
Nobody == Sent("none", "none", Unreadable, None)

Off == [cache |-> FALSE, limit |-> FALSE, backoff |-> FALSE, tokenRetry |-> FALSE,
        identity |-> TRUE, skipInternal |-> FALSE, consumers |-> FALSE]

Mix(a, b, c, f, n, t) ==
    [ask |-> (r1 :> a) @@ (r2 :> b) @@ (r3 :> c), flags |-> f, waiting |-> {}, faults |-> 0,
     before |-> [count |-> n, ttl |-> t]]

Waiting(rs, mix) == [mix EXCEPT !.waiting = rs]
Faultless(mix) == [mix EXCEPT !.faults = MaxFaults]

Limits_ == [Off EXCEPT !.limit = TRUE, !.backoff = TRUE]
Caches == [Off EXCEPT !.cache = TRUE]

Report == With("report", Kong(sue), None)
Campaigns == With("campaigns", Kong(sue), None)
Contacts(t, a) == With("contacts", t, a)
Addresses(t, a) == With("addresses", t, a)

MCMixes ==
    {Waiting({r1, r2}, Mix(Report, Report, Nobody, Limits_, 1, Window)),
     Waiting({r1, r2}, Mix(Campaigns, Campaigns, Nobody, Limits_, Limit, Endless)),
     Waiting({r1}, Mix(Campaigns, Nobody, Nobody, Limits_, Limit, Window + 1)),
     Faultless(Waiting({r1, r2, r3}, Mix(Report, Report, Report, Limits_, 0, Gone))),
     Mix(Campaigns, Nobody, Nobody, Limits_, 1, Window),
     Mix(Campaigns, Report, Nobody, [Limits_ EXCEPT !.backoff = FALSE], Limit, Window),
     Mix(Report, Nobody, Nobody, [Off EXCEPT !.tokenRetry = TRUE], 0, Gone),
     Mix([Report EXCEPT !.valid = FALSE], Sent("report", "none", Unreadable, None),
         Sent("contacts", "odd", Unreadable, acme), Caches, 0, Gone),
     Mix(Contacts(Unreadable, acme), Contacts(Kong(zoe), acme), Nobody, Caches, 0, Gone),
     Mix(Contacts(Unreadable, acme), Contacts(Api, acme), Nobody, Off, 0, Gone),
     Mix(Contacts(Kong(ann), acme), Contacts(Koddi(ben), acme), Nobody, Caches, 0, Gone),
     Mix(Contacts(Kong(ann), acme), Contacts(Kong(ann), brown), Nobody, Caches, 0, Gone),
     Mix(Contacts(Kong(ann), acme), Contacts(Koddi(ben), acme), Nobody,
         [Caches EXCEPT !.identity = FALSE], 0, Gone),
     Mix(Contacts(Koddi(ben), brown), Addresses(Koddi(ben), acme), Nobody, Off, 0, Gone),
     Mix(Addresses(Api, acme), Contacts(Kong(sue), acme), Nobody,
         [Caches EXCEPT !.consumers = TRUE, !.skipInternal = TRUE], 0, Gone)}

MCProfile ==
    [u \in Users |-> [name |-> u, active |-> u # zoe, consumer |-> u = kiosk]]

MCAccessBefore ==
    [u \in Users |-> [internal |-> u = sue,
                      agency |-> IF u = ben THEN agency ELSE None,
                      accounts |-> IF u \in {ann, kiosk} THEN {acme} ELSE IF u = ben THEN {brown} ELSE {}]]

MCRolesOf == [u \in Users |-> IF u = zoe THEN {} ELSE {"ADVERTISER_API"}]

Finished == (\A r \in Requests : at[r] = "answered") /\ UNCHANGED vars

(* Where it is about the limit, a request that is let in is at its end     *)
(* before anything else happens: what it does there concerns no other.     *)
LetIn == {r \in Requests : flags.limit /\ at[r] \in {"token", "post", "roles", "search"}}

MCNext ==
    \/ LetIn = {} /\ Next
    \/ \E r \in LetIn : PathStep(r)

MCSpec == Init /\ [][MCNext \/ Finished]_vars /\ WF_vars(MCNext)
=============================================================================
