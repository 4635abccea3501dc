---------------------------- MODULE RateLimiter ----------------------------
(***************************************************************************)
(* Who may call the API, and how often: APIKeyAuthMiddleware and inside it *)
(* RateLimitMiddleware (api/presentation/middleware).  Both decide without *)
(* a suspension, so a request is one action.  The log of a caller holds    *)
(* the times of the requests let through on ANY path; each path compares   *)
(* its own limit with it.  time.time() is taken not to go backwards.       *)
(***************************************************************************)
EXTENDS Naturals, Sequences, FiniteSets

CONSTANTS ApiKeys,     \* settings.API_KEYS; {} turns authentication off
          Hosts,       \* request.client.host of those who call
          Paths,       \* the prefixes of _RATE_LIMITS
          Limit,       \* _get_rate_limit
          Second,      \* ticks of the clock in a second
          Window,      \* _WINDOW, in ticks
          MaxTime      \* bound: the last tick

ASSUME LimiterAssumption == /\ IsFiniteSet(Paths) /\ Paths # {}
                            /\ Limit \in [Paths -> Nat \ {0}]
                            /\ Second \in Nat \ {0} /\ Window \in Nat \ {0}
                            /\ MaxTime \in Nat

Credentials == ApiKeys \cup {"none"}

Callers == IF ApiKeys = {} THEN Hosts ELSE ApiKeys

VARIABLES now,         \* time.time()
          log,         \* _request_log
          admitted,    \* history: what each caller was let do, and when
          promise      \* history: the time a 429 told the caller to wait for

vars == <<now, log, admitted, promise>>

MaxLimit == CHOOSE n \in {Limit[p] : p \in Paths} : \A p \in Paths : Limit[p] <= n

TypeOK == /\ now \in 0 .. MaxTime
          /\ log \in [Callers -> Seq(0 .. now)]
          /\ \A k \in Callers : Len(log[k]) <= MaxLimit
          /\ admitted \in [Callers -> Seq([at : 0 .. now, path : Paths])]
          /\ promise \in [Callers -> [Paths -> Nat]]

NoPromise == [p \in Paths |-> 0]

Init == /\ now = 0
        /\ log = [k \in Callers |-> <<>>]
        /\ admitted = [k \in Callers |-> <<>>]
        /\ promise = [k \in Callers |-> NoPromise]

Tick == /\ now < MaxTime
        /\ now' = now + 1
        /\ UNCHANGED <<log, admitted, promise>>

\* A wrong or missing key is answered 401 before the limiter sees it.
Authorized(c) == ApiKeys = {} \/ c \in ApiKeys

\* The key the limiter counts under.
CallerOf(h, c) == IF ApiKeys = {} THEN h ELSE c

\* Mutant of Recent: an entry leaves the window one tick early.
RecentEarly(k) ==
    SubSeq(log[k], Cardinality({i \in DOMAIN log[k] : log[k][i] + Window <= now + 1}) + 1, Len(log[k]))

\* Mutant of Recent: nothing is removed while the list is short.
RecentLazy(k) ==
    IF Len(log[k]) < MaxLimit THEN log[k]
    ELSE SubSeq(log[k], Cardinality({i \in DOMAIN log[k] : log[k][i] + Window <= now}) + 1, Len(log[k]))

\* The entries that have left the window.
Expired(k) == {i \in DOMAIN log[k] : log[k][i] + Window <= now}

\* _clean_old_entries: the list is in order of time, so it filters out its head.
Recent(k) == SubSeq(log[k], Cardinality(Expired(k)) + 1, Len(log[k]))

\* Mutant of RetryAfter: the part of a second that int() drops is not made up for.
RetryTruncated(k) == (Window - (now - Head(Recent(k)))) \div Second

\* Retry-After, in whole seconds: int() of what is left until the oldest entry
\* leaves the window, and one more.
RetryAfter(k) == ((Window - (now - Head(Recent(k)))) \div Second) + 1

Admit(h, c, p) ==
    LET k == CallerOf(h, c) IN
    /\ Authorized(c)
    /\ Len(Recent(k)) < Limit[p]
    /\ log' = [log EXCEPT ![k] = Append(Recent(k), now)]
    /\ admitted' = [admitted EXCEPT ![k] = Append(@, [at |-> now, path |-> p])]
    /\ promise' = [promise EXCEPT ![k] = NoPromise]
    /\ UNCHANGED now

\* Mutant of Refuse: a refused request counts as well.
RefuseCounted(h, c, p) ==
    LET k == CallerOf(h, c) IN
    /\ Authorized(c)
    /\ Len(Recent(k)) >= Limit[p]
    /\ log' = [log EXCEPT ![k] = Append(Recent(k), now)]
    /\ promise' = [promise EXCEPT ![k][p] = now + Second * RetryAfter(k)]
    /\ UNCHANGED <<now, admitted>>

Refuse(h, c, p) ==
    LET k == CallerOf(h, c) IN
    /\ Authorized(c)
    /\ Len(Recent(k)) >= Limit[p]
    /\ log' = [log EXCEPT ![k] = Recent(k)]
    /\ promise' = [promise EXCEPT ![k][p] = now + Second * RetryAfter(k)]
    /\ UNCHANGED <<now, admitted>>

Next == \/ Tick
        \/ \E h \in Hosts, c \in Credentials, p \in Paths : Admit(h, c, p) \/ Refuse(h, c, p)

Spec == Init /\ [][Next]_vars
-----------------------------------------------------------------------------
(* How often k was let through in the window that ends at time t. *)
Count(k, t) == Cardinality({i \in DOMAIN admitted[k] : /\ admitted[k][i].at <= t
                                                       /\ admitted[k][i].at + Window > t})

(* Whatever mix of paths a caller uses, no request is let through as more  *)
(* than the limit-th of its path in a window, although the limiter forgets *)
(* entries as it goes.                                                     *)
WithinLimit ==
    \A k \in Callers : \A i \in DOMAIN admitted[k] :
       Cardinality({j \in 1 .. i : admitted[k][j].at + Window > admitted[k][i].at})
          <= Limit[admitted[k][i].path]

(* A caller is refused only when the window really holds as many of its    *)
(* requests as the path allows: neither requests that were refused nor     *)
(* ones that have left the window count against it.                        *)
RefusedForCause ==
    [][\A h \in Hosts, c \in Credentials, p \in Paths :
          Refuse(h, c, p) => Count(CallerOf(h, c), now) >= Limit[p]]_vars

(* When the time a 429 told a caller to wait for has come, and it was not   *)
(* let through anywhere since, the path lets it through.                   *)
Kept(p) == \A k \in Callers : LET t == promise[k][p] IN
              t = 0 \/ now < t \/ Len(Recent(k)) < Limit[p]

(* A caller that makes no other request and comes back when Retry-After    *)
(* said is let through, on the path with the largest limit: the fraction   *)
(* of a second that int() drops is made up for.                            *)
RetryAfterKeptOnWidest == \A p \in Paths : Limit[p] = MaxLimit => Kept(p)

(* rate_limiter.py:74 says so to every refused caller ("Retry after Ns."), *)
(* but on a narrower path more than one entry may have to leave.           *)
RetryAfterKept == \A p \in Paths : Kept(p)
=============================================================================
