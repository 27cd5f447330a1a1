---------------------------- MODULE EventArchive ----------------------------
(***************************************************************************)
(* What Giganto promises its clients, whichever interface they use: an     *)
(* archive of events, requests that are refused or answered with exactly   *)
(* the events asked for, subscriptions that are passed on what comes in,   *)
(* and the removal of nothing but what is too old.                         *)
(*                                                                         *)
(* An event is a record of its kind, the source that sent it, a middle     *)
(* part (the kind of a log, the core of a statistic, the request a packet  *)
(* belongs to, the agent of an operation log, the id of a time series), a  *)
(* timestamp and an address.  A request names a kind, a source and a       *)
(* middle part, or Unset of them, a range of time and an address or Unset. *)
(***************************************************************************)
EXTENDS Integers, FiniteSetsExt

CONSTANTS
    Events,    \* the events that may come in
    Requests,  \* what clients may ask
    Unset,     \* the absence of a condition
    Idle,      \* no request is being served
    Refused,   \* the answer to a request that is not served
    Cutoffs    \* the times before which retention may delete

VARIABLES archive, client

vars == <<archive, client>>

\* The kinds whose records carry addresses.
Addressed == {
    "Conn", "Dns", "Http", "Rdp", "Smtp", "Ntlm", "Kerberos", "Ssh", "DceRpc",
    "Ftp", "Mqtt", "Ldap", "Tls", "Smb", "Nfs", "NetworkConnect", "Netflow5",
    "Netflow9", "SecuLog"}

\* Kinds that are kept by their id or kind, whoever sent them.
Sourceless == {"PeriodicTimeSeries", "SecuLog"}

\* The events that an incoming event replaces.
Same(d, e) ==
    /\ d.kind = e.kind /\ d.mid = e.mid /\ d.time = e.time
    /\ d.source = e.source \/ d.kind \in Sourceless

\* A request that stays open and is passed on new events.
Subscription(q) == q.via \in {"hog", "crusher"}

About(q, e) ==
    e.kind = q.kind /\ q.source \in {Unset, e.source} /\ q.mid \in {Unset, e.mid}

\* What a request is to be answered with.  An address is a condition on the
\* records that have one.  A Hog is sent nothing of what is there already.
Wanted(q, e) ==
    /\ About(q, e) /\ q.via # "hog"
    /\ q.from <= e.time /\ e.time < q.to
    /\ q.addr = Unset \/ e.kind \notin Addressed \/ e.addr = q.addr

\* The newest timestamp a client was sent at first; what is older comes too
\* late for it.
Newest(es) == IF es = {} THEN 0 ELSE Max({e.time : e \in es})

Init == archive = {} /\ client = Idle

\* An event comes in, takes the place of the one that is the same, and is
\* passed on to a subscriber whom it is about.
Ingest(e) ==
    /\ archive' = {d \in archive : ~Same(d, e)} \cup {e}
    /\ client' = IF /\ client # Idle /\ client.live
                    /\ About(client.asks, e) /\ e.time >= client.since
                 THEN [client EXCEPT !.got = @ \cup {e}] ELSE client

Answered(q) ==
    LET found == {e \in archive : Wanted(q, e)}
    IN  [asks |-> q, live |-> Subscription(q), got |-> found,
         since |-> IF Subscription(q) THEN Newest(found) ELSE 0]

Turned(q) == [asks |-> q, live |-> FALSE, got |-> Refused, since |-> 0]

\* A request is answered with what it asks for, all of it and nothing else,
\* or it is refused.
Serve ==
    /\ client = Idle /\ client' # Idle
    /\ client'.asks \in Requests
    /\ client' \in {Answered(client'.asks), Turned(client'.asks)}
    /\ UNCHANGED archive

Leave == client # Idle /\ client' = Idle /\ UNCHANGED archive

\* Only what is too old goes.
Expire(cutoff) ==
    /\ archive' \subseteq archive
    /\ \A e \in archive \ archive' : e.time < cutoff
    /\ UNCHANGED client

Next ==
    \/ \E e \in archive' \cap Events : Ingest(e)
    \/ Serve
    \/ Leave
    \/ \E cutoff \in Cutoffs : Expire(cutoff)

Spec == Init /\ [][Next]_vars
=============================================================================
