---------------------------- MODULE NetworkProxy ----------------------------
(***************************************************************************)
(* The host side of a sandbox's network access                              *)
(* (solaris-process/src/network_proxy).  Each HostNetworkProxy has a        *)
(* listener thread, a job counter and a registry of active connections; the *)
(* proxies of a process share one executor: a bounded queue and a fixed set *)
(* of workers.  A connection reads requests, resolves the approved name,    *)
(* connects and relays.  Dropping a proxy sets its stop flag, shuts the     *)
(* registered sockets, joins the listener and waits for the job count to    *)
(* reach zero, while every other thread may be anywhere in its work.        *)
(*                                                                          *)
(* A request is [form, host, named, size, framing, old]: the request        *)
(* target, the Host header, whether the header arrives whole, its body      *)
(* headers, and whether it is HTTP/1.0; form "proof" is a CONNECT that asks *)
(* only for the address the proxy would connect to.  A DNS zone gives each name its addresses and its canonical names; it may   *)
(* change from one resolution to the next.                                  *)
(***************************************************************************)
EXTENDS Naturals, Sequences, FiniteSets

CONSTANTS Proxies,           \* proxies of the process
          Conns,             \* client connections
          Home,              \* the proxy each client connects to
          Hosts,             \* DNS names
          Permitted,         \* names the permission domains cover
          Addresses,         \* IP addresses
          Public,            \* the addresses is_public_destination accepts
          V6,                \* the addresses of type AAAA
          Zones,             \* what the DNS servers may answer
          Requests,          \* requests a client may send
          NoHost,
          MaxWorkers,        \* MAX_ACTIVE_PROXY_CONNECTIONS
          MaxQueue,          \* MAX_PENDING_PROXY_CONNECTIONS
          MaxAddresses,      \* MAX_RESOLVED_ADDRESSES
          MaxDepth,          \* MAX_CNAME_DEPTH
          MaxReuse           \* bound: requests on one connection

\* What the constants stand for, as far as correctness depends on it.
Network ==
  /\ IsFiniteSet(Conns) /\ Home \in [Conns -> Proxies]
  /\ Permitted \subseteq Hosts
  /\ Zones \subseteq [Hosts -> [addresses : SUBSET Addresses, canonical : SUBSET Hosts]]
  /\ {MaxWorkers, MaxQueue, MaxDepth} \subseteq Nat

VARIABLES proxy,      \* life of each proxy
          listener,   \* its listener thread
          jobs,       \* its JobTracker count
          executor,   \* the shared executor exists
          queue,      \* its channel of accepted connections
          conn        \* state of each connection

vars == <<proxy, listener, jobs, executor, queue, conn>>

Fresh == [phase |-> "new", client |-> "open", upstream |-> "none", address |-> NoHost,
          registered |-> FALSE, known |-> FALSE, tls |-> FALSE, proof |-> FALSE, target |-> NoHost,
          answer |-> "none", sent |-> 0]

Init ==
  /\ proxy = [p \in Proxies |-> "none"]
  /\ listener = [p \in Proxies |-> "none"]
  /\ jobs = [p \in Proxies |-> 0]
  /\ executor = FALSE
  /\ queue = <<>>
  /\ conn = [c \in Conns |-> Fresh]

stopped(p) == proxy[p] \notin {"none", "running"}
Handled == {c \in Conns : conn[c].phase \notin {"new", "queued", "done"}}

(***************************************************************************)
(* Name resolution.                                                         *)
(***************************************************************************)
select_response(zone, name, v6) ==
  LET found == {a \in zone[name].addresses : (a \in V6) = v6}
      names == zone[name].canonical
  IN IF found # {}
     THEN IF Cardinality(found) > MaxAddresses THEN [kind |-> "error"]
          ELSE [kind |-> "addresses", addresses |-> found]
     ELSE IF names = {} THEN [kind |-> "addresses", addresses |-> {}]
     ELSE IF Cardinality(names) = 1
          THEN [kind |-> "name", name |-> CHOOSE n \in names : TRUE]
     ELSE [kind |-> "error"]

\* One round of resolve_type's loop; `next` is what the rounds after it return.
resolve_round(zone, v6, next, name, visited) ==
  IF name \in visited THEN [kind |-> "error"]
  ELSE LET s == select_response(zone, name, v6)
       IN IF s.kind = "name" THEN next[<<s.name, visited \cup {name}>>] ELSE s

\* Its loop: `left` rounds remain, and a name that was asked is not asked again.
resolve_type(zone, host, v6) ==
  LET follow[left \in 0..(MaxDepth + 1)] ==
        [x \in Hosts \X SUBSET Hosts |->
           IF left = 0 THEN [kind |-> "error"]
           ELSE resolve_round(zone, v6, follow[left - 1], x[1], x[2])]
  IN follow[MaxDepth + 1][<<host, {}>>]

\* Mutant: one public address makes the answer acceptable.
any_acceptable(addresses) ==
  addresses \cap Public # {}

\* One private address refuses the whole answer.
acceptable(addresses) ==
  /\ addresses # {}
  /\ Cardinality(addresses) <= MaxAddresses
  /\ addresses \subseteq Public

\* The addresses resolve_with_servers returns, {} standing for an error.
resolve_with_servers(zone, host) ==
  LET v4 == resolve_type(zone, host, FALSE)
      v6 == resolve_type(zone, host, TRUE)
  IN IF "error" \in {v4.kind, v6.kind} THEN {}
     ELSE IF acceptable(v4.addresses \cup v6.addresses)
          THEN v4.addresses \cup v6.addresses ELSE {}

(***************************************************************************)
(* Requests.                                                                *)
(***************************************************************************)
permits(host) == host \in Permitted

Connect == {"connect", "proof"}

\* ProxyRequest::parse: the verdict on a request.
parse(r) ==
  IF r.size = "large" THEN "TooLarge"
  ELSE IF r.size = "cut" THEN "Incomplete"
  ELSE IF \/ r.form = "origin"
          \/ r.named \notin {r.host, NoHost}
          \/ r.named = NoHost /\ r.form \notin Connect /\ ~r.old
       THEN "Invalid"
  ELSE IF ~permits(r.host) THEN "Denied"
  ELSE "ok"

validate_connect_header(r) == r.named # NoHost /\ r.framing = "none"

\* prepare_request: one body framing, no protocol switch.
prepared(r) == r.framing \in {"none", "length", "chunked"}

\* Inside TLS the Host header must name the CONNECT authority.
prepare_tls_request(r, host) ==
  IF ~prepared(r) \/ r.named = NoHost \/ r.form # "origin" THEN "Invalid"
  ELSE IF r.named # host THEN "Denied"
  ELSE "ok"

reply(verdict) ==
  CASE verdict = "TooLarge" -> "431"
    [] verdict = "Denied"   -> "403"
    [] verdict \in {"Invalid", "Incomplete"} -> "400"

keeps_destination(target, host) == target \in {NoHost, host}

(***************************************************************************)
(* Start, the listener, and the executor's workers.                         *)
(***************************************************************************)
start_inner(p) ==
  /\ proxy[p] = "none"
  /\ proxy' = [proxy EXCEPT ![p] = "running"]
  /\ listener' = [listener EXCEPT ![p] = "check"]
  /\ executor' = TRUE
  /\ UNCHANGED <<jobs, queue, conn>>

\* The top of the accept loop reads the stop flag.
listener_checks(p) ==
  /\ listener[p] = "check"
  /\ listener' = [listener EXCEPT ![p] = IF stopped(p) THEN "done" ELSE "accept"]
  /\ UNCHANGED <<proxy, jobs, executor, queue, conn>>

listener_idles(p) ==
  /\ listener[p] = "accept"
  /\ listener' = [listener EXCEPT ![p] = "check"]
  /\ UNCHANGED <<proxy, jobs, executor, queue, conn>>

accept_connections(c) ==
  LET p == Home[c] IN
  /\ listener[p] = "accept"
  /\ conn[c].phase = "new"
  /\ listener' = [listener EXCEPT ![p] = "check"]
  /\ IF Len(queue) < MaxQueue
     THEN /\ queue' = Append(queue, c)
          /\ jobs' = [jobs EXCEPT ![p] = @ + 1]
          /\ conn' = [conn EXCEPT ![c].phase = "queued"]
     ELSE /\ conn' = [conn EXCEPT ![c].phase = "done", ![c].client = "shut",
                                  ![c].answer = "503"]
          /\ UNCHANGED <<queue, jobs>>
  /\ UNCHANGED <<proxy, executor>>

\* What the end of handle_connection leaves: the guard is dropped, then the job.
Closed(c, answer) ==
  [conn[c] EXCEPT !.phase = "done", !.registered = FALSE, !.known = FALSE,
                  !.client = "shut", !.upstream = IF @ = "none" THEN @ ELSE "shut",
                  !.answer = answer]

finish(c, answer) ==
  /\ conn' = [conn EXCEPT ![c] = Closed(c, answer)]
  /\ jobs' = [jobs EXCEPT ![Home[c]] = @ - 1]

connection_worker(c) ==
  /\ queue # <<>> /\ c = Head(queue)
  /\ Cardinality(Handled) < MaxWorkers
  /\ queue' = Tail(queue)
  /\ IF stopped(Home[c]) THEN finish(c, "none")
     ELSE conn' = [conn EXCEPT ![c].phase = "taken"] /\ UNCHANGED jobs
  /\ UNCHANGED <<proxy, listener, executor>>

(***************************************************************************)
(* The registry: register and set_upstream read the stop flag under its     *)
(* lock, the lock shutdown_all takes.                                       *)
(***************************************************************************)
\* Mutant: a connection is refused only after the sockets were shut.
refuses_once_shut(c) == proxy[Home[c]] \in {"joined", "gone"}

refuses_when_stopped(c) == stopped(Home[c])

register(c) ==
  /\ conn[c].phase = "taken"
  /\ IF refuses_when_stopped(c) THEN finish(c, "none")
     ELSE /\ conn' = [conn EXCEPT ![c].phase = "reading", ![c].registered = TRUE]
          /\ UNCHANGED jobs
  /\ UNCHANGED <<proxy, listener, executor, queue>>

set_upstream(c) ==
  /\ conn[c].phase = "connected"
  /\ IF refuses_when_stopped(c) THEN finish(c, "none")
     ELSE /\ conn' = [conn EXCEPT ![c].phase = "relaying", ![c].known = TRUE]
          /\ UNCHANGED jobs
  /\ UNCHANGED <<proxy, listener, executor, queue>>

(***************************************************************************)
(* A connection's requests.                                                 *)
(***************************************************************************)
\* The client hangs up, or its socket was shut: the read ends the connection.
read_ends(c) ==
  /\ conn[c].phase \in {"reading", "reading_tls", "handshake"}
  /\ finish(c, conn[c].answer)
  /\ UNCHANGED <<proxy, listener, executor, queue>>

Receives(c, phase, r) ==
  /\ conn[c].phase = phase /\ conn[c].client = "open"
  /\ conn[c].sent < MaxReuse
  /\ r \in Requests

read_request_header(c, r) ==
  /\ Receives(c, "reading", r)
  /\ IF parse(r) # "ok" THEN finish(c, reply(parse(r)))
     ELSE IF r.form \in Connect
     THEN IF validate_connect_header(r)
          THEN /\ conn' = [conn EXCEPT ![c].phase = IF r.form = "proof" THEN "connecting" ELSE "handshake",
                                       ![c].proof = (r.form = "proof"), ![c].target = r.host,
                                       ![c].sent = @ + 1]
               /\ UNCHANGED jobs
          ELSE finish(c, "400")
     ELSE IF r.form = "https" \/ ~keeps_destination(conn[c].target, r.host)
     THEN finish(c, "403")
     ELSE IF ~prepared(r) THEN finish(c, "400")
     ELSE /\ conn' = [conn EXCEPT ![c].phase = "connecting", ![c].proof = FALSE,
                                  ![c].target = r.host, ![c].sent = @ + 1]
          /\ UNCHANGED jobs
  /\ UNCHANGED <<proxy, listener, executor, queue>>

\* complete_server_handshake accepts only the CONNECT host's name.
handle_connect(c) ==
  /\ conn[c].phase = "handshake" /\ conn[c].client = "open"
  /\ IF stopped(Home[c]) THEN finish(c, "none")
     ELSE conn' = [conn EXCEPT ![c].phase = "reading_tls", ![c].tls = TRUE] /\ UNCHANGED jobs
  /\ UNCHANGED <<proxy, listener, executor, queue>>

next_tls_request(c, r) ==
  LET verdict == prepare_tls_request(r, conn[c].target) IN
  /\ Receives(c, "reading_tls", r)
  /\ IF stopped(Home[c]) THEN finish(c, "none")
     ELSE IF verdict # "ok" THEN finish(c, reply(verdict))
     ELSE /\ conn' = [conn EXCEPT ![c].phase = "connecting", ![c].sent = @ + 1]
          /\ UNCHANGED jobs
  /\ UNCHANGED <<proxy, listener, executor, queue>>

\* connect_public_with tries the addresses until one answers or the time is up.
connect(c, zone) ==
  /\ conn[c].phase = "connecting"
  /\ \/ /\ ~stopped(Home[c])
        /\ \E a \in resolve_with_servers(zone, conn[c].target) :
             conn' = [conn EXCEPT ![c].phase = "connected", ![c].upstream = "open",
                                  ![c].address = a]
        /\ UNCHANGED jobs
     \/ finish(c, "none")
  /\ UNCHANGED <<proxy, listener, executor, queue>>

\* The relay of one request and its answer ends; a shut socket always ends it,
\* and a proof of the address is one answer and the end of the connection.
relay_request(c, fails) ==
  /\ conn[c].phase = "relaying"
  /\ "shut" \in {conn[c].client, conn[c].upstream} => fails
  /\ IF fails \/ conn[c].proof THEN finish(c, "none")
     ELSE /\ conn' = [conn EXCEPT ![c].phase = IF conn[c].tls THEN "reading_tls" ELSE "reading",
                                  ![c].known = FALSE, ![c].upstream = "shut"]
          /\ UNCHANGED jobs
  /\ UNCHANGED <<proxy, listener, executor, queue>>

(***************************************************************************)
(* Dropping a proxy.                                                        *)
(***************************************************************************)
drop_begins(p) ==
  /\ proxy[p] = "running"
  /\ proxy' = [proxy EXCEPT ![p] = "stopping"]
  /\ UNCHANGED <<listener, jobs, executor, queue, conn>>

shutdown_all(p) ==
  /\ proxy[p] = "stopping"
  /\ proxy' = [proxy EXCEPT ![p] = "shut"]
  /\ conn' = [c \in Conns |->
                IF Home[c] = p /\ conn[c].registered
                THEN [conn[c] EXCEPT !.client = "shut",
                                     !.upstream = IF conn[c].known THEN "shut" ELSE @]
                ELSE conn[c]]
  /\ UNCHANGED <<listener, jobs, executor, queue>>

join_listener(p) ==
  /\ proxy[p] = "shut" /\ listener[p] = "done"
  /\ proxy' = [proxy EXCEPT ![p] = "joined"]
  /\ UNCHANGED <<listener, jobs, executor, queue, conn>>

\* Mutant: the drop does not wait for the workers.
waits_for_nothing(p) ==
  /\ proxy[p] = "joined"
  /\ proxy' = [proxy EXCEPT ![p] = "gone"]
  /\ executor' = (\E q \in Proxies \ {p} : proxy[q] \notin {"none", "gone"})
  /\ UNCHANGED <<listener, jobs, queue, conn>>

\* The last proxy's drop also drops the executor, which joins its workers.
wait_until_empty(p) ==
  /\ proxy[p] = "joined" /\ jobs[p] = 0
  /\ proxy' = [proxy EXCEPT ![p] = "gone"]
  /\ executor' = (\E q \in Proxies \ {p} : proxy[q] \notin {"none", "gone"})
  /\ UNCHANGED <<listener, jobs, queue, conn>>

Next ==
  \/ \E p \in Proxies : \/ start_inner(p) \/ listener_checks(p) \/ listener_idles(p)
                        \/ drop_begins(p) \/ shutdown_all(p) \/ join_listener(p)
                        \/ wait_until_empty(p)
  \/ \E c \in Conns : \/ accept_connections(c) \/ connection_worker(c) \/ register(c)
                      \/ set_upstream(c) \/ read_ends(c) \/ handle_connect(c)
                      \/ \E r \in Requests : read_request_header(c, r) \/ next_tls_request(c, r)
                      \/ \E zone \in Zones : connect(c, zone)
                      \/ \E fails \in BOOLEAN : relay_request(c, fails)

Spec == Init /\ [][Next]_vars

(***************************************************************************)
(* Properties.                                                              *)
(***************************************************************************)
TypeOK ==
  /\ proxy \in [Proxies -> {"none", "running", "stopping", "shut", "joined", "gone"}]
  /\ listener \in [Proxies -> {"none", "check", "accept", "done"}]
  /\ jobs \in [Proxies -> 0..Cardinality(Conns)]
  /\ executor \in BOOLEAN
  /\ queue \in Seq(Conns) /\ Len(queue) <= MaxQueue
  /\ Cardinality(Handled) <= MaxWorkers
  /\ \A c \in Conns :
       /\ conn[c].phase \in {"new", "queued", "taken", "reading", "handshake", "reading_tls",
                             "connecting", "connected", "relaying", "done"}
       /\ conn[c].client \in {"open", "shut"}
       /\ conn[c].upstream \in {"none", "open", "shut"}
       /\ conn[c].address \in Addresses \cup {NoHost}
       /\ conn[c].target \in Hosts \cup {NoHost}
       /\ conn[c].answer \in {"none", "400", "403", "431", "503"}

\* Dropping a proxy leaves nothing of it behind (HostNetworkProxy::drop): the
\* job count is exactly the accepted connections not yet finished, so that once
\* drop returns no client or upstream socket of the proxy is open; from
\* shutdown_all on every socket a worker could block on is shut, whichever side
\* of a registration the stop flag was set; and no connection of a proxy that is
\* still running is shut because another one stops.
DropLeavesNothing ==
  /\ \A p \in Proxies :
       /\ jobs[p] = Cardinality({c \in Conns : Home[c] = p
                                               /\ conn[c].phase \notin {"new", "done"}})
       /\ proxy[p] = "gone" =>
            \A c \in Conns : Home[c] = p =>
              /\ conn[c].phase \in {"new", "done"}
              /\ conn[c].upstream # "open"
  /\ \A c \in Conns :
       /\ proxy[Home[c]] \in {"shut", "joined"} =>
            /\ conn[c].registered => conn[c].client = "shut"
            /\ conn[c].phase = "relaying" => conn[c].upstream = "shut"
       /\ conn[c].registered /\ conn[c].client = "shut" => stopped(Home[c])
  /\ executor = (\E p \in Proxies : proxy[p] \notin {"none", "gone"})

\* A connection only ever talks to a public address that the permitted name it
\* first asked for leads to through at most MAX_CNAME_DEPTH canonical names
\* (ProxyRequest::parse, resolve_with_servers, the keep-alive check of
\* handle_connection and the Host check inside TLS).
Leads(zone, host, address) ==
  \E n \in 0..MaxDepth : \E path \in [0..n -> Hosts] :
    /\ path[0] = host
    /\ \A k \in 1..n : path[k] \in zone[path[k - 1]].canonical
    /\ address \in zone[path[n]].addresses

OnlyApprovedDestinations ==
  \A c \in Conns : conn[c].upstream = "open" =>
    /\ conn[c].target \in Permitted
    /\ conn[c].address \in Public
    /\ \E zone \in Zones : Leads(zone, conn[c].target, conn[c].address)

\* Dropping a proxy leaves no thread or socket of it and touches no other, and
\* a connection talks only to a public address of a permitted name.
DestinationsMediated == DropLeavesNothing /\ OnlyApprovedDestinations

\* Fairness for the drop: threads run; a read or relay on a shut socket returns.
\* A relay whose sockets are open may last as long as its peers like.
Fairness ==
  /\ \A p \in Proxies : /\ WF_vars(listener_checks(p)) /\ WF_vars(listener_idles(p))
                        /\ WF_vars(shutdown_all(p)) /\ WF_vars(join_listener(p))
                        /\ WF_vars(wait_until_empty(p))
  /\ \A c \in Conns :
       /\ WF_vars(connection_worker(c)) /\ WF_vars(register(c)) /\ WF_vars(set_upstream(c))
       /\ WF_vars(conn[c].client = "shut" /\ read_ends(c))
       /\ WF_vars(\E zone \in Zones : connect(c, zone))
       /\ WF_vars(conn[c].upstream = "shut" /\ relay_request(c, TRUE))

FairSpec == Spec /\ Fairness

\* Every worker serves a connection of another proxy.
HeldByOthers(p) == Cardinality({c \in Handled : Home[c] # p}) >= MaxWorkers

\* Dropping a proxy returns: no worker stays blocked on one of its sockets.  The
\* workers are shared and the drop waits for the proxy's queued jobs, so it
\* returns only if the relays of other proxies do not hold every worker for ever.
DropReturns ==
  \A p \in Proxies : []<>~HeldByOthers(p) => (proxy[p] = "stopping" ~> proxy[p] = "gone")
=============================================================================
