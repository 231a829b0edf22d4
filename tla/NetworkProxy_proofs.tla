------------------------- MODULE NetworkProxy_proofs -------------------------
(* Dropping a proxy leaves nothing behind, and connections reach only public  *)
(* addresses of permitted names: for any number of proxies, connections,      *)
(* requests and DNS answers, and any bounds of the queue and the workers.     *)
EXTENDS NetworkProxy, FiniteOrders, TLAPS

\* A leaf that needs arithmetic, sequences or records cites SMT instead.
USE ZenonT(20)

-----------------------------------------------------------------------------
(* The inductive invariant.                                                   *)

\* The phases in which a connection is registered.
Live == {"reading", "handshake", "reading_tls", "connecting", "connected", "relaying"}
\* Those in which a name was asked for and found permitted.
Asked == Live \ {"reading"}
Phases == {"new", "queued", "taken", "done"} \cup Live
Stages == {"none", "running", "stopping", "shut", "joined", "gone"}
Answers == {"none", "400", "403", "431", "503"}
Connections == [phase : Phases, client : {"open", "shut"}, upstream : {"none", "open", "shut"},
                address : Addresses \cup {NoHost}, registered : BOOLEAN, known : BOOLEAN,
                tls : BOOLEAN, proof : BOOLEAN, target : Hosts \cup {NoHost}, answer : Answers, sent : Nat]

Typing ==
  /\ proxy \in [Proxies -> Stages]
  /\ listener \in [Proxies -> {"none", "check", "accept", "done"}]
  /\ jobs \in [Proxies -> Int]
  /\ queue \in Seq(Conns)
  /\ conn \in [Conns -> Connections]

\* A connection knows where it goes: what it asked for is permitted, and the
\* address it talks to is public and one the name leads to.
Directed(r) ==
  /\ r.phase \in Asked => r.target \in Permitted
  /\ r.upstream = "open" =>
       /\ r.phase \in {"connected", "relaying"}
       /\ r.address \in Public /\ \E zone \in Zones : Leads(zone, r.target, r.address)

\* What the registry knows of a connection r whose proxy is in stage st.
Registered(r, st) ==
  /\ (r.registered <=> r.phase \in Live) /\ (r.known <=> r.phase = "relaying")
  /\ r.phase \in {"new", "queued", "taken"} => r.client = "open"
  /\ r.phase \in Live /\ r.client = "shut" => st \notin {"none", "running"}
  /\ st \in {"shut", "joined"} =>
       /\ r.phase \in Live => r.client = "shut"
       /\ r.phase = "relaying" => r.upstream = "shut"
  /\ st = "gone" => r.phase \in {"new", "done"}

Connected == \A c \in Conns : Directed(conn[c]) /\ Registered(conn[c], proxy[Home[c]])

\* The channel holds accepted connections, each of them once.
Accepted ==
  /\ \A i \in 1..Len(queue) : conn[queue[i]].phase = "queued"
  /\ \A i, j \in 1..Len(queue) : i # j => queue[i] # queue[j]

\* The job count is that of the accepted connections which are not finished.
Jobs(p) == {c \in Conns : Home[c] = p /\ conn[c].phase \notin {"new", "done"}}
Counted == \A p \in Proxies : jobs[p] = Cardinality(Jobs(p))

\* A listener that was joined does not accept any more.
Listening ==
  \A p \in Proxies : /\ proxy[p] \in {"joined", "gone"} => listener[p] = "done"
                     /\ proxy[p] = "none" => listener[p] = "none"

Executing == executor = (\E p \in Proxies : proxy[p] \notin {"none", "gone"})

\* The queue and the workers have a limit.
Bounded == Len(queue) <= MaxQueue /\ Cardinality(Handled) <= MaxWorkers

IInv == Typing /\ Connected /\ Accepted /\ Counted /\ Listening /\ Executing /\ Bounded

-----------------------------------------------------------------------------
(* Name resolution: what it returns is where the name leads.                  *)

Zone == [Hosts -> [addresses : SUBSET Addresses, canonical : SUBSET Hosts]]
Questions == Hosts \X SUBSET Hosts
Failure == [kind |-> "error"]

\* One answer is refused, gives addresses of the name, or its canonical name.
Selects(s, z) ==
  \/ s.kind = "error"
  \/ s.kind = "addresses" /\ s.addresses \subseteq z.addresses
  \/ s.kind = "name" /\ s.name \in z.canonical

LEMMA Selected ==
  ASSUME NEW zone, NEW name, NEW v6
  PROVE  Selects(select_response(zone, name, v6), zone[name])
<1> DEFINE found == {a \in zone[name].addresses : (a \in V6) = v6}
           names == zone[name].canonical
           s == select_response(zone, name, v6)
<1>1. CASE s = [kind |-> "error"]
  BY <1>1, SMTT(30) DEF Selects
<1>2. CASE s = [kind |-> "addresses", addresses |-> found]
  BY <1>2, SMTT(30) DEF Selects
<1>3. CASE s = [kind |-> "addresses", addresses |-> {}]
  BY <1>3, SMTT(30) DEF Selects
<1>4. CASE names # {} /\ s = [kind |-> "name", name |-> CHOOSE n \in names : TRUE]
  <2>1. (CHOOSE n \in names : TRUE) \in names
    BY <1>4
  <2> QED BY <1>4, <2>1, SMTT(30) DEF Selects
<1>5. \/ s = [kind |-> "error"] \/ s = [kind |-> "addresses", addresses |-> found]
      \/ s = [kind |-> "addresses", addresses |-> {}]
      \/ names # {} /\ s = [kind |-> "name", name |-> CHOOSE n \in names : TRUE]
  BY DEF select_response
<1> QED BY <1>1, <1>2, <1>3, <1>4, <1>5

\* f[n] answers every question when n rounds are left.
Rounds(f, zone, v6, N) ==
  /\ f = [n \in 0..N |-> f[n]]
  /\ f[0] = [x \in Questions |-> Failure]
  /\ \A n \in 1..N : f[n] = [x \in Questions |-> resolve_round(zone, v6, f[n - 1], x[1], x[2])]

\* There are such rounds, and resolve_type answers as the last of them.
LEMMA ResolveRounds ==
  ASSUME NEW zone, NEW v6, NEW host, MaxDepth \in Nat
  PROVE  \E f : /\ Rounds(f, zone, v6, MaxDepth + 1)
                /\ resolve_type(zone, host, v6) = f[MaxDepth + 1][<<host, {}>>]
<1> DEFINE L == MaxDepth + 1
           S == {N \in 0..L : \E f : Rounds(f, zone, v6, N)}
           Is(f) == f = [left \in 0..(MaxDepth + 1) |->
                           [x \in Hosts \X SUBSET Hosts |->
                              IF left = 0 THEN [kind |-> "error"]
                              ELSE resolve_round(zone, v6, f[left - 1], x[1], x[2])]]
           follow == CHOOSE f : Is(f)
<1>1. L \in Nat
  BY SMTT(30)
<1>2. 0 \in S
  <2> DEFINE f == [n \in 0..0 |-> [x \in Questions |-> Failure]]
  <2>1. 0 \in 0..L /\ 0 \in 0..0 /\ \A n \in 1..0 : FALSE
    BY <1>1, SMTT(30)
  <2>2. Rounds(f, zone, v6, 0)
    BY <2>1 DEF Rounds
  <2> QED BY <2>1, <2>2
<1>3. ASSUME NEW N \in 1..L, N - 1 \in S PROVE N \in S
  <2>1. PICK f : Rounds(f, zone, v6, N - 1)
    BY <1>3
  <2> DEFINE v == [x \in Questions |-> resolve_round(zone, v6, f[N - 1], x[1], x[2])]
             g == [n \in 0..N |-> IF n = N THEN v ELSE f[n]]
  <2>2. /\ N \in 0..L /\ N \in 0..N /\ 0 \in 0..N /\ 0 # N /\ N - 1 \in 0..N /\ N - 1 # N
        /\ \A n \in 1..N : n \in 0..N /\ n - 1 \in 0..N /\ n - 1 # N /\ (n # N => n \in 1..(N - 1))
    BY <1>1, SMTT(30)
  <2>3. /\ g = [n \in 0..N |-> g[n]] /\ g[N] = v /\ g[N - 1] = f[N - 1]
        /\ g[0] = f[0] /\ \A n \in 0..N : n # N => g[n] = f[n]
    BY <2>2
  <2> HIDE DEF g
  <2>4. ASSUME NEW n \in 1..N
        PROVE  g[n] = [x \in Questions |-> resolve_round(zone, v6, g[n - 1], x[1], x[2])]
    <3>1. CASE n = N
      BY <2>3, <3>1
    <3>2. CASE n # N
      <4>1. f[n] = [x \in Questions |-> resolve_round(zone, v6, f[n - 1], x[1], x[2])]
        BY <2>1, <2>2, <3>2 DEF Rounds
      <4> QED BY <2>2, <2>3, <3>2, <4>1
    <3> QED BY <3>1, <3>2
  <2>5. Rounds(g, zone, v6, N)
    BY <2>1, <2>3, <2>4 DEF Rounds
  <2> QED BY <2>2, <2>5
<1>4. L \in S
  <2> HIDE DEF S, L
  <2>1. L \in 0..L
    BY <1>1, SMTT(30)
  <2> QED BY <1>1, <1>2, <1>3, <2>1, UpTo
<1>5. PICK h : Rounds(h, zone, v6, L)
  BY <1>4
<1>6. Is(h)
  <2>1. ASSUME NEW n \in 0..L
        PROVE  h[n] = [x \in Questions |->
                         IF n = 0 THEN Failure ELSE resolve_round(zone, v6, h[n - 1], x[1], x[2])]
    <3>1. n # 0 => n \in 1..L
      BY <1>1, SMTT(30)
    <3>2. CASE n = 0
      BY <1>5, <3>2 DEF Rounds
    <3>3. CASE n # 0
      BY <1>5, <3>1, <3>3 DEF Rounds
    <3> QED BY <3>2, <3>3
  <2> QED BY <1>5, <2>1 DEF Rounds, Questions, Failure
<1>7. Is(follow)
  BY <1>6
<1>8. Rounds(follow, zone, v6, L)
  <2>1. 0 \in 0..L /\ \A n \in 1..L : n \in 0..L /\ n # 0
    BY <1>1, SMTT(30)
  <2>2. \A n \in 0..L : follow[n] = [x \in Questions |->
            IF n = 0 THEN Failure ELSE resolve_round(zone, v6, follow[n - 1], x[1], x[2])]
    <3> HIDE DEF follow
    <3> QED BY <1>7 DEF Questions, Failure
  <2>3. follow = [n \in 0..L |-> follow[n]]
    <3> HIDE DEF follow
    <3> QED BY <1>7
  <2> HIDE DEF follow, Is, L
  <2>4. follow[0] = [x \in Questions |-> Failure]
    BY <2>1, <2>2
  <2>5. \A n \in 1..L : follow[n] = [x \in Questions |-> resolve_round(zone, v6, follow[n - 1], x[1], x[2])]
    BY <2>1, <2>2
  <2> QED BY <2>3, <2>4, <2>5 DEF Rounds
<1>9. resolve_type(zone, host, v6) = follow[L][<<host, {}>>]
  BY DEF resolve_type
<1> QED BY <1>8, <1>9

\* n canonical names lead from host to name.
Reaches(zone, host, n, name) ==
  \E path \in [0..n -> Hosts] :
    /\ path[0] = host /\ path[n] = name
    /\ \A k \in 1..n : path[k] \in zone[path[k - 1]].canonical

LEMMA ReachesSelf ==
  ASSUME NEW zone, NEW host \in Hosts
  PROVE  Reaches(zone, host, 0, host)
<1> DEFINE path == [k \in 0..0 |-> host]
<1>1. 0 \in 0..0 /\ \A k \in 1..0 : FALSE
  BY SMTT(30)
<1>2. path \in [0..0 -> Hosts] /\ path[0] = host
  BY <1>1
<1> HIDE DEF path
<1> QED BY <1>1, <1>2 DEF Reaches

LEMMA ReachesNext ==
  ASSUME NEW zone \in Zone, NEW host, NEW n \in Nat, NEW name \in Hosts,
         Reaches(zone, host, n, name), NEW alias \in zone[name].canonical
  PROVE  alias \in Hosts /\ Reaches(zone, host, n + 1, alias)
<1>1. alias \in Hosts
  BY SMTT(30) DEF Zone
<1>2. PICK path \in [0..n -> Hosts] :
        /\ path[0] = host /\ path[n] = name
        /\ \A k \in 1..n : path[k] \in zone[path[k - 1]].canonical
  BY DEF Reaches
<1> DEFINE longer == [k \in 0..(n + 1) |-> IF k = n + 1 THEN alias ELSE path[k]]
<1>3. /\ 0 \in 0..(n + 1) /\ n + 1 \in 0..(n + 1) /\ 0 # n + 1
      /\ \A k \in 0..(n + 1) : k # n + 1 => k \in 0..n
      /\ \A k \in 1..(n + 1) : /\ k \in 0..(n + 1) /\ k - 1 \in 0..(n + 1) /\ k - 1 # n + 1
                               /\ k = n + 1 => k - 1 = n
                               /\ k # n + 1 => k \in 1..n
  BY SMTT(30)
<1>4. /\ longer \in [0..(n + 1) -> Hosts] /\ longer[n + 1] = alias
      /\ \A k \in 0..(n + 1) : k # n + 1 => longer[k] = path[k]
  BY <1>1, <1>2, <1>3
<1> HIDE DEF longer
<1>5. ASSUME NEW k \in 1..(n + 1)
      PROVE  longer[k] \in zone[longer[k - 1]].canonical
  <2>1. longer[k - 1] = path[k - 1]
    BY <1>3, <1>4
  <2>2. CASE k = n + 1
    BY <1>2, <1>3, <1>4, <2>1, <2>2
  <2>3. CASE k # n + 1
    BY <1>2, <1>3, <1>4, <2>1, <2>3
  <2> QED BY <2>2, <2>3
<1>6. longer[0] = host
  BY <1>2, <1>3, <1>4
<1> QED BY <1>1, <1>4, <1>5, <1>6 DEF Reaches

\* An answer that is no error gives addresses the host leads to.
Led(zone, host, answer) ==
  answer.kind = "error" \/ \A a \in answer.addresses : a \in Addresses /\ Leads(zone, host, a)

LEMMA LedByReached ==
  ASSUME NEW zone \in Zone, NEW host, NEW n \in 0..MaxDepth, NEW name \in Hosts,
         Reaches(zone, host, n, name), NEW a \in zone[name].addresses
  PROVE  a \in Addresses /\ Leads(zone, host, a)
<1>1. a \in Addresses
  BY SMTT(30) DEF Zone
<1>2. PICK path \in [0..n -> Hosts] :
        /\ path[0] = host /\ path[n] = name
        /\ \A k \in 1..n : path[k] \in zone[path[k - 1]].canonical
  BY DEF Reaches
<1> QED BY <1>1, <1>2 DEF Leads

\* A round leads where the rounds after it lead, or to the name's own addresses.
LEMMA RoundLeads ==
  ASSUME NEW zone \in Zone, NEW host, NEW v6, MaxDepth \in Nat,
         NEW n \in 0..MaxDepth, NEW name \in Hosts, NEW visited \in SUBSET Hosts,
         Reaches(zone, host, n, name), NEW next,
         \A m \in Hosts, V \in SUBSET Hosts :
           Reaches(zone, host, n + 1, m) => Led(zone, host, next[<<m, V>>])
  PROVE  Led(zone, host, resolve_round(zone, v6, next, name, visited))
<1> DEFINE s == select_response(zone, name, v6)
<1>1. Selects(s, zone[name])
  BY Selected
<1> HIDE DEF s
<1>2. n \in Nat
  BY SMTT(30)
<1>3. CASE name \in visited
  <2>1. resolve_round(zone, v6, next, name, visited) = [kind |-> "error"]
    BY <1>3 DEF resolve_round
  <2>2. [kind |-> "error"].kind = "error"
    BY SMTT(30)
  <2> QED BY <2>1, <2>2 DEF Led
<1>4. CASE name \notin visited /\ s.kind = "name"
  <2>1. resolve_round(zone, v6, next, name, visited) = next[<<s.name, visited \cup {name}>>]
    BY <1>4 DEF resolve_round, s
  <2>2. s.name \in zone[name].canonical
    BY <1>1, <1>4 DEF Selects
  <2>3. s.name \in Hosts /\ Reaches(zone, host, n + 1, s.name)
    BY <1>2, <2>2, ReachesNext
  <2>4. visited \cup {name} \in SUBSET Hosts
    OBVIOUS
  <2> QED BY <2>1, <2>3, <2>4
<1>5. CASE name \notin visited /\ s.kind # "name"
  <2>1. resolve_round(zone, v6, next, name, visited) = s
    BY <1>5 DEF resolve_round, s
  <2>2. s.kind = "error" \/ s.addresses \subseteq zone[name].addresses
    BY <1>1, <1>5 DEF Selects
  <2>3. \A a \in zone[name].addresses : a \in Addresses /\ Leads(zone, host, a)
    BY LedByReached
  <2> QED BY <2>1, <2>2, <2>3 DEF Led
<1> QED BY <1>3, <1>4, <1>5

\* resolve_type returns only addresses that the host leads to through at most
\* MAX_CNAME_DEPTH canonical names.
LEMMA TypeLeads ==
  ASSUME NEW zone \in Zone, NEW host \in Hosts, NEW v6, MaxDepth \in Nat
  PROVE  Led(zone, host, resolve_type(zone, host, v6))
<1> DEFINE L == MaxDepth + 1
<1>1. PICK f : Rounds(f, zone, v6, L) /\ resolve_type(zone, host, v6) = f[L][<<host, {}>>]
  BY ResolveRounds
<1> DEFINE Leading(n) == \A m \in Hosts, V \in SUBSET Hosts :
                           Reaches(zone, host, L - n, m) => Led(zone, host, f[n][<<m, V>>])
           S == {n \in 0..L : Leading(n)}
<1>2. L \in Nat /\ 0 \in 0..L /\ L \in 0..L /\ L - L = 0
  BY SMTT(30)
<1>3. 0 \in S
  <2>1. ASSUME NEW m \in Hosts, NEW V \in SUBSET Hosts PROVE Led(zone, host, f[0][<<m, V>>])
    <3>1. f[0][<<m, V>>] = [kind |-> "error"]
      BY <1>1 DEF Rounds, Questions, Failure
    <3>2. [kind |-> "error"].kind = "error"
      BY SMTT(30)
    <3> QED BY <3>1, <3>2 DEF Led
  <2> QED BY <1>2, <2>1
<1>4. ASSUME NEW n \in 1..L, n - 1 \in S PROVE n \in S
  <2>1. /\ n \in 0..L /\ L - n \in 0..MaxDepth /\ L - (n - 1) = (L - n) + 1
    BY <1>2, SMTT(30)
  <2> DEFINE d == L - n
  <2>2. \A m \in Hosts, V \in SUBSET Hosts :
          Reaches(zone, host, d + 1, m) => Led(zone, host, f[n - 1][<<m, V>>])
    BY <1>4, <2>1
  <2>3. ASSUME NEW m \in Hosts, NEW V \in SUBSET Hosts, Reaches(zone, host, d, m)
        PROVE  Led(zone, host, f[n][<<m, V>>])
    <3>1. f[n][<<m, V>>] = resolve_round(zone, v6, f[n - 1], m, V)
      <4>1. <<m, V>> \in Questions
        BY DEF Questions
      <4>2. f[n] = [x \in Questions |-> resolve_round(zone, v6, f[n - 1], x[1], x[2])]
        BY <1>1 DEF Rounds
      <4>3. <<m, V>>[1] = m /\ <<m, V>>[2] = V
        OBVIOUS
      <4> QED BY <4>1, <4>2, <4>3
    <3>2. d \in 0..MaxDepth
      BY <2>1
    <3> HIDE DEF d
    <3> QED BY <2>2, <2>3, <3>1, <3>2, RoundLeads
  <2> QED BY <2>1, <2>3
<1>5. L \in S
  <2> HIDE DEF S, L
  <2> QED BY <1>2, <1>3, <1>4, UpTo
<1>6. Led(zone, host, f[L][<<host, {}>>])
  <2>1. Reaches(zone, host, L - L, host)
    BY <1>2, ReachesSelf
  <2> QED BY <1>5, <2>1
<1> QED BY <1>1, <1>6

\* One private address refuses the answer, so all that are returned are public.
LEMMA Resolved ==
  ASSUME Network, NEW zone \in Zones, NEW host \in Hosts,
         NEW a \in resolve_with_servers(zone, host)
  PROVE  a \in Addresses /\ a \in Public /\ Leads(zone, host, a)
<1> DEFINE v4 == resolve_type(zone, host, FALSE)
           v6 == resolve_type(zone, host, TRUE)
<1>1. zone \in Zone /\ MaxDepth \in Nat
  BY DEF Network, Zone
<1>2. Led(zone, host, v4) /\ Led(zone, host, v6)
  BY <1>1, TypeLeads
<1>3. /\ v4.kind # "error" /\ v6.kind # "error"
      /\ a \in v4.addresses \cup v6.addresses /\ acceptable(v4.addresses \cup v6.addresses)
  BY DEF resolve_with_servers
<1> HIDE DEF v4, v6
<1> QED BY <1>2, <1>3 DEF Led, acceptable

-----------------------------------------------------------------------------
(* One connection changes.                                                    *)

LEMMA Replaced ==
  ASSUME Network, Typing, Connected, proxy' = proxy,
         NEW c \in Conns, NEW r \in Connections, Directed(r), Registered(r, proxy[Home[c]]),
         conn' = [conn EXCEPT ![c] = r]
  PROVE  /\ conn' \in [Conns -> Connections] /\ Connected'
         /\ conn'[c] = r /\ \A d \in Conns : d # c => conn'[d] = conn[d]
<1>1. /\ conn' \in [Conns -> Connections]
      /\ conn'[c] = r /\ \A d \in Conns : d # c => conn'[d] = conn[d]
  BY DEF Typing
<1>2. ASSUME NEW d \in Conns PROVE Directed(conn'[d]) /\ Registered(conn'[d], proxy[Home[d]])
  <2>1. CASE d = c
    BY <1>1, <2>1
  <2>2. CASE d # c
    BY <1>1, <2>2 DEF Connected
  <2> QED BY <2>1, <2>2
<1>3. Connected'
  BY <1>2 DEF Connected
<1> QED BY <1>1, <1>3

LEMMA QueueKept ==
  ASSUME Typing, Accepted, queue' = queue, NEW c \in Conns, conn[c].phase # "queued",
         \A d \in Conns : d # c => conn'[d] = conn[d]
  PROVE  Accepted'
<1>1. ASSUME NEW i \in 1..Len(queue) PROVE conn'[queue[i]].phase = "queued"
  <2>1. queue[i] \in Conns
    BY SMTT(30) DEF Typing
  <2> QED BY <2>1 DEF Accepted
<1> QED BY <1>1 DEF Accepted

\* The phases of a connection that is not accepted or is finished.
Idle == {"new", "done"}

LEMMA JobsFinite ==
  ASSUME Network, NEW p
  PROVE  IsFiniteSet(Jobs(p))
<1>1. Jobs(p) \subseteq Conns
  BY DEF Jobs
<1> QED BY <1>1, FS_Subset DEF Network

LEMMA CountSame ==
  ASSUME Counted, jobs' = jobs, \A d \in Conns : conn'[d].phase \in Idle <=> conn[d].phase \in Idle
  PROVE  Counted'
<1>1. ASSUME NEW p \in Proxies PROVE Jobs(p)' = Jobs(p)
  BY DEF Jobs, Idle
<1> QED BY <1>1 DEF Counted

LEMMA CountLess ==
  ASSUME Network, Typing, Counted, NEW c \in Conns, jobs' = [jobs EXCEPT ![Home[c]] = @ - 1],
         conn[c].phase \notin Idle, conn'[c].phase \in Idle,
         \A d \in Conns : d # c => conn'[d] = conn[d]
  PROVE  Counted' /\ jobs' \in [Proxies -> Int]
<1>1. Home[c] \in Proxies
  BY DEF Network
<1>2. /\ jobs' \in [Proxies -> Int] /\ jobs'[Home[c]] = jobs[Home[c]] - 1
      /\ \A p \in Proxies : p # Home[c] => jobs'[p] = jobs[p]
  BY <1>1, SMTT(30) DEF Typing
<1>3. ASSUME NEW p \in Proxies PROVE jobs'[p] = Cardinality(Jobs(p)')
  <2>1. CASE p = Home[c]
    <3>1. Jobs(p)' = Jobs(p) \ {c} /\ c \in Jobs(p)
      BY <2>1 DEF Jobs, Idle
    <3>2. Cardinality(Jobs(p)') = Cardinality(Jobs(p)) - 1
      BY <3>1, JobsFinite, FS_RemoveElement
    <3> QED BY <1>2, <2>1, <3>2 DEF Counted
  <2>2. CASE p # Home[c]
    <3>1. Jobs(p)' = Jobs(p)
      BY <2>2 DEF Jobs, Idle
    <3> QED BY <1>2, <2>2, <3>1 DEF Counted
  <2> QED BY <2>1, <2>2
<1> QED BY <1>2, <1>3 DEF Counted

LEMMA CountMore ==
  ASSUME Network, Typing, Counted, NEW c \in Conns, jobs' = [jobs EXCEPT ![Home[c]] = @ + 1],
         conn[c].phase \in Idle, conn'[c].phase \notin Idle,
         \A d \in Conns : d # c => conn'[d] = conn[d]
  PROVE  Counted' /\ jobs' \in [Proxies -> Int]
<1>1. Home[c] \in Proxies
  BY DEF Network
<1>2. /\ jobs' \in [Proxies -> Int] /\ jobs'[Home[c]] = jobs[Home[c]] + 1
      /\ \A p \in Proxies : p # Home[c] => jobs'[p] = jobs[p]
  BY <1>1, SMTT(30) DEF Typing
<1>3. ASSUME NEW p \in Proxies PROVE jobs'[p] = Cardinality(Jobs(p)')
  <2>1. CASE p = Home[c]
    <3>1. Jobs(p)' = Jobs(p) \cup {c} /\ c \notin Jobs(p)
      BY <2>1 DEF Jobs, Idle
    <3>2. Cardinality(Jobs(p)') = Cardinality(Jobs(p)) + 1
      BY <3>1, JobsFinite, FS_AddElement
    <3> QED BY <1>2, <2>1, <3>2 DEF Counted
  <2>2. CASE p # Home[c]
    <3>1. Jobs(p)' = Jobs(p)
      BY <2>2 DEF Jobs, Idle
    <3> QED BY <1>2, <2>2, <3>1 DEF Counted
  <2> QED BY <2>1, <2>2
<1> QED BY <1>2, <1>3 DEF Counted

\* The phases of a connection that no worker handles.
Unhandled == {"new", "queued", "done"}

LEMMA HandledFinite ==
  ASSUME Network
  PROVE  IsFiniteSet(Handled) /\ Cardinality(Handled) \in Nat
<1>1. Handled \subseteq Conns
  BY DEF Handled
<1> QED BY <1>1, FS_Subset, FS_CardinalityType DEF Network

\* No worker takes a connection.
LEMMA NoneTaken ==
  ASSUME Network, Bounded, Len(queue') <= MaxQueue,
         \A d \in Conns : conn[d].phase \in Unhandled => conn'[d].phase \in Unhandled
  PROVE  Bounded'
<1>1. Handled' \subseteq Handled
  BY DEF Handled, Unhandled
<1>2. /\ Cardinality(Handled') \in Nat /\ Cardinality(Handled) \in Nat
      /\ Cardinality(Handled') <= Cardinality(Handled)
  <2>1. IsFiniteSet(Handled) /\ Cardinality(Handled) \in Nat
    BY HandledFinite
  <2>2. IsFiniteSet(Handled') /\ Cardinality(Handled') <= Cardinality(Handled)
    BY <1>1, <2>1, FS_Subset
  <2> QED BY <2>1, <2>2, FS_CardinalityType
<1>3. Cardinality(Handled') <= MaxWorkers
  BY <1>2, SMTT(30) DEF Bounded, Network
<1> QED BY <1>3 DEF Bounded

\* The phases of a connection that a worker handles.
Held == {"taken"} \cup Live

\* A worker goes on with its connection.
LEMMA Moves ==
  ASSUME Network, IInv, UNCHANGED <<proxy, listener, jobs, executor, queue>>,
         NEW c \in Conns, conn[c].phase \in Held,
         NEW r \in Connections, r.phase \in Held, Directed(r), Registered(r, proxy[Home[c]]),
         conn' = [conn EXCEPT ![c] = r]
  PROVE  IInv'
<1>1. Typing /\ Connected /\ Accepted /\ Counted /\ Listening /\ Executing /\ Bounded
  BY DEF IInv
<1>2. /\ conn' \in [Conns -> Connections] /\ Connected'
      /\ conn'[c] = r /\ \A d \in Conns : d # c => conn'[d] = conn[d]
  BY <1>1, Replaced
<1>3. conn[c].phase \notin Idle /\ r.phase \notin Idle /\ conn[c].phase # "queued"
  BY DEF Held, Live, Idle
<1>4. Accepted'
  BY <1>1, <1>2, <1>3, QueueKept
<1>5. Counted'
  <2>1. \A d \in Conns : conn'[d].phase \in Idle <=> conn[d].phase \in Idle
    BY <1>2, <1>3
  <2> QED BY <1>1, <2>1, CountSame
<1>6. Typing' /\ Listening' /\ Executing'
  BY <1>1, <1>2 DEF Typing, Listening, Executing
<1>7. Bounded'
  <2>1. conn[c].phase \notin Unhandled
    BY DEF Held, Live, Unhandled
  <2>2. \A d \in Conns : conn[d].phase \in Unhandled => conn'[d].phase \in Unhandled
    BY <1>2, <2>1
  <2> QED BY <1>1, <2>2, NoneTaken DEF Bounded
<1> QED BY <1>2, <1>4, <1>5, <1>6, <1>7 DEF IInv

\* What finish leaves is at rest, whatever the proxy does.
LEMMA ClosedRests ==
  ASSUME Typing, NEW c \in Conns, NEW answer \in Answers, NEW st
  PROVE  /\ Closed(c, answer) \in Connections /\ Closed(c, answer).phase = "done"
         /\ Directed(Closed(c, answer)) /\ Registered(Closed(c, answer), st)
<1>1. PICK q \in Connections : q = conn[c]
  BY DEF Typing
<1>2. PICK r : r = Closed(c, answer)
  OBVIOUS
<1>3. PICK u \in {"none", "shut"} :
        u = IF q.upstream = "none" THEN q.upstream ELSE "shut"
  OBVIOUS
<1>4. /\ r \in Connections /\ r.phase = "done" /\ r.upstream # "open"
      /\ ~r.registered /\ ~r.known
  <2>1. r = [q EXCEPT !.phase = "done", !.registered = FALSE, !.known = FALSE, !.client = "shut",
                      !.upstream = u, !.answer = answer]
    BY <1>1, <1>2, <1>3 DEF Closed
  <2> QED BY <2>1 DEF Connections, Phases
<1>5. Directed(r)
  BY <1>4 DEF Directed, Asked, Live
<1>6. Registered(r, st)
  <2>1. "done" \notin Live /\ "done" # "relaying" /\ "done" \notin {"new", "queued", "taken"}
    BY DEF Live
  <2> QED BY <1>4, <2>1 DEF Registered
<1> QED BY <1>2, <1>4, <1>5, <1>6

\* A worker is done with its connection.
LEMMA Ends ==
  ASSUME Network, IInv, UNCHANGED <<proxy, listener, executor, queue>>,
         NEW c \in Conns, conn[c].phase \in Held, NEW answer \in Answers, finish(c, answer)
  PROVE  IInv'
<1>1. Typing /\ Connected /\ Accepted /\ Counted /\ Listening /\ Executing /\ Bounded
  BY DEF IInv
<1>2. PICK r \in Connections : /\ r = Closed(c, answer) /\ r.phase = "done"
                               /\ Directed(r) /\ Registered(r, proxy[Home[c]])
  BY <1>1, ClosedRests
<1>3. conn' = [conn EXCEPT ![c] = r] /\ jobs' = [jobs EXCEPT ![Home[c]] = @ - 1]
  BY <1>2 DEF finish
<1>4. /\ conn' \in [Conns -> Connections] /\ Connected'
      /\ conn'[c] = r /\ \A d \in Conns : d # c => conn'[d] = conn[d]
  BY <1>1, <1>2, <1>3, Replaced
<1>5. conn[c].phase \notin Idle /\ conn'[c].phase \in Idle /\ conn[c].phase # "queued"
  BY <1>2, <1>4 DEF Held, Live, Idle
<1>6. Accepted'
  BY <1>1, <1>4, <1>5, QueueKept
<1>7. Counted' /\ jobs' \in [Proxies -> Int]
  BY <1>1, <1>3, <1>4, <1>5, CountLess
<1>8. Typing' /\ Listening' /\ Executing'
  BY <1>1, <1>4, <1>7 DEF Typing, Listening, Executing
<1>9. Bounded'
  <2>1. \A d \in Conns : conn[d].phase \in Unhandled => conn'[d].phase \in Unhandled
    BY <1>2, <1>4 DEF Unhandled
  <2> QED BY <1>1, <2>1, NoneTaken DEF Bounded
<1> QED BY <1>4, <1>6, <1>7, <1>8, <1>9 DEF IInv

-----------------------------------------------------------------------------
(* The steps of a worker.                                                     *)

Up(st) == st \notin {"shut", "joined", "gone"}
Entered(r) == /\ r.phase \in Live /\ r.client = "open"
              /\ r.registered /\ (r.known <=> r.phase = "relaying")

\* While the stop flag is not set the client's socket is open.
LEMMA RunningIsOpen ==
  ASSUME IInv, NEW c \in Conns, conn[c].phase \in Held, ~stopped(Home[c])
  PROVE  conn[c].client = "open" /\ Up(proxy[Home[c]])
<1>1. Registered(conn[c], proxy[Home[c]])
  BY DEF IInv, Connected
<1>2. conn[c].client \in {"open", "shut"}
  <2>1. conn[c] \in Connections
    BY DEF IInv, Typing
  <2> QED BY <2>1, SMTT(30) DEF Connections
<1>3. proxy[Home[c]] \in {"none", "running"}
  BY DEF stopped
<1> QED BY <1>1, <1>2, <1>3 DEF Registered, Held, Up

\* A registered connection that is open has not been shut with its proxy.
LEMMA OpenIsUp ==
  ASSUME IInv, NEW c \in Conns, conn[c].phase \in Live, conn[c].client = "open"
  PROVE  Up(proxy[Home[c]])
<1>1. Registered(conn[c], proxy[Home[c]])
  BY DEF IInv, Connected
<1> QED BY <1>1 DEF Registered, Up, Live

LEMMA Goes ==
  ASSUME Network, IInv, UNCHANGED <<proxy, listener, jobs, executor, queue>>,
         NEW c \in Conns, conn[c].phase \in Held, Up(proxy[Home[c]]),
         NEW r \in Connections, Entered(r), Directed(r), conn' = [conn EXCEPT ![c] = r]
  PROVE  IInv'
<1>1. Registered(r, proxy[Home[c]])
  BY DEF Registered, Entered, Up, Live
<1>2. r.phase \in Held
  BY DEF Entered, Held
<1> QED BY <1>1, <1>2, Moves

LEMMA RegisterKeeps ==
  ASSUME Network, IInv, NEW c \in Conns, register(c)
  PROVE  IInv'
<1>1. /\ conn[c].phase = "taken" /\ conn[c].phase \in Held
      /\ UNCHANGED <<proxy, listener, executor, queue>>
  BY DEF register, Held
<1>2. CASE stopped(Home[c])
  <2>1. finish(c, "none")
    BY <1>2 DEF register, refuses_when_stopped
  <2> QED BY <1>1, <2>1, Ends DEF Answers
<1>3. CASE ~stopped(Home[c])
  <2>1. PICK q \in Connections : q = conn[c]
    BY DEF IInv, Typing
  <2>2. PICK r : r = [q EXCEPT !.phase = "reading", !.registered = TRUE]
    OBVIOUS
  <2>3. conn' = [conn EXCEPT ![c] = r] /\ UNCHANGED jobs
    BY <1>3, <2>1, <2>2 DEF register, refuses_when_stopped, IInv, Typing
  <2>4. q.client = "open" /\ Up(proxy[Home[c]])
    BY <1>1, <1>3, <2>1, RunningIsOpen
  <2>5. Directed(q) /\ Registered(q, proxy[Home[c]])
    BY <2>1 DEF IInv, Connected
  <2>6. /\ r \in Connections /\ r.phase = "reading" /\ r.registered
        /\ r.client = q.client /\ r.upstream = q.upstream /\ (r.known <=> q.known)
    BY <2>2 DEF Connections, Phases, Live
  <2>7. Directed(r)
    BY <1>1, <2>1, <2>5, <2>6 DEF Directed, Asked
  <2>8. Entered(r)
    BY <1>1, <2>1, <2>4, <2>5, <2>6 DEF Entered, Registered, Live
  <2>9. UNCHANGED <<proxy, listener, jobs, executor, queue>>
    BY <1>1, <2>3
  <2> QED BY <1>1, <2>3, <2>4, <2>6, <2>7, <2>8, <2>9, Goes
<1> QED BY <1>2, <1>3

LEMMA SetUpstreamKeeps ==
  ASSUME Network, IInv, NEW c \in Conns, set_upstream(c)
  PROVE  IInv'
<1>1. /\ conn[c].phase = "connected" /\ conn[c].phase \in Held
      /\ UNCHANGED <<proxy, listener, executor, queue>>
  BY DEF set_upstream, Held, Live
<1>2. CASE stopped(Home[c])
  <2>1. finish(c, "none")
    BY <1>2 DEF set_upstream, refuses_when_stopped
  <2> QED BY <1>1, <2>1, Ends DEF Answers
<1>3. CASE ~stopped(Home[c])
  <2>1. PICK q \in Connections : q = conn[c]
    BY DEF IInv, Typing
  <2>2. PICK r : r = [q EXCEPT !.phase = "relaying", !.known = TRUE]
    OBVIOUS
  <2>3. conn' = [conn EXCEPT ![c] = r] /\ UNCHANGED jobs
    BY <1>3, <2>1, <2>2 DEF set_upstream, refuses_when_stopped, IInv, Typing
  <2>4. q.client = "open" /\ Up(proxy[Home[c]])
    BY <1>1, <1>3, <2>1, RunningIsOpen
  <2>5. Directed(q) /\ Registered(q, proxy[Home[c]])
    BY <2>1 DEF IInv, Connected
  <2>6. /\ r \in Connections /\ r.phase = "relaying" /\ r.known
        /\ r.client = q.client /\ r.upstream = q.upstream /\ (r.registered <=> q.registered)
        /\ r.target = q.target /\ r.address = q.address
    BY <2>2 DEF Connections, Phases, Live
  <2>7. Directed(r)
    BY <1>1, <2>1, <2>5, <2>6 DEF Directed, Asked, Live
  <2>8. Entered(r)
    BY <1>1, <2>1, <2>4, <2>5, <2>6 DEF Entered, Registered, Live
  <2>9. UNCHANGED <<proxy, listener, jobs, executor, queue>>
    BY <1>1, <2>3
  <2> QED BY <1>1, <2>3, <2>4, <2>6, <2>7, <2>8, <2>9, Goes
<1> QED BY <1>2, <1>3

LEMMA ReadEndsKeeps ==
  ASSUME Network, IInv, NEW c \in Conns, read_ends(c)
  PROVE  IInv'
<1>1. /\ conn[c].phase \in Held /\ finish(c, conn[c].answer)
      /\ UNCHANGED <<proxy, listener, executor, queue>>
  BY DEF read_ends, Held, Live
<1>2. PICK a \in Answers : a = conn[c].answer
  <2>1. conn[c] \in Connections
    BY DEF IInv, Typing
  <2> QED BY <2>1 DEF Connections
<1> QED BY <1>1, <1>2, Ends

\* A verdict other than ok has an answer.
LEMMA Replies ==
  ASSUME NEW v \in {"TooLarge", "Incomplete", "Invalid", "Denied"}
  PROVE  reply(v) \in Answers
<1>1. CASE v = "TooLarge"
  BY <1>1 DEF reply, Answers
<1>2. CASE v = "Denied"
  BY <1>2 DEF reply, Answers
<1>3. CASE v \in {"Invalid", "Incomplete"}
  BY <1>3 DEF reply, Answers
<1> QED BY <1>1, <1>2, <1>3

\* A permitted name was asked for: the connection goes on to phase ph.
LEMMA AskKeeps ==
  ASSUME Network, IInv, UNCHANGED <<proxy, listener, jobs, executor, queue>>,
         NEW c \in Conns, conn[c].phase = "reading", conn[c].client = "open",
         NEW ph \in {"handshake", "connecting"}, NEW pf \in BOOLEAN, NEW host \in Permitted,
         conn' = [conn EXCEPT ![c].phase = ph, ![c].proof = pf, ![c].target = host, ![c].sent = @ + 1]
  PROVE  IInv'
<1>1. PICK q \in Connections : q = conn[c]
  BY DEF IInv, Typing
<1>2. PICK n \in Nat : n = q.sent + 1
  BY SMTT(30) DEF Connections
<1>3. PICK r : r = [q EXCEPT !.phase = ph, !.proof = pf, !.target = host, !.sent = n]
  OBVIOUS
<1>4. conn' = [conn EXCEPT ![c] = r]
  BY <1>1, <1>2, <1>3 DEF IInv, Typing
<1>5. Directed(q) /\ Registered(q, proxy[Home[c]])
  BY <1>1 DEF IInv, Connected
<1>6. host \in Hosts
  BY DEF Network
<1>7. /\ r \in Connections /\ r.phase = ph /\ r.target = host /\ r.client = q.client
      /\ r.upstream = q.upstream /\ (r.registered <=> q.registered) /\ (r.known <=> q.known)
  BY <1>3, <1>6 DEF Connections, Phases, Live
<1>8. Directed(r)
  BY <1>1, <1>5, <1>7 DEF Directed
<1>9. Entered(r) /\ conn[c].phase \in Live /\ conn[c].phase \in Held
  BY <1>1, <1>5, <1>7 DEF Entered, Registered, Live, Held
<1>10. Up(proxy[Home[c]])
  BY <1>9, OpenIsUp
<1> QED BY <1>4, <1>7, <1>8, <1>9, <1>10, Goes

LEMMA ReadRequestKeeps ==
  ASSUME Network, IInv, NEW c \in Conns, NEW r \in Requests, read_request_header(c, r)
  PROVE  IInv'
<1>1. /\ conn[c].phase = "reading" /\ conn[c].client = "open" /\ conn[c].phase \in Held
      /\ UNCHANGED <<proxy, listener, executor, queue>>
  BY DEF read_request_header, Receives, Held, Live
<1>2. CASE parse(r) # "ok"
  <2>1. finish(c, reply(parse(r)))
    BY <1>2 DEF read_request_header
  <2>2. PICK v \in {"TooLarge", "Incomplete", "Invalid", "Denied"} : v = parse(r)
    BY <1>2 DEF parse
  <2>3. PICK a \in Answers : a = reply(parse(r))
    BY <2>2, Replies
  <2> QED BY <1>1, <2>1, <2>3, Ends
<1>3. CASE \E a \in {"400", "403"} : finish(c, a)
  BY <1>1, <1>3, Ends DEF Answers
<1>4. ASSUME parse(r) = "ok", ~\E a \in {"400", "403"} : finish(c, a) PROVE IInv'
  <2>1. r.host \in Permitted
    BY <1>4 DEF parse, permits
  <2>2. PICK ph \in {"handshake", "connecting"}, pf \in BOOLEAN :
          /\ conn' = [conn EXCEPT ![c].phase = ph, ![c].proof = pf, ![c].target = r.host, ![c].sent = @ + 1]
          /\ UNCHANGED jobs
    BY <1>4 DEF read_request_header
  <2>3. UNCHANGED <<proxy, listener, jobs, executor, queue>>
    BY <1>1, <2>2
  <2> QED BY <1>1, <2>1, <2>2, <2>3, AskKeeps
<1> QED BY <1>2, <1>3, <1>4

LEMMA HandshakeKeeps ==
  ASSUME Network, IInv, NEW c \in Conns, handle_connect(c)
  PROVE  IInv'
<1>1. /\ conn[c].phase = "handshake" /\ conn[c].phase \in Held
      /\ UNCHANGED <<proxy, listener, executor, queue>>
  BY DEF handle_connect, Held, Live
<1>2. CASE stopped(Home[c])
  <2>1. finish(c, "none")
    BY <1>2 DEF handle_connect
  <2> QED BY <1>1, <2>1, Ends DEF Answers
<1>3. CASE ~stopped(Home[c])
  <2>1. PICK q \in Connections : q = conn[c]
    BY DEF IInv, Typing
  <2>2. PICK r : r = [q EXCEPT !.phase = "reading_tls", !.tls = TRUE]
    OBVIOUS
  <2>3. conn' = [conn EXCEPT ![c] = r] /\ UNCHANGED jobs
    BY <1>3, <2>1, <2>2 DEF handle_connect, IInv, Typing
  <2>4. q.client = "open" /\ Up(proxy[Home[c]])
    BY <1>1, <1>3, <2>1, RunningIsOpen
  <2>5. Directed(q) /\ Registered(q, proxy[Home[c]])
    BY <2>1 DEF IInv, Connected
  <2>6. /\ r \in Connections /\ r.phase = "reading_tls" /\ r.target = q.target
        /\ r.client = q.client /\ r.upstream = q.upstream
        /\ (r.registered <=> q.registered) /\ (r.known <=> q.known)
    BY <2>2 DEF Connections, Phases, Live
  <2>7. Directed(r)
    BY <1>1, <2>1, <2>5, <2>6 DEF Directed, Asked, Live
  <2>8. Entered(r)
    BY <1>1, <2>1, <2>4, <2>5, <2>6 DEF Entered, Registered, Live
  <2>9. UNCHANGED <<proxy, listener, jobs, executor, queue>>
    BY <1>1, <2>3
  <2> QED BY <1>1, <2>3, <2>4, <2>6, <2>7, <2>8, <2>9, Goes
<1> QED BY <1>2, <1>3

LEMMA NextTlsKeeps ==
  ASSUME Network, IInv, NEW c \in Conns, NEW t \in Requests, next_tls_request(c, t)
  PROVE  IInv'
<1> DEFINE verdict == prepare_tls_request(t, conn[c].target)
<1>1. /\ conn[c].phase = "reading_tls" /\ conn[c].client = "open"
      /\ conn[c].phase \in Held /\ conn[c].phase \in Live
      /\ UNCHANGED <<proxy, listener, executor, queue>>
  BY DEF next_tls_request, Receives, Held, Live
<1>2. CASE stopped(Home[c])
  <2>1. finish(c, "none")
    BY <1>2 DEF next_tls_request
  <2> QED BY <1>1, <2>1, Ends DEF Answers
<1>3. CASE ~stopped(Home[c]) /\ verdict # "ok"
  <2>1. finish(c, reply(verdict))
    BY <1>3 DEF next_tls_request
  <2>2. PICK v \in {"TooLarge", "Incomplete", "Invalid", "Denied"} : v = verdict
    BY <1>3 DEF prepare_tls_request
  <2>3. PICK a \in Answers : a = reply(verdict)
    BY <2>2, Replies
  <2> QED BY <1>1, <2>1, <2>3, Ends
<1>4. CASE ~stopped(Home[c]) /\ verdict = "ok"
  <2>1. PICK q \in Connections : q = conn[c]
    BY DEF IInv, Typing
  <2> DEFINE n == q.sent + 1
  <2>2. n \in Nat
    BY SMTT(30) DEF Connections
  <2>3. PICK r : r = [q EXCEPT !.phase = "connecting", !.sent = n]
    OBVIOUS
  <2>4. conn' = [conn EXCEPT ![c] = r] /\ UNCHANGED jobs
    BY <1>4, <2>1, <2>3 DEF next_tls_request, IInv, Typing
  <2> HIDE DEF n
  <2>5. Directed(q) /\ Registered(q, proxy[Home[c]])
    BY <2>1 DEF IInv, Connected
  <2>6. /\ r \in Connections /\ r.phase = "connecting" /\ r.target = q.target
        /\ r.client = q.client /\ r.upstream = q.upstream
        /\ (r.registered <=> q.registered) /\ (r.known <=> q.known)
    BY <2>2, <2>3 DEF Connections, Phases, Live
  <2>7. Directed(r)
    BY <1>1, <2>1, <2>5, <2>6 DEF Directed, Asked, Live
  <2>8. Entered(r)
    BY <1>1, <2>1, <2>5, <2>6 DEF Entered, Registered, Live
  <2>9. UNCHANGED <<proxy, listener, jobs, executor, queue>>
    BY <1>1, <2>4
  <2> QED BY <1>1, <2>4, <2>6, <2>7, <2>8, <2>9, OpenIsUp, Goes
<1> QED BY <1>2, <1>3, <1>4

LEMMA ConnectKeeps ==
  ASSUME Network, IInv, NEW c \in Conns, NEW zone \in Zones, connect(c, zone)
  PROVE  IInv'
<1>1. /\ conn[c].phase = "connecting" /\ conn[c].phase \in Held
      /\ UNCHANGED <<proxy, listener, executor, queue>>
  BY DEF connect, Held, Live
<1>2. CASE finish(c, "none")
  BY <1>1, <1>2, Ends DEF Answers
<1>3. ASSUME ~finish(c, "none") PROVE IInv'
  <2>1. PICK q \in Connections : q = conn[c]
    BY DEF IInv, Typing
  <2>2. PICK a \in resolve_with_servers(zone, q.target) :
          conn' = [conn EXCEPT ![c].phase = "connected", ![c].upstream = "open", ![c].address = a]
    BY <1>3, <2>1 DEF connect
  <2>3. ~stopped(Home[c]) /\ UNCHANGED jobs
    BY <1>3 DEF connect
  <2>4. PICK r : r = [q EXCEPT !.phase = "connected", !.upstream = "open", !.address = a]
    OBVIOUS
  <2>5. conn' = [conn EXCEPT ![c] = r]
    BY <2>1, <2>2, <2>4 DEF IInv, Typing
  <2>6. q.client = "open" /\ Up(proxy[Home[c]])
    BY <1>1, <2>1, <2>3, RunningIsOpen
  <2>7. Directed(q) /\ Registered(q, proxy[Home[c]])
    BY <2>1 DEF IInv, Connected
  <2>8. q.target \in Permitted /\ q.target \in Hosts
    BY <1>1, <2>1, <2>7 DEF Directed, Asked, Live, Network
  <2>9. a \in Addresses /\ a \in Public /\ Leads(zone, q.target, a)
    BY <2>8, Resolved
  <2>10. /\ r \in Connections /\ r.phase = "connected" /\ r.target = q.target /\ r.address = a
         /\ r.client = q.client /\ (r.registered <=> q.registered) /\ (r.known <=> q.known)
    BY <2>4, <2>9 DEF Connections, Phases, Live
  <2>11. Directed(r)
    BY <2>8, <2>9, <2>10 DEF Directed
  <2>12. Entered(r)
    BY <1>1, <2>1, <2>6, <2>7, <2>10 DEF Entered, Registered, Live
  <2>13. UNCHANGED <<proxy, listener, jobs, executor, queue>>
    BY <1>1, <2>3
  <2> QED BY <1>1, <2>5, <2>6, <2>10, <2>11, <2>12, <2>13, Goes
<1> QED BY <1>2, <1>3

LEMMA RelayKeeps ==
  ASSUME Network, IInv, NEW c \in Conns, NEW fails \in BOOLEAN, relay_request(c, fails)
  PROVE  IInv'
<1>1. /\ conn[c].phase = "relaying" /\ conn[c].phase \in Held /\ conn[c].phase \in Live
      /\ UNCHANGED <<proxy, listener, executor, queue>>
  BY DEF relay_request, Held, Live
<1>2. CASE finish(c, "none")
  BY <1>1, <1>2, Ends DEF Answers
<1>3. ASSUME ~finish(c, "none") PROVE IInv'
  <2>1. PICK q \in Connections : q = conn[c]
    BY DEF IInv, Typing
  <2>2. q.client # "shut" /\ UNCHANGED jobs
    BY <1>3, <2>1 DEF relay_request
  <2>3. PICK ph \in {"reading_tls", "reading"} :
          conn' = [conn EXCEPT ![c].phase = ph, ![c].known = FALSE, ![c].upstream = "shut"]
    BY <1>3 DEF relay_request
  <2>4. PICK r : r = [q EXCEPT !.phase = ph, !.known = FALSE, !.upstream = "shut"]
    OBVIOUS
  <2>5. conn' = [conn EXCEPT ![c] = r]
    BY <2>1, <2>3, <2>4 DEF IInv, Typing
  <2>6. q.client = "open"
    BY <2>2 DEF Connections
  <2>7. Directed(q) /\ Registered(q, proxy[Home[c]])
    BY <2>1 DEF IInv, Connected
  <2>8. /\ r \in Connections /\ r.phase = ph /\ r.target = q.target /\ r.upstream = "shut"
        /\ r.client = q.client /\ (r.registered <=> q.registered) /\ ~r.known
    BY <2>4 DEF Connections, Phases, Live
  <2>9. Directed(r)
    BY <1>1, <2>1, <2>7, <2>8 DEF Directed, Asked, Live
  <2>10. Entered(r)
    BY <1>1, <2>1, <2>6, <2>7, <2>8 DEF Entered, Registered, Live
  <2>11. UNCHANGED <<proxy, listener, jobs, executor, queue>>
    BY <1>1, <2>2
  <2> QED BY <1>1, <2>1, <2>5, <2>6, <2>8, <2>9, <2>10, <2>11, OpenIsUp, Goes
<1> QED BY <1>2, <1>3

LEMMA WorkerKeeps ==
  ASSUME Network, IInv, NEW c \in Conns, connection_worker(c)
  PROVE  IInv'
<1>1. Typing /\ Connected /\ Accepted /\ Counted /\ Listening /\ Executing /\ Bounded
  BY DEF IInv
<1>2. queue # <<>> /\ c = Head(queue) /\ queue' = Tail(queue) /\ UNCHANGED <<proxy, listener, executor>>
  BY DEF connection_worker
<1>3. /\ queue' \in Seq(Conns) /\ 1 \in 1..Len(queue) /\ c = queue[1]
      /\ \A i \in 1..Len(queue') : i + 1 \in 1..Len(queue) /\ queue'[i] = queue[i + 1] /\ i + 1 # 1
      /\ \A i, j \in 1..Len(queue') : i # j => i + 1 # j + 1
  BY <1>1, <1>2, SMTT(30) DEF Typing
<1>4. conn[c].phase = "queued"
  BY <1>1, <1>3 DEF Accepted
<1>5. ASSUME \A d \in Conns : d # c => conn'[d] = conn[d] PROVE Accepted'
  <2>1. ASSUME NEW i \in 1..Len(queue') PROVE conn'[queue'[i]].phase = "queued"
    <3>1. queue'[i] # c /\ conn[queue'[i]].phase = "queued"
      BY <1>1, <1>3 DEF Accepted
    <3>2. queue'[i] \in Conns
      BY <1>3, SMTT(30)
    <3> QED BY <1>5, <3>1, <3>2
  <2>2. ASSUME NEW i \in 1..Len(queue'), NEW j \in 1..Len(queue'), i # j
        PROVE  queue'[i] # queue'[j]
    BY <1>1, <1>3, <2>2 DEF Accepted
  <2> QED BY <2>1, <2>2 DEF Accepted
<1>6. PICK q \in Connections : /\ q = conn[c] /\ Directed(q) /\ Registered(q, proxy[Home[c]])
  BY <1>1 DEF Typing, Connected
<1>7. Len(queue') \in Nat /\ Len(queue') <= MaxQueue
  BY <1>1, <1>2, SMTT(30) DEF Typing, Bounded, Network
<1>8. CASE stopped(Home[c])
  <2>1. finish(c, "none")
    BY <1>8 DEF connection_worker
  <2>2. PICK r \in Connections : /\ r = Closed(c, "none") /\ r.phase = "done"
                                 /\ Directed(r) /\ Registered(r, proxy[Home[c]])
    BY <1>1, ClosedRests DEF Answers
  <2>3. conn' = [conn EXCEPT ![c] = r] /\ jobs' = [jobs EXCEPT ![Home[c]] = @ - 1]
    BY <2>1, <2>2 DEF finish
  <2>4. /\ conn' \in [Conns -> Connections] /\ Connected'
        /\ conn'[c] = r /\ \A d \in Conns : d # c => conn'[d] = conn[d]
    BY <1>1, <1>2, <2>2, <2>3, Replaced
  <2>5. conn[c].phase \notin Idle /\ conn'[c].phase \in Idle
    BY <1>4, <2>2, <2>4 DEF Idle
  <2>6. Counted' /\ jobs' \in [Proxies -> Int]
    BY <1>1, <2>3, <2>4, <2>5, CountLess
  <2>7. Typing' /\ Listening' /\ Executing'
    BY <1>1, <1>2, <1>3, <2>4, <2>6 DEF Typing, Listening, Executing
  <2>8. Bounded'
    <3>1. \A d \in Conns : conn[d].phase \in Unhandled => conn'[d].phase \in Unhandled
      BY <2>2, <2>4 DEF Unhandled
    <3> QED BY <1>1, <1>7, <3>1, NoneTaken
  <2> QED BY <1>5, <2>4, <2>6, <2>7, <2>8 DEF IInv
<1>9. CASE ~stopped(Home[c])
  <2>1. PICK r : r = [q EXCEPT !.phase = "taken"]
    OBVIOUS
  <2>2. conn' = [conn EXCEPT ![c] = r] /\ jobs' = jobs
    BY <1>1, <1>6, <1>9, <2>1 DEF connection_worker, Typing
  <2>3. /\ r \in Connections /\ r.phase = "taken" /\ r.client = q.client /\ r.upstream = q.upstream
        /\ (r.registered <=> q.registered) /\ (r.known <=> q.known)
    BY <2>1 DEF Connections, Phases
  <2>4. proxy[Home[c]] \in {"none", "running"}
    BY <1>9 DEF stopped
  <2>5. Directed(r)
    BY <1>4, <1>6, <2>3 DEF Directed, Asked, Live
  <2>6. Registered(r, proxy[Home[c]])
    BY <1>4, <1>6, <2>3, <2>4 DEF Registered, Live
  <2>7. /\ conn' \in [Conns -> Connections] /\ Connected'
        /\ conn'[c] = r /\ \A d \in Conns : d # c => conn'[d] = conn[d]
    BY <1>1, <1>2, <2>2, <2>3, <2>5, <2>6, Replaced
  <2>8. Counted'
    <3>1. \A d \in Conns : conn'[d].phase \in Idle <=> conn[d].phase \in Idle
      BY <1>4, <2>3, <2>7 DEF Idle
    <3> QED BY <1>1, <2>2, <3>1, CountSame
  <2>9. Typing' /\ Listening' /\ Executing'
    BY <1>1, <1>2, <1>3, <2>2, <2>7 DEF Typing, Listening, Executing
  <2>10. Bounded'
    <3>1. Handled' = Handled \cup {c} /\ c \notin Handled
      BY <1>4, <2>3, <2>7 DEF Handled
    <3>2. /\ Cardinality(Handled) \in Nat /\ Cardinality(Handled') = Cardinality(Handled) + 1
      BY <3>1, HandledFinite, FS_AddElement
    <3>3. Cardinality(Handled) < MaxWorkers
      BY DEF connection_worker
    <3>4. Cardinality(Handled') <= MaxWorkers
      BY <3>2, <3>3, SMTT(30) DEF Network
    <3> QED BY <1>7, <3>4 DEF Bounded
  <2> QED BY <1>5, <2>7, <2>8, <2>9, <2>10 DEF IInv
<1> QED BY <1>8, <1>9

-----------------------------------------------------------------------------
(* The listener and the drop.                                                 *)

LEMMA AcceptKeeps ==
  ASSUME Network, IInv, NEW c \in Conns, accept_connections(c)
  PROVE  IInv'
<1>1. Typing /\ Connected /\ Accepted /\ Counted /\ Listening /\ Executing /\ Bounded
  BY DEF IInv
<1>2. /\ Home[c] \in Proxies /\ listener[Home[c]] = "accept" /\ conn[c].phase = "new"
      /\ listener' = [listener EXCEPT ![Home[c]] = "check"] /\ UNCHANGED <<proxy, executor>>
  BY DEF accept_connections, Network
<1>3. Listening' /\ listener' \in [Proxies -> {"none", "check", "accept", "done"}]
  <2>1. /\ listener' \in [Proxies -> {"none", "check", "accept", "done"}]
        /\ \A p \in Proxies : p # Home[c] => listener'[p] = listener[p]
    BY <1>1, <1>2 DEF Typing
  <2>2. proxy[Home[c]] \notin {"none", "joined", "gone"}
    BY <1>1, <1>2 DEF Listening
  <2> QED BY <1>1, <1>2, <2>1, <2>2 DEF Listening
<1>4. proxy[Home[c]] # "gone"
  BY <1>1, <1>2 DEF Listening
<1>5. PICK q \in Connections : /\ q = conn[c] /\ Directed(q) /\ Registered(q, proxy[Home[c]])
  BY <1>1 DEF Typing, Connected
<1>6. CASE Len(queue) < MaxQueue
  <2>1. PICK r : r = [q EXCEPT !.phase = "queued"]
    OBVIOUS
  <2>2. /\ queue' = Append(queue, c) /\ jobs' = [jobs EXCEPT ![Home[c]] = @ + 1]
        /\ conn' = [conn EXCEPT ![c] = r]
    BY <1>1, <1>5, <1>6, <2>1 DEF accept_connections, Typing
  <2>3. /\ r \in Connections /\ r.phase = "queued" /\ r.client = q.client /\ r.upstream = q.upstream
        /\ (r.registered <=> q.registered) /\ (r.known <=> q.known)
    BY <2>1 DEF Connections, Phases
  <2>4. Directed(r)
    BY <1>2, <1>5, <2>3 DEF Directed, Asked, Live
  <2>5. Registered(r, proxy[Home[c]])
    BY <1>2, <1>4, <1>5, <2>3 DEF Registered, Live
  <2>6. /\ conn' \in [Conns -> Connections] /\ Connected'
        /\ conn'[c] = r /\ \A d \in Conns : d # c => conn'[d] = conn[d]
    BY <1>1, <1>2, <2>2, <2>3, <2>4, <2>5, Replaced
  <2>7. Counted' /\ jobs' \in [Proxies -> Int]
    <3>1. conn[c].phase \in Idle /\ conn'[c].phase \notin Idle
      BY <1>2, <2>3, <2>6 DEF Idle
    <3> QED BY <1>1, <2>2, <2>6, <3>1, CountMore
  <2>8. /\ queue' \in Seq(Conns)
        /\ \A i \in 1..Len(queue') : /\ i \in 1..Len(queue) => queue'[i] = queue[i] /\ queue[i] \in Conns
                                     /\ i \notin 1..Len(queue) => queue'[i] = c
        /\ \A i, j \in 1..Len(queue') : i # j => i \in 1..Len(queue) \/ j \in 1..Len(queue)
    BY <1>1, <2>2, SMTT(30) DEF Typing
  <2>9. \A i \in 1..Len(queue) : conn[queue[i]].phase = "queued" /\ queue[i] # c
    BY <1>1, <1>2 DEF Accepted
  <2>10. Accepted'
    <3>1. ASSUME NEW i \in 1..Len(queue') PROVE conn'[queue'[i]].phase = "queued"
      <4>1. CASE i \in 1..Len(queue)
        <5>1. queue'[i] = queue[i] /\ queue[i] \in Conns
          BY <2>8, <4>1
        <5>2. conn'[queue[i]] = conn[queue[i]]
          BY <2>6, <2>9, <4>1, <5>1
        <5> QED BY <2>9, <4>1, <5>1, <5>2
      <4>2. CASE i \notin 1..Len(queue)
        BY <2>3, <2>6, <2>8, <4>2
      <4> QED BY <4>1, <4>2
    <3>2. ASSUME NEW i \in 1..Len(queue'), NEW j \in 1..Len(queue'), i # j
          PROVE  queue'[i] # queue'[j]
      <4>1. CASE i \in 1..Len(queue) /\ j \in 1..Len(queue)
        BY <1>1, <2>8, <3>2, <4>1 DEF Accepted
      <4>2. CASE i \notin 1..Len(queue)
        <5>1. queue'[i] = c /\ queue'[j] = queue[j] /\ queue[j] # c
          BY <2>8, <2>9, <3>2, <4>2
        <5> QED BY <5>1
      <4>3. CASE j \notin 1..Len(queue)
        <5>1. queue'[j] = c /\ queue'[i] = queue[i] /\ queue[i] # c
          BY <2>8, <2>9, <3>2, <4>3
        <5> QED BY <5>1
      <4> QED BY <4>1, <4>2, <4>3
    <3> QED BY <3>1, <3>2 DEF Accepted
  <2>11. Typing' /\ Executing'
    BY <1>1, <1>2, <1>3, <2>6, <2>7, <2>8 DEF Typing, Executing
  <2>12. Bounded'
    <3>1. \A d \in Conns : conn[d].phase \in Unhandled => conn'[d].phase \in Unhandled
      BY <2>3, <2>6 DEF Unhandled
    <3>2. Len(queue') <= MaxQueue
      BY <1>1, <1>6, <2>2, SMTT(30) DEF Typing, Network
    <3> QED BY <1>1, <3>1, <3>2, NoneTaken
  <2> QED BY <1>3, <2>6, <2>7, <2>10, <2>11, <2>12 DEF IInv
<1>7. CASE ~(Len(queue) < MaxQueue)
  <2>1. PICK r : r = [q EXCEPT !.phase = "done", !.client = "shut", !.answer = "503"]
    OBVIOUS
  <2>2. queue' = queue /\ jobs' = jobs /\ conn' = [conn EXCEPT ![c] = r]
    BY <1>1, <1>5, <1>7, <2>1 DEF accept_connections, Typing
  <2>3. /\ r \in Connections /\ r.phase = "done" /\ r.upstream = q.upstream
        /\ (r.registered <=> q.registered) /\ (r.known <=> q.known)
    BY <2>1 DEF Connections, Phases, Answers
  <2>4. Directed(r)
    BY <1>2, <1>5, <2>3 DEF Directed, Asked, Live
  <2>5. Registered(r, proxy[Home[c]])
    BY <1>2, <1>5, <2>3 DEF Registered, Live
  <2>6. /\ conn' \in [Conns -> Connections] /\ Connected'
        /\ conn'[c] = r /\ \A d \in Conns : d # c => conn'[d] = conn[d]
    BY <1>1, <1>2, <2>2, <2>3, <2>4, <2>5, Replaced
  <2>7. Counted'
    <3>1. \A d \in Conns : conn'[d].phase \in Idle <=> conn[d].phase \in Idle
      BY <1>2, <2>3, <2>6 DEF Idle
    <3> QED BY <1>1, <2>2, <3>1, CountSame
  <2>8. Accepted'
    BY <1>1, <1>2, <2>2, <2>6, QueueKept
  <2>9. Typing' /\ Executing'
    BY <1>1, <1>2, <1>3, <2>2, <2>6 DEF Typing, Executing
  <2>10. Bounded'
    <3>1. \A d \in Conns : conn[d].phase \in Unhandled => conn'[d].phase \in Unhandled
      BY <2>3, <2>6 DEF Unhandled
    <3> QED BY <1>1, <2>2, <3>1, NoneTaken DEF Bounded
  <2> QED BY <1>3, <2>6, <2>7, <2>8, <2>9, <2>10 DEF IInv
<1> QED BY <1>6, <1>7

\* A proxy enters the next stage of its life and its connections stay as they are.
LEMMA Enters ==
  ASSUME Network, IInv, UNCHANGED <<jobs, queue, conn>>,
         NEW p \in Proxies, NEW st \in Stages, proxy' = [proxy EXCEPT ![p] = st],
         \A c \in Conns : Home[c] = p => Registered(conn[c], st)
  PROVE  /\ proxy' \in [Proxies -> Stages] /\ Connected' /\ Accepted' /\ Counted' /\ Bounded'
         /\ proxy'[p] = st /\ \A q \in Proxies : q # p => proxy'[q] = proxy[q]
<1>1. Typing /\ Connected /\ Accepted /\ Counted /\ Bounded
  BY DEF IInv
<1>2. /\ proxy' \in [Proxies -> Stages]
      /\ proxy'[p] = st /\ \A q \in Proxies : q # p => proxy'[q] = proxy[q]
  BY <1>1 DEF Typing
<1>3. ASSUME NEW c \in Conns PROVE Directed(conn[c]) /\ Registered(conn[c], proxy'[Home[c]])
  <2>1. Home[c] \in Proxies
    BY DEF Network
  <2>2. CASE Home[c] = p
    BY <1>1, <1>2, <2>2 DEF Connected
  <2>3. CASE Home[c] # p
    BY <1>1, <1>2, <2>1, <2>3 DEF Connected
  <2> QED BY <2>2, <2>3
<1>4. Connected'
  BY <1>3 DEF Connected
<1>5. Accepted'
  BY <1>1 DEF Accepted
<1>6. Counted' /\ Bounded'
  BY <1>1, CountSame DEF Bounded, Handled
<1> QED BY <1>2, <1>4, <1>5, <1>6

LEMMA StartKeeps ==
  ASSUME Network, IInv, NEW p \in Proxies, start_inner(p)
  PROVE  IInv'
<1>1. /\ proxy[p] = "none" /\ proxy' = [proxy EXCEPT ![p] = "running"]
      /\ listener' = [listener EXCEPT ![p] = "check"] /\ executor' = TRUE
      /\ UNCHANGED <<jobs, queue, conn>>
  BY DEF start_inner
<1>2. ASSUME NEW c \in Conns, Home[c] = p PROVE Registered(conn[c], "running")
  <2>1. Registered(conn[c], "none")
    BY <1>1, <1>2 DEF IInv, Connected
  <2> QED BY <2>1 DEF Registered
<1>3. /\ proxy' \in [Proxies -> Stages] /\ Connected' /\ Accepted' /\ Counted' /\ Bounded'
      /\ proxy'[p] = "running" /\ \A q \in Proxies : q # p => proxy'[q] = proxy[q]
  BY <1>1, <1>2, Enters DEF Stages
<1>4. /\ listener' \in [Proxies -> {"none", "check", "accept", "done"}]
      /\ \A q \in Proxies : q # p => listener'[q] = listener[q]
  BY <1>1 DEF IInv, Typing
<1>5. Typing'
  BY <1>1, <1>3, <1>4 DEF IInv, Typing
<1>6. Listening'
  BY <1>3, <1>4 DEF IInv, Listening
<1>7. Executing'
  BY <1>1, <1>3 DEF Executing
<1> QED BY <1>3, <1>5, <1>6, <1>7 DEF IInv

\* The listener reads the stop flag, or finds nobody to accept.
LEMMA ListenKeeps ==
  ASSUME Network, IInv, NEW p \in Proxies, listener_checks(p) \/ listener_idles(p)
  PROVE  IInv'
<1>1. /\ listener[p] \in {"check", "accept"}
      /\ UNCHANGED <<proxy, jobs, executor, queue, conn>>
  BY DEF listener_checks, listener_idles
<1>2. PICK l \in {"check", "accept", "done"} : listener' = [listener EXCEPT ![p] = l]
  BY DEF listener_checks, listener_idles
<1>3. /\ listener' \in [Proxies -> {"none", "check", "accept", "done"}]
      /\ \A q \in Proxies : q # p => listener'[q] = listener[q]
  BY <1>2 DEF IInv, Typing
<1>4. proxy[p] \notin {"none", "joined", "gone"}
  BY <1>1 DEF IInv, Listening
<1>5. Typing'
  BY <1>1, <1>3 DEF IInv, Typing
<1>6. Listening'
  BY <1>1, <1>3, <1>4 DEF IInv, Listening
<1>7. Connected' /\ Accepted' /\ Executing'
  BY <1>1 DEF IInv, Connected, Accepted, Executing
<1>8. Counted' /\ Bounded'
  BY <1>1, CountSame DEF IInv, Bounded, Handled
<1> QED BY <1>5, <1>6, <1>7, <1>8 DEF IInv

LEMMA DropKeeps ==
  ASSUME Network, IInv, NEW p \in Proxies, drop_begins(p)
  PROVE  IInv'
<1>1. /\ proxy[p] = "running" /\ proxy' = [proxy EXCEPT ![p] = "stopping"]
      /\ UNCHANGED <<listener, executor>> /\ UNCHANGED <<jobs, queue, conn>>
  BY DEF drop_begins
<1>2. ASSUME NEW c \in Conns, Home[c] = p PROVE Registered(conn[c], "stopping")
  <2>1. Registered(conn[c], "running")
    BY <1>1, <1>2 DEF IInv, Connected
  <2> QED BY <2>1 DEF Registered
<1>3. /\ proxy' \in [Proxies -> Stages] /\ Connected' /\ Accepted' /\ Counted' /\ Bounded'
      /\ proxy'[p] = "stopping" /\ \A q \in Proxies : q # p => proxy'[q] = proxy[q]
  BY <1>1, <1>2, Enters DEF Stages
<1>4. Typing'
  BY <1>1, <1>3 DEF IInv, Typing
<1>5. Listening'
  BY <1>1, <1>3 DEF IInv, Listening
<1>6. Executing'
  <2>1. executor = TRUE
    BY <1>1 DEF IInv, Executing
  <2> QED BY <1>1, <1>3, <2>1 DEF Executing
<1> QED BY <1>3, <1>4, <1>5, <1>6 DEF IInv

LEMMA JoinKeeps ==
  ASSUME Network, IInv, NEW p \in Proxies, join_listener(p)
  PROVE  IInv'
<1>1. /\ proxy[p] = "shut" /\ listener[p] = "done" /\ proxy' = [proxy EXCEPT ![p] = "joined"]
      /\ UNCHANGED <<listener, executor>> /\ UNCHANGED <<jobs, queue, conn>>
  BY DEF join_listener
<1>2. ASSUME NEW c \in Conns, Home[c] = p PROVE Registered(conn[c], "joined")
  <2>1. Registered(conn[c], "shut")
    BY <1>1, <1>2 DEF IInv, Connected
  <2> QED BY <2>1 DEF Registered
<1>3. /\ proxy' \in [Proxies -> Stages] /\ Connected' /\ Accepted' /\ Counted' /\ Bounded'
      /\ proxy'[p] = "joined" /\ \A q \in Proxies : q # p => proxy'[q] = proxy[q]
  BY <1>1, <1>2, Enters DEF Stages
<1>4. Typing'
  BY <1>1, <1>3 DEF IInv, Typing
<1>5. Listening'
  BY <1>1, <1>3 DEF IInv, Listening
<1>6. Executing'
  <2>1. executor = TRUE
    BY <1>1 DEF IInv, Executing
  <2> QED BY <1>1, <1>3, <2>1 DEF Executing
<1> QED BY <1>3, <1>4, <1>5, <1>6 DEF IInv

LEMMA ShutdownKeeps ==
  ASSUME Network, IInv, NEW p \in Proxies, shutdown_all(p)
  PROVE  IInv'
<1>1. Typing /\ Connected /\ Accepted /\ Counted /\ Listening /\ Executing /\ Bounded
  BY DEF IInv
<1>2. /\ proxy[p] = "stopping" /\ proxy' = [proxy EXCEPT ![p] = "shut"]
      /\ UNCHANGED <<listener, jobs, executor, queue>>
      /\ conn' = [c \in Conns |->
                    IF Home[c] = p /\ conn[c].registered
                    THEN [conn[c] EXCEPT !.client = "shut",
                                         !.upstream = IF conn[c].known THEN "shut" ELSE @]
                    ELSE conn[c]]
  BY DEF shutdown_all
<1>3. /\ proxy' \in [Proxies -> Stages]
      /\ proxy'[p] = "shut" /\ \A q \in Proxies : q # p => proxy'[q] = proxy[q]
  BY <1>1, <1>2 DEF Typing, Stages
<1>4. ASSUME NEW c \in Conns
      PROVE  /\ conn'[c] \in Connections /\ conn'[c].phase = conn[c].phase
             /\ Directed(conn'[c]) /\ Registered(conn'[c], proxy'[Home[c]])
  <2>1. Home[c] \in Proxies
    BY DEF Network
  <2>2. PICK q \in Connections : /\ q = conn[c] /\ Directed(q) /\ Registered(q, proxy[Home[c]])
    BY <1>1 DEF Typing, Connected
  <2>3. CASE Home[c] # p
    BY <1>2, <1>3, <2>1, <2>2, <2>3
  <2>4. CASE Home[c] = p /\ q.phase \in Live
    <3>1. PICK u \in {"none", "open", "shut"} : u = IF q.known THEN "shut" ELSE q.upstream
      BY DEF Connections
    <3>2. PICK r : r = [q EXCEPT !.client = "shut", !.upstream = u]
      OBVIOUS
    <3>3. q.registered
      BY <2>2, <2>4 DEF Registered
    <3>4. conn'[c] = r
      BY <1>2, <2>2, <2>4, <3>1, <3>2, <3>3
    <3>5. /\ r \in Connections /\ r.phase = q.phase /\ r.client = "shut" /\ r.upstream = u
          /\ r.target = q.target /\ r.address = q.address
          /\ (r.registered <=> q.registered) /\ (r.known <=> q.known)
      BY <3>2 DEF Connections
    <3>6. u = q.upstream \/ u = "shut"
      BY <3>1
    <3>7. q.phase = "relaying" => u = "shut"
      BY <2>2, <3>1 DEF Registered
    <3>8. Directed(r)
      BY <2>2, <3>5, <3>6 DEF Directed
    <3>9. Registered(r, "shut")
      BY <2>2, <2>4, <3>5, <3>7 DEF Registered, Live
    <3> QED BY <1>3, <2>2, <2>4, <3>4, <3>5, <3>8, <3>9
  <2>5. CASE Home[c] = p /\ q.phase \notin Live
    <3>1. ~q.registered
      BY <2>2, <2>5 DEF Registered
    <3>2. conn'[c] = q
      BY <1>2, <2>2, <3>1
    <3>3. Registered(q, "shut")
      BY <2>2, <2>5 DEF Registered, Live
    <3> QED BY <1>3, <2>2, <2>5, <3>2, <3>3
  <2> QED BY <2>3, <2>4, <2>5
<1>5. Connected'
  BY <1>4 DEF Connected
<1>6. conn' \in [Conns -> Connections]
  <2>1. conn' = [c \in Conns |-> conn'[c]]
    BY <1>2
  <2> QED BY <1>4, <2>1
<1>7. Accepted'
  <2>1. ASSUME NEW i \in 1..Len(queue) PROVE conn'[queue[i]].phase = "queued"
    <3>1. queue[i] \in Conns
      BY <1>1, SMTT(30) DEF Typing
    <3> QED BY <1>1, <1>4, <3>1 DEF Accepted
  <2> QED BY <1>1, <1>2, <2>1 DEF Accepted
<1>8. Counted'
  BY <1>1, <1>2, <1>4, CountSame
<1>9. Typing'
  BY <1>1, <1>2, <1>3, <1>6 DEF Typing
<1>10. Listening'
  BY <1>1, <1>2, <1>3 DEF Listening
<1>11. Executing'
  <2>1. executor = TRUE
    BY <1>1, <1>2 DEF Executing
  <2> QED BY <1>2, <1>3, <2>1 DEF Executing
<1>12. Bounded'
  BY <1>1, <1>2, <1>4, NoneTaken DEF Bounded
<1> QED BY <1>5, <1>7, <1>8, <1>9, <1>10, <1>11, <1>12 DEF IInv

\* No job is left, so no connection of the proxy is: the drop may return.
LEMMA WaitKeeps ==
  ASSUME Network, IInv, NEW p \in Proxies, wait_until_empty(p)
  PROVE  IInv'
<1>1. /\ proxy[p] = "joined" /\ jobs[p] = 0 /\ proxy' = [proxy EXCEPT ![p] = "gone"]
      /\ executor' = (\E q \in Proxies \ {p} : proxy[q] \notin {"none", "gone"})
      /\ UNCHANGED listener /\ UNCHANGED <<jobs, queue, conn>>
  BY DEF wait_until_empty
<1>2. Jobs(p) = {}
  <2>1. Cardinality(Jobs(p)) = 0
    BY <1>1 DEF IInv, Counted
  <2> QED BY <2>1, JobsFinite, FS_EmptySet
<1>3. ASSUME NEW c \in Conns, Home[c] = p PROVE Registered(conn[c], "gone")
  <2>1. Registered(conn[c], "joined")
    BY <1>1, <1>3 DEF IInv, Connected
  <2>2. conn[c].phase \in {"new", "done"}
    BY <1>2, <1>3 DEF Jobs
  <2> QED BY <2>1, <2>2 DEF Registered
<1>4. /\ proxy' \in [Proxies -> Stages] /\ Connected' /\ Accepted' /\ Counted' /\ Bounded'
      /\ proxy'[p] = "gone" /\ \A q \in Proxies : q # p => proxy'[q] = proxy[q]
  BY <1>1, <1>3, Enters DEF Stages
<1>5. Typing'
  BY <1>1, <1>4 DEF IInv, Typing
<1>6. Listening'
  BY <1>1, <1>4 DEF IInv, Listening
<1>7. Executing'
  <2>1. (\E q \in Proxies : proxy'[q] \notin {"none", "gone"})
          <=> (\E q \in Proxies \ {p} : proxy[q] \notin {"none", "gone"})
    BY <1>4
  <2> QED BY <1>1, <2>1 DEF Executing
<1> QED BY <1>4, <1>5, <1>6, <1>7 DEF IInv

-----------------------------------------------------------------------------
(* The theorems.                                                              *)

LEMMA InitKeeps ==
  ASSUME Network, Init
  PROVE  IInv
<1>1. Typing
  <2>1. Fresh \in Connections
    BY SMTT(30) DEF Fresh, Connections, Phases, Answers
  <2>2. proxy \in [Proxies -> Stages] /\ listener \in [Proxies -> {"none", "check", "accept", "done"}]
    BY DEF Init, Stages
  <2>3. conn \in [Conns -> Connections]
    BY <2>1 DEF Init
  <2>4. jobs \in [Proxies -> Int] /\ queue \in Seq(Conns)
    BY SMTT(30) DEF Init
  <2> QED BY <2>2, <2>3, <2>4 DEF Typing
<1>2. \A c \in Conns : conn[c] = Fresh
  BY DEF Init
<1>3. Fresh.phase = "new" /\ Fresh.client = "open" /\ Fresh.upstream = "none"
  BY DEF Fresh
<1>4. Connected
  <2>1. ~Fresh.registered /\ ~Fresh.known
    BY DEF Fresh
  <2>2. Directed(Fresh)
    BY <1>3 DEF Directed, Asked, Live
  <2>3. ASSUME NEW c \in Conns PROVE Registered(Fresh, proxy[Home[c]])
    <3>1. proxy[Home[c]] = "none"
      BY DEF Init, Network
    <3> QED BY <1>3, <2>1, <3>1 DEF Registered, Live
  <2> QED BY <1>2, <2>2, <2>3 DEF Connected
<1>5. Accepted
  <2>1. \A i \in 1..Len(queue) : FALSE
    BY SMTT(30) DEF Init
  <2> QED BY <2>1 DEF Accepted
<1>6. Counted
  <2>1. ASSUME NEW p \in Proxies PROVE jobs[p] = Cardinality(Jobs(p))
    <3>1. Jobs(p) = {}
      BY <1>2, <1>3 DEF Jobs
    <3>2. jobs[p] = 0
      BY DEF Init
    <3> QED BY <3>1, <3>2, FS_EmptySet
  <2> QED BY <2>1 DEF Counted
<1>7. Listening /\ Executing
  BY DEF Init, Listening, Executing
<1>8. Bounded
  <2>1. Handled = {}
    BY <1>2, <1>3 DEF Handled
  <2>2. Cardinality(Handled) = 0
    BY <2>1, FS_EmptySet
  <2> QED BY <2>2, SMTT(30) DEF Bounded, Network, Init
<1> QED BY <1>1, <1>4, <1>5, <1>6, <1>7, <1>8 DEF IInv

LEMMA StepKeeps ==
  ASSUME Network, IInv, [Next]_vars
  PROVE  IInv'
<1>1. ASSUME NEW p \in Proxies,
             \/ start_inner(p) \/ listener_checks(p) \/ listener_idles(p) \/ drop_begins(p)
             \/ shutdown_all(p) \/ join_listener(p) \/ wait_until_empty(p)
      PROVE  IInv'
  BY <1>1, StartKeeps, ListenKeeps, DropKeeps, ShutdownKeeps, JoinKeeps, WaitKeeps
<1>2. ASSUME NEW c \in Conns,
             \/ accept_connections(c) \/ connection_worker(c) \/ register(c) \/ set_upstream(c)
             \/ read_ends(c) \/ handle_connect(c)
      PROVE  IInv'
  BY <1>2, AcceptKeeps, WorkerKeeps, RegisterKeeps, SetUpstreamKeeps, ReadEndsKeeps, HandshakeKeeps
<1>3. ASSUME NEW c \in Conns,
             \/ \E r \in Requests : read_request_header(c, r) \/ next_tls_request(c, r)
             \/ \E zone \in Zones : connect(c, zone)
             \/ \E fails \in BOOLEAN : relay_request(c, fails)
      PROVE  IInv'
  BY <1>3, ReadRequestKeeps, NextTlsKeeps, ConnectKeeps, RelayKeeps
<1>4. CASE UNCHANGED vars
  <2>1. UNCHANGED <<proxy, listener, jobs, executor, queue, conn>>
    BY <1>4 DEF vars
  <2>2. Typing' /\ Connected' /\ Accepted' /\ Listening' /\ Executing' /\ Bounded'
    BY <2>1 DEF IInv, Typing, Connected, Accepted, Listening, Executing, Bounded, Handled
  <2>3. Counted'
    BY <2>1, CountSame DEF IInv
  <2> QED BY <2>2, <2>3 DEF IInv
<1> QED BY <1>1, <1>2, <1>3, <1>4 DEF Next

\* At every moment the job count is that of the unfinished connections, a
\* registered socket is shut once its proxy's were, and what a connection talks
\* to was resolved from the permitted name it asked for; the queue and the
\* workers stay within MAX_PENDING_ and MAX_ACTIVE_PROXY_CONNECTIONS.
THEOREM ProxyInvariant ==
  ASSUME Network
  PROVE  Spec => []IInv
<1>1. Init => IInv
  BY InitKeeps
<1>2. IInv /\ [Next]_vars => IInv'
  BY StepKeeps
<1> QED BY <1>1, <1>2, PTL DEF Spec

\* Dropping a HostNetworkProxy leaves no socket or job of it and touches no
\* other proxy, whatever its listener and the shared workers are doing; and a
\* connection talks only to a public address that the permitted name it asked
\* for leads to through at most MAX_CNAME_DEPTH canonical names, whatever the
\* DNS servers answer from one resolution to the next.
THEOREM ProxyMediates ==
  ASSUME Network
  PROVE  Spec => []DestinationsMediated
<1>1. ASSUME IInv PROVE DestinationsMediated
  <2>1. \A c \in Conns : /\ Directed(conn[c]) /\ Registered(conn[c], proxy[Home[c]])
                         /\ conn[c] \in Connections
    BY <1>1 DEF IInv, Connected, Typing
  <2>2. ASSUME NEW p \in Proxies
        PROVE  /\ jobs[p] = Cardinality({c \in Conns : Home[c] = p
                                               /\ conn[c].phase \notin {"new", "done"}})
               /\ proxy[p] = "gone" =>
                    \A c \in Conns : Home[c] = p =>
                      conn[c].phase \in {"new", "done"} /\ conn[c].upstream # "open"
    <3>1. jobs[p] = Cardinality({c \in Conns : Home[c] = p
                                               /\ conn[c].phase \notin {"new", "done"}})
      BY <1>1 DEF IInv, Counted, Jobs
    <3>2. ASSUME proxy[p] = "gone", NEW c \in Conns, Home[c] = p
          PROVE  conn[c].phase \in {"new", "done"} /\ conn[c].upstream # "open"
      BY <2>1, <3>2 DEF Registered, Directed
    <3> QED BY <3>1, <3>2
  <2>3. ASSUME NEW c \in Conns
        PROVE  /\ proxy[Home[c]] \in {"shut", "joined"} =>
                    /\ conn[c].registered => conn[c].client = "shut"
                    /\ conn[c].phase = "relaying" => conn[c].upstream = "shut"
               /\ conn[c].registered /\ conn[c].client = "shut" => stopped(Home[c])
    BY <2>1 DEF Registered, stopped
  <2>4. DropLeavesNothing
    BY <1>1, <2>2, <2>3 DEF DropLeavesNothing, IInv, Executing
  <2>5. OnlyApprovedDestinations
    BY <2>1 DEF OnlyApprovedDestinations, Directed, Asked, Live
  <2> QED BY <2>4, <2>5 DEF DestinationsMediated
<1>2. IInv => DestinationsMediated
  BY <1>1
<1> QED BY <1>2, ProxyInvariant, PTL
=============================================================================
