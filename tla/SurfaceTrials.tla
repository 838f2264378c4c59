---------------------------- MODULE SurfaceTrials ----------------------------
(***************************************************************************)
(* Hosts, domains and certificate logs, and what a surface scan may say of *)
(* them.                                                                   *)
(***************************************************************************)
EXTENDS Surface, Trial

Four(n) == <<8, 8, 8, n>>
Six == <<8193, 18528, 0, 0, 0, 0, 0, 1>>
Private == {<<10, 0, 0, 1>>, <<100, 64, 0, 1>>, <<0, 0, 0, 0, 0, 0, 0, 1>>,
            <<0, 0, 0, 0, 0, 65535, 2560, 1>>, <<64768, 0, 0, 0, 0, 0, 0, 1>>}
Found(ips) == [ok |-> TRUE, ips |-> ips]
Lost(ips) == [ok |-> FALSE, ips |-> ips]
WebPage(status, headers) == [status |-> status, headers |-> headers]

Quiet(key) ==
    [key |-> key, literal |-> FALSE, wellFormed |-> TRUE, a |-> Found(<<Four(1)>>),
     aaaa |-> Found(<<>>), cname |-> FALSE, open |-> {}, certs |-> <<>>,
     head |-> WebPage(200, Headers), get |-> WebPage(200, Headers), late |-> FALSE]

Lookups == {Found(<<>>), Found(<<Four(1)>>), Found(<<Four(1), Four(2)>>), Lost(<<Four(1)>>)}
             \cup {Found(<<Four(1), ip>>) : ip \in {p \in Private : Len(p) = 4}}
Lookups6 == {Found(<<>>), Found(<<Six>>), Lost(<<Six>>)}
              \cup {Found(<<ip>>) : ip \in {p \in Private : Len(p) = 8}}
Listening == SUBSET {<<Four(1), 80>>, <<Four(1), 443>>, <<Four(2), 8443>>, <<Six, 443>>}
Resolved == {[Quiet(0) EXCEPT !.a = a, !.aaaa = b, !.cname = c, !.open = o] :
               a \in Lookups, b \in Lookups6, c \in BOOLEAN, o \in Listening}
Web == [Quiet(0) EXCEPT !.a = Found(<<Four(1), Four(2)>>), !.open = {<<Four(1), 443>>, <<Four(2), 443>>}]
Certs == {[e \in S |-> IF e[1] = Four(1) THEN c ELSE d] :
            S \in SUBSET Web.open, c, d \in {{}, {"self-signed"}, {"self-signed", "expired"}, {"expiring"}}}
Served == {[Web EXCEPT !.certs = c] : c \in Certs}
            \cup {[Web EXCEPT !.head = x, !.get = y] :
                    x, y \in {WebPage(s, hs) : s \in {0, 200, 405}, hs \in {{}, {"csp"}, Headers}}}
Odd == {[Quiet(0) EXCEPT !.late = TRUE], [Quiet(0) EXCEPT !.wellFormed = FALSE],
        [Web EXCEPT !.open = {<<Four(2), 443>>}], [Web EXCEPT !.open = {<<Four(2), 8080>>}],
        [Web EXCEPT !.open = {<<Four(1), 22>>}],
        [Web EXCEPT !.head = WebPage(501, {}), !.get = WebPage(200, {"csp"})]}
         \cup {[Quiet(0) EXCEPT !.literal = TRUE, !.a = Found(<<ip>>)] : ip \in Private \cup {Four(1)}}

\* Behind the names below the apex: one open, one private, one quiet, one late.
Behind == [k \in 1..5 |->
             CASE k = 1 -> [Quiet(1) EXCEPT !.open = {<<Four(1), 443>>}]
               [] k = 2 -> [Quiet(2) EXCEPT !.a = Found(<<<<10, 0, 0, 1>>>>)]
               [] k = 3 -> [Quiet(3) EXCEPT !.open = {<<Four(1), 80>>}]
               [] k = 4 -> [Quiet(4) EXCEPT !.late = TRUE]
               [] OTHER -> [Quiet(5) EXCEPT !.open = {<<Four(1), 80>>}]]
Below(k) == [key |-> k, owned |-> TRUE]
CtPage(names, next) == [status |-> 200, big |-> FALSE, body |-> "array", names |-> names, next |-> next]
CtPages == {CtPage(n, u) : n \in {{}, {Below(1)}, {Below(2)}, {Below(3), Below(5)}, {Below(4)}, {Below(0), Below(1)},
                                   {Below(0), Below(1), Below(3), Below(5)},
                                   {[key |-> 2, owned |-> FALSE], Below(1), Below(3)}},
                            u \in {NoUrl, ApiUrl, [ApiUrl EXCEPT !.host = "other"]}}
             \cup {[CtPage({Below(1)}, NoUrl) EXCEPT !.status = 503],
                   [CtPage({Below(1)}, NoUrl) EXCEPT !.big = TRUE],
                   [CtPage({Below(1)}, NoUrl) EXCEPT !.body = "other"]}
Logs == {[ips |-> {Four(9)}, pages |-> p] :
           p \in {<<x>> : x \in CtPages} \cup {<<x, y>> : x \in {z \in CtPages : z.next # NoUrl}, y \in CtPages}}
          \cup {[ips |-> s, pages |-> <<CtPage({Below(1)}, NoUrl)>>] : s \in {{}, {Four(9), <<10, 0, 0, 1>>}}}
          \cup {[ips |-> {Four(9)}, pages |-> [i \in 1..(MaxCtPages + 1) |-> CtPage({Below(1)}, ApiUrl)]]}
NoLog == [ips |-> {}, pages |-> <<>>]
NameServers == [ok : BOOLEAN, names : {{}, {Below(1)}, {Below(5), [key |-> 4, owned |-> FALSE]}}]

SurfaceInit ==
    \/ \E h \in Resolved \cup Served \cup Odd, k \in {"host", "ip_range"} :
         Given([of |-> "surface", kind |-> k, apex |-> h, log |-> NoLog,
                ns |-> [ok |-> TRUE, names |-> {}], hosts |-> Behind])
    \/ \E l \in Logs, n \in NameServers, h \in {Quiet(0), Web} :
         Given([of |-> "surface", kind |-> "domain", apex |-> h, log |-> l, ns |-> n,
                hosts |-> Behind])
RunSurface == Call("surface", ScanSurface(input.kind, input.apex, input.log, input.ns, input.hosts))

-----------------------------------------------------------------------------
(***************************************************************************)
(* Properties                                                              *)
(***************************************************************************)
\* The hosts of the scan, by the world and not by what the scanner found out.
NamesOfApex ==
    {n \in (UNION {input.log.pages[i].names : i \in DOMAIN input.log.pages}) \cup input.ns.names : n.owned}
InScope == {input.apex} \cup IF input.kind = "domain"
                             THEN {input.hosts[n.key] : n \in {m \in NamesOfApex : m.key # input.apex.key}}
                             ELSE {}
Where(h) == ToSet(h.a.ips) \cup ToSet(h.aaaa.ips)
LookupLost(h) == ~h.literal /\ ~(h.a.ok /\ h.aaaa.ok)
Shows(h, port) == \E ip \in Where(h) : <<ip, port>> \in h.open
Lacks(h) == Headers \ (IF h.head.status \in {405, 501} THEN h.get.headers ELSE h.head.headers)
\* The root page is asked for at the first address only.
Unasked(h) == \E ip \in Where(h) : \E port \in ToSet(CommonPorts) :
                <<ip, port>> \in h.open /\ <<HostAddresses(h)[1], port>> \notin h.open
\* The cap counts the apex, if the log lists it.
Cut == Cardinality({n.key : n \in NamesOfApex}) > MaxEnumNames

\* A surface scan that succeeds says what is so, and says of every name that
\* the log and the name servers have which of its common ports are open: what it
\* leaves out would be resolved.  A scope that is cut short, a name that cannot
\* be probed and a page that is missing refuse the job.  Exempt: a failed
\* look-up, which counts as no address; a failed list of name servers; a name
\* list beyond the cap; and headers of a root page that was not asked for where
\* it is.
SurfaceHonest ==
    Returned("surface") =>
        /\ \A f \in Result.items : \E h \in InScope :
             /\ f[2] = h.key
             /\ f[1] = "open-port" => Shows(h, f[3])
             /\ f[1] = "dangling-cname" => h.cname /\ (Where(h) = {} \/ LookupLost(h))
             /\ f[1] \in {"self-signed", "expired", "expiring"} =>
                  \E ip \in Where(h) : <<ip, f[3]>> \in DOMAIN h.certs /\ f[1] \in h.certs[<<ip, f[3]>>]
             /\ f[1] = "missing-header" => Shows(h, f[3]) /\ (f[4] \in Lacks(h) \/ Unasked(h))
        /\ Result.done /\ input.ns.ok /\ ~Cut =>
             \A h \in {g \in InScope : ~LookupLost(g)} :
               /\ h.cname /\ Where(h) = {} => <<"dangling-cname", h.key, 0, "cname">> \in Result.items
               /\ \A port \in ToSet(CommonPorts) :
                    Shows(h, port) => <<"open-port", h.key, port, "port">> \in Result.items

\* Connections go only to public addresses that were looked up for the host in
\* question, and a host with one address that is not public is not probed at all.
OnlyVetted ==
    Returned("surface") =>
        \A ip \in Result.dials :
          /\ PublicAddress(ip)
          /\ \E h \in InScope : ip \in Where(h) /\ \A other \in Where(h) : PublicAddress(other) \/ LookupLost(h)
=============================================================================
