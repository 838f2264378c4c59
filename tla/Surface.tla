------------------------------- MODULE Surface -------------------------------
(***************************************************************************)
(* The attack-surface scanner: one probe of a host (its addresses, open    *)
(* ports, certificates and the headers of its root page), and for a domain *)
(* the enumeration of its names and a probe of each.  Every address is     *)
(* vetted once, and all connections go to vetted addresses.  Hosts are     *)
(* numbered in alphabetical order.                                         *)
(*                                                                         *)
(* host: [key, literal, wellFormed, a, aaaa: look-ups [ok, ips], cname:    *)
(*        BOOLEAN, open: the <<ip, port>> that answer, certs: [<<ip, port>>*)
(*        -> the set of its flaws], head, get: answers to / [status,       *)
(*        headers], late: the deadline or the budget ends the probe]       *)
(* log: the certificate log: [ips, pages], pages as [status, big, body:    *)
(*        array or other, names, next: a url]                              *)
(* name: [key, owned: well-formed and the apex or below it]                *)
(***************************************************************************)
EXTENDS InventoryEgress, Steps, Integers

CONSTANTS
    MaxCtPages,     \* ASM_CT_MAX_PAGES
    MaxEnumNames    \* ASM_ENUM_MAX_NAMES

ASSUME SurfaceAssumption == MaxCtPages \in Nat /\ MaxEnumNames \in Nat

CommonPorts == <<80, 443, 8000, 8008, 8080, 8888, 3000, 5000, 8443, 9443, 10443>>
HttpsPorts == {443, 8443, 9443, 10443}
Headers == {"csp", "hsts", "nosniff", "frame", "xss", "referrer", "permissions", "corp"}

-----------------------------------------------------------------------------
(***************************************************************************)
(* A probe                                                                 *)
(***************************************************************************)
\* normalizeHostTarget: kinds and prefixes apart, a hostname or an IP literal.
\* A range is probed only if it is one address.
normalizeHostTarget(kind, h) == h.wellFormed /\ (kind = "ip_range" => h.literal)

Answer(lookup) == IF lookup.ok THEN lookup.ips ELSE <<>>
HostAddresses(h) == IF h.literal THEN h.a.ips ELSE Answer(h.a) \o Answer(h.aaaa)

\* Mutant: the AAAA records are not vetted.
resolveVettedHostByA(h) == \A ip \in ToSet(Answer(h.a)) : PublicAddress(ip)

resolveVettedHost(h) == \A ip \in ToSet(HostAddresses(h)) : PublicAddress(ip)

\* Mutant: only the first address is tried.
tcpConnectFirst(h, port) == HostAddresses(h) # <<>> /\ <<HostAddresses(h)[1], port>> \in h.open

tcpConnectAnyVettedIp(h, port) == \E ip \in ToSet(HostAddresses(h)) : <<ip, port>> \in h.open
scanCommonPorts(h) == {port \in ToSet(CommonPorts) : tcpConnectAnyVettedIp(h, port)}

\* The first address whose handshake ends in time: what is wrong with it.
tlsHandshakeGetMetadata(h, port) ==
    LET shown == {i \in DOMAIN HostAddresses(h) : <<HostAddresses(h)[i], port>> \in DOMAIN h.certs}
    IN IF shown = {} THEN {} ELSE h.certs[<<HostAddresses(h)[Min(shown)], port>>]

\* The first HTTPS port, or else the first HTTP port, always at the first
\* address; no answer is status 0 without headers.
RootPort(h) ==
    LET open == scanCommonPorts(h)
        asked == IF open \cap HttpsPorts # {} THEN open \cap HttpsPorts ELSE open
    IN IF open = {} THEN 0
       ELSE CommonPorts[Min({i \in DOMAIN CommonPorts : CommonPorts[i] \in asked})]
httpRootRequest(h, answer) ==
    IF <<HostAddresses(h)[1], RootPort(h)>> \in h.open THEN answer ELSE [status |-> 0, headers |-> {}]
rootSecurityHeaders(h) ==
    LET head == httpRootRequest(h, h.head)
    IN IF head.status \in {405, 501} THEN httpRootRequest(h, h.get).headers ELSE head.headers

findingsFromProbe(h) ==
    LET ports == scanCommonPorts(h)
        missing == IF RootPort(h) = 0 THEN {} ELSE Headers \ rootSecurityHeaders(h)
    IN [Empty EXCEPT !.items =
          (IF h.cname /\ HostAddresses(h) = <<>> THEN {<<"dangling-cname", h.key, 0, "cname">>} ELSE {})
            \cup {<<"open-port", h.key, port, "port">> : port \in ports}
            \cup (UNION {{<<flaw, h.key, port, "cert">> : flaw \in tlsHandshakeGetMetadata(h, port)} :
                           port \in ports \cap HttpsPorts})
            \cup {<<"missing-header", h.key, RootPort(h), x>> : x \in missing}]

probe(kind, h) ==
    Guarded(normalizeHostTarget(kind, h) /\ resolveVettedHost(h),
            Then([Empty EXCEPT !.dials = ToSet(HostAddresses(h)), !.done = ~h.late], findingsFromProbe(h)))

-----------------------------------------------------------------------------
(***************************************************************************)
(* The names of a domain                                                   *)
(***************************************************************************)
allowlistedCrtShUrl(url) == To({"own"}, url)
Read(page) == page.status = 200 /\ ~page.big /\ page.body = "array"
Follows(page) == page.next # NoUrl
\* The pages are read up to the first without a next link.
Complete(pages, n) ==
    /\ \A i \in 1..n : Read(pages[i])
    /\ \A i \in 1..(n - 1) : Follows(pages[i]) /\ allowlistedCrtShUrl(pages[i].next)
    /\ ~Follows(pages[n])
collectCrtShNames(log) ==
    LET whole == {n \in 1..MaxCtPages : n \in DOMAIN log.pages /\ Complete(log.pages, n)}
    IN Guarded(/\ log.ips # {} /\ \A ip \in log.ips : PublicAddress(ip)
               /\ whole # {},
               [Empty EXCEPT !.items = UNION {log.pages[i].names : i \in 1..(CHOOSE n \in whole : TRUE)}])

\* The names in the apex's scope, sorted, and cut at the cap.  A failed look-up
\* of the name servers is an empty one.
enumerate(log, ns) ==
    LET ct == collectCrtShNames(log)
        found == ct.items \cup (IF ns.ok THEN ns.names ELSE {})
        keys == {n.key : n \in {m \in found : m.owned}}
        before(k) == {j \in keys : j <= k}
    IN [ct EXCEPT !.items = {k \in keys : Cardinality(before(k)) <= MaxEnumNames}]

\* The apex, and for a domain each of its other names; the first error ends the
\* job without findings.  hosts: what there is behind a name.
ScanSurface(kind, apex, log, ns, hosts) ==
    LET names == enumerate(log, ns)
        subs == SetToSeq(names.items \ {apex.key})
    IN Whole(InOrder(<<probe(kind, apex),
                       IF kind = "domain"
                       THEN Then(Silent(names),
                                 InOrder([i \in DOMAIN subs |-> probe("domain", hosts[subs[i]])]))
                       ELSE Empty>>))
=============================================================================
