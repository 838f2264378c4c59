-------------------------- MODULE ThirdPartiesProofs --------------------------
(***************************************************************************)
(* Theorems about what the platform asks of third parties and tells them,  *)
(* for every answer that they may give: listings, images, logs, names and  *)
(* results of any length.  A call is a fold of what its parts come to      *)
(* (InOrder), so the proofs rest on one induction, by a minimal            *)
(* counterexample in the finite set of the parts yet to be done.           *)
(***************************************************************************)
EXTENDS ThirdParties, FiniteSetTheorems, TLAPS


-----------------------------------------------------------------------------
(***************************************************************************)
(* Carrying out results in order                                           *)
(***************************************************************************)
\* A non-empty set of subsets of a finite set has a minimal element.
LEMMA MinimalSubset ==
    ASSUME NEW S, IsFiniteSet(S), NEW T, T \subseteq SUBSET S, T # {}
    PROVE  \E x \in T : \A y \in T : y \subseteq x => y = x
<1>1. FiniteSubsetsOf(S) = SUBSET S
  BY FS_FiniteSubsetsOfFinite
<1>2. IsWellFoundedOn(StrictSubsetOrdering(S), SUBSET S)
  BY <1>1, FS_StrictSubsetOrderingWellFounded
<1>3. \E x \in T : \A y \in T : ~(<<y, x>> \in StrictSubsetOrdering(S))
  BY <1>2, WFMin
<1> QED BY <1>3 DEF StrictSubsetOrdering

\* Max is what it says.
HasMax(s) == \E m \in s : \A i \in s : m >= i
FiniteInts(S) == IsFiniteSet(S) /\ S \subseteq Int

\* A non-empty finite set of integers has a largest element.
LEMMA MaxOfFinite ==
    ASSUME NEW S, FiniteInts(S), S # {}
    PROVE  Max(S) \in S /\ \A i \in S : i <= Max(S)
<1> DEFINE T == {s \in SUBSET S : s # {} /\ ~HasMax(s)}
<1>1. ASSUME T # {} PROVE FALSE
  <2>1. PICK s \in T : \A t \in T : t \subseteq s => t = s
    <3>1. T \subseteq SUBSET S
      OBVIOUS
    <3>2. IsFiniteSet(S)
      BY DEF FiniteInts
    <3> HIDE DEF T
    <3> QED BY <1>1, <3>1, <3>2, MinimalSubset
  <2>2. PICK e \in s : TRUE
    BY <2>1
  <2>3. \A i \in s : i \in Int
    BY <2>1 DEF FiniteInts
  <2>4. HasMax(s)
    <3>1. CASE s \ {e} = {}
      <4>1. \A i \in s : e >= i
        BY <2>2, <2>3, <3>1
      <4> QED BY <2>2, <4>1 DEF HasMax
    <3>2. CASE s \ {e} # {}
      <4>1. s \ {e} \in SUBSET S /\ s \ {e} \subseteq s /\ s \ {e} # s
        BY <2>1, <2>2
      <4>2. HasMax(s \ {e})
        BY <2>1, <3>2, <4>1
      <4>3. PICK m \in s \ {e} : \A i \in s \ {e} : m >= i
        BY <4>2 DEF HasMax
      <4>4. m \in Int /\ e \in Int /\ m \in s
        BY <2>2, <2>3, <4>3
      <4>5. CASE m >= e
        <5>1. \A i \in s : m >= i
          BY <4>3, <4>5
        <5> QED BY <4>4, <5>1 DEF HasMax
      <4>6. CASE ~(m >= e)
        <5>1. \A i \in s : e >= i
          BY <2>3, <4>3, <4>4, <4>6
        <5> QED BY <2>2, <5>1 DEF HasMax
      <4> QED BY <4>5, <4>6
    <3> QED BY <3>1, <3>2
  <2> QED BY <2>1, <2>4
<1>2. HasMax(S)
  BY <1>1
<1>3. Max(S) \in S /\ \A i \in S : Max(S) >= i
  BY <1>2 DEF HasMax, Max
<1> QED BY <1>3 DEF FiniteInts

-----------------------------------------------------------------------------
\* InOrder as the recursion that its fold is.
Body(rs, g, s) == IF s = {} THEN Empty ELSE Then(g[s \ {Max(s)}], rs[Max(s)])
Iter(rs) == CHOOSE g : g = [s \in SUBSET DOMAIN rs |-> Body(rs, g, s)]
Unfolds(rs, x, g) == g = [s \in SUBSET x |-> Body(rs, g, s)]
Finite(rs) == FiniteInts(DOMAIN rs)

\* InOrder is the last value of its fold.
LEMMA InOrderIter == ASSUME NEW rs PROVE InOrder(rs) = Iter(rs)[DOMAIN rs]
  BY DEF InOrder, FoldLeft, MapThenFoldSet, Iter, Body

\* The last of a non-empty set of positions is one of them.
LEMMA MaxIn ==
    ASSUME NEW rs, Finite(rs), NEW s \in SUBSET DOMAIN rs, s # {}
    PROVE  Max(s) \in s
<1>1. FiniteInts(s)
  BY FS_Subset DEF Finite, FiniteInts
<1> QED BY <1>1, MaxOfFinite

\* Two functions that unfold in the same way agree.
LEMMA IterUnique ==
    ASSUME NEW rs, Finite(rs), NEW x \in SUBSET DOMAIN rs, NEW y \in SUBSET DOMAIN rs,
           NEW g, NEW h, Unfolds(rs, x, g), Unfolds(rs, y, h), NEW t, t \subseteq x, t \subseteq y
    PROVE  g[t] = h[t]
<1> DEFINE T == {s \in SUBSET DOMAIN rs : s \subseteq x /\ s \subseteq y /\ g[s] # h[s]}
<1>1. ASSUME T # {} PROVE FALSE
  <2>1. PICK s \in T : \A u \in T : u \subseteq s => u = s
    <3>1. T \subseteq SUBSET DOMAIN rs
      OBVIOUS
    <3> HIDE DEF T
    <3> QED BY <1>1, <3>1, MinimalSubset DEF Finite, FiniteInts
  <2>2. g[s] = Body(rs, g, s) /\ h[s] = Body(rs, h, s)
    BY <2>1 DEF Unfolds
  <2>3. CASE s = {}
    BY <2>1, <2>2, <2>3 DEF Body
  <2>4. CASE s # {}
    <3>1. Max(s) \in s
      BY <2>1, <2>4, MaxIn
    <3>2. g[s \ {Max(s)}] = h[s \ {Max(s)}]
      BY <2>1, <3>1
    <3> QED BY <2>1, <2>2, <2>4, <3>2 DEF Body
  <2> QED BY <2>3, <2>4
<1> QED BY <1>1

\* The fold over a finite set of positions exists.
LEMMA IterExists ==
    ASSUME NEW rs, Finite(rs)
    PROVE  \A x \in SUBSET DOMAIN rs : \E g : Unfolds(rs, x, g)
<1> DEFINE T == {x \in SUBSET DOMAIN rs : ~\E g : Unfolds(rs, x, g)}
<1>1. ASSUME T # {} PROVE FALSE
  <2>1. PICK x \in T : \A y \in T : y \subseteq x => y = x
    <3>1. T \subseteq SUBSET DOMAIN rs
      OBVIOUS
    <3> HIDE DEF T
    <3> QED BY <1>1, <3>1, MinimalSubset DEF Finite, FiniteInts
  <2> DEFINE G(y) == CHOOSE g : Unfolds(rs, y, g)
             h == [s \in SUBSET x |-> IF s = {} THEN Empty
                     ELSE Then(G(s \ {Max(s)})[s \ {Max(s)}], rs[Max(s)])]
  <2>2. \A y : y \subseteq x /\ y # x => Unfolds(rs, y, G(y))
    BY <2>1
  <2> HIDE DEF G
  <2>3. ASSUME NEW s \in SUBSET x PROVE h[s] = Body(rs, h, s)
    <3>1. CASE s = {}
      BY <3>1 DEF Body
    <3>2. CASE s # {}
      <4> DEFINE u == s \ {Max(s)}
      <4>1. Max(s) \in s /\ u \subseteq x /\ u # x
        BY <2>1, <3>2, MaxIn
      <4>2. Unfolds(rs, u, G(u))
        BY <2>2, <4>1
      <4>3. G(u)[u] = Body(rs, G(u), u)
        BY <4>2 DEF Unfolds
      <4>4. h[u] = G(u)[u]
        <5>1. CASE u = {}
          BY <4>1, <4>3, <5>1 DEF Body
        <5>2. CASE u # {}
          <6> DEFINE v == u \ {Max(u)}
          <6>1. Max(u) \in u /\ v \subseteq u /\ v # x /\ v \subseteq x
            BY <2>1, <4>1, <5>2, MaxIn
          <6>2. Unfolds(rs, v, G(v))
            BY <2>2, <6>1
          <6>3. G(u)[v] = G(v)[v]
            BY <2>1, <4>1, <4>2, <6>1, <6>2, IterUnique
          <6> QED BY <4>1, <4>3, <5>2, <6>3 DEF Body
        <5> QED BY <5>1, <5>2
      <4> QED BY <3>2, <4>4 DEF Body
    <3> QED BY <3>1, <3>2
  <2>4. Unfolds(rs, x, h)
    BY <2>3 DEF Unfolds
  <2> QED BY <2>1, <2>4
<1> QED BY <1>1

\* It does the last of the positions after all others.
LEMMA IterUnfolds ==
    ASSUME NEW rs, Finite(rs)
    PROVE  \A s \in SUBSET DOMAIN rs : Iter(rs)[s] = Body(rs, Iter(rs), s)
<1>1. Unfolds(rs, DOMAIN rs, Iter(rs))
  BY IterExists DEF Iter, Unfolds
<1> QED BY <1>1 DEF Unfolds

-----------------------------------------------------------------------------
\* What is sent anywhere is sent by one of the results, and so with the items.
LEMMA InOrderWithin ==
    ASSUME NEW rs, Finite(rs), NEW H, NEW K, \A i \in DOMAIN rs : rs[i].dials \subseteq H /\ rs[i].items \subseteq K
    PROVE  InOrder(rs).dials \subseteq H /\ InOrder(rs).items \subseteq K
<1> DEFINE it == Iter(rs)
           T == {s \in SUBSET DOMAIN rs : ~(it[s].dials \subseteq H /\ it[s].items \subseteq K)}
<1>1. ASSUME T # {} PROVE FALSE
  <2>1. PICK s \in T : \A u \in T : u \subseteq s => u = s
    <3>1. T \subseteq SUBSET DOMAIN rs
      OBVIOUS
    <3> HIDE DEF T
    <3> QED BY <1>1, <3>1, MinimalSubset DEF Finite, FiniteInts
  <2>2. it[s] = Body(rs, it, s)
    BY <2>1, IterUnfolds
  <2> HIDE DEF it
  <2>3. CASE s = {}
    BY <2>1, <2>2, <2>3 DEF Body, Empty
  <2>4. CASE s # {}
    <3>1. Max(s) \in s /\ Max(s) \in DOMAIN rs
      BY <2>1, <2>4, MaxIn
    <3>2. it[s \ {Max(s)}].dials \subseteq H /\ it[s \ {Max(s)}].items \subseteq K
      BY <2>1, <3>1
    <3>3. it[s] = Then(it[s \ {Max(s)}], rs[Max(s)])
      BY <2>2, <2>4 DEF Body
    <3> QED BY <2>1, <3>1, <3>2, <3>3 DEF Then
  <2> QED BY <2>3, <2>4
<1> QED BY <1>1, InOrderIter

\* What ends without an error has gone through all of them.
LEMMA InOrderDone ==
    ASSUME NEW rs, Finite(rs), InOrder(rs).done
    PROVE  \A i \in DOMAIN rs : rs[i].done /\ rs[i].items \subseteq InOrder(rs).items
<1> DEFINE it == Iter(rs)
           Good(s) == it[s].done => \A i \in s : rs[i].done /\ rs[i].items \subseteq it[s].items
           T == {s \in SUBSET DOMAIN rs : ~Good(s)}
<1>1. ASSUME T # {} PROVE FALSE
  <2>1. PICK s \in T : \A u \in T : u \subseteq s => u = s
    <3>1. T \subseteq SUBSET DOMAIN rs
      OBVIOUS
    <3> HIDE DEF T
    <3> QED BY <1>1, <3>1, MinimalSubset DEF Finite, FiniteInts
  <2>2. it[s] = Body(rs, it, s)
    BY <2>1, IterUnfolds
  <2> HIDE DEF it
  <2>3. CASE s = {}
    BY <2>1, <2>3
  <2>4. CASE s # {}
    <3>1. Max(s) \in s /\ Max(s) \in DOMAIN rs
      BY <2>1, <2>4, MaxIn
    <3>2. Good(s \ {Max(s)})
      BY <2>1, <3>1
    <3>3. it[s] = Then(it[s \ {Max(s)}], rs[Max(s)])
      BY <2>2, <2>4 DEF Body
    <3>4. ASSUME it[s].done, NEW i \in s PROVE rs[i].done /\ rs[i].items \subseteq it[s].items
      <4>1. it[s \ {Max(s)}].done /\ rs[Max(s)].done
            /\ it[s].items = it[s \ {Max(s)}].items \cup rs[Max(s)].items
        BY <3>3, <3>4 DEF Then
      <4>2. CASE i = Max(s)
        BY <4>1, <4>2
      <4>3. CASE i # Max(s)
        BY <3>2, <4>1, <4>3
      <4> QED BY <4>2, <4>3
    <3> QED BY <2>1, <3>4
  <2> QED BY <2>3, <2>4
<1> QED BY <1>1, InOrderIter

\* All that parts done in order come to, one of the parts came to.
LEMMA InOrderFrom ==
    ASSUME NEW rs, Finite(rs)
    PROVE  /\ \A u \in InOrder(rs).dials : \E i \in DOMAIN rs : u \in rs[i].dials
           /\ \A e \in InOrder(rs).items : \E i \in DOMAIN rs : e \in rs[i].items
<1> DEFINE H == UNION {rs[i].dials : i \in DOMAIN rs}
           K == UNION {rs[i].items : i \in DOMAIN rs}
<1>1. \A i \in DOMAIN rs : rs[i].dials \subseteq H /\ rs[i].items \subseteq K
  OBVIOUS
<1> HIDE DEF H, K
<1>2. InOrder(rs).dials \subseteq H /\ InOrder(rs).items \subseteq K
  BY <1>1, InOrderWithin
<1> QED BY <1>2 DEF H, K

\* The positions of a sequence.
LEMMA FiniteRange == ASSUME NEW n \in Nat PROVE FiniteInts(1..n)
  BY FS_Interval DEF FiniteInts

\* A sequence is a function that InOrder can fold.
LEMMA FiniteSeq == ASSUME NEW rs, NEW n \in Nat, DOMAIN rs = 1..n PROVE Finite(rs)
  BY FiniteRange DEF Finite

\* A credential goes home: to the provider's own host over https, or to where one
\* of the redirects that take it along leads.
Home(r, away) == \A u \in r.dials : AtHome(u) \/ u \in away

\* What asks nobody leaks nothing.
LEMMA HomeSimple ==
    ASSUME NEW away
    PROVE  Home(Empty, away) /\ Home(Refused, away)
  BY DEF Home, Empty, Refused

\* A guard asks nobody.
LEMMA HomeGuarded ==
    ASSUME NEW away, NEW ok, NEW r, ok => Home(r, away)
    PROVE  Home(Guarded(ok, r), away)
  BY HomeSimple DEF Guarded

\* The second of two parts matters only if the first is done.
LEMMA HomeThen ==
    ASSUME NEW away, NEW a, NEW b, Home(a, away), a.done => Home(b, away)
    PROVE  Home(Then(a, b), away)
  BY DEF Home, Then

\* To drop the items of a failure leaves the requests as they are.
LEMMA HomeWhole == ASSUME NEW away, NEW r, Home(r, away) PROVE Home(Whole(r), away)
<1>1. Whole(r).dials = r.dials
  BY DEF Whole, Silent
<1> QED BY <1>1 DEF Home

\* Parts that stay home stay home in order.
LEMMA HomeInOrder ==
    ASSUME NEW away, NEW rs, Finite(rs), \A i \in DOMAIN rs : Home(rs[i], away)
    PROVE  Home(InOrder(rs), away)
  BY InOrderFrom DEF Home

\* A non-empty set of page numbers has a least one.
LEMMA LeastOf ==
    ASSUME NEW n \in Nat, NEW S, S \subseteq 1..n, S # {}
    PROVE  \E m \in S : \A k \in S : m <= k
<1> DEFINE T == {k \in 0..n : n - k \in S}
<1>1. FiniteInts(T)
  <2>1. IsFiniteSet(0..n)
    BY FS_Interval
  <2>2. T \subseteq 0..n /\ T \subseteq Int
    OBVIOUS
  <2> HIDE DEF T
  <2> QED BY <2>1, <2>2, FS_Subset DEF FiniteInts
<1>2. T # {}
  <2>1. PICK p \in S : TRUE
    OBVIOUS
  <2>2. p \in 1..n /\ n - (n - p) = p
    OBVIOUS
  <2>3. n - p \in T
    BY <2>1, <2>2
  <2> QED BY <2>3
<1>3. Max(T) \in T /\ \A k \in T : k <= Max(T)
  BY <1>1, <1>2, MaxOfFinite
<1>4. ASSUME NEW k \in S PROVE n - Max(T) <= k
  <2>1. k \in 1..n /\ n - (n - k) = k
    OBVIOUS
  <2>2. n - k \in T
    BY <2>1
  <2>3. n - k <= Max(T) /\ Max(T) \in 0..n
    BY <1>3, <2>2
  <2> QED BY <2>1, <2>3
<1> QED BY <1>3, <1>4

\* Where a listing stops: at the first page that ends it.
LastPage(steps) == CHOOSE p \in DOMAIN steps :
                  Stops(steps, p) /\ \A q \in 1..(p - 1) : ~Stops(steps, q)
\* A listing that ends has a first page at which the connector stops.
LEMMA LastStops ==
    ASSUME NEW steps, NEW n \in Nat, DOMAIN steps = 1..n, \E p \in 1..n : Stops(steps, p)
    PROVE  /\ LastPage(steps) \in 1..n
           /\ Stops(steps, LastPage(steps))
           /\ \A q \in 1..(LastPage(steps) - 1) : ~Stops(steps, q)
<1> DEFINE S == {p \in 1..n : Stops(steps, p)}
<1>1. S # {} /\ S \subseteq 1..n
  OBVIOUS
<1>2. PICK p \in S : \A m \in S : p <= m
  BY <1>1, LeastOf
<1>3. p \in DOMAIN steps /\ Stops(steps, p) /\ \A q \in 1..(p - 1) : ~Stops(steps, q)
  BY <1>2
<1> QED BY <1>3 DEF LastPage

\* A connector that follows good links only stays home page by page.
LEMMA FollowHome ==
    ASSUME NEW away, NEW first, AtHome(first), NEW steps, NEW n \in Nat, DOMAIN steps = 1..n,
           \E p \in 1..n : Stops(steps, p),
           \A p \in 1..n : Home(steps[p].result, away),
           \A p \in 1..n : AtHome(steps[p].next) \/ steps[p].next \in {NoUrl, OffLimits}
    PROVE  Home(Follow(first, steps), away)
<1> DEFINE last == LastPage(steps)
           Asked(p) == [Empty EXCEPT !.dials = {IF p = 1 THEN first ELSE steps[p - 1].next}]
           rs == [p \in 1..last |-> Then(Asked(p), steps[p].result)]
<1>1. Follow(first, steps) = Then(InOrder(rs), Guarded(steps[last].next = NoUrl, Empty))
  BY DEF Follow, LastPage
<1>2. last \in 1..n /\ \A q \in 1..(last - 1) : ~Stops(steps, q)
  BY LastStops
<1> HIDE DEF last
<1>3. ASSUME NEW p \in 1..last PROVE Home(rs[p], away)
  <2>1. Home(Asked(p), away)
    <3>1. ASSUME p # 1 PROVE AtHome(steps[p - 1].next)
      <4>1. p - 1 \in 1..n /\ ~Stops(steps, p - 1)
        BY <1>2, <3>1
      <4> QED BY <4>1 DEF Stops
    <3>2. Asked(p).dials = {IF p = 1 THEN first ELSE steps[p - 1].next}
      BY DEF Empty
    <3> QED BY <3>1, <3>2 DEF Home
  <2>2. Home(steps[p].result, away)
    BY <1>2
  <2> HIDE DEF Asked
  <2> QED BY <2>1, <2>2, HomeThen
<1>4. Finite(rs)
  BY <1>2, FiniteSeq
<1> HIDE DEF rs
<1>5. DOMAIN rs = 1..last
  BY DEF rs
<1>6. Home(InOrder(rs), away)
  BY <1>3, <1>4, <1>5, HomeInOrder
<1>7. Home(Guarded(steps[last].next = NoUrl, Empty), away)
  BY HomeGuarded, HomeSimple
<1> QED BY <1>1, <1>6, <1>7, HomeThen

-----------------------------------------------------------------------------
\* Where the redirects of one request may take its credential.
Kept(redirect, moved, away) == redirect = "keep" => moved \in away

\* What a redirect takes along.
LEMMA SentOnHome ==
    ASSUME NEW away, NEW redirect, NEW moved, Kept(redirect, moved, away),
           NEW u \in SentOn(redirect, moved)
    PROVE  AtHome(u) \/ u \in away
  BY DEF SentOn, Kept

\* A request to the own host, wherever its answer redirects.
LEMMA SendsHome ==
    ASSUME NEW away, NEW redirect, NEW url, AtHome(url), NEW answer, Kept(redirect, answer.moved, away)
    PROVE  Home(Sends(redirect, url, answer), away) /\ Home(Exchange(redirect, url, answer), away)
<1>1. Sends(redirect, url, answer).dials = {url} \cup SentOn(redirect, answer.moved)
  BY DEF Sends, Empty
<1>2. Home(Sends(redirect, url, answer), away)
  BY <1>1, SentOnHome DEF Home
<1>3. Home(Guarded(Granted(answer), Empty), away)
  BY HomeGuarded, HomeSimple
<1> QED BY <1>2, <1>3, HomeThen DEF Exchange

\* A page is taken only if it is a good one, and leads on as said.
LEMMA PageParts ==
    ASSUME NEW at, NEW a, NEW good, NEW next, NEW visits
    PROVE  /\ Page(at, a, good, next, visits).good => good
           /\ Page(at, a, good, next, visits).next = next
<1> DEFINE fine == Followed(at.redirect, a.moved) /\ good
<1>1. \E r : Page(at, a, good, next, visits) = [good |-> fine, next |-> next, result |-> r]
  BY DEF Page
<1>2. fine => good
  OBVIOUS
<1> HIDE DEF fine
<1> QED BY <1>1, <1>2

\* A page whose visits stay home if it is a good one.
LEMMA PageHome ==
    ASSUME NEW away, NEW at, NEW a, Kept(at.redirect, a.moved, away), NEW good, NEW next,
           NEW visits, good => Home(InOrder(visits), away)
    PROVE  Home(Page(at, a, good, next, visits).result, away)
<1> DEFINE fine == Followed(at.redirect, a.moved) /\ good
           resent == [Empty EXCEPT !.dials = SentOn(at.redirect, a.moved)]
<1>1. Page(at, a, good, next, visits).result = Then(resent, Guarded(fine, InOrder(visits)))
  BY DEF Page
<1>2. Home(resent, away)
  <2>1. resent.dials = SentOn(at.redirect, a.moved)
    BY DEF Empty
  <2> QED BY <2>1, SentOnHome DEF Home
<1>3. Home(Guarded(fine, InOrder(visits)), away)
  BY HomeGuarded
<1> HIDE DEF fine, resent
<1> QED BY <1>1, <1>2, <1>3, HomeThen

-----------------------------------------------------------------------------
(***************************************************************************)
(* Connectors: where a credential goes                                     *)
(***************************************************************************)
\* What providers answer: a listing of pages that ends, at the cap, in an error or
\* in a page with nothing after it; a relative link is one to the same host.
IsSeq(s) == s \in Seq(ToSet(s))
Ends(pages, numbered) ==
    LET last == pages[Len(pages)] IN
    \/ MaxPages <= Len(pages) \/ last.status # "ok"
    \/ IF numbered THEN Len(last.items) < PerPage ELSE last.next = NoUrl
Paged(pages, numbered) ==
    /\ IsSeq(pages) /\ pages # <<>> /\ Ends(pages, numbered)
    /\ \A p \in DOMAIN pages :
         /\ IsSeq(pages[p].items)
         /\ pages[p].next.form = "relative" => AtHome(pages[p].next)
\* Listings whose items have listings of their own.
Paged2(pages) == Paged(pages, FALSE) /\ \A i \in Held(pages) : Taken(i) => Paged(i.inner, FALSE)
Paged3(pages) == Paged(pages, FALSE) /\ \A i \in Held(pages) : Taken(i) => Paged2(i.inner)
ReadOf(page) == IF page.body = "list" THEN page.items ELSE <<>>

\* A listing is asked for at the own host, and where a redirect would take the
\* credential along is known.
Sited(at, pages, away) ==
    AtHome(at.url) /\ \A p \in DOMAIN pages : Kept(at.redirect, pages[p].moved, away)

\* The ways in which a listing is asked for.
LEMMA SitedWays ==
    ASSUME NEW pages, NEW away
    PROVE  /\ Sited(Stripping, pages, away) /\ Sited(Refusing, pages, away)
           /\ \A cred : (cred.session => Away(pages) \subseteq away) => Sited(Signed(cred), pages, away)
           /\ \A server : server.host = "own" => Sited(Registry(server), pages, away)
<1>1. Sited(Stripping, pages, away) /\ Sited(Refusing, pages, away)
  BY DEF Sited, Stripping, Refusing, Kept, AtHome, ApiUrl
<1>2. ASSUME NEW cred, cred.session => Away(pages) \subseteq away
      PROVE  Sited(Signed(cred), pages, away)
  BY <1>2 DEF Sited, Signed, Kept, AtHome, ApiUrl, Away
<1>3. ASSUME NEW server, server.host = "own" PROVE Sited(Registry(server), pages, away)
  BY <1>3 DEF Sited, Registry, Kept, AtHome, ApiUrl
<1> QED BY <1>1, <1>2, <1>3

\* The results of visiting what a page shows.
LEMMA HomeVisits ==
    ASSUME NEW away, NEW pages, NEW numbered, Paged(pages, numbered), NEW p \in DOMAIN pages, NEW rs,
           DOMAIN rs = DOMAIN ReadOf(pages[p]), \A i \in DOMAIN rs : Home(rs[i], away)
    PROVE  Home(InOrder(rs), away)
<1>1. \E n \in Nat : DOMAIN rs = 1..n
  <2>1. CASE pages[p].body = "list"
    BY <2>1 DEF Paged, IsSeq, ReadOf
  <2>2. CASE pages[p].body # "list"
    <3>1. DOMAIN rs = 1..0
      BY <2>2 DEF ReadOf
    <3> QED BY <3>1
  <2> QED BY <2>1, <2>2
<1>2. Finite(rs)
  BY <1>1, FiniteSeq
<1> QED BY <1>2, HomeInOrder

\* Steps through a listing of which every visit stays home and every link leads there.
Visited(at, pages, numbered, good, onward, visits, steps, away) ==
    /\ DOMAIN steps = DOMAIN pages
    /\ \A p \in DOMAIN pages :
         /\ DOMAIN visits[p] = DOMAIN ReadOf(pages[p])
         /\ good[p] => \A i \in DOMAIN visits[p] : Home(visits[p][i], away)
         /\ steps[p] = Page(at, pages[p], good[p], onward[p], visits[p])
         /\ good[p] => pages[p].status = "ok"
         /\ (IF numbered THEN Len(pages[p].items) < PerPage ELSE pages[p].next = NoUrl) =>
              onward[p] = NoUrl
         /\ AtHome(onward[p]) \/ onward[p] \in {NoUrl, OffLimits}
\* A listing of which every link and every visit stays home stays home.
LEMMA PagedHome ==
    ASSUME NEW away, NEW at, NEW pages, NEW numbered, Paged(pages, numbered), Sited(at, pages, away),
           NEW good, NEW onward, NEW visits, NEW steps,
           Visited(at, pages, numbered, good, onward, visits, steps, away)
    PROVE  Home(Follow(at.url, steps), away)
<1>1. Len(pages) \in Nat /\ DOMAIN pages = 1..Len(pages) /\ Len(pages) # 0 /\ DOMAIN steps = DOMAIN pages
  BY DEF Paged, IsSeq, Visited
<1>2. ASSUME NEW p \in DOMAIN pages
      PROVE  /\ steps[p].good => good[p]
             /\ steps[p].next = onward[p]
             /\ steps[p].result = Page(at, pages[p], good[p], onward[p], visits[p]).result
  <2>1. steps[p] = Page(at, pages[p], good[p], onward[p], visits[p])
    BY DEF Visited
  <2> QED BY <2>1, PageParts
<1>3. \E p \in 1..Len(pages) : Stops(steps, p)
  <2>1. CASE MaxPages <= Len(pages)
    <3>1. MaxPages \in 1..Len(pages)
      BY <1>1, <2>1, ConnectorsAssumption
    <3> QED BY <3>1 DEF Stops
  <2>2. CASE ~(MaxPages <= Len(pages))
    <3>1. Len(pages) \in DOMAIN pages
      BY <1>1
    <3>2. ~good[Len(pages)] \/ onward[Len(pages)] = NoUrl
      BY <2>2, <3>1 DEF Paged, Ends, Visited
    <3> QED BY <1>1, <1>2, <3>1, <3>2 DEF Stops
  <2> QED BY <2>1, <2>2
<1>4. ASSUME NEW p \in DOMAIN pages PROVE Home(steps[p].result, away)
  <2>1. good[p] => Home(InOrder(visits[p]), away)
    BY HomeVisits DEF Visited
  <2>2. Kept(at.redirect, pages[p].moved, away)
    BY DEF Sited
  <2> QED BY <1>2, <2>1, <2>2, PageHome
<1>5. \A p \in DOMAIN pages : AtHome(steps[p].next) \/ steps[p].next \in {NoUrl, OffLimits}
  BY <1>2 DEF Visited
<1> QED BY <1>1, <1>3, <1>4, <1>5, FollowHome DEF Sited

\* What is read of a page is held by its provider.
LEMMA ReadHeld ==
    ASSUME NEW pages, NEW p \in DOMAIN pages, NEW i \in DOMAIN ReadOf(pages[p])
    PROVE  ReadOf(pages[p])[i] \in Held(pages)
<1>1. ReadOf(pages[p]) = pages[p].items
  BY DEF ReadOf
<1> QED BY <1>1 DEF Held

\* The results of an item that is not asked about.
LEMMA HomeLeaf == \A away : /\ Home(Empty, away) /\ Home(Refused, away)
                           /\ \A k, e : Home(Yield(k, e), away)
  BY DEF Home, Empty, Refused, Yield

\* Where the next page of a listing is asked for.
LEMMA HomeLinks ==
    ASSUME NEW a, a.next.form = "relative" => AtHome(a.next)
    PROVE  /\ AtHome(ByToken(a)) \/ ByToken(a) = NoUrl
           /\ AtHome(ByNumber(a)) \/ ByNumber(a) = NoUrl
           /\ \A allowed \in BOOLEAN : (allowed => To({"own"}, a.next) \/ a.next.form = "relative") =>
                AtHome(ByLink(a, allowed)) \/ ByLink(a, allowed) \in {NoUrl, OffLimits}
<1>1. AtHome(ApiUrl)
  BY DEF AtHome, ApiUrl
<1>2. To({"own"}, a.next) => AtHome(a.next)
  BY DEF To, AtHome
<1> QED BY <1>1, <1>2 DEF ByToken, ByNumber, ByLink

\* Nothing is sent after a configuration that names a host.
Stays(ctx, r, away) == Home(r, away) /\ (ctx.config.endpoint => r.dials = {})

\* A connector whose configuration names no host.
LEMMA StaysGuarded ==
    ASSUME NEW away, NEW ctx, NEW ok, NEW r, ok => Home(r, away) /\ ~ctx.config.endpoint
    PROVE  Stays(ctx, Guarded(ok, r), away)
  BY HomeLeaf DEF Guarded, Stays, Refused, Empty

\* And one that logs in first.
LEMMA StaysLogged ==
    ASSUME NEW away, NEW ctx, NEW ok, ok => ~ctx.config.endpoint, NEW login, Home(login, away),
           NEW r, Home(r, away)
    PROVE  Stays(ctx, Guarded(ok, Then(login, r)), away)
<1>1. Home(Then(login, r), away)
  BY HomeThen
<1> QED BY <1>1, StaysGuarded

\* The log-ins: the secret goes to the token endpoint, and on if that redirects.
LEMMA LoginsHome ==
    ASSUME NEW away, NEW ctx
    PROVE  /\ ctx.grant.moved \in away => Home(AzureLogin(ctx), away) /\ Home(GcpLogin(ctx), away)
           /\ Home(DockerhubLogin(ctx), away)
           /\ (ctx.cred.session => ctx.grant.moved \in away) => Home(AwsAccount(ctx), away)
<1>1. AtHome(ApiUrl)
  BY DEF AtHome, ApiUrl
<1>2. ctx.grant.moved \in away => Home(Exchange("keep", ApiUrl, ctx.grant), away)
  BY <1>1, SendsHome DEF Kept
<1>3. Home(Exchange("error", ApiUrl, ctx.grant), away)
  BY <1>1, SendsHome DEF Kept
<1>4. (ctx.cred.session => ctx.grant.moved \in away) =>
        Home(Exchange(Signed(ctx.cred).redirect, ApiUrl, ctx.grant), away)
  BY <1>1, SendsHome DEF Kept, Signed
<1>5. ctx.grant.moved \in away => Home(AzureLogin(ctx), away) /\ Home(GcpLogin(ctx), away)
  BY <1>2, HomeGuarded DEF AzureLogin, GcpLogin
<1>6. Home(DockerhubLogin(ctx), away)
  BY <1>3, HomeGuarded DEF DockerhubLogin
<1>7. Home(Guarded(ctx.account, Empty), away)
  BY HomeGuarded, HomeLeaf
<1>8. (ctx.cred.session => ctx.grant.moved \in away) => Home(AwsAccount(ctx), away)
  BY <1>4, <1>7, HomeThen, HomeGuarded DEF AwsAccount
<1> QED BY <1>5, <1>6, <1>8

\* AzureConnector.pagedGet: nextLink is kept to management.azure.com.
LEMMA AzureListingHome ==
    ASSUME NEW away, NEW scope, Paged(scope.pages, FALSE)
    PROVE  Home(AzureListing(scope), away)
<1> DEFINE pages == scope.pages
           good == [p \in DOMAIN pages |-> AzureGood(pages[p])]
           onward == [p \in DOMAIN pages |-> ByLink(pages[p], AzureArmUrl(pages[p].next))]
           visit(p) == [i \in DOMAIN ReadOf(pages[p]) |-> AzureAsset(scope.kind, ReadOf(pages[p])[i])]
           visits == [p \in DOMAIN pages |-> visit(p)]
           steps == [p \in DOMAIN pages |-> Page(Stripping, pages[p], AzureGood(pages[p]), ByLink(pages[p], AzureArmUrl(pages[p].next)), visit(p))]
<1>1. AzureListing(scope) = Follow(Stripping.url, steps)
  BY DEF AzureListing, Listing, ReadOf
<1>2. ASSUME NEW p \in DOMAIN pages, NEW i \in DOMAIN ReadOf(pages[p]), AzureGood(pages[p])
      PROVE  Home(AzureAsset(scope.kind, ReadOf(pages[p])[i]), away)
    BY HomeLeaf DEF AzureAsset
<1>3. ASSUME NEW p \in DOMAIN pages
      PROVE  /\ AzureGood(pages[p]) => pages[p].status = "ok"
             /\ pages[p].next = NoUrl => ByLink(pages[p], AzureArmUrl(pages[p].next)) = NoUrl
             /\ AtHome(ByLink(pages[p], AzureArmUrl(pages[p].next))) \/ ByLink(pages[p], AzureArmUrl(pages[p].next)) \in {NoUrl, OffLimits}
  <2>1. AzureArmUrl(pages[p].next) => To({"own"}, pages[p].next) \/ pages[p].next.form = "relative"
    BY DEF AzureArmUrl
  <2> QED BY <2>1, HomeLinks DEF AzureGood, ByLink, Paged
<1>4. Visited(Stripping, pages, FALSE, good, onward, visits, steps, away)
  BY <1>2, <1>3 DEF Visited
<1>5. Sited(Stripping, pages, away)
  BY SitedWays
<1> HIDE DEF good, onward, visits, steps
<1>6. Home(Follow(Stripping.url, steps), away)
  BY <1>4, <1>5, PagedHome
<1> QED BY <1>1, <1>6

\* GcpConnector.pagedGet: a page token is a parameter of the own URL.
LEMMA GcpListingHome ==
    ASSUME NEW away, NEW scope, Paged(scope.pages, FALSE)
    PROVE  Home(GcpListing(scope), away)
<1> DEFINE pages == scope.pages
           good == [p \in DOMAIN pages |-> GcpGood(pages[p])]
           onward == [p \in DOMAIN pages |-> ByToken(pages[p])]
           visit(p) == [i \in DOMAIN ReadOf(pages[p]) |-> GcpAsset(scope.kind, ReadOf(pages[p])[i])]
           visits == [p \in DOMAIN pages |-> visit(p)]
           steps == [p \in DOMAIN pages |-> Page(Stripping, pages[p], GcpGood(pages[p]), ByToken(pages[p]), visit(p))]
<1>1. GcpListing(scope) = Follow(Stripping.url, steps)
  BY DEF GcpListing, Listing, ReadOf
<1>2. ASSUME NEW p \in DOMAIN pages, NEW i \in DOMAIN ReadOf(pages[p]), GcpGood(pages[p])
      PROVE  Home(GcpAsset(scope.kind, ReadOf(pages[p])[i]), away)
    BY HomeLeaf DEF GcpAsset
<1>3. ASSUME NEW p \in DOMAIN pages
      PROVE  /\ GcpGood(pages[p]) => pages[p].status = "ok"
             /\ pages[p].next = NoUrl => ByToken(pages[p]) = NoUrl
             /\ AtHome(ByToken(pages[p])) \/ ByToken(pages[p]) \in {NoUrl, OffLimits}
  BY HomeLinks DEF GcpGood, ByToken, Paged
<1>4. Visited(Stripping, pages, FALSE, good, onward, visits, steps, away)
  BY <1>2, <1>3 DEF Visited
<1>5. Sited(Stripping, pages, away)
  BY SitedWays
<1> HIDE DEF good, onward, visits, steps
<1>6. Home(Follow(Stripping.url, steps), away)
  BY <1>4, <1>5, PagedHome
<1> QED BY <1>1, <1>6

\* AwsConnector.pagedQuery: a token is a parameter of the signed URL.
LEMMA AwsListingHome ==
    ASSUME NEW away, NEW ctx, NEW scope, Paged(scope.pages, FALSE),
           ctx.cred.session => Away(scope.pages) \subseteq away
    PROVE  Home(AwsListing(ctx, scope), away)
<1>0. SUFFICES ASSUME ~(scope.kind = "bucket" /\ scope.pages[1].next # NoUrl /\ scope.pages[1].status = "ok")
              PROVE  Home(AwsListing(ctx, scope), away)
  <2>1. ASSUME scope.kind = "bucket" /\ scope.pages[1].next # NoUrl /\ scope.pages[1].status = "ok"
        PROVE  Home(AwsListing(ctx, scope), away)
    <3>1. AwsListing(ctx, scope) = Then(Sends(Signed(ctx.cred).redirect, ApiUrl, scope.pages[1]), Refused)
      BY <2>1 DEF AwsListing
    <3>2. 1 \in DOMAIN scope.pages
      BY DEF Paged, IsSeq
    <3>3. Kept(Signed(ctx.cred).redirect, scope.pages[1].moved, away) /\ AtHome(ApiUrl)
      BY <3>2, SitedWays DEF Sited, AtHome, ApiUrl
    <3> QED BY <3>1, <3>3, SendsHome, HomeLeaf, HomeThen
  <2> QED BY <2>1
<1> DEFINE pages == scope.pages
           good == [p \in DOMAIN pages |-> AwsGood(pages[p])]
           onward == [p \in DOMAIN pages |-> (IF scope.kind = "address" THEN NoUrl ELSE ByToken(pages[p]))]
           visit(p) == [i \in DOMAIN ReadOf(pages[p]) |-> AwsAsset(scope.kind, ReadOf(pages[p])[i])]
           visits == [p \in DOMAIN pages |-> visit(p)]
           steps == [p \in DOMAIN pages |-> Page(Signed(ctx.cred), pages[p], AwsGood(pages[p]), (IF scope.kind = "address" THEN NoUrl ELSE ByToken(pages[p])), visit(p))]
<1>1. AwsListing(ctx, scope) = Follow(Signed(ctx.cred).url, steps)
  BY <1>0 DEF AwsListing, Listing, ReadOf
<1>2. ASSUME NEW p \in DOMAIN pages, NEW i \in DOMAIN ReadOf(pages[p]), AwsGood(pages[p])
      PROVE  Home(AwsAsset(scope.kind, ReadOf(pages[p])[i]), away)
    BY HomeLeaf DEF AwsAsset
<1>3. ASSUME NEW p \in DOMAIN pages
      PROVE  /\ AwsGood(pages[p]) => pages[p].status = "ok"
             /\ pages[p].next = NoUrl => (IF scope.kind = "address" THEN NoUrl ELSE ByToken(pages[p])) = NoUrl
             /\ AtHome((IF scope.kind = "address" THEN NoUrl ELSE ByToken(pages[p]))) \/ (IF scope.kind = "address" THEN NoUrl ELSE ByToken(pages[p])) \in {NoUrl, OffLimits}
  BY <1>0, HomeLinks DEF AwsGood, ByToken, Paged
<1>4. Visited(Signed(ctx.cred), pages, FALSE, good, onward, visits, steps, away)
  BY <1>2, <1>3 DEF Visited
<1>5. Sited(Signed(ctx.cred), pages, away)
  BY SitedWays
<1> HIDE DEF good, onward, visits, steps
<1>6. Home(Follow(Signed(ctx.cred).url, steps), away)
  BY <1>0, <1>4, <1>5, PagedHome
<1> QED BY <1>1, <1>6

\* GitHubConnector.listRepos: pages are numbered.
LEMMA GitHubListingHome ==
    ASSUME NEW away, NEW listing, Paged(listing, TRUE)
    PROVE  Home(GitHubListing(listing), away)
<1> DEFINE pages == listing
           good == [p \in DOMAIN pages |-> Exact(pages[p])]
           onward == [p \in DOMAIN pages |-> ByNumber(pages[p])]
           visit(p) == [i \in DOMAIN ReadOf(pages[p]) |-> GitHubRepo(ReadOf(pages[p])[i])]
           visits == [p \in DOMAIN pages |-> visit(p)]
           steps == [p \in DOMAIN pages |-> Page(Refusing, pages[p], Exact(pages[p]), ByNumber(pages[p]), visit(p))]
<1>1. GitHubListing(listing) = Follow(Refusing.url, steps)
  BY DEF GitHubListing, Listing, ReadOf
<1>2. ASSUME NEW p \in DOMAIN pages, NEW i \in DOMAIN ReadOf(pages[p]), Exact(pages[p])
      PROVE  Home(GitHubRepo(ReadOf(pages[p])[i]), away)
    BY HomeLeaf DEF GitHubRepo, GitHubAsset
<1>3. ASSUME NEW p \in DOMAIN pages
      PROVE  /\ Exact(pages[p]) => pages[p].status = "ok"
             /\ Len(pages[p].items) < PerPage => ByNumber(pages[p]) = NoUrl
             /\ AtHome(ByNumber(pages[p])) \/ ByNumber(pages[p]) \in {NoUrl, OffLimits}
  BY HomeLinks DEF Exact, ByNumber, Paged
<1>4. Visited(Refusing, pages, TRUE, good, onward, visits, steps, away)
  BY <1>2, <1>3 DEF Visited
<1>5. Sited(Refusing, pages, away)
  BY SitedWays
<1> HIDE DEF good, onward, visits, steps
<1>6. Home(Follow(Refusing.url, steps), away)
  BY <1>4, <1>5, PagedHome
<1> QED BY <1>1, <1>6

\* GitLabConnector.listProjects: pages are numbered, the origin is allow-listed.
LEMMA GitLabListingHome ==
    ASSUME NEW away, NEW listing, Paged(listing, TRUE)
    PROVE  Home(GitLabListing(listing), away)
<1> DEFINE pages == listing
           good == [p \in DOMAIN pages |-> Exact(pages[p])]
           onward == [p \in DOMAIN pages |-> ByNumber(pages[p])]
           visit(p) == [i \in DOMAIN ReadOf(pages[p]) |-> GitLabProject(ReadOf(pages[p])[i])]
           visits == [p \in DOMAIN pages |-> visit(p)]
           steps == [p \in DOMAIN pages |-> Page(Stripping, pages[p], Exact(pages[p]), ByNumber(pages[p]), visit(p))]
<1>1. GitLabListing(listing) = Follow(Stripping.url, steps)
  BY DEF GitLabListing, Listing, ReadOf
<1>2. ASSUME NEW p \in DOMAIN pages, NEW i \in DOMAIN ReadOf(pages[p]), Exact(pages[p])
      PROVE  Home(GitLabProject(ReadOf(pages[p])[i]), away)
    BY HomeLeaf DEF GitLabProject, GitLabAsset, Guarded
<1>3. ASSUME NEW p \in DOMAIN pages
      PROVE  /\ Exact(pages[p]) => pages[p].status = "ok"
             /\ Len(pages[p].items) < PerPage => ByNumber(pages[p]) = NoUrl
             /\ AtHome(ByNumber(pages[p])) \/ ByNumber(pages[p]) \in {NoUrl, OffLimits}
  BY HomeLinks DEF Exact, ByNumber, Paged
<1>4. Visited(Stripping, pages, TRUE, good, onward, visits, steps, away)
  BY <1>2, <1>3 DEF Visited
<1>5. Sited(Stripping, pages, away)
  BY SitedWays
<1> HIDE DEF good, onward, visits, steps
<1>6. Home(Follow(Stripping.url, steps), away)
  BY <1>4, <1>5, PagedHome
<1> QED BY <1>1, <1>6

\* BitbucketConnector: next is kept to api.bitbucket.org.
LEMMA BitbucketStays ==
    ASSUME NEW away, NEW ctx, NEW listing, Paged(listing, FALSE)
    PROVE  Stays(ctx, Bitbucket(ctx, listing), away)
<1> DEFINE pages == listing
           good == [p \in DOMAIN pages |-> BitbucketPage(pages[p])]
           onward == [p \in DOMAIN pages |-> ByLink(pages[p], BitbucketUrl(pages[p].next))]
           visit(p) == [i \in DOMAIN ReadOf(pages[p]) |-> (IF ~ReadOf(pages[p])[i].owned THEN Empty ELSE IF ReadOf(pages[p])[i].form = "noKey" THEN Refused ELSE IF ReadOf(pages[p])[i].chosen THEN BitbucketAsset(ReadOf(pages[p])[i]) ELSE Empty)]
           visits == [p \in DOMAIN pages |-> visit(p)]
           steps == [p \in DOMAIN pages |-> Page(Refusing, pages[p], BitbucketPage(pages[p]), ByLink(pages[p], BitbucketUrl(pages[p].next)), visit(p))]
<1>1. Bitbucket(ctx, listing) = Guarded(BitbucketConfig(ctx.config) /\ requireBitbucketToken(ctx.cred), Follow(Refusing.url, steps))
  BY DEF Bitbucket, Listing, ReadOf
<1>2. ASSUME NEW p \in DOMAIN pages, NEW i \in DOMAIN ReadOf(pages[p]), BitbucketPage(pages[p])
      PROVE  Home((IF ~ReadOf(pages[p])[i].owned THEN Empty ELSE IF ReadOf(pages[p])[i].form = "noKey" THEN Refused ELSE IF ReadOf(pages[p])[i].chosen THEN BitbucketAsset(ReadOf(pages[p])[i]) ELSE Empty), away)
    BY HomeLeaf DEF BitbucketAsset, Guarded
<1>3. ASSUME NEW p \in DOMAIN pages
      PROVE  /\ BitbucketPage(pages[p]) => pages[p].status = "ok"
             /\ pages[p].next = NoUrl => ByLink(pages[p], BitbucketUrl(pages[p].next)) = NoUrl
             /\ AtHome(ByLink(pages[p], BitbucketUrl(pages[p].next))) \/ ByLink(pages[p], BitbucketUrl(pages[p].next)) \in {NoUrl, OffLimits}
  <2>1. BitbucketUrl(pages[p].next) => To({"own"}, pages[p].next) \/ pages[p].next.form = "relative"
    BY DEF BitbucketUrl
  <2> QED BY <2>1, HomeLinks DEF BitbucketPage, ByLink, Exact, Paged
<1>4. Visited(Refusing, pages, FALSE, good, onward, visits, steps, away)
  BY <1>2, <1>3 DEF Visited
<1>5. Sited(Refusing, pages, away)
  BY SitedWays
<1> HIDE DEF good, onward, visits, steps
<1>6. Home(Follow(Refusing.url, steps), away)
  BY <1>4, <1>5, PagedHome
<1> QED BY <1>1, <1>6, StaysGuarded DEF BitbucketConfig

\* KubernetesConnector.pagedGke.
LEMMA GkeStays ==
    ASSUME NEW away, NEW ctx, NEW listing, Paged(listing, FALSE), ctx.grant.moved \in away
    PROVE  Stays(ctx, Gke(ctx, listing), away)
<1> DEFINE pages == listing
           good == [p \in DOMAIN pages |-> Strict(pages[p])]
           onward == [p \in DOMAIN pages |-> ByToken(pages[p])]
           visit(p) == [i \in DOMAIN ReadOf(pages[p]) |-> GkeCluster(ReadOf(pages[p])[i])]
           visits == [p \in DOMAIN pages |-> visit(p)]
           steps == [p \in DOMAIN pages |-> Page(Stripping, pages[p], Strict(pages[p]), ByToken(pages[p]), visit(p))]
<1>1. Gke(ctx, listing) = Guarded(KubernetesConfig(ctx.config), Then(GcpLogin(ctx), Follow(Stripping.url, steps)))
  BY DEF Gke, Listing, ReadOf
<1>2. ASSUME NEW p \in DOMAIN pages, NEW i \in DOMAIN ReadOf(pages[p]), Strict(pages[p])
      PROVE  Home(GkeCluster(ReadOf(pages[p])[i]), away)
    BY HomeLeaf DEF GkeCluster
<1>3. ASSUME NEW p \in DOMAIN pages
      PROVE  /\ Strict(pages[p]) => pages[p].status = "ok"
             /\ pages[p].next = NoUrl => ByToken(pages[p]) = NoUrl
             /\ AtHome(ByToken(pages[p])) \/ ByToken(pages[p]) \in {NoUrl, OffLimits}
  BY HomeLinks DEF Strict, ByToken, Paged
<1>4. Visited(Stripping, pages, FALSE, good, onward, visits, steps, away)
  BY <1>2, <1>3 DEF Visited
<1>5. Sited(Stripping, pages, away)
  BY SitedWays
<1> HIDE DEF good, onward, visits, steps
<1>6. Home(Follow(Stripping.url, steps), away)
  BY <1>4, <1>5, PagedHome
<1> QED BY <1>1, <1>6, LoginsHome, StaysLogged DEF KubernetesConfig

\* KubernetesConnector.pagedAks: nextLink is kept to management.azure.com.
LEMMA AksStays ==
    ASSUME NEW away, NEW ctx, NEW listing, Paged(listing, FALSE), ctx.grant.moved \in away
    PROVE  Stays(ctx, Aks(ctx, listing), away)
<1> DEFINE pages == listing
           good == [p \in DOMAIN pages |-> Strict(pages[p])]
           onward == [p \in DOMAIN pages |-> ByLink(pages[p], AzureArmUrl(pages[p].next))]
           visit(p) == [i \in DOMAIN ReadOf(pages[p]) |-> AksCluster(ReadOf(pages[p])[i])]
           visits == [p \in DOMAIN pages |-> visit(p)]
           steps == [p \in DOMAIN pages |-> Page(Stripping, pages[p], Strict(pages[p]), ByLink(pages[p], AzureArmUrl(pages[p].next)), visit(p))]
<1>1. Aks(ctx, listing) = Guarded(KubernetesConfig(ctx.config), Then(AzureLogin(ctx), Follow(Stripping.url, steps)))
  BY DEF Aks, Listing, ReadOf
<1>2. ASSUME NEW p \in DOMAIN pages, NEW i \in DOMAIN ReadOf(pages[p]), Strict(pages[p])
      PROVE  Home(AksCluster(ReadOf(pages[p])[i]), away)
    BY HomeLeaf DEF AksCluster
<1>3. ASSUME NEW p \in DOMAIN pages
      PROVE  /\ Strict(pages[p]) => pages[p].status = "ok"
             /\ pages[p].next = NoUrl => ByLink(pages[p], AzureArmUrl(pages[p].next)) = NoUrl
             /\ AtHome(ByLink(pages[p], AzureArmUrl(pages[p].next))) \/ ByLink(pages[p], AzureArmUrl(pages[p].next)) \in {NoUrl, OffLimits}
  <2>1. AzureArmUrl(pages[p].next) => To({"own"}, pages[p].next) \/ pages[p].next.form = "relative"
    BY DEF AzureArmUrl
  <2> QED BY <2>1, HomeLinks DEF ByLink, Paged, Strict
<1>4. Visited(Stripping, pages, FALSE, good, onward, visits, steps, away)
  BY <1>2, <1>3 DEF Visited
<1>5. Sited(Stripping, pages, away)
  BY SitedWays
<1> HIDE DEF good, onward, visits, steps
<1>6. Home(Follow(Stripping.url, steps), away)
  BY <1>4, <1>5, PagedHome
<1> QED BY <1>1, <1>6, LoginsHome, StaysLogged DEF KubernetesConfig

\* Every cluster is described in an answer.
Told(pages) == \A i \in Held(pages) : i.form # "noKey" => 1 \in DOMAIN i.inner

\* KubernetesConnector.listEksNames and describeEks, of one region.
LEMMA EksClustersHome ==
    ASSUME NEW away, NEW ctx, NEW listing, Paged(listing, FALSE), Told(listing),
           ctx.cred.session => Away(listing) \subseteq away /\ \A i \in Held(listing) : Away(i.inner) \subseteq away
    PROVE  Home(EksClusters(ctx, listing), away)
<1> DEFINE pages == listing
           good == [p \in DOMAIN pages |-> Strict(pages[p])]
           onward == [p \in DOMAIN pages |-> ByToken(pages[p])]
           visit(p) == [i \in DOMAIN ReadOf(pages[p]) |-> EksCluster(ctx, ReadOf(pages[p])[i])]
           visits == [p \in DOMAIN pages |-> visit(p)]
           steps == [p \in DOMAIN pages |-> Page(Signed(ctx.cred), pages[p], Strict(pages[p]), ByToken(pages[p]), visit(p))]
<1>1. EksClusters(ctx, listing) = Follow(Signed(ctx.cred).url, steps)
  BY DEF EksClusters, Listing, ReadOf
<1>2. ASSUME NEW p \in DOMAIN pages, NEW i \in DOMAIN ReadOf(pages[p]), Strict(pages[p])
      PROVE  Home(EksCluster(ctx, ReadOf(pages[p])[i]), away)
  <2> DEFINE item == ReadOf(pages[p])[i]
             shown == IF item.chosen THEN Yield(item.key, Facing(item.inner[1].items[1].visible = "public"))
                      ELSE Empty
             sent == Sends(Signed(ctx.cred).redirect, ApiUrl, item.inner[1])
  <2>1. item \in Held(listing)
    BY ReadHeld
  <2>2. CASE item.form = "noKey"
    BY <2>2, HomeLeaf DEF EksCluster
  <2>3. CASE item.form # "noKey"
    <3>1. \E ok : EksCluster(ctx, item) = Then(sent, Guarded(ok, shown))
      BY <2>3 DEF EksCluster
    <3>2. Kept(Signed(ctx.cred).redirect, item.inner[1].moved, away) /\ AtHome(ApiUrl)
      BY <2>1, <2>3 DEF Kept, Signed, Away, Told, AtHome, ApiUrl
    <3>3. Home(sent, away)
      BY <3>2, SendsHome
    <3>4. \A ok : Home(Guarded(ok, shown), away)
      BY HomeLeaf, HomeGuarded
    <3> HIDE DEF sent, shown, item
    <3>5. Home(EksCluster(ctx, item), away)
      BY <3>1, <3>3, <3>4, HomeThen
    <3> QED BY <3>5 DEF item
  <2> QED BY <2>2, <2>3
<1>3. ASSUME NEW p \in DOMAIN pages
      PROVE  /\ Strict(pages[p]) => pages[p].status = "ok"
             /\ pages[p].next = NoUrl => ByToken(pages[p]) = NoUrl
             /\ AtHome(ByToken(pages[p])) \/ ByToken(pages[p]) \in {NoUrl, OffLimits}
  BY HomeLinks DEF Strict, ByToken, Paged
<1>4. Visited(Signed(ctx.cred), pages, FALSE, good, onward, visits, steps, away)
  BY <1>2, <1>3 DEF Visited
<1>5. Sited(Signed(ctx.cred), pages, away)
  BY SitedWays
<1> HIDE DEF good, onward, visits, steps
<1>6. Home(Follow(Signed(ctx.cred).url, steps), away)
  BY <1>4, <1>5, PagedHome
<1> QED BY <1>1, <1>6

\* DnsConnector: the pages of the certificate log.
LEMMA CrtShNamesHome ==
    ASSUME NEW away, NEW apex, Paged(apex.pages, FALSE)
    PROVE  Home(CrtShNames(apex), away)
<1> DEFINE pages == apex.pages
           good == [p \in DOMAIN pages |-> Exact(pages[p])]
           onward == [p \in DOMAIN pages |-> ByLink(pages[p], CrtShUrl(pages[p].next))]
           visit(p) == [i \in DOMAIN ReadOf(pages[p]) |-> (IF ReadOf(pages[p])[i].owned THEN Yield(ReadOf(pages[p])[i].key, "unknown") ELSE Empty)]
           visits == [p \in DOMAIN pages |-> visit(p)]
           steps == [p \in DOMAIN pages |-> Page(Refusing, pages[p], Exact(pages[p]), ByLink(pages[p], CrtShUrl(pages[p].next)), visit(p))]
<1>1. CrtShNames(apex) = Guarded(ResolveCrtSh(apex.crtsh), Follow(Refusing.url, steps))
  BY DEF CrtShNames, Listing, ReadOf
<1>2. ASSUME NEW p \in DOMAIN pages, NEW i \in DOMAIN ReadOf(pages[p]), Exact(pages[p])
      PROVE  Home((IF ReadOf(pages[p])[i].owned THEN Yield(ReadOf(pages[p])[i].key, "unknown") ELSE Empty), away)
    BY HomeLeaf
<1>3. ASSUME NEW p \in DOMAIN pages
      PROVE  /\ Exact(pages[p]) => pages[p].status = "ok"
             /\ pages[p].next = NoUrl => ByLink(pages[p], CrtShUrl(pages[p].next)) = NoUrl
             /\ AtHome(ByLink(pages[p], CrtShUrl(pages[p].next))) \/ ByLink(pages[p], CrtShUrl(pages[p].next)) \in {NoUrl, OffLimits}
  <2>1. CrtShUrl(pages[p].next) => To({"own"}, pages[p].next) \/ pages[p].next.form = "relative"
    BY DEF CrtShUrl
  <2> QED BY <2>1, HomeLinks DEF ByLink, Exact, Paged
<1>4. Visited(Refusing, pages, FALSE, good, onward, visits, steps, away)
  BY <1>2, <1>3 DEF Visited
<1>5. Sited(Refusing, pages, away)
  BY SitedWays
<1> HIDE DEF good, onward, visits, steps
<1>6. Home(Follow(Refusing.url, steps), away)
  BY <1>4, <1>5, PagedHome
<1> QED BY <1>1, <1>6, HomeGuarded

\* GhcrConnector.listVersions.
LEMMA GhcrImagesHome ==
    ASSUME NEW away, NEW repo, Taken(repo) => Paged(repo.inner, FALSE)
    PROVE  Home(GhcrImages(repo), away)
<1>0. SUFFICES ASSUME Taken(repo) PROVE Home(GhcrImages(repo), away)
  <2>1. ~Taken(repo) => GhcrImages(repo) = Empty
    BY DEF GhcrImages
  <2> QED BY <2>1, HomeLeaf
<1> DEFINE pages == repo.inner
           good == [p \in DOMAIN pages |-> Exact(pages[p])]
           onward == [p \in DOMAIN pages |-> GhcrNext(pages[p])]
           visit(p) == [i \in DOMAIN ReadOf(pages[p]) |-> GhcrImage(repo, ReadOf(pages[p])[i])]
           visits == [p \in DOMAIN pages |-> visit(p)]
           steps == [p \in DOMAIN pages |-> Page(Stripping, pages[p], Exact(pages[p]), GhcrNext(pages[p]), visit(p))]
<1>1. GhcrImages(repo) = Follow(Stripping.url, steps)
  BY <1>0 DEF GhcrImages, Listing, ReadOf
<1>2. ASSUME NEW p \in DOMAIN pages, NEW i \in DOMAIN ReadOf(pages[p]), Exact(pages[p])
      PROVE  Home(GhcrImage(repo, ReadOf(pages[p])[i]), away)
    BY HomeLeaf DEF GhcrImage, ImageOf
<1>3. ASSUME NEW p \in DOMAIN pages
      PROVE  /\ Exact(pages[p]) => pages[p].status = "ok"
             /\ pages[p].next = NoUrl => GhcrNext(pages[p]) = NoUrl
             /\ AtHome(GhcrNext(pages[p])) \/ GhcrNext(pages[p]) \in {NoUrl, OffLimits}
  <2>1. GithubUrl(pages[p].next) => To({"own"}, pages[p].next) \/ pages[p].next.form = "relative"
    BY DEF GithubUrl
  <2> QED BY <1>0, <2>1, HomeLinks DEF ByLink, Exact, GhcrNext, Paged
<1>4. Visited(Stripping, pages, FALSE, good, onward, visits, steps, away)
  BY <1>2, <1>3 DEF Visited
<1>5. Sited(Stripping, pages, away)
  BY SitedWays
<1> HIDE DEF good, onward, visits, steps
<1>6. Home(Follow(Stripping.url, steps), away)
  BY <1>0, <1>4, <1>5, PagedHome
<1> QED BY <1>1, <1>6

\* EcrConnector.listImages.
LEMMA EcrImagesHome ==
    ASSUME NEW away, NEW ctx, NEW repo, Taken(repo) => Paged(repo.inner, FALSE),
           ctx.cred.session => Away(repo.inner) \subseteq away
    PROVE  Home(EcrImages(ctx, repo), away)
<1>0. SUFFICES ASSUME Taken(repo) PROVE Home(EcrImages(ctx, repo), away)
  <2>1. ~Taken(repo) => EcrImages(ctx, repo) = Empty
    BY DEF EcrImages
  <2> QED BY <2>1, HomeLeaf
<1> DEFINE pages == repo.inner
           good == [p \in DOMAIN pages |-> Strict(pages[p])]
           onward == [p \in DOMAIN pages |-> ByToken(pages[p])]
           visit(p) == [i \in DOMAIN ReadOf(pages[p]) |-> EcrImage(ReadOf(pages[p])[i])]
           visits == [p \in DOMAIN pages |-> visit(p)]
           steps == [p \in DOMAIN pages |-> Page(Signed(ctx.cred), pages[p], Strict(pages[p]), ByToken(pages[p]), visit(p))]
<1>1. EcrImages(ctx, repo) = Follow(Signed(ctx.cred).url, steps)
  BY <1>0 DEF EcrImages, Listing, ReadOf
<1>2. ASSUME NEW p \in DOMAIN pages, NEW i \in DOMAIN ReadOf(pages[p]), Strict(pages[p])
      PROVE  Home(EcrImage(ReadOf(pages[p])[i]), away)
    BY HomeLeaf DEF EcrImage, ImageOf
<1>3. ASSUME NEW p \in DOMAIN pages
      PROVE  /\ Strict(pages[p]) => pages[p].status = "ok"
             /\ pages[p].next = NoUrl => ByToken(pages[p]) = NoUrl
             /\ AtHome(ByToken(pages[p])) \/ ByToken(pages[p]) \in {NoUrl, OffLimits}
  BY <1>0, HomeLinks DEF Strict, ByToken, Paged
<1>4. Visited(Signed(ctx.cred), pages, FALSE, good, onward, visits, steps, away)
  BY <1>2, <1>3 DEF Visited
<1>5. Sited(Signed(ctx.cred), pages, away)
  BY SitedWays
<1> HIDE DEF good, onward, visits, steps
<1>6. Home(Follow(Signed(ctx.cred).url, steps), away)
  BY <1>0, <1>4, <1>5, PagedHome
<1> QED BY <1>1, <1>6

\* GcrConnector.listImages.
LEMMA GcrImagesHome ==
    ASSUME NEW away, NEW repo, Taken(repo) => Paged(repo.inner, FALSE)
    PROVE  Home(GcrImages(repo), away)
<1>0. SUFFICES ASSUME Taken(repo) PROVE Home(GcrImages(repo), away)
  <2>1. ~Taken(repo) => GcrImages(repo) = Empty
    BY DEF GcrImages
  <2> QED BY <2>1, HomeLeaf
<1> DEFINE pages == repo.inner
           good == [p \in DOMAIN pages |-> Strict(pages[p])]
           onward == [p \in DOMAIN pages |-> ByToken(pages[p])]
           visit(p) == [i \in DOMAIN ReadOf(pages[p]) |-> GcrImage(ReadOf(pages[p])[i])]
           visits == [p \in DOMAIN pages |-> visit(p)]
           steps == [p \in DOMAIN pages |-> Page(Stripping, pages[p], Strict(pages[p]), ByToken(pages[p]), visit(p))]
<1>1. GcrImages(repo) = Follow(Stripping.url, steps)
  BY <1>0 DEF GcrImages, Listing, ReadOf
<1>2. ASSUME NEW p \in DOMAIN pages, NEW i \in DOMAIN ReadOf(pages[p]), Strict(pages[p])
      PROVE  Home(GcrImage(ReadOf(pages[p])[i]), away)
    BY HomeLeaf DEF GcrImage, ImageOf
<1>3. ASSUME NEW p \in DOMAIN pages
      PROVE  /\ Strict(pages[p]) => pages[p].status = "ok"
             /\ pages[p].next = NoUrl => ByToken(pages[p]) = NoUrl
             /\ AtHome(ByToken(pages[p])) \/ ByToken(pages[p]) \in {NoUrl, OffLimits}
  BY <1>0, HomeLinks DEF Strict, ByToken, Paged
<1>4. Visited(Stripping, pages, FALSE, good, onward, visits, steps, away)
  BY <1>2, <1>3 DEF Visited
<1>5. Sited(Stripping, pages, away)
  BY SitedWays
<1> HIDE DEF good, onward, visits, steps
<1>6. Home(Follow(Stripping.url, steps), away)
  BY <1>0, <1>4, <1>5, PagedHome
<1> QED BY <1>1, <1>6

\* AcrConnector.exchangeRefreshToken and requestAcrToken: the registry's own tokens
\* are had from the registry that the ARM answer was checked to name.
LEMMA AcrTokensHome ==
    ASSUME NEW away, NEW server, server.host = "own", NEW item, NEW n \in Nat,
           \A t \in 1..n : item.tokens[t].moved \in away
    PROVE  Home(AcrTokens(server, item, n), away)
<1> DEFINE rs == [t \in 1..n |-> Exchange("keep", Registry(server).url, item.tokens[t])]
<1>1. AcrTokens(server, item, n) = Guarded(PinLoginServer(server), InOrder(rs))
  BY DEF AcrTokens
<1>2. AtHome(Registry(server).url)
  BY DEF AtHome, Registry, ApiUrl
<1>3. \A t \in DOMAIN rs : Home(rs[t], away)
  BY <1>2, SendsHome DEF Kept
<1>4. Finite(rs)
  BY FiniteSeq
<1> HIDE DEF rs
<1>5. Home(InOrder(rs), away)
  BY <1>3, <1>4, HomeInOrder
<1> QED BY <1>1, <1>5, HomeGuarded

\* AcrConnector: the images of one repository.
LEMMA AcrImagesHome ==
    ASSUME NEW away, NEW server, NEW repo, Taken(repo) => Paged(repo.inner, FALSE),
           server.host = "own", \A t \in 1..2 : repo.tokens[t].moved \in away
    PROVE  Home(AcrImages(server, repo), away)
<1>0. SUFFICES ASSUME Taken(repo) PROVE Home(AcrImages(server, repo), away)
  <2>1. ~Taken(repo) => AcrImages(server, repo) = Empty
    BY DEF AcrImages
  <2> QED BY <2>1, HomeLeaf
<1> DEFINE pages == repo.inner
           good == [p \in DOMAIN pages |-> Strict(pages[p])]
           onward == [p \in DOMAIN pages |-> AcrNext(pages[p])]
           visit(p) == [i \in DOMAIN ReadOf(pages[p]) |-> AcrImage(ReadOf(pages[p])[i])]
           visits == [p \in DOMAIN pages |-> visit(p)]
           steps == [p \in DOMAIN pages |-> Page(Registry(server), pages[p], Strict(pages[p]), AcrNext(pages[p]), visit(p))]
<1>1. AcrImages(server, repo) = Then(AcrTokens(server, repo, 1), Follow(Registry(server).url, steps))
  BY <1>0 DEF AcrImages, Listing, ReadOf
<1>2. ASSUME NEW p \in DOMAIN pages, NEW i \in DOMAIN ReadOf(pages[p]), Strict(pages[p])
      PROVE  Home(AcrImage(ReadOf(pages[p])[i]), away)
    BY HomeLeaf DEF AcrImage, ImageOf
<1>3. ASSUME NEW p \in DOMAIN pages
      PROVE  /\ Strict(pages[p]) => pages[p].status = "ok"
             /\ pages[p].next = NoUrl => AcrNext(pages[p]) = NoUrl
             /\ AtHome(AcrNext(pages[p])) \/ AcrNext(pages[p]) \in {NoUrl, OffLimits}
  <2>1. AcrNextUrl(pages[p].next) => To({"own"}, pages[p].next) \/ pages[p].next.form = "relative"
    BY DEF AcrNextUrl, AcrUrl
  <2> QED BY <1>0, <2>1, HomeLinks DEF AcrNext, ByLink, Paged, Strict
<1>4. Visited(Registry(server), pages, FALSE, good, onward, visits, steps, away)
  BY <1>2, <1>3 DEF Visited
<1>5. Sited(Registry(server), pages, away)
  BY SitedWays
<1> HIDE DEF good, onward, visits, steps
<1>6. Home(Follow(Registry(server).url, steps), away)
  BY <1>0, <1>4, <1>5, PagedHome
<1> QED BY <1>1, <1>6, AcrTokensHome, HomeThen

\* DockerhubConnector.listTags.
LEMMA DockerhubImagesHome ==
    ASSUME NEW away, NEW repo, Taken(repo) => Paged(repo.inner, FALSE)
    PROVE  Home(DockerhubImages(repo), away)
<1>0. SUFFICES ASSUME Taken(repo) PROVE Home(DockerhubImages(repo), away)
  <2>1. ~Taken(repo) => DockerhubImages(repo) = Empty
    BY DEF DockerhubImages
  <2> QED BY <2>1, HomeLeaf
<1> DEFINE pages == repo.inner
           good == [p \in DOMAIN pages |-> Strict(pages[p])]
           onward == [p \in DOMAIN pages |-> DockerhubNext(pages[p])]
           visit(p) == [i \in DOMAIN ReadOf(pages[p]) |-> DockerhubImage(repo, ReadOf(pages[p])[i])]
           visits == [p \in DOMAIN pages |-> visit(p)]
           steps == [p \in DOMAIN pages |-> Page(Refusing, pages[p], Strict(pages[p]), DockerhubNext(pages[p]), visit(p))]
<1>1. DockerhubImages(repo) = Whole(Follow(Refusing.url, steps))
  BY <1>0 DEF DockerhubImages, Listing, ReadOf
<1>2. ASSUME NEW p \in DOMAIN pages, NEW i \in DOMAIN ReadOf(pages[p]), Strict(pages[p])
      PROVE  Home(DockerhubImage(repo, ReadOf(pages[p])[i]), away)
    BY HomeLeaf DEF DockerhubImage, ImageOf
<1>3. ASSUME NEW p \in DOMAIN pages
      PROVE  /\ Strict(pages[p]) => pages[p].status = "ok"
             /\ pages[p].next = NoUrl => DockerhubNext(pages[p]) = NoUrl
             /\ AtHome(DockerhubNext(pages[p])) \/ DockerhubNext(pages[p]) \in {NoUrl, OffLimits}
  <2>1. DockerhubUrl(pages[p].next) => To({"own"}, pages[p].next) \/ pages[p].next.form = "relative"
    BY DEF DockerhubUrl
  <2> QED BY <1>0, <2>1, HomeLinks DEF ByLink, DockerhubNext, Paged, Strict
<1>4. Visited(Refusing, pages, FALSE, good, onward, visits, steps, away)
  BY <1>2, <1>3 DEF Visited
<1>5. Sited(Refusing, pages, away)
  BY SitedWays
<1> HIDE DEF good, onward, visits, steps
<1>6. Home(Follow(Refusing.url, steps), away)
  BY <1>0, <1>4, <1>5, PagedHome
<1> QED BY <1>1, <1>6, HomeWhole

\* QuayConnector: the images of one repository.
LEMMA QuayImagesHome ==
    ASSUME NEW away, NEW repo, Taken(repo) => Paged(repo.inner, FALSE)
    PROVE  Home(QuayImages(repo), away)
<1>0. SUFFICES ASSUME Taken(repo) PROVE Home(QuayImages(repo), away)
  <2>1. ~Taken(repo) => QuayImages(repo) = Empty
    BY DEF QuayImages
  <2> QED BY <2>1, HomeLeaf
<1> DEFINE pages == repo.inner
           good == [p \in DOMAIN pages |-> Strict(pages[p])]
           onward == [p \in DOMAIN pages |-> ByToken(pages[p])]
           visit(p) == [i \in DOMAIN ReadOf(pages[p]) |-> QuayImage(repo, ReadOf(pages[p])[i])]
           visits == [p \in DOMAIN pages |-> visit(p)]
           steps == [p \in DOMAIN pages |-> Page(Stripping, pages[p], Strict(pages[p]), ByToken(pages[p]), visit(p))]
<1>1. QuayImages(repo) = Whole(Follow(Stripping.url, steps))
  BY <1>0 DEF QuayImages, Listing, ReadOf
<1>2. ASSUME NEW p \in DOMAIN pages, NEW i \in DOMAIN ReadOf(pages[p]), Strict(pages[p])
      PROVE  Home(QuayImage(repo, ReadOf(pages[p])[i]), away)
    BY HomeLeaf DEF QuayImage, ImageOf
<1>3. ASSUME NEW p \in DOMAIN pages
      PROVE  /\ Strict(pages[p]) => pages[p].status = "ok"
             /\ pages[p].next = NoUrl => ByToken(pages[p]) = NoUrl
             /\ AtHome(ByToken(pages[p])) \/ ByToken(pages[p]) \in {NoUrl, OffLimits}
  BY <1>0, HomeLinks DEF Strict, ByToken, Paged
<1>4. Visited(Stripping, pages, FALSE, good, onward, visits, steps, away)
  BY <1>2, <1>3 DEF Visited
<1>5. Sited(Stripping, pages, away)
  BY SitedWays
<1> HIDE DEF good, onward, visits, steps
<1>6. Home(Follow(Stripping.url, steps), away)
  BY <1>0, <1>4, <1>5, PagedHome
<1> QED BY <1>1, <1>6, HomeWhole

\* GhcrConnector.discover.
LEMMA GhcrStays ==
    ASSUME NEW away, NEW ctx, NEW listing, Paged2(listing)
    PROVE  Stays(ctx, Ghcr(ctx, listing), away)
<1>00. Paged(listing, FALSE)
  BY DEF Paged2
<1> DEFINE pages == listing
           good == [p \in DOMAIN pages |-> Exact(pages[p])]
           onward == [p \in DOMAIN pages |-> GhcrNext(pages[p])]
           visit(p) == [i \in DOMAIN ReadOf(pages[p]) |-> GhcrImages(ReadOf(pages[p])[i])]
           visits == [p \in DOMAIN pages |-> visit(p)]
           steps == [p \in DOMAIN pages |-> Page(Stripping, pages[p], Exact(pages[p]), GhcrNext(pages[p]), visit(p))]
<1>1. Ghcr(ctx, listing) = Guarded(GhcrConfig(ctx.config) /\ requireGithubToken(ctx.cred), Follow(Stripping.url, steps))
  BY DEF Ghcr, Listing, ReadOf
<1>2. ASSUME NEW p \in DOMAIN pages, NEW i \in DOMAIN ReadOf(pages[p]), Exact(pages[p])
      PROVE  Home(GhcrImages(ReadOf(pages[p])[i]), away)
  <2>1. ReadOf(pages[p])[i] \in Held(pages)
    BY ReadHeld
  <2> QED BY <2>1, GhcrImagesHome DEF Paged2

<1>3. ASSUME NEW p \in DOMAIN pages
      PROVE  /\ Exact(pages[p]) => pages[p].status = "ok"
             /\ pages[p].next = NoUrl => GhcrNext(pages[p]) = NoUrl
             /\ AtHome(GhcrNext(pages[p])) \/ GhcrNext(pages[p]) \in {NoUrl, OffLimits}
  <2>1. GithubUrl(pages[p].next) => To({"own"}, pages[p].next) \/ pages[p].next.form = "relative"
    BY DEF GithubUrl
  <2> QED BY <1>00, <2>1, HomeLinks DEF ByLink, Exact, GhcrNext, Paged
<1>4. Visited(Stripping, pages, FALSE, good, onward, visits, steps, away)
  BY <1>2, <1>3 DEF Visited
<1>5. Sited(Stripping, pages, away)
  BY SitedWays
<1> HIDE DEF good, onward, visits, steps
<1>6. Home(Follow(Stripping.url, steps), away)
  BY <1>00, <1>4, <1>5, PagedHome
<1> QED BY <1>1, <1>6, StaysGuarded DEF GhcrConfig

\* DockerhubConnector.discover.
LEMMA DockerhubStays ==
    ASSUME NEW away, NEW ctx, NEW listing, Paged2(listing)
    PROVE  Stays(ctx, Dockerhub(ctx, listing), away)
<1>00. Paged(listing, FALSE)
  BY DEF Paged2
<1> DEFINE pages == listing
           good == [p \in DOMAIN pages |-> Strict(pages[p])]
           onward == [p \in DOMAIN pages |-> DockerhubNext(pages[p])]
           visit(p) == [i \in DOMAIN ReadOf(pages[p]) |-> DockerhubImages(ReadOf(pages[p])[i])]
           visits == [p \in DOMAIN pages |-> visit(p)]
           steps == [p \in DOMAIN pages |-> Page(Refusing, pages[p], Strict(pages[p]), DockerhubNext(pages[p]), visit(p))]
<1>1. Dockerhub(ctx, listing) = Guarded(DockerhubConfig(ctx.config), Then(DockerhubLogin(ctx), Follow(Refusing.url, steps)))
  BY DEF Dockerhub, Listing, ReadOf
<1>2. ASSUME NEW p \in DOMAIN pages, NEW i \in DOMAIN ReadOf(pages[p]), Strict(pages[p])
      PROVE  Home(DockerhubImages(ReadOf(pages[p])[i]), away)
  <2>1. ReadOf(pages[p])[i] \in Held(pages)
    BY ReadHeld
  <2> QED BY <2>1, DockerhubImagesHome DEF Paged2

<1>3. ASSUME NEW p \in DOMAIN pages
      PROVE  /\ Strict(pages[p]) => pages[p].status = "ok"
             /\ pages[p].next = NoUrl => DockerhubNext(pages[p]) = NoUrl
             /\ AtHome(DockerhubNext(pages[p])) \/ DockerhubNext(pages[p]) \in {NoUrl, OffLimits}
  <2>1. DockerhubUrl(pages[p].next) => To({"own"}, pages[p].next) \/ pages[p].next.form = "relative"
    BY DEF DockerhubUrl
  <2> QED BY <1>00, <2>1, HomeLinks DEF ByLink, DockerhubNext, Paged, Strict
<1>4. Visited(Refusing, pages, FALSE, good, onward, visits, steps, away)
  BY <1>2, <1>3 DEF Visited
<1>5. Sited(Refusing, pages, away)
  BY SitedWays
<1> HIDE DEF good, onward, visits, steps
<1>6. Home(Follow(Refusing.url, steps), away)
  BY <1>00, <1>4, <1>5, PagedHome
<1> QED BY <1>1, <1>6, LoginsHome, StaysLogged DEF DockerhubConfig

\* QuayConnector.discover.
LEMMA QuayStays ==
    ASSUME NEW away, NEW ctx, NEW listing, Paged2(listing)
    PROVE  Stays(ctx, Quay(ctx, listing), away)
<1>00. Paged(listing, FALSE)
  BY DEF Paged2
<1> DEFINE pages == listing
           good == [p \in DOMAIN pages |-> Strict(pages[p])]
           onward == [p \in DOMAIN pages |-> ByToken(pages[p])]
           visit(p) == [i \in DOMAIN ReadOf(pages[p]) |-> QuayImages(ReadOf(pages[p])[i])]
           visits == [p \in DOMAIN pages |-> visit(p)]
           steps == [p \in DOMAIN pages |-> Page(Stripping, pages[p], Strict(pages[p]), ByToken(pages[p]), visit(p))]
<1>1. Quay(ctx, listing) = Guarded(QuayConfig(ctx.config) /\ requireQuayToken(ctx.cred), Follow(Stripping.url, steps))
  BY DEF Quay, Listing, ReadOf
<1>2. ASSUME NEW p \in DOMAIN pages, NEW i \in DOMAIN ReadOf(pages[p]), Strict(pages[p])
      PROVE  Home(QuayImages(ReadOf(pages[p])[i]), away)
  <2>1. ReadOf(pages[p])[i] \in Held(pages)
    BY ReadHeld
  <2> QED BY <2>1, QuayImagesHome DEF Paged2

<1>3. ASSUME NEW p \in DOMAIN pages
      PROVE  /\ Strict(pages[p]) => pages[p].status = "ok"
             /\ pages[p].next = NoUrl => ByToken(pages[p]) = NoUrl
             /\ AtHome(ByToken(pages[p])) \/ ByToken(pages[p]) \in {NoUrl, OffLimits}
  BY <1>00, HomeLinks DEF Strict, ByToken, Paged
<1>4. Visited(Stripping, pages, FALSE, good, onward, visits, steps, away)
  BY <1>2, <1>3 DEF Visited
<1>5. Sited(Stripping, pages, away)
  BY SitedWays
<1> HIDE DEF good, onward, visits, steps
<1>6. Home(Follow(Stripping.url, steps), away)
  BY <1>00, <1>4, <1>5, PagedHome
<1> QED BY <1>1, <1>6, StaysGuarded DEF QuayConfig

\* EcrConnector.listRepositories, of one region.
LEMMA EcrRepositoriesHome ==
    ASSUME NEW away, NEW ctx, NEW listing, Paged2(listing),
           ctx.cred.session => Away(listing) \subseteq away /\ \A i \in Held(listing) : Away(i.inner) \subseteq away
    PROVE  Home(EcrRepositories(ctx, listing), away)
<1>00. Paged(listing, FALSE)
  BY DEF Paged2
<1> DEFINE pages == listing
           good == [p \in DOMAIN pages |-> Strict(pages[p])]
           onward == [p \in DOMAIN pages |-> ByToken(pages[p])]
           visit(p) == [i \in DOMAIN ReadOf(pages[p]) |-> EcrImages(ctx, ReadOf(pages[p])[i])]
           visits == [p \in DOMAIN pages |-> visit(p)]
           steps == [p \in DOMAIN pages |-> Page(Signed(ctx.cred), pages[p], Strict(pages[p]), ByToken(pages[p]), visit(p))]
<1>1. EcrRepositories(ctx, listing) = Follow(Signed(ctx.cred).url, steps)
  BY DEF EcrRepositories, Listing, ReadOf
<1>2. ASSUME NEW p \in DOMAIN pages, NEW i \in DOMAIN ReadOf(pages[p]), Strict(pages[p])
      PROVE  Home(EcrImages(ctx, ReadOf(pages[p])[i]), away)
  <2>1. ReadOf(pages[p])[i] \in Held(pages)
    BY ReadHeld
  <2> QED BY <2>1, EcrImagesHome DEF Paged2

<1>3. ASSUME NEW p \in DOMAIN pages
      PROVE  /\ Strict(pages[p]) => pages[p].status = "ok"
             /\ pages[p].next = NoUrl => ByToken(pages[p]) = NoUrl
             /\ AtHome(ByToken(pages[p])) \/ ByToken(pages[p]) \in {NoUrl, OffLimits}
  BY <1>00, HomeLinks DEF Strict, ByToken, Paged
<1>4. Visited(Signed(ctx.cred), pages, FALSE, good, onward, visits, steps, away)
  BY <1>2, <1>3 DEF Visited
<1>5. Sited(Signed(ctx.cred), pages, away)
  BY SitedWays
<1> HIDE DEF good, onward, visits, steps
<1>6. Home(Follow(Signed(ctx.cred).url, steps), away)
  BY <1>00, <1>4, <1>5, PagedHome
<1> QED BY <1>1, <1>6

\* GcrConnector.listRepositories, of one location.
LEMMA GcrRepositoriesHome ==
    ASSUME NEW away, NEW listing, Paged2(listing)
    PROVE  Home(GcrRepositories(listing), away)
<1>00. Paged(listing, FALSE)
  BY DEF Paged2
<1> DEFINE pages == listing
           good == [p \in DOMAIN pages |-> Strict(pages[p])]
           onward == [p \in DOMAIN pages |-> ByToken(pages[p])]
           visit(p) == [i \in DOMAIN ReadOf(pages[p]) |-> GcrImages(ReadOf(pages[p])[i])]
           visits == [p \in DOMAIN pages |-> visit(p)]
           steps == [p \in DOMAIN pages |-> Page(Stripping, pages[p], Strict(pages[p]), ByToken(pages[p]), visit(p))]
<1>1. GcrRepositories(listing) = Follow(Stripping.url, steps)
  BY DEF GcrRepositories, Listing, ReadOf
<1>2. ASSUME NEW p \in DOMAIN pages, NEW i \in DOMAIN ReadOf(pages[p]), Strict(pages[p])
      PROVE  Home(GcrImages(ReadOf(pages[p])[i]), away)
  <2>1. ReadOf(pages[p])[i] \in Held(pages)
    BY ReadHeld
  <2> QED BY <2>1, GcrImagesHome DEF Paged2

<1>3. ASSUME NEW p \in DOMAIN pages
      PROVE  /\ Strict(pages[p]) => pages[p].status = "ok"
             /\ pages[p].next = NoUrl => ByToken(pages[p]) = NoUrl
             /\ AtHome(ByToken(pages[p])) \/ ByToken(pages[p]) \in {NoUrl, OffLimits}
  BY <1>00, HomeLinks DEF Strict, ByToken, Paged
<1>4. Visited(Stripping, pages, FALSE, good, onward, visits, steps, away)
  BY <1>2, <1>3 DEF Visited
<1>5. Sited(Stripping, pages, away)
  BY SitedWays
<1> HIDE DEF good, onward, visits, steps
<1>6. Home(Follow(Stripping.url, steps), away)
  BY <1>00, <1>4, <1>5, PagedHome
<1> QED BY <1>1, <1>6

\* AcrConnector: the repositories of one registry.
LEMMA AcrRepositoriesHome ==
    ASSUME NEW away, NEW registry,
           Taken(registry) => Paged2(registry.inner) /\ registry.server.host = "own",
           \A t \in 1..2 : registry.tokens[t].moved \in away,
           \A i \in Held(registry.inner) : \A t \in 1..2 : i.tokens[t].moved \in away
    PROVE  Home(AcrRepositories(registry), away)
<1>0. SUFFICES ASSUME Taken(registry) PROVE Home(AcrRepositories(registry), away)
  <2>1. ~Taken(registry) => AcrRepositories(registry) = Empty
    BY DEF AcrRepositories
  <2> QED BY <2>1, HomeLeaf
<1>00. Paged(registry.inner, FALSE)
  BY <1>0 DEF Paged2
<1> DEFINE pages == registry.inner
           good == [p \in DOMAIN pages |-> Strict(pages[p])]
           onward == [p \in DOMAIN pages |-> AcrNext(pages[p])]
           visit(p) == [i \in DOMAIN ReadOf(pages[p]) |-> AcrImages(registry.server, ReadOf(pages[p])[i])]
           visits == [p \in DOMAIN pages |-> visit(p)]
           steps == [p \in DOMAIN pages |-> Page(Registry(registry.server), pages[p], Strict(pages[p]), AcrNext(pages[p]), visit(p))]
<1>1. AcrRepositories(registry) = Then(AcrTokens(registry.server, registry, 2), Follow(Registry(registry.server).url, steps))
  BY <1>0 DEF AcrRepositories, Listing, ReadOf
<1>2. ASSUME NEW p \in DOMAIN pages, NEW i \in DOMAIN ReadOf(pages[p]), Strict(pages[p])
      PROVE  Home(AcrImages(registry.server, ReadOf(pages[p])[i]), away)
  <2>0. Paged2(pages)
    BY <1>0
  <2>1. ReadOf(pages[p])[i] \in Held(pages)
    BY ReadHeld
  <2> QED BY <1>0, <2>0, <2>1, AcrImagesHome DEF Paged2

<1>3. ASSUME NEW p \in DOMAIN pages
      PROVE  /\ Strict(pages[p]) => pages[p].status = "ok"
             /\ pages[p].next = NoUrl => AcrNext(pages[p]) = NoUrl
             /\ AtHome(AcrNext(pages[p])) \/ AcrNext(pages[p]) \in {NoUrl, OffLimits}
  <2>1. AcrNextUrl(pages[p].next) => To({"own"}, pages[p].next) \/ pages[p].next.form = "relative"
    BY DEF AcrNextUrl, AcrUrl
  <2> QED BY <1>0, <1>00, <2>1, HomeLinks DEF AcrNext, ByLink, Paged, Strict
<1>4. Visited(Registry(registry.server), pages, FALSE, good, onward, visits, steps, away)
  BY <1>2, <1>3 DEF Visited
<1>5. Sited(Registry(registry.server), pages, away)
  BY <1>0, SitedWays 
<1> HIDE DEF good, onward, visits, steps
<1>6. Home(Follow(Registry(registry.server).url, steps), away)
  BY <1>0, <1>00, <1>4, <1>5, PagedHome
<1> QED BY <1>1, <1>6, <1>0, AcrTokensHome, HomeThen

\* AcrConnector: the registries, each with a login server that is vetted.
LEMMA AcrRegistriesHome ==
    ASSUME NEW away, NEW listing, Paged3(listing),
           \A r \in Held(listing) :
             /\ \A t \in 1..2 : r.tokens[t].moved \in away
             /\ \A i \in Held(r.inner) : \A t \in 1..2 : i.tokens[t].moved \in away
    PROVE  Home(AcrRegistries(listing), away)
<1>00. Paged(listing, FALSE)
  BY DEF Paged3
<1> DEFINE pages == listing
           good == [p \in DOMAIN pages |-> AcrPage(pages[p])]
           onward == [p \in DOMAIN pages |-> ByLink(pages[p], AzureArmUrl(pages[p].next))]
           visit(p) == [i \in DOMAIN ReadOf(pages[p]) |-> AcrRepositories(ReadOf(pages[p])[i])]
           visits == [p \in DOMAIN pages |-> visit(p)]
           steps == [p \in DOMAIN pages |-> Page(Stripping, pages[p], AcrPage(pages[p]), ByLink(pages[p], AzureArmUrl(pages[p].next)), visit(p))]
<1>1. AcrRegistries(listing) = Follow(Stripping.url, steps)
  BY DEF AcrRegistries, Listing, ReadOf
<1>2. ASSUME NEW p \in DOMAIN pages, NEW i \in DOMAIN ReadOf(pages[p]), AcrPage(pages[p])
      PROVE  Home(AcrRepositories(ReadOf(pages[p])[i]), away)
  <2> DEFINE registry == ReadOf(pages[p])[i]
  <2>1. registry \in Held(pages)
    BY ReadHeld
  <2>2. Taken(registry) => registry.server.host = "own"
    <3>1. registry = pages[p].items[i] /\ i \in DOMAIN pages[p].items
      BY DEF ReadOf
    <3> QED BY <1>2, <3>1 DEF AcrPage, Taken, LoginServer, To
  <2> QED BY <2>1, <2>2, AcrRepositoriesHome DEF Paged3
<1>3. ASSUME NEW p \in DOMAIN pages
      PROVE  /\ AcrPage(pages[p]) => pages[p].status = "ok"
             /\ pages[p].next = NoUrl => ByLink(pages[p], AzureArmUrl(pages[p].next)) = NoUrl
             /\ AtHome(ByLink(pages[p], AzureArmUrl(pages[p].next))) \/ ByLink(pages[p], AzureArmUrl(pages[p].next)) \in {NoUrl, OffLimits}
  <2>1. AzureArmUrl(pages[p].next) => To({"own"}, pages[p].next) \/ pages[p].next.form = "relative"
    BY DEF AzureArmUrl
  <2> QED BY <1>00, <2>1, HomeLinks DEF AcrPage, ByLink, Paged, Strict
<1>4. Visited(Stripping, pages, FALSE, good, onward, visits, steps, away)
  BY <1>2, <1>3 DEF Visited
<1>5. Sited(Stripping, pages, away)
  BY SitedWays
<1> HIDE DEF good, onward, visits, steps
<1>6. Home(Follow(Stripping.url, steps), away)
  BY <1>00, <1>4, <1>5, PagedHome
<1> QED BY <1>1, <1>6

\* What a provider may answer to a call of its connector; EKS describes a cluster in
\* one answer.
Answering(x) ==
    \/ x.provider \in Clouds \cup {"dns"} /\ IsSeq(x.pages)
         /\ \A s \in DOMAIN x.pages : Paged(x.pages[s].pages, FALSE)
    \/ x.provider \in Numbering /\ Paged(x.pages, TRUE) /\ Paged(x.public, TRUE)
    \/ x.provider \in Flat \cup {"eks"} /\ Paged(x.pages, FALSE) /\ (x.provider = "eks" => Told(x.pages))
    \/ x.provider \in Nested /\ Paged2(x.pages)
    \/ x.provider = "acr" /\ Paged3(x.pages)

\* A connector that does one listing after the other.
LEMMA HomeEach ==
    ASSUME NEW away, NEW s, IsSeq(s), NEW rs, DOMAIN rs = DOMAIN s, \A i \in DOMAIN rs : Home(rs[i], away)
    PROVE  Home(InOrder(rs), away)
<1>1. Finite(rs)
  <2>1. DOMAIN rs = 1..Len(s) /\ Len(s) \in Nat
    BY DEF IsSeq
  <2> QED BY <2>1, FiniteSeq
<1> QED BY <1>1, HomeInOrder

\* The listings of AWS, Azure and GCP, kind by kind.
LEMMA CloudsStay ==
    ASSUME NEW away, NEW ctx, NEW scopes, IsSeq(scopes), \A s \in DOMAIN scopes : Paged(scopes[s].pages, FALSE)
    PROVE  /\ (ctx.cred.session => /\ ctx.grant.moved \in away
                                   /\ \A s \in DOMAIN scopes : Away(scopes[s].pages) \subseteq away) =>
                Stays(ctx, Aws(ctx, scopes), away)
           /\ ctx.grant.moved \in away => Stays(ctx, Azure(ctx, scopes), away) /\ Stays(ctx, Gcp(ctx, scopes), away)
<1> DEFINE aws == [s \in DOMAIN scopes |-> IF scopes[s].kind \in ctx.kinds THEN AwsListing(ctx, scopes[s]) ELSE Empty]
           azure == [s \in DOMAIN scopes |-> IF scopes[s].kind \in ctx.kinds THEN AzureListing(scopes[s]) ELSE Empty]
           gcp == [s \in DOMAIN scopes |-> IF scopes[s].kind \in ctx.kinds THEN GcpListing(scopes[s]) ELSE Empty]
           given == ctx.cred.session => /\ ctx.grant.moved \in away
                                        /\ \A s \in DOMAIN scopes : Away(scopes[s].pages) \subseteq away
<1>1. /\ Aws(ctx, scopes) = Guarded(AwsConfig(ctx.config), Then(AwsAccount(ctx), InOrder(aws)))
      /\ Azure(ctx, scopes) = Guarded(AzureConfig(ctx.config), Then(AzureLogin(ctx), InOrder(azure)))
      /\ Gcp(ctx, scopes) = Guarded(GcpConfig(ctx.config), Then(GcpLogin(ctx), InOrder(gcp)))
  BY DEF Aws, Azure, Gcp, Scopes
<1>2. /\ DOMAIN aws = DOMAIN scopes /\ DOMAIN azure = DOMAIN scopes /\ DOMAIN gcp = DOMAIN scopes
      /\ \A s \in DOMAIN scopes : Home(azure[s], away) /\ Home(gcp[s], away)
      /\ given => \A s \in DOMAIN scopes : Home(aws[s], away)
  BY AwsListingHome, AzureListingHome, GcpListingHome, HomeLeaf
<1>3. given => Home(AwsAccount(ctx), away)
  BY LoginsHome
<1> HIDE DEF aws, azure, gcp, given
<1>4. given => Stays(ctx, Aws(ctx, scopes), away)
  <2>1. given => Home(InOrder(aws), away)
    BY <1>2, HomeEach
  <2> QED BY <1>1, <1>3, <2>1, StaysLogged DEF AwsConfig
<1>5. ctx.grant.moved \in away => Stays(ctx, Azure(ctx, scopes), away)
  <2>1. Home(InOrder(azure), away)
    BY <1>2, HomeEach
  <2> QED BY <1>1, <2>1, StaysLogged, LoginsHome DEF AzureConfig
<1>6. ctx.grant.moved \in away => Stays(ctx, Gcp(ctx, scopes), away)
  <2>1. Home(InOrder(gcp), away)
    BY <1>2, HomeEach
  <2> QED BY <1>1, <2>1, StaysLogged, LoginsHome DEF GcpConfig
<1> QED BY <1>4, <1>5, <1>6 DEF given

\* GitHub and GitLab, with a credential and without.
LEMMA NumberingStay ==
    ASSUME NEW away, NEW ctx, NEW pages, NEW public, Paged(pages, TRUE), Paged(public, TRUE)
    PROVE  Home(GitHub(ctx, pages, public), away) /\ Stays(ctx, GitLab(ctx, pages, public), away)
<1>1. Home(GitHub(ctx, pages, public), away)
  BY GitHubListingHome, HomeGuarded DEF GitHub
<1>2. Stays(ctx, GitLab(ctx, pages, public), away)
  BY GitLabListingHome, StaysGuarded DEF GitLab, GitLabConfig
<1> QED BY <1>1, <1>2

\* The AWS services, region by region.
LEMMA AwsRegionsStay ==
    ASSUME NEW away, NEW ctx, NEW regions, IsSeq(regions),
           ctx.cred.session =>
             /\ ctx.grant.moved \in away
             /\ \A r \in DOMAIN regions : /\ Away(regions[r]) \subseteq away
                                           /\ \A i \in Held(regions[r]) : Away(i.inner) \subseteq away
    PROVE  /\ (\A r \in DOMAIN regions : Paged2(regions[r])) => Stays(ctx, Ecr(ctx, regions), away)
           /\ (\A r \in DOMAIN regions : Paged(regions[r], FALSE) /\ Told(regions[r])) =>
                Stays(ctx, Eks(ctx, regions), away)
<1> DEFINE ecr == [r \in DOMAIN regions |-> EcrRepositories(ctx, regions[r])]
           eks == [r \in DOMAIN regions |-> EksClusters(ctx, regions[r])]
<1>1. /\ Ecr(ctx, regions) = Guarded(EcrConfig(ctx.config), Then(AwsAccount(ctx), InOrder(ecr)))
      /\ Eks(ctx, regions) = Guarded(KubernetesConfig(ctx.config), Then(AwsAccount(ctx), InOrder(eks)))
  BY DEF Ecr, Eks
<1>2. /\ DOMAIN ecr = DOMAIN regions /\ DOMAIN eks = DOMAIN regions
      /\ \A r \in DOMAIN regions :
           /\ Paged2(regions[r]) => Home(ecr[r], away)
           /\ Paged(regions[r], FALSE) /\ Told(regions[r]) => Home(eks[r], away)
  BY EcrRepositoriesHome, EksClustersHome
<1>3. Home(AwsAccount(ctx), away)
  BY LoginsHome
<1> HIDE DEF ecr, eks
<1>4. ASSUME \A r \in DOMAIN regions : Paged2(regions[r]) PROVE Stays(ctx, Ecr(ctx, regions), away)
  <2>1. Home(InOrder(ecr), away)
    BY <1>2, <1>4, HomeEach
  <2> QED BY <1>1, <1>3, <2>1, StaysLogged DEF EcrConfig
<1>5. ASSUME \A r \in DOMAIN regions : Paged(regions[r], FALSE) /\ Told(regions[r])
      PROVE  Stays(ctx, Eks(ctx, regions), away)
  <2>1. Home(InOrder(eks), away)
    BY <1>2, <1>5, HomeEach
  <2> QED BY <1>1, <1>3, <2>1, StaysLogged DEF KubernetesConfig
<1> QED BY <1>4, <1>5

\* Artifact Registry by location, and ACR by resource group.
LEMMA RegionsStay ==
    ASSUME NEW away, NEW ctx, ctx.grant.moved \in away, NEW regions, IsSeq(regions)
    PROVE  /\ (\A r \in DOMAIN regions : Paged2(regions[r])) => Stays(ctx, Gcr(ctx, regions), away)
           /\ (\A r \in DOMAIN regions :
                 /\ Paged3(regions[r])
                 /\ \A i \in Held(regions[r]) :
                      /\ \A t \in 1..2 : i.tokens[t].moved \in away
                      /\ \A j \in Held(i.inner) : \A t \in 1..2 : j.tokens[t].moved \in away) =>
                Stays(ctx, Acr(ctx, regions), away)
<1> DEFINE gcr == [r \in DOMAIN regions |-> GcrRepositories(regions[r])]
           acr == [r \in DOMAIN regions |-> AcrRegistries(regions[r])]
           traded(r) == \A i \in Held(regions[r]) :
                          /\ \A t \in 1..2 : i.tokens[t].moved \in away
                          /\ \A j \in Held(i.inner) : \A t \in 1..2 : j.tokens[t].moved \in away
<1>1. /\ Gcr(ctx, regions) = Guarded(GcrConfig(ctx.config), Then(GcpLogin(ctx), InOrder(gcr)))
      /\ Acr(ctx, regions) = Guarded(AcrConfig(ctx.config), Then(AzureLogin(ctx), InOrder(acr)))
  BY DEF Gcr, Acr
<1>2. /\ DOMAIN gcr = DOMAIN regions /\ DOMAIN acr = DOMAIN regions
      /\ \A r \in DOMAIN regions :
           /\ Paged2(regions[r]) => Home(gcr[r], away)
           /\ Paged3(regions[r]) /\ traded(r) => Home(acr[r], away)
  BY GcrRepositoriesHome, AcrRegistriesHome
<1> HIDE DEF gcr, acr, traded
<1>3. ASSUME \A r \in DOMAIN regions : Paged2(regions[r]) PROVE Stays(ctx, Gcr(ctx, regions), away)
  <2>1. Home(InOrder(gcr), away)
    BY <1>2, <1>3, HomeEach
  <2> QED BY <1>1, <2>1, StaysLogged, LoginsHome DEF GcrConfig
<1>4. ASSUME \A r \in DOMAIN regions : Paged3(regions[r]) /\ traded(r)
      PROVE  Stays(ctx, Acr(ctx, regions), away)
  <2>1. Home(InOrder(acr), away)
    BY <1>2, <1>4, HomeEach
  <2> QED BY <1>1, <2>1, StaysLogged, LoginsHome DEF AcrConfig
<1> QED BY <1>3, <1>4 DEF traded

\* The connector of domains, which asks the certificate log.
LEMMA DnsStays ==
    ASSUME NEW away, NEW ctx, NEW apexes, IsSeq(apexes), \A a \in DOMAIN apexes : Paged(apexes[a].pages, FALSE)
    PROVE  Stays(ctx, DnsEnum(ctx, apexes), away)
<1> DEFINE dns == [a \in DOMAIN apexes |-> InventoryApex(apexes[a])]
<1>1. DnsEnum(ctx, apexes) =
        Guarded(DnsConfig(ctx.config) /\ (ctx.cred.ref = "none" \/ Resolve(ctx.cred) = "token"), InOrder(dns))
  BY DEF DnsEnum
<1>2. ASSUME NEW a \in DOMAIN apexes PROVE Home(InventoryApex(apexes[a]), away)
  <2> DEFINE ct == CrtShNames(apexes[a])
  <2>1. Home(ct, away)
    BY CrtShNamesHome
  <2>2. PICK late, keys, enriched :
           InventoryApex(apexes[a]) =
             Then(Silent(ct),
                  Guarded(~late /\ Cardinality(keys) <= MaxNames, [Empty EXCEPT !.items = enriched]))
    BY DEF InventoryApex
  <2> HIDE DEF ct
  <2>3. Home(Silent(ct), away)
    BY <2>1 DEF Home, Silent
  <2>4. Home([Empty EXCEPT !.items = enriched], away)
    BY DEF Home, Empty
  <2> QED BY <2>2, <2>3, <2>4, HomeThen, HomeGuarded
<1>3. DOMAIN dns = DOMAIN apexes /\ \A a \in DOMAIN dns : Home(dns[a], away)
  BY <1>2
<1> HIDE DEF dns
<1>4. Home(InOrder(dns), away)
  BY <1>3, HomeEach
<1> QED BY <1>1, <1>4, StaysGuarded DEF DnsConfig

\* Every connector, for every answer and wherever it redirects.
LEMMA DiscoverStays ==
    ASSUME NEW x, Answering(x)
    PROVE  /\ Home(Discover(x), HandedOn(x))
           /\ x.ctx.config.endpoint /\ x.provider # "github" => Discover(x).dials = {}
<1> DEFINE away == HandedOn(x)
           grant == x.ctx.grant.moved
<1>0. /\ x.provider \in {"azure", "gcp", "gcr", "gke", "aks", "acr"} => grant \in away
      /\ x.provider \in {"aws", "ecr", "eks"} /\ x.ctx.cred.session => grant \in away
  BY DEF HandedOn
<1>1. CASE x.provider \in Clouds /\ IsSeq(x.pages) /\ \A s \in DOMAIN x.pages : Paged(x.pages[s].pages, FALSE)
  <2>1. x.provider = "aws" /\ x.ctx.cred.session => \A s \in DOMAIN x.pages : Away(x.pages[s].pages) \subseteq away
    BY DEF HandedOn
  <2> HIDE DEF away
  <2>2. Stays(x.ctx, Discover(x), away)
    BY <1>0, <1>1, <2>1, CloudsStay DEF Discover, Clouds
  <2> QED BY <2>2 DEF Stays, away
<1>2. CASE x.provider = "dns" /\ IsSeq(x.pages) /\ \A s \in DOMAIN x.pages : Paged(x.pages[s].pages, FALSE)
  <2> HIDE DEF away
  <2>1. Stays(x.ctx, Discover(x), away)
    BY <1>2, DnsStays DEF Discover
  <2> QED BY <2>1 DEF Stays, away
<1>3. CASE x.provider \in Numbering /\ Paged(x.pages, TRUE) /\ Paged(x.public, TRUE)
  <2> HIDE DEF away
  <2>1. x.provider = "github" => Home(Discover(x), away)
    BY <1>3, NumberingStay DEF Discover
  <2>2. x.provider = "gitlab" => Stays(x.ctx, Discover(x), away)
    BY <1>3, NumberingStay DEF Discover
  <2> QED BY <1>3, <2>1, <2>2 DEF Stays, Numbering, away
<1> DEFINE regions == <<x.pages>>
<1>4. IsSeq(regions) /\ (\A r \in DOMAIN regions : regions[r] = x.pages) /\ regions = <<x.pages>>
  BY DEF IsSeq, ToSet
<1> HIDE DEF regions
<1>5. x.provider \in {"ecr", "eks"} /\ x.ctx.cred.session =>
        Away(x.pages) \subseteq away /\ \A i \in Held(x.pages) : Away(i.inner) \subseteq away
  BY DEF HandedOn
<1>6. CASE x.provider \in Flat \cup {"eks"} /\ Paged(x.pages, FALSE) /\ (x.provider = "eks" => Told(x.pages))
  <2> HIDE DEF away
  <2>1. x.provider = "eks" => Stays(x.ctx, Eks(x.ctx, regions), away)
    BY <1>0, <1>4, <1>5, <1>6, AwsRegionsStay
  <2>2. /\ x.provider = "bitbucket" => Discover(x) = Bitbucket(x.ctx, x.pages)
        /\ x.provider = "gke" => Discover(x) = Gke(x.ctx, x.pages)
        /\ x.provider = "aks" => Discover(x) = Aks(x.ctx, x.pages)
        /\ x.provider = "eks" => Discover(x) = Eks(x.ctx, regions)
    BY <1>4 DEF Discover
  <2>3. Stays(x.ctx, Discover(x), away)
    BY <1>0, <1>6, <2>1, <2>2, BitbucketStays, GkeStays, AksStays DEF Flat
  <2> QED BY <2>3 DEF Stays, away
<1>7. CASE x.provider \in Nested /\ Paged2(x.pages)
  <2> HIDE DEF away
  <2>1. x.provider = "ecr" => Stays(x.ctx, Ecr(x.ctx, regions), away)
    BY <1>0, <1>4, <1>5, <1>7, AwsRegionsStay
  <2>2. x.provider = "gcr" => Stays(x.ctx, Gcr(x.ctx, regions), away)
    BY <1>0, <1>4, <1>7, RegionsStay
  <2>3. /\ x.provider = "ghcr" => Discover(x) = Ghcr(x.ctx, x.pages)
        /\ x.provider = "dockerhub" => Discover(x) = Dockerhub(x.ctx, x.pages)
        /\ x.provider = "quay" => Discover(x) = Quay(x.ctx, x.pages)
        /\ x.provider = "ecr" => Discover(x) = Ecr(x.ctx, regions)
        /\ x.provider = "gcr" => Discover(x) = Gcr(x.ctx, regions)
    BY <1>4 DEF Discover
  <2>4. Stays(x.ctx, Discover(x), away)
    BY <1>7, <2>1, <2>2, <2>3, GhcrStays, DockerhubStays, QuayStays DEF Nested
  <2> QED BY <2>4 DEF Stays, away
<1>8. CASE x.provider = "acr" /\ Paged3(x.pages)
  <2>1. \A i \in Held(x.pages) :
          /\ \A t \in 1..2 : i.tokens[t].moved \in away
          /\ \A j \in Held(i.inner) : \A t \in 1..2 : j.tokens[t].moved \in away
    <3> DEFINE registries == Held(x.pages)
               traded == registries \cup UNION {Held(r.inner) : r \in registries}
    <3>1. away = {grant} \cup {i.tokens[t].moved : i \in traded, t \in 1..2}
      BY <1>8 DEF HandedOn
    <3> HIDE DEF away
    <3>2. \A i \in traded : \A t \in 1..2 : i.tokens[t].moved \in away
      BY <3>1
    <3> QED BY <3>2
  <2> HIDE DEF away
  <2>2. Stays(x.ctx, Acr(x.ctx, regions), away)
    BY <1>0, <1>4, <1>8, <2>1, RegionsStay
  <2>3. x.provider = "acr" => Discover(x) = Acr(x.ctx, regions)
    BY <1>4 DEF Discover
  <2>4. Stays(x.ctx, Discover(x), away)
    BY <1>8, <2>2, <2>3
  <2> QED BY <2>4 DEF Stays, away
<1> QED BY <1>1, <1>2, <1>3, <1>6, <1>7, <1>8 DEF Answering

-----------------------------------------------------------------------------
(***************************************************************************)
(* Connectors: what they find                                              *)
(***************************************************************************)
\* What is found is held, and all of it (where c says so) unless an error says otherwise.
Finds(r, S, c) == Keys(r.items) \subseteq S /\ (c /\ r.done => S \subseteq Keys(r.items))

\* What asks nobody finds nothing.
LEMMA FindsSimple ==
    ASSUME NEW S, NEW c
    PROVE  Finds(Empty, {}, c) /\ Finds(Refused, S, c)
  BY DEF Finds, Empty, Refused, Keys

\* A guard that fails is an error.
LEMMA FindsGuarded ==
    ASSUME NEW S, NEW c, NEW ok, NEW r, ok => Finds(r, S, c)
    PROVE  Finds(Guarded(ok, r), S, c)
  BY FindsSimple DEF Guarded

\* To drop the items of a failure leaves the failure.
LEMMA FindsWhole == ASSUME NEW S, NEW c, NEW r, Finds(r, S, c) PROVE Finds(Whole(r), S, c)
<1>1. CASE r.done
  BY <1>1 DEF Whole
<1>2. CASE ~r.done
  <2>1. Whole(r).items = {} /\ Whole(r).done = r.done
    BY <1>2 DEF Whole, Silent
  <2> QED BY <1>2, <2>1 DEF Finds, Keys
<1> QED BY <1>1, <1>2

\* All the parts together.
All(part, S) == UNION {part[i] : i \in S}

\* Parts done in order find what the parts find.
LEMMA FindsInOrder ==
    ASSUME NEW c, NEW rs, Finite(rs), NEW part, \A i \in DOMAIN rs : Finds(rs[i], part[i], c)
    PROVE  Finds(InOrder(rs), All(part, DOMAIN rs), c)
<1>1. ASSUME NEW e \in InOrder(rs).items PROVE \E i \in DOMAIN rs : e.key \in part[i]
  <2>1. PICK i \in DOMAIN rs : e \in rs[i].items
    BY InOrderFrom
  <2> QED BY <2>1 DEF Finds, Keys
<1>2. ASSUME c, InOrder(rs).done, NEW i \in DOMAIN rs PROVE part[i] \subseteq Keys(InOrder(rs).items)
  <2>1. rs[i].done /\ rs[i].items \subseteq InOrder(rs).items
    BY <1>2, InOrderDone
  <2>2. part[i] \subseteq Keys(rs[i].items)
    BY <1>2, <2>1 DEF Finds
  <2> QED BY <2>1, <2>2 DEF Keys
<1>3. Keys(InOrder(rs).items) \subseteq UNION {part[i] : i \in DOMAIN rs}
  BY <1>1 DEF Keys
<1>4. c /\ InOrder(rs).done => UNION {part[i] : i \in DOMAIN rs} \subseteq Keys(InOrder(rs).items)
  BY <1>2
<1> QED BY <1>3, <1>4 DEF Finds, All

\* A connector that ends without an error has read every page there is.
LEMMA FollowFinds ==
    ASSUME NEW c, NEW first, NEW steps, NEW n \in Nat, DOMAIN steps = 1..n, \E p \in 1..n : Stops(steps, p),
           NEW part,
           \A p \in 1..n : Finds(steps[p].result, part[p], c) /\ (steps[p].result.done => steps[p].good),
           c => \A p \in 1..n : p # n /\ steps[p].good => steps[p].next # NoUrl
    PROVE  Finds(Follow(first, steps), All(part, 1..n), c)
<1> DEFINE last == LastPage(steps)
           Asked(p) == [Empty EXCEPT !.dials = {IF p = 1 THEN first ELSE steps[p - 1].next}]
           rs == [p \in 1..last |-> Then(Asked(p), steps[p].result)]
<1>1. Follow(first, steps) = Then(InOrder(rs), Guarded(steps[last].next = NoUrl, Empty))
  BY DEF Follow, LastPage
<1>2. last \in 1..n
  BY LastStops
<1> HIDE DEF last
<1>3. ASSUME NEW p \in 1..last
      PROVE  Finds(rs[p], part[p], c) /\ (rs[p].done => steps[p].good)
  <2> DEFINE read == steps[p].result
  <2>1. Asked(p).items = {} /\ Asked(p).done
    BY DEF Empty
  <2>2. Finds(read, part[p], c) /\ (read.done => steps[p].good)
    BY <1>2
  <2> HIDE DEF Asked, read
  <2>3. Then(Asked(p), read).items = read.items /\ Then(Asked(p), read).done = read.done
    BY <2>1 DEF Then
  <2>4. rs[p] = Then(Asked(p), read)
    BY DEF read
  <2> HIDE DEF rs
  <2> QED BY <2>2, <2>3, <2>4 DEF Finds
<1>4. Finite(rs)
  BY <1>2, FiniteSeq
<1> HIDE DEF rs
<1>5. DOMAIN rs = 1..last
  BY DEF rs
<1> DEFINE r == InOrder(rs)
<1>6. Finds(r, All(part, 1..last), c)
  BY <1>3, <1>4, <1>5, FindsInOrder
<1>7. r.done => steps[last].good
  <2>1. last \in DOMAIN rs
    BY <1>2, <1>5
  <2> QED BY <1>3, <1>4, <1>5, <2>1, InOrderDone
<1> HIDE DEF r
<1>8. Follow(first, steps).items = r.items
      /\ (Follow(first, steps).done => r.done /\ steps[last].next = NoUrl)
  BY <1>1 DEF r, Then, Guarded, Empty, Refused
<1>9. c /\ Follow(first, steps).done => last = n
  BY <1>2, <1>7, <1>8
<1>10. All(part, 1..last) \subseteq All(part, 1..n)
  BY <1>2 DEF All
<1> QED BY <1>6, <1>8, <1>9, <1>10 DEF Finds

\* A page that is taken finds what its visits find.
LEMMA PageFinds ==
    ASSUME NEW c, NEW at, NEW a, NEW good, NEW next, NEW visits, NEW S, NEW K,
           NEW page, page = Page(at, a, good, next, visits)
    PROVE  /\ (good => Finds(InOrder(visits), S, c)) => Finds(page.result, S, c)
           /\ page.result.done => page.good
           /\ InOrder(visits).items \subseteq K => page.result.items \subseteq K
<1> DEFINE fine == Followed(at.redirect, a.moved) /\ good
           resent == [Empty EXCEPT !.dials = SentOn(at.redirect, a.moved)]
           read == Guarded(fine, InOrder(visits))
<1>1. page = [good |-> fine, next |-> next, result |-> Then(resent, read)]
  BY DEF Page
<1>2. resent.items = {} /\ resent.done
  BY DEF Empty
<1>3. Then(resent, read).items = read.items /\ Then(resent, read).done = read.done
  <2> HIDE DEF resent, read
  <2> QED BY <1>2 DEF Then
<1>4. page.result.items = read.items /\ page.result.done = read.done
  <2> HIDE DEF fine, read, resent
  <2> QED BY <1>1, <1>3
<1>5. fine => page.good
  <2> HIDE DEF fine
  <2> QED BY <1>1
<1>6. fine => good
  OBVIOUS
<1> HIDE DEF fine
<1>7. page.result.done => page.good
  BY <1>4, <1>5 DEF Guarded, Refused, Empty
<1>8. (good => Finds(InOrder(visits), S, c)) => Finds(page.result, S, c)
  <2>1. (good => Finds(InOrder(visits), S, c)) => Finds(read, S, c)
    BY <1>6, FindsGuarded
  <2> HIDE DEF read
  <2> QED BY <1>4, <2>1 DEF Finds
<1>9. InOrder(visits).items \subseteq K => page.result.items \subseteq K
  BY <1>4 DEF Guarded, Refused, Empty
<1> QED BY <1>7, <1>8, <1>9

-----------------------------------------------------------------------------
\* A listing goes on at every page but the last, and a list that is absent is empty.
ReadThrough(pages, numbered) ==
    /\ Paged(pages, numbered)
    /\ \A p \in DOMAIN pages :
         /\ p # Len(pages) /\ pages[p].status = "ok" =>
              IF numbered THEN Len(pages[p].items) >= PerPage ELSE pages[p].next # NoUrl
         /\ pages[p].body = "absent" => pages[p].items = <<>>
ReadThrough2(pages) == ReadThrough(pages, FALSE) /\ \A i \in Held(pages) : Taken(i) => ReadThrough(i.inner, FALSE)
ReadThrough3(pages) == ReadThrough(pages, FALSE) /\ \A i \in Held(pages) : Taken(i) => ReadThrough2(i.inner)

\* Steps through a listing that miss nothing: a page that will do is a list, and the
\* next page is asked for if there is one.
Thorough(at, pages, numbered, good, onward, visits, steps, c) ==
    /\ DOMAIN steps = DOMAIN pages
    /\ \A p \in DOMAIN pages :
         /\ DOMAIN visits[p] = DOMAIN ReadOf(pages[p])
         /\ steps[p] = Page(at, pages[p], good[p], onward[p], visits[p])
         /\ good[p] => pages[p].status = "ok"
         /\ c /\ good[p] => pages[p].body \in {"list", "absent"}
         /\ (IF numbered THEN Len(pages[p].items) < PerPage ELSE pages[p].next = NoUrl) =>
              onward[p] = NoUrl
         /\ c /\ p # Len(pages) /\ good[p] => onward[p] # NoUrl

\* A page shows finitely many items.
LEMMA VisitsFinite ==
    ASSUME NEW pages, NEW numbered, Paged(pages, numbered), NEW p \in DOMAIN pages,
           NEW rs, DOMAIN rs = DOMAIN ReadOf(pages[p])
    PROVE  Finite(rs)
<1>1. \E n \in Nat : DOMAIN rs = 1..n
  <2>1. CASE pages[p].body = "list"
    BY <2>1 DEF Paged, IsSeq, ReadOf
  <2>2. CASE pages[p].body # "list"
    <3>1. DOMAIN rs = 1..0
      BY <2>2 DEF ReadOf
    <3> QED BY <3>1
  <2> QED BY <2>1, <2>2
<1> QED BY <1>1, FiniteSeq

\* A step is the page it is made of.
LEMMA ThoroughSteps ==
    ASSUME NEW at, NEW pages, NEW numbered, NEW good, NEW onward, NEW visits, NEW steps, NEW c,
           Thorough(at, pages, numbered, good, onward, visits, steps, c), NEW p \in DOMAIN pages
    PROVE  /\ steps[p].good => good[p]
           /\ steps[p].next = onward[p]
           /\ steps[p] = Page(at, pages[p], good[p], onward[p], visits[p])
<1>1. steps[p] = Page(at, pages[p], good[p], onward[p], visits[p])
  BY DEF Thorough
<1> QED BY <1>1, PageParts

\* Such steps come to an end.
LEMMA PagedStops ==
    ASSUME NEW at, NEW pages, NEW numbered, ReadThrough(pages, numbered), NEW c,
           NEW good, NEW onward, NEW visits, NEW steps,
           Thorough(at, pages, numbered, good, onward, visits, steps, c)
    PROVE  \E p \in 1..Len(pages) : Stops(steps, p)
<1>1. Len(pages) \in Nat /\ DOMAIN pages = 1..Len(pages) /\ Len(pages) # 0
  BY DEF ReadThrough, Paged, IsSeq
<1>2. CASE MaxPages <= Len(pages)
  <2>1. MaxPages \in 1..Len(pages)
    BY <1>1, <1>2, ConnectorsAssumption
  <2> QED BY <2>1 DEF Stops
<1>3. CASE ~(MaxPages <= Len(pages))
  <2>1. Len(pages) \in DOMAIN pages
    BY <1>1
  <2>2. ~good[Len(pages)] \/ onward[Len(pages)] = NoUrl
    BY <1>3, <2>1 DEF ReadThrough, Paged, Ends, Thorough
  <2> QED BY <1>1, <2>1, <2>2, ThoroughSteps DEF Stops
<1> QED BY <1>2, <1>3

\* A listing finds what the visits of its items find.
LEMMA PagedFinds ==
    ASSUME NEW at, NEW pages, NEW numbered, ReadThrough(pages, numbered), NEW c,
           NEW good, NEW onward, NEW visits, NEW part, NEW steps,
           Thorough(at, pages, numbered, good, onward, visits, steps, c),
           \A p \in DOMAIN pages : \A i \in DOMAIN visits[p] :
             Finds(visits[p][i], part[ReadOf(pages[p])[i]], c)
    PROVE  Finds(Follow(at.url, steps), All(part, Held(pages)), c)
<1>1. /\ Len(pages) \in Nat /\ DOMAIN pages = 1..Len(pages) /\ Len(pages) # 0
      /\ DOMAIN steps = 1..Len(pages)
      /\ \A p \in DOMAIN pages : DOMAIN visits[p] = DOMAIN ReadOf(pages[p])
  BY DEF ReadThrough, Paged, IsSeq, Thorough
<1>2. \E p \in 1..Len(pages) : Stops(steps, p)
  BY PagedStops
<1> DEFINE shown(p) == {pages[p].items[i] : i \in DOMAIN pages[p].items}
           pagePart == [p \in DOMAIN pages |-> All(part, shown(p))]
<1>3. ASSUME NEW p \in DOMAIN pages, good[p] PROVE Finds(InOrder(visits[p]), pagePart[p], c)
  <2> DEFINE read == ReadOf(pages[p])
             seen == [i \in DOMAIN read |-> part[read[i]]]
             all == All(seen, DOMAIN read)
  <2>2. Finite(visits[p])
    BY <1>1, VisitsFinite DEF ReadThrough
  <2>3. Finds(InOrder(visits[p]), all, c)
    <3>1. \A i \in DOMAIN visits[p] : Finds(visits[p][i], seen[i], c)
      BY <1>1
    <3>2. DOMAIN visits[p] = DOMAIN read
      BY <1>1
    <3> HIDE DEF seen, read
    <3> QED BY <2>2, <3>1, <3>2, FindsInOrder
  <2>4. all \subseteq pagePart[p]
    <3>1. ASSUME NEW i \in DOMAIN read PROVE read[i] \in shown(p)
      <4>1. read = pages[p].items
        BY DEF ReadOf
      <4> QED BY <4>1
    <3> HIDE DEF read, shown
    <3> QED BY <3>1 DEF All
  <2>5. c => pagePart[p] \subseteq all
    <3>1. c => read = pages[p].items
      BY <1>3 DEF Thorough, ReadThrough, ReadOf
    <3> QED BY <3>1 DEF All
  <2> HIDE DEF all, pagePart
  <2> QED BY <2>3, <2>4, <2>5 DEF Finds
<1>4. All(pagePart, DOMAIN pages) = All(part, Held(pages))
  BY DEF Held, All
<1> HIDE DEF pagePart
<1>5. ASSUME NEW p \in DOMAIN pages
      PROVE  Finds(steps[p].result, pagePart[p], c) /\ (steps[p].result.done => steps[p].good)
  <2>1. steps[p] = Page(at, pages[p], good[p], onward[p], visits[p])
    BY ThoroughSteps
  <2>2. good[p] => Finds(InOrder(visits[p]), pagePart[p], c)
    BY <1>3
  <2> QED BY <2>1, <2>2, PageFinds
<1>6. Finds(Follow(at.url, steps), All(pagePart, 1..Len(pages)), c)
  <2>1. c => \A p \in 1..Len(pages) : p # Len(pages) /\ steps[p].good => steps[p].next # NoUrl
    <3>1. ASSUME NEW p \in 1..Len(pages)
          PROVE  /\ steps[p].good => good[p]
                 /\ steps[p].next = onward[p]
                 /\ c /\ p # Len(pages) /\ good[p] => onward[p] # NoUrl
      <4>1. steps[p].good => good[p]
        BY <1>1, ThoroughSteps
      <4>2. steps[p].next = onward[p]
        BY <1>1, ThoroughSteps
      <4> QED BY <1>1, <4>1, <4>2 DEF Thorough
    <3> QED BY <3>1
  <2> QED BY <1>1, <1>2, <1>5, <2>1, FollowFinds
<1> QED BY <1>1, <1>4, <1>6

\* What a listing yields, the visit of one of its items yields.
LEMMA PagedWithin ==
    ASSUME NEW at, NEW pages, NEW numbered, ReadThrough(pages, numbered), NEW c,
           NEW good, NEW onward, NEW visits, NEW steps, NEW K,
           Thorough(at, pages, numbered, good, onward, visits, steps, c),
           \A p \in DOMAIN pages : \A i \in DOMAIN visits[p] : visits[p][i].items \subseteq K
    PROVE  Follow(at.url, steps).items \subseteq K
<1> DEFINE last == LastPage(steps)
           Asked(p) == [Empty EXCEPT !.dials = {IF p = 1 THEN at.url ELSE steps[p - 1].next}]
           rs == [p \in 1..last |-> Then(Asked(p), steps[p].result)]
<1>1. Follow(at.url, steps) = Then(InOrder(rs), Guarded(steps[last].next = NoUrl, Empty))
  BY DEF Follow, LastPage
<1>2. /\ Len(pages) \in Nat /\ DOMAIN pages = 1..Len(pages) /\ DOMAIN steps = 1..Len(pages)
      /\ \A p \in DOMAIN pages : DOMAIN visits[p] = DOMAIN ReadOf(pages[p])
  BY DEF ReadThrough, Paged, IsSeq, Thorough
<1>3. last \in 1..Len(pages)
  BY <1>2, PagedStops, LastStops
<1> HIDE DEF last
<1>4. ASSUME NEW p \in 1..last PROVE rs[p].items \subseteq K
  <2>1. p \in DOMAIN pages
    BY <1>2, <1>3
  <2>2. Finite(visits[p])
    BY <1>2, <2>1, VisitsFinite DEF ReadThrough
  <2>3. InOrder(visits[p]).items \subseteq K
    <3> DEFINE vs == visits[p]
               H == UNION {vs[j].dials : j \in DOMAIN vs}
    <3>1. \A i \in DOMAIN vs : vs[i].dials \subseteq H /\ vs[i].items \subseteq K
      BY <2>1
    <3> HIDE DEF H
    <3>2. InOrder(vs).items \subseteq K
      <4> HIDE DEF vs
      <4>1. Finite(vs)
        BY <2>2 DEF vs
      <4> QED BY <3>1, <4>1, InOrderWithin
    <3> QED BY <3>2
  <2>4. steps[p].result.items \subseteq K
    <3>1. steps[p] = Page(at, pages[p], good[p], onward[p], visits[p])
      BY <2>1, ThoroughSteps
    <3> QED BY <2>3, <3>1, PageFinds
  <2>5. rs[p] = Then(Asked(p), steps[p].result)
    OBVIOUS
  <2>6. Asked(p).items = {}
    BY DEF Empty
  <2> HIDE DEF rs, Asked
  <2> QED BY <2>4, <2>5, <2>6 DEF Then
<1>5. Finite(rs) /\ DOMAIN rs = 1..last
  BY <1>3, FiniteSeq
<1> HIDE DEF rs
<1>6. InOrder(rs).items \subseteq K
  <2>1. \A i \in DOMAIN rs : rs[i].dials \subseteq UNION {rs[j].dials : j \in DOMAIN rs}
    OBVIOUS
  <2> QED BY <1>4, <1>5, <2>1, InOrderWithin
<1> QED BY <1>1, <1>6 DEF Then, Guarded, Empty, Refused

\* A listing goes on exactly if it is said to.
LEMMA GoesOnIff ==
    ASSUME NEW a
    PROVE  /\ ByToken(a) = NoUrl <=> a.next = NoUrl
           /\ \A allowed : ByLink(a, allowed) = NoUrl <=> a.next = NoUrl
           /\ ApiUrl # NoUrl
  BY DEF ByToken, ByLink, OffLimits, ApiUrl, NoUrl

\* The results of one item.
LEMMA FindsLeaf ==
    /\ \A c : Finds(Empty, {}, c)
    /\ \A S, c : Finds(Refused, S, c)
    /\ \A k, e, c : Finds(Yield(k, e), {k}, c)
  BY DEF Finds, Empty, Refused, Yield, Keys

\* What comes first finds nothing by itself.
LEMMA FindsThen ==
    ASSUME NEW a, a.items = {}, NEW r, NEW S, NEW c, Finds(r, S, c)
    PROVE  Finds(Then(a, r), S, c)
<1>1. CASE a.done
  <2>1. Then(a, r).items = r.items /\ Then(a, r).done = r.done
    BY <1>1 DEF Then
  <2> QED BY <2>1 DEF Finds
<1>2. CASE ~a.done
  <2>1. Then(a, r) = a
    BY <1>2 DEF Then
  <2> QED BY <1>2, <2>1 DEF Finds, Keys
<1> QED BY <1>1, <1>2

\* Requests, log-ins and exchanges of tokens yield nothing.
LEMMA SilentFirst ==
    /\ \A redirect, url, answer : Sends(redirect, url, answer).items = {}
    /\ \A ctx : /\ AzureLogin(ctx).items = {} /\ GcpLogin(ctx).items = {}
                 /\ DockerhubLogin(ctx).items = {} /\ AwsAccount(ctx).items = {}
    /\ \A server, item : AcrTokens(server, item, 1).items = {} /\ AcrTokens(server, item, 2).items = {}
<1>1. \A redirect, url, answer : Sends(redirect, url, answer).items = {}
  BY DEF Sends, Empty
<1>2. \A ok, r : r.items = {} => Guarded(ok, r).items = {}
  BY DEF Guarded, Refused, Empty
<1>3. \A a, b : a.items = {} /\ b.items = {} => Then(a, b).items = {}
  BY DEF Then
<1>4. Empty.items = {}
  BY DEF Empty
<1>5. \A redirect, url, answer : Exchange(redirect, url, answer).items = {}
  BY <1>1, <1>2, <1>3, <1>4 DEF Exchange
<1>6. ASSUME NEW ctx
      PROVE  /\ AzureLogin(ctx).items = {} /\ GcpLogin(ctx).items = {}
             /\ DockerhubLogin(ctx).items = {} /\ AwsAccount(ctx).items = {}
  BY <1>2, <1>3, <1>4, <1>5 DEF AzureLogin, GcpLogin, DockerhubLogin, AwsAccount
<1>7. ASSUME NEW server, NEW item, NEW n \in Nat PROVE AcrTokens(server, item, n).items = {}
  <2> DEFINE rs == [t \in 1..n |-> Exchange("keep", Registry(server).url, item.tokens[t])]
  <2>1. AcrTokens(server, item, n) = Guarded(PinLoginServer(server), InOrder(rs))
    BY DEF AcrTokens
  <2>2. Finite(rs) /\ \A t \in DOMAIN rs : rs[t].items = {}
    BY <1>5, FiniteSeq
  <2> HIDE DEF rs
  <2>3. \A e \in InOrder(rs).items : FALSE
    BY <2>2, InOrderFrom
  <2> QED BY <1>2, <2>1, <2>3
<1> QED BY <1>1, <1>6, <1>7

\* The keys of the items that count.
LEMMA KeysOf ==
    ASSUME NEW items, NEW W, W \subseteq items, NEW part,
           \A i \in items : part[i] = IF i \in W THEN {i.key} ELSE {}
    PROVE  All(part, items) = Keys(W)
<1>1. ASSUME NEW k \in All(part, items) PROVE k \in Keys(W)
  <2>1. PICK i \in items : k \in part[i]
    BY DEF All
  <2> QED BY <2>1 DEF Keys
<1>2. ASSUME NEW k \in Keys(W) PROVE k \in All(part, items)
  <2>1. PICK i \in W : k = i.key
    BY DEF Keys
  <2>2. i \in items /\ k \in part[i]
    BY <2>1
  <2> QED BY <2>2 DEF All
<1> QED BY <1>1, <1>2

\* The keys of what is below the items that count.
LEMMA KeysUnder ==
    ASSUME NEW items, NEW W, W \subseteq items, NEW part, NEW below,
           \A i \in items : part[i] = IF i \in W THEN Keys(below[i]) ELSE {}
    PROVE  All(part, items) = Keys(All(below, W))
<1>1. ASSUME NEW k \in All(part, items) PROVE k \in Keys(All(below, W))
  <2>1. PICK i \in items : k \in part[i]
    BY DEF All
  <2>2. i \in W /\ k \in Keys(below[i])
    BY <2>1
  <2>3. PICK j \in below[i] : k = j.key
    BY <2>2 DEF Keys
  <2>4. j \in All(below, W)
    BY <2>2, <2>3 DEF All
  <2> QED BY <2>3, <2>4 DEF Keys
<1>2. ASSUME NEW k \in Keys(All(below, W)) PROVE k \in All(part, items)
  <2>1. PICK j \in All(below, W) : k = j.key
    BY DEF Keys
  <2>2. PICK i \in W : j \in below[i]
    BY <2>1 DEF All
  <2>3. i \in items /\ k \in part[i]
    BY <2>1, <2>2 DEF Keys
  <2> QED BY <2>3 DEF All
<1> QED BY <1>1, <1>2

\* An Azure listing of one kind yields the key of each resource of that kind the
\* pages hold, if every page is a list, and no asset that is not a resource's
\* (azure.connector.ts: an item without an id is skipped).
LEMMA AzureListingFinds ==
    ASSUME NEW scope, NEW c, ReadThrough(scope.pages, FALSE),
           c => \A p \in DOMAIN scope.pages : scope.pages[p].body = "list"
    PROVE  /\ Finds(AzureListing(scope), Keys(InventoryOf("azure", scope)), c)
           /\ AzureListing(scope).items \subseteq UNION {AzureAsset(scope.kind, i).items : i \in Held(scope.pages)}
<1> DEFINE pages == scope.pages
           wanted == InventoryOf("azure", scope)
           good == [p \in DOMAIN pages |-> AzureGood(pages[p])]
           onward == [p \in DOMAIN pages |-> ByLink(pages[p], AzureArmUrl(pages[p].next))]
           visit(p) == [i \in DOMAIN ReadOf(pages[p]) |-> AzureAsset(scope.kind, ReadOf(pages[p])[i])]
           visits == [p \in DOMAIN pages |-> visit(p)]
           steps == [p \in DOMAIN pages |-> Page(Stripping, pages[p], AzureGood(pages[p]), ByLink(pages[p], AzureArmUrl(pages[p].next)), visit(p))]
           part == [i \in Held(pages) |-> IF i \in wanted THEN {i.key} ELSE {}]
<1>1. AzureListing(scope) = Follow(Stripping.url, steps)
  BY DEF AzureListing, Listing, ReadOf
<1>2. ASSUME NEW i \in Held(pages) PROVE Finds(AzureAsset(scope.kind, i), part[i], c)
  BY FindsLeaf DEF AzureAsset, InventoryOf
<1>3. ASSUME NEW p \in DOMAIN pages
      PROVE  /\ AzureGood(pages[p]) => pages[p].status = "ok"
             /\ c /\ AzureGood(pages[p]) => pages[p].body \in {"list", "absent"}
             /\ pages[p].next = NoUrl => ByLink(pages[p], AzureArmUrl(pages[p].next)) = NoUrl
             /\ c /\ p # Len(pages) /\ AzureGood(pages[p]) => ByLink(pages[p], AzureArmUrl(pages[p].next)) # NoUrl
  BY GoesOnIff DEF AzureGood, ReadThrough
<1>4. All(part, Held(pages)) = Keys(InventoryOf("azure", scope))
  <2>1. wanted \subseteq Held(pages)
    BY DEF InventoryOf
  <2>2. \A i \in Held(pages) : part[i] = IF i \in wanted THEN {i.key} ELSE {}
    OBVIOUS
  <2> HIDE DEF part, wanted
  <2>3. All(part, Held(pages)) = Keys(wanted)
    BY <2>1, <2>2, KeysOf
  <2> QED BY <2>3 DEF wanted
<1> HIDE DEF part
<1>5. Thorough(Stripping, pages, FALSE, good, onward, visits, steps, c)
  BY <1>3 DEF Thorough
<1>6. \A p \in DOMAIN pages : \A i \in DOMAIN visits[p] :
        Finds(visits[p][i], part[ReadOf(pages[p])[i]], c)
  BY <1>2, ReadHeld
<1> DEFINE K == UNION {AzureAsset(scope.kind, i).items : i \in Held(scope.pages)}
<1>6a. \A p \in DOMAIN pages : \A i \in DOMAIN visits[p] : visits[p][i].items \subseteq K
  <2>1. \A p \in DOMAIN pages : \A i \in DOMAIN visits[p] : ReadOf(pages[p])[i] \in Held(pages)
    BY ReadHeld
  <2> QED BY <2>1
<1> HIDE DEF good, onward, visits, steps
<1>7. Finds(Follow(Stripping.url, steps), All(part, Held(pages)), c)
  BY <1>5, <1>6, PagedFinds
<1> HIDE DEF K
<1>8. Follow(Stripping.url, steps).items \subseteq K
  BY <1>5, <1>6a, PagedWithin
<1> QED BY <1>1, <1>4, <1>7, <1>8 DEF K

\* A GCP listing of one kind, the same; an instance without a network interface is
\* no address (gcp.connector.ts).
LEMMA GcpListingFinds ==
    ASSUME NEW scope, NEW c, ReadThrough(scope.pages, FALSE),
           c => \A p \in DOMAIN scope.pages : scope.pages[p].body = "list"
    PROVE  /\ Finds(GcpListing(scope), Keys(InventoryOf("gcp", scope)), c)
           /\ GcpListing(scope).items \subseteq UNION {GcpAsset(scope.kind, i).items : i \in Held(scope.pages)}
<1> DEFINE pages == scope.pages
           wanted == InventoryOf("gcp", scope)
           good == [p \in DOMAIN pages |-> GcpGood(pages[p])]
           onward == [p \in DOMAIN pages |-> ByToken(pages[p])]
           visit(p) == [i \in DOMAIN ReadOf(pages[p]) |-> GcpAsset(scope.kind, ReadOf(pages[p])[i])]
           visits == [p \in DOMAIN pages |-> visit(p)]
           steps == [p \in DOMAIN pages |-> Page(Stripping, pages[p], GcpGood(pages[p]), ByToken(pages[p]), visit(p))]
           part == [i \in Held(pages) |-> IF i \in wanted THEN {i.key} ELSE {}]
<1>1. GcpListing(scope) = Follow(Stripping.url, steps)
  BY DEF GcpListing, Listing, ReadOf
<1>2. ASSUME NEW i \in Held(pages) PROVE Finds(GcpAsset(scope.kind, i), part[i], c)
  <2>1. i \in wanted <=> i.form # "noKey" /\ (scope.kind = "address" => i.nic)
    BY DEF InventoryOf
  <2>2. CASE i \in wanted
    <3>1. \E e : GcpAsset(scope.kind, i) = Yield(i.key, e)
      BY <2>1, <2>2 DEF GcpAsset
    <3>2. part[i] = {i.key}
      BY <2>2
    <3> QED BY <3>1, <3>2, FindsLeaf
  <2>3. CASE i \notin wanted
    <3>1. GcpAsset(scope.kind, i) = Empty
      BY <2>1, <2>3 DEF GcpAsset
    <3>2. part[i] = {}
      BY <2>3
    <3> QED BY <3>1, <3>2, FindsLeaf
  <2> QED BY <2>2, <2>3
<1>3. ASSUME NEW p \in DOMAIN pages
      PROVE  /\ GcpGood(pages[p]) => pages[p].status = "ok"
             /\ c /\ GcpGood(pages[p]) => pages[p].body \in {"list", "absent"}
             /\ pages[p].next = NoUrl => ByToken(pages[p]) = NoUrl
             /\ c /\ p # Len(pages) /\ GcpGood(pages[p]) => ByToken(pages[p]) # NoUrl
  BY GoesOnIff DEF GcpGood, ReadThrough
<1>4. All(part, Held(pages)) = Keys(InventoryOf("gcp", scope))
  <2>1. wanted \subseteq Held(pages)
    BY DEF InventoryOf
  <2>2. \A i \in Held(pages) : part[i] = IF i \in wanted THEN {i.key} ELSE {}
    OBVIOUS
  <2> HIDE DEF part, wanted
  <2>3. All(part, Held(pages)) = Keys(wanted)
    BY <2>1, <2>2, KeysOf
  <2> QED BY <2>3 DEF wanted
<1> HIDE DEF part
<1>5. Thorough(Stripping, pages, FALSE, good, onward, visits, steps, c)
  BY <1>3 DEF Thorough
<1>6. \A p \in DOMAIN pages : \A i \in DOMAIN visits[p] :
        Finds(visits[p][i], part[ReadOf(pages[p])[i]], c)
  BY <1>2, ReadHeld
<1> DEFINE K == UNION {GcpAsset(scope.kind, i).items : i \in Held(scope.pages)}
<1>6a. \A p \in DOMAIN pages : \A i \in DOMAIN visits[p] : visits[p][i].items \subseteq K
  <2>1. \A p \in DOMAIN pages : \A i \in DOMAIN visits[p] : ReadOf(pages[p])[i] \in Held(pages)
    BY ReadHeld
  <2> QED BY <2>1
<1> HIDE DEF good, onward, visits, steps
<1>7. Finds(Follow(Stripping.url, steps), All(part, Held(pages)), c)
  BY <1>5, <1>6, PagedFinds
<1> HIDE DEF K
<1>8. Follow(Stripping.url, steps).items \subseteq K
  BY <1>5, <1>6a, PagedWithin
<1> QED BY <1>1, <1>4, <1>7, <1>8 DEF K

\* An AWS listing of one kind, the same; the addresses come in one answer, which is
\* not paged (aws.connector.ts).
LEMMA AwsListingFinds ==
    ASSUME NEW ctx, NEW scope, NEW c, ReadThrough(scope.pages, FALSE),
           c => \A p \in DOMAIN scope.pages : scope.pages[p].body = "list",
           scope.kind = "address" => Len(scope.pages) = 1
    PROVE  /\ Finds(AwsListing(ctx, scope), Keys(InventoryOf("aws", scope)), c)
           /\ AwsListing(ctx, scope).items \subseteq UNION {AwsAsset(scope.kind, i).items : i \in Held(scope.pages)}
<1>0. SUFFICES ASSUME ~(scope.kind = "bucket" /\ scope.pages[1].next # NoUrl /\ scope.pages[1].status = "ok")
              PROVE  /\ Finds(AwsListing(ctx, scope), Keys(InventoryOf("aws", scope)), c)
                     /\ AwsListing(ctx, scope).items \subseteq UNION {AwsAsset(scope.kind, i).items : i \in Held(scope.pages)}
  <2>1. ASSUME scope.kind = "bucket" /\ scope.pages[1].next # NoUrl /\ scope.pages[1].status = "ok"
        PROVE  Finds(AwsListing(ctx, scope), Keys(InventoryOf("aws", scope)), c) /\ AwsListing(ctx, scope).items = {}
    <3>1. AwsListing(ctx, scope) = Then(Sends(Signed(ctx.cred).redirect, ApiUrl, scope.pages[1]), Refused)
      BY <2>1 DEF AwsListing
    <3>2. Sends(Signed(ctx.cred).redirect, ApiUrl, scope.pages[1]).items = {} /\ Refused.items = {} /\ ~Refused.done
      BY SilentFirst DEF Refused, Empty
    <3>3. AwsListing(ctx, scope).items = {} /\ ~AwsListing(ctx, scope).done
      BY <3>1, <3>2 DEF Then
    <3> QED BY <3>3 DEF Finds, Keys
  <2> QED BY <2>1
<1> DEFINE pages == scope.pages
           wanted == InventoryOf("aws", scope)
           good == [p \in DOMAIN pages |-> AwsGood(pages[p])]
           onward == [p \in DOMAIN pages |-> (IF scope.kind = "address" THEN NoUrl ELSE ByToken(pages[p]))]
           visit(p) == [i \in DOMAIN ReadOf(pages[p]) |-> AwsAsset(scope.kind, ReadOf(pages[p])[i])]
           visits == [p \in DOMAIN pages |-> visit(p)]
           steps == [p \in DOMAIN pages |-> Page(Signed(ctx.cred), pages[p], AwsGood(pages[p]), (IF scope.kind = "address" THEN NoUrl ELSE ByToken(pages[p])), visit(p))]
           part == [i \in Held(pages) |-> IF i \in wanted THEN {i.key} ELSE {}]
<1>1. AwsListing(ctx, scope) = Follow(Signed(ctx.cred).url, steps)
  BY <1>0 DEF AwsListing, Listing, ReadOf
<1>2. ASSUME NEW i \in Held(pages) PROVE Finds(AwsAsset(scope.kind, i), part[i], c)
  BY FindsLeaf DEF AwsAsset, InventoryOf
<1>3. ASSUME NEW p \in DOMAIN pages
      PROVE  /\ AwsGood(pages[p]) => pages[p].status = "ok"
             /\ c /\ AwsGood(pages[p]) => pages[p].body \in {"list", "absent"}
             /\ pages[p].next = NoUrl => (IF scope.kind = "address" THEN NoUrl ELSE ByToken(pages[p])) = NoUrl
             /\ c /\ p # Len(pages) /\ AwsGood(pages[p]) => (IF scope.kind = "address" THEN NoUrl ELSE ByToken(pages[p])) # NoUrl
  BY <1>0, GoesOnIff DEF AwsGood, ReadThrough, Paged, IsSeq
<1>4. All(part, Held(pages)) = Keys(InventoryOf("aws", scope))
  <2>1. wanted \subseteq Held(pages)
    BY DEF InventoryOf
  <2>2. \A i \in Held(pages) : part[i] = IF i \in wanted THEN {i.key} ELSE {}
    OBVIOUS
  <2> HIDE DEF part, wanted
  <2>3. All(part, Held(pages)) = Keys(wanted)
    BY <2>1, <2>2, KeysOf
  <2> QED BY <2>3 DEF wanted
<1> HIDE DEF part
<1>5. Thorough(Signed(ctx.cred), pages, FALSE, good, onward, visits, steps, c)
  BY <1>3 DEF Thorough
<1>6. \A p \in DOMAIN pages : \A i \in DOMAIN visits[p] :
        Finds(visits[p][i], part[ReadOf(pages[p])[i]], c)
  BY <1>2, ReadHeld
<1> DEFINE K == UNION {AwsAsset(scope.kind, i).items : i \in Held(scope.pages)}
<1>6a. \A p \in DOMAIN pages : \A i \in DOMAIN visits[p] : visits[p][i].items \subseteq K
  <2>1. \A p \in DOMAIN pages : \A i \in DOMAIN visits[p] : ReadOf(pages[p])[i] \in Held(pages)
    BY ReadHeld
  <2> QED BY <2>1
<1> HIDE DEF good, onward, visits, steps
<1>7. Finds(Follow(Signed(ctx.cred).url, steps), All(part, Held(pages)), c)
  BY <1>0, <1>5, <1>6, PagedFinds
<1> HIDE DEF K
<1>8. Follow(Signed(ctx.cred).url, steps).items \subseteq K
  BY <1>0, <1>5, <1>6a, PagedWithin
<1> QED BY <1>1, <1>4, <1>7, <1>8 DEF K

\* A GitHub listing yields each repository that is chosen, page number by page number
\* until a page is short (github.connector.ts).
LEMMA GitHubListingFinds ==
    ASSUME NEW listing, ReadThrough(listing, TRUE)
    PROVE  Finds(GitHubListing(listing), Keys({i \in Held(listing) : i.owned /\ i.chosen}), TRUE)
<1> DEFINE pages == listing
           wanted == {i \in Held(listing) : i.owned /\ i.chosen}
           good == [p \in DOMAIN pages |-> Exact(pages[p])]
           onward == [p \in DOMAIN pages |-> ByNumber(pages[p])]
           visit(p) == [i \in DOMAIN ReadOf(pages[p]) |-> GitHubRepo(ReadOf(pages[p])[i])]
           visits == [p \in DOMAIN pages |-> visit(p)]
           steps == [p \in DOMAIN pages |-> Page(Refusing, pages[p], Exact(pages[p]), ByNumber(pages[p]), visit(p))]
           part == [i \in Held(pages) |-> IF i \in wanted THEN {i.key} ELSE {}]
<1>1. GitHubListing(listing) = Follow(Refusing.url, steps)
  BY DEF GitHubListing, Listing, ReadOf
<1>2. ASSUME NEW i \in Held(pages) PROVE Finds(GitHubRepo(i), part[i], TRUE)
  BY FindsLeaf DEF GitHubRepo, GitHubAsset
<1>3. ASSUME NEW p \in DOMAIN pages
      PROVE  /\ Exact(pages[p]) => pages[p].status = "ok"
             /\ Exact(pages[p]) => pages[p].body \in {"list", "absent"}
             /\ Len(pages[p].items) < PerPage => ByNumber(pages[p]) = NoUrl
             /\ p # Len(pages) /\ Exact(pages[p]) => ByNumber(pages[p]) # NoUrl
  BY GoesOnIff, ConnectorsAssumption DEF Exact, ByNumber, ReadThrough, Paged, IsSeq
<1>4. All(part, Held(pages)) = Keys({i \in Held(listing) : i.owned /\ i.chosen})
  <2>1. wanted \subseteq Held(pages)
    OBVIOUS
  <2>2. \A i \in Held(pages) : part[i] = IF i \in wanted THEN {i.key} ELSE {}
    OBVIOUS
  <2> HIDE DEF part, wanted
  <2>3. All(part, Held(pages)) = Keys(wanted)
    BY <2>1, <2>2, KeysOf
  <2> QED BY <2>3 DEF wanted
<1> HIDE DEF part
<1>5. Thorough(Refusing, pages, TRUE, good, onward, visits, steps, TRUE)
  BY <1>3 DEF Thorough
<1>6. \A p \in DOMAIN pages : \A i \in DOMAIN visits[p] :
        Finds(visits[p][i], part[ReadOf(pages[p])[i]], TRUE)
  BY <1>2, ReadHeld
<1> HIDE DEF good, onward, visits, steps
<1>7. Finds(Follow(Refusing.url, steps), All(part, Held(pages)), TRUE)
  BY <1>5, <1>6, PagedFinds
<1> QED BY <1>1, <1>4, <1>7

\* A GitLab listing yields each project that is wanted, page number by page number
\* until a page is short (gitlab.connector.ts).
LEMMA GitLabListingFinds ==
    ASSUME NEW listing, ReadThrough(listing, TRUE)
    PROVE  Finds(GitLabListing(listing), Keys(Wanted(Held(listing))), TRUE)
<1> DEFINE pages == listing
           wanted == Wanted(Held(listing))
           good == [p \in DOMAIN pages |-> Exact(pages[p])]
           onward == [p \in DOMAIN pages |-> ByNumber(pages[p])]
           visit(p) == [i \in DOMAIN ReadOf(pages[p]) |-> GitLabProject(ReadOf(pages[p])[i])]
           visits == [p \in DOMAIN pages |-> visit(p)]
           steps == [p \in DOMAIN pages |-> Page(Stripping, pages[p], Exact(pages[p]), ByNumber(pages[p]), visit(p))]
           part == [i \in Held(pages) |-> IF i \in wanted THEN {i.key} ELSE {}]
<1>1. GitLabListing(listing) = Follow(Stripping.url, steps)
  BY DEF GitLabListing, Listing, ReadOf
<1>2. ASSUME NEW i \in Held(pages) PROVE Finds(GitLabProject(i), part[i], TRUE)
  BY FindsLeaf DEF GitLabProject, GitLabAsset, Guarded, Wanted
<1>3. ASSUME NEW p \in DOMAIN pages
      PROVE  /\ Exact(pages[p]) => pages[p].status = "ok"
             /\ Exact(pages[p]) => pages[p].body \in {"list", "absent"}
             /\ Len(pages[p].items) < PerPage => ByNumber(pages[p]) = NoUrl
             /\ p # Len(pages) /\ Exact(pages[p]) => ByNumber(pages[p]) # NoUrl
  BY GoesOnIff, ConnectorsAssumption DEF Exact, ByNumber, ReadThrough, Paged, IsSeq
<1>4. All(part, Held(pages)) = Keys(Wanted(Held(listing)))
  <2>1. wanted \subseteq Held(pages)
    BY DEF Wanted
  <2>2. \A i \in Held(pages) : part[i] = IF i \in wanted THEN {i.key} ELSE {}
    OBVIOUS
  <2> HIDE DEF part, wanted
  <2>3. All(part, Held(pages)) = Keys(wanted)
    BY <2>1, <2>2, KeysOf
  <2> QED BY <2>3 DEF wanted
<1> HIDE DEF part
<1>5. Thorough(Stripping, pages, TRUE, good, onward, visits, steps, TRUE)
  BY <1>3 DEF Thorough
<1>6. \A p \in DOMAIN pages : \A i \in DOMAIN visits[p] :
        Finds(visits[p][i], part[ReadOf(pages[p])[i]], TRUE)
  BY <1>2, ReadHeld
<1> HIDE DEF good, onward, visits, steps
<1>7. Finds(Follow(Stripping.url, steps), All(part, Held(pages)), TRUE)
  BY <1>5, <1>6, PagedFinds
<1> QED BY <1>1, <1>4, <1>7

\* Bitbucket yields each repository that is wanted, by the links its pages give
\* (bitbucket.connector.ts).
LEMMA BitbucketFinds ==
    ASSUME NEW ctx, NEW listing, ReadThrough(listing, FALSE)
    PROVE  Finds(Bitbucket(ctx, listing), Keys(Wanted(Held(listing))), TRUE)
<1> DEFINE pages == listing
           wanted == Wanted(Held(listing))
           good == [p \in DOMAIN pages |-> BitbucketPage(pages[p])]
           onward == [p \in DOMAIN pages |-> ByLink(pages[p], BitbucketUrl(pages[p].next))]
           Visit(i) == IF ~i.owned THEN Empty
                       ELSE IF i.form = "noKey" THEN Refused
                       ELSE IF i.chosen THEN BitbucketAsset(i) ELSE Empty
           visit(p) == [i \in DOMAIN ReadOf(pages[p]) |-> Visit(ReadOf(pages[p])[i])]
           visits == [p \in DOMAIN pages |-> visit(p)]
           steps == [p \in DOMAIN pages |-> Page(Refusing, pages[p], BitbucketPage(pages[p]), ByLink(pages[p], BitbucketUrl(pages[p].next)), visit(p))]
           part == [i \in Held(pages) |-> IF i \in wanted THEN {i.key} ELSE {}]
<1>1. Bitbucket(ctx, listing) = Guarded(BitbucketConfig(ctx.config) /\ requireBitbucketToken(ctx.cred), Follow(Refusing.url, steps))
  BY DEF Bitbucket, Listing, ReadOf
<1>2. ASSUME NEW i \in Held(pages) PROVE Finds(Visit(i), part[i], TRUE)
  BY FindsLeaf DEF BitbucketAsset, Guarded, Wanted
<1>3. ASSUME NEW p \in DOMAIN pages
      PROVE  /\ BitbucketPage(pages[p]) => pages[p].status = "ok"
             /\ BitbucketPage(pages[p]) => pages[p].body \in {"list", "absent"}
             /\ pages[p].next = NoUrl => ByLink(pages[p], BitbucketUrl(pages[p].next)) = NoUrl
             /\ p # Len(pages) /\ BitbucketPage(pages[p]) => ByLink(pages[p], BitbucketUrl(pages[p].next)) # NoUrl
  BY GoesOnIff DEF BitbucketPage, Exact, ReadThrough
<1>4. All(part, Held(pages)) = Keys(Wanted(Held(listing)))
  <2>1. wanted \subseteq Held(pages)
    BY DEF Wanted
  <2>2. \A i \in Held(pages) : part[i] = IF i \in wanted THEN {i.key} ELSE {}
    OBVIOUS
  <2> HIDE DEF part, wanted
  <2>3. All(part, Held(pages)) = Keys(wanted)
    BY <2>1, <2>2, KeysOf
  <2> QED BY <2>3 DEF wanted
<1> HIDE DEF part
<1>5. Thorough(Refusing, pages, FALSE, good, onward, visits, steps, TRUE)
  BY <1>3 DEF Thorough
<1>6. \A p \in DOMAIN pages : \A i \in DOMAIN visits[p] :
        Finds(visits[p][i], part[ReadOf(pages[p])[i]], TRUE)
  BY <1>2, ReadHeld
<1> HIDE DEF good, onward, visits, steps
<1>7. Finds(Follow(Refusing.url, steps), All(part, Held(pages)), TRUE)
  BY <1>5, <1>6, PagedFinds
<1> QED BY <1>1, <1>4, <1>7, FindsGuarded

\* GKE yields each cluster that is chosen, by the tokens its pages give.
LEMMA GkeFinds ==
    ASSUME NEW ctx, NEW listing, ReadThrough(listing, FALSE)
    PROVE  Finds(Gke(ctx, listing), Keys({i \in Held(listing) : i.form # "noKey" /\ i.chosen}), TRUE)
<1> DEFINE pages == listing
           wanted == {i \in Held(listing) : i.form # "noKey" /\ i.chosen}
           good == [p \in DOMAIN pages |-> Strict(pages[p])]
           onward == [p \in DOMAIN pages |-> ByToken(pages[p])]
           visit(p) == [i \in DOMAIN ReadOf(pages[p]) |-> GkeCluster(ReadOf(pages[p])[i])]
           visits == [p \in DOMAIN pages |-> visit(p)]
           steps == [p \in DOMAIN pages |-> Page(Stripping, pages[p], Strict(pages[p]), ByToken(pages[p]), visit(p))]
           part == [i \in Held(pages) |-> IF i \in wanted THEN {i.key} ELSE {}]
<1>1. Gke(ctx, listing) = Guarded(KubernetesConfig(ctx.config), Then(GcpLogin(ctx), Follow(Stripping.url, steps)))
  BY DEF Gke, Listing, ReadOf
<1>2. ASSUME NEW i \in Held(pages) PROVE Finds(GkeCluster(i), part[i], TRUE)
  BY FindsLeaf DEF GkeCluster
<1>3. ASSUME NEW p \in DOMAIN pages
      PROVE  /\ Strict(pages[p]) => pages[p].status = "ok"
             /\ Strict(pages[p]) => pages[p].body \in {"list", "absent"}
             /\ pages[p].next = NoUrl => ByToken(pages[p]) = NoUrl
             /\ p # Len(pages) /\ Strict(pages[p]) => ByToken(pages[p]) # NoUrl
  BY GoesOnIff DEF Strict, ReadThrough
<1>4. All(part, Held(pages)) = Keys({i \in Held(listing) : i.form # "noKey" /\ i.chosen})
  <2>1. wanted \subseteq Held(pages)
    OBVIOUS
  <2>2. \A i \in Held(pages) : part[i] = IF i \in wanted THEN {i.key} ELSE {}
    OBVIOUS
  <2> HIDE DEF part, wanted
  <2>3. All(part, Held(pages)) = Keys(wanted)
    BY <2>1, <2>2, KeysOf
  <2> QED BY <2>3 DEF wanted
<1> HIDE DEF part
<1>5. Thorough(Stripping, pages, FALSE, good, onward, visits, steps, TRUE)
  BY <1>3 DEF Thorough
<1>6. \A p \in DOMAIN pages : \A i \in DOMAIN visits[p] :
        Finds(visits[p][i], part[ReadOf(pages[p])[i]], TRUE)
  BY <1>2, ReadHeld
<1> HIDE DEF good, onward, visits, steps
<1>7. Finds(Follow(Stripping.url, steps), All(part, Held(pages)), TRUE)
  BY <1>5, <1>6, PagedFinds
<1> QED BY <1>1, <1>4, <1>7, SilentFirst, FindsThen, FindsGuarded

\* AKS yields each cluster that is chosen, by the links its pages give.
LEMMA AksFinds ==
    ASSUME NEW ctx, NEW listing, ReadThrough(listing, FALSE)
    PROVE  Finds(Aks(ctx, listing), Keys({i \in Held(listing) : i.form # "noKey" /\ i.chosen}), TRUE)
<1> DEFINE pages == listing
           wanted == {i \in Held(listing) : i.form # "noKey" /\ i.chosen}
           good == [p \in DOMAIN pages |-> Strict(pages[p])]
           onward == [p \in DOMAIN pages |-> ByLink(pages[p], AzureArmUrl(pages[p].next))]
           visit(p) == [i \in DOMAIN ReadOf(pages[p]) |-> AksCluster(ReadOf(pages[p])[i])]
           visits == [p \in DOMAIN pages |-> visit(p)]
           steps == [p \in DOMAIN pages |-> Page(Stripping, pages[p], Strict(pages[p]), ByLink(pages[p], AzureArmUrl(pages[p].next)), visit(p))]
           part == [i \in Held(pages) |-> IF i \in wanted THEN {i.key} ELSE {}]
<1>1. Aks(ctx, listing) = Guarded(KubernetesConfig(ctx.config), Then(AzureLogin(ctx), Follow(Stripping.url, steps)))
  BY DEF Aks, Listing, ReadOf
<1>2. ASSUME NEW i \in Held(pages) PROVE Finds(AksCluster(i), part[i], TRUE)
  BY FindsLeaf DEF AksCluster
<1>3. ASSUME NEW p \in DOMAIN pages
      PROVE  /\ Strict(pages[p]) => pages[p].status = "ok"
             /\ Strict(pages[p]) => pages[p].body \in {"list", "absent"}
             /\ pages[p].next = NoUrl => ByLink(pages[p], AzureArmUrl(pages[p].next)) = NoUrl
             /\ p # Len(pages) /\ Strict(pages[p]) => ByLink(pages[p], AzureArmUrl(pages[p].next)) # NoUrl
  BY GoesOnIff DEF Strict, ReadThrough
<1>4. All(part, Held(pages)) = Keys({i \in Held(listing) : i.form # "noKey" /\ i.chosen})
  <2>1. wanted \subseteq Held(pages)
    OBVIOUS
  <2>2. \A i \in Held(pages) : part[i] = IF i \in wanted THEN {i.key} ELSE {}
    OBVIOUS
  <2> HIDE DEF part, wanted
  <2>3. All(part, Held(pages)) = Keys(wanted)
    BY <2>1, <2>2, KeysOf
  <2> QED BY <2>3 DEF wanted
<1> HIDE DEF part
<1>5. Thorough(Stripping, pages, FALSE, good, onward, visits, steps, TRUE)
  BY <1>3 DEF Thorough
<1>6. \A p \in DOMAIN pages : \A i \in DOMAIN visits[p] :
        Finds(visits[p][i], part[ReadOf(pages[p])[i]], TRUE)
  BY <1>2, ReadHeld
<1> HIDE DEF good, onward, visits, steps
<1>7. Finds(Follow(Stripping.url, steps), All(part, Held(pages)), TRUE)
  BY <1>5, <1>6, PagedFinds
<1> QED BY <1>1, <1>4, <1>7, SilentFirst, FindsThen, FindsGuarded

\* The clusters of one EKS region, by the tokens its pages give; one whose
\* description fails ends the listing unfinished.
LEMMA EksClustersFinds ==
    ASSUME NEW ctx, NEW listing, ReadThrough(listing, FALSE)
    PROVE  Finds(EksClusters(ctx, listing), Keys({i \in Held(listing) : i.form # "noKey" /\ i.chosen}), TRUE)
<1> DEFINE pages == listing
           wanted == {i \in Held(listing) : i.form # "noKey" /\ i.chosen}
           good == [p \in DOMAIN pages |-> Strict(pages[p])]
           onward == [p \in DOMAIN pages |-> ByToken(pages[p])]
           visit(p) == [i \in DOMAIN ReadOf(pages[p]) |-> EksCluster(ctx, ReadOf(pages[p])[i])]
           visits == [p \in DOMAIN pages |-> visit(p)]
           steps == [p \in DOMAIN pages |-> Page(Signed(ctx.cred), pages[p], Strict(pages[p]), ByToken(pages[p]), visit(p))]
           part == [i \in Held(pages) |-> IF i \in wanted THEN {i.key} ELSE {}]
<1>1. EksClusters(ctx, listing) = Follow(Signed(ctx.cred).url, steps)
  BY DEF EksClusters, Listing, ReadOf
<1>2. ASSUME NEW i \in Held(pages) PROVE Finds(EksCluster(ctx, i), part[i], TRUE)
  <2> DEFINE a == i.inner[1]
             shown == IF i.chosen THEN Yield(i.key, Facing(a.items[1].visible = "public")) ELSE Empty
             sent == Sends(Signed(ctx.cred).redirect, ApiUrl, a)
  <2>1. CASE i.form = "noKey"
    BY <2>1, FindsLeaf DEF EksCluster
  <2>2. CASE i.form # "noKey"
    <3>1. \E ok : EksCluster(ctx, i) = Then(sent, Guarded(ok, shown))
      BY <2>2 DEF EksCluster
    <3>2. Finds(shown, part[i], TRUE)
      BY <2>2, FindsLeaf
    <3>3. sent.items = {}
      BY SilentFirst
    <3> HIDE DEF shown, part, sent
    <3>4. \A ok : Finds(Guarded(ok, shown), part[i], TRUE)
      BY <3>2, FindsGuarded
    <3> QED BY <3>1, <3>3, <3>4, FindsThen
  <2> QED BY <2>1, <2>2
<1>3. ASSUME NEW p \in DOMAIN pages
      PROVE  /\ Strict(pages[p]) => pages[p].status = "ok"
             /\ Strict(pages[p]) => pages[p].body \in {"list", "absent"}
             /\ pages[p].next = NoUrl => ByToken(pages[p]) = NoUrl
             /\ p # Len(pages) /\ Strict(pages[p]) => ByToken(pages[p]) # NoUrl
  BY GoesOnIff DEF Strict, ReadThrough
<1>4. All(part, Held(pages)) = Keys({i \in Held(listing) : i.form # "noKey" /\ i.chosen})
  <2>1. wanted \subseteq Held(pages)
    OBVIOUS
  <2>2. \A i \in Held(pages) : part[i] = IF i \in wanted THEN {i.key} ELSE {}
    OBVIOUS
  <2> HIDE DEF part, wanted
  <2>3. All(part, Held(pages)) = Keys(wanted)
    BY <2>1, <2>2, KeysOf
  <2> QED BY <2>3 DEF wanted
<1> HIDE DEF part
<1>5. Thorough(Signed(ctx.cred), pages, FALSE, good, onward, visits, steps, TRUE)
  BY <1>3 DEF Thorough
<1>6. \A p \in DOMAIN pages : \A i \in DOMAIN visits[p] :
        Finds(visits[p][i], part[ReadOf(pages[p])[i]], TRUE)
  BY <1>2, ReadHeld
<1> HIDE DEF good, onward, visits, steps
<1>7. Finds(Follow(Signed(ctx.cred).url, steps), All(part, Held(pages)), TRUE)
  BY <1>5, <1>6, PagedFinds
<1> QED BY <1>1, <1>4, <1>7

\* The certificate log yields the names under the apex (dns.enum.connector.ts).
LEMMA CrtShNamesFinds ==
    ASSUME NEW apex, ReadThrough(apex.pages, FALSE)
    PROVE  Finds(CrtShNames(apex), Keys({i \in Held(apex.pages) : i.owned}), TRUE)
<1> DEFINE pages == apex.pages
           wanted == {i \in Held(apex.pages) : i.owned}
           good == [p \in DOMAIN pages |-> Exact(pages[p])]
           onward == [p \in DOMAIN pages |-> ByLink(pages[p], CrtShUrl(pages[p].next))]
           Visit(i) == IF i.owned THEN Yield(i.key, "unknown") ELSE Empty
           visit(p) == [i \in DOMAIN ReadOf(pages[p]) |-> Visit(ReadOf(pages[p])[i])]
           visits == [p \in DOMAIN pages |-> visit(p)]
           steps == [p \in DOMAIN pages |-> Page(Refusing, pages[p], Exact(pages[p]), ByLink(pages[p], CrtShUrl(pages[p].next)), visit(p))]
           part == [i \in Held(pages) |-> IF i \in wanted THEN {i.key} ELSE {}]
<1>1. CrtShNames(apex) = Guarded(ResolveCrtSh(apex.crtsh), Follow(Refusing.url, steps))
  BY DEF CrtShNames, Listing, ReadOf
<1>2. ASSUME NEW i \in Held(pages) PROVE Finds(Visit(i), part[i], TRUE)
  BY FindsLeaf
<1>3. ASSUME NEW p \in DOMAIN pages
      PROVE  /\ Exact(pages[p]) => pages[p].status = "ok"
             /\ Exact(pages[p]) => pages[p].body \in {"list", "absent"}
             /\ pages[p].next = NoUrl => ByLink(pages[p], CrtShUrl(pages[p].next)) = NoUrl
             /\ p # Len(pages) /\ Exact(pages[p]) => ByLink(pages[p], CrtShUrl(pages[p].next)) # NoUrl
  BY GoesOnIff DEF Exact, ReadThrough
<1>4. All(part, Held(pages)) = Keys({i \in Held(apex.pages) : i.owned})
  <2>1. wanted \subseteq Held(pages)
    OBVIOUS
  <2>2. \A i \in Held(pages) : part[i] = IF i \in wanted THEN {i.key} ELSE {}
    OBVIOUS
  <2> HIDE DEF part, wanted
  <2>3. All(part, Held(pages)) = Keys(wanted)
    BY <2>1, <2>2, KeysOf
  <2> QED BY <2>3 DEF wanted
<1> HIDE DEF part
<1>5. Thorough(Refusing, pages, FALSE, good, onward, visits, steps, TRUE)
  BY <1>3 DEF Thorough
<1>6. \A p \in DOMAIN pages : \A i \in DOMAIN visits[p] :
        Finds(visits[p][i], part[ReadOf(pages[p])[i]], TRUE)
  BY <1>2, ReadHeld
<1> HIDE DEF good, onward, visits, steps
<1>7. Finds(Follow(Refusing.url, steps), All(part, Held(pages)), TRUE)
  BY <1>5, <1>6, PagedFinds
<1> QED BY <1>1, <1>4, <1>7, FindsGuarded

\* The images of one GHCR package, if no page of them is empty and yet has a link
\* onward.
LEMMA GhcrImagesFinds ==
    ASSUME NEW repo, Taken(repo), ReadThrough(repo.inner, FALSE), NEW c, c => ~Gapped(repo.inner)
    PROVE  Finds(GhcrImages(repo), Keys(ImagesOf(repo)), c)
<1> DEFINE pages == repo.inner
           wanted == ImagesOf(repo)
           good == [p \in DOMAIN pages |-> Exact(pages[p])]
           onward == [p \in DOMAIN pages |-> GhcrNext(pages[p])]
           visit(p) == [i \in DOMAIN ReadOf(pages[p]) |-> GhcrImage(repo, ReadOf(pages[p])[i])]
           visits == [p \in DOMAIN pages |-> visit(p)]
           steps == [p \in DOMAIN pages |-> Page(Stripping, pages[p], Exact(pages[p]), GhcrNext(pages[p]), visit(p))]
           part == [i \in Held(pages) |-> IF i \in wanted THEN {i.key} ELSE {}]
<1>1. GhcrImages(repo) = Follow(Stripping.url, steps)
  BY DEF GhcrImages, Listing, ReadOf
<1>2. ASSUME NEW i \in Held(pages) PROVE Finds(GhcrImage(repo, i), part[i], c)
  BY FindsLeaf DEF GhcrImage, ImageOf, ImagesOf
<1>3. ASSUME NEW p \in DOMAIN pages
      PROVE  /\ Exact(pages[p]) => pages[p].status = "ok"
             /\ c /\ Exact(pages[p]) => pages[p].body \in {"list", "absent"}
             /\ pages[p].next = NoUrl => GhcrNext(pages[p]) = NoUrl
             /\ c /\ p # Len(pages) /\ Exact(pages[p]) => GhcrNext(pages[p]) # NoUrl
  BY GoesOnIff DEF Exact, GhcrNext, ReadThrough, Gapped
<1>4. All(part, Held(pages)) = Keys(ImagesOf(repo))
  <2>1. wanted \subseteq Held(pages)
    BY DEF ImagesOf
  <2>2. \A i \in Held(pages) : part[i] = IF i \in wanted THEN {i.key} ELSE {}
    OBVIOUS
  <2> HIDE DEF part, wanted
  <2>3. All(part, Held(pages)) = Keys(wanted)
    BY <2>1, <2>2, KeysOf
  <2> QED BY <2>3 DEF wanted
<1> HIDE DEF part
<1>5. Thorough(Stripping, pages, FALSE, good, onward, visits, steps, c)
  BY <1>3 DEF Thorough
<1>6. \A p \in DOMAIN pages : \A i \in DOMAIN visits[p] :
        Finds(visits[p][i], part[ReadOf(pages[p])[i]], c)
  BY <1>2, ReadHeld
<1> HIDE DEF good, onward, visits, steps
<1>7. Finds(Follow(Stripping.url, steps), All(part, Held(pages)), c)
  BY <1>5, <1>6, PagedFinds
<1> QED BY <1>1, <1>4, <1>7

\* The images of one ECR repository.
LEMMA EcrImagesFinds ==
    ASSUME NEW ctx, NEW repo, Taken(repo), ReadThrough(repo.inner, FALSE)
    PROVE  Finds(EcrImages(ctx, repo), Keys(ImagesOf(repo)), TRUE)
<1> DEFINE pages == repo.inner
           wanted == ImagesOf(repo)
           good == [p \in DOMAIN pages |-> Strict(pages[p])]
           onward == [p \in DOMAIN pages |-> ByToken(pages[p])]
           visit(p) == [i \in DOMAIN ReadOf(pages[p]) |-> EcrImage(ReadOf(pages[p])[i])]
           visits == [p \in DOMAIN pages |-> visit(p)]
           steps == [p \in DOMAIN pages |-> Page(Signed(ctx.cred), pages[p], Strict(pages[p]), ByToken(pages[p]), visit(p))]
           part == [i \in Held(pages) |-> IF i \in wanted THEN {i.key} ELSE {}]
<1>1. EcrImages(ctx, repo) = Follow(Signed(ctx.cred).url, steps)
  BY DEF EcrImages, Listing, ReadOf
<1>2. ASSUME NEW i \in Held(pages) PROVE Finds(EcrImage(i), part[i], TRUE)
  BY FindsLeaf DEF EcrImage, ImageOf, ImagesOf
<1>3. ASSUME NEW p \in DOMAIN pages
      PROVE  /\ Strict(pages[p]) => pages[p].status = "ok"
             /\ Strict(pages[p]) => pages[p].body \in {"list", "absent"}
             /\ pages[p].next = NoUrl => ByToken(pages[p]) = NoUrl
             /\ p # Len(pages) /\ Strict(pages[p]) => ByToken(pages[p]) # NoUrl
  BY GoesOnIff DEF Strict, ReadThrough
<1>4. All(part, Held(pages)) = Keys(ImagesOf(repo))
  <2>1. wanted \subseteq Held(pages)
    BY DEF ImagesOf
  <2>2. \A i \in Held(pages) : part[i] = IF i \in wanted THEN {i.key} ELSE {}
    OBVIOUS
  <2> HIDE DEF part, wanted
  <2>3. All(part, Held(pages)) = Keys(wanted)
    BY <2>1, <2>2, KeysOf
  <2> QED BY <2>3 DEF wanted
<1> HIDE DEF part
<1>5. Thorough(Signed(ctx.cred), pages, FALSE, good, onward, visits, steps, TRUE)
  BY <1>3 DEF Thorough
<1>6. \A p \in DOMAIN pages : \A i \in DOMAIN visits[p] :
        Finds(visits[p][i], part[ReadOf(pages[p])[i]], TRUE)
  BY <1>2, ReadHeld
<1> HIDE DEF good, onward, visits, steps
<1>7. Finds(Follow(Signed(ctx.cred).url, steps), All(part, Held(pages)), TRUE)
  BY <1>5, <1>6, PagedFinds
<1> QED BY <1>1, <1>4, <1>7

\* The images of one Artifact Registry repository.
LEMMA GcrImagesFinds ==
    ASSUME NEW repo, Taken(repo), ReadThrough(repo.inner, FALSE)
    PROVE  Finds(GcrImages(repo), Keys(ImagesOf(repo)), TRUE)
<1> DEFINE pages == repo.inner
           wanted == ImagesOf(repo)
           good == [p \in DOMAIN pages |-> Strict(pages[p])]
           onward == [p \in DOMAIN pages |-> ByToken(pages[p])]
           visit(p) == [i \in DOMAIN ReadOf(pages[p]) |-> GcrImage(ReadOf(pages[p])[i])]
           visits == [p \in DOMAIN pages |-> visit(p)]
           steps == [p \in DOMAIN pages |-> Page(Stripping, pages[p], Strict(pages[p]), ByToken(pages[p]), visit(p))]
           part == [i \in Held(pages) |-> IF i \in wanted THEN {i.key} ELSE {}]
<1>1. GcrImages(repo) = Follow(Stripping.url, steps)
  BY DEF GcrImages, Listing, ReadOf
<1>2. ASSUME NEW i \in Held(pages) PROVE Finds(GcrImage(i), part[i], TRUE)
  BY FindsLeaf DEF GcrImage, ImageOf, ImagesOf
<1>3. ASSUME NEW p \in DOMAIN pages
      PROVE  /\ Strict(pages[p]) => pages[p].status = "ok"
             /\ Strict(pages[p]) => pages[p].body \in {"list", "absent"}
             /\ pages[p].next = NoUrl => ByToken(pages[p]) = NoUrl
             /\ p # Len(pages) /\ Strict(pages[p]) => ByToken(pages[p]) # NoUrl
  BY GoesOnIff DEF Strict, ReadThrough
<1>4. All(part, Held(pages)) = Keys(ImagesOf(repo))
  <2>1. wanted \subseteq Held(pages)
    BY DEF ImagesOf
  <2>2. \A i \in Held(pages) : part[i] = IF i \in wanted THEN {i.key} ELSE {}
    OBVIOUS
  <2> HIDE DEF part, wanted
  <2>3. All(part, Held(pages)) = Keys(wanted)
    BY <2>1, <2>2, KeysOf
  <2> QED BY <2>3 DEF wanted
<1> HIDE DEF part
<1>5. Thorough(Stripping, pages, FALSE, good, onward, visits, steps, TRUE)
  BY <1>3 DEF Thorough
<1>6. \A p \in DOMAIN pages : \A i \in DOMAIN visits[p] :
        Finds(visits[p][i], part[ReadOf(pages[p])[i]], TRUE)
  BY <1>2, ReadHeld
<1> HIDE DEF good, onward, visits, steps
<1>7. Finds(Follow(Stripping.url, steps), All(part, Held(pages)), TRUE)
  BY <1>5, <1>6, PagedFinds
<1> QED BY <1>1, <1>4, <1>7

\* The images of one ACR repository, if a token for it was given.
LEMMA AcrImagesFinds ==
    ASSUME NEW server, NEW repo, Taken(repo), ReadThrough(repo.inner, FALSE)
    PROVE  Finds(AcrImages(server, repo), Keys(ImagesOf(repo)), TRUE)
<1> DEFINE pages == repo.inner
           wanted == ImagesOf(repo)
           good == [p \in DOMAIN pages |-> Strict(pages[p])]
           onward == [p \in DOMAIN pages |-> AcrNext(pages[p])]
           visit(p) == [i \in DOMAIN ReadOf(pages[p]) |-> AcrImage(ReadOf(pages[p])[i])]
           visits == [p \in DOMAIN pages |-> visit(p)]
           steps == [p \in DOMAIN pages |-> Page(Registry(server), pages[p], Strict(pages[p]), AcrNext(pages[p]), visit(p))]
           part == [i \in Held(pages) |-> IF i \in wanted THEN {i.key} ELSE {}]
<1>1. AcrImages(server, repo) = Then(AcrTokens(server, repo, 1), Follow(Registry(server).url, steps))
  BY DEF AcrImages, Listing, ReadOf
<1>2. ASSUME NEW i \in Held(pages) PROVE Finds(AcrImage(i), part[i], TRUE)
  BY FindsLeaf DEF AcrImage, ImageOf, ImagesOf
<1>3. ASSUME NEW p \in DOMAIN pages
      PROVE  /\ Strict(pages[p]) => pages[p].status = "ok"
             /\ Strict(pages[p]) => pages[p].body \in {"list", "absent"}
             /\ pages[p].next = NoUrl => AcrNext(pages[p]) = NoUrl
             /\ p # Len(pages) /\ Strict(pages[p]) => AcrNext(pages[p]) # NoUrl
  BY GoesOnIff DEF Strict, AcrNext, ReadThrough
<1>4. All(part, Held(pages)) = Keys(ImagesOf(repo))
  <2>1. wanted \subseteq Held(pages)
    BY DEF ImagesOf
  <2>2. \A i \in Held(pages) : part[i] = IF i \in wanted THEN {i.key} ELSE {}
    OBVIOUS
  <2> HIDE DEF part, wanted
  <2>3. All(part, Held(pages)) = Keys(wanted)
    BY <2>1, <2>2, KeysOf
  <2> QED BY <2>3 DEF wanted
<1> HIDE DEF part
<1>5. Thorough(Registry(server), pages, FALSE, good, onward, visits, steps, TRUE)
  BY <1>3 DEF Thorough
<1>6. \A p \in DOMAIN pages : \A i \in DOMAIN visits[p] :
        Finds(visits[p][i], part[ReadOf(pages[p])[i]], TRUE)
  BY <1>2, ReadHeld
<1> HIDE DEF good, onward, visits, steps
<1>7. Finds(Follow(Registry(server).url, steps), All(part, Held(pages)), TRUE)
  BY <1>5, <1>6, PagedFinds
<1> QED BY <1>1, <1>4, <1>7, SilentFirst, FindsThen

\* The images of one Docker Hub repository, none of them unless its tags end.
LEMMA DockerhubImagesFinds ==
    ASSUME NEW repo, Taken(repo), ReadThrough(repo.inner, FALSE)
    PROVE  Finds(DockerhubImages(repo), Keys(ImagesOf(repo)), TRUE)
<1> DEFINE pages == repo.inner
           wanted == ImagesOf(repo)
           good == [p \in DOMAIN pages |-> Strict(pages[p])]
           onward == [p \in DOMAIN pages |-> DockerhubNext(pages[p])]
           visit(p) == [i \in DOMAIN ReadOf(pages[p]) |-> DockerhubImage(repo, ReadOf(pages[p])[i])]
           visits == [p \in DOMAIN pages |-> visit(p)]
           steps == [p \in DOMAIN pages |-> Page(Refusing, pages[p], Strict(pages[p]), DockerhubNext(pages[p]), visit(p))]
           part == [i \in Held(pages) |-> IF i \in wanted THEN {i.key} ELSE {}]
<1>1. DockerhubImages(repo) = Whole(Follow(Refusing.url, steps))
  BY DEF DockerhubImages, Listing, ReadOf
<1>2. ASSUME NEW i \in Held(pages) PROVE Finds(DockerhubImage(repo, i), part[i], TRUE)
  BY FindsLeaf DEF DockerhubImage, ImageOf, ImagesOf
<1>3. ASSUME NEW p \in DOMAIN pages
      PROVE  /\ Strict(pages[p]) => pages[p].status = "ok"
             /\ Strict(pages[p]) => pages[p].body \in {"list", "absent"}
             /\ pages[p].next = NoUrl => DockerhubNext(pages[p]) = NoUrl
             /\ p # Len(pages) /\ Strict(pages[p]) => DockerhubNext(pages[p]) # NoUrl
  BY GoesOnIff DEF Strict, DockerhubNext, ReadThrough
<1>4. All(part, Held(pages)) = Keys(ImagesOf(repo))
  <2>1. wanted \subseteq Held(pages)
    BY DEF ImagesOf
  <2>2. \A i \in Held(pages) : part[i] = IF i \in wanted THEN {i.key} ELSE {}
    OBVIOUS
  <2> HIDE DEF part, wanted
  <2>3. All(part, Held(pages)) = Keys(wanted)
    BY <2>1, <2>2, KeysOf
  <2> QED BY <2>3 DEF wanted
<1> HIDE DEF part
<1>5. Thorough(Refusing, pages, FALSE, good, onward, visits, steps, TRUE)
  BY <1>3 DEF Thorough
<1>6. \A p \in DOMAIN pages : \A i \in DOMAIN visits[p] :
        Finds(visits[p][i], part[ReadOf(pages[p])[i]], TRUE)
  BY <1>2, ReadHeld
<1> HIDE DEF good, onward, visits, steps
<1>7. Finds(Follow(Refusing.url, steps), All(part, Held(pages)), TRUE)
  BY <1>5, <1>6, PagedFinds
<1> QED BY <1>1, <1>4, <1>7, FindsWhole

\* The images of one Quay repository, none of them unless its tags end.
LEMMA QuayImagesFinds ==
    ASSUME NEW repo, Taken(repo), ReadThrough(repo.inner, FALSE)
    PROVE  Finds(QuayImages(repo), Keys(ImagesOf(repo)), TRUE)
<1> DEFINE pages == repo.inner
           wanted == ImagesOf(repo)
           good == [p \in DOMAIN pages |-> Strict(pages[p])]
           onward == [p \in DOMAIN pages |-> ByToken(pages[p])]
           visit(p) == [i \in DOMAIN ReadOf(pages[p]) |-> QuayImage(repo, ReadOf(pages[p])[i])]
           visits == [p \in DOMAIN pages |-> visit(p)]
           steps == [p \in DOMAIN pages |-> Page(Stripping, pages[p], Strict(pages[p]), ByToken(pages[p]), visit(p))]
           part == [i \in Held(pages) |-> IF i \in wanted THEN {i.key} ELSE {}]
<1>1. QuayImages(repo) = Whole(Follow(Stripping.url, steps))
  BY DEF QuayImages, Listing, ReadOf
<1>2. ASSUME NEW i \in Held(pages) PROVE Finds(QuayImage(repo, i), part[i], TRUE)
  BY FindsLeaf DEF QuayImage, ImageOf, ImagesOf
<1>3. ASSUME NEW p \in DOMAIN pages
      PROVE  /\ Strict(pages[p]) => pages[p].status = "ok"
             /\ Strict(pages[p]) => pages[p].body \in {"list", "absent"}
             /\ pages[p].next = NoUrl => ByToken(pages[p]) = NoUrl
             /\ p # Len(pages) /\ Strict(pages[p]) => ByToken(pages[p]) # NoUrl
  BY GoesOnIff DEF Strict, ReadThrough
<1>4. All(part, Held(pages)) = Keys(ImagesOf(repo))
  <2>1. wanted \subseteq Held(pages)
    BY DEF ImagesOf
  <2>2. \A i \in Held(pages) : part[i] = IF i \in wanted THEN {i.key} ELSE {}
    OBVIOUS
  <2> HIDE DEF part, wanted
  <2>3. All(part, Held(pages)) = Keys(wanted)
    BY <2>1, <2>2, KeysOf
  <2> QED BY <2>3 DEF wanted
<1> HIDE DEF part
<1>5. Thorough(Stripping, pages, FALSE, good, onward, visits, steps, TRUE)
  BY <1>3 DEF Thorough
<1>6. \A p \in DOMAIN pages : \A i \in DOMAIN visits[p] :
        Finds(visits[p][i], part[ReadOf(pages[p])[i]], TRUE)
  BY <1>2, ReadHeld
<1> HIDE DEF good, onward, visits, steps
<1>7. Finds(Follow(Stripping.url, steps), All(part, Held(pages)), TRUE)
  BY <1>5, <1>6, PagedFinds
<1> QED BY <1>1, <1>4, <1>7, FindsWhole

\* GHCR: the images of each package it lists that is wanted.
LEMMA GhcrFinds ==
    ASSUME NEW ctx, NEW listing, ReadThrough2(listing), NEW c,
           c => ~Gapped(listing) /\ \A i \in Wanted(Held(listing)) : ~Gapped(i.inner)
    PROVE  Finds(Ghcr(ctx, listing), Keys(UNION {ImagesOf(i) : i \in Wanted(Held(listing))}), c)
<1>00. ReadThrough(listing, FALSE)
  BY DEF ReadThrough2
<1> DEFINE pages == listing
           wanted == Wanted(Held(listing))
           good == [p \in DOMAIN pages |-> Exact(pages[p])]
           onward == [p \in DOMAIN pages |-> GhcrNext(pages[p])]
           visit(p) == [i \in DOMAIN ReadOf(pages[p]) |-> GhcrImages(ReadOf(pages[p])[i])]
           visits == [p \in DOMAIN pages |-> visit(p)]
           steps == [p \in DOMAIN pages |-> Page(Stripping, pages[p], Exact(pages[p]), GhcrNext(pages[p]), visit(p))]
           part == [i \in Held(pages) |-> IF i \in wanted THEN Keys(ImagesOf(i)) ELSE {}]
<1>1. Ghcr(ctx, listing) = Guarded(GhcrConfig(ctx.config) /\ requireGithubToken(ctx.cred), Follow(Stripping.url, steps))
  BY DEF Ghcr, Listing, ReadOf
<1>2. ASSUME NEW i \in Held(pages) PROVE Finds(GhcrImages(i), part[i], c)
  <2>1. i \in wanted => Taken(i)
    BY DEF Wanted, Taken
  <2>2. i \notin wanted => GhcrImages(i) = Empty
    BY DEF GhcrImages, Wanted, Taken
  <2> QED BY <2>1, <2>2, GhcrImagesFinds, FindsSimple DEF ReadThrough2
<1>3. ASSUME NEW p \in DOMAIN pages
      PROVE  /\ Exact(pages[p]) => pages[p].status = "ok"
             /\ c /\ Exact(pages[p]) => pages[p].body \in {"list", "absent"}
             /\ pages[p].next = NoUrl => GhcrNext(pages[p]) = NoUrl
             /\ c /\ p # Len(pages) /\ Exact(pages[p]) => GhcrNext(pages[p]) # NoUrl
  BY <1>00, GoesOnIff DEF Exact, GhcrNext, ReadThrough, Gapped
<1>4. All(part, Held(pages)) = Keys(UNION {ImagesOf(i) : i \in Wanted(Held(listing))})
  <2>1. wanted \subseteq Held(pages)
    BY DEF Wanted
  <2> DEFINE below == [i \in Held(pages) |-> ImagesOf(i)]
  <2>2. \A i \in Held(pages) : part[i] = IF i \in wanted THEN Keys(below[i]) ELSE {}
    OBVIOUS
  <2>3. All(below, wanted) = UNION {ImagesOf(i) : i \in wanted}
    BY <2>1 DEF All
  <2> HIDE DEF part, wanted, below
  <2>4. All(part, Held(pages)) = Keys(All(below, wanted))
    BY <2>1, <2>2, KeysUnder
  <2> QED BY <2>3, <2>4 DEF wanted
<1> HIDE DEF part
<1>5. Thorough(Stripping, pages, FALSE, good, onward, visits, steps, c)
  BY <1>3 DEF Thorough
<1>6. \A p \in DOMAIN pages : \A i \in DOMAIN visits[p] :
        Finds(visits[p][i], part[ReadOf(pages[p])[i]], c)
  BY <1>2, ReadHeld
<1> HIDE DEF good, onward, visits, steps
<1>7. Finds(Follow(Stripping.url, steps), All(part, Held(pages)), c)
  BY <1>00, <1>5, <1>6, PagedFinds
<1> QED BY <1>1, <1>4, <1>7, FindsGuarded

\* Docker Hub: the images of each repository it lists that is wanted.
LEMMA DockerhubFinds ==
    ASSUME NEW ctx, NEW listing, ReadThrough2(listing)
    PROVE  Finds(Dockerhub(ctx, listing), Keys(UNION {ImagesOf(i) : i \in Wanted(Held(listing))}), TRUE)
<1>00. ReadThrough(listing, FALSE)
  BY DEF ReadThrough2
<1> DEFINE pages == listing
           wanted == Wanted(Held(listing))
           good == [p \in DOMAIN pages |-> Strict(pages[p])]
           onward == [p \in DOMAIN pages |-> DockerhubNext(pages[p])]
           visit(p) == [i \in DOMAIN ReadOf(pages[p]) |-> DockerhubImages(ReadOf(pages[p])[i])]
           visits == [p \in DOMAIN pages |-> visit(p)]
           steps == [p \in DOMAIN pages |-> Page(Refusing, pages[p], Strict(pages[p]), DockerhubNext(pages[p]), visit(p))]
           part == [i \in Held(pages) |-> IF i \in wanted THEN Keys(ImagesOf(i)) ELSE {}]
<1>1. Dockerhub(ctx, listing) = Guarded(DockerhubConfig(ctx.config), Then(DockerhubLogin(ctx), Follow(Refusing.url, steps)))
  BY DEF Dockerhub, Listing, ReadOf
<1>2. ASSUME NEW i \in Held(pages) PROVE Finds(DockerhubImages(i), part[i], TRUE)
  <2>1. i \in wanted => Taken(i)
    BY DEF Wanted, Taken
  <2>2. i \notin wanted => DockerhubImages(i) = Empty
    BY DEF DockerhubImages, Wanted, Taken
  <2> QED BY <2>1, <2>2, DockerhubImagesFinds, FindsSimple DEF ReadThrough2
<1>3. ASSUME NEW p \in DOMAIN pages
      PROVE  /\ Strict(pages[p]) => pages[p].status = "ok"
             /\ Strict(pages[p]) => pages[p].body \in {"list", "absent"}
             /\ pages[p].next = NoUrl => DockerhubNext(pages[p]) = NoUrl
             /\ p # Len(pages) /\ Strict(pages[p]) => DockerhubNext(pages[p]) # NoUrl
  BY <1>00, GoesOnIff DEF Strict, DockerhubNext, ReadThrough
<1>4. All(part, Held(pages)) = Keys(UNION {ImagesOf(i) : i \in Wanted(Held(listing))})
  <2>1. wanted \subseteq Held(pages)
    BY DEF Wanted
  <2> DEFINE below == [i \in Held(pages) |-> ImagesOf(i)]
  <2>2. \A i \in Held(pages) : part[i] = IF i \in wanted THEN Keys(below[i]) ELSE {}
    OBVIOUS
  <2>3. All(below, wanted) = UNION {ImagesOf(i) : i \in wanted}
    BY <2>1 DEF All
  <2> HIDE DEF part, wanted, below
  <2>4. All(part, Held(pages)) = Keys(All(below, wanted))
    BY <2>1, <2>2, KeysUnder
  <2> QED BY <2>3, <2>4 DEF wanted
<1> HIDE DEF part
<1>5. Thorough(Refusing, pages, FALSE, good, onward, visits, steps, TRUE)
  BY <1>3 DEF Thorough
<1>6. \A p \in DOMAIN pages : \A i \in DOMAIN visits[p] :
        Finds(visits[p][i], part[ReadOf(pages[p])[i]], TRUE)
  BY <1>2, ReadHeld
<1> HIDE DEF good, onward, visits, steps
<1>7. Finds(Follow(Refusing.url, steps), All(part, Held(pages)), TRUE)
  BY <1>00, <1>5, <1>6, PagedFinds
<1> QED BY <1>1, <1>4, <1>7, SilentFirst, FindsThen, FindsGuarded

\* Quay: the images of each repository it lists that is wanted.
LEMMA QuayFinds ==
    ASSUME NEW ctx, NEW listing, ReadThrough2(listing)
    PROVE  Finds(Quay(ctx, listing), Keys(UNION {ImagesOf(i) : i \in Wanted(Held(listing))}), TRUE)
<1>00. ReadThrough(listing, FALSE)
  BY DEF ReadThrough2
<1> DEFINE pages == listing
           wanted == Wanted(Held(listing))
           good == [p \in DOMAIN pages |-> Strict(pages[p])]
           onward == [p \in DOMAIN pages |-> ByToken(pages[p])]
           visit(p) == [i \in DOMAIN ReadOf(pages[p]) |-> QuayImages(ReadOf(pages[p])[i])]
           visits == [p \in DOMAIN pages |-> visit(p)]
           steps == [p \in DOMAIN pages |-> Page(Stripping, pages[p], Strict(pages[p]), ByToken(pages[p]), visit(p))]
           part == [i \in Held(pages) |-> IF i \in wanted THEN Keys(ImagesOf(i)) ELSE {}]
<1>1. Quay(ctx, listing) = Guarded(QuayConfig(ctx.config) /\ requireQuayToken(ctx.cred), Follow(Stripping.url, steps))
  BY DEF Quay, Listing, ReadOf
<1>2. ASSUME NEW i \in Held(pages) PROVE Finds(QuayImages(i), part[i], TRUE)
  <2>1. i \in wanted => Taken(i)
    BY DEF Wanted, Taken
  <2>2. i \notin wanted => QuayImages(i) = Empty
    BY DEF QuayImages, Wanted, Taken
  <2> QED BY <2>1, <2>2, QuayImagesFinds, FindsSimple DEF ReadThrough2
<1>3. ASSUME NEW p \in DOMAIN pages
      PROVE  /\ Strict(pages[p]) => pages[p].status = "ok"
             /\ Strict(pages[p]) => pages[p].body \in {"list", "absent"}
             /\ pages[p].next = NoUrl => ByToken(pages[p]) = NoUrl
             /\ p # Len(pages) /\ Strict(pages[p]) => ByToken(pages[p]) # NoUrl
  BY <1>00, GoesOnIff DEF Strict, ReadThrough
<1>4. All(part, Held(pages)) = Keys(UNION {ImagesOf(i) : i \in Wanted(Held(listing))})
  <2>1. wanted \subseteq Held(pages)
    BY DEF Wanted
  <2> DEFINE below == [i \in Held(pages) |-> ImagesOf(i)]
  <2>2. \A i \in Held(pages) : part[i] = IF i \in wanted THEN Keys(below[i]) ELSE {}
    OBVIOUS
  <2>3. All(below, wanted) = UNION {ImagesOf(i) : i \in wanted}
    BY <2>1 DEF All
  <2> HIDE DEF part, wanted, below
  <2>4. All(part, Held(pages)) = Keys(All(below, wanted))
    BY <2>1, <2>2, KeysUnder
  <2> QED BY <2>3, <2>4 DEF wanted
<1> HIDE DEF part
<1>5. Thorough(Stripping, pages, FALSE, good, onward, visits, steps, TRUE)
  BY <1>3 DEF Thorough
<1>6. \A p \in DOMAIN pages : \A i \in DOMAIN visits[p] :
        Finds(visits[p][i], part[ReadOf(pages[p])[i]], TRUE)
  BY <1>2, ReadHeld
<1> HIDE DEF good, onward, visits, steps
<1>7. Finds(Follow(Stripping.url, steps), All(part, Held(pages)), TRUE)
  BY <1>00, <1>5, <1>6, PagedFinds
<1> QED BY <1>1, <1>4, <1>7, FindsGuarded

\* The images of each repository of one ECR region.
LEMMA EcrRepositoriesFinds ==
    ASSUME NEW ctx, NEW listing, ReadThrough2(listing)
    PROVE  Finds(EcrRepositories(ctx, listing), Keys(UNION {ImagesOf(i) : i \in Wanted(Held(listing))}), TRUE)
<1>00. ReadThrough(listing, FALSE)
  BY DEF ReadThrough2
<1> DEFINE pages == listing
           wanted == Wanted(Held(listing))
           good == [p \in DOMAIN pages |-> Strict(pages[p])]
           onward == [p \in DOMAIN pages |-> ByToken(pages[p])]
           visit(p) == [i \in DOMAIN ReadOf(pages[p]) |-> EcrImages(ctx, ReadOf(pages[p])[i])]
           visits == [p \in DOMAIN pages |-> visit(p)]
           steps == [p \in DOMAIN pages |-> Page(Signed(ctx.cred), pages[p], Strict(pages[p]), ByToken(pages[p]), visit(p))]
           part == [i \in Held(pages) |-> IF i \in wanted THEN Keys(ImagesOf(i)) ELSE {}]
<1>1. EcrRepositories(ctx, listing) = Follow(Signed(ctx.cred).url, steps)
  BY DEF EcrRepositories, Listing, ReadOf
<1>2. ASSUME NEW i \in Held(pages) PROVE Finds(EcrImages(ctx, i), part[i], TRUE)
  <2>1. i \in wanted => Taken(i)
    BY DEF Wanted, Taken
  <2>2. i \notin wanted => EcrImages(ctx, i) = Empty
    BY DEF EcrImages, Wanted, Taken
  <2> QED BY <2>1, <2>2, EcrImagesFinds, FindsSimple DEF ReadThrough2
<1>3. ASSUME NEW p \in DOMAIN pages
      PROVE  /\ Strict(pages[p]) => pages[p].status = "ok"
             /\ Strict(pages[p]) => pages[p].body \in {"list", "absent"}
             /\ pages[p].next = NoUrl => ByToken(pages[p]) = NoUrl
             /\ p # Len(pages) /\ Strict(pages[p]) => ByToken(pages[p]) # NoUrl
  BY <1>00, GoesOnIff DEF Strict, ReadThrough
<1>4. All(part, Held(pages)) = Keys(UNION {ImagesOf(i) : i \in Wanted(Held(listing))})
  <2>1. wanted \subseteq Held(pages)
    BY DEF Wanted
  <2> DEFINE below == [i \in Held(pages) |-> ImagesOf(i)]
  <2>2. \A i \in Held(pages) : part[i] = IF i \in wanted THEN Keys(below[i]) ELSE {}
    OBVIOUS
  <2>3. All(below, wanted) = UNION {ImagesOf(i) : i \in wanted}
    BY <2>1 DEF All
  <2> HIDE DEF part, wanted, below
  <2>4. All(part, Held(pages)) = Keys(All(below, wanted))
    BY <2>1, <2>2, KeysUnder
  <2> QED BY <2>3, <2>4 DEF wanted
<1> HIDE DEF part
<1>5. Thorough(Signed(ctx.cred), pages, FALSE, good, onward, visits, steps, TRUE)
  BY <1>3 DEF Thorough
<1>6. \A p \in DOMAIN pages : \A i \in DOMAIN visits[p] :
        Finds(visits[p][i], part[ReadOf(pages[p])[i]], TRUE)
  BY <1>2, ReadHeld
<1> HIDE DEF good, onward, visits, steps
<1>7. Finds(Follow(Signed(ctx.cred).url, steps), All(part, Held(pages)), TRUE)
  BY <1>00, <1>5, <1>6, PagedFinds
<1> QED BY <1>1, <1>4, <1>7

\* The images of each repository of one Artifact Registry location.
LEMMA GcrRepositoriesFinds ==
    ASSUME NEW listing, ReadThrough2(listing)
    PROVE  Finds(GcrRepositories(listing), Keys(UNION {ImagesOf(i) : i \in Wanted(Held(listing))}), TRUE)
<1>00. ReadThrough(listing, FALSE)
  BY DEF ReadThrough2
<1> DEFINE pages == listing
           wanted == Wanted(Held(listing))
           good == [p \in DOMAIN pages |-> Strict(pages[p])]
           onward == [p \in DOMAIN pages |-> ByToken(pages[p])]
           visit(p) == [i \in DOMAIN ReadOf(pages[p]) |-> GcrImages(ReadOf(pages[p])[i])]
           visits == [p \in DOMAIN pages |-> visit(p)]
           steps == [p \in DOMAIN pages |-> Page(Stripping, pages[p], Strict(pages[p]), ByToken(pages[p]), visit(p))]
           part == [i \in Held(pages) |-> IF i \in wanted THEN Keys(ImagesOf(i)) ELSE {}]
<1>1. GcrRepositories(listing) = Follow(Stripping.url, steps)
  BY DEF GcrRepositories, Listing, ReadOf
<1>2. ASSUME NEW i \in Held(pages) PROVE Finds(GcrImages(i), part[i], TRUE)
  <2>1. i \in wanted => Taken(i)
    BY DEF Wanted, Taken
  <2>2. i \notin wanted => GcrImages(i) = Empty
    BY DEF GcrImages, Wanted, Taken
  <2> QED BY <2>1, <2>2, GcrImagesFinds, FindsSimple DEF ReadThrough2
<1>3. ASSUME NEW p \in DOMAIN pages
      PROVE  /\ Strict(pages[p]) => pages[p].status = "ok"
             /\ Strict(pages[p]) => pages[p].body \in {"list", "absent"}
             /\ pages[p].next = NoUrl => ByToken(pages[p]) = NoUrl
             /\ p # Len(pages) /\ Strict(pages[p]) => ByToken(pages[p]) # NoUrl
  BY <1>00, GoesOnIff DEF Strict, ReadThrough
<1>4. All(part, Held(pages)) = Keys(UNION {ImagesOf(i) : i \in Wanted(Held(listing))})
  <2>1. wanted \subseteq Held(pages)
    BY DEF Wanted
  <2> DEFINE below == [i \in Held(pages) |-> ImagesOf(i)]
  <2>2. \A i \in Held(pages) : part[i] = IF i \in wanted THEN Keys(below[i]) ELSE {}
    OBVIOUS
  <2>3. All(below, wanted) = UNION {ImagesOf(i) : i \in wanted}
    BY <2>1 DEF All
  <2> HIDE DEF part, wanted, below
  <2>4. All(part, Held(pages)) = Keys(All(below, wanted))
    BY <2>1, <2>2, KeysUnder
  <2> QED BY <2>3, <2>4 DEF wanted
<1> HIDE DEF part
<1>5. Thorough(Stripping, pages, FALSE, good, onward, visits, steps, TRUE)
  BY <1>3 DEF Thorough
<1>6. \A p \in DOMAIN pages : \A i \in DOMAIN visits[p] :
        Finds(visits[p][i], part[ReadOf(pages[p])[i]], TRUE)
  BY <1>2, ReadHeld
<1> HIDE DEF good, onward, visits, steps
<1>7. Finds(Follow(Stripping.url, steps), All(part, Held(pages)), TRUE)
  BY <1>00, <1>5, <1>6, PagedFinds
<1> QED BY <1>1, <1>4, <1>7

\* The images of each repository of one ACR registry, if its token was given.
LEMMA AcrRepositoriesFinds ==
    ASSUME NEW registry, Taken(registry), ReadThrough2(registry.inner)
    PROVE  Finds(AcrRepositories(registry), Keys(UNION {ImagesOf(i) : i \in Wanted(Held(registry.inner))}), TRUE)
<1>00. ReadThrough(registry.inner, FALSE)
  BY DEF ReadThrough2
<1> DEFINE pages == registry.inner
           wanted == Wanted(Held(registry.inner))
           good == [p \in DOMAIN pages |-> Strict(pages[p])]
           onward == [p \in DOMAIN pages |-> AcrNext(pages[p])]
           visit(p) == [i \in DOMAIN ReadOf(pages[p]) |-> AcrImages(registry.server, ReadOf(pages[p])[i])]
           visits == [p \in DOMAIN pages |-> visit(p)]
           steps == [p \in DOMAIN pages |-> Page(Registry(registry.server), pages[p], Strict(pages[p]), AcrNext(pages[p]), visit(p))]
           part == [i \in Held(pages) |-> IF i \in wanted THEN Keys(ImagesOf(i)) ELSE {}]
<1>1. AcrRepositories(registry) = Then(AcrTokens(registry.server, registry, 2), Follow(Registry(registry.server).url, steps))
  BY DEF AcrRepositories, Listing, ReadOf
<1>2. ASSUME NEW i \in Held(pages) PROVE Finds(AcrImages(registry.server, i), part[i], TRUE)
  <2>1. i \in wanted => Taken(i)
    BY DEF Wanted, Taken
  <2>2. i \notin wanted => AcrImages(registry.server, i) = Empty
    BY DEF AcrImages, Wanted, Taken
  <2> QED BY <2>1, <2>2, AcrImagesFinds, FindsSimple DEF ReadThrough2
<1>3. ASSUME NEW p \in DOMAIN pages
      PROVE  /\ Strict(pages[p]) => pages[p].status = "ok"
             /\ Strict(pages[p]) => pages[p].body \in {"list", "absent"}
             /\ pages[p].next = NoUrl => AcrNext(pages[p]) = NoUrl
             /\ p # Len(pages) /\ Strict(pages[p]) => AcrNext(pages[p]) # NoUrl
  BY <1>00, GoesOnIff DEF Strict, AcrNext, ReadThrough
<1>4. All(part, Held(pages)) = Keys(UNION {ImagesOf(i) : i \in Wanted(Held(registry.inner))})
  <2>1. wanted \subseteq Held(pages)
    BY DEF Wanted
  <2> DEFINE below == [i \in Held(pages) |-> ImagesOf(i)]
  <2>2. \A i \in Held(pages) : part[i] = IF i \in wanted THEN Keys(below[i]) ELSE {}
    OBVIOUS
  <2>3. All(below, wanted) = UNION {ImagesOf(i) : i \in wanted}
    BY <2>1 DEF All
  <2> HIDE DEF part, wanted, below
  <2>4. All(part, Held(pages)) = Keys(All(below, wanted))
    BY <2>1, <2>2, KeysUnder
  <2> QED BY <2>3, <2>4 DEF wanted
<1> HIDE DEF part
<1>5. Thorough(Registry(registry.server), pages, FALSE, good, onward, visits, steps, TRUE)
  BY <1>3 DEF Thorough
<1>6. \A p \in DOMAIN pages : \A i \in DOMAIN visits[p] :
        Finds(visits[p][i], part[ReadOf(pages[p])[i]], TRUE)
  BY <1>2, ReadHeld
<1> HIDE DEF good, onward, visits, steps
<1>7. Finds(Follow(Registry(registry.server).url, steps), All(part, Held(pages)), TRUE)
  BY <1>00, <1>5, <1>6, PagedFinds
<1> QED BY <1>1, <1>4, <1>7, SilentFirst, FindsThen

\* The images of each registry of one listing of registries.
LEMMA AcrRegistriesFinds ==
    ASSUME NEW listing, ReadThrough3(listing)
    PROVE  Finds(AcrRegistries(listing), Keys(UNION {UNION {ImagesOf(j) : j \in Wanted(Held(i.inner))} : i \in Wanted(Held(listing))}), TRUE)
<1>00. ReadThrough(listing, FALSE)
  BY DEF ReadThrough3
<1> DEFINE pages == listing
           wanted == Wanted(Held(listing))
           good == [p \in DOMAIN pages |-> AcrPage(pages[p])]
           onward == [p \in DOMAIN pages |-> ByLink(pages[p], AzureArmUrl(pages[p].next))]
           visit(p) == [i \in DOMAIN ReadOf(pages[p]) |-> AcrRepositories(ReadOf(pages[p])[i])]
           visits == [p \in DOMAIN pages |-> visit(p)]
           steps == [p \in DOMAIN pages |-> Page(Stripping, pages[p], AcrPage(pages[p]), ByLink(pages[p], AzureArmUrl(pages[p].next)), visit(p))]
           part == [i \in Held(pages) |-> IF i \in wanted THEN Keys(UNION {ImagesOf(j) : j \in Wanted(Held(i.inner))}) ELSE {}]
<1>1. AcrRegistries(listing) = Follow(Stripping.url, steps)
  BY DEF AcrRegistries, Listing, ReadOf
<1>2. ASSUME NEW i \in Held(pages) PROVE Finds(AcrRepositories(i), part[i], TRUE)
  <2>1. i \in wanted => Taken(i)
    BY DEF Wanted, Taken
  <2>2. i \notin wanted => AcrRepositories(i) = Empty
    BY DEF AcrRepositories, Wanted, Taken
  <2> QED BY <2>1, <2>2, AcrRepositoriesFinds, FindsSimple DEF ReadThrough3
<1>3. ASSUME NEW p \in DOMAIN pages
      PROVE  /\ AcrPage(pages[p]) => pages[p].status = "ok"
             /\ AcrPage(pages[p]) => pages[p].body \in {"list", "absent"}
             /\ pages[p].next = NoUrl => ByLink(pages[p], AzureArmUrl(pages[p].next)) = NoUrl
             /\ p # Len(pages) /\ AcrPage(pages[p]) => ByLink(pages[p], AzureArmUrl(pages[p].next)) # NoUrl
  BY <1>00, GoesOnIff DEF AcrPage, Strict, ReadThrough
<1>4. All(part, Held(pages)) = Keys(UNION {UNION {ImagesOf(j) : j \in Wanted(Held(i.inner))} : i \in Wanted(Held(listing))})
  <2>1. wanted \subseteq Held(pages)
    BY DEF Wanted
  <2> DEFINE below == [i \in Held(pages) |-> UNION {ImagesOf(j) : j \in Wanted(Held(i.inner))}]
  <2>2. \A i \in Held(pages) : part[i] = IF i \in wanted THEN Keys(below[i]) ELSE {}
    OBVIOUS
  <2>3. All(below, wanted) = UNION {UNION {ImagesOf(j) : j \in Wanted(Held(i.inner))} : i \in wanted}
    BY <2>1 DEF All
  <2> HIDE DEF part, wanted, below
  <2>4. All(part, Held(pages)) = Keys(All(below, wanted))
    BY <2>1, <2>2, KeysUnder
  <2> QED BY <2>3, <2>4 DEF wanted
<1> HIDE DEF part
<1>5. Thorough(Stripping, pages, FALSE, good, onward, visits, steps, TRUE)
  BY <1>3 DEF Thorough
<1>6. \A p \in DOMAIN pages : \A i \in DOMAIN visits[p] :
        Finds(visits[p][i], part[ReadOf(pages[p])[i]], TRUE)
  BY <1>2, ReadHeld
<1> HIDE DEF good, onward, visits, steps
<1>7. Finds(Follow(Stripping.url, steps), All(part, Held(pages)), TRUE)
  BY <1>00, <1>5, <1>6, PagedFinds
<1> QED BY <1>1, <1>4, <1>7

\* What a provider may answer to a call of its connector when it tells all it holds:
\* AWS gives its addresses in one answer, and what is public is part of everything.
TellingAll(x) ==
    \/ x.provider \in Clouds /\ IsSeq(x.pages)
         /\ \A s \in DOMAIN x.pages :
              /\ ReadThrough(x.pages[s].pages, FALSE)
              /\ x.provider = "aws" /\ x.pages[s].kind = "address" => Len(x.pages[s].pages) = 1
    \/ x.provider = "dns" /\ IsSeq(x.pages) /\ \A a \in DOMAIN x.pages : ReadThrough(x.pages[a].pages, FALSE)
    \/ /\ x.provider \in Numbering
       /\ ReadThrough(x.pages, TRUE) /\ ReadThrough(x.public, TRUE) /\ Held(x.public) \subseteq Held(x.pages)
    \/ x.provider \in Flat \cup {"eks"} /\ ReadThrough(x.pages, FALSE)
    \/ x.provider \in Nested /\ ReadThrough2(x.pages)
    \/ x.provider = "acr" /\ ReadThrough3(x.pages)

\* A connector that does one listing after the other.
LEMMA FindsAfterOther ==
    ASSUME NEW c, NEW s, IsSeq(s), NEW rs, DOMAIN rs = DOMAIN s, NEW part,
           \A i \in DOMAIN rs : Finds(rs[i], part[i], c)
    PROVE  Finds(InOrder(rs), All(part, DOMAIN s), c)
<1>1. Finite(rs)
  <2>1. DOMAIN rs = 1..Len(s) /\ Len(s) \in Nat
    BY DEF IsSeq
  <2> QED BY <2>1, FiniteSeq
<1> QED BY <1>1, FindsInOrder

\* The listing of one kind of resource, by provider.
CloudListing(provider, ctx, scope) ==
    CASE provider = "aws" -> AwsListing(ctx, scope)
      [] provider = "azure" -> AzureListing(scope)
      [] provider = "gcp" -> GcpListing(scope)

\* AWS, Azure and GCP, kind by kind.
LEMMA CloudsFind ==
    ASSUME NEW x, TellingAll(x), x.provider \in Clouds
    PROVE  Finds(Discover(x), HeldBy(x), ~Curtailed(x))
<1> DEFINE scopes == x.pages
           c == ~TakenForEmpty(x)
           rs == [s \in DOMAIN scopes |->
                    IF scopes[s].kind \in x.ctx.kinds THEN CloudListing(x.provider, x.ctx, scopes[s]) ELSE Empty]
           part == [s \in DOMAIN scopes |->
                      IF scopes[s].kind \in x.ctx.kinds THEN Keys(InventoryOf(x.provider, scopes[s])) ELSE {}]
<1>1. /\ IsSeq(scopes)
      /\ \A s \in DOMAIN scopes :
           /\ ReadThrough(scopes[s].pages, FALSE)
           /\ x.provider = "aws" /\ scopes[s].kind = "address" => Len(scopes[s].pages) = 1
  BY DEF TellingAll, Clouds, Numbering, Flat, Nested
<1>2. \E ok, a : a.items = {} /\ Discover(x) = Guarded(ok, Then(a, InOrder(rs)))
  <2>1. CASE x.provider = "aws"
    <3>1. Discover(x) = Guarded(AwsConfig(x.ctx.config), Then(AwsAccount(x.ctx), InOrder(rs)))
      BY <2>1 DEF Discover, Aws, Scopes, CloudListing
    <3> HIDE DEF rs
    <3> QED BY <3>1, SilentFirst
  <2>2. CASE x.provider = "azure"
    <3>1. Discover(x) = Guarded(AzureConfig(x.ctx.config), Then(AzureLogin(x.ctx), InOrder(rs)))
      BY <2>2 DEF Discover, Azure, Scopes, CloudListing
    <3> HIDE DEF rs
    <3> QED BY <3>1, SilentFirst
  <2>3. CASE x.provider = "gcp"
    <3>1. Discover(x) = Guarded(GcpConfig(x.ctx.config), Then(GcpLogin(x.ctx), InOrder(rs)))
      BY <2>3 DEF Discover, Gcp, Scopes, CloudListing
    <3> HIDE DEF rs
    <3> QED BY <3>1, SilentFirst
  <2> QED BY <2>1, <2>2, <2>3 DEF Clouds
<1>3. ASSUME NEW s \in DOMAIN scopes
      PROVE  Finds(CloudListing(x.provider, x.ctx, scopes[s]), Keys(InventoryOf(x.provider, scopes[s])), c)
  <2>1. c => \A p \in DOMAIN scopes[s].pages : scopes[s].pages[p].body = "list"
    BY DEF TakenForEmpty
  <2> HIDE DEF c
  <2>2. CASE x.provider = "aws"
    BY <1>1, <2>1, <2>2, AwsListingFinds DEF CloudListing
  <2>3. CASE x.provider = "azure"
    BY <1>1, <2>1, <2>3, AzureListingFinds DEF CloudListing
  <2>4. CASE x.provider = "gcp"
    BY <1>1, <2>1, <2>4, GcpListingFinds DEF CloudListing
  <2> QED BY <2>2, <2>3, <2>4 DEF Clouds
<1>4. All(part, DOMAIN scopes) = HeldBy(x)
  <2> DEFINE scoped == {s \in DOMAIN x.pages : x.pages[s].kind \in x.ctx.kinds}
  <2>1. HeldBy(x) = UNION {Keys(InventoryOf(x.provider, x.pages[s])) : s \in scoped}
    BY DEF HeldBy, Clouds, Nested
  <2>2. \A s \in DOMAIN scopes :
          part[s] = IF s \in scoped THEN Keys(InventoryOf(x.provider, scopes[s])) ELSE {}
    OBVIOUS
  <2>3. \A s \in scoped : s \in DOMAIN scopes
    OBVIOUS
  <2> HIDE DEF part, scoped
  <2> QED BY <2>1, <2>2, <2>3 DEF All
<1>5. DOMAIN rs = DOMAIN scopes /\ \A s \in DOMAIN rs : Finds(rs[s], part[s], c)
  BY <1>3, FindsSimple
<1> HIDE DEF rs, part, scopes
<1>6. Finds(Discover(x), All(part, DOMAIN scopes), c)
  <2>1. Finds(InOrder(rs), All(part, DOMAIN scopes), c)
    BY <1>1, <1>5, FindsAfterOther
  <2> QED BY <1>2, <2>1, FindsThen, FindsGuarded
<1>7. ~Curtailed(x) => c
  BY DEF Curtailed
<1> HIDE DEF c
<1> QED BY <1>4, <1>6, <1>7 DEF Finds

\* GitHub and GitLab, with a credential and without.
LEMMA NumberingFind ==
    ASSUME NEW x, TellingAll(x), x.provider \in Numbering
    PROVE  Finds(Discover(x), HeldBy(x), ~Curtailed(x))
<1> DEFINE c == ~Curtailed(x)
<1>1. ReadThrough(x.pages, TRUE) /\ ReadThrough(x.public, TRUE) /\ Held(x.public) \subseteq Held(x.pages)
  BY DEF TellingAll, Clouds, Numbering, Flat, Nested
<1>2. CASE x.provider = "github"
  <2> DEFINE token == GitHubToken(x.ctx)
             asked == IF token = "token" THEN x.pages ELSE x.public
             mine(pages) == {i \in Held(pages) : i.owned /\ i.chosen}
  <2>1. Discover(x) = Guarded(x.ctx.config.valid /\ token # "throws", GitHubListing(asked))
    BY <1>2 DEF Discover, GitHub
  <2>2. HeldBy(x) = Keys(mine(x.pages))
    BY <1>2 DEF HeldBy, Clouds, Nested
  <2>3. Finds(GitHubListing(asked), Keys(mine(asked)), TRUE)
    BY <1>1, GitHubListingFinds
  <2>4. Keys(mine(asked)) \subseteq Keys(mine(x.pages))
    BY <1>1 DEF Keys
  <2>5. c /\ token # "throws" => asked = x.pages
    BY <1>2 DEF Curtailed, PublicOnly, GitHubToken, LoadSecret, Resolve, Numbering
  <2> HIDE DEF asked, token, mine, c
  <2>6. token # "throws" => Finds(GitHubListing(asked), HeldBy(x), c)
    BY <2>2, <2>3, <2>4, <2>5 DEF Finds
  <2> QED BY <2>1, <2>6, FindsGuarded DEF c
<1>3. CASE x.provider = "gitlab"
  <2> DEFINE token == Resolve(x.ctx.cred)
             asked == IF token = "token" THEN x.pages ELSE x.public
             ok == GitLabConfig(x.ctx.config) /\ GitLabOrigin(x.ctx.config) # "refused"
                     /\ (token = "token" \/ x.ctx.cred.ref = "none")
  <2>1. Discover(x) = Guarded(ok, GitLabListing(asked))
    BY <1>3 DEF Discover, GitLab
  <2>2. HeldBy(x) = Keys(Wanted(Held(x.pages)))
    BY <1>3 DEF HeldBy, Clouds, Nested
  <2>3. Finds(GitLabListing(asked), Keys(Wanted(Held(asked))), TRUE)
    BY <1>1, GitLabListingFinds
  <2>4. Keys(Wanted(Held(asked))) \subseteq Keys(Wanted(Held(x.pages)))
    BY <1>1 DEF Keys, Wanted
  <2>5. c /\ ok => asked = x.pages
    BY <1>3 DEF Curtailed, Numbering
  <2> HIDE DEF asked, token, ok, c
  <2>6. ok => Finds(GitLabListing(asked), HeldBy(x), c)
    BY <2>2, <2>3, <2>4, <2>5 DEF Finds
  <2> QED BY <2>1, <2>6, FindsGuarded DEF c
<1> QED BY <1>2, <1>3 DEF Numbering

\* Domains: the names of an apex, whose certificate log must answer.
LEMMA ApexFinds ==
    ASSUME NEW a, ReadThrough(a.pages, FALSE)
    PROVE  Finds(InventoryApex(a), NamesOf(a), a.ns.status = "ok")
<1> DEFINE ct == CrtShNames(a)
           logged == {i \in Held(a.pages) : i.owned}
           ns == IF a.ns.status = "ok" THEN {n \in a.ns.names : n.owned} ELSE {}
           names == {a.key} \cup {i.key : i \in ct.items} \cup {n.key : n \in ns}
           enriched == UNION {EnrichDomain(k, a.ips[k]).items : k \in names}
           read == Silent(ct)
           kept(late) == Guarded(~late /\ Cardinality(names) <= MaxNames, [Empty EXCEPT !.items = enriched])
<1>1. InventoryApex(a) = Then(read, kept(a.late))
  BY DEF InventoryApex
<1>2. Finds(ct, Keys(logged), TRUE)
  BY CrtShNamesFinds
<1>3. read.items = {} /\ read.done = ct.done
  BY DEF Silent
<1>4. names = {a.key} \cup Keys(ct.items) \cup Keys(ns)
  BY DEF Keys
<1>5. NamesOf(a) = {a.key} \cup Keys(logged) \cup Keys({n \in a.ns.names : n.owned})
  BY DEF NamesOf
<1>6. Keys(ns) \subseteq Keys({n \in a.ns.names : n.owned})
      /\ (a.ns.status = "ok" => ns = {n \in a.ns.names : n.owned})
  BY DEF Keys
<1> HIDE DEF ct, ns, read
<1>7. Keys(enriched) = names
  <2>1. ASSUME NEW k \in names PROVE \E e : EnrichDomain(k, a.ips[k]).items = {[key |-> k, exposure |-> e]}
    BY DEF EnrichDomain, Yield, Empty
  <2> HIDE DEF names
  <2>2. ASSUME NEW k \in names PROVE k \in Keys(enriched)
    <3>1. PICK e : EnrichDomain(k, a.ips[k]).items = {[key |-> k, exposure |-> e]}
      BY <2>1
    <3>2. [key |-> k, exposure |-> e] \in enriched
      BY <3>1
    <3> HIDE DEF enriched
    <3> QED BY <3>2 DEF Keys
  <2>3. ASSUME NEW e \in enriched PROVE e.key \in names
    <3>1. PICK k \in names : e \in EnrichDomain(k, a.ips[k]).items
      OBVIOUS
    <3> QED BY <2>1, <3>1
  <2> HIDE DEF enriched
  <2> QED BY <2>2, <2>3 DEF Keys
<1> DEFINE found == [Empty EXCEPT !.items = enriched]
<1>8. found.items = enriched
  BY DEF Empty
<1>9. kept(a.late) = found \/ kept(a.late) = Refused
  BY DEF Guarded
<1> HIDE DEF found, kept, enriched, names, logged
<1>10. CASE read.done
  <2>1. Keys(ct.items) = Keys(logged)
    BY <1>2, <1>3, <1>10 DEF Finds
  <2>2. Finds(kept(a.late), NamesOf(a), a.ns.status = "ok")
    <3>1. names \subseteq NamesOf(a) /\ (a.ns.status = "ok" => names = NamesOf(a))
      BY <1>4, <1>5, <1>6, <2>1
    <3> QED BY <1>7, <1>8, <1>9, <3>1, FindsSimple DEF Finds
  <2>3. Then(read, kept(a.late)).items = kept(a.late).items
        /\ Then(read, kept(a.late)).done = kept(a.late).done
    BY <1>3, <1>10 DEF Then
  <2> QED BY <1>1, <2>2, <2>3 DEF Finds
<1>11. CASE ~read.done
  <2>1. Then(read, kept(a.late)) = read
    BY <1>11 DEF Then
  <2> QED BY <1>1, <1>3, <1>11, <2>1 DEF Finds, Keys
<1> QED BY <1>10, <1>11

\* The connector of domains.
LEMMA DnsFinds ==
    ASSUME NEW x, TellingAll(x), x.provider = "dns"
    PROVE  Finds(Discover(x), HeldBy(x), ~Curtailed(x))
<1> DEFINE apexes == x.pages
           c == ~NsLost(x)
           rs == [a \in DOMAIN apexes |-> InventoryApex(apexes[a])]
           part == [a \in DOMAIN apexes |-> NamesOf(apexes[a])]
<1>1. IsSeq(apexes) /\ \A a \in DOMAIN apexes : ReadThrough(apexes[a].pages, FALSE)
  BY DEF TellingAll, Clouds, Numbering, Flat, Nested
<1>2. \E ok : Discover(x) = Guarded(ok, InOrder(rs))
  BY DEF Discover, DnsEnum, Clouds
<1>3. DOMAIN rs = DOMAIN apexes
  OBVIOUS
<1>4. ASSUME NEW a \in DOMAIN rs PROVE Finds(rs[a], part[a], c)
  <2>1. Finds(InventoryApex(apexes[a]), NamesOf(apexes[a]), apexes[a].ns.status = "ok")
    BY <1>1, ApexFinds
  <2>2. c => apexes[a].ns.status = "ok"
    BY DEF NsLost
  <2> HIDE DEF c
  <2> QED BY <2>1, <2>2 DEF Finds
<1>5. All(part, DOMAIN apexes) = HeldBy(x)
  <2>1. HeldBy(x) = UNION {NamesOf(x.pages[a]) : a \in DOMAIN x.pages}
    BY DEF HeldBy, Clouds, Nested
  <2> QED BY <2>1 DEF All
<1> HIDE DEF rs, part, apexes
<1>6. Finds(Discover(x), All(part, DOMAIN apexes), c)
  <2>1. Finds(InOrder(rs), All(part, DOMAIN apexes), c)
    BY <1>1, <1>3, <1>4, FindsAfterOther
  <2> QED BY <1>2, <2>1, FindsGuarded
<1>7. ~Curtailed(x) => c
  BY DEF Curtailed
<1> HIDE DEF c
<1> QED BY <1>5, <1>6, <1>7 DEF Finds

\* One region, location or resource group is all of them.
LEMMA OneFinds ==
    ASSUME NEW rs, DOMAIN rs = {1}, NEW S, NEW c, Finds(rs[1], S, c)
    PROVE  Finds(InOrder(rs), S, c)
<1> DEFINE part == [i \in {1} |-> S]
<1>1. Finite(rs)
  <2>1. DOMAIN rs = 1..1
    OBVIOUS
  <2> QED BY <2>1, FiniteSeq
<1>2. All(part, DOMAIN rs) = S
  BY DEF All
<1>3. \A i \in DOMAIN rs : Finds(rs[i], part[i], c)
  OBVIOUS
<1> HIDE DEF part
<1>4. Finds(InOrder(rs), All(part, DOMAIN rs), c)
  BY <1>1, <1>3, FindsInOrder
<1> QED BY <1>2, <1>4

\* Every connector, for every answer.
LEMMA DiscoverFinds ==
    ASSUME NEW x, TellingAll(x)
    PROVE  Finds(Discover(x), HeldBy(x), ~Curtailed(x))
<1>1. CASE x.provider \in Clouds
  BY <1>1, CloudsFind
<1>2. CASE x.provider = "dns"
  BY <1>2, DnsFinds
<1>3. CASE x.provider \in Numbering
  BY <1>3, NumberingFind
<1> DEFINE outer == Wanted(Held(x.pages))
           clusters == {i \in Held(x.pages) : i.form # "noKey" /\ i.chosen}
           images == UNION {ImagesOf(i) : i \in outer}
<1>4. CASE x.provider \in Flat \cup {"eks"}
  <2>1. ReadThrough(x.pages, FALSE)
    BY <1>4 DEF TellingAll, Clouds, Numbering, Flat, Nested
  <2>2. CASE x.provider = "bitbucket"
    <3>1. Discover(x) = Bitbucket(x.ctx, x.pages) /\ HeldBy(x) = Keys(outer)
      BY <2>2 DEF Discover, HeldBy, Clouds, Nested
    <3> QED BY <2>1, <3>1, BitbucketFinds DEF Finds
  <2>3. CASE x.provider = "gke"
    <3>1. Discover(x) = Gke(x.ctx, x.pages) /\ HeldBy(x) = Keys(clusters)
      BY <2>3 DEF Discover, HeldBy, Clouds, Nested
    <3> QED BY <2>1, <3>1, GkeFinds DEF Finds
  <2>4. CASE x.provider = "aks"
    <3>1. Discover(x) = Aks(x.ctx, x.pages) /\ HeldBy(x) = Keys(clusters)
      BY <2>4 DEF Discover, HeldBy, Clouds, Nested
    <3> QED BY <2>1, <3>1, AksFinds DEF Finds
  <2>5. CASE x.provider = "eks"
    <3> DEFINE rs == [r \in DOMAIN <<x.pages>> |-> EksClusters(x.ctx, <<x.pages>>[r])]
    <3>1. \E ok, a : a.items = {} /\ Discover(x) = Guarded(ok, Then(a, InOrder(rs)))
      <4>1. Discover(x) = Guarded(KubernetesConfig(x.ctx.config), Then(AwsAccount(x.ctx), InOrder(rs)))
        BY <2>5 DEF Discover, Eks, Clouds
      <4> HIDE DEF rs
      <4> QED BY <4>1, SilentFirst
    <3>2. DOMAIN rs = {1} /\ rs[1] = EksClusters(x.ctx, x.pages)
      OBVIOUS
    <3>3. HeldBy(x) = Keys(clusters)
      BY <2>5 DEF HeldBy, Clouds, Nested
    <3> HIDE DEF rs
    <3>4. Finds(EksClusters(x.ctx, x.pages), Keys(clusters), TRUE)
      BY <2>1, EksClustersFinds
    <3> HIDE DEF clusters, images
    <3>5. Finds(InOrder(rs), Keys(clusters), TRUE)
      BY <3>2, <3>4, OneFinds
    <3>6. Finds(Discover(x), HeldBy(x), TRUE)
      BY <3>1, <3>5, <3>3, FindsThen, FindsGuarded
    <3> QED BY <3>6 DEF Finds
  <2> QED BY <1>4, <2>2, <2>3, <2>4, <2>5 DEF Flat
<1>5. CASE x.provider \in Nested
  <2>1. ReadThrough2(x.pages)
    BY <1>5 DEF TellingAll, Clouds, Numbering, Flat, Nested
  <2>2. HeldBy(x) = Keys(images)
    BY <1>5 DEF HeldBy, Clouds, Nested
  <2>3. CASE x.provider = "ghcr"
    <3>1. Discover(x) = Ghcr(x.ctx, x.pages)
      BY <2>3 DEF Discover, Clouds
    <3> DEFINE c == ~Curtailed(x)
    <3>2. c => ~Gapped(x.pages) /\ \A i \in outer : ~Gapped(i.inner)
      BY <2>3 DEF Curtailed, EmptyLinks
    <3> HIDE DEF c
    <3> QED BY <2>1, <2>2, <3>1, <3>2, GhcrFinds DEF c
  <2>4. CASE x.provider = "dockerhub"
    <3>1. Discover(x) = Dockerhub(x.ctx, x.pages)
      BY <2>4 DEF Discover, Clouds
    <3> QED BY <2>1, <2>2, <3>1, DockerhubFinds DEF Finds
  <2>5. CASE x.provider = "quay"
    <3>1. Discover(x) = Quay(x.ctx, x.pages)
      BY <2>5 DEF Discover, Clouds
    <3> QED BY <2>1, <2>2, <3>1, QuayFinds DEF Finds
  <2>6. CASE x.provider = "ecr"
    <3> DEFINE rs == [r \in DOMAIN <<x.pages>> |-> EcrRepositories(x.ctx, <<x.pages>>[r])]
    <3>1. \E ok, a : a.items = {} /\ Discover(x) = Guarded(ok, Then(a, InOrder(rs)))
      <4>1. Discover(x) = Guarded(EcrConfig(x.ctx.config), Then(AwsAccount(x.ctx), InOrder(rs)))
        BY <2>6 DEF Discover, Ecr, Clouds
      <4> HIDE DEF rs
      <4> QED BY <4>1, SilentFirst
    <3>2. DOMAIN rs = {1} /\ rs[1] = EcrRepositories(x.ctx, x.pages)
      OBVIOUS
    <3> HIDE DEF rs
    <3>4. Finds(EcrRepositories(x.ctx, x.pages), Keys(images), TRUE)
      BY <2>1, EcrRepositoriesFinds
    <3> HIDE DEF clusters, images
    <3>5. Finds(InOrder(rs), Keys(images), TRUE)
      BY <3>2, <3>4, OneFinds
    <3>6. Finds(Discover(x), HeldBy(x), TRUE)
      BY <3>1, <3>5, <2>2, FindsThen, FindsGuarded
    <3> QED BY <3>6 DEF Finds
  <2>7. CASE x.provider = "gcr"
    <3> DEFINE rs == [r \in DOMAIN <<x.pages>> |-> GcrRepositories(<<x.pages>>[r])]
    <3>1. \E ok, a : a.items = {} /\ Discover(x) = Guarded(ok, Then(a, InOrder(rs)))
      <4>1. Discover(x) = Guarded(GcrConfig(x.ctx.config), Then(GcpLogin(x.ctx), InOrder(rs)))
        BY <2>7 DEF Discover, Gcr, Clouds
      <4> HIDE DEF rs
      <4> QED BY <4>1, SilentFirst
    <3>2. DOMAIN rs = {1} /\ rs[1] = GcrRepositories(x.pages)
      OBVIOUS
    <3> HIDE DEF rs
    <3>4. Finds(GcrRepositories(x.pages), Keys(images), TRUE)
      BY <2>1, GcrRepositoriesFinds
    <3> HIDE DEF clusters, images
    <3>5. Finds(InOrder(rs), Keys(images), TRUE)
      BY <3>2, <3>4, OneFinds
    <3>6. Finds(Discover(x), HeldBy(x), TRUE)
      BY <3>1, <3>5, <2>2, FindsThen, FindsGuarded
    <3> QED BY <3>6 DEF Finds
  <2> QED BY <1>5, <2>3, <2>4, <2>5, <2>6, <2>7 DEF Nested
<1>6. CASE x.provider = "acr"
  <2> DEFINE below == UNION {UNION {ImagesOf(j) : j \in Wanted(Held(i.inner))} : i \in outer}
  <2>1. ReadThrough3(x.pages)
    BY <1>6 DEF TellingAll, Clouds, Numbering, Flat, Nested
  <2>2. HeldBy(x) = Keys(UNION {ImagesOf(i) : i \in UNION {Wanted(Held(r.inner)) : r \in outer}})
    BY <1>6 DEF HeldBy, Clouds, Nested
  <2>3. UNION {ImagesOf(i) : i \in UNION {Wanted(Held(r.inner)) : r \in outer}} = below
    OBVIOUS
  <2> DEFINE rs == [r \in DOMAIN <<x.pages>> |-> AcrRegistries(<<x.pages>>[r])]
  <2>4. \E ok, a : a.items = {} /\ Discover(x) = Guarded(ok, Then(a, InOrder(rs)))
    <3>1. Discover(x) = Guarded(AcrConfig(x.ctx.config), Then(AzureLogin(x.ctx), InOrder(rs)))
      BY <1>6 DEF Discover, Acr, Clouds
    <3> HIDE DEF rs
    <3> QED BY <3>1, SilentFirst
  <2>5. DOMAIN rs = {1} /\ rs[1] = AcrRegistries(x.pages)
    OBVIOUS
  <2>6. Finds(AcrRegistries(x.pages), Keys(below), TRUE)
    BY <2>1, AcrRegistriesFinds
  <2> HIDE DEF rs, below
  <2>7. Finds(InOrder(rs), Keys(below), TRUE)
    BY <2>5, <2>6, OneFinds
  <2>8. Finds(Discover(x), HeldBy(x), TRUE)
    BY <2>2, <2>3, <2>4, <2>7, FindsThen, FindsGuarded
  <2> QED BY <2>8 DEF Finds
<1> QED BY <1>1, <1>2, <1>3, <1>4, <1>5, <1>6 DEF TellingAll

\* What a cloud says of its resources: a key is one resource's, and a rule one of
\* five sources.
Described(x) ==
    /\ \A s \in DOMAIN x.pages : x.pages[s].kind \in Kinds
    /\ \A s, t \in DOMAIN x.pages :
         \A i \in Held(x.pages[s].pages) : \A j \in Held(x.pages[t].pages) :
           i.key = j.key => i = j /\ x.pages[s].kind = x.pages[t].kind
    /\ \A s \in DOMAIN x.pages : \A i \in Held(x.pages[s].pages) : \A r \in i.rules :
         r.from \in {"any4", "any6", "star", "internet", "private"}

\* The asset of one resource, by provider.
CloudAsset(provider, kind, i) ==
    CASE provider = "aws" -> AwsAsset(kind, i)
      [] provider = "azure" -> AzureAsset(kind, i)
      [] provider = "gcp" -> GcpAsset(kind, i)

\* Each asset of a cloud is the one of a resource that the provider holds.
LEMMA CloudItems ==
    ASSUME NEW x, TellingAll(x), x.provider \in Clouds, NEW a \in Discover(x).items
    PROVE  \E s \in DOMAIN x.pages : \E i \in Held(x.pages[s].pages) :
             a \in CloudAsset(x.provider, x.pages[s].kind, i).items
<1> DEFINE scopes == x.pages
           rs == [s \in DOMAIN scopes |->
                    IF scopes[s].kind \in x.ctx.kinds THEN CloudListing(x.provider, x.ctx, scopes[s]) ELSE Empty]
<1>1. /\ IsSeq(scopes)
      /\ \A s \in DOMAIN scopes :
           /\ ReadThrough(scopes[s].pages, FALSE)
           /\ x.provider = "aws" /\ scopes[s].kind = "address" => Len(scopes[s].pages) = 1
  BY DEF TellingAll, Clouds, Numbering, Flat, Nested
<1>2. \E ok, acc : acc.items = {} /\ Discover(x) = Guarded(ok, Then(acc, InOrder(rs)))
  <2>1. CASE x.provider = "aws"
    <3>1. Discover(x) = Guarded(AwsConfig(x.ctx.config), Then(AwsAccount(x.ctx), InOrder(rs)))
      BY <2>1 DEF Discover, Aws, Scopes, CloudListing
    <3> HIDE DEF rs
    <3> QED BY <3>1, SilentFirst
  <2>2. CASE x.provider = "azure"
    <3>1. Discover(x) = Guarded(AzureConfig(x.ctx.config), Then(AzureLogin(x.ctx), InOrder(rs)))
      BY <2>2 DEF Discover, Azure, Scopes, CloudListing
    <3> HIDE DEF rs
    <3> QED BY <3>1, SilentFirst
  <2>3. CASE x.provider = "gcp"
    <3>1. Discover(x) = Guarded(GcpConfig(x.ctx.config), Then(GcpLogin(x.ctx), InOrder(rs)))
      BY <2>3 DEF Discover, Gcp, Scopes, CloudListing
    <3> HIDE DEF rs
    <3> QED BY <3>1, SilentFirst
  <2> QED BY <2>1, <2>2, <2>3 DEF Clouds
<1>3. ASSUME NEW s \in DOMAIN scopes
      PROVE  rs[s].items \subseteq
               UNION {CloudAsset(x.provider, scopes[s].kind, i).items : i \in Held(scopes[s].pages)}
  <2>1. CASE x.provider = "aws"
    BY <1>1, <2>1, AwsListingFinds DEF CloudListing, CloudAsset, Empty
  <2>2. CASE x.provider = "azure"
    BY <1>1, <2>2, AzureListingFinds DEF CloudListing, CloudAsset, Empty
  <2>3. CASE x.provider = "gcp"
    BY <1>1, <2>3, GcpListingFinds DEF CloudListing, CloudAsset, Empty
  <2> QED BY <2>1, <2>2, <2>3 DEF Clouds
<1>4. DOMAIN rs = DOMAIN scopes
  OBVIOUS
<1> HIDE DEF rs
<1>5. a \in InOrder(rs).items
  BY <1>2 DEF Guarded, Then, Refused, Empty
<1>6. Finite(rs)
  <2>1. DOMAIN rs = 1..Len(scopes) /\ Len(scopes) \in Nat
    BY <1>1, <1>4 DEF IsSeq
  <2> QED BY <2>1, FiniteSeq
<1>7. PICK s \in DOMAIN rs : a \in rs[s].items
  BY <1>5, <1>6, InOrderFrom
<1> QED BY <1>3, <1>4, <1>7

\* A resource is recorded as what it says it is.
LEMMA AssetHonest ==
    ASSUME NEW x, x.provider \in Clouds, NEW kind \in Kinds, NEW i,
           \A r \in i.rules : /\ r.from \in {"any4", "any6", "star", "internet", "private"}
                              /\ OwnRules(x, r)
                              /\ ~(x.provider = "azure" /\ r.from = "any6")
                              /\ ~(x.provider = "gcp" /\ ~r.allow),
           NEW a \in CloudAsset(x.provider, kind, i).items, a.exposure # "unknown"
    PROVE  a.exposure = "internet_facing" <=> Reachable(kind, i)
<1>1. CASE x.provider = "aws"
  <2>1. CloudAsset(x.provider, kind, i) = AwsAsset(kind, i)
    BY <1>1 DEF CloudAsset
  <2>2. kind # "bucket" /\ a.exposure = Facing(AwsParsed(kind, i))
    BY <2>1 DEF AwsAsset, Yield, Empty
  <2>3. AwsParsed(kind, i) <=> Reachable(kind, i)
    BY <1>1, <2>2 DEF AwsParsed, Reachable, Kinds, OwnRules
  <2>4. Facing(AwsParsed(kind, i)) = "internet_facing" <=> AwsParsed(kind, i)
    BY DEF Facing
  <2> QED BY <2>2, <2>3, <2>4
<1>2. CASE x.provider = "azure"
  <2> DEFINE open == \E r \in i.rules : AzureOpen(r)
             e == CASE kind = "compute" -> Facing(i.nic)
                    [] kind = "network" -> Facing(open)
                    [] kind = "address" -> "internet_facing"
                    [] kind = "bucket" -> "unknown"
  <2>1. CloudAsset(x.provider, kind, i) = IF i.form = "noKey" THEN Empty ELSE Yield(i.key, e)
    BY <1>2 DEF CloudAsset, AzureAsset
  <2>2. open <=> \E r \in i.rules : r.in /\ r.allow /\ r.from # "private"
    BY <1>2 DEF AzureOpen
  <2> HIDE DEF open
  <2>3. Facing(open) = "internet_facing" <=> open
    BY DEF Facing
  <2>4. Facing(i.nic) = "internet_facing" <=> i.nic
    BY DEF Facing
  <2>5. /\ kind = "compute" => e = Facing(i.nic)
        /\ kind = "network" => e = Facing(open)
        /\ kind = "address" => e = "internet_facing"
        /\ kind = "bucket" => e = "unknown"
    OBVIOUS
  <2> HIDE DEF e
  <2>6. a.exposure = e
    BY <2>1 DEF Yield, Empty
  <2> QED BY <2>2, <2>3, <2>4, <2>5, <2>6 DEF Reachable, Kinds
<1>3. CASE x.provider = "gcp"
  <2> DEFINE open == \E r \in i.rules : GcpOpen(r)
             e == CASE kind \in {"compute", "address"} -> Facing(i.nic)
                    [] kind = "network" -> Facing(open)
                    [] kind = "bucket" -> "unknown"
  <2>1. CloudAsset(x.provider, kind, i) =
          IF i.form = "noKey" \/ (kind = "address" /\ ~i.nic) THEN Empty ELSE Yield(i.key, e)
    BY <1>3 DEF CloudAsset, GcpAsset
  <2>2. open <=> \E r \in i.rules : r.in /\ r.allow /\ r.from # "private"
    BY <1>3 DEF GcpOpen, OwnRules
  <2> HIDE DEF open
  <2>3. Facing(open) = "internet_facing" <=> open
    BY DEF Facing
  <2>4. Facing(i.nic) = "internet_facing" <=> i.nic
    BY DEF Facing
  <2>5. /\ kind \in {"compute", "address"} => e = Facing(i.nic)
        /\ kind = "network" => e = Facing(open)
        /\ kind = "bucket" => e = "unknown"
    OBVIOUS
  <2> HIDE DEF e
  <2>6. a.exposure = e /\ (kind = "address" => i.nic)
    BY <2>1 DEF Yield, Empty
  <2> QED BY <2>2, <2>3, <2>4, <2>5, <2>6 DEF Reachable, Kinds
<1> QED BY <1>1, <1>2, <1>3 DEF Clouds

\* An asset bears the key of its resource.
LEMMA AssetKey ==
    ASSUME NEW provider \in Clouds, NEW kind, NEW i, NEW a \in CloudAsset(provider, kind, i).items
    PROVE  a.key = i.key
<1>1. CloudAsset(provider, kind, i) = Empty \/ \E e : CloudAsset(provider, kind, i) = Yield(i.key, e)
  <2>1. CASE provider = "aws"
    BY <2>1 DEF CloudAsset, AwsAsset
  <2>2. CASE provider = "azure"
    BY <2>2 DEF CloudAsset, AzureAsset
  <2>3. CASE provider = "gcp"
    BY <2>3 DEF CloudAsset, GcpAsset
  <2> QED BY <2>1, <2>2, <2>3 DEF Clouds
<1> QED BY <1>1 DEF Yield, Empty

-----------------------------------------------------------------------------
(***************************************************************************)
(* Images: where a token goes                                              *)
(***************************************************************************)
\* An image whose manifest, the chosen one of an index, has a list of layers.
Layered(image) == IsSeq(Chosen(image.manifest).layers)

\* Two parts of a pull.
LEMMA HomeAfter ==
    ASSUME NEW away, NEW a, NEW b, Home(a, away), Home(b, away)
    PROVE  Home(InOrder(<<a, b>>), away)
<1> DEFINE rs == <<a, b>>
<1>1. DOMAIN rs = 1..2 /\ \A i \in 1..2 : Home(rs[i], away)
  OBVIOUS
<1> HIDE DEF rs
<1>2. Home(InOrder(rs), away)
  BY <1>1, FiniteSeq, HomeInOrder
<1> QED BY <1>2 DEF rs

\* Three parts of a pull.
LEMMA HomeThree ==
    ASSUME NEW away, NEW a, NEW b, NEW c, Home(a, away), Home(b, away), Home(c, away)
    PROVE  Home(InOrder(<<a, b, c>>), away)
<1> DEFINE rs == <<a, b, c>>
<1>1. DOMAIN rs = 1..3 /\ \A i \in 1..3 : Home(rs[i], away)
  OBVIOUS
<1> HIDE DEF rs
<1>2. Home(InOrder(rs), away)
  BY <1>1, FiniteSeq, HomeInOrder
<1> QED BY <1>2 DEF rs

\* Four parts of a pull.
LEMMA HomeFour ==
    ASSUME NEW away, NEW a, NEW b, NEW c, NEW d, Home(a, away), Home(b, away), Home(c, away), Home(d, away)
    PROVE  Home(InOrder(<<a, b, c, d>>), away)
<1> DEFINE rs == <<a, b, c, d>>
<1>1. DOMAIN rs = 1..4 /\ \A i \in 1..4 : Home(rs[i], away)
  OBVIOUS
<1> HIDE DEF rs
<1>2. Home(InOrder(rs), away)
  BY <1>1, FiniteSeq, HomeInOrder
<1> QED BY <1>2 DEF rs

\* The single steps of a pull.
LEMMA HomeSteps ==
    ASSUME NEW away
    PROVE  /\ \A image, check : Home(InTime(image, check), away)
           /\ Home([Empty EXCEPT !.dials = {RegistryUrl}], away)
           /\ AtHome(TokenUrl)
<1>1. \A image, check : Home(InTime(image, check), away)
  BY HomeSimple, HomeGuarded DEF InTime
<1>2. AtHome(TokenUrl) /\ AtHome(RegistryUrl)
  BY DEF AtHome, TokenUrl, RegistryUrl, ApiUrl
<1>3. [Empty EXCEPT !.dials = {RegistryUrl}].dials = {RegistryUrl}
  BY DEF Empty
<1> QED BY <1>1, <1>2, <1>3 DEF Home

\* The exchanges for a token, each at an allow-listed URL: what is sent goes
\* elsewhere only with a redirect that keeps it.
LEMMA ExchangesHome ==
    ASSUME NEW away, NEW image, NEW redirects, NEW n \in Nat, DOMAIN redirects = 1..n,
           \A i \in 1..n : Kept(redirects[i], image.grant[i].moved, away)
    PROVE  Home(Exchanges(image, redirects), away)
<1> DEFINE rs == [i \in DOMAIN redirects |->
                    Then(InTime(image, "token"), Exchange(redirects[i], TokenUrl, image.grant[i]))]
<1>1. Exchanges(image, redirects) = InOrder(rs)
  BY DEF Exchanges
<1>2. DOMAIN rs = 1..n
  OBVIOUS
<1>3. ASSUME NEW i \in 1..n PROVE Home(rs[i], away)
  <2>1. Home(Exchange(redirects[i], TokenUrl, image.grant[i]), away)
    BY HomeSteps, SendsHome
  <2> QED BY <2>1, HomeSteps, HomeThen
<1> HIDE DEF rs
<1> QED BY <1>1, <1>2, <1>3, FiniteSeq, HomeInOrder

\* One exchange.
LEMMA OneExchange ==
    ASSUME NEW away, NEW image, NEW first, Kept(first, image.grant[1].moved, away)
    PROVE  Home(Exchanges(image, <<first>>), away)
<1> DEFINE redirects == <<first>>
<1>1. DOMAIN redirects = 1..1 /\ \A i \in 1..1 : Kept(redirects[i], image.grant[i].moved, away)
  OBVIOUS
<1> HIDE DEF redirects
<1>2. Home(Exchanges(image, redirects), away)
  BY <1>1, ExchangesHome
<1> QED BY <1>2 DEF redirects

\* The manifest is read at the registry.
LEMMA ManifestHome == ASSUME NEW away, NEW image PROVE Home(Manifest(image), away)
<1> DEFINE m == image.manifest
           Get(n) == InOrder(<<InTime(image, "manifest"), [Empty EXCEPT !.dials = {RegistryUrl}],
                               Guarded(n.status = "ok" /\ n.type # "noJson", Empty)>>)
           index == IF IsIndex(m) THEN Guarded(pickPlatform(m.choices).digest # Unsaid, Get(Chosen(m)))
                    ELSE Empty
           fits == Guarded(Chosen(m).type = "image" /\ Len(Chosen(m).layers) <= MaxLayers, Empty)
<1>1. Manifest(image) = InOrder(<<Get(m), index, fits>>)
  BY DEF Manifest
<1>2. \A n : Home(Get(n), away)
  BY HomeSteps, HomeSimple, HomeGuarded, HomeThree
<1> HIDE DEF Get
<1>3. Home(index, away)
  BY <1>2, HomeSimple, HomeGuarded
<1>4. Home(fits, away)
  BY HomeSimple, HomeGuarded
<1> HIDE DEF m, index, fits
<1> QED BY <1>1, <1>2, <1>3, <1>4, HomeThree

\* A redirect is followed with the token only to the registry itself.
LEMMA BlobHome ==
    ASSUME NEW away, NEW layer, NEW allowed, allowed /\ layer.to.host = "own" => AtHome(layer.to)
    PROVE  Home(Blob(layer, allowed), away)
<1> DEFINE on == [Empty EXCEPT !.done = layer.next = "ok",
                               !.dials = {u \in {layer.to} : u.host = "own"}]
           redirect == Guarded(layer.to # NoUrl /\ allowed, on)
           rest == CASE layer.status = "ok" -> Empty
                     [] layer.status = "redirect" -> redirect
                     [] OTHER -> Refused
<1>1. Blob(layer, allowed) = InOrder(<<[Empty EXCEPT !.dials = {RegistryUrl}], rest>>)
  BY DEF Blob
<1>2. on.dials = {u \in {layer.to} : u.host = "own"}
  BY DEF Empty
<1> HIDE DEF on
<1>3. allowed => Home(on, away)
  BY <1>2 DEF Home
<1>4. Home(redirect, away)
  BY <1>3, HomeGuarded
<1> HIDE DEF redirect
<1>5. Home(rest, away)
  BY <1>4, HomeSimple
<1> HIDE DEF rest
<1> QED BY <1>1, <1>5, HomeSteps, HomeAfter

\* A layer is asked for at the registry; a redirect carries no token.
LEMMA LayerHome ==
    ASSUME NEW away, NEW image, NEW layer, NEW got, Home(got, away)
    PROVE  Home(Layer(image, layer, got), away)
<1> DEFINE read == Then(got, Guarded(Unpacked(layer), Empty))
           rest == IF layer.digest \in image.cache THEN Empty ELSE read
           named == Guarded(layer.digest # Unsaid, Empty)
<1>1. Layer(image, layer, got) = InOrder(<<InTime(image, "layer"), named, rest>>)
  BY DEF Layer
<1>2. Home(named, away)
  BY HomeSimple, HomeGuarded
<1>3. Home(read, away)
  BY HomeSimple, HomeGuarded, HomeThen
<1> HIDE DEF read, named
<1>4. Home(rest, away)
  BY <1>3, HomeSimple
<1> HIDE DEF rest
<1> QED BY <1>1, <1>2, <1>4, HomeSteps, HomeThree

\* The layers of a manifest.
LEMMA LayersHome ==
    ASSUME NEW away, NEW image, Layered(image), NEW rs, DOMAIN rs = DOMAIN Chosen(image.manifest).layers,
           \A i \in DOMAIN rs : Home(rs[i], away)
    PROVE  Home(InOrder(rs), away)
<1>1. Len(Chosen(image.manifest).layers) \in Nat /\ DOMAIN rs = 1..Len(Chosen(image.manifest).layers)
  BY DEF Layered, IsSeq
<1> QED BY <1>1, FiniteSeq, HomeInOrder

\* A pull from ghcr.io.
LEMMA GhcrPullHome ==
    ASSUME NEW away, NEW image, Layered(image)
    PROVE  Home(GhcrPull(image), away)
<1> DEFINE layers == Chosen(image.manifest).layers
           rs == [i \in DOMAIN layers |-> Layer(image, layers[i], GhcrGet(layers[i]))]
<1>1. GhcrPull(image) =
        InOrder(<<InTime(image, "start"), GhcrPullToken(image), GhcrManifest(image), InOrder(rs)>>)
  BY DEF GhcrPull, Pull, Layers
<1>2. ASSUME NEW layer PROVE Home(GhcrGet(layer), away)
  <2>1. GhcrBlob(layer.to) /\ layer.to.host = "own" => AtHome(layer.to)
    BY DEF GhcrBlob, GhcrUrl, OnPath, To, AtHome
  <2> QED BY <2>1, BlobHome DEF GhcrGet
<1>3. DOMAIN rs = DOMAIN layers /\ \A i \in DOMAIN rs : Home(rs[i], away)
  BY <1>2, LayerHome
<1> HIDE DEF rs
<1>4. Home(InOrder(rs), away)
  BY <1>3, LayersHome
<1>5. Home(GhcrPullToken(image), away)
  <2>1. [image EXCEPT !.late = "never"].grant[1] = image.grant[1]
    OBVIOUS
  <2>2. Home(Exchanges([image EXCEPT !.late = "never"], <<"strip">>), away)
    BY OneExchange DEF Kept
  <2> QED BY <2>2, HomeGuarded DEF GhcrPullToken
<1>6. Home(GhcrManifest(image), away)
  BY ManifestHome DEF GhcrManifest
<1> QED BY <1>1, <1>4, <1>5, <1>6, HomeSteps, HomeFour

\* A pull from ECR.
LEMMA EcrPullHome ==
    ASSUME NEW away, NEW image, Layered(image), image.cred.session => image.grant[1].moved \in away
    PROVE  Home(EcrPull(image), away)
<1> DEFINE layers == Chosen(image.manifest).layers
           rs == [i \in DOMAIN layers |-> Layer(image, layers[i], EcrGet(layers[i]))]
<1>1. EcrPull(image) =
        InOrder(<<InTime(image, "start"), EcrPullToken(image), EcrManifest(image), InOrder(rs)>>)
  BY DEF EcrPull, Pull, Layers
<1>2. ASSUME NEW layer PROVE Home(EcrGet(layer), away)
  <2>1. EcrBlob(layer.to) /\ layer.to.host = "own" => AtHome(layer.to)
    BY DEF EcrBlob, EcrRegistryUrl, OnPath, To, AtHome
  <2> QED BY <2>1, BlobHome DEF EcrGet
<1>3. DOMAIN rs = DOMAIN layers /\ \A i \in DOMAIN rs : Home(rs[i], away)
  BY <1>2, LayerHome
<1> HIDE DEF rs
<1>4. Home(InOrder(rs), away)
  BY <1>3, LayersHome
<1>5. Home(EcrPullToken(image), away)
  <2>1. Kept(IF image.cred.session THEN "keep" ELSE "strip", image.grant[1].moved, away)
    BY DEF Kept
  <2> QED BY <2>1, OneExchange, HomeGuarded DEF EcrPullToken
<1>6. Home(EcrManifest(image), away)
  BY ManifestHome DEF EcrManifest
<1> QED BY <1>1, <1>4, <1>5, <1>6, HomeSteps, HomeFour

\* A pull from Artifact Registry.
LEMMA GcrPullHome ==
    ASSUME NEW away, NEW image, Layered(image), image.grant[1].moved \in away
    PROVE  Home(GcrPull(image), away)
<1> DEFINE layers == Chosen(image.manifest).layers
           rs == [i \in DOMAIN layers |-> Layer(image, layers[i], GcrGet(layers[i]))]
<1>1. GcrPull(image) =
        InOrder(<<InTime(image, "start"), GcrPullToken(image), GcrManifest(image), InOrder(rs)>>)
  BY DEF GcrPull, Pull, Layers
<1>2. ASSUME NEW layer PROVE Home(GcrGet(layer), away)
  <2>1. GcrBlob(layer.to) /\ layer.to.host = "own" => AtHome(layer.to)
    BY DEF GcrBlob, GcrRegistryUrl, OnPath, To, AtHome
  <2> QED BY <2>1, BlobHome DEF GcrGet
<1>3. DOMAIN rs = DOMAIN layers /\ \A i \in DOMAIN rs : Home(rs[i], away)
  BY <1>2, LayerHome
<1> HIDE DEF rs
<1>4. Home(InOrder(rs), away)
  BY <1>3, LayersHome
<1>5. Home(GcrPullToken(image), away)
  <2> DEFINE redirects == <<"keep", "strip">>
  <2>1. DOMAIN redirects = 1..2 /\ \A i \in 1..2 : Kept(redirects[i], image.grant[i].moved, away)
    BY DEF Kept
  <2> HIDE DEF redirects
  <2>2. Home(Exchanges(image, redirects), away)
    BY <2>1, ExchangesHome
  <2> QED BY <2>2, HomeGuarded DEF GcrPullToken, redirects
<1>6. Home(GcrManifest(image), away)
  BY ManifestHome DEF GcrManifest
<1> QED BY <1>1, <1>4, <1>5, <1>6, HomeSteps, HomeFour

\* A pull from ACR.
LEMMA AcrPullHome ==
    ASSUME NEW away, NEW image, Layered(image), \A i \in 1..3 : image.grant[i].moved \in away
    PROVE  Home(AcrPull(image), away)
<1> DEFINE layers == Chosen(image.manifest).layers
           rs == [i \in DOMAIN layers |-> Layer(image, layers[i], AcrGet(layers[i]))]
<1>1. AcrPull(image) =
        InOrder(<<InTime(image, "start"), AcrPullToken(image), AcrManifest(image), InOrder(rs)>>)
  BY DEF AcrPull, Pull, Layers
<1>2. ASSUME NEW layer PROVE Home(AcrGet(layer), away)
  <2>1. AcrBlob(layer.to) /\ layer.to.host = "own" => AtHome(layer.to)
    BY DEF AcrBlob, To, AtHome
  <2> QED BY <2>1, BlobHome DEF AcrGet
<1>3. DOMAIN rs = DOMAIN layers /\ \A i \in DOMAIN rs : Home(rs[i], away)
  BY <1>2, LayerHome
<1> HIDE DEF rs
<1>4. Home(InOrder(rs), away)
  BY <1>3, LayersHome
<1>5. Home(AcrPullToken(image), away)
  <2> DEFINE redirects == <<"keep", "keep", "keep">>
  <2>1. DOMAIN redirects = 1..3 /\ \A i \in 1..3 : Kept(redirects[i], image.grant[i].moved, away)
    BY DEF Kept
  <2> HIDE DEF redirects
  <2>2. Home(Exchanges(image, redirects), away)
    BY <2>1, ExchangesHome
  <2> QED BY <2>2, HomeGuarded DEF AcrPullToken, redirects
<1>6. Home(AcrManifest(image), away)
  BY ManifestHome DEF AcrManifest
<1> QED BY <1>1, <1>4, <1>5, <1>6, HomeSteps, HomeFour

\* A pull from Docker Hub.
LEMMA DockerhubPullHome ==
    ASSUME NEW away, NEW image, Layered(image)
    PROVE  Home(DockerhubPull(image), away)
<1> DEFINE layers == Chosen(image.manifest).layers
           rs == [i \in DOMAIN layers |-> Layer(image, layers[i], DockerhubGet(layers[i]))]
<1>1. DockerhubPull(image) =
        InOrder(<<InTime(image, "start"), DockerhubPullToken(image), DockerhubManifest(image), InOrder(rs)>>)
  BY DEF DockerhubPull, Pull, Layers
<1>2. ASSUME NEW layer PROVE Home(DockerhubGet(layer), away)
  <2>1. DockerhubBlob(layer.to) /\ layer.to.host = "own" => AtHome(layer.to)
    BY DEF DockerhubBlob, To, AtHome
  <2> QED BY <2>1, BlobHome DEF DockerhubGet
<1>3. DOMAIN rs = DOMAIN layers /\ \A i \in DOMAIN rs : Home(rs[i], away)
  BY <1>2, LayerHome
<1> HIDE DEF rs
<1>4. Home(InOrder(rs), away)
  BY <1>3, LayersHome
<1>5. Home(DockerhubPullToken(image), away)
  BY OneExchange, HomeGuarded DEF DockerhubPullToken, Kept
<1>6. Home(DockerhubManifest(image), away)
  BY ManifestHome DEF DockerhubManifest
<1> QED BY <1>1, <1>4, <1>5, <1>6, HomeSteps, HomeFour

\* A pull from quay.io.
LEMMA QuayPullHome ==
    ASSUME NEW away, NEW image, Layered(image)
    PROVE  Home(QuayPull(image), away)
<1> DEFINE layers == Chosen(image.manifest).layers
           rs == [i \in DOMAIN layers |-> Layer(image, layers[i], QuayGet(layers[i]))]
<1>1. QuayPull(image) =
        InOrder(<<InTime(image, "start"), QuayPullToken(image), QuayManifest(image), InOrder(rs)>>)
  BY DEF QuayPull, Pull, Layers
<1>2. ASSUME NEW layer PROVE Home(QuayGet(layer), away)
  <2>1. QuayBlob(layer.to) /\ layer.to.host = "own" => AtHome(layer.to)
    BY DEF QuayBlob, To, AtHome
  <2> QED BY <2>1, BlobHome DEF QuayGet
<1>3. DOMAIN rs = DOMAIN layers /\ \A i \in DOMAIN rs : Home(rs[i], away)
  BY <1>2, LayerHome
<1> HIDE DEF rs
<1>4. Home(InOrder(rs), away)
  BY <1>3, LayersHome
<1>5. Home(QuayPullToken(image), away)
  BY OneExchange, HomeGuarded DEF QuayPullToken, Kept
<1>6. Home(QuayManifest(image), away)
  BY ManifestHome DEF QuayManifest
<1> QED BY <1>1, <1>4, <1>5, <1>6, HomeSteps, HomeFour

\* A container job, whatever its registry.
LEMMA ExecuteHome ==
    ASSUME NEW away, NEW kind \in RegistryKinds, NEW image, Layered(image),
           kind = "ecr" /\ image.cred.session => image.grant[1].moved \in away,
           kind = "gcr" => image.grant[1].moved \in away,
           kind = "acr" => \A i \in 1..3 : image.grant[i].moved \in away
    PROVE  Home(execute(kind, image), away)
<1> DEFINE pulled == CASE kind = "ghcr" -> GhcrPull(image) [] kind = "ecr" -> EcrPull(image)
                       [] kind = "gcr" -> GcrPull(image) [] kind = "acr" -> AcrPull(image)
                       [] kind = "dockerhub" -> DockerhubPull(image) [] kind = "quay" -> QuayPull(image)
           read == IF pulled.done THEN inventoryImage(Snapshots(image)) ELSE Refused
           scanned == InOrder(<<pulled, InTime(image, "after"), read>>)
           matched == Guarded(image.late # "match" \/ scanned.items = {}, Empty)
<1>1. execute(kind, image) = Whole(Then(scanned, matched))
  BY DEF execute, scanImage
<1>2. Home(pulled, away)
  <2>1. kind \in {"ghcr", "ecr", "gcr", "acr", "dockerhub", "quay"}
    BY DEF RegistryKinds, Names
  <2> QED BY <2>1, GhcrPullHome, EcrPullHome, GcrPullHome, AcrPullHome, DockerhubPullHome, QuayPullHome
<1> HIDE DEF pulled
<1>3. Home(inventoryImage(Snapshots(image)), away)
  <2>1. PICK ok, all : inventoryImage(Snapshots(image)) = Guarded(ok, [Empty EXCEPT !.items = all])
    BY DEF inventoryImage
  <2>2. Home([Empty EXCEPT !.items = all], away)
    BY DEF Home, Empty
  <2> QED BY <2>1, <2>2, HomeGuarded
<1>4. Home(read, away)
  BY <1>3, HomeSimple
<1> HIDE DEF read
<1>5. Home(scanned, away)
  BY <1>2, <1>4, HomeSteps, HomeThree
<1>6. Home(matched, away)
  BY HomeSimple, HomeGuarded
<1> HIDE DEF scanned, matched
<1> QED BY <1>1, <1>5, <1>6, HomeThen, HomeWhole

-----------------------------------------------------------------------------
(***************************************************************************)
(* Surfaces: where a connection goes                                       *)
(***************************************************************************)

\* Two parts in order connect where one of them does.
LEMMA InOrderPair ==
    ASSUME NEW a, NEW b
    PROVE  InOrder(<<a, b>>).dials \subseteq a.dials \cup b.dials
<1> DEFINE rs == <<a, b>>
<1>0. DOMAIN rs = 1..2 /\ rs[1] = a /\ rs[2] = b
  OBVIOUS
<1> HIDE DEF rs
<1>1. Finite(rs) /\ DOMAIN rs = 1..2 /\ rs[1] = a /\ rs[2] = b
  BY <1>0, FiniteSeq
<1>2. \A i \in DOMAIN rs : rs[i].dials \subseteq a.dials \cup b.dials
  BY <1>1
<1>3. \A u \in InOrder(rs).dials : \E i \in DOMAIN rs : u \in rs[i].dials
  BY <1>1, InOrderFrom
<1>4. InOrder(rs).dials \subseteq a.dials \cup b.dials
  BY <1>2, <1>3
<1> QED BY <1>4 DEF rs

\* A host as look-ups give it: an address is not looked up.
Looked(h) == IsSeq(h.a.ips) /\ IsSeq(h.aaaa.ips) /\ (h.literal => h.aaaa.ips = <<>>)
\* What may be done to an address of h.
Vetted(h, ip) ==
    /\ PublicAddress(ip) /\ ip \in Where(h)
    /\ \A other \in Where(h) : PublicAddress(other) \/ LookupLost(h)

\* The addresses of two look-ups.
LEMMA ToSetJoined ==
    ASSUME NEW s, NEW t, IsSeq(s), IsSeq(t)
    PROVE  ToSet(s \o t) = ToSet(s) \cup ToSet(t)
<1>1. Len(s) \in Nat /\ Len(t) \in Nat /\ DOMAIN s = 1..Len(s) /\ DOMAIN t = 1..Len(t)
  BY DEF IsSeq
<1> DEFINE U == ToSet(s) \cup ToSet(t)
<1>2. s \in Seq(U) /\ t \in Seq(U)
  BY DEF IsSeq
<1> HIDE DEF U
<1>3. s \o t \in Seq(U) /\ Len(s \o t) = Len(s) + Len(t)
      /\ \A i \in 1..(Len(s) + Len(t)) : (s \o t)[i] = IF i <= Len(s) THEN s[i] ELSE t[i - Len(s)]
  BY <1>2
<1>4. DOMAIN (s \o t) = 1..(Len(s) + Len(t))
  BY <1>3
<1>5. ASSUME NEW i \in DOMAIN (s \o t) PROVE (s \o t)[i] \in ToSet(s) \cup ToSet(t)
  BY <1>1, <1>3, <1>4 DEF ToSet
<1>6. ASSUME NEW i \in DOMAIN s PROVE s[i] \in ToSet(s \o t)
  <2>1. i \in DOMAIN (s \o t) /\ (s \o t)[i] = s[i]
    BY <1>1, <1>3, <1>4
  <2> QED BY <2>1 DEF ToSet
<1>7. ASSUME NEW i \in DOMAIN t PROVE t[i] \in ToSet(s \o t)
  <2>1. i + Len(s) \in DOMAIN (s \o t) /\ (s \o t)[i + Len(s)] = t[i]
    BY <1>1, <1>3, <1>4
  <2> QED BY <2>1 DEF ToSet
<1> QED BY <1>5, <1>6, <1>7 DEF ToSet

\* The addresses of a host are those its look-ups gave, less what a failure lost.
LEMMA AddressesOf ==
    ASSUME NEW h, Looked(h)
    PROVE  /\ ToSet(HostAddresses(h)) \subseteq Where(h)
           /\ LookupLost(h) \/ ToSet(HostAddresses(h)) = Where(h)
<1>1. IsSeq(<<>>) /\ ToSet(<<>>) = {}
  BY DEF IsSeq, ToSet
<1>2. CASE h.literal
  BY <1>1, <1>2 DEF Looked, HostAddresses, Where
<1>3. CASE ~h.literal
  <2>1. HostAddresses(h) = Answer(h.a) \o Answer(h.aaaa)
    BY <1>3 DEF HostAddresses
  <2>2. \A l : Answer(l) = l.ips \/ Answer(l) = <<>>
    BY DEF Answer
  <2>3. IsSeq(Answer(h.a)) /\ IsSeq(Answer(h.aaaa))
    BY <1>1, <2>2 DEF Looked
  <2>4. ToSet(HostAddresses(h)) = ToSet(Answer(h.a)) \cup ToSet(Answer(h.aaaa))
    BY <2>1, <2>3, ToSetJoined
  <2>5. h.a.ok /\ h.aaaa.ok => Answer(h.a) = h.a.ips /\ Answer(h.aaaa) = h.aaaa.ips
    BY DEF Answer
  <2>6. ToSet(HostAddresses(h)) \subseteq Where(h)
    BY <1>1, <2>2, <2>4 DEF Where
  <2>7. LookupLost(h) \/ ToSet(HostAddresses(h)) = Where(h)
    BY <1>3, <2>4, <2>5 DEF LookupLost, Where
  <2> QED BY <2>6, <2>7
<1> QED BY <1>2, <1>3

\* A probe connects only to an address of a host that was vetted as a whole.
LEMMA ProbeVetted ==
    ASSUME NEW kind, NEW h, Looked(h)
    PROVE  \A ip \in probe(kind, h).dials : Vetted(h, ip)
<1> DEFINE ips == ToSet(HostAddresses(h))
           ok == normalizeHostTarget(kind, h) /\ resolveVettedHost(h)
           reach == [Empty EXCEPT !.dials = ips, !.done = ~h.late]
<1>1. probe(kind, h) = Guarded(ok, Then(reach, findingsFromProbe(h)))
  BY DEF probe
<1>2. reach.dials = ips /\ findingsFromProbe(h).dials = {}
  BY DEF Empty, findingsFromProbe
<1> HIDE DEF reach
<1>3. Then(reach, findingsFromProbe(h)).dials = ips
  BY <1>2 DEF Then
<1>4. probe(kind, h).dials \subseteq ips /\ (probe(kind, h).dials # {} => resolveVettedHost(h))
  BY <1>1, <1>3 DEF Guarded, Refused, Empty
<1>5. resolveVettedHost(h) => \A ip \in ips : PublicAddress(ip)
  BY DEF resolveVettedHost
<1> HIDE DEF ips
<1>6. ips \subseteq Where(h) /\ (LookupLost(h) \/ ips = Where(h))
  BY AddressesOf DEF ips
<1> QED BY <1>4, <1>5, <1>6 DEF Vetted

\* The names of a finite set in some order.
LEMMA SetToSeqOf ==
    ASSUME NEW S, IsFiniteSet(S)
    PROVE  /\ DOMAIN SetToSeq(S) = 1..Cardinality(S) /\ Cardinality(S) \in Nat
           /\ \A i \in DOMAIN SetToSeq(S) : SetToSeq(S)[i] \in S
           /\ \A x \in S : \E i \in DOMAIN SetToSeq(S) : SetToSeq(S)[i] = x
<1>1. Cardinality(S) \in Nat /\ ExistsBijection(1..Cardinality(S), S)
  BY FS_CardinalityType
<1>2. \E f \in [1..Cardinality(S) -> S] : IsInjective(f)
  BY <1>1 DEF ExistsBijection, Bijection, Injection
<1>3. SetToSeq(S) \in [1..Cardinality(S) -> S] /\ IsInjective(SetToSeq(S))
  BY <1>2 DEF SetToSeq
<1>4. Cardinality(1..Cardinality(S)) = Cardinality(S)
  BY <1>1, FS_Interval
<1>5. SetToSeq(S) \in Injection(1..Cardinality(S), S)
  BY <1>3 DEF Injection
<1>6. SetToSeq(S) \in Surjection(1..Cardinality(S), S)
  BY <1>4, <1>5, FS_Injection
<1>7. \A x \in S : \E i \in 1..Cardinality(S) : SetToSeq(S)[i] = x
  BY <1>6 DEF Surjection
<1> QED BY <1>1, <1>3, <1>7

\* The values of a function on a finite set are finitely many.
LEMMA ImageFinite ==
    ASSUME NEW S, IsFiniteSet(S), NEW f, DOMAIN f = S
    PROVE  IsFiniteSet({f[x] : x \in S})
<1> DEFINE T == {f[x] : x \in S}
           g == [x \in S |-> f[x]]
<1>1. g \in Surjection(S, T)
  BY DEF Surjection
<1> QED BY <1>1, FS_Surjection

\* A domain as its log and its name servers give it: finitely many names.
LogNames(log) == UNION {log.pages[i].names : i \in DOMAIN log.pages}
AllNames(log, ns) == LogNames(log) \cup ns.names
OwnedNames(log, ns) == {n \in AllNames(log, ns) : n.owned}
Logged(log, ns) ==
    IsSeq(log.pages) /\ (\A i \in DOMAIN log.pages : IsFiniteSet(log.pages[i].names)) /\ IsFiniteSet(ns.names)

\* A log has finitely many names.
LEMMA LogFinite ==
    ASSUME NEW log, NEW ns, Logged(log, ns)
    PROVE  IsFiniteSet(LogNames(log))
<1> DEFINE D == DOMAIN log.pages
           f == [i \in D |-> log.pages[i].names]
<1>1. IsFiniteSet(D)
  <2>1. DOMAIN log.pages = 1..Len(log.pages) /\ Len(log.pages) \in Nat
    BY DEF Logged, IsSeq
  <2> QED BY <2>1, FS_Interval
<1>2. IsFiniteSet({f[i] : i \in D})
  <2> HIDE DEF f, D
  <2>1. DOMAIN f = D
    BY DEF f
  <2> QED BY <1>1, <2>1, ImageFinite
<1>3. {f[i] : i \in D} = {log.pages[i].names : i \in DOMAIN log.pages}
  OBVIOUS
<1>4. IsFiniteSet({log.pages[i].names : i \in DOMAIN log.pages})
  BY <1>2, <1>3
<1>5. \A T \in {log.pages[i].names : i \in DOMAIN log.pages} : IsFiniteSet(T)
  BY DEF Logged
<1> QED BY <1>4, <1>5, FS_UNION DEF LogNames

\* Enumeration connects to no host, and finds owned names of the log and the name servers.
LEMMA EnumerateNames ==
    ASSUME NEW log, NEW ns, Logged(log, ns)
    PROVE  /\ IsFiniteSet(enumerate(log, ns).items) /\ enumerate(log, ns).dials = {}
           /\ \A k \in enumerate(log, ns).items : \E n \in AllNames(log, ns) : n.owned /\ n.key = k
<1> DEFINE ct == collectCrtShNames(log)
           found == ct.items \cup (IF ns.ok THEN ns.names ELSE {})
           owned == {m \in found : m.owned}
           keys == {n.key : n \in owned}
           logged == LogNames(log)
<1>1. ct.items \subseteq logged /\ ct.dials = {}
  <2> DEFINE whole == {n \in 1..MaxCtPages : n \in DOMAIN log.pages /\ Complete(log.pages, n)}
             last == CHOOSE n \in whole : TRUE
             names == UNION {log.pages[i].names : i \in 1..last}
             ok == log.ips # {} /\ (\A ip \in log.ips : PublicAddress(ip)) /\ whole # {}
  <2>1. ct = Guarded(ok, [Empty EXCEPT !.items = names])
    BY DEF collectCrtShNames
  <2>2. ok => last \in DOMAIN log.pages
    OBVIOUS
  <2>3. DOMAIN log.pages = 1..Len(log.pages) /\ Len(log.pages) \in Nat
    BY DEF Logged, IsSeq
  <2> HIDE DEF last
  <2>4. last \in DOMAIN log.pages => 1..last \subseteq DOMAIN log.pages
    BY <2>3
  <2>5. ok => names \subseteq logged
    BY <2>2, <2>4 DEF LogNames
  <2> HIDE DEF ok, names, logged
  <2> QED BY <2>1, <2>5 DEF Guarded, Refused, Empty
<1>2. IsFiniteSet(logged)
  BY LogFinite
<1> DEFINE kept == {k \in keys : Cardinality({j \in keys : j <= k}) <= MaxEnumNames}
<1>7. enumerate(log, ns) = [ct EXCEPT !.items = kept]
  BY DEF enumerate
<1>11. logged \cup ns.names = AllNames(log, ns)
  BY DEF AllNames
<1> HIDE DEF ct, logged
<1>3. (\A n \in owned : n.owned) /\ owned \subseteq logged \cup ns.names
  BY <1>1
<1>4. IsFiniteSet(owned)
  <2>1. IsFiniteSet(logged \cup ns.names)
    BY <1>2, FS_Union DEF Logged
  <2> HIDE DEF owned
  <2> QED BY <1>3, <2>1, FS_Subset
<1>5. IsFiniteSet(keys)
  <2> DEFINE f == [n \in owned |-> n.key]
  <2>1. IsFiniteSet({f[n] : n \in owned})
    <3> HIDE DEF owned, f
    <3>1. DOMAIN f = owned
      BY DEF f
    <3> QED BY <1>4, <3>1, ImageFinite
  <2>2. {f[n] : n \in owned} = keys
    OBVIOUS
  <2> QED BY <2>1, <2>2
<1>6. \A k \in keys : \E n \in AllNames(log, ns) : n.owned /\ n.key = k
  <2> HIDE DEF owned
  <2>1. \A n \in owned : n.owned /\ n \in AllNames(log, ns)
    BY <1>3, <1>11
  <2> QED BY <2>1
<1>10. kept \subseteq keys
  OBVIOUS
<1> HIDE DEF kept
<1>8. "items" \in DOMAIN ct /\ enumerate(log, ns).items = kept /\ enumerate(log, ns).dials = ct.dials
  <2>1. DOMAIN ct = {"items", "done", "dials"}
    BY DEF ct, collectCrtShNames, Guarded, Refused, Empty
  <2> QED BY <1>7, <2>1
<1> HIDE DEF keys
<1>9. IsFiniteSet(kept)
  BY <1>5, <1>10, FS_Subset
<1> QED BY <1>1, <1>6, <1>8, <1>9, <1>10

\* The hosts of a scan, as InScope has them.
ScopeOf(kind, apex, log, ns, hosts) ==
    {apex} \cup IF kind = "domain" THEN {hosts[n.key] : n \in {m \in OwnedNames(log, ns) : m.key # apex.key}}
                ELSE {}

\* A scan connects only to addresses vetted for a host in scope.
LEMMA ScanVetted ==
    ASSUME NEW kind, NEW apex, NEW log, NEW ns, NEW hosts, Logged(log, ns),
           \A h \in ScopeOf(kind, apex, log, ns, hosts) : Looked(h)
    PROVE  \A ip \in ScanSurface(kind, apex, log, ns, hosts).dials :
             \E h \in ScopeOf(kind, apex, log, ns, hosts) : Vetted(h, ip)
<1> DEFINE names == enumerate(log, ns)
           below == names.items \ {apex.key}
           subs == SetToSeq(below)
           rs == [i \in DOMAIN subs |-> probe("domain", hosts[subs[i]])]
           quiet == Silent(names)
           rest == IF kind = "domain" THEN Then(quiet, InOrder(rs)) ELSE Empty
           scope == ScopeOf(kind, apex, log, ns, hosts)
<1>1. ScanSurface(kind, apex, log, ns, hosts) = Whole(InOrder(<<probe(kind, apex), rest>>))
  BY DEF ScanSurface
<1>2. quiet.dials = {}
  BY EnumerateNames DEF Silent
<1>3. IsFiniteSet(below) /\ \A k \in below : \E n \in AllNames(log, ns) : n.owned /\ n.key = k /\ k # apex.key
  BY EnumerateNames, FS_Subset
<1> HIDE DEF names, below, quiet
<1>4. DOMAIN subs = 1..Cardinality(below) /\ Cardinality(below) \in Nat /\ \A i \in DOMAIN subs : subs[i] \in below
  BY <1>3, SetToSeqOf
<1> HIDE DEF subs
<1>5. DOMAIN rs = DOMAIN subs /\ Finite(rs)
  BY <1>4, FiniteSeq
<1>6. ASSUME kind = "domain", NEW i \in DOMAIN rs, NEW ip \in rs[i].dials
      PROVE  \E h \in scope : Vetted(h, ip)
  <2>1. PICK n \in AllNames(log, ns) : n.owned /\ n.key = subs[i] /\ subs[i] # apex.key
    BY <1>3, <1>4, <1>6
  <2>2. hosts[subs[i]] \in scope
    BY <1>6, <2>1 DEF ScopeOf, OwnedNames
  <2>3. Looked(hosts[subs[i]])
    BY <2>2
  <2>4. ip \in probe("domain", hosts[subs[i]]).dials
    BY <1>6
  <2> QED BY <2>2, <2>3, <2>4, ProbeVetted
<1> HIDE DEF rs
<1>7. ASSUME NEW ip \in rest.dials PROVE \E h \in scope : Vetted(h, ip)
  <2>1. CASE kind = "domain"
    <3>1. ip \in Then(quiet, InOrder(rs)).dials
      BY <1>7, <2>1
    <3>2. ip \in InOrder(rs).dials
      BY <1>2, <3>1 DEF Then
    <3>3. PICK i \in DOMAIN rs : ip \in rs[i].dials
      BY <1>5, <3>2, InOrderFrom
    <3> QED BY <1>6, <2>1, <3>3
  <2>2. CASE kind # "domain"
    BY <1>7, <2>2 DEF Empty
  <2> QED BY <2>1, <2>2
<1>8. ASSUME NEW ip \in probe(kind, apex).dials PROVE \E h \in scope : Vetted(h, ip)
  <2>1. apex \in scope
    BY DEF ScopeOf
  <2>2. Looked(apex)
    BY <2>1
  <2> QED BY <2>1, <2>2, <1>8, ProbeVetted
<1> HIDE DEF rest, scope
<1>9. ScanSurface(kind, apex, log, ns, hosts).dials = InOrder(<<probe(kind, apex), rest>>).dials
  BY <1>1 DEF Whole, Silent
<1>10. ScanSurface(kind, apex, log, ns, hosts).dials \subseteq probe(kind, apex).dials \cup rest.dials
  BY <1>9, InOrderPair
<1>11. \A ip \in ScanSurface(kind, apex, log, ns, hosts).dials : \E h \in scope : Vetted(h, ip)
  BY <1>7, <1>8, <1>10
<1> QED BY <1>11 DEF scope

-----------------------------------------------------------------------------
(***************************************************************************)
(* Surfaces: what is reported                                              *)
(***************************************************************************)
\* A non-empty finite set of integers has a smallest element.
LEMMA MinOfFinite ==
    ASSUME NEW S, FiniteInts(S), S # {}
    PROVE  Min(S) \in S /\ \A i \in S : Min(S) <= i
<1> DEFINE f == [i \in S |-> -i]
           T == {f[i] : i \in S}
<1>1. IsFiniteSet(S) /\ \A i \in S : i \in Int
  BY DEF FiniteInts
<1>2. IsFiniteSet(T)
  <2>1. DOMAIN f = S
    OBVIOUS
  <2> HIDE DEF f
  <2> QED BY <1>1, <2>1, ImageFinite
<1>3. FiniteInts(T) /\ T # {}
  BY <1>1, <1>2 DEF FiniteInts
<1> HIDE DEF T
<1>4. Max(T) \in T /\ \A t \in T : t <= Max(T)
  BY <1>3, MaxOfFinite
<1>5. PICK m \in S : Max(T) = -m
  BY <1>4 DEF T
<1>6. \A i \in S : m <= i
  <2> SUFFICES ASSUME NEW i \in S PROVE m <= i
    OBVIOUS
  <2>1. -i <= -m
    BY <1>4, <1>5 DEF T
  <2> QED BY <1>1, <2>1
<1> QED BY <1>6 DEF Min

\* The addresses that are probed, in order.
LEMMA AddressesInOrder ==
    ASSUME NEW h, Looked(h)
    PROVE  /\ DOMAIN HostAddresses(h) = 1..Len(HostAddresses(h)) /\ Len(HostAddresses(h)) \in Nat
           /\ \A i \in DOMAIN HostAddresses(h) : HostAddresses(h)[i] \in Where(h)
           /\ HostAddresses(h) = <<>> <=> ToSet(HostAddresses(h)) = {}
<1>1. \E T : HostAddresses(h) \in Seq(T)
  <2>1. CASE h.literal
    BY <2>1 DEF Looked, HostAddresses, IsSeq
  <2>2. CASE ~h.literal
    <3> DEFINE T == ToSet(h.a.ips) \cup ToSet(h.aaaa.ips)
    <3>1. h.a.ips \in Seq(T) /\ h.aaaa.ips \in Seq(T) /\ <<>> \in Seq(T)
      BY DEF Looked, IsSeq
    <3>2. Answer(h.a) \in Seq(T) /\ Answer(h.aaaa) \in Seq(T)
      BY <3>1 DEF Answer
    <3> HIDE DEF T
    <3>3. Answer(h.a) \o Answer(h.aaaa) \in Seq(T)
      BY <3>2
    <3> QED BY <2>2, <3>3 DEF HostAddresses
  <2> QED BY <2>1, <2>2
<1> DEFINE ips == HostAddresses(h)
<1>2. ToSet(ips) \subseteq Where(h)
  BY AddressesOf
<1> HIDE DEF ips
<1>3. DOMAIN ips = 1..Len(ips) /\ Len(ips) \in Nat
  BY <1>1 DEF ips
<1>4. \A i \in DOMAIN ips : ips[i] \in ToSet(ips)
  BY DEF ToSet
<1>5. ips = <<>> <=> Len(ips) = 0
  BY <1>1 DEF ips
<1>6. ToSet(ips) = {} <=> DOMAIN ips = {}
  BY DEF ToSet
<1>7. ips = <<>> <=> ToSet(ips) = {}
  BY <1>3, <1>5, <1>6
<1> QED BY <1>2, <1>3, <1>4, <1>7 DEF ips

\* An open port is one of an address of the host; all of them are, if no look-up failed.
LEMMA OpenPorts ==
    ASSUME NEW h, Looked(h)
    PROVE  /\ \A port \in scanCommonPorts(h) : port \in ToSet(CommonPorts) /\ Shows(h, port)
           /\ LookupLost(h) \/ \A port \in ToSet(CommonPorts) : Shows(h, port) => port \in scanCommonPorts(h)
  BY AddressesOf DEF scanCommonPorts, tcpConnectAnyVettedIp, Shows

\* The root page is asked for on an open port.
LEMMA RootPortOpen ==
    ASSUME NEW h, RootPort(h) # 0
    PROVE  RootPort(h) \in scanCommonPorts(h)
<1> DEFINE open == scanCommonPorts(h)
           asked == IF open \cap HttpsPorts # {} THEN open \cap HttpsPorts ELSE open
           at == {i \in DOMAIN CommonPorts : CommonPorts[i] \in asked}
<1>1. open # {} /\ RootPort(h) = CommonPorts[Min(at)]
  BY DEF RootPort
<1>2. open \subseteq ToSet(CommonPorts)
  BY DEF scanCommonPorts
<1> HIDE DEF open
<1>3. asked # {} /\ asked \subseteq open
  BY <1>1
<1> HIDE DEF asked
<1>4. at # {} /\ at \subseteq DOMAIN CommonPorts
  <2>1. PICK port \in asked : TRUE
    BY <1>3
  <2>2. port \in ToSet(CommonPorts)
    BY <1>2, <1>3
  <2>3. PICK i \in DOMAIN CommonPorts : CommonPorts[i] = port
    BY <2>2 DEF ToSet
  <2> QED BY <2>3
<1>5. DOMAIN CommonPorts = 1..11
  BY DEF CommonPorts
<1>6. FiniteInts(at)
  <2>1. IsFiniteSet(1..11)
    <3>1. PICK n \in Nat : n = 11
      OBVIOUS
    <3>2. IsFiniteSet(1..n)
      BY FS_Interval
    <3> QED BY <3>1, <3>2
  <2>2. at \in SUBSET (1..11)
    BY <1>4, <1>5
  <2> HIDE DEF at
  <2>3. IsFiniteSet(at)
    BY <2>1, <2>2, FS_Subset
  <2> QED BY <2>2, <2>3 DEF FiniteInts
<1>7. Min(at) \in at
  <2> HIDE DEF at
  <2> QED BY <1>4, <1>6, MinOfFinite
<1> QED BY <1>1, <1>3, <1>7 DEF open

\* What is said of a certificate is said of one that an address of the host shows.
LEMMA CertsShown ==
    ASSUME NEW h, Looked(h), NEW port, NEW flaw \in tlsHandshakeGetMetadata(h, port)
    PROVE  \E ip \in Where(h) : <<ip, port>> \in DOMAIN h.certs /\ flaw \in h.certs[<<ip, port>>]
<1> DEFINE ips == HostAddresses(h)
           shown == {i \in DOMAIN ips : <<ips[i], port>> \in DOMAIN h.certs}
<1>1. shown # {} /\ flaw \in h.certs[<<ips[Min(shown)], port>>]
  BY DEF tlsHandshakeGetMetadata
<1>2. DOMAIN ips = 1..Len(ips) /\ Len(ips) \in Nat /\ \A i \in DOMAIN ips : ips[i] \in Where(h)
  BY AddressesInOrder
<1> HIDE DEF ips
<1>3. FiniteInts(shown)
  <2>1. IsFiniteSet(1..Len(ips))
    BY <1>2, FS_Interval
  <2>2. shown \in SUBSET (1..Len(ips))
    BY <1>2
  <2> HIDE DEF shown
  <2>3. IsFiniteSet(shown)
    BY <2>1, <2>2, FS_Subset
  <2> QED BY <1>2, <2>2, <2>3 DEF FiniteInts
<1>4. Min(shown) \in shown
  <2> HIDE DEF shown
  <2> QED BY <1>1, <1>3, MinOfFinite
<1>5. ips[Min(shown)] \in Where(h) /\ <<ips[Min(shown)], port>> \in DOMAIN h.certs
  BY <1>2, <1>4
<1> QED BY <1>1, <1>5

\* What is said to be missing is missing, if the page was asked for where it is.
LEMMA HeadersMissing ==
    ASSUME NEW h, Looked(h), RootPort(h) # 0, NEW x \in Headers \ rootSecurityHeaders(h)
    PROVE  Shows(h, RootPort(h)) /\ (x \in Lacks(h) \/ Unasked(h))
<1> DEFINE port == RootPort(h)
           there == <<HostAddresses(h)[1], port>> \in h.open
<1>1. port \in ToSet(CommonPorts) /\ Shows(h, port)
  BY RootPortOpen, OpenPorts
<1>2. CASE there
  <2>1. \A answer : httpRootRequest(h, answer) = answer
    BY <1>2 DEF httpRootRequest
  <2>2. rootSecurityHeaders(h) = IF h.head.status \in {405, 501} THEN h.get.headers ELSE h.head.headers
    BY <2>1 DEF rootSecurityHeaders
  <2> QED BY <1>1, <2>2 DEF Lacks
<1>3. CASE ~there
  <2>1. PICK ip \in Where(h) : <<ip, port>> \in h.open
    BY <1>1 DEF Shows
  <2> HIDE DEF port
  <2>2. Unasked(h)
    BY <1>1, <1>3, <2>1 DEF Unasked
  <2> QED BY <1>1, <2>2 DEF port
<1> QED BY <1>2, <1>3

-----------------------------------------------------------------------------
Flaws == {"self-signed", "expired", "expiring"}
\* What a look at a host can give: certificates have the three flaws at most.
Viewed(h) == Looked(h) /\ \A e \in DOMAIN h.certs : h.certs[e] \subseteq Flaws
\* A finding about h is so.
SaidOf(h, f) ==
    /\ f[2] = h.key
    /\ f[1] = "open-port" => Shows(h, f[3])
    /\ f[1] = "dangling-cname" => h.cname /\ (Where(h) = {} \/ LookupLost(h))
    /\ f[1] \in {"self-signed", "expired", "expiring"} =>
         \E ip \in Where(h) : <<ip, f[3]>> \in DOMAIN h.certs /\ f[1] \in h.certs[<<ip, f[3]>>]
    /\ f[1] = "missing-header" => Shows(h, f[3]) /\ (f[4] \in Lacks(h) \/ Unasked(h))
\* The findings about h that there must be are among these.
ToldOf(h, findings) ==
    /\ h.cname /\ Where(h) = {} => <<"dangling-cname", h.key, 0, "cname">> \in findings
    /\ \A port \in ToSet(CommonPorts) : Shows(h, port) => <<"open-port", h.key, port, "port">> \in findings

\* Every finding of a probe is so.
LEMMA ProbeHonest ==
    ASSUME NEW h, Viewed(h), NEW f \in findingsFromProbe(h).items
    PROVE  SaidOf(h, f)
<1> DEFINE ports == scanCommonPorts(h)
           missing == IF RootPort(h) = 0 THEN {} ELSE Headers \ rootSecurityHeaders(h)
           dangling == IF h.cname /\ HostAddresses(h) = <<>> THEN {<<"dangling-cname", h.key, 0, "cname">>} ELSE {}
           open == {<<"open-port", h.key, port, "port">> : port \in ports}
           certs(port) == {<<flaw, h.key, port, "cert">> : flaw \in tlsHandshakeGetMetadata(h, port)}
           bare == {<<"missing-header", h.key, RootPort(h), x>> : x \in missing}
<1>0. Looked(h)
  BY DEF Viewed
<1>1. f \in dangling \/ f \in open \/ (\E port \in ports \cap HttpsPorts : f \in certs(port)) \/ f \in bare
  <2>1. findingsFromProbe(h).items = dangling \cup open \cup (UNION {certs(port) : port \in ports \cap HttpsPorts}) \cup bare
    BY DEF findingsFromProbe, Empty
  <2> HIDE DEF dangling, open, certs, bare, ports
  <2> QED BY <2>1
<1>2. CASE f \in dangling
  <2>1. f = <<"dangling-cname", h.key, 0, "cname">> /\ h.cname /\ HostAddresses(h) = <<>>
    BY <1>2
  <2>2. Where(h) = {} \/ LookupLost(h)
    BY <1>0, <2>1, AddressesOf, AddressesInOrder
  <2> QED BY <2>1, <2>2 DEF SaidOf
<1>3. CASE f \in open
  <2>1. PICK port \in ports : f = <<"open-port", h.key, port, "port">>
    BY <1>3
  <2>2. Shows(h, port)
    BY <1>0, <2>1, OpenPorts
  <2> QED BY <2>1, <2>2 DEF SaidOf
<1>4. ASSUME NEW port \in ports, f \in certs(port) PROVE SaidOf(h, f)
  <2>1. PICK flaw \in tlsHandshakeGetMetadata(h, port) : f = <<flaw, h.key, port, "cert">>
    BY <1>4
  <2>2. PICK ip \in Where(h) : <<ip, port>> \in DOMAIN h.certs /\ flaw \in h.certs[<<ip, port>>]
    BY <1>0, <2>1, CertsShown
  <2>3. flaw \in Flaws
    BY <2>2 DEF Viewed
  <2>4. f[1] = flaw /\ f[2] = h.key /\ f[3] = port
    BY <2>1
  <2>5. f[1] \notin {"open-port", "dangling-cname", "missing-header"}
    BY <2>3, <2>4 DEF Flaws
  <2>6. \E a \in Where(h) : <<a, f[3]>> \in DOMAIN h.certs /\ f[1] \in h.certs[<<a, f[3]>>]
    BY <2>2, <2>4
  <2> QED BY <2>4, <2>5, <2>6 DEF SaidOf
<1>5. CASE f \in bare
  <2>1. PICK x \in missing : f = <<"missing-header", h.key, RootPort(h), x>>
    BY <1>5
  <2>2. RootPort(h) # 0 /\ x \in Headers \ rootSecurityHeaders(h)
    BY <2>1
  <2>3. Shows(h, RootPort(h)) /\ (x \in Lacks(h) \/ Unasked(h))
    BY <1>0, <2>2, HeadersMissing
  <2> QED BY <2>1, <2>3 DEF SaidOf
<1> QED BY <1>1, <1>2, <1>3, <1>4, <1>5

\* A probe says what must be said.
LEMMA ProbeTells ==
    ASSUME NEW h, Viewed(h), ~LookupLost(h)
    PROVE  ToldOf(h, findingsFromProbe(h).items)
<1> DEFINE ports == scanCommonPorts(h)
           dangling == IF h.cname /\ HostAddresses(h) = <<>> THEN {<<"dangling-cname", h.key, 0, "cname">>} ELSE {}
           open == {<<"open-port", h.key, port, "port">> : port \in ports}
           said == findingsFromProbe(h).items
<1>0. Looked(h)
  BY DEF Viewed
<1>1. dangling \subseteq said /\ open \subseteq said
  BY DEF findingsFromProbe, Empty
<1> HIDE DEF said
<1>2. ASSUME h.cname, Where(h) = {} PROVE <<"dangling-cname", h.key, 0, "cname">> \in said
  <2>1. HostAddresses(h) = <<>>
    BY <1>0, <1>2, AddressesOf, AddressesInOrder
  <2> QED BY <1>1, <1>2, <2>1
<1>3. ASSUME NEW port \in ToSet(CommonPorts), Shows(h, port)
      PROVE  <<"open-port", h.key, port, "port">> \in said
  <2>1. port \in ports
    BY <1>0, <1>3, OpenPorts
  <2> QED BY <1>1, <2>1
<1> QED BY <1>2, <1>3 DEF ToldOf, said

\* A probe finds nothing but that, and all of it if it ends well.
LEMMA ProbeFinds ==
    ASSUME NEW kind, NEW h
    PROVE  /\ probe(kind, h).items \subseteq findingsFromProbe(h).items
           /\ probe(kind, h).done => probe(kind, h).items = findingsFromProbe(h).items
<1> DEFINE reach == [Empty EXCEPT !.dials = ToSet(HostAddresses(h)), !.done = ~h.late]
           ok == normalizeHostTarget(kind, h) /\ resolveVettedHost(h)
           found == findingsFromProbe(h)
<1>1. probe(kind, h) = Guarded(ok, Then(reach, found))
  BY DEF probe
<1>2. reach.items = {}
  BY DEF Empty
<1> HIDE DEF reach, ok, found
<1>3. Then(reach, found).items \subseteq found.items /\ (Then(reach, found).done => Then(reach, found).items = found.items)
  BY <1>2 DEF Then
<1> HIDE DEF reach
<1> QED BY <1>1, <1>3 DEF Guarded, Refused, Empty, found

-----------------------------------------------------------------------------
\* A log goes on at every page but the last.
Leads(log) == \A i \in DOMAIN log.pages : i # Len(log.pages) => Follows(log.pages[i])
OwnedKeys(log, ns) == {n.key : n \in OwnedNames(log, ns)}

\* A log that is read is read through.
LEMMA LogRead ==
    ASSUME NEW log, IsSeq(log.pages), Leads(log), collectCrtShNames(log).done
    PROVE  collectCrtShNames(log).items = LogNames(log)
<1> DEFINE whole == {n \in 1..MaxCtPages : n \in DOMAIN log.pages /\ Complete(log.pages, n)}
           last == CHOOSE n \in whole : TRUE
           ok == log.ips # {} /\ (\A ip \in log.ips : PublicAddress(ip)) /\ whole # {}
           names == UNION {log.pages[i].names : i \in 1..last}
<1>1. collectCrtShNames(log) = Guarded(ok, [Empty EXCEPT !.items = names])
  BY DEF collectCrtShNames
<1>2. ok
  BY <1>1 DEF Guarded, Refused, Empty
<1>3. last \in DOMAIN log.pages /\ Complete(log.pages, last)
  BY <1>2
<1> HIDE DEF last
<1>4. last = Len(log.pages)
  BY <1>3 DEF Complete, Leads
<1>5. 1..last = DOMAIN log.pages
  BY <1>4 DEF IsSeq
<1>6. names = LogNames(log)
  BY <1>5 DEF LogNames
<1> HIDE DEF ok, names
<1> QED BY <1>1, <1>2, <1>6 DEF Guarded, Empty

\* The owned names are finitely many.
LEMMA OwnedFinite ==
    ASSUME NEW log, NEW ns, Logged(log, ns)
    PROVE  IsFiniteSet(OwnedKeys(log, ns))
<1> DEFINE owned == OwnedNames(log, ns)
           f == [n \in owned |-> n.key]
<1>1. IsFiniteSet(AllNames(log, ns))
  BY LogFinite, FS_Union DEF Logged, AllNames
<1>2. owned \subseteq AllNames(log, ns)
  BY DEF OwnedNames
<1>3. IsFiniteSet(owned)
  BY <1>1, <1>2, FS_Subset
<1> HIDE DEF owned
<1>4. IsFiniteSet({f[n] : n \in owned})
  <2>1. DOMAIN f = owned
    OBVIOUS
  <2> HIDE DEF f
  <2> QED BY <1>3, <2>1, ImageFinite
<1>5. {f[n] : n \in owned} = OwnedKeys(log, ns)
  BY DEF OwnedKeys, owned
<1> QED BY <1>4, <1>5

\* Enumeration that ends well finds every owned name, if the name servers
\* answered and the names are not beyond the cap.
LEMMA EnumerateAll ==
    ASSUME NEW log, NEW ns, Logged(log, ns), Leads(log), ns.ok, enumerate(log, ns).done,
           ~(Cardinality(OwnedKeys(log, ns)) > MaxEnumNames)
    PROVE  enumerate(log, ns).items = OwnedKeys(log, ns)
<1> DEFINE ct == collectCrtShNames(log)
           found == ct.items \cup (IF ns.ok THEN ns.names ELSE {})
           keys == {n.key : n \in {m \in found : m.owned}}
           kept == {k \in keys : Cardinality({j \in keys : j <= k}) <= MaxEnumNames}
<1>1. enumerate(log, ns) = [ct EXCEPT !.items = kept]
  BY DEF enumerate
<1>2. DOMAIN ct = {"items", "done", "dials"}
  BY DEF collectCrtShNames, Guarded, Refused, Empty
<1>3. ct.items = LogNames(log)
  <2> HIDE DEF kept
  <2>1. enumerate(log, ns).done = ct.done
    BY <1>1, <1>2
  <2> QED BY <2>1, LogRead DEF Logged
<1> HIDE DEF ct
<1>4. keys = OwnedKeys(log, ns)
  BY <1>3 DEF OwnedKeys, OwnedNames, AllNames
<1> HIDE DEF found
<1>5. IsFiniteSet(keys) /\ Cardinality(keys) \in Nat /\ Cardinality(keys) <= MaxEnumNames
  <2>1. IsFiniteSet(OwnedKeys(log, ns))
    BY OwnedFinite
  <2>2. Cardinality(OwnedKeys(log, ns)) \in Nat
    BY <2>1, FS_CardinalityType
  <2> HIDE DEF keys
  <2> QED BY <1>4, <2>1, <2>2, SurfaceAssumption
<1> HIDE DEF keys
<1>6. ASSUME NEW k \in keys PROVE k \in kept
  <2> DEFINE before == {j \in keys : j <= k}
  <2>1. before \in SUBSET keys
    OBVIOUS
  <2> HIDE DEF before
  <2>2. IsFiniteSet(before) /\ Cardinality(before) <= Cardinality(keys)
    BY <1>5, <2>1, FS_Subset
  <2>3. Cardinality(before) \in Nat
    BY <2>2, FS_CardinalityType
  <2>4. Cardinality(before) <= MaxEnumNames
    BY <1>5, <2>2, <2>3, SurfaceAssumption
  <2> QED BY <2>4 DEF before
<1>7. kept = keys
  BY <1>6
<1>8. enumerate(log, ns).items = kept
  <2> HIDE DEF kept
  <2> QED BY <1>1, <1>2
<1> QED BY <1>4, <1>7, <1>8

-----------------------------------------------------------------------------
\* Two parts in order find what one of them finds, and both all if they end well.
LEMMA PairFinds ==
    ASSUME NEW a, NEW b
    PROVE  /\ InOrder(<<a, b>>).items \subseteq a.items \cup b.items
           /\ InOrder(<<a, b>>).done =>
                a.done /\ b.done /\ a.items \cup b.items \subseteq InOrder(<<a, b>>).items
<1> DEFINE rs == <<a, b>>
<1>0. DOMAIN rs = 1..2 /\ rs[1] = a /\ rs[2] = b
  OBVIOUS
<1> HIDE DEF rs
<1>1. Finite(rs)
  BY <1>0, FiniteSeq
<1>2. \A i \in DOMAIN rs : i = 1 \/ i = 2
  BY <1>0
<1>3. InOrder(rs).items \subseteq a.items \cup b.items
  BY <1>0, <1>1, <1>2, InOrderFrom
<1>4. 1 \in DOMAIN rs /\ 2 \in DOMAIN rs
  BY <1>0
<1>5. InOrder(rs).done => a.done /\ b.done /\ a.items \cup b.items \subseteq InOrder(rs).items
  BY <1>0, <1>1, <1>4, InOrderDone
<1> QED BY <1>3, <1>5 DEF rs

\* A scan says what is so of its hosts, and all that must be said if it ends well.
LEMMA ScanSays ==
    ASSUME NEW kind, NEW apex, NEW log, NEW ns, NEW hosts, Logged(log, ns),
           kind = "domain" => Leads(log),
           \A h \in ScopeOf(kind, apex, log, ns, hosts) : Viewed(h)
    PROVE  LET scan == ScanSurface(kind, apex, log, ns, hosts)
               scope == ScopeOf(kind, apex, log, ns, hosts)
           IN /\ \A f \in scan.items : \E h \in scope : SaidOf(h, f)
              /\ scan.done /\ ns.ok /\ ~(Cardinality(OwnedKeys(log, ns)) > MaxEnumNames) =>
                   \A h \in scope : ~LookupLost(h) => ToldOf(h, scan.items)
<1> DEFINE names == enumerate(log, ns)
           below == names.items \ {apex.key}
           subs == SetToSeq(below)
           rs == [i \in DOMAIN subs |-> probe("domain", hosts[subs[i]])]
           quiet == Silent(names)
           rest == IF kind = "domain" THEN Then(quiet, InOrder(rs)) ELSE Empty
           scope == ScopeOf(kind, apex, log, ns, hosts)
           scan == ScanSurface(kind, apex, log, ns, hosts)
           first == probe(kind, apex)
           few == ~(Cardinality(OwnedKeys(log, ns)) > MaxEnumNames)
<1>1. scan = Whole(InOrder(<<first, rest>>))
  BY DEF ScanSurface
<1>2. quiet.items = {} /\ quiet.done = names.done
  BY DEF Silent
<1>3. /\ IsFiniteSet(below)
      /\ \A k \in below : \E n \in OwnedNames(log, ns) : n.key = k /\ k # apex.key
  BY EnumerateNames, FS_Subset DEF OwnedNames
<1>4. ASSUME kind = "domain", names.done, ns.ok, few
      PROVE  \A n \in OwnedNames(log, ns) : n.key # apex.key => n.key \in below
  <2>1. names.items = OwnedKeys(log, ns)
    BY <1>4, EnumerateAll
  <2> QED BY <2>1 DEF OwnedKeys
<1> HIDE DEF names, below, quiet, scan
<1>5. /\ DOMAIN subs = 1..Cardinality(below) /\ Cardinality(below) \in Nat
      /\ \A i \in DOMAIN subs : subs[i] \in below
      /\ \A k \in below : \E i \in DOMAIN subs : subs[i] = k
  BY <1>3, SetToSeqOf
<1> HIDE DEF subs
<1>6. DOMAIN rs = DOMAIN subs /\ Finite(rs) /\ \A i \in DOMAIN rs : rs[i] = probe("domain", hosts[subs[i]])
  BY <1>5, FiniteSeq
<1> HIDE DEF rs, first
<1>7. /\ scan.items \subseteq first.items \cup rest.items
      /\ scan.done => first.done /\ rest.done /\ first.items \cup rest.items \subseteq scan.items
  <2>1. /\ InOrder(<<first, rest>>).items \subseteq first.items \cup rest.items
        /\ InOrder(<<first, rest>>).done =>
             first.done /\ rest.done /\ first.items \cup rest.items \subseteq InOrder(<<first, rest>>).items
    BY PairFinds
  <2> HIDE DEF rest
  <2> QED BY <1>1, <2>1 DEF Whole, Silent
<1>8. apex \in scope /\ Viewed(apex)
  BY DEF ScopeOf
<1>9. ASSUME NEW f \in first.items PROVE \E h \in scope : SaidOf(h, f)
  <2>1. f \in findingsFromProbe(apex).items
    BY <1>9, ProbeFinds DEF first
  <2> QED BY <1>8, <2>1, ProbeHonest
<1>10. ASSUME NEW f \in rest.items PROVE \E h \in scope : SaidOf(h, f)
  <2>1. kind = "domain" /\ f \in InOrder(rs).items
    BY <1>2, <1>10 DEF Then, Empty
  <2>2. PICK i \in DOMAIN rs : f \in rs[i].items
    BY <1>6, <2>1, InOrderFrom
  <2>3. PICK n \in OwnedNames(log, ns) : n.key = subs[i] /\ n.key # apex.key
    BY <1>3, <1>5, <1>6
  <2> DEFINE h == hosts[n.key]
  <2>4. h \in scope /\ Viewed(h)
    BY <2>1, <2>3 DEF ScopeOf
  <2>5. f \in findingsFromProbe(h).items
    BY <1>6, <2>2, <2>3, ProbeFinds
  <2> HIDE DEF h
  <2> QED BY <2>4, <2>5, ProbeHonest
<1>11. ASSUME scan.done, ns.ok, few, NEW h \in scope, ~LookupLost(h) PROVE ToldOf(h, scan.items)
  <2>1. ASSUME NEW k, probe(k, h).done, probe(k, h).items \subseteq scan.items PROVE ToldOf(h, scan.items)
    <3>1. findingsFromProbe(h).items \subseteq scan.items
      BY <2>1, ProbeFinds
    <3>2. ToldOf(h, findingsFromProbe(h).items)
      BY <1>11, ProbeTells
    <3> QED BY <3>1, <3>2 DEF ToldOf
  <2>2. CASE h = apex
    <3>1. first.done /\ first.items \subseteq scan.items
      BY <1>7, <1>11
    <3> QED BY <2>1, <2>2, <3>1 DEF first
  <2>3. CASE h # apex
    <3>1. kind = "domain" /\ \E n \in OwnedNames(log, ns) : n.key # apex.key /\ h = hosts[n.key]
      BY <1>11, <2>3 DEF ScopeOf
    <3>2. PICK n \in OwnedNames(log, ns) : n.key # apex.key /\ h = hosts[n.key]
      BY <3>1
    <3>3. Then(quiet, InOrder(rs)).done /\ Then(quiet, InOrder(rs)).items \subseteq scan.items
      BY <1>7, <1>11, <3>1
    <3>4. names.done /\ InOrder(rs).done /\ InOrder(rs).items \subseteq scan.items
      BY <1>2, <3>3 DEF Then
    <3>5. n.key \in below
      BY <1>4, <1>11, <3>1, <3>2, <3>4
    <3>6. PICK i \in DOMAIN subs : subs[i] = n.key
      BY <1>5, <3>5
    <3>7. rs[i].done /\ rs[i].items \subseteq scan.items
      BY <1>6, <3>4, <3>6, InOrderDone
    <3>8. rs[i] = probe("domain", h)
      BY <1>6, <3>2, <3>6
    <3> QED BY <2>1, <3>7, <3>8
  <2> QED BY <2>2, <2>3
<1> HIDE DEF rest, scope, few
<1>12. (\A f \in scan.items : \E h \in scope : SaidOf(h, f))
       /\ (scan.done /\ ns.ok /\ few => \A h \in scope : ~LookupLost(h) => ToldOf(h, scan.items))
  BY <1>7, <1>9, <1>10, <1>11
<1> QED BY <1>12 DEF scan, scope, few

-----------------------------------------------------------------------------
(***************************************************************************)
(* Images: what is installed                                               *)
(***************************************************************************)
\* The layers laid over each other, as the recursion that the fold is.
Bare == [overlay |-> {}, os |-> {}]
LayOn(acc, layer) ==
    LET overlay == applyLayer(acc.overlay, layer.digest, layer.entries)
    IN [overlay |-> overlay, os |-> osPackages(acc.os, overlay, layer.digest)]
LayBody(rs, g, s) == IF s = {} THEN Bare ELSE LayOn(g[s \ {Max(s)}], rs[Max(s)])
Lays(rs) == CHOOSE g : g = [s \in SUBSET DOMAIN rs |-> LayBody(rs, g, s)]
LaysOut(rs, x, g) == g = [s \in SUBSET x |-> LayBody(rs, g, s)]

\* LaidOver is the last value of its fold.
LEMMA LaidOverLays == ASSUME NEW rs PROVE LaidOver(rs) = Lays(rs)[DOMAIN rs]
  BY DEF LaidOver, FoldLeft, MapThenFoldSet, Lays, LayBody, LayOn, Bare

\* Two functions that lay out in the same way agree.
LEMMA LaysUnique ==
    ASSUME NEW rs, Finite(rs), NEW x \in SUBSET DOMAIN rs, NEW y \in SUBSET DOMAIN rs,
           NEW g, NEW h, LaysOut(rs, x, g), LaysOut(rs, y, h), NEW t, t \subseteq x, t \subseteq y
    PROVE  g[t] = h[t]
<1> DEFINE T == {s \in SUBSET DOMAIN rs : s \subseteq x /\ s \subseteq y /\ g[s] # h[s]}
<1>1. ASSUME T # {} PROVE FALSE
  <2>1. PICK s \in T : \A u \in T : u \subseteq s => u = s
    <3>1. T \subseteq SUBSET DOMAIN rs
      OBVIOUS
    <3> HIDE DEF T
    <3> QED BY <1>1, <3>1, MinimalSubset DEF Finite, FiniteInts
  <2>2. g[s] = LayBody(rs, g, s) /\ h[s] = LayBody(rs, h, s)
    BY <2>1 DEF LaysOut
  <2>3. CASE s = {}
    BY <2>1, <2>2, <2>3 DEF LayBody
  <2>4. CASE s # {}
    <3>1. Max(s) \in s
      BY <2>1, <2>4, MaxIn
    <3>2. g[s \ {Max(s)}] = h[s \ {Max(s)}]
      BY <2>1, <3>1
    <3> QED BY <2>1, <2>2, <2>4, <3>2 DEF LayBody
  <2> QED BY <2>3, <2>4
<1> QED BY <1>1

\* There is such a function on a finite set of positions.
LEMMA LaysExist ==
    ASSUME NEW rs, Finite(rs)
    PROVE  \A x \in SUBSET DOMAIN rs : \E g : LaysOut(rs, x, g)
<1> DEFINE T == {x \in SUBSET DOMAIN rs : ~\E g : LaysOut(rs, x, g)}
<1>1. ASSUME T # {} PROVE FALSE
  <2>1. PICK x \in T : \A y \in T : y \subseteq x => y = x
    <3>1. T \subseteq SUBSET DOMAIN rs
      OBVIOUS
    <3> HIDE DEF T
    <3> QED BY <1>1, <3>1, MinimalSubset DEF Finite, FiniteInts
  <2> DEFINE G(y) == CHOOSE g : LaysOut(rs, y, g)
             h == [s \in SUBSET x |-> IF s = {} THEN Bare
                     ELSE LayOn(G(s \ {Max(s)})[s \ {Max(s)}], rs[Max(s)])]
  <2>2. \A y : y \subseteq x /\ y # x => LaysOut(rs, y, G(y))
    BY <2>1
  <2> HIDE DEF G
  <2>3. ASSUME NEW s \in SUBSET x PROVE h[s] = LayBody(rs, h, s)
    <3>1. CASE s = {}
      BY <3>1 DEF LayBody
    <3>2. CASE s # {}
      <4> DEFINE u == s \ {Max(s)}
      <4>1. Max(s) \in s /\ u \subseteq x /\ u # x
        BY <2>1, <3>2, MaxIn
      <4>2. LaysOut(rs, u, G(u))
        BY <2>2, <4>1
      <4>3. G(u)[u] = LayBody(rs, G(u), u)
        BY <4>2 DEF LaysOut
      <4>4. h[u] = G(u)[u]
        <5>1. CASE u = {}
          BY <4>1, <4>3, <5>1 DEF LayBody
        <5>2. CASE u # {}
          <6> DEFINE v == u \ {Max(u)}
          <6>1. Max(u) \in u /\ v \subseteq u /\ v # x /\ v \subseteq x
            BY <2>1, <4>1, <5>2, MaxIn
          <6>2. LaysOut(rs, v, G(v))
            BY <2>2, <6>1
          <6>3. G(u)[v] = G(v)[v]
            <7>1. u \in SUBSET DOMAIN rs /\ v \in SUBSET DOMAIN rs
              BY <2>1, <4>1, <6>1
            <7> HIDE DEF u, v
            <7>2. PICK g, k : g = G(u) /\ k = G(v)
              OBVIOUS
            <7>3. LaysOut(rs, u, g) /\ LaysOut(rs, v, k) /\ v \subseteq v
              BY <4>2, <6>2, <7>2
            <7>4. g[v] = k[v]
              BY <6>1, <7>1, <7>3, LaysUnique
            <7> QED BY <7>2, <7>4
          <6> QED BY <4>1, <4>3, <5>2, <6>3 DEF LayBody
        <5> QED BY <5>1, <5>2
      <4> QED BY <3>2, <4>4 DEF LayBody
    <3> QED BY <3>1, <3>2
  <2>4. LaysOut(rs, x, h)
    BY <2>3 DEF LaysOut
  <2> QED BY <2>1, <2>4
<1> QED BY <1>1

\* The last of the layers is laid over all others.
LEMMA LaysUnfold ==
    ASSUME NEW rs, Finite(rs)
    PROVE  \A s \in SUBSET DOMAIN rs : Lays(rs)[s] = LayBody(rs, Lays(rs), s)
<1>1. LaysOut(rs, DOMAIN rs, Lays(rs))
  BY LaysExist DEF Lays, LaysOut
<1> QED BY <1>1 DEF LaysOut

\* The first n layers.
After(rs, n) == Lays(rs)[1..n]

\* Layer by layer.
LEMMA LayersInOrder ==
    ASSUME NEW rs, NEW N \in Nat, DOMAIN rs = 1..N
    PROVE  /\ LaidOver(rs) = After(rs, N) /\ After(rs, 0) = Bare
           /\ \A n \in 1..N : After(rs, n) = LayOn(After(rs, n - 1), rs[n])
<1>1. Finite(rs)
  BY FiniteSeq
<1>2. \A s \in SUBSET (1..N) : Lays(rs)[s] = LayBody(rs, Lays(rs), s)
  BY <1>1, LaysUnfold
<1>3. After(rs, 0) = Bare
  <2>1. 1..0 = {} /\ 1..0 \in SUBSET (1..N)
    OBVIOUS
  <2> QED BY <1>2, <2>1 DEF After, LayBody
<1>4. ASSUME NEW n \in 1..N PROVE After(rs, n) = LayOn(After(rs, n - 1), rs[n])
  <2> DEFINE s == 1..n
  <2>1. s \in SUBSET (1..N) /\ n \in s /\ s # {} /\ n \in Nat
    OBVIOUS
  <2>2. FiniteInts(s)
    BY <2>1, FiniteRange
  <2>3. Max(s) \in s /\ \A i \in s : i <= Max(s)
    <3> HIDE DEF s
    <3> QED BY <2>1, <2>2, MaxOfFinite
  <2>4. Max(s) = n
    <3>1. Max(s) \in 1..n /\ n <= Max(s)
      BY <2>1, <2>3
    <3> QED BY <2>1, <3>1
  <2>5. s \ {n} = 1..(n - 1)
    BY <2>1
  <2> HIDE DEF s
  <2>6. Lays(rs)[s] = LayOn(Lays(rs)[s \ {Max(s)}], rs[Max(s)])
    BY <1>2, <2>1 DEF LayBody
  <2>7. Lays(rs)[s] = LayOn(Lays(rs)[1..(n - 1)], rs[n])
    BY <2>4, <2>5, <2>6
  <2> QED BY <2>7 DEF After, s
<1>5. LaidOver(rs) = After(rs, N)
  BY LaidOverLays DEF After
<1> QED BY <1>3, <1>4, <1>5

\* What a stack of layers is: no package file's text is of a fourth sort, one
\* that is cut short says nothing, and the path of a file tells its kind.
Tar(stack, i) == ToSet(stack[i].entries)
Stacked(stack) ==
    /\ IsSeq(stack)
    /\ \A i \in DOMAIN stack : \A e \in Tar(stack, i) : e.type = "file" =>
         /\ e.text \in {"whole", "incomplete", "unparsable"}
         /\ e.text = "incomplete" => e.content = {}
         /\ \A p \in e.content : p = [name |-> p.name, version |-> p.version]
         /\ \A j \in DOMAIN stack : \A f \in Tar(stack, j) :
              f.type = "file" /\ f.path = e.path => f.kind = e.kind

Hides(stack, j, path) ==
    \E e \in Tar(stack, j) : \/ e.type \in {"whiteout", "opaque"} /\ IsPrefix(e.path, path)
                             \/ e.type = "file" /\ e.path = path
Wrote(stack, i, e) == e \in Tar(stack, i) /\ e.type = "file"

\* A file is seen when a layer wrote it and none above hides it.
LEMMA SeenIs ==
    ASSUME NEW stack, NEW n, NEW x
    PROVE  x \in Seen(stack, n) <=>
             \E i \in 1..n : \E e : /\ Wrote(stack, i, e) /\ x = [file |-> e, by |-> i]
                                    /\ \A j \in (i + 1)..n : ~Hides(stack, j, e.path)
  BY DEF Seen, Wrote, Hides, Tar

\* What the next layer leaves of what was seen, and what it adds.
LEMMA SeenNext ==
    ASSUME NEW stack, NEW n \in Nat, n >= 1, NEW x
    PROVE  x \in Seen(stack, n) <=>
             \/ x \in Seen(stack, n - 1) /\ ~Hides(stack, n, x.file.path)
             \/ \E e : Wrote(stack, n, e) /\ x = [file |-> e, by |-> n]
<1>1. ASSUME x \in Seen(stack, n)
      PROVE  \/ x \in Seen(stack, n - 1) /\ ~Hides(stack, n, x.file.path)
             \/ \E e : Wrote(stack, n, e) /\ x = [file |-> e, by |-> n]
  <2> DEFINE At(i, e) == /\ Wrote(stack, i, e) /\ x = [file |-> e, by |-> i]
                         /\ \A j \in (i + 1)..n : ~Hides(stack, j, e.path)
  <2>0. PICK i \in 1..n : \E e : At(i, e)
    BY <1>1, SeenIs
  <2>1. PICK e : At(i, e)
    BY <2>0
  <2>2. CASE i = n
    BY <2>1, <2>2
  <2>3. CASE i # n
    <3>1. i \in 1..(n - 1) /\ n \in (i + 1)..n /\ \A j \in (i + 1)..(n - 1) : j \in (i + 1)..n
      BY <2>3
    <3>2. x.file.path = e.path
      BY <2>1
    <3>3. x \in Seen(stack, n - 1)
      BY <2>1, <3>1, SeenIs
    <3> QED BY <2>1, <3>1, <3>2, <3>3
  <2> QED BY <2>2, <2>3
<1>2. ASSUME x \in Seen(stack, n - 1), ~Hides(stack, n, x.file.path) PROVE x \in Seen(stack, n)
  <2> DEFINE At(i, e) == /\ Wrote(stack, i, e) /\ x = [file |-> e, by |-> i]
                         /\ \A j \in (i + 1)..(n - 1) : ~Hides(stack, j, e.path)
  <2>0. PICK i \in 1..(n - 1) : \E e : At(i, e)
    BY <1>2, SeenIs
  <2>1. PICK e : At(i, e)
    BY <2>0
  <2>2. i \in 1..n /\ x.file.path = e.path /\ \A j \in (i + 1)..n : j = n \/ j \in (i + 1)..(n - 1)
    BY <2>1
  <2>3. \A j \in (i + 1)..n : ~Hides(stack, j, e.path)
    BY <1>2, <2>1, <2>2
  <2> QED BY <2>1, <2>2, <2>3, SeenIs
<1>3. ASSUME NEW e, Wrote(stack, n, e), x = [file |-> e, by |-> n] PROVE x \in Seen(stack, n)
  <2>1. n \in 1..n /\ (n + 1)..n = {}
    OBVIOUS
  <2> QED BY <1>3, <2>1, SeenIs
<1> QED BY <1>1, <1>2, <1>3

-----------------------------------------------------------------------------
\* The file that the overlay keeps of what is seen.
Filed(stack, x) == [path |-> x.file.path, kind |-> x.file.kind, text |-> x.file.text,
                    content |-> x.file.content, layer |-> stack[x.by].digest]
Overlaid(stack, n) == {Filed(stack, x) : x \in {s \in Seen(stack, n) : s.file.kind # "plain"}}
Snapped(stack) == [i \in DOMAIN stack |-> [digest |-> stack[i].digest, entries |-> Tar(stack, i)]]

\* A seen file was written by the layer it names.
LEMMA SeenWritten ==
    ASSUME NEW stack, NEW n, NEW x \in Seen(stack, n)
    PROVE  x.by \in 1..n /\ Wrote(stack, x.by, x.file) /\ x = [file |-> x.file, by |-> x.by]
<1>1. PICK i \in 1..n : \E e : Wrote(stack, i, e) /\ x = [file |-> e, by |-> i]
  BY SeenIs
<1> QED BY <1>1

\* One layer more on the overlay.
LEMMA OverlaidNext ==
    ASSUME NEW stack, Stacked(stack), NEW n \in DOMAIN stack
    PROVE  applyLayer(Overlaid(stack, n - 1), stack[n].digest, Tar(stack, n)) = Overlaid(stack, n)
<1> DEFINE entries == Tar(stack, n)
           gone(path) == \E e \in entries : e.type \in {"whiteout", "opaque"} /\ IsPrefix(e.path, path)
           files == {e \in entries : e.type = "file" /\ e.kind # "plain"}
           kept == {f \in Overlaid(stack, n - 1) : ~gone(f.path) /\ \A e \in files : e.path # f.path}
           new == {[path |-> e.path, kind |-> e.kind, text |-> e.text, content |-> e.content,
                    layer |-> stack[n].digest] : e \in files}
<1>1. applyLayer(Overlaid(stack, n - 1), stack[n].digest, Tar(stack, n)) = kept \cup new
  BY DEF applyLayer
<1>2. DOMAIN stack = 1..Len(stack) /\ Len(stack) \in Nat /\ n \in Nat /\ n >= 1
  BY DEF Stacked, IsSeq
<1>3. ASSUME NEW x \in Seen(stack, n - 1), x.file.kind # "plain"
      PROVE  Hides(stack, n, x.file.path) <=> gone(x.file.path) \/ \E e \in files : e.path = x.file.path
  <2>1. x.by \in DOMAIN stack /\ Wrote(stack, x.by, x.file)
    BY <1>2, SeenWritten
  <2>2. ASSUME NEW e \in entries, e.type = "file", e.path = x.file.path PROVE e \in files
    BY <1>3, <2>1, <2>2 DEF Stacked, Wrote
  <2> QED BY <2>2 DEF Hides
<1>4. ASSUME NEW f \in kept PROVE f \in Overlaid(stack, n)
  <2>1. PICK x \in Seen(stack, n - 1) : x.file.kind # "plain" /\ f = Filed(stack, x)
    BY <1>4 DEF Overlaid
  <2>2. f.path = x.file.path
    BY <2>1 DEF Filed
  <2>3. ~Hides(stack, n, x.file.path)
    BY <1>3, <1>4, <2>1, <2>2
  <2>4. x \in Seen(stack, n)
    BY <1>2, <2>3, SeenNext
  <2> QED BY <2>1, <2>4 DEF Overlaid
<1>5. ASSUME NEW f \in new PROVE f \in Overlaid(stack, n)
  <2>1. PICK e \in files : f = [path |-> e.path, kind |-> e.kind, text |-> e.text,
                                content |-> e.content, layer |-> stack[n].digest]
    BY <1>5
  <2> DEFINE x == [file |-> e, by |-> n]
  <2>2. x \in Seen(stack, n)
    BY <1>2, SeenNext DEF Wrote
  <2>3. x.file = e /\ x.by = n
    OBVIOUS
  <2> HIDE DEF x
  <2>4. f = Filed(stack, x)
    BY <2>1, <2>3 DEF Filed
  <2> QED BY <2>2, <2>3, <2>4 DEF Overlaid
<1>6. ASSUME NEW f \in Overlaid(stack, n) PROVE f \in kept \cup new
  <2>1. PICK x \in Seen(stack, n) : x.file.kind # "plain" /\ f = Filed(stack, x)
    BY <1>6 DEF Overlaid
  <2>2. CASE x \in Seen(stack, n - 1) /\ ~Hides(stack, n, x.file.path)
    <3>1. f \in Overlaid(stack, n - 1) /\ f.path = x.file.path
      BY <2>1, <2>2 DEF Overlaid, Filed
    <3> QED BY <1>3, <2>1, <2>2, <3>1
  <2>3. CASE \E e : Wrote(stack, n, e) /\ x = [file |-> e, by |-> n]
    <3>1. PICK e : Wrote(stack, n, e) /\ x = [file |-> e, by |-> n]
      BY <2>3
    <3>2. x.file = e /\ x.by = n
      BY <3>1
    <3>3. e \in files
      BY <2>1, <3>1, <3>2 DEF Wrote
    <3> QED BY <2>1, <3>2, <3>3 DEF Filed
  <2> QED BY <1>2, <2>2, <2>3, SeenNext
<1> HIDE DEF kept, new
<1> QED BY <1>1, <1>4, <1>5, <1>6

\* Layer i brought the package that is still there with the first n layers.
Brought(stack, p, i, n) ==
    /\ i \in 1..n /\ p \notin System(stack, i - 1)
    /\ \A m \in i..n : p \in System(stack, m)
Rows(stack, p, n) ==
    {[name |-> p.name, version |-> p.version, layer |-> stack[i].digest] :
       i \in {j \in 1..n : Brought(stack, p, j, n)}}
Brings(stack, n) == UNION {Rows(stack, p, n) : p \in System(stack, n)}
\* Layer n removes no database that it does not write again.
Lasting(stack, n) ==
    \/ \A s \in Seen(stack, n - 1) \ Seen(stack, n) : s.file.kind # "os"
    \/ \E s \in Seen(stack, n) : s.file.kind = "os" /\ s.by = n

\* Nothing is seen before the first layer.
LEMMA SeenNothing == ASSUME NEW stack PROVE Seen(stack, 0) = {} /\ System(stack, 0) = {} /\ Overlaid(stack, 0) = {}
<1>1. 1..0 = {}
  OBVIOUS
<1>2. Seen(stack, 0) = {}
  BY <1>1, SeenIs
<1> QED BY <1>2 DEF System, Overlaid

\* Every database of the system that is seen with the first n layers can be read.
Readable(stack, n) ==
    \A x \in Seen(stack, n) : x.file.kind = "os" => x.file.text # "unparsable"

\* The system packages are those of the databases on the overlay.
LEMMA SystemShown ==
    ASSUME NEW stack, Stacked(stack), NEW n \in 0..Len(stack), Readable(stack, n)
    PROVE  System(stack, n) = UNION {Legible(f) : f \in {g \in Overlaid(stack, n) : g.kind = "os"}}
<1> DEFINE U == UNION {Legible(f) : f \in {g \in Overlaid(stack, n) : g.kind = "os"}}
<1>1. ASSUME NEW x \in Seen(stack, n), x.file.kind = "os" PROVE Legible(Filed(stack, x)) = x.file.content
  <2>1. DOMAIN stack = 1..Len(stack) /\ Len(stack) \in Nat
    BY DEF Stacked, IsSeq
  <2>2. x.by \in DOMAIN stack /\ x.file \in Tar(stack, x.by) /\ x.file.type = "file"
    BY <2>1, SeenWritten DEF Wrote
  <2>3. x.file.text = "whole" \/ (x.file.text = "incomplete" /\ x.file.content = {})
    BY <1>1, <2>2 DEF Stacked, Readable
  <2>4. Filed(stack, x).text = x.file.text /\ Filed(stack, x).content = x.file.content
    BY DEF Filed
  <2> QED BY <2>3, <2>4 DEF Legible
<1>2. ASSUME NEW p \in System(stack, n) PROVE p \in U
  <2>1. PICK x \in Seen(stack, n) : x.file.kind = "os" /\ p \in x.file.content
    BY <1>2 DEF System
  <2>2. Filed(stack, x) \in Overlaid(stack, n)
    BY <2>1 DEF Overlaid
  <2>3. Filed(stack, x).kind = "os" /\ p \in Legible(Filed(stack, x))
    BY <1>1, <2>1 DEF Filed
  <2> QED BY <2>2, <2>3
<1>3. ASSUME NEW p \in U PROVE p \in System(stack, n)
  <2>1. PICK f \in Overlaid(stack, n) : f.kind = "os" /\ p \in Legible(f)
    BY <1>3
  <2>2. PICK x \in Seen(stack, n) : f = Filed(stack, x)
    BY <2>1 DEF Overlaid
  <2>3. x.file.kind = "os"
    BY <2>1, <2>2 DEF Filed
  <2>4. p \in x.file.content
    BY <1>1, <2>1, <2>2, <2>3
  <2> QED BY <2>3, <2>4 DEF System
<1> QED BY <1>2, <1>3

\* A system package is a name and a version.
LEMMA SystemPairs ==
    ASSUME NEW stack, Stacked(stack), NEW n \in 0..Len(stack), NEW p \in System(stack, n)
    PROVE  p = [name |-> p.name, version |-> p.version]
<1>1. PICK x \in Seen(stack, n) : x.file.kind = "os" /\ p \in x.file.content
  BY DEF System
<1>2. DOMAIN stack = 1..Len(stack) /\ Len(stack) \in Nat
  BY DEF Stacked, IsSeq
<1>3. x.by \in DOMAIN stack /\ x.file \in Tar(stack, x.by) /\ x.file.type = "file"
  BY <1>2, SeenWritten DEF Wrote
<1> QED BY <1>1, <1>3 DEF Stacked

\* Who brought a package is settled by the layer before, unless it is new.
LEMMA BroughtNext ==
    ASSUME NEW stack, NEW n \in Nat, n >= 1, NEW p \in System(stack, n), NEW i
    PROVE  Brought(stack, p, i, n) <=>
             IF p \in System(stack, n - 1) THEN Brought(stack, p, i, n - 1) ELSE i = n
<1>1. ASSUME Brought(stack, p, i, n), p \in System(stack, n - 1) PROVE Brought(stack, p, i, n - 1)
  <2>1. i \in 1..(n - 1) /\ \A m \in i..(n - 1) : m \in i..n
    BY <1>1 DEF Brought
  <2> QED BY <1>1, <2>1 DEF Brought
<1>2. ASSUME Brought(stack, p, i, n), p \notin System(stack, n - 1) PROVE i = n
  <2>1. i \in 1..n /\ (i < n => n - 1 \in i..n)
    BY <1>2 DEF Brought
  <2> QED BY <1>2, <2>1 DEF Brought
<1>3. ASSUME Brought(stack, p, i, n - 1) PROVE Brought(stack, p, i, n)
  <2>1. i \in 1..n /\ \A m \in i..n : m = n \/ m \in i..(n - 1)
    BY <1>3 DEF Brought
  <2> QED BY <1>3, <2>1 DEF Brought
<1>4. ASSUME i = n, p \notin System(stack, n - 1) PROVE Brought(stack, p, i, n)
  <2>1. i \in 1..n /\ \A m \in i..n : m = n
    BY <1>4
  <2> QED BY <1>4, <2>1 DEF Brought
<1> QED BY <1>1, <1>2, <1>3, <1>4

\* The rows of a package, with one layer more.
LEMMA RowsNext ==
    ASSUME NEW stack, NEW n \in Nat, n >= 1, NEW p \in System(stack, n)
    PROVE  Rows(stack, p, n) =
             IF p \in System(stack, n - 1) THEN Rows(stack, p, n - 1)
             ELSE {[name |-> p.name, version |-> p.version, layer |-> stack[n].digest]}
<1> DEFINE I(m) == {j \in 1..m : Brought(stack, p, j, m)}
<1>1. CASE p \in System(stack, n - 1)
  <2>1. \A i : Brought(stack, p, i, n) <=> Brought(stack, p, i, n - 1)
    BY <1>1, BroughtNext
  <2>2. \A i, m : Brought(stack, p, i, m) => i \in 1..m
    BY DEF Brought
  <2>3. I(n) = I(n - 1)
    BY <2>1, <2>2
  <2> QED BY <1>1, <2>3 DEF Rows
<1>2. CASE p \notin System(stack, n - 1)
  <2>1. \A i : Brought(stack, p, i, n) <=> i = n
    BY <1>2, BroughtNext
  <2>2. I(n) = {n}
    BY <2>1
  <2> HIDE DEF I
  <2>3. Rows(stack, p, n) = {[name |-> p.name, version |-> p.version, layer |-> stack[i].digest] : i \in I(n)}
    BY DEF Rows, I
  <2> QED BY <1>2, <2>2, <2>3
<1> QED BY <1>1, <1>2

\* A database that no layer after it wrote again says what it said.
LEMMA SystemSame ==
    ASSUME NEW stack, NEW n \in Nat, n >= 1, Lasting(stack, n),
           \A f \in Overlaid(stack, n) : f.kind = "os" => f.layer # stack[n].digest
    PROVE  System(stack, n) = System(stack, n - 1)
<1>1. ASSUME NEW x \in Seen(stack, n), x.file.kind = "os" PROVE x.by # n /\ x \in Seen(stack, n - 1)
  <2>1. Filed(stack, x) \in Overlaid(stack, n) /\ Filed(stack, x).kind = "os"
        /\ Filed(stack, x).layer = stack[x.by].digest
    BY <1>1 DEF Overlaid, Filed
  <2>2. x.by # n
    BY <2>1
  <2> QED BY <2>2, SeenNext
<1>2. \A x \in Seen(stack, n - 1) : x.file.kind = "os" => x \in Seen(stack, n)
  BY <1>1 DEF Lasting
<1> QED BY <1>1, <1>2 DEF System

\* One layer more on the packages.
LEMMA BringsNext ==
    ASSUME NEW stack, Stacked(stack), NEW n \in DOMAIN stack, Lasting(stack, n), Readable(stack, n),
           \A p \in System(stack, n - 1) : Rows(stack, p, n - 1) # {}
    PROVE  /\ osPackages(Brings(stack, n - 1), Overlaid(stack, n), stack[n].digest) = Brings(stack, n)
           /\ \A p \in System(stack, n) : Rows(stack, p, n) # {}
<1> DEFINE os == Brings(stack, n - 1)
           dbs == {f \in Overlaid(stack, n) : f.kind = "os"}
           Retained(p) == {q \in os : q.name = p.name /\ q.version = p.version}
           Row(p) == IF Retained(p) # {} THEN Retained(p)
                     ELSE {[name |-> p.name, version |-> p.version, layer |-> stack[n].digest]}
<1>1. DOMAIN stack = 1..Len(stack) /\ Len(stack) \in Nat /\ n \in Nat /\ n >= 1
      /\ n \in 0..Len(stack) /\ n - 1 \in 0..Len(stack)
  BY DEF Stacked, IsSeq
<1>2. osPackages(os, Overlaid(stack, n), stack[n].digest) =
        IF \A f \in dbs : f.layer # stack[n].digest THEN os ELSE UNION {Row(p) : p \in System(stack, n)}
  BY <1>1, SystemShown DEF osPackages
<1>3. ASSUME NEW p \in System(stack, n) PROVE Retained(p) = IF p \in System(stack, n - 1) THEN Rows(stack, p, n - 1) ELSE {}
  <2>1. p = [name |-> p.name, version |-> p.version]
    BY <1>1, SystemPairs
  <2>2. ASSUME NEW q \in Retained(p) PROVE p \in System(stack, n - 1) /\ q \in Rows(stack, p, n - 1)
    <3>1. PICK r \in System(stack, n - 1) : q \in Rows(stack, r, n - 1)
      BY <2>2 DEF Brings
    <3>2. q.name = r.name /\ q.version = r.version
      BY <3>1 DEF Rows
    <3>3. r = [name |-> r.name, version |-> r.version]
      BY <1>1, SystemPairs
    <3>4. r = p
      BY <2>1, <2>2, <3>2, <3>3
    <3> QED BY <3>1, <3>4
  <2>3. ASSUME p \in System(stack, n - 1), NEW q \in Rows(stack, p, n - 1) PROVE q \in Retained(p)
    <3>1. q.name = p.name /\ q.version = p.version
      BY <2>3 DEF Rows
    <3> QED BY <2>3, <3>1 DEF Brings
  <2> QED BY <2>2, <2>3
<1> HIDE DEF Retained
<1>4. ASSUME NEW p \in System(stack, n) PROVE Row(p) = Rows(stack, p, n)
  BY <1>1, <1>3, RowsNext
<1>5. ASSUME NEW p \in System(stack, n) PROVE Rows(stack, p, n) # {}
  <2>1. Rows(stack, p, n) = IF p \in System(stack, n - 1) THEN Rows(stack, p, n - 1)
          ELSE {[name |-> p.name, version |-> p.version, layer |-> stack[n].digest]}
    BY <1>1, RowsNext
  <2> QED BY <2>1
<1>6. UNION {Row(p) : p \in System(stack, n)} = Brings(stack, n)
  BY <1>4 DEF Brings
<1>7. CASE \A f \in dbs : f.layer # stack[n].digest
  <2>1. System(stack, n) = System(stack, n - 1)
    BY <1>1, <1>7, SystemSame
  <2>2. \A p \in System(stack, n) : Rows(stack, p, n) = Rows(stack, p, n - 1)
    BY <1>1, <2>1, RowsNext
  <2>3. os = Brings(stack, n)
    BY <2>1, <2>2 DEF Brings
  <2> QED BY <1>2, <1>5, <1>7, <2>3
<1>8. CASE ~(\A f \in dbs : f.layer # stack[n].digest)
  <2> HIDE DEF Row, os, dbs
  <2>1. osPackages(os, Overlaid(stack, n), stack[n].digest) = Brings(stack, n)
    BY <1>2, <1>6, <1>8
  <2> QED BY <1>5, <2>1 DEF os
<1> HIDE DEF dbs
<1> QED BY <1>7, <1>8

\* The databases of the system say all there is, with every layer.
Telling(stack) == \A n \in 1..Len(stack) : Lasting(stack, n) /\ Readable(stack, n)

\* What the layers leave when they are laid over each other.
LEMMA LaidOverIs ==
    ASSUME NEW stack, Stacked(stack)
    PROVE  /\ LaidOver(Snapped(stack)).overlay = Overlaid(stack, Len(stack))
           /\ Telling(stack) =>
                /\ LaidOver(Snapped(stack)).os = Brings(stack, Len(stack))
                /\ \A p \in System(stack, Len(stack)) : Rows(stack, p, Len(stack)) # {}
<1> DEFINE N == Len(stack)
           rs == Snapped(stack)
           Good(n) == /\ After(rs, n).overlay = Overlaid(stack, n)
                      /\ Telling(stack) => /\ After(rs, n).os = Brings(stack, n)
                                           /\ \A p \in System(stack, n) : Rows(stack, p, n) # {}
           T == {n \in 1..N : ~Good(n)}
<1>1. DOMAIN stack = 1..N /\ N \in Nat /\ DOMAIN rs = 1..N
  BY DEF Stacked, IsSeq, Snapped
<1>2. \A n \in 1..N : rs[n].digest = stack[n].digest /\ rs[n].entries = Tar(stack, n)
  BY <1>1 DEF Snapped
<1> HIDE DEF N, rs
<1>3. /\ LaidOver(rs) = After(rs, N) /\ After(rs, 0) = Bare
      /\ \A n \in 1..N : After(rs, n) = LayOn(After(rs, n - 1), rs[n])
  BY <1>1, LayersInOrder
<1>4. Good(0)
  BY <1>3, SeenNothing DEF Bare, Brings
<1>5. ASSUME T # {} PROVE FALSE
  <2>1. FiniteInts(T)
    <3>1. FiniteInts(1..N) /\ T \subseteq 1..N
      BY <1>1, FiniteRange
    <3> HIDE DEF T
    <3> QED BY <3>1, FS_Subset DEF FiniteInts
  <2>2. Min(T) \in T /\ \A i \in T : Min(T) <= i
    <3> HIDE DEF T
    <3> QED BY <1>5, <2>1, MinOfFinite
  <2>3. PICK n \in T : \A i \in T : n <= i
    BY <2>2
  <2>4. n \in 1..N /\ n \in Nat /\ ~Good(n)
    BY <1>1, <2>3
  <2>5. Good(n - 1)
    <3>1. CASE n = 1
      BY <1>4, <3>1
    <3>2. CASE n # 1
      <4>1. n - 1 \in 1..N /\ ~(n <= n - 1)
        BY <1>1, <2>4, <3>2
      <4> QED BY <2>3, <4>1
    <3> QED BY <3>1, <3>2
  <2> HIDE DEF T
  <2>6. applyLayer(Overlaid(stack, n - 1), stack[n].digest, Tar(stack, n)) = Overlaid(stack, n)
    BY <1>1, <2>4, OverlaidNext
  <2>7. After(rs, n) = LayOn(After(rs, n - 1), rs[n])
    BY <1>3, <2>4
  <2>8. After(rs, n).overlay = Overlaid(stack, n)
    BY <1>2, <2>4, <2>5, <2>6, <2>7 DEF LayOn
  <2>9. ASSUME Telling(stack)
        PROVE  After(rs, n).os = Brings(stack, n) /\ \A p \in System(stack, n) : Rows(stack, p, n) # {}
    <3>1. Lasting(stack, n) /\ Readable(stack, n) /\ n \in DOMAIN stack
      BY <1>1, <2>4, <2>9 DEF N, Telling
    <3>2. /\ osPackages(Brings(stack, n - 1), Overlaid(stack, n), stack[n].digest) = Brings(stack, n)
          /\ \A p \in System(stack, n) : Rows(stack, p, n) # {}
      BY <2>5, <2>9, <3>1, BringsNext
    <3>3. After(rs, n).os = osPackages(After(rs, n - 1).os, Overlaid(stack, n), stack[n].digest)
      BY <1>2, <2>4, <2>5, <2>6, <2>7 DEF LayOn
    <3> QED BY <2>5, <2>9, <3>2, <3>3
  <2> QED BY <2>4, <2>8, <2>9
<1>6. Good(N)
  <2>1. N = 0 \/ N \in 1..N
    BY <1>1
  <2> QED BY <1>4, <1>5, <2>1
<1> QED BY <1>3, <1>6 DEF N, rs

\* The layer that brought a package is the one the findings service is told.
LEMMA RowsSince ==
    ASSUME NEW stack, Stacked(stack), NEW p, Rows(stack, p, Len(stack)) # {}
    PROVE  Rows(stack, p, Len(stack)) =
             {[name |-> p.name, version |-> p.version, layer |-> stack[Since(stack, p)].digest]}
<1> DEFINE N == Len(stack)
           From(i) == /\ \A n \in i..Len(stack) : p \in System(stack, n)
                      /\ i > 1 => p \notin System(stack, i - 1)
<1>1. DOMAIN stack = 1..N /\ N \in Nat
  BY DEF Stacked, IsSeq
<1>2. ASSUME NEW i \in DOMAIN stack PROVE From(i) <=> Brought(stack, p, i, N)
  <2>1. i \in 1..N /\ (i = 1 \/ i > 1) /\ (i = 1 => i - 1 = 0)
    BY <1>1
  <2>2. p \notin System(stack, 0)
    BY SeenNothing
  <2> QED BY <2>1, <2>2 DEF Brought
<1>3. PICK i \in 1..N : Brought(stack, p, i, N)
  BY DEF Rows
<1>4. ASSUME NEW j \in 1..N, Brought(stack, p, j, N), NEW k \in 1..N, Brought(stack, p, k, N) PROVE j >= k
  <2>1. ASSUME j < k PROVE FALSE
    <3>1. k - 1 \in j..N
      BY <1>1, <2>1
    <3> QED BY <1>4, <3>1 DEF Brought
  <2> QED BY <1>1, <2>1
<1>5. Since(stack, p) = CHOOSE j \in DOMAIN stack : From(j)
  BY DEF Since
<1>6. From(i)
  BY <1>1, <1>2, <1>3
<1> HIDE DEF From
<1>7. Since(stack, p) \in DOMAIN stack /\ From(Since(stack, p))
  BY <1>1, <1>3, <1>5, <1>6
<1>8. Brought(stack, p, Since(stack, p), N)
  BY <1>2, <1>7
<1>9. \A j \in 1..N : Brought(stack, p, j, N) => j = Since(stack, p)
  <2> SUFFICES ASSUME NEW j \in 1..N, Brought(stack, p, j, N) PROVE j = Since(stack, p)
    OBVIOUS
  <2>1. j >= Since(stack, p) /\ Since(stack, p) >= j
    BY <1>1, <1>4, <1>7, <1>8
  <2> QED BY <1>1, <1>7, <2>1
<1>10. {j \in 1..N : Brought(stack, p, j, N)} = {Since(stack, p)}
  BY <1>1, <1>7, <1>8, <1>9
<1> DEFINE I == {j \in 1..N : Brought(stack, p, j, N)}
<1>11. Rows(stack, p, N) = {[name |-> p.name, version |-> p.version, layer |-> stack[j].digest] : j \in I}
  BY DEF Rows
<1> HIDE DEF I
<1>12. I = {Since(stack, p)}
  BY <1>10 DEF I
<1> QED BY <1>11, <1>12

\* The application packages of the manifests that can be seen.
Apps(stack, n) ==
    UNION {{[name |-> p.name, version |-> p.version, layer |-> stack[s.by].digest] :
              p \in s.file.content} :
             s \in {x \in Seen(stack, n) : x.file.kind \in {"npm", "meta"}}}

\* They are read from the overlay, when each manifest can be read.
LEMMA AppsShown ==
    ASSUME NEW stack, Stacked(stack), NEW n \in 0..Len(stack),
           \A x \in Seen(stack, n) : x.file.kind \in {"npm", "meta"} => x.file.text # "unparsable"
    PROVE  appPackages(Overlaid(stack, n)) = Apps(stack, n)
<1> DEFINE Row(p, d) == [name |-> p.name, version |-> p.version, layer |-> d]
<1>1. DOMAIN stack = 1..Len(stack) /\ Len(stack) \in Nat
  BY DEF Stacked, IsSeq
<1>2. ASSUME NEW x \in Seen(stack, n), x.file.kind \in {"npm", "meta"}
      PROVE  /\ Filed(stack, x) \in Overlaid(stack, n) /\ Filed(stack, x).kind \in {"npm", "meta"}
             /\ Legible(Filed(stack, x)) = x.file.content /\ Filed(stack, x).layer = stack[x.by].digest
  <2>1. x.by \in DOMAIN stack /\ x.file \in Tar(stack, x.by) /\ x.file.type = "file"
    BY <1>1, SeenWritten DEF Wrote
  <2>2. x.file.text \in {"whole", "incomplete", "unparsable"} /\ (x.file.text = "incomplete" => x.file.content = {})
    BY <2>1 DEF Stacked
  <2>3. Filed(stack, x) \in Overlaid(stack, n)
    BY <1>2 DEF Overlaid
  <2>4. Filed(stack, x).text = x.file.text /\ Filed(stack, x).kind = x.file.kind
        /\ Filed(stack, x).content = x.file.content /\ Filed(stack, x).layer = stack[x.by].digest
    BY DEF Filed
  <2> QED BY <1>2, <2>2, <2>3, <2>4 DEF Legible
<1>3. ASSUME NEW r \in appPackages(Overlaid(stack, n)) PROVE r \in Apps(stack, n)
  <2>1. PICK f \in Overlaid(stack, n) : /\ f.kind \in {"npm", "meta"}
                                        /\ \E p \in Legible(f) : r = Row(p, f.layer)
    BY <1>3 DEF appPackages
  <2>2. PICK x \in Seen(stack, n) : f = Filed(stack, x)
    BY <2>1 DEF Overlaid
  <2>3. x.file.kind \in {"npm", "meta"}
    BY <2>1, <2>2 DEF Filed
  <2>4. Legible(f) = x.file.content /\ f.layer = stack[x.by].digest
    BY <1>2, <2>2, <2>3
  <2> QED BY <2>1, <2>3, <2>4 DEF Apps
<1>4. ASSUME NEW r \in Apps(stack, n) PROVE r \in appPackages(Overlaid(stack, n))
  <2>1. PICK x \in Seen(stack, n) : /\ x.file.kind \in {"npm", "meta"}
                                    /\ \E p \in x.file.content : r = Row(p, stack[x.by].digest)
    BY <1>4 DEF Apps
  <2>2. PICK f : f = Filed(stack, x)
    OBVIOUS
  <2>3. /\ f \in Overlaid(stack, n) /\ f.kind \in {"npm", "meta"}
        /\ Legible(f) = x.file.content /\ f.layer = stack[x.by].digest
    BY <1>2, <2>1, <2>2
  <2> QED BY <2>1, <2>3 DEF appPackages
<1> QED BY <1>3, <1>4

\* An inventory that is done met neither an rpm database nor a package.json that
\* is no JSON.
LEMMA NoneRefusable ==
    ASSUME NEW stack, Stacked(stack), inventoryImage(Snapped(stack)).done
    PROVE  ~Refusable(stack)
<1> DEFINE laid == LaidOver(Snapped(stack))
           all == laid.os \cup appPackages(laid.overlay)
           ok == /\ \A f \in laid.overlay : f.kind # "rpm" /\ ~(f.kind = "npm" /\ f.text = "unparsable")
                 /\ Cardinality(all) <= MaxPackages
<1>1. inventoryImage(Snapped(stack)) = Guarded(ok, [Empty EXCEPT !.items = all])
  BY DEF inventoryImage
<1>2. ok
  <2> HIDE DEF ok
  <2> QED BY <1>1 DEF Guarded, Refused
<1>3. laid.overlay = Overlaid(stack, Len(stack))
  BY LaidOverIs
<1>4. ASSUME NEW x \in Seen(stack, Len(stack))
      PROVE  x.file.kind # "rpm" /\ ~(x.file.kind = "npm" /\ x.file.text = "unparsable")
  <2>1. x.file.kind # "plain" => Filed(stack, x) \in laid.overlay
    BY <1>3 DEF Overlaid
  <2>2. Filed(stack, x).kind = x.file.kind /\ Filed(stack, x).text = x.file.text
    BY DEF Filed
  <2> QED BY <1>2, <2>1, <2>2
<1> QED BY <1>4 DEF Refusable

\* What remains of the layers is what is installed.
LEMMA InventoryIs ==
    ASSUME NEW stack, Stacked(stack), ~DatabaseGone(stack), ~Illegible(stack),
           inventoryImage(Snapped(stack)).done
    PROVE  inventoryImage(Snapped(stack)).items = Installed(stack)
<1> DEFINE N == Len(stack)
           laid == LaidOver(Snapped(stack))
           all == laid.os \cup appPackages(laid.overlay)
           ok == /\ \A f \in laid.overlay : f.kind # "rpm" /\ ~(f.kind = "npm" /\ f.text = "unparsable")
                 /\ Cardinality(all) <= MaxPackages
<1>1. N \in Nat
  BY DEF Stacked, IsSeq
<1>2. inventoryImage(Snapped(stack)) = Guarded(ok, [Empty EXCEPT !.items = all])
  BY DEF inventoryImage
<1>3. \A n \in 1..N : Lasting(stack, n)
  <2> SUFFICES ASSUME NEW n \in 1..N PROVE Lasting(stack, n)
    OBVIOUS
  <2>1. CASE n = 1
    BY <2>1, SeenNothing DEF Lasting
  <2>2. CASE n # 1
    <3>1. n \in 2..N
      BY <1>1, <2>2
    <3> QED BY <3>1 DEF DatabaseGone, Lasting
  <2> QED BY <2>1, <2>2
<1>4. Telling(stack)
  <2>1. \A n \in 1..N : Readable(stack, n)
    BY DEF Illegible, Readable, Stacked, IsSeq
  <2> QED BY <1>3, <2>1 DEF Telling
<1>5. /\ laid.overlay = Overlaid(stack, N) /\ laid.os = Brings(stack, N)
      /\ \A p \in System(stack, N) : Rows(stack, p, N) # {}
  BY <1>4, LaidOverIs
<1> HIDE DEF laid
<1>6. ok
  <2> HIDE DEF ok
  <2> QED BY <1>2 DEF Guarded, Refused
<1>7. inventoryImage(Snapped(stack)).items = all
  <2> HIDE DEF ok, all
  <2> QED BY <1>2, <1>6 DEF Guarded, Empty
<1>8. appPackages(laid.overlay) = Apps(stack, N)
  <2>1. N \in 0..N
    BY <1>1
  <2>2. \A x \in Seen(stack, N) : x.file.kind \in {"npm", "meta"} => x.file.text # "unparsable"
    <3> SUFFICES ASSUME NEW x \in Seen(stack, N), x.file.kind \in {"npm", "meta"},
                        x.file.text = "unparsable"
                 PROVE  FALSE
      OBVIOUS
    <3>1. x.file.kind = "meta"
      BY NoneRefusable DEF Refusable
    <3>2. N \in DOMAIN stack
      <4>1. N # 0
        BY SeenNothing
      <4> QED BY <1>1, <4>1 DEF Stacked, IsSeq
    <3> QED BY <3>1, <3>2 DEF Illegible
  <2>3. appPackages(Overlaid(stack, N)) = Apps(stack, N)
    BY <2>1, <2>2, AppsShown
  <2> QED BY <1>5, <2>3
<1>9. laid.os = {[name |-> p.name, version |-> p.version, layer |-> stack[Since(stack, p)].digest] :
                   p \in System(stack, N)}
  <2>1. \A p \in System(stack, N) : Rows(stack, p, N) =
          {[name |-> p.name, version |-> p.version, layer |-> stack[Since(stack, p)].digest]}
    BY <1>5, RowsSince
  <2> QED BY <1>5, <2>1 DEF Brings
<1> QED BY <1>7, <1>8, <1>9 DEF Installed, Apps

\* A pull yields no package.
Mute(r) == r.items = {}

\* The single steps of a pull yield no package.
LEMMA MuteSteps ==
    /\ Mute(Empty) /\ Mute(Refused)
    /\ \A ok : Mute(Guarded(ok, Empty))
    /\ \A image, check : Mute(InTime(image, check))
    /\ Mute([Empty EXCEPT !.dials = {RegistryUrl}])
    /\ \A redirect, url, answer : Mute(Exchange(redirect, url, answer))
<1>1. Mute(Empty) /\ Mute(Refused)
  BY DEF Mute, Empty, Refused
<1>2. \A ok : Mute(Guarded(ok, Empty))
  BY <1>1 DEF Guarded
<1>3. Mute([Empty EXCEPT !.dials = {RegistryUrl}])
  BY DEF Empty, Mute
<1>4. ASSUME NEW redirect, NEW url, NEW answer PROVE Mute(Exchange(redirect, url, answer))
  <2>1. Mute(Sends(redirect, url, answer))
    BY DEF Sends, Empty, Mute
  <2>2. Mute(Guarded(Granted(answer), Empty))
    BY <1>2
  <2>3. \A a, b : Mute(a) /\ Mute(b) => Mute(Then(a, b))
    BY DEF Then, Mute
  <2> QED BY <2>1, <2>2, <2>3 DEF Exchange
<1> QED BY <1>1, <1>2, <1>3, <1>4 DEF InTime

\* A guard yields none.
LEMMA MuteGuarded == ASSUME NEW ok, NEW r, Mute(r) PROVE Mute(Guarded(ok, r))
  BY MuteSteps DEF Guarded

\* Two parts that yield none yield none one after the other.
LEMMA MuteThen == ASSUME NEW a, NEW b, Mute(a), Mute(b) PROVE Mute(Then(a, b))
  BY DEF Then, Mute

\* Parts that yield nothing yield nothing in order.
LEMMA MuteInOrder ==
    ASSUME NEW rs, Finite(rs), \A i \in DOMAIN rs : Mute(rs[i])
    PROVE  Mute(InOrder(rs))
  BY InOrderFrom DEF Mute

\* Nor do two parts of a pull.
LEMMA MuteTwo ==
    ASSUME NEW a, NEW b, Mute(a), Mute(b) PROVE Mute(InOrder(<<a, b>>))
<1> DEFINE rs == <<a, b>>
<1>1. DOMAIN rs = 1..2 /\ \A i \in 1..2 : Mute(rs[i])
  OBVIOUS
<1> HIDE DEF rs
<1>2. Mute(InOrder(rs))
  BY <1>1, FiniteSeq, MuteInOrder
<1> QED BY <1>2 DEF rs

\* Nor do three.
LEMMA MuteThree ==
    ASSUME NEW a, NEW b, NEW c, Mute(a), Mute(b), Mute(c) PROVE Mute(InOrder(<<a, b, c>>))
<1> DEFINE rs == <<a, b, c>>
<1>1. DOMAIN rs = 1..3 /\ \A i \in 1..3 : Mute(rs[i])
  OBVIOUS
<1> HIDE DEF rs
<1>2. Mute(InOrder(rs))
  BY <1>1, FiniteSeq, MuteInOrder
<1> QED BY <1>2 DEF rs

\* The exchanges for a token yield none.
LEMMA TokensMute ==
    ASSUME NEW image, NEW redirects, NEW n \in Nat, DOMAIN redirects = 1..n
    PROVE  Mute(Exchanges(image, redirects))
<1> DEFINE rs == [i \in DOMAIN redirects |->
                    Then(InTime(image, "token"), Exchange(redirects[i], TokenUrl, image.grant[i]))]
<1>1. Exchanges(image, redirects) = InOrder(rs)
  BY DEF Exchanges
<1>2. DOMAIN rs = 1..n /\ \A i \in 1..n : Mute(rs[i])
  BY MuteSteps, MuteThen
<1> HIDE DEF rs
<1> QED BY <1>1, <1>2, FiniteSeq, MuteInOrder

\* Those of the registries: one, two or three.
LEMMA ExchangesMute ==
    ASSUME NEW image, NEW a, NEW b, NEW c
    PROVE  /\ Mute(Exchanges(image, <<a>>))
           /\ Mute(Exchanges(image, <<a, b>>))
           /\ Mute(Exchanges(image, <<a, b, c>>))
<1>1. \A redirects : \A n \in Nat : DOMAIN redirects = 1..n => Mute(Exchanges(image, redirects))
  BY TokensMute
<1>2. DOMAIN <<a>> = 1..1 /\ DOMAIN <<a, b>> = 1..2 /\ DOMAIN <<a, b, c>> = 1..3
  OBVIOUS
<1> QED BY <1>1, <1>2

\* A manifest is no package.
LEMMA ManifestMute == ASSUME NEW image PROVE Mute(Manifest(image))
<1> DEFINE m == image.manifest
           Get(n) == InOrder(<<InTime(image, "manifest"), [Empty EXCEPT !.dials = {RegistryUrl}],
                               Guarded(n.status = "ok" /\ n.type # "noJson", Empty)>>)
           index == IF IsIndex(m) THEN Guarded(pickPlatform(m.choices).digest # Unsaid, Get(Chosen(m)))
                    ELSE Empty
           fits == Guarded(Chosen(m).type = "image" /\ Len(Chosen(m).layers) <= MaxLayers, Empty)
<1>1. Manifest(image) = InOrder(<<Get(m), index, fits>>)
  BY DEF Manifest
<1>2. \A n : Mute(Get(n))
  BY MuteSteps, MuteThree
<1> HIDE DEF Get
<1>3. Mute(index)
  BY <1>2, MuteSteps, MuteGuarded
<1>4. Mute(fits)
  BY MuteSteps
<1> HIDE DEF m, index, fits
<1> QED BY <1>1, <1>2, <1>3, <1>4, MuteThree

\* The download of a layer yields none: what is in it is read later.
LEMMA BlobMute == ASSUME NEW layer, NEW allowed PROVE Mute(Blob(layer, allowed))
<1> DEFINE on == [Empty EXCEPT !.done = layer.next = "ok",
                               !.dials = {u \in {layer.to} : u.host = "own"}]
           rest == CASE layer.status = "ok" -> Empty
                     [] layer.status = "redirect" -> Guarded(layer.to # NoUrl /\ allowed, on)
                     [] OTHER -> Refused
<1>1. Blob(layer, allowed) = InOrder(<<[Empty EXCEPT !.dials = {RegistryUrl}], rest>>)
  BY DEF Blob
<1>2. Mute(on)
  BY DEF Empty, Mute
<1> HIDE DEF on
<1>3. Mute(rest)
  BY <1>2, MuteSteps, MuteGuarded
<1> HIDE DEF rest
<1> QED BY <1>1, <1>3, MuteSteps, MuteTwo

\* A layer that is had has a digest, and yields no package while it is pulled.
LEMMA LayerMute ==
    ASSUME NEW image, NEW layer, NEW got, Mute(got)
    PROVE  /\ Mute(Layer(image, layer, got))
           /\ Layer(image, layer, got).done => layer.digest # Unsaid
<1> DEFINE rest == IF layer.digest \in image.cache THEN Empty
                   ELSE Then(got, Guarded(Unpacked(layer), Empty))
           named == Guarded(layer.digest # Unsaid, Empty)
           rs == <<InTime(image, "layer"), named, rest>>
<1>1. Layer(image, layer, got) = InOrder(rs)
  BY DEF Layer
<1>2. Mute(named) /\ Mute(rest)
  BY MuteSteps, MuteThen
<1>3. named.done => layer.digest # Unsaid
  BY DEF Guarded, Refused, Empty
<1> HIDE DEF named, rest
<1>4. Mute(InOrder(rs))
  BY <1>2, MuteSteps, MuteThree
<1>5. DOMAIN rs = 1..3 /\ rs[2] = named
  OBVIOUS
<1> HIDE DEF rs
<1>6. InOrder(rs).done => named.done
  BY <1>5, FiniteSeq, InOrderDone
<1> QED BY <1>1, <1>3, <1>4, <1>6

\* A pull that is done has named every layer.
LEMMA PullMute ==
    ASSUME NEW image, Layered(image), NEW token, Mute(token), NEW gots,
           \A i \in DOMAIN Chosen(image.manifest).layers : Mute(gots[i]), NEW pulled,
           pulled = InOrder(<<InTime(image, "start"), token, Manifest(image),
                              InOrder([i \in DOMAIN Chosen(image.manifest).layers |->
                                         Layer(image, Chosen(image.manifest).layers[i], gots[i])])>>)
    PROVE  /\ Mute(pulled)
           /\ pulled.done => \A i \in DOMAIN Chosen(image.manifest).layers :
                               Chosen(image.manifest).layers[i].digest # Unsaid
<1> DEFINE stack == Chosen(image.manifest).layers
           ls == [i \in DOMAIN stack |-> Layer(image, stack[i], gots[i])]
           all == InOrder(ls)
           rs == <<InTime(image, "start"), token, Manifest(image), all>>
<1>1. DOMAIN ls = 1..Len(stack) /\ Len(stack) \in Nat
  BY DEF Layered, IsSeq
<1>2. \A i \in DOMAIN ls : Mute(ls[i]) /\ (ls[i].done => stack[i].digest # Unsaid)
  BY LayerMute
<1>3. pulled = InOrder(rs) /\ DOMAIN ls = DOMAIN stack
  OBVIOUS
<1> HIDE DEF stack, ls
<1>4. Finite(ls)
  BY <1>1, FiniteSeq
<1>5. Mute(all)
  BY <1>2, <1>4, MuteInOrder
<1>6. all.done => \A i \in DOMAIN stack : stack[i].digest # Unsaid
  BY <1>2, <1>3, <1>4, InOrderDone
<1> HIDE DEF all
<1>7. DOMAIN rs = 1..4 /\ rs[4] = all /\ \A i \in 1..4 : Mute(rs[i])
  BY <1>5, MuteSteps, ManifestMute
<1> HIDE DEF rs
<1>8. Finite(rs)
  BY <1>7, FiniteSeq
<1>9. Mute(InOrder(rs))
  BY <1>7, <1>8, MuteInOrder
<1>10. InOrder(rs).done => all.done
  BY <1>7, <1>8, InOrderDone
<1> QED BY <1>3, <1>6, <1>9, <1>10 DEF stack

\* Every layer of the image has a digest.
AllNamed(image) == \A i \in DOMAIN Chosen(image.manifest).layers :
                  Chosen(image.manifest).layers[i].digest # Unsaid

\* A pull from ghcr.io yields no package; when it is done, every layer has a digest.
LEMMA GhcrPullMute ==
    ASSUME NEW image, Layered(image)
    PROVE  Mute(GhcrPull(image)) /\ (GhcrPull(image).done => AllNamed(image))
<1> DEFINE layers == Chosen(image.manifest).layers
           gots == [i \in DOMAIN layers |-> GhcrGet(layers[i])]
           rs == [i \in DOMAIN layers |-> Layer(image, layers[i], GhcrGet(layers[i]))]
<1>1. GhcrPull(image) = InOrder(<<InTime(image, "start"), GhcrPullToken(image), Manifest(image), InOrder(rs)>>)
  BY DEF GhcrPull, Pull, Layers, GhcrManifest
<1>2. \A i \in DOMAIN layers : Mute(gots[i])
  BY BlobMute DEF GhcrGet
<1>3. rs = [i \in DOMAIN layers |-> Layer(image, layers[i], gots[i])]
  OBVIOUS
<1> HIDE DEF gots, rs
<1>4. Mute(GhcrPullToken(image))
  BY ExchangesMute, MuteGuarded DEF GhcrPullToken
<1> DEFINE pulled == GhcrPull(image)
<1>5. pulled = InOrder(<<InTime(image, "start"), GhcrPullToken(image), Manifest(image),
                         InOrder([i \in DOMAIN layers |-> Layer(image, layers[i], gots[i])])>>)
  BY <1>1, <1>3
<1> HIDE DEF pulled
<1>6. Mute(pulled) /\ (pulled.done => AllNamed(image))
  BY <1>2, <1>4, <1>5, PullMute DEF AllNamed
<1> QED BY <1>6 DEF pulled

\* A pull from ECR yields no package; when it is done, every layer has a digest.
LEMMA EcrPullMute ==
    ASSUME NEW image, Layered(image)
    PROVE  Mute(EcrPull(image)) /\ (EcrPull(image).done => AllNamed(image))
<1> DEFINE layers == Chosen(image.manifest).layers
           gots == [i \in DOMAIN layers |-> EcrGet(layers[i])]
           rs == [i \in DOMAIN layers |-> Layer(image, layers[i], EcrGet(layers[i]))]
<1>1. EcrPull(image) = InOrder(<<InTime(image, "start"), EcrPullToken(image), Manifest(image), InOrder(rs)>>)
  BY DEF EcrPull, Pull, Layers, EcrManifest
<1>2. \A i \in DOMAIN layers : Mute(gots[i])
  BY BlobMute DEF EcrGet
<1>3. rs = [i \in DOMAIN layers |-> Layer(image, layers[i], gots[i])]
  OBVIOUS
<1> HIDE DEF gots, rs
<1>4. Mute(EcrPullToken(image))
  BY ExchangesMute, MuteGuarded DEF EcrPullToken
<1> DEFINE pulled == EcrPull(image)
<1>5. pulled = InOrder(<<InTime(image, "start"), EcrPullToken(image), Manifest(image),
                         InOrder([i \in DOMAIN layers |-> Layer(image, layers[i], gots[i])])>>)
  BY <1>1, <1>3
<1> HIDE DEF pulled
<1>6. Mute(pulled) /\ (pulled.done => AllNamed(image))
  BY <1>2, <1>4, <1>5, PullMute DEF AllNamed
<1> QED BY <1>6 DEF pulled

\* A pull from Artifact Registry yields no package; when it is done, every layer has a digest.
LEMMA GcrPullMute ==
    ASSUME NEW image, Layered(image)
    PROVE  Mute(GcrPull(image)) /\ (GcrPull(image).done => AllNamed(image))
<1> DEFINE layers == Chosen(image.manifest).layers
           gots == [i \in DOMAIN layers |-> GcrGet(layers[i])]
           rs == [i \in DOMAIN layers |-> Layer(image, layers[i], GcrGet(layers[i]))]
<1>1. GcrPull(image) = InOrder(<<InTime(image, "start"), GcrPullToken(image), Manifest(image), InOrder(rs)>>)
  BY DEF GcrPull, Pull, Layers, GcrManifest
<1>2. \A i \in DOMAIN layers : Mute(gots[i])
  BY BlobMute DEF GcrGet
<1>3. rs = [i \in DOMAIN layers |-> Layer(image, layers[i], gots[i])]
  OBVIOUS
<1> HIDE DEF gots, rs
<1>4. Mute(GcrPullToken(image))
  BY ExchangesMute, MuteGuarded DEF GcrPullToken
<1> DEFINE pulled == GcrPull(image)
<1>5. pulled = InOrder(<<InTime(image, "start"), GcrPullToken(image), Manifest(image),
                         InOrder([i \in DOMAIN layers |-> Layer(image, layers[i], gots[i])])>>)
  BY <1>1, <1>3
<1> HIDE DEF pulled
<1>6. Mute(pulled) /\ (pulled.done => AllNamed(image))
  BY <1>2, <1>4, <1>5, PullMute DEF AllNamed
<1> QED BY <1>6 DEF pulled

\* A pull from ACR yields no package; when it is done, every layer has a digest.
LEMMA AcrPullMute ==
    ASSUME NEW image, Layered(image)
    PROVE  Mute(AcrPull(image)) /\ (AcrPull(image).done => AllNamed(image))
<1> DEFINE layers == Chosen(image.manifest).layers
           gots == [i \in DOMAIN layers |-> AcrGet(layers[i])]
           rs == [i \in DOMAIN layers |-> Layer(image, layers[i], AcrGet(layers[i]))]
<1>1. AcrPull(image) = InOrder(<<InTime(image, "start"), AcrPullToken(image), Manifest(image), InOrder(rs)>>)
  BY DEF AcrPull, Pull, Layers, AcrManifest
<1>2. \A i \in DOMAIN layers : Mute(gots[i])
  BY BlobMute DEF AcrGet
<1>3. rs = [i \in DOMAIN layers |-> Layer(image, layers[i], gots[i])]
  OBVIOUS
<1> HIDE DEF gots, rs
<1>4. Mute(AcrPullToken(image))
  BY ExchangesMute, MuteGuarded DEF AcrPullToken
<1> DEFINE pulled == AcrPull(image)
<1>5. pulled = InOrder(<<InTime(image, "start"), AcrPullToken(image), Manifest(image),
                         InOrder([i \in DOMAIN layers |-> Layer(image, layers[i], gots[i])])>>)
  BY <1>1, <1>3
<1> HIDE DEF pulled
<1>6. Mute(pulled) /\ (pulled.done => AllNamed(image))
  BY <1>2, <1>4, <1>5, PullMute DEF AllNamed
<1> QED BY <1>6 DEF pulled

\* A pull from Docker Hub yields no package; when it is done, every layer has a digest.
LEMMA DockerhubPullMute ==
    ASSUME NEW image, Layered(image)
    PROVE  Mute(DockerhubPull(image)) /\ (DockerhubPull(image).done => AllNamed(image))
<1> DEFINE layers == Chosen(image.manifest).layers
           gots == [i \in DOMAIN layers |-> DockerhubGet(layers[i])]
           rs == [i \in DOMAIN layers |-> Layer(image, layers[i], DockerhubGet(layers[i]))]
<1>1. DockerhubPull(image) = InOrder(<<InTime(image, "start"), DockerhubPullToken(image), Manifest(image), InOrder(rs)>>)
  BY DEF DockerhubPull, Pull, Layers, DockerhubManifest
<1>2. \A i \in DOMAIN layers : Mute(gots[i])
  BY BlobMute DEF DockerhubGet
<1>3. rs = [i \in DOMAIN layers |-> Layer(image, layers[i], gots[i])]
  OBVIOUS
<1> HIDE DEF gots, rs
<1>4. Mute(DockerhubPullToken(image))
  BY ExchangesMute, MuteGuarded DEF DockerhubPullToken
<1> DEFINE pulled == DockerhubPull(image)
<1>5. pulled = InOrder(<<InTime(image, "start"), DockerhubPullToken(image), Manifest(image),
                         InOrder([i \in DOMAIN layers |-> Layer(image, layers[i], gots[i])])>>)
  BY <1>1, <1>3
<1> HIDE DEF pulled
<1>6. Mute(pulled) /\ (pulled.done => AllNamed(image))
  BY <1>2, <1>4, <1>5, PullMute DEF AllNamed
<1> QED BY <1>6 DEF pulled

\* A pull from quay.io yields no package; when it is done, every layer has a digest.
LEMMA QuayPullMute ==
    ASSUME NEW image, Layered(image)
    PROVE  Mute(QuayPull(image)) /\ (QuayPull(image).done => AllNamed(image))
<1> DEFINE layers == Chosen(image.manifest).layers
           gots == [i \in DOMAIN layers |-> QuayGet(layers[i])]
           rs == [i \in DOMAIN layers |-> Layer(image, layers[i], QuayGet(layers[i]))]
<1>1. QuayPull(image) = InOrder(<<InTime(image, "start"), QuayPullToken(image), Manifest(image), InOrder(rs)>>)
  BY DEF QuayPull, Pull, Layers, QuayManifest
<1>2. \A i \in DOMAIN layers : Mute(gots[i])
  BY BlobMute DEF QuayGet
<1>3. rs = [i \in DOMAIN layers |-> Layer(image, layers[i], gots[i])]
  OBVIOUS
<1> HIDE DEF gots, rs
<1>4. Mute(QuayPullToken(image))
  BY ExchangesMute, MuteGuarded DEF QuayPullToken
<1> DEFINE pulled == QuayPull(image)
<1>5. pulled = InOrder(<<InTime(image, "start"), QuayPullToken(image), Manifest(image),
                         InOrder([i \in DOMAIN layers |-> Layer(image, layers[i], gots[i])])>>)
  BY <1>1, <1>3
<1> HIDE DEF pulled
<1>6. Mute(pulled) /\ (pulled.done => AllNamed(image))
  BY <1>2, <1>4, <1>5, PullMute DEF AllNamed
<1> QED BY <1>6 DEF pulled

\* A container job reports what is installed, or is refused and reports nothing.
LEMMA ExecuteExact ==
    ASSUME NEW kind \in RegistryKinds, NEW image, Layered(image), NEW stack,
           stack = Chosen(image.manifest).layers, NEW r, r = execute(kind, image)
    PROVE  /\ ~r.done => r.items = {}
           /\ r.done => \A i \in DOMAIN stack : stack[i].digest # Unsaid
           /\ r.done /\ Stacked(stack) /\ ~Forged(image) => ~Refusable(stack)
           /\ r.done /\ Stacked(stack) /\ ~DatabaseGone(stack) /\ ~Forged(image) /\ ~Illegible(stack) =>
                r.items = Installed(stack)
<1> DEFINE pulled == CASE kind = "ghcr" -> GhcrPull(image) [] kind = "ecr" -> EcrPull(image)
                       [] kind = "gcr" -> GcrPull(image) [] kind = "acr" -> AcrPull(image)
                       [] kind = "dockerhub" -> DockerhubPull(image) [] kind = "quay" -> QuayPull(image)
           late == InTime(image, "after")
           read == IF pulled.done THEN inventoryImage(Snapshots(image)) ELSE Refused
           rs == <<pulled, late, read>>
           scanned == InOrder(rs)
           matched == Guarded(image.late # "match" \/ scanned.items = {}, Empty)
<1>1. r = Whole(Then(scanned, matched))
  BY DEF execute, scanImage
<1>2. Mute(pulled) /\ (pulled.done => AllNamed(image))
  <2>1. kind \in {"ghcr", "ecr", "gcr", "acr", "dockerhub", "quay"}
    BY DEF RegistryKinds, Names
  <2> QED BY <2>1, GhcrPullMute, EcrPullMute, GcrPullMute, AcrPullMute, DockerhubPullMute, QuayPullMute
<1> HIDE DEF pulled, late
<1>3. DOMAIN rs = 1..3 /\ rs[1] = pulled /\ rs[2] = late /\ rs[3] = read
  OBVIOUS
<1> HIDE DEF read, rs
<1>4. Mute(late)
  BY MuteSteps DEF late
<1>5. Finite(rs)
  BY <1>3, FiniteSeq
<1>6. scanned.done => pulled.done /\ read.done /\ read.items \subseteq scanned.items
  BY <1>3, <1>5, InOrderDone
<1>7. scanned.items \subseteq read.items
  <2>1. \A e \in scanned.items : \E i \in 1..3 : e \in rs[i].items
    BY <1>3, <1>5, InOrderFrom
  <2> QED BY <1>2, <1>3, <1>4, <2>1 DEF Mute
<1> HIDE DEF scanned
<1>8. Mute(matched)
  BY MuteSteps
<1> HIDE DEF matched
<1>9. ~r.done => r.items = {}
  BY <1>1 DEF Whole, Silent
<1>10. ASSUME r.done PROVE scanned.done /\ r.items = scanned.items
  BY <1>1, <1>8, <1>10 DEF Whole, Silent, Then, Mute
<1>11. ASSUME r.done, Stacked(stack), ~Forged(image)
       PROVE  read = inventoryImage(Snapped(stack)) /\ read.done
  <2>1. Snapshots(image) = Snapped(stack)
    BY <1>11 DEF Forged, Snapshots, Snapped, Tar
  <2> QED BY <1>6, <1>10, <1>11, <2>1 DEF read
<1>12. r.done => \A i \in DOMAIN stack : stack[i].digest # Unsaid
  BY <1>2, <1>6, <1>10 DEF AllNamed
<1>13. ASSUME r.done, Stacked(stack), ~Forged(image) PROVE ~Refusable(stack)
  BY <1>11, <1>13, NoneRefusable
<1>14. ASSUME r.done, Stacked(stack), ~DatabaseGone(stack), ~Forged(image), ~Illegible(stack)
       PROVE  r.items = Installed(stack)
  <2>1. read = inventoryImage(Snapped(stack)) /\ read.done
    BY <1>11, <1>14
  <2>2. read.items = Installed(stack)
    BY <1>14, <2>1, InventoryIs
  <2> QED BY <1>6, <1>7, <1>10, <1>14, <2>2
<1> QED BY <1>9, <1>12, <1>13, <1>14

\* What an image can hold, as far as the pull tells it apart: a layer writes a
\* path once, and a database names a package at one version.
Tidy(stack) ==
    /\ \A i \in DOMAIN stack : \A e, f \in Tar(stack, i) :
         e.type = "file" /\ f.type = "file" /\ e.path = f.path => e = f
    /\ \A n \in DOMAIN stack : \A p, q \in System(stack, n) : p.name = q.name => p = q
Pullable(x) ==
    LET stack == Chosen(x.image.manifest).layers
    IN x.kind \in RegistryKinds /\ Layered(x.image) /\ Stacked(stack) /\ Tidy(stack)

-----------------------------------------------------------------------------
(***************************************************************************)
(* References of images                                                    *)
(***************************************************************************)
\* A target as a job names it: a key that was parsed says all of its parts, and a
\* digest; the regions of an integration are finitely many.
Keyed(key) ==
    \/ key = NoKey \/ key = BadKey
    \/ /\ key.kind \in RegistryKinds
       /\ key = [kind |-> key.kind, parts |-> key.parts, digest |-> key.digest]
       /\ DOMAIN key.parts = Names[key.kind]
       /\ \A f \in Names[key.kind] : key.parts[f] # Unsaid
       /\ key.digest \in Digests
Asked(t, o) == Keyed(t.key) /\ IsFiniteSet(o.places)

\* What is named of an image agrees with all that is said of it.
AsSaid(t, o, r, kind, place) ==
    /\ r.kind = kind /\ r.place = place /\ DOMAIN r.parts = Names[kind] /\ place # "bad"
    /\ r.digest \in Digests /\ ~t.endpoint /\ ~o.endpoint
    /\ t.key # NoKey => t.key = [kind |-> r.kind, parts |-> r.parts, digest |-> r.digest]
    /\ t.attrs.digest \in {Unsaid, r.digest}
    /\ t.key # NoKey => \A f \in Names[kind] : t.attrs[f] \in {Unsaid, r.parts[f]}
    /\ t.key = NoKey => \A f \in Names[kind] :
                          r.parts[f] = IF kind = "gcr" /\ f = "location" THEN place ELSE t.attrs[f]

\* What the six parsers share: the key, or the attributes without one.
LEMMA NamedAgrees ==
    ASSUME NEW kind \in RegistryKinds, NEW t, NEW o, NEW place, Keyed(t.key),
           Named(kind, t, o, place) # Refusal
    PROVE  AsSaid(t, o, Named(kind, t, o, place), kind, place)
<1> DEFINE r == Named(kind, t, o, place)
           spoken == [f \in Names[kind] |-> IF kind = "gcr" /\ f = "location" THEN place ELSE t.attrs[f]]
<1>1. ~t.endpoint /\ ~o.endpoint /\ place # "bad"
  BY DEF Named, Tenant
<1>2. CASE t.key # NoKey
  <2>1. /\ r = Refer(kind, t.key.parts, t.key.digest, place) /\ t.key.kind = kind
        /\ \A f \in Names[kind] : t.attrs[f] \in {Unsaid, t.key.parts[f]}
        /\ t.attrs.digest \in {Unsaid, t.key.digest}
    BY <1>2 DEF Named
  <2>2. "gcr" \in RegistryKinds /\ "bad" \notin RegistryKinds /\ (kind = "gcr" => "location" \in Names[kind])
    BY DEF RegistryKinds, Names
  <2>3. t.key # BadKey
    BY <2>1, <2>2 DEF BadKey
  <2>4. /\ t.key = [kind |-> kind, parts |-> t.key.parts, digest |-> t.key.digest]
        /\ DOMAIN t.key.parts = Names[kind] /\ t.key.digest \in Digests
    BY <1>2, <2>1, <2>3 DEF Keyed
  <2>5. r.kind = kind /\ r.parts = t.key.parts /\ r.digest = t.key.digest /\ r.place = place
    BY <2>1 DEF Refer
  <2> HIDE DEF r
  <2>6. /\ r.kind = kind /\ r.place = place /\ DOMAIN r.parts = Names[kind] /\ place # "bad"
        /\ r.digest \in Digests /\ ~t.endpoint /\ ~o.endpoint
    BY <1>1, <2>4, <2>5
  <2>7. t.key = [kind |-> r.kind, parts |-> r.parts, digest |-> r.digest]
    BY <2>4, <2>5
  <2>8. t.attrs.digest \in {Unsaid, r.digest} /\ \A f \in Names[kind] : t.attrs[f] \in {Unsaid, r.parts[f]}
    BY <2>1, <2>5
  <2>9. AsSaid(t, o, r, kind, place)
    BY <1>2, <2>6, <2>7, <2>8 DEF AsSaid
  <2> QED BY <2>9 DEF r
<1>3. CASE t.key = NoKey
  <2>1. r = Refer(kind, spoken, t.attrs.digest, place) /\ t.attrs.digest \in Digests
    BY <1>3 DEF Named
  <2>2. r.kind = kind /\ r.parts = spoken /\ r.digest = t.attrs.digest /\ r.place = place
    BY <2>1 DEF Refer
  <2>3. DOMAIN spoken = Names[kind]
        /\ \A f \in Names[kind] : spoken[f] = IF kind = "gcr" /\ f = "location" THEN place ELSE t.attrs[f]
    OBVIOUS
  <2> HIDE DEF r
  <2>4. /\ r.kind = kind /\ r.place = place /\ DOMAIN r.parts = Names[kind] /\ place # "bad"
        /\ r.digest \in Digests /\ ~t.endpoint /\ ~o.endpoint /\ t.attrs.digest = r.digest
    BY <1>1, <2>1, <2>2, <2>3
  <2>5. \A f \in Names[kind] : r.parts[f] = IF kind = "gcr" /\ f = "location" THEN place ELSE t.attrs[f]
    BY <2>2, <2>3
  <2>6. AsSaid(t, o, r, kind, place)
    BY <1>3, <2>4, <2>5 DEF AsSaid
  <2> QED BY <2>6 DEF r
<1> QED BY <1>2, <1>3

\* The one member of a set.
LEMMA OnlyMember ==
    ASSUME NEW S, IsFiniteSet(S), Cardinality(S) = 1
    PROVE  S = {CHOOSE x \in S : TRUE}
<1>1. PICK x : S = {x}
  BY FS_Singleton
<1> QED BY <1>1

\* Where an image of ECR and of GCR is, if that is not refused.
LEMMA RegionAgrees ==
    ASSUME NEW t, NEW o, IsFiniteSet(o.places), resolveEcrRegion(t, o) # "bad"
    PROVE  /\ {t.attrs.region, o.place} \subseteq {Unsaid, resolveEcrRegion(t, o)}
           /\ t.attrs.region = Unsaid /\ o.place = Unsaid => o.places = {resolveEcrRegion(t, o)}
<1>1. CASE t.attrs.region = Unsaid /\ o.place = Unsaid
  <2>0. {t.attrs.region, o.place} = {Unsaid}
    BY <1>1
  <2>1. resolveEcrRegion(t, o) =
          IF Cardinality(o.places) = 1 THEN CHOOSE x \in o.places : TRUE ELSE "bad"
    BY <2>0 DEF resolveEcrRegion
  <2>2. Cardinality(o.places) = 1
    BY <2>1
  <2> QED BY <1>1, <2>1, <2>2, OnlyMember
<1>2. CASE ~(t.attrs.region = Unsaid /\ o.place = Unsaid)
  <2>1. {t.attrs.region, o.place} # {Unsaid}
    BY <1>2
  <2> QED BY <1>2, <2>1 DEF resolveEcrRegion
<1> QED BY <1>1, <1>2

\* Where an image of GCR is, if that is not refused.
LEMMA LocationAgrees ==
    ASSUME NEW t, NEW o, resolveGcrLocation(t, o) # "bad"
    PROVE  /\ {t.attrs.location, o.place} \subseteq {Unsaid, resolveGcrLocation(t, o)}
           /\ t.key.kind = "gcr" => t.key.parts.location \in {Unsaid, resolveGcrLocation(t, o)}
<1> DEFINE own == IF t.key.kind = "gcr" THEN t.key.parts.location ELSE Unsaid
           said == {own, t.attrs.location, o.place} \ {Unsaid}
<1>1. IsFiniteSet(said)
  <2>1. IsFiniteSet({own}) /\ IsFiniteSet({t.attrs.location}) /\ IsFiniteSet({o.place})
    BY FS_Singleton
  <2>2. IsFiniteSet({own} \cup {t.attrs.location} \cup {o.place})
    BY <2>1, FS_Union
  <2> HIDE DEF own
  <2>3. said \subseteq {own} \cup {t.attrs.location} \cup {o.place}
    OBVIOUS
  <2> HIDE DEF said
  <2> QED BY <2>2, <2>3, FS_Subset
<1>2. resolveGcrLocation(t, o) = IF Cardinality(said) = 1 THEN CHOOSE l \in said : TRUE ELSE "bad"
  BY DEF resolveGcrLocation
<1>3. said = {resolveGcrLocation(t, o)}
  <2> HIDE DEF said
  <2>1. Cardinality(said) = 1
    BY <1>2
  <2> QED BY <1>1, <1>2, <2>1, OnlyMember
<1>4. {own, t.attrs.location, o.place} \subseteq {Unsaid} \cup said
  OBVIOUS
<1> HIDE DEF said
<1> QED BY <1>3, <1>4

\* What is said of the place of an image by the fields of its kind.
Placed(t, o, r) ==
    /\ r.kind = "ecr" => /\ {t.attrs.region, o.place} \subseteq {Unsaid, r.place}
                         /\ t.attrs.region = Unsaid /\ o.place = Unsaid => o.places = {r.place}
    /\ r.kind = "gcr" => o.place \in {Unsaid, r.parts.location}
    /\ r.kind = "acr" => {t.attrs.loginServer, o.place} \subseteq {Unsaid, r.parts.registry}
    /\ \A f \in Names[r.kind] : t.attrs[f] \in {Unsaid, r.parts[f]}

\* The registries that have one place: GHCR, Docker Hub and Quay.
LEMMA SimplePlaced ==
    ASSUME NEW kind \in {"ghcr", "dockerhub", "quay"}, NEW t, NEW o, Keyed(t.key),
           Named(kind, t, o, Unsaid) # Refusal
    PROVE  Placed(t, o, Named(kind, t, o, Unsaid))
<1> DEFINE r == Named(kind, t, o, Unsaid)
<1>1. kind \in RegistryKinds
  BY DEF RegistryKinds, Names
<1>2. AsSaid(t, o, r, kind, Unsaid)
  BY <1>1, NamedAgrees
<1> HIDE DEF r
<1>3. r.kind = kind /\ \A f \in Names[kind] : t.attrs[f] \in {Unsaid, r.parts[f]}
  BY <1>2 DEF AsSaid
<1>4. Placed(t, o, r)
  BY <1>3 DEF Placed
<1> QED BY <1>4 DEF r

\* An image of ECR, with its region.
LEMMA EcrPlaced ==
    ASSUME NEW t, NEW o, Asked(t, o), parseEcrImageRef(t, o) # Refusal
    PROVE  Placed(t, o, parseEcrImageRef(t, o)) /\ \E place : AsSaid(t, o, parseEcrImageRef(t, o), "ecr", place)
<1> DEFINE place == resolveEcrRegion(t, o)
           r == parseEcrImageRef(t, o)
<1>1. r = Named("ecr", t, o, place) /\ "ecr" \in RegistryKinds
  BY DEF parseEcrImageRef, RegistryKinds, Names
<1>2. AsSaid(t, o, Named("ecr", t, o, place), "ecr", place)
  BY <1>1, NamedAgrees DEF Asked
<1>3. AsSaid(t, o, r, "ecr", place)
  BY <1>1, <1>2
<1> HIDE DEF r
<1>4. place # "bad" /\ r.place = place /\ r.kind = "ecr" /\ \A f \in Names["ecr"] : t.attrs[f] \in {Unsaid, r.parts[f]}
  BY <1>3 DEF AsSaid
<1>5. /\ {t.attrs.region, o.place} \subseteq {Unsaid, place}
      /\ t.attrs.region = Unsaid /\ o.place = Unsaid => o.places = {place}
  BY <1>4, RegionAgrees DEF Asked
<1> HIDE DEF place
<1>6. Placed(t, o, r)
  BY <1>4, <1>5 DEF Placed
<1> QED BY <1>3, <1>6 DEF r

\* An image of GCR, with its location.
LEMMA GcrPlaced ==
    ASSUME NEW t, NEW o, Asked(t, o), parseGcrImageRef(t, o) # Refusal
    PROVE  Placed(t, o, parseGcrImageRef(t, o)) /\ \E place : AsSaid(t, o, parseGcrImageRef(t, o), "gcr", place)
<1> DEFINE place == resolveGcrLocation(t, o)
           r == parseGcrImageRef(t, o)
<1>1. r = Named("gcr", t, o, place) /\ "gcr" \in RegistryKinds /\ "location" \in Names["gcr"]
  BY DEF parseGcrImageRef, RegistryKinds, Names
<1>2. AsSaid(t, o, Named("gcr", t, o, place), "gcr", place)
  BY <1>1, NamedAgrees DEF Asked
<1>3. AsSaid(t, o, r, "gcr", place)
  BY <1>1, <1>2
<1> HIDE DEF r
<1>4. place # "bad" /\ r.kind = "gcr"
  BY <1>3 DEF AsSaid
<1>5. /\ {t.attrs.location, o.place} \subseteq {Unsaid, place}
      /\ t.key.kind = "gcr" => t.key.parts.location \in {Unsaid, place}
  BY <1>4, LocationAgrees
<1> HIDE DEF place
<1>6. r.parts["location"] = place
  <2>1. CASE t.key = NoKey
    BY <1>1, <1>3, <2>1 DEF AsSaid
  <2>2. CASE t.key # NoKey
    <3>1. t.key = [kind |-> r.kind, parts |-> r.parts, digest |-> r.digest]
      BY <1>3, <2>2 DEF AsSaid
    <3>2. t.key.kind = "gcr" /\ t.key.parts = r.parts
      BY <1>4, <3>1
    <3>3. t.key.parts["location"] # Unsaid
      <4>1. t.key # BadKey
        BY <3>2 DEF BadKey
      <4> QED BY <1>1, <2>2, <3>2, <4>1 DEF Asked, Keyed
    <3> QED BY <1>5, <3>2, <3>3
  <2> QED BY <2>1, <2>2
<1>7. \A f \in Names["gcr"] : t.attrs[f] \in {Unsaid, r.parts[f]}
  BY <1>3, <1>5, <1>6 DEF AsSaid
<1>8. Placed(t, o, r)
  BY <1>4, <1>5, <1>6, <1>7 DEF Placed
<1> QED BY <1>3, <1>8 DEF r

\* An image of ACR, with its login server.
LEMMA AcrPlaced ==
    ASSUME NEW t, NEW o, Asked(t, o), parseAcrImageRef(t, o) # Refusal
    PROVE  Placed(t, o, parseAcrImageRef(t, o)) /\ \E place : AsSaid(t, o, parseAcrImageRef(t, o), "acr", place)
<1> DEFINE registry == IF t.key.kind = "acr" THEN t.key.parts.registry ELSE t.attrs.registry
           place == pinAcrLoginServer(registry, t, o)
           r == parseAcrImageRef(t, o)
<1>1. r = Named("acr", t, o, place) /\ "acr" \in RegistryKinds /\ "registry" \in Names["acr"]
  BY DEF parseAcrImageRef, RegistryKinds, Names
<1>2. AsSaid(t, o, Named("acr", t, o, place), "acr", place)
  BY <1>1, NamedAgrees DEF Asked
<1>3. AsSaid(t, o, r, "acr", place)
  BY <1>1, <1>2
<1> HIDE DEF r
<1>4. place # "bad" /\ r.kind = "acr" /\ \A f \in Names["acr"] : t.attrs[f] \in {Unsaid, r.parts[f]}
  BY <1>3 DEF AsSaid
<1>5. {t.attrs.loginServer, o.place} \subseteq {Unsaid, registry}
  <2> HIDE DEF registry
  <2> QED BY <1>4 DEF pinAcrLoginServer
<1> HIDE DEF place
<1>6. r.parts["registry"] = registry
  <2>1. CASE t.key = NoKey
    BY <1>1, <1>3, <2>1 DEF AsSaid, NoKey
  <2>2. CASE t.key # NoKey
    <3>1. t.key = [kind |-> r.kind, parts |-> r.parts, digest |-> r.digest]
      BY <1>3, <2>2 DEF AsSaid
    <3> QED BY <1>4, <3>1
  <2> QED BY <2>1, <2>2
<1> HIDE DEF registry
<1>7. Placed(t, o, r)
  BY <1>4, <1>5, <1>6 DEF Placed
<1> QED BY <1>3, <1>7 DEF r

\* Whatever parser the key or the fields of a target choose.
LEMMA ParsedPlaced ==
    ASSUME NEW t, NEW o, Asked(t, o), parseContainerImageRef(t, o) # Refusal
    PROVE  /\ Placed(t, o, parseContainerImageRef(t, o))
           /\ \E kind \in RegistryKinds : \E place : AsSaid(t, o, parseContainerImageRef(t, o), kind, place)
<1> DEFINE kind == KindOf(t, o)
           r == parseContainerImageRef(t, o)
<1>1. kind \in {"ghcr", "ecr", "gcr", "acr", "dockerhub", "quay"}
  BY DEF parseContainerImageRef
<1>2. /\ kind = "ghcr" => r = parseGhcrImageRef(t, o)
      /\ kind = "ecr" => r = parseEcrImageRef(t, o)
      /\ kind = "gcr" => r = parseGcrImageRef(t, o)
      /\ kind = "acr" => r = parseAcrImageRef(t, o)
      /\ kind = "dockerhub" => r = parseDockerhubImageRef(t, o)
      /\ kind = "quay" => r = parseQuayImageRef(t, o)
  BY DEF parseContainerImageRef
<1>3. kind \in RegistryKinds
  BY <1>1 DEF RegistryKinds, Names
<1> HIDE DEF kind, r
<1>4. CASE kind \in {"ghcr", "dockerhub", "quay"}
  <2>1. r = Named(kind, t, o, Unsaid)
    BY <1>2, <1>4 DEF parseGhcrImageRef, parseDockerhubImageRef, parseQuayImageRef
  <2>2. Named(kind, t, o, Unsaid) # Refusal /\ Keyed(t.key)
    BY <2>1 DEF r, Asked
  <2>3. Placed(t, o, r)
    BY <1>4, <2>1, <2>2, SimplePlaced
  <2>4. AsSaid(t, o, r, kind, Unsaid)
    BY <1>3, <2>1, <2>2, NamedAgrees
  <2> QED BY <1>3, <2>3, <2>4 DEF r
<1>5. CASE kind = "ecr"
  <2>1. r = parseEcrImageRef(t, o) /\ r # Refusal
    BY <1>2, <1>5 DEF r
  <2>2. Placed(t, o, r) /\ \E place : AsSaid(t, o, r, "ecr", place)
    BY <2>1, EcrPlaced
  <2> QED BY <1>3, <1>5, <2>2 DEF r
<1>6. CASE kind = "gcr"
  <2>1. r = parseGcrImageRef(t, o) /\ r # Refusal
    BY <1>2, <1>6 DEF r
  <2>2. Placed(t, o, r) /\ \E place : AsSaid(t, o, r, "gcr", place)
    BY <2>1, GcrPlaced
  <2> QED BY <1>3, <1>6, <2>2 DEF r
<1>7. CASE kind = "acr"
  <2>1. r = parseAcrImageRef(t, o) /\ r # Refusal
    BY <1>2, <1>7 DEF r
  <2>2. Placed(t, o, r) /\ \E place : AsSaid(t, o, r, "acr", place)
    BY <2>1, AcrPlaced
  <2> QED BY <1>3, <1>7, <2>2 DEF r
<1> QED BY <1>1, <1>4, <1>5, <1>6, <1>7

\* What the connector of a registry writes.
LEMMA WrittenTaken ==
    ASSUME NEW k \in RegistryKinds
    PROVE  LET r == parseContainerImageRef(Written(k), Plain) IN r # Refusal /\ r.kind = k
<1> DEFINE t == Written(k)  o == Plain
<1>0. k \in {"ghcr", "ecr", "gcr", "acr", "dockerhub", "quay"}
  BY DEF RegistryKinds, Names
<1>1. /\ t.key = [kind |-> k, parts |-> [f \in Names[k] |-> "a"], digest |-> "sha1"]
      /\ ~t.endpoint /\ ~o.endpoint /\ o.place = Unsaid
      /\ \A f \in Fields : t.attrs[f] =
           CASE f \in Names[k] -> "a" [] f = "digest" -> "sha1" [] f = "source" -> k
             [] f = "region" /\ k = "ecr" -> "a" [] f = "loginServer" /\ k = "acr" -> "a"
             [] OTHER -> Unsaid
  BY DEF Written, KeyOf, Parts, Plain
<1>2. Names[k] \subseteq Fields
  BY DEF Fields
<1>3. {"digest", "region", "loginServer", "source"} \cap Names[k] = {}
  BY <1>0 DEF Names
<1>4. (\A f \in Names[k] : t.attrs[f] = "a") /\ t.attrs.digest = "sha1"
      /\ (k = "ecr" => t.attrs.region = "a") /\ (k = "acr" => t.attrs.loginServer = "a")
  <2>1. "digest" \in Fields /\ "region" \in Fields /\ "loginServer" \in Fields
    BY DEF Fields
  <2> HIDE DEF t, o
  <2>2. ASSUME NEW f \in Names[k] PROVE t.attrs[f] = "a"
    <3>1. f \in Fields /\ f \notin {"digest", "region", "loginServer", "source"}
      BY <1>2, <1>3
    <3> QED BY <1>1, <3>1
  <2>3. t.attrs["digest"] = "sha1"
    BY <1>1, <1>3, <2>1
  <2>4. k = "ecr" => t.attrs["region"] = "a"
    BY <1>1, <1>3, <2>1
  <2>5. k = "acr" => t.attrs["loginServer"] = "a"
    BY <1>1, <1>3, <2>1
  <2> QED BY <2>2, <2>3, <2>4, <2>5
<1> HIDE DEF t, o
<1>5. t.key # NoKey /\ t.key.kind = k
  BY <1>0, <1>1 DEF NoKey
<1>6. KindOf(t, o) = k
  BY <1>5 DEF KindOf
<1>7. Valid(k, t.key.parts)
  BY <1>0, <1>1 DEF Valid, ValidGcr, ValidAcr, ValidDockerhub, ValidQuay, ValidEcr, Names
<1>8. ASSUME NEW place, place # "bad"
      PROVE  Named(k, t, o, place) # Refusal /\ Named(k, t, o, place).kind = k
  <2>1. (\A f \in Names[k] : t.attrs[f] \in {Unsaid, t.key.parts[f]}) /\ t.attrs.digest \in {Unsaid, t.key.digest}
    BY <1>1, <1>4
  <2>2. Named(k, t, o, place) = Refer(k, t.key.parts, t.key.digest, place)
    BY <1>1, <1>5, <1>7, <1>8, <2>1 DEF Named, Tenant
  <2>3. Refer(k, t.key.parts, t.key.digest, place).kind = k
    BY DEF Refer
  <2>4. k # "refused"
    BY <1>0
  <2> QED BY <2>2, <2>3, <2>4 DEF Refusal
<1>9. /\ k = "ecr" => resolveEcrRegion(t, o) # "bad"
      /\ k = "acr" => pinAcrLoginServer(t.key.parts.registry, t, o) # "bad"
  <2>1. ASSUME k = "ecr" PROVE resolveEcrRegion(t, o) = "a"
    <3>1. t.attrs.region = "a" /\ {t.attrs.region, o.place} # {Unsaid} /\ "a" # Unsaid
      BY <1>1, <1>4, <2>1 DEF Unsaid
    <3> QED BY <1>1, <3>1 DEF resolveEcrRegion
  <2>2. ASSUME k = "acr" PROVE pinAcrLoginServer(t.key.parts.registry, t, o) = "a"
    <3>1. t.key.parts.registry = "a" /\ t.attrs.loginServer = "a"
      BY <1>1, <1>4, <2>2 DEF Names
    <3> QED BY <1>1, <3>1 DEF pinAcrLoginServer
  <2> QED BY <2>1, <2>2
<1>10. k = "gcr" => resolveGcrLocation(t, o) # "bad"
  <2> SUFFICES ASSUME k = "gcr" PROVE resolveGcrLocation(t, o) # "bad"
    OBVIOUS
  <2>1. t.key.parts.location = "a" /\ t.attrs.location = "a" /\ t.key.kind = "gcr" /\ "a" # Unsaid
    BY <1>1, <1>4, <1>5 DEF Names, Unsaid
  <2>2. {IF t.key.kind = "gcr" THEN t.key.parts.location ELSE Unsaid, t.attrs.location, o.place} \ {Unsaid} = {"a"}
    BY <1>1, <2>1
  <2>3. Cardinality({"a"}) = 1 /\ (CHOOSE l \in {"a"} : TRUE) = "a"
    BY FS_Singleton
  <2> DEFINE said == {IF t.key.kind = "gcr" THEN t.key.parts.location ELSE Unsaid, t.attrs.location, o.place} \ {Unsaid}
  <2>4. resolveGcrLocation(t, o) = IF Cardinality(said) = 1 THEN CHOOSE l \in said : TRUE ELSE "bad"
    BY DEF resolveGcrLocation
  <2>5. said = {"a"}
    BY <2>2
  <2> HIDE DEF said
  <2>6. resolveGcrLocation(t, o) = "a"
    BY <2>3, <2>4, <2>5
  <2> QED BY <2>6
<1>11. parseContainerImageRef(t, o) # Refusal /\ parseContainerImageRef(t, o).kind = k
  <2>1. \E place : place # "bad" /\ parseContainerImageRef(t, o) = Named(k, t, o, place)
    <3>1. CASE k = "ecr"
      BY <1>1, <1>6, <1>9, <3>1 DEF parseContainerImageRef, parseEcrImageRef, Tenant
    <3>2. CASE k = "gcr"
      BY <1>1, <1>6, <1>10, <3>2 DEF parseContainerImageRef, parseGcrImageRef, Tenant
    <3>3. CASE k = "acr"
      BY <1>1, <1>5, <1>6, <1>9, <3>3 DEF parseContainerImageRef, parseAcrImageRef, Tenant
    <3>4. CASE k \in {"ghcr", "dockerhub", "quay"}
      <4>1. Unsaid # "bad"
        BY DEF Unsaid
      <4> QED BY <1>1, <1>6, <3>4, <4>1
              DEF parseContainerImageRef, parseGhcrImageRef, parseDockerhubImageRef, parseQuayImageRef, Tenant
    <3> QED BY <1>0, <3>1, <3>2, <3>3, <3>4
  <2> QED BY <1>8, <2>1
<1> QED BY <1>11 DEF t, o

-----------------------------------------------------------------------------
(***************************************************************************)
(* One call                                                                *)
(***************************************************************************)
\* What one call comes to.
Outcome(x, r) ==
    \/ x.of = "discover" /\ r = Discover(x)
    \/ x.of = "ref" /\ r = parseContainerImageRef(x.target, x.options)
    \/ x.of = "image" /\ r = execute(x.kind, x.image)
    \/ x.of = "surface" /\ r = ScanSurface(x.kind, x.apex, x.log, x.ns, x.hosts)
    \/ x.of = "gates" /\ r = [build |-> concludeScan(x.scan, x.policies, x.exceptions),
                              deploy |-> concludeDeploy(x.scan, x.policies, x.exceptions)]
Tried(x) == input = x /\ (output = <<>> \/ (output # <<>> /\ Outcome(x, Result)))

\* A call is made once, with the input that was chosen.
LEMMA TriedHolds == ASSUME NEW CONSTANT x PROVE TrialSpec(x) => []Tried(x)
<1>1. Given(x) => Tried(x)
  BY DEF Given, Tried
<1>2. Tried(x) /\ [TrialNext]_trialVars => Tried(x)'
  <2> SUFFICES ASSUME Tried(x), [TrialNext]_trialVars PROVE Tried(x)'
    OBVIOUS
  <2>1. CASE RunDiscover
    BY <2>1 DEF RunDiscover, Call, Tried, Outcome, Result
  <2>2. CASE RunRef
    BY <2>2 DEF RunRef, Call, Tried, Outcome, Result
  <2>3. CASE RunImage
    BY <2>3 DEF RunImage, Call, Tried, Outcome, Result
  <2>4. CASE RunSurface
    BY <2>4 DEF RunSurface, Call, Tried, Outcome, Result
  <2>5. CASE RunGates
    BY <2>5 DEF RunGates, Call, Tried, Outcome, Result
  <2>6. CASE UNCHANGED trialVars
    BY <2>6 DEF trialVars, Tried, Result
  <2> QED BY <2>1, <2>2, <2>3, <2>4, <2>5, <2>6 DEF TrialNext
<1> QED BY <1>1, <1>2, PTL DEF TrialSpec

-----------------------------------------------------------------------------
\* Gates
LEMMA SuppressedIsExcepted ==
    ASSUME NEW exceptions, NEW findings, NEW f \in findings
    PROVE  f.id \in Suppressed(exceptions, findings) <=>
             \/ Excepted(exceptions, f)
             \/ \E e \in exceptions : e.active /\ e.target = f.id
  BY DEF Suppressed, Excepted

OpenOf(scan) == {f \in scan.findings : f.state \in OpenStates}
Undecided(scan) == scan.status \in {"queued", "running"} \/ (scan.expected > 0 /\ OpenOf(scan) = {})
Ordered(scan, policies, exceptions, action) ==
    \E f \in OpenOf(scan) : action \in evaluate(policies, exceptions, f)

\* concludeByAction reports an action if the engine orders it for an open finding.
LEMMA Concludes ==
    ASSUME NEW scan, NEW policies, NEW exceptions, NEW action \in {"fail_build", "block_deploy"}, NEW words
    PROVE  concludeByAction(scan, policies, exceptions, action, words) =
             IF Undecided(scan) THEN "pending"
             ELSE IF Ordered(scan, policies, exceptions, action) THEN words.matched ELSE words.unmatched
<1> DEFINE open == OpenOf(scan)
           judged == {f \in open : f.id \notin Suppressed(exceptions, open)}
           hits(f) == FirstMatch(policies, f) # <<>> /\ action \in Head(FirstMatch(policies, f)).actions
<1>1. ASSUME NEW f \in open
      PROVE  f \in judged /\ hits(f) <=> action \in evaluate(policies, exceptions, f)
  <2>1. f \in judged <=> ~Excepted(exceptions, f)
    BY SuppressedIsExcepted DEF Excepted
  <2>2. action # "notify"
    OBVIOUS
  <2> HIDE DEF judged
  <2> QED BY <2>1, <2>2 DEF evaluate
<1>2. (\E f \in judged : hits(f)) <=> Ordered(scan, policies, exceptions, action)
  BY <1>1 DEF Ordered
<1>3. concludeByAction(scan, policies, exceptions, action, words) =
        IF Undecided(scan) THEN "pending"
        ELSE IF \E f \in judged : hits(f) THEN words.matched ELSE words.unmatched
  BY DEF concludeByAction, Undecided, OpenOf
<1> HIDE DEF judged, hits
<1> QED BY <1>2, <1>3

\* Whatever the findings, the policies and the exceptions of an org: the build
\* and deploy gates of a scan fail exactly if the policy engine orders their
\* action for an open finding of it (concludeByAction, PolicyEngineService).
THEOREM GatesFollowEngineHolds ==
    ASSUME NEW CONSTANT x PROVE TrialSpec(x) => []GatesFollowEngine
<1>1. Tried(x) => GatesFollowEngine
  <2> SUFFICES ASSUME Tried(x), Returned("gates")
               PROVE  LET open == {f \in input.scan.findings : f.state \in OpenStates}
                          undecided == input.scan.status \in {"queued", "running"}
                                         \/ (input.scan.expected > 0 /\ open = {})
                      IN Result = IF undecided THEN [build |-> "pending", deploy |-> "pending"]
                           ELSE [build |-> IF Orders("fail_build") THEN "failed" ELSE "passed",
                                 deploy |-> IF Orders("block_deploy") THEN "blocked" ELSE "allowed"]
    BY DEF GatesFollowEngine
  <2>1. input = x /\ x.of = "gates" /\ Outcome(x, Result)
    BY DEF Tried, Returned
  <2>2. Result = [build |-> concludeScan(x.scan, x.policies, x.exceptions),
                  deploy |-> concludeDeploy(x.scan, x.policies, x.exceptions)]
    BY <2>1 DEF Outcome
  <2> DEFINE undecided == Undecided(x.scan)
             orders(action) == Ordered(x.scan, x.policies, x.exceptions, action)
  <2>3. concludeScan(x.scan, x.policies, x.exceptions) =
          IF undecided THEN "pending" ELSE IF orders("fail_build") THEN "failed" ELSE "passed"
    <3> DEFINE words == [matched |-> "failed", unmatched |-> "passed"]
    <3>1. concludeScan(x.scan, x.policies, x.exceptions) =
            concludeByAction(x.scan, x.policies, x.exceptions, "fail_build", words)
      BY DEF concludeScan
    <3>2. words.matched = "failed" /\ words.unmatched = "passed"
      OBVIOUS
    <3> HIDE DEF words
    <3>3. concludeByAction(x.scan, x.policies, x.exceptions, "fail_build", words) =
            IF Undecided(x.scan) THEN "pending"
            ELSE IF Ordered(x.scan, x.policies, x.exceptions, "fail_build") THEN words.matched ELSE words.unmatched
      BY Concludes
    <3> QED BY <3>1, <3>2, <3>3
  <2>4. concludeDeploy(x.scan, x.policies, x.exceptions) =
          IF undecided THEN "pending" ELSE IF orders("block_deploy") THEN "blocked" ELSE "allowed"
    <3> DEFINE words == [matched |-> "blocked", unmatched |-> "allowed"]
    <3>1. concludeDeploy(x.scan, x.policies, x.exceptions) =
            concludeByAction(x.scan, x.policies, x.exceptions, "block_deploy", words)
      BY DEF concludeDeploy
    <3>2. words.matched = "blocked" /\ words.unmatched = "allowed"
      OBVIOUS
    <3> HIDE DEF words
    <3>3. concludeByAction(x.scan, x.policies, x.exceptions, "block_deploy", words) =
            IF Undecided(x.scan) THEN "pending"
            ELSE IF Ordered(x.scan, x.policies, x.exceptions, "block_deploy") THEN words.matched ELSE words.unmatched
      BY Concludes
    <3> QED BY <3>1, <3>2, <3>3
  <2>5. \A action : Orders(action) <=> orders(action)
    BY <2>1 DEF Orders, Ordered, OpenOf
  <2>6. undecided <=> x.scan.status \in {"queued", "running"} \/ (x.scan.expected > 0 /\ OpenOf(x.scan) = {})
    BY DEF Undecided
  <2> HIDE DEF orders, undecided
  <2> QED BY <2>1, <2>2, <2>3, <2>4, <2>5, <2>6 DEF OpenOf
<1> QED BY <1>1, TriedHolds, PTL

-----------------------------------------------------------------------------
(***************************************************************************)
(* Calls of third parties                                                  *)
(***************************************************************************)
\* The calls whose answers are what a provider or a registry may send.
Sent(x) ==
    /\ x.of = "discover" => Answering(x)
    /\ x.of = "image" => x.kind \in RegistryKinds /\ Layered(x.image)

\* Wherever the answers of a provider or a registry lead, by a continuation, by
\* the server they name or by a redirect, the credential of a connector, the
\* token of a pull and the tokens they are exchanged for go to the own host; to
\* another one only with the redirects of HandedOn and GivenAlong, which take the
\* body or an unusual header along (assertSafeUrl, assertAcrLoginServer and the
\* pinned hosts of the connectors, inventoryEgressFetch, registryFetch).
THEOREM SecretsStayHomeHolds ==
    ASSUME NEW CONSTANT x, Sent(x) PROVE TrialSpec(x) => []SecretsStayHome
<1>1. Tried(x) => SecretsStayHome
  <2> SUFFICES ASSUME Tried(x) PROVE SecretsStayHome
    OBVIOUS
  <2>1. ASSUME Returned("discover") PROVE CredentialStaysHome
    <3>1. input = x /\ x.of = "discover" /\ Outcome(x, Result)
      BY <2>1 DEF Tried, Returned
    <3>2. Result = Discover(x) /\ Answering(x)
      BY <3>1 DEF Outcome, Sent
    <3>3. /\ Home(Discover(x), HandedOn(x))
          /\ x.ctx.config.endpoint /\ x.provider # "github" => Discover(x).dials = {}
      BY <3>2, DiscoverStays
    <3> QED BY <3>1, <3>2, <3>3 DEF CredentialStaysHome, Home
  <2>2. ASSUME Returned("image") PROVE TokenStaysHome
    <3>1. input = x /\ x.of = "image" /\ Outcome(x, Result)
      BY <2>2 DEF Tried, Returned
    <3>2. Result = execute(x.kind, x.image) /\ x.kind \in RegistryKinds /\ Layered(x.image)
      BY <3>1 DEF Outcome, Sent
    <3>3. /\ x.kind = "ecr" /\ x.image.cred.session => x.image.grant[1].moved \in GivenAlong(x)
          /\ x.kind = "gcr" => x.image.grant[1].moved \in GivenAlong(x)
          /\ x.kind = "acr" => \A i \in 1..3 : x.image.grant[i].moved \in GivenAlong(x)
      BY DEF GivenAlong
    <3>4. Home(execute(x.kind, x.image), GivenAlong(x))
      BY <3>2, <3>3, ExecuteHome
    <3> QED BY <3>1, <3>2, <3>4 DEF TokenStaysHome, Home
  <2> QED BY <2>1, <2>2 DEF SecretsStayHome, CredentialStaysHome, TokenStaysHome
<1> QED BY <1>1, TriedHolds, PTL

\* Whatever a provider holds and however it pages it: a connector that ends
\* without an error has yielded exactly that, so that the scheduler archives
\* nothing that still exists, and one that is cut short, by an error, a body
\* that is no list, a link astray, the page cap, an unusable credential or a
\* deadline, has thrown (the paging loops of the connectors).
THEOREM CompleteOrRefusedHolds ==
    ASSUME NEW CONSTANT x, x.of = "discover" => TellingAll(x)
    PROVE  TrialSpec(x) => []CompleteOrRefused
<1>1. Tried(x) => CompleteOrRefused
  <2> SUFFICES ASSUME Tried(x), Returned("discover") PROVE CompleteOrRefused
    BY DEF CompleteOrRefused
  <2>1. input = x /\ x.of = "discover" /\ Result = Discover(x)
    BY DEF Tried, Returned, Outcome
  <2>2. Finds(Discover(x), HeldBy(x), ~Curtailed(x))
    BY <2>1, DiscoverFinds
  <2> QED BY <2>1, <2>2 DEF CompleteOrRefused, Finds
<1> QED BY <1>1, TriedHolds, PTL

\* Whatever the rules and addresses of a cloud's resources: an asset is recorded
\* as facing the internet exactly if its resource is reachable from there by what
\* the provider says of it (internetOpen, publicIp and natIp of the cloud connectors).
THEOREM ExposureHonestHolds ==
    ASSUME NEW CONSTANT x,
           x.of = "discover" => TellingAll(x) /\ (x.provider \in Clouds => Described(x))
    PROVE  TrialSpec(x) => []ExposureHonest
<1>1. Tried(x) => ExposureHonest
  <2> SUFFICES ASSUME Tried(x), Returned("discover"), input.provider \in Clouds,
                      NEW s \in DOMAIN input.pages, NEW i \in Held(input.pages[s].pages),
                      NEW a \in Result.items, a.key = i.key, a.exposure # "unknown",
                      \A r \in i.rules : /\ OwnRules(input, r)
                                         /\ ~(input.provider = "azure" /\ r.from = "any6")
                                         /\ ~(input.provider = "gcp" /\ ~r.allow)
               PROVE  a.exposure = "internet_facing" <=> Reachable(input.pages[s].kind, i)
    BY DEF ExposureHonest
  <2>1. input = x /\ x.of = "discover" /\ Result = Discover(x)
    BY DEF Tried, Returned, Outcome
  <2>2. TellingAll(x) /\ Described(x) /\ x.provider \in Clouds
    BY <2>1
  <2>3. PICK t \in DOMAIN x.pages : \E j \in Held(x.pages[t].pages) :
          a \in CloudAsset(x.provider, x.pages[t].kind, j).items
    BY <2>1, <2>2, CloudItems
  <2>4. PICK j \in Held(x.pages[t].pages) : a \in CloudAsset(x.provider, x.pages[t].kind, j).items
    BY <2>3
  <2>5. j.key = i.key
    BY <2>2, <2>4, AssetKey
  <2>6. j = i /\ x.pages[t].kind = x.pages[s].kind /\ x.pages[s].kind \in Kinds
    BY <2>1, <2>2, <2>5 DEF Described
  <2>7. \A r \in i.rules : r.from \in {"any4", "any6", "star", "internet", "private"}
    BY <2>1, <2>2 DEF Described
  <2> QED BY <2>1, <2>2, <2>4, <2>6, <2>7, AssetHonest
<1> QED BY <1>1, TriedHolds, PTL

\* The hosts in scope are the same by the property and by the scan.
LEMMA ScopeIs ==
    ASSUME NEW x, input = x
    PROVE  InScope = ScopeOf(x.kind, x.apex, x.log, x.ns, x.hosts)
<1>1. NamesOfApex = OwnedNames(x.log, x.ns)
  BY DEF NamesOfApex, OwnedNames, AllNames, LogNames
<1>2. InScope = {x.apex} \cup IF x.kind = "domain"
                             THEN {x.hosts[n.key] : n \in {m \in NamesOfApex : m.key # x.apex.key}} ELSE {}
  BY DEF InScope
<1> QED BY <1>1, <1>2 DEF ScopeOf

\* Whatever names the certificate log, the name servers and the resolver give,
\* a surface scan connects to public addresses only, looked up for a host in
\* scope of which no known address is private (resolveVettedHost, probe).
THEOREM OnlyVettedHolds ==
    ASSUME NEW CONSTANT x,
           x.of = "surface" =>
             /\ Logged(x.log, x.ns)
             /\ \A h \in ScopeOf(x.kind, x.apex, x.log, x.ns, x.hosts) : Looked(h)
    PROVE  TrialSpec(x) => []OnlyVetted
<1>1. Tried(x) => OnlyVetted
  <2> SUFFICES ASSUME Tried(x), Returned("surface") PROVE OnlyVetted
    BY DEF OnlyVetted
  <2>1. input = x /\ x.of = "surface" /\ Outcome(x, Result)
    BY DEF Tried, Returned
  <2>2. Result = ScanSurface(x.kind, x.apex, x.log, x.ns, x.hosts)
    BY <2>1 DEF Outcome
  <2> DEFINE scope == ScopeOf(x.kind, x.apex, x.log, x.ns, x.hosts)
  <2>3. \A ip \in Result.dials : \E h \in scope : Vetted(h, ip)
    BY <2>1, <2>2, ScanVetted
  <2>4. InScope = scope
    BY <2>1, ScopeIs
  <2> HIDE DEF scope
  <2> QED BY <2>3, <2>4 DEF OnlyVetted, Vetted
<1> QED BY <1>1, TriedHolds, PTL

\* What a surface scan can meet: a certificate log that goes on at every page but
\* the last, and hosts that look-ups, connections and handshakes can give.
Surfaced(x) ==
    /\ Logged(x.log, x.ns)
    /\ x.kind = "domain" => Leads(x.log)
    /\ \A h \in ScopeOf(x.kind, x.apex, x.log, x.ns, x.hosts) : Viewed(h)

\* Whatever a domain's log and name servers list and whatever its hosts show,
\* a surface scan reports only what is so, and one that ends well has looked at
\* every name and reported each common port that is open (enumerate, probe and
\* findingsFromProbe).
THEOREM SurfaceHonestHolds ==
    ASSUME NEW CONSTANT x, x.of = "surface" => Surfaced(x)
    PROVE  TrialSpec(x) => []SurfaceHonest
<1>1. Tried(x) => SurfaceHonest
  <2> SUFFICES ASSUME Tried(x), Returned("surface") PROVE SurfaceHonest
    BY DEF SurfaceHonest
  <2>1. input = x /\ x.of = "surface" /\ Outcome(x, Result)
    BY DEF Tried, Returned
  <2>2. Result = ScanSurface(x.kind, x.apex, x.log, x.ns, x.hosts) /\ Surfaced(x)
    BY <2>1 DEF Outcome
  <2> DEFINE scope == ScopeOf(x.kind, x.apex, x.log, x.ns, x.hosts)
             cut == Cardinality(OwnedKeys(x.log, x.ns)) > MaxEnumNames
  <2>3. /\ \A f \in Result.items : \E h \in scope : SaidOf(h, f)
        /\ Result.done /\ x.ns.ok /\ ~cut => \A h \in scope : ~LookupLost(h) => ToldOf(h, Result.items)
    BY <2>2, ScanSays DEF Surfaced
  <2>4. InScope = scope
    BY <2>1, ScopeIs
  <2>5. Cut <=> cut
    <3>1. NamesOfApex = OwnedNames(x.log, x.ns)
      BY <2>1 DEF NamesOfApex, OwnedNames, AllNames, LogNames
    <3> QED BY <3>1 DEF Cut, OwnedKeys
  <2> HIDE DEF scope, cut
  <2>6. \A f \in Result.items : \E h \in InScope : SaidOf(h, f)
    BY <2>3, <2>4
  <2>7. ASSUME Result.done, input.ns.ok, ~Cut, NEW h \in {g \in InScope : ~LookupLost(g)}
        PROVE  ToldOf(h, Result.items)
    BY <2>1, <2>3, <2>4, <2>5, <2>7
  <2> QED BY <2>6, <2>7 DEF SurfaceHonest, SaidOf, ToldOf
<1> QED BY <1>1, TriedHolds, PTL

\* Whatever the layers of an image add, replace and remove: a container job that
\* succeeds reports exactly the packages of its file system, each with the layer
\* that brought it, unless a database of it is illegible; one that is refused
\* reports nothing, and an rpm database or a package.json that is no JSON refuse
\* it (inventoryImage, applyLayer, execute).
THEOREM InventoryExactHolds ==
    ASSUME NEW CONSTANT x, x.of = "image" => Pullable(x)
    PROVE  TrialSpec(x) => []InventoryExact
<1>1. Tried(x) => InventoryExact
  <2> SUFFICES ASSUME Tried(x), Returned("image") PROVE InventoryExact
    BY DEF InventoryExact
  <2>1. input = x /\ x.of = "image" /\ Result = execute(x.kind, x.image)
    BY DEF Tried, Returned, Outcome
  <2>2. PICK stack, r : stack = Chosen(x.image.manifest).layers /\ r = execute(x.kind, x.image)
    OBVIOUS
  <2>3. x.kind \in RegistryKinds /\ Layered(x.image) /\ Stacked(stack)
    BY <2>1, <2>2 DEF Pullable
  <2>4. /\ ~r.done => r.items = {}
        /\ r.done => \A i \in DOMAIN stack : stack[i].digest # Unsaid
        /\ r.done /\ Stacked(stack) /\ ~Forged(x.image) => ~Refusable(stack)
        /\ r.done /\ Stacked(stack) /\ ~DatabaseGone(stack) /\ ~Forged(x.image) /\ ~Illegible(stack) =>
             r.items = Installed(stack)
    BY <2>2, <2>3, ExecuteExact
  <2> QED BY <2>1, <2>2, <2>3, <2>4 DEF InventoryExact
<1> QED BY <1>1, TriedHolds, PTL

\* However a job, its asset and its integration describe an image, the one that
\* is pulled is the one they all name, by a digest; and what a connector writes
\* is pulled (parseContainerImageRef and its six parsers).
THEOREM ImageNeverContradictedHolds ==
    ASSUME NEW CONSTANT x, x.of = "ref" => Asked(x.target, x.options)
    PROVE  TrialSpec(x) => []ImageNeverContradicted
<1>1. Tried(x) => ImageNeverContradicted
  <2> SUFFICES ASSUME Tried(x), Returned("ref") PROVE ImageNeverContradicted
    BY DEF ImageNeverContradicted
  <2>1. input = x /\ x.of = "ref" /\ Outcome(x, Result)
    BY DEF Tried, Returned
  <2> DEFINE t == x.target  o == x.options  r == parseContainerImageRef(x.target, x.options)
  <2>2. Result = r /\ Asked(t, o)
    BY <2>1 DEF Outcome
  <2>3. ASSUME r # Refusal
        PROVE  /\ r.digest \in Digests /\ ~t.endpoint /\ ~o.endpoint
               /\ t.key # NoKey => t.key = [kind |-> r.kind, parts |-> r.parts, digest |-> r.digest]
               /\ \A f \in DOMAIN r.parts : t.attrs[f] \in {Unsaid, r.parts[f]}
               /\ t.attrs.digest \in {Unsaid, r.digest}
               /\ Placed(t, o, r)
    <3>1. Placed(t, o, r) /\ \E kind \in RegistryKinds : \E place : AsSaid(t, o, r, kind, place)
      BY <2>2, <2>3, ParsedPlaced
    <3>2. PICK kind \in RegistryKinds : \E place : AsSaid(t, o, r, kind, place)
      BY <3>1
    <3>3. PICK place : AsSaid(t, o, r, kind, place)
      BY <3>2
    <3> HIDE DEF t, o, r
    <3> QED BY <3>1, <3>3 DEF AsSaid, Placed
  <2>4. ASSUME NEW k \in RegistryKinds, t = Written(k), o = Plain PROVE r # Refusal /\ r.kind = k
    BY <2>4, WrittenTaken
  <2>5. input.target = t /\ input.options = o
    BY <2>1
  <2> HIDE DEF t, o, r
  <2> QED BY <2>2, <2>3, <2>4, <2>5 DEF ImageNeverContradicted, Placed
<1> QED BY <1>1, TriedHolds, PTL

-----------------------------------------------------------------------------
(***************************************************************************)
(* Discovery and its inventory                                             *)
(***************************************************************************)
AssetRecord == [state : {"absent", "live", "archived"}, integration : Integrations \cup {Nobody},
          source : Sources, stale : SUBSET Processes]
SyncRecord == [queue : SUBSET Integrations, at : Integrations \cup {Nobody},
               phase : {"reading", "read", "archived"}, page : Nat,
               batch : Seq(Assets), since : SUBSET Processes, owed : SUBSET Assets]
PostRecord == [asset : Assets \cup {Nobody}, integration : Integrations \cup {Nobody},
               source : Sources, since : SUBSET Processes]
DiscoveryTyped ==
    /\ rows \subseteq Integrations
    /\ inventory \in [Assets -> AssetRecord]
    /\ held \in [Integrations -> Seq(Assets)]
    /\ sync \in [Processes -> SyncRecord]
    /\ \A p \in Processes : IF sync[p].at = Nobody THEN sync[p].phase = "reading" ELSE sync[p].page >= 1
    /\ post \in PostRecord

\* An asset that is owed is on a page that is still to be read, or it waits for
\* its upsert, or it was seen after the sync began.
Ahead(p, a) ==
    LET list == held[sync[p].at] IN \E k \in DOMAIN list : k >= sync[p].page /\ list[k] = a
Passed(p) ==
    sync[p].at # Nobody =>
      \A a \in sync[p].owed :
        \/ sync[p].phase = "reading" /\ Ahead(p, a)
        \/ a \in ToSet(sync[p].batch)
        \/ p \notin inventory[a].stale
SeenInv == \A p \in Processes : Passed(p)

\* What is inserted into a list moves the others back, if at all.
LEMMA InsertAtKeeps ==
    ASSUME NEW S, NEW s \in Seq(S), NEW k \in 1..(Len(s) + 1), NEW e \in S
    PROVE  /\ InsertAt(s, k, e) \in Seq(S)
           /\ \A m \in DOMAIN s : \E l \in DOMAIN InsertAt(s, k, e) :
                l >= m /\ InsertAt(s, k, e)[l] = s[m]
<1> DEFINE front == SubSeq(s, 1, k - 1)
           back == SubSeq(s, k, Len(s))
           t == InsertAt(s, k, e)
<1>1. /\ front \in Seq(S) /\ Len(front) = k - 1 /\ \A m \in 1..(k - 1) : front[m] = s[m]
      /\ back \in Seq(S) /\ Len(back) = Len(s) + 1 - k
      /\ \A m \in 1..(Len(s) + 1 - k) : back[m] = s[k + m - 1]
  OBVIOUS
<1> DEFINE most == front \o <<e>>
<1>2. /\ most \in Seq(S) /\ Len(most) = k /\ \A m \in 1..(k - 1) : most[m] = front[m]
      /\ t = most \o back
  <2>1. <<e>> \in Seq(S) /\ Len(<<e>>) = 1 /\ t = most \o back
    BY DEF InsertAt
  <2> HIDE DEF front, back, t
  <2> QED BY <1>1, <2>1
<1> HIDE DEF front, back, t, most
<1>3. t \in Seq(S) /\ Len(t) = Len(s) + 1
  BY <1>1, <1>2
<1>4. ASSUME NEW m \in DOMAIN s PROVE \E l \in DOMAIN t : l >= m /\ t[l] = s[m]
  <2>1. m \in 1..Len(s) /\ DOMAIN t = 1..(Len(s) + 1)
    BY <1>3
  <2>2. CASE m < k
    <3>1. t[m] = front[m] /\ front[m] = s[m]
      BY <1>1, <1>2, <2>1, <2>2
    <3> QED BY <2>1, <3>1
  <2>3. CASE m >= k
    <3> DEFINE j == m + 1 - k
    <3>1. j \in 1..Len(back) /\ k + j = m + 1 /\ k + j - 1 = m
      BY <1>1, <2>1, <2>3
    <3>2. back[j] = s[m]
      BY <1>1, <3>1
    <3> HIDE DEF j
    <3>3. t[k + j] = back[j]
      BY <1>1, <1>2, <3>1
    <3>4. t[m + 1] = s[m]
      BY <3>1, <3>2, <3>3
    <3> QED BY <2>1, <2>3, <3>4
  <2> QED BY <2>1, <2>2, <2>3
<1> QED BY <1>3, <1>4 DEF t

\* What is removed from a list moves those behind it one place forward.
LEMMA RemoveAtKeeps ==
    ASSUME NEW S, NEW s \in Seq(S), NEW k \in DOMAIN s
    PROVE  /\ RemoveAt(s, k) \in Seq(S)
           /\ \A m \in DOMAIN s : m # k =>
                \E l \in DOMAIN RemoveAt(s, k) :
                  /\ l = IF m < k THEN m ELSE m - 1
                  /\ RemoveAt(s, k)[l] = s[m]
<1> DEFINE front == SubSeq(s, 1, k - 1)
           back == SubSeq(s, k + 1, Len(s))
           t == RemoveAt(s, k)
<1>1. k \in 1..Len(s)
  OBVIOUS
<1>2. /\ front \in Seq(S) /\ Len(front) = k - 1 /\ \A m \in 1..(k - 1) : front[m] = s[m]
      /\ back \in Seq(S) /\ Len(back) = Len(s) - k
      /\ \A m \in 1..(Len(s) - k) : back[m] = s[k + m]
  BY <1>1
<1>3. t = front \o back
  BY DEF RemoveAt
<1> HIDE DEF front, back, t
<1>4. t \in Seq(S) /\ Len(t) = Len(s) - 1 /\ DOMAIN t = 1..(Len(s) - 1)
  BY <1>1, <1>2, <1>3
<1>5. ASSUME NEW m \in DOMAIN s, m # k
      PROVE  \E l \in DOMAIN t : l = (IF m < k THEN m ELSE m - 1) /\ t[l] = s[m]
  <2>1. m \in 1..Len(s)
    OBVIOUS
  <2>2. CASE m < k
    <3>1. t[m] = front[m] /\ front[m] = s[m]
      BY <1>1, <1>2, <1>3, <2>1, <2>2
    <3> QED BY <1>1, <1>4, <2>1, <2>2, <3>1
  <2>3. CASE m > k
    <3>1. t[m - 1] = back[m - k] /\ back[m - k] = s[m]
      BY <1>1, <1>2, <1>3, <2>1, <2>3
    <3> QED BY <1>1, <1>4, <2>1, <2>3, <3>1
  <2> QED BY <1>1, <1>5, <2>1, <2>2, <2>3
<1> QED BY <1>4, <1>5 DEF t

\* A page holds what the list holds at its positions.
LEMMA PageHolds ==
    ASSUME NEW S, NEW s \in Seq(S), NEW m \in Nat \ {0}, NEW n \in Nat, m + n <= Len(s) + 1 \/ n = 0
    PROVE  /\ SubSeq(s, m, m + n - 1) \in Seq(S)
           /\ \A k \in m..(m + n - 1) : s[k] \in ToSet(SubSeq(s, m, m + n - 1))
<1> DEFINE t == SubSeq(s, m, m + n - 1)
<1>1. CASE n = 0
  <2>1. t = <<>>
    BY <1>1
  <2> QED BY <1>1, <2>1
<1>2. CASE n # 0
  <2>1. t \in Seq(S) /\ Len(t) = n /\ \A j \in 1..n : t[j] = s[m + j - 1]
    BY <1>2
  <2>2. ASSUME NEW k \in m..(m + n - 1) PROVE s[k] \in ToSet(t)
    <3>1. k - m + 1 \in DOMAIN t /\ t[k - m + 1] = s[k]
      BY <2>1
    <3> QED BY <3>1 DEF ToSet
  <2> QED BY <2>1, <2>2
<1> QED BY <1>1, <1>2

\* What waits after the first was upserted.
LEMMA TailHolds ==
    ASSUME NEW S, NEW s \in Seq(S), s # <<>>
    PROVE  /\ Head(s) \in S /\ Tail(s) \in Seq(S)
           /\ \A a \in ToSet(s) : a = Head(s) \/ a \in ToSet(Tail(s))
<1>1. Head(s) = s[1] /\ Head(s) \in S /\ Tail(s) \in Seq(S) /\ Len(Tail(s)) = Len(s) - 1
      /\ \A k \in 1..(Len(s) - 1) : Tail(s)[k] = s[k + 1]
  OBVIOUS
<1>2. ASSUME NEW a \in ToSet(s), a # Head(s) PROVE a \in ToSet(Tail(s))
  <2>1. PICK k \in DOMAIN s : a = s[k]
    BY <1>2 DEF ToSet
  <2>2. k \in 1..Len(s) /\ k # 1
    BY <1>1, <1>2, <2>1
  <2>3. k - 1 \in DOMAIN Tail(s) /\ Tail(s)[k - 1] = a
    BY <1>1, <2>1, <2>2
  <2> QED BY <2>3 DEF ToSet
<1> QED BY <1>1, <1>2

\* What an action makes of every asset, or of a sync, is well-formed.
LEMMA AssetsKept ==
    ASSUME NEW x \in AssetRecord, NEW S \in SUBSET Processes
    PROVE  /\ [x EXCEPT !.stale = S] \in AssetRecord
           /\ \A i \in Integrations \cup {Nobody} : [x EXCEPT !.integration = i] \in AssetRecord
           /\ \A c \in {"absent", "live", "archived"} : [x EXCEPT !.state = c] \in AssetRecord
  BY DEF AssetRecord

LEMMA SyncsKept ==
    ASSUME NEW x \in SyncRecord
    PROVE  /\ \A S \in SUBSET Integrations : [x EXCEPT !.queue = S] \in SyncRecord
           /\ \A S \in SUBSET Assets : [x EXCEPT !.owed = S] \in SyncRecord
           /\ [x EXCEPT !.phase = "archived"] \in SyncRecord
<1>1. ASSUME NEW S \in SUBSET Integrations PROVE [x EXCEPT !.queue = S] \in SyncRecord
  BY DEF SyncRecord
<1>2. ASSUME NEW S \in SUBSET Assets PROVE [x EXCEPT !.owed = S] \in SyncRecord
  BY DEF SyncRecord
<1>3. [x EXCEPT !.phase = "archived"] \in SyncRecord
  BY DEF SyncRecord
<1> QED BY <1>1, <1>2, <1>3

\* A process that gets work to do.
LEMMA QueueKeeps ==
    ASSUME DiscoveryTyped, NEW p \in Processes, NEW S \in SUBSET Integrations,
           sync' = [sync EXCEPT ![p].queue = S]
    PROVE  /\ sync' \in [Processes -> SyncRecord]
           /\ \A q \in Processes : sync'[q].at = sync[q].at /\ sync'[q].phase = sync[q].phase
                                   /\ sync'[q].page = sync[q].page
<1>1. sync \in [Processes -> SyncRecord] /\ sync[p] \in SyncRecord
  BY DEF DiscoveryTyped
<1>2. [sync[p] EXCEPT !.queue = S] \in SyncRecord
  BY <1>1, SyncsKept
<1>3. sync' = [sync EXCEPT ![p] = [sync[p] EXCEPT !.queue = S]]
  OBVIOUS
<1>4. sync' \in [Processes -> SyncRecord]
  BY <1>1, <1>2, <1>3
<1>5. /\ [sync[p] EXCEPT !.queue = S].at = sync[p].at
      /\ [sync[p] EXCEPT !.queue = S].phase = sync[p].phase
      /\ [sync[p] EXCEPT !.queue = S].page = sync[p].page
  BY <1>1 DEF SyncRecord
<1> QED BY <1>1, <1>3, <1>4, <1>5

\* A process without a sync, or at the start of one.
LEMMA IdleTyped ==
    ASSUME NEW queue \in SUBSET Integrations, NEW i \in Integrations \cup {Nobody}, NEW n \in Nat,
           NEW S \in SUBSET Assets
    PROVE  /\ [Idle EXCEPT !.queue = queue] \in SyncRecord
           /\ [Idle EXCEPT !.queue = queue, !.at = i, !.page = n, !.owed = S] \in SyncRecord
<1>1. Idle \in SyncRecord
  <2>1. <<>> \in Seq(Assets)
    OBVIOUS
  <2> QED BY <2>1 DEF Idle, SyncRecord
<1>2. ASSUME NEW x \in SyncRecord
      PROVE  /\ [x EXCEPT !.queue = queue] \in SyncRecord
             /\ [x EXCEPT !.queue = queue, !.at = i, !.page = n, !.owed = S] \in SyncRecord
  BY DEF SyncRecord
<1> QED BY <1>1, <1>2

\* A step leaves a sync where it was, and owed no more.
Untouched(q) ==
    /\ sync'[q].at = sync[q].at /\ sync'[q].phase = sync[q].phase /\ sync'[q].page = sync[q].page
    /\ sync'[q].batch = sync[q].batch /\ sync'[q].owed \subseteq sync[q].owed

\* Leaving an integration forgets the sync and nothing else.
LEMMA LeaveKeeps ==
    ASSUME DiscoveryTyped, NEW p \in Processes, NEW queue \in SUBSET Integrations, Leave(p, queue)
    PROVE  /\ inventory' \in [Assets -> AssetRecord]
           /\ sync' \in [Processes -> SyncRecord]
           /\ \A a \in Assets : /\ inventory'[a].state = inventory[a].state
                                 /\ inventory'[a].stale = inventory[a].stale \ {p}
           /\ sync'[p].at = Nobody /\ sync'[p].phase = "reading"
           /\ \A q \in Processes : q # p => Untouched(q)
           /\ rows' = rows /\ held' = held /\ post' \in PostRecord
<1>1. [Idle EXCEPT !.queue = queue] \in SyncRecord
  BY IdleTyped, 0 \in Nat
<1>2. /\ sync' = [q \in Processes |-> IF q = p THEN [Idle EXCEPT !.queue = queue]
                                      ELSE [sync[q] EXCEPT !.since = sync[q].since \ {p}]]
      /\ rows' = rows /\ held' = held
  BY DEF Leave
<1>3. ASSUME NEW q \in Processes, q # p PROVE sync'[q] \in SyncRecord /\ Untouched(q)
  <2>1. sync[q] \in SyncRecord /\ sync[q].since \ {p} \in SUBSET Processes
    BY DEF DiscoveryTyped, SyncRecord
  <2>2. sync'[q] = [sync[q] EXCEPT !.since = sync[q].since \ {p}]
    BY <1>2, <1>3
  <2> QED BY <2>1, <2>2 DEF SyncRecord, Untouched
<1>4. ASSUME NEW a \in Assets
      PROVE  /\ inventory'[a] \in AssetRecord
             /\ inventory'[a].state = inventory[a].state
             /\ inventory'[a].stale = inventory[a].stale \ {p}
  <2>1. inventory[a] \in AssetRecord /\ inventory[a].stale \ {p} \in SUBSET Processes
    BY DEF DiscoveryTyped, AssetRecord
  <2>2. inventory'[a] = [inventory[a] EXCEPT !.stale = inventory[a].stale \ {p}]
    BY DEF Leave
  <2> QED BY <2>1, <2>2, AssetsKept DEF AssetRecord
<1>5. inventory' = [a \in Assets |-> inventory'[a]]
  BY DEF Leave
<1>6. sync'[p] = [Idle EXCEPT !.queue = queue]
  BY <1>2
<1>7. sync'[p].at = Nobody /\ sync'[p].phase = "reading"
  BY <1>6 DEF Idle
<1>8. sync' \in [Processes -> SyncRecord]
  <2>1. \A q \in Processes : sync'[q] \in SyncRecord
    BY <1>1, <1>3, <1>6
  <2> QED BY <1>2, <2>1
<1>9. post' \in PostRecord
  <2>1. post \in PostRecord /\ post.since \ {p} \in SUBSET Processes
    BY DEF DiscoveryTyped, PostRecord
  <2>2. post' = [post EXCEPT !.since = post.since \ {p}]
    BY DEF Leave
  <2> QED BY <2>1, <2>2 DEF PostRecord
<1> QED BY <1>2, <1>3, <1>4, <1>5, <1>7, <1>8, <1>9

\* The ways a sync leaves an integration.
LEMMA Leaves ==
    ASSUME DiscoveryTyped, NEW p \in Processes, Done(p) \/ Fail(p) \/ Abort(p) \/ Crash(p)
    PROVE  \E queue \in SUBSET Integrations : Leave(p, queue)
<1>1. sync[p].queue \in SUBSET Integrations
  BY DEF DiscoveryTyped, SyncRecord
<1>2. {} \in SUBSET Integrations
  OBVIOUS
<1>3. (Done(p) \/ Fail(p) => Leave(p, sync[p].queue)) /\ (Abort(p) \/ Crash(p) => Leave(p, {}))
  BY DEF Done, Fail, Abort, Crash
<1> QED BY <1>1, <1>2, <1>3

\* What a write overtakes is owed no more; nothing else of a sync changes.
LEMMA OvertakenKeeps ==
    ASSUME DiscoveryTyped, NEW a, NEW since \in SUBSET Processes
    PROVE  LET after == Overtaken(a, since) IN
           /\ after \in [Processes -> SyncRecord]
           /\ \A q \in Processes :
                /\ after[q].at = sync[q].at /\ after[q].phase = sync[q].phase
                /\ after[q].page = sync[q].page /\ after[q].batch = sync[q].batch
                /\ after[q].owed \subseteq sync[q].owed
                /\ q \in since => a \notin after[q].owed
<1> DEFINE after == Overtaken(a, since)
<1>1. ASSUME NEW q \in Processes
      PROVE  /\ after[q] \in SyncRecord
             /\ after[q].at = sync[q].at /\ after[q].phase = sync[q].phase
             /\ after[q].page = sync[q].page /\ after[q].batch = sync[q].batch
             /\ after[q].owed \subseteq sync[q].owed
             /\ q \in since => a \notin after[q].owed
  <2>1. sync[q] \in SyncRecord /\ sync[q].owed \ {a} \in SUBSET Assets
    BY DEF DiscoveryTyped, SyncRecord
  <2>2. CASE q \in since
    <3>1. after[q] = [sync[q] EXCEPT !.owed = sync[q].owed \ {a}]
      BY <2>2 DEF Overtaken
    <3> QED BY <2>1, <3>1 DEF SyncRecord
  <2>3. CASE q \notin since
    <3>1. after[q] = sync[q]
      BY <2>3 DEF Overtaken
    <3> QED BY <2>1, <2>3, <3>1
  <2> QED BY <2>2, <2>3
<1>2. after = [q \in Processes |-> after[q]]
  BY DEF Overtaken
<1> HIDE DEF after
<1>3. after \in [Processes -> SyncRecord]
  BY <1>1, <1>2
<1> QED BY <1>1, <1>3 DEF after

\* An upsert, seen at the sync that makes it and at the others.
LEMMA UpsertKeeps ==
    ASSUME DiscoveryTyped, NEW p \in Processes, Upsert(p)
    PROVE  /\ sync' \in [Processes -> SyncRecord]
           /\ sync[p].at \in Integrations /\ sync[p].batch \in Seq(Assets) /\ sync[p].batch # <<>>
           /\ \A q \in Processes : q # p => Untouched(q)
           /\ sync'[p].at = sync[p].at /\ sync'[p].phase = sync[p].phase /\ sync'[p].page = sync[p].page
           /\ sync'[p].batch = Tail(sync[p].batch) /\ sync'[p].owed \subseteq sync[p].owed
           /\ \A q \in Processes : q \in sync[p].since => Head(sync[p].batch) \notin sync'[q].owed
<1> DEFINE a == Head(sync[p].batch)
           after == Overtaken(a, sync[p].since)
<1>1. sync[p].at \in Integrations /\ sync[p].batch \in Seq(Assets) /\ sync[p].batch # <<>>
      /\ sync[p].since \in SUBSET Processes
  BY DEF Upsert, DiscoveryTyped, SyncRecord
<1>2. a \in Assets /\ Tail(sync[p].batch) \in Seq(Assets)
  BY <1>1, TailHolds
<1>3. /\ after \in [Processes -> SyncRecord]
      /\ \A q \in Processes :
           /\ after[q].at = sync[q].at /\ after[q].phase = sync[q].phase
           /\ after[q].page = sync[q].page /\ after[q].batch = sync[q].batch
           /\ after[q].owed \subseteq sync[q].owed
           /\ q \in sync[p].since => a \notin after[q].owed
  <2> HIDE DEF a
  <2> QED BY <1>1, <1>2, OvertakenKeeps
<1>4. sync' = [after EXCEPT ![p] = [after[p] EXCEPT !.batch = Tail(after[p].batch), !.since = {}]]
  <2>1. sync' = [after EXCEPT ![p].batch = Tail(@), ![p].since = {}]
    BY DEF Upsert
  <2> HIDE DEF after
  <2> QED BY <2>1
<1> HIDE DEF a, after
<1>5. [after[p] EXCEPT !.batch = Tail(after[p].batch), !.since = {}] \in SyncRecord
  <2>1. after[p] \in SyncRecord /\ Tail(after[p].batch) \in Seq(Assets)
    BY <1>2, <1>3
  <2> QED BY <2>1 DEF SyncRecord
<1>6. sync' \in [Processes -> SyncRecord]
  BY <1>3, <1>4, <1>5
<1>7. \A q \in Processes : q # p => sync'[q] = after[q]
  BY <1>3, <1>4
<1>8. /\ sync'[p].at = after[p].at /\ sync'[p].phase = after[p].phase /\ sync'[p].page = after[p].page
      /\ sync'[p].batch = Tail(after[p].batch) /\ sync'[p].owed = after[p].owed
  <2>1. after[p] \in SyncRecord /\ sync'[p] = [after[p] EXCEPT !.batch = Tail(after[p].batch), !.since = {}]
    BY <1>3, <1>4
  <2> QED BY <2>1 DEF SyncRecord
<1>9. \A q \in Processes : q # p => Untouched(q)
  BY <1>3, <1>7 DEF Untouched
<1>10. \A q \in Processes : q \in sync[p].since => a \notin sync'[q].owed
  BY <1>3, <1>7, <1>8
<1> QED BY <1>1, <1>3, <1>6, <1>8, <1>9, <1>10 DEF a

\* The types of the discovery scheduler and its inventory.
LEMMA DiscoveryTypedHolds == Spec => []DiscoveryTyped
<1>1. Init => DiscoveryTyped
  <2> SUFFICES ASSUME Init PROVE DiscoveryTyped
    OBVIOUS
  <2>1. rows \subseteq Integrations /\ held \in [Integrations -> Seq(Assets)]
    BY DiscoveryAssumption DEF Init
  <2>2. NoAsset \in AssetRecord /\ NoPost \in PostRecord
    BY DEF NoAsset, AssetRecord, NoPost, PostRecord, Sources
  <2>3. Idle \in SyncRecord /\ Idle.at = Nobody /\ Idle.phase = "reading"
    <3>1. <<>> \in Seq(Assets)
      OBVIOUS
    <3> QED BY <3>1 DEF Idle, SyncRecord
  <2> HIDE DEF NoAsset
  <2> QED BY <2>1, <2>2, <2>3 DEF Init, DiscoveryTyped
<1>2. ASSUME DiscoveryTyped, [Next]_vars PROVE DiscoveryTyped'
  <2> USE <1>2 DEF DiscoveryTyped
  <2>1. ASSUME NEW p \in Processes, Sweep(p) PROVE DiscoveryTyped'
    <3>1. sync' = [sync EXCEPT ![p].queue = rows] /\ UNCHANGED <<rows, inventory, held, post>>
      BY <2>1 DEF Sweep
    <3>2. rows \in SUBSET Integrations
      OBVIOUS
    <3> QED BY <3>1, <3>2, QueueKeeps
  <2>2. ASSUME NEW p \in Processes, NEW i \in Integrations, NEW late \in SUBSET Processes, Begin(p, i, late)
        PROVE  DiscoveryTyped'
    <3>1. [Idle EXCEPT !.queue = sync[p].queue \ {i}, !.at = i, !.page = 1, !.owed = ToSet(held[i])] \in SyncRecord
      <4>1. ToSet(held[i]) \subseteq Assets
        BY DEF ToSet
      <4>2. sync[p].queue \ {i} \in SUBSET Integrations
        BY DEF SyncRecord
      <4> QED BY <4>1, <4>2, IdleTyped, 1 \in Nat
    <3> DEFINE fresh == [Idle EXCEPT !.queue = sync[p].queue \ {i}, !.at = i, !.page = 1, !.owed = ToSet(held[i])]
    <3>2. ASSUME NEW q \in Processes
          PROVE  /\ sync'[q] \in SyncRecord
                 /\ IF sync'[q].at = Nobody THEN sync'[q].phase = "reading" ELSE sync'[q].page >= 1
      <4>1. sync'[q] = IF q = p THEN fresh
                       ELSE [sync[q] EXCEPT !.since = IF q \in late THEN sync[q].since \cup {p} ELSE sync[q].since]
        BY <2>2 DEF Begin
      <4>2. fresh.at = i /\ fresh.page = 1
        BY DEF Idle
      <4> HIDE DEF fresh
      <4>3. sync[q] \in SyncRecord /\ sync[q].since \cup {p} \in SUBSET Processes
            /\ sync[q].since \in SUBSET Processes
        BY DEF SyncRecord
      <4>4. CASE q = p
        <5>1. fresh \in SyncRecord
          BY <3>1 DEF fresh
        <5> QED BY <4>1, <4>2, <4>4, <5>1, DiscoveryAssumption
      <4>5. CASE q # p
        <5>1. \E S \in SUBSET Processes : sync'[q] = [sync[q] EXCEPT !.since = S]
          BY <4>1, <4>3, <4>5
        <5>2. sync'[q] \in SyncRecord /\ sync'[q].at = sync[q].at /\ sync'[q].phase = sync[q].phase
              /\ sync'[q].page = sync[q].page
          BY <4>3, <5>1 DEF SyncRecord
        <5> QED BY <5>2
      <4> QED BY <4>4, <4>5
    <3>3. ASSUME NEW a \in Assets PROVE inventory'[a] \in AssetRecord
      <4>1. inventory[a] \in AssetRecord /\ inventory[a].stale \cup {p} \in SUBSET Processes
        BY DEF AssetRecord
      <4>2. inventory'[a] = [inventory[a] EXCEPT !.stale = inventory[a].stale \cup {p}]
        BY <2>2 DEF Begin
      <4> QED BY <4>1, <4>2, AssetsKept
    <3>4. inventory' \in [Assets -> AssetRecord]
      BY <2>2, <3>3 DEF Begin
    <3>5. sync' \in [Processes -> SyncRecord]
      BY <2>2, <3>2 DEF Begin
    <3>6. post' \in PostRecord
      <4>1. post \in PostRecord /\ post.since \cup {p} \in SUBSET Processes /\ post.since \in SUBSET Processes
        BY DEF PostRecord
      <4>2. \E S \in SUBSET Processes : post' = [post EXCEPT !.since = S]
        BY <2>2, <4>1 DEF Begin
      <4> QED BY <4>1, <4>2 DEF PostRecord
    <3>7. rows' = rows /\ held' = held
      BY <2>2 DEF Begin
    <3> QED BY <3>2, <3>4, <3>5, <3>6, <3>7
  <2>3. ASSUME NEW p \in Processes, NEW n \in 0..Cardinality(Assets), ReadPage(p, n) PROVE DiscoveryTyped'
    <3> DEFINE list == held[sync[p].at]
               batch == SubSeq(list, sync[p].page, sync[p].page + n - 1)
    <3>1. n \in Nat
      BY DiscoveryAssumption, FS_CardinalityType
    <3>2. sync[p].at \in Integrations /\ sync[p].page \in Nat \ {0}
      BY <2>3 DEF ReadPage, SyncRecord
    <3>3. list \in Seq(Assets) /\ (sync[p].page + n <= Len(list) + 1 \/ n = 0)
      BY <2>3, <3>1, <3>2 DEF ReadPage
    <3>4. batch \in Seq(Assets)
      BY <3>1, <3>2, <3>3, PageHolds
    <3> DEFINE next(phase) == [sync[p] EXCEPT !.phase = phase, !.page = sync[p].page + n, !.batch = batch]
    <3>5. PICK phase \in {"reading", "read"} : sync' = [sync EXCEPT ![p] = next(phase)]
      <4>1. \E phase \in {"reading", "read"} :
              sync' = [sync EXCEPT ![p].phase = phase, ![p].page = sync[p].page + n, ![p].batch = batch]
        <5>1. sync[p].page + n - 1 = (sync[p].page + n) - 1
          BY <3>1, <3>2
        <5> QED BY <2>3, <5>1 DEF ReadPage
      <4> HIDE DEF batch
      <4> QED BY <4>1
    <3> HIDE DEF list, batch
    <3>6. next(phase) \in SyncRecord
      <4>1. sync[p] \in SyncRecord /\ sync[p].page + n \in Nat
        BY <3>1, <3>2
      <4> QED BY <3>4, <4>1 DEF SyncRecord
    <3>7. sync' \in [Processes -> SyncRecord]
      <4> HIDE DEF next
      <4> QED BY <3>5, <3>6
    <3>8. sync'[p].at = sync[p].at /\ sync'[p].page >= 1 /\ \A q \in Processes : q # p => sync'[q] = sync[q]
      BY <3>1, <3>2, <3>5
    <3> QED BY <2>3, <3>2, <3>7, <3>8, DiscoveryAssumption DEF ReadPage
  <2>4. ASSUME NEW p \in Processes, Upsert(p) PROVE DiscoveryTyped'
    <3>1. sync[p].at \in Integrations /\ sync[p].since \in SUBSET Processes
      BY <2>4 DEF Upsert, SyncRecord
    <3>2. [state |-> "live", integration |-> sync[p].at, source |-> "provider", stale |-> sync[p].since] \in AssetRecord
      BY <3>1 DEF AssetRecord, Sources
    <3>3. inventory' \in [Assets -> AssetRecord]
      BY <2>4, <3>2 DEF Upsert
    <3>4. /\ sync' \in [Processes -> SyncRecord]
          /\ \A q \in Processes : sync'[q].at = sync[q].at /\ sync'[q].phase = sync[q].phase
                                  /\ sync'[q].page = sync[q].page
      BY <2>4, UpsertKeeps DEF Untouched
    <3> QED BY <2>4, <3>3, <3>4 DEF Upsert
  <2>5. ASSUME NEW p \in Processes, ArchiveStale(p) PROVE DiscoveryTyped'
    <3>1. [sync[p] EXCEPT !.phase = "archived"] \in SyncRecord /\ sync[p].at # Nobody
      <4>1. sync[p] \in SyncRecord /\ sync[p].phase = "read"
        BY <2>5 DEF ArchiveStale
      <4> QED BY <4>1, SyncsKept
    <3>2. sync' = [sync EXCEPT ![p] = [sync[p] EXCEPT !.phase = "archived"]]
      BY <2>5 DEF ArchiveStale
    <3>3. sync' \in [Processes -> SyncRecord]
      BY <3>1, <3>2
    <3>4. sync'[p].at = sync[p].at /\ sync'[p].page = sync[p].page
          /\ \A q \in Processes : q # p => sync'[q] = sync[q]
      BY <3>2
    <3>5. ASSUME NEW a \in Assets PROVE inventory'[a] \in AssetRecord
      <4>1. \E c \in {"absent", "live", "archived"} : inventory'[a] = [inventory[a] EXCEPT !.state = c]
        <5>1. inventory[a].state \in {"absent", "live", "archived"}
          BY DEF AssetRecord
        <5> QED BY <2>5, <5>1 DEF ArchiveStale
      <4>2. inventory[a].stale \in SUBSET Processes /\ inventory[a] \in AssetRecord
        BY DEF AssetRecord
      <4> QED BY <4>1, <4>2, AssetsKept
    <3>6. inventory' \in [Assets -> AssetRecord]
      BY <2>5, <3>5 DEF ArchiveStale
    <3> QED BY <2>5, <3>1, <3>3, <3>4, <3>6 DEF ArchiveStale
  <2>6. ASSUME NEW p \in Processes, Done(p) \/ Fail(p) \/ Abort(p) \/ Crash(p) PROVE DiscoveryTyped'
    <3>1. PICK queue \in SUBSET Integrations : Leave(p, queue)
      BY <2>6, Leaves
    <3> QED BY <3>1, LeaveKeeps DEF Untouched
  <2>7. ASSUME NEW p \in Processes, NEW i \in Integrations, ConnectGitHub(p, i) PROVE DiscoveryTyped'
    <3>1. /\ sync' = [sync EXCEPT ![p].queue = {i}] /\ rows' = rows \cup {i}
          /\ UNCHANGED <<inventory, held, post>>
      BY <2>7 DEF ConnectGitHub
    <3>2. {i} \in SUBSET Integrations
      OBVIOUS
    <3> QED BY <3>1, <3>2, QueueKeeps
  <2>8. ASSUME NEW i \in Integrations, RemoveIntegration(i) PROVE DiscoveryTyped'
    <3>1. ASSUME NEW a \in Assets PROVE inventory'[a] \in AssetRecord
      BY <2>8 DEF RemoveIntegration, AssetRecord
    <3>2. inventory' \in [Assets -> AssetRecord]
      BY <2>8, <3>1 DEF RemoveIntegration
    <3> QED BY <2>8, <3>2 DEF RemoveIntegration
  <2>9. ASSUME NEW i \in Integrations, NEW a \in Assets, Appear(i, a) PROVE DiscoveryTyped'
    <3>1. PICK k \in 1..(Len(held[i]) + 1) : held' = [held EXCEPT ![i] = InsertAt(held[i], k, a)]
      BY <2>9 DEF Appear
    <3>2. InsertAt(held[i], k, a) \in Seq(Assets)
      BY InsertAtKeeps
    <3>3. held' \in [Integrations -> Seq(Assets)]
      BY <3>1, <3>2
    <3> QED BY <2>9, <3>3 DEF Appear
  <2>10. ASSUME NEW i \in Integrations, NEW a \in Assets, Disappear(i, a) PROVE DiscoveryTyped'
    <3>1. PICK k \in DOMAIN held[i] :
            /\ held' = [held EXCEPT ![i] = RemoveAt(held[i], k)]
            /\ sync' = [p \in Processes |->
                          IF sync[p].at # i THEN sync[p]
                          ELSE [sync[p] EXCEPT !.owed = IF k < sync[p].page THEN {} ELSE sync[p].owed \ {a}]]
      BY <2>10 DEF Disappear
    <3>2. RemoveAt(held[i], k) \in Seq(Assets)
      BY RemoveAtKeeps
    <3>3. held' \in [Integrations -> Seq(Assets)]
      BY <3>1, <3>2
    <3>4. ASSUME NEW p \in Processes
          PROVE  /\ sync'[p] \in SyncRecord
                 /\ sync'[p].at = sync[p].at /\ sync'[p].phase = sync[p].phase /\ sync'[p].page = sync[p].page
      <4>1. \A S \in SUBSET Assets : [sync[p] EXCEPT !.owed = S] \in SyncRecord
        <5>1. sync[p] \in SyncRecord
          OBVIOUS
        <5> QED BY <5>1, SyncsKept
      <4>2. sync[p].owed \in SUBSET Assets
        BY DEF SyncRecord
      <4>3. sync'[p] = sync[p] \/ \E S \in SUBSET Assets : sync'[p] = [sync[p] EXCEPT !.owed = S]
        BY <3>1, <4>2
      <4>4. sync[p] \in SyncRecord
        OBVIOUS
      <4>5. ASSUME NEW S \in SUBSET Assets
            PROVE  LET y == [sync[p] EXCEPT !.owed = S] IN
                     y.at = sync[p].at /\ y.phase = sync[p].phase /\ y.page = sync[p].page
        BY <4>4 DEF SyncRecord
      <4> QED BY <4>1, <4>3, <4>4, <4>5
    <3>5. sync' \in [Processes -> SyncRecord]
      BY <3>1, <3>4
    <3> QED BY <2>10, <3>3, <3>4, <3>5 DEF Disappear
  <2>11. ASSUME NEW a \in Assets, NEW source \in Sources, PostAsset(a, source) PROVE DiscoveryTyped'
    <3>1. inventory[a].integration \in Integrations \cup {Nobody}
      BY DEF AssetRecord
    <3>2. post' \in PostRecord
      BY <2>11, <3>1 DEF PostAsset, PostRecord
    <3> QED BY <2>11, <3>2 DEF PostAsset
  <2>12. CASE WritePosted
    <3>1. NoPost \in PostRecord
      BY DEF NoPost, PostRecord, Sources
    <3>2. [state |-> "live", integration |-> post.integration, source |-> post.source, stale |-> post.since] \in AssetRecord
      BY DEF PostRecord, AssetRecord
    <3>3. inventory' \in [Assets -> AssetRecord]
      BY <2>12, <3>2 DEF WritePosted
    <3>4. /\ sync' \in [Processes -> SyncRecord]
          /\ \A q \in Processes : sync'[q].at = sync[q].at /\ sync'[q].phase = sync[q].phase
                                  /\ sync'[q].page = sync[q].page
      <4>1. CASE sync' = sync
        BY <4>1
      <4>2. CASE sync' = Overtaken(post.asset, post.since)
        <5>1. post.since \in SUBSET Processes
          BY DEF PostRecord
        <5> QED BY <4>2, <5>1, OvertakenKeeps
      <4> QED BY <2>12, <4>1, <4>2 DEF WritePosted
    <3> QED BY <2>12, <3>1, <3>3, <3>4 DEF WritePosted
  <2>13. CASE UNCHANGED vars
    BY <2>13 DEF vars
  <2> QED BY <2>1, <2>2, <2>3, <2>4, <2>5, <2>6, <2>7, <2>8, <2>9, <2>10, <2>11, <2>12, <2>13 DEF Next, Step
<1> QED BY <1>1, <1>2, PTL DEF Spec

\* A step that leaves a sync and its provider alone, or ends the sync, and makes
\* nothing that it is owed look unseen.
LEMMA PassedStays ==
    ASSUME NEW q \in Processes, DiscoveryTyped, Passed(q), held' = held,
           Untouched(q) \/ sync'[q].at = Nobody,
           \A a \in sync'[q].owed : q \in inventory'[a].stale => q \in inventory[a].stale
    PROVE  Passed(q)'
  BY DEF Passed, Ahead, Untouched

\* What a sync is owed it reads and sees, unless the provider deletes it, or
\* shifts it.
LEMMA SeenInvHolds == Spec => []SeenInv
<1>1. Init => SeenInv
  BY DEF Init, SeenInv, Passed, Idle
<1>2. ASSUME DiscoveryTyped, SeenInv, [Next]_vars PROVE SeenInv'
  <2> SUFFICES ASSUME NEW q \in Processes PROVE Passed(q)'
    BY DEF SeenInv
  <2> USE <1>2
  <2> DEFINE j == sync[q].at
             Owed(a) == \/ sync'[q].phase = "reading" /\ Ahead(q, a)'
                        \/ a \in ToSet(sync'[q].batch)
                        \/ q \notin inventory'[a].stale
  <2>a. Passed(q)
    BY DEF SeenInv
  <2>b. sync[q].owed \subseteq Assets /\ sync[q].batch \in Seq(Assets) /\ sync[q].page \in Nat
        /\ (j # Nobody => j \in Integrations /\ held[j] \in Seq(Assets) /\ sync[q].page >= 1)
    BY DEF DiscoveryTyped, SyncRecord
  <2>1. ASSUME NEW p \in Processes, Sweep(p) PROVE Passed(q)'
    <3>1. held' = held /\ inventory' = inventory
      BY <2>1 DEF Sweep
    <3>2. Untouched(q) \/ sync'[q].at = Nobody
      BY <2>1 DEF Sweep, Idle, DiscoveryTyped, Untouched
    <3> QED BY <2>a, <3>1, <3>2, PassedStays
  <2>2. ASSUME NEW p \in Processes, NEW i \in Integrations, NEW late \in SUBSET Processes, Begin(p, i, late)
        PROVE  Passed(q)'
    <3>1. CASE q = p
      <4>1. /\ sync'[q].at = i /\ sync'[q].phase = "reading" /\ sync'[q].page = 1
            /\ sync'[q].owed = ToSet(held[i]) /\ held' = held
        BY <2>2, <3>1 DEF Begin, Idle, DiscoveryTyped
      <4>2. ASSUME NEW a \in ToSet(held[i]) PROVE Ahead(q, a)'
        <5>1. held[i] \in Seq(Assets)
          BY DEF DiscoveryTyped
        <5>2. PICK k \in DOMAIN held[i] : held[i][k] = a
          BY DEF ToSet
        <5>3. k >= 1
          BY <5>1
        <5> QED BY <4>1, <5>2, <5>3 DEF Ahead
      <4> QED BY <4>1, <4>2 DEF Passed
    <3>2. CASE q # p
      <4>1. Untouched(q) /\ held' = held
        <5>1. \E S : sync'[q] = [sync[q] EXCEPT !.since = S]
          BY <2>2, <3>2 DEF Begin
        <5>2. sync[q] \in SyncRecord
          BY DEF DiscoveryTyped
        <5> QED BY <2>2, <5>1, <5>2 DEF Begin, SyncRecord, Untouched
      <4>2. \A a \in Assets : q \in inventory'[a].stale => q \in inventory[a].stale
        BY <2>2, <3>2 DEF Begin, DiscoveryTyped, AssetRecord
      <4>3. sync'[q].owed \subseteq Assets
        BY <2>b, <4>1 DEF Untouched
      <4> QED BY <2>a, <4>1, <4>2, <4>3, PassedStays
    <3> QED BY <3>1, <3>2
  <2>3. ASSUME NEW p \in Processes, NEW n \in 0..Cardinality(Assets), ReadPage(p, n) PROVE Passed(q)'
    <3>1. held' = held /\ inventory' = inventory
      BY <2>3 DEF ReadPage
    <3>2. CASE q # p
      <4>1. Untouched(q)
        BY <2>3, <3>2 DEF ReadPage, DiscoveryTyped, Untouched
      <4> QED BY <2>a, <3>1, <4>1, PassedStays
    <3>3. CASE q = p
      <4> DEFINE list == held[j]
                 next == sync[q].page + n
                 batch == SubSeq(list, sync[q].page, next - 1)
      <4>1. n \in Nat /\ j # Nobody
        BY <2>3, <3>3, DiscoveryAssumption, FS_CardinalityType DEF ReadPage
      <4>2. list \in Seq(Assets) /\ sync[q].page \in Nat \ {0}
        BY <2>b, <4>1
      <4>3. /\ sync[q].batch = <<>>
            /\ next <= Len(list) + 1 \/ n = 0
            /\ n = 0 => sync[q].page > Len(list)
        BY <2>3, <3>3 DEF ReadPage
      <4>4. /\ sync'[q].at = j /\ sync'[q].owed = sync[q].owed /\ sync'[q].page = next
            /\ sync'[q].batch = batch
            /\ sync'[q].phase \in {"reading", "read"}
            /\ sync'[q].phase = "read" => next > Len(list)
        BY <2>3, <3>3 DEF ReadPage, DiscoveryTyped, SyncRecord
      <4>5. \A k \in sync[q].page..(next - 1) : list[k] \in ToSet(batch)
        BY <4>1, <4>2, <4>3, PageHolds
      <4> HIDE DEF list, batch
      <4>6. ASSUME NEW a \in sync[q].owed PROVE Owed(a)
        <5>1. a \notin ToSet(sync[q].batch)
          BY <4>3 DEF ToSet
        <5>2. CASE q \notin inventory[a].stale
          BY <3>1, <5>2
        <5>3. CASE Ahead(q, a)
          <6>1. PICK k \in DOMAIN list : k >= sync[q].page /\ list[k] = a
            BY <5>3 DEF Ahead, list
          <6>2. k \in 1..Len(list)
            BY <4>2
          <6>3. CASE k < next
            <7>1. k \in sync[q].page..(next - 1)
              BY <4>1, <4>2, <6>1, <6>2, <6>3
            <7> QED BY <4>4, <4>5, <6>1, <7>1
          <6>4. CASE k >= next
            <7>1. sync'[q].phase = "reading"
              BY <4>1, <4>2, <4>4, <6>2, <6>4
            <7>2. Ahead(q, a)'
              BY <3>1, <4>4, <6>1, <6>4 DEF Ahead, list
            <7> QED BY <7>1, <7>2
          <6> QED BY <4>1, <4>2, <6>2, <6>3, <6>4
        <5> QED BY <2>a, <4>1, <5>1, <5>2, <5>3 DEF Passed
      <4> QED BY <4>4, <4>6 DEF Passed
    <3> QED BY <3>2, <3>3
  <2>4. ASSUME NEW p \in Processes, Upsert(p) PROVE Passed(q)'
    <3> DEFINE b == Head(sync[p].batch)
    <3>1. held' = held /\ sync[p].batch \in Seq(Assets) /\ sync[p].batch # <<>>
      BY <2>4, UpsertKeeps DEF Upsert
    <3>2. b \in Assets
      BY <3>1, TailHolds
    <3>3. \A a \in Assets : IF a = b THEN inventory'[a].stale = sync[p].since ELSE inventory'[a] = inventory[a]
      BY <2>4, <3>2 DEF Upsert, DiscoveryTyped
    <3>4. q \in sync[p].since => b \notin sync'[q].owed
      BY <2>4, UpsertKeeps
    <3>5. sync'[q].owed \subseteq sync[q].owed
      BY <2>4, UpsertKeeps DEF Untouched
    <3> HIDE DEF b
    <3>6. \A a \in sync'[q].owed : q \in inventory'[a].stale => q \in inventory[a].stale
      BY <2>b, <3>3, <3>4, <3>5
    <3>7. CASE q # p
      <4>1. Untouched(q)
        BY <2>4, <3>7, UpsertKeeps
      <4> QED BY <2>a, <3>1, <3>6, <4>1, PassedStays
    <3>8. CASE q = p
      <4>1. /\ sync'[q].at = j /\ sync'[q].page = sync[q].page
            /\ sync'[q].phase = sync[q].phase /\ sync'[q].batch = Tail(sync[q].batch)
        BY <2>4, <3>8, UpsertKeeps
      <4>2. ASSUME j # Nobody, NEW a \in sync'[q].owed PROVE Owed(a)
        <5>1. a \in Assets /\ a \in sync[q].owed
          BY <2>b, <3>5
        <5>2. CASE a = b
          BY <3>3, <3>4, <5>1, <5>2
        <5>3. CASE a # b
          <6>1. a \in ToSet(sync[q].batch) => a \in ToSet(sync'[q].batch)
            BY <3>1, <3>8, <4>1, <5>3, TailHolds DEF b
          <6>2. Ahead(q, a) => Ahead(q, a)'
            BY <3>1, <4>1 DEF Ahead
          <6> QED BY <2>a, <3>6, <4>1, <4>2, <5>1, <6>1, <6>2 DEF Passed
        <5> QED BY <5>2, <5>3
      <4> QED BY <4>1, <4>2 DEF Passed
    <3> QED BY <3>7, <3>8
  <2>5. ASSUME NEW p \in Processes, ArchiveStale(p) PROVE Passed(q)'
    <3>1. held' = held
      BY <2>5 DEF ArchiveStale
    <3>2. \A a \in Assets : inventory'[a].stale = inventory[a].stale
      BY <2>5 DEF ArchiveStale, DiscoveryTyped, AssetRecord
    <3>3. CASE q # p
      <4>1. Untouched(q)
        BY <2>5, <3>3 DEF ArchiveStale, DiscoveryTyped, Untouched
      <4> QED BY <2>a, <2>b, <3>1, <3>2, <4>1, PassedStays DEF Untouched
    <3>4. CASE q = p
      <4>1. /\ sync'[q].at = j /\ sync'[q].owed = sync[q].owed /\ sync'[q].batch = sync[q].batch
            /\ sync[q].phase = "read"
        BY <2>5, <3>4 DEF ArchiveStale, DiscoveryTyped, SyncRecord
      <4>2. ASSUME j # Nobody, NEW a \in sync[q].owed PROVE Owed(a)
        <5>1. a \in Assets
          BY <2>b
        <5> QED BY <2>a, <3>2, <4>1, <4>2, <5>1 DEF Passed
      <4> QED BY <4>1, <4>2 DEF Passed
    <3> QED BY <3>3, <3>4
  <2>6. ASSUME NEW p \in Processes, Done(p) \/ Fail(p) \/ Abort(p) \/ Crash(p) PROVE Passed(q)'
    <3>1. PICK queue \in SUBSET Integrations : Leave(p, queue)
      BY <2>6, Leaves
    <3>2. held' = held /\ (Untouched(q) \/ sync'[q].at = Nobody)
          /\ \A a \in Assets : q \in inventory'[a].stale => q \in inventory[a].stale
      BY <3>1, LeaveKeeps
    <3>3. CASE Untouched(q)
      <4>1. sync'[q].owed \subseteq Assets
        BY <2>b, <3>3 DEF Untouched
      <4> QED BY <2>a, <3>2, <3>3, <4>1, PassedStays
    <3>4. CASE sync'[q].at = Nobody
      BY <3>4 DEF Passed
    <3> QED BY <3>2, <3>3, <3>4
  <2>7. ASSUME NEW p \in Processes, NEW i \in Integrations, ConnectGitHub(p, i) PROVE Passed(q)'
    <3>1. held' = held /\ inventory' = inventory
      BY <2>7 DEF ConnectGitHub
    <3>2. Untouched(q) \/ sync'[q].at = Nobody
      BY <2>7 DEF ConnectGitHub, Idle, DiscoveryTyped, Untouched
    <3> QED BY <2>a, <3>1, <3>2, PassedStays
  <2>8. ASSUME NEW i \in Integrations, RemoveIntegration(i) PROVE Passed(q)'
    <3>1. held' = held /\ sync' = sync
      BY <2>8 DEF RemoveIntegration
    <3>2. \A a \in Assets : inventory'[a].stale = inventory[a].stale
      BY <2>8 DEF RemoveIntegration, DiscoveryTyped, AssetRecord
    <3> QED BY <2>a, <2>b, <3>1, <3>2, PassedStays DEF Untouched
  <2>9. ASSUME NEW i \in Integrations, NEW a \in Assets, Appear(i, a) PROVE Passed(q)'
    <3>1. sync' = sync /\ inventory' = inventory
      BY <2>9 DEF Appear
    <3>2. CASE j # i
      <4>1. j # Nobody => held'[j] = held[j]
        BY <2>9, <2>b, <3>2 DEF Appear, DiscoveryTyped
      <4> QED BY <2>a, <3>1, <4>1 DEF Passed, Ahead
    <3>3. CASE j = i
      <4> DEFINE list == held[i]
      <4>1. PICK k \in 1..(Len(list) + 1) : held'[i] = InsertAt(list, k, a)
        BY <2>9 DEF Appear, DiscoveryTyped
      <4>2. list \in Seq(Assets)
        BY DEF DiscoveryTyped
      <4>3. /\ held'[i] \in Seq(Assets)
            /\ \A m \in DOMAIN list : \E l \in DOMAIN held'[i] : l >= m /\ held'[i][l] = list[m]
        <5> HIDE DEF list
        <5>1. /\ InsertAt(list, k, a) \in Seq(Assets)
              /\ \A m \in DOMAIN list : \E l \in DOMAIN InsertAt(list, k, a) :
                   l >= m /\ InsertAt(list, k, a)[l] = list[m]
          BY <4>2, InsertAtKeeps
        <5> QED BY <4>1, <5>1
      <4>4. ASSUME NEW b, Ahead(q, b) PROVE Ahead(q, b)'
        <5>1. PICK m \in DOMAIN list : m >= sync[q].page /\ list[m] = b
          BY <3>3, <4>4 DEF Ahead
        <5>2. PICK l \in DOMAIN held'[i] : l >= m /\ held'[i][l] = list[m]
          BY <4>3
        <5>3. l >= sync[q].page
          BY <2>b, <4>2, <4>3, <5>1, <5>2
        <5> QED BY <3>1, <3>3, <5>1, <5>2, <5>3 DEF Ahead
      <4> QED BY <2>a, <3>1, <4>4 DEF Passed
    <3> QED BY <3>2, <3>3
  <2>10. ASSUME NEW i \in Integrations, NEW a \in Assets, Disappear(i, a) PROVE Passed(q)'
    <3> DEFINE list == held[i]
    <3>1. PICK k \in DOMAIN list :
            /\ list[k] = a /\ held'[i] = RemoveAt(list, k)
            /\ \A m \in Integrations : m # i => held'[m] = held[m]
            /\ sync'[q] = IF j # i THEN sync[q]
                          ELSE [sync[q] EXCEPT !.owed = IF k < sync[q].page THEN {} ELSE sync[q].owed \ {a}]
      BY <2>10 DEF Disappear, DiscoveryTyped
    <3>2. inventory' = inventory
      BY <2>10 DEF Disappear
    <3>3. CASE j # i
      <4>1. j # Nobody => held'[j] = held[j]
        BY <2>b, <3>1, <3>3
      <4> QED BY <2>a, <3>1, <3>2, <3>3, <4>1 DEF Passed, Ahead
    <3>4. CASE j = i
      <4>1. /\ sync'[q].at = i /\ sync'[q].phase = sync[q].phase /\ sync'[q].batch = sync[q].batch
            /\ sync'[q].page = sync[q].page
            /\ sync'[q].owed = IF k < sync[q].page THEN {} ELSE sync[q].owed \ {a}
        BY <3>1, <3>4 DEF DiscoveryTyped, SyncRecord
      <4>2. list \in Seq(Assets)
        BY DEF DiscoveryTyped
      <4>3. /\ held'[i] \in Seq(Assets)
            /\ \A m \in DOMAIN list : m # k =>
                 \E l \in DOMAIN held'[i] : l = (IF m < k THEN m ELSE m - 1) /\ held'[i][l] = list[m]
        BY <3>1, <4>2, RemoveAtKeeps
      <4>4. ASSUME k >= sync[q].page, NEW b, b # a, Ahead(q, b) PROVE Ahead(q, b)'
        <5>1. PICK m \in DOMAIN list : m >= sync[q].page /\ list[m] = b
          BY <3>4, <4>4 DEF Ahead
        <5>2. m # k
          BY <3>1, <4>4, <5>1
        <5>3. PICK l \in DOMAIN held'[i] : l = (IF m < k THEN m ELSE m - 1) /\ held'[i][l] = list[m]
          BY <4>3, <5>2
        <5>4. l >= sync[q].page
          BY <2>b, <4>2, <4>4, <5>1, <5>2, <5>3
        <5> QED BY <4>1, <5>1, <5>3, <5>4 DEF Ahead
      <4>5. k >= sync[q].page \/ k < sync[q].page
        BY <2>b, <4>2
      <4> QED BY <2>a, <3>2, <3>4, <4>1, <4>4, <4>5 DEF Passed
    <3> QED BY <3>3, <3>4
  <2>11. ASSUME NEW a \in Assets, NEW source \in Sources, PostAsset(a, source) PROVE Passed(q)'
    <3>1. held' = held /\ sync' = sync /\ inventory' = inventory
      BY <2>11 DEF PostAsset
    <3> QED BY <2>a, <3>1, PassedStays DEF Untouched
  <2>12. CASE WritePosted
    <3>1. held' = held
      BY <2>12 DEF WritePosted
    <3>2. CASE UNCHANGED <<inventory, sync>>
      BY <2>a, <3>1, <3>2, PassedStays DEF Untouched
    <3>3. CASE ~UNCHANGED <<inventory, sync>>
      <4>1. sync' = Overtaken(post.asset, post.since) /\ post.since \in SUBSET Processes
        BY <2>12, <3>3 DEF WritePosted, DiscoveryTyped, PostRecord
      <4>2. Untouched(q) /\ (q \in post.since => post.asset \notin sync'[q].owed)
        BY <4>1, OvertakenKeeps DEF Untouched
      <4>3. \A a \in Assets : IF a = post.asset THEN inventory'[a].stale = post.since
                             ELSE inventory'[a] = inventory[a]
        BY <2>12, <3>3 DEF WritePosted, DiscoveryTyped
      <4>4. \A a \in sync'[q].owed : q \in inventory'[a].stale => q \in inventory[a].stale
        BY <2>b, <4>2, <4>3 DEF Untouched
      <4> QED BY <2>a, <3>1, <4>2, <4>4, PassedStays
    <3> QED BY <3>2, <3>3
  <2>13. CASE UNCHANGED vars
    BY <2>a, <2>13 DEF vars, Passed, Ahead
  <2> QED BY <2>1, <2>2, <2>3, <2>4, <2>5, <2>6, <2>7, <2>8, <2>9, <2>10, <2>11, <2>12, <2>13 DEF Next, Step
<1> QED BY <1>1, <1>2, DiscoveryTypedHolds, PTL DEF Spec

\* However syncs overlap, fail, are aborted or read pages of a changing
\* provider, and whatever is POSTed meanwhile, an asset is archived only at the
\* end of a sync of the integration that saw it last, and never one that the
\* provider listed all the time since that sync began, unless a deletion shifted
\* it past the reader or a slow write of it was overtaken by the sync
\* (syncIntegration, archiveStale).
THEOREM ArchivedWasGoneHolds == Spec => ArchivedWasGone
<1> DEFINE Right(a) ==
      Live(a) /\ inventory'[a].state = "archived" =>
        \E p \in Processes :
          /\ sync[p].phase = "read" /\ sync'[p].phase = "archived"
          /\ inventory[a].integration = sync[p].at
          /\ a \notin sync[p].owed
<1>1. ASSUME DiscoveryTyped, SeenInv, [Next]_vars, NEW a \in Assets PROVE Right(a)
  <2> USE <1>1
  <2> SUFFICES ASSUME Live(a), inventory'[a].state = "archived"
               PROVE  \E p \in Processes :
                        /\ sync[p].phase = "read" /\ sync'[p].phase = "archived"
                        /\ inventory[a].integration = sync[p].at
                        /\ a \notin sync[p].owed
    OBVIOUS
  <2>1. PICK p \in Processes : ArchiveStale(p)
    <3>1. ASSUME NEW p \in Processes, Upsert(p) PROVE FALSE
      <4>1. inventory'[a].state = "live" \/ inventory'[a] = inventory[a]
        BY <3>1 DEF Upsert, DiscoveryTyped
      <4> QED BY <4>1 DEF Live
    <3>2. ASSUME NEW p \in Processes, Done(p) \/ Fail(p) \/ Crash(p) \/ Abort(p) PROVE FALSE
      <4>1. PICK queue \in SUBSET Integrations : Leave(p, queue)
        BY <3>2, Leaves
      <4>2. inventory'[a].state = inventory[a].state
        BY <4>1, LeaveKeeps
      <4> QED BY <4>2 DEF Live
    <3>3. ASSUME NEW p \in Processes, NEW i \in Integrations, NEW late \in SUBSET Processes, Begin(p, i, late)
          PROVE  FALSE
      <4>1. inventory'[a].state = inventory[a].state
        BY <3>3 DEF Begin, DiscoveryTyped, AssetRecord
      <4> QED BY <4>1 DEF Live
    <3>4. ASSUME NEW p \in Processes PROVE /\ ~Sweep(p)
                                           /\ \A i \in Integrations : ~ConnectGitHub(p, i)
                                           /\ \A n \in 0..Cardinality(Assets) : ~ReadPage(p, n)
      BY DEF Sweep, ConnectGitHub, ReadPage, Live
    <3>5. ASSUME NEW i \in Integrations, RemoveIntegration(i) PROVE FALSE
      BY <3>5 DEF RemoveIntegration, Live, DiscoveryTyped, AssetRecord
    <3>6. ASSUME NEW i \in Integrations, NEW b \in Assets, Appear(i, b) \/ Disappear(i, b) PROVE FALSE
      BY <3>6 DEF Appear, Disappear, Live
    <3>7. ASSUME NEW b \in Assets, NEW source \in Sources, PostAsset(b, source) PROVE FALSE
      BY <3>7 DEF PostAsset, Live
    <3>8. ~WritePosted
      BY DEF WritePosted, Live, DiscoveryTyped
    <3>9. ~UNCHANGED vars
      BY DEF vars, Live
    <3> QED BY <3>1, <3>2, <3>3, <3>4, <3>5, <3>6, <3>7, <3>8, <3>9 DEF Next, Step
  <2>2. /\ sync[p].phase = "read" /\ sync'[p].phase = "archived" /\ sync[p].batch = <<>>
        /\ sync[p].at # Nobody
    BY <2>1 DEF ArchiveStale, DiscoveryTyped, SyncRecord
  <2>3. inventory[a].integration = sync[p].at /\ p \in inventory[a].stale
    BY <2>1 DEF ArchiveStale, Live, DiscoveryTyped, AssetRecord
  <2>4. a \notin ToSet(sync[p].batch)
    BY <2>2 DEF ToSet
  <2> QED BY <2>2, <2>3, <2>4 DEF SeenInv, Passed
<1>2. DiscoveryTyped /\ SeenInv /\ [Next]_vars => [\A a \in Assets : Right(a)]_vars
  BY <1>1
<1>3. Spec => [][\A a \in Assets : Right(a)]_vars
  BY <1>2, DiscoveryTypedHolds, SeenInvHolds, PTL DEF Spec
<1> QED BY <1>3 DEF ArchivedWasGone

-----------------------------------------------------------------------------
(***************************************************************************)
(* Publishing a verdict                                                    *)
(***************************************************************************)
Words == {"none", "running", "success", "failure", "failed", "SUCCESSFUL", "FAILED"}
CallRecord == [at : {"rest", "list", "write"}, verdict : Words, row : Nat, attempt : Nat, blind : BOOLEAN]
PublicationTyped ==
    /\ target.forge \in Forges
    /\ told \in Seq(Words)
    /\ buried \in BOOLEAN
    /\ call \in [Callers -> CallRecord]

\* A call that is about to write where there is nothing it knows of: there is
\* nothing, unless it is blind.  That of a GitLab deployment knows its row.
Knows(p) ==
    call[p].at = "write" /\ target.forge # "bitbucket" =>
      /\ target.forge = "gitlabDeployment" => call[p].row = 1
      /\ call[p].row = 0 /\ ~call[p].blind => told = <<>>
PublicationInv == PublicationTyped /\ \A p \in Callers : Knows(p)

\* A verdict is one of its forge's words, or pending.
LEMMA ConcludedWords ==
    ASSUME NEW scan, NEW policies, NEW exceptions, NEW action, NEW words
    PROVE  concludeByAction(scan, policies, exceptions, action, words)
             \in {"pending", words.matched, words.unmatched}
  BY DEF concludeByAction

\* The words that a forge can be told.
LEMMA PreparedWords == ASSUME target.forge \in Forges PROVE Prepared.verdict \in Words \cup {"pending"}
<1>1. concludeScan(Scan, Policies, {}) \in {"pending", "failed", "passed"}
  BY ConcludedWords DEF concludeScan
<1>2. concludeDeploy(Scan, Policies, {}) \in {"pending", "blocked", "allowed"}
  BY ConcludedWords DEF concludeDeploy
<1>3. prepareChecks(target).verdict \in Words \cup {"pending"}
  BY <1>1 DEF prepareChecks, checkConclusionFromScan, Verdict, Words
<1>4. prepareGithubDeployment(target).verdict \in Words \cup {"pending"}
  BY <1>2 DEF prepareGithubDeployment, deploymentStatusFromDeploy, Verdict, Words
<1>5. prepareGitlabStatus(target).verdict \in Words \cup {"pending"}
  BY <1>1 DEF prepareGitlabStatus, gitlabCommitStatusFromScan, Verdict, Words
<1>6. prepareGitlabDeployment(target).verdict \in Words \cup {"pending"}
  BY <1>2 DEF prepareGitlabDeployment, gitlabDeploymentStatusFromDeploy, Verdict, Words
<1>7. prepareBitbucket(target).verdict \in Words \cup {"pending"}
  BY <1>1 DEF prepareBitbucket, bitbucketBuildStateFromScan, Verdict, Words
<1> QED BY <1>3, <1>4, <1>5, <1>6, <1>7 DEF Prepared, Forges

\* What a call may go on with, while the forge does not act.
LEMMA GoesOn ==
    ASSUME PublicationInv, NEW p \in Callers, NEW next \in CallRecord, GoTo(p, next),
           next.at = "write" /\ target.forge # "bitbucket" =>
             /\ target.forge = "gitlabDeployment" => next.row = 1
             /\ next.row = 0 /\ ~next.blind => told = <<>>
    PROVE  PublicationInv'
<1>1. call' = [call EXCEPT ![p] = next] /\ told' = told /\ target' = target /\ buried' = buried
  BY DEF GoTo
<1>2. PublicationTyped'
  BY <1>1 DEF PublicationInv, PublicationTyped
<1>3. ASSUME NEW q \in Callers PROVE Knows(q)'
  <2>1. call'[q] = IF q = p THEN next ELSE call[q]
    BY <1>1 DEF PublicationInv, PublicationTyped
  <2> QED BY <1>1, <2>1 DEF PublicationInv, Knows
<1> QED BY <1>2, <1>3 DEF PublicationInv

\* The forge acts on a call that goes on as next.
LEMMA Acts ==
    ASSUME PublicationInv, NEW p \in Callers, NEW next \in CallRecord, Act(p, next),
           next.at = "rest" \/ next.blind, next.at = "write" => next.row = call[p].row
    PROVE  PublicationInv'
<1> USE DEF PublicationInv, PublicationTyped
<1>1. call[p] \in CallRecord /\ call[p].at = "write" /\ call[p].verdict \in Words /\ call[p].row \in Nat
  BY DEF Act, CallRecord
<1>2. RowWritten(p) \in Seq(Words)
  <2>1. <<call[p].verdict>> \in Seq(Words) /\ Append(told, call[p].verdict) \in Seq(Words)
    BY <1>1
  <2>2. [told EXCEPT ![call[p].row] = call[p].verdict] \in Seq(Words)
    <3>1. told \in [1..Len(told) -> Words] /\ Len(told) \in Nat
      OBVIOUS
    <3>2. [told EXCEPT ![call[p].row] = call[p].verdict] \in [1..Len(told) -> Words]
      BY <1>1, <3>1
    <3> QED BY <3>1, <3>2
  <2> QED BY <2>1, <2>2 DEF RowWritten
<1>3. ASSUME NEW q \in Callers
      PROVE  call'[q] = IF q = p THEN next
                        ELSE IF call[q].at = "write" THEN [call[q] EXCEPT !.blind = TRUE] ELSE call[q]
  BY DEF Act
<1>4. ASSUME NEW q \in Callers PROVE call'[q] \in CallRecord
  <2>1. call[q] \in CallRecord
    OBVIOUS
  <2>2. [call[q] EXCEPT !.blind = TRUE] \in CallRecord
    BY <2>1 DEF CallRecord
  <2> QED BY <1>3, <2>1, <2>2
<1>5. target' = target /\ told' = RowWritten(p) /\ buried' \in BOOLEAN
  BY DEF Act
<1>6. PublicationTyped'
  BY <1>2, <1>4, <1>5 DEF Act
<1>7. ASSUME NEW q \in Callers PROVE Knows(q)'
  <2>1. CASE q = p
    BY <1>1, <1>3, <1>5, <2>1 DEF Knows
  <2>2. CASE q # p /\ call[q].at = "write"
    <3>1. call'[q].row = call[q].row /\ call'[q].blind
      <4>1. call[q] \in CallRecord
        OBVIOUS
      <4>2. call'[q] = [call[q] EXCEPT !.blind = TRUE]
        BY <1>3, <2>2
      <4> QED BY <4>1, <4>2 DEF CallRecord
    <3> QED BY <1>5, <2>2, <3>1 DEF Knows
  <2>3. CASE q # p /\ call[q].at # "write"
    BY <1>3, <2>3 DEF Knows
  <2> QED BY <2>1, <2>2, <2>3
<1> QED BY <1>6, <1>7

\* A call about to create a row that is not blind knows that there is none.
LEMMA PublicationInvHolds == PublicationSpec => []PublicationInv
<1>1. PublicationInit => PublicationInv
  <2> SUFFICES ASSUME PublicationInit PROVE PublicationInv
    OBVIOUS
  <2>1. target.forge \in Forges
    <3>1. PICK t \in ScansToTell, f \in Forges : target = [t EXCEPT !.forge = f]
      BY DEF PublicationInit
    <3>2. "forge" \in DOMAIN t
      BY <3>1 DEF ScansToTell, Known
    <3> QED BY <3>1, <3>2
  <2>2. told \in Seq(Words)
    <3>1. <<"running">> \in Seq(Words) /\ <<>> \in Seq(Words)
      BY DEF Words
    <3> QED BY <3>1 DEF PublicationInit
  <2>3. Resting \in CallRecord
    BY DEF Resting, CallRecord, Words
  <2>4. \A p \in Callers : call[p].at = "rest"
    BY DEF PublicationInit, Resting
  <2> QED BY <2>1, <2>2, <2>3, <2>4 DEF PublicationInit, PublicationInv, PublicationTyped, Knows
<1>2. ASSUME PublicationInv, [PublicationNext]_publicationVars PROVE PublicationInv'
  <2> USE <1>2
  <2>a. /\ Resting \in CallRecord /\ Resting.at = "rest"
        /\ \A p \in Callers : call[p] \in CallRecord
    BY DEF Resting, CallRecord, Words, PublicationInv, PublicationTyped
  <2>b. Shown \in Nat /\ (Shown = 0 /\ ~buried => told = <<>>)
    BY DEF Shown, PublicationInv, PublicationTyped
  <2>1. ASSUME NEW p \in Callers, Prepare(p) PROVE PublicationInv'
    <3>1. CASE UNCHANGED call
      BY <2>1, <3>1 DEF Prepare, PublicationInv, PublicationTyped, Knows
    <3>2. CASE call' # call
      <4> DEFINE next == [call[p] EXCEPT !.verdict = Prepared.verdict,
                            !.at = IF target.forge = "bitbucket" THEN "write" ELSE "list"]
      <4>1. Prepared.verdict \in Words
        BY <2>1, <3>2, PreparedWords DEF Prepare, PublicationInv, PublicationTyped
      <4>2. next \in CallRecord
        BY <2>a, <4>1 DEF CallRecord
      <4>3. call' = [call EXCEPT ![p] = next]
        BY <2>1, <3>2 DEF Prepare
      <4>4. target.forge # "bitbucket" => next.at # "write"
        BY <2>a DEF CallRecord
      <4>5. PublicationTyped'
        BY <2>1, <4>2, <4>3 DEF Prepare, PublicationInv, PublicationTyped
      <4>6. ASSUME NEW q \in Callers PROVE Knows(q)'
        <5>1. call'[q] = IF q = p THEN next ELSE call[q]
          BY <4>3 DEF PublicationInv, PublicationTyped
        <5> HIDE DEF next
        <5> QED BY <2>1, <4>4, <5>1 DEF Prepare, PublicationInv, Knows
      <4> QED BY <4>5, <4>6 DEF PublicationInv
    <3> QED BY <3>1, <3>2
  <2>2. ASSUME NEW p \in Callers, Throw(p) PROVE PublicationInv'
    BY <2>2, <2>a, GoesOn DEF Throw, End
  <2>3. ASSUME NEW p \in Callers, ListCheckRuns(p) PROVE PublicationInv'
    <3>1. PICK ok \in BOOLEAN :
            GoTo(p, [call[p] EXCEPT !.at = "write", !.row = IF ok THEN Shown ELSE 0, !.blind = ~ok \/ buried])
      BY <2>3 DEF ListCheckRuns
    <3> DEFINE next == [call[p] EXCEPT !.at = "write", !.row = IF ok THEN Shown ELSE 0,
                          !.blind = ~ok \/ buried]
    <3>2. next \in CallRecord /\ next.row = (IF ok THEN Shown ELSE 0) /\ next.blind = (~ok \/ buried)
      BY <2>a, <2>b DEF CallRecord, PublicationInv, PublicationTyped
    <3> HIDE DEF next
    <3>3. next.row = 0 /\ ~next.blind => told = <<>>
      BY <2>b, <3>2
    <3> QED BY <2>3, <3>1, <3>2, <3>3, GoesOn DEF ListCheckRuns, next
  <2>4. ASSUME NEW p \in Callers, ListDeploymentStatuses(p) \/ ListCommitStatuses(p) PROVE PublicationInv'
    <3>1. CASE Shown > 0
      BY <2>4, <2>a, <3>1, GoesOn DEF ListDeploymentStatuses, ListCommitStatuses, End
    <3>2. CASE ~(Shown > 0)
      <4> DEFINE next == [call[p] EXCEPT !.at = "write", !.blind = buried]
      <4>1. next \in CallRecord /\ next.blind = buried
        BY <2>a DEF CallRecord, PublicationInv, PublicationTyped
      <4>2. GoTo(p, next) /\ target.forge # "gitlabDeployment"
        BY <2>4, <3>2 DEF ListDeploymentStatuses, ListCommitStatuses
      <4> HIDE DEF next
      <4>3. ~next.blind => told = <<>>
        BY <2>b, <3>2, <4>1
      <4> QED BY <4>1, <4>2, <4>3, GoesOn
    <3> QED BY <3>1, <3>2
  <2>5. ASSUME NEW p \in Callers, GetDeployment(p) PROVE PublicationInv'
    <3>1. CASE told[1] = call[p].verdict
      BY <2>5, <2>a, <3>1, GoesOn DEF GetDeployment, End
    <3>2. CASE told[1] # call[p].verdict
      <4> DEFINE next == [call[p] EXCEPT !.at = "write", !.row = 1]
      <4>1. next \in CallRecord /\ next.row = 1
        BY <2>a DEF CallRecord
      <4>2. GoTo(p, next)
        BY <2>5, <3>2 DEF GetDeployment
      <4> HIDE DEF next
      <4> QED BY <4>1, <4>2, GoesOn
    <3> QED BY <3>1, <3>2
  <2>6. ASSUME NEW p \in Callers, Answered(p) PROVE PublicationInv'
    BY <2>6, <2>a, Acts DEF Answered
  <2>7. ASSUME NEW p \in Callers, AnswerLost(p) PROVE PublicationInv'
    <3>1. Again(p) \in CallRecord /\ Again(p).blind /\ Again(p).row = call[p].row
      <4>1. Again(p) = [call[p] EXCEPT !.attempt = call[p].attempt + 1, !.blind = TRUE]
        BY DEF Again
      <4>2. call[p] \in CallRecord
        BY <2>a
      <4>3. call[p].attempt + 1 \in Nat
        BY <4>2 DEF CallRecord
      <4> QED BY <4>1, <4>2, <4>3 DEF CallRecord
    <3> QED BY <2>7, <3>1, Acts DEF AnswerLost
  <2>8. ASSUME NEW p \in Callers, RequestLost(p) PROVE PublicationInv'
    <3> DEFINE next == [call[p] EXCEPT !.attempt = call[p].attempt + 1]
    <3>1. /\ next \in CallRecord /\ next.row = call[p].row /\ next.blind = call[p].blind
          /\ next.at = call[p].at
      BY <2>a DEF CallRecord
    <3>2. GoTo(p, next)
      BY <2>8 DEF RequestLost
    <3>3. Knows(p)
      BY DEF PublicationInv
    <3> HIDE DEF next
    <3> QED BY <3>1, <3>2, <3>3, GoesOn DEF Knows
  <2>9. ASSUME NEW f \in Reported, Ingest(f) \/ Triage(f) PROVE PublicationInv'
    BY <2>9 DEF Ingest, Triage, PublicationInv, PublicationTyped, Knows
  <2>10. ASSUME Bury \/ UNCHANGED publicationVars PROVE PublicationInv'
    BY <2>10 DEF Bury, publicationVars, PublicationInv, PublicationTyped, Knows
  <2> QED BY <2>1, <2>2, <2>3, <2>4, <2>5, <2>6, <2>7, <2>8, <2>9, <2>10 DEF PublicationNext
<1> QED BY <1>1, <1>2, PTL DEF PublicationSpec

\* However calls to publish overlap, fail and lose their answers, a forge gets a
\* second row for a scan only from a call that could not know of the first, and
\* never where a row has a key of its own (upsertCheckRun and its like).
THEOREM OneRowPerScanHolds == PublicationSpec => OneRowPerScan
<1> DEFINE Excused == Len(told') > Len(told) /\ told # <<>> =>
          /\ target.forge \notin {"gitlabDeployment", "bitbucket"}
          /\ \E p \in Callers : call[p].at = "write" /\ call[p].blind /\ call'[p] # call[p]
<1>1. ASSUME PublicationInv, [PublicationNext]_publicationVars, Len(told') > Len(told), told # <<>>
      PROVE  /\ target.forge \notin {"gitlabDeployment", "bitbucket"}
             /\ \E p \in Callers : call[p].at = "write" /\ call[p].blind /\ call'[p] # call[p]
  <2> USE <1>1
  <2>0. told \in Seq(Words) /\ Len(told) >= 1
    BY DEF PublicationInv, PublicationTyped
  <2>1. told' # told
    BY <2>0
  <2>2. PICK p \in Callers : Answered(p) \/ AnswerLost(p)
    BY <2>1 DEF PublicationNext, publicationVars, Prepare, Throw, End, GoTo, ListCheckRuns,
       ListDeploymentStatuses, ListCommitStatuses, GetDeployment, RequestLost, Ingest, Triage, Bury
  <2>3. told' = RowWritten(p) /\ call[p].at = "write"
    BY <2>2 DEF Answered, AnswerLost, Act
  <2>4. call[p] \in CallRecord /\ Knows(p)
    BY DEF PublicationInv, PublicationTyped
  <2>5. target.forge # "bitbucket"
    BY <2>0, <2>3 DEF RowWritten
  <2>6. call[p].row = 0
    <3>1. ASSUME call[p].row > 0 PROVE FALSE
      <4>1. told' = [told EXCEPT ![call[p].row] = call[p].verdict]
        BY <2>3, <2>5, <3>1 DEF RowWritten
      <4>2. Len(told') = Len(told)
        BY <2>0, <4>1
      <4> QED BY <2>0, <4>2
    <3> QED BY <2>4, <3>1 DEF CallRecord
  <2>7. target.forge # "gitlabDeployment" /\ call[p].blind
    BY <2>3, <2>4, <2>5, <2>6 DEF Knows, CallRecord
  <2>8. call'[p] # call[p]
    <3>1. call'[p] = Resting \/ call'[p] = Again(p)
      BY <2>2 DEF Answered, AnswerLost, Act
    <3>2. Resting # call[p]
      BY <2>3 DEF Resting
    <3>3. Again(p).attempt = call[p].attempt + 1 /\ call[p].attempt \in Nat
      BY <2>4 DEF Again, CallRecord
    <3>4. Again(p) # call[p]
      BY <3>3
    <3> QED BY <3>1, <3>2, <3>4
  <2> QED BY <2>3, <2>5, <2>7, <2>8
<1>2. PublicationInv /\ [PublicationNext]_publicationVars => [Excused]_publicationVars
  BY <1>1
<1>3. PublicationSpec => [][Excused]_publicationVars
  BY <1>2, PublicationInvHolds, PTL DEF PublicationSpec
<1> QED BY <1>3 DEF OneRowPerScan
=============================================================================
