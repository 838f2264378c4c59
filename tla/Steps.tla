-------------------------------- MODULE Steps --------------------------------
(***************************************************************************)
(* What an asynchronous function does, as a value: the items it yields,    *)
(* whether it ends without throwing, and the URLs a credential is sent to. *)
(***************************************************************************)
EXTENDS InventoryEgress, SequencesExt

Empty == [items |-> {}, done |-> TRUE, dials |-> {}]
Refused == [Empty EXCEPT !.done = FALSE]
Guarded(ok, r) == IF ok THEN r ELSE Refused

\* b runs after a, unless a threw.
Then(a, b) == IF a.done THEN [items |-> a.items \cup b.items, done |-> b.done,
                              dials |-> a.dials \cup b.dials]
              ELSE a
InOrder(results) == FoldLeft(Then, Empty, results)
\* Nothing is yielded of what is collected first and cut short.
Silent(r) == [items |-> {}, done |-> r.done, dials |-> r.dials]
Whole(r) == IF r.done THEN r ELSE Silent(r)

\* A request with a credential, and its answer, which a redirect may bring.
Sends(redirect, url, answer) ==
    [Empty EXCEPT !.done = Followed(redirect, answer.moved),
                  !.dials = {url} \cup SentOn(redirect, answer.moved)]
Granted(answer) == answer.status = "ok" /\ answer.body = "list"
Exchange(redirect, url, answer) == Then(Sends(redirect, url, answer), Guarded(Granted(answer), Empty))
=============================================================================
