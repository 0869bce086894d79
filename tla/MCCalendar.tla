----------------------------- MODULE MCCalendar -----------------------------
(***************************************************************************)
(* A week of two days of two minutes of two ticks.  Whole lives of claims  *)
(* under every schedule of one or two entries, and retries under a few.    *)
(***************************************************************************)
EXTENDS Calendar

MCEntries == {e \in [days: (SUBSET {0, 1}) \ {{}}, start: {0, 1}, end: {1, 2},
                     offset: {0, 1, 2}] : e.start < e.end}
MCSchedules == {{e, f} : e, f \in MCEntries}

MCPool(entries, k, ov) ==
    [entries |-> entries, K |-> k, override |-> ov, expireAfter |-> 21, TGP |-> 1,
     readyTimeout |-> 1, cooldown |-> 0, drainEstimate |-> Nil,
     provisioningEstimate |-> Nil, retryBackoff |-> 1]

MCClaim(n, born, ea, tgp) ==
    [name |-> n, createdAt |-> born, deleting |-> FALSE, expireAfter |-> ea, TGP |-> tgp,
     ready |-> TRUE, state |-> "fresh", failedAt |-> Unset, retryCount |-> 0]

\* Two lives from creation to deadline, one like the template, one with its own terms;
\* one that is short of lead time; and one of override mode.
MCLives ==
    {[pool |-> MCPool(s, 2, Unset), excluded |-> {}, start |-> t, failures |-> 0,
      until |-> t + 22, claims |-> <<MCClaim(1, t, 21, 1), MCClaim(2, t, 20, Unset)>>] :
        s \in MCSchedules, t \in 8..15}
    \cup
    {[pool |-> MCPool(s, 2, Unset), excluded |-> {}, start |-> t, failures |-> 0,
      until |-> t + 13, claims |-> <<MCClaim(1, t, 12, 1)>>] :
        s \in {{e} : e \in MCEntries}, t \in 8..15}
    \cup
    {[pool |-> MCPool(s, 1, ov), excluded |-> {}, start |-> t, failures |-> 0,
      until |-> t + 22, claims |-> <<MCClaim(1, t, 21, 1)>>] :
        s \in {{e} : e \in MCEntries}, t \in 8..15, ov \in {1, 3, 5, 12}}

\* Claims past their trigger, in windows that touch, wrap, or leave a gap of less than
\* a minute; a torn failure, a claim not ready, one an operator protects, one that
\* never expires.
MCRetries ==
    LET e(d, a, b, o) == [days |-> d, start |-> a, end |-> b, offset |-> o] IN
    {[pool |-> [MCPool(s, 2, ov) EXCEPT !.cooldown = 1, !.drainEstimate = 3,
                                        !.provisioningEstimate = 2],
      excluded |-> x, start |-> 24, failures |-> 2, until |-> 40, claims |-> cs] :
        s \in {{e({0}, 0, 2, 0)}, {e({0, 1}, 0, 1, 0)}, {e({1}, 0, 2, 2)},
               {e({0}, 0, 1, 0), e({0}, 1, 2, 1)}},
        ov \in {Unset, 3}, x \in {{}, {2}},
        cs \in {<<MCClaim(1, 12, 24, 1), MCClaim(2, 12, 24, 1)>>,
                <<[MCClaim(1, 10, 24, 1) EXCEPT !.retryCount = 2],
                  [MCClaim(2, 7, 30, 2) EXCEPT !.state = "failed"]>>,
                <<[MCClaim(1, 8, 30, 1) EXCEPT !.ready = FALSE],
                  MCClaim(2, 5, Unset, 1),
                  [MCClaim(3, 4, 34, 1) EXCEPT !.retryCount = 1]>>}}

MCScenarios == MCLives \cup MCRetries

=============================================================================
